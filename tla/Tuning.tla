------------------------------- MODULE Tuning -------------------------------
(***************************************************************************)
(* What DialConfig and the handshake of connection.go agree on: how the    *)
(* options of the URI and of Config are merged, and how the result is      *)
(* weighed against what the server proposes in connection.start and        *)
(* connection.tune.  Heartbeats of Config are in milliseconds (a           *)
(* time.Duration), those of the URI and of the protocol in seconds.        *)
(***************************************************************************)
EXTENDS Integers, Sequences

maxChannelMax     == 65535   \* (2 << 15) - 1
defaultChannelMax == 2047    \* (2 << 10) - 1
defaultHeartbeat  == 10000
maxHeartbeat      == 65535   \* in seconds, what connection.tune-ok can carry

Absent == -1   \* the URI has no heartbeat parameter

max(a, b) == IF a > b THEN a ELSE b
min(a, b) == IF a < b THEN a ELSE b

\* pick and pickUInt16.  (Mutated form: 0 is taken for a limit like any other.)
pickSmallest(client, server) == min(client, server)

pick(client, server) == IF client = 0 \/ server = 0 THEN max(client, server)
                                                    ELSE min(client, server)

\* DialConfig: the URI takes precedence for the heartbeat, Config for the rest.
dialHeartbeat(uri, config) ==
  IF uri.heartbeat # Absent THEN 1000 * uri.heartbeat
  ELSE IF config.heartbeat = 0 THEN defaultHeartbeat ELSE config.heartbeat

dialSASL(uri, config) ==
  IF config.sasl # <<>> THEN config.sasl
  ELSE IF uri.authMechanism # <<>> THEN uri.authMechanism ELSE <<"PLAIN">>

DialConfig(uri, config) ==
  [sasl       |-> dialSASL(uri, config),
   heartbeat  |-> dialHeartbeat(uri, config),
   channelMax |-> IF config.channelMax = 0 THEN uri.channelMax ELSE config.channelMax,
   frameSize  |-> config.frameSize]

\* pickSASLMechanism: the first mechanism of the client that the server has.
SharedMechanisms(sasl, mechanisms) == {i \in DOMAIN sasl : sasl[i] \in mechanisms}

\* openTune: what the connection uses, and what connection.tune-ok announces.
tuneChannelMax(client, server) ==
  LET picked == pick(client, server)
  IN min(IF picked = 0 THEN defaultChannelMax ELSE picked, maxChannelMax)

openTuneLimits(config, tune) ==
  [channelMax |-> tuneChannelMax(config.channelMax, tune.channelMax),
   frameSize  |-> pick(config.frameSize, tune.frameMax),
   heartbeat  |-> pick(config.heartbeat \div 1000, tune.heartbeat)]

uint16(n) == n % 65536

tuneOk(limits) == [channelMax |-> uint16(limits.channelMax),
                   frameMax   |-> limits.frameSize,  \* FrameSize fits in 32 bits
                   heartbeat  |-> uint16(limits.heartbeat)]
=============================================================================
