---------------------------- MODULE MCConnection ----------------------------
(***************************************************************************)
(* Connection for TLC: one scenario for each thing that goes wrong (a      *)
(* transport that refuses deadlines together with a silent server), and    *)
(* one with a server that shares no mechanism.  Between them they meet     *)
(* every case of pick: neither side sets a limit, one of them, both.       *)
(***************************************************************************)
EXTENDS Connection

Dial(hbt, mech, chmax) == [heartbeat |-> hbt, authMechanism |-> mech, channelMax |-> chmax]
Cfg(hbt, chmax, size) == [sasl |-> <<>>, heartbeat |-> hbt, channelMax |-> chmax, frameSize |-> size]
Offers(hbt, chmax, size) ==
  [mechanisms |-> {"PLAIN", "AMQPLAIN"}, channelMax |-> chmax, frameMax |-> size, heartbeat |-> hbt]

Scenario(uri, cfg, server, f) == [uri |-> uri, config |-> cfg, server |-> server, faults |-> f]

AllScenarios ==
  {Scenario(Dial(Absent, <<>>, 0), Cfg(0, 0, 0), Offers(60, 2047, 131072), {"close", "secure"}),
   Scenario(Dial(5, <<>>, 9), Cfg(20000, 7, 0), Offers(0, 0, 0), {"deaf", "listener"}),
   Scenario(Dial(Absent, <<>>, 65535), Cfg(1500, 0, 4096), Offers(2, 65535, 131072), {"silent"}),
   Scenario(Dial(0, <<"EXTERNAL", "AMQPLAIN">>, 0), Cfg(0, 0, 131072), Offers(0, 0, 4096), {"content"}),
   Scenario(Dial(Absent, <<>>, 5), Cfg(0, 0, 0), Offers(10, 0, 0), {"drop"}),
   Scenario(Dial(0, <<>>, 0), Cfg(0, 2047, 4096), Offers(30, 100, 0), {"blocked"}),
   Scenario(Dial(Absent, <<"EXTERNAL">>, 0), Cfg(0, 0, 0), Offers(60, 0, 0), {}),
   Scenario(Dial(Absent, <<>>, 0), Cfg(0, 0, 0), Offers(0, 0, 0), {"refuses", "silent"})}

=============================================================================
