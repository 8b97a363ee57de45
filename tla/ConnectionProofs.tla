-------------------------- MODULE ConnectionProofs ---------------------------
(***************************************************************************)
(* Client and server go by the same limits, whatever either of them sets   *)
(* and whatever goes wrong around the handshake.                           *)
(***************************************************************************)
EXTENDS Connection, FiniteSetTheorems, TLAPS

LEMMA Widths == /\ maxChannelMax \in Nat /\ 2047 <= maxChannelMax /\ maxChannelMax < 65536
                /\ maxHeartbeat \in Nat /\ 10 <= maxHeartbeat /\ maxHeartbeat < 65536
  BY SMT DEF maxChannelMax, maxHeartbeat

\* A limit picked by pick exceeds none that a side has set, and is set if one is.
LEMMA PickTightest ==
  ASSUME NEW c \in Nat, NEW s \in Nat
  PROVE  pick(c, s) \in Nat /\ Tightest(pick(c, s), c, s)
  BY DEF pick, max, min, Tightest

\* The same of the number of channels, which is at least 1.
LEMMA ChannelMaxTightest ==
  ASSUME NEW c \in 0 .. maxChannelMax, NEW s \in 0 .. maxChannelMax
  PROVE  /\ tuneChannelMax(c, s) \in 1 .. maxChannelMax
         /\ Tightest(tuneChannelMax(c, s), c, s)
  <1>1. c \in Nat /\ s \in Nat /\ c <= maxChannelMax /\ s <= maxChannelMax
    BY Widths, SMT
  <1>2. CASE c = 0 /\ s = 0
    <2>1. tuneChannelMax(c, s) = 2047
      BY <1>2, Widths, SMT DEF tuneChannelMax, pick, max, min, defaultChannelMax
    <2> QED
      BY <1>2, <2>1, Widths, SMT DEF Tightest
  <1>3. CASE ~(c = 0 /\ s = 0)
    <2>1. pick(c, s) \in Nat /\ pick(c, s) # 0 /\ pick(c, s) <= maxChannelMax
      BY <1>1, <1>3, Widths, SMT DEF pick, max, min
    <2>2. tuneChannelMax(c, s) = pick(c, s)
      BY <2>1, Widths, SMT DEF tuneChannelMax, min
    <2>3. pick(c, s) \in 1 .. maxChannelMax
      BY <2>1, Widths, SMT
    <2> QED
      BY <1>1, <2>2, <2>3, PickTightest
  <1> QED
    BY <1>2, <1>3

\* What DialConfig and the server's proposal can be.
Proposal ==
  /\ config.heartbeat \in Nat /\ config.heartbeat \div 1000 <= maxHeartbeat /\ config.channelMax \in 0 .. maxChannelMax
  /\ config.frameSize \in Nat
  /\ offer.heartbeat \in 0 .. maxHeartbeat /\ offer.channelMax \in 0 .. maxChannelMax
  /\ offer.frameMax \in Nat

\* The inductive invariant: openTune sends the limits that it has set.
Limits == openTuneLimits(config, offer)
TuneInv ==
  /\ Proposal
  /\ op \in {"notify", "tune-ok"} => tuned = Limits
  /\ announced # <<>> => tuned = Limits /\ announced = tuneOk(Limits)

LEMMA InitTune == Init => TuneInv
  <1> SUFFICES ASSUME Init PROVE TuneInv
    OBVIOUS
  <1>1. PICK s \in Scenarios : config = DialConfig(s.uri, s.config) /\ offer = s.server
    BY DEF Init
  <1>2. /\ s.uri.heartbeat \in {Absent} \cup 0 .. maxHeartbeat
        /\ s.config.heartbeat \in Nat /\ s.config.heartbeat \div 1000 <= maxHeartbeat
        /\ s.uri.channelMax \in 0 .. maxChannelMax /\ s.config.channelMax \in 0 .. maxChannelMax
        /\ s.config.frameSize \in Nat
        /\ s.server.heartbeat \in 0 .. maxHeartbeat /\ s.server.channelMax \in 0 .. maxChannelMax
        /\ s.server.frameMax \in Nat
    BY ScenariosAssumption
  <1>3. config.heartbeat \in Nat /\ config.heartbeat \div 1000 <= maxHeartbeat
    <2>1. config.heartbeat = dialHeartbeat(s.uri, s.config)
      BY <1>1 DEF DialConfig
    <2>2. CASE s.uri.heartbeat # Absent
      <3>1. s.uri.heartbeat \in Nat /\ s.uri.heartbeat <= maxHeartbeat
        BY <1>2, <2>2, Widths, SMT
      <3>2. config.heartbeat = 1000 * s.uri.heartbeat
        BY <2>1, <2>2 DEF dialHeartbeat
      <3> QED
        BY <3>1, <3>2, SMT
    <2>3. CASE s.uri.heartbeat = Absent /\ s.config.heartbeat = 0
      <3>1. config.heartbeat = defaultHeartbeat
        BY <2>1, <2>3, SMT DEF dialHeartbeat
      <3> QED
        BY <3>1, Widths, SMT DEF defaultHeartbeat
    <2>4. CASE s.uri.heartbeat = Absent /\ s.config.heartbeat # 0
      <3>1. config.heartbeat = s.config.heartbeat
        BY <2>1, <2>4, SMT DEF dialHeartbeat
      <3> QED
        BY <1>2, <3>1
    <2> QED
      BY <2>2, <2>3, <2>4
  <1>4. config.channelMax \in 0 .. maxChannelMax /\ config.frameSize \in Nat
    BY <1>1, <1>2 DEF DialConfig
  <1> QED
    BY <1>1, <1>2, <1>3, <1>4 DEF Init, TuneInv, Proposal

\* Only Open touches what the invariant is about.
LEMMA OthersLeaveTuning ==
  ASSUME Next PROVE Opener \/ UNCHANGED opVars
  <1>1. CASE \E f \in Frames : ServerSends(f)
    BY <1>1 DEF ServerSends
  <1>2. CASE ServerGone
    BY <1>2 DEF ServerGone
  <1>3. CASE Reader
    <2>1. CASE readFrame
      BY <2>1, Zenon DEF readFrame
    <2>2. CASE readError
      BY <2>2 DEF readError
    <2>3. CASE dispatchCloseOk \/ dispatchShutdown
      BY <2>3 DEF dispatchCloseOk, dispatchShutdown
    <2>4. CASE dispatchBlocked
      BY <2>4 DEF dispatchBlocked
    <2>5. CASE dispatchAbandon \/ readerDeadline \/ readerShutdown
      BY <2>5 DEF dispatchAbandon, readerDeadline, readerShutdown
    <2> QED
      BY <1>3, <2>1, <2>2, <2>3, <2>4, <2>5 DEF Reader, ReadOn
  <1>4. CASE Heartbeater
    BY <1>4 DEF Heartbeater, heartbeaterTick, heartbeaterDeadline, heartbeaterDone
  <1>5. CASE Shutdown
    BY <1>5 DEF Shutdown, sendShutdown, shutdownLock, shutdownTell, shutdownFinish
  <1>6. CASE \E c \in Callers, k \in Kinds \cup {"closeWith"} : begin(c, k)
    BY <1>6 DEF begin
  <1>7. CASE \E c \in Callers : GoesOn(c)
    BY <1>7 DEF GoesOn, setDeadline, callSend, callWait, deferredShutdown
  <1>8. CASE \E l \in Listeners : NotifyClose(l)
    BY <1>8 DEF NotifyClose
  <1>9. CASE \E b \in Blocks : NotifyBlocked(b)
    BY <1>9 DEF NotifyBlocked
  <1> QED
    BY <1>1, <1>2, <1>3, <1>4, <1>5, <1>6, <1>7, <1>8, <1>9 DEF Next

LEMMA StepTune == TuneInv /\ [Next]_vars => TuneInv'
  <1> SUFFICES ASSUME TuneInv, [Next]_vars PROVE TuneInv'
    OBVIOUS
  <1>1. CASE UNCHANGED opVars
    BY <1>1 DEF TuneInv, Proposal, Limits, opVars
  <1>2. CASE open \/ openStart \/ openTune \/ openVhost
    BY <1>2 DEF TuneInv, Proposal, Limits, open, openStart, openTune, openVhost, openSend, openWait
  <1>3. CASE openTuneSetLimits
    BY <1>3 DEF TuneInv, Proposal, Limits, openTuneSetLimits
  <1>4. CASE openTuneHeartbeater
    BY <1>4 DEF TuneInv, Proposal, Limits, openTuneHeartbeater
  <1>5. CASE openTuneOk
    BY <1>5 DEF TuneInv, Proposal, Limits, openTuneOk, openSend
  <1>6. CASE openComplete
    BY <1>6 DEF TuneInv, Proposal, Limits, openComplete
  <1>7. UNCHANGED vars => UNCHANGED opVars
    BY DEF vars
  <1> QED
    BY <1>1, <1>2, <1>3, <1>4, <1>5, <1>6, <1>7, OthersLeaveTuning DEF Opener

LEMMA TuneInvAgrees == TuneInv => TuneAgreed
  <1> SUFFICES ASSUME TuneInv, announced # <<>>
               PROVE  /\ announced.channelMax = tuned.channelMax
                      /\ announced.channelMax \in 1 .. maxChannelMax
                      /\ announced.frameMax = tuned.frameSize /\ announced.heartbeat = tuned.heartbeat
                      /\ Tightest(tuned.channelMax, config.channelMax, offer.channelMax)
                      /\ Tightest(tuned.frameSize, config.frameSize, offer.frameMax)
                      /\ Tightest(tuned.heartbeat, config.heartbeat \div 1000, offer.heartbeat)
    BY DEF TuneAgreed
  <1> DEFINE hbt == config.heartbeat \div 1000
  <1>1. /\ tuned = Limits /\ announced = tuneOk(Limits) /\ Proposal
    BY DEF TuneInv
  <1>2. hbt \in 0 .. maxHeartbeat
    BY <1>1 DEF Proposal
  <1>3. /\ Limits.channelMax = tuneChannelMax(config.channelMax, offer.channelMax)
        /\ Limits.frameSize = pick(config.frameSize, offer.frameMax)
        /\ Limits.heartbeat = pick(hbt, offer.heartbeat)
    BY DEF Limits, openTuneLimits
  <1>4. /\ Limits.channelMax \in 1 .. maxChannelMax
        /\ Tightest(Limits.channelMax, config.channelMax, offer.channelMax)
    BY <1>1, <1>3, ChannelMaxTightest DEF Proposal
  <1>5. Tightest(Limits.frameSize, config.frameSize, offer.frameMax)
    <2>1. config.frameSize \in Nat /\ offer.frameMax \in Nat
      BY <1>1 DEF Proposal
    <2>2. Tightest(pick(config.frameSize, offer.frameMax), config.frameSize, offer.frameMax)
      BY <2>1, PickTightest
    <2> QED
      BY <1>3, <2>2
  <1>6. Tightest(Limits.heartbeat, hbt, offer.heartbeat)
    <2>1. hbt \in Nat /\ offer.heartbeat \in Nat
      BY <1>1, <1>2, Widths, SMT DEF Proposal
    <2> HIDE DEF hbt
    <2>2. Tightest(pick(hbt, offer.heartbeat), hbt, offer.heartbeat)
      BY <2>1, PickTightest
    <2> QED
      BY <1>3, <2>2
  <1>7. Limits.heartbeat \in 0 .. maxHeartbeat
    BY <1>1, <1>2, <1>3 DEF Proposal, pick, max, min
  <1>8. /\ announced.channelMax = Limits.channelMax
        /\ announced.frameMax = Limits.frameSize
        /\ announced.heartbeat = Limits.heartbeat
    <2>1. /\ announced.channelMax = uint16(Limits.channelMax)
          /\ announced.frameMax = Limits.frameSize
          /\ announced.heartbeat = uint16(Limits.heartbeat)
      BY <1>1 DEF tuneOk
    <2>2. uint16(Limits.channelMax) = Limits.channelMax
      BY <1>4, Widths, SMT DEF uint16
    <2>3. uint16(Limits.heartbeat) = Limits.heartbeat
      BY <1>7, Widths, SMT DEF uint16
    <2> QED
      BY <2>1, <2>2, <2>3
  <1> QED
    BY <1>1, <1>4, <1>5, <1>6, <1>8

\* For every Config, URI and proposal of the server whose heartbeats fit the protocol,
\* tune-ok announces what the client uses, and that exceeds no limit of either side
\* (openTune, pick).
THEOREM LimitsAgreed == Spec => []TuneAgreed
  BY InitTune, StepTune, TuneInvAgrees, PTL DEF Spec

-----------------------------------------------------------------------------
(***************************************************************************)
(* An open connection is watched.                                          *)
(***************************************************************************)
Started == {"tune-ok", "open", "open-ok", "complete", "opened"}

\* The inductive invariant: what ends the heartbeater, a failed write or the chan it
\* listens on, comes with a shutdown, unless its SetReadDeadline failed.
WatchInv ==
  /\ spawned \in {"no", "pending", "over"}
  /\ lst \in [Closes -> {"new", "open", "closed"}]
  /\ spawned = "over" => closed
  /\ body # "none" => closed
  /\ lst["heartbeater"] = "closed" => closed
  /\ heard["heartbeater"] # <<>> => closed
  /\ op \in Started => \/ hb = "run" \/ spawned = "pending" \/ closed
                       \/ hb = "quit" /\ "refuses" \in faults

LEMMA InitWatch == Init => WatchInv
  BY DEF Init, WatchInv, Started, Closes

\* A send may start the goroutine that shuts the connection down, once.
LEMMA SendStarts ==
  ASSUME NEW m, sendOk(m) \/ sendFails \/ sendClosed, spawned \in {"no", "pending", "over"}
  PROVE  /\ spawned' \in {"no", "pending", "over"}
         /\ spawned = "pending" => spawned' = "pending"
         /\ spawned' = "over" => spawned = "over"
  BY DEF sendOk, sendFails, sendClosed

\* Steps that leave the heartbeater and its chan alone, and do not undo a shutdown.
Harmless ==
  /\ spawned' \in {"no", "pending", "over"}
  /\ UNCHANGED <<hb, lst, heard, faults>>
  /\ closed => closed'
  /\ spawned = "pending" => spawned' = "pending" \/ closed'
  /\ spawned' = "over" => spawned = "over" \/ closed'
  /\ body' # "none" => body # "none" \/ closed'
  /\ op' \in Started => op \in Started

LEMMA HarmlessKeeps == WatchInv /\ Harmless => WatchInv'
  BY DEF WatchInv, Harmless

LEMMA StepWatch == WatchInv /\ [Next]_vars => WatchInv'
  <1> SUFFICES ASSUME WatchInv, [Next]_vars PROVE WatchInv'
    OBVIOUS
  <1> USE HarmlessKeeps
  <1>0. spawned \in {"no", "pending", "over"}
    BY DEF WatchInv
  <1>1. CASE UNCHANGED vars
    BY <1>0, <1>1 DEF Harmless, vars, opVars, shVars, lisVars
  <1>2. CASE \E f \in Frames : ServerSends(f)
    BY <1>0, <1>2 DEF Harmless, ServerSends, opVars, shVars, lisVars
  <1>3. CASE ServerGone
    BY <1>0, <1>3 DEF Harmless, ServerGone, opVars, shVars, lisVars
  <1>4. CASE Opener
    <2>1. CASE open
      BY <1>0, <2>1, SendStarts DEF Harmless, open, openSend, shVars, lisVars, Started
    <2>2. CASE openStart
      BY <1>0, <2>2 DEF Harmless, openStart, openWait, shVars, lisVars, Started
    <2>3. CASE openTune
      BY <1>0, <2>3, SendStarts DEF Harmless, openTune, openSend, openWait, shVars, lisVars, Started
    <2>4. CASE openTuneSetLimits
      BY <1>0, <2>4 DEF Harmless, openTuneSetLimits, shVars, lisVars, Started
    <2>5. CASE openTuneHeartbeater
      BY <2>5 DEF WatchInv, openTuneHeartbeater, noNotify, shVars, Closes
    <2>6. CASE openTuneOk
      BY <1>0, <2>6, SendStarts DEF Harmless, openTuneOk, openSend, shVars, lisVars, Started
    <2>7. CASE openVhost
      BY <1>0, <2>7, SendStarts DEF Harmless, openVhost, openSend, openWait, shVars, lisVars, Started
    <2>8. CASE openComplete
      BY <1>0, <2>8 DEF Harmless, openComplete, shVars, lisVars, Started
    <2> QED
      BY <1>4, <2>1, <2>2, <2>3, <2>4, <2>5, <2>6, <2>7, <2>8 DEF Opener
  <1>5. CASE Reader
    <2>1. CASE readFrame
      <3>1. UNCHANGED <<opVars, shVars, lisVars, hb, spawned>>
        BY <2>1, Zenon DEF readFrame
      <3> QED
        BY <1>0, <3>1 DEF Harmless, opVars, shVars, lisVars
    <2>2. CASE readError
      BY <1>0, <2>2 DEF Harmless, readError, shutdownEnter, opVars, lisVars
    <2>3. CASE dispatchCloseOk
      BY <1>0, <2>3, SendStarts DEF Harmless, dispatchCloseOk, opVars, shVars, lisVars
    <2>4. CASE dispatchShutdown
      BY <1>0, <2>4 DEF Harmless, dispatchShutdown, shutdownEnter, opVars, lisVars
    <2>5. CASE dispatchBlocked
      BY <1>0, <2>5 DEF Harmless, dispatchBlocked, opVars, shVars, lisVars
    <2>6. CASE dispatchAbandon \/ readerDeadline \/ readerShutdown
      BY <1>0, <2>6 DEF Harmless, dispatchAbandon, readerDeadline, readerShutdown,
                        opVars, shVars, lisVars
    <2> QED
      BY <1>5, <2>1, <2>2, <2>3, <2>4, <2>5, <2>6 DEF Reader, ReadOn
  <1>6. CASE heartbeaterTick
    BY <1>6 DEF WatchInv, heartbeaterTick, sendFails, sendClosed, WriteMayFail, ConnClosed, opVars, shVars, lisVars
  <1>7. CASE heartbeaterDeadline
    BY <1>7 DEF WatchInv, heartbeaterDeadline, RefusesDeadline, ConnClosed, opVars, shVars, lisVars
  <1>8. CASE heartbeaterDone
    BY <1>8 DEF WatchInv, heartbeaterDone, opVars, shVars, lisVars
  <1>9. CASE shutdownTell
    BY <1>9 DEF WatchInv, shutdownTell, opVars, Closes
  <1>10. CASE sendShutdown \/ shutdownLock \/ shutdownFinish
    BY <1>0, <1>10 DEF Harmless, sendShutdown, shutdownLock, shutdownFinish, shutdownEnter,
                       opVars, shVars, lisVars
  <1>11. CASE \E c \in Callers, k \in Kinds \cup {"closeWith"} : begin(c, k)
    BY <1>0, <1>11 DEF Harmless, begin, opVars, shVars, lisVars
  <1>12. CASE \E c \in Callers : GoesOn(c)
    <2>1. CASE \E c \in Callers : setDeadline(c)
      BY <1>0, <2>1 DEF Harmless, setDeadline, opVars, shVars, lisVars
    <2>2. CASE \E c \in Callers : callSend(c)
      BY <1>0, <2>2, SendStarts DEF Harmless, callSend, opVars, shVars, lisVars
    <2>3. CASE \E c \in Callers : callWait(c)
      BY <1>0, <2>3 DEF Harmless, callWait, opVars, shVars, lisVars
    <2>4. CASE \E c \in Callers : deferredShutdown(c)
      BY <1>0, <2>4 DEF Harmless, deferredShutdown, shutdownEnter, opVars, shVars, lisVars
    <2> QED
      BY <1>12, <2>1, <2>2, <2>3, <2>4 DEF GoesOn
  <1>13. CASE \E l \in Listeners : NotifyClose(l)
    BY <1>13, NamesAssumption DEF WatchInv, NotifyClose, Closes, opVars, shVars
  <1>14. CASE \E b \in Blocks : NotifyBlocked(b)
    BY <1>0, <1>14 DEF Harmless, NotifyBlocked, opVars, shVars
  <1> QED
    BY <1>1, <1>2, <1>3, <1>4, <1>5, <1>6, <1>7, <1>8, <1>9, <1>10, <1>11, <1>12, <1>13, <1>14
    DEF Next, Heartbeater, Shutdown

\* Whatever the applications, the server and the network do, an open connection has its
\* heartbeater, or the write that ended it has started a shutdown, or the application's own
\* transport has refused a read deadline with an error that is no *net.OpError (heartbeater,
\* send).
THEOREM OpenIsWatched == Spec => []WatchedWhenOpen
  <1>1. WatchInv => WatchedWhenOpen
    BY DEF WatchInv, WatchedWhenOpen, Started
  <1> QED
    BY InitWatch, StepWatch, <1>1, PTL DEF Spec
-----------------------------------------------------------------------------
(***************************************************************************)
(* A nil of Close, CloseDeadline or closeWith is backed by a close-ok of   *)
(* its own.  The server says close-ok at most once, so there is at most    *)
(* one of the following: a caller that took it, a frame that carries it to *)
(* the reader, or the reader offering it on c.rpc.                         *)
(***************************************************************************)
Taken   == {c \in Callers : res[c] = "nil" /\ kind[c] # "UpdateSecret"}
Unread  == {i \in DOMAIN inbox : inbox[i] = "close-ok"}
Offered == rd = "rpc" /\ frame = "close-ok"

\* The calls: a result comes last, and neither c.errors nor shutdown yields a nil
\* that call would take for a reply.
CallInv ==
  /\ pc \in [Callers -> {"idle", "deadline", "send", "wait", "shutdown", "closing", "done"}]
  /\ res \in [Callers -> Results]
  /\ kind \in [Callers -> Kinds \cup {"none", "closeWith"}]
  /\ inbox \in Seq(Frames)
  /\ shErr \in Errors \cup {"nil"}
  /\ errs \in [val : Errors \cup {"none"}, closed : BOOLEAN]
  /\ kind["closeWith"] \in {"none", "closeWith"}
  /\ \A c \in Callers : res[c] = "nil" => pc[c] \in {"shutdown", "closing", "done"}

OneAnswer ==
  /\ answers \in {0, 1}
  /\ answers = 1 => srv \in {"left", "gone"}
  /\ answers = 0 => Taken = {} /\ Unread = {} /\ ~Offered
  /\ \A c, d \in Taken : c = d
  /\ \A i, j \in Unread : i = j
  /\ Taken # {} => Unread = {} /\ ~Offered
  /\ Unread # {} => ~Offered

AnswerInv == CallInv /\ OneAnswer

LEMMA InitAnswer == Init => AnswerInv
  BY DEF Init, AnswerInv, CallInv, OneAnswer, Taken, Unread, Offered, Callers, Results, Errors

\* Losing the answer, or leaving it where it is, does no harm.
LEMMA FewerKeeps ==
  ASSUME OneAnswer, Taken' \subseteq Taken, Unread' \subseteq Unread, Offered' => Offered,
         answers' = answers, srv \in {"left", "gone"} => srv' \in {"left", "gone"}
  PROVE  OneAnswer'
  BY DEF OneAnswer

\* What a frame appended to the inbox adds to the close-ok under way.
LEMMA UnreadAppend ==
  ASSUME inbox \in Seq(Frames), NEW f \in Frames, inbox' = Append(inbox, f)
  PROVE  /\ inbox' \in Seq(Frames)
         /\ f # "close-ok" => Unread' \subseteq Unread
         /\ Unread = {} => \A i, j \in Unread' : i = j
  <1>1. /\ Len(inbox) \in Nat /\ DOMAIN inbox = 1 .. Len(inbox)
        /\ DOMAIN inbox' = 1 .. Len(inbox) + 1 /\ inbox'[Len(inbox) + 1] = f
        /\ \A i \in 1 .. Len(inbox) : inbox'[i] = inbox[i]
    OBVIOUS
  <1>2. \A i \in Unread' : i \in Unread \/ (i = Len(inbox) + 1 /\ f = "close-ok")
    BY <1>1 DEF Unread
  <1> QED
    BY <1>2

\* The server answers a close once, and then has left.
LEMMA ServerAnswersOnce ==
  ASSUME CallInv, OneAnswer, NEW m, serverGets(m), Taken' \subseteq Taken, Offered' => Offered
  PROVE  OneAnswer' /\ inbox' \in Seq(Frames)
  <1>0. inbox \in Seq(Frames)
    BY DEF CallInv
  <1>1. CASE UNCHANGED <<inbox, answers>> /\ (srv \in {"left", "gone"} => srv' \in {"left", "gone"})
    BY <1>0, <1>1, FewerKeeps DEF Unread
  <1>2. ASSUME srv = "up", NEW f \in Frames \ {"close-ok"}, answer(f)
        PROVE  OneAnswer' /\ inbox' \in Seq(Frames)
    <2>1. answers' = answers
      BY <1>2 DEF answer, OneAnswer
    <2> QED
      BY <1>0, <1>2, <2>1, UnreadAppend, FewerKeeps DEF answer
  <1>3. CASE srv = "up" /\ answer("close-ok")
    <2>1. answers = 0 /\ Taken = {} /\ Unread = {} /\ ~Offered
      BY <1>3 DEF OneAnswer
    <2>2. answers' = 1 /\ srv' = "left" /\ Taken' = {} /\ ~Offered'
      BY <1>3, <2>1 DEF answer
    <2>3. inbox' \in Seq(Frames) /\ \A i, j \in Unread' : i = j
      BY <1>0, <1>3, <2>1, UnreadAppend DEF answer, Frames, Replies
    <2> QED
      BY <2>2, <2>3 DEF OneAnswer
  <1> QED
    BY <1>1, <1>2, <1>3 DEF serverGets, refuse, srvVars, Frames, Replies

\* So does every send.
LEMMA SendKeepsAnswer ==
  ASSUME CallInv, OneAnswer, NEW m, sendOk(m) \/ sendFails \/ sendClosed,
         Taken' \subseteq Taken, Offered' => Offered
  PROVE  OneAnswer' /\ inbox' \in Seq(Frames)
  <1>1. CASE sendOk(m)
    BY <1>1, ServerAnswersOnce DEF sendOk
  <1>2. CASE UNCHANGED srvVars
    BY <1>2, FewerKeeps DEF srvVars, Unread, CallInv
  <1> QED
    BY <1>1, <1>2 DEF sendFails, sendClosed

\* What the select of a call yields: the answer goes from the reader to the caller.
LEMMA YieldsAnswer ==
  ASSUME CallInv, NEW want, NEW r \in Results, callYields(want, r)
  PROVE  /\ errs' \in [val : Errors \cup {"none"}, closed : BOOLEAN]
         /\ Offered' => Offered
         /\ r = "nil" => rd = "rpc" /\ frame = want /\ ~Offered'
  BY DEF CallInv, callYields, Offered, rdVars, rpcClosed, Errors

LEMMA StepAnswer == AnswerInv /\ [Next]_vars => AnswerInv'
  <1> SUFFICES ASSUME AnswerInv, [Next]_vars PROVE AnswerInv'
    OBVIOUS
  <1> USE DEF AnswerInv
  <1>1. ASSUME UNCHANGED <<callVars, rd, frame, errs, shErr, inbox, answers>>,
               srv \in {"left", "gone"} => srv' \in {"left", "gone"}
        PROVE  AnswerInv'
    BY <1>1, FewerKeeps DEF callVars, CallInv, Taken, Unread, Offered
  <1>2. ASSUME NEW m, sendOk(m) \/ sendFails \/ sendClosed,
               UNCHANGED <<callVars, errs, shErr>>, Offered' => Offered
        PROVE  AnswerInv'
    <2>1. OneAnswer' /\ inbox' \in Seq(Frames)
      BY <1>2, SendKeepsAnswer DEF callVars, Taken
    <2> QED
      BY <1>2, <2>1 DEF callVars, CallInv
  <1>3. CASE UNCHANGED vars
    BY <1>1, <1>3 DEF vars, shVars, rdVars, srvVars
  <1>4. ASSUME NEW f \in Frames, ServerSends(f) PROVE AnswerInv'
    <2>1. f # "close-ok" /\ srv \notin {"left", "gone"}
      BY <1>4 DEF ServerSends
    <2>2. UNCHANGED <<callVars, rd, frame, errs, shErr, answers>>
      BY <1>4 DEF ServerSends, rdVars, shVars
    <2>3. inbox' \in Seq(Frames) /\ Unread' \subseteq Unread
      BY <1>4, <2>1, UnreadAppend DEF ServerSends, CallInv
    <2>4. OneAnswer'
      BY <2>1, <2>2, <2>3, FewerKeeps DEF callVars, Taken, Offered
    <2> QED
      BY <2>2, <2>3, <2>4 DEF callVars, CallInv
  <1>5. CASE ServerGone
    BY <1>1, <1>5 DEF ServerGone, rdVars, shVars
  <1>6. CASE Opener
    <2>1. ASSUME NEW from, NEW m, NEW to, NEW err, openSend(from, m, to, err) PROVE AnswerInv'
      BY <1>2, <2>1 DEF openSend, shVars, rdVars, Offered
    <2>2. ASSUME NEW from, NEW want, NEW to, NEW err, openWait(from, want, to, err) PROVE AnswerInv'
      <3>1. PICK r \in Results : callYields(want, r)
        BY <2>2 DEF openWait
      <3>2. UNCHANGED <<callVars, shErr, srvVars>>
        BY <2>2 DEF openWait, shVars
      <3>3. OneAnswer'
        BY <3>1, <3>2, YieldsAnswer, FewerKeeps DEF callVars, srvVars, Taken, Unread
      <3> QED
        BY <3>1, <3>2, <3>3, YieldsAnswer DEF callVars, srvVars, CallInv
    <2>3. CASE openTuneSetLimits \/ openTuneHeartbeater \/ openComplete
      BY <1>1, <2>3 DEF openTuneSetLimits, openTuneHeartbeater, openComplete, shVars, rdVars, srvVars
    <2> QED
      BY <1>6, <2>1, <2>2, <2>3 DEF Opener, open, openStart, openTune, openTuneOk, openVhost
  <1>7. CASE readFrame
    <2>1. /\ frame' = Head(inbox) /\ inbox' = Tail(inbox) /\ inbox # <<>> /\ rd = "read"
          /\ kind' = IF frame' = "content" THEN [kind EXCEPT !["closeWith"] = "closeWith"] ELSE kind
          /\ UNCHANGED <<pc, res, errs, shErr, answers, srv>>
      BY <1>7, Zenon DEF readFrame, shVars
    <2>2. /\ inbox \in Seq(Frames) /\ inbox' \in Seq(Frames)
          /\ Head(inbox) = inbox[1] /\ 1 \in DOMAIN inbox
          /\ \A i \in DOMAIN inbox' :
               i \in Nat \ {0} /\ i + 1 \in DOMAIN inbox /\ inbox'[i] = inbox[i + 1]
      BY <2>1 DEF CallInv
    <2>3. CallInv'
      <3>1. /\ kind' \in [Callers -> Kinds \cup {"none", "closeWith"}]
            /\ kind'["closeWith"] \in {"none", "closeWith"}
        BY <2>1 DEF CallInv, Callers
      <3> QED
        BY <2>1, <2>2, <3>1 DEF CallInv
    <2>4. Taken' = Taken
      BY <2>1 DEF Taken, CallInv
    <2>5. \A i \in Unread' : i \in Nat \ {0} /\ i + 1 \in Unread
      BY <2>2 DEF Unread
    <2>6. Offered' => 1 \in Unread
      BY <2>1, <2>2 DEF Offered, Unread
    <2>7. /\ Unread' # {} => Unread # {} /\ 1 \notin Unread
          /\ \A i, j \in Unread' : i = j
      BY <2>5 DEF OneAnswer
    <2> QED
      BY <2>1, <2>3, <2>4, <2>6, <2>7 DEF OneAnswer
  <1>8. CASE readError
    BY <1>8, FewerKeeps DEF readError, ReadErrors, shutdownEnter, callVars, srvVars, CallInv, Errors,
                            Taken, Unread, Offered
  <1>9. CASE dispatchCloseOk
    BY <1>2, <1>9 DEF dispatchCloseOk, shVars, Offered
  <1>10. CASE dispatchShutdown
    BY <1>10, FewerKeeps DEF dispatchShutdown, shutdownEnter, callVars, srvVars, CallInv, Errors,
                             Taken, Unread, Offered
  <1>11. CASE dispatchBlocked \/ dispatchAbandon \/ readerDeadline \/ readerShutdown
    <2>1. UNCHANGED <<callVars, errs, shErr, srvVars>> /\ (Offered' => Offered)
      BY <1>11 DEF dispatchBlocked, dispatchAbandon, readerDeadline, readerShutdown, shVars, Offered
    <2> QED
      BY <2>1, FewerKeeps DEF callVars, srvVars, CallInv, Taken, Unread
  <1>12. CASE Heartbeater
    <2>1. CASE heartbeaterTick
      BY <1>2, <2>1 DEF heartbeaterTick, shVars, rdVars, Offered
    <2>2. CASE heartbeaterDeadline \/ heartbeaterDone
      BY <1>1, <2>2 DEF heartbeaterDeadline, heartbeaterDone, shVars, rdVars, srvVars
    <2> QED
      BY <1>12, <2>1, <2>2 DEF Heartbeater
  <1>13. CASE Shutdown
    <2>1. UNCHANGED <<callVars, rdVars, srvVars>>
      BY <1>13 DEF Shutdown, sendShutdown, shutdownLock, shutdownTell, shutdownFinish
    <2>2. OneAnswer'
      BY <2>1, FewerKeeps DEF callVars, rdVars, srvVars, Taken, Unread, Offered
    <2>3. /\ shErr' \in Errors \cup {"nil"}
          /\ errs' \in [val : Errors \cup {"none"}, closed : BOOLEAN]
      <3>1. shErr' \in Errors \cup {"nil"}
        BY <1>13 DEF Shutdown, sendShutdown, shutdownEnter, shutdownLock, shutdownTell, shutdownFinish,
                     CallInv, Errors
      <3>2. \/ UNCHANGED errs
            \/ errs' = [val |-> IF shErr # "nil" THEN shErr ELSE errs.val, closed |-> TRUE]
        BY <1>13 DEF Shutdown, sendShutdown, shutdownLock, shutdownTell, shutdownFinish
      <3>3. (IF shErr # "nil" THEN shErr ELSE errs.val) \in Errors \cup {"none"}
        BY DEF CallInv
      <3>4. errs' \in [val : Errors \cup {"none"}, closed : BOOLEAN]
        <4>1. CASE UNCHANGED errs
          BY <4>1 DEF CallInv
        <4>2. CASE errs' # errs
          <5>1. PICK v \in Errors \cup {"none"} : errs' = [val |-> v, closed |-> TRUE]
            BY <3>2, <3>3, <4>2
          <5> QED
            BY <5>1
        <4> QED
          BY <4>1, <4>2
      <3> QED
        BY <3>1, <3>4
    <2> QED
      BY <2>1, <2>2, <2>3 DEF callVars, srvVars, CallInv
  <1>14. ASSUME NEW c \in Callers, NEW k \in Kinds \cup {"closeWith"}, begin(c, k) PROVE AnswerInv'
    <2>1. /\ pc[c] = "idle" /\ kind' = [kind EXCEPT ![c] = k]
          /\ c = "closeWith" => kind[c] = k
          /\ pc' = [pc EXCEPT ![c] = pc'[c]] /\ pc'[c] \in {"done", "deadline", "send"}
          /\ res' = [res EXCEPT ![c] = res'[c]] /\ res'[c] \in {res[c], "ErrClosed"}
          /\ UNCHANGED <<rdVars, errs, shErr, srvVars>>
      BY <1>14 DEF begin, shVars, CallInv
    <2>2. res[c] # "nil" /\ res'[c] # "nil"
      BY <2>1 DEF CallInv
    <2>3. Taken' \subseteq Taken
      BY <2>1, <2>2 DEF Taken, CallInv
    <2>4. OneAnswer'
      BY <2>1, <2>3, FewerKeeps DEF rdVars, srvVars, Unread, Offered
    <2>5. CallInv'
      BY <2>1, <2>2 DEF CallInv, srvVars, Results
    <2> QED
      BY <2>4, <2>5
  <1>15. ASSUME NEW c \in Callers, GoesOn(c) PROVE AnswerInv'
    <2>1. CASE setDeadline(c)
      <3>1. /\ pc[c] = "deadline" /\ pc' = [pc EXCEPT ![c] = pc'[c]] /\ pc'[c] \in {"send", "shutdown"}
            /\ res' = [res EXCEPT ![c] = res'[c]] /\ res'[c] \in {res[c], "ErrDeadline"}
            /\ UNCHANGED <<kind, rdVars, errs, shErr, srvVars>>
        BY <2>1 DEF setDeadline, shVars, CallInv
      <3>2. res[c] # "nil" /\ res'[c] # "nil"
        BY <3>1 DEF CallInv
      <3>3. OneAnswer'
        BY <3>1, <3>2, FewerKeeps DEF rdVars, srvVars, Taken, Unread, Offered, CallInv
      <3>4. CallInv'
        BY <3>1, <3>2 DEF CallInv, srvVars, Results
      <3> QED
        BY <3>3, <3>4
    <2>2. CASE callSend(c)
      <3>1. /\ pc[c] = "send" /\ pc' = [pc EXCEPT ![c] = pc'[c]]
            /\ pc'[c] \in {"wait", "shutdown", "done"}
            /\ res' = [res EXCEPT ![c] = res'[c]] /\ res'[c] \in {res[c], "write", "ErrClosed"}
            /\ UNCHANGED <<kind, rdVars, errs, shErr>>
            /\ sendOk(Request(c)) \/ sendFails \/ sendClosed
        BY <2>2 DEF callSend, shVars, CallInv, Deferred
      <3>2. res[c] # "nil" /\ res'[c] # "nil"
        BY <3>1 DEF CallInv
      <3>3. OneAnswer' /\ inbox' \in Seq(Frames)
        <4>1. Taken' \subseteq Taken /\ (Offered' => Offered)
          BY <3>1, <3>2 DEF rdVars, Taken, Offered, CallInv
        <4> QED
          BY <3>1, <4>1, SendKeepsAnswer
      <3>4. CallInv'
        <4>1. res'[c] \in Results
          BY <3>1 DEF CallInv, Results, Errors
        <4>2. res' \in [Callers -> Results]
          BY <3>1, <4>1 DEF CallInv
        <4>3. \A d \in Callers : res'[d] = "nil" => pc'[d] \in {"shutdown", "closing", "done"}
          BY <3>1, <3>2 DEF CallInv
        <4> QED
          BY <3>1, <3>3, <4>2, <4>3 DEF CallInv
      <3> QED
        BY <3>3, <3>4
    <2>3. CASE callWait(c)
      <3>1. PICK r \in Results : callYields(Wanted(c), r) /\ res' = [res EXCEPT ![c] = r]
        BY <2>3 DEF callWait
      <3>2. /\ pc' = [pc EXCEPT ![c] = Deferred(c)] /\ Deferred(c) \in {"done", "shutdown"}
            /\ UNCHANGED <<kind, shErr, srvVars>>
        BY <2>3 DEF callWait, shVars, Deferred
      <3>3. CallInv'
        BY <3>1, <3>2, YieldsAnswer DEF CallInv, srvVars
      <3>4. CASE r # "nil" \/ kind[c] = "UpdateSecret"
        <4>1. Taken' \subseteq Taken
          BY <3>1, <3>2, <3>4 DEF Taken, CallInv
        <4> QED
          BY <3>1, <3>2, <3>3, <4>1, YieldsAnswer, FewerKeeps DEF srvVars, Unread
      <3>5. CASE r = "nil" /\ kind[c] # "UpdateSecret"
        <4>1. Offered /\ ~Offered'
          BY <3>1, <3>5, YieldsAnswer DEF Wanted, Offered
        <4>2. answers = 1 /\ Taken = {} /\ Unread = {}
          BY <4>1 DEF OneAnswer
        <4>3. Taken' \subseteq {c}
          BY <3>1, <3>2, <4>2 DEF Taken, CallInv
        <4>4. Unread' = {} /\ answers' = 1 /\ srv' = srv
          BY <3>2, <4>2 DEF srvVars, Unread
        <4> QED
          BY <3>3, <4>1, <4>2, <4>3, <4>4 DEF OneAnswer
      <3> QED
        BY <3>4, <3>5
    <2>4. CASE deferredShutdown(c)
      <3>1. /\ pc[c] \in {"shutdown", "closing"}
            /\ pc' = [pc EXCEPT ![c] = pc'[c]] /\ pc'[c] \in {"closing", "done"}
            /\ shErr' \in Errors \cup {"nil"}
            /\ UNCHANGED <<kind, res, rdVars, errs, srvVars>>
        BY <2>4 DEF deferredShutdown, shutdownEnter, shVars, CallInv, Errors
      <3> QED
        BY <3>1, FewerKeeps DEF CallInv, rdVars, srvVars, Taken, Unread, Offered
    <2> QED
      BY <1>15, <2>1, <2>2, <2>3, <2>4 DEF GoesOn
  <1>16. CASE \E l \in Listeners : NotifyClose(l)
    BY <1>1, <1>16 DEF NotifyClose, shVars, rdVars, srvVars
  <1>17. CASE \E b \in Blocks : NotifyBlocked(b)
    BY <1>1, <1>17 DEF NotifyBlocked, shVars, rdVars, srvVars
  <1> QED
    BY <1>3, <1>4, <1>5, <1>6, <1>7, <1>8, <1>9, <1>10, <1>11, <1>12, <1>13, <1>14, <1>15, <1>16, <1>17
    DEF Next, Reader, ReadOn

\* However many goroutines close the connection or renew its secret, whoever is told that
\* its Close succeeded took a close-ok from c.rpc itself (Connection.call, dispatch0).
THEOREM NilIsAnswered == Spec => []NilMeansAnswered
  <1>1. AnswerInv => NilMeansAnswered
    <2> SUFFICES ASSUME AnswerInv
                 PROVE  Cardinality(Taken) + Cardinality(Unread)
                          + (IF Offered THEN 1 ELSE 0) <= answers
      BY DEF NilMeansAnswered, Taken, Unread, Offered
    <2> USE DEF AnswerInv, OneAnswer
    <2>1. Cardinality({}) = 0 /\ \A x : Cardinality({x}) = 1
      BY FS_EmptySet, FS_Singleton
    <2>2. CASE Taken # {}
      <3>1. PICK c \in Taken : Taken = {c}
        BY <2>2
      <3>2. answers = 1 /\ Unread = {} /\ ~Offered
        BY <2>2
      <3>3. Cardinality(Taken) = 1 /\ Cardinality(Unread) = 0
        BY <2>1, <3>1, <3>2
      <3> QED
        BY <3>2, <3>3
    <2>3. CASE Taken = {} /\ Unread # {}
      <3>1. PICK i \in Unread : Unread = {i}
        BY <2>3
      <3> QED
        BY <2>1, <2>3, <3>1
    <2>4. CASE Taken = {} /\ Unread = {}
      BY <2>1, <2>4
    <2> QED
      BY <2>2, <2>3, <2>4
  <1> QED
    BY InitAnswer, StepAnswer, <1>1, PTL DEF Spec
=============================================================================
