---------------------------- MODULE TrafficProofs ----------------------------
(***************************************************************************)
(* For any number of goroutines on a channel, any bodies, frame size and   *)
(* listeners: no listener is sent to after its close, and nothing of those *)
(* who take Channel.m follows close-ok; the frames of a publishing follow  *)
(* each other as frames made them, a publishing that returned nil is there *)
(* to its last octet, and the two ends count the publishings alike.        *)
(***************************************************************************)
EXTENDS Traffic, FiniteSetTheorems, TLAPS

(***************************************************************************)
(* Listeners.  While the reader goes through the chans it has found open,  *)
(* notifyM keeps everybody else away from them.                            *)
(***************************************************************************)
ListenInv ==
  /\ panicked = FALSE
  /\ rd = "listen" => \A l \in todo : l \in DOMAIN Listeners /\ reg[l] = "open"

LEMMA StepListen == ListenInv /\ [Next]_vars => ListenInv'
  <1> SUFFICES ASSUME ListenInv, [Next]_vars PROVE ListenInv'
    OBVIOUS
  <1> USE DEF ListenInv
  <1>1. CASE UNCHANGED vars
    BY <1>1 DEF vars, rdVars, lisVars
  <1>2. CASE \E e \in Events : ServerSends(e)
    BY <1>2 DEF ServerSends, rdVars, lisVars
  <1>3. CASE SocketFails \/ ConnectionFails
    BY <1>3 DEF SocketFails, ConnectionFails, rdVars, lisVars
  <1>4. CASE Reader
    <2>1. CASE readFrame
      <3>1. rd' # "listen" /\ panicked' = panicked
        <4>1. rd' = CASE frame' = "close" -> "lock"
                      [] frame' \in {"flow", "return", "cancel"} -> "rlock"
                      [] OTHER -> "rpc"
          BY <2>1, Zenon DEF readFrame
        <4>2. rd' \in {"lock", "rlock", "rpc"}
          BY <4>1, Zenon
        <4>3. panicked' = panicked
          BY <2>1, Zenon DEF readFrame
        <4> QED
          BY <4>2, <4>3
      <3> QED
        BY <3>1
    <2>2. CASE dispatchListeners
      BY <2>2 DEF dispatchListeners
    <2>3. CASE dispatchFlowOk \/ dispatchCloseOk
      BY <2>3 DEF dispatchFlowOk, dispatchCloseOk
    <2>4. CASE dispatchShutdown \/ dispatchAbandon \/ readerEnds
      BY <2>4 DEF dispatchShutdown, dispatchAbandon, readerEnds
    <2> QED
      BY <1>4, <2>1, <2>2, <2>3, <2>4 DEF Reader
  <1>5. CASE Shutdown
    BY <1>5 DEF Shutdown, shutdownLock, shutdownNotify, shutdownNotifyAtOnce, rdVars, lisVars
  <1>6. CASE \E p \in Publishers : PublishLock(p) \/ Publish(p)
    BY <1>6 DEF PublishLock, Publish, PublishCheck, sendUnflushed, PublishReturn, rdVars, lisVars
  <1>7. CASE \E g \in Ackers : Ack(g)
    BY <1>7 DEF Ack, AckUnlocked, rdVars, lisVars
  <1>8. CASE \E g \in Calls : callBegin(g) \/ call(g)
    BY <1>8 DEF callBegin, call, callSend, callWait, callYields, Confirm, rdVars, lisVars
  <1>9. CASE \E l \in DOMAIN Listeners : Notify(l)
    BY <1>9 DEF Notify, rdVars
  <1> QED
    BY <1>1, <1>2, <1>3, <1>4, <1>5, <1>6, <1>7, <1>8, <1>9 DEF Next

\* The reader never sends on a listener that shutdown has closed, however many there
\* are and whenever they are registered (dispatch, shutdown).
THEOREM ListenersSafe == Spec => []NoSendOnClosed
  <1>1. Init => ListenInv
    BY DEF Init, ListenInv
  <1>2. ListenInv => NoSendOnClosed
    BY DEF ListenInv, NoSendOnClosed
  <1> QED
    BY <1>1, StepListen, <1>2, PTL DEF Spec

-----------------------------------------------------------------------------
(***************************************************************************)
(* After close-ok.  The stream grows at its end, by one frame at a time;   *)
(* close-ok goes out under Channel.m, when closed is set, so that nobody   *)
(* is between the check of closed and the frames that follow it.           *)
(***************************************************************************)
Parts    == {"method", "header", "body", "end", "cmd"}
Senders  == Publishers \cup Ackers \cup Calls \cup {"flow-ok", "close-ok"}
FrameSet == [by : Senders, part : Parts, from : Int, to : Int]
Mine(p)  == [by : {p}, part : Parts, from : Int, to : Int]
Piece    == [from : Int, to : Int]

CloseOkIn(s) == \E i \in DOMAIN s : s[i].by = "close-ok"
Silent(s) == \A i, j \in DOMAIN s :
               i < j /\ s[i].by = "close-ok" => s[j].by \notin Publishers \cup Ackers

\* What cut and frames make.
LEMMA CutIsSeq ==
  ASSUME NEW len \in Nat, NEW size \in Nat, len = 0 \/ size > 0
  PROVE  cut(len, size) \in Seq(Piece)
  <1> DEFINE count == IF len = 0 THEN 0 ELSE (len + size - 1) \div size
             piece(i) == [from |-> (i - 1) * size, to |-> IF i * size > len THEN len ELSE i * size]
  <1>1. count \in Nat
    <2>1. CASE len = 0
      BY <2>1
    <2>2. CASE len # 0
      <3>1. len + size - 1 \in Nat /\ size \in Nat \ {0}
        BY <2>2
      <3> QED
        BY <2>2, <3>1
    <2> QED
      BY <2>1, <2>2
  <1> HIDE DEF count
  <1>2. \A i \in 1 .. count : piece(i) \in Piece
    <2> SUFFICES ASSUME NEW i \in 1 .. count
                 PROVE  (i - 1) * size \in Int /\ (IF i * size > len THEN len ELSE i * size) \in Int
      BY DEF Piece
    <2> QED
      BY <1>1
  <1>3. cut(len, size) = [i \in 1 .. count |-> piece(i)]
    BY DEF cut, count
  <1> HIDE DEF piece
  <1> QED
    BY <1>1, <1>2, <1>3

LEMMA FramesAreMine ==
  ASSUME NEW p \in Publishers
  PROVE  frames(p) \in Seq(Mine(p))
  <1> DEFINE size   == IF FrameSize > 0 THEN FrameSize - frameHeaderSize ELSE BodyLen[p]
             pieces == cut(BodyLen[p], size)
             bodies == [i \in DOMAIN pieces |->
                          [by |-> p, part |-> IF i = Len(pieces) THEN "end" ELSE "body",
                           from |-> pieces[i].from, to |-> pieces[i].to]]
             method == [by |-> p, part |-> "method", from |-> 0, to |-> 0]
             header == [by |-> p, part |-> IF pieces = <<>> THEN "end" ELSE "header", from |-> 0, to |-> 0]
  <1>1. BodyLen[p] \in Nat
    BY CallAssumption
  <1>2. size \in Nat /\ (BodyLen[p] = 0 \/ size > 0)
    BY <1>1, FrameSizeAssumption DEF frameHeaderSize
  <1> HIDE DEF size
  <1>3. pieces \in Seq(Piece)
    BY <1>1, <1>2, CutIsSeq
  <1> HIDE DEF pieces
  <1>4. bodies \in Seq(Mine(p))
    <2>1. Len(pieces) \in Nat /\ DOMAIN pieces = 1 .. Len(pieces)
          /\ \A i \in 1 .. Len(pieces) : pieces[i].from \in Int /\ pieces[i].to \in Int
      <3>1. \A x \in Piece : x.from \in Int /\ x.to \in Int
        BY DEF Piece
      <3> QED
        BY <1>3, <3>1
    <2>2. \A i \in DOMAIN pieces :
            [by |-> p, part |-> IF i = Len(pieces) THEN "end" ELSE "body",
             from |-> pieces[i].from, to |-> pieces[i].to] \in Mine(p)
      BY <2>1 DEF Mine, Parts
    <2> QED
      BY <2>1, <2>2
  <1>5. method \in Mine(p) /\ header \in Mine(p)
    BY DEF Mine, Parts
  <1> HIDE DEF bodies, method, header
  <1>6. frames(p) = <<method, header>> \o bodies
    BY DEF frames, method, header, bodies, pieces, size
  <1> QED
    BY <1>4, <1>5, <1>6

LEMMA MineAreFrames ==
  ASSUME NEW p \in Publishers, NEW s \in Seq(Mine(p))
  PROVE  s \in Seq(FrameSet)
  <1>1. \A x \in Mine(p) : x \in FrameSet
    BY DEF Mine, FrameSet, Senders
  <1> QED
    BY <1>1

\* The three ways in which the stream changes.
LEMMA Flushed ==
  ASSUME NEW s \in Seq(FrameSet), NEW b \in Seq(FrameSet)
  PROVE  s \o b \in Seq(FrameSet) /\ (s \o b) \o <<>> = s \o b
  OBVIOUS

LEMMA Appended ==
  ASSUME NEW s \in Seq(FrameSet), NEW b \in Seq(FrameSet), NEW f \in FrameSet
  PROVE  /\ Append(b, f) \in Seq(FrameSet) /\ s \o Append(b, f) \in Seq(FrameSet)
         /\ s \o Append(b, f) = Append(s \o b, f)
         /\ (s \o Append(b, f)) \o <<>> = Append(s \o b, f)
  OBVIOUS

LEMMA AppendSilent ==
  ASSUME NEW s \in Seq(FrameSet), NEW f \in FrameSet, Silent(s),
         f.by \in Publishers \cup Ackers => ~CloseOkIn(s)
  PROVE  Silent(Append(s, f)) /\ (CloseOkIn(Append(s, f)) => CloseOkIn(s) \/ f.by = "close-ok")
  BY DEF Silent, CloseOkIn

\* The inductive invariant.
SilentType ==
  /\ sent \in Seq(FrameSet) /\ buf \in Seq(FrameSet)
  /\ pc \in [Goroutines -> {"idle", "check", "write", "send", "wait", "mode", "done"}]
  /\ out \in [Publishers -> Seq(FrameSet)]
  /\ \A p \in Publishers : out[p] \in Seq(Mine(p))

SilentInv ==
  /\ SilentType
  /\ \A p \in Publishers : pc[p] \in {"check", "write"} => m = p
  /\ body = "notify" => m = "shutdown"
  /\ rd = "lock" => closed
  /\ CloseOkIn(Stream) => closed /\ \A p \in Publishers : pc[p] # "write"
  /\ Silent(Stream)

\* Connection.send appends its frame.
LEMMA SendAppends ==
  ASSUME SilentType, NEW g, NEW f \in FrameSet, sendOk(g, f)
  PROVE  /\ Stream' = Append(Stream, f) /\ Stream \in Seq(FrameSet)
         /\ sent' \in Seq(FrameSet) /\ buf' \in Seq(FrameSet)
  <1>1. sent' = sent \o Append(buf, f) /\ buf' = <<>>
    BY DEF sendOk
  <1> QED
    BY <1>1, Appended, Flushed DEF SilentType, Stream

\* Steps that leave the stream, the publishers and Channel.m alone.
LEMMA QuietStep ==
  ASSUME SilentInv, UNCHANGED <<sent, buf, pc, out, m>>, closed => closed',
         rd' = "lock" => rd = "lock" \/ closed', body' = "notify" => body = "notify"
  PROVE  SilentInv'
  BY DEF SilentInv, SilentType, Stream

\* Steps of goroutines that do not take Channel.m, and of the reader.
LEMMA CommandStep ==
  ASSUME SilentInv, UNCHANGED <<out, m, closed, body>>,
         rd' = "lock" => rd = "lock",
         pc' \in [Goroutines -> {"idle", "check", "write", "send", "wait", "mode", "done"}],
         \A p \in Publishers : pc'[p] = pc[p],
         NEW f \in FrameSet, f.by \notin Publishers,
         f.by \in Ackers => ~closed,
         f.by = "close-ok" => closed /\ m = "none",
         UNCHANGED <<sent, buf>> \/ \E g : sendOk(g, f)
  PROVE  SilentInv'
  <1>1. SilentType' /\ (\A p \in Publishers : pc'[p] \in {"check", "write"} => m' = p)
    BY SendAppends DEF SilentInv, SilentType
  <1>2. CASE UNCHANGED <<sent, buf>>
    BY <1>1, <1>2 DEF SilentInv, Stream
  <1>3. CASE \E g : sendOk(g, f)
    <2>1. Stream' = Append(Stream, f) /\ Stream \in Seq(FrameSet)
      BY <1>3, SendAppends DEF SilentInv
    <2>2. f.by \in Publishers \cup Ackers => ~CloseOkIn(Stream)
      BY DEF SilentInv
    <2>3. Silent(Stream') /\ (CloseOkIn(Stream') => CloseOkIn(Stream) \/ f.by = "close-ok")
      BY <2>1, <2>2, AppendSilent DEF SilentInv
    <2>4. f.by = "close-ok" => \A p \in Publishers : pc[p] # "write"
      BY NamesAssumption DEF SilentInv
    <2> QED
      BY <1>1, <2>3, <2>4 DEF SilentInv
  <1> QED
    BY <1>2, <1>3

LEMMA MethodIsFrame ==
  ASSUME NEW g \in Senders
  PROVE  Method(g) \in FrameSet /\ Method(g).by = g
  BY DEF Method, FrameSet, Parts

LEMMA StepSilent == SilentInv /\ [Next]_vars => SilentInv'
  <1> SUFFICES ASSUME SilentInv, [Next]_vars PROVE SilentInv'
    OBVIOUS
  <1>1. CASE UNCHANGED vars
    BY <1>1, QuietStep DEF vars, gVars, outVars, shVars, rdVars
  <1>2. CASE \E e \in Events : ServerSends(e)
    BY <1>2, QuietStep DEF ServerSends, gVars, outVars, shVars, rdVars
  <1>3. CASE SocketFails
    BY <1>3, QuietStep DEF SocketFails, gVars, outVars, shVars, rdVars
  <1>4. CASE ConnectionFails
    BY <1>4, QuietStep DEF ConnectionFails, gVars, outVars, rdVars
  <1>5. CASE Reader
    <2>1. CASE readFrame
      <3>1. /\ UNCHANGED <<gVars, outVars, shVars>> /\ closed' = (closed \/ frame' = "close")
            /\ rd' = CASE frame' = "close" -> "lock"
                       [] frame' \in {"flow", "return", "cancel"} -> "rlock"
                       [] OTHER -> "rpc"
        BY <2>1, Zenon DEF readFrame
      <3>2. rd' = "lock" => frame' = "close"
        BY <3>1, Zenon
      <3>3. (closed => closed') /\ (frame' = "close" => closed')
        BY <3>1
      <3>4. UNCHANGED <<sent, buf, pc, out, m, body>>
        BY <3>1 DEF gVars, outVars, shVars
      <3> QED
        BY <3>2, <3>3, <3>4, QuietStep
    <2>2. CASE dispatchListeners
      BY <2>2, QuietStep DEF dispatchListeners, gVars, outVars, shVars
    <2>3. CASE dispatchFlowOk
      <3> DEFINE f == Method("flow-ok")
      <3>1. f \in FrameSet /\ f.by = "flow-ok"
        BY MethodIsFrame DEF Senders
      <3>2. /\ UNCHANGED <<out, m, closed, pc, body>> /\ rd' # "lock"
            /\ UNCHANGED <<sent, buf>> \/ sendOk("reader", f)
        BY <2>3 DEF dispatchFlowOk, sendFails, gVars, outVars, shVars
      <3> HIDE DEF f
      <3> QED
        BY <3>1, <3>2, CommandStep, NamesAssumption DEF SilentInv, SilentType
    <2>4. CASE dispatchCloseOk
      <3> DEFINE f == Method("close-ok")
      <3>1. f \in FrameSet /\ f.by = "close-ok"
        BY MethodIsFrame DEF Senders
      <3>2. /\ UNCHANGED <<out, m, closed, pc, body>> /\ rd' # "lock" /\ rd = "lock" /\ m = "none"
            /\ UNCHANGED <<sent, buf>> \/ sendOk("reader", f)
        BY <2>4 DEF dispatchCloseOk, sendFails, gVars, outVars, shVars
      <3> HIDE DEF f
      <3> QED
        BY <3>1, <3>2, CommandStep, NamesAssumption DEF SilentInv, SilentType
    <2>5. CASE dispatchShutdown
      BY <2>5, QuietStep DEF dispatchShutdown, gVars, outVars
    <2>6. CASE dispatchAbandon \/ readerEnds
      BY <2>6, QuietStep DEF dispatchAbandon, readerEnds, gVars, outVars, shVars
    <2> QED
      BY <1>5, <2>1, <2>2, <2>3, <2>4, <2>5, <2>6 DEF Reader
  <1>6. CASE Shutdown
    <2>1. /\ UNCHANGED <<sent, buf, pc, out, rd, closed>>
          /\ \/ m = "none" /\ m' = "shutdown" /\ body' = "notify"
             \/ body = "notify" /\ m' = "none" /\ body' = "done"
      BY <1>6 DEF Shutdown, shutdownLock, shutdownNotify, shutdownNotifyAtOnce, outVars, rdVars
    <2>2. \A p \in Publishers : pc[p] \notin {"check", "write"}
      BY <2>1, NamesAssumption DEF SilentInv
    <2> QED
      BY <2>1, <2>2 DEF SilentInv, SilentType, Stream
  <1>7. ASSUME NEW p \in Publishers, PublishLock(p) PROVE SilentInv'
    <2>1. /\ UNCHANGED <<sent, buf, out, rd, closed, body>>
          /\ pc[p] = "idle" /\ m = "none" /\ m' = p /\ pc' = [pc EXCEPT ![p] = "check"]
      BY <1>7 DEF PublishLock, outVars, rdVars, shVars
    <2>2. \A q \in Publishers : pc[q] \notin {"check", "write"}
      BY <2>1, NamesAssumption DEF SilentInv
    <2> QED
      BY <2>1, <2>2, NamesAssumption DEF SilentInv, SilentType, Stream, Goroutines
  <1>8. ASSUME NEW p \in Publishers, Publish(p) PROVE SilentInv'
    <2>1. m = p /\ body # "notify" /\ \A q \in Publishers \ {p} : pc[q] \notin {"check", "write"}
      BY <1>8, NamesAssumption DEF SilentInv, Publish, PublishCheck, sendUnflushed, PublishReturn
    <2>2. CASE PublishCheck(p)
      <3>1. CASE closed
        <4>1. /\ UNCHANGED <<sent, buf, out, rd, closed, body>>
              /\ m' = "none" /\ pc' = [pc EXCEPT ![p] = "done"]
          BY <2>2, <3>1 DEF PublishCheck, returns, outVars, rdVars, shVars
        <4> QED
          BY <2>1, <4>1 DEF SilentInv, SilentType, Stream, Goroutines
      <3>2. CASE ~closed
        <4>1. /\ UNCHANGED <<sent, buf, m, rd, closed, body>>
              /\ pc' = [pc EXCEPT ![p] = "write"] /\ out' = [out EXCEPT ![p] = frames(p)]
          BY <2>2, <3>2 DEF PublishCheck, outVars, rdVars, shVars
        <4>2. frames(p) \in Seq(Mine(p)) /\ frames(p) \in Seq(FrameSet)
          BY FramesAreMine, MineAreFrames
        <4>3. SilentType'
          BY <4>1, <4>2 DEF SilentInv, SilentType, Goroutines
        <4>4. ~CloseOkIn(Stream')
          BY <3>2, <4>1 DEF SilentInv, Stream
        <4> QED
          BY <2>1, <3>2, <4>1, <4>3, <4>4 DEF SilentInv, SilentType, Stream, Goroutines
      <3> QED
        BY <3>1, <3>2
    <2>3. CASE sendUnflushed(p)
      <3>1. /\ UNCHANGED <<m, pc, closed, rd, body>> /\ pc[p] = "write" /\ out[p] # <<>>
        BY <2>3 DEF sendUnflushed, rdVars, shVars
      <3>2. Head(out[p]) \in FrameSet /\ Head(out[p]).by = p
            /\ Tail(out[p]) \in Seq(Mine(p)) /\ Tail(out[p]) \in Seq(FrameSet)
        <4>1. out[p] \in Seq(Mine(p)) /\ out[p] \in Seq(FrameSet)
          BY DEF SilentInv, SilentType
        <4>2. Head(out[p]) \in Mine(p) /\ Head(out[p]) \in FrameSet
              /\ Tail(out[p]) \in Seq(Mine(p)) /\ Tail(out[p]) \in Seq(FrameSet)
          BY <3>1, <4>1
        <4> QED
          BY <4>2 DEF Mine
      <3>3. ~CloseOkIn(Stream)
        BY <3>1 DEF SilentInv
      <3> DEFINE f == Head(out[p])
      <3>4. \/ UNCHANGED <<sent, buf>> /\ out' = [out EXCEPT ![p] = <<>>]
            \/ /\ out' = [out EXCEPT ![p] = Tail(out[p])]
               /\ \/ sent' = sent /\ buf' = Append(buf, f)
                  \/ sent' = sent \o Append(buf, f) /\ buf' = <<>>
        BY <2>3 DEF sendUnflushed, sendFails, outVars
      <3>5. out' \in [Publishers -> Seq(FrameSet)] /\ \A q \in Publishers : out'[q] \in Seq(Mine(q))
        <4>1. <<>> \in Seq(Mine(p)) /\ <<>> \in Seq(FrameSet)
          OBVIOUS
        <4>2. PICK t : t \in Seq(Mine(p)) /\ t \in Seq(FrameSet) /\ out' = [out EXCEPT ![p] = t]
          BY <3>2, <3>4, <4>1
        <4>3. out \in [Publishers -> Seq(FrameSet)] /\ \A q \in Publishers : out[q] \in Seq(Mine(q))
          BY DEF SilentInv, SilentType
        <4>4. out' \in [Publishers -> Seq(FrameSet)]
          BY <4>2, <4>3
        <4>5. \A q \in Publishers : out'[q] = IF q = p THEN t ELSE out[q]
          BY <4>2, <4>3
        <4> QED
          BY <4>2, <4>3, <4>4, <4>5
      <3>6. f \in FrameSet /\ f.by = p
        BY <3>2
      <3> HIDE DEF f
      <3>7. /\ sent' \in Seq(FrameSet) /\ buf' \in Seq(FrameSet) /\ Stream \in Seq(FrameSet)
            /\ Stream' = Stream \/ Stream' = Append(Stream, f)
        <4>1. sent \in Seq(FrameSet) /\ buf \in Seq(FrameSet) /\ <<>> \in Seq(FrameSet)
          BY DEF SilentInv, SilentType
        <4>2. /\ Append(buf, f) \in Seq(FrameSet) /\ sent \o Append(buf, f) \in Seq(FrameSet)
              /\ sent \o Append(buf, f) = Append(sent \o buf, f)
              /\ (sent \o Append(buf, f)) \o <<>> = Append(sent \o buf, f)
          BY <3>6, <4>1, Appended
        <4>3. sent \o buf \in Seq(FrameSet)
          BY <4>1, Flushed
        <4>4. CASE UNCHANGED <<sent, buf>>
          BY <4>1, <4>3, <4>4 DEF Stream
        <4>5. CASE sent' = sent /\ buf' = Append(buf, f)
          BY <4>1, <4>2, <4>3, <4>5 DEF Stream
        <4>6. CASE sent' = sent \o Append(buf, f) /\ buf' = <<>>
          BY <4>1, <4>2, <4>3, <4>6 DEF Stream
        <4> QED
          BY <3>4, <4>4, <4>5, <4>6
      <3>8. Silent(Stream') /\ ~CloseOkIn(Stream')
        BY <3>3, <3>6, <3>7, AppendSilent, NamesAssumption DEF SilentInv
      <3> QED
        BY <3>1, <3>5, <3>7, <3>8 DEF SilentInv, SilentType
    <2>4. CASE PublishReturn(p)
      <3>1. /\ UNCHANGED <<out, rd, closed, body>>
            /\ m' = "none" /\ pc' = [pc EXCEPT ![p] = "done"]
            /\ UNCHANGED <<sent, buf>> \/ (sent' = sent \o buf /\ buf' = <<>>)
        BY <2>4 DEF PublishReturn, returns, outVars, rdVars, shVars
      <3>2. sent' \in Seq(FrameSet) /\ buf' \in Seq(FrameSet) /\ Stream' = Stream
        <4>1. sent \in Seq(FrameSet) /\ buf \in Seq(FrameSet) /\ <<>> \in Seq(FrameSet)
          BY DEF SilentInv, SilentType
        <4>2. sent \o buf \in Seq(FrameSet) /\ (sent \o buf) \o <<>> = sent \o buf
          BY <4>1, Flushed
        <4> QED
          BY <3>1, <4>1, <4>2 DEF Stream
      <3> QED
        BY <2>1, <3>1, <3>2 DEF SilentInv, SilentType, Goroutines
    <2> QED
      BY <1>8, <2>2, <2>3, <2>4 DEF Publish
  <1>9. ASSUME NEW g \in Ackers, Ack(g) PROVE SilentInv'
    <2> DEFINE f == Method(g)
    <2>1. f \in FrameSet /\ f.by = g
      BY MethodIsFrame DEF Senders
    <2>2. /\ UNCHANGED <<out, m, closed, body, rd>> /\ pc' = [pc EXCEPT ![g] = "done"]
          /\ UNCHANGED <<sent, buf>> \/ (~closed /\ sendOk(g, f))
      BY <1>9 DEF Ack, AckUnlocked, sendFails, outVars, rdVars, shVars
    <2> HIDE DEF f
    <2>3. /\ pc' \in [Goroutines -> {"idle", "check", "write", "send", "wait", "mode", "done"}]
          /\ \A p \in Publishers : pc'[p] = pc[p]
      BY <2>2, NamesAssumption DEF SilentInv, SilentType, Goroutines
    <2>4. CASE UNCHANGED <<sent, buf>>
      BY <2>2, <2>3, <2>4 DEF SilentInv, SilentType, Stream
    <2>5. CASE ~closed /\ sendOk(g, f)
      BY <2>1, <2>2, <2>3, <2>5, CommandStep, NamesAssumption
    <2> QED
      BY <2>2, <2>4, <2>5
  <1>10. ASSUME NEW g \in Calls, callBegin(g) \/ call(g) PROVE SilentInv'
    <2> DEFINE f == Method(g)
    <2>1. f \in FrameSet /\ f.by = g
      BY MethodIsFrame DEF Senders
    <2>2. /\ UNCHANGED <<out, m, closed, body>> /\ (rd' = "lock" => rd = "lock")
          /\ \E w \in {"done", "send", "wait", "mode"} : pc' = [pc EXCEPT ![g] = w]
          /\ UNCHANGED <<sent, buf>> \/ sendOk(g, f)
      BY <1>10 DEF callBegin, call, callSend, callWait, callYields, Confirm, Answered, sendFails,
                   outVars, rdVars, shVars
    <2> HIDE DEF f
    <2>3. /\ pc' \in [Goroutines -> {"idle", "check", "write", "send", "wait", "mode", "done"}]
          /\ \A p \in Publishers : pc'[p] = pc[p]
      BY <2>2, NamesAssumption DEF SilentInv, SilentType, Goroutines
    <2> QED
      BY <2>1, <2>2, <2>3, CommandStep, NamesAssumption
  <1>11. CASE \E l \in DOMAIN Listeners : Notify(l)
    BY <1>11, QuietStep DEF Notify, gVars, outVars, rdVars, shVars
  <1> QED
    BY <1>1, <1>2, <1>3, <1>4, <1>5, <1>6, <1>7, <1>8, <1>9, <1>10, <1>11 DEF Next

LEMMA InitSilent == Init => SilentInv
  <1> SUFFICES ASSUME Init PROVE SilentInv
    OBVIOUS
  <1>1. sent = <<>> /\ buf = <<>> /\ Stream = <<>>
    BY DEF Init, Stream
  <1>2. SilentType
    BY <1>1 DEF Init, SilentType
  <1> QED
    <2>1. Silent(Stream) /\ ~CloseOkIn(Stream)
      BY <1>1 DEF CloseOkIn, Silent
    <2>2. \A p \in Publishers : pc[p] \notin {"check", "write"}
      BY DEF Init, Goroutines
    <2> QED
      BY <1>2, <2>1, <2>2 DEF Init, SilentInv

\* After channel.close-ok no publishing and no acknowledgement goes out, for any number
\* of goroutines and of any size (updateChannel, dispatch, sendOpen).
THEOREM SilentAfterClose == Spec => []SilentAfterCloseOk
  <1>1. SilentInv => SilentAfterCloseOk
    BY DEF SilentInv, Silent, SilentAfterCloseOk
  <1> QED
    BY InitSilent, StepSilent, <1>1, PTL DEF Spec
-----------------------------------------------------------------------------
(***************************************************************************)
(* The end of the channel, as far as the calls see it: ch.errors yields    *)
(* something only when shutdown is over, and by then the channel is marked *)
(* closed, so that no call begins.                                         *)
(***************************************************************************)
ErrSet == {"none", "eof", "exception"}

ShutInv ==
  /\ closed \in BOOLEAN
  /\ shErr \in ErrSet /\ errs \in [val : ErrSet, closed : BOOLEAN]
  /\ body \in {"none", "lock", "notify", "done"}
  /\ body # "none" => closed
  /\ cclosed => closed
  /\ rd \in {"lock", "enter", "shutdown"} => closed
  /\ errs.val # "none" \/ errs.closed => body = "done"
  /\ rd = "rpc" => frame \notin Events

LEMMA InitShut == Init => ShutInv
  <1> SUFFICES ASSUME Init PROVE ShutInv
    OBVIOUS
  <1>1. /\ closed = FALSE /\ cclosed = FALSE /\ rd = "read" /\ body = "none" /\ shErr = "none"
        /\ errs = [val |-> "none", closed |-> FALSE]
    BY DEF Init
  <1>2. errs \in [val : ErrSet, closed : BOOLEAN] /\ errs.val = "none" /\ errs.closed = FALSE
    BY <1>1 DEF ErrSet
  <1> QED
    BY <1>1, <1>2 DEF ShutInv, ErrSet

\* readFrame passes events on to their handlers and everything else to ch.rpc.
LEMMA ReadFrameRoutes ==
  ASSUME readFrame
  PROVE  /\ rd = "read" /\ rd' \in {"lock", "rlock", "rpc"}
         /\ rd' = "lock" <=> frame' = "close"
         /\ rd' = "rpc" <=> frame' \notin Events
  <1>1. /\ rd = "read"
        /\ rd' = CASE frame' = "close" -> "lock"
                   [] frame' \in {"flow", "return", "cancel"} -> "rlock"
                   [] OTHER -> "rpc"
    BY Zenon DEF readFrame
  <1>2. CASE frame' = "close"
    <2>1. rd' = "lock"
      BY <1>1, <1>2, Zenon
    <2> QED
      BY <1>1, <1>2, <2>1 DEF Events
  <1>3. CASE frame' \in {"flow", "return", "cancel"}
    <2>1. rd' = "rlock"
      BY <1>1, <1>3, Zenon
    <2> QED
      BY <1>1, <1>3, <2>1 DEF Events
  <1>4. CASE frame' # "close" /\ frame' \notin {"flow", "return", "cancel"}
    <2>1. rd' = "rpc"
      BY <1>1, <1>4, Zenon
    <2> QED
      BY <1>1, <1>4, <2>1 DEF Events
  <1> QED
    BY <1>2, <1>3, <1>4

LEMMA StepShut == ShutInv /\ [Next]_vars => ShutInv'
  <1> SUFFICES ASSUME ShutInv, [Next]_vars PROVE ShutInv'
    OBVIOUS
  <1> USE DEF ShutInv, ErrSet
  <1>1. ASSUME UNCHANGED <<closed, cclosed, shVars, rdVars>> PROVE ShutInv'
    BY <1>1 DEF shVars, rdVars
  <1>2. CASE UNCHANGED vars
    BY <1>1, <1>2 DEF vars
  <1>3. CASE (\E e \in Events : ServerSends(e)) \/ SocketFails
    BY <1>1, <1>3 DEF ServerSends, SocketFails
  <1>4. CASE ConnectionFails
    BY <1>4 DEF ConnectionFails, rdVars
  <1>5. CASE readFrame
    <2>1. UNCHANGED <<cclosed, shVars>> /\ closed' = (closed \/ frame' = "close")
      BY <1>5, Zenon DEF readFrame
    <2> QED
      BY <1>5, <2>1, ReadFrameRoutes DEF shVars
  <1>6. CASE dispatchListeners \/ dispatchFlowOk \/ dispatchCloseOk
    BY <1>6 DEF dispatchListeners, dispatchFlowOk, dispatchCloseOk, shVars
  <1>7. CASE dispatchShutdown
    BY <1>7 DEF dispatchShutdown
  <1>8. CASE dispatchAbandon \/ readerEnds
    BY <1>8 DEF dispatchAbandon, readerEnds, shVars
  <1>9. CASE Shutdown
    <2>1. /\ UNCHANGED <<closed, cclosed, rd, frame, shErr>>
          /\ \/ body = "lock" /\ body' = "notify" /\ UNCHANGED errs
             \/ body = "notify" /\ body' = "done" /\ errs' = [val |-> shErr, closed |-> TRUE]
      BY <1>9 DEF Shutdown, shutdownLock, shutdownNotify, shutdownNotifyAtOnce, rdVars
    <2>2. errs' = [val |-> shErr, closed |-> TRUE] => errs' \in [val : ErrSet, closed : BOOLEAN]
      OBVIOUS
    <2>3. CASE body = "lock" /\ body' = "notify" /\ UNCHANGED errs
      BY <2>1, <2>3
    <2>4. CASE body = "notify" /\ body' = "done" /\ errs' = [val |-> shErr, closed |-> TRUE]
      BY <2>1, <2>2, <2>4
    <2> QED
      BY <2>1, <2>3, <2>4
  <1>10. CASE \E p \in Publishers : PublishLock(p) \/ Publish(p)
    BY <1>1, <1>10 DEF PublishLock, Publish, PublishCheck, sendUnflushed, PublishReturn
  <1>11. CASE \E g \in Ackers : Ack(g)
    BY <1>1, <1>11 DEF Ack, AckUnlocked
  <1>12. CASE \E g \in Calls : callBegin(g) \/ callSend(g) \/ Confirm(g)
    BY <1>1, <1>12 DEF callBegin, callSend, Confirm
  <1>13. CASE \E g \in Calls : callWait(g)
    <2>1. /\ UNCHANGED <<closed, cclosed, body, shErr>>
          /\ \/ errs' = [errs EXCEPT !.val = "none"] /\ UNCHANGED rdVars
             \/ UNCHANGED <<errs, rdVars>>
             \/ rd' = "read" /\ UNCHANGED <<errs, frame, todo>>
      BY <1>13 DEF callWait, callYields
    <2> QED
      BY <2>1 DEF rdVars
  <1>14. CASE \E l \in DOMAIN Listeners : Notify(l)
    BY <1>1, <1>14 DEF Notify
  <1> QED
    BY <1>2, <1>3, <1>4, <1>5, <1>6, <1>7, <1>8, <1>9, <1>10, <1>11, <1>12, <1>13, <1>14
    DEF Next, Reader, call

-----------------------------------------------------------------------------
(***************************************************************************)
(* Replies.  There may be several under way, but as long as the channel    *)
(* has not been shut down there is a waiting call for each of them: a call *)
(* takes one reply, no matter whose, and leaves.  So when no call is under *)
(* way neither is a reply, and a call that stays alone finds only its own. *)
(***************************************************************************)
Waiting == {g \in Calls : pc[g] = "wait"}
Pending == {i \in DOMAIN inbox : inbox[i] \notin Events} \cup (IF rd = "rpc" THEN {0} ELSE {})
Reply(i) == IF i = 0 THEN frame ELSE inbox[i]

Matched == \E a \in [Pending -> Waiting] : \A i, j \in Pending : a[i] = a[j] => i = j

ReplyType ==
  /\ pc \in [Goroutines -> {"idle", "check", "write", "send", "wait", "mode", "done"}]
  /\ res \in [Goroutines -> Results]
  /\ alone \in [Calls -> BOOLEAN]
  /\ inbox \in Seq(Events \cup {Operation[g] : g \in Calls})

\* A call that is alone so far shares the channel with no other call and with no
\* other reply than its own.
AloneInv ==
  \A g \in Calling : alone[g] => /\ Calling = {g}
                                 /\ \A i \in Pending : Reply(i) = Operation[g]

ReplyInv == /\ ReplyType
            /\ body # "done" => Matched
            /\ AloneInv
            /\ ReplyIsMine

LEMMA InitReply == Init => ReplyInv
  <1> SUFFICES ASSUME Init PROVE ReplyInv
    OBVIOUS
  <1>1. ReplyType /\ ReplyIsMine
    BY DEF Init, ReplyType, Results, Goroutines, ReplyIsMine
  <1>2. Pending = {} /\ Calling = {}
    BY DEF Init, Pending, Calling, Goroutines
  <1>3. Matched
    <2>1. [i \in {} |-> i] \in [{} -> Waiting]
      OBVIOUS
    <2> QED
      BY <1>2, <2>1 DEF Matched
  <1> QED
    BY <1>1, <1>2, <1>3 DEF ReplyInv, AloneInv

\* Fewer replies and as many waiting calls leave a call for each reply.
LEMMA MatchedMonotone ==
  ASSUME Matched, Pending' \subseteq Pending, Waiting \subseteq Waiting'
  PROVE  Matched'
  <1>1. PICK a \in [Pending -> Waiting] : \A i, j \in Pending : a[i] = a[j] => i = j
    BY DEF Matched
  <1> DEFINE b == [i \in Pending' |-> a[i]]
  <1>2. b \in [Pending' -> Waiting'] /\ \A i, j \in Pending' : b[i] = b[j] => i = j
    BY <1>1
  <1> QED
    BY <1>2 DEF Matched

\* Steps that touch neither calls nor replies.
LEMMA QuietReply ==
  ASSUME ReplyInv, pc' \in [Goroutines -> {"idle", "check", "write", "send", "wait", "mode", "done"}],
         res' \in [Goroutines -> Results],
         \A g \in Calls : pc'[g] = pc[g] /\ res'[g] = res[g],
         UNCHANGED <<alone, inbox>>,
         rd' = "rpc" => rd = "rpc" /\ frame' = frame,
         body = "done" => body' = "done"
  PROVE  ReplyInv'
  <1>1. Waiting' = Waiting /\ Calling' = Calling
    BY DEF Waiting, Calling
  <1>2. Pending' \subseteq Pending /\ \A i \in Pending' : Reply(i)' = Reply(i)
    <2>1. 0 \notin DOMAIN inbox
      BY DEF ReplyInv, ReplyType
    <2> QED
      BY <2>1 DEF Pending, Reply
  <1>3. ReplyType' /\ ReplyIsMine'
    BY DEF ReplyInv, ReplyType, ReplyIsMine
  <1>4. AloneInv'
    BY <1>1, <1>2 DEF ReplyInv, AloneInv
  <1>5. body' # "done" => Matched'
    BY <1>1, <1>2, MatchedMonotone DEF ReplyInv
  <1> QED
    BY <1>3, <1>4, <1>5 DEF ReplyInv

\* What goes out in the name of anybody but a call is not answered.
LEMMA NotAnswered ==
  ASSUME NEW g, g \notin Calls, NEW fs, serverGets(fs, g)
  PROVE  inbox' = inbox
  BY DEF serverGets

\* The reader takes the next frame: a reply goes from the inbox to ch.rpc.
LEMMA ReadReply ==
  ASSUME ReplyInv, readFrame
  PROVE  ReplyInv'
  <1>1. /\ UNCHANGED <<pc, res, alone, body>> /\ rd = "read"
        /\ inbox # <<>> /\ frame' = Head(inbox) /\ inbox' = Tail(inbox)
    BY Zenon DEF readFrame, gVars, shVars
  <1>2. rd' = "rpc" <=> frame' \notin Events
    BY ReadFrameRoutes
  <1> DEFINE T == Events \cup {Operation[g] : g \in Calls}
  <1>3. /\ inbox \in Seq(T) /\ inbox' \in Seq(T)
        /\ Head(inbox) = inbox[1] /\ 1 \in DOMAIN inbox
        /\ \A i \in DOMAIN inbox' : i \in Nat \ {0} /\ i + 1 \in DOMAIN inbox /\ inbox'[i] = inbox[i + 1]
    <2>1. inbox \in Seq(T)
      BY DEF ReplyInv, ReplyType
    <2> HIDE DEF T
    <2> QED
      BY <1>1, <2>1
  <1> HIDE DEF T
  <1>4. \A i \in Pending' : i \in Nat /\ i + 1 \in Pending /\ Reply(i)' = Reply(i + 1)
    <2> SUFFICES ASSUME NEW i \in Pending'
                 PROVE  i \in Nat /\ i + 1 \in Pending /\ Reply(i)' = Reply(i + 1)
      OBVIOUS
    <2>1. CASE i = 0
      <3>1. rd' = "rpc"
        BY <1>3, <2>1 DEF Pending
      <3> QED
        BY <1>1, <1>2, <1>3, <2>1, <3>1 DEF Pending, Reply
    <2>2. CASE i # 0
      <3>1. i \in DOMAIN inbox' /\ inbox'[i] \notin Events
        BY <2>2 DEF Pending
      <3>2. i + 1 # 0 /\ i + 1 \in DOMAIN inbox /\ inbox'[i] = inbox[i + 1] /\ i \in Nat
        BY <1>3, <3>1
      <3> QED
        BY <2>2, <3>1, <3>2 DEF Pending, Reply
    <2> QED
      BY <2>1, <2>2
  <1>5. Waiting' = Waiting /\ Calling' = Calling
    BY <1>1 DEF Waiting, Calling
  <1>6. body' # "done" => Matched'
    <2> SUFFICES ASSUME body # "done" PROVE Matched'
      BY <1>1
    <2>1. PICK a \in [Pending -> Waiting] : \A i, j \in Pending : a[i] = a[j] => i = j
      BY DEF ReplyInv, Matched
    <2> DEFINE b == [i \in Pending' |-> a[i + 1]]
    <2>2. b \in [Pending' -> Waiting']
      BY <1>4, <1>5, <2>1
    <2>3. ASSUME NEW i \in Pending', NEW j \in Pending', b[i] = b[j] PROVE i = j
      <3>1. a[i + 1] = a[j + 1] /\ i + 1 \in Pending /\ j + 1 \in Pending /\ i \in Nat /\ j \in Nat
        BY <1>4, <2>3
      <3>2. i + 1 = j + 1
        BY <2>1, <3>1
      <3> QED
        BY <3>1, <3>2
    <2> HIDE DEF b
    <2> QED
      BY <2>2, <2>3 DEF Matched
  <1>7. AloneInv'
    BY <1>1, <1>4, <1>5 DEF ReplyInv, AloneInv
  <1>8. ReplyType' /\ ReplyIsMine'
    BY <1>1, <1>3 DEF ReplyInv, ReplyType, ReplyIsMine, T
  <1> QED
    BY <1>6, <1>7, <1>8 DEF ReplyInv

\* A call begins: alone if no other is under way, and then there is no reply left.
LEMMA BeginReply ==
  ASSUME ReplyInv, ShutInv, NEW g \in Calls, callBegin(g)
  PROVE  ReplyInv'
  <1>1. /\ pc[g] = "idle" /\ UNCHANGED <<inbox, rd, frame, body>>
        /\ pc' = [pc EXCEPT ![g] = IF closed THEN "done" ELSE "send"]
        /\ res' = [res EXCEPT ![g] = IF closed THEN "ErrClosed" ELSE @]
        /\ alone' = [h \in Calls |-> alone[h] /\ ~(h \in Calling \cup {g} /\ Calling # {})]
    BY DEF callBegin, srvVars, rdVars, shVars
  <1>2. ReplyType'
    <2>1. alone' \in [Calls -> BOOLEAN]
      BY <1>1 DEF ReplyInv, ReplyType
    <2>2. g \in Goroutines
      BY DEF Goroutines
    <2> QED
      BY <1>1, <2>1, <2>2 DEF ReplyInv, ReplyType, Results
  <1>3. Waiting' = Waiting /\ Pending' = Pending /\ \A i \in Pending : Reply(i)' = Reply(i)
    BY <1>1 DEF Waiting, Pending, Reply, Goroutines, ReplyInv, ReplyType
  <1>4. body' # "done" => Matched'
    BY <1>1, <1>3, MatchedMonotone DEF ReplyInv
  <1>5. /\ closed => Calling' = Calling
        /\ ~closed => Calling' = Calling \cup {g}
    BY <1>1 DEF Calling, Goroutines, ReplyInv, ReplyType
  <1>6. \A h \in Calls : alone'[h] => alone[h] /\ ~(h \in Calling \cup {g} /\ Calling # {})
    BY <1>1 DEF ReplyInv, ReplyType
  <1>7. AloneInv'
    <2> SUFFICES ASSUME NEW h \in Calling', alone'[h]
                 PROVE  Calling' = {h} /\ \A i \in Pending' : Reply(i)' = Operation[h]
      BY DEF AloneInv
    <2>1. h \in Calls /\ alone[h]
      BY <1>6 DEF Calling
    <2>2. CASE Calling # {}
      <3>1. h \notin Calling \cup {g}
        BY <1>6, <2>1, <2>2
      <3> QED
        BY <1>5, <3>1 DEF ShutInv
    <2>3. CASE Calling = {}
      <3>1. ~closed /\ h = g /\ Calling' = {g}
        BY <1>5, <2>3 DEF ShutInv
      <3>2. body # "done" /\ Waiting = {}
        BY <2>3, <3>1 DEF ShutInv, Waiting, Calling
      <3>3. Pending = {}
        BY <3>2 DEF ReplyInv, Matched
      <3> QED
        BY <1>3, <3>1, <3>3
    <2> QED
      BY <2>2, <2>3
  <1>8. ReplyIsMine'
    <2> SUFFICES ASSUME NEW h \in Calls, res'[h] = "ErrCommandInvalid" PROVE ~alone'[h]
      BY DEF ReplyIsMine
    <2>1. res[h] = "ErrCommandInvalid"
      BY <1>1 DEF ReplyInv, ReplyType, Goroutines
    <2> QED
      BY <1>6, <2>1 DEF ReplyInv, ReplyIsMine
  <1> QED
    BY <1>2, <1>4, <1>7, <1>8 DEF ReplyInv

\* A call sends its method: there is one reply more and one call more that waits for it,
\* or, with noWait, no reply.
LEMMA SendReply ==
  ASSUME ReplyInv, NEW g \in Calls, callSend(g)
  PROVE  ReplyInv'
  <1>0. g \in Goroutines
    BY DEF Goroutines
  <1>1. pc[g] = "send" /\ UNCHANGED <<alone, rd, frame, body>>
    BY DEF callSend, rdVars, shVars
  <1>2. PICK w \in {"wait", "done"}, r \in Results :
          /\ pc' = [pc EXCEPT ![g] = w] /\ res' = [res EXCEPT ![g] = r]
          /\ r # "ErrCommandInvalid" \/ r = res[g]
          /\ \/ inbox' = inbox
             \/ inbox' = Append(inbox, Operation[g]) /\ w = "wait"
    <2>1. ASSUME sendOk(g, Method(g))
          PROVE  inbox' = inbox \/ (inbox' = Append(inbox, Operation[g]) /\ waits(g))
      BY <2>1, AnswerAssumption DEF sendOk, serverGets
    <2>2. res = [res EXCEPT ![g] = res[g]] /\ res[g] \in Results
      BY <1>0 DEF ReplyInv, ReplyType
    <2>3. ASSUME NEW r \in Results, sendFails(r) PROVE r # "ErrCommandInvalid" /\ inbox' = inbox
      BY <2>3 DEF sendFails, srvVars
    <2>4. CASE sendOk(g, Method(g)) /\ waits(g)
                 /\ pc' = [pc EXCEPT ![g] = "wait"] /\ UNCHANGED res
      BY <2>1, <2>2, <2>4
    <2>5. CASE sendOk(g, Method(g)) /\ ~waits(g)
                 /\ res' = [res EXCEPT ![g] = "nil"] /\ pc' = [pc EXCEPT ![g] = "done"]
      <3>1. inbox' = inbox /\ "nil" \in Results
        BY <2>1, <2>5 DEF Results
      <3> QED
        BY <2>5, <3>1
    <2>6. CASE \E r \in Results : /\ sendFails(r) /\ res' = [res EXCEPT ![g] = r]
                                  /\ pc' = [pc EXCEPT ![g] = "done"]
      BY <2>3, <2>6
    <2> QED
      BY <2>4, <2>5, <2>6 DEF callSend
  <1> DEFINE T == Events \cup {Operation[h] : h \in Calls}
             n == Len(inbox) + 1
  <1>3. /\ n \in Nat /\ n # 0 /\ n \notin DOMAIN inbox
        /\ inbox' \in Seq(T)
        /\ \A i \in DOMAIN inbox' : i \in DOMAIN inbox \/ (i = n /\ w = "wait")
        /\ \A i \in DOMAIN inbox : inbox'[i] = inbox[i]
        /\ n \in DOMAIN inbox' => inbox'[n] = Operation[g]
    <2>1. inbox \in Seq(T) /\ Operation[g] \in T
      BY DEF ReplyInv, ReplyType
    <2> HIDE DEF T
    <2> QED
      BY <1>2, <2>1
  <1>4. ReplyType'
    BY <1>0, <1>1, <1>2, <1>3 DEF ReplyInv, ReplyType
  <1>5. /\ \A h \in Calls : pc'[h] = IF h = g THEN w ELSE pc[h]
        /\ \A h \in Calls : res'[h] = IF h = g THEN r ELSE res[h]
    BY <1>0, <1>2 DEF ReplyInv, ReplyType, Goroutines
  <1> HIDE DEF T, n
  <1>6. \A i \in Pending' : \/ i \in Pending /\ Reply(i)' = Reply(i)
                            \/ i = n /\ w = "wait" /\ Reply(i)' = Operation[g]
    BY <1>1, <1>3 DEF Pending, Reply
  <1>7. n \notin Pending /\ g \notin Waiting /\ g \in Calling /\ Waiting \subseteq Waiting'
        /\ (w = "wait" => g \in Waiting')
    BY <1>1, <1>3, <1>5 DEF Pending, Waiting, Calling
  <1>8. body' # "done" => Matched'
    <2> SUFFICES ASSUME body # "done" PROVE Matched'
      BY <1>1
    <2>1. PICK a \in [Pending -> Waiting] : \A i, j \in Pending : a[i] = a[j] => i = j
      BY DEF ReplyInv, Matched
    <2> DEFINE b == [i \in Pending' |-> IF i = n THEN g ELSE a[i]]
    <2>2. \A i \in Pending' : b[i] = IF i = n THEN g ELSE a[i]
      OBVIOUS
    <2>3. b \in [Pending' -> Waiting']
      BY <1>6, <1>7, <2>1
    <2> HIDE DEF b
    <2>4. ASSUME NEW i \in Pending', NEW j \in Pending', b[i] = b[j] PROVE i = j
      BY <1>6, <1>7, <2>1, <2>2, <2>4
    <2> QED
      BY <2>3, <2>4 DEF Matched
  <1>9. AloneInv'
    <2> SUFFICES ASSUME NEW h \in Calling', alone[h]
                 PROVE  Calling' = {h} /\ \A i \in Pending' : Reply(i)' = Operation[h]
      BY <1>1 DEF AloneInv
    <2>1. h \in Calling /\ Calling' \subseteq Calling
      BY <1>1, <1>5 DEF Calling
    <2>2. Calling = {h} /\ \A i \in Pending : Reply(i) = Operation[h]
      BY <2>1 DEF ReplyInv, AloneInv
    <2>3. g = h
      BY <1>7, <2>2
    <2> QED
      BY <1>6, <2>1, <2>2, <2>3
  <1>10. ReplyIsMine'
    BY <1>1, <1>5, <1>2 DEF ReplyInv, ReplyIsMine
  <1> QED
    BY <1>4, <1>8, <1>9, <1>10 DEF ReplyInv

\* A call takes the reply that the reader offers, or hears of the end of the channel.
LEMMA WaitReply ==
  ASSUME ReplyInv, ShutInv, NEW g \in Calls, callWait(g)
  PROVE  ReplyInv'
  <1>0. g \in Goroutines
    BY DEF Goroutines
  <1>1. /\ pc[g] = "wait" /\ UNCHANGED <<alone, inbox, body>>
    BY DEF callWait, srvVars
  <1>2. PICK r \in Results : /\ callYields(g, r) /\ res' = [res EXCEPT ![g] = r]
                             /\ pc' = [pc EXCEPT ![g] = Answered(g, r)]
    BY DEF callWait
  <1>3. Answered(g, r) \in {"mode", "done"}
    BY DEF Answered
  <1>4. /\ \A h \in Calls : pc'[h] = IF h = g THEN Answered(g, r) ELSE pc[h]
        /\ \A h \in Calls : res'[h] = IF h = g THEN r ELSE res[h]
    BY <1>0, <1>2 DEF ReplyInv, ReplyType, Goroutines
  <1>5. ReplyType'
    BY <1>0, <1>1, <1>2, <1>3 DEF ReplyInv, ReplyType
  <1>6. Waiting' = Waiting \ {g} /\ Calling' = Calling \ {g} /\ g \in Waiting /\ g \in Calling
    BY <1>1, <1>3, <1>4 DEF Waiting, Calling
  <1>7. \/ UNCHANGED rdVars /\ body = "done" /\ r # "ErrCommandInvalid"
        \/ /\ rd = "rpc" /\ rd' = "read" /\ frame' = frame
           /\ r = IF frame = Operation[g] THEN "nil" ELSE "ErrCommandInvalid"
    BY <1>2 DEF callYields, ShutInv, ErrSet
  <1>8. Pending' \subseteq Pending /\ \A i \in Pending' : Reply(i)' = Reply(i)
    BY <1>1, <1>7 DEF Pending, Reply, rdVars
  <1>9. AloneInv'
    <2> SUFFICES ASSUME NEW h \in Calling', alone[h]
                 PROVE  Calling' = {h} /\ \A i \in Pending' : Reply(i)' = Operation[h]
      BY <1>1 DEF AloneInv
    <2>1. Calling = {h}
      BY <1>6 DEF ReplyInv, AloneInv
    <2> QED
      BY <1>6, <2>1
  <1>10. ReplyIsMine'
    <2> SUFFICES ASSUME NEW h \in Calls, res'[h] = "ErrCommandInvalid" PROVE ~alone[h]
      BY <1>1 DEF ReplyIsMine
    <2>1. CASE h # g
      BY <1>4, <2>1 DEF ReplyInv, ReplyIsMine
    <2>2. CASE h = g
      <3>1. rd = "rpc" /\ frame # Operation[g]
        BY <1>4, <1>7, <2>2
      <3>2. 0 \in Pending /\ Reply(0) # Operation[g]
        BY <3>1 DEF Pending, Reply
      <3> QED
        BY <1>6, <2>2, <3>2 DEF ReplyInv, AloneInv
    <2> QED
      BY <2>1, <2>2
  <1>11. body' # "done" => Matched'
    <2> SUFFICES ASSUME body # "done" PROVE Matched'
      BY <1>1
    <2>1. PICK a \in [Pending -> Waiting] : \A i, j \in Pending : a[i] = a[j] => i = j
      BY DEF ReplyInv, Matched
    <2>2. rd = "rpc" /\ rd' = "read" /\ 0 \in Pending
      BY <1>7 DEF Pending
    <2>3. 0 \notin Pending'
      BY <1>1, <2>2 DEF Pending, ReplyInv, ReplyType
    <2> DEFINE b == [i \in Pending' |-> IF a[i] = g THEN a[0] ELSE a[i]]
    <2>4. \A i \in Pending' : b[i] = IF a[i] = g THEN a[0] ELSE a[i]
      OBVIOUS
    <2>5. \A i \in Pending' : b[i] \in Waiting'
      BY <1>6, <1>8, <2>1, <2>2, <2>3, <2>4
    <2>6. b \in [Pending' -> Waiting']
      BY <2>5
    <2> HIDE DEF b
    <2>7. ASSUME NEW i \in Pending', NEW j \in Pending', b[i] = b[j] PROVE i = j
      BY <1>8, <2>1, <2>2, <2>3, <2>4, <2>7
    <2> QED
      BY <2>6, <2>7 DEF Matched
  <1> QED
    BY <1>5, <1>9, <1>10, <1>11 DEF ReplyInv

LEMMA StepReply == SilentInv /\ ShutInv /\ ReplyInv /\ [Next]_vars => ReplyInv'
  <1> SUFFICES ASSUME SilentInv, ShutInv, ReplyInv, [Next]_vars PROVE ReplyInv'
    OBVIOUS
  <1> DEFINE PCs == {"idle", "check", "write", "send", "wait", "mode", "done"}
  <1>0. pc \in [Goroutines -> PCs] /\ res \in [Goroutines -> Results]
    BY DEF ReplyInv, ReplyType
  <1>1. ASSUME UNCHANGED <<gVars, alone, inbox>>, rd' = "rpc" => rd = "rpc" /\ frame' = frame,
               body = "done" => body' = "done"
        PROVE  ReplyInv'
    BY <1>0, <1>1, QuietReply DEF gVars
  <1>2. CASE UNCHANGED vars
    BY <1>1, <1>2 DEF vars, srvVars, rdVars, shVars
  <1>3. ASSUME NEW e \in Events, ServerSends(e) PROVE ReplyInv'
    <2>1. /\ UNCHANGED <<gVars, alone, rd, frame, body>> /\ inbox' = Append(inbox, e)
      BY <1>3 DEF ServerSends, rdVars, shVars
    <2> DEFINE T == Events \cup {Operation[g] : g \in Calls}
    <2>2. /\ inbox' \in Seq(T) /\ 0 \notin DOMAIN inbox
          /\ \A i \in DOMAIN inbox' : i \in DOMAIN inbox \/ inbox'[i] = e
          /\ \A i \in DOMAIN inbox : inbox'[i] = inbox[i]
      <3>1. inbox \in Seq(T) /\ e \in T
        BY DEF ReplyInv, ReplyType
      <3> HIDE DEF T
      <3> QED
        BY <2>1, <3>1
    <2>3. Pending' \subseteq Pending /\ \A i \in Pending' : Reply(i)' = Reply(i)
      BY <2>1, <2>2 DEF Pending, Reply
    <2>4. Waiting' = Waiting /\ Calling' = Calling
      BY <2>1 DEF Waiting, Calling, gVars
    <2>5. ReplyType' /\ ReplyIsMine'
      BY <2>1, <2>2 DEF ReplyInv, ReplyType, ReplyIsMine, gVars
    <2> QED
      BY <2>1, <2>3, <2>4, <2>5, MatchedMonotone DEF ReplyInv, AloneInv
  <1>4. CASE SocketFails \/ ConnectionFails
    BY <1>1, <1>4 DEF SocketFails, ConnectionFails, srvVars, rdVars, shVars
  <1>5. CASE Reader
    <2>1. CASE readFrame
      BY <2>1, ReadReply
    <2>2. CASE dispatchListeners
      BY <1>1, <2>2 DEF dispatchListeners, srvVars, shVars
    <2>3. CASE dispatchFlowOk \/ dispatchCloseOk
      <3>1. ASSUME NEW f, sendOk("reader", f) PROVE inbox' = inbox
        BY <3>1, NotAnswered, NamesAssumption DEF sendOk
      <3> QED
        BY <1>1, <2>3, <3>1 DEF dispatchFlowOk, dispatchCloseOk, sendFails, srvVars, shVars
    <2>4. CASE dispatchShutdown \/ dispatchAbandon \/ readerEnds
      BY <1>1, <2>4 DEF dispatchShutdown, dispatchAbandon, readerEnds, srvVars, shVars
    <2> QED
      BY <1>5, <2>1, <2>2, <2>3, <2>4 DEF Reader
  <1>6. CASE Shutdown
    BY <1>0, <1>6, QuietReply
       DEF Shutdown, shutdownLock, shutdownNotify, shutdownNotifyAtOnce, srvVars, rdVars
  <1>7. ASSUME NEW p \in Publishers, PublishLock(p) \/ Publish(p) PROVE ReplyInv'
    <2>1. p \in Goroutines /\ p \notin Calls /\ "none" \notin Calls
      BY NamesAssumption DEF Goroutines
    <2>2. UNCHANGED <<alone, rd, frame, body>>
      BY <1>7 DEF PublishLock, Publish, PublishCheck, sendUnflushed, PublishReturn, rdVars, shVars
    <2>3. inbox' = inbox
      BY <1>7, <2>1, NotAnswered
         DEF PublishLock, Publish, PublishCheck, sendUnflushed, PublishReturn, sendFails, srvVars
    <2>4. pc' = pc \/ \E w \in PCs : pc' = [pc EXCEPT ![p] = w]
      BY <1>7 DEF PublishLock, Publish, PublishCheck, sendUnflushed, PublishReturn, returns
    <2>5. res' = res \/ \E r \in Results : res' = [res EXCEPT ![p] = r]
      BY <1>7, <1>0, <2>1
         DEF PublishLock, Publish, PublishCheck, sendUnflushed, PublishReturn, Results
    <2>6. pc' \in [Goroutines -> PCs] /\ \A g \in Calls : pc'[g] = pc[g]
      BY <1>0, <2>1, <2>4 DEF Goroutines
    <2>7. res' \in [Goroutines -> Results] /\ \A g \in Calls : res'[g] = res[g]
      BY <1>0, <2>1, <2>5 DEF Goroutines
    <2> QED
      BY <2>2, <2>3, <2>6, <2>7, QuietReply
  <1>8. ASSUME NEW g \in Ackers, Ack(g) PROVE ReplyInv'
    <2>1. g \in Goroutines /\ g \notin Calls
      BY NamesAssumption DEF Goroutines
    <2>2. UNCHANGED <<alone, rd, frame, body>> /\ pc' = [pc EXCEPT ![g] = "done"]
      BY <1>8 DEF Ack, AckUnlocked, rdVars, shVars
    <2>3. inbox' = inbox
      BY <1>8, <2>1, NotAnswered DEF Ack, AckUnlocked, sendOk, sendFails, srvVars
    <2>4. \E r \in Results : res' = [res EXCEPT ![g] = r]
      BY <1>8 DEF Ack, AckUnlocked, Results
    <2>5. pc' \in [Goroutines -> PCs] /\ \A h \in Calls : pc'[h] = pc[h]
      BY <1>0, <2>1, <2>2 DEF Goroutines
    <2>6. res' \in [Goroutines -> Results] /\ \A h \in Calls : res'[h] = res[h]
      BY <1>0, <2>1, <2>4 DEF Goroutines
    <2> QED
      BY <2>2, <2>3, <2>5, <2>6, QuietReply
  <1>9. ASSUME NEW g \in Calls, callBegin(g) \/ call(g) PROVE ReplyInv'
    <2>1. CASE Confirm(g)
      <3>1. /\ UNCHANGED <<res, alone, inbox, rd, frame, body>> /\ pc[g] = "mode"
            /\ pc' = [pc EXCEPT ![g] = "done"]
        BY <2>1 DEF Confirm, srvVars, rdVars, shVars
      <3>2. pc' \in [Goroutines -> PCs] /\ Waiting' = Waiting /\ Calling' = Calling
        BY <1>0, <3>1 DEF Waiting, Calling, Goroutines
      <3>3. Pending' = Pending /\ \A i \in Pending : Reply(i)' = Reply(i)
        BY <3>1 DEF Pending, Reply
      <3> QED
        BY <3>1, <3>2, <3>3, MatchedMonotone DEF ReplyInv, ReplyType, AloneInv, ReplyIsMine
    <2> QED
      BY <1>9, <2>1, BeginReply, SendReply, WaitReply DEF call
  <1>10. CASE \E l \in DOMAIN Listeners : Notify(l)
    BY <1>1, <1>10 DEF Notify, srvVars, rdVars, shVars
  <1> QED
    BY <1>2, <1>3, <1>4, <1>5, <1>6, <1>7, <1>8, <1>9, <1>10 DEF Next

\* However many goroutines call on a channel, one that no other call overlaps never gets
\* the reply of another (call, dispatch, shutdown).
THEOREM RepliesMatch == Spec => []ReplyIsMine
  <1>1. ReplyInv => ReplyIsMine
    BY DEF ReplyInv
  <1>2. SilentInv /\ ShutInv /\ ReplyInv /\ [Next]_vars => SilentInv' /\ ShutInv' /\ ReplyInv'
    BY StepSilent, StepShut, StepReply
  <1> QED
    BY InitSilent, InitShut, InitReply, <1>1, <1>2, PTL DEF Spec

-----------------------------------------------------------------------------
(***************************************************************************)
(* Counting frames.                                                        *)
(***************************************************************************)
LEMMA OfFinite ==
  ASSUME NEW s \in Seq(FrameSet), NEW p, NEW T \in SUBSET Of(p, s)
  PROVE  IsFiniteSet(T) /\ Cardinality(T) \in Nat
  <1>1. IsFiniteSet(1 .. Len(s)) /\ T \in SUBSET (1 .. Len(s))
    BY FS_Interval DEF Of
  <1>2. IsFiniteSet(T)
    BY <1>1, FS_Subset
  <1> QED
    BY <1>2, FS_CardinalityType

\* One frame more.
LEMMA OfAppend ==
  ASSUME NEW s \in Seq(FrameSet), NEW f \in FrameSet, NEW p
  PROVE  /\ f.by = p => /\ Of(p, Append(s, f)) = Of(p, s) \cup {Len(s) + 1}
                        /\ Cardinality(Of(p, Append(s, f))) = Cardinality(Of(p, s)) + 1
         /\ f.by # p => Of(p, Append(s, f)) = Of(p, s)
  <1>1. f.by = p => Of(p, Append(s, f)) = Of(p, s) \cup {Len(s) + 1}
    BY DEF Of
  <1>2. f.by # p => Of(p, Append(s, f)) = Of(p, s)
    BY DEF Of
  <1>3. Len(s) + 1 \notin Of(p, s)
    BY DEF Of
  <1>4. IsFiniteSet(Of(p, s))
    BY OfFinite
  <1> QED
    BY <1>1, <1>2, <1>3, <1>4, FS_AddElement

LEMMA RankAppend ==
  ASSUME NEW s \in Seq(FrameSet), NEW f \in FrameSet
  PROVE  /\ \A i \in DOMAIN s : Append(s, f)[i] = s[i] /\ Rank(Append(s, f), i) = Rank(s, i)
         /\ Append(s, f)[Len(s) + 1] = f
         /\ Rank(Append(s, f), Len(s) + 1) = Cardinality(Of(f.by, s)) + 1
  <1> DEFINE t == Append(s, f)
  <1>1. /\ Len(s) \in Nat /\ DOMAIN s = 1 .. Len(s) /\ DOMAIN t = 1 .. Len(s) + 1
        /\ t[Len(s) + 1] = f /\ \A i \in DOMAIN s : t[i] = s[i]
    OBVIOUS
  <1>2. ASSUME NEW i \in DOMAIN s PROVE Rank(t, i) = Rank(s, i)
    <2>1. {j \in Of(t[i].by, t) : j <= i} = {j \in Of(s[i].by, s) : j <= i}
      BY <1>1 DEF Of
    <2> QED
      BY <2>1 DEF Rank
  <1>3. Rank(t, Len(s) + 1) = Cardinality(Of(f.by, s)) + 1
    <2>1. {j \in Of(f.by, t) : j <= Len(s) + 1} = Of(f.by, t)
      BY <1>1 DEF Of
    <2>2. Rank(t, Len(s) + 1) = Cardinality(Of(f.by, t))
      BY <1>1, <2>1 DEF Rank
    <2> QED
      BY <2>2, OfAppend
  <1> QED
    BY <1>1, <1>2, <1>3

-----------------------------------------------------------------------------
(***************************************************************************)
(* The contents.  What p has written are the first frames of its content,  *)
(* as many as it has done with; while it holds Channel.m, from the first   *)
(* of them on no other of those who take the mutex has written.            *)
(***************************************************************************)
Written(p) == Cardinality(Of(p, Stream))

Content(p) ==
  /\ \A i \in Of(p, Stream) :
       Rank(Stream, i) \in 1 .. Len(frames(p)) /\ Stream[i] = frames(p)[Rank(Stream, i)]
  /\ \A i, k \in Of(p, Stream), j \in DOMAIN Stream : i < j /\ j < k => Stream[j].by \notin Lockers \ {p}
  /\ pc[p] \in {"idle", "check"} => Of(p, Stream) = {} /\ res[p] = "none"
  /\ pc[p] = "write" =>
       /\ \A i \in Of(p, Stream), j \in DOMAIN Stream : i < j => Stream[j].by \notin Lockers \ {p}
       /\ \/ /\ res[p] = "none" /\ Len(out[p]) + Written(p) = Len(frames(p))
             /\ \A k \in 1 .. Len(out[p]) : out[p][k] = frames(p)[Written(p) + k]
          \/ res[p] \notin {"none", "nil"} /\ out[p] = <<>>
  /\ res[p] = "nil" => /\ pc[p] = "done" /\ Written(p) = Len(frames(p))
                       /\ \A i \in Of(p, Stream) : i <= Len(sent)

ContentInv == \A p \in Publishers : Content(p)

LEMMA InitContent == Init => ContentInv
  <1> SUFFICES ASSUME Init, NEW p \in Publishers PROVE Content(p)
    BY DEF ContentInv
  <1>1. Stream = <<>>
    BY DEF Init, Stream
  <1>2. Of(p, Stream) = {}
    BY <1>1 DEF Of
  <1>3. pc[p] \in {"idle", "done"} /\ res[p] = "none"
    BY DEF Init, Goroutines
  <1> QED
    BY <1>2, <1>3 DEF Content

\* p is not concerned.
LEMMA QuietContent ==
  ASSUME NEW p \in Publishers, Content(p), Stream' = Stream,
         pc'[p] = pc[p], out'[p] = out[p], res'[p] = res[p],
         Len(sent) \in Nat, Len(sent') \in Nat, Len(sent) <= Len(sent'), Stream \in Seq(FrameSet)
  PROVE  Content(p)'
  <1>1. Of(p, Stream)' = Of(p, Stream) /\ Written(p)' = Written(p)
    BY DEF Of, Written
  <1>2. \A i \in Of(p, Stream) : Rank(Stream, i)' = Rank(Stream, i)
    OBVIOUS
  <1>3. \A i \in Of(p, Stream) : i \in Nat
    BY DEF Of
  <1> QED
    BY <1>1, <1>2, <1>3 DEF Content

\* Somebody else writes a frame.
LEMMA OtherContent ==
  ASSUME NEW p \in Publishers, Content(p), NEW f \in FrameSet, Stream \in Seq(FrameSet),
         Stream' = Append(Stream, f), f.by # p, f.by \in Lockers => pc[p] # "write",
         pc'[p] = pc[p], out'[p] = out[p], res'[p] = res[p],
         Len(sent) \in Nat, Len(sent') \in Nat, Len(sent) <= Len(sent')
  PROVE  Content(p)'
  <1>1. Of(p, Stream') = Of(p, Stream) /\ Written(p)' = Written(p)
    BY OfAppend DEF Written
  <1>2. \A i \in Of(p, Stream) : Rank(Stream', i) = Rank(Stream, i) /\ Stream'[i] = Stream[i]
    BY RankAppend DEF Of
  <1>3. DOMAIN Stream' = DOMAIN Stream \cup {Len(Stream) + 1} /\ Stream'[Len(Stream) + 1] = f
        /\ \A j \in DOMAIN Stream : Stream'[j] = Stream[j]
    OBVIOUS
  <1>4. \A i \in Of(p, Stream) : i \in Nat /\ i < Len(Stream) + 1
    BY DEF Of
  <1>5. \A i, k \in Of(p, Stream'), j \in DOMAIN Stream' : i < j /\ j < k => Stream'[j].by \notin Lockers \ {p}
    BY <1>1, <1>3, <1>4 DEF Content
  <1>6. pc[p] = "write" =>
          \A i \in Of(p, Stream'), j \in DOMAIN Stream' : i < j => Stream'[j].by \notin Lockers \ {p}
    BY <1>1, <1>3, <1>4 DEF Content
  <1>7. \A i \in Of(p, Stream') :
          Rank(Stream', i) \in 1 .. Len(frames(p)) /\ Stream'[i] = frames(p)[Rank(Stream', i)]
    BY <1>1, <1>2 DEF Content
  <1>8. res[p] = "nil" => \A i \in Of(p, Stream') : i <= Len(sent')
    BY <1>1, <1>4 DEF Content
  <1> QED
    BY <1>1, <1>5, <1>6, <1>7, <1>8 DEF Content

\* The stream of sent and buf, whatever moves between them.
LEMMA StreamType ==
  ASSUME SilentInv
  PROVE  /\ sent \in Seq(FrameSet) /\ buf \in Seq(FrameSet) /\ Stream \in Seq(FrameSet)
         /\ Len(sent) \in Nat /\ \A i \in DOMAIN sent : i \in DOMAIN Stream /\ Stream[i] = sent[i]
  BY DEF SilentInv, SilentType, Stream

LEMMA SendGrows ==
  ASSUME SilentInv, NEW f \in FrameSet,
         \/ \E g : sendOk(g, f)
         \/ sent' = sent \o Append(buf, f) /\ buf' = <<>>
         \/ sent' = sent /\ buf' = Append(buf, f)
  PROVE  Stream' = Append(Stream, f) /\ Len(sent') \in Nat /\ Len(sent) <= Len(sent')
  <1>1. sent \in Seq(FrameSet) /\ buf \in Seq(FrameSet) /\ Append(buf, f) \in Seq(FrameSet)
    BY StreamType
  <1>2. CASE sent' = sent \o Append(buf, f) /\ buf' = <<>>
    BY <1>1, <1>2, Appended DEF Stream
  <1>3. CASE sent' = sent /\ buf' = Append(buf, f)
    BY <1>1, <1>3, Appended DEF Stream
  <1> QED
    BY <1>2, <1>3 DEF sendOk

\* A step that p does not take: p stays where it is, and what is written is not its own
\* and, while it writes, of nobody who takes Channel.m.
Aside(p) ==
  /\ pc'[p] = pc[p] /\ out'[p] = out[p] /\ res'[p] = res[p]
  /\ Len(sent') \in Nat /\ Len(sent) <= Len(sent')
  /\ \/ Stream' = Stream
     \/ \E f \in FrameSet : /\ Stream' = Append(Stream, f) /\ f.by # p
                            /\ f.by \in Lockers => pc[p] # "write"

LEMMA QuietAside ==
  ASSUME SilentInv, NEW p \in Publishers, UNCHANGED <<sent, buf>>,
         pc'[p] = pc[p], out'[p] = out[p], res'[p] = res[p]
  PROVE  Aside(p)
  BY StreamType DEF Aside, Stream

LEMMA SendAside ==
  ASSUME SilentInv, NEW p \in Publishers, NEW f \in FrameSet,
         pc'[p] = pc[p], out'[p] = out[p], res'[p] = res[p],
         f.by # p, f.by \in Lockers => pc[p] # "write",
         UNCHANGED <<sent, buf>> \/ \E g : sendOk(g, f)
  PROVE  Aside(p)
  BY QuietAside, SendGrows DEF Aside

LEMMA OthersAside ==
  ASSUME SilentInv, ReplyType, [Next]_vars, NEW p \in Publishers, ~(PublishLock(p) \/ Publish(p))
  PROVE  Aside(p)
  <1>1. CASE UNCHANGED <<sent, buf, pc, out, res>>
    BY <1>1, QuietAside
  <1>2. CASE UNCHANGED vars
    BY <1>1, <1>2 DEF vars, gVars, outVars
  <1>3. CASE (\E e \in Events : ServerSends(e)) \/ SocketFails \/ ConnectionFails
    BY <1>1, <1>3 DEF ServerSends, SocketFails, ConnectionFails, gVars, outVars
  <1>4. CASE readFrame
    <2>1. UNCHANGED <<gVars, outVars>>
      BY <1>4, Zenon DEF readFrame
    <2> QED
      BY <1>1, <2>1 DEF gVars, outVars
  <1>5. CASE dispatchListeners \/ dispatchShutdown \/ dispatchAbandon \/ readerEnds \/ Shutdown
    BY <1>1, <1>5 DEF dispatchListeners, dispatchShutdown, dispatchAbandon, readerEnds, Shutdown,
                      shutdownLock, shutdownNotify, shutdownNotifyAtOnce, gVars, outVars
  <1>6. CASE dispatchFlowOk
    <2> DEFINE f == Method("flow-ok")
    <2>1. f \in FrameSet /\ f.by = "flow-ok"
      BY MethodIsFrame DEF Senders
    <2>2. f.by # p /\ f.by \notin Lockers
      BY <2>1, NamesAssumption DEF Lockers
    <2>3. UNCHANGED gVars /\ (UNCHANGED <<sent, buf>> \/ \E g : sendOk(g, f))
      BY <1>6 DEF dispatchFlowOk, sendFails, outVars
    <2> HIDE DEF f
    <2> QED
      BY <2>1, <2>2, <2>3, SendAside DEF gVars
  <1>7. CASE dispatchCloseOk
    <2> DEFINE f == Method("close-ok")
    <2>1. f \in FrameSet /\ f.by = "close-ok"
      BY MethodIsFrame DEF Senders
    <2>2. UNCHANGED gVars /\ m = "none" /\ (UNCHANGED <<sent, buf>> \/ \E g : sendOk(g, f))
      BY <1>7 DEF dispatchCloseOk, sendFails, outVars
    <2> HIDE DEF f
    <2>3. f.by # p /\ pc[p] # "write"
      BY <2>1, <2>2, NamesAssumption DEF SilentInv
    <2> QED
      BY <2>1, <2>2, <2>3, SendAside DEF gVars
  <1>8. ASSUME NEW q \in Publishers, PublishLock(q) PROVE Aside(p)
    <2>1. p # q /\ pc' = [pc EXCEPT ![q] = "check"] /\ UNCHANGED <<sent, buf, out, res>>
      BY <1>8 DEF PublishLock, outVars
    <2> QED
      BY <2>1, QuietAside DEF SilentInv, SilentType, Goroutines
  <1>9. ASSUME NEW q \in Publishers, Publish(q) PROVE Aside(p)
    <2>1. p # q /\ pc[p] \notin {"check", "write"}
      BY <1>9, NamesAssumption DEF SilentInv, Publish, PublishCheck, sendUnflushed, PublishReturn
    <2>2. /\ pc \in [Goroutines -> {"idle", "check", "write", "send", "wait", "mode", "done"}]
          /\ out \in [Publishers -> Seq(FrameSet)] /\ res \in [Goroutines -> Results]
          /\ p \in Goroutines /\ q \in Goroutines
      BY DEF SilentInv, SilentType, ReplyType, Goroutines
    <2>3. CASE PublishCheck(q)
      <3>1. /\ UNCHANGED <<sent, buf>> /\ \E w : pc' = [pc EXCEPT ![q] = w]
            /\ \E o : out' = [out EXCEPT ![q] = o] \/ out' = out
            /\ \E r : res' = [res EXCEPT ![q] = r] \/ res' = res
        BY <2>3 DEF PublishCheck, returns, outVars
      <3> QED
        BY <2>1, <2>2, <3>1, QuietAside
    <2>4. CASE PublishReturn(q)
      <3>1. /\ \E w : pc' = [pc EXCEPT ![q] = w] /\ \E r : res' = [res EXCEPT ![q] = r]
            /\ out' = out /\ (UNCHANGED <<sent, buf>> \/ (sent' = sent \o buf /\ buf' = <<>>))
        BY <2>4 DEF PublishReturn, returns, outVars
      <3>2. /\ Stream' = Stream /\ Len(sent') \in Nat /\ Len(sent) <= Len(sent')
        <4>1. sent \in Seq(FrameSet) /\ buf \in Seq(FrameSet)
          BY StreamType
        <4>2. /\ (sent \o buf) \o <<>> = sent \o buf
              /\ Len(sent) \in Nat /\ Len(sent \o buf) \in Nat /\ Len(sent) <= Len(sent \o buf)
          BY <4>1, Flushed
        <4> QED
          BY <3>1, <4>2 DEF Stream
      <3>3. pc'[p] = pc[p] /\ res'[p] = res[p] /\ out'[p] = out[p]
        BY <2>1, <2>2, <3>1
      <3> QED
        BY <3>2, <3>3 DEF Aside
    <2>5. CASE sendUnflushed(q)
      <3> DEFINE f == Head(out[q])
      <3>1. f \in FrameSet /\ f.by = q
        <4>1. out[q] \in Seq(Mine(q)) /\ out[q] \in Seq(FrameSet) /\ out[q] # <<>>
          BY <2>5 DEF SilentInv, SilentType, sendUnflushed
        <4>2. f \in Mine(q) /\ f \in FrameSet
          BY <4>1
        <4> QED
          BY <4>2 DEF Mine
      <3>2. /\ pc' = pc /\ \E o : out' = [out EXCEPT ![q] = o]
            /\ \E r : res' = [res EXCEPT ![q] = r] \/ res' = res
            /\ \/ UNCHANGED <<sent, buf>>
               \/ sent' = sent /\ buf' = Append(buf, f)
               \/ sent' = sent \o Append(buf, f) /\ buf' = <<>>
        BY <2>5 DEF sendUnflushed, sendFails, outVars
      <3> HIDE DEF f
      <3>3. pc'[p] = pc[p] /\ res'[p] = res[p] /\ out'[p] = out[p]
        BY <2>1, <2>2, <3>2
      <3>4. CASE UNCHANGED <<sent, buf>>
        BY <3>3, <3>4, QuietAside
      <3>5. CASE ~UNCHANGED <<sent, buf>>
        <4>1. Stream' = Append(Stream, f) /\ Len(sent') \in Nat /\ Len(sent) <= Len(sent')
          BY <3>1, <3>2, <3>5, SendGrows
        <4> QED
          BY <2>1, <3>1, <3>3, <4>1 DEF Aside
      <3> QED
        BY <3>4, <3>5
    <2> QED
      BY <1>9, <2>3, <2>4, <2>5 DEF Publish
  <1>10. ASSUME NEW g \in Ackers, Ack(g) PROVE Aside(p)
    <2> DEFINE f == Method(g)
    <2>1. f \in FrameSet /\ f.by = g /\ g # p
      BY MethodIsFrame, NamesAssumption DEF Senders
    <2>2. /\ m = "none" /\ out' = out /\ pc' = [pc EXCEPT ![g] = "done"]
          /\ \E r : res' = [res EXCEPT ![g] = r]
          /\ UNCHANGED <<sent, buf>> \/ \E h : sendOk(h, f)
      BY <1>10 DEF Ack, AckUnlocked, sendFails, outVars
    <2> HIDE DEF f
    <2>3. pc[p] # "write"
      BY <2>2, NamesAssumption DEF SilentInv
    <2>4. pc'[p] = pc[p] /\ res'[p] = res[p] /\ out'[p] = out[p]
      BY <2>1, <2>2 DEF SilentInv, SilentType, ReplyType, Goroutines
    <2> QED
      BY <2>1, <2>2, <2>3, <2>4, SendAside
  <1>11. ASSUME NEW g \in Calls, callBegin(g) \/ call(g) PROVE Aside(p)
    <2> DEFINE f == Method(g)
    <2>1. f \in FrameSet /\ f.by = g /\ g # p /\ g \notin Lockers
      BY MethodIsFrame, NamesAssumption DEF Senders, Lockers
    <2>2. /\ out' = out /\ \E w : pc' = [pc EXCEPT ![g] = w]
          /\ \E r : res' = [res EXCEPT ![g] = r] \/ res' = res
          /\ UNCHANGED <<sent, buf>> \/ \E h : sendOk(h, f)
      BY <1>11 DEF callBegin, call, callSend, callWait, Confirm, sendFails, outVars
    <2> HIDE DEF f
    <2>3. pc'[p] = pc[p] /\ res'[p] = res[p] /\ out'[p] = out[p]
      BY <2>1, <2>2 DEF SilentInv, SilentType, ReplyType, Goroutines
    <2> QED
      BY <2>1, <2>2, <2>3, SendAside
  <1>12. CASE \E l \in DOMAIN Listeners : Notify(l)
    BY <1>1, <1>12 DEF Notify, gVars, outVars
  <1> QED
    BY <1>2, <1>3, <1>4, <1>5, <1>6, <1>7, <1>8, <1>9, <1>10, <1>11, <1>12 DEF Next, Reader

\* p takes Channel.m, and makes its frames or finds the channel closed.
LEMMA BeginContent ==
  ASSUME SilentInv, ReplyType, NEW p \in Publishers, Content(p), PublishLock(p) \/ PublishCheck(p)
  PROVE  Content(p)'
  <1>1. /\ pc \in [Goroutines -> {"idle", "check", "write", "send", "wait", "mode", "done"}]
        /\ out \in [Publishers -> Seq(FrameSet)] /\ res \in [Goroutines -> Results] /\ p \in Goroutines
    BY DEF SilentInv, SilentType, ReplyType, Goroutines
  <1>2. UNCHANGED <<sent, buf>> /\ pc[p] \in {"idle", "check"}
    BY DEF PublishLock, PublishCheck, outVars
  <1>3. Of(p, Stream) = {} /\ res[p] = "none" /\ Stream' = Stream
    BY <1>2 DEF Content, Stream
  <1>4. Of(p, Stream') = {} /\ Written(p)' = 0
    BY <1>3, FS_EmptySet DEF Written
  <1>5. \/ pc'[p] = "check" /\ res'[p] = "none"
        \/ pc'[p] = "done" /\ res'[p] = "ErrClosed"
        \/ pc'[p] = "write" /\ res'[p] = "none" /\ out'[p] = frames(p)
    BY <1>1, <1>3 DEF PublishLock, PublishCheck, returns
  <1>6. frames(p) \in Seq(Mine(p))
    BY FramesAreMine
  <1> QED
    BY <1>4, <1>5, <1>6 DEF Content

\* p writes its next frame.
LEMMA WriteContent ==
  ASSUME SilentInv, ReplyType, NEW p \in Publishers, Content(p), sendUnflushed(p)
  PROVE  Content(p)'
  <1> DEFINE f == Head(out[p])
  <1>1. /\ out \in [Publishers -> Seq(FrameSet)] /\ res \in [Goroutines -> Results] /\ p \in Goroutines
        /\ out[p] \in Seq(Mine(p)) /\ out[p] \in Seq(FrameSet)
    BY DEF SilentInv, SilentType, ReplyType, Goroutines
  <1>2. /\ pc[p] = "write" /\ pc' = pc /\ out[p] # <<>>
        /\ \/ /\ out' = [out EXCEPT ![p] = Tail(out[p])] /\ res' = res
              /\ \/ sent' = sent /\ buf' = Append(buf, f)
                 \/ sent' = sent \o Append(buf, f) /\ buf' = <<>>
           \/ /\ out' = [out EXCEPT ![p] = <<>>] /\ UNCHANGED <<sent, buf>>
              /\ \E r \in {"ErrClosed", "write"} : res' = [res EXCEPT ![p] = r]
    BY DEF sendUnflushed, sendFails, outVars
  <1>3. Stream \in Seq(FrameSet)
    BY StreamType
  <1>4. CASE /\ out' = [out EXCEPT ![p] = <<>>] /\ UNCHANGED <<sent, buf>>
             /\ \E r \in {"ErrClosed", "write"} : res' = [res EXCEPT ![p] = r]
    <2>1. Stream' = Stream /\ Of(p, Stream)' = Of(p, Stream)
      BY <1>4 DEF Stream
    <2>2. out'[p] = <<>> /\ res'[p] \in {"ErrClosed", "write"} /\ pc'[p] = "write"
      BY <1>1, <1>2, <1>4
    <2> QED
      BY <1>2, <2>1, <2>2 DEF Content
  <1>5. CASE /\ out' = [out EXCEPT ![p] = Tail(out[p])] /\ res' = res
             /\ \/ sent' = sent /\ buf' = Append(buf, f)
                \/ sent' = sent \o Append(buf, f) /\ buf' = <<>>
    <2>1. /\ f \in FrameSet /\ f.by = p
      <3>1. f \in Mine(p) /\ f \in FrameSet
        BY <1>1, <1>2
      <3> QED
        BY <3>1 DEF Mine
    <2>2. /\ out'[p] = Tail(out[p]) /\ Len(out'[p]) = Len(out[p]) - 1 /\ Len(out[p]) \in Nat \ {0}
          /\ f = out[p][1] /\ \A k \in 1 .. Len(out'[p]) : out'[p][k] = out[p][k + 1]
      BY <1>1, <1>2, <1>5
    <2>3. /\ res[p] = "none" /\ Len(out[p]) + Written(p) = Len(frames(p))
          /\ \A k \in 1 .. Len(out[p]) : out[p][k] = frames(p)[Written(p) + k]
          /\ Written(p) \in Nat /\ Len(frames(p)) \in Nat
      <3>1. Written(p) \in Nat
        BY <1>3, OfFinite DEF Written
      <3>2. Len(frames(p)) \in Nat
        BY FramesAreMine
      <3> QED
        BY <1>2, <3>1, <3>2 DEF Content
    <2> HIDE DEF f
    <2>4. Stream' = Append(Stream, f)
      BY <1>5, <2>1, SendGrows
    <2>5. /\ Of(p, Stream') = Of(p, Stream) \cup {Len(Stream) + 1} /\ Written(p)' = Written(p) + 1
      BY <1>3, <2>1, <2>4, OfAppend DEF Written
    <2>6. /\ \A i \in DOMAIN Stream : Stream'[i] = Stream[i] /\ Rank(Stream', i) = Rank(Stream, i)
          /\ Stream'[Len(Stream) + 1] = f /\ Rank(Stream', Len(Stream) + 1) = Written(p) + 1
      BY <1>3, <2>1, <2>4, RankAppend DEF Written
    <2>7. /\ DOMAIN Stream' = DOMAIN Stream \cup {Len(Stream) + 1} /\ Len(Stream) \in Nat
          /\ \A i \in DOMAIN Stream : i \in Nat /\ i < Len(Stream) + 1
          /\ Of(p, Stream) \subseteq DOMAIN Stream
      BY <1>3, <2>4 DEF Of
    <2>8. \A i \in Of(p, Stream') :
            Rank(Stream', i) \in 1 .. Len(frames(p)) /\ Stream'[i] = frames(p)[Rank(Stream', i)]
      <3>1. Written(p) + 1 \in 1 .. Len(frames(p)) /\ f = frames(p)[Written(p) + 1]
        BY <2>2, <2>3
      <3> QED
        BY <2>5, <2>6, <2>7, <3>1 DEF Content
    <2>9. \A i \in Of(p, Stream'), j \in DOMAIN Stream' : i < j => Stream'[j].by \notin Lockers \ {p}
      BY <1>2, <2>1, <2>5, <2>6, <2>7 DEF Content
    <2>10. /\ Len(out'[p]) + Written(p)' = Len(frames(p))
           /\ \A k \in 1 .. Len(out'[p]) : out'[p][k] = frames(p)[Written(p)' + k]
      <3>1. ASSUME NEW k \in 1 .. Len(out'[p]) PROVE out'[p][k] = frames(p)[Written(p)' + k]
        <4>1. k + 1 \in 1 .. Len(out[p]) /\ out'[p][k] = out[p][k + 1]
          BY <2>2, <3>1
        <4>2. Written(p)' + k = Written(p) + (k + 1)
          BY <2>2, <2>3, <2>5, <3>1
        <4> QED
          BY <2>3, <4>1, <4>2
      <3> QED
        BY <2>2, <2>3, <2>5, <3>1
    <2>11. pc'[p] = "write" /\ res'[p] = "none"
      BY <1>2, <1>5, <2>3
    <2> QED
      BY <2>8, <2>9, <2>10, <2>11 DEF Content
  <1> QED
    BY <1>2, <1>4, <1>5

\* endSendUnflushed: nil only after the flush.
LEMMA ReturnContent ==
  ASSUME SilentInv, ReplyType, NEW p \in Publishers, Content(p), PublishReturn(p)
  PROVE  Content(p)'
  <1>1. /\ pc \in [Goroutines -> {"idle", "check", "write", "send", "wait", "mode", "done"}]
        /\ res \in [Goroutines -> Results] /\ p \in Goroutines
    BY DEF SilentInv, SilentType, ReplyType, Goroutines
  <1>2. /\ pc[p] = "write" /\ out[p] = <<>> /\ pc' = [pc EXCEPT ![p] = "done"]
        /\ \/ /\ sent' = sent \o buf /\ buf' = <<>>
              /\ res' = [res EXCEPT ![p] = IF res[p] = "none" THEN "nil" ELSE res[p]]
           \/ /\ UNCHANGED <<sent, buf>>
              /\ res' = [res EXCEPT ![p] = IF res[p] = "none" THEN "write" ELSE res[p]]
    BY DEF PublishReturn, returns, outVars
  <1>3. sent \in Seq(FrameSet) /\ buf \in Seq(FrameSet) /\ Stream \in Seq(FrameSet)
    BY StreamType
  <1>4. Stream' = Stream /\ (UNCHANGED <<sent, buf>> \/ sent' = Stream)
    BY <1>2, <1>3, Flushed DEF Stream
  <1>5. Of(p, Stream)' = Of(p, Stream) /\ Written(p)' = Written(p)
    BY <1>4 DEF Written
  <1>6. pc'[p] = "done" /\ (res'[p] = "nil" => res[p] = "none" /\ sent' = Stream)
    <2>1. res[p] # "nil"
      BY <1>2 DEF Content
    <2> QED
      BY <1>1, <1>2, <1>3, <2>1 DEF Stream
  <1>7. res'[p] = "nil" => Written(p) = Len(frames(p)) /\ \A i \in Of(p, Stream) : i <= Len(sent')
    <2>1. \A i \in Of(p, Stream) : i <= Len(Stream)
      BY <1>3 DEF Of
    <2>2. res[p] = "none" => Len(<<>>) + Written(p) = Len(frames(p))
      BY <1>2 DEF Content
    <2>3. Written(p) \in Nat /\ Len(<<>>) = 0
      BY <1>3, OfFinite DEF Written
    <2> QED
      BY <1>6, <2>1, <2>2, <2>3
  <1> QED
    BY <1>4, <1>5, <1>6, <1>7 DEF Content

LEMMA StepContent ==
  ASSUME SilentInv, ReplyType, ContentInv, [Next]_vars
  PROVE  ContentInv'
  <1> SUFFICES ASSUME NEW p \in Publishers PROVE Content(p)'
    BY DEF ContentInv
  <1>1. Content(p)
    BY DEF ContentInv
  <1>2. CASE PublishLock(p) \/ Publish(p)
    BY <1>1, <1>2, BeginContent, WriteContent, ReturnContent DEF Publish
  <1>3. CASE ~(PublishLock(p) \/ Publish(p))
    <2>1. Aside(p) /\ Stream \in Seq(FrameSet) /\ Len(sent) \in Nat
      BY <1>3, OthersAside, StreamType
    <2> QED
      BY <1>1, <2>1, QuietContent, OtherContent DEF Aside
  <1> QED
    BY <1>2, <1>3

\* The frames of a publishing reach the stream in order and with nothing of the others
\* who take Channel.m between them, however many goroutines share the channel and
\* however many frames a content has (PublishWithDeferredConfirm, sendOpen, dispatch).
THEOREM ContentsInOrder == Spec => []ContentsUnbroken
  <1>1. ContentInv => ContentsUnbroken
    <2> SUFFICES ASSUME ContentInv, NEW p \in Publishers, NEW i \in Of(p, Stream)
                 PROVE  /\ Rank(Stream, i) <= Len(frames(p)) /\ Stream[i] = frames(p)[Rank(Stream, i)]
                        /\ \A k \in Of(p, Stream), j \in DOMAIN Stream :
                             i < j /\ j < k => Stream[j].by \notin Lockers \ {p}
      BY DEF ContentsUnbroken
    <2> QED
      BY DEF ContentInv, Content
  <1>2. Init => SilentInv /\ ShutInv /\ ReplyInv /\ ContentInv
    BY InitSilent, InitShut, InitReply, InitContent
  <1>3. SilentInv /\ ShutInv /\ ReplyInv /\ ContentInv /\ [Next]_vars
          => (SilentInv /\ ShutInv /\ ReplyInv /\ ContentInv)'
    BY StepSilent, StepShut, StepReply, StepContent DEF ReplyInv
  <1> QED
    BY <1>1, <1>2, <1>3, PTL DEF Spec

-----------------------------------------------------------------------------
(***************************************************************************)
(* What the frames of a content are.                                       *)
(***************************************************************************)
\* The slices of the loop in sendOpen tile the body.
LEMMA CutTiles ==
  ASSUME NEW len \in Nat, NEW size \in Nat, len = 0 \/ size > 0, NEW c, c = cut(len, size)
  PROVE  /\ c \in Seq(Piece) /\ (Len(c) = 0 <=> len = 0)
         /\ len # 0 => c[1].from = 0 /\ c[Len(c)].to = len
         /\ \A i \in 1 .. Len(c) - 1 : c[i + 1].from = c[i].to
         /\ \A i \in 1 .. Len(c) : c[i].to - c[i].from <= size
  <1> DEFINE count == IF len = 0 THEN 0 ELSE (len + size - 1) \div size
  <1>1. count \in Nat /\ (count = 0 <=> len = 0)
        /\ (len # 0 => count * size >= len /\ (count - 1) * size < len)
    <2>1. CASE len = 0
      BY <2>1
    <2>2. CASE len # 0
      <3> DEFINE n == len + size - 1
                 q == n \div size
      <3>1. n \in Nat /\ size \in Nat \ {0} /\ n >= size
        BY <2>2
      <3>2. q \in Nat /\ q * size <= n /\ n < (q + 1) * size
        BY <3>1
      <3>3. (q + 1) * size = q * size + size /\ (q - 1) * size = q * size - size
            /\ q * size \in Int
        BY <3>1, <3>2
      <3>4. q # 0
        BY <3>1, <3>2, <3>3
      <3>5. count = q
        BY <2>2
      <3> HIDE DEF q, count
      <3> QED
        BY <2>2, <3>1, <3>2, <3>3, <3>4, <3>5
    <2> QED
      BY <2>1, <2>2
  <1>2. c = [i \in 1 .. count |-> [from |-> (i - 1) * size, to |-> IF i * size > len THEN len ELSE i * size]]
    BY DEF cut
  <1>3. c \in Seq(Piece)
    BY CutIsSeq
  <1> HIDE DEF count
  <1>4. Len(c) = count
    BY <1>1, <1>2
  <1>5. \A i \in 1 .. count : /\ c[i].from = (i - 1) * size
                              /\ c[i].to = IF i * size > len THEN len ELSE i * size
    BY <1>2
  <1>6. ASSUME NEW i \in 1 .. count PROVE i < count => i * size <= len
    <2>1. i < count => i * size <= (count - 1) * size
      <3> SUFFICES ASSUME i < count PROVE i * size <= (count - 1) * size
        OBVIOUS
      <3>1. (count - 1) - i \in Nat
        BY <1>1, <1>6
      <3>2. ((count - 1) - i) * size >= 0
        BY <3>1
      <3> QED
        BY <1>1, <1>6, <3>2
    <2>2. i < count => (count - 1) * size < len
      BY <1>1, <1>6
    <2>3. i * size \in Int /\ (count - 1) * size \in Int
      BY <1>1, <1>6
    <2> QED
      BY <2>1, <2>2, <2>3
  <1>7. len # 0 => c[1].from = 0 /\ c[count].to = len
    <2>1. len # 0 => 1 \in 1 .. count /\ count \in 1 .. count
      BY <1>1
    <2>2. (1 - 1) * size = 0 /\ count * size \in Int
      BY <1>1
    <2> QED
      BY <1>1, <1>5, <2>1, <2>2
  <1>8. \A i \in 1 .. count - 1 : c[i + 1].from = c[i].to
    <2> SUFFICES ASSUME NEW i \in 1 .. count - 1 PROVE c[i + 1].from = c[i].to
      OBVIOUS
    <2>1. i \in 1 .. count /\ i + 1 \in 1 .. count /\ i < count
      BY <1>1
    <2>2. i * size <= len /\ i * size \in Int
      BY <1>1, <1>6, <2>1
    <2>3. c[i].to = i * size
      BY <1>5, <2>1, <2>2
    <2>4. c[i + 1].from = ((i + 1) - 1) * size /\ (i + 1) - 1 = i
      BY <1>5, <2>1
    <2> QED
      BY <2>3, <2>4
  <1>9. \A i \in 1 .. count : c[i].to - c[i].from <= size
    <2> SUFFICES ASSUME NEW i \in 1 .. count PROVE c[i].to - c[i].from <= size
      OBVIOUS
    <2>1. (i - 1) * size = i * size - size /\ i * size \in Int /\ c[i].from = (i - 1) * size
      BY <1>1, <1>5
    <2>2. c[i].to \in Int /\ c[i].to <= i * size
      BY <1>5, <2>1
    <2> QED
      BY <2>1, <2>2
  <1> QED
    BY <1>1, <1>3, <1>4, <1>7, <1>8, <1>9

LEMMA FramesTile ==
  ASSUME NEW p \in Publishers, NEW F, F = frames(p), NEW n, n = Len(F)
  PROVE  /\ F \in Seq(Mine(p)) /\ n \in Nat /\ n >= 2
         /\ F[1].from = 0 /\ F[n].to = BodyLen[p]
         /\ \A k \in 1 .. n - 1 : F[k + 1].from = F[k].to
         /\ \A k \in 1 .. n : F[k].part = "end" <=> k = n
         /\ FrameSize > 0 => \A k \in 1 .. n : F[k].to - F[k].from + frameHeaderSize <= FrameSize
  <1> DEFINE size   == IF FrameSize > 0 THEN FrameSize - frameHeaderSize ELSE BodyLen[p]
             pieces == cut(BodyLen[p], size)
             bodies == [i \in DOMAIN pieces |->
                          [by |-> p, part |-> IF i = Len(pieces) THEN "end" ELSE "body",
                           from |-> pieces[i].from, to |-> pieces[i].to]]
             method == [by |-> p, part |-> "method", from |-> 0, to |-> 0]
             header == [by |-> p, part |-> IF pieces = <<>> THEN "end" ELSE "header", from |-> 0, to |-> 0]
             c == Len(pieces)
  <1>1. F = <<method, header>> \o bodies
    BY DEF frames
  <1>2. BodyLen[p] \in Nat /\ size \in Nat /\ (BodyLen[p] = 0 \/ size > 0)
    BY CallAssumption, FrameSizeAssumption DEF frameHeaderSize
  <1>3. FrameSize > 0 => size + frameHeaderSize = FrameSize /\ size > 0
    BY FrameSizeAssumption DEF frameHeaderSize
  <1> HIDE DEF size
  <1>4. /\ pieces \in Seq(Piece) /\ (c = 0 <=> BodyLen[p] = 0)
        /\ BodyLen[p] # 0 => pieces[1].from = 0 /\ pieces[c].to = BodyLen[p]
        /\ \A i \in 1 .. c - 1 : pieces[i + 1].from = pieces[i].to
        /\ \A i \in 1 .. c : pieces[i].to - pieces[i].from <= size
    BY <1>2, CutTiles
  <1> HIDE DEF pieces
  <1>5. c \in Nat /\ DOMAIN pieces = 1 .. c /\ (c = 0 <=> pieces = <<>>)
    BY <1>4
  <1> HIDE DEF c
  <1>6. /\ Len(bodies) = c /\ bodies \in Seq(Mine(p))
        /\ \A i \in 1 .. c : /\ bodies[i].from = pieces[i].from /\ bodies[i].to = pieces[i].to
                             /\ bodies[i].part = "end" <=> i = c
    <2>1. \A i \in 1 .. c : pieces[i].from \in Int /\ pieces[i].to \in Int
      <3>1. \A x \in Piece : x.from \in Int /\ x.to \in Int
        BY DEF Piece
      <3> QED
        BY <1>4, <1>5, <3>1
    <2>2. \A i \in 1 .. c : bodies[i] = [by |-> p, part |-> IF i = Len(pieces) THEN "end" ELSE "body",
                                         from |-> pieces[i].from, to |-> pieces[i].to]
      BY <1>5
    <2>3. \A i \in 1 .. c : bodies[i] \in Mine(p)
      <3>1. \A i \in 1 .. c : [by |-> p, part |-> IF i = Len(pieces) THEN "end" ELSE "body",
                              from |-> pieces[i].from, to |-> pieces[i].to] \in Mine(p)
        BY <2>1 DEF Mine, Parts
      <3> QED
        BY <2>2, <3>1
    <2>4. DOMAIN bodies = 1 .. c /\ bodies = [i \in 1 .. c |-> bodies[i]]
      BY <1>5
    <2> HIDE DEF bodies
    <2>5. bodies \in Seq(Mine(p)) /\ Len(bodies) = c
      BY <1>5, <2>3, <2>4
    <2>6. \A i \in 1 .. c : /\ bodies[i].from = pieces[i].from /\ bodies[i].to = pieces[i].to
                            /\ bodies[i].part = IF i = Len(pieces) THEN "end" ELSE "body"
      <3> SUFFICES ASSUME NEW i \in 1 .. c
                   PROVE  /\ bodies[i].from = pieces[i].from /\ bodies[i].to = pieces[i].to
                          /\ bodies[i].part = IF i = Len(pieces) THEN "end" ELSE "body"
        OBVIOUS
      <3> DEFINE x == IF i = Len(pieces) THEN "end" ELSE "body"
                 a == pieces[i].from
                 b == pieces[i].to
      <3>1. bodies[i] = [by |-> p, part |-> x, from |-> a, to |-> b]
        BY <2>2
      <3> HIDE DEF x, a, b
      <3>2. bodies[i].from = a /\ bodies[i].to = b /\ bodies[i].part = x
        BY <3>1
      <3> QED
        BY <3>2 DEF x, a, b
    <2>7. c = Len(pieces)
      BY DEF c
    <2> QED
      BY <2>5, <2>6, <2>7
  <1>7. /\ method.from = 0 /\ method.to = 0 /\ header.from = 0 /\ header.to = 0 /\ method.part = "method"
        /\ header.part = "end" <=> c = 0
    BY <1>5
  <1> HIDE DEF bodies, method, header
  <1>8. F \in Seq(Mine(p))
    BY FramesAreMine
  <1>9. /\ n = c + 2 /\ F[1] = method /\ F[2] = header
        /\ \A k \in 3 .. n : F[k] = bodies[k - 2]
    BY <1>1, <1>5, <1>6
  <1>10. \A k \in 3 .. n : /\ k - 2 \in 1 .. c
                           /\ F[k].from = pieces[k - 2].from /\ F[k].to = pieces[k - 2].to
                           /\ F[k].part = "end" <=> k = n
    BY <1>5, <1>6, <1>9
  <1>11. F[n].to = BodyLen[p]
    <2>1. CASE c = 0
      BY <1>4, <1>7, <1>9, <2>1
    <2>2. CASE c # 0
      <3>1. n \in 3 .. n /\ n - 2 = c
        BY <1>5, <1>9, <2>2
      <3> QED
        BY <1>4, <1>10, <2>2, <3>1
    <2> QED
      BY <2>1, <2>2
  <1>12. ASSUME NEW k \in 1 .. n - 1 PROVE F[k + 1].from = F[k].to
    <2>1. CASE k = 1
      BY <1>7, <1>9, <2>1
    <2>2. CASE k = 2
      <3>1. 3 \in 3 .. n /\ 3 - 2 = 1 /\ c # 0
        BY <1>5, <1>9, <1>12, <2>2
      <3>2. F[3].from = pieces[1].from
        BY <1>10, <3>1
      <3> QED
        BY <1>4, <1>7, <1>9, <2>2, <3>1, <3>2
    <2>3. CASE k > 2
      <3>1. k \in 3 .. n /\ k + 1 \in 3 .. n /\ (k + 1) - 2 = (k - 2) + 1 /\ k - 2 \in 1 .. c - 1
        BY <1>5, <1>9, <1>12, <2>3
      <3> QED
        BY <1>4, <1>10, <3>1
    <2> QED
      BY <1>5, <1>9, <2>1, <2>2, <2>3
  <1>13. \A k \in 1 .. n : F[k].part = "end" <=> k = n
    <2> SUFFICES ASSUME NEW k \in 1 .. n PROVE F[k].part = "end" <=> k = n
      OBVIOUS
    <2>1. k = 1 \/ k = 2 \/ k \in 3 .. n
      BY <1>5, <1>9
    <2> QED
      BY <1>5, <1>7, <1>9, <1>10, <2>1
  <1>14. ASSUME FrameSize > 0, NEW k \in 1 .. n PROVE F[k].to - F[k].from + frameHeaderSize <= FrameSize
    <2>1. CASE k = 1 \/ k = 2
      <3>1. F[k].to - F[k].from = 0
        BY <1>7, <1>9, <2>1
      <3> QED
        BY <1>2, <1>3, <1>14, <3>1, FrameSizeAssumption DEF frameHeaderSize
    <2>2. CASE k \in 3 .. n
      <3>1. F[k].from \in Int /\ F[k].to \in Int
        <4>1. F[k] \in Mine(p)
          BY <1>8, <1>14
        <4> QED
          BY <4>1 DEF Mine
      <3>2. F[k].to - F[k].from <= size
        BY <1>4, <1>10, <2>2
      <3> QED
        BY <1>2, <1>3, <1>14, <3>1, <3>2, FrameSizeAssumption DEF frameHeaderSize
    <2> QED
      BY <1>5, <1>9, <1>14, <2>1, <2>2
  <1> QED
    BY <1>5, <1>7, <1>8, <1>9, <1>11, <1>12, <1>13, <1>14

\* The frames of p in a stream are counted off by their ranks.
LEMMA RankCounts ==
  ASSUME NEW s \in Seq(FrameSet), NEW p, NEW i \in Of(p, s)
  PROVE  /\ (\A k \in Of(p, s) : i <= k) => Rank(s, i) = 1
         /\ (\A k \in Of(p, s) : k <= i) => Rank(s, i) = Cardinality(Of(p, s))
         /\ \A j \in Of(p, s) : i < j /\ (\A k \in Of(p, s) : ~(i < k /\ k < j)) => Rank(s, j) = Rank(s, i) + 1
  <1>1. \A k \in Of(p, s) : Rank(s, k) = Cardinality({j \in Of(p, s) : j <= k})
    <2>1. \A k \in Of(p, s) : s[k].by = p
      BY DEF Of
    <2> QED
      BY <2>1 DEF Rank
  <1>0. \A k \in Of(p, s) : k \in Nat
    BY DEF Of
  <1>2. ASSUME \A k \in Of(p, s) : i <= k PROVE Rank(s, i) = 1
    <2>1. {j \in Of(p, s) : j <= i} = {i}
      BY <1>0, <1>2
    <2> QED
      BY <1>1, <2>1, FS_Singleton
  <1>3. ASSUME \A k \in Of(p, s) : k <= i PROVE Rank(s, i) = Cardinality(Of(p, s))
    <2>1. {j \in Of(p, s) : j <= i} = Of(p, s)
      BY <1>3
    <2> QED
      BY <1>1, <2>1
  <1>4. ASSUME NEW j \in Of(p, s), i < j, \A k \in Of(p, s) : ~(i < k /\ k < j)
        PROVE  Rank(s, j) = Rank(s, i) + 1
    <2> DEFINE T == {k \in Of(p, s) : k <= i}
    <2>1. {k \in Of(p, s) : k <= j} = T \cup {j} /\ j \notin T
      BY <1>0, <1>4
    <2>2. IsFiniteSet(T)
      BY OfFinite
    <2>3. Rank(s, j) = Cardinality(T \cup {j}) /\ Rank(s, i) = Cardinality(T)
      BY <1>1, <1>4, <2>1
    <2> HIDE DEF T
    <2> QED
      BY <2>1, <2>2, <2>3, FS_AddElement
  <1> QED
    BY <1>2, <1>3, <1>4

LEMMA WholeContent ==
  ASSUME SilentInv, ContentInv
  PROVE  WholeWhenNil
  <1> SUFFICES ASSUME NEW p \in Publishers, res[p] = "nil"
               PROVE
      LET mine == Of(p, sent)
      IN  /\ mine # {}
          /\ \A i \in mine :
               /\ (\A k \in mine : i <= k) => sent[i].from = 0
               /\ (\A k \in mine : k <= i) => sent[i].to = BodyLen[p] /\ sent[i].part = "end"
               /\ \A j \in mine : i < j /\ (\A k \in mine : ~(i < k /\ k < j)) => sent[j].from = sent[i].to
               /\ FrameSize > 0 => sent[i].to - sent[i].from + frameHeaderSize <= FrameSize
    BY DEF WholeWhenNil
  <1> DEFINE F == frames(p)
             n == Len(F)
             rank(i) == Rank(Stream, i)
             mine == Of(p, sent)
  <1>1. /\ n \in Nat /\ n >= 2
        /\ F[1].from = 0 /\ F[n].to = BodyLen[p]
        /\ \A k \in 1 .. n - 1 : F[k + 1].from = F[k].to
        /\ \A k \in 1 .. n : F[k].part = "end" <=> k = n
        /\ FrameSize > 0 => \A k \in 1 .. n : F[k].to - F[k].from + frameHeaderSize <= FrameSize
    BY FramesTile
  <1>2. /\ \A i \in Of(p, Stream) : rank(i) \in 1 .. n /\ Stream[i] = F[rank(i)]
        /\ Cardinality(Of(p, Stream)) = n /\ \A i \in Of(p, Stream) : i <= Len(sent)
    BY DEF ContentInv, Content, Written
  <1>3. sent \in Seq(FrameSet) /\ Stream \in Seq(FrameSet)
        /\ \A i \in DOMAIN sent : i \in DOMAIN Stream /\ Stream[i] = sent[i]
    BY StreamType
  <1> HIDE DEF F, n
  <1>4. mine = Of(p, Stream)
    <2>1. \A i \in Of(p, Stream) : i \in DOMAIN sent
      BY <1>2, <1>3 DEF Of
    <2> QED
      BY <1>3, <2>1 DEF Of
  <1>5. /\ \A i \in mine : (\A k \in mine : i <= k) => rank(i) = 1
        /\ \A i \in mine : (\A k \in mine : k <= i) => rank(i) = n
        /\ \A i, j \in mine : i < j /\ (\A k \in mine : ~(i < k /\ k < j)) => rank(j) = rank(i) + 1
    BY <1>2, <1>3, <1>4, RankCounts
  <1>6. \A i \in mine : sent[i] = F[rank(i)] /\ rank(i) \in 1 .. n
    BY <1>2, <1>3, <1>4 DEF Of
  <1> HIDE DEF rank, mine
  <1>7. mine # {}
    <2>1. Cardinality({}) = 0
      BY FS_EmptySet
    <2>2. Cardinality(mine) = n /\ n # 0
      BY <1>1, <1>2, <1>4
    <2> QED
      BY <2>1, <2>2
  <1>8. ASSUME NEW i \in mine, \A k \in mine : i <= k PROVE sent[i].from = 0
    BY <1>1, <1>5, <1>6, <1>8
  <1>9. ASSUME NEW i \in mine, \A k \in mine : k <= i PROVE sent[i].to = BodyLen[p] /\ sent[i].part = "end"
    BY <1>1, <1>5, <1>6, <1>9
  <1>10. ASSUME NEW i \in mine, NEW j \in mine, i < j, \A k \in mine : ~(i < k /\ k < j)
         PROVE  sent[j].from = sent[i].to
    <2>1. rank(j) = rank(i) + 1
      BY <1>5, <1>10
    <2>2. rank(i) \in 1 .. n - 1
      BY <1>1, <1>6, <2>1
    <2> QED
      BY <1>1, <1>6, <2>1, <2>2
  <1>11. ASSUME NEW i \in mine, FrameSize > 0 PROVE sent[i].to - sent[i].from + frameHeaderSize <= FrameSize
    BY <1>1, <1>6, <1>11
  <1> QED
    BY <1>7, <1>8, <1>9, <1>10, <1>11 DEF mine

\* A Publish that returned nil has sent its whole content, in pieces that tile the body
\* and respect the tuned frame size, whatever the length of the body (sendOpen, flush).
THEOREM NilIsWhole == Spec => []WholeWhenNil
  <1>1. Init => SilentInv /\ ShutInv /\ ReplyInv /\ ContentInv
    BY InitSilent, InitShut, InitReply, InitContent
  <1>2. SilentInv /\ ShutInv /\ ReplyInv /\ ContentInv /\ [Next]_vars
          => (SilentInv /\ ShutInv /\ ReplyInv /\ ContentInv)'
    BY StepSilent, StepShut, StepReply, StepContent DEF ReplyInv
  <1> QED
    BY <1>1, <1>2, WholeContent, PTL DEF Spec

-----------------------------------------------------------------------------
(***************************************************************************)
(* The count of publishings.  As long as the two ends can agree, a Confirm *)
(* and a publishing are never under way together; the frames of one that   *)
(* is under way account for the difference between the two counters.       *)
(***************************************************************************)
TagType ==
  /\ published \in Int /\ srvCount \in Nat
  /\ confirming \in BOOLEAN /\ srvMode \in BOOLEAN /\ mixed \in BOOLEAN /\ sock \in BOOLEAN

CallsOpen ==
  \A g \in Calls : /\ pc[g] \in {"idle", "send", "wait"} => res[g] = "none"
                   /\ pc[g] = "mode" => res[g] = "nil" /\ g \in Confirming

ModeInv ==
  /\ Selecting = {} \/ Publishing = {}
  /\ Publishing = {} => buf = <<>>
  /\ confirming => srvMode
  /\ \A g \in Selecting : pc[g] \in {"wait", "mode"} => srvMode
  /\ srvMode /\ ~confirming => Selecting # {}

Owed(p) == IF pc[p] = "check" \/ out[p] # <<>> THEN 1 ELSE 0

CountInv ==
  /\ ~confirming => published = 0 /\ srvCount = 0
  /\ confirming /\ Publishing = {} => published = srvCount
  /\ \A p \in Publishing : /\ pc[p] = "check" => buf = <<>>
                           /\ pc[p] = "write" => res[p] = "none"
                           /\ confirming => published = srvCount + Ended(buf) + Owed(p)

TagInv == TagType /\ CallsOpen /\ (InAgreement => ModeInv /\ CountInv)

LEMMA EndedCounts ==
  /\ Ended(<<>>) = 0
  /\ \A b \in Seq(FrameSet) : Ended(b) \in Nat
  /\ \A b \in Seq(FrameSet), f \in FrameSet :
       Ended(Append(b, f)) = Ended(b) + (IF f.part = "end" THEN 1 ELSE 0)
  <1> DEFINE E(b) == {i \in DOMAIN b : b[i].part = "end"}
  <1>1. Ended(<<>>) = 0
    <2>1. E(<<>>) = {}
      OBVIOUS
    <2> QED
      BY <2>1, FS_EmptySet DEF Ended
  <1>2. ASSUME NEW b \in Seq(FrameSet) PROVE IsFiniteSet(E(b)) /\ Ended(b) \in Nat
    <2>1. IsFiniteSet(1 .. Len(b)) /\ E(b) \in SUBSET (1 .. Len(b))
      BY FS_Interval
    <2>2. IsFiniteSet(E(b))
      BY <2>1, FS_Subset
    <2> QED
      BY <2>2, FS_CardinalityType DEF Ended
  <1>3. ASSUME NEW b \in Seq(FrameSet), NEW f \in FrameSet
        PROVE  Ended(Append(b, f)) = Ended(b) + (IF f.part = "end" THEN 1 ELSE 0)
    <2>1. CASE f.part = "end"
      <3>1. E(Append(b, f)) = E(b) \cup {Len(b) + 1} /\ Len(b) + 1 \notin E(b)
        BY <2>1
      <3>2. Cardinality(E(b) \cup {Len(b) + 1}) = Cardinality(E(b)) + 1
        BY <1>2, <3>1, FS_AddElement
      <3>3. Ended(Append(b, f)) = Cardinality(E(Append(b, f))) /\ Ended(b) = Cardinality(E(b))
        BY DEF Ended
      <3>4. Ended(Append(b, f)) = Ended(b) + 1
        BY <3>1, <3>2, <3>3
      <3> HIDE DEF E
      <3> QED
        BY <2>1, <3>4
    <2>2. CASE f.part # "end"
      <3>1. E(Append(b, f)) = E(b)
        BY <2>2
      <3>2. Ended(Append(b, f)) = Ended(b)
        BY <3>1 DEF Ended
      <3>3. Ended(b) \in Nat
        BY <1>2
      <3> HIDE DEF E
      <3> QED
        BY <2>2, <3>2, <3>3
    <2> QED
      BY <2>1, <2>2
  <1> QED
    BY <1>1, <1>2, <1>3

LEMMA InitTags == Init => TagInv
  <1> SUFFICES ASSUME Init PROVE TagInv
    OBVIOUS
  <1>1. \A g \in Goroutines : pc[g] \in {"idle", "done"} /\ res[g] = "none"
    BY DEF Init
  <1>2. Selecting = {} /\ Publishing = {}
    BY <1>1 DEF Selecting, Publishing, Confirming, Goroutines
  <1>3. TagType /\ CallsOpen
    <2>1. /\ published = 0 /\ srvCount = 0 /\ confirming = FALSE /\ srvMode = FALSE /\ mixed = FALSE
          /\ sock = TRUE
      BY DEF Init
    <2>2. TagType
      <3>1. published \in Int /\ srvCount \in Nat
        BY <2>1
      <3>2. confirming \in BOOLEAN /\ srvMode \in BOOLEAN /\ mixed \in BOOLEAN /\ sock \in BOOLEAN
        BY <2>1, Zenon
      <3> QED
        BY <3>1, <3>2 DEF TagType
    <2>3. \A g \in Calls : pc[g] \in {"idle", "done"} /\ res[g] = "none"
      BY <1>1 DEF Goroutines
    <2> QED
      BY <2>2, <2>3 DEF CallsOpen
  <1>4. ModeInv /\ CountInv
    BY <1>2 DEF Init, ModeInv, CountInv
  <1> QED
    BY <1>3, <1>4 DEF TagInv

\* What holds whether or not the ends agree.
LEMMA GetsType ==
  ASSUME TagType, NEW fs \in Seq(FrameSet), NEW g, serverGets(fs, g)
  PROVE  srvCount' \in Nat /\ srvMode' \in BOOLEAN /\ (g \notin Confirming => srvMode' = srvMode)
  BY EndedCounts DEF TagType, serverGets, Confirming

\* Nobody begins or ends a Confirm or a publishing; somebody may flush the buffer.
LEMMA QuietTags ==
  ASSUME SilentInv, TagInv,
         \A g \in Publishers \cup Confirming : pc'[g] = pc[g] /\ res'[g] = res[g],
         UNCHANGED <<out, confirming, published, mixed>>, closed => closed', sock' => sock,
         \/ UNCHANGED <<buf, srvMode, srvCount>>
         \/ buf' = <<>> /\ \E g : g \notin Confirming /\ serverGets(buf, g)
  PROVE  InAgreement' => ModeInv' /\ CountInv'
  <1> SUFFICES ASSUME InAgreement' PROVE ModeInv' /\ CountInv'
    OBVIOUS
  <1>1. InAgreement
    BY DEF InAgreement
  <1>2. Selecting' = Selecting /\ Publishing' = Publishing
    BY DEF Selecting, Publishing
  <1>3. TagType /\ ModeInv /\ CountInv
    BY <1>1 DEF TagInv
  <1>4. buf \in Seq(FrameSet) /\ Ended(buf) \in Nat /\ Ended(<<>>) = 0
    BY EndedCounts, StreamType
  <1>5. \A p \in Publishing : Owed(p)' = Owed(p)
    BY DEF Owed, Publishing
  <1>6. CASE UNCHANGED <<buf, srvMode, srvCount>>
    <2>1. ModeInv'
      BY <1>2, <1>3, <1>6 DEF ModeInv, Selecting
    <2>2. Ended(buf)' = Ended(buf)
      BY <1>6
    <2>3. CountInv'
      BY <1>2, <1>3, <1>5, <1>6, <2>2 DEF CountInv, Publishing
    <2> QED
      BY <2>1, <2>3
  <1>7. CASE buf' = <<>> /\ \E g : g \notin Confirming /\ serverGets(buf, g)
    <2>1. srvMode' = srvMode /\ srvCount' = IF srvMode THEN srvCount + Ended(buf) ELSE srvCount
      <3>1. PICK g : g \notin Confirming /\ serverGets(buf, g)
        BY <1>7
      <3>2. srvMode' = srvMode
        BY <1>3, <1>4, <3>1, GetsType
      <3> QED
        BY <3>1, <3>2 DEF serverGets
    <2>2. ModeInv'
      BY <1>2, <1>3, <1>7, <2>1 DEF ModeInv, Selecting
    <2>3. Ended(buf)' = 0
      BY <1>4, <1>7
    <2>4. ~confirming => srvCount' = srvCount
      BY <1>3, <1>4, <2>1 DEF ModeInv, TagType
    <2>5. confirming => srvCount' = srvCount + Ended(buf)
      BY <1>3, <2>1 DEF ModeInv
    <2>6. confirming /\ Publishing = {} => srvCount' = srvCount
      BY <1>3, <1>4, <2>5 DEF ModeInv, TagType
    <2>7. \A p \in Publishing : Owed(p) \in {0, 1}
      BY DEF Owed
    <2>8. \A p \in Publishing : confirming => published = srvCount' + Ended(buf)' + Owed(p)'
      BY <1>3, <1>4, <1>5, <2>3, <2>5, <2>7 DEF CountInv, TagType
    <2>9. CountInv'
      BY <1>2, <1>3, <1>7, <2>4, <2>6, <2>8 DEF CountInv, Publishing
    <2> QED
      BY <2>2, <2>9
  <1> QED
    BY <1>6, <1>7

LEMMA StepTagType == SilentInv /\ TagType /\ [Next]_vars => TagType'
  <1> SUFFICES ASSUME SilentInv, TagType, [Next]_vars PROVE TagType'
    OBVIOUS
  <1>1. /\ published \in Int /\ srvCount \in Nat /\ buf \in Seq(FrameSet)
        /\ confirming \in BOOLEAN /\ srvMode \in BOOLEAN /\ mixed \in BOOLEAN /\ sock \in BOOLEAN
    BY StreamType DEF TagType
  <1>2. ASSUME published' \in Int, confirming' \in BOOLEAN, mixed' \in BOOLEAN, sock' \in BOOLEAN,
               \/ UNCHANGED <<srvMode, srvCount>>
               \/ \E fs \in Seq(FrameSet) : \E g : serverGets(fs, g)
        PROVE  TagType'
    <2>1. srvCount' \in Nat /\ srvMode' \in BOOLEAN
      BY <1>1, <1>2, GetsType
    <2> QED
      BY <1>2, <2>1 DEF TagType
  <1>3. ASSUME UNCHANGED <<published, confirming, mixed, sock, srvMode, srvCount>> PROVE TagType'
    BY <1>1, <1>3 DEF TagType
  <1>4. ASSUME UNCHANGED <<published, confirming, mixed, sock>>,
               UNCHANGED <<srvMode, srvCount>> \/ \E f, g : sendOk(g, f)
        PROVE  TagType'
    BY <1>1, <1>2, <1>4 DEF sendOk
  <1>5. CASE UNCHANGED vars \/ \E e \in Events : ServerSends(e)
    BY <1>3, <1>5 DEF vars, ServerSends, conVars, srvVars
  <1>6. CASE SocketFails
    BY <1>1, <1>2, <1>6 DEF SocketFails, conVars, srvVars
  <1>7. CASE ConnectionFails
    BY <1>3, <1>7 DEF ConnectionFails, conVars, srvVars
  <1>8. CASE readFrame
    <2>1. UNCHANGED <<conVars, mixed, sock, srvMode, srvCount>>
      BY <1>8, Zenon DEF readFrame
    <2> QED
      BY <1>3, <2>1 DEF conVars
  <1>9. CASE dispatchListeners \/ dispatchShutdown \/ dispatchAbandon \/ readerEnds \/ Shutdown
    BY <1>3, <1>9 DEF dispatchListeners, dispatchShutdown, dispatchAbandon, readerEnds, Shutdown,
                      shutdownLock, shutdownNotify, shutdownNotifyAtOnce, conVars, srvVars
  <1>10. CASE dispatchFlowOk \/ dispatchCloseOk
    BY <1>4, <1>10 DEF dispatchFlowOk, dispatchCloseOk, sendFails, conVars, srvVars
  <1>11. ASSUME NEW p \in Publishers, PublishLock(p) PROVE TagType'
    <2>1. /\ published' = (IF confirming THEN published + 1 ELSE published)
          /\ mixed' = (mixed \/ Selecting # {}) /\ UNCHANGED <<confirming, sock, srvMode, srvCount>>
      BY <1>11 DEF PublishLock, srvVars
    <2>2. published' \in Int
      BY <1>1, <2>1
    <2>3. mixed' \in BOOLEAN
      BY <2>1, Zenon
    <2> QED
      BY <1>1, <1>2, <2>1, <2>2, <2>3
  <1>12. ASSUME NEW p \in Publishers, Publish(p) PROVE TagType'
    <2>1. /\ UNCHANGED <<confirming, mixed, sock>>
          /\ published' = published \/ published' = published - 1
      BY <1>12 DEF Publish, PublishCheck, sendUnflushed, PublishReturn, returns, conVars
    <2>2. \/ UNCHANGED <<srvMode, srvCount>>
          \/ \E fs \in Seq(FrameSet) : \E g : serverGets(fs, g)
      <3>1. CASE PublishCheck(p)
        BY <3>1 DEF PublishCheck, srvVars
      <3>2. CASE sendUnflushed(p)
        <4>1. out[p] \in Seq(FrameSet) /\ out[p] # <<>>
          BY <3>2 DEF sendUnflushed, SilentInv, SilentType
        <4>2. Append(buf, Head(out[p])) \in Seq(FrameSet)
          BY <1>1, <4>1
        <4> QED
          BY <3>2, <4>2 DEF sendUnflushed, sendFails, srvVars
      <3>3. CASE PublishReturn(p)
        BY <1>1, <3>3 DEF PublishReturn, srvVars
      <3> QED
        BY <1>12, <3>1, <3>2, <3>3 DEF Publish
    <2>3. published' \in Int
      BY <1>1, <2>1
    <2> QED
      BY <1>1, <1>2, <2>1, <2>2, <2>3
  <1>13. CASE \E g \in Ackers : Ack(g)
    BY <1>4, <1>13 DEF Ack, AckUnlocked, sendFails, conVars, srvVars
  <1>14. ASSUME NEW g \in Calls, callBegin(g) PROVE TagType'
    <2>1. /\ UNCHANGED <<published, confirming, sock, srvMode, srvCount>>
          /\ mixed' = (mixed \/ (g \in Confirming /\ Publishing # {}))
      BY <1>14 DEF callBegin, conVars, srvVars
    <2>2. mixed' \in BOOLEAN
      BY <2>1, Zenon
    <2> QED
      BY <1>1, <1>2, <2>1, <2>2
  <1>15. ASSUME NEW g \in Calls, call(g) PROVE TagType'
    <2>1. CASE callSend(g)
      BY <1>4, <2>1 DEF callSend, sendFails, conVars, srvVars
    <2>2. CASE callWait(g)
      BY <1>3, <2>2 DEF callWait, conVars, srvVars
    <2>3. CASE Confirm(g)
      BY <1>1, <1>2, <2>3 DEF Confirm, srvVars
    <2> QED
      BY <1>15, <2>1, <2>2, <2>3 DEF call
  <1>16. CASE \E l \in DOMAIN Listeners : Notify(l)
    BY <1>3, <1>16 DEF Notify, conVars, srvVars
  <1> QED
    BY <1>5, <1>6, <1>7, <1>8, <1>9, <1>10, <1>11, <1>12, <1>13, <1>14, <1>15, <1>16 DEF Next, Reader

\* The answers that callWait may get.
LEMMA YieldsSomething ==
  ASSUME NEW g \in Calls, NEW r, callYields(g, r), ShutInv
  PROVE  r # "none"
  BY DEF callYields

\* Who takes a step, among the goroutines: all but one stay as they are.
LEMMA OneMoves ==
  ASSUME ReplyType, [Next]_vars
  PROVE  \/ UNCHANGED <<pc, res>>
         \/ \E g \in Goroutines :
              /\ \A h \in Goroutines \ {g} : pc'[h] = pc[h] /\ res'[h] = res[h]
              /\ \/ g \in Publishers /\ (PublishLock(g) \/ Publish(g))
                 \/ g \in Ackers /\ Ack(g)
                 \/ g \in Calls /\ (callBegin(g) \/ call(g))
  <1>1. pc \in [Goroutines -> {"idle", "check", "write", "send", "wait", "mode", "done"}]
        /\ res \in [Goroutines -> Results]
    BY DEF ReplyType
  <1>2. CASE readFrame
    <2>1. UNCHANGED gVars
      BY <1>2, Zenon DEF readFrame
    <2> QED
      BY <2>1 DEF gVars
  <1>3. CASE UNCHANGED vars \/ (\E e \in Events : ServerSends(e)) \/ SocketFails \/ ConnectionFails
    BY <1>3 DEF vars, ServerSends, SocketFails, ConnectionFails, gVars
  <1>4. CASE dispatchListeners \/ dispatchShutdown \/ dispatchAbandon \/ readerEnds \/ Shutdown
             \/ dispatchFlowOk \/ dispatchCloseOk \/ \E l \in DOMAIN Listeners : Notify(l)
    BY <1>4 DEF dispatchListeners, dispatchShutdown, dispatchAbandon, readerEnds, Shutdown, dispatchFlowOk,
                dispatchCloseOk, shutdownLock, shutdownNotify, shutdownNotifyAtOnce, Notify, gVars
  <1>5. ASSUME NEW g \in Goroutines, \E w, r : /\ pc' = pc \/ pc' = [pc EXCEPT ![g] = w]
                                               /\ res' = res \/ res' = [res EXCEPT ![g] = r]
        PROVE  \A h \in Goroutines \ {g} : pc'[h] = pc[h] /\ res'[h] = res[h]
    BY <1>1, <1>5
  <1>6. ASSUME NEW p \in Publishers, PublishLock(p) \/ Publish(p)
        PROVE  \E w, r : /\ pc' = pc \/ pc' = [pc EXCEPT ![p] = w]
                         /\ res' = res \/ res' = [res EXCEPT ![p] = r]
    BY <1>6 DEF PublishLock, Publish, PublishCheck, sendUnflushed, PublishReturn, returns
  <1>7. ASSUME NEW g \in Ackers, Ack(g)
        PROVE  \E w, r : /\ pc' = pc \/ pc' = [pc EXCEPT ![g] = w]
                         /\ res' = res \/ res' = [res EXCEPT ![g] = r]
    BY <1>7 DEF Ack, AckUnlocked
  <1>8. ASSUME NEW g \in Calls, callBegin(g) \/ call(g)
        PROVE  \E w, r : /\ pc' = pc \/ pc' = [pc EXCEPT ![g] = w]
                         /\ res' = res \/ res' = [res EXCEPT ![g] = r]
    BY <1>8 DEF callBegin, call, callSend, callWait, Confirm
  <1>9. Publishers \subseteq Goroutines /\ Ackers \subseteq Goroutines /\ Calls \subseteq Goroutines
    BY DEF Goroutines
  <1> QED
    BY <1>2, <1>3, <1>4, <1>5, <1>6, <1>7, <1>8, <1>9 DEF Next, Reader

LEMMA StepCallsOpen ==
  ASSUME ReplyType, ShutInv, CallsOpen, [Next]_vars
  PROVE  CallsOpen'
  <1>1. CASE UNCHANGED <<pc, res>>
    BY <1>1 DEF CallsOpen
  <1>2. ASSUME NEW g \in Goroutines, \A h \in Goroutines \ {g} : pc'[h] = pc[h] /\ res'[h] = res[h]
        PROVE  \A h \in Calls \ {g} : pc'[h] = pc[h] /\ res'[h] = res[h]
    BY <1>2 DEF Goroutines
  <1>3. ASSUME NEW g \in Goroutines, \A h \in Goroutines \ {g} : pc'[h] = pc[h] /\ res'[h] = res[h],
               g \notin Calls
        PROVE  CallsOpen'
    BY <1>2, <1>3 DEF CallsOpen
  <1>4. ASSUME NEW g \in Calls, \A h \in Goroutines \ {g} : pc'[h] = pc[h] /\ res'[h] = res[h],
               callBegin(g) \/ call(g)
        PROVE  CallsOpen'
    <2>1. /\ pc \in [Goroutines -> {"idle", "check", "write", "send", "wait", "mode", "done"}]
          /\ res \in [Goroutines -> Results] /\ g \in Goroutines
      BY DEF ReplyType, Goroutines
    <2>2. /\ pc'[g] \in {"idle", "send", "wait"} => res'[g] = "none"
          /\ pc'[g] = "mode" => res'[g] = "nil" /\ g \in Confirming
      <3>1. CASE callBegin(g)
        BY <2>1, <3>1 DEF callBegin, CallsOpen
      <3>2. CASE callSend(g)
        BY <2>1, <3>2 DEF callSend, CallsOpen
      <3>3. CASE callWait(g)
        <4>1. PICK r \in Results : res' = [res EXCEPT ![g] = r] /\ pc' = [pc EXCEPT ![g] = Answered(g, r)]
          BY <3>3 DEF callWait
        <4> QED
          BY <2>1, <4>1 DEF Answered
      <3>4. CASE Confirm(g)
        BY <2>1, <3>4 DEF Confirm
      <3> QED
        BY <1>4, <3>1, <3>2, <3>3, <3>4 DEF call
    <2> QED
      BY <1>2, <1>4, <2>1, <2>2 DEF CallsOpen
  <1> QED
    BY <1>1, <1>3, <1>4, OneMoves, NamesAssumption

\* The steps of a publisher.  It has Channel.m, so that no other one is at work.
LEMMA PublishTags ==
  ASSUME SilentInv, ShutInv, ReplyType, ContentInv, TagInv, NEW p \in Publishers,
         \A h \in Goroutines \ {p} : pc'[h] = pc[h] /\ res'[h] = res[h],
         PublishLock(p) \/ Publish(p), InAgreement'
  PROVE  ModeInv' /\ CountInv'
  <1>1. /\ pc \in [Goroutines -> {"idle", "check", "write", "send", "wait", "mode", "done"}]
        /\ out \in [Publishers -> Seq(FrameSet)] /\ res \in [Goroutines -> Results] /\ p \in Goroutines
        /\ buf \in Seq(FrameSet)
    BY StreamType DEF SilentInv, SilentType, ReplyType, Goroutines
  <1>2. UNCHANGED <<confirming, closed, cclosed, sock>> /\ (mixed => mixed')
    <2>1. UNCHANGED <<confirming, closed, cclosed, sock>>
      BY DEF PublishLock, Publish, PublishCheck, sendUnflushed, PublishReturn, conVars
    <2>2. mixed' = mixed \/ mixed' = (mixed \/ Selecting # {})
      BY DEF PublishLock, Publish, PublishCheck, sendUnflushed, PublishReturn
    <2>3. mixed => mixed'
      BY <2>2, Zenon
    <2> QED
      BY <2>1, <2>3
  <1>3. \A g \in Confirming : pc'[g] = pc[g] /\ res'[g] = res[g]
    BY NamesAssumption DEF Confirming, Goroutines
  <1>4. InAgreement
    BY <1>2, <1>3 DEF InAgreement
  <1>5. TagType /\ ModeInv /\ CountInv /\ Selecting' = Selecting
    BY <1>3, <1>4 DEF TagInv, Selecting
  <1>6. ~closed /\ ~cclosed /\ sock
    BY <1>4 DEF InAgreement, ShutInv
  <1>7. Ended(<<>>) = 0 /\ Ended(buf) \in Nat /\ published \in Int /\ srvCount \in Nat
    BY <1>1, <1>5, EndedCounts DEF TagType
  <1>8. \A q \in Publishers \ {p} : pc'[q] = pc[q]
    BY DEF Goroutines
  <1>9. CASE PublishLock(p)
    <2>1. /\ m = "none" /\ pc[p] = "idle" /\ pc' = [pc EXCEPT ![p] = "check"]
          /\ published' = (IF confirming THEN published + 1 ELSE published)
          /\ mixed' = (mixed \/ Selecting # {}) /\ UNCHANGED <<buf, srvMode, srvCount>>
      BY <1>9 DEF PublishLock, outVars, srvVars
    <2>2. Publishing = {}
      BY <2>1, NamesAssumption DEF SilentInv, Publishing
    <2>3. pc'[p] = "check"
      BY <1>1, <2>1
    <2>4. Publishing' = {p}
      BY <1>8, <2>2, <2>3 DEF Publishing
    <2>5. Selecting = {}
      BY <2>1 DEF InAgreement
    <2>6. buf = <<>> /\ (confirming => published = srvCount)
      BY <1>5, <2>2 DEF ModeInv, CountInv
    <2>7. Owed(p)' = 1 /\ Ended(buf)' = 0
      BY <1>7, <2>1, <2>3, <2>6 DEF Owed
    <2>8. ModeInv'
      BY <1>2, <1>5, <2>1, <2>4, <2>5 DEF ModeInv
    <2>9. confirming => published' = srvCount' + Ended(buf)' + Owed(p)'
      BY <1>7, <2>1, <2>6, <2>7
    <2>10. CountInv'
      BY <1>2, <1>5, <2>1, <2>3, <2>4, <2>6, <2>9 DEF CountInv
    <2> QED
      BY <2>8, <2>10
  <1>10. CASE Publish(p)
    <2>1. Publishing = {p} /\ \A q \in Publishers \ {p} : pc[q] \notin {"check", "write"}
      BY <1>10, NamesAssumption DEF SilentInv, Publishing, Publish, PublishCheck, sendUnflushed, PublishReturn
    <2>2. Selecting = {} /\ Selecting' = {} /\ (confirming <=> srvMode)
      BY <1>5, <2>1 DEF ModeInv
    <2>3. ~confirming => published = 0 /\ srvCount = 0
      BY <1>5 DEF CountInv
    <2>4. confirming => published = srvCount + Ended(buf) + Owed(p)
      BY <1>5, <2>1 DEF CountInv
    <2>5. CASE PublishCheck(p)
      <3>1. /\ pc[p] = "check" /\ pc' = [pc EXCEPT ![p] = "write"] /\ out' = [out EXCEPT ![p] = frames(p)]
            /\ UNCHANGED <<res, published, buf, srvMode, srvCount>>
        BY <1>6, <2>5 DEF PublishCheck, outVars, srvVars
      <3>2. pc'[p] = "write" /\ out'[p] = frames(p) /\ res'[p] = "none"
        BY <1>1, <3>1 DEF ContentInv, Content
      <3>3. frames(p) # <<>>
        BY FramesTile
      <3>4. Publishing' = {p}
        BY <1>8, <2>1, <3>2 DEF Publishing
      <3>5. Owed(p) = 1 /\ Owed(p)' = 1 /\ Ended(buf)' = Ended(buf)
        BY <3>1, <3>2, <3>3 DEF Owed
      <3>6. ModeInv'
        BY <1>2, <2>2, <3>1, <3>4 DEF ModeInv
      <3>7. CountInv'
        BY <1>2, <2>3, <2>4, <3>1, <3>2, <3>4, <3>5 DEF CountInv
      <3> QED
        BY <3>6, <3>7
    <2>6. CASE sendUnflushed(p)
      <3> DEFINE f == Head(out[p])
                 e == IF f.part = "end" THEN 1 ELSE 0
      <3>1. /\ pc[p] = "write" /\ out[p] # <<>> /\ pc' = pc /\ published' = published
            /\ out' = [out EXCEPT ![p] = Tail(out[p])] /\ res' = res
            /\ \/ buf' = Append(buf, f) /\ UNCHANGED <<srvMode, srvCount>>
               \/ buf' = <<>> /\ serverGets(Append(buf, f), "none")
        BY <1>6, <2>6 DEF sendUnflushed, sendFails, outVars, srvVars, conVars
      <3>2. out[p] \in Seq(FrameSet) /\ f \in FrameSet /\ Append(buf, f) \in Seq(FrameSet)
        BY <1>1, <3>1
      <3>3. e \in {0, 1} /\ (e = 1 <=> Tail(out[p]) = <<>>)
        <4>1. /\ Len(out[p]) + Written(p) = Len(frames(p))
              /\ \A k \in 1 .. Len(out[p]) : out[p][k] = frames(p)[Written(p) + k]
          BY <3>1 DEF ContentInv, Content
        <4>2. Written(p) \in Nat
          BY OfFinite, StreamType DEF Written
        <4>3. Len(out[p]) \in Nat \ {0} /\ f = out[p][1] /\ (Tail(out[p]) = <<>> <=> Len(out[p]) = 1)
          <5>1. \A s \in Seq(FrameSet) :
                  s # <<>> => /\ Len(s) \in Nat \ {0} /\ Head(s) = s[1] /\ Tail(s) \in Seq(FrameSet)
                              /\ Len(Tail(s)) = Len(s) - 1
            OBVIOUS
          <5>2. \A s \in Seq(FrameSet) : s = <<>> <=> Len(s) = 0
            OBVIOUS
          <5>3. /\ Len(out[p]) \in Nat \ {0} /\ f = out[p][1] /\ Tail(out[p]) \in Seq(FrameSet)
                /\ Len(Tail(out[p])) = Len(out[p]) - 1
            BY <3>1, <3>2, <5>1
          <5> HIDE DEF f
          <5>4. Tail(out[p]) = <<>> <=> Len(Tail(out[p])) = 0
            BY <5>2, <5>3
          <5> QED
            BY <5>3, <5>4
        <4>4. \A k \in 1 .. Len(frames(p)) : frames(p)[k].part = "end" <=> k = Len(frames(p))
          BY FramesTile
        <4> HIDE DEF f
        <4>5. f = frames(p)[Written(p) + 1] /\ Written(p) + 1 \in 1 .. Len(frames(p))
          BY <4>1, <4>2, <4>3
        <4>6. f.part = "end" <=> Len(out[p]) = 1
          <5>1. f.part = "end" <=> Written(p) + 1 = Len(frames(p))
            BY <4>4, <4>5
          <5> QED
            BY <4>1, <4>2, <4>3, <5>1
        <4> QED
          BY <4>3, <4>6
      <3>4. Ended(Append(buf, f)) = Ended(buf) + e
        BY <1>1, <3>2, EndedCounts
      <3> HIDE DEF f, e
      <3>5. pc'[p] = "write" /\ res'[p] = "none" /\ out'[p] = Tail(out[p])
        BY <1>1, <1>5, <2>1, <3>1 DEF CountInv
      <3>6. Publishing' = {p}
        BY <1>8, <2>1, <3>5 DEF Publishing
      <3>7. Owed(p) = 1 /\ Owed(p)' = 1 - e
        <4>1. Owed(p) = 1 /\ Owed(p)' = IF Tail(out[p]) # <<>> THEN 1 ELSE 0
          BY <3>1, <3>5 DEF Owed
        <4> QED
          BY <3>3, <4>1
      <3>8. srvMode' = srvMode /\ (~srvMode => srvCount' = srvCount)
            /\ (srvMode => srvCount' + Ended(buf)' = srvCount + Ended(buf) + e)
        <4>1. CASE buf' = Append(buf, f) /\ UNCHANGED <<srvMode, srvCount>>
          BY <1>7, <3>3, <3>4, <4>1
        <4>2. CASE buf' = <<>> /\ serverGets(Append(buf, f), "none")
          <5>1. "none" \notin Confirming
            BY NamesAssumption DEF Confirming
          <5>2. srvMode' = srvMode
            BY <1>5, <3>2, <4>2, <5>1, GetsType
          <5>3. srvCount' = IF srvMode THEN srvCount + (Ended(buf) + e) ELSE srvCount
            BY <3>4, <4>2 DEF serverGets
          <5>4. Ended(buf)' = 0
            BY <1>7, <4>2
          <5> QED
            BY <1>7, <3>3, <5>2, <5>3, <5>4
        <4> QED
          BY <3>1, <4>1, <4>2
      <3>9. ModeInv'
        BY <1>2, <2>2, <3>6, <3>8 DEF ModeInv
      <3>10. confirming => published' = srvCount' + Ended(buf)' + Owed(p)'
        <4>1. Ended(buf)' \in Nat /\ srvCount' \in Nat
          <5>1. CASE buf' = Append(buf, f) /\ UNCHANGED <<srvMode, srvCount>>
            <6>1. Ended(buf)' = Ended(buf) + e
              BY <3>4, <5>1
            <6> QED
              BY <1>7, <3>3, <5>1, <6>1
          <5>2. CASE buf' = <<>> /\ serverGets(Append(buf, f), "none")
            <6>1. srvCount' \in Nat
              BY <1>5, <3>2, <5>2, GetsType
            <6>2. Ended(buf)' = 0
              BY <1>7, <5>2
            <6> QED
              BY <6>1, <6>2
          <5> QED
            BY <3>1, <5>1, <5>2
        <4> QED
          BY <1>7, <2>2, <2>4, <3>1, <3>3, <3>7, <3>8, <4>1
      <3>11. CountInv'
        BY <1>2, <2>2, <2>3, <3>1, <3>5, <3>6, <3>8, <3>10 DEF CountInv
      <3> QED
        BY <3>9, <3>11
    <2>7. CASE PublishReturn(p)
      <3>1. /\ pc[p] = "write" /\ out[p] = <<>> /\ buf' = <<>> /\ serverGets(buf, "none")
            /\ res' = [res EXCEPT ![p] = IF res[p] = "none" THEN "nil" ELSE res[p]]
            /\ published' = (IF confirming /\ res'[p] # "nil" THEN published - 1 ELSE published)
            /\ pc' = [pc EXCEPT ![p] = "done"]
        BY <1>6, <2>7 DEF PublishReturn, returns, outVars
      <3>2. res'[p] = "nil" /\ pc'[p] = "done"
        BY <1>1, <1>5, <2>1, <3>1 DEF CountInv
      <3>3. Publishing' = {} /\ published' = published
        BY <1>8, <2>1, <3>1, <3>2 DEF Publishing
      <3>4. "none" \notin Confirming
        BY NamesAssumption DEF Confirming
      <3>5. srvMode' = srvMode
        BY <1>1, <1>5, <3>1, <3>4, GetsType
      <3>6. srvCount' = IF srvMode THEN srvCount + Ended(buf) ELSE srvCount
        BY <3>1 DEF serverGets
      <3>7. Owed(p) = 0
        BY <3>1 DEF Owed
      <3>8. ModeInv'
        BY <1>2, <2>2, <3>1, <3>3, <3>5 DEF ModeInv
      <3>9. confirming => published' = srvCount'
        BY <1>7, <2>2, <2>4, <3>3, <3>6, <3>7
      <3>10. CountInv'
        BY <1>2, <2>2, <2>3, <3>3, <3>6, <3>9 DEF CountInv
      <3> QED
        BY <3>8, <3>10
    <2> QED
      BY <1>10, <2>5, <2>6, <2>7 DEF Publish
  <1> QED
    BY <1>9, <1>10

\* The steps of a Confirm.
LEMMA ConfirmTags ==
  ASSUME SilentInv, ShutInv, ReplyType, TagInv, NEW g \in Confirming,
         \A h \in Goroutines \ {g} : pc'[h] = pc[h] /\ res'[h] = res[h],
         callBegin(g) \/ call(g), InAgreement'
  PROVE  ModeInv' /\ CountInv'
  <1>1. /\ pc \in [Goroutines -> {"idle", "check", "write", "send", "wait", "mode", "done"}]
        /\ res \in [Goroutines -> Results] /\ g \in Goroutines /\ g \in Calls /\ buf \in Seq(FrameSet)
    BY StreamType DEF ReplyType, Goroutines, Confirming
  <1>2. UNCHANGED <<out, closed, cclosed, sock, published>> /\ (mixed => mixed')
    <2>1. UNCHANGED <<out, closed, cclosed, sock, published>>
      BY DEF callBegin, call, callSend, callWait, Confirm, conVars
    <2>2. mixed' = mixed \/ mixed' = (mixed \/ (g \in Confirming /\ Publishing # {}))
      BY DEF callBegin, call, callSend, callWait, Confirm
    <2>3. mixed => mixed'
      BY <2>2, Zenon
    <2> QED
      BY <2>1, <2>3
  <1>3. /\ \A h \in Confirming \ {g} : pc'[h] = pc[h] /\ res'[h] = res[h]
        /\ \A p \in Publishers : pc'[p] = pc[p] /\ res'[p] = res[p]
    BY <1>1, NamesAssumption DEF Confirming, Goroutines
  <1>4. pc[g] \in {"idle", "send", "wait", "mode"}
    BY DEF callBegin, call, callSend, callWait, Confirm
  <1>5. res[g] \in {"none", "nil"}
    BY <1>1, <1>4 DEF TagInv, CallsOpen
  <1>6. InAgreement
    BY <1>2, <1>3, <1>5 DEF InAgreement
  <1>7. TagType /\ ModeInv /\ CountInv /\ Publishing' = Publishing /\ ~closed /\ ~cclosed /\ sock
    BY <1>3, <1>6 DEF TagInv, Publishing, InAgreement, ShutInv
  <1>8. Ended(<<>>) = 0 /\ Ended(buf) \in Nat /\ published \in Int /\ srvCount \in Nat
    BY <1>1, <1>7, EndedCounts DEF TagType
  <1>9. res'[g] \in {"none", "nil"}
    BY DEF InAgreement
  <1>10. CASE callBegin(g)
    <2>1. /\ pc[g] = "idle" /\ pc' = [pc EXCEPT ![g] = "send"] /\ UNCHANGED <<buf, confirming, srvMode, srvCount>>
          /\ mixed' = (mixed \/ (g \in Confirming /\ Publishing # {}))
      BY <1>7, <1>10 DEF callBegin, outVars, conVars, srvVars
    <2>2. Publishing = {} /\ pc'[g] = "send"
      BY <1>1, <2>1 DEF InAgreement
    <2>3. Selecting' = Selecting \cup {g}
      BY <1>3, <2>2 DEF Selecting
    <2>4. ModeInv'
      BY <1>3, <1>7, <2>1, <2>2, <2>3 DEF ModeInv, Selecting
    <2>5. CountInv'
      BY <1>2, <1>7, <2>1, <2>2 DEF CountInv
    <2> QED
      BY <2>4, <2>5
  <1>11. CASE callSend(g)
    <2>1. waits(g)
      BY <1>1, AnswerAssumption DEF Confirming
    <2>2. /\ pc[g] = "send" /\ pc' = [pc EXCEPT ![g] = "wait"] /\ confirming' = confirming
          /\ buf' = <<>> /\ serverGets(buf, g)
      BY <1>7, <1>11, <2>1 DEF callSend, sendOk, sendFails, conVars
    <2>3. pc'[g] = "wait" /\ g \in Selecting
      BY <1>1, <2>2 DEF Selecting
    <2>4. Publishing = {} /\ buf = <<>>
      BY <1>7, <2>3 DEF ModeInv
    <2>5. Selecting' = Selecting
      BY <1>3, <2>3 DEF Selecting
    <2>6. srvMode' = TRUE /\ srvCount' = srvCount
      <3>1. srvMode' = (srvMode \/ (g \in Calls /\ Operation[g] = "confirmSelect"))
            /\ srvCount' = IF srvMode THEN srvCount + Ended(buf) ELSE srvCount
        BY <2>2 DEF serverGets
      <3>2. g \in Calls /\ Operation[g] = "confirmSelect"
        BY DEF Confirming
      <3> QED
        <4>1. srvMode' = TRUE
          BY <3>1, <3>2, Zenon
        <4>2. srvCount' = srvCount
          BY <1>8, <2>4, <3>1
        <4> QED
          BY <4>1, <4>2
    <2>7. ModeInv'
      BY <1>7, <2>2, <2>3, <2>4, <2>5, <2>6 DEF ModeInv
    <2>8. CountInv'
      BY <1>2, <1>7, <2>2, <2>4, <2>6 DEF CountInv
    <2> QED
      BY <2>7, <2>8
  <1>12. CASE callWait(g)
    <2>1. PICK r \in Results : /\ callYields(g, r)
                               /\ res' = [res EXCEPT ![g] = r] /\ pc' = [pc EXCEPT ![g] = Answered(g, r)]
      BY <1>12 DEF callWait
    <2>2. pc[g] = "wait" /\ UNCHANGED <<buf, confirming, srvMode, srvCount>>
      BY <1>12 DEF callWait, outVars, conVars, srvVars
    <2>3. r = "nil"
      BY <1>1, <1>9, <2>1, YieldsSomething
    <2>4. pc'[g] = "mode" /\ g \in Selecting
      BY <1>1, <2>1, <2>2, <2>3 DEF Answered, Selecting
    <2>5. Selecting' = Selecting
      BY <1>3, <2>4 DEF Selecting
    <2>6. Publishing = {}
      BY <1>7, <2>4 DEF ModeInv
    <2>7. ModeInv'
      BY <1>3, <1>7, <2>2, <2>4, <2>5 DEF ModeInv, Selecting
    <2>8. CountInv'
      BY <1>2, <1>7, <2>2, <2>6 DEF CountInv
    <2> QED
      BY <2>7, <2>8
  <1>13. CASE Confirm(g)
    <2>1. /\ pc[g] = "mode" /\ pc' = [pc EXCEPT ![g] = "done"] /\ confirming' = TRUE
          /\ UNCHANGED <<buf, srvMode, srvCount>>
      BY <1>13 DEF Confirm, outVars, srvVars
    <2>2. pc'[g] = "done" /\ g \in Selecting
      BY <1>1, <2>1 DEF Selecting
    <2>3. Publishing = {} /\ srvMode
      BY <1>7, <2>1, <2>2 DEF ModeInv
    <2>4. published = srvCount
      BY <1>7, <2>3 DEF CountInv
    <2>5. ModeInv'
      BY <1>7, <2>1, <2>3 DEF ModeInv
    <2>6. CountInv'
      BY <1>2, <1>7, <2>1, <2>3, <2>4 DEF CountInv
    <2> QED
      BY <2>5, <2>6
  <1> QED
    BY <1>10, <1>11, <1>12, <1>13 DEF call

LEMMA StepTags ==
  ASSUME SilentInv, ShutInv, ReplyType, ContentInv, TagInv, [Next]_vars
  PROVE  TagInv'
  <1>1. TagType' /\ CallsOpen'
    BY StepTagType, StepCallsOpen DEF TagInv
  <1> SUFFICES ASSUME InAgreement' PROVE ModeInv' /\ CountInv'
    BY <1>1 DEF TagInv
  <1>2. ASSUME NEW p \in Publishers, PublishLock(p) \/ Publish(p) PROVE ModeInv' /\ CountInv'
    <2>1. \A h \in Goroutines \ {p} : pc'[h] = pc[h] /\ res'[h] = res[h]
      <3>1. \E w, r : /\ pc' = pc \/ pc' = [pc EXCEPT ![p] = w]
                      /\ res' = res \/ res' = [res EXCEPT ![p] = r]
        BY <1>2 DEF PublishLock, Publish, PublishCheck, sendUnflushed, PublishReturn, returns
      <3> QED
        BY <3>1 DEF ReplyType
    <2> QED
      BY <1>2, <2>1, PublishTags
  <1>3. ASSUME NEW g \in Calls, callBegin(g) \/ call(g) PROVE ModeInv' /\ CountInv'
    <2>1. \A h \in Goroutines \ {g} : pc'[h] = pc[h] /\ res'[h] = res[h]
      <3>1. \E w, r : /\ pc' = pc \/ pc' = [pc EXCEPT ![g] = w]
                      /\ res' = res \/ res' = [res EXCEPT ![g] = r]
        BY <1>3 DEF callBegin, call, callSend, callWait, Confirm
      <3> QED
        BY <3>1 DEF ReplyType
    <2>2. CASE g \in Confirming
      BY <1>3, <2>1, <2>2, ConfirmTags
    <2>3. CASE g \notin Confirming
      <3>1. \A h \in Publishers \cup Confirming : pc'[h] = pc[h] /\ res'[h] = res[h]
        BY <2>1, <2>3, NamesAssumption DEF Confirming, Goroutines
      <3>2. pc[g] # "mode"
        BY <2>3 DEF TagInv, CallsOpen
      <3>3. /\ UNCHANGED <<out, confirming, published, closed, sock>>
            /\ \/ UNCHANGED <<buf, srvMode, srvCount>>
               \/ buf' = <<>> /\ serverGets(buf, g)
        BY <1>3, <3>2 DEF callBegin, call, callSend, callWait, Confirm, sendOk, sendFails, conVars, outVars, srvVars
      <3>4. mixed' = mixed
        <4>1. mixed \in BOOLEAN
          BY DEF TagInv, TagType
        <4> QED
          BY <1>3, <2>3, <4>1 DEF callBegin, call, callSend, callWait, Confirm
      <3> QED
        BY <2>3, <3>1, <3>3, <3>4, QuietTags
    <2> QED
      BY <2>2, <2>3
  <1>4. ASSUME NEW g \in Ackers, Ack(g) PROVE ModeInv' /\ CountInv'
    <2>1. g \notin Confirming /\ \A h \in Publishers \cup Confirming : pc'[h] = pc[h] /\ res'[h] = res[h]
      <3>1. \E w, r : pc' = [pc EXCEPT ![g] = w] /\ res' = [res EXCEPT ![g] = r]
        BY <1>4 DEF Ack, AckUnlocked
      <3> QED
        BY <3>1, NamesAssumption DEF ReplyType, Goroutines, Confirming
    <2>2. /\ UNCHANGED <<out, confirming, published, mixed, closed, sock>>
          /\ \/ UNCHANGED <<buf, srvMode, srvCount>>
             \/ buf' = <<>> /\ serverGets(buf, g)
      BY <1>4 DEF Ack, AckUnlocked, sendOk, sendFails, conVars, outVars, srvVars
    <2> QED
      BY <2>1, <2>2, QuietTags
  <1>5. ASSUME UNCHANGED <<pc, res, out, confirming, published, mixed, buf, srvMode, srvCount>>,
               closed => closed', sock' => sock
        PROVE  ModeInv' /\ CountInv'
    BY <1>5, QuietTags
  <1>6. CASE readFrame
    <2>1. /\ UNCHANGED <<gVars, outVars, conVars, srvMode, srvCount, mixed, sock>>
          /\ closed' = (closed \/ frame' = "close")
      BY <1>6, Zenon DEF readFrame
    <2> QED
      BY <1>5, <2>1 DEF gVars, outVars, conVars
  <1>7. CASE UNCHANGED vars \/ (\E e \in Events : ServerSends(e)) \/ SocketFails \/ ConnectionFails
    BY <1>5, <1>7 DEF vars, ServerSends, SocketFails, ConnectionFails, gVars, outVars, conVars, srvVars
  <1>8. CASE dispatchListeners \/ dispatchShutdown \/ dispatchAbandon \/ readerEnds \/ Shutdown
             \/ \E l \in DOMAIN Listeners : Notify(l)
    BY <1>5, <1>8 DEF dispatchListeners, dispatchShutdown, dispatchAbandon, readerEnds, Shutdown,
                      shutdownLock, shutdownNotify, shutdownNotifyAtOnce, Notify, gVars, outVars, conVars, srvVars
  <1>9. CASE dispatchFlowOk
    <2>1. "reader" \notin Confirming
      BY NamesAssumption DEF Confirming
    <2>2. /\ UNCHANGED <<pc, res, out, confirming, published, mixed, closed, sock>>
          /\ \/ UNCHANGED <<buf, srvMode, srvCount>>
             \/ buf' = <<>> /\ serverGets(buf, "reader")
      BY <1>9 DEF dispatchFlowOk, sendOk, sendFails, gVars, conVars, outVars, srvVars
    <2> QED
      BY <2>1, <2>2, QuietTags
  <1>10. CASE dispatchCloseOk
    BY <1>10 DEF dispatchCloseOk, SilentInv, InAgreement
  <1> QED
    BY <1>2, <1>3, <1>4, <1>6, <1>7, <1>8, <1>9, <1>10 DEF Next, Reader

\* While the channel is open and no publishing has overlapped with a Confirm, the client
\* and the server count the same publishings, for any number of publishers and of calls
\* of Confirm (Confirm, publish, unpublish): confirmations name the right publishing.
THEOREM CountersAgree == Spec => []TagsAgree
  <1>1. TagInv => TagsAgree
    <2> SUFFICES ASSUME TagInv, InAgreement, Publishing = {} PROVE published = srvCount
      BY DEF TagsAgree
    <2> QED
      BY DEF TagInv, CountInv
  <1>2. Init => SilentInv /\ ShutInv /\ ReplyInv /\ ContentInv /\ TagInv
    BY InitSilent, InitShut, InitReply, InitContent, InitTags
  <1>3. SilentInv /\ ShutInv /\ ReplyInv /\ ContentInv /\ TagInv /\ [Next]_vars
          => (SilentInv /\ ShutInv /\ ReplyInv /\ ContentInv /\ TagInv)'
    BY StepSilent, StepShut, StepReply, StepContent, StepTags DEF ReplyInv
  <1> QED
    BY <1>1, <1>2, <1>3, PTL DEF Spec
=============================================================================
