-------------------------- MODULE ConsumersProofs ---------------------------
(***************************************************************************)
(* Proofs about Consumers, for any number of goroutines, tags, consumers   *)
(* and deliveries, and whatever applications do.                           *)
(***************************************************************************)
EXTENDS Consumers, TLAPS

\* The map holds consumers under their own tags, and exactly the open ones.
MapInv ==
  /\ \A c \in made : tagOf[c] \in Tags
  /\ \A t \in Tags : chans[t] # None => chans[t] \in made /\ tagOf[chans[t]] = t
  /\ OpenChanIsRegistered

\* A call that will use its tag or its new consumer has one, and the goroutine
\* of ConsumeWithContext does nothing but Cancel.
CallInv ==
  /\ \A t \in Callers :
       pc[t] \in {"consume", "waitConsume", "undo", "cancelCall", "waitCancel", "cancelLocal"}
         => arg[t] \in Tags
  /\ \A a \in Apps : pc[a] \in {"consume", "waitConsume"} => cur[a] \in made
  /\ \A c \in Cons :
       /\ pc[c] \in {"idle", "armed", "cancelCall", "waitCancel", "cancelLocal", "end"}
       /\ pc[c] = "armed" => c \in made
  /\ pc["reader"] \in {"send", "sending"} => rmsg.m = "deliver"
  /\ pc["reader"] = "cancelTag" => rmsg.m = "cancel"

\* One goroutine is inside consumers.close, by the sync.Once, and it or the
\* reader holds the mutex.
Closing == {"consClose", "consWait"}
LockInv ==
  /\ \A t \in Threads : pc[t] \in Closing => once = "running"
  /\ \A t, u \in Threads : pc[t] \in Closing /\ pc[u] \in Closing => t = u
  /\ \A t \in Threads : pc[t] = "consWait" => mu = "close"
  /\ pc["reader"] = "sending" => mu = "reader" /\ Target # None

\* The goroutine of an open consumer is in one of its two receives, until
\* consumers.closed is closed; the inner one has something to send.
BufInv ==
  \A c \in Cons : /\ inOpen[c] => inflight[c]
                  /\ inOpen[c] /\ ~closed => buf[c] \in {"range", "select"}
                  /\ buf[c] = "select" => queue[c] # <<>>

Inv == TypeOK /\ MapInv /\ CallInv /\ LockInv /\ BufInv

-----------------------------------------------------------------------------
\* Head and Tail of a queue.
LEMMA HeadTail ==
  ASSUME NEW S, NEW q \in Seq(S), q # <<>>
  PROVE  /\ Head(q) \in S /\ Tail(q) \in Seq(S) /\ Len(q) \in Nat
         /\ Len(q) # 1 => Tail(q) # <<>>
OBVIOUS

\* What Append makes is a sequence, and not empty.
LEMMA Appended ==
  ASSUME NEW S, NEW q \in Seq(S), NEW e \in S
  PROVE  Append(q, e) \in Seq(S) /\ Append(q, e) # <<>>
<1>1. Append(q, e) \in Seq(S) /\ Len(Append(q, e)) = Len(q) + 1 /\ Len(q) \in Nat
  OBVIOUS
<1>2. Len(Append(q, e)) # Len(<<>>) BY <1>1
<1> QED BY <1>1, <1>2

\* What the server sends are frames.
LEMMA Frames ==
  /\ \A t \in Tags : Msg("cancel", t, 0) \in Frame /\ Msg("cancelOk", t, 0) \in Frame
  /\ \A t \in Tags, d \in 1 .. MaxDeliver : Msg("deliver", t, d) \in Frame
  /\ Msg("close", None, 0) \in Frame /\ Msg("consumeOk", None, 0) \in Frame
  /\ Msg("closeOk", None, 0) \in Frame
BY DEF Msg, Frame

\* They come in after what is there.
LEMMA FromServerType ==
  ASSUME inbox \in Seq(Frame), NEW f \in Frame, FromServer(<<f>>)
  PROVE  inbox' \in Seq(Frame)
BY DEF FromServer

LEMMA FromServerNone ==
  ASSUME inbox \in Seq(Frame), FromServer(<<>>)
  PROVE  inbox' \in Seq(Frame)
BY DEF FromServer

\* The frames that have a tag.
LEMMA FrameTag ==
  ASSUME NEW f \in Frame
  PROVE  /\ f.m \in {"deliver", "cancel", "cancelOk"} => f.tag \in Tags
         /\ f.m = "deliver" => f.d \in 1 .. MaxDeliver
BY DEF Frame

-----------------------------------------------------------------------------
\* add keeps the map right, for a consumer that is new.
LEMMA AddMap ==
  ASSUME TypeOK, MapInv, NEW t \in Tags, NEW c \in Cons, c \notin made, add(t, c)
  PROVE  /\ MapInv' /\ chans' \in [Tags -> Cons \cup {None}] /\ made' \subseteq Cons
         /\ tagOf' \in [Cons -> Tags \cup {None}] /\ inOpen' \in [Cons -> BOOLEAN]
<1> USE NameAssumption DEF TypeOK, None
<1>1. /\ chans' = [chans EXCEPT ![t] = c] /\ made' = made \cup {c}
      /\ tagOf' = [tagOf EXCEPT ![c] = t]
      /\ inOpen' = [k \in Cons |-> k = c \/ (inOpen[k] /\ k # chans[t])]
  BY DEF add
<1>2. /\ chans' \in [Tags -> Cons \cup {None}] /\ made' \subseteq Cons
      /\ tagOf' \in [Cons -> Tags \cup {None}] /\ inOpen' \in [Cons -> BOOLEAN]
  BY <1>1
<1>3. \A k \in made' : tagOf'[k] \in Tags BY <1>1 DEF MapInv
<1>4. \A u \in Tags : chans'[u] # None => chans'[u] \in made' /\ tagOf'[chans'[u]] = u
  BY <1>1 DEF MapInv
<1>5. ASSUME NEW k \in Cons
      PROVE  inOpen'[k] <=> (k \in made' /\ chans'[tagOf'[k]] = k)
  <2>1. CASE k = c BY <1>1, <2>1
  <2>2. CASE k # c /\ k \in made
    <3>1. tagOf'[k] = tagOf[k] /\ tagOf[k] \in Tags BY <1>1, <2>2 DEF MapInv
    <3>2. CASE tagOf[k] = t BY <1>1, <2>2, <3>1, <3>2 DEF MapInv, OpenChanIsRegistered
    <3>3. CASE tagOf[k] # t
      <4>1. chans[t] # k BY <3>3, <2>2 DEF MapInv
      <4> QED BY <1>1, <2>2, <3>1, <3>3, <4>1 DEF MapInv, OpenChanIsRegistered
    <3> QED BY <3>2, <3>3
  <2>3. CASE k # c /\ k \notin made BY <1>1, <2>3 DEF MapInv, OpenChanIsRegistered
  <2> QED BY <2>1, <2>2, <2>3
<1> QED BY <1>2, <1>3, <1>4, <1>5 DEF MapInv, OpenChanIsRegistered

\* So does cancel, for a tag.
LEMMA CancelMap ==
  ASSUME TypeOK, MapInv, NEW t \in Tags, cancel(t)
  PROVE  /\ MapInv' /\ chans' \in [Tags -> Cons \cup {None}]
         /\ inOpen' \in [Cons -> BOOLEAN]
<1> USE NameAssumption DEF TypeOK, None
<1>1. /\ chans' = [chans EXCEPT ![t] = None] /\ UNCHANGED <<made, tagOf>>
      /\ inOpen' = [k \in Cons |-> inOpen[k] /\ k # chans[t]]
  BY DEF cancel
<1>2. chans' \in [Tags -> Cons \cup {None}] /\ inOpen' \in [Cons -> BOOLEAN] BY <1>1
<1>3. \A u \in Tags : chans'[u] # None => chans'[u] \in made' /\ tagOf'[chans'[u]] = u
  BY <1>1 DEF MapInv
<1>4. ASSUME NEW k \in Cons
      PROVE  inOpen'[k] <=> (k \in made' /\ chans'[tagOf'[k]] = k)
  <2>1. CASE k \notin made BY <1>1, <2>1 DEF MapInv, OpenChanIsRegistered
  <2>2. CASE k \in made /\ tagOf[k] = t BY <1>1, <2>2 DEF MapInv, OpenChanIsRegistered
  <2>3. CASE k \in made /\ tagOf[k] # t
    <3>1. chans[t] # k BY <2>3 DEF MapInv
    <3> QED BY <1>1, <2>3, <3>1 DEF MapInv, OpenChanIsRegistered
  <2> QED BY <2>1, <2>2, <2>3
<1> QED BY <1>1, <1>2, <1>3, <1>4 DEF MapInv, OpenChanIsRegistered

\* And close, which empties it.
LEMMA CloseMap ==
  ASSUME TypeOK, MapInv, closeSubs
  PROVE  /\ MapInv' /\ chans' \in [Tags -> Cons \cup {None}]
         /\ inOpen' \in [Cons -> BOOLEAN]
BY NameAssumption DEF TypeOK, MapInv, OpenChanIsRegistered, closeSubs, None

-----------------------------------------------------------------------------
\* Every variable keeps its type.
LEMMA TypePreserved ==
  ASSUME Inv, [Next]_vars
  PROVE  TypeOK'
<1> USE DEF Inv, TypeOK, Places, subsVars, bufVars, callVars, chVars, srvVars, Callers, Threads,
            Waiting, Go
<1>1. ASSUME NEW a \in Apps, NEW t \in Tags, Cancel(a, t) PROVE TypeOK'
  BY <1>1 DEF Cancel
<1>2. ASSUME NEW a \in Apps, NEW t \in Tags, NEW c \in Cons, Consume(a, t, c) PROVE TypeOK'
  <2>1. add(t, c) /\ c \notin made BY <1>2 DEF Consume
  <2>2. /\ chans' \in [Tags -> Cons \cup {None}] /\ made' \subseteq Cons
        /\ tagOf' \in [Cons -> Tags \cup {None}] /\ inOpen' \in [Cons -> BOOLEAN]
    BY <2>1, AddMap
  <2> QED BY <1>2, <2>1, <2>2 DEF Consume, add
<1>3. ASSUME NEW a \in Apps, Close(a) \/ Continue(a) PROVE TypeOK'
  <2>1. CASE Close(a) BY <2>1 DEF Close
  <2>2. CASE consumeCall(a)
    <3>1. arg[a] \in Tags /\ cur[a] \in made BY <2>2 DEF consumeCall, CallInv
    <3>2. ASSUME NEW r, r = <<>> \/ r = <<Msg("consumeOk", None, 0)>>,
                 ServeConsume(arg[a], cur[a], r)
          PROVE  /\ inbox' \in Seq(Frame) /\ srv' \in BOOLEAN /\ active' \subseteq Tags
                 /\ owner' \in [Tags -> Cons \cup {None}] /\ UNCHANGED <<sent, sentFor>>
      <4>1. CASE FromServer(r) BY <3>1, <3>2, <4>1, Frames, FromServerType, FromServerNone
                               DEF ServeConsume
      <4>2. CASE FromServer(<<Msg("close", None, 0)>>)
        BY <3>1, <3>2, <4>2, Frames, FromServerType DEF ServeConsume
      <4>3. CASE UNCHANGED srvVars BY <4>3
      <4> QED BY <3>2, <4>1, <4>2, <4>3 DEF ServeConsume
    <3>3. /\ inbox' \in Seq(Frame) /\ srv' \in BOOLEAN /\ active' \subseteq Tags
          /\ owner' \in [Tags -> Cons \cup {None}] /\ UNCHANGED <<sent, sentFor>>
      BY <2>2, <3>2 DEF consumeCall
    <3>4. pc' \in [Threads -> Places] /\ handed' \subseteq made
      BY <2>2, <3>1 DEF consumeCall
    <3> QED BY <2>2, <3>3, <3>4 DEF consumeCall
  <2>3. CASE consumeUndo(a)
    <3>1. arg[a] \in Tags /\ cancel(arg[a]) BY <2>3 DEF consumeUndo, CallInv
    <3>2. chans' \in [Tags -> Cons \cup {None}] /\ inOpen' \in [Cons -> BOOLEAN]
      BY <3>1, CancelMap
    <3> QED BY <2>3, <3>1, <3>2 DEF consumeUndo, cancel
  <2>4. CASE closeCall(a)
    <3>1. inbox' \in Seq(Frame) /\ srv' \in BOOLEAN
      BY <2>4, Frames, FromServerType DEF closeCall
    <3> QED BY <2>4, <3>1 DEF closeCall
  <2> QED BY <1>3, <2>1, <2>2, <2>3, <2>4 DEF Continue
<1>4. ASSUME NEW t \in Callers, Call(t) PROVE TypeOK'
  <2>1. CASE cancelCall(t)
    <3>1. arg[t] \in Tags BY <2>1 DEF cancelCall, CallInv
    <3>2. inbox' \in Seq(Frame) /\ active' \subseteq Tags /\ UNCHANGED <<srv, owner, sent, sentFor>>
      BY <2>1, <3>1, Frames, FromServerType, FromServerNone DEF cancelCall, ServeCancel
    <3> QED BY <2>1, <3>2 DEF cancelCall, Return
  <2>2. CASE cancelLocal(t)
    <3>1. arg[t] \in Tags /\ cancel(arg[t]) BY <2>2 DEF cancelLocal, CallInv
    <3>2. chans' \in [Tags -> Cons \cup {None}] /\ inOpen' \in [Cons -> BOOLEAN]
      BY <3>1, CancelMap
    <3> QED BY <2>2, <3>1, <3>2 DEF cancelLocal, cancel, Return
  <2>3. CASE callFails(t) BY <2>3 DEF callFails, Failed, Return
  <2>4. CASE rpc(t)
    <3>1. CASE pc[t] = "waitConsume" /\ rmsg.m = "consumeOk"
      <4>1. t \in Apps /\ cur[t] \in made BY <3>1 DEF CallInv
      <4>2. handed' \subseteq made /\ UNCHANGED arg BY <2>4, <3>1, <4>1 DEF rpc
      <4>3. \/ pc' = [pc EXCEPT !["reader"] = "idle", ![t] = "idle"]
            \/ pc' = [pc EXCEPT !["reader"] = "idle", ![t] = "idle", ![cur[t]] = "armed"]
        BY <2>4, <3>1 DEF rpc
      <4>4. pc' \in [Threads -> Places] BY <4>3
      <4> QED BY <2>4, <4>2, <4>4 DEF rpc
    <3>2. CASE pc[t] = "waitCancel" /\ rmsg.m = "cancelOk"
      <4>1. rmsg.tag \in Tags BY <3>2, FrameTag
      <4>2. arg' \in [Callers -> Tags \cup {None}] /\ UNCHANGED handed
        BY <2>4, <3>2, <4>1 DEF rpc
      <4>3. pc' = [pc EXCEPT !["reader"] = "idle", ![t] = "cancelLocal"]
        BY <2>4, <3>2 DEF rpc
      <4>4. pc' \in [Threads -> Places] BY <4>3
      <4> QED BY <2>4, <4>2, <4>4 DEF rpc
    <3>3. CASE pc[t] = "waitClose" /\ rmsg.m = "closeOk" BY <2>4, <3>3 DEF rpc
    <3>4. CASE pc' = [pc EXCEPT !["reader"] = "idle", ![t] = Failed(t)] /\ UNCHANGED <<arg, handed>>
      BY <2>4, <3>4 DEF rpc, Failed, Return
    <3> QED BY <2>4, <3>1, <3>2, <3>3, <3>4 DEF rpc
  <2> QED BY <1>4, <2>1, <2>2, <2>3, <2>4 DEF Call
<1>5. ASSUME NEW c \in Cons, contextDone(c) \/ contextClosed(c) PROVE TypeOK'
  <2>1. CASE contextDone(c) BY <2>1 DEF contextDone
  <2>2. CASE contextClosed(c) BY <2>2 DEF contextClosed
  <2> QED BY <1>5, <2>1, <2>2
<1>6. ASSUME NEW c \in Cons, Buffer(c) PROVE TypeOK'
  <2>1. CASE bufferInClosed(c) BY <2>1 DEF bufferInClosed
  <2>2. CASE bufferDrop(c) BY <2>2 DEF bufferDrop
  <2>3. CASE bufferExit(c) BY <2>3 DEF bufferExit
  <2> QED BY <1>6, <2>1, <2>2, <2>3 DEF Buffer
<1>7. ASSUME NEW c \in Cons, bufferReceive(c) PROVE TypeOK'
  <2>1. rmsg.d \in 1 .. MaxDeliver BY <1>7, FrameTag DEF bufferReceive, CallInv
  <2>2. queue' \in [Cons -> Seq(1 .. MaxDeliver)] BY <1>7, <2>1, Appended DEF bufferReceive
  <2> QED BY <1>7, <2>2 DEF bufferReceive
<1>8. ASSUME NEW c \in Cons, bufferSend(c) PROVE TypeOK'
  <2>1. Head(queue[c]) \in 1 .. MaxDeliver /\ Tail(queue[c]) \in Seq(1 .. MaxDeliver)
    BY <1>8, HeadTail DEF bufferSend, BufInv
  <2>2. Append(got[c], Head(queue[c])) \in Seq(1 .. MaxDeliver) BY <2>1, Appended
  <2> QED BY <1>8, <2>1, <2>2 DEF bufferSend
<1>9. ASSUME NEW t \in Apps \cup {"reader", "conn"}, closeChannel(t) PROVE TypeOK'
  <2>1. CASE shutdown(t) BY <2>1 DEF shutdown
  <2>2. CASE shutdownClose(t)
    <3>1. chans' \in [Tags -> Cons \cup {None}] /\ inOpen' \in [Cons -> BOOLEAN]
      BY <2>2, CloseMap DEF shutdownClose
    <3> QED BY <2>2, <3>1 DEF shutdownClose, closeSubs
  <2>3. CASE shutdownDone(t) BY <2>3 DEF shutdownDone
  <2>4. CASE shutdownJoin(t) BY <2>4 DEF shutdownJoin
  <2>5. CASE release(t) BY <2>5 DEF release
  <2> QED BY <1>9, <2>1, <2>2, <2>3, <2>4, <2>5 DEF closeChannel
<1>10. CASE connShutdown BY <1>10 DEF connShutdown
<1>11. CASE Reader
  <2>1. CASE dispatch
    <3>1. rmsg' \in Frame /\ inbox' \in Seq(Frame) BY <2>1, HeadTail DEF dispatch
    <3> QED BY <2>1, <3>1 DEF dispatch
  <2>2. CASE send BY <2>2 DEF send
  <2>3. CASE dispatchCancel
    <3>1. rmsg.tag \in Tags BY <2>3, FrameTag DEF dispatchCancel, CallInv
    <3>2. chans' \in [Tags -> Cons \cup {None}] /\ inOpen' \in [Cons -> BOOLEAN]
      BY <2>3, <3>1, CancelMap DEF dispatchCancel
    <3> QED BY <2>3, <3>2 DEF dispatchCancel, cancel
  <2>4. CASE dispatchDrop BY <2>4 DEF dispatchDrop
  <2> QED BY <1>11, <2>1, <2>2, <2>3, <2>4 DEF Reader
<1>12. CASE Server
  <2>1. ASSUME NEW t \in Tags, Deliver(t) PROVE TypeOK'
    <3>1. sent' \in 1 .. MaxDeliver BY <2>1, BoundAssumption DEF Deliver
    <3>2. inbox' \in Seq(Frame) BY <2>1, <3>1, Frames, FromServerType DEF Deliver
    <3>3. \A c \in Cons : Append(sentFor[c], sent') \in Seq(1 .. MaxDeliver)
      BY <3>1, Appended
    <3>4. sentFor' \in [Cons -> Seq(1 .. MaxDeliver)] BY <2>1, <3>3 DEF Deliver
    <3> QED BY <2>1, <3>1, <3>2, <3>4 DEF Deliver
  <2>2. ASSUME NEW t \in Tags, ServerCancel(t) PROVE TypeOK'
    <3>1. inbox' \in Seq(Frame) BY <2>2, Frames, FromServerType DEF ServerCancel
    <3> QED BY <2>2, <3>1 DEF ServerCancel
  <2>3. CASE Exception
    <3>1. inbox' \in Seq(Frame) BY <2>3, Frames, FromServerType DEF Exception
    <3> QED BY <2>3, <3>1 DEF Exception
  <2> QED BY <1>12, <2>1, <2>2, <2>3 DEF Server
<1>13. CASE UNCHANGED vars BY <1>13 DEF vars
<1> QED BY <1>1, <1>2, <1>3, <1>4, <1>5, <1>6, <1>7, <1>8, <1>9, <1>10, <1>11, <1>12, <1>13
        DEF Next

\* Only add, cancel and close touch the map.
LEMMA MapPreserved ==
  ASSUME Inv, [Next]_vars
  PROVE  MapInv'
<1> USE DEF Inv, CallInv
<1>1. CASE UNCHANGED <<chans, made, tagOf, inOpen>>
  BY <1>1 DEF MapInv, OpenChanIsRegistered
<1>2. ASSUME NEW a \in Apps, NEW t \in Tags, NEW c \in Cons, Consume(a, t, c) PROVE MapInv'
  BY <1>2, AddMap DEF Consume
<1>3. ASSUME NEW t \in Tags, cancel(t) PROVE MapInv' BY <1>3, CancelMap
<1>4. ASSUME NEW a \in Apps, consumeUndo(a) PROVE MapInv'
  BY <1>3, <1>4 DEF consumeUndo, Callers
<1>5. ASSUME NEW t \in Callers, cancelLocal(t) PROVE MapInv'
  BY <1>3, <1>5 DEF cancelLocal
<1>6. CASE dispatchCancel
  <2>1. rmsg.tag \in Tags BY <1>6, FrameTag DEF dispatchCancel, TypeOK
  <2> QED BY <1>3, <1>6, <2>1 DEF dispatchCancel
<1>7. ASSUME NEW t, shutdownClose(t) PROVE MapInv'
  BY <1>7, CloseMap DEF shutdownClose
<1>8. ASSUME NEW a \in Apps, NEW t \in Tags, Cancel(a, t) PROVE MapInv'
  BY <1>1, <1>8 DEF Cancel, subsVars
<1>9. ASSUME NEW a \in Apps, Close(a) \/ Continue(a) PROVE MapInv'
  BY <1>1, <1>4, <1>9 DEF Close, Continue, consumeCall, closeCall, subsVars
<1>10. ASSUME NEW t \in Callers, Call(t) PROVE MapInv'
  BY <1>1, <1>5, <1>10 DEF Call, cancelCall, callFails, rpc, subsVars
<1>11. ASSUME NEW c \in Cons,
              contextDone(c) \/ contextClosed(c) \/ Buffer(c) \/ bufferReceive(c) \/ bufferSend(c)
       PROVE  MapInv'
  BY <1>1, <1>11 DEF contextDone, contextClosed, Buffer, bufferInClosed, bufferDrop,
                     bufferExit, bufferReceive, bufferSend, subsVars
<1>12. ASSUME NEW t, closeChannel(t) PROVE MapInv'
  BY <1>1, <1>7, <1>12 DEF closeChannel, shutdown, shutdownDone, shutdownJoin, release, subsVars
<1>13. CASE connShutdown BY <1>1, <1>13 DEF connShutdown, subsVars
<1>14. CASE Reader BY <1>1, <1>6, <1>14 DEF Reader, dispatch, send, dispatchDrop, subsVars
<1>15. CASE Server
  BY <1>1, <1>15 DEF Server, Deliver, ServerCancel, Exception, subsVars
<1>16. CASE UNCHANGED vars BY <1>1, <1>16 DEF vars, subsVars
<1> QED BY <1>2, <1>8, <1>9, <1>10, <1>11, <1>12, <1>13, <1>14, <1>15, <1>16 DEF Next

\* A goroutine has its arguments when it comes to use them.
LEMMA CallPreserved ==
  ASSUME Inv, [Next]_vars
  PROVE  CallInv'
<1> USE NameAssumption DEF Inv, TypeOK, CallInv, Threads, Callers, Go
<1>0. CASE UNCHANGED <<pc, arg, cur, made, rmsg>> BY <1>0
<1>1. ASSUME NEW a \in Apps, NEW t \in Tags, Cancel(a, t) PROVE CallInv'
  BY <1>1 DEF Cancel, subsVars
<1>2. ASSUME NEW a \in Apps, NEW t \in Tags, NEW c \in Cons, Consume(a, t, c) PROVE CallInv'
  BY <1>2 DEF Consume, add
<1>3. ASSUME NEW a \in Apps, Close(a) \/ Continue(a) PROVE CallInv'
  <2>1. CASE Close(a) BY <2>1 DEF Close, subsVars
  <2>2. CASE consumeCall(a) BY <2>2 DEF consumeCall, subsVars
  <2>3. CASE consumeUndo(a) BY <2>3 DEF consumeUndo, cancel
  <2>4. CASE closeCall(a) BY <2>4 DEF closeCall, subsVars
  <2> QED BY <1>3, <2>1, <2>2, <2>3, <2>4 DEF Continue
<1>4. ASSUME NEW t \in Callers, Call(t) PROVE CallInv'
  <2>1. CASE cancelCall(t) BY <2>1 DEF cancelCall, Return, subsVars
  <2>2. CASE cancelLocal(t) BY <2>2 DEF cancelLocal, cancel, Return
  <2>3. CASE callFails(t) BY <2>3 DEF callFails, Failed, Return, Waiting, subsVars
  <2>4. CASE rpc(t)
    <3>1. CASE pc[t] = "waitConsume" /\ rmsg.m = "consumeOk"
      <4>1. t \in Apps /\ cur[t] \in made BY <3>1
      <4>2. \/ pc' = [pc EXCEPT !["reader"] = "idle", ![t] = "idle"]
            \/ pc' = [pc EXCEPT !["reader"] = "idle", ![t] = "idle", ![cur[t]] = "armed"]
        BY <2>4, <3>1 DEF rpc
      <4>3. UNCHANGED <<arg, cur, made, rmsg>> BY <2>4, <3>1 DEF rpc, subsVars
      <4> QED BY <4>1, <4>2, <4>3
    <3>2. CASE pc[t] = "waitCancel" /\ rmsg.m = "cancelOk"
      <4>1. rmsg.tag \in Tags BY <3>2, FrameTag
      <4>2. /\ pc' = [pc EXCEPT !["reader"] = "idle", ![t] = "cancelLocal"]
            /\ arg' = [arg EXCEPT ![t] = rmsg.tag] /\ UNCHANGED <<cur, made, rmsg>>
        BY <2>4, <3>2 DEF rpc, subsVars
      <4> QED BY <4>1, <4>2
    <3>3. CASE pc[t] = "waitClose" /\ rmsg.m = "closeOk"
      <4>1. pc' = [pc EXCEPT !["reader"] = "idle", ![t] = "shutdown"] /\ UNCHANGED arg
        BY <2>4, <3>3 DEF rpc
      <4> QED BY <2>4, <3>3, <4>1 DEF rpc, subsVars
    <3>4. CASE /\ pc' = [pc EXCEPT !["reader"] = "idle", ![t] = Failed(t)]
               /\ UNCHANGED <<arg, handed>>
      BY <2>4, <3>4 DEF rpc, Failed, Return, Waiting, subsVars
    <3> QED BY <2>4, <3>1, <3>2, <3>3, <3>4 DEF rpc
  <2> QED BY <1>4, <2>1, <2>2, <2>3, <2>4 DEF Call
<1>5. ASSUME NEW c \in Cons, contextDone(c) \/ contextClosed(c) PROVE CallInv'
  <2>1. CASE contextDone(c) BY <2>1 DEF contextDone, MapInv, subsVars
  <2>2. CASE contextClosed(c) BY <2>2 DEF contextClosed, subsVars
  <2> QED BY <1>5, <2>1, <2>2
<1>6. ASSUME NEW c \in Cons, Buffer(c) \/ bufferSend(c) PROVE CallInv'
  BY <1>0, <1>6 DEF Buffer, bufferInClosed, bufferDrop, bufferExit, bufferSend, callVars, subsVars
<1>7. ASSUME NEW c \in Cons, bufferReceive(c) PROVE CallInv'
  BY <1>7 DEF bufferReceive
<1>8. ASSUME NEW t \in Apps \cup {"reader", "conn"}, closeChannel(t) PROVE CallInv'
  <2>1. CASE shutdown(t) BY <2>1 DEF shutdown, subsVars
  <2>2. CASE shutdownClose(t) BY <2>2 DEF shutdownClose, closeSubs
  <2>3. CASE shutdownDone(t) BY <2>3 DEF shutdownDone
  <2>4. CASE shutdownJoin(t) BY <2>4 DEF shutdownJoin, subsVars
  <2>5. CASE release(t) BY <2>5 DEF release, subsVars
  <2> QED BY <1>8, <2>1, <2>2, <2>3, <2>4, <2>5 DEF closeChannel
<1>9. CASE connShutdown BY <1>9 DEF connShutdown, subsVars
<1>10. CASE Reader
  <2>1. CASE dispatch BY <2>1 DEF dispatch, subsVars
  <2>2. CASE send BY <2>2 DEF send
  <2>3. CASE dispatchCancel BY <2>3 DEF dispatchCancel, cancel
  <2>4. CASE dispatchDrop BY <2>4 DEF dispatchDrop, subsVars
  <2> QED BY <1>10, <2>1, <2>2, <2>3, <2>4 DEF Reader
<1>11. CASE Server
  BY <1>0, <1>11 DEF Server, Deliver, ServerCancel, Exception, callVars, subsVars
<1>12. CASE UNCHANGED vars BY <1>0, <1>12 DEF vars, callVars, subsVars
<1> QED BY <1>1, <1>2, <1>3, <1>4, <1>5, <1>6, <1>7, <1>8, <1>9, <1>10, <1>11, <1>12 DEF Next

\* The mutex and the sync.Once keep goroutines apart.
LEMMA LockPreserved ==
  ASSUME Inv, [Next]_vars
  PROVE  LockInv'
<1> USE NameAssumption DEF Inv, TypeOK, LockInv, Closing, Threads, Callers, Target, Go
<1>0. CASE UNCHANGED <<pc, once, mu, chans, rmsg>> BY <1>0
<1>1. ASSUME NEW a \in Apps, NEW t \in Tags, Cancel(a, t) PROVE LockInv'
  BY <1>1 DEF Cancel, subsVars, chVars
<1>2. ASSUME NEW a \in Apps, NEW t \in Tags, NEW c \in Cons, Consume(a, t, c) PROVE LockInv'
  BY <1>2 DEF Consume, add, chVars
<1>3. ASSUME NEW a \in Apps, Close(a) \/ Continue(a) PROVE LockInv'
  <2>1. CASE Close(a) BY <2>1 DEF Close, subsVars, chVars
  <2>2. CASE consumeCall(a)
    <3>1. PICK w \in {"undo", "waitConsume", "idle"} : pc' = [pc EXCEPT ![a] = w]
      BY <2>2 DEF consumeCall
    <3>2. UNCHANGED <<once, mu, chans, rmsg>> BY <2>2 DEF consumeCall, subsVars, chVars
    <3> QED BY <3>1, <3>2
  <2>3. CASE consumeUndo(a) BY <2>3 DEF consumeUndo, cancel, chVars
  <2>4. CASE closeCall(a) BY <2>4 DEF closeCall, subsVars, chVars
  <2> QED BY <1>3, <2>1, <2>2, <2>3, <2>4 DEF Continue
<1>4. ASSUME NEW t \in Callers, Call(t) PROVE LockInv'
  <2>1. CASE cancelCall(t)
    <3>1. PICK w \in {"idle", "end", "waitCancel", "cancelLocal"} : pc' = [pc EXCEPT ![t] = w]
      BY <2>1 DEF cancelCall, Return
    <3>2. UNCHANGED <<once, mu, chans, rmsg>> BY <2>1 DEF cancelCall, subsVars, chVars
    <3> QED BY <3>1, <3>2
  <2>2. CASE cancelLocal(t) BY <2>2 DEF cancelLocal, cancel, Return, chVars
  <2>3. CASE callFails(t) BY <2>3 DEF callFails, Failed, Return, Waiting, subsVars
  <2>4. CASE rpc(t)
    <3>1. pc' = [u \in Threads |-> pc'[u]] /\ pc'["reader"] = "idle"
          /\ \A u \in Threads : pc'[u] \in Closing => pc[u] = pc'[u]
      <4>1. CASE pc[t] = "waitConsume" /\ rmsg.m = "consumeOk"
        <5>1. t \in Apps /\ cur[t] \in Cons BY <4>1 DEF CallInv
        <5>2. \/ pc' = [pc EXCEPT !["reader"] = "idle", ![t] = "idle"]
              \/ pc' = [pc EXCEPT !["reader"] = "idle", ![t] = "idle", ![cur[t]] = "armed"]
          BY <2>4, <4>1 DEF rpc
        <5> QED BY <5>1, <5>2
      <4>2. CASE pc' = [pc EXCEPT !["reader"] = "idle", ![t] = "cancelLocal"] BY <4>2
      <4>3. CASE pc' = [pc EXCEPT !["reader"] = "idle", ![t] = "shutdown"] BY <4>3
      <4>4. CASE pc' = [pc EXCEPT !["reader"] = "idle", ![t] = Failed(t)]
        BY <2>4, <4>4 DEF rpc, Failed, Return, Waiting
      <4> QED BY <2>4, <4>1, <4>2, <4>3, <4>4 DEF rpc
    <3>2. UNCHANGED <<once, mu, chans, rmsg>> BY <2>4 DEF rpc, subsVars, chVars
    <3> QED BY <3>1, <3>2
  <2> QED BY <1>4, <2>1, <2>2, <2>3, <2>4 DEF Call
<1>5. ASSUME NEW c \in Cons, contextDone(c) \/ contextClosed(c) PROVE LockInv'
  <2>1. CASE contextDone(c) BY <2>1 DEF contextDone, subsVars, chVars
  <2>2. CASE contextClosed(c) BY <2>2 DEF contextClosed, subsVars, chVars
  <2> QED BY <1>5, <2>1, <2>2
<1>6. ASSUME NEW c \in Cons, Buffer(c) \/ bufferSend(c) PROVE LockInv'
  BY <1>0, <1>6 DEF Buffer, bufferInClosed, bufferDrop, bufferExit, bufferSend, callVars,
                    subsVars, chVars
<1>7. ASSUME NEW c \in Cons, bufferReceive(c) PROVE LockInv'
  BY <1>7 DEF bufferReceive, chVars
<1>8. ASSUME NEW t \in Apps \cup {"reader", "conn"}, closeChannel(t) PROVE LockInv'
  <2>1. CASE shutdown(t) BY <2>1 DEF shutdown, subsVars
  <2>2. CASE shutdownClose(t) BY <2>2 DEF shutdownClose, closeSubs, chVars
  <2>3. CASE shutdownDone(t) BY <2>3 DEF shutdownDone
  <2>4. CASE shutdownJoin(t) BY <2>4 DEF shutdownJoin, subsVars, chVars
  <2>5. CASE release(t) BY <2>5 DEF release, subsVars
  <2> QED BY <1>8, <2>1, <2>2, <2>3, <2>4, <2>5 DEF closeChannel
<1>9. CASE connShutdown BY <1>9 DEF connShutdown, subsVars
<1>10. CASE Reader
  <2>1. CASE dispatch BY <2>1 DEF dispatch, subsVars
  <2>2. CASE send BY <2>2 DEF send, chVars
  <2>3. CASE dispatchCancel BY <2>3 DEF dispatchCancel, cancel, chVars
  <2>4. CASE dispatchDrop BY <2>4 DEF dispatchDrop, subsVars, chVars
  <2> QED BY <1>10, <2>1, <2>2, <2>3, <2>4 DEF Reader
<1>11. CASE Server
  BY <1>0, <1>11 DEF Server, Deliver, ServerCancel, Exception, callVars, subsVars, chVars
<1>12. CASE UNCHANGED vars BY <1>0, <1>12 DEF vars, callVars, subsVars, chVars
<1> QED BY <1>1, <1>2, <1>3, <1>4, <1>5, <1>6, <1>7, <1>8, <1>9, <1>10, <1>11, <1>12 DEF Next

\* The goroutine of an open consumer stays in its loop.
LEMMA BufPreserved ==
  ASSUME Inv, [Next]_vars
  PROVE  BufInv'
<1> USE DEF Inv, TypeOK, BufInv
<1>0. ASSUME UNCHANGED bufVars, closed => closed',
             \A c \in Cons : inOpen'[c] => inOpen[c]
      PROVE  BufInv'
  BY <1>0 DEF bufVars
<1>1. ASSUME NEW a \in Apps, NEW t \in Tags, Cancel(a, t) PROVE BufInv'
  BY <1>0, <1>1 DEF Cancel, subsVars
<1>2. ASSUME NEW a \in Apps, NEW t \in Tags, NEW c \in Cons, Consume(a, t, c) PROVE BufInv'
  BY <1>2 DEF Consume, add
<1>3. ASSUME NEW a \in Apps, Close(a) \/ Continue(a) PROVE BufInv'
  BY <1>0, <1>3 DEF Close, Continue, consumeCall, consumeUndo, closeCall, cancel, subsVars
<1>4. ASSUME NEW t \in Callers, Call(t) PROVE BufInv'
  BY <1>0, <1>4 DEF Call, cancelCall, cancelLocal, callFails, rpc, cancel, subsVars
<1>5. ASSUME NEW c \in Cons, contextDone(c) \/ contextClosed(c) PROVE BufInv'
  BY <1>0, <1>5 DEF contextDone, contextClosed, subsVars
<1>6. ASSUME NEW c \in Cons, Buffer(c) PROVE BufInv'
  <2>1. CASE bufferInClosed(c) BY <2>1 DEF bufferInClosed, subsVars
  <2>2. CASE bufferDrop(c) BY <2>2 DEF bufferDrop, subsVars
  <2>3. CASE bufferExit(c) BY <2>3 DEF bufferExit, subsVars
  <2> QED BY <1>6, <2>1, <2>2, <2>3 DEF Buffer
<1>7. ASSUME NEW c \in Cons, bufferReceive(c) PROVE BufInv'
  <2>1. rmsg.d \in 1 .. MaxDeliver BY <1>7, FrameTag DEF bufferReceive, CallInv
  <2>2. queue[c] \in Seq(1 .. MaxDeliver) OBVIOUS
  <2>3. Append(queue[c], rmsg.d) # <<>>
    <3> HIDE DEF Inv, TypeOK, BufInv
    <3> QED BY <2>1, <2>2, Appended
  <2> QED BY <1>7, <2>3 DEF bufferReceive
<1>8. ASSUME NEW c \in Cons, bufferSend(c) PROVE BufInv'
  <2>1. Len(queue[c]) # 1 => Tail(queue[c]) # <<>>
    BY <1>8, HeadTail DEF bufferSend
  <2> QED BY <1>8, <2>1 DEF bufferSend, subsVars
<1>9. ASSUME NEW t \in Apps \cup {"reader", "conn"}, closeChannel(t) PROVE BufInv'
  BY <1>0, <1>9 DEF closeChannel, shutdown, shutdownClose, closeSubs, shutdownDone,
                    shutdownJoin, release, subsVars
<1>10. CASE connShutdown BY <1>0, <1>10 DEF connShutdown, subsVars
<1>11. CASE Reader
  BY <1>0, <1>11 DEF Reader, dispatch, send, dispatchCancel, dispatchDrop, cancel, subsVars
<1>12. CASE Server
  BY <1>0, <1>12 DEF Server, Deliver, ServerCancel, Exception, subsVars
<1>13. CASE UNCHANGED vars BY <1>0, <1>13 DEF vars, subsVars
<1> QED BY <1>1, <1>2, <1>3, <1>4, <1>5, <1>6, <1>7, <1>8, <1>9, <1>10, <1>11, <1>12, <1>13
        DEF Next

-----------------------------------------------------------------------------
\* The invariant holds at first.
LEMMA InitInv == Init => Inv
<1> SUFFICES ASSUME Init PROVE Inv OBVIOUS
<1> USE NameAssumption, BoundAssumption DEF Init
<1>1. rmsg \in Frame BY Frames
<1>2. <<>> \in Seq(1 .. MaxDeliver) /\ <<>> \in Seq(Frame) OBVIOUS
<1>3. /\ queue \in [Cons -> Seq(1 .. MaxDeliver)] /\ got \in [Cons -> Seq(1 .. MaxDeliver)]
      /\ sentFor \in [Cons -> Seq(1 .. MaxDeliver)] /\ inbox \in Seq(Frame)
  BY <1>2
<1>4. TypeOK
  <2>1. /\ chans \in [Tags -> Cons \cup {None}] /\ tagOf \in [Cons -> Tags \cup {None}]
        /\ owner \in [Tags -> Cons \cup {None}] /\ arg \in [Callers -> Tags \cup {None}]
        /\ cur \in [Apps -> Cons \cup {None}]
    OBVIOUS
  <2>2. /\ pc \in [Threads -> Places] /\ inOpen \in [Cons -> BOOLEAN]
        /\ inflight \in [Cons -> BOOLEAN]
        /\ buf \in [Cons -> {"none", "range", "select", "exit", "done", "closed"}]
    BY DEF Places
  <2>3. sent \in 0 .. MaxDeliver OBVIOUS
  <2> QED BY <1>1, <1>3, <2>1, <2>2, <2>3 DEF TypeOK
<1> QED
  BY <1>4 DEF Inv, MapInv, CallInv, LockInv, BufInv, OpenChanIsRegistered, Closing, Threads,
              Callers, None

(***************************************************************************)
(* The inductive invariant, of every behaviour of consumers.go under       *)
(* Channel's Consume, Cancel, Close, dispatch and shutdown.                *)
(***************************************************************************)
THEOREM Invariance == Spec => []Inv
<1>1. Inv /\ [Next]_vars => Inv'
  BY TypePreserved, MapPreserved, CallPreserved, LockPreserved, BufPreserved DEF Inv
<1> QED BY InitInv, <1>1, PTL DEF Spec

(***************************************************************************)
(* An "in" chan is open exactly while the map has it under its tag: add,   *)
(* cancel and close never close one twice, send never sends on a closed    *)
(* one, and every open one can still be closed.                            *)
(***************************************************************************)
THEOREM RegisteredIsOpen == Spec => []OpenChanIsRegistered
<1>1. Inv => OpenChanIsRegistered BY DEF Inv, MapInv
<1> QED BY Invariance, <1>1, PTL

(***************************************************************************)
(* Until the channel is shut down, the reader, which sends with the mutex  *)
(* locked, always has a receiver, however slow the application is and      *)
(* whatever is called meanwhile.                                           *)
(***************************************************************************)
THEOREM SendsMeetReceivers == Spec => []SendMeetsReceiver
<1>1. ASSUME Inv PROVE SendMeetsReceiver
  <2> SUFFICES ASSUME ~closed, pc["reader"] = "sending"
               PROVE  /\ Target # None
                      /\ \/ buf[Target] = "range"
                         \/ buf[Target] = "select" /\ inflight[Target]
    BY DEF SendMeetsReceiver, NoStrandedSend
  <2> USE <1>1 DEF Inv, TypeOK
  <2>1. rmsg.tag \in Tags /\ Target # None BY FrameTag DEF CallInv, LockInv
  <2>2. Target \in Cons /\ inOpen[Target]
    BY <2>1 DEF Target, MapInv, OpenChanIsRegistered
  <2> QED BY <2>1, <2>2 DEF BufInv
<1> QED BY Invariance, <1>1, PTL
=============================================================================
