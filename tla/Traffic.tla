------------------------------ MODULE Traffic -------------------------------
(***************************************************************************)
(* The goroutines that share one open channel (channel.go, and send,       *)
(* sendUnflushed and flush of connection.go): publishers and Ack, Nack or  *)
(* Reject, which take Channel.m; calls, which do not; and the connection's *)
(* reader, which dispatches what the server sends and answers some of it.  *)
(* The channel ends with a channel.close of the server or with the socket. *)
(*                                                                         *)
(* The stream to the server is buf, the bufio.Writer, and sent, what has   *)
(* left it.  The server answers a method when it gets it; what it sends    *)
(* waits in inbox for the reader.  Applications receive from every chan    *)
(* they register, so that a send to a listener ends.                       *)
(***************************************************************************)
EXTENDS Integers, Sequences, FiniteSets

CONSTANTS Publishers, Ackers, Calls,  \* goroutines, and what each one does
          BodyLen,     \* BodyLen[p]: length of the body that p publishes
          FrameSize,   \* c.Config.FrameSize
          Operation,   \* Operation[g]: the method that g sends; its name stands for its reply too
          NoWait,      \* the calls made with noWait
          Listeners,   \* Listeners[l]: what the chan l is registered for
          Scenes,      \* who takes part, and which events (what the server sends unasked,
                       \* "eof" for a socket that fails) may come
          MaxEvents    \* bound: how many things the server sends unasked

frameHeaderSize == 8

\* sendOpen does not end with a frame size that leaves no room for the body.
ASSUME FrameSizeAssumption == FrameSize \in Nat /\ (FrameSize = 0 \/ FrameSize > frameHeaderSize)
ASSUME CallAssumption == /\ NoWait \subseteq Calls
                         /\ \A p \in Publishers : BodyLen[p] \in Nat
ASSUME NamesAssumption ==
  /\ {"none", "reader", "shutdown", "flow-ok", "close-ok"} \cap (Publishers \cup Ackers \cup Calls) = {}
  /\ Publishers \cap Ackers = {} /\ (Publishers \cup Ackers) \cap Calls = {}

Goroutines == Publishers \cup Ackers \cup Calls

VARIABLES
  may,        \* the events of the scene
  m,          \* who holds Channel.m
  closed,     \* ch.closed
  cclosed,    \* c.closed, of the connection
  sock,       \* the socket is up
  pc, out, res, \* per goroutine: where it is, frames left to write, what it got
  buf, sent,  \* frames in the bufio.Writer, frames the server has
  confirming, published, \* ch.confirming, ch.confirms.published (-1 stands for 2^64 - 1)
  srvMode, srvCount,  \* the server's confirm mode, and the publishings it counts in it
  mixed,      \* a publisher has been at work while Confirm was: their order is open
  alone,      \* alone[g]: no other call has been under way during the call of g
  rd, frame, todo,  \* the reader: where it is, on what, listeners it has not reached
  body, shErr, \* how far the function of ch.destructor is, and its error
  errs,       \* ch.errors: what is in it, is it closed
  reg, heard, \* reg[l], heard[l]: state of a listener, what was sent to it
  inbox, events, \* frames to the reader, how many of them unasked
  panicked    \* a send on a closed chan has ended the program

gVars   == <<m, pc, out, res>>
conVars == <<confirming, published>>
srvVars == <<srvMode, srvCount, inbox>>
outVars == <<buf, sent>>
rdVars  == <<rd, frame, todo>>
shVars  == <<body, shErr, errs>>
lisVars == <<reg, heard>>
vars == <<gVars, may, closed, cclosed, sock, outVars, conVars, srvVars, mixed, alone, rdVars, shVars,
          lisVars, events, panicked>>

Events  == {"flow", "return", "cancel", "close"}
Results == {"none", "nil", "ErrClosed", "ErrCommandInvalid", "exception", "eof", "write"}

Init ==
  /\ m = "none" /\ closed = FALSE /\ cclosed = FALSE /\ sock = TRUE
  /\ \E s \in Scenes : /\ may = s.events
                       /\ pc = [g \in Goroutines |-> IF g \in s.team THEN "idle" ELSE "done"]
  /\ out = [p \in Publishers |-> <<>>]
  /\ res = [g \in Goroutines |-> "none"]
  /\ buf = <<>> /\ sent = <<>>
  /\ confirming = FALSE /\ published = 0 /\ srvMode = FALSE /\ srvCount = 0
  /\ mixed = FALSE /\ alone = [g \in Calls |-> TRUE]
  /\ rd = "read" /\ frame = "none" /\ todo = {}
  /\ body = "none" /\ shErr = "none" /\ errs = [val |-> "none", closed |-> FALSE]
  /\ reg = [l \in DOMAIN Listeners |-> "new"] /\ heard = [l \in DOMAIN Listeners |-> <<>>]
  /\ inbox = <<>> /\ events = 0 /\ panicked = FALSE

-----------------------------------------------------------------------------
(***************************************************************************)
(* The server.                                                             *)
(***************************************************************************)
Ended(fs) == Cardinality({i \in DOMAIN fs : fs[i].part = "end"})

\* It gets the frames of publishings, then the method of g (or nothing).  After its
\* own channel.close it waits for close-ok only.
serverClosed == frame = "close" \/ \E i \in DOMAIN inbox : inbox[i] = "close"

serverGets(fs, g) ==
  /\ srvCount' = IF srvMode THEN srvCount + Ended(fs) ELSE srvCount
  /\ srvMode' = (srvMode \/ (g \in Calls /\ Operation[g] = "confirmSelect"))
  /\ inbox' = IF g \in Calls \ NoWait /\ ~serverClosed THEN Append(inbox, Operation[g]) ELSE inbox

ServerSends(e) ==
  /\ e \in may /\ sock /\ events < MaxEvents /\ ~serverClosed
  /\ inbox' = Append(inbox, e) /\ events' = events + 1
  /\ UNCHANGED <<gVars, may, closed, cclosed, sock, outVars, conVars, srvMode, srvCount, mixed, alone,
                 rdVars, shVars, lisVars, panicked>>

SocketFails ==
  /\ "eof" \in may /\ sock /\ sock' = FALSE
  /\ UNCHANGED <<gVars, may, closed, cclosed, outVars, conVars, srvVars, mixed, alone, rdVars, shVars,
                 lisVars, events, panicked>>

-----------------------------------------------------------------------------
(***************************************************************************)
(* Connection.send, sendUnflushed and flush.  A write to a socket that has *)
(* failed returns an error; ConnectionFails models the shutdown that it or *)
(* the reader starts.                                                      *)
(***************************************************************************)
\* send by g of one frame, which flushes what others have left in the buffer.
sendOk(g, f) ==
  /\ ~cclosed /\ sock
  /\ sent' = sent \o Append(buf, f) /\ buf' = <<>>
  /\ serverGets(buf, g)

sendFails(r) ==
  /\ \/ cclosed /\ r = "ErrClosed"
     \/ ~sock /\ r = "write"
  /\ UNCHANGED <<outVars, srvVars>>

Method(g) == [by |-> g, part |-> "cmd", from |-> 0, to |-> 0]

\* Connection.shutdown as the channel sees it: ch.shutdown, unless it has run.
ConnectionFails ==
  /\ ~sock /\ ~cclosed /\ cclosed' = TRUE /\ closed' = TRUE
  /\ IF body = "none" THEN body' = "lock" /\ shErr' = "eof" ELSE UNCHANGED <<body, shErr>>
  /\ UNCHANGED <<gVars, may, sock, outVars, conVars, srvVars, mixed, alone, rdVars, errs, lisVars,
                 events, panicked>>

-----------------------------------------------------------------------------
(***************************************************************************)
(* PublishWithDeferredConfirm.                                             *)
(***************************************************************************)
Confirming == {g \in Calls : Operation[g] = "confirmSelect"}
Selecting  == {g \in Confirming : pc[g] \in {"send", "wait", "mode"}}
Publishing == {p \in Publishers : pc[p] \in {"check", "write"}}

\* The loop of sendOpen that cuts the body: the bounds of the slices body[i:j].
cut(len, size) ==
  LET count == IF len = 0 THEN 0 ELSE (len + size - 1) \div size
  IN  [i \in 1 .. count |-> [from |-> (i - 1) * size, to |-> IF i * size > len THEN len ELSE i * size]]

frames(p) ==
  LET size   == IF FrameSize > 0 THEN FrameSize - frameHeaderSize ELSE BodyLen[p]
      pieces == cut(BodyLen[p], size)
      bodies == [i \in DOMAIN pieces |->
                   [by |-> p, part |-> IF i = Len(pieces) THEN "end" ELSE "body",
                    from |-> pieces[i].from, to |-> pieces[i].to]]
  IN  << [by |-> p, part |-> "method", from |-> 0, to |-> 0],
         [by |-> p, part |-> IF pieces = <<>> THEN "end" ELSE "header", from |-> 0, to |-> 0] >> \o bodies

PublishLock(p) ==
  /\ pc[p] = "idle" /\ m = "none" /\ m' = p
  /\ published' = IF confirming THEN published + 1 ELSE published
  /\ mixed' = (mixed \/ Selecting # {})
  /\ pc' = [pc EXCEPT ![p] = "check"]
  /\ UNCHANGED <<may, out, res, closed, cclosed, sock, outVars, confirming, srvVars, alone, rdVars,
                 shVars, lisVars, events, panicked>>

\* What the caller of send does with its result: unpublish after an error, unlock.
returns(p) ==
  /\ published' = IF confirming /\ res'[p] # "nil" THEN published - 1 ELSE published
  /\ pc' = [pc EXCEPT ![p] = "done"] /\ m' = "none"

\* send and sendOpen, up to the first frame.
PublishCheck(p) ==
  /\ pc[p] = "check"
  /\ \/ /\ closed /\ res' = [res EXCEPT ![p] = "ErrClosed"]
        /\ returns(p) /\ UNCHANGED out
     \/ /\ ~closed /\ out' = [out EXCEPT ![p] = frames(p)]
        /\ pc' = [pc EXCEPT ![p] = "write"] /\ UNCHANGED <<m, res, published>>
  /\ UNCHANGED <<may, closed, cclosed, sock, outVars, confirming, srvVars, mixed, alone, rdVars, shVars,
                 lisVars, events, panicked>>

\* The frame stays in the buffer or, when that is full, takes it along.
sendUnflushed(p) ==
  /\ pc[p] = "write" /\ out[p] # <<>>
  /\ \/ /\ ~cclosed
        /\ out' = [out EXCEPT ![p] = Tail(@)] /\ UNCHANGED res
        /\ \/ buf' = Append(buf, Head(out[p])) /\ UNCHANGED <<sent, srvVars>>
           \/ /\ sock /\ buf' = <<>> /\ sent' = sent \o Append(buf, Head(out[p]))
              /\ serverGets(Append(buf, Head(out[p])), "none")
     \/ \E r \in Results : /\ sendFails(r)
                           /\ out' = [out EXCEPT ![p] = <<>>] /\ res' = [res EXCEPT ![p] = r]
  /\ UNCHANGED <<may, m, pc, closed, cclosed, sock, conVars, mixed, alone, rdVars, shVars, lisVars,
                 events, panicked>>

\* The deferred endSendUnflushed.  (Mutated form: no flush.)
PublishReturnUnflushed(p) ==
  /\ pc[p] = "write" /\ out[p] = <<>>
  /\ res' = [res EXCEPT ![p] = IF @ = "none" THEN "nil" ELSE @]
  /\ returns(p)
  /\ UNCHANGED <<may, out, closed, cclosed, sock, outVars, confirming, srvVars, mixed, alone, rdVars, shVars,
                 lisVars, events, panicked>>

PublishReturn(p) ==
  /\ pc[p] = "write" /\ out[p] = <<>>
  /\ \/ /\ sock /\ sent' = sent \o buf /\ buf' = <<>> /\ serverGets(buf, "none")
        /\ res' = [res EXCEPT ![p] = IF @ = "none" THEN "nil" ELSE @]
     \/ /\ ~sock /\ UNCHANGED <<outVars, srvVars>>
        /\ res' = [res EXCEPT ![p] = IF @ = "none" THEN "write" ELSE @]
  /\ returns(p)
  /\ UNCHANGED <<may, out, closed, cclosed, sock, confirming, mixed, alone, rdVars, shVars,
                 lisVars, events, panicked>>

Publish(p) == PublishCheck(p) \/ sendUnflushed(p) \/ PublishReturn(p)

\* Ack, Nack, Reject: one method under Channel.m.  (Mutated form: without it.)
AckUnlocked(g) ==
  /\ pc[g] = "idle" /\ pc' = [pc EXCEPT ![g] = "done"]
  /\ \/ closed /\ res' = [res EXCEPT ![g] = "ErrClosed"] /\ UNCHANGED <<outVars, srvVars>>
     \/ ~closed /\ sendOk(g, Method(g)) /\ res' = [res EXCEPT ![g] = "nil"]
     \/ \E r \in Results : ~closed /\ sendFails(r) /\ res' = [res EXCEPT ![g] = r]
  /\ UNCHANGED <<may, m, out, closed, cclosed, sock, conVars, mixed, alone, rdVars, shVars, lisVars, events,
                 panicked>>

Ack(g) == m = "none" /\ AckUnlocked(g)

-----------------------------------------------------------------------------
(***************************************************************************)
(* Channel.call, of the methods that need an answer, and Confirm.          *)
(***************************************************************************)
Calling == {g \in Calls : pc[g] \in {"send", "wait"}}

callBegin(g) ==
  /\ pc[g] = "idle"
  /\ pc' = [pc EXCEPT ![g] = IF closed THEN "done" ELSE "send"]
  /\ res' = [res EXCEPT ![g] = IF closed THEN "ErrClosed" ELSE @]
  /\ alone' = [h \in Calls |-> alone[h] /\ ~(h \in Calling \cup {g} /\ Calling # {})]
  /\ mixed' = (mixed \/ (g \in Confirming /\ Publishing # {}))
  /\ UNCHANGED <<may, m, out, closed, cclosed, sock, outVars, conVars, srvVars, rdVars, shVars, lisVars,
                 events, panicked>>

\* wait() of the method: false with noWait, but always true of confirm.select.
Spec091 == INSTANCE Methods
waits(g) == Spec091!waits(Spec091!Named(Operation[g]), g \in NoWait)

\* Channel.call is for methods that have an answer.
ASSUME AnswerAssumption ==
  \A g \in Calls : g \notin NoWait \/ Operation[g] = "confirmSelect" => waits(g)

Answered(g, r) == IF r = "nil" /\ g \in Confirming THEN "mode" ELSE "done"

callSend(g) ==
  /\ pc[g] = "send"
  /\ \/ /\ sendOk(g, Method(g))
        /\ IF waits(g)
           THEN pc' = [pc EXCEPT ![g] = "wait"] /\ UNCHANGED res
           ELSE res' = [res EXCEPT ![g] = "nil"] /\ pc' = [pc EXCEPT ![g] = "done"]
     \/ \E r \in Results : /\ sendFails(r) /\ res' = [res EXCEPT ![g] = r]
                           /\ pc' = [pc EXCEPT ![g] = "done"]
  /\ UNCHANGED <<may, m, out, closed, cclosed, sock, conVars, mixed, alone, rdVars, shVars, lisVars, events,
                 panicked>>

\* (Mutated forms: nobody else is listened to; the caller may give up.)
callYieldsReply(g, r) ==
  /\ rd = "rpc" /\ rd' = "read"
  /\ r = IF frame = Operation[g] THEN "nil" ELSE "ErrCommandInvalid"
  /\ UNCHANGED <<errs, frame, todo>>

callYieldsGivingUp(g, r) == callYieldsReply(g, r) \/ (r = "write" /\ UNCHANGED <<errs, rdVars>>)

callYields(g, r) ==
  \/ /\ errs.val # "none" /\ r = errs.val /\ errs' = [errs EXCEPT !.val = "none"]
     /\ UNCHANGED rdVars
  \/ /\ errs.val = "none" /\ errs.closed /\ r = "ErrClosed"
     /\ UNCHANGED <<errs, rdVars>>
  \/ /\ rd = "rpc" /\ rd' = "read"
     /\ r = IF frame = Operation[g] THEN "nil" ELSE "ErrCommandInvalid"
     /\ UNCHANGED <<errs, frame, todo>>

callWait(g) ==
  /\ pc[g] = "wait"
  /\ \E r \in Results : /\ callYields(g, r)
                        /\ res' = [res EXCEPT ![g] = r] /\ pc' = [pc EXCEPT ![g] = Answered(g, r)]
  /\ UNCHANGED <<may, m, out, closed, cclosed, sock, outVars, conVars, srvVars, mixed, alone, body, shErr,
                 lisVars, events, panicked>>

\* (Mutated form: the mode is not noted.)
ConfirmUnnoted(g) ==
  /\ pc[g] = "mode" /\ pc' = [pc EXCEPT ![g] = "done"]
  /\ UNCHANGED <<may, m, out, res, closed, cclosed, sock, outVars, conVars, srvVars, mixed, alone, rdVars,
                 shVars, lisVars, events, panicked>>

Confirm(g) ==
  /\ pc[g] = "mode" /\ pc' = [pc EXCEPT ![g] = "done"]
  /\ confirming' = TRUE
  /\ UNCHANGED <<may, m, out, res, closed, cclosed, sock, outVars, published, srvVars, mixed, alone, rdVars,
                 shVars, lisVars, events, panicked>>

call(g) == callSend(g) \/ callWait(g) \/ Confirm(g)

-----------------------------------------------------------------------------
(***************************************************************************)
(* Listeners, under notifyM: the reader holds it for reading while it is   *)
(* at "listen", shutdown for writing in the step to "done", for which it   *)
(* waits at "notify", when others wait in their turn.                      *)
(***************************************************************************)
\* A listener for what does not come is left out.
Notify(l) ==
  /\ Listeners[l] \in may /\ reg[l] = "new" /\ rd # "listen" /\ body # "notify"
  /\ reg' = [reg EXCEPT ![l] = IF body = "done" THEN "closed" ELSE "open"]
  /\ UNCHANGED <<gVars, may, closed, cclosed, sock, outVars, conVars, srvVars, mixed, alone, rdVars, shVars,
                 heard, events, panicked>>

\* The function of ch.destructor.  The slices are set to nil.  (Mutated form:
\* it does not wait for the reader to have sent what it sends.)
shutdownLock ==
  /\ body = "lock" /\ m = "none"
  /\ m' = "shutdown" /\ body' = "notify"
  /\ UNCHANGED <<may, pc, out, res, closed, cclosed, sock, outVars, conVars, srvVars, mixed, alone, rdVars,
                 shErr, errs, lisVars, events, panicked>>

shutdownNotifyAtOnce ==
  /\ body = "notify" /\ body' = "done" /\ m' = "none"
  /\ heard' = [l \in DOMAIN Listeners |->
                 IF reg[l] = "open" /\ Listeners[l] = "close" THEN Append(heard[l], shErr) ELSE heard[l]]
  /\ reg' = [l \in DOMAIN Listeners |-> IF reg[l] = "open" THEN "closed" ELSE reg[l]]
  /\ errs' = [val |-> shErr, closed |-> TRUE]
  /\ UNCHANGED <<may, pc, out, res, closed, cclosed, sock, outVars, conVars, srvVars, mixed, alone, rdVars,
                 shErr, events, panicked>>

shutdownNotify == rd # "listen" /\ shutdownNotifyAtOnce

Shutdown == shutdownLock \/ shutdownNotify

-----------------------------------------------------------------------------
(***************************************************************************)
(* The reader: dispatchN, updateChannel and Channel.dispatch.  Its shutdown *)
(* holds Connection.m, which dispatchN needs, and leaves no channel.       *)
(***************************************************************************)
\* (Mutated form: updateChannel is missing.)
readFrameOnly ==
  /\ rd = "read" /\ inbox # <<>> /\ ~cclosed
  /\ frame' = Head(inbox) /\ inbox' = Tail(inbox)
  /\ rd' = CASE frame' = "close" -> "lock"
             [] frame' \in {"flow", "return", "cancel"} -> "rlock"
             [] OTHER -> "rpc"
  /\ UNCHANGED <<gVars, may, closed, cclosed, sock, outVars, conVars, srvMode, srvCount, mixed, alone, todo,
                 shVars, lisVars, events, panicked>>

readFrame ==
  /\ rd = "read" /\ inbox # <<>> /\ ~cclosed
  /\ frame' = Head(inbox) /\ inbox' = Tail(inbox)
  /\ closed' = (closed \/ frame' = "close")
  /\ rd' = CASE frame' = "close" -> "lock"
             [] frame' \in {"flow", "return", "cancel"} -> "rlock"
             [] OTHER -> "rpc"
  /\ UNCHANGED <<gVars, may, cclosed, sock, outVars, conVars, srvMode, srvCount, mixed, alone, todo, shVars,
                 lisVars, events, panicked>>

\* dispatch of flow, return and cancel.  Flow is answered, without Channel.m.
dispatchListeners ==
  /\ \/ /\ rd = "rlock" /\ body # "notify" /\ rd' = "listen"
        /\ todo' = {l \in DOMAIN Listeners : reg[l] = "open" /\ Listeners[l] = frame}
        /\ UNCHANGED <<heard, panicked>>
     \/ /\ rd = "listen" /\ todo = {} /\ rd' = IF frame = "flow" THEN "flow-ok" ELSE "read"
        /\ UNCHANGED <<todo, heard, panicked>>
     \/ /\ rd = "listen"
        /\ \E l \in todo : /\ todo' = todo \ {l} /\ heard' = [heard EXCEPT ![l] = Append(@, frame)]
                           /\ panicked' = (reg[l] = "closed")
        /\ UNCHANGED rd
  /\ UNCHANGED <<gVars, may, closed, cclosed, sock, outVars, conVars, srvVars, mixed, alone, frame, shVars, reg,
                 events>>

dispatchFlowOk ==
  /\ rd = "flow-ok" /\ rd' = "read"
  /\ \/ ~closed /\ sendOk("reader", Method("flow-ok"))
     \/ ~closed /\ \E r \in Results : sendFails(r)
     \/ closed /\ UNCHANGED <<outVars, srvVars>>
  /\ UNCHANGED <<gVars, may, closed, cclosed, sock, conVars, mixed, alone, frame, todo, shVars, lisVars, events,
                 panicked>>

\* dispatch of channel.close: close-ok under Channel.m, then shutdown.
dispatchCloseOk ==
  /\ rd = "lock" /\ m = "none" /\ rd' = "enter"
  /\ sendOk("reader", Method("close-ok")) \/ \E r \in Results : sendFails(r)
  /\ UNCHANGED <<gVars, may, closed, cclosed, sock, conVars, mixed, alone, frame, todo, shVars, lisVars, events,
                 panicked>>

dispatchShutdown ==
  /\ \/ /\ rd = "enter" /\ rd' = "shutdown"
        /\ IF body = "none" THEN body' = "lock" /\ shErr' = "exception" ELSE UNCHANGED <<body, shErr>>
     \/ rd = "shutdown" /\ body = "done" /\ rd' = "read" /\ UNCHANGED <<body, shErr>>
  /\ UNCHANGED <<gVars, may, closed, cclosed, sock, outVars, conVars, srvVars, mixed, alone, frame, todo, errs,
                 lisVars, events, panicked>>

\* A reply that nobody takes is dropped once ch.close is closed.
dispatchAbandon ==
  /\ rd = "rpc" /\ body = "done" /\ rd' = "read"
  /\ UNCHANGED <<gVars, may, closed, cclosed, sock, outVars, conVars, srvVars, mixed, alone, frame, todo, shVars,
                 lisVars, events, panicked>>

readerEnds ==
  /\ rd = "read" /\ cclosed /\ body = "done" /\ rd' = "ended"
  /\ UNCHANGED <<gVars, may, closed, cclosed, sock, outVars, conVars, srvVars, mixed, alone, frame, todo, shVars,
                 lisVars, events, panicked>>

Reader == \/ readFrame \/ dispatchListeners \/ dispatchFlowOk \/ dispatchCloseOk \/ dispatchShutdown
          \/ dispatchAbandon \/ readerEnds

Next ==
  /\ ~panicked
  /\ \/ \E e \in Events : ServerSends(e)
     \/ SocketFails \/ ConnectionFails \/ Reader \/ Shutdown
     \/ \E p \in Publishers : PublishLock(p) \/ Publish(p)
     \/ \E g \in Ackers : Ack(g)
     \/ \E g \in Calls : callBegin(g) \/ call(g)
     \/ \E l \in DOMAIN Listeners : Notify(l)

Spec == Init /\ [][Next]_vars

\* Goroutines that can go on do, and one that waits for Channel.m gets it (mutexes
\* of Go do not starve their waiters).  A socket that has failed is noticed.
FairSpec ==
  /\ Spec
  /\ WF_vars(~panicked /\ Reader) /\ WF_vars(~panicked /\ Shutdown) /\ SF_vars(~panicked /\ shutdownLock)
  /\ SF_vars(~panicked /\ dispatchCloseOk) /\ WF_vars(~panicked /\ ConnectionFails)
  /\ \A p \in Publishers : WF_vars(~panicked /\ Publish(p))
  /\ \A g \in Calls : WF_vars(~panicked /\ call(g))

-----------------------------------------------------------------------------
(***************************************************************************)
(* Properties.                                                             *)
(***************************************************************************)
Stream == sent \o buf

\* The places of the frames of g in s, and how many of them there are up to place i.
Of(g, s)   == {i \in DOMAIN s : s[i].by = g}
Rank(s, i) == Cardinality({j \in Of(s[i].by, s) : j <= i})

\* The frames of a publishing reach the stream in order, and between them nothing of
\* those who take Channel.m, channel.close-ok included: "to avoid unexpected
\* interleaving with basic.publish frames" (dispatch, PublishWithDeferredConfirm).
\* Calls and flow-ok do not take it and may fall between.
Lockers == Publishers \cup Ackers \cup {"close-ok"}
ContentsUnbroken ==
  \A p \in Publishers : \A i \in Of(p, Stream) :
    /\ Rank(Stream, i) <= Len(frames(p)) /\ Stream[i] = frames(p)[Rank(Stream, i)]
    /\ \A k \in Of(p, Stream), j \in DOMAIN Stream :
         i < j /\ j < k => Stream[j].by \notin Lockers \ {p}

\* When Publish returns nil the whole content has left the buffer: it ends with its last
\* frame, each piece of the body begins where the one before it ends, from the first octet
\* to the last, and none is larger than the tuned frame size allows (sendOpen, flush).
WholeWhenNil ==
  \A p \in Publishers : res[p] = "nil" =>
    LET mine == Of(p, sent)
    IN  /\ mine # {}
        /\ \A i \in mine :
             /\ (\A k \in mine : i <= k) => sent[i].from = 0
             /\ (\A k \in mine : k <= i) => sent[i].to = BodyLen[p] /\ sent[i].part = "end"
             /\ \A j \in mine : i < j /\ (\A k \in mine : ~(i < k /\ k < j)) => sent[j].from = sent[i].to
             /\ FrameSize > 0 => sent[i].to - sent[i].from + frameHeaderSize <= FrameSize

\* After channel.close-ok no publishing and no acknowledgement goes out on the channel:
\* updateChannel has set closed before dispatch sends it.  (A call that passed the check
\* of send before may still send its method.)
SilentAfterCloseOk ==
  \A i, j \in DOMAIN Stream :
    i < j /\ Stream[i].by = "close-ok" => Stream[j].by \notin Publishers \cup Ackers

\* A call that no other call overlaps never gets the reply of another one, whatever
\* calls with noWait went before (call, wait).
ReplyIsMine == \A g \in Calls : res[g] = "ErrCommandInvalid" => ~alone[g]

\* While the channel is open, and if no publishing overlapped with Confirm, the counter of
\* the client is the server's whenever nobody is publishing (Confirm, publish).  No Confirm
\* may have failed: one that was given the reply of another call has left the server, but
\* not the client, in confirm mode.
InAgreement == ~mixed /\ ~closed /\ sock /\ \A g \in Confirming : res[g] \in {"none", "nil"}
TagsAgree ==
  InAgreement /\ Publishing = {} /\ (\E g \in Confirming : pc[g] = "done" /\ res[g] = "nil")
    => published = srvCount

\* No listener is sent to after it was closed: dispatch and shutdown exclude each other
\* with notifyM, and shutdown empties the slices.
NoSendOnClosed == ~panicked

\* Whatever the server and the others do, every operation that has begun returns, though
\* calls may have taken each other's replies.
OperationsReturn ==
  \A g \in Publishers \cup Calls : pc[g] # "idle" ~> pc[g] = "done"

\* "When noWait is true, the client will not wait for a response": a call with noWait
\* returns, though no answer will come (Confirm, confirmSelect.wait).
NoWaitReturns == \A g \in NoWait : pc[g] = "wait" ~> pc[g] = "done"
=============================================================================
