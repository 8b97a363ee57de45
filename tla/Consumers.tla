------------------------------ MODULE Consumers -----------------------------
(***************************************************************************)
(* The consumers of one channel (consumers.go) and their use by Consume,   *)
(* ConsumeWithContext, Cancel, Close, dispatch and shutdown of channel.go. *)
(*                                                                         *)
(* Every consumer c has a goroutine, buffer, between the chan "in", on     *)
(* which the reader hands over deliveries, and the chan "out", from which  *)
(* the application receives.  Goroutines: applications; the goroutine that *)
(* ConsumeWithContext starts for c, which bears the name c; the reader;    *)
(* and "conn", whichever runs Connection.shutdown.  The subs mutex is held *)
(* across steps by the reader in send and by close; the other operations   *)
(* under it are atomic.  Replies come over one ch.rpc and go to whoever    *)
(* waits.                                                                  *)
(***************************************************************************)
EXTENDS Integers, Sequences

CONSTANTS Apps,        \* goroutines that call methods of the channel
          Tags,        \* consumer tags
          Cons,        \* bound: the consumers that add can make
          MaxDeliver,  \* bound: how many deliveries the server sends
          Features     \* what applications do, see below

ASSUME FeatureAssumption ==
  Features \subseteq {"close",    \* call Channel.Close
                      "context",  \* call ConsumeWithContext
                      "nowait",   \* pass noWait to Consume and Cancel
                      "conflict"} \* consume with a tag that is in use
ASSUME BoundAssumption == MaxDeliver \in Nat
ASSUME NameAssumption ==
  /\ Apps \cap Cons = {} /\ (Apps \cup Cons) \cap {"reader", "conn"} = {}
  /\ "none" \notin Cons \cup Tags

VARIABLES
  chans,      \* consumers.chans: the consumer whose "in" a tag has, or None
  mu,         \* consumers.Mutex: free, or held by the reader or by close
  closed,     \* consumers.closed has been closed
  made,       \* the consumers that add has made
  tagOf,      \* tagOf[c]: the tag c was added with
  inOpen,     \* inOpen[c]: "in" is open
  buf,        \* buf[c]: where the goroutine buffer is
  queue,      \* queue[c]: its queue
  inflight,   \* inflight[c]: its variable inflight is not nil
  got,        \* got[c]: what the application has received from "out"
  handed,     \* the consumers whose "out" Consume has returned
  pc,         \* pc[t]: where goroutine t is
  arg, cur,   \* the tag, and the new consumer, of its current call
  rmsg,       \* the frame the reader is handling
  chClosed,   \* Channel.closed
  once,       \* Channel.destructor
  errs,       \* Channel.errors: empty, holding the error, or closed
  reg,        \* dispatchN finds the channel
  inbox,      \* frames on their way from the server
  srv,        \* external: the server's side of the channel is open
  active,     \* external: the tags the server delivers to
  owner,      \* external: whose basic.consume made a tag active
  sent, sentFor \* external: deliveries sent, and those for each consumer

subsVars == <<chans, mu, closed, made, tagOf, inOpen>>
bufVars  == <<buf, queue, inflight, got>>
callVars == <<pc, arg, cur, handed, rmsg>>
chVars   == <<chClosed, once, errs, reg>>
srvVars  == <<inbox, srv, active, owner, sent, sentFor>>
vars     == <<subsVars, bufVars, callVars, chVars, srvVars>>

None    == "none"
Callers == Apps \cup Cons
Threads == Callers \cup {"reader", "conn"}
Waiting == {"waitConsume", "waitCancel", "waitClose"}
Places  == Waiting \cup
  {"idle", "consume", "undo", "cancelCall", "cancelLocal", "closeCall",   \* calls
   "armed", "end",                                    \* goroutine of a context
   "shutdown", "consClose", "consWait", "join", "release",     \* closeChannel
   "send", "sending", "cancelTag", "deliver"}                  \* reader
Frame   == [m : {"deliver"}, tag : Tags, d : 1 .. MaxDeliver]
             \cup [m : {"cancel", "cancelOk"}, tag : Tags, d : {0}]
             \cup [m : {"close", "consumeOk", "closeOk"}, tag : {None}, d : {0}]

TypeOK ==
  /\ chans \in [Tags -> Cons \cup {None}]
  /\ mu \in {"free", "reader", "close"} /\ closed \in BOOLEAN
  /\ made \subseteq Cons /\ handed \subseteq made
  /\ tagOf \in [Cons -> Tags \cup {None}]
  /\ inOpen \in [Cons -> BOOLEAN] /\ inflight \in [Cons -> BOOLEAN]
  /\ buf \in [Cons -> {"none", "range", "select", "exit", "done", "closed"}]
  /\ queue \in [Cons -> Seq(1 .. MaxDeliver)] /\ got \in [Cons -> Seq(1 .. MaxDeliver)]
  /\ pc \in [Threads -> Places]
  /\ arg \in [Callers -> Tags \cup {None}] /\ cur \in [Apps -> Cons \cup {None}]
  /\ rmsg \in Frame
  /\ chClosed \in BOOLEAN /\ reg \in BOOLEAN /\ srv \in BOOLEAN
  /\ once \in {"no", "running", "done"} /\ errs \in {"empty", "one", "closed"}
  /\ inbox \in Seq(Frame)
  /\ active \subseteq Tags /\ owner \in [Tags -> Cons \cup {None}]
  /\ sent \in 0 .. MaxDeliver /\ sentFor \in [Cons -> Seq(1 .. MaxDeliver)]

Msg(m, t, d) == [m |-> m, tag |-> t, d |-> d]

Init ==
  /\ chans = [t \in Tags |-> None] /\ mu = "free" /\ closed = FALSE   \* makeConsumers
  /\ made = {} /\ handed = {} /\ tagOf = [c \in Cons |-> None]
  /\ inOpen = [c \in Cons |-> FALSE] /\ inflight = [c \in Cons |-> FALSE]
  /\ buf = [c \in Cons |-> "none"]
  /\ queue = [c \in Cons |-> <<>>] /\ got = [c \in Cons |-> <<>>]
  /\ pc = [t \in Threads |-> "idle"]
  /\ arg = [t \in Callers |-> None] /\ cur = [a \in Apps |-> None]
  /\ rmsg = Msg("close", None, 0)
  /\ chClosed = FALSE /\ once = "no" /\ errs = "empty" /\ reg = TRUE
  /\ inbox = <<>> /\ srv = TRUE /\ active = {} /\ owner = [t \in Tags |-> None]
  /\ sent = 0 /\ sentFor = [c \in Cons |-> <<>>]

Go(t, where)   == pc' = [pc EXCEPT ![t] = where]
Return(t)      == IF t \in Apps THEN "idle" ELSE "end"
Writable       == ~chClosed /\ reg      \* Channel.send writes and does not fail
FromServer(fs) == inbox' = inbox \o fs

-----------------------------------------------------------------------------
(***************************************************************************)
(* consumers.go.                                                           *)
(***************************************************************************)
addForgetful(t, c) ==   \* mutated form: the previous "in" stays open
  /\ mu = "free"
  /\ made' = made \cup {c} /\ tagOf' = [tagOf EXCEPT ![c] = t]
  /\ inOpen' = [inOpen EXCEPT ![c] = TRUE]
  /\ chans' = [chans EXCEPT ![t] = c]
  /\ buf' = [buf EXCEPT ![c] = "range"] /\ inflight' = [inflight EXCEPT ![c] = TRUE]
  /\ UNCHANGED <<mu, closed, queue, got>>

add(t, c) ==
  /\ mu = "free"
  /\ made' = made \cup {c} /\ tagOf' = [tagOf EXCEPT ![c] = t]
  /\ inOpen' = [k \in Cons |-> k = c \/ (inOpen[k] /\ k # chans[t])]
  /\ chans' = [chans EXCEPT ![t] = c]
  /\ buf' = [buf EXCEPT ![c] = "range"] /\ inflight' = [inflight EXCEPT ![c] = TRUE]
  /\ UNCHANGED <<mu, closed, queue, got>>

cancelKeepsTag(t) ==    \* mutated form: closed, but not deleted
  /\ mu = "free"
  /\ inOpen' = [k \in Cons |-> inOpen[k] /\ k # chans[t]]
  /\ UNCHANGED <<chans, mu, closed, made, tagOf>>

cancel(t) ==
  /\ mu = "free"
  /\ inOpen' = [k \in Cons |-> inOpen[k] /\ k # chans[t]]
  /\ chans' = [chans EXCEPT ![t] = None]
  /\ UNCHANGED <<mu, closed, made, tagOf>>

\* close, up to the Wait, which keeps the mutex.
closeSubs ==
  /\ mu = "free" /\ mu' = "close"
  /\ closed' = TRUE
  /\ inOpen' = [k \in Cons |-> inOpen[k] /\ \A t \in Tags : k # chans[t]]
  /\ chans' = [t \in Tags |-> None]
  /\ UNCHANGED <<made, tagOf>>

\* The WaitGroup is at zero.
AllDone == \A c \in made : buf[c] \in {"done", "closed"}

(***************************************************************************)
(* The goroutine buffer: "range" is the outer receive, "select" the inner  *)
(* loop, "exit" the deferred calls, subs.Done and then close(out).         *)
(***************************************************************************)
Target == chans[rmsg.tag]

\* Takes what the reader sends, in either receive; the reader goes on and
\* unlocks.  (Mutated form: at the wrong end.)
bufferAtHead(c) ==
  /\ pc["reader"] = "sending" /\ Target = c
  /\ buf[c] = "range" \/ (buf[c] = "select" /\ inflight[c])
  /\ queue' = [queue EXCEPT ![c] = <<rmsg.d>> \o @]
  /\ buf' = [buf EXCEPT ![c] = "select"]
  /\ mu' = "free" /\ Go("reader", "idle")
  /\ UNCHANGED <<inflight, got, chans, closed, made, tagOf, inOpen, arg, cur, handed,
                 rmsg, chVars, srvVars>>

bufferReceive(c) ==
  /\ pc["reader"] = "sending" /\ Target = c
  /\ buf[c] = "range" \/ (buf[c] = "select" /\ inflight[c])
  /\ queue' = [queue EXCEPT ![c] = Append(@, rmsg.d)]
  /\ buf' = [buf EXCEPT ![c] = "select"]
  /\ mu' = "free" /\ Go("reader", "idle")
  /\ UNCHANGED <<inflight, got, chans, closed, made, tagOf, inOpen, arg, cur, handed,
                 rmsg, chVars, srvVars>>

\* "in" is closed.  (Mutated form: the inner loop ends as the outer does.)
bufferInClosedDrops(c) ==
  /\ buf[c] \in {"range", "select"} /\ ~inOpen[c]
  /\ buf' = [buf EXCEPT ![c] = "exit"]
  /\ UNCHANGED <<queue, got, inflight, subsVars, callVars, chVars, srvVars>>

bufferInClosed(c) ==
  /\ ~inOpen[c]
  /\ \/ buf[c] = "range" /\ buf' = [buf EXCEPT ![c] = "exit"] /\ UNCHANGED inflight
     \/ /\ buf[c] = "select" /\ inflight[c]
        /\ inflight' = [inflight EXCEPT ![c] = FALSE]
        /\ UNCHANGED buf
  /\ UNCHANGED <<queue, got, subsVars, callVars, chVars, srvVars>>

\* Closed before drained.  (Mutated form: the case is missing.)
bufferNeverDrops(c) == FALSE /\ UNCHANGED vars

bufferDrop(c) ==
  /\ buf[c] = "select" /\ closed
  /\ buf' = [buf EXCEPT ![c] = "exit"]
  /\ UNCHANGED <<queue, inflight, got, subsVars, callVars, chVars, srvVars>>

\* out <- *queue[0], when the application receives; it has "out" only when
\* Consume has returned it.  (Mutated form: only one of the queue is sent before the next
\* outer receive.)
bufferSendOne(c) ==
  /\ buf[c] = "select" /\ c \in handed
  /\ got' = [got EXCEPT ![c] = Append(@, Head(queue[c]))]
  /\ queue' = [queue EXCEPT ![c] = Tail(@)]
  /\ buf' = [buf EXCEPT ![c] = "range"]
  /\ UNCHANGED <<inflight, subsVars, callVars, chVars, srvVars>>

bufferSend(c) ==
  /\ buf[c] = "select" /\ c \in handed
  /\ got' = [got EXCEPT ![c] = Append(@, Head(queue[c]))]
  /\ queue' = [queue EXCEPT ![c] = Tail(@)]
  /\ buf' = [buf EXCEPT ![c] = IF Len(queue[c]) = 1 THEN "range" ELSE "select"]
  /\ UNCHANGED <<inflight, subsVars, callVars, chVars, srvVars>>

bufferExit(c) ==
  /\ \/ buf[c] = "exit" /\ buf' = [buf EXCEPT ![c] = "done"]
     \/ buf[c] = "done" /\ buf' = [buf EXCEPT ![c] = "closed"]
  /\ UNCHANGED <<queue, inflight, got, subsVars, callVars, chVars, srvVars>>

-----------------------------------------------------------------------------
(***************************************************************************)
(* Consume and ConsumeWithContext: add comes before the call.              *)
(***************************************************************************)
\* External: without "conflict" a tag is used again only when the chan of the
\* consumer that had it is closed.
TagUnused(t) == \A c \in made : tagOf[c] = t => buf[c] = "closed"

Consume(a, t, c) ==
  /\ pc[a] = "idle" /\ c \notin made
  /\ "conflict" \in Features \/ TagUnused(t)
  /\ add(t, c)
  /\ Go(a, "consume")
  /\ arg' = [arg EXCEPT ![a] = t] /\ cur' = [cur EXCEPT ![a] = c]
  /\ UNCHANGED <<handed, rmsg, chVars, srvVars>>

\* External: the server's answer to basic.consume.  A tag in use, and whatever
\* else is wrong with the request, raises an exception.
ServeConsume(t, c, reply) ==
  \/ /\ srv /\ t \notin active
     /\ active' = active \cup {t} /\ owner' = [owner EXCEPT ![t] = c]
     /\ FromServer(reply)
     /\ UNCHANGED <<srv, sent, sentFor>>
  \/ /\ srv /\ srv' = FALSE
     /\ FromServer(<<Msg("close", None, 0)>>)
     /\ UNCHANGED <<active, owner, sent, sentFor>>
  \/ ~srv /\ UNCHANGED srvVars

consumeCall(a) ==
  /\ pc[a] = "consume"
  /\ \/ ~Writable /\ Go(a, "undo") /\ UNCHANGED <<handed, srvVars>>
     \/ /\ Writable
        /\ ServeConsume(arg[a], cur[a], <<Msg("consumeOk", None, 0)>>)
        /\ Go(a, "waitConsume")
        /\ UNCHANGED handed
     \/ /\ Writable /\ "nowait" \in Features
        /\ ServeConsume(arg[a], cur[a], <<>>)
        /\ Go(a, "idle")
        /\ handed' = handed \cup {cur[a]}
  /\ UNCHANGED <<arg, cur, rmsg, subsVars, bufVars, chVars>>

\* The call has failed: cancel by tag.  (Mutated form: nothing is undone.)
consumeNoUndo(a) ==
  /\ pc[a] = "undo" /\ Go(a, "idle")
  /\ UNCHANGED <<arg, cur, handed, rmsg, subsVars, bufVars, chVars, srvVars>>

consumeUndo(a) ==
  /\ pc[a] = "undo"
  /\ cancel(arg[a])
  /\ Go(a, "idle")
  /\ UNCHANGED <<arg, cur, handed, rmsg, bufVars, chVars, srvVars>>

\* The goroutine of ConsumeWithContext: the context is done, or the channel is
\* closed.  (Mutated form: it waits for the context only.)
contextDone(c) ==
  /\ pc[c] = "armed"
  /\ Go(c, "cancelCall") /\ arg' = [arg EXCEPT ![c] = tagOf[c]]
  /\ UNCHANGED <<cur, handed, rmsg, subsVars, bufVars, chVars, srvVars>>

contextOnly(c) == FALSE /\ UNCHANGED vars

contextClosed(c) ==
  /\ pc[c] = "armed" /\ closed
  /\ Go(c, "end")
  /\ UNCHANGED <<arg, cur, handed, rmsg, subsVars, bufVars, chVars, srvVars>>

(***************************************************************************)
(* Cancel.                                                                 *)
(***************************************************************************)
Cancel(a, t) ==
  /\ pc[a] = "idle" /\ ~chClosed
  /\ Go(a, "cancelCall") /\ arg' = [arg EXCEPT ![a] = t]
  /\ UNCHANGED <<cur, handed, rmsg, subsVars, bufVars, chVars, srvVars>>

\* External: the server's answer to basic.cancel.
ServeCancel(t, reply) ==
  IF srv THEN /\ active' = active \ {t} /\ FromServer(reply)
              /\ UNCHANGED <<srv, owner, sent, sentFor>>
         ELSE UNCHANGED srvVars

cancelCall(t) ==
  /\ pc[t] = "cancelCall"
  /\ \/ ~Writable /\ Go(t, Return(t)) /\ UNCHANGED srvVars
     \/ /\ Writable /\ Go(t, "waitCancel")
        /\ ServeCancel(arg[t], <<Msg("cancelOk", arg[t], 0)>>)
     \/ /\ Writable /\ t \in Apps /\ "nowait" \in Features
        /\ ServeCancel(arg[t], <<>>)
        /\ Go(t, "cancelLocal")
  /\ UNCHANGED <<arg, cur, handed, rmsg, subsVars, bufVars, chVars>>

cancelLocal(t) ==
  /\ pc[t] = "cancelLocal"
  /\ cancel(arg[t])
  /\ Go(t, Return(t))
  /\ UNCHANGED <<arg, cur, handed, rmsg, bufVars, chVars, srvVars>>

(***************************************************************************)
(* Close, and the waiting of Channel.call.                                 *)
(***************************************************************************)
Close(a) ==
  /\ pc[a] = "idle" /\ ~chClosed /\ "close" \in Features
  /\ Go(a, "closeCall")
  /\ UNCHANGED <<arg, cur, handed, rmsg, subsVars, bufVars, chVars, srvVars>>

closeCall(a) ==
  /\ pc[a] = "closeCall"
  /\ IF Writable
       THEN /\ srv' = FALSE /\ FromServer(<<Msg("closeOk", None, 0)>>)
            /\ Go(a, "waitClose")
            /\ UNCHANGED <<active, owner, sent, sentFor>>
       ELSE Go(a, "shutdown") /\ UNCHANGED srvVars
  /\ UNCHANGED <<arg, cur, handed, rmsg, subsVars, bufVars, chVars>>

Failed(t) == CASE pc[t] = "waitConsume" -> "undo"
               [] pc[t] = "waitCancel"  -> Return(t)
               [] pc[t] = "waitClose"   -> "shutdown"

\* ch.errors holds the error, for one of those who wait, or is closed.
callFails(t) ==
  /\ pc[t] \in Waiting /\ errs # "empty"
  /\ errs' = IF errs = "one" THEN "empty" ELSE errs
  /\ Go(t, Failed(t))
  /\ UNCHANGED <<arg, cur, handed, rmsg, subsVars, bufVars, chClosed, once, reg, srvVars>>

\* The reader's send on ch.rpc meets a call, which compares the reply's type
\* with the one it wants.
rpc(t) ==
  /\ pc["reader"] = "deliver" /\ pc[t] \in Waiting
  /\ \/ /\ pc[t] = "waitConsume" /\ rmsg.m = "consumeOk"
        /\ handed' = handed \cup {cur[t]}
        /\ \/ pc' = [pc EXCEPT !["reader"] = "idle", ![t] = "idle"]
           \/ /\ "context" \in Features
              /\ pc' = [pc EXCEPT !["reader"] = "idle", ![t] = "idle", ![cur[t]] = "armed"]
        /\ UNCHANGED arg
     \/ /\ pc[t] = "waitCancel" /\ rmsg.m = "cancelOk"
        /\ pc' = [pc EXCEPT !["reader"] = "idle", ![t] = "cancelLocal"]
        /\ arg' = [arg EXCEPT ![t] = rmsg.tag]
        /\ UNCHANGED handed
     \/ /\ pc[t] = "waitClose" /\ rmsg.m = "closeOk"
        /\ pc' = [pc EXCEPT !["reader"] = "idle", ![t] = "shutdown"]
        /\ UNCHANGED <<arg, handed>>
     \/ /\ <<pc[t], rmsg.m>> \notin {<<"waitConsume", "consumeOk">>,
                 <<"waitCancel", "cancelOk">>, <<"waitClose", "closeOk">>}
        /\ pc' = [pc EXCEPT !["reader"] = "idle", ![t] = Failed(t)]   \* ErrCommandInvalid
        /\ UNCHANGED <<arg, handed>>
  /\ UNCHANGED <<cur, rmsg, subsVars, bufVars, chVars, srvVars>>

-----------------------------------------------------------------------------
(***************************************************************************)
(* Channel.shutdown, and releaseChannel.  Channel.errors gets the error    *)
(* first, if there is one; ch.m and notifyM are left out.                  *)
(***************************************************************************)
shutdown(t) ==
  /\ pc[t] = "shutdown"
  /\ chClosed' = TRUE
  /\ \/ /\ once = "no" /\ once' = "running"
        /\ errs' \in (IF t \in Apps THEN {errs} ELSE {"one"})
                    \cup (IF t = "conn" THEN {errs} ELSE {})    \* after Connection.Close
        /\ Go(t, "consClose")
     \/ once # "no" /\ Go(t, "join") /\ UNCHANGED <<once, errs>>
  /\ UNCHANGED <<reg, arg, cur, handed, rmsg, subsVars, bufVars, srvVars>>

shutdownClose(t) ==
  /\ pc[t] = "consClose"
  /\ closeSubs
  /\ Go(t, "consWait")
  /\ UNCHANGED <<arg, cur, handed, rmsg, bufVars, chVars, srvVars>>

\* consumers.close returns; ch.errors and ch.close are closed.
shutdownDone(t) ==
  /\ pc[t] = "consWait" /\ AllDone
  /\ mu' = "free"
  /\ once' = "done" /\ errs' = "closed"
  /\ Go(t, "release")
  /\ UNCHANGED <<chans, closed, made, tagOf, inOpen, bufVars, arg, cur, handed, rmsg,
                 chClosed, reg, srvVars>>

shutdownJoin(t) ==
  /\ pc[t] = "join" /\ once = "done"
  /\ Go(t, "release")
  /\ UNCHANGED <<arg, cur, handed, rmsg, subsVars, bufVars, chVars, srvVars>>

release(t) ==
  /\ pc[t] = "release"
  /\ reg' = FALSE
  /\ Go(t, IF t = "conn" THEN "end" ELSE "idle")
  /\ UNCHANGED <<chClosed, once, errs, arg, cur, handed, rmsg, subsVars, bufVars, srvVars>>

closeChannel(t) == \/ shutdown(t) \/ shutdownClose(t) \/ shutdownDone(t)
                   \/ shutdownJoin(t) \/ release(t)

\* Connection.shutdown: no frame reaches the channel any more.
connShutdown ==
  /\ pc["conn"] = "idle" /\ reg
  /\ reg' = FALSE
  /\ Go("conn", "shutdown")
  /\ UNCHANGED <<chClosed, once, errs, arg, cur, handed, rmsg, subsVars, bufVars, srvVars>>

-----------------------------------------------------------------------------
(***************************************************************************)
(* The reader: dispatchN and Channel.dispatch.                             *)
(***************************************************************************)
dispatch ==
  /\ pc["reader"] = "idle" /\ reg /\ inbox # <<>>
  /\ inbox' = Tail(inbox) /\ rmsg' = Head(inbox)
  /\ Go("reader", CASE rmsg'.m = "deliver" -> "send"
                    [] rmsg'.m = "cancel"  -> "cancelTag"
                    [] rmsg'.m = "close"   -> "shutdown"
                    [] OTHER               -> "deliver")
  /\ chClosed' = (chClosed \/ rmsg'.m = "close")       \* updateChannel
  /\ UNCHANGED <<once, errs, reg, arg, cur, handed, subsVars, bufVars, srv, active, owner,
                 sent, sentFor>>

send ==
  /\ pc["reader"] = "send" /\ mu = "free"
  /\ IF Target # None THEN mu' = "reader" /\ Go("reader", "sending")
                      ELSE Go("reader", "idle") /\ UNCHANGED mu
  /\ UNCHANGED <<chans, closed, made, tagOf, inOpen, bufVars, arg, cur, handed, rmsg,
                 chVars, srvVars>>

dispatchCancel ==
  /\ pc["reader"] = "cancelTag"
  /\ cancel(rmsg.tag)
  /\ Go("reader", "idle")
  /\ UNCHANGED <<arg, cur, handed, rmsg, bufVars, chVars, srvVars>>

dispatchDrop ==        \* ch.close is closed
  /\ pc["reader"] = "deliver" /\ once = "done"
  /\ Go("reader", "idle")
  /\ UNCHANGED <<arg, cur, handed, rmsg, subsVars, bufVars, chVars, srvVars>>

Reader == dispatch \/ send \/ dispatchCancel \/ dispatchDrop

(***************************************************************************)
(* External: the server delivers, cancels a consumer, raises an exception. *)
(***************************************************************************)
Deliver(t) ==
  /\ srv /\ t \in active /\ sent < MaxDeliver
  /\ sent' = sent + 1
  /\ sentFor' = [sentFor EXCEPT ![owner[t]] = Append(@, sent')]
  /\ FromServer(<<Msg("deliver", t, sent')>>)
  /\ UNCHANGED <<srv, active, owner, subsVars, bufVars, callVars, chVars>>

ServerCancel(t) ==
  /\ srv /\ t \in active
  /\ active' = active \ {t}
  /\ FromServer(<<Msg("cancel", t, 0)>>)
  /\ UNCHANGED <<srv, owner, sent, sentFor, subsVars, bufVars, callVars, chVars>>

Exception ==
  /\ srv /\ srv' = FALSE
  /\ FromServer(<<Msg("close", None, 0)>>)
  /\ UNCHANGED <<active, owner, sent, sentFor, subsVars, bufVars, callVars, chVars>>

Server == (\E t \in Tags : Deliver(t) \/ ServerCancel(t)) \/ Exception

Buffer(c) == bufferInClosed(c) \/ bufferDrop(c) \/ bufferExit(c)

\* The rest of a call that has begun.
Continue(a) == \/ consumeCall(a) \/ consumeUndo(a) \/ closeCall(a)

Call(t) == cancelCall(t) \/ cancelLocal(t) \/ callFails(t) \/ rpc(t)

Next ==
  \/ \E a \in Apps : \/ \E t \in Tags : Cancel(a, t) \/ \E c \in Cons : Consume(a, t, c)
                     \/ Close(a) \/ Continue(a)
  \/ \E t \in Callers : Call(t)
  \/ \E c \in Cons : \/ contextDone(c) \/ contextClosed(c)
                     \/ Buffer(c) \/ bufferReceive(c) \/ bufferSend(c)
  \/ \E t \in Apps \cup {"reader", "conn"} : closeChannel(t)
  \/ connShutdown \/ Reader \/ Server

Spec == Init /\ [][Next]_vars

(***************************************************************************)
(* Goroutines that can go on do; applications need not receive, nor call   *)
(* anything, no context has to be done, nor does the server have to        *)
(* deliver.                                                                *)
(***************************************************************************)
FairSpec ==
  /\ Spec
  /\ WF_vars(Reader \/ closeChannel("reader")) /\ WF_vars(closeChannel("conn"))
  /\ \A a \in Apps : WF_vars(Continue(a) \/ Call(a) \/ closeChannel(a))
  /\ \A c \in Cons : /\ WF_vars(Buffer(c) \/ bufferReceive(c))
                      /\ WF_vars(contextClosed(c) \/ Call(c))

-----------------------------------------------------------------------------
(***************************************************************************)
(* Properties.                                                             *)
(***************************************************************************)
\* An "in" is open exactly as long as its consumer is the one of its tag.  So
\* add, cancel and close, which close what they find in the map, never close a
\* chan twice, send never sends on a closed one (both panic), and no goroutine
\* is left waiting on an "in" that nobody can close any more.
OpenChanIsRegistered ==
  \A c \in Cons : inOpen[c] <=> (c \in made /\ chans[tagOf[c]] = c)

\* While the reader sends, with the mutex locked, the goroutine of the consumer
\* is there to receive.
NoStrandedSend ==
  pc["reader"] = "sending" =>
    Target # None /\ (buf[Target] = "range" \/ (buf[Target] = "select" /\ inflight[Target]))

\* The same while consumers.closed is open, whatever goroutines do.
SendMeetsReceiver == closed \/ NoStrandedSend

\* A consumer gets the deliveries of its own subscription, in the order sent,
\* without gaps.
InOrder ==
  \A c \in Cons : \A i \in DOMAIN got[c] :
    i <= Len(sentFor[c]) /\ got[c][i] = sentFor[c][i]

\* "Using this method and waiting for remaining messages to flush [...] will
\* ensure all messages received on the network will be delivered": when the chan
\* of a consumer is closed and the channel is not, everything has been received.
CompleteAfterCancel ==
  \A c \in handed : buf[c] = "closed" /\ ~closed => got[c] = sentFor[c]

\* The goroutine of ConsumeWithContext cancels the consumer it was started for
\* and no other.
ContextCancelsItsOwn ==
  [][\A c \in Cons : pc[c] = "cancelLocal" /\ pc'[c] = "end" => chans[arg[c]] \in {c, None}]_vars

\* "Consumers must range over the chan to ensure all deliveries are received": if the
\* application goes on receiving from a chan, it gets whatever the server has sent for that
\* consumer, also what was on its way or in the buffer when the consumer was cancelled,
\* unless the channel or the connection is closed first (Consume, send, buffer).
EachIsReceived ==
  \A c \in Cons : WF_vars(bufferSend(c)) => []<>(got[c] = sentFor[c] \/ chClosed \/ ~reg)

\* Closing a channel ends, whatever the consumers have not received.
CloseEnds == chClosed ~> (once = "done")

\* After that the chan of every consumer is closed, including one that was being
\* added at the time.
OutsClose == \A c \in Cons : (once = "done" /\ c \in made) ~> (buf[c] = "closed")

\* The goroutine that ConsumeWithContext started ends when the channel is closed,
\* in the middle of a Cancel or not; contexts that are never done leak nothing.
ContextGoroutinesEnd ==
  \A c \in Cons : (once = "done" /\ pc[c] # "idle") ~> (pc[c] = "end")
=============================================================================
