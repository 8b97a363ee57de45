-------------------------- MODULE ChannelRegistry ---------------------------
(***************************************************************************)
(* The life of the channels of one connection (connection.go and           *)
(* channel.go): Connection.Channel allocates an id, registers a Channel    *)
(* and opens it; Channel.Close, a channel exception of the server, and the *)
(* shutdown of the connection end it and give the id back, after which the *)
(* allocator may hand it to another Channel.                               *)
(*                                                                         *)
(* Goroutines: applications that open and close channels, publishers that  *)
(* use open ones, the connection's reader, and whichever goroutine runs    *)
(* Connection.shutdown ("conn").  Every step that holds Connection.m and   *)
(* cannot block is atomic; Connection.shutdown holds it across steps.      *)
(***************************************************************************)
EXTENDS Integers, Sequences

CONSTANTS Apps,        \* goroutines that open and close channels
          Publishers,  \* goroutines that publish on open channels
          Low, High,   \* the range of the channel ids
          MaxOpen,     \* bound: how many Channels are made
          MaxExc       \* bound: how many channel exceptions the server raises

ASSUME RangeAssumption == Low \in Nat \ {0} /\ High \in Nat /\ Low <= High
ASSUME BoundAssumption == MaxOpen \in Nat /\ MaxExc \in Nat
ASSUME NameAssumption ==
  Apps \cap {"reader", "conn"} = {} /\ Publishers \cap {"none", "reader"} = {}

VARIABLES
  pool, follow,  \* Connection.allocator
  channels,      \* Connection.channels: the Channel registered for an id, or None
  made,          \* how many Channels newChannel has made
  id,            \* id[o]: Channel.id
  closed,        \* closed[o]: Channel.closed
  once,          \* once[o]: Channel.destructor has not run, runs, or has run
  opened,        \* the Channels that Connection.Channel has returned
  pc,            \* pc[t]: where goroutine t is
  obj,           \* obj[t]: the Channel it works on
  ret,           \* ret[a]: how the latest call of a has ended
  rmsg,          \* the reply the reader is delivering
  ppc, pobj,     \* where a publisher is in Publish, and on which Channel
  chM,           \* chM[o]: who holds Channel.m, a publisher or the reader
  conn,          \* the connection: up, broken, or how far shutdown has come
  doomed,        \* a goroutine is in closeWith
  out, in,       \* method frames on their way to the server and from it
  srv, exc       \* external: the server's state of each id; its exceptions

allocVars == <<pool, follow>>
chanVars  == <<made, id, closed, once, opened>>
callVars  == <<pc, obj, ret, rmsg>>
pubVars   == <<ppc, pobj, chM>>
connVars  == <<conn, doomed>>
netVars   == <<out, in, srv, exc>>
vars      == <<allocVars, channels, chanVars, callVars, pubVars, connVars, netVars>>

Ids      == Low .. High
Channels == 1 .. MaxOpen
None     == 0
Threads  == Apps \cup {"reader", "conn"}

Alloc == INSTANCE Allocator WITH ret <- follow

Init ==
  /\ Alloc!newAllocator /\ channels = [n \in Ids |-> None]
  /\ made = 0 /\ id = [o \in Channels |-> None]
  /\ closed = [o \in Channels |-> FALSE] /\ once = [o \in Channels |-> "no"]
  /\ opened = {}
  /\ pc = [t \in Threads |-> "idle"] /\ obj = [t \in Threads |-> None]
  /\ ret = [a \in Apps |-> "none"] /\ rmsg = "none"
  /\ ppc = [p \in Publishers |-> "idle"] /\ pobj = [p \in Publishers |-> None]
  /\ chM = [o \in Channels |-> "none"]
  /\ conn = "up" /\ doomed = FALSE
  /\ out = <<>> /\ in = <<>> /\ srv = [n \in Ids |-> "closed"] /\ exc = 0

ConnIsClosed == conn \notin {"up", "broken"}   \* Connection.IsClosed
ConnMFree    == conn # "locked"                \* Connection.m

Go(t, where) == pc' = [pc EXCEPT ![t] = where]
Result(a, r) == ret' = [ret EXCEPT ![a] = r]

\* Connection.send: nothing is written once the connection is closed, nor when
\* writing fails, after which shutdown is called.
send(n, m) == out' = IF conn = "up" THEN Append(out, [id |-> n, m |-> m]) ELSE out

-----------------------------------------------------------------------------
(***************************************************************************)
(* Connection.Channel, that is openChannel.                                *)
(***************************************************************************)
allocateChannel(a) ==
  /\ pc[a] = "idle" /\ ConnMFree
  /\ \/ /\ ~ConnIsClosed /\ made < MaxOpen
        /\ \E n \in Ids :
             /\ Alloc!NextOk(n)
             /\ made' = made + 1
             /\ id' = [id EXCEPT ![made'] = n]
             /\ channels' = [channels EXCEPT ![n] = made']
             /\ obj' = [obj EXCEPT ![a] = made']
        /\ Go(a, "openCheck")
        /\ UNCHANGED ret
     \/ /\ ~ConnIsClosed                           \* ErrChannelMax
        /\ Alloc!NextFail
        /\ Result(a, "err")
        /\ UNCHANGED <<made, id, channels, obj, pc>>
     \/ /\ ConnIsClosed                            \* ErrClosed
        /\ Result(a, "err")
        /\ UNCHANGED <<allocVars, made, id, channels, obj, pc>>
  /\ UNCHANGED <<closed, once, opened, rmsg, pubVars, connVars, netVars>>

\* The test of Channel.send; the write follows in a step of its own.
CallCheck(a, check, write, fail) ==
  /\ pc[a] = check
  /\ IF closed[obj[a]] THEN Go(a, fail) /\ Result(a, "err")
                       ELSE Go(a, write) /\ UNCHANGED ret
  /\ UNCHANGED <<allocVars, channels, chanVars, obj, rmsg, pubVars, connVars, netVars>>

CallWrite(a, write, m, wait, fail) ==
  /\ pc[a] = write
  /\ send(id[obj[a]], m)
  /\ IF conn = "up" THEN Go(a, wait) /\ UNCHANGED ret
                    ELSE Go(a, fail) /\ Result(a, "err")
  /\ UNCHANGED <<allocVars, channels, chanVars, obj, rmsg, pubVars, connVars, in, srv, exc>>

\* Channel.call is woken by ch.errors, which shutdown closes.
CallFails(a, wait, fail) ==
  /\ pc[a] = wait /\ once[obj[a]] = "done"
  /\ Go(a, fail) /\ Result(a, "err")
  /\ UNCHANGED <<allocVars, channels, chanVars, obj, rmsg, pubVars, connVars, netVars>>

open(a) == \/ CallCheck(a, "openCheck", "openWrite", "release")
           \/ CallWrite(a, "openWrite", "open", "openWait", "release")
           \/ CallFails(a, "openWait", "release")

(***************************************************************************)
(* Channel.Close, by the goroutine that opened the channel.                *)
(***************************************************************************)
Close(a) ==
  /\ pc[a] = "own"
  /\ IF closed[obj[a]] THEN Go(a, "idle") /\ Result(a, "ok")
                       ELSE Go(a, "closeCheck") /\ UNCHANGED ret
  /\ UNCHANGED <<allocVars, channels, chanVars, obj, rmsg, pubVars, connVars, netVars>>

close(a) == \/ CallCheck(a, "closeCheck", "closeWrite", "shutdown")
            \/ CallWrite(a, "closeWrite", "close", "closeWait", "shutdown")
            \/ CallFails(a, "closeWait", "shutdown")

-----------------------------------------------------------------------------
(***************************************************************************)
(* Connection.closeChannel by an application or the reader: shutdown, then *)
(* releaseChannel.  Connection.shutdown calls shutdown only.               *)
(***************************************************************************)
After(t) == IF t = "conn" THEN "idle" ELSE "release"

\* Channel.shutdown: setClosed, and destructor.Do runs the body or waits for
\* the goroutine that does.
shutdown(t) ==
  /\ pc[t] = "shutdown"
  /\ closed' = [closed EXCEPT ![obj[t]] = TRUE]
  /\ IF once[obj[t]] = "no"
       THEN once' = [once EXCEPT ![obj[t]] = "running"] /\ Go(t, "body")
       ELSE Go(t, "join") /\ UNCHANGED once
  /\ UNCHANGED <<allocVars, channels, made, id, opened, obj, ret, rmsg, pubVars,
                 connVars, netVars>>

\* The body, once Channel.m is free: ch.errors and ch.close are closed.
\* (Mutated form: does not take Channel.m.)
shutdownBodyUnlocked(t) ==
  /\ pc[t] = "body"
  /\ once' = [once EXCEPT ![obj[t]] = "done"]
  /\ Go(t, After(t))
  /\ UNCHANGED <<allocVars, channels, made, id, closed, opened, obj, ret, rmsg,
                 pubVars, connVars, netVars>>

shutdownBody(t) ==
  /\ pc[t] = "body" /\ chM[obj[t]] = "none"
  /\ once' = [once EXCEPT ![obj[t]] = "done"]
  /\ Go(t, After(t))
  /\ UNCHANGED <<allocVars, channels, made, id, closed, opened, obj, ret, rmsg,
                 pubVars, connVars, netVars>>

shutdownJoin(t) ==
  /\ pc[t] = "join" /\ once[obj[t]] = "done"
  /\ Go(t, After(t))
  /\ UNCHANGED <<allocVars, channels, chanVars, obj, ret, rmsg, pubVars, connVars, netVars>>

(***************************************************************************)
(* Connection.releaseChannel.  (Mutated forms: whatever is registered for  *)
(* the id is removed; the id stays reserved.)                              *)
(***************************************************************************)
releaseWhatever(t) ==
  /\ pc[t] = "release" /\ ConnMFree
  /\ IF ~ConnIsClosed /\ channels[id[obj[t]]] # None
       THEN /\ channels' = [channels EXCEPT ![id[obj[t]]] = None]
            /\ Alloc!Release(id[obj[t]])
       ELSE UNCHANGED <<channels, allocVars>>
  /\ Go(t, "idle")
  /\ UNCHANGED <<chanVars, obj, ret, rmsg, pubVars, connVars, netVars>>

releaseKeepsId(t) ==
  /\ pc[t] = "release" /\ ConnMFree
  /\ channels' = IF ~ConnIsClosed /\ channels[id[obj[t]]] = obj[t]
                   THEN [channels EXCEPT ![id[obj[t]]] = None] ELSE channels
  /\ Go(t, "idle")
  /\ UNCHANGED <<allocVars, chanVars, obj, ret, rmsg, pubVars, connVars, netVars>>

releaseChannel(t) ==
  /\ pc[t] = "release" /\ ConnMFree
  /\ IF ~ConnIsClosed /\ channels[id[obj[t]]] = obj[t]
       THEN /\ channels' = [channels EXCEPT ![id[obj[t]]] = None]
            /\ Alloc!Release(id[obj[t]])
       ELSE UNCHANGED <<channels, allocVars>>
  /\ Go(t, "idle")
  /\ UNCHANGED <<chanVars, obj, ret, rmsg, pubVars, connVars, netVars>>

closeChannel(t) == shutdown(t) \/ shutdownBody(t) \/ shutdownJoin(t) \/ releaseChannel(t)

-----------------------------------------------------------------------------
(***************************************************************************)
(* The reader: dispatchN takes a frame and looks its channel up, under     *)
(* Connection.m; updateChannel marks a Channel the server closes.          *)
(***************************************************************************)
Take == /\ pc["reader"] = "idle" /\ conn # "done" /\ ConnMFree
        /\ in # <<>>
        /\ in' = Tail(in)

dispatchN ==
  /\ Take
  /\ LET f == Head(in)
         o == channels[f.id]
     IN  /\ o # None
         /\ obj' = [obj EXCEPT !["reader"] = o]
         /\ \/ /\ f.m = "close"
               /\ closed' = [closed EXCEPT ![o] = TRUE]
               /\ Go("reader", "sendCloseOk")
               /\ UNCHANGED rmsg
            \/ /\ f.m # "close"
               /\ rmsg' = f.m
               /\ Go("reader", "deliver")
               /\ UNCHANGED closed
  /\ UNCHANGED <<allocVars, channels, made, id, once, opened, ret, pubVars, connVars,
                 out, srv, exc>>

\* Channel.dispatch of channel.close: close-ok is sent under Channel.m, and
\* closeChannel follows.
dispatchClose ==
  /\ pc["reader"] = "sendCloseOk" /\ chM[obj["reader"]] = "none"
  /\ chM' = [chM EXCEPT ![obj["reader"]] = "reader"]
  /\ Go("reader", "writeCloseOk")
  /\ UNCHANGED <<allocVars, channels, chanVars, obj, ret, rmsg, ppc, pobj, connVars, netVars>>

dispatchCloseSent ==
  /\ pc["reader"] = "writeCloseOk"
  /\ send(id[obj["reader"]], "closeOk")
  /\ chM' = [chM EXCEPT ![obj["reader"]] = "none"]
  /\ Go("reader", "shutdown")
  /\ UNCHANGED <<allocVars, channels, chanVars, obj, ret, rmsg, ppc, pobj, connVars, in, srv, exc>>

\* Channel.dispatch of a reply: the reader waits until a call takes it from
\* ch.rpc.  Channel.call compares it with the reply it wants.
dispatchReply(a) ==
  /\ pc["reader"] = "deliver"
  /\ pc[a] \in {"openWait", "closeWait"} /\ obj[a] = obj["reader"]
  /\ \/ /\ pc[a] = "openWait" /\ rmsg = "openOk"
        /\ pc' = [pc EXCEPT ![a] = "own", !["reader"] = "idle"]
        /\ opened' = opened \cup {obj[a]}
        /\ Result(a, "ok")
     \/ /\ pc[a] = "closeWait" /\ rmsg = "closeOk"
        /\ pc' = [pc EXCEPT ![a] = "shutdown", !["reader"] = "idle"]
        /\ Result(a, "ok")
        /\ UNCHANGED opened
     \/ /\ <<pc[a], rmsg>> \notin {<<"openWait", "openOk">>, <<"closeWait", "closeOk">>}
        /\ pc' = [pc EXCEPT ![a] = IF @ = "openWait" THEN "release" ELSE "shutdown",
                            !["reader"] = "idle"]
        /\ Result(a, "ErrCommandInvalid")
        /\ UNCHANGED opened
  /\ UNCHANGED <<allocVars, channels, made, id, closed, once, obj, rmsg, pubVars,
                 connVars, netVars>>

\* ch.close is closed: the reply is dropped.
dropReply ==
  /\ pc["reader"] = "deliver" /\ once[obj["reader"]] = "done"
  /\ Go("reader", "idle")
  /\ UNCHANGED <<allocVars, channels, chanVars, obj, ret, rmsg, pubVars, connVars, netVars>>

\* The id has no Channel: a close is answered, a close-ok ignored, and any
\* other method closes the connection (closeWith, in a goroutine of its own).
dispatchClosed ==
  /\ Take
  /\ LET f == Head(in)
     IN  /\ channels[f.id] = None
         /\ \/ f.m = "close" /\ send(f.id, "closeOk") /\ UNCHANGED doomed
            \/ f.m = "closeOk" /\ UNCHANGED <<out, doomed>>
            \/ f.m \notin {"close", "closeOk"} /\ doomed' = TRUE /\ UNCHANGED out
  /\ UNCHANGED <<allocVars, channels, chanVars, callVars, pubVars, conn, srv, exc>>

Reader == \/ dispatchN \/ dispatchClose \/ dispatchCloseSent \/ dispatchClosed \/ dropReply
          \/ \E a \in Apps : dispatchReply(a)

-----------------------------------------------------------------------------
(***************************************************************************)
(* Connection.shutdown, after an I/O error, a connection.close of either   *)
(* side, or a missed heartbeat.                                            *)
(***************************************************************************)
connClosed ==
  /\ conn \in {"up", "broken"}
  /\ conn' = "closed"
  /\ UNCHANGED <<allocVars, channels, chanVars, callVars, pubVars, doomed, netVars>>

connLock ==
  /\ conn = "closed"
  /\ conn' = "locked"
  /\ UNCHANGED <<allocVars, channels, chanVars, callVars, pubVars, doomed, netVars>>

Registered == {channels[n] : n \in Ids} \ {None}

\* The loop over c.channels
connShutdownNext ==
  /\ conn = "locked" /\ pc["conn"] = "idle"
  /\ \E o \in Registered : once[o] # "done" /\ obj' = [obj EXCEPT !["conn"] = o]
  /\ Go("conn", "shutdown")
  /\ UNCHANGED <<allocVars, channels, chanVars, ret, rmsg, pubVars, connVars, netVars>>


connShutdownEnd ==
  /\ conn = "locked" /\ pc["conn"] = "idle"
  /\ \A o \in Registered : once[o] = "done"
  /\ conn' = "done"
  /\ channels' = [n \in Ids |-> None]
  /\ UNCHANGED <<allocVars, chanVars, callVars, pubVars, doomed, netVars>>

Shutter == connLock \/ connShutdownNext \/ connShutdownEnd

-----------------------------------------------------------------------------
(***************************************************************************)
(* Publish, as far as the life of the channel is concerned: Channel.m is   *)
(* held from before the test of Channel.send until the frames are written. *)
(***************************************************************************)
PublishLock(p, o) ==
  /\ ppc[p] = "idle" /\ o \in opened /\ chM[o] = "none"
  /\ chM' = [chM EXCEPT ![o] = p]
  /\ ppc' = [ppc EXCEPT ![p] = "locked"] /\ pobj' = [pobj EXCEPT ![p] = o]
  /\ UNCHANGED <<allocVars, channels, chanVars, callVars, connVars, netVars>>

PublishCheck(p) ==
  /\ ppc[p] = "locked" /\ ~closed[pobj[p]]
  /\ ppc' = [ppc EXCEPT ![p] = "write"]
  /\ UNCHANGED <<allocVars, channels, chanVars, callVars, pobj, chM, connVars, netVars>>

\* The channel is closed, or the frames have been written: unlock.
PublishUnlock(p) ==
  /\ ppc[p] = "write" \/ (ppc[p] = "locked" /\ closed[pobj[p]])
  /\ chM' = [chM EXCEPT ![pobj[p]] = "none"]
  /\ ppc' = [ppc EXCEPT ![p] = "idle"]
  /\ UNCHANGED <<allocVars, channels, chanVars, callVars, pobj, connVars, netVars>>

-----------------------------------------------------------------------------
(***************************************************************************)
(* External: the server.  A channel it has closed after an exception stays *)
(* "closing" until the client's close-ok; a close that crosses the one of  *)
(* the server is answered as well.  Frames it must refuse end the          *)
(* connection (connClosed).                                                *)
(***************************************************************************)
Serve ==
  /\ out # <<>>
  /\ out' = Tail(out)
  /\ LET f == Head(out)
         Reply(m) == in' = Append(in, [id |-> f.id, m |-> m])
         Becomes(s) == srv' = [srv EXCEPT ![f.id] = s]
     IN  \/ f.m = "open" /\ srv[f.id] = "closed" /\ Becomes("open") /\ Reply("openOk")
         \/ f.m = "close" /\ srv[f.id] = "open" /\ Becomes("closed") /\ Reply("closeOk")
         \/ f.m = "close" /\ srv[f.id] = "closing" /\ Reply("closeOk") /\ UNCHANGED srv
         \/ f.m = "closeOk" /\ srv[f.id] = "closing" /\ Becomes("closed") /\ UNCHANGED in
         \/ /\ \/ f.m = "open" /\ srv[f.id] # "closed"
               \/ f.m = "close" /\ srv[f.id] = "closed"
               \/ f.m = "closeOk" /\ srv[f.id] # "closing"
            /\ UNCHANGED <<srv, in>>
  /\ UNCHANGED <<allocVars, channels, chanVars, callVars, pubVars, connVars, exc>>

Exception(n) ==
  /\ srv[n] = "open" /\ exc < MaxExc
  /\ srv' = [srv EXCEPT ![n] = "closing"]
  /\ exc' = exc + 1
  /\ in' = Append(in, [id |-> n, m |-> "close"])
  /\ UNCHANGED <<allocVars, channels, chanVars, callVars, pubVars, connVars, out>>

\* The network fails: from now on writing does.
Break ==
  /\ conn = "up" /\ conn' = "broken"
  /\ UNCHANGED <<allocVars, channels, chanVars, callVars, pubVars, doomed, netVars>>

Next == \/ \E a \in Apps : allocateChannel(a) \/ open(a) \/ Close(a) \/ close(a)
        \/ \E t \in Threads : closeChannel(t)
        \/ Reader
        \/ connClosed \/ Shutter
        \/ \E p \in Publishers : \/ \E o \in Channels : PublishLock(p, o)
                                 \/ PublishCheck(p) \/ PublishUnlock(p)
        \/ Serve \/ Break \/ \E n \in Ids : Exception(n)

Spec == Init /\ [][Next]_vars

(***************************************************************************)
(* Goroutines make progress, but for those that write: on a connection     *)
(* that lives a write may block for as long as the server does not read    *)
(* (openComplete says so of TCP flow control), and it ends for sure only   *)
(* when the socket is broken or has been closed.  Publishers may take      *)
(* Channel.m again and again and still do not lock out a goroutine that    *)
(* waits for it, since a sync.Mutex hands itself over to a waiter it has   *)
(* kept long: the steps that take it are strongly fair.  Nothing makes the *)
(* server read or answer, the application open or close a channel, or the  *)
(* connection fail, but a failure is noticed, and closeWith ends in a      *)
(* shutdown.                                                               *)
(***************************************************************************)
SocketClosed     == conn \in {"broken", "done"}
AppWrites(a)     == pc[a] \in {"openWrite", "closeWrite"}
PublishWrites(p) == ppc[p] = "write"
ReaderWrites     == \/ pc["reader"] = "writeCloseOk"
                    \/ /\ pc["reader"] = "idle" /\ in # <<>>
                       /\ channels[Head(in).id] = None /\ Head(in).m = "close"

Fairness ==
  /\ \A a \in Apps : WF_vars((open(a) \/ close(a)) /\ (AppWrites(a) => SocketClosed))
  /\ \A t \in Threads : SF_vars(closeChannel(t))
  /\ SF_vars(Reader /\ (ReaderWrites => SocketClosed)) /\ WF_vars(Shutter)
  /\ WF_vars(connClosed /\ (conn = "broken" \/ doomed))
  /\ \A p \in Publishers :
       WF_vars((PublishCheck(p) \/ PublishUnlock(p)) /\ (PublishWrites(p) => SocketClosed))

FairSpec == Spec /\ Fairness

-----------------------------------------------------------------------------
(***************************************************************************)
(* No id leaks and none is given out twice: as long as the connection      *)
(* lives, the ids in use are those with a registered Channel, which has    *)
(* that id (allocateChannel, releaseChannel on all of the paths to it).    *)
(***************************************************************************)
RegistryMatchesPool ==
  conn # "done" => /\ pool = {n \in Ids : channels[n] # None}
                   /\ \A n \in pool : id[channels[n]] = n

(***************************************************************************)
(* A Channel that is not closed keeps its registration: a second           *)
(* releaseChannel for an earlier Channel, by the reader or by Close, does  *)
(* not take away the one that has got its id since.                        *)
(***************************************************************************)
OpenIsRegistered ==
  \A o \in opened : ~closed[o] => conn = "done" \/ channels[id[o]] = o

(***************************************************************************)
(* A Publish that has found its Channel open writes on an id that still    *)
(* belongs to this Channel, although the server, Close and the connection  *)
(* may all be shutting it down: shutdown waits for Channel.m before the id *)
(* is released.                                                            *)
(***************************************************************************)
PublishOwnsId ==
  \A p \in Publishers :
    ppc[p] = "write" => conn = "done" \/ channels[id[pobj[p]]] = pobj[p]

(***************************************************************************)
(* Channel and Close return, whoever else opens, closes, publishes or      *)
(* shuts the connection down, and whenever the network fails: shutdown     *)
(* ends, and wakes all who wait for a reply.  What may hold them for ever: *)
(*   - while the connection lives, a server that does not read or answer;  *)
(*   - while it lives, an id that another Channel had before: the server   *)
(*     may still expect the close-ok of that one, and drops channel.open;  *)
(*   - a write with Channel.m taken that blocks when the connection is     *)
(*     shut down: shutdown waits for Channel.m before it closes the        *)
(*     socket, which alone would end the write.                            *)
(* The applications are interchangeable: one of them stands for all.       *)
(***************************************************************************)
Reused(o)       == \E q \in Channels : q < o /\ id[q] = id[o]
ServerStalls    == \/ out # <<>> \/ ReaderWrites
                   \/ \E a \in Apps : AppWrites(a)
                   \/ \E p \in Publishers : PublishWrites(p)
WritesWithMutex == pc["reader"] = "writeCloseOk" \/ \E p \in Publishers : PublishWrites(p)
CallsReturn ==
  LET a == CHOOSE a \in Apps : TRUE
  IN  \/ []<>(pc[a] \in {"idle", "own"})
      \/ <>[](conn = "up" /\ (ServerStalls \/ Reused(obj[a])))
      \/ <>[](conn = "locked" /\ WritesWithMutex)

(***************************************************************************)
(* The server of this model sends only what the protocol asks of it, so no *)
(* call is answered by a reply it cannot match.                            *)
(***************************************************************************)
NoCommandInvalid == \A a \in Apps : ret[a] # "ErrCommandInvalid"
=============================================================================
