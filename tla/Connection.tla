----------------------------- MODULE Connection -----------------------------
(***************************************************************************)
(* A connection from Open to its end (connection.go): the goroutine that   *)
(* opens it, the reader, the heartbeater, application goroutines that      *)
(* close it or renew its secret, and whoever runs shutdown.  Channels are  *)
(* left to ChannelRegistry; here shutdown only passes over them.           *)
(*                                                                         *)
(* Connection.m is held across steps by shutdown alone, so CmFree follows  *)
(* from body.  shutdown(err) marks the connection closed and enters the    *)
(* sync.Once; whoever comes first fixes the error, the others wait for the *)
(* body to end.  Marking and entering are one step.                        *)
(*                                                                         *)
(* Time.  The deadlines of the socket are state: rdl for reading, and wdl, *)
(* whether there is one for writing, which the heartbeater does not move.  *)
(* Their expiry is a read or a write that fails.  A deadline of the        *)
(* handshake or of CloseDeadline expires some time; one that the           *)
(* heartbeater has set only when the server has fallen silent, or when it  *)
(* can no longer be moved ("left").                                        *)
(***************************************************************************)
EXTENDS Tuning, FiniteSets

CONSTANTS Apps,       \* goroutines that call Close, CloseDeadline or UpdateSecret, once each
          Listeners,  \* chans passed to Connection.NotifyClose
          Blocks,     \* chans passed to Connection.NotifyBlocked
          Kinds,      \* the calls that applications make
          Scenarios,  \* what is dialled, with which Config, what the server proposes and
                      \* which of the things that its actions name may go wrong
          MaxAsync    \* bound: frames that the server sends without being asked

ASSUME NamesAssumption == /\ "closeWith" \notin Apps
                          /\ "heartbeater" \notin Listeners
                          /\ Listeners \cap Blocks = {}

\* The widths of ChannelMax, frame-max and heartbeat in the methods that carry them, of
\* Config.ChannelMax (uint16) and of a FrameSize that tune-ok does not cut (int to uint32);
\* the heartbeats of the application, which may be longer, are assumed to fit.
ASSUME ScenariosAssumption ==
  \A s \in Scenarios :
    /\ s.uri.heartbeat \in {Absent} \cup 0 .. maxHeartbeat
    /\ s.config.heartbeat \in Nat /\ s.config.heartbeat \div 1000 <= maxHeartbeat
    /\ s.uri.channelMax \in 0 .. maxChannelMax /\ s.config.channelMax \in 0 .. maxChannelMax
    /\ s.config.frameSize \in Nat
    /\ s.server.heartbeat \in 0 .. maxHeartbeat /\ s.server.channelMax \in 0 .. maxChannelMax
    /\ s.server.frameMax \in Nat

Callers == Apps \cup {"closeWith"}
Closes  == Listeners \cup {"heartbeater"}

VARIABLES
  op,         \* where Open is, or how it ended
  config,     \* the Config that DialConfig made
  offer,      \* what this server proposes
  tuned,      \* c.Config after openTune
  announced,  \* connection.tune-ok as the server got it
  closed,     \* c.closed
  body,       \* how far the function of c.destructor is
  shErr,      \* the error it was entered with, or "nil"
  errs,       \* c.errors: what is in it and is it closed
  lst, heard, \* lst[l], heard[l]: state of a NotifyClose listener, errors sent to it
  blk,        \* blk[b]: state of a NotifyBlocked listener
  rd,         \* where the reader is
  frame,      \* the frame it works on
  todo,       \* NotifyBlocked listeners that have not got it yet
  deadlines,  \* c.deadlines holds the socket
  rdl, wdl,   \* the read deadline of the socket; it has a write deadline
  hb,         \* the heartbeater
  spawned,    \* go c.shutdown of a failed send: not yet, pending, entered
  pc, kind, res, \* per caller: where it is, what it calls, what it got
  faults,     \* what may happen in this behaviour beside the plain course
  srv,        \* the server's end of the connection
  inbox,      \* frames on their way to the reader
  async,      \* how many of them nobody asked for
  answers,    \* how many close-ok the server has sent
  panicked    \* a send on a closed chan has ended the program

opVars   == <<op, config, offer, tuned, announced, faults>>
shVars   == <<closed, body, shErr>>
lisVars  == <<lst, heard, blk>>
rdVars   == <<rd, frame, todo>>
callVars == <<pc, kind, res>>
dlVars   == <<rdl, wdl>>
srvVars  == <<srv, inbox, async, answers>>
vars     == <<opVars, shVars, errs, lisVars, rdVars, deadlines, dlVars, hb, spawned,
              callVars, srvVars, panicked>>

Errors  == {"eof", "timeout", "write", "server", "unexpected"}
Results == Errors \cup {"none", "nil", "ErrClosed", "ErrCommandInvalid", "ErrDeadline"}
Replies == {"start", "secure", "tune", "open-ok", "close-ok", "secret-ok"}
Frames  == Replies \cup {"close", "blocked", "heartbeat", "content"}

Init == /\ op = "header"
        /\ \E s \in Scenarios : /\ config = DialConfig(s.uri, s.config)
                                /\ offer = s.server
                                /\ faults = s.faults
        /\ tuned = <<>> /\ announced = <<>>
        /\ closed = FALSE /\ body = "none" /\ shErr = "nil"
        /\ errs = [val |-> "none", closed |-> FALSE]
        /\ lst = [l \in Closes |-> "new"] /\ heard = [l \in Closes |-> <<>>]
        /\ blk = [b \in Blocks |-> "new"]
        /\ rd = "read" /\ frame = "none" /\ todo = {}
        /\ deadlines = FALSE /\ rdl = "handshake" /\ wdl = TRUE   \* DefaultDial
        /\ hb = "none" /\ spawned = "no"
        /\ pc = [c \in Callers |-> "idle"] /\ kind = [c \in Callers |-> "none"]
        /\ res = [c \in Callers |-> "none"]
        /\ srv = "up" /\ inbox = <<>> /\ async = 0 /\ answers = 0
        /\ panicked = FALSE

CmFree     == body \in {"none", "lock", "done"}
noNotify   == body = "done"
ConnClosed == body = "done"    \* c.conn is closed, and so is c.close
rpcClosed  == rd = "ended"

-----------------------------------------------------------------------------
(***************************************************************************)
(* The server.  It answers a method when it gets it.  It may refuse with a *)
(* connection.close, ask for a second round of authentication, leave any   *)
(* method without an answer (and be deaf to the rest, though its           *)
(* heartbeats go on), drop the connection or fall silent.                  *)
(***************************************************************************)
answer(f) == /\ inbox' = Append(inbox, f)
             /\ answers' = answers + (IF f = "close-ok" THEN 1 ELSE 0)
             /\ srv' = IF f = "close-ok" THEN "left" ELSE IF f = "close" THEN "closing" ELSE srv
             /\ UNCHANGED async

refuse == "close" \in faults /\ answer("close")

serverGets(m) ==
  \/ srv = "up" /\ m = "header" /\ answer("start")
  \/ srv = "up" /\ m = "start-ok" /\ (answer("tune") \/ refuse)
  \/ srv = "up" /\ m = "start-ok" /\ "secure" \in faults /\ answer("secure")
  \/ srv = "up" /\ m = "open" /\ (answer("open-ok") \/ refuse)
  \/ srv = "up" /\ m = "secret" /\ answer("secret-ok")
  \/ srv = "up" /\ m = "close" /\ answer("close-ok")
  \/ /\ srv = "up" /\ m \in {"header", "start-ok", "open", "secret", "close"}
     /\ "deaf" \in faults /\ srv' = "deaf"
     /\ UNCHANGED <<inbox, async, answers>>
  \/ srv = "closing" /\ m = "close-ok" /\ srv' = "left" /\ UNCHANGED <<inbox, async, answers>>
  \/ srv = "up" /\ m \in {"tune-ok", "heartbeat"} /\ UNCHANGED srvVars
  \/ srv = "closing" /\ m # "close-ok" /\ UNCHANGED srvVars
  \/ srv \in {"deaf", "left", "gone", "silent"} /\ UNCHANGED srvVars

\* Frames that nobody asked for: heartbeats once the limits are agreed, the
\* rest once the connection is open, content on channel 0 at most once.
ServerSends(f) ==
  /\ srv \in {"up", "deaf"} /\ async < MaxAsync
  /\ f \in (IF announced = <<>> THEN {} ELSE {"heartbeat"})
           \cup (IF op = "opened" /\ srv = "up" THEN {"blocked", "content", "close"} \cap faults ELSE {})
  /\ f = "content" => kind["closeWith"] = "none" /\ \A i \in DOMAIN inbox : inbox[i] # "content"
  /\ inbox' = Append(inbox, f) /\ async' = async + 1
  /\ srv' = IF f = "close" THEN "closing" ELSE srv
  /\ UNCHANGED <<opVars, shVars, errs, lisVars, rdVars, deadlines, dlVars, hb, spawned, callVars,
                 answers, panicked>>

ServerGone ==
  /\ \/ srv = "left" /\ srv' = "gone"
     \/ srv = "up" /\ "drop" \in faults /\ srv' = "gone"
     \/ srv = "up" /\ "silent" \in faults /\ srv' = "silent"
  /\ UNCHANGED <<opVars, shVars, errs, lisVars, rdVars, deadlines, dlVars, hb, spawned, callVars,
                 inbox, async, answers, panicked>>

-----------------------------------------------------------------------------
(***************************************************************************)
(* Connection.send.  ErrClosed when the connection is closed; a write that *)
(* fails, be it because shutdown has closed the socket since or because    *)
(* the write deadline has passed, starts a goroutine that shuts the        *)
(* connection down (one that comes when another shutdown has begun only    *)
(* waits for it, and is left out).                                         *)
(***************************************************************************)
\* (Mutated form: DefaultDial and CloseDeadline set a deadline for reading only.)
WriteMayFailUntimed == ConnClosed \/ (~closed /\ srv \in {"gone", "silent"})

WriteMayFail == ConnClosed \/ (~closed /\ (srv \in {"gone", "silent"} \/ wdl))

sendClosed == closed /\ UNCHANGED <<spawned, srvVars>>

\* (Mutated form: nobody is told.)
sendFailsQuietly == /\ WriteMayFail
                    /\ UNCHANGED <<spawned, srvVars>>

sendFails == /\ WriteMayFail
             /\ spawned' = IF spawned = "no" /\ ~closed THEN "pending" ELSE spawned
             /\ UNCHANGED srvVars

sendOk(m) == /\ ~closed
             /\ serverGets(m)
             /\ UNCHANGED spawned

\* shutdown(e): closed is set, and the first to come fixes the error.
shutdownEnter(e) ==
  /\ closed' = TRUE
  /\ IF body = "none" THEN body' = "lock" /\ shErr' = e ELSE UNCHANGED <<body, shErr>>

sendShutdown ==
  /\ spawned = "pending" /\ spawned' = "over"
  /\ shutdownEnter("write")
  /\ UNCHANGED <<opVars, errs, lisVars, rdVars, deadlines, dlVars, hb, callVars, srvVars, panicked>>

\* The function that c.destructor runs once.
shutdownLock ==
  /\ body = "lock" /\ body' = "tell"
  /\ UNCHANGED <<opVars, closed, shErr, errs, lisVars, rdVars, deadlines, dlVars, hb, spawned,
                 callVars, srvVars, panicked>>

\* The listeners are told, then c.errors; then all of these chans are closed.
shutdownTell ==
  /\ body = "tell" /\ body' = "channels"
  /\ heard' = [l \in Closes |-> IF lst[l] = "open" /\ shErr # "nil"
                                THEN Append(heard[l], shErr) ELSE heard[l]]
  /\ lst' = [l \in Closes |-> IF lst[l] = "open" THEN "closed" ELSE lst[l]]
  /\ blk' = [b \in Blocks |-> IF blk[b] = "open" THEN "closed" ELSE blk[b]]
  /\ errs' = [val |-> IF shErr # "nil" THEN shErr ELSE errs.val, closed |-> TRUE]
  /\ UNCHANGED <<opVars, closed, shErr, rdVars, deadlines, dlVars, hb, spawned, callVars, srvVars,
                 panicked>>

\* The channels are shut down (see ChannelRegistry), the socket and c.close closed.
shutdownFinish ==
  /\ body = "channels" /\ body' = "done"
  /\ UNCHANGED <<opVars, closed, shErr, errs, lisVars, rdVars, deadlines, dlVars, hb, spawned,
                 callVars, srvVars, panicked>>

-----------------------------------------------------------------------------
(***************************************************************************)
(* Connection.call: what its select may yield to whoever waits for want.   *)
(* c.rpc is closed when the reader has ended; the zero value that comes    *)
(* out of it matches no type.                                              *)
(***************************************************************************)
callYields(want, r) ==
  \/ /\ errs.val # "none" /\ r = errs.val
     /\ errs' = [errs EXCEPT !.val = "none"] /\ UNCHANGED rdVars
  \/ /\ errs.val = "none" /\ errs.closed /\ r = "ErrClosed"
     /\ UNCHANGED <<errs, rdVars>>
  \/ /\ rpcClosed /\ r = "ErrCommandInvalid"
     /\ UNCHANGED <<errs, rdVars>>
  \/ /\ rd = "rpc" /\ rd' = "deadline"
     /\ r = IF frame = want THEN "nil" ELSE "ErrCommandInvalid"
     /\ UNCHANGED <<errs, frame, todo>>

(***************************************************************************)
(* Open, one action per step of the handshake.                             *)
(***************************************************************************)
openSend(from, m, to, err) ==
  /\ op = from
  /\ \/ sendOk(m) /\ op' = to
     \/ (sendFails \/ sendClosed) /\ op' = err
  /\ UNCHANGED <<config, offer, faults, tuned, shVars, errs, lisVars, rdVars, deadlines, dlVars, hb,
                 callVars, panicked>>

openWait(from, want, to, err) ==
  /\ op = from
  /\ \E r \in Results : callYields(want, r) /\ op' = IF r = "nil" THEN to ELSE err
  /\ UNCHANGED <<config, offer, faults, tuned, announced, shVars, lisVars, deadlines, dlVars, hb, spawned,
                 callVars, srvVars, panicked>>

open == openSend("header", "header", "start", "failed") /\ UNCHANGED announced

openStart ==
  openWait("start", "start",
           IF SharedMechanisms(config.sasl, offer.mechanisms) = {} THEN "ErrSASL" ELSE "start-ok",
           "failed")

openTune == \/ openSend("start-ok", "start-ok", "tune", "ErrCredentials") /\ UNCHANGED announced
            \/ openWait("tune", "tune", "limits", "ErrCredentials")

openTuneSetLimits ==
  /\ op = "limits" /\ CmFree
  /\ tuned' = openTuneLimits(config, offer)
  /\ op' = "notify"
  /\ UNCHANGED <<config, offer, faults, announced, shVars, errs, lisVars, rdVars, deadlines, dlVars, hb,
                 spawned, callVars, srvVars, panicked>>

\* The heartbeater listens for the end.  (Mutated form: it is not registered.)
openTuneHeartbeaterAlone ==
  /\ op = "notify" /\ CmFree
  /\ hb' = "run" /\ op' = "tune-ok"
  /\ UNCHANGED <<config, offer, faults, tuned, announced, shVars, errs, lisVars, rdVars, deadlines,
                 dlVars, spawned, callVars, srvVars, panicked>>

openTuneHeartbeater ==
  /\ op = "notify" /\ CmFree
  /\ lst' = [lst EXCEPT !["heartbeater"] = IF noNotify THEN "closed" ELSE "open"]
  /\ hb' = "run" /\ op' = "tune-ok"
  /\ UNCHANGED <<config, offer, faults, tuned, announced, shVars, errs, heard, blk, rdVars, deadlines,
                 dlVars, spawned, callVars, srvVars, panicked>>

openTuneOk == /\ openSend("tune-ok", "tune-ok", "open", "failed")
              /\ announced' = IF op' = "open" THEN tuneOk(tuned) ELSE announced

openVhost == \/ openSend("open", "open", "open-ok", "ErrVhost") /\ UNCHANGED announced
             \/ openWait("open-ok", "open-ok", "complete", "ErrVhost")

\* A transport that the application has supplied may not let its deadlines be set: the
\* fault "refuses".  Here the error is ignored.
RefusesDeadline == ConnClosed \/ "refuses" \in faults

openComplete ==
  /\ op = "complete" /\ op' = "opened"
  /\ \/ ~ConnClosed /\ rdl' = "none" /\ wdl' = FALSE
     \/ RefusesDeadline /\ UNCHANGED dlVars
  /\ UNCHANGED <<config, offer, faults, tuned, announced, shVars, errs, lisVars, rdVars, deadlines, hb,
                 spawned, callVars, srvVars, panicked>>

Opener == open \/ openStart \/ openTune \/ openTuneSetLimits \/ openTuneHeartbeater
          \/ openTuneOk \/ openVhost \/ openComplete

-----------------------------------------------------------------------------
(***************************************************************************)
(* The reader: ReadFrame, demux, dispatch0.  The buffered part of the      *)
(* stream is still read after the socket was closed.                       *)
(***************************************************************************)
readFrame ==
  /\ rd = "read" /\ inbox # <<>>
  /\ frame' = Head(inbox) /\ inbox' = Tail(inbox)
  /\ rd' = CASE frame' \in Replies -> "rpc"
             [] frame' = "close"   -> "close-ok"
             [] frame' = "blocked" -> "blocks"
             [] OTHER              -> "deadline"
  /\ todo' = IF frame' = "blocked" THEN {b \in Blocks : blk[b] # "new"} ELSE {}
  /\ kind' = IF frame' = "content" THEN [kind EXCEPT !["closeWith"] = "closeWith"] ELSE kind
  /\ UNCHANGED <<opVars, shVars, errs, lisVars, deadlines, dlVars, hb, spawned, pc, res, srv, async,
                 answers, panicked>>

ReadErrors == {e \in {"eof", "timeout"} :
                 \/ ConnClosed
                 \/ e = "eof" /\ srv = "gone" /\ inbox = <<>>
                 \/ e = "timeout" /\ rdl \in {"handshake", "close", "left"}
                 \/ e = "timeout" /\ rdl = "heartbeat" /\ srv = "silent" /\ inbox = <<>>}

readError ==
  /\ rd = "read" /\ rd' = "failing"
  /\ \E e \in ReadErrors : shutdownEnter(e)
  /\ UNCHANGED <<opVars, errs, lisVars, frame, todo, deadlines, dlVars, hb, spawned, callVars,
                 srvVars, panicked>>

\* dispatch0 of connection.close: close-ok first, then shutdown.
dispatchCloseOk ==
  /\ rd = "close-ok" /\ rd' = "enter"
  /\ sendOk("close-ok") \/ sendFails \/ sendClosed
  /\ UNCHANGED <<opVars, shVars, errs, lisVars, frame, todo, deadlines, dlVars, hb, callVars, panicked>>

dispatchShutdown ==
  /\ rd = "enter" /\ rd' = "shutdown"
  /\ shutdownEnter("server")
  /\ UNCHANGED <<opVars, errs, lisVars, frame, todo, deadlines, dlVars, hb, spawned, callVars,
                 srvVars, panicked>>

\* dispatch0 of connection.blocked and connection.unblocked: no lock is held,
\* and a chan that shutdown has closed is still in c.blocks.
dispatchBlocked ==
  /\ rd = "blocks"
  /\ \/ /\ todo = {} /\ rd' = "deadline"
        /\ UNCHANGED <<todo, panicked>>
     \/ \E b \in todo : /\ todo' = todo \ {b}
                        /\ panicked' = (blk[b] = "closed")
                        /\ UNCHANGED rd
  /\ UNCHANGED <<opVars, shVars, errs, lisVars, frame, deadlines, dlVars, hb, spawned, callVars, srvVars>>

\* The other case of the select in dispatch0.  (Mutated form: there is none.)
dispatchAbandonNever == FALSE /\ UNCHANGED vars

dispatchAbandon ==
  /\ rd = "rpc" /\ ConnClosed /\ rd' = "deadline"
  /\ UNCHANGED <<opVars, shVars, errs, lisVars, frame, todo, deadlines, dlVars, hb, spawned, callVars,
                 srvVars, panicked>>

\* After each frame, a send that does not wait.
readerDeadline ==
  /\ rd = "deadline"
  /\ rd' = "read" /\ deadlines' = TRUE
  /\ UNCHANGED <<opVars, shVars, errs, lisVars, frame, todo, dlVars, hb, spawned, callVars, srvVars,
                 panicked>>

\* shutdown returns to the reader, which goes on or, after an error, ends.
readerShutdown ==
  /\ body = "done"
  /\ \/ rd = "shutdown" /\ rd' = "deadline"
     \/ rd = "failing" /\ rd' = "ended"
  /\ UNCHANGED <<opVars, shVars, errs, lisVars, frame, todo, deadlines, dlVars, hb, spawned, callVars,
                 srvVars, panicked>>

ReadOn == readFrame \/ dispatchCloseOk \/ dispatchShutdown \/ dispatchBlocked
          \/ dispatchAbandon \/ readerDeadline \/ readerShutdown
Reader == ReadOn \/ readError

-----------------------------------------------------------------------------
(***************************************************************************)
(* The heartbeater.  A heartbeat that is written changes nothing here.     *)
(***************************************************************************)
heartbeaterTick ==
  /\ hb = "run" /\ tuned.heartbeat > 0
  /\ sendFails \/ sendClosed
  /\ hb' = "ended"
  /\ UNCHANGED <<opVars, shVars, errs, lisVars, rdVars, deadlines, dlVars, callVars, panicked>>

\* A frame has been read: the deadline moves.  (Mutated form: it does not.)
heartbeaterDeadlineKept ==
  /\ hb = "run" /\ deadlines /\ deadlines' = FALSE
  /\ UNCHANGED <<opVars, shVars, errs, lisVars, rdVars, dlVars, hb, spawned, callVars, srvVars, panicked>>

\* SetReadDeadline may fail: with a *net.OpError the heartbeater goes on, with another error
\* it ends, and starts no shutdown.  The deadline stays as it was.
heartbeaterDeadline ==
  /\ hb = "run" /\ deadlines /\ deadlines' = FALSE
  /\ \/ tuned.heartbeat = 0 /\ UNCHANGED <<rdl, hb>>
     \/ tuned.heartbeat > 0 /\ ~ConnClosed /\ rdl' = "heartbeat" /\ UNCHANGED hb
     \/ /\ tuned.heartbeat > 0 /\ RefusesDeadline
        /\ rdl' = IF rdl = "heartbeat" THEN "left" ELSE rdl
        /\ hb' \in {"run", "quit"}
  /\ UNCHANGED <<opVars, shVars, errs, lisVars, rdVars, wdl, spawned, callVars, srvVars, panicked>>

heartbeaterDone ==
  /\ hb = "run" /\ hb' = "ended"
  /\ lst["heartbeater"] = "closed" \/ heard["heartbeater"] # <<>>
  /\ UNCHANGED <<opVars, shVars, errs, lisVars, rdVars, deadlines, dlVars, spawned, callVars, srvVars,
                 panicked>>

Heartbeater == heartbeaterTick \/ heartbeaterDeadline \/ heartbeaterDone

-----------------------------------------------------------------------------
(***************************************************************************)
(* Close, CloseDeadline, UpdateSecret of an application and closeWith of a *)
(* goroutine that dispatch0 starts: IsClosed, the call, and, but for       *)
(* UpdateSecret, the deferred shutdown.                                    *)
(***************************************************************************)
begin(c, k) ==
  /\ pc[c] = "idle" /\ op = "opened"
  /\ IF c = "closeWith" THEN kind[c] = k ELSE k \in Kinds
  /\ kind' = [kind EXCEPT ![c] = k]
  /\ IF closed THEN /\ pc' = [pc EXCEPT ![c] = "done"]
                    /\ res' = [res EXCEPT ![c] = "ErrClosed"]
               ELSE /\ pc' = [pc EXCEPT ![c] = IF k = "CloseDeadline" THEN "deadline" ELSE "send"]
                    /\ UNCHANGED res
  /\ UNCHANGED <<opVars, shVars, errs, lisVars, rdVars, deadlines, dlVars, hb, spawned, srvVars, panicked>>

Request(c)  == IF kind[c] = "UpdateSecret" THEN "secret" ELSE "close"
Wanted(c)   == IF kind[c] = "UpdateSecret" THEN "secret-ok" ELSE "close-ok"
Deferred(c) == IF kind[c] = "UpdateSecret" THEN "done" ELSE "shutdown"

\* CloseDeadline sets the deadlines of the socket; a closed one refuses.  (Mutated form: it
\* sets the one for reading only, which the heartbeater moves.)
setReadDeadline(c) ==
  /\ pc[c] = "deadline"
  /\ \/ /\ ~ConnClosed /\ rdl' = "close" /\ UNCHANGED <<wdl, res>>
        /\ pc' = [pc EXCEPT ![c] = "send"]
     \/ /\ RefusesDeadline /\ UNCHANGED dlVars
        /\ res' = [res EXCEPT ![c] = "ErrDeadline"]
        /\ pc' = [pc EXCEPT ![c] = "shutdown"]
  /\ UNCHANGED <<opVars, shVars, errs, lisVars, rdVars, deadlines, hb, spawned, kind, srvVars, panicked>>

setDeadline(c) ==
  /\ pc[c] = "deadline"
  /\ \/ /\ ~ConnClosed /\ rdl' = "close" /\ wdl' = TRUE /\ UNCHANGED res
        /\ pc' = [pc EXCEPT ![c] = "send"]
     \/ /\ RefusesDeadline /\ UNCHANGED dlVars
        /\ res' = [res EXCEPT ![c] = "ErrDeadline"]
        /\ pc' = [pc EXCEPT ![c] = "shutdown"]
  /\ UNCHANGED <<opVars, shVars, errs, lisVars, rdVars, deadlines, hb, spawned, kind, srvVars, panicked>>

callSend(c) ==
  /\ pc[c] = "send"
  /\ \/ /\ sendOk(Request(c)) /\ UNCHANGED res
        /\ pc' = [pc EXCEPT ![c] = "wait"]
     \/ /\ sendFails /\ res' = [res EXCEPT ![c] = "write"]
        /\ pc' = [pc EXCEPT ![c] = Deferred(c)]
     \/ /\ sendClosed /\ res' = [res EXCEPT ![c] = "ErrClosed"]
        /\ pc' = [pc EXCEPT ![c] = Deferred(c)]
  /\ UNCHANGED <<opVars, shVars, errs, lisVars, rdVars, deadlines, dlVars, hb, kind, panicked>>

\* (Mutated form: any reply will do.)
callWaitAny(c) ==
  /\ pc[c] = "wait"
  /\ \E r \in Results : /\ callYields(frame, r)
                        /\ res' = [res EXCEPT ![c] = r]
  /\ pc' = [pc EXCEPT ![c] = Deferred(c)]
  /\ UNCHANGED <<opVars, shVars, lisVars, deadlines, dlVars, hb, spawned, kind, srvVars, panicked>>

callWait(c) ==
  /\ pc[c] = "wait"
  /\ \E r \in Results : /\ callYields(Wanted(c), r)
                        /\ res' = [res EXCEPT ![c] = r]
  /\ pc' = [pc EXCEPT ![c] = Deferred(c)]
  /\ UNCHANGED <<opVars, shVars, lisVars, deadlines, dlVars, hb, spawned, kind, srvVars, panicked>>

deferredShutdown(c) ==
  /\ \/ /\ pc[c] = "shutdown" /\ pc' = [pc EXCEPT ![c] = "closing"]
        /\ shutdownEnter(IF c = "closeWith" THEN "unexpected" ELSE "nil")
     \/ /\ pc[c] = "closing" /\ body = "done" /\ pc' = [pc EXCEPT ![c] = "done"]
        /\ UNCHANGED shVars
  /\ UNCHANGED <<opVars, errs, lisVars, rdVars, deadlines, dlVars, hb, spawned, kind, res, srvVars,
                 panicked>>

GoesOn(c) == setDeadline(c) \/ callSend(c) \/ callWait(c) \/ deferredShutdown(c)

\* Left out of the behaviours that are not about it; so is the next one.
NotifyClose(l) ==
  /\ "listener" \in faults /\ op = "opened" /\ lst[l] = "new" /\ CmFree
  /\ lst' = [lst EXCEPT ![l] = IF noNotify THEN "closed" ELSE "open"]
  /\ UNCHANGED <<opVars, shVars, errs, heard, blk, rdVars, deadlines, dlVars, hb, spawned, callVars,
                 srvVars, panicked>>

NotifyBlocked(b) ==
  /\ "blocked" \in faults /\ op = "opened" /\ blk[b] = "new" /\ CmFree
  /\ blk' = [blk EXCEPT ![b] = IF noNotify THEN "closed" ELSE "open"]
  /\ UNCHANGED <<opVars, shVars, errs, lst, heard, rdVars, deadlines, dlVars, hb, spawned, callVars,
                 srvVars, panicked>>

Shutdown == sendShutdown \/ shutdownLock \/ shutdownTell \/ shutdownFinish

Next == /\ ~panicked
        /\ \/ \E f \in Frames : ServerSends(f)
           \/ ServerGone
           \/ Opener \/ Reader \/ Heartbeater \/ Shutdown
           \/ \E c \in Callers, k \in Kinds \cup {"closeWith"} : begin(c, k)
           \/ \E c \in Callers : GoesOn(c)
           \/ \E l \in Listeners : NotifyClose(l)
           \/ \E b \in Blocks : NotifyBlocked(b)

Spec == Init /\ [][Next]_vars

\* Goroutines that can go on do, deadlines expire (that for writing at a tick of the
\* heartbeater), and a server that has said close-ok drops the connection.  Nothing
\* obliges applications to call or the server to fail.
FairSpec == /\ Spec
            /\ WF_vars(Opener /\ ~panicked)
            /\ WF_vars(ReadOn /\ ~panicked) /\ WF_vars(readError /\ ~panicked)
            /\ WF_vars(heartbeaterDeadline /\ ~panicked) /\ WF_vars(heartbeaterDone /\ ~panicked)
            /\ WF_vars(heartbeaterTick /\ wdl /\ ~panicked)
            /\ WF_vars(Shutdown /\ ~panicked)
            /\ WF_vars(ServerGone /\ srv = "left" /\ ~panicked)
            /\ \A c \in Callers : WF_vars(GoesOn(c) /\ ~panicked)
            /\ WF_vars(begin("closeWith", "closeWith") /\ ~panicked)
-----------------------------------------------------------------------------
(***************************************************************************)
(* Properties.  A program that has panicked does nothing more.             *)
(***************************************************************************)

\* Close, CloseDeadline and closeWith return nil only for a close-ok that they took
\* themselves: it is not still on its way.  They and UpdateSecret share the one c.rpc
\* (Connection.call).
NilMeansAnswered ==
  LET taken   == {c \in Callers : res[c] = "nil" /\ kind[c] # "UpdateSecret"}
      unread  == {i \in DOMAIN inbox : inbox[i] = "close-ok"}
      offered == IF rd = "rpc" /\ frame = "close-ok" THEN 1 ELSE 0
  IN  Cardinality(taken) + Cardinality(unread) + offered <= answers

\* An open connection is watched: its heartbeater runs, or the write that ended it has
\* started a shutdown.  Nothing else ends it but a transport that refuses a read deadline
\* with an error that is no *net.OpError (heartbeater, send).
WatchedWhenOpen ==
  op = "opened" /\ ~closed =>
    hb = "run" \/ spawned = "pending" \/ (hb = "quit" /\ "refuses" \in faults)

\* Client and server go by the same limits: tune-ok carries what the client uses, no limit
\* exceeds one that either side has set, the client opens at least one channel, and there
\* are heartbeats at least as often as a side asks for (openTune).  Nothing is claimed of
\* heartbeat=0 in the URI: DialConfig says that it turns them off, pick takes the server's.
Tightest(limit, client, server) ==
  \A x \in {client, server} \ {0} : limit \in 1 .. x
TuneAgreed ==
  announced # <<>> =>
    /\ announced.channelMax = tuned.channelMax /\ announced.channelMax \in 1 .. maxChannelMax
    /\ announced.frameMax = tuned.frameSize /\ announced.heartbeat = tuned.heartbeat
    /\ Tightest(tuned.channelMax, config.channelMax, offer.channelMax)
    /\ Tightest(tuned.frameSize, config.frameSize, offer.frameMax)
    /\ config.heartbeat > 0 => Tightest(tuned.heartbeat, config.heartbeat \div 1000, offer.heartbeat)

\* Open comes to an end, also when the server leaves a method of the handshake without an
\* answer: a deadline of DefaultDial ends the wait.  If the server goes on sending heartbeats,
\* so that the heartbeater moves the read deadline, it is the one for writing, which the
\* heartbeater's own next frame meets.
OpenReturns ==
  panicked \/ op \in {"opened", "ErrSASL", "ErrCredentials", "ErrVhost", "failed"}
OpenEnds == <>OpenReturns

\* A handshake that fails leaves no socket and no goroutine behind for long, though
\* nothing in Open closes them.
FailedOpenCleansUp ==
  op \in {"ErrSASL", "ErrCredentials", "ErrVhost", "failed"}
    ~> panicked \/ (ConnClosed /\ rd = "ended" /\ hb # "run")

\* CloseDeadline returns whatever the server does or leaves undone, although the heartbeater
\* may move its read deadline.  Close and UpdateSecret return unless the server is alive and
\* does not answer, or has fallen silent and the socket has no deadline.  Who took which reply
\* and what came first, reply or shutdown, does not matter (call, shutdown, reader).
Unnoticed == srv = "silent" /\ rdl = "none" /\ rd = "read" /\ inbox = <<>> /\ (deadlines => hb # "run")
CallsReturn ==
  \A c \in Apps :
    pc[c] \notin {"idle", "done"} ~>
      panicked \/ pc[c] = "done" \/ (kind[c] # "CloseDeadline" /\ (srv = "deaf" \/ Unnoticed))

\* Once the connection is closed shutdown runs to its end, and so do the reader and
\* the heartbeater, wherever they were (dispatch0, reader, heartbeater).
GoroutinesEnd == closed ~> panicked \/ (ConnClosed /\ rd = "ended" /\ hb # "run")

\* With heartbeats a server that falls silent is noticed, provided one frame was read
\* since openComplete cleared the deadline and the transport did not refuse the deadline that
\* followed (reader, heartbeater).
SilentDetected ==
  (/\ op = "opened" /\ srv = "silent" /\ tuned.heartbeat > 0
   /\ rdl # "none" \/ deadlines \/ inbox # <<>>)
    ~> panicked \/ closed \/ ("refuses" \in faults /\ rdl = "none")
=============================================================================
