------------------------------ MODULE Confirms ------------------------------
(***************************************************************************)
(* Publisher confirms (confirms.go, and the parts of channel.go that drive *)
(* it): a channel in confirm mode, from the moment Channel.Confirm has     *)
(* returned.  Publishing goroutines number their messages and send them,   *)
(* the connection's reader goroutine resequences the acknowledgements of   *)
(* the server and broadcasts them to the listeners of NotifyPublish, and   *)
(* some goroutine shuts the channel down.                                  *)
(*                                                                         *)
(* Locks.  Channel.m is chM.  confirms.m is held by the reader for the     *)
(* whole of One and Multiple, and confirms.publishedMut while it is in     *)
(* resequence, so both follow from rd; every other critical section under  *)
(* them cannot block and is one step.  The reader blocks on a listener     *)
(* that is full, with those locks held.                                    *)
(***************************************************************************)
EXTENDS Integers, Sequences, FiniteSets

CONSTANTS Publishers,   \* goroutines that publish on the channel
          Listeners,    \* chans passed to NotifyPublish, each registered once
          Cap,          \* the capacity of every listener
          MaxPublish,   \* bound: how often Publish is called
          LazyReceiver  \* the application receives only when all publishing is done

ASSUME CapAssumption == Cap \in Nat
ASSUME LazyAssumption == LazyReceiver \in BOOLEAN
ASSUME PublisherAssumption == "none" \notin Publishers /\ "shutdown" \notin Publishers

VARIABLES
  published,   \* confirms.published
  expecting,   \* confirms.expecting
  sequencer,   \* confirms.sequencer: acknowledgements that came out of order
  deferred,    \* the tags in deferredConfirmations.confirmations
  resolved,    \* what DeferredConfirmation.Wait returned, as tag and ack
  listeners,   \* confirms.listeners (in no order)
  chM,         \* the holder of Channel.m
  pc,          \* pc[p]: where publisher p is in PublishWithDeferredConfirm
  attempts,    \* how often Publish was called
  rd,          \* where the reader is in confirms.go
  cur,         \* the acknowledgement the reader works on
  conf,        \* the Confirmation it is broadcasting
  todo,        \* the listeners that have not got conf yet
  shut,        \* how far Channel.shutdown has come
  lstate,      \* lstate[l]: is the listener registered, has it been closed
  base,        \* base[l]: confirms.expecting when l was registered
  sent,        \* sent[l]: every Confirmation sent on l
  taken,       \* taken[l]: how many of them the application has received
  wireUp,      \* writing on the connection still succeeds
  wire,        \* the client's tags of the publishings the server got, in order
  verdict,     \* verdict[i]: what the server decided on the i-th of them
  inbox        \* acknowledgements on their way to the reader

confVars == <<published, expecting, sequencer, deferred, resolved, listeners>>
readVars == <<rd, cur, conf, todo>>
pubVars  == <<chM, pc, attempts>>
lisVars  == <<lstate, base, sent, taken>>
srvVars  == <<wire, verdict, inbox>>
vars     == <<confVars, readVars, pubVars, lisVars, srvVars, shut, wireUp>>

Confirmation == [tag : Nat, ack : BOOLEAN]
Message      == [tag : Nat, ack : BOOLEAN, multiple : BOOLEAN]

TypeOK ==
  /\ published \in Nat /\ expecting \in Nat \ {0}
  /\ sequencer \subseteq Confirmation
  /\ deferred \subseteq Nat
  /\ resolved \subseteq Confirmation
  /\ listeners \subseteq Listeners /\ todo \subseteq Listeners
  /\ chM \in Publishers \cup {"none", "shutdown"}
  /\ pc \in [Publishers -> {"idle", "waiting", "locked", "counted", "sending", "failed"}]
  /\ attempts \in Nat
  /\ rd \in {"idle", "one", "multiple", "resequence"}
  /\ cur \in Message /\ conf \in Confirmation
  /\ shut \in {"open", "closed", "locked", "done"}
  /\ lstate \in [Listeners -> {"new", "open", "closed"}]
  /\ base \in [Listeners -> Nat]
  /\ sent \in [Listeners -> Seq(Confirmation)]
  /\ taken \in [Listeners -> Nat]
  /\ wireUp \in BOOLEAN
  /\ wire \in Seq(Nat)
  /\ verdict \in Seq({"none", "ack", "nack"})
  /\ inbox \in Seq(Message)

NoConfirmation == [tag |-> 0, ack |-> FALSE]
NoMessage      == [tag |-> 0, ack |-> FALSE, multiple |-> FALSE]

newConfirms == /\ published = 0 /\ expecting = 1
               /\ sequencer = {} /\ deferred = {} /\ resolved = {}
               /\ listeners = {}

Init == /\ newConfirms
        /\ chM = "none" /\ pc = [p \in Publishers |-> "idle"] /\ attempts = 0
        /\ rd = "idle" /\ cur = NoMessage /\ conf = NoConfirmation /\ todo = {}
        /\ shut = "open" /\ wireUp = TRUE
        /\ lstate = [l \in Listeners |-> "new"]
        /\ base = [l \in Listeners |-> 0]
        /\ sent = [l \in Listeners |-> <<>>]
        /\ taken = [l \in Listeners |-> 0]
        /\ wire = <<>> /\ verdict = <<>> /\ inbox = <<>>

\* Channel.IsClosed
IsClosed == shut # "open"

\* confirms.m and confirms.publishedMut are free.
ConfirmsFree  == rd = "idle"
PublishedFree == rd # "resequence"

\* A lazy application receives nothing before its last Publish has returned.
MayReceive == LazyReceiver => /\ attempts = MaxPublish
                              /\ \A p \in Publishers : pc[p] = "idle"

-----------------------------------------------------------------------------
(***************************************************************************)
(* PublishWithDeferredConfirm by goroutine p.                              *)
(***************************************************************************)
Publish(p) ==
  /\ pc[p] = "idle" /\ attempts < MaxPublish
  /\ pc' = [pc EXCEPT ![p] = "waiting"]
  /\ attempts' = attempts + 1
  /\ UNCHANGED <<confVars, readVars, chM, lisVars, srvVars, shut, wireUp>>

PublishLock(p) ==
  /\ pc[p] = "waiting" /\ chM = "none"
  /\ chM' = p
  /\ pc' = [pc EXCEPT ![p] = "locked"]
  /\ UNCHANGED <<confVars, readVars, attempts, lisVars, srvVars, shut, wireUp>>

\* confirms.publish and deferredConfirmations.Add
publish(p) ==
  /\ pc[p] = "locked"
  /\ PublishedFree
  /\ published' = published + 1
  /\ deferred' = deferred \cup {published'}
  /\ pc' = [pc EXCEPT ![p] = "counted"]
  /\ UNCHANGED <<expecting, sequencer, resolved, listeners, chM, attempts,
                 readVars, lisVars, srvVars, shut, wireUp>>

\* Channel.send and the same test in sendOpen: a closed channel is left to
\* sendClosed, which refuses basic.publish.
send(p) ==
  /\ pc[p] = "counted"
  /\ pc' = [pc EXCEPT ![p] = IF IsClosed THEN "failed" ELSE "sending"]
  /\ UNCHANGED <<confVars, readVars, chM, attempts, lisVars, srvVars, shut, wireUp>>

\* The frames are written, the server gets the message, and Channel.m is
\* released.  The channel may have been marked closed since the test.
sendOpen(p) ==
  /\ pc[p] = "sending" /\ wireUp
  /\ wire' = Append(wire, published)
  /\ verdict' = Append(verdict, "none")
  /\ chM' = "none"
  /\ pc' = [pc EXCEPT ![p] = "idle"]
  /\ UNCHANGED <<confVars, readVars, attempts, lisVars, inbox, shut, wireUp>>

\* The connection is down or, while it is up, the message cannot be encoded.
sendFails(p) ==
  /\ pc[p] = "sending"
  /\ pc' = [pc EXCEPT ![p] = "failed"]
  /\ UNCHANGED <<confVars, readVars, chM, attempts, lisVars, srvVars, shut, wireUp>>

(***************************************************************************)
(* confirms.unpublish and deferredConfirmations.remove, then Channel.m is  *)
(* released.  (Mutated forms: the DeferredConfirmation stays; the counter  *)
(* stays; Channel.m stays locked.)                                         *)
(***************************************************************************)
unpublishOnlyCounts(p) ==
  /\ pc[p] = "failed" /\ PublishedFree
  /\ published' = published - 1
  /\ chM' = "none"
  /\ pc' = [pc EXCEPT ![p] = "idle"]
  /\ UNCHANGED <<expecting, sequencer, deferred, resolved, listeners, attempts,
                 readVars, lisVars, srvVars, shut, wireUp>>

unpublishOnlyRemoves(p) ==
  /\ pc[p] = "failed" /\ PublishedFree
  /\ deferred' = deferred \ {published}
  /\ chM' = "none"
  /\ pc' = [pc EXCEPT ![p] = "idle"]
  /\ UNCHANGED <<published, expecting, sequencer, resolved, listeners, attempts,
                 readVars, lisVars, srvVars, shut, wireUp>>

unpublishStaysLocked(p) ==
  /\ pc[p] = "failed" /\ PublishedFree
  /\ deferred' = deferred \ {published}
  /\ published' = published - 1
  /\ pc' = [pc EXCEPT ![p] = "idle"]
  /\ UNCHANGED <<expecting, sequencer, resolved, listeners, chM, attempts,
                 readVars, lisVars, srvVars, shut, wireUp>>

unpublish(p) ==
  /\ pc[p] = "failed" /\ PublishedFree
  /\ deferred' = deferred \ {published}
  /\ published' = published - 1
  /\ chM' = "none"
  /\ pc' = [pc EXCEPT ![p] = "idle"]
  /\ UNCHANGED <<expecting, sequencer, resolved, listeners, attempts,
                 readVars, lisVars, srvVars, shut, wireUp>>

Publisher(p) == \/ PublishLock(p) \/ publish(p) \/ send(p) \/ sendOpen(p)
                \/ sendFails(p) \/ unpublish(p)

-----------------------------------------------------------------------------
(***************************************************************************)
(* The reader dispatches basic.ack and basic.nack (Channel.dispatch) to    *)
(* confirms.One and confirms.Multiple.                                     *)
(***************************************************************************)

\* deferredConfirmations.Confirm and ConfirmMultiple: the waiters whose tag is
\* in S get the answer ack.
setAck(S, ack) == /\ resolved' = resolved \cup [tag : S \cap deferred, ack : {ack}]
                  /\ deferred' = deferred \ S

\* The start of confirms.confirm, up to the loop over the listeners.
confirm(c) == /\ sequencer' = {s \in sequencer : s.tag # expecting}
              /\ expecting' = expecting + 1
              /\ conf' = c
              /\ todo' = listeners

\* Keeps c until its turn comes, in the place of an earlier one for its tag.
Sequence(c) == /\ sequencer' = {s \in sequencer : s.tag # c.tag} \cup {c}
               /\ UNCHANGED <<expecting, conf, todo>>

Take == /\ rd = "idle" /\ inbox # <<>>
        /\ cur' = Head(inbox)
        /\ inbox' = Tail(inbox)

\* The Confirmation that dispatch makes of it.
Received == [tag |-> cur'.tag, ack |-> cur'.ack]

(***************************************************************************)
(* confirms.One, up to resequence.  (Mutated forms: the acknowledgement    *)
(* counts for all earlier tags too; it is broadcast out of turn.)          *)
(***************************************************************************)
OneConfirmsAll ==
  /\ Take /\ ~cur'.multiple
  /\ setAck(1 .. cur'.tag, cur'.ack)
  /\ IF cur'.tag = expecting
       THEN confirm(Received) /\ rd' = "one"
       ELSE Sequence(Received) /\ rd' = "resequence"
  /\ UNCHANGED <<published, listeners, pubVars, lisVars, wire, verdict, shut, wireUp>>

OneOutOfTurn ==
  /\ Take /\ ~cur'.multiple
  /\ setAck({cur'.tag}, cur'.ack)
  /\ confirm(Received) /\ rd' = "one"
  /\ UNCHANGED <<published, listeners, pubVars, lisVars, wire, verdict, shut, wireUp>>

One ==
  /\ Take /\ ~cur'.multiple
  /\ setAck({cur'.tag}, cur'.ack)
  /\ IF cur'.tag = expecting
       THEN confirm(Received) /\ rd' = "one"
       ELSE Sequence(Received) /\ rd' = "resequence"
  /\ UNCHANGED <<published, listeners, pubVars, lisVars, wire, verdict, shut, wireUp>>

\* confirms.Multiple, up to its loop
Multiple ==
  /\ Take /\ cur'.multiple
  /\ setAck(1 .. cur'.tag, cur'.ack)
  /\ rd' = "multiple"
  /\ UNCHANGED <<published, expecting, sequencer, listeners, conf, todo,
                 pubVars, lisVars, wire, verdict, shut, wireUp>>

\* One turn of the loop of confirms.Multiple.
MultipleNext ==
  /\ rd = "multiple" /\ todo = {}
  /\ expecting <= cur.tag
  /\ confirm([tag |-> expecting, ack |-> cur.ack])
  /\ UNCHANGED <<published, deferred, resolved, listeners, rd, cur,
                 pubVars, lisVars, srvVars, shut, wireUp>>

\* The last listener has its Confirmation and resequence is called; it takes
\* publishedMut in a step of its own.
CallResequence ==
  /\ todo = {}
  /\ rd = "one" \/ (rd = "multiple" /\ expecting > cur.tag)
  /\ rd' = "resequence"
  /\ UNCHANGED <<confVars, cur, conf, todo, pubVars, lisVars, srvVars, shut, wireUp>>

Sequenced == {s \in sequencer : s.tag = expecting}

\* One turn of the loop of confirms.resequence.
resequenceNext ==
  /\ rd = "resequence" /\ todo = {}
  /\ expecting <= published
  /\ \E s \in Sequenced : confirm(s)
  /\ UNCHANGED <<published, deferred, resolved, listeners, rd, cur,
                 pubVars, lisVars, srvVars, shut, wireUp>>

\* The loop ends; publishedMut and confirms.m are released.  (Mutated forms:
\* the bound of the loop is one too low; an early return leaves publishedMut
\* locked.)
resequenceEndsEarly ==
  /\ rd = "resequence" /\ todo = {}
  /\ expecting >= published \/ Sequenced = {}
  /\ rd' = "idle"
  /\ UNCHANGED <<confVars, cur, conf, todo, pubVars, lisVars, srvVars, shut, wireUp>>

resequenceStaysLocked ==
  /\ rd = "resequence" /\ todo = {}
  /\ expecting > published
  /\ rd' = "idle"
  /\ UNCHANGED <<confVars, cur, conf, todo, pubVars, lisVars, srvVars, shut, wireUp>>

resequenceEnd ==
  /\ rd = "resequence" /\ todo = {}
  /\ expecting > published \/ Sequenced = {}
  /\ rd' = "idle"
  /\ UNCHANGED <<confVars, cur, conf, todo, pubVars, lisVars, srvVars, shut, wireUp>>

\* The loop of confirms.confirm: `l <- confirmation', which blocks while l is
\* full.  Without a buffer the application receives it in the same step.
sendConfirmation(l) ==
  /\ l \in todo
  /\ Cap > 0 => Len(sent[l]) - taken[l] < Cap
  /\ Cap = 0 => MayReceive
  /\ sent' = [sent EXCEPT ![l] = Append(@, conf)]
  /\ taken' = IF Cap = 0 THEN [taken EXCEPT ![l] = @ + 1] ELSE taken
  /\ todo' = todo \ {l}
  /\ UNCHANGED <<confVars, rd, cur, conf, pubVars, lstate, base, srvVars, shut, wireUp>>

TakeAck == One \/ Multiple
Reader  == \/ MultipleNext \/ CallResequence \/ resequenceNext \/ resequenceEnd
           \/ \E l \in Listeners : sendConfirmation(l)

-----------------------------------------------------------------------------
(***************************************************************************)
(* The application: NotifyPublish, which holds notifyM over Listen, and    *)
(* the receiving end of each listener.                                     *)
(***************************************************************************)
NotifyPublish(l) ==
  /\ lstate[l] = "new"
  /\ \/ /\ shut = "done"                         \* noNotify
        /\ lstate' = [lstate EXCEPT ![l] = "closed"]
        /\ UNCHANGED <<base, listeners>>
     \/ /\ shut \in {"open", "closed"}           \* notifyM is free
        /\ ConfirmsFree
        /\ lstate' = [lstate EXCEPT ![l] = "open"]
        /\ base' = [base EXCEPT ![l] = expecting]
        /\ listeners' = listeners \cup {l}
  /\ UNCHANGED <<published, expecting, sequencer, deferred, resolved, readVars,
                 pubVars, sent, taken, srvVars, shut, wireUp>>

Receive(l) ==
  /\ MayReceive
  /\ taken[l] < Len(sent[l])
  /\ taken' = [taken EXCEPT ![l] = @ + 1]
  /\ UNCHANGED <<confVars, readVars, pubVars, lstate, base, sent, srvVars, shut, wireUp>>

-----------------------------------------------------------------------------
(***************************************************************************)
(* Channel.shutdown, by whichever goroutine gets to run the destructor.    *)
(***************************************************************************)
setClosed ==
  /\ shut = "open"
  /\ shut' = "closed"
  /\ UNCHANGED <<confVars, readVars, pubVars, lisVars, srvVars, wireUp>>

\* Takes Channel.m and notifyM.
shutdownLock ==
  /\ shut = "closed" /\ chM = "none"
  /\ chM' = "shutdown" /\ shut' = "locked"
  /\ UNCHANGED <<confVars, readVars, pc, attempts, lisVars, srvVars, wireUp>>

\* confirms.Close; noNotify is set and the locks are released.
Close ==
  /\ shut = "locked" /\ ConfirmsFree
  /\ setAck(deferred, FALSE)
  /\ lstate' = [l \in Listeners |-> IF l \in listeners THEN "closed" ELSE lstate[l]]
  /\ listeners' = {}
  /\ chM' = "none" /\ shut' = "done"
  /\ UNCHANGED <<published, expecting, sequencer, readVars, pc, attempts,
                 base, sent, taken, srvVars, wireUp>>

Shutdown == shutdownLock \/ Close

-----------------------------------------------------------------------------
(***************************************************************************)
(* External: the server gives each publishing one verdict and reports it,  *)
(* in any order, on its own or together with every earlier publishing      *)
(* that has no verdict yet; the connection can fail.                       *)
(***************************************************************************)
Answer(ack) == IF ack THEN "ack" ELSE "nack"

ServerOne(i, ack) ==
  /\ verdict[i] = "none"
  /\ verdict' = [verdict EXCEPT ![i] = Answer(ack)]
  /\ inbox' = Append(inbox, [tag |-> i, ack |-> ack, multiple |-> FALSE])
  /\ UNCHANGED <<confVars, readVars, pubVars, lisVars, wire, shut, wireUp>>

ServerMultiple(i, ack) ==
  /\ verdict[i] = "none"
  /\ verdict' = [j \in DOMAIN verdict |->
                   IF j <= i /\ verdict[j] = "none" THEN Answer(ack) ELSE verdict[j]]
  /\ inbox' = Append(inbox, [tag |-> i, ack |-> ack, multiple |-> TRUE])
  /\ UNCHANGED <<confVars, readVars, pubVars, lisVars, wire, shut, wireUp>>

Break == /\ wireUp /\ wireUp' = FALSE
         /\ UNCHANGED <<confVars, readVars, pubVars, lisVars, srvVars, shut>>

Next == \/ \E p \in Publishers : Publish(p) \/ Publisher(p)
        \/ TakeAck \/ Reader
        \/ \E l \in Listeners : NotifyPublish(l) \/ Receive(l)
        \/ setClosed \/ Shutdown
        \/ \E i \in DOMAIN verdict, ack \in BOOLEAN :
             ServerOne(i, ack) \/ ServerMultiple(i, ack)
        \/ Break

Spec == Init /\ [][Next]_vars

(***************************************************************************)
(* A goroutine that can run does: Publish once it is under way, the reader *)
(* as long as the connection lives, shutdown once it has begun, and an     *)
(* application that receives from its listeners.  Nothing makes the        *)
(* application publish or close, or the server answer.                     *)
(***************************************************************************)
Fairness ==
  /\ \A p \in Publishers : WF_vars(Publisher(p))
  /\ WF_vars(wireUp /\ TakeAck) /\ WF_vars(Reader)
  /\ \A l \in Listeners : WF_vars(Receive(l))
  /\ WF_vars(Shutdown)

FairSpec == Spec /\ Fairness

-----------------------------------------------------------------------------
(***************************************************************************)
(* The tag under which a publisher waits is the number the server gives    *)
(* the message: the i-th message on the wire carries the tag i, whatever   *)
(* publishers interleave and however many publishings failed in between    *)
(* (publish and unpublish around send, under Channel.m).                   *)
(***************************************************************************)
TagAgreement == \A i \in DOMAIN wire : wire[i] = i

(***************************************************************************)
(* A listener gets one and only one Confirmation for each tag, in the      *)
(* order of the tags and without a gap from where confirms stood when it   *)
(* was registered, although the server answers out of order and several    *)
(* at a time (One, Multiple, resequence, confirm).                         *)
(***************************************************************************)
ListenerOrder ==
  \A l \in Listeners : \A i \in DOMAIN sent[l] : sent[l][i].tag = base[l] + i - 1

(***************************************************************************)
(* No Confirmation is sent on a chan that shutdown has closed, which would *)
(* panic in the reader goroutine (confirm against Close).                  *)
(***************************************************************************)
NoSendOnClosed == \A l \in todo : lstate[l] = "open"

(***************************************************************************)
(* DeferredConfirmation.Wait returns true only if the server acknowledged  *)
(* this very message, and false only if the server refused it or the       *)
(* channel was shut down (Confirm, ConfirmMultiple, Close).                *)
(***************************************************************************)
DeferredFaithful ==
  \A r \in resolved : IF r.ack THEN r.tag \in DOMAIN verdict /\ verdict[r.tag] = "ack"
                               ELSE \/ r.tag \in DOMAIN verdict /\ verdict[r.tag] = "nack"
                                    \/ shut = "done"

(***************************************************************************)
(* After shutdown nobody waits for ever: a DeferredConfirmation that is    *)
(* still pending belongs to a Publish that has not returned, and is        *)
(* removed by it (publish and unpublish against Close).                    *)
(***************************************************************************)
NoOrphanDeferred ==
  shut = "done" /\ (\A p \in Publishers : pc[p] = "idle") => deferred = {}

(***************************************************************************)
(* What a Confirmation says of a publishing is what the server said of it. *)
(***************************************************************************)
ListenerFaithful ==
  \A l \in Listeners : \A i \in DOMAIN sent[l] :
    verdict[sent[l][i].tag] = Answer(sent[l][i].ack)

(***************************************************************************)
(* Publish returns: neither Channel.m nor publishedMut stays taken, given  *)
(* listeners that are received from or large enough.                       *)
(***************************************************************************)
PublishReturns == \A p \in Publishers : pc[p] # "idle" ~> pc[p] = "idle"

(***************************************************************************)
(* Once shutdown has begun it ends, whatever publishers and the reader are *)
(* in the middle of.                                                       *)
(***************************************************************************)
ShutdownCompletes == shut = "closed" ~> shut = "done"

(***************************************************************************)
(* No acknowledgement is stuck: once the server has answered for the first *)
(* i publishings the listeners' position passes i, unless the connection   *)
(* fails before that.                                                      *)
(***************************************************************************)
Resequenced ==
  \A i \in 1 .. MaxPublish :
    (i \in DOMAIN verdict /\ \A j \in 1 .. i : verdict[j] # "none")
       ~> (expecting > i \/ ~wireUp)
=============================================================================
