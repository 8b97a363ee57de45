--------------------------- MODULE ConfirmsProofs ---------------------------
(***************************************************************************)
(* Proofs about Confirms, for any number of publishers and listeners, any  *)
(* capacity and any number of publishings.                                 *)
(***************************************************************************)
EXTENDS Confirms, TLAPS

\* The goroutine that holds Channel.m has incremented `published' and its
\* message is not on the wire.
Counted == chM \in Publishers /\ pc[chM] # "locked"

\* Channel.m is held by the goroutine that is between its Lock and Unlock, and
\* shutdown keeps out of a Publish that has found the channel open.
LockInv ==
  /\ \A p \in Publishers : pc[p] \in {"idle", "waiting"} <=> chM # p
  /\ shut = "locked" <=> chM = "shutdown"
  /\ \A p \in Publishers : pc[p] = "sending" => shut \in {"open", "closed"}

\* published is the number of messages on the wire, and one more while a
\* Publish that has been counted is under way.
CountInv == /\ published = Len(wire) + (IF Counted THEN 1 ELSE 0)
            /\ TagAgreement

\* After shutdown only a Publish under way can have a pending confirmation.
DeferredInv == shut = "done" => deferred \subseteq (IF Counted THEN {published} ELSE {})

\* A registered listener is one behind while it waits for conf.
OrderInv ==
  /\ todo \subseteq listeners
  /\ rd = "idle" => todo = {}
  /\ todo # {} => conf.tag = expecting - 1
  /\ \A l \in Listeners : lstate[l] = "new" => sent[l] = <<>>
  /\ \A l \in listeners :
       /\ lstate[l] = "open"
       /\ base[l] + Len(sent[l]) = expecting - (IF l \in todo THEN 1 ELSE 0)
  /\ ListenerOrder

Inv == TypeOK /\ LockInv /\ CountInv /\ DeferredInv /\ OrderInv

-----------------------------------------------------------------------------
\* A function on an initial segment of the naturals is a sequence.
LEMMA SegmentSeq ==
  ASSUME NEW S, NEW n \in Nat, NEW f, f \in [1 .. n -> S]
  PROVE  f \in Seq(S) /\ Len(f) = n
OBVIOUS

\* What a message for the reader is made of.
LEMMA HeadTail ==
  ASSUME NEW S, NEW q \in Seq(S), q # <<>>
  PROVE  Head(q) \in S /\ Tail(q) \in Seq(S)
OBVIOUS

\* Answering pending waiters leaves the two sets well-typed.
LEMMA SetAckType ==
  ASSUME TypeOK, NEW S, NEW ack \in BOOLEAN, setAck(S, ack)
  PROVE  deferred' \subseteq Nat /\ resolved' \subseteq Confirmation
BY DEF TypeOK, setAck, Confirmation

\* So does starting a broadcast with the other variables of confirms.
LEMMA ConfirmType ==
  ASSUME TypeOK, NEW c \in Confirmation, confirm(c)
  PROVE  /\ sequencer' \subseteq Confirmation /\ expecting' \in Nat \ {0}
         /\ conf' \in Confirmation /\ todo' \subseteq Listeners
BY DEF TypeOK, confirm

(***************************************************************************)
(* Every variable keeps its type; in particular `published' never drops    *)
(* below zero, where the uint64 of the code would wrap around.             *)
(***************************************************************************)
LEMMA TypePreserved ==
  ASSUME Inv, [Next]_vars
  PROVE  TypeOK'
<1> USE DEF Inv, TypeOK, confVars, readVars, pubVars, lisVars, srvVars
<1>1. ASSUME NEW p \in Publishers, Publish(p) \/ Publisher(p) PROVE TypeOK'
  <2>1. CASE Publish(p) BY <2>1 DEF Publish
  <2>2. CASE PublishLock(p) BY <2>2 DEF PublishLock
  <2>3. CASE publish(p) BY <2>3 DEF publish
  <2>4. CASE send(p) BY <2>4 DEF send
  <2>5. CASE sendOpen(p) BY <2>5 DEF sendOpen
  <2>6. CASE sendFails(p) BY <2>6 DEF sendFails
  <2>7. CASE unpublish(p)
    <3>1. chM = p /\ Counted BY <2>7 DEF unpublish, LockInv, Counted
    <3>2. published - 1 \in Nat BY <3>1 DEF CountInv
    <3> QED BY <2>7, <3>2 DEF unpublish
  <2> QED BY <1>1, <2>1, <2>2, <2>3, <2>4, <2>5, <2>6, <2>7 DEF Publisher
<1>2. CASE TakeAck
  <2>1. Take BY <1>2 DEF TakeAck, One, Multiple
  <2>2. cur' \in Message /\ inbox' \in Seq(Message) BY <2>1, HeadTail DEF Take
  <2>3. Received \in Confirmation BY <2>2 DEF Received, Message, Confirmation
  <2>4. cur'.ack \in BOOLEAN BY <2>2 DEF Message
  <2>5. CASE One
    <3>1. deferred' \subseteq Nat /\ resolved' \subseteq Confirmation
      BY <2>5, <2>4, SetAckType DEF One
    <3>2. CASE cur'.tag = expecting
      <4>1. confirm(Received) /\ rd' = "one" BY <2>5, <3>2 DEF One
      <4> QED BY <2>5, <2>2, <2>3, <3>1, <4>1, ConfirmType DEF One
    <3>3. CASE cur'.tag # expecting
      <4>1. Sequence(Received) /\ rd' = "resequence" BY <2>5, <3>3 DEF One
      <4>2. sequencer' \subseteq Confirmation BY <2>3, <4>1 DEF Sequence
      <4> QED BY <2>5, <2>2, <3>1, <4>1, <4>2 DEF One, Sequence
    <3> QED BY <3>2, <3>3
  <2>6. CASE Multiple
    <3>1. deferred' \subseteq Nat /\ resolved' \subseteq Confirmation
      BY <2>6, <2>4, SetAckType DEF Multiple
    <3> QED BY <2>6, <2>2, <3>1 DEF Multiple
  <2> QED BY <1>2, <2>5, <2>6 DEF TakeAck
<1>3. CASE MultipleNext
  <2>1. [tag |-> expecting, ack |-> cur.ack] \in Confirmation
    BY DEF Confirmation, Message
  <2> QED BY <1>3, <2>1, ConfirmType DEF MultipleNext
<1>4. CASE CallResequence BY <1>4 DEF CallResequence
<1>5. CASE resequenceNext
  <2>1. PICK s \in Sequenced : confirm(s) BY <1>5 DEF resequenceNext
  <2>2. s \in Confirmation BY DEF Sequenced
  <2> QED BY <1>5, <2>1, <2>2, ConfirmType DEF resequenceNext
<1>6. CASE resequenceEnd BY <1>6 DEF resequenceEnd
<1>7. ASSUME NEW l \in Listeners, sendConfirmation(l) PROVE TypeOK'
  BY <1>7 DEF sendConfirmation
<1>8. ASSUME NEW l \in Listeners, NotifyPublish(l) \/ Receive(l) PROVE TypeOK'
  <2>1. CASE NotifyPublish(l) BY <2>1 DEF NotifyPublish
  <2>2. CASE Receive(l) BY <2>2 DEF Receive
  <2> QED BY <1>8, <2>1, <2>2
<1>9. CASE setClosed BY <1>9 DEF setClosed
<1>10. CASE shutdownLock BY <1>10 DEF shutdownLock
<1>11. CASE Close
  <2>1. deferred' \subseteq Nat /\ resolved' \subseteq Confirmation
    BY <1>11, SetAckType DEF Close
  <2> QED BY <1>11, <2>1 DEF Close
<1>12. ASSUME NEW i \in DOMAIN verdict, NEW ack \in BOOLEAN,
              ServerOne(i, ack) \/ ServerMultiple(i, ack)
       PROVE  TypeOK'
  <2>1. i \in Nat /\ Len(verdict) \in Nat /\ DOMAIN verdict = 1 .. Len(verdict)
    OBVIOUS
  <2>2. verdict' \in [1 .. Len(verdict) -> {"none", "ack", "nack"}]
    <3>1. CASE ServerOne(i, ack) BY <2>1, <3>1 DEF ServerOne, Answer
    <3>2. CASE ServerMultiple(i, ack) BY <2>1, <3>2 DEF ServerMultiple, Answer
    <3> QED BY <1>12, <3>1, <3>2
  <2>3. verdict' \in Seq({"none", "ack", "nack"}) BY <2>1, <2>2, SegmentSeq
  <2>4. \A m \in BOOLEAN : [tag |-> i, ack |-> ack, multiple |-> m] \in Message
    BY <2>1 DEF Message
  <2>5. inbox' \in Seq(Message)
    <3>1. PICK m \in Message : inbox' = Append(inbox, m)
      BY <1>12, <2>4 DEF ServerOne, ServerMultiple
    <3> QED BY <3>1
  <2> QED BY <1>12, <2>3, <2>5 DEF ServerOne, ServerMultiple
<1>13. CASE Break BY <1>13 DEF Break
<1>14. CASE UNCHANGED vars BY <1>14 DEF vars
<1> QED BY <1>1, <1>2, <1>3, <1>4, <1>5, <1>6, <1>7, <1>8, <1>9, <1>10, <1>11,
           <1>12, <1>13, <1>14 DEF Next, Reader, Shutdown

(***************************************************************************)
(* Channel.m is respected by every step.                                   *)
(***************************************************************************)
LEMMA LockPreserved ==
  ASSUME Inv, [Next]_vars
  PROVE  LockInv'
<1> USE PublisherAssumption DEF Inv, TypeOK, LockInv,
                               confVars, readVars, pubVars, lisVars, srvVars
<1>1. ASSUME NEW p \in Publishers, Publish(p) \/ Publisher(p) PROVE LockInv'
  <2>1. CASE Publish(p) BY <2>1 DEF Publish
  <2>2. CASE PublishLock(p) BY <2>2 DEF PublishLock
  <2>3. CASE publish(p) BY <2>3 DEF publish
  <2>4. CASE send(p) BY <2>4 DEF send, IsClosed
  <2>5. CASE sendOpen(p) BY <2>5 DEF sendOpen
  <2>6. CASE sendFails(p) BY <2>6 DEF sendFails
  <2>7. CASE unpublish(p) BY <2>7 DEF unpublish
  <2> QED BY <1>1, <2>1, <2>2, <2>3, <2>4, <2>5, <2>6, <2>7 DEF Publisher
<1>2. CASE TakeAck BY <1>2 DEF TakeAck, One, Multiple
<1>3. CASE Reader
  BY <1>3 DEF Reader, MultipleNext, CallResequence, resequenceNext, resequenceEnd,
              sendConfirmation
<1>4. ASSUME NEW l \in Listeners, NotifyPublish(l) \/ Receive(l) PROVE LockInv'
  BY <1>4 DEF NotifyPublish, Receive
<1>5. CASE setClosed BY <1>5 DEF setClosed
<1>6. CASE shutdownLock
  <2>1. \A p \in Publishers : pc[p] \in {"idle", "waiting"} BY <1>6 DEF shutdownLock
  <2>2. \A p \in Publishers : chM' # p BY <1>6 DEF shutdownLock
  <2>3. \A p \in Publishers : pc'[p] # "sending" BY <1>6, <2>1 DEF shutdownLock
  <2>4. chM' = "shutdown" /\ shut' = "locked" /\ pc' = pc BY <1>6 DEF shutdownLock
  <2> QED BY <2>1, <2>2, <2>3, <2>4
<1>7. CASE Close BY <1>7 DEF Close
<1>8. ASSUME NEW i \in DOMAIN verdict, NEW ack \in BOOLEAN,
             ServerOne(i, ack) \/ ServerMultiple(i, ack)
      PROVE  LockInv'
  BY <1>8 DEF ServerOne, ServerMultiple
<1>9. CASE Break \/ UNCHANGED vars BY <1>9 DEF Break, vars
<1> QED BY <1>1, <1>2, <1>3, <1>4, <1>5, <1>6, <1>7, <1>8, <1>9
        DEF Next, Shutdown

\* The counter follows the wire through every failed publishing.
LEMMA CountPreserved ==
  ASSUME Inv, [Next]_vars
  PROVE  CountInv'
<1> USE PublisherAssumption DEF Inv, TypeOK, LockInv, CountInv, Counted, TagAgreement,
                               confVars, readVars, pubVars, lisVars, srvVars
<1>1. ASSUME NEW p \in Publishers, Publish(p) \/ Publisher(p) PROVE CountInv'
  <2>1. CASE Publish(p) BY <2>1 DEF Publish
  <2>2. CASE PublishLock(p) BY <2>2 DEF PublishLock
  <2>3. CASE publish(p) BY <2>3 DEF publish
  <2>4. CASE send(p) BY <2>4 DEF send
  <2>5. CASE sendOpen(p)
    <3>1. chM = p /\ published = Len(wire) + 1 BY <2>5 DEF sendOpen
    <3>2. wire' = Append(wire, Len(wire) + 1) /\ Len(wire') = Len(wire) + 1
      BY <2>5, <3>1 DEF sendOpen
    <3>3. TagAgreement' BY <3>2
    <3> QED BY <2>5, <3>1, <3>2, <3>3 DEF sendOpen
  <2>6. CASE sendFails(p) BY <2>6 DEF sendFails
  <2>7. CASE unpublish(p)
    <3>1. chM = p /\ published = Len(wire) + 1 BY <2>7 DEF unpublish
    <3>2. ~Counted' /\ wire' = wire BY <2>7 DEF unpublish
    <3> QED BY <2>7, <3>1, <3>2 DEF unpublish
  <2> QED BY <1>1, <2>1, <2>2, <2>3, <2>4, <2>5, <2>6, <2>7 DEF Publisher
<1>2. CASE shutdownLock BY <1>2 DEF shutdownLock
<1>3. CASE Close BY <1>3 DEF Close
<1>4. SUFFICES ASSUME UNCHANGED <<published, wire, chM, pc>> PROVE CountInv'
  BY <1>1, <1>2, <1>3
     DEF Next, TakeAck, One, Multiple, Reader, MultipleNext, CallResequence,
         resequenceNext, resequenceEnd, sendConfirmation, NotifyPublish, Receive,
         setClosed, Shutdown, ServerOne, ServerMultiple, Break, vars
<1> QED BY <1>4

\* Close empties the map while no Publish is under way.
LEMMA DeferredPreserved ==
  ASSUME Inv, [Next]_vars
  PROVE  DeferredInv'
<1> USE PublisherAssumption DEF Inv, TypeOK, LockInv, DeferredInv, Counted,
                               confVars, readVars, pubVars, lisVars, srvVars
<1>1. ASSUME NEW p \in Publishers, Publish(p) \/ Publisher(p) PROVE DeferredInv'
  <2>1. CASE Publish(p) BY <2>1 DEF Publish
  <2>2. CASE PublishLock(p) BY <2>2 DEF PublishLock
  <2>3. CASE publish(p) BY <2>3 DEF publish
  <2>4. CASE send(p) BY <2>4 DEF send
  <2>5. CASE sendOpen(p) BY <2>5 DEF sendOpen
  <2>6. CASE sendFails(p) BY <2>6 DEF sendFails
  <2>7. CASE unpublish(p)
    <3>1. shut = "done" => deferred \subseteq {published} BY <2>7 DEF unpublish
    <3> QED BY <2>7, <3>1 DEF unpublish
  <2> QED BY <1>1, <2>1, <2>2, <2>3, <2>4, <2>5, <2>6, <2>7 DEF Publisher
<1>2. CASE TakeAck BY <1>2 DEF TakeAck, One, Multiple, setAck
<1>3. CASE setClosed BY <1>3 DEF setClosed
<1>4. CASE shutdownLock BY <1>4 DEF shutdownLock
<1>5. CASE Close BY <1>5 DEF Close, setAck
<1>6. SUFFICES ASSUME UNCHANGED <<published, deferred, shut, chM, pc>>
               PROVE  DeferredInv'
  BY <1>1, <1>2, <1>3, <1>4, <1>5
     DEF Next, Reader, MultipleNext, CallResequence, resequenceNext, resequenceEnd,
         sendConfirmation, NotifyPublish, Receive, Shutdown, ServerOne,
         ServerMultiple, Break, vars
<1> QED BY <1>6

\* A broadcast starts with the tag that every listener waits for.
LEMMA ConfirmOrder ==
  ASSUME TypeOK, OrderInv, NEW c \in Confirmation, c.tag = expecting, confirm(c),
         todo = {}, rd' # "idle", UNCHANGED <<listeners, lisVars>>
  PROVE  OrderInv'
<1> USE DEF TypeOK, OrderInv, confirm, lisVars
<1>1. todo' = listeners' BY DEF confirm
<1>2. conf'.tag = expecting' - 1 OBVIOUS
<1>3. \A l \in listeners' :
        lstate'[l] = "open" /\ base'[l] + Len(sent'[l]) = expecting' - 1
  OBVIOUS
<1>4. ListenerOrder' BY DEF ListenerOrder
<1> QED BY <1>1, <1>2, <1>3, <1>4

(***************************************************************************)
(* The order of the Confirmations on every listener.                       *)
(***************************************************************************)
LEMMA OrderPreserved ==
  ASSUME Inv, [Next]_vars
  PROVE  OrderInv'
<1> USE DEF Inv, confVars, readVars, pubVars, lisVars, srvVars
<1>1. CASE TakeAck
  <2>1. rd = "idle" /\ todo = {} /\ UNCHANGED <<listeners, lisVars>>
    BY <1>1 DEF TakeAck, One, Multiple, Take, OrderInv
  <2>2. CASE One /\ cur'.tag = expecting
    <3>1. cur' \in Message BY <2>2, HeadTail DEF One, Take, TypeOK
    <3>2. Received \in Confirmation /\ Received.tag = expecting
      BY <2>2, <3>1 DEF Received, Message, Confirmation
    <3>3. confirm(Received) /\ rd' = "one" BY <2>2 DEF One
    <3> QED BY <2>1, <3>2, <3>3, ConfirmOrder
  <2>3. CASE ~(One /\ cur'.tag = expecting)
    <3>1. UNCHANGED <<expecting, conf, todo>>
      BY <1>1, <2>3 DEF TakeAck, One, Multiple, Sequence
    <3> QED BY <2>1, <3>1 DEF OrderInv, ListenerOrder
  <2> QED BY <2>2, <2>3
<1>2. CASE MultipleNext
  <2>1. [tag |-> expecting, ack |-> cur.ack] \in Confirmation
    BY DEF TypeOK, Confirmation, Message
  <2> QED BY <1>2, <2>1, ConfirmOrder DEF MultipleNext
<1>3. CASE resequenceNext
  <2>1. PICK s \in Sequenced : confirm(s) BY <1>3 DEF resequenceNext
  <2>2. s \in Confirmation /\ s.tag = expecting BY DEF Sequenced, TypeOK
  <2> QED BY <1>3, <2>1, <2>2, ConfirmOrder DEF resequenceNext
<1>4. CASE CallResequence \/ resequenceEnd
  BY <1>4 DEF CallResequence, resequenceEnd, OrderInv, ListenerOrder
<1>5. ASSUME NEW l \in Listeners, sendConfirmation(l) PROVE OrderInv'
  <2> USE DEF TypeOK, OrderInv, ListenerOrder
  <2>1. l \in listeners /\ conf.tag = base[l] + Len(sent[l])
    BY <1>5 DEF sendConfirmation
  <2>2. /\ sent'[l] = Append(sent[l], conf)
        /\ \A k \in Listeners \ {l} : sent'[k] = sent[k]
    BY <1>5 DEF sendConfirmation
  <2>3. Len(sent'[l]) = Len(sent[l]) + 1 BY <2>2
  <2>4. \A i \in DOMAIN sent'[l] : sent'[l][i].tag = base[l] + i - 1
    BY <2>1, <2>2
  <2>5. ListenerOrder' BY <1>5, <2>2, <2>4 DEF sendConfirmation
  <2>6. \A k \in listeners' :
          base'[k] + Len(sent'[k]) = expecting' - (IF k \in todo' THEN 1 ELSE 0)
    BY <1>5, <2>1, <2>2, <2>3 DEF sendConfirmation
  <2> QED BY <1>5, <2>1, <2>2, <2>5, <2>6 DEF sendConfirmation
<1>6. ASSUME NEW l \in Listeners, NotifyPublish(l) PROVE OrderInv'
  <2> USE DEF TypeOK, OrderInv, ListenerOrder
  <2>1. /\ lstate[l] = "new" /\ sent[l] = <<>> /\ l \notin listeners
        /\ UNCHANGED <<expecting, rd, conf, todo, sent>>
    BY <1>6 DEF NotifyPublish
  <2>2. \A k \in Listeners \ {l} : lstate'[k] = lstate[k] /\ base'[k] = base[k]
    BY <1>6 DEF NotifyPublish
  <2>3. \/ listeners' = listeners /\ lstate'[l] = "closed"
        \/ /\ listeners' = listeners \cup {l} /\ todo = {}
           /\ lstate'[l] = "open" /\ base'[l] = expecting
    BY <1>6 DEF NotifyPublish, ConfirmsFree
  <2>4. Len(sent[l]) = 0 /\ DOMAIN sent[l] = {} BY <2>1
  <2>5. ListenerOrder'
    <3> SUFFICES ASSUME NEW k \in Listeners, NEW i \in DOMAIN sent'[k]
                 PROVE  sent'[k][i].tag = base'[k] + i - 1
      OBVIOUS
    <3>1. k # l BY <2>1, <2>4
    <3> QED BY <2>1, <2>2, <3>1
  <2>6. ASSUME NEW k \in listeners'
        PROVE  /\ lstate'[k] = "open"
               /\ base'[k] + Len(sent'[k]) = expecting' - (IF k \in todo' THEN 1 ELSE 0)
    <3>1. CASE k = l
      <4>1. lstate'[l] = "open" /\ base'[l] = expecting /\ todo' = {} BY <2>1, <2>3, <3>1
      <4> QED BY <2>1, <2>4, <3>1, <4>1
    <3>2. CASE k # l BY <2>1, <2>2, <2>3, <3>2
    <3> QED BY <3>1, <3>2
  <2> QED BY <2>1, <2>2, <2>3, <2>5, <2>6
<1>7. CASE Close
  BY <1>7 DEF Close, ConfirmsFree, TypeOK, OrderInv, ListenerOrder
<1>8. SUFFICES ASSUME UNCHANGED <<expecting, listeners, rd, conf, todo, lstate, base, sent>>
               PROVE  OrderInv'
  BY <1>1, <1>2, <1>3, <1>4, <1>5, <1>6, <1>7
     DEF Next, Publish, Publisher, PublishLock, publish, send, sendOpen, sendFails,
         unpublish, Reader, Receive, setClosed, Shutdown, shutdownLock,
         ServerOne, ServerMultiple, Break, vars
<1> QED BY <1>8 DEF OrderInv, ListenerOrder

-----------------------------------------------------------------------------
LEMMA InvInit == Init => Inv
BY PublisherAssumption
   DEF Init, newConfirms, Inv, TypeOK, LockInv, CountInv, Counted, TagAgreement,
       DeferredInv, OrderInv, ListenerOrder, NoMessage, NoConfirmation,
       Message, Confirmation

(***************************************************************************)
(* The invariant that the results below rest on.                           *)
(***************************************************************************)
THEOREM Invariance == Spec => []Inv
<1>1. Inv /\ [Next]_vars => Inv'
  BY TypePreserved, LockPreserved, CountPreserved, DeferredPreserved, OrderPreserved
     DEF Inv
<1> QED BY InvInit, <1>1, PTL DEF Spec

(***************************************************************************)
(* Type correctness: no counter of confirms.go leaves its range.           *)
(***************************************************************************)
THEOREM TypeCorrect == Spec => []TypeOK
<1>1. Inv => TypeOK BY DEF Inv
<1> QED BY Invariance, <1>1, PTL

(***************************************************************************)
(* The tag of a DeferredConfirmation is the server's number of the message, *)
(* for any number of goroutines that publish, fail and publish again.      *)
(***************************************************************************)
THEOREM TagsAgree == Spec => []TagAgreement
<1>1. Inv => TagAgreement BY DEF Inv, CountInv
<1> QED BY Invariance, <1>1, PTL

(***************************************************************************)
(* Every listener of NotifyPublish sees the tags one by one and in order,  *)
(* whatever the server sends: the proof uses nothing about the inbox.      *)
(***************************************************************************)
THEOREM ListenersInOrder == Spec => []ListenerOrder
<1>1. Inv => ListenerOrder BY DEF Inv, OrderInv
<1> QED BY Invariance, <1>1, PTL

(***************************************************************************)
(* confirm never sends on a chan that Close has closed.                    *)
(***************************************************************************)
THEOREM NeverSendsOnClosed == Spec => []NoSendOnClosed
<1>1. Inv => NoSendOnClosed BY DEF Inv, OrderInv, NoSendOnClosed
<1> QED BY Invariance, <1>1, PTL

(***************************************************************************)
(* After shutdown no DeferredConfirmation is left without an answer.       *)
(***************************************************************************)
THEOREM NothingOrphaned == Spec => []NoOrphanDeferred
<1>1. Inv => NoOrphanDeferred
  <2> SUFFICES ASSUME Inv, shut = "done", \A p \in Publishers : pc[p] = "idle"
               PROVE  deferred = {}
    BY DEF NoOrphanDeferred
  <2>1. ~Counted BY DEF Inv, LockInv, Counted
  <2> QED BY <2>1 DEF Inv, DeferredInv
<1> QED BY Invariance, <1>1, PTL
-----------------------------------------------------------------------------
(***************************************************************************)
(* What the waiters are told.  An acknowledgement under way speaks for the *)
(* tags it covers; of several that cover a pending tag the first one       *)
(* carries the verdict of the server, because a `multiple' is sent for the *)
(* tags without a verdict and covers earlier ones that have one.           *)
(***************************************************************************)
Covers(m, d) == d = m.tag \/ (m.multiple /\ d <= m.tag)

\* The server has one verdict for each message on the wire and reports on no
\* other; only messages that were counted have a waiter.
ServerInv == /\ Len(verdict) = Len(wire)
             /\ deferred \subseteq 1 .. published
             /\ \A i \in DOMAIN inbox : inbox[i].tag \in DOMAIN verdict

\* The first acknowledgement under way for a pending tag is the right one.
FirstIsRight ==
  \A d \in deferred : \A i \in DOMAIN inbox : Covers(inbox[i], d) =>
    \/ verdict[d] = Answer(inbox[i].ack)
    \/ verdict[d] # "none" /\ \E j \in DOMAIN inbox : j < i /\ Covers(inbox[j], d)

\* The verdict on a pending tag is on its way.
VerdictUnderWay ==
  \A d \in deferred : d \in DOMAIN verdict /\ verdict[d] # "none" =>
    \E i \in DOMAIN inbox : Covers(inbox[i], d)

FaithInv == ServerInv /\ FirstIsRight /\ VerdictUnderWay /\ DeferredFaithful

\* An acknowledgement covers no tag above its own.
LEMMA CoversBelow ==
  ASSUME NEW m \in Message, NEW d \in Nat, Covers(m, d)
  PROVE  d <= m.tag
BY DEF Covers, Message

\* The elements of the tail of a queue, and of a queue that has grown.
LEMMA TailElements ==
  ASSUME NEW S, NEW q \in Seq(S), q # <<>>
  PROVE  /\ Len(Tail(q)) = Len(q) - 1 /\ Len(q) \in Nat /\ Len(q) > 0
         /\ Head(q) = q[1] /\ 1 \in DOMAIN q
         /\ \A i \in DOMAIN Tail(q) : i + 1 \in DOMAIN q /\ Tail(q)[i] = q[i + 1]
         /\ \A i \in DOMAIN q : i # 1 => i - 1 \in DOMAIN Tail(q) /\ Tail(q)[i - 1] = q[i]
OBVIOUS

LEMMA AppendElements ==
  ASSUME NEW S, NEW q \in Seq(S), NEW e \in S
  PROVE  /\ Len(Append(q, e)) = Len(q) + 1 /\ Len(q) \in Nat
         /\ DOMAIN Append(q, e) = DOMAIN q \cup {Len(q) + 1}
         /\ Append(q, e)[Len(q) + 1] = e
         /\ \A i \in DOMAIN q : Append(q, e)[i] = q[i] /\ i < Len(q) + 1
OBVIOUS

(***************************************************************************)
(* The reader takes an acknowledgement for the tags in S: the waiters that *)
(* are answered get the server's verdict, the others still have it coming. *)
(***************************************************************************)
LEMMA TakePreservesFaith ==
  ASSUME Inv, FaithInv, Take, NEW S, setAck(S, cur'.ack),
         \A d \in deferred : d \in S <=> Covers(cur', d),
         UNCHANGED <<published, wire, verdict, shut>>
  PROVE  FaithInv'
<1> DEFINE h == Head(inbox)
<1>1. /\ inbox \in Seq(Message) /\ inbox # <<>>
      /\ cur' = h /\ inbox' = Tail(inbox)
  BY DEF Inv, TypeOK, Take
<1>2. /\ h = inbox[1] /\ 1 \in DOMAIN inbox /\ h \in Message
      /\ \A i \in DOMAIN inbox' :
           i \in Nat /\ i + 1 \in DOMAIN inbox /\ inbox'[i] = inbox[i + 1]
      /\ \A i \in DOMAIN inbox :
           i \in Nat /\ (i # 1 => i - 1 \in DOMAIN inbox' /\ inbox'[i - 1] = inbox[i])
  BY <1>1, TailElements, HeadTail
<1>3. /\ deferred' = deferred \ S
      /\ resolved' = resolved \cup [tag : S \cap deferred, ack : {h.ack}]
  BY <1>1 DEF setAck
<1>4. ServerInv'
  BY <1>2, <1>3 DEF FaithInv, ServerInv
<1>5. FirstIsRight'
  <2> SUFFICES ASSUME NEW d \in deferred', NEW i \in DOMAIN inbox', Covers(inbox'[i], d)
               PROVE  \/ verdict[d] = Answer(inbox'[i].ack)
                      \/ /\ verdict[d] # "none"
                         /\ \E j \in DOMAIN inbox' : j < i /\ Covers(inbox'[j], d)
    BY DEF FirstIsRight
  <2>1. d \in deferred /\ ~Covers(h, d) BY <1>1, <1>3
  <2>2. i \in Nat /\ i + 1 \in DOMAIN inbox /\ inbox'[i] = inbox[i + 1] BY <1>2
  <2>3. ASSUME verdict[d] # "none",
               NEW j \in DOMAIN inbox, j < i + 1, Covers(inbox[j], d)
        PROVE  \E k \in DOMAIN inbox' : k < i /\ Covers(inbox'[k], d)
    <3>1. j # 1 BY <1>2, <2>1, <2>3
    <3>2. j - 1 \in DOMAIN inbox' /\ inbox'[j - 1] = inbox[j] /\ j - 1 < i
      BY <1>2, <2>2, <2>3, <3>1
    <3> QED BY <2>3, <3>2
  <2> QED BY <2>1, <2>2, <2>3 DEF FaithInv, FirstIsRight
<1>6. VerdictUnderWay'
  <2> SUFFICES ASSUME NEW d \in deferred', d \in DOMAIN verdict, verdict[d] # "none"
               PROVE  \E i \in DOMAIN inbox' : Covers(inbox'[i], d)
    BY DEF VerdictUnderWay
  <2>1. d \in deferred /\ ~Covers(h, d) BY <1>1, <1>3
  <2>2. PICK i \in DOMAIN inbox : Covers(inbox[i], d)
    BY <2>1 DEF FaithInv, VerdictUnderWay
  <2>3. i # 1 BY <1>2, <2>1, <2>2
  <2> QED BY <1>2, <2>2, <2>3
<1>7. ASSUME NEW r \in resolved', r \notin resolved
      PROVE  r.tag \in DOMAIN verdict /\ verdict[r.tag] = Answer(r.ack)
  <2>1. r.tag \in S \cap deferred /\ r.ack = h.ack BY <1>3, <1>7
  <2>2. Covers(h, r.tag) BY <1>1, <2>1
  <2>3. verdict[r.tag] = Answer(h.ack)
    <3>1. ~ \E j \in DOMAIN inbox : j < 1
      BY <1>1
    <3> QED BY <1>2, <2>1, <2>2, <3>1 DEF FaithInv, FirstIsRight
  <2>4. r.tag \in DOMAIN verdict
    <3>1. h.tag \in DOMAIN verdict BY <1>2 DEF FaithInv, ServerInv
    <3>2. deferred \subseteq Nat \ {0} /\ h.tag \in Nat
      BY <1>2 DEF FaithInv, ServerInv, Inv, TypeOK, Message
    <3>3. r.tag \in Nat \ {0} /\ r.tag <= h.tag
      BY <1>2, <2>1, <2>2, <3>2, CoversBelow
    <3> QED BY <3>1, <3>3 DEF Inv, TypeOK
  <2> QED BY <2>1, <2>3, <2>4
<1>8. DeferredFaithful'
  <2> SUFFICES ASSUME NEW r \in resolved'
               PROVE  IF r.ack THEN r.tag \in DOMAIN verdict /\ verdict[r.tag] = "ack"
                      ELSE \/ r.tag \in DOMAIN verdict /\ verdict[r.tag] = "nack"
                           \/ shut = "done"
    BY DEF DeferredFaithful
  <2>1. CASE r \in resolved BY <2>1 DEF FaithInv, DeferredFaithful
  <2>2. CASE r \notin resolved BY <1>7, <2>2 DEF Answer
  <2> QED BY <2>1, <2>2
<1> QED BY <1>4, <1>5, <1>6, <1>8 DEF FaithInv

(***************************************************************************)
(* The server decides on i, and with `multiple' on all before it that are  *)
(* undecided, and reports it.                                              *)
(***************************************************************************)
LEMMA ServerPreservesFaith ==
  ASSUME Inv, FaithInv, NEW i \in DOMAIN verdict, NEW ack \in BOOLEAN,
         ServerOne(i, ack) \/ ServerMultiple(i, ack)
  PROVE  FaithInv'
<1>1. PICK e \in Message :
        /\ inbox' = Append(inbox, e) /\ e.tag = i /\ e.ack = ack
        /\ DOMAIN verdict' = DOMAIN verdict
        /\ \A d \in DOMAIN verdict :
             verdict'[d] = IF verdict[d] = "none" /\ Covers(e, d) THEN Answer(ack)
                                                                 ELSE verdict[d]
  <2> DEFINE e(m) == [tag |-> i, ack |-> ack, multiple |-> m]
  <2>1. i \in Nat /\ verdict \in Seq({"none", "ack", "nack"})
    BY DEF Inv, TypeOK
  <2>2. \A m \in BOOLEAN : e(m) \in Message
    BY <2>1 DEF Message
  <2>3. CASE ServerOne(i, ack)
    <3>1. \A d \in DOMAIN verdict :
             verdict'[d] = IF verdict[d] = "none" /\ Covers(e(FALSE), d) THEN Answer(ack)
                                                                        ELSE verdict[d]
      BY <2>3, <2>1 DEF ServerOne, Covers
    <3> QED BY <2>2, <2>3, <3>1 DEF ServerOne
  <2>4. CASE ServerMultiple(i, ack)
    <3>1. \A d \in DOMAIN verdict :
             verdict'[d] = IF verdict[d] = "none" /\ Covers(e(TRUE), d) THEN Answer(ack)
                                                                       ELSE verdict[d]
      BY <2>4, <2>1 DEF ServerMultiple, Covers
    <3> QED BY <2>2, <2>4, <3>1 DEF ServerMultiple
  <2> QED BY <2>3, <2>4
<1>2. /\ UNCHANGED <<deferred, resolved, published, wire, shut>>
      /\ Answer(ack) # "none"
  BY DEF ServerOne, ServerMultiple, Answer, confVars
<1>3. /\ Len(verdict) \in Nat /\ DOMAIN verdict = 1 .. Len(verdict)
      /\ inbox \in Seq(Message) /\ deferred \subseteq Nat \ {0}
  BY DEF Inv, TypeOK, FaithInv, ServerInv
<1>4. /\ DOMAIN inbox' = DOMAIN inbox \cup {Len(inbox) + 1}
      /\ inbox'[Len(inbox) + 1] = e
      /\ \A k \in DOMAIN inbox : inbox'[k] = inbox[k] /\ k < Len(inbox) + 1
  BY <1>1, <1>3, AppendElements
<1>5. \A d \in deferred : \A k \in DOMAIN inbox' :
        Covers(inbox'[k], d) => d \in DOMAIN verdict
  <2>1. \A k \in DOMAIN inbox' : inbox'[k] \in Message /\ inbox'[k].tag \in DOMAIN verdict
    BY <1>1, <1>3, <1>4 DEF FaithInv, ServerInv
  <2> SUFFICES ASSUME NEW d \in deferred, NEW k \in DOMAIN inbox', Covers(inbox'[k], d)
               PROVE  d \in DOMAIN verdict
    OBVIOUS
  <2>2. inbox'[k].tag \in DOMAIN verdict /\ d \in Nat \ {0} BY <1>3, <2>1
  <2>3. d <= inbox'[k].tag BY <2>1, <2>2, CoversBelow
  <2> QED BY <1>3, <2>2, <2>3
<1>6. ServerInv'
  <2>1. Len(verdict') = Len(verdict)
    <3>1. verdict' \in [1 .. Len(verdict) -> {"none", "ack", "nack"}]
      <4>1. CASE ServerOne(i, ack) BY <1>3, <4>1 DEF ServerOne, Answer, Inv, TypeOK
      <4>2. CASE ServerMultiple(i, ack)
        BY <1>3, <4>2 DEF ServerMultiple, Answer, Inv, TypeOK
      <4> QED BY <4>1, <4>2
    <3> QED BY <1>3, <3>1, SegmentSeq
  <2> QED BY <1>1, <1>2, <1>4, <2>1 DEF FaithInv, ServerInv
<1>7. FirstIsRight'
  <2> SUFFICES ASSUME NEW d \in deferred, NEW k \in DOMAIN inbox', Covers(inbox'[k], d)
               PROVE  \/ verdict'[d] = Answer(inbox'[k].ack)
                      \/ /\ verdict'[d] # "none"
                         /\ \E j \in DOMAIN inbox' : j < k /\ Covers(inbox'[j], d)
    BY <1>2 DEF FirstIsRight
  <2>1. d \in DOMAIN verdict BY <1>5
  <2>2. CASE k \in DOMAIN inbox
    <3>1. \/ verdict[d] = Answer(inbox[k].ack)
          \/ verdict[d] # "none" /\ \E j \in DOMAIN inbox : j < k /\ Covers(inbox[j], d)
      BY <1>4, <2>2 DEF FaithInv, FirstIsRight
    <3>2. Answer(inbox[k].ack) # "none" BY DEF Answer
    <3>3. verdict'[d] = verdict[d] /\ verdict[d] # "none" BY <1>1, <2>1, <3>1, <3>2
    <3> QED BY <1>4, <2>2, <3>1, <3>3
  <2>3. CASE k = Len(inbox) + 1
    <3>1. CASE verdict[d] = "none" BY <1>1, <1>4, <2>1, <2>3, <3>1
    <3>2. CASE verdict[d] # "none"
      <4>1. PICK j \in DOMAIN inbox : Covers(inbox[j], d)
        BY <2>1, <3>2 DEF FaithInv, VerdictUnderWay
      <4> QED BY <1>1, <1>4, <2>1, <2>3, <3>2, <4>1
    <3> QED BY <3>1, <3>2
  <2> QED BY <1>4, <2>2, <2>3
<1>8. VerdictUnderWay'
  <2> SUFFICES ASSUME NEW d \in deferred, d \in DOMAIN verdict, verdict'[d] # "none"
               PROVE  \E k \in DOMAIN inbox' : Covers(inbox'[k], d)
    BY <1>1, <1>2 DEF VerdictUnderWay
  <2>1. CASE verdict[d] = "none" BY <1>1, <1>4, <2>1
  <2>2. CASE verdict[d] # "none"
    <3>1. PICK j \in DOMAIN inbox : Covers(inbox[j], d)
      BY <2>2 DEF FaithInv, VerdictUnderWay
    <3> QED BY <1>4, <3>1
  <2> QED BY <2>1, <2>2
<1>9. DeferredFaithful'
  BY <1>1, <1>2 DEF FaithInv, DeferredFaithful
<1> QED BY <1>6, <1>7, <1>8, <1>9 DEF FaithInv

\* The other steps: publishing adds a tag that no acknowledgement covers yet.
LEMMA FaithPreserved ==
  ASSUME Inv, FaithInv, [Next]_vars
  PROVE  FaithInv'
<1> USE DEF confVars, readVars, pubVars, lisVars, srvVars
<1>1. CASE One
  <2>1. \A d \in deferred : d \in {cur'.tag} <=> Covers(cur', d) BY <1>1 DEF One, Covers
  <2> QED BY <1>1, <2>1, TakePreservesFaith DEF One
<1>2. CASE Multiple
  <2>1. deferred \subseteq Nat \ {0} /\ cur'.tag \in Nat
    BY <1>2, HeadTail DEF Multiple, Take, Inv, TypeOK, FaithInv, ServerInv, Message
  <2>2. \A d \in deferred : d \in 1 .. cur'.tag <=> Covers(cur', d)
    BY <1>2, <2>1 DEF Multiple, Covers
  <2> QED BY <1>2, <2>2, TakePreservesFaith DEF Multiple
<1>3. ASSUME NEW i \in DOMAIN verdict, NEW ack \in BOOLEAN,
             ServerOne(i, ack) \/ ServerMultiple(i, ack)
      PROVE  FaithInv'
  BY <1>3, ServerPreservesFaith
<1>4. /\ Len(verdict) \in Nat /\ DOMAIN verdict = 1 .. Len(verdict)
      /\ published \in Nat /\ Len(wire) \in Nat
      /\ inbox \in Seq(Message) /\ deferred \subseteq Nat \ {0}
  BY DEF Inv, TypeOK, FaithInv, ServerInv
<1>5. ASSUME NEW p \in Publishers, publish(p) PROVE FaithInv'
  <2>1. chM = p /\ published = Len(wire)
    BY <1>5, PublisherAssumption DEF publish, Inv, TypeOK, LockInv, CountInv, Counted
  <2>2. published + 1 \notin DOMAIN verdict /\ deferred' = deferred \cup {published + 1}
    BY <1>4, <1>5, <2>1 DEF publish, FaithInv, ServerInv
  <2>3. \A k \in DOMAIN inbox : ~Covers(inbox[k], published + 1)
    BY <1>4, <2>2 DEF Covers, FaithInv, ServerInv, Message
  <2>4. ServerInv' BY <1>4, <1>5, <2>2 DEF publish, FaithInv, ServerInv
  <2>5. FirstIsRight' BY <1>5, <2>2, <2>3 DEF publish, FaithInv, FirstIsRight
  <2>6. VerdictUnderWay' BY <1>5, <2>2 DEF publish, FaithInv, VerdictUnderWay
  <2>7. DeferredFaithful' BY <1>5 DEF publish, FaithInv, DeferredFaithful
  <2> QED BY <2>4, <2>5, <2>6, <2>7 DEF FaithInv
<1>6. ASSUME NEW p \in Publishers, sendOpen(p) PROVE FaithInv'
  <2>1. /\ Len(verdict') = Len(verdict) + 1 /\ Len(wire') = Len(wire) + 1
        /\ DOMAIN verdict' = DOMAIN verdict \cup {Len(verdict) + 1}
        /\ verdict'[Len(verdict) + 1] = "none"
        /\ \A d \in DOMAIN verdict : verdict'[d] = verdict[d]
    BY <1>6, AppendElements DEF sendOpen, Inv, TypeOK
  <2>2. UNCHANGED <<deferred, resolved, published, shut, inbox>>
    BY <1>6 DEF sendOpen
  <2>3. \A d \in deferred : \A k \in DOMAIN inbox :
          Covers(inbox[k], d) => d \in DOMAIN verdict
    BY <1>4 DEF Covers, FaithInv, ServerInv, Message
  <2>4. ServerInv' BY <2>1, <2>2 DEF FaithInv, ServerInv
  <2>5. FirstIsRight' BY <2>1, <2>2, <2>3 DEF FaithInv, FirstIsRight
  <2>6. VerdictUnderWay' BY <2>1, <2>2 DEF FaithInv, VerdictUnderWay
  <2>7. DeferredFaithful' BY <2>1, <2>2 DEF FaithInv, DeferredFaithful
  <2> QED BY <2>4, <2>5, <2>6, <2>7 DEF FaithInv
<1>7. ASSUME NEW p \in Publishers, unpublish(p) PROVE FaithInv'
  <2>1. UNCHANGED <<resolved, shut, srvVars>> /\ deferred' = deferred \ {published}
        /\ published' = published - 1
    BY <1>7 DEF unpublish
  <2>2. ServerInv' BY <1>4, <2>1 DEF FaithInv, ServerInv
  <2> QED BY <2>1, <2>2 DEF FaithInv, FirstIsRight, VerdictUnderWay, DeferredFaithful
<1>8. CASE Close
  <2>1. /\ deferred' = {} /\ shut' = "done" /\ UNCHANGED <<published, srvVars>>
        /\ \A r \in resolved' : r \in resolved \/ r.ack = FALSE
    BY <1>8 DEF Close, setAck
  <2>2. DeferredFaithful' BY <2>1 DEF FaithInv, DeferredFaithful
  <2> QED BY <2>1, <2>2 DEF FaithInv, ServerInv, FirstIsRight, VerdictUnderWay
<1>9. CASE setClosed \/ shutdownLock
  <2>1. shut # "done" /\ UNCHANGED <<confVars, srvVars>>
    BY <1>9 DEF setClosed, shutdownLock
  <2> QED BY <2>1 DEF FaithInv, ServerInv, FirstIsRight, VerdictUnderWay, DeferredFaithful
<1>10. SUFFICES ASSUME UNCHANGED <<published, deferred, resolved, shut, srvVars>>
                PROVE  FaithInv'
  BY <1>1, <1>2, <1>3, <1>5, <1>6, <1>7, <1>8, <1>9
     DEF Next, Publish, Publisher, PublishLock, send, sendFails, TakeAck, Reader,
         MultipleNext, CallResequence, resequenceNext, resequenceEnd,
         sendConfirmation, NotifyPublish, Receive, Shutdown, Break, vars
<1> QED BY <1>10 DEF FaithInv, ServerInv, FirstIsRight, VerdictUnderWay, DeferredFaithful

(***************************************************************************)
(* DeferredConfirmation.Wait tells the truth: true for a message that the  *)
(* server acknowledged, false for one that it refused or that was pending  *)
(* when the channel was shut down, for any mix of single and multiple      *)
(* acknowledgements and any number of publishings that failed.             *)
(***************************************************************************)
THEOREM WaitersToldTheTruth == Spec => []DeferredFaithful
<1>1. Init => FaithInv
  BY DEF Init, newConfirms, FaithInv, ServerInv, FirstIsRight, VerdictUnderWay,
         DeferredFaithful
<1>2. Inv /\ FaithInv /\ [Next]_vars => FaithInv'
  BY FaithPreserved
<1>3. FaithInv => DeferredFaithful
  BY DEF FaithInv
<1> QED BY Invariance, <1>1, <1>2, <1>3, PTL DEF Spec
=============================================================================
