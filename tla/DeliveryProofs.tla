--------------------------- MODULE DeliveryProofs ---------------------------
(***************************************************************************)
(* What consumers receive, for any number of goroutines, tags, consumers   *)
(* and deliveries, and whatever applications do: a consumer whose tag no   *)
(* other consumer has had gets the deliveries of its subscription, in      *)
(* order and without gaps.  (Of two consumers with one tag the later may   *)
(* get deliveries of the earlier that were on their way.)  If it is        *)
(* cancelled after Consume has returned, and without noWait, it gets all.  *)
(***************************************************************************)
EXTENDS ConsumersProofs, SequenceTheorems

\* No tag has been used twice, as when tags come from uniqueConsumerTag.
TagsOnce == \A c, k \in made : tagOf[c] = tagOf[k] => c = k

\* c is the only consumer its tag has had.
Sole(c) == c \in made /\ \A k \in made : tagOf[k] = tagOf[c] => k = c

\* The deliveries for tag t that the client has not handed over: the one in the
\* reader's hand, and those in the inbox.
InHand    == pc["reader"] \in {"send", "sending"}
Coming    == {i \in DOMAIN inbox : inbox[i].m = "deliver"}
Pending(t) == {inbox[i].d : i \in {j \in Coming : inbox[j].tag = t}}
                \cup (IF InHand /\ rmsg.tag = t THEN {rmsg.d} ELSE {})

\* What c has been given: received by the application, or in its queue.
Taken(c)    == Len(got[c]) + Len(queue[c])
Given(c, i) == IF i <= Len(got[c]) THEN got[c][i] ELSE queue[c][i - Len(got[c])]

\* The server numbers the deliveries as it sends them.
NumberInv ==
  /\ \A i, j \in Coming : i < j => inbox[i].d < inbox[j].d
  /\ InHand => rmsg.d <= sent /\ \A i \in Coming : rmsg.d < inbox[i].d
  /\ \A i \in Coming : inbox[i].d <= sent
  /\ \A c \in Cons : \A k \in DOMAIN sentFor[c] :
       /\ sentFor[c][k] <= sent
       /\ \A l \in DOMAIN sentFor[c] : k < l => sentFor[c][k] < sentFor[c][l]

\* It delivers to a tag for the consumer that was added with it, and nothing
\* exists for a consumer before add.
OwnerInv ==
  /\ \A a \in Apps : pc[a] = "consume" => tagOf[cur[a]] = arg[a]
  /\ \A t \in active : owner[t] \in made /\ tagOf[owner[t]] = t
  /\ \A t \in Tags : Pending(t) # {} => \E c \in made : tagOf[c] = t
  /\ \A c \in Cons \ made : queue[c] = <<>> /\ got[c] = <<>> /\ sentFor[c] = <<>>

\* A sole consumer has been given the first of what the server has sent it, and
\* while it is in the map the rest is pending.
InStep(c) ==
  /\ Taken(c) <= Len(sentFor[c])
  /\ \A i \in 1 .. Taken(c) : Given(c, i) = sentFor[c][i]
  /\ chans[tagOf[c]] = c =>
       /\ \A k \in DOMAIN sentFor[c] : Taken(c) < k <=> sentFor[c][k] \in Pending(tagOf[c])
       /\ \A d \in Pending(tagOf[c]) : \E k \in DOMAIN sentFor[c] : sentFor[c][k] = d

StreamInv == \A c \in Cons : Sole(c) => InStep(c)

DeliveryInv == NumberInv /\ OwnerInv /\ StreamInv

-----------------------------------------------------------------------------
\* The elements of a queue of frames with one more, and of its tail.
LEMMA GrownElements ==
  ASSUME NEW S, NEW q \in Seq(S), NEW e \in S
  PROVE  /\ Len(q \o <<e>>) = Len(q) + 1 /\ Len(q) \in Nat /\ DOMAIN q = 1 .. Len(q)
         /\ DOMAIN (q \o <<e>>) = 1 .. Len(q) + 1 /\ (q \o <<e>>)[Len(q) + 1] = e
         /\ \A i \in DOMAIN q : (q \o <<e>>)[i] = q[i]
OBVIOUS

\* The elements of the rest of a queue.
LEMMA TailElements ==
  ASSUME NEW S, NEW q \in Seq(S), q # <<>>
  PROVE  /\ Len(q) \in Nat \ {0} /\ Len(Tail(q)) = Len(q) - 1 /\ Head(q) = q[1]
         /\ DOMAIN q = 1 .. Len(q) /\ DOMAIN Tail(q) = 1 .. Len(q) - 1
         /\ \A i \in DOMAIN Tail(q) : Tail(q)[i] = q[i + 1]
OBVIOUS

\* The elements of a sequence with one more.
LEMMA AppendElements ==
  ASSUME NEW S, NEW q \in Seq(S), NEW e \in S
  PROVE  /\ Len(Append(q, e)) = Len(q) + 1 /\ Len(q) \in Nat
         /\ DOMAIN Append(q, e) = 1 .. Len(q) + 1 /\ Append(q, e)[Len(q) + 1] = e
         /\ DOMAIN q = 1 .. Len(q) /\ \A i \in 1 .. Len(q) : Append(q, e)[i] = q[i]
OBVIOUS

\* Sums of numbers whose form the prover must not look into.
LEMMA SumNat ==
  ASSUME NEW m \in Nat, NEW n \in Nat
  PROVE  m + n \in Nat
OBVIOUS

\* A sequence of numbers that grows by a larger one goes on increasing.
LEMMA Increasing ==
  ASSUME NEW q \in Seq(1 .. MaxDeliver), NEW e \in 1 .. MaxDeliver,
         \A i \in DOMAIN q : q[i] < e,
         \A i, j \in DOMAIN q : i < j => q[i] < q[j]
  PROVE  /\ \A i \in DOMAIN Append(q, e) : Append(q, e)[i] <= e
         /\ \A i, j \in DOMAIN Append(q, e) : i < j => Append(q, e)[i] < Append(q, e)[j]
<1> DEFINE n == Len(q)
           r == Append(q, e)
<1>1. /\ n \in Nat /\ DOMAIN q = 1 .. n /\ DOMAIN r = 1 .. n + 1 /\ r[n + 1] = e
      /\ \A i \in 1 .. n : r[i] = q[i]
  BY AppendElements
<1>2. \A i \in 1 .. n : q[i] \in 1 .. MaxDeliver BY ElementOfSeq
<1> HIDE DEF n, r
<1>3. ASSUME NEW i \in 1 .. n + 1 PROVE r[i] <= e
  <2>1. CASE i = n + 1 BY <1>1, <2>1
  <2>2. CASE i \in 1 .. n BY <1>1, <1>2, <2>2, BoundAssumption
  <2> QED BY <1>1, <2>1, <2>2
<1>4. ASSUME NEW i \in 1 .. n + 1, NEW j \in 1 .. n + 1, i < j PROVE r[i] < r[j]
  <2>1. i \in 1 .. n BY <1>1, <1>4
  <2>2. CASE j = n + 1 BY <1>1, <2>1, <2>2
  <2>3. CASE j \in 1 .. n BY <1>1, <1>4, <2>1, <2>3
  <2> QED BY <1>1, <2>2, <2>3
<1> QED BY <1>1, <1>3, <1>4 DEF r

\* A frame that is not a delivery adds none.
LEMMA OtherFrame ==
  ASSUME TypeOK, NEW f \in Frame, f.m # "deliver", FromServer(<<f>>)
  PROVE  Coming' = Coming /\ \A i \in Coming : inbox'[i] = inbox[i]
<1>1. inbox \in Seq(Frame) /\ inbox' = inbox \o <<f>> BY DEF TypeOK, FromServer
<1> QED BY <1>1, GrownElements DEF Coming

\* Deliveries in an inbox that stays as it is.
LEMMA SameFrames ==
  ASSUME inbox' = inbox
  PROVE  Coming' = Coming /\ \A i \in Coming : inbox'[i] = inbox[i]
BY DEF Coming

\* The frames of the server that are not deliveries.
LEMMA OtherFrames ==
  /\ \A t \in Tags : /\ Msg("cancel", t, 0) \in Frame /\ Msg("cancelOk", t, 0) \in Frame
                     /\ Msg("cancel", t, 0).m # "deliver" /\ Msg("cancelOk", t, 0).m # "deliver"
  /\ Msg("close", None, 0) \in Frame /\ Msg("close", None, 0).m # "deliver"
  /\ Msg("consumeOk", None, 0) \in Frame /\ Msg("consumeOk", None, 0).m # "deliver"
  /\ Msg("closeOk", None, 0) \in Frame /\ Msg("closeOk", None, 0).m # "deliver"
BY Frames DEF Msg

\* What is pending depends on the deliveries in the inbox and in the reader's hand.
LEMMA SamePending ==
  ASSUME Coming' = Coming, \A i \in Coming : inbox'[i] = inbox[i],
         rmsg' = rmsg, InHand' <=> InHand
  PROVE  \A t \in Tags : Pending(t)' = Pending(t)
<1> TAKE t \in Tags
<1>1. {inbox'[i].d : i \in {j \in Coming' : inbox'[j].tag = t}}
        = {inbox[i].d : i \in {j \in Coming : inbox[j].tag = t}}
  OBVIOUS
<1> QED BY <1>1 DEF Pending

\* The lengths of what was sent to a consumer and of what it was given.
LEMMA Lengths ==
  ASSUME TypeOK, NEW c \in Cons
  PROVE  /\ Len(got[c]) \in Nat /\ Len(queue[c]) \in Nat /\ Taken(c) \in Nat
         /\ Len(sentFor[c]) \in Nat /\ DOMAIN sentFor[c] = 1 .. Len(sentFor[c])
         /\ \A k \in DOMAIN sentFor[c] : sentFor[c][k] \in 1 .. MaxDeliver
<1>1. /\ got[c] \in Seq(1 .. MaxDeliver) /\ queue[c] \in Seq(1 .. MaxDeliver)
      /\ sentFor[c] \in Seq(1 .. MaxDeliver)
  BY DEF TypeOK
<1>2. Len(got[c]) \in Nat /\ Len(queue[c]) \in Nat BY <1>1, LenProperties
<1>3. /\ Len(sentFor[c]) \in Nat /\ DOMAIN sentFor[c] = 1 .. Len(sentFor[c])
      /\ \A k \in DOMAIN sentFor[c] : sentFor[c][k] \in 1 .. MaxDeliver
  BY <1>1, LenProperties, ElementOfSeq
<1>4. Taken(c) \in Nat BY <1>2, SumNat DEF Taken
<1> QED BY <1>2, <1>3, <1>4

\* A consumer that neither is sent nor is given anything stays in step.
LEMMA SameStep ==
  ASSUME NEW c \in Cons, InStep(c), UNCHANGED <<sentFor[c], queue[c], got[c]>>,
         chans'[tagOf'[c]] = c =>
           chans[tagOf[c]] = c /\ Pending(tagOf[c])' = Pending(tagOf[c])
  PROVE  InStep(c)'
<1>1. Taken(c)' = Taken(c) /\ \A i \in 1 .. Taken(c) : Given(c, i)' = Given(c, i)
  BY DEF Taken, Given
<1> QED BY <1>1 DEF InStep

\* A step that neither sends, hands over nor receives a delivery, and registers
\* nothing, leaves the relation as it is.
LEMMA QuietKeeps ==
  ASSUME Inv, DeliveryInv,
         Coming' = Coming, \A i \in Coming : inbox'[i] = inbox[i],
         InHand' <=> InHand,
         UNCHANGED <<rmsg, sent, sentFor, queue, got, made, tagOf>>,
         \A t \in Tags : chans'[t] \in {chans[t], None},
         \A a \in Apps : pc'[a] = "consume" => /\ pc[a] = "consume"
                                               /\ cur'[a] = cur[a] /\ arg'[a] = arg[a],
         \A t \in active' : owner'[t] \in made /\ tagOf[owner'[t]] = t
  PROVE  DeliveryInv'
<1>1. \A t \in Tags : Pending(t)' = Pending(t) BY SamePending
<1>2. NumberInv' BY DEF DeliveryInv, NumberInv
<1>3. OwnerInv' BY <1>1 DEF DeliveryInv, OwnerInv
<1>4. StreamInv'
  <2> SUFFICES ASSUME NEW c \in Cons, Sole(c) PROVE InStep(c)'
    BY DEF StreamInv, Sole
  <2>1. tagOf[c] \in Tags /\ c # None BY NameAssumption DEF Inv, MapInv, Sole, None
  <2>2. Pending(tagOf[c])' = Pending(tagOf[c]) BY <1>1, <2>1
  <2>3. chans'[tagOf[c]] = c => chans[tagOf[c]] = c BY <2>1
  <2>4. InStep(c) BY DEF DeliveryInv, StreamInv
  <2> QED BY <2>2, <2>3, <2>4, SameStep
<1> QED BY <1>2, <1>3, <1>4 DEF DeliveryInv

\* Consume makes a consumer for which nothing has been sent; if its tag is new,
\* nothing is on its way either.
LEMMA ConsumeKeeps ==
  ASSUME Inv, DeliveryInv, NEW a \in Apps, NEW t \in Tags, NEW c \in Cons, Consume(a, t, c)
  PROVE  DeliveryInv'
<1>1. /\ c \notin made /\ made' = made \cup {c} /\ tagOf' = [tagOf EXCEPT ![c] = t]
      /\ chans' = [chans EXCEPT ![t] = c]
      /\ pc' = [pc EXCEPT ![a] = "consume"] /\ arg' = [arg EXCEPT ![a] = t]
      /\ cur' = [cur EXCEPT ![a] = c]
      /\ UNCHANGED <<queue, got, rmsg, inbox, active, owner, sent, sentFor>>
  BY DEF Consume, add, Go, srvVars
<1>2. TypeOK /\ MapInv BY DEF Inv
<1>3. \A k \in made : tagOf'[k] = tagOf[k] BY <1>1, <1>2 DEF TypeOK
<1>4. tagOf'[c] = t BY <1>1, <1>2 DEF TypeOK
<1>5. InHand' = InHand
  <2>1. pc'["reader"] = pc["reader"] BY <1>1, <1>2, NameAssumption DEF TypeOK, Threads, Callers
  <2> QED BY <2>1 DEF InHand
<1>6. \A u \in Tags : Pending(u)' = Pending(u)
  BY <1>1, <1>5, SameFrames, SamePending
<1>7. NumberInv'
  BY <1>1, <1>5, SameFrames DEF DeliveryInv, NumberInv
<1>8. OwnerInv'
  <2>1. ASSUME NEW b \in Apps, pc'[b] = "consume" PROVE tagOf'[cur'[b]] = arg'[b]
    <3>1. CASE b = a BY <1>1, <1>2, <1>4, <3>1 DEF TypeOK, Callers
    <3>2. CASE b # a
      <4>1. pc[b] = "consume" /\ cur'[b] = cur[b] /\ arg'[b] = arg[b]
        BY <1>1, <1>2, <2>1, <3>2 DEF TypeOK, Callers, Threads
      <4>2. cur[b] \in made BY <4>1 DEF Inv, CallInv
      <4> QED BY <1>3, <4>1, <4>2 DEF DeliveryInv, OwnerInv
    <3> QED BY <3>1, <3>2
  <2>2. \A u \in active' : owner'[u] \in made' /\ tagOf'[owner'[u]] = u
    BY <1>1, <1>3 DEF DeliveryInv, OwnerInv
  <2>3. \A u \in Tags : Pending(u)' # {} => \E k \in made' : tagOf'[k] = u
    BY <1>1, <1>3, <1>6 DEF DeliveryInv, OwnerInv
  <2>4. \A k \in Cons \ made' : queue'[k] = <<>> /\ got'[k] = <<>> /\ sentFor'[k] = <<>>
    BY <1>1 DEF DeliveryInv, OwnerInv
  <2> QED BY <2>1, <2>2, <2>3, <2>4 DEF OwnerInv
<1>9. StreamInv'
  <2> SUFFICES ASSUME NEW k \in Cons, Sole(k)' PROVE InStep(k)'
    BY DEF StreamInv
  <2>1. CASE k = c
    <3>1. \A l \in made : tagOf[l] # t
      BY <1>1, <1>3, <1>4, <2>1 DEF Sole
    <3>2. Pending(t) = {} BY <3>1 DEF DeliveryInv, OwnerInv
    <3>3. queue'[k] = <<>> /\ got'[k] = <<>> /\ sentFor'[k] = <<>>
      BY <1>1, <2>1 DEF DeliveryInv, OwnerInv
    <3>4. Taken(k)' = 0 /\ Len(sentFor'[k]) = 0 /\ DOMAIN sentFor'[k] = {} BY <3>3 DEF Taken
    <3>5. Pending(tagOf[k])' = {} BY <1>4, <1>6, <2>1, <3>2
    <3> QED BY <3>3, <3>4, <3>5 DEF InStep
  <2>2. CASE k # c
    <3>1. k \in made /\ tagOf'[k] = tagOf[k] /\ tagOf[k] \in Tags
      BY <1>1, <1>2, <1>3, <2>2 DEF Sole, MapInv
    <3>2. Sole(k) /\ tagOf[k] # t
      BY <1>1, <1>3, <1>4, <2>2, <3>1 DEF Sole
    <3>3. chans'[tagOf'[k]] = chans[tagOf[k]] /\ Pending(tagOf[k])' = Pending(tagOf[k])
      BY <1>1, <1>2, <1>6, <3>1, <3>2 DEF TypeOK
    <3>4. InStep(k) BY <3>2 DEF DeliveryInv, StreamInv
    <3> QED BY <1>1, <3>3, <3>4, SameStep
  <2> QED BY <2>1, <2>2
<1> QED BY <1>7, <1>8, <1>9 DEF DeliveryInv

\* A delivery leaves the server for the consumer that owns the tag.
LEMMA DeliverKeeps ==
  ASSUME Inv, DeliveryInv, NEW t \in Tags, Deliver(t)
  PROVE  DeliveryInv'
<1> DEFINE o == owner[t]
<1>1. /\ t \in active /\ sent' = sent + 1 /\ sent' \in 1 .. MaxDeliver
      /\ sentFor' = [sentFor EXCEPT ![o] = Append(@, sent')]
      /\ inbox' = inbox \o <<Msg("deliver", t, sent')>>
      /\ UNCHANGED <<active, owner, chans, made, tagOf, queue, got, pc, arg, cur, rmsg>>
  BY BoundAssumption DEF Deliver, FromServer, Inv, TypeOK, subsVars, bufVars, callVars
<1>2. TypeOK /\ MapInv BY DEF Inv
<1>3. o \in made /\ o \in Cons /\ tagOf[o] = t
  BY <1>1, <1>2 DEF DeliveryInv, OwnerInv, TypeOK
<1> DEFINE f == Msg("deliver", t, sent')
           n == Len(inbox) + 1
<1>4. f \in Frame /\ f.m = "deliver" /\ f.tag = t /\ f.d = sent' BY <1>1, Frames DEF Msg
<1> HIDE DEF f, o
<1>5. /\ n \in Nat /\ n \notin Coming /\ Coming' = Coming \cup {n} /\ inbox'[n] = f
      /\ \A i \in Coming : inbox'[i] = inbox[i] /\ i \in Nat /\ i < n
  <2>1. inbox \in Seq(Frame) /\ inbox' = inbox \o <<f>> BY <1>1, <1>2 DEF TypeOK, f
  <2> QED BY <1>4, <2>1, GrownElements DEF Coming
<1> HIDE DEF n
<1>6. InHand' = InHand BY <1>1 DEF InHand
<1>7. \A u \in Tags : Pending(u)' = IF u = t THEN Pending(u) \cup {sent'} ELSE Pending(u)
  <2> TAKE u \in Tags
  <2>1. {j \in Coming' : inbox'[j].tag = u}
          = {j \in Coming : inbox[j].tag = u} \cup (IF u = t THEN {n} ELSE {})
    BY <1>4, <1>5
  <2>2. {inbox'[i].d : i \in {j \in Coming' : inbox'[j].tag = u}}
          = {inbox[i].d : i \in {j \in Coming : inbox[j].tag = u}}
              \cup (IF u = t THEN {sent'} ELSE {})
    BY <1>4, <1>5, <2>1
  <2> QED BY <1>1, <1>6, <2>2 DEF Pending
<1>8. /\ \A k \in Cons : k # o => sentFor'[k] = sentFor[k]
      /\ sentFor'[o] = Append(sentFor[o], sent')
  BY <1>1, <1>2, <1>3 DEF TypeOK
<1>9. /\ Len(sentFor[o]) \in Nat /\ Len(sentFor'[o]) = Len(sentFor[o]) + 1
      /\ DOMAIN sentFor[o] = 1 .. Len(sentFor[o])
      /\ DOMAIN sentFor'[o] = 1 .. Len(sentFor[o]) + 1
      /\ sentFor'[o][Len(sentFor[o]) + 1] = sent'
      /\ \A i \in 1 .. Len(sentFor[o]) : sentFor'[o][i] = sentFor[o][i]
  <2>1. sentFor[o] \in Seq(1 .. MaxDeliver) BY <1>2, <1>3 DEF TypeOK
  <2> QED BY <1>1, <1>8, <2>1, AppendElements
<1>10. sent \in Nat /\ sent' = sent + 1 BY <1>1, <1>2, BoundAssumption DEF TypeOK
<1>11. \A k \in Cons : \A l \in DOMAIN sentFor[k] : sentFor[k][l] \in Nat /\ sentFor[k][l] <= sent
  BY <1>2, BoundAssumption DEF TypeOK, DeliveryInv, NumberInv
<1>12. \A i \in Coming : inbox[i].d \in Nat /\ inbox[i].d <= sent
  BY <1>2, BoundAssumption, FrameTag DEF TypeOK, DeliveryInv, NumberInv, Coming
<1>13. NumberInv'
  <2>1. ASSUME NEW i \in Coming', NEW j \in Coming', i < j PROVE inbox'[i].d < inbox'[j].d
    <3>1. i \in Coming
      <4>1. i \in Nat /\ j \in Nat /\ j <= n BY <1>5
      <4> QED BY <1>5, <2>1, <4>1
    <3>2. CASE j = n BY <1>4, <1>5, <1>10, <1>12, <3>1, <3>2
    <3>3. CASE j \in Coming BY <1>5, <2>1, <3>1, <3>3 DEF DeliveryInv, NumberInv
    <3> QED BY <1>5, <2>1, <3>2, <3>3
  <2>2. InHand' => rmsg'.d <= sent' /\ \A i \in Coming' : rmsg'.d < inbox'[i].d
    <3>1. InHand => rmsg.d \in Nat
      BY <1>2, BoundAssumption, FrameTag DEF InHand, Inv, CallInv, TypeOK
    <3>2. InHand => rmsg.d <= sent /\ \A i \in Coming : rmsg.d < inbox[i].d
      BY DEF DeliveryInv, NumberInv
    <3>3. ASSUME InHand, NEW i \in Coming' PROVE rmsg.d < inbox'[i].d
      <4>1. CASE i = n BY <1>4, <1>5, <1>10, <3>1, <3>2, <3>3, <4>1
      <4>2. CASE i \in Coming BY <1>5, <3>2, <3>3, <4>2
      <4> QED BY <1>5, <3>3, <4>1, <4>2
    <3>4. InHand => rmsg.d <= sent' BY <1>10, <3>1, <3>2
    <3>5. rmsg' = rmsg BY <1>1
    <3> QED BY <1>6, <3>3, <3>4, <3>5
  <2>3. \A i \in Coming' : inbox'[i].d <= sent'
    BY <1>4, <1>5, <1>10, <1>12
  <2>4. ASSUME NEW k \in Cons, NEW l \in DOMAIN sentFor'[k]
        PROVE  /\ sentFor'[k][l] <= sent'
               /\ \A m \in DOMAIN sentFor'[k] : l < m => sentFor'[k][l] < sentFor'[k][m]
    <3>0. \A i, j \in DOMAIN sentFor[k] : i < j => sentFor[k][i] < sentFor[k][j]
      BY DEF DeliveryInv, NumberInv
    <3>1. CASE k = o
      <4>1. sentFor[o] \in Seq(1 .. MaxDeliver) BY <1>2, <1>3 DEF TypeOK
      <4>2. \A i \in DOMAIN sentFor[o] : sentFor[o][i] < sent' BY <1>3, <1>10, <1>11
      <4> QED BY <1>1, <1>8, <2>4, <3>0, <3>1, <4>1, <4>2, Increasing
    <3>2. CASE k # o
      BY <1>8, <1>10, <1>11, <2>4, <3>2 DEF DeliveryInv, NumberInv
    <3> QED BY <3>1, <3>2
  <2> QED BY <2>1, <2>2, <2>3, <2>4 DEF NumberInv
<1>14. OwnerInv'
  <2>1. \A u \in Tags : Pending(u)' # {} => \E k \in made' : tagOf'[k] = u
    BY <1>1, <1>3, <1>7 DEF DeliveryInv, OwnerInv
  <2>2. \A k \in Cons \ made' : queue'[k] = <<>> /\ got'[k] = <<>> /\ sentFor'[k] = <<>>
    BY <1>1, <1>3, <1>8 DEF DeliveryInv, OwnerInv
  <2> QED BY <1>1, <2>1, <2>2 DEF DeliveryInv, OwnerInv
<1>15. StreamInv'
  <2> SUFFICES ASSUME NEW k \in Cons, Sole(k) PROVE InStep(k)'
    BY <1>1 DEF StreamInv, Sole
  <2>1. tagOf[k] \in Tags /\ (tagOf[k] = t <=> k = o) BY <1>2, <1>3 DEF Sole, MapInv
  <2>2. Taken(k)' = Taken(k) /\ \A i \in 1 .. Taken(k) : Given(k, i)' = Given(k, i)
    BY <1>1 DEF Taken, Given
  <2>3. Taken(k) \in Nat BY <1>2, Lengths
  <2>0. InStep(k) BY DEF DeliveryInv, StreamInv
  <2>4. CASE k # o
    <3>1. Pending(tagOf[k])' = Pending(tagOf[k]) /\ sentFor'[k] = sentFor[k]
      BY <1>1, <1>7, <1>8, <2>1, <2>4
    <3> QED BY <1>1, <2>0, <3>1, SameStep
  <2>5. CASE k = o
    <3>1. Pending(tagOf[k])' = Pending(tagOf[k]) \cup {sent'} BY <1>1, <1>7, <2>1, <2>5
    <3>2. /\ Taken(k) <= Len(sentFor[k])
          /\ \A i \in 1 .. Taken(k) : Given(k, i) = sentFor[k][i]
          /\ chans[tagOf[k]] = k =>
               /\ \A l \in DOMAIN sentFor[k] : Taken(k) < l <=> sentFor[k][l] \in Pending(tagOf[k])
               /\ \A d \in Pending(tagOf[k]) : \E l \in DOMAIN sentFor[k] : sentFor[k][l] = d
      BY <2>0 DEF InStep
    <3>3. \A l \in DOMAIN sentFor[k] : sentFor[k][l] # sent' BY <1>10, <1>11
    <3>4. (Taken(k) <= Len(sentFor[k]))' BY <1>9, <2>2, <2>3, <2>5, <3>2
    <3>5. \A i \in 1 .. Taken(k)' : Given(k, i)' = sentFor'[k][i]
      BY <1>9, <2>2, <2>3, <2>5, <3>2
    <3>6. ASSUME chans[tagOf[k]] = k, NEW l \in DOMAIN sentFor'[k]
          PROVE  Taken(k)' < l <=> sentFor'[k][l] \in Pending(tagOf[k])'
      <4>1. CASE l = Len(sentFor[k]) + 1 BY <1>9, <2>2, <2>3, <2>5, <3>1, <3>2, <4>1
      <4>2. CASE l \in 1 .. Len(sentFor[k])
        BY <1>9, <2>2, <2>5, <3>1, <3>2, <3>3, <3>6, <4>2
      <4> QED BY <1>9, <2>5, <3>6, <4>1, <4>2
    <3>7. ASSUME chans[tagOf[k]] = k, NEW d \in Pending(tagOf[k])'
          PROVE  \E l \in DOMAIN sentFor'[k] : sentFor'[k][l] = d
      <4>1. CASE d = sent' BY <1>9, <2>5, <4>1
      <4>2. CASE d \in Pending(tagOf[k])
        <5>1. PICK l \in DOMAIN sentFor[k] : sentFor[k][l] = d BY <3>2, <3>7, <4>2
        <5> QED BY <1>9, <2>5, <5>1
      <4> QED BY <3>1, <3>7, <4>1, <4>2
    <3> QED BY <1>1, <3>4, <3>5, <3>6, <3>7 DEF InStep
  <2> QED BY <2>4, <2>5
<1> QED BY <1>13, <1>14, <1>15 DEF DeliveryInv

\* The reader takes the next frame from the inbox.
LEMMA DispatchFrames ==
  ASSUME Inv, dispatch
  PROVE  /\ ~InHand /\ (InHand' <=> rmsg'.m = "deliver") /\ \A a \in Apps : pc'[a] = pc[a]
         /\ rmsg' = inbox[1] /\ Len(inbox) \in Nat \ {0} /\ DOMAIN inbox = 1 .. Len(inbox)
         /\ DOMAIN inbox' = 1 .. Len(inbox) - 1
         /\ \A i \in DOMAIN inbox' : inbox'[i] = inbox[i + 1]
         /\ \A i \in Coming' : i + 1 \in Coming /\ inbox'[i] = inbox[i + 1] /\ i \in Nat /\ 1 < i + 1
         /\ \A i \in Coming : i \in Nat /\ (i # 1 => i - 1 \in Coming' /\ inbox'[i - 1] = inbox[i])
         /\ 1 \in Coming <=> InHand'
         /\ \A t \in Tags : Pending(t)' = Pending(t)
<1>1. /\ inbox # <<>> /\ inbox' = Tail(inbox) /\ rmsg' = Head(inbox)
      /\ UNCHANGED <<active, owner, sent, sentFor, chans, made, tagOf, queue, got, arg, cur>>
  BY DEF dispatch, subsVars, bufVars
<1>2. TypeOK /\ MapInv BY DEF Inv
<1>3. /\ ~InHand /\ (InHand' <=> rmsg'.m = "deliver")
      /\ \A a \in Apps : pc'[a] = pc[a]
  BY <1>2, NameAssumption DEF dispatch, Go, InHand, TypeOK, Threads, Callers
<1>4. /\ rmsg' = inbox[1] /\ Len(inbox) \in Nat \ {0} /\ DOMAIN inbox = 1 .. Len(inbox)
      /\ DOMAIN inbox' = 1 .. Len(inbox) - 1
      /\ \A i \in DOMAIN inbox' : inbox'[i] = inbox[i + 1]
  <2>1. inbox \in Seq(Frame) BY <1>2 DEF TypeOK
  <2> QED BY <1>1, <2>1, TailElements
<1>5. /\ \A i \in Coming' : i + 1 \in Coming /\ inbox'[i] = inbox[i + 1] /\ i \in Nat /\ 1 < i + 1
      /\ \A i \in Coming : i \in Nat /\ (i # 1 => i - 1 \in Coming' /\ inbox'[i - 1] = inbox[i])
      /\ 1 \in Coming <=> InHand'
  BY <1>3, <1>4 DEF Coming
<1>6. ASSUME NEW t \in Tags PROVE Pending(t)' = Pending(t)
  <2>1. Pending(t) = {inbox[i].d : i \in {j \in Coming : inbox[j].tag = t}}
    BY <1>3 DEF Pending
  <2>2. Pending(t)' = {inbox'[i].d : i \in {j \in Coming' : inbox'[j].tag = t}}
                        \cup (IF 1 \in Coming /\ inbox[1].tag = t THEN {inbox[1].d} ELSE {})
    BY <1>4, <1>5 DEF Pending
  <2>3. ASSUME NEW d \in Pending(t) PROVE d \in Pending(t)'
    <3>1. PICK i \in Coming : inbox[i].tag = t /\ d = inbox[i].d BY <2>1, <2>3
    <3>2. CASE i = 1 BY <2>2, <3>1, <3>2
    <3>3. CASE i # 1
      <4>1. i - 1 \in Coming' /\ inbox'[i - 1] = inbox[i] BY <1>5, <3>1, <3>3
      <4> QED BY <2>2, <3>1, <4>1
    <3> QED BY <3>2, <3>3
  <2>4. ASSUME NEW d \in Pending(t)' PROVE d \in Pending(t)
    <3>1. CASE 1 \in Coming /\ inbox[1].tag = t /\ d = inbox[1].d BY <2>1, <3>1
    <3>2. CASE \E i \in Coming' : inbox'[i].tag = t /\ d = inbox'[i].d
      <4>1. PICK i \in Coming' : inbox'[i].tag = t /\ d = inbox'[i].d BY <3>2
      <4>2. i + 1 \in Coming /\ inbox'[i] = inbox[i + 1] BY <1>5, <4>1
      <4> QED BY <2>1, <4>1, <4>2
    <3> QED BY <2>2, <2>4, <3>1, <3>2
  <2> QED BY <2>3, <2>4
<1> QED BY <1>3, <1>4, <1>5, <1>6

\* The delivery that the reader takes goes from the inbox to its hand.
LEMMA DispatchKeeps ==
  ASSUME Inv, DeliveryInv, dispatch
  PROVE  DeliveryInv'
<1>1. UNCHANGED <<active, owner, sent, sentFor, chans, made, tagOf, queue, got, arg, cur>>
  BY DEF dispatch, subsVars, bufVars
<1>2. TypeOK /\ MapInv BY DEF Inv
<1>3. \A a \in Apps : pc'[a] = pc[a] BY DispatchFrames
<1>4. rmsg' = inbox[1] BY DispatchFrames
<1>5. /\ \A i \in Coming' : i + 1 \in Coming /\ inbox'[i] = inbox[i + 1] /\ i \in Nat /\ 1 < i + 1
      /\ 1 \in Coming <=> InHand'
  BY DispatchFrames
<1>6. \A t \in Tags : Pending(t)' = Pending(t) BY DispatchFrames
<1>7. NumberInv'
  <2>1. /\ \A i, j \in Coming : i < j => inbox[i].d < inbox[j].d
        /\ \A i \in Coming : inbox[i].d <= sent
    BY DEF DeliveryInv, NumberInv
  <2>2. ASSUME NEW i \in Coming', NEW j \in Coming', i < j PROVE inbox'[i].d < inbox'[j].d
    <3>1. i + 1 < j + 1 BY <1>5, <2>2
    <3> QED BY <1>5, <2>1, <2>2, <3>1
  <2>3. InHand' => rmsg'.d <= sent' /\ \A i \in Coming' : rmsg'.d < inbox'[i].d
    BY <1>1, <1>4, <1>5, <2>1
  <2>4. \A i \in Coming' : inbox'[i].d <= sent' BY <1>1, <1>5, <2>1
  <2> QED BY <1>1, <2>2, <2>3, <2>4 DEF DeliveryInv, NumberInv
<1>8. OwnerInv' BY <1>1, <1>3, <1>6 DEF DeliveryInv, OwnerInv
<1>9. StreamInv'
  <2> SUFFICES ASSUME NEW c \in Cons, Sole(c) PROVE InStep(c)'
    BY <1>1 DEF StreamInv, Sole
  <2>1. tagOf[c] \in Tags BY <1>2 DEF Sole, MapInv
  <2>2. Pending(tagOf[c])' = Pending(tagOf[c]) BY <1>1, <1>6, <2>1
  <2>3. InStep(c) BY DEF DeliveryInv, StreamInv
  <2> QED BY <1>1, <2>2, <2>3, SameStep
<1> QED BY <1>7, <1>8, <1>9 DEF DeliveryInv

\* A delivery that nobody is registered for is dropped.
LEMMA SendKeeps ==
  ASSUME Inv, DeliveryInv, send
  PROVE  DeliveryInv'
<1>1. /\ UNCHANGED <<inbox, rmsg, active, owner, sent, sentFor, chans, made, tagOf, queue, got, arg, cur>>
      /\ InHand
  BY DEF send, bufVars, srvVars, InHand
<1>2. TypeOK /\ MapInv BY DEF Inv
<1>3. \A a \in Apps : pc'[a] = pc[a]
  BY <1>2, NameAssumption DEF send, Go, TypeOK, Threads, Callers
<1>4. CASE InHand'
  BY <1>1, <1>3, <1>4, SameFrames, QuietKeeps DEF DeliveryInv, OwnerInv
<1>5. CASE ~InHand'
  <2>1. chans[rmsg.tag] = None
    BY <1>2, <1>5 DEF send, Go, InHand, Target, TypeOK, Threads
  <2>2. Coming' = Coming /\ \A i \in Coming : inbox'[i] = inbox[i] BY <1>1, SameFrames
  <2>3. \A t \in Tags : /\ Pending(t)' \subseteq Pending(t)
                        /\ t # rmsg.tag => Pending(t)' = Pending(t)
    <3> TAKE t \in Tags
    <3>1. Pending(t)' = {inbox[i].d : i \in {j \in Coming : inbox[j].tag = t}}
      BY <1>1, <1>5, <2>2 DEF Pending
    <3> QED BY <3>1 DEF Pending
  <2>4. NumberInv' BY <1>1, <1>5, <2>2 DEF DeliveryInv, NumberInv
  <2>5. OwnerInv'
    <3>1. \A t \in Tags : Pending(t)' # {} => \E c \in made : tagOf[c] = t
      BY <2>3 DEF DeliveryInv, OwnerInv
    <3> QED BY <1>1, <1>3, <3>1 DEF DeliveryInv, OwnerInv
  <2>6. StreamInv'
    <3> SUFFICES ASSUME NEW c \in Cons, Sole(c) PROVE InStep(c)'
      BY <1>1 DEF StreamInv, Sole
    <3>1. tagOf[c] \in Tags /\ c # None BY <1>2, NameAssumption DEF Sole, MapInv, None
    <3>2. chans[tagOf[c]] = c => Pending(tagOf[c])' = Pending(tagOf[c])
      BY <1>1, <2>1, <2>3, <3>1
    <3>3. InStep(c) BY DEF DeliveryInv, StreamInv
    <3> QED BY <1>1, <3>2, <3>3, SameStep
  <2> QED BY <2>4, <2>5, <2>6 DEF DeliveryInv
<1> QED BY <1>4, <1>5

\* The delivery in the reader's hand is the next one for its consumer.
LEMMA NextInHand ==
  ASSUME Inv, DeliveryInv, NEW c \in Cons, Sole(c), InHand, rmsg.tag = tagOf[c],
         chans[tagOf[c]] = c
  PROVE  Taken(c) + 1 \in DOMAIN sentFor[c] /\ sentFor[c][Taken(c) + 1] = rmsg.d
<1>1. InStep(c) BY DEF DeliveryInv, StreamInv
<1>2. rmsg.d \in Pending(tagOf[c]) BY DEF Pending
<1>3. PICK k \in DOMAIN sentFor[c] : sentFor[c][k] = rmsg.d BY <1>1, <1>2 DEF InStep
<1>4. Taken(c) < k BY <1>1, <1>2, <1>3 DEF InStep
<1>5. /\ Taken(c) \in Nat /\ Len(sentFor[c]) \in Nat /\ DOMAIN sentFor[c] = 1 .. Len(sentFor[c])
      /\ \A l \in DOMAIN sentFor[c] : sentFor[c][l] \in 1 .. MaxDeliver
  BY Lengths DEF Inv
<1> DEFINE n == Taken(c) + 1
<1>6. n \in DOMAIN sentFor[c] /\ n <= k /\ Taken(c) < n BY <1>3, <1>4, <1>5
<1>7. sentFor[c][n] \in Pending(tagOf[c]) BY <1>1, <1>6 DEF InStep
<1> HIDE DEF n
<1>8. CASE n = k BY <1>3, <1>6, <1>8 DEF n
<1>9. CASE n < k
  <2>1. sentFor[c][n] < rmsg.d BY <1>3, <1>6, <1>9 DEF DeliveryInv, NumberInv
  <2>2. sentFor[c][n] # rmsg.d BY <1>3, <1>5, <1>6, <2>1, BoundAssumption
  <2>3. PICK i \in Coming : sentFor[c][n] = inbox[i].d BY <1>7, <2>2 DEF Pending
  <2>4. rmsg.d < inbox[i].d BY DEF DeliveryInv, NumberInv
  <2>5. sentFor[c][n] \in Nat /\ rmsg.d \in Nat BY <1>3, <1>5, <1>6, BoundAssumption
  <2> QED BY <2>1, <2>3, <2>4, <2>5
<1> QED BY <1>3, <1>5, <1>6, <1>8, <1>9

\* The goroutine buffer takes the delivery into its queue.
LEMMA ReceiveKeeps ==
  ASSUME Inv, DeliveryInv, NEW c \in Cons, bufferReceive(c)
  PROVE  DeliveryInv'
<1>1. /\ pc["reader"] = "sending" /\ chans[rmsg.tag] = c
      /\ queue' = [queue EXCEPT ![c] = Append(@, rmsg.d)]
      /\ pc' = [pc EXCEPT !["reader"] = "idle"]
      /\ UNCHANGED <<inbox, rmsg, active, owner, sent, sentFor, chans, made, tagOf, got, arg, cur>>
  BY DEF bufferReceive, srvVars, Go, Target
<1>2. TypeOK /\ MapInv /\ CallInv BY DEF Inv
<1>3. InHand /\ ~InHand' /\ \A a \in Apps : pc'[a] = pc[a]
  BY <1>1, <1>2, NameAssumption DEF InHand, TypeOK, Threads, Callers
<1>4. /\ rmsg.m = "deliver" /\ rmsg.tag \in Tags /\ rmsg.d \in 1 .. MaxDeliver
      /\ c \in made /\ tagOf[c] = rmsg.tag
  BY <1>1, <1>2, FrameTag, NameAssumption DEF TypeOK, CallInv, MapInv, None
<1>5. Coming' = Coming /\ \A i \in Coming : inbox'[i] = inbox[i] BY <1>1, SameFrames
<1>6. \A i \in Coming : rmsg.d < inbox[i].d /\ inbox[i].d \in 1 .. MaxDeliver
  BY <1>2, <1>3, FrameTag DEF DeliveryInv, NumberInv, Coming, TypeOK
<1>7. \A t \in Tags : Pending(t)' = IF t = rmsg.tag THEN Pending(t) \ {rmsg.d} ELSE Pending(t)
  <2> TAKE t \in Tags
  <2>1. Pending(t)' = {inbox[i].d : i \in {j \in Coming : inbox[j].tag = t}}
    BY <1>1, <1>3, <1>5 DEF Pending
  <2>2. rmsg.d \notin Pending(t)' BY <1>4, <1>6, <2>1, BoundAssumption
  <2>3. Pending(t) = Pending(t)' \cup (IF rmsg.tag = t THEN {rmsg.d} ELSE {})
    BY <1>3, <2>1 DEF Pending
  <2> QED BY <2>2, <2>3
<1>8. NumberInv' BY <1>1, <1>3, <1>5 DEF DeliveryInv, NumberInv
<1>9. \A k \in Cons : k # c => queue'[k] = queue[k] BY <1>1, <1>2 DEF TypeOK
<1>10. OwnerInv'
  <2>1. \A t \in Tags : Pending(t)' # {} => \E k \in made : tagOf[k] = t
    <3>1. \A t \in Tags : Pending(t)' \subseteq Pending(t) BY <1>7
    <3> QED BY <3>1 DEF DeliveryInv, OwnerInv
  <2>2. \A k \in Cons \ made : queue'[k] = <<>> /\ got[k] = <<>> /\ sentFor[k] = <<>>
    BY <1>4, <1>9 DEF DeliveryInv, OwnerInv
  <2> QED BY <1>1, <1>3, <2>1, <2>2 DEF DeliveryInv, OwnerInv
<1>11. ASSUME NEW k \in Cons, Sole(k), k # c PROVE InStep(k)'
  <2>1. tagOf[k] \in Tags BY <1>2, <1>11 DEF Sole, MapInv
  <2>2. chans[tagOf[k]] = k => Pending(tagOf[k])' = Pending(tagOf[k])
    BY <1>1, <1>7, <1>11, <2>1
  <2>3. InStep(k) BY <1>11 DEF DeliveryInv, StreamInv
  <2> QED BY <1>1, <1>9, <1>11, <2>2, <2>3, SameStep
<1>12. ASSUME Sole(c) PROVE InStep(c)'
  <2>1. /\ Len(got[c]) \in Nat /\ Len(queue[c]) \in Nat /\ Taken(c) \in Nat
        /\ Len(sentFor[c]) \in Nat /\ DOMAIN sentFor[c] = 1 .. Len(sentFor[c])
        /\ \A k \in DOMAIN sentFor[c] : sentFor[c][k] \in 1 .. MaxDeliver
    BY <1>2, Lengths
  <2>2. /\ Len(queue'[c]) = Len(queue[c]) + 1 /\ queue'[c][Len(queue[c]) + 1] = rmsg.d
        /\ \A i \in 1 .. Len(queue[c]) : queue'[c][i] = queue[c][i]
    <3>1. queue[c] \in Seq(1 .. MaxDeliver) /\ queue'[c] = Append(queue[c], rmsg.d)
      BY <1>1, <1>2 DEF TypeOK
    <3> QED BY <1>4, <3>1, AppendElements
  <2>0. PICK g \in Nat, n \in Nat : g = Len(got[c]) /\ n = Len(queue[c]) BY <2>1
  <2>3. Taken(c) = g + n /\ Taken(c)' = g + (n + 1) BY <1>1, <2>0, <2>2 DEF Taken
  <2>4. ASSUME NEW i \in 1 .. g + n PROVE Given(c, i)' = Given(c, i)
    <3>1. CASE i <= g BY <1>1, <2>0, <3>1 DEF Given
    <3>2. CASE ~(i <= g)
      <4>1. i - g \in 1 .. n BY <3>2
      <4>2. Given(c, i) = queue[c][i - g] /\ Given(c, i)' = queue'[c][i - g]
        BY <1>1, <2>0, <3>2 DEF Given
      <4> QED BY <2>0, <2>2, <4>1, <4>2
    <3> QED BY <3>1, <3>2
  <2>5. Given(c, g + n + 1)' = rmsg.d
    <3>1. ~(g + n + 1 <= g) /\ g + n + 1 - g = n + 1 OBVIOUS
    <3>2. Given(c, g + n + 1)' = queue'[c][n + 1] BY <1>1, <2>0, <3>1 DEF Given
    <3> QED BY <2>0, <2>2, <3>2
  <2>6. g + n + 1 \in DOMAIN sentFor[c] /\ sentFor[c][g + n + 1] = rmsg.d
    BY <1>1, <1>3, <1>4, <1>12, <2>3, NextInHand
  <2>7. /\ \A i \in 1 .. g + n : Given(c, i) = sentFor[c][i]
        /\ \A k \in DOMAIN sentFor[c] : g + n < k <=> sentFor[c][k] \in Pending(tagOf[c])
        /\ \A d \in Pending(tagOf[c]) : \E k \in DOMAIN sentFor[c] : sentFor[c][k] = d
    <3>1. InStep(c) BY <1>12 DEF DeliveryInv, StreamInv
    <3>2. Taken(c) = g + n /\ chans[tagOf[c]] = c BY <1>1, <1>4, <2>3
    <3> QED BY <3>1, <3>2 DEF InStep
  <2>8. Pending(tagOf[c])' = Pending(tagOf[c]) \ {rmsg.d} BY <1>1, <1>4, <1>7
  <2>9. \A i \in 1 .. g + n + 1 : Given(c, i)' = sentFor[c][i]
    <3>1. \A i \in 1 .. g + n : Given(c, i)' = sentFor[c][i] BY <2>4, <2>7
    <3>2. \A i \in 1 .. g + n + 1 : i \in 1 .. g + n \/ i = g + n + 1 OBVIOUS
    <3> QED BY <2>5, <2>6, <3>1, <3>2
  <2>10. \A k \in DOMAIN sentFor[c] : sentFor[c][k] = rmsg.d <=> k = g + n + 1
    <3>1. \A k, l \in DOMAIN sentFor[c] : k < l => sentFor[c][k] < sentFor[c][l]
      BY DEF DeliveryInv, NumberInv
    <3>2. \A k \in DOMAIN sentFor[c] : sentFor[c][k] \in Nat /\ k \in Nat
      BY <2>1, BoundAssumption
    <3> QED BY <2>6, <3>1, <3>2
  <2>11. \A k \in DOMAIN sentFor[c] : g + n + 1 < k <=> sentFor[c][k] \in Pending(tagOf[c])'
    <3>1. \A k \in DOMAIN sentFor[c] : k \in Nat BY <2>1
    <3>2. \A k \in DOMAIN sentFor[c] : g + n + 1 < k <=> g + n < k /\ k # g + n + 1 BY <3>1
    <3> QED BY <2>7, <2>8, <2>10, <3>2
  <2>12. \A d \in Pending(tagOf[c])' : \E k \in DOMAIN sentFor[c] : sentFor[c][k] = d
    BY <2>7, <2>8
  <2>13. g + n + 1 <= Len(sentFor[c]) BY <2>1, <2>6
  <2>14. Taken(c)' = g + n + 1 BY <2>3
  <2> QED BY <1>1, <2>9, <2>11, <2>12, <2>13, <2>14 DEF InStep
<1>13. StreamInv' BY <1>1, <1>11, <1>12 DEF StreamInv, Sole
<1> QED BY <1>8, <1>10, <1>13 DEF DeliveryInv

\* The application receives the head of the queue.
LEMMA ReceivedKeeps ==
  ASSUME Inv, DeliveryInv, NEW c \in Cons, bufferSend(c)
  PROVE  DeliveryInv'
<1>1. /\ buf[c] = "select" /\ c \in handed
      /\ got' = [got EXCEPT ![c] = Append(@, Head(queue[c]))]
      /\ queue' = [queue EXCEPT ![c] = Tail(@)]
      /\ UNCHANGED <<inbox, rmsg, active, owner, sent, sentFor, chans, made, tagOf, pc, arg, cur>>
  BY DEF bufferSend, srvVars, subsVars, callVars
<1>2. TypeOK /\ queue[c] # <<>> /\ c \in made BY <1>1 DEF Inv, BufInv, TypeOK
<1>3. Coming' = Coming /\ (\A i \in Coming : inbox'[i] = inbox[i]) /\ InHand' = InHand
  BY <1>1, SameFrames DEF InHand
<1>4. \A t \in Tags : Pending(t)' = Pending(t) BY <1>1, <1>3, SamePending
<1>5. \A k \in Cons : k # c => queue'[k] = queue[k] /\ got'[k] = got[k]
  BY <1>1, <1>2 DEF TypeOK
<1>6. NumberInv' BY <1>1, <1>3 DEF DeliveryInv, NumberInv
<1>7. OwnerInv'
  <2>1. \A k \in Cons \ made : queue'[k] = <<>> /\ got'[k] = <<>> /\ sentFor[k] = <<>>
    BY <1>2, <1>5 DEF DeliveryInv, OwnerInv
  <2> QED BY <1>1, <1>4, <2>1 DEF DeliveryInv, OwnerInv
<1>8. ASSUME NEW k \in Cons, Sole(k) PROVE InStep(k)'
  <2>1. tagOf[k] \in Tags /\ InStep(k)
    BY <1>8 DEF Sole, Inv, MapInv, DeliveryInv, StreamInv
  <2>2. Pending(tagOf[k])' = Pending(tagOf[k]) BY <1>1, <1>4, <2>1
  <2>3. CASE k # c BY <1>1, <1>5, <2>1, <2>2, <2>3, SameStep
  <2>4. CASE k = c
    <3>1. queue[c] \in Seq(1 .. MaxDeliver) /\ got[c] \in Seq(1 .. MaxDeliver)
      BY <1>2 DEF TypeOK
    <3>2. queue'[c] = Tail(queue[c]) /\ got'[c] = Append(got[c], Head(queue[c]))
      BY <1>1, <1>2 DEF TypeOK
    <3>3. /\ Len(queue[c]) \in Nat \ {0} /\ Len(queue'[c]) = Len(queue[c]) - 1
          /\ Head(queue[c]) = queue[c][1]
          /\ \A i \in 1 .. Len(queue[c]) - 1 : queue'[c][i] = queue[c][i + 1]
      BY <1>2, <3>1, <3>2, TailElements
    <3>4. /\ Len(got'[c]) = Len(got[c]) + 1 /\ Len(got[c]) \in Nat
          /\ got'[c][Len(got[c]) + 1] = queue[c][1]
          /\ \A i \in 1 .. Len(got[c]) : got'[c][i] = got[c][i]
      <4>1. Head(queue[c]) \in 1 .. MaxDeliver BY <1>2, <3>1, HeadTail
      <4> QED BY <3>1, <3>2, <3>3, <4>1, AppendElements
    <3>5. PICK g \in Nat, n \in Nat \ {0} : g = Len(got[c]) /\ n = Len(queue[c])
      BY <3>3, <3>4
    <3>6. Taken(c) = g + n /\ Taken(c)' = (g + 1) + (n - 1) BY <3>3, <3>4, <3>5 DEF Taken
    <3>7. Taken(c)' = Taken(c) BY <3>6
    <3>8. ASSUME NEW i \in 1 .. g + n PROVE Given(c, i)' = Given(c, i)
      <4>1. CASE i <= g
        <5>1. i <= g + 1 /\ i \in 1 .. g BY <4>1
        <5> QED BY <3>4, <3>5, <4>1, <5>1 DEF Given
      <4>2. CASE i = g + 1
        <5>1. ~(i <= g) /\ i <= g + 1 /\ i - g = 1 BY <4>2
        <5> QED BY <3>4, <3>5, <4>2, <5>1 DEF Given
      <4>3. CASE ~(i <= g + 1)
        <5>1. ~(i <= g) /\ i - (g + 1) \in 1 .. n - 1 /\ i - (g + 1) + 1 = i - g BY <4>3
        <5>2. Given(c, i)' = queue'[c][i - (g + 1)] BY <3>4, <3>5, <4>3 DEF Given
        <5>3. Given(c, i) = queue[c][i - g] BY <3>5, <5>1 DEF Given
        <5>4. queue'[c][i - (g + 1)] = queue[c][i - (g + 1) + 1] BY <3>3, <3>5, <5>1
        <5> QED BY <5>1, <5>2, <5>3, <5>4
      <4> QED BY <4>1, <4>2, <4>3
    <3>9. \A i \in 1 .. Taken(c) : Given(c, i)' = Given(c, i) BY <3>6, <3>8
    <3> QED BY <1>1, <2>1, <2>2, <2>4, <3>7, <3>9 DEF InStep
  <2> QED BY <2>3, <2>4
<1>9. StreamInv' BY <1>1, <1>8 DEF StreamInv, Sole
<1> QED BY <1>6, <1>7, <1>9 DEF DeliveryInv

\* What applications do without writing, and all of shutdown.
LEMMA LocalKeeps ==
  ASSUME Inv, DeliveryInv,
         UNCHANGED <<inbox, rmsg, active, owner, sent, sentFor, queue, got, made, tagOf>>,
         InHand' <=> InHand,
         \A t \in Tags : chans'[t] \in {chans[t], None},
         \A a \in Apps : pc'[a] = "consume" => /\ pc[a] = "consume"
                                               /\ cur'[a] = cur[a] /\ arg'[a] = arg[a]
  PROVE  DeliveryInv'
<1>1. Coming' = Coming /\ \A i \in Coming : inbox'[i] = inbox[i] BY SameFrames
<1>2. \A t \in active' : owner'[t] \in made /\ tagOf[owner'[t]] = t BY DEF DeliveryInv, OwnerInv
<1> QED BY <1>1, <1>2, QuietKeeps

\* One goroutine, not the reader, moves, and not to the call of Consume.
LEMMA OneMoves ==
  ASSUME TypeOK, NEW t \in Threads \ {"reader"}, NEW w, w # "consume", Go(t, w),
         UNCHANGED cur, \A u \in Callers : u # t => arg'[u] = arg[u]
  PROVE  /\ InHand' <=> InHand
         /\ \A a \in Apps : pc'[a] = "consume" => /\ pc[a] = "consume"
                                                  /\ cur'[a] = cur[a] /\ arg'[a] = arg[a]
<1>1. pc \in [Threads -> Places] /\ pc' = [pc EXCEPT ![t] = w] BY DEF TypeOK, Go
<1>2. "reader" \in Threads /\ Apps \subseteq Threads /\ Apps \subseteq Callers
  BY DEF Threads, Callers
<1>3. pc'["reader"] = pc["reader"] /\ \A a \in Apps : pc'[a] = IF a = t THEN w ELSE pc[a]
  BY <1>1, <1>2
<1> QED BY <1>2, <1>3 DEF InHand

\* cancel registers nothing.
LEMMA CancelChans ==
  ASSUME TypeOK, NEW t \in Tags, cancel(t)
  PROVE  \A u \in Tags : chans'[u] \in {chans[u], None}
BY DEF TypeOK, cancel

\* An application calls, and goes on with its call.
LEMMA AppKeeps ==
  ASSUME Inv, DeliveryInv, NEW a \in Apps,
         \/ \E t \in Tags : Cancel(a, t)
         \/ Close(a) \/ Continue(a)
  PROVE  DeliveryInv'
<1> USE DEF subsVars, bufVars, chVars, srvVars
<1>0. TypeOK /\ CallInv /\ a \in Threads \ {"reader"} /\ a \in Callers
  BY NameAssumption DEF Inv, Threads, Callers
<1>1. ASSUME NEW t \in Tags, Cancel(a, t) PROVE DeliveryInv'
  <2>1. Go(a, "cancelCall") /\ UNCHANGED cur /\ \A u \in Callers : u # a => arg'[u] = arg[u]
    BY <1>0, <1>1 DEF Cancel, TypeOK
  <2> QED BY <1>0, <1>1, <2>1, OneMoves, LocalKeeps DEF Cancel
<1>2. CASE Close(a)
  <2>1. Go(a, "closeCall") /\ UNCHANGED <<cur, arg>> BY <1>2 DEF Close
  <2> QED BY <1>0, <1>2, <2>1, OneMoves, LocalKeeps DEF Close
<1>3. CASE consumeCall(a)
  <2>1. arg[a] \in Tags /\ cur[a] \in made /\ tagOf[cur[a]] = arg[a]
    BY <1>0, <1>3 DEF consumeCall, CallInv, DeliveryInv, OwnerInv
  <2>2. PICK w \in {"undo", "waitConsume", "idle"} : Go(a, w) BY <1>3 DEF consumeCall
  <2>3. UNCHANGED <<arg, cur, rmsg, chans, made, tagOf, queue, got>> BY <1>3 DEF consumeCall
  <2>4. /\ InHand' <=> InHand
        /\ \A b \in Apps : pc'[b] = "consume" => /\ pc[b] = "consume"
                                                 /\ cur'[b] = cur[b] /\ arg'[b] = arg[b]
    BY <1>0, <2>2, <2>3, OneMoves
  <2>5. ASSUME NEW r, r = <<>> \/ r = <<Msg("consumeOk", None, 0)>>,
               ServeConsume(arg[a], cur[a], r)
        PROVE  /\ Coming' = Coming /\ \A i \in Coming : inbox'[i] = inbox[i]
               /\ UNCHANGED <<sent, sentFor>>
               /\ \A t \in active' : owner'[t] \in made /\ tagOf[owner'[t]] = t
    <3>1. \A t \in active : t \in Tags /\ owner[t] \in made /\ tagOf[owner[t]] = t
      BY <1>0 DEF DeliveryInv, OwnerInv, TypeOK
    <3>2. CASE /\ active' = active \cup {arg[a]} /\ owner' = [owner EXCEPT ![arg[a]] = cur[a]]
               /\ FromServer(r) /\ UNCHANGED <<sent, sentFor>>
      <4>1. Coming' = Coming /\ \A i \in Coming : inbox'[i] = inbox[i]
        <5>1. CASE r = <<>>
          <6>1. inbox \in Seq(Frame) /\ inbox' = inbox \o <<>>
            BY <1>0, <3>2, <5>1 DEF TypeOK, FromServer
          <6>2. inbox' = inbox BY <6>1
          <6> QED BY <6>2, SameFrames
        <5>2. CASE r = <<Msg("consumeOk", None, 0)>>
          BY <1>0, <3>2, <5>2, OtherFrames, OtherFrame
        <5> QED BY <2>5, <5>1, <5>2
      <4>2. \A t \in active' : owner'[t] \in made /\ tagOf[owner'[t]] = t
        BY <1>0, <2>1, <3>1, <3>2 DEF TypeOK
      <4> QED BY <3>2, <4>1, <4>2
    <3>3. CASE FromServer(<<Msg("close", None, 0)>>) /\ UNCHANGED <<active, owner, sent, sentFor>>
      BY <1>0, <3>1, <3>3, OtherFrames, OtherFrame
    <3>4. CASE UNCHANGED srvVars BY <3>1, <3>4, SameFrames
    <3> QED BY <2>5, <3>2, <3>3, <3>4 DEF ServeConsume
  <2>6. /\ Coming' = Coming /\ \A i \in Coming : inbox'[i] = inbox[i]
        /\ UNCHANGED <<sent, sentFor>>
        /\ \A t \in active' : owner'[t] \in made /\ tagOf[owner'[t]] = t
    <3>1. CASE UNCHANGED srvVars BY <3>1, SameFrames DEF DeliveryInv, OwnerInv
    <3>2. CASE ServeConsume(arg[a], cur[a], <<Msg("consumeOk", None, 0)>>) BY <2>5, <3>2
    <3>3. CASE ServeConsume(arg[a], cur[a], <<>>) BY <2>5, <3>3
    <3> QED BY <1>3, <3>1, <3>2, <3>3 DEF consumeCall
  <2>7. \A t \in Tags : chans'[t] \in {chans[t], None} BY <2>3
  <2> QED BY <2>3, <2>4, <2>6, <2>7, QuietKeeps
<1>4. CASE consumeUndo(a)
  <2>1. arg[a] \in Tags /\ cancel(arg[a]) BY <1>0, <1>4 DEF consumeUndo, CallInv
  <2>2. Go(a, "idle") /\ UNCHANGED <<cur, arg>> BY <1>4 DEF consumeUndo
  <2>3. UNCHANGED <<inbox, rmsg, active, owner, sent, sentFor, queue, got, made, tagOf>>
    BY <1>4, <2>1 DEF consumeUndo, cancel
  <2> QED BY <1>0, <2>1, <2>2, <2>3, OneMoves, CancelChans, LocalKeeps
<1>5. CASE closeCall(a)
  <2>1. PICK w \in {"waitClose", "shutdown"} : Go(a, w) BY <1>5 DEF closeCall
  <2>2. UNCHANGED <<arg, cur, rmsg, chans, made, tagOf, queue, got, active, owner, sent, sentFor>>
    BY <1>5 DEF closeCall
  <2>3. Coming' = Coming /\ \A i \in Coming : inbox'[i] = inbox[i]
    BY <1>0, <1>5, OtherFrames, OtherFrame, SameFrames DEF closeCall
  <2>4. \A t \in active' : owner'[t] \in made /\ tagOf[owner'[t]] = t
    BY <2>2 DEF DeliveryInv, OwnerInv
  <2>5. /\ InHand' <=> InHand
        /\ \A b \in Apps : pc'[b] = "consume" => /\ pc[b] = "consume"
                                                 /\ cur'[b] = cur[b] /\ arg'[b] = arg[b]
    BY <1>0, <2>1, <2>2, OneMoves
  <2>6. \A t \in Tags : chans'[t] \in {chans[t], None} BY <2>2
  <2> QED BY <2>2, <2>3, <2>4, <2>5, <2>6, QuietKeeps
<1> QED BY <1>1, <1>2, <1>3, <1>4, <1>5 DEF Continue

\* A call that waits, and the rest of Cancel.
LEMMA CallKeeps ==
  ASSUME Inv, DeliveryInv, NEW t \in Callers, Call(t)
  PROVE  DeliveryInv'
<1> USE DEF subsVars, bufVars, chVars, srvVars
<1>0. TypeOK /\ CallInv /\ t \in Threads \ {"reader"}
  BY NameAssumption DEF Inv, Threads, Callers
<1>1. CASE cancelCall(t)
  <2>1. PICK w \in {"idle", "end", "waitCancel", "cancelLocal"} : Go(t, w)
    BY <1>1 DEF cancelCall, Return
  <2>2. UNCHANGED <<arg, cur, rmsg, chans, made, tagOf, queue, got>> /\ arg[t] \in Tags
    BY <1>0, <1>1 DEF cancelCall, CallInv
  <2>3. /\ Coming' = Coming /\ \A i \in Coming : inbox'[i] = inbox[i]
        /\ UNCHANGED <<owner, sent, sentFor>> /\ active' \subseteq active
    <3>1. ASSUME NEW f, f = Msg("cancelOk", arg[t], 0), ServeCancel(arg[t], <<f>>)
          PROVE  /\ Coming' = Coming /\ \A i \in Coming : inbox'[i] = inbox[i]
                 /\ UNCHANGED <<owner, sent, sentFor>> /\ active' \subseteq active
      <4>1. f \in Frame /\ f.m # "deliver" BY <2>2, <3>1, OtherFrames
      <4>2. CASE FromServer(<<f>>) BY <1>0, <3>1, <4>1, <4>2, OtherFrame DEF ServeCancel
      <4>3. CASE UNCHANGED srvVars BY <4>3, SameFrames
      <4> QED BY <3>1, <4>2, <4>3 DEF ServeCancel
    <3>2. ASSUME ServeCancel(arg[t], <<>>)
          PROVE  inbox' = inbox /\ UNCHANGED <<owner, sent, sentFor>> /\ active' \subseteq active
      <4>1. inbox \in Seq(Frame) BY <1>0 DEF TypeOK
      <4> QED BY <3>2, <4>1 DEF ServeCancel, FromServer
    <3>3. CASE UNCHANGED srvVars BY <3>3, SameFrames
    <3> QED BY <1>1, <3>1, <3>2, <3>3, SameFrames DEF cancelCall
  <2>4. \A u \in active' : owner'[u] \in made /\ tagOf[owner'[u]] = u
    BY <2>3 DEF DeliveryInv, OwnerInv
  <2>5. /\ InHand' <=> InHand
        /\ \A b \in Apps : pc'[b] = "consume" => /\ pc[b] = "consume"
                                                 /\ cur'[b] = cur[b] /\ arg'[b] = arg[b]
    BY <1>0, <2>1, <2>2, OneMoves
  <2>6. \A u \in Tags : chans'[u] \in {chans[u], None} BY <2>2
  <2> QED BY <2>2, <2>3, <2>4, <2>5, <2>6, QuietKeeps
<1>2. CASE cancelLocal(t)
  <2>1. arg[t] \in Tags /\ cancel(arg[t]) BY <1>0, <1>2 DEF cancelLocal, CallInv
  <2>2. PICK w \in {"idle", "end"} : Go(t, w) BY <1>2 DEF cancelLocal, Return
  <2>3. UNCHANGED <<cur, arg, inbox, rmsg, active, owner, sent, sentFor, queue, got, made, tagOf>>
    BY <1>2, <2>1 DEF cancelLocal, cancel
  <2> QED BY <1>0, <2>1, <2>2, <2>3, OneMoves, CancelChans, LocalKeeps
<1>3. CASE callFails(t)
  <2>1. PICK w \in {"undo", "idle", "end", "shutdown"} : Go(t, w)
    BY <1>3 DEF callFails, Failed, Return, Waiting
  <2>2. UNCHANGED <<cur, arg, inbox, rmsg, chans, active, owner, sent, sentFor, queue, got, made, tagOf>>
    BY <1>3 DEF callFails
  <2> QED BY <1>0, <2>1, <2>2, OneMoves, LocalKeeps
<1>4. CASE rpc(t)
  <2>1. /\ UNCHANGED <<cur, inbox, rmsg, chans, active, owner, sent, sentFor, queue, got, made, tagOf>>
        /\ pc["reader"] = "deliver" /\ pc[t] \in Waiting
    BY <1>4 DEF rpc
  <2>2. pc \in [Threads -> Places] /\ Callers \subseteq Threads /\ "reader" \in Threads
    BY <1>0 DEF TypeOK, Threads
  <2>3. /\ pc'["reader"] = "idle"
        /\ \A a \in Apps : pc'[a] = "consume" => pc[a] = "consume" /\ a # t
    <3>1. CASE pc[t] = "waitConsume" /\ rmsg.m = "consumeOk"
      <4>1. cur[t] \in Cons /\ t \in Apps
        BY <1>0, <3>1 DEF CallInv, TypeOK, Callers
      <4>2. \/ pc' = [pc EXCEPT !["reader"] = "idle", ![t] = "idle"]
            \/ pc' = [pc EXCEPT !["reader"] = "idle", ![t] = "idle", ![cur[t]] = "armed"]
        BY <1>4, <3>1 DEF rpc
      <4> QED BY <1>0, <2>2, <4>1, <4>2, NameAssumption DEF Callers
    <3>2. ASSUME NEW w, w # "consume", pc' = [pc EXCEPT !["reader"] = "idle", ![t] = w]
          PROVE  /\ pc'["reader"] = "idle"
                 /\ \A a \in Apps : pc'[a] = "consume" => pc[a] = "consume" /\ a # t
      BY <1>0, <2>2, <3>2 DEF Callers
    <3>3. Failed(t) # "consume" BY <2>1 DEF Failed, Return, Waiting
    <3> QED BY <1>4, <3>1, <3>2, <3>3 DEF rpc
  <2>4. \A a \in Apps : a # t => arg'[a] = arg[a]
    BY <1>0, <1>4 DEF rpc, TypeOK, Callers
  <2>5. InHand' <=> InHand BY <2>1, <2>3 DEF InHand
  <2> QED BY <2>1, <2>3, <2>4, <2>5, LocalKeeps
<1> QED BY <1>1, <1>2, <1>3, <1>4 DEF Call

\* The rest: contexts, buffers that leave, shutdown.
LEMMA RestKeeps ==
  ASSUME Inv, DeliveryInv,
         \/ \E c \in Cons : contextDone(c) \/ contextClosed(c) \/ Buffer(c)
         \/ \E t \in Apps \cup {"reader", "conn"} : closeChannel(t)
         \/ connShutdown \/ dispatchCancel \/ dispatchDrop \/ UNCHANGED vars
  PROVE  DeliveryInv'
<1> USE DEF subsVars, bufVars, chVars, srvVars, callVars
<1>0. /\ TypeOK /\ CallInv /\ pc \in [Threads -> Places]
      /\ \A c \in Cons : c \in Threads \ {"reader"} /\ c \notin Apps
      /\ Apps \subseteq Threads \ {"reader"} /\ "conn" \in Threads \ {"reader"}
      /\ "reader" \in Threads /\ "reader" \notin Apps /\ "conn" \notin Apps
  BY NameAssumption DEF Inv, TypeOK, Threads, Callers
<1>1. ASSUME UNCHANGED <<inbox, rmsg, active, owner, sent, sentFor, queue, got, made, tagOf, cur>>,
             \A t \in Tags : chans'[t] \in {chans[t], None},
             NEW t \in Threads, NEW w, w \notin {"consume", "send", "sending"}, Go(t, w),
             t = "reader" => pc[t] \notin {"send", "sending"},
             \A a \in Apps : a # t => arg'[a] = arg[a]
      PROVE  DeliveryInv'
  <2>1. /\ InHand' <=> InHand
        /\ \A a \in Apps : pc'[a] = "consume" => /\ pc[a] = "consume"
                                                 /\ cur'[a] = cur[a] /\ arg'[a] = arg[a]
    BY <1>0, <1>1 DEF Go, InHand
  <2> QED BY <1>1, <2>1, LocalKeeps
<1>2. ASSUME NEW c \in Cons, contextDone(c) PROVE DeliveryInv'
  <2>1. \A a \in Apps : arg'[a] = arg[a]
    BY <1>0, <1>2 DEF contextDone, TypeOK, Callers
  <2> QED BY <1>0, <1>1, <1>2, <2>1 DEF contextDone
<1>3. ASSUME NEW c \in Cons, contextClosed(c) PROVE DeliveryInv'
  BY <1>0, <1>1, <1>3 DEF contextClosed
<1>4. ASSUME UNCHANGED <<inbox, rmsg, active, owner, sent, sentFor, queue, got, made, tagOf, cur,
                         chans, pc, arg>>
      PROVE  DeliveryInv'
  BY <1>4, LocalKeeps DEF InHand
<1>5. ASSUME NEW c \in Cons, Buffer(c) PROVE DeliveryInv'
  BY <1>4, <1>5 DEF Buffer, bufferInClosed, bufferDrop, bufferExit
<1>6. ASSUME NEW t \in Apps \cup {"reader", "conn"}, closeChannel(t) PROVE DeliveryInv'
  <2>0. t \in Threads BY <1>0
  <2>1. CASE shutdown(t)
    <3>1. PICK w \in {"consClose", "join"} : Go(t, w) BY <2>1 DEF shutdown
    <3> QED BY <1>1, <2>0, <2>1, <3>1 DEF shutdown
  <2>2. CASE shutdownClose(t)
    <3>1. \A u \in Tags : chans'[u] = None BY <2>2 DEF shutdownClose, closeSubs
    <3> QED BY <1>1, <2>0, <2>2, <3>1 DEF shutdownClose, closeSubs
  <2>3. CASE shutdownDone(t) BY <1>1, <2>0, <2>3 DEF shutdownDone
  <2>4. CASE shutdownJoin(t) BY <1>1, <2>0, <2>4 DEF shutdownJoin
  <2>5. CASE release(t)
    <3>1. PICK w \in {"end", "idle"} : Go(t, w) BY <2>5 DEF release
    <3> QED BY <1>1, <2>0, <2>5, <3>1 DEF release
  <2> QED BY <1>6, <2>1, <2>2, <2>3, <2>4, <2>5 DEF closeChannel
<1>7. CASE connShutdown BY <1>0, <1>1, <1>7 DEF connShutdown
<1>8. CASE dispatchCancel
  <2>1. rmsg.tag \in Tags /\ cancel(rmsg.tag)
    BY <1>0, <1>8, FrameTag DEF dispatchCancel, CallInv, TypeOK
  <2>2. \A u \in Tags : chans'[u] \in {chans[u], None} BY <1>0, <2>1, CancelChans
  <2>3. UNCHANGED <<made, tagOf>> BY <2>1 DEF cancel
  <2> QED BY <1>0, <1>1, <1>8, <2>2, <2>3 DEF dispatchCancel
<1>9. CASE dispatchDrop BY <1>0, <1>1, <1>9 DEF dispatchDrop
<1>10. CASE UNCHANGED vars BY <1>4, <1>10 DEF vars
<1> QED BY <1>2, <1>3, <1>5, <1>6, <1>7, <1>8, <1>9, <1>10

\* What the server sends that is not a delivery.
LEMMA ServerKeeps ==
  ASSUME Inv, DeliveryInv, Server
  PROVE  DeliveryInv'
<1> USE DEF subsVars, bufVars, chVars, callVars
<1>0. TypeOK BY DEF Inv
<1>1. ASSUME NEW f \in Frame, f.m # "deliver", FromServer(<<f>>), active' \subseteq active,
             UNCHANGED <<rmsg, sent, sentFor, owner, queue, got, made, tagOf, chans, pc, cur, arg>>
      PROVE  DeliveryInv'
  <2>1. Coming' = Coming /\ \A i \in Coming : inbox'[i] = inbox[i] BY <1>0, <1>1, OtherFrame
  <2>2. \A t \in active' : owner'[t] \in made /\ tagOf[owner'[t]] = t
    BY <1>1 DEF DeliveryInv, OwnerInv
  <2>3. InHand' <=> InHand BY <1>1 DEF InHand
  <2> QED BY <1>1, <2>1, <2>2, <2>3, QuietKeeps
<1>2. ASSUME NEW t \in Tags, ServerCancel(t) PROVE DeliveryInv'
  BY <1>1, <1>2, OtherFrames DEF ServerCancel
<1>3. CASE Exception BY <1>1, <1>3, OtherFrames DEF Exception
<1> QED BY <1>2, <1>3, DeliverKeeps DEF Server

\* Every step keeps the deliveries in order.
LEMMA StepDelivery ==
  ASSUME Inv, DeliveryInv, [Next]_vars
  PROVE  DeliveryInv'
BY ConsumeKeeps, AppKeeps, CallKeeps, RestKeeps, ReceiveKeeps, ReceivedKeeps, DispatchKeeps,
   SendKeeps, ServerKeeps DEF Next, Reader

\* Nothing has been sent at first.
LEMMA InitDelivery == Init => DeliveryInv
<1> SUFFICES ASSUME Init PROVE DeliveryInv OBVIOUS
<1>1. /\ inbox = <<>> /\ pc = [t \in Threads |-> "idle"] /\ made = {} /\ active = {}
      /\ queue = [c \in Cons |-> <<>>] /\ got = [c \in Cons |-> <<>>]
      /\ sentFor = [c \in Cons |-> <<>>]
  BY DEF Init
<1>2. Coming = {} /\ ~InHand BY <1>1 DEF Coming, InHand, Threads
<1>3. \A t \in Tags : Pending(t) = {} BY <1>2 DEF Pending
<1>4. NumberInv BY <1>1, <1>2 DEF NumberInv
<1>5. OwnerInv BY <1>1, <1>3 DEF OwnerInv, Threads, Callers
<1> QED BY <1>1, <1>4, <1>5 DEF DeliveryInv, StreamInv, Sole

(***************************************************************************)
(* Whatever applications, contexts and the server do, with noWait, crossed *)
(* replies, Close and exceptions: as long as no tag has been used twice,   *)
(* every consumer has received the deliveries of its own subscription, in  *)
(* the order sent and without gaps (send, buffer, add, cancel).            *)
(***************************************************************************)
THEOREM DeliveredInOrder == Spec => [](TagsOnce => InOrder)
<1>1. Inv /\ DeliveryInv /\ [Next]_vars => DeliveryInv' BY StepDelivery
<1>2. ASSUME Inv, DeliveryInv, TagsOnce PROVE InOrder
  <2> SUFFICES ASSUME NEW c \in Cons, NEW i \in DOMAIN got[c]
               PROVE  i <= Len(sentFor[c]) /\ got[c][i] = sentFor[c][i]
    BY DEF InOrder
  <2>1. TypeOK BY <1>2 DEF Inv
  <2>2. got[c] \in Seq(1 .. MaxDeliver) /\ DOMAIN got[c] = 1 .. Len(got[c])
    BY <2>1, LenProperties DEF TypeOK
  <2>3. CASE c \notin made
    <3>1. got[c] = <<>> BY <1>2, <2>3 DEF DeliveryInv, OwnerInv
    <3> QED BY <3>1
  <2>4. CASE c \in made
    <3>1. InStep(c) BY <1>2, <2>4 DEF TagsOnce, Sole, DeliveryInv, StreamInv
    <3>2. Len(got[c]) \in Nat /\ Len(queue[c]) \in Nat /\ Len(sentFor[c]) \in Nat
      BY <2>1, Lengths
    <3>3. PICK g \in Nat, n \in Nat : g = Len(got[c]) /\ n = Len(queue[c]) BY <3>2
    <3>4. Taken(c) = g + n /\ i \in 1 .. g BY <2>2, <3>3 DEF Taken
    <3>5. i \in 1 .. g + n BY <3>4
    <3>6. g + n <= Len(sentFor[c]) /\ Given(c, i) = sentFor[c][i]
      BY <3>1, <3>4, <3>5 DEF InStep
    <3>7. Given(c, i) = got[c][i] BY <3>3, <3>4 DEF Given
    <3> QED BY <3>2, <3>4, <3>6, <3>7
  <2> QED BY <2>3, <2>4
<1> QED BY Invariance, InitDelivery, <1>1, <1>2, PTL DEF Spec

-----------------------------------------------------------------------------
(***************************************************************************)
(* Completeness after a cancel.  Applications cancel the tags that a       *)
(* Consume has returned for, and wait for the answer: with noWait, Cancel  *)
(* forgets the tag while deliveries are on their way.                      *)
(***************************************************************************)
CancelAfterConsume ==
  \A a \in Apps :
    pc[a] # "cancelCall" /\ pc'[a] = "cancelCall" => \E c \in handed : tagOf[c] = arg'[a]

\* a is inside Consume; the request for c has been written, or never will be; no
\* delivery for c is sent any more.
Asking(a) == pc[a] \in {"consume", "waitConsume", "undo"}
Asked(c)  == \A a \in Apps : pc[a] = "consume" => cur[a] # c
Over(c)   == tagOf[c] \notin active /\ Asked(c)
Known(t)  == \E c \in made : tagOf[c] = t

\* The frames that end the deliveries for tag t, on their way and in the reader's hand.
Ends(t)     == {i \in DOMAIN inbox : inbox[i].m \in {"cancel", "cancelOk"} /\ inbox[i].tag = t}
Ending(t)   == /\ \/ pc["reader"] = "cancelTag"
                  \/ pc["reader"] = "deliver" /\ rmsg.m = "cancelOk"
               /\ rmsg.tag = t

\* Each consumer is asked for once, and ends only after it has been asked for.
AskInv ==
  /\ \A a \in Apps : Asking(a) => cur[a] \in made \ handed /\ tagOf[cur[a]] = arg[a]
  /\ \A a, b \in Apps : Asking(a) /\ Asking(b) /\ cur[a] = cur[b] => a = b
  /\ \A t \in active : Asked(owner[t])
  /\ \A x \in Callers : pc[x] = "cancelCall" => \E c \in handed : tagOf[c] = arg[x]
  /\ \A t \in Tags : Ends(t) # {} \/ Ending(t) => Known(t)
  /\ \A x \in Callers : pc[x] = "cancelLocal" => Known(arg[x])

\* The goroutine of ConsumeWithContext waits when Consume has returned its consumer.
ArmedInv == \A c \in Cons : pc[c] = "armed" => c \in handed

\* For a sole consumer the end comes after the last delivery, all the way to the
\* removal from the map; one that has been removed has been given everything.
Wanted(c) == c \in handed \/ \E a \in Apps : pc[a] \in {"consume", "waitConsume"} /\ cur[a] = c
Last(c) ==
  /\ Ends(tagOf[c]) # {} => Over(c)
  /\ \A i \in Ends(tagOf[c]), j \in Coming : inbox[j].tag = tagOf[c] => j < i
  /\ Ending(tagOf[c]) => Over(c) /\ Pending(tagOf[c]) = {}
  /\ \A x \in Callers : pc[x] = "cancelLocal" /\ arg[x] = tagOf[c]
       => Over(c) /\ Pending(tagOf[c]) = {}
  /\ Wanted(c) /\ chans[tagOf[c]] # c /\ ~closed => Over(c) /\ Taken(c) = Len(sentFor[c])
LastInv == \A c \in Cons : Sole(c) => Last(c)

\* The goroutine buffer leaves its loop with an empty queue, and when its
\* consumer is no longer in the map.
DrainInv ==
  \A c \in made :
    /\ buf[c] = "range" => queue[c] = <<>>
    /\ buf[c] \in {"exit", "done", "closed"} /\ ~closed => queue[c] = <<>> /\ chans[tagOf[c]] # c

-----------------------------------------------------------------------------
\* The rest of a queue with one element.
LEMMA TailOfOne ==
  ASSUME NEW S, NEW q \in Seq(S), Len(q) = 1
  PROVE  Tail(q) = <<>>
<1>1. q # <<>> OBVIOUS
<1>2. Tail(q) \in Seq(S) BY <1>1, HeadTail
<1>3. Len(Tail(q)) = 0 BY <1>1, TailElements
<1> QED BY <1>2, <1>3, EmptySeq

\* The goroutine buffer leaves its loop when it has sent all, or by consumers.closed.
LEMMA StepDrain ==
  ASSUME Inv, Inv', DeliveryInv, DrainInv, [Next]_vars
  PROVE  DrainInv'
<1> USE DEF subsVars, bufVars
<1>0. TypeOK /\ TypeOK' /\ MapInv /\ MapInv' /\ LockInv /\ BufInv BY DEF Inv
<1>1. ASSUME UNCHANGED <<queue, buf, made, tagOf>>, closed => closed',
             \A t \in Tags : chans'[t] \in {chans[t], None}
      PROVE  DrainInv'
  <2>1. \A c \in made : tagOf[c] \in Tags /\ c # None
    BY <1>0, NameAssumption DEF MapInv, TypeOK, None
  <2> QED BY <1>1, <2>1 DEF DrainInv
<1>2. ASSUME NEW a \in Apps, NEW t \in Tags, NEW c \in Cons, Consume(a, t, c) PROVE DrainInv'
  <2>1. /\ c \notin made /\ made' = made \cup {c} /\ tagOf' = [tagOf EXCEPT ![c] = t]
        /\ chans' = [chans EXCEPT ![t] = c] /\ buf' = [buf EXCEPT ![c] = "range"]
        /\ UNCHANGED <<queue, closed>>
    BY <1>2 DEF Consume, add
  <2>2. queue[c] = <<>> BY <2>1 DEF DeliveryInv, OwnerInv
  <2>3. ASSUME NEW k \in made, k # c
        PROVE  /\ buf'[k] = buf[k] /\ tagOf'[k] = tagOf[k]
               /\ chans[tagOf[k]] # k => chans'[tagOf'[k]] # k
    BY <1>0, <2>1, <2>3 DEF TypeOK, MapInv
  <2>4. buf'[c] = "range" BY <1>0, <2>1 DEF TypeOK
  <2> QED BY <2>1, <2>2, <2>3, <2>4 DEF DrainInv
<1>3. ASSUME NEW t \in Tags, cancel(t), UNCHANGED <<queue, buf>> PROVE DrainInv'
  BY <1>0, <1>1, <1>3, CancelChans DEF cancel
<1>4. ASSUME NEW a \in Apps, Close(a) \/ Continue(a) \/ \E t \in Tags : Cancel(a, t) PROVE DrainInv'
  <2>1. CASE consumeUndo(a)
    <3>1. arg[a] \in Tags BY <2>1 DEF consumeUndo, Inv, CallInv, Callers
    <3> QED BY <1>3, <2>1, <3>1 DEF consumeUndo
  <2> QED BY <1>1, <1>4, <2>1 DEF Close, Continue, consumeCall, closeCall, Cancel
<1>5. ASSUME NEW t \in Callers, Call(t) PROVE DrainInv'
  <2>1. CASE cancelLocal(t)
    <3>1. arg[t] \in Tags BY <2>1 DEF cancelLocal, Inv, CallInv
    <3> QED BY <1>3, <2>1, <3>1 DEF cancelLocal
  <2> QED BY <1>1, <1>5, <2>1 DEF Call, cancelCall, callFails, rpc
<1>6. ASSUME NEW c \in Cons, contextDone(c) \/ contextClosed(c) PROVE DrainInv'
  BY <1>1, <1>6 DEF contextDone, contextClosed
<1>7. ASSUME NEW c \in Cons, UNCHANGED <<queue, chans, made, tagOf, closed, inOpen>>,
             \A k \in Cons : k # c => buf'[k] = buf[k],
             c \in made => \/ buf'[c] = buf[c]
                           \/ buf[c] = "range" /\ ~inOpen[c]
                           \/ buf[c] \in {"exit", "done"} /\ buf'[c] # "range"
                           \/ closed /\ buf'[c] # "range",
             c \in made => buf'[c] \in {buf[c], "exit", "done", "closed"}
      PROVE  DrainInv'
  <2>1. \A k \in made : k \in Cons BY <1>0 DEF TypeOK
  <2>2. c \in made /\ ~inOpen[c] => chans[tagOf[c]] # c
    BY <1>0 DEF MapInv, OpenChanIsRegistered
  <2>3. ASSUME c \in made
        PROVE  /\ buf'[c] = "range" => queue[c] = <<>>
               /\ buf'[c] \in {"exit", "done", "closed"} /\ ~closed
                    => queue[c] = <<>> /\ chans[tagOf[c]] # c
    BY <1>7, <2>2, <2>3 DEF DrainInv
  <2> QED BY <1>7, <2>1, <2>3 DEF DrainInv
<1>8. ASSUME NEW c \in Cons, Buffer(c) PROVE DrainInv'
  <2>1. CASE bufferInClosed(c) BY <1>0, <1>7, <2>1 DEF bufferInClosed, TypeOK
  <2>2. CASE bufferDrop(c) BY <1>0, <1>7, <2>2 DEF bufferDrop, TypeOK
  <2>3. CASE bufferExit(c) BY <1>0, <1>7, <2>3 DEF bufferExit, TypeOK
  <2> QED BY <1>8, <2>1, <2>2, <2>3 DEF Buffer
<1>9. ASSUME NEW c \in Cons, bufferReceive(c) PROVE DrainInv'
  <2>1. /\ \A k \in Cons : k # c => buf'[k] = buf[k] /\ queue'[k] = queue[k]
        /\ buf'[c] = "select" /\ UNCHANGED <<chans, closed, made, tagOf>>
    BY <1>0, <1>9 DEF bufferReceive, TypeOK
  <2> QED BY <1>0, <2>1 DEF DrainInv, TypeOK
<1>10. ASSUME NEW c \in Cons, bufferSend(c) PROVE DrainInv'
  <2>1. /\ \A k \in Cons : k # c => buf'[k] = buf[k] /\ queue'[k] = queue[k]
        /\ buf'[c] = (IF Len(queue[c]) = 1 THEN "range" ELSE "select")
        /\ queue'[c] = Tail(queue[c]) /\ UNCHANGED <<chans, closed, made, tagOf>>
        /\ queue[c] # <<>>
    BY <1>0, <1>10 DEF bufferSend, TypeOK, BufInv
  <2>2. Len(queue[c]) = 1 => Tail(queue[c]) = <<>>
    <3>1. queue[c] \in Seq(1 .. MaxDeliver) BY <1>0 DEF TypeOK
    <3> QED BY <3>1, TailOfOne
  <2> QED BY <1>0, <2>1, <2>2 DEF DrainInv, TypeOK
<1>11. ASSUME NEW t \in Apps \cup {"reader", "conn"}, closeChannel(t) PROVE DrainInv'
  <2>1. CASE shutdownClose(t)
    <3>1. /\ UNCHANGED <<queue, buf, made, tagOf>> /\ closed' = TRUE
          /\ \A u \in Tags : chans'[u] = None
      BY <2>1 DEF shutdownClose, closeSubs
    <3> QED BY <1>1, <3>1
  <2> QED BY <1>1, <1>11, <2>1 DEF closeChannel, shutdown, shutdownDone, shutdownJoin, release
<1>12. CASE Reader
  <2>1. CASE dispatchCancel
    <3>1. rmsg.tag \in Tags BY <1>0, <2>1, FrameTag DEF dispatchCancel, Inv, CallInv, TypeOK
    <3> QED BY <1>3, <2>1, <3>1 DEF dispatchCancel
  <2> QED BY <1>1, <1>12, <2>1 DEF Reader, dispatch, send, dispatchDrop
<1>13. CASE connShutdown BY <1>1, <1>13 DEF connShutdown
<1>14. CASE Server BY <1>1, <1>14 DEF Server, Deliver, ServerCancel, Exception
<1>15. CASE UNCHANGED vars BY <1>1, <1>15 DEF vars
<1> QED BY <1>2, <1>4, <1>5, <1>6, <1>8, <1>9, <1>10, <1>11, <1>12, <1>13, <1>14, <1>15 DEF Next

-----------------------------------------------------------------------------
\* A sole consumer that is in the map has been given all when nothing is pending.
LEMMA AllGiven ==
  ASSUME TypeOK, NEW c \in Cons, InStep(c), chans[tagOf[c]] = c, Pending(tagOf[c]) = {}
  PROVE  Taken(c) = Len(sentFor[c])
<1>1. Taken(c) \in Nat /\ Len(sentFor[c]) \in Nat /\ DOMAIN sentFor[c] = 1 .. Len(sentFor[c])
  BY Lengths
<1>2. PICK n \in Nat, s \in Nat : n = Taken(c) /\ s = Len(sentFor[c]) BY <1>1
<1>3. n <= s /\ \A k \in 1 .. s : ~(n < k) BY <1>1, <1>2 DEF InStep
<1>4. ~(n < s)
  <2> SUFFICES ASSUME n < s PROVE FALSE OBVIOUS
  <2>1. s \in 1 .. s OBVIOUS
  <2> QED BY <1>3, <2>1
<1> QED BY <1>2, <1>3, <1>4

\* What keeps a sole consumer's end after its last delivery.
LEMMA LastKeeps ==
  ASSUME NEW c \in Cons, NEW t \in Tags, tagOf[c] = t, tagOf'[c] = t, Last(c),
         Over(c) => Over(c)',
         \A i \in Ends(t)' :
           \/ i \in Ends(t)
           \/ Over(c)' /\ \A j \in Coming' : inbox'[j].tag = t => j < i,
         Ends(t) # {} => \A j \in Coming' : inbox'[j].tag = t => j \in Coming /\ inbox[j].tag = t,
         Over(c) /\ Pending(t) = {} => Pending(t)' = {},
         Ending(t)' => Ending(t) \/ (Over(c)' /\ Pending(t)' = {}),
         \A x \in Callers : pc'[x] = "cancelLocal" /\ arg'[x] = t
           => (pc[x] = "cancelLocal" /\ arg[x] = t) \/ Ending(t),
         Wanted(c)' /\ chans'[t] # c /\ ~closed' => Over(c)' /\ Taken(c)' = Len(sentFor'[c])
  PROVE  Last(c)'
<1>1. Ends(t)' # {} => Over(c)' BY DEF Last
<1>2. \A i \in Ends(t)', j \in Coming' : inbox'[j].tag = t => j < i BY DEF Last
<1>3. Ending(t)' => Over(c)' /\ Pending(t)' = {} BY DEF Last
<1>4. \A x \in Callers : pc'[x] = "cancelLocal" /\ arg'[x] = t => Over(c)' /\ Pending(t)' = {}
  BY DEF Last
<1> QED BY <1>1, <1>2, <1>3, <1>4 DEF Last

\* What keeps the requests and the ends in order.
LEMMA AskKeeps ==
  ASSUME AskInv, handed \subseteq made, handed \subseteq handed',
         \A t \in active : owner[t] \in made,
         UNCHANGED <<made, tagOf, owner>>, active' \subseteq active,
         \A a \in Apps : Asking(a)' => /\ Asking(a) /\ cur'[a] = cur[a] /\ arg'[a] = arg[a]
                                       /\ pc'[a] = "consume" => pc[a] = "consume",
         \A c \in handed' : c \in handed \/ \E a \in Apps : Asking(a) /\ ~Asking(a)' /\ cur[a] = c,
         \A x \in Callers : pc'[x] = "cancelCall"
           => (pc[x] = "cancelCall" /\ arg'[x] = arg[x]) \/ \E c \in handed : tagOf[c] = arg'[x],
         \A t \in Tags : Ends(t)' # {} \/ Ending(t)' => Known(t),
         \A x \in Callers : pc'[x] = "cancelLocal" => Known(arg'[x])
  PROVE  AskInv'
<1>1. ASSUME NEW a \in Apps, Asking(a)' PROVE cur'[a] \in made' \ handed' /\ tagOf'[cur'[a]] = arg'[a]
  BY <1>1 DEF AskInv
<1>2. \A a, b \in Apps : Asking(a)' /\ Asking(b)' /\ cur'[a] = cur'[b] => a = b BY DEF AskInv
<1>3. \A t \in active' : Asked(owner[t])'
  <2> SUFFICES ASSUME NEW t \in active', NEW a \in Apps, pc'[a] = "consume", cur'[a] = owner[t]
               PROVE  FALSE
    BY DEF Asked
  <2>1. Asking(a)' BY DEF Asking
  <2> QED BY <2>1 DEF AskInv, Asked
<1>4. \A x \in Callers : pc'[x] = "cancelCall" => \E c \in handed' : tagOf'[c] = arg'[x]
  BY DEF AskInv
<1>5. \A t : Known(t)' <=> Known(t) BY DEF Known
<1> QED BY <1>1, <1>2, <1>3, <1>4, <1>5 DEF AskInv

\* A step that adds no consumer and no subscription, and in which the server sends
\* no delivery: the ends that appear are for tags the server has just dropped, and
\* a consumer leaves the map when nothing is pending, or unasked for.
LEMMA QuietEnds ==
  ASSUME Inv, DeliveryInv, AskInv, LastInv,
         UNCHANGED <<made, tagOf, sentFor, owner, rmsg>>, active' \subseteq active,
         handed \subseteq handed', closed => closed',
         \A a \in Apps : Asking(a)' => /\ Asking(a) /\ cur'[a] = cur[a] /\ arg'[a] = arg[a]
                                       /\ pc'[a] = "consume" => pc[a] = "consume"
                                       /\ pc[a] = "undo" => pc'[a] = "undo",
         \A c \in handed' :
           c \in handed \/ \E a \in Apps : pc[a] = "waitConsume" /\ ~Asking(a)' /\ cur[a] = c,
         \A x \in Callers : pc'[x] = "cancelCall"
           => (pc[x] = "cancelCall" /\ arg'[x] = arg[x]) \/ \E c \in handed : tagOf[c] = arg'[x],
         \A x \in Callers : pc'[x] = "cancelLocal"
           => (pc[x] = "cancelLocal" /\ arg'[x] = arg[x]) \/ (arg'[x] \in Tags /\ Ending(arg'[x])),
         Coming' = Coming, \A i \in Coming : inbox'[i] = inbox[i], InHand' => InHand,
         \A t \in Tags : Ending(t)' => Ending(t),
         \A t \in Tags : \A i \in Ends(t)' :
           \/ i \in Ends(t)
           \/ /\ t \notin active' /\ Known(t) /\ \A j \in Coming : j < i
              /\ \A c \in made : Sole(c) /\ tagOf[c] = t => Asked(c),
         \A c \in made : Taken(c)' = Taken(c) \/ chans'[tagOf[c]] = c,
         \A c \in made : Sole(c) /\ Wanted(c)' /\ ~closed' /\ chans'[tagOf[c]] # c
           => chans[tagOf[c]] # c \/ (Over(c) /\ Pending(tagOf[c]) = {})
  PROVE  AskInv' /\ LastInv'
<1>0. TypeOK /\ MapInv /\ handed \subseteq made BY DEF Inv, TypeOK
<1>1. AskInv'
  <2>1. \A t \in active : owner[t] \in made BY DEF DeliveryInv, OwnerInv
  <2>2. \A c \in handed' : c \in handed \/ \E a \in Apps : Asking(a) /\ ~Asking(a)' /\ cur[a] = c
    BY DEF Asking
  <2>3. \A t \in Tags : Ends(t)' # {} \/ Ending(t)' => Known(t) BY DEF AskInv
  <2>4. \A x \in Callers : pc'[x] = "cancelLocal" => Known(arg'[x]) BY DEF AskInv
  <2> QED BY <1>0, <2>1, <2>2, <2>3, <2>4, AskKeeps
<1>2. LastInv'
  <2> SUFFICES ASSUME NEW c \in Cons, Sole(c) PROVE Last(c)'
    BY DEF LastInv, Sole
  <2>0. c \in made /\ tagOf[c] \in Tags BY <1>0 DEF Sole, MapInv
  <2>1. PICK t \in Tags : t = tagOf[c] BY <2>0
  <2>2. Last(c) /\ InStep(c) BY DEF LastInv, DeliveryInv, StreamInv
  <2>3. Asked(c) => Asked(c)'
    <3> SUFFICES ASSUME NEW a \in Apps, pc'[a] = "consume", cur'[a] = c, Asked(c) PROVE FALSE
      BY DEF Asked
    <3>1. Asking(a)' BY DEF Asking
    <3> QED BY <3>1 DEF Asked
  <2>4. Over(c) => Over(c)' BY <2>3 DEF Over
  <2>5. \A i \in Ends(t)' :
          \/ i \in Ends(t)
          \/ Over(c)' /\ \A j \in Coming' : inbox'[j].tag = t => j < i
    BY <2>0, <2>1, <2>3 DEF Over
  <2>6. Pending(t)' \subseteq Pending(t)
    <3>1. {inbox'[i].d : i \in {j \in Coming' : inbox'[j].tag = t}}
            = {inbox[i].d : i \in {j \in Coming : inbox[j].tag = t}}
      OBVIOUS
    <3> QED BY <3>1 DEF Pending
  <2>7. \A x \in Callers : pc'[x] = "cancelLocal" /\ arg'[x] = t
          => (pc[x] = "cancelLocal" /\ arg[x] = t) \/ Ending(t)
    OBVIOUS
  <2>8. Wanted(c)' => Wanted(c)
    <3>1. CASE c \in handed' BY <3>1 DEF Wanted
    <3>2. ASSUME NEW a \in Apps, pc'[a] \in {"consume", "waitConsume"}, cur'[a] = c PROVE Wanted(c)
      <4>1. Asking(a)' BY <3>2 DEF Asking
      <4> QED BY <3>2, <4>1 DEF Wanted, Asking
    <3> QED BY <3>1, <3>2 DEF Wanted
  <2>9. ASSUME Wanted(c)', chans'[t] # c, ~closed'
        PROVE  Over(c)' /\ Taken(c)' = Len(sentFor'[c])
    <3>1. Taken(c)' = Taken(c) BY <2>0, <2>1, <2>9
    <3>2. CASE chans[t] # c BY <2>1, <2>2, <2>4, <2>8, <2>9, <3>1, <3>2 DEF Last
    <3>3. CASE chans[t] = c
      <4>1. Over(c) /\ Pending(t) = {} BY <2>0, <2>1, <2>9, <3>3
      <4>2. Taken(c) = Len(sentFor[c]) BY <1>0, <2>1, <2>2, <3>3, <4>1, AllGiven
      <4> QED BY <2>4, <3>1, <4>1, <4>2
    <3> QED BY <3>2, <3>3
  <2>10. Ending(t)' => Ending(t) BY <2>1
  <2>11. Pending(t) = {} => Pending(t)' = {} BY <2>6
  <2>12. tagOf[c] = t /\ tagOf'[c] = t BY <2>1
  <2>13. \A j \in Coming' : inbox'[j].tag = t => j \in Coming /\ inbox[j].tag = t OBVIOUS
  <2> QED BY <2>1, <2>2, <2>4, <2>5, <2>7, <2>9, <2>10, <2>11, <2>12, <2>13, LastKeeps
<1> QED BY <1>1, <1>2

\* The ends in the inbox, when it stays and when a frame comes in.
LEMMA SameEnds ==
  ASSUME inbox' = inbox
  PROVE  /\ Coming' = Coming /\ \A i \in Coming : inbox'[i] = inbox[i]
         /\ \A t \in Tags : Ends(t)' = Ends(t)
BY DEF Coming, Ends

\* The new frame is an end only if it is a cancel or a cancel-ok, and then the last.
LEMMA OtherEnds ==
  ASSUME TypeOK, NEW f \in Frame, f.m # "deliver", FromServer(<<f>>)
  PROVE  /\ Coming' = Coming /\ \A i \in Coming : inbox'[i] = inbox[i]
         /\ \A t \in Tags : \A i \in Ends(t)' :
              \/ i \in Ends(t)
              \/ f.m \in {"cancel", "cancelOk"} /\ f.tag = t /\ \A j \in Coming : j < i
<1> DEFINE n == Len(inbox)
<1>1. inbox \in Seq(Frame) /\ inbox' = inbox \o <<f>> BY DEF TypeOK, FromServer
<1>2. /\ n \in Nat /\ DOMAIN inbox = 1 .. n /\ DOMAIN inbox' = 1 .. n + 1 /\ inbox'[n + 1] = f
      /\ \A i \in 1 .. n : inbox'[i] = inbox[i]
  BY <1>1, GrownElements
<1> HIDE DEF n
<1>3. \A j \in Coming : j \in 1 .. n BY <1>2 DEF Coming
<1>4. ASSUME NEW t \in Tags, NEW i \in Ends(t)'
      PROVE  \/ i \in Ends(t)
             \/ f.m \in {"cancel", "cancelOk"} /\ f.tag = t /\ \A j \in Coming : j < i
  <2>1. i \in 1 .. n + 1 /\ inbox'[i].m \in {"cancel", "cancelOk"} /\ inbox'[i].tag = t
    BY <1>2 DEF Ends
  <2>2. CASE i \in 1 .. n BY <1>2, <2>1, <2>2 DEF Ends
  <2>3. CASE i = n + 1 BY <1>2, <1>3, <2>1, <2>3
  <2> QED BY <1>2, <2>1, <2>2, <2>3
<1> QED BY <1>4, OtherFrame

\* One goroutine moves on.
LEMMA MoveEnds ==
  ASSUME Inv, DeliveryInv, AskInv, LastInv,
         NEW x \in Threads, NEW w, Go(x, w),
         UNCHANGED <<made, tagOf, handed, cur, rmsg, owner, sentFor, queue, got>>,
         active' \subseteq active, closed => closed',
         \A y \in Callers : y # x => arg'[y] = arg[y],
         w \notin {"consume", "cancelLocal"},
         x \in Apps /\ w \in {"waitConsume", "undo"}
           => pc[x] \in {"consume", "waitConsume"} /\ arg'[x] = arg[x],
         x = "reader" => w \notin {"send", "sending", "cancelTag", "deliver"},
         x \in Callers /\ w = "cancelCall" => \E c \in handed : tagOf[c] = arg'[x],
         Coming' = Coming, \A i \in Coming : inbox'[i] = inbox[i],
         \A t \in Tags : \A i \in Ends(t)' :
           \/ i \in Ends(t)
           \/ /\ t \notin active' /\ Known(t) /\ \A j \in Coming : j < i
              /\ \A c \in made : Sole(c) /\ tagOf[c] = t => Asked(c),
         \A c \in made : Sole(c) /\ Wanted(c)' /\ ~closed' /\ chans'[tagOf[c]] # c
           => chans[tagOf[c]] # c \/ (Over(c) /\ Pending(tagOf[c]) = {})
  PROVE  AskInv' /\ LastInv'
<1>1. /\ pc \in [Threads -> Places] /\ Apps \subseteq Callers /\ Callers \subseteq Threads
      /\ "reader" \in Threads
  BY DEF Inv, TypeOK, Threads, Callers
<1>2. pc'[x] = w /\ \A y \in Threads : y # x => pc'[y] = pc[y] BY <1>1 DEF Go
<1>3. \A a \in Apps : Asking(a)' => /\ Asking(a) /\ cur'[a] = cur[a] /\ arg'[a] = arg[a]
                                    /\ pc'[a] = "consume" => pc[a] = "consume"
                                    /\ pc[a] = "undo" => pc'[a] = "undo"
  BY <1>1, <1>2 DEF Asking
<1>4. \A y \in Callers : pc'[y] = "cancelCall"
        => (pc[y] = "cancelCall" /\ arg'[y] = arg[y]) \/ \E c \in handed : tagOf[c] = arg'[y]
  BY <1>1, <1>2
<1>5. \A y \in Callers : pc'[y] = "cancelLocal" => pc[y] = "cancelLocal" /\ arg'[y] = arg[y]
  BY <1>1, <1>2
<1>6. InHand' => InHand BY <1>1, <1>2 DEF InHand
<1>7. \A t \in Tags : Ending(t)' => Ending(t) BY <1>1, <1>2 DEF Ending
<1>8. \A c \in made : Taken(c)' = Taken(c) BY DEF Taken
<1> QED BY <1>3, <1>4, <1>5, <1>6, <1>7, <1>8, QuietEnds

\* The same when nothing comes in and nothing leaves the map.
LEMMA LocalEnds ==
  ASSUME Inv, DeliveryInv, AskInv, LastInv,
         NEW x \in Threads, NEW w, Go(x, w),
         UNCHANGED <<made, tagOf, handed, cur, rmsg, inbox, active, owner, sentFor, queue, got>>,
         closed => closed', closed' \/ chans' = chans,
         \A y \in Callers : y # x => arg'[y] = arg[y],
         w \notin {"consume", "waitConsume", "cancelLocal"},
         x \in Apps /\ w = "undo" => pc[x] \in {"consume", "waitConsume"} /\ arg'[x] = arg[x],
         x = "reader" => w \notin {"send", "sending", "cancelTag", "deliver"},
         x \in Callers /\ w = "cancelCall" => \E c \in handed : tagOf[c] = arg'[x]
  PROVE  AskInv' /\ LastInv'
<1>1. /\ Coming' = Coming /\ \A i \in Coming : inbox'[i] = inbox[i]
      /\ \A t \in Tags : Ends(t)' = Ends(t)
  BY SameEnds
<1> QED BY <1>1, MoveEnds

-----------------------------------------------------------------------------
\* A consumer leaves the map by cancel for its tag when nothing is pending for it.
LEMMA CancelledLast ==
  ASSUME TypeOK, MapInv, NEW t \in Tags, cancel(t),
         \A c \in made : Sole(c) /\ tagOf[c] = t /\ Wanted(c)' => Over(c) /\ Pending(t) = {}
  PROVE  \A c \in made : Sole(c) /\ Wanted(c)' /\ ~closed' /\ chans'[tagOf[c]] # c
           => chans[tagOf[c]] # c \/ (Over(c) /\ Pending(tagOf[c]) = {})
<1>1. \A u \in Tags : u # t => chans'[u] = chans[u] BY DEF cancel, TypeOK
<1>2. \A c \in made : tagOf[c] \in Tags BY DEF MapInv
<1> QED BY <1>1, <1>2

\* An application calls, and goes on with its call.
LEMMA AppEnds ==
  ASSUME Inv, DeliveryInv, AskInv, LastInv, CancelAfterConsume, NEW a \in Apps,
         \/ \E t \in Tags : Cancel(a, t)
         \/ Close(a) \/ consumeUndo(a) \/ closeCall(a)
  PROVE  AskInv' /\ LastInv'
<1> USE DEF subsVars, bufVars, chVars, srvVars
<1>0. /\ TypeOK /\ CallInv /\ MapInv /\ a \in Threads \ {"reader"} /\ a \in Callers
      /\ pc \in [Threads -> Places]
  BY NameAssumption DEF Inv, Threads, Callers, TypeOK
<1>1. ASSUME NEW t \in Tags, Cancel(a, t) PROVE AskInv' /\ LastInv'
  <2>1. Go(a, "cancelCall") /\ UNCHANGED cur /\ \A u \in Callers : u # a => arg'[u] = arg[u]
    BY <1>0, <1>1 DEF Cancel, TypeOK
  <2>2. pc[a] = "idle" /\ pc'[a] = "cancelCall" BY <1>0, <1>1, <2>1 DEF Cancel, Go
  <2>3. \E c \in handed : tagOf[c] = arg'[a] BY <1>0, <2>2 DEF CancelAfterConsume
  <2> QED BY <1>0, <1>1, <2>1, <2>3, LocalEnds DEF Cancel
<1>2. CASE Close(a) BY <1>0, <1>2, LocalEnds DEF Close
<1>3. CASE consumeUndo(a)
  <2>1. arg[a] \in Tags /\ cancel(arg[a]) /\ pc[a] = "undo" BY <1>0, <1>3 DEF consumeUndo, CallInv
  <2>2. Go(a, "idle") /\ UNCHANGED <<cur, arg, handed, rmsg, inbox, active, owner, sentFor, queue, got>>
    BY <1>3 DEF consumeUndo
  <2>3. UNCHANGED <<made, tagOf, closed>> BY <2>1 DEF cancel
  <2>4. cur[a] \in made /\ cur[a] \notin handed /\ tagOf[cur[a]] = arg[a]
    BY <2>1 DEF AskInv, Asking
  <2>5. ASSUME NEW c \in made, Sole(c), tagOf[c] = arg[a], Wanted(c)' PROVE FALSE
    <3>1. c = cur[a] BY <2>4, <2>5 DEF Sole
    <3>2. PICK b \in Apps : pc'[b] \in {"consume", "waitConsume"} /\ cur[b] = c
      BY <2>2, <2>4, <2>5, <3>1 DEF Wanted
    <3>3. b # a /\ pc[b] = pc'[b] BY <1>0, <2>2, <3>2 DEF Go, Threads, Callers
    <3> QED BY <2>1, <3>1, <3>2, <3>3 DEF AskInv, Asking
  <2>6. \A c \in made : Sole(c) /\ Wanted(c)' /\ ~closed' /\ chans'[tagOf[c]] # c
          => chans[tagOf[c]] # c \/ (Over(c) /\ Pending(tagOf[c]) = {})
    BY <1>0, <2>1, <2>5, CancelledLast
  <2> QED BY <1>0, <2>1, <2>2, <2>3, <2>6, SameEnds, MoveEnds
<1>4. CASE closeCall(a)
  <2>1. PICK w \in {"waitClose", "shutdown"} : Go(a, w) BY <1>4 DEF closeCall
  <2>2. UNCHANGED <<arg, cur, handed, rmsg, chans, closed, made, tagOf, queue, got, active, owner, sentFor>>
    BY <1>4 DEF closeCall
  <2>3. /\ Coming' = Coming /\ \A i \in Coming : inbox'[i] = inbox[i]
        /\ \A t \in Tags : Ends(t)' \subseteq Ends(t)
    <3>1. CASE inbox' = inbox BY <3>1, SameEnds
    <3>2. CASE FromServer(<<Msg("closeOk", None, 0)>>)
      <4>1. PICK f \in Frame : f = Msg("closeOk", None, 0) BY OtherFrames
      <4>2. f.m = "closeOk" BY <4>1 DEF Msg
      <4> QED BY <1>0, <3>2, <4>1, <4>2, OtherEnds
    <3> QED BY <1>4, <3>1, <3>2 DEF closeCall
  <2> QED BY <1>0, <2>1, <2>2, <2>3, MoveEnds
<1> QED BY <1>1, <1>2, <1>3, <1>4

\* The rest: contexts, buffers that leave, shutdown, the reader's cancel.
LEMMA RestEnds ==
  ASSUME Inv, DeliveryInv, AskInv, LastInv, ArmedInv,
         \/ \E c \in Cons : contextDone(c) \/ contextClosed(c) \/ Buffer(c)
         \/ \E t \in Apps \cup {"reader", "conn"} : closeChannel(t)
         \/ connShutdown \/ dispatchCancel \/ dispatchDrop \/ UNCHANGED vars
  PROVE  AskInv' /\ LastInv'
<1> USE DEF subsVars, bufVars, chVars, srvVars, callVars
<1>0. /\ TypeOK /\ CallInv /\ MapInv /\ pc \in [Threads -> Places]
      /\ \A c \in Cons : c \in Threads \ {"reader"} /\ c \notin Apps /\ c \in Callers
      /\ Apps \subseteq Threads \ {"reader"} /\ "conn" \in Threads \ {"reader"}
      /\ "reader" \in Threads
  BY NameAssumption DEF Inv, TypeOK, Threads, Callers
<1>1. ASSUME NEW c \in Cons, contextDone(c) PROVE AskInv' /\ LastInv'
  <2>1. Go(c, "cancelCall") /\ \A y \in Callers : y # c => arg'[y] = arg[y]
    BY <1>0, <1>1 DEF contextDone, TypeOK
  <2>2. pc[c] = "armed" /\ pc'[c] = "cancelCall" BY <1>0, <1>1, <2>1 DEF contextDone, Go
  <2>3. \E k \in handed : tagOf[k] = arg'[c]
    BY <1>0, <1>1, <2>2 DEF ArmedInv, contextDone, TypeOK
  <2> QED BY <1>0, <1>1, <2>1, <2>3, LocalEnds DEF contextDone
<1>2. ASSUME NEW c \in Cons, contextClosed(c) PROVE AskInv' /\ LastInv'
  BY <1>0, <1>2, LocalEnds DEF contextClosed
<1>3. ASSUME UNCHANGED <<inbox, rmsg, active, owner, sentFor, queue, got, made, tagOf, cur, handed,
                         chans, closed, pc, arg>>
      PROVE  AskInv' /\ LastInv'
  <2>1. \A t \in Tags : Ending(t)' => Ending(t) BY <1>3 DEF Ending
  <2>2. InHand' => InHand BY <1>3 DEF InHand
  <2>3. \A c \in made : Taken(c)' = Taken(c) BY <1>3 DEF Taken
  <2>4. \A a \in Apps : Asking(a)' <=> Asking(a) BY <1>3 DEF Asking
  <2> QED BY <1>3, <2>1, <2>2, <2>3, <2>4, SameEnds, QuietEnds
<1>4. ASSUME NEW c \in Cons, Buffer(c) PROVE AskInv' /\ LastInv'
  BY <1>3, <1>4 DEF Buffer, bufferInClosed, bufferDrop, bufferExit
<1>5. ASSUME NEW t \in Apps \cup {"reader", "conn"}, closeChannel(t) PROVE AskInv' /\ LastInv'
  <2>0. t \in Threads BY <1>0
  <2>1. CASE shutdown(t)
    <3>1. PICK w \in {"consClose", "join"} : Go(t, w) BY <2>1 DEF shutdown
    <3> QED BY <2>0, <2>1, <3>1, LocalEnds DEF shutdown
  <2>2. CASE shutdownClose(t) BY <2>0, <2>2, LocalEnds DEF shutdownClose, closeSubs
  <2>3. CASE shutdownDone(t) BY <2>0, <2>3, LocalEnds DEF shutdownDone
  <2>4. CASE shutdownJoin(t) BY <2>0, <2>4, LocalEnds DEF shutdownJoin
  <2>5. CASE release(t)
    <3>1. PICK w \in {"end", "idle"} : Go(t, w) BY <2>5 DEF release
    <3> QED BY <2>0, <2>5, <3>1, LocalEnds DEF release
  <2> QED BY <1>5, <2>1, <2>2, <2>3, <2>4, <2>5 DEF closeChannel
<1>6. CASE connShutdown BY <1>0, <1>6, LocalEnds DEF connShutdown
<1>7. CASE dispatchCancel
  <2>1. rmsg.tag \in Tags /\ cancel(rmsg.tag) /\ Ending(rmsg.tag)
    BY <1>0, <1>7, FrameTag DEF dispatchCancel, CallInv, TypeOK, Ending
  <2>2. UNCHANGED <<made, tagOf, closed>> BY <2>1 DEF cancel
  <2>3. \A c \in made : Sole(c) /\ tagOf[c] = rmsg.tag => Over(c) /\ Pending(rmsg.tag) = {}
    BY <1>0, <2>1 DEF LastInv, Last, TypeOK
  <2>4. \A c \in made : Sole(c) /\ Wanted(c)' /\ ~closed' /\ chans'[tagOf[c]] # c
          => chans[tagOf[c]] # c \/ (Over(c) /\ Pending(tagOf[c]) = {})
    BY <1>0, <2>1, <2>3, CancelledLast
  <2> QED BY <1>0, <1>7, <2>2, <2>4, SameEnds, MoveEnds DEF dispatchCancel
<1>8. CASE dispatchDrop BY <1>0, <1>8, LocalEnds DEF dispatchDrop
<1>9. CASE UNCHANGED vars BY <1>3, <1>9 DEF vars
<1> QED BY <1>1, <1>2, <1>4, <1>5, <1>6, <1>7, <1>8, <1>9

\* A call that waits, and the rest of Cancel: its reply is the last frame for the tag.
LEMMA CallEnds ==
  ASSUME Inv, DeliveryInv, AskInv, LastInv, "nowait" \notin Features,
         NEW x \in Callers, Call(x)
  PROVE  AskInv' /\ LastInv'
<1> USE DEF subsVars, bufVars, chVars, srvVars
<1>0. /\ TypeOK /\ CallInv /\ MapInv /\ x \in Threads \ {"reader"}
      /\ pc \in [Threads -> Places] /\ Callers \subseteq Threads /\ "reader" \in Threads
      /\ arg \in [Callers -> Tags \cup {None}] /\ Apps \subseteq Callers
      /\ "reader" \notin Callers /\ Apps \cap Cons = {}
  BY NameAssumption DEF Inv, Threads, Callers, TypeOK
<1>1. CASE cancelCall(x)
  <2>1. PICK w \in {"idle", "end", "waitCancel"} : Go(x, w)
    BY <1>1 DEF cancelCall, Return
  <2>2. /\ UNCHANGED <<arg, cur, handed, rmsg, chans, closed, made, tagOf, queue, got>>
        /\ arg[x] \in Tags /\ pc[x] = "cancelCall"
    BY <1>0, <1>1 DEF cancelCall, CallInv
  <2>3. CASE UNCHANGED srvVars BY <1>0, <2>1, <2>2, <2>3, SameEnds, MoveEnds
  <2>4. CASE /\ active' = active \ {arg[x]} /\ FromServer(<<Msg("cancelOk", arg[x], 0)>>)
             /\ UNCHANGED <<srv, owner, sent, sentFor>>
    <3>1. PICK f \in Frame : f = Msg("cancelOk", arg[x], 0) BY <2>2, OtherFrames
    <3>2. f.m = "cancelOk" /\ f.tag = arg[x] BY <3>1 DEF Msg
    <3>3. PICK k \in handed : tagOf[k] = arg[x] BY <2>2 DEF AskInv
    <3>4. k \in made /\ Known(arg[x]) BY <1>0, <3>3 DEF TypeOK, Known
    <3>5. Asked(k) BY <3>3 DEF AskInv, Asked, Asking
    <3>6. \A c \in made : Sole(c) /\ tagOf[c] = arg[x] => Asked(c) BY <3>3, <3>4, <3>5 DEF Sole
    <3>7. /\ Coming' = Coming /\ \A i \in Coming : inbox'[i] = inbox[i]
          /\ \A t \in Tags : \A i \in Ends(t)' :
               i \in Ends(t) \/ (f.tag = t /\ \A j \in Coming : j < i)
      BY <1>0, <2>4, <3>1, <3>2, OtherEnds
    <3>8. \A t \in Tags : \A i \in Ends(t)' :
            \/ i \in Ends(t)
            \/ /\ t \notin active' /\ Known(t) /\ \A j \in Coming : j < i
               /\ \A c \in made : Sole(c) /\ tagOf[c] = t => Asked(c)
      BY <2>4, <3>2, <3>4, <3>6, <3>7
    <3> QED BY <1>0, <2>1, <2>2, <2>4, <3>7, <3>8, MoveEnds
  <2> QED BY <1>1, <2>3, <2>4 DEF cancelCall, ServeCancel
<1>2. CASE cancelLocal(x)
  <2>1. arg[x] \in Tags /\ cancel(arg[x]) /\ pc[x] = "cancelLocal"
    BY <1>0, <1>2 DEF cancelLocal, CallInv
  <2>2. PICK w \in {"idle", "end"} : Go(x, w) BY <1>2 DEF cancelLocal, Return
  <2>3. UNCHANGED <<cur, arg, handed, inbox, rmsg, active, owner, sentFor, queue, got, made, tagOf, closed>>
    BY <1>2, <2>1 DEF cancelLocal, cancel
  <2>4. \A c \in made : Sole(c) /\ tagOf[c] = arg[x] => Over(c) /\ Pending(arg[x]) = {}
    BY <1>0, <2>1 DEF LastInv, Last, TypeOK
  <2>5. \A c \in made : Sole(c) /\ Wanted(c)' /\ ~closed' /\ chans'[tagOf[c]] # c
          => chans[tagOf[c]] # c \/ (Over(c) /\ Pending(tagOf[c]) = {})
    BY <1>0, <2>1, <2>4, CancelledLast
  <2> QED BY <1>0, <2>2, <2>3, <2>5, SameEnds, MoveEnds
<1>3. CASE callFails(x)
  <2>1. /\ UNCHANGED <<cur, arg, handed, inbox, rmsg, chans, active, owner, sentFor, queue, got,
                       made, tagOf, closed>>
        /\ pc[x] \in Waiting /\ Go(x, Failed(x))
    BY <1>3 DEF callFails
  <2>2. /\ Failed(x) \in {"undo", "idle", "end", "shutdown"}
        /\ Failed(x) = "undo" => pc[x] = "waitConsume"
    BY <2>1 DEF Failed, Return, Waiting
  <2>3. PICK w : w = Failed(x) OBVIOUS
  <2> QED BY <1>0, <2>1, <2>2, <2>3, LocalEnds
<1>4. CASE rpc(x)
  <2>1. /\ UNCHANGED <<cur, inbox, rmsg, chans, active, owner, sentFor, queue, got, made, tagOf, closed>>
        /\ pc["reader"] = "deliver" /\ pc[x] \in Waiting
    BY <1>4 DEF rpc
  <2>2. /\ Coming' = Coming /\ \A i \in Coming : inbox'[i] = inbox[i]
        /\ \A t \in Tags : Ends(t)' = Ends(t)
    BY <2>1, SameEnds
  <2>3. \A c \in made : Taken(c)' = Taken(c) BY <2>1 DEF Taken
  <2>4. ASSUME NEW w, pc' = [pc EXCEPT !["reader"] = "idle", ![x] = w],
               w \notin {"consume", "waitConsume", "cancelCall"},
               \A y \in Callers : y # x => arg'[y] = arg[y],
               w = "undo" => pc[x] = "waitConsume" /\ arg'[x] = arg[x] /\ handed' = handed,
               w = "cancelLocal" => arg'[x] \in Tags /\ Ending(arg'[x]),
               handed' = handed \/ (x \in Apps /\ pc[x] = "waitConsume" /\ handed' = handed \cup {cur[x]})
        PROVE  AskInv' /\ LastInv'
    <3>1. pc'["reader"] = "idle" /\ pc'[x] = w /\ \A y \in Callers : y # x => pc'[y] = pc[y]
      BY <1>0, <2>4
    <3>2. ~InHand' /\ \A t \in Tags : ~Ending(t)' BY <3>1 DEF InHand, Ending
    <3>3. \A a \in Apps : Asking(a)' => /\ Asking(a) /\ cur'[a] = cur[a] /\ arg'[a] = arg[a]
                                        /\ pc'[a] = "consume" => pc[a] = "consume"
                                        /\ pc[a] = "undo" => pc'[a] = "undo"
      BY <1>0, <2>1, <2>4, <3>1 DEF Asking
    <3>4. \A c \in handed' :
            c \in handed \/ \E a \in Apps : pc[a] = "waitConsume" /\ ~Asking(a)' /\ cur[a] = c
      BY <2>4, <3>1 DEF Asking
    <3>5. \A y \in Callers : pc'[y] = "cancelCall" => pc[y] = "cancelCall" /\ arg'[y] = arg[y]
      BY <2>4, <3>1
    <3>6. \A y \in Callers : pc'[y] = "cancelLocal"
            => (pc[y] = "cancelLocal" /\ arg'[y] = arg[y]) \/ (arg'[y] \in Tags /\ Ending(arg'[y]))
      BY <2>4, <3>1
    <3> QED BY <2>1, <2>2, <2>3, <2>4, <3>2, <3>3, <3>4, <3>5, <3>6, QuietEnds
  <2>5. CASE pc[x] = "waitConsume" /\ rmsg.m = "consumeOk"
    <3>1. cur[x] \in Cons /\ x \in Apps
      BY <1>0, <2>5 DEF CallInv, TypeOK, Callers
    <3>2. handed' = handed \cup {cur[x]} /\ arg' = arg BY <1>4, <2>5 DEF rpc
    <3>3. CASE pc' = [pc EXCEPT !["reader"] = "idle", ![x] = "idle"]
      BY <2>4, <2>5, <3>1, <3>2, <3>3
    <3>4. CASE pc' = [pc EXCEPT !["reader"] = "idle", ![x] = "idle", ![cur[x]] = "armed"]
      <4>1. /\ pc'["reader"] = "idle" /\ pc'[x] = "idle"
            /\ \A y \in Callers : pc'[y] \in {pc[y], "idle", "armed"}
        BY <1>0, <3>1, <3>4, NameAssumption DEF Callers
      <4>2. ~InHand' /\ \A t \in Tags : ~Ending(t)' BY <4>1 DEF InHand, Ending
      <4>3. \A a \in Apps : Asking(a)' => Asking(a) /\ pc'[a] = pc[a]
        BY <1>0, <4>1 DEF Asking
      <4>4. \A c \in handed' :
              c \in handed \/ \E a \in Apps : pc[a] = "waitConsume" /\ ~Asking(a)' /\ cur[a] = c
        BY <2>5, <3>1, <3>2, <4>1 DEF Asking
      <4> QED BY <2>1, <2>2, <2>3, <3>2, <4>1, <4>2, <4>3, <4>4, QuietEnds
    <3>5. \/ pc' = [pc EXCEPT !["reader"] = "idle", ![x] = "idle"]
          \/ pc' = [pc EXCEPT !["reader"] = "idle", ![x] = "idle", ![cur[x]] = "armed"]
      BY <1>4, <2>5 DEF rpc
    <3> QED BY <3>3, <3>4, <3>5
  <2>6. CASE pc[x] = "waitCancel" /\ rmsg.m = "cancelOk"
    <3>1. /\ pc' = [pc EXCEPT !["reader"] = "idle", ![x] = "cancelLocal"]
          /\ arg' = [arg EXCEPT ![x] = rmsg.tag] /\ handed' = handed
      BY <1>4, <2>6 DEF rpc
    <3>2. rmsg.tag \in Tags /\ Ending(rmsg.tag) BY <1>0, <2>1, <2>6, FrameTag DEF TypeOK, Ending
    <3>3. arg'[x] = rmsg.tag /\ \A y \in Callers : y # x => arg'[y] = arg[y] BY <1>0, <3>1
    <3>4. arg'[x] \in Tags /\ Ending(arg'[x]) BY <3>2, <3>3
    <3>5. PICK w : w = "cancelLocal" OBVIOUS
    <3>6. pc' = [pc EXCEPT !["reader"] = "idle", ![x] = w] BY <3>1, <3>5
    <3> QED BY <2>4, <3>1, <3>3, <3>4, <3>5, <3>6
  <2>7. CASE /\ ~(pc[x] = "waitConsume" /\ rmsg.m = "consumeOk")
             /\ ~(pc[x] = "waitCancel" /\ rmsg.m = "cancelOk")
    <3>1. /\ \/ pc' = [pc EXCEPT !["reader"] = "idle", ![x] = "shutdown"]
             \/ pc' = [pc EXCEPT !["reader"] = "idle", ![x] = Failed(x)]
          /\ arg' = arg /\ handed' = handed
      BY <1>4, <2>7 DEF rpc
    <3>2. /\ Failed(x) \in {"undo", "idle", "end", "shutdown"}
          /\ Failed(x) = "undo" => pc[x] = "waitConsume"
      BY <2>1 DEF Failed, Return, Waiting
    <3>3. PICK w : w = Failed(x) OBVIOUS
    <3> QED BY <2>4, <3>1, <3>2, <3>3
  <2> QED BY <2>5, <2>6, <2>7
<1> QED BY <1>1, <1>2, <1>3, <1>4 DEF Call

\* The server cancels a consumer that was asked for, or raises an exception.
LEMMA ServerEnds ==
  ASSUME Inv, DeliveryInv, AskInv, LastInv,
         Exception \/ \E t \in Tags : ServerCancel(t)
  PROVE  AskInv' /\ LastInv'
<1> USE DEF subsVars, bufVars, chVars, callVars
<1>0. TypeOK BY DEF Inv
<1>1. ASSUME NEW f \in Frame, f.m # "deliver", FromServer(<<f>>), active' \subseteq active,
             f.m \in {"cancel", "cancelOk"} => f.tag \in active \ active',
             UNCHANGED <<rmsg, sentFor, owner, queue, got, made, tagOf, chans, closed, pc, cur, arg, handed>>
      PROVE  AskInv' /\ LastInv'
  <2>1. /\ Coming' = Coming /\ \A i \in Coming : inbox'[i] = inbox[i]
        /\ \A t \in Tags : \A i \in Ends(t)' :
             \/ i \in Ends(t)
             \/ f.m \in {"cancel", "cancelOk"} /\ f.tag = t /\ \A j \in Coming : j < i
    BY <1>0, <1>1, OtherEnds
  <2>2. ASSUME NEW t \in active
        PROVE  Known(t) /\ \A c \in made : Sole(c) /\ tagOf[c] = t => Asked(c)
    <3>1. owner[t] \in made /\ tagOf[owner[t]] = t /\ Asked(owner[t])
      BY DEF DeliveryInv, OwnerInv, AskInv
    <3> QED BY <3>1 DEF Known, Sole
  <2>3. \A t \in Tags : \A i \in Ends(t)' :
          \/ i \in Ends(t)
          \/ /\ t \notin active' /\ Known(t) /\ \A j \in Coming : j < i
             /\ \A c \in made : Sole(c) /\ tagOf[c] = t => Asked(c)
    BY <1>1, <2>1, <2>2
  <2>4. (InHand' <=> InHand) /\ \A t \in Tags : Ending(t)' <=> Ending(t)
    BY <1>1 DEF InHand, Ending
  <2>5. \A c \in made : Taken(c)' = Taken(c) BY <1>1 DEF Taken
  <2>6. \A a \in Apps : Asking(a)' <=> Asking(a) BY <1>1 DEF Asking
  <2> QED BY <1>1, <2>1, <2>3, <2>4, <2>5, <2>6, QuietEnds
<1>2. ASSUME NEW t \in Tags, ServerCancel(t) PROVE AskInv' /\ LastInv'
  <2>1. PICK f \in Frame : f = Msg("cancel", t, 0) BY OtherFrames
  <2>2. f.m = "cancel" /\ f.tag = t BY <2>1 DEF Msg
  <2> QED BY <1>1, <1>2, <2>1, <2>2 DEF ServerCancel
<1>3. CASE Exception
  <2>1. PICK f \in Frame : f = Msg("close", None, 0) BY OtherFrames
  <2>2. f.m = "close" BY <2>1 DEF Msg
  <2> QED BY <1>1, <1>3, <2>1, <2>2 DEF Exception
<1> QED BY <1>2, <1>3

\* The reader and the goroutine buffer hand deliveries over.
LEMMA HandEnds ==
  ASSUME Inv, DeliveryInv, AskInv, LastInv,
         send \/ \E c \in Cons : bufferReceive(c) \/ bufferSend(c)
  PROVE  AskInv' /\ LastInv'
<1> USE DEF subsVars, bufVars, chVars, srvVars, callVars
<1>0. /\ TypeOK /\ MapInv /\ pc \in [Threads -> Places] /\ "reader" \in Threads
      /\ "reader" \notin Callers /\ Callers \subseteq Threads /\ Apps \subseteq Callers
  BY NameAssumption DEF Inv, TypeOK, Threads, Callers
<1>1. ASSUME UNCHANGED <<inbox, rmsg, active, owner, sentFor, made, tagOf, cur, handed, chans,
                         closed, arg>>,
             \A x \in Callers : pc'[x] = pc[x], InHand' => InHand,
             \A t \in Tags : Ending(t)' => Ending(t),
             \A c \in made : Taken(c)' = Taken(c) \/ chans'[tagOf[c]] = c
      PROVE  AskInv' /\ LastInv'
  <2>1. \A a \in Apps : Asking(a)' <=> Asking(a) BY <1>0, <1>1 DEF Asking
  <2>2. \A a \in Apps : pc'[a] = pc[a] BY <1>0, <1>1
  <2> QED BY <1>1, <2>1, <2>2, SameEnds, QuietEnds
<1>2. CASE send
  <2>1. /\ pc'["reader"] \in {"sending", "idle"} /\ pc["reader"] = "send"
        /\ \A x \in Callers : pc'[x] = pc[x]
    BY <1>0, <1>2 DEF send, Go
  <2>2. InHand /\ \A t \in Tags : ~Ending(t)' BY <2>1 DEF InHand, Ending
  <2>3. \A c \in made : Taken(c)' = Taken(c) BY <1>2 DEF send, Taken
  <2> QED BY <1>1, <1>2, <2>1, <2>2, <2>3 DEF send
<1>3. ASSUME NEW c \in Cons, bufferReceive(c) PROVE AskInv' /\ LastInv'
  <2>1. pc'["reader"] = "idle" /\ \A x \in Callers : pc'[x] = pc[x]
    BY <1>0, <1>3 DEF bufferReceive, Go
  <2>2. ~InHand' /\ \A t \in Tags : ~Ending(t)' BY <2>1 DEF InHand, Ending
  <2>3. chans[tagOf[c]] = c
    <3>1. rmsg.tag \in Tags /\ chans[rmsg.tag] = c
      BY <1>0, <1>3, FrameTag DEF bufferReceive, Target, Inv, CallInv, TypeOK
    <3> QED BY <3>1, NameAssumption DEF None, Inv, MapInv
  <2>4. \A k \in made : k # c => queue'[k] = queue[k] /\ got'[k] = got[k]
    BY <1>0, <1>3 DEF bufferReceive, TypeOK
  <2>5. \A k \in made : Taken(k)' = Taken(k) \/ chans[tagOf[k]] = k BY <2>3, <2>4 DEF Taken
  <2> QED BY <1>1, <1>3, <2>1, <2>2, <2>5 DEF bufferReceive
<1>4. ASSUME NEW c \in Cons, bufferSend(c) PROVE AskInv' /\ LastInv'
  <2>1. /\ UNCHANGED <<inbox, rmsg, active, owner, sentFor, made, tagOf, cur, handed, chans, closed,
                       arg, pc>>
        /\ \A k \in made : k # c => queue'[k] = queue[k] /\ got'[k] = got[k]
        /\ queue'[c] = Tail(queue[c]) /\ got'[c] = Append(got[c], Head(queue[c]))
        /\ queue[c] # <<>>
    BY <1>0, <1>4 DEF bufferSend, TypeOK, Inv, BufInv
  <2>2. Taken(c)' = Taken(c)
    <3>1. queue[c] \in Seq(1 .. MaxDeliver) /\ got[c] \in Seq(1 .. MaxDeliver)
      BY <1>0 DEF TypeOK
    <3>2. Len(queue[c]) \in Nat \ {0} /\ Len(queue'[c]) = Len(queue[c]) - 1
      BY <2>1, <3>1, TailElements
    <3>3. Head(queue[c]) \in 1 .. MaxDeliver BY <2>1, <3>1, HeadTail
    <3>4. Len(got'[c]) = Len(got[c]) + 1 /\ Len(got[c]) \in Nat
      BY <2>1, <3>1, <3>3, AppendElements
    <3>5. PICK g \in Nat, n \in Nat \ {0} : g = Len(got[c]) /\ n = Len(queue[c]) BY <3>2, <3>4
    <3>6. Taken(c) = g + n /\ Taken(c)' = (g + 1) + (n - 1) BY <3>2, <3>4, <3>5 DEF Taken
    <3> QED BY <3>6
  <2>3. \A k \in made : Taken(k)' = Taken(k) BY <2>1, <2>2 DEF Taken
  <2>4. (InHand' <=> InHand) /\ \A t \in Tags : Ending(t)' <=> Ending(t)
    BY <2>1 DEF InHand, Ending
  <2> QED BY <1>1, <2>1, <2>3, <2>4
<1> QED BY <1>2, <1>3, <1>4

\* The reader takes a frame: an end that it takes was ahead of no delivery.
LEMMA DispatchEnds ==
  ASSUME Inv, DeliveryInv, AskInv, LastInv, dispatch
  PROVE  AskInv' /\ LastInv'
<1> USE DEF subsVars, bufVars, chVars, srvVars, callVars
<1>0. /\ TypeOK /\ MapInv /\ pc \in [Threads -> Places] /\ "reader" \in Threads
      /\ "reader" \notin Callers /\ Callers \subseteq Threads /\ Apps \subseteq Callers
      /\ handed \subseteq made
  BY NameAssumption DEF Inv, TypeOK, Threads, Callers
<1>1. /\ UNCHANGED <<active, owner, sentFor, chans, closed, made, tagOf, queue, got, arg, cur, handed>>
      /\ pc["reader"] = "idle"
  BY DEF dispatch
<1>2. \A x \in Callers : pc'[x] = pc[x] BY <1>0 DEF dispatch, Go
<1>3. PICK n \in Nat \ {0} : n = Len(inbox) BY DispatchFrames
<1>4. /\ rmsg' = inbox[1] /\ DOMAIN inbox = 1 .. n /\ DOMAIN inbox' = 1 .. n - 1
      /\ \A i \in DOMAIN inbox' : inbox'[i] = inbox[i + 1]
  BY <1>3, DispatchFrames
<1>5. /\ ~InHand /\ (InHand' <=> rmsg'.m = "deliver")
      /\ \A i \in Coming' : i + 1 \in Coming /\ inbox'[i] = inbox[i + 1] /\ i \in Nat /\ 1 < i + 1
      /\ \A t \in Tags : Pending(t)' = Pending(t)
  BY DispatchFrames
<1>6. \A t \in Tags : \A i \in Ends(t)' : i \in 1 .. n /\ i + 1 \in Ends(t)
  BY <1>3, <1>4 DEF Ends
<1>7. \A t \in Tags : Ending(t)' => 1 \in Ends(t)
  <2>1. /\ pc'["reader"] = "cancelTag" => rmsg'.m = "cancel"
        /\ rmsg'.m \in {"cancel", "cancelOk"} => 1 \in DOMAIN inbox /\ inbox[1].m \in {"cancel", "cancelOk"}
    BY <1>0, <1>3, <1>4 DEF dispatch, Go
  <2> QED BY <1>4, <2>1 DEF Ending, Ends
<1>8. AskInv'
  <2>1. \A t \in active : owner[t] \in made BY DEF DeliveryInv, OwnerInv
  <2>2. \A a \in Apps : pc'[a] = pc[a] BY <1>0, <1>2
  <2>3. \A t \in Tags : Ends(t)' # {} \/ Ending(t)' => Known(t) BY <1>6, <1>7 DEF AskInv
  <2>4. \A x \in Callers : pc'[x] = "cancelLocal" => Known(arg'[x]) BY <1>1, <1>2 DEF AskInv
  <2>5. \A a \in Apps : Asking(a)' <=> Asking(a) BY <2>2 DEF Asking
  <2> QED BY <1>0, <1>1, <1>2, <2>1, <2>2, <2>3, <2>4, <2>5, AskKeeps
<1>9. LastInv'
  <2> SUFFICES ASSUME NEW c \in Cons, Sole(c) PROVE Last(c)'
    BY <1>1 DEF LastInv, Sole
  <2>1. tagOf[c] \in Tags /\ Last(c) BY <1>0 DEF Sole, MapInv, LastInv
  <2>2. PICK t \in Tags : t = tagOf[c] BY <2>1
  <2>3. Over(c)' <=> Over(c)
    <3>1. \A a \in Apps : pc'[a] = pc[a] /\ cur'[a] = cur[a] BY <1>0, <1>1, <1>2
    <3> QED BY <1>1, <3>1 DEF Over, Asked
  <2>4. Ends(t)' # {} => Over(c)' BY <1>6, <2>1, <2>2, <2>3 DEF Last
  <2>5. ASSUME NEW i \in Ends(t)', NEW j \in Coming', inbox'[j].tag = t PROVE j < i
    <3>1. i + 1 \in Ends(t) /\ j + 1 \in Coming /\ inbox[j + 1].tag = t /\ i \in Nat /\ j \in Nat
      BY <1>5, <1>6, <2>5
    <3>2. j + 1 < i + 1 BY <2>1, <2>2, <3>1 DEF Last
    <3> QED BY <3>1, <3>2
  <2>6. Ending(t)' => Over(c)' /\ Pending(t)' = {}
    <3> SUFFICES ASSUME Ending(t)' PROVE Over(c)' /\ Pending(t)' = {} OBVIOUS
    <3>1. 1 \in Ends(t) BY <1>7
    <3>2. Over(c)' BY <2>1, <2>2, <2>3, <3>1 DEF Last
    <3>3. ASSUME NEW j \in Coming, inbox[j].tag = t PROVE FALSE
      <4>1. j < 1 BY <2>1, <2>2, <3>1, <3>3 DEF Last
      <4>2. j \in 1 .. n BY <1>4 DEF Coming
      <4> QED BY <4>1, <4>2
    <3>4. Pending(t) = {} BY <1>5, <3>3 DEF Pending
    <3> QED BY <1>5, <3>2, <3>4
  <2>7. \A x \in Callers : pc'[x] = "cancelLocal" /\ arg'[x] = t => Over(c)' /\ Pending(t)' = {}
    BY <1>1, <1>2, <1>5, <2>1, <2>2, <2>3 DEF Last
  <2>8. Wanted(c)' <=> Wanted(c)
    <3>1. \A a \in Apps : pc'[a] = pc[a] /\ cur'[a] = cur[a] BY <1>0, <1>1, <1>2
    <3> QED BY <1>1, <3>1 DEF Wanted
  <2>9. Wanted(c)' /\ chans'[t] # c /\ ~closed' => Over(c)' /\ Taken(c)' = Len(sentFor'[c])
    <3>1. Taken(c)' = Taken(c) BY <1>1 DEF Taken
    <3> QED BY <1>1, <2>1, <2>2, <2>3, <2>8, <3>1 DEF Last
  <2>10. tagOf'[c] = t BY <1>1, <2>2
  <2> QED BY <2>4, <2>5, <2>6, <2>7, <2>9, <2>10 DEF Last
<1> QED BY <1>8, <1>9

\* Consume makes a consumer of which nothing is known yet; if its tag is new, no
\* end for it is on its way.
LEMMA ConsumeEnds ==
  ASSUME Inv, DeliveryInv, AskInv, LastInv,
         NEW a \in Apps, NEW t \in Tags, NEW c \in Cons, Consume(a, t, c)
  PROVE  AskInv' /\ LastInv'
<1>1. /\ c \notin made /\ made' = made \cup {c} /\ tagOf' = [tagOf EXCEPT ![c] = t]
      /\ chans' = [chans EXCEPT ![t] = c] /\ pc[a] = "idle"
      /\ pc' = [pc EXCEPT ![a] = "consume"] /\ arg' = [arg EXCEPT ![a] = t]
      /\ cur' = [cur EXCEPT ![a] = c]
      /\ UNCHANGED <<queue, got, rmsg, inbox, active, owner, sentFor, handed, closed>>
  BY DEF Consume, add, Go, srvVars
<1>2. /\ TypeOK /\ MapInv /\ handed \subseteq made /\ a \in Callers /\ Callers \subseteq Threads
      /\ Apps \subseteq Callers /\ "reader" \in Threads /\ a # "reader"
  BY NameAssumption DEF Inv, TypeOK, Threads, Callers
<1>3. /\ pc'[a] = "consume" /\ arg'[a] = t /\ cur'[a] = c
      /\ \A x \in Callers : x # a => pc'[x] = pc[x] /\ arg'[x] = arg[x]
      /\ \A b \in Apps : b # a => cur'[b] = cur[b]
      /\ pc'["reader"] = pc["reader"]
  BY <1>1, <1>2 DEF TypeOK
<1>4. tagOf'[c] = t /\ \A k \in made : tagOf'[k] = tagOf[k] BY <1>1, <1>2 DEF TypeOK
<1>5. /\ Coming' = Coming /\ \A i \in Coming : inbox'[i] = inbox[i]
      /\ \A u \in Tags : Ends(u)' = Ends(u)
  BY <1>1, SameEnds
<1>6. (InHand' <=> InHand) /\ \A u \in Tags : Ending(u)' <=> Ending(u)
  BY <1>1, <1>3 DEF InHand, Ending
<1>7. \A u \in Tags : Pending(u)' = Pending(u) BY <1>1, <1>5, <1>6, SamePending
<1>8. \A u : Known(u) => Known(u)' BY <1>1, <1>4 DEF Known
<1>9. \A b \in Apps : b # a => (Asking(b)' <=> Asking(b)) BY <1>2, <1>3 DEF Asking
<1>10. AskInv'
  <2>1. \A b \in Apps : Asking(b)' => cur'[b] \in made' \ handed' /\ tagOf'[cur'[b]] = arg'[b]
    BY <1>1, <1>2, <1>3, <1>4, <1>9 DEF AskInv
  <2>2. \A b \in Apps : b # a /\ Asking(b) => cur[b] # c BY <1>1 DEF AskInv
  <2>3. \A b, d \in Apps : Asking(b)' /\ Asking(d)' /\ cur'[b] = cur'[d] => b = d
    BY <1>3, <1>9, <2>2 DEF AskInv
  <2>4. \A u \in active' : Asked(owner[u])'
    <3> SUFFICES ASSUME NEW u \in active, NEW b \in Apps, pc'[b] = "consume", cur'[b] = owner[u]
                 PROVE  FALSE
      BY <1>1 DEF Asked
    <3>1. owner[u] \in made BY DEF DeliveryInv, OwnerInv
    <3>2. b # a BY <1>1, <1>3, <3>1
    <3> QED BY <1>2, <1>3, <3>2 DEF AskInv, Asked
  <2>5. \A x \in Callers : pc'[x] = "cancelCall" => \E k \in handed' : tagOf'[k] = arg'[x]
    BY <1>1, <1>2, <1>3, <1>4 DEF AskInv
  <2>6. \A u \in Tags : Ends(u)' # {} \/ Ending(u)' => Known(u)' BY <1>5, <1>6, <1>8 DEF AskInv
  <2>7. \A x \in Callers : pc'[x] = "cancelLocal" => Known(arg[x])'
    <3> SUFFICES ASSUME NEW x \in Callers, pc'[x] = "cancelLocal" PROVE Known(arg[x])'
      OBVIOUS
    <3>1. x # a /\ pc[x] = "cancelLocal" /\ arg'[x] = arg[x] BY <1>3
    <3>2. \E k \in made : tagOf[k] = arg[x] BY <3>1 DEF AskInv, Known
    <3> QED BY <1>1, <1>4, <3>1, <3>2 DEF Known
  <2> QED BY <2>1, <2>3, <2>4, <2>5, <2>6, <2>7 DEF AskInv
<1>11. ASSUME NEW k \in Cons, Sole(k)' PROVE Last(k)'
  <2>1. CASE k = c
    <3>1. ~Known(t) BY <1>1, <1>4, <1>11, <2>1 DEF Sole, Known
    <3>2. Ends(t)' = {} /\ ~Ending(t)' BY <1>5, <1>6, <3>1 DEF AskInv
    <3>3. ASSUME NEW x \in Callers, pc'[x] = "cancelLocal", arg'[x] = t PROVE FALSE
      <4>1. x # a /\ pc[x] = "cancelLocal" /\ arg[x] = t BY <1>3, <3>3
      <4> QED BY <3>1, <4>1 DEF AskInv
    <3>4. chans'[t] = c BY <1>1, <1>2 DEF TypeOK
    <3> QED BY <1>4, <2>1, <3>2, <3>3, <3>4 DEF Last
  <2>2. CASE k # c
    <3>1. k \in made /\ tagOf'[k] = tagOf[k] /\ tagOf[k] \in Tags
      BY <1>1, <1>2, <1>4, <1>11, <2>2 DEF Sole, MapInv
    <3>2. Sole(k) /\ tagOf[k] # t
      BY <1>1, <1>4, <1>11, <2>2, <3>1 DEF Sole
    <3>3. PICK u \in Tags : u = tagOf[k] BY <3>1
    <3>4. Last(k) BY <3>2 DEF LastInv
    <3>5. Over(k) => Over(k)' BY <1>1, <1>2, <1>3, <2>2, <3>1 DEF Over, Asked
    <3>6. Wanted(k)' => Wanted(k) BY <1>1, <1>2, <1>3, <2>2 DEF Wanted
    <3>7. chans'[u] = chans[u] BY <1>1, <1>2, <3>2, <3>3 DEF TypeOK
    <3>8. Taken(k)' = Taken(k) BY <1>1 DEF Taken
    <3>9. Wanted(k)' /\ chans'[u] # k /\ ~closed' => Over(k)' /\ Taken(k)' = Len(sentFor'[k])
      BY <1>1, <3>3, <3>4, <3>5, <3>6, <3>7, <3>8 DEF Last
    <3>10. \A x \in Callers : pc'[x] = "cancelLocal" /\ arg'[x] = u
             => (pc[x] = "cancelLocal" /\ arg[x] = u) \/ Ending(u)
      BY <1>3
    <3>11. Ending(u)' => Ending(u) BY <1>6
    <3>12. Pending(u)' = Pending(u) /\ Ends(u)' = Ends(u) BY <1>5, <1>7
    <3>13. tagOf[k] = u /\ tagOf'[k] = u BY <3>1, <3>3
    <3> QED BY <1>5, <3>4, <3>5, <3>9, <3>10, <3>11, <3>12, <3>13, LastKeeps
  <2> QED BY <2>1, <2>2
<1> QED BY <1>10, <1>11 DEF LastInv

\* The request for a consumer is written: until then no end for it was on its way.
LEMMA ConsumeCallEnds ==
  ASSUME Inv, DeliveryInv, AskInv, LastInv, "nowait" \notin Features,
         NEW a \in Apps, consumeCall(a)
  PROVE  AskInv' /\ LastInv'
<1> USE DEF subsVars, bufVars, chVars, srvVars
<1>0. /\ TypeOK /\ CallInv /\ MapInv /\ a \in Callers /\ a \in Threads \ {"reader"}
      /\ Callers \subseteq Threads /\ Apps \subseteq Callers /\ "reader" \in Threads
      /\ pc \in [Threads -> Places] /\ handed \subseteq made
  BY NameAssumption DEF Inv, Threads, Callers, TypeOK
<1>1. UNCHANGED <<arg, cur, handed, rmsg, chans, closed, made, tagOf, queue, got>> /\ pc[a] = "consume"
  BY DEF consumeCall
<1>2. CASE Go(a, "undo") /\ UNCHANGED srvVars BY <1>0, <1>1, <1>2, LocalEnds
<1>3. ASSUME Go(a, "waitConsume"), UNCHANGED <<active, owner, sentFor>>,
             inbox' = inbox \/ FromServer(<<Msg("close", None, 0)>>)
      PROVE  AskInv' /\ LastInv'
  <2>1. /\ Coming' = Coming /\ \A i \in Coming : inbox'[i] = inbox[i]
        /\ \A t \in Tags : Ends(t)' \subseteq Ends(t)
    <3>1. CASE inbox' = inbox BY <3>1, SameEnds
    <3>2. CASE FromServer(<<Msg("close", None, 0)>>)
      <4>1. PICK f \in Frame : f = Msg("close", None, 0) BY OtherFrames
      <4>2. f.m = "close" BY <4>1 DEF Msg
      <4> QED BY <1>0, <3>2, <4>1, <4>2, OtherEnds
    <3> QED BY <1>3, <3>1, <3>2
  <2> QED BY <1>0, <1>1, <1>3, <2>1, MoveEnds
<1>4. ASSUME Go(a, "waitConsume"), active' = active \cup {arg[a]},
             owner' = [owner EXCEPT ![arg[a]] = cur[a]], UNCHANGED sentFor,
             FromServer(<<Msg("consumeOk", None, 0)>>)
      PROVE  AskInv' /\ LastInv'
  <2>1. /\ cur[a] \in made \ handed /\ tagOf[cur[a]] = arg[a] /\ arg[a] \in Tags
        /\ \A b \in Apps : Asking(b) /\ cur[b] = cur[a] => b = a
    BY <1>0, <1>1 DEF AskInv, Asking, CallInv
  <2>2. /\ pc'[a] = "waitConsume" /\ \A x \in Threads : x # a => pc'[x] = pc[x]
    BY <1>0, <1>4 DEF Go
  <2>3. /\ Coming' = Coming /\ \A i \in Coming : inbox'[i] = inbox[i]
        /\ \A t \in Tags : Ends(t)' \subseteq Ends(t)
    <3>1. PICK f \in Frame : f = Msg("consumeOk", None, 0) BY OtherFrames
    <3>2. f.m = "consumeOk" BY <3>1 DEF Msg
    <3> QED BY <1>0, <1>4, <3>1, <3>2, OtherEnds
  <2>4. /\ \A t \in Tags : Ending(t)' <=> Ending(t)
        /\ InHand' <=> InHand
    BY <1>0, <1>1, <2>2 DEF Ending, InHand
  <2>5. \A t \in Tags : Pending(t)' = Pending(t) BY <1>1, <2>3, <2>4, SamePending
  <2>6. \A b \in Apps : /\ Asking(b)' => Asking(b)
                        /\ pc'[b] = "consume" => pc[b] = "consume" /\ b # a
                        /\ pc'[b] \in {"consume", "waitConsume"} => pc[b] \in {"consume", "waitConsume"}
    BY <1>0, <1>1, <2>2 DEF Asking
  <2>7. \A k \in Cons : Asked(k) => Asked(k)' BY <1>1, <2>6 DEF Asked
  <2>8. AskInv'
    <3>1. \A b \in Apps : Asking(b)' => cur'[b] \in made' \ handed' /\ tagOf'[cur'[b]] = arg'[b]
      BY <1>1, <2>6 DEF AskInv
    <3>2. \A b, d \in Apps : Asking(b)' /\ Asking(d)' /\ cur'[b] = cur'[d] => b = d
      BY <1>1, <2>6 DEF AskInv
    <3>3. ASSUME NEW t \in active' PROVE Asked(owner[t])'
      <4>1. CASE t = arg[a]
        <5>1. owner'[t] = cur[a] BY <1>0, <1>4, <2>1, <4>1 DEF TypeOK
        <5>2. \A b \in Apps : pc'[b] = "consume" => cur'[b] # cur[a]
          BY <1>1, <2>1, <2>6 DEF Asking
        <5> QED BY <5>1, <5>2 DEF Asked
      <4>2. CASE t # arg[a]
        <5>1. t \in active /\ owner'[t] = owner[t] BY <1>0, <1>4, <3>3, <4>2 DEF TypeOK
        <5>2. Asked(owner[t]) BY <5>1 DEF AskInv
        <5> QED BY <1>1, <2>6, <5>1, <5>2 DEF Asked
      <4> QED BY <4>1, <4>2
    <3>4. \A x \in Callers : pc'[x] = "cancelCall" => \E k \in handed' : tagOf'[k] = arg'[x]
      BY <1>0, <1>1, <2>2 DEF AskInv
    <3>5. \A t : Known(t)' <=> Known(t) BY <1>1 DEF Known
    <3>6. \A t \in Tags : Ends(t)' # {} \/ Ending(t)' => Known(t)' BY <2>3, <2>4, <3>5 DEF AskInv
    <3>7. \A x \in Callers : pc'[x] = "cancelLocal" => Known(arg[x])
      BY <1>0, <1>1, <2>2 DEF AskInv
    <3>8. \A x \in Callers : pc'[x] = "cancelLocal" => Known(arg[x])'
      BY <1>1, <3>7 DEF Known
    <3> QED BY <3>1, <3>2, <3>3, <3>4, <3>6, <3>8 DEF AskInv
  <2>9. ASSUME NEW k \in Cons, Sole(k)' PROVE Last(k)'
    <3>1. Sole(k) /\ k \in made /\ tagOf'[k] = tagOf[k] /\ tagOf[k] \in Tags
      BY <1>0, <1>1, <2>9 DEF Sole, MapInv
    <3>2. Last(k) BY <3>1 DEF LastInv
    <3>3. PICK u \in Tags : u = tagOf[k] BY <3>1
    <3>4. Over(k) => Over(k)'
      <4>1. CASE k = cur[a] BY <1>1, <4>1 DEF Over, Asked
      <4>2. CASE k # cur[a]
        <5>1. tagOf[k] # arg[a] BY <2>1, <3>1, <4>2 DEF Sole
        <5> QED BY <1>4, <2>7, <3>1, <5>1 DEF Over
      <4> QED BY <4>1, <4>2
    <3>5. Wanted(k)' => Wanted(k) BY <1>1, <2>6 DEF Wanted
    <3>6. Taken(k)' = Taken(k) BY <1>1 DEF Taken
    <3>7. Wanted(k)' /\ chans'[u] # k /\ ~closed' => Over(k)' /\ Taken(k)' = Len(sentFor'[k])
      BY <1>1, <1>4, <3>2, <3>3, <3>4, <3>5, <3>6 DEF Last
    <3>8. \A x \in Callers : pc'[x] = "cancelLocal" /\ arg'[x] = u
            => (pc[x] = "cancelLocal" /\ arg[x] = u) \/ Ending(u)
      BY <1>0, <1>1, <2>2
    <3>9. Ending(u)' => Ending(u) BY <2>4
    <3>10. Pending(u)' = Pending(u) /\ Ends(u)' \subseteq Ends(u) BY <2>3, <2>5
    <3>11. tagOf[k] = u /\ tagOf'[k] = u BY <3>1, <3>3
    <3> QED BY <2>3, <3>2, <3>4, <3>7, <3>8, <3>9, <3>10, <3>11, LastKeeps
  <2> QED BY <2>8, <2>9 DEF LastInv
<1> QED BY <1>2, <1>3, <1>4 DEF consumeCall, ServeConsume

\* The server delivers for a consumer of which no end is on its way.
LEMMA DeliverEnds ==
  ASSUME Inv, DeliveryInv, AskInv, LastInv, NEW t \in Tags, Deliver(t)
  PROVE  AskInv' /\ LastInv'
<1>0. /\ TypeOK /\ MapInv /\ handed \subseteq made BY DEF Inv, TypeOK
<1>1. /\ t \in active /\ sent' \in 1 .. MaxDeliver
      /\ sentFor' = [sentFor EXCEPT ![owner[t]] = Append(@, sent')]
      /\ FromServer(<<Msg("deliver", t, sent')>>)
      /\ UNCHANGED <<active, owner, chans, closed, made, tagOf, queue, got, pc, arg, cur, rmsg, handed>>
  BY BoundAssumption DEF Deliver, Inv, TypeOK, subsVars, bufVars, callVars
<1>2. owner[t] \in made /\ owner[t] \in Cons /\ tagOf[owner[t]] = t
  BY <1>0, <1>1 DEF DeliveryInv, OwnerInv, TypeOK
<1>3. PICK f \in Frame : f = Msg("deliver", t, sent') BY <1>1, Frames
<1>4. f.m = "deliver" /\ f.tag = t BY <1>3 DEF Msg
<1>5. PICK n \in Nat : n = Len(inbox) BY <1>0, LenProperties DEF TypeOK
<1>6. /\ DOMAIN inbox = 1 .. n /\ DOMAIN inbox' = 1 .. n + 1 /\ inbox'[n + 1] = f
      /\ \A i \in 1 .. n : inbox'[i] = inbox[i]
  <2>1. inbox \in Seq(Frame) /\ inbox' = inbox \o <<f>> BY <1>0, <1>1, <1>3 DEF TypeOK, FromServer
  <2> QED BY <1>5, <2>1, GrownElements
<1>7. \A u \in Tags : Ends(u)' = Ends(u)
  <2> SUFFICES ASSUME NEW u \in Tags, NEW i PROVE i \in Ends(u)' <=> i \in Ends(u) OBVIOUS
  <2>1. CASE i \in 1 .. n BY <1>5, <1>6, <2>1 DEF Ends
  <2>2. CASE i = n + 1
    <3>1. i \notin 1 .. n BY <2>2
    <3> QED BY <1>4, <1>6, <2>2, <3>1 DEF Ends
  <2>3. CASE i \notin 1 .. n /\ i # n + 1
    <3>1. i \notin 1 .. n + 1 BY <2>3
    <3> QED BY <1>6, <2>3, <3>1 DEF Ends
  <2> QED BY <2>1, <2>2, <2>3
<1>8. \A j \in Coming' : inbox'[j].tag # t => j \in Coming /\ inbox'[j] = inbox[j]
  <2> SUFFICES ASSUME NEW j \in Coming', inbox'[j].tag # t PROVE j \in Coming /\ inbox'[j] = inbox[j]
    OBVIOUS
  <2>1. j \in 1 .. n + 1 /\ j # n + 1 BY <1>4, <1>6 DEF Coming
  <2>2. j \in 1 .. n BY <2>1
  <2> QED BY <1>6, <2>2 DEF Coming
<1>9. (InHand' <=> InHand) /\ \A u \in Tags : Ending(u)' <=> Ending(u)
  BY <1>1 DEF InHand, Ending
<1>10. \A a \in Apps : Asking(a)' <=> Asking(a) BY <1>1 DEF Asking
<1>11. AskInv'
  <2>1. \A u \in active : owner[u] \in made BY DEF DeliveryInv, OwnerInv
  <2>2. \A u \in Tags : Ends(u)' # {} \/ Ending(u)' => Known(u) BY <1>7, <1>9 DEF AskInv
  <2>3. \A x \in Callers : pc'[x] = "cancelLocal" => Known(arg'[x]) BY <1>1 DEF AskInv
  <2> QED BY <1>0, <1>1, <1>10, <2>1, <2>2, <2>3, AskKeeps
<1>12. ASSUME NEW k \in Cons, Sole(k)' PROVE Last(k)'
  <2>1. Sole(k) /\ k \in made /\ tagOf[k] \in Tags BY <1>0, <1>1, <1>12 DEF Sole, MapInv
  <2>2. Last(k) BY <2>1 DEF LastInv
  <2>3. PICK u \in Tags : u = tagOf[k] BY <2>1
  <2>4. Over(k)' <=> Over(k) BY <1>1 DEF Over, Asked
  <2>5. Wanted(k)' <=> Wanted(k) BY <1>1 DEF Wanted
  <2>6. Taken(k)' = Taken(k) BY <1>1 DEF Taken
  <2>7. CASE u = t
    <3>1. ~Over(k) BY <1>1, <2>3, <2>7 DEF Over
    <3>2. Ends(u) = {} /\ ~Ending(u) BY <2>2, <2>3, <3>1 DEF Last
    <3>3. \A x \in Callers : ~(pc[x] = "cancelLocal" /\ arg[x] = u) BY <2>2, <2>3, <3>1 DEF Last
    <3>4. ~(Wanted(k) /\ chans[u] # k /\ ~closed) BY <2>2, <2>3, <3>1 DEF Last
    <3>5. Ends(u)' = {} /\ ~Ending(u)' BY <1>7, <1>9, <3>2
    <3>6. tagOf'[k] = u BY <1>1, <2>3
    <3> QED BY <1>1, <2>5, <3>3, <3>4, <3>5, <3>6 DEF Last
  <2>8. CASE u # t
    <3>1. sentFor'[k] = sentFor[k] BY <1>0, <1>1, <1>2, <2>3, <2>8 DEF TypeOK
    <3>2. \A j \in Coming' : inbox'[j].tag = u => j \in Coming /\ inbox[j].tag = u /\ inbox'[j] = inbox[j]
      BY <1>8, <2>8
    <3>3. Pending(u)' \subseteq Pending(u) BY <1>1, <1>9, <3>2 DEF Pending
    <3>4. Pending(u) = {} => Pending(u)' = {} BY <3>3
    <3>5. Wanted(k)' /\ chans'[u] # k /\ ~closed' => Over(k)' /\ Taken(k)' = Len(sentFor'[k])
      BY <1>1, <2>2, <2>3, <2>4, <2>5, <2>6, <3>1 DEF Last
    <3>6. Ends(u)' = Ends(u) /\ (Ending(u)' <=> Ending(u)) BY <1>7, <1>9
    <3>7. tagOf[k] = u /\ tagOf'[k] = u BY <1>1, <2>3
    <3>8. \A x \in Callers : pc'[x] = "cancelLocal" /\ arg'[x] = u => pc[x] = "cancelLocal" /\ arg[x] = u
      BY <1>1
    <3> QED BY <2>2, <2>4, <3>2, <3>4, <3>5, <3>6, <3>7, <3>8, LastKeeps
  <2> QED BY <2>7, <2>8
<1> QED BY <1>11, <1>12 DEF LastInv

\* The goroutine of a context is started with the return of Consume.
LEMMA StepArmed ==
  ASSUME Inv, ArmedInv, [Next]_vars
  PROVE  ArmedInv'
<1>0. /\ TypeOK /\ pc \in [Threads -> Places] /\ Cons \subseteq Threads
      /\ "reader" \notin Cons /\ "conn" \notin Cons /\ Apps \cap Cons = {}
  BY NameAssumption DEF Inv, TypeOK, Threads, Callers
<1>1. ASSUME handed \subseteq handed', \A c \in Cons : pc'[c] = "armed" => pc[c] = "armed"
      PROVE  ArmedInv'
  BY <1>1 DEF ArmedInv
<1>2. ASSUME handed \subseteq handed', NEW x, NEW w, w # "armed", Go(x, w) PROVE ArmedInv'
  BY <1>0, <1>1, <1>2 DEF Go
<1>3. ASSUME NEW a \in Apps,
             \/ \E t \in Tags : Cancel(a, t) \/ \E c \in Cons : Consume(a, t, c)
             \/ Close(a) \/ Continue(a)
      PROVE  ArmedInv'
  BY <1>2, <1>3 DEF Cancel, Consume, Close, Continue, consumeCall, consumeUndo, closeCall
<1>4. ASSUME NEW x \in Callers, Call(x) PROVE ArmedInv'
  <2>1. CASE cancelCall(x) BY <1>2, <2>1 DEF cancelCall, Return
  <2>2. CASE cancelLocal(x) BY <1>2, <2>2 DEF cancelLocal, Return
  <2>3. CASE callFails(x) BY <1>2, <2>3 DEF callFails, Failed, Return, Waiting
  <2>4. CASE rpc(x)
    <3>1. CASE pc[x] = "waitConsume" /\ rmsg.m = "consumeOk"
      <4>1. \/ pc' = [pc EXCEPT !["reader"] = "idle", ![x] = "idle"]
            \/ pc' = [pc EXCEPT !["reader"] = "idle", ![x] = "idle", ![cur[x]] = "armed"]
        BY <2>4, <3>1 DEF rpc
      <4>2. handed' = handed \cup {cur[x]} BY <2>4, <3>1 DEF rpc
      <4>3. \A c \in Cons : pc'[c] = "armed" => pc[c] = "armed" \/ c = cur[x] BY <1>0, <4>1
      <4> QED BY <4>2, <4>3 DEF ArmedInv
    <3>2. ASSUME NEW w, w # "armed", pc' = [pc EXCEPT !["reader"] = "idle", ![x] = w], handed' = handed
          PROVE  ArmedInv'
      BY <1>0, <1>1, <3>2
    <3>3. Failed(x) # "armed" BY <2>4 DEF rpc, Failed, Return, Waiting
    <3>4. \/ pc[x] = "waitConsume" /\ rmsg.m = "consumeOk"
          \/ \E w : w # "armed" /\ pc' = [pc EXCEPT !["reader"] = "idle", ![x] = w] /\ handed' = handed
      <4>1. PICK v : v = Failed(x) OBVIOUS
      <4> QED BY <2>4, <3>3, <4>1 DEF rpc
    <3> QED BY <3>1, <3>2, <3>4
  <2> QED BY <1>4, <2>1, <2>2, <2>3, <2>4 DEF Call
<1>5. ASSUME NEW c \in Cons, contextDone(c) \/ contextClosed(c) PROVE ArmedInv'
  BY <1>2, <1>5 DEF contextDone, contextClosed
<1>6. ASSUME UNCHANGED <<pc, handed>> PROVE ArmedInv'
  BY <1>1, <1>6
<1>7. ASSUME NEW c \in Cons, Buffer(c) \/ bufferSend(c) PROVE ArmedInv'
  BY <1>6, <1>7 DEF Buffer, bufferInClosed, bufferDrop, bufferExit, bufferSend, callVars
<1>8. ASSUME NEW c \in Cons, bufferReceive(c) PROVE ArmedInv' BY <1>2, <1>8 DEF bufferReceive
<1>9. ASSUME NEW t \in Apps \cup {"reader", "conn"}, closeChannel(t) PROVE ArmedInv'
  <2>1. CASE release(t)
    <3>1. PICK w \in {"end", "idle"} : Go(t, w) BY <2>1 DEF release
    <3> QED BY <1>2, <2>1, <3>1 DEF release
  <2> QED BY <1>2, <1>9, <2>1 DEF closeChannel, shutdown, shutdownClose, shutdownDone, shutdownJoin
<1>10. CASE connShutdown BY <1>2, <1>10 DEF connShutdown
<1>11. CASE Reader
  <2>1. CASE dispatch
    <3>1. PICK w \in {"send", "cancelTag", "shutdown", "deliver"} : Go("reader", w) BY <2>1 DEF dispatch
    <3> QED BY <1>2, <2>1, <3>1 DEF dispatch
  <2>2. CASE send BY <1>2, <2>2 DEF send
  <2>3. CASE dispatchCancel BY <1>2, <2>3 DEF dispatchCancel
  <2>4. CASE dispatchDrop BY <1>2, <2>4 DEF dispatchDrop
  <2> QED BY <1>11, <2>1, <2>2, <2>3, <2>4 DEF Reader
<1>12. CASE Server BY <1>6, <1>12 DEF Server, Deliver, ServerCancel, Exception, callVars
<1>13. CASE UNCHANGED vars BY <1>6, <1>13 DEF vars, callVars
<1> QED BY <1>3, <1>4, <1>5, <1>7, <1>8, <1>9, <1>10, <1>11, <1>12, <1>13 DEF Next

EndInv == AskInv /\ LastInv /\ ArmedInv /\ DrainInv

\* Every step keeps the ends after the last deliveries.
LEMMA StepEnds ==
  ASSUME Inv, Inv', DeliveryInv, EndInv, "nowait" \notin Features,
         [Next]_vars, [CancelAfterConsume]_vars
  PROVE  EndInv'
<1>1. AskInv /\ LastInv /\ ArmedInv /\ DrainInv BY DEF EndInv
<1>2. ArmedInv' BY <1>1, StepArmed
<1>3. DrainInv' BY <1>1, StepDrain
<1>4. CancelAfterConsume BY DEF CancelAfterConsume, vars, callVars
<1>5. AskInv' /\ LastInv'
  BY <1>1, <1>4, ConsumeEnds, ConsumeCallEnds, AppEnds, CallEnds, RestEnds, HandEnds, DispatchEnds,
     DeliverEnds, ServerEnds DEF Next, Continue, Reader, Server
<1> QED BY <1>2, <1>3, <1>5 DEF EndInv

\* Nothing has been asked for at first.
LEMMA InitEnds == Init => EndInv
<1> SUFFICES ASSUME Init PROVE EndInv OBVIOUS
<1>1. /\ inbox = <<>> /\ pc = [t \in Threads |-> "idle"] /\ made = {} /\ active = {}
  BY DEF Init
<1>2. \A t \in Tags : Ends(t) = {} /\ ~Ending(t) BY <1>1 DEF Ends, Ending, Threads
<1>3. \A x \in Callers : pc[x] = "idle" BY <1>1 DEF Threads
<1>4. AskInv BY <1>1, <1>2, <1>3 DEF AskInv, Asking, Callers
<1>5. LastInv BY <1>1 DEF LastInv, Sole
<1>6. ArmedInv BY <1>3 DEF ArmedInv, Callers
<1>7. DrainInv BY <1>1 DEF DrainInv
<1> QED BY <1>4, <1>5, <1>6, <1>7 DEF EndInv

(***************************************************************************)
(* The promise of Cancel: when applications cancel only tags that Consume  *)
(* has returned for, without noWait, and use each tag once, a consumer     *)
(* whose chan is closed while the channel is not has received everything   *)
(* that the server sent it (Cancel, dispatch, buffer), whether the         *)
(* application, its context or the server ended it.                        *)
(***************************************************************************)
THEOREM CancelLosesNothing ==
  ASSUME "nowait" \notin Features
  PROVE  Spec /\ [][CancelAfterConsume]_vars => [](TagsOnce => CompleteAfterCancel)
<1>1. Inv /\ DeliveryInv /\ [Next]_vars => DeliveryInv' BY StepDelivery
<1>2. Inv /\ Inv' /\ DeliveryInv /\ EndInv /\ [Next]_vars /\ [CancelAfterConsume]_vars => EndInv'
  BY StepEnds
<1>3. ASSUME Inv, DeliveryInv, EndInv, TagsOnce PROVE CompleteAfterCancel
  <2> SUFFICES ASSUME NEW c \in handed, buf[c] = "closed", ~closed PROVE got[c] = sentFor[c]
    BY DEF CompleteAfterCancel
  <2>1. TypeOK /\ c \in made /\ c \in Cons BY <1>3 DEF Inv, TypeOK
  <2>2. queue[c] = <<>> /\ chans[tagOf[c]] # c BY <1>3, <2>1 DEF EndInv, DrainInv
  <2>3. Sole(c) BY <1>3, <2>1 DEF TagsOnce, Sole
  <2>4. InStep(c) /\ Last(c) BY <1>3, <2>1, <2>3 DEF DeliveryInv, StreamInv, EndInv, LastInv
  <2>5. Taken(c) = Len(sentFor[c]) BY <2>2, <2>4 DEF Last, Wanted
  <2>6. PICK g \in Nat : g = Len(got[c]) BY <2>1, Lengths
  <2>7. Taken(c) = g BY <2>2, <2>6 DEF Taken
  <2>8. \A i \in 1 .. g : got[c][i] = sentFor[c][i]
    BY <2>4, <2>6, <2>7 DEF InStep, Given
  <2>9. got[c] \in Seq(1 .. MaxDeliver) /\ sentFor[c] \in Seq(1 .. MaxDeliver) BY <2>1 DEF TypeOK
  <2> QED BY <2>5, <2>6, <2>7, <2>8, <2>9, SeqEqual
<1> QED BY Invariance, InitDelivery, InitEnds, <1>1, <1>2, <1>3, PTL DEF Spec
=============================================================================
