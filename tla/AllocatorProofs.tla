-------------------------- MODULE AllocatorProofs ---------------------------
(***************************************************************************)
(* For every range low..high: the allocator keeps its types, implements    *)
(* the pool of ids, and never reuses an id early.                          *)
(***************************************************************************)
EXTENDS AllocatorOrder, TLAPS

USE RangeAssumption

(***************************************************************************)
(* follow stays inside low..high: the deferred function of next() wraps.   *)
(***************************************************************************)
LEMMA AdvanceInRange == \A n \in Ids : Advance(n) \in Ids
  BY DEF Ids, Advance

(***************************************************************************)
(* Type correctness of the allocator's state: the bitset, the rolling      *)
(* index and the result of next() keep their ranges.                       *)
(***************************************************************************)
THEOREM TypeCorrect == Spec => []TypeOK
  <1>1. Init => TypeOK
    BY DEF Init, newAllocator, TypeOK, Ids
  <1>2. TypeOK /\ [Next]_vars => TypeOK'
    <2> SUFFICES ASSUME TypeOK, [Next]_vars
                 PROVE  TypeOK'
      OBVIOUS
    <2>1. ASSUME NEW n \in Ids, NextOk(n), ret' = n
          PROVE  TypeOK'
      BY <2>1, AdvanceInRange DEF NextOk, TypeOK
    <2>2. CASE NextFail /\ ret' = NoId
      BY <2>2, AdvanceInRange DEF NextFail, TypeOK
    <2>3. ASSUME NEW n \in Ids, Release(n), UNCHANGED ret
          PROVE  TypeOK'
      BY <2>3 DEF Release, TypeOK
    <2>4. CASE UNCHANGED vars
      BY <2>4 DEF vars, TypeOK
    <2> QED
      BY <2>1, <2>2, <2>3, <2>4 DEF Next
  <1> QED
    BY <1>1, <1>2, PTL DEF Spec

(***************************************************************************)
(* allocator.go implements the pool of ids: next() never hands out an id   *)
(* that is in use and fails only when all of them are.                     *)
(***************************************************************************)
THEOREM ImplementsPool == Spec => PoolSpec
  <1>1. Init => Pool!Init
    BY DEF Init, newAllocator, Pool!Init
  <1>2. TypeOK /\ [Next]_vars => [Pool!Next]_(Pool!vars)
    <2> SUFFICES ASSUME TypeOK, [Next]_vars
                 PROVE  Pool!Next \/ UNCHANGED Pool!vars
      OBVIOUS
    <2>1. ASSUME NEW n \in Ids, NextOk(n), ret' = n
          PROVE  Pool!Next
      BY <2>1 DEF NextOk, reserved, Pool!Next, Pool!Take
    <2>2. CASE NextFail /\ ret' = NoId
      BY <2>2 DEF NextFail, reserved, TypeOK, Pool!Next, Pool!Exhausted
    <2>3. ASSUME NEW n \in Ids, Release(n), UNCHANGED ret
          PROVE  Pool!Next
      BY <2>3 DEF Release, Pool!Next, Pool!GiveBack
    <2>4. CASE UNCHANGED vars
      BY <2>4 DEF vars, Pool!vars
    <2> QED
      BY <2>1, <2>2, <2>3, <2>4 DEF Next
  <1> QED
    BY <1>1, <1>2, TypeCorrect, PTL DEF Spec, PoolSpec, Pool!Spec

-----------------------------------------------------------------------------
(***************************************************************************)
(* The history variable does not disturb the allocator.                    *)
(***************************************************************************)
LEMMA HistoryRefines == HSpec => Spec
  <1>1. HInit => Init
    BY DEF HInit
  <1>2. [HNext]_hvars => [Next]_vars
    BY DEF HNext, Next, hvars
  <1> QED
    BY <1>1, <1>2, PTL DEF HSpec, Spec

\* The inductive invariant of the rotation.
OrderInv == /\ TypeOK
            /\ freeSince \in [Ids -> SUBSET Ids]
            /\ WaitersAhead

(***************************************************************************)
(* Handing out n removes it from the ids others wait for, and what n waits *)
(* for from now on is tried before n, because follow stands just past n.   *)
(***************************************************************************)
LEMMA NextOkKeepsOrder ==
  ASSUME OrderInv, NEW n \in Ids, NextOk(n), ret' = n, Handed(n)
  PROVE  OrderInv'
  <1>1. TypeOK'
    BY AdvanceInRange DEF OrderInv, NextOk, TypeOK
  <1>2. (freeSince \in [Ids -> SUBSET Ids])'
    BY <1>1 DEF OrderInv, Handed, TypeOK
  <1>3. ASSUME NEW k \in Ids, NEW m \in freeSince'[k]
        PROVE  m \notin pool' /\ m \in TriedBefore(k, follow')
    <2>1. CASE k = n
      <3>1. m \in Ids /\ m \notin pool' /\ m # n
        BY <1>3, <2>1 DEF Handed, NextOk
      <3>2. m \in TriedBefore(n, Advance(n))
        BY <3>1 DEF TriedBefore, Advance, Ids
      <3> QED
        BY <2>1, <3>1, <3>2 DEF NextOk
    <2>2. CASE k # n
      <3>1. m \in freeSince[k] /\ m # n
        BY <1>3, <2>2 DEF Handed
      <3>2. m \in Ids /\ m \notin pool /\ m \in TriedBefore(k, follow)
        BY <3>1 DEF OrderInv, WaitersAhead
      <3>3. m \notin TriedBefore(n, follow)
        BY <3>2 DEF NextOk, reserved
      <3>4. m \in TriedBefore(k, Advance(n))
        BY <2>2, <3>1, <3>2, <3>3 DEF OrderInv, TypeOK, TriedBefore, Advance, Ids
      <3> QED
        BY <3>1, <3>2, <3>4 DEF NextOk
    <2> QED
      BY <2>1, <2>2
  <1> QED
    BY <1>1, <1>2, <1>3 DEF OrderInv, WaitersAhead

LEMMA OrderInvariant == HSpec => []OrderInv
  <1>1. HInit => OrderInv
    BY DEF HInit, Init, newAllocator, OrderInv, TypeOK, WaitersAhead, Ids
  <1>2. OrderInv /\ [HNext]_hvars => OrderInv'
    <2> SUFFICES ASSUME OrderInv, [HNext]_hvars
                 PROVE  OrderInv'
      OBVIOUS
    <2>1. ASSUME NEW n \in Ids, NextOk(n), ret' = n, Handed(n)
          PROVE  OrderInv'
      BY <2>1, NextOkKeepsOrder
    <2>2. CASE NextFail /\ ret' = NoId /\ UNCHANGED freeSince
      <3>1. \A n \in Ids : freeSince[n] = {}
        BY <2>2 DEF OrderInv, NextFail, reserved, WaitersAhead
      <3> QED
        BY <2>2, <3>1, AdvanceInRange DEF OrderInv, TypeOK, NextFail, WaitersAhead
    <2>3. ASSUME NEW n \in Ids, Release(n), UNCHANGED <<ret, freeSince>>
          PROVE  OrderInv'
      BY <2>3 DEF Release, OrderInv, TypeOK, WaitersAhead, TriedBefore
    <2>4. CASE UNCHANGED hvars
      BY <2>4 DEF hvars, vars, OrderInv, TypeOK, WaitersAhead, TriedBefore
    <2> QED
      BY <2>1, <2>2, <2>3, <2>4 DEF HNext
  <1> QED
    BY <1>1, <1>2, PTL DEF HSpec

(***************************************************************************)
(* An id that has been free since n was handed out is still free and comes *)
(* before n in the search of next(), for every size of the pool.           *)
(***************************************************************************)
THEOREM WaitersStayAhead == HSpec => []WaitersAhead
  <1>1. OrderInv => WaitersAhead
    BY DEF OrderInv
  <1> QED
    BY OrderInvariant, <1>1, PTL

(***************************************************************************)
(* No early reuse: next() returns an id again only after every id that has *)
(* been free all along was returned, whatever the range of ids.            *)
(***************************************************************************)
THEOREM ReuseIsPostponed == HSpec => NoEarlyReuse
  <1>1. OrderInv /\ [HNext]_hvars
          => [\A n \in Ids : (n \notin pool /\ n \in pool') => freeSince[n] = {}]_hvars
    <2> SUFFICES ASSUME OrderInv, [HNext]_hvars,
                        NEW n \in Ids, n \notin pool, n \in pool'
                 PROVE  freeSince[n] = {}
      OBVIOUS
    <2>1. NextOk(n)
      BY DEF HNext, hvars, vars, NextOk, NextFail, Release
    <2>2. freeSince[n] \subseteq TriedBefore(n, follow) \ pool
      BY DEF OrderInv, WaitersAhead
    <2> QED
      BY <2>1, <2>2 DEF NextOk, reserved
  <1> QED
    BY <1>1, OrderInvariant, PTL DEF HSpec, NoEarlyReuse
=============================================================================
