----------------------------- MODULE Allocator ------------------------------
(***************************************************************************)
(* The channel id allocator (allocator.go): a bitset of the ids in use and *)
(* a rolling index `follow' at which the next search starts.  Every call   *)
(* is made under Connection.m, so each is one step.                        *)
(***************************************************************************)
EXTENDS Integers

CONSTANTS Low,   \* allocator.low
          High   \* allocator.high

\* newAllocator(1, ChannelMax), and ChannelMax is at least 1 after openTune.
ASSUME RangeAssumption == Low \in Nat /\ High \in Nat /\ Low <= High

VARIABLES pool,    \* the ids whose bit is set
          follow,  \* where the next search starts
          ret      \* the value the latest call of next() returned

vars == <<pool, follow, ret>>

Ids  == Low .. High
NoId == Low - 1    \* stands for the result (0, false)

TypeOK == /\ pool \in SUBSET Ids
          /\ follow \in Ids
          /\ ret \in Ids \cup {NoId}

newAllocator == pool = {} /\ follow = Low

Init == newAllocator /\ ret = NoId

(***************************************************************************)
(* The deferred function of next(): follow moves one past the id tried     *)
(* last, from high back to low.  (Mutated form: it stays where it is.)     *)
(***************************************************************************)
AdvanceNowhere(n)  == n
Advance(n) == IF n = High THEN Low ELSE n + 1

(***************************************************************************)
(* The ids next() tries before n when the search starts at f: the first    *)
(* loop runs from f up to high, the second one from low up to f.           *)
(***************************************************************************)
TriedBefore(n, f) == IF n >= f THEN f .. (n - 1)
                               ELSE (f .. High) \cup (Low .. (n - 1))

\* The bit test of allocator.reserved.  (Mutated form: off by one.)
reservedOffByOne(n) == (n + 1) \in pool
reserved(n) == n \in pool

(***************************************************************************)
(* next() returns the first id it tries that is not reserved, and reserves *)
(* it.  When all are reserved the second loop has brought follow back to   *)
(* where the search began, and the deferred function still moves it.       *)
(***************************************************************************)
NextOk(n) == /\ ~reserved(n)
             /\ \A m \in TriedBefore(n, follow) : reserved(m)
             /\ pool' = pool \cup {n}
             /\ follow' = Advance(n)

NextFail == /\ \A n \in Ids : reserved(n)
            /\ follow' = Advance(follow)
            /\ UNCHANGED pool

\* release(n): the bit is cleared whether or not it was set.
Release(n) == /\ pool' = pool \ {n}
              /\ UNCHANGED follow

Next == \/ \E n \in Ids : NextOk(n) /\ ret' = n
        \/ NextFail /\ ret' = NoId
        \/ \E n \in Ids : Release(n) /\ UNCHANGED ret

Spec == Init /\ [][Next]_vars

-----------------------------------------------------------------------------
(***************************************************************************)
(* The allocator implements the pool: next() hands out only free ids and   *)
(* reports exhaustion (ErrChannelMax in allocateChannel) only when every   *)
(* id is in use.                                                           *)
(***************************************************************************)
Pool == INSTANCE IdPool WITH used <- pool

PoolSpec == Pool!Spec
=============================================================================
