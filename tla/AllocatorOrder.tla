--------------------------- MODULE AllocatorOrder ---------------------------
(***************************************************************************)
(* The allocator with a history variable, for the order in which it hands  *)
(* out ids.                                                                *)
(***************************************************************************)
EXTENDS Allocator

VARIABLE freeSince  \* freeSince[n]: the ids free ever since n was last handed out

hvars == <<vars, freeSince>>

HInit == Init /\ freeSince = [n \in Ids |-> {}]

\* n is handed out: from now on it waits for every id that is free after it.
Handed(n) == freeSince' = [m \in Ids |-> IF m = n THEN Ids \ pool'
                                                  ELSE freeSince[m] \ {n}]

HNext == \/ \E n \in Ids : NextOk(n) /\ ret' = n /\ Handed(n)
         \/ NextFail /\ ret' = NoId /\ UNCHANGED freeSince
         \/ \E n \in Ids : Release(n) /\ UNCHANGED <<ret, freeSince>>

HSpec == HInit /\ [][HNext]_hvars

(***************************************************************************)
(* The ids n waits for are free, and the search reaches each of them       *)
(* before it reaches n: the rolling index of next() never skips a free id. *)
(***************************************************************************)
WaitersAhead == \A n \in Ids : \A m \in freeSince[n] :
                   m \notin pool /\ m \in TriedBefore(n, follow)

(***************************************************************************)
(* The rolling index postpones the reuse of an id as long as it can: when  *)
(* next() hands out n again, every id that was free all the time since n   *)
(* was last handed out has been handed out before it, over any number of   *)
(* requests and releases in between.  A frame the server sent for the old  *)
(* channel n is the less likely to reach the new one.                      *)
(***************************************************************************)
NoEarlyReuse == [][\A n \in Ids : (n \notin pool /\ n \in pool') => freeSince[n] = {}]_hvars
=============================================================================
