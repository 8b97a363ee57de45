------------------------------- MODULE IdPool -------------------------------
(***************************************************************************)
(* What the connection needs from its channel id allocator, whatever the   *)
(* order in which ids are tried: an id that is handed out was free, and a  *)
(* request fails only when no id is free.                                  *)
(***************************************************************************)
EXTENDS Integers

CONSTANTS Ids,   \* the ids that can be handed out
          NoId   \* the answer of a request that failed

VARIABLES used,  \* the ids that are handed out
          ret    \* the answer to the latest request

vars == <<used, ret>>

Init == used = {} /\ ret = NoId

Take(id) == /\ id \in Ids \ used
            /\ used' = used \cup {id}
            /\ ret' = id

Exhausted == /\ used = Ids
             /\ ret' = NoId
             /\ UNCHANGED used

GiveBack(id) == /\ used' = used \ {id}
                /\ UNCHANGED ret

Next == \/ \E id \in Ids : Take(id) \/ GiveBack(id)
        \/ Exhausted

Spec == Init /\ [][Next]_vars
=============================================================================
