----------------------------- MODULE PageLedger -----------------------------
(***************************************************************************)
(* What an address pool promises about quantities, whatever it does about  *)
(* places: a pool holds a fixed number of pages, a grant takes pages that  *)
(* are not in use, and what comes back is what had been taken.             *)
(***************************************************************************)
EXTENDS Naturals

CONSTANT Pools

VARIABLES total,   \* pages each pool was given
          inUse,   \* pages it has granted and not got back
          moved    \* pages the last request took or gave back

Init ==
  /\ total = [p \in Pools |-> 0]
  /\ inUse = [p \in Pools |-> 0]
  /\ moved = 0

Add(p) ==
  /\ total'[p] >= total[p]
  /\ total' = [total EXCEPT ![p] = total'[p]]
  /\ moved' = 0
  /\ UNCHANGED inUse

Grant(p) ==
  /\ moved' \in 1..(total[p] - inUse[p])
  /\ inUse' = [inUse EXCEPT ![p] = @ + moved']
  /\ UNCHANGED total

Return(p) ==
  /\ moved' \in 1..inUse[p]
  /\ inUse' = [inUse EXCEPT ![p] = @ - moved']
  /\ UNCHANGED total

Refuse ==
  /\ moved' = 0
  /\ UNCHANGED <<total, inUse>>

Copy(p, q) ==
  /\ total' = [total EXCEPT ![p] = IF p = q THEN 0 ELSE total[q]]
  /\ inUse' = [inUse EXCEPT ![p] = IF p = q THEN 0 ELSE inUse[q]]
  /\ moved' = 0

Next ==
  \/ \E p \in Pools : Add(p) \/ Grant(p) \/ Return(p) \/ (\E q \in Pools : Copy(p, q))
  \/ Refuse

Spec == Init /\ [][Next]_<<total, inUse, moved>>
=============================================================================
