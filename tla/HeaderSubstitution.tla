------------------------- MODULE HeaderSubstitution -------------------------
(***************************************************************************)
(* What a transformation promises about a header map: the names it is      *)
(* about get their new values one name at a time, in any order, each name  *)
(* at once and for good, and no other name changes.  It may give up at any *)
(* point, and then the remaining names keep the values they had.           *)
(***************************************************************************)
CONSTANTS Names, Headers

VARIABLES
  headers,   \* the header map
  target,    \* the values it is to end with
  pending    \* the names that have not got theirs

vars == <<headers, target, pending>>

Init ==
  /\ headers \in Headers
  /\ target \in Headers
  /\ pending \in SUBSET Names
  /\ \A n \in Names \ pending : headers[n] = target[n]

Substitute(n) ==
  /\ n \in pending
  /\ headers' = [headers EXCEPT ![n] = target[n]]
  /\ pending' = pending \ {n}
  /\ UNCHANGED target

GiveUp ==
  /\ pending # {}
  /\ pending' = {}
  /\ UNCHANGED <<headers, target>>

Next == (\E n \in Names : Substitute(n)) \/ GiveUp

Spec == Init /\ [][Next]_vars
=============================================================================
