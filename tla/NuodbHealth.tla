---------------------------- MODULE NuodbHealth ----------------------------
(***************************************************************************)
(* The "traffic light" health and the orchestration phase that the Nuodb   *)
(* and NuodbAdmin controllers derive from a number of ready pods and a     *)
(* number of requested ones.  Pure operators, no state.                    *)
(*                                                                         *)
(* A status carries one light per role (SM and TE for a database, Admin    *)
(* for a domain); the overall light and the phase are functions of those.  *)
(***************************************************************************)
EXTENDS Naturals

Health == {"Unknown", "Red", "Yellow", "Green"}
Phases == {"Pending", "Operational"}

\* The light of one role: enough pods, none of them, or some of them.
RoleHealth(ready, desired) ==
  CASE ready >= desired                -> "Green"
    [] ready < desired /\ ready = 0    -> "Red"
    [] ready < desired /\ ready # 0    -> "Yellow"

\* The overall light (databaseHealth, domainHealth) of the roles' lights h.
OverallHealth(h) ==
  CASE \A r \in DOMAIN h : h[r] = "Green" -> "Green"
    [] \E r \in DOMAIN h : h[r] = "Red"   -> "Red"
    [] OTHER                              -> "Yellow"

\* The phase stored with that light: everything but Red is Operational.
PhaseOf(h) == IF OverallHealth(h) = "Red" THEN "Pending" ELSE "Operational"

HealthOrder == [h \in Health |-> CASE h = "Unknown" -> 0
                                   [] h = "Red"     -> 1
                                   [] h = "Yellow"  -> 2
                                   [] h = "Green"   -> 3]

\* green > yellow > red; nothing compares with Unknown.
Less(h, other) == /\ HealthOrder[h] # 0
                  /\ HealthOrder[other] # 0
                  /\ HealthOrder[h] < HealthOrder[other]
=============================================================================
