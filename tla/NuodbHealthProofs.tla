------------------------- MODULE NuodbHealthProofs -------------------------
(***************************************************************************)
(* What the lights and the phase say of the pods, for any numbers of them. *)
(***************************************************************************)
EXTENDS NuodbHealth, TLAPS

\* The light of one role, as conditions on its two numbers.
LEMMA RoleHealthCases ==
  ASSUME NEW ready \in Nat, NEW desired \in Nat
  PROVE  /\ RoleHealth(ready, desired) \in {"Red", "Yellow", "Green"}
         /\ RoleHealth(ready, desired) = "Green" <=> ready >= desired
         /\ RoleHealth(ready, desired) = "Red" <=> ready = 0 /\ desired > 0
BY DEF RoleHealth

LEMMA OrderOfLights ==
  \A h, other \in {"Red", "Yellow", "Green"} :
    Less(h, other) <=> \/ h = "Red" /\ other \in {"Yellow", "Green"}
                       \/ h = "Yellow" /\ other = "Green"
<1>1. /\ HealthOrder["Red"] = 1 /\ HealthOrder["Yellow"] = 2 /\ HealthOrder["Green"] = 3
  BY DEF HealthOrder, Health
<1>. QED  BY <1>1 DEF Less

\* Lights of roles, from the ready pods and the requested ones of each.
Lights(ready, desired) == [r \in DOMAIN desired |-> RoleHealth(ready[r], desired[r])]

\* What the status promises by its phase: it is Pending exactly while some role that
\* is asked for has no ready pod at all, and the overall light is Green exactly if
\* every role has the pods asked for (updateStatus of both controllers).
THEOREM WhatTheStatusSays ==
  ASSUME NEW Part, NEW ready \in [Part -> Nat], NEW desired \in [Part -> Nat]
  PROVE  /\ PhaseOf(Lights(ready, desired)) = "Pending"
              <=> \E r \in Part : ready[r] = 0 /\ desired[r] > 0
         /\ OverallHealth(Lights(ready, desired)) = "Green"
              <=> \A r \in Part : ready[r] >= desired[r]
<1> DEFINE h == Lights(ready, desired)
<1>1. DOMAIN h = Part /\ \A r \in Part : h[r] = RoleHealth(ready[r], desired[r])
  BY DEF Lights
<1>2. \A r \in Part : /\ h[r] \in {"Red", "Yellow", "Green"}
                      /\ h[r] = "Green" <=> ready[r] >= desired[r]
                      /\ h[r] = "Red" <=> ready[r] = 0 /\ desired[r] > 0
  BY <1>1, RoleHealthCases
<1> HIDE DEF h
<1>3. OverallHealth(h) = "Green" <=> \A r \in Part : h[r] = "Green"
  BY <1>1 DEF OverallHealth
<1>4. OverallHealth(h) = "Red" <=> \E r \in Part : h[r] = "Red"
  BY <1>1 DEF OverallHealth
<1>5. PhaseOf(h) = "Pending" <=> OverallHealth(h) = "Red"
  BY DEF PhaseOf
<1>. QED  BY <1>2, <1>3, <1>4, <1>5 DEF h

\* The lights never contradict the pods: with more of them ready, or fewer asked
\* for, no light of a role and not the overall one is less.
THEOREM LightsFollowPods ==
  ASSUME NEW Part, NEW ready \in [Part -> Nat], NEW desired \in [Part -> Nat],
         NEW more \in [Part -> Nat], NEW fewer \in [Part -> Nat],
         \A r \in Part : more[r] >= ready[r] /\ fewer[r] <= desired[r]
  PROVE  /\ \A r \in Part : ~Less(RoleHealth(more[r], fewer[r]), RoleHealth(ready[r], desired[r]))
         /\ ~Less(OverallHealth(Lights(more, fewer)), OverallHealth(Lights(ready, desired)))
<1>1. ASSUME NEW r \in Part
      PROVE  ~Less(RoleHealth(more[r], fewer[r]), RoleHealth(ready[r], desired[r]))
  <2>1. /\ ready[r] \in Nat /\ desired[r] \in Nat /\ more[r] \in Nat /\ fewer[r] \in Nat
        /\ more[r] >= ready[r] /\ fewer[r] <= desired[r]
    OBVIOUS
  <2>2. /\ RoleHealth(ready[r], desired[r]) = "Green" => RoleHealth(more[r], fewer[r]) = "Green"
        /\ RoleHealth(more[r], fewer[r]) = "Red" => RoleHealth(ready[r], desired[r]) = "Red"
    BY <2>1, RoleHealthCases
  <2>. QED  BY <2>1, <2>2, RoleHealthCases, OrderOfLights
<1>2. ~Less(OverallHealth(Lights(more, fewer)), OverallHealth(Lights(ready, desired)))
  <2> DEFINE then == OverallHealth(Lights(ready, desired))
             now  == OverallHealth(Lights(more, fewer))
  <2>1. then \in {"Red", "Yellow", "Green"} /\ now \in {"Red", "Yellow", "Green"}
    BY DEF OverallHealth
  <2>2. then = "Green" => now = "Green"
    <3>1. \A r \in Part : ready[r] >= desired[r] => more[r] >= fewer[r]
      OBVIOUS
    <3>. QED  BY <3>1, WhatTheStatusSays
  <2>3. now = "Red" => then = "Red"
    <3>1. \A r \in Part : more[r] = 0 /\ fewer[r] > 0 => ready[r] = 0 /\ desired[r] > 0
      OBVIOUS
    <3>2. PhaseOf(Lights(more, fewer)) = "Pending" => PhaseOf(Lights(ready, desired)) = "Pending"
      BY <3>1, WhatTheStatusSays
    <3>. QED  BY <3>2 DEF PhaseOf
  <2> HIDE DEF then, now
  <2>4. ~Less(now, then)
    BY <2>1, <2>2, <2>3, OrderOfLights
  <2>. QED  BY <2>4 DEF then, now
<1>. QED  BY <1>1, <1>2
=============================================================================
