-------------------------- MODULE ReplicaRequests --------------------------
(***************************************************************************)
(* What a user who scales a database may rely on, whatever the controller  *)
(* does in between.  The spec under a name is the users': it changes when  *)
(* one of them asks for another or withdraws the name, and never otherwise.*)
(* A workload carries the replicas of one request already made, and while  *)
(* it lives it only moves to later requests.                               *)
(***************************************************************************)
EXTENDS Naturals, Sequences

CONSTANTS
  Name,      \* what users write specs under
  Part,      \* what a spec gives a number of replicas for
  Workload   \* the workloads <<name, part>>

VARIABLES
  asked,     \* asked[n]: every spec asked for under n, in order
  spec,      \* spec[n]: the spec in force under n, Nothing when there is none
  applied,   \* applied[w]: the request that w carries, 0 when w does not exist
  replicas   \* replicas[w]: its replicas

vars == <<asked, spec, applied, replicas>>

Nothing == [p \in Part |-> 0]

Init == /\ asked = [n \in Name |-> <<>>]
        /\ spec = [n \in Name |-> Nothing]
        /\ applied = [w \in Workload |-> 0]
        /\ replicas = [w \in Workload |-> 0]

Ask(n) == /\ spec'[n] \in [Part -> Nat]
          /\ spec' = [spec EXCEPT ![n] = spec'[n]]
          /\ asked' = [asked EXCEPT ![n] = Append(@, spec'[n])]
          /\ UNCHANGED <<applied, replicas>>

Withdraw(n) == /\ spec' = [spec EXCEPT ![n] = Nothing]
               /\ UNCHANGED <<asked, applied, replicas>>

\* w takes over request k; it is created if it does not exist, and a pass that
\* creates it may have read its request long ago.
Apply(w, k) == /\ k \in DOMAIN asked[w[1]]
               /\ k > applied[w]
               /\ applied' = [applied EXCEPT ![w] = k]
               /\ replicas' = [replicas EXCEPT ![w] = asked[w[1]][k][w[2]]]
               /\ UNCHANGED <<asked, spec>>

Remove(w) == /\ applied' = [applied EXCEPT ![w] = 0]
             /\ replicas' = [replicas EXCEPT ![w] = 0]
             /\ UNCHANGED <<asked, spec>>

Next == \/ \E n \in Name : Ask(n) \/ Withdraw(n)
        \/ \E w \in Workload : Remove(w) \/ \E k \in DOMAIN asked[w[1]] : Apply(w, k)

Spec == Init /\ [][Next]_vars
=============================================================================
