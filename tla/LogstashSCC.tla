---------------------------- MODULE LogstashSCC ----------------------------
(***************************************************************************)
(* AddLogstashServiceAccountsToSCC (pkg/utils): on OpenShift, operators    *)
(* keep the groups of their Logstash namespaces in one cluster-wide        *)
(* SecurityContextConstraints, which administrators edit as well.  Each    *)
(* call replaces the whole list of groups it read, provided that nobody    *)
(* wrote it in between, and starts over otherwise, a few times.            *)
(*                                                                         *)
(* granted, the groups administrators added and did not remove, is history.*)
(***************************************************************************)
EXTENDS Naturals

CONSTANTS
  Operator,   \* operators of several namespaces, calling the function
  Group,      \* groups that may be in the list
  Logstash,   \* those whose name contains "insights-server-release-logstash"
  Namespace,  \* Namespace[p]: the groups of p's namespaces of that prefix
  Attempts    \* retry.DefaultRetry.Steps

ASSUME SCCConstants ==
  /\ Logstash \subseteq Group
  /\ Namespace \in [Operator -> SUBSET Logstash]
  /\ Attempts \in Nat \ {0}

VARIABLES
  scc,        \* the groups on the API server
  pc,         \* pc[p]: "out" of the function, about to "get", about to "update"
  copy,       \* copy[p]: the groups p read
  fresh,      \* fresh[p]: nobody has written since
  attempt,    \* attempt[p]: number of the attempt under way
  granted

vars == <<scc, pc, copy, fresh, attempt, granted>>

Init ==
  /\ scc \in SUBSET (Group \ Logstash) /\ granted = scc
  /\ pc = [p \in Operator |-> "out"]
  /\ copy = [p \in Operator |-> {}] /\ fresh = [p \in Operator |-> FALSE]
  /\ attempt = [p \in Operator |-> 0]

Write(groups) == scc' = groups /\ fresh' = [p \in Operator |-> FALSE]

-----------------------------------------------------------------------------
Call(p) ==
  /\ pc[p] = "out"
  /\ pc' = [pc EXCEPT ![p] = "get"] /\ attempt' = [attempt EXCEPT ![p] = 1]
  /\ UNCHANGED <<scc, copy, fresh, granted>>

Get(p) ==
  /\ pc[p] = "get"
  /\ pc' = [pc EXCEPT ![p] = "update"]
  /\ copy' = [copy EXCEPT ![p] = scc] /\ fresh' = [fresh EXCEPT ![p] = TRUE]
  /\ UNCHANGED <<scc, attempt, granted>>

Leave(p) == pc' = [pc EXCEPT ![p] = "out"] /\ attempt' = [attempt EXCEPT ![p] = 0]

UpdateBlindly(p) ==  \* MUTANT of Update: the write carries no version
  /\ pc[p] = "update"
  /\ Write((copy[p] \ Logstash) \cup Namespace[p]) /\ Leave(p)
  /\ UNCHANGED <<copy, granted>>

Update(p) ==
  /\ pc[p] = "update" /\ fresh[p]
  /\ Write((copy[p] \ Logstash) \cup Namespace[p]) /\ Leave(p)
  /\ UNCHANGED <<copy, granted>>

RetryForEver(p) ==  \* MUTANT of Conflict: attempts are not counted
  /\ pc[p] = "update" /\ ~fresh[p]
  /\ pc' = [pc EXCEPT ![p] = "get"]
  /\ UNCHANGED <<scc, copy, fresh, attempt, granted>>

RetryOnceMore(p) ==  \* MUTANT of Conflict: one attempt too many
  /\ pc[p] = "update" /\ ~fresh[p]
  /\ \/ /\ attempt[p] <= Attempts
        /\ attempt' = [attempt EXCEPT ![p] = @ + 1]
        /\ pc' = [pc EXCEPT ![p] = "get"]
     \/ attempt[p] > Attempts /\ Leave(p)
  /\ UNCHANGED <<scc, copy, fresh, granted>>

\* The whole function starts over; after the last attempt the conflict is the
\* result, which reconcileLogstashCluster drops.
Conflict(p) ==
  /\ pc[p] = "update" /\ ~fresh[p]
  /\ \/ /\ attempt[p] < Attempts
        /\ attempt' = [attempt EXCEPT ![p] = @ + 1]
        /\ pc' = [pc EXCEPT ![p] = "get"]
     \/ attempt[p] = Attempts /\ Leave(p)
  /\ UNCHANGED <<scc, copy, fresh, granted>>

\* No such SCC, or an error other than a conflict: neither is retried.
CallError(p) ==
  /\ pc[p] # "out" /\ Leave(p)
  /\ UNCHANGED <<scc, copy, fresh, granted>>

Administer ==
  /\ \E g \in Group \ Logstash :
       /\ Write(IF g \in scc THEN scc \ {g} ELSE scc \cup {g})
       /\ granted' = scc' \ Logstash
  /\ UNCHANGED <<pc, copy, attempt>>

Next ==
  \/ Administer
  \/ \E p \in Operator : Call(p) \/ Get(p) \/ Update(p) \/ Conflict(p) \/ CallError(p)

Spec == Init /\ [][Next]_vars

\* A call that is under way goes on.
FairSpec == Spec /\ \A p \in Operator : WF_vars(Get(p) \/ Update(p) \/ Conflict(p))
-----------------------------------------------------------------------------
\* Each variable has its type; no call makes more than Attempts attempts.
TypeOK ==
  /\ scc \subseteq Group /\ granted \subseteq Group
  /\ pc \in [Operator -> {"out", "get", "update"}]
  /\ copy \in [Operator -> SUBSET Group] /\ fresh \in [Operator -> BOOLEAN]
  /\ attempt \in [Operator -> 0..Attempts]

\* No interleaving of calls and administrators loses a group that an
\* administrator added, or brings one back that an administrator removed.
KeepsGrants == scc \ Logstash = granted

\* A call ends, however often others write in between.
CallsEnd == \A p \in Operator : pc[p] # "out" ~> pc[p] = "out"
=============================================================================
