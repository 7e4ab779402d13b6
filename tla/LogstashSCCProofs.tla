------------------------- MODULE LogstashSCCProofs -------------------------
(***************************************************************************)
(* For any number of operators, groups and attempts, AddLogstashService-   *)
(* AccountsToSCC neither loses nor revives an administrator's group.  The  *)
(* inductive invariant adds to KeepsGrants what the resource version is    *)
(* for: a copy that is still fresh is the list on the server.              *)
(***************************************************************************)
EXTENDS LogstashSCC, TLAPS

FreshIsCurrent == \A p \in Operator : fresh[p] => copy[p] = scc

IInv == TypeOK /\ KeepsGrants /\ FreshIsCurrent

\* An empty list of groups, and copies that are not fresh, satisfy it.
LEMMA InitIInv == Init => IInv
  BY SCCConstants DEF Init, IInv, TypeOK, KeepsGrants, FreshIsCurrent

\* Every step keeps it: an update writes what it read, the Logstash groups
\* apart, and what it read is the list of that moment.
LEMMA NextIInv == IInv /\ [Next]_vars => IInv'
<1> SUFFICES ASSUME IInv, [Next]_vars PROVE IInv'
  OBVIOUS
<1> USE DEF IInv, TypeOK, KeepsGrants, FreshIsCurrent
<1>1. CASE Administer
  <2>1. PICK g \in Group \ Logstash :
          /\ Write(IF g \in scc THEN scc \ {g} ELSE scc \cup {g})
          /\ granted' = scc' \ Logstash
    BY <1>1 DEF Administer
  <2>2. scc' \subseteq Group /\ granted' \subseteq Group /\ KeepsGrants'
    BY <2>1 DEF Write
  <2>3. FreshIsCurrent' /\ fresh' \in [Operator -> BOOLEAN]
    BY <2>1 DEF Write
  <2> QED
    BY <1>1, <2>2, <2>3 DEF Administer
<1>2. ASSUME NEW p \in Operator, Call(p) PROVE IInv'
  BY <1>2, SCCConstants DEF Call
<1>3. ASSUME NEW p \in Operator, Get(p) PROVE IInv'
  BY <1>3 DEF Get
<1>4. ASSUME NEW p \in Operator, Update(p) PROVE IInv'
  <2>1. copy[p] = scc /\ scc' = (scc \ Logstash) \cup Namespace[p]
    BY <1>4 DEF Update, Write
  <2>2. Namespace[p] \subseteq Logstash /\ Logstash \subseteq Group
    BY SCCConstants
  <2>3. scc' \subseteq Group /\ granted' \subseteq Group /\ KeepsGrants'
    BY <1>4, <2>1, <2>2 DEF Update
  <2>4. FreshIsCurrent' /\ fresh' \in [Operator -> BOOLEAN]
    BY <1>4 DEF Update, Write
  <2>5. /\ pc' \in [Operator -> {"out", "get", "update"}]
        /\ attempt' \in [Operator -> 0..Attempts]
    BY <1>4, SCCConstants DEF Update, Leave
  <2>6. copy' \in [Operator -> SUBSET Group]
    BY <1>4 DEF Update
  <2> QED
    BY <2>3, <2>4, <2>5, <2>6
<1>5. ASSUME NEW p \in Operator, Conflict(p) PROVE IInv'
  <2>1. attempt' \in [Operator -> 0..Attempts]
    BY <1>5, SCCConstants DEF Conflict, Leave
  <2> QED
    BY <1>5, <2>1 DEF Conflict, Leave
<1>6. ASSUME NEW p \in Operator, CallError(p) PROVE IInv'
  BY <1>6, SCCConstants DEF CallError, Leave
<1>7. CASE UNCHANGED vars
  BY <1>7 DEF vars
<1> QED
  BY <1>1, <1>2, <1>3, <1>4, <1>5, <1>6, <1>7 DEF Next

\* AddLogstashServiceAccountsToSCC: its variables keep their types, and a call
\* never exceeds its attempts.
THEOREM SCCTypeCorrect == Spec => []TypeOK
  BY InitIInv, NextIInv, PTL DEF Spec, IInv

\* AddLogstashServiceAccountsToSCC: however calls and administrators interleave,
\* the groups that are not Logstash's are those the administrators left.
THEOREM GrantsKept == Spec => []KeepsGrants
  BY InitIInv, NextIInv, PTL DEF Spec, IInv
=============================================================================
