----------------------- MODULE ReplicaRequestsProofs -----------------------
(***************************************************************************)
(* What ReplicaRequests says of every state, and so of every controller    *)
(* that implements it: the spec is the last one that users asked for, and  *)
(* a workload that exists carries a request that they made.                *)
(***************************************************************************)
EXTENDS ReplicaRequests, TLAPS

RequestTypes ==
  /\ Workload \subseteq Name \X Part
  /\ asked \in [Name -> Seq([Part -> Nat])]
  /\ spec \in [Name -> [Part -> Nat]]
  /\ applied \in [Workload -> Nat]
  /\ replicas \in [Workload -> Nat]

\* Nobody but the users writes a spec: what is in force is their last word.
LastWord ==
  \A n \in Name : spec[n] = Nothing \/ (asked[n] # <<>> /\ spec[n] = asked[n][Len(asked[n])])

\* A workload has the replicas of one request as a whole, or does not exist.
CarriesARequest ==
  \A w \in Workload : \/ applied[w] = 0 /\ replicas[w] = 0
                      \/ /\ applied[w] \in DOMAIN asked[w[1]]
                         /\ replicas[w] = asked[w[1]][applied[w]][w[2]]

RequestsInv == RequestTypes /\ LastWord /\ CarriesARequest

LEMMA RequestsInvInit ==
  ASSUME Workload \subseteq Name \X Part, Init PROVE RequestsInv
<1>1. Nothing \in [Part -> Nat]
  BY DEF Nothing
<1>2. RequestTypes
  BY <1>1 DEF Init, RequestTypes
<1>. QED  BY <1>2 DEF Init, RequestsInv, LastWord, CarriesARequest

\* A new request comes after the others and changes none of them.
LEMMA AskKeeps ==
  ASSUME RequestsInv, NEW n \in Name, Ask(n) PROVE RequestsInv'
<1> DEFINE s == spec'[n]
<1>1. /\ s \in [Part -> Nat] /\ spec' = [spec EXCEPT ![n] = s]
      /\ asked' = [asked EXCEPT ![n] = Append(asked[n], s)] /\ UNCHANGED <<applied, replicas>>
  BY DEF Ask
<1> HIDE DEF s
<1>2. Append(asked[n], s) \in Seq([Part -> Nat])
  BY <1>1 DEF RequestsInv, RequestTypes
<1>3. RequestTypes'
  BY <1>1, <1>2 DEF RequestsInv, RequestTypes
<1>4. /\ asked'[n] = Append(asked[n], s) /\ \A m \in Name : m # n => asked'[m] = asked[m]
      /\ spec'[n] = s /\ \A m \in Name : m # n => spec'[m] = spec[m]
  BY <1>1 DEF RequestsInv, RequestTypes
<1>5. asked[n] \in Seq([Part -> Nat])
  BY DEF RequestsInv, RequestTypes
<1>6. LastWord'
  <2>1. asked'[n] # <<>> /\ asked'[n][Len(asked'[n])] = s
    <3>1. Len(Append(asked[n], s)) = Len(asked[n]) + 1
      BY <1>1, <1>5
    <3>2. Append(asked[n], s)[Len(asked[n]) + 1] = s
      BY <1>1, <1>5
    <3>3. Len(asked[n]) + 1 # 0
      BY <1>5
    <3>4. Len(asked'[n]) = Len(asked[n]) + 1
      BY <1>4, <3>1
    <3>5. asked'[n][Len(asked'[n])] = s
      BY <1>4, <3>2, <3>4
    <3>6. asked'[n] # <<>>
      BY <3>3, <3>4
    <3>. QED  BY <3>5, <3>6
  <2>. QED  BY <1>4, <2>1 DEF RequestsInv, LastWord, Nothing
<1>7. \A m \in Name : \A k \in DOMAIN asked[m] :
        k \in DOMAIN asked'[m] /\ asked'[m][k] = asked[m][k]
  <2>1. \A k \in DOMAIN asked[n] : k \in DOMAIN asked'[n] /\ asked'[n][k] = asked[n][k]
    BY <1>1, <1>4, <1>5
  <2>. QED  BY <1>4, <2>1
<1>8. CarriesARequest'
  <2>1. \A w \in Workload : w[1] \in Name
    BY DEF RequestsInv, RequestTypes
  <2>. QED  BY <1>1, <1>7, <2>1 DEF RequestsInv, CarriesARequest
<1>. QED  BY <1>3, <1>6, <1>8 DEF RequestsInv

LEMMA RequestsInvStep == RequestsInv /\ [Next]_vars => RequestsInv'
<1> SUFFICES ASSUME RequestsInv, [Next]_vars PROVE RequestsInv'
  OBVIOUS
<1>1. ASSUME NEW n \in Name, Withdraw(n) PROVE RequestsInv'
  <2>1. Nothing \in [Part -> Nat]
    BY DEF Nothing
  <2>. QED
    BY <1>1, <2>1 DEF Withdraw, RequestsInv, RequestTypes, LastWord, CarriesARequest, Nothing
<1>2. ASSUME NEW w \in Workload, Remove(w) PROVE RequestsInv'
  BY <1>2 DEF Remove, RequestsInv, RequestTypes, LastWord, CarriesARequest, Nothing
<1>3. ASSUME NEW w \in Workload, NEW k \in DOMAIN asked[w[1]], Apply(w, k) PROVE RequestsInv'
  <2>1. w[1] \in Name /\ w[2] \in Part
    BY DEF RequestsInv, RequestTypes
  <2>2. asked[w[1]] \in Seq([Part -> Nat])
    BY <2>1 DEF RequestsInv, RequestTypes
  <2>3. k \in Nat /\ asked[w[1]][k] \in [Part -> Nat]
    BY <1>3, <2>2
  <2>4. asked[w[1]][k][w[2]] \in Nat
    BY <2>1, <2>3
  <2>. QED
    BY <1>3, <2>3, <2>4
       DEF Apply, RequestsInv, RequestTypes, LastWord, CarriesARequest, Nothing
<1>4. CASE UNCHANGED vars
  BY <1>4 DEF vars, RequestsInv, RequestTypes, LastWord, CarriesARequest, Nothing
<1>. QED  BY <1>1, <1>2, <1>3, <1>4, AskKeeps DEF Next

\* Whatever implements ReplicaRequests leaves the last word on every spec to the
\* users, and gives each workload the replicas of a single request they made.
THEOREM UsersHaveTheLastWord ==
  ASSUME Workload \subseteq Name \X Part
  PROVE  Spec => [](LastWord /\ CarriesARequest)
<1>1. Init => RequestsInv
  BY RequestsInvInit
<1>2. RequestsInv => LastWord /\ CarriesARequest
  BY DEF RequestsInv
<1>. QED  BY <1>1, <1>2, RequestsInvStep, PTL DEF Spec
=============================================================================
