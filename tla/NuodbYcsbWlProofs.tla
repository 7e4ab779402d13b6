------------------------- MODULE NuodbYcsbWlProofs -------------------------
(***************************************************************************)
(* Types of NuodbYcsbWl for any names, counts and bounds, and with them    *)
(* that no ReplicationController is ever without an owner.  For that the   *)
(* invariant says of the workload what TypeOK says of the controllers,     *)
(* wherever a copy of it is held, and what a current copy is.              *)
(***************************************************************************)
EXTENDS NuodbYcsbWl, TLAPS

Identified(record) == record.exists => record.uid # 0

IInv ==
  /\ TypeOK
  /\ Identified(cr) /\ Identified(crCache) /\ Identified(inst)
  /\ \A n \in Names : rcFresh[n] => rcCache[n] = rc[n]

LEMMA BlankTypes == NoCr \in CrRecord /\ Identified(NoCr) /\ NoObject \in Object
<1>1. (CHOOSE n \in Names : TRUE) \in Names
  BY YcsbConstants
<1>. QED  BY <1>1 DEF NoCr, CrRecord, Identified, NoObject, Object

LEMMA InitIInv == Init => IInv
<1> SUFFICES ASSUME Init PROVE IInv
  OBVIOUS
<1>1. NoObject.exists = FALSE
  BY DEF NoObject
<1>2. 0 \in 0..MaxRequests /\ 0 \in 0..MaxScalings
  BY YcsbConstants
<1>. QED  BY <1>1, <1>2, BlankTypes DEF Init, IInv, TypeOK

\* A ReplicationController is written: created, scaled or removed.
LEMMA WriteRcInv ==
  ASSUME IInv, NEW n \in Names, NEW record \in Object, record.exists => record.owner # 0,
         WriteRc(n, record)
  PROVE  /\ rc' \in [Names -> Object] /\ \A m \in Names : rc'[m].exists => rc'[m].owner # 0
         /\ rcFresh' \in [Names -> BOOLEAN]
         /\ rcCache' = rcCache => \A m \in Names : rcFresh'[m] => rcCache'[m] = rc'[m]
BY DEF IInv, TypeOK, WriteRc

LEMMA NextIInv == IInv /\ [Next]_vars => IInv'
<1> SUFFICES ASSUME IInv, [Next]_vars PROVE IInv'
  OBVIOUS
<1>a. TypeOK
  BY DEF IInv
<1> USE DEF cacheVars, envVars
<1>1. CASE Request
  <2>1. PICK n \in Names, k \in Counts :
          cr' = [exists |-> TRUE, uid |-> IF cr.exists THEN cr.uid ELSE requests',
                 name |-> n, count |-> k]
    BY <1>1 DEF Request
  <2>2. requests' = requests + 1 /\ requests' \in 0..MaxRequests /\ requests' # 0
    BY <1>1, <1>a, YcsbConstants DEF Request, TypeOK
  <2>3. cr.uid \in Nat /\ k \in Nat /\ requests' \in Nat
    BY <1>a, <2>2, YcsbConstants DEF TypeOK, CrRecord
  <2>4. cr' \in CrRecord /\ Identified(cr')
    BY <2>1, <2>2, <2>3 DEF CrRecord, Identified, IInv
  <2>. QED  BY <1>1, <2>2, <2>4 DEF IInv, TypeOK, Request
<1>2. CASE DeleteCr
  BY <1>2, BlankTypes DEF IInv, TypeOK, DeleteCr
<1>3. ASSUME NEW n \in Names, UserScales(n) PROVE IInv'
  <2>1. PICK k \in Counts : WriteRc(n, [rc[n] EXCEPT !.replicas = k])
    BY <1>3 DEF UserScales
  <2>2. rc[n] \in Object /\ k \in Nat /\ (rc[n].exists => rc[n].owner # 0)
    BY <1>a, YcsbConstants DEF TypeOK
  <2>3. /\ [rc[n] EXCEPT !.replicas = k] \in Object
        /\ [rc[n] EXCEPT !.replicas = k].exists => [rc[n] EXCEPT !.replicas = k].owner # 0
    BY <2>2 DEF Object
  <2>4. scalings' \in 0..MaxScalings
    BY <1>3, <1>a, YcsbConstants DEF UserScales, TypeOK
  <2>. QED  BY <1>3, <2>1, <2>3, <2>4, WriteRcInv DEF IInv, TypeOK, UserScales
<1>4. ASSUME NEW n \in Names, Gone(n) PROVE IInv'
  <2>1. ~NoObject.exists
    BY DEF NoObject
  <2>. QED  BY <1>4, <2>1, BlankTypes, WriteRcInv DEF IInv, TypeOK, Gone
<1>5. CASE Settle
  BY <1>5 DEF IInv, TypeOK, Settle
<1>6. CASE SyncCr
  BY <1>6 DEF IInv, TypeOK, SyncCr
<1>7. ASSUME NEW n \in Names, SyncRc(n) PROVE IInv'
  BY <1>7 DEF IInv, TypeOK, SyncRc
<1>8. CASE Resync
  BY <1>8 DEF IInv, TypeOK, Resync
<1>9. CASE StartPass
  BY <1>9 DEF IInv, TypeOK, StartPass
<1>10. ASSUME NEW n \in Names, Reconcile(n) PROVE IInv'
  <2>1. inst' \in CrRecord /\ Identified(inst') /\ pending' \in BOOLEAN
    BY <1>10, <1>a, BlankTypes DEF Reconcile, Succeed, Fail, TypeOK
  <2>2. /\ NewRc \in Object /\ NewRc.owner # 0
    BY <1>10, <1>a DEF NewRc, Object, Reconcile, IInv, Identified, TypeOK, CrRecord
  <2>3. CASE WriteRc(n, NewRc)
    BY <1>10, <2>1, <2>2, <2>3, WriteRcInv DEF IInv, TypeOK, Reconcile
  <2>4. CASE WriteRc(n, [rcCache[n] EXCEPT !.replicas = inst.count]) /\ rcFresh[n]
    <3> DEFINE record == [rcCache[n] EXCEPT !.replicas = inst.count]
    <3>1. /\ rcCache[n] \in Object /\ inst.count \in Nat /\ rcCache[n] = rc[n]
          /\ rc[n].exists => rc[n].owner # 0
      BY <1>a, <2>4 DEF IInv, TypeOK, CrRecord
    <3>2. record \in Object /\ (record.exists => record.owner # 0)
      BY <3>1 DEF Object
    <3>. QED  BY <1>10, <2>1, <2>4, <3>2, WriteRcInv DEF IInv, TypeOK, Reconcile
  <2>5. CASE UNCHANGED <<rc, rcFresh>>
    BY <1>10, <2>1, <2>5 DEF IInv, TypeOK, Reconcile
  <2>. QED  BY <1>10, <2>3, <2>4, <2>5 DEF Reconcile
<1>11. CASE PassError
  BY <1>11, BlankTypes DEF IInv, TypeOK, PassError, Fail
<1>12. CASE Restart
  BY <1>12, BlankTypes DEF IInv, TypeOK, Restart, CrRecord
<1>13. CASE UNCHANGED vars
  BY <1>13 DEF IInv, TypeOK, vars
<1>. QED
  BY <1>1, <1>2, <1>3, <1>4, <1>5, <1>6, <1>7, <1>8, <1>9, <1>10, <1>11, <1>12, <1>13
     DEF Next, PassStep, DeleteRc, GarbageCollect

\* Whatever users scale, delete and rename, and however old the copies a pass acts
\* on, every variable keeps its type and every ReplicationController its owner.
THEOREM YcsbTypeCorrect == Spec => []TypeOK
BY InitIInv, NextIInv, PTL DEF Spec, IInv
=============================================================================
