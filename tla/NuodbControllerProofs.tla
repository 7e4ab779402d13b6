----------------------- MODULE NuodbControllerProofs -----------------------
(***************************************************************************)
(* Proofs about NuodbController, for any set of custom resources, any      *)
(* charts, any requests and any bounds.                                    *)
(***************************************************************************)
EXTENDS NuodbController, TLAPS

-----------------------------------------------------------------------------
(***************************************************************************)
(* Types.                                                                  *)
(***************************************************************************)
LEMMA VisitedIsObject ==
  ASSUME TypeOK, idx \in DOMAIN Manifest[key]
  PROVE  Visited \in Objects
BY DEF TypeOK, Visited, Objects

LEMMA RoleHealthType ==
  ASSUME NEW n \in Nat, NEW m \in Nat
  PROVE  RoleHealth(n, m) \in Health
BY DEF RoleHealth, Health

LEMMA WithHealthType ==
  ASSUME NEW status \in Status, NEW spec \in [Role -> Nat]
  PROVE  WithHealth(status, spec) \in Status
BY RoleHealthType DEF WithHealth, Status

LEMMA BlankTypes ==
  /\ NoStatus \in Status
  /\ InitialStatus \in Status
  /\ NoCr(0) \in CrRecord
  /\ NoObject \in Object
<1>1. NoStatus \in Status
  BY DEF NoStatus, Status, Health
<1>2. InitialStatus \in Status
  BY <1>1 DEF InitialStatus, Status
<1>3. NoCr(0) \in CrRecord
  BY <1>1 DEF NoCr, CrRecord
<1>4. (CHOOSE c \in CR : TRUE) \in CR
  BY ConstantsAssumption
<1>5. NoObject \in Object
  BY <1>4 DEF NoObject, Object
<1>. QED  BY <1>1, <1>2, <1>3, <1>5

LEMMA NoCrType == ASSUME NEW n \in Nat PROVE NoCr(n) \in CrRecord
BY BlankTypes DEF NoCr, CrRecord

\* What every step of the worker that ends or advances the pass leaves behind.
LEMMA ReturnType ==
  ASSUME TypeOK, Return
  PROVE  /\ pc' = "idle" /\ key' \in CR /\ idx' \in Nat
         /\ inst' \in CrRecord /\ copy' \in Object /\ copyFresh' \in BOOLEAN
         /\ newStatus' \in Status
BY BlankTypes DEF TypeOK, Return

LEMMA NextChildType ==
  ASSUME TypeOK, NextChild
  PROVE  /\ pc' = "visit" /\ key' \in CR /\ idx' \in Nat
         /\ inst' \in CrRecord /\ copy' \in Object /\ copyFresh' \in BOOLEAN
         /\ newStatus' \in Status /\ pending' \subseteq CR
<1>1. idx' \in Nat
  BY DEF TypeOK, NextChild
<1>. QED  BY <1>1, BlankTypes DEF TypeOK, NextChild

LEMMA RequeueType ==
  ASSUME TypeOK, ReturnAndRequeue
  PROVE  Return /\ pending' \subseteq CR
BY DEF TypeOK, ReturnAndRequeue

LEMMA AskType ==
  ASSUME TypeOK, NEW c \in CR, NEW instance \in CrRecord, NEW spec \in [Role -> Nat],
         Ask(c, instance, spec)
  PROVE  TypeOK'
<1>1. Len(asked[c]) + 1 \in Nat
  BY DEF TypeOK
<1>2. [instance EXCEPT !.gen = Len(asked[c]) + 1, !.spec = spec] \in CrRecord
  BY <1>1 DEF CrRecord
<1>3. Append(asked[c], spec) \in Seq([Role -> Nat])
  BY DEF TypeOK
<1>. QED  BY <1>2, <1>3 DEF TypeOK, Ask, WriteCr, UserVars, passVars

\* Every action preserves the types.
LEMMA TypeStep == TypeOK /\ [Next]_vars => TypeOK'
<1> SUFFICES ASSUME TypeOK, [Next]_vars PROVE TypeOK'
  OBVIOUS
<1> USE DEF apiVars, cacheVars, passVars, UserVars
<1>1. ASSUME NEW c \in CR, CreateCr(c) PROVE TypeOK'
  <2>1. PICK spec \in Requests :
          Ask(c, [cr[c] EXCEPT !.exists = TRUE, !.uid = Len(asked[c]) + 1], spec)
    BY <1>1 DEF CreateCr
  <2>2. spec \in [Role -> Nat]
    BY ConstantsAssumption
  <2>3. Len(asked[c]) + 1 \in Nat
    BY DEF TypeOK
  <2>4. [cr[c] EXCEPT !.exists = TRUE, !.uid = Len(asked[c]) + 1] \in CrRecord
    BY <2>3 DEF TypeOK, CrRecord
  <2>. QED  BY <2>1, <2>2, <2>4, AskType
<1>2. ASSUME NEW c \in CR, EditSpec(c) PROVE TypeOK'
  <2>1. PICK spec \in Requests : Ask(c, cr[c], spec)
    BY <1>2 DEF EditSpec
  <2>2. spec \in [Role -> Nat]
    BY ConstantsAssumption
  <2>. QED  BY <2>1, <2>2, AskType DEF TypeOK
<1>3. ASSUME NEW c \in CR, DeleteCr(c) PROVE TypeOK'
  <2>1. NoCr(cr[c].gen) \in CrRecord
    BY NoCrType DEF TypeOK, CrRecord
  <2>. QED  BY <1>3, <2>1 DEF TypeOK, DeleteCr, WriteCr
<1>4. ASSUME NEW o \in Objects, RemoveObject(o) PROVE TypeOK'
  BY <1>4, BlankTypes DEF TypeOK, RemoveObject, WriteObject, OutdateCopy, Holds
<1>5. ASSUME NEW o \in Objects, PodsChange(o) PROVE TypeOK'
  <2>1. PICK n \in 0..MaxReady : WriteObject(o, [obj[o] EXCEPT !.ready = n])
    BY <1>5 DEF PodsChange
  <2>2. obj[o] \in Object /\ n \in Nat
    BY ConstantsAssumption DEF TypeOK
  <2>3. [obj[o] EXCEPT !.ready = n] \in Object
    BY <2>2 DEF Object
  <2>. QED  BY <1>5, <2>1, <2>3 DEF TypeOK, PodsChange, WriteObject, OutdateCopy, Holds
<1>6. CASE Settle
  BY <1>6 DEF TypeOK, Settle
<1>7. ASSUME NEW c \in CR, SyncCr(c) PROVE TypeOK'
  BY <1>7 DEF TypeOK, SyncCr
<1>8. ASSUME NEW o \in Objects, SyncObject(o) PROVE TypeOK'
  BY <1>8 DEF TypeOK, SyncObject
<1>9. ASSUME NEW c \in CR, StartPass(c) PROVE TypeOK'
  <2>1. InitialStatus \in Status
    BY BlankTypes
  <2>2. crCache[c] \in CrRecord
    BY DEF TypeOK
  <2>. QED  BY <1>9, <2>1, <2>2 DEF TypeOK, StartPass
<1>10. CASE FinishPass
  BY <1>10, ReturnType, RequeueType DEF TypeOK, FinishPass
<1>11. ASSUME NEW item \in Item, CreateMissing(item), Visiting(item) PROVE TypeOK'
  <2>1. item \in Role => inst.spec[item] \in Nat
    BY DEF TypeOK, CrRecord
  <2>2. NewObject(item) \in Object
    BY <2>1 DEF NewObject, TypeOK, Object, CrRecord
  <2>3. CASE WriteObject(Visited, NewObject(item)) /\ NextChild
    BY <1>11, <2>2, <2>3, NextChildType DEF TypeOK, CreateMissing, WriteObject
  <2>4. CASE ReturnAndRequeue /\ UNCHANGED <<obj, objFresh>>
    BY <1>11, <2>4, ReturnType, RequeueType DEF TypeOK, CreateMissing
  <2>. QED  BY <1>11, <2>3, <2>4 DEF CreateMissing
<1>12. ASSUME NEW item \in Item, ReconcilePlain(item) PROVE TypeOK'
  <2>1. CASE CreateMissing(item)
    BY <1>11, <1>12, <2>1 DEF ReconcilePlain
  <2>2. CASE NextChild /\ UNCHANGED <<apiVars, cacheVars, quiet, asked>>
    BY <2>2, NextChildType DEF TypeOK
  <2>. QED  BY <1>12, <2>1, <2>2 DEF ReconcilePlain
<1>13. ASSUME NEW role \in Role, ReconcileWorkload(role) PROVE TypeOK'
  <2>1. Visiting(role) /\ role \in Item
    BY <1>13 DEF ReconcileWorkload, Visiting, Item, TypeOK
  <2>2. CASE CreateMissing(role)
    BY <1>11, <2>1, <2>2
  <2>3. CASE ~CreateMissing(role)
    <3>1. objCache[Visited] \in Object /\ objFresh[Visited] \in BOOLEAN
      BY <2>1, VisitedIsObject DEF Visiting, TypeOK
    <3>. QED  BY <1>13, <2>3, <3>1 DEF TypeOK, ReconcileWorkload
  <2>. QED  BY <2>2, <2>3
<1>14. ASSUME NEW role \in Role, UpdateReadyCount(role) PROVE TypeOK'
  <2>1. [crCache[key].status EXCEPT !.count[role] = copy.ready] \in Status
    BY <1>14 DEF TypeOK, CrRecord, Status, Object
  <2>. QED  BY <1>14, <2>1 DEF TypeOK, UpdateReadyCount
<1>15. CASE UpdateStatus
  <2>1. WithHealth(newStatus, crCache[key].spec) \in Status
    BY WithHealthType DEF TypeOK, CrRecord
  <2>2. [crCache[key] EXCEPT !.status = WithHealth(newStatus, crCache[key].spec)] \in CrRecord
    BY <2>1 DEF TypeOK, CrRecord
  <2>3. /\ cr' \in [CR -> CrRecord] /\ crFresh' \in [CR -> BOOLEAN]
        /\ UNCHANGED <<obj, crCache, objCache, objFresh, quiet, asked>>
    BY <1>15, <2>2 DEF TypeOK, UpdateStatus, ReplaceInstance, WriteCr
  <2>4. CASE ReturnAndRequeue
    BY <2>3, <2>4, ReturnType, RequeueType DEF TypeOK
  <2>5. CASE pc' = "scale" /\ newStatus' = NoStatus /\ UNCHANGED <<key, idx, inst, copy, copyFresh, pending>>
    BY <2>3, <2>5, BlankTypes DEF TypeOK
  <2>. QED  BY <1>15, <2>4, <2>5 DEF UpdateStatus, StatusDone
<1>16. ASSUME NEW role \in Role, Scale(role) PROVE TypeOK'
  <2>1. [copy EXCEPT !.replicas = inst.spec[role], !.gen = inst.gen] \in Object
    BY DEF TypeOK, CrRecord, Object
  <2>2. /\ obj' \in [Objects -> Object] /\ objFresh' \in [Objects -> BOOLEAN]
        /\ UNCHANGED <<cr, crCache, crFresh, objCache, quiet, asked>>
    BY <1>16, <2>1 DEF TypeOK, Scale, WriteObject
  <2>3. CASE NextChild
    BY <2>2, <2>3, NextChildType DEF TypeOK
  <2>4. CASE ReturnAndRequeue
    BY <2>2, <2>4, ReturnType, RequeueType DEF TypeOK
  <2>. QED  BY <1>16, <2>3, <2>4 DEF Scale
<1>17. CASE PassError
  BY <1>17, ReturnType, RequeueType DEF TypeOK, PassError
<1>18. CASE Restart
  BY <1>18, ReturnType DEF TypeOK, Restart
<1>19. CASE UNCHANGED vars
  BY <1>19 DEF TypeOK, vars
<1>20. CASE Environment
  BY <1>20, <1>1, <1>2, <1>3, <1>4, <1>5, <1>6, <1>17, <1>18 DEF Environment, DeleteChild
<1>21. CASE PassStep
  BY <1>21, <1>10, <1>12, <1>13, <1>14, <1>15, <1>16
     DEF PassStep, ReconcileDeployment, ReconcileStatefulSet, UpdateTeReadyCount,
         UpdateSmReadyCount, Role
<1>. QED
  BY <1>4, <1>7, <1>8, <1>9, <1>19, <1>20, <1>21 DEF Next, GarbageCollect

\* Every variable keeps its type, whatever users, pods, informers and failures do.
THEOREM TypeCorrect == Spec => []TypeOK
<1>1. Init => TypeOK
  <2> SUFFICES ASSUME Init PROVE TypeOK
    OBVIOUS
  <2>1. /\ NoCr(0) \in CrRecord /\ NoObject \in Object /\ NoStatus \in Status
        /\ <<>> \in Seq([Role -> Nat])
    BY BlankTypes
  <2>. QED  BY <2>1 DEF Init, TypeOK
<1>. QED  BY <1>1, TypeStep, PTL DEF Spec

-----------------------------------------------------------------------------
(***************************************************************************)
(* The inductive invariant behind FollowsRequests.  A request travels from *)
(* the server to the cache, from the cache to the snapshot of a pass, and  *)
(* from the snapshot to the workload.  At every stage the copy is one of   *)
(* the requests made, and no stage is ahead of the one before.             *)
(***************************************************************************)
InVisit == idx # 0 /\ pc \in {"readyCount", "updateStatus", "scale"}

PassShape == /\ pc = "idle" => idx = 0
             /\ pc \in {"visit", "readyCount", "scale"} => idx # 0

FreshCopies == /\ \A c \in CR : crFresh[c] => crCache[c] = cr[c]
               /\ \A o \in Objects : objFresh[o] => objCache[o] = obj[o]

HeldCopy == InVisit => /\ idx \in DOMAIN Manifest[key] /\ Manifest[key][idx] \in Role
                       /\ copy.exists
                       /\ copyFresh => copy = obj[Visited]

ServerSpec == \A c \in CR : /\ cr[c].gen = Len(asked[c])
                            /\ cr[c].exists => /\ cr[c].gen # 0
                                               /\ cr[c].spec = asked[c][cr[c].gen]

CachedSpec == \A c \in CR : /\ crCache[c].gen <= Len(asked[c])
                            /\ crCache[c].exists => /\ crCache[c].gen # 0
                                                    /\ crCache[c].spec = asked[c][crCache[c].gen]

SnapshotSpec == idx # 0 => /\ inst.gen # 0 /\ inst.gen <= crCache[key].gen
                           /\ inst.spec = asked[key][inst.gen]

AppliedSpec ==
  \A c \in CR, r \in Role : <<c, r>> \in Objects =>
    LET w == obj[<<c, r>>] IN
    /\ ~w.exists => w.gen = 0 /\ w.replicas = 0
    /\ w.exists => /\ w.gen # 0 /\ w.gen <= crCache[c].gen
                   /\ w.replicas = asked[c][w.gen][r]
                   /\ key = c /\ idx # 0 => w.gen <= inst.gen

RequestInv == /\ TypeOK /\ PassShape /\ FreshCopies /\ HeldCopy
              /\ ServerSpec /\ CachedSpec /\ SnapshotSpec /\ AppliedSpec

\* The numbers that are compared are natural numbers.
LEMMA GenTypes ==
  ASSUME TypeOK
  PROVE  /\ \A c \in CR : /\ cr[c].gen \in Nat /\ crCache[c].gen \in Nat
                         /\ Len(asked[c]) \in Nat
         /\ \A o \in Objects : obj[o].gen \in Nat
         /\ inst.gen \in Nat /\ key \in CR /\ idx \in Nat
<1>1. \A c \in CR : cr[c] \in CrRecord /\ crCache[c] \in CrRecord /\ asked[c] \in Seq([Role -> Nat])
  BY DEF TypeOK
<1>2. \A o \in Objects : obj[o] \in Object
  BY DEF TypeOK
<1>3. inst \in CrRecord /\ key \in CR /\ idx \in Nat
  BY DEF TypeOK
<1>. QED  BY <1>1, <1>2, <1>3 DEF CrRecord, Object

LEMMA RequestInit == Init => RequestInv
<1> SUFFICES ASSUME Init PROVE RequestInv
  OBVIOUS
<1>1. TypeOK
  <2>1. /\ NoCr(0) \in CrRecord /\ NoObject \in Object /\ NoStatus \in Status
        /\ <<>> \in Seq([Role -> Nat])
    BY BlankTypes
  <2>. QED  BY <2>1 DEF Init, TypeOK
<1>2. ServerSpec /\ CachedSpec
  BY DEF Init, ServerSpec, CachedSpec, NoCr
<1>3. AppliedSpec
  BY DEF Init, AppliedSpec, NoObject
<1>. QED
  BY <1>1, <1>2, <1>3 DEF Init, RequestInv, PassShape, FreshCopies, HeldCopy, SnapshotSpec, InVisit

\* A request, once made, keeps its place.
LEMMA AskedGrows ==
  ASSUME TypeOK, NEW c \in CR, NEW instance, NEW spec \in [Role -> Nat], Ask(c, instance, spec)
  PROVE  /\ Len(asked'[c]) = Len(asked[c]) + 1
         /\ asked'[c][Len(asked[c]) + 1] = spec
         /\ \A d \in CR : d # c => asked'[d] = asked[d]
         /\ \A d \in CR : Len(asked[d]) <= Len(asked'[d])
         /\ \A d \in CR : \A k \in 1..Len(asked[d]) : asked'[d][k] = asked[d][k]
BY DEF TypeOK, Ask

LEMMA AskInv ==
  ASSUME RequestInv, TypeOK', NEW c \in CR, NEW instance \in CrRecord, instance.gen = cr[c].gen,
         NEW spec \in [Role -> Nat], Ask(c, instance, spec)
  PROVE  RequestInv'
<1> USE DEF RequestInv, UserVars, passVars
<1>1. PassShape' /\ HeldCopy'
  BY DEF Ask, PassShape, HeldCopy, InVisit, Visited
<1>2. FreshCopies'
  BY DEF Ask, WriteCr, FreshCopies, TypeOK
<1>3. /\ cr'[c].gen = Len(asked[c]) + 1 /\ cr'[c].spec = spec
      /\ \A d \in CR : d # c => cr'[d] = cr[d]
  BY DEF Ask, WriteCr, TypeOK, CrRecord
<1>4. \A d \in CR : Len(asked[d]) \in Nat /\ Len(asked'[d]) \in Nat
  BY DEF TypeOK
<1>5. ServerSpec'
  BY <1>3, <1>4, AskedGrows DEF ServerSpec
<1>6. \A d \in CR : \A k \in Nat : k # 0 /\ k <= crCache[d].gen
         => k <= Len(asked[d]) /\ k <= Len(asked'[d]) /\ asked'[d][k] = asked[d][k]
  <2> SUFFICES ASSUME NEW d \in CR, NEW k \in Nat, k # 0, k <= crCache[d].gen
               PROVE  k <= Len(asked[d]) /\ k <= Len(asked'[d]) /\ asked'[d][k] = asked[d][k]
    OBVIOUS
  <2>1. k <= Len(asked[d])
    BY <1>4, GenTypes DEF CachedSpec
  <2>2. k \in 1..Len(asked[d])
    BY <2>1, <1>4
  <2>3. Len(asked[d]) <= Len(asked'[d])
    BY AskedGrows
  <2>. QED  BY <2>1, <2>2, <2>3, <1>4, AskedGrows
<1>7. UNCHANGED <<crCache, inst, key, idx, obj>>
  BY DEF Ask
<1>8. CachedSpec'
  <2> SUFFICES ASSUME NEW d \in CR
               PROVE  /\ crCache[d].gen <= Len(asked'[d])
                      /\ crCache[d].exists => /\ crCache[d].gen # 0
                                              /\ crCache[d].spec = asked'[d][crCache[d].gen]
    BY <1>7 DEF CachedSpec
  <2>1. crCache[d].gen <= Len(asked'[d])
    BY <1>4, GenTypes, AskedGrows DEF CachedSpec
  <2>. QED  BY <2>1, <1>6, GenTypes DEF CachedSpec
<1>9. SnapshotSpec'
  BY <1>6, <1>7, GenTypes DEF SnapshotSpec
<1>10. AppliedSpec'
  <2> SUFFICES ASSUME NEW d \in CR, NEW r \in Role, <<d, r>> \in Objects,
                      obj[<<d, r>>].exists
               PROVE  asked'[d][obj[<<d, r>>].gen] = asked[d][obj[<<d, r>>].gen]
    BY <1>7 DEF AppliedSpec
  <2>. QED  BY <1>6, GenTypes DEF AppliedSpec
<1>. QED  BY <1>1, <1>2, <1>5, <1>8, <1>9, <1>10

\* The worker lets go of the pass: only what the pass held has to be checked.
LEMMA ReturnInv ==
  ASSUME RequestInv, TypeOK', Return,
         FreshCopies', ServerSpec', CachedSpec',
         UNCHANGED <<obj, crCache, asked>>
  PROVE  RequestInv'
BY DEF RequestInv, Return, PassShape, HeldCopy, InVisit, SnapshotSpec, AppliedSpec

LEMMA NextChildInv ==
  ASSUME RequestInv, TypeOK', NextChild, idx # 0,
         FreshCopies', AppliedSpec',
         UNCHANGED <<cr, crCache, asked>>
  PROVE  RequestInv'
<1>1. idx' # 0
  BY GenTypes DEF RequestInv, NextChild
<1>. QED
  BY <1>1 DEF RequestInv, NextChild, PassShape, HeldCopy, InVisit, ServerSpec, CachedSpec, SnapshotSpec

LEMMA VisitedWorkload ==
  ASSUME idx \in DOMAIN Manifest[key]
  PROVE  /\ Manifest[key][idx] \in Role => Visited = <<key, Manifest[key][idx]>>
         /\ \A c, r : Visited = <<c, r>> /\ r \in Role
              => c = key /\ r = Manifest[key][idx]
BY DEF Visited, ObjectOf

\* A pass writes a workload from its snapshot.
LEMMA ApplyInv ==
  ASSUME RequestInv, TypeOK', idx \in DOMAIN Manifest[key], idx # 0,
         NEW record \in Object, WriteObject(Visited, record),
         record.exists, record.gen = inst.gen,
         Manifest[key][idx] \in Role => record.replicas = inst.spec[Manifest[key][idx]],
         idx' # 0, UNCHANGED <<crCache, asked, key, inst>>
  PROVE  AppliedSpec'
<1>1. Visited \in Objects /\ TypeOK
  BY VisitedIsObject DEF RequestInv
<1>2. obj' = [obj EXCEPT ![Visited] = record]
  BY DEF WriteObject
<1>3. inst.gen # 0 /\ inst.gen <= crCache[key].gen /\ inst.spec = asked[key][inst.gen] /\ inst.gen \in Nat
  BY <1>1, GenTypes DEF RequestInv, SnapshotSpec
<1> SUFFICES ASSUME NEW c \in CR, NEW r \in Role, <<c, r>> \in Objects
             PROVE  LET w == obj'[<<c, r>>] IN
                    /\ ~w.exists => w.gen = 0 /\ w.replicas = 0
                    /\ w.exists => /\ w.gen # 0 /\ w.gen <= crCache[c].gen
                                   /\ w.replicas = asked[c][w.gen][r]
                                   /\ key = c => w.gen <= inst.gen
  BY DEF AppliedSpec
<1>4. CASE Visited = <<c, r>>
  <2>1. c = key /\ r = Manifest[key][idx]
    BY <1>4, VisitedWorkload
  <2>2. obj'[<<c, r>>] = record
    BY <1>1, <1>2, <1>4 DEF TypeOK
  <2>. QED  BY <1>3, <2>1, <2>2
<1>5. CASE Visited # <<c, r>>
  <2>1. obj'[<<c, r>>] = obj[<<c, r>>]
    BY <1>1, <1>2, <1>5 DEF TypeOK
  <2>. QED  BY <2>1 DEF RequestInv, AppliedSpec
<1>. QED  BY <1>4, <1>5

LEMMA WriteFresh ==
  ASSUME RequestInv, NEW o \in Objects, NEW record, WriteObject(o, record),
         UNCHANGED <<cr, crCache, crFresh, objCache>>
  PROVE  FreshCopies'
BY DEF RequestInv, TypeOK, WriteObject, FreshCopies

LEMMA CreateMissingInv ==
  ASSUME RequestInv, TypeOK', NEW item, CreateMissing(item), Visiting(item)
  PROVE  RequestInv'
<1>1. /\ idx \in DOMAIN Manifest[key] /\ idx # 0 /\ Manifest[key][idx] = item
      /\ Visited \in Objects /\ TypeOK
  BY VisitedIsObject DEF Visiting, RequestInv, PassShape
<1>2. UNCHANGED <<cr, crCache, crFresh, objCache, asked>>
  BY DEF CreateMissing
<1>3. CASE WriteObject(Visited, NewObject(item)) /\ NextChild
  <2>1. item \in Role => inst.spec[item] \in Nat
    BY <1>1 DEF TypeOK, CrRecord
  <2>2. NewObject(item) \in Object
    BY <1>1, <2>1 DEF NewObject, TypeOK, Object, CrRecord
  <2>3. /\ NewObject(item).exists /\ NewObject(item).gen = inst.gen
        /\ item \in Role => NewObject(item).replicas = inst.spec[item]
    BY DEF NewObject
  <2>4. idx' # 0 /\ UNCHANGED <<key, inst>>
    BY <1>1, <1>3, GenTypes DEF NextChild
  <2>5. AppliedSpec'
    BY <1>1, <1>2, <1>3, <2>2, <2>3, <2>4, ApplyInv
  <2>6. FreshCopies'
    BY <1>1, <1>2, <1>3, WriteFresh
  <2>. QED  BY <1>1, <1>2, <1>3, <2>5, <2>6, NextChildInv
<1>4. CASE ReturnAndRequeue /\ UNCHANGED <<obj, objFresh>>
  BY <1>2, <1>4, ReturnInv DEF ReturnAndRequeue, RequestInv, FreshCopies, ServerSpec, CachedSpec
<1>. QED  BY <1>3, <1>4 DEF CreateMissing

LEMMA RequestStep == RequestInv /\ [Next]_vars => RequestInv'
<1> SUFFICES ASSUME RequestInv, [Next]_vars PROVE RequestInv'
  OBVIOUS
<1>a. TypeOK /\ TypeOK'
  BY TypeStep DEF RequestInv
<1> USE DEF apiVars, cacheVars, passVars, UserVars
<1>1. ASSUME NEW c \in CR, CreateCr(c) PROVE RequestInv'
  <2>1. PICK spec \in Requests :
          Ask(c, [cr[c] EXCEPT !.exists = TRUE, !.uid = Len(asked[c]) + 1], spec)
    BY <1>1 DEF CreateCr
  <2>2. spec \in [Role -> Nat]
    BY ConstantsAssumption
  <2>3. Len(asked[c]) + 1 \in Nat /\ cr[c] \in CrRecord
    BY <1>a DEF TypeOK
  <2>4. /\ [cr[c] EXCEPT !.exists = TRUE, !.uid = Len(asked[c]) + 1] \in CrRecord
        /\ [cr[c] EXCEPT !.exists = TRUE, !.uid = Len(asked[c]) + 1].gen = cr[c].gen
    BY <2>3 DEF CrRecord
  <2>. QED  BY <1>a, <2>1, <2>2, <2>4, AskInv
<1>2. ASSUME NEW c \in CR, EditSpec(c) PROVE RequestInv'
  <2>1. PICK spec \in Requests : Ask(c, cr[c], spec)
    BY <1>2 DEF EditSpec
  <2>2. spec \in [Role -> Nat] /\ cr[c] \in CrRecord
    BY <1>a, ConstantsAssumption DEF TypeOK
  <2>. QED  BY <1>a, <2>1, <2>2, AskInv
<1>3. ASSUME NEW c \in CR, DeleteCr(c) PROVE RequestInv'
  <2>1. FreshCopies' /\ ServerSpec'
    BY <1>a, <1>3 DEF RequestInv, DeleteCr, WriteCr, NoCr, FreshCopies, ServerSpec, TypeOK
  <2>. QED
    BY <1>a, <1>3, <2>1 DEF RequestInv, DeleteCr, PassShape, HeldCopy, InVisit, Visited,
       CachedSpec, SnapshotSpec, AppliedSpec
<1>4. ASSUME NEW o \in Objects, RemoveObject(o) PROVE RequestInv'
  <2>1. FreshCopies'
    BY <1>a, <1>4 DEF RequestInv, RemoveObject, WriteObject, FreshCopies, TypeOK
  <2>2. HeldCopy'
    <3> SUFFICES ASSUME InVisit' PROVE HeldCopy'
      BY DEF HeldCopy
    <3>1. /\ InVisit /\ Visited' = Visited
          /\ UNCHANGED <<key, idx, copy>> /\ obj' = [obj EXCEPT ![o] = NoObject]
          /\ copyFresh' => copyFresh /\ Visited # o
      BY <1>4 DEF RemoveObject, WriteObject, OutdateCopy, Holds, InVisit, Visited
    <3>2. Visited \in Objects
      BY <1>a, <3>1, VisitedIsObject DEF RequestInv, HeldCopy
    <3>3. copyFresh' => copy = obj'[Visited]
      BY <1>a, <3>1, <3>2 DEF RequestInv, HeldCopy, TypeOK
    <3>. QED  BY <3>1, <3>3 DEF RequestInv, HeldCopy
  <2>3. AppliedSpec'
    BY <1>a, <1>4 DEF RequestInv, RemoveObject, WriteObject, NoObject, AppliedSpec, TypeOK
  <2>. QED
    BY <1>a, <1>4, <2>1, <2>2, <2>3 DEF RequestInv, RemoveObject, PassShape, ServerSpec,
       CachedSpec, SnapshotSpec
<1>5. ASSUME NEW o \in Objects, PodsChange(o) PROVE RequestInv'
  <2>1. PICK n \in 0..MaxReady : WriteObject(o, [obj[o] EXCEPT !.ready = n])
    BY <1>5 DEF PodsChange
  <2>2. FreshCopies'
    BY <1>a, <1>5, <2>1 DEF RequestInv, PodsChange, WriteObject, FreshCopies, TypeOK
  <2>3. HeldCopy'
    BY <1>a, <1>5, <2>1 DEF RequestInv, PodsChange, WriteObject, OutdateCopy, Holds, HeldCopy, InVisit,
       Visited, TypeOK
  <2>4. \A p \in Objects : /\ obj'[p].exists = obj[p].exists /\ obj'[p].gen = obj[p].gen
                           /\ obj'[p].replicas = obj[p].replicas
    BY <1>a, <2>1 DEF WriteObject, TypeOK, Object
  <2>5. AppliedSpec'
    BY <1>a, <1>5, <2>4 DEF RequestInv, PodsChange, AppliedSpec
  <2>. QED
    BY <1>a, <1>5, <2>2, <2>3, <2>5 DEF RequestInv, PodsChange, PassShape, ServerSpec,
       CachedSpec, SnapshotSpec
<1>6. CASE Settle
  BY <1>a, <1>6 DEF Settle, RequestInv, PassShape, FreshCopies, HeldCopy, InVisit, Visited,
     ServerSpec, CachedSpec, SnapshotSpec, AppliedSpec
<1>7. ASSUME NEW c \in CR, SyncCr(c) PROVE RequestInv'
  <2>1. crCache[c].gen <= crCache'[c].gen
    BY <1>a, <1>7 DEF RequestInv, SyncCr, ServerSpec, CachedSpec, TypeOK
  <2>2. \A d \in CR : d # c => crCache'[d] = crCache[d]
    BY <1>a, <1>7 DEF SyncCr, TypeOK
  <2>3. \A d \in CR : crCache[d].gen \in Nat /\ crCache'[d].gen \in Nat
    BY <1>a DEF TypeOK, CrRecord
  <2>4. CachedSpec' /\ FreshCopies'
    BY <1>a, <1>7 DEF RequestInv, SyncCr, ServerSpec, CachedSpec, FreshCopies, TypeOK
  <2>5. SnapshotSpec'
    BY <1>a, <1>7, <2>1, <2>2, <2>3 DEF RequestInv, SyncCr, SnapshotSpec, TypeOK, CrRecord
  <2>6. AppliedSpec'
    <3> SUFFICES ASSUME NEW d \in CR, NEW r \in Role, <<d, r>> \in Objects,
                        obj[<<d, r>>].exists
                 PROVE  obj[<<d, r>>].gen <= crCache'[d].gen
      BY <1>7 DEF RequestInv, SyncCr, AppliedSpec
    <3>1. obj[<<d, r>>].gen <= crCache[d].gen
      BY DEF RequestInv, AppliedSpec
    <3>2. crCache[d].gen <= crCache'[d].gen
      BY <2>1, <2>2, <2>3
    <3>. QED  BY <1>a, <3>1, <3>2, <2>3, GenTypes
  <2>. QED
    BY <1>a, <1>7, <2>4, <2>5, <2>6 DEF RequestInv, SyncCr, PassShape, HeldCopy, InVisit, Visited,
       ServerSpec
<1>8. ASSUME NEW o \in Objects, SyncObject(o) PROVE RequestInv'
  <2>1. FreshCopies'
    BY <1>a, <1>8 DEF RequestInv, SyncObject, FreshCopies, TypeOK
  <2>. QED
    BY <1>a, <1>8, <2>1 DEF RequestInv, SyncObject, PassShape, HeldCopy, InVisit, Visited,
       ServerSpec, CachedSpec, SnapshotSpec, AppliedSpec
<1>9. ASSUME NEW c \in CR, StartPass(c) PROVE RequestInv'
  <2>1. FreshCopies' /\ ServerSpec' /\ CachedSpec'
    BY <1>a, <1>9 DEF RequestInv, StartPass, FreshCopies, ServerSpec, CachedSpec
  <2>2. idx = 0
    BY <1>9 DEF RequestInv, StartPass, PassShape
  <2>3. CASE idx' = 0 /\ pc' \in {"idle", "updateStatus"}
    BY <1>a, <1>9, <2>1, <2>3 DEF RequestInv, StartPass, PassShape, HeldCopy, InVisit,
       SnapshotSpec, AppliedSpec
  <2>4. CASE pc' = "visit" /\ idx' = 1 /\ inst' = crCache[c] /\ crCache[c].exists
    <3>1. SnapshotSpec'
      <4>1. key' = c /\ UNCHANGED <<crCache, asked>>
        BY <1>9 DEF StartPass
      <4>2. /\ crCache[c].gen # 0 /\ crCache[c].gen <= crCache[c].gen
            /\ crCache[c].spec = asked[c][crCache[c].gen]
        BY <1>a, <2>4, GenTypes DEF RequestInv, CachedSpec
      <4>. QED  BY <2>4, <4>1, <4>2 DEF SnapshotSpec
    <3>2. AppliedSpec'
      BY <1>a, <1>9, <2>4 DEF RequestInv, StartPass, AppliedSpec
    <3>. QED
      BY <1>a, <1>9, <2>1, <2>4, <3>1, <3>2 DEF RequestInv, PassShape, HeldCopy, InVisit
  <2>. QED  BY <1>9, <2>2, <2>3, <2>4 DEF StartPass
<1>10. CASE FinishPass
  BY <1>a, <1>10, ReturnInv DEF FinishPass, ReturnAndRequeue, RequestInv, FreshCopies, ServerSpec,
     CachedSpec
<1>11. ASSUME NEW item \in Item, ReconcilePlain(item) PROVE RequestInv'
  <2>1. CASE CreateMissing(item)
    BY <1>a, <1>11, <2>1, CreateMissingInv DEF ReconcilePlain
  <2>2. CASE NextChild /\ UNCHANGED <<apiVars, cacheVars, quiet, asked>>
    <3>1. idx # 0
      BY <1>11 DEF ReconcilePlain, Visiting, RequestInv, PassShape
    <3>2. idx' # 0
      BY <1>a, <2>2, <3>1, GenTypes DEF NextChild
    <3>3. FreshCopies' /\ AppliedSpec'
      BY <2>2, <3>1, <3>2 DEF RequestInv, NextChild, FreshCopies, AppliedSpec
    <3>. QED  BY <1>a, <2>2, <3>1, <3>3, NextChildInv
  <2>. QED  BY <1>11, <2>1, <2>2 DEF ReconcilePlain
<1>12. ASSUME NEW role \in Role, ReconcileWorkload(role) PROVE RequestInv'
  <2>1. Visiting(role) /\ idx # 0
    BY <1>12 DEF ReconcileWorkload, Visiting, RequestInv, PassShape
  <2>2. CASE CreateMissing(role)
    BY <1>a, <2>1, <2>2, CreateMissingInv
  <2>3. CASE /\ objCache[Visited].exists
             /\ pc' = "readyCount" /\ copy' = objCache[Visited] /\ copyFresh' = objFresh[Visited]
             /\ UNCHANGED <<apiVars, cacheVars, key, idx, inst, newStatus, pending, quiet, asked>>
    <3>1. Visited \in Objects /\ Visited' = Visited /\ Manifest[key][idx] = role
      BY <1>a, <2>1, <2>3, VisitedIsObject DEF Visiting, Visited
    <3>2. HeldCopy'
      BY <2>1, <2>3, <3>1 DEF Visiting, RequestInv, FreshCopies, HeldCopy
    <3>. QED
      BY <1>a, <2>1, <2>3, <3>2 DEF RequestInv, PassShape, FreshCopies, ServerSpec, CachedSpec,
         SnapshotSpec, AppliedSpec
  <2>. QED  BY <1>12, <2>2, <2>3 DEF ReconcileWorkload
<1>13. ASSUME NEW role \in Role, UpdateReadyCount(role) PROVE RequestInv'
  BY <1>a, <1>13 DEF UpdateReadyCount, RequestInv, PassShape, FreshCopies, HeldCopy, InVisit, Visited,
     ServerSpec, CachedSpec, SnapshotSpec, AppliedSpec
<1>14. CASE UpdateStatus
  <2> DEFINE status == WithHealth(newStatus, crCache[key].spec)
  <2>1. UNCHANGED <<obj, crCache, objCache, objFresh, asked>>
    BY <1>14 DEF UpdateStatus
  <2>2. FreshCopies' /\ ServerSpec'
    <3>1. CASE UNCHANGED <<cr, crFresh>>
      BY <2>1, <3>1 DEF RequestInv, FreshCopies, ServerSpec
    <3>2. CASE ReplaceInstance(status)
      <4>1. /\ cr[key] = crCache[key] /\ key \in CR
            /\ cr' = [cr EXCEPT ![key] = [crCache[key] EXCEPT !.status = status]]
            /\ crFresh' = [crFresh EXCEPT ![key] = FALSE]
        BY <1>a, <3>2 DEF ReplaceInstance, WriteCr, RequestInv, FreshCopies, TypeOK
      <4>2. cr[key] \in CrRecord
        BY <1>a, <4>1 DEF TypeOK
      <4>3. \A c \in CR : /\ cr'[c].gen = cr[c].gen /\ cr'[c].exists = cr[c].exists
                          /\ cr'[c].spec = cr[c].spec
        BY <1>a, <4>1, <4>2 DEF TypeOK, CrRecord
      <4>4. ServerSpec'
        BY <2>1, <4>3 DEF RequestInv, ServerSpec
      <4>5. FreshCopies'
        BY <1>a, <2>1, <4>1 DEF RequestInv, FreshCopies, TypeOK
      <4>. QED  BY <4>4, <4>5
    <3>. QED  BY <1>14, <3>1, <3>2 DEF UpdateStatus
  <2>3. CachedSpec'
    BY <2>1 DEF RequestInv, CachedSpec
  <2>4. CASE ReturnAndRequeue
    BY <1>a, <2>1, <2>2, <2>3, <2>4, ReturnInv DEF ReturnAndRequeue
  <2>5. CASE /\ pc = "updateStatus" /\ idx # 0 /\ pc' = "scale" /\ newStatus' = NoStatus
             /\ UNCHANGED <<key, idx, inst, copy, copyFresh, pending>>
    BY <1>a, <2>1, <2>2, <2>3, <2>5 DEF RequestInv, PassShape, HeldCopy, InVisit, Visited, SnapshotSpec,
       AppliedSpec
  <2>. QED  BY <1>14, <2>4, <2>5 DEF UpdateStatus, StatusDone
<1>15. ASSUME NEW role \in Role, Scale(role) PROVE RequestInv'
  <2>1. /\ idx \in DOMAIN Manifest[key] /\ idx # 0 /\ Manifest[key][idx] = role
        /\ copy.exists /\ Visited \in Objects
    BY <1>a, <1>15, VisitedIsObject DEF Scale, RequestInv, PassShape, HeldCopy, InVisit
  <2>2. UNCHANGED <<cr, crCache, crFresh, objCache, quiet, asked>>
    BY <1>15 DEF Scale
  <2>3. CASE NextChild /\ UNCHANGED <<obj, objFresh>>
    <3>1. idx' # 0
      BY <1>a, <2>1, <2>3, GenTypes DEF NextChild
    <3>2. FreshCopies' /\ AppliedSpec'
      BY <2>1, <2>2, <2>3, <3>1 DEF RequestInv, NextChild, FreshCopies, AppliedSpec
    <3>. QED  BY <1>a, <2>1, <2>2, <2>3, <3>2, NextChildInv
  <2>4. CASE /\ NextChild
             /\ WriteObject(Visited, [copy EXCEPT !.replicas = inst.spec[role], !.gen = inst.gen])
    <3> DEFINE record == [copy EXCEPT !.replicas = inst.spec[role], !.gen = inst.gen]
    <3>1. copy \in Object /\ inst.spec[role] \in Nat /\ inst.gen \in Nat
      BY <1>a DEF TypeOK, CrRecord
    <3>2. /\ record \in Object /\ record.exists /\ record.gen = inst.gen
          /\ record.replicas = inst.spec[role]
      BY <2>1, <3>1 DEF Object
    <3>3. idx' # 0 /\ UNCHANGED <<key, inst>>
      BY <1>a, <2>1, <2>4, GenTypes DEF NextChild
    <3>4. AppliedSpec'
      BY <1>a, <2>1, <2>2, <2>4, <3>2, <3>3, ApplyInv
    <3>5. FreshCopies'
      BY <2>1, <2>2, <2>4, WriteFresh
    <3>. QED  BY <1>a, <2>1, <2>2, <2>4, <3>4, <3>5, NextChildInv
  <2>5. CASE ReturnAndRequeue /\ UNCHANGED <<obj, objFresh>>
    BY <1>a, <2>2, <2>5, ReturnInv DEF ReturnAndRequeue, RequestInv, FreshCopies, ServerSpec, CachedSpec
  <2>. QED  BY <1>15, <2>3, <2>4, <2>5 DEF Scale
<1>17. CASE PassError
  BY <1>a, <1>17, ReturnInv DEF PassError, ReturnAndRequeue, RequestInv, FreshCopies, ServerSpec,
     CachedSpec
<1>18. CASE Restart
  <2>1. \A c \in CR : crCache[c].gen <= crCache'[c].gen
    BY <1>a, <1>18 DEF RequestInv, Restart, ServerSpec, CachedSpec, TypeOK
  <2>2. \A c \in CR : crCache[c].gen \in Nat /\ crCache'[c].gen \in Nat
    BY <1>a DEF TypeOK, CrRecord
  <2>3. CachedSpec' /\ FreshCopies' /\ ServerSpec'
    BY <1>a, <1>18 DEF RequestInv, Restart, ServerSpec, CachedSpec, FreshCopies, TypeOK
  <2>4. AppliedSpec'
    <3> SUFFICES ASSUME NEW d \in CR, NEW r \in Role, <<d, r>> \in Objects,
                        obj[<<d, r>>].exists
                 PROVE  obj[<<d, r>>].gen <= crCache'[d].gen
      BY <1>18 DEF RequestInv, Restart, Return, AppliedSpec
    <3>1. obj[<<d, r>>].gen <= crCache[d].gen
      BY DEF RequestInv, AppliedSpec
    <3>. QED  BY <1>a, <3>1, <2>1, <2>2, GenTypes
  <2>. QED
    BY <1>a, <1>18, <2>3, <2>4 DEF RequestInv, Restart, Return, PassShape, HeldCopy, InVisit,
       SnapshotSpec
<1>19. CASE UNCHANGED vars
  BY <1>a, <1>19 DEF vars, RequestInv, PassShape, FreshCopies, HeldCopy, InVisit, Visited,
     ServerSpec, CachedSpec, SnapshotSpec, AppliedSpec
<1>20. CASE Environment
  BY <1>20, <1>1, <1>2, <1>3, <1>4, <1>5, <1>6, <1>17, <1>18 DEF Environment, DeleteChild
<1>21. CASE PassStep
  BY <1>21, <1>10, <1>11, <1>12, <1>13, <1>14, <1>15
     DEF PassStep, ReconcileDeployment, ReconcileStatefulSet, UpdateTeReadyCount,
         UpdateSmReadyCount, Role
<1>. QED
  BY <1>4, <1>7, <1>8, <1>9, <1>19, <1>20, <1>21 DEF Next, GarbageCollect

LEMMA RequestInvariant == Spec => []RequestInv
BY RequestInit, RequestStep, PTL DEF Spec

-----------------------------------------------------------------------------
(***************************************************************************)
(* The controller implements ReplicaRequests.                              *)
(***************************************************************************)
LEMMA WorkloadShape ==
  \A w \in Workload : /\ w \in Objects /\ w[1] \in CR /\ w[2] \in Role
                      /\ w = <<w[1], w[2]>>
<1> SUFFICES ASSUME NEW w \in Workload
             PROVE  /\ w \in Objects /\ w[1] \in CR /\ w[2] \in Role
                    /\ w = <<w[1], w[2]>>
  OBVIOUS
<1>1. PICK c \in CR : \E i \in DOMAIN Manifest[c] : w = ObjectOf(c, Manifest[c][i])
  BY DEF Workload, Objects
<1>2. PICK i \in DOMAIN Manifest[c] : w = ObjectOf(c, Manifest[c][i])
  BY <1>1
<1>3. w[2] \in Role /\ w \in Objects
  BY DEF Workload
<1>4. CASE Manifest[c][i] \in Role
  BY <1>2, <1>3, <1>4 DEF ObjectOf
<1>5. CASE Manifest[c][i] \notin Role
  BY <1>2, <1>3, <1>5 DEF ObjectOf
<1>. QED  BY <1>4, <1>5

\* A step that changes no spec, no workload's existence or replicas, is a stutter.
LEMMA Stutter ==
  ASSUME TypeOK, UNCHANGED asked,
         \A c \in CR : cr'[c].spec = cr[c].spec,
         \A w \in Workload : obj'[w].gen = obj[w].gen /\ obj'[w].replicas = obj[w].replicas
  PROVE  UNCHANGED Requested!vars
BY DEF Requested!vars

LEMMA AskRefines ==
  ASSUME TypeOK, NEW c \in CR, NEW instance \in CrRecord, NEW counts \in [Role -> Nat],
         Ask(c, instance, counts)
  PROVE  Requested!Ask(c)
<1>1. /\ cr' = [cr EXCEPT ![c] = [instance EXCEPT !.gen = Len(asked[c]) + 1, !.spec = counts]]
      /\ asked' = [asked EXCEPT ![c] = Append(@, counts)]
      /\ obj' = obj
  BY DEF Ask, WriteCr, UserVars
<1>2. cr'[c].spec = counts /\ \A d \in CR : d # c => cr'[d].spec = cr[d].spec
  BY <1>1 DEF TypeOK, CrRecord
<1>3. [d \in CR |-> cr'[d].spec] = [[d \in CR |-> cr[d].spec] EXCEPT ![c] = counts]
  BY <1>2
<1>. QED  BY <1>1, <1>2, <1>3 DEF Requested!Ask

LEMMA RemoveRefines ==
  ASSUME TypeOK, NEW o \in Objects, RemoveObject(o)
  PROVE  [Requested!Next]_(Requested!vars)
<1>1. obj' = [obj EXCEPT ![o] = NoObject] /\ UNCHANGED <<cr, asked>>
  BY DEF RemoveObject, WriteObject
<1>2. CASE o \in Workload
  <2>1. \A w \in Workload : obj'[w] = IF w = o THEN NoObject ELSE obj[w]
    BY <1>1, WorkloadShape DEF TypeOK
  <2>2. /\ [w \in Workload |-> obj'[w].gen] = [[w \in Workload |-> obj[w].gen] EXCEPT ![o] = 0]
        /\ [w \in Workload |-> obj'[w].replicas] = [[w \in Workload |-> obj[w].replicas] EXCEPT ![o] = 0]
    <3>1. NoObject.gen = 0 /\ NoObject.replicas = 0
      BY DEF NoObject
    <3>2. \A w \in Workload : /\ obj'[w].gen = IF w = o THEN 0 ELSE obj[w].gen
                              /\ obj'[w].replicas = IF w = o THEN 0 ELSE obj[w].replicas
      BY <2>1, <3>1
    <3>. QED  BY <3>2
  <2>3. Requested!Remove(o)
    BY <1>1, <2>2 DEF Requested!Remove
  <2>. QED  BY <1>2, <2>3 DEF Requested!Next
<1>3. CASE o \notin Workload
  <2>1. \A w \in Workload : obj'[w] = obj[w]
    BY <1>1, <1>3, WorkloadShape DEF TypeOK
  <2>. QED  BY <1>1, <2>1, Stutter
<1>. QED  BY <1>2, <1>3

\* A pass creates or scales the child it visits.
LEMMA WriteRefines ==
  ASSUME RequestInv, idx \in DOMAIN Manifest[key], idx # 0,
         NEW record \in Object, WriteObject(Visited, record), record.gen = inst.gen,
         Manifest[key][idx] \in Role => /\ record.replicas = inst.spec[Manifest[key][idx]]
                                       /\ obj[Visited].gen < inst.gen,
         UNCHANGED <<cr, asked>>
  PROVE  [Requested!Next]_(Requested!vars)
<1>1. TypeOK /\ Visited \in Objects /\ key \in CR
  BY VisitedIsObject DEF RequestInv, TypeOK
<1>2. obj' = [obj EXCEPT ![Visited] = record]
  BY DEF WriteObject
<1>3. CASE Manifest[key][idx] \in Role
  <2> DEFINE role == Manifest[key][idx]
  <2>1. Visited = <<key, role>> /\ Visited \in Workload
    BY <1>1, <1>3, VisitedWorkload DEF Workload
  <2>2. inst.gen \in 1..Len(asked[key]) /\ inst.spec = asked[key][inst.gen]
    <3>1. inst.gen # 0 /\ inst.gen <= crCache[key].gen /\ crCache[key].gen <= Len(asked[key])
      BY <1>1 DEF RequestInv, SnapshotSpec, CachedSpec
    <3>. QED  BY <1>1, <3>1, GenTypes DEF RequestInv, SnapshotSpec
  <2>3. DOMAIN asked[key] = 1..Len(asked[key])
    BY <1>1 DEF TypeOK
  <2>4. \A w \in Workload : obj'[w] = IF w = Visited THEN record ELSE obj[w]
    BY <1>1, <1>2, WorkloadShape DEF TypeOK
  <2>5. /\ [w \in Workload |-> obj'[w].gen]
             = [[w \in Workload |-> obj[w].gen] EXCEPT ![Visited] = inst.gen]
        /\ [w \in Workload |-> obj'[w].replicas]
             = [[w \in Workload |-> obj[w].replicas] EXCEPT ![Visited] = asked[key][inst.gen][role]]
    BY <1>3, <2>2, <2>4
  <2>6. inst.gen > obj[Visited].gen
    BY <1>1, <1>3, GenTypes
  <2>7. Visited[1] = key /\ Visited[2] = role
    BY <2>1
  <2>8. /\ inst.gen \in DOMAIN asked[Visited[1]] /\ inst.gen > obj[Visited].gen
        /\ UNCHANGED <<asked, [c \in CR |-> cr[c].spec]>>
    BY <2>2, <2>3, <2>6, <2>7
  <2>. QED
    <3> DEFINE applied == [w \in Workload |-> obj[w].gen]
               replicas == [w \in Workload |-> obj[w].replicas]
               carried == asked[Visited[1]][inst.gen][Visited[2]]
    <3>1. /\ applied' = [applied EXCEPT ![Visited] = inst.gen]
          /\ replicas' = [replicas EXCEPT ![Visited] = carried]
          /\ inst.gen > applied[Visited]
      BY <2>1, <2>5, <2>7, <2>8
    <3> HIDE DEF carried
    <3>2. \E k \in DOMAIN asked[Visited[1]] :
            /\ k > applied[Visited]
            /\ applied' = [applied EXCEPT ![Visited] = k]
            /\ replicas' = [replicas EXCEPT ![Visited] = asked[Visited[1]][k][Visited[2]]]
      BY <2>8, <3>1 DEF carried
    <3>3. \E w \in Workload : \E k \in DOMAIN asked[w[1]] : Requested!Apply(w, k)
      BY <2>1, <2>8, <3>2 DEF Requested!Apply
    <3>. QED  BY <3>3 DEF Requested!Next
<1>4. CASE Manifest[key][idx] \notin Role
  <2>1. Visited \notin Workload
    BY <1>4 DEF Visited, ObjectOf, Workload
  <2>2. \A w \in Workload : obj'[w] = obj[w]
    BY <1>1, <1>2, <2>1, WorkloadShape DEF TypeOK
  <2>. QED  BY <1>1, <2>2, Stutter
<1>. QED  BY <1>3, <1>4

LEMMA CreateMissingRefines ==
  ASSUME RequestInv, NEW item, CreateMissing(item), Visiting(item)
  PROVE  [Requested!Next]_(Requested!vars)
<1>1. /\ idx \in DOMAIN Manifest[key] /\ idx # 0 /\ Manifest[key][idx] = item
      /\ Visited \in Objects /\ TypeOK
  BY VisitedIsObject DEF Visiting, RequestInv, PassShape
<1>2. UNCHANGED <<cr, asked>>
  BY DEF CreateMissing
<1>3. CASE WriteObject(Visited, NewObject(item)) /\ ~obj[Visited].exists
  <2>1. item \in Role => inst.spec[item] \in Nat
    BY <1>1 DEF TypeOK, CrRecord
  <2>2. NewObject(item) \in Object
    BY <1>1, <2>1 DEF NewObject, TypeOK, Object, CrRecord
  <2>3. /\ NewObject(item).gen = inst.gen
        /\ item \in Role => NewObject(item).replicas = inst.spec[item]
    BY DEF NewObject
  <2>4. item \in Role => obj[Visited].gen < inst.gen
    <3> SUFFICES ASSUME item \in Role PROVE obj[Visited].gen < inst.gen
      OBVIOUS
    <3>1. Visited = <<key, item>> /\ key \in CR
      BY <1>1, VisitedWorkload DEF TypeOK
    <3>2. obj[Visited].gen = 0
      BY <1>1, <1>3, <3>1 DEF RequestInv, AppliedSpec
    <3>. QED  BY <1>1, <3>2, GenTypes DEF RequestInv, SnapshotSpec
  <2>. QED  BY <1>1, <1>2, <1>3, <2>2, <2>3, <2>4, WriteRefines
<1>4. CASE UNCHANGED <<obj, objFresh>>
  BY <1>1, <1>2, <1>4, Stutter
<1>. QED  BY <1>3, <1>4 DEF CreateMissing

LEMMA ScaleRefines ==
  ASSUME RequestInv, NEW role \in Role, Scale(role)
  PROVE  [Requested!Next]_(Requested!vars)
<1>1. /\ idx \in DOMAIN Manifest[key] /\ idx # 0 /\ Manifest[key][idx] = role
      /\ copy.exists /\ Visited \in Objects /\ TypeOK
  BY VisitedIsObject DEF Scale, RequestInv, PassShape, HeldCopy, InVisit
<1>2. UNCHANGED <<cr, asked>>
  BY DEF Scale
<1>3. CASE UNCHANGED <<obj, objFresh>>
  BY <1>1, <1>2, <1>3, Stutter
<1>4. CASE /\ copy.replicas # inst.spec[role] /\ copyFresh
           /\ WriteObject(Visited, [copy EXCEPT !.replicas = inst.spec[role], !.gen = inst.gen])
  <2> DEFINE record == [copy EXCEPT !.replicas = inst.spec[role], !.gen = inst.gen]
  <2>1. copy \in Object /\ inst.spec[role] \in Nat /\ inst.gen \in Nat
    BY <1>1 DEF TypeOK, CrRecord
  <2>2. record \in Object /\ record.gen = inst.gen /\ record.replicas = inst.spec[role]
    BY <2>1 DEF Object
  <2>3. Visited = <<key, role>> /\ key \in CR
    BY <1>1, VisitedWorkload DEF TypeOK
  <2>4. copy = obj[Visited]
    BY <1>1, <1>4 DEF Scale, RequestInv, HeldCopy, InVisit
  <2>5. /\ obj[Visited].gen <= inst.gen
        /\ obj[Visited].replicas = asked[key][obj[Visited].gen][role]
    BY <1>1, <2>3, <2>4 DEF RequestInv, AppliedSpec
  <2>6. inst.spec = asked[key][inst.gen]
    BY <1>1 DEF RequestInv, SnapshotSpec
  <2>7. obj[Visited].gen # inst.gen
    BY <1>4, <2>4, <2>5, <2>6
  <2>8. obj[Visited].gen < inst.gen
    BY <1>1, <2>5, <2>7, GenTypes
  <2>. QED  BY <1>1, <1>2, <1>4, <2>2, <2>8, WriteRefines
<1>. QED  BY <1>3, <1>4 DEF Scale

LEMMA RequestsStep == RequestInv /\ [Next]_vars => [Requested!Next]_(Requested!vars)
<1> SUFFICES ASSUME RequestInv, [Next]_vars PROVE [Requested!Next]_(Requested!vars)
  OBVIOUS
<1>a. TypeOK
  BY DEF RequestInv
<1> USE DEF apiVars, cacheVars, passVars, UserVars
<1>1. ASSUME NEW c \in CR, CreateCr(c) PROVE [Requested!Next]_(Requested!vars)
  <2>1. PICK spec \in Requests :
          Ask(c, [cr[c] EXCEPT !.exists = TRUE, !.uid = Len(asked[c]) + 1], spec)
    BY <1>1 DEF CreateCr
  <2>2. spec \in [Role -> Nat]
    BY ConstantsAssumption
  <2>3. Len(asked[c]) + 1 \in Nat /\ cr[c] \in CrRecord
    BY <1>a DEF TypeOK
  <2>4. [cr[c] EXCEPT !.exists = TRUE, !.uid = Len(asked[c]) + 1] \in CrRecord
    BY <2>3 DEF CrRecord
  <2>. QED  BY <1>a, <2>1, <2>2, <2>4, AskRefines DEF Requested!Next
<1>2. ASSUME NEW c \in CR, EditSpec(c) PROVE [Requested!Next]_(Requested!vars)
  <2>1. PICK spec \in Requests : Ask(c, cr[c], spec)
    BY <1>2 DEF EditSpec
  <2>2. spec \in [Role -> Nat] /\ cr[c] \in CrRecord
    BY <1>a, ConstantsAssumption DEF TypeOK
  <2>. QED  BY <1>a, <2>1, <2>2, AskRefines DEF Requested!Next
<1>3. ASSUME NEW c \in CR, DeleteCr(c) PROVE [Requested!Next]_(Requested!vars)
  <2>1. cr' = [cr EXCEPT ![c] = NoCr(cr[c].gen)] /\ UNCHANGED <<obj, asked>>
    BY <1>3 DEF DeleteCr, WriteCr
  <2>2. \A d \in CR : cr'[d].spec = IF d = c THEN [r \in Role |-> 0] ELSE cr[d].spec
    BY <1>a, <2>1 DEF TypeOK, NoCr
  <2>3. [d \in CR |-> cr'[d].spec]
          = [[d \in CR |-> cr[d].spec] EXCEPT ![c] = [r \in Role |-> 0]]
    BY <2>2
  <2>4. Requested!Withdraw(c)
    BY <2>1, <2>3 DEF Requested!Withdraw, Requested!Nothing
  <2>. QED  BY <2>4 DEF Requested!Next
<1>4. ASSUME NEW o \in Objects, PodsChange(o) PROVE [Requested!Next]_(Requested!vars)
  <2>1. PICK n \in 0..MaxReady : WriteObject(o, [obj[o] EXCEPT !.ready = n])
    BY <1>4 DEF PodsChange
  <2>2. \A w \in Workload : obj'[w].gen = obj[w].gen /\ obj'[w].replicas = obj[w].replicas
    BY <1>a, <2>1, WorkloadShape DEF WriteObject, TypeOK, Object
  <2>3. UNCHANGED <<cr, asked>>
    BY <1>4 DEF PodsChange
  <2>. QED  BY <1>a, <2>2, <2>3, Stutter
<1>5. CASE UpdateStatus
  <2>1. UNCHANGED <<obj, asked>>
    BY <1>5 DEF UpdateStatus
  <2>2. CASE UNCHANGED cr
    BY <1>a, <2>1, <2>2, Stutter
  <2>3. CASE ReplaceInstance(WithHealth(newStatus, crCache[key].spec))
    <3>1. /\ cr[key] = crCache[key] /\ key \in CR /\ cr[key] \in CrRecord
          /\ cr' = [cr EXCEPT ![key] = [crCache[key] EXCEPT
                       !.status = WithHealth(newStatus, crCache[key].spec)]]
      BY <1>a, <2>3 DEF ReplaceInstance, WriteCr, RequestInv, FreshCopies, TypeOK
    <3>2. \A c \in CR : cr'[c].spec = cr[c].spec
      BY <1>a, <3>1 DEF TypeOK, CrRecord
    <3>. QED  BY <1>a, <2>1, <3>2, Stutter
  <2>. QED  BY <1>5, <2>2, <2>3 DEF UpdateStatus
<1>6. ASSUME UNCHANGED <<cr, obj, asked>> PROVE [Requested!Next]_(Requested!vars)
  BY <1>a, <1>6, Stutter
<1>7. ASSUME NEW item \in Item, ReconcilePlain(item) PROVE [Requested!Next]_(Requested!vars)
  BY <1>6, <1>7, CreateMissingRefines DEF ReconcilePlain
<1>8. ASSUME NEW role \in Role, ReconcileWorkload(role) PROVE [Requested!Next]_(Requested!vars)
  BY <1>6, <1>8, CreateMissingRefines DEF ReconcileWorkload
<1>9. CASE Environment
  <2>1. CASE Settle \/ PassError \/ Restart
    BY <1>6, <2>1 DEF Settle, PassError, Restart
  <2>. QED
    BY <1>9, <1>a, <1>1, <1>2, <1>3, <1>4, <2>1, RemoveRefines DEF Environment, DeleteChild
<1>10. CASE PassStep
  <2>1. CASE FinishPass \/ UpdateTeReadyCount \/ UpdateSmReadyCount
    BY <1>6, <2>1 DEF FinishPass, UpdateTeReadyCount, UpdateSmReadyCount, UpdateReadyCount
  <2>. QED
    BY <1>10, <1>5, <1>7, <1>8, <2>1, ScaleRefines
       DEF PassStep, ReconcileDeployment, ReconcileStatefulSet, Role
<1>11. ASSUME NEW c \in CR, SyncCr(c) \/ StartPass(c) PROVE [Requested!Next]_(Requested!vars)
  BY <1>6, <1>11 DEF SyncCr, StartPass
<1>12. ASSUME NEW o \in Objects, GarbageCollect(o) \/ SyncObject(o)
       PROVE  [Requested!Next]_(Requested!vars)
  BY <1>a, <1>6, <1>12, RemoveRefines DEF GarbageCollect, SyncObject
<1>13. CASE UNCHANGED vars
  BY <1>6, <1>13 DEF vars
<1>. QED  BY <1>9, <1>10, <1>11, <1>12, <1>13 DEF Next

\* The spec is the users' and the replicas only follow it forwards: whatever is
\* stale, conflicts, fails or restarts, the controller implements ReplicaRequests.
THEOREM ImplementsRequests == Spec => FollowsRequests
<1>1. Init => Requested!Init
  <2> SUFFICES ASSUME Init PROVE Requested!Init
    OBVIOUS
  <2>1. \A w \in Workload : obj[w] = NoObject
    BY WorkloadShape DEF Init
  <2>2. NoObject.gen = 0 /\ NoObject.replicas = 0
    BY DEF NoObject
  <2>3. \A c \in CR : cr[c].spec = [r \in Role |-> 0]
    BY DEF Init, NoCr
  <2>4. [c \in CR |-> cr[c].spec] = [n \in CR |-> [r \in Role |-> 0]]
    BY <2>3
  <2>5. /\ [w \in Workload |-> obj[w].gen] = [w \in Workload |-> 0]
        /\ [w \in Workload |-> obj[w].replicas] = [w \in Workload |-> 0]
    BY <2>1, <2>2
  <2>. QED  BY <2>4, <2>5 DEF Init, Requested!Init, Requested!Nothing
<1>. QED
  BY <1>1, RequestInvariant, RequestsStep, PTL DEF Spec, FollowsRequests, Requested!Spec

-----------------------------------------------------------------------------
LEMMA WithHealthTwice ==
  ASSUME NEW status \in Status, NEW spec
  PROVE  WithHealth(WithHealth(status, spec), spec) = WithHealth(status, spec)
BY DEF WithHealth, Status

\* A status written by updateStatus shows the lights of the spec on the server at
\* that moment: the copy its spec was taken from is fresh when the write succeeds.
THEOREM LightsAreCurrent == Spec => LightsMatchSpecWhenWritten
<1> DEFINE Current(c) == cr'[c].status # cr[c].status /\ cr'[c].status.init
                           => cr'[c].status = WithHealth(cr'[c].status, cr'[c].spec)
<1>1. RequestInv /\ [Next]_vars => [\A c \in CR : Current(c)]_cr
  <2> SUFFICES ASSUME RequestInv, [Next]_vars, NEW c \in CR, cr' # cr PROVE Current(c)
    OBVIOUS
  <2>a. TypeOK
    BY DEF RequestInv
  <2> USE DEF apiVars, cacheVars, passVars, UserVars
  <2>1. ASSUME NEW d \in CR, NEW instance \in CrRecord, NEW spec,
               Ask(d, instance, spec), instance.status = cr[d].status
        PROVE  Current(c)
    BY <2>a, <2>1 DEF Ask, WriteCr, TypeOK, CrRecord
  <2>2. ASSUME NEW d \in CR, CreateCr(d) \/ EditSpec(d) PROVE Current(c)
    <3>1. /\ Len(asked[d]) + 1 \in Nat /\ cr[d] \in CrRecord
      BY <2>a DEF TypeOK
    <3>2. [cr[d] EXCEPT !.exists = TRUE, !.uid = Len(asked[d]) + 1] \in CrRecord
      BY <3>1 DEF CrRecord
    <3>3. [cr[d] EXCEPT !.exists = TRUE, !.uid = Len(asked[d]) + 1].status = cr[d].status
      BY <3>1 DEF CrRecord
    <3>. QED  BY <2>1, <2>2, <3>1, <3>2, <3>3 DEF CreateCr, EditSpec
  <2>3. ASSUME NEW d \in CR, DeleteCr(d) PROVE Current(c)
    BY <2>a, <2>3 DEF DeleteCr, WriteCr, NoCr, NoStatus, TypeOK
  <2>4. CASE UpdateStatus
    <3> DEFINE status == WithHealth(newStatus, crCache[key].spec)
    <3>1. ReplaceInstance(status)
      BY <2>4 DEF UpdateStatus
    <3>2. /\ cr' = [cr EXCEPT ![key] = [crCache[key] EXCEPT !.status = status]]
          /\ key \in CR /\ crCache[key] \in CrRecord /\ newStatus \in Status
      BY <2>a, <3>1 DEF ReplaceInstance, WriteCr, TypeOK
    <3>3. c = key => cr'[c].status = status /\ cr'[c].spec = crCache[key].spec
      BY <2>a, <3>2 DEF TypeOK, CrRecord
    <3>4. c # key => cr'[c] = cr[c]
      BY <2>a, <3>2 DEF TypeOK
    <3>. QED  BY <3>2, <3>3, <3>4, WithHealthTwice
  <2>. QED
    BY <2>2, <2>3, <2>4 DEF Next, Environment, PassStep, DeleteChild, GarbageCollect, RemoveObject,
       PodsChange, Settle, PassError, Restart, SyncCr, SyncObject, StartPass, FinishPass,
       ReconcilePlain, CreateMissing, ReconcileDeployment, ReconcileStatefulSet, ReconcileWorkload,
       UpdateTeReadyCount, UpdateSmReadyCount, UpdateReadyCount, Scale, vars
<1>. QED
  BY <1>1, RequestInvariant, PTL DEF Spec, LightsMatchSpecWhenWritten

-----------------------------------------------------------------------------
(***************************************************************************)
(* The invariant behind InitialisedOnce.  For the first resource of a name *)
(* the cache is never ahead of the server: initialised there, initialised  *)
(* here.  Only a pass that saw an initialised instance counts ready pods,  *)
(* so while counts are reported no pass can see an uninitialised one.      *)
(***************************************************************************)
NoCounts == [r \in Role |-> 0]

FirstInv(c) ==
  /\ crCache[c].status.init => cr[c].status.init
  /\ cr[c].status.count # NoCounts => cr[c].status.init /\ crCache[c].status.init
  /\ key = c /\ idx # 0 => /\ crCache[c].status.init
                           /\ pc = "updateStatus" => newStatus.init
  /\ key = c /\ idx = 0 /\ pc = "updateStatus" => cr[c].status.count = NoCounts

OnceInv ==
  /\ \A c \in CR : /\ ~cr[c].exists => cr[c].status = NoStatus
                   /\ ~crCache[c].exists => crCache[c].status = NoStatus
                   /\ cr[c].uid = 1 => FirstInv(c)
  /\ pc = "updateStatus" /\ idx = 0 => newStatus = InitialStatus
  /\ asked[key] = <<>> => pc = "idle"

\* Before the first request nothing is known under the name, nor in a cache.
LEMMA BeforeTheFirst ==
  ASSUME RequestInv, NEW c \in CR, asked[c] = <<>>
  PROVE  ~cr[c].exists /\ ~crCache[c].exists
<1>1. cr[c].gen = 0 /\ crCache[c].gen <= 0 /\ crCache[c].gen \in Nat
  BY GenTypes DEF RequestInv, ServerSpec, CachedSpec
<1>. QED  BY <1>1 DEF RequestInv, ServerSpec, CachedSpec

LEMMA OnceInit == Init => OnceInv
<1> SUFFICES ASSUME Init PROVE OnceInv
  OBVIOUS
<1>1. \A c \in CR : cr[c] = NoCr(0) /\ crCache[c] = NoCr(0)
  BY DEF Init
<1>2. NoCr(0).uid = 0 /\ NoCr(0).status = NoStatus
  BY DEF NoCr
<1>3. \A c \in CR : cr[c].uid # 1 /\ cr[c].status = NoStatus /\ crCache[c].status = NoStatus
  BY <1>1, <1>2
<1>. QED  BY <1>3 DEF Init, OnceInv

\* A user writes a spec: the first one under the name starts with a blank status.
LEMMA AskOnce ==
  ASSUME RequestInv, OnceInv, NEW c \in CR, NEW instance \in CrRecord,
         NEW spec \in [Role -> Nat], Ask(c, instance, spec),
         instance.exists, instance.status = cr[c].status,
         instance.uid = cr[c].uid \/ (~cr[c].exists /\ instance.uid = Len(asked[c]) + 1)
  PROVE  OnceInv'
<1>a. TypeOK
  BY DEF RequestInv
<1> USE DEF UserVars, passVars
<1>1. /\ cr' = [cr EXCEPT ![c] = [instance EXCEPT !.gen = Len(asked[c]) + 1, !.spec = spec]]
      /\ UNCHANGED <<crCache, pc, key, idx, newStatus>>
  BY DEF Ask, WriteCr
<1>2. /\ cr'[c].exists /\ cr'[c].status = cr[c].status /\ cr'[c].uid = instance.uid
      /\ \A d \in CR : d # c => cr'[d] = cr[d]
  BY <1>a, <1>1 DEF TypeOK, CrRecord
<1>3. ASSUME cr'[c].uid = 1 PROVE FirstInv(c)'
  <2>1. CASE cr[c].uid = 1
    BY <1>1, <1>2, <2>1 DEF OnceInv, FirstInv
  <2>2. CASE cr[c].uid # 1
    <3>1. ~cr[c].exists /\ Len(asked[c]) + 1 = 1
      BY <1>2, <1>3, <2>2
    <3>2. asked[c] = <<>>
      BY <1>a, <3>1 DEF TypeOK
    <3>3. cr[c].status = NoStatus /\ crCache[c].status = NoStatus
      BY <3>2, BeforeTheFirst DEF OnceInv
    <3>4. key = c => pc = "idle" /\ idx = 0
      BY <3>2 DEF OnceInv, RequestInv, PassShape
    <3>. QED  BY <1>1, <1>2, <3>3, <3>4 DEF FirstInv, NoStatus, NoCounts
  <2>. QED  BY <2>1, <2>2
<1>4. \A d \in CR : d # c /\ cr'[d].uid = 1 => FirstInv(d)'
  BY <1>1, <1>2 DEF OnceInv, FirstInv
<1>5. asked'[key] = <<>> => asked[key] = <<>>
  <2>1. Len(asked[key]) <= Len(asked'[key]) /\ Len(asked[key]) \in Nat
    BY <1>a, AskedGrows, GenTypes
  <2>. QED  BY <1>a, <2>1 DEF TypeOK
<1>. QED  BY <1>1, <1>2, <1>3, <1>4, <1>5 DEF OnceInv

\* The pass ends; what the server and the cache have stays.
LEMMA ReturnOnce ==
  ASSUME OnceInv, Return, UNCHANGED <<cr, crCache>>
  PROVE  OnceInv'
BY DEF OnceInv, FirstInv, Return

\* A status written is one that does not go back behind the initialisation.
LEMMA UpdateStatusOnce ==
  ASSUME RequestInv, OnceInv, UpdateStatus, UNCHANGED cr => FALSE
  PROVE  /\ key \in CR /\ cr[key] \in CrRecord /\ cr[key] = crCache[key] /\ cr[key].exists
         /\ cr' = [cr EXCEPT ![key] = [cr[key] EXCEPT !.status = cr'[key].status]]
         /\ cr'[key].uid = cr[key].uid /\ cr'[key].exists
         /\ cr'[key].status.init = newStatus.init /\ cr'[key].status.count = newStatus.count
<1>a. TypeOK
  BY DEF RequestInv
<1> DEFINE status == WithHealth(newStatus, crCache[key].spec)
<1>1. ReplaceInstance(status) /\ crCache[key].exists
  BY DEF UpdateStatus
<1>2. key \in CR /\ cr[key] \in CrRecord /\ newStatus \in Status /\ cr[key] = crCache[key]
  BY <1>a, <1>1 DEF ReplaceInstance, RequestInv, FreshCopies, TypeOK
<1>3. status.init = newStatus.init /\ status.count = newStatus.count
  BY <1>2 DEF WithHealth, Status
<1>4. cr' = [cr EXCEPT ![key] = [cr[key] EXCEPT !.status = status]]
  BY <1>1, <1>2 DEF ReplaceInstance, WriteCr
<1> HIDE DEF status
<1>5. cr'[key] = [cr[key] EXCEPT !.status = status]
  BY <1>a, <1>2, <1>4 DEF TypeOK
<1>6. cr'[key].status = status /\ cr'[key].uid = cr[key].uid /\ cr'[key].exists = cr[key].exists
  BY <1>2, <1>5 DEF CrRecord
<1>. QED  BY <1>1, <1>2, <1>3, <1>4, <1>6

LEMMA OnceStep == RequestInv /\ OnceInv /\ [Next]_vars => OnceInv'
<1> SUFFICES ASSUME RequestInv, OnceInv, [Next]_vars PROVE OnceInv'
  OBVIOUS
<1>a. TypeOK
  BY DEF RequestInv
<1> USE DEF apiVars, cacheVars, passVars, UserVars
<1>1. ASSUME NEW c \in CR, CreateCr(c) PROVE OnceInv'
  <2>1. PICK spec \in Requests :
          Ask(c, [cr[c] EXCEPT !.exists = TRUE, !.uid = Len(asked[c]) + 1], spec)
    BY <1>1 DEF CreateCr
  <2>2. spec \in [Role -> Nat] /\ Len(asked[c]) + 1 \in Nat /\ cr[c] \in CrRecord
    BY <1>a, ConstantsAssumption DEF TypeOK
  <2> DEFINE created == [cr[c] EXCEPT !.exists = TRUE, !.uid = Len(asked[c]) + 1]
  <2>3. /\ created \in CrRecord /\ created.exists /\ created.status = cr[c].status
        /\ created.uid = Len(asked[c]) + 1
    BY <2>2 DEF CrRecord
  <2>4. ~cr[c].exists
    BY <1>1 DEF CreateCr
  <2> HIDE DEF created
  <2>. QED  BY <2>1, <2>2, <2>3, <2>4, AskOnce DEF created
<1>2. ASSUME NEW c \in CR, EditSpec(c) PROVE OnceInv'
  <2>1. PICK spec \in Requests : Ask(c, cr[c], spec)
    BY <1>2 DEF EditSpec
  <2>2. spec \in [Role -> Nat] /\ cr[c] \in CrRecord /\ cr[c].exists
    BY <1>a, <1>2, ConstantsAssumption DEF TypeOK, EditSpec
  <2>. QED  BY <2>1, <2>2, AskOnce
<1>3. ASSUME NEW c \in CR, DeleteCr(c) PROVE OnceInv'
  <2>1. /\ \A d \in CR : cr'[d] = IF d = c THEN NoCr(cr[c].gen) ELSE cr[d]
        /\ UNCHANGED <<crCache, pc, key, idx, newStatus, asked>>
    BY <1>a, <1>3 DEF DeleteCr, WriteCr, TypeOK
  <2>. QED  BY <2>1 DEF OnceInv, FirstInv, NoCr
<1>4. ASSUME NEW c \in CR, SyncCr(c) PROVE OnceInv'
  <2>1. /\ \A d \in CR : crCache'[d] = IF d = c THEN cr[c] ELSE crCache[d]
        /\ UNCHANGED <<cr, pc, key, idx, newStatus, asked>>
    BY <1>a, <1>4 DEF SyncCr, TypeOK
  <2>. QED  BY <2>1 DEF OnceInv, FirstInv
<1>5. ASSUME NEW c \in CR, StartPass(c) PROVE OnceInv'
  <2>1. UNCHANGED <<cr, crCache, asked>> /\ key' = c /\ pc = "idle" /\ idx = 0
    BY <1>5 DEF StartPass, RequestInv, PassShape
  <2>2. crCache[c].exists => asked[c] # <<>>
    BY BeforeTheFirst
  <2>3. CASE ~crCache[c].exists /\ UNCHANGED <<pc, idx, inst, newStatus>>
    BY <2>1, <2>3 DEF OnceInv, FirstInv
  <2>4. CASE /\ crCache[c].exists /\ ~crCache[c].status.init
             /\ pc' = "updateStatus" /\ newStatus' = InitialStatus /\ idx' = idx
    BY <2>1, <2>2, <2>4 DEF OnceInv, FirstInv
  <2>5. CASE crCache[c].exists /\ crCache[c].status.init /\ pc' = "visit" /\ idx' = 1
    BY <2>1, <2>2, <2>5 DEF OnceInv, FirstInv
  <2>. QED  BY <1>5, <2>3, <2>4, <2>5 DEF StartPass, NeedsInit
<1>6. CASE UpdateStatus
  <2>1. UNCHANGED <<crCache, asked>>
    BY <1>6 DEF UpdateStatus
  <2>2. ReturnAndRequeue \/ (idx # 0 /\ pc' = "scale" /\ UNCHANGED <<key, idx>>)
    BY <1>6 DEF UpdateStatus, StatusDone
  <2>3. CASE UNCHANGED cr
    <3>1. CASE ReturnAndRequeue
      BY <2>1, <2>3, <3>1, ReturnOnce DEF ReturnAndRequeue
    <3>2. CASE idx # 0 /\ pc' = "scale" /\ UNCHANGED <<key, idx>>
      <4>1. asked[key] # <<>>
        BY <1>6 DEF UpdateStatus, OnceInv
      <4>. QED  BY <2>1, <2>3, <3>2, <4>1 DEF OnceInv, FirstInv
    <3>. QED  BY <2>2, <3>1, <3>2
  <2>4. CASE ~UNCHANGED cr
    <3>1. /\ key \in CR /\ cr[key] = crCache[key]
          /\ cr' = [cr EXCEPT ![key] = [cr[key] EXCEPT !.status = cr'[key].status]]
          /\ cr'[key].uid = cr[key].uid /\ cr'[key].exists
          /\ cr'[key].status.init = newStatus.init /\ cr'[key].status.count = newStatus.count
      BY <1>6, <2>4, UpdateStatusOnce
    <3>2. \A d \in CR : d # key => cr'[d] = cr[d]
      BY <1>a, <3>1 DEF TypeOK
    <3>3. idx = 0 => newStatus.init /\ newStatus.count = NoCounts
      BY <1>6 DEF UpdateStatus, OnceInv, InitialStatus, NoStatus, NoCounts
    <3>4. key' = key /\ pc' # "updateStatus" /\ (idx' # 0 => idx # 0)
          /\ (asked[key] = <<>> => pc' = "idle")
      BY <1>6, <2>2 DEF ReturnAndRequeue, Return, UpdateStatus, OnceInv
    <3>5. cr[key].uid = 1 => FirstInv(key)'
      BY <1>6, <2>1, <3>1, <3>3, <3>4 DEF UpdateStatus, OnceInv, FirstInv
    <3>6. \A d \in CR : d # key /\ cr[d].uid = 1 => FirstInv(d)'
      BY <2>1, <3>2, <3>4 DEF OnceInv, FirstInv
    <3>. QED  BY <2>1, <3>1, <3>2, <3>4, <3>5, <3>6 DEF OnceInv
  <2>. QED  BY <2>3, <2>4
<1>7. CASE UpdateTeReadyCount \/ UpdateSmReadyCount
  <2>1. PICK role \in Role : UpdateReadyCount(role)
    BY <1>7 DEF UpdateTeReadyCount, UpdateSmReadyCount, Role
  <2>2. UNCHANGED <<cr, crCache, key, idx, asked>> /\ idx # 0 /\ pc # "idle"
    BY <2>1 DEF UpdateReadyCount, RequestInv, PassShape
  <2>3. pc' = "scale" \/ newStatus'.init = crCache[key].status.init
    BY <1>a, <2>1 DEF UpdateReadyCount, TypeOK, CrRecord, Status
  <2>. QED  BY <2>2, <2>3 DEF OnceInv, FirstInv
<1>8. ASSUME UNCHANGED <<cr, crCache, asked>>, Return PROVE OnceInv'
  BY <1>8, ReturnOnce
<1>9. ASSUME UNCHANGED <<cr, crCache, asked, key>>, idx # 0, pc # "idle",
             pc' \in {"visit", "readyCount"}
      PROVE  OnceInv'
  BY <1>9 DEF OnceInv, FirstInv
<1>10. ASSUME NEW item, CreateMissing(item), pc = "visit" PROVE OnceInv'
  BY <1>8, <1>9, <1>10 DEF CreateMissing, NextChild, ReturnAndRequeue, RequestInv, PassShape
<1>11. CASE PassStep /\ ~UpdateStatus /\ ~UpdateTeReadyCount /\ ~UpdateSmReadyCount
  <2>1. CASE FinishPass
    BY <1>8, <2>1 DEF FinishPass, ReturnAndRequeue
  <2>2. ASSUME NEW item \in Item, ReconcilePlain(item) PROVE OnceInv'
    BY <1>9, <1>10, <2>2 DEF ReconcilePlain, Visiting, NextChild, RequestInv, PassShape
  <2>3. ASSUME NEW role \in Role, ReconcileWorkload(role) PROVE OnceInv'
    BY <1>9, <1>10, <2>3 DEF ReconcileWorkload, Visiting, RequestInv, PassShape
  <2>4. ASSUME NEW role \in Role, Scale(role) PROVE OnceInv'
    BY <1>8, <1>9, <2>4 DEF Scale, NextChild, ReturnAndRequeue, RequestInv, PassShape
  <2>. QED
    BY <1>11, <2>1, <2>2, <2>3, <2>4
       DEF PassStep, ReconcileDeployment, ReconcileStatefulSet, Role
<1>12. CASE PassError
  BY <1>8, <1>12 DEF PassError, ReturnAndRequeue
<1>13. CASE Restart
  <2>1. crCache' = cr /\ UNCHANGED <<cr, asked, key>> /\ pc' = "idle" /\ idx' = 0
    BY <1>13 DEF Restart, Return
  <2>. QED  BY <2>1 DEF OnceInv, FirstInv
<1>14. ASSUME UNCHANGED <<cr, crCache, asked, key, pc, idx, newStatus>> PROVE OnceInv'
  BY <1>14 DEF OnceInv, FirstInv
<1>15. CASE Settle \/ UNCHANGED vars
  BY <1>14, <1>15 DEF Settle, vars
<1>16. ASSUME NEW o, DeleteChild(o) \/ PodsChange(o) \/ GarbageCollect(o) \/ SyncObject(o)
       PROVE  OnceInv'
  BY <1>14, <1>16 DEF DeleteChild, PodsChange, GarbageCollect, RemoveObject, SyncObject
<1>. QED
  BY <1>1, <1>2, <1>3, <1>4, <1>5, <1>6, <1>7, <1>11, <1>12, <1>13, <1>15, <1>16
     DEF Next, Environment

\* A status is initialised once: whatever a pass read before it came to write, the
\* initialisation of the first resource of a name neither repeats over counts that
\* are already reported nor is taken back.
THEOREM StatusInitialisedOnce == Spec => InitialisedOnce
<1> DEFINE Once(c) == cr[c].status.init /\ cr[c].uid = 1 /\ cr'[c].uid = 1
                        => /\ cr'[c].status.init
                           /\ idx = 0 => cr'[c].status.count = cr[c].status.count
<1>1. RequestInv /\ OnceInv /\ [Next]_vars => [\A c \in CR : Once(c)]_cr
  <2> SUFFICES ASSUME RequestInv, OnceInv, [Next]_vars, NEW c \in CR, cr' # cr,
                      cr[c].status.init, cr[c].uid = 1, cr'[c].uid = 1
               PROVE  /\ cr'[c].status.init
                      /\ idx = 0 => cr'[c].status.count = cr[c].status.count
    OBVIOUS
  <2>a. TypeOK
    BY DEF RequestInv
  <2> USE DEF apiVars, cacheVars, passVars, UserVars
  <2>1. ASSUME NEW d \in CR, CreateCr(d) \/ EditSpec(d) PROVE cr'[c].status = cr[c].status
    <3>1. PICK instance \in {[cr[d] EXCEPT !.exists = TRUE, !.uid = Len(asked[d]) + 1], cr[d]},
               spec \in Requests : Ask(d, instance, spec)
      BY <2>1 DEF CreateCr, EditSpec
    <3>2. /\ cr[d] \in CrRecord /\ Len(asked[d]) + 1 \in Nat
      BY <2>a DEF TypeOK
    <3>3. instance \in CrRecord /\ instance.status = cr[d].status
      BY <3>1, <3>2 DEF CrRecord
    <3>. QED  BY <2>a, <3>1, <3>3 DEF Ask, WriteCr, TypeOK, CrRecord
  <2>2. ASSUME NEW d \in CR, DeleteCr(d) PROVE cr'[c] = cr[c]
    BY <2>a, <2>2 DEF DeleteCr, WriteCr, NoCr, TypeOK
  <2>3. CASE UpdateStatus
    <3>1. /\ key \in CR /\ cr[key] = crCache[key]
          /\ cr' = [cr EXCEPT ![key] = [cr[key] EXCEPT !.status = cr'[key].status]]
          /\ cr'[key].status.init = newStatus.init /\ cr'[key].status.count = newStatus.count
      BY <2>3, UpdateStatusOnce
    <3>2. CASE c # key
      BY <2>a, <3>1, <3>2 DEF TypeOK
    <3>3. CASE c = key /\ idx = 0
      BY <2>3, <3>1, <3>3 DEF UpdateStatus, OnceInv, FirstInv, InitialStatus, NoStatus, NoCounts
    <3>4. CASE c = key /\ idx # 0
      BY <2>3, <3>1, <3>4 DEF UpdateStatus, OnceInv, FirstInv
    <3>. QED  BY <3>2, <3>3, <3>4
  <2>. QED
    BY <2>1, <2>2, <2>3 DEF Next, Environment, PassStep, DeleteChild, GarbageCollect, RemoveObject,
       PodsChange, Settle, PassError, Restart, SyncCr, SyncObject, StartPass, FinishPass,
       ReconcilePlain, CreateMissing, ReconcileDeployment, ReconcileStatefulSet, ReconcileWorkload,
       UpdateTeReadyCount, UpdateSmReadyCount, UpdateReadyCount, Scale, vars
<1>2. Init => RequestInv /\ OnceInv
  BY RequestInit, OnceInit
<1>3. RequestInv /\ OnceInv /\ [Next]_vars => (RequestInv /\ OnceInv)'
  BY RequestStep, OnceStep
<1>. QED  BY <1>1, <1>2, <1>3, PTL DEF Spec, InitialisedOnce

-----------------------------------------------------------------------------
(***************************************************************************)
(* No lost wake-up.  A step that is not an event, the start of a pass or a *)
(* restart takes no key from the queue, and leaves a pass under way or     *)
(* brings its key back; what it writes makes the cache's copy stale.       *)
(***************************************************************************)
LEMMA KeepsTheKeys ==
  ASSUME NeverForgotten,
         \A c \in CR : crFresh'[c] /\ cr'[c].exists => crFresh[c] /\ cr[c].exists,
         pending \subseteq pending', key' = key, pc # "idle" => pc' # "idle" \/ key \in pending'
  PROVE  NeverForgotten'
BY DEF NeverForgotten

LEMMA WrittenIsStale ==
  ASSUME TypeOK, NEW c \in CR, NEW record, WriteCr(c, record)
  PROVE  \A d \in CR : crFresh'[d] => crFresh[d] /\ cr'[d] = cr[d]
BY DEF TypeOK, WriteCr

LEMMA ForgottenStep == RequestInv /\ NeverForgotten /\ [Next]_vars => NeverForgotten'
<1> SUFFICES ASSUME RequestInv, NeverForgotten, [Next]_vars PROVE NeverForgotten'
  OBVIOUS
<1>a. TypeOK
  BY DEF RequestInv
<1> USE DEF apiVars, cacheVars, passVars, UserVars
<1>1. ASSUME NEW c \in CR, CreateCr(c) \/ EditSpec(c) PROVE NeverForgotten'
  <2>1. PICK instance, spec : Ask(c, instance, spec)
    BY <1>1 DEF CreateCr, EditSpec
  <2>2. /\ WriteCr(c, [instance EXCEPT !.gen = Len(asked[c]) + 1, !.spec = spec])
        /\ UNCHANGED <<pending, key, pc>>
    BY <2>1 DEF Ask
  <2>. QED  BY <1>a, <2>2, WrittenIsStale, KeepsTheKeys
<1>2. ASSUME NEW c \in CR, DeleteCr(c) PROVE NeverForgotten'
  <2>1. WriteCr(c, NoCr(cr[c].gen)) /\ UNCHANGED <<pending, key, pc>>
    BY <1>2 DEF DeleteCr
  <2>. QED  BY <1>a, <2>1, WrittenIsStale, KeepsTheKeys
<1>3. ASSUME UNCHANGED <<cr, crFresh, pending, key>>, pc # "idle" => pc' # "idle"
      PROVE  NeverForgotten'
  BY <1>3, KeepsTheKeys
<1>4. ASSUME UNCHANGED <<cr, crFresh>>, ReturnAndRequeue PROVE NeverForgotten'
  BY <1>4, KeepsTheKeys DEF ReturnAndRequeue, Return
<1>5. ASSUME NEW o, DeleteChild(o) \/ PodsChange(o) \/ GarbageCollect(o) \/ SyncObject(o)
      PROVE  NeverForgotten'
  BY <1>3, <1>5 DEF DeleteChild, PodsChange, GarbageCollect, RemoveObject, SyncObject
<1>6. CASE Settle \/ UNCHANGED vars
  BY <1>3, <1>6 DEF Settle, vars
<1>7. ASSUME NEW c \in CR, SyncCr(c) PROVE NeverForgotten'
  BY <1>a, <1>7 DEF SyncCr, TypeOK, NeverForgotten
<1>8. ASSUME NEW c \in CR, StartPass(c) PROVE NeverForgotten'
  <2>1. /\ pc = "idle" /\ pending' = pending \ {c} /\ key' = c /\ UNCHANGED <<cr, crFresh>>
        /\ ~crCache[c].exists \/ pc' # "idle"
    BY <1>8 DEF StartPass
  <2>2. cr[c].exists => ~crFresh[c] \/ pc' # "idle"
    BY <2>1 DEF RequestInv, FreshCopies
  <2>. QED  BY <2>1, <2>2 DEF NeverForgotten
<1>9. CASE UpdateStatus
  <2>1. ReturnAndRequeue \/ (pc' = "scale" /\ UNCHANGED <<key, pending>>)
    BY <1>9 DEF UpdateStatus, StatusDone
  <2>2. \A c \in CR : crFresh'[c] => crFresh[c] /\ cr'[c] = cr[c]
    <3>1. CASE UNCHANGED <<cr, crFresh>>
      BY <3>1
    <3>2. CASE ReplaceInstance(WithHealth(newStatus, crCache[key].spec))
      BY <1>a, <3>2, WrittenIsStale DEF ReplaceInstance, TypeOK
    <3>. QED  BY <1>9, <3>1, <3>2 DEF UpdateStatus
  <2>. QED  BY <2>1, <2>2, KeepsTheKeys DEF ReturnAndRequeue, Return
<1>10. ASSUME NEW item, CreateMissing(item) PROVE NeverForgotten'
  BY <1>3, <1>4, <1>10 DEF CreateMissing, NextChild
<1>11. CASE PassStep /\ ~UpdateStatus
  <2>1. CASE FinishPass
    BY <1>4, <2>1 DEF FinishPass
  <2>2. ASSUME NEW item \in Item, ReconcilePlain(item) PROVE NeverForgotten'
    BY <1>3, <1>10, <2>2 DEF ReconcilePlain, NextChild
  <2>3. ASSUME NEW role \in Role, ReconcileWorkload(role) PROVE NeverForgotten'
    BY <1>3, <1>10, <2>3 DEF ReconcileWorkload
  <2>4. ASSUME NEW role \in Role, UpdateReadyCount(role) PROVE NeverForgotten'
    BY <1>3, <2>4 DEF UpdateReadyCount
  <2>5. ASSUME NEW role \in Role, Scale(role) PROVE NeverForgotten'
    BY <1>3, <1>4, <2>5 DEF Scale, NextChild
  <2>. QED
    BY <1>11, <2>1, <2>2, <2>3, <2>4, <2>5
       DEF PassStep, ReconcileDeployment, ReconcileStatefulSet, UpdateTeReadyCount,
           UpdateSmReadyCount, Role
<1>12. CASE PassError
  BY <1>4, <1>12 DEF PassError
<1>13. CASE Restart
  BY <1>13 DEF Restart, NeverForgotten
<1>. QED
  BY <1>1, <1>2, <1>5, <1>6, <1>7, <1>8, <1>9, <1>11, <1>12, <1>13 DEF Next, Environment

\* No database is forgotten: whatever ends a pass, and whatever the pass believed,
\* the resource is looked at again.  This is the safety half of the convergence
\* that the runs check.
THEOREM NoneForgotten == Spec => []NeverForgotten
<1>1. Init => NeverForgotten
  BY DEF Init, NeverForgotten, NoCr
<1>2. Init => RequestInv
  BY RequestInit
<1>3. RequestInv /\ NeverForgotten /\ [Next]_vars => (RequestInv /\ NeverForgotten)'
  BY RequestStep, ForgottenStep
<1>. QED  BY <1>1, <1>2, <1>3, PTL DEF Spec
=============================================================================
