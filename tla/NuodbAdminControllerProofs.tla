--------------------- MODULE NuodbAdminControllerProofs ---------------------
(***************************************************************************)
(* Proofs about NuodbAdminController, for any chart, any requests and any  *)
(* bounds.                                                                 *)
(***************************************************************************)
EXTENDS NuodbAdminController, TLAPS

-----------------------------------------------------------------------------
(***************************************************************************)
(* Types.  PassShape says where in the chart a pass is: at the StatefulSet *)
(* while it handles that, before the first child while it initialises.     *)
(***************************************************************************)
PassShape ==
  /\ pc = "visit" => idx # 0
  /\ pc = "idle" => idx = 0
  /\ pc \in {"readyCount", "scale"} => idx # 0
  /\ pc \in {"readyCount", "updateStatus", "scale"} /\ idx # 0
       => idx \in DOMAIN Manifest /\ Visited = Workload

TypeInv == TypeOK /\ PassShape

LEMMA ManifestTypes ==
  /\ Len(Manifest) \in Nat /\ DOMAIN Manifest = 1..Len(Manifest)
  /\ Workload \in Item
  /\ \A i \in DOMAIN Manifest : Manifest[i] \in Item
BY AdminConstants DEF Item

LEMMA BlankTypes ==
  /\ NoStatus \in Status /\ InitialStatus \in Status
  /\ \A n \in Nat : NoCr(n) \in CrRecord
  /\ NoObject \in Object
<1>1. NoStatus \in Status
  BY DEF NoStatus, Status, Health
<1>2. InitialStatus \in Status
  BY <1>1 DEF InitialStatus, Status
<1>3. NoWish \in Wish
  BY DEF NoWish, Wish
<1>4. \A n \in Nat : NoCr(n) \in CrRecord
  BY <1>1, <1>3 DEF NoCr, CrRecord
<1>5. NoObject \in Object
  BY DEF NoObject, Object
<1>. QED  BY <1>1, <1>2, <1>4, <1>5

LEMMA LightType ==
  ASSUME NEW status \in Status, NEW spec \in Wish
  PROVE  WithHealth(status, spec) \in Status
<1>1. status.count \in Nat /\ spec.admins \in Nat
  BY DEF Status, Wish
<1>2. RoleHealth(status.count, spec.admins) \in Health
  BY <1>1 DEF RoleHealth, Health
<1>. QED  BY <1>2 DEF WithHealth, Status

LEMMA DeletedType == ASSUME TypeOK, NEW o \in Item PROVE Deleted(o) \in Object
<1>1. obj[o] \in Object
  BY DEF TypeOK
<1>. QED  BY <1>1, BlankTypes DEF Deleted, Object

\* What the steps that end or advance a pass leave behind.
LEMMA ReturnType ==
  ASSUME TypeOK, Return
  PROVE  /\ pc' = "idle" /\ idx' = 0 /\ idx' \in 0 .. Len(Manifest) + 1
         /\ inst' \in CrRecord /\ copy' \in Object /\ copyFresh' \in BOOLEAN
         /\ newStatus' \in Status
<1>1. 0 \in 0 .. Len(Manifest) + 1
  BY ManifestTypes
<1>2. NoCr(0) \in CrRecord
  BY BlankTypes
<1>. QED  BY <1>1, <1>2, BlankTypes DEF Return

LEMMA NextChildType ==
  ASSUME TypeOK, NextChild, idx \in DOMAIN Manifest
  PROVE  /\ pc' = "visit" /\ idx' # 0 /\ idx' \in 0 .. Len(Manifest) + 1
         /\ inst' \in CrRecord /\ inst'.exists /\ copy' \in Object /\ copyFresh' \in BOOLEAN
         /\ newStatus' \in Status /\ pending' \in BOOLEAN
<1>1. idx \in 1..Len(Manifest) /\ idx # 0 /\ Len(Manifest) \in Nat
  BY ManifestTypes
<1>2. idx' # 0 /\ idx' \in 0 .. Len(Manifest) + 1
  BY <1>1 DEF NextChild
<1>. QED  BY <1>1, <1>2, BlankTypes DEF TypeOK, NextChild

LEMMA WriteObjectType ==
  ASSUME TypeOK, NEW o \in Item, NEW record \in Object, WriteObject(o, record)
  PROVE  obj' \in [Item -> Object] /\ objFresh' \in [Item -> BOOLEAN]
BY DEF TypeOK, WriteObject

\* A step of the worker that ends the pass, or goes on to the next child.
LEMMA EndType ==
  ASSUME TypeInv, ReturnAndRequeue,
         cr' \in CrRecord, crFresh' \in BOOLEAN, UNCHANGED crCache,
         obj' \in [Item -> Object], objFresh' \in [Item -> BOOLEAN],
         UNCHANGED <<objCache, quiet, asked>>
  PROVE  TypeInv'
BY ReturnType DEF TypeInv, TypeOK, PassShape, ReturnAndRequeue

LEMMA AdvanceType ==
  ASSUME TypeInv, NextChild, idx \in DOMAIN Manifest,
         obj' \in [Item -> Object], objFresh' \in [Item -> BOOLEAN],
         UNCHANGED <<cr, crCache, crFresh, objCache, quiet, asked>>
  PROVE  TypeInv'
BY NextChildType DEF TypeInv, TypeOK, PassShape

LEMMA OthersWriteType ==
  ASSUME TypeInv, NEW o \in Item, NEW record \in Object, OthersWrite(o, record)
  PROVE  TypeInv'
BY WriteObjectType DEF OthersWrite, TypeInv, TypeOK, PassShape, Visited

LEMMA AskType ==
  ASSUME TypeInv, NEW record \in CrRecord, NEW wish \in Wish, Ask(record, wish)
  PROVE  TypeInv'
<1>1. Len(asked) + 1 \in Nat
  BY DEF TypeInv, TypeOK
<1>2. [record EXCEPT !.gen = Len(asked) + 1, !.spec = wish] \in CrRecord
  BY <1>1 DEF CrRecord
<1>3. Append(asked, wish) \in Seq(Wish)
  BY DEF TypeInv, TypeOK
<1>. QED  BY <1>2, <1>3 DEF Ask, WriteCr, TypeInv, TypeOK, PassShape, Visited, passVars

LEMMA NewObjectType ==
  ASSUME TypeOK, NEW item PROVE NewObject(item) \in Object
<1>1. inst.spec.admins \in Nat /\ inst.uid \in Nat /\ inst.gen \in Nat
  BY DEF TypeOK, CrRecord, Wish
<1>. QED  BY <1>1 DEF NewObject, NoObject, Object

LEMMA CreateMissingType ==
  ASSUME TypeInv, NEW item, Visiting(item), CreateMissing(item)
  PROVE  TypeInv'
<1>1. idx \in DOMAIN Manifest /\ item \in Item
  BY ManifestTypes DEF Visiting
<1>2. CASE WriteObject(item, NewObject(item)) /\ NextChild
  BY <1>1, <1>2, NewObjectType, WriteObjectType, AdvanceType DEF CreateMissing, TypeInv
<1>3. CASE ReturnAndRequeue /\ UNCHANGED <<obj, objFresh>>
  BY <1>3, EndType DEF CreateMissing, TypeInv, TypeOK
<1>. QED  BY <1>2, <1>3 DEF CreateMissing

\* Every action preserves the types and the shape of the pass.
LEMMA TypeStep == TypeInv /\ [Next]_vars => TypeInv'
<1> SUFFICES ASSUME TypeInv, [Next]_vars PROVE TypeInv'
  OBVIOUS
<1>a. TypeOK
  BY DEF TypeInv
<1> USE DEF cacheVars, passVars
<1>1. CASE CreateCr
  <2>1. PICK wish \in Requests : Ask([cr EXCEPT !.exists = TRUE, !.uid = Len(asked) + 1], wish)
    BY <1>1 DEF CreateCr
  <2>2. wish \in Wish /\ Len(asked) + 1 \in Nat
    BY <1>a, AdminConstants DEF TypeOK
  <2>3. [cr EXCEPT !.exists = TRUE, !.uid = Len(asked) + 1] \in CrRecord
    BY <1>a, <2>2 DEF TypeOK, CrRecord
  <2>. QED  BY <2>1, <2>2, <2>3, AskType
<1>2. CASE EditSpec
  <2>1. PICK wish \in Requests : Ask(cr, wish)
    BY <1>2 DEF EditSpec
  <2>. QED  BY <1>a, <2>1, AskType, AdminConstants DEF TypeOK
<1>3. CASE DeleteCr
  <2>1. NoCr(cr.gen) \in CrRecord
    BY <1>a, BlankTypes DEF TypeOK, CrRecord
  <2>. QED  BY <1>3, <2>1 DEF DeleteCr, WriteCr, TypeInv, TypeOK, PassShape, Visited
<1>4. CASE PodsChange
  <2>1. PICK n \in 0..MaxReady : OthersWrite(Workload, [obj[Workload] EXCEPT !.ready = n])
    BY <1>4 DEF PodsChange
  <2>2. n \in Nat /\ obj[Workload] \in Object
    BY <1>a, AdminConstants DEF TypeOK
  <2>3. [obj[Workload] EXCEPT !.ready = n] \in Object
    BY <2>2 DEF Object
  <2>. QED  BY <2>1, <2>3, ManifestTypes, OthersWriteType
<1>5. CASE Settle
  BY <1>5 DEF Settle, TypeInv, TypeOK, PassShape, Visited
<1>6. ASSUME NEW o \in Item, OthersWrite(o, Deleted(o)) \/ OthersWrite(o, NoObject) PROVE TypeInv'
  BY <1>a, <1>6, DeletedType, BlankTypes, OthersWriteType
<1>7. CASE SyncCr
  BY <1>7 DEF SyncCr, TypeInv, TypeOK, PassShape, Visited
<1>8. ASSUME NEW o \in Item, SyncObject(o) PROVE TypeInv'
  BY <1>8 DEF SyncObject, TypeInv, TypeOK, PassShape, Visited
<1>9. CASE StartPass
  <2>1. idx = 0 /\ 1 \in 0 .. Len(Manifest) + 1
    BY <1>9, ManifestTypes DEF StartPass, TypeInv, PassShape
  <2>2. /\ pc' \in {"idle", "visit", "updateStatus"} /\ idx' \in 0 .. Len(Manifest) + 1
        /\ inst' \in CrRecord /\ newStatus' \in Status
        /\ pc' = "visit" => idx' # 0 /\ inst'.exists
        /\ pc' # "visit" => idx' = 0
    BY <1>a, <1>9, <2>1, BlankTypes DEF StartPass, TypeOK
  <2>. QED  BY <1>9, <2>2 DEF StartPass, TypeInv, TypeOK, PassShape
<1>10. CASE FinishPass
  BY <1>10, EndType DEF FinishPass, TypeInv, TypeOK
<1>11. ASSUME NEW item \in Item, ReconcilePlain(item) \/ ReconcileInsights(item) PROVE TypeInv'
  <2>1. Visiting(item) /\ idx \in DOMAIN Manifest
    BY <1>11 DEF ReconcilePlain, ReconcileInsights, Visiting
  <2>2. CASE CreateMissing(item)
    BY <2>1, <2>2, CreateMissingType
  <2>3. CASE Skip
    BY <2>1, <2>3, AdvanceType DEF Skip, TypeInv, TypeOK
  <2>4. CASE DeleteDisabled(item)
    <3>1. CASE WriteObject(item, Deleted(item)) /\ NextChild
      BY <1>a, <2>1, <2>4, <3>1, DeletedType, WriteObjectType, AdvanceType DEF DeleteDisabled
    <3>2. CASE ReturnAndRequeue /\ UNCHANGED <<obj, objFresh>>
      BY <2>4, <3>2, EndType DEF DeleteDisabled, TypeInv, TypeOK
    <3>. QED  BY <2>4, <3>1, <3>2 DEF DeleteDisabled
  <2>. QED  BY <1>11, <2>2, <2>3, <2>4 DEF ReconcilePlain, ReconcileInsights
<1>12. CASE ReconcileStatefulSet
  <2>1. Visiting(Workload) /\ idx \in DOMAIN Manifest /\ Visited = Workload
    BY <1>12 DEF ReconcileStatefulSet, Visiting, Visited
  <2>2. CASE CreateMissing(Workload)
    BY <2>1, <2>2, CreateMissingType
  <2>3. CASE /\ pc' = "readyCount" /\ copy' = objCache[Workload] /\ copyFresh' = objFresh[Workload]
             /\ UNCHANGED <<cr, obj, cacheVars, idx, inst, newStatus, pending, quiet, asked>>
    <3>1. pc = "visit" /\ idx # 0
      BY <2>1 DEF Visiting, TypeInv, PassShape
    <3>. QED  BY <2>1, <2>3, <3>1, ManifestTypes DEF TypeInv, TypeOK, PassShape, Visited
  <2>. QED  BY <1>12, <2>2, <2>3 DEF ReconcileStatefulSet
<1>13. CASE UpdateAdminReadyCount
  <2>1. [crCache.status EXCEPT !.count = copy.ready] \in Status
    BY <1>a DEF TypeOK, CrRecord, Status, Object
  <2>. QED  BY <1>13, <2>1 DEF UpdateAdminReadyCount, TypeInv, TypeOK, PassShape, Visited
<1>14. CASE UpdateStatus
  <2> DEFINE status == WithHealth(newStatus, crCache.spec)
  <2>1. status \in Status /\ [crCache EXCEPT !.status = status] \in CrRecord
    <3>1. newStatus \in Status /\ crCache.spec \in Wish /\ crCache \in CrRecord
      BY <1>a DEF TypeOK, CrRecord
    <3>2. status \in Status
      BY <3>1, LightType
    <3> HIDE DEF status
    <3>. QED  BY <3>1, <3>2 DEF CrRecord
  <2> HIDE DEF status
  <2>2. /\ cr' \in CrRecord /\ crFresh' \in BOOLEAN
        /\ UNCHANGED <<obj, crCache, objCache, objFresh, quiet, asked>>
    BY <1>a, <1>14, <2>1 DEF UpdateStatus, WriteCr, TypeOK, status
  <2>3. CASE ReturnAndRequeue
    BY <2>2, <2>3, EndType DEF TypeInv, TypeOK
  <2>4. CASE idx # 0 /\ pc' = "scale" /\ newStatus' = NoStatus
             /\ UNCHANGED <<idx, inst, copy, copyFresh, pending>>
    BY <1>14, <2>2, <2>4, BlankTypes DEF UpdateStatus, TypeInv, TypeOK, PassShape, Visited
  <2>. QED  BY <1>14, <2>3, <2>4 DEF UpdateStatus, StatusDone
<1>15. CASE Scale
  <2>1. idx \in DOMAIN Manifest
    BY <1>15 DEF Scale, TypeInv, PassShape
  <2>2. [copy EXCEPT !.replicas = inst.spec.admins, !.gen = inst.gen] \in Object
    BY <1>a DEF TypeOK, CrRecord, Wish, Object
  <2>3. /\ obj' \in [Item -> Object] /\ objFresh' \in [Item -> BOOLEAN]
        /\ UNCHANGED <<cr, crCache, crFresh, objCache, quiet, asked>>
    BY <1>a, <1>15, <2>2, ManifestTypes, WriteObjectType DEF Scale, TypeOK
  <2>4. NextChild \/ ReturnAndRequeue
    BY <1>15 DEF Scale
  <2>. QED  BY <1>a, <2>1, <2>3, <2>4, AdvanceType, EndType DEF TypeOK
<1>16. CASE PassError
  BY <1>16, EndType DEF PassError, TypeInv, TypeOK
<1>17. CASE Restart
  BY <1>17, ReturnType DEF Restart, TypeInv, TypeOK, PassShape, CrRecord
<1>18. CASE UNCHANGED vars
  BY <1>18 DEF vars, TypeInv, TypeOK, PassShape, Visited
<1>. QED
  BY <1>1, <1>2, <1>3, <1>4, <1>5, <1>6, <1>7, <1>8, <1>9, <1>10, <1>11, <1>12, <1>13, <1>14,
     <1>15, <1>16, <1>17, <1>18
     DEF Next, PassStep, DeleteChild, GarbageCollect, Terminate

LEMMA TypeInit == Init => TypeInv
<1> SUFFICES ASSUME Init PROVE TypeInv
  OBVIOUS
<1>1. NoCr(0) \in CrRecord /\ 0 \in 0 .. Len(Manifest) + 1 /\ <<>> \in Seq(Wish)
  BY BlankTypes, ManifestTypes
<1>. QED  BY <1>1, BlankTypes DEF Init, TypeInv, TypeOK, PassShape

\* Every variable keeps its type, for any chart, whatever users, pods, informers
\* and failures do, and a pass never visits a child without an instance.
THEOREM AdminTypeCorrect == Spec => []TypeOK
BY TypeInit, TypeStep, PTL DEF Spec, TypeInv

-----------------------------------------------------------------------------
(***************************************************************************)
(* The inductive invariant behind the other theorems.  A request travels   *)
(* from the server to the cache, from the cache to the instance of a pass, *)
(* and from the instance to the children that the pass creates or scales.  *)
(* At every stage the copy is one of the requests made, and no stage is    *)
(* ahead of the one before.                                                *)
(***************************************************************************)
FreshCopies == /\ crFresh => crCache = cr
               /\ \A o \in Item : objFresh[o] => objCache[o] = obj[o]

HeldCopy == Holding => copy.exists /\ (copyFresh => copy = obj[Workload])

ServerSpec == /\ cr.gen = Len(asked)
              /\ cr.exists => cr.gen # 0 /\ cr.spec = asked[cr.gen]

CachedSpec == /\ crCache.gen <= Len(asked)
              /\ crCache.exists => crCache.gen # 0 /\ crCache.spec = asked[crCache.gen]

SnapshotSpec == idx # 0 => /\ inst.gen # 0 /\ inst.gen <= crCache.gen
                           /\ inst.spec = asked[inst.gen]

\* A child of Insights was created for a request that enables them.
AppliedSpec ==
  \A o \in Item :
    LET w == obj[o] IN
    /\ ~w.exists => w.gen = 0 /\ w.replicas = 0
    /\ w.exists => /\ w.gen # 0 /\ w.gen <= crCache.gen
                   /\ idx # 0 => w.gen <= inst.gen
                   /\ o \in Insights => asked[w.gen].insights
                   /\ o = Workload => w.replicas = asked[w.gen].admins

RequestInv == /\ TypeInv /\ FreshCopies /\ HeldCopy
              /\ ServerSpec /\ CachedSpec /\ SnapshotSpec /\ AppliedSpec

\* The numbers that are compared are natural numbers.
LEMMA GenTypes ==
  ASSUME TypeOK
  PROVE  /\ cr.gen \in Nat /\ crCache.gen \in Nat /\ inst.gen \in Nat
         /\ Len(asked) \in Nat /\ idx \in Nat
         /\ \A o \in Item : obj[o] \in Object /\ obj[o].gen \in Nat
<1>1. cr.gen \in Nat /\ crCache.gen \in Nat /\ inst.gen \in Nat
  BY DEF TypeOK, CrRecord
<1>2. Len(asked) \in Nat
  BY DEF TypeOK
<1>3. idx \in Nat
  BY ManifestTypes DEF TypeOK
<1>4. \A o \in Item : obj[o] \in Object /\ obj[o].gen \in Nat
  BY DEF TypeOK, Object
<1>. QED  BY <1>1, <1>2, <1>3, <1>4

LEMMA RequestInit == Init => RequestInv
<1> SUFFICES ASSUME Init PROVE RequestInv
  OBVIOUS
<1>1. TypeInv
  BY TypeInit
<1>2. ServerSpec /\ CachedSpec
  BY DEF Init, ServerSpec, CachedSpec, NoCr
<1>3. AppliedSpec
  BY DEF Init, AppliedSpec, NoObject
<1>. QED
  BY <1>1, <1>2, <1>3 DEF Init, RequestInv, FreshCopies, HeldCopy, SnapshotSpec, Holding

\* A request, once made, keeps its place.
LEMMA AskedGrows ==
  ASSUME TypeOK, NEW record, NEW wish \in Wish, Ask(record, wish)
  PROVE  /\ Len(asked') = Len(asked) + 1
         /\ asked'[Len(asked) + 1] = wish
         /\ \A k \in 1..Len(asked) : asked'[k] = asked[k]
BY DEF TypeOK, Ask

LEMMA AskInv ==
  ASSUME RequestInv, TypeInv', NEW record \in CrRecord, record.gen = cr.gen, NEW wish \in Wish,
         Ask(record, wish)
  PROVE  RequestInv'
<1>a. TypeOK
  BY DEF RequestInv, TypeInv
<1> USE DEF passVars
<1>1. HeldCopy' /\ FreshCopies'
  BY DEF Ask, WriteCr, RequestInv, HeldCopy, FreshCopies, Holding
<1>2. cr'.gen = Len(asked) + 1 /\ cr'.spec = wish /\ Len(asked) \in Nat
  BY <1>a DEF Ask, WriteCr, CrRecord, TypeOK
<1>3. ServerSpec'
  BY <1>a, <1>2, AskedGrows DEF ServerSpec
<1>4. \A k \in Nat : k # 0 /\ k <= crCache.gen => k <= Len(asked') /\ asked'[k] = asked[k]
  BY <1>a, AskedGrows, GenTypes DEF RequestInv, CachedSpec
<1>5. UNCHANGED <<crCache, inst, idx, obj>>
  BY DEF Ask
<1>6. CachedSpec'
  BY <1>a, <1>4, <1>5, AskedGrows, GenTypes DEF RequestInv, CachedSpec
<1>7. SnapshotSpec'
  BY <1>a, <1>4, <1>5, GenTypes DEF RequestInv, SnapshotSpec
<1>8. AppliedSpec'
  BY <1>a, <1>4, <1>5, GenTypes DEF RequestInv, AppliedSpec
<1>. QED  BY <1>1, <1>3, <1>6, <1>7, <1>8 DEF RequestInv

LEMMA WriteFresh ==
  ASSUME RequestInv, NEW o \in Item, NEW record, WriteObject(o, record),
         UNCHANGED <<cr, crCache, crFresh, objCache>>
  PROVE  FreshCopies'
BY DEF RequestInv, TypeInv, TypeOK, WriteObject, FreshCopies

\* Others remove a child, or change what has nothing to do with the requests.
LEMMA OthersWriteInv ==
  ASSUME RequestInv, TypeInv', NEW o \in Item, NEW record \in Object, OthersWrite(o, record),
         record.exists => /\ obj[o].exists /\ record.gen = obj[o].gen
                          /\ record.replicas = obj[o].replicas,
         ~record.exists => record.gen = 0 /\ record.replicas = 0
  PROVE  RequestInv'
<1>a. TypeOK
  BY DEF RequestInv, TypeInv
<1>1. /\ obj' = [obj EXCEPT ![o] = record] /\ WriteObject(o, record)
      /\ copyFresh' = (copyFresh /\ ~(Holding /\ o = Workload))
      /\ UNCHANGED <<cr, crCache, crFresh, objCache, pc, idx, inst, copy, asked>>
  BY DEF OthersWrite, WriteObject
<1>2. FreshCopies'
  BY <1>1, WriteFresh
<1>3. HeldCopy'
  BY <1>a, <1>1, ManifestTypes DEF RequestInv, HeldCopy, Holding, TypeOK
<1>4. \A p \in Item : obj'[p] = IF p = o THEN record ELSE obj[p]
  BY <1>a, <1>1 DEF TypeOK
<1>5. AppliedSpec'
  BY <1>1, <1>4 DEF RequestInv, AppliedSpec
<1>. QED  BY <1>1, <1>2, <1>3, <1>5 DEF RequestInv, ServerSpec, CachedSpec, SnapshotSpec

LEMMA DeletedFollows ==
  ASSUME TypeOK, NEW o \in Item, obj[o].exists
  PROVE  /\ Deleted(o) \in Object
         /\ Deleted(o).exists => /\ obj[o].exists /\ Deleted(o).gen = obj[o].gen
                                 /\ Deleted(o).replicas = obj[o].replicas
         /\ ~Deleted(o).exists => Deleted(o).gen = 0 /\ Deleted(o).replicas = 0
<1>1. obj[o] \in Object
  BY DEF TypeOK
<1>2. CASE o = InsightsPod
  BY <1>1, <1>2, DeletedType DEF Deleted, Object
<1>3. CASE o # InsightsPod
  BY <1>3, DeletedType DEF Deleted, NoObject
<1>. QED  BY <1>2, <1>3

\* A pass ends, or goes on to the next child.
LEMMA ReturnInv ==
  ASSUME RequestInv, TypeInv', Return, FreshCopies', ServerSpec', CachedSpec',
         AppliedSpec'
  PROVE  RequestInv'
BY DEF RequestInv, Return, HeldCopy, Holding, SnapshotSpec

LEMMA NextChildInv ==
  ASSUME RequestInv, TypeInv', NextChild, idx \in DOMAIN Manifest, FreshCopies', AppliedSpec',
         UNCHANGED <<cr, crCache, asked>>
  PROVE  RequestInv'
<1>1. idx # 0
  BY ManifestTypes
<1>. QED
  BY <1>1 DEF RequestInv, NextChild, HeldCopy, Holding, ServerSpec, CachedSpec, SnapshotSpec

\* Nothing changes but where the pass is, and it ends.
LEMMA RequeueInv ==
  ASSUME RequestInv, TypeInv', ReturnAndRequeue,
         UNCHANGED <<cr, crCache, crFresh, obj, objCache, objFresh, asked>>
  PROVE  RequestInv'
<1>1. Return /\ idx' = 0
  BY DEF ReturnAndRequeue, Return
<1>2. FreshCopies' /\ ServerSpec' /\ CachedSpec'
  BY DEF RequestInv, FreshCopies, ServerSpec, CachedSpec
<1>3. AppliedSpec'
  BY <1>1 DEF RequestInv, AppliedSpec
<1>. QED  BY <1>1, <1>2, <1>3, ReturnInv

\* A pass that visits a child creates or scales it from the instance, or marks
\* it as deleted.
LEMMA ApplyInv ==
  ASSUME RequestInv, TypeInv', idx \in DOMAIN Manifest, NEW o \in Item,
         NEW record \in Object, WriteObject(o, record), NextChild,
         record.exists => \/ /\ record.gen = inst.gen
                             /\ o \in Insights => inst.spec.insights
                             /\ o = Workload => record.replicas = inst.spec.admins
                          \/ /\ obj[o].exists /\ record.gen = obj[o].gen
                             /\ record.replicas = obj[o].replicas,
         ~record.exists => record.gen = 0 /\ record.replicas = 0,
         UNCHANGED <<cr, crCache, crFresh, objCache, asked>>
  PROVE  RequestInv'
<1>a. TypeOK
  BY DEF RequestInv, TypeInv
<1>1. idx # 0 /\ idx' # 0 /\ inst' = inst
  <2>1. idx # 0 /\ idx \in Nat
    BY ManifestTypes
  <2>. QED  BY <2>1 DEF NextChild
<1>2. FreshCopies'
  BY WriteFresh
<1>3. \A p \in Item : obj'[p] = IF p = o THEN record ELSE obj[p]
  BY <1>a DEF WriteObject, TypeOK
<1>4. /\ inst.gen # 0 /\ inst.gen <= crCache.gen /\ inst.spec = asked[inst.gen]
      /\ inst.gen \in Nat
  BY <1>a, <1>1, GenTypes DEF RequestInv, SnapshotSpec
<1>5. AppliedSpec'
  BY <1>1, <1>3, <1>4 DEF RequestInv, AppliedSpec
<1>. QED  BY <1>2, <1>5, NextChildInv

LEMMA CreateMissingInv ==
  ASSUME RequestInv, TypeInv', NEW item, Visiting(item), CreateMissing(item),
         item \in Insights => inst.spec.insights
  PROVE  RequestInv'
<1>1. TypeOK /\ idx \in DOMAIN Manifest /\ item \in Item
  BY ManifestTypes DEF RequestInv, TypeInv, Visiting
<1>2. CASE WriteObject(item, NewObject(item)) /\ NextChild
  <2>1. /\ NewObject(item) \in Object /\ NewObject(item).exists /\ NewObject(item).gen = inst.gen
        /\ item = Workload => NewObject(item).replicas = inst.spec.admins
    BY <1>1, NewObjectType DEF NewObject, NoObject
  <2>. QED  BY <1>1, <1>2, <2>1, ApplyInv DEF CreateMissing
<1>3. CASE ReturnAndRequeue /\ UNCHANGED <<obj, objFresh>>
  BY <1>3, RequeueInv DEF CreateMissing
<1>. QED  BY <1>2, <1>3 DEF CreateMissing

LEMMA RequestStep == RequestInv /\ [Next]_vars => RequestInv'
<1> SUFFICES ASSUME RequestInv, [Next]_vars PROVE RequestInv'
  OBVIOUS
<1>a. TypeOK /\ TypeInv /\ TypeInv'
  BY TypeStep DEF RequestInv, TypeInv
<1> USE DEF cacheVars, passVars
<1>1. CASE CreateCr
  <2>1. PICK wish \in Requests : Ask([cr EXCEPT !.exists = TRUE, !.uid = Len(asked) + 1], wish)
    BY <1>1 DEF CreateCr
  <2>2. wish \in Wish /\ Len(asked) + 1 \in Nat /\ cr \in CrRecord
    BY <1>a, AdminConstants DEF TypeOK
  <2>3. /\ [cr EXCEPT !.exists = TRUE, !.uid = Len(asked) + 1] \in CrRecord
        /\ [cr EXCEPT !.exists = TRUE, !.uid = Len(asked) + 1].gen = cr.gen
    BY <2>2 DEF CrRecord
  <2>. QED  BY <1>a, <2>1, <2>2, <2>3, AskInv
<1>2. CASE EditSpec
  <2>1. PICK wish \in Requests : Ask(cr, wish)
    BY <1>2 DEF EditSpec
  <2>. QED  BY <1>a, <2>1, AskInv, AdminConstants DEF TypeOK
<1>3. CASE DeleteCr
  BY <1>a, <1>3 DEF DeleteCr, WriteCr, NoCr, RequestInv, FreshCopies, HeldCopy, Holding,
     ServerSpec, CachedSpec, SnapshotSpec, AppliedSpec
<1>4. CASE PodsChange
  <2>1. PICK n \in 0..MaxReady : OthersWrite(Workload, [obj[Workload] EXCEPT !.ready = n])
    BY <1>4 DEF PodsChange
  <2>2. n \in Nat /\ Workload \in Item /\ obj[Workload] \in Object /\ obj[Workload].exists
    BY <1>a, <1>4, AdminConstants DEF PodsChange, TypeOK
  <2> DEFINE record == [obj[Workload] EXCEPT !.ready = n]
  <2>3. /\ record \in Object /\ record.exists /\ record.gen = obj[Workload].gen
        /\ record.replicas = obj[Workload].replicas
    BY <2>2 DEF Object
  <2>. QED  BY <1>a, <2>1, <2>2, <2>3, OthersWriteInv
<1>5. CASE Settle
  BY <1>a, <1>5 DEF Settle, RequestInv, FreshCopies, HeldCopy, Holding, ServerSpec, CachedSpec,
     SnapshotSpec, AppliedSpec
<1>6. ASSUME NEW o \in Item, DeleteChild(o) \/ GarbageCollect(o) PROVE RequestInv'
  BY <1>a, <1>6, DeletedFollows, OthersWriteInv DEF DeleteChild, GarbageCollect
<1>7. ASSUME NEW o \in Item, Terminate(o) PROVE RequestInv'
  <2>1. ~NoObject.exists /\ NoObject.gen = 0 /\ NoObject.replicas = 0
    BY DEF NoObject
  <2>. QED  BY <1>a, <1>7, <2>1, BlankTypes, OthersWriteInv DEF Terminate
<1>8. CASE SyncCr
  <2>1. crCache.gen <= crCache'.gen /\ crCache' = cr
    BY <1>a, <1>8 DEF SyncCr, RequestInv, ServerSpec, CachedSpec
  <2>2. FreshCopies' /\ HeldCopy' /\ ServerSpec' /\ CachedSpec'
    BY <1>a, <1>8, GenTypes
       DEF SyncCr, RequestInv, FreshCopies, HeldCopy, Holding, ServerSpec, CachedSpec
  <2>3. SnapshotSpec' /\ AppliedSpec'
    BY <1>a, <1>8, <2>1, GenTypes DEF SyncCr, RequestInv, SnapshotSpec, AppliedSpec
  <2>. QED  BY <1>a, <2>2, <2>3 DEF RequestInv
<1>9. ASSUME NEW o \in Item, SyncObject(o) PROVE RequestInv'
  <2>1. FreshCopies'
    BY <1>a, <1>9 DEF SyncObject, RequestInv, FreshCopies, TypeOK
  <2>. QED
    BY <1>a, <1>9, <2>1 DEF SyncObject, RequestInv, HeldCopy, Holding, ServerSpec, CachedSpec,
       SnapshotSpec, AppliedSpec
<1>10. CASE StartPass
  <2>1. FreshCopies' /\ ServerSpec' /\ CachedSpec'
    BY <1>10 DEF StartPass, RequestInv, FreshCopies, ServerSpec, CachedSpec
  <2>2. idx = 0
    BY <1>a, <1>10 DEF StartPass, TypeInv, PassShape
  <2>3. CASE idx' = 0
    BY <1>a, <1>10, <2>1, <2>3 DEF StartPass, RequestInv, HeldCopy, Holding, SnapshotSpec, AppliedSpec
  <2>4. CASE pc' = "visit" /\ idx' = 1 /\ inst' = crCache /\ crCache.exists
    BY <1>a, <1>10, <2>1, <2>4, GenTypes
       DEF StartPass, RequestInv, HeldCopy, Holding, CachedSpec, SnapshotSpec, AppliedSpec
  <2>. QED  BY <1>10, <2>2, <2>3, <2>4 DEF StartPass
<1>11. CASE FinishPass
  BY <1>a, <1>11, RequeueInv DEF FinishPass
<1>12. ASSUME NEW item \in Item, Visiting(item), Skip PROVE RequestInv'
  <2>1. idx \in DOMAIN Manifest /\ idx # 0 /\ idx' # 0 /\ NextChild
    BY <1>12, ManifestTypes DEF Visiting, Skip, NextChild
  <2>2. FreshCopies' /\ AppliedSpec'
    BY <1>12, <2>1 DEF Skip, NextChild, RequestInv, FreshCopies, AppliedSpec
  <2>. QED  BY <1>a, <1>12, <2>1, <2>2, NextChildInv DEF Skip
<1>13. ASSUME NEW item \in Item, ReconcilePlain(item) PROVE RequestInv'
  BY <1>a, <1>12, <1>13, CreateMissingInv DEF ReconcilePlain
<1>14. ASSUME NEW item \in Item, ReconcileInsights(item) PROVE RequestInv'
  <2>1. Visiting(item) /\ idx \in DOMAIN Manifest /\ item \in Insights
    BY <1>14 DEF ReconcileInsights, Visiting
  <2>2. CASE ~Disabled(item) /\ CreateMissing(item)
    BY <1>a, <2>1, <2>2, CreateMissingInv DEF Disabled
  <2>3. CASE DeleteDisabled(item)
    <3>1. CASE obj[item].exists /\ WriteObject(item, Deleted(item)) /\ NextChild
      BY <1>a, <2>1, <2>3, <3>1, DeletedFollows, ApplyInv DEF DeleteDisabled
    <3>2. CASE ReturnAndRequeue /\ UNCHANGED <<obj, objFresh>>
      BY <1>a, <2>3, <3>2, RequeueInv DEF DeleteDisabled
    <3>. QED  BY <2>3, <3>1, <3>2 DEF DeleteDisabled
  <2>. QED  BY <1>12, <1>14, <2>1, <2>2, <2>3 DEF ReconcileInsights
<1>15. CASE ReconcileStatefulSet
  <2>1. Visiting(Workload) /\ Workload \notin Insights /\ Workload \in Item
    BY <1>15, AdminConstants DEF ReconcileStatefulSet
  <2>2. CASE CreateMissing(Workload)
    BY <1>a, <2>1, <2>2, CreateMissingInv
  <2>3. CASE /\ objCache[Workload].exists
             /\ pc' = "readyCount" /\ copy' = objCache[Workload] /\ copyFresh' = objFresh[Workload]
             /\ UNCHANGED <<cr, obj, cacheVars, idx, inst, newStatus, pending, quiet, asked>>
    BY <1>a, <2>1, <2>3 DEF RequestInv, FreshCopies, HeldCopy, Holding, ServerSpec, CachedSpec,
       SnapshotSpec, AppliedSpec
  <2>. QED  BY <1>15, <2>2, <2>3 DEF ReconcileStatefulSet
<1>16. CASE UpdateAdminReadyCount
  BY <1>a, <1>16 DEF UpdateAdminReadyCount, RequestInv, TypeInv, PassShape, FreshCopies, HeldCopy,
     Holding, ServerSpec, CachedSpec, SnapshotSpec, AppliedSpec
<1>17. CASE UpdateStatus
  <2> DEFINE status == WithHealth(newStatus, crCache.spec)
  <2>1. UNCHANGED <<obj, crCache, objCache, objFresh, quiet, asked>>
    BY <1>17 DEF UpdateStatus
  <2>2. /\ cr'.gen = cr.gen /\ cr'.exists = cr.exists /\ cr'.spec = cr.spec
        /\ crFresh' => crFresh /\ UNCHANGED cr
    <3>1. CASE UNCHANGED <<cr, crFresh>>
      BY <3>1
    <3>2. CASE crFresh /\ WriteCr([crCache EXCEPT !.status = status])
      <4>1. crCache = cr /\ cr \in CrRecord
        BY <1>a, <3>2 DEF RequestInv, FreshCopies, TypeOK
      <4>2. cr' = [cr EXCEPT !.status = status] /\ ~crFresh'
        BY <3>2, <4>1 DEF WriteCr
      <4>. QED  BY <4>1, <4>2 DEF CrRecord
    <3>. QED  BY <1>17, <3>1, <3>2 DEF UpdateStatus
  <2>3. FreshCopies' /\ ServerSpec' /\ CachedSpec'
    BY <2>1, <2>2 DEF RequestInv, FreshCopies, ServerSpec, CachedSpec
  <2>4. CASE ReturnAndRequeue
    <3>1. AppliedSpec'
      BY <2>1, <2>4 DEF RequestInv, ReturnAndRequeue, Return, AppliedSpec
    <3>. QED  BY <1>a, <2>3, <2>4, <3>1, ReturnInv DEF ReturnAndRequeue
  <2>5. CASE pc' = "scale" /\ UNCHANGED <<idx, inst, copy, copyFresh>>
    BY <1>a, <1>17, <2>1, <2>3, <2>5 DEF UpdateStatus, RequestInv, HeldCopy, Holding, SnapshotSpec,
       AppliedSpec
  <2>. QED  BY <1>17, <2>4, <2>5 DEF UpdateStatus, StatusDone
<1>18. CASE Scale
  <2>1. /\ idx \in DOMAIN Manifest /\ Workload \in Item /\ Workload \notin Insights
        /\ UNCHANGED <<cr, crCache, crFresh, objCache, quiet, asked>>
    BY <1>a, <1>18, AdminConstants DEF Scale, TypeInv, PassShape
  <2>2. CASE WriteObject(Workload, [copy EXCEPT !.replicas = inst.spec.admins, !.gen = inst.gen])
             /\ NextChild
    <3> DEFINE record == [copy EXCEPT !.replicas = inst.spec.admins, !.gen = inst.gen]
    <3>1. copy \in Object /\ inst.spec.admins \in Nat /\ inst.gen \in Nat /\ copy.exists
      BY <1>a, <1>18 DEF Scale, RequestInv, TypeInv, PassShape, HeldCopy, Holding, TypeOK,
         CrRecord, Wish
    <3>2. /\ record \in Object /\ record.exists /\ record.gen = inst.gen
          /\ record.replicas = inst.spec.admins
      BY <3>1 DEF Object
    <3>. QED  BY <1>a, <2>1, <2>2, <3>2, ApplyInv
  <2>3. CASE NextChild /\ UNCHANGED <<obj, objFresh>>
    <3>1. FreshCopies' /\ AppliedSpec'
      BY <1>a, <1>18, <2>1, <2>3 DEF Scale, NextChild, RequestInv, TypeInv, PassShape, FreshCopies,
         AppliedSpec
    <3>. QED  BY <1>a, <2>1, <2>3, <3>1, NextChildInv
  <2>4. CASE ReturnAndRequeue /\ UNCHANGED <<obj, objFresh>>
    BY <1>a, <2>1, <2>4, RequeueInv
  <2>. QED  BY <1>18, <2>2, <2>3, <2>4 DEF Scale
<1>19. CASE PassError
  BY <1>a, <1>19, RequeueInv DEF PassError
<1>20. CASE Restart
  <2>1. FreshCopies' /\ ServerSpec' /\ CachedSpec'
    BY <1>a, <1>20, GenTypes DEF Restart, RequestInv, FreshCopies, ServerSpec, CachedSpec
  <2>2. AppliedSpec'
    BY <1>a, <1>20, GenTypes DEF Restart, Return, RequestInv, ServerSpec, CachedSpec, AppliedSpec
  <2>. QED  BY <1>a, <1>20, <2>1, <2>2, ReturnInv DEF Restart
<1>21. CASE UNCHANGED vars
  BY <1>a, <1>21 DEF vars, RequestInv, FreshCopies, HeldCopy, Holding, ServerSpec, CachedSpec,
     SnapshotSpec, AppliedSpec
<1>. QED
  BY <1>1, <1>2, <1>3, <1>4, <1>5, <1>6, <1>7, <1>8, <1>9, <1>10, <1>11, <1>13, <1>14, <1>15,
     <1>16, <1>17, <1>18, <1>19, <1>20, <1>21
     DEF Next, PassStep

LEMMA RequestInvariant == Spec => []RequestInv
BY RequestInit, RequestStep, PTL DEF Spec

-----------------------------------------------------------------------------
\* A step of the pass that deletes a child is DeleteDisabled.
LEMMA OnlyDisabledDeleted ==
  ASSUME RequestInv, [Next]_vars, NEW o \in Item, idx' # idx,
         obj[o].exists, ~obj[o].terminating, ~obj'[o].exists \/ obj'[o].terminating
  PROVE  Visiting(o) /\ DeleteDisabled(o) /\ obj' = [obj EXCEPT ![o] = Deleted(o)]
<1>a. TypeOK /\ TypeInv /\ o \in DOMAIN obj
  BY DEF RequestInv, TypeInv, TypeOK
<1>1. obj'[o] # obj[o]
  OBVIOUS
<1>2. ASSUME NEW item, CreateMissing(item) PROVE FALSE
  <2>1. ~obj[item].exists /\ obj' = [obj EXCEPT ![item] = NewObject(item)]
    BY <1>1, <1>2 DEF CreateMissing, WriteObject
  <2>. QED  BY <1>1, <2>1
<1>3. ASSUME Scale PROVE FALSE
  <2>1. /\ obj' = [obj EXCEPT ![Workload] = [copy EXCEPT !.replicas = inst.spec.admins,
                                                         !.gen = inst.gen]]
        /\ copyFresh
    BY <1>1, <1>3 DEF Scale, WriteObject
  <2>2. copy = obj[Workload] /\ copy \in Object
    BY <1>a, <1>3, <2>1 DEF Scale, RequestInv, TypeInv, PassShape, HeldCopy, Holding, TypeOK
  <2>3. CASE o = Workload
    <3>1. obj'[o] = [copy EXCEPT !.replicas = inst.spec.admins, !.gen = inst.gen]
      BY <1>a, <2>1, <2>3
    <3>2. obj'[o].exists = copy.exists /\ obj'[o].terminating = copy.terminating
      BY <2>2, <3>1 DEF Object
    <3>. QED  BY <2>2, <2>3, <3>2
  <2>4. CASE o # Workload
    BY <1>1, <2>1, <2>4
  <2>. QED  BY <2>3, <2>4
<1>4. PICK item \in Item : ReconcileInsights(item) /\ DeleteDisabled(item)
  BY <1>1, <1>2, <1>3
     DEF Next, PassStep, vars, cacheVars, passVars, CreateCr, EditSpec, Ask, DeleteCr, PodsChange,
         OthersWrite, Settle, PassError, Restart, DeleteChild, GarbageCollect, Terminate,
         SyncCr, SyncObject, StartPass, FinishPass, UpdateAdminReadyCount, UpdateStatus,
         ReconcilePlain, ReconcileInsights, ReconcileStatefulSet, Skip
<1>5. obj' = [obj EXCEPT ![item] = Deleted(item)] /\ Visiting(item)
  BY <1>1, <1>4 DEF DeleteDisabled, ReconcileInsights, WriteObject
<1>6. item = o
  BY <1>1, <1>5
<1>. QED  BY <1>4, <1>5, <1>6

\* A delete by name, decided on an old instance and an old copy, never hits a Pod
\* or Service of Insights that was created for a request after which nobody
\* switched Insights off: the one worker creates none that is later than the
\* instance of the pass.
THEOREM OnlyDisabledAreDeleted == Spec => DeletesOnlyDisabled
<1> DEFINE Allowed(o) ==
       \/ idx' = idx \/ ~obj[o].exists \/ obj[o].terminating
       \/ obj'[o].exists /\ ~obj'[o].terminating
       \/ \E i \in obj[o].gen + 1 .. Len(asked) : ~asked[i].insights
<1>1. RequestInv /\ [Next]_vars => [\A o \in Item : Allowed(o)]_<<obj, idx>>
  <2> SUFFICES ASSUME RequestInv, [Next]_vars, NEW o \in Item, idx' # idx,
                      obj[o].exists, ~obj[o].terminating, ~obj'[o].exists \/ obj'[o].terminating
               PROVE  \E i \in obj[o].gen + 1 .. Len(asked) : ~asked[i].insights
    OBVIOUS
  <2>1. TypeOK /\ Visiting(o) /\ DeleteDisabled(o)
    BY OnlyDisabledDeleted DEF RequestInv, TypeInv
  <2>2. idx # 0 /\ o \in Insights /\ ~inst.spec.insights
    BY <2>1, ManifestTypes DEF Visiting, DeleteDisabled, Disabled
  <2>3. /\ inst.gen <= crCache.gen /\ crCache.gen <= Len(asked)
        /\ inst.spec = asked[inst.gen]
    BY <2>2 DEF RequestInv, SnapshotSpec, CachedSpec
  <2>4. obj[o].gen <= inst.gen /\ asked[obj[o].gen].insights
    BY <2>2 DEF RequestInv, AppliedSpec
  <2>5. obj[o].gen # inst.gen
    BY <2>2, <2>3, <2>4
  <2>6. inst.gen \in obj[o].gen + 1 .. Len(asked)
    BY <2>1, <2>3, <2>4, <2>5, GenTypes
  <2>. QED  BY <2>2, <2>3, <2>6
<1>. QED  BY <1>1, RequestInvariant, PTL DEF Spec, DeletesOnlyDisabled

\* A status written by updateStatus shows the light of the adminCount on the
\* server at that moment: the copy it was taken from is fresh when the write
\* succeeds.
THEOREM AdminLightsAreCurrent == Spec => LightsMatchSpecWhenWritten
<1> DEFINE Current == cr'.status # cr.status /\ cr'.status.init
                        => cr'.status.health = RoleHealth(cr'.status.count, cr'.spec.admins)
<1>1. RequestInv /\ [Next]_vars => [Current]_cr
  <2> SUFFICES ASSUME RequestInv, [Next]_vars, cr' # cr PROVE Current
    OBVIOUS
  <2>a. TypeOK
    BY DEF RequestInv, TypeInv
  <2>1. CASE CreateCr \/ EditSpec
    <3>1. ASSUME NEW record \in CrRecord, NEW wish, Ask(record, wish), record.status = cr.status
          PROVE  Current
      BY <3>1 DEF Ask, WriteCr, CrRecord
    <3>2. cr \in CrRecord /\ Len(asked) + 1 \in Nat
      BY <2>a DEF TypeOK
    <3>3. /\ [cr EXCEPT !.exists = TRUE, !.uid = Len(asked) + 1] \in CrRecord
          /\ [cr EXCEPT !.exists = TRUE, !.uid = Len(asked) + 1].status = cr.status
      BY <3>2 DEF CrRecord
    <3>. QED  BY <2>1, <3>1, <3>2, <3>3 DEF CreateCr, EditSpec
  <2>2. CASE DeleteCr
    BY <2>2 DEF DeleteCr, WriteCr, NoCr, NoStatus
  <2>3. CASE UpdateStatus
    <3> DEFINE status == WithHealth(newStatus, crCache.spec)
    <3>1. cr' = [crCache EXCEPT !.status = status]
      BY <2>3 DEF UpdateStatus, WriteCr
    <3>2. crCache \in CrRecord /\ newStatus \in Status
      BY <2>a DEF TypeOK
    <3>3. cr'.status = status /\ cr'.spec = crCache.spec
      BY <3>1, <3>2 DEF CrRecord
    <3>4. /\ status.count = newStatus.count
          /\ status.health = RoleHealth(newStatus.count, crCache.spec.admins)
      BY <3>2 DEF WithHealth, Status
    <3>. QED  BY <3>3, <3>4
  <2>. QED
    BY <2>1, <2>2, <2>3
       DEF Next, PassStep, vars, cacheVars, passVars, PodsChange, OthersWrite, Settle, PassError,
           Restart, DeleteChild, GarbageCollect, Terminate, SyncCr, SyncObject, StartPass,
           FinishPass, UpdateAdminReadyCount, ReconcilePlain, ReconcileInsights,
           ReconcileStatefulSet, CreateMissing, DeleteDisabled, Skip, Scale
<1>. QED  BY <1>1, RequestInvariant, PTL DEF Spec, LightsMatchSpecWhenWritten

-----------------------------------------------------------------------------
(***************************************************************************)
(* The refinement: each step maps to a step of ReplicaRequests or to a     *)
(* stutter.  The mapping looks at the requests' adminCount only, so the    *)
(* two records of it come first.                                           *)
(***************************************************************************)
Domain    == {"domain"}
Admins    == {"admin"}
Workloads == {<<"domain", "admin">>}

AskedAdmins(requests) ==
  [n \in Domain |-> [i \in DOMAIN requests |-> [p \in Admins |-> requests[i].admins]]]

LEMMA AppendAdmins ==
  ASSUME NEW requests \in Seq(Wish), NEW wish \in Wish
  PROVE  AskedAdmins(Append(requests, wish))
           = [AskedAdmins(requests) EXCEPT !["domain"] = Append(@, [p \in Admins |-> wish.admins])]
<1> DEFINE number(request) == [p \in Admins |-> request.admins]
           row(s) == [i \in DOMAIN s |-> number(s[i])]
           appended == Append(row(requests), number(wish))
<1>1. \A request \in Wish : number(request) \in [Admins -> Nat]
  BY DEF Wish
<1> HIDE DEF number
<1>2. /\ row(requests) \in Seq([Admins -> Nat]) /\ Len(row(requests)) = Len(requests)
      /\ Len(requests) \in Nat /\ DOMAIN requests = 1..Len(requests)
  <2>1. DOMAIN requests = 1..Len(requests) /\ Len(requests) \in Nat
    OBVIOUS
  <2>2. \A i \in DOMAIN requests : number(requests[i]) \in [Admins -> Nat]
    BY <1>1
  <2>. QED  BY <2>1, <2>2
<1>3. appended = row(Append(requests, wish))
  <2>1. DOMAIN Append(requests, wish) = 1..(Len(requests) + 1)
    OBVIOUS
  <2>2. /\ appended \in Seq([Admins -> Nat]) /\ Len(appended) = Len(requests) + 1
    BY <1>1, <1>2
  <2>3. DOMAIN appended = 1..(Len(requests) + 1)
    BY <1>2, <2>2
  <2>4. ASSUME NEW i \in 1..(Len(requests) + 1) PROVE appended[i] = number(Append(requests, wish)[i])
    <3>1. CASE i = Len(requests) + 1
      BY <1>1, <1>2, <3>1
    <3>2. CASE i \in 1..Len(requests)
      BY <1>1, <1>2, <3>2
    <3>. QED  BY <1>2, <3>1, <3>2
  <2> DEFINE rhs == row(Append(requests, wish))
  <2>5. /\ DOMAIN rhs = 1..(Len(requests) + 1)
        /\ \A i \in 1..(Len(requests) + 1) : rhs[i] = number(Append(requests, wish)[i])
        /\ rhs = [i \in DOMAIN rhs |-> rhs[i]]
    BY <2>1
  <2>6. appended = [i \in DOMAIN appended |-> appended[i]]
    BY <2>2
  <2> HIDE DEF appended, rhs
  <2>7. appended = rhs
    BY <2>3, <2>4, <2>5, <2>6
  <2>. QED  BY <2>7 DEF rhs
<1>4. /\ AskedAdmins(requests) = [n \in Domain |-> row(requests)]
      /\ AskedAdmins(Append(requests, wish)) = [n \in Domain |-> row(Append(requests, wish))]
  BY DEF AskedAdmins, number
<1> HIDE DEF row
<1>5. AskedAdmins(Append(requests, wish))
        = [AskedAdmins(requests) EXCEPT !["domain"] = appended]
  BY <1>3, <1>4 DEF Domain
<1>6. AskedAdmins(requests)["domain"] = row(requests)
  BY <1>4 DEF Domain
<1>. QED  BY <1>5, <1>6 DEF number

\* Nothing of what the mapping looks at changes.
LEMMA Stutter ==
  ASSUME UNCHANGED asked, cr'.spec = cr.spec,
         obj'[Workload].gen = obj[Workload].gen,
         obj'[Workload].replicas = obj[Workload].replicas
  PROVE  UNCHANGED Requested!vars
BY DEF Requested!vars

LEMMA AskRefines ==
  ASSUME TypeOK, NEW record \in CrRecord, NEW wish \in Wish, Ask(record, wish)
  PROVE  [Requested!Next]_(Requested!vars)
<1>1. /\ cr' = [record EXCEPT !.gen = Len(asked) + 1, !.spec = wish]
      /\ asked' = Append(asked, wish) /\ obj' = obj
  BY DEF Ask, WriteCr
<1>2. cr'.spec = wish
  BY <1>1 DEF CrRecord
<1>3. asked \in Seq(Wish) /\ wish.admins \in Nat
  BY DEF TypeOK, Wish
<1>4. AskedAdmins(asked')
        = [AskedAdmins(asked) EXCEPT !["domain"] = Append(@, [p \in Admins |-> wish.admins])]
  BY <1>1, <1>3, AppendAdmins
<1> DEFINE spec == [n \in Domain |-> [p \in Admins |-> cr.spec.admins]]
<1>5. /\ spec'["domain"] = [p \in Admins |-> wish.admins]
      /\ spec' = [spec EXCEPT !["domain"] = [p \in Admins |-> wish.admins]]
      /\ spec'["domain"] \in [Admins -> Nat]
  BY <1>2, <1>3 DEF Domain
<1>6. Requested!Ask("domain")
  BY <1>1, <1>4, <1>5 DEF Requested!Ask, AskedAdmins, Domain, Admins
<1>. QED  BY <1>6 DEF Requested!Next

\* A write of a child keeps the request and the replicas of the StatefulSet, takes
\* both to zero, or takes them to a later request.
LEMMA WriteRefines ==
  ASSUME TypeOK, NEW o \in Item, NEW record \in Object, obj' = [obj EXCEPT ![o] = record],
         UNCHANGED <<cr, asked>>,
         o = Workload =>
           \/ record.gen = 0 /\ record.replicas = 0
           \/ record.gen = obj[o].gen /\ record.replicas = obj[o].replicas
           \/ /\ record.gen \in 1..Len(asked) /\ record.gen > obj[o].gen
              /\ record.replicas = asked[record.gen].admins
  PROVE  [Requested!Next]_(Requested!vars)
<1>1. obj'[Workload] = IF o = Workload THEN record ELSE obj[Workload]
  BY ManifestTypes DEF TypeOK
<1> DEFINE w == <<"domain", "admin">>
           applied  == [v \in Workloads |-> obj[Workload].gen]
           replicas == [v \in Workloads |-> obj[Workload].replicas]
<1>2. CASE o # Workload \/ (record.gen = obj[o].gen /\ record.replicas = obj[o].replicas)
  BY <1>1, <1>2, Stutter
<1>3. CASE o = Workload /\ record.gen = 0 /\ record.replicas = 0
  <2>1. /\ applied' = [applied EXCEPT ![w] = 0]
        /\ replicas' = [replicas EXCEPT ![w] = 0]
    BY <1>1, <1>3 DEF Workloads
  <2>2. Requested!Remove(w)
    BY <2>1 DEF Requested!Remove, Workloads
  <2>. QED  BY <2>2 DEF Requested!Next
<1>4. CASE /\ o = Workload /\ record.gen \in 1..Len(asked) /\ record.gen > obj[o].gen
           /\ record.replicas = asked[record.gen].admins
  <2> DEFINE k == record.gen
             number == asked[k].admins
  <2>1. /\ applied' = [applied EXCEPT ![w] = k]
        /\ replicas' = [replicas EXCEPT ![w] = number]
        /\ k > applied[w]
    <3>1. obj'[Workload].gen = k /\ obj'[Workload].replicas = number /\ k > obj[Workload].gen
      BY <1>1, <1>4
    <3>2. applied' = [v \in Workloads |-> k] /\ replicas' = [v \in Workloads |-> number]
      BY <3>1
    <3>3. applied[w] = obj[Workload].gen
      BY DEF Workloads
    <3> HIDE DEF k, number, applied, replicas
    <3>4. [v \in Workloads |-> k] = [applied EXCEPT ![w] = k]
      BY DEF applied, Workloads
    <3>5. [v \in Workloads |-> number] = [replicas EXCEPT ![w] = number]
      BY DEF replicas, Workloads
    <3>. QED  BY <3>1, <3>2, <3>3, <3>4, <3>5
  <2>2. /\ DOMAIN asked = 1..Len(asked) /\ w[1] = "domain" /\ w[2] = "admin"
        /\ record.gen \in DOMAIN asked
    BY <1>4 DEF TypeOK
  <2>3. /\ AskedAdmins(asked)[w[1]] = [i \in DOMAIN asked |-> [p \in Admins |-> asked[i].admins]]
        /\ record.gen \in DOMAIN AskedAdmins(asked)[w[1]]
        /\ AskedAdmins(asked)[w[1]][record.gen][w[2]] = asked[record.gen].admins
    BY <2>2 DEF AskedAdmins, Domain, Admins
  <2>4. /\ UNCHANGED AskedAdmins(asked)
        /\ UNCHANGED [n \in Domain |-> [p \in Admins |-> cr.spec.admins]]
    BY DEF AskedAdmins
  <2>5. Requested!Apply(w, k)
    <3>1. replicas' = [replicas EXCEPT ![w] = AskedAdmins(asked)[w[1]][k][w[2]]]
      BY <2>1, <2>3
    <3> HIDE DEF k
    <3>. QED
      BY <2>1, <2>3, <2>4, <3>1 DEF Requested!Apply, AskedAdmins, Workloads, Domain, Admins, k
  <2>. QED  BY <2>3, <2>5 DEF Requested!Next, AskedAdmins, Workloads, Domain, Admins
<1>. QED  BY <1>2, <1>3, <1>4

LEMMA CreateMissingRefines ==
  ASSUME RequestInv, NEW item, Visiting(item), CreateMissing(item)
  PROVE  [Requested!Next]_(Requested!vars)
<1>1. TypeOK /\ idx # 0 /\ item \in Item
  BY ManifestTypes DEF RequestInv, TypeInv, Visiting
<1>2. CASE WriteObject(item, NewObject(item)) /\ ~obj[item].exists
  <2>1. /\ NewObject(item) \in Object /\ NewObject(item).gen = inst.gen
        /\ item = Workload => NewObject(item).replicas = inst.spec.admins
    BY <1>1, NewObjectType DEF NewObject, NoObject
  <2>2. /\ inst.gen # 0 /\ inst.gen <= Len(asked) /\ inst.spec = asked[inst.gen]
        /\ inst.gen \in Nat /\ obj[item].gen = 0
    BY <1>1, <1>2, GenTypes DEF RequestInv, SnapshotSpec, CachedSpec, AppliedSpec
  <2>3. inst.gen \in 1..Len(asked) /\ inst.gen > obj[item].gen
    BY <1>1, <2>2, GenTypes
  <2>. QED  BY <1>1, <1>2, <2>1, <2>2, <2>3, WriteRefines DEF CreateMissing, WriteObject
<1>3. CASE UNCHANGED <<obj, objFresh>>
  BY <1>3, Stutter DEF CreateMissing
<1>. QED  BY <1>2, <1>3 DEF CreateMissing

LEMMA ScaleRefines ==
  ASSUME RequestInv, Scale
  PROVE  [Requested!Next]_(Requested!vars)
<1>1. /\ TypeOK /\ idx # 0 /\ Workload \in Item /\ copy.exists
      /\ UNCHANGED <<cr, asked>>
  BY ManifestTypes DEF Scale, RequestInv, TypeInv, PassShape, HeldCopy, Holding
<1>2. CASE UNCHANGED <<obj, objFresh>>
  BY <1>1, <1>2, Stutter
<1>3. CASE /\ copy.replicas # inst.spec.admins /\ copyFresh
           /\ WriteObject(Workload, [copy EXCEPT !.replicas = inst.spec.admins, !.gen = inst.gen])
  <2> DEFINE record == [copy EXCEPT !.replicas = inst.spec.admins, !.gen = inst.gen]
  <2>1. copy \in Object /\ inst.spec.admins \in Nat /\ inst.gen \in Nat
    BY <1>1 DEF TypeOK, CrRecord, Wish
  <2>2. record \in Object /\ record.gen = inst.gen /\ record.replicas = inst.spec.admins
    BY <2>1 DEF Object
  <2>3. copy = obj[Workload]
    BY <1>1, <1>3 DEF Scale, RequestInv, HeldCopy, Holding
  <2>4. obj[Workload].gen <= inst.gen /\ obj[Workload].replicas = asked[obj[Workload].gen].admins
    BY <1>1, <2>3 DEF RequestInv, AppliedSpec
  <2>5. /\ inst.gen # 0 /\ inst.gen <= crCache.gen /\ crCache.gen <= Len(asked)
        /\ inst.spec = asked[inst.gen]
    BY <1>1 DEF RequestInv, SnapshotSpec, CachedSpec
  <2>6. obj[Workload].gen # inst.gen
    BY <1>3, <2>3, <2>4, <2>5
  <2>7. inst.gen \in 1..Len(asked) /\ inst.gen > obj[Workload].gen
    BY <1>1, <2>4, <2>5, <2>6, GenTypes
  <2>. QED  BY <1>1, <1>3, <2>2, <2>5, <2>7, WriteRefines DEF WriteObject
<1>. QED  BY <1>2, <1>3 DEF Scale

LEMMA RequestsStep == RequestInv /\ [Next]_vars => [Requested!Next]_(Requested!vars)
<1> SUFFICES ASSUME RequestInv, [Next]_vars PROVE [Requested!Next]_(Requested!vars)
  OBVIOUS
<1>a. TypeOK /\ Workload \in Item
  BY ManifestTypes DEF RequestInv, TypeInv
<1> USE DEF cacheVars, passVars
<1>1. CASE CreateCr
  <2>1. PICK wish \in Requests : Ask([cr EXCEPT !.exists = TRUE, !.uid = Len(asked) + 1], wish)
    BY <1>1 DEF CreateCr
  <2>2. wish \in Wish /\ Len(asked) + 1 \in Nat /\ cr \in CrRecord
    BY <1>a, AdminConstants DEF TypeOK
  <2>3. [cr EXCEPT !.exists = TRUE, !.uid = Len(asked) + 1] \in CrRecord
    BY <2>2 DEF CrRecord
  <2>. QED  BY <1>a, <2>1, <2>2, <2>3, AskRefines
<1>2. CASE EditSpec
  BY <1>a, <1>2, AskRefines, AdminConstants DEF EditSpec, TypeOK
<1>3. CASE DeleteCr
  <2> DEFINE spec == [n \in Domain |-> [p \in Admins |-> cr.spec.admins]]
  <2>1. cr'.spec.admins = 0 /\ UNCHANGED <<obj, asked>>
    BY <1>3 DEF DeleteCr, WriteCr, NoCr, NoWish
  <2>2. spec' = [spec EXCEPT !["domain"] = [p \in Admins |-> 0]]
    BY <2>1 DEF Domain
  <2>3. Requested!Withdraw("domain")
    BY <2>1, <2>2 DEF Requested!Withdraw, Requested!Nothing, Domain, Admins
  <2>. QED  BY <2>3 DEF Requested!Next
<1>4. CASE PodsChange
  <2>1. PICK n \in 0..MaxReady : OthersWrite(Workload, [obj[Workload] EXCEPT !.ready = n])
    BY <1>4 DEF PodsChange
  <2> DEFINE record == [obj[Workload] EXCEPT !.ready = n]
  <2>2. n \in Nat /\ obj[Workload] \in Object
    BY <1>a, AdminConstants DEF TypeOK
  <2>3. /\ record \in Object /\ record.gen = obj[Workload].gen
        /\ record.replicas = obj[Workload].replicas
    BY <2>2 DEF Object
  <2>. QED  BY <1>a, <2>1, <2>3, WriteRefines DEF OthersWrite, WriteObject
<1>5. ASSUME NEW o \in Item, obj[o].exists, OthersWrite(o, Deleted(o))
      PROVE  [Requested!Next]_(Requested!vars)
  BY <1>a, <1>5, DeletedFollows, WriteRefines DEF OthersWrite, WriteObject
<1>6. ASSUME NEW o \in Item, Terminate(o) PROVE [Requested!Next]_(Requested!vars)
  <2>1. NoObject \in Object /\ NoObject.gen = 0 /\ NoObject.replicas = 0
    BY BlankTypes DEF NoObject
  <2>. QED  BY <1>a, <1>6, <2>1, WriteRefines DEF Terminate, OthersWrite, WriteObject
<1>7. ASSUME UNCHANGED <<cr, obj, asked>> PROVE [Requested!Next]_(Requested!vars)
  BY <1>7, Stutter
<1>8. CASE UpdateStatus
  <2>1. UNCHANGED <<obj, asked>>
    BY <1>8 DEF UpdateStatus
  <2>2. CASE UNCHANGED cr
    BY <1>7, <2>1, <2>2
  <2>3. CASE crFresh /\ WriteCr([crCache EXCEPT !.status = WithHealth(newStatus, crCache.spec)])
    <3>1. crCache = cr /\ cr \in CrRecord
      BY <1>a, <2>3 DEF RequestInv, FreshCopies, TypeOK
    <3>2. cr'.spec = cr.spec
      BY <2>3, <3>1 DEF WriteCr, CrRecord
    <3>. QED  BY <2>1, <3>2, Stutter
  <2>. QED  BY <1>8, <2>2, <2>3 DEF UpdateStatus
<1>9. ASSUME NEW item \in Item, ReconcilePlain(item) \/ ReconcileInsights(item)
      PROVE  [Requested!Next]_(Requested!vars)
  <2>1. Visiting(item)
    BY <1>9 DEF ReconcilePlain, ReconcileInsights
  <2>2. CASE CreateMissing(item)
    BY <2>1, <2>2, CreateMissingRefines
  <2>3. CASE DeleteDisabled(item)
    <3>1. CASE obj[item].exists /\ WriteObject(item, Deleted(item))
      BY <1>a, <2>3, <3>1, DeletedFollows, WriteRefines DEF DeleteDisabled, WriteObject
    <3>2. CASE UNCHANGED <<obj, objFresh>>
      BY <1>7, <2>3, <3>2 DEF DeleteDisabled
    <3>. QED  BY <2>3, <3>1, <3>2 DEF DeleteDisabled
  <2>. QED  BY <1>7, <1>9, <2>2, <2>3 DEF ReconcilePlain, ReconcileInsights, Skip
<1>10. CASE ReconcileStatefulSet
  BY <1>7, <1>10, CreateMissingRefines DEF ReconcileStatefulSet
<1>11. CASE Settle \/ PassError \/ Restart \/ SyncCr \/ StartPass \/ FinishPass
            \/ UpdateAdminReadyCount \/ \E o \in Item : SyncObject(o)
  BY <1>7, <1>11 DEF Settle, PassError, Restart, SyncCr, StartPass, FinishPass,
     UpdateAdminReadyCount, SyncObject
<1>12. CASE UNCHANGED vars
  BY <1>7, <1>12 DEF vars
<1>. QED
  BY <1>1, <1>2, <1>3, <1>4, <1>5, <1>6, <1>8, <1>9, <1>10, <1>11, <1>12, ScaleRefines
     DEF Next, PassStep, DeleteChild, GarbageCollect

\* spec.adminCount is the users' and the StatefulSet only follows it forwards: the
\* NuodbAdmin controller implements ReplicaRequests for its one workload.
THEOREM AdminImplementsRequests == Spec => FollowsRequests
<1>1. Init => Requested!Init
  <2> SUFFICES ASSUME Init PROVE Requested!Init
    OBVIOUS
  <2>1. obj[Workload] = NoObject /\ cr.spec.admins = 0 /\ asked = <<>>
    BY ManifestTypes DEF Init, NoCr, NoWish
  <2>2. NoObject.gen = 0 /\ NoObject.replicas = 0
    BY DEF NoObject
  <2>3. [i \in DOMAIN asked |-> [p \in {"admin"} |-> asked[i].admins]] = <<>>
    BY <2>1
  <2>. QED  BY <2>1, <2>2, <2>3 DEF Requested!Init, Requested!Nothing
<1>. QED
  BY <1>1, RequestInvariant, RequestsStep, PTL DEF Spec, FollowsRequests, Requested!Spec

-----------------------------------------------------------------------------
(***************************************************************************)
(* No lost wake-up, as for the databases.                                  *)
(***************************************************************************)
LEMMA KeepsTheKey ==
  ASSUME NeverForgotten, crFresh' => crFresh /\ UNCHANGED cr, pending => pending',
         pc # "idle" => pc' # "idle" \/ pending'
  PROVE  NeverForgotten'
BY DEF NeverForgotten

LEMMA ForgottenStep == RequestInv /\ NeverForgotten /\ [Next]_vars => NeverForgotten'
<1> SUFFICES ASSUME RequestInv, NeverForgotten, [Next]_vars PROVE NeverForgotten'
  OBVIOUS
<1> USE DEF cacheVars, passVars
<1>1. ASSUME ~crFresh' PROVE NeverForgotten'
  BY <1>1 DEF NeverForgotten
<1>2. CASE CreateCr \/ EditSpec \/ DeleteCr
  BY <1>1, <1>2 DEF CreateCr, EditSpec, DeleteCr, Ask, WriteCr
<1>3. ASSUME UNCHANGED <<cr, crFresh>>, pending => pending', pc # "idle" => pc' # "idle"
      PROVE  NeverForgotten'
  BY <1>3, KeepsTheKey
<1>4. ASSUME UNCHANGED <<cr, crFresh>>, ReturnAndRequeue PROVE NeverForgotten'
  BY <1>4, KeepsTheKey DEF ReturnAndRequeue
<1>5. ASSUME NEW o, DeleteChild(o) \/ GarbageCollect(o) \/ Terminate(o) \/ SyncObject(o)
      PROVE  NeverForgotten'
  <2>1. CASE SyncObject(o)
    <3>1. UNCHANGED <<cr, crFresh, pc>> /\ (pending => pending')
      BY <2>1 DEF SyncObject
    <3>. QED  BY <1>3, <3>1
  <2>2. CASE ~SyncObject(o)
    BY <1>3, <1>5, <2>2 DEF DeleteChild, GarbageCollect, Terminate, OthersWrite
  <2>. QED  BY <2>1, <2>2
<1>6. CASE PodsChange \/ Settle \/ UNCHANGED vars
  <2>1. UNCHANGED <<cr, crFresh, pc, pending>>
    BY <1>6 DEF PodsChange, OthersWrite, Settle, vars
  <2>. QED  BY <1>3, <2>1
<1>7. CASE SyncCr
  BY <1>7 DEF SyncCr, NeverForgotten
<1>8. CASE StartPass
  <2>1. UNCHANGED <<cr, crFresh>> /\ (~crCache.exists \/ pc' # "idle")
    BY <1>8 DEF StartPass
  <2>. QED  BY <2>1 DEF RequestInv, FreshCopies, NeverForgotten
<1>9. CASE UpdateStatus
  <2>1. ReturnAndRequeue \/ (pc' = "scale" /\ UNCHANGED pending)
    BY <1>9 DEF UpdateStatus, StatusDone
  <2>2. UNCHANGED <<cr, crFresh>> \/ ~crFresh'
    BY <1>9 DEF UpdateStatus, WriteCr
  <2>. QED  BY <1>1, <1>3, <1>4, <2>1, <2>2
<1>10. ASSUME NEW item, CreateMissing(item) PROVE NeverForgotten'
  BY <1>3, <1>4, <1>10 DEF CreateMissing, NextChild
<1>11. CASE PassStep /\ ~UpdateStatus
  <2>1. CASE FinishPass
    BY <1>4, <2>1 DEF FinishPass
  <2>2. ASSUME NEW item \in Item, ReconcilePlain(item) \/ ReconcileInsights(item)
        PROVE  NeverForgotten'
    BY <1>3, <1>4, <1>10, <2>2 DEF ReconcilePlain, ReconcileInsights, DeleteDisabled, Skip, NextChild
  <2>3. CASE ReconcileStatefulSet
    BY <1>3, <1>10, <2>3 DEF ReconcileStatefulSet
  <2>4. CASE UpdateAdminReadyCount
    BY <1>3, <2>4 DEF UpdateAdminReadyCount
  <2>5. CASE Scale
    BY <1>3, <1>4, <2>5 DEF Scale, NextChild
  <2>. QED  BY <1>11, <2>1, <2>2, <2>3, <2>4, <2>5 DEF PassStep
<1>12. CASE PassError
  BY <1>4, <1>12 DEF PassError
<1>13. CASE Restart
  BY <1>13 DEF Restart, NeverForgotten
<1>. QED
  BY <1>2, <1>5, <1>6, <1>7, <1>8, <1>9, <1>11, <1>12, <1>13 DEF Next

\* The domain is not forgotten: every pass that ends, for whatever reason, brings
\* the key back, and an event that the cache has not seen yet will.
THEOREM DomainNotForgotten == Spec => []NeverForgotten
<1>1. Init => NeverForgotten
  BY DEF Init, NeverForgotten, NoCr
<1>2. Init => RequestInv
  BY RequestInit
<1>3. RequestInv /\ NeverForgotten /\ [Next]_vars => (RequestInv /\ NeverForgotten)'
  BY RequestStep, ForgottenStep
<1>. QED  BY <1>1, <1>2, <1>3, PTL DEF Spec
=============================================================================
