---------------------- MODULE NuodbInsightsServerProofs ----------------------
(***************************************************************************)
(* Proofs about NuodbInsightsServer, for any servers, namespaces, parts of *)
(* the pipeline and bounds.                                                *)
(***************************************************************************)
EXTENDS NuodbInsightsServer, TLAPS

-----------------------------------------------------------------------------
(***************************************************************************)
(* Types, in three parts: the resources, their children, the worker.       *)
(***************************************************************************)
CrTypes == /\ cr \in [Server -> CrRecord] /\ crCache \in [Server -> CrRecord]
           /\ crFresh \in [Server -> BOOLEAN]

ObjectTypes == /\ obj \in [Objects -> ObjectRecord] /\ objCache \in [Watched -> ObjectRecord]
               /\ objFresh \in [Watched -> BOOLEAN]

Steps == {"idle", "addFinalizer", "install", "awaitEs", "awaitOperator", "drop"}

PassTypes == /\ pending \subseteq Server /\ pc \in Steps
             /\ idx \in Nat /\ instFresh \in BOOLEAN
             /\ inst \in CrRecord /\ key \in Server \cup {""} /\ mapped \subseteq Definitions
             /\ (pc # "idle" => inst.exists) /\ (key = "" <=> pc = "idle")

UserTypes == quiet \in BOOLEAN /\ requests \in 0..MaxRequests

Types == CrTypes /\ ObjectTypes /\ PassTypes /\ UserTypes

LEMMA TypesAreTypeOK == Types <=> TypeOK
BY DEF Types, CrTypes, ObjectTypes, PassTypes, UserTypes, Steps, TypeOK

LEMMA BlankTypes == NoCr \in CrRecord /\ NoObject \in ObjectRecord
BY DEF NoCr, CrRecord, NoObject, ObjectRecord

LEMMA InPass == ASSUME Types, pc # "idle" PROVE key \in Server /\ inst.exists
BY DEF Types, PassTypes

LEMMA PlaceIsObject == ASSUME NEW s \in Server, NEW c \in Child PROVE Place(s, c) \in Objects
BY DEF Objects

LEMMA HereType ==
  ASSUME Types, pc # "idle", NEW c \in Child
  PROVE  Here(c) \in Objects /\ Live(c) \in ObjectRecord
BY InPass, PlaceIsObject DEF Here, Live, Types, ObjectTypes

LEMMA ReadType == ASSUME Types, NEW c PROVE Read(c) \in ObjectRecord
BY BlankTypes DEF Read, Types, ObjectTypes

LEMMA ChildrenVisited ==
  /\ \A o : Dropping(o) => o \in Child
  /\ \A i \in DOMAIN Pipeline : Pipeline[i] \notin {"marker", "instance"} => Pipeline[i] \in Child
<1>1. ASSUME NEW o, Dropping(o) PROVE o \in Child
  <2>1. Teardown \in Seq(Child) /\ idx \in DOMAIN Teardown /\ Teardown[idx] = o
    BY <1>1, InsightsConstants DEF Dropping
  <2>. QED  BY <2>1
<1>2. ASSUME NEW i \in DOMAIN Pipeline, Pipeline[i] \notin {"marker", "instance"}
      PROVE  Pipeline[i] \in Child
  BY <1>2 DEF Child
<1>. QED  BY <1>1, <1>2

\* The children: whatever the step, it writes a record or removes some.
LEMMA WriteObjectType ==
  ASSUME ObjectTypes, NEW o, NEW record \in ObjectRecord, WriteObject(o, record),
         UNCHANGED objCache
  PROVE  ObjectTypes'
BY DEF ObjectTypes, WriteObject

LEMMA RemoveObjectType ==
  ASSUME ObjectTypes, NEW o, RemoveObject(o), UNCHANGED objCache
  PROVE  ObjectTypes'
BY BlankTypes DEF ObjectTypes, RemoveObject

LEMMA DeleteObjectType ==
  ASSUME ObjectTypes, NEW o \in Objects, DeleteObject(o), UNCHANGED objCache
  PROVE  ObjectTypes'
<1>1. [obj[o] EXCEPT !.terminating = TRUE] \in ObjectRecord
  BY DEF ObjectTypes, ObjectRecord
<1>. QED  BY <1>1, WriteObjectType, RemoveObjectType DEF DeleteObject

LEMMA WriteCrType ==
  ASSUME CrTypes, NEW s, NEW record \in CrRecord, WriteCr(s, record), UNCHANGED crCache
  PROVE  CrTypes'
BY DEF CrTypes, WriteCr

\* The worker: a pass ends or goes on.
LEMMA ReturnType ==
  ASSUME PassTypes, Return, pending' \subseteq Server
  PROVE  PassTypes'
BY BlankTypes DEF PassTypes, Return, Steps

LEMMA FailType == ASSUME Types, pc # "idle", Fail PROVE PassTypes'
<1>1. pending' \subseteq Server
  BY InPass DEF Fail, Types, PassTypes
<1>. QED  BY <1>1, ReturnType DEF Fail, Types

LEMMA SucceedType == ASSUME Types, Succeed PROVE PassTypes'
BY ReturnType DEF Succeed, Types, PassTypes

LEMMA GoToType ==
  ASSUME Types, pc # "idle", NEW step \in Steps \ {"idle"}, NEW i \in Nat, GoTo(step, i)
  PROVE  PassTypes'
BY DEF Types, PassTypes, GoTo

LEMMA NextStepType == ASSUME Types, pc # "idle", NextStep \/ NextDrop PROVE PassTypes'
<1>1. idx + 1 \in Nat
  <2>1. idx \in Nat
    BY DEF Types, PassTypes
  <2>. QED  BY <2>1
<1>2. {"install", "drop"} \subseteq Steps \ {"idle"}
  BY DEF Steps
<1>. QED  BY <1>1, <1>2, GoToType DEF NextStep, NextDrop

LEMMA UserWritesType ==
  ASSUME Types, NEW s \in Server, NEW record \in CrRecord, UserWrites(s, record),
         requests' \in 0..MaxRequests
  PROVE  Types'
<1>1. CrTypes'
  BY WriteCrType DEF Types, UserWrites
<1>2. instFresh' \in BOOLEAN
  BY DEF Types, PassTypes, UserWrites
<1>. QED  BY <1>1, <1>2 DEF Types, UserWrites, ObjectTypes, PassTypes, UserTypes

LEMMA UsersType == ASSUME Types, NEW s \in Server, Users(s) PROVE Types'
<1>1. /\ requests \in 0..MaxRequests /\ MaxRequests \in Nat /\ cr[s] \in CrRecord
      /\ \A n \in Sizes : n \in Nat
  BY InsightsConstants DEF Types, UserTypes, CrTypes
<1>2. requests < MaxRequests => requests + 1 \in 0..MaxRequests /\ requests + 1 \in Nat
  BY <1>1
<1>3. CASE CreateCr(s)
  <2>1. PICK n \in Sizes :
          UserWrites(s, [NoCr EXCEPT !.exists = TRUE, !.uid = requests + 1, !.size = n])
    BY <1>3 DEF CreateCr
  <2>2. [NoCr EXCEPT !.exists = TRUE, !.uid = requests + 1, !.size = n] \in CrRecord
    BY <1>1, <1>2, <1>3, BlankTypes DEF CreateCr, CrRecord
  <2>. QED  BY <1>2, <1>3, <2>1, <2>2, UserWritesType DEF CreateCr
<1>4. CASE EditSpec(s)
  <2>1. PICK n \in Sizes : UserWrites(s, [cr[s] EXCEPT !.size = n])
    BY <1>4 DEF EditSpec
  <2>2. [cr[s] EXCEPT !.size = n] \in CrRecord
    BY <1>1 DEF CrRecord
  <2>. QED  BY <1>2, <1>4, <2>1, <2>2, UserWritesType DEF EditSpec
<1>5. CASE DeleteCr(s) \/ ForceDelete(s)
  <2>1. [cr[s] EXCEPT !.deleting = TRUE] \in CrRecord
    BY <1>1 DEF CrRecord
  <2>. QED  BY <1>1, <1>5, <2>1, BlankTypes, UserWritesType DEF DeleteCr, ForceDelete
<1>. QED  BY <1>3, <1>4, <1>5 DEF Users

\* Steps that write children, and nothing else.
LEMMA OthersType ==
  ASSUME Types, NEW o \in Objects,
         \/ DeleteChild(o) \/ GarbageCollect(o) \/ Release(o) \/ ComesUp(o) \/ GoesDown(o)
  PROVE  Types'
<1>1. \A b \in BOOLEAN : [obj[o] EXCEPT !.ready = b] \in ObjectRecord
  BY DEF Types, ObjectTypes, ObjectRecord
<1>2. ObjectTypes'
  BY <1>1, DeleteObjectType, RemoveObjectType, WriteObjectType
     DEF Types, DeleteChild, GarbageCollect, Release, ComesUp, GoesDown, Rest
<1>. QED
  BY <1>2 DEF Types, CrTypes, PassTypes, UserTypes, DeleteChild, GarbageCollect, Release, ComesUp,
     GoesDown, Rest, passVars

\* The steps of an installing pass that may write a child.
LEMMA ApplyManagedType ==
  ASSUME Types, NEW o \in Child, ApplyManaged(o)
  PROVE  Types'
<1>1. pc # "idle" /\ key \in Server /\ Live(o) \in ObjectRecord
  BY HereType, InPass DEF ApplyManaged, Visiting
<1>2. [Live(o) EXCEPT !.owner = 0] \in ObjectRecord
  BY <1>1 DEF ObjectRecord
<1>3. NewManaged \in ObjectRecord
  BY BlankTypes DEF NewManaged, Types, PassTypes, CrRecord, ObjectRecord
<1>4. ObjectTypes'
  BY <1>2, <1>3, WriteObjectType DEF ApplyManaged, Apart, Types, ObjectTypes
<1>5. idx \in Nat /\ "awaitOperator" \in Steps \ {"idle"}
  BY DEF Types, PassTypes, Steps
<1>6. PassTypes'
  BY <1>1, <1>5, FailType, NextStepType, GoToType DEF ApplyManaged
<1>. QED  BY <1>4, <1>6 DEF ApplyManaged, Apart, Types, CrTypes, UserTypes

LEMMA CreateExternalType ==
  ASSUME Types, pc # "idle", NEW o \in Child, CreateExternal(o)
  PROVE  Types'
<1>1. GetInstance \in CrRecord
  BY InPass DEF GetInstance, Types, CrTypes
<1>2. NewExternal \in ObjectRecord
  BY <1>1, BlankTypes DEF NewExternal, OwnerReference, CrRecord, ObjectRecord
<1>3. ObjectTypes'
  BY <1>2, WriteObjectType DEF CreateExternal, Apart, Types, ObjectTypes
<1>4. idx \in Nat /\ "awaitEs" \in Steps \ {"idle"}
  BY DEF Types, PassTypes, Steps
<1>5. PassTypes'
  BY <1>4, FailType, NextStepType, GoToType DEF CreateExternal
<1>. QED  BY <1>3, <1>5 DEF CreateExternal, Apart, Types, CrTypes, UserTypes

LEMMA KeepExternalType ==
  ASSUME Types, pc # "idle", NEW o \in Child, KeepExternal(o)
  PROVE  Types'
<1>1. [Read(o) EXCEPT !.size = inst.size] \in ObjectRecord
  BY ReadType DEF Types, PassTypes, CrRecord, ObjectRecord
<1>2. ObjectTypes'
  BY <1>1, WriteObjectType DEF KeepExternal, Resize, KeepGrafana, Apart, Types, ObjectTypes
<1>3. PassTypes'
  BY FailType, NextStepType DEF KeepExternal, Resize, KeepGrafana
<1>. QED  BY <1>2, <1>3 DEF KeepExternal, Apart, Types, CrTypes, UserTypes

LEMMA ReconcileExternalType ==
  ASSUME Types, NEW o \in Child, ReconcileExternal(o)
  PROVE  Types'
<1>1. pc # "idle"
  BY DEF ReconcileExternal, Visiting
<1>2. CASE Fail /\ NoWrites
  BY <1>1, <1>2, FailType DEF NoWrites, cacheVars, Types, CrTypes, ObjectTypes, UserTypes
<1>. QED  BY <1>1, <1>2, CreateExternalType, KeepExternalType DEF ReconcileExternal

LEMMA RegisterKindsType == ASSUME Types, NEW d \in Child, RegisterKinds(d) PROVE Types'
<1>1. pc # "idle"
  BY DEF RegisterKinds, Visiting
<1>2. [NoObject EXCEPT !.exists = TRUE] \in ObjectRecord
  BY BlankTypes DEF ObjectRecord
<1>3. ObjectTypes'
  BY <1>2, WriteObjectType DEF RegisterKinds, Apart, Types, ObjectTypes
<1>4. PassTypes'
  BY <1>1, NextStepType DEF RegisterKinds
<1>. QED  BY <1>3, <1>4 DEF RegisterKinds, Apart, Types, CrTypes, UserTypes

LEMMA TemplatesAndLogstashType == ASSUME Types, LoadTemplates \/ ReconcileLogstash PROVE Types'
<1>1. pc # "idle"
  BY DEF LoadTemplates, ReconcileLogstash, Visiting
<1>2. GetInstance \in CrRecord
  BY <1>1, InPass DEF GetInstance, Types, CrTypes
<1>3. NewLogstash \in ObjectRecord
  BY <1>2, BlankTypes DEF NewLogstash, CrRecord, ObjectRecord
<1>4. [NoObject EXCEPT !.exists = TRUE] \in ObjectRecord
  BY BlankTypes DEF ObjectRecord
<1>5. ObjectTypes'
  BY <1>3, <1>4, WriteObjectType DEF LoadTemplates, ReconcileLogstash, Apart, Types, ObjectTypes
<1>6. PassTypes'
  BY <1>1, FailType, NextStepType DEF LoadTemplates, ReconcileLogstash
<1>. QED
  BY <1>5, <1>6 DEF LoadTemplates, ReconcileLogstash, Apart, Types, CrTypes, UserTypes

\* The steps that write no child.
LEMMA PassOnlyType ==
  ASSUME Types, FinishPass \/ FindMarker \/ RereadInstance \/ AwaitOperator \/ AwaitEs \/ PassError
  PROVE  Types'
<1>1. pc # "idle"
  BY DEF FinishPass, FindMarker, RereadInstance, AwaitOperator, AwaitEs, PassError, Visiting
<1>2. idx + 1 \in Nat /\ idx + 4 \in Nat
  <2>1. idx \in Nat
    BY DEF Types, PassTypes
  <2>. QED  BY <2>1
<1>3. "install" \in Steps \ {"idle"}
  BY DEF Steps
<1>4. CASE RereadInstance
  <2>1. GetInstance \in CrRecord /\ crFresh[key] \in BOOLEAN
    BY <1>1, InPass DEF GetInstance, Types, CrTypes
  <2>2. PassTypes'
    BY <1>1, <1>2, <1>3, <1>4, <2>1, SucceedType DEF RereadInstance, Types, PassTypes
  <2>. QED
    BY <1>4, <2>2 DEF RereadInstance, NoWrites, cacheVars, Types, CrTypes, ObjectTypes, UserTypes
<1>5. CASE ~RereadInstance
  <2>1. PassTypes'
    BY <1>1, <1>2, <1>3, <1>5, FailType, SucceedType, NextStepType, GoToType
       DEF FinishPass, FindMarker, AwaitOperator, AwaitEs, PassError
  <2>. QED
    BY <1>5, <2>1 DEF FinishPass, FindMarker, AwaitOperator, AwaitEs, PassError, NoWrites,
       cacheVars, Types, CrTypes, ObjectTypes, UserTypes
<1>. QED  BY <1>4, <1>5

\* The steps that write the resource.
LEMMA FinalizerType == ASSUME Types, AddFinalizer \/ RemoveFinalizer PROVE Types'
<1>1. pc # "idle" /\ 1 \in Nat
  BY DEF AddFinalizer, RemoveFinalizer
<1>2. [inst EXCEPT !.finalizer = TRUE] \in CrRecord
  BY DEF Types, PassTypes, CrRecord
<1>3. CrTypes'
  BY <1>2, BlankTypes, WriteCrType DEF AddFinalizer, RemoveFinalizer, Types, CrTypes
<1>4. "install" \in Steps \ {"idle"}
  BY DEF Steps
<1>5. PassTypes'
  BY <1>1, <1>4, FailType, SucceedType, GoToType DEF AddFinalizer, RemoveFinalizer
<1>. QED
  BY <1>3, <1>5 DEF AddFinalizer, RemoveFinalizer, Types, ObjectTypes, UserTypes

LEMMA DropType ==
  ASSUME Types, NEW o \in Child, DropAwaited(o) \/ DropOnce(o) \/ (o = "operator" /\ DropOperator)
  PROVE  Types'
<1>1. pc # "idle" /\ Here(o) \in Objects
  BY HereType DEF DropAwaited, DropOnce, DropOperator, Dropping
<1>2. UNCHANGED objCache
  BY DEF DropAwaited, DropOnce, DropOperator, Apart
<1>3. DeleteObject(Here(o)) \/ UNCHANGED <<obj, objFresh>>
  BY DEF DropAwaited, DropOnce, DropOperator
<1>4. ObjectTypes'
  BY <1>1, <1>2, <1>3, DeleteObjectType DEF Types, ObjectTypes
<1>5. idx \in Nat
  BY DEF Types, PassTypes
<1>6. "drop" \in Steps \ {"idle"}
  BY DEF Steps
<1>7. PassTypes'
  BY <1>1, <1>5, <1>6, FailType, NextStepType, GoToType DEF DropAwaited, DropOnce, DropOperator
<1>. QED
  BY <1>4, <1>7 DEF DropAwaited, DropOnce, DropOperator, Apart, Types, CrTypes, UserTypes

LEMMA InformerType ==
  ASSUME Types,
         \/ \E s \in Server : SyncCr(s) \/ StartPass(s)
         \/ (\E o \in Watched : SyncObject(o)) \/ Resync \/ Restart
  PROVE  Types'
<1> USE DEF cacheVars, passVars
<1>1. Watched \subseteq Objects
  BY DEF Watched
<1>2. ASSUME NEW s \in Server, SyncCr(s) PROVE Types'
  BY <1>2 DEF SyncCr, Types, CrTypes, ObjectTypes, PassTypes, UserTypes
<1>3. ASSUME NEW s \in Server, StartPass(s) PROVE Types'
  <2>1. s # "" /\ crCache[s] \in CrRecord /\ crFresh[s] \in BOOLEAN /\ 1 \in Nat
    BY InsightsConstants DEF Types, CrTypes
  <2>2. {"drop", "install", "addFinalizer"} \subseteq Steps \ {"idle"}
    BY DEF Steps
  <2>3. PassTypes'
    BY <1>3, <2>1, <2>2 DEF StartPass, Begin, Types, PassTypes
  <2>. QED  BY <1>3, <2>3 DEF StartPass, NoWrites, Types, CrTypes, ObjectTypes, UserTypes
<1>4. ASSUME NEW o \in Watched, SyncObject(o) PROVE Types'
  BY <1>1, <1>4 DEF SyncObject, Types, CrTypes, ObjectTypes, PassTypes, UserTypes
<1>5. CASE Resync
  BY <1>5 DEF Resync, Types, CrTypes, ObjectTypes, PassTypes, UserTypes
<1>6. CASE Restart
  BY <1>1, <1>6, ReturnType DEF Restart, Types, CrTypes, ObjectTypes, UserTypes
<1>. QED  BY <1>2, <1>3, <1>4, <1>5, <1>6

LEMMA TypesStep == Types /\ [Next]_vars => Types'
<1> SUFFICES ASSUME Types, [Next]_vars PROVE Types'
  OBVIOUS
<1>1. \A children : Every(children) \subseteq Objects
  BY DEF Every
<1>2. CASE Settle \/ UNCHANGED vars
  BY <1>2 DEF Settle, vars, cacheVars, passVars, Types, CrTypes, ObjectTypes, PassTypes, UserTypes
<1>3. CASE Install
  BY <1>3, ApplyManagedType, RegisterKindsType, ReconcileExternalType,
     TemplatesAndLogstashType, PassOnlyType, FinalizerType DEF Install
<1>4. CASE TakeDown
  BY <1>4, DropType, FinalizerType, ChildrenVisited DEF TakeDown, DropOperator
<1>. QED
  BY <1>1, <1>2, <1>3, <1>4, UsersType, OthersType, InformerType, PassOnlyType
     DEF Next, PassStep, Collect

LEMMA TypesInit == Init => Types
<1> SUFFICES ASSUME Init PROVE Types
  OBVIOUS
<1>1. 0 \in 0..MaxRequests
  <2>1. MaxRequests \in Nat
    BY InsightsConstants
  <2>. QED  BY <2>1
<1>2. "idle" \in Steps
  BY DEF Steps
<1>. QED
  BY <1>1, <1>2, BlankTypes DEF Init, Types, CrTypes, ObjectTypes, PassTypes, UserTypes

\* Every variable keeps its type, for any servers, namespaces, parts of the
\* pipeline and failures, and a pass under way holds an instance of its server.
THEOREM InsightsTypeCorrect == Spec => []TypeOK
BY TypesInit, TypesStep, TypesAreTypeOK, PTL DEF Spec

-----------------------------------------------------------------------------
(***************************************************************************)
(* The invariant of the resources.  A copy that counts as current is; the  *)
(* instance of a pass that is about to write the resource is the server's  *)
(* if it is current.  (After AddFinalizer it is not looked at again.)      *)
(***************************************************************************)
Identified(record) == record.exists => record.uid # 0

CrInv == /\ \A s \in Server : /\ crFresh[s] => crCache[s] = cr[s]
                              /\ Identified(cr[s]) /\ Identified(crCache[s])
         /\ Identified(inst)
         /\ pc \in {"addFinalizer", "drop"} /\ instFresh => inst = cr[key]

(***************************************************************************)
(* The invariant of the children.  Nothing is left of one that is gone,    *)
(* and the cache shows each Deployment of the Grafana operator that has    *)
(* lost its owner: it did so when a pass overwrote what it had read there. *)
(***************************************************************************)
Unowned(o) == obj[o].exists /\ obj[o].owner = 0

ChildInv == /\ \A o \in Objects : ~obj[o].exists => obj[o] = NoObject
            /\ \A o \in Watched : objFresh[o] => objCache[o] = obj[o]
            /\ \A o \in Objects : o[2] = "operator" /\ Unowned(o) => o \in Watched /\ objCache[o].exists

(***************************************************************************)
(* The invariant of the teardown: what it has visited stays down.          *)
(***************************************************************************)
Down(c) == /\ c \in Awaited => ~Live(c).exists
           /\ c = "operator" => ~Unowned(Here(c))

DropInv == pc = "drop" => \A i \in DOMAIN Teardown : i < idx => Down(Teardown[i])

ServerInv == Types /\ CrInv /\ ChildInv /\ DropInv

LEMMA TypeFacts ==
  ASSUME Types
  PROVE  /\ cr \in [Server -> CrRecord] /\ crCache \in [Server -> CrRecord]
         /\ crFresh \in [Server -> BOOLEAN]
         /\ obj \in [Objects -> ObjectRecord] /\ objCache \in [Watched -> ObjectRecord]
         /\ objFresh \in [Watched -> BOOLEAN]
         /\ inst \in CrRecord /\ idx \in Nat /\ requests \in Nat
         /\ pc # "idle" => key \in Server
<1>1. requests \in Nat
  <2>1. MaxRequests \in Nat
    BY InsightsConstants
  <2>. QED  BY <2>1 DEF Types, UserTypes
<1>. QED  BY <1>1 DEF Types, CrTypes, ObjectTypes, PassTypes

\* Users: the pass holds an old instance from then on.
LEMMA UsersCr ==
  ASSUME Types, CrInv, NEW s \in Server, Users(s)
  PROVE  CrInv'
<1>1. ASSUME NEW record, UserWrites(s, record), Identified(record) PROVE CrInv'
  BY <1>1, TypeFacts DEF UserWrites, WriteCr, CrInv, Identified
<1>2. CASE CreateCr(s)
  <2>1. PICK n \in Sizes :
          UserWrites(s, [NoCr EXCEPT !.exists = TRUE, !.uid = requests + 1, !.size = n])
    BY <1>2 DEF CreateCr
  <2>2. requests + 1 # 0
    BY TypeFacts
  <2>3. Identified([NoCr EXCEPT !.exists = TRUE, !.uid = requests + 1, !.size = n])
    BY <2>2, BlankTypes DEF Identified, CrRecord
  <2>. QED  BY <1>1, <2>1, <2>3
<1>3. cr[s] \in CrRecord /\ Identified(cr[s])
  BY TypeFacts DEF CrInv
<1>4. CASE EditSpec(s)
  <2>1. PICK n \in Sizes : UserWrites(s, [cr[s] EXCEPT !.size = n])
    BY <1>4 DEF EditSpec
  <2>2. Identified([cr[s] EXCEPT !.size = n])
    BY <1>3 DEF Identified, CrRecord
  <2>. QED  BY <1>1, <2>1, <2>2
<1>5. CASE DeleteCr(s) \/ ForceDelete(s)
  <2>1. Identified([cr[s] EXCEPT !.deleting = TRUE]) /\ Identified(NoCr)
    BY <1>3 DEF Identified, CrRecord, NoCr
  <2>. QED  BY <1>1, <1>5, <2>1 DEF DeleteCr, ForceDelete
<1>. QED  BY <1>2, <1>4, <1>5 DEF Users

\* What a pass writes over a resource is what the server has, but for the finalizer.
LEMMA AddFinalizerWrites ==
  ASSUME Types, CrInv, AddFinalizer, UNCHANGED cr => FALSE
  PROVE  /\ cr' = [cr EXCEPT ![key] = [cr[key] EXCEPT !.finalizer = TRUE]]
         /\ crFresh' = [crFresh EXCEPT ![key] = FALSE]
         /\ key \in Server /\ cr[key].exists /\ cr[key] \in CrRecord /\ pc' = "install"
<1>1. /\ instFresh /\ pc = "addFinalizer" /\ WriteCr(key, [inst EXCEPT !.finalizer = TRUE])
      /\ pc' = "install"
  BY DEF AddFinalizer, GoTo
<1>2. inst = cr[key] /\ key \in Server /\ inst.exists
  BY <1>1, InPass DEF CrInv
<1>. QED  BY <1>1, <1>2, TypeFacts DEF WriteCr

LEMMA CrStep == Types /\ CrInv /\ [Next]_vars => CrInv'
<1> SUFFICES ASSUME Types, CrInv, [Next]_vars PROVE CrInv'
  OBVIOUS
<1>1. CASE AddFinalizer
  <2>1. CASE UNCHANGED cr
    <3>1. pc' # "addFinalizer" /\ pc' # "drop" /\ UNCHANGED crCache
      BY <1>1 DEF AddFinalizer, GoTo, Fail, Return
    <3>2. Identified(inst')
      <4>1. inst' = inst \/ inst' = NoCr
        BY <1>1 DEF AddFinalizer, GoTo, Fail, Return
      <4>. QED  BY <4>1 DEF CrInv, Identified, NoCr
    <3>3. \A s \in Server : crFresh'[s] => crFresh[s]
      BY <1>1, TypeFacts DEF AddFinalizer, WriteCr
    <3>. QED  BY <2>1, <3>1, <3>2, <3>3 DEF CrInv
  <2>2. CASE ~UNCHANGED cr
    <3>1. /\ cr' = [cr EXCEPT ![key] = [cr[key] EXCEPT !.finalizer = TRUE]]
          /\ crFresh' = [crFresh EXCEPT ![key] = FALSE]
          /\ key \in Server /\ cr[key] \in CrRecord /\ pc' = "install"
      BY <1>1, <2>2, AddFinalizerWrites
    <3>2. cr'[key].exists = cr[key].exists /\ cr'[key].uid = cr[key].uid
      BY <3>1, TypeFacts DEF CrRecord
    <3>3. UNCHANGED <<crCache, inst>>
      BY <1>1, <2>2 DEF AddFinalizer, GoTo
    <3>. QED  BY <3>1, <3>2, <3>3, TypeFacts DEF CrInv, Identified
  <2>. QED  BY <2>1, <2>2
<1>2. CASE RemoveFinalizer
  <2>1. UNCHANGED crCache /\ Return
    BY <1>2 DEF RemoveFinalizer, Succeed, Fail
  <2>2. Identified(NoCr)
    BY DEF Identified, NoCr
  <2>3. \/ UNCHANGED <<cr, crFresh>>
        \/ cr' = [cr EXCEPT ![key] = NoCr] /\ crFresh' = [crFresh EXCEPT ![key] = FALSE]
    BY <1>2 DEF RemoveFinalizer, WriteCr
  <2>. QED  BY <2>1, <2>2, <2>3, TypeFacts DEF Return, CrInv, Identified
<1>3. ASSUME UNCHANGED <<cr, crCache, crFresh>>, Return PROVE CrInv'
  BY <1>3 DEF Return, CrInv, Identified, NoCr
<1>4. ASSUME UNCHANGED <<cr, crCache, crFresh, key, inst, instFresh>>,
             pc' = pc \/ pc' \notin {"addFinalizer", "drop"}
      PROVE  CrInv'
  BY <1>4 DEF CrInv
<1> USE DEF cacheVars, passVars
<1>5. CASE RereadInstance
  <2>1. CASE Succeed
    BY <1>3, <1>5, <2>1 DEF RereadInstance, NoWrites, Succeed
  <2>2. CASE pc' = "install" /\ inst' = crCache[key] /\ UNCHANGED key
    <3>1. key \in Server
      BY <1>5, TypeFacts DEF RereadInstance, Visiting
    <3>. QED  BY <1>5, <2>2, <3>1 DEF RereadInstance, NoWrites, CrInv
  <2>. QED  BY <1>5, <2>1, <2>2 DEF RereadInstance, GetInstance
<1>6. CASE Install /\ ~AddFinalizer /\ ~RereadInstance
  <2>1. UNCHANGED <<cr, crCache, crFresh>>
    BY <1>6 DEF Install, FinishPass, FindMarker, RegisterKinds, ApplyManaged, ReconcileExternal,
       CreateExternal, KeepExternal, AwaitOperator, AwaitEs, LoadTemplates, ReconcileLogstash,
       NoWrites, Apart
  <2>2. \/ Return
        \/ UNCHANGED <<key, inst, instFresh>> /\ pc' \notin {"addFinalizer", "drop"}
    BY <1>6 DEF Install, FinishPass, FindMarker, RegisterKinds, ApplyManaged, ReconcileExternal,
       CreateExternal, KeepExternal, Resize, KeepGrafana, AwaitOperator, AwaitEs, LoadTemplates,
       ReconcileLogstash, Succeed, Fail, NextStep, GoTo
  <2>. QED  BY <1>3, <1>4, <2>1, <2>2
<1>7. CASE TakeDown /\ ~RemoveFinalizer
  <2>1. UNCHANGED <<cr, crCache, crFresh>>
    BY <1>7 DEF TakeDown, DropAwaited, DropOnce, DropOperator, Apart
  <2>2. Return \/ UNCHANGED <<key, inst, instFresh, pc>>
    BY <1>7 DEF TakeDown, DropAwaited, DropOnce, DropOperator, Dropping, Fail, NextDrop, GoTo
  <2>. QED  BY <1>3, <1>4, <2>1, <2>2
<1>8. ASSUME NEW s \in Server, SyncCr(s) PROVE CrInv'
  BY <1>8, TypeFacts DEF SyncCr, CrInv
<1>9. ASSUME NEW s \in Server, StartPass(s) PROVE CrInv'
  BY <1>9 DEF StartPass, Begin, NoWrites, CrInv
<1>10. CASE Restart
  BY <1>10 DEF Restart, Return, CrInv, Identified, NoCr
<1>11. CASE PassError
  BY <1>3, <1>11 DEF PassError, Fail, NoWrites
<1>12. ASSUME NEW o, \/ DeleteChild(o) \/ GarbageCollect(o) \/ Release(o) \/ ComesUp(o)
                     \/ GoesDown(o) \/ SyncObject(o)
       PROVE  CrInv'
  BY <1>4, <1>12 DEF DeleteChild, GarbageCollect, Release, ComesUp, GoesDown, SyncObject, Rest
<1>13. CASE Settle \/ Resync \/ UNCHANGED vars
  BY <1>4, <1>13 DEF Settle, Resync, vars
<1>. QED
  BY <1>1, <1>2, <1>5, <1>6, <1>7, <1>8, <1>9, <1>10, <1>11, <1>12, <1>13, UsersCr
     DEF Next, PassStep, Collect

-----------------------------------------------------------------------------
LEMMA OperatorWatched ==
  ASSUME NEW o \in Objects, o[2] = "operator" PROVE o \in Watched
<1>1. PICK s \in Server, c \in Child : o = Place(s, c)
  BY DEF Objects
<1>2. c = "operator" /\ o = <<Home[s], "operator">>
  BY <1>1 DEF Place, Common, Definitions
<1>3. Home[s] \in Seen
  BY InsightsConstants
<1>4. "operator" \in Cached
  BY <1>2 DEF Cached, Managed
<1>. QED  BY <1>2, <1>3, <1>4 DEF Watched

\* A child is written that exists from then on.
LEMMA WriteChild ==
  ASSUME Types, ChildInv, NEW o \in Objects, NEW record \in ObjectRecord, WriteObject(o, record),
         record.exists, UNCHANGED objCache,
         o[2] = "operator" /\ record.owner = 0 => Unowned(o) \/ objCache[o].exists
  PROVE  ChildInv'
<1>1. /\ \A p \in Objects : obj'[p] = IF p = o THEN record ELSE obj[p]
      /\ \A p \in Watched : objFresh'[p] => objFresh[p] /\ p # o
      /\ Watched \subseteq Objects
  BY TypeFacts DEF WriteObject, Watched
<1>2. \A p \in Objects : ~obj'[p].exists => obj'[p] = NoObject
  BY <1>1 DEF ChildInv
<1>3. \A p \in Watched : objFresh'[p] => objCache'[p] = obj'[p]
  BY <1>1 DEF ChildInv
<1>4. \A p \in Objects : p[2] = "operator" /\ Unowned(p)' => p \in Watched /\ objCache'[p].exists
  BY <1>1, OperatorWatched DEF ChildInv, Unowned
<1>. QED  BY <1>2, <1>3, <1>4 DEF ChildInv

LEMMA RemoveChild ==
  ASSUME Types, ChildInv, NEW o \in Objects, RemoveObject(o), UNCHANGED objCache
  PROVE  ChildInv'
<1>1. /\ \A p \in Objects : obj'[p] = NoObject \/ (obj'[p] = obj[p] /\ p # o)
      /\ \A p \in Objects : p # o /\ p[2] # "template" => obj'[p] = obj[p]
      /\ \A p \in Watched : objFresh'[p] => objFresh[p] /\ p # o
      /\ Watched \subseteq Objects /\ ~NoObject.exists
  <2>1. \A p \in Objects :
          obj'[p] = IF p = o \/ (o[2] = "es" /\ p = <<o[1], "template">>) THEN NoObject ELSE obj[p]
    BY DEF RemoveObject
  <2>2. \A p \in Watched : objFresh'[p] => objFresh[p] /\ p # o
    BY DEF RemoveObject
  <2>3. Watched \subseteq Objects /\ ~NoObject.exists
    BY DEF Watched, NoObject
  <2>. QED  BY <2>1, <2>2, <2>3
<1>2. \A p \in Watched : p[2] # "template"
  BY DEF Watched, Cached, Managed, Sized
<1>3. \A p \in Watched : objFresh'[p] => objCache'[p] = obj'[p]
  BY <1>1, <1>2 DEF ChildInv
<1>4. \A p \in Objects : p[2] = "operator" /\ Unowned(p)' => p \in Watched /\ objCache'[p].exists
  BY <1>1 DEF ChildInv, Unowned
<1>. QED  BY <1>1, <1>3, <1>4 DEF ChildInv

LEMMA DeleteChildInv ==
  ASSUME Types, ChildInv, NEW o \in Objects, DeleteObject(o), obj[o].exists, UNCHANGED objCache
  PROVE  ChildInv'
<1>1. CASE RemoveObject(o)
  BY <1>1, RemoveChild
<1>2. CASE WriteObject(o, [obj[o] EXCEPT !.terminating = TRUE]) /\ o[2] \in Awaited
  <2>1. obj[o] \in ObjectRecord
    BY TypeFacts
  <2>2. /\ [obj[o] EXCEPT !.terminating = TRUE] \in ObjectRecord
        /\ [obj[o] EXCEPT !.terminating = TRUE].exists
    BY <2>1 DEF ObjectRecord
  <2>3. o[2] # "operator"
    BY <1>2 DEF Awaited
  <2>. QED  BY <1>2, <2>2, <2>3, WriteChild
<1>. QED  BY <1>1, <1>2 DEF DeleteObject

\* Others change a child that exists, or take it away.
LEMMA OthersChild ==
  ASSUME Types, ChildInv, NEW o \in Objects,
         \/ DeleteChild(o) \/ GarbageCollect(o) \/ Release(o) \/ ComesUp(o) \/ GoesDown(o)
  PROVE  ChildInv'
<1>1. UNCHANGED objCache /\ obj[o] \in ObjectRecord
  BY TypeFacts DEF DeleteChild, GarbageCollect, Release, ComesUp, GoesDown, Rest
<1>2. CASE DeleteChild(o) \/ GarbageCollect(o)
  BY <1>1, <1>2, DeleteChildInv DEF DeleteChild, GarbageCollect
<1>3. CASE Release(o)
  BY <1>1, <1>3, RemoveChild DEF Release
<1>4. CASE ComesUp(o) \/ GoesDown(o)
  <2>1. PICK b \in BOOLEAN : WriteObject(o, [obj[o] EXCEPT !.ready = b])
    BY <1>4 DEF ComesUp, GoesDown
  <2>2. obj[o].exists
    BY <1>4 DEF ComesUp, GoesDown, ChildInv, NoObject
  <2> DEFINE record == [obj[o] EXCEPT !.ready = b]
  <2>3. record \in ObjectRecord /\ record.exists /\ record.owner = obj[o].owner
    BY <1>1, <2>2 DEF ObjectRecord
  <2> HIDE DEF record
  <2>. QED  BY <1>1, <2>1, <2>2, <2>3, WriteChild DEF Unowned, record
<1>. QED  BY <1>2, <1>3, <1>4

LEMMA ApplyManagedChild ==
  ASSUME Types, CrInv, ChildInv, NEW o \in Child, ApplyManaged(o)
  PROVE  ChildInv'
<1>1. pc # "idle" /\ Here(o) \in Objects /\ Live(o) \in ObjectRecord
  BY HereType DEF ApplyManaged, Visiting
<1>2. UNCHANGED objCache
  BY DEF ApplyManaged, Apart
<1>3. CASE Live(o).exists /\ Read(o).exists
           /\ WriteObject(Here(o), [Live(o) EXCEPT !.owner = 0])
  <2>1. /\ [Live(o) EXCEPT !.owner = 0] \in ObjectRecord
        /\ [Live(o) EXCEPT !.owner = 0].exists
    BY <1>1, <1>3 DEF ObjectRecord
  <2>2. objCache[Here(o)].exists
    BY <1>3 DEF Read, NoObject
  <2>. QED  BY <1>1, <1>2, <1>3, <2>1, <2>2, WriteChild
<1>4. CASE WriteObject(Here(o), NewManaged)
  <2>1. inst.uid # 0 /\ inst \in CrRecord
    BY <1>1, InPass, TypeFacts DEF CrInv, Identified
  <2>2. /\ NewManaged \in ObjectRecord /\ NewManaged.exists /\ NewManaged.owner # 0
    BY <2>1, BlankTypes DEF NewManaged, CrRecord, ObjectRecord
  <2>. QED  BY <1>1, <1>2, <1>4, <2>2, WriteChild
<1>5. CASE UNCHANGED <<obj, objFresh>>
  BY <1>2, <1>5 DEF ChildInv, Unowned
<1>. QED  BY <1>3, <1>4, <1>5 DEF ApplyManaged

\* A child other than the operator that the pass writes.
LEMMA OtherChild ==
  ASSUME Types, ChildInv, pc # "idle", NEW c \in Child, c # "operator",
         NEW record \in ObjectRecord, record.exists, WriteObject(Here(c), record),
         UNCHANGED objCache
  PROVE  ChildInv'
<1>1. Here(c) \in Objects /\ Here(c)[2] = c
  BY HereType DEF Here, Place
<1>. QED  BY <1>1, WriteChild

LEMMA ReconcileExternalChild ==
  ASSUME Types, ChildInv, NEW o \in Child, ReconcileExternal(o)
  PROVE  ChildInv'
<1>1. pc # "idle" /\ o # "operator" /\ UNCHANGED objCache
  BY DEF ReconcileExternal, Visiting, External, CreateExternal, KeepExternal, Apart, NoWrites,
     cacheVars
<1>2. CASE WriteObject(Here(o), NewExternal)
  <2>1. GetInstance \in CrRecord
    BY <1>1, TypeFacts DEF GetInstance
  <2>2. NewExternal \in ObjectRecord /\ NewExternal.exists
    BY <2>1, BlankTypes DEF NewExternal, OwnerReference, CrRecord, ObjectRecord
  <2>. QED  BY <1>1, <1>2, <2>2, OtherChild
<1>3. CASE Read(o).exists /\ WriteObject(Here(o), [Read(o) EXCEPT !.size = inst.size])
  <2>1. Read(o) \in ObjectRecord /\ inst.size \in Nat
    BY ReadType, TypeFacts DEF CrRecord
  <2>2. /\ [Read(o) EXCEPT !.size = inst.size] \in ObjectRecord
        /\ [Read(o) EXCEPT !.size = inst.size].exists
    BY <1>3, <2>1 DEF ObjectRecord
  <2>. QED  BY <1>1, <1>3, <2>2, OtherChild
<1>4. CASE UNCHANGED <<obj, objFresh>>
  BY <1>1, <1>4 DEF ChildInv, Unowned
<1>. QED
  BY <1>2, <1>3, <1>4 DEF ReconcileExternal, CreateExternal, KeepExternal, Resize, KeepGrafana,
     NoWrites, cacheVars

LEMMA RegisterKindsChild ==
  ASSUME Types, ChildInv, NEW d \in Child, RegisterKinds(d) PROVE ChildInv'
<1>1. pc # "idle" /\ d # "operator" /\ UNCHANGED objCache
  BY DEF RegisterKinds, Visiting, Definitions, Apart
<1>2. CASE WriteObject(Here(d), [NoObject EXCEPT !.exists = TRUE])
  <2>1. /\ [NoObject EXCEPT !.exists = TRUE] \in ObjectRecord
        /\ [NoObject EXCEPT !.exists = TRUE].exists
    BY BlankTypes DEF ObjectRecord
  <2>. QED  BY <1>1, <1>2, <2>1, OtherChild
<1>3. CASE UNCHANGED <<obj, objFresh>>
  BY <1>1, <1>3 DEF ChildInv, Unowned
<1>. QED  BY <1>2, <1>3 DEF RegisterKinds

LEMMA TemplatesAndLogstashChild ==
  ASSUME Types, ChildInv, LoadTemplates \/ ReconcileLogstash PROVE ChildInv'
<1>1. pc # "idle" /\ UNCHANGED objCache
  BY DEF LoadTemplates, ReconcileLogstash, Visiting, Apart
<1>2. CASE LoadTemplates /\ WriteObject(Here("template"), [NoObject EXCEPT !.exists = TRUE])
  <2>1. "template" \in Child
    BY <1>2, ChildrenVisited DEF LoadTemplates, Visiting
  <2>2. /\ [NoObject EXCEPT !.exists = TRUE] \in ObjectRecord
        /\ [NoObject EXCEPT !.exists = TRUE].exists
    BY BlankTypes DEF ObjectRecord
  <2>. QED  BY <1>1, <1>2, <2>1, <2>2, OtherChild
<1>3. CASE ReconcileLogstash /\ WriteObject(Here("logstash"), NewLogstash)
  <2>1. "logstash" \in Child
    BY <1>3, ChildrenVisited DEF ReconcileLogstash, Visiting
  <2>2. GetInstance \in CrRecord
    BY <1>1, TypeFacts DEF GetInstance
  <2>3. NewLogstash \in ObjectRecord /\ NewLogstash.exists
    BY <2>2, BlankTypes DEF NewLogstash, CrRecord, ObjectRecord
  <2>. QED  BY <1>1, <1>3, <2>1, <2>3, OtherChild
<1>4. CASE UNCHANGED <<obj, objFresh>>
  BY <1>1, <1>4 DEF ChildInv, Unowned
<1>. QED  BY <1>2, <1>3, <1>4 DEF LoadTemplates, ReconcileLogstash

LEMMA TakeDownChild ==
  ASSUME Types, ChildInv, NEW o \in Child,
         DropAwaited(o) \/ DropOnce(o) \/ (o = "operator" /\ DropOperator)
  PROVE  ChildInv'
<1>1. Here(o) \in Objects /\ UNCHANGED objCache
  BY HereType DEF DropAwaited, DropOnce, DropOperator, Dropping, Apart
<1>2. \/ Live(o).exists /\ DeleteObject(Here(o))
      \/ UNCHANGED <<obj, objFresh>>
  BY DEF DropAwaited, DropOnce, DropOperator
<1>3. CASE UNCHANGED <<obj, objFresh>>
  BY <1>1, <1>3 DEF ChildInv, Unowned
<1>. QED  BY <1>1, <1>2, <1>3, DeleteChildInv DEF Live

LEMMA ChildStep == Types /\ CrInv /\ ChildInv /\ [Next]_vars => ChildInv'
<1> SUFFICES ASSUME Types, CrInv, ChildInv, [Next]_vars PROVE ChildInv'
  OBVIOUS
<1>1. \A children : Every(children) \subseteq Objects
  BY DEF Every
<1>2. Watched \subseteq Objects
  BY DEF Watched
<1>3. ASSUME UNCHANGED <<obj, objCache, objFresh>> PROVE ChildInv'
  BY <1>3 DEF ChildInv, Unowned
<1> USE DEF cacheVars, passVars
<1>4. ASSUME NEW o \in Watched, SyncObject(o) PROVE ChildInv'
  BY <1>2, <1>4, TypeFacts DEF SyncObject, ChildInv, Unowned
<1>5. CASE Restart
  BY <1>2, <1>5, TypeFacts DEF Restart, ChildInv, Unowned
<1>6. CASE Install
  <2>1. CASE AddFinalizer \/ FinishPass \/ FindMarker \/ RereadInstance \/ AwaitOperator \/ AwaitEs
    BY <1>3, <2>1 DEF AddFinalizer, FinishPass, FindMarker, RereadInstance, AwaitOperator, AwaitEs,
       NoWrites
  <2>. QED
    BY <1>6, <2>1, RegisterKindsChild, ApplyManagedChild, ReconcileExternalChild,
       TemplatesAndLogstashChild DEF Install
<1>7. CASE TakeDown
  BY <1>3, <1>7, TakeDownChild, ChildrenVisited DEF TakeDown, DropOperator, RemoveFinalizer
<1>8. CASE Settle \/ PassError \/ Resync \/ UNCHANGED vars
  BY <1>3, <1>8 DEF Settle, PassError, Resync, NoWrites, vars
<1>9. ASSUME NEW s \in Server, Users(s) \/ SyncCr(s) \/ StartPass(s) PROVE ChildInv'
  BY <1>3, <1>9 DEF Users, UserWrites, CreateCr, EditSpec, DeleteCr, ForceDelete, SyncCr,
     StartPass, NoWrites
<1>. QED
  BY <1>1, <1>4, <1>5, <1>6, <1>7, <1>8, <1>9, OthersChild DEF Next, PassStep, Collect

-----------------------------------------------------------------------------
\* While the pass stays where it is in the teardown, nobody else creates a child.
LEMMA StaysDown ==
  ASSUME Types, pc = "drop", UNCHANGED key, NEW c \in Child, Down(c),
         \A o \in Objects : obj'[o].exists => obj[o].exists /\ obj'[o].owner = obj[o].owner
  PROVE  Down(c)'
<1>1. Here(c) \in Objects /\ Here(c)' = Here(c)
  BY HereType DEF Here
<1>. QED  BY <1>1 DEF Down, Live, Unowned

LEMMA DeleteShrinks ==
  ASSUME Types, NEW o \in Objects, DeleteObject(o)
  PROVE  \A p \in Objects : obj'[p].exists => obj[p].exists /\ obj'[p].owner = obj[p].owner
<1>1. obj \in [Objects -> ObjectRecord] /\ ~NoObject.exists
  BY TypeFacts DEF NoObject
<1>2. CASE RemoveObject(o)
  BY <1>1, <1>2 DEF RemoveObject
<1>3. CASE WriteObject(o, [obj[o] EXCEPT !.terminating = TRUE])
  <2>1. obj' = [obj EXCEPT ![o] = [obj[o] EXCEPT !.terminating = TRUE]]
    BY <1>3 DEF WriteObject
  <2>2. /\ [obj[o] EXCEPT !.terminating = TRUE].exists = obj[o].exists
        /\ [obj[o] EXCEPT !.terminating = TRUE].owner = obj[o].owner
    BY <1>1 DEF ObjectRecord
  <2>. QED  BY <1>1, <2>1, <2>2
<1>. QED  BY <1>2, <1>3 DEF DeleteObject

LEMMA OthersShrink ==
  ASSUME Types, ChildInv, NEW o \in Objects,
         \/ DeleteChild(o) \/ GarbageCollect(o) \/ Release(o) \/ ComesUp(o) \/ GoesDown(o)
  PROVE  \A p \in Objects : obj'[p].exists => obj[p].exists /\ obj'[p].owner = obj[p].owner
<1>1. obj \in [Objects -> ObjectRecord] /\ ~NoObject.exists
  BY TypeFacts DEF NoObject
<1>2. CASE DeleteChild(o) \/ GarbageCollect(o)
  BY <1>2, DeleteShrinks DEF DeleteChild, GarbageCollect
<1>3. CASE Release(o)
  BY <1>1, <1>3 DEF Release, RemoveObject
<1>4. CASE ComesUp(o) \/ GoesDown(o)
  <2>1. PICK b \in BOOLEAN : obj' = [obj EXCEPT ![o] = [obj[o] EXCEPT !.ready = b]]
    BY <1>4 DEF ComesUp, GoesDown, WriteObject
  <2>2. /\ [obj[o] EXCEPT !.ready = b].exists = obj[o].exists
        /\ [obj[o] EXCEPT !.ready = b].owner = obj[o].owner
    BY <1>1 DEF ObjectRecord
  <2>. QED  BY <1>1, <2>1, <2>2
<1>. QED  BY <1>2, <1>3, <1>4

\* A visit of the teardown ends, if the pass goes on, with the child down.
LEMMA TakeDownDown ==
  ASSUME Types, ChildInv, DropInv, NEW o \in Child,
         DropAwaited(o) \/ DropOnce(o) \/ (o = "operator" /\ DropOperator)
  PROVE  DropInv'
<1>1. /\ pc = "drop" /\ idx \in DOMAIN Teardown /\ Teardown[idx] = o
      /\ Here(o) \in Objects /\ idx \in Nat
      /\ DOMAIN Teardown = 1..Len(Teardown) /\ \A i \in DOMAIN Teardown : Teardown[i] \in Child
  <2>1. Teardown \in Seq(Child)
    BY InsightsConstants
  <2>. QED
    BY <2>1, HereType, TypeFacts DEF DropAwaited, DropOnce, DropOperator, Dropping
<1>2. \A p \in Objects : obj'[p].exists => obj[p].exists /\ obj'[p].owner = obj[p].owner
  <2>1. DeleteObject(Here(o)) \/ UNCHANGED obj
    BY DEF DropAwaited, DropOnce, DropOperator
  <2>. QED  BY <1>1, <2>1, DeleteShrinks
<1>3. CASE GoTo("drop", idx)
  <2>1. UNCHANGED key /\ idx' = idx
    BY <1>3 DEF GoTo
  <2>. QED  BY <1>1, <1>2, <2>1, StaysDown DEF DropInv
<1>4. CASE NextDrop
  <2>1. UNCHANGED key /\ idx' = idx + 1 /\ Here(o)' = Here(o)
    BY <1>4 DEF NextDrop, GoTo, Here
  <2>2. Down(o)'
    <3>1. CASE o \in Awaited
      <4>1. o # "operator" /\ DropAwaited(o)
        BY <3>1 DEF Awaited, DropOnce
      <4>2. ~GoTo("drop", idx)
        BY <1>1, <1>4 DEF NextDrop, GoTo
      <4>3. ~Live(o).exists /\ UNCHANGED obj
        BY <4>1, <4>2 DEF DropAwaited
      <4>. QED  BY <2>1, <4>1, <4>3 DEF Down, Live
    <3>2. CASE o = "operator"
      <4>1. DropOperator /\ o \notin Awaited
        BY <3>2 DEF Awaited, DropAwaited, DropOnce
      <4>2. ~Fail
        BY <1>1, <1>4 DEF Fail, Return, NextDrop, GoTo
      <4>3. CASE DeleteObject(Here("operator"))
        <5>1. Here(o)[2] \notin Awaited /\ RemoveObject(Here(o))
          BY <3>2, <4>1, <4>3 DEF DeleteObject, Here, Place
        <5>2. obj'[Here(o)] = NoObject
          BY <1>1, <5>1 DEF RemoveObject
        <5>. QED  BY <2>1, <4>1, <5>2 DEF Down, Unowned, NoObject
      <4>4. CASE ~Read("operator").exists /\ UNCHANGED obj
        <5>1. Here(o)[2] = "operator"
          BY <3>2 DEF Here, Place
        <5>2. ~Unowned(Here(o))
          BY <1>1, <3>2, <4>4, <5>1 DEF ChildInv, Read
        <5>. QED  BY <2>1, <4>1, <4>4, <5>2 DEF Down, Unowned
      <4>. QED  BY <4>1, <4>2, <4>3, <4>4 DEF DropOperator
    <3>3. CASE o \notin Awaited \cup {"operator"}
      BY <3>3 DEF Down
    <3>. QED  BY <3>1, <3>2, <3>3
  <2>3. ASSUME NEW i \in DOMAIN Teardown, i < idx PROVE Down(Teardown[i])'
    BY <1>1, <1>2, <2>1, <2>3, StaysDown DEF DropInv
  <2>4. \A i \in DOMAIN Teardown : i < idx + 1 => i < idx \/ i = idx
    BY <1>1
  <2>5. \A i \in DOMAIN Teardown : i < idx + 1 => Down(Teardown[i])'
    BY <1>1, <2>2, <2>3, <2>4
  <2>. QED  BY <2>1, <2>5 DEF DropInv
<1>5. CASE Fail
  BY <1>5 DEF Fail, Return, DropInv
<1>. QED  BY <1>3, <1>4, <1>5 DEF DropAwaited, DropOnce, DropOperator

LEMMA DropStep == Types /\ ChildInv /\ DropInv /\ [Next]_vars => DropInv'
<1> SUFFICES ASSUME Types, ChildInv, DropInv, [Next]_vars PROVE DropInv'
  OBVIOUS
<1>1. ASSUME pc' # "drop" PROVE DropInv'
  BY <1>1 DEF DropInv
<1>2. ASSUME UNCHANGED <<pc, idx, key>>,
             \A o \in Objects : obj'[o].exists => obj[o].exists /\ obj'[o].owner = obj[o].owner
      PROVE  DropInv'
  <2>1. \A i \in DOMAIN Teardown : Teardown[i] \in Child
    <3>1. Teardown \in Seq(Child)
      BY InsightsConstants
    <3>. QED  BY <3>1
  <2>. QED  BY <1>2, <2>1, StaysDown DEF DropInv
<1>3. ASSUME UNCHANGED <<pc, idx, key, obj>> PROVE DropInv'
  BY <1>2, <1>3
<1>4. \A children : Every(children) \subseteq Objects
  BY DEF Every
<1> USE DEF cacheVars, passVars
<1>5. ASSUME NEW o \in Objects,
             \/ DeleteChild(o) \/ GarbageCollect(o) \/ Release(o) \/ ComesUp(o) \/ GoesDown(o)
      PROVE  DropInv'
  BY <1>2, <1>5, OthersShrink DEF DeleteChild, GarbageCollect, Release, ComesUp, GoesDown, Rest
<1>6. ASSUME NEW s \in Server, Users(s) \/ SyncCr(s) PROVE DropInv'
  BY <1>3, <1>6 DEF Users, UserWrites, CreateCr, EditSpec, DeleteCr, ForceDelete, SyncCr
<1>7. ASSUME NEW s \in Server, StartPass(s) PROVE DropInv'
  <2>1. CASE UNCHANGED passVars
    BY <1>1, <1>7, <2>1 DEF StartPass
  <2>2. CASE idx' = 1
    <3>1. DOMAIN Teardown = 1..Len(Teardown) /\ Len(Teardown) \in Nat
      <4>1. Teardown \in Seq(Child)
        BY InsightsConstants
      <4>. QED  BY <4>1
    <3>. QED  BY <2>2, <3>1 DEF DropInv
  <2>. QED  BY <1>7, <2>1, <2>2 DEF StartPass, Begin
<1>8. CASE Install
  BY <1>1, <1>8 DEF Install, AddFinalizer, FinishPass, FindMarker, RereadInstance, RegisterKinds,
     ApplyManaged, ReconcileExternal, CreateExternal, KeepExternal, Resize, KeepGrafana,
     AwaitOperator, AwaitEs, LoadTemplates, ReconcileLogstash, Succeed, Fail, Return, NextStep,
     GoTo
<1>9. CASE TakeDown
  <2>1. CASE RemoveFinalizer
    BY <1>1, <2>1 DEF RemoveFinalizer, Succeed, Fail, Return
  <2>. QED  BY <1>9, <2>1, TakeDownDown, ChildrenVisited DEF TakeDown, DropOperator
<1>10. CASE PassError \/ Restart
  BY <1>1, <1>10 DEF PassError, Fail, Restart, Return
<1>11. CASE Settle \/ Resync \/ UNCHANGED vars \/ \E o \in Watched : SyncObject(o)
  BY <1>3, <1>11 DEF Settle, Resync, SyncObject, vars
<1>. QED
  BY <1>4, <1>5, <1>6, <1>7, <1>8, <1>9, <1>10, <1>11 DEF Next, PassStep, Collect

LEMMA ServerInit == Init => CrInv /\ ChildInv /\ DropInv
<1> SUFFICES ASSUME Init PROVE CrInv /\ ChildInv /\ DropInv
  OBVIOUS
<1>1. CrInv
  BY DEF Init, CrInv, Identified, NoCr
<1>2. Watched \subseteq Objects
  BY DEF Watched
<1>3. ChildInv
  BY <1>2 DEF Init, ChildInv, Unowned, NoObject
<1>. QED  BY <1>1, <1>3 DEF Init, DropInv

LEMMA ServerInvariant == Spec => []ServerInv
<1>1. Init => ServerInv
  BY TypesInit, ServerInit DEF ServerInv
<1>2. ServerInv /\ [Next]_vars => ServerInv'
  BY TypesStep, CrStep, ChildStep, DropStep DEF ServerInv
<1>. QED  BY <1>1, <1>2, PTL DEF Spec

-----------------------------------------------------------------------------
\* The worker writes the resource in two places only.
LEMMA WritesOfThePass ==
  ASSUME [Next]_vars, ~UNCHANGED cr, ~UNCHANGED <<pc, idx>>
  PROVE  AddFinalizer \/ RemoveFinalizer
BY DEF Next, PassStep, Install, TakeDown, Users, UserWrites, CreateCr, EditSpec, DeleteCr,
   ForceDelete, Settle, PassError, Restart, SyncCr, StartPass, DeleteChild, GarbageCollect,
   Collect, Release, ComesUp, GoesDown, SyncObject, Resync, FinishPass, FindMarker, RereadInstance,
   RegisterKinds, ApplyManaged, ReconcileExternal, CreateExternal, KeepExternal, AwaitOperator,
   AwaitEs, LoadTemplates, ReconcileLogstash, DropAwaited, DropOnce, DropOperator, NoWrites,
   Apart, Rest, vars, cacheVars, passVars

\* What users asked for survives the writes of the passes: the update that adds
\* the finalizer replaces the whole instance, but by one read since the last
\* change of the resource; the one that removes it does so only if nobody
\* changed the resource since the pass saw it deleted.
THEOREM RequestsAreKept == Spec => KeepsRequests
<1> DEFINE Kept(s) == \/ ~cr'[s].exists
                      \/ /\ cr[s].exists
                         /\ cr'[s].size = cr[s].size /\ cr'[s].uid = cr[s].uid
                         /\ cr'[s].deleting = cr[s].deleting
<1>1. ServerInv /\ [Next]_vars
        => [UNCHANGED cr \/ UNCHANGED <<pc, idx>> \/ \A s \in Server : Kept(s)]_<<cr, pc, idx>>
  <2> SUFFICES ASSUME ServerInv, [Next]_vars, ~UNCHANGED cr, ~UNCHANGED <<pc, idx>>,
                      NEW s \in Server
               PROVE  Kept(s)
    OBVIOUS
  <2>a. Types /\ CrInv
    BY DEF ServerInv
  <2>1. CASE AddFinalizer
    <3>1. /\ cr' = [cr EXCEPT ![key] = [cr[key] EXCEPT !.finalizer = TRUE]]
          /\ key \in Server /\ cr[key] \in CrRecord /\ cr[key].exists
      BY <2>a, <2>1, AddFinalizerWrites
    <3> DEFINE written == [cr[key] EXCEPT !.finalizer = TRUE]
    <3>2. /\ written.size = cr[key].size /\ written.uid = cr[key].uid
          /\ written.deleting = cr[key].deleting
      BY <3>1 DEF CrRecord
    <3> HIDE DEF written
    <3>3. cr'[s] = IF s = key THEN written ELSE cr[s]
      BY <2>a, <3>1, TypeFacts DEF written
    <3>. QED  BY <3>1, <3>2, <3>3
  <2>2. CASE RemoveFinalizer
    <3>1. cr' = [cr EXCEPT ![key] = NoCr]
      BY <2>2 DEF RemoveFinalizer, WriteCr
    <3>. QED  BY <2>a, <3>1, TypeFacts DEF NoCr
  <2>. QED  BY <2>1, <2>2, WritesOfThePass
<1>. QED  BY <1>1, ServerInvariant, PTL DEF Spec, KeepsRequests

\* A finalizer goes only when what it stands for is gone: all that the teardown
\* waits for was still gone when the pass came to its end, and an operator that it
\* did not see has an owner, hence goes with the resource.
THEOREM TornDownBeforeTheEnd == Spec => TornDownFirst
<1> DEFINE Torn == /\ \A c \in Awaited \cap Child : ~Live(c).exists
                   /\ "operator" \in Child /\ Live("operator").exists => Live("operator").owner # 0
           Ends == pc = "drop" /\ pc' = "idle" /\ cr[key].exists /\ ~cr'[key].exists
<1>1. ServerInv /\ [Next]_vars => [Ends => Torn]_<<cr, pc>>
  <2> SUFFICES ASSUME ServerInv, [Next]_vars, Ends PROVE Torn
    OBVIOUS
  <2>a. Types /\ DropInv
    BY DEF ServerInv
  <2>1. RemoveFinalizer
    <3>1. ~AddFinalizer
      BY DEF AddFinalizer
    <3>. QED  BY <3>1, WritesOfThePass
  <2>2. /\ idx > Len(Teardown) /\ DOMAIN Teardown = 1..Len(Teardown) /\ Len(Teardown) \in Nat
        /\ idx \in Nat
    <3>1. Teardown \in Seq(Child)
      BY InsightsConstants
    <3>. QED  BY <2>a, <2>1, <3>1, TypeFacts DEF RemoveFinalizer
  <2>3. \A i \in DOMAIN Teardown : Down(Teardown[i])
    BY <2>a, <2>2 DEF DropInv
  <2>4. \A c \in Child \cap (Awaited \cup {"operator"}) : Down(c)
    <3>1. Child \cap (Awaited \cup {"operator"}) \subseteq {Teardown[i] : i \in DOMAIN Teardown}
      BY InsightsConstants
    <3>. QED  BY <2>3, <3>1
  <2>. QED  BY <2>4 DEF Down, Unowned, Live
<1>. QED  BY <1>1, ServerInvariant, PTL DEF Spec, TornDownFirst

-----------------------------------------------------------------------------
(***************************************************************************)
(* No deletion is forgotten.  A server that is to go is there, and what    *)
(* ends a teardown without removing it brings its key back.                *)
(***************************************************************************)
RememberedInv == DeletionRemembered /\ \A s \in Server : cr[s].deleting => cr[s].exists

LEMMA KeepsDeletions ==
  ASSUME RememberedInv,
         \A s \in Server : crFresh'[s] => crFresh[s],
         \A s \in Server : cr'[s].deleting => cr'[s].exists /\ (cr[s].deleting \/ ~crFresh'[s]),
         pending \subseteq pending',
         pc = "drop" => \/ key \in pending'
                        \/ pc' = "drop" /\ key' = key
                        \/ ~cr'[key].deleting
  PROVE  RememberedInv'
BY DEF RememberedInv, DeletionRemembered

LEMMA UsersRemember ==
  ASSUME Types, RememberedInv, NEW s \in Server, Users(s)
  PROVE  RememberedInv'
<1>1. ASSUME NEW record, UserWrites(s, record), record.deleting => record.exists
      PROVE  RememberedInv'
  <2>1. /\ \A t \in Server : cr'[t] = IF t = s THEN record ELSE cr[t]
        /\ \A t \in Server : crFresh'[t] = (crFresh[t] /\ t # s)
        /\ UNCHANGED <<pending, key, pc>>
    BY <1>1, TypeFacts DEF UserWrites, WriteCr
  <2>. QED  BY <1>1, <2>1, KeepsDeletions DEF RememberedInv
<1>2. cr[s] \in CrRecord /\ NoCr \in CrRecord
  BY TypeFacts, BlankTypes
<1>3. CASE CreateCr(s)
  <2>1. PICK n \in Sizes :
          UserWrites(s, [NoCr EXCEPT !.exists = TRUE, !.uid = requests + 1, !.size = n])
    BY <1>3 DEF CreateCr
  <2>2. [NoCr EXCEPT !.exists = TRUE, !.uid = requests + 1, !.size = n].exists
    BY <1>2 DEF CrRecord
  <2>. QED  BY <1>1, <2>1, <2>2
<1>4. CASE EditSpec(s)
  <2>1. PICK n \in Sizes : UserWrites(s, [cr[s] EXCEPT !.size = n])
    BY <1>4 DEF EditSpec
  <2>2. [cr[s] EXCEPT !.size = n].exists
    BY <1>2, <1>4 DEF EditSpec, CrRecord
  <2>. QED  BY <1>1, <2>1, <2>2
<1>5. CASE DeleteCr(s)
  <2>1. [cr[s] EXCEPT !.deleting = TRUE].exists /\ ~NoCr.deleting
    BY <1>2, <1>5 DEF DeleteCr, CrRecord, NoCr
  <2>. QED  BY <1>1, <1>5, <2>1 DEF DeleteCr
<1>6. CASE ForceDelete(s)
  BY <1>1, <1>6 DEF ForceDelete, NoCr
<1>. QED  BY <1>3, <1>4, <1>5, <1>6 DEF Users

LEMMA RememberedStep == Types /\ CrInv /\ RememberedInv /\ [Next]_vars => RememberedInv'
<1> SUFFICES ASSUME Types, CrInv, RememberedInv, [Next]_vars PROVE RememberedInv'
  OBVIOUS
<1> USE DEF cacheVars, passVars
<1>1. ASSUME UNCHANGED <<cr, crFresh>>, pending \subseteq pending',
             pc = "drop" => pc' = "drop" /\ key' = key
      PROVE  RememberedInv'
  BY <1>1, KeepsDeletions DEF RememberedInv
<1>2. ASSUME UNCHANGED <<cr, crFresh>>, Fail PROVE RememberedInv'
  BY <1>2, KeepsDeletions DEF Fail, RememberedInv
<1>3. CASE AddFinalizer
  <2>1. pc = "addFinalizer" /\ pending \subseteq pending'
    BY <1>3 DEF AddFinalizer, GoTo, Fail
  <2>2. \A s \in Server : crFresh'[s] => crFresh[s]
    BY <1>3, TypeFacts DEF AddFinalizer, WriteCr
  <2>3. \A s \in Server : cr'[s].deleting = cr[s].deleting /\ cr'[s].exists = cr[s].exists
    <3>1. CASE UNCHANGED cr
      BY <3>1
    <3>2. CASE ~UNCHANGED cr
      <4>1. /\ cr' = [cr EXCEPT ![key] = [cr[key] EXCEPT !.finalizer = TRUE]]
            /\ key \in Server /\ cr[key] \in CrRecord
        BY <1>3, <3>2, AddFinalizerWrites
      <4>. QED  BY <4>1, TypeFacts DEF CrRecord
    <3>. QED  BY <3>1, <3>2
  <2>. QED  BY <2>1, <2>2, <2>3, KeepsDeletions DEF RememberedInv
<1>4. CASE RemoveFinalizer
  <2>1. CASE WriteCr(key, NoCr) /\ UNCHANGED pending
    <3>1. key \in Server
      BY <1>4, TypeFacts DEF RemoveFinalizer
    <3>2. /\ \A s \in Server : cr'[s] = IF s = key THEN NoCr ELSE cr[s]
          /\ \A s \in Server : crFresh'[s] => crFresh[s]
      BY <2>1, <3>1, TypeFacts DEF WriteCr
    <3>. QED  BY <2>1, <3>1, <3>2, KeepsDeletions DEF RememberedInv, NoCr
  <2>. QED  BY <1>2, <1>4, <2>1 DEF RemoveFinalizer, Succeed
<1>5. CASE Install /\ ~AddFinalizer
  <2>1. UNCHANGED <<cr, crFresh>> /\ pc # "drop"
    BY <1>5 DEF Install, FinishPass, FindMarker, RereadInstance, RegisterKinds, ApplyManaged,
       ReconcileExternal, CreateExternal, KeepExternal, AwaitOperator, AwaitEs, LoadTemplates,
       ReconcileLogstash, Visiting, NoWrites, Apart
  <2>2. Fail \/ UNCHANGED pending
    BY <1>5 DEF Install, FinishPass, FindMarker, RereadInstance, RegisterKinds, ApplyManaged,
       ReconcileExternal, CreateExternal, KeepExternal, Resize, KeepGrafana, AwaitOperator,
       AwaitEs, LoadTemplates, ReconcileLogstash, Succeed, NextStep, GoTo
  <2>. QED  BY <1>1, <1>2, <2>1, <2>2
<1>6. CASE TakeDown /\ ~RemoveFinalizer
  <2>1. UNCHANGED <<cr, crFresh>>
    BY <1>6 DEF TakeDown, DropAwaited, DropOnce, DropOperator, Apart
  <2>2. Fail \/ UNCHANGED <<key, pc, pending>>
    BY <1>6 DEF TakeDown, DropAwaited, DropOnce, DropOperator, Dropping, NextDrop, GoTo
  <2>. QED  BY <1>1, <1>2, <2>1, <2>2
<1>7. ASSUME NEW s \in Server, SyncCr(s) PROVE RememberedInv'
  BY <1>7, TypeFacts DEF SyncCr, RememberedInv, DeletionRemembered
<1>8. ASSUME NEW s \in Server, StartPass(s) PROVE RememberedInv'
  <2>1. /\ pc = "idle" /\ pending' = pending \ {s} /\ UNCHANGED <<cr, crFresh>>
        /\ ~crCache[s].exists \/ ~crCache[s].deleting \/ (pc' = "drop" /\ key' = s)
    BY <1>8 DEF StartPass, Begin, NoWrites
  <2>2. crFresh[s] => crCache[s] = cr[s]
    BY DEF CrInv
  <2>. QED  BY <2>1, <2>2 DEF RememberedInv, DeletionRemembered
<1>9. CASE Restart
  BY <1>9 DEF Restart, RememberedInv, DeletionRemembered
<1>10. CASE PassError
  BY <1>2, <1>10 DEF PassError, NoWrites
<1>11. ASSUME NEW o, \/ DeleteChild(o) \/ GarbageCollect(o) \/ Release(o) \/ ComesUp(o)
                     \/ GoesDown(o) \/ SyncObject(o)
       PROVE  RememberedInv'
  BY <1>1, <1>11 DEF DeleteChild, GarbageCollect, Release, ComesUp, GoesDown, SyncObject, Rest
<1>12. CASE Settle \/ Resync \/ UNCHANGED vars
  BY <1>1, <1>12 DEF Settle, Resync, vars
<1>. QED
  BY <1>3, <1>4, <1>5, <1>6, <1>7, <1>8, <1>9, <1>10, <1>11, <1>12, UsersRemember
     DEF Next, PassStep, Collect

\* No deletion is forgotten: a server that is to go has its teardown under way or
\* due as soon as the cache shows the deletion, whatever pass was running then and
\* however a teardown before ended.
THEOREM DeletionsAreRemembered == Spec => []DeletionRemembered
<1>1. Init => RememberedInv
  <2> SUFFICES ASSUME Init PROVE RememberedInv
    OBVIOUS
  <2>1. \A s \in Server : ~cr[s].deleting
    BY DEF Init, NoCr
  <2>. QED  BY <2>1 DEF RememberedInv, DeletionRemembered
<1>2. Types /\ CrInv /\ RememberedInv /\ [Next]_vars => (Types /\ CrInv /\ RememberedInv)'
  BY TypesStep, CrStep, RememberedStep
<1>3. Init => Types /\ CrInv
  BY TypesInit, ServerInit
<1>4. RememberedInv => DeletionRemembered
  BY DEF RememberedInv
<1>. QED  BY <1>1, <1>2, <1>3, <1>4, PTL DEF Spec
=============================================================================
