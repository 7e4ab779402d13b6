-------------------------- MODULE NuodbController --------------------------
(***************************************************************************)
(* The Nuodb controller (pkg/controller/nuodb) between the Kubernetes API  *)
(* server it writes to and the informer caches it reads from.              *)
(*                                                                         *)
(* The controller has one worker.  A pass (reconcileNuodbInternal) reads   *)
(* the custom resource from the cache, then visits the child resources of  *)
(* the rendered chart in processOrder, creating what is missing, copying   *)
(* the ready counts into the status, and setting the replica counts.       *)
(* Between two steps of a pass the users, the other controllers of the     *)
(* cluster and the informers all move.                                     *)
(*                                                                         *)
(* Resource versions are compared only for equality ("is my copy the       *)
(* server's?"), so each copy carries a Boolean: it is fresh until the next *)
(* write of its object on the server.  asked, the specs users wrote under  *)
(* each name, is history, and so is gen, the position in it of the spec of *)
(* an instance or of the one a workload's replicas were set from.  No      *)
(* action reads them, except that the gen at creation serves as the uid.   *)
(***************************************************************************)
EXTENDS Naturals, Sequences, NuodbHealth

CONSTANTS
  CR,           \* names of the Nuodb custom resources of one namespace
  Manifest,     \* Manifest[c]: the child resources a pass for c visits, in order
  Requests,     \* the replica counts a user may ask for
  MaxReady,     \* bound: ready pods of one workload
  MaxRequests   \* bound: writes of the spec under one name

\* te: the Deployment <cr>-te.  sm: the StatefulSet <cr>-sm.
Role == {"te", "sm"}

\* A workload belongs to its custom resource's name; every other child has a
\* name of its own in the namespace, and several custom resources may share it.
ObjectOf(c, item) == IF item \in Role THEN <<c, item>> ELSE <<"namespace", item>>

Objects == UNION {{ObjectOf(c, Manifest[c][i]) : i \in DOMAIN Manifest[c]} : c \in CR}

ASSUME ConstantsAssumption ==
  /\ CR # {}
  /\ Manifest \in [CR -> Seq(STRING)]
  /\ Requests \subseteq [Role -> Nat]
  /\ MaxReady \in Nat
  /\ MaxRequests \in Nat

VARIABLES
  cr,         \* the custom resources on the API server
  crCache,    \* the informer's copies of them
  crFresh,    \* crFresh[c]: the informer's copy has the server's version
  obj,        \* the child resources on the API server
  objCache,   \* the informers' copies of them
  objFresh,
  pending,    \* keys in the work queue, due now or after a delay
  pc,         \* the worker: "idle", or the next step of its pass
  key,        \* the key of the pass
  idx,        \* the child being visited; 0 in the status initialisation branch
  inst,       \* the instance read at the start of the pass
  copy,       \* the workload read by this visit
  copyFresh,  \* that copy still has the server's version
  newStatus,  \* the status about to be passed to updateStatus
  quiet,      \* users, pods and failures have come to rest for good
  asked       \* asked[c]: the specs users wrote under the name c

apiVars   == <<cr, obj>>
cacheVars == <<crCache, crFresh, objCache, objFresh>>
passVars  == <<pc, key, idx, inst, copy, copyFresh, newStatus>>
vars      == <<apiVars, cacheVars, passVars, pending, quiet, asked>>

-----------------------------------------------------------------------------
Status   == [init: BOOLEAN, count: [Role -> Nat], health: [Role -> Health]]
CrRecord == [exists: BOOLEAN, uid: Nat, gen: Nat, spec: [Role -> Nat], status: Status]
Object   == [exists: BOOLEAN, owner: CR \X Nat, replicas: Nat, ready: Nat, gen: Nat]

\* status.controllerVersion is empty, as a user creates the resource.
NoStatus == [init |-> FALSE, count |-> [r \in Role |-> 0], health |-> [r \in Role |-> "Unknown"]]

\* The status a pass starts with when it finds no controllerVersion.
InitialStatus == [NoStatus EXCEPT !.init = TRUE]

NoCr(gen) == [exists |-> FALSE, uid |-> 0, gen |-> gen,
              spec |-> [r \in Role |-> 0], status |-> NoStatus]

NoObject == [exists |-> FALSE, owner |-> <<CHOOSE c \in CR : TRUE, 0>>,
             replicas |-> 0, ready |-> 0, gen |-> 0]

Init ==
  /\ cr = [c \in CR |-> NoCr(0)]
  /\ crCache = cr
  /\ crFresh = [c \in CR |-> TRUE]
  /\ obj = [o \in Objects |-> NoObject]
  /\ objCache = obj
  /\ objFresh = [o \in Objects |-> TRUE]
  /\ pending = {}
  /\ pc = "idle"
  /\ key \in CR
  /\ idx = 0
  /\ inst = NoCr(0)
  /\ copy = NoObject
  /\ copyFresh = FALSE
  /\ newStatus = NoStatus
  /\ quiet = FALSE
  /\ asked = [c \in CR |-> <<>>]

-----------------------------------------------------------------------------
(***************************************************************************)
(* Writes on the API server.  Every write gives the object a new version,  *)
(* which makes the copies of it stale.                                     *)
(***************************************************************************)
Visited == ObjectOf(key, Manifest[key][idx])

\* The worker holds a copy of o between reading a workload and scaling it.
Holds(o) == pc \in {"readyCount", "updateStatus", "scale"} /\ idx # 0 /\ Visited = o

WriteCr(c, record) ==
  /\ cr' = [cr EXCEPT ![c] = record]
  /\ crFresh' = [crFresh EXCEPT ![c] = FALSE]

WriteObject(o, record) ==
  /\ obj' = [obj EXCEPT ![o] = record]
  /\ objFresh' = [objFresh EXCEPT ![o] = FALSE]

OutdateCopy(o) == copyFresh' = (copyFresh /\ ~Holds(o))

-----------------------------------------------------------------------------
(***************************************************************************)
(* Users, pods and the garbage collector.                                  *)
(***************************************************************************)
UserVars == <<obj, crCache, objCache, objFresh, passVars, pending, quiet>>

\* A user writes a spec; the rest of the instance is as given.
Ask(c, instance, spec) ==
  /\ Len(asked[c]) < MaxRequests
  /\ asked' = [asked EXCEPT ![c] = Append(@, spec)]
  /\ WriteCr(c, [instance EXCEPT !.gen = Len(asked[c]) + 1, !.spec = spec])
  /\ UNCHANGED UserVars

CreateCr(c) ==
  /\ ~quiet /\ ~cr[c].exists
  /\ \E spec \in Requests :
       Ask(c, [cr[c] EXCEPT !.exists = TRUE, !.uid = Len(asked[c]) + 1], spec)

EditSpec(c) ==
  /\ ~quiet /\ cr[c].exists
  /\ \E spec \in Requests \ {cr[c].spec} : Ask(c, cr[c], spec)

DeleteCr(c) ==
  /\ ~quiet /\ cr[c].exists
  /\ WriteCr(c, NoCr(cr[c].gen))
  /\ UNCHANGED <<UserVars, asked>>

RemoveObject(o) ==
  /\ WriteObject(o, NoObject)
  /\ OutdateCopy(o)
  /\ UNCHANGED <<cr, crCache, crFresh, objCache, pc, key, idx, inst, copy, newStatus,
                 pending, quiet, asked>>

DeleteChild(o) == ~quiet /\ obj[o].exists /\ RemoveObject(o)

\* The resource that owns o (SetControllerReference) is still there.
OwnerLives(o) == LET c == obj[o].owner[1]
                 IN  cr[c].exists /\ cr[c].uid = obj[o].owner[2]

HasOwner(o) == obj[o].owner[2] # 0

GarbageCollect(o) == obj[o].exists /\ HasOwner(o) /\ ~OwnerLives(o) /\ RemoveObject(o)

\* Pods of a workload become ready, or stop being ready.
PodsChange(o) ==
  /\ ~quiet /\ obj[o].exists /\ o[2] \in Role
  /\ \E n \in 0..MaxReady :
       /\ n # obj[o].ready
       /\ n <= obj[o].replicas \/ n < obj[o].ready
       /\ WriteObject(o, [obj[o] EXCEPT !.ready = n])
  /\ OutdateCopy(o)
  /\ UNCHANGED <<cr, crCache, crFresh, objCache, pc, key, idx, inst, copy, newStatus,
                 pending, quiet, asked>>

Settle == ~quiet /\ quiet' = TRUE /\ UNCHANGED <<apiVars, cacheVars, passVars, pending, asked>>

-----------------------------------------------------------------------------
(***************************************************************************)
(* Informers.  Only the custom resource is watched by the controller: an   *)
(* event for it enqueues its key.  Children are cached without a handler.  *)
(***************************************************************************)
SyncCr(c) ==
  /\ ~crFresh[c]
  /\ crCache' = [crCache EXCEPT ![c] = cr[c]]
  /\ crFresh' = [crFresh EXCEPT ![c] = TRUE]
  /\ pending' = pending \cup {c}
  /\ UNCHANGED <<apiVars, objCache, objFresh, passVars, quiet, asked>>

SyncObject(o) ==
  /\ ~objFresh[o]
  /\ objCache' = [objCache EXCEPT ![o] = obj[o]]
  /\ objFresh' = [objFresh EXCEPT ![o] = TRUE]
  /\ UNCHANGED <<apiVars, crCache, crFresh, passVars, pending, quiet, asked>>

-----------------------------------------------------------------------------
(***************************************************************************)
(* The worker.                                                             *)
(***************************************************************************)
\* The pass returns; what it held is dropped.
ReturnWedged ==  \* MUTANT of Return: the worker is never released
  /\ pc' = "returned" /\ idx' = 0
  /\ inst' = NoCr(0) /\ copy' = NoObject /\ copyFresh' = FALSE /\ newStatus' = NoStatus
  /\ UNCHANGED key

Return ==
  /\ pc' = "idle" /\ idx' = 0
  /\ inst' = NoCr(0) /\ copy' = NoObject /\ copyFresh' = FALSE /\ newStatus' = NoStatus
  /\ UNCHANGED key

\* An error, Requeue or RequeueAfter: the key comes back, now or after a delay.
ReturnAndRequeue == Return /\ pending' = pending \cup {key}

NextChild ==
  /\ pc' = "visit" /\ idx' = idx + 1
  /\ copy' = NoObject /\ copyFresh' = FALSE /\ newStatus' = NoStatus
  /\ UNCHANGED <<key, inst, pending>>

\* The head of reconcileNuodbInternal: the instance is gone, has no status yet,
\* or is reconciled child by child.
InitEveryEdit(c) ==  \* MUTANT of NeedsInit: once for each edit of the spec
  ~crCache[c].status.init \/ crCache[c].gen # crCache[c].uid

NeedsInit(c) == ~crCache[c].status.init

StartPass(c) ==
  /\ pc = "idle" /\ c \in pending
  /\ pending' = pending \ {c}
  /\ key' = c
  /\ \/ /\ ~crCache[c].exists
        /\ UNCHANGED <<pc, idx, inst, newStatus>>
     \/ /\ crCache[c].exists /\ NeedsInit(c)
        /\ pc' = "updateStatus" /\ newStatus' = InitialStatus
        /\ UNCHANGED <<idx, inst>>
     \/ /\ crCache[c].exists /\ ~NeedsInit(c)
        /\ pc' = "visit" /\ idx' = 1 /\ inst' = crCache[c]
        /\ UNCHANGED newStatus
  /\ UNCHANGED <<apiVars, cacheVars, copy, copyFresh, quiet, asked>>

FinishForGood ==  \* MUTANT of FinishPass: a clean pass does not requeue
  /\ pc = "visit" /\ idx > Len(Manifest[key])
  /\ Return
  /\ UNCHANGED <<apiVars, cacheVars, pending, quiet, asked>>

FinishPass ==
  /\ pc = "visit" /\ idx > Len(Manifest[key])
  /\ ReturnAndRequeue
  /\ UNCHANGED <<apiVars, cacheVars, quiet, asked>>

\* What the templates and SetControllerReference make of the instance.
NewObjectUnowned(item) ==  \* MUTANT of NewObject: no SetControllerReference
  [exists |-> TRUE, owner |-> NoObject.owner, ready |-> 0, gen |-> inst.gen,
   replicas |-> IF item \in Role THEN inst.spec[item] ELSE 0]

NewObject(item) ==
  [exists |-> TRUE, owner |-> <<key, inst.uid>>, ready |-> 0, gen |-> inst.gen,
   replicas |-> IF item \in Role THEN inst.spec[item] ELSE 0]

\* The cache has no such child: create it.  The server may have one all the
\* same, and then the pass ends with AlreadyExists.
CreateMissing(item) ==
  /\ ~objCache[Visited].exists
  /\ \/ /\ ~obj[Visited].exists
        /\ WriteObject(Visited, NewObject(item))
        /\ NextChild
     \/ /\ obj[Visited].exists
        /\ ReturnAndRequeue
        /\ UNCHANGED <<obj, objFresh>>
  /\ UNCHANGED <<cr, crCache, crFresh, objCache, quiet, asked>>

Visiting(item) == pc = "visit" /\ idx \in DOMAIN Manifest[key] /\ Manifest[key][idx] = item

\* Secret, ConfigMap, DaemonSet: created when missing, never looked at again.
ReconcilePlain(item) ==
  /\ Visiting(item) /\ item \notin Role
  /\ \/ CreateMissing(item)
     \/ /\ objCache[Visited].exists
        /\ NextChild
        /\ UNCHANGED <<apiVars, cacheVars, quiet, asked>>

\* Deployment and StatefulSet, first step: get or create.
ReconcileWorkload(role) ==
  /\ Visiting(role)
  /\ \/ CreateMissing(role)
     \/ /\ objCache[Visited].exists
        /\ pc' = "readyCount" /\ copy' = objCache[Visited] /\ copyFresh' = objFresh[Visited]
        /\ UNCHANGED <<apiVars, cacheVars, key, idx, inst, newStatus, pending, quiet, asked>>

\* updateTeReadyCount, updateSmReadyCount: the first read of the instance.
\* Nothing to write when it is gone or already has this count.
UpdateReadyCount(role) ==
  /\ pc = "readyCount" /\ Manifest[key][idx] = role
  /\ \/ /\ ~crCache[key].exists \/ crCache[key].status.count[role] = copy.ready
        /\ pc' = "scale" /\ UNCHANGED newStatus
     \/ /\ crCache[key].exists /\ crCache[key].status.count[role] # copy.ready
        /\ newStatus' = [crCache[key].status EXCEPT !.count[role] = copy.ready]
        /\ pc' = "updateStatus"
  /\ UNCHANGED <<apiVars, cacheVars, key, idx, inst, copy, copyFresh, pending, quiet, asked>>

UpdateTeReadyCount == UpdateReadyCount("te")
UpdateSmReadyCount == UpdateReadyCount("sm")

\* The lights are computed against the spec of the instance read here.
WithHealth(status, spec) ==
  [status EXCEPT !.health = [r \in Role |-> RoleHealth(status.count[r], spec[r])]]

\* The instance is replaced as a whole, spec included, provided that the copy
\* it was read from has the server's version.
ReplaceBlindly(status) ==  \* MUTANT of ReplaceInstance: no resource version
  WriteCr(key, [crCache[key] EXCEPT !.status = status])

PatchStatus(status) ==  \* MUTANT of ReplaceInstance: patches the status alone
  cr[key].exists /\ WriteCr(key, [cr[key] EXCEPT !.status = status])

ReplaceInstance(status) ==
  /\ crFresh[key]
  /\ WriteCr(key, [crCache[key] EXCEPT !.status = status])

\* updateStatus returned without an error: the initialisation branch requeues,
\* a visit goes on to the replicas.
StatusDone ==
  \/ idx = 0 /\ ReturnAndRequeue
  \/ idx # 0 /\ pc' = "scale" /\ newStatus' = NoStatus
             /\ UNCHANGED <<key, idx, inst, copy, copyFresh, pending>>

\* updateStatus: a second read of the instance, then the write or a conflict.
UpdateStatus ==
  /\ pc = "updateStatus"
  /\ LET now    == crCache[key]
         status == WithHealth(newStatus, now.spec)
     IN  \/ /\ ~now.exists \/ now.status = status
            /\ StatusDone
            /\ UNCHANGED <<cr, crFresh>>
         \/ /\ now.exists /\ now.status # status
            /\ ReplaceInstance(status)
            /\ StatusDone
         \/ /\ now.exists /\ now.status # status /\ ~crFresh[key]
            /\ ReturnAndRequeue
            /\ UNCHANGED <<cr, crFresh>>
  /\ UNCHANGED <<obj, crCache, objCache, objFresh, quiet, asked>>

\* The replicas follow the instance read when the pass started.
ScaleUpOnly(role) ==  \* MUTANT of Scale: < where the code has #
  /\ pc = "scale" /\ Manifest[key][idx] = role
  /\ \/ /\ copy.replicas >= inst.spec[role]
        /\ NextChild
        /\ UNCHANGED <<obj, objFresh>>
     \/ /\ copy.replicas < inst.spec[role] /\ copyFresh
        /\ WriteObject(Visited, [copy EXCEPT !.replicas = inst.spec[role], !.gen = inst.gen])
        /\ NextChild
  /\ UNCHANGED <<cr, crCache, crFresh, objCache, quiet, asked>>

Scale(role) ==
  /\ pc = "scale" /\ Manifest[key][idx] = role
  /\ \/ /\ copy.replicas = inst.spec[role]
        /\ NextChild
        /\ UNCHANGED <<obj, objFresh>>
     \/ /\ copy.replicas # inst.spec[role] /\ copyFresh
        /\ WriteObject(Visited, [copy EXCEPT !.replicas = inst.spec[role], !.gen = inst.gen])
        /\ NextChild
     \/ /\ copy.replicas # inst.spec[role] /\ ~copyFresh
        /\ ReturnAndRequeue
        /\ UNCHANGED <<obj, objFresh>>
  /\ UNCHANGED <<cr, crCache, crFresh, objCache, quiet, asked>>

ReconcileDeployment  == ReconcileWorkload("te") \/ Scale("te")
ReconcileStatefulSet == ReconcileWorkload("sm") \/ Scale("sm")

\* A call fails without effect and its error ends the pass.
PassError ==
  /\ ~quiet /\ pc # "idle"
  /\ ReturnAndRequeue
  /\ UNCHANGED <<apiVars, cacheVars, quiet, asked>>

\* The operator's pod dies, or List fails and the worker panics.  The next one
\* lists everything again and gets an event for every custom resource.
Restart ==
  /\ ~quiet
  /\ Return
  /\ crCache' = cr /\ crFresh' = [c \in CR |-> TRUE]
  /\ objCache' = obj /\ objFresh' = [o \in Objects |-> TRUE]
  /\ pending' = {c \in CR : cr[c].exists}
  /\ UNCHANGED <<apiVars, quiet, asked>>

-----------------------------------------------------------------------------
Item == UNION {{Manifest[c][i] : i \in DOMAIN Manifest[c]} : c \in CR}

PassStep ==
  \/ FinishPass \/ UpdateStatus
  \/ \E item \in Item : ReconcilePlain(item)
  \/ ReconcileDeployment \/ UpdateTeReadyCount
  \/ ReconcileStatefulSet \/ UpdateSmReadyCount

Environment ==
  \/ \E c \in CR : CreateCr(c) \/ EditSpec(c) \/ DeleteCr(c)
  \/ \E o \in Objects : DeleteChild(o) \/ PodsChange(o)
  \/ Settle \/ PassError \/ Restart

Next ==
  \/ Environment
  \/ \E o \in Objects : GarbageCollect(o) \/ SyncObject(o)
  \/ \E c \in CR : SyncCr(c) \/ StartPass(c)
  \/ PassStep

Spec == Init /\ [][Next]_vars

\* Informers deliver, the garbage collector collects, a pass goes on, and the
\* queue is first in first out: no key in it is passed over for ever.
Fairness ==
  /\ WF_vars(PassStep)
  /\ \A c \in CR : WF_vars(SyncCr(c)) /\ SF_vars(StartPass(c))
  /\ \A o \in Objects : WF_vars(SyncObject(o)) /\ WF_vars(GarbageCollect(o))

FairSpec == Spec /\ Fairness
-----------------------------------------------------------------------------
TypeOK ==
  /\ cr \in [CR -> CrRecord] /\ crCache \in [CR -> CrRecord]
  /\ crFresh \in [CR -> BOOLEAN]
  /\ obj \in [Objects -> Object] /\ objCache \in [Objects -> Object]
  /\ objFresh \in [Objects -> BOOLEAN]
  /\ pending \subseteq CR
  /\ pc \in {"idle", "visit", "readyCount", "updateStatus", "scale"}
  /\ key \in CR /\ idx \in Nat
  /\ inst \in CrRecord /\ copy \in Object /\ copyFresh \in BOOLEAN
  /\ newStatus \in Status
  /\ quiet \in BOOLEAN
  /\ asked \in [CR -> Seq([Role -> Nat])]

\* No database is forgotten: if the cache shows it as it is, then a pass for it is
\* under way or due.  Only the events of the resource and the passes themselves
\* put its key into the queue, so a pass that ended in any way without doing so
\* would leave a lost pod or a deleted child unnoticed until the next edit.
NeverForgotten ==
  \A c \in CR : cr[c].exists => ~crFresh[c] \/ c \in pending \/ (key = c /\ pc # "idle")

\* Whenever updateStatus writes, the lights it writes are those of the counts it
\* writes against the spec that is on the server at that moment, not against an
\* older one of the cache or of the start of the pass.
LightsMatchSpecWhenWritten ==
  [][\A c \in CR : cr'[c].status # cr[c].status /\ cr'[c].status.init
                     => cr'[c].status = WithHealth(cr'[c].status, cr'[c].spec)]_cr

\* The status is initialised once: a pass that took the initialisation branch on
\* a stale copy never wipes reported counts.  Stated for the first resource of a
\* name (uid 1).  It fails for a later one: a pass that began before the deletion
\* reads the successor in updateStatus, writes its predecessor's counts into it,
\* and the successor's own first pass may then wipe them.
InitialisedOnce ==
  [][\A c \in CR : cr[c].status.init /\ cr[c].uid = 1 /\ cr'[c].uid = 1
                     => /\ cr'[c].status.init
                        /\ idx = 0 => cr'[c].status.count = cr[c].status.count]_cr

\* The spec belongs to the users and the replicas follow it.  updateStatus writes
\* whole instances that it read from a cache, and never takes a user's edit back
\* with them; every pass scales to a snapshot of the spec, and a workload always
\* carries the replicas of one request and never returns to an earlier one.
Workload == {o \in Objects : o[2] \in Role}

Requested == INSTANCE ReplicaRequests WITH
  Name     <- CR,
  Part     <- Role,
  spec     <- [c \in CR |-> cr[c].spec],
  applied  <- [w \in Workload |-> obj[w].gen],
  replicas <- [w \in Workload |-> obj[w].replicas]

FollowsRequests == Requested!Spec

Children(c) == {ObjectOf(c, Manifest[c][i]) : i \in DOMAIN Manifest[c]}

\* Every live database has all its children, none of them about to be collected,
\* at the replicas its spec asks for, and its status reports their ready pods.
Provisioned(c) ==
  /\ cr[c].status.init
  /\ \A o \in Children(c) :
       /\ obj[o].exists /\ OwnerLives(o)
       /\ o \in Workload => /\ obj[o].replicas = cr[c].spec[o[2]]
                            /\ cr[c].status.count[o[2]] = obj[o].ready

\* Once users, pods and failures rest, every live database ends up provisioned
\* and stays so: errors are retried, a child collected with a resource that
\* shared it is created again, and a ready count lost between the two reads of
\* updateTeReadyCount and updateStatus is reported by a later pass.
EventuallyProvisioned ==
  <>[](quiet => \A c \in CR : cr[c].exists => Provisioned(c))

\* What a deleted database leaves behind is collected, also the children that a
\* pass already under way creates after the deletion.
NoOrphans ==
  <>[](quiet => \A o \in Objects : obj[o].exists => OwnerLives(o))

\* "NuodbOperationalPhase is operating at the desired spec."  Once everything
\* rests, a database in that phase should have the pods its spec asks for.
OperationalAtDesiredSpec ==
  <>[](quiet => \A c \in CR :
                  cr[c].exists /\ cr[c].status.init /\ PhaseOf(cr[c].status.health) = "Operational"
                    => \A r \in Role : cr[c].status.count[r] >= cr[c].spec[r])
=============================================================================
