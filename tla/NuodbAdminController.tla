------------------------ MODULE NuodbAdminController ------------------------
(***************************************************************************)
(* The NuodbAdmin controller (pkg/controller/nuodbadmin) for the domain    *)
(* resource of one namespace.                                              *)
(*                                                                         *)
(* A pass works like one of the Nuodb controller: it reads the resource    *)
(* from the cache, visits the children of the chart in processOrder, and   *)
(* copies the ready count of the StatefulSet "admin" into the status.  It  *)
(* differs in what it may delete: the Pod and the Service of hosted        *)
(* Insights come and go with spec.insightsEnabled.  A delete names its     *)
(* object and carries no version, so it hits whatever the server has.      *)
(*                                                                         *)
(* asked and the gen fields are history, as in NuodbController.            *)
(***************************************************************************)
EXTENDS Naturals, Sequences, NuodbHealth

CONSTANTS
  Manifest,     \* the children a pass visits, in order
  Insights,     \* those rendered from a template named *-insights.yaml, not the ConfigMap
  Requests,     \* the specs a user may write
  MaxReady,     \* bound: ready pods of the StatefulSet
  MaxRequests   \* bound: writes of the spec

Item == {Manifest[i] : i \in DOMAIN Manifest}

\* The only workload, and the only bare Pod: the controller watches Pods it owns.
Workload == "admin"
InsightsPod == "nuodb-insights"

Wish == [admins: Nat, insights: BOOLEAN]

ASSUME AdminConstants ==
  /\ Manifest \in Seq(STRING) /\ Workload \in Item
  /\ Insights \subseteq Item \ {Workload}
  /\ Requests \subseteq Wish
  /\ MaxReady \in Nat
  /\ MaxRequests \in Nat

VARIABLES
  cr, crCache, crFresh,     \* the domain resource, the informer's copy, is it current
  obj, objCache, objFresh,  \* the same for its children
  pending,                  \* the key is in the work queue
  pc, idx,                  \* the step of the pass, the child being visited
  inst,                     \* the instance read at the start of the pass
  copy, copyFresh,          \* the StatefulSet read by this visit, is it current
  newStatus,                \* the status about to be passed to updateStatus
  quiet,                    \* users, pods and failures have come to rest for good
  asked                     \* the specs users wrote

cacheVars == <<crCache, crFresh, objCache, objFresh>>
passVars  == <<pc, idx, inst, copy, copyFresh, newStatus>>
vars      == <<cr, obj, cacheVars, passVars, pending, quiet, asked>>

-----------------------------------------------------------------------------
Status   == [init: BOOLEAN, count: Nat, health: Health]
CrRecord == [exists: BOOLEAN, uid: Nat, gen: Nat, spec: Wish, status: Status]
Object   == [exists: BOOLEAN, terminating: BOOLEAN, uid: Nat, replicas: Nat, ready: Nat, gen: Nat]

NoStatus      == [init |-> FALSE, count |-> 0, health |-> "Unknown"]
InitialStatus == [NoStatus EXCEPT !.init = TRUE]

NoWish    == [admins |-> 0, insights |-> FALSE]
NoCr(gen) == [exists |-> FALSE, uid |-> 0, gen |-> gen, spec |-> NoWish, status |-> NoStatus]
NoObject  == [exists |-> FALSE, terminating |-> FALSE, uid |-> 0, replicas |-> 0, ready |-> 0,
              gen |-> 0]

Init ==
  /\ cr = NoCr(0) /\ crCache = cr /\ crFresh = TRUE
  /\ obj = [o \in Item |-> NoObject] /\ objCache = obj /\ objFresh = [o \in Item |-> TRUE]
  /\ pending = FALSE
  /\ pc = "idle" /\ idx = 0 /\ inst = NoCr(0)
  /\ copy = NoObject /\ copyFresh = FALSE /\ newStatus = NoStatus
  /\ quiet = FALSE
  /\ asked = <<>>

-----------------------------------------------------------------------------
Visited == Manifest[idx]

Holding == pc \in {"readyCount", "updateStatus", "scale"} /\ idx # 0

WriteCr(record) == cr' = record /\ crFresh' = FALSE

WriteObject(o, record) ==
  /\ obj' = [obj EXCEPT ![o] = record]
  /\ objFresh' = [objFresh EXCEPT ![o] = FALSE]

\* Another party writes o while the pass may hold a copy of the StatefulSet.
OthersWrite(o, record) ==
  /\ WriteObject(o, record)
  /\ copyFresh' = (copyFresh /\ ~(Holding /\ o = Workload))
  /\ UNCHANGED <<cr, crCache, crFresh, objCache, pc, idx, inst, copy, newStatus,
                 pending, quiet, asked>>

-----------------------------------------------------------------------------
(***************************************************************************)
(* Users, pods, the kubelet and the garbage collector.                     *)
(***************************************************************************)
Ask(record, wish) ==
  /\ ~quiet /\ Len(asked) < MaxRequests
  /\ asked' = Append(asked, wish)
  /\ WriteCr([record EXCEPT !.gen = Len(asked) + 1, !.spec = wish])
  /\ UNCHANGED <<obj, crCache, objCache, objFresh, passVars, pending, quiet>>

CreateCr == /\ ~cr.exists
            /\ \E wish \in Requests : Ask([cr EXCEPT !.exists = TRUE, !.uid = Len(asked) + 1], wish)

EditSpec == cr.exists /\ \E wish \in Requests \ {cr.spec} : Ask(cr, wish)

DeleteCr ==
  /\ ~quiet /\ cr.exists
  /\ WriteCr(NoCr(cr.gen))
  /\ UNCHANGED <<obj, crCache, objCache, objFresh, passVars, pending, quiet, asked>>

\* What a delete leaves: a Pod stays until its containers have stopped.
Deleted(o) == IF o = InsightsPod THEN [obj[o] EXCEPT !.terminating = TRUE] ELSE NoObject

DeleteChild(o) == ~quiet /\ obj[o].exists /\ OthersWrite(o, Deleted(o))

OwnerLives(o) == cr.exists /\ cr.uid = obj[o].uid

GarbageCollect(o) ==
  obj[o].exists /\ ~obj[o].terminating /\ ~OwnerLives(o) /\ OthersWrite(o, Deleted(o))

\* The containers have stopped.
Terminate(o) == obj[o].terminating /\ OthersWrite(o, NoObject)

PodsChange ==
  /\ ~quiet /\ Workload \in Item /\ obj[Workload].exists
  /\ \E n \in 0..MaxReady :
       /\ n # obj[Workload].ready
       /\ n <= obj[Workload].replicas \/ n < obj[Workload].ready
       /\ OthersWrite(Workload, [obj[Workload] EXCEPT !.ready = n])

Settle == ~quiet /\ quiet' = TRUE /\ UNCHANGED <<cr, obj, cacheVars, passVars, pending, asked>>

-----------------------------------------------------------------------------
(***************************************************************************)
(* Informers.  Events of the resource, and of Pods it owns, enqueue it.    *)
(***************************************************************************)
SyncCr ==
  /\ ~crFresh
  /\ crCache' = cr /\ crFresh' = TRUE
  /\ pending' = TRUE
  /\ UNCHANGED <<cr, obj, objCache, objFresh, passVars, quiet, asked>>

SyncObject(o) ==
  /\ ~objFresh[o]
  /\ objCache' = [objCache EXCEPT ![o] = obj[o]]
  /\ objFresh' = [objFresh EXCEPT ![o] = TRUE]
  /\ pending' = (pending \/ o = InsightsPod)
  /\ UNCHANGED <<cr, obj, crCache, crFresh, passVars, quiet, asked>>

-----------------------------------------------------------------------------
(***************************************************************************)
(* The worker.                                                             *)
(***************************************************************************)
Return ==
  /\ pc' = "idle" /\ idx' = 0 /\ inst' = NoCr(0)
  /\ copy' = NoObject /\ copyFresh' = FALSE /\ newStatus' = NoStatus

ReturnAndRequeue == Return /\ pending' = TRUE

NextChild ==
  /\ pc' = "visit" /\ idx' = idx + 1
  /\ copy' = NoObject /\ copyFresh' = FALSE /\ newStatus' = NoStatus
  /\ UNCHANGED <<inst, pending>>

\* The head of reconcileNuodbAdminInternal.
StartPass ==
  /\ pc = "idle" /\ pending
  /\ pending' = FALSE
  /\ \/ /\ ~crCache.exists
        /\ UNCHANGED <<pc, idx, inst, newStatus>>
     \/ /\ crCache.exists /\ ~crCache.status.init
        /\ pc' = "updateStatus" /\ newStatus' = InitialStatus
        /\ UNCHANGED <<idx, inst>>
     \/ /\ crCache.exists /\ crCache.status.init
        /\ pc' = "visit" /\ idx' = 1 /\ inst' = crCache
        /\ UNCHANGED newStatus
  /\ UNCHANGED <<cr, obj, cacheVars, copy, copyFresh, quiet, asked>>

FinishForGood ==  \* MUTANT of FinishPass: a clean pass does not requeue
  /\ pc = "visit" /\ idx > Len(Manifest)
  /\ Return
  /\ UNCHANGED <<cr, obj, cacheVars, pending, quiet, asked>>

FinishPass ==
  /\ pc = "visit" /\ idx > Len(Manifest)
  /\ ReturnAndRequeue
  /\ UNCHANGED <<cr, obj, cacheVars, quiet, asked>>

Visiting(item) == pc = "visit" /\ idx \in DOMAIN Manifest /\ Manifest[idx] = item

\* What the templates and SetControllerReference make of the instance.
NewObject(item) == [NoObject EXCEPT !.exists = TRUE, !.uid = inst.uid, !.gen = inst.gen,
                      !.replicas = IF item = Workload THEN inst.spec.admins ELSE 0]

\* The cache has no such child: create it, or meet the one the cache did not show.
CreateMissing(item) ==
  /\ ~objCache[item].exists
  /\ \/ /\ ~obj[item].exists
        /\ WriteObject(item, NewObject(item))
        /\ NextChild
     \/ /\ obj[item].exists
        /\ ReturnAndRequeue
        /\ UNCHANGED <<obj, objFresh>>
  /\ UNCHANGED <<cr, crCache, crFresh, objCache, quiet, asked>>

Skip == NextChild /\ UNCHANGED <<cr, obj, cacheVars, quiet, asked>>

\* ConfigMap, and a Service that is not the one of Insights: created when missing.
ReconcilePlain(item) ==
  /\ Visiting(item) /\ item \notin Insights \cup {Workload}
  /\ CreateMissing(item) \/ (objCache[item].exists /\ Skip)

\* isInsightsResource && !instance.Spec.InsightsEnabled
DisabledInverted(item) ==  \* MUTANT of Disabled: reads the switch the wrong way round
  item \in Insights /\ inst.spec.insights

Disabled(item) == item \in Insights /\ ~inst.spec.insights

\* Delete by name.  A server without such an object answers NotFound, an error.
DeleteDisabled(item) ==
  /\ objCache[item].exists /\ Disabled(item)
  /\ \/ /\ obj[item].exists
        /\ WriteObject(item, Deleted(item))
        /\ NextChild
     \/ /\ ~obj[item].exists
        /\ ReturnAndRequeue
        /\ UNCHANGED <<obj, objFresh>>
  /\ UNCHANGED <<cr, crCache, crFresh, objCache, quiet, asked>>

ReconcileInsights(item) ==
  /\ Visiting(item) /\ item \in Insights
  /\ \/ ~Disabled(item) /\ CreateMissing(item)
     \/ DeleteDisabled(item)
     \/ objCache[item].exists # Disabled(item) /\ Skip

\* The StatefulSet, first step: get or create.
ReconcileStatefulSet ==
  /\ Visiting(Workload)
  /\ \/ CreateMissing(Workload)
     \/ /\ objCache[Workload].exists
        /\ pc' = "readyCount" /\ copy' = objCache[Workload] /\ copyFresh' = objFresh[Workload]
        /\ UNCHANGED <<cr, obj, cacheVars, idx, inst, newStatus, pending, quiet, asked>>

UpdateAdminReadyCount ==
  /\ pc = "readyCount"
  /\ \/ /\ ~crCache.exists \/ crCache.status.count = copy.ready
        /\ pc' = "scale" /\ UNCHANGED newStatus
     \/ /\ crCache.exists /\ crCache.status.count # copy.ready
        /\ pc' = "updateStatus" /\ newStatus' = [crCache.status EXCEPT !.count = copy.ready]
  /\ UNCHANGED <<cr, obj, cacheVars, idx, inst, copy, copyFresh, pending, quiet, asked>>

WithHealthOfPass(status, spec) ==  \* MUTANT of WithHealth: the spec the pass began with
  [status EXCEPT !.health = RoleHealth(status.count, inst.spec.admins)]

WithHealth(status, spec) == [status EXCEPT !.health = RoleHealth(status.count, spec.admins)]

StatusDoneFallsThrough ==  \* MUTANT of StatusDone: no return after the initialisation
  /\ pc' = "scale" /\ newStatus' = NoStatus
  /\ UNCHANGED <<idx, inst, copy, copyFresh, pending>>

StatusDone ==
  \/ idx = 0 /\ ReturnAndRequeue
  \/ idx # 0 /\ pc' = "scale" /\ newStatus' = NoStatus
             /\ UNCHANGED <<idx, inst, copy, copyFresh, pending>>

UpdateUnversioned ==  \* MUTANT of UpdateStatus: the write cannot conflict
  /\ pc = "updateStatus"
  /\ LET status == WithHealth(newStatus, crCache.spec)
     IN  IF crCache.exists /\ crCache.status # status
           THEN WriteCr([crCache EXCEPT !.status = status])
           ELSE UNCHANGED <<cr, crFresh>>
  /\ StatusDone
  /\ UNCHANGED <<obj, crCache, objCache, objFresh, quiet, asked>>

UpdateStatus ==
  /\ pc = "updateStatus"
  /\ LET status == WithHealth(newStatus, crCache.spec)
         same   == ~crCache.exists \/ crCache.status = status
     IN  \/ same /\ StatusDone /\ UNCHANGED <<cr, crFresh>>
         \/ ~same /\ crFresh /\ WriteCr([crCache EXCEPT !.status = status]) /\ StatusDone
         \/ ~same /\ ~crFresh /\ ReturnAndRequeue /\ UNCHANGED <<cr, crFresh>>
  /\ UNCHANGED <<obj, crCache, objCache, objFresh, quiet, asked>>

Scale ==
  /\ pc = "scale"
  /\ LET done == copy.replicas = inst.spec.admins
     IN  \/ done /\ NextChild /\ UNCHANGED <<obj, objFresh>>
         \/ /\ ~done /\ copyFresh
            /\ WriteObject(Workload, [copy EXCEPT !.replicas = inst.spec.admins, !.gen = inst.gen])
            /\ NextChild
         \/ ~done /\ ~copyFresh /\ ReturnAndRequeue /\ UNCHANGED <<obj, objFresh>>
  /\ UNCHANGED <<cr, crCache, crFresh, objCache, quiet, asked>>

PassError ==
  /\ ~quiet /\ pc # "idle"
  /\ ReturnAndRequeue
  /\ UNCHANGED <<cr, obj, cacheVars, quiet, asked>>

Restart ==
  /\ ~quiet
  /\ Return
  /\ crCache' = cr /\ crFresh' = TRUE
  /\ objCache' = obj /\ objFresh' = [o \in Item |-> TRUE]
  /\ pending' = cr.exists
  /\ UNCHANGED <<cr, obj, quiet, asked>>

-----------------------------------------------------------------------------
PassStep ==
  \/ FinishPass \/ UpdateAdminReadyCount \/ UpdateStatus \/ Scale
  \/ \E item \in Item : ReconcilePlain(item) \/ ReconcileInsights(item)
  \/ ReconcileStatefulSet

Next ==
  \/ CreateCr \/ EditSpec \/ DeleteCr \/ PodsChange \/ Settle \/ PassError \/ Restart
  \/ \E o \in Item : DeleteChild(o) \/ GarbageCollect(o) \/ Terminate(o) \/ SyncObject(o)
  \/ SyncCr \/ StartPass
  \/ PassStep

Spec == Init /\ [][Next]_vars

Fairness ==
  /\ WF_vars(PassStep) /\ WF_vars(SyncCr) /\ WF_vars(StartPass)
  /\ \A o \in Item : WF_vars(SyncObject(o)) /\ WF_vars(GarbageCollect(o)) /\ WF_vars(Terminate(o))

FairSpec == Spec /\ Fairness
-----------------------------------------------------------------------------
\* Each variable has its type, and a pass that visits children holds an instance.
TypeOK ==
  /\ cr \in CrRecord /\ crCache \in CrRecord /\ crFresh \in BOOLEAN
  /\ obj \in [Item -> Object] /\ objCache \in [Item -> Object]
  /\ objFresh \in [Item -> BOOLEAN]
  /\ pending \in BOOLEAN
  /\ pc \in {"idle", "visit", "readyCount", "updateStatus", "scale"}
  /\ idx \in 0 .. Len(Manifest) + 1 /\ inst \in CrRecord /\ (idx # 0 => inst.exists)
  /\ copy \in Object /\ copyFresh \in BOOLEAN /\ newStatus \in Status
  /\ quiet \in BOOLEAN /\ asked \in Seq(Wish)

\* The domain is not forgotten: if the cache shows it as it is, then a pass is
\* under way or due.  Of its children only the Pods have events that enqueue it,
\* so all that happens to the others is found by the passes that requeue.
NeverForgotten == cr.exists => ~crFresh \/ pending \/ pc # "idle"

\* adminCount is the users' and the StatefulSet follows it forwards only: neither
\* the whole-instance writes of updateStatus nor a pass on an old instance take a
\* request back.
Requested == INSTANCE ReplicaRequests WITH
  Name     <- {"domain"},
  Part     <- {"admin"},
  Workload <- {<<"domain", "admin">>},
  asked    <- [n \in {"domain"} |-> [i \in DOMAIN asked |-> [p \in {"admin"} |-> asked[i].admins]]],
  spec     <- [n \in {"domain"} |-> [p \in {"admin"} |-> cr.spec.admins]],
  applied  <- [w \in {<<"domain", "admin">>} |-> obj[Workload].gen],
  replicas <- [w \in {<<"domain", "admin">>} |-> obj[Workload].replicas]

FollowsRequests == Requested!Spec

\* The lights and the count that a write of the status brings are those of the
\* adminCount that is on the server at that moment, although updateAdminReadyCount
\* and updateStatus each read the resource again while users edit it.
LightsMatchSpecWhenWritten ==
  [][cr'.status # cr.status /\ cr'.status.init
       => cr'.status.health = RoleHealth(cr'.status.count, cr'.spec.admins)]_cr

\* A pass deletes a child only if a user switched Insights off after the request
\* that the child on the server was created for, however old the copies are that
\* the pass decided on and whatever incarnation the delete hits.
DeletesOnlyDisabled ==
  [][\A o \in Item :
       \/ idx' = idx \/ ~obj[o].exists \/ obj[o].terminating
       \/ obj'[o].exists /\ ~obj'[o].terminating
       \/ \E i \in obj[o].gen + 1 .. Len(asked) : ~asked[i].insights]_<<obj, idx>>

\* Once everything rests, a live domain has its children, those of Insights exactly
\* if they are enabled, and its status reports the ready pods of the StatefulSet.
EventuallySettled ==
  <>[](quiet /\ cr.exists =>
                /\ cr.status.init
                /\ \A o \in Item :
                     /\ obj[o].exists = (o \in Insights => cr.spec.insights)
                     /\ obj[o].exists => OwnerLives(o) /\ ~obj[o].terminating
                /\ Workload \in Item => /\ obj[Workload].replicas = cr.spec.admins
                                        /\ cr.status.count = obj[Workload].ready)
=============================================================================
