------------------------ MODULE NuodbInsightsServer ------------------------
(***************************************************************************)
(* The NuodbInsightsServer controller (pkg/controller/                     *)
(* nuodbinsightsserver) and its resources, called servers here.            *)
(*                                                                         *)
(* The children have fixed names: the servers of a namespace share them,   *)
(* and all servers share the Elastic operator.  One worker handles them    *)
(* all.  The manager's cache may be that of one namespace, as in           *)
(* deploy/operator.yaml: objects outside it are never found there.         *)
(*                                                                         *)
(* A pass installs a pipeline of components, each after the one it needs,  *)
(* or, when the resource is being deleted, takes them down and removes its *)
(* finalizer.  A pass without an error is not requeued: the next one comes *)
(* with an event of the resource or with the informer's resync.            *)
(*                                                                         *)
(* The children differ in how they are read and written:                   *)
(*   Managed    read from the cache, then created with an owner, or        *)
(*              overwritten by the object of the YAML file, which has none *)
(*   External   resources of the Elastic and Grafana operators, read live  *)
(*   template   what the pass stores in Elasticsearch over HTTP            *)
(*   logstash   read from the cache, created when missing                  *)
(*   Definitions   the custom resource definitions of the External ones,   *)
(*              read live, created without an owner and never removed.     *)
(* A pass works with the kinds that were defined when it began, and so     *)
(* cannot create what is of a kind that it has just defined itself.        *)
(* A size stands for the node count and the version of a cluster.          *)
(* Versions of objects are Booleans, as in NuodbController.                *)
(***************************************************************************)
EXTENDS Naturals, Sequences

CONSTANTS
  Server,       \* the names of the resources
  Home,         \* the namespace of each
  Seen,         \* the namespaces of the manager's cache (WATCH_NAMESPACE)
  Pipeline,     \* the steps of an installing pass, in order
  Teardown,     \* the children deleteExternalResources visits, in order
  Fragile,      \* bound: the children users delete, and those that fail
  Impatient,    \* bound: the servers whose deletion users force
  Sizes,        \* the sizes users ask for
  MaxRequests   \* bound: writes of the spec

\* "marker" is the live look for the Elastic operator, "instance" the second
\* read of the resource; every other step is named after the child it visits.
Managed  == {"eckRole", "eck", "role", "operator"}
External == {"es", "kibana", "datasource", "dashboard", "grafana"}
Sized    == {"es", "kibana"}

Definitions == {"eckCrd", "grafanaCrd"}

Child == {Pipeline[i] : i \in DOMAIN Pipeline} \ {"marker", "instance"}

\* Read through the manager's client at some step, hence cached by it.
Cached == Child \cap (Managed \cup Sized \cup {"logstash", "grafana"})

\* The operators of these have finalizers on them; teardown waits for the end.
Awaited == {"es", "dashboard"}

\* Of all servers: the Elastic operator has a namespace of its own, and what is
\* of the whole cluster is put there, too.
Common == Definitions \cup {"eckRole", "eck"}

Place(s, c) == <<IF c \in Common THEN "elastic-system" ELSE Home[s], c>>

Objects == {Place(s, c) : s \in Server, c \in Child}
Watched == {o \in Objects : o[1] \in Seen /\ o[2] \in Cached}

\* The teardown visits whatever the pipeline installs of these.
ASSUME InsightsConstants ==
  /\ Server \subseteq STRING \ {""} /\ Home \in [Server -> Seen] /\ Seen \subseteq STRING
  /\ Pipeline \in Seq(STRING) /\ Teardown \in Seq(Child)
  /\ Child \cap (Awaited \cup {"operator"}) \subseteq {Teardown[i] : i \in DOMAIN Teardown}
  /\ Fragile \subseteq Child \ Definitions /\ Impatient \subseteq Server
  /\ Sizes \subseteq Nat /\ MaxRequests \in Nat

VARIABLES
  cr, crCache, crFresh,     \* the resource, the informer's copy, is it current
  obj, objCache, objFresh,  \* the same for the children
  pending,                  \* the servers in the work queue
  key,                      \* the server of the pass, "" between two passes
  pc, idx,                  \* what the pass does, the step it is at
  inst, instFresh,          \* the instance the pass holds, is it current
  mapped,                   \* the definitions that were there when the pass began
  quiet,                    \* users and failures have come to rest for good
  requests                  \* number of writes of the spec

cacheVars == <<crCache, crFresh, objCache, objFresh>>
passVars  == <<key, pc, idx, inst, instFresh, mapped>>
vars      == <<cr, obj, cacheVars, passVars, pending, quiet, requests>>

-----------------------------------------------------------------------------
CrRecord     == [exists: BOOLEAN, deleting: BOOLEAN, finalizer: BOOLEAN, uid: Nat, size: Nat]
ObjectRecord == [exists: BOOLEAN, terminating: BOOLEAN, owner: Nat, size: Nat, ready: BOOLEAN]

NoCr     == [exists |-> FALSE, deleting |-> FALSE, finalizer |-> FALSE, uid |-> 0, size |-> 0]
NoObject == [exists |-> FALSE, terminating |-> FALSE, owner |-> 0, size |-> 0, ready |-> FALSE]

Init ==
  /\ cr = [s \in Server |-> NoCr] /\ crCache = cr /\ crFresh = [s \in Server |-> TRUE]
  /\ obj = [o \in Objects |-> NoObject] /\ objCache = [o \in Watched |-> NoObject]
  /\ objFresh = [o \in Watched |-> TRUE]
  /\ pending = {} /\ key = ""
  /\ pc = "idle" /\ idx = 0 /\ inst = NoCr /\ instFresh = FALSE /\ mapped = {}
  /\ quiet = FALSE /\ requests = 0

-----------------------------------------------------------------------------
\* The child of the server of the pass, as it is on the API server and in the cache.
Here(c) == Place(key, c)
Live(c) == obj[Here(c)]
Read(c) == IF Here(c) \in Watched THEN objCache[Here(c)] ELSE NoObject

WriteCr(s, record) ==
  /\ cr' = [cr EXCEPT ![s] = record]
  /\ crFresh' = [crFresh EXCEPT ![s] = FALSE]

WriteObject(o, record) ==
  /\ obj' = [obj EXCEPT ![o] = record]
  /\ objFresh' = [c \in Watched |-> objFresh[c] /\ c # o]

\* What is stored in Elasticsearch goes with it.
RemoveObject(o) ==
  /\ obj' = [c \in Objects |->
               IF c = o \/ (o[2] = "es" /\ c = <<o[1], "template">>) THEN NoObject ELSE obj[c]]
  /\ objFresh' = [c \in Watched |-> objFresh[c] /\ c # o]

\* A delete on the API server.
DeleteObject(o) == IF o[2] \in Awaited THEN WriteObject(o, [obj[o] EXCEPT !.terminating = TRUE])
                                       ELSE RemoveObject(o)

Rest == <<cr, crCache, crFresh, objCache, passVars, pending, quiet, requests>>

-----------------------------------------------------------------------------
(***************************************************************************)
(* Users, the other operators, the garbage collector.                      *)
(***************************************************************************)
UserWrites(s, record) ==
  /\ ~quiet
  /\ WriteCr(s, record) /\ instFresh' = (instFresh /\ key # s)
  /\ UNCHANGED <<obj, crCache, objCache, objFresh, key, pc, idx, inst, mapped, pending, quiet>>

CreateCr(s) ==
  /\ ~cr[s].exists /\ requests < MaxRequests
  /\ requests' = requests + 1
  /\ \E n \in Sizes :
       UserWrites(s, [NoCr EXCEPT !.exists = TRUE, !.uid = requests + 1, !.size = n])

EditSpec(s) ==
  /\ cr[s].exists /\ requests < MaxRequests
  /\ requests' = requests + 1
  /\ \E n \in Sizes \ {cr[s].size} : UserWrites(s, [cr[s] EXCEPT !.size = n])

\* The resource stays until its finalizer is gone.
DeleteCr(s) ==
  /\ cr[s].exists /\ ~cr[s].deleting
  /\ UserWrites(s, IF cr[s].finalizer THEN [cr[s] EXCEPT !.deleting = TRUE] ELSE NoCr)
  /\ UNCHANGED requests

\* A user who does not want to wait removes the finalizer.
ForceDelete(s) == s \in Impatient /\ cr[s].deleting /\ UserWrites(s, NoCr) /\ UNCHANGED requests

DeleteChild(o) == ~quiet /\ obj[o].exists /\ ~obj[o].terminating /\ DeleteObject(o) /\ UNCHANGED Rest

OwnerLives(o) == \E s \in Server : cr[s].exists /\ cr[s].uid = obj[o].owner

\* The Elastic operator lives in a namespace of its own, where its owner cannot
\* be found: it may be collected at any time.
GarbageCollect(o) ==
  /\ obj[o].exists /\ ~obj[o].terminating /\ obj[o].owner # 0
  /\ ~OwnerLives(o) \/ (o[2] = "eck" /\ ~quiet)
  /\ DeleteObject(o) /\ UNCHANGED Rest

\* The operator that looks after o is there, as far as the pipeline installs it.
Served(o) ==
  /\ o[2] = "es" /\ "eck" \in Child => obj[<<"elastic-system", "eck">>].exists
  /\ o[2] = "dashboard" => obj[<<o[1], "operator">>].ready

\* It has cleaned up after o.
Release(o) == obj[o].terminating /\ Served(o) /\ RemoveObject(o) /\ UNCHANGED Rest

ComesUp(o) ==
  /\ obj[o].exists /\ ~obj[o].terminating /\ ~obj[o].ready /\ Served(o)
  /\ WriteObject(o, [obj[o] EXCEPT !.ready = TRUE]) /\ UNCHANGED Rest

GoesDown(o) ==
  /\ ~quiet /\ obj[o].ready
  /\ WriteObject(o, [obj[o] EXCEPT !.ready = FALSE]) /\ UNCHANGED Rest

Settle == ~quiet /\ quiet' = TRUE /\ UNCHANGED <<cr, obj, cacheVars, passVars, pending, requests>>

-----------------------------------------------------------------------------
(***************************************************************************)
(* Informers.  An event of the resource enqueues it, and so does a resync. *)
(***************************************************************************)
SyncCr(s) ==
  /\ ~crFresh[s]
  /\ crCache' = [crCache EXCEPT ![s] = cr[s]] /\ crFresh' = [crFresh EXCEPT ![s] = TRUE]
  /\ pending' = pending \cup {s}
  /\ UNCHANGED <<cr, obj, objCache, objFresh, passVars, quiet, requests>>

SyncObject(o) ==
  /\ ~objFresh[o]
  /\ objCache' = [objCache EXCEPT ![o] = obj[o]]
  /\ objFresh' = [objFresh EXCEPT ![o] = TRUE]
  /\ UNCHANGED <<cr, obj, crCache, crFresh, passVars, pending, quiet, requests>>

\* (A resync during a pass only brings forward the one after it.)
Resync ==
  /\ pc = "idle"
  /\ pending' = pending \cup {s \in Server : crCache[s].exists} /\ pending' # pending
  /\ UNCHANGED <<cr, obj, cacheVars, passVars, quiet, requests>>

-----------------------------------------------------------------------------
(***************************************************************************)
(* The worker: the head of a pass, its steps, its ends.                    *)
(***************************************************************************)
Return ==
  key' = "" /\ pc' = "idle" /\ idx' = 0 /\ inst' = NoCr /\ instFresh' = FALSE /\ mapped' = {}

Succeed == Return /\ UNCHANGED pending

FailForGood ==  \* MUTANT of Fail: an error is not retried
  Return /\ UNCHANGED pending

Fail == Return /\ pending' = pending \cup {key}

\* What the cache has of the resource of the pass.
GetInstance == crCache[key]

GoTo(step, i) == pc' = step /\ idx' = i /\ UNCHANGED <<key, inst, instFresh, mapped, pending>>
NextStep      == GoTo("install", idx + 1)

NoWrites == UNCHANGED <<cr, obj, cacheVars, quiet, requests>>
Apart    == UNCHANGED <<cr, crCache, crFresh, objCache, quiet, requests>>

\* GetNewRestMapper asks for the kinds once.  (What the pipeline does not install
\* was there before.)
Begin(s, step) ==
  /\ key' = s /\ pc' = step /\ idx' = 1
  /\ inst' = crCache[s] /\ instFresh' = crFresh[s]
  /\ mapped' = {d \in Definitions : d \in Child => obj[Place(s, d)].exists}

\* The pass can look for o, and create it (GetGVKInstance).
Maps(o) == (IF o \in Sized THEN "eckCrd" ELSE "grafanaCrd") \in mapped

StartPassOnce(s) ==  \* MUTANT of StartPass: a server with the finalizer counts as installed
  /\ pc = "idle" /\ s \in pending
  /\ pending' = pending \ {s}
  /\ \/ ~crCache[s].exists /\ UNCHANGED passVars
     \/ crCache[s].exists /\ crCache[s].deleting /\ Begin(s, "drop")
     \/ /\ crCache[s].exists /\ ~crCache[s].deleting
        /\ IF crCache[s].finalizer THEN UNCHANGED passVars ELSE Begin(s, "addFinalizer")
  /\ NoWrites

StartPass(s) ==
  /\ pc = "idle" /\ s \in pending
  /\ pending' = pending \ {s}
  /\ \/ ~crCache[s].exists /\ UNCHANGED passVars
     \/ crCache[s].exists /\ crCache[s].deleting /\ Begin(s, "drop")
     \/ /\ crCache[s].exists /\ ~crCache[s].deleting
        /\ Begin(s, IF crCache[s].finalizer THEN "install" ELSE "addFinalizer")
  /\ NoWrites

\* Update of the whole instance; with an old version it conflicts.
AddFinalizerBlindly ==  \* MUTANT of AddFinalizer: the write carries no version
  /\ pc = "addFinalizer" /\ cr[key].exists
  /\ WriteCr(key, [inst EXCEPT !.finalizer = TRUE]) /\ GoTo("install", 1)
  /\ UNCHANGED <<obj, crCache, objCache, objFresh, quiet, requests>>

AddFinalizer ==
  /\ pc = "addFinalizer"
  /\ \/ instFresh /\ WriteCr(key, [inst EXCEPT !.finalizer = TRUE]) /\ GoTo("install", 1)
     \/ ~instFresh /\ Fail /\ UNCHANGED <<cr, crFresh>>
  /\ UNCHANGED <<obj, crCache, objCache, objFresh, quiet, requests>>

FinishPass == pc = "install" /\ idx > Len(Pipeline) /\ Succeed /\ NoWrites

Visiting(step) == pc = "install" /\ idx \in DOMAIN Pipeline /\ Pipeline[idx] = step

\* reconcileECKAllInOne: with the StatefulSet there, or unless the error says
\* NotFound, the other objects of the file (the three next steps) are skipped.
FindMarkerAlways ==  \* MUTANT of FindMarker: NotFound counts as found, too
  /\ Visiting("marker")
  /\ GoTo("install", idx + 4)
  /\ NoWrites

FindMarker ==
  /\ Visiting("marker")
  /\ \/ (Live("eck").exists \/ ~quiet) /\ GoTo("install", idx + 4)
     \/ ~Live("eck").exists /\ NextStep
  /\ NoWrites

\* reconcileLogstashCluster and reconcileGrafanaCluster read the resource again.
RereadNothing ==  \* MUTANT of RereadInstance: NotFound is not looked at
  /\ Visiting("instance")
  /\ pc' = "install" /\ idx' = idx + 1 /\ inst' = GetInstance /\ instFresh' = crFresh[key]
  /\ UNCHANGED <<key, mapped, pending>>
  /\ NoWrites

RereadInstance ==
  /\ Visiting("instance")
  /\ \/ ~GetInstance.exists /\ Succeed
     \/ /\ GetInstance.exists
        /\ pc' = "install" /\ idx' = idx + 1 /\ inst' = GetInstance /\ instFresh' = crFresh[key]
        /\ UNCHANGED <<key, mapped, pending>>
  /\ NoWrites

\* reconcileCustomResourceDefinition: created when missing, for good.
RegisterKinds(d) ==
  /\ Visiting(d) /\ d \in Definitions
  /\ IF Live(d).exists THEN UNCHANGED <<obj, objFresh>>
                       ELSE WriteObject(Here(d), [NoObject EXCEPT !.exists = TRUE])
  /\ NextStep /\ Apart

\* Owned by the instance that the pass holds (SetControllerReference).
NewManaged == [NoObject EXCEPT !.exists = TRUE, !.owner = inst.uid]

\* reconcileRuntimeObject: create, or overwrite whatever the server has.
ApplyManaged(o) ==
  /\ Visiting(o) /\ o \in Managed
  /\ \/ /\ Read(o).exists = Live(o).exists
        /\ WriteObject(Here(o), IF Live(o).exists THEN [Live(o) EXCEPT !.owner = 0]
                                                  ELSE NewManaged)
        /\ IF o = "operator" THEN GoTo("awaitOperator", idx) ELSE NextStep
     \/ /\ Read(o).exists # Live(o).exists  \* AlreadyExists or NotFound
        /\ Fail /\ UNCHANGED <<obj, objFresh>>
  /\ Apart

\* Five reads at most; without a ready operator the pass is requeued.
AwaitOperator ==
  /\ pc = "awaitOperator"
  /\ IF Read("operator").ready THEN NextStep ELSE Fail
  /\ NoWrites

\* getOwnerReference: whoever the cache shows now.
OwnerReferenceEmpty == 0  \* MUTANT of OwnerReference: the reference is not filled in

OwnerReference == GetInstance.uid

\* The size is the one of the YAML file.
NewExternal == [NoObject EXCEPT !.exists = TRUE, !.owner = OwnerReference, !.size = 1]

CreateExternal(o) ==
  /\ ~Live(o).exists
  /\ \/ /\ GetInstance.exists
        /\ WriteObject(Here(o), NewExternal)
        /\ IF o = "es" THEN GoTo("awaitEs", idx) ELSE NextStep
     \/ ~GetInstance.exists /\ Fail /\ UNCHANGED <<obj, objFresh>>
  /\ Apart

\* Twenty rounds at most, each of which needs the cluster in the cache.
AwaitEs ==
  /\ pc = "awaitEs"
  /\ IF Read("es").ready THEN NextStep ELSE Fail
  /\ NoWrites

Resize(o) ==
  /\ Read(o).exists
  /\ \/ Read(o).size = inst.size /\ NextStep /\ UNCHANGED <<obj, objFresh>>
     \/ /\ Read(o).size # inst.size /\ objFresh[Here(o)]
        /\ WriteObject(Here(o), [Read(o) EXCEPT !.size = inst.size]) /\ NextStep
     \/ Read(o).size # inst.size /\ ~objFresh[Here(o)] /\ Fail /\ UNCHANGED <<obj, objFresh>>

\* Nothing to do for one of Grafana's.
KeepGrafana(o) ==
  /\ o \in Cached => Read(o).exists
  /\ NextStep /\ UNCHANGED <<obj, objFresh>>

\* An external resource that is there already: found live, then read cached.
KeepExternal(o) ==
  /\ Live(o).exists
  /\ \/ o \in Sized /\ Resize(o)
     \/ o \notin Sized /\ KeepGrafana(o)
     \/ o \in Cached /\ ~Read(o).exists /\ Fail /\ UNCHANGED <<obj, objFresh>>
  /\ Apart

ReconcileExternal(o) ==
  /\ Visiting(o) /\ o \in External
  /\ \/ Maps(o) /\ (CreateExternal(o) \/ KeepExternal(o))
     \/ ~Maps(o) /\ Fail /\ NoWrites

\* There are a host, a password and certificates to connect with, and an answer.
Answers == Live("es").ready

\* reconcileESTemplates, reconcileESPipelines: over HTTP.
LoadTemplates ==
  /\ Visiting("template")
  /\ \/ /\ Answers
        /\ WriteObject(Here("template"), [NoObject EXCEPT !.exists = TRUE]) /\ NextStep
     \/ ~Answers /\ Fail /\ UNCHANGED <<obj, objFresh>>
  /\ Apart

\* processLogstashTemplates puts the address of Elasticsearch into the chart: of
\* the one in the namespace "nuodb", wherever the server is.
Renders == <<"nuodb", "es">> \in Objects /\ obj[<<"nuodb", "es">>].exists

NewLogstashUnowned ==  \* MUTANT of NewLogstash: no SetControllerReference
  [NoObject EXCEPT !.exists = TRUE]

NewLogstash == [NoObject EXCEPT !.exists = TRUE, !.owner = GetInstance.uid]

ReconcileLogstash ==
  /\ Visiting("logstash")
  /\ \/ /\ GetInstance.exists => Renders /\ Read("logstash").exists
        /\ NextStep /\ UNCHANGED <<obj, objFresh>>
     \/ /\ GetInstance.exists /\ Renders
        /\ ~Read("logstash").exists /\ ~Live("logstash").exists
        /\ WriteObject(Here("logstash"), NewLogstash) /\ NextStep
     \/ /\ GetInstance.exists
        /\ ~Renders \/ (~Read("logstash").exists /\ Live("logstash").exists)
        /\ Fail /\ UNCHANGED <<obj, objFresh>>
  /\ Apart

-----------------------------------------------------------------------------
(***************************************************************************)
(* Teardown: deleteExternalResources.                                      *)
(***************************************************************************)
Dropping(o) == pc = "drop" /\ idx \in DOMAIN Teardown /\ Teardown[idx] = o

NextDrop == GoTo("drop", idx + 1)

\* deleteESCluster, deleteGrafanaDashboard: delete until a live read finds nothing.
\* A kind that the pass cannot look for counts as absent, but not in
\* deleteESCluster: to it this is one more error to log, and to try again.
DropAwaitedOnce(o) ==  \* MUTANT of DropAwaited: deletes and goes on
  /\ Dropping(o) /\ o \in Awaited /\ (o = "es" => Maps(o))
  /\ IF Live(o).exists THEN DeleteObject(Here(o)) ELSE UNCHANGED <<obj, objFresh>>
  /\ NextDrop /\ Apart

DropNothing(o) ==  \* MUTANT of DropAwaited: waits without deleting
  /\ Dropping(o) /\ o \in Awaited /\ (o = "es" => Maps(o)) /\ ~Live(o).exists
  /\ NextDrop /\ NoWrites

DropAwaited(o) ==
  /\ Dropping(o) /\ o \in Awaited /\ (o = "es" => Maps(o))
  /\ \/ ~Live(o).exists /\ NextDrop /\ UNCHANGED <<obj, objFresh>>
     \/ Live(o).exists /\ ~Live(o).terminating /\ DeleteObject(Here(o)) /\ GoTo("drop", idx)
  /\ Apart

\* One delete.  An error while looking for Kibana counts as its absence.
DropOnce(o) ==
  /\ Dropping(o) /\ o \notin Awaited \cup {"operator"}
  /\ \/ Live(o).exists /\ DeleteObject(Here(o))
     \/ (Live(o).exists => o = "kibana" /\ ~quiet) /\ UNCHANGED <<obj, objFresh>>
  /\ NextDrop /\ Apart

\* The operator's Deployment is looked up in the cache.
DropOperator ==
  /\ Dropping("operator")
  /\ \/ Read("operator").exists /\ Live("operator").exists /\ DeleteObject(Here("operator")) /\ NextDrop
     \/ ~Read("operator").exists /\ NextDrop /\ UNCHANGED <<obj, objFresh>>
     \/ /\ Read("operator").exists /\ ~Live("operator").exists
        /\ Fail /\ UNCHANGED <<obj, objFresh>>
  /\ Apart

RemoveFinalizer ==
  /\ pc = "drop" /\ idx > Len(Teardown)
  /\ \/ instFresh /\ WriteCr(key, NoCr) /\ Succeed
     \/ ~instFresh /\ Fail /\ UNCHANGED <<cr, crFresh>>
  /\ UNCHANGED <<obj, crCache, objCache, objFresh, quiet, requests>>

\* A call fails without effect and its error ends the pass, unless the pass is
\* in deleteESCluster, which returns none.
PassError == ~quiet /\ pc # "idle" /\ ~Dropping("es") /\ Fail /\ NoWrites

Restart ==
  /\ ~quiet
  /\ Return
  /\ crCache' = cr /\ crFresh' = [s \in Server |-> TRUE]
  /\ objCache' = [o \in Watched |-> obj[o]] /\ objFresh' = [o \in Watched |-> TRUE]
  /\ pending' = {s \in Server : cr[s].exists}
  /\ UNCHANGED <<cr, obj, quiet, requests>>

-----------------------------------------------------------------------------
Install ==
  \/ AddFinalizer \/ FinishPass \/ FindMarker \/ RereadInstance
  \/ \E o \in Child : RegisterKinds(o) \/ ApplyManaged(o) \/ ReconcileExternal(o)
  \/ AwaitOperator \/ AwaitEs \/ LoadTemplates \/ ReconcileLogstash

TakeDown ==
  \/ \E o \in Child : DropAwaited(o) \/ DropOnce(o)
  \/ DropOperator \/ RemoveFinalizer

PassStep == Install \/ TakeDown

Every(children) == {o \in Objects : o[2] \in children}

Collect == \E o \in Objects : GarbageCollect(o)

Users(s) == CreateCr(s) \/ EditSpec(s) \/ DeleteCr(s) \/ ForceDelete(s)

Next ==
  \/ Settle \/ PassError \/ Restart
  \/ \E s \in Server : Users(s) \/ SyncCr(s) \/ StartPass(s)
  \/ \E o \in Every(Fragile) : DeleteChild(o) \/ GoesDown(o)
  \/ \E o \in Every(Awaited) : Release(o)
  \/ \E o \in Every({"es", "operator"}) : ComesUp(o)
  \/ \E o \in Watched : SyncObject(o)
  \/ Collect \/ Resync \/ PassStep

Spec == Init /\ [][Next]_vars

\* The queue is first in, first out: a server's turn comes though the worker is
\* often busy with another one.
Fairness ==
  /\ WF_vars(PassStep) /\ WF_vars(Resync)
  /\ \A s \in Server : WF_vars(SyncCr(s)) /\ SF_vars(StartPass(s))
  /\ \A o \in Watched : WF_vars(SyncObject(o))
  /\ WF_vars(Collect)
  /\ \A o \in Every({"es", "operator"}) : WF_vars(ComesUp(o))

\* The operators of the external resources may leave what they hold as it is.
FairSpec == Spec /\ Fairness

\* They clean up.
CleanSpec == FairSpec /\ \A o \in Every(Awaited) : WF_vars(Release(o))
-----------------------------------------------------------------------------
\* Each variable has its type, and a pass under way holds an instance.
TypeOK ==
  /\ cr \in [Server -> CrRecord] /\ crCache \in [Server -> CrRecord]
  /\ crFresh \in [Server -> BOOLEAN]
  /\ obj \in [Objects -> ObjectRecord] /\ objCache \in [Watched -> ObjectRecord]
  /\ objFresh \in [Watched -> BOOLEAN]
  /\ pending \subseteq Server /\ quiet \in BOOLEAN /\ requests \in 0..MaxRequests
  /\ pc \in {"idle", "addFinalizer", "install", "awaitEs", "awaitOperator", "drop"}
  /\ idx \in Nat /\ instFresh \in BOOLEAN
  /\ inst \in CrRecord /\ key \in Server \cup {""} /\ mapped \subseteq Definitions
  /\ (pc # "idle" => inst.exists) /\ (key = "" <=> pc = "idle")

\* No deletion is forgotten: a server that is to go, and that the cache shows to
\* be going, has its teardown under way or due.  A pass that succeeds is not
\* repeated (before the next resync), so every end of a teardown but its last, be
\* it a conflict on the finalizer, an error of one delete or a restart, must bring
\* the key back, and the success of a pass that was installing when the deletion
\* came must not cover it up.
DeletionRemembered ==
  \A s \in Server :
    cr[s].deleting => ~crFresh[s] \/ s \in pending \/ (key = s /\ pc = "drop")

\* No write of the pass takes back what a user asked for, be it a size or the
\* deletion, or brings a resource back that is gone.
KeepsRequests ==
  [][UNCHANGED cr \/ UNCHANGED <<pc, idx>>
     \/ \A s \in Server : \/ ~cr'[s].exists
                          \/ /\ cr[s].exists
                             /\ cr'[s].size = cr[s].size /\ cr'[s].uid = cr[s].uid
                             /\ cr'[s].deleting = cr[s].deleting]_<<cr, pc, idx>>

\* When the pass removes the finalizer, Elasticsearch and the dashboards are gone,
\* and if an old cache hid the operator's Deployment from it, then the Deployment
\* is one that the garbage collector takes with the resource.
TornDownFirst ==
  [][pc = "drop" /\ pc' = "idle" /\ cr[key].exists /\ ~cr'[key].exists
       => /\ \A c \in Awaited \cap Child : ~Live(c).exists
          /\ "operator" \in Child /\ Live("operator").exists => Live("operator").owner # 0]_<<cr, pc>>

\* Once everything rests, a live server has all its components, at the size
\* its spec asks for, and none of them is about to be collected, unless what it
\* shares of the Elastic operator cannot be created any more.
Installed(s) ==
  \A c \in Child : LET o == obj[Place(s, c)] IN
    /\ o.exists /\ ~o.terminating
    /\ o.owner # 0 => OwnerLives(Place(s, c))
    /\ c \in Sized => o.size = cr[s].size

\* What a failed pass created of the Elastic operator, unseen by the cache: each
\* later pass finds no marker, creates it again and ends with AlreadyExists.
Wedged == LET eckRole == <<"elastic-system", "eckRole">>
          IN  /\ eckRole \in Objects \ Watched
              /\ obj[eckRole].exists /\ ~obj[<<"elastic-system", "eck">>].exists

\* Its operator is gone, and with it who would let go of it.
Stuck(o) == obj[o].terminating /\ ~Served(o)

\* The worker, the only one, is in a loop of the teardown without an end: for what
\* is stuck, or for an Elasticsearch whose kind was not defined when it began.
Hangs == \E c \in Awaited : Dropping(c) /\ (Stuck(Here(c)) \/ (c = "es" /\ ~Maps(c)))

EventuallyInstalled ==
  <>[](quiet => \A s \in Server : cr[s].exists /\ ~cr[s].deleting =>
                  Installed(s) \/ Wedged \/ Hangs)

\* Once everything rests, a deletion ends: no finalizer keeps a server for ever,
\* unless the operator of what the teardown waits for is gone itself, or was never
\* installed so far that Elasticsearch could be looked for.
EventuallyDeleted == <>[](quiet => \A s \in Server : cr[s].deleting => Hangs)

\* Nothing that the other operators or Logstash run stays without a server, even
\* where the teardown was cut short or an error of its reads went unnoticed.
NothingRunsOn ==
  <>[](quiet => \A o \in Objects :
                  obj[o].exists /\ o[2] \notin Managed \cup Definitions \cup {"template"} =>
                    Stuck(o) \/ \E s \in Server : cr[s].exists /\ Place(s, o[2]) = o)

\* "if fail to delete the external dependency here, return with error so that it
\* can be retried": the pass does not stay in the deletion of Elasticsearch.
DeletionReturns == Dropping("es") ~> ~Dropping("es")
=============================================================================
