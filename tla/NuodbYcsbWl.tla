---------------------------- MODULE NuodbYcsbWl ----------------------------
(***************************************************************************)
(* The NuodbYcsbWl controller (pkg/controller/nuodbycsbwl) for one sample  *)
(* workload.  The chart renders to one ReplicationController, named by the *)
(* spec; a pass creates it when the cache does not show it, and sets the   *)
(* replicas of the one called "ycsb-load".  A pass without an error is not *)
(* requeued, and ReplicationControllers are not watched: after it the next *)
(* comes with an event of the workload or with the informer's resync.      *)
(***************************************************************************)
EXTENDS Naturals

CONSTANTS
  Names,        \* the values of ycsbLoadName
  Counts,       \* the values of ycsbWorkloadCount, and of users' scaling by hand
  MaxRequests,  \* bound: writes of the spec
  MaxScalings   \* bound: users' writes of replicas

ASSUME YcsbConstants ==
  /\ Names # {} /\ Counts \subseteq Nat
  /\ MaxRequests \in Nat /\ MaxScalings \in Nat

VARIABLES
  cr, crCache, crFresh,     \* the workload, the informer's copy, is it current
  rc, rcCache, rcFresh,     \* the same for the ReplicationControllers
  pending, inst,            \* the key is queued; the instance of the pass under way
  quiet, requests, scalings,
  byHand                    \* history: the controllers that users have scaled
                            \* since they last wrote the spec

cacheVars == <<crCache, crFresh, rcCache, rcFresh>>
envVars   == <<quiet, requests, scalings, byHand>>
vars      == <<cr, rc, cacheVars, pending, inst, envVars>>

-----------------------------------------------------------------------------
CrRecord == [exists: BOOLEAN, uid: Nat, name: Names, count: Nat]
Object   == [exists: BOOLEAN, owner: Nat, replicas: Nat]

NoCr     == [exists |-> FALSE, uid |-> 0, name |-> CHOOSE n \in Names : TRUE, count |-> 0]
NoObject == [exists |-> FALSE, owner |-> 0, replicas |-> 0]

Init ==
  /\ cr = NoCr /\ crCache = cr /\ crFresh = TRUE
  /\ rc = [n \in Names |-> NoObject] /\ rcCache = rc /\ rcFresh = [n \in Names |-> TRUE]
  /\ pending = FALSE /\ inst = NoCr
  /\ quiet = FALSE /\ requests = 0 /\ scalings = 0 /\ byHand = {}

WriteRc(n, record) ==
  /\ rc' = [rc EXCEPT ![n] = record]
  /\ rcFresh' = [rcFresh EXCEPT ![n] = FALSE]

-----------------------------------------------------------------------------
(***************************************************************************)
(* Users, the garbage collector, informers.                                *)
(***************************************************************************)
Request ==
  /\ ~quiet /\ requests < MaxRequests
  /\ requests' = requests + 1
  /\ \E n \in Names, k \in Counts :
       cr' = [exists |-> TRUE, uid |-> IF cr.exists THEN cr.uid ELSE requests',
              name |-> n, count |-> k]
  /\ crFresh' = FALSE /\ byHand' = {}
  /\ UNCHANGED <<rc, crCache, rcCache, rcFresh, pending, inst, quiet, scalings>>

DeleteCr ==
  /\ ~quiet /\ cr.exists
  /\ cr' = NoCr /\ crFresh' = FALSE
  /\ UNCHANGED <<rc, crCache, rcCache, rcFresh, pending, inst, envVars>>

UserScales(n) ==
  /\ ~quiet /\ rc[n].exists /\ scalings < MaxScalings
  /\ scalings' = scalings + 1 /\ byHand' = byHand \cup {n}
  /\ \E k \in Counts \ {rc[n].replicas} : WriteRc(n, [rc[n] EXCEPT !.replicas = k])
  /\ UNCHANGED <<cr, crCache, crFresh, rcCache, pending, inst, quiet, requests>>

Gone(n) == /\ WriteRc(n, NoObject) /\ byHand' = byHand \ {n}
           /\ UNCHANGED <<cr, crCache, crFresh, rcCache, pending, inst, quiet, requests, scalings>>

DeleteRc(n) == ~quiet /\ rc[n].exists /\ Gone(n)

OwnerLives(n) == cr.exists /\ cr.uid = rc[n].owner

GarbageCollect(n) == rc[n].exists /\ rc[n].owner # 0 /\ ~OwnerLives(n) /\ Gone(n)

Settle == /\ ~quiet /\ quiet' = TRUE
          /\ UNCHANGED <<cr, rc, cacheVars, pending, inst, requests, scalings, byHand>>

SyncCr ==
  /\ ~crFresh
  /\ crCache' = cr /\ crFresh' = TRUE /\ pending' = TRUE
  /\ UNCHANGED <<cr, rc, rcCache, rcFresh, inst, envVars>>

SyncRc(n) ==
  /\ ~rcFresh[n]
  /\ rcCache' = [rcCache EXCEPT ![n] = rc[n]]
  /\ rcFresh' = [rcFresh EXCEPT ![n] = TRUE]
  /\ UNCHANGED <<cr, rc, crCache, crFresh, pending, inst, envVars>>

Resync ==
  /\ crCache.exists /\ ~pending /\ pending' = TRUE
  /\ UNCHANGED <<cr, rc, cacheVars, inst, envVars>>

-----------------------------------------------------------------------------
(***************************************************************************)
(* The worker.                                                             *)
(***************************************************************************)
StartPass ==
  /\ ~inst.exists /\ pending
  /\ pending' = FALSE
  /\ inst' = IF crCache.exists THEN crCache ELSE inst
  /\ UNCHANGED <<cr, rc, cacheVars, envVars>>

Succeed == inst' = NoCr /\ UNCHANGED pending
Fail    == inst' = NoCr /\ pending' = TRUE

NewRcUnowned ==  \* MUTANT of NewRc: no SetControllerReference
  [exists |-> TRUE, owner |-> 0, replicas |-> inst.count]

NewRc == [exists |-> TRUE, owner |-> inst.uid, replicas |-> inst.count]

RescalesUp(n) ==  \* MUTANT of Rescales: < where the code has #
  n = "ycsb-load" /\ rcCache[n].replicas < inst.count

Rescales(n) == n = "ycsb-load" /\ rcCache[n].replicas # inst.count

\* One read of the ReplicationController, and at most one write.
Reconcile(n) ==
  /\ inst.exists /\ inst.name = n
  /\ \/ ~rcCache[n].exists /\ ~rc[n].exists /\ WriteRc(n, NewRc) /\ Succeed
     \/ ~rcCache[n].exists /\ rc[n].exists /\ Fail /\ UNCHANGED <<rc, rcFresh>>
     \/ rcCache[n].exists /\ ~Rescales(n) /\ Succeed /\ UNCHANGED <<rc, rcFresh>>
     \/ /\ rcCache[n].exists /\ Rescales(n) /\ rcFresh[n]
        /\ WriteRc(n, [rcCache[n] EXCEPT !.replicas = inst.count]) /\ Succeed
     \/ rcCache[n].exists /\ Rescales(n) /\ ~rcFresh[n] /\ Fail /\ UNCHANGED <<rc, rcFresh>>
  /\ UNCHANGED <<cr, crCache, crFresh, rcCache, envVars>>

PassError ==
  /\ ~quiet /\ inst.exists /\ Fail
  /\ UNCHANGED <<cr, rc, cacheVars, envVars>>

Restart ==
  /\ ~quiet
  /\ inst' = NoCr /\ pending' = cr.exists
  /\ crCache' = cr /\ crFresh' = TRUE
  /\ rcCache' = rc /\ rcFresh' = [n \in Names |-> TRUE]
  /\ UNCHANGED <<cr, rc, envVars>>

-----------------------------------------------------------------------------
PassStep == \E n \in Names : Reconcile(n)

Next ==
  \/ Request \/ DeleteCr \/ Settle
  \/ \E n \in Names : UserScales(n) \/ DeleteRc(n) \/ GarbageCollect(n) \/ SyncRc(n)
  \/ SyncCr \/ Resync \/ StartPass \/ PassStep \/ PassError \/ Restart

Spec == Init /\ [][Next]_vars

FairSpec ==
  /\ Spec
  /\ WF_vars(SyncCr) /\ WF_vars(Resync) /\ WF_vars(StartPass) /\ WF_vars(PassStep)
  /\ \A n \in Names : WF_vars(SyncRc(n)) /\ WF_vars(GarbageCollect(n))
-----------------------------------------------------------------------------
\* Each variable has its type, and every controller an owner, also after an update.
TypeOK ==
  /\ cr \in CrRecord /\ crCache \in CrRecord /\ crFresh \in BOOLEAN
  /\ rc \in [Names -> Object] /\ \A n \in Names : rc[n].exists => rc[n].owner # 0
  /\ rcCache \in [Names -> Object]
  /\ rcFresh \in [Names -> BOOLEAN]
  /\ pending \in BOOLEAN /\ inst \in CrRecord
  /\ quiet \in BOOLEAN /\ requests \in 0..MaxRequests /\ scalings \in 0..MaxScalings
  /\ byHand \subseteq Names

\* Once everything rests, the controller that a live workload names exists and
\* will not be collected; the one called "ycsb-load" has the count of the spec,
\* although passes on an old copy of it succeeded and were not requeued, unless
\* users have scaled it themselves since they wrote that spec.
EventuallyRunning ==
  <>[](quiet /\ cr.exists =>
         /\ rc[cr.name].exists /\ OwnerLives(cr.name)
         /\ cr.name = "ycsb-load" /\ cr.name \notin byHand => rc[cr.name].replicas = cr.count)

\* A deleted workload leaves no pods running, under no name it ever had.
NothingRunsOn == <>[](quiet /\ ~cr.exists => \A n \in Names : ~rc[n].exists)

\* "To start a SQL Workload (if your `nuodb-ycsbwl-cr.yaml` wasn't configured to start
\* one by default) locate the ycsb Replication Controller [...] and scale it to your
\* desired number of pods": while the spec asks for no pods, a controller that users
\* have scaled in this way keeps its pods until users ask for something else.
StartedByHand ==
  [][cr.exists /\ cr.count = 0 /\ UNCHANGED scalings
       => \A n \in byHand \cap byHand' : rc'[n].replicas = rc[n].replicas]_<<rc, scalings>>
=============================================================================
