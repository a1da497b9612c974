------------------------- MODULE AlertmanagerOperator -------------------------
(***************************************************************************)
(* The Alertmanager controller of prometheus-operator (pkg/alertmanager):  *)
(* two informers, a work queue, and one worker for all Alertmanagers.  For *)
(* an Alertmanager that exists sync writes the governing Service and the   *)
(* StatefulSet; for one that is gone it scales the StatefulSet down, waits *)
(* until its pods have ended, and deletes it.                              *)
(*                                                                         *)
(* destroyAlertmanager sets the replicas in the object of the informer's   *)
(* store; nothing reads them there, and the next event replaces them.      *)
(***************************************************************************)
EXTENDS Integers, FiniteSets, Sequences, SequencesExt

CONSTANTS
  Ams,          \* the keys of Alertmanagers
  Specs,        \* specs a user may give one
  FirstSpec,    \* the spec of those that exist when the operator starts
  MaxChanges,   \* bound on what users do and on the faults, together
  MaxEvents,    \* bound on the undelivered events of a kind
  None

ASSUME SpecAssumption ==
  /\ Specs \subseteq [paused : BOOLEAN, version : Nat, storage : Nat] /\ FirstSpec \in Specs
ASSUME FiniteAssumption == IsFiniteSet(Ams)
ASSUME BoundAssumption == MaxChanges \in Nat /\ MaxEvents \in Nat \ {0}
ASSUME NameAssumption ==
  /\ None \notin Ams /\ None \notin [uid : Nat, spec : Specs]
  /\ None \notin [owner : Nat, version : Nat, storage : Nat, replicas : Nat, deleting : BOOLEAN]

VARIABLES
  log,       \* per kind the states of its objects: the informer has the
             \* first, the API server the last, the watch events are between
  service,   \* the owners of the governing Service, {} if there is none
  lost,      \* history: owners that a sync or a user has left without it
  pods,      \* the Alertmanagers that have pods
  queue,     \* the keys that wait, first come first served
  dirty,     \* keys to process, those that came while they are processed too
  delayed,   \* keys in the rate limiter
  job,       \* where sync is, and with which key and Alertmanager
  uids,      \* how many objects users have created
  changes, faults

cluster == <<log, service, lost, pods>>
work == <<queue, dirty>>
counters == <<uids, changes, faults>>
vars == <<cluster, work, delayed, job, counters>>

Kinds == {"am", "sset"}
Cached(k) == Head(log[k])
Live(k) == Last(log[k])
Write(k, a, s) ==
  \/ s = Live(k)[a] /\ UNCHANGED log
  \/ /\ s # Live(k)[a] /\ Len(log[k]) <= MaxEvents
     /\ log' = [log EXCEPT ![k] = Append(@, [Last(@) EXCEPT ![a] = s])]

(* The StatefulSet has changed since the informer's copy was made.         *)
Outdated(a) == \E i \in DOMAIN log["sset"] : log["sset"][i][a] # Cached("sset")[a]

NoJob == [step |-> "idle", key |-> None, am |-> None, owners |-> {}]

(* makeStatefulSet: a version may be updated in place, a storage may not.  *)
MakeStatefulSet(am) == [owner |-> am.uid, version |-> am.spec.version, storage |-> am.spec.storage,
                        replicas |-> 1, deleting |-> FALSE]

(* The operator starts; users have made every Alertmanager.                *)
Init ==
  /\ \E uid \in {f \in [Ams -> 1 .. Cardinality(Ams)] : \A a, b \in Ams : f[a] = f[b] => a = b} :
       log = [am |-> <<[a \in Ams |-> [uid |-> uid[a], spec |-> FirstSpec]]>>,
              sset |-> <<[a \in Ams |-> None]>>]
  /\ service = {} /\ lost = {} /\ pods = {}
  /\ queue = SetToSeq(Ams) /\ dirty = Ams /\ delayed = {} /\ job = NoJob
  /\ uids = Cardinality(Ams) /\ changes = 0 /\ faults = 0

-----------------------------------------------------------------------------
(* The work queue.                                                         *)

Added(a) == IF a \in dirty \/ a = job.key THEN queue ELSE Append(queue, a)
Enqueue(a) == dirty' = dirty \cup {a} /\ queue' = Added(a)

(* The handlers run after the store has changed.                           *)
HandleAlertmanager(a) == TRUE
HandleStatefulSet(a) == Cached("am")[a] # None
Handle(k, a) == IF k = "am" THEN HandleAlertmanager(a) ELSE HandleStatefulSet(a)

Deliver(k) ==
  /\ Len(log[k]) > 1
  /\ log' = [log EXCEPT ![k] = Tail(@)]
  /\ \E a \in Ams :
       /\ log[k][1][a] # log[k][2][a]
       /\ IF Handle(k, a) THEN Enqueue(a) ELSE UNCHANGED work
  /\ UNCHANGED <<service, lost, pods, delayed, job, counters>>

(* The informer shows every object again.  The handler of Alertmanagers    *)
(* does not compare resource versions.                                     *)
Resync ==
  /\ changes + faults < MaxChanges /\ faults' = faults + 1
  /\ \E a \in Ams : Cached("am")[a] # None /\ a \notin dirty /\ Enqueue(a)
  /\ UNCHANGED <<cluster, delayed, job, uids, changes>>

Requeue(a) ==
  /\ a \in delayed
  /\ delayed' = delayed \ {a}
  /\ Enqueue(a)
  /\ UNCHANGED <<cluster, job, counters>>

-----------------------------------------------------------------------------
(* The worker.                                                             *)

(* Mutant: Done does not put back a key that came meanwhile.               *)
FinishForgets == job' = NoJob /\ UNCHANGED work

Finish ==
  /\ job' = NoJob /\ dirty' = dirty
  /\ queue' = IF job.key \in dirty THEN Append(queue, job.key) ELSE queue
Done == Finish /\ UNCHANGED delayed
Retry == Finish /\ delayed' = delayed \cup {job.key}
Go(step) == job' = [job EXCEPT !.step = step] /\ UNCHANGED <<work, delayed>>

(* Mutant: a paused Alertmanager is taken for one that is gone.            *)
GonePaused(am) == IF am = None THEN TRUE ELSE am.spec.paused

(* The Alertmanager is not in the informer's store.                        *)
Gone(am) == am = None

(* processNextWorkItem and the start of sync.                              *)
Begin ==
  /\ job.step = "idle" /\ queue # <<>>
  /\ LET a == Head(queue)
         am == Cached("am")[a]
         step == IF Gone(am) THEN "scale" ELSE IF am.spec.paused THEN "end" ELSE "service"
     IN  /\ job' = [step |-> step, key |-> a, am |-> am, owners |-> {}]
         /\ dirty' = dirty \ {a}
  /\ queue' = Tail(queue)
  /\ UNCHANGED <<cluster, delayed, counters>>

End == job.step = "end" /\ Done /\ UNCHANGED <<cluster, counters>>

(* CreateOrUpdateService, until it has the Service ...                     *)
GetService ==
  /\ job.step = "service"
  /\ job' = [job EXCEPT !.step = "put", !.owners = service]
  /\ UNCHANGED <<cluster, work, delayed, counters>>

(* Mutant: the owners of a Service that exists are replaced.               *)
MergeForgets(owners, uid) == {uid}

(* mergeOwnerReferences.                                                   *)
MergeOwners(owners, uid) == owners \cup {uid}

(* ... and its Create, or its Update with the resource version that was    *)
(* read: who writes meanwhile changes the owners, or does what is a failed *)
(* request.  An Update that finds no Service is taken for one that worked. *)
CreateOrUpdateService ==
  /\ job.step = "put"
  /\ \/ /\ service = job.owners
        /\ service' = MergeOwners(service, job.am.uid) /\ lost' = lost \ {job.am.uid}
     \/ /\ service = {} /\ job.owners # {}
        /\ lost' = lost \cup {job.am.uid} /\ UNCHANGED service
  /\ job' = [job EXCEPT !.step = "apply", !.owners = {}]
  /\ UNCHANGED <<log, pods, work, delayed, counters>>
ServiceConflict ==
  /\ job.step = "put" /\ service # {} /\ service # job.owners
  /\ Retry
  /\ UNCHANGED <<cluster, counters>>

(* The rest of sync: create what the store does not have, else update it   *)
(* always, and delete what may not be updated.                             *)
ApplyStatefulSet ==
  /\ job.step = "apply"
  /\ LET a == job.key
         old == Cached("sset")[a]
         live == Live("sset")[a]
         new == MakeStatefulSet(job.am)
     IN  \/ old = None /\ live = None /\ Write("sset", a, new) /\ Done
         \/ (old = None) # (live = None) /\ UNCHANGED log /\ Retry
         \/ /\ old # None /\ live # None
            /\ \/ live.storage = new.storage /\ Write("sset", a, [new EXCEPT !.deleting = live.deleting])
               \/ live.storage # new.storage /\ Write("sset", a, [live EXCEPT !.deleting = TRUE])
            /\ Done
  /\ UNCHANGED <<service, lost, pods, counters>>

NoReplicas(s) == [s EXCEPT !.replicas = 0]

(* destroyAlertmanager.  The update carries the resource version of the    *)
(* informer's copy.                                                        *)
ScaleDown ==
  /\ job.step = "scale"
  /\ LET a == job.key
         old == Cached("sset")[a]
     IN  \/ old = None /\ UNCHANGED log /\ Done
         \/ old # None /\ Outdated(a) /\ UNCHANGED log /\ Retry
         \/ old # None /\ ~Outdated(a) /\ Write("sset", a, NoReplicas(old)) /\ Go("poll")
  /\ UNCHANGED <<service, lost, pods, counters>>

(* Mutant: the pods of every Alertmanager are listed.                      *)
NoneListed(a) == pods = {}

(* The pods of this Alertmanager are listed by its name.                   *)
Ended(a) == a \notin pods

(* The loop ends when no pods are listed; nothing else ends it.            *)
Poll ==
  /\ job.step = "poll" /\ Ended(job.key)
  /\ Go("delete")
  /\ UNCHANGED <<cluster, counters>>

DeleteStatefulSet ==
  /\ job.step = "delete"
  /\ \/ Live("sset")[job.key] # None /\ Write("sset", job.key, None) /\ Done
     \/ Live("sset")[job.key] = None /\ UNCHANGED log /\ Retry
  /\ UNCHANGED <<service, lost, pods, counters>>

(* A request of sync fails.                                                *)
Fail ==
  /\ job.step \notin {"idle", "end"} /\ changes + faults < MaxChanges
  /\ faults' = faults + 1
  /\ Retry
  /\ UNCHANGED <<cluster, uids, changes>>

Worker ==
  \/ Begin \/ End \/ GetService \/ CreateOrUpdateService \/ ServiceConflict \/ ApplyStatefulSet
  \/ ScaleDown \/ Poll \/ DeleteStatefulSet

(* The operator dies and starts again: the informers list, the handlers    *)
(* added then see every object as new, and nothing tells of those that are *)
(* gone.                                                                   *)
Restart ==
  /\ changes + faults < MaxChanges
  /\ faults' = faults + 1
  /\ log' = [k \in Kinds |-> <<Live(k)>>]
  /\ dirty' = {a \in Ams : Live("am")[a] # None}
  /\ queue' = SetToSeq(dirty')
  /\ delayed' = {} /\ job' = NoJob
  /\ UNCHANGED <<service, lost, pods, uids, changes>>

-----------------------------------------------------------------------------
(* The environment.                                                        *)

(* A user creates, changes or deletes an Alertmanager.                     *)
ChangeAlertmanager(a) ==
  LET am == Live("am")[a] IN
  /\ changes + faults < MaxChanges
  /\ changes' = changes + 1
  /\ \/ /\ am = None /\ uids' = uids + 1
        /\ \E s \in Specs : Write("am", a, [uid |-> uids', spec |-> s])
     \/ /\ am # None /\ UNCHANGED uids
        /\ \E s \in Specs \ {am.spec} : Write("am", a, [am EXCEPT !.spec = s])
     \/ am # None /\ Write("am", a, None) /\ UNCHANGED uids
  /\ UNCHANGED <<service, lost, pods, work, delayed, job, faults>>

(* Somebody deletes a StatefulSet or takes its replicas away, or deletes   *)
(* the Service, which no informer watches.                                 *)
Tamper(a) ==
  /\ changes + faults < MaxChanges
  /\ changes' = changes + 1
  /\ Live("sset")[a] # None
  /\ \E s \in {None, NoReplicas(Live("sset")[a])} : s # Live("sset")[a] /\ Write("sset", a, s)
  /\ UNCHANGED <<service, lost, pods, work, delayed, job, uids, faults>>
DeleteService ==
  /\ changes + faults < MaxChanges
  /\ changes' = changes + 1
  /\ service # {} /\ service' = {} /\ lost' = lost \cup service
  /\ UNCHANGED <<log, pods, work, delayed, job, uids, faults>>

(* Objects whose owners are all gone are collected, and a StatefulSet      *)
(* deleted in the foreground goes once its pods have.                      *)
LiveUids == {Live("am")[a].uid : a \in {b \in Ams : Live("am")[b] # None}}
Dead(s) == s.owner \notin LiveUids
CollectStatefulSet(a) ==
  /\ Live("sset")[a] # None
  /\ Dead(Live("sset")[a]) \/ (Live("sset")[a].deleting /\ a \notin pods)
  /\ Write("sset", a, None)
  /\ UNCHANGED <<service, lost, pods, work, delayed, job, counters>>
CollectService ==
  /\ service \ LiveUids # {}
  /\ service' = service \cap LiveUids
  /\ UNCHANGED <<log, lost, pods, work, delayed, job, counters>>

(* The StatefulSet controller starts and ends the pods.                    *)
Wanted(a) ==
  LET s == Live("sset")[a] IN IF s = None THEN FALSE ELSE s.replicas > 0 /\ ~s.deleting
RunPods(a) ==
  /\ (a \in pods) # Wanted(a)
  /\ pods' = IF Wanted(a) THEN pods \cup {a} ELSE pods \ {a}
  /\ UNCHANGED <<log, service, lost, work, delayed, job, counters>>

Next ==
  \/ Worker \/ Fail \/ Restart \/ Resync \/ CollectService
  \/ \E k \in Kinds : Deliver(k)
  \/ \E a \in Ams : Requeue(a) \/ ChangeAlertmanager(a) \/ Tamper(a) \/ CollectStatefulSet(a) \/ RunPods(a)
  \/ DeleteService

Spec == Init /\ [][Next]_vars

(* The worker, the watches, the rate limiter and the controllers of        *)
(* Kubernetes go on.                                                       *)
FairSpec ==
  /\ Spec
  /\ WF_vars(Worker) /\ WF_vars(CollectService)
  /\ \A k \in Kinds : WF_vars(Deliver(k))
  /\ \A a \in Ams : WF_vars(Requeue(a)) /\ WF_vars(CollectStatefulSet(a)) /\ WF_vars(RunPods(a))

-----------------------------------------------------------------------------
(* What the operator promises.                                             *)

Alertmanager == [uid : 1 .. uids, spec : Specs]
StatefulSet == [owner : 1 .. uids, version : Nat, storage : Nat, replicas : {0, 1}, deleting : BOOLEAN]

Destroys == {"scale", "poll", "delete"}

(* Every variable has its type, and the queue holds each key to process    *)
(* once, unless it is being processed.                                     *)
TypeOK ==
  /\ DOMAIN log = Kinds /\ \A k \in Kinds : Len(log[k]) \in 1 .. MaxEvents + 1
  /\ log["am"] \in Seq([Ams -> Alertmanager \cup {None}]) /\ log["sset"] \in Seq([Ams -> StatefulSet \cup {None}])
  /\ service \subseteq 1 .. uids /\ lost \subseteq 1 .. uids /\ pods \subseteq Ams /\ delayed \subseteq Ams /\ uids \in Nat
  /\ dirty \subseteq Ams /\ queue \in Seq(Ams) /\ ToSet(queue) = dirty \ {job.key}
  /\ \A i, j \in DOMAIN queue : queue[i] = queue[j] => i = j
  /\ \/ job = NoJob
     \/ job \in [step : {"end", "service", "put", "apply"}, key : Ams, am : Alertmanager, owners : SUBSET (1 .. uids)]
     \/ job \in [step : Destroys, key : Ams, am : {None}, owners : {{}}]
  /\ changes \in Nat /\ faults \in Nat /\ changes + faults <= MaxChanges

(* Nothing is left to do.                                                  *)
Quiet ==
  /\ job = NoJob /\ queue = <<>> /\ delayed = {}
  /\ \A k \in Kinds : Len(log[k]) = 1
  /\ \A a \in Ams : (a \in pods) = Wanted(a)
  /\ \A a \in Ams : Live("sset")[a] # None => ~Dead(Live("sset")[a]) /\ ~Live("sset")[a].deleting
  /\ service \subseteq LiveUids

(* Whenever nothing is left to do, each Alertmanager that is not paused    *)
(* has its StatefulSet and its pods, and one that is gone has neither.  It *)
(* owns the governing Service, unless that has been deleted, which nothing *)
(* tells the operator.                                                     *)
QuietIsRight ==
  Quiet => \A a \in Ams :
    LET am == Live("am")[a] IN
    IF am = None THEN Live("sset")[a] = None /\ a \notin pods
    ELSE am.spec.paused \/ (/\ Live("sset")[a] = MakeStatefulSet(am)
                            /\ a \in pods /\ am.uid \in service \cup lost)

(* The informer, and so sync and the StatefulSet it writes, knows a uid    *)
(* only while or after the cache has had it, and no uid comes back.        *)
Has(i, a, u) == log["am"][i][a] # None /\ log["am"][i][a].uid = u
Owns(a, u) ==
  \/ \E i \in DOMAIN log["sset"] : log["sset"][i][a] # None /\ log["sset"][i][a].owner = u
  \/ job.key = a /\ job.am # None /\ job.am.uid = u
Occurs(a, u) == Owns(a, u) \/ \E i \in DOMAIN log["am"] : Has(i, a, u)
UidFits(a, u) ==
  /\ \A b \in Ams : Occurs(a, u) /\ Occurs(b, u) => a = b
  /\ \A i, j, k \in DOMAIN log["am"] : i <= j /\ j <= k /\ Has(i, a, u) /\ Has(k, a, u) => Has(j, a, u)
  /\ \A j, k \in DOMAIN log["am"] : j <= k /\ Owns(a, u) /\ Has(k, a, u) => Has(j, a, u)
UidsFit == \A a \in Ams, u \in 1 .. uids : UidFits(a, u)

(* What is destroyed belongs to no Alertmanager that is still to be seen.  *)
DestroysOrphan ==
  job.step \in Destroys =>
    \A u \in 1 .. uids, i \in DOMAIN log["am"] : Owns(job.key, u) => ~Has(i, job.key, u)

(* An Alertmanager for which there is nothing to do is as it should be.    *)
OneByOne ==
  \A k \in Kinds : \A i \in 1 .. Len(log[k]) - 1 : \A a, b \in Ams :
    log[k][i][a] # log[k][i + 1][a] /\ log[k][i][b] # log[k][i + 1][b] => a = b
Waits(a) == a \in dirty \/ a \in delayed \/ job.key = a
Delivered(k, a) == \A i \in DOMAIN log[k] : log[k][i][a] = Live(k)[a]
Right(a) ==
  LET am == Live("am")[a]
      s == Live("sset")[a]
  IN  \/ am = None \/ am.spec.paused
      \/ s # None /\ am.uid \in service \cup lost /\ (s.deleting \/ s = MakeStatefulSet(am))
NothingForgotten == \A a \in Ams : Waits(a) \/ ~Delivered("am", a) \/ ~Delivered("sset", a) \/ Right(a)

(* Sync does what it read calls for, and knows if it has changed since.    *)
JobFits ==
  job # NoJob =>
    /\ job.am # Cached("am")[job.key] => job.key \in dirty
    /\ job.step \in {"service", "put", "apply"} => ~job.am.spec.paused
    /\ job.step = "end" => job.am.spec.paused
    /\ job.step = "apply" /\ job.am.uid \in LiveUids => job.am.uid \in service \cup lost

IInv == TypeOK /\ UidsFit /\ DestroysOrphan /\ OneByOne /\ NothingForgotten /\ JobFits

(* destroyAlertmanager works from caches and on names: still it never      *)
(* scales down nor deletes the StatefulSet of an Alertmanager that exists, *)
(* also not of one created again while it waits for the pods.              *)
DestroysOnlyOrphans ==
  [][(ScaleDown \/ DeleteStatefulSet) =>
       \A a \in Ams : Live("sset")[a] # None /\ ~Dead(Live("sset")[a]) => UNCHANGED (Live("sset")[a])]_vars

(* When users stop, the operator comes to rest.  Its only worker waits for *)
(* the pods of one Alertmanager while others want to be synced.            *)
Settles == <>[]Quiet

=============================================================================
