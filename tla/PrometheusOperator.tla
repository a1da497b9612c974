-------------------------- MODULE PrometheusOperator --------------------------
(***************************************************************************)
(* The Prometheus controller of prometheus-operator (pkg/prometheus):      *)
(* seven informers whose handlers put the key of one Prometheus object in  *)
(* a rate limited work queue, and the worker whose sync reads the caches   *)
(* of the informers, lists and writes through the API server, and leaves   *)
(* behind rule ConfigMaps, a configuration Secret, a governing Service and *)
(* a StatefulSet.                                                          *)
(*                                                                         *)
(* One Prometheus, in the namespace Own, is modelled; it may be deleted    *)
(* and created again.  The API server, its garbage collector and the users *)
(* are the environment.                                                    *)
(***************************************************************************)
EXTENDS Integers, FiniteSets, Sequences, SequencesExt, FiniteSetsExt

CONSTANTS
  Rules,        \* PrometheusRule objects
  FileOf,       \* the file each rule becomes, "<namespace>-<name>.yaml"
  SizeOf,       \* the size of each rule's file
  MaxSize,      \* maxConfigMapDataSize
  Versions,     \* contents of a rule or of a user's Secret
  Namespaces, Own,
  NsOf,         \* the namespace of each rule
  MonitorNs,    \* the namespace of the ServiceMonitor and its Secret
  Specs,        \* specs a user may give the Prometheus
  FirstSpec,    \* the Prometheus that exists when the operator starts
  FirstLabels,  \* what the namespaces are at first
  MaxChanges,   \* bound on what users do and on the faults, together
  MaxEvents,    \* bound on the undelivered events of a kind
  None

ASSUME RuleAssumption ==
  /\ FileOf \in [Rules -> Nat] /\ SizeOf \in [Rules -> Nat] /\ MaxSize \in Nat
  /\ Versions \subseteq Nat \ {0} /\ NsOf \in [Rules -> Namespaces]
ASSUME NamespaceAssumption ==
  /\ Own \in Namespaces /\ MonitorNs \in Namespaces
  /\ FirstLabels \in [Namespaces -> {"absent", "plain", "labelled"}]
  /\ FirstLabels[Own] # "absent"
ASSUME BoundAssumption ==
  MaxChanges \in Nat \ {0} /\ MaxEvents \in Nat \ {0}
ASSUME SpecAssumption ==
  /\ Specs \subseteq [paused : BOOLEAN, managed : BOOLEAN, across : BOOLEAN, shape : Nat]
  /\ FirstSpec \in Specs /\ Versions # {} /\ None \notin Nat

(* The objects, of which None is none.                                     *)
Prometheus == [uid : Nat, rv : Nat, spec : Specs]
StatefulSet ==
  [owner : Nat, hash : [uid : Nat, rv : Nat, names : SUBSET Nat], shape : Nat, deleting : BOOLEAN, edited : BOOLEAN]
Configuration == [smon : {0, 1}, auth : Nat, names : {None} \cup SUBSET Nat]
Secret == [owner : Nat, config : Configuration]
ASSUME NameAssumption ==
  None \notin Prometheus /\ None \notin StatefulSet /\ None \notin Secret

VARIABLES
  log,       \* per kind whose store is read the states of its objects: the
             \* informer has the first, the API server the last, the watch
             \* events are between them
  cm,        \* rule ConfigMaps in the API server, [owner, data] by index
  conf,      \* the configuration Secret, [owner, config]
  auth,      \* the Secret with the credentials of the ServiceMonitor
  events,    \* which of these three have events that no handler has seen;
             \* nothing reads the stores of their informers
  service,   \* the owners of the governing Service, {} if there is none
  lost,      \* history: owners that a sync or a user has left without it
  queued,    \* the key is in the queue (or dirty while it is processed)
  delayed,   \* the key waits in the rate limiter
  job,       \* where sync is and what it remembers
  changes, faults

secrets == <<conf, auth>>
counters == <<changes, faults>>
vars == <<log, cm, secrets, events, service, lost, queued, delayed, job, counters>>

Kinds == {"prom", "rule", "smon", "ns", "sset"}
Cached(k) == Head(log[k])
Live(k) == Last(log[k])

(* A write that changes nothing makes no event.                            *)
Write(k, s) ==
  \/ s = Live(k) /\ UNCHANGED log
  \/ /\ s # Live(k) /\ Len(log[k]) <= MaxEvents
     /\ log' = [log EXCEPT ![k] = Append(@, s)]

-----------------------------------------------------------------------------
(* Selection.                                                              *)

(* The namespaces that a selector of the Prometheus matches: its own if    *)
(* the spec has no namespace selector, else those with the label.          *)
SelectNamespaces(spec, ns) ==
  IF spec.across THEN {n \in Namespaces : ns[n] = "labelled"} ELSE {Own}

(* selectRules: one content for every file name.  Rules whose names make   *)
(* the same file overwrite each other in the order of a map.               *)
SelectedRules(spec, rule, ns) ==
  LET chosen == {r \in Rules : rule[r] # 0 /\ NsOf[r] \in SelectNamespaces(spec, ns)}
  IN  {S \in SUBSET chosen :
         /\ {FileOf[r] : r \in S} = {FileOf[r] : r \in chosen}
         /\ \A q, r \in S : FileOf[q] = FileOf[r] => q = r}

Content(S, rule) == {<<r, rule[r]>> : r \in S}
Selections(spec, rule, ns) == {Content(S, rule) : S \in SelectedRules(spec, rule, ns)}

(* makeRulesConfigMaps: files in the order of their names; one that does   *)
(* not fit into the current ConfigMap opens the next, and none goes back.  *)
TooLarge(want) == \E e \in want : SizeOf[e[1]] > MaxSize
BucketSize(b) == MapThenSumSet(LAMBDA e : SizeOf[e[1]], b)
MakeRulesConfigMaps(want) ==
  LET Put(bs, e) == IF BucketSize(Last(bs)) + SizeOf[e[1]] > MaxSize
                    THEN Append(bs, {e})
                    ELSE Front(bs) \o <<Last(bs) \cup {e}>>
  IN  FoldLeft(Put, <<{}>>, SetToSortSeq(want, LAMBDA a, b : FileOf[a[1]] < FileOf[b[1]]))

(* selectServiceMonitors, for one ServiceMonitor (0 if there is none).     *)
SelectedMonitor(spec, smon, ns) ==
  IF MonitorNs \in SelectNamespaces(spec, ns) THEN smon ELSE 0

(* The generated configuration: the monitor, the credentials it refers to  *)
(* and the mounted rule ConfigMaps.                                        *)
Config(mon, cred, names) == [smon |-> mon, auth |-> IF mon = 0 THEN 0 ELSE cred, names |-> names]
EmptyConfig == [smon |-> 0, auth |-> 0, names |-> None]

Data(cms) == UNION {cms[n].data : n \in DOMAIN cms}
Without(cms, n) == [m \in DOMAIN cms \ {n} |-> cms[m]]
With(cms, n, c) == [m \in DOMAIN cms \cup {n} |-> IF m = n THEN c ELSE cms[m]]

(* createSSetInputHash: the whole Prometheus object and the names.         *)
InputHash(p, names) == [uid |-> p.uid, rv |-> p.rv, names |-> names]
MakeStatefulSet(p, names) ==
  [owner |-> p.uid, hash |-> InputHash(p, names), shape |-> p.spec.shape, deleting |-> FALSE,
   edited |-> FALSE]

-----------------------------------------------------------------------------
NoJob == [step |-> "idle", prom |-> None, want |-> {}, doomed |-> {}, next |-> 0,
          names |-> {}, conf |-> None, found |-> FALSE, owners |-> {}]
Jump(step) == job' = [job EXCEPT !.step = step]

(* The operator starts where a Prometheus, its rules and its monitor exist *)
(* and nothing was made for them.                                          *)
Init ==
  \E v \in Versions :
    /\ log = [prom |-> <<[uid |-> 1, rv |-> 1, spec |-> FirstSpec]>>, rule |-> <<[r \in Rules |-> v]>>,
              smon |-> <<1>>, ns |-> <<FirstLabels>>, sset |-> <<None>>]
    /\ cm = [n \in {} |-> None] /\ conf = None /\ auth = v /\ events = {} /\ service = {} /\ lost = {}
    /\ queued = TRUE /\ delayed = FALSE /\ job = NoJob
    /\ changes = 1 /\ faults = 0

-----------------------------------------------------------------------------
(* The handlers of the informers: do old and new put the key in the queue? *)

(* enqueueForNamespace.                                                    *)
EnqueueForNamespace(n) ==
  /\ Cached("ns")[n] # "absent"
  /\ Cached("prom") # None
  /\ n = Own \/ (Cached("prom").spec.across /\ Cached("ns")[n] = "labelled")

HandlePrometheus(old, new) == TRUE
HandleRule(old, new) == \E r \in Rules : old[r] # new[r] /\ EnqueueForNamespace(NsOf[r])
HandleSmon(old, new) == EnqueueForNamespace(MonitorNs)
HandleStatefulSet(old, new) == Cached("prom") # None

Handle(k, old, new) ==
  CASE k = "prom" -> HandlePrometheus(old, new)
    [] k = "rule" -> HandleRule(old, new)
    [] k = "smon" -> HandleSmon(old, new)
    [] k = "sset" -> HandleStatefulSet(old, new)
    [] k = "ns" -> FALSE    \* addHandlers gives nsInf none

Deliver(k) ==
  /\ Len(log[k]) > 1
  /\ log' = [log EXCEPT ![k] = Tail(@)]
  /\ queued' = (queued \/ Handle(k, log[k][1], log[k][2]))
  /\ UNCHANGED <<cm, secrets, events, service, lost, delayed, job, counters>>

HandleConfigMap == EnqueueForNamespace(Own)
HandleSecret(e) == EnqueueForNamespace(IF e = "conf" THEN Own ELSE MonitorNs)
HandleEvent(e) == IF e = "cm" THEN HandleConfigMap ELSE HandleSecret(e)

(* The handler sees all pending events of e, or some and later the rest.   *)
DeliverEvents(e) ==
  /\ e \in events
  /\ events' = events \ {e}
  /\ queued' = (queued \/ HandleEvent(e))
  /\ UNCHANGED <<log, cm, secrets, service, lost, delayed, job, counters>>
DeliverSome(e) ==
  /\ e \in events /\ HandleEvent(e) /\ queued' = TRUE
  /\ UNCHANGED <<log, cm, secrets, events, service, lost, delayed, job, counters>>

-----------------------------------------------------------------------------
(* The worker.                                                             *)

(* Mutant: what sync remembers outlives it.                                *)
DoneKeeps == job' = [job EXCEPT !.step = "idle"] /\ UNCHANGED delayed

(* A sync that fails puts its key into the rate limiter.                   *)
Done == job' = NoJob /\ UNCHANGED delayed
Retry == job' = NoJob /\ delayed' = TRUE

(* A request fails, or the operator.                                       *)
Fault == changes + faults < MaxChanges /\ faults' = faults + 1

(* A change of a ConfigMap or Secret, which makes an event.                *)
SetConfigMaps(cms) == cm' = cms /\ events' = events \cup {"cm"}
SetConf(c) == conf' = c /\ events' = events \cup {"conf"}

(* processNextWorkItem and the start of sync.                              *)
Begin ==
  /\ job.step = "idle" /\ queued
  /\ queued' = FALSE
  /\ LET p == Cached("prom") IN
     job' = IF p = None THEN NoJob
            ELSE IF p.spec.paused THEN NoJob
            ELSE [NoJob EXCEPT !.step = "rules", !.prom = p]
  /\ UNCHANGED <<log, cm, secrets, events, service, lost, delayed, counters>>

(* Mutant: the ConfigMaps are made anew in every sync.                     *)
SameRulesNever(want) == FALSE

SameRules(want) == want = Data(cm) /\ DOMAIN cm # {}

(* createOrUpdateRuleConfigMaps, until it has listed the ConfigMaps.       *)
ListRules ==
  /\ job.step = "rules"
  /\ UNCHANGED <<log, cm, secrets, events, service, lost, queued, counters>>
  /\ \E want \in Selections(job.prom.spec, Cached("rule"), Cached("ns")) :
       \/ /\ SameRules(want)
          /\ job' = [job EXCEPT !.step = "config", !.names = DOMAIN cm] /\ UNCHANGED delayed
       \/ /\ ~SameRules(want)
          /\ IF TooLarge(want) THEN Retry
             ELSE /\ job' = [job EXCEPT !.step = "maps", !.want = want, !.doomed = DOMAIN cm]
                  /\ UNCHANGED delayed

(* The ConfigMaps that were listed are deleted one by one ...              *)
DeleteConfigMap ==
  /\ job.step = "maps" /\ job.doomed # {}
  /\ LET n == Min(job.doomed) IN
     \/ /\ n \in DOMAIN cm
        /\ SetConfigMaps(Without(cm, n))
        /\ job' = [job EXCEPT !.doomed = @ \ {n}] /\ UNCHANGED delayed
     \/ n \notin DOMAIN cm /\ Retry /\ UNCHANGED <<cm, events>>
  /\ UNCHANGED <<log, secrets, service, lost, queued, counters>>

(* ... and the new ones created one by one.                                *)
CreateConfigMap ==
  /\ job.step = "maps" /\ job.doomed = {}
  /\ UNCHANGED <<log, secrets, service, lost, queued, counters>>
  /\ LET new == MakeRulesConfigMaps(job.want)
         n == job.next
     IN  IF n \in DOMAIN cm THEN Retry /\ UNCHANGED <<cm, events>>
         ELSE /\ SetConfigMaps(With(cm, n, [owner |-> job.prom.uid, data |-> new[n + 1]]))
              /\ job' = IF n + 1 < Len(new) THEN [job EXCEPT !.next = n + 1]
                        ELSE [job EXCEPT !.step = "config", !.want = {}, !.next = 0, !.names = 0 .. n]
              /\ UNCHANGED delayed

(* createOrUpdateConfigurationSecret, until it has the current Secret.  A  *)
(* Get that fails with another error than NotFound is taken for a Secret   *)
(* without configuration.                                                  *)
HasConfig(new) == conf # None /\ conf.config = new
GetFails(new) ==
  /\ Fault
  /\ job' = [job EXCEPT !.step = "write", !.conf = new, !.found = TRUE]
Configure ==
  /\ job.step = "config"
  /\ LET mon == SelectedMonitor(job.prom.spec, Cached("smon"), Cached("ns"))
         new == Config(mon, auth, job.names)
     IN  \/ /\ ~job.prom.spec.managed
            /\ Jump("secret") /\ UNCHANGED <<delayed, faults>>
         \/ /\ job.prom.spec.managed /\ mon # 0 /\ auth = 0
            /\ Retry /\ UNCHANGED faults
         \/ /\ job.prom.spec.managed /\ (mon = 0 \/ auth # 0)
            /\ \/ /\ HasConfig(new)
                  /\ Jump("secret") /\ UNCHANGED faults
               \/ /\ ~HasConfig(new)
                  /\ job' = [job EXCEPT !.step = "write", !.conf = new, !.found = conf # None]
                  /\ UNCHANGED faults
               \/ GetFails(new)
            /\ UNCHANGED delayed
  /\ UNCHANGED <<log, cm, secrets, events, service, lost, queued, changes>>

WriteConfiguration ==
  /\ job.step = "write"
  /\ \/ /\ job.found = (conf # None)
        /\ SetConf([owner |-> job.prom.uid, config |-> job.conf])
        /\ job' = [job EXCEPT !.step = "secret", !.conf = None, !.found = FALSE]
        /\ UNCHANGED delayed
     \/ job.found # (conf # None) /\ Retry /\ UNCHANGED <<conf, events>>
  /\ UNCHANGED <<log, cm, auth, service, lost, queued, counters>>

(* An empty Secret, so that the pods start when the user configures them.  *)
CreateEmptySecret ==
  /\ job.step = "secret"
  /\ \/ conf = None /\ SetConf([owner |-> job.prom.uid, config |-> EmptyConfig])
     \/ conf # None /\ UNCHANGED <<conf, events>>
  /\ Jump("service")
  /\ UNCHANGED <<log, cm, auth, service, lost, queued, delayed, counters>>

(* CreateOrUpdateService, until it has the Service ...                     *)
GetService ==
  /\ job.step = "service"
  /\ job' = [job EXCEPT !.step = "put", !.owners = service]
  /\ UNCHANGED <<log, cm, secrets, events, service, lost, queued, delayed, counters>>

MergeOwners(owners, uid) == owners \cup {uid}

(* ... and its Create, or its Update with the resource version that was    *)
(* read: who writes meanwhile changes the owners, or does what is a failed *)
(* request.  An Update that finds no Service is taken for one that worked. *)
CreateOrUpdateService ==
  /\ job.step = "put"
  /\ \/ /\ service = job.owners
        /\ service' = MergeOwners(service, job.prom.uid) /\ lost' = lost \ {job.prom.uid}
     \/ /\ service = {} /\ job.owners # {}
        /\ lost' = lost \cup {job.prom.uid} /\ UNCHANGED service
  /\ job' = [job EXCEPT !.step = "sset", !.owners = {}]
  /\ UNCHANGED <<log, cm, secrets, events, queued, delayed, counters>>
ServiceConflict ==
  /\ job.step = "put" /\ service # {} /\ service # job.owners
  /\ Retry
  /\ UNCHANGED <<log, cm, secrets, events, service, lost, queued, counters>>

(* Mutant: the names of the rule ConfigMaps are not in the hash.           *)
SameHashVersion(old, new) == old.hash.rv = new.hash.rv

SameHash(old, new) == old.hash = new.hash

(* The rest of sync.  The cached StatefulSet decides what to do, the one   *)
(* of the API server whether it works.  An update of what may not change   *)
(* is refused, and the StatefulSet deleted with its pods.                  *)
ApplyStatefulSet ==
  /\ job.step = "sset"
  /\ LET old == Cached("sset")
         live == Live("sset")
         new == MakeStatefulSet(job.prom, job.names)
     IN  \/ old = None /\ live = None /\ Write("sset", new) /\ Done
         \/ old = None /\ live # None /\ UNCHANGED log /\ Retry
         \/ old # None /\ SameHash(old, new) /\ UNCHANGED log /\ Done
         \/ old # None /\ ~SameHash(old, new) /\ live = None /\ UNCHANGED log /\ Retry
         \/ /\ old # None /\ ~SameHash(old, new) /\ live # None
            /\ \/ live.shape = new.shape /\ Write("sset", [new EXCEPT !.deleting = live.deleting])
               \/ live.shape # new.shape /\ Write("sset", [live EXCEPT !.deleting = TRUE])
            /\ Done
  /\ UNCHANGED <<cm, secrets, events, service, lost, queued, counters>>

(* A request of sync fails.                                                *)
Fail ==
  /\ job.step # "idle" /\ Fault
  /\ Retry
  /\ UNCHANGED <<log, cm, secrets, events, service, lost, queued, changes>>

Requeue ==
  /\ delayed
  /\ delayed' = FALSE /\ queued' = TRUE
  /\ UNCHANGED <<log, cm, secrets, events, service, lost, job, counters>>

Worker ==
  \/ Begin \/ ListRules \/ DeleteConfigMap \/ CreateConfigMap \/ Configure
  \/ WriteConfiguration \/ CreateEmptySecret
  \/ GetService \/ CreateOrUpdateService \/ ServiceConflict \/ ApplyStatefulSet

(* The operator dies and starts again: every informer lists its objects,   *)
(* and the handlers added after that see each of them as new.              *)
Restart ==
  /\ Fault
  /\ log' = [k \in Kinds |-> <<Live(k)>>]
  /\ events' = {}
  /\ queued' = (Live("prom") # None)
  /\ delayed' = FALSE /\ job' = NoJob
  /\ UNCHANGED <<cm, secrets, service, lost, changes>>

-----------------------------------------------------------------------------
(* The environment.                                                        *)

Change ==
  /\ changes + faults < MaxChanges
  /\ changes' = changes + 1
  /\ UNCHANGED <<queued, delayed, job, faults>>
ChangeObject(k, s) == s # Live(k) /\ Write(k, s) /\ Change /\ UNCHANGED <<cm, secrets, events, service, lost>>

(* A user creates, changes or deletes the Prometheus.                      *)
ChangePrometheus ==
  LET p == Live("prom")
      rv == changes + 1
  IN  \/ p = None /\ \E s \in Specs : ChangeObject("prom", [uid |-> rv, rv |-> rv, spec |-> s])
      \/ p # None /\ \E s \in Specs \ {p.spec} : ChangeObject("prom", [p EXCEPT !.rv = rv, !.spec = s])
      \/ p # None /\ ChangeObject("prom", None)

ChangeRule == \E r \in Rules, v \in Versions \cup {0} : ChangeObject("rule", [Live("rule") EXCEPT ![r] = v])
ChangeMonitor == \E m \in {0, 1} : ChangeObject("smon", m)
ChangeNamespace ==
  \E n \in Namespaces \ {Own}, l \in {"absent", "plain", "labelled"} :
    ChangeObject("ns", [Live("ns") EXCEPT ![n] = l])
ChangeSecret ==
  /\ \E v \in (Versions \cup {0}) \ {auth} : auth' = v
  /\ events' = events \cup {"auth"}
  /\ Change /\ UNCHANGED <<log, cm, conf, service, lost>>

(* Somebody deletes what the operator made, or edits what may be edited in *)
(* the StatefulSet and leaves its hash.  No informer watches the Service.  *)
Tamper ==
  \/ /\ \E n \in DOMAIN cm : SetConfigMaps(Without(cm, n))
     /\ Change /\ UNCHANGED <<log, secrets, service, lost>>
  \/ conf # None /\ SetConf(None) /\ Change /\ UNCHANGED <<log, cm, auth, service, lost>>
  \/ ChangeObject("sset", None)
  \/ Live("sset") # None /\ ChangeObject("sset", [Live("sset") EXCEPT !.edited = TRUE])
  \/ /\ service # {} /\ service' = {} /\ lost' = lost \cup service
     /\ Change /\ UNCHANGED <<log, cm, secrets, events>>

(* The worker synchronizes another Prometheus of this namespace, which has *)
(* the same governing Service, and which goes again (no uid is 0).         *)
SyncOther ==
  /\ job = NoJob
  /\ 0 \notin service /\ service' = MergeOwners(service, 0)
  /\ Change /\ UNCHANGED <<log, cm, secrets, events, lost>>

(* Objects whose owners are all gone are collected, and a StatefulSet      *)
(* deleted in the foreground goes once its pods have.                      *)
Dead(uid) == uid \notin {p.uid : p \in {Live("prom")} \ {None}}
Finished(s) == s # None /\ TRUE \in {s.deleting, Dead(s.owner)}
Collect ==
  /\ \/ /\ \E n \in DOMAIN cm : Dead(cm[n].owner) /\ SetConfigMaps(Without(cm, n))
        /\ UNCHANGED <<log, secrets, service, lost>>
     \/ /\ conf # None /\ Dead(conf.owner) /\ SetConf(None)
        /\ UNCHANGED <<log, cm, auth, service, lost>>
     \/ /\ Finished(Live("sset")) /\ Write("sset", None)
        /\ UNCHANGED <<cm, secrets, events, service, lost>>
     \/ /\ \E u \in service : Dead(u)
        /\ service' = {u \in service : ~Dead(u)}
        /\ UNCHANGED <<log, cm, secrets, events, lost>>
  /\ UNCHANGED <<queued, delayed, job, counters>>

Undisturbed ==
  \/ Worker \/ Fail \/ Requeue \/ Restart \/ Collect
  \/ \E k \in Kinds : Deliver(k)
  \/ \E e \in {"cm", "conf", "auth"} : DeliverEvents(e) \/ DeliverSome(e)
  \/ ChangePrometheus \/ ChangeRule \/ ChangeMonitor \/ ChangeSecret \/ SyncOther
Next == Undisturbed \/ Tamper

Spec == Init /\ [][Next]_vars

(* With namespaces that come, go and change their labels, for which        *)
(* addHandlers has no handler: QuietIsRight does not hold of this.         *)
SpecWithNamespaces == Init /\ [][Next \/ ChangeNamespace]_vars

(* With users who leave alone what the operator made.                      *)
SpecUndisturbed == Init /\ [][Undisturbed]_vars

(* The worker, the watches, the rate limiter and the collector go on.      *)
FairSpec ==
  /\ Spec
  /\ WF_vars(Worker) /\ WF_vars(Requeue \/ Collect)
  /\ \A k \in Kinds : WF_vars(Deliver(k))
  /\ \A e \in {"cm", "conf", "auth"} : WF_vars(DeliverEvents(e))

-----------------------------------------------------------------------------
(* What the operator promises.                                             *)

States(k) ==
  CASE k = "prom" -> {None} \cup Prometheus
    [] k = "rule" -> [Rules -> Versions \cup {0}]
    [] k = "smon" -> {0, 1}
    [] k = "ns" -> [Namespaces -> {"absent", "plain", "labelled"}]
    [] k = "sset" -> {None} \cup StatefulSet
Steps == {"idle", "rules", "maps", "config", "write", "secret", "service", "put", "sset"}
Job ==
  [step : Steps, prom : {None} \cup Prometheus, want : SUBSET (Rules \X Versions), doomed : SUBSET Nat,
   next : Nat, names : SUBSET Nat, conf : {None} \cup Configuration, found : BOOLEAN, owners : SUBSET Nat]

(* Every variable has its type, and the worker remembers nothing between   *)
(* two syncs.                                                              *)
TypeOK ==
  /\ DOMAIN log = Kinds
  /\ \A k \in Kinds : log[k] \in Seq(States(k)) /\ Len(log[k]) \in 1 .. MaxEvents + 1
  /\ DOMAIN cm \subseteq Nat /\ conf \in {None} \cup Secret
  /\ auth \in Versions \cup {0} /\ events \subseteq {"cm", "conf", "auth"}
  /\ service \subseteq 0 .. changes /\ lost \subseteq 0 .. changes
  /\ queued \in BOOLEAN /\ delayed \in BOOLEAN /\ job \in Job
  /\ (job.step = "idle" <=> job = NoJob) /\ (job.prom = None <=> job = NoJob)
  /\ (job.step = "write" => job.conf \in Configuration)
  /\ changes \in 1 .. MaxChanges /\ faults \in 0 .. MaxChanges /\ changes + faults <= MaxChanges

(* Nothing is left to do: no event, no key, no sync and no garbage.        *)
Quiet ==
  /\ job = NoJob /\ ~queued /\ ~delayed /\ events = {}
  /\ \A k \in Kinds : Len(log[k]) = 1
  /\ \A n \in DOMAIN cm : ~Dead(cm[n].owner)
  /\ conf # None => ~Dead(conf.owner)
  /\ ~Finished(Live("sset"))
  /\ \A u \in service : ~Dead(u)

(* A StatefulSet before somebody edited it in place.                       *)
Unedited(s) == [s EXCEPT !.edited = FALSE]

(* What the API server holds is what the Prometheus, its rules and its     *)
(* monitors ask for.                                                       *)
Desired ==
  LET p == Live("prom") IN
  IF p = None THEN DOMAIN cm = {} /\ conf = None /\ Live("sset") = None /\ service = {}
  ELSE \/ p.spec.paused
       \/ /\ DOMAIN cm # {}
          /\ Data(cm) \in Selections(p.spec, Live("rule"), Live("ns"))
          /\ conf # None
          /\ p.spec.managed =>
               conf.config = Config(SelectedMonitor(p.spec, Live("smon"), Live("ns")), auth, DOMAIN cm)
          /\ Live("sset") # None
          /\ Unedited(Live("sset")) = MakeStatefulSet(p, DOMAIN cm)
          /\ p.uid \notin lost => service = {p.uid}

(* Whenever nothing is left to do, what the operator made is right: no     *)
(* event, stale cache, failed request or crash leaves it wrong for good.   *)
(* Excepted is what nothing tells the operator: that the Service has been  *)
(* deleted, and edits of the StatefulSet that leave its hash.              *)
QuietIsRight == Quiet => Desired

(* "Create governing service if it doesn't exist" (sync): so it exists     *)
(* when nothing is left to do.  This fails, also in SpecUndisturbed, when  *)
(* the Service is collected between CreateOrUpdateService's two requests.  *)
GoverningServiceExists ==
  Quiet /\ Live("prom") # None => Live("prom").spec.paused \/ service # {}

(* A resource version tells the state of the Prometheus, and the hash of a *)
(* StatefulSet what it was made from.                                      *)
Seen == (Range(log["prom"]) \cup {job.prom}) \ {None}
VersionsFit ==
  /\ \A p \in Seen : p.uid \in 1 .. p.rv /\ p.rv <= changes
  /\ \A p, q \in Seen : p.rv = q.rv => p = q
  /\ \A s \in Range(log["sset"]) \ {None} :
       /\ s.owner = s.hash.uid /\ s.hash.rv <= changes
       /\ \A p \in Seen : p.rv = s.hash.rv => p.uid = s.hash.uid /\ p.spec.shape = s.shape

(* What the informers know is made, but for what an event will tell; a     *)
(* sync has come to some of it.                                            *)
RulesFit(p) ==
  \/ "cm" \in events
  \/ /\ DOMAIN cm # {} /\ Data(cm) \in Selections(p.spec, Cached("rule"), Cached("ns"))
     /\ job # NoJob => job.names = DOMAIN cm
ConfigFits(p) ==
  \/ ~p.spec.managed \/ "cm" \in events \/ "conf" \in events
  \/ "auth" \in events /\ MonitorNs \in SelectNamespaces(p.spec, Cached("ns"))
  \/ HasConfig(Config(SelectedMonitor(p.spec, Cached("smon"), Cached("ns")), auth, DOMAIN cm))
SecretFits == "conf" \in events \/ conf # None
ServiceFits(p) == p.uid \in service \cup lost \/ Dead(p.uid)
StatefulSetFits(p) ==
  \/ "cm" \in events \/ Len(log["sset"]) > 1
  \/ Live("sset") # None /\ (Live("sset").deleting \/ Live("sset").hash = InputHash(p, DOMAIN cm))

(* Unless the key is queued again, the Prometheus that the informer knows  *)
(* is the one being synchronized, as far as sync has come.                 *)
NothingForgotten ==
  LET p == Cached("prom") IN
  ~queued /\ ~delayed /\ p # None =>
    /\ job # NoJob => job.prom = p
    /\ ~p.spec.paused =>
         /\ job.step \notin {"rules", "maps"} => RulesFit(p)
         /\ job.step \notin {"rules", "maps", "config", "write"} => ConfigFits(p)
         /\ job.step \in {"service", "put", "sset", "idle"} => SecretFits
         /\ job.step \in {"sset", "idle"} => ServiceFits(p)
         /\ job.step = "idle" => StatefulSetFits(p)

IInv == TypeOK /\ log["ns"] = <<FirstLabels>> /\ VersionsFit /\ NothingForgotten

(* The inputs of the Prometheus cannot be turned into a configuration.     *)
Broken ==
  LET p == Live("prom") IN
  /\ p # None
  /\ \/ /\ p.spec.managed /\ SelectedMonitor(p.spec, Live("smon"), Live("ns")) # 0
        /\ auth = 0
     \/ \E want \in Selections(p.spec, Live("rule"), Live("ns")) : TooLarge(want)

(* When users stop, the operator comes to rest with everything right: its  *)
(* own writes, which trigger it again, do not keep it going.               *)
Settles == <>[](Quiet \/ Broken)

=============================================================================
