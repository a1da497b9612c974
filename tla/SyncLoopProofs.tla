--------------------------- MODULE SyncLoopProofs ---------------------------
(***************************************************************************)
(* Proofs about SyncLoop for every value of its constants: its type        *)
(* invariant, and that no change of a cluster object is lost between the   *)
(* informers' stores and the running configuration.                        *)
(***************************************************************************)
EXTENDS SyncLoop, TLAPS

(* Every part is read, and the first read is that of the first part. *)
LEMMA AllPartsRead ==
    /\ Len(ReadOrder) = 6
    /\ \A i \in 1 .. 6 : ReadOrder[i] \in Parts
    /\ \A p \in Parts : \E i \in 1 .. 6 : ReadOrder[i] = p
<1>1. /\ Len(ReadOrder) = 6
      /\ ReadOrder[1] = "servers" /\ ReadOrder[2] = "backends"
      /\ ReadOrder[3] = "certs" /\ ReadOrder[4] = "streams"
      /\ ReadOrder[5] = "config" /\ ReadOrder[6] = "general"
  BY DEF ReadOrder
<1>2. 1 \in 1 .. 6 /\ 2 \in 1 .. 6 /\ 3 \in 1 .. 6 /\ 4 \in 1 .. 6
      /\ 5 \in 1 .. 6 /\ 6 \in 1 .. 6
  OBVIOUS
<1>3. \A i \in 1 .. 6 : i = 1 \/ i = 2 \/ i = 3 \/ i = 4 \/ i = 5 \/ i = 6
  OBVIOUS
<1>4. \A i \in 1 .. 6 : ReadOrder[i] \in Parts
  BY <1>1, <1>3 DEF Parts
<1>5. ASSUME NEW p \in Parts
      PROVE  \E i \in 1 .. 6 : ReadOrder[i] = p
  BY <1>1, <1>2 DEF Parts
<1> QED
  BY <1>1, <1>4, <1>5

(* What configureDynamically sends are parts, at most four of them. *)
LEMMA PostOrderType ==
    /\ Len(PostOrder) \in 3 .. 4
    /\ \A i \in 1 .. Len(PostOrder) : PostOrder[i] \in Parts
<1>0. DynamicCertificatesEnabled \in BOOLEAN
  BY SyncLoopAssumption
<1>1. CASE DynamicCertificatesEnabled
  <2>1. PostOrder = <<"backends", "streams", "general", "certs">>
    BY <1>1 DEF PostOrder
  <2> QED
    BY <2>1 DEF Parts
<1>2. CASE ~DynamicCertificatesEnabled
  <2>1. PostOrder = <<"backends", "streams", "general">>
    BY <1>2 DEF PostOrder
  <2> QED
    BY <2>1 DEF Parts
<1> QED
  BY <1>1, <1>2

(* What the template renders is a configuration and a template.            *)
LEMMA RenderedType ==
    ASSUME TypeOK
    PROVE  Rendered \in [conf : Config, tmpl : Values \cup {NoValue}]
<1>1. nginx.conf \in Config /\ store \in [Parts -> Values] /\ pcfg \in Config
      /\ tmpl \in Values
  BY DEF TypeOK, TypeCluster, TypeWorker, TypeApplied
<1>2. ASSUME NEW p \in Parts
      PROVE  (CASE p \in DynamicParts -> nginx.conf[p]
                [] p = "config" -> store["config"]
                [] OTHER -> pcfg[p]) \in Values \cup {NoValue}
  <2>1. nginx.conf[p] \in Values \cup {NoValue} /\ pcfg[p] \in Values \cup {NoValue}
    BY <1>1 DEF Config
  <2>2. store["config"] \in Values
    BY <1>1 DEF Parts
  <2> QED
    BY <2>1, <2>2
<1> QED
  BY <1>1, <1>2 DEF Rendered, Config

-----------------------------------------------------------------------------
(* Adding an element keeps the types of the queue. *)
LEMMA AddType ==
    ASSUME TypeQueue, NEW e \in Element, Add(e)
    PROVE  queue' \in Seq(Element) /\ dirty' \subseteq Element
<1>1. queue \in Seq(Element) /\ dirty \subseteq Element
  BY DEF TypeQueue
<1>2. Append(queue, e) \in Seq(Element) /\ dirty \cup {e} \subseteq Element
  BY <1>1
<1>3. \/ queue' = queue /\ dirty' = dirty
      \/ queue' \in {queue, Append(queue, e)} /\ dirty' = dirty \cup {e}
  BY Zenon DEF Add
<1> QED
  BY <1>1, <1>2, <1>3

(* The end of an iteration resets the worker and keeps the queue's type. *)
LEMMA DoneType ==
    ASSUME TypeQueue, TypeWorker, pc \notin {"get", "stopped"}, Done
    PROVE  TypeWorker' /\ queue' \in Seq(Element)
<1>1. cur \in Element
  BY DEF TypeWorker
<1>2. queue' \in Seq(Element)
  BY <1>1 DEF TypeQueue, Done
<1>3. EmptyConfig \in Config
  BY DEF EmptyConfig, Config
<1>4. /\ pc' = "get" /\ cur' = NoElement /\ ts' = 0 /\ idx' = 1 /\ attempts' = 0
      /\ pcfg' = EmptyConfig
  BY DEF Done
<1>5. TypeWorker'
  BY <1>3, <1>4, SyncLoopAssumption DEF TypeWorker, PCs
<1> QED
  BY <1>2, <1>5

(* Elements built from the present time. *)
LEMMA NewElementType ==
    ASSUME clock \in Nat, NEW s \in BOOLEAN,
           NEW k \in {"object", "initial-sync", "configmap-change",
                      "template-change", "file-change"}
    PROVE  /\ NewElement(k, s) \in Element
           /\ NewElement(k, s).Timestamp >= clock
  BY SyncLoopAssumption DEF NewElement, Element

(* What an action leaves alone keeps its type. *)
LEMMA SameType ==
    /\ TypeCluster /\ UNCHANGED cluster => TypeCluster'
    /\ TypeEvents /\ UNCHANGED events => TypeEvents'
    /\ TypeQueue /\ UNCHANGED <<queue, dirty, delayed, clock>> => TypeQueue'
    /\ TypeFlags /\ UNCHANGED <<shutDown, stopping, partial>> => TypeFlags'
    /\ TypeWorker /\ UNCHANGED <<pc, local>> => TypeWorker'
    /\ TypeApplied /\ UNCHANGED <<lastSync, running, nginx, failures>> => TypeApplied'
<1>1. TypeCluster /\ UNCHANGED cluster => TypeCluster'
  BY DEF TypeCluster, cluster
<1>2. TypeEvents /\ UNCHANGED events => TypeEvents'
  BY DEF TypeEvents, events
<1>3. TypeQueue /\ UNCHANGED <<queue, dirty, delayed, clock>> => TypeQueue'
  BY DEF TypeQueue
<1>4. TypeFlags /\ UNCHANGED <<shutDown, stopping, partial>> => TypeFlags'
  BY Zenon DEF TypeFlags
<1>5. TypeWorker /\ UNCHANGED <<pc, local>> => TypeWorker'
  BY DEF TypeWorker, local, PostOrder
<1>6. TypeApplied /\ UNCHANGED <<lastSync, running, nginx, failures>> => TypeApplied'
  BY DEF TypeApplied
<1> QED
  BY <1>1, <1>2, <1>3, <1>4, <1>5, <1>6

(* The types hold initially.                                               *)
LEMMA TypeInit == Init => TypeOK
<1> SUFFICES ASSUME Init PROVE TypeOK
  OBVIOUS
<1>1. InitialElement \in Element
  BY SyncLoopAssumption DEF InitialElement, Element
<1>2. EmptyConfig \in Config
  BY DEF EmptyConfig, Config
<1>3. TypeCluster
  BY DEF Init, TypeCluster
<1>4. TypeEvents
  BY SyncLoopAssumption DEF Init, TypeEvents
<1>5. TypeQueue
  BY <1>1 DEF Init, TypeQueue
<1>6. TypeFlags
  BY Zenon DEF Init, TypeFlags
<1>7. TypeWorker
  BY <1>2, SyncLoopAssumption DEF Init, TypeWorker, PCs
<1>8. TypeApplied
  BY <1>2 DEF Init, TypeApplied
<1> QED
  BY <1>3, <1>4, <1>5, <1>6, <1>7, <1>8 DEF TypeOK

(* Every step preserves the types.                                         *)
LEMMA TypeNext == TypeOK /\ [Next]_vars => TypeOK'
<1> SUFFICES ASSUME TypeOK, [Next]_vars PROVE TypeOK'
  OBVIOUS
<1>0. TypeCluster /\ TypeEvents /\ TypeQueue /\ TypeFlags /\ TypeWorker /\ TypeApplied
  BY DEF TypeOK
<1>1. CASE Tick
  <2>1. TypeQueue'
    BY <1>1, <1>0 DEF Tick, TypeQueue, wq
  <2> QED
    BY <1>1, <1>0, <2>1, SameType
    DEF Tick, TypeOK, wq, applied, events
<1>2. CASE \E s \in Sources, p \in Parts, v \in Values : Change(s, p, v)
  <2>1. TypeCluster'
    BY <1>2, <1>0 DEF Change, TypeCluster, TypeQueue
  <2>2. TypeEvents'
    BY <1>2, <1>0 DEF Change, TypeEvents, EventKinds, KindOf
  <2> QED
    BY <1>2, <1>0, <2>1, <2>2, SameType
    DEF Change, TypeOK, wq, applied, events
<1>3. CASE \E v \in Values : TemplateChange(v)
  <2>1. TypeCluster'
    BY <1>3, <1>0 DEF TemplateChange, TypeCluster
  <2>2. TypeQueue'
    BY <1>3, <1>0, AddType, NewElementType DEF TemplateChange, TypeQueue
  <2> QED
    BY <1>3, <1>0, <2>1, <2>2, SameType
    DEF TemplateChange, TypeOK, wq, applied, events
<1>4. CASE FileChange
  <2>1. TypeCluster'
    BY <1>4, <1>0 DEF FileChange, TypeCluster
  <2>2. TypeQueue'
    BY <1>4, <1>0, AddType, NewElementType DEF FileChange, TypeQueue
  <2> QED
    BY <1>4, <1>0, <2>1, <2>2, SameType
    DEF FileChange, TypeOK, wq, applied, events
<1>5. CASE \E k \in EventKinds : Notify(k)
  <2>1. PICK k \in EventKinds : Notify(k)
    BY <1>5
  <2> DEFINE rest == IF Len(updateCh) = RingSize THEN Tail(updateCh) ELSE updateCh
  <2>2. updateCh \in Seq(EventKinds) /\ Len(updateCh) <= RingSize
    BY <1>0 DEF TypeEvents
  <2>3. rest \in Seq(EventKinds) /\ Len(rest) + 1 <= RingSize
    <3>1. CASE Len(updateCh) = RingSize
      <4>1. updateCh # <<>>
        BY <2>2, <3>1, SyncLoopAssumption
      <4>2. Tail(updateCh) \in Seq(EventKinds) /\ Len(Tail(updateCh)) = Len(updateCh) - 1
        BY <2>2, <4>1
      <4> QED
        BY <2>2, <3>1, <4>2, SyncLoopAssumption
    <3>2. CASE Len(updateCh) # RingSize
      BY <2>2, <3>2, SyncLoopAssumption
    <3> QED
      BY <3>1, <3>2
  <2>4. Append(rest, k) \in Seq(EventKinds) /\ Len(Append(rest, k)) <= RingSize
    BY <2>3
  <2>5. updateCh' = Append(rest, k)
    BY <2>1 DEF Notify
  <2>6. unnotified' \in [EventKinds -> Nat]
    BY <2>1, <1>0 DEF Notify, TypeEvents
  <2>7. updateCh' \in Seq(EventKinds) /\ Len(updateCh') <= RingSize
    BY Zenon, <2>4, <2>5
  <2>8. hand' \in Element \cup {NoElement}
    BY <2>1, <1>0 DEF Notify, TypeEvents
  <2>9. TypeEvents'
    BY <2>6, <2>7, <2>8 DEF TypeEvents
  <2> QED
    BY <2>1, <1>0, <2>9, SameType DEF Notify, TypeOK, wq, applied
<1>6. CASE ReceiveEvent
  <2>1. /\ updateCh \in Seq(EventKinds) /\ updateCh # <<>> /\ updateCh' = Tail(updateCh)
        /\ Len(updateCh) <= RingSize /\ RingSize \in Nat
    BY <1>6, <1>0, SyncLoopAssumption DEF ReceiveEvent, TypeEvents
  <2>2. updateCh' \in Seq(EventKinds) /\ Len(updateCh') <= RingSize
    BY <2>1
  <2>3. /\ NewElement("configmap-change", FALSE) \in Element
        /\ NewElement("object", TRUE) \in Element
    BY <1>0, NewElementType DEF TypeQueue
  <2>4. hand' \in {NoElement, NewElement("configmap-change", FALSE),
                  NewElement("object", TRUE)}
    BY Zenon, <1>6 DEF ReceiveEvent
  <2>5. TypeEvents'
    BY <1>6, <1>0, <2>2, <2>3, <2>4 DEF ReceiveEvent, TypeEvents
  <2> QED
    BY <1>6, <1>0, <2>5, SameType DEF ReceiveEvent, TypeOK, wq, applied
<1>7. CASE EnqueueEvent
  <2>1. TypeEvents'
    BY <1>7, <1>0 DEF EnqueueEvent, TypeEvents
  <2>2. TypeQueue'
    BY <1>7, <1>0, AddType DEF EnqueueEvent, TypeQueue, TypeEvents
  <2> QED
    BY <1>7, <1>0, <2>1, <2>2, SameType
    DEF EnqueueEvent, TypeOK, wq, applied, events
<1>8. CASE \E e \in delayed : DelayedReady(e)
  <2>1. TypeQueue'
    BY <1>8, <1>0, AddType DEF DelayedReady, TypeQueue
  <2> QED
    BY <1>8, <1>0, <2>1, SameType
    DEF DelayedReady, TypeOK, wq, applied, events
<1>9. CASE Stop
  <2>1. TypeFlags'
    BY Zenon, <1>9, <1>0 DEF Stop, TypeFlags, wq, applied
  <2> QED
    BY <1>9, <1>0, <2>1, SameType
    DEF Stop, TypeOK, wq, applied, events
<1>10. CASE Shutdown
  <2>1. TypeFlags'
    BY Zenon, <1>10, <1>0 DEF Shutdown, TypeFlags, applied
  <2>2. TypeQueue'
    BY <1>10, <1>0 DEF Shutdown, TypeQueue
  <2> QED
    BY <1>10, <1>0, <2>1, <2>2, SameType
    DEF Shutdown, TypeOK, wq, applied, events
<1>11. CASE Get
  <2>1. TypeQueue'
    BY <1>11, <1>0 DEF Get, TypeQueue
  <2>2. TypeWorker'
    BY <1>11, <1>0, SyncLoopAssumption DEF Get, TypeQueue, TypeWorker, PCs
  <2> QED
    BY <1>11, <1>0, <2>1, <2>2, SameType
    DEF Get, TypeOK, wq, applied, events
<1>12. CASE Quit
  <2>1. TypeWorker'
    BY <1>12, <1>0 DEF Quit, TypeWorker, PCs, local
  <2> QED
    BY <1>12, <1>0, <2>1, SameType
    DEF Quit, TypeOK, wq, applied, events
<1>13. CASE Skip
  <2>1. TypeWorker'
    BY <1>13, <1>0, DoneType DEF Skip
  <2>2. TypeQueue'
    BY <1>13, <1>0, DoneType DEF Skip, TypeQueue
  <2> QED
    BY <1>13, <1>0, <2>1, <2>2, SameType
    DEF Skip, TypeOK, wq, applied, events
<1>14. CASE StartSync
  <2>1. TypeWorker'
    BY <1>14, <1>0 DEF StartSync, TypeWorker, TypeQueue, PCs
  <2> QED
    BY <1>14, <1>0, <2>1, SameType
    DEF StartSync, TypeOK, wq, applied, events
<1>15. CASE CheckShutdown
  <2>1. pc = "check"
    BY <1>15 DEF CheckShutdown
  <2>2. CASE SyncSucceeds
    <3>1. TypeWorker' /\ TypeQueue'
      BY <1>15, <1>0, <2>1, <2>2, DoneType DEF CheckShutdown, SyncSucceeds, TypeQueue
    <3>2. TypeApplied'
      BY <1>15, <1>0, <2>2 DEF CheckShutdown, SyncSucceeds, TypeApplied, TypeWorker
    <3> QED
      BY <1>15, <1>0, <3>1, <3>2, SameType DEF CheckShutdown, TypeOK
  <2>3. CASE pc' = "read" /\ UNCHANGED <<queue, dirty, delayed, local, lastSync>>
    <3>1. TypeWorker'
      BY <1>0, <2>1, <2>3 DEF TypeWorker, PCs, local
    <3> QED
      BY <1>15, <1>0, <2>3, <3>1, SameType DEF CheckShutdown, TypeOK
  <2> QED
    BY <1>15, <2>2, <2>3 DEF CheckShutdown
<1>16. CASE ReadPart
  <2>1. ReadOrder[idx] \in Parts /\ Len(ReadOrder) = 6
    BY <1>0, AllPartsRead DEF TypeWorker
  <2>2. store[ReadOrder[idx]] \in Values
    BY <1>0, <2>1 DEF TypeCluster
  <2>3. pcfg' \in Config
    BY <1>16, <1>0, <2>1, <2>2 DEF ReadPart, TypeWorker, Config
  <2>4. TypeWorker'
    BY <1>16, <1>0, <2>1, <2>3 DEF ReadPart, TypeWorker, PCs
  <2> QED
    BY <1>16, <1>0, <2>4, SameType DEF ReadPart, TypeOK, wq, applied
<1>17. CASE Compare
  <2>1. pc = "compare"
    BY <1>17 DEF Compare
  <2>2. CASE SyncSucceeds
    <3>1. TypeWorker' /\ TypeQueue'
      BY <1>17, <1>0, <2>1, <2>2, DoneType DEF Compare, SyncSucceeds, TypeQueue
    <3>2. TypeApplied'
      BY <1>17, <1>0, <2>2 DEF Compare, SyncSucceeds, TypeApplied, TypeWorker
    <3> QED
      BY <1>17, <1>0, <3>1, <3>2, SameType DEF Compare, TypeOK
  <2>3. CASE /\ pc' \in {"post", "reload"} /\ attempts' \in {0, 1}
             /\ UNCHANGED <<queue, dirty, delayed, cur, ts, idx, pcfg, lastSync>>
    <3>1. TypeWorker'
      BY <1>0, <2>1, <2>3, PostOrderType, SyncLoopAssumption
      DEF TypeWorker, PCs
    <3> QED
      BY <1>17, <1>0, <2>3, <3>1, SameType DEF Compare, TypeOK
  <2> QED
    BY Zenon, <1>17, <2>2, <2>3 DEF Compare
<1>18. CASE Reload
  <2>1. pc = "reload"
    BY <1>18 DEF Reload
  <2>2. CASE /\ nginx' = Rendered /\ pc' = "post" /\ attempts' = 1
             /\ UNCHANGED <<queue, dirty, delayed, cur, ts, idx, pcfg, lastSync,
                            failures>>
    <3>1. TypeWorker'
      BY <1>0, <2>1, <2>2, PostOrderType, SyncLoopAssumption DEF TypeWorker, PCs
    <3>2. TypeApplied'
      BY <1>18, <1>0, <2>2, RenderedType DEF Reload, TypeApplied
    <3> QED
      BY <1>18, <1>0, <2>2, <3>1, <3>2, SameType DEF Reload, TypeOK
  <2>3. CASE SyncFails /\ UNCHANGED nginx
    <3>1. TypeWorker' /\ queue' \in Seq(Element)
      BY <1>0, <2>1, <2>3, DoneType DEF SyncFails
    <3>2. TypeQueue'
      BY <1>18, <1>0, <2>1, <2>3, <3>1
      DEF Reload, SyncFails, TypeQueue, TypeWorker, Element
    <3>3. TypeApplied'
      BY <1>18, <1>0, <2>3 DEF Reload, SyncFails, TypeApplied
    <3> QED
      BY <1>18, <1>0, <3>1, <3>2, <3>3, SameType DEF Reload, TypeOK
  <2> QED
    BY <1>18, <2>2, <2>3 DEF Reload
<1>19. CASE Post
  <2>1. pc = "post" /\ PostOrder[idx] \in Parts /\ Len(PostOrder) \in 3 .. 4
    BY <1>19, <1>0, PostOrderType DEF Post, TypeWorker
  <2>2. pcfg[PostOrder[idx]] \in Values \cup {NoValue}
    BY <1>0, <2>1 DEF TypeWorker, Config
  <2>3. nginx' \in [conf : Config, tmpl : Values \cup {NoValue}]
    BY <1>19, <1>0, <2>1, <2>2 DEF Post, TypeApplied, Config
  <2>4. CASE /\ idx < Len(PostOrder) /\ idx' = idx + 1
             /\ UNCHANGED <<pc, queue, dirty, delayed, cur, ts, pcfg, attempts,
                            lastSync, running>>
    <3>1. TypeWorker'
      BY <1>0, <2>1, <2>4 DEF TypeWorker, PostOrder
    <3>2. TypeApplied'
      BY <1>19, <1>0, <2>3, <2>4 DEF Post, TypeApplied
    <3> QED
      BY <1>19, <1>0, <2>4, <3>1, <3>2, SameType DEF Post, TypeOK
  <2>5. CASE running' = pcfg /\ SyncSucceeds
    <3>1. TypeWorker' /\ TypeQueue'
      BY <1>19, <1>0, <2>1, <2>5, DoneType DEF Post, SyncSucceeds, TypeQueue
    <3>2. TypeApplied'
      BY <1>19, <1>0, <2>3, <2>5 DEF Post, SyncSucceeds, TypeApplied, TypeWorker
    <3> QED
      BY <1>19, <1>0, <3>1, <3>2, SameType DEF Post, TypeOK
  <2> QED
    BY <1>19, <2>4, <2>5 DEF Post
<1>20. CASE PostFails
  <2>1. pc = "post" /\ PostOrder[idx] \in Parts
    BY <1>20, <1>0, PostOrderType DEF PostFails, TypeWorker
  <2>2. pcfg[PostOrder[idx]] \in Values \cup {NoValue}
    BY <1>0, <2>1 DEF TypeWorker, Config
  <2>3. nginx' \in [conf : Config, tmpl : Values \cup {NoValue}]
    BY <1>20, <1>0, <2>1, <2>2 DEF PostFails, TypeApplied, Config
  <2>4. SyncFails
    BY <1>20 DEF PostFails
  <2>5. TypeWorker' /\ queue' \in Seq(Element)
    BY <1>0, <2>1, <2>4, DoneType DEF SyncFails
  <2>6. TypeQueue'
    BY <1>20, <1>0, <2>1, <2>4, <2>5
    DEF PostFails, SyncFails, TypeQueue, TypeWorker, Element
  <2>7. TypeApplied'
    BY <1>20, <1>0, <2>3, <2>4 DEF PostFails, SyncFails, TypeApplied
  <2>8. TypeFlags'
    BY Zenon, <1>20, <1>0 DEF PostFails, TypeFlags
  <2> QED
    BY <1>20, <1>0, <2>5, <2>6, <2>7, <2>8, SameType DEF PostFails, TypeOK
<1>21. CASE UNCHANGED vars
  BY <1>21, <1>0, SameType DEF vars, cluster, events, local, TypeOK
<1> QED
  BY <1>1, <1>2, <1>3, <1>4, <1>5, <1>6, <1>7, <1>8, <1>9, <1>10, <1>11, <1>12,
     <1>13, <1>14, <1>15, <1>16, <1>17, <1>18, <1>19, <1>20, <1>21
  DEF Next, Worker, EventLoop

(* The controller's state is well typed at every moment: in particular the *)
(* ring never holds more than its capacity, the worker of queue.go holds   *)
(* an element exactly from Get to Done, and configureDynamically never     *)
(* runs past its last request.                                             *)
THEOREM TypeCorrect == Spec => []TypeOK
<1>1. Init => TypeOK
  BY TypeInit
<1>2. TypeOK /\ [Next]_vars => TypeOK'
  BY TypeNext
<1> QED
  BY <1>1, <1>2, PTL DEF Spec


-----------------------------------------------------------------------------
(* The safety invariant. *)

(* Steps of the event loop and of the queue's timers leave the worker's    *)
(* view of the store alone.                                                *)
LEMMA SameView ==
    ASSUME TimesPassed, ReadIsFresh, RunningIsAsNewAsLastSync,
           UNCHANGED <<store, changed, clock, stopping, pc, local, lastSync,
                       running>>
    PROVE  TimesPassed' /\ ReadIsFresh' /\ RunningIsAsNewAsLastSync'
<1>1. /\ store' = store /\ changed' = changed /\ clock' = clock /\ stopping' = stopping
      /\ pc' = pc /\ ts' = ts /\ idx' = idx /\ pcfg' = pcfg /\ lastSync' = lastSync
      /\ running' = running
  BY DEF local
<1>2. TimesPassed'
  BY <1>1 DEF TimesPassed
<1>3. ReadIsFresh'
  <2> SUFFICES ASSUME ~stopping', pc' \in Syncing, NEW q \in Parts,
                      changed'[q] < ts', ~Unread(q)'
               PROVE  pcfg'[q] = store'[q]
    BY Zenon DEF ReadIsFresh
  <2>1. ~stopping
    BY DEF Syncing
  <2>2. ~Unread(q)
    BY <1>1 DEF Unread
  <2> QED
    BY <1>1, <2>1, <2>2 DEF ReadIsFresh
<1>4. RunningIsAsNewAsLastSync'
  <2> SUFFICES ASSUME ~stopping', NEW q \in Parts, lastSync' > changed'[q]
               PROVE  running'[q] = store'[q]
    BY Zenon DEF RunningIsAsNewAsLastSync
  <2>1. ~stopping
    OBVIOUS
  <2> QED
    BY <1>1, <2>1 DEF RunningIsAsNewAsLastSync
<1> QED
  BY <1>2, <1>3, <1>4

(* An added element is due, unless the queue is shut down. *)
LEMMA AddDirty ==
    ASSUME NEW e, Add(e), ~shutDown
    PROVE  dirty' = dirty \cup {e}
<1>1. CASE e \in dirty
  BY Zenon, <1>1 DEF Add
<1>2. CASE e \notin dirty
  BY Zenon, <1>2 DEF Add
<1> QED
  BY <1>1, <1>2

(* No action of the environment, the event loop or the timers loses the    *)
(* last thing that makes a part pending.                                   *)
LEMMA SignalledOutside ==
    ASSUME IInv, TypeOK', NEW p \in Parts, ~stopping, Signalled(p),
           UNCHANGED <<changed, pc, local>>,
           \/ Tick \/ FileChange \/ EventLoop
           \/ \E v \in Values : TemplateChange(v)
           \/ \E k \in EventKinds : Notify(k)
           \/ \E e \in delayed : DelayedReady(e)
    PROVE  Signalled(p)'
<1>0. changed' = changed /\ pc' = pc /\ cur' = cur
  BY DEF local
<1>1. ~shutDown /\ changed[p] <= clock /\ clock \in Nat /\ changed[p] \in Nat
  BY DEF IInv, TimesPassed, TypeOK, TypeQueue, TypeCluster
<1>3. CASE Tick
  BY <1>0, <1>3 DEF Tick, Signalled, events, wq
<1>4. CASE FileChange \/ \E v \in Values : TemplateChange(v)
  <2>1. dirty \subseteq dirty'
    BY <1>1, <1>4, AddDirty DEF FileChange, TemplateChange
  <2>2. UNCHANGED <<unnotified, updateCh, hand, delayed>>
    BY <1>4 DEF FileChange, TemplateChange, events
  <2> QED
    BY <1>0, <2>1, <2>2 DEF Signalled
<1>5. CASE \E k \in EventKinds : Notify(k)
  <2>1. PICK k \in EventKinds : Notify(k)
    BY <1>5
  <2>2. updateCh' # <<>>
    <3> DEFINE rest == IF Len(updateCh) = RingSize THEN Tail(updateCh) ELSE updateCh
    <3>1. updateCh' = Append(rest, k)
      BY <2>1 DEF Notify
    <3>2. updateCh \in Seq(EventKinds) /\ rest \in Seq(EventKinds)
      <4>1. updateCh \in Seq(EventKinds) /\ RingSize \in Nat \ {0}
        BY SyncLoopAssumption DEF IInv, TypeOK, TypeEvents
      <4>2. CASE Len(updateCh) = RingSize
        BY <4>1, <4>2
      <4>3. CASE Len(updateCh) # RingSize
        BY <4>1, <4>3
      <4> QED
        BY <4>1, <4>2, <4>3
    <3> HIDE DEF rest
    <3> QED
      BY <3>1, <3>2
  <2> QED
    BY <2>2 DEF Signalled
<1>6. CASE ReceiveEvent
  <2>1. hand' # NoElement /\ hand'.Timestamp >= clock
    <3>1. NoElement \notin Element
      BY SyncLoopAssumption
    <3>2. hand' \in {NewElement("configmap-change", FALSE), NewElement("object", TRUE)}
      BY Zenon, <1>1, <1>6 DEF ReceiveEvent
    <3> QED
      BY <1>1, <3>1, <3>2, NewElementType
  <2> QED
    <3>1. hand' \in Element
      BY <2>1 DEF TypeOK, TypeEvents
    <3> QED
      BY <1>0, <1>1, <2>1, <3>1 DEF Signalled, Element
<1>7. CASE EnqueueEvent
  <2>1. dirty' = dirty \cup {hand}
    BY <1>1, <1>7, AddDirty DEF EnqueueEvent
  <2>2. UNCHANGED <<unnotified, updateCh, delayed>>
    BY <1>7 DEF EnqueueEvent
  <2> QED
    BY <1>0, <2>1, <2>2 DEF Signalled
<1>8. CASE \E e \in delayed : DelayedReady(e)
  <2>1. PICK e \in delayed : DelayedReady(e)
    BY <1>8
  <2>2. dirty' \cup delayed' = dirty \cup delayed
    BY <1>1, <2>1, AddDirty DEF DelayedReady
  <2>3. UNCHANGED <<unnotified, updateCh, hand>>
    BY <2>1 DEF DelayedReady, events
  <2> QED
    BY <1>0, <2>2, <2>3 DEF Signalled
<1> QED
  BY <1>3, <1>4, <1>5, <1>6, <1>7, <1>8 DEF EventLoop

(* Steps outside the process and the queue preserve the invariant.         *)
LEMMA OutsideStep ==
    ASSUME IInv, TypeOK',
           \/ FileChange \/ EventLoop
           \/ \E v \in Values : TemplateChange(v)
           \/ \E k \in EventKinds : Notify(k)
           \/ \E e \in delayed : DelayedReady(e)
    PROVE  IInv'
<1>1. /\ UNCHANGED <<store, changed, silent, clock, stopping, pc, local, lastSync, running>>
      /\ UNCHANGED shutDown
  BY DEF FileChange, EventLoop, ReceiveEvent, EnqueueEvent, TemplateChange, Notify,
         DelayedReady, cluster, wq, applied
<1>2. TimesPassed' /\ ReadIsFresh' /\ RunningIsAsNewAsLastSync'
  BY <1>1, SameView DEF IInv
<1>3. NoLostUpdate'
  <2> SUFFICES ASSUME ~stopping', NEW q \in Parts \ silent', running'[q] # store'[q]
               PROVE  Pending(q)'
    BY DEF NoLostUpdate
  <2>1. ~stopping /\ q \in Parts \ silent /\ running[q] # store[q]
    BY <1>1
  <2>2. Pending(q)
    BY <2>1 DEF IInv, NoLostUpdate
  <2>3. CASE Signalled(q)
    BY <1>1, <2>1, <2>3, SignalledOutside DEF Pending
  <2>4. CASE pc \in Syncing /\ (Unread(q) \/ pcfg[q] = store[q])
    BY <1>1, <2>4 DEF Pending, Unread, local
  <2> QED
    BY <2>2, <2>3, <2>4 DEF Pending
<1>5. StaleReadIsSignalled'
  <2> SUFFICES ASSUME ~stopping', pc' \in Syncing, NEW q \in Parts \ silent',
                      ~Unread(q)', pcfg'[q] # store'[q]
               PROVE  Signalled(q)'
    BY DEF StaleReadIsSignalled
  <2>1. ~stopping /\ pc \in Syncing /\ q \in Parts \ silent
    BY <1>1
  <2>2. ~Unread(q) /\ pcfg[q] # store[q]
    BY <1>1 DEF Unread, local
  <2>3. Signalled(q)
    BY <2>1, <2>2 DEF IInv, StaleReadIsSignalled
  <2> QED
    BY <1>1, <2>1, <2>3, SignalledOutside
<1>4. shutDown' => stopping'
  BY <1>1 DEF IInv
<1> QED
  BY <1>2, <1>3, <1>4, <1>5 DEF IInv

(* The passing of time preserves the invariant.                            *)
LEMMA TickStep ==
    ASSUME IInv, TypeOK', Tick
    PROVE  IInv'
<1>1. /\ UNCHANGED <<store, changed, silent, stopping, pc, local, lastSync, running>>
      /\ UNCHANGED <<shutDown, ts>>
      /\ clock' = clock + 1
  BY DEF Tick, cluster, wq, applied, local
<1>2. TimesPassed'
  BY <1>1 DEF IInv, TimesPassed, TypeOK, TypeQueue, TypeCluster, TypeWorker, TypeApplied
<1>3. ReadIsFresh' /\ RunningIsAsNewAsLastSync'
  BY <1>1 DEF IInv, ReadIsFresh, RunningIsAsNewAsLastSync, Unread, local
<1>4. NoLostUpdate'
  <2> SUFFICES ASSUME ~stopping', NEW q \in Parts \ silent', running'[q] # store'[q]
               PROVE  Pending(q)'
    BY DEF NoLostUpdate
  <2>1. ~stopping /\ q \in Parts \ silent /\ running[q] # store[q]
    BY <1>1
  <2>2. Pending(q)
    BY <2>1 DEF IInv, NoLostUpdate
  <2>3. CASE Signalled(q)
    BY <1>1, <2>1, <2>3, SignalledOutside DEF Pending
  <2>4. CASE pc \in Syncing /\ (Unread(q) \/ pcfg[q] = store[q])
    BY <1>1, <2>4 DEF Pending, Unread, local
  <2> QED
    BY <2>2, <2>3, <2>4 DEF Pending
<1>6. StaleReadIsSignalled'
  <2> SUFFICES ASSUME ~stopping', pc' \in Syncing, NEW q \in Parts \ silent',
                      ~Unread(q)', pcfg'[q] # store'[q]
               PROVE  Signalled(q)'
    BY DEF StaleReadIsSignalled
  <2>1. ~stopping /\ pc \in Syncing /\ q \in Parts \ silent
    BY <1>1
  <2>2. ~Unread(q) /\ pcfg[q] # store[q]
    BY <1>1 DEF Unread, local
  <2>3. Signalled(q)
    BY <2>1, <2>2 DEF IInv, StaleReadIsSignalled
  <2> QED
    BY <1>1, <2>1, <2>3, SignalledOutside
<1>5. shutDown' => stopping'
  BY <1>1 DEF IInv
<1> QED
  BY <1>2, <1>3, <1>4, <1>5, <1>6 DEF IInv

(* A changed object: the event of its handler is outstanding. *)
LEMMA ChangeStep ==
    ASSUME IInv, TypeOK',
           NEW s \in Sources, NEW c \in Parts, NEW v \in Values, Change(s, c, v)
    PROVE  IInv'
<1>1. /\ UNCHANGED <<updateCh, hand, dirty, delayed, shutDown, stopping, clock, pc,
                     cur, ts, idx, pcfg, lastSync, running>>
      /\ store' = [store EXCEPT ![c] = v] /\ changed' = [changed EXCEPT ![c] = clock]
  BY DEF Change, wq, local, applied
<1>2. /\ store \in [Parts -> Values] /\ changed \in [Parts -> Nat] /\ clock \in Nat
      /\ ts <= clock /\ lastSync <= clock /\ ts \in Nat /\ lastSync \in Nat
  BY DEF IInv, TypeOK, TypeCluster, TypeQueue, TypeWorker, TypeApplied, TimesPassed
<1>3. /\ changed'[c] = clock
      /\ \A q \in Parts \ {c} : store'[q] = store[q] /\ changed'[q] = changed[q]
  BY <1>1, <1>2
<1>4. TimesPassed'
  BY <1>1, <1>2, <1>3 DEF IInv, TimesPassed
<1>5. ReadIsFresh'
  <2> SUFFICES ASSUME ~stopping', pc' \in Syncing, NEW q \in Parts,
                      changed'[q] < ts', ~Unread(q)'
               PROVE  pcfg'[q] = store'[q]
    BY DEF ReadIsFresh
  <2>1. q # c
    BY <1>1, <1>2, <1>3
  <2>2. ~Unread(q)
    BY <1>1 DEF Unread
  <2> QED
    BY <1>1, <1>3, <2>1, <2>2 DEF IInv, ReadIsFresh
<1>6. RunningIsAsNewAsLastSync'
  BY <1>1, <1>2, <1>3 DEF IInv, RunningIsAsNewAsLastSync
<1>7. ASSUME s \in Handled
      PROVE  NoLostUpdate' /\ StaleReadIsSignalled'
  <2>1. KindOf(s) \in EventKinds /\ unnotified \in [EventKinds -> Nat]
    BY DEF KindOf, EventKinds, IInv, TypeOK, TypeEvents
  <2>2. unnotified' = [unnotified EXCEPT ![KindOf(s)] = @ + 1]
    BY <1>7 DEF Change
  <2>3. unnotified'[KindOf(s)] > 0
    BY <2>1, <2>2
  <2>4. ASSUME NEW q \in Parts PROVE Signalled(q)' /\ Pending(q)'
    BY <2>1, <2>3 DEF Signalled, Pending
  <2> QED
    BY <2>4 DEF NoLostUpdate, StaleReadIsSignalled
<1>9. ASSUME s \notin Handled
      PROVE  NoLostUpdate' /\ StaleReadIsSignalled'
  <2>1. silent' = silent \cup {c} /\ unnotified' = unnotified
    BY <1>9 DEF Change
  <2>2. ASSUME NEW q \in Parts \ silent'
        PROVE  /\ q \in Parts \ silent /\ store'[q] = store[q]
               /\ changed'[q] = changed[q] /\ (Unread(q)' <=> Unread(q))
               /\ Signalled(q) => Signalled(q)'
    <3>1. q \in Parts \ silent /\ q # c
      BY <2>1
    <3> QED
      BY <1>1, <1>3, <2>1, <3>1 DEF Signalled, Unread
  <2>3. ASSUME NEW q \in Parts \ silent', Pending(q) PROVE Pending(q)'
    BY <1>1, <2>2, <2>3 DEF Pending
  <2>4. NoLostUpdate'
    BY <1>1, <2>2, <2>3 DEF IInv, NoLostUpdate
  <2>5. StaleReadIsSignalled'
    BY <1>1, <2>2 DEF IInv, StaleReadIsSignalled
  <2> QED
    BY <2>4, <2>5
<1>8. shutDown' => stopping'
  BY <1>1 DEF IInv
<1> QED
  BY <1>4, <1>5, <1>6, <1>7, <1>8, <1>9 DEF IInv

(* Stop ends the obligations; Shutdown comes after it. *)
LEMMA StopStep ==
    ASSUME IInv, TypeOK', Stop \/ Shutdown
    PROVE  IInv'
<1>1. stopping'
  <2>1. CASE Stop
    BY Zenon, <2>1 DEF Stop
  <2>2. CASE Shutdown
    BY <2>2 DEF Shutdown
  <2> QED
    BY <2>1, <2>2
<1>2. UNCHANGED <<changed, clock, ts, lastSync>>
  BY DEF Stop, Shutdown, cluster, local, applied
<1>3. TimesPassed'
  BY <1>2 DEF IInv, TimesPassed
<1> QED
  BY Zenon, <1>1, <1>3
  DEF IInv, ReadIsFresh, RunningIsAsNewAsLastSync, NoLostUpdate,
      StaleReadIsSignalled

(* The worker takes an element and decides whether to skip it. *)
LEMMA TakeStep ==
    ASSUME IInv, TypeOK', Get \/ Quit \/ Skip \/ StartSync
    PROVE  IInv'
<1>1. /\ UNCHANGED <<store, changed, silent, unnotified, updateCh, hand, delayed,
                     shutDown, stopping, clock, lastSync, running>>
  BY DEF Get, Quit, Skip, StartSync, cluster, events, wq, applied
<1>2. /\ changed \in [Parts -> Nat] /\ clock \in Nat /\ ts \in Nat /\ lastSync \in Nat
      /\ ts <= clock /\ lastSync <= clock
  BY DEF IInv, TypeOK, TypeCluster, TypeQueue, TypeWorker, TypeApplied, TimesPassed
<1>3. ts' \in {ts, 0, clock}
  BY DEF Get, Quit, Skip, StartSync, Done, local
<1>4. TimesPassed'
  BY <1>1, <1>2, <1>3 DEF IInv, TimesPassed
<1>5. ReadIsFresh' /\ StaleReadIsSignalled'
  <2>1. pc' \in Syncing => StartSync
    BY DEF Get, Quit, Skip, Done, Syncing
  <2>2. StartSync => \A q \in Parts : Unread(q)'
    BY DEF StartSync, Unread
  <2> QED
    BY <2>1, <2>2 DEF ReadIsFresh, StaleReadIsSignalled
<1>6. RunningIsAsNewAsLastSync'
  BY <1>1 DEF IInv, RunningIsAsNewAsLastSync
<1>7. NoLostUpdate'
  <2> SUFFICES ASSUME ~stopping', NEW q \in Parts \ silent', running'[q] # store'[q]
               PROVE  Pending(q)'
    BY DEF NoLostUpdate
  <2>1. ~stopping /\ q \in Parts \ silent /\ running[q] # store[q]
    BY <1>1
  <2>2. Pending(q) /\ ~(lastSync > changed[q])
    BY <2>1 DEF IInv, NoLostUpdate, RunningIsAsNewAsLastSync
  <2>3. CASE Get
    <3>1. /\ pc = "get" /\ pc' = "got" /\ cur' = Head(queue)
          /\ dirty' = dirty \ {Head(queue)}
      BY <2>3 DEF Get
    <3> QED
      BY <1>1, <2>2, <3>1 DEF Pending, Signalled, Syncing
  <2>4. CASE Quit
    BY <1>1, <2>2, <2>4 DEF Quit, Pending, Signalled, Syncing, wq
  <2>5. CASE Skip
    <3>1. cur.Timestamp < changed[q] \/ ~(cur.Timestamp >= changed[q])
      <4>1. cur \in Element
        BY <2>5 DEF Skip, IInv, TypeOK, TypeWorker
      <4> QED
        BY <1>2, <2>2, <2>5, <4>1 DEF Skip, Element
    <3>2. ~(cur.Timestamp >= changed[q])
      <4>1. cur \in Element
        BY <2>5 DEF Skip, IInv, TypeOK, TypeWorker
      <4> QED
        BY <1>2, <3>1, <4>1 DEF Element
    <3> QED
      BY <1>1, <2>2, <2>5, <3>2 DEF Skip, Pending, Signalled, Syncing
  <2>6. CASE StartSync
    BY <2>6 DEF StartSync, Pending, Unread, Syncing
  <2> QED
    BY <2>3, <2>4, <2>5, <2>6
<1>8. shutDown' => stopping'
  BY <1>1 DEF IInv
<1> QED
  BY <1>4, <1>5, <1>6, <1>7, <1>8 DEF IInv

(* A sync goes on: what it reads is the present content of the part. *)
LEMMA SyncStep ==
    ASSUME IInv, TypeOK', pc \in Syncing, pc' \in Syncing,
           UNCHANGED <<cluster, events, dirty, delayed, shutDown, stopping, clock,
                       cur, ts, lastSync, running>>,
           \/ pc = "check" /\ pc' = "read" /\ UNCHANGED <<idx, pcfg>>
           \/ ReadPart
           \/ /\ pc \in {"compare", "reload", "post"} /\ pc' \in {"reload", "post"}
              /\ UNCHANGED pcfg
    PROVE  IInv'
<1>1. UNCHANGED <<store, changed, silent, unnotified, updateCh, hand, delayed, dirty>>
  BY DEF cluster, events
<1>2. TimesPassed' /\ RunningIsAsNewAsLastSync' /\ (shutDown' => stopping')
  BY <1>1 DEF IInv, TimesPassed, RunningIsAsNewAsLastSync
<1>3. idx \in 1 .. 6 /\ (pc # "read" /\ pc # "post" => idx = 1) /\ pcfg \in Config
  BY DEF IInv, TypeOK, TypeWorker
<1>4. ASSUME NEW q \in Parts, ~Unread(q)', ~Unread(q) => pcfg[q] = store[q]
      PROVE  pcfg'[q] = store'[q]
  <2>1. CASE pc = "check"
    <3>1. pc' = "read" /\ idx' = 1
      BY <2>1, <1>3 DEF ReadPart
    <3>2. Unread(q)'
      BY <3>1, AllPartsRead DEF Unread
    <3> QED
      BY <1>4, <3>2
  <2>2. CASE ReadPart
    <3>1. CASE q = ReadOrder[idx]
      BY <1>1, <1>3, <2>2, <3>1 DEF ReadPart, Config
    <3>2. CASE q # ReadOrder[idx]
      <4>1. ~Unread(q)
        <5>1. pc = "read" /\ Len(ReadOrder) = 6
          BY <2>2, AllPartsRead DEF ReadPart
        <5>2. \A i \in idx + 1 .. 6 : ReadOrder[i] # q
          BY <1>3, <1>4, <2>2, <5>1 DEF ReadPart, Unread
        <5>3. \A i \in idx .. 6 : ReadOrder[i] # q
          BY <1>3, <3>2, <5>2
        <5> QED
          BY <5>1, <5>3 DEF Unread
      <4> QED
        BY <1>1, <1>3, <1>4, <2>2, <3>2, <4>1 DEF ReadPart, Config
    <3> QED
      BY <3>1, <3>2
  <2>3. CASE pc \in {"compare", "reload", "post"}
    <3>1. ~Unread(q) /\ pcfg' = pcfg
      BY <2>3 DEF Unread, ReadPart
    <3> QED
      BY <1>1, <1>4, <3>1
  <2> QED
    BY <2>1, <2>2, <2>3
<1>5. ReadIsFresh'
  BY <1>1, <1>4 DEF IInv, ReadIsFresh
<1>8. ASSUME NEW q \in Parts, ~Unread(q)'
      PROVE  ~Unread(q) \/ pcfg'[q] = store'[q]
  <2>1. CASE pc = "check"
    <3>1. pc' = "read" /\ idx' = 1
      BY <2>1, <1>3 DEF ReadPart
    <3>2. Unread(q)'
      BY <3>1, AllPartsRead DEF Unread
    <3> QED
      BY <1>8, <3>2
  <2>2. CASE ReadPart
    BY <1>1, <1>3, <1>8, <2>2, AllPartsRead DEF ReadPart, Unread, Config
  <2>3. CASE pc \in {"compare", "reload", "post"}
    BY <2>3 DEF Unread
  <2> QED
    BY <2>1, <2>2, <2>3
<1>6. NoLostUpdate'
  <2> SUFFICES ASSUME ~stopping', NEW q \in Parts \ silent', running'[q] # store'[q]
               PROVE  Pending(q)'
    BY DEF NoLostUpdate
  <2>1. ~stopping /\ q \in Parts \ silent /\ running[q] # store[q]
    BY <1>1
  <2>2. Pending(q)
    BY <2>1 DEF IInv, NoLostUpdate
  <2>3. CASE Unread(q) \/ pcfg[q] = store[q]
    <3>1. Unread(q)' \/ pcfg'[q] = store'[q]
      BY <1>4, <2>3, <2>1
    <3> QED
      BY <3>1 DEF Pending
  <2>4. CASE ~(Unread(q) \/ pcfg[q] = store[q])
    BY <1>1, <2>2, <2>4 DEF Pending, Signalled, Syncing
  <2> QED
    BY <2>3, <2>4
<1>7. StaleReadIsSignalled'
  <2> SUFFICES ASSUME ~stopping', pc' \in Syncing, NEW q \in Parts \ silent',
                      ~Unread(q)', pcfg'[q] # store'[q]
               PROVE  Signalled(q)'
    BY DEF StaleReadIsSignalled
  <2>1. ~Unread(q) /\ pcfg[q] # store[q] /\ ~stopping /\ q \in Parts \ silent
    BY <1>1, <1>4, <1>8
  <2>2. Signalled(q)
    BY <2>1 DEF IInv, StaleReadIsSignalled
  <2> QED
    BY <1>1, <2>2 DEF Signalled, Syncing
<1> QED
  BY <1>2, <1>5, <1>6, <1>7 DEF IInv

(* A successful sync: either it was stopped, or it leaves a running        *)
(* configuration that equals what it has read.                             *)
LEMMA SuccessStep ==
    ASSUME IInv, TypeOK', pc \in Syncing, SyncSucceeds,
           UNCHANGED <<cluster, events, shutDown, stopping, clock>>,
           \/ shutDown
           \/ running' = pcfg /\ \A q \in Parts : ~Unread(q)
    PROVE  IInv'
<1>1. /\ UNCHANGED <<store, changed, silent, unnotified, updateCh, hand, delayed, dirty>>
      /\ lastSync' = ts /\ ts' = 0 /\ pc' = "get"
  BY DEF SyncSucceeds, Done, cluster, events
<1>2. /\ changed \in [Parts -> Nat] /\ clock \in Nat /\ ts \in Nat /\ ts <= clock
  BY DEF IInv, TypeOK, TypeCluster, TypeQueue, TypeWorker, TimesPassed
<1>3. TimesPassed'
  BY <1>1, <1>2 DEF IInv, TimesPassed
<1>4. shutDown' => stopping'
  BY DEF IInv
<1>5. ReadIsFresh' /\ StaleReadIsSignalled'
  BY <1>1 DEF ReadIsFresh, StaleReadIsSignalled, Syncing
<1>6. ASSUME ~stopping'
      PROVE  ~stopping /\ running' = pcfg /\ \A q \in Parts : ~Unread(q)
  BY <1>6 DEF IInv
<1>7. RunningIsAsNewAsLastSync'
  <2> SUFFICES ASSUME ~stopping', NEW q \in Parts, lastSync' > changed'[q]
               PROVE  running'[q] = store'[q]
    BY DEF RunningIsAsNewAsLastSync
  <2>1. changed[q] < ts
    BY <1>1, <1>2
  <2> QED
    BY <1>1, <1>6, <2>1 DEF IInv, ReadIsFresh
<1>8. NoLostUpdate'
  <2> SUFFICES ASSUME ~stopping', NEW q \in Parts \ silent', running'[q] # store'[q]
               PROVE  Pending(q)'
    BY DEF NoLostUpdate
  <2>1. pcfg[q] # store[q] /\ ~Unread(q) /\ q \in Parts \ silent
    BY <1>1, <1>6
  <2>2. Signalled(q)
    BY <1>6, <2>1 DEF IInv, StaleReadIsSignalled
  <2> QED
    BY <1>1, <2>2 DEF Pending, Signalled, Syncing
<1> QED
  BY <1>3, <1>4, <1>5, <1>7, <1>8 DEF IInv

(* A failed sync: the element put back is younger than every change. *)
LEMMA FailureStep ==
    ASSUME IInv, TypeOK', pc \in Syncing, SyncFails,
           UNCHANGED <<cluster, events, shutDown, stopping, clock, running>>
    PROVE  IInv'
<1>1. /\ UNCHANGED <<store, changed, silent, unnotified, updateCh, hand, dirty,
                     lastSync, clock>>
      /\ ts' = 0 /\ pc' = "get"
  BY DEF SyncFails, Done, cluster, events
<1>2. /\ changed \in [Parts -> Nat] /\ clock \in Nat
      /\ \A q \in Parts : changed[q] <= clock
  BY DEF IInv, TypeOK, TypeCluster, TypeQueue, TimesPassed
<1>3. TimesPassed'
  BY <1>1, <1>2 DEF IInv, TimesPassed
<1>4. shutDown' => stopping'
  BY DEF IInv
<1>5. ReadIsFresh' /\ StaleReadIsSignalled'
  BY <1>1 DEF ReadIsFresh, StaleReadIsSignalled, Syncing
<1>6. RunningIsAsNewAsLastSync'
  BY <1>1 DEF IInv, RunningIsAsNewAsLastSync
<1>7. NoLostUpdate'
  <2> SUFFICES ASSUME ~stopping', NEW q \in Parts
               PROVE  Pending(q)'
    BY DEF NoLostUpdate
  <2> DEFINE e == [Key |-> cur.Key, Timestamp |-> clock]
  <2>1. ~shutDown
    BY DEF IInv
  <2>2. delayed' = delayed \cup {e}
    BY <2>1 DEF SyncFails
  <2>3. e.Timestamp >= changed'[q]
    BY <1>1, <1>2
  <2> HIDE DEF e
  <2> QED
    BY <2>2, <2>3 DEF Pending, Signalled
<1> QED
  BY <1>3, <1>4, <1>5, <1>6, <1>7 DEF IInv

-----------------------------------------------------------------------------

(* The invariant holds initially.                                          *)
LEMMA InvInit == Init => IInv
<1> SUFFICES ASSUME Init PROVE IInv
  OBVIOUS
<1>1. TypeOK
  BY TypeInit
<1>2. /\ clock = 0 /\ ts = 0 /\ lastSync = 0 /\ changed = [p \in Parts |-> 0]
      /\ pc = "get" /\ dirty = {InitialElement} /\ ~shutDown
  BY DEF Init
<1>3. InitialElement.Timestamp >= 0
  BY SyncLoopAssumption DEF InitialElement
<1>4. \A p \in Parts : Pending(p)
  BY <1>2, <1>3 DEF Pending, Signalled
<1> QED
  BY <1>1, <1>2, <1>4
  DEF IInv, TimesPassed, ReadIsFresh, RunningIsAsNewAsLastSync,
      StaleReadIsSignalled, NoLostUpdate, Syncing

(* Every step preserves the invariant.                                     *)
LEMMA InvNext == IInv /\ [Next]_vars => IInv'
<1> SUFFICES ASSUME IInv, [Next]_vars PROVE IInv'
  OBVIOUS
<1>0. TypeOK' /\ TypeWorker
  BY TypeNext DEF IInv, TypeOK
<1>1. CASE \/ FileChange \/ EventLoop
           \/ \E v \in Values : TemplateChange(v)
           \/ \E k \in EventKinds : Notify(k)
           \/ \E e \in delayed : DelayedReady(e)
  BY <1>0, <1>1, OutsideStep
<1>2. CASE Tick
  BY <1>0, <1>2, TickStep
<1>3. CASE \E s \in Sources, p \in Parts, v \in Values : Change(s, p, v)
  BY <1>0, <1>3, ChangeStep
<1>4. CASE Stop \/ Shutdown
  BY <1>0, <1>4, StopStep
<1>5. CASE Get \/ Quit \/ Skip \/ StartSync
  BY <1>0, <1>5, TakeStep
<1>6. CASE CheckShutdown
  <2>1. pc \in Syncing /\ UNCHANGED <<cluster, events, shutDown, stopping, clock, running>>
    BY <1>6 DEF CheckShutdown, Syncing
  <2>2. CASE shutDown /\ SyncSucceeds
    BY <1>0, <2>1, <2>2, SuccessStep
  <2>3. CASE pc' = "read" /\ UNCHANGED <<queue, dirty, delayed, local, lastSync>>
    <3>1. /\ pc = "check" /\ pc' \in Syncing
          /\ UNCHANGED <<dirty, delayed, cur, ts, idx, pcfg, lastSync>>
      BY <1>6, <2>3 DEF CheckShutdown, local, Syncing
    <3> QED
      BY <1>0, <2>1, <2>3, <3>1, SyncStep
  <2> QED
    BY <1>6, <2>2, <2>3 DEF CheckShutdown
<1>7. CASE ReadPart
  <2>1. /\ pc \in Syncing /\ pc' \in Syncing
        /\ UNCHANGED <<cluster, events, dirty, delayed, shutDown, stopping, clock,
                       cur, ts, lastSync, running>>
    BY <1>7 DEF ReadPart, Syncing, wq, applied
  <2> QED
    BY <1>0, <1>7, <2>1, SyncStep
<1>8. CASE Compare
  <2>1. /\ pc = "compare" /\ pc \in Syncing
        /\ UNCHANGED <<cluster, events, shutDown, stopping, clock, running>>
    BY <1>8 DEF Compare, Syncing
  <2>2. CASE pcfg = running /\ SyncSucceeds
    <3>1. running' = pcfg /\ \A q \in Parts : ~Unread(q)
      BY <2>1, <2>2 DEF Unread
    <3> QED
      BY <1>0, <2>1, <2>2, <3>1, SuccessStep
  <2>3. CASE /\ pc' \in {"post", "reload"}
             /\ UNCHANGED <<queue, dirty, delayed, cur, ts, idx, pcfg, lastSync>>
    <3>1. pc' \in Syncing
      BY <2>3 DEF Syncing
    <3> QED
      BY <1>0, <2>1, <2>3, <3>1, SyncStep
  <2> QED
    BY Zenon, <1>8, <2>2, <2>3 DEF Compare
<1>9. CASE Reload
  <2>1. /\ pc = "reload" /\ pc \in Syncing
        /\ UNCHANGED <<cluster, events, shutDown, stopping, clock, running>>
    BY <1>9 DEF Reload, Syncing
  <2>2. CASE SyncFails
    BY <1>0, <2>1, <2>2, FailureStep
  <2>3. CASE /\ pc' = "post"
             /\ UNCHANGED <<queue, dirty, delayed, cur, ts, idx, pcfg, lastSync,
                            failures>>
    <3>1. pc' \in Syncing
      BY <2>3 DEF Syncing
    <3> QED
      BY <1>0, <2>1, <2>3, <3>1, SyncStep
  <2> QED
    BY <1>9, <2>2, <2>3 DEF Reload
<1>10. CASE Post
  <2>1. /\ pc = "post" /\ pc \in Syncing
        /\ UNCHANGED <<cluster, events, shutDown, stopping, clock>>
    BY <1>10 DEF Post, Syncing
  <2>2. CASE running' = pcfg /\ SyncSucceeds
    <3>1. \A q \in Parts : ~Unread(q)
      BY <2>1 DEF Unread
    <3> QED
      BY <1>0, <2>1, <2>2, <3>1, SuccessStep
  <2>3. CASE UNCHANGED <<pc, queue, dirty, delayed, cur, ts, pcfg, attempts,
                         lastSync, running>>
    BY <1>0, <2>1, <2>3, SyncStep
  <2> QED
    BY <1>10, <2>2, <2>3 DEF Post
<1>11. CASE PostFails
  <2>1. /\ pc \in Syncing /\ SyncFails
        /\ UNCHANGED <<cluster, events, shutDown, stopping, clock, running>>
    BY <1>11 DEF PostFails, Syncing
  <2> QED
    BY <1>0, <2>1, FailureStep
<1>12. CASE UNCHANGED vars
  <2>1. UNCHANGED <<store, unnotified, updateCh, hand, dirty, delayed, shutDown,
                    stopping, clock, pc, cur, ts, idx, pcfg, lastSync, running,
                    changed, silent, local>>
    BY <1>12 DEF vars, local
  <2>2. TimesPassed' /\ ReadIsFresh' /\ RunningIsAsNewAsLastSync'
    BY <2>1, SameView DEF IInv
  <2>3. NoLostUpdate' /\ StaleReadIsSignalled'
    BY <2>1 DEF IInv, NoLostUpdate, StaleReadIsSignalled, Pending, Signalled, Unread
  <2> QED
    BY <1>0, <2>1, <2>2, <2>3 DEF IInv
<1> QED
  BY <1>1, <1>2, <1>3, <1>4, <1>5, <1>6, <1>7, <1>8, <1>9, <1>10, <1>11, <1>12
  DEF Next, Worker

(* The strengthened invariant of the queue: no change is lost, and a       *)
(* reader of an old configuration is signalled (controller.go, queue.go).  *)
THEOREM InvCorrect == Spec => []IInv
<1> QED
  BY InvInit, InvNext, PTL DEF Spec

(* No change of an object that has a handler is lost: whatever the order   *)
(* of handlers, event loop, timers, failures and retries, a part of the    *)
(* running configuration that is behind the store will be read again.      *)
THEOREM NothingLost == Spec => []NoLostUpdate
<1>1. IInv => NoLostUpdate
  BY DEF IInv
<1> QED
  BY <1>1, InvCorrect, PTL

(* lastSync is a lower bound on the age of the running configuration: it   *)
(* is right to skip an element that is older.                              *)
THEOREM SkippingIsSafe == Spec => []RunningIsAsNewAsLastSync
<1>1. IInv => RunningIsAsNewAsLastSync
  BY DEF IInv
<1> QED
  BY <1>1, InvCorrect, PTL

-----------------------------------------------------------------------------
(* The work queue: no element waits twice, and what is due waits or is in  *)
(* process.                                                                *)
NoRepetition(q) == \A i, j \in DOMAIN q : q[i] = q[j] => i = j

(* Appending a new element to a sequence without repetition. *)
LEMMA AppendNew ==
    ASSUME NEW S, NEW q \in Seq(S), NEW e \in S, NoRepetition(q), e \notin Range(q)
    PROVE  NoRepetition(Append(q, e)) /\ Range(Append(q, e)) = Range(q) \cup {e}
<1> DEFINE r == Append(q, e)
<1>1. /\ Len(q) \in Nat /\ DOMAIN q = 1 .. Len(q) /\ DOMAIN r = 1 .. Len(q) + 1
      /\ \A i \in 1 .. Len(q) : r[i] = q[i]
      /\ r[Len(q) + 1] = e
  OBVIOUS
<1> HIDE DEF r
<1>2. \A i \in DOMAIN r : i \in DOMAIN q \/ i = Len(q) + 1
  BY <1>1
<1>3. Range(r) = Range(q) \cup {e}
  BY <1>1, <1>2 DEF Range
<1>4. NoRepetition(r)
  BY <1>1, <1>2 DEF NoRepetition, Range
<1> QED
  BY <1>3, <1>4 DEF r

(* Taking the first element of a sequence without repetition. *)
LEMMA TakeFirst ==
    ASSUME NEW S, NEW q \in Seq(S), q # <<>>, NoRepetition(q)
    PROVE  /\ NoRepetition(Tail(q)) /\ Head(q) \in Range(q)
           /\ Range(Tail(q)) = Range(q) \ {Head(q)}
<1> DEFINE r == Tail(q)
<1>1. /\ Len(q) \in Nat /\ Len(q) >= 1 /\ DOMAIN q = 1 .. Len(q)
      /\ DOMAIN r = 1 .. Len(q) - 1
      /\ \A i \in 1 .. Len(q) - 1 : r[i] = q[i + 1]
      /\ Head(q) = q[1]
  OBVIOUS
<1> HIDE DEF r
<1>2. \A i \in DOMAIN q : i = 1 \/ (i - 1 \in DOMAIN r /\ r[i - 1] = q[i])
  BY <1>1
<1>3. \A i \in DOMAIN r : i + 1 \in DOMAIN q /\ i + 1 # 1 /\ r[i] = q[i + 1]
  BY <1>1
<1>4. ASSUME NEW i \in DOMAIN r PROVE r[i] \in Range(q) /\ r[i] # Head(q)
  BY <1>1, <1>3 DEF Range, NoRepetition
<1>5. ASSUME NEW i \in DOMAIN q, q[i] # Head(q) PROVE q[i] \in Range(r)
  BY <1>1, <1>2, <1>5 DEF Range
<1>6. Range(r) = Range(q) \ {Head(q)}
  BY <1>4, <1>5 DEF Range
<1>7. ASSUME NEW i \in DOMAIN r, NEW j \in DOMAIN r, r[i] = r[j] PROVE i = j
  <2>1. i + 1 = j + 1
    BY <1>3, <1>7 DEF NoRepetition
  <2> QED
    BY <1>1, <2>1
<1>8. NoRepetition(r)
  BY <1>7 DEF NoRepetition
<1>9. 1 \in DOMAIN q
  BY <1>1
<1>10. Head(q) \in Range(q)
  BY <1>1, <1>9 DEF Range
<1> QED
  BY <1>6, <1>8, <1>10 DEF r

(* Steps that leave the queue and the element in process alone. *)
LEMMA QueueSame ==
    ASSUME QueueFits, UNCHANGED <<queue, dirty, cur>>,
           pc \in {"get", "stopped"} <=> pc' \in {"get", "stopped"}
    PROVE  QueueFits'
BY DEF QueueFits, DueIsQueued, Processing, Range

(* Adding an element, which waits unless it is in process. *)
LEMMA QueueAdd ==
    ASSUME QueueFits, queue \in Seq(Element), NEW e \in Element, Add(e),
           UNCHANGED <<pc, cur>>
    PROVE  QueueFits'
<1>1. CASE UNCHANGED <<queue, dirty>>
  BY <1>1, QueueSame
<1>2. CASE ~(shutDown \/ e \in dirty)
  <2>1. /\ dirty' = dirty \cup {e}
        /\ queue' = IF Processing(e) THEN queue ELSE Append(queue, e)
    BY Zenon, <1>2 DEF Add
  <2>2. e \notin Range(queue) /\ NoRepetition(queue)
    BY <1>2 DEF QueueFits, DueIsQueued, NoRepetition
  <2>3. \A f : Processing(f)' <=> Processing(f)
    BY DEF Processing
  <2>4. CASE Processing(e)
    BY <2>1, <2>3, <2>4 DEF QueueFits, DueIsQueued, Processing
  <2>5. CASE ~Processing(e)
    <3>1. queue' = Append(queue, e)
      BY <2>1, <2>5
    <3>2. NoRepetition(queue') /\ Range(queue') = Range(queue) \cup {e}
      BY <2>2, <3>1, AppendNew
    <3>3. \A f \in dirty' : f \in Range(queue') \/ Processing(f)'
      BY <2>1, <2>3, <3>2 DEF QueueFits, DueIsQueued
    <3>4. \A f \in Range(queue') : f \in dirty' /\ ~Processing(f)'
      BY <2>1, <2>3, <2>5, <3>2 DEF QueueFits
    <3> QED
      BY <3>2, <3>3, <3>4 DEF QueueFits, DueIsQueued, NoRepetition
  <2> QED
    BY <2>4, <2>5
<1> QED
  BY Zenon, <1>1, <1>2 DEF Add

(* Get takes the first element that waits. *)
LEMMA QueueGet ==
    ASSUME QueueFits, queue \in Seq(Element), Get
    PROVE  QueueFits'
<1>1. /\ queue # <<>> /\ cur' = Head(queue) /\ queue' = Tail(queue)
      /\ dirty' = dirty \ {Head(queue)} /\ pc = "get" /\ pc' = "got"
  BY DEF Get
<1>2. NoRepetition(queue)
  BY DEF QueueFits, DueIsQueued, NoRepetition
<1>3. NoRepetition(queue') /\ Range(queue') = Range(queue) \ {Head(queue)}
  BY <1>1, <1>2, TakeFirst
<1>4. \A f : ~Processing(f) /\ (Processing(f)' <=> f = Head(queue))
  BY <1>1 DEF Processing
<1>5. \A f \in dirty' : f \in Range(queue')
  BY <1>1, <1>3, <1>4 DEF QueueFits, DueIsQueued
<1>6. \A f \in Range(queue') : f \in dirty' /\ ~Processing(f)'
  BY <1>1, <1>3, <1>4 DEF QueueFits
<1> QED
  BY <1>3, <1>5, <1>6 DEF QueueFits, DueIsQueued, NoRepetition

(* Done puts the element back that came again during its sync. *)
LEMMA QueueDone ==
    ASSUME QueueFits, queue \in Seq(Element), cur \in Element, Done,
           pc \notin {"get", "stopped"}, dirty' = dirty
    PROVE  QueueFits'
<1>1. pc' = "get" /\ queue' = IF cur \in dirty THEN Append(queue, cur) ELSE queue
  BY DEF Done
<1>2. \A f : ~Processing(f)' /\ (Processing(f) <=> f = cur)
  BY <1>1 DEF Processing
<1>3. cur \notin Range(queue) /\ NoRepetition(queue)
  BY <1>2 DEF QueueFits, DueIsQueued, NoRepetition
<1>4. CASE cur \in dirty
  <2>1. NoRepetition(queue') /\ Range(queue') = Range(queue) \cup {cur}
    BY <1>1, <1>3, <1>4, AppendNew
  <2>2. \A f \in dirty' : f \in Range(queue')
    BY <1>2, <2>1 DEF QueueFits, DueIsQueued
  <2>3. \A f \in Range(queue') : f \in dirty' /\ ~Processing(f)'
    BY <1>2, <1>4, <2>1 DEF QueueFits
  <2> QED
    BY <2>1, <2>2, <2>3 DEF QueueFits, DueIsQueued, NoRepetition
<1>5. CASE cur \notin dirty
  <2>1. queue' = queue
    BY <1>1, <1>5
  <2>2. \A f \in dirty' : f \in Range(queue')
    BY <1>2, <1>5, <2>1 DEF QueueFits, DueIsQueued
  <2>3. \A f \in Range(queue') : f \in dirty' /\ ~Processing(f)'
    BY <1>2, <2>1 DEF QueueFits
  <2> QED
    BY <1>3, <2>1, <2>2, <2>3 DEF QueueFits, DueIsQueued, NoRepetition
<1> QED
  BY <1>4, <1>5

(* The queue is empty initially.                                           *)
LEMMA QueueInit == Init => QueueFits
<1> SUFFICES ASSUME Init PROVE QueueFits
  OBVIOUS
<1>1. queue = <<InitialElement>> /\ dirty = {InitialElement} /\ pc = "get"
  BY DEF Init
<1>2. DOMAIN queue = {1} /\ queue[1] = InitialElement
  BY <1>1
<1> QED
  BY <1>1, <1>2 DEF QueueFits, DueIsQueued, Processing, Range

(* Every step preserves what is said of the queue.                         *)
LEMMA QueueNext == TypeOK /\ QueueFits /\ [Next]_vars => QueueFits'
<1> SUFFICES ASSUME TypeOK, QueueFits, [Next]_vars PROVE QueueFits'
  OBVIOUS
<1>1. /\ queue \in Seq(Element) /\ delayed \subseteq Element /\ clock \in Nat
      /\ hand \in Element \cup {NoElement}
      /\ pc \notin {"get", "stopped"} => cur \in Element
  BY DEF TypeOK, TypeQueue, TypeWorker, TypeEvents
<1>2. CASE UNCHANGED <<queue, dirty, pc, cur>>
  BY <1>2, QueueSame
<1>3. CASE \E v \in Values : TemplateChange(v)
  <2>1. PICK v \in Values : TemplateChange(v)
    BY <1>3
  <2>2. Add(NewElement("template-change", FALSE)) /\ UNCHANGED <<pc, cur>>
    BY <2>1 DEF TemplateChange, local
  <2>3. NewElement("template-change", FALSE) \in Element
    BY <1>1, NewElementType
  <2> QED
    BY <1>1, <2>2, <2>3, QueueAdd
<1>4. CASE FileChange
  <2>1. Add(NewElement("file-change", FALSE)) /\ UNCHANGED <<pc, cur>>
    BY <1>4 DEF FileChange, local
  <2>2. NewElement("file-change", FALSE) \in Element
    BY <1>1, NewElementType
  <2> QED
    BY <1>1, <2>1, <2>2, QueueAdd
<1>5. CASE EnqueueEvent
  <2>1. hand \in Element /\ Add(hand) /\ UNCHANGED <<pc, cur>>
    BY <1>1, <1>5 DEF EnqueueEvent, local
  <2> QED
    BY <1>1, <2>1, QueueAdd
<1>6. CASE \E e \in delayed : DelayedReady(e)
  <2>1. PICK e \in delayed : DelayedReady(e)
    BY <1>6
  <2>2. e \in Element /\ Add(e) /\ UNCHANGED <<pc, cur>>
    BY <1>1, <2>1 DEF DelayedReady, local
  <2> QED
    BY <1>1, <2>2, QueueAdd
<1>7. CASE Get
  BY <1>1, <1>7, QueueGet
<1>8. CASE Quit
  <2>1. UNCHANGED <<queue, dirty, cur>> /\ pc = "get" /\ pc' = "stopped"
    BY <1>8 DEF Quit, wq, local
  <2> QED
    BY <2>1, QueueSame
<1>9. CASE Done /\ dirty' = dirty /\ pc \notin {"get", "stopped"}
  BY <1>1, <1>9, QueueDone
<1>10. CASE /\ UNCHANGED <<queue, dirty, cur>>
            /\ pc \notin {"get", "stopped"} /\ pc' \notin {"get", "stopped"}
  BY <1>10, QueueSame
<1>11. CASE Tick \/ Stop \/ Shutdown \/ ReceiveEvent
  BY <1>2, <1>11 DEF Tick, Stop, Shutdown, ReceiveEvent, wq, local
<1>12. CASE \/ \E s \in Sources, p \in Parts, v \in Values : Change(s, p, v)
            \/ \E k \in EventKinds : Notify(k)
  BY <1>2, <1>12 DEF Change, Notify, wq, local
<1>13. CASE Skip \/ StartSync \/ ReadPart
  BY <1>9, <1>10, <1>13 DEF Skip, StartSync, ReadPart, wq
<1>14. CASE CheckShutdown
  BY <1>9, <1>10, <1>14 DEF CheckShutdown, SyncSucceeds, local
<1>15. CASE Compare
  BY <1>9, <1>10, <1>15 DEF Compare, SyncSucceeds
<1>16. CASE Reload \/ PostFails
  BY <1>9, <1>10, <1>16 DEF Reload, PostFails, SyncFails
<1>17. CASE Post
  BY <1>9, <1>10, <1>17 DEF Post, SyncSucceeds
<1>18. CASE UNCHANGED vars
  BY <1>2, <1>18 DEF vars
<1> QED
  BY <1>3, <1>4, <1>5, <1>6, <1>7, <1>8, <1>11, <1>12, <1>13, <1>14, <1>15,
     <1>16, <1>17, <1>18
  DEF Next, Worker, EventLoop

(* Whatever adds, retries and timers do while the worker is busy, no       *)
(* element that is due is forgotten by Done and none waits twice.          *)
THEOREM DueCorrect == Spec => []DueIsQueued
<1>1. QueueFits => DueIsQueued
  BY DEF QueueFits
<1> QED
  BY <1>1, QueueInit, QueueNext, TypeCorrect, PTL DEF Spec

-----------------------------------------------------------------------------
(* What NGINX uses and what the controller believes that it uses. *)

(* The parts that are POSTed are the dynamic ones, each exactly once. *)
LEMMA PostsDynamic ==
    /\ \A i \in 1 .. Len(PostOrder) : PostOrder[i] \in DynamicParts
    /\ \A p \in DynamicParts : \E i \in 1 .. Len(PostOrder) : PostOrder[i] = p
    /\ \A i, j \in 1 .. Len(PostOrder) : PostOrder[i] = PostOrder[j] => i = j
<1>0. DynamicCertificatesEnabled \in BOOLEAN
  BY SyncLoopAssumption
<1>1. CASE DynamicCertificatesEnabled
  <2>1. /\ PostOrder = <<"backends", "streams", "general", "certs">>
        /\ DynamicParts = {"backends", "streams", "general", "certs"}
    BY <1>1 DEF PostOrder, DynamicParts
  <2>2. /\ Len(PostOrder) = 4
        /\ PostOrder[1] = "backends" /\ PostOrder[2] = "streams"
        /\ PostOrder[3] = "general" /\ PostOrder[4] = "certs"
    BY <2>1
  <2>3. 1 \in 1 .. 4 /\ 2 \in 1 .. 4 /\ 3 \in 1 .. 4 /\ 4 \in 1 .. 4
        /\ \A i \in 1 .. 4 : i = 1 \/ i = 2 \/ i = 3 \/ i = 4
    OBVIOUS
  <2> QED
    BY <2>1, <2>2, <2>3
<1>2. CASE ~DynamicCertificatesEnabled
  <2>1. /\ PostOrder = <<"backends", "streams", "general">>
        /\ DynamicParts = {"backends", "streams", "general"}
    BY <1>2 DEF PostOrder, DynamicParts
  <2>2. /\ Len(PostOrder) = 3
        /\ PostOrder[1] = "backends" /\ PostOrder[2] = "streams"
        /\ PostOrder[3] = "general"
    BY <2>1
  <2>3. 1 \in 1 .. 3 /\ 2 \in 1 .. 3 /\ 3 \in 1 .. 3
        /\ \A i \in 1 .. 3 : i = 1 \/ i = 2 \/ i = 3
    OBVIOUS
  <2> QED
    BY <2>1, <2>2, <2>3
<1> QED
  BY <1>0, <1>1, <1>2

(* One request more, successful or stored by Lua before it failed. *)
LEMMA Posted ==
    ASSUME TypeOK, NginxFits, ~partial, pc = "post",
           nginx' = [nginx EXCEPT !.conf[PostOrder[idx]] = pcfg[PostOrder[idx]]],
           NEW p \in Parts \ {"config"}
    PROVE  nginx'.conf[p] = IF p \notin DynamicParts
                               \/ \E i \in 1 .. idx : PostOrder[i] = p
                            THEN pcfg[p] ELSE running[p]
<1>1. /\ idx \in 1 .. Len(PostOrder) /\ Len(PostOrder) \in 3 .. 4
      /\ nginx \in [conf : Config, tmpl : Values \cup {NoValue}]
      /\ PostOrder[idx] \in Parts
  BY PostOrderType DEF TypeOK, TypeWorker, TypeApplied
<1>2. PICK c : c = PostOrder[idx]
  OBVIOUS
<1>3. nginx'.conf = [nginx.conf EXCEPT ![c] = pcfg[c]]
  BY <1>1, <1>2
<1>4. c \in Parts /\ nginx.conf \in [Parts -> Values \cup {NoValue}] /\ p \in Parts
  BY <1>1, <1>2 DEF Config
<1>5. nginx'.conf[p] = IF p = c THEN pcfg[c] ELSE nginx.conf[p]
  BY <1>3, <1>4
<1>6. nginx.conf[p] = IF p \notin DynamicParts
                         \/ \E i \in 1 .. idx - 1 : PostOrder[i] = p
                      THEN pcfg[p] ELSE running[p]
  BY DEF NginxFits, Sent
<1>7. CASE p = c
  <2>1. idx \in 1 .. idx
    BY <1>1
  <2> QED
    BY <1>2, <1>5, <1>7, <2>1
<1>8. CASE p # c
  <2>1. \A i \in 1 .. idx : PostOrder[i] = p => i \in 1 .. idx - 1
    BY <1>1, <1>2, <1>8
  <2>2. 1 .. idx - 1 \subseteq 1 .. idx
    BY <1>1
  <2>3. (\E i \in 1 .. idx : PostOrder[i] = p)
           <=> (\E i \in 1 .. idx - 1 : PostOrder[i] = p)
    BY <2>1, <2>2
  <2> QED
    BY Zenon, <1>5, <1>6, <1>8, <2>3
<1> QED
  BY <1>7, <1>8

(* Steps outside the application of a configuration. *)
LEMMA NginxSame ==
    ASSUME NginxFits, UNCHANGED <<nginx, running, partial>>,
           pc # "post", pc' # "post"
    PROVE  NginxFits'
BY DEF NginxFits, Sent

(* NGINX and the controller agree initially.                               *)
LEMMA NginxInit == Init => NginxFits
<1> SUFFICES ASSUME Init PROVE NginxFits
  OBVIOUS
<1>1. running = EmptyConfig /\ nginx.conf = EmptyConfig /\ pc = "get"
  BY DEF Init
<1> QED
  BY <1>1 DEF NginxFits, Sent

(* Before the first request only what a reload does has reached NGINX. *)
LEMMA NothingSent ==
    ASSUME pc = "post", idx = 1, NEW p
    PROVE  Sent(p) <=> p \notin DynamicParts
BY DEF Sent

(* A sync starts to apply a model that a reload would not help. *)
LEMMA NginxCompare ==
    ASSUME TypeOK, NginxFits, Compare
    PROVE  NginxFits'
<1>1. pc = "compare" /\ UNCHANGED <<nginx, running, partial>>
  BY DEF Compare
<1>2. CASE pc' # "post"
  BY <1>1, <1>2, NginxSame
<1>3. CASE pc' = "post"
  <2>1. IsDynamicConfigurationEnough /\ idx' = idx /\ pcfg' = pcfg
    BY <1>3 DEF Compare, SyncSucceeds, Done
  <2>2. idx' = 1
    BY <1>1, <2>1 DEF TypeOK, TypeWorker
  <2> SUFFICES ASSUME ~partial', NEW p \in Parts \ {"config"}
               PROVE  nginx'.conf[p] = IF Sent(p)' THEN pcfg'[p] ELSE running'[p]
    BY DEF NginxFits
  <2>3. nginx.conf[p] = running[p]
    BY <1>1 DEF NginxFits, Sent
  <2>4. Sent(p)' <=> p \notin DynamicParts
    BY <1>3, <2>2 DEF Sent
  <2>5. p \notin DynamicParts => pcfg[p] = running[p]
    BY <2>1 DEF IsDynamicConfigurationEnough
  <2> QED
    BY <1>1, <2>1, <2>3, <2>4, <2>5
<1> QED
  BY <1>2, <1>3

(* A reload brings the static parts of the model to NGINX, or nothing. *)
LEMMA NginxReload ==
    ASSUME TypeOK, NginxFits, Reload
    PROVE  NginxFits'
<1>1. pc = "reload" /\ UNCHANGED <<running, partial>>
  BY DEF Reload
<1>2. CASE SyncFails /\ UNCHANGED nginx
  BY <1>1, <1>2, NginxSame DEF SyncFails, Done
<1>3. CASE nginx' = Rendered /\ pc' = "post" /\ UNCHANGED <<idx, pcfg>>
  <2>1. idx' = 1
    BY <1>1, <1>3 DEF TypeOK, TypeWorker
  <2> SUFFICES ASSUME ~partial', NEW p \in Parts \ {"config"}
               PROVE  nginx'.conf[p] = IF Sent(p)' THEN pcfg'[p] ELSE running'[p]
    BY DEF NginxFits
  <2>2. nginx.conf[p] = running[p]
    BY <1>1 DEF NginxFits, Sent
  <2>3. Sent(p)' <=> p \notin DynamicParts
    BY <1>3, <2>1 DEF Sent
  <2>4. Rendered.conf[p] = IF p \in DynamicParts THEN nginx.conf[p] ELSE pcfg[p]
    BY DEF Rendered
  <2> QED
    BY <1>1, <1>3, <2>2, <2>3, <2>4
<1> QED
  BY <1>2, <1>3 DEF Reload

(* After the last request NGINX has the whole model, as the controller     *)
(* says.                                                                   *)
LEMMA NginxPost ==
    ASSUME TypeOK, NginxFits, Post
    PROVE  NginxFits'
<1>1. /\ pc = "post" /\ UNCHANGED partial
      /\ nginx' = [nginx EXCEPT !.conf[PostOrder[idx]] = pcfg[PostOrder[idx]]]
  BY DEF Post
<1>2. idx \in 1 .. Len(PostOrder) /\ Len(PostOrder) \in 3 .. 4
  BY <1>1, PostOrderType DEF TypeOK, TypeWorker
<1> SUFFICES ASSUME ~partial', NEW p \in Parts \ {"config"}
             PROVE  nginx'.conf[p] = IF Sent(p)' THEN pcfg'[p] ELSE running'[p]
  BY DEF NginxFits
<1>3. nginx'.conf[p] = IF p \notin DynamicParts
                          \/ \E i \in 1 .. idx : PostOrder[i] = p
                       THEN pcfg[p] ELSE running[p]
  BY <1>1, Posted
<1>4. CASE idx' = idx + 1 /\ UNCHANGED <<pc, pcfg, running>>
  <2>1. idx' - 1 = idx
    BY <1>2, <1>4
  <2>2. Sent(p)' <=> p \notin DynamicParts \/ \E i \in 1 .. idx : PostOrder[i] = p
    BY <1>1, <1>4, <2>1, PostsDynamic DEF Sent, PostOrder
  <2> QED
    BY <1>3, <1>4, <2>2
<1>5. CASE idx = Len(PostOrder) /\ running' = pcfg /\ SyncSucceeds
  <2>1. ~Sent(p)'
    BY <1>5 DEF Sent, SyncSucceeds, Done
  <2>2. p \in DynamicParts => \E i \in 1 .. idx : PostOrder[i] = p
    BY <1>5, PostsDynamic
  <2> QED
    BY <1>3, <1>5, <2>1, <2>2
<1> QED
  BY <1>4, <1>5 DEF Post

(* A failure that leaves no part of the model in NGINX, or a partial one. *)
LEMMA NginxPostFails ==
    ASSUME TypeOK, NginxFits, PostFails
    PROVE  NginxFits'
<1>1. /\ pc = "post" /\ running' = running /\ pc' = "get"
      /\ partial' = (\/ partial \/ ~IsDynamicConfigurationEnough
                     \/ idx > 1 \/ nginx' # nginx)
  BY DEF PostFails, SyncFails, Done
<1>2. idx \in 1 .. Len(PostOrder) /\ Len(PostOrder) \in 3 .. 4
  BY <1>1, PostOrderType DEF TypeOK, TypeWorker
<1> SUFFICES ASSUME ~partial', NEW p \in Parts \ {"config"}
             PROVE  nginx'.conf[p] = IF Sent(p)' THEN pcfg'[p] ELSE running'[p]
  BY DEF NginxFits
<1>3. ~partial /\ IsDynamicConfigurationEnough /\ ~(idx > 1) /\ nginx' = nginx
  BY Zenon, <1>1
<1>4. idx = 1
  BY <1>2, <1>3
<1>5. nginx.conf[p] = IF Sent(p) THEN pcfg[p] ELSE running[p]
  BY <1>3 DEF NginxFits
<1>6. Sent(p) <=> p \notin DynamicParts
  BY <1>1, <1>4, NothingSent
<1>7. p \notin DynamicParts => pcfg[p] = running[p]
  BY <1>3 DEF IsDynamicConfigurationEnough
<1>8. ~Sent(p)'
  BY <1>1 DEF Sent
<1> QED
  BY <1>1, <1>3, <1>5, <1>6, <1>7, <1>8

(* Every step preserves what is said of NGINX.                             *)
LEMMA NginxNext == TypeOK /\ NginxFits /\ [Next]_vars => NginxFits'
<1> SUFFICES ASSUME TypeOK, NginxFits, [Next]_vars PROVE NginxFits'
  OBVIOUS
<1>1. CASE UNCHANGED <<nginx, running, partial, pc, idx, pcfg>>
  BY <1>1 DEF NginxFits, Sent, DynamicParts, PostOrder
<1>2. CASE UNCHANGED <<nginx, running, partial>> /\ pc # "post" /\ pc' # "post"
  BY <1>2, NginxSame
<1>3. CASE Tick \/ FileChange \/ Stop \/ Shutdown \/ EventLoop
  BY <1>1, <1>3
  DEF Tick, FileChange, Stop, Shutdown, EventLoop, ReceiveEvent, EnqueueEvent,
      local, applied
<1>4. CASE \/ \E s \in Sources, p \in Parts, v \in Values : Change(s, p, v)
           \/ \E v \in Values : TemplateChange(v)
           \/ \E k \in EventKinds : Notify(k)
           \/ \E e \in delayed : DelayedReady(e)
  BY <1>1, <1>4 DEF Change, TemplateChange, Notify, DelayedReady, local, applied
<1>5. CASE Get \/ Quit \/ Skip \/ StartSync \/ ReadPart
  BY <1>2, <1>5 DEF Get, Quit, Skip, StartSync, ReadPart, Done, applied
<1>6. CASE CheckShutdown
  BY <1>2, <1>6 DEF CheckShutdown, SyncSucceeds, Done
<1>7. CASE Compare
  BY <1>7, NginxCompare
<1>8. CASE Reload
  BY <1>8, NginxReload
<1>9. CASE Post
  BY <1>9, NginxPost
<1>10. CASE PostFails
  BY <1>10, NginxPostFails
<1>11. CASE UNCHANGED vars
  BY <1>1, <1>11 DEF vars
<1> QED
  BY <1>3, <1>4, <1>5, <1>6, <1>7, <1>8, <1>9, <1>10, <1>11 DEF Next, Worker

(* As long as no sync has failed half way, an idle worker leaves NGINX     *)
(* with the very configuration that the controller compares the next one   *)
(* with: no difference is overlooked because NGINX was changed by a sync   *)
(* that did not get as far as recording it.                                *)
THEOREM AppliedCorrect == Spec => []AppliedIsRunning
<1>1. NginxFits => AppliedIsRunning
  BY DEF NginxFits, AppliedIsRunning, Sent
<1> QED
  BY <1>1, NginxInit, NginxNext, TypeCorrect, PTL DEF Spec

-----------------------------------------------------------------------------
(* After Stop. *)

(* A shut down queue whose worker is not past the check stays so, whatever *)
(* elements are still drained, and no step reloads NGINX or changes the    *)
(* running configuration.                                                  *)
LEMMA SettledStep ==
    ASSUME Settled, [Next]_vars
    PROVE  Settled' /\ UNCHANGED <<nginx, running>>
<1>1. shutDown /\ pc \in {"get", "got", "check", "stopped"}
  BY DEF Settled
<1>2. CASE UNCHANGED <<shutDown, pc, nginx, running>>
  BY <1>1, <1>2 DEF Settled
<1>3. CASE Tick \/ FileChange \/ Stop \/ Shutdown \/ EventLoop
  BY <1>1, <1>2, <1>3
  DEF Tick, FileChange, Stop, Shutdown, EventLoop, ReceiveEvent, EnqueueEvent,
      wq, applied
<1>4. CASE \/ \E s \in Sources, p \in Parts, v \in Values : Change(s, p, v)
           \/ \E v \in Values : TemplateChange(v)
           \/ \E k \in EventKinds : Notify(k)
           \/ \E e \in delayed : DelayedReady(e)
  BY <1>2, <1>4 DEF Change, TemplateChange, Notify, DelayedReady, wq, applied
<1>5. CASE Get \/ Quit \/ Skip \/ StartSync
  BY <1>1, <1>5 DEF Settled, Get, Quit, Skip, StartSync, Done, wq, applied
<1>6. CASE CheckShutdown
  BY <1>1, <1>6 DEF Settled, CheckShutdown, SyncSucceeds, Done
<1>7. CASE ReadPart \/ Compare \/ Reload \/ Post \/ PostFails
  BY <1>1, <1>7 DEF ReadPart, Compare, Reload, Post, PostFails
<1>8. CASE UNCHANGED vars
  BY <1>2, <1>8 DEF vars
<1> QED
  BY <1>3, <1>4, <1>5, <1>6, <1>7, <1>8 DEF Next, Worker

(* The "quit" sent to NGINX is not followed by a reload: once the queue is *)
(* shut down and the sync in progress has ended, draining the queue only   *)
(* ever reaches the check at the beginning of syncIngress.                 *)
THEOREM SettledCorrect == Spec => NoSyncAfterShutdown
<1>1. [Next]_vars => [Settled => Settled' /\ UNCHANGED <<nginx, running>>]_vars
  BY SettledStep
<1> QED
  BY <1>1, PTL DEF Spec, NoSyncAfterShutdown
=============================================================================
