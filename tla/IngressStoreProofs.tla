-------------------------- MODULE IngressStoreProofs --------------------------
(***************************************************************************)
(* Proofs about the object store, for any Ingresses, Secrets and number of *)
(* changes: the types, that one handler at a time writes certificates, and *)
(* that the handlers keep the promise of module Notification.  The second  *)
(* part is about what the handlers were told: references and entries       *)
(* follow it, no change is silent, and certificates are current once the   *)
(* handlers rest.  Each of these rests on an invariant of IngressStore     *)
(* about handlers in the middle of their work: ReferencesFit, SilenceFits  *)
(* and CertificatesFit.                                                    *)
(***************************************************************************)
EXTENDS IngressStore, WellFoundedInduction, TLAPS

(* A handler moves on with the locals l, outside of the mutex.             *)
LEMMA MoveOn ==
  ASSUME NEW g \in Handlers, NEW l \in Locals, Fits(l),
         TypeLocals, \A k \in Handlers : Fits(h[k]), OneWriter,
         h[g].pc # "write", l.pc # "write", owner' = owner, chain' = chain,
         h' = [h EXCEPT ![g] = l]
  PROVE  TypeLocals' /\ (\A k \in Handlers : Fits(h'[k])) /\ OneWriter'
<1>1. h' \in [Handlers -> Locals]
  BY DEF TypeLocals
<1>2. TypeLocals'
  BY <1>1 DEF TypeLocals
<1>3. \A k \in Handlers : h'[k] = IF k = g THEN l ELSE h[k]
  BY DEF TypeLocals
<1>4. \A k \in Handlers : Fits(h'[k])
  BY <1>3
<1>5. OneWriter'
  BY <1>3 DEF OneWriter
<1> QED BY <1>2, <1>4, <1>5

(* What a step leaves alone keeps its type.                                *)
LEMMA SameCluster ==
  ASSUME TypeCluster, UNCHANGED cluster
  PROVE  TypeCluster'
BY DEF TypeCluster, cluster

(* The types of the store depend on the store alone.                       *)
LEMMA SameStore ==
  ASSUME TypeStore, UNCHANGED store
  PROVE  TypeStore'
BY DEF TypeStore, store

(* The types of the signal depend on the signal alone.                     *)
LEMMA SameSignal ==
  ASSUME TypeSignal, UNCHANGED <<updated, unseen, changes>>
  PROVE  TypeSignal'
BY DEF TypeSignal

(* The locals of a handler that begins.                                    *)
LEMMA IdleFits == Idle \in Locals /\ Fits(Idle)
<1>1. Nothing \in Parsed
  BY DEF Nothing, Parsed
<1>2. Idle \in Locals
  BY <1>1 DEF Idle, Locals, Labels, Kinds
<1>3. Fits(Idle)
  BY DEF Idle, Fits, Serving, OnIngress
<1> QED BY <1>2, <1>3

(* A handler moves on without writing an Ingress or sending an event: it   *)
(* may come to owe an event, never cease to.                               *)
LEMMA Quietly ==
  ASSUME NEW g \in Handlers, NEW l, h \in [Handlers -> Locals],
         h' = [h EXCEPT ![g] = l], Owing(l) \/ ~Owing(h[g]),
         updated' = updated, unseen' \cap Ingresses = unseen \cap Ingresses
  PROVE  [N!Next]_(N!vars)
<1> DEFINE W == {k \in Handlers : Owing(h[k])}
<1>1. \A k \in Handlers : h'[k] = IF k = g THEN l ELSE h[k]
  OBVIOUS
<1>2. W' = W \/ W' = W \cup {g}
  <2>1. CASE Owing(l)
    BY <1>1, <2>1
  <2>2. CASE ~Owing(l) /\ ~Owing(h[g])
    BY <1>1, <2>2
  <2> QED BY <2>1, <2>2
<1>3. CASE W' = W
  BY <1>3 DEF N!vars
<1>4. CASE W' = W \cup {g}
  <2>1. N!Begin(g)
    BY <1>4 DEF N!Begin
  <2> QED BY <2>1 DEF N!Next
<1> QED BY <1>2, <1>3, <1>4

(* A handler goes on owing, having written the annotated Ingress i or not. *)
LEMMA Writes ==
  ASSUME NEW g \in Handlers, NEW l, NEW i \in Ingresses, h \in [Handlers -> Locals],
         h' = [h EXCEPT ![g] = l], Owing(l), Owing(h[g]),
         updated' = updated, unseen' = unseen \/ unseen' = unseen \cup {i}
  PROVE  [N!Next]_(N!vars)
<1> DEFINE W == {k \in Handlers : Owing(h[k])}
<1>1. \A k \in Handlers : h'[k] = IF k = g THEN l ELSE h[k]
  OBVIOUS
<1>2. W' = W /\ g \in W
  BY <1>1
<1>3. CASE unseen' = unseen
  BY <1>2, <1>3 DEF N!vars
<1>4. CASE unseen' = unseen \cup {i}
  <2>1. unseen' \cap Ingresses = (unseen \cap Ingresses) \cup {i}
    BY <1>4
  <2>2. N!Write(g, i)
    BY <1>2, <2>1 DEF N!Write
  <2> QED BY <2>2 DEF N!Next
<1> QED BY <1>3, <1>4

(* syncIngress begins on an Ingress.                                       *)
LEMMA ExtractingFits ==
  ASSUME NEW l \in Locals, l.ing \in Ingresses, l.spec \in Specs
  PROVE  Extracting(l) \in Locals /\ Fits(Extracting(l)) /\ Extracting(l).pc = "parse"
<1>1. Nothing \in Parsed
  BY DEF Nothing, Parsed
<1> DEFINE ks == {k \in Kinds \ {"tls"} : l.spec.uses[k] # None}
<1>2. ks \in SUBSET (Kinds \ {"tls"}) /\ \A k \in ks : l.spec.uses[k] # None
  OBVIOUS
<1>3. Extracting(l) = [l EXCEPT !.pc = "parse", !.parsed = Nothing, !.kinds = ks]
  BY DEF Extracting
<1> HIDE DEF ks
<1>4. Extracting(l) \in Locals
  BY <1>1, <1>2, <1>3 DEF Locals, Labels
<1>5. Extracting(l).pc = "parse" /\ Extracting(l).kinds = ks
      /\ Extracting(l).spec = l.spec /\ Extracting(l).ing = l.ing
  BY <1>3 DEF Locals
<1>6. Fits(Extracting(l))
  BY <1>2, <1>5 DEF Fits, Serving, OnIngress
<1> QED BY <1>4, <1>5, <1>6

(* The parser of auth-secret keeps the password file of a Secret.          *)
LEMMA ParsePasswordStep ==
  ASSUME IInv, NEW g \in Handlers, ParsePassword(g)
  PROVE  IInv' /\ [N!Next]_(N!vars)
<1> DEFINE new == [h[g].parsed EXCEPT !["auth-secret"] = PasswordOf(secret[h[g].spec.uses["auth-secret"]])]
<1> DEFINE l == [h[g] EXCEPT !.kinds = h[g].kinds \ {"auth-secret"}, !.parsed = new]
<1>1. h[g] \in Locals /\ Fits(h[g])
  BY DEF IInv, TypeOK, TypeLocals, Handlers
<1>a. TypeCluster /\ TypeStore /\ TypeSignal /\ TypeLocals /\ (\A k \in Handlers : Fits(h[k])) /\ OneWriter
  BY DEF IInv, TypeOK
<1>b. new \in Parsed
  BY <1>1, <1>a, DataAssumption DEF Locals, Parsed, PasswordOf, Kinds
<1> HIDE DEF new
<1>2. l \in Locals
  BY <1>1, <1>b DEF Locals, Labels, ParsePassword
<1>3. Fits(l)
  BY <1>1 DEF Locals, Labels, Fits, Serving, OnIngress, ParsePassword
<1>4. h' = [h EXCEPT ![g] = l]
  BY <1>1 DEF ParsePassword, Locals, new
<1>5. h[g].pc # "write" /\ l.pc # "write"
  BY <1>1, <1>b DEF Locals, ParsePassword
<1>6. owner' = owner /\ chain' = chain
  BY DEF ParsePassword
<1>7. TypeCluster'
  BY <1>a, SameCluster DEF ParsePassword
<1>8. TypeStore'
  BY <1>a, SameStore DEF ParsePassword
<1>9. TypeSignal'
  BY <1>a, SameSignal DEF ParsePassword
<1>p. Owing(l) \/ ~Owing(h[g])
  BY <1>1, <1>b DEF Locals, Owing, OnIngress, Fits, Serving, ParsePassword
<1>q. updated' = updated /\ unseen' \cap Ingresses = unseen \cap Ingresses
  BY <1>1, <1>a, NameAssumption DEF ParsePassword
<1> HIDE DEF l
<1>11. [N!Next]_(N!vars)
  BY <1>a, <1>4, <1>p, <1>q, Quietly DEF TypeLocals, Handlers
<1>10. TypeLocals' /\ (\A k \in Handlers : Fits(h'[k])) /\ OneWriter'
  BY <1>a, <1>2, <1>3, <1>4, <1>5, <1>6, MoveOn DEF Handlers
<1> QED BY <1>7, <1>8, <1>9, <1>10, <1>11 DEF IInv, TypeOK

(* A parser asks for a certificate, which is synchronized when missing.    *)
LEMMA ParseCertificateStep ==
  ASSUME IInv, NEW g \in Handlers, NEW kd \in CertificateKinds, ParseCertificate(g, kd)
  PROVE  IInv' /\ [N!Next]_(N!vars)
<1> DEFINE s == h[g].spec.uses[kd]
<1> DEFINE label == IF certs[s] = Absent THEN "sync" ELSE "fetch"
<1> DEFINE l == [h[g] EXCEPT !.kinds = h[g].kinds \ {kd}, !.kind = kd, !.cur = s, !.pc = label, !.ret = "fetch"]
<1>1. h[g] \in Locals /\ Fits(h[g])
  BY DEF IInv, TypeOK, TypeLocals, Handlers
<1>a. TypeCluster /\ TypeStore /\ TypeSignal /\ TypeLocals /\ (\A k \in Handlers : Fits(h[k])) /\ OneWriter
  BY DEF IInv, TypeOK
<1>b. s \in Secrets /\ kd \in Kinds
  BY <1>1, SpecAssumption DEF ParseCertificate, Fits, OnIngress, CertificateKinds, Kinds
<1>c. label \in {"sync", "fetch"}
  OBVIOUS
<1>d. h' = [h EXCEPT ![g] = l]
  BY DEF ParseCertificate
<1> HIDE DEF s, label
<1>2. l \in Locals
  BY <1>1, <1>b, <1>c DEF Locals, Labels, ParseCertificate
<1>3. Fits(l)
  BY <1>1, <1>b, <1>c DEF Locals, Labels, Fits, Serving, OnIngress, ParseCertificate
<1>4. h' = [h EXCEPT ![g] = l]
  BY <1>d
<1>5. h[g].pc # "write" /\ l.pc # "write"
  BY <1>1, <1>b, <1>c DEF Locals, ParseCertificate
<1>6. owner' = owner /\ chain' = chain
  BY DEF ParseCertificate
<1>7. TypeCluster'
  BY <1>a, SameCluster DEF ParseCertificate
<1>8. TypeStore'
  BY <1>a, SameStore DEF ParseCertificate
<1>9. TypeSignal'
  BY <1>a, SameSignal DEF ParseCertificate
<1>p. Owing(l) \/ ~Owing(h[g])
  BY <1>1, <1>b, <1>c DEF Locals, Owing, OnIngress, Fits, Serving, ParseCertificate
<1>q. updated' = updated /\ unseen' \cap Ingresses = unseen \cap Ingresses
  BY <1>1, <1>a, NameAssumption DEF ParseCertificate
<1> HIDE DEF l
<1>11. [N!Next]_(N!vars)
  BY <1>a, <1>4, <1>p, <1>q, Quietly DEF TypeLocals, Handlers
<1>10. TypeLocals' /\ (\A k \in Handlers : Fits(h'[k])) /\ OneWriter'
  BY <1>a, <1>2, <1>3, <1>4, <1>5, <1>6, MoveOn DEF Handlers
<1> QED BY <1>7, <1>8, <1>9, <1>10, <1>11 DEF IInv, TypeOK

(* A parser takes the certificate out of the store.                        *)
LEMMA FetchStep ==
  ASSUME IInv, NEW g \in Handlers, FetchCertificate(g)
  PROVE  IInv' /\ [N!Next]_(N!vars)
<1> DEFINE new == [h[g].parsed EXCEPT ![h[g].kind] = ContentOf(certs[h[g].cur])]
<1> DEFINE l == [h[g] EXCEPT !.pc = "parse", !.parsed = new]
<1>1. h[g] \in Locals /\ Fits(h[g])
  BY DEF IInv, TypeOK, TypeLocals, Handlers
<1>a. TypeCluster /\ TypeStore /\ TypeSignal /\ TypeLocals /\ (\A k \in Handlers : Fits(h[k])) /\ OneWriter
  BY DEF IInv, TypeOK
<1>b. h[g].cur \in Secrets /\ h[g].kind \in Kinds /\ h[g].parsed \in Parsed
  BY <1>1 DEF FetchCertificate, Fits, Locals
<1>c. ContentOf(certs[h[g].cur]) \in Data \cup {Absent}
  BY <1>a, <1>b, DataAssumption DEF TypeStore, ContentOf
<1>d. new \in Parsed
  BY <1>b, <1>c DEF Parsed
<1> HIDE DEF new
<1>2. l \in Locals
  BY <1>1, <1>d DEF Locals, Labels, FetchCertificate
<1>3. Fits(l)
  BY <1>1 DEF Locals, Labels, Fits, Serving, OnIngress, FetchCertificate
<1>4. h' = [h EXCEPT ![g] = l]
  BY <1>1 DEF FetchCertificate, Locals, new
<1>5. h[g].pc # "write" /\ l.pc # "write"
  BY <1>1, <1>d DEF Locals, FetchCertificate
<1>6. owner' = owner /\ chain' = chain
  BY DEF FetchCertificate
<1>7. TypeCluster'
  BY <1>a, SameCluster DEF FetchCertificate
<1>8. TypeStore'
  BY <1>a, SameStore DEF FetchCertificate
<1>9. TypeSignal'
  BY <1>a, SameSignal DEF FetchCertificate
<1>p. Owing(l) \/ ~Owing(h[g])
  BY <1>1, <1>d DEF Locals, Owing, OnIngress, Fits, Serving, FetchCertificate
<1>q. updated' = updated /\ unseen' \cap Ingresses = unseen \cap Ingresses
  BY <1>1, <1>a, NameAssumption DEF FetchCertificate
<1> HIDE DEF l
<1>11. [N!Next]_(N!vars)
  BY <1>a, <1>4, <1>p, <1>q, Quietly DEF TypeLocals, Handlers
<1>10. TypeLocals' /\ (\A k \in Handlers : Fits(h'[k])) /\ OneWriter'
  BY <1>a, <1>2, <1>3, <1>4, <1>5, <1>6, MoveOn DEF Handlers
<1> QED BY <1>7, <1>8, <1>9, <1>10, <1>11 DEF IInv, TypeOK

(* syncSecret returns at a Secret without a certificate.                   *)
LEMMA SyncNothingStep ==
  ASSUME IInv, NEW g \in Handlers, SyncNothing(g)
  PROVE  IInv' /\ [N!Next]_(N!vars)
<1> DEFINE l == [h[g] EXCEPT !.pc = h[g].ret]
<1>1. h[g] \in Locals /\ Fits(h[g])
  BY DEF IInv, TypeOK, TypeLocals, Handlers
<1>a. TypeCluster /\ TypeStore /\ TypeSignal /\ TypeLocals /\ (\A k \in Handlers : Fits(h[k])) /\ OneWriter
  BY DEF IInv, TypeOK
<1>2. l \in Locals
  BY <1>1 DEF Locals, Labels, SyncNothing
<1>3. Fits(l)
  BY <1>1 DEF Locals, Labels, Fits, Serving, OnIngress, SyncNothing
<1>4. h' = [h EXCEPT ![g] = l]
  BY DEF SyncNothing
<1>5. h[g].pc # "write" /\ l.pc # "write"
  BY <1>1 DEF Locals, Fits, Serving, SyncNothing
<1>6. owner' = owner /\ chain' = chain
  BY DEF SyncNothing
<1>7. TypeCluster'
  BY <1>a, SameCluster DEF SyncNothing
<1>8. TypeStore'
  BY <1>a, SameStore DEF SyncNothing
<1>9. TypeSignal'
  BY <1>a, SameSignal DEF SyncNothing
<1>p. Owing(l) \/ ~Owing(h[g])
  BY <1>1 DEF Locals, Owing, OnIngress, Fits, Serving, SyncNothing
<1>q. updated' = updated /\ unseen' \cap Ingresses = unseen \cap Ingresses
  BY <1>1, <1>a, NameAssumption DEF SyncNothing
<1> HIDE DEF l
<1>11. [N!Next]_(N!vars)
  BY <1>a, <1>4, <1>p, <1>q, Quietly DEF TypeLocals, Handlers
<1>10. TypeLocals' /\ (\A k \in Handlers : Fits(h'[k])) /\ OneWriter'
  BY <1>a, <1>2, <1>3, <1>4, <1>5, <1>6, MoveOn DEF Handlers
<1> QED BY <1>7, <1>8, <1>9, <1>10, <1>11 DEF IInv, TypeOK

(* The references of an Ingress are deleted ...                            *)
LEMMA DeleteReferencesStep ==
  ASSUME IInv, NEW g \in Handlers, DeleteReferences(g)
  PROVE  IInv' /\ [N!Next]_(N!vars)
<1> DEFINE l == [h[g] EXCEPT !.pc = IF h[g].gone THEN "notify" ELSE "ref"]
<1>1. h[g] \in Locals /\ Fits(h[g])
  BY DEF IInv, TypeOK, TypeLocals, Handlers
<1>a. TypeCluster /\ TypeStore /\ TypeSignal /\ TypeLocals /\ (\A k \in Handlers : Fits(h[k])) /\ OneWriter
  BY DEF IInv, TypeOK
<1>2. l \in Locals
  BY <1>1 DEF Locals, Labels, DeleteReferences
<1>3. Fits(l)
  BY <1>1 DEF Locals, Labels, Fits, Serving, OnIngress, DeleteReferences
<1>4. h' = [h EXCEPT ![g] = l]
  BY DEF DeleteReferences
<1>5. h[g].pc # "write" /\ l.pc # "write"
  BY <1>1 DEF Locals, DeleteReferences
<1>6. owner' = owner /\ chain' = chain
  BY DEF DeleteReferences
<1>7. TypeCluster'
  BY <1>a, SameCluster DEF DeleteReferences
<1>8. TypeStore'
  BY <1>a DEF TypeStore, DeleteReferences
<1>9. TypeSignal'
  BY <1>a, SameSignal DEF DeleteReferences
<1>p. Owing(l) \/ ~Owing(h[g])
  BY <1>1 DEF Locals, Owing, OnIngress, Fits, Serving, DeleteReferences
<1>q. updated' = updated /\ unseen' \cap Ingresses = unseen \cap Ingresses
  BY <1>1, <1>a, NameAssumption DEF DeleteReferences
<1> HIDE DEF l
<1>11. [N!Next]_(N!vars)
  BY <1>a, <1>4, <1>p, <1>q, Quietly DEF TypeLocals, Handlers
<1>10. TypeLocals' /\ (\A k \in Handlers : Fits(h'[k])) /\ OneWriter'
  BY <1>a, <1>2, <1>3, <1>4, <1>5, <1>6, MoveOn DEF Handlers
<1> QED BY <1>7, <1>8, <1>9, <1>10, <1>11 DEF IInv, TypeOK

(* ... and those of its new specification inserted.                        *)
LEMMA InsertReferencesStep ==
  ASSUME IInv, NEW g \in Handlers, InsertReferences(g)
  PROVE  IInv' /\ [N!Next]_(N!vars)
<1> DEFINE l == [h[g] EXCEPT !.pc = "list"]
<1>1. h[g] \in Locals /\ Fits(h[g])
  BY DEF IInv, TypeOK, TypeLocals, Handlers
<1>a. TypeCluster /\ TypeStore /\ TypeSignal /\ TypeLocals /\ (\A k \in Handlers : Fits(h[k])) /\ OneWriter
  BY DEF IInv, TypeOK
<1>2. l \in Locals
  BY <1>1 DEF Locals, Labels, InsertReferences
<1>3. Fits(l)
  BY <1>1 DEF Locals, Labels, Fits, Serving, OnIngress, InsertReferences
<1>4. h' = [h EXCEPT ![g] = l]
  BY DEF InsertReferences
<1>5. h[g].pc # "write" /\ l.pc # "write"
  BY <1>1 DEF Locals, InsertReferences
<1>6. owner' = owner /\ chain' = chain
  BY DEF InsertReferences
<1>7. TypeCluster'
  BY <1>a, SameCluster DEF InsertReferences
<1>b. h[g].spec \in Specs /\ h[g].ing \in Ingresses
  BY <1>1 DEF Fits, OnIngress, InsertReferences
<1>c. Named(h[g].spec, RecordedKinds) \subseteq Secrets
  BY <1>b, SpecAssumption DEF Named, RecordedKinds, Kinds
<1>8. TypeStore'
  BY <1>a, <1>b, <1>c DEF TypeStore, InsertReferences
<1>9. TypeSignal'
  BY <1>a, SameSignal DEF InsertReferences
<1>p. Owing(l) \/ ~Owing(h[g])
  BY <1>1 DEF Locals, Owing, OnIngress, Fits, Serving, InsertReferences
<1>q. updated' = updated /\ unseen' \cap Ingresses = unseen \cap Ingresses
  BY <1>1, <1>a, NameAssumption DEF InsertReferences
<1> HIDE DEF l
<1>11. [N!Next]_(N!vars)
  BY <1>a, <1>4, <1>p, <1>q, Quietly DEF TypeLocals, Handlers
<1>10. TypeLocals' /\ (\A k \in Handlers : Fits(h'[k])) /\ OneWriter'
  BY <1>a, <1>2, <1>3, <1>4, <1>5, <1>6, MoveOn DEF Handlers
<1> QED BY <1>7, <1>8, <1>9, <1>10, <1>11 DEF IInv, TypeOK

(* syncSecrets lists the Secrets of an Ingress ...                         *)
LEMMA ListStep ==
  ASSUME IInv, NEW g \in Handlers, ListSecrets(g)
  PROVE  IInv' /\ [N!Next]_(N!vars)
<1> DEFINE l == [h[g] EXCEPT !.pc = "each", !.secs = {s \in Secrets : <<s, h[g].ing>> \in refs}]
<1>1. h[g] \in Locals /\ Fits(h[g])
  BY DEF IInv, TypeOK, TypeLocals, Handlers
<1>a. TypeCluster /\ TypeStore /\ TypeSignal /\ TypeLocals /\ (\A k \in Handlers : Fits(h[k])) /\ OneWriter
  BY DEF IInv, TypeOK
<1>2. l \in Locals
  BY <1>1 DEF Locals, Labels, ListSecrets
<1>3. Fits(l)
  BY <1>1 DEF Locals, Labels, Fits, Serving, OnIngress, ListSecrets
<1>4. h' = [h EXCEPT ![g] = l]
  BY DEF ListSecrets
<1>5. h[g].pc # "write" /\ l.pc # "write"
  BY <1>1 DEF Locals, ListSecrets
<1>6. owner' = owner /\ chain' = chain
  BY DEF ListSecrets
<1>7. TypeCluster'
  BY <1>a, SameCluster DEF ListSecrets
<1>8. TypeStore'
  BY <1>a, SameStore DEF ListSecrets
<1>9. TypeSignal'
  BY <1>a, SameSignal DEF ListSecrets
<1>p. Owing(l) \/ ~Owing(h[g])
  BY <1>1 DEF Locals, Owing, OnIngress, Fits, Serving, ListSecrets
<1>q. updated' = updated /\ unseen' \cap Ingresses = unseen \cap Ingresses
  BY <1>1, <1>a, NameAssumption DEF ListSecrets
<1> HIDE DEF l
<1>11. [N!Next]_(N!vars)
  BY <1>a, <1>4, <1>p, <1>q, Quietly DEF TypeLocals, Handlers
<1>10. TypeLocals' /\ (\A k \in Handlers : Fits(h'[k])) /\ OneWriter'
  BY <1>a, <1>2, <1>3, <1>4, <1>5, <1>6, MoveOn DEF Handlers
<1> QED BY <1>7, <1>8, <1>9, <1>10, <1>11 DEF IInv, TypeOK

(* ... and synchronizes one after the other.                               *)
LEMMA SyncEachStep ==
  ASSUME IInv, NEW g \in Handlers, NEW s \in Secrets, SyncEach(g, s)
  PROVE  IInv' /\ [N!Next]_(N!vars)
<1> DEFINE l == [h[g] EXCEPT !.pc = "sync", !.secs = @ \ {s}, !.cur = s, !.ret = "each"]
<1>1. h[g] \in Locals /\ Fits(h[g])
  BY DEF IInv, TypeOK, TypeLocals, Handlers
<1>a. TypeCluster /\ TypeStore /\ TypeSignal /\ TypeLocals /\ (\A k \in Handlers : Fits(h[k])) /\ OneWriter
  BY DEF IInv, TypeOK
<1>2. l \in Locals
  BY <1>1 DEF Locals, Labels, SyncEach
<1>3. Fits(l)
  BY <1>1 DEF Locals, Labels, Fits, Serving, OnIngress, SyncEach
<1>4. h' = [h EXCEPT ![g] = l]
  BY DEF SyncEach
<1>5. h[g].pc # "write" /\ l.pc # "write"
  BY <1>1 DEF Locals, SyncEach
<1>6. owner' = owner /\ chain' = chain
  BY DEF SyncEach
<1>7. TypeCluster'
  BY <1>a, SameCluster DEF SyncEach
<1>8. TypeStore'
  BY <1>a, SameStore DEF SyncEach
<1>9. TypeSignal'
  BY <1>a, SameSignal DEF SyncEach
<1>p. Owing(l) \/ ~Owing(h[g])
  BY <1>1 DEF Locals, Owing, OnIngress, Fits, Serving, SyncEach
<1>q. updated' = updated /\ unseen' \cap Ingresses = unseen \cap Ingresses
  BY <1>1, <1>a, NameAssumption DEF SyncEach
<1> HIDE DEF l
<1>11. [N!Next]_(N!vars)
  BY <1>a, <1>4, <1>p, <1>q, Quietly DEF TypeLocals, Handlers
<1>10. TypeLocals' /\ (\A k \in Handlers : Fits(h'[k])) /\ OneWriter'
  BY <1>a, <1>2, <1>3, <1>4, <1>5, <1>6, MoveOn DEF Handlers
<1> QED BY <1>7, <1>8, <1>9, <1>10, <1>11 DEF IInv, TypeOK

(* The Secret handler looks up the Ingresses that name the Secret.         *)
LEMMA FindReferencesStep ==
  ASSUME IInv, NEW g \in Handlers, FindReferences(g)
  PROVE  IInv' /\ [N!Next]_(N!vars)
<1> DEFINE found == {i \in Ingresses : <<h[g].sec, i>> \in refs}
<1> DEFINE l == IF found = {} THEN Idle ELSE [h[g] EXCEPT !.pc = "next", !.ings = found]
<1>1. h[g] \in Locals /\ Fits(h[g])
  BY DEF IInv, TypeOK, TypeLocals, Handlers
<1>a. TypeCluster /\ TypeStore /\ TypeSignal /\ TypeLocals /\ (\A k \in Handlers : Fits(h[k])) /\ OneWriter
  BY DEF IInv, TypeOK
<1>b. found \in SUBSET Ingresses
  OBVIOUS
<1>c. h' = [h EXCEPT ![g] = l]
  BY DEF FindReferences
<1>d. Idle.pc = "idle"
  BY DEF Idle
<1> HIDE DEF found
<1>2. l \in Locals
  <2>1. [h[g] EXCEPT !.pc = "next", !.ings = found] \in Locals
    BY <1>1, <1>b DEF Locals, Labels
  <2> QED BY <2>1, IdleFits
<1>3. Fits(l)
  BY <1>1, IdleFits DEF Locals, Labels, Fits, Serving, OnIngress, FindReferences
<1>4. h' = [h EXCEPT ![g] = l]
  BY <1>c
<1>5. h[g].pc # "write" /\ l.pc # "write"
  BY <1>1, <1>b, <1>d DEF Locals, FindReferences
<1>6. owner' = owner /\ chain' = chain
  BY DEF FindReferences
<1>7. TypeCluster'
  BY <1>a, SameCluster DEF FindReferences
<1>8. TypeStore'
  BY <1>a, SameStore DEF FindReferences
<1>9. TypeSignal'
  BY <1>a, SameSignal DEF FindReferences
<1>p. Owing(l) \/ ~Owing(h[g])
  BY <1>1, <1>b, <1>d DEF Locals, Owing, OnIngress, Fits, Serving, FindReferences
<1>q. updated' = updated /\ unseen' \cap Ingresses = unseen \cap Ingresses
  BY <1>1, <1>a, NameAssumption DEF FindReferences
<1> HIDE DEF l
<1>11. [N!Next]_(N!vars)
  BY <1>a, <1>4, <1>p, <1>q, Quietly DEF TypeLocals, Handlers
<1>10. TypeLocals' /\ (\A k \in Handlers : Fits(h'[k])) /\ OneWriter'
  BY <1>a, <1>2, <1>3, <1>4, <1>5, <1>6, MoveOn DEF Handlers
<1> QED BY <1>7, <1>8, <1>9, <1>10, <1>11 DEF IInv, TypeOK

(* A deleted Ingress leaves the list; its handler owes an event.           *)
LEMMA ForgetStep ==
  ASSUME IInv, NEW g \in Handlers, ForgetIngress(g)
  PROVE  IInv' /\ [N!Next]_(N!vars)
<1> DEFINE l == [h[g] EXCEPT !.pc = "unref"]
<1>1. h[g] \in Locals /\ Fits(h[g])
  BY DEF IInv, TypeOK, TypeLocals, Handlers
<1>a. TypeCluster /\ TypeStore /\ TypeSignal /\ TypeLocals /\ (\A k \in Handlers : Fits(h[k])) /\ OneWriter
  BY DEF IInv, TypeOK
<1>b. h[g].ing \in Ingresses
  BY <1>1 DEF ForgetIngress, Fits, OnIngress
<1>2. l \in Locals
  BY <1>1 DEF Locals, Labels, ForgetIngress
<1>3. Fits(l)
  BY <1>1 DEF Locals, Labels, Fits, Serving, OnIngress, ForgetIngress
<1>4. h' = [h EXCEPT ![g] = l]
  BY DEF ForgetIngress
<1>5. h[g].pc # "write" /\ l.pc # "write"
  BY <1>1 DEF Locals, ForgetIngress
<1>6. owner' = owner /\ chain' = chain
  BY DEF ForgetIngress
<1>7. TypeCluster'
  BY <1>a, SameCluster DEF ForgetIngress
<1>8. TypeStore'
  BY <1>a, <1>b DEF TypeStore, ForgetIngress
<1>9. TypeSignal'
  BY <1>a, <1>b DEF TypeSignal, ForgetIngress
<1>p. Owing(l) /\ Owing(h[g])
  BY <1>1 DEF Locals, Owing, OnIngress, ForgetIngress
<1>q. updated' = updated /\ (unseen' = unseen \/ unseen' = unseen \cup {h[g].ing})
  BY DEF ForgetIngress
<1> HIDE DEF l
<1>11. [N!Next]_(N!vars)
  BY <1>a, <1>b, <1>4, <1>p, <1>q, Writes DEF TypeLocals
<1>10. TypeLocals' /\ (\A k \in Handlers : Fits(h'[k])) /\ OneWriter'
  BY <1>a, <1>2, <1>3, <1>4, <1>5, <1>6, MoveOn DEF Handlers
<1> QED BY <1>7, <1>8, <1>9, <1>10, <1>11 DEF IInv, TypeOK

(* syncIngress puts the Ingress; the handler still owes its event.         *)
LEMMA UpdateStep ==
  ASSUME IInv, NEW g \in Handlers, UpdateAnnotated(g)
  PROVE  IInv' /\ [N!Next]_(N!vars)
<1> DEFINE l == [h[g] EXCEPT !.pc = AfterUpdate(g)]
<1>1. h[g] \in Locals /\ Fits(h[g])
  BY DEF IInv, TypeOK, TypeLocals, Handlers
<1>a. TypeCluster /\ TypeStore /\ TypeSignal /\ TypeLocals /\ (\A k \in Handlers : Fits(h[k])) /\ OneWriter
  BY DEF IInv, TypeOK
<1>b. h[g].ing \in Ingresses /\ h[g].spec \in Specs /\ h[g].parsed \in Parsed
  BY <1>1 DEF UpdateAnnotated, Fits, OnIngress, Locals
<1>c. AfterUpdate(g) \in {"unref", "list", "next"}
  BY DEF AfterUpdate
<1>2. l \in Locals
  BY <1>1, <1>c DEF Locals, Labels, UpdateAnnotated
<1>3. Fits(l)
  BY <1>1, <1>b, <1>c DEF Locals, Labels, Fits, Serving, OnIngress, UpdateAnnotated
<1>4. h' = [h EXCEPT ![g] = l]
  BY DEF UpdateAnnotated
<1>5. h[g].pc # "write" /\ l.pc # "write"
  BY <1>1, <1>c DEF Locals, UpdateAnnotated
<1>6. owner' = owner /\ chain' = chain
  BY DEF UpdateAnnotated
<1>7. TypeCluster'
  BY <1>a, SameCluster DEF UpdateAnnotated
<1>8. TypeStore'
  BY <1>a, <1>b DEF TypeStore, UpdateAnnotated
<1>9. TypeSignal'
  BY <1>a, <1>b DEF TypeSignal, UpdateAnnotated
<1>p. Owing(l) /\ Owing(h[g])
  BY <1>1, <1>c DEF Locals, Owing, OnIngress, UpdateAnnotated
<1>q. updated' = updated /\ (unseen' = unseen \/ unseen' = unseen \cup {h[g].ing})
  BY DEF UpdateAnnotated
<1> HIDE DEF l
<1>11. [N!Next]_(N!vars)
  BY <1>a, <1>b, <1>4, <1>p, <1>q, Writes DEF TypeLocals
<1>10. TypeLocals' /\ (\A k \in Handlers : Fits(h'[k])) /\ OneWriter'
  BY <1>a, <1>2, <1>3, <1>4, <1>5, <1>6, MoveOn DEF Handlers
<1> QED BY <1>7, <1>8, <1>9, <1>10, <1>11 DEF IInv, TypeOK

(* The certificate of a deleted Secret leaves the store.                   *)
LEMMA DropStep ==
  ASSUME IInv, NEW g \in Handlers, DropCertificate(g)
  PROVE  IInv' /\ [N!Next]_(N!vars)
<1> DEFINE l == [h[g] EXCEPT !.pc = "lookup"]
<1>1. h[g] \in Locals /\ Fits(h[g])
  BY DEF IInv, TypeOK, TypeLocals, Handlers
<1>a. TypeCluster /\ TypeStore /\ TypeSignal /\ TypeLocals /\ (\A k \in Handlers : Fits(h[k])) /\ OneWriter
  BY DEF IInv, TypeOK
<1>b. h[g].sec \in Secrets
  BY <1>1 DEF DropCertificate, Fits
<1>2. l \in Locals
  BY <1>1 DEF Locals, Labels, DropCertificate
<1>3. Fits(l)
  BY <1>1 DEF Locals, Labels, Fits, Serving, OnIngress, DropCertificate
<1>4. h' = [h EXCEPT ![g] = l]
  BY DEF DropCertificate
<1>5. h[g].pc # "write" /\ l.pc # "write"
  BY <1>1 DEF Locals, DropCertificate
<1>6. owner' = owner /\ chain' = chain
  BY DEF DropCertificate
<1>7. TypeCluster'
  BY <1>a, SameCluster DEF DropCertificate
<1>8. TypeStore'
  BY <1>a, <1>b DEF TypeStore, DropCertificate
<1>9. TypeSignal'
  BY <1>a, <1>b DEF TypeSignal, DropCertificate
<1>p. Owing(l) \/ ~Owing(h[g])
  BY <1>1, <1>b DEF Locals, Owing, OnIngress, Fits, Serving, DropCertificate
<1>q. updated' = updated /\ unseen' \cap Ingresses = unseen \cap Ingresses
  BY <1>1, <1>a, <1>b, NameAssumption DEF DropCertificate
<1> HIDE DEF l
<1>11. [N!Next]_(N!vars)
  BY <1>a, <1>4, <1>p, <1>q, Quietly DEF TypeLocals, Handlers
<1>10. TypeLocals' /\ (\A k \in Handlers : Fits(h'[k])) /\ OneWriter'
  BY <1>a, <1>2, <1>3, <1>4, <1>5, <1>6, MoveOn DEF Handlers
<1> QED BY <1>7, <1>8, <1>9, <1>10, <1>11 DEF IInv, TypeOK

(* The next Ingress to parse again may have gone.                          *)
LEMMA NextIngressStep ==
  ASSUME IInv, NEW g \in Handlers, NEW i \in Ingresses, NextIngress(g, i)
  PROVE  IInv' /\ [N!Next]_(N!vars)
<1> DEFINE skip == [h[g] EXCEPT !.ings = h[g].ings \ {i}]
<1> DEFINE taken == [h[g] EXCEPT !.ings = h[g].ings \ {i}, !.ing = i, !.spec = annotated[i].spec]
<1> DEFINE l == IF annotated[i] = Absent THEN skip ELSE Extracting(taken)
<1>1. h[g] \in Locals /\ Fits(h[g])
  BY DEF IInv, TypeOK, TypeLocals, Handlers
<1>a. TypeCluster /\ TypeStore /\ TypeSignal /\ TypeLocals /\ (\A k \in Handlers : Fits(h[k])) /\ OneWriter
  BY DEF IInv, TypeOK
<1>b. skip \in Locals /\ skip.pc = "next" /\ Fits(skip)
  BY <1>1 DEF NextIngress, Locals, Labels, Fits, Serving, OnIngress
<1>c. annotated[i] # Absent => annotated[i].spec \in Specs
  BY <1>a DEF TypeStore
<1>d. annotated[i] # Absent => taken \in Locals /\ taken.ing \in Ingresses /\ taken.spec \in Specs
  BY <1>1, <1>c DEF Locals
<1>e. h' = [h EXCEPT ![g] = l]
  <2>1. CASE annotated[i] = Absent
    BY <2>1 DEF NextIngress
  <2>2. CASE annotated[i] # Absent
    BY <2>2 DEF NextIngress, Extracting
  <2> QED BY <2>1, <2>2
<1> HIDE DEF skip, taken
<1>f. annotated[i] # Absent => Extracting(taken) \in Locals /\ Fits(Extracting(taken))
                               /\ Extracting(taken).pc = "parse"
  BY <1>d, ExtractingFits
<1>2. l \in Locals
  BY <1>b, <1>f
<1>3. Fits(l)
  BY <1>b, <1>f
<1>4. h' = [h EXCEPT ![g] = l]
  BY <1>e
<1>5. h[g].pc # "write" /\ l.pc # "write"
  BY <1>b, <1>f DEF NextIngress
<1>6. owner' = owner /\ chain' = chain
  BY DEF NextIngress
<1>7. TypeCluster'
  BY <1>a, SameCluster DEF NextIngress
<1>8. TypeStore'
  BY <1>a, SameStore DEF NextIngress
<1>9. TypeSignal'
  BY <1>a, SameSignal DEF NextIngress
<1>p. Owing(l)
  BY <1>b, <1>f DEF Owing, OnIngress
<1>q. updated' = updated /\ unseen' = unseen
  BY DEF NextIngress
<1> HIDE DEF l
<1>11. [N!Next]_(N!vars)
  BY <1>a, <1>4, <1>p, <1>q, Quietly DEF TypeLocals
<1>10. TypeLocals' /\ (\A k \in Handlers : Fits(h'[k])) /\ OneWriter'
  BY <1>a, <1>2, <1>3, <1>4, <1>5, <1>6, MoveOn DEF Handlers
<1> QED BY <1>7, <1>8, <1>9, <1>10, <1>11 DEF IInv, TypeOK

(* The handler ends, sending the event it owes.                            *)
LEMMA SendStep ==
  ASSUME IInv, NEW g \in Handlers, SendEvent(g)
  PROVE  IInv' /\ [N!Next]_(N!vars)
<1> DEFINE l == Idle
<1>1. h[g] \in Locals /\ Fits(h[g])
  BY DEF IInv, TypeOK, TypeLocals, Handlers
<1>a. TypeCluster /\ TypeStore /\ TypeSignal /\ TypeLocals /\ (\A k \in Handlers : Fits(h[k])) /\ OneWriter
  BY DEF IInv, TypeOK
<1>b. h' = [h EXCEPT ![g] = l]
  BY DEF SendEvent
<1>2. l \in Locals
  BY IdleFits
<1>3. Fits(l)
  BY IdleFits
<1>4. h' = [h EXCEPT ![g] = l]
  BY <1>b
<1>5. h[g].pc # "write" /\ l.pc # "write"
  BY <1>1, IdleFits DEF Locals, Idle, Finished, SendEvent
<1>6. owner' = owner /\ chain' = chain
  BY DEF SendEvent
<1>7. TypeCluster'
  BY <1>a, SameCluster DEF SendEvent
<1>8. TypeStore'
  BY <1>a, SameStore DEF SendEvent
<1>9. TypeSignal'
  BY <1>a DEF TypeSignal, SendEvent
<1>p. ~Owing(l)
  BY DEF Owing, OnIngress, Idle
<1>q. updated' = TRUE /\ unseen' = unseen
  BY DEF SendEvent
<1> HIDE DEF l
<1>r. \A k \in Handlers : h'[k] = IF k = g THEN l ELSE h[k]
  BY <1>a, <1>4 DEF TypeLocals
<1>11. [N!Next]_(N!vars)
  <2>1. {k \in Handlers : Owing(h'[k])} = {k \in Handlers : Owing(h[k])} \ {g}
    BY <1>p, <1>r
  <2>2. N!End(g)
    BY <1>q, <2>1 DEF N!End
  <2> QED BY <2>2 DEF N!Next
<1>10. TypeLocals' /\ (\A k \in Handlers : Fits(h'[k])) /\ OneWriter'
  BY <1>a, <1>2, <1>3, <1>4, <1>5, <1>6, MoveOn DEF Handlers
<1> QED BY <1>7, <1>8, <1>9, <1>10, <1>11 DEF IInv, TypeOK

(* The Secret handler has synchronized the Secrets of an Ingress.          *)
LEMMA SyncedStep ==
  ASSUME IInv, SyncedAll
  PROVE  IInv' /\ [N!Next]_(N!vars)
<1> DEFINE l == [h["secret"] EXCEPT !.pc = "next"]
<1>1. h["secret"] \in Locals /\ Fits(h["secret"])
  BY DEF IInv, TypeOK, TypeLocals, Handlers
<1>a. TypeCluster /\ TypeStore /\ TypeSignal /\ TypeLocals /\ (\A k \in Handlers : Fits(h[k])) /\ OneWriter
  BY DEF IInv, TypeOK
<1>2. l \in Locals
  BY <1>1 DEF Locals, Labels, SyncedAll
<1>3. Fits(l)
  BY <1>1 DEF Locals, Labels, Fits, Serving, OnIngress, SyncedAll
<1>4. h' = [h EXCEPT !["secret"] = l]
  BY DEF SyncedAll
<1>5. h["secret"].pc # "write" /\ l.pc # "write"
  BY <1>1 DEF Locals, SyncedAll
<1>6. owner' = owner /\ chain' = chain
  BY DEF SyncedAll
<1>7. TypeCluster'
  BY <1>a, SameCluster DEF SyncedAll
<1>8. TypeStore'
  BY <1>a, SameStore DEF SyncedAll
<1>9. TypeSignal'
  BY <1>a, SameSignal DEF SyncedAll
<1>p. Owing(l) \/ ~Owing(h["secret"])
  BY <1>1 DEF Locals, Owing, OnIngress, Fits, Serving, SyncedAll
<1>q. updated' = updated /\ unseen' \cap Ingresses = unseen \cap Ingresses
  BY <1>1, <1>a, NameAssumption DEF SyncedAll
<1> HIDE DEF l
<1>11. [N!Next]_(N!vars)
  BY <1>a, <1>4, <1>p, <1>q, Quietly DEF TypeLocals, Handlers
<1>10. TypeLocals' /\ (\A k \in Handlers : Fits(h'[k])) /\ OneWriter'
  BY <1>a, <1>2, <1>3, <1>4, <1>5, <1>6, MoveOn DEF Handlers
<1> QED BY <1>7, <1>8, <1>9, <1>10, <1>11 DEF IInv, TypeOK

(* syncSecret takes the mutex, reading the Secret ...                      *)
LEMMA ReadSecretStep ==
  ASSUME IInv, NEW g \in Handlers, ReadSecret(g)
  PROVE  IInv' /\ [N!Next]_(N!vars)
<1> DEFINE l == [h[g] EXCEPT !.pc = "write", !.read = secret[h[g].cur]]
<1>1. h[g] \in Locals /\ Fits(h[g])
  BY DEF IInv, TypeOK, TypeLocals
<1>a. TypeCluster /\ TypeStore /\ TypeSignal /\ TypeLocals /\ (\A k \in Handlers : Fits(h[k])) /\ OneWriter
  BY DEF IInv, TypeOK
<1>2. l \in Locals
  BY <1>1 DEF Locals, Labels, ReadSecret
<1>3. Fits(l)
  BY <1>1 DEF Locals, Labels, Fits, Serving, OnIngress, ReadSecret
<1>4. h' = [h EXCEPT ![g] = l]
  BY DEF ReadSecret
<1>5. l.pc = "write" /\ owner = None /\ owner' = g /\ chain' = chain
  BY <1>1 DEF Locals, ReadSecret
<1>7. TypeCluster'
  BY <1>a, SameCluster DEF ReadSecret
<1>8. TypeStore'
  BY <1>a, SameStore DEF ReadSecret
<1>9. TypeSignal'
  BY <1>a, SameSignal DEF ReadSecret
<1>b. Owing(l) \/ ~Owing(h[g])
  BY <1>1 DEF Locals, Owing, OnIngress, ReadSecret
<1>13. [N!Next]_(N!vars)
  <2>1. updated' = updated /\ unseen' = unseen
    BY DEF ReadSecret
  <2> HIDE DEF l
  <2> QED BY <1>a, <1>4, <1>b, <2>1, Quietly DEF TypeLocals
<1>10. TypeLocals' /\ \A k \in Handlers : h'[k] = IF k = g THEN l ELSE h[k]
  BY <1>a, <1>2, <1>4, <1>5 DEF TypeLocals
<1>11. \A k \in Handlers : Fits(h'[k])
  BY <1>a, <1>3, <1>10
<1>12. OneWriter'
  BY <1>a, <1>5, <1>10, NameAssumption DEF OneWriter
<1> QED BY <1>7, <1>8, <1>9, <1>10, <1>11, <1>12, <1>13 DEF IInv, TypeOK

(* ... and lets go of it, having written the certificate.                  *)
LEMMA WriteStep ==
  ASSUME IInv, NEW g \in Handlers, WriteCertificate(g)
  PROVE  IInv' /\ [N!Next]_(N!vars)
<1> DEFINE l == [h[g] EXCEPT !.pc = h[g].ret, !.read = Absent]
<1>1. h[g] \in Locals /\ Fits(h[g])
  BY DEF IInv, TypeOK, TypeLocals
<1>a. TypeCluster /\ TypeStore /\ TypeSignal /\ TypeLocals /\ (\A k \in Handlers : Fits(h[k])) /\ OneWriter
  BY DEF IInv, TypeOK
<1>b. h[g].cur \in Secrets /\ h[g].read \in Certificates /\ h[g].ret \in {"fetch", "each", "lookup"}
      /\ h[g].pc = "write"
  BY <1>1 DEF WriteCertificate, Fits, Serving
<1>2. l \in Locals
  BY <1>1, <1>b DEF Locals, Labels
<1>3. Fits(l)
  BY <1>1, <1>b DEF Locals, Labels, Fits, Serving, OnIngress
<1>4. h' = [h EXCEPT ![g] = l]
  BY DEF WriteCertificate
<1>5. l.pc # "write" /\ owner = g /\ owner' = None /\ chain' = chain
  BY <1>1, <1>a, <1>b DEF Locals, WriteCertificate, OneWriter
<1>7. TypeCluster'
  BY <1>a, SameCluster DEF WriteCertificate
<1>c. /\ certs' = certs \/ certs' = [certs EXCEPT ![h[g].cur] = [data |-> h[g].read, full |-> FALSE]]
      /\ annotated' = annotated /\ refs' = refs
      /\ unseen' = unseen \/ unseen' = unseen \cup {h[g].cur}
      /\ updated' = updated \/ updated' = TRUE
      /\ changes' = changes
  BY DEF WriteCertificate
<1>8. TypeStore'
  <2>1. [data |-> h[g].read, full |-> FALSE] \in [data : Certificates, full : BOOLEAN]
    BY <1>b
  <2> QED BY <1>a, <1>b, <1>c, <2>1 DEF TypeStore
<1>9. TypeSignal'
  BY <1>a, <1>b, <1>c DEF TypeSignal
<1>d. Owing(l) <=> Owing(h[g])
  BY <1>1, <1>b DEF Locals, Owing, OnIngress
<1> HIDE DEF l
<1>10. TypeLocals' /\ \A k \in Handlers : h'[k] = IF k = g THEN l ELSE h[k]
  BY <1>a, <1>2, <1>4, <1>5 DEF TypeLocals
<1>11. \A k \in Handlers : Fits(h'[k])
  BY <1>a, <1>3, <1>10
<1>12. OneWriter'
  BY <1>a, <1>5, <1>10, NameAssumption DEF OneWriter
<1>13. [N!Next]_(N!vars)
  <2>1. {k \in Handlers : Owing(h'[k])} = {k \in Handlers : Owing(h[k])}
    BY <1>d, <1>10
  <2>2. \/ updated' = updated /\ unseen' = unseen
        \/ updated' = TRUE /\ unseen' = unseen \cup {h[g].cur}
    BY DEF WriteCertificate
  <2>3. unseen' \cap Ingresses = unseen \cap Ingresses
    BY <1>b, <2>2, NameAssumption
  <2>4. CASE updated' = updated
    BY <2>1, <2>3, <2>4 DEF N!vars
  <2>5. CASE updated' = TRUE
    <3>1. N!Signal
      BY <2>1, <2>3, <2>5 DEF N!Signal
    <3> QED BY <3>1 DEF N!Next
  <2> QED BY <2>2, <2>4, <2>5
<1> QED BY <1>7, <1>8, <1>9, <1>10, <1>11, <1>12, <1>13 DEF IInv, TypeOK

(* The handlers begin.                                                     *)
LEMMA IngressHandlerStep ==
  ASSUME IInv, IngressHandler
  PROVE  IInv' /\ [N!Next]_(N!vars)
<1>a. TypeCluster /\ TypeStore /\ TypeSignal /\ TypeLocals /\ (\A k \in Handlers : Fits(h[k])) /\ OneWriter
  BY DEF IInv, TypeOK
<1>1. PICK l \in Locals : /\ Fits(l) /\ l.pc # "write" /\ h' = [h EXCEPT !["ingress"] = l]
  <2> DEFINE e == Head(ingressEvents)
  <2>1. e.ing \in Ingresses /\ e.old \in Specs \cup {Absent} /\ e.cur \in Specs \cup {Absent}
    <3> DEFINE E == [ing : Ingresses, old : Specs \cup {Absent}, cur : Specs \cup {Absent}]
    <3>1. ingressEvents \in Seq(E) /\ ingressEvents # <<>>
      BY <1>a DEF TypeCluster, IngressHandler
    <3> HIDE DEF E
    <3>2. e \in E
      BY <3>1
    <3> QED BY <3>2 DEF E
  <2> HIDE DEF e
  <2>2. CASE Applies(e.old, e.cur)
    <3> DEFINE l == [Idle EXCEPT !.ing = e.ing, !.spec = e.cur]
    <3>1. e.cur \in Specs
      BY <2>1, <2>2 DEF Applies
    <3>2. l \in Locals /\ l.ing \in Ingresses /\ l.spec \in Specs
      BY <2>1, <3>1, IdleFits DEF Locals
    <3>3. h' = [h EXCEPT !["ingress"] = Extracting(l)]
      BY <2>2 DEF IngressHandler, e
    <3> HIDE DEF l
    <3> QED BY <3>2, <3>3, ExtractingFits
  <2>3. CASE ~Applies(e.old, e.cur) /\ Removes(e.old, e.cur)
    <3> DEFINE l == [Idle EXCEPT !.pc = "forget", !.ing = e.ing, !.gone = TRUE]
    <3>2. l \in Locals
      BY <2>1, IdleFits DEF Locals, Labels
    <3>4. Fits(l) /\ l.pc = "forget"
      BY <2>1 DEF Idle, Fits, Serving, OnIngress
    <3>3. h' = [h EXCEPT !["ingress"] = l]
      BY <2>3 DEF IngressHandler, e
    <3> HIDE DEF l
    <3> QED BY <3>2, <3>3, <3>4
  <2>4. CASE ~Applies(e.old, e.cur) /\ ~Removes(e.old, e.cur)
    <3>1. h' = [h EXCEPT !["ingress"] = Idle]
      BY <2>4 DEF IngressHandler, e
    <3>2. Idle.pc = "idle"
      BY DEF Idle
    <3> QED BY <3>1, <3>2, IdleFits
  <2> QED BY <2>2, <2>3, <2>4
<1>2. h["ingress"].pc # "write" /\ "ingress" \in Handlers
  BY DEF IngressHandler, Handlers
<1>3. owner' = owner /\ chain' = chain
  BY DEF IngressHandler
<1>7. TypeCluster'
  BY <1>a DEF TypeCluster, IngressHandler
<1>8. TypeStore'
  BY <1>a, SameStore DEF IngressHandler
<1>9. TypeSignal'
  BY <1>a, SameSignal DEF IngressHandler
<1>10. TypeLocals' /\ (\A k \in Handlers : Fits(h'[k])) /\ OneWriter'
  BY <1>a, <1>1, <1>2, <1>3, MoveOn
<1>11. [N!Next]_(N!vars)
  <2>1. ~Owing(h["ingress"])
    BY DEF IngressHandler, Owing, OnIngress
  <2>2. updated' = updated /\ unseen' = unseen
    BY DEF IngressHandler
  <2> QED BY <1>a, <1>1, <1>2, <2>1, <2>2, Quietly DEF TypeLocals
<1> QED BY <1>7, <1>8, <1>9, <1>10, <1>11 DEF IInv, TypeOK

(* The handler of Secrets takes a notification.                            *)
LEMMA SecretHandlerStep ==
  ASSUME IInv, SecretHandler
  PROVE  IInv' /\ [N!Next]_(N!vars)
<1>a. TypeCluster /\ TypeStore /\ TypeSignal /\ TypeLocals /\ (\A k \in Handlers : Fits(h[k])) /\ OneWriter
  BY DEF IInv, TypeOK
<1>1. PICK l \in Locals : /\ Fits(l) /\ l.pc # "write" /\ h' = [h EXCEPT !["secret"] = l]
  <2> DEFINE e == Head(secretEvents)
  <2>1. e.sec \in Secrets
    <3> DEFINE E == [sec : Secrets, gone : BOOLEAN]
    <3>1. secretEvents \in Seq(E) /\ secretEvents # <<>>
      BY <1>a DEF TypeCluster, SecretHandler
    <3> HIDE DEF E
    <3>2. e \in E
      BY <3>1
    <3> QED BY <3>2 DEF E
  <2> HIDE DEF e
  <2>2. CASE e.gone
    <3> DEFINE l == [Idle EXCEPT !.pc = "drop", !.sec = e.sec, !.gone = TRUE]
    <3>1. l \in Locals
      BY <2>1, IdleFits DEF Locals, Labels
    <3>2. Fits(l) /\ l.pc = "drop"
      BY <2>1 DEF Idle, Fits, Serving, OnIngress
    <3>3. h' = [h EXCEPT !["secret"] = l]
      BY <2>2 DEF SecretHandler, e
    <3> HIDE DEF l
    <3> QED BY <3>1, <3>2, <3>3
  <2>3. CASE ~e.gone /\ e.sec = DefaultSSLCertificate
    <3> DEFINE l == [Idle EXCEPT !.pc = "sync", !.sec = e.sec, !.cur = e.sec, !.ret = "lookup"]
    <3>1. l \in Locals
      BY <2>1, IdleFits DEF Locals, Labels
    <3>2. Fits(l) /\ l.pc = "sync"
      BY <2>1 DEF Idle, Fits, Serving, OnIngress
    <3>3. h' = [h EXCEPT !["secret"] = l]
      BY <2>3 DEF SecretHandler, e
    <3> HIDE DEF l
    <3> QED BY <3>1, <3>2, <3>3
  <2>4. CASE ~e.gone /\ e.sec # DefaultSSLCertificate
    <3> DEFINE l == [Idle EXCEPT !.pc = "lookup", !.sec = e.sec]
    <3>1. l \in Locals
      BY <2>1, IdleFits DEF Locals, Labels
    <3>2. Fits(l) /\ l.pc = "lookup"
      BY <2>1 DEF Idle, Fits, Serving, OnIngress
    <3>3. h' = [h EXCEPT !["secret"] = l]
      BY <2>4 DEF SecretHandler, e
    <3> HIDE DEF l
    <3> QED BY <3>1, <3>2, <3>3
  <2> QED BY <2>2, <2>3, <2>4
<1>2. h["secret"].pc # "write" /\ "secret" \in Handlers
  BY DEF SecretHandler, Handlers
<1>3. owner' = owner /\ chain' = chain
  BY DEF SecretHandler
<1>7. TypeCluster'
  BY <1>a DEF TypeCluster, SecretHandler
<1>8. TypeStore'
  BY <1>a, SameStore DEF SecretHandler
<1>9. TypeSignal'
  BY <1>a, SameSignal DEF SecretHandler
<1>10. TypeLocals' /\ (\A k \in Handlers : Fits(h'[k])) /\ OneWriter'
  BY <1>a, <1>1, <1>2, <1>3, MoveOn
<1>11. [N!Next]_(N!vars)
  <2>1. ~Owing(h["secret"])
    BY DEF SecretHandler, Owing, OnIngress
  <2>2. updated' = updated /\ unseen' = unseen
    BY DEF SecretHandler
  <2> QED BY <1>a, <1>1, <1>2, <2>1, <2>2, Quietly DEF TypeLocals
<1> QED BY <1>7, <1>8, <1>9, <1>10, <1>11 DEF IInv, TypeOK

(* The handler of ConfigMaps begins.                                       *)
LEMMA ConfigMapHandlerStep ==
  ASSUME IInv, NEW created \in BOOLEAN, ConfigMapHandler(created)
  PROVE  IInv' /\ [N!Next]_(N!vars)
<1>a. TypeCluster /\ TypeStore /\ TypeSignal /\ TypeLocals /\ (\A k \in Handlers : Fits(h[k])) /\ OneWriter
  BY DEF IInv, TypeOK
<1>1. PICK l \in Locals : /\ Fits(l) /\ l.pc # "write" /\ h' = [h EXCEPT !["configmap"] = l]
  <2>1. CASE created
    <3> DEFINE l == [Idle EXCEPT !.pc = "notify"]
    <3>1. l \in Locals
      BY IdleFits DEF Locals, Labels
    <3>2. Fits(l) /\ l.pc = "notify"
      BY DEF Idle, Fits, Serving, OnIngress
    <3>3. h' = [h EXCEPT !["configmap"] = l]
      BY <2>1 DEF ConfigMapHandler
    <3> HIDE DEF l
    <3> QED BY <3>1, <3>2, <3>3
  <2>2. CASE ~created
    <3> DEFINE listed == {i \in Ingresses : annotated[i] # Absent}
    <3> DEFINE l == [Idle EXCEPT !.pc = "next", !.ings = listed]
    <3>1. l \in Locals
      BY IdleFits DEF Locals, Labels
    <3>2. Fits(l) /\ l.pc = "next"
      BY DEF Idle, Fits, Serving, OnIngress
    <3>3. h' = [h EXCEPT !["configmap"] = l]
      BY <2>2 DEF ConfigMapHandler
    <3> HIDE DEF l
    <3> QED BY <3>1, <3>2, <3>3
  <2> QED BY <2>1, <2>2
<1>2. h["configmap"].pc # "write" /\ "configmap" \in Handlers
  BY DEF ConfigMapHandler, Handlers
<1>3. owner' = owner /\ chain' = chain
  BY DEF ConfigMapHandler
<1>7. TypeCluster'
  BY <1>a, SameCluster DEF ConfigMapHandler
<1>8. TypeStore'
  BY <1>a, SameStore DEF ConfigMapHandler
<1>9. TypeSignal'
  BY <1>a, FlagAssumption DEF TypeSignal, ConfigMapHandler
<1>10. TypeLocals' /\ (\A k \in Handlers : Fits(h'[k])) /\ OneWriter'
  BY <1>a, <1>1, <1>2, <1>3, MoveOn
<1>11. [N!Next]_(N!vars)
  <2>1. ~Owing(h["configmap"])
    BY DEF ConfigMapHandler, Owing, OnIngress
  <2>2. updated' = updated /\ unseen' = unseen
    BY DEF ConfigMapHandler
  <2> QED BY <1>a, <1>1, <1>2, <2>1, <2>2, Quietly DEF TypeLocals
<1> QED BY <1>7, <1>8, <1>9, <1>10, <1>11 DEF IInv, TypeOK

(* The cluster changes.                                                   *)
LEMMA IngressChangesStep ==
  ASSUME IInv, NEW i \in Ingresses, NEW spec \in Specs \cup {Absent}, IngressChanges(i, spec)
  PROVE  IInv' /\ [N!Next]_(N!vars)
<1>a. TypeCluster /\ TypeStore /\ TypeSignal /\ TypeLocals /\ (\A k \in Handlers : Fits(h[k])) /\ OneWriter
  BY DEF IInv, TypeOK
<1>1. h' = h /\ owner' = owner
  BY DEF IngressChanges
<1>2. TypeCluster'
  BY <1>a DEF TypeCluster, IngressChanges
<1>3. TypeStore'
  BY <1>a, SameStore DEF IngressChanges
<1>4. TypeLocals'
  BY <1>a DEF TypeLocals, IngressChanges
<1>5. TypeSignal'
  BY <1>a, FlagAssumption DEF TypeSignal, IngressChanges
<1>6. (\A k \in Handlers : Fits(h'[k])) /\ OneWriter'
  BY <1>a, <1>1 DEF OneWriter
<1>7. [N!Next]_(N!vars)
  BY <1>1 DEF IngressChanges, N!vars
<1> QED BY <1>2, <1>3, <1>4, <1>5, <1>6, <1>7 DEF IInv, TypeOK

(* A Secret changes; its informer appends a notification.                  *)
LEMMA SecretChangesStep ==
  ASSUME IInv, NEW s \in Secrets, NEW d \in Data \cup {Absent}, SecretChanges(s, d)
  PROVE  IInv' /\ [N!Next]_(N!vars)
<1>a. TypeCluster /\ TypeStore /\ TypeSignal /\ TypeLocals /\ (\A k \in Handlers : Fits(h[k])) /\ OneWriter
  BY DEF IInv, TypeOK
<1>1. h' = h /\ owner' = owner
  BY DEF SecretChanges
<1>2. TypeCluster'
  BY <1>a DEF TypeCluster, SecretChanges
<1>3. TypeStore'
  BY <1>a, SameStore DEF SecretChanges
<1>4. TypeLocals'
  BY <1>a DEF TypeLocals, SecretChanges
<1>5. TypeSignal'
  BY <1>a, FlagAssumption DEF TypeSignal, SecretChanges
<1>6. (\A k \in Handlers : Fits(h'[k])) /\ OneWriter'
  BY <1>a, <1>1 DEF OneWriter
<1>7. [N!Next]_(N!vars)
  BY <1>1 DEF SecretChanges, N!vars
<1> QED BY <1>2, <1>3, <1>4, <1>5, <1>6, <1>7 DEF IInv, TypeOK

(* The chains are completed, and the loop looks.                          *)
LEMMA ReadChainStep ==
  ASSUME IInv, NEW s \in Secrets, ReadChain(s)
  PROVE  IInv' /\ [N!Next]_(N!vars)
<1>a. TypeCluster /\ TypeStore /\ TypeSignal /\ TypeLocals /\ (\A k \in Handlers : Fits(h[k])) /\ OneWriter
  BY DEF IInv, TypeOK
<1>1. h' = h /\ owner' = owner
  BY DEF ReadChain
<1>2. TypeCluster'
  BY <1>a, SameCluster DEF ReadChain
<1>3. TypeStore'
  BY <1>a, SameStore DEF ReadChain
<1>4. TypeLocals'
  BY <1>a DEF TypeLocals, TypeStore, ReadChain
<1>5. TypeSignal'
  BY <1>a, FlagAssumption DEF TypeSignal, ReadChain
<1>6. (\A k \in Handlers : Fits(h'[k])) /\ OneWriter'
  BY <1>a, <1>1 DEF OneWriter
<1>7. [N!Next]_(N!vars)
  BY <1>1 DEF ReadChain, N!vars
<1> QED BY <1>2, <1>3, <1>4, <1>5, <1>6, <1>7 DEF IInv, TypeOK

(* A completed chain is written, and an event sent.                        *)
LEMMA WriteChainStep ==
  ASSUME IInv, WriteChain
  PROVE  IInv' /\ [N!Next]_(N!vars)
<1>a. TypeCluster /\ TypeStore /\ TypeSignal /\ TypeLocals /\ (\A k \in Handlers : Fits(h[k])) /\ OneWriter
  BY DEF IInv, TypeOK
<1>1. h' = h /\ owner' = owner
  BY DEF WriteChain
<1>2. TypeCluster'
  BY <1>a, SameCluster DEF WriteChain
<1>3. TypeStore'
  BY <1>a DEF TypeStore, TypeLocals, WriteChain
<1>4. TypeLocals'
  BY <1>a DEF TypeLocals, WriteChain
<1>5. TypeSignal'
  BY <1>a DEF TypeLocals, TypeSignal, WriteChain
<1>6. (\A k \in Handlers : Fits(h'[k])) /\ OneWriter'
  BY <1>a, <1>1 DEF OneWriter
<1>7. [N!Next]_(N!vars)
  <2>1. chain.sec \in Secrets
    BY <1>a DEF WriteChain, TypeLocals
  <2>2. unseen' \cap Ingresses = unseen \cap Ingresses
    BY <2>1, NameAssumption DEF WriteChain
  <2>3. N!Signal
    BY <1>1, <2>2 DEF WriteChain, N!Signal
  <2> QED BY <2>3 DEF N!Next
<1> QED BY <1>2, <1>3, <1>4, <1>5, <1>6, <1>7 DEF IInv, TypeOK

(* The loop takes the event: it has seen everything.                       *)
LEMMA SyncStep ==
  ASSUME IInv, Sync
  PROVE  IInv' /\ [N!Next]_(N!vars)
<1>a. TypeCluster /\ TypeStore /\ TypeSignal /\ TypeLocals /\ (\A k \in Handlers : Fits(h[k])) /\ OneWriter
  BY DEF IInv, TypeOK
<1>1. h' = h /\ owner' = owner
  BY DEF Sync
<1>2. TypeCluster'
  BY <1>a, SameCluster DEF Sync
<1>3. TypeStore'
  BY <1>a, SameStore DEF Sync
<1>4. TypeLocals'
  BY <1>a DEF TypeLocals, Sync
<1>5. TypeSignal'
  BY <1>a, FlagAssumption DEF TypeSignal, Sync
<1>6. (\A k \in Handlers : Fits(h'[k])) /\ OneWriter'
  BY <1>a, <1>1 DEF OneWriter
<1>7. [N!Next]_(N!vars)
  <2>1. N!Look
    BY <1>1 DEF Sync, N!Look
  <2> QED BY <2>1 DEF N!Next
<1> QED BY <1>2, <1>3, <1>4, <1>5, <1>6, <1>7 DEF IInv, TypeOK

(* One step of a handler.                                                  *)
LEMMA HandleStep ==
  ASSUME IInv, NEW g \in Handlers, Handle(g)
  PROVE  IInv' /\ [N!Next]_(N!vars)
<1>1. CASE ParsePassword(g) BY <1>1, ParsePasswordStep
<1>2. CASE FetchCertificate(g) BY <1>2, FetchStep
<1>3. CASE UpdateAnnotated(g) BY <1>3, UpdateStep
<1>4. CASE \E k \in CertificateKinds : ParseCertificate(g, k) BY <1>4, ParseCertificateStep
<1>5. CASE SyncNothing(g) BY <1>5, SyncNothingStep
<1>6. CASE ReadSecret(g) BY <1>6, ReadSecretStep
<1>7. CASE WriteCertificate(g) BY <1>7, WriteStep
<1>8. CASE ForgetIngress(g) BY <1>8, ForgetStep
<1>9. CASE DeleteReferences(g) BY <1>9, DeleteReferencesStep
<1>10. CASE InsertReferences(g) BY <1>10, InsertReferencesStep
<1>11. CASE ListSecrets(g) BY <1>11, ListStep
<1>12. CASE \E s \in Secrets : SyncEach(g, s) BY <1>12, SyncEachStep
<1>13. CASE DropCertificate(g) BY <1>13, DropStep
<1>14. CASE FindReferences(g) BY <1>14, FindReferencesStep
<1>15. CASE SendEvent(g) BY <1>15, SendStep
<1>16. CASE \E i \in Ingresses : NextIngress(g, i) BY <1>16, NextIngressStep
<1>17. CASE g = "secret" /\ SyncedAll BY <1>17, SyncedStep
<1> QED BY <1>1, <1>2, <1>3, <1>4, <1>5, <1>6, <1>7, <1>8, <1>9, <1>10, <1>11, <1>12,
           <1>13, <1>14, <1>15, <1>16, <1>17 DEF Handle

(* The invariant is inductive.                                             *)
LEMMA InvInit == Init => IInv
<1> SUFFICES ASSUME Init PROVE IInv
  OBVIOUS
<1>1. TypeCluster /\ TypeStore
  BY DEF Init, TypeCluster, TypeStore
<1>2. TypeLocals /\ \A g \in Handlers : Fits(h[g])
  BY IdleFits DEF Init, TypeLocals
<1>3. TypeSignal
  <2>1. MaxChanges \in Nat
    BY FlagAssumption
  <2>2. changes \in 0 .. MaxChanges
    BY <2>1 DEF Init
  <2>3. updated \in BOOLEAN /\ unseen \subseteq Ingresses \cup Secrets
    BY DEF Init
  <2> QED BY <2>2, <2>3 DEF TypeSignal
<1>4. OneWriter
  BY NameAssumption DEF Init, OneWriter, Idle
<1> QED BY <1>1, <1>2, <1>3, <1>4 DEF IInv, TypeOK

(* Every step preserves the invariant and is one of Notification.          *)
LEMMA InvStep == IInv /\ [Next]_vars => IInv' /\ [N!Next]_(N!vars)
<1> SUFFICES ASSUME IInv, [Next]_vars PROVE IInv' /\ [N!Next]_(N!vars)
  OBVIOUS
<1>1. CASE \E i \in Ingresses, spec \in Specs \cup {Absent} : IngressChanges(i, spec)
  BY <1>1, IngressChangesStep
<1>2. CASE \E s \in Secrets, d \in Data \cup {Absent} : SecretChanges(s, d)
  BY <1>2, SecretChangesStep
<1>3. CASE IngressHandler BY <1>3, IngressHandlerStep
<1>4. CASE SecretHandler BY <1>4, SecretHandlerStep
<1>5. CASE \E b \in BOOLEAN : ConfigMapHandler(b) BY <1>5, ConfigMapHandlerStep
<1>6. CASE \E g \in Handlers : Handle(g) BY <1>6, HandleStep
<1>7. CASE \E s \in Secrets : ReadChain(s) BY <1>7, ReadChainStep
<1>8. CASE WriteChain BY <1>8, WriteChainStep
<1>9. CASE Sync BY <1>9, SyncStep
<1>10. CASE UNCHANGED vars
  <2>1. UNCHANGED <<ingress, secret, ingressEvents, secretEvents, annotated, refs, certs, owner,
                    h, chain, updated, unseen, changes>>
    BY <1>10 DEF vars, cluster, store
  <2>2. TypeCluster' /\ TypeStore' /\ TypeLocals' /\ TypeSignal'
    BY <2>1 DEF IInv, TypeOK, TypeCluster, TypeStore, TypeLocals, TypeSignal
  <2>3. (\A g \in Handlers : Fits(h'[g])) /\ OneWriter'
    BY <2>1 DEF IInv, OneWriter
  <2>4. UNCHANGED N!vars
    BY <2>1 DEF N!vars
  <2> QED BY <2>2, <2>3, <2>4 DEF IInv, TypeOK
<1> QED BY <1>1, <1>2, <1>3, <1>4, <1>5, <1>6, <1>7, <1>8, <1>9, <1>10 DEF Next

(* The strengthened invariant: the types, that the locals of a handler fit *)
(* its place, and the mutex of syncSecret (backend_ssl.go).                *)
THEOREM InvCorrect == Spec => []IInv
<1> QED BY InvInit, InvStep, PTL DEF Spec

(* The store, the queues and the handlers' locals are well typed.          *)
THEOREM TypeCorrect == Spec => []TypeOK
<1>1. IInv => TypeOK
  BY DEF IInv
<1> QED BY <1>1, InvCorrect, PTL

(* Two goroutines never write a certificate at once, and a handler that    *)
(* ends has let go of syncSecretMu.                                        *)
THEOREM WritersExclude == Spec => []OneWriter
<1>1. IInv => OneWriter
  BY DEF IInv
<1> QED BY <1>1, InvCorrect, PTL

(* The store implements Notification: a goroutine that writes an Ingress   *)
(* always sends an event afterwards.                                       *)
THEOREM Refines == Spec => WritesAreNotified
<1>1. Init => N!Init
  <2> SUFFICES ASSUME Init PROVE N!Init
    OBVIOUS
  <2>1. ~Owing(Idle)
    BY DEF Owing, OnIngress, Idle
  <2>2. \A k \in Handlers : h[k] = Idle
    BY DEF Init
  <2> QED BY <2>1, <2>2 DEF Init, N!Init
<1>2. IInv /\ [Next]_vars => [N!Next]_(N!vars)
  BY InvStep
<1> QED BY <1>1, <1>2, InvCorrect, PTL DEF Spec, WritesAreNotified, N!Spec

(* Whatever the loop lists, an Ingress written since it last looked is one *)
(* an event waits for, or one a handler still owes an event for.           *)
THEOREM ToldCorrect == Spec => []N!Told
<1>1. N!Init => N!Told
  BY DEF N!Init, N!Told
<1>2. N!Told /\ [N!Next]_(N!vars) => N!Told'
  BY DEF N!Told, N!Next, N!vars, N!Begin, N!Write, N!End, N!Signal, N!Look
<1> QED BY <1>1, <1>2, Refines, PTL DEF WritesAreNotified, N!Spec



-----------------------------------------------------------------------------
(* How an action moves the locals of its handler.                          *)

(* The other handlers stay where they are.                                 *)
Alone(g) == h \in [Handlers -> Locals] /\ h[g] \in Locals /\ \A k \in Handlers : k # g => h'[k] = h[k]

(* The objects a handler works on.                                         *)
Keeps(g) ==
  /\ h'[g].ing = h[g].ing /\ h'[g].spec = h[g].spec /\ h'[g].gone = h[g].gone
  /\ h'[g].sec = h[g].sec /\ h'[g].ings = h[g].ings

(* An action on the locals of one handler leaves those of the others.      *)
LEMMA OthersStay ==
  ASSUME IInv, NEW g \in Handlers, NEW l, h' = [h EXCEPT ![g] = l]
  PROVE  Alone(g) /\ h'[g] = l
BY DEF IInv, TypeOK, TypeLocals, Alone

(* How ParsePassword moves the locals.                                     *)
LEMMA ParsePasswordMoves ==
  ASSUME IInv, NEW g \in Handlers, ParsePassword(g)
  PROVE  Alone(g) /\ Keeps(g) /\ h[g].pc = "parse" /\ h'[g].pc = "parse" /\ h'[g].secs = h[g].secs
<1> DEFINE new == [h[g].parsed EXCEPT !["auth-secret"] = PasswordOf(secret[h[g].spec.uses["auth-secret"]])]
<1> DEFINE l == [h[g] EXCEPT !.kinds = h[g].kinds \ {"auth-secret"}, !.parsed = new]
<1>1. h[g] \in Locals
  BY DEF IInv, TypeOK, TypeLocals
<1>a. h[g].kind \in Kinds /\ h[g].parsed \in [Kinds -> Data \cup {Absent}]
  BY <1>1 DEF Locals, Parsed
<1>2. h' = [h EXCEPT ![g] = l]
  BY <1>1, <1>a DEF ParsePassword, Locals, new
<1>3. Alone(g) /\ h'[g] = l
  BY <1>2, OthersStay
<1>4. h[g].pc = "parse"
  BY DEF ParsePassword
<1> HIDE DEF new
<1>5. Keeps(g)
  BY <1>1, <1>3 DEF Keeps, Locals
<1>6. /\ h'[g].pc = h[g].pc
      /\ h'[g].secs = h[g].secs
      /\ h'[g].ret = h[g].ret
      /\ h'[g].cur = h[g].cur
  BY <1>1, <1>3 DEF Locals
<1> QED BY <1>1, <1>3, <1>4, <1>5, <1>6 DEF new

(* How ParseCertificate moves the locals.                                  *)
LEMMA ParseCertificateMoves ==
  ASSUME IInv, NEW g \in Handlers, NEW kd \in CertificateKinds, ParseCertificate(g, kd)
  PROVE  Alone(g) /\ Keeps(g) /\ h[g].pc = "parse" /\ h'[g].pc \in {"sync", "fetch"} /\ h'[g].ret = "fetch"
<1> DEFINE s == h[g].spec.uses[kd]
<1> DEFINE label == IF certs[s] = Absent THEN "sync" ELSE "fetch"
<1> DEFINE l == [h[g] EXCEPT !.kinds = h[g].kinds \ {kd}, !.kind = kd, !.cur = s, !.pc = label, !.ret = "fetch"]
<1>1. h[g] \in Locals
  BY DEF IInv, TypeOK, TypeLocals
<1>2. h' = [h EXCEPT ![g] = l]
  BY DEF ParseCertificate
<1>3. Alone(g) /\ h'[g] = l
  BY <1>2, OthersStay
<1>4. h[g].pc = "parse"
  BY DEF ParseCertificate
<1> HIDE DEF s, label
<1>5. Keeps(g)
  BY <1>1, <1>3 DEF Keeps, Locals
<1>6. /\ h'[g].cur = s
      /\ h'[g].pc = label
      /\ h'[g].ret = "fetch"
      /\ h'[g].secs = h[g].secs
  BY <1>1, <1>3 DEF Locals
<1> QED BY <1>1, <1>3, <1>4, <1>5, <1>6 DEF s, label

(* How FetchCertificate moves the locals.                                  *)
LEMMA FetchCertificateMoves ==
  ASSUME IInv, NEW g \in Handlers, FetchCertificate(g)
  PROVE  Alone(g) /\ Keeps(g) /\ h[g].pc = "fetch" /\ h'[g].pc = "parse"
<1> DEFINE new == [h[g].parsed EXCEPT ![h[g].kind] = ContentOf(certs[h[g].cur])]
<1> DEFINE l == [h[g] EXCEPT !.pc = "parse", !.parsed = new]
<1>1. h[g] \in Locals
  BY DEF IInv, TypeOK, TypeLocals
<1>a. h[g].kind \in Kinds /\ h[g].parsed \in [Kinds -> Data \cup {Absent}]
  BY <1>1 DEF Locals, Parsed
<1>2. h' = [h EXCEPT ![g] = l]
  BY <1>1, <1>a DEF FetchCertificate, Locals, new
<1>3. Alone(g) /\ h'[g] = l
  BY <1>2, OthersStay
<1>4. h[g].pc = "fetch"
  BY DEF FetchCertificate
<1> HIDE DEF new
<1>5. Keeps(g)
  BY <1>1, <1>3 DEF Keeps, Locals
<1>6. /\ h'[g].pc = "parse"
      /\ h'[g].secs = h[g].secs
      /\ h'[g].ret = h[g].ret
      /\ h'[g].cur = h[g].cur
  BY <1>1, <1>3 DEF Locals
<1> QED BY <1>1, <1>3, <1>4, <1>5, <1>6 DEF new

(* How UpdateAnnotated moves the locals.                                   *)
LEMMA UpdateAnnotatedMoves ==
  ASSUME IInv, NEW g \in Handlers, UpdateAnnotated(g)
  PROVE  Alone(g) /\ Keeps(g) /\ h[g].pc = "parse" /\ h'[g].pc = AfterUpdate(g)
<1> DEFINE l == [h[g] EXCEPT !.pc = AfterUpdate(g)]
<1>1. h[g] \in Locals
  BY DEF IInv, TypeOK, TypeLocals
<1>2. h' = [h EXCEPT ![g] = l]
  BY DEF UpdateAnnotated
<1>3. Alone(g) /\ h'[g] = l
  BY <1>2, OthersStay
<1>4. h[g].pc = "parse"
  BY DEF UpdateAnnotated
<1>5. Keeps(g)
  BY <1>1, <1>3 DEF Keeps, Locals
<1>6. /\ h'[g].pc = AfterUpdate(g)
      /\ h'[g].secs = h[g].secs
      /\ h'[g].ret = h[g].ret
      /\ h'[g].cur = h[g].cur
  BY <1>1, <1>3 DEF Locals
<1> QED BY <1>1, <1>3, <1>4, <1>5, <1>6

(* How SyncNothing moves the locals.                                       *)
LEMMA SyncNothingMoves ==
  ASSUME IInv, NEW g \in Handlers, SyncNothing(g)
  PROVE  Alone(g) /\ Keeps(g) /\ h[g].pc = "sync" /\ h'[g].pc = h[g].ret /\ h'[g].secs = h[g].secs
<1> DEFINE l == [h[g] EXCEPT !.pc = h[g].ret]
<1>1. h[g] \in Locals
  BY DEF IInv, TypeOK, TypeLocals
<1>2. h' = [h EXCEPT ![g] = l]
  BY DEF SyncNothing
<1>3. Alone(g) /\ h'[g] = l
  BY <1>2, OthersStay
<1>4. h[g].pc = "sync"
  BY DEF SyncNothing
<1>5. Keeps(g)
  BY <1>1, <1>3 DEF Keeps, Locals
<1>6. /\ h'[g].pc = h[g].ret
      /\ h'[g].secs = h[g].secs
      /\ h'[g].ret = h[g].ret
      /\ h'[g].cur = h[g].cur
  BY <1>1, <1>3 DEF Locals
<1> QED BY <1>1, <1>3, <1>4, <1>5, <1>6

(* How ReadSecret moves the locals.                                        *)
LEMMA ReadSecretMoves ==
  ASSUME IInv, NEW g \in Handlers, ReadSecret(g)
  PROVE  Alone(g) /\ Keeps(g) /\ h[g].pc = "sync" /\ h'[g].pc = "write" /\ h'[g].read = secret[h[g].cur]
         /\ h'[g].ret = h[g].ret /\ h'[g].cur = h[g].cur /\ h'[g].secs = h[g].secs
<1> DEFINE r == secret[h[g].cur]
<1> DEFINE l == [h[g] EXCEPT !.pc = "write", !.read = r]
<1>1. h[g] \in Locals
  BY DEF IInv, TypeOK, TypeLocals
<1>2. h' = [h EXCEPT ![g] = l]
  BY DEF ReadSecret
<1>3. Alone(g) /\ h'[g] = l
  BY <1>2, OthersStay
<1>4. h[g].pc = "sync"
  BY DEF ReadSecret
<1> HIDE DEF r
<1>5. Keeps(g)
  BY <1>1, <1>3 DEF Keeps, Locals
<1>6. /\ h'[g].pc = "write"
      /\ h'[g].read = r
      /\ h'[g].secs = h[g].secs
      /\ h'[g].ret = h[g].ret
      /\ h'[g].cur = h[g].cur
  BY <1>1, <1>3 DEF Locals
<1> QED BY <1>1, <1>3, <1>4, <1>5, <1>6 DEF r

(* How WriteCertificate moves the locals.                                  *)
LEMMA WriteCertificateMoves ==
  ASSUME IInv, NEW g \in Handlers, WriteCertificate(g)
  PROVE  Alone(g) /\ Keeps(g) /\ h[g].pc = "write" /\ h'[g].pc = h[g].ret /\ h'[g].secs = h[g].secs
<1> DEFINE l == [h[g] EXCEPT !.pc = h[g].ret, !.read = Absent]
<1>1. h[g] \in Locals
  BY DEF IInv, TypeOK, TypeLocals
<1>2. h' = [h EXCEPT ![g] = l]
  BY DEF WriteCertificate
<1>3. Alone(g) /\ h'[g] = l
  BY <1>2, OthersStay
<1>4. h[g].pc = "write"
  BY DEF WriteCertificate
<1>5. Keeps(g)
  BY <1>1, <1>3 DEF Keeps, Locals
<1>6. /\ h'[g].pc = h[g].ret
      /\ h'[g].read = Absent
      /\ h'[g].secs = h[g].secs
      /\ h'[g].ret = h[g].ret
      /\ h'[g].cur = h[g].cur
  BY <1>1, <1>3 DEF Locals
<1> QED BY <1>1, <1>3, <1>4, <1>5, <1>6

(* How ForgetIngress moves the locals.                                     *)
LEMMA ForgetIngressMoves ==
  ASSUME IInv, NEW g \in Handlers, ForgetIngress(g)
  PROVE  Alone(g) /\ Keeps(g) /\ h[g].pc = "forget" /\ h'[g].pc = "unref"
<1> DEFINE l == [h[g] EXCEPT !.pc = "unref"]
<1>1. h[g] \in Locals
  BY DEF IInv, TypeOK, TypeLocals
<1>2. h' = [h EXCEPT ![g] = l]
  BY DEF ForgetIngress
<1>3. Alone(g) /\ h'[g] = l
  BY <1>2, OthersStay
<1>4. h[g].pc = "forget"
  BY DEF ForgetIngress
<1>5. Keeps(g)
  BY <1>1, <1>3 DEF Keeps, Locals
<1>6. /\ h'[g].pc = "unref"
      /\ h'[g].secs = h[g].secs
      /\ h'[g].ret = h[g].ret
      /\ h'[g].cur = h[g].cur
  BY <1>1, <1>3 DEF Locals
<1> QED BY <1>1, <1>3, <1>4, <1>5, <1>6

(* How DeleteReferences moves the locals.                                  *)
LEMMA DeleteReferencesMoves ==
  ASSUME IInv, NEW g \in Handlers, DeleteReferences(g)
  PROVE  Alone(g) /\ Keeps(g) /\ h[g].pc = "unref" /\ h'[g].pc = (IF h[g].gone THEN "notify" ELSE "ref")
<1> DEFINE label == IF h[g].gone THEN "notify" ELSE "ref"
<1> DEFINE l == [h[g] EXCEPT !.pc = label]
<1>1. h[g] \in Locals
  BY DEF IInv, TypeOK, TypeLocals
<1>2. h' = [h EXCEPT ![g] = l]
  BY DEF DeleteReferences
<1>3. Alone(g) /\ h'[g] = l
  BY <1>2, OthersStay
<1>4. h[g].pc = "unref"
  BY DEF DeleteReferences
<1> HIDE DEF label
<1>5. Keeps(g)
  BY <1>1, <1>3 DEF Keeps, Locals
<1>6. /\ h'[g].pc = label
      /\ h'[g].secs = h[g].secs
      /\ h'[g].ret = h[g].ret
      /\ h'[g].cur = h[g].cur
  BY <1>1, <1>3 DEF Locals
<1> QED BY <1>1, <1>3, <1>4, <1>5, <1>6 DEF label

(* How InsertReferences moves the locals.                                  *)
LEMMA InsertReferencesMoves ==
  ASSUME IInv, NEW g \in Handlers, InsertReferences(g)
  PROVE  Alone(g) /\ Keeps(g) /\ h[g].pc = "ref" /\ h'[g].pc = "list"
<1> DEFINE l == [h[g] EXCEPT !.pc = "list"]
<1>1. h[g] \in Locals
  BY DEF IInv, TypeOK, TypeLocals
<1>2. h' = [h EXCEPT ![g] = l]
  BY DEF InsertReferences
<1>3. Alone(g) /\ h'[g] = l
  BY <1>2, OthersStay
<1>4. h[g].pc = "ref"
  BY DEF InsertReferences
<1>5. Keeps(g)
  BY <1>1, <1>3 DEF Keeps, Locals
<1>6. /\ h'[g].pc = "list"
      /\ h'[g].secs = h[g].secs
      /\ h'[g].ret = h[g].ret
      /\ h'[g].cur = h[g].cur
  BY <1>1, <1>3 DEF Locals
<1> QED BY <1>1, <1>3, <1>4, <1>5, <1>6

(* How ListSecrets moves the locals.                                       *)
LEMMA ListSecretsMoves ==
  ASSUME IInv, NEW g \in Handlers, ListSecrets(g)
  PROVE  Alone(g) /\ Keeps(g) /\ h[g].pc = "list" /\ h'[g].pc = "each"
         /\ h'[g].secs = {s \in Secrets : <<s, h[g].ing>> \in refs}
<1> DEFINE ss == {s \in Secrets : <<s, h[g].ing>> \in refs}
<1> DEFINE l == [h[g] EXCEPT !.pc = "each", !.secs = ss]
<1>1. h[g] \in Locals
  BY DEF IInv, TypeOK, TypeLocals
<1>2. h' = [h EXCEPT ![g] = l]
  BY DEF ListSecrets
<1>3. Alone(g) /\ h'[g] = l
  BY <1>2, OthersStay
<1>4. h[g].pc = "list"
  BY DEF ListSecrets
<1> HIDE DEF ss
<1>5. Keeps(g)
  BY <1>1, <1>3 DEF Keeps, Locals
<1>6. /\ h'[g].pc = "each"
      /\ h'[g].secs = ss
      /\ h'[g].ret = h[g].ret
      /\ h'[g].cur = h[g].cur
  BY <1>1, <1>3 DEF Locals
<1> QED BY <1>1, <1>3, <1>4, <1>5, <1>6 DEF ss

(* How SyncEach moves the locals.                                          *)
LEMMA SyncEachMoves ==
  ASSUME IInv, NEW g \in Handlers, NEW s \in Secrets, SyncEach(g, s)
  PROVE  Alone(g) /\ Keeps(g) /\ h[g].pc = "each" /\ h'[g].pc = "sync" /\ h'[g].ret = "each"
         /\ h'[g].cur = s /\ h'[g].secs = h[g].secs \ {s}
<1> DEFINE l == [h[g] EXCEPT !.pc = "sync", !.secs = h[g].secs \ {s}, !.cur = s, !.ret = "each"]
<1>1. h[g] \in Locals
  BY DEF IInv, TypeOK, TypeLocals
<1>2. h' = [h EXCEPT ![g] = l]
  BY DEF SyncEach
<1>3. Alone(g) /\ h'[g] = l
  BY <1>2, OthersStay
<1>4. h[g].pc = "each"
  BY DEF SyncEach
<1>5. Keeps(g)
  BY <1>1, <1>3 DEF Keeps, Locals
<1>6. /\ h'[g].pc = "sync"
      /\ h'[g].secs = h[g].secs \ {s}
      /\ h'[g].cur = s
      /\ h'[g].ret = "each"
  BY <1>1, <1>3 DEF Locals
<1> QED BY <1>1, <1>3, <1>4, <1>5, <1>6

(* How DropCertificate moves the locals.                                   *)
LEMMA DropCertificateMoves ==
  ASSUME IInv, NEW g \in Handlers, DropCertificate(g)
  PROVE  Alone(g) /\ Keeps(g) /\ h[g].pc = "drop" /\ h'[g].pc = "lookup"
<1> DEFINE l == [h[g] EXCEPT !.pc = "lookup"]
<1>1. h[g] \in Locals
  BY DEF IInv, TypeOK, TypeLocals
<1>2. h' = [h EXCEPT ![g] = l]
  BY DEF DropCertificate
<1>3. Alone(g) /\ h'[g] = l
  BY <1>2, OthersStay
<1>4. h[g].pc = "drop"
  BY DEF DropCertificate
<1>5. Keeps(g)
  BY <1>1, <1>3 DEF Keeps, Locals
<1>6. /\ h'[g].pc = "lookup"
      /\ h'[g].secs = h[g].secs
      /\ h'[g].ret = h[g].ret
      /\ h'[g].cur = h[g].cur
  BY <1>1, <1>3 DEF Locals
<1> QED BY <1>1, <1>3, <1>4, <1>5, <1>6

(* How SendEvent moves the locals.                                         *)
LEMMA SendEventMoves ==
  ASSUME IInv, NEW g \in Handlers, SendEvent(g)
  PROVE  Alone(g) /\ h'[g] = Idle
<1> DEFINE l == Idle
<1>2. h' = [h EXCEPT ![g] = l]
  BY DEF SendEvent
<1>3. Alone(g) /\ h'[g] = l
  BY <1>2, OthersStay
<1> QED BY <1>3

(* How SyncedAll moves the locals.                                         *)
LEMMA SyncedAllMoves ==
  ASSUME IInv, SyncedAll
  PROVE  /\ Alone("secret") /\ Keeps("secret")
         /\ h["secret"].pc = "each" /\ h["secret"].secs = {} /\ h'["secret"].pc = "next"
<1> DEFINE l == [h["secret"] EXCEPT !.pc = "next"]
<1>0. "secret" \in Handlers
  BY DEF Handlers
<1>1. h["secret"] \in Locals
  BY <1>0 DEF IInv, TypeOK, TypeLocals
<1>2. h' = [h EXCEPT !["secret"] = l]
  BY DEF SyncedAll
<1>3. Alone("secret") /\ h'["secret"] = l
  BY <1>0, <1>2, OthersStay
<1> QED BY <1>1, <1>3 DEF SyncedAll, Keeps, Locals

(* How FindReferences moves the locals.                                    *)
LEMMA FindReferencesMoves ==
  ASSUME IInv, NEW g \in Handlers, FindReferences(g)
  PROVE  /\ Alone(g) /\ h[g].pc = "lookup"
         /\ LET ings == {i \in Ingresses : <<h[g].sec, i>> \in refs} IN
              IF ings = {} THEN h'[g] = Idle
              ELSE /\ h'[g].pc = "next" /\ h'[g].ings = ings
                   /\ h'[g].sec = h[g].sec /\ h'[g].gone = h[g].gone
<1> DEFINE found == {i \in Ingresses : <<h[g].sec, i>> \in refs}
<1> DEFINE l == IF found = {} THEN Idle ELSE [h[g] EXCEPT !.pc = "next", !.ings = found]
<1>1. h[g] \in Locals
  BY DEF IInv, TypeOK, TypeLocals
<1>2. h' = [h EXCEPT ![g] = l]
  BY DEF FindReferences
<1>3. Alone(g) /\ h'[g] = l
  BY <1>2, OthersStay
<1>4. h[g].pc = "lookup"
  BY DEF FindReferences
<1>5. CASE found = {}
  BY <1>3, <1>4, <1>5
<1>6. CASE found # {}
  <2> HIDE DEF found
  <2>1. /\ h'[g].pc = "next" /\ h'[g].ings = found
        /\ h'[g].sec = h[g].sec /\ h'[g].gone = h[g].gone
    BY <1>1, <1>3, <1>6 DEF Locals
  <2> QED BY <1>3, <1>4, <1>6, <2>1 DEF found
<1> QED BY <1>5, <1>6

(* How NextIngress moves the locals.                                       *)
LEMMA NextIngressMoves ==
  ASSUME IInv, NEW g \in Handlers, NEW i \in Ingresses, NextIngress(g, i)
  PROVE  /\ Alone(g) /\ h[g].pc = "next"
         /\ h'[g].ings = h[g].ings \ {i} /\ h'[g].sec = h[g].sec /\ h'[g].gone = h[g].gone
         /\ IF annotated[i] = Absent THEN h'[g].pc = "next"
            ELSE h'[g].pc = "parse" /\ h'[g].ing = i
<1> DEFINE skip == [h[g] EXCEPT !.ings = h[g].ings \ {i}]
<1> DEFINE taken == [h[g] EXCEPT !.ings = h[g].ings \ {i}, !.ing = i, !.spec = annotated[i].spec]
<1> DEFINE l == IF annotated[i] = Absent THEN skip ELSE Extracting(taken)
<1>1. h[g] \in Locals /\ h[g].pc = "next"
  BY DEF IInv, TypeOK, TypeLocals, NextIngress
<1>2. h' = [h EXCEPT ![g] = l]
  <2>1. CASE annotated[i] = Absent
    BY <2>1 DEF NextIngress
  <2>2. CASE annotated[i] # Absent
    BY <2>2 DEF NextIngress, Extracting
  <2> QED BY <2>1, <2>2
<1>3. Alone(g) /\ h'[g] = l
  BY <1>2, OthersStay
<1>4. CASE annotated[i] = Absent
  BY <1>1, <1>3, <1>4 DEF Locals
<1>5. CASE annotated[i] # Absent
  <2>1. /\ taken.ings = h[g].ings \ {i} /\ taken.sec = h[g].sec /\ taken.gone = h[g].gone
        /\ taken.ing = i /\ DOMAIN taken = DOMAIN h[g]
    BY <1>1 DEF Locals
  <2>2. h'[g] = Extracting(taken)
    BY <1>3, <1>5
  <2> HIDE DEF taken
  <2>3. DOMAIN taken = DOMAIN h[g] /\ "pc" \in DOMAIN taken
    BY <1>1, <2>1 DEF Locals
  <2>4. /\ Extracting(taken).pc = "parse" /\ Extracting(taken).ings = taken.ings
        /\ Extracting(taken).sec = taken.sec /\ Extracting(taken).gone = taken.gone
        /\ Extracting(taken).ing = taken.ing
    BY <1>1, <2>1 DEF Extracting, Locals
  <2> QED BY <1>1, <1>3, <1>5, <2>1, <2>2, <2>4
<1> QED BY <1>4, <1>5

-----------------------------------------------------------------------------
(* The notifications that wait, and what the handler has been told.        *)

(* A set of numbers that is not empty has a smallest one.                  *)
LEMMA SmallestOf ==
  ASSUME NEW T \in SUBSET Nat, T # {}
  PROVE  \E x \in T : \A y \in T : x <= y
<1> DEFINE R == {p \in Nat \X Nat : p[1] < p[2]}
<1>1. IsWellFoundedOn(R, Nat)
  BY NatLessThanWellFounded DEF OpToRel
<1>2. PICK x \in T : \A y \in T : ~ (<<y, x>> \in R)
  BY <1>1, WFMin
<1>3. ASSUME NEW y \in T PROVE x <= y
  <2>1. ~ (<<y, x>> \in R) /\ <<y, x>> \in Nat \X Nat
    BY <1>2
  <2>2. ~ (y < x)
    BY <2>1
  <2> QED BY <2>2
<1> QED BY <1>3

First(T) == CHOOSE m \in T : \A k \in T : m <= k

(* The first number of a set is its smallest.                              *)
LEMMA FirstIs ==
  ASSUME NEW T \in SUBSET Nat, NEW x \in T, \A y \in T : x <= y
  PROVE  First(T) = x
<1>1. First(T) \in T /\ \A k \in T : First(T) <= k
  BY DEF First
<1>2. First(T) <= x /\ x <= First(T) /\ x \in Nat /\ First(T) \in Nat
  BY <1>1
<1> QED BY <1>2

(* The operators of IngressStore, of a queue q and the objects o.          *)
Later(q, n, i) == {m \in DOMAIN q : m > n /\ q[m].ing = i}

AfterIn(q, o, n, i) == IF Later(q, n, i) = {} THEN o[i] ELSE q[First(Later(q, n, i))].old

(* The operators of IngressStore, for the queue of this state.             *)
LEMMA AfterIs ==
  /\ \A n, i : After(n, i) = AfterIn(ingressEvents, ingress, n, i)
  /\ \A i : Handled(i) = AfterIn(ingressEvents, ingress, 0, i)
BY DEF After, AfterIn, Later, First, Handled

(* A notification more: it has the last specification of its Ingress.      *)
LEMMA AfterAppend ==
  ASSUME NEW E, NEW q \in Seq(E), NEW e \in E, NEW o, NEW p,
         e.old = o[e.ing], e.cur = p[e.ing], \A j : j # e.ing => p[j] = o[j]
  PROVE  /\ \A n \in 0 .. Len(q) : \A j : AfterIn(Append(q, e), p, n, j) = AfterIn(q, o, n, j)
         /\ AfterIn(Append(q, e), p, Len(q) + 1, e.ing) = e.cur
<1> DEFINE r == Append(q, e)
<1>1. /\ Len(q) \in Nat /\ DOMAIN q = 1 .. Len(q) /\ DOMAIN r = 1 .. Len(q) + 1
      /\ \A m \in 1 .. Len(q) : r[m] = q[m]
      /\ r[Len(q) + 1] = e
  OBVIOUS
<1> HIDE DEF r
<1>2. ASSUME NEW n \in 0 .. Len(q), NEW j
      PROVE  AfterIn(r, p, n, j) = AfterIn(q, o, n, j)
  <2> DEFINE S == Later(q, n, j)
  <2> DEFINE T == Later(r, n, j)
  <2>1. S \subseteq T /\ S \in SUBSET Nat /\ T \in SUBSET Nat
    BY <1>1 DEF Later
  <2>2. \A m \in T : m \in S \/ (m = Len(q) + 1 /\ j = e.ing)
    BY <1>1 DEF Later
  <2>3. \A m \in S : m <= Len(q) /\ r[m] = q[m]
    BY <1>1 DEF Later
  <2>4. CASE S # {}
    <3>1. PICK x \in S : \A y \in S : x <= y
      BY <2>1, <2>4, SmallestOf
    <3>2. First(S) = x
      BY <2>1, <3>1, FirstIs
    <3>3. \A y \in T : x <= y
      BY <1>1, <2>1, <2>2, <2>3, <3>1
    <3>4. First(T) = x
      BY <2>1, <3>1, <3>3, FirstIs
    <3> QED BY <2>1, <2>3, <2>4, <3>1, <3>2, <3>4 DEF AfterIn
  <2>5. CASE S = {}
    <3>1. CASE j = e.ing
      <4>1. Len(q) + 1 \in T
        BY <1>1, <3>1 DEF Later
      <4>2. \A y \in T : Len(q) + 1 <= y
        BY <1>1, <2>2, <2>5
      <4>3. First(T) = Len(q) + 1
        BY <2>1, <4>1, <4>2, FirstIs
      <4> QED BY <1>1, <2>5, <3>1, <4>1, <4>3 DEF AfterIn
    <3>2. CASE j # e.ing
      <4>1. T = {}
        BY <2>2, <2>5, <3>2
      <4> QED BY <2>5, <3>2, <4>1 DEF AfterIn
    <3> QED BY <3>1, <3>2
  <2> QED BY <2>4, <2>5
<1>3. Later(r, Len(q) + 1, e.ing) = {}
  BY <1>1 DEF Later
<1> QED BY <1>2, <1>3 DEF AfterIn, r

(* A notification less.                                                    *)
LEMMA AfterTail ==
  ASSUME NEW E, NEW q \in Seq(E), q # <<>>, NEW o
  PROVE  /\ \A n \in Nat : \A j : AfterIn(Tail(q), o, n, j) = AfterIn(q, o, n + 1, j)
         /\ \A j : AfterIn(q, o, 0, j) = IF Head(q).ing = j THEN Head(q).old ELSE AfterIn(q, o, 1, j)
<1> DEFINE r == Tail(q)
<1>1. /\ Len(q) \in Nat /\ Len(q) >= 1 /\ DOMAIN q = 1 .. Len(q) /\ DOMAIN r = 1 .. Len(q) - 1
      /\ \A m \in 1 .. Len(q) - 1 : r[m] = q[m + 1]
      /\ Head(q) = q[1]
  OBVIOUS
<1> HIDE DEF r
<1>2. ASSUME NEW n \in Nat, NEW j
      PROVE  AfterIn(r, o, n, j) = AfterIn(q, o, n + 1, j)
  <2> DEFINE S == Later(r, n, j)
  <2> DEFINE T == Later(q, n + 1, j)
  <2>1. S \in SUBSET Nat /\ T \in SUBSET Nat
    BY <1>1 DEF Later
  <2>2. \A m \in S : m \in DOMAIN r /\ m + 1 \in T
    BY <1>1 DEF Later
  <2>3. \A m \in T : m - 1 \in S
    BY <1>1 DEF Later
  <2>4. CASE S # {}
    <3>1. PICK x \in S : \A y \in S : x <= y
      BY <2>1, <2>4, SmallestOf
    <3>2. First(S) = x
      BY <2>1, <3>1, FirstIs
    <3>3. x + 1 \in T /\ \A y \in T : x + 1 <= y
      BY <2>1, <2>2, <2>3, <3>1
    <3>4. First(T) = x + 1
      BY <2>1, <3>3, FirstIs
    <3>5. r[x] = q[x + 1]
      BY <1>1, <2>2, <3>1
    <3> QED BY <2>4, <3>2, <3>3, <3>4, <3>5 DEF AfterIn
  <2>5. CASE S = {}
    <3>1. T = {}
      BY <2>3, <2>5
    <3> QED BY <2>5, <3>1 DEF AfterIn
  <2> QED BY <2>4, <2>5
<1>3. ASSUME NEW j
      PROVE  AfterIn(q, o, 0, j) = IF Head(q).ing = j THEN Head(q).old ELSE AfterIn(q, o, 1, j)
  <2> DEFINE S == Later(q, 0, j)
  <2>1. CASE Head(q).ing = j
    <3>1. 1 \in S /\ S \in SUBSET Nat /\ \A y \in S : 1 <= y
      BY <1>1, <2>1 DEF Later
    <3>2. First(S) = 1
      BY <3>1, FirstIs
    <3> QED BY <1>1, <2>1, <3>1, <3>2 DEF AfterIn
  <2>2. CASE Head(q).ing # j
    <3>1. S = Later(q, 1, j)
      BY <1>1, <2>2 DEF Later
    <3> QED BY <2>2, <3>1 DEF AfterIn
  <2> QED BY <2>1, <2>2
<1> QED BY <1>2, <1>3 DEF r

-----------------------------------------------------------------------------
(* The references and the entries follow what the handler was told.        *)

(* The locals of a handler that rests.                                     *)
LEMMA IdleIs ==
  /\ Idle.pc = "idle" /\ Idle.ing = None /\ Idle.sec = None /\ Idle.cur = None
  /\ Idle.gone = FALSE /\ Idle.ings = {} /\ Idle.secs = {} /\ Idle.ret = "idle"
BY DEF Idle

(* Handled is not a matter of the store.                                   *)
LEMMA SameHandled ==
  ASSUME UNCHANGED <<ingress, ingressEvents>>
  PROVE  \A i : Handled(i)' = Handled(i) /\ Due(i)' = Due(i)
<1>1. \A i : Handled(i)' = Handled(i)
  BY DEF Handled, After
<1> QED BY <1>1 DEF Due

(* The chain depends on the queue and the Ingresses alone.                 *)
LEMMA SameChain ==
  ASSUME EventsChain, UNCHANGED <<ingress, ingressEvents>>
  PROVE  EventsChain'
BY DEF EventsChain, After

(* Steps outside the Ingress handler.                                      *)
LEMMA RefSame ==
  ASSUME ReferencesFit, UNCHANGED <<ingress, ingressEvents, refs>>,
         h'["ingress"] = h["ingress"],
         \A i \in Ingresses : annotated'[i] = Absent => annotated[i] = Absent,
         \A g \in Handlers \ {"ingress"} : h'[g].pc \notin {"forget", "unref", "ref"},
         h'["secret"].pc # "notify"
  PROVE  ReferencesFit'
<1>1. EventsChain'
  BY SameChain DEF ReferencesFit
<1>2. PlacesFit'
  BY DEF ReferencesFit, PlacesFit
<1>3. ASSUME NEW i \in Ingresses PROVE IngressFits(i)'
  <2>1. Handled(i)' = Handled(i) /\ Due(i)' = Due(i) /\ Recorded(i)' = Recorded(i)
    BY SameHandled DEF Recorded
  <2>2. (Handling(i)' <=> Handling(i)) /\ (annotated[i] # Absent => annotated'[i] # Absent)
    BY DEF Handling
  <2>3. IngressFits(i)
    BY DEF ReferencesFit
  <2>4. CASE Handling(i)
    BY <2>1, <2>2, <2>3, <2>4 DEF IngressFits
  <2>5. CASE ~Handling(i)
    BY <2>1, <2>2, <2>3, <2>5 DEF IngressFits
  <2> QED BY <2>4, <2>5
<1> QED BY <1>1, <1>2, <1>3 DEF ReferencesFit

(* Steps of the Ingress handler between its first and its last.            *)
LEMMA RefMove ==
  ASSUME ReferencesFit, UNCHANGED <<ingress, ingressEvents>>, Alone("ingress"), Keeps("ingress"),
         h["ingress"] # Idle, h'["ingress"] # Idle,
         \A i \in Ingresses : i # h["ingress"].ing =>
            Recorded(i)' = Recorded(i) /\ annotated'[i] = annotated[i],
         \A i \in Ingresses : i = h["ingress"].ing /\ IngressFits(i) =>
            LET m == h'["ingress"] IN
              /\ m.pc = "ref" => Recorded(i)' = {}
              /\ m.pc \in {"list", "notify"} \/ SyncsEach(m) => Recorded(i)' = Due(i)
              /\ ~m.gone => Extracts(m) \/ annotated'[i] # Absent,
         LET m == h'["ingress"] IN
           \/ ~m.gone /\ (Extracts(m) \/ m.pc \in {"unref", "ref", "list"} \/ SyncsEach(m))
           \/ m.gone /\ m.pc \in {"forget", "unref", "notify"}
  PROVE  ReferencesFit'
<1>1. EventsChain'
  BY SameChain DEF ReferencesFit
<1>2. PlacesFit'
  BY DEF ReferencesFit, PlacesFit, Alone, Handlers
<1>3. ASSUME NEW i \in Ingresses PROVE IngressFits(i)'
  <2>1. Handled(i)' = Handled(i) /\ Due(i)' = Due(i)
    BY SameHandled
  <2>2. Handling(i)' <=> Handling(i)
    BY DEF Handling, Keeps
  <2>3. IngressFits(i)
    BY DEF ReferencesFit
  <2>4. CASE Handling(i)
    <3>1. i = h["ingress"].ing
      BY <2>4 DEF Handling
    <3>2. /\ h["ingress"].gone <=> ~Accepted(Handled(i))
          /\ ~h["ingress"].gone => h["ingress"].spec = Handled(i)
      BY <2>3, <2>4 DEF IngressFits
    <3>3. /\ h'["ingress"].gone <=> ~Accepted(Handled(i)')
          /\ ~h'["ingress"].gone => h'["ingress"].spec = Handled(i)'
      BY <2>1, <3>2 DEF Keeps
    <3> QED BY <2>1, <2>2, <2>3, <2>4, <3>1, <3>3 DEF IngressFits
  <2>5. CASE ~Handling(i)
    <3>1. i # h["ingress"].ing
      BY <2>5 DEF Handling
    <3> QED BY <2>1, <2>2, <2>3, <2>5, <3>1 DEF IngressFits
  <2> QED BY <2>4, <2>5
<1> QED BY <1>1, <1>2, <1>3 DEF ReferencesFit

(* Steps of any handler that write neither references nor entries.         *)
LEMMA RefStill ==
  ASSUME IInv, ReferencesFit, UNCHANGED <<ingress, ingressEvents, refs, annotated>>,
         NEW g \in Handlers, Alone(g),
         LET l == h[g]
             m == h'[g] IN
           /\ m.pc \notin {"forget", "unref", "ref", "notify"}
           /\ g = "ingress" => /\ Keeps(g) /\ l.pc # "idle" /\ m.pc # "idle" /\ m.pc # "list"
                               /\ \/ Extracts(l) /\ Extracts(m)
                                  \/ (l.pc = "list" \/ SyncsEach(l)) /\ SyncsEach(m)
  PROVE  ReferencesFit'
<1>1. CASE g = "ingress"
  <2>1. h["ingress"] # Idle /\ h'["ingress"] # Idle
    BY <1>1, IdleIs
  <2>2. PlacesFit
    BY DEF ReferencesFit
  <2>3. ~h["ingress"].gone
    BY <1>1, <2>1, <2>2 DEF PlacesFit, Extracts, SyncsEach, Serves
  <2>4. ~h'["ingress"].gone
    BY <1>1, <2>3 DEF Keeps
  <2>5. ASSUME NEW i \in Ingresses, i = h["ingress"].ing, IngressFits(i)
        PROVE  /\ SyncsEach(h'["ingress"]) => Recorded(i)' = Due(i)
               /\ Extracts(h'["ingress"]) \/ annotated'[i] # Absent
    <3>1. Recorded(i)' = Recorded(i) /\ Handling(i)
      BY <2>1, <2>5 DEF Recorded, Handling
    <3>2. SyncsEach(h'["ingress"]) => ~Extracts(h'["ingress"])
      BY DEF SyncsEach, Extracts, Serves
    <3>3. SyncsEach(h["ingress"]) \/ h["ingress"].pc = "list" => ~Extracts(h["ingress"])
      BY DEF SyncsEach, Extracts, Serves
    <3> QED BY <1>1, <2>3, <2>5, <3>1, <3>2, <3>3 DEF IngressFits
  <2>6. \A i \in Ingresses : Recorded(i)' = Recorded(i) /\ annotated'[i] = annotated[i]
    BY DEF Recorded
  <2> QED BY <1>1, <2>1, <2>4, <2>5, <2>6, RefMove
<1>2. CASE g # "ingress"
  <2>1. h'["ingress"] = h["ingress"]
    BY <1>2 DEF Alone, Handlers
  <2>2. \A k \in Handlers \ {"ingress"} : h'[k].pc \notin {"forget", "unref", "ref"}
    BY <1>2 DEF Alone, ReferencesFit, PlacesFit
  <2>3. h'["secret"].pc # "notify"
    BY <1>2 DEF Alone, ReferencesFit, PlacesFit, Handlers
  <2> QED BY <2>1, <2>2, <2>3, RefSame
<1> QED BY <1>1, <1>2

(* A handler that synchronizes goes on where it was called.                *)
LEMMA RefReturn ==
  ASSUME IInv, ReferencesFit, UNCHANGED <<ingress, ingressEvents, refs, annotated>>,
         NEW g \in Handlers, Alone(g), Keeps(g),
         h[g].pc \in {"sync", "write"}, h'[g].pc = h[g].ret
  PROVE  ReferencesFit'
<1>1. h[g].ret \in {"fetch", "each", "lookup"}
  BY DEF IInv, Fits, Serving
<1>2. g = "ingress" => h[g].ret # "lookup"
  BY IdleIs DEF ReferencesFit, PlacesFit, Extracts, SyncsEach, Serves
<1>3. h'[g].pc \notin {"forget", "unref", "ref", "notify", "idle", "list"} /\ h[g].pc # "idle"
  BY <1>1
<1>4. CASE h[g].ret = "fetch"
  <2>1. Extracts(h[g]) /\ Extracts(h'[g])
    BY <1>4 DEF Extracts, Serves
  <2> QED BY <1>3, <2>1, RefStill
<1>5. CASE h[g].ret = "each"
  <2>1. SyncsEach(h[g]) /\ SyncsEach(h'[g])
    BY <1>5 DEF SyncsEach, Serves
  <2> QED BY <1>3, <2>1, RefStill
<1>6. CASE h[g].ret = "lookup"
  <2>1. g # "ingress"
    BY <1>2, <1>6
  <2> QED BY <1>3, <2>1, RefStill
<1> QED BY <1>1, <1>4, <1>5, <1>6

(* The actions of the handlers, one by one.                                *)
LEMMA RefHandle ==
  ASSUME IInv, ReferencesFit, NEW g \in Handlers, Handle(g)
  PROVE  ReferencesFit'
<1>a. PlacesFit /\ EventsChain
  BY DEF ReferencesFit
<1>b. h["ingress"] # Idle => h["ingress"].pc # "idle"
  BY <1>a, IdleIs DEF PlacesFit, Extracts, SyncsEach, Serves
<1>c. g # "ingress" => h[g].pc \notin {"forget", "unref", "ref"}
  BY <1>a DEF PlacesFit
<1>1. CASE ParsePassword(g)
  <2>1. UNCHANGED <<ingress, ingressEvents, refs, annotated>>
    BY <1>1 DEF ParsePassword, cluster, store
  <2> QED BY <1>1, <2>1, ParsePasswordMoves, RefStill DEF Extracts
<1>2. CASE FetchCertificate(g)
  <2>1. UNCHANGED <<ingress, ingressEvents, refs, annotated>>
    BY <1>2 DEF FetchCertificate, cluster, store
  <2> QED BY <1>2, <2>1, FetchCertificateMoves, RefStill DEF Extracts
<1>3. CASE \E k \in CertificateKinds : ParseCertificate(g, k)
  <2>1. PICK k \in CertificateKinds : ParseCertificate(g, k)
    BY <1>3
  <2>2. UNCHANGED <<ingress, ingressEvents, refs, annotated>>
    BY <2>1 DEF ParseCertificate, cluster, store
  <2>3. Alone(g) /\ Keeps(g) /\ Extracts(h[g]) /\ Extracts(h'[g]) /\ h[g].pc # "idle"
        /\ h'[g].pc \in {"sync", "fetch"}
    BY <2>1, ParseCertificateMoves DEF Extracts, Serves
  <2> QED BY <2>2, <2>3, RefStill
<1>4. CASE UpdateAnnotated(g)
  <2>1. UNCHANGED <<ingress, ingressEvents, refs>>
    BY <1>4 DEF UpdateAnnotated, cluster
  <2>2. Alone(g) /\ Keeps(g) /\ h[g].pc = "parse" /\ h'[g].pc = AfterUpdate(g)
    BY <1>4, UpdateAnnotatedMoves
  <2>3. h[g].ing \in Ingresses
    BY <2>2 DEF IInv, Fits, OnIngress
  <2>4. \A i \in Ingresses : IF i = h[g].ing THEN annotated'[i] # Absent ELSE annotated'[i] = annotated[i]
    <3> DEFINE new == [spec |-> h[g].spec, parsed |-> h[g].parsed]
    <3>1. annotated' = [annotated EXCEPT ![h[g].ing] = new]
      BY <1>4 DEF UpdateAnnotated
    <3>2. new \in [spec : Specs, parsed : Parsed]
      BY <2>2 DEF IInv, TypeOK, TypeLocals, Locals, Fits, OnIngress
    <3>3. new # Absent
      BY <3>2, NameAssumption DEF Parsed
    <3> QED BY <3>1, <3>3 DEF IInv, TypeOK, TypeStore
  <2>5. CASE g = "ingress"
    <3>1. h["ingress"] # Idle /\ h'["ingress"] # Idle /\ h'["ingress"].pc = "unref"
      BY <2>2, <2>5, IdleIs DEF AfterUpdate
    <3>2. ~h["ingress"].gone /\ ~h'["ingress"].gone
      BY <1>a, <2>2, <2>5, <3>1 DEF PlacesFit, Keeps
    <3>3. ~SyncsEach(h'["ingress"])
      BY <3>1 DEF SyncsEach, Serves
    <3>4. \A i \in Ingresses : Recorded(i)' = Recorded(i)
      BY <2>1 DEF Recorded
    <3> QED BY <2>1, <2>2, <2>4, <2>5, <3>1, <3>2, <3>3, <3>4, RefMove
  <2>6. CASE g # "ingress"
    <3>1. h'["ingress"] = h["ingress"]
      BY <2>2, <2>6 DEF Alone, Handlers
    <3>2. h'[g].pc \in {"list", "next"}
      BY <2>2, <2>6 DEF AfterUpdate
    <3>3. \A k \in Handlers \ {"ingress"} : h'[k].pc \notin {"forget", "unref", "ref"}
      BY <1>a, <2>2, <3>2 DEF Alone, PlacesFit
    <3>4. h'["secret"].pc # "notify"
      BY <1>a, <2>2, <3>2 DEF Alone, PlacesFit, Handlers
    <3> QED BY <2>1, <2>4, <3>1, <3>3, <3>4, RefSame
  <2> QED BY <2>5, <2>6
<1>5. CASE SyncNothing(g)
  <2>1. UNCHANGED <<ingress, ingressEvents, refs, annotated>>
    BY <1>5 DEF SyncNothing, cluster, store
  <2> QED BY <1>5, <2>1, SyncNothingMoves, RefReturn
<1>6. CASE ReadSecret(g)
  <2>1. UNCHANGED <<ingress, ingressEvents, refs, annotated>>
    BY <1>6 DEF ReadSecret, cluster, store
  <2>2. Alone(g) /\ Keeps(g) /\ h[g].pc = "sync" /\ h'[g].pc = "write" /\ h'[g].ret = h[g].ret
    BY <1>6, ReadSecretMoves
  <2>3. (Extracts(h[g]) <=> Extracts(h'[g])) /\ (SyncsEach(h[g]) <=> SyncsEach(h'[g]))
    BY <2>2 DEF Extracts, SyncsEach, Serves
  <2>4. g = "ingress" => Extracts(h[g]) \/ SyncsEach(h[g])
    BY <1>a, <2>2, IdleIs DEF PlacesFit
  <2> QED BY <2>1, <2>2, <2>3, <2>4, RefStill
<1>7. CASE WriteCertificate(g)
  <2>1. UNCHANGED <<ingress, ingressEvents, refs, annotated>>
    BY <1>7 DEF WriteCertificate, cluster
  <2> QED BY <1>7, <2>1, WriteCertificateMoves, RefReturn
<1>8. CASE ForgetIngress(g)
  <2>1. UNCHANGED <<ingress, ingressEvents, refs>>
    BY <1>8 DEF ForgetIngress, cluster
  <2>2. Alone(g) /\ Keeps(g) /\ h[g].pc = "forget" /\ h'[g].pc = "unref"
    BY <1>8, ForgetIngressMoves
  <2>3. g = "ingress" /\ h["ingress"] # Idle /\ h'["ingress"] # Idle
    BY <1>c, <2>2, IdleIs
  <2>4. h["ingress"].gone /\ h'["ingress"].gone
    BY <1>a, <2>2, <2>3 DEF PlacesFit, Extracts, SyncsEach, Serves, Keeps
  <2>5. \A i \in Ingresses : Recorded(i)' = Recorded(i)
                             /\ (i # h["ingress"].ing => annotated'[i] = annotated[i])
    BY <1>8, <2>1, <2>3 DEF ForgetIngress, Recorded, IInv, TypeOK, TypeStore
  <2>6. ~SyncsEach(h'["ingress"])
    BY <2>2, <2>3 DEF SyncsEach, Serves
  <2> QED BY <2>1, <2>2, <2>3, <2>4, <2>5, <2>6, RefMove
<1>9. CASE DeleteReferences(g)
  <2>1. UNCHANGED <<ingress, ingressEvents, annotated>> /\ refs' = {r \in refs : r[2] # h[g].ing}
    BY <1>9 DEF DeleteReferences, cluster
  <2>2. Alone(g) /\ Keeps(g) /\ h[g].pc = "unref" /\ h'[g].pc = (IF h[g].gone THEN "notify" ELSE "ref")
    BY <1>9, DeleteReferencesMoves
  <2>3. g = "ingress" /\ h["ingress"] # Idle /\ h'["ingress"] # Idle
    BY <1>c, <2>2, IdleIs
  <2>4. \A i \in Ingresses : Recorded(i)' = IF i = h["ingress"].ing THEN {} ELSE Recorded(i)
    BY <2>1, <2>3 DEF Recorded
  <2>5. ~SyncsEach(h'["ingress"]) /\ ~Extracts(h["ingress"])
    BY <2>2, <2>3 DEF SyncsEach, Extracts, Serves
  <2>6. ASSUME NEW i \in Ingresses, i = h["ingress"].ing, IngressFits(i)
        PROVE  /\ h'["ingress"].pc = "notify" => Due(i) = {}
               /\ ~h'["ingress"].gone => annotated'[i] # Absent
    <3>1. Handling(i)
      BY <2>3, <2>6 DEF Handling
    <3> QED BY <2>1, <2>2, <2>3, <2>5, <2>6, <3>1 DEF IngressFits, Due, Keeps
  <2>7. \/ h'["ingress"].gone /\ h'["ingress"].pc = "notify"
        \/ ~h'["ingress"].gone /\ h'["ingress"].pc = "ref"
    BY <2>2, <2>3 DEF Keeps, Alone, Locals
  <2> QED BY <2>1, <2>2, <2>3, <2>4, <2>5, <2>6, <2>7, RefMove
<1>10. CASE InsertReferences(g)
  <2>1. UNCHANGED <<ingress, ingressEvents, annotated>>
        /\ refs' = refs \cup (Named(h[g].spec, RecordedKinds) \X {h[g].ing})
    BY <1>10 DEF InsertReferences, cluster
  <2>2. Alone(g) /\ Keeps(g) /\ h[g].pc = "ref" /\ h'[g].pc = "list"
    BY <1>10, InsertReferencesMoves
  <2>3. g = "ingress" /\ h["ingress"] # Idle /\ h'["ingress"] # Idle
    BY <1>c, <2>2, IdleIs
  <2>4. ~h["ingress"].gone /\ ~h'["ingress"].gone
    BY <1>a, <2>2, <2>3 DEF PlacesFit, Keeps
  <2>5. ~SyncsEach(h'["ingress"]) /\ ~Extracts(h["ingress"])
    BY <2>2, <2>3 DEF SyncsEach, Extracts, Serves
  <2>6. Named(h["ingress"].spec, RecordedKinds) \subseteq Secrets
    <3>1. h["ingress"].spec \in Specs
      BY <2>2, <2>3, <2>4 DEF IInv, Fits, OnIngress
    <3> QED BY <3>1, SpecAssumption DEF Named, RecordedKinds, Kinds
  <2>7. \A i \in Ingresses : Recorded(i)' = IF i = h["ingress"].ing
                                THEN Recorded(i) \cup Named(h["ingress"].spec, RecordedKinds)
                                ELSE Recorded(i)
    BY <2>1, <2>3, <2>6 DEF Recorded
  <2>8. ASSUME NEW i \in Ingresses, i = h["ingress"].ing, IngressFits(i)
        PROVE  Recorded(i)' = Due(i) /\ annotated'[i] # Absent
    <3>1. Handling(i)
      BY <2>3, <2>8 DEF Handling
    <3>2. Recorded(i) = {} /\ Due(i) = Named(h["ingress"].spec, RecordedKinds)
      BY <2>2, <2>3, <2>4, <2>8, <3>1 DEF IngressFits, Due
    <3> QED BY <2>1, <2>4, <2>5, <2>7, <2>8, <3>1, <3>2 DEF IngressFits
  <2> QED BY <2>1, <2>2, <2>3, <2>4, <2>5, <2>7, <2>8, RefMove
<1>11. CASE ListSecrets(g)
  <2>1. UNCHANGED <<ingress, ingressEvents, refs, annotated>>
    BY <1>11 DEF ListSecrets, cluster, store
  <2> QED BY <1>11, <2>1, ListSecretsMoves, RefStill DEF SyncsEach
<1>12. CASE \E s \in Secrets : SyncEach(g, s)
  <2>1. PICK s \in Secrets : SyncEach(g, s)
    BY <1>12
  <2>2. UNCHANGED <<ingress, ingressEvents, refs, annotated>>
    BY <2>1 DEF SyncEach, cluster, store
  <2> QED BY <2>1, <2>2, SyncEachMoves, RefStill DEF SyncsEach, Serves
<1>13. CASE DropCertificate(g)
  <2>1. UNCHANGED <<ingress, ingressEvents, refs, annotated>>
    BY <1>13 DEF DropCertificate, cluster
  <2>2. g # "ingress"
    BY <1>13, <1>a, IdleIs DEF DropCertificate, PlacesFit, Extracts, SyncsEach, Serves
  <2> QED BY <1>13, <2>1, <2>2, DropCertificateMoves, RefStill
<1>14. CASE FindReferences(g)
  <2>1. UNCHANGED <<ingress, ingressEvents, refs, annotated>>
    BY <1>14 DEF FindReferences, cluster, store
  <2>2. g # "ingress"
    BY <1>14, <1>a, IdleIs DEF FindReferences, PlacesFit, Extracts, SyncsEach, Serves
  <2>3. Alone(g) /\ h'[g].pc \in {"idle", "next"}
    BY <1>14, FindReferencesMoves, IdleIs
  <2> QED BY <2>1, <2>2, <2>3, RefStill
<1>15. CASE \E i \in Ingresses : NextIngress(g, i)
  <2>1. PICK i \in Ingresses : NextIngress(g, i)
    BY <1>15
  <2>2. UNCHANGED <<ingress, ingressEvents, refs, annotated>>
    BY <2>1 DEF NextIngress, cluster, store
  <2>3. g # "ingress"
    BY <2>1, <1>a, IdleIs DEF NextIngress, PlacesFit, Extracts, SyncsEach, Serves
  <2>4. Alone(g) /\ h'[g].pc \in {"parse", "next"}
    BY <2>1, NextIngressMoves
  <2> QED BY <2>2, <2>3, <2>4, RefStill
<1>16. CASE g = "secret" /\ SyncedAll
  <2>1. UNCHANGED <<ingress, ingressEvents, refs, annotated>>
    BY <1>16 DEF SyncedAll, cluster, store
  <2> QED BY <1>16, <2>1, SyncedAllMoves, RefStill
<1>17. CASE SendEvent(g)
  <2>1. UNCHANGED <<ingress, ingressEvents, refs, annotated>>
    BY <1>17 DEF SendEvent, cluster, store
  <2>2. Alone(g) /\ h'[g] = Idle
    BY <1>17, SendEventMoves
  <2>3. CASE g # "ingress"
    BY <2>1, <2>2, <2>3, IdleIs, RefStill
  <2>4. CASE g = "ingress"
    <3>1. h["ingress"].pc \in {"notify", "each"} /\ h["ingress"] # Idle
      BY <1>17, <1>a, <2>4, IdleIs DEF SendEvent, Finished, PlacesFit, Extracts, SyncsEach, Serves
    <3>2. EventsChain'
      BY <1>a, <2>1, SameChain
    <3>3. PlacesFit'
      BY <1>a, <2>2, <2>4 DEF PlacesFit, Alone, Handlers
    <3>4. ASSUME NEW i \in Ingresses PROVE IngressFits(i)'
      <4>1. Handled(i)' = Handled(i) /\ Due(i)' = Due(i) /\ Recorded(i)' = Recorded(i)
        BY <2>1, SameHandled DEF Recorded
      <4>2. ~Handling(i)'
        BY <2>2, <2>4 DEF Handling
      <4>3. IngressFits(i)
        BY DEF ReferencesFit
      <4>4. CASE ~Handling(i)
        BY <2>1, <4>1, <4>2, <4>3, <4>4 DEF IngressFits
      <4>5. CASE Handling(i)
        <5>1. Recorded(i) = Due(i)
          BY <3>1, <4>3, <4>5 DEF IngressFits, SyncsEach
        <5>2. h["ingress"].pc = "notify" => h["ingress"].gone
          BY <1>a, <3>1 DEF PlacesFit, Extracts, SyncsEach, Serves
        <5>3. h["ingress"].pc = "each" => ~Extracts(h["ingress"])
          BY DEF Extracts, Serves
        <5>4. Accepted(Handled(i)) => annotated[i] # Absent
          BY <3>1, <4>3, <4>5, <5>2, <5>3 DEF IngressFits
        <5> QED BY <2>1, <4>1, <4>2, <5>1, <5>4 DEF IngressFits
      <4> QED BY <4>4, <4>5
    <3> QED BY <3>2, <3>3, <3>4 DEF ReferencesFit
  <2> QED BY <2>3, <2>4
<1> QED BY <1>1, <1>2, <1>3, <1>4, <1>5, <1>6, <1>7, <1>8, <1>9, <1>10, <1>11, <1>12,
           <1>13, <1>14, <1>15, <1>16, <1>17 DEF Handle

(* The chain and what was told, of the queue after a step.                 *)
LEMMA ChainNext ==
  ASSUME \A n \in DOMAIN ingressEvents' :
           ingressEvents'[n].cur = AfterIn(ingressEvents', ingress', n, ingressEvents'[n].ing)
  PROVE  EventsChain'
BY DEF EventsChain, After, AfterIn, Later, First

(* What was told, of the queue after a step.                               *)
LEMMA HandledNext == \A i : Handled(i)' = AfterIn(ingressEvents', ingress', 0, i)
BY DEF Handled, After, AfterIn, Later, First

(* The Ingress handler is given a notification.                            *)
LEMMA IngressHandlerMoves ==
  ASSUME IInv, IngressHandler
  PROVE  LET e == Head(ingressEvents)
             m == h'["ingress"] IN
         /\ Alone("ingress") /\ h["ingress"].pc = "idle"
         /\ e.ing \in Ingresses /\ e.old \in Specs \cup {Absent} /\ e.cur \in Specs \cup {Absent}
         /\ IF Applies(e.old, e.cur)
            THEN m.pc = "parse" /\ m.ing = e.ing /\ m.spec = e.cur /\ m.gone = FALSE
            ELSE IF Removes(e.old, e.cur)
            THEN m.pc = "forget" /\ m.ing = e.ing /\ m.gone = TRUE
            ELSE m = Idle
<1> DEFINE e == Head(ingressEvents)
<1>0. "ingress" \in Handlers
  BY DEF Handlers
<1>1. e.ing \in Ingresses /\ e.old \in Specs \cup {Absent} /\ e.cur \in Specs \cup {Absent}
  <2> DEFINE E == [ing : Ingresses, old : Specs \cup {Absent}, cur : Specs \cup {Absent}]
  <2>1. ingressEvents \in Seq(E) /\ ingressEvents # <<>>
    BY DEF IInv, TypeOK, TypeCluster, IngressHandler
  <2> HIDE DEF E
  <2>2. e \in E
    BY <2>1
  <2> QED BY <2>2 DEF E
<1>2. h["ingress"].pc = "idle"
  BY DEF IngressHandler
<1> DEFINE taken == [Idle EXCEPT !.ing = e.ing, !.spec = e.cur]
<1> DEFINE dropped == [Idle EXCEPT !.pc = "forget", !.ing = e.ing, !.gone = TRUE]
<1>3. taken.ing = e.ing /\ taken.spec = e.cur /\ taken.gone = FALSE
  BY DEF Idle
<1>4. dropped.pc = "forget" /\ dropped.ing = e.ing /\ dropped.gone = TRUE
  BY DEF Idle
<1>5. /\ Extracting(taken).pc = "parse" /\ Extracting(taken).ing = taken.ing
      /\ Extracting(taken).spec = taken.spec /\ Extracting(taken).gone = taken.gone
  BY DEF Extracting, Idle
<1>6. h' = [h EXCEPT !["ingress"] = IF Applies(e.old, e.cur) THEN Extracting(taken)
                                    ELSE IF Removes(e.old, e.cur) THEN dropped ELSE Idle]
  BY DEF IngressHandler
<1> HIDE DEF taken, dropped
<1>7. Alone("ingress") /\ h'["ingress"] = IF Applies(e.old, e.cur) THEN Extracting(taken)
                                    ELSE IF Removes(e.old, e.cur) THEN dropped ELSE Idle
  BY <1>0, <1>6, OthersStay
<1> QED BY <1>1, <1>2, <1>3, <1>4, <1>5, <1>7

(* The Ingress handler takes a notification and begins to follow it.       *)
LEMMA RefIngressHandler ==
  ASSUME IInv, ReferencesFit, IngressHandler
  PROVE  ReferencesFit'
<1>a. PlacesFit /\ EventsChain /\ \A i \in Ingresses : IngressFits(i)
  BY DEF ReferencesFit
<1>b. /\ ingressEvents \in Seq([ing : Ingresses, old : Specs \cup {Absent}, cur : Specs \cup {Absent}])
      /\ ingressEvents # <<>> /\ ingressEvents' = Tail(ingressEvents) /\ ingress' = ingress
      /\ refs' = refs /\ annotated' = annotated
  BY DEF IngressHandler, IInv, TypeOK, TypeCluster, store
<1>c. PICK e : e = Head(ingressEvents)
  OBVIOUS
<1> DEFINE l == h["ingress"]
<1> DEFINE m == h'["ingress"]
<1>d. /\ Alone("ingress") /\ l.pc = "idle"
      /\ e.ing \in Ingresses /\ e.old \in Specs \cup {Absent} /\ e.cur \in Specs \cup {Absent}
      /\ IF Applies(e.old, e.cur)
         THEN m.pc = "parse" /\ m.ing = e.ing /\ m.spec = e.cur /\ m.gone = FALSE
         ELSE IF Removes(e.old, e.cur)
         THEN m.pc = "forget" /\ m.ing = e.ing /\ m.gone = TRUE
         ELSE m = Idle
  BY <1>c, IngressHandlerMoves
<1>e. l = Idle
  BY <1>a, <1>d DEF PlacesFit, Extracts, SyncsEach, Serves
<1>1. /\ \A n \in Nat : \A j : AfterIn(ingressEvents', ingress', n, j) = After(n + 1, j)
      /\ \A j : Handled(j) = IF e.ing = j THEN e.old ELSE After(1, j)
  <2>1. \A n \in Nat : \A j : AfterIn(ingressEvents', ingress', n, j) = AfterIn(ingressEvents, ingress, n + 1, j)
    BY <1>b, AfterTail
  <2>2. \A j : AfterIn(ingressEvents, ingress, 0, j)
               = IF e.ing = j THEN e.old ELSE AfterIn(ingressEvents, ingress, 1, j)
    BY <1>b, <1>c, AfterTail
  <2> QED BY <2>1, <2>2, AfterIs
<1>2. /\ Len(ingressEvents) \in Nat /\ DOMAIN ingressEvents = 1 .. Len(ingressEvents)
      /\ Len(ingressEvents) >= 1 /\ e = ingressEvents[1]
      /\ DOMAIN ingressEvents' = 1 .. Len(ingressEvents) - 1
      /\ \A n \in 1 .. Len(ingressEvents) - 1 : ingressEvents'[n] = ingressEvents[n + 1]
  BY <1>b, <1>c
<1>3. EventsChain'
  <2> SUFFICES ASSUME NEW n \in DOMAIN ingressEvents'
               PROVE  ingressEvents'[n].cur = AfterIn(ingressEvents', ingress', n, ingressEvents'[n].ing)
    BY ChainNext
  <2>1. n \in Nat /\ n + 1 \in DOMAIN ingressEvents /\ ingressEvents'[n] = ingressEvents[n + 1]
    BY <1>2
  <2>2. ingressEvents[n + 1].cur = After(n + 1, ingressEvents[n + 1].ing)
    BY <1>a, <2>1 DEF EventsChain
  <2> QED BY <1>1, <2>1, <2>2
<1>4. \A j : Handled(j)' = IF e.ing = j THEN e.cur ELSE Handled(j)
  <2>1. \A j : Handled(j)' = After(1, j)
    BY <1>1, HandledNext
  <2>2. 1 \in DOMAIN ingressEvents
    BY <1>2
  <2>3. e.cur = After(1, e.ing)
    BY <1>a, <1>2, <2>2 DEF EventsChain
  <2> QED BY <1>1, <2>1, <2>3
<1>5. PlacesFit'
  BY <1>a, <1>d DEF PlacesFit, Alone, Handlers, Extracts
<1>6. ASSUME NEW j \in Ingresses PROVE IngressFits(j)'
  <2>1. ~Handling(j) /\ IngressFits(j) /\ Recorded(j)' = Recorded(j) /\ annotated'[j] = annotated[j]
    BY <1>a, <1>b, <1>e DEF Handling, Recorded
  <2>2. Recorded(j) = Due(j) /\ (Accepted(Handled(j)) => annotated[j] # Absent)
    BY <2>1 DEF IngressFits
  <2>3. CASE e.ing # j
    <3>1. ~Handling(j)'
      BY <1>d, <2>3, IdleIs DEF Handling
    <3>2. Handled(j)' = Handled(j) /\ Due(j)' = Due(j)
      BY <1>4, <2>3 DEF Due
    <3> QED BY <2>1, <2>2, <3>1, <3>2 DEF IngressFits
  <2>4. CASE e.ing = j /\ Applies(e.old, e.cur)
    <3>1. Handled(j)' = e.cur /\ Accepted(e.cur)
      BY <1>4, <2>4 DEF Applies, Accepted
    <3>2. m.pc = "parse" /\ m.spec = e.cur /\ m.gone = FALSE
      BY <1>d, <2>4
    <3>3. ~SyncsEach(m) /\ Extracts(m)
      BY <3>2 DEF SyncsEach, Extracts, Serves
    <3>4. Handling(j)'
      BY <1>d, <2>4, IdleIs DEF Handling
    <3> QED BY <3>1, <3>2, <3>3, <3>4 DEF IngressFits
  <2>5. CASE e.ing = j /\ ~Applies(e.old, e.cur) /\ Removes(e.old, e.cur)
    <3>1. Handled(j)' = e.cur /\ ~Accepted(e.cur)
      BY <1>4, <2>5 DEF Applies, Removes, Accepted
    <3>2. m.pc = "forget" /\ m.gone = TRUE
      BY <1>d, <2>5
    <3>3. ~SyncsEach(m)
      BY <3>2 DEF SyncsEach, Serves
    <3>4. Handling(j)'
      BY <1>d, <2>5, IdleIs DEF Handling
    <3> QED BY <3>1, <3>2, <3>3, <3>4 DEF IngressFits
  <2>6. CASE e.ing = j /\ ~Applies(e.old, e.cur) /\ ~Removes(e.old, e.cur)
    <3>1. Handled(j)' = e.cur /\ Handled(j) = e.old
      BY <1>1, <1>4, <2>6
    <3>2. e.cur = e.old \/ (~Accepted(e.cur) /\ ~Accepted(e.old))
      BY <2>6 DEF Applies, Removes, Accepted
    <3>3. Due(j)' = Due(j) /\ (Accepted(Handled(j))' => Accepted(Handled(j)))
      BY <3>1, <3>2 DEF Due
    <3>4. ~Handling(j)'
      BY <1>d, <2>6 DEF Handling
    <3> QED BY <2>1, <2>2, <3>3, <3>4 DEF IngressFits
  <2> QED BY <2>3, <2>4, <2>5, <2>6
<1> QED BY <1>3, <1>5, <1>6 DEF ReferencesFit

(* An Ingress changes: what the handler was told stays the same.           *)
LEMMA RefIngressChanges ==
  ASSUME IInv, ReferencesFit, NEW i \in Ingresses, NEW spec \in Specs \cup {Absent},
         IngressChanges(i, spec)
  PROVE  ReferencesFit'
<1> DEFINE E == [ing : Ingresses, old : Specs \cup {Absent}, cur : Specs \cup {Absent}]
<1>a. ingress \in [Ingresses -> Specs \cup {Absent}] /\ ingressEvents \in Seq(E)
  BY DEF IInv, TypeOK, TypeCluster
<1>b. PICK e : e = [ing |-> i, old |-> ingress[i], cur |-> spec]
  OBVIOUS
<1>c. e \in E
  BY <1>a, <1>b
<1>d. /\ ingressEvents' = Append(ingressEvents, e) /\ ingress' = [ingress EXCEPT ![i] = spec]
      /\ h' = h /\ refs' = refs /\ annotated' = annotated
  BY <1>b DEF IngressChanges, store
<1> HIDE DEF E
<1>1. /\ Len(ingressEvents) \in Nat /\ DOMAIN ingressEvents = 1 .. Len(ingressEvents)
      /\ DOMAIN ingressEvents' = 1 .. Len(ingressEvents) + 1
      /\ \A n \in 1 .. Len(ingressEvents) : ingressEvents'[n] = ingressEvents[n]
      /\ ingressEvents'[Len(ingressEvents) + 1] = e
  BY <1>a, <1>c, <1>d
<1>2. /\ \A n \in 0 .. Len(ingressEvents) : \A j : AfterIn(ingressEvents', ingress', n, j) = After(n, j)
      /\ AfterIn(ingressEvents', ingress', Len(ingressEvents) + 1, e.ing) = e.cur
  <2>1. e.old = ingress[e.ing] /\ e.cur = ingress'[e.ing] /\ \A j : j # e.ing => ingress'[j] = ingress[j]
    <3>1. e.ing = i /\ e.old = ingress[i] /\ e.cur = spec
      BY <1>b
    <3>2. \A j : j # i => ingress'[j] = ingress[j]
      BY <1>a, <1>d
    <3>3. ingress'[i] = spec
      BY <1>a, <1>d
    <3> QED BY <3>1, <3>2, <3>3
  <2>a. PICK p : p = ingress'
    OBVIOUS
  <2>b. /\ \A n \in 0 .. Len(ingressEvents) : \A j :
             AfterIn(Append(ingressEvents, e), p, n, j) = AfterIn(ingressEvents, ingress, n, j)
        /\ AfterIn(Append(ingressEvents, e), p, Len(ingressEvents) + 1, e.ing) = e.cur
    BY <1>a, <1>c, <2>1, <2>a, AfterAppend
  <2>2. /\ \A n \in 0 .. Len(ingressEvents) : \A j :
             AfterIn(ingressEvents', ingress', n, j) = AfterIn(ingressEvents, ingress, n, j)
        /\ AfterIn(ingressEvents', ingress', Len(ingressEvents) + 1, e.ing) = e.cur
    BY <1>d, <2>a, <2>b
  <2> QED BY <2>2, AfterIs
<1>3. EventsChain'
  <2> SUFFICES ASSUME NEW n \in DOMAIN ingressEvents'
               PROVE  ingressEvents'[n].cur = AfterIn(ingressEvents', ingress', n, ingressEvents'[n].ing)
    BY ChainNext
  <2>1. CASE n = Len(ingressEvents) + 1
    BY <1>1, <1>2, <2>1
  <2>2. CASE n # Len(ingressEvents) + 1
    <3>1. n \in DOMAIN ingressEvents /\ n \in 0 .. Len(ingressEvents)
      BY <1>1, <2>2
    <3> QED BY <1>1, <1>2, <3>1 DEF ReferencesFit, EventsChain
  <2> QED BY <2>1, <2>2
<1>4. \A j : Handled(j)' = Handled(j) /\ Due(j)' = Due(j)
  <2>1. 0 \in 0 .. Len(ingressEvents)
    BY <1>1
  <2>2. \A j : Handled(j)' = Handled(j)
    BY <1>2, <2>1, HandledNext DEF Handled
  <2> QED BY <2>2 DEF Due
<1>5. PlacesFit'
  BY <1>d DEF ReferencesFit, PlacesFit
<1>6. ASSUME NEW j \in Ingresses PROVE IngressFits(j)'
  <2>1. IngressFits(j) /\ Recorded(j)' = Recorded(j) /\ (Handling(j)' <=> Handling(j))
    BY <1>d DEF ReferencesFit, Recorded, Handling
  <2>2. CASE Handling(j)
    BY <1>d, <1>4, <2>1, <2>2 DEF IngressFits
  <2>3. CASE ~Handling(j)
    BY <1>d, <1>4, <2>1, <2>3 DEF IngressFits
  <2> QED BY <2>2, <2>3
<1> QED BY <1>3, <1>5, <1>6 DEF ReferencesFit

(* The other handlers begin.                                               *)
LEMMA SecretHandlerMoves ==
  ASSUME IInv, SecretHandler
  PROVE  LET e == Head(secretEvents)
             m == h'["secret"] IN
         /\ Alone("secret") /\ h["secret"].pc = "idle"
         /\ e \in [sec : Secrets, gone : BOOLEAN]
         /\ m.sec = e.sec /\ m.gone = e.gone /\ (m.pc = "drop" <=> e.gone)
         /\ m.pc = "lookup" \/ Serves(m, "lookup") \/ m.pc = "drop"
<1> DEFINE e == Head(secretEvents)
<1>0. "secret" \in Handlers
  BY DEF Handlers
<1>1. e \in [sec : Secrets, gone : BOOLEAN]
  <2> DEFINE E == [sec : Secrets, gone : BOOLEAN]
  <2>1. secretEvents \in Seq(E) /\ secretEvents # <<>>
    BY DEF IInv, TypeOK, TypeCluster, SecretHandler
  <2> HIDE DEF E
  <2>2. e \in E
    BY <2>1
  <2> QED BY <2>2 DEF E
<1>2. h["secret"].pc = "idle"
  BY DEF SecretHandler
<1> DEFINE a == [Idle EXCEPT !.pc = "drop", !.sec = e.sec, !.gone = TRUE]
<1> DEFINE b == [Idle EXCEPT !.pc = "sync", !.sec = e.sec, !.cur = e.sec, !.ret = "lookup"]
<1> DEFINE c == [Idle EXCEPT !.pc = "lookup", !.sec = e.sec]
<1>3. a.pc = "drop" /\ a.sec = e.sec /\ a.gone = TRUE
  BY DEF Idle
<1>4. b.pc = "sync" /\ b.sec = e.sec /\ b.ret = "lookup" /\ b.gone = FALSE
  BY DEF Idle
<1>5. c.pc = "lookup" /\ c.sec = e.sec /\ c.gone = FALSE
  BY DEF Idle
<1>6. h' = [h EXCEPT !["secret"] = IF e.gone THEN a ELSE IF e.sec = DefaultSSLCertificate THEN b ELSE c]
  BY DEF SecretHandler
<1> HIDE DEF a, b, c
<1>7. Alone("secret") /\ h'["secret"] = IF e.gone THEN a ELSE IF e.sec = DefaultSSLCertificate THEN b ELSE c
  BY <1>0, <1>6, OthersStay
<1>8. e.gone \in BOOLEAN
  BY <1>1
<1> QED BY <1>1, <1>2, <1>3, <1>4, <1>5, <1>7, <1>8 DEF Serves

(* How ConfigMapHandler moves the locals.                                  *)
LEMMA ConfigMapHandlerMoves ==
  ASSUME IInv, NEW c \in BOOLEAN, ConfigMapHandler(c)
  PROVE  /\ Alone("configmap") /\ h["configmap"].pc = "idle"
         /\ h'["configmap"].pc \in {"notify", "next"} /\ h'["configmap"].sec = None
<1> DEFINE ings == {i \in Ingresses : annotated[i] # Absent}
<1> DEFINE a == [Idle EXCEPT !.pc = "notify"]
<1> DEFINE b == [Idle EXCEPT !.pc = "next", !.ings = ings]
<1>0. "configmap" \in Handlers
  BY DEF Handlers
<1>1. h' = [h EXCEPT !["configmap"] = IF c THEN a ELSE b] /\ h["configmap"].pc = "idle"
  BY DEF ConfigMapHandler
<1> HIDE DEF ings
<1>2. a.pc = "notify" /\ a.sec = None /\ b.pc = "next" /\ b.sec = None
  BY DEF Idle
<1> HIDE DEF a, b
<1>3. Alone("configmap") /\ h'["configmap"] = IF c THEN a ELSE b
  BY <1>0, <1>1, OthersStay
<1> QED BY <1>1, <1>2, <1>3

(* Nothing is referenced initially.                                        *)
LEMMA RefInit == Init => ReferencesFit
<1> SUFFICES ASSUME Init PROVE ReferencesFit
  OBVIOUS
<1>1. ingressEvents = <<>> /\ refs = {} /\ h = [g \in Handlers |-> Idle] /\ ingress = [i \in Ingresses |-> Absent]
  BY DEF Init
<1>2. DOMAIN ingressEvents = {}
  BY <1>1
<1>3. EventsChain
  BY <1>2 DEF EventsChain
<1>4. PlacesFit
  BY <1>1, IdleIs DEF PlacesFit, Handlers
<1>5. ASSUME NEW i \in Ingresses PROVE IngressFits(i)
  <2>1. ~Handling(i)
    BY <1>1 DEF Handling, Handlers
  <2>2. Handled(i) = Absent
    BY <1>1, <1>2 DEF Handled, After
  <2>3. Recorded(i) = {} /\ Due(i) = {} /\ ~Accepted(Handled(i))
    BY <1>1, <2>2 DEF Recorded, Due, Accepted
  <2> QED BY <2>1, <2>3 DEF IngressFits
<1> QED BY <1>3, <1>4, <1>5 DEF ReferencesFit

(* Every step preserves ReferencesFit.                                     *)
LEMMA RefNext == IInv /\ ReferencesFit /\ [Next]_vars => ReferencesFit'
<1> SUFFICES ASSUME IInv, ReferencesFit, [Next]_vars PROVE ReferencesFit'
  OBVIOUS
<1>a. PlacesFit
  BY DEF ReferencesFit
<1>1. CASE \E i \in Ingresses, spec \in Specs \cup {Absent} : IngressChanges(i, spec)
  BY <1>1, RefIngressChanges
<1>2. CASE IngressHandler
  BY <1>2, RefIngressHandler
<1>3. CASE SecretHandler
  <2>1. UNCHANGED <<ingress, ingressEvents, refs, annotated>>
    BY <1>3 DEF SecretHandler, store
  <2>2. "secret" \in Handlers /\ Alone("secret") /\ h'["secret"].pc \in {"drop", "sync", "write", "lookup"}
    BY <1>3, SecretHandlerMoves DEF Serves, Handlers
  <2> QED BY <2>1, <2>2, RefStill
<1>4. CASE \E b \in BOOLEAN : ConfigMapHandler(b)
  <2>1. PICK c \in BOOLEAN : ConfigMapHandler(c)
    BY <1>4
  <2>2. UNCHANGED <<ingress, ingressEvents, refs, annotated>>
    BY <2>1 DEF ConfigMapHandler, cluster, store
  <2>3. Alone("configmap") /\ h'["configmap"].pc \in {"notify", "next"} /\ "configmap" \in Handlers
    BY <2>1, ConfigMapHandlerMoves DEF Handlers
  <2>4. h'["ingress"] = h["ingress"] /\ h'["secret"] = h["secret"]
    BY <2>3 DEF Alone, Handlers
  <2>5. \A k \in Handlers \ {"ingress"} : h'[k].pc \notin {"forget", "unref", "ref"}
    BY <1>a, <2>3 DEF Alone, PlacesFit
  <2> QED BY <1>a, <2>2, <2>4, <2>5, RefSame DEF PlacesFit
<1>5. CASE \E g \in Handlers : Handle(g)
  BY <1>5, RefHandle
<1>6. CASE UNCHANGED <<ingress, ingressEvents, refs, annotated, h>>
  BY <1>a, <1>6, RefSame DEF PlacesFit
<1>7. CASE \/ \E s \in Secrets, d \in Data \cup {Absent} : SecretChanges(s, d)
           \/ \E s \in Secrets : ReadChain(s)
           \/ WriteChain \/ Sync \/ UNCHANGED vars
  BY <1>6, <1>7 DEF SecretChanges, ReadChain, WriteChain, Sync, vars, cluster, store
<1> QED BY <1>1, <1>2, <1>3, <1>4, <1>5, <1>7 DEF Next

(* ReferencesFit is an invariant.                                          *)
LEMMA ReferencesAlways == Spec => []ReferencesFit
<1> QED BY InvCorrect, RefInit, RefNext, PTL DEF Spec

(* Between two runs of the Ingress handler secretIngressMap holds exactly  *)
(* the references of the Ingresses the controller takes.                   *)
THEOREM ReferencesCorrect == Spec => []ReferencesAreCurrent
<1>1. IInv /\ ReferencesFit => ReferencesAreCurrent
  <2> SUFFICES ASSUME IInv, ReferencesFit, h["ingress"].pc = "idle" PROVE
        refs = {r \in Secrets \X Ingresses :
                  LET spec == Handled(r[2]) IN Accepted(spec) /\ r[1] \in Named(spec, RecordedKinds)}
    BY DEF ReferencesAreCurrent
  <2>1. h["ingress"] = Idle
    BY DEF ReferencesFit, PlacesFit, Extracts, SyncsEach, Serves
  <2>2. \A i \in Ingresses : Recorded(i) = Due(i)
    BY <2>1 DEF ReferencesFit, IngressFits, Handling
  <2>3. refs \subseteq Secrets \X Ingresses
    BY DEF IInv, TypeOK, TypeStore
  <2>4. ASSUME NEW s \in Secrets, NEW i \in Ingresses
        PROVE  <<s, i>> \in refs <=> Accepted(Handled(i)) /\ s \in Named(Handled(i), RecordedKinds)
    <3>1. <<s, i>> \in refs <=> s \in Due(i)
      BY <2>2 DEF Recorded
    <3> QED BY <3>1 DEF Due
  <2> QED BY <2>3, <2>4
<1> QED BY <1>1, InvCorrect, ReferencesAlways, PTL

(* The loop never misses an Ingress the controller takes: no other handler *)
(* removes it, and it is listed when its handler ends.                     *)
THEOREM NoneMissing == Spec => []NoIngressIsMissing
<1>1. ReferencesFit => NoIngressIsMissing
  <2> SUFFICES ASSUME ReferencesFit, h["ingress"].pc = "idle", NEW i \in Ingresses, Accepted(Handled(i))
               PROVE  annotated[i] # Absent
    BY DEF NoIngressIsMissing
  <2>1. h["ingress"] = Idle
    BY DEF ReferencesFit, PlacesFit, Extracts, SyncsEach, Serves
  <2> QED BY <2>1 DEF ReferencesFit, IngressFits, Handling
<1> QED BY <1>1, ReferencesAlways, PTL

-----------------------------------------------------------------------------
(* No change is silent.                                                    *)

(* Whoever owes an event, or has sent one, makes up for every change.      *)
LEMMA SilenceOwed ==
  ASSUME NEW g \in Handlers, Owing(h'[g]) \/ updated' = TRUE
  PROVE  SilenceFits'
BY DEF SilenceFits

(* A handler that owes none moves; it does not look references up.         *)
LEMMA SilenceStill ==
  ASSUME SilenceFits, UNCHANGED <<refs, updated, unseen>>,
         NEW g \in Handlers, \A k \in Handlers : k # g => h'[k] = h[k],
         ~Owing(h[g]), h[g].pc # "lookup"
  PROVE  SilenceFits'
<1> SUFFICES ASSUME ~updated, NEW s \in unseen \cap Secrets, Referenced(s)
             PROVE  \E k \in Handlers : Owing(h'[k]) \/ (h'[k].pc = "lookup" /\ h'[k].sec = s)
  BY DEF SilenceFits, Referenced
<1>1. PICK k \in Handlers : Owing(h[k]) \/ (h[k].pc = "lookup" /\ h[k].sec = s)
  BY DEF SilenceFits
<1> QED BY <1>1

(* A step that touches neither store nor handlers keeps silent.            *)
LEMMA SilenceSame ==
  ASSUME SilenceFits, UNCHANGED <<refs, updated, unseen, h>>
  PROVE  SilenceFits'
BY DEF SilenceFits, Referenced

(* A handler in syncSecret owes an event unless a Secret brought it there. *)
LEMMA SilenceSync ==
  ASSUME IInv, SilenceFits, UNCHANGED <<refs, updated, unseen>>,
         NEW g \in Handlers, Alone(g), h[g].pc \in {"sync", "write"},
         h'[g].pc = h[g].ret \/ (h'[g].pc = "write" /\ h'[g].ret = h[g].ret)
  PROVE  SilenceFits'
<1>1. h[g].ret \in {"fetch", "each", "lookup"}
  BY DEF IInv, Fits, Serving
<1>2. CASE h[g].ret = "lookup"
  <2>1. ~Owing(h[g]) /\ h[g].pc # "lookup"
    BY <1>2 DEF Owing, OnIngress
  <2> QED BY <2>1, SilenceStill DEF Alone
<1>3. CASE h[g].ret # "lookup"
  <2>1. Owing(h'[g])
    BY <1>1, <1>3 DEF Owing, OnIngress
  <2> QED BY <2>1, SilenceOwed
<1> QED BY <1>2, <1>3

(* The actions of the handlers preserve SilenceFits.                       *)
LEMMA SilenceHandle ==
  ASSUME IInv, SilenceFits, NEW g \in Handlers, Handle(g)
  PROVE  SilenceFits'
<1>1. CASE \/ ParsePassword(g) \/ FetchCertificate(g)
  <2>1. h'[g].pc = "parse"
    BY <1>1, ParsePasswordMoves, FetchCertificateMoves
  <2> QED BY <2>1, SilenceOwed DEF Owing, OnIngress
<1>2. CASE \E k \in CertificateKinds : ParseCertificate(g, k)
  <2>1. h'[g].pc \in {"sync", "fetch"} /\ h'[g].ret = "fetch"
    BY <1>2, ParseCertificateMoves
  <2> QED BY <2>1, SilenceOwed DEF Owing, OnIngress
<1>3. CASE UpdateAnnotated(g)
  <2>1. h'[g].pc \in {"unref", "list", "next"}
    BY <1>3, UpdateAnnotatedMoves DEF AfterUpdate
  <2> QED BY <2>1, SilenceOwed DEF Owing, OnIngress
<1>4. CASE SyncNothing(g)
  <2>1. UNCHANGED <<refs, updated, unseen>>
    BY <1>4 DEF SyncNothing, store
  <2>2. Alone(g) /\ h[g].pc = "sync" /\ h'[g].pc = h[g].ret
    BY <1>4, SyncNothingMoves
  <2> QED BY <2>1, <2>2, SilenceSync
<1>5. CASE ReadSecret(g)
  <2>1. UNCHANGED <<refs, updated, unseen>>
    BY <1>5 DEF ReadSecret, store
  <2>2. Alone(g) /\ h[g].pc = "sync" /\ h'[g].pc = "write" /\ h'[g].ret = h[g].ret
    BY <1>5, ReadSecretMoves
  <2> QED BY <2>1, <2>2, SilenceSync
<1>6. CASE WriteCertificate(g)
  <2>1. UNCHANGED <<refs, updated, unseen>> \/ (updated' = TRUE /\ refs' = refs)
    BY <1>6 DEF WriteCertificate
  <2>2. Alone(g) /\ h[g].pc = "write" /\ h'[g].pc = h[g].ret
    BY <1>6, WriteCertificateMoves
  <2>3. CASE updated' = TRUE
    BY <2>3, SilenceOwed
  <2>4. CASE UNCHANGED <<refs, updated, unseen>>
    BY <2>2, <2>4, SilenceSync
  <2> QED BY <2>1, <2>3, <2>4
<1>7. CASE ForgetIngress(g)
  <2>1. h'[g].pc = "unref"
    BY <1>7, ForgetIngressMoves
  <2> QED BY <2>1, SilenceOwed DEF Owing, OnIngress
<1>8. CASE DeleteReferences(g)
  <2>1. h'[g].pc \in {"notify", "ref"}
    BY <1>8, DeleteReferencesMoves
  <2> QED BY <2>1, SilenceOwed DEF Owing, OnIngress
<1>9. CASE InsertReferences(g)
  <2>1. h'[g].pc = "list"
    BY <1>9, InsertReferencesMoves
  <2> QED BY <2>1, SilenceOwed DEF Owing, OnIngress
<1>10. CASE ListSecrets(g)
  <2>1. h'[g].pc = "each"
    BY <1>10, ListSecretsMoves
  <2> QED BY <2>1, SilenceOwed DEF Owing, OnIngress
<1>11. CASE \E s \in Secrets : SyncEach(g, s)
  <2>1. h'[g].pc = "sync" /\ h'[g].ret = "each"
    BY <1>11, SyncEachMoves
  <2> QED BY <2>1, SilenceOwed DEF Owing, OnIngress
<1>12. CASE DropCertificate(g)
  <2>1. /\ refs' = refs /\ updated' = updated
        /\ unseen' = unseen \/ unseen' = unseen \cup {h[g].sec}
    BY <1>12 DEF DropCertificate
  <2>2. Alone(g) /\ Keeps(g) /\ h[g].pc = "drop" /\ h'[g].pc = "lookup"
    BY <1>12, DropCertificateMoves
  <2> SUFFICES ASSUME ~updated, NEW s \in unseen' \cap Secrets, Referenced(s)
               PROVE  \E k \in Handlers : Owing(h'[k]) \/ (h'[k].pc = "lookup" /\ h'[k].sec = s)
    BY <2>1 DEF SilenceFits, Referenced
  <2>3. CASE s = h[g].sec
    BY <2>2, <2>3 DEF Keeps
  <2>4. CASE s # h[g].sec
    <3>1. PICK k \in Handlers : Owing(h[k]) \/ (h[k].pc = "lookup" /\ h[k].sec = s)
      BY <2>1, <2>4 DEF SilenceFits
    <3>2. k # g
      BY <2>2, <3>1 DEF Owing, OnIngress
    <3> QED BY <2>2, <3>1, <3>2 DEF Alone
  <2> QED BY <2>3, <2>4
<1>13. CASE FindReferences(g)
  <2>1. UNCHANGED <<refs, updated, unseen>>
    BY <1>13 DEF FindReferences, store
  <2> DEFINE ings == {i \in Ingresses : <<h[g].sec, i>> \in refs}
  <2>2. Alone(g) /\ h[g].pc = "lookup" /\ IF ings = {} THEN h'[g] = Idle ELSE h'[g].pc = "next"
    BY <1>13, FindReferencesMoves
  <2>3. CASE ings # {}
    BY <2>2, <2>3, SilenceOwed DEF Owing
  <2>4. CASE ings = {}
    <3> SUFFICES ASSUME ~updated, NEW s \in unseen \cap Secrets, Referenced(s)
                 PROVE  \E k \in Handlers : Owing(h'[k]) \/ (h'[k].pc = "lookup" /\ h'[k].sec = s)
      BY <2>1 DEF SilenceFits, Referenced
    <3>1. PICK k \in Handlers : Owing(h[k]) \/ (h[k].pc = "lookup" /\ h[k].sec = s)
      BY DEF SilenceFits
    <3>2. ~Owing(h[g]) /\ h[g].sec # s
      BY <2>2, <2>4 DEF Owing, OnIngress, Referenced
    <3> QED BY <2>2, <3>1, <3>2 DEF Alone
  <2> QED BY <2>3, <2>4
<1>14. CASE \E i \in Ingresses : NextIngress(g, i)
  <2>1. h'[g].pc \in {"next", "parse"}
    BY <1>14, NextIngressMoves
  <2> QED BY <2>1, SilenceOwed DEF Owing, OnIngress
<1>15. CASE g = "secret" /\ SyncedAll
  <2>1. h'[g].pc = "next"
    BY <1>15, SyncedAllMoves
  <2> QED BY <2>1, SilenceOwed DEF Owing
<1>16. CASE SendEvent(g)
  BY <1>16, SilenceOwed DEF SendEvent
<1> QED BY <1>1, <1>2, <1>3, <1>4, <1>5, <1>6, <1>7, <1>8, <1>9, <1>10, <1>11,
           <1>12, <1>13, <1>14, <1>15, <1>16 DEF Handle

(* Nothing is unseen initially.                                            *)
LEMMA SilenceInit == Init => SilenceFits
BY DEF Init, SilenceFits

(* Every step preserves SilenceFits.                                       *)
LEMMA SilenceNext == IInv /\ SilenceFits /\ [Next]_vars => SilenceFits'
<1> SUFFICES ASSUME IInv, SilenceFits, [Next]_vars PROVE SilenceFits'
  OBVIOUS
<1>1. CASE IngressHandler
  <2>1. UNCHANGED <<refs, updated, unseen>>
    BY <1>1 DEF IngressHandler, store
  <2>2. Alone("ingress") /\ h["ingress"].pc = "idle" /\ "ingress" \in Handlers
    BY <1>1, IngressHandlerMoves DEF Handlers
  <2>3. ~Owing(h["ingress"]) /\ h["ingress"].pc # "lookup"
    BY <2>2 DEF Owing, OnIngress
  <2> QED BY <2>1, <2>2, <2>3, SilenceStill DEF Alone
<1>2. CASE SecretHandler
  <2>1. UNCHANGED <<refs, updated, unseen>>
    BY <1>2 DEF SecretHandler, store
  <2>2. Alone("secret") /\ h["secret"].pc = "idle" /\ "secret" \in Handlers
    BY <1>2, SecretHandlerMoves DEF Handlers
  <2>3. ~Owing(h["secret"]) /\ h["secret"].pc # "lookup"
    BY <2>2 DEF Owing, OnIngress
  <2> QED BY <2>1, <2>2, <2>3, SilenceStill DEF Alone
<1>3. CASE \E b \in BOOLEAN : ConfigMapHandler(b)
  <2>1. PICK c \in BOOLEAN : ConfigMapHandler(c)
    BY <1>3
  <2>2. h'["configmap"].pc \in {"notify", "next"} /\ "configmap" \in Handlers
    BY <2>1, ConfigMapHandlerMoves DEF Handlers
  <2> QED BY <2>2, SilenceOwed DEF Owing
<1>4. CASE \E g \in Handlers : Handle(g)
  BY <1>4, SilenceHandle
<1>5. CASE WriteChain
  BY <1>5 DEF WriteChain, SilenceFits
<1>6. CASE Sync
  BY <1>6 DEF Sync, SilenceFits
<1>7. CASE \/ \E i \in Ingresses, spec \in Specs \cup {Absent} : IngressChanges(i, spec)
           \/ \E s \in Secrets, d \in Data \cup {Absent} : SecretChanges(s, d)
           \/ \E s \in Secrets : ReadChain(s)
           \/ UNCHANGED vars
  <2>1. UNCHANGED <<refs, updated, unseen, h>>
    BY <1>7 DEF IngressChanges, SecretChanges, ReadChain, vars, store
  <2> QED BY <2>1, SilenceSame
<1> QED BY <1>1, <1>2, <1>3, <1>4, <1>5, <1>6, <1>7 DEF Next

(* Every change of what the loop reads, of an annotated Ingress or of a    *)
(* certificate some Ingress names, comes with an event, sent or owed.      *)
THEOREM SilenceCorrect == Spec => []NothingIsSilent
<1>1. Spec => []SilenceFits
  BY InvCorrect, SilenceInit, SilenceNext, PTL DEF Spec
<1>2. IInv /\ SilenceFits /\ N!Told => NothingIsSilent
  <2> SUFFICES ASSUME IInv, SilenceFits, N!Told, ~updated, NEW x \in unseen,
                      x \in Secrets => Referenced(x)
               PROVE  \E g \in Handlers : h[g].pc # "idle"
    BY DEF NothingIsSilent
  <2>1. x \in Ingresses \cup Secrets
    BY DEF IInv, TypeOK, TypeSignal
  <2>2. CASE x \in Ingresses
    <3>1. PICK g \in Handlers : Owing(h[g])
      BY <2>2 DEF N!Told
    <3> QED BY <3>1 DEF Owing, OnIngress
  <2>3. CASE x \in Secrets
    <3>1. PICK g \in Handlers : Owing(h[g]) \/ h[g].pc = "lookup"
      BY <2>3 DEF SilenceFits
    <3> QED BY <3>1 DEF Owing, OnIngress
  <2> QED BY <2>1, <2>2, <2>3
<1> QED BY <1>1, <1>2, InvCorrect, ToldCorrect, PTL

-----------------------------------------------------------------------------
(* The certificates, when no chain is being completed.                     *)

(* What a handler promises of a pair is its own affair.                    *)
LEMMA CoversOther ==
  ASSUME NEW g \in Handlers, NEW k \in Handlers, k # g, Alone(g), secret' = secret,
         NEW s \in Secrets, NEW i \in Ingresses
  PROVE  Covers(k, s, i)' <=> Covers(k, s, i)
<1>1. h'[k] = h[k]
  BY DEF Alone
<1> QED BY <1>1 DEF Covers, Serves, Extracts, SyncsEach

(* A handler that rests promises nothing.                                  *)
LEMMA IdleCovers ==
  ASSUME NEW g, h[g].pc \in {"idle", "notify"}, g = "secret" => h[g].pc = "idle",
         NEW s \in Secrets, NEW i \in Ingresses
  PROVE  ~Covers(g, s, i)
BY DEF Covers, Serves, Extracts, SyncsEach

(* A step of one handler that writes no certificate.                       *)
LEMMA CertMove ==
  ASSUME CertificatesFit, UNCHANGED <<secret, secretEvents, certs, chain>>,
         NEW g \in Handlers, Alone(g), h'[g].pc # "drop",
         h'[g].pc = "write" => h'[g].read = secret[h'[g].cur],
         \A s \in Secrets, i \in Ingresses :
           <<s, i>> \in refs' /\ secret[s] \in Certificates =>
             Covered(s, i)' \/ (<<s, i>> \in refs /\ ~Covers(g, s, i))
  PROVE  CertificatesFit'
<1>1. \A n, s : ToldAfter(n, s)' <=> ToldAfter(n, s)
  BY DEF ToldAfter
<1>2. \A n \in DOMAIN secretEvents' :
        LET e == secretEvents'[n] IN e.gone /\ secret'[e.sec] # Absent => ToldAfter(n, e.sec)
  BY DEF CertificatesFit
<1>3. \A k \in Handlers : h'[k].pc = "drop" =>
        k = "secret" /\ (secret'[h'[k].sec] # Absent => ToldAfter(0, h'[k].sec))
  BY DEF CertificatesFit, Alone
<1>4. ASSUME NEW s \in Secrets, NEW i \in Ingresses, <<s, i>> \in refs'
      PROVE  CertificateFits(s, i)'
  <2> SUFFICES ASSUME secret[s] \in Certificates
               PROVE  /\ (certs[s] # Absent /\ certs[s].data = secret[s]) \/ Covered(s, i)'
                      /\ (\E k \in Handlers : Stale(k, s)') => Covered(s, i)'
    BY DEF CertificateFits
  <2> SUFFICES ASSUME <<s, i>> \in refs, ~Covers(g, s, i)
               PROVE  /\ (certs[s] # Absent /\ certs[s].data = secret[s]) \/ Covered(s, i)'
                      /\ (\E k \in Handlers : Stale(k, s)') => Covered(s, i)'
    BY <1>4
  <2>1. Covered(s, i) => Covered(s, i)'
    BY <1>1, CoversOther DEF Covered
  <2>2. \A k \in Handlers : Stale(k, s)' => Stale(k, s)
    BY DEF Stale, Alone
  <2> QED BY <2>1, <2>2 DEF CertificatesFit, CertificateFits
<1> QED BY <1>1, <1>2, <1>3, <1>4 DEF CertificatesFit

(* A step of one handler that keeps its promises.                          *)
LEMMA CertStill ==
  ASSUME CertificatesFit, UNCHANGED <<secret, secretEvents, certs, chain, refs>>,
         NEW g \in Handlers, Alone(g), h'[g].pc # "drop",
         h'[g].pc = "write" => h'[g].read = secret[h'[g].cur],
         \A s \in Secrets, i \in Ingresses :
           <<s, i>> \in refs /\ secret[s] \in Certificates /\ Covers(g, s, i) => Covers(g, s, i)'
  PROVE  CertificatesFit'
<1>1. \A s \in Secrets, i \in Ingresses : Covers(g, s, i)' => Covered(s, i)'
  BY DEF Covered
<1> QED BY <1>1, CertMove

(* A step that touches neither certificates nor handlers.                  *)
LEMMA CertSame ==
  ASSUME CertificatesFit, UNCHANGED <<secret, secretEvents, certs, chain, refs, h>>
  PROVE  CertificatesFit'
BY DEF CertificatesFit, CertificateFits, Covered, Covers, Stale, ToldAfter, Serves, Extracts, SyncsEach

(* The notifications of a queue q, and the invariant after a step.         *)
ToldIn(q, n, s) == \E m \in DOMAIN q : m > n /\ q[m].sec = s /\ ~q[m].gone

(* What is told, of the queue after a step.                                *)
LEMMA ToldNext == \A n, s : ToldAfter(n, s)' <=> ToldIn(secretEvents', n, s)
BY DEF ToldAfter, ToldIn

(* The invariant after a step, in terms of the queue after it.             *)
LEMMA CertNext ==
  ASSUME chain' = None,
         \A n \in DOMAIN secretEvents' :
           LET e == secretEvents'[n] IN
           e.gone /\ secret'[e.sec] # Absent => ToldIn(secretEvents', n, e.sec),
         \A k \in Handlers : h'[k].pc = "drop" =>
           k = "secret" /\ (secret'[h'[k].sec] # Absent => ToldIn(secretEvents', 0, h'[k].sec)),
         \A s \in Secrets, i \in Ingresses : <<s, i>> \in refs' => CertificateFits(s, i)'
  PROVE  CertificatesFit'
BY DEF CertificatesFit, ToldAfter, ToldIn

(* A Secret changes: its notification makes up for it.                     *)
LEMMA CertSecretChanges ==
  ASSUME IInv, CertificatesFit, NEW s \in Secrets, NEW d \in Data \cup {Absent}, SecretChanges(s, d)
  PROVE  CertificatesFit'
<1> DEFINE E == [sec : Secrets, gone : BOOLEAN]
<1>a. secret \in [Secrets -> Data \cup {Absent}] /\ secretEvents \in Seq(E)
  BY DEF IInv, TypeOK, TypeCluster
<1>b. PICK e : e = [sec |-> s, gone |-> d = Absent]
  OBVIOUS
<1>c. e \in E /\ e.sec = s /\ (e.gone <=> d = Absent)
  BY <1>b
<1>d. /\ secretEvents' = Append(secretEvents, e) /\ secret' = [secret EXCEPT ![s] = d]
      /\ UNCHANGED <<refs, certs, chain, h>>
  BY <1>b DEF SecretChanges, store
<1> HIDE DEF E
<1>1. /\ Len(secretEvents) \in Nat /\ DOMAIN secretEvents = 1 .. Len(secretEvents)
      /\ DOMAIN secretEvents' = 1 .. Len(secretEvents) + 1
      /\ \A n \in 1 .. Len(secretEvents) : secretEvents'[n] = secretEvents[n]
      /\ secretEvents'[Len(secretEvents) + 1] = e
  BY <1>a, <1>c, <1>d
<1>2. \A t \in Secrets : IF t = s THEN secret'[t] = d ELSE secret'[t] = secret[t]
  BY <1>a, <1>d
<1>3. ASSUME NEW n \in 0 .. Len(secretEvents), NEW t
      PROVE  /\ ToldAfter(n, t) => ToldIn(secretEvents', n, t)
             /\ t = s /\ d # Absent => ToldIn(secretEvents', n, t)
  <2>1. ToldAfter(n, t) => ToldIn(secretEvents', n, t)
    BY <1>1 DEF ToldAfter, ToldIn
  <2>2. ASSUME t = s, d # Absent PROVE ToldIn(secretEvents', n, t)
    <3>1. Len(secretEvents) + 1 \in DOMAIN secretEvents' /\ Len(secretEvents) + 1 > n
      BY <1>1
    <3> QED BY <1>1, <1>c, <2>2, <3>1 DEF ToldAfter, ToldIn
  <2> QED BY <2>1, <2>2
<1>4. ASSUME NEW n \in DOMAIN secretEvents', secretEvents'[n].gone, secret'[secretEvents'[n].sec] # Absent
      PROVE  ToldIn(secretEvents', n, secretEvents'[n].sec)
  <2> PICK f : f = secretEvents'[n]
    OBVIOUS
  <2>1. n \in DOMAIN secretEvents
    <3>1. CASE n = Len(secretEvents) + 1
      BY <1>1, <1>2, <1>4, <1>c, <3>1
    <3> QED BY <1>1, <3>1
  <2>2. f = secretEvents[n] /\ f \in E
    BY <1>1, <1>a, <2>1
  <2>3. f.sec \in Secrets
    BY <2>2 DEF E
  <2>4. n \in 0 .. Len(secretEvents)
    BY <1>1, <2>1
  <2>5. CASE f.sec = s
    <3>1. d # Absent
      BY <1>2, <1>4, <2>3, <2>5
    <3>2. ToldIn(secretEvents', n, f.sec)
      BY <1>3, <2>4, <2>5, <3>1
    <3> QED BY <3>2
  <2>6. CASE f.sec # s
    <3>1. secret[f.sec] # Absent /\ f.gone
      BY <1>2, <1>4, <2>3, <2>6
    <3>2. ToldAfter(n, f.sec)
      BY <2>1, <2>2, <3>1 DEF CertificatesFit
    <3>3. ToldIn(secretEvents', n, f.sec)
      BY <1>3, <2>4, <3>2
    <3> QED BY <3>3
  <2> QED BY <2>5, <2>6
<1>z. 0 \in 0 .. Len(secretEvents)
  BY <1>1
<1>5. ASSUME NEW k \in Handlers, h[k].pc = "drop"
      PROVE  k = "secret" /\ (secret'[h[k].sec] # Absent => ToldIn(secretEvents', 0, h[k].sec))
  <2>1. h[k].sec \in Secrets
    BY <1>5 DEF IInv, Fits
  <2> PICK t : t = h[k].sec
    OBVIOUS
  <2>2. ASSUME secret'[t] # Absent PROVE ToldIn(secretEvents', 0, t)
    <3>1. CASE t = s
      BY <1>2, <1>3, <2>2, <1>z, <3>1
    <3>2. CASE t # s
      <4>1. ToldAfter(0, t)
        BY <1>2, <1>5, <2>1, <2>2, <3>2 DEF CertificatesFit
      <4> QED BY <1>3, <1>z, <4>1
    <3> QED BY <3>1, <3>2
  <2> QED BY <1>5, <2>2 DEF CertificatesFit
<1>6. ASSUME NEW t \in Secrets, NEW i \in Ingresses, <<t, i>> \in refs
      PROVE  CertificateFits(t, i)'
  <2> SUFFICES ASSUME secret'[t] \in Certificates PROVE CertificateFits(t, i)'
    BY DEF CertificateFits
  <2>1. CASE t = s
    <3>1. d # Absent
      BY <1>2, <2>1, NameAssumption, DataAssumption
    <3>2. ToldIn(secretEvents', 0, t)
      BY <1>3, <1>z, <2>1, <3>1
    <3> QED BY <3>2, ToldNext DEF CertificateFits, Covered
  <2>2. CASE t # s
    <3>1. secret'[t] = secret[t]
      BY <1>2, <2>2
    <3>2. Covered(t, i) => Covered(t, i)'
      <4>1. \A k \in Handlers : Covers(k, t, i) => Covers(k, t, i)'
        BY <1>d, <3>1 DEF Covers, Serves, Extracts, SyncsEach
      <4> QED BY <1>3, <1>z, <4>1, ToldNext DEF Covered
    <3>3. \A k \in Handlers : Stale(k, t)' => Stale(k, t)
      BY <1>d, <3>1 DEF Stale
    <3>4. CertificateFits(t, i)
      BY <1>6 DEF CertificatesFit
    <3> QED BY <1>d, <3>1, <3>2, <3>3, <3>4 DEF CertificateFits
  <2> QED BY <2>1, <2>2
<1> QED BY <1>d, <1>4, <1>5, <1>6, CertNext DEF CertificatesFit

(* The handler of Secrets takes a notification and makes up for it.        *)
LEMMA CertSecretHandler ==
  ASSUME IInv, CertificatesFit, SecretHandler
  PROVE  CertificatesFit'
<1> DEFINE E == [sec : Secrets, gone : BOOLEAN]
<1>a. secretEvents \in Seq(E) /\ secretEvents # <<>>
  BY DEF IInv, TypeOK, TypeCluster, SecretHandler
<1>b. PICK e : e = Head(secretEvents)
  OBVIOUS
<1>c. /\ Alone("secret") /\ h["secret"].pc = "idle" /\ e \in [sec : Secrets, gone : BOOLEAN]
      /\ h'["secret"].sec = e.sec /\ h'["secret"].gone = e.gone
      /\ (h'["secret"].pc = "drop" <=> e.gone)
      /\ h'["secret"].pc = "lookup" \/ Serves(h'["secret"], "lookup") \/ h'["secret"].pc = "drop"
  BY <1>b, SecretHandlerMoves
<1>d. secretEvents' = Tail(secretEvents) /\ UNCHANGED <<secret, refs, certs, chain>> /\ "secret" \in Handlers
  BY DEF SecretHandler, store, Handlers
<1>w. h'["secret"].pc # "write"
  BY <1>b DEF SecretHandler, Idle, IInv, TypeOK, TypeLocals, Handlers
<1> HIDE DEF E
<1>1. /\ Len(secretEvents) \in Nat /\ Len(secretEvents) >= 1 /\ DOMAIN secretEvents = 1 .. Len(secretEvents)
      /\ DOMAIN secretEvents' = 1 .. Len(secretEvents) - 1
      /\ \A n \in 1 .. Len(secretEvents) - 1 : secretEvents'[n] = secretEvents[n + 1]
      /\ e = secretEvents[1]
  BY <1>a, <1>b, <1>d
<1>2. ASSUME NEW n \in Nat, NEW t
      PROVE  ToldIn(secretEvents', n, t) <=> ToldAfter(n + 1, t)
  <2>1. ASSUME ToldIn(secretEvents', n, t) PROVE ToldAfter(n + 1, t)
    <3>1. PICK m \in DOMAIN secretEvents' : m > n /\ secretEvents'[m].sec = t /\ ~secretEvents'[m].gone
      BY <2>1 DEF ToldAfter, ToldIn
    <3>2. m + 1 \in DOMAIN secretEvents /\ m + 1 > n + 1 /\ secretEvents[m + 1] = secretEvents'[m]
      BY <1>1, <3>1
    <3> QED BY <3>1, <3>2 DEF ToldAfter, ToldIn
  <2>2. ASSUME ToldAfter(n + 1, t) PROVE ToldIn(secretEvents', n, t)
    <3>1. PICK m \in DOMAIN secretEvents : m > n + 1 /\ secretEvents[m].sec = t /\ ~secretEvents[m].gone
      BY <2>2 DEF ToldAfter, ToldIn
    <3>2. m - 1 \in DOMAIN secretEvents' /\ m - 1 > n /\ secretEvents'[m - 1] = secretEvents[m]
      BY <1>1, <3>1
    <3> QED BY <3>1, <3>2 DEF ToldAfter, ToldIn
  <2> QED BY <2>1, <2>2
<1>3. ASSUME NEW t, ToldAfter(0, t), ~(e.sec = t /\ ~e.gone)
      PROVE  ToldIn(secretEvents', 0, t)
  <2>1. PICK m \in DOMAIN secretEvents : secretEvents[m].sec = t /\ ~secretEvents[m].gone
    BY <1>3 DEF ToldAfter, ToldIn
  <2>2. m > 1
    BY <1>1, <1>3, <2>1
  <2>3. ToldAfter(0 + 1, t)
    BY <2>1, <2>2 DEF ToldAfter, ToldIn
  <2> QED BY <1>2, <2>3
<1>4. ASSUME NEW n \in DOMAIN secretEvents', secretEvents'[n].gone, secret[secretEvents'[n].sec] # Absent
      PROVE  ToldIn(secretEvents', n, secretEvents'[n].sec)
  <2>1. n \in Nat /\ n + 1 \in DOMAIN secretEvents /\ secretEvents'[n] = secretEvents[n + 1]
    BY <1>1
  <2> PICK t : t = secretEvents[n + 1].sec
    OBVIOUS
  <2>2. ToldAfter(n + 1, t)
    BY <1>4, <2>1 DEF CertificatesFit
  <2>3. ToldIn(secretEvents', n, t)
    BY <1>2, <2>1, <2>2
  <2> QED BY <2>1, <2>3
<1>5. ASSUME NEW k \in Handlers, h'[k].pc = "drop"
      PROVE  k = "secret" /\ (secret[h'[k].sec] # Absent => ToldIn(secretEvents', 0, h'[k].sec))
  <2> PICK t : t = h'[k].sec
    OBVIOUS
  <2>1. ASSUME k = "secret", secret[t] # Absent PROVE ToldIn(secretEvents', 0, t)
    <3>1. e.gone /\ t = e.sec
      BY <1>5, <1>c, <2>1
    <3>2. 1 \in DOMAIN secretEvents
      BY <1>1
    <3>3. ToldAfter(0 + 1, t)
      BY <1>1, <2>1, <3>1, <3>2 DEF CertificatesFit
    <3> QED BY <1>2, <3>3
  <2>2. CASE k # "secret"
    <3>1. h'[k] = h[k]
      BY <1>c, <2>2 DEF Alone
    <3> QED BY <1>5, <2>2, <3>1 DEF CertificatesFit
  <2> QED BY <2>1, <2>2
<1>6. ASSUME NEW t \in Secrets, NEW i \in Ingresses, <<t, i>> \in refs
      PROVE  CertificateFits(t, i)'
  <2>1. Covered(t, i) => Covered(t, i)'
    <3>1. CASE e.sec = t /\ ~e.gone
      <4>1. Covers("secret", t, i)'
        BY <1>c, <3>1 DEF Covers, Serves
      <4> QED BY <1>d, <4>1 DEF Covered
    <3>2. CASE ToldAfter(0, t) /\ ~(e.sec = t /\ ~e.gone)
      BY <1>3, <3>2, ToldNext DEF Covered
    <3>3. ASSUME NEW k \in Handlers, Covers(k, t, i) PROVE Covered(t, i)'
      <4>1. k # "secret"
        BY <1>c, <3>3, IdleCovers
      <4>2. Covers(k, t, i)'
        BY <1>c, <1>d, <3>3, <4>1, CoversOther
      <4> QED BY <4>2 DEF Covered
    <3> QED BY <3>1, <3>2, <3>3 DEF Covered
  <2>2. \A k \in Handlers : Stale(k, t)' => Stale(k, t)
    BY <1>c, <1>d, <1>w DEF Stale, Alone
  <2>3. CertificateFits(t, i)
    BY <1>6 DEF CertificatesFit
  <2> QED BY <1>d, <2>1, <2>2, <2>3 DEF CertificateFits
<1> QED BY <1>d, <1>4, <1>5, <1>6, CertNext DEF CertificatesFit

(* A step in which a handler neither begins nor ends a promise but where   *)
(* it stays at the same Ingress and with the same Secrets to do.           *)
LEMMA CertServe ==
  ASSUME CertificatesFit, UNCHANGED <<secret, secretEvents, certs, chain, refs>>,
         NEW g \in Handlers, Alone(g), Keeps(g),
         LET l == h[g]
             m == h'[g] IN
           /\ m.pc # "drop" /\ m.pc # "idle"
           /\ m.pc = "write" => m.read = secret[m.cur]
           /\ l.pc = "lookup" \/ Serves(l, "lookup") => m.pc = "lookup" \/ Serves(m, "lookup")
           /\ Extracts(l) \/ l.pc = "list" => Extracts(m) \/ m.pc = "list" \/ (g = "ingress" /\ m.pc = "unref")
           /\ g = "ingress" /\ l.pc \in {"forget", "unref"} => m.pc \in {"unref", "list"} \/ Extracts(m)
           /\ SyncsEach(l) => l.secs \subseteq m.secs /\ SyncsEach(m)
           /\ l.pc = "write" => FALSE
           /\ l.pc = "sync" /\ secret[l.cur] \in Certificates => m.pc = "write" /\ m.cur = l.cur
  PROVE  CertificatesFit'
<1> SUFFICES ASSUME NEW s \in Secrets, NEW i \in Ingresses, <<s, i>> \in refs, secret[s] \in Certificates,
                    Covers(g, s, i)
             PROVE  Covers(g, s, i)'
  BY CertStill
<1> DEFINE l == h[g]
<1> DEFINE m == h'[g]
<1>1. m.sec = l.sec /\ m.gone = l.gone /\ m.ings = l.ings /\ m.ing = l.ing
  BY DEF Keeps
<1>2. CASE /\ g = "secret" /\ l.pc # "idle" /\ l.sec = s /\ ~l.gone
           /\ \/ l.pc = "lookup" \/ Serves(l, "lookup") \/ i \in l.ings
              \/ l.ing = i /\ (Extracts(l) \/ l.pc = "list")
  BY <1>1, <1>2 DEF Covers
<1>3. CASE g = "ingress" /\ l.ing = i /\ (Extracts(l) \/ l.pc \in {"forget", "unref", "list"})
  BY <1>1, <1>3 DEF Covers
<1>4. CASE SyncsEach(l) /\ s \in l.secs
  BY <1>4 DEF Covers
<1>5. CASE l.pc = "sync" /\ l.cur = s
  BY <1>5 DEF Covers
<1> QED BY <1>2, <1>3, <1>4, <1>5 DEF Covers

(* A certificate is written: that of the present content, or one whose     *)
(* Secret is going to be synchronized again.                               *)
LEMMA CertWrite ==
  ASSUME IInv, CertificatesFit, NEW g \in Handlers, WriteCertificate(g)
  PROVE  CertificatesFit'
<1>1. /\ Alone(g) /\ Keeps(g) /\ h[g].pc = "write" /\ h'[g].pc = h[g].ret /\ h'[g].secs = h[g].secs
  BY WriteCertificateMoves
<1>2. h[g].cur \in Secrets /\ h[g].ret \in {"fetch", "each", "lookup"} /\ h[g].read \in Certificates
  BY <1>1 DEF IInv, Fits, Serving
<1>3. UNCHANGED <<secret, secretEvents, refs, chain>>
  BY DEF WriteCertificate, cluster
<1>4. \A s \in Secrets : IF s = h[g].cur THEN certs'[s] = [data |-> h[g].read, full |-> FALSE]
                                         ELSE certs'[s] = certs[s]
  BY <1>2 DEF WriteCertificate, IInv, TypeOK, TypeStore
<1>5. \A k \in Handlers : h'[k].pc # "write"
  BY <1>1, <1>2 DEF IInv, OneWriter, Alone
<1>6. \A n, s : ToldIn(secretEvents', n, s) <=> ToldAfter(n, s)
  BY <1>3 DEF ToldAfter, ToldIn
<1>7. \A n \in DOMAIN secretEvents' :
        LET e == secretEvents'[n] IN
        e.gone /\ secret'[e.sec] # Absent => ToldIn(secretEvents', n, e.sec)
  BY <1>3, <1>6 DEF CertificatesFit
<1>8. \A k \in Handlers : h'[k].pc = "drop" =>
        k = "secret" /\ (secret'[h'[k].sec] # Absent => ToldIn(secretEvents', 0, h'[k].sec))
  BY <1>1, <1>2, <1>3, <1>6 DEF CertificatesFit, Alone
<1>9. ASSUME NEW s \in Secrets, NEW i \in Ingresses, <<s, i>> \in refs
      PROVE  CertificateFits(s, i)'
  <2> SUFFICES ASSUME secret[s] \in Certificates
               PROVE  (certs'[s] # Absent /\ certs'[s].data = secret[s]) \/ Covered(s, i)'
    BY <1>3, <1>5 DEF CertificateFits, Stale
  <2>1. CASE s = h[g].cur /\ h[g].read = secret[s]
    <3> DEFINE c == [data |-> h[g].read, full |-> FALSE]
    <3>1. c \in [data : Certificates, full : BOOLEAN]
      BY <1>2
    <3>2. c # Absent /\ certs'[s] = c /\ c.data = secret[s]
      BY <1>4, <2>1, <3>1, NameAssumption
    <3> QED BY <3>2
  <2>2. CASE ~(s = h[g].cur /\ h[g].read = secret[s])
    <3>1. Covered(s, i) => Covered(s, i)'
      <4>1. CASE ToldAfter(0, s)
        BY <1>6, <4>1, ToldNext DEF Covered
      <4>2. ASSUME NEW k \in Handlers, k # g, Covers(k, s, i) PROVE Covered(s, i)'
        BY <1>1, <1>3, <4>2, CoversOther DEF Covered
      <4>3. ASSUME Covers(g, s, i) PROVE Covered(s, i)'
        <5> DEFINE l == h[g]
        <5> DEFINE m == h'[g]
        <5>1. m.sec = l.sec /\ m.gone = l.gone /\ m.ings = l.ings /\ m.ing = l.ing /\ m.pc # "idle"
          BY <1>1, <1>2 DEF Keeps
        <5>2. /\ Serves(l, "lookup") => m.pc = "lookup"
              /\ Extracts(l) => Extracts(m)
              /\ SyncsEach(l) => SyncsEach(m)
          BY <1>1, <1>2 DEF Serves, Extracts, SyncsEach
        <5>3. Covers(g, s, i)'
          BY <1>1, <2>2, <4>3, <5>1, <5>2 DEF Covers
        <5> QED BY <5>3 DEF Covered
      <4> QED BY <4>1, <4>2, <4>3 DEF Covered
    <3>2. CASE s = h[g].cur
      <4>1. Stale(g, s)
        BY <1>1, <2>2, <3>2 DEF Stale
      <4> QED BY <1>9, <3>1, <4>1 DEF CertificatesFit, CertificateFits
    <3>3. CASE s # h[g].cur
      BY <1>4, <1>9, <3>1, <3>3 DEF CertificatesFit, CertificateFits
    <3> QED BY <3>2, <3>3
  <2> QED BY <2>1, <2>2
<1> QED BY <1>3, <1>7, <1>8, <1>9, CertNext DEF CertificatesFit

(* A certificate is dropped: a Secret that has come back is still to be    *)
(* told of.                                                                *)
LEMMA CertDrop ==
  ASSUME IInv, CertificatesFit, NEW g \in Handlers, DropCertificate(g)
  PROVE  CertificatesFit'
<1>1. Alone(g) /\ Keeps(g) /\ h[g].pc = "drop" /\ h'[g].pc = "lookup"
  BY DropCertificateMoves
<1>2. h[g].sec \in Secrets /\ g = "secret"
  BY <1>1 DEF IInv, Fits, CertificatesFit
<1>3. UNCHANGED <<secret, secretEvents, refs, chain>>
  BY DEF DropCertificate, cluster
<1>4. \A s \in Secrets : s # h[g].sec => certs'[s] = certs[s]
  BY <1>2 DEF DropCertificate, IInv, TypeOK, TypeStore
<1>6. \A n, s : ToldIn(secretEvents', n, s) <=> ToldAfter(n, s)
  BY <1>3 DEF ToldAfter, ToldIn
<1>7. \A n \in DOMAIN secretEvents' :
        LET e == secretEvents'[n] IN
        e.gone /\ secret'[e.sec] # Absent => ToldIn(secretEvents', n, e.sec)
  BY <1>3, <1>6 DEF CertificatesFit
<1>8. \A k \in Handlers : h'[k].pc = "drop" =>
        k = "secret" /\ (secret'[h'[k].sec] # Absent => ToldIn(secretEvents', 0, h'[k].sec))
  BY <1>1, <1>3, <1>6 DEF CertificatesFit, Alone
<1>9. ASSUME NEW s \in Secrets, NEW i \in Ingresses, <<s, i>> \in refs, secret[s] \in Certificates
      PROVE  CertificateFits(s, i)'
  <2>1. CASE s = h[g].sec
    <3>1. secret[s] # Absent
      BY <1>9, NameAssumption, DataAssumption
    <3>2. ToldAfter(0, s)
      BY <1>1, <2>1, <3>1 DEF CertificatesFit
    <3>3. Covered(s, i)'
      BY <1>6, <3>2, ToldNext DEF Covered
    <3> QED BY <3>3 DEF CertificateFits
  <2>2. CASE s # h[g].sec
    <3>1. Covered(s, i) => Covered(s, i)'
      <4>1. CASE ToldAfter(0, s)
        BY <1>6, <4>1, ToldNext DEF Covered
      <4>2. ~Covers(g, s, i)
        BY <1>1, <1>2, <2>2 DEF Covers, Serves, Extracts, SyncsEach
      <4>3. ASSUME NEW k \in Handlers, k # g, Covers(k, s, i) PROVE Covered(s, i)'
        BY <1>1, <1>3, <4>3, CoversOther DEF Covered
      <4> QED BY <4>1, <4>2, <4>3 DEF Covered
    <3>2. \A k \in Handlers : Stale(k, s)' => Stale(k, s)
      BY <1>1, <1>3 DEF Stale, Alone
    <3> QED BY <1>3, <1>4, <1>9, <2>2, <3>1, <3>2 DEF CertificatesFit, CertificateFits
  <2> QED BY <2>1, <2>2
<1>10. \A s \in Secrets, i \in Ingresses : <<s, i>> \in refs' => CertificateFits(s, i)'
  BY <1>3, <1>9 DEF CertificateFits
<1> QED BY <1>3, <1>7, <1>8, <1>10, CertNext DEF CertificatesFit

(* The next Ingress to parse again: one that is gone is being brought into *)
(* the store, or its references out of the map, by the other handler.      *)
LEMMA CertNextIngress ==
  ASSUME IInv, ReferencesFit, CertificatesFit, NEW g \in Handlers, NEW j \in Ingresses, NextIngress(g, j)
  PROVE  CertificatesFit'
<1>1. /\ Alone(g) /\ h[g].pc = "next"
      /\ h'[g].ings = h[g].ings \ {j} /\ h'[g].sec = h[g].sec /\ h'[g].gone = h[g].gone
      /\ IF annotated[j] = Absent THEN h'[g].pc = "next"
         ELSE h'[g].pc = "parse" /\ h'[g].ing = j
  BY NextIngressMoves
<1>2. UNCHANGED <<secret, secretEvents, certs, chain, refs, annotated>>
  BY DEF NextIngress, cluster, store
<1>3. h'[g].pc \notin {"drop", "write", "idle"} /\ g # "ingress"
  BY <1>1, IdleIs DEF ReferencesFit, PlacesFit, Extracts, SyncsEach, Serves
<1>4. ASSUME NEW s \in Secrets, NEW i \in Ingresses, <<s, i>> \in refs, Covers(g, s, i)
      PROVE  Covered(s, i)'
  <2>1. g = "secret" /\ h[g].sec = s /\ ~h[g].gone /\ i \in h[g].ings
    BY <1>1, <1>3, <1>4 DEF Covers, Serves, Extracts, SyncsEach
  <2>2. CASE i # j
    <3>1. Covers(g, s, i)'
      BY <1>1, <1>3, <2>1, <2>2 DEF Covers
    <3> QED BY <3>1 DEF Covered
  <2>3. CASE i = j /\ annotated[j] # Absent
    <3>1. Covers(g, s, i)'
      BY <1>1, <1>3, <2>1, <2>3 DEF Covers, Extracts
    <3> QED BY <3>1 DEF Covered
  <2>4. CASE i = j /\ annotated[j] = Absent
    <3> DEFINE l == h["ingress"]
    <3>1. IngressFits(i) /\ PlacesFit /\ s \in Recorded(i)
      BY <1>4 DEF ReferencesFit, Recorded
    <3>2. Handling(i)
      BY <2>4, <3>1 DEF IngressFits, Due
    <3>3. l.ing = i /\ (Extracts(l) \/ l.pc \in {"forget", "unref"})
      <4>1. CASE ~l.gone
        BY <2>4, <3>1, <3>2, <4>1 DEF IngressFits, Handling
      <4>2. CASE l.gone
        <5>1. Due(i) = {}
          BY <3>1, <3>2, <4>2 DEF IngressFits, Due
        <5>2. l.pc # "notify"
          BY <3>1, <3>2, <5>1 DEF IngressFits
        <5> QED BY <3>1, <3>2, <4>2, <5>2 DEF PlacesFit, Handling
      <4> QED BY <4>1, <4>2
    <3>4. "ingress" \in Handlers /\ Covers("ingress", s, i)
      BY <3>3 DEF Covers, Handlers
    <3>5. Covers("ingress", s, i)'
      BY <1>1, <1>2, <1>3, <3>4, CoversOther
    <3> QED BY <3>4, <3>5 DEF Covered
  <2> QED BY <2>2, <2>3, <2>4
<1> QED BY <1>1, <1>2, <1>3, <1>4, CertMove

(* The actions of the handlers preserve CertificatesFit.                   *)
LEMMA CertHandle ==
  ASSUME IInv, ReferencesFit, CertificatesFit, NEW g \in Handlers, Handle(g)
  PROVE  CertificatesFit'
<1>a. PlacesFit
  BY DEF ReferencesFit
<1>b. g # "ingress" => h[g].pc \notin {"forget", "unref", "ref"}
  BY <1>a DEF PlacesFit
<1>1. CASE ParsePassword(g)
  <2>1. UNCHANGED <<secret, secretEvents, certs, chain, refs>>
    BY <1>1 DEF ParsePassword, cluster, store
  <2> QED BY <1>1, <2>1, ParsePasswordMoves, CertServe DEF Extracts, SyncsEach, Serves
<1>2. CASE FetchCertificate(g)
  <2>1. UNCHANGED <<secret, secretEvents, certs, chain, refs>>
    BY <1>2 DEF FetchCertificate, cluster, store
  <2> QED BY <1>2, <2>1, FetchCertificateMoves, CertServe DEF Extracts, SyncsEach, Serves
<1>3. CASE \E k \in CertificateKinds : ParseCertificate(g, k)
  <2>1. PICK k \in CertificateKinds : ParseCertificate(g, k)
    BY <1>3
  <2>2. UNCHANGED <<secret, secretEvents, certs, chain, refs>>
    BY <2>1 DEF ParseCertificate, cluster, store
  <2>3. /\ Alone(g) /\ Keeps(g) /\ h[g].pc = "parse"
        /\ h'[g].pc \in {"sync", "fetch"} /\ Extracts(h'[g])
    BY <2>1, ParseCertificateMoves DEF Extracts, Serves
  <2> QED BY <2>2, <2>3, CertServe DEF Extracts, SyncsEach, Serves
<1>4. CASE UpdateAnnotated(g)
  <2>1. UNCHANGED <<secret, secretEvents, certs, chain, refs>>
    BY <1>4 DEF UpdateAnnotated, cluster
  <2>2. Alone(g) /\ Keeps(g) /\ h[g].pc = "parse" /\ h'[g].pc = AfterUpdate(g)
    BY <1>4, UpdateAnnotatedMoves
  <2>3. h'[g].pc \in {"unref", "list", "next"}
    BY <2>2 DEF AfterUpdate
  <2>4. ASSUME NEW s \in Secrets, NEW i \in Ingresses, Covers(g, s, i) PROVE Covers(g, s, i)'
    <3>1. CASE g = "ingress"
      <4>1. h[g].ing = i /\ h'[g].ing = i /\ h'[g].pc = "unref"
        BY <2>2, <2>4, <3>1 DEF Covers, Serves, SyncsEach, AfterUpdate, Keeps
      <4> QED BY <3>1, <4>1 DEF Covers
    <3>2. CASE g = "secret"
      <4>1. h[g].sec = s /\ ~h[g].gone /\ (i \in h[g].ings \/ h[g].ing = i)
        BY <2>2, <2>4, <3>2 DEF Covers, Serves, SyncsEach
      <4>2. h'[g].pc = "list"
        BY <2>2, <3>2, <4>1 DEF AfterUpdate
      <4> QED BY <2>2, <3>2, <4>1, <4>2 DEF Covers, Keeps
    <3>3. CASE g # "ingress" /\ g # "secret"
      BY <2>2, <2>4, <3>3 DEF Covers, Serves, SyncsEach
    <3> QED BY <3>1, <3>2, <3>3
  <2> QED BY <2>1, <2>2, <2>3, <2>4, CertStill
<1>5. CASE SyncNothing(g)
  <2>1. UNCHANGED <<secret, secretEvents, certs, chain, refs>> /\ secret[h[g].cur] \notin Certificates
    BY <1>5 DEF SyncNothing, cluster, store
  <2>2. Alone(g) /\ Keeps(g) /\ h[g].pc = "sync" /\ h'[g].pc = h[g].ret /\ h'[g].secs = h[g].secs
    BY <1>5, SyncNothingMoves
  <2>3. h[g].ret \in {"fetch", "each", "lookup"}
    BY <2>2 DEF IInv, Fits, Serving
  <2>4. /\ Serves(h[g], "lookup") => h'[g].pc = "lookup"
        /\ Extracts(h[g]) => Extracts(h'[g])
        /\ SyncsEach(h[g]) => SyncsEach(h'[g])
    BY <2>2 DEF Serves, Extracts, SyncsEach
  <2> QED BY <2>1, <2>2, <2>3, <2>4, CertServe
<1>6. CASE ReadSecret(g)
  <2>1. UNCHANGED <<secret, secretEvents, certs, chain, refs>>
    BY <1>6 DEF ReadSecret, cluster, store
  <2>2. /\ Alone(g) /\ Keeps(g) /\ h[g].pc = "sync" /\ h'[g].pc = "write" /\ h'[g].read = secret[h[g].cur]
        /\ h'[g].ret = h[g].ret /\ h'[g].cur = h[g].cur /\ h'[g].secs = h[g].secs
    BY <1>6, ReadSecretMoves
  <2>3. /\ Serves(h[g], "lookup") => Serves(h'[g], "lookup")
        /\ Extracts(h[g]) => Extracts(h'[g])
        /\ SyncsEach(h[g]) => SyncsEach(h'[g])
    BY <2>2 DEF Serves, Extracts, SyncsEach
  <2> QED BY <2>1, <2>2, <2>3, CertServe
<1>7. CASE WriteCertificate(g)
  BY <1>7, CertWrite
<1>8. CASE ForgetIngress(g)
  <2>1. UNCHANGED <<secret, secretEvents, certs, chain, refs>>
    BY <1>8 DEF ForgetIngress, cluster
  <2> QED BY <1>8, <2>1, ForgetIngressMoves, CertServe DEF Extracts, SyncsEach, Serves
<1>9. CASE DeleteReferences(g)
  <2>1. UNCHANGED <<secret, secretEvents, certs, chain>> /\ refs' = {r \in refs : r[2] # h[g].ing}
    BY <1>9 DEF DeleteReferences, cluster
  <2>2. Alone(g) /\ Keeps(g) /\ h[g].pc = "unref" /\ h'[g].pc \in {"notify", "ref"}
    BY <1>9, DeleteReferencesMoves
  <2>3. g = "ingress"
    BY <1>b, <2>2
  <2>4. \A s \in Secrets, i \in Ingresses :
          <<s, i>> \in refs' => <<s, i>> \in refs /\ ~Covers(g, s, i)
    BY <2>1, <2>2, <2>3 DEF Covers, Serves, Extracts, SyncsEach
  <2> QED BY <2>1, <2>2, <2>4, CertMove
<1>10. CASE InsertReferences(g)
  <2>1. /\ UNCHANGED <<secret, secretEvents, certs, chain>>
        /\ refs' = refs \cup (Named(h[g].spec, RecordedKinds) \X {h[g].ing})
    BY <1>10 DEF InsertReferences, cluster
  <2>2. Alone(g) /\ Keeps(g) /\ h[g].pc = "ref" /\ h'[g].pc = "list"
    BY <1>10, InsertReferencesMoves
  <2>3. g = "ingress"
    BY <1>b, <2>2
  <2>4. ASSUME NEW s \in Secrets, NEW i \in Ingresses, <<s, i>> \in refs'
        PROVE  Covered(s, i)' \/ (<<s, i>> \in refs /\ ~Covers(g, s, i))
    <3>1. CASE i = h[g].ing
      <4>1. Covers(g, s, i)'
        BY <2>2, <2>3, <3>1 DEF Covers, Keeps
      <4> QED BY <4>1 DEF Covered
    <3>2. CASE i # h[g].ing
      BY <2>1, <2>2, <2>3, <2>4, <3>2 DEF Covers, Serves, Extracts, SyncsEach
    <3> QED BY <3>1, <3>2
  <2> QED BY <2>1, <2>2, <2>4, CertMove
<1>11. CASE ListSecrets(g)
  <2>1. UNCHANGED <<secret, secretEvents, certs, chain, refs>>
    BY <1>11 DEF ListSecrets, cluster, store
  <2>2. /\ Alone(g) /\ Keeps(g) /\ h[g].pc = "list" /\ h'[g].pc = "each"
        /\ h'[g].secs = {s \in Secrets : <<s, h[g].ing>> \in refs}
    BY <1>11, ListSecretsMoves
  <2>3. ASSUME NEW s \in Secrets, NEW i \in Ingresses, <<s, i>> \in refs, Covers(g, s, i)
        PROVE  Covers(g, s, i)'
    <3>1. CASE h[g].ing = i
      <4>1. s \in h'[g].secs /\ SyncsEach(h'[g])
        BY <2>2, <2>3, <3>1 DEF SyncsEach
      <4> QED BY <4>1 DEF Covers
    <3>2. CASE h[g].ing # i
      BY <2>2, <2>3, <3>2 DEF Covers, Serves, SyncsEach, Keeps
    <3> QED BY <3>1, <3>2
  <2> QED BY <2>1, <2>2, <2>3, CertStill
<1>12. CASE \E s \in Secrets : SyncEach(g, s)
  <2>1. PICK t \in Secrets : SyncEach(g, t)
    BY <1>12
  <2>2. UNCHANGED <<secret, secretEvents, certs, chain, refs>>
    BY <2>1 DEF SyncEach, cluster, store
  <2>3. /\ Alone(g) /\ Keeps(g) /\ h[g].pc = "each" /\ h'[g].pc = "sync" /\ h'[g].ret = "each"
        /\ h'[g].cur = t /\ h'[g].secs = h[g].secs \ {t}
    BY <2>1, SyncEachMoves
  <2>4. ASSUME NEW s \in Secrets, NEW i \in Ingresses, Covers(g, s, i)
        PROVE  Covers(g, s, i)'
    <3>1. CASE s \in h[g].secs
      BY <2>3, <3>1 DEF Covers, SyncsEach, Serves
    <3>2. CASE s \notin h[g].secs
      BY <2>3, <2>4, <3>2 DEF Covers, SyncsEach, Serves, Extracts, Keeps
    <3> QED BY <3>1, <3>2
  <2> QED BY <2>2, <2>3, <2>4, CertStill
<1>13. CASE DropCertificate(g)
  BY <1>13, CertDrop
<1>14. CASE FindReferences(g)
  <2>1. UNCHANGED <<secret, secretEvents, certs, chain, refs>>
    BY <1>14 DEF FindReferences, cluster, store
  <2> DEFINE ings == {i \in Ingresses : <<h[g].sec, i>> \in refs}
  <2>2. /\ Alone(g) /\ h[g].pc = "lookup"
        /\ IF ings = {} THEN h'[g] = Idle
           ELSE /\ h'[g].pc = "next" /\ h'[g].ings = ings
                /\ h'[g].sec = h[g].sec /\ h'[g].gone = h[g].gone
    BY <1>14, FindReferencesMoves
  <2>3. h'[g].pc \in {"idle", "next"}
    BY <2>2, IdleIs
  <2>4. ASSUME NEW s \in Secrets, NEW i \in Ingresses, <<s, i>> \in refs, Covers(g, s, i)
        PROVE  Covers(g, s, i)'
    <3>1. g = "secret" /\ h[g].sec = s /\ ~h[g].gone
      BY <2>2, <2>4 DEF Covers, SyncsEach, Serves, Extracts
    <3>2. i \in ings
      BY <2>4, <3>1
    <3> QED BY <2>2, <3>1, <3>2 DEF Covers
  <2> QED BY <2>1, <2>2, <2>3, <2>4, CertStill
<1>15. CASE \E i \in Ingresses : NextIngress(g, i)
  BY <1>15, CertNextIngress
<1>16. CASE g = "secret" /\ SyncedAll
  <2>1. UNCHANGED <<secret, secretEvents, certs, chain, refs>>
    BY <1>16 DEF SyncedAll, cluster, store
  <2>2. /\ Alone(g) /\ Keeps(g)
        /\ h[g].pc = "each" /\ h[g].secs = {} /\ h'[g].pc = "next"
    BY <1>16, SyncedAllMoves
  <2>3. ASSUME NEW s \in Secrets, NEW i \in Ingresses, Covers(g, s, i)
        PROVE  Covers(g, s, i)'
    BY <1>16, <2>2, <2>3 DEF Covers, SyncsEach, Serves, Extracts, Keeps
  <2> QED BY <2>1, <2>2, <2>3, CertStill
<1>17. CASE SendEvent(g)
  <2>1. UNCHANGED <<secret, secretEvents, certs, chain, refs>> /\ Finished(g)
    BY <1>17 DEF SendEvent, cluster, store
  <2>2. Alone(g) /\ h'[g] = Idle
    BY <1>17, SendEventMoves
  <2>3. \A s \in Secrets, i \in Ingresses : ~Covers(g, s, i)
    BY <1>a, <2>1 DEF PlacesFit, Finished, Covers, SyncsEach, Serves, Extracts
  <2> QED BY <2>1, <2>2, <2>3, IdleIs, CertStill
<1> QED BY <1>1, <1>2, <1>3, <1>4, <1>5, <1>6, <1>7, <1>8, <1>9, <1>10, <1>11,
           <1>12, <1>13, <1>14, <1>15, <1>16, <1>17 DEF Handle

(* Nothing is referenced initially.                                        *)
LEMMA CertInit == Init => CertificatesFit
<1> SUFFICES ASSUME Init PROVE CertificatesFit
  OBVIOUS
<1>1. secretEvents = <<>> /\ chain = None /\ refs = {} /\ \A g \in Handlers : h[g].pc = "idle"
  BY IdleIs DEF Init
<1> QED BY <1>1 DEF CertificatesFit

(* Every step preserves CertificatesFit.                                   *)
LEMMA CertStep ==
  ASSUME ~OCSP
  PROVE  IInv /\ ReferencesFit /\ CertificatesFit /\ [Next]_vars => CertificatesFit'
<1> SUFFICES ASSUME IInv, ReferencesFit, CertificatesFit, [Next]_vars PROVE CertificatesFit'
  OBVIOUS
<1>1. CASE \E s \in Secrets, d \in Data \cup {Absent} : SecretChanges(s, d)
  BY <1>1, CertSecretChanges
<1>2. CASE SecretHandler
  BY <1>2, CertSecretHandler
<1>3. CASE IngressHandler
  <2>1. UNCHANGED <<secret, secretEvents, certs, chain, refs>> /\ "ingress" \in Handlers
    BY <1>3 DEF IngressHandler, store, Handlers
  <2>2. /\ Alone("ingress") /\ h["ingress"].pc = "idle"
        /\ h'["ingress"].pc \in {"parse", "forget", "idle"}
    BY <1>3, IngressHandlerMoves, IdleIs
  <2>3. \A s \in Secrets, i \in Ingresses : ~Covers("ingress", s, i)
    BY <2>2, IdleCovers
  <2> QED BY <2>1, <2>2, <2>3, CertStill
<1>4. CASE \E b \in BOOLEAN : ConfigMapHandler(b)
  <2>1. PICK c \in BOOLEAN : ConfigMapHandler(c)
    BY <1>4
  <2>2. UNCHANGED <<secret, secretEvents, certs, chain, refs>> /\ "configmap" \in Handlers
    BY <2>1 DEF ConfigMapHandler, cluster, store, Handlers
  <2>3. /\ Alone("configmap") /\ h["configmap"].pc = "idle"
        /\ h'["configmap"].pc \in {"notify", "next"}
    BY <2>1, ConfigMapHandlerMoves
  <2>4. \A s \in Secrets, i \in Ingresses : ~Covers("configmap", s, i)
    BY <2>3, IdleCovers
  <2> QED BY <2>2, <2>3, <2>4, CertStill
<1>5. CASE \E g \in Handlers : Handle(g)
  BY <1>5, CertHandle
<1>6. CASE (\E s \in Secrets : ReadChain(s)) \/ WriteChain
  BY <1>6 DEF ReadChain, WriteChain, CertificatesFit
<1>7. CASE \/ \E i \in Ingresses, spec \in Specs \cup {Absent} : IngressChanges(i, spec)
           \/ Sync \/ UNCHANGED vars
  <2>1. UNCHANGED <<secret, secretEvents, certs, chain, refs, h>>
    BY <1>7 DEF IngressChanges, Sync, vars, cluster, store
  <2> QED BY <2>1, CertSame
<1> QED BY <1>1, <1>2, <1>3, <1>4, <1>5, <1>6, <1>7 DEF Next

(* Without the completion of chains, once every notification is handled a  *)
(* certificate that an Ingress names has the content of its Secret.  With  *)
(* it checkSSLChainIssues may write an old one back.                       *)
THEOREM CertificatesCorrect ==
  ASSUME ~OCSP
  PROVE  Spec => []CertificatesAreCurrent
<1>1. Spec => []CertificatesFit
  BY CertInit, CertStep, InvCorrect, ReferencesAlways, PTL DEF Spec
<1>2. CertificatesFit => CertificatesAreCurrent
  <2> SUFFICES ASSUME CertificatesFit, Quiet, NEW s \in Secrets, NEW i \in Ingresses,
                      <<s, i>> \in refs, secret[s] \in Certificates
               PROVE  certs[s] # Absent /\ certs[s].data = secret[s]
    BY DEF CertificatesAreCurrent, Referenced
  <2>1. ~ToldAfter(0, s)
    BY DEF Quiet, ToldAfter
  <2>2. \A g \in Handlers : ~Covers(g, s, i)
    BY IdleCovers DEF Quiet
  <2> QED BY <2>1, <2>2 DEF CertificatesFit, CertificateFits, Covered
<1> QED BY <1>1, <1>2, PTL

=============================================================================
