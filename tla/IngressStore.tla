----------------------------- MODULE IngressStore -----------------------------
(***************************************************************************)
(* The object store of ingress-nginx (internal/ingress/controller/store):  *)
(* what the event handlers of the Ingress, Secret and ConfigMap informers, *)
(* each in a goroutine of its own, do to the annotated Ingresses, to the   *)
(* map from Secrets to the Ingresses that name them, and to the store of   *)
(* certificates, which the synchronization loop then reads.                *)
(*                                                                         *)
(* An Ingress is reduced to what the handlers look at: whether its class   *)
(* is this controller's, whether it is a catch-all, and the Secret named   *)
(* in each of the places where one can be named.  A Secret is reduced to   *)
(* its content, which may hold a certificate, a password file, or both.    *)
(***************************************************************************)
EXTENDS Naturals, Sequences, FiniteSets

CONSTANTS
  Ingresses, Secrets,      \* the keys of the objects
  Data,                    \* the contents a Secret may have
  Certificates,            \* those with a key pair or a certificate authority
  Passwords,               \* those with a password file
  Specs,                   \* the specifications an Ingress may have
  DefaultSSLCertificate,   \* the Secret of the flag, or None
  DisableCatchAll,         \* the flag of that name
  OCSP,                    \* whether certificate chains are completed
  MaxChanges,              \* bound on the changes of objects in a behaviour
  Absent, None

(* The places of an Ingress that name a Secret. *)
Kinds == {"tls", "auth-secret", "auth-tls-secret", "secure-verify-ca-secret"}

(* Those that updateSecretIngressMap records. *)
RecordedKinds == {"tls", "auth-secret", "auth-tls-secret"}

(* Those an annotation parser resolves into a certificate. *)
CertificateKinds == {"auth-tls-secret", "secure-verify-ca-secret"}

Handlers == {"ingress", "secret", "configmap"}

ASSUME DataAssumption == Certificates \subseteq Data /\ Passwords \subseteq Data
ASSUME SpecAssumption ==
  Specs \subseteq [class : BOOLEAN, catchAll : BOOLEAN, uses : [Kinds -> Secrets \cup {None}]]
ASSUME NameAssumption ==
  /\ Ingresses \cap Secrets = {}
  /\ None \notin Ingresses \cup Secrets \cup Handlers
  /\ Absent \notin Data \cup Specs
  /\ Absent \notin [spec : Specs, parsed : [Kinds -> Data \cup {Absent}]]
  /\ Absent \notin [data : Certificates, full : BOOLEAN]
ASSUME FlagAssumption ==
  /\ DefaultSSLCertificate \in Secrets \cup {None}
  /\ DisableCatchAll \in BOOLEAN /\ OCSP \in BOOLEAN
  /\ MaxChanges \in Nat

VARIABLES
  ingress,        \* the Ingresses, as the informer delivered them last
  secret,         \* the Secret lister
  ingressEvents,  \* notifications of the Ingress informer, oldest first
  secretEvents,   \* notifications of the Secret informer, oldest first
  annotated,      \* listers.IngressWithAnnotation
  refs,           \* secretIngressMap: pairs of a Secret and an Ingress naming it
  certs,          \* sslStore
  owner,          \* the handler that holds syncSecretMu, or None
  h,              \* the place and the locals of each handler
  chain,          \* the certificate checkSSLChainIssues is completing, or None
  updated,        \* an event waits in updateCh
  unseen,         \* the entries changed since the loop last read the store
  changes         \* changes of objects so far

cluster == <<ingress, secret, ingressEvents, secretEvents>>
store   == <<annotated, refs, certs>>
vars    == <<cluster, store, owner, h, chain, updated, unseen, changes>>

-----------------------------------------------------------------------------
(* What an Ingress names, and which Ingresses the controller takes. *)

Named(spec, kinds) == {spec.uses[k] : k \in kinds} \ {None}

Ignored(spec) == spec.catchAll /\ DisableCatchAll

Accepted(spec) == spec # Absent /\ spec.class /\ ~Ignored(spec)

(* Mutant: an Ingress that gets the class later is not created. *)
AppliesKnown(old, cur) ==
  cur # old /\ cur # Absent /\ cur.class /\ ~Ignored(cur) /\ (old = Absent \/ old.class)

(* The notification puts the new object into the store ... *)
Applies(old, cur) == cur # old /\ cur # Absent /\ cur.class /\ ~Ignored(cur)

(* Mutant: an Ingress that becomes a catch-all is ignored but stays. *)
RemovesUnlessCatchAll(old, cur) ==
  /\ old # Absent /\ old.class /\ ~Ignored(old)
  /\ cur = Absent \/ ~cur.class

(* ... or takes the old one out of it; otherwise the handler returns. *)
Removes(old, cur) ==
  /\ old # Absent /\ old.class /\ ~Ignored(old)
  /\ cur = Absent \/ ~cur.class \/ (cur # old /\ Ignored(cur))

(* What a parser keeps of a certificate of the store. *)
ContentOf(cert) == IF cert = Absent THEN Absent ELSE cert.data

(* What the parser of auth-secret keeps of a Secret: its password file. *)
PasswordOf(d) == IF d \in Passwords THEN d ELSE Absent

Nothing == [k \in Kinds |-> Absent]

Idle == [pc |-> "idle", ing |-> None, spec |-> Absent, gone |-> FALSE,
         sec |-> None, cur |-> None, read |-> Absent, ret |-> "idle",
         kinds |-> {}, kind |-> "tls", parsed |-> Nothing, ings |-> {}, secs |-> {}]

(* syncIngress begins on the Ingress of the locals l. *)
Extracting(l) ==
  [l EXCEPT !.pc = "parse", !.parsed = Nothing,
            !.kinds = {k \in Kinds \ {"tls"} : l.spec.uses[k] # None}]

Init ==
  /\ ingress = [i \in Ingresses |-> Absent] /\ secret = [s \in Secrets |-> Absent]
  /\ ingressEvents = <<>> /\ secretEvents = <<>>
  /\ annotated = [i \in Ingresses |-> Absent] /\ refs = {}
  /\ certs = [s \in Secrets |-> Absent]
  /\ owner = None /\ h = [g \in Handlers |-> Idle] /\ chain = None
  /\ updated = FALSE /\ unseen = {} /\ changes = 0

-----------------------------------------------------------------------------
(* Changes in the cluster.  An informer updates its cache and appends a    *)
(* notification for the goroutine that runs the handlers.                  *)

IngressChanges(i, spec) ==
  /\ changes < MaxChanges /\ spec # ingress[i]
  /\ ingress' = [ingress EXCEPT ![i] = spec]
  /\ ingressEvents' = Append(ingressEvents, [ing |-> i, old |-> ingress[i], cur |-> spec])
  /\ changes' = changes + 1
  /\ UNCHANGED <<secret, secretEvents, store, owner, h, chain, updated, unseen>>

SecretChanges(s, d) ==
  /\ changes < MaxChanges /\ d # secret[s]
  /\ secret' = [secret EXCEPT ![s] = d]
  /\ secretEvents' = Append(secretEvents, [sec |-> s, gone |-> d = Absent])
  /\ changes' = changes + 1
  /\ UNCHANGED <<ingress, ingressEvents, store, owner, h, chain, updated, unseen>>

-----------------------------------------------------------------------------
(* The three handlers begin. *)

IngressHandler ==
  /\ h["ingress"].pc = "idle" /\ ingressEvents # <<>>
  /\ LET e == Head(ingressEvents) IN
       h' = [h EXCEPT !["ingress"] =
               IF Applies(e.old, e.cur)
               THEN Extracting([Idle EXCEPT !.ing = e.ing, !.spec = e.cur])
               ELSE IF Removes(e.old, e.cur)
               THEN [Idle EXCEPT !.pc = "forget", !.ing = e.ing, !.gone = TRUE]
               ELSE Idle]
  /\ ingressEvents' = Tail(ingressEvents)
  /\ UNCHANGED <<ingress, secret, secretEvents, store, owner, chain, updated, unseen, changes>>

(* Add and Update synchronize the default certificate first; Delete does   *)
(* not look whether the Secret is the default certificate.                 *)
SecretHandler ==
  /\ h["secret"].pc = "idle" /\ secretEvents # <<>>
  /\ LET e == Head(secretEvents) IN
       h' = [h EXCEPT !["secret"] =
               IF e.gone THEN [Idle EXCEPT !.pc = "drop", !.sec = e.sec, !.gone = TRUE]
               ELSE IF e.sec = DefaultSSLCertificate
               THEN [Idle EXCEPT !.pc = "sync", !.sec = e.sec, !.cur = e.sec, !.ret = "lookup"]
               ELSE [Idle EXCEPT !.pc = "lookup", !.sec = e.sec]]
  /\ secretEvents' = Tail(secretEvents)
  /\ UNCHANGED <<ingress, secret, ingressEvents, store, owner, chain, updated, unseen, changes>>

(* The configuration ConfigMap changed: every annotated Ingress is parsed  *)
(* again.  (When it is created only an event is sent.)                     *)
ConfigMapHandler(created) ==
  /\ h["configmap"].pc = "idle" /\ changes < MaxChanges
  /\ h' = [h EXCEPT !["configmap"] =
             IF created THEN [Idle EXCEPT !.pc = "notify"]
             ELSE [Idle EXCEPT !.pc = "next", !.ings = {i \in Ingresses : annotated[i] # Absent}]]
  /\ changes' = changes + 1
  /\ UNCHANGED <<cluster, store, owner, chain, updated, unseen>>

-----------------------------------------------------------------------------
(* syncIngress: extract the annotations, then put the Ingress with them.   *)
(* The parsers run in any order (Extractor.annotations is a Go map).       *)

(* The parser of auth-secret reads the Secret from its lister. *)
ParsePassword(g) ==
  /\ h[g].pc = "parse" /\ "auth-secret" \in h[g].kinds
  /\ h' = [h EXCEPT ![g].kinds = @ \ {"auth-secret"},
             ![g].parsed["auth-secret"] = PasswordOf(secret[h[g].spec.uses["auth-secret"]])]
  /\ UNCHANGED <<cluster, store, owner, chain, updated, unseen, changes>>

(* GetAuthCertificate synchronizes a Secret whose certificate is missing ... *)
ParseCertificate(g, k) ==
  /\ h[g].pc = "parse" /\ k \in h[g].kinds \cap CertificateKinds
  /\ LET s == h[g].spec.uses[k] IN
       h' = [h EXCEPT ![g].kinds = @ \ {k}, ![g].kind = k, ![g].cur = s,
               ![g].pc = IF certs[s] = Absent THEN "sync" ELSE "fetch",
               ![g].ret = "fetch"]
  /\ UNCHANGED <<cluster, store, owner, chain, updated, unseen, changes>>

(* ... and returns the one of the store. *)
FetchCertificate(g) ==
  /\ h[g].pc = "fetch"
  /\ h' = [h EXCEPT ![g].pc = "parse", ![g].parsed[h[g].kind] = ContentOf(certs[h[g].cur])]
  /\ UNCHANGED <<cluster, store, owner, chain, updated, unseen, changes>>

(* Mutant: the Secret handler parses the Ingresses but synchronizes nothing. *)
AfterUpdateParsesOnly(g) == IF g = "ingress" THEN "unref" ELSE "next"

(* Afterwards the Ingress handler records the references; a Secret that    *)
(* was added or updated is synchronized again; the others go on.           *)
AfterUpdate(g) ==
  IF g = "ingress" THEN "unref"
  ELSE IF g = "secret" /\ ~h[g].gone THEN "list" ELSE "next"

UpdateAnnotated(g) ==
  /\ h[g].pc = "parse" /\ h[g].kinds = {}
  /\ LET i == h[g].ing
         new == [spec |-> h[g].spec, parsed |-> h[g].parsed] IN
       /\ annotated' = [annotated EXCEPT ![i] = new]
       /\ unseen' = IF annotated[i] = new THEN unseen ELSE unseen \cup {i}
  /\ h' = [h EXCEPT ![g].pc = AfterUpdate(g)]
  /\ UNCHANGED <<cluster, refs, certs, owner, chain, updated, changes>>

-----------------------------------------------------------------------------
(* syncSecret.  The mutex is held from reading the lister to writing the   *)
(* certificate; a Secret without one leaves the store as it is.            *)

SyncNothing(g) ==
  /\ h[g].pc = "sync" /\ owner = None
  /\ secret[h[g].cur] \notin Certificates
  /\ h' = [h EXCEPT ![g].pc = h[g].ret]
  /\ UNCHANGED <<cluster, store, owner, chain, updated, unseen, changes>>

(* Mutant: syncSecret without its mutex. *)
ReadSecretUnlocked(g) ==
  /\ h[g].pc = "sync"
  /\ secret[h[g].cur] \in Certificates
  /\ owner' = g
  /\ h' = [h EXCEPT ![g].pc = "write", ![g].read = secret[h[g].cur]]
  /\ UNCHANGED <<cluster, store, chain, updated, unseen, changes>>

(* Mutant: syncSecret goes on after an error of getPemCertificate. *)
ReadSecretAny(g) ==
  /\ h[g].pc = "sync" /\ owner = None
  /\ secret[h[g].cur] # Absent
  /\ owner' = g
  /\ h' = [h EXCEPT ![g].pc = "write", ![g].read = secret[h[g].cur]]
  /\ UNCHANGED <<cluster, store, chain, updated, unseen, changes>>

ReadSecret(g) ==
  /\ h[g].pc = "sync" /\ owner = None
  /\ secret[h[g].cur] \in Certificates
  /\ owner' = g
  /\ h' = [h EXCEPT ![g].pc = "write", ![g].read = secret[h[g].cur]]
  /\ UNCHANGED <<cluster, store, chain, updated, unseen, changes>>

(* Mutant: the early return of an unchanged certificate keeps the mutex. *)
WriteCertificateLocked(g) ==
  /\ h[g].pc = "write"
  /\ LET s == h[g].cur
         cert == [data |-> h[g].read, full |-> FALSE] IN
       IF certs[s] = cert
       THEN UNCHANGED <<certs, unseen, updated, owner>>
       ELSE /\ certs' = [certs EXCEPT ![s] = cert]
            /\ unseen' = unseen \cup {s}
            /\ updated' = TRUE /\ owner' = None
  /\ h' = [h EXCEPT ![g].pc = h[g].ret, ![g].read = Absent]
  /\ UNCHANGED <<cluster, annotated, refs, chain, changes>>

WriteCertificate(g) ==
  /\ h[g].pc = "write"
  /\ LET s == h[g].cur
         cert == [data |-> h[g].read, full |-> FALSE] IN
       IF certs[s] = cert
       THEN UNCHANGED <<certs, unseen, updated>>
       ELSE /\ certs' = [certs EXCEPT ![s] = cert]
            /\ unseen' = unseen \cup {s}
            /\ updated' = TRUE
  /\ owner' = None
  /\ h' = [h EXCEPT ![g].pc = h[g].ret, ![g].read = Absent]
  /\ UNCHANGED <<cluster, annotated, refs, chain, changes>>

-----------------------------------------------------------------------------
(* The rest of the Ingress handler. *)

ForgetIngress(g) ==
  /\ h[g].pc = "forget"
  /\ annotated' = [annotated EXCEPT ![h[g].ing] = Absent]
  /\ unseen' = IF annotated[h[g].ing] = Absent THEN unseen ELSE unseen \cup {h[g].ing}
  /\ h' = [h EXCEPT ![g].pc = "unref"]
  /\ UNCHANGED <<cluster, refs, certs, owner, chain, updated, changes>>

DeleteReferences(g) ==
  /\ h[g].pc = "unref"
  /\ refs' = {r \in refs : r[2] # h[g].ing}
  /\ h' = [h EXCEPT ![g].pc = IF h[g].gone THEN "notify" ELSE "ref"]
  /\ UNCHANGED <<cluster, annotated, certs, owner, chain, updated, unseen, changes>>

InsertReferences(g) ==
  /\ h[g].pc = "ref"
  /\ refs' = refs \cup (Named(h[g].spec, RecordedKinds) \X {h[g].ing})
  /\ h' = [h EXCEPT ![g].pc = "list"]
  /\ UNCHANGED <<cluster, annotated, certs, owner, chain, updated, unseen, changes>>

(* syncSecrets *)
ListSecrets(g) ==
  /\ h[g].pc = "list"
  /\ h' = [h EXCEPT ![g].pc = "each", ![g].secs = {s \in Secrets : <<s, h[g].ing>> \in refs}]
  /\ UNCHANGED <<cluster, store, owner, chain, updated, unseen, changes>>

SyncEach(g, s) ==
  /\ h[g].pc = "each" /\ s \in h[g].secs
  /\ h' = [h EXCEPT ![g].pc = "sync", ![g].secs = @ \ {s}, ![g].cur = s, ![g].ret = "each"]
  /\ UNCHANGED <<cluster, store, owner, chain, updated, unseen, changes>>

(* The Secret handler goes on with the next Ingress. *)
SyncedAll ==
  /\ h["secret"].pc = "each" /\ h["secret"].secs = {}
  /\ h' = [h EXCEPT !["secret"].pc = "next"]
  /\ UNCHANGED <<cluster, store, owner, chain, updated, unseen, changes>>

-----------------------------------------------------------------------------
(* The rest of the Secret handler. *)

DropCertificate(g) ==
  /\ h[g].pc = "drop"
  /\ LET s == h[g].sec IN
       /\ certs' = [certs EXCEPT ![s] = Absent]
       /\ unseen' = IF certs[s] = Absent THEN unseen ELSE unseen \cup {s}
  /\ h' = [h EXCEPT ![g].pc = "lookup"]
  /\ UNCHANGED <<cluster, annotated, refs, owner, chain, updated, changes>>

(* Mutant: a deleted Secret is dropped without an event. *)
FindReferencesOfPresent(g) ==
  /\ h[g].pc = "lookup"
  /\ LET ings == {i \in Ingresses : <<h[g].sec, i>> \in refs} IN
       h' = [h EXCEPT ![g] = IF ings = {} \/ h[g].gone THEN Idle
                             ELSE [@ EXCEPT !.pc = "next", !.ings = ings]]
  /\ UNCHANGED <<cluster, store, owner, chain, updated, unseen, changes>>

FindReferences(g) ==
  /\ h[g].pc = "lookup"
  /\ LET ings == {i \in Ingresses : <<h[g].sec, i>> \in refs} IN
       h' = [h EXCEPT ![g] = IF ings = {} THEN Idle
                             ELSE [@ EXCEPT !.pc = "next", !.ings = ings]]
  /\ UNCHANGED <<cluster, store, owner, chain, updated, unseen, changes>>

(* getIngress, the next Ingress to parse again; it may have gone. *)
NextIngress(g, i) ==
  /\ h[g].pc = "next" /\ i \in h[g].ings
  /\ h' = [h EXCEPT ![g] =
             IF annotated[i] = Absent THEN [h[g] EXCEPT !.ings = h[g].ings \ {i}]
             ELSE Extracting([h[g] EXCEPT !.ings = h[g].ings \ {i}, !.ing = i, !.spec = annotated[i].spec])]
  /\ UNCHANGED <<cluster, store, owner, chain, updated, unseen, changes>>

(* Every handler that did something ends with an event. *)
Finished(g) ==
  \/ h[g].pc = "notify"
  \/ g = "ingress" /\ h[g].pc = "each" /\ h[g].secs = {}
  \/ h[g].pc = "next" /\ h[g].ings = {}

(* Mutant: the Secret handler ends without an event. *)
SendEventUnlessSecret(g) ==
  /\ Finished(g)
  /\ updated' = (updated \/ g # "secret")
  /\ h' = [h EXCEPT ![g] = Idle]
  /\ UNCHANGED <<cluster, store, owner, chain, unseen, changes>>

SendEvent(g) ==
  /\ Finished(g)
  /\ updated' = TRUE
  /\ h' = [h EXCEPT ![g] = Idle]
  /\ UNCHANGED <<cluster, store, owner, chain, unseen, changes>>

-----------------------------------------------------------------------------
(* checkSSLChainIssues completes the chain of a certificate, between       *)
(* reading it from the store and writing it back without the mutex.        *)

ReadChain(s) ==
  /\ OCSP /\ chain = None /\ certs[s] # Absent /\ ~certs[s].full
  /\ chain' = [sec |-> s, data |-> certs[s].data]
  /\ UNCHANGED <<cluster, store, owner, h, updated, unseen, changes>>

WriteChain ==
  /\ chain # None
  /\ certs' = [certs EXCEPT ![chain.sec] = [data |-> chain.data, full |-> TRUE]]
  /\ unseen' = unseen \cup {chain.sec}
  /\ updated' = TRUE /\ chain' = None
  /\ UNCHANGED <<cluster, annotated, refs, owner, h, changes>>

(* The synchronization loop takes the event and reads the store. *)
Sync ==
  /\ updated
  /\ updated' = FALSE /\ unseen' = {}
  /\ UNCHANGED <<cluster, store, owner, h, chain, changes>>

-----------------------------------------------------------------------------
Handle(g) ==
  \/ ParsePassword(g) \/ FetchCertificate(g) \/ UpdateAnnotated(g)
  \/ \E k \in CertificateKinds : ParseCertificate(g, k)
  \/ SyncNothing(g) \/ ReadSecret(g) \/ WriteCertificate(g)
  \/ ForgetIngress(g) \/ DeleteReferences(g) \/ InsertReferences(g)
  \/ ListSecrets(g) \/ \E s \in Secrets : SyncEach(g, s)
  \/ DropCertificate(g) \/ FindReferences(g) \/ SendEvent(g)
  \/ \E i \in Ingresses : NextIngress(g, i)
  \/ g = "secret" /\ SyncedAll

Next ==
  \/ \E i \in Ingresses, spec \in Specs \cup {Absent} : IngressChanges(i, spec)
  \/ \E s \in Secrets, d \in Data \cup {Absent} : SecretChanges(s, d)
  \/ IngressHandler \/ SecretHandler \/ \E b \in BOOLEAN : ConfigMapHandler(b)
  \/ \E g \in Handlers : Handle(g)
  \/ (\E s \in Secrets : ReadChain(s)) \/ WriteChain
  \/ Sync

Spec == Init /\ [][Next]_vars

(* The goroutines keep running, of those that are in the middle of a       *)
(* handler at least one; objects need not change.                          *)
Fairness ==
  /\ WF_vars(IngressHandler) /\ WF_vars(SecretHandler)
  /\ WF_vars(\E g \in Handlers : Handle(g))
  /\ WF_vars(WriteChain) /\ WF_vars(Sync)

FairSpec == Spec /\ Fairness

-----------------------------------------------------------------------------
(* Types. *)

Labels == {"idle", "parse", "fetch", "sync", "write", "forget", "unref", "ref",
           "list", "each", "drop", "lookup", "next", "notify"}

Parsed == [Kinds -> Data \cup {Absent}]

Locals ==
  [pc : Labels, ing : Ingresses \cup {None}, spec : Specs \cup {Absent}, gone : BOOLEAN,
   sec : Secrets \cup {None}, cur : Secrets \cup {None},
   read : Certificates \cup {Absent}, ret : Labels,
   kinds : SUBSET (Kinds \ {"tls"}), kind : Kinds,
   parsed : Parsed, ings : SUBSET Ingresses, secs : SUBSET Secrets]

TypeCluster ==
  /\ ingress \in [Ingresses -> Specs \cup {Absent}]
  /\ secret \in [Secrets -> Data \cup {Absent}]
  /\ ingressEvents \in Seq([ing : Ingresses, old : Specs \cup {Absent}, cur : Specs \cup {Absent}])
  /\ secretEvents \in Seq([sec : Secrets, gone : BOOLEAN])

TypeStore ==
  /\ annotated \in [Ingresses -> [spec : Specs, parsed : Parsed] \cup {Absent}]
  /\ refs \subseteq Secrets \X Ingresses
  /\ certs \in [Secrets -> [data : Certificates, full : BOOLEAN] \cup {Absent}]

TypeLocals ==
  /\ h \in [Handlers -> Locals]
  /\ owner \in Handlers \cup {None}
  /\ chain \in [sec : Secrets, data : Certificates] \cup {None}

TypeSignal ==
  /\ updated \in BOOLEAN /\ unseen \subseteq Ingresses \cup Secrets
  /\ changes \in 0 .. MaxChanges

(* The store, the queues and the locals of the handlers hold what the code *)
(* declares them to hold.                                                  *)
TypeOK == TypeCluster /\ TypeStore /\ TypeLocals /\ TypeSignal

(* The locals of a handler fit its place: the objects it works on exist.   *)
Serving(l) == l.pc \in {"sync", "write"} => l.ret \in {"fetch", "each", "lookup"}

OnIngress(l) ==
  \/ l.pc \in {"parse", "fetch", "forget", "unref", "ref", "list", "each"}
  \/ l.pc \in {"sync", "write"} /\ l.ret # "lookup"

Fits(l) ==
  /\ Serving(l)
  /\ OnIngress(l) => l.ing \in Ingresses
  /\ OnIngress(l) /\ l.pc # "forget" /\ ~(l.pc = "unref" /\ l.gone) => l.spec \in Specs
  /\ l.pc \in {"fetch", "sync", "write"} => l.cur \in Secrets
  /\ l.pc \in {"drop", "lookup"} \/ (l.pc \in {"sync", "write"} /\ l.ret = "lookup") => l.sec \in Secrets
  /\ l.pc = "forget" => l.gone
  /\ l.pc = "write" => l.read \in Certificates
  /\ OnIngress(l) => \A k \in l.kinds : l.spec \in Specs /\ l.spec.uses[k] # None

(* syncSecret: a handler writes a certificate exactly while it holds the   *)
(* mutex, so two never do, and every handler lets go of it.                *)
OneWriter == \A g \in Handlers : h[g].pc = "write" <=> owner = g

IInv == TypeOK /\ (\A g \in Handlers : Fits(h[g])) /\ OneWriter

-----------------------------------------------------------------------------
(* Properties. *)

(* The specification of i after the first n waiting notifications.         *)
After(n, i) ==
  LET later == {m \in DOMAIN ingressEvents : m > n /\ ingressEvents[m].ing = i}
  IN  IF later = {} THEN ingress[i]
      ELSE ingressEvents[CHOOSE m \in later : \A k \in later : m <= k].old

(* The last specification of i the Ingress handler has been given. *)
Handled(i) == After(0, i)

(* What updateSecretIngressMap promises: between two runs of the Ingress   *)
(* handler the map holds exactly the references of the Ingresses that the  *)
(* controller takes, whatever changes of class and catch-all rules, and    *)
(* deletions, have been handled.                                           *)
ReferencesAreCurrent ==
  h["ingress"].pc = "idle" =>
    refs = {r \in Secrets \X Ingresses :
              LET spec == Handled(r[2]) IN Accepted(spec) /\ r[1] \in Named(spec, RecordedKinds)}

(* An Ingress the controller takes is never missing from what the loop     *)
(* lists, although the other handlers write to the same store.             *)
NoIngressIsMissing ==
  h["ingress"].pc = "idle" =>
    \A i \in Ingresses : Accepted(Handled(i)) => annotated[i] # Absent

Quiet ==
  /\ ingressEvents = <<>> /\ secretEvents = <<>> /\ chain = None
  /\ \A g \in Handlers : h[g].pc = "idle"

Referenced(s) == \E i \in Ingresses : <<s, i>> \in refs

(* syncSecret: once every notification is handled, the certificate of a    *)
(* referenced Secret is the one of the Secret's present content, however   *)
(* the handlers of Ingresses and Secrets interleaved.                      *)
CertificatesAreCurrent ==
  Quiet => \A s \in Secrets :
    Referenced(s) /\ secret[s] \in Certificates =>
      certs[s] # Absent /\ certs[s].data = secret[s]

(* A change the loop has not seen, of an annotated Ingress or of a         *)
(* certificate some Ingress names, is one an event tells of, or that a     *)
(* handler still at work will send one for.                                *)
NothingIsSilent ==
  updated \/ \A x \in unseen :
    (x \in Secrets => Referenced(x)) => \E g \in Handlers : h[g].pc # "idle"

(* The places of a handler from which it cannot end without an event. *)
Owing(l) == OnIngress(l) \/ l.pc \in {"next", "notify"}

-----------------------------------------------------------------------------
(* What the steps preserve, so that the properties above hold.             *)

(* The notifications of an Ingress tell of its changes one by one.         *)
EventsChain ==
  \A n \in DOMAIN ingressEvents : ingressEvents[n].cur = After(n, ingressEvents[n].ing)

(* The places inside the extraction of annotations, and those where the    *)
(* Secrets of an Ingress are synchronized.                                 *)
Serves(l, place) == l.pc \in {"sync", "write"} /\ l.ret = place

Extracts(l) == l.pc \in {"parse", "fetch"} \/ Serves(l, "fetch")

SyncsEach(l) == l.pc = "each" \/ Serves(l, "each")

(* Each handler stays in its own code: only that of Ingresses writes the   *)
(* map of references, only that of Secrets drops a certificate.            *)
PlacesFit ==
  /\ LET l == h["ingress"] IN
       \/ l = Idle
       \/ ~l.gone /\ (Extracts(l) \/ l.pc \in {"unref", "ref", "list"} \/ SyncsEach(l))
       \/ l.gone /\ l.pc \in {"forget", "unref", "notify"}
  /\ \A g \in Handlers \ {"ingress"} : h[g].pc \notin {"forget", "unref", "ref"}
  /\ h["secret"].pc # "notify"

Handling(i) == h["ingress"] # Idle /\ h["ingress"].ing = i

Recorded(i) == {s \in Secrets : <<s, i>> \in refs}

Due(i) == IF Accepted(Handled(i)) THEN Named(Handled(i), RecordedKinds) ELSE {}

(* How far the Ingress handler has brought the references and the entry of *)
(* the Ingress i to what it was told of i last.                            *)
IngressFits(i) ==
  LET l == h["ingress"] IN
  IF Handling(i)
  THEN /\ l.gone <=> ~Accepted(Handled(i))
       /\ ~l.gone => l.spec = Handled(i)
       /\ l.pc = "ref" => Recorded(i) = {}
       /\ l.pc \in {"list", "notify"} \/ SyncsEach(l) => Recorded(i) = Due(i)
       /\ ~l.gone => Extracts(l) \/ annotated[i] # Absent
  ELSE Recorded(i) = Due(i) /\ (Accepted(Handled(i)) => annotated[i] # Absent)

ReferencesFit == EventsChain /\ PlacesFit /\ \A i \in Ingresses : IngressFits(i)

(* An unseen certificate that some Ingress names is one the Secret handler *)
(* has just dropped, or some handler owes an event.                        *)
SilenceFits ==
  ~updated => \A s \in unseen \cap Secrets :
    Referenced(s) => \E g \in Handlers : Owing(h[g]) \/ (h[g].pc = "lookup" /\ h[g].sec = s)

(* A notification tells that the Secret s is there.                        *)
ToldAfter(n, s) ==
  \E m \in DOMAIN secretEvents :
    m > n /\ secretEvents[m].sec = s /\ ~secretEvents[m].gone

(* The handler g will synchronize the Secret s that the Ingress i names,   *)
(* or will delete the reference first.                                     *)
Covers(g, s, i) ==
  LET l == h[g] IN
  \/ /\ g = "secret" /\ l.pc # "idle" /\ l.sec = s /\ ~l.gone
     /\ \/ l.pc = "lookup" \/ Serves(l, "lookup") \/ i \in l.ings
        \/ l.ing = i /\ (Extracts(l) \/ l.pc = "list")
  \/ g = "ingress" /\ l.ing = i /\ (Extracts(l) \/ l.pc \in {"forget", "unref", "list"})
  \/ SyncsEach(l) /\ s \in l.secs
  \/ l.pc = "sync" /\ l.cur = s
  \/ l.pc = "write" /\ l.cur = s /\ l.read = secret[s]

Covered(s, i) == ToldAfter(0, s) \/ \E g \in Handlers : Covers(g, s, i)

Stale(g, s) == h[g].pc = "write" /\ h[g].cur = s /\ h[g].read # secret[s]

(* Without the completion of chains: the certificate of a Secret that an   *)
(* Ingress names is current or will be synchronized, and will be once more *)
(* when an outdated one is about to be written.                            *)
CertificateFits(s, i) ==
  secret[s] \in Certificates =>
    /\ (certs[s] # Absent /\ certs[s].data = secret[s]) \/ Covered(s, i)
    /\ (\E g \in Handlers : Stale(g, s)) => Covered(s, i)

CertificatesFit ==
  /\ chain = None
  /\ \A n \in DOMAIN secretEvents :
       LET e == secretEvents[n] IN e.gone /\ secret[e.sec] # Absent => ToldAfter(n, e.sec)
  /\ \A g \in Handlers :
       h[g].pc = "drop" => g = "secret" /\ (secret[h[g].sec] # Absent => ToldAfter(0, h[g].sec))
  /\ \A s \in Secrets, i \in Ingresses : <<s, i>> \in refs => CertificateFits(s, i)

-----------------------------------------------------------------------------
(* The handlers keep the promise of module Notification for the annotated  *)
(* Ingresses: whoever writes one sends an event afterwards.                *)
N == INSTANCE Notification WITH
       Writers <- Handlers, Entries <- Ingresses,
       dirty <- unseen \cap Ingresses, working <- {g \in Handlers : Owing(h[g])},
       signal <- updated

WritesAreNotified == N!Spec

(* After the last change the loop has seen the current certificate of      *)
(* every referenced Secret, for good.                                      *)
CertificatesAreServed ==
  <>[](\A s \in Secrets :
         Referenced(s) /\ secret[s] \in Certificates =>
           s \notin unseen /\ certs[s] # Absent /\ certs[s].data = secret[s])

-----------------------------------------------------------------------------
(* What the documentation says of the store. *)

(* "a point in time configuration file that reflects the state of the      *)
(* cluster" (docs/how-it-works.md:11): the loop lists the Ingresses the    *)
(* controller takes, and no others.                                        *)
ListsTheCluster ==
  Quiet => \A i \in Ingresses : annotated[i] # Absent =>
             Accepted(ingress[i]) /\ annotated[i].spec = ingress[i]

(* "A Secret is updated" (docs/how-it-works.md:47, among the changes that  *)
(* require a reload): when the Secret handler ends, the Ingresses it has   *)
(* parsed again hold the new content in their annotation auth-tls-secret,  *)
(* unless something else is going on.                                      *)
UpdatesAreParsed ==
  /\ Finished("secret") /\ ~h["secret"].gone
  /\ h["ingress"].pc = "idle" /\ h["configmap"].pc = "idle"
  /\ ingressEvents = <<>> /\ secretEvents = <<>>
  => \A i \in Ingresses :
       annotated[i] # Absent /\ annotated[i].spec.uses["auth-tls-secret"] = h["secret"].sec =>
         LET d == secret[h["secret"].sec] IN
         d \in Certificates => annotated[i].parsed["auth-tls-secret"] = d

(* "Some missing referenced object from the Ingress is available, like a   *)
(* Service or Secret" (docs/how-it-works.md:46): the annotations of an     *)
(* Ingress do not go on without a certificate that has come to exist.      *)
NewSecretsAreUsed ==
  Quiet => \A i \in Ingresses, k \in CertificateKinds :
    annotated[i] # Absent /\ annotated[i].spec.uses[k] # None =>
      (secret[annotated[i].spec.uses[k]] \in Certificates =>
         annotated[i].parsed[k] # Absent)

(* "An Ingress, Service, Secret is removed" (docs/how-it-works.md:45): a   *)
(* removed Secret leaves no certificate behind ...                         *)
RemovedSecretsAreGone ==
  Quiet => \A s \in Secrets : secret[s] = Absent => certs[s] = Absent

(* ... and the loop is told that the certificate is gone.                  *)
RemovalIsTold ==
  Quiet => \A s \in Secrets : s \in unseen => updated
=============================================================================
