-------------------------- MODULE ModelBuildingProofs --------------------------
(***************************************************************************)
(* Proofs about ModelBuilding for any Ingresses, Services, certificates    *)
(* and streams, and any number of changes: once the controller has seen    *)
(* every change, each path of a host leads to the upstream that the oldest *)
(* Ingress gives it, each upstream has the endpoints of its Service, each  *)
(* server has its certificate, and nginx.conf is that of the running       *)
(* model.                                                                  *)
(*                                                                         *)
(* The invariant says of each loop what the Ingresses it has been over     *)
(* call for, and that this is what it has built.  These Ingresses are the  *)
(* first k of a list s; so the operators below have s and k as parameters, *)
(* and each loop has a lemma that goes from k to k + 1.                    *)
(*                                                                         *)
(* Endpoints have an invariant of their own, in the last part: what the    *)
(* fold of getEndpoints lists, and that upstreams keep it.                 *)
(***************************************************************************)
EXTENDS ModelBuilding, WellFoundedInduction, FiniteSetTheorems, TLAPS

Ingresses == Manifests \cup ToSet(FirstCluster.ings)

(* The names that upstreams of Ingresses have, and all upstreams but those *)
(* of annotations.                                                         *)
UpNames == {UpstreamName(b) : b \in DOMAIN Names} \cup {DefUpstream}
NamesOf(m) == {UpstreamName(p.backend) : p \in ToSet(m.paths)} \cup {UpstreamName(b) : b \in {m.backend} \ {None}}

-----------------------------------------------------------------------------
(* What the first k of the Ingresses s call for.                           *)

MainsTo(s, k) == {i \in 1 .. k : ~s[i].canary}
HostsTo(s, k) == {DefServer} \cup UNION {HostsOf(s[i]) : i \in MainsTo(s, k)}
NamingTo(s, k, h) == {i \in MainsTo(s, k) : h \in HostsOf(s[i])}
ClaimingTo(s, k, h, path) == {i \in MainsTo(s, k) : Claims(s[i], h, path) # {}}
CatchAllsTo(s, k) == {i \in MainsTo(s, k) : s[i].backend # None /\ s[i].rules = <<>>}
DefaultIn(s, S) ==
  IF S = {} THEN DefUpstream
  ELSE IF s[First(S)].backend = None THEN DefUpstream ELSE UpstreamName(s[First(S)].backend)
RootOf(s, k, h) == IF h = DefServer THEN DefaultIn(s, CatchAllsTo(s, k)) ELSE DefaultIn(s, NamingTo(s, k, h))
Caught(s, k, h, path) == h = DefServer /\ path = Root /\ CatchAllsTo(s, k) # {}
ClaimedBy(m, h, path) == UpstreamName(m.paths[First(Claims(m, h, path))].backend)
GrantedTo(s, k, h, path) ==
  IF ~Caught(s, Len(s), h, path) /\ ClaimingTo(s, k, h, path) # {}
  THEN ClaimedBy(s[First(ClaimingTo(s, k, h, path))], h, path) ELSE RootOf(s, Len(s), h)
Apart(s) ==
  \A i, j \in 1 .. Len(s) : ~s[i].canary /\ s[j].canary => NamesOf(s[i]) \cap NamesOf(s[j]) = {}

-----------------------------------------------------------------------------
(* What has been built of it.                                              *)

UpstreamFields == {"service", "noServer", "endpoints", "balance", "policy", "affinity", "paths", "alternatives"}
IsUpstreams(ups) == DefUpstream \in DOMAIN ups /\ \A n \in DOMAIN ups : DOMAIN ups[n] = UpstreamFields

Owned(s, k, n, u) ==
  \/ n = DefUpstream /\ u.noServer = FALSE
  \/ \E i \in 1 .. k : n \in NamesOf(s[i]) /\ u.noServer = s[i].canary
UpsAfter(s, k, ups) ==
  /\ IsUpstreams(ups)
  /\ \A i \in 1 .. k : NamesOf(s[i]) \subseteq DOMAIN ups
  /\ \A n \in DOMAIN ups : Owned(s, k, n, ups[n])
UpsMerged(s, ups) ==
  IsUpstreams(ups) /\ (Apart(s) => \A i \in MainsTo(s, Len(s)) : NamesOf(s[i]) \subseteq DOMAIN ups)

IsLocation(l) ==
  /\ DOMAIN l = {"isDef", "backend", "annotations", "fallbackName"}
  /\ DOMAIN l.annotations = {"errors", "fallback", "other"} /\ l.annotations.fallback \in Services \cup {None}
IsServer(v) ==
  /\ DOMAIN v = {"locations", "cert", "alias", "auth"} /\ Root \in DOMAIN v.locations
  /\ \A p \in DOMAIN v.locations : IsLocation(v.locations[p])
AreServers(servers) == \A h \in DOMAIN servers : IsServer(servers[h])
IsServers(servers) == DefServer \in DOMAIN servers /\ AreServers(servers)
BackendsNamed(servers) ==
  \A h \in DOMAIN servers : \A p \in DOMAIN servers[h].locations : servers[h].locations[p].backend \in UpNames

NoCerts(servers) == \A h \in DOMAIN servers \ {DefServer} : servers[h].cert = None

RootsAre(s, k, servers) ==
  /\ DOMAIN servers = HostsTo(s, k)
  /\ \A h \in DOMAIN servers :
       /\ DOMAIN servers[h].locations = {Root}
       /\ servers[h].locations[Root].isDef = ~Caught(s, k, h, Root)
       /\ servers[h].locations[Root].backend = RootOf(s, k, h)

PathsTo(s, k, h) == {Root} \cup {path \in {PathOf(p) : p \in UNION {ToSet(s[i].paths) : i \in 1 .. k}} : ClaimingTo(s, k, h, path) # {}}
PathsAre(s, k, servers) ==
  /\ DOMAIN servers = HostsTo(s, Len(s))
  /\ \A h \in DOMAIN servers :
       /\ DOMAIN servers[h].locations = PathsTo(s, k, h)
       /\ \A path \in DOMAIN servers[h].locations :
            /\ servers[h].locations[path].isDef = (~Caught(s, Len(s), h, path) /\ ClaimingTo(s, k, h, path) = {})
            /\ servers[h].locations[path].backend = GrantedTo(s, k, h, path)

(* A location that leads to a custom default backend, instead of upstream g. *)
Custom(l, g, ups) == l.annotations.fallback # None /\ l.backend = CustomName(l) /\ Len(ups[g].endpoints) = 0
Located(s, servers, ups) ==
  /\ DOMAIN servers = HostsTo(s, Len(s))
  /\ \A h \in DOMAIN servers :
       /\ DOMAIN servers[h].locations = PathsTo(s, Len(s), h)
       /\ \A path \in DOMAIN servers[h].locations :
            LET g == GrantedTo(s, Len(s), h, path) IN
            g \in DOMAIN ups /\ (servers[h].locations[path].backend = g \/ Custom(servers[h].locations[path], g, ups))
CustomHas(l, custom) ==
  l.backend \in UpNames \/ (l.annotations.fallback # None /\ l.backend = CustomName(l) /\ \E c \in custom : c.name = l.backend)
AllCustom(servers, custom) == \A h \in DOMAIN servers : \A p \in DOMAIN servers[h].locations : CustomHas(servers[h].locations[p], custom)

(* The certificates, after the first k Ingresses.                          *)
WithTLSTo(s, k, h) == {i \in NamingTo(s, k, h) : s[i].tls # <<>>}
CertOf(c, h, m) == CertificateFor(h, TLSSecretName(h, m, c), c)
CertGiven(c, s, k, h) == IF WithTLSTo(s, k, h) = {} THEN None ELSE CertOf(c, h, s[First(WithTLSTo(s, k, h))])
CertsAre(c, s, k, servers) == \A h \in DOMAIN servers \ {DefServer} : servers[h].cert = CertGiven(c, s, k, h)

-----------------------------------------------------------------------------
(* The inductive invariant.                                                *)

JobFields == {"step", "ings", "at", "path", "servers", "upstreams", "custom", "todo"}
Steps == {"idle", "upstreams", "servers", "configure", "locations", "canaries", "backends", "panic"}

ClusterOK ==
  /\ ings \in Seq(Ingresses) /\ Len(ings) <= MaxIngresses /\ changes \in 0 .. MaxChanges
  /\ DOMAIN services = Services /\ DOMAIN certs = Secrets /\ DOMAIN streams = StreamPorts

(* How many paths of a canary the step at k has to merge.                  *)
Merging(s, k) == k < Len(s) /\ s[k + 1].canary /\ \E i \in DOMAIN s : ~s[i].canary
PathsOfCanary(s, k) == IF Merging(s, k) THEN Len(s[k + 1].paths) ELSE 0

(* A job j over the Ingresses s: where it is, ...                          *)
Fits(s, j) ==
  /\ DOMAIN j = JobFields /\ j.step \in Steps
  /\ j.step # "idle" =>
       /\ j.ings = s /\ j.at \in 0 .. Len(s) /\ IsServers(j.servers)
       /\ j.step # "backends" => BackendsNamed(j.servers)
  /\ j.step \notin {"canaries", "panic"} => j.path = 0
  /\ j.step = "canaries" => j.path \in 0 .. PathsOfCanary(s, j.at)

(* ... what it has built, ...                                              *)
Built(s, j) ==
  /\ j.step = "upstreams" => UpsAfter(s, j.at, j.upstreams) /\ RootsAre(s, 0, j.servers)
  /\ j.step \in {"servers", "configure", "locations"} => UpsAfter(s, Len(s), j.upstreams)
  /\ j.step = "servers" => RootsAre(s, j.at, j.servers)
  /\ j.step = "configure" => RootsAre(s, Len(s), j.servers)
  /\ j.step = "locations" /\ Apart(s) => PathsAre(s, j.at, j.servers)
  /\ j.step \in {"canaries", "backends"} => UpsMerged(s, j.upstreams)
  /\ j.step = "canaries" /\ Apart(s) => PathsAre(s, Len(s), j.servers)
  /\ j.step = "backends" /\ Apart(s) => Located(s, j.servers, j.upstreams)
  /\ j.step = "backends" => AllCustom(j.servers, j.custom)

(* ... and which certificates, of c, it has taken.                         *)
Certified(c, s, j) ==
  /\ j.step \in {"upstreams", "servers"} => NoCerts(j.servers)
  /\ j.step = "configure" => CertsAre(c, s, j.at, j.servers)
  /\ j.step \in {"locations", "canaries", "backends"} => CertsAre(c, s, Len(s), j.servers)

JobOK ==
  /\ Fits(ings, job) /\ Built(ings, job) /\ (~due => Certified(certs, ings, job))
  /\ job.step = "idle" => job = NoJob

(* What runs, and what it was built from if there is nothing to do.        *)
StreamFields == {"service", "port", "proxy", "endpoints"}
RunningOK ==
  /\ AreServers(running.servers) /\ AllCustom(running.servers, running.custom)
  /\ \A p \in DOMAIN running.streams : DOMAIN running.streams[p] = StreamFields
  /\ DefServer \in DOMAIN running.servers => WithoutProxy(file) = WithoutProxy(Written(running))
UpToDate ==
  ~due /\ job.step = "idle" =>
    /\ DefServer \in DOMAIN running.servers
    /\ CertsAre(certs, ings, Len(ings), running.servers)
    /\ Apart(ings) => Located(ings, running.servers, running.backends)

IInv == ClusterOK /\ JobOK /\ RunningOK /\ UpToDate

-----------------------------------------------------------------------------
(* Places in lists, and the first of them.                                 *)

(* A set of numbers that is not empty has a smallest one, its first.       *)
LEMMA FirstLeast ==
  ASSUME NEW S \in SUBSET Nat, S # {}
  PROVE  First(S) \in S /\ \A j \in S : First(S) <= j
<1> DEFINE R == {p \in Nat \X Nat : p[1] < p[2]}
<1>1. IsWellFoundedOn(R, Nat)
  BY NatLessThanWellFounded DEF OpToRel
<1>2. PICK x \in S : \A y \in S : ~ (<<y, x>> \in R)
  BY <1>1, WFMin
<1>3. ASSUME NEW y \in S PROVE x <= y
  <2>1. ~ (<<y, x>> \in R) /\ <<y, x>> \in Nat \X Nat
    BY <1>2
  <2>2. ~ (y < x)
    BY <2>1
  <2> QED BY <2>2
<1> QED BY <1>3 DEF First

(* The first place does not change when a later one is added.              *)
LEMMA FirstStays ==
  ASSUME NEW k \in Nat, NEW S \in SUBSET (1 .. k), S # {}
  PROVE  First(S \cup {k + 1}) = First(S)
<1> DEFINE T == S \cup {k + 1}
<1>1. S \in SUBSET Nat /\ T \in SUBSET Nat /\ T # {}
  OBVIOUS
<1>2. First(S) \in S /\ (\A j \in S : First(S) <= j) /\ First(T) \in T /\ (\A j \in T : First(T) <= j)
  BY <1>1, FirstLeast
<1>3. First(S) \in 1 .. k /\ First(S) \in T /\ First(T) \in Nat
  BY <1>1, <1>2
<1>4. First(T) <= First(S)
  BY <1>2, <1>3
<1>5. First(T) \in S
  BY <1>2, <1>3, <1>4
<1> QED
  BY <1>2, <1>3, <1>4, <1>5

(* The first of one place is that place.                                   *)
LEMMA FirstAlone ==
  ASSUME NEW n \in Nat
  PROVE  First({n}) = n
BY FirstLeast

(* Each Ingress is what the API server admits.                             *)
LEMMA IngressFacts ==
  ASSUME NEW m \in Ingresses
  PROVE  /\ IsIngress(m) /\ m.canary \in BOOLEAN /\ m.fallback \in Services \cup {None}
         /\ DOMAIN m.rules \subseteq Nat /\ Len(m.paths) \in Nat /\ DOMAIN m.paths = 1 .. Len(m.paths) /\ DOMAIN m.tls \subseteq Nat
         /\ \A k \in DOMAIN m.paths : m.paths[k] \in ToSet(m.paths) /\ Host(m.paths[k]) \in HostsOf(m)
                                      /\ UpstreamName(m.paths[k].backend) \in NamesOf(m)
         /\ NamesOf(m) \subseteq UpNames /\ DefUpstream \notin NamesOf(m)
         /\ m.backend # None => UpstreamName(m.backend) \in NamesOf(m)
<1>1. IsIngress(m)
  BY IngressAssumption DEF Ingresses
<1>2. DOMAIN m.rules \subseteq Nat /\ Len(m.paths) \in Nat /\ DOMAIN m.paths = 1 .. Len(m.paths) /\ DOMAIN m.tls \subseteq Nat
  BY <1>1 DEF IsIngress
<1>3. \A k \in DOMAIN m.paths : m.paths[k] \in ToSet(m.paths)
  BY DEF ToSet
<1>4. \A n \in NamesOf(m) : \E b \in DOMAIN Names : n = UpstreamName(b)
  BY <1>1 DEF NamesOf, IsIngress
<1>5. NamesOf(m) \subseteq UpNames /\ DefUpstream \notin NamesOf(m)
  BY <1>4, NamesAssumption DEF UpNames, UpstreamName
<1> QED
  BY <1>1, <1>2, <1>3, <1>5 DEF IsIngress, NamesOf

(* The Ingresses of a list, one after the other.                           *)
LEMMA IngressAt ==
  ASSUME NEW s \in Seq(Ingresses), NEW i \in 1 .. Len(s)
  PROVE  s[i] \in Ingresses
OBVIOUS

(* What one Ingress more calls for.                                        *)
LEMMA OneMore ==
  ASSUME NEW s \in Seq(Ingresses), NEW k \in 0 .. Len(s) - 1
  PROVE  /\ k \in Nat /\ k + 1 \in 1 .. Len(s) /\ s[k + 1] \in Ingresses /\ 1 .. k + 1 = (1 .. k) \cup {k + 1}
         /\ MainsTo(s, k) \subseteq 1 .. k
         /\ MainsTo(s, k + 1) = MainsTo(s, k) \cup {i \in {k + 1} : ~s[i].canary}
<1>1. k \in Nat /\ k + 1 \in 1 .. Len(s) /\ s[k + 1] \in Ingresses
  BY Z3
<1>2. 1 .. k + 1 = (1 .. k) \cup {k + 1}
  BY <1>1
<1> QED
  BY <1>1, <1>2 DEF MainsTo

(* ... its hosts, unless it is a canary, ...                               *)
LEMMA HostsGrow ==
  ASSUME NEW s \in Seq(Ingresses), NEW k \in 0 .. Len(s) - 1
  PROVE  HostsTo(s, k + 1) = IF s[k + 1].canary THEN HostsTo(s, k) ELSE HostsTo(s, k) \cup HostsOf(s[k + 1])
BY OneMore DEF HostsTo

(* ... its place among the Ingresses that name a host, ...                 *)
LEMMA NamingGrows ==
  ASSUME NEW s \in Seq(Ingresses), NEW k \in 0 .. Len(s) - 1, NEW h
  PROVE  /\ NamingTo(s, k, h) \subseteq 1 .. k
         /\ NamingTo(s, k + 1, h) = IF ~s[k + 1].canary /\ h \in HostsOf(s[k + 1])
                                    THEN NamingTo(s, k, h) \cup {k + 1} ELSE NamingTo(s, k, h)
BY OneMore DEF NamingTo

(* ... and among those that claim a path, ...                              *)
LEMMA ClaimingGrows ==
  ASSUME NEW s \in Seq(Ingresses), NEW k \in 0 .. Len(s) - 1, NEW h, NEW path
  PROVE  /\ ClaimingTo(s, k, h, path) \subseteq 1 .. k
         /\ ClaimingTo(s, k + 1, h, path) = IF ~s[k + 1].canary /\ Claims(s[k + 1], h, path) # {}
                                            THEN ClaimingTo(s, k, h, path) \cup {k + 1} ELSE ClaimingTo(s, k, h, path)
<1> DEFINE C == {i \in Nat : Claims(s[i], h, path) # {}}
<1>1. ClaimingTo(s, k, h, path) = MainsTo(s, k) \cap C /\ ClaimingTo(s, k + 1, h, path) = MainsTo(s, k + 1) \cap C
  BY DEF ClaimingTo, MainsTo
<1>2. k + 1 \in C <=> Claims(s[k + 1], h, path) # {}
  BY OneMore
<1> HIDE DEF C
<1>3. /\ MainsTo(s, k) \subseteq 1 .. k
      /\ MainsTo(s, k + 1) = MainsTo(s, k) \cup {i \in {k + 1} : ~s[i].canary}
  BY OneMore
<1>4. MainsTo(s, k + 1) = IF s[k + 1].canary THEN MainsTo(s, k) ELSE MainsTo(s, k) \cup {k + 1}
  BY <1>3
<1> QED
  BY <1>1, <1>2, <1>3, <1>4

(* ... and among the catch-alls.                                           *)
LEMMA CatchAllsGrow ==
  ASSUME NEW s \in Seq(Ingresses), NEW k \in 0 .. Len(s) - 1
  PROVE  /\ CatchAllsTo(s, k) \subseteq 1 .. k
         /\ CatchAllsTo(s, k + 1) = IF ~s[k + 1].canary /\ s[k + 1].backend # None /\ s[k + 1].rules = <<>>
                                    THEN CatchAllsTo(s, k) \cup {k + 1} ELSE CatchAllsTo(s, k)
BY OneMore DEF CatchAllsTo

BackendOf(m) == IF m.backend = None THEN DefUpstream ELSE UpstreamName(m.backend)

(* The default backend is that of the oldest.                              *)
LEMMA DefaultGrows ==
  ASSUME NEW s, NEW k \in Nat, NEW S \in SUBSET (1 .. k)
  PROVE  DefaultIn(s, S \cup {k + 1}) = IF S = {} THEN BackendOf(s[k + 1]) ELSE DefaultIn(s, S)
<1>1. CASE S = {}
  <2>1. S \cup {k + 1} = {k + 1} /\ First({k + 1}) = k + 1
    BY <1>1, FirstAlone
  <2> QED BY <1>1, <2>1 DEF DefaultIn, BackendOf
<1>2. CASE S # {}
  BY <1>2, FirstStays DEF DefaultIn
<1> QED BY <1>1, <1>2

(* Before the first Ingress nothing is called for.                         *)
LEMMA NoneYet ==
  ASSUME NEW s
  PROVE  /\ MainsTo(s, 0) = {} /\ HostsTo(s, 0) = {DefServer} /\ CatchAllsTo(s, 0) = {}
         /\ \A h : NamingTo(s, 0, h) = {} /\ RootOf(s, 0, h) = DefUpstream
         /\ \A h, path : ClaimingTo(s, 0, h, path) = {}
<1>1. 1 .. 0 = {}
  OBVIOUS
<1>2. MainsTo(s, 0) = {}
  BY <1>1 DEF MainsTo
<1>3. CatchAllsTo(s, 0) = {} /\ \A h : NamingTo(s, 0, h) = {}
  BY <1>2 DEF CatchAllsTo, NamingTo
<1> QED
  BY <1>2, <1>3 DEF HostsTo, ClaimingTo, RootOf, DefaultIn

-----------------------------------------------------------------------------
(* Upstreams.                                                              *)

(* An upstream has a server unless it is made for a canary.                *)
LEMMA UpstreamShape ==
  /\ DOMAIN DefaultUpstream = UpstreamFields /\ DefaultUpstream.noServer = FALSE
  /\ \A ing, b, absent : DOMAIN UpstreamOf(ing, b, absent) = UpstreamFields /\ UpstreamOf(ing, b, absent).noServer = ing.canary
<1>1. DOMAIN NewUpstream = UpstreamFields /\ NewUpstream.noServer = FALSE
  BY DEF NewUpstream, UpstreamFields
<1>2. DOMAIN DefaultUpstream = UpstreamFields /\ DefaultUpstream.noServer = FALSE
  BY DEF DefaultUpstream, NewUpstream, UpstreamFields
<1>3. ASSUME NEW ing, NEW b, NEW absent
      PROVE  DOMAIN UpstreamOf(ing, b, absent) = UpstreamFields /\ UpstreamOf(ing, b, absent).noServer = ing.canary
  BY DEF UpstreamOf, NewUpstream, UpstreamFields
<1> QED
  BY <1>2, <1>3

(* In the beginning there is the default upstream.                         *)
LEMMA UpstreamsBegin ==
  ASSUME NEW s
  PROVE  UpsAfter(s, 0, [n \in {DefUpstream} |-> DefaultUpstream])
<1> DEFINE ups == [n \in {DefUpstream} |-> DefaultUpstream]
<1>1. DOMAIN ups = {DefUpstream} /\ ups[DefUpstream] = DefaultUpstream
  OBVIOUS
<1> HIDE DEF ups
<1> QED
  BY <1>1, UpstreamShape DEF UpsAfter, IsUpstreams, Owned, ups

(* What AddBackend and AddUpstreams do to each upstream.                   *)
LEMMA BackendAdded ==
  ASSUME NEW m \in Ingresses, NEW ups
  PROVE  /\ DOMAIN AddBackend(ups, m) = DOMAIN ups \cup {UpstreamName(b) : b \in {m.backend} \ {None}}
         /\ \A n \in DOMAIN AddBackend(ups, m) :
              \/ n \in DOMAIN ups /\ AddBackend(ups, m)[n] = ups[n]
              \/ /\ n \in NamesOf(m) /\ DOMAIN AddBackend(ups, m)[n] = UpstreamFields
                 /\ AddBackend(ups, m)[n].noServer = m.canary
<1>1. CASE m.backend = None
  BY <1>1 DEF AddBackend
<1>2. CASE m.backend # None
  <2> DEFINE b == UpstreamName(m.backend)
             u == UpstreamOf(m, m.backend, None)
  <2>1. AddBackend(ups, m) = Put(ups, b, u)
    BY <1>2 DEF AddBackend
  <2>2. DOMAIN u = UpstreamFields /\ u.noServer = m.canary
    BY UpstreamShape
  <2>3. b \in NamesOf(m) /\ {UpstreamName(c) : c \in {m.backend} \ {None}} = {b}
    BY <1>2 DEF NamesOf
  <2> HIDE DEF b, u
  <2> QED
    BY <2>1, <2>2, <2>3 DEF Put
<1> QED
  BY <1>1, <1>2

(* ... and after both each upstream of the Ingress is there, old ones as   *)
(* they were.                                                              *)
LEMMA UpstreamsOfOne ==
  ASSUME NEW m \in Ingresses, NEW ups
  PROVE  /\ DOMAIN AddUpstreams(ups, m) = DOMAIN ups \cup NamesOf(m)
         /\ \A n \in DOMAIN AddUpstreams(ups, m) :
              \/ n \in DOMAIN ups /\ AddUpstreams(ups, m)[n] = ups[n]
              \/ /\ n \in NamesOf(m) /\ DOMAIN AddUpstreams(ups, m)[n] = UpstreamFields
                 /\ AddUpstreams(ups, m)[n].noServer = m.canary
<1> DEFINE made == AddBackend(ups, m)
           paths == {UpstreamName(p.backend) : p \in ToSet(m.paths)}
           own == {UpstreamName(b) : b \in {m.backend} \ {None}}
           all == AddUpstreams(ups, m)
<1>1. DOMAIN made = DOMAIN ups \cup own
  BY BackendAdded
<1>2. NamesOf(m) = paths \cup own
  BY DEF NamesOf
<1>3. ASSUME NEW n \in DOMAIN made
      PROVE  \/ n \in DOMAIN ups /\ made[n] = ups[n]
             \/ n \in NamesOf(m) /\ DOMAIN made[n] = UpstreamFields /\ made[n].noServer = m.canary
  BY <1>3, BackendAdded
<1>4. DOMAIN all = DOMAIN made \cup paths
  BY DEF AddUpstreams
<1>5. ASSUME NEW n \in DOMAIN all, n \in DOMAIN made PROVE all[n] = made[n]
  BY <1>5 DEF AddUpstreams
<1>6. ASSUME NEW n \in DOMAIN all, n \notin DOMAIN made PROVE \E b : all[n] = UpstreamOf(m, b, "")
  BY <1>6 DEF AddUpstreams
<1> HIDE DEF made, paths, own, all
<1>7. ASSUME NEW n \in DOMAIN all, n \notin DOMAIN made
      PROVE  n \in NamesOf(m) /\ DOMAIN all[n] = UpstreamFields /\ all[n].noServer = m.canary
  BY <1>2, <1>4, <1>6, <1>7, UpstreamShape
<1>8. DOMAIN all = DOMAIN ups \cup NamesOf(m)
  BY <1>1, <1>2, <1>4
<1>9. \A n \in DOMAIN all :
        \/ n \in DOMAIN ups /\ all[n] = ups[n]
        \/ n \in NamesOf(m) /\ DOMAIN all[n] = UpstreamFields /\ all[n].noServer = m.canary
  BY <1>3, <1>5, <1>7
<1> QED
  BY <1>8, <1>9 DEF all

(* createUpstreams goes on with the next Ingress.                          *)
LEMMA UpstreamsAdded ==
  ASSUME NEW s \in Seq(Ingresses), NEW k \in 0 .. Len(s) - 1, NEW ups, UpsAfter(s, k, ups)
  PROVE  UpsAfter(s, k + 1, AddUpstreams(ups, s[k + 1]))
<1> DEFINE m == s[k + 1]
           all == AddUpstreams(ups, m)
<1>1. k \in Nat /\ m \in Ingresses /\ 1 .. k + 1 = (1 .. k) \cup {k + 1}
  BY OneMore
<1>2. DOMAIN all = DOMAIN ups \cup NamesOf(m)
  BY <1>1, UpstreamsOfOne
<1>3. ASSUME NEW n \in DOMAIN all
      PROVE  \/ n \in DOMAIN ups /\ all[n] = ups[n]
             \/ n \in NamesOf(m) /\ DOMAIN all[n] = UpstreamFields /\ all[n].noServer = m.canary
  BY <1>1, UpstreamsOfOne
<1> HIDE DEF all
<1>4. IsUpstreams(all)
  BY <1>2, <1>3 DEF UpsAfter, IsUpstreams
<1>5. \A i \in 1 .. k + 1 : NamesOf(s[i]) \subseteq DOMAIN all
  BY <1>1, <1>2 DEF UpsAfter
<1>6. ASSUME NEW n \in DOMAIN all PROVE Owned(s, k + 1, n, all[n])
  <2>1. CASE n \in DOMAIN ups /\ all[n] = ups[n]
    BY <1>1, <2>1 DEF UpsAfter, Owned
  <2>2. CASE n \in NamesOf(m) /\ all[n].noServer = m.canary
    BY <1>1, <2>2 DEF Owned
  <2> QED
    BY <1>3, <2>1, <2>2
<1> QED
  BY <1>4, <1>5, <1>6 DEF UpsAfter, all

(* The session affinity leaves them as they are otherwise.                 *)
LEMMA AffinityAdded ==
  ASSUME NEW s, NEW k, NEW ups, UpsAfter(s, k, ups), NEW m
  PROVE  UpsAfter(s, k, AddAffinity(ups, m))
<1> DEFINE all == AddAffinity(ups, m)
<1>1. DOMAIN all = DOMAIN ups
  BY DEF AddAffinity
<1>2. ASSUME NEW n \in DOMAIN ups PROVE all[n] = ups[n] \/ \E c : all[n] = [ups[n] EXCEPT !.affinity = TRUE, !.paths = c]
  BY DEF AddAffinity
<1>3. ASSUME NEW n \in DOMAIN ups PROVE DOMAIN all[n] = UpstreamFields /\ all[n].noServer = ups[n].noServer
  <2>1. DOMAIN ups[n] = UpstreamFields
    BY DEF UpsAfter, IsUpstreams
  <2> QED
    BY <1>2, <2>1 DEF UpstreamFields
<1> HIDE DEF all
<1> QED
  BY <1>1, <1>3 DEF UpsAfter, IsUpstreams, Owned, all

(* The upstream of a path has a server if its Ingress is no canary, when   *)
(* canaries are apart.                                                     *)
LEMMA ServerOfPath ==
  ASSUME NEW s \in Seq(Ingresses), Apart(s), NEW ups, UpsAfter(s, Len(s), ups), NEW i \in 1 .. Len(s), NEW n \in NamesOf(s[i])
  PROVE  n \in DOMAIN ups /\ (HasServer(ups[n]) <=> ~s[i].canary)
<1>1. n \in DOMAIN ups /\ Owned(s, Len(s), n, ups[n])
  BY DEF UpsAfter
<1>2. s[i] \in Ingresses /\ s[i].canary \in BOOLEAN /\ n # DefUpstream
  BY IngressAt, IngressFacts
<1>3. PICK j \in 1 .. Len(s) : n \in NamesOf(s[j]) /\ ups[n].noServer = s[j].canary
  BY <1>1, <1>2 DEF Owned
<1>4. s[j].canary \in BOOLEAN
  BY IngressAt, IngressFacts
<1>5. s[i].canary = s[j].canary
  BY <1>2, <1>3, <1>4 DEF Apart
<1> QED
  BY <1>1, <1>3, <1>5 DEF HasServer

(* When the loops end, each Ingress has its upstreams.                     *)
LEMMA UpstreamsEnd ==
  ASSUME NEW s, NEW ups, UpsAfter(s, Len(s), ups)
  PROVE  UpsMerged(s, ups)
BY DEF UpsAfter, UpsMerged, MainsTo

-----------------------------------------------------------------------------
(* Canaries.                                                               *)

(* A merge deletes the alternative backend or none.                        *)
LEMMA MergeOne ==
  ASSUME NEW ups, IsUpstreams(ups), NEW alt, alt # DefUpstream, NEW locations, NEW matching,
         Merge(ups, alt, locations, matching) # None
  PROVE  /\ IsUpstreams(Merge(ups, alt, locations, matching))
         /\ DOMAIN ups \ {alt} \subseteq DOMAIN Merge(ups, alt, locations, matching)
<1> DEFINE merged == {b \in {locations[p].backend : p \in matching} : CanMerge(ups, b, alt)}
           all == [u \in DOMAIN ups |-> IF u \in merged THEN [ups[u] EXCEPT !.alternatives = @ \cup {alt}] ELSE ups[u]]
<1>1. Merge(ups, alt, locations, matching) \in {Drop(ups, alt), all}
  BY DEF Merge
<1>2. IsUpstreams(Drop(ups, alt)) /\ DOMAIN ups \ {alt} \subseteq DOMAIN Drop(ups, alt)
  BY DEF Drop, IsUpstreams
<1>3. DOMAIN all = DOMAIN ups
  OBVIOUS
<1>4. ASSUME NEW u \in DOMAIN ups PROVE DOMAIN all[u] = UpstreamFields
  BY DEF IsUpstreams
<1> HIDE DEF all
<1>5. IsUpstreams(all)
  BY <1>3, <1>4 DEF IsUpstreams
<1> QED
  BY <1>1, <1>2, <1>3, <1>5

(* A canary deletes no upstream that another Ingress names.                *)
LEMMA Merged ==
  ASSUME NEW s \in Seq(Ingresses), NEW i \in 1 .. Len(s), s[i].canary,
         NEW k \in 0 .. Len(s[i].paths), NEW servers, NEW ups, UpsMerged(s, ups),
         MergeAlternative(servers, ups, s[i], k) # None
  PROVE  UpsMerged(s, MergeAlternative(servers, ups, s[i], k))
<1> DEFINE m == s[i]
           r == MergeAlternative(servers, ups, m, k)
<1>1. m \in Ingresses
  BY IngressAt
<1>2. \/ r = ups
      \/ \E alt \in NamesOf(m) : \E locations, matching : r = Merge(ups, alt, locations, matching)
  <2>1. CASE k = 0
    <3>1. r = MergeBackend(servers, ups, m)
      BY <2>1 DEF MergeAlternative
    <3> QED
      BY <1>1, <3>1, IngressFacts DEF MergeBackend
  <2>2. CASE k # 0
    <3> DEFINE p == m.paths[k]
    <3>1. r = MergePath(servers, ups, p)
      BY <2>2 DEF MergeAlternative
    <3>2. k \in DOMAIN m.paths /\ UpstreamName(p.backend) \in NamesOf(m)
      BY <1>1, <2>2, IngressFacts
    <3> HIDE DEF p
    <3> QED
      BY <3>1, <3>2 DEF MergePath
  <2> QED BY <2>1, <2>2
<1>3. CASE r = ups
  BY <1>3
<1>4. ASSUME NEW alt \in NamesOf(m), NEW locations, NEW matching, r = Merge(ups, alt, locations, matching)
      PROVE  UpsMerged(s, r)
  <2>1. alt # DefUpstream
    BY <1>1, IngressFacts
  <2>2. r # None
    OBVIOUS
  <2> HIDE DEF r
  <2>3. IsUpstreams(r) /\ DOMAIN ups \ {alt} \subseteq DOMAIN r
    BY <1>4, <2>1, <2>2, MergeOne DEF UpsMerged
  <2>4. ASSUME Apart(s), NEW j \in MainsTo(s, Len(s)) PROVE NamesOf(s[j]) \subseteq DOMAIN r
    <3>1. alt \notin NamesOf(s[j])
      BY <1>4, <2>4 DEF Apart, MainsTo
    <3>2. NamesOf(s[j]) \subseteq DOMAIN ups
      BY <2>4 DEF UpsMerged
    <3> QED
      BY <2>3, <3>1, <3>2
  <2> QED
    BY <2>3, <2>4 DEF UpsMerged
<1> QED
  BY <1>2, <1>3, <1>4

-----------------------------------------------------------------------------
(* Servers.                                                                *)

(* A location that is made for an Ingress.                                 *)
LEMMA LocationMade ==
  ASSUME NEW isDef, NEW backend, NEW annotations, DOMAIN annotations = {"errors", "fallback", "other"},
         annotations.fallback \in Services \cup {None}
  PROVE  /\ IsLocation(Location(isDef, backend, annotations))
         /\ Location(isDef, backend, annotations).isDef = isDef
         /\ Location(isDef, backend, annotations).backend = backend
BY DEF Location, IsLocation

(* What a location takes from the annotations.                             *)
LEMMA AnnotationsMade ==
  ASSUME NEW m \in Ingresses
  PROVE  DOMAIN Annotations(m) = {"errors", "fallback", "other"} /\ Annotations(m).fallback \in Services \cup {None}
BY IngressFacts DEF Annotations

(* A server that is made with a root location.                             *)
LEMMA ServerMade ==
  ASSUME NEW l, IsLocation(l), NEW cert
  PROVE  /\ IsServer(Server(l, cert)) /\ DOMAIN Server(l, cert).locations = {Root}
         /\ Server(l, cert).locations[Root] = l /\ Server(l, cert).cert = cert
BY DEF Server, IsServer

(* In the beginning there is the default server.                           *)
LEMMA ServersBegin ==
  ASSUME NEW s
  PROVE  /\ IsServers(DefaultServers) /\ BackendsNamed(DefaultServers) /\ NoCerts(DefaultServers)
         /\ RootsAre(s, 0, DefaultServers)
<1> DEFINE none == [errors |-> FALSE, fallback |-> None, other |-> None]
           l == Location(TRUE, DefUpstream, none)
           v == Server(l, DefaultCertificate)
<1>0. DOMAIN none = {"errors", "fallback", "other"} /\ none.fallback \in Services \cup {None}
  OBVIOUS
<1>1. IsLocation(l) /\ l.isDef = TRUE /\ l.backend = DefUpstream
  <2> HIDE DEF none
  <2> QED BY <1>0 DEF Location, IsLocation
<1>2. DefaultServers = [h \in {DefServer} |-> v]
  BY DEF DefaultServers
<1> HIDE DEF l
<1>3. IsServer(v) /\ DOMAIN v.locations = {Root} /\ v.locations[Root] = l
  BY <1>1, ServerMade
<1> HIDE DEF v
<1>4. DOMAIN DefaultServers = {DefServer} /\ DefaultServers[DefServer] = v
  BY <1>2
<1>5. IsServers(DefaultServers) /\ BackendsNamed(DefaultServers) /\ NoCerts(DefaultServers)
  BY <1>1, <1>3, <1>4 DEF IsServers, AreServers, BackendsNamed, NoCerts, UpNames
<1>6. HostsTo(s, 0) = {DefServer} /\ RootOf(s, 0, DefServer) = DefUpstream /\ Caught(s, 0, DefServer, Root) = FALSE
  BY NoneYet DEF Caught
<1>7. RootsAre(s, 0, DefaultServers)
  BY <1>1, <1>3, <1>4, <1>6 DEF RootsAre
<1> QED
  BY <1>5, <1>7

CatchesAll(m) == ~m.canary /\ m.backend # None /\ m.rules = <<>>

(* What the default location of a server becomes with one Ingress more.    *)
LEMMA RootsGrow ==
  ASSUME NEW s \in Seq(Ingresses), NEW k \in 0 .. Len(s) - 1, NEW h
  PROVE  /\ h # DefServer /\ h \in HostsTo(s, k) => RootOf(s, k + 1, h) = RootOf(s, k, h)
         /\ h # DefServer /\ h \notin HostsTo(s, k) /\ h \in HostsOf(s[k + 1]) /\ ~s[k + 1].canary =>
              RootOf(s, k + 1, h) = BackendOf(s[k + 1])
         /\ h = DefServer => RootOf(s, k + 1, h) = IF CatchesAll(s[k + 1]) /\ CatchAllsTo(s, k) = {}
                                                   THEN BackendOf(s[k + 1]) ELSE RootOf(s, k, h)
         /\ (CatchAllsTo(s, k + 1) # {}) = (CatchAllsTo(s, k) # {} \/ CatchesAll(s[k + 1]))
<1> DEFINE N == NamingTo(s, k, h)
           C == CatchAllsTo(s, k)
           m == s[k + 1]
<1>1. k \in Nat
  BY OneMore
<1>2. N \subseteq 1 .. k /\ NamingTo(s, k + 1, h) = IF ~m.canary /\ h \in HostsOf(m) THEN N \cup {k + 1} ELSE N
  BY NamingGrows
<1>3. C \subseteq 1 .. k /\ CatchAllsTo(s, k + 1) = IF CatchesAll(m) THEN C \cup {k + 1} ELSE C
  BY CatchAllsGrow DEF CatchesAll
<1>4. h # DefServer => (h \in HostsTo(s, k) <=> N # {})
  BY DEF HostsTo, NamingTo
<1>5. DefaultIn(s, N \cup {k + 1}) = IF N = {} THEN BackendOf(m) ELSE DefaultIn(s, N)
  <2> HIDE DEF N
  <2> QED BY <1>1, <1>2, DefaultGrows
<1>6. DefaultIn(s, C \cup {k + 1}) = IF C = {} THEN BackendOf(m) ELSE DefaultIn(s, C)
  <2> HIDE DEF C
  <2> QED BY <1>1, <1>3, DefaultGrows
<1>7. RootOf(s, k, h) = (IF h = DefServer THEN DefaultIn(s, C) ELSE DefaultIn(s, N))
  BY DEF RootOf
<1>8. RootOf(s, k + 1, h) = (IF h = DefServer THEN DefaultIn(s, CatchAllsTo(s, k + 1)) ELSE DefaultIn(s, NamingTo(s, k + 1, h)))
  BY DEF RootOf
<1> HIDE DEF N, C, m
<1>9. (CatchAllsTo(s, k + 1) # {}) = (C # {} \/ CatchesAll(m))
  BY <1>3
<1>10. h # DefServer /\ h \in HostsTo(s, k) => RootOf(s, k + 1, h) = RootOf(s, k, h)
  <2> SUFFICES ASSUME N # {}, h # DefServer PROVE RootOf(s, k + 1, h) = RootOf(s, k, h)
    BY <1>4
  <2>1. NamingTo(s, k + 1, h) \in {N, N \cup {k + 1}}
    BY <1>2
  <2>2. DefaultIn(s, NamingTo(s, k + 1, h)) = DefaultIn(s, N)
    BY <1>5, <2>1
  <2> QED BY <1>7, <1>8, <2>2
<1>11. h # DefServer /\ h \notin HostsTo(s, k) /\ h \in HostsOf(m) /\ ~m.canary => RootOf(s, k + 1, h) = BackendOf(m)
  BY <1>2, <1>4, <1>5, <1>8
<1>12. h = DefServer => RootOf(s, k + 1, h) = IF CatchesAll(m) /\ C = {} THEN BackendOf(m) ELSE RootOf(s, k, h)
  BY <1>3, <1>6, <1>7, <1>8
<1> QED
  BY <1>9, <1>10, <1>11, <1>12 DEF C, m

(* createServers, its first loop, passes a canary.                         *)
LEMMA RootsOfCanary ==
  ASSUME NEW s \in Seq(Ingresses), NEW k \in 0 .. Len(s) - 1, s[k + 1].canary, NEW servers, RootsAre(s, k, servers)
  PROVE  RootsAre(s, k + 1, servers)
<1>1. HostsTo(s, k + 1) = HostsTo(s, k)
  BY HostsGrow
<1>2. CatchAllsTo(s, k + 1) = CatchAllsTo(s, k) /\ \A h : NamingTo(s, k + 1, h) = NamingTo(s, k, h)
  BY CatchAllsGrow, NamingGrows
<1>3. \A h : RootOf(s, k + 1, h) = RootOf(s, k, h) /\ Caught(s, k + 1, h, Root) = Caught(s, k, h, Root)
  BY <1>2 DEF RootOf, Caught
<1> QED
  BY <1>1, <1>3 DEF RootsAre

(* ... and takes the hosts of any other Ingress.                           *)
LEMMA ServersAdded ==
  ASSUME NEW s \in Seq(Ingresses), NEW k \in 0 .. Len(s) - 1, ~s[k + 1].canary,
         NEW servers, IsServers(servers), BackendsNamed(servers), RootsAre(s, k, servers)
  PROVE  /\ IsServers(AddServers(servers, s[k + 1])) /\ BackendsNamed(AddServers(servers, s[k + 1]))
         /\ RootsAre(s, k + 1, AddServers(servers, s[k + 1]))
         /\ NoCerts(servers) => NoCerts(AddServers(servers, s[k + 1]))
<1> DEFINE m == s[k + 1]
           b == BackendOf(m)
           r == AddServers(servers, m)
           fresh == Location(TRUE, b, Annotations(m))
           ann == [errors |-> FALSE, fallback |-> None, other |-> m.other]
           root == Location(FALSE, b, ann)
           old == servers[DefServer]
           catchAll == m.backend # None /\ m.rules = <<>> /\ old.locations[Root].isDef
           new == [old EXCEPT !.locations = Put(@, Root, root)]
<1>1. m \in Ingresses
  BY OneMore
<1>2. b \in UpNames
  BY <1>1, IngressFacts DEF BackendOf, UpNames
<1>3. IsLocation(fresh) /\ fresh.isDef = TRUE /\ fresh.backend = b
  BY <1>1, AnnotationsMade, LocationMade
<1>4. IsLocation(root) /\ root.isDef = FALSE /\ root.backend = b
  <2>1. DOMAIN ann = {"errors", "fallback", "other"} /\ ann.fallback \in Services \cup {None}
    OBVIOUS
  <2> HIDE DEF ann
  <2> QED BY <2>1 DEF Location, IsLocation
<1>5. /\ DOMAIN r = DOMAIN servers \cup HostsOf(m)
      /\ \A h \in DOMAIN r : r[h] = IF h \notin DOMAIN servers THEN Server(fresh, None)
                                    ELSE IF h = DefServer /\ catchAll THEN new ELSE servers[h]
  BY DEF AddServers, BackendOf
<1>6. DefServer \in DOMAIN servers /\ IsServer(old) /\ DOMAIN old.locations = {Root}
  BY DEF IsServers, AreServers, RootsAre
<1>7. /\ IsServer(new) /\ DOMAIN new.locations = {Root} /\ new.locations[Root] = root
  <2> HIDE DEF root
  <2>1. DOMAIN Put(old.locations, Root, root) = {Root} /\ Put(old.locations, Root, root)[Root] = root
    BY <1>6 DEF Put
  <2>2. DOMAIN new = DOMAIN old /\ new.locations = Put(old.locations, Root, root)
    BY <1>6 DEF IsServer
  <2> HIDE DEF new
  <2> QED BY <1>4, <1>6, <2>1, <2>2 DEF IsServer
<1>8. /\ IsServer(Server(fresh, None)) /\ DOMAIN Server(fresh, None).locations = {Root}
      /\ Server(fresh, None).locations[Root] = fresh /\ Server(fresh, None).cert = None
  <2> HIDE DEF fresh
  <2> QED BY <1>3, ServerMade
<1>9. old.locations[Root].isDef = (CatchAllsTo(s, k) = {})
  BY <1>6 DEF RootsAre, Caught
<1>10. catchAll = (CatchesAll(m) /\ CatchAllsTo(s, k) = {})
  BY <1>9 DEF CatchesAll
<1> HIDE DEF m, b, r, fresh, root, old, catchAll, new
<1>11. ASSUME NEW h \in DOMAIN r
       PROVE  /\ IsServer(r[h]) /\ DOMAIN r[h].locations = {Root} /\ r[h].locations[Root].backend \in UpNames
              /\ r[h].locations[Root].isDef = ~Caught(s, k + 1, h, Root)
              /\ r[h].locations[Root].backend = RootOf(s, k + 1, h)
              /\ h # DefServer => r[h].cert = None \/ (h \in DOMAIN servers /\ r[h] = servers[h])
  <2>1. CASE h \notin DOMAIN servers
    <3>1. r[h] = Server(fresh, None) /\ h # DefServer /\ h \in HostsOf(m) /\ h \notin HostsTo(s, k)
      BY <1>5, <1>6, <2>1 DEF RootsAre
    <3>2. RootOf(s, k + 1, h) = b /\ ~Caught(s, k + 1, h, Root)
      BY <3>1, RootsGrow DEF Caught, b, m
    <3> QED BY <1>2, <1>3, <1>8, <3>1, <3>2
  <2>2. CASE h \in DOMAIN servers /\ h # DefServer
    <3>1. r[h] = servers[h] /\ h \in HostsTo(s, k)
      BY <1>5, <2>2 DEF RootsAre
    <3>2. RootOf(s, k + 1, h) = RootOf(s, k, h) /\ ~Caught(s, k + 1, h, Root) /\ ~Caught(s, k, h, Root)
      BY <2>2, <3>1, RootsGrow DEF Caught
    <3>3. IsServer(servers[h]) /\ servers[h].locations[Root].backend \in UpNames
      BY <2>2 DEF IsServers, AreServers, BackendsNamed, IsServer
    <3> QED BY <2>2, <3>1, <3>2, <3>3 DEF RootsAre
  <2>3. CASE h = DefServer /\ catchAll
    <3>1. r[h] = new
      BY <1>5, <1>6, <2>3
    <3>2. RootOf(s, k + 1, h) = b /\ Caught(s, k + 1, h, Root)
      BY <1>10, <2>3, RootsGrow DEF Caught, b, m
    <3> QED BY <1>2, <1>4, <1>7, <2>3, <3>1, <3>2
  <2>4. CASE h = DefServer /\ ~catchAll
    <3>1. r[h] = servers[h] /\ h \in DOMAIN servers
      BY <1>5, <1>6, <2>4
    <3>2. RootOf(s, k + 1, h) = RootOf(s, k, h) /\ Caught(s, k + 1, h, Root) = Caught(s, k, h, Root)
      BY <1>10, <2>4, RootsGrow DEF Caught, m
    <3>3. IsServer(servers[h]) /\ servers[h].locations[Root].backend \in UpNames
      BY <3>1 DEF IsServers, AreServers, BackendsNamed, IsServer
    <3> QED BY <2>4, <3>1, <3>2, <3>3 DEF RootsAre
  <2> QED BY <2>1, <2>2, <2>3, <2>4
<1>12. DOMAIN r = HostsTo(s, k + 1) /\ DefServer \in DOMAIN r
  BY <1>5, <1>6, HostsGrow DEF RootsAre, m
<1>13. IsServers(r) /\ BackendsNamed(r)
  BY <1>11, <1>12 DEF IsServers, AreServers, BackendsNamed
<1>14. RootsAre(s, k + 1, r)
  BY <1>11, <1>12 DEF RootsAre
<1>15. NoCerts(servers) => NoCerts(r)
  BY <1>11 DEF NoCerts
<1> QED
  BY <1>13, <1>14, <1>15 DEF r, m

(* Steps that leave the locations alone, and those that leave certificates *)
(* alone.                                                                  *)
SameLocations(servers, r) ==
  /\ DOMAIN r = DOMAIN servers
  /\ \A h \in DOMAIN servers : DOMAIN r[h] = DOMAIN servers[h] /\ r[h].locations = servers[h].locations
SameCerts(servers, r) == DOMAIN r = DOMAIN servers /\ \A h \in DOMAIN servers : r[h].cert = servers[h].cert

(* The locations stay what the Ingresses call for.                         *)
LEMMA LocationsStay ==
  ASSUME NEW servers, NEW r, SameLocations(servers, r), IsServers(servers), BackendsNamed(servers)
  PROVE  /\ IsServers(r) /\ BackendsNamed(r)
         /\ \A s, k : RootsAre(s, k, servers) => RootsAre(s, k, r)
         /\ \A s, k : PathsAre(s, k, servers) => PathsAre(s, k, r)
<1>1. IsServers(r)
  BY DEF SameLocations, IsServers, AreServers, IsServer
<1>2. BackendsNamed(r)
  BY DEF SameLocations, BackendsNamed
<1>3. ASSUME NEW s, NEW k, RootsAre(s, k, servers) PROVE RootsAre(s, k, r)
  BY <1>3 DEF SameLocations, RootsAre
<1>4. ASSUME NEW s, NEW k, PathsAre(s, k, servers) PROVE PathsAre(s, k, r)
  BY <1>4 DEF SameLocations, PathsAre
<1> QED
  BY <1>1, <1>2, <1>3, <1>4

(* So do the certificates.                                                 *)
LEMMA CertsStay ==
  ASSUME NEW servers, NEW r, SameCerts(servers, r)
  PROVE  \A c, s, k : CertsAre(c, s, k, servers) => CertsAre(c, s, k, r)
BY DEF SameCerts, CertsAre

-----------------------------------------------------------------------------
(* Certificates.                                                           *)

(* A server with TLS gets a certificate, if only the default one.          *)
LEMMA CertFound ==
  ASSUME NEW c, NEW h, NEW m
  PROVE  CertOf(c, h, m) # None /\ (CertOf(c, h, m) # DefaultCertificate => ValidFor(CertOf(c, h, m), h))
BY NoneAssumption DEF CertOf, CertificateFor, ValidFor

(* The place of one Ingress more among those with TLS for a host.          *)
LEMMA WithTLSGrows ==
  ASSUME NEW s \in Seq(Ingresses), NEW k \in 0 .. Len(s) - 1, NEW h
  PROVE  /\ WithTLSTo(s, k, h) \subseteq 1 .. k
         /\ WithTLSTo(s, k + 1, h) = IF ~s[k + 1].canary /\ h \in HostsOf(s[k + 1]) /\ s[k + 1].tls # <<>>
                                     THEN WithTLSTo(s, k, h) \cup {k + 1} ELSE WithTLSTo(s, k, h)
<1> DEFINE C == {i \in Nat : s[i].tls # <<>>}
<1>1. k \in Nat /\ k + 1 \in Nat
  BY OneMore
<1>2. NamingTo(s, k, h) \subseteq 1 .. k /\ NamingTo(s, k + 1, h) \subseteq 1 .. k + 1
  BY <1>1 DEF NamingTo, MainsTo
<1>3. WithTLSTo(s, k, h) = NamingTo(s, k, h) \cap C /\ WithTLSTo(s, k + 1, h) = NamingTo(s, k + 1, h) \cap C
  BY <1>1, <1>2 DEF WithTLSTo
<1>4. k + 1 \in C <=> s[k + 1].tls # <<>>
  BY <1>1
<1> HIDE DEF C
<1> QED
  BY <1>2, <1>3, <1>4, NamingGrows

(* The certificate that the first k + 1 Ingresses give to a host.          *)
LEMMA CertGrows ==
  ASSUME NEW s \in Seq(Ingresses), NEW k \in 0 .. Len(s) - 1, NEW h, NEW c
  PROVE  CertGiven(c, s, k + 1, h) = IF ~s[k + 1].canary /\ h \in HostsOf(s[k + 1]) /\ s[k + 1].tls # <<>> /\ CertGiven(c, s, k, h) = None
                                  THEN CertOf(c, h, s[k + 1]) ELSE CertGiven(c, s, k, h)
<1> DEFINE W == WithTLSTo(s, k, h)
           given == ~s[k + 1].canary /\ h \in HostsOf(s[k + 1]) /\ s[k + 1].tls # <<>>
<1>1. k \in Nat
  BY OneMore
<1>2. W \subseteq 1 .. k /\ WithTLSTo(s, k + 1, h) = IF given THEN W \cup {k + 1} ELSE W
  BY WithTLSGrows
<1>3. CertGiven(c, s, k, h) = None <=> W = {}
  BY CertFound DEF CertGiven
<1> HIDE DEF W, given
<1>4. CASE ~given
  BY <1>2, <1>4 DEF CertGiven, W, given
<1>5. CASE given /\ W = {}
  <2>1. WithTLSTo(s, k + 1, h) = {k + 1} /\ First({k + 1}) = k + 1
    BY <1>1, <1>2, <1>5, FirstAlone
  <2>2. CertGiven(c, s, k + 1, h) = CertOf(c, h, s[k + 1])
    BY <2>1 DEF CertGiven
  <2> QED BY <1>3, <1>5, <2>2 DEF given
<1>6. CASE given /\ W # {}
  <2>1. WithTLSTo(s, k + 1, h) = W \cup {k + 1} /\ First(W \cup {k + 1}) = First(W)
    BY <1>1, <1>2, <1>6, FirstStays
  <2>2. CertGiven(c, s, k + 1, h) = CertGiven(c, s, k, h)
    BY <1>6, <2>1 DEF CertGiven, W
  <2> QED BY <1>3, <1>6, <2>2
<1> QED
  BY <1>4, <1>5, <1>6

(* Before the loop no server but the default one has a certificate.        *)
LEMMA CertNoneYet ==
  ASSUME NEW c, NEW s, NEW servers, NoCerts(servers)
  PROVE  CertsAre(c, s, 0, servers)
BY NoneYet DEF NoCerts, CertsAre, CertGiven, WithTLSTo

(* createServers, its second loop.                                         *)
LEMMA ConfigureOne ==
  ASSUME NEW v, IsServer(v), NEW h, NEW m
  PROVE  /\ DOMAIN ConfigureServer(v, h, m) = DOMAIN v /\ ConfigureServer(v, h, m).locations = v.locations
         /\ ConfigureServer(v, h, m).cert = IF v.cert = None /\ m.tls # <<>> THEN CertOf(certs, h, m) ELSE v.cert
BY DEF ConfigureServer, CertOf, IsServer

(* createServers, its second loop, goes on with the next Ingress, ...      *)
LEMMA Configured ==
  ASSUME NEW s \in Seq(Ingresses), NEW k \in 0 .. Len(s) - 1, ~s[k + 1].canary, NEW servers, IsServers(servers)
  PROVE  /\ SameLocations(servers, ConfigureServers(servers, s[k + 1]))
         /\ CertsAre(certs, s, k, servers) => CertsAre(certs, s, k + 1, ConfigureServers(servers, s[k + 1]))
<1> DEFINE m == s[k + 1]
           r == ConfigureServers(servers, m)
<1>1. DOMAIN r = DOMAIN servers
  BY DEF ConfigureServers
<1>2. ASSUME NEW h \in DOMAIN servers PROVE r[h] = IF h \in HostsOf(m) THEN ConfigureServer(servers[h], h, m) ELSE servers[h]
  BY DEF ConfigureServers
<1> HIDE DEF r
<1>3. ASSUME NEW h \in DOMAIN servers
      PROVE  /\ DOMAIN r[h] = DOMAIN servers[h] /\ r[h].locations = servers[h].locations
             /\ r[h].cert = IF h \in HostsOf(m) /\ servers[h].cert = None /\ m.tls # <<>> THEN CertOf(certs, h, m) ELSE servers[h].cert
  <2>1. IsServer(servers[h])
    BY DEF IsServers, AreServers
  <2> QED BY <1>2, <2>1, ConfigureOne
<1>4. SameLocations(servers, r)
  BY <1>1, <1>3 DEF SameLocations
<1>5. ASSUME CertsAre(certs, s, k, servers), NEW h \in DOMAIN servers \ {DefServer} PROVE r[h].cert = CertGiven(certs, s, k + 1, h)
  BY <1>3, <1>5, CertGrows DEF CertsAre
<1> QED
  BY <1>1, <1>4, <1>5 DEF CertsAre, r

(* ... passes a canary, ...                                                *)
LEMMA CertsOfCanary ==
  ASSUME NEW s \in Seq(Ingresses), NEW k \in 0 .. Len(s) - 1, s[k + 1].canary, NEW servers, NEW c, CertsAre(c, s, k, servers)
  PROVE  CertsAre(c, s, k + 1, servers)
BY CertGrows DEF CertsAre

(* ... and ends when aliases that are servers are dropped.                 *)
LEMMA AliasesDropped ==
  ASSUME NEW servers, IsServers(servers)
  PROVE  SameLocations(servers, DropAliases(servers)) /\ SameCerts(servers, DropAliases(servers))
<1> DEFINE r == DropAliases(servers)
<1>1. DOMAIN r = DOMAIN servers
  BY DEF DropAliases
<1>2. ASSUME NEW h \in DOMAIN servers PROVE \E a : r[h] = [servers[h] EXCEPT !.alias = a]
  BY DEF DropAliases
<1>3. ASSUME NEW h \in DOMAIN servers
      PROVE  DOMAIN r[h] = DOMAIN servers[h] /\ r[h].locations = servers[h].locations /\ r[h].cert = servers[h].cert
  <2>1. DOMAIN servers[h] = {"locations", "cert", "alias", "auth"}
    BY DEF IsServers, AreServers, IsServer
  <2> HIDE DEF r
  <2> QED BY <1>2, <2>1
<1> QED
  BY <1>1, <1>3 DEF SameLocations, SameCerts

(* The certificate authority is set apart from locations and certificates. *)
LEMMA AuthAdded ==
  ASSUME NEW servers, IsServers(servers), NEW m
  PROVE  SameLocations(servers, AddAuth(servers, m)) /\ SameCerts(servers, AddAuth(servers, m))
<1> DEFINE r == AddAuth(servers, m)
<1>1. DOMAIN r = DOMAIN servers
  BY DEF AddAuth
<1>2. ASSUME NEW h \in DOMAIN servers PROVE r[h] = servers[h] \/ r[h] = [servers[h] EXCEPT !.auth = m.auth]
  BY DEF AddAuth
<1>3. ASSUME NEW h \in DOMAIN servers
      PROVE  DOMAIN r[h] = DOMAIN servers[h] /\ r[h].locations = servers[h].locations /\ r[h].cert = servers[h].cert
  <2>1. DOMAIN servers[h] = {"locations", "cert", "alias", "auth"}
    BY DEF IsServers, AreServers, IsServer
  <2> HIDE DEF r
  <2> QED BY <1>2, <2>1
<1> QED
  BY <1>1, <1>3 DEF SameLocations, SameCerts

-----------------------------------------------------------------------------
(* Locations.                                                              *)

(* A path has a location if it is the root or somebody claims it.          *)
LEMMA InPathsTo ==
  ASSUME NEW s, NEW k, NEW h, NEW path
  PROVE  path \in PathsTo(s, k, h) <=> path = Root \/ ClaimingTo(s, k, h, path) # {}
<1>1. ASSUME NEW i \in ClaimingTo(s, k, h, path) PROVE path \in {PathOf(p) : p \in UNION {ToSet(s[j].paths) : j \in 1 .. k}}
  <2>1. i \in 1 .. k /\ Claims(s[i], h, path) # {}
    BY DEF ClaimingTo, MainsTo
  <2>2. PICK n \in DOMAIN s[i].paths : PathOf(s[i].paths[n]) = path
    BY <2>1 DEF Claims
  <2>3. s[i].paths[n] \in ToSet(s[i].paths)
    BY DEF ToSet
  <2> QED BY <2>1, <2>2, <2>3
<1> QED
  BY <1>1 DEF PathsTo

(* Before getBackendServers goes over the paths there are default          *)
(* locations only.                                                         *)
LEMMA PathsBegin ==
  ASSUME NEW s, NEW servers, RootsAre(s, Len(s), servers)
  PROVE  PathsAre(s, 0, servers)
<1>1. ASSUME NEW h, NEW path PROVE ClaimingTo(s, 0, h, path) = {} /\ GrantedTo(s, 0, h, path) = RootOf(s, Len(s), h)
  BY NoneYet DEF GrantedTo
<1>2. ASSUME NEW h PROVE PathsTo(s, 0, h) = {Root}
  <2>1. ASSUME NEW path PROVE path \in PathsTo(s, 0, h) <=> path = Root
    BY <1>1, InPathsTo
  <2> QED BY <2>1
<1> QED
  BY <1>1, <1>2 DEF RootsAre, PathsAre

(* What one Ingress more gives to a location.                              *)
LEMMA GrantGrows ==
  ASSUME NEW s \in Seq(Ingresses), NEW k \in 0 .. Len(s) - 1, NEW h, NEW path
  PROVE  GrantedTo(s, k + 1, h, path) =
           IF /\ ~s[k + 1].canary /\ Claims(s[k + 1], h, path) # {}
              /\ ~Caught(s, Len(s), h, path) /\ ClaimingTo(s, k, h, path) = {}
           THEN ClaimedBy(s[k + 1], h, path) ELSE GrantedTo(s, k, h, path)
<1> DEFINE C == ClaimingTo(s, k, h, path)
           claims == ~s[k + 1].canary /\ Claims(s[k + 1], h, path) # {}
<1>1. k \in Nat
  BY OneMore
<1>2. C \subseteq 1 .. k /\ ClaimingTo(s, k + 1, h, path) = IF claims THEN C \cup {k + 1} ELSE C
  BY ClaimingGrows
<1> HIDE DEF C, claims
<1>3. CASE ~claims \/ Caught(s, Len(s), h, path)
  BY <1>2, <1>3 DEF GrantedTo, C, claims
<1>4. CASE claims /\ C = {} /\ ~Caught(s, Len(s), h, path)
  <2>1. ClaimingTo(s, k + 1, h, path) = {k + 1} /\ First({k + 1}) = k + 1
    BY <1>1, <1>2, <1>4, FirstAlone
  <2> QED BY <1>4, <2>1 DEF GrantedTo, C, claims
<1>5. CASE claims /\ C # {}
  <2>1. ClaimingTo(s, k + 1, h, path) = C \cup {k + 1} /\ First(C \cup {k + 1}) = First(C)
    BY <1>1, <1>2, <1>5, FirstStays
  <2> QED BY <1>5, <2>1 DEF GrantedTo, C
<1> QED
  BY <1>3, <1>4, <1>5

(* What AddPaths makes of one location.                                    *)
Taken(servers, ups, m, h, path) == path \in {PathOf(p) : p \in ToSet(m.paths)} /\ Taking(servers, ups, m, h, path) # {}

PutOn(servers, ups, m, h) ==
  LET old == servers[h].locations
      new == AddPaths(servers, ups, m)[h].locations
  IN  /\ \A path : path \in DOMAIN new <=> path \in DOMAIN old \/ Taken(servers, ups, m, h, path)
      /\ \A path \in DOMAIN new :
           IF Taken(servers, ups, m, h, path) /\ Free(old, path)
           THEN /\ new[path].isDef = FALSE
                /\ new[path].backend = UpstreamName(m.paths[First(Taking(servers, ups, m, h, path))].backend)
           ELSE path \in DOMAIN old /\ new[path] = old[path]

(* What AddPaths makes of all servers, for any Ingress: they keep their    *)
(* shape, their certificates, and upstreams of Ingresses.                  *)
LEMMA PathsOfOne ==
  ASSUME NEW servers, IsServers(servers), BackendsNamed(servers), NEW ups, NEW m \in Ingresses
  PROVE  /\ IsServers(AddPaths(servers, ups, m)) /\ BackendsNamed(AddPaths(servers, ups, m))
         /\ SameCerts(servers, AddPaths(servers, ups, m))
         /\ \A h \in DOMAIN servers : PutOn(servers, ups, m, h)
<1> DEFINE r == AddPaths(servers, ups, m)
           name(h, path) == UpstreamName(m.paths[First(Taking(servers, ups, m, h, path))].backend)
           taken(h) == {path \in {PathOf(p) : p \in ToSet(m.paths)} : Taking(servers, ups, m, h, path) # {}}
           locs(h) == [path \in DOMAIN servers[h].locations \cup taken(h) |->
                         IF path \in taken(h) /\ Free(servers[h].locations, path)
                         THEN Location(FALSE, name(h, path), Annotations(m)) ELSE servers[h].locations[path]]
<1>1. DOMAIN r = DOMAIN servers
  BY DEF AddPaths
<1>2. ASSUME NEW h \in DOMAIN servers PROVE r[h] = [servers[h] EXCEPT !.locations = locs(h)]
  BY DEF AddPaths
<1>3. ASSUME NEW h, NEW path PROVE path \in taken(h) <=> Taken(servers, ups, m, h, path)
  BY DEF Taken
<1>4. ASSUME NEW h, NEW path, Taken(servers, ups, m, h, path) PROVE name(h, path) \in UpNames
  <2> DEFINE S == Taking(servers, ups, m, h, path)
  <2>1. S \subseteq DOMAIN m.paths /\ S # {}
    BY <1>4 DEF Taken, Taking
  <2>2. DOMAIN m.paths \subseteq Nat
    BY IngressFacts
  <2> HIDE DEF S
  <2>3. First(S) \in S
    BY <2>1, <2>2, FirstLeast
  <2>4. UpstreamName(m.paths[First(S)].backend) \in UpNames
    BY <2>1, <2>3, IngressFacts
  <2> QED BY <2>4 DEF S
<1>5. ASSUME NEW h \in DOMAIN servers, NEW path
      PROVE  LET l == Location(FALSE, name(h, path), Annotations(m)) IN
             IsLocation(l) /\ l.isDef = FALSE /\ l.backend = name(h, path)
  <2> HIDE DEF name
  <2>1. DOMAIN Annotations(m) = {"errors", "fallback", "other"} /\ Annotations(m).fallback \in Services \cup {None}
    BY AnnotationsMade
  <2> QED BY <2>1 DEF Location, IsLocation
<1>6. ASSUME NEW h \in DOMAIN servers PROVE DOMAIN locs(h) = DOMAIN servers[h].locations \cup taken(h)
  OBVIOUS
<1>7. ASSUME NEW h \in DOMAIN servers, NEW path \in DOMAIN locs(h)
      PROVE  locs(h)[path] = IF path \in taken(h) /\ Free(servers[h].locations, path)
                             THEN Location(FALSE, name(h, path), Annotations(m)) ELSE servers[h].locations[path]
  BY <1>7
<1> HIDE DEF r, locs, taken, name
<1>8. ASSUME NEW h \in DOMAIN servers, NEW path \in DOMAIN locs(h)
      PROVE  IF Taken(servers, ups, m, h, path) /\ Free(servers[h].locations, path)
             THEN locs(h)[path].isDef = FALSE /\ locs(h)[path].backend = name(h, path)
             ELSE path \in DOMAIN servers[h].locations /\ locs(h)[path] = servers[h].locations[path]
  <2>1. path \in taken(h) <=> Taken(servers, ups, m, h, path)
    BY <1>3
  <2>2. CASE Taken(servers, ups, m, h, path) /\ Free(servers[h].locations, path)
    <3>1. locs(h)[path] = Location(FALSE, name(h, path), Annotations(m))
      BY <1>7, <1>8, <2>1, <2>2
    <3> QED BY <1>5, <2>2, <3>1
  <2>3. CASE ~(Taken(servers, ups, m, h, path) /\ Free(servers[h].locations, path))
    <3>1. locs(h)[path] = servers[h].locations[path]
      BY <1>7, <1>8, <2>1, <2>3
    <3>2. path \in DOMAIN servers[h].locations
      BY <1>6, <1>8, <2>1, <2>3 DEF Free
    <3> QED BY <2>3, <3>1, <3>2
  <2> QED BY <2>2, <2>3
<1>9. ASSUME NEW h \in DOMAIN servers, NEW path \in DOMAIN locs(h)
      PROVE  IsLocation(locs(h)[path]) /\ locs(h)[path].backend \in UpNames
  <2>1. CASE Taken(servers, ups, m, h, path) /\ Free(servers[h].locations, path)
    <3>1. locs(h)[path] = Location(FALSE, name(h, path), Annotations(m))
      BY <1>3, <1>7, <1>9, <2>1
    <3>2. name(h, path) \in UpNames
      BY <1>4, <2>1
    <3> QED BY <1>5, <3>1, <3>2
  <2>2. CASE ~(Taken(servers, ups, m, h, path) /\ Free(servers[h].locations, path))
    <3>1. path \in DOMAIN servers[h].locations /\ locs(h)[path] = servers[h].locations[path]
      BY <1>8, <1>9, <2>2
    <3> QED BY <3>1 DEF IsServers, AreServers, IsServer, BackendsNamed
  <2> QED BY <2>1, <2>2
<1>10. ASSUME NEW h \in DOMAIN servers
       PROVE  /\ DOMAIN r[h] = {"locations", "cert", "alias", "auth"} /\ r[h].locations = locs(h)
              /\ r[h].cert = servers[h].cert /\ Root \in DOMAIN locs(h)
  <2>1. DOMAIN servers[h] = {"locations", "cert", "alias", "auth"} /\ Root \in DOMAIN servers[h].locations
    BY DEF IsServers, AreServers, IsServer
  <2> QED BY <1>2, <1>6, <2>1
<1>11. IsServers(r) /\ BackendsNamed(r)
  BY <1>1, <1>9, <1>10 DEF IsServers, AreServers, IsServer, BackendsNamed
<1>12. SameCerts(servers, r)
  BY <1>1, <1>10 DEF SameCerts
<1>13. ASSUME NEW h \in DOMAIN servers
       PROVE  /\ \A path : path \in DOMAIN r[h].locations <=> path \in DOMAIN servers[h].locations \/ Taken(servers, ups, m, h, path)
              /\ \A path \in DOMAIN r[h].locations :
                   IF Taken(servers, ups, m, h, path) /\ Free(servers[h].locations, path)
                   THEN r[h].locations[path].isDef = FALSE /\ r[h].locations[path].backend = name(h, path)
                   ELSE path \in DOMAIN servers[h].locations /\ r[h].locations[path] = servers[h].locations[path]
  <2>1. \A path : path \in DOMAIN locs(h) <=> path \in DOMAIN servers[h].locations \/ Taken(servers, ups, m, h, path)
    BY <1>3, <1>6
  <2> QED BY <1>8, <1>10, <2>1
<1> QED
  BY <1>11, <1>12, <1>13 DEF PutOn, r, name

(* The paths that an Ingress takes are those it claims, if it is no canary. *)
TakesWhatItClaims(servers, ups, m) ==
  \A h, path : /\ Taken(servers, ups, m, h, path) <=> ~m.canary /\ Claims(m, h, path) # {}
               /\ ~m.canary => Taking(servers, ups, m, h, path) = Claims(m, h, path)

(* So it is for the Ingresses of a list, once the upstreams are made.      *)
LEMMA TakenAreClaims ==
  ASSUME NEW s \in Seq(Ingresses), Apart(s), NEW ups, UpsAfter(s, Len(s), ups), NEW i \in 1 .. Len(s),
         NEW servers, DOMAIN servers = HostsTo(s, Len(s))
  PROVE  TakesWhatItClaims(servers, ups, s[i])
<1> DEFINE m == s[i]
<1> SUFFICES ASSUME NEW h, NEW path
             PROVE  /\ Taken(servers, ups, m, h, path) <=> ~m.canary /\ Claims(m, h, path) # {}
                    /\ ~m.canary => Taking(servers, ups, m, h, path) = Claims(m, h, path)
  BY DEF TakesWhatItClaims
<1>1. m \in Ingresses
  BY IngressAt
<1>2. ASSUME NEW n \in DOMAIN m.paths PROVE HasServer(ups[UpstreamName(m.paths[n].backend)]) <=> ~m.canary
  BY <1>1, <1>2, IngressFacts, ServerOfPath
<1>3. CASE m.canary
  <2>1. Taking(servers, ups, m, h, path) = {}
    BY <1>2, <1>3 DEF Taking
  <2> QED BY <1>3, <2>1 DEF Taken
<1>4. CASE ~m.canary
  <2>1. ASSUME NEW n \in DOMAIN m.paths PROVE Target(servers, m.paths[n]) = Host(m.paths[n])
    <3>1. i \in MainsTo(s, Len(s)) /\ Host(m.paths[n]) \in HostsOf(m)
      BY <1>1, <1>4, <2>1, IngressFacts DEF MainsTo
    <3> QED BY <3>1 DEF Target, HostsTo
  <2>2. Taking(servers, ups, m, h, path) = Claims(m, h, path)
    <3> HIDE DEF m
    <3> QED BY <1>2, <1>4, <2>1 DEF Taking, Claims
  <2>3. ASSUME NEW n \in Claims(m, h, path) PROVE path \in {PathOf(p) : p \in ToSet(m.paths)}
    BY <2>3 DEF Claims, ToSet
  <2> QED BY <1>4, <2>2, <2>3 DEF Taken
<1> QED
  BY <1>3, <1>4

(* getBackendServers goes on with the next Ingress.                        *)
LEMMA PathsAdded ==
  ASSUME NEW s \in Seq(Ingresses), Apart(s), NEW k \in 0 .. Len(s) - 1, NEW ups, UpsAfter(s, Len(s), ups),
         NEW servers, IsServers(servers), BackendsNamed(servers), PathsAre(s, k, servers)
  PROVE  PathsAre(s, k + 1, AddPaths(servers, ups, s[k + 1]))
<1> DEFINE m == s[k + 1]
           r == AddPaths(servers, ups, m)
<1>1. m \in Ingresses /\ k + 1 \in 1 .. Len(s)
  BY OneMore
<1>2. DOMAIN r = DOMAIN servers /\ DOMAIN servers = HostsTo(s, Len(s))
  BY DEF AddPaths, PathsAre
<1>3. ASSUME NEW h \in DOMAIN servers
      PROVE  /\ DOMAIN r[h].locations = PathsTo(s, k + 1, h)
             /\ \A path \in DOMAIN r[h].locations :
                  /\ r[h].locations[path].isDef = (~Caught(s, Len(s), h, path) /\ ClaimingTo(s, k + 1, h, path) = {})
                  /\ r[h].locations[path].backend = GrantedTo(s, k + 1, h, path)
  <2> DEFINE old == servers[h].locations
             new == r[h].locations
             claims(path) == ~m.canary /\ Claims(m, h, path) # {}
  <2>0. ASSUME NEW path
        PROVE  /\ Taken(servers, ups, m, h, path) <=> claims(path)
               /\ claims(path) => Taking(servers, ups, m, h, path) = Claims(m, h, path)
    <3>1. TakesWhatItClaims(servers, ups, m)
      BY <1>1, <1>2, TakenAreClaims
    <3> HIDE DEF m, r
    <3> QED BY <3>1 DEF TakesWhatItClaims
  <2>9. /\ \A path : path \in DOMAIN new <=> path \in DOMAIN old \/ Taken(servers, ups, m, h, path)
        /\ \A path \in DOMAIN new :
             IF Taken(servers, ups, m, h, path) /\ Free(old, path)
             THEN /\ new[path].isDef = FALSE
                  /\ new[path].backend = UpstreamName(m.paths[First(Taking(servers, ups, m, h, path))].backend)
             ELSE path \in DOMAIN old /\ new[path] = old[path]
    <3> HIDE DEF m
    <3>1. m \in Ingresses
      BY <1>1
    <3>2. PutOn(servers, ups, m, h)
      BY <3>1, PathsOfOne
    <3> QED BY <3>2 DEF PutOn
  <2>1. ASSUME NEW path PROVE path \in DOMAIN new <=> path \in DOMAIN old \/ claims(path)
    BY <2>0, <2>9
  <2>2. ASSUME NEW path \in DOMAIN new
        PROVE  IF claims(path) /\ Free(old, path)
               THEN new[path].isDef = FALSE /\ new[path].backend = ClaimedBy(m, h, path)
               ELSE path \in DOMAIN old /\ new[path] = old[path]
    <3> HIDE DEF old, new, claims, m, r
    <3>1. /\ Taken(servers, ups, m, h, path) <=> claims(path)
          /\ claims(path) => Taking(servers, ups, m, h, path) = Claims(m, h, path)
      BY <2>0
    <3>2. IF Taken(servers, ups, m, h, path) /\ Free(old, path)
          THEN /\ new[path].isDef = FALSE
               /\ new[path].backend = UpstreamName(m.paths[First(Taking(servers, ups, m, h, path))].backend)
          ELSE path \in DOMAIN old /\ new[path] = old[path]
      BY <2>2, <2>9
    <3> QED BY <3>1, <3>2 DEF ClaimedBy
  <2>3. DOMAIN old = PathsTo(s, k, h)
    BY DEF PathsAre
  <2>4. ASSUME NEW path \in DOMAIN old
        PROVE  /\ old[path].isDef = (~Caught(s, Len(s), h, path) /\ ClaimingTo(s, k, h, path) = {})
               /\ old[path].backend = GrantedTo(s, k, h, path)
    BY <2>4 DEF PathsAre
  <2>5. ASSUME NEW path
        PROVE  ClaimingTo(s, k + 1, h, path) # {} <=> ClaimingTo(s, k, h, path) # {} \/ claims(path)
    BY ClaimingGrows
  <2>6. ASSUME NEW path
        PROVE  GrantedTo(s, k + 1, h, path) =
                 IF claims(path) /\ ~Caught(s, Len(s), h, path) /\ ClaimingTo(s, k, h, path) = {}
                 THEN ClaimedBy(m, h, path) ELSE GrantedTo(s, k, h, path)
    BY GrantGrows
  <2> HIDE DEF old, new, claims, m, r
  <2>7. DOMAIN new = PathsTo(s, k + 1, h)
    <3>1. ASSUME NEW path PROVE path \in DOMAIN new <=> path \in PathsTo(s, k + 1, h)
      BY <2>1, <2>3, <2>5, InPathsTo
    <3> QED BY <3>1, Zenon DEF PathsTo, new, r, m, AddPaths
  <2>8. ASSUME NEW path \in DOMAIN new
        PROVE  /\ new[path].isDef = (~Caught(s, Len(s), h, path) /\ ClaimingTo(s, k + 1, h, path) = {})
               /\ new[path].backend = GrantedTo(s, k + 1, h, path)
    <3>1. Free(old, path) <=> path \notin DOMAIN old \/ (~Caught(s, Len(s), h, path) /\ ClaimingTo(s, k, h, path) = {})
      BY <2>4 DEF Free
    <3>2. path \notin DOMAIN old => ~Caught(s, Len(s), h, path) /\ ClaimingTo(s, k, h, path) = {}
      BY <2>3, InPathsTo DEF Caught
    <3>3. CASE claims(path) /\ Free(old, path)
      BY <2>2, <2>5, <2>6, <2>8, <3>1, <3>2, <3>3
    <3>4. CASE ~(claims(path) /\ Free(old, path))
      <4>1. path \in DOMAIN old /\ new[path] = old[path]
        BY <2>2, <2>8, <3>4
      <4>2. ~claims(path) \/ Caught(s, Len(s), h, path) \/ ClaimingTo(s, k, h, path) # {}
        BY <3>1, <3>4, <4>1
      <4> QED BY <2>4, <2>5, <2>6, <4>1, <4>2
    <3> QED BY <3>3, <3>4
  <2> QED BY <2>7, <2>8 DEF new
<1> QED
  BY <1>2, <1>3 DEF PathsAre

(* When the loop ends each location leads to the upstream it is granted.   *)
LEMMA GrantedExists ==
  ASSUME NEW s \in Seq(Ingresses), Apart(s), NEW ups, UpsMerged(s, ups), NEW h, NEW path
  PROVE  GrantedTo(s, Len(s), h, path) \in DOMAIN ups
<1> DEFINE n == Len(s)
<1>1. n \in Nat /\ \A k \in Nat : MainsTo(s, k) \subseteq 1 .. k
  BY DEF MainsTo
<1>2. DefUpstream \in DOMAIN ups /\ \A i \in MainsTo(s, n) : NamesOf(s[i]) \subseteq DOMAIN ups
  BY DEF UpsMerged, IsUpstreams
<1>3. ASSUME NEW S \in SUBSET MainsTo(s, n) PROVE DefaultIn(s, S) \in DOMAIN ups
  <2>1. CASE S = {}
    BY <1>2, <2>1 DEF DefaultIn
  <2>2. CASE S # {}
    <3>1. S \subseteq Nat
      BY <1>1
    <3>2. First(S) \in MainsTo(s, n) /\ First(S) \in 1 .. n
      BY <1>1, <2>2, <3>1, FirstLeast
    <3>3. s[First(S)] \in Ingresses
      BY <3>2, IngressAt
    <3> QED BY <1>2, <2>2, <3>2, <3>3, IngressFacts DEF DefaultIn
  <2> QED BY <2>1, <2>2
<1>4. CatchAllsTo(s, n) \subseteq MainsTo(s, n) /\ NamingTo(s, n, h) \subseteq MainsTo(s, n)
  BY DEF CatchAllsTo, NamingTo
<1>5. RootOf(s, n, h) \in DOMAIN ups
  BY <1>3, <1>4 DEF RootOf
<1>6. ASSUME ClaimingTo(s, n, h, path) # {}
      PROVE  ClaimedBy(s[First(ClaimingTo(s, n, h, path))], h, path) \in DOMAIN ups
  <2> DEFINE i == First(ClaimingTo(s, n, h, path))
             K == Claims(s[i], h, path)
  <2>1. ClaimingTo(s, n, h, path) \subseteq MainsTo(s, n) /\ ClaimingTo(s, n, h, path) \subseteq Nat
    BY <1>1 DEF ClaimingTo
  <2>2. i \in ClaimingTo(s, n, h, path)
    BY <1>6, <2>1, FirstLeast
  <2>3. i \in MainsTo(s, n) /\ i \in 1 .. n /\ K # {}
    BY <1>1, <2>1, <2>2 DEF ClaimingTo
  <2> HIDE DEF i
  <2>4. s[i] \in Ingresses
    BY <2>3, IngressAt
  <2>5. K \subseteq DOMAIN s[i].paths /\ DOMAIN s[i].paths \subseteq Nat
    BY <2>4, IngressFacts DEF Claims
  <2>6. First(K) \in DOMAIN s[i].paths
    BY <2>3, <2>5, FirstLeast
  <2>7. ClaimedBy(s[i], h, path) \in NamesOf(s[i])
    BY <2>4, <2>6, IngressFacts DEF ClaimedBy
  <2> QED BY <1>2, <2>3, <2>7 DEF i
<1> QED
  BY <1>5, <1>6 DEF GrantedTo

(* So it is before the loop over the upstreams, ...                        *)
LEMMA LocatedFirst ==
  ASSUME NEW s \in Seq(Ingresses), Apart(s), NEW ups, UpsMerged(s, ups), NEW servers, PathsAre(s, Len(s), servers)
  PROVE  Located(s, servers, ups)
BY GrantedExists DEF PathsAre, Located

(* ... when no location leads to a custom default backend.                 *)
LEMMA CustomFirst ==
  ASSUME NEW servers, BackendsNamed(servers), NEW custom
  PROVE  AllCustom(servers, custom)
BY DEF BackendsNamed, AllCustom, CustomHas

-----------------------------------------------------------------------------
(* Custom default backends.                                                *)

(* A location, when one upstream is visited, leads where it led or, if     *)
(* that has no endpoints, to a custom default backend.                     *)
LEMMA VisitOne ==
  ASSUME NEW n, NEW l, IsLocation(l)
  PROVE  LET v == VisitLocation(n, l) IN
         /\ IsLocation(v) /\ v.annotations = l.annotations /\ CustomName(v) = CustomName(l)
         /\ \/ v.backend = l.backend
            \/ /\ v.backend = CustomName(l) /\ n = l.backend /\ l.annotations.fallback # None
               /\ job.upstreams[n].endpoints = <<>> /\ ShouldCreate(n, l) /\ FallbackEndpoints(l) # <<>>
<1> DEFINE v == VisitLocation(n, l)
           direct == [l EXCEPT !.fallbackName = DefUpstream]
           custom == [l EXCEPT !.fallbackName = CustomName(l),
                               !.backend = IF job.upstreams[n].endpoints = <<>> THEN CustomName(l) ELSE @]
<1>1. /\ DOMAIN l = {"isDef", "backend", "annotations", "fallbackName"}
  BY DEF IsLocation
<1>2. DOMAIN direct = DOMAIN l /\ direct.annotations = l.annotations /\ direct.backend = l.backend
  BY <1>1
<1>3. /\ DOMAIN custom = DOMAIN l /\ custom.annotations = l.annotations
      /\ custom.backend = IF job.upstreams[n].endpoints = <<>> THEN CustomName(l) ELSE l.backend
  BY <1>1
<1>4. \/ v = direct \/ v = l
      \/ v = custom /\ ShouldCreate(n, l) /\ FallbackEndpoints(l) # <<>>
  BY DEF VisitLocation
<1> HIDE DEF v, direct, custom
<1>5. DOMAIN v = DOMAIN l /\ v.annotations = l.annotations
  BY <1>2, <1>3, <1>4
<1>6. IsLocation(v) /\ CustomName(v) = CustomName(l)
  BY <1>5 DEF IsLocation, CustomName
<1>7. ShouldCreate(n, l) => n = l.backend /\ l.annotations.fallback # None
  BY DEF ShouldCreate
<1> QED
  BY <1>2, <1>3, <1>4, <1>5, <1>6, <1>7 DEF v

(* The servers keep their shape and certificates.                          *)
LEMMA VisitShape ==
  ASSUME NEW n, NEW servers, IsServers(servers)
  PROVE  /\ IsServers(VisitedServers(n, servers)) /\ SameCerts(servers, VisitedServers(n, servers))
         /\ \A h \in DOMAIN servers :
              /\ DOMAIN VisitedServers(n, servers)[h].locations = DOMAIN servers[h].locations
              /\ \A p \in DOMAIN servers[h].locations :
                   VisitedServers(n, servers)[h].locations[p] = VisitLocation(n, servers[h].locations[p])
<1> DEFINE r == VisitedServers(n, servers)
           locs(h) == [p \in DOMAIN servers[h].locations |-> VisitLocation(n, servers[h].locations[p])]
<1>1. DOMAIN r = DOMAIN servers
  BY DEF VisitedServers
<1>2. ASSUME NEW h \in DOMAIN servers PROVE r[h] = [servers[h] EXCEPT !.locations = locs(h)]
  BY DEF VisitedServers
<1>3. ASSUME NEW h \in DOMAIN servers
      PROVE  /\ DOMAIN locs(h) = DOMAIN servers[h].locations
             /\ \A p \in DOMAIN servers[h].locations : locs(h)[p] = VisitLocation(n, servers[h].locations[p])
  OBVIOUS
<1> HIDE DEF r, locs
<1>4. ASSUME NEW h \in DOMAIN servers PROVE IsServer(r[h]) /\ r[h].locations = locs(h) /\ r[h].cert = servers[h].cert
  <2>1. IsServer(servers[h])
    BY DEF IsServers, AreServers
  <2>2. /\ DOMAIN r[h] = DOMAIN servers[h] /\ r[h].locations = locs(h) /\ r[h].cert = servers[h].cert
    BY <1>2, <2>1 DEF IsServer
  <2>3. ASSUME NEW p \in DOMAIN servers[h].locations PROVE IsLocation(locs(h)[p])
    BY <1>3, <2>1, VisitOne DEF IsServer
  <2> QED BY <1>3, <2>1, <2>2, <2>3 DEF IsServer
<1> QED
  BY <1>1, <1>3, <1>4 DEF IsServers, AreServers, SameCerts, r

(* Each location still leads to its upstream or, while that has no         *)
(* endpoints, to a custom default backend.                                 *)
LEMMA VisitLocated ==
  ASSUME NEW n, NEW servers, IsServers(servers), NEW s, Located(s, servers, job.upstreams)
  PROVE  Located(s, VisitedServers(n, servers), job.upstreams)
<1> DEFINE r == VisitedServers(n, servers)
           ups == job.upstreams
<1>1. DOMAIN r = DOMAIN servers
  BY DEF VisitedServers
<1>2. ASSUME NEW h \in DOMAIN servers
      PROVE  /\ DOMAIN r[h].locations = DOMAIN servers[h].locations
             /\ \A p \in DOMAIN servers[h].locations : r[h].locations[p] = VisitLocation(n, servers[h].locations[p])
  BY VisitShape
<1>3. ASSUME NEW h \in DOMAIN servers, NEW path \in DOMAIN servers[h].locations, NEW g,
             servers[h].locations[path].backend = g \/ Custom(servers[h].locations[path], g, ups)
      PROVE  r[h].locations[path].backend = g \/ Custom(r[h].locations[path], g, ups)
  <2> DEFINE l == servers[h].locations[path]
             v == VisitLocation(n, l)
  <2>1. IsLocation(l) /\ r[h].locations[path] = v
    BY <1>2 DEF IsServers, AreServers, IsServer
  <2>2. /\ v.annotations = l.annotations /\ CustomName(v) = CustomName(l)
        /\ \/ v.backend = l.backend
           \/ /\ v.backend = CustomName(l) /\ n = l.backend /\ l.annotations.fallback # None
              /\ ups[n].endpoints = <<>>
    <3> HIDE DEF l
    <3> QED BY <2>1, VisitOne
  <2>3. l.backend = g \/ Custom(l, g, ups)
    BY <1>3
  <2> HIDE DEF l, v, r, ups
  <2>4. v.backend = g \/ Custom(v, g, ups)
    BY <2>2, <2>3 DEF Custom
  <2> QED BY <2>1, <2>4
<1> HIDE DEF r
<1> QED
  BY <1>1, <1>2, <1>3 DEF Located, r

(* The custom default backends that locations lead to are among those      *)
(* made.                                                                   *)
LEMMA VisitCustom ==
  ASSUME NEW n, NEW servers, IsServers(servers), NEW custom, AllCustom(servers, custom), NEW more,
         \A h \in DOMAIN servers : \A p \in DOMAIN servers[h].locations :
           LET l == servers[h].locations[p] IN
           ShouldCreate(n, l) /\ FallbackEndpoints(l) # <<>> => \E c \in more : c.name = CustomName(l)
  PROVE  AllCustom(VisitedServers(n, servers), custom \cup more)
<1> DEFINE r == VisitedServers(n, servers)
<1>1. DOMAIN r = DOMAIN servers
  BY DEF VisitedServers
<1>2. ASSUME NEW h \in DOMAIN servers
      PROVE  /\ DOMAIN r[h].locations = DOMAIN servers[h].locations
             /\ \A p \in DOMAIN servers[h].locations : r[h].locations[p] = VisitLocation(n, servers[h].locations[p])
  BY VisitShape
<1>3. ASSUME NEW h \in DOMAIN servers, NEW p \in DOMAIN servers[h].locations
      PROVE  CustomHas(r[h].locations[p], custom \cup more)
  <2> DEFINE l == servers[h].locations[p]
             v == VisitLocation(n, l)
  <2>1. IsLocation(l) /\ r[h].locations[p] = v /\ CustomHas(l, custom)
    BY <1>2 DEF IsServers, AreServers, IsServer, AllCustom
  <2>2. ShouldCreate(n, l) /\ FallbackEndpoints(l) # <<>> => \E c \in more : c.name = CustomName(l)
    OBVIOUS
  <2> HIDE DEF l
  <2>3. /\ v.annotations = l.annotations /\ CustomName(v) = CustomName(l)
        /\ \/ v.backend = l.backend
           \/ /\ v.backend = CustomName(l) /\ l.annotations.fallback # None
              /\ ShouldCreate(n, l) /\ FallbackEndpoints(l) # <<>>
    BY <2>1, VisitOne
  <2> HIDE DEF v, r
  <2>4. CASE v.backend = l.backend
    BY <2>1, <2>3, <2>4 DEF CustomHas
  <2>5. CASE v.backend = CustomName(l) /\ l.annotations.fallback # None /\ ShouldCreate(n, l) /\ FallbackEndpoints(l) # <<>>
    <3>1. PICK c \in more : c.name = CustomName(l)
      BY <2>2, <2>5
    <3> QED BY <2>1, <2>3, <2>5, <3>1 DEF CustomHas
  <2> QED BY <2>3, <2>4, <2>5
<1> QED
  BY <1>1, <1>2, <1>3 DEF AllCustom

-----------------------------------------------------------------------------
(* Models that are equal, and models that nginx.conf does not tell apart.  *)

(* Servers that are equal have the same certificates, locations and        *)
(* backends.                                                               *)
LEMMA EqualServersFacts ==
  ASSUME NEW f, NEW g, EqualServers(f, g)
  PROVE  /\ DOMAIN f = DOMAIN g /\ SameCerts(g, f)
         /\ \A h \in DOMAIN f : DOMAIN f[h].locations = DOMAIN g[h].locations
         /\ \A h \in DOMAIN f : \A p \in DOMAIN f[h].locations : f[h].locations[p].backend = g[h].locations[p].backend
BY DEF EqualServers, EqualServer, EqualSite, EqualLocation, SameCerts

(* A custom default backend is not mistaken for an upstream.               *)
LEMMA NamesDiffer ==
  ASSUME NEW l, IsLocation(l), l.annotations.fallback # None
  PROVE  CustomName(l) \notin UpNames
<1>1. l.annotations.fallback \in Services
  BY DEF IsLocation
<1> QED
  BY <1>1, NamesAssumption DEF UpNames, UpstreamName, CustomName

(* A model that is equal to the new one is as good.                        *)
LEMMA EqualLocated ==
  ASSUME NEW s \in Seq(Ingresses), Apart(s), NEW m, NEW n, Equal(m, n), AreServers(m.servers), AllCustom(m.servers, m.custom),
         AreServers(n.servers), Located(s, n.servers, n.backends)
  PROVE  Located(s, m.servers, m.backends)
<1> DEFINE f == m.servers
           g == n.servers
<1>1. /\ DOMAIN f = DOMAIN g
      /\ \A h \in DOMAIN f : DOMAIN f[h].locations = DOMAIN g[h].locations
      /\ \A h \in DOMAIN f : \A p \in DOMAIN f[h].locations : f[h].locations[p].backend = g[h].locations[p].backend
  BY EqualServersFacts DEF Equal
<1>2. /\ DOMAIN m.backends = DOMAIN n.backends
      /\ \A u \in DOMAIN m.backends : Len(m.backends[u].endpoints) = Len(n.backends[u].endpoints)
  BY DEF Equal, EqualBackends, EqualBackend, EqualEndpoints
<1>3. ASSUME NEW h \in DOMAIN f, NEW path \in DOMAIN f[h].locations, NEW u, u \in DOMAIN n.backends,
             g[h].locations[path].backend = u \/ Custom(g[h].locations[path], u, n.backends)
      PROVE  f[h].locations[path].backend = u \/ Custom(f[h].locations[path], u, m.backends)
  <2> DEFINE l == f[h].locations[path]
             k == g[h].locations[path]
  <2>1. IsLocation(l) /\ IsLocation(k) /\ CustomHas(l, m.custom) /\ l.backend = k.backend
    BY <1>1 DEF AreServers, IsServer, AllCustom
  <2>2. k.backend = u \/ Custom(k, u, n.backends)
    BY <1>3
  <2> HIDE DEF l, k
  <2>3. CASE Custom(k, u, n.backends)
    <3>1. l.backend \notin UpNames
      BY <2>1, <2>3, NamesDiffer DEF Custom
    <3>2. l.annotations.fallback # None /\ l.backend = CustomName(l)
      BY <2>1, <3>1 DEF CustomHas
    <3> QED BY <1>2, <1>3, <2>3, <3>2 DEF Custom, l
  <2> QED BY <2>1, <2>2, <2>3 DEF l
<1> HIDE DEF f, g
<1> QED
  BY <1>1, <1>2, <1>3 DEF Located, f, g

(* What nginx.conf says of a location, a server and a stream.              *)
LocationsWritten(locations) == [p \in DOMAIN locations |-> LocationWritten(locations[p])]
ServerWritten(v) == [v EXCEPT !.locations = LocationsWritten(@)]
StreamWritten(v) == [v EXCEPT !.endpoints = <<>>]

(* Locations that are equal differ in nothing nginx.conf says, ...         *)
LEMMA LocationEqual ==
  ASSUME NEW l, NEW k, IsLocation(l), IsLocation(k), EqualLocation(l, k)
  PROVE  LocationWritten(l) = LocationWritten(k)
<1>1. [l.annotations EXCEPT !.fallback = None] = [k.annotations EXCEPT !.fallback = None]
  BY DEF IsLocation, EqualLocation
<1> QED
  BY <1>1 DEF IsLocation, EqualLocation, LocationWritten

(* ... nor do servers, ...                                                 *)
LEMMA ServerEqual ==
  ASSUME NEW v, NEW w, IsServer(v), IsServer(w), EqualServer(v, w)
  PROVE  ServerWritten(v) = ServerWritten(w)
<1>1. ASSUME NEW p \in DOMAIN v.locations
      PROVE  p \in DOMAIN w.locations /\ LocationWritten(v.locations[p]) = LocationWritten(w.locations[p])
  BY LocationEqual DEF IsServer, EqualServer, EqualSite
<1>2. DOMAIN v.locations = DOMAIN w.locations
  BY DEF EqualServer, EqualSite
<1>3. LocationsWritten(v.locations) = LocationsWritten(w.locations)
  BY <1>1, <1>2 DEF LocationsWritten
<1> QED
  BY <1>3 DEF IsServer, EqualServer, EqualSite, ServerWritten

(* ... nor streams but for the PROXY protocol.                             *)
LEMMA StreamEqual ==
  ASSUME NEW v, NEW w, DOMAIN v = StreamFields, DOMAIN w = StreamFields, v.service = w.service, v.port = w.port
  PROVE  Unproxied(StreamWritten(v)) = Unproxied(StreamWritten(w))
BY DEF StreamFields, StreamWritten, Unproxied

(* The model without what nginx.conf is not written from.                  *)
LEMMA WrittenIs ==
  ASSUME NEW m
  PROVE  WithoutProxy(Written(m)) =
           [servers |-> [h \in DOMAIN m.servers |-> ServerWritten(m.servers[h])],
            streams |-> [p \in DOMAIN m.streams |-> Unproxied(StreamWritten(m.streams[p]))]]
<1> DEFINE f == [h \in DOMAIN m.servers |-> ServerWritten(m.servers[h])]
           g == [p \in DOMAIN m.streams |-> StreamWritten(m.streams[p])]
<1>1. Written(m) = [servers |-> f, streams |-> g]
  BY DEF Written, ServerWritten, LocationsWritten, LocationWritten, StreamWritten
<1>2. [p \in DOMAIN g |-> Unproxied(g[p])] = [p \in DOMAIN m.streams |-> Unproxied(StreamWritten(m.streams[p]))]
  OBVIOUS
<1> HIDE DEF f, g
<1>3. WithoutProxy(Written(m)) = [servers |-> f, streams |-> [p \in DOMAIN g |-> Unproxied(g[p])]]
  <2> DEFINE w == [servers |-> f, streams |-> g]
             t == [p \in DOMAIN g |-> Unproxied(g[p])]
  <2>1. WithoutProxy(w) = [w EXCEPT !.streams = [p \in DOMAIN @ |-> Unproxied(@[p])]]
    BY DEF WithoutProxy, Unproxied
  <2>2. w.streams = g
    OBVIOUS
  <2>3. [w EXCEPT !.streams = [p \in DOMAIN @ |-> Unproxied(@[p])]] = [w EXCEPT !.streams = t]
    BY <2>2
  <2> HIDE DEF t
  <2>4. [w EXCEPT !.streams = t] = [servers |-> f, streams |-> t]
    OBVIOUS
  <2> HIDE DEF w
  <2> QED BY <1>1, <2>1, <2>3, <2>4 DEF t, w
<1> QED
  BY <1>2, <1>3 DEF f

(* If the dynamic part is all that differs, nginx.conf stays as it is.     *)
LEMMA WrittenEqual ==
  ASSUME NEW m, NEW n, DynamicIsEnough(m, n), AreServers(m.servers), AreServers(n.servers),
         \A p \in DOMAIN m.streams : DOMAIN m.streams[p] = StreamFields,
         \A p \in DOMAIN n.streams : DOMAIN n.streams[p] = StreamFields
  PROVE  WithoutProxy(Written(m)) = WithoutProxy(Written(n))
<1>1. DOMAIN m.servers = DOMAIN n.servers /\ DOMAIN m.streams = DOMAIN n.streams
  BY DEF DynamicIsEnough, EqualServers, EqualStreamBackends
<1>2. ASSUME NEW h \in DOMAIN m.servers PROVE ServerWritten(m.servers[h]) = ServerWritten(n.servers[h])
  BY <1>1, ServerEqual DEF DynamicIsEnough, EqualServers, AreServers
<1>3. ASSUME NEW p \in DOMAIN m.streams
      PROVE  Unproxied(StreamWritten(m.streams[p])) = Unproxied(StreamWritten(n.streams[p]))
  BY <1>1, StreamEqual DEF DynamicIsEnough, EqualStreamBackends
<1>4. [h \in DOMAIN m.servers |-> ServerWritten(m.servers[h])] = [h \in DOMAIN n.servers |-> ServerWritten(n.servers[h])]
  BY <1>1, <1>2
<1>5. [p \in DOMAIN m.streams |-> Unproxied(StreamWritten(m.streams[p]))] = [p \in DOMAIN n.streams |-> Unproxied(StreamWritten(n.streams[p]))]
  BY <1>1, <1>3
<1> QED
  BY <1>4, <1>5, WrittenIs

-----------------------------------------------------------------------------
(* The invariant, one action after the other.                              *)

(* A synchronization that has not begun fits any cluster.                  *)
LEMMA IdleFits ==
  \A s, c : Fits(s, NoJob) /\ Built(s, NoJob) /\ Certified(c, s, NoJob)
BY DEF NoJob, Fits, Built, Certified, JobFields, Steps

(* In the beginning nothing is built and nothing runs.                     *)
LEMMA InvInit ==
  ASSUME Init
  PROVE  IInv
<1>1. ClusterOK
  <2>1. ings \in Seq(Ingresses)
    BY ClusterAssumption DEF Init, Ingresses
  <2> QED
    BY <2>1, ClusterAssumption DEF Init, ClusterOK
<1>2. JobOK
  BY IdleFits DEF Init, JobOK
<1>3. RunningOK
  BY DEF Init, RunningOK, NoModel, AreServers, AllCustom
<1> QED
  BY <1>1, <1>2, <1>3 DEF Init, IInv, UpToDate

(* A step of the synchronization on its way.                               *)
LEMMA JobStep ==
  ASSUME IInv, UNCHANGED <<cluster, due, running, file, changes>>, job'.step # "idle",
         Fits(ings, job'), Built(ings, job'), ~due => Certified(certs, ings, job')
  PROVE  IInv'
<1>1. ings' = ings /\ services' = services /\ certs' = certs /\ streams' = streams
  BY DEF cluster
<1>2. ClusterOK' /\ RunningOK'
  BY <1>1 DEF IInv, ClusterOK, RunningOK
<1>3. JobOK' /\ UpToDate'
  BY <1>1 DEF JobOK, UpToDate
<1> QED
  BY <1>2, <1>3 DEF IInv

(* What the loops may take for granted.                                    *)
LEMMA JobFacts ==
  ASSUME IInv, job.step # "idle"
  PROVE  /\ ings \in Seq(Ingresses) /\ Len(ings) \in Nat /\ job.ings = ings /\ job.at \in 0 .. Len(ings)
         /\ DOMAIN job = JobFields /\ IsServers(job.servers)
         /\ job.step # "backends" => BackendsNamed(job.servers)
         /\ job.step \notin {"canaries", "panic"} => job.path = 0
         /\ job.at < Len(ings) => job.at \in 0 .. Len(ings) - 1 /\ This = ings[job.at + 1] /\ This \in Ingresses
                                  /\ job.at + 1 \in 0 .. Len(ings)
<1>1. ings \in Seq(Ingresses) /\ Len(ings) \in Nat
  BY DEF IInv, ClusterOK
<1>2. /\ job.ings = ings /\ job.at \in 0 .. Len(ings) /\ DOMAIN job = JobFields /\ IsServers(job.servers)
      /\ job.step # "backends" => BackendsNamed(job.servers)
      /\ job.step \notin {"canaries", "panic"} => job.path = 0
  BY DEF IInv, JobOK, Fits
<1>3. job.at < Len(ings) => job.at \in 0 .. Len(ings) - 1 /\ job.at + 1 \in 0 .. Len(ings)
  BY <1>1, <1>2
<1> QED
  BY <1>1, <1>2, <1>3, OneMore DEF This

(* A synchronization takes the Ingresses, and begins with the default      *)
(* upstream and server.                                                    *)
LEMMA InvBegin ==
  ASSUME IInv, Begin
  PROVE  IInv'
<1>1. /\ DOMAIN job' = JobFields /\ job'.step = "upstreams" /\ job'.ings = ings /\ job'.at = 0 /\ job'.path = 0
      /\ job'.upstreams = [n \in {DefUpstream} |-> DefaultUpstream] /\ job'.servers = DefaultServers
  BY DEF Begin, NoJob, JobFields
<1>2. 0 \in 0 .. Len(ings)
  BY DEF IInv, ClusterOK
<1>3. UpsAfter(ings, 0, job'.upstreams)
  BY <1>1, UpstreamsBegin
<1>4. IsServers(job'.servers) /\ BackendsNamed(job'.servers) /\ NoCerts(job'.servers) /\ RootsAre(ings, 0, job'.servers)
  BY <1>1, ServersBegin
<1>5. Fits(ings, job') /\ Built(ings, job') /\ Certified(certs, ings, job')
  BY <1>1, <1>2, <1>3, <1>4 DEF Fits, Built, Certified, Steps
<1>6. ings' = ings /\ services' = services /\ certs' = certs /\ streams' = streams
  BY DEF Begin, cluster
<1>7. ClusterOK' /\ RunningOK'
  BY <1>6 DEF Begin, IInv, ClusterOK, RunningOK
<1>8. JobOK' /\ UpToDate'
  BY <1>1, <1>5, <1>6 DEF JobOK, UpToDate
<1> QED
  BY <1>7, <1>8 DEF IInv

(* createUpstreams makes the upstreams of the next Ingress, or ends.       *)
LEMMA InvCreateUpstreams ==
  ASSUME IInv, CreateUpstreams
  PROVE  IInv'
<1>0. /\ job.step = "upstreams" /\ UNCHANGED <<cluster, due, running, file, changes>>
      /\ UpsAfter(ings, job.at, job.upstreams) /\ RootsAre(ings, 0, job.servers) /\ (~due => NoCerts(job.servers))
  BY DEF CreateUpstreams, Iterate, EndLoop, IInv, JobOK, Built, Certified
<1>1. CASE Iterate("upstreams", [job EXCEPT !.upstreams = AddUpstreams(@, This)])
  <2>1. job.at < Len(ings)
    BY <1>0, <1>1, JobFacts DEF Iterate
  <2>2. /\ DOMAIN job' = JobFields /\ job'.step = "upstreams" /\ job'.ings = ings /\ job'.at = job.at + 1 /\ job'.path = 0
        /\ job'.upstreams = AddUpstreams(job.upstreams, This) /\ job'.servers = job.servers
    BY <1>0, <1>1, JobFacts DEF Iterate, JobFields
  <2>3. UpsAfter(ings, job.at + 1, job'.upstreams)
    BY <1>0, <2>1, <2>2, JobFacts, UpstreamsAdded
  <2>4. Fits(ings, job') /\ Built(ings, job') /\ (~due => Certified(certs, ings, job'))
    BY <1>0, <2>1, <2>2, <2>3, JobFacts DEF Fits, Built, Certified, Steps
  <2> QED
    BY <1>0, <2>2, <2>4, JobStep
<1>2. CASE EndLoop("upstreams", "servers", job)
  <2>1. /\ DOMAIN job' = JobFields /\ job'.step = "servers" /\ job'.ings = ings /\ job'.at = 0 /\ job'.path = 0
        /\ job'.upstreams = job.upstreams /\ job'.servers = job.servers /\ job.at = Len(ings)
    BY <1>0, <1>2, JobFacts DEF EndLoop, JobFields
  <2>2. Fits(ings, job') /\ Built(ings, job') /\ (~due => Certified(certs, ings, job'))
    BY <1>0, <2>1, JobFacts DEF Fits, Built, Certified, Steps
  <2> QED
    BY <1>0, <2>1, <2>2, JobStep
<1> QED
  BY <1>1, <1>2 DEF CreateUpstreams

(* createServers makes the servers of the next Ingress, or goes on to the  *)
(* second loop.                                                            *)
LEMMA InvCreateServers ==
  ASSUME IInv, CreateServers
  PROVE  IInv'
<1>0. /\ job.step = "servers" /\ UNCHANGED <<cluster, due, running, file, changes>>
      /\ UpsAfter(ings, Len(ings), job.upstreams) /\ RootsAre(ings, job.at, job.servers) /\ (~due => NoCerts(job.servers))
  BY DEF CreateServers, Iterate, EndLoop, IInv, JobOK, Built, Certified
<1>1. CASE Iterate("servers", [job EXCEPT !.servers = IF This.canary THEN @ ELSE AddServers(@, This)])
  <2>1. job.at < Len(ings)
    BY <1>0, <1>1, JobFacts DEF Iterate
  <2>2. /\ DOMAIN job' = JobFields /\ job'.step = "servers" /\ job'.ings = ings /\ job'.at = job.at + 1 /\ job'.path = 0
        /\ job'.upstreams = job.upstreams
        /\ job'.servers = IF This.canary THEN job.servers ELSE AddServers(job.servers, This)
    BY <1>0, <1>1, JobFacts DEF Iterate, JobFields
  <2>3. /\ IsServers(job'.servers) /\ BackendsNamed(job'.servers) /\ RootsAre(ings, job.at + 1, job'.servers)
        /\ (~due => NoCerts(job'.servers))
    <3>1. CASE This.canary
      BY <1>0, <2>1, <2>2, <3>1, JobFacts, RootsOfCanary
    <3>2. CASE ~This.canary
      BY <1>0, <2>1, <2>2, <3>2, JobFacts, ServersAdded
    <3> QED
      BY <3>1, <3>2
  <2>4. Fits(ings, job') /\ Built(ings, job') /\ (~due => Certified(certs, ings, job'))
    BY <1>0, <2>1, <2>2, <2>3, JobFacts DEF Fits, Built, Certified, Steps
  <2> QED
    BY <1>0, <2>2, <2>4, JobStep
<1>2. CASE EndLoop("servers", "configure", job)
  <2>1. /\ DOMAIN job' = JobFields /\ job'.step = "configure" /\ job'.ings = ings /\ job'.at = 0 /\ job'.path = 0
        /\ job'.upstreams = job.upstreams /\ job'.servers = job.servers /\ job.at = Len(ings)
    BY <1>0, <1>2, JobFacts DEF EndLoop, JobFields
  <2>2. ~due => CertsAre(certs, ings, 0, job'.servers)
    BY <1>0, <2>1, CertNoneYet
  <2>3. Fits(ings, job') /\ Built(ings, job') /\ (~due => Certified(certs, ings, job'))
    BY <1>0, <2>1, <2>2, JobFacts DEF Fits, Built, Certified, Steps
  <2> QED
    BY <1>0, <2>1, <2>3, JobStep
<1> QED
  BY <1>1, <1>2 DEF CreateServers

(* The second loop gives servers the alias and certificate of the next     *)
(* Ingress, or drops aliases.                                              *)
LEMMA InvFinishServers ==
  ASSUME IInv, FinishServers
  PROVE  IInv'
<1>0. /\ job.step = "configure" /\ UNCHANGED <<cluster, due, running, file, changes>>
      /\ UpsAfter(ings, Len(ings), job.upstreams) /\ RootsAre(ings, Len(ings), job.servers)
      /\ (~due => CertsAre(certs, ings, job.at, job.servers))
  BY DEF FinishServers, Iterate, EndLoop, IInv, JobOK, Built, Certified
<1>1. CASE Iterate("configure", [job EXCEPT !.servers = IF This.canary THEN @ ELSE ConfigureServers(@, This)])
  <2>1. job.at < Len(ings)
    BY <1>0, <1>1, JobFacts DEF Iterate
  <2>2. /\ DOMAIN job' = JobFields /\ job'.step = "configure" /\ job'.ings = ings /\ job'.at = job.at + 1 /\ job'.path = 0
        /\ job'.upstreams = job.upstreams
        /\ job'.servers = IF This.canary THEN job.servers ELSE ConfigureServers(job.servers, This)
    BY <1>0, <1>1, JobFacts DEF Iterate, JobFields
  <2>3. /\ IsServers(job'.servers) /\ BackendsNamed(job'.servers) /\ RootsAre(ings, Len(ings), job'.servers)
        /\ (~due => CertsAre(certs, ings, job.at + 1, job'.servers))
    <3>1. CASE This.canary
      BY <1>0, <2>1, <2>2, <3>1, JobFacts, CertsOfCanary
    <3>2. CASE ~This.canary
      <4>1. SameLocations(job.servers, job'.servers) /\ (~due => CertsAre(certs, ings, job.at + 1, job'.servers))
        BY <1>0, <2>1, <2>2, <3>2, JobFacts, Configured
      <4> QED
        BY <1>0, <4>1, JobFacts, LocationsStay
    <3> QED
      BY <3>1, <3>2
  <2>4. Fits(ings, job') /\ Built(ings, job') /\ (~due => Certified(certs, ings, job'))
    BY <1>0, <2>1, <2>2, <2>3, JobFacts DEF Fits, Built, Certified, Steps
  <2> QED
    BY <1>0, <2>2, <2>4, JobStep
<1>2. CASE EndLoop("configure", "locations", [job EXCEPT !.servers = DropAliases(@)])
  <2>1. /\ DOMAIN job' = JobFields /\ job'.step = "locations" /\ job'.ings = ings /\ job'.at = 0 /\ job'.path = 0
        /\ job'.upstreams = job.upstreams /\ job'.servers = DropAliases(job.servers) /\ job.at = Len(ings)
    BY <1>0, <1>2, JobFacts DEF EndLoop, JobFields
  <2>2. SameLocations(job.servers, job'.servers) /\ SameCerts(job.servers, job'.servers)
    BY <1>0, <2>1, JobFacts, AliasesDropped
  <2>3. IsServers(job'.servers) /\ BackendsNamed(job'.servers) /\ RootsAre(ings, Len(ings), job'.servers)
    BY <1>0, <2>2, JobFacts, LocationsStay
  <2>4. PathsAre(ings, 0, job'.servers)
    BY <2>3, PathsBegin
  <2>5. ~due => CertsAre(certs, ings, Len(ings), job'.servers)
    BY <1>0, <2>1, <2>2, CertsStay
  <2>6. Fits(ings, job') /\ Built(ings, job') /\ (~due => Certified(certs, ings, job'))
    BY <1>0, <2>1, <2>3, <2>4, <2>5, JobFacts DEF Fits, Built, Certified, Steps
  <2> QED
    BY <1>0, <2>1, <2>6, JobStep
<1> QED
  BY <1>1, <1>2 DEF FinishServers

(* A canary may always be at its backend, before its first path.           *)
LEMMA NoPathYet ==
  ASSUME NEW s \in Seq(Ingresses), NEW k \in 0 .. Len(s)
  PROVE  0 \in 0 .. PathsOfCanary(s, k)
<1>1. k < Len(s) => Len(s[k + 1].paths) \in Nat
  BY IngressFacts, OneMore
<1> QED
  BY <1>1 DEF PathsOfCanary, Merging

(* getBackendServers puts the paths of the next Ingress on their servers,  *)
(* or ends the loop.                                                       *)
LEMMA InvGetBackendServers ==
  ASSUME IInv, GetBackendServers
  PROVE  IInv'
<1>0. /\ job.step = "locations" /\ UNCHANGED <<cluster, due, running, file, changes>>
      /\ UpsAfter(ings, Len(ings), job.upstreams) /\ (Apart(ings) => PathsAre(ings, job.at, job.servers))
      /\ (~due => CertsAre(certs, ings, Len(ings), job.servers))
  BY DEF GetBackendServers, Iterate, EndLoop, IInv, JobOK, Built, Certified
<1>1. CASE Iterate("locations", [job EXCEPT !.servers = AddPaths(AddAuth(@, This), job.upstreams, This),
                                            !.upstreams = AddAffinity(@, This)])
  <2>1. job.at < Len(ings)
    BY <1>0, <1>1, JobFacts DEF Iterate
  <2> DEFINE r == AddAuth(job.servers, This)
  <2>2. /\ DOMAIN job' = JobFields /\ job'.step = "locations" /\ job'.ings = ings /\ job'.at = job.at + 1 /\ job'.path = 0
        /\ job'.upstreams = AddAffinity(job.upstreams, This)
        /\ job'.servers = AddPaths(r, job.upstreams, This)
    BY <1>0, <1>1, JobFacts DEF Iterate, JobFields
  <2>3. SameLocations(job.servers, r) /\ SameCerts(job.servers, r)
    BY <1>0, JobFacts, AuthAdded
  <2> HIDE DEF r
  <2>4. IsServers(r) /\ BackendsNamed(r) /\ (Apart(ings) => PathsAre(ings, job.at, r))
    BY <1>0, <2>3, JobFacts, LocationsStay
  <2>5. ~due => CertsAre(certs, ings, Len(ings), r)
    BY <1>0, <2>3, CertsStay
  <2>6. This \in Ingresses
    BY <1>0, <2>1, JobFacts
  <2>7. IsServers(job'.servers) /\ BackendsNamed(job'.servers) /\ SameCerts(r, job'.servers)
    BY <2>2, <2>4, <2>6, PathsOfOne
  <2>8. ~due => CertsAre(certs, ings, Len(ings), job'.servers)
    BY <2>5, <2>7, CertsStay
  <2>9. Apart(ings) => PathsAre(ings, job.at + 1, job'.servers)
    BY <1>0, <2>1, <2>2, <2>4, JobFacts, PathsAdded
  <2>10. UpsAfter(ings, Len(ings), job'.upstreams)
    BY <1>0, <2>2, AffinityAdded
  <2>11. Fits(ings, job') /\ Built(ings, job') /\ (~due => Certified(certs, ings, job'))
    BY <1>0, <2>1, <2>2, <2>7, <2>8, <2>9, <2>10, JobFacts DEF Fits, Built, Certified, Steps
  <2> QED
    BY <1>0, <2>2, <2>11, JobStep
<1>2. CASE EndLoop("locations", "canaries", job)
  <2>1. /\ DOMAIN job' = JobFields /\ job'.step = "canaries" /\ job'.ings = ings /\ job'.at = 0 /\ job'.path = 0
        /\ job'.upstreams = job.upstreams /\ job'.servers = job.servers /\ job.at = Len(ings)
    BY <1>0, <1>2, JobFacts DEF EndLoop, JobFields
  <2>2. UpsMerged(ings, job'.upstreams)
    BY <1>0, <2>1, UpstreamsEnd
  <2>3. 0 \in 0 .. PathsOfCanary(ings, 0) /\ 0 \in 0 .. Len(ings)
    BY <1>0, JobFacts, NoPathYet
  <2>4. Fits(ings, job') /\ Built(ings, job') /\ (~due => Certified(certs, ings, job'))
    BY <1>0, <2>1, <2>2, <2>3, JobFacts DEF Fits, Built, Certified, Steps
  <2> QED
    BY <1>0, <2>1, <2>4, JobStep
<1> QED
  BY <1>1, <1>2 DEF GetBackendServers

(* A canary merges one backend: the upstreams of other Ingresses stay, or  *)
(* the process dies.                                                       *)
LEMMA InvMergeCanary ==
  ASSUME IInv, MergeCanary
  PROVE  IInv'
<1>1. /\ job.step = "canaries" /\ UNCHANGED <<cluster, due, running, file, changes>>
      /\ UpsMerged(ings, job.upstreams) /\ (Apart(ings) => PathsAre(ings, Len(ings), job.servers))
      /\ (~due => CertsAre(certs, ings, Len(ings), job.servers)) /\ job.path \in 0 .. PathsOfCanary(ings, job.at)
  BY DEF MergeCanary, IInv, JobOK, Fits, Built, Certified
<1>2. job.at < Len(ings) /\ This.canary /\ \E i \in DOMAIN ings : ~ings[i].canary
  BY <1>1, JobFacts DEF MergeCanary
<1>3. This = ings[job.at + 1] /\ This \in Ingresses /\ job.at + 1 \in 1 .. Len(ings)
  BY <1>1, <1>2, JobFacts
<1>4. PathsOfCanary(ings, job.at) = Len(This.paths) /\ Len(This.paths) \in Nat
  BY <1>2, <1>3, IngressFacts DEF PathsOfCanary, Merging
<1> DEFINE merged == MergeAlternative(job.servers, job.upstreams, This, job.path)
<1>5. job' = IF merged = None THEN [job EXCEPT !.step = "panic"]
             ELSE IF job.path < Len(This.paths) THEN [job EXCEPT !.upstreams = merged, !.path = @ + 1]
             ELSE [job EXCEPT !.upstreams = merged, !.path = 0, !.at = @ + 1]
  BY DEF MergeCanary
<1>6. merged # None => UpsMerged(ings, merged)
  BY <1>1, <1>2, <1>3, <1>4, JobFacts, Merged
<1> HIDE DEF merged
<1>7. CASE merged = None
  <2>1. /\ DOMAIN job' = JobFields /\ job'.step = "panic" /\ job'.ings = ings /\ job'.at = job.at
        /\ job'.servers = job.servers
    BY <1>1, <1>5, <1>7, JobFacts DEF JobFields
  <2>2. Fits(ings, job') /\ Built(ings, job') /\ (~due => Certified(certs, ings, job'))
    BY <1>1, <2>1, JobFacts DEF Fits, Built, Certified, Steps
  <2> QED
    BY <1>1, <2>1, <2>2, JobStep
<1>8. CASE merged # None
  <2>1. /\ DOMAIN job' = JobFields /\ job'.step = "canaries" /\ job'.ings = ings
        /\ job'.servers = job.servers /\ job'.upstreams = merged
        /\ \/ job.path < Len(This.paths) /\ job'.at = job.at /\ job'.path = job.path + 1
           \/ job'.at = job.at + 1 /\ job'.path = 0
    BY <1>1, <1>5, <1>8, JobFacts DEF JobFields
  <2>2. job'.at \in 0 .. Len(ings) /\ job'.path \in 0 .. PathsOfCanary(ings, job'.at)
    BY <1>1, <1>2, <1>4, <2>1, JobFacts, NoPathYet
  <2>3. Fits(ings, job') /\ Built(ings, job') /\ (~due => Certified(certs, ings, job'))
    BY <1>1, <1>6, <1>8, <2>1, <2>2, JobFacts DEF Fits, Built, Certified, Steps
  <2> QED
    BY <1>1, <2>1, <2>3, JobStep
<1> QED
  BY <1>7, <1>8

(* The loop over canaries passes other Ingresses, and ends.                *)
LEMMA InvMergeCanaries ==
  ASSUME IInv, MergeCanaries
  PROVE  IInv'
<1>1. CASE MergeCanary
  BY <1>1, InvMergeCanary
<1>2. ASSUME ~MergeCanary
      PROVE  /\ job.step = "canaries" /\ UNCHANGED <<cluster, due, running, file, changes>>
             /\ UpsMerged(ings, job.upstreams) /\ (Apart(ings) => PathsAre(ings, Len(ings), job.servers))
             /\ (~due => CertsAre(certs, ings, Len(ings), job.servers)) /\ job.path \in 0 .. PathsOfCanary(ings, job.at)
  BY <1>2 DEF MergeCanaries, Iterate, EndLoop, IInv, JobOK, Fits, Built, Certified
<1>3. CASE ~MergeCanary /\ Iterate("canaries", job) /\ (This.canary => \A i \in DOMAIN job.ings : job.ings[i].canary)
  <2>1. job.at < Len(ings) /\ (This.canary => \A i \in DOMAIN ings : ings[i].canary)
    BY <1>2, <1>3, JobFacts DEF Iterate
  <2>2. PathsOfCanary(ings, job.at) = 0 /\ job.path = 0
    <3>1. ~Merging(ings, job.at)
      BY <1>2, <1>3, <2>1, JobFacts DEF Merging
    <3> QED
      BY <1>2, <1>3, <3>1 DEF PathsOfCanary
  <2>3. /\ DOMAIN job' = JobFields /\ job'.step = "canaries" /\ job'.ings = ings /\ job'.at = job.at + 1 /\ job'.path = 0
        /\ job'.upstreams = job.upstreams /\ job'.servers = job.servers
    BY <1>2, <1>3, <2>2, JobFacts DEF Iterate, JobFields
  <2>4. job'.at \in 0 .. Len(ings) /\ 0 \in 0 .. PathsOfCanary(ings, job'.at)
    BY <1>2, <1>3, <2>1, <2>3, JobFacts, NoPathYet
  <2>5. Fits(ings, job') /\ Built(ings, job') /\ (~due => Certified(certs, ings, job'))
    BY <1>2, <1>3, <2>3, <2>4, JobFacts DEF Fits, Built, Certified, Steps
  <2> QED
    BY <1>2, <1>3, <2>3, <2>5, JobStep
<1>4. CASE ~MergeCanary /\ EndLoop("canaries", "backends", [job EXCEPT !.todo = DOMAIN job.upstreams])
  <2>1. job.at = Len(ings)
    BY <1>2, <1>4, JobFacts DEF EndLoop
  <2>2. PathsOfCanary(ings, job.at) = 0 /\ job.path = 0
    <3>1. ~Merging(ings, job.at)
      BY <1>2, <1>4, <2>1, JobFacts DEF Merging
    <3> QED
      BY <1>2, <1>4, <3>1 DEF PathsOfCanary
  <2>3. /\ DOMAIN job' = JobFields /\ job'.step = "backends" /\ job'.ings = ings /\ job'.at = 0 /\ job'.path = 0
        /\ job'.upstreams = job.upstreams /\ job'.servers = job.servers
    BY <1>2, <1>4, <2>2, JobFacts DEF EndLoop, JobFields
  <2>4. 0 \in 0 .. Len(ings) /\ IsServers(job'.servers) /\ BackendsNamed(job'.servers)
    BY <1>2, <1>4, <2>3, JobFacts
  <2>5. Apart(ings) => Located(ings, job'.servers, job'.upstreams)
    BY <1>2, <1>4, <2>3, JobFacts, LocatedFirst
  <2>6. AllCustom(job'.servers, job'.custom)
    BY <2>4, CustomFirst
  <2>7. Fits(ings, job') /\ Built(ings, job') /\ (~due => Certified(certs, ings, job'))
    BY <1>2, <1>4, <2>3, <2>4, <2>5, <2>6 DEF Fits, Built, Certified, Steps
  <2> QED
    BY <1>2, <1>4, <2>3, <2>7, JobStep
<1> QED
  BY <1>1, <1>3, <1>4 DEF MergeCanaries

(* One upstream of the map: a location whose upstream has no endpoints may *)
(* change to a custom default backend, which is made with it.              *)
LEMMA InvVisitUpstream ==
  ASSUME IInv, NEW n, VisitUpstream(n)
  PROVE  IInv'
<1>0. /\ job.step = "backends" /\ UNCHANGED <<cluster, due, running, file, changes>>
      /\ UpsMerged(ings, job.upstreams) /\ (Apart(ings) => Located(ings, job.servers, job.upstreams))
      /\ AllCustom(job.servers, job.custom) /\ (~due => CertsAre(certs, ings, Len(ings), job.servers))
  BY DEF VisitUpstream, IInv, JobOK, Built, Certified
<1> DEFINE locations == UNION {{job.servers[h].locations[p] : p \in DOMAIN job.servers[h].locations} : h \in DOMAIN job.servers}
           made(l) == Put([job.upstreams[n] EXCEPT !.endpoints = FallbackEndpoints(l)], "name", CustomName(l))
           more == {made(l) : l \in {k \in {j \in locations : ShouldCreate(n, j)} : FallbackEndpoints(k) # <<>>}}
<1>1. job' = [job EXCEPT !.todo = @ \ {n},
                !.servers = VisitedServers(n, @),
                !.custom = @ \cup more]
  BY DEF VisitUpstream
<1>2. ASSUME NEW h \in DOMAIN job.servers, NEW p \in DOMAIN job.servers[h].locations,
             ShouldCreate(n, job.servers[h].locations[p]), FallbackEndpoints(job.servers[h].locations[p]) # <<>>
      PROVE  \E c \in more : c.name = CustomName(job.servers[h].locations[p])
  <2> DEFINE l == job.servers[h].locations[p]
  <2>1. l \in locations
    OBVIOUS
  <2>2. made(l).name = CustomName(l)
    BY DEF Put
  <2>3. made(l) \in more
    <3> HIDE DEF locations, made
    <3> QED
      BY <1>2, <2>1
  <2> HIDE DEF more, made
  <2> QED
    BY <2>2, <2>3
<1> HIDE DEF more
<1>3. /\ DOMAIN job' = JobFields /\ job'.step = "backends" /\ job'.ings = ings /\ job'.at = job.at /\ job'.path = 0
      /\ job'.upstreams = job.upstreams /\ job'.servers = VisitedServers(n, job.servers) /\ job'.custom = job.custom \cup more
  BY <1>0, <1>1, JobFacts DEF JobFields
<1>4. IsServers(job'.servers) /\ SameCerts(job.servers, job'.servers)
  BY <1>0, <1>3, JobFacts, VisitShape
<1>5. Apart(ings) => Located(ings, job'.servers, job'.upstreams)
  BY <1>0, <1>3, JobFacts, VisitLocated
<1>6. AllCustom(job'.servers, job'.custom)
  BY <1>0, <1>2, <1>3, JobFacts, VisitCustom
<1>7. ~due => CertsAre(certs, ings, Len(ings), job'.servers)
  BY <1>0, <1>4, CertsStay
<1>8. Fits(ings, job') /\ Built(ings, job') /\ (~due => Certified(certs, ings, job'))
  BY <1>0, <1>3, <1>4, <1>5, <1>6, <1>7, JobFacts DEF Fits, Built, Certified, Steps
<1> QED
  BY <1>0, <1>3, <1>8, JobStep

(* What getStreamServices returns for a port.                              *)
LEMMA StreamsShape ==
  \A p \in DOMAIN GetStreamServices : DOMAIN GetStreamServices[p] = StreamFields
BY DEF GetStreamServices, StreamFields

(* syncIngress compares, reloads and configures. An equal model is thrown  *)
(* away, and the one that runs is as good.                                 *)
LEMMA InvApply ==
  ASSUME IInv, Apply
  PROVE  IInv'
<1>0. /\ job.step = "backends" /\ job' = NoJob /\ UNCHANGED <<cluster, due, changes>>
      /\ (Apart(ings) => Located(ings, job.servers, job.upstreams))
      /\ AllCustom(job.servers, job.custom) /\ (~due => CertsAre(certs, ings, Len(ings), job.servers))
  BY DEF Apply, IInv, JobOK, Built, Certified
<1>1. ings' = ings /\ services' = services /\ certs' = certs /\ streams' = streams
  BY <1>0 DEF cluster
<1> DEFINE new == Model(job.upstreams, job.custom, job.servers)
<1>2. IF Equal(running, new) THEN UNCHANGED <<running, file>>
      ELSE running' = new /\ file' = IF DynamicIsEnough(running, new) THEN file ELSE Written(new)
  BY DEF Apply
<1>3. /\ new.backends = job.upstreams /\ new.custom = job.custom /\ new.servers = job.servers
      /\ \A p \in DOMAIN new.streams : DOMAIN new.streams[p] = StreamFields
  BY StreamsShape DEF Model
<1> HIDE DEF new
<1>4. /\ AreServers(new.servers) /\ DefServer \in DOMAIN new.servers /\ AllCustom(new.servers, new.custom)
      /\ (Apart(ings) => Located(ings, new.servers, new.backends))
      /\ (~due => CertsAre(certs, ings, Len(ings), new.servers))
  BY <1>0, <1>3, JobFacts DEF IsServers
<1>5. RunningOK /\ ings \in Seq(Ingresses)
  BY DEF IInv, ClusterOK
<1>6. ClusterOK'
  BY <1>0, <1>1 DEF IInv, ClusterOK
<1>7. JobOK'
  BY <1>0, IdleFits DEF JobOK
<1>8. CASE Equal(running, new)
  <2>1. running' = running /\ file' = file
    BY <1>2, <1>8
  <2>2. RunningOK'
    BY <1>5, <2>1 DEF RunningOK
  <2>3. EqualServers(running.servers, new.servers)
    BY <1>8 DEF Equal
  <2>4. DOMAIN running.servers = DOMAIN new.servers /\ SameCerts(new.servers, running.servers)
    BY <2>3, EqualServersFacts
  <2>5. ~due => CertsAre(certs, ings, Len(ings), running.servers)
    BY <1>4, <2>4, CertsStay
  <2>6. Apart(ings) => Located(ings, running.servers, running.backends)
    BY <1>4, <1>5, <1>8, EqualLocated DEF RunningOK
  <2>7. UpToDate'
    BY <1>0, <1>1, <1>4, <2>1, <2>4, <2>5, <2>6 DEF UpToDate
  <2> QED
    BY <1>6, <1>7, <2>2, <2>7 DEF IInv
<1>9. CASE ~Equal(running, new)
  <2>1. running' = new
    BY <1>2, <1>9
  <2>2. WithoutProxy(file') = WithoutProxy(Written(new))
    <3>1. CASE DynamicIsEnough(running, new)
      <4>1. file' = file
        BY <1>2, <1>9, <3>1
      <4>2. DOMAIN running.servers = DOMAIN new.servers
        BY <3>1, EqualServersFacts DEF DynamicIsEnough
      <4>3. WithoutProxy(file) = WithoutProxy(Written(running))
        BY <1>4, <1>5, <4>2 DEF RunningOK
      <4>4. WithoutProxy(Written(running)) = WithoutProxy(Written(new))
        BY <1>3, <1>4, <1>5, <3>1, WrittenEqual DEF RunningOK
      <4> QED
        BY <4>1, <4>3, <4>4
    <3>2. CASE ~DynamicIsEnough(running, new)
      BY <1>2, <1>9, <3>2
    <3> QED
      BY <3>1, <3>2
  <2>3. RunningOK'
    BY <1>3, <1>4, <2>1, <2>2 DEF RunningOK
  <2>4. UpToDate'
    BY <1>0, <1>1, <1>4, <2>1 DEF UpToDate
  <2> QED
    BY <1>6, <1>7, <2>3, <2>4 DEF IInv
<1> QED
  BY <1>8, <1>9

(* A new process has no model, and synchronizes first of all.              *)
LEMMA InvRestart ==
  ASSUME IInv, Restart
  PROVE  IInv'
<1>1. ClusterOK'
  BY DEF Restart, cluster, IInv, ClusterOK
<1>2. JobOK'
  BY IdleFits DEF Restart, JobOK
<1>3. RunningOK'
  BY DEF Restart, RunningOK, NoModel, AreServers, AllCustom
<1>4. UpToDate'
  BY DEF Restart, UpToDate
<1> QED
  BY <1>1, <1>2, <1>3, <1>4 DEF IInv

(* A change of the cluster makes another synchronization due.              *)
LEMMA ChangeStep ==
  ASSUME IInv, Change, ClusterOK', job.step = "idle" \/ ings' = ings
  PROVE  IInv'
<1>1. job' = job /\ running' = running /\ file' = file /\ due' = TRUE
  BY DEF Change
<1>2. JobOK'
  <2>1. CASE job.step = "idle"
    BY <1>1, <2>1, IdleFits DEF IInv, JobOK
  <2>2. CASE ings' = ings
    BY <1>1, <2>2 DEF IInv, JobOK
  <2> QED
    BY <2>1, <2>2
<1>3. RunningOK' /\ UpToDate'
  BY <1>1 DEF IInv, RunningOK, UpToDate
<1> QED
  BY <1>2, <1>3 DEF IInv

Users ==
  \/ ChangeIngresses
  \/ \E s \in Services : ChangeService(s)
  \/ \E s \in Secrets : ChangeCertificate(s)
  \/ \E p \in StreamPorts : ChangeStream(p)

(* What users do.                                                          *)
LEMMA InvChange ==
  ASSUME IInv, Users
  PROVE  IInv'
<1>1. Change /\ changes' \in 0 .. MaxChanges
  BY ClusterAssumption DEF Users, ChangeIngresses, ChangeService, ChangeCertificate, ChangeStream, Change, IInv, ClusterOK
<1>2. CASE ChangeIngresses
  <2>1. ings \in Seq(Ingresses) /\ Len(ings) \in Nat /\ Len(ings) <= MaxIngresses
    BY DEF IInv, ClusterOK
  <2>2. ings' \in Seq(Ingresses) /\ Len(ings') <= MaxIngresses
    <3>1. ASSUME NEW m \in Manifests, Len(ings) < MaxIngresses, ings' = Append(ings, m)
          PROVE  ings' \in Seq(Ingresses) /\ Len(ings') <= MaxIngresses
      BY <2>1, <3>1, ClusterAssumption DEF Ingresses
    <3>2. ASSUME NEW i \in DOMAIN ings, ings' = RemoveAt(ings, i)
          PROVE  ings' \in Seq(Ingresses) /\ Len(ings') <= MaxIngresses
      BY <2>1, <3>2, ClusterAssumption DEF RemoveAt
    <3>3. ASSUME NEW i \in DOMAIN ings, NEW m \in Manifests, ings' = [ings EXCEPT ![i] = m]
          PROVE  ings' \in Seq(Ingresses) /\ Len(ings') <= MaxIngresses
      BY <2>1, <3>3 DEF Ingresses
    <3> QED
      BY <1>2, <3>1, <3>2, <3>3 DEF ChangeIngresses
  <2>3. ClusterOK'
    BY <1>1, <1>2, <2>2 DEF ChangeIngresses, IInv, ClusterOK
  <2> QED
    BY <1>1, <1>2, <2>3, ChangeStep DEF ChangeIngresses
<1>3. CASE \E s \in Services : ChangeService(s)
  <2>1. ClusterOK'
    BY <1>1, <1>3 DEF ChangeService, IInv, ClusterOK
  <2> QED
    BY <1>1, <1>3, <2>1, ChangeStep DEF ChangeService
<1>4. CASE \E s \in Secrets : ChangeCertificate(s)
  <2>1. ClusterOK'
    BY <1>1, <1>4 DEF ChangeCertificate, IInv, ClusterOK
  <2> QED
    BY <1>1, <1>4, <2>1, ChangeStep DEF ChangeCertificate
<1>5. CASE \E p \in StreamPorts : ChangeStream(p)
  <2>1. ClusterOK'
    BY <1>1, <1>5 DEF ChangeStream, IInv, ClusterOK
  <2> QED
    BY <1>1, <1>5, <2>1, ChangeStep DEF ChangeStream
<1> QED
  BY <1>2, <1>3, <1>4, <1>5 DEF Users

(* All of them.                                                            *)
LEMMA InvNext ==
  ASSUME IInv, [Next]_vars
  PROVE  IInv'
<1>1. CASE Sync
  BY <1>1, InvBegin, InvCreateUpstreams, InvCreateServers, InvFinishServers, InvGetBackendServers,
     InvMergeCanaries, InvApply, InvVisitUpstream DEF Sync
<1>2. CASE Restart
  BY <1>2, InvRestart
<1>3. CASE UNCHANGED vars
  BY <1>3 DEF vars, cluster, IInv, ClusterOK, JobOK, RunningOK, UpToDate
<1>4. CASE Users
  BY <1>4, InvChange
<1>5. Next => Sync \/ Restart \/ Users
  BY DEF Next, Users
<1> QED
  BY <1>1, <1>2, <1>3, <1>4, <1>5

(* The invariant that the others follow from: where the synchronization is *)
(* and how far, what it has built of the Ingresses it took, and what it    *)
(* was, once there is nothing left to do.                                  *)
THEOREM InvCorrect == Spec => []IInv
<1>1. Init => IInv
  BY InvInit
<1>2. IInv /\ [Next]_vars => IInv'
  BY InvNext
<1> QED
  BY <1>1, <1>2, PTL DEF Spec

-----------------------------------------------------------------------------
(* The names of the properties, in those of the invariant.                 *)

(* Mains, hosts and the Ingresses that name, claim and catch all are those *)
(* of the whole list.                                                      *)
LEMMA SameNames ==
  ASSUME ings \in Seq(Ingresses)
  PROVE  /\ DOMAIN ings = 1 .. Len(ings) /\ Len(ings) \in Nat
         /\ Mains = MainsTo(ings, Len(ings)) /\ Hosts = HostsTo(ings, Len(ings)) /\ CatchAlls = CatchAllsTo(ings, Len(ings))
         /\ \A h : Naming(h) = NamingTo(ings, Len(ings), h)
         /\ \A h, path : Claiming(h, path) = ClaimingTo(ings, Len(ings), h, path)
<1>1. DOMAIN ings = 1 .. Len(ings) /\ Len(ings) \in Nat
  OBVIOUS
<1>2. Mains = MainsTo(ings, Len(ings))
  BY <1>1 DEF Mains, MainsTo
<1> QED
  BY <1>1, <1>2 DEF Hosts, HostsTo, CatchAlls, CatchAllsTo, Naming, NamingTo, Claiming, ClaimingTo

(* Canaries are apart by the names of their upstreams.                     *)
LEMMA SettledApart ==
  ASSUME IInv, CanariesApart
  PROVE  Apart(ings)
<1>1. ings \in Seq(Ingresses)
  BY DEF IInv, ClusterOK
<1>2. \A i \in DOMAIN ings : UpstreamsOf(i) = NamesOf(ings[i])
  BY DEF UpstreamsOf, BackendsOf, PathsOf, NamesOf
<1> QED
  BY <1>1, <1>2, SameNames DEF CanariesApart, Apart, Mains

-----------------------------------------------------------------------------
(* What the invariant says.                                                *)

(* The parts that are built have the shape that the later loops rely on,   *)
(* whatever Services do meanwhile.                                         *)
THEOREM TypeCorrect == Spec => []TypeOK
<1>1. ASSUME IInv PROVE TypeOK
  <2>1. /\ DOMAIN services = Services /\ DOMAIN certs = Secrets /\ DOMAIN streams = StreamPorts
        /\ Len(ings) <= MaxIngresses /\ changes \in 0 .. MaxChanges
    BY <1>1 DEF IInv, ClusterOK
  <2>2. job.step \in Steps
    BY <1>1 DEF IInv, JobOK, Fits
  <2>3. job.step # "idle" => DefServer \in DOMAIN job.servers /\ \A h \in DOMAIN job.servers : Root \in DOMAIN job.servers[h].locations
    BY <1>1, JobFacts DEF IsServers, AreServers, IsServer
  <2>4. ASSUME job.step \in {"configure", "locations"}, NEW i \in DOMAIN job.ings, NEW p \in ToSet(job.ings[i].paths)
        PROVE  UpstreamName(p.backend) \in DOMAIN job.upstreams
    <3>1. job.ings = ings /\ DOMAIN ings = 1 .. Len(ings)
      BY <1>1, <2>4, JobFacts
    <3>2. UpsAfter(ings, Len(ings), job.upstreams)
      BY <1>1, <2>4 DEF IInv, JobOK, Built
    <3>3. NamesOf(ings[i]) \subseteq DOMAIN job.upstreams
      BY <2>4, <3>1, <3>2 DEF UpsAfter
    <3> QED
      BY <2>4, <3>1, <3>3 DEF NamesOf
  <2> QED
    BY <2>1, <2>2, <2>3, <2>4 DEF TypeOK, Steps
<1> QED
  BY <1>1, InvCorrect, PTL

(* nginx.conf is that of the running model but for the PROXY protocol of   *)
(* streams, though reloads are skipped when a comparison of models that    *)
(* leaves much out finds no difference.                                    *)
THEOREM FileCorrect == Spec => []FileIsCurrent
<1>1. ASSUME IInv PROVE FileIsCurrent
  BY <1>1 DEF IInv, RunningOK, UpToDate, FileIsCurrent, Settled, NoJob
<1> QED
  BY <1>1, InvCorrect, PTL

(* Locations lead to backends that exist, also after those of canaries     *)
(* were deleted and others were replaced by custom default backends.       *)
THEOREM LocationsCorrect == Spec => []LocationsHaveBackends
<1>1. ASSUME IInv PROVE LocationsHaveBackends
  <2>1. ASSUME Settled, CanariesApart,
               NEW h \in DOMAIN running.servers, NEW path \in DOMAIN running.servers[h].locations
        PROVE  running.servers[h].locations[path].backend \in DOMAIN running.backends \cup {c.name : c \in running.custom}
    <3> DEFINE l == running.servers[h].locations[path]
               g == GrantedTo(ings, Len(ings), h, path)
    <3>1. Apart(ings)
      BY <1>1, <2>1, SettledApart
    <3>2. Located(ings, running.servers, running.backends)
      BY <1>1, <2>1, <3>1 DEF IInv, UpToDate, Settled, NoJob
    <3>3. g \in DOMAIN running.backends /\ (l.backend = g \/ Custom(l, g, running.backends))
      BY <3>2 DEF Located
    <3>4. CustomHas(l, running.custom) /\ IsLocation(l)
      BY <1>1 DEF IInv, RunningOK, AllCustom, AreServers, IsServer
    <3> HIDE DEF l, g
    <3>5. CASE l.backend = g
      BY <3>3, <3>5 DEF l
    <3>6. CASE Custom(l, g, running.backends)
      <4>1. l.backend \notin UpNames
        BY <3>4, <3>6, NamesDiffer DEF Custom
      <4> QED
        BY <3>4, <4>1 DEF CustomHas, l
    <3> QED
      BY <3>3, <3>5, <3>6
  <2> QED
    BY <2>1 DEF LocationsHaveBackends
<1> QED
  BY <1>1, InvCorrect, PTL

(* The TLS section of an Ingress has finitely many entries, each with a    *)
(* Secret or none.                                                         *)
LEMMA TLSFinite ==
  ASSUME NEW m \in Ingresses
  PROVE  IsFiniteSet(ToSet(m.tls)) /\ DOMAIN m.tls \subseteq Nat
         /\ \A t \in ToSet(m.tls) : t.secret \in Secrets \cup {None} /\ \E k \in DOMAIN m.tls : t = m.tls[k]
<1> DEFINE S == DOMAIN m.tls
<1>1. IsIngress(m)
  BY IngressFacts
<1>2. m.tls \in Seq(ToSet(m.tls)) /\ S = 1 .. Len(m.tls) /\ Len(m.tls) \in Nat
  BY <1>1 DEF IsIngress
<1>3. \A t \in ToSet(m.tls) : \E k \in S : t = m.tls[k]
  BY DEF ToSet
<1>4. m.tls \in Surjection(S, ToSet(m.tls))
  BY <1>2, <1>3 DEF Surjection
<1>5. IsFiniteSet(S)
  BY <1>2, FS_Interval
<1>6. IsFiniteSet(ToSet(m.tls))
  BY <1>4, <1>5, FS_Surjection
<1> QED
  BY <1>1, <1>2, <1>3, <1>6 DEF IsIngress

(* The certificate for a host: of a Secret the Ingress names, and that of  *)
(* the only entry that lists the host.                                     *)
LEMMA CertOfSecret ==
  ASSUME NEW c, NEW h, NEW m \in Ingresses
  PROVE  /\ CertOf(c, h, m) # DefaultCertificate => \E s \in Secrets : c[s] = CertOf(c, h, m)
         /\ \A t \in ToSet(m.tls) : h \in t.hosts /\ Cardinality({u \in ToSet(m.tls) : h \in u.hosts}) = 1 /\ t.secret # None =>
              CertOf(c, h, m) = IF ValidFor(c[t.secret], h) THEN c[t.secret] ELSE DefaultCertificate
<1> DEFINE name == TLSSecretName(h, m, c)
           listed == {k \in DOMAIN m.tls : h \in m.tls[k].hosts}
           covered == {k \in DOMAIN m.tls : IF m.tls[k].secret = None THEN FALSE ELSE Covers(c[m.tls[k].secret], h)}
<1>0. name = IF listed # {} THEN m.tls[First(listed)].secret ELSE IF covered # {} THEN m.tls[First(covered)].secret ELSE None
  BY DEF TLSSecretName
<1>1. listed \subseteq DOMAIN m.tls /\ covered \subseteq DOMAIN m.tls
  OBVIOUS
<1>2. (listed # {} => First(listed) \in listed) /\ (covered # {} => First(covered) \in covered)
  <2> HIDE DEF listed, covered
  <2> QED BY <1>1, TLSFinite, FirstLeast
<1>3. \A k \in DOMAIN m.tls : m.tls[k] \in ToSet(m.tls) /\ m.tls[k].secret \in Secrets \cup {None}
  BY TLSFinite DEF ToSet
<1>4. name \in Secrets \cup {None}
  <2> HIDE DEF listed, covered
  <2> QED BY <1>0, <1>1, <1>2, <1>3
<1>5. CertOf(c, h, m) = IF name = None THEN DefaultCertificate
                        ELSE IF ValidFor(c[name], h) THEN c[name] ELSE DefaultCertificate
  BY DEF CertOf, CertificateFor, ValidFor
<1>6. CertOf(c, h, m) # DefaultCertificate => \E s \in Secrets : c[s] = CertOf(c, h, m)
  <2> HIDE DEF name
  <2> QED BY <1>4, <1>5
<1>7. ASSUME NEW t \in ToSet(m.tls), h \in t.hosts, Cardinality({u \in ToSet(m.tls) : h \in u.hosts}) = 1, t.secret # None
      PROVE  name = t.secret
  <2> DEFINE U == {u \in ToSet(m.tls) : h \in u.hosts}
  <2>1. t \in U
    BY <1>7
  <2>2. PICK k \in DOMAIN m.tls : t = m.tls[k]
    BY TLSFinite
  <2>3. listed # {}
    BY <1>7, <2>2
  <2>4. m.tls[First(listed)] \in U
    BY <1>2, <1>3, <2>3
  <2>5. IsFiniteSet(U) /\ Cardinality(U) = 1
    BY <1>7, TLSFinite, FS_Subset
  <2> HIDE DEF U
  <2>6. m.tls[First(listed)] = t
    BY <2>1, <2>4, <2>5, FS_Singleton
  <2> HIDE DEF listed, name
  <2> QED
    BY <1>0, <2>3, <2>6
<1> HIDE DEF name
<1> QED
  BY <1>5, <1>6, <1>7

(* The certificate that a server has is that of the oldest Ingress with    *)
(* TLS that names its host, as the Secret holds it, and never for another  *)
(* host, whatever Secrets and Ingresses did before.                        *)
THEOREM CertificatesCorrect == Spec => []CertificatesAreRight
<1>1. ASSUME IInv PROVE CertificatesAreRight
  <2>1. ASSUME Settled, NEW h \in DOMAIN running.servers \ {DefServer}
        PROVE  LET withTLS == {i \in Naming(h) : ings[i].tls # <<>>}
                   cert == running.servers[h].cert
               IN  /\ cert = None <=> withTLS = {}
                   /\ cert \notin {None, DefaultCertificate} => ValidFor(cert, h) /\ \E s \in Secrets : certs[s] = cert
                   /\ withTLS # {} => \A t \in ToSet(ings[First(withTLS)].tls) :
                        h \in t.hosts /\ Cardinality({u \in ToSet(ings[First(withTLS)].tls) : h \in u.hosts}) = 1 /\ t.secret # None =>
                          cert = IF ValidFor(certs[t.secret], h) THEN certs[t.secret] ELSE DefaultCertificate
    <3> DEFINE withTLS == {i \in Naming(h) : ings[i].tls # <<>>}
               m == ings[First(withTLS)]
               cert == running.servers[h].cert
    <3>1. ings \in Seq(Ingresses)
      BY <1>1 DEF IInv, ClusterOK
    <3>2. withTLS = WithTLSTo(ings, Len(ings), h)
      BY <3>1, SameNames DEF WithTLSTo
    <3>3. CertsAre(certs, ings, Len(ings), running.servers)
      BY <1>1, <2>1 DEF IInv, UpToDate, Settled, NoJob
    <3>4. cert = IF withTLS = {} THEN None ELSE CertOf(certs, h, m)
      BY <3>2, <3>3 DEF CertsAre, CertGiven
    <3>5. withTLS # {} => m \in Ingresses
      <4>1. withTLS \subseteq DOMAIN ings /\ DOMAIN ings \subseteq Nat
        BY <3>1, SameNames DEF Naming, Mains
      <4>2. withTLS # {} => First(withTLS) \in DOMAIN ings
        <5> HIDE DEF withTLS
        <5> QED BY <4>1, FirstLeast
      <4> HIDE DEF withTLS
      <4> QED
        BY <3>1, <4>2
    <3> HIDE DEF withTLS, m, cert
    <3>6. CASE withTLS = {}
      BY <3>4, <3>6 DEF cert, withTLS
    <3>7. CASE withTLS # {}
      <4>1. cert = CertOf(certs, h, m) /\ m \in Ingresses
        BY <3>4, <3>5, <3>7
      <4>2. cert # None /\ (cert # DefaultCertificate => ValidFor(cert, h))
        BY <4>1, CertFound
      <4>3. cert # DefaultCertificate => \E s \in Secrets : certs[s] = cert
        BY <4>1, CertOfSecret
      <4>4. \A t \in ToSet(m.tls) : h \in t.hosts /\ Cardinality({u \in ToSet(m.tls) : h \in u.hosts}) = 1 /\ t.secret # None =>
              cert = IF ValidFor(certs[t.secret], h) THEN certs[t.secret] ELSE DefaultCertificate
        BY <4>1, CertOfSecret
      <4> QED
        BY <3>7, <4>2, <4>3, <4>4 DEF cert, withTLS, m
    <3> QED
      BY <3>6, <3>7
  <2> QED
    BY <2>1 DEF CertificatesAreRight
<1> QED
  BY <1>1, InvCorrect, PTL

(* The default backend, in the words of the property.                      *)
LEMMA SameDefault ==
  \A S : DefaultOf(S) = DefaultIn(ings, S)
BY DEF DefaultOf, DefaultIn

(* The paths of a host: the root, and those that Ingresses claim.          *)
LEMMA SamePaths ==
  ASSUME ings \in Seq(Ingresses), NEW h
  PROVE  PathsTo(ings, Len(ings), h) = {Root} \cup {PathOf(p) : p \in {q \in UNION {PathsOf(i) : i \in Mains} : Host(q) = h}}
<1> DEFINE claimed == {PathOf(p) : p \in {q \in UNION {PathsOf(i) : i \in Mains} : Host(q) = h}}
<1>1. ASSUME NEW path PROVE path \in claimed <=> Claiming(h, path) # {}
  <2>1. ASSUME path \in claimed PROVE Claiming(h, path) # {}
    <3>0. PICK i \in Mains : \E p \in ToSet(ings[i].paths) : Host(p) = h /\ PathOf(p) = path
      BY <2>1 DEF PathsOf
    <3>1. PICK p \in ToSet(ings[i].paths) : Host(p) = h /\ PathOf(p) = path
      BY <3>0
    <3>2. PICK k \in DOMAIN ings[i].paths : p = ings[i].paths[k]
      BY DEF ToSet
    <3>3. k \in Claims(ings[i], h, path)
      BY <3>1, <3>2 DEF Claims
    <3> QED
      BY <3>3 DEF Claiming
  <2>2. ASSUME Claiming(h, path) # {} PROVE path \in claimed
    <3>1. PICK i \in Mains : Claims(ings[i], h, path) # {}
      BY <2>2 DEF Claiming
    <3>2. PICK k \in DOMAIN ings[i].paths : Host(ings[i].paths[k]) = h /\ PathOf(ings[i].paths[k]) = path
      BY <3>1 DEF Claims
    <3>3. ings[i].paths[k] \in PathsOf(i)
      BY DEF PathsOf, ToSet
    <3> QED
      BY <3>2, <3>3
  <2> QED
    BY <2>1, <2>2
<1>2. \A path : path \in PathsTo(ings, Len(ings), h) <=> path = Root \/ Claiming(h, path) # {}
  BY InPathsTo, SameNames
<1> HIDE DEF claimed
<1>3. PathsTo(ings, Len(ings), h) = {Root} \cup claimed
  BY <1>1, <1>2
<1> QED
  BY <1>3 DEF claimed

(* The upstream that a path is granted.                                    *)
LEMMA SameGrant ==
  ASSUME ings \in Seq(Ingresses), NEW h, NEW path \in PathsTo(ings, Len(ings), h)
  PROVE  Granted(h, path) = GrantedTo(ings, Len(ings), h, path)
<1> DEFINE s == ings
           k == Len(ings)
<1>1. /\ CatchAlls = CatchAllsTo(s, k) /\ Naming(h) = NamingTo(s, k, h) /\ Claiming(h, path) = ClaimingTo(s, k, h, path)
  BY SameNames
<1>2. path = Root \/ ClaimingTo(s, k, h, path) # {}
  BY InPathsTo
<1>3. CASE Caught(s, k, h, path)
  <2>1. Granted(h, path) = DefaultIn(s, CatchAllsTo(s, k))
    BY <1>1, <1>3, SameDefault DEF Granted, Caught
  <2>2. GrantedTo(s, k, h, path) = DefaultIn(s, CatchAllsTo(s, k))
    BY <1>3 DEF GrantedTo, RootOf, Caught
  <2> QED
    BY <2>1, <2>2
<1>4. CASE ~Caught(s, k, h, path) /\ ClaimingTo(s, k, h, path) # {}
  <2>1. Granted(h, path) = ClaimedBy(s[First(ClaimingTo(s, k, h, path))], h, path)
    BY <1>1, <1>4 DEF Granted, Caught, ClaimedBy
  <2> QED
    BY <1>4, <2>1 DEF GrantedTo
<1>5. CASE ~Caught(s, k, h, path) /\ ClaimingTo(s, k, h, path) = {}
  <2>1. Granted(h, path) = IF h = DefServer THEN DefUpstream ELSE DefaultIn(s, NamingTo(s, k, h))
    BY <1>1, <1>5, SameDefault DEF Granted, Caught
  <2>2. h = DefServer => CatchAllsTo(s, k) = {}
    BY <1>2, <1>5 DEF Caught
  <2>3. GrantedTo(s, k, h, path) = RootOf(s, k, h)
    BY <1>5 DEF GrantedTo
  <2> QED
    BY <2>1, <2>2, <2>3 DEF RootOf, DefaultIn
<1> QED
  BY <1>3, <1>4, <1>5

(* Whatever the order of the loops and of the upstreams, the oldest        *)
(* Ingress that claims a path of a host has it, nobody else gets a         *)
(* location, and a path that nobody claims leads to the default.           *)
THEOREM OldestCorrect == Spec => []OldestIngressWins
<1>1. ASSUME IInv PROVE OldestIngressWins
  <2>1. ASSUME Settled, CanariesApart
        PROVE  /\ DOMAIN running.servers = Hosts
               /\ \A h \in Hosts :
                    LET locations == running.servers[h].locations IN
                    /\ DOMAIN locations = {Root} \cup {PathOf(p) : p \in {q \in UNION {PathsOf(i) : i \in Mains} : Host(q) = h}}
                    /\ \A path \in DOMAIN locations :
                         LET l == locations[path] IN
                         \/ l.backend = Granted(h, path)
                         \/ l.annotations.fallback # None /\ l.backend = CustomName(l) /\ Len(running.backends[Granted(h, path)].endpoints) = 0
    <3>1. ings \in Seq(Ingresses) /\ Hosts = HostsTo(ings, Len(ings))
      BY <1>1, SameNames DEF IInv, ClusterOK
    <3>2. Located(ings, running.servers, running.backends)
      BY <1>1, <2>1, SettledApart DEF IInv, UpToDate, Settled, NoJob
    <3>3. DOMAIN running.servers = Hosts
      BY <3>1, <3>2 DEF Located
    <3>4. ASSUME NEW h \in Hosts
          PROVE  DOMAIN running.servers[h].locations = PathsTo(ings, Len(ings), h)
      BY <3>2, <3>3 DEF Located
    <3>5. ASSUME NEW h \in Hosts, NEW path \in DOMAIN running.servers[h].locations
          PROVE  LET l == running.servers[h].locations[path]
                     g == Granted(h, path)
                 IN  l.backend = g \/ Custom(l, g, running.backends)
      <4>1. Granted(h, path) = GrantedTo(ings, Len(ings), h, path)
        BY <3>1, <3>4, SameGrant
      <4> QED
        BY <3>2, <3>3, <4>1 DEF Located
    <3> QED
      BY <3>1, <3>3, <3>4, <3>5, SamePaths DEF Custom
  <2> QED
    BY <2>1 DEF OldestIngressWins
<1> QED
  BY <1>1, InvCorrect, PTL

-----------------------------------------------------------------------------
(* Endpoints: what getEndpoints, a fold over those of a Service, lists.    *)

Key(e) == <<e.address, e.port>>
Once(s) == s \in Seq(ToSet(s)) /\ \A i, j \in DOMAIN s : s[i] = s[j] => i = j

(* The fold takes the last of the places it has, and adds its endpoint to  *)
(* what it made of the others.                                             *)
Add(s, e, port) == IF Serves(e, port) THEN AppendNew(s, Key(e)) ELSE s
ListStep(g, port, seq, s) == IF s = {} THEN <<>> ELSE Add(g[s \ {Max(s)}], seq[Max(s)], port)
Lists(g, port, seq) == g = [s \in SUBSET DOMAIN seq |-> ListStep(g, port, seq, s)]

(* getEndpoints lists what the recursive function has at all places.       *)
LEMMA EndpointsAreListed ==
  ASSUME NEW svc, NEW port, svc.external = None
  PROVE  GetEndpoints(svc, port) = (CHOOSE g : Lists(g, port, svc.endpoints))[DOMAIN svc.endpoints]
BY Zenon DEF GetEndpoints, FoldLeft, MapThenFoldSet, Lists, ListStep, Add, Key

(* A set of places that is not empty has a greatest one.                   *)
LEMMA MaxIsIn ==
  ASSUME NEW n \in Nat, NEW S \in SUBSET (1 .. n), S # {}
  PROVE  Max(S) \in S /\ \A y \in S : Max(S) >= y
<1> DEFINE U == {m \in Nat : \A y \in S : m >= y}
<1>1. U \in SUBSET Nat /\ n \in U
  OBVIOUS
<1>2. First(U) \in U /\ \A m \in U : First(U) <= m
  <2> HIDE DEF U
  <2> QED BY <1>1, FirstLeast
<1> DEFINE f == First(U)
<1> HIDE DEF f
<1>3. f \in Nat /\ (\A y \in S : f >= y) /\ \A m \in Nat : (\A y \in S : m >= y) => f <= m
  BY <1>2 DEF f
<1>4. f \in S
  <2> SUFFICES ASSUME f \notin S PROVE FALSE
    OBVIOUS
  <2>1. PICK y \in S : TRUE
    OBVIOUS
  <2>2. \A z \in S : z \in Nat /\ z >= 1 /\ f - 1 >= z
    BY <1>3
  <2>3. f - 1 \in Nat
    BY <1>3, <2>1, <2>2
  <2>4. f <= f - 1
    BY <1>3, <2>2, <2>3
  <2> QED BY <1>3, <2>4
<1> QED BY <1>3, <1>4 DEF Max

(* The recursion has a solution: one for the first places is one for one   *)
(* place more after a step.                                                *)
LEMMA ListsExists ==
  ASSUME NEW port, NEW seq, seq \in Seq(ToSet(seq))
  PROVE  \E g : Lists(g, port, seq)
<1> DEFINE D == DOMAIN seq
           Up(g, k) == \A s \in SUBSET (1 .. k) : g[s] = ListStep(g, port, seq, s)
           Bad == {k \in 0 .. Len(seq) : ~ \E g : Up(g, k)}
<1>1. D = 1 .. Len(seq) /\ Len(seq) \in Nat
  OBVIOUS
<1>2. Bad = {}
  <2> SUFFICES ASSUME Bad # {} PROVE FALSE
    OBVIOUS
  <2> DEFINE k == First(Bad)
  <2>1. k \in Bad /\ \A j \in Bad : k <= j
    <3>1. Bad \in SUBSET Nat
      BY <1>1
    <3> HIDE DEF Bad
    <3> QED BY <3>1, FirstLeast
  <2> HIDE DEF k
  <2>2. k \in 0 .. Len(seq) /\ (~ \E g : Up(g, k)) /\ \A j \in 0 .. Len(seq) : j < k => \E g : Up(g, j)
    <3>1. k \in 0 .. Len(seq) /\ ~ \E g : Up(g, k)
      BY <2>1
    <3>2. ASSUME NEW j \in 0 .. Len(seq), j < k PROVE \E g : Up(g, j)
      <4>1. j \notin Bad
        <5>1. k \in Nat /\ j \in Nat /\ ~(k <= j)
          BY <1>1, <3>1, <3>2
        <5> HIDE DEF Bad
        <5> QED BY <2>1, <5>1
      <4> HIDE DEF Up
      <4> QED BY <4>1
    <3> HIDE DEF Up
    <3> QED BY <3>1, <3>2
  <2>3. CASE k = 0
    <3> DEFINE g == [s \in SUBSET D |-> <<>>]
    <3>1. ASSUME NEW s \in SUBSET (1 .. k) PROVE g[s] = ListStep(g, port, seq, s)
      <4>1. s = {}
        BY <2>3
      <4> QED BY <4>1 DEF ListStep
    <3>2. Up(g, k)
      BY <3>1
    <3> HIDE DEF g, Up
    <3> QED BY <2>2, <3>2
  <2>4. CASE k # 0
    <3>1. k - 1 \in 0 .. Len(seq) /\ k - 1 < k /\ k \in Nat
      BY <1>1, <2>2, <2>4
    <3>2. PICK g : Up(g, k - 1)
      <4> HIDE DEF Up
      <4> QED BY <2>2, <3>1
    <3> DEFINE h == [s \in SUBSET D |-> ListStep(g, port, seq, s)]
    <3>3. ASSUME NEW s \in SUBSET (1 .. k) PROVE h[s] = ListStep(h, port, seq, s)
      <4>1. s \in SUBSET D
        BY <1>1, <2>2
      <4>2. CASE s = {}
        BY <4>1, <4>2 DEF ListStep
      <4>3. CASE s # {}
        <5> DEFINE t == s \ {Max(s)}
        <5>1. Max(s) \in s /\ \A y \in s : Max(s) >= y
          BY <3>1, <4>3, MaxIsIn
        <5>2. ASSUME NEW y \in t PROVE y \in 1 .. k - 1
          <6>1. y \in 1 .. k /\ Max(s) \in 1 .. k /\ Max(s) >= y /\ y # Max(s)
            BY <5>1
          <6> QED BY <3>1, <6>1
        <5>3. t \in SUBSET D
          BY <4>1
        <5> HIDE DEF t
        <5>4. g[t] = ListStep(g, port, seq, t)
          BY <3>2, <5>2
        <5>5. h[t] = g[t]
          BY <5>3, <5>4
        <5>6. h[s] = ListStep(g, port, seq, s)
          BY <4>1
        <5> HIDE DEF h
        <5> QED BY <4>3, <5>5, <5>6 DEF ListStep, t
      <4> QED BY <4>2, <4>3
    <3>4. Up(h, k)
      BY <3>3
    <3> HIDE DEF h, Up
    <3> QED BY <2>2, <3>4
  <2> QED BY <2>3, <2>4
<1>3. PICK g : Up(g, Len(seq))
  <2>1. Len(seq) \in 0 .. Len(seq)
    BY <1>1
  <2> HIDE DEF Up
  <2> QED BY <1>2, <2>1
<1> DEFINE h == [s \in SUBSET D |-> g[s]]
<1>4. ASSUME NEW s \in SUBSET D PROVE h[s] = ListStep(h, port, seq, s)
  <2>1. g[s] = ListStep(g, port, seq, s)
    BY <1>1, <1>3
  <2>2. CASE s = {}
    BY <2>1, <2>2 DEF ListStep
  <2>3. CASE s # {}
    <3>1. h[s \ {Max(s)}] = g[s \ {Max(s)}]
      OBVIOUS
    <3> QED BY <2>1, <2>3, <3>1 DEF ListStep
  <2> QED BY <2>2, <2>3
<1>5. h = [s \in SUBSET D |-> ListStep(h, port, seq, s)]
  BY <1>4
<1> HIDE DEF h
<1> QED BY <1>5 DEF Lists

(* AppendNew adds an endpoint that is not there yet.                       *)
LEMMA AppendNewOnce ==
  ASSUME NEW s, Once(s), NEW e
  PROVE  Once(AppendNew(s, e)) /\ ToSet(AppendNew(s, e)) = ToSet(s) \cup {e}
<1>1. s \in Seq(ToSet(s)) /\ (\A i, j \in DOMAIN s : s[i] = s[j] => i = j) /\ DOMAIN s = 1 .. Len(s) /\ Len(s) \in Nat
  BY DEF Once
<1>2. Contains(s, e) <=> e \in ToSet(s)
  BY <1>1 DEF Contains, ToSet
<1>3. CASE e \in ToSet(s)
  BY <1>2, <1>3 DEF AppendNew
<1>4. CASE e \notin ToSet(s)
  <2> DEFINE t == Append(s, e)
  <2>1. AppendNew(s, e) = t
    BY <1>2, <1>4 DEF AppendNew
  <2>2. s \in Seq(ToSet(s) \cup {e}) /\ e \in ToSet(s) \cup {e}
    BY <1>1
  <2>3. /\ t \in Seq(ToSet(s) \cup {e}) /\ DOMAIN t = 1 .. Len(s) + 1
        /\ (\A i \in 1 .. Len(s) : t[i] = s[i]) /\ t[Len(s) + 1] = e
    BY <1>1, <2>2
  <2> HIDE DEF t
  <2>4. \A i \in 1 .. Len(s) : t[i] \in ToSet(s) /\ t[i] # e
    BY <1>1, <1>4, <2>3 DEF ToSet
  <2>5. ToSet(t) = ToSet(s) \cup {e}
    <3>1. \A x \in ToSet(s) : \E i \in DOMAIN t : t[i] = x
      BY <1>1, <2>3 DEF ToSet
    <3>2. \A i \in DOMAIN t : i = Len(s) + 1 \/ i \in 1 .. Len(s)
      BY <1>1, <2>3
    <3>3. Len(s) + 1 \in DOMAIN t
      BY <1>1, <2>3
    <3> QED BY <2>3, <2>4, <3>1, <3>2, <3>3 DEF ToSet
  <2>6. ASSUME NEW i \in DOMAIN t, NEW j \in DOMAIN t, t[i] = t[j] PROVE i = j
    <3>1. i \in 1 .. Len(s) \/ i = Len(s) + 1
      BY <1>1, <2>3
    <3>2. j \in 1 .. Len(s) \/ j = Len(s) + 1
      BY <1>1, <2>3
    <3> QED BY <1>1, <2>3, <2>4, <2>6, <3>1, <3>2
  <2> QED BY <2>1, <2>3, <2>5, <2>6 DEF Once
<1> QED BY <1>3, <1>4

(* What the first k places add.                                            *)
Served(seq, port, k) == {Key(seq[i]) : i \in {j \in 1 .. k : Serves(seq[j], port)}}

(* The recursive function lists, for the first k places, what these add.   *)
LEMMA ListedTo ==
  ASSUME NEW port, NEW seq, seq \in Seq(ToSet(seq)), NEW g, Lists(g, port, seq), NEW k \in 0 .. Len(seq)
  PROVE  Once(g[1 .. k]) /\ ToSet(g[1 .. k]) = Served(seq, port, k)
<1> DEFINE Good(j) == Once(g[1 .. j]) /\ ToSet(g[1 .. j]) = Served(seq, port, j)
           Bad == {j \in 0 .. Len(seq) : ~Good(j)}
<1>1. DOMAIN seq = 1 .. Len(seq) /\ Len(seq) \in Nat
  OBVIOUS
<1>2. ASSUME NEW j \in 0 .. Len(seq) PROVE g[1 .. j] = ListStep(g, port, seq, 1 .. j)
  <2>1. 1 .. j \in SUBSET DOMAIN seq
    BY <1>1
  <2> QED BY <2>1, Zenon DEF Lists
<1>3. Good(0)
  <2>1. 1 .. 0 = {}
    OBVIOUS
  <2>2. g[1 .. 0] = <<>>
    <3>1. g[1 .. 0] = ListStep(g, port, seq, 1 .. 0)
      BY <1>1, <1>2
    <3> QED BY <2>1, <3>1 DEF ListStep
  <2>3. Served(seq, port, 0) = {}
    BY <2>1 DEF Served
  <2>4. ToSet(<<>>) = {} /\ Once(<<>>)
    BY DEF ToSet, Once
  <2> QED BY <2>2, <2>3, <2>4
<1>4. ASSUME NEW j \in 1 .. Len(seq), Good(j - 1) PROVE Good(j)
  <2>1. j \in Nat /\ j \in 0 .. Len(seq) /\ j \in 1 .. j
    BY <1>1
  <2>2. Max(1 .. j) = j
    <3>1. Max(1 .. j) \in 1 .. j /\ \A y \in 1 .. j : Max(1 .. j) >= y
      BY <2>1, MaxIsIn
    <3> QED BY <2>1, <3>1
  <2>3. (1 .. j) \ {j} = 1 .. j - 1
    BY <2>1
  <2>4. g[1 .. j] = Add(g[1 .. j - 1], seq[j], port)
    BY <1>2, <2>1, <2>2, <2>3 DEF ListStep
  <2>5. 1 .. j = (1 .. j - 1) \cup {j}
    BY <2>1
  <2>6. Served(seq, port, j) = IF Serves(seq[j], port) THEN Served(seq, port, j - 1) \cup {Key(seq[j])} ELSE Served(seq, port, j - 1)
    BY <2>5 DEF Served
  <2>7. Once(g[1 .. j - 1]) /\ ToSet(g[1 .. j - 1]) = Served(seq, port, j - 1)
    BY <1>4
  <2>8. Once(g[1 .. j]) /\ ToSet(g[1 .. j]) = Served(seq, port, j)
    <3>1. CASE Serves(seq[j], port)
      BY <2>4, <2>6, <2>7, <3>1, AppendNewOnce DEF Add
    <3>2. CASE ~Serves(seq[j], port)
      BY <2>4, <2>6, <2>7, <3>2 DEF Add
    <3> QED BY <3>1, <3>2
  <2> QED BY <2>8
<1>5. Bad = {}
  <2> SUFFICES ASSUME Bad # {} PROVE FALSE
    OBVIOUS
  <2> DEFINE j == First(Bad)
  <2>1. j \in Bad /\ \A i \in Bad : j <= i
    <3>1. Bad \in SUBSET Nat
      BY <1>1
    <3> HIDE DEF Bad
    <3> QED BY <3>1, FirstLeast
  <2> HIDE DEF j, Good
  <2>2. j # 0 /\ j \in 1 .. Len(seq) /\ ~Good(j)
    BY <1>1, <1>3, <2>1
  <2>3. j - 1 \in 0 .. Len(seq) /\ j - 1 < j
    BY <1>1, <2>2
  <2>4. j - 1 \notin Bad
    BY <1>1, <2>1, <2>2, <2>3
  <2> QED BY <1>4, <2>2, <2>3, <2>4
<1> QED BY <1>5

(* getEndpoints lists the addresses of the port, none twice.               *)
LEMMA EndpointsListed ==
  ASSUME NEW svc, IsService(svc), svc # None, NEW port
  PROVE  /\ Once(GetEndpoints(svc, port))
         /\ svc.external = None => ToSet(GetEndpoints(svc, port)) = {Key(e) : e \in {f \in ToSet(svc.endpoints) : Serves(f, port)}}
<1>1. CASE svc.external # None
  <2>1. GetEndpoints(svc, port) = <<>> \/ \E x : GetEndpoints(svc, port) = <<x>>
    BY <1>1 DEF GetEndpoints
  <2>2. Once(<<>>) /\ \A x : Once(<<x>>)
    BY DEF Once, ToSet
  <2> QED BY <1>1, <2>1, <2>2
<1>2. CASE svc.external = None
  <2> DEFINE seq == svc.endpoints
             n == Len(seq)
  <2>1. seq \in Seq(ToSet(seq)) /\ DOMAIN seq = 1 .. n /\ n \in 0 .. n
    BY DEF IsService
  <2> HIDE DEF seq, n
  <2>2. PICK g : Lists(g, port, seq) /\ GetEndpoints(svc, port) = g[DOMAIN seq]
    BY <1>2, <2>1, ListsExists, EndpointsAreListed DEF seq
  <2>3. Once(GetEndpoints(svc, port)) /\ ToSet(GetEndpoints(svc, port)) = Served(seq, port, n)
    BY <2>1, <2>2, ListedTo DEF n
  <2>4. Served(seq, port, n) = {Key(e) : e \in {f \in ToSet(seq) : Serves(f, port)}}
    BY <2>1 DEF Served, ToSet
  <2> QED BY <1>2, <2>3, <2>4 DEF seq
<1> QED BY <1>1, <1>2

(* As many places as endpoints, ...                                        *)
LEMMA OnceCounts ==
  ASSUME NEW s, Once(s)
  PROVE  IsFiniteSet(ToSet(s)) /\ Cardinality(ToSet(s)) = Len(s) /\ Len(s) \in Nat
<1>1. s \in Seq(ToSet(s)) /\ DOMAIN s = 1 .. Len(s) /\ Len(s) \in Nat /\ \A i, j \in 1 .. Len(s) : s[i] = s[j] => i = j
  BY DEF Once
<1>2. \A x \in ToSet(s) : \E i \in 1 .. Len(s) : s[i] = x
  BY <1>1 DEF ToSet
<1>3. s \in [1 .. Len(s) -> ToSet(s)]
  BY <1>1
<1>4. ExistsBijection(1 .. Len(s), ToSet(s))
  BY <1>1, <1>2, <1>3 DEF ExistsBijection, Bijection, Injection, Surjection, IsInjective
<1> QED
  BY <1>1, <1>4, FS_NatBijection, FS_CountingElements

(* ... so that a comparison of lengths and of one list with the other is   *)
(* enough, for lists without repetition.                                   *)
LEMMA EqualOnce ==
  ASSUME NEW s, NEW t, Once(s), Once(t), EqualEndpoints(s, t)
  PROVE  ToSet(s) = ToSet(t)
<1>1. Len(s) = Len(t) /\ ToSet(s) \in SUBSET ToSet(t)
  BY DEF EqualEndpoints
<1>2. IsFiniteSet(ToSet(t)) /\ Cardinality(ToSet(s)) = Cardinality(ToSet(t))
  BY <1>1, OnceCounts
<1> QED
  BY <1>1, <1>2, FS_Subset

(* A list of at most one endpoint.                                         *)
LEMMA ShortOnce == Once(<<>>) /\ \A x : Once(<<x>>)
BY DEF Once, ToSet

(* The endpoints of a backend are listed once each, whatever its Service   *)
(* is, ...                                                                 *)
LEMMA BackendOnce ==
  ASSUME NEW m, NEW svc, IsService(svc), NEW port
  PROVE  Once(BackendEndpoints(m, svc, port))
<1>1. Once(ClusterEndpoint(svc, port))
  <2>1. ClusterEndpoint(svc, port) = <<>> \/ \E x : ClusterEndpoint(svc, port) = <<x>>
    BY DEF ClusterEndpoint
  <2> QED BY <2>1, ShortOnce
<1>2. Once(ServiceEndpoints(svc, port))
  <2>1. ServiceEndpoints(svc, port) = <<>> \/ (svc # None /\ \E p : ServiceEndpoints(svc, port) = GetEndpoints(svc, p))
    BY DEF ServiceEndpoints
  <2> QED BY <2>1, ShortOnce, EndpointsListed
<1> QED
  BY <1>1, <1>2, ShortOnce DEF BackendEndpoints

(* ... and are those the backend reaches, of a Service that is not an      *)
(* external name.                                                          *)
LEMMA BackendReaches ==
  ASSUME NEW m, ~m.serviceUpstream, NEW b, IsService(services[b.service]),
         services[b.service] # None => services[b.service].external = None
  PROVE  ToSet(BackendEndpoints(m, services[b.service], b.port)) = Reached(b)
<1> DEFINE svc == services[b.service]
           ports == MatchingPorts(svc, b.port)
<1>1. BackendEndpoints(m, svc, b.port) = ServiceEndpoints(svc, b.port)
  BY DEF BackendEndpoints
<1>2. ToSet(<<>>) = {}
  BY DEF ToSet
<1>3. CASE svc = None
  BY <1>1, <1>2, <1>3 DEF ServiceEndpoints, Reached
<1>4. CASE svc # None /\ ports = <<>>
  <2>1. ServiceEndpoints(svc, b.port) = <<>> /\ Reached(b) = {}
    BY <1>4 DEF ServiceEndpoints, Reached
  <2> QED BY <1>1, <1>2, <2>1
<1>5. CASE svc # None /\ ports # <<>>
  <2>1. ServiceEndpoints(svc, b.port) = GetEndpoints(svc, Head(ports))
    BY <1>5 DEF ServiceEndpoints
  <2>2. Reached(b) = {<<e.address, e.port>> : e \in {f \in ToSet(svc.endpoints) : Serves(f, Head(ports))}}
    BY <1>5 DEF Reached
  <2>3. ToSet(GetEndpoints(svc, Head(ports))) = {Key(e) : e \in {f \in ToSet(svc.endpoints) : Serves(f, Head(ports))}}
    BY <1>5, EndpointsListed
  <2> QED BY <1>1, <2>1, <2>2, <2>3 DEF Key
<1> QED
  BY <1>3, <1>4, <1>5

-----------------------------------------------------------------------------
(* The endpoints of upstreams: none twice, and those of some backend of    *)
(* the first k Ingresses s, with the Services sv.                          *)

BackendsIn(m) == {p.backend : p \in ToSet(m.paths)} \cup ({m.backend} \ {None})
Distinct(ups) == \A n \in DOMAIN ups : Once(ups[n].endpoints)
ServedBy(sv, m, n, u) ==
  \E b \in BackendsIn(m) : n = UpstreamName(b) /\ ToSet(u.endpoints) = ToSet(BackendEndpoints(m, sv[b.service], b.port))
Origin(sv, s, k, ups) == \A n \in DOMAIN ups : n = DefUpstream \/ \E i \in 1 .. k : ServedBy(sv, s[i], n, ups[n])

(* What the loops after createUpstreams do: they only delete upstreams.    *)
Keeps(new, ups) == DOMAIN new \subseteq DOMAIN ups /\ \A n \in DOMAIN new : new[n].endpoints = ups[n].endpoints

(* Upstreams that stay keep their endpoints.                               *)
LEMMA KeptServed ==
  ASSUME NEW new, NEW ups, Keeps(new, ups)
  PROVE  /\ Distinct(ups) => Distinct(new)
         /\ \A sv, s, k : Origin(sv, s, k, ups) => Origin(sv, s, k, new)
<1>1. Distinct(ups) => Distinct(new)
  BY DEF Keeps, Distinct
<1>2. ASSUME NEW sv, NEW s, NEW k, Origin(sv, s, k, ups), NEW n \in DOMAIN new
      PROVE  n = DefUpstream \/ \E i \in 1 .. k : ServedBy(sv, s[i], n, new[n])
  <2>1. n \in DOMAIN ups /\ new[n].endpoints = ups[n].endpoints
    BY DEF Keeps
  <2>2. n = DefUpstream \/ \E i \in 1 .. k : ServedBy(sv, s[i], n, ups[n])
    BY <1>2, <2>1 DEF Origin
  <2> QED BY <2>1, <2>2 DEF ServedBy
<1> QED
  BY <1>1, <1>2 DEF Origin

ServicesFit == \A s \in Services : IsService(services[s])

(* So are the endpoints of the default upstream.                           *)
LEMMA DefaultOnce ==
  ASSUME ServicesFit
  PROVE  Once(DefaultUpstream.endpoints)
<1> DEFINE svc == IF DefaultService = None THEN None ELSE services[DefaultService]
           found == IF svc = None THEN <<>> ELSE GetEndpoints(svc, svc.ports[1])
<1>1. DefaultUpstream.endpoints = IF found = <<>> THEN <<DefaultEndpoint>> ELSE found
  BY DEF DefaultUpstream, NewUpstream
<1>2. svc # None => IsService(svc)
  BY ServiceAssumption DEF ServicesFit
<1> HIDE DEF svc
<1>3. Once(found)
  BY <1>2, ShortOnce, EndpointsListed
<1> HIDE DEF found
<1> QED
  BY <1>1, <1>3, ShortOnce

(* createUpstreams gives an upstream that it makes the endpoints of the    *)
(* backend it makes it for.                                                *)
LEMMA EndpointsOfOne ==
  ASSUME NEW m \in Ingresses, NEW ups
  PROVE  \A n \in DOMAIN AddUpstreams(ups, m) :
           \/ n \in DOMAIN ups /\ AddUpstreams(ups, m)[n] = ups[n]
           \/ \E b \in BackendsIn(m) : /\ n = UpstreamName(b)
                                       /\ AddUpstreams(ups, m)[n].endpoints = BackendEndpoints(m, services[b.service], b.port)
<1> DEFINE made == AddBackend(ups, m)
           paths == {UpstreamName(p.backend) : p \in ToSet(m.paths)}
           all == AddUpstreams(ups, m)
           Fresh(n, u) == \E b \in BackendsIn(m) : n = UpstreamName(b) /\ u.endpoints = BackendEndpoints(m, services[b.service], b.port)
<1>1. \A b, absent : UpstreamOf(m, b, absent).endpoints = BackendEndpoints(m, services[b.service], b.port)
  BY DEF UpstreamOf, NewUpstream
<1>2. ASSUME NEW n \in DOMAIN made PROVE (n \in DOMAIN ups /\ made[n] = ups[n]) \/ Fresh(n, made[n])
  <2>1. CASE m.backend = None
    BY <2>1 DEF AddBackend
  <2>2. CASE m.backend # None
    <3> DEFINE u == UpstreamOf(m, m.backend, None)
    <3>1. made = Put(ups, UpstreamName(m.backend), u) /\ m.backend \in BackendsIn(m)
      BY <2>2 DEF AddBackend, BackendsIn
    <3>2. u.endpoints = BackendEndpoints(m, services[m.backend.service], m.backend.port)
      BY <1>1
    <3> HIDE DEF u, made
    <3>3. CASE n = UpstreamName(m.backend)
      <4>1. made[n] = u
        BY <1>2, <3>1, <3>3 DEF Put
      <4> QED BY <3>1, <3>2, <3>3, <4>1
    <3>4. CASE n # UpstreamName(m.backend)
      BY <1>2, <3>1, <3>4 DEF Put
    <3> QED BY <3>3, <3>4
  <2> QED BY <2>1, <2>2
<1>3. DOMAIN all = DOMAIN made \cup paths
  BY DEF AddUpstreams
<1>4. ASSUME NEW n \in DOMAIN all
      PROVE  all[n] = IF n \in DOMAIN made THEN made[n] ELSE UpstreamOf(m, m.paths[First(Leading(m, n))].backend, "")
  BY <1>4 DEF AddUpstreams
<1> HIDE DEF made, all
<1>5. ASSUME NEW n \in DOMAIN all, n \notin DOMAIN made PROVE Fresh(n, all[n])
  <2> DEFINE S == Leading(m, n)
             b == m.paths[First(S)].backend
  <2>1. n \in paths
    BY <1>3, <1>5
  <2>2. S \subseteq DOMAIN m.paths /\ S # {}
    BY <2>1 DEF Leading, ToSet
  <2>3. DOMAIN m.paths \subseteq Nat
    BY IngressFacts
  <2>4. First(S) \in S
    <3> HIDE DEF S
    <3> QED BY <2>2, <2>3, FirstLeast
  <2>5. b \in BackendsIn(m) /\ n = UpstreamName(b)
    BY <2>2, <2>4 DEF Leading, BackendsIn, ToSet
  <2>6. all[n].endpoints = BackendEndpoints(m, services[b.service], b.port)
    BY <1>1, <1>4, <1>5
  <2> HIDE DEF b
  <2> QED BY <2>5, <2>6
<1>6. ASSUME NEW n \in DOMAIN all PROVE (n \in DOMAIN ups /\ all[n] = ups[n]) \/ Fresh(n, all[n])
  <2>1. CASE n \in DOMAIN made
    <3>1. all[n] = made[n]
      BY <1>4, <2>1
    <3> HIDE DEF Fresh
    <3> QED BY <1>2, <2>1, <3>1
  <2>2. CASE n \notin DOMAIN made
    <3> HIDE DEF Fresh
    <3> QED BY <1>5, <2>2
  <2> QED BY <2>1, <2>2
<1> QED
  BY <1>6 DEF all

(* A backend of an Ingress has a name and a Service.                       *)
LEMMA ServiceOfBackend ==
  ASSUME NEW m \in Ingresses, NEW b \in BackendsIn(m)
  PROVE  b \in DOMAIN Names /\ b.service \in Services
BY IngressFacts, ServiceAssumption DEF BackendsIn, IsIngress

(* createUpstreams goes on with the next Ingress, as far as endpoints go.  *)
LEMMA ServedOfOne ==
  ASSUME NEW s \in Seq(Ingresses), NEW k \in 0 .. Len(s) - 1, ServicesFit, NEW ups, Distinct(ups)
  PROVE  /\ Distinct(AddUpstreams(ups, s[k + 1]))
         /\ Origin(services, s, k, ups) => Origin(services, s, k + 1, AddUpstreams(ups, s[k + 1]))
<1> DEFINE m == s[k + 1]
           all == AddUpstreams(ups, m)
<1>1. k \in Nat /\ m \in Ingresses /\ k + 1 \in 1 .. k + 1 /\ 1 .. k \subseteq 1 .. k + 1
  BY OneMore
<1>2. ASSUME NEW n \in DOMAIN all
      PROVE  \/ n \in DOMAIN ups /\ all[n] = ups[n]
             \/ \E b \in BackendsIn(m) : n = UpstreamName(b) /\ all[n].endpoints = BackendEndpoints(m, services[b.service], b.port)
  <2> HIDE DEF m
  <2> QED BY <1>1, EndpointsOfOne
<1> HIDE DEF m, all
<1>3. ASSUME NEW n \in DOMAIN all PROVE Once(all[n].endpoints)
  <2>1. CASE n \in DOMAIN ups /\ all[n] = ups[n]
    BY <2>1 DEF Distinct
  <2>2. ASSUME NEW b \in BackendsIn(m), all[n].endpoints = BackendEndpoints(m, services[b.service], b.port)
        PROVE  Once(all[n].endpoints)
    <3>1. IsService(services[b.service])
      BY <1>1, ServiceOfBackend DEF ServicesFit
    <3> QED BY <2>2, <3>1, BackendOnce
  <2> QED BY <1>2, <2>1, <2>2
<1>4. ASSUME Origin(services, s, k, ups), NEW n \in DOMAIN all
      PROVE  n = DefUpstream \/ \E i \in 1 .. k + 1 : ServedBy(services, s[i], n, all[n])
  <2>1. CASE n \in DOMAIN ups /\ all[n] = ups[n]
    <3>1. n = DefUpstream \/ \E i \in 1 .. k : ServedBy(services, s[i], n, ups[n])
      BY <1>4, <2>1 DEF Origin
    <3> QED BY <1>1, <2>1, <3>1
  <2>2. ASSUME NEW b \in BackendsIn(m), n = UpstreamName(b), all[n].endpoints = BackendEndpoints(m, services[b.service], b.port)
        PROVE  ServedBy(services, s[k + 1], n, all[n])
    BY <2>2 DEF ServedBy, m
  <2> QED BY <1>1, <1>2, <2>1, <2>2
<1> QED
  BY <1>3, <1>4 DEF Distinct, Origin, m, all

(* Session affinity changes no endpoints, ...                              *)
LEMMA AffinityKeeps ==
  ASSUME NEW ups, IsUpstreams(ups), NEW m
  PROVE  Keeps(AddAffinity(ups, m), ups)
<1> DEFINE all == AddAffinity(ups, m)
<1>1. DOMAIN all = DOMAIN ups
  BY DEF AddAffinity
<1>2. ASSUME NEW n \in DOMAIN ups PROVE all[n] = ups[n] \/ \E c : all[n] = [ups[n] EXCEPT !.affinity = TRUE, !.paths = c]
  BY DEF AddAffinity
<1>3. ASSUME NEW n \in DOMAIN ups PROVE all[n].endpoints = ups[n].endpoints
  <2>1. DOMAIN ups[n] = UpstreamFields
    BY DEF IsUpstreams
  <2> QED
    BY <1>2, <2>1 DEF UpstreamFields
<1> HIDE DEF all
<1> QED
  BY <1>1, <1>3 DEF Keeps, all

(* ... nor does the merge of one backend of a canary, ...                  *)
LEMMA MergeKeeps ==
  ASSUME NEW ups, IsUpstreams(ups), NEW alt, NEW locations, NEW matching, Merge(ups, alt, locations, matching) # None
  PROVE  Keeps(Merge(ups, alt, locations, matching), ups)
<1> DEFINE merged == {b \in {locations[p].backend : p \in matching} : CanMerge(ups, b, alt)}
           new == Merge(ups, alt, locations, matching)
           added == [u \in DOMAIN ups |-> IF u \in merged THEN [ups[u] EXCEPT !.alternatives = @ \cup {alt}] ELSE ups[u]]
<1>1. new = Drop(ups, alt) \/ new = added
  BY DEF Merge
<1>2. Keeps(Drop(ups, alt), ups)
  BY DEF Keeps, Drop
<1>3. Keeps(added, ups)
  <2> HIDE DEF merged
  <2>1. DOMAIN added = DOMAIN ups
    OBVIOUS
  <2>2. ASSUME NEW u \in DOMAIN ups PROVE added[u] = ups[u] \/ added[u] = [ups[u] EXCEPT !.alternatives = @ \cup {alt}]
    OBVIOUS
  <2>3. ASSUME NEW u \in DOMAIN ups PROVE added[u].endpoints = ups[u].endpoints
    <3>1. DOMAIN ups[u] = UpstreamFields
      BY DEF IsUpstreams
    <3> HIDE DEF added
    <3> QED BY <2>2, <3>1 DEF UpstreamFields
  <2> HIDE DEF added
  <2> QED BY <2>1, <2>3 DEF Keeps
<1> HIDE DEF new, added
<1> QED
  BY <1>1, <1>2, <1>3 DEF new

(* ... and so no canary does.                                              *)
LEMMA AlternativeKeeps ==
  ASSUME NEW ups, IsUpstreams(ups), NEW servers, NEW m, NEW k, MergeAlternative(servers, ups, m, k) # None
  PROVE  Keeps(MergeAlternative(servers, ups, m, k), ups)
<1>1. Keeps(ups, ups)
  BY DEF Keeps
<1>2. ASSUME MergeBackend(servers, ups, m) # None PROVE Keeps(MergeBackend(servers, ups, m), ups)
  BY <1>1, <1>2, MergeKeeps DEF MergeBackend
<1>3. ASSUME NEW p, MergePath(servers, ups, p) # None PROVE Keeps(MergePath(servers, ups, p), ups)
  BY <1>1, <1>3, MergeKeeps DEF MergePath
<1> QED
  BY <1>2, <1>3 DEF MergeAlternative

-----------------------------------------------------------------------------
(* The invariant of endpoints, beside the other one: upstreams list none   *)
(* twice, and until something changes they list those of the Services.     *)

Done(s, j) == IF j.step = "upstreams" THEN j.at ELSE Len(s)
JobServed(sv, s, d, j) ==
  j.step \notin {"idle", "panic"} => Distinct(j.upstreams) /\ (~d => Origin(sv, s, Done(s, j), j.upstreams))
RunningServed ==
  /\ Distinct(running.backends)
  /\ ~due /\ job.step = "idle" => Origin(services, ings, Len(ings), running.backends)

EndpointsOK == ServicesFit /\ JobServed(services, ings, due, job) /\ RunningServed

(* In the beginning there are no upstreams.                                *)
LEMMA EndpointsInit ==
  ASSUME Init
  PROVE  EndpointsOK
<1>1. ServicesFit
  BY ServiceAssumption DEF Init, ServicesFit
<1>2. JobServed(services, ings, due, job)
  BY DEF Init, NoJob, JobServed
<1>3. RunningServed
  BY DEF Init, NoModel, RunningServed, Distinct
<1> QED
  BY <1>1, <1>2, <1>3 DEF EndpointsOK

(* A step of the synchronization that is not its last one.                 *)
LEMMA ServedStep ==
  ASSUME EndpointsOK, UNCHANGED <<cluster, due, running, file, changes>>, job'.step # "idle",
         JobServed(services, ings, due, job')
  PROVE  EndpointsOK'
<1>1. ings' = ings /\ services' = services
  BY DEF cluster
<1> QED
  BY <1>1 DEF EndpointsOK, ServicesFit, RunningServed

(* So if it keeps the upstreams.                                           *)
LEMMA KeepsStep ==
  ASSUME EndpointsOK, UNCHANGED <<cluster, due, running, file, changes>>, job.step \notin {"idle", "panic"}, job'.step # "idle",
         Keeps(job'.upstreams, job.upstreams), Done(ings, job') = Done(ings, job)
  PROVE  EndpointsOK'
<1>1. Distinct(job.upstreams) /\ (~due => Origin(services, ings, Done(ings, job), job.upstreams))
  BY DEF EndpointsOK, JobServed
<1>2. Distinct(job'.upstreams) /\ (~due => Origin(services, ings, Done(ings, job'), job'.upstreams))
  BY <1>1, KeptServed
<1>3. JobServed(services, ings, due, job')
  BY <1>2 DEF JobServed
<1> QED
  BY <1>3, ServedStep

(* Nothing done to the upstreams keeps them.                               *)
LEMMA SameUpstreams ==
  \A ups : Keeps(ups, ups)
BY DEF Keeps

(* A synchronization begins with the default upstream.                     *)
LEMMA EndpointsBegin ==
  ASSUME IInv, EndpointsOK, Begin
  PROVE  EndpointsOK'
<1>1. /\ job'.step = "upstreams" /\ job'.at = 0 /\ job'.upstreams = [n \in {DefUpstream} |-> DefaultUpstream]
      /\ UNCHANGED <<cluster, running, file, changes>>
  BY DEF Begin, NoJob
<1>2. Once(DefaultUpstream.endpoints)
  BY DefaultOnce DEF EndpointsOK
<1>3. Distinct(job'.upstreams) /\ Origin(services, ings, 0, job'.upstreams)
  BY <1>1, <1>2 DEF Distinct, Origin
<1>4. JobServed(services, ings, FALSE, job') /\ JobServed(services, ings, TRUE, job')
  BY <1>1, <1>3 DEF JobServed, Done
<1>5. ings' = ings /\ services' = services /\ due' = FALSE
  BY <1>1 DEF cluster, Begin
<1> QED
  BY <1>1, <1>4, <1>5 DEF EndpointsOK, ServicesFit, RunningServed

(* createUpstreams asks the Services of the next Ingress, or ends.         *)
LEMMA EndpointsCreate ==
  ASSUME IInv, EndpointsOK, CreateUpstreams
  PROVE  EndpointsOK'
<1>0. /\ job.step = "upstreams" /\ UNCHANGED <<cluster, due, running, file, changes>>
      /\ Distinct(job.upstreams) /\ (~due => Origin(services, ings, job.at, job.upstreams))
  BY DEF CreateUpstreams, Iterate, EndLoop, EndpointsOK, JobServed, Done
<1>1. CASE Iterate("upstreams", [job EXCEPT !.upstreams = AddUpstreams(@, This)])
  <2>1. job.at < Len(ings)
    BY <1>0, <1>1, JobFacts DEF Iterate
  <2>2. job'.step = "upstreams" /\ job'.at = job.at + 1 /\ job'.upstreams = AddUpstreams(job.upstreams, This)
    BY <1>0, <1>1, JobFacts DEF Iterate, JobFields
  <2>3. Distinct(job'.upstreams) /\ (~due => Origin(services, ings, job.at + 1, job'.upstreams))
    <3>1. ings \in Seq(Ingresses) /\ job.at \in 0 .. Len(ings) - 1 /\ This = ings[job.at + 1] /\ ServicesFit
      BY <1>0, <2>1, JobFacts DEF EndpointsOK
    <3> QED BY <1>0, <2>2, <3>1, ServedOfOne
  <2>4. JobServed(services, ings, due, job')
    BY <2>2, <2>3 DEF JobServed, Done
  <2> QED
    BY <1>0, <2>2, <2>4, ServedStep
<1>2. CASE EndLoop("upstreams", "servers", job)
  <2>1. job'.step = "servers" /\ job'.upstreams = job.upstreams /\ job.at = Len(ings)
    BY <1>0, <1>2, JobFacts DEF EndLoop, JobFields
  <2>2. Done(ings, job') = Done(ings, job)
    BY <1>0, <2>1 DEF Done
  <2> QED
    BY <1>0, <2>1, <2>2, SameUpstreams, KeepsStep
<1> QED
  BY <1>1, <1>2 DEF CreateUpstreams

(* The loops that make the servers, and the one that looks for custom      *)
(* default backends, leave the upstreams alone.                            *)
LEMMA EndpointsStay ==
  ASSUME IInv, EndpointsOK, CreateServers \/ FinishServers \/ \E n \in job.todo : VisitUpstream(n)
  PROVE  EndpointsOK'
<1>1. CASE CreateServers
  <2>1. job.step = "servers" /\ UNCHANGED <<cluster, due, running, file, changes>>
    BY <1>1 DEF CreateServers, Iterate, EndLoop
  <2>2. job'.step \in {"servers", "configure"} /\ job'.upstreams = job.upstreams
    BY <1>1, <2>1, JobFacts DEF CreateServers, Iterate, EndLoop, JobFields
  <2> QED BY <2>1, <2>2, SameUpstreams, KeepsStep DEF Done
<1>2. CASE FinishServers
  <2>1. job.step = "configure" /\ UNCHANGED <<cluster, due, running, file, changes>>
    BY <1>2 DEF FinishServers, Iterate, EndLoop
  <2>2. job'.step \in {"configure", "locations"} /\ job'.upstreams = job.upstreams
    BY <1>2, <2>1, JobFacts DEF FinishServers, Iterate, EndLoop, JobFields
  <2> QED BY <2>1, <2>2, SameUpstreams, KeepsStep DEF Done
<1>3. ASSUME NEW n, VisitUpstream(n) PROVE EndpointsOK'
  <2>1. job.step = "backends" /\ UNCHANGED <<cluster, due, running, file, changes>>
    BY <1>3 DEF VisitUpstream
  <2>2. job'.step = "backends" /\ job'.upstreams = job.upstreams
    BY <1>3, <2>1, JobFacts DEF VisitUpstream, JobFields
  <2> QED BY <2>1, <2>2, SameUpstreams, KeepsStep DEF Done
<1> QED
  BY <1>1, <1>2, <1>3

(* getBackendServers sets the session affinity of upstreams.               *)
LEMMA EndpointsAffinity ==
  ASSUME IInv, EndpointsOK, GetBackendServers
  PROVE  EndpointsOK'
<1>1. job.step = "locations" /\ UNCHANGED <<cluster, due, running, file, changes>> /\ IsUpstreams(job.upstreams)
  BY DEF GetBackendServers, Iterate, EndLoop, IInv, JobOK, Built, UpsAfter
<1>2. job'.step \in {"locations", "canaries"} /\ (job'.upstreams = job.upstreams \/ job'.upstreams = AddAffinity(job.upstreams, This))
  BY <1>1, JobFacts DEF GetBackendServers, Iterate, EndLoop, JobFields
<1>3. Keeps(job'.upstreams, job.upstreams)
  BY <1>1, <1>2, SameUpstreams, AffinityKeeps
<1> QED
  BY <1>1, <1>2, <1>3, KeepsStep DEF Done

(* Canaries change the alternatives of upstreams, or delete them.          *)
LEMMA EndpointsMerge ==
  ASSUME IInv, EndpointsOK, MergeCanaries
  PROVE  EndpointsOK'
<1>1. job.step = "canaries" /\ UNCHANGED <<cluster, due, running, file, changes>> /\ IsUpstreams(job.upstreams)
  BY DEF MergeCanaries, MergeCanary, Iterate, EndLoop, IInv, JobOK, Built, UpsMerged
<1>2. CASE MergeCanary
  <2> DEFINE merged == MergeAlternative(job.servers, job.upstreams, This, job.path)
  <2>1. job' = IF merged = None THEN [job EXCEPT !.step = "panic"]
               ELSE IF job.path < Len(This.paths) THEN [job EXCEPT !.upstreams = merged, !.path = @ + 1]
               ELSE [job EXCEPT !.upstreams = merged, !.path = 0, !.at = @ + 1]
    BY <1>2 DEF MergeCanary
  <2>2. merged # None => Keeps(merged, job.upstreams)
    BY <1>1, AlternativeKeeps
  <2> HIDE DEF merged
  <2>3. \/ job'.step = "panic" /\ job'.upstreams = job.upstreams
        \/ job'.step = "canaries" /\ merged # None /\ job'.upstreams = merged
    BY <1>1, <2>1, JobFacts DEF JobFields
  <2> QED
    BY <1>1, <2>2, <2>3, SameUpstreams, KeepsStep DEF Done
<1>3. CASE ~MergeCanary
  <2>1. job'.step \in {"canaries", "backends"} /\ job'.upstreams = job.upstreams
    BY <1>1, <1>3, JobFacts DEF MergeCanaries, Iterate, EndLoop, JobFields
  <2> QED
    BY <1>1, <2>1, SameUpstreams, KeepsStep DEF Done
<1> QED
  BY <1>2, <1>3

(* A model that is thrown away because it is equal to the one that runs    *)
(* lists no endpoint that this does not.                                   *)
LEMMA EqualServed ==
  ASSUME NEW f, NEW g, EqualBackends(f, g), Distinct(f), Distinct(g), NEW sv, NEW s, NEW k, Origin(sv, s, k, g)
  PROVE  Origin(sv, s, k, f)
<1>1. ASSUME NEW n \in DOMAIN f PROVE n \in DOMAIN g /\ ToSet(f[n].endpoints) = ToSet(g[n].endpoints)
  <2>1. n \in DOMAIN g /\ EqualEndpoints(f[n].endpoints, g[n].endpoints)
    BY DEF EqualBackends, EqualBackend
  <2> QED BY <2>1, EqualOnce DEF Distinct
<1>2. ASSUME NEW n \in DOMAIN f PROVE n = DefUpstream \/ \E i \in 1 .. k : ServedBy(sv, s[i], n, f[n])
  <2>1. n = DefUpstream \/ \E i \in 1 .. k : ServedBy(sv, s[i], n, g[n])
    BY <1>1 DEF Origin
  <2> QED BY <1>1, <2>1 DEF ServedBy
<1> QED
  BY <1>2 DEF Origin

(* The model is applied, or thrown away for one that is equal.             *)
LEMMA EndpointsApply ==
  ASSUME IInv, EndpointsOK, Apply
  PROVE  EndpointsOK'
<1> DEFINE new == Model(job.upstreams, job.custom, job.servers)
<1>1. job.step = "backends" /\ job' = NoJob /\ UNCHANGED <<cluster, due, changes>>
  BY DEF Apply
<1>2. running' = IF Equal(running, new) THEN running ELSE new
  BY DEF Apply
<1>3. new.backends = job.upstreams
  BY DEF Model
<1> HIDE DEF new
<1>4. Distinct(new.backends) /\ (~due => Origin(services, ings, Len(ings), new.backends)) /\ Distinct(running.backends)
  BY <1>1, <1>3 DEF EndpointsOK, JobServed, Done, RunningServed
<1>5. Equal(running, new) => EqualBackends(running.backends, new.backends)
  BY DEF Equal
<1>6. Distinct(running'.backends) /\ (~due => Origin(services, ings, Len(ings), running'.backends))
  BY <1>2, <1>4, <1>5, EqualServed
<1>7. ings' = ings /\ services' = services /\ due' = due
  BY <1>1 DEF cluster
<1>8. JobServed(services, ings, due, job)'
  BY <1>1 DEF JobServed, NoJob
<1> QED
  BY <1>6, <1>7, <1>8 DEF EndpointsOK, ServicesFit, RunningServed

(* A new process has no upstreams.                                         *)
LEMMA EndpointsRestart ==
  ASSUME EndpointsOK, Restart
  PROVE  EndpointsOK'
<1>1. services' = services /\ ings' = ings
  BY DEF Restart, cluster
<1>2. JobServed(services, ings, due, job)' /\ RunningServed'
  BY DEF Restart, JobServed, NoJob, RunningServed, NoModel, Distinct
<1> QED
  BY <1>1, <1>2 DEF EndpointsOK, ServicesFit

(* A change of a Service makes a synchronization due.                      *)
LEMMA EndpointsChange ==
  ASSUME EndpointsOK, Users
  PROVE  EndpointsOK'
<1>1. Change
  BY DEF Users, ChangeIngresses, ChangeService, ChangeCertificate, ChangeStream
<1>2. due' = TRUE /\ job' = job /\ running' = running
  BY <1>1 DEF Change
<1>3. ServicesFit'
  <2>1. CASE services' = services
    BY <2>1 DEF EndpointsOK, ServicesFit
  <2>2. ASSUME NEW s \in Services, NEW v \in ServiceStates[s], services' = [services EXCEPT ![s] = v]
        PROVE  ServicesFit'
    <3>1. IsService(v)
      BY ServiceAssumption
    <3>2. ASSUME NEW t \in Services PROVE services'[t] = services[t] \/ services'[t] = v
      BY <2>2
    <3> QED BY <3>1, <3>2 DEF EndpointsOK, ServicesFit
  <2> QED BY <2>1, <2>2 DEF Users, ChangeIngresses, ChangeService, ChangeCertificate, ChangeStream
<1>4. JobServed(services, ings, due, job)'
  BY <1>2 DEF EndpointsOK, JobServed
<1>5. RunningServed'
  BY <1>2 DEF EndpointsOK, RunningServed
<1> QED
  BY <1>3, <1>4, <1>5 DEF EndpointsOK

(* All steps.                                                              *)
LEMMA EndpointsNext ==
  ASSUME IInv, EndpointsOK, [Next]_vars
  PROVE  EndpointsOK'
<1>1. CASE Sync
  BY <1>1, EndpointsBegin, EndpointsCreate, EndpointsStay, EndpointsAffinity, EndpointsMerge, EndpointsApply DEF Sync
<1>2. CASE Restart
  BY <1>2, EndpointsRestart
<1>3. CASE UNCHANGED vars
  BY <1>3 DEF vars, cluster, EndpointsOK, ServicesFit, JobServed, RunningServed
<1>4. CASE Users
  BY <1>4, EndpointsChange
<1>5. Next => Sync \/ Restart \/ Users
  BY DEF Next, Users
<1> QED
  BY <1>1, <1>2, <1>3, <1>4, <1>5

(* The endpoints that run are those of the Service, none of them twice,    *)
(* although Services change while upstreams are made, affinity and         *)
(* canaries change the upstreams afterwards, and a model whose lists are   *)
(* found equal by their lengths and one inclusion is thrown away.          *)
THEOREM EndpointsCorrect == Spec => []EndpointsAreCurrent
<1>1. ASSUME IInv, EndpointsOK PROVE EndpointsAreCurrent
  <2>1. ASSUME Settled, NEW i \in DOMAIN ings, NEW b \in BackendsOf(i),
               UpstreamName(b) \in DOMAIN running.backends,
               \A j \in DOMAIN ings : \A c \in BackendsOf(j) : UpstreamName(c) = UpstreamName(b) => c = b /\ ~ings[j].serviceUpstream,
               IF services[b.service] = None THEN TRUE ELSE services[b.service].external = None
        PROVE  LET e == running.backends[UpstreamName(b)].endpoints IN
               ToSet(e) = Reached(b) /\ Len(e) = Cardinality(Reached(b))
    <3> DEFINE n == UpstreamName(b)
               e == running.backends[n].endpoints
    <3>1. ings \in Seq(Ingresses) /\ DOMAIN ings = 1 .. Len(ings) /\ \A j \in DOMAIN ings : BackendsOf(j) = BackendsIn(ings[j])
      BY <1>1, SameNames DEF IInv, ClusterOK, BackendsOf, PathsOf, BackendsIn
    <3>2. ings[i] \in Ingresses
      BY <3>1
    <3>3. b \in DOMAIN Names /\ b.service \in Services
      BY <3>1, <3>2, ServiceOfBackend
    <3>4. n # DefUpstream /\ IsService(services[b.service])
      BY <1>1, <3>3, NamesAssumption DEF EndpointsOK, ServicesFit, UpstreamName
    <3>5. Distinct(running.backends) /\ Origin(services, ings, Len(ings), running.backends)
      BY <1>1, <2>1 DEF EndpointsOK, RunningServed, Settled, NoJob
    <3> HIDE DEF n
    <3>6. PICK j \in 1 .. Len(ings) : ServedBy(services, ings[j], n, running.backends[n])
      BY <2>1, <3>4, <3>5 DEF Origin, n
    <3>7. PICK c \in BackendsIn(ings[j]) : n = UpstreamName(c) /\ ToSet(e) = ToSet(BackendEndpoints(ings[j], services[c.service], c.port))
      BY <3>6 DEF ServedBy
    <3>8. c = b /\ ~ings[j].serviceUpstream
      BY <2>1, <3>1, <3>7 DEF n
    <3>9. ToSet(e) = Reached(b)
      BY <2>1, <3>4, <3>7, <3>8, BackendReaches
    <3>10. Once(e)
      BY <2>1, <3>5 DEF Distinct, n
    <3>11. Len(e) = Cardinality(ToSet(e))
      BY <3>10, OnceCounts
    <3> QED BY <3>9, <3>11 DEF n
  <2> QED
    BY <2>1 DEF EndpointsAreCurrent
<1>2. Init => EndpointsOK
  BY EndpointsInit
<1>3. IInv /\ EndpointsOK /\ [Next]_vars => EndpointsOK'
  BY EndpointsNext
<1> QED
  BY <1>1, <1>2, <1>3, InvCorrect, PTL DEF Spec
=============================================================================
