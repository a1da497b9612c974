----------------------------- MODULE ModelBuilding -----------------------------
(***************************************************************************)
(* How ingress-nginx turns the objects of its store into the model that    *)
(* NGINX is configured from (internal/ingress/controller/controller.go and *)
(* endpoints.go), and how it tells whether a new model differs from the    *)
(* one that runs (internal/ingress/types_equals.go, nginx.go).             *)
(*                                                                         *)
(* A synchronization takes the Ingresses, oldest first, and goes over them *)
(* once for each part of the model; Services, certificates and the         *)
(* ConfigMap of streams are read from the store whenever they are needed.  *)
(* A step of the module is one iteration of one of these loops.  Locations *)
(* of a server and backends are sorted in the end only to write them in    *)
(* the same order each time; here they are functions on paths and names.   *)
(*                                                                         *)
(* An Ingress is a record: the rules with their hosts, and the paths of    *)
(* all rules, in order, each with the host of its rule.  Its annotations   *)
(* that the model is not built from but carries along are one value,       *)
(* other.  SSL passthrough is left out.                                    *)
(***************************************************************************)
EXTENDS Integers, FiniteSets, Sequences, SequencesExt

CONSTANTS
  Manifests,      \* the Ingresses users may create
  Services,       \* names of Services
  ServiceStates,  \* what each Service and its Endpoints may be
  Secrets, Certs, \* names of Secrets, and the certificates one may hold
  StreamPorts, StreamStates,  \* ports of the ConfigMap of TCP services, and what each may be mapped to
  DefaultService, \* the --default-backend-service
  Names,          \* the name of the upstream of each backend of an Ingress
  FirstCluster,   \* the cluster when the controller starts
  MaxIngresses, MaxChanges,   \* bounds on what users do
  None

VARIABLES
  ings,      \* the Ingresses, oldest first
  services,  \* each Service: None, or its ports and Endpoints
  certs,     \* each Secret: None, or whom its certificate is for
  streams,   \* the ConfigMap of TCP services
  due,       \* a synchronization is due
  job,       \* where the synchronization is, and what it has built
  running,   \* runningConfig
  file,      \* what nginx.conf was last written from
  changes

cluster == <<ings, services, certs, streams>>
vars == <<cluster, due, job, running, file, changes>>

(* Functions, as maps of Go: Put returns one with a key more, Drop with a  *)
(* key less.                                                               *)
Put(f, k, v) == [x \in DOMAIN f \cup {k} |-> IF x = k THEN v ELSE f[x]]
Drop(f, k) == [x \in DOMAIN f \ {k} |-> f[x]]

DefServer == "_"
Root == "/"
DefUpstream == "upstream-default-backend"
DefaultEndpoint == <<"127.0.0.1", "8181">>

(* The host and the path of NGINX, for a rule and for a path of one.       *)
Host(r) == IF r.host = "" THEN DefServer ELSE r.host
PathOf(p) == IF p.path = "" THEN Root ELSE p.path
HostsOf(ing) == {Host(r) : r \in ToSet(ing.rules)}

(* What comes first, of places in a list.                                  *)
First(S) == CHOOSE i \in S : \A j \in S : i <= j

UpstreamName(b) == Names[b]
FallbackName(service) == "custom-default-backend-" \o service
DefaultCertificate == [names |-> {}, commonName |-> None]

(* The API server admits an Ingress only with lists where it has lists; a  *)
(* path is in a rule with its host, and a Secret or Service is one.        *)
IsIngress(m) ==
  /\ m.canary \in BOOLEAN /\ m.fallback \in Services \cup {None}
  /\ m.rules \in Seq(ToSet(m.rules)) /\ m.paths \in Seq(ToSet(m.paths)) /\ m.tls \in Seq(ToSet(m.tls))
  /\ \A p \in ToSet(m.paths) : Host(p) \in HostsOf(m) /\ p.backend \in DOMAIN Names
  /\ m.backend \in DOMAIN Names \cup {None}
  /\ \A t \in ToSet(m.tls) : t.secret \in Secrets \cup {None}
ASSUME IngressAssumption == \A m \in Manifests \cup ToSet(FirstCluster.ings) : IsIngress(m)

ASSUME ClusterAssumption ==
  /\ MaxIngresses \in Nat /\ MaxChanges \in Nat
  /\ FirstCluster.ings \in Seq(ToSet(FirstCluster.ings)) /\ Len(FirstCluster.ings) <= MaxIngresses
  /\ DOMAIN FirstCluster.services = Services /\ DOMAIN FirstCluster.certs = Secrets
  /\ DOMAIN FirstCluster.streams = StreamPorts

(* Endpoints are the addresses of each subset, for each of its ports, in   *)
(* the order of the loops of getEndpoints.                                 *)
IsService(v) == IF v = None THEN TRUE ELSE v.endpoints \in Seq(ToSet(v.endpoints))
ASSUME ServiceAssumption ==
  /\ \A b \in DOMAIN Names : b.service \in Services
  /\ DefaultService \in Services \cup {None}
  /\ \A s \in Services : \A v \in ServiceStates[s] \cup {FirstCluster.services[s]} : IsService(v)

ASSUME NoneAssumption == None \notin DOMAIN Names /\ None # DefaultCertificate

(* An upstream is named for a namespace, a Service and a port: upstream,   *)
(* default and backend, say, or custom, default and backend-x.  Nobody     *)
(* uses such names.                                                        *)
ASSUME NamesAssumption ==
  /\ \A b \in DOMAIN Names : Names[b] # DefUpstream /\ \A s \in Services : Names[b] # FallbackName(s)
  /\ \A s \in Services : FallbackName(s) # DefUpstream

-----------------------------------------------------------------------------
(* Endpoints of Services.                                                  *)

(* Mutant: addresses of two ports with one target are listed twice.        *)
AppendEvery(s, e) == Append(s, e)

AppendNew(s, e) == IF Contains(s, e) THEN s ELSE Append(s, e)

(* A Service port without a name takes every port of the Endpoints.        *)
Serves(e, port) == e.tcp /\ port.name \in {"", e.name}

(* getEndpoints.                                                           *)
GetEndpoints(svc, port) ==
  IF svc.external # None
  THEN IF port.numeric /\ svc.external.resolves THEN << <<svc.external.host, port.target>> >> ELSE <<>>
  ELSE FoldLeft(LAMBDA s, e : IF Serves(e, port) THEN AppendNew(s, <<e.address, e.port>>) ELSE s, <<>>, svc.endpoints)

MatchingPorts(svc, port) == SelectSeq(svc.ports, LAMBDA p : port.name \in {p.port, p.target, p.name})

(* serviceEndpoints.                                                       *)
ServiceEndpoints(svc, port) ==
  LET ports == MatchingPorts(svc, port)
  IN  IF svc = None THEN <<>>
      ELSE IF ports # <<>> THEN GetEndpoints(svc, Head(ports))
      ELSE IF svc.ports = <<>> /\ svc.external # None /\ port.numeric
      THEN GetEndpoints(svc, [name |-> "", port |-> port.name, target |-> port.name, numeric |-> TRUE])
      ELSE <<>>

(* getServiceClusterEndpoint, <<>> for an error.                           *)
ClusterEndpoint(svc, port) ==
  LET named == SelectSeq(svc.ports, LAMBDA p : p.name = port.name)
  IN  IF svc = None THEN <<>>
      ELSE IF svc.clusterIP = None \/ (~port.numeric /\ named = <<>>) THEN <<>>
      ELSE << <<svc.clusterIP, IF port.numeric THEN port.name ELSE Head(named).port>> >>

(* getStreamServices: only Services that have endpoints.  A user orders    *)
(* streams by port numbers or names, and Services list theirs.             *)
StreamPort(svc, ref) ==
  SelectSeq(svc.ports, LAMBDA p : p.tcp /\ ref.port.name = (IF ref.port.numeric THEN p.port ELSE p.name))
StreamEndpoints(ref) ==
  LET svc == services[ref.service]
      ports == StreamPort(svc, ref)
  IN  IF svc = None THEN <<>> ELSE IF ports = <<>> THEN <<>> ELSE GetEndpoints(svc, Head(ports))
GetStreamServices ==
  LET served == {p \in StreamPorts : IF streams[p] = None THEN FALSE ELSE StreamEndpoints(streams[p]) # <<>>}
  IN  [p \in served |-> [service |-> streams[p].service, port |-> streams[p].port.name,
                         proxy |-> streams[p].proxy, endpoints |-> StreamEndpoints(streams[p])]]

-----------------------------------------------------------------------------
(* Upstreams.                                                              *)

NewUpstream == [service |-> "", noServer |-> FALSE, endpoints |-> <<>>, balance |-> None, policy |-> None,
                affinity |-> FALSE, paths |-> {}, alternatives |-> {}]

(* getDefaultUpstream.                                                     *)
DefaultUpstream ==
  LET svc == IF DefaultService = None THEN None ELSE services[DefaultService]
      found == IF svc = None THEN <<>> ELSE GetEndpoints(svc, svc.ports[1])
  IN  [NewUpstream EXCEPT !.service = IF svc = None THEN None ELSE DefaultService,
                          !.endpoints = IF found = <<>> THEN <<DefaultEndpoint>> ELSE found]

(* The upstream of a backend, without its Service if that does not exist.  *)
BackendEndpoints(ing, svc, port) ==
  LET direct == IF ing.serviceUpstream THEN ClusterEndpoint(svc, port) ELSE <<>>
  IN  IF direct # <<>> THEN direct ELSE ServiceEndpoints(svc, port)
UpstreamOf(ing, b, absent) ==
  LET svc == services[b.service]
  IN  [NewUpstream EXCEPT !.service = IF svc = None THEN absent ELSE b.service,
                          !.noServer = ing.canary,
                          !.endpoints = BackendEndpoints(ing, svc, b.port),
                          !.balance = ing.balance,
                          !.policy = IF ing.canary THEN ing.policy ELSE None]

(* The places of the paths of an Ingress that lead to an upstream.         *)
Leading(ing, n) == {k \in DOMAIN ing.paths : UpstreamName(ing.paths[k].backend) = n}

(* Mutant: an upstream that an Ingress brings as its own backend is all.   *)
AddBackend(ups, ing) ==
  IF ing.backend = None THEN ups ELSE Put(ups, UpstreamName(ing.backend), UpstreamOf(ing, ing.backend, None))

(* createUpstreams for one Ingress.  Its own backend is made anew even if  *)
(* the upstream exists; those of its paths are not.                        *)
AddUpstreams(ups, ing) ==
  LET made == AddBackend(ups, ing)
  IN  [n \in DOMAIN made \cup {UpstreamName(p.backend) : p \in ToSet(ing.paths)} |->
         IF n \in DOMAIN made THEN made[n]
         ELSE UpstreamOf(ing, ing.paths[First(Leading(ing, n))].backend, "")]

-----------------------------------------------------------------------------
(* Servers.                                                                *)

(* The annotations that a location takes from an Ingress.                  *)
Annotations(ing) == [errors |-> ing.errors, fallback |-> ing.fallback, other |-> ing.other]

Location(isDef, backend, annotations) ==
  [isDef |-> isDef, backend |-> backend, annotations |-> annotations, fallbackName |-> None]
Server(location, cert) ==
  [locations |-> [p \in {Root} |-> location], cert |-> cert, alias |-> None, auth |-> None]

DefaultServers ==
  LET none == [errors |-> FALSE, fallback |-> None, other |-> None]
  IN  [h \in {DefServer} |-> Server(Location(TRUE, DefUpstream, none), DefaultCertificate)]

(* createServers, its first loop: the first Ingress that names a host      *)
(* gives its server the default backend, and the first with a backend but  *)
(* no rule is the catch-all.                                               *)
AddServers(servers, ing) ==
  LET backend == IF ing.backend = None THEN DefUpstream ELSE UpstreamName(ing.backend)
      catchAll == ing.backend # None /\ ing.rules = <<>> /\ servers[DefServer].locations[Root].isDef
      root == Location(FALSE, backend, [errors |-> FALSE, fallback |-> None, other |-> ing.other])
  IN  [h \in DOMAIN servers \cup HostsOf(ing) |->
         IF h \notin DOMAIN servers THEN Server(Location(TRUE, backend, Annotations(ing)), None)
         ELSE IF h = DefServer /\ catchAll THEN [servers[h] EXCEPT !.locations = Put(@, Root, root)]
         ELSE servers[h]]

Covers(cert, host) == IF cert = None THEN FALSE ELSE host \in cert.names

(* extractTLSSecretName with the certificates it is given, None for no     *)
(* name.                                                                   *)
TLSSecretName(host, ing, local) ==
  LET listed == {k \in DOMAIN ing.tls : host \in ing.tls[k].hosts}
      covered == {k \in DOMAIN ing.tls : IF ing.tls[k].secret = None THEN FALSE ELSE Covers(local[ing.tls[k].secret], host)}
  IN  IF listed # {} THEN ing.tls[First(listed)].secret
      ELSE IF covered # {} THEN ing.tls[First(covered)].secret ELSE None

(* The names of a certificate, or its common name if it has none.          *)
ValidFor(cert, host) == IF cert = None THEN FALSE ELSE Covers(cert, host) \/ host = cert.commonName

CertificateFor(host, secret, local) ==
  LET cert == IF secret = None THEN None ELSE local[secret]
  IN  IF ValidFor(cert, host) THEN cert ELSE DefaultCertificate

(* createServers, its second loop: alias and certificate of the first      *)
(* Ingress that has one.                                                   *)
ConfigureServer(server, host, ing) ==
  [server EXCEPT !.alias = IF @ = None THEN ing.alias ELSE @,
                 !.cert = IF @ # None \/ ing.tls = <<>> THEN @ ELSE CertificateFor(host, TLSSecretName(host, ing, certs), certs)]
ConfigureServers(servers, ing) ==
  [h \in DOMAIN servers |-> IF h \in HostsOf(ing) THEN ConfigureServer(servers[h], h, ing) ELSE servers[h]]

(* The map from aliases to hosts has one key, whatever the alias is.       *)
AliasKey(alias) == "Alias"

(* The loop that drops an alias that is the name of a server.              *)
DropAliases(servers) ==
  [h \in DOMAIN servers |-> [servers[h] EXCEPT !.alias = IF @ = None THEN None ELSE IF AliasKey(@) \in DOMAIN servers THEN None ELSE @]]

(* Mutant: a later Ingress takes a path over.                              *)
FreePaths(locations, path) == TRUE

Free(locations, path) == IF path \in DOMAIN locations THEN locations[path].isDef ELSE TRUE

(* Mutant: alternative backends get locations like others.                 *)
EveryHasServer(ups) == TRUE

HasServer(ups) == ~ups.noServer

(* The server that a rule or path is put on.                               *)
Target(servers, r) == IF Host(r) \in DOMAIN servers THEN Host(r) ELSE DefServer

(* The certificate authority is that of the first Ingress that has one.    *)
AddAuth(servers, ing) ==
  [h \in DOMAIN servers |->
     IF /\ servers[h].auth = None
        /\ \E r \in ToSet(ing.rules) : Target(servers, r) = h /\ (r.http \/ Host(r) = DefServer)
     THEN [servers[h] EXCEPT !.auth = ing.auth] ELSE servers[h]]

(* The paths of an Ingress, the first one of each location that is free.   *)
Taking(servers, ups, ing, h, path) ==
  {k \in DOMAIN ing.paths :
     LET p == ing.paths[k] IN Target(servers, p) = h /\ PathOf(p) = path /\ HasServer(ups[UpstreamName(p.backend)])}
AddPaths(servers, ups, ing) ==
  [h \in DOMAIN servers |->
     LET old == servers[h].locations
         taken == {path \in {PathOf(p) : p \in ToSet(ing.paths)} : Taking(servers, ups, ing, h, path) # {}}
         new(path) == ing.paths[First(Taking(servers, ups, ing, h, path))]
     IN  [servers[h] EXCEPT !.locations =
            [path \in DOMAIN old \cup taken |->
               IF path \in taken /\ Free(old, path)
               THEN Location(FALSE, UpstreamName(new(path).backend), Annotations(ing)) ELSE old[path]]]]

(* The session affinity of the upstreams that an Ingress leads to.         *)
AddAffinity(ups, ing) ==
  LET cookies(n) == {<<Host(ing.paths[k]), ing.paths[k].path>> : k \in Leading(ing, n)}
  IN  [n \in DOMAIN ups |->
         IF ing.affinity /\ HasServer(ups[n]) /\ Leading(ing, n) # {}
         THEN [ups[n] EXCEPT !.affinity = TRUE, !.paths = @ \cup cookies(n)] ELSE ups[n]]

-----------------------------------------------------------------------------
(* Canaries.                                                               *)

(* canMergeBackend.                                                        *)
CanMerge(ups, primary, alt) == primary # alt /\ primary # DefUpstream /\ ~ups[primary].noServer

(* One backend of a canary, for the locations of a server, of which the    *)
(* matching ones count.  Backends that an earlier merge has deleted are    *)
(* nil, and the process dies of them.                                      *)
Merge(ups, alt, locations, matching) ==
  LET primaries == {locations[p].backend : p \in matching}
      merged == {b \in primaries : CanMerge(ups, b, alt)}
  IN  IF alt \notin DOMAIN ups \/ \E p \in DOMAIN locations : locations[p].backend \notin DOMAIN ups THEN None
      ELSE IF merged = {} THEN Drop(ups, alt)
      ELSE [u \in DOMAIN ups |-> IF u \in merged THEN [ups[u] EXCEPT !.alternatives = @ \cup {alt}] ELSE ups[u]]

(* mergeAlternativeBackends: its backend, and one of its paths.            *)
MergeBackend(servers, ups, ing) ==
  IF ing.backend = None THEN ups
  ELSE LET locations == servers[DefServer].locations
       IN  Merge(ups, UpstreamName(ing.backend), locations, DOMAIN locations)
MergePath(servers, ups, p) ==
  LET alt == UpstreamName(p.backend) IN
  IF p.host \notin DOMAIN servers THEN IF alt \in DOMAIN ups THEN ups ELSE None
  ELSE LET locations == servers[p.host].locations
       IN  Merge(ups, alt, locations, {p.path} \cap DOMAIN locations)

(* None for a panic, also at a rule without paths.                         *)
MergeAlternative(servers, ups, ing, k) ==
  IF \E r \in ToSet(ing.rules) : ~r.http THEN None
  ELSE IF k = 0 THEN MergeBackend(servers, ups, ing) ELSE MergePath(servers, ups, ing.paths[k])

-----------------------------------------------------------------------------
(* Comparison of models.                                                   *)

Model(ups, custom, servers) ==
  [backends |-> ups, custom |-> custom, servers |-> servers, streams |-> GetStreamServices]
NoModel == [backends |-> [n \in {} |-> None], custom |-> {}, servers |-> [h \in {} |-> None], streams |-> [p \in {} |-> None]]

(* As many, and each one found in the other: enough if none comes twice.   *)
EqualEndpoints(s, t) == Len(s) = Len(t) /\ ToSet(s) \subseteq ToSet(t)

(* Backend.Equal, of two with one name.  The alternatives of the new one   *)
(* may be more, and the paths of cookies are not looked at.                *)
EqualBackend(b, c) ==
  /\ b.service = c.service /\ b.noServer = c.noServer /\ b.balance = c.balance
  /\ b.policy = c.policy /\ b.affinity = c.affinity
  /\ EqualEndpoints(b.endpoints, c.endpoints)
  /\ b.alternatives \subseteq c.alternatives

EqualBackends(f, g) == DOMAIN f = DOMAIN g /\ \A n \in DOMAIN f : EqualBackend(f[n], g[n])

(* Custom default backends, which may share a name.                        *)
EqualCustom(f, g) ==
  Cardinality(f) = Cardinality(g) /\ \A b \in f : \E c \in g : b.name = c.name /\ EqualBackend(b, c)

(* Location.Equal does not look at the default backend of the annotation,  *)
(* only at the name it leads to.                                           *)
EqualLocation(l, m) ==
  /\ l.isDef = m.isDef /\ l.backend = m.backend /\ l.fallbackName = m.fallbackName
  /\ l.annotations.errors = m.annotations.errors /\ l.annotations.other = m.annotations.other

(* Mutant, alone: the certificate is not compared.                         *)
EqualSite(s, t) ==
  /\ s.alias = t.alias /\ s.auth = t.auth /\ DOMAIN s.locations = DOMAIN t.locations
  /\ \A p \in DOMAIN s.locations : EqualLocation(s.locations[p], t.locations[p])
EqualServer(s, t) == s.cert = t.cert /\ EqualSite(s, t)

EqualServers(f, g) == DOMAIN f = DOMAIN g /\ \A h \in DOMAIN f : EqualServer(f[h], g[h])

(* L4Service.Equal and L4Backend.Equal.                                    *)
EqualStreamBackends(f, g) ==
  DOMAIN f = DOMAIN g /\ \A p \in DOMAIN f : f[p].service = g[p].service /\ f[p].port = g[p].port
EqualStreams(f, g) ==
  EqualStreamBackends(f, g) /\ \A p \in DOMAIN f : EqualEndpoints(f[p].endpoints, g[p].endpoints)

(* Configuration.Equal.                                                    *)
Equal(m, n) ==
  /\ EqualBackends(m.backends, n.backends) /\ EqualCustom(m.custom, n.custom)
  /\ EqualServers(m.servers, n.servers) /\ EqualStreams(m.streams, n.streams)

(* Mutant: streams are left out with their endpoints.                      *)
ServersAreEnough(m, n) == EqualServers(m.servers, n.servers)

(* IsDynamicConfigurationEnough: all but backends and endpoints is equal.  *)
DynamicIsEnough(m, n) ==
  EqualServers(m.servers, n.servers) /\ EqualStreamBackends(m.streams, n.streams)

(* What nginx.conf is written from.                                        *)
LocationWritten(l) == [l EXCEPT !.annotations.fallback = None]
Written(m) ==
  [servers |-> [h \in DOMAIN m.servers |-> [m.servers[h] EXCEPT !.locations = [p \in DOMAIN @ |-> LocationWritten(@[p])]]],
   streams |-> [p \in DOMAIN m.streams |-> [m.streams[p] EXCEPT !.endpoints = <<>>]]]

-----------------------------------------------------------------------------
(* The synchronization.                                                    *)

(* at is how many Ingresses a loop has done, path how much of one canary.  *)
NoJob == [step |-> "idle", ings |-> <<>>, at |-> 0, path |-> 0, servers |-> [h \in {} |-> None],
          upstreams |-> [n \in {} |-> None], custom |-> {}, todo |-> {}]

Init ==
  /\ ings = FirstCluster.ings /\ services = FirstCluster.services
  /\ certs = FirstCluster.certs /\ streams = FirstCluster.streams
  /\ due = TRUE /\ job = NoJob /\ running = NoModel /\ file = Written(NoModel) /\ changes = 0

(* ListIngresses and what getBackendServers begins with.                   *)
Begin ==
  /\ job.step = "idle" /\ due
  /\ due' = FALSE
  /\ job' = [NoJob EXCEPT !.step = "upstreams", !.ings = ings,
                          !.upstreams = [n \in {DefUpstream} |-> DefaultUpstream], !.servers = DefaultServers]
  /\ UNCHANGED <<cluster, running, file, changes>>

(* The next Ingress of a loop, and the end of the loop.                    *)
Iterate(step, new) ==
  /\ job.step = step /\ job.at < Len(job.ings)
  /\ job' = [new EXCEPT !.at = @ + 1]
  /\ UNCHANGED <<cluster, due, running, file, changes>>
EndLoop(step, next, new) ==
  /\ job.step = step /\ job.at = Len(job.ings)
  /\ job' = [new EXCEPT !.step = next, !.at = 0]
  /\ UNCHANGED <<cluster, due, running, file, changes>>

This == job.ings[job.at + 1]
CreateUpstreams ==
  \/ Iterate("upstreams", [job EXCEPT !.upstreams = AddUpstreams(@, This)])
  \/ EndLoop("upstreams", "servers", job)
CreateServers ==
  \/ Iterate("servers", [job EXCEPT !.servers = IF This.canary THEN @ ELSE AddServers(@, This)])
  \/ EndLoop("servers", "configure", job)
FinishServers ==
  \/ Iterate("configure", [job EXCEPT !.servers = IF This.canary THEN @ ELSE ConfigureServers(@, This)])
  \/ EndLoop("configure", "locations", [job EXCEPT !.servers = DropAliases(@)])
GetBackendServers ==
  \/ Iterate("locations", [job EXCEPT !.servers = AddPaths(AddAuth(@, This), job.upstreams, This),
                                      !.upstreams = AddAffinity(@, This)])
  \/ EndLoop("locations", "canaries", job)

(* Canaries are merged if there is any other Ingress.                      *)
MergeCanary ==
  /\ job.step = "canaries" /\ job.at < Len(job.ings)
  /\ This.canary /\ \E i \in DOMAIN job.ings : ~job.ings[i].canary
  /\ LET merged == MergeAlternative(job.servers, job.upstreams, This, job.path)
     IN  job' = IF merged = None THEN [job EXCEPT !.step = "panic"]
                ELSE IF job.path < Len(This.paths) THEN [job EXCEPT !.upstreams = merged, !.path = @ + 1]
                ELSE [job EXCEPT !.upstreams = merged, !.path = 0, !.at = @ + 1]
  /\ UNCHANGED <<cluster, due, running, file, changes>>
MergeCanaries ==
  \/ MergeCanary
  \/ Iterate("canaries", job) /\ (This.canary => \A i \in DOMAIN job.ings : job.ings[i].canary)
  \/ EndLoop("canaries", "backends", [job EXCEPT !.todo = DOMAIN job.upstreams])

(* shouldCreateUpstreamForLocationDefaultBackend.                          *)
ShouldCreate(n, l) ==
  /\ n = l.backend /\ l.annotations.fallback # None
  /\ job.upstreams[n].endpoints = <<>> \/ l.annotations.errors
FallbackEndpoints(l) ==
  LET svc == services[l.annotations.fallback] IN IF svc = None THEN <<>> ELSE GetEndpoints(svc, svc.ports[1])

CustomName(l) == FallbackName(l.annotations.fallback)

(* A location, when the loop over all upstreams, in the order of a map, is *)
(* at one of them.                                                         *)
VisitLocation(n, l) ==
  IF ~ShouldCreate(n, l) THEN [l EXCEPT !.fallbackName = DefUpstream]
  ELSE IF FallbackEndpoints(l) = <<>> THEN l
  ELSE [l EXCEPT !.fallbackName = CustomName(l),
                 !.backend = IF job.upstreams[n].endpoints = <<>> THEN CustomName(l) ELSE @]
VisitedServers(n, servers) ==
  [h \in DOMAIN servers |-> [servers[h] EXCEPT !.locations = [p \in DOMAIN @ |-> VisitLocation(n, @[p])]]]

VisitUpstream(n) ==
  /\ job.step = "backends" /\ n \in job.todo
  /\ LET locations == UNION {{job.servers[h].locations[p] : p \in DOMAIN job.servers[h].locations} : h \in DOMAIN job.servers}
         created == {l \in locations : ShouldCreate(n, l)}
     IN  job' = [job EXCEPT
           !.todo = @ \ {n},
           !.servers = VisitedServers(n, @),
           !.custom = @ \cup {Put([job.upstreams[n] EXCEPT !.endpoints = FallbackEndpoints(l)], "name", CustomName(l)) :
                                l \in {k \in created : FallbackEndpoints(k) # <<>>}}]
  /\ UNCHANGED <<cluster, due, running, file, changes>>

(* The rest of syncIngress: nothing for a model that is equal, a reload if *)
(* the dynamic part is not all that differs, and then the dynamic part.    *)
Apply ==
  /\ job.step = "backends" /\ job.todo = {}
  /\ LET new == Model(job.upstreams, job.custom, job.servers)
     IN  IF Equal(running, new) THEN UNCHANGED <<running, file>>
         ELSE /\ running' = new
              /\ file' = IF DynamicIsEnough(running, new) THEN file ELSE Written(new)
  /\ job' = NoJob
  /\ UNCHANGED <<cluster, due, changes>>

(* After a panic a new process synchronizes first of all.                  *)
Restart ==
  /\ job.step = "panic"
  /\ job' = NoJob /\ running' = NoModel /\ due' = TRUE
  /\ UNCHANGED <<cluster, file, changes>>

Sync ==
  \/ Begin \/ CreateUpstreams \/ CreateServers \/ FinishServers \/ GetBackendServers \/ MergeCanaries \/ Apply
  \/ \E n \in job.todo : VisitUpstream(n)

-----------------------------------------------------------------------------
(* The users.  The list of Ingresses is read once, in the beginning: they  *)
(* need to change it between synchronizations only.                        *)

Change == changes < MaxChanges /\ changes' = changes + 1 /\ due' = TRUE /\ UNCHANGED <<job, running, file>>

ChangeIngresses ==
  /\ job.step = "idle" /\ Change
  /\ \/ \E m \in Manifests : Len(ings) < MaxIngresses /\ ings' = Append(ings, m)
     \/ \E i \in DOMAIN ings : ings' = RemoveAt(ings, i)
     \/ \E i \in DOMAIN ings, m \in Manifests : ings[i] # m /\ ings' = [ings EXCEPT ![i] = m]
  /\ UNCHANGED <<services, certs, streams>>
ChangeService(s) ==
  /\ Change
  /\ \E v \in ServiceStates[s] \ {services[s]} : services' = [services EXCEPT ![s] = v]
  /\ UNCHANGED <<ings, certs, streams>>
ChangeCertificate(s) ==
  /\ Change
  /\ \E c \in (Certs \cup {None}) \ {certs[s]} : certs' = [certs EXCEPT ![s] = c]
  /\ UNCHANGED <<ings, services, streams>>
ChangeStream(p) ==
  /\ Change
  /\ \E v \in StreamStates \ {streams[p]} : streams' = [streams EXCEPT ![p] = v]
  /\ UNCHANGED <<ings, services, certs>>

Next ==
  \/ Sync \/ Restart \/ ChangeIngresses
  \/ \E s \in Services : ChangeService(s)
  \/ \E s \in Secrets : ChangeCertificate(s)
  \/ \E p \in StreamPorts : ChangeStream(p)

Spec == Init /\ [][Next]_vars

-----------------------------------------------------------------------------
(* What the model must be like.                                            *)

(* The controller has seen every change.                                   *)
Settled == job = NoJob /\ ~due

(* The parts that are built have the shape the later loops rely on: each   *)
(* server has a root location, and each path of a rule its upstream.       *)
TypeOK ==
  /\ DOMAIN services = Services /\ DOMAIN certs = Secrets /\ DOMAIN streams = StreamPorts
  /\ Len(ings) <= MaxIngresses /\ changes \in 0 .. MaxChanges
  /\ job.step \in {"idle", "upstreams", "servers", "configure", "locations", "canaries", "backends", "panic"}
  /\ job.step # "idle" => DefServer \in DOMAIN job.servers /\ \A h \in DOMAIN job.servers : Root \in DOMAIN job.servers[h].locations
  /\ job.step \in {"configure", "locations"} =>
       \A i \in DOMAIN job.ings : \A p \in ToSet(job.ings[i].paths) : UpstreamName(p.backend) \in DOMAIN job.upstreams

Mains == {i \in DOMAIN ings : ~ings[i].canary}
PathsOf(i) == ToSet(ings[i].paths)
BackendsOf(i) == {p.backend : p \in PathsOf(i)} \cup ({ings[i].backend} \ {None})
UpstreamsOf(i) == {UpstreamName(b) : b \in BackendsOf(i)}

(* No canary names an upstream that another Ingress names as well.         *)
CanariesApart == \A i \in Mains, j \in DOMAIN ings \ Mains : UpstreamsOf(i) \cap UpstreamsOf(j) = {}

Hosts == {DefServer} \cup UNION {HostsOf(ings[i]) : i \in Mains}
Naming(h) == {i \in Mains : h \in HostsOf(ings[i])}
Claims(ing, h, path) == {k \in DOMAIN ing.paths : Host(ing.paths[k]) = h /\ PathOf(ing.paths[k]) = path}
Claiming(h, path) == {i \in Mains : Claims(ings[i], h, path) # {}}
CatchAlls == {i \in Mains : ings[i].backend # None /\ ings[i].rules = <<>>}
DefaultOf(S) ==
  IF S = {} THEN DefUpstream
  ELSE IF ings[First(S)].backend = None THEN DefUpstream ELSE UpstreamName(ings[First(S)].backend)

(* The upstream that the Ingresses give to a path of a host.               *)
Granted(h, path) ==
  IF h = DefServer /\ path = Root /\ CatchAlls # {} THEN DefaultOf(CatchAlls)
  ELSE IF Claiming(h, path) # {}
  THEN LET ing == ings[First(Claiming(h, path))]
       IN  UpstreamName(ing.paths[First(Claims(ing, h, path))].backend)
  ELSE IF h = DefServer THEN DefUpstream ELSE DefaultOf(Naming(h))

(* Whatever the order of the loops, the oldest Ingress that claims a path  *)
(* of a host has it, and a path nobody claims leads to the default.        *)
OldestIngressWins ==
  Settled /\ CanariesApart =>
    /\ DOMAIN running.servers = Hosts
    /\ \A h \in Hosts :
         LET locations == running.servers[h].locations IN
         /\ DOMAIN locations = {Root} \cup {PathOf(p) : p \in {q \in UNION {PathsOf(i) : i \in Mains} : Host(q) = h}}
         /\ \A path \in DOMAIN locations :
              LET l == locations[path] IN
              \/ l.backend = Granted(h, path)
              \/ l.annotations.fallback # None /\ l.backend = CustomName(l) /\ Len(running.backends[Granted(h, path)].endpoints) = 0

(* Each location leads to a backend that the balancer knows, also after    *)
(* the backends of canaries were deleted.                                  *)
LocationsHaveBackends ==
  Settled /\ CanariesApart =>
    \A h \in DOMAIN running.servers : \A path \in DOMAIN running.servers[h].locations :
      running.servers[h].locations[path].backend \in DOMAIN running.backends \cup {c.name : c \in running.custom}

(* Addresses that a backend of an Ingress reaches.                         *)
Reached(b) ==
  LET svc == services[b.service]
      port == Head(MatchingPorts(svc, b.port))
  IN  IF svc = None THEN {}
      ELSE IF MatchingPorts(svc, b.port) = <<>> THEN {}
      ELSE {<<e.address, e.port>> : e \in {f \in ToSet(svc.endpoints) : Serves(f, port)}}

(* The endpoints that run are those of the Service, none of them twice,    *)
(* though a model that is taken for equal is thrown away; of a backend     *)
(* whose upstream has no other.                                            *)
EndpointsAreCurrent ==
  Settled => \A i \in DOMAIN ings : \A b \in BackendsOf(i) :
    LET n == UpstreamName(b) IN
    n \in DOMAIN running.backends
      /\ (\A j \in DOMAIN ings : \A c \in BackendsOf(j) : UpstreamName(c) = n => c = b /\ ~ings[j].serviceUpstream)
      /\ (IF services[b.service] = None THEN TRUE ELSE services[b.service].external = None) =>
      /\ ToSet(running.backends[n].endpoints) = Reached(b)
      /\ Len(running.backends[n].endpoints) = Cardinality(Reached(b))

(* A server has the certificate of the oldest Ingress with TLS that names  *)
(* its host, as the Secret holds it, and never one for another host.       *)
CertificatesAreRight ==
  Settled => \A h \in DOMAIN running.servers \ {DefServer} :
    LET withTLS == {i \in Naming(h) : ings[i].tls # <<>>}
        cert == running.servers[h].cert
    IN  /\ cert = None <=> withTLS = {}
        /\ cert \notin {None, DefaultCertificate} => ValidFor(cert, h) /\ \E s \in Secrets : certs[s] = cert
        /\ withTLS # {} => \A t \in ToSet(ings[First(withTLS)].tls) :
             h \in t.hosts /\ Cardinality({u \in ToSet(ings[First(withTLS)].tls) : h \in u.hosts}) = 1 /\ t.secret # None =>
               cert = IF ValidFor(certs[t.secret], h) THEN certs[t.secret] ELSE DefaultCertificate

(* nginx.conf is that of the running model, though most models are applied *)
(* without a reload.  It would not be if the PROXY protocol of a stream    *)
(* changes, which no comparison looks at.                                  *)
Unproxied(v) == [v EXCEPT !.proxy = FALSE]
WithoutProxy(w) == [w EXCEPT !.streams = [p \in DOMAIN @ |-> Unproxied(@[p])]]
FileIsCurrent == Settled => WithoutProxy(file) = WithoutProxy(Written(running))

(* "If a default backend annotation is specified on the ingress, the       *)
(* errors will be routed to that annotation's default backend service      *)
(* (instead of the global default backend)": while that has endpoints.     *)
ErrorsGoToTheAnnotation ==
  Settled => \A h \in DOMAIN running.servers : \A path \in DOMAIN running.servers[h].locations :
    LET l == running.servers[h].locations[path] IN
    (IF l.annotations.errors /\ l.annotations.fallback # None THEN FallbackEndpoints(l) # <<>> ELSE FALSE) => l.fallbackName = CustomName(l)

(* "If a match is found, we know that this server should back the          *)
(* alternative backend and add the alternative backend to a backend's      *)
(* alternative list": the canary is an alternative of what it is a canary  *)
(* of.                                                                     *)
CanariesServe ==
  Settled /\ CanariesApart => \A j \in DOMAIN ings \ Mains : \A p \in PathsOf(j) :
    LET h == p.host
        primary == running.servers[h].locations[p.path].backend
    IN  h \in DOMAIN running.servers =>
          (p.path \in DOMAIN running.servers[h].locations =>
             (primary \in DOMAIN running.backends \ {DefUpstream} =>
                UpstreamName(p.backend) \in running.backends[primary].alternatives))

=============================================================================
