---------------------------- MODULE MCModelBuilding ----------------------------
(* ModelBuilding with Ingresses that meet: on a path, on a host, as        *)
(* catch-all, as canary of another, on one Service.                        *)
EXTENDS ModelBuilding

P80 == [name |-> "80", numeric |-> TRUE]
Web == [name |-> "web", numeric |-> FALSE]
A == [service |-> "a", port |-> P80]
B == [service |-> "b", port |-> Web]
C == [service |-> "c", port |-> P80]
NamesOf == (A :> "a-80") @@ (B :> "b-web") @@ (C :> "c-80")

Plain == [canary |-> FALSE, backend |-> None, rules |-> <<>>, paths |-> <<>>, tls |-> <<>>, alias |-> None,
          auth |-> None, balance |-> None, policy |-> None, affinity |-> FALSE, errors |-> FALSE, fallback |-> None,
          serviceUpstream |-> FALSE, other |-> 0]
Rule(h) == [host |-> h, http |-> TRUE]
Path(h, p, b) == [host |-> h, path |-> p, backend |-> b]

CatchAll == [Plain EXCEPT !.backend = A]
Shop == [Plain EXCEPT !.rules = <<Rule("h")>>, !.paths = <<Path("h", "/", A), Path("h", "/x", B)>>, !.other = 1,
                      !.tls = <<[hosts |-> {"h"}, secret |-> "s"]>>]
Rival == [Plain EXCEPT !.backend = B, !.rules = <<Rule("h"), Rule("")>>, !.paths = <<Path("h", "", B), Path("", "/x", A)>>,
                       !.other = 2, !.affinity = TRUE, !.tls = <<[hosts |-> {}, secret |-> "s"]>>]
Canary == [Plain EXCEPT !.canary = TRUE, !.policy = 10, !.rules = <<Rule("h")>>, !.paths = <<Path("h", "/", C)>>]
Fallback == [Plain EXCEPT !.rules = <<Rule("h")>>, !.paths = <<Path("h", "/y", A)>>, !.fallback = "c", !.errors = TRUE]
Direct == [Plain EXCEPT !.rules = <<Rule("g")>>, !.paths = <<Path("g", "/", A)>>, !.serviceUpstream = TRUE, !.alias = "h", !.auth = "ca"]
Empty == [Plain EXCEPT !.rules = <<[host |-> "g", http |-> FALSE]>>, !.backend = B]
SameCanary == [Canary EXCEPT !.rules = <<Rule("h"), Rule("g")>>, !.paths = <<Path("h", "/", A), Path("g", "/", A)>>]
WideCanary == [Canary EXCEPT !.paths = <<Path("h", "/", C), Path("h", "/x", C)>>]

CanaryIngresses == {Shop, Canary, WideCanary}
Ordinary == {CatchAll, Shop, Rival, Canary, WideCanary, Fallback, Direct, Empty, SameCanary}

Address(name, port, tcp, address) == [name |-> name, port |-> port, tcp |-> tcp, address |-> address]
NoEndpoints == [ports |-> <<[port |-> "80", target |-> "8080", name |-> "web", tcp |-> TRUE, numeric |-> TRUE]>>,
                clusterIP |-> "10.0.0.1", external |-> None, endpoints |-> <<>>]
Two == [NoEndpoints EXCEPT !.ports[1].name = "",
          !.endpoints = <<Address("web", "8080", TRUE, "10.1.1.1"), Address("web", "8080", TRUE, "10.1.1.2"),
                          Address("alt", "8080", TRUE, "10.1.1.1"), Address("alt", "8080", TRUE, "10.1.1.2")>>]
One == [NoEndpoints EXCEPT
          !.endpoints = <<Address("web", "8080", TRUE, "10.1.1.1"), Address("dns", "53", FALSE, "10.1.1.1"),
                          Address("alt", "8080", TRUE, "10.1.1.1"), Address("alt", "8080", TRUE, "10.1.1.3")>>]
Elsewhere == [NoEndpoints EXCEPT !.external = [host |-> "example.com", resolves |-> TRUE], !.ports = <<>>]
States == [s \in {"a", "b", "c"} |-> {None, NoEndpoints, One, Two} \cup (IF s = "b" THEN {Elsewhere} ELSE {})]

ForH == [names |-> {"h"}, commonName |-> None]
ForG == [names |-> {}, commonName |-> "g"]

Mapped == [service |-> "b", port |-> P80, proxy |-> FALSE]
CertSet == {ForH, ForG}
StreamSet == {None, Mapped, [Mapped EXCEPT !.proxy = TRUE], [Mapped EXCEPT !.port = Web]}
Start == [ings |-> <<Shop>>, services |-> [s \in {"a", "b", "c"} |-> Two], certs |-> [s \in {"s"} |-> ForH], streams |-> [p \in {9000} |-> Mapped]]
=============================================================================
