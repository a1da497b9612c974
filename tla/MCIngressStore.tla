---------------------------- MODULE MCIngressStore ----------------------------
(* IngressStore with the specifications the runs use.                      *)
EXTENDS IngressStore

Uses(kind, s) == [k \in Kinds |-> IF k = kind THEN s ELSE None]

Taken(uses) == [class |-> TRUE, catchAll |-> FALSE, uses |-> uses]

CONSTANTS s1, s2

ClassSpecs == {[class |-> c, catchAll |-> a, uses |-> Uses("tls", s)] :
                 c \in BOOLEAN, a \in BOOLEAN, s \in {s1, s2}}
TLSSpecs == {Taken(Uses("tls", s1)), [Taken(Uses("tls", s1)) EXCEPT !.class = FALSE]}
AuthSpecs == {Taken(Uses("auth-tls-secret", s1))}
VerifySpecs == {Taken(Uses("secure-verify-ca-secret", s1))}
AllKindsSpecs == {Taken([k \in Kinds |-> s1]), Taken(Uses("tls", s1))}
=============================================================================
