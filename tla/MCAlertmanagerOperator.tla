------------------------ MODULE MCAlertmanagerOperator ------------------------
(* AlertmanagerOperator with two Alertmanagers.                            *)
EXTENDS AlertmanagerOperator

Plain == [paused |-> FALSE, version |-> 1, storage |-> 1]
Variants == {Plain, [Plain EXCEPT !.version = 2], [Plain EXCEPT !.storage = 2], [Plain EXCEPT !.paused = TRUE]}
=============================================================================
