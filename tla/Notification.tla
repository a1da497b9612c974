----------------------------- MODULE Notification -----------------------------
(***************************************************************************)
(* What the synchronization loop needs of whoever writes to the store it   *)
(* reads: a writer at work ends with an event, so that an entry the reader *)
(* has not seen is one an event tells of or will tell of.  The handlers of *)
(* IngressStore promise it of the annotated Ingresses.                     *)
(***************************************************************************)
CONSTANTS Writers, Entries

VARIABLES
  dirty,     \* entries written since the reader last looked
  working,   \* writers that have yet to send their event
  signal     \* an event waits for the reader

vars == <<dirty, working, signal>>

Init == dirty = {} /\ working = {} /\ signal = FALSE

Begin(w) ==
  /\ working' = working \cup {w}
  /\ UNCHANGED <<dirty, signal>>

Write(w, e) ==
  /\ w \in working
  /\ dirty' = dirty \cup {e}
  /\ UNCHANGED <<working, signal>>

End(w) ==
  /\ working' = working \ {w} /\ signal' = TRUE
  /\ UNCHANGED dirty

(* An event nobody owes, as those for certificates. *)
Signal ==
  /\ signal' = TRUE
  /\ UNCHANGED <<dirty, working>>

Look ==
  /\ signal
  /\ signal' = FALSE /\ dirty' = {}
  /\ UNCHANGED working

Next ==
  \/ \E w \in Writers : Begin(w) \/ End(w) \/ \E e \in Entries : Write(w, e)
  \/ Signal \/ Look

Spec == Init /\ [][Next]_vars

(* Every unseen entry is told of: no write is silent. *)
Told == dirty # {} => signal \/ working # {}
=============================================================================
