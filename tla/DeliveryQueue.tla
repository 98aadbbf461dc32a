--------------------------- MODULE DeliveryQueue ----------------------------
(***************************************************************************)
(* What the portal's outbox promises about each queued change, whatever    *)
(* the order of synchronisation runs, answers and user actions: one is in  *)
(* flight at a time; it is delivered only after the server accepted it and *)
(* never sent again afterwards; it is held back only when something went   *)
(* wrong, and dropped only when something went wrong with it.              *)
(***************************************************************************)
EXTENDS Naturals

CONSTANT MaxItems

Number == 1 .. MaxItems

VARIABLES
    fate,      \* what became of each change, numbered in the order of queueing
    marked,    \* the changes an error is recorded for
    accepted   \* the changes whose effect the server has made

vars == <<fate, marked, accepted>>

Init ==
    /\ fate = [n \in Number |-> "none"]
    /\ marked = {}
    /\ accepted = {}

Enqueue(n) ==
    /\ fate[n] = "none"
    /\ \A m \in 1 .. n - 1 : fate[m] # "none"
    /\ fate' = [fate EXCEPT ![n] = "queued"]
    /\ UNCHANGED <<marked, accepted>>

Send(n) ==
    /\ fate[n] = "queued"
    /\ \A m \in Number : fate[m] # "sent"
    /\ fate' = [fate EXCEPT ![n] = "sent"]
    /\ UNCHANGED <<marked, accepted>>

Accept(n) ==
    /\ fate[n] = "sent"
    /\ accepted' = accepted \cup {n}
    /\ UNCHANGED <<fate, marked>>

Deliver(n) ==
    /\ fate[n] = "sent"
    /\ n \in accepted
    /\ fate' = [fate EXCEPT ![n] = "delivered"]
    /\ marked' = marked \ {n}
    /\ UNCHANGED accepted

(* The attempt failed: another one follows, or the change is held.         *)
Fail(n) ==
    /\ fate[n] = "sent"
    /\ \E f \in {"queued", "held"} : fate' = [fate EXCEPT ![n] = f]
    /\ marked' = marked \cup {n}
    /\ UNCHANGED accepted

(* A change is held unsent for the trouble of another one.                 *)
Hold(n) ==
    /\ fate[n] = "queued"
    /\ marked \ {n} # {}
    /\ fate' = [fate EXCEPT ![n] = "held"]
    /\ marked' = marked \cup {n}
    /\ UNCHANGED accepted

Drop(S) ==
    /\ S # {}
    /\ S \subseteq marked
    /\ \A n \in S : fate[n] \in {"queued", "held"}
    /\ fate' = [n \in Number |-> IF n \in S THEN "dropped" ELSE fate[n]]
    /\ UNCHANGED <<marked, accepted>>

(* A drop is undone by a queue that was at work on the changes.            *)
Restore(S) ==
    /\ S # {}
    /\ \A n \in S : fate[n] = "dropped"
    /\ \E f \in {"queued", "held"} :
          fate' = [n \in Number |-> IF n \in S THEN f ELSE fate[n]]
    /\ UNCHANGED <<marked, accepted>>

Next ==
    \/ \E n \in Number :
          Enqueue(n) \/ Send(n) \/ Accept(n) \/ Deliver(n) \/ Fail(n) \/ Hold(n)
    \/ \E S \in SUBSET Number : Drop(S) \/ Restore(S)

Spec == Init /\ [][Next]_vars
=============================================================================
