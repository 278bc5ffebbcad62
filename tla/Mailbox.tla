------------------------------- MODULE Mailbox -------------------------------
(***************************************************************************)
(* What a store-and-forward service promises about each message it takes:  *)
(* it goes to its addressee or to nobody, at most once, and once dropped   *)
(* it does not come back. Which messages are dropped, and when, is left    *)
(* open: the relay keeps its queues in memory and bounds them.             *)
(***************************************************************************)
EXTENDS Naturals

CONSTANT Peers   \* the addressees

VARIABLES
  taken,    \* messages 1..taken have been taken
  pending,  \* <<message, addressee>>: taken, neither delivered nor dropped
  inbox     \* what each addressee got

vars == <<taken, pending, inbox>>

Init ==
  /\ taken = 0
  /\ pending = {}
  /\ inbox = [p \in Peers |-> {}]

\* A message is taken for p; refusing it (an oversized one) uses its number.
Take(p) ==
  /\ taken' = taken + 1
  /\ pending' \in {pending, pending \cup {<<taken', p>>}}
  /\ UNCHANGED inbox

Deliver(p) ==
  \E m \in {x \in pending : x[2] = p} :
    /\ pending' = pending \ {m}
    /\ inbox' = [inbox EXCEPT ![p] = @ \cup {m[1]}]
    /\ UNCHANGED taken

Drop ==
  /\ pending' \in SUBSET pending
  /\ UNCHANGED <<taken, inbox>>

Next == (\E p \in Peers : Take(p) \/ Deliver(p)) \/ Drop

Spec == Init /\ [][Next]_vars
=============================================================================
