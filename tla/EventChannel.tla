---------------------------- MODULE EventChannel ----------------------------
(* What a transport promises between one client rank and one server rank    *)
(* for the events of the client, sent in the order of their timelines: they  *)
(* are each handed to the context exactly once and in that order, whatever   *)
(* their bytes went through; the client frees its buffers after the last one. *)
EXTENDS Naturals, Sequences

CONSTANT Timelines      \* the timelines of the client's events, an interval of Nat

VARIABLES
  accepted,     \* timelines whose message getBuffer has accepted, oldest first
  processed,    \* timelines handed to dispatchEvent, oldest first
  released      \* the client context has released its buffers

vars == <<accepted, processed, released>>

Init == accepted = <<>> /\ processed = <<>> /\ released = FALSE

Accept(t) == /\ ~released
             /\ \A i \in DOMAIN accepted : accepted[i] < t
             /\ accepted' = Append(accepted, t)
             /\ UNCHANGED <<processed, released>>

Process == /\ ~released
           /\ processed # accepted
           /\ processed' = SubSeq(accepted, 1, Len(processed) + 1)
           /\ UNCHANGED <<accepted, released>>

Release == /\ ~released
           /\ processed = accepted /\ accepted # <<>>
           /\ released' = TRUE
           /\ UNCHANGED <<accepted, processed>>

Next == (\E t \in Timelines : Accept(t)) \/ Process \/ Release

(* What is accepted is eventually processed, and the client is not kept      *)
(* waiting once its last event has been.                                     *)
Fairness == WF_vars(Process) /\ WF_vars(Release)

Spec == Init /\ [][Next]_vars /\ Fairness
=============================================================================
