----------------------------- MODULE EventOrder -----------------------------
(* What the event scheduler promises the server ranks that share it: every   *)
(* rank is told to process the same events in the same order, and no rank is *)
(* told to process an event before all have announced it, so that the        *)
(* collective operations of the events cannot cross.                         *)
EXTENDS Naturals, Sequences, FiniteSets

CONSTANTS Ranks, Events

VARIABLES
  announced,    \* announced[r][e]: how often rank r has registered event e
  order,        \* the events in the order chosen for all
  taken         \* taken[r]: how many of them rank r has popped

vars == <<announced, order, taken>>

Times(e) == Cardinality({i \in 1 .. Len(order) : order[i] = e})

Init == /\ announced = [r \in Ranks |-> [e \in Events |-> 0]]
        /\ order = <<>>
        /\ taken = [r \in Ranks |-> 0]

Announce(r, e) == /\ announced' = [announced EXCEPT ![r][e] = @ + 1]
                  /\ UNCHANGED <<order, taken>>

Choose(e) == /\ \A r \in Ranks : announced[r][e] > Times(e)
             /\ order' = Append(order, e)
             /\ UNCHANGED <<announced, taken>>

Take(r) == /\ taken[r] < Len(order)
           /\ taken' = [taken EXCEPT ![r] = @ + 1]
           /\ UNCHANGED <<announced, order>>

Next == \/ \E r \in Ranks, e \in Events : Announce(r, e)
        \/ \E e \in Events : Choose(e)
        \/ \E r \in Ranks : Take(r)

(* An event announced by all is eventually chosen, and taken by every rank.  *)
Fairness == /\ \A e \in Events : WF_vars(Choose(e))
            /\ \A r \in Ranks : WF_vars(Take(r))

Spec == Init /\ [][Next]_vars /\ Fairness
=============================================================================
