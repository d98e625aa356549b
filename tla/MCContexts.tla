------------------------------ MODULE MCContexts ------------------------------
(* The two ends of a context's life that contexts live together.  The close   *)
(* of the definition of two coupled contexts of two ranks, one of which sends *)
(* to the other.  The end of two contexts, the first of which sends fields to *)
(* the second, over a client each, two gatherers, a writer.  A behaviour is of   *)
(* one part; the variables of the definition are Off in the other, those of   *)
(* the end stay as they begin.                                                *)
EXTENDS ContextEnd, Integers, FiniteSets

Off == "off"

VARIABLES part, rank, seen, arrived, asked, place, come

MCvars == <<part, rank, seen, arrived, asked, place, come, vars>>

OneEach == [a |-> {"a1"}, b |-> {"b1"}]
AToB == [a |-> {"b"}, b |-> {}]

R2 == {0, 1}

D == INSTANCE CoupledDefinition WITH
  Ranks <- R2, Outs <- [a |-> <<"b">>, b |-> <<>>], Ins <- [a |-> <<>>, b |-> <<"a">>],
  Uses <- {}, stack <- place, entered <- come

ASSUME D!CouplingsAssumption

definition == <<rank, seen, arrived, asked, place, come>>

MCInit ==
  \/ part = "definition" /\ D!Init /\ Init
  \/ /\ part = "end" /\ Init
     /\ rank = Off /\ seen = Off /\ arrived = Off /\ asked = Off /\ place = Off /\ come = Off

Closed == \A c \in Contexts : \A r \in R2 : rank[c][r].pc = "closed"
Ended == \A c \in Contexts : \A r \in Members(c) : phase[c][r] = "done"

MCNext ==
  \/ part = "definition" /\ D!Next /\ UNCHANGED <<part, vars>>
  \/ part = "definition" /\ Closed /\ UNCHANGED MCvars
  \/ part = "end" /\ Next /\ UNCHANGED <<part, definition>>
  \/ part = "end" /\ Ended /\ UNCHANGED MCvars

(* The fairness of each part's own Spec.  What that of ContextEnd asks of its *)
(* actions one by one is asked of all of them together: an end never comes    *)
(* back to a state, so that a behaviour goes on for ever only by stopping     *)
(* where none of them is enabled.                                             *)
MCFairness ==
  /\ \A c \in Contexts :
       /\ WF_(D!vars)(part = "definition" /\ D!Decides(c))
       /\ WF_(D!vars)(part = "definition" /\ D!Decide(c, D!Round))
       /\ WF_(D!vars)(part = "definition" /\ D!Build(c))
       /\ WF_(D!vars)(part = "definition" /\ D!Share(c))
       /\ WF_(D!vars)(part = "definition" /\ D!Rest(c))
       /\ \A r \in R2 : WF_(D!vars)(part = "definition" /\ D!RankSteps(c, r))
       /\ \A r \in R2 : SF_(D!vars)(part = "definition" /\ D!LoopSteps(c, r))
  /\ WF_vars(part = "end" /\ Next)

MCSpec == MCInit /\ [][MCNext]_MCvars /\ MCFairness

-----------------------------------------------------------------------------
(* No rank of a context is left in a collective call that another does not    *)
(* come to, although event loops inside closeDefinition process the events of *)
(* couplers at different times on different ranks (context.cpp:787).          *)
Together ==
  part = "definition" => D!TypeOK /\ D!Together

(* A context has closed its definition only when those it sends to are        *)
(* connected: no data comes to a field with no filter (field.cpp:194).        *)
ClosedAfterReceivers ==
  part = "definition" => D!ClosedAfterReceivers

(* Every context ends its definition, and every context ends on every rank.   *)
AllOver == <>(/\ part = "definition" => Closed
              /\ part = "end" => Ended)
=============================================================================
