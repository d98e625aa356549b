------------------------- MODULE CoupledDefinition -------------------------
(* How coupled contexts close their definitions (CContext::closeDefinition). *)
(* A context that receives fields tells the one that sends them that it is   *)
(* ready; that one then sends the grids of its fields, and each tells the    *)
(* other way when it is done.  Every rank of a context makes these decisions *)
(* by itself, from events that all its ranks process in one order, and then  *)
(* makes collective calls: the ranks must see the same events each time they *)
(* look.  The order of events is what EventScheduler shows of it             *)
(* (EventOrder), a channel what the transports show of it (EventChannel).    *)
EXTENDS Integers, Sequences, FiniteSets

CONSTANTS
  Contexts,   \* the contexts
  Ranks,      \* the ranks of each of them
  Outs,       \* Outs[c]: the contexts c sends fields to, in order
  Ins,        \* Ins[c]: the contexts c receives fields from, in order
  Uses        \* <<c, s, d>>: what c sends to d is made of what it receives from s

CouplingsAssumption ==
  /\ Outs \in [Contexts -> Seq(Contexts)] /\ Ins \in [Contexts -> Seq(Contexts)]
  /\ \A c, d \in Contexts : (\E i \in 1..Len(Outs[c]) : Outs[c][i] = d)
                            <=> (\E i \in 1..Len(Ins[d]) : Ins[d][i] = c)

VARIABLES
  rank,      \* rank[c][r]: where r is in closeDefinition
  seen,      \* seen[c][r]: the events r has processed
  arrived,   \* arrived[c][r]: the events of the channels to c that are whole at r
  asked,     \* asked[c]: <<r, event>> registered with the scheduler and not decided
  stack,     \* stack[c][r]: the events r is to process, in the order of all ranks
  entered    \* entered[c]: <<r, event>> that have entered the barrier of the event

events == <<seen, arrived, asked, stack, entered>>
vars == <<rank, events>>

-----------------------------------------------------------------------------
Ready(d) == [type |-> "ready", from |-> d]      \* EVENT_ID_COUPLER_IN_READY
Grid(s) == [type |-> "grid", from |-> s]        \* EVENT_ID_GRID_COMPLETED
Closed(d) == [type |-> "closed", from |-> d]    \* EVENT_ID_COUPLER_IN_CLOSE_DEFINITION
Round == [type |-> "round"]                     \* the event of scheduledEventLoop

InSeq(s, x) == \E i \in 1..Len(s) : s[i] = x

Init ==
  /\ rank = [c \in Contexts |-> [r \in Ranks |->
       [pc |-> "build", at |-> 1, built |-> FALSE, allReady |-> TRUE,
        told |-> {}, sent |-> {}, early |-> {}]]]
  /\ seen = [c \in Contexts |-> [r \in Ranks |-> {}]]
  /\ arrived = [c \in Contexts |-> [r \in Ranks |-> {}]]
  /\ asked = [c \in Contexts |-> {}]
  /\ stack = [c \in Contexts |-> [r \in Ranks |-> <<>>]]
  /\ entered = [c \in Contexts |-> {}]

At(c, r, pc) == rank[c][r].pc = pc
Goes(c, r, x) == rank' = [rank EXCEPT ![c][r] = x]

-----------------------------------------------------------------------------
(* The event loop of a rank.                                                 *)

(* It runs while the rank waits for its round, and, with the context locked, *)
(* while the client waits for the server of a new connection (yield).        *)
Waits(c, r) == At(c, r, "round")
Yields(c, r) == At(c, r, "telling") \/ At(c, r, "sending")

(* CContext::eventLoop leaves the couplers free to process events whether    *)
(* the context is locked or not.                                             *)
MayProcess(c, r) == Waits(c, r) \/ Yields(c, r)

(* The event at the front of the stack (a slip: anywhere in it).             *)
InStack(c, r, e) == InSeq(stack[c][r], e)
AtFront(c, r, e) == stack[c][r] # <<>> /\ Head(stack[c][r]) = e
Pop(c, r) == stack' = [stack EXCEPT ![c][r] = Tail(@)]

(* An event that came whole is announced to the scheduler (a slip: and stays *)
(* to be announced again).                                                   *)
AnnounceKept(c, r, e) ==
  /\ Waits(c, r) \/ Yields(c, r)
  /\ asked' = [asked EXCEPT ![c] = @ \cup {<<r, e>>}]
  /\ UNCHANGED <<rank, seen, arrived, stack, entered>>
Announce(c, r, e) ==
  /\ Waits(c, r) \/ Yields(c, r)
  /\ arrived' = [arrived EXCEPT ![c][r] = @ \ {e}]
  /\ asked' = [asked EXCEPT ![c] = @ \cup {<<r, e>>}]
  /\ UNCHANGED <<rank, seen, stack, entered>>

(* The scheduler: what all ranks announced has one place in their order.     *)
Decide(c, e) ==
  LET all == Ranks \X {e} IN
  /\ all \subseteq asked[c]
  /\ asked' = [asked EXCEPT ![c] = @ \ all]
  /\ stack' = [stack EXCEPT ![c] = [r \in Ranks |-> Append(@[r], e)]]
  /\ UNCHANGED <<rank, seen, arrived, entered>>

(* processEvents: a rank enters the barrier of the event at its front, and   *)
(* dispatches the event when it finds the barrier complete.                  *)
EnterBarrier(c, r, e) ==
  /\ MayProcess(c, r) /\ e # Round /\ AtFront(c, r, e) /\ <<r, e>> \notin entered[c]
  /\ entered' = [entered EXCEPT ![c] = @ \cup {<<r, e>>}]
  /\ UNCHANGED <<rank, seen, arrived, asked, stack>>

AllEntered(c, e) == Ranks \X {e} \subseteq entered[c]

Dispatch(c, r, e) ==
  /\ MayProcess(c, r) /\ AtFront(c, r, e) /\ <<r, e>> \in entered[c] /\ AllEntered(c, e)
  /\ seen' = [seen EXCEPT ![c][r] = @ \cup {e}]
  /\ Pop(c, r)
  /\ UNCHANGED <<rank, arrived, asked, entered>>

(* scheduledEventLoop: a round is announced, and left when it is at the      *)
(* front.                                                                    *)
NextRound(c, r, x) ==
  /\ Goes(c, r, [x EXCEPT !.pc = "round"])
  /\ asked' = [asked EXCEPT ![c] = @ \cup {<<r, Round>>}]
  /\ UNCHANGED <<seen, arrived, stack, entered>>

-----------------------------------------------------------------------------
(* closeDefinition.                                                          *)

(* buildWorkflowGraph, which is collective: the graph is complete when the   *)
(* grids of all the fields received are known on all ranks.                  *)
GridsKnown(c, r, sources) == \A s \in sources : Grid(s) \in seen[c][r]
Sources(c) == {s \in Contexts : InSeq(Ins[c], s)}
OfField(c, d) == {s \in Contexts : <<c, s, d>> \in Uses}

Complete(c, r) == \A x \in Ranks : GridsKnown(c, x, Sources(c))

Build(c) ==
  /\ \A r \in Ranks : At(c, r, "build")
  /\ rank' = [rank EXCEPT ![c] = [r \in Ranks |->
       [rank[c][r] EXCEPT !.pc = "tell", !.at = 1, !.built = Complete(c, r)]]]
  /\ UNCHANGED events

(* sendCouplerInReady, once to each source: the connection is new, and the   *)
(* rank runs event loops until the other side has taken it.                  *)
Tell(c, r) ==
  LET x == rank[c][r] IN
  /\ At(c, r, "tell")
  /\ Goes(c, r, IF x.at > Len(Ins[c])
                THEN [x EXCEPT !.pc = "look", !.at = 1, !.allReady = TRUE]
                ELSE IF Ins[c][x.at] \in x.told THEN [x EXCEPT !.at = @ + 1]
                ELSE [x EXCEPT !.pc = "telling"])
  /\ UNCHANGED events

Told(c, r) ==
  LET x == rank[c][r]
      s == Ins[c][x.at]
  IN
  /\ At(c, r, "telling")
  /\ Goes(c, r, [x EXCEPT !.pc = "tell", !.told = @ \cup {s}, !.at = @ + 1])
  /\ arrived' = [arrived EXCEPT ![s][r] = @ \cup {Ready(c)}]
  /\ UNCHANGED <<seen, asked, stack, entered>>

(* The loop over the fields to send: those whose receiver is ready are sent, *)
(* whether their own graph is complete or not.                               *)
Look(c, r) ==
  LET x == rank[c][r]
      d == Outs[c][x.at]
  IN
  /\ At(c, r, "look") /\ x.at <= Len(Outs[c])
  /\ Goes(c, r, IF Ready(d) \notin seen[c][r]
                THEN [x EXCEPT !.allReady = FALSE, !.at = @ + 1]
                ELSE IF d \in x.sent THEN [x EXCEPT !.at = @ + 1]
                ELSE [x EXCEPT !.pc = "sending"])
  /\ UNCHANGED events

(* sendFieldToCouplerOut: the connection is made, then the ranks compute     *)
(* together where the grid goes (an MPI_Allreduce in sendToServer).          *)
Connected(c, r) ==
  /\ At(c, r, "sending")
  /\ Goes(c, r, [rank[c][r] EXCEPT !.pc = "sharing"])
  /\ UNCHANGED events

Share(c) ==
  /\ \A r, q \in Ranks : At(c, r, "sharing") /\ rank[c][r].at = rank[c][q].at
  /\ LET d == Outs[c][rank[c][CHOOSE r \in Ranks : TRUE].at] IN
     /\ rank' = [rank EXCEPT ![c] = [r \in Ranks |->
          [rank[c][r] EXCEPT !.pc = "look", !.at = @ + 1, !.sent = @ \cup {d},
             !.early = IF GridsKnown(c, r, OfField(c, d)) THEN @ ELSE @ \cup {d}]]]
     /\ arrived' = [arrived EXCEPT ![d] = [r \in Ranks |-> arrived[d][r] \cup {Grid(c)}]]
  /\ UNCHANGED <<seen, asked, stack, entered>>

Looked(c, r) == /\ At(c, r, "look") /\ rank[c][r].at > Len(Outs[c])
                /\ NextRound(c, r, [rank[c][r] EXCEPT !.at = 0])

(* The round is over: look again until all are ready, then one round more,   *)
(* then build again until the graph is complete.                             *)
EndRound(c, r) ==
  LET x == rank[c][r] IN
  /\ At(c, r, "round") /\ AtFront(c, r, Round)
  /\ Pop(c, r)
  /\ Goes(c, r, IF x.at = 0 /\ x.allReady THEN [x EXCEPT !.pc = "once more"]
                ELSE IF x.at = 0 THEN [x EXCEPT !.pc = "look", !.at = 1, !.allReady = TRUE]
                ELSE IF x.at = -1 THEN [x EXCEPT !.pc = IF x.built THEN "rest" ELSE "build"]
                ELSE [x EXCEPT !.pc = IF x.allReady THEN "closed" ELSE "ask"])
  /\ UNCHANGED <<seen, arrived, asked, entered>>

OnceMore(c, r) == At(c, r, "once more") /\ NextRound(c, r, [rank[c][r] EXCEPT !.at = -1])

(* The end of Rest (a slip: nobody is told).                                 *)
RestSilent(c) ==
  /\ \A r \in Ranks : At(c, r, "rest")
  /\ rank' = [rank EXCEPT ![c] = [r \in Ranks |-> [rank[c][r] EXCEPT !.pc = "ask"]]]
  /\ UNCHANGED events

(* The rest of closeDefinition, with collective calls of its own, to the     *)
(* message that tells the sources it is done.                                *)
Rest(c) ==
  /\ \A r \in Ranks : At(c, r, "rest")
  /\ rank' = [rank EXCEPT ![c] = [r \in Ranks |-> [rank[c][r] EXCEPT !.pc = "ask"]]]
  /\ arrived' = [s \in Contexts |-> IF s \in Sources(c)
                    THEN [r \in Ranks |-> arrived[s][r] \cup {Closed(c)}] ELSE arrived[s]]
  /\ UNCHANGED <<seen, asked, stack, entered>>

(* The wait of Ask (a slip: for nobody).                                     *)
AskOnce(c, r) ==
  At(c, r, "ask") /\ NextRound(c, r, [rank[c][r] EXCEPT !.at = -2, !.allReady = TRUE])

(* "wait until all couplerIn signal that closeDefition is done"              *)
(* (context.cpp:1332).                                                       *)
Ask(c, r) ==
  LET closed == \A d \in Contexts : InSeq(Outs[c], d) => Closed(d) \in seen[c][r] IN
  At(c, r, "ask") /\ NextRound(c, r, [rank[c][r] EXCEPT !.at = -2, !.allReady = closed])

-----------------------------------------------------------------------------
LoopSteps(c, r) == \/ \E e \in arrived[c][r] : Announce(c, r, e)
                   \/ \E e \in {stack[c][r][i] : i \in 1..Len(stack[c][r])} :
                        EnterBarrier(c, r, e) \/ Dispatch(c, r, e)
Messages == [type : {"ready", "grid", "closed"}, from : Contexts]
Decides(c) == \E e \in Messages : Decide(c, e)
RankSteps(c, r) == \/ Tell(c, r) \/ Told(c, r) \/ Look(c, r) \/ Connected(c, r)
                   \/ Looked(c, r) \/ EndRound(c, r) \/ OnceMore(c, r) \/ Ask(c, r)
Next == \E c \in Contexts :
          \/ Decides(c) \/ Decide(c, Round) \/ Build(c) \/ Share(c) \/ Rest(c)
          \/ \E r \in Ranks : LoopSteps(c, r) \/ RankSteps(c, r)

(* Each rank goes on, and each pass of its event loop looks at all that      *)
(* came: the passes end with the rounds, so the loop is strongly fair.       *)
Fairness == \A c \in Contexts :
  /\ WF_vars(Decides(c)) /\ WF_vars(Decide(c, Round)) /\ WF_vars(Build(c))
  /\ WF_vars(Share(c)) /\ WF_vars(Rest(c))
  /\ \A r \in Ranks : WF_vars(RankSteps(c, r)) /\ SF_vars(LoopSteps(c, r))

Spec == Init /\ [][Next]_vars /\ Fairness
-----------------------------------------------------------------------------
Pcs == {"build", "tell", "telling", "look", "sending", "sharing", "round",
        "once more", "rest", "ask", "closed"}

(* Where each rank is and what it knows have the types stated.               *)
TypeOK ==
  \A c \in Contexts : \A r \in Ranks :
    /\ rank[c][r].pc \in Pcs
    /\ rank[c][r].told \subseteq Sources(c) /\ rank[c][r].sent \subseteq Contexts
    /\ seen[c][r] \cup arrived[c][r] \subseteq Messages
    /\ Len(stack[c][r]) <= 1 + 3 * Cardinality(Contexts)

(* Ranks of a context never are in different collective calls, nor one in a  *)
(* collective call while another waits for a round the first has not asked   *)
(* for: neither could go on (context.cpp:787).                               *)
Collective == {"build", "sharing", "rest"}
In(c, r) == <<rank[c][r].pc, IF At(c, r, "sharing") THEN rank[c][r].at ELSE 0>>
LeftBehind(c, r, q) == /\ rank[c][r].pc \in Collective
                       /\ \/ rank[c][q].pc \in Collective /\ In(c, q) # In(c, r)
                          \/ At(c, q, "round") /\ <<q, Round>> \in asked[c]
Together == \A c \in Contexts : \A r, q \in Ranks : ~LeftBehind(c, r, q)

(* A context has closed only when those it sends to are connected: no data   *)
(* comes to a field that has no filter to take it (field.cpp:194).           *)
Connects(d, q) == rank[d][q].built /\ rank[d][q].pc \in {"ask", "round", "closed"}
ClosedAfterReceivers ==
  \A c, d \in Contexts : \A r, q \in Ranks :
    At(c, r, "closed") /\ InSeq(Outs[c], d) => Connects(d, q)

(* The grid of a field is sent when the graph it is made with is complete    *)
(* ("for now supose that all coupling out endpoint are succesfull",          *)
(* context.cpp:1157).                                                        *)
SentWhenBuilt == \A c \in Contexts : \A r \in Ranks : rank[c][r].early = {}

(* Every context ends its definition.                                        *)
AllClosed == <>(\A c \in Contexts : \A r \in Ranks : At(c, r, "closed"))
=============================================================================
