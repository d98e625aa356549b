------------------------------ MODULE ContextEnd ------------------------------
(* How contexts end (CContext::finalize, sendEvent and finalize of the       *)
(* clients, dispatchEvent of the servers).  The end of a context goes down   *)
(* from the client ranks to the gatherers and from them to the writers, as   *)
(* one event of each tier.  A rank that has sent it waits without yielding,  *)
(* so none of its other contexts goes on, until the tier below tells it that *)
(* its buffers are no longer needed.  The events of a tier are taken in one  *)
(* order on all its ranks (EventOrder); a part that was written reaches the  *)
(* server whatever its client does (EventAssembly).                          *)
EXTENDS Naturals, Sequences

CONSTANTS
  Contexts,    \* the contexts
  ClientsOf,   \* ClientsOf[c]: the client ranks of c, which have no other context
  Gatherers,   \* the gatherers, with all contexts
  Writers,     \* the writers, with all contexts
  Receivers    \* Receivers[c]: the contexts c sends fields to

VARIABLES
  phase,       \* phase[c][r]: where r is in the end of c
  written,     \* written[c]: ranks that have written their part of the event
  notified,    \* notified[c]: ranks of the tier below that wrote the notification
  announced,   \* announced[r]: events r has registered
  stack,       \* stack[r]: events r is to take, in the order of its tier
  entered,     \* <<r, event>> in the barrier of the event
  gone         \* gone[c]: receivers of c known to have ended, by rank

vars == <<phase, written, notified, announced, stack, entered, gone>>

Clients == UNION {ClientsOf[c] : c \in Contexts}
Ranks == Clients \cup Gatherers \cup Writers
Members(c) == ClientsOf[c] \cup Gatherers \cup Writers
Below(r) == IF r \in Clients THEN Gatherers ELSE Writers
Above(c, r) == IF r \in Gatherers THEN ClientsOf[c] ELSE Gatherers
Servers == Gatherers \cup Writers
Peers(c, r) == IF r \in Clients THEN ClientsOf[c] ELSE IF r \in Gatherers THEN Gatherers ELSE Writers

ASSUME TiersAssumption ==
  /\ Gatherers # {} /\ Gatherers \cap Writers = {}
  /\ Clients \cap (Gatherers \cup Writers) = {}
  /\ \A c \in Contexts : ClientsOf[c] # {} /\ Receivers[c] \subseteq Contexts

Init ==
  /\ phase = [c \in Contexts |-> [r \in Members(c) |-> "open"]]
  /\ written = [c \in Contexts |-> {}] /\ notified = [c \in Contexts |-> {}]
  /\ announced = [r \in Ranks |-> {}] /\ stack = [r \in Ranks |-> <<>>]
  /\ entered = {}
  /\ gone = [c \in Contexts |-> {}]

-----------------------------------------------------------------------------
(* A rank in a collective call, or in a wait that does not yield, does       *)
(* nothing else.                                                             *)
Blocking == {"reduce", "spin", "close"}
Free(r) == \A c \in Contexts : r \in Members(c) => phase[c][r] \notin Blocking
At(c, r, p) == r \in Members(c) /\ phase[c][r] = p
Goes(c, r, p) == phase' = [phase EXCEPT ![c][r] = p]
Come(c, r, phases) == \A q \in Peers(c, r) : phase[c][q] \in phases

Fin(c) == <<"finalize", c>>       \* EVENT_ID_CONTEXT_FINALIZE
Sync(c) == <<"sync", c>>          \* synchronize, at the end of sendEvent
Gone(c, d) == <<"gone", c, d>>    \* EVENT_ID_COUPLER_IN_CONTEXT_FINALIZED of d to c
Events(c) == {Fin(c), Sync(c)} \cup {Gone(c, d) : d \in Receivers[c]}

(* The event is at the front of the stack (a slip: anywhere in it).          *)
InStack(r, e) == \E i \in 1 .. Len(stack[r]) : stack[r][i] = e
Front(r, e) == stack[r] # <<>> /\ Head(stack[r]) = e
Announces(r, e) == announced' = [announced EXCEPT ![r] = @ \cup {e}]
Take(r) == stack' = [stack EXCEPT ![r] = Tail(@)]

(* The scheduler of a tier: what all have announced has a place in the       *)
(* order, which one of the ranks gives it when it is free.                   *)
Decide(c, r, e) ==
  LET peers == Peers(c, r) IN
  /\ Free(CHOOSE root \in peers : TRUE)
  /\ \A q \in peers : e \in announced[q]
  /\ announced' = [q \in Ranks |-> IF q \in peers THEN announced[q] \ {e} ELSE announced[q]]
  /\ stack' = [q \in Ranks |-> IF q \in peers THEN Append(stack[q], e) ELSE stack[q]]
  /\ UNCHANGED <<phase, written, notified, entered, gone>>

-----------------------------------------------------------------------------
(* The client ranks.                                                         *)

(* xios_context_finalize: the contexts that send to this one are told, and   *)
(* the rank waits for those it sends to.                                     *)
Finalize(c, r) ==
  /\ At(c, r, "open") /\ r \in Clients
  /\ Goes(c, r, "listen")
  /\ UNCHANGED <<written, notified, announced, stack, entered, gone>>

Told(d) == \A q \in ClientsOf[d] : phase[d][q] # "open"

(* The event of a receiver that has ended, on a rank that still runs its     *)
(* event loop.                                                               *)
HearGone(c, r, d) ==
  /\ At(c, r, "listen") \/ At(c, r, "open")
  /\ r \in Clients /\ d \in Receivers[c] /\ Told(d)
  /\ Gone(c, d) \notin announced[r] /\ ~InStack(r, Gone(c, d))
  /\ <<r, Gone(c, d)>> \notin entered
  /\ Announces(r, Gone(c, d))
  /\ UNCHANGED <<phase, written, notified, stack, entered, gone>>

EnterBarrier(c, r, e) ==
  /\ Free(r) /\ phase[c][r] \in {"listen", "open"}
  /\ Front(r, e) /\ e # Sync(c) /\ <<r, e>> \notin entered
  /\ entered' = entered \cup {<<r, e>>}
  /\ UNCHANGED <<phase, written, notified, announced, stack, gone>>

BarrierOver(c, r, e) == \A q \in Peers(c, r) : <<q, e>> \in entered

KnowGone(c, r, d) ==
  /\ phase[c][r] \in {"listen", "open"} /\ r \in Clients
  /\ Front(r, Gone(c, d)) /\ BarrierOver(c, r, Gone(c, d))
  /\ Take(r)
  /\ gone' = [gone EXCEPT ![c] = @ \cup {<<r, d>>}]
  /\ UNCHANGED <<phase, written, notified, announced, entered>>

(* (a slip: the rank does not wait)                                          *)
StopsAtOnce(c, r) ==
  /\ At(c, r, "listen") /\ r \in Clients
  /\ Goes(c, r, "reduce")
  /\ UNCHANGED <<written, notified, announced, stack, entered, gone>>

StopListening(c, r) ==
  /\ At(c, r, "listen") /\ r \in Clients
  /\ \A d \in Receivers[c] : <<r, d>> \in gone[c]
  /\ Goes(c, r, "reduce")
  /\ UNCHANGED <<written, notified, announced, stack, entered, gone>>

-----------------------------------------------------------------------------
(* finalize of the client side of a channel, on client ranks and gatherers.  *)

(* The number of senders of each server is computed together.                *)
Reduce(c, r) ==
  /\ At(c, r, "reduce") /\ Come(c, r, {"reduce", "send", "sync", "spin", "done"})
  /\ Goes(c, r, "send")
  /\ UNCHANGED <<written, notified, announced, stack, entered, gone>>

(* sendEvent, when there is room: the part is written, then synchronize (a   *)
(* slip: without it).                                                        *)
Send(c, r) ==
  /\ At(c, r, "send") /\ Free(r)
  /\ written' = [written EXCEPT ![c] = @ \cup {r}]
  /\ Announces(r, Sync(c))
  /\ Goes(c, r, "sync")
  /\ UNCHANGED <<notified, stack, entered, gone>>

NotSynchronized(c, r) ==
  /\ At(c, r, "sync") /\ Free(r)
  /\ Goes(c, r, "spin")
  /\ UNCHANGED <<written, notified, announced, stack, entered, gone>>

Synchronize(c, r) ==
  /\ At(c, r, "sync") /\ Free(r) /\ Front(r, Sync(c))
  /\ Take(r)
  /\ Goes(c, r, "spin")
  /\ UNCHANGED <<written, notified, announced, entered, gone>>

(* isNotifiedFinalized, tried again until it holds; then releaseBuffers (a   *)
(* slip: one server is enough).                                              *)
OneNotified(c, r) == Below(r) \cap notified[c] # {}
Notified(c, r) == Below(r) \subseteq notified[c]

Release(c, r) ==
  /\ At(c, r, "spin") /\ Notified(c, r)
  /\ Goes(c, r, IF r \in Gatherers THEN "close" ELSE "done")
  /\ UNCHANGED <<written, notified, announced, stack, entered, gone>>

-----------------------------------------------------------------------------
(* The servers.                                                              *)

(* The event of the end is full when all ranks above have written a part.    *)
IsFull(c, r) == Above(c, r) \subseteq written[c]

Receive(c, r) ==
  /\ At(c, r, "open") /\ r \notin Clients /\ Free(r) /\ IsFull(c, r)
  /\ Announces(r, Fin(c))
  /\ Goes(c, r, "listen")
  /\ UNCHANGED <<written, notified, stack, entered, gone>>

(* dispatchEvent: notifyClientsFinalize, then finalize of the context (a     *)
(* slip: of any as a gatherer's).                                            *)
AsGatherer(r) == "reduce"
FinalizeAs(r) == IF r \in Gatherers THEN "reduce" ELSE "close"

Dispatch(c, r) ==
  /\ At(c, r, "listen") /\ r \notin Clients /\ Free(r)
  /\ Front(r, Fin(c)) /\ BarrierOver(c, r, Fin(c))
  /\ Take(r)
  /\ notified' = [notified EXCEPT ![c] = @ \cup {r}]
  /\ Goes(c, r, FinalizeAs(r))
  /\ UNCHANGED <<written, announced, entered, gone>>

(* closeAllFile is collective; then the server's side is released too.       *)
Close(c, r) ==
  /\ At(c, r, "close") /\ Come(c, r, {"close", "done"})
  /\ Goes(c, r, "done")
  /\ UNCHANGED <<written, notified, announced, stack, entered, gone>>

-----------------------------------------------------------------------------
LoopSteps(c, r) == \/ \E d \in Receivers[c] : HearGone(c, r, d) \/ KnowGone(c, r, d)
                   \/ \E e \in Events(c) : EnterBarrier(c, r, e)
Steps(c, r) == \/ StopListening(c, r) \/ Reduce(c, r) \/ Send(c, r) \/ Synchronize(c, r)
               \/ Release(c, r) \/ Receive(c, r) \/ Dispatch(c, r) \/ Close(c, r)
Next == \E c \in Contexts : \E r \in Members(c) :
          \/ Finalize(c, r) \/ LoopSteps(c, r) \/ Steps(c, r)
          \/ \E e \in Events(c) : Decide(c, r, e)

(* The program ends its contexts; every rank that is not blocked goes on.    *)
Fairness == \A c \in Contexts : \A r \in Members(c) :
              /\ WF_vars(LoopSteps(c, r)) /\ WF_vars(Finalize(c, r) \/ Steps(c, r))
              /\ WF_vars(\E e \in Events(c) : Decide(c, r, e))

Spec == Init /\ [][Next]_vars /\ Fairness

-----------------------------------------------------------------------------
Phases(r) == {"open", "listen", "close", "done"} \cup
             (IF r \in Writers THEN {} ELSE {"reduce", "send", "sync", "spin"})
AllEvents == UNION {Events(c) : c \in Contexts}

(* The phases are those of the tier of the rank.                             *)
TypeOK ==
  /\ DOMAIN phase = Contexts
  /\ \A c \in Contexts : /\ DOMAIN phase[c] = Members(c)
                         /\ \A r \in Members(c) : phase[c][r] \in Phases(r)
  /\ written \in [Contexts -> SUBSET (Clients \cup Gatherers)]
  /\ notified \in [Contexts -> SUBSET Servers]
  /\ announced \in [Ranks -> SUBSET AllEvents]
  /\ stack \in [Ranks -> Seq(AllEvents)]
  /\ entered \subseteq Ranks \X AllEvents
  /\ gone \in [Contexts -> SUBSET (Clients \X Contexts)]

(* A writer closes the files of a context only when every client rank of it  *)
(* has ended it, and those whose contexts receive from it have too           *)
(* (context.cpp:862).                                                        *)
ClosedLast ==
  \A c \in Contexts : \A w \in Writers : phase[c][w] \in {"close", "done"} =>
    /\ \A r \in ClientsOf[c] : phase[c][r] \notin {"open", "listen"}
    /\ \A d \in Receivers[c] : \A r \in ClientsOf[d] : phase[d][r] # "open"

(* A rank waits without yielding only for what the tier below does by        *)
(* itself: its peers have all written their part, although they may be       *)
(* stopped in the end of another context (context.cpp:957).                  *)
SpinsAlone ==
  \A c \in Contexts : \A r \in Members(c) : At(c, r, "spin") => Peers(c, r) \subseteq written[c]

(* Two ranks never block in calls of different contexts, each of which needs *)
(* the other.                                                                *)
Needs(c, r, q) == phase[c][r] \in {"reduce", "close"} /\ phase[c][q] \in {"open", "listen"}
NoCrossing ==
  \A c, d \in Contexts : \A r \in Gatherers \cup Writers : \A q \in Peers(c, r) :
    ~(Needs(c, r, q) /\ Needs(d, q, r))

(* Buffers are released only when the servers have taken all that was        *)
(* written in them.                                                          *)
ReleasedAfterTaken ==
  \A c \in Contexts : \A r \in Members(c) \ Writers :
    phase[c][r] \in {"close", "done"} => \A s \in Below(r) : phase[c][s] \notin {"open", "listen"}

(* The end of a context comes down the tiers: files are closed after every   *)
(* client and every receiver has ended, buffers are released after the       *)
(* servers took what was in them, and ranks that stop in collective calls or *)
(* in a spin do not wait for ranks stopped in another context                *)
(* (context.cpp:848-985).                                                    *)
EndsInOrder == TypeOK /\ ClosedLast /\ SpinsAlone /\ NoCrossing /\ ReleasedAfterTaken

-----------------------------------------------------------------------------
(* Why it holds.  A rank that has passed the loop of its context has         *)
(* dispatched the end of it, or, a client, has heard of its receivers.       *)
Past(c, r) == phase[c][r] \notin {"open", "listen"}
Pending(r, e) == e \in announced[r] \/ InStack(r, e)

(* An event is pending once, while the rank is where it asked for it.        *)
PendingOnce ==
  \A r \in Ranks : \A e \in AllEvents :
    /\ e \in announced[r] => ~InStack(r, e)
    /\ \A i, j \in 1 .. Len(stack[r]) : stack[r][i] = e /\ stack[r][j] = e => i = j
PendingWhere ==
  \A c \in Contexts : \A r \in Ranks :
    /\ Pending(r, Fin(c)) => r \in Servers /\ phase[c][r] = "listen"
    /\ Pending(r, Sync(c)) => r \in Members(c) /\ phase[c][r] = "sync" /\ r \in written[c]
    /\ InStack(r, Sync(c)) => Peers(c, r) \subseteq written[c]
    /\ \A d \in Receivers[c] : Pending(r, Gone(c, d)) => Told(d)

(* The stacks of a tier end alike: a rank is ahead of another or behind it.  *)
OneOrder ==
  \A tier \in {Gatherers, Writers} : \A r, q \in tier :
    Len(stack[r]) <= Len(stack[q]) =>
      \A i \in 1 .. Len(stack[r]) : stack[r][i] = stack[q][i + (Len(stack[q]) - Len(stack[r]))]

(* A rank that has entered the barrier of an end stays at it until it leaves *)
(* it, and nobody leaves it before all have entered.                         *)
StaysAtFront ==
  \A c \in Contexts : \A r \in Servers :
    /\ <<r, Fin(c)>> \in entered /\ ~Past(c, r) => Front(r, Fin(c))
    /\ Past(c, r) => \A q \in Peers(c, r) : <<q, Fin(c)>> \in entered

(* What a rank has done of the end tells what the tier above and the         *)
(* receivers have done.                                                      *)
ComesDown ==
  \A c \in Contexts :
    /\ \A r \in written[c] : r \in Members(c) /\ phase[c][r] \in {"sync", "spin", "close", "done"}
    /\ \A r \in notified[c] : Past(c, r)
    /\ \A r \in Servers : phase[c][r] # "open" => Above(c, r) \subseteq written[c]
    /\ \A r \in ClientsOf[c] : Past(c, r) => \A d \in Receivers[c] : <<r, d>> \in gone[c]
    /\ \A p \in gone[c] : p[2] \in Receivers[c] => Told(p[2])

EndInv == /\ TypeOK /\ PendingOnce /\ PendingWhere /\ OneOrder /\ StaysAtFront /\ ComesDown
          /\ SpinsAlone /\ ReleasedAfterTaken

(* Every context ends on every rank.                                         *)
AllEnd == <>(\A c \in Contexts : \A r \in Members(c) : phase[c][r] = "done")
=============================================================================
