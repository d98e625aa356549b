--------------------------- MODULE EventProcessing --------------------------
(* The server ranks of a service and the contexts they run                   *)
(* (processEvents in src/src/transport/legacy_context_server.cpp, sendEvent  *)
(* in legacy_context_client.cpp, synchronize in src/src/node/context.cpp),   *)
(* on top of the order that EventScheduler is shown to implement.            *)
(*                                                                           *)
(* On a server rank each context has a thread, and the threads take turns    *)
(* (CThreadManager): the rank is handed on only by yield.  Handling an event *)
(* makes collective calls, in which the whole rank blocks until the other    *)
(* ranks make them too.  A context that forwards its data also sends an      *)
(* event while it handles one, and yields until there is room and until the  *)
(* other ranks have sent theirs; the other contexts go on meanwhile.         *)
EXTENDS Integers, Sequences

CONSTANTS
  Ranks,        \* the server ranks
  Contexts,     \* the contexts of the service, each with one CContextServer
  Forwarding,   \* the contexts whose handler sends to other servers
  MaxTime       \* bound: the last timeline of every context

ASSUME ContextsAssumption == Forwarding \subseteq Contexts /\ MaxTime \in Nat \ {0}

VARIABLES
  currentTimeLine,  \* currentTimeLine[r][c]
  scheduled,        \* scheduled[r][c]: the current event has been registered
  eventScheduled,   \* eventScheduled_[r][c]: MPI_Ibarrier has been called for it
  barriers,         \* barriers[r][c]: MPI_Ibarrier calls on processEventBarrier_
  collectives,      \* collectives[r][c]: collective calls on the context's intraComm
  phase,            \* phase[r][c]: how far the handler of the current event is
  announced, order, taken   \* of EventOrder

Timelines == 1 .. MaxTime
Keys == {"event", "sync"} \X Contexts \X Timelines    \* <<timeLine, hashId>> pairs

Scheduler == INSTANCE EventOrder WITH Events <- Keys

orderVars == <<announced, order, taken>>
vars == <<currentTimeLine, scheduled, eventScheduled, barriers, collectives,
          phase, orderVars>>

Blocking == {"before", "after"}     \* in a collective call
Yielding == {"send", "sync"}        \* in yield

Each(value) == [r \in Ranks |-> [c \in Contexts |-> value]]

Init ==
  /\ currentTimeLine = Each(1)
  /\ scheduled = Each(FALSE) /\ eventScheduled = Each(FALSE)
  /\ barriers = Each(0) /\ collectives = Each(0)
  /\ phase = Each("idle")
  /\ Scheduler!Init

-----------------------------------------------------------------------------
(* Variants a slip in the code would produce.                                *)
Registered(r, key) == announced[r][key] > 0 /\ taken[r] < Len(order)
NotWaited(r, c) == TRUE
EventAgain(r, c) == <<"event", c, currentTimeLine[r][c]>>

(* queryEvent: the event is at the front of the rank's stack.                *)
QueryEvent(r, key) == taken[r] < Len(order) /\ order[taken[r] + 1] = key

(* The rank is in no collective call: its threads take turns.                *)
Looping(r) == \A c \in Contexts : phase[r][c] \notin Blocking

(* A handler that yields goes on when its thread has its turn again.         *)
MayResume(r, c) == Looping(r)

(* All ranks have made as many calls on the communicator of c as r has.      *)
AllEntered(calls, r, c) == \A s \in Ranks : calls[s][c] >= calls[r][c]

(* MPI_Test of the request of MPI_Ibarrier.                                  *)
BarrierOver(r, c) == AllEntered(barriers, r, c)

Event(r, c) == <<"event", c, currentTimeLine[r][c]>>
Sync(r, c)  == <<"sync", c, currentTimeLine[r][c]>>

Counted(calls, r, c) == [calls EXCEPT ![r][c] = @ + 1]

(* processEvents of c goes past isProcessingEvent_.                          *)
MayProcess(r, c) == Looping(r) /\ phase[r][c] = "idle" /\ currentTimeLine[r][c] <= MaxTime

-----------------------------------------------------------------------------
(* processEvents, when all parts of the current event have been received,    *)
(* which may be at any time.                                                 *)
RegisterEvent(r, c) ==
  /\ MayProcess(r, c) /\ ~scheduled[r][c]
  /\ scheduled' = [scheduled EXCEPT ![r][c] = TRUE]
  /\ Scheduler!Announce(r, Event(r, c))
  /\ UNCHANGED <<currentTimeLine, eventScheduled, barriers, collectives, phase>>

(* The scheduler puts an event all ranks have registered on every stack.     *)
Choose(key) ==
  /\ Scheduler!Choose(key)
  /\ UNCHANGED <<currentTimeLine, scheduled, eventScheduled, barriers,
                 collectives, phase>>

EnterBarrier(r, c) ==
  /\ MayProcess(r, c) /\ scheduled[r][c] /\ ~eventScheduled[r][c]
  /\ QueryEvent(r, Event(r, c))
  /\ eventScheduled' = [eventScheduled EXCEPT ![r][c] = TRUE]
  /\ barriers' = Counted(barriers, r, c)
  /\ UNCHANGED <<currentTimeLine, scheduled, collectives, phase, orderVars>>

(* The barrier is over: popEvent and dispatchEvent, up to the first          *)
(* collective call of the handler.                                           *)
DispatchEvent(r, c) ==
  /\ MayProcess(r, c) /\ eventScheduled[r][c]
  /\ QueryEvent(r, Event(r, c))
  /\ BarrierOver(r, c)
  /\ eventScheduled' = [eventScheduled EXCEPT ![r][c] = FALSE]
  /\ phase' = [phase EXCEPT ![r][c] = "before"]
  /\ collectives' = Counted(collectives, r, c)
  /\ Scheduler!Take(r)
  /\ UNCHANGED <<currentTimeLine, scheduled, barriers>>

(* The collective call returns, and the handler goes on to sendEvent.        *)
StartSend(r, c) ==
  /\ phase[r][c] = "before" /\ c \in Forwarding
  /\ AllEntered(collectives, r, c)
  /\ phase' = [phase EXCEPT ![r][c] = "send"]
  /\ UNCHANGED <<currentTimeLine, scheduled, eventScheduled, barriers,
                 collectives, orderVars>>

(* sendEvent has found room in the buffers, at once or after some yields,    *)
(* and calls synchronize.                                                    *)
Sent(r, c) ==
  /\ phase[r][c] = "send" /\ MayResume(r, c)
  /\ phase' = [phase EXCEPT ![r][c] = "sync"]
  /\ Scheduler!Announce(r, Sync(r, c))
  /\ UNCHANGED <<currentTimeLine, scheduled, eventScheduled, barriers, collectives>>

(* synchronize returns: popEvent; the handler makes its next collective call. *)
Synchronize(r, c) ==
  /\ phase[r][c] = "sync" /\ MayResume(r, c)
  /\ QueryEvent(r, Sync(r, c))
  /\ phase' = [phase EXCEPT ![r][c] = "after"]
  /\ collectives' = Counted(collectives, r, c)
  /\ Scheduler!Take(r)
  /\ UNCHANGED <<currentTimeLine, scheduled, eventScheduled, barriers>>

(* The last collective call of the handler returns.                          *)
EndEvent(r, c) ==
  /\ phase[r][c] = IF c \in Forwarding THEN "after" ELSE "before"
  /\ AllEntered(collectives, r, c)
  /\ phase' = [phase EXCEPT ![r][c] = "idle"]
  /\ currentTimeLine' = [currentTimeLine EXCEPT ![r][c] = @ + 1]
  /\ scheduled' = [scheduled EXCEPT ![r][c] = FALSE]
  /\ UNCHANGED <<eventScheduled, barriers, collectives, orderVars>>

(* Every context has handled its last event: the system really stops.        *)
Finished == /\ \A r \in Ranks, c \in Contexts : currentTimeLine[r][c] > MaxTime
            /\ UNCHANGED vars

Next ==
  \/ \E r \in Ranks, c \in Contexts :
       \/ RegisterEvent(r, c) \/ EnterBarrier(r, c) \/ DispatchEvent(r, c)
       \/ StartSend(r, c) \/ Sent(r, c) \/ Synchronize(r, c) \/ EndEvent(r, c)
  \/ \E key \in Keys : Choose(key)
  \/ Finished

(* Every thread has its turn, unless the rank is blocked.                    *)
Fairness ==
  /\ \A r \in Ranks, c \in Contexts :
       /\ WF_vars(RegisterEvent(r, c)) /\ WF_vars(EnterBarrier(r, c))
       /\ WF_vars(DispatchEvent(r, c)) /\ WF_vars(StartSend(r, c))
       /\ WF_vars(Sent(r, c)) /\ WF_vars(Synchronize(r, c)) /\ WF_vars(EndEvent(r, c))
  /\ \A key \in Keys : WF_vars(Choose(key))

Spec == Init /\ [][Next]_vars /\ Fairness

-----------------------------------------------------------------------------
TypeOK ==
  /\ currentTimeLine \in [Ranks -> [Contexts -> 1 .. MaxTime + 1]]
  /\ scheduled \in [Ranks -> [Contexts -> BOOLEAN]]
  /\ eventScheduled \in [Ranks -> [Contexts -> BOOLEAN]]
  /\ barriers \in [Ranks -> [Contexts -> 0 .. MaxTime]]
  /\ collectives \in [Ranks -> [Contexts -> 0 .. 2 * MaxTime]]
  /\ phase \in [Ranks -> [Contexts -> {"idle"} \cup Blocking \cup Yielding]]
  /\ announced \in [Ranks -> [Keys -> 0 .. 1]]
  /\ order \in Seq(Keys)
  /\ taken \in [Ranks -> Nat]

(* r waits in a collective call of c that s has not made yet.                *)
WaitsFor(r, s, c) == phase[r][c] \in Blocking /\ collectives[s][c] < collectives[r][c]

(* Collective calls never cross: no two ranks wait for each other in calls   *)
(* of different contexts (event_scheduler.hpp:10-14).                        *)
NoCrossing ==
  \A r, s \in Ranks : \A c, d \in Contexts : ~(WaitsFor(r, s, c) /\ WaitsFor(s, r, d))

(* A rank blocks only when every other is ready to follow: all have received *)
(* their parts of the event and found it at the front of their stacks; and,  *)
(* after a send, none still waits for room in its buffers.                   *)
ReadyTogether ==
  \A r, s \in Ranks : \A c \in Contexts :
    /\ phase[r][c] = "before" => \/ currentTimeLine[s][c] > currentTimeLine[r][c]
                                 \/ eventScheduled[s][c] \/ phase[s][c] # "idle"
    /\ phase[r][c] = "after" => \/ currentTimeLine[s][c] > currentTimeLine[r][c]
                                \/ phase[s][c] \in {"sync", "after"}

(* The state is of its types, collective calls of different contexts never   *)
(* wait for each other, and a rank blocks only when every other is ready to  *)
(* follow, even though handlers yield to those of other contexts in the      *)
(* middle (event_scheduler.hpp:10).                                          *)
NothingCrosses == TypeOK /\ NoCrossing /\ ReadyTogether

(* Every event is handled on every rank, although handlers block, overlap    *)
(* and wait for each other through one order.                                *)
AllHandled == \A r \in Ranks, c \in Contexts : <>(currentTimeLine[r][c] > MaxTime)
-----------------------------------------------------------------------------
(* Why it holds, part by part.                                               *)

(* What rank r has announced and taken follows from where its handlers are.  *)
AnnouncedEvent(r, c, t) ==
  \/ t < currentTimeLine[r][c]
  \/ t = currentTimeLine[r][c] /\ scheduled[r][c]
AnnouncedSync(r, c, t) ==
  /\ c \in Forwarding
  /\ \/ t < currentTimeLine[r][c]
     \/ t = currentTimeLine[r][c] /\ phase[r][c] \in {"sync", "after"}
TookEvent(r, c, t) ==
  \/ t < currentTimeLine[r][c]
  \/ t = currentTimeLine[r][c] /\ phase[r][c] # "idle"
TookSync(r, c, t) ==
  /\ c \in Forwarding
  /\ \/ t < currentTimeLine[r][c]
     \/ t = currentTimeLine[r][c] /\ phase[r][c] = "after"

AnnouncedExactly ==
  \A r \in Ranks, c \in Contexts, t \in Timelines :
    /\ announced[r][<<"event", c, t>>] = IF AnnouncedEvent(r, c, t) THEN 1 ELSE 0
    /\ announced[r][<<"sync", c, t>>] = IF AnnouncedSync(r, c, t) THEN 1 ELSE 0

Popped(r, key) == \E i \in 1 .. taken[r] : order[i] = key

TakenExactly ==
  \A r \in Ranks, c \in Contexts, t \in Timelines :
    /\ Popped(r, <<"event", c, t>>) <=> TookEvent(r, c, t)
    /\ Popped(r, <<"sync", c, t>>) <=> TookSync(r, c, t)

(* Nothing is popped that was not chosen, or chosen that not all announced.  *)
ChosenByAll ==
  /\ \A r \in Ranks : taken[r] <= Len(order)
  /\ \A i \in 1 .. Len(order), r \in Ranks : announced[r][order[i]] = 1

(* How far the handler of r in c is, by its flags and its counts of calls.   *)
InStep(r, c) ==
  /\ eventScheduled[r][c] => phase[r][c] = "idle" /\ QueryEvent(r, Event(r, c))
  /\ eventScheduled[r][c] \/ phase[r][c] # "idle" => scheduled[r][c]
  /\ scheduled[r][c] => currentTimeLine[r][c] <= MaxTime
  /\ phase[r][c] \in {"send", "sync", "after"} => c \in Forwarding
  /\ barriers[r][c] = (currentTimeLine[r][c] - 1)
        + IF eventScheduled[r][c] \/ phase[r][c] # "idle" THEN 1 ELSE 0
  /\ collectives[r][c] =
        IF c \in Forwarding
        THEN 2 * (currentTimeLine[r][c] - 1)
               + CASE phase[r][c] = "idle" -> 0 [] phase[r][c] = "after" -> 2 [] OTHER -> 1
        ELSE (currentTimeLine[r][c] - 1) + IF phase[r][c] = "idle" THEN 0 ELSE 1

(* A rank in a collective call has popped the event it makes the call for    *)
(* last: blocked, it pops nothing else.                                      *)
BlockedByLast(r, c) ==
  /\ phase[r][c] = "before" => taken[r] > 0 /\ order[taken[r]] = Event(r, c)
  /\ phase[r][c] = "after" => taken[r] > 0 /\ order[taken[r]] = Sync(r, c)

(* A handler begins when all ranks have entered the barrier of its event.    *)
BarrierPassed(r, c) ==
  phase[r][c] # "idle" => \A s \in Ranks : barriers[s][c] >= currentTimeLine[r][c]

ProcessingInv ==
  /\ TypeOK /\ AnnouncedExactly /\ TakenExactly /\ ChosenByAll
  /\ \A r \in Ranks, c \in Contexts :
       InStep(r, c) /\ BlockedByLast(r, c) /\ BarrierPassed(r, c)
=============================================================================
