------------------------------- MODULE MCEvents -------------------------------
(* An event on the server side, part by part: the collective processing of    *)
(* the events of several contexts, some of which forward to other servers     *)
(* (EventProcessing), and the assembly of events out of the parts of several  *)
(* clients by several servers (clients that agree, clients that do not, and   *)
(* check_event_sync).  A behaviour is of one part; the variables of the       *)
(* processing stay as they begin in the others, those of the assembly are Off *)
(* in the processing.                                                         *)
EXTENDS EventProcessing, Integers, FiniteSets

Off == "off"

VARIABLES part, sent, written, wire, ring, events, lastTL, at, current,
          registeredPart, handled, error

partsVars == <<sent, written, wire, ring, events, lastTL, at, current,
               registeredPart, handled, error>>
MCvars == <<part, vars, partsVars>>

(* Three clients: an event of all and one some have no part of.  Two clients: *)
(* the second takes the third event for another one, or the second where each *)
(* event of one server is of one client.                                      *)
Servers == {"s1", "s2"}
Ev(type, one, two) == [type |-> type, to |-> [s \in Servers |-> IF s = "s1" THEN one ELSE two]]
Agreed == <<Ev(1, {1, 2}, {1, 2}), Ev(2, {1}, {2}), Ev(3, {2}, {1, 2})>>
Three == [c \in 1 .. 3 |-> <<Ev(1, {1, 2, 3}, {3}), Ev(2, {2}, {1})>>]
Differ == <<Agreed, [Agreed EXCEPT ![3].type = 5]>>
DifferHere == <<Agreed, [Agreed EXCEPT ![2].type = 5]>>

A == INSTANCE EventAssembly WITH Clients <- 1 .. 3, Script <- Three,
                                 BufferSize <- 2, RingSize <- 2, CheckSync <- FALSE,
                                 announced <- registeredPart
D == INSTANCE EventAssembly WITH Clients <- 1 .. 2, Script <- Differ,
                                 BufferSize <- 2, RingSize <- 2, CheckSync <- FALSE,
                                 announced <- registeredPart
K == INSTANCE EventAssembly WITH Clients <- 1 .. 2, Script <- DifferHere,
                                 BufferSize <- 2, RingSize <- 2, CheckSync <- TRUE,
                                 announced <- registeredPart

ASSUME A!AssemblyAssumption /\ D!AssemblyAssumption /\ K!AssemblyAssumption

MCInit ==
  /\ Init
  /\ \/ /\ part = "processing"
        /\ sent = Off /\ written = Off /\ wire = Off /\ ring = Off
        /\ events = Off /\ lastTL = Off /\ at = Off /\ current = Off
        /\ registeredPart = Off /\ handled = Off /\ error = Off
     \/ part = "assembly" /\ A!Init
     \/ part = "differ" /\ D!Init
     \/ part = "checked" /\ K!Init

MCNext ==
  \/ part = "processing" /\ Next /\ UNCHANGED <<part, partsVars>>
  \/ part = "assembly" /\ A!Next /\ UNCHANGED <<part, vars>>
  \/ part = "assembly" /\ (\A s \in Servers : Len(handled[s]) = 2) /\ UNCHANGED MCvars
  \/ part = "differ" /\ D!Next /\ UNCHANGED <<part, vars>>
  \/ part = "differ" /\ (error \/ \A s \in Servers : Len(handled[s]) = 3) /\ UNCHANGED MCvars
  \/ part = "checked" /\ K!Next /\ UNCHANGED <<part, vars>>
  \/ part = "checked" /\ (error \/ \A s \in Servers : Len(handled[s]) = 3) /\ UNCHANGED MCvars

(* What the fairness of the processing asks of its actions one by one is      *)
(* asked of all of them together: it never comes back to a state, so that a   *)
(* behaviour goes on for ever only by stopping where none is enabled.  The    *)
(* assembly keeps its own fairness.                                           *)
ProcessingGoesOn ==
  \/ \E r \in Ranks, c \in Contexts :
       \/ RegisterEvent(r, c) \/ EnterBarrier(r, c) \/ DispatchEvent(r, c)
       \/ StartSend(r, c) \/ Sent(r, c) \/ Synchronize(r, c) \/ EndEvent(r, c)
  \/ \E key \in Keys : Choose(key)

MCFairness ==
  /\ WF_vars(part = "processing" /\ ProcessingGoesOn)
  /\ \A c \in 1 .. 3 : WF_(A!vars)(part = "assembly" /\ A!SendEvent(c))
  /\ \A s \in Servers :
       /\ \A c \in 1 .. 3 : WF_(A!vars)(part = "assembly" /\ A!Receive(s, c))
       /\ WF_(A!vars)(part = "assembly" /\ A!Pull(s))
       /\ WF_(A!vars)(part = "assembly" /\ (A!Announce(s) \/ A!Handle(s)))

MCSpec == MCInit /\ [][MCNext]_MCvars /\ MCFairness

-----------------------------------------------------------------------------
(* An event is dispatched with the parts of all the clients that send one and *)
(* none comes later, whatever order the buffers arrive in; a ring holds just  *)
(* the parts of the events not handled; agreeing clients meet no error.       *)
EventsWhole ==
  part = "assembly" => A!EventsWhole

(* Clients that disagree never have different events handled as one; with     *)
(* check_event_sync no two servers handle different events at one timeline    *)
(* (event_server.cpp:25).                                                     *)
DisagreementCaught ==
  /\ part = "differ" => D!DisagreementCaught
  /\ part = "checked" => K!DisagreementCaught

(* Every event is handled on every rank, although handlers block and wait for *)
(* each other, and although a client may call the library no more after its   *)
(* last event (legacy_context_server.cpp:242).                                *)
AllEventsHandled ==
  <>(/\ part = "processing" =>
          \A r \in Ranks, c \in Contexts : currentTimeLine[r][c] > MaxTime
     /\ part = "assembly" => \A s \in Servers : Len(handled[s]) = 2)

(* The comment of queryEvent (src/src/event_scheduler.hpp:53): an event found *)
(* scheduled next is removed from the queue by the query.  processEvents      *)
(* finds its event there, calls MPI_Ibarrier and leaves it in place.          *)
QueryRemoves ==
  [][part = "processing" =>
       \A r \in Ranks, c \in Contexts : EnterBarrier(r, c) => taken'[r] = taken[r] + 1]_MCvars
=============================================================================
