---------------------------- MODULE EventAssembly ----------------------------
(* How the parts that several client ranks send make one event on a server   *)
(* rank (src/src/transport/legacy_context_server.cpp, event_server.cpp, and  *)
(* sendEvent in legacy_context_client.cpp).  A client writes its part of     *)
(* each event in its buffer for each server concerned; what a buffer holds   *)
(* leaves as a message, when the client calls the library and its last       *)
(* message was received, or is copied by the server, which looks at one      *)
(* client after the other.  A channel is exact and in order (LegacyChannel); *)
(* the events are handled in one order on all servers (EventScheduler).      *)
EXTENDS Integers, Sequences, FiniteSets, SequencesExt

CONSTANTS
  Clients,      \* the client ranks, 1..n
  Servers,      \* the server ranks
  Script,       \* Script[c]: the events c believes it sends: [type, to],
                \* to[s]: the clients with a part for server s
  BufferSize,   \* parts the buffer of a client holds
  RingSize,     \* parts the server keeps of one client
  CheckSync     \* the option check_event_sync

AssemblyAssumption ==
  /\ IsFiniteSet(Clients) /\ Clients # {} /\ Clients = 1 .. Cardinality(Clients)
  /\ BufferSize \in Nat \ {0} /\ RingSize \in Nat \ {0} /\ CheckSync \in BOOLEAN
  /\ \A c \in Clients : /\ Len(Script[c]) \in Nat /\ Len(Script[c]) = Len(Script[1])
                          /\ \A t \in 1 .. Len(Script[c]) :
                               Script[c][t].to \in [Servers -> SUBSET Clients]

VARIABLES
  sent,        \* sent[c]: how many events c has written
  written,     \* written[c][s]: parts in the buffer of c for s
  wire,        \* wire[c][s]: the message on its way, <<>> if there is none
  ring,        \* ring[s][c]: how many parts of c the server holds
  events,      \* events[s]: the events known, by timeline: [nbSender, type, from]
  lastTL,      \* lastTL[s][c]: the last timeline received from c
  at,          \* at[s]: itLastTimeLine, the client to look at next
  current,     \* current[s]: currentTimeLine
  announced,   \* announced[s]: the current event is registered with the scheduler
  handled,     \* handled[s]: the events dispatched, as types with their senders
  error        \* ERROR was raised

channels == <<sent, written, wire>>
servers == <<ring, events, lastTL, at, current, announced, handled>>
vars == <<channels, servers, error>>

LastTime == Len(Script[1])
N == Cardinality(Clients)
NoEvent == [nbSender |-> 0, type |-> 0, from |-> {}]

Init ==
  /\ sent = [c \in Clients |-> 0]
  /\ written = [c \in Clients |-> [s \in Servers |-> <<>>]]
  /\ wire = [c \in Clients |-> [s \in Servers |-> <<>>]]
  /\ ring = [s \in Servers |-> [c \in Clients |-> 0]]
  /\ events = [s \in Servers |-> [t \in 1 .. LastTime |-> NoEvent]]
  /\ lastTL = [s \in Servers |-> [c \in Clients |-> 0]]
  /\ at = [s \in Servers |-> 1]
  /\ current = [s \in Servers |-> 1]
  /\ announced = [s \in Servers |-> FALSE]
  /\ handled = [s \in Servers |-> <<>>]
  /\ error = FALSE

-----------------------------------------------------------------------------
(* The clients.                                                              *)

Event(c) == Script[c][sent[c] + 1]
Concerned(c) == {s \in Servers : c \in Event(c).to[s]}
Part(c, s) == [from |-> c, timeLine |-> sent[c] + 1, type |-> Event(c).type,
               nbSender |-> Cardinality(Event(c).to[s])]

(* getBuffers waits until there is room for the parts of all servers.        *)
HasRoom(c) == \A s \in Concerned(c) : Len(written[c][s]) < BufferSize

Write(c) == written' = [written EXCEPT ![c] = [s \in Servers |->
              IF s \in Concerned(c) THEN Append(@[s], Part(c, s)) ELSE @[s]]]

SendEvent(c) ==
  /\ ~error /\ ~CheckSync /\ sent[c] < LastTime /\ HasRoom(c)
  /\ Write(c)
  /\ sent' = [sent EXCEPT ![c] = @ + 1]
  /\ UNCHANGED <<wire, servers, error>>

(* With check_event_sync the clients first compare their events, each with   *)
(* the mean over all of them, and look for servers nobody sends to (a slip:  *)
(* only their timelines are compared).                                       *)
SumOver(f) == FoldLeft(LAMBDA a, c : a + f[c], 0, [c \in 1 .. N |-> c])
TimesDiffer(c) == SumOver(sent) \div N # sent[c]
Incoherent(c) == SumOver([d \in Clients |-> Event(d).type]) \div N # Event(c).type
Forgotten == \E s \in Servers : \A c \in Clients : s \notin Concerned(c)

SendChecked ==
  /\ ~error /\ CheckSync /\ \A c, d \in Clients : sent[c] = sent[d] /\ sent[c] < LastTime
  /\ IF Forgotten \/ \E c \in Clients : Incoherent(c)
     THEN error' = TRUE /\ UNCHANGED <<channels, servers>>
     ELSE /\ \A c \in Clients : HasRoom(c)
          /\ written' = [c \in Clients |-> [s \in Servers |->
               IF s \in Concerned(c) THEN Append(written[c][s], Part(c, s)) ELSE written[c][s]]]
          /\ sent' = [c \in Clients |-> sent[c] + 1]
          /\ UNCHANGED <<wire, servers, error>>

(* checkBuffer, when the client calls the library: one message at a time.    *)
Push(c, s) ==
  /\ ~error /\ written[c][s] # <<>> /\ wire[c][s] = <<>>
  /\ wire' = [wire EXCEPT ![c][s] = written[c][s]]
  /\ written' = [written EXCEPT ![c][s] = <<>>]
  /\ UNCHANGED <<sent, servers, error>>

-----------------------------------------------------------------------------
(* The servers.                                                              *)

(* CEventServer::push of one part (slips: without the comparison with the    *)
(* parts that came before; an error for as many parts as announced).         *)
AlwaysCoherent(e, p) == TRUE
Coherent(e, p) == e.from = {} \/ (e.type = p.type /\ e.nbSender = p.nbSender)
AsMany(e) == e.from # {} /\ Cardinality(e.from) >= e.nbSender
TooMany(e) == Cardinality(e.from) > e.nbSender
With(e, p) == IF e.from = {} THEN [nbSender |-> p.nbSender, type |-> p.type, from |-> {p.from}]
              ELSE [e EXCEPT !.from = @ \cup {p.from}]

(* processRequest: the parts of a message of client c, which has written at  *)
(* most one of each event.                                                   *)
Received(s, c, parts) ==
  LET places(t) == {i \in 1 .. Len(parts) : parts[i].timeLine = t}
      after == [t \in 1 .. LastTime |->
                  IF places(t) = {} THEN events[s][t]
                  ELSE With(events[s][t], parts[CHOOSE i \in places(t) : TRUE])]
      agree == \A i \in 1 .. Len(parts) : Coherent(events[s][parts[i].timeLine], parts[i])
  IN /\ events' = [events EXCEPT ![s] = after]
     /\ lastTL' = [lastTL EXCEPT ![s][c] = parts[Len(parts)].timeLine]
     /\ ring' = [ring EXCEPT ![s][c] = @ + Len(parts)]
     /\ error' = (~agree \/ \E t \in 1 .. LastTime : TooMany(after[t]))
     /\ UNCHANGED <<sent, current, announced, handled>>

(* An empty ring takes any message.                                          *)
Fits(s, c, n) == ring[s][c] = 0 \/ ring[s][c] + n <= RingSize

Receive(s, c) ==
  /\ ~error /\ wire[c][s] # <<>> /\ Fits(s, c, Len(wire[c][s]))
  /\ Received(s, c, wire[c][s])
  /\ wire' = [wire EXCEPT ![c][s] = <<>>]
  /\ UNCHANGED <<written, at>>

(* getBufferFromClient: the first client from itLastTimeLine on that may     *)
(* have the current event is looked at, and the iterator moves past it even  *)
(* when there was nothing (slips: only when there was something; not back to *)
(* the first client).                                                        *)
MayHave(s, c) == lastTL[s][c] < current[s] /\ ring[s][c] = 0
Candidates(s) == {c \in Clients : c >= at[s] /\ MayHave(s, c)}
StaysThere(s, c, found) == IF found THEN c + 1 ELSE c
Past(s, c, found) == c + 1
NotWrapped(i) == i
Wrapped(i) == IF i > N THEN 1 ELSE i


(* An event is full with the number of parts it announces (a slip: with one). *)
AnyPart(e) == e.from # {}
IsFull(e) == e.from # {} /\ Cardinality(e.from) = e.nbSender
Lacks(s) == ~error /\ current[s] <= LastTime /\ ~IsFull(events[s][current[s]])

Pull(s) ==
  /\ Lacks(s)
  /\ \/ \E c \in Candidates(s) :
          LET parts == written[c][s]
              found == parts # <<>> /\ parts[1].timeLine = current[s]
          IN /\ \A d \in Candidates(s) : c <= d
             /\ at' = [at EXCEPT ![s] = Wrapped(Past(s, c, found))]
             /\ IF found THEN /\ Received(s, c, parts)
                              /\ written' = [written EXCEPT ![c][s] = <<>>]
                              /\ UNCHANGED wire
                ELSE UNCHANGED <<channels, ring, events, lastTL, current, announced, handled, error>>
     \/ /\ Candidates(s) = {}
        /\ at' = [at EXCEPT ![s] = 1]
        /\ UNCHANGED <<channels, ring, events, lastTL, current, announced, handled, error>>

(* processEvents registers the event that is full, and dispatches it when    *)
(* all servers have, and all before it.                                      *)
Announce(s) ==
  /\ ~error /\ current[s] <= LastTime /\ ~announced[s] /\ IsFull(events[s][current[s]])
  /\ announced' = [announced EXCEPT ![s] = TRUE]
  /\ UNCHANGED <<channels, ring, events, lastTL, at, current, handled, error>>

Scheduled(s) == announced[s] /\ \A q \in Servers : \/ current[q] > current[s]
                                                   \/ current[q] = current[s] /\ announced[q]

(* The parts are freed when the event is deleted (a slip: one of them only). *)
FreedOnce(s, c, e) == IF c \in e.from /\ \A d \in e.from : c <= d THEN 1 ELSE 0
Freed(s, c, e) == IF c \in e.from THEN 1 ELSE 0

Handle(s) ==
  LET t == current[s]
      e == events[s][t]
  IN
  /\ ~error /\ Scheduled(s)
  /\ handled' = [handled EXCEPT ![s] = Append(@, [type |-> e.type, from |-> e.from])]
  /\ ring' = [ring EXCEPT ![s] = [c \in Clients |-> @[c] - Freed(s, c, e)]]
  /\ events' = [events EXCEPT ![s][t] = NoEvent]
  /\ current' = [current EXCEPT ![s] = @ + 1]
  /\ announced' = [announced EXCEPT ![s] = FALSE]
  /\ UNCHANGED <<channels, lastTL, at, error>>

-----------------------------------------------------------------------------
Next == \/ SendChecked
        \/ \E c \in Clients : SendEvent(c)
        \/ \E c \in Clients, s \in Servers : Push(c, s) \/ Receive(s, c)
        \/ \E s \in Servers : Pull(s) \/ Announce(s) \/ Handle(s)

(* The clients send their events and may then compute for ever; the servers  *)
(* go on.                                                                    *)
Fairness == /\ WF_vars(SendChecked)
            /\ \A c \in Clients : WF_vars(SendEvent(c))
            /\ \A s \in Servers : /\ \A c \in Clients : WF_vars(Receive(s, c))
                                  /\ WF_vars(Pull(s)) /\ WF_vars(Announce(s) \/ Handle(s))

Spec == Init /\ [][Next]_vars /\ Fairness

-----------------------------------------------------------------------------
(* Counts stay within the buffers: a ring never holds more than it has room  *)
(* for, except one message that came when it was empty.                      *)
TypeOK ==
  /\ sent \in [Clients -> 0 .. LastTime]
  /\ \A c \in Clients, s \in Servers :
       /\ Len(written[c][s]) <= BufferSize /\ Len(wire[c][s]) <= BufferSize
       /\ ring[s][c] \in 0 .. (IF BufferSize > RingSize THEN BufferSize ELSE RingSize)
       /\ lastTL[s][c] \in 0 .. LastTime
  /\ \A s \in Servers : at[s] \in 1 .. N /\ current[s] \in 1 .. LastTime + 1
  /\ error \in BOOLEAN

(* An event is handled with the parts of all the clients that send one, and  *)
(* none of its parts comes later (event_server.cpp:51).                      *)
Whole ==
  \A s \in Servers : \A t \in 1 .. Len(handled[s]) :
    /\ \A c \in Clients : c \in handled[s][t].from <=> c \in Script[c][t].to[s]
    /\ \A c \in Clients : \A i \in 1 .. Len(written[c][s]) : written[c][s][i].timeLine # t
    /\ \A c \in Clients : \A i \in 1 .. Len(wire[c][s]) : wire[c][s][i].timeLine # t

(* The ring of a client holds its parts of the events not yet handled.       *)
RingCounts ==
  \A s \in Servers, c \in Clients :
    ring[s][c] = Cardinality({t \in 1 .. LastTime : c \in events[s][t].from})

(* The clients agree on their events.                                        *)
Agreed == \A c, d \in Clients : Script[c] = Script[d]

(* Without the comparison of the clients, which also refuses an event that a *)
(* server has no part of, clients that agree on their events never meet an   *)
(* error.                                                                    *)
NoFalseError == ~CheckSync => ~error

(* Of clients that agree, an event is dispatched with the parts of all those *)
(* that send one and none comes later, whatever order the buffers arrive in; *)
(* a ring holds just the parts of the events not handled; and no error is    *)
(* raised.                                                                   *)
EventsWhole == Agreed => TypeOK /\ Whole /\ RingCounts /\ NoFalseError

(* A server never handles an event made of parts of different events: what   *)
(* it handles is what every client that sent a part of it meant              *)
(* (event_server.cpp:25).                                                    *)
NotMixed ==
  \A s \in Servers : \A t \in 1 .. Len(handled[s]) :
    \A c \in handled[s][t].from : Script[c][t].type = handled[s][t].type

(* With check_event_sync, no two servers handle different events at the same *)
(* timeline, whatever the clients disagree on.                               *)
SameEverywhere ==
  \A s, q \in Servers : \A t \in 1 .. Len(handled[s]) :
    t <= Len(handled[q]) => handled[q][t].type = handled[s][t].type

(* Clients that disagree never have different events handled as one; with    *)
(* check_event_sync no two servers handle different events at one timeline.  *)
DisagreementCaught == NotMixed /\ (CheckSync => SameEverywhere)

(* Every event is handled on every server, although the clients may call the *)
(* library no more after their last event: the server comes to look at each  *)
(* of them (legacy_context_server.cpp:242).                                  *)
AllHandled == <>(\A s \in Servers : Len(handled[s]) = LastTime)
=============================================================================
