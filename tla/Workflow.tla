------------------------------- MODULE Workflow -------------------------------
(* The graph of filters a context makes its fields flow through: output pins *)
(* connected to slots of input pins, packets that wait in a slot until the   *)
(* packets of the same date fill the others, sources that keep their packets *)
(* until they are asked for (those that are read from a server or from a     *)
(* coupler), and the garbage collector that throws away, at each step of the *)
(* calendar, what is older than the new date.                                *)
(*                                                                           *)
(* A packet is the set of the <<source, date>> it was made from.             *)
EXTENDS Naturals, SequencesExt

CONSTANTS Nodes,      \* the filters
          Kind,       \* of each: "auto" and "manual" sources, "filter", "store"
          Slots,      \* the number of input slots of each
          Edges,      \* the connections to be made, <<from, to, slot>>
          ReadFields, \* the manual sources, in the order of the context's list
          LastDate,   \* the run stops there
          None        \* no trigger in a slot

WorkflowAssumption ==
  /\ Kind \in [Nodes -> {"auto", "manual", "filter", "store"}]
  /\ Slots \in [Nodes -> Nat]
  /\ \A e \in Edges : e[1] \in Nodes /\ e[2] \in Nodes /\ e[3] \in 1..Slots[e[2]]
  /\ LastDate \in Nat /\ None \notin Nodes

Dates == 0..LastDate
OfKind(k) == {n \in Nodes : Kind[n] = k}
Sources == OfKind("auto") \cup OfKind("manual")

VARIABLES outputs,    \* the slots each node is connected to, in order
          triggers,   \* for each slot, the pin to ask for its packets
          twice,      \* a trigger has been set a second time: ERROR
          flow,       \* what waits in the graph, see Empty
          date,       \* the calendar
          sent,       \* the <<source, date>> that have been put in the graph
          asked       \* the stores the model has just asked, at most one

vars == <<outputs, triggers, twice, flow, date, sent, asked>>

NoPacket == {}
Blank(n) == [filled |-> 0, packets |-> [s \in 1..Slots[n] |-> NoPacket]]

(* inputs: the packets received per date; kept: those of the manual sources; *)
(* stored: those of the stores; registered: what the collector knows; ready: *)
(* how many times a node had all its packets.                                *)
Empty ==
  [inputs |-> [n \in Nodes |-> [t \in Dates |-> Blank(n)]],
   kept   |-> [n \in OfKind("manual") |-> {}],
   stored |-> [n \in OfKind("store") |-> [t \in Dates |-> NoPacket]],
   registered |-> {},
   ready  |-> [n \in Nodes |-> [t \in Dates |-> 0]]]

Init ==
  /\ outputs = [n \in Nodes |-> <<>>]
  /\ triggers = [n \in Nodes |-> [s \in 1..Slots[n] |-> None]]
  /\ twice = FALSE
  /\ flow = Empty
  /\ date = 0
  /\ sent = {}
  /\ asked = {}

-----------------------------------------------------------------------------
(* Connections. A pin can be triggered when it keeps its packets or when one *)
(* of its own slots can be.                                                  *)

HasTriggers(tr, n) == \E s \in 1..Slots[n] : tr[n][s] # None
CanBeTriggered(tr, n) == Kind[n] = "manual" \/ HasTriggers(tr, n)

(* CInputPin::setInputTrigger; `bad' when the slot already has one.          *)
SetTrigger(w, n, s, from) ==
  [w EXCEPT !.bad = @ \/ w.tr[n][s] # None, !.tr[n][s] = from]

RECURSIVE SetInputTrigger(_, _, _, _)

(* (a slip: what is behind the filter is not told it can be triggered now)   *)
TellsNobody(w, n, s, from) == SetTrigger(w, n, s, from)

SetInputTrigger(w, n, s, from) ==
  IF Kind[n] # "filter" \/ CanBeTriggered(w.tr, n)
  THEN SetTrigger(w, n, s, from)
  ELSE FoldLeft(LAMBDA v, o : SetInputTrigger(v, o[1], o[2], n),
                SetTrigger(w, n, s, from), outputs[n])

Connected == {e \in Edges : \E i \in 1..Len(outputs[e[1]]) :
                              outputs[e[1]][i] = <<e[2], e[3]>>}
Built == Connected = Edges

(* COutputPin::connectOutput, called as the references between the fields    *)
(* are solved: in any order.                                                 *)
ConnectOutput(e) ==
  /\ e \notin Connected
  /\ outputs' = [outputs EXCEPT ![e[1]] = Append(@, <<e[2], e[3]>>)]
  /\ LET w == [tr |-> triggers, bad |-> twice]
         after == IF CanBeTriggered(triggers, e[1])
                  THEN SetInputTrigger(w, e[2], e[3], e[1]) ELSE w
     IN triggers' = after.tr /\ twice' = after.bad
  /\ asked' = {}
  /\ UNCHANGED <<flow, date, sent>>

-----------------------------------------------------------------------------
(* A packet goes through the graph, in one call.                             *)

Register(f, n, t) == [f EXCEPT !.registered = @ \cup {<<n, t>>}]
Unregister(f, n, t) == [f EXCEPT !.registered = @ \ {<<n, t>>}]

RECURSIVE SetInput(_, _, _, _, _)

Deliver(f, n, t, p) ==
  FoldLeft(LAMBDA g, o : SetInput(g, o[1], o[2], t, p), f, outputs[n])

(* A filter computes a packet of the same date and delivers it; a store      *)
(* keeps the packet, unless it has one of that date, and registers.          *)
OnInputReady(f, n, t, packets) ==
  LET p == UNION {packets[s] : s \in DOMAIN packets}
      g == [f EXCEPT !.ready[n][t] = @ + 1]
  IN IF Kind[n] = "filter" THEN Deliver(g, n, t, p)
     ELSE Register([g EXCEPT !.stored[n][t] = IF @ = NoPacket THEN p ELSE @], n, t)

(* (a slip: unregistered after onInputReady)                                 *)
UnregisterAfter(f, n, t) ==
  [Unregister(OnInputReady(f, n, t, f.inputs[n][t].packets), n, t)
     EXCEPT !.inputs[n][t] = Blank(n)]

(* (a slip: the packets stay in the pin)                                     *)
CompleteKeeps(f, n, t) ==
  OnInputReady(Unregister(f, n, t), n, t, f.inputs[n][t].packets)

Complete(f, n, t) ==
  [OnInputReady(Unregister(f, n, t), n, t, f.inputs[n][t].packets)
     EXCEPT !.inputs[n][t] = Blank(n)]

(* (a slip: one packet is enough)                                            *)
AnyPacket(b, n) == b.filled > 0

IsFull(b, n) == b.filled = Slots[n]

(* CInputPin::setInput.                                                      *)
SetInput(f, n, s, t, p) ==
  LET b == f.inputs[n][t]
      c == [filled |-> b.filled + 1, packets |-> [b.packets EXCEPT ![s] = p]]
      g == IF b.filled = 0 THEN Register(f, n, t) ELSE f
      h == [g EXCEPT !.inputs[n][t] = c]
  IN IF IsFull(c, n) THEN Complete(h, n, t) ELSE h

(* COutputPin::onOutputReady of a source.                                    *)
OnOutputReady(f, n, t) ==
  IF Kind[n] = "manual" THEN Register([f EXCEPT !.kept[n] = @ \cup {t}], n, t)
  ELSE Deliver(f, n, t, {<<n, t>>})

(* (a slip: the packet stays in the pin)                                     *)
ReleaseCopy(f, n, t) ==
  IF t \in f.kept[n] THEN Deliver(Unregister(f, n, t), n, t, {<<n, t>>}) ELSE f

(* COutputPin::trigger.                                                      *)
Release(f, n, t) ==
  IF t \in f.kept[n]
  THEN [Deliver(Unregister(f, n, t), n, t, {<<n, t>>}) EXCEPT !.kept[n] = @ \ {t}]
  ELSE f

(* (a slip: only a pin that has received nothing asks)                       *)
AsksOnlyFirst(received, b, s, again) == ~received

(* Whether CInputPin::trigger asks the pin of a slot. The packets of the     *)
(* date are looked for once, before the loop over the slots: when the pin of *)
(* an earlier slot made the filter complete, they have been erased and what  *)
(* is read of them is undefined, `again' or not.                             *)
Asks(received, b, s, again) ==
  \/ ~received
  \/ b.filled > 0 /\ b.packets[s] = NoPacket
  \/ b.filled = 0 /\ again

RECURSIVE Trigger(_, _, _, _)

Trigger(f, n, t, again) ==
  IF Kind[n] = "manual" THEN Release(f, n, t)
  ELSE LET received == f.inputs[n][t].filled > 0
       IN FoldLeft(LAMBDA g, s :
                     IF /\ triggers[n][s] # None
                        /\ Asks(received, g.inputs[n][t], s, again)
                     THEN Trigger(g, triggers[n][s], t, again) ELSE g,
                   f, [s \in 1..Slots[n] |-> s])

(* CGarbageCollector::invalidate: every object registered at an older date   *)
(* throws away all that is older.                                            *)
Invalidate(f, t) ==
  LET told == {r[1] : r \in {x \in f.registered : x[2] < t}}
      Old(n, u) == n \in told /\ u < t
  IN [f EXCEPT
       !.inputs = [n \in Nodes |-> [u \in Dates |->
                     IF Old(n, u) THEN Blank(n) ELSE f.inputs[n][u]]],
       !.kept = [n \in OfKind("manual") |-> {u \in f.kept[n] : ~Old(n, u)}],
       !.stored = [n \in OfKind("store") |-> [u \in Dates |->
                     IF Old(n, u) THEN NoPacket ELSE f.stored[n][u]]],
       !.registered = {r \in @ : r[2] >= t}]

-----------------------------------------------------------------------------
(* The model sends a field, once per date.                                   *)
StreamData(n) ==
  /\ Built /\ Kind[n] = "auto" /\ <<n, date>> \notin sent
  /\ flow' = OnOutputReady(flow, n, date)
  /\ sent' = sent \cup {<<n, date>>}
  /\ asked' = {}
  /\ UNCHANGED <<outputs, triggers, twice, date>>

(* The data of a date arrives from the server or the coupler, in the order   *)
(* of the dates and possibly in advance.                                     *)
ReceiveData(n, t) ==
  /\ Built /\ Kind[n] = "manual" /\ t >= date
  /\ \A u \in Dates : <<n, u>> \in sent <=> u < t
  /\ flow' = OnOutputReady(flow, n, t)
  /\ sent' = sent \cup {<<n, t>>}
  /\ asked' = {}
  /\ UNCHANGED <<outputs, triggers, twice, date>>

(* CClientToModelStoreFilter::getPacket, one turn of its loop.               *)
GetPacket(n, again) ==
  /\ Built /\ Kind[n] = "store" /\ CanBeTriggered(triggers, n)
  /\ flow' = Trigger(flow, n, date, again)
  /\ asked' = {n}
  /\ UNCHANGED <<outputs, triggers, twice, date, sent>>

(* CContext::updateCalendar: waits for the data that are due, triggers them, *)
(* and lets the collector go to the new date.                                *)
UpdateCalendar ==
  /\ Built /\ date < LastDate
  /\ \A n \in OfKind("manual") : <<n, date>> \in sent
  /\ date' = date + 1
  /\ flow' = Invalidate(FoldLeft(LAMBDA f, n : Release(f, n, date), flow, ReadFields),
                        date + 1)
  /\ asked' = {}
  /\ UNCHANGED <<outputs, triggers, twice, sent>>

Done == Built /\ date = LastDate /\ UNCHANGED vars

Next ==
  \/ \E e \in Edges : ConnectOutput(e)
  \/ \E n \in Nodes : StreamData(n) \/ \E t \in Dates : ReceiveData(n, t)
  \/ \E n \in Nodes : \E again \in BOOLEAN : GetPacket(n, again)
  \/ UpdateCalendar
  \/ Done

Spec == Init /\ [][Next]_vars

-----------------------------------------------------------------------------
(* The sources whose data a node is computed from.                           *)
RECURSIVE Upstream(_)
Upstream(n) == IF n \in Sources THEN {n}
               ELSE UNION {Upstream(e[1]) : e \in {x \in Edges : x[2] = n}}

TypeOK ==
  /\ \A n \in Nodes : \A i \in 1..Len(outputs[n]) : <<n, outputs[n][i][1], outputs[n][i][2]>> \in Edges
  /\ twice \in BOOLEAN /\ date \in Dates /\ sent \subseteq Sources \X Dates
  /\ asked \subseteq OfKind("store")
  /\ flow.registered \subseteq Nodes \X Dates
  /\ \A n \in Nodes, t \in Dates : LET b == flow.inputs[n][t]
                                   IN b.filled = 0 \/ b.filled \in 1..Slots[n] - 1

(* Whatever the order of the connections, no trigger is set twice and, at    *)
(* the end, the slots that have one are those fed by a node that waits for a *)
(* source that keeps its packets (COutputPin::connectOutput,                 *)
(* CFilter::setInputTrigger).                                                *)
TriggersSet ==
  /\ ~twice
  /\ Built => \A e \in Edges : triggers[e[2]][e[3]] =
       IF \E n \in Upstream(e[1]) : Kind[n] = "manual" THEN e[1] ELSE None

(* A packet that gets to a store is made of one packet of each source the    *)
(* store depends on, all of the date it is stored under.                     *)
OneOfEach ==
  \A n \in OfKind("store"), t \in Dates :
    flow.stored[n][t] \in {NoPacket, Upstream(n) \X {t}}

(* A filter computes a date once, however many readers ask for it.           *)
ComputedOnce == \A n \in Nodes, t \in Dates : flow.ready[n][t] <= 1

(* Nothing older than the calendar is left in the graph: what waits is       *)
(* always known to the garbage collector (CInputPin::setInput unregisters    *)
(* before the filter registers again).                                       *)
NothingOld ==
  \A t \in 0..date - 1 :
    /\ \A n \in Nodes : flow.inputs[n][t] = Blank(n)
    /\ \A n \in OfKind("manual") : t \notin flow.kept[n]
    /\ \A n \in OfKind("store") : flow.stored[n][t] = NoPacket

(* When the model asks for a field whose sources have all been received, it  *)
(* gets it, whatever part of the graph other fields have been asked for      *)
(* before (CInputPin::trigger).                                              *)
AskedIsGiven ==
  \A n \in asked : Upstream(n) \X {date} \subseteq sent => flow.stored[n][date] # NoPacket
=============================================================================
