---------------------------- MODULE LegacyChannel ---------------------------
(* The legacy transport between one client rank and one server rank          *)
(* (src/src/buffer_client.cpp, src/src/buffer_server.cpp and                 *)
(* src/src/transport/legacy_context_{client,server}.cpp), after the windows  *)
(* are attached.  The client writes its events in one of two windows; their  *)
(* bytes leave either in a synchronous send, after which the client turns to *)
(* the other window, or copied by the server out of the window it believes   *)
(* current.  Changing the buffer size is a dialogue over the same path.      *)
(*                                                                           *)
(* A section under CWindowBase::lockExclusive is one step: RmaLock shows the *)
(* lock is exclusive and flushes before it is released.  The server's ring   *)
(* is its number of used bytes: ServerRing shows it has no other effect on   *)
(* when a message is accepted than the guard of AcceptProbe.                 *)
EXTENDS Integers, Sequences

CONSTANTS
  MaxTime,      \* the timeline of the context's finalize event, the last one
  MaxSize,      \* bound on the size of an event
  InitSize,     \* mapBufferSize_ when the buffer was created
  FixSizes      \* sizes closeDefinition may fix the buffer to

ASSUME SizesAssumption ==
  /\ MaxTime \in Nat \ {0} /\ MaxSize \in Nat \ {0}
  /\ InitSize \in Nat \ {0} /\ FixSizes \subseteq Nat \ {0}

VARIABLES
  (* the client rank *)
  pureOneSided, \* the option pure_one_sided
  plan,         \* size of the event of each timeline for this server, 0: none
  nextTL,       \* timeLine, of the next event
  pc,           \* "open", then "drain" and "wait" in finalize, then "released"
  blocked,      \* getBuffers is looping for room
  cur, count,   \* current, and the local copy of its byte count
  win,          \* the two windows: [tl, cnt, notify, mem]
  pending,      \* the last MPI_Issend has not been tested complete
  step,         \* resizingBufferStep_
  bufSize, newSize, growable,
  fixed,        \* setBufferSize has been called
  epoch,        \* how many times the windows were attached anew
  (* between the ranks *)
  wire,         \* messages sent and not probed
  (* the server rank *)
  probes,       \* pendingProbe
  request,      \* pendingRequest: the message MPI_Imrecv is receiving, if any
  swin,         \* currentWindows
  resizing,     \* resizingBuffer_
  used, ring,   \* bytes held in the ring, and its size
  held,         \* the sub-events in the ring
  curTL, lastTL, busy,  \* currentTimeLine, lastTimeLine, isProcessingEvent_
  sepoch,       \* the attachment whose addresses the server knows
  (* history *)
  accepted, processed,
  offset,       \* offset[t]: bytes accepted before timeline t, t \in 1 .. nextTL
  stale         \* the server used an address of an earlier attachment

clientVars == <<pureOneSided, plan, nextTL, pc, blocked, cur, count, pending, step, bufSize,
                newSize, growable, fixed, epoch, accepted, offset>>
serverVars == <<probes, request, swin, resizing, used, ring, held, curTL,
                lastTL, busy, sepoch, processed, stale>>
vars == <<clientVars, win, wire, serverVars>>

Notify == MaxTime + 1       \* timelineEventNotifyChangeBufferSize
Change == MaxTime + 2       \* timelineEventChangeBufferSize
CtlSize == 1                \* bytes of a control message
Nothing == 0   Resize == 1   Finalize == 2      \* the values of notify

Other(w) == 1 - w
IsControl(item) == item.tl > MaxTime
EmptyWindow == [tl |-> 0, cnt |-> 0, notify |-> Nothing, mem |-> {}]

(* Variants a slip in the code would produce.                                *)
NeverFrozen == FALSE
ReadsWhileResizing == TRUE
RoomIfFits(n) == used + n < ring
StaysOnWindow(w) == w
OnlyTimeLineReset(w) == [w EXCEPT !.tl = 0]
StepKept == step
KeptInRing(n) == used

(* The bytes below n of a window's memory, an item per event.                *)
Below(mem, n) == {item \in mem : item.at < n}
Contents(w) == [n |-> w.cnt, items |-> Below(w.mem, w.cnt)]
Emptied(w) == [w EXCEPT !.tl = 0, !.cnt = 0]

(* getBuffer followed by the writes of the caller: size bytes from offset n. *)
(* A ChangeBufferSize carries the new size and the windows' addresses.       *)
Written(w, n, tl, size, arg, addr) ==
  [w EXCEPT !.tl = IF @ = 0 THEN tl ELSE @,
            !.cnt = n + size,
            !.mem = Below(@, n) \cup
                      {[at |-> n, tl |-> tl, size |-> size, arg |-> arg, addr |-> addr]}]

Init ==
  /\ plan \in {f \in [1 .. MaxTime -> 0 .. MaxSize] : f[MaxTime] > 0}
  /\ pureOneSided \in BOOLEAN
  /\ nextTL = 1 /\ pc = "open" /\ blocked = FALSE
  /\ cur = 1 /\ count = 0 /\ win = [w \in {0, 1} |-> EmptyWindow]
  /\ pending = FALSE /\ step = 0
  /\ bufSize = InitSize /\ newSize = 0
  /\ growable \in BOOLEAN /\ fixed = FALSE /\ epoch = 0
  /\ wire = <<>> /\ probes = <<>> /\ request = <<>>
  /\ swin = 1 /\ resizing = FALSE /\ used = 0 /\ ring = 3 * InitSize
  /\ held = {} /\ curTL = 1 /\ lastTL = 0 /\ busy = FALSE /\ sepoch = 0
  /\ accepted = <<>> /\ processed = <<>> /\ offset = <<0>> /\ stale = FALSE

-----------------------------------------------------------------------------
(* The client rank.                                                          *)

(* isBufferFree reads the shared count again: the server may have emptied    *)
(* the window since the client last looked.                                  *)
Refreshed == win[cur].cnt

(* No event is accepted while the dialogue of a resize is going on.          *)
Frozen == step > 0

(* The events that remain to be sent to this server.                         *)
Sending == pc = "open" /\ nextTL <= MaxTime

(* A timeline in which this client has nothing for this server.              *)
SkipTimeline ==
  /\ Sending /\ plan[nextTL] = 0
  /\ nextTL' = nextTL + 1
  /\ offset' = Append(offset, offset[nextTL])
  /\ UNCHANGED <<pureOneSided, plan, pc, blocked, cur, count, win, pending,
                 step, bufSize, newSize, growable, fixed, epoch, accepted,
                 wire, serverVars>>

(* sendEvent, when isBufferFree holds: the event is written under the lock.  *)
SendEvent ==
  LET size == plan[nextTL] IN
  /\ Sending /\ size > 0
  /\ ~Frozen
  /\ size <= bufSize - Refreshed
  /\ win' = [win EXCEPT ![cur] = Written(@, Refreshed, nextTL, size, 0, 0)]
  /\ count' = Refreshed + size
  /\ accepted' = Append(accepted, nextTL)
  /\ offset' = Append(offset, offset[nextTL] + size)
  /\ nextTL' = nextTL + 1
  /\ pc' = IF nextTL = MaxTime THEN "drain" ELSE pc
  /\ blocked' = FALSE
  /\ UNCHANGED <<pureOneSided, plan, cur, pending, step, bufSize, newSize,
                 growable, fixed, epoch, wire, serverVars>>

(* sendEvent, when isBufferFree does not hold: getBuffers tries again later. *)
(* An event that does not fit starts a resize, unless the size is fixed and  *)
(* the event would fit in an empty buffer; firstTimeLine is then cleared, so *)
(* that the server takes nothing more out of the window.                     *)
BufferNotFree ==
  LET size  == plan[nextTL]
      large == size > bufSize
      grows == ~Frozen /\ (large \/ growable)
  IN
  /\ Sending /\ size > 0
  /\ Frozen \/ size > bufSize - Refreshed
  /\ count' = Refreshed
  /\ blocked' = TRUE
  /\ step' = IF grows THEN 1 ELSE step
  /\ newSize' = IF ~grows THEN newSize
                ELSE IF large THEN size ELSE ((Refreshed + size) * 12) \div 10
  /\ win' = IF grows THEN [win EXCEPT ![cur].tl = 0] ELSE win
  /\ UNCHANGED <<pureOneSided, plan, nextTL, pc, cur, pending, bufSize,
                 growable, fixed, epoch, accepted, offset, wire, serverVars>>

(* isBufferFree holds here, not for another server of the same event.        *)
OthersNotFree ==
  /\ Sending /\ plan[nextTL] > 0
  /\ ~Frozen /\ plan[nextTL] <= bufSize - Refreshed
  /\ count' = Refreshed
  /\ blocked' = TRUE
  /\ UNCHANGED <<pureOneSided, plan, nextTL, pc, cur, win, pending, step,
                 bufSize, newSize, growable, fixed, epoch, accepted, offset, wire,
                 serverVars>>

(* setBufferSize: closeDefinition fixes the size once, between two events.   *)
FixBufferSize(size) ==
  /\ pc = "open" /\ ~blocked /\ ~fixed
  /\ newSize' = size /\ growable' = FALSE /\ step' = 1 /\ fixed' = TRUE
  /\ UNCHANGED <<pureOneSided, plan, nextTL, pc, blocked, cur, count, win,
                 pending, bufSize, epoch, accepted, offset, wire, serverVars>>

(* The synchronous send has been matched: MPI_Imrecv has been called on it.  *)
Matched == wire = <<>> /\ probes = <<>>

(* checkBuffer gets past its test of the request, and does more than that.   *)
Checking == /\ pc \in {"open", "drain"}
            /\ pending => Matched
            /\ ~pureOneSided \/ step > 0

StepAfterSend == IF step = 4 THEN 0 ELSE step

(* checkBuffer sends what the window holds and turns to the other one.       *)
IssueSend ==
  /\ Checking
  /\ count > 0 /\ win[cur].cnt > 0
  /\ wire' = Append(wire, Contents([win[cur] EXCEPT !.cnt = count]))
  /\ step' = StepAfterSend
  /\ pending' = TRUE
  /\ win' = [win EXCEPT ![cur] = Emptied(@)]
  /\ cur' = Other(cur)
  /\ count' = 0
  /\ UNCHANGED <<pureOneSided, plan, nextTL, pc, blocked, bufSize, newSize,
                 growable, fixed, epoch, accepted, offset, serverVars>>

(* checkBuffer only finds the request complete.                              *)
TestSend ==
  /\ pc \in {"open", "drain"}
  /\ pending /\ Matched
  /\ pending' = FALSE
  /\ UNCHANGED <<pureOneSided, plan, nextTL, pc, blocked, cur, count, win,
                 step, bufSize, newSize, growable, fixed, epoch, accepted, offset,
                 wire, serverVars>>

(* resizeBufferNotify: ask the server to stop using the windows.             *)
ResizeBufferNotify ==
  /\ Checking /\ count = 0
  /\ step = 1
  /\ win' = [win EXCEPT ![cur] = Written(@, 0, Notify, CtlSize, 0, 0)]
  /\ count' = CtlSize
  /\ step' = 2
  /\ pending' = FALSE
  /\ UNCHANGED <<pureOneSided, plan, nextTL, pc, blocked, cur, bufSize,
                 newSize, growable, fixed, epoch, accepted, offset, wire, serverVars>>

(* isNotifiedChangeBufferSize: the server has answered in the window.        *)
IsNotifiedChangeBufferSize ==
  /\ Checking /\ count = 0
  /\ step = 2 /\ win[cur].notify = Resize
  /\ win' = [win EXCEPT ![cur].notify = Nothing]
  /\ step' = 3
  /\ pending' = FALSE
  /\ UNCHANGED <<pureOneSided, plan, nextTL, pc, blocked, cur, count, bufSize,
                 newSize, growable, fixed, epoch, accepted, offset, wire, serverVars>>

(* resizeBuffer: new windows, and their addresses in the first of them.      *)
ResizeBuffer ==
  /\ Checking /\ count = 0
  /\ step = 3
  /\ bufSize' = newSize
  /\ epoch' = epoch + 1
  /\ win' = [w \in {0, 1} |-> IF w = 0
                              THEN Written(EmptyWindow, 0, Change, CtlSize, newSize, epoch')
                              ELSE EmptyWindow]
  /\ cur' = 0 /\ count' = CtlSize
  /\ step' = 4
  /\ pending' = FALSE
  /\ UNCHANGED <<pureOneSided, plan, nextTL, pc, blocked, newSize, growable,
                 fixed, accepted, offset, wire, serverVars>>

(* finalize: havePendingRequests, until nothing is left to send; eventLoop   *)
(* is called no more once it returns false.                                  *)
HavePendingRequests ==
  /\ pc = "drain"
  /\ count' = win[cur].cnt
  /\ pc' = IF pending \/ count' > 0 THEN pc ELSE "wait"
  /\ UNCHANGED <<pureOneSided, plan, nextTL, blocked, cur, win, pending, step,
                 bufSize, newSize, growable, fixed, epoch, accepted, offset, wire,
                 serverVars>>

(* finalize: isNotifiedFinalized, then releaseBuffers.                       *)
IsNotifiedFinalized ==
  /\ pc = "wait" /\ win[cur].notify = Finalize
  /\ pc' = "released"
  /\ epoch' = epoch + 1
  /\ UNCHANGED <<pureOneSided, plan, nextTL, blocked, cur, count, win, pending,
                 step, bufSize, newSize, growable, fixed, accepted, offset, wire,
                 serverVars>>

-----------------------------------------------------------------------------
(* The server rank.                                                          *)

(* Every access to the client's window uses the addresses last received.     *)
Access == stale' = (stale \/ sepoch # epoch)

(* listen: MPI_Improbe.                                                      *)
Listen ==
  /\ wire # <<>>
  /\ probes' = Append(probes, Head(wire))
  /\ wire' = Tail(wire)
  /\ UNCHANGED <<clientVars, win, request, swin, resizing, used, ring, held,
                 curTL, lastTL, busy, sepoch, processed, stale>>

(* isBufferFree: an empty ring has room for any message; a ring in use may,  *)
(* depending on where its regions lie.                                       *)
MayBeFree(n) == used = 0 \/ used + n < ring

(* While the client resizes, the ring will be deleted: wait for it to empty. *)
RoomWhileResizing(n) == used = 0

Acceptable(n) == IF resizing THEN RoomWhileResizing(n) ELSE MayBeFree(n)

(* checkPendingProbe: MPI_Imrecv, one message at a time.                     *)
AcceptProbe ==
  /\ request = <<>> /\ probes # <<>>
  /\ Acceptable(Head(probes).n)
  /\ used' = used + Head(probes).n
  /\ request' = <<Head(probes)>>
  /\ probes' = Tail(probes)
  /\ UNCHANGED <<clientVars, win, wire, swin, resizing, ring, held, curTL,
                 lastTL, busy, sepoch, processed, stale>>

(* The window the client has turned to, when its message is received.        *)
NextWindow(w) == Other(w)

(* processRequest turns again after a notification: currentWindows is set    *)
(* anew when the resize ends.                                                *)
TurnAgain(w) == Other(w)

(* What processRequest goes through, from the first byte on.                 *)
StartsWith(items, tl) == \E item \in items : item.at = 0 /\ item.tl = tl
LastTimeLine(items) ==
  IF items = {} THEN lastTL
  ELSE (CHOOSE item \in items : \A other \in items : other.at <= item.at).tl

(* checkPendingRequest, then processRequest of a message of events.          *)
ReceiveEvents ==
  LET items == Head(request).items IN
  /\ request # <<>>
  /\ \A item \in items : ~IsControl(item)
  /\ swin' = NextWindow(swin)
  /\ held' = held \cup items
  /\ lastTL' = LastTimeLine(items)
  /\ request' = <<>>
  /\ UNCHANGED <<clientVars, win, wire, probes, resizing, used, ring, curTL,
                 busy, sepoch, processed, stale>>

(* popBuffer: the control message leaves the ring at once.                   *)
UsedAfterPop(n) == used - n

(* ... of a NotifyChangeBufferSize: answered in the window the client has    *)
(* turned to, and popped off the ring.                                       *)
ReceiveNotify ==
  /\ request # <<>> /\ StartsWith(Head(request).items, Notify)
  /\ resizing' = TRUE
  /\ win' = [win EXCEPT ![NextWindow(swin)].notify = Resize]
  /\ Access
  /\ swin' = TurnAgain(NextWindow(swin))
  /\ used' = UsedAfterPop(Head(request).n)
  /\ request' = <<>>
  /\ UNCHANGED <<clientVars, wire, probes, ring, held, curTL, lastTL, busy,
                 sepoch, processed>>

(* ... of a ChangeBufferSize: the ring is deleted, a new one is made.        *)
ReceiveChange ==
  /\ request # <<>>
  /\ \E item \in Head(request).items :
       /\ item.at = 0 /\ item.tl = Change
       /\ ring' = 3 * item.arg
       /\ sepoch' = item.addr
  /\ resizing' = FALSE
  /\ used' = 0
  /\ swin' = 1
  /\ request' = <<>>
  /\ UNCHANGED <<clientVars, win, wire, probes, held, curTL, lastTL, busy,
                 processed, stale>>

(* getBufferFromClient looks in the window: not while the client resizes.    *)
MayLook == ~resizing

(* processEvents, when the current event lacks this client's part: look in   *)
(* the window, and copy what is there if it starts with the current event.   *)
GetBufferFromClient ==
  LET w == win[swin]
      items == Contents(w).items
  IN
  /\ ~busy /\ request = <<>> /\ curTL <= MaxTime
  /\ lastTL < curTL
  /\ used = 0
  /\ MayLook
  /\ Access
  /\ IF w.tl = curTL
       THEN /\ used' = w.cnt
            /\ held' = held \cup items
            /\ lastTL' = LastTimeLine(items)
            /\ win' = [win EXCEPT ![swin] = Emptied(@)]
       ELSE UNCHANGED <<used, held, lastTL, win>>
  /\ UNCHANGED <<clientVars, wire, probes, request, swin, resizing, ring,
                 curTL, busy, sepoch, processed>>

(* The sub-event of the current event: events.find(currentTimeLine).         *)
IsCurrent(item) == item \in held /\ item.tl = curTL

(* processEvents starts the current event once it is full and scheduled; the *)
(* finalize event is first acknowledged in the client's window.              *)
StartEvent ==
  /\ ~busy /\ \E item \in held : IsCurrent(item)
  /\ busy' = TRUE
  /\ IF curTL = MaxTime
       THEN win' = [win EXCEPT ![swin].notify = Finalize] /\ Access
       ELSE UNCHANGED <<win, stale>>
  /\ processed' = Append(processed, curTL)
  /\ UNCHANGED <<clientVars, wire, probes, request, swin, resizing, used, ring,
                 held, curTL, lastTL, sepoch>>

(* The event is deleted: its bytes leave the ring.                           *)
EndEvent ==
  /\ busy
  /\ busy' = FALSE
  /\ \E item \in held : /\ IsCurrent(item)
                        /\ used' = used - item.size
                        /\ held' = held \ {item}
  /\ curTL' = curTL + 1
  /\ UNCHANGED <<clientVars, win, wire, probes, request, swin, resizing, ring,
                 lastTL, sepoch, processed, stale>>

(* An event in which this client has no part, full with those of others.     *)
OtherEvent ==
  /\ ~busy /\ curTL < MaxTime /\ plan[curTL] = 0
  /\ curTL' = curTL + 1
  /\ UNCHANGED <<clientVars, win, wire, probes, request, swin, resizing, used,
                 ring, held, lastTL, busy, sepoch, processed, stale>>

(* The client is gone and the last event processed: both really stop here.   *)
Finished == /\ pc = "released" /\ curTL > MaxTime
            /\ UNCHANGED vars

-----------------------------------------------------------------------------
Next ==
  \/ SkipTimeline \/ SendEvent \/ BufferNotFree \/ OthersNotFree
  \/ \E size \in FixSizes : FixBufferSize(size)
  \/ IssueSend \/ TestSend
  \/ ResizeBufferNotify \/ IsNotifiedChangeBufferSize \/ ResizeBuffer
  \/ HavePendingRequests \/ IsNotifiedFinalized
  \/ Listen \/ AcceptProbe
  \/ ReceiveEvents \/ ReceiveNotify \/ ReceiveChange
  \/ GetBufferFromClient \/ StartEvent \/ EndEvent \/ OtherEvent
  \/ Finished

(* The client loops in getBuffers and in finalize, the server in its event   *)
(* loop; a message is sure to be accepted only in an empty ring.             *)
Fairness ==
  /\ WF_vars(SkipTimeline) /\ WF_vars(SendEvent) /\ WF_vars(BufferNotFree)
  /\ WF_vars(IssueSend) /\ WF_vars(TestSend)
  /\ WF_vars(ResizeBufferNotify) /\ WF_vars(IsNotifiedChangeBufferSize)
  /\ WF_vars(ResizeBuffer)
  /\ WF_vars(HavePendingRequests) /\ WF_vars(IsNotifiedFinalized)
  /\ WF_vars(Listen) /\ WF_vars(used = 0 /\ AcceptProbe)
  /\ WF_vars(ReceiveEvents) /\ WF_vars(ReceiveNotify) /\ WF_vars(ReceiveChange)
  /\ WF_vars(GetBufferFromClient)
  /\ WF_vars(StartEvent) /\ WF_vars(EndEvent) /\ WF_vars(OtherEvent)

Spec == Init /\ [][Next]_vars /\ Fairness

-----------------------------------------------------------------------------
Item == [at : Nat, tl : 1 .. Change, size : Nat \ {0}, arg : Nat, addr : Nat]
Window == [tl : 0 .. Change, cnt : Nat, notify : {Nothing, Resize, Finalize},
           mem : SUBSET Item]
Message == [n : Nat, items : SUBSET Item]

TypeOK ==
  /\ pureOneSided \in BOOLEAN
  /\ plan \in [1 .. MaxTime -> 0 .. MaxSize] /\ nextTL \in 1 .. MaxTime + 1
  /\ pc \in {"open", "drain", "wait", "released"} /\ blocked \in BOOLEAN
  /\ cur \in {0, 1} /\ count \in Nat /\ pending \in BOOLEAN /\ step \in 0 .. 4
  /\ win \in [{0, 1} -> Window]
  /\ bufSize \in Nat \ {0} /\ newSize \in Nat /\ epoch \in Nat
  /\ growable \in BOOLEAN /\ fixed \in BOOLEAN
  /\ wire \in Seq(Message) /\ probes \in Seq(Message) /\ request \in Seq(Message)
  /\ swin \in {0, 1} /\ resizing \in BOOLEAN /\ used \in Nat /\ ring \in Nat
  /\ held \in SUBSET Item
  /\ curTL \in 1 .. MaxTime + 1 /\ lastTL \in 0 .. MaxTime /\ busy \in BOOLEAN
  /\ sepoch \in Nat /\ stale \in BOOLEAN
  /\ accepted \in Seq(1 .. MaxTime) /\ processed \in Seq(1 .. MaxTime)
  /\ offset \in Seq(Nat)

(* Every event handed over in order exactly once, whichever of the two ways  *)
(* its bytes went, and whatever resizes happened; the client is released     *)
(* after the last: the detailed channel implements the abstract one.         *)
Channel == INSTANCE EventChannel WITH Timelines <- 1 .. MaxTime,
                                      released <- (pc = "released")
ReliableChannel == Channel!Spec

(* No message has left the window whose bytes are not yet parsed.            *)
NothingOnTheWay == wire = <<>> /\ probes = <<>> /\ request = <<>>

(* With nothing on the way, the server looks in the very window the client   *)
(* writes; and while it holds back for a resize the client has yet to make,  *)
(* its answer is in the window where the client looks for it.                *)
WindowsAgree ==
  NothingOnTheWay =>
    IF resizing THEN step = 2 => win[cur].notify = Resize ELSE swin = cur

(* A control message travels alone: the server pops, or frees, all the bytes *)
(* of the message it came in.                                                *)
ControlAlone ==
  \A s \in {wire, probes, request} : \A k \in DOMAIN s :
    \A i, j \in s[k].items : IsControl(i) => i = j

(* The server never reaches for a window that has been detached.             *)
NoStaleAccess == ~stale

(* The client's copy of the count is the shared one, or the server has taken *)
(* the bytes; the window turned away from is empty; remain() never wraps.    *)
LocalCountSafe == /\ win[cur].cnt \in {0, count}
                  /\ win[Other(cur)].cnt = 0
                  /\ count <= bufSize

(* The ring holds the events received and not yet processed, and its used    *)
(* counter is their bytes and those of the message being received: no byte   *)
(* leaks through pops, resizes and the one-sided path.                       *)
HeldBytes == IF curTL <= lastTL THEN offset[lastTL + 1] - offset[curTL] ELSE 0
RingAccounted ==
  /\ \A item \in held : item.tl \in curTL .. lastTL /\ item.size = plan[item.tl]
  /\ \A t \in curTL .. lastTL : plan[t] > 0 => \E item \in held : item.tl = t
  /\ \A i, j \in held : i.tl = j.tl => i = j
  /\ used = HeldBytes + (IF request = <<>> THEN 0 ELSE Head(request).n)

(* The two ends of the legacy transport agree without talking: on the window *)
(* the client writes, on its byte count and on the ring's used bytes, though *)
(* each side turns its windows, clears its counters and resizes at times of  *)
(* its own; a control message travels alone, and no detached window is used  *)
(* (legacy_context_server.cpp:213).                                          *)
LegacyEndsAgree ==
  TypeOK /\ WindowsAgree /\ ControlAlone /\ NoStaleAccess /\ LocalCountSafe /\ RingAccounted

(* The ring a resize deletes holds no sub-event still to be processed.       *)
DeletedRingEmpty == [][resizing /\ ~resizing' => held = {} /\ held' = {}]_vars

(* A resize, once begun, ends: no lost notification leaves the client frozen. *)
ResizeEnds == step > 0 ~> step = 0

-----------------------------------------------------------------------------
(* Why it holds.  What the client has written passes through three stages:   *)
(* the window, the way to the server, its reception.  Each holds at most one *)
(* message.                                                                  *)
Between == IF wire # <<>> THEN wire ELSE probes
InWindow == IF win[cur].cnt = 0 THEN <<>> ELSE <<Contents(win[cur])>>
Stages == 1 .. 3
Stage(k) == IF k = 1 THEN request ELSE IF k = 2 THEN Between ELSE InWindow
Empty(k) == Stage(k) = <<>>

(* A message is of events, or the one or the other control message.          *)
IsNotify(m) ==
  m.items = {[at |-> 0, tl |-> Notify, size |-> CtlSize, arg |-> 0, addr |-> 0]}
IsChange(m) ==
  \E i \in m.items : /\ m.items = {i} /\ i.at = 0 /\ i.tl = Change
                     /\ i.arg > 0 /\ i.addr = epoch

(* Events follow one another in a message as they do in the stream, and none *)
(* of them has been seen by the server.                                      *)
IsEvents(m) ==
  /\ \A i \in m.items : /\ i.tl < nextTL /\ i.tl > lastTL /\ i.tl >= curTL
                        /\ i.size = plan[i.tl] /\ i.at + i.size <= m.n
  /\ \A i, j \in m.items : /\ i.tl = j.tl => i = j
                           /\ j.at - i.at = offset[j.tl] - offset[i.tl]
  /\ \E i \in m.items : i.at = 0
  /\ \E i \in m.items : i.at + i.size = m.n

NotifyIn(k) == ~Empty(k) /\ IsNotify(Head(Stage(k)))
ChangeIn(k) == ~Empty(k) /\ IsChange(Head(Stage(k)))
EventsIn(k) == ~Empty(k) /\ IsEvents(Head(Stage(k)))
Waits(k, t) == ~Empty(k) /\ \E i \in Head(Stage(k)).items : i.tl = t

(* What is where.                                                            *)
StagesKept ==
  /\ Len(request) <= 1 /\ Len(wire) + Len(probes) <= 1
  /\ ~Empty(2) => pending
  /\ \A k \in Stages : ~Empty(k) => EventsIn(k) \/ NotifyIn(k) \/ ChangeIn(k)
  /\ \A k \in Stages : NotifyIn(k) \/ ChangeIn(k) => Head(Stage(k)).n = CtlSize
  /\ \A j, k \in Stages : j < k /\ EventsIn(j) /\ EventsIn(k) =>
       \A a \in Head(Stage(j)).items, b \in Head(Stage(k)).items : a.tl < b.tl
  /\ pc \in {"wait", "released"} => ~pending /\ Empty(3)

(* No event is lost: an event accepted is on its way until it is in the      *)
(* ring, and those of the past have all been in it.                          *)
NoneLost ==
  /\ lastTL < nextTL
  /\ \A t \in 1 .. nextTL - 1 :
       plan[t] > 0 /\ t > lastTL => t >= curTL /\ \E k \in Stages : Waits(k, t)
  /\ \A t \in 1 .. MaxTime : plan[t] > 0 /\ t < curTL => t <= lastTL
  /\ busy => \E item \in held : IsCurrent(item)

(* The stream of the client's bytes.                                         *)
OffsetsRight ==
  /\ Len(offset) = nextTL
  /\ \A t \in 1 .. nextTL - 1 : offset[t + 1] = offset[t] + plan[t]
  /\ \A s, t \in 1 .. nextTL : s <= t => offset[s] <= offset[t]
  /\ \A s, t \in 1 .. nextTL :
       s <= t /\ (\A u \in s .. t - 1 : plan[u] = 0) => offset[s] = offset[t]

(* The word of the window that is for the server: the first event it holds,  *)
(* or none.                                                                  *)
WordsRight ==
  /\ \A w \in {0, 1} : win[w].cnt = 0 => win[w].tl = 0
  /\ win[cur].tl \in 1 .. MaxTime => EventsIn(3)

(* The dialogue of a resize.  In step 2 the notification is on its way, or   *)
(* has been answered; in step 4 the change is in the window.                 *)
Answered == \A k \in Stages : Empty(k)
DialogueKept ==
  /\ \A k \in Stages : NotifyIn(k) => step = 2 /\ \A j \in Stages : j > k => Empty(j)
  /\ \A k \in Stages : ChangeIn(k) => /\ \A j \in Stages : j < k => Empty(j)
                                      /\ resizing /\ lastTL < MaxTime
                                      /\ epoch = sepoch + 1
                                      /\ cur = CASE k = 3 -> 0 [] k = 2 -> 1
                                                 [] OTHER -> IF Empty(2) THEN 1 ELSE 0
  /\ ChangeIn(1) => held = {}
  /\ ChangeIn(3) <=> step = 4
  /\ step = 2 => (\E k \in Stages : NotifyIn(k)) \/ (Answered /\ resizing /\ win[cur].notify = Resize)
  /\ step = 3 => Answered /\ resizing
  /\ step > 0 => pc = "open" /\ (blocked \/ fixed)
  /\ step \in 1 .. 3 => newSize > 0
  /\ resizing => step = 3 \/ (step = 2 /\ Answered) \/ \E k \in Stages : ChangeIn(k)
  /\ (\A k \in Stages : ~ChangeIn(k)) /\ pc # "released" => epoch = sepoch
  /\ \A w \in {0, 1} : win[w].notify = Resize => w = cur /\ step = 2 /\ Answered

(* Which window each side uses, whatever is between them.                    *)
TurnsKept ==
  ~resizing => (swin = cur <=> (Empty(1) <=> Empty(2)))

(* The end: acknowledged after the last event was started.                   *)
EndKept ==
  /\ pc = "open" <=> nextTL <= MaxTime
  /\ plan[MaxTime] > 0
  /\ blocked => pc = "open"
  /\ \A w \in {0, 1} : win[w].notify = Finalize => curTL > MaxTime \/ (curTL = MaxTime /\ busy)
  /\ pc = "released" => curTL > MaxTime \/ (curTL = MaxTime /\ busy)

(* The events accepted, and those of them that have been handed over.        *)
Handed(t) == plan[t] > 0 /\ (t < curTL \/ (t = curTL /\ busy))
HistoryKept ==
  /\ \A i \in DOMAIN accepted : accepted[i] < nextTL /\ plan[accepted[i]] > 0
  /\ \A i, j \in DOMAIN accepted : i < j => accepted[i] < accepted[j]
  /\ \A t \in 1 .. nextTL - 1 : plan[t] > 0 => \E i \in DOMAIN accepted : accepted[i] = t
  /\ Len(processed) <= Len(accepted)
  /\ \A i \in DOMAIN processed : processed[i] = accepted[i] /\ Handed(processed[i])
  /\ \A t \in 1 .. MaxTime : Handed(t) => \E i \in DOMAIN processed : processed[i] = t

LegacyInv ==
  /\ TypeOK /\ StagesKept /\ NoneLost /\ OffsetsRight /\ WordsRight /\ DialogueKept
  /\ TurnsKept /\ EndKept /\ HistoryKept /\ NoStaleAccess /\ LocalCountSafe /\ RingAccounted
=============================================================================
