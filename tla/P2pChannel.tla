------------------------------ MODULE P2pChannel -----------------------------
(* The peer-to-peer transport between one client rank and one server rank     *)
(* (src/src/transport/p2p_{client,server}_buffer.cpp, p2p_context_*.cpp).  An *)
(* event is copied into the client's chain of circular buffers as a few blocs *)
(* of contiguous bytes; each bloc leaves in a synchronous send, and a header  *)
(* tells the server the blocs' sizes and the buffer each is in.  The server   *)
(* keeps a chain that mirrors the client's and posts a receive for each bloc  *)
(* when the mirror has room.  The client frees a bloc when its send is        *)
(* complete, that is when the receive is posted; the server when its event is *)
(* processed.  Timelines in which this client has nothing for this server are *)
(* left out: they send nothing.                                               *)
EXTENDS BufferChain

CONSTANTS
  MaxTime,      \* the timeline of the context's finalize event, the last one
  Sizes,        \* sizes of the events
  FixSizes,     \* sizes closeDefinition may fix the buffers to
  MaxBuffers,   \* maxWindows_
  MaxSent       \* maxSentBlocRequests_

P2pAssumption ==
  /\ MaxTime \in Nat \ {0} /\ MaxBuffers \in Nat \ {0} /\ MaxSent \in Nat
  /\ Sizes \subseteq Nat \ {0} /\ FixSizes \subseteq Nat \ {0}

VARIABLES
  (* the client rank *)
  nextTL,       \* timeLine, of the next event
  pc,           \* "open", then "drain" and "wait" in finalize, then "released"
  chain,        \* buffers_, oldest first
  mirror,       \* currentMirror_: the window of the last buffer
  blocs,        \* blocs_, oldest first, and their requests, sentBlocRequest_
  bufSize,      \* currentBufferSize_
  fixSize,      \* fixedSize_, 0 while fixed_ is false
  finalized,    \* isFinalized_
  (* between the ranks *)
  wire,         \* messages of tag 20
  matched,      \* how many of the client's blocs have their receive posted
  notified,     \* the message of tag 22 has been sent
  (* the server rank *)
  pending,      \* pendingBlocs_: headers of the events not yet received
  resizes,      \* bufferResize_: [tl, size]
  schain,       \* buffers_ of the server, oldest first
  deleted,      \* countDeletedBuffers_
  moving,       \* onTransferEvents_: the event whose receives are posted
  completed,    \* completedEvents_
  curTL,        \* currentTimeLine
  fault         \* what went wrong in transferEvent

clientVars == <<nextTL, pc, chain, mirror, blocs, bufSize, fixSize, finalized>>
serverVars == <<pending, resizes, schain, deleted, moving, completed, curTL, fault>>
vars == <<clientVars, wire, matched, notified, serverVars>>

Init ==
  /\ nextTL = 1 /\ pc = "open" /\ chain = <<>> /\ mirror = -1 /\ blocs = <<>>
  /\ bufSize = 0 /\ fixSize = 0 /\ finalized = FALSE
  /\ wire = <<>> /\ matched = 0 /\ notified = FALSE
  /\ pending = <<>> /\ resizes = <<>> /\ schain = <<>> /\ deleted = 0
  /\ moving = <<>> /\ completed = <<>> /\ curTL = 1 /\ fault = "none"

-----------------------------------------------------------------------------
(* Variants a slip in the code would produce.                                 *)
AnnouncedIfGrowable(size) ==
  IF size = bufSize \/ fixSize > 0 THEN <<>>
  ELSE <<[kind |-> "resize", tl |-> nextTL, size |-> size]>>
FreeBlocAndFront(c, bloc) ==
  LET i == bloc.window - mirror + Len(c)
      d == [c EXCEPT ![i] = FreedOf(@, bloc.at, bloc.count)]
  IN  IF Len(d) > 1 THEN Tail(d) ELSE d
NeverDropped(c) == c

(* The client rank.                                                           *)

(* A fixed buffer waits for room, unless the event could never fit.           *)
RoomInFixed(n) ==
  LET b == Last(chain)
  IN  b.size - b.cnt >= n \/ ~b.fixed \/ n > b.size

IsBufferFree(n) ==
  /\ Len(blocs) <= MaxSent
  /\ Len(chain) <= MaxBuffers - 1
  /\ chain # <<>> /\ fixSize > 0 => RoomInFixed(n)

(* What an event puts in the last buffer of the chain, and what is left.      *)
InLast(n) == IF chain = <<>> THEN [chain |-> <<>>, left |-> n, blocs |-> <<>>]
             ELSE LET w == WrittenTwice(Last(chain), n, mirror)
                  IN  [chain |-> Append(Front(chain), w.buf), left |-> w.left, blocs |-> w.blocs]

(* currentBufferSize_ after the loop of writeBuffer, which makes new buffers  *)
(* of that size for the bytes left: the first of a growable chain is made for *)
(* the event.                                                                 *)
NewSize(left) == IF left = 0 THEN bufSize
                 ELSE IF fixSize > 0 THEN fixSize
                 ELSE IF chain = <<>> THEN (IF bufSize = 0 THEN left ELSE bufSize)
                 ELSE Grown(bufSize, left)

(* sendTimelineEvent: the header, its blocs being sent before it.              *)
TimelineEvent(bls) == <<[kind |-> "event", tl |-> nextTL, blocs |-> bls]>>

(* sendResizeBufferEvent, when currentBufferSize_ is not what it was.         *)
ResizeEvent(size) ==
  IF size = bufSize THEN <<>> ELSE <<[kind |-> "resize", tl |-> nextTL, size |-> size]>>

(* writeEvent: the blocs, their sends, and the headers.                       *)
WriteEvent(n) ==
  /\ pc = "open" /\ IsBufferFree(n)
  /\ \E last \in {InLast(n)} : \E size \in {NewSize(last.left)} :
     \E new \in {NewBuffers(size, last.left, fixSize > 0)},
        bls \in {last.blocs \o NewBlocs(size, last.left, mirror)} :
       /\ chain' = last.chain \o new
       /\ mirror' = mirror + Len(new)
       /\ blocs' = blocs \o bls
       /\ bufSize' = size
       /\ wire' = wire \o ResizeEvent(size) \o TimelineEvent(bls)
  /\ nextTL' = nextTL + 1
  /\ pc' = IF nextTL = MaxTime THEN "drain" ELSE pc
  /\ UNCHANGED <<fixSize, finalized, matched, notified, serverVars>>

(* setFixed, from setBufferSize at the end of closeDefinition.                *)
SetFixed(size) ==
  /\ pc = "open" /\ fixSize = 0
  /\ fixSize' = size
  /\ UNCHANGED <<nextTL, pc, chain, mirror, blocs, bufSize, finalized, wire, matched,
                 notified, serverVars>>

(* freeBloc: the bloc's buffer, then the oldest buffer if that one is empty.  *)
FreeBloc(c, bloc) ==
  LET i == bloc.window - mirror + Len(c)
      d == [c EXCEPT ![i] = FreedOf(@, bloc.at, bloc.count)]
  IN  IF d[i].cnt = 0 /\ Len(d) > 1 THEN Tail(d) ELSE d

(* freeBuffer: once notified, an empty oldest buffer goes too.                *)
DropLast(c) == IF finalized /\ c # <<>> /\ Head(c).cnt = 0 THEN Tail(c) ELSE c

(* eventLoop: the first k requests of the list are found complete, in order.  *)
(* The message of the end may be noticed, after that.                         *)
EventLoop(k, sees) ==
  /\ pc # "released"
  /\ k <= matched
  /\ chain' = DropLast(Folded(FreeBloc, chain, SubSeq(blocs, 1, k)))
  /\ blocs' = SubSeq(blocs, k + 1, Len(blocs))
  /\ matched' = matched - k
  /\ finalized' = (finalized \/ (sees /\ notified))
  /\ UNCHANGED <<nextTL, pc, mirror, bufSize, fixSize, wire, notified, serverVars>>

(* finalize: havePendingRequests, then isNotifiedFinalized, then the buffers  *)
(* are released.                                                              *)
Drained ==
  /\ pc = "drain" /\ blocs = <<>>
  /\ pc' = "wait"
  /\ UNCHANGED <<nextTL, chain, mirror, blocs, bufSize, fixSize, finalized, wire,
                 matched, notified, serverVars>>

IsNotifiedFinalized ==
  /\ pc = "wait" /\ chain = <<>> /\ finalized
  /\ pc' = "released"
  /\ UNCHANGED <<nextTL, chain, mirror, blocs, bufSize, fixSize, finalized, wire,
                 matched, notified, serverVars>>

-----------------------------------------------------------------------------
(* The server rank.                                                           *)

(* listen and receivedRequest: the requests are treated in their order.       *)
ReceivedRequest ==
  /\ wire # <<>>
  /\ IF Head(wire).kind = "resize"
     THEN /\ resizes' = Append(resizes, [tl |-> Head(wire).tl, size |-> Head(wire).size])
          /\ UNCHANGED pending
     ELSE /\ pending' = Append(pending, [tl |-> Head(wire).tl, blocs |-> Head(wire).blocs])
          /\ UNCHANGED resizes
  /\ wire' = Tail(wire)
  /\ UNCHANGED <<clientVars, matched, notified, schain, deleted, moving, completed, curTL,
                 fault>>

Missing(w, c, d) == w - d \notin 0 .. Len(c) - 1

(* Bytes of the event the earlier blocs take in the same buffer.              *)
TakenBefore(bls, i) ==
  FoldLeft(LAMBDA n, j : IF bls[j].window = bls[i].window THEN n + bls[j].count ELSE n,
           0, [j \in 1 .. i - 1 |-> j])

(* transferEvents: there is room for every bloc, a buffer that does not exist *)
(* having room as soon as any resize is waiting.                              *)
SpaceForAllBlocs(bls, c, d, orders) ==
  \A i \in DOMAIN bls :
    LET w == bls[i].window IN
    IF Missing(w, c, d) THEN orders # <<>>
    ELSE bls[i].count <= Remain(c[w - d + 1]) - TakenBefore(bls, i)

(* transferEvent, for one bloc of the event of timeline tl: the missing       *)
(* buffer is made, the bloc's place is reserved and its receive posted.  When *)
(* the buffer is still missing the code indexes past the end of buffers_; when *)
(* reserve has no room it raises an error or is called for ever.              *)
Transferred(tl, s, bloc) ==
  LET makes == /\ Missing(bloc.window, s.schain, s.deleted)
               /\ s.resizes # <<>> /\ Head(s.resizes).tl = tl
      c == IF makes THEN Append(s.schain, EmptyBuffer(Head(s.resizes).size, FALSE))
           ELSE s.schain
      i == bloc.window - s.deleted + 1
  IN  IF s.fault # "none" THEN s
      ELSE IF Missing(bloc.window, c, s.deleted) THEN [s EXCEPT !.fault = "out of range"]
      ELSE IF ReserveFails(c[i], bloc.count) THEN [s EXCEPT !.fault = "no room"]
      ELSE [s EXCEPT !.schain = [c EXCEPT ![i] = Reserved(@, bloc.count)],
                     !.resizes = IF makes THEN Tail(@) ELSE @,
                     !.moving = Append(@, [window |-> bloc.window, count |-> bloc.count,
                                           from |-> bloc.at,
                                           at |-> Place(c[i], bloc.count)])]

(* transferEvents, on the oldest header.                                      *)
TransferEvents(s) ==
  LET tl == Head(s.pending).tl
      bls == Head(s.pending).blocs
  IN  IF s.moving # <<>> \/ s.pending = <<>> THEN s
      ELSE IF ~SpaceForAllBlocs(bls, s.schain, s.deleted, s.resizes) THEN s
      ELSE [Folded(LAMBDA r, bloc : Transferred(tl, r, bloc), s, bls)
              EXCEPT !.pending = Tail(@)]

(* testPendingRequests: one event at a time is moving, in the order of their  *)
(* timelines; MPI_Testall may find a receive that is not complete yet.        *)
TestPendingRequests(s) ==
  IF s.moving = <<>> THEN {s}
  ELSE {s, [s EXCEPT !.completed = Append(@, s.moving), !.moving = <<>>]}

DeleteFront(s) ==
  IF Len(s.schain) > 1 /\ Head(s.schain).cnt = 0
  THEN [s EXCEPT !.schain = Tail(@), !.deleted = @ + 1] ELSE s

(* The states eventLoop of the server's buffer may leave it in.               *)
Looped(s) ==
  {DeleteFront(u) : u \in {TransferEvents(t) : t \in TestPendingRequests(s)}}

(* fillEventServer: each bloc is copied and freed; the oldest buffer goes if  *)
(* the bloc's own is empty and another was made.                              *)
FreeServerBloc(s, bloc) ==
  LET i == bloc.window - s.deleted + 1
      c == [s.schain EXCEPT ![i] = FreedOf(@, bloc.at, bloc.count)]
  IN  IF c[i].cnt = 0 /\ Len(c) > 1
      THEN [s EXCEPT !.schain = Tail(c), !.deleted = @ + 1]
      ELSE [s EXCEPT !.schain = c]

Filled(s) == [Folded(FreeServerBloc, s, Head(s.completed)) EXCEPT !.completed = Tail(@)]

Server == [pending |-> pending, resizes |-> resizes, schain |-> schain, deleted |-> deleted,
           moving |-> moving, completed |-> completed, fault |-> fault]

ServerBecomes(s) ==
  /\ pending' = s.pending /\ resizes' = s.resizes /\ schain' = s.schain
  /\ deleted' = s.deleted /\ moving' = s.moving /\ completed' = s.completed
  /\ fault' = s.fault
  /\ matched' = matched + IF s.pending = pending THEN 0 ELSE Len(s.moving)

(* checkBuffers: while an event of this client is in pendingEvents_.          *)
CheckBuffers ==
  /\ fault = "none"
  /\ pending # <<>> \/ moving # <<>>
  /\ \E s \in Looped(Server) : ServerBecomes(s)
  /\ UNCHANGED <<clientVars, wire, notified, curTL>>

(* processEvents, when the event of the current timeline is complete and the  *)
(* scheduler lets it through.  The context's finalize is the last one.        *)
ProcessEvent ==
  /\ fault = "none"
  /\ completed # <<>>
  /\ \E s \in Looped(Filled(Server)) : ServerBecomes(s)
  /\ curTL' = curTL + 1
  /\ UNCHANGED <<clientVars, wire, notified>>

(* dispatchEvent of the finalize event: notifyClientsFinalize.                *)
NotifyClientFinalize ==
  /\ fault = "none"
  /\ curTL = MaxTime + 1 /\ ~notified
  /\ \E s \in Looped(Server) : ServerBecomes(s)
  /\ notified' = TRUE
  /\ UNCHANGED <<clientVars, wire, curTL>>

Next ==
  \/ \E n \in Sizes : WriteEvent(n)
  \/ \E n \in FixSizes : SetFixed(n)
  \/ \E k \in 0 .. Len(blocs), sees \in BOOLEAN : EventLoop(k, sees)
  \/ Drained \/ IsNotifiedFinalized
  \/ ReceivedRequest
  \/ CheckBuffers \/ ProcessEvent \/ NotifyClientFinalize

(* The client's loops call eventLoop until they may leave, the server's loop  *)
(* calls all of its steps, and MPI completes what is matched.                 *)
Fairness ==
  /\ WF_vars(\E n \in Sizes : WriteEvent(n))
  /\ WF_vars(\E k \in 1 .. Len(blocs), sees \in BOOLEAN : EventLoop(k, sees))
  /\ WF_vars(EventLoop(0, TRUE))
  /\ WF_vars(Drained) /\ WF_vars(IsNotifiedFinalized) /\ WF_vars(ReceivedRequest)
  /\ WF_vars(CheckBuffers) /\ WF_vars(ProcessEvent)
  /\ WF_vars(NotifyClientFinalize)

Spec == Init /\ [][Next]_vars /\ Fairness

-----------------------------------------------------------------------------
Buffers == [start : Nat, end : Nat, cnt : Nat, size : Nat, fixed : BOOLEAN]
Blocs == [window : Nat, at : Nat, count : Nat]
Placed == [window : Nat, at : Nat, count : Nat, from : Nat]
Headers == [tl : 1 .. MaxTime, blocs : Seq(Blocs)]

(* Every variable holds a value of the kind the code gives it.                *)
TypeOK ==
  /\ nextTL \in 1 .. MaxTime + 1 /\ pc \in {"open", "drain", "wait", "released"}
  /\ chain \in Seq(Buffers) /\ mirror \in -1 .. MaxTime * MaxBuffers
  /\ blocs \in Seq(Blocs) /\ bufSize \in Nat /\ fixSize \in FixSizes \cup {0}
  /\ finalized \in BOOLEAN /\ notified \in BOOLEAN
  /\ \A i \in DOMAIN wire : wire[i].kind \in {"resize", "event"} /\ wire[i].tl \in 1 .. MaxTime
  /\ matched \in 0 .. Len(blocs)
  /\ pending \in Seq(Headers) /\ resizes \in Seq([tl : 1 .. MaxTime, size : Nat])
  /\ schain \in Seq(Buffers) /\ deleted \in Nat
  /\ moving \in Seq(Placed) /\ completed \in Seq(Seq(Placed))
  /\ curTL \in 1 .. MaxTime + 1 /\ fault \in {"none", "out of range", "no room"}

Held == FoldLeft(LAMBDA x, y : x \o y, <<>>, completed) \o moving

(* A bloc the server takes always has its place: transferEvents lets through  *)
(* no event whose blocs would index past buffers_, hit the ERROR of reserve   *)
(* or keep the loop of transferEvent from ending.                             *)
TransferSucceeds == fault = "none"

(* "Server buffers get blocs from clients, they should not be splitted        *)
(* (mirrors the client buffers)": a bloc is stored at the offset it had in    *)
(* the client's buffer, though each side frees at times of its own.           *)
SamePlace == \A i \in DOMAIN Held : Held[i].at = Held[i].from

(* No two blocs that are still needed share bytes: on the client those whose  *)
(* send is not known complete, on the server those of events not processed.   *)
NoOverwrite ==
  \A s \in {blocs, Held} : \A i, j \in DOMAIN s : i # j => ~Overlap(s[i], s[j])

BytesIn(s, w) ==
  FoldLeft(LAMBDA n, b : IF b.window = w THEN n + b.count ELSE n, 0, s)

(* Each chain's counts are those of the blocs it holds, all of them in        *)
(* buffers of the chain: deleting the oldest buffer when a bloc's own becomes *)
(* empty never deletes one in use (the ERROR of both destructors).            *)
ChainsAccounted ==
  /\ \A i \in DOMAIN chain : chain[i].cnt = BytesIn(blocs, mirror - Len(chain) + i)
  /\ \A i \in DOMAIN blocs : blocs[i].window \in mirror - Len(chain) + 1 .. mirror
  /\ \A i \in DOMAIN schain : schain[i].cnt = BytesIn(Held, deleted + i - 1)
  /\ \A i \in DOMAIN Held : ~Missing(Held[i].window, schain, deleted)

Announcements ==
  Len(resizes) + Len(SelectSeq(wire, LAMBDA m : m.kind = "resize"))

(* Every buffer of the client has its mirror on the server, or a resize on    *)
(* its way that will make it.                                                 *)
BuffersMirrored == mirror + 1 = deleted + Len(schain) + Announcements

Channel == INSTANCE EventChannel WITH
  Timelines <- 1 .. MaxTime,
  accepted  <- [i \in 1 .. nextTL - 1 |-> i],
  processed <- [i \in 1 .. curTL - 1 |-> i],
  released  <- pc = "released"

(* Each event is processed once, in order, the client is released after the   *)
(* last one, and all of it eventually happens.                                *)
ImplementsChannel == Channel!Spec
=============================================================================
