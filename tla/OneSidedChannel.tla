---------------------------- MODULE OneSidedChannel --------------------------
(* The one-sided transport between one client rank and one server rank        *)
(* (src/src/transport/one_sided_{client,server}_buffer.cpp and the contexts). *)
(* The client copies an event into its chain of circular buffers, attached to *)
(* windows used in turn, and sends the addresses of its blocs.  The server    *)
(* fetches all the events it knows of by MPI_Rget, into a chain of its own.   *)
(* When an event has been processed it keeps the address of its last bloc,    *)
(* and puts it in the client's control word once no get is in flight; the     *)
(* client reads and clears the word, and frees its blocs up to that one.      *)
EXTENDS BufferChain

CONSTANTS
  MaxTime,      \* the timeline of the context's finalize event, the last one
  Sizes,        \* sizes of the events
  FixSizes,     \* sizes closeDefinition may fix the buffers to
  MaxWindows    \* maxWindows_

OneSidedAssumption ==
  /\ MaxTime \in Nat \ {0} /\ MaxWindows \in Nat \ {0}
  /\ Sizes \subseteq Nat \ {0} /\ FixSizes \subseteq Nat \ {0}

VARIABLES
  (* the client rank *)
  nextTL,       \* timeLine, of the next event
  pc,           \* "open", then "drain" and "wait" in finalize, then "released"
  chain,        \* buffers_, oldest first
  last,         \* rank of the last buffer made: its window is that modulo MaxWindows
  used,         \* usedWindows_
  blocs,        \* blocs_, oldest first; window is the rank of the bloc's buffer
  bufSize,      \* currentBufferSize_
  fixSize,      \* fixedSize_, 0 while fixed_ is false
  finalized,    \* isFinalized_
  clash,        \* newBuffer met the ERROR of a window already in use
  (* between the ranks *)
  wire,         \* messages of tag 20
  control,      \* control_: an address, NoAddr for 0, and the finalize word
  (* the server rank *)
  pending,      \* pendingBlocs_
  resizes,      \* bufferResize_
  schain,       \* buffers_ of the server, oldest first
  made,         \* rank of the last buffer the server made
  sSize,        \* currentBufferSize_ of the server
  moving,       \* onTransferEvents_: the windows are locked while there is one
  completed,    \* completedEvents_
  toFree,       \* lastBlocToFree_
  curTL         \* currentTimeLine

clientVars == <<nextTL, pc, chain, last, used, blocs, bufSize, fixSize, finalized, clash>>
serverVars == <<pending, resizes, schain, made, sSize, moving, completed, toFree, curTL>>
vars == <<clientVars, wire, control, serverVars>>

NoAddr == <<>>
WindowOf(rank) == rank % MaxWindows

(* The memory of a buffer may be where that of an older one of its window was. *)
AddrOf(bloc) == <<WindowOf(bloc.window), bloc.at>>

Init ==
  /\ nextTL = 1 /\ pc = "open" /\ chain = <<>> /\ last = -1 /\ used = {} /\ blocs = <<>>
  /\ bufSize = 0 /\ fixSize = 0 /\ finalized = FALSE /\ clash = FALSE
  /\ wire = <<>> /\ control = [addr |-> NoAddr, finalize |-> FALSE]
  /\ pending = <<>> /\ resizes = <<>> /\ schain = <<>> /\ made = -1 /\ sSize = 0
  /\ moving = <<>> /\ completed = <<>> /\ toFree = NoAddr /\ curTL = 1

(* The buffer of rank r in a chain whose last buffer has rank l.              *)
At(c, l, r) == r - l + Len(c)

(* What n bytes put in the last buffer of a chain, and what is left of them.  *)
InLast(c, l, n) ==
  IF c = <<>> THEN [chain |-> <<>>, left |-> n, blocs |-> <<>>]
  ELSE LET w == WrittenTwice(Last(c), n, l)
       IN  [chain |-> Append(Front(c), w.buf), left |-> w.left, blocs |-> w.blocs]

(* Variants a slip in the code would produce.                                 *)
KeepWindow(s, bloc) ==
  LET i == At(s.chain, last, bloc.window)
      c == [s.chain EXCEPT ![i] = FreedOf(@, bloc.at, bloc.count)]
  IN  [s EXCEPT !.chain = IF c[i].cnt = 0 /\ Len(c) > 1 THEN Tail(c) ELSE c]
FreeLonger(s, bloc) ==
  LET i == At(s.chain, last, bloc.window)
  IN  [s EXCEPT !.chain[i] = FreedWithGap(@, bloc.at, bloc.count)]
FreedAll(addr) == IF addr = NoAddr THEN 0 ELSE Len(blocs)
PutAndKeep(s) ==
  IF s.moving = <<>> /\ s.toFree # NoAddr THEN [s EXCEPT !.control.addr = s.toFree] ELSE s
PutIfClear(s) ==
  IF s.moving = <<>> /\ s.toFree # NoAddr
  THEN [s EXCEPT !.control.addr = IF @ = NoAddr THEN s.toFree ELSE @, !.toFree = NoAddr] ELSE s
FreePartAndFront(s, part) ==
  LET i == At(s.schain, s.made, part.window)
      c == [s.schain EXCEPT ![i] = FreedOf(@, part.at, part.count)]
  IN  [s EXCEPT !.schain = IF Len(c) > 1 THEN Tail(c) ELSE c]
TransferLastPart(s, bloc) ==
  CHOOSE r \in
    { [s EXCEPT !.sSize = IF in.left = 0 THEN @ ELSE MaxOf(@, in.left),
                !.made = IF in.left = 0 THEN @ ELSE @ + 1,
                !.schain = in.chain \o NewBuffers(MaxOf(s.sSize, in.left), in.left, FALSE),
                !.parts = Append(@, Last(in.blocs \o NewBlocs(MaxOf(s.sSize, in.left),
                                                              in.left, s.made)))] :
      in \in {InLast(s.schain, s.made, bloc.count)} } : TRUE

-----------------------------------------------------------------------------
(* The client rank.                                                           *)

RoomInFixed(n) ==
  LET b == Last(chain)
  IN  b.size - b.cnt >= n \/ ~b.fixed \/ n > b.size

IsBufferFree(n) ==
  /\ Len(chain) <= MaxWindows - 1
  /\ chain # <<>> /\ fixSize > 0 => RoomInFixed(n)

(* The size of the buffers writeBuffer makes for the bytes left.              *)
NewSize(left) == IF fixSize > 0 THEN fixSize
                 ELSE IF chain = <<>> THEN (IF bufSize = 0 THEN left ELSE bufSize)
                 ELSE Grown(bufSize, left)

(* currentBufferSize_ after writeBuffer: a first fixed buffer leaves it alone. *)
SizeAfter(left) ==
  IF left = 0 \/ (chain = <<>> /\ fixSize >= left) THEN bufSize ELSE NewSize(left)

(* newBuffer, for each of the new buffers: their windows were free.           *)
Windows(from, to) == {WindowOf(r) : r \in from .. to}
Clashes(from, to) ==
  \E r \in from .. to : \/ WindowOf(r) \in used
                        \/ \E q \in from .. r - 1 : WindowOf(q) = WindowOf(r)

(* writeEvent: the blocs, then a resize if the size changed, then the header. *)
WriteEvent(n) ==
  /\ pc = "open" /\ ~clash /\ IsBufferFree(n)
  /\ \E in \in {InLast(chain, last, n)} : \E size \in {NewSize(in.left)} :
     \E new \in {NewBuffers(size, in.left, fixSize > 0)},
        bls \in {in.blocs \o NewBlocs(size, in.left, last)},
        after \in {SizeAfter(in.left)} :
       /\ chain' = in.chain \o new
       /\ last' = last + Len(new)
       /\ clash' = Clashes(last + 1, last')
       /\ used' = used \cup Windows(last + 1, last')
       /\ blocs' = blocs \o bls
       /\ bufSize' = after
       /\ wire' = wire \o (IF after = bufSize THEN <<>>
                           ELSE <<[kind |-> "resize", tl |-> nextTL, size |-> after]>>)
                       \o <<[kind |-> "event", tl |-> nextTL, blocs |-> bls]>>
  /\ nextTL' = nextTL + 1
  /\ pc' = IF nextTL = MaxTime THEN "drain" ELSE pc
  /\ UNCHANGED <<fixSize, finalized, control, serverVars>>

(* setFixed, from setBufferSize at the end of closeDefinition.                *)
SetFixed(size) ==
  /\ pc = "open" /\ fixSize = 0
  /\ fixSize' = size
  /\ UNCHANGED <<nextTL, pc, chain, last, used, blocs, bufSize, finalized, clash, wire,
                 control, serverVars>>

(* freeBloc: the bloc's bytes, then its window and the oldest buffer if the   *)
(* bloc's own is empty and another was made.                                  *)
FreeBloc(s, bloc) ==
  LET i == At(s.chain, last, bloc.window)
      c == [s.chain EXCEPT ![i] = FreedOf(@, bloc.at, bloc.count)]
  IN  IF c[i].cnt = 0 /\ Len(c) > 1
      THEN [chain |-> Tail(c), used |-> s.used \ {WindowOf(bloc.window)}]
      ELSE [chain |-> c, used |-> s.used]

(* How many blocs freeBuffer frees: up to the one of the control word.        *)
NbFreed(addr) == IF addr = NoAddr THEN 0
                 ELSE CHOOSE k \in DOMAIN blocs : /\ AddrOf(blocs[k]) = addr
                                                  /\ \A j \in 1 .. k - 1 : AddrOf(blocs[j]) # addr

FreeBuffer(k) == Folded(FreeBloc, [chain |-> chain, used |-> used], SubSeq(blocs, 1, k))

DropLast(c) == IF finalized /\ c # <<>> /\ Head(c).cnt = 0 THEN Tail(c) ELSE c

(* eventLoop: the control word is read and cleared.                           *)
EventLoop ==
  /\ pc # "released"
  /\ \E k \in {NbFreed(control.addr)} : \E s \in {FreeBuffer(k)} :
       /\ chain' = DropLast(s.chain) /\ used' = s.used
       /\ blocs' = SubSeq(blocs, k + 1, Len(blocs))
  /\ control' = [control EXCEPT !.addr = NoAddr]
  /\ finalized' = (finalized \/ control.finalize)
  /\ UNCHANGED <<nextTL, pc, last, bufSize, fixSize, clash, wire, serverVars>>

(* finalize: havePendingRequests, then isNotifiedFinalized.                   *)
Drained ==
  /\ pc = "drain" /\ blocs = <<>>
  /\ pc' = "wait"
  /\ UNCHANGED <<nextTL, chain, last, used, blocs, bufSize, fixSize, finalized, clash, wire,
                 control, serverVars>>

IsNotifiedFinalized ==
  /\ pc = "wait" /\ chain = <<>> /\ finalized
  /\ pc' = "released"
  /\ UNCHANGED <<nextTL, chain, last, used, blocs, bufSize, fixSize, finalized, clash, wire,
                 control, serverVars>>

-----------------------------------------------------------------------------
(* The server rank.                                                           *)

ReceivedRequest ==
  /\ wire # <<>>
  /\ IF Head(wire).kind = "resize"
     THEN /\ resizes' = Append(resizes, [tl |-> Head(wire).tl, size |-> Head(wire).size])
          /\ UNCHANGED pending
     ELSE /\ pending' = Append(pending, [tl |-> Head(wire).tl, blocs |-> Head(wire).blocs])
          /\ UNCHANGED resizes
  /\ wire' = Tail(wire)
  /\ UNCHANGED <<clientVars, control, schain, made, sSize, moving, completed, toFree, curTL>>

NewServerBuffer(s, size) ==
  [s EXCEPT !.schain = Append(@, EmptyBuffer(size, FALSE)), !.made = @ + 1, !.sSize = size]

(* transferEvents, for the resize that comes with the event.                  *)
Resized(s, tl) ==
  IF s.resizes # <<>> /\ Head(s.resizes).tl = tl
  THEN [NewServerBuffer(s, Head(s.resizes).size) EXCEPT !.resizes = Tail(@)] ELSE s

(* transferEvent, for one bloc: reserve splits it over the last buffer and,   *)
(* when that is not enough, a new one that holds the rest.                    *)
GrownServer(size, n) == MaxOf((size * 6) \div 5, n)

TransferBloc(s, bloc) ==
  CHOOSE r \in
    { IF in.left = 0
      THEN [s EXCEPT !.schain = in.chain, !.parts = @ \o in.blocs]
      ELSE [s EXCEPT !.sSize = GrownServer(@, in.left),
                     !.schain = in.chain \o NewBuffers(GrownServer(s.sSize, in.left),
                                                       in.left, FALSE),
                     !.parts = @ \o in.blocs
                                 \o NewBlocs(GrownServer(s.sSize, in.left), in.left, s.made),
                     !.made = @ + 1] :
      in \in {InLast(s.schain, s.made, bloc.count)} } : TRUE

TransferEvent(s, event) ==
  CHOOSE r \in
    { [t EXCEPT !.moving = Append(@, [tl |-> event.tl, from |-> event.blocs,
                                      parts |-> t.parts])] :
      t \in {Folded(TransferBloc, [Resized(s, event.tl) EXCEPT !.parts = <<>>],
                    event.blocs)} } : TRUE

(* transferEvents: every event that is known, the buffers being growable.     *)
TransferEvents(s) ==
  IF s.moving # <<>> THEN s
  ELSE [Folded(TransferEvent, s, s.pending) EXCEPT !.pending = <<>>]

(* testPendingRequests: MPI_Testall may find a get that is not complete.      *)
TestPendingRequests(s) ==
  IF s.moving = <<>> THEN {s}
  ELSE {s, [s EXCEPT !.completed = @ \o s.moving, !.moving = <<>>]}

(* The address of the last bloc to free is put when no window is locked.      *)
PutAddress(s) ==
  IF s.moving = <<>> /\ s.toFree # NoAddr
  THEN [s EXCEPT !.control.addr = s.toFree, !.toFree = NoAddr] ELSE s
DeleteFront(s) ==
  IF Len(s.schain) > 1 /\ Head(s.schain).cnt = 0 THEN [s EXCEPT !.schain = Tail(@)] ELSE s

(* The states eventLoop of the server's buffer may leave it in.               *)
Looped(s) ==
  {DeleteFront(PutAddress(u)) : u \in {TransferEvents(t) : t \in TestPendingRequests(s)}}

(* fillEventServer: each part is copied and freed.                            *)
FreePart(s, part) ==
  LET i == At(s.schain, s.made, part.window)
      c == [s.schain EXCEPT ![i] = FreedOf(@, part.at, part.count)]
  IN  [s EXCEPT !.schain = IF c[i].cnt = 0 /\ Len(c) > 1 THEN Tail(c) ELSE c]
Filled(s) ==
  [Folded(FreePart, s, Head(s.completed).parts)
     EXCEPT !.completed = Tail(@), !.toFree = AddrOf(Last(Head(s.completed).from))]

Server == [pending |-> pending, resizes |-> resizes, schain |-> schain, made |-> made,
           sSize |-> sSize, moving |-> moving, completed |-> completed, toFree |-> toFree,
           control |-> control, parts |-> <<>>]

ServerBecomes(s) ==
  /\ pending' = s.pending /\ resizes' = s.resizes /\ schain' = s.schain /\ made' = s.made
  /\ sSize' = s.sSize /\ moving' = s.moving /\ completed' = s.completed
  /\ toFree' = s.toFree /\ control' = s.control

(* checkBuffers: while an event of this client is in pendingEvents_.          *)
CheckBuffers ==
  /\ pending # <<>> \/ moving # <<>>
  /\ \E s \in Looped(Server) : ServerBecomes(s)
  /\ UNCHANGED <<clientVars, wire, curTL>>

(* processEvents, when the event of the current timeline is complete and the  *)
(* scheduler lets it through.                                                 *)
ProcessEvent ==
  /\ completed # <<>> /\ Head(completed).tl = curTL
  /\ \E s \in Looped(Filled(Server)) : ServerBecomes(s)
  /\ curTL' = curTL + 1
  /\ UNCHANGED <<clientVars, wire>>

(* notifyClientFinalize: eventLoop, then the finalize word.                   *)
NotifyClientFinalize ==
  /\ curTL = MaxTime + 1 /\ ~control.finalize
  /\ \E s \in Looped(Server) : ServerBecomes([s EXCEPT !.control.finalize = TRUE])
  /\ UNCHANGED <<clientVars, wire, curTL>>

Next ==
  \/ \E n \in Sizes : WriteEvent(n)
  \/ \E n \in FixSizes : SetFixed(n)
  \/ EventLoop \/ Drained \/ IsNotifiedFinalized
  \/ ReceivedRequest \/ CheckBuffers \/ ProcessEvent \/ NotifyClientFinalize

(* The client's loops call eventLoop until they may leave, the server's loop  *)
(* calls all of its steps, and the gets complete.                             *)
Fairness ==
  /\ WF_vars(\E n \in Sizes : WriteEvent(n))
  /\ WF_vars(EventLoop) /\ WF_vars(Drained) /\ WF_vars(IsNotifiedFinalized)
  /\ WF_vars(ReceivedRequest) /\ WF_vars(CheckBuffers) /\ WF_vars(ProcessEvent)
  /\ WF_vars(NotifyClientFinalize)

Spec == Init /\ [][Next]_vars /\ Fairness

-----------------------------------------------------------------------------
Buffers == [start : Nat, end : Nat, cnt : Nat, size : Nat, fixed : BOOLEAN]
Blocs == [window : Nat, at : Nat, count : Nat]
Addresses == ((0 .. MaxWindows - 1) \X Nat) \cup {NoAddr}

(* Every variable holds a value of the kind the code gives it.                *)
TypeOK ==
  /\ nextTL \in 1 .. MaxTime + 1 /\ pc \in {"open", "drain", "wait", "released"}
  /\ chain \in Seq(Buffers) /\ last \in Int /\ used \subseteq 0 .. MaxWindows - 1
  /\ blocs \in Seq(Blocs) /\ bufSize \in Nat /\ fixSize \in FixSizes \cup {0}
  /\ finalized \in BOOLEAN /\ clash \in BOOLEAN
  /\ control.addr \in Addresses /\ control.finalize \in BOOLEAN
  /\ \A i \in DOMAIN wire : wire[i].kind \in {"resize", "event"} /\ wire[i].tl \in 1 .. MaxTime
  /\ pending \in Seq([tl : 1 .. MaxTime, blocs : Seq(Blocs)])
  /\ resizes \in Seq([tl : 1 .. MaxTime, size : Nat])
  /\ schain \in Seq(Buffers) /\ made \in Int /\ sSize \in Nat /\ toFree \in Addresses
  /\ \A s \in {moving, completed} :
       s \in Seq([tl : 1 .. MaxTime, from : Seq(Blocs), parts : Seq(Blocs)])
  /\ curTL \in 1 .. MaxTime + 1

(* newBuffer never meets a window whose buffer is still there, though windows *)
(* are taken in turn and released by freeBloc alone: until the end the used   *)
(* windows are those of the chain.                                            *)
WindowsAccounted ==
  /\ ~clash
  /\ ~finalized => used = Windows(last - Len(chain) + 1, last)

(* An address the server will put, or has put and the client has not read, is *)
(* that of exactly one bloc of the client's list, the last of its event.      *)
(* Otherwise freeBuffer would free blocs that the server still reads, or run  *)
(* off the end of blocs_: a bloc placed where a freed one was may not be      *)
(* taken for it.                                                              *)
AddressesLive ==
  \A a \in {toFree, control.addr} \ {NoAddr} :
    \E i \in DOMAIN blocs :
      /\ AddrOf(blocs[i]) = a
      /\ \A j \in DOMAIN blocs \ {i} : AddrOf(blocs[j]) # a

(* A get never reads memory that the client has freed: the blocs of every     *)
(* event not yet fetched, on the wire or in flight, are still in its list.    *)
GetsReadLiveBytes ==
  \A s \in {SelectSeq(wire, LAMBDA m : m.kind = "event"), pending} :
    /\ \A i \in DOMAIN s : \A b \in DOMAIN s[i].blocs : s[i].blocs[b] \in ToSet(blocs)
    /\ \A i \in DOMAIN moving : \A b \in DOMAIN moving[i].from :
         moving[i].from[b] \in ToSet(blocs)

PartsOf(s) == FoldLeft(LAMBDA x, e : x \o e.parts, <<>>, s)
Held == PartsOf(completed) \o PartsOf(moving)

(* No two blocs that are still needed share bytes, on either side.            *)
NoOverwrite ==
  \A s \in {blocs, Held} : \A i, j \in DOMAIN s : i # j => ~Overlap(s[i], s[j])

BytesIn(s, w) == FoldLeft(LAMBDA n, b : IF b.window = w THEN n + b.count ELSE n, 0, s)

(* Each chain's counts are those of the blocs it holds, all of them in its    *)
(* buffers: deleting the oldest buffer when a bloc's own becomes empty never  *)
(* deletes one in use (the ERROR of both destructors).                        *)
ChainsAccounted ==
  /\ \A i \in DOMAIN chain : chain[i].cnt = BytesIn(blocs, last - Len(chain) + i)
  /\ \A i \in DOMAIN blocs : blocs[i].window \in last - Len(chain) + 1 .. last
  /\ \A i \in DOMAIN schain : schain[i].cnt = BytesIn(Held, made - Len(schain) + i)
  /\ \A i \in DOMAIN Held : Held[i].window \in made - Len(schain) + 1 .. made

(* Every byte of an event is fetched: the parts hold as many as its blocs.    *)
WholeEvents ==
  \A s \in {moving, completed} : \A i \in DOMAIN s :
    FoldLeft(LAMBDA n, b : n + b.count, 0, s[i].parts)
      = FoldLeft(LAMBDA n, b : n + b.count, 0, s[i].from)

Channel == INSTANCE EventChannel WITH
  Timelines <- 1 .. MaxTime,
  accepted  <- [i \in 1 .. nextTL - 1 |-> i],
  processed <- [i \in 1 .. curTL - 1 |-> i],
  released  <- pc = "released"

(* Each event is processed once, in order, the client is released after the   *)
(* last one, and all of it eventually happens.                                *)
ImplementsChannel == Channel!Spec
=============================================================================
