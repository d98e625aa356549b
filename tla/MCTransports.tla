---------------------------- MODULE MCTransports ----------------------------
(* The three transports side by side: a behaviour is one of the legacy, the   *)
(* peer-to-peer or the one-sided transport, chosen at the start as the XML    *)
(* does.  The variables of the legacy transport stay as they begin in the     *)
(* others, those of the others are Off.  All three must implement the same    *)
(* EventChannel.                                                              *)
EXTENDS LegacyChannel

Off == "off"

VARIABLES part, next, at, bytes, sent, headers, current, windows, chain, mirror,
          blocs, fixSize, finalized, matched, notified, resizes, schain, deleted,
          moving, completed, fault, last, clash, control, made, sSize, toFree

(* What only the peer-to-peer transport has, only the one-sided, and both.    *)
p2pVars == <<mirror, matched, notified, deleted, fault>>
oneSidedVars == <<windows, last, clash, control, made, sSize, toFree>>
chainVars == <<next, at, bytes, sent, headers, current, chain, blocs, fixSize,
               finalized, resizes, schain, moving, completed>>
MCvars == <<part, vars, p2pVars, oneSidedVars, chainVars>>

P == INSTANCE P2pChannel WITH
  MaxTime <- 5, Sizes <- {8, 13}, FixSizes <- {28}, MaxBuffers <- 2, MaxSent <- 3,
  nextTL <- next, pc <- at, bufSize <- bytes, wire <- sent, pending <- headers,
  curTL <- current
S == INSTANCE OneSidedChannel WITH
  MaxTime <- 5, Sizes <- {8, 13}, FixSizes <- {28}, MaxWindows <- 2,
  nextTL <- next, pc <- at, bufSize <- bytes, wire <- sent, pending <- headers,
  curTL <- current, used <- windows

ASSUME P!P2pAssumption /\ S!OneSidedAssumption

P2pOff ==
  mirror = Off /\ matched = Off /\ notified = Off /\ deleted = Off /\ fault = Off
OneSidedOff ==
  /\ windows = Off /\ last = Off /\ clash = Off /\ control = Off /\ made = Off
  /\ sSize = Off /\ toFree = Off
ChainOff ==
  /\ next = Off /\ at = Off /\ bytes = Off /\ sent = Off /\ headers = Off
  /\ current = Off /\ chain = Off /\ blocs = Off /\ fixSize = Off /\ finalized = Off
  /\ resizes = Off /\ schain = Off /\ moving = Off /\ completed = Off
LegacyIdle == Init /\ plan = [t \in 1 .. MaxTime |-> 1] /\ ~pureOneSided /\ ~growable

MCInit ==
  \/ part = "legacy" /\ Init /\ P2pOff /\ OneSidedOff /\ ChainOff
  \/ part = "p2p" /\ P!Init /\ LegacyIdle /\ OneSidedOff
  \/ part = "one_sided" /\ S!Init /\ LegacyIdle /\ P2pOff

Released == at = "released" /\ current > 5

MCNext ==
  \/ part = "legacy" /\ Next /\ UNCHANGED <<part, p2pVars, oneSidedVars, chainVars>>
  \/ part = "p2p" /\ P!Next /\ UNCHANGED <<part, vars, oneSidedVars>>
  \/ part = "p2p" /\ Released /\ UNCHANGED MCvars
  \/ part = "one_sided" /\ S!Next /\ UNCHANGED <<part, vars, p2pVars>>
  \/ part = "one_sided" /\ Released /\ UNCHANGED MCvars

(* What the fairness of each transport's own Spec asks of its actions one by  *)
(* one is asked of them together: no transport ever comes back to a state, so *)
(* that a behaviour goes on for ever only by stopping, and then none of them  *)
(* is enabled.                                                                *)
LegacyGoesOn ==
  \/ SkipTimeline
  \/ SendEvent
  \/ BufferNotFree
  \/ IssueSend
  \/ TestSend
  \/ ResizeBufferNotify
  \/ IsNotifiedChangeBufferSize
  \/ ResizeBuffer
  \/ HavePendingRequests
  \/ IsNotifiedFinalized
  \/ Listen
  \/ used = 0 /\ AcceptProbe
  \/ ReceiveEvents
  \/ ReceiveNotify
  \/ ReceiveChange
  \/ GetBufferFromClient
  \/ StartEvent
  \/ EndEvent
  \/ OtherEvent

P2pGoesOn ==
  \/ \E n \in {8, 13} : P!WriteEvent(n)
  \/ \E k \in 1 .. Len(blocs), sees \in BOOLEAN : P!EventLoop(k, sees)
  \/ P!EventLoop(0, TRUE)
  \/ P!Drained
  \/ P!IsNotifiedFinalized
  \/ P!ReceivedRequest
  \/ P!CheckBuffers
  \/ P!ProcessEvent
  \/ P!NotifyClientFinalize

OneSidedGoesOn ==
  \/ \E n \in {8, 13} : S!WriteEvent(n)
  \/ S!EventLoop
  \/ S!Drained
  \/ S!IsNotifiedFinalized
  \/ S!ReceivedRequest
  \/ S!CheckBuffers
  \/ S!ProcessEvent
  \/ S!NotifyClientFinalize

MCFairness ==
  /\ WF_vars(part = "legacy" /\ LegacyGoesOn)
  /\ WF_(P!vars)(part = "p2p" /\ P2pGoesOn)
  /\ WF_(S!vars)(part = "one_sided" /\ OneSidedGoesOn)

MCSpec == MCInit /\ [][MCNext]_MCvars /\ MCFairness

-----------------------------------------------------------------------------
(* The server's chain of buffers mirrors the client's, which it never sees:   *)
(* every bloc has its place, at the client's own offset, no bytes still       *)
(* needed are shared, and each chain counts the blocs it holds.               *)
P2pMirrored ==
  part = "p2p" =>
    /\ P!TypeOK /\ P!TransferSucceeds /\ P!SamePlace /\ P!NoOverwrite
    /\ P!ChainsAccounted /\ P!BuffersMirrored

(* A one-sided get reads bytes the client has not freed, and all of an        *)
(* event's; an address put back frees exactly the blocs processed; a window   *)
(* is taken again only once its buffer is gone.                               *)
OneSidedReadsLive ==
  part = "one_sided" =>
    /\ S!TypeOK /\ S!WindowsAccounted /\ S!AddressesLive /\ S!GetsReadLiveBytes
    /\ S!NoOverwrite /\ S!ChainsAccounted /\ S!WholeEvents

UpTo(n) == [i \in 1 .. n |-> i]
AnyChannel == INSTANCE EventChannel WITH
  Timelines <- 1 .. 5,
  accepted  <- IF part = "legacy" THEN accepted ELSE UpTo(next - 1),
  processed <- IF part = "legacy" THEN processed ELSE UpTo(current - 1),
  released  <- (IF part = "legacy" THEN pc ELSE at) = "released"

(* Whatever the transport and the resizes, each event accepted is handed to   *)
(* the context exactly once and in order, the client is released after the    *)
(* last one, and all of it eventually happens.                                *)
AllReliable == AnyChannel!Spec
=============================================================================
