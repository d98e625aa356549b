----------------------------- MODULE ServerRing -----------------------------
(* CServerBuffer's ring of bytes (src/src/buffer_server.cpp): one per client *)
(* rank on every server of the legacy transport.  Messages are received into *)
(* it in arrival order and freed sub-event by sub-event in the same order; a *)
(* "notify" control message is popped back off the end.  first is the byte   *)
(* before the oldest live one, current the next free one, end the byte where *)
(* the upper part of a wrapped ring stops.                                   *)
EXTENDS Integers, Sequences

CONSTANT BuffSize       \* the client's buffer size, the largest message

ASSUME BuffSizePositive == BuffSize \in Nat \ {0}

VARIABLES
  first, current, end, used,   \* the members of CServerBuffer
  q,          \* ghost: live regions [start, len], oldest first
  incoming,   \* the newest region is still being filled by MPI_Imrecv
  failed      \* an ERROR of getBuffer, freeBuffer or popBuffer was met

ring == <<first, current, end, used>>
vars == <<first, current, end, used, q, incoming, failed>>

size == 3 * BuffSize
Counts == 1 .. BuffSize

TypeOK == /\ first \in 0 .. size - 1
          /\ current \in 0 .. size - 1
          /\ end \in 1 .. size
          /\ used \in 0 .. size - 1
          /\ q \in Seq([start : 0 .. size - 1, len : 1 .. BuffSize])
          /\ incoming \in BOOLEAN
          /\ failed \in BOOLEAN

Init == /\ first = 0
        /\ current = 1
        /\ end = size
        /\ used = 0
        /\ q = <<>>
        /\ incoming = FALSE
        /\ failed = FALSE

-----------------------------------------------------------------------------
(* Variants a slip in the code would produce; each shows what a property     *)
(* depends on.                                                               *)
FitsExactly(count) ==
  IF current > first
    THEN \/ current + count <= size
         \/ current + count > size /\ count < first
    ELSE current + count < first
FitsBelowEnd(count) ==
  IF current > first
    THEN \/ current + count < size
         \/ current + count = size /\ first > 0
         \/ current + count > size /\ count < first
    ELSE current + count < end
FitsWithoutWrap(count) ==
  IF current > first
    THEN \/ current + count < size
         \/ current + count = size /\ first > 0
    ELSE current + count < first
WrapsLate(count) == current > first /\ current + count > size + 1
UsedAfterPopForgotten(count) == used
UsedAfterFreeSkipsReset(count) == used - (IF first = end - 1 THEN count - 1 ELSE count)

(* isBufferFree, for a message that is not empty.                            *)
IsBufferFree(count) ==
  IF current > first
    THEN \/ current + count < size
         \/ current + count = size /\ first > 0
         \/ current + count > size /\ count < first
    ELSE current + count < first

IsBufferEmpty == used = 0

(* The message does not fit in what is left of the upper part: it goes to 0.  *)
Wraps(count) == current > first /\ current + count > size

(* getBuffer's branches are those of isBufferFree: it serves the request     *)
(* where that returns true and reaches an ERROR elsewhere.                   *)
GetBuffer(count) ==
  /\ end' = IF Wraps(count) THEN current ELSE end
  /\ first' = first
  /\ IF IsBufferFree(count)
       THEN /\ current' = IF Wraps(count) THEN count
                          ELSE IF current + count = size THEN 0 ELSE current + count
            /\ used' = used + count
            /\ q' = Append(q, [start |-> IF Wraps(count) THEN 0 ELSE current, len |-> count])
            /\ failed' = failed
       ELSE failed' = TRUE /\ UNCHANGED <<current, used, q>>

(* The upper part has been freed: the oldest live byte is byte 0.            *)
UpperFreed == first = end - 1

UsedAfterFree(count) == used - count

(* freeBuffer: the size bytes of the oldest sub-event.                        *)
FreeBuffer(count) ==
  LET from == IF UpperFreed THEN 0 ELSE first
      n    == IF UpperFreed THEN count - 1 ELSE count
      top  == IF UpperFreed THEN size ELSE end
      ok   == from + n < (IF from <= current THEN current ELSE top)
  IN  /\ end' = top
      /\ current' = current
      /\ first' = IF ok THEN from + n ELSE from
      /\ used' = IF ok THEN UsedAfterFree(count) ELSE used - (count - n)
      /\ q' = IF count = q[1].len
                THEN Tail(q)
                ELSE [q EXCEPT ![1] = [start |-> @.start + count, len |-> @.len - count]]
      /\ failed' = (failed \/ ~ok)

UsedAfterPop(count) == used - count

(* popBuffer: the whole newest region.  The differences are of size_t: when  *)
(* count exceeds current they wrap and the code's comparisons succeed.       *)
PopBuffer(count) ==
  LET from == IF current = 0 THEN end ELSE current
      ok   == from - count > first \/ from < count \/ first > from
  IN  /\ end' = IF current = 0 THEN size ELSE end
      /\ first' = first
      /\ current' = IF ok THEN from - count ELSE from
      /\ used' = IF ok THEN UsedAfterPop(count) ELSE used
      /\ q' = SubSeq(q, 1, Len(q) - 1)
      /\ failed' = (failed \/ ~ok)

-----------------------------------------------------------------------------
(* checkPendingProbe with room in the ring: MPI_Imrecv into getBuffer.       *)
Receive(count) ==
  /\ ~incoming /\ IsBufferFree(count)
  /\ GetBuffer(count)
  /\ incoming' = TRUE

(* checkPendingProbe while the client resizes: only emptiness is tested.     *)
ReceiveWhileResizing(count) ==
  /\ ~incoming /\ IsBufferEmpty
  /\ GetBuffer(count)
  /\ incoming' = TRUE

(* getBufferFromClient: copied out of the window at once, emptiness tested.  *)
TakeFromClient(count) ==
  /\ ~incoming /\ IsBufferEmpty
  /\ GetBuffer(count)
  /\ incoming' = FALSE

(* checkPendingRequest of a message of events: its bytes stay in the ring.   *)
CompleteEvents ==
  /\ incoming
  /\ incoming' = FALSE
  /\ UNCHANGED <<ring, q, failed>>

(* checkPendingRequest of a NotifyChangeBufferSize message: popped at once.  *)
CompleteNotify ==
  /\ incoming
  /\ PopBuffer(q[Len(q)].len)
  /\ incoming' = FALSE

(* ~CEventServer or ChangeBufferSize: the oldest sub-event is freed; a       *)
(* message holds one or several of them.                                     *)
FreeSubEvent(count) ==
  /\ q # <<>>
  /\ incoming => Len(q) > 1
  /\ count <= q[1].len
  /\ FreeBuffer(count)
  /\ UNCHANGED incoming

Next == \/ \E count \in Counts : \/ Receive(count)
                                 \/ ReceiveWhileResizing(count)
                                 \/ TakeFromClient(count)
                                 \/ FreeSubEvent(count)
        \/ CompleteEvents
        \/ CompleteNotify

Spec == Init /\ [][Next]_vars

-----------------------------------------------------------------------------
(* No request the server makes of its ring reaches an ERROR: although only   *)
(* emptiness is tested before a one-sided copy and during a resize, the      *)
(* message fits; a free or a pop of what was received always succeeds.       *)
NoError == ~failed

(* A message never overwrites bytes of a sub-event not yet processed.        *)
LiveRegionsDisjoint ==
  \A i, j \in 1 .. Len(q) :
    i < j => \/ q[i].start + q[i].len <= q[j].start
             \/ q[j].start + q[j].len <= q[i].start

(* Every live region lies inside the allocation of size bytes.               *)
LiveRegionsInside == \A i \in 1 .. Len(q) : q[i].start + q[i].len <= size

(* isBufferEmpty, on which deleting the ring during a resize relies, says    *)
(* exactly that no received byte is still referenced.                        *)
EmptyMeansNoneLive == IsBufferEmpty <=> q = <<>>

(* An empty ring has room for any message the client may send, wherever its  *)
(* indices stopped: a server that waits for emptiness is never stuck.        *)
EmptyRingFits == IsBufferEmpty => \A count \in Counts : IsBufferFree(count)

-----------------------------------------------------------------------------
(* The inductive invariant behind the properties above.                      *)

Wrapped == current < first

(* The indices: either one live stretch first+1..current-1, or two, the      *)
(* upper first+1..end-1 and the lower 0..current-1, with more than two       *)
(* messages' worth of bytes below end.                                       *)
Geometry ==
  IF Wrapped
    THEN /\ first < end /\ end <= size /\ 2 * BuffSize < end
         /\ used = end - 1 - first + current
    ELSE /\ first < current /\ end = size
         /\ used = current - first - 1

RegionEnd(r) == r.start + r.len
Upper(r) == first < r.start /\ RegionEnd(r) <= (IF Wrapped THEN end ELSE current)
Lower(r) == Wrapped /\ RegionEnd(r) <= current

(* The live regions tile the live stretches, oldest first.                   *)
Tiling ==
  /\ q = <<>> => used = 0
  /\ q # <<>> => /\ q[1].start = IF UpperFreed THEN 0 ELSE first + 1
                 /\ RegionEnd(q[Len(q)]) = IF current = 0 THEN end ELSE current
  /\ \A i \in 1 .. Len(q) : Upper(q[i]) \/ Lower(q[i])
  /\ \A i, j \in 1 .. Len(q) : 
       i < j => RegionEnd(q[i]) <= q[j].start \/ (Upper(q[i]) /\ Lower(q[j]))
  /\ \A i \in 1 .. Len(q) - 1 :
       \/ q[i + 1].start = RegionEnd(q[i])
       \/ q[i + 1].start = 0 /\ RegionEnd(q[i]) = end /\ Wrapped

RingInv == TypeOK /\ Geometry /\ Tiling /\ (incoming => q # <<>>) /\ NoError
=============================================================================
