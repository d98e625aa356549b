----------------------------- MODULE BufferChain ----------------------------
(* The circular buffers of the peer-to-peer and one-sided transports: CBuffer *)
(* of p2p_client_buffer.hpp and p2p_server_buffer.hpp, and the chain a client *)
(* makes of them.  A buffer holds its live bytes from after its last freed    *)
(* byte (start) up to its first free one (end), around its size.  The byte at *)
(* start is not used again before the next free: a buffer that was used holds *)
(* one byte less than its size.                                               *)
EXTENDS Integers, SequencesExt

(* FoldLeft, with each intermediate result computed once.                     *)
Folded(op(_, _), base, seq) ==
  CHOOSE r \in FoldLeft(LAMBDA S, x : {op(s, x) : s \in S}, {base}, seq) : TRUE

EmptyBuffer(n, fix) == [start |-> n, end |-> 0, cnt |-> 0, size |-> n, fixed |-> fix]

(* Variants a slip in the code would produce.                                 *)
FreedWithGap(b, place, n) == [b EXCEPT !.start = place + n - 1, !.cnt = @ - n - 1]
RoomToTheEnd(b) == b.size - b.end
WrappedIfFull(b, n) == IF b.end > b.start /\ b.size - b.end <= n THEN [b EXCEPT !.end = 0] ELSE b
RemainCounted(b) == b.size - b.cnt

(* CBuffer::free, of both sides.                                              *)
FreedOf(b, place, n) == [b EXCEPT !.start = place + n - 1, !.cnt = @ - n]

-----------------------------------------------------------------------------
(* The client: CBuffer::write takes the bytes that fit after end.             *)
Contiguous(b) == IF b.end < b.start THEN b.start - b.end
                 ELSE IF b.end > b.start THEN b.size - b.end ELSE 0

MinOf(m, n) == IF m < n THEN m ELSE n
MaxOf(m, n) == IF m > n THEN m ELSE n

Took(b, n) == MinOf(n, Contiguous(b))

(* Only what does not fit (case 3) takes the end of the buffer back to 0.     *)
WriteOnce(b, n) ==
  LET wraps == b.end > b.start /\ n > Contiguous(b)
  IN  [b EXCEPT !.end = IF wraps THEN 0 ELSE @ + Took(b, n), !.cnt = @ + Took(b, n)]

(* The blocs one call of write adds: none when it took no byte.               *)
BlocOf(b, n, w) ==
  IF Took(b, n) = 0 THEN <<>> ELSE <<[window |-> w, at |-> b.end, count |-> Took(b, n)]>>

(* writeBuffer on the last buffer, which is window w: write is called twice.  *)
WrittenTwice(b, n, w) ==
  Folded(LAMBDA s, i : [buf   |-> WriteOnce(s.buf, s.left),
                        left  |-> s.left - Took(s.buf, s.left),
                        blocs |-> s.blocs \o BlocOf(s.buf, s.left, w)],
         [buf |-> b, left |-> n, blocs |-> <<>>], <<1, 2>>)

(* The size of the next buffer of a growable chain, and how many new buffers  *)
(* of size s the loop of writeBuffer makes for the n bytes left: each is      *)
(* filled before the next is made.                                            *)
Grown(s, n) == MaxOf((s * 5) \div 4, n)
NbNew(s, n) == (n + s - 1) \div s
NthShare(i, s, n) == MinOf(s, n - (i - 1) * s)

NewBuffers(s, n, fix) ==
  [i \in 1 .. NbNew(s, n) |->
     LET share == NthShare(i, s, n)
     IN  [EmptyBuffer(s, fix) EXCEPT !.end = share, !.cnt = share]]

NewBlocs(s, n, w) ==
  [i \in 1 .. NbNew(s, n) |-> [window |-> w + i, at |-> 0, count |-> NthShare(i, s, n)]]

-----------------------------------------------------------------------------
(* The server: CBuffer::reserve, which never splits a bloc.                   *)
Wrapped(b, n) == IF b.end > b.start /\ b.size - b.end < n THEN [b EXCEPT !.end = 0] ELSE b

(* reserve raises an error, or is called for ever by transferEvent.           *)
ReserveFails(b, n) ==
  LET w == Wrapped(b, n)
  IN  w.end = w.start \/ (w.end < w.start /\ w.start - w.end < n)

Place(b, n) == Wrapped(b, n).end
Reserved(b, n) == [Wrapped(b, n) EXCEPT !.end = @ + n, !.cnt = @ + n]

Remain(b) == IF b.cnt = 0 THEN b.size
             ELSE IF b.end < b.start THEN b.start - b.end ELSE b.size - b.end

-----------------------------------------------------------------------------
(* Two blocs share a byte.                                                    *)
Overlap(x, y) == /\ x.window = y.window
                 /\ x.at < y.at + y.count
                 /\ y.at < x.at + x.count
=============================================================================
