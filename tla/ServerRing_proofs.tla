------------------------- MODULE ServerRing_proofs -------------------------
(* Proofs about ServerRing for every buffer size and every sequence of       *)
(* receptions, frees and pops.                                               *)
EXTENDS ServerRing, SequenceTheorems, TLAPS

Regions == [start : 0 .. size - 1, len : 1 .. BuffSize]

(* The members of the ring after an operation, types only.                   *)
TypeNext == /\ first' \in 0 .. size - 1 /\ current' \in 0 .. size - 1
            /\ end' \in 1 .. size /\ used' \in 0 .. size - 1
            /\ q' \in Seq(Regions)

(* What the three operations of the ring preserve.                           *)
Preserved == TypeNext /\ Geometry' /\ Tiling' /\ failed' = failed

LEMMA SizeType == size \in Nat /\ size = 3 * BuffSize /\ BuffSize \in Nat /\ BuffSize >= 1
BY BuffSizePositive DEF size

(* The indices as integers with their bounds.                                *)
IndexBounds == /\ first \in Int /\ 0 <= first /\ first < size
               /\ current \in Int /\ 0 <= current /\ current < size
               /\ end \in Int /\ 1 <= end /\ end <= size
               /\ used \in Int /\ 0 <= used /\ used < size

LEMMA IndexType == TypeOK => IndexBounds /\ q \in Seq(Regions)
BY SizeType DEF TypeOK, IndexBounds, Regions

(* An empty ring has room for every message, wherever its indices stopped.   *)
LEMMA EmptyHasRoom == TypeOK /\ Geometry => EmptyRingFits
BY SizeType DEF TypeOK, Geometry, Wrapped, EmptyRingFits, IsBufferEmpty, IsBufferFree, Counts

(* A region of the queue is a record of the right kind.                      *)
LEMMA RegionType ==
  ASSUME TypeOK, NEW i \in 1 .. Len(q)
  PROVE  /\ q[i] \in Regions
         /\ q[i].start \in Int /\ 0 <= q[i].start /\ q[i].start < size
         /\ q[i].len \in Int /\ 1 <= q[i].len /\ q[i].len <= BuffSize
         /\ RegionEnd(q[i]) = q[i].start + q[i].len
<1>1. q \in Seq(Regions)
  BY DEF TypeOK, Regions
<1>2. q[i] \in Regions
  BY <1>1
<1>3. q[i].start \in 0 .. size - 1 /\ q[i].len \in 1 .. BuffSize
  BY <1>2 DEF Regions
<1> QED
  BY <1>2, <1>3, SizeType DEF RegionEnd

(* getBuffer, called where isBufferFree holds, keeps the ring well formed.   *)
LEMMA GetStep ==
  ASSUME RingInv, NEW count \in Counts, IsBufferFree(count), GetBuffer(count)
  PROVE  Preserved /\ q' # <<>>
<1>0. TypeOK /\ Geometry /\ Tiling /\ IndexBounds /\ q \in Seq(Regions)
  BY IndexType DEF RingInv
<1>a. count \in Int /\ 1 <= count /\ count <= BuffSize
  BY SizeType DEF Counts
<1>d. \A i \in 1 .. Len(q) :
        /\ q[i].start \in Int /\ 0 <= q[i].start
        /\ q[i].len \in Int /\ 1 <= q[i].len
  BY <1>0, RegionType
<1>b. PICK new \in Regions : new = [start |-> IF Wraps(count) THEN 0 ELSE current, len |-> count]
  <2>1. (IF Wraps(count) THEN 0 ELSE current) \in 0 .. size - 1 /\ count \in 1 .. BuffSize
    BY <1>0, <1>a, SizeType DEF IndexBounds
  <2>2. [start |-> IF Wraps(count) THEN 0 ELSE current, len |-> count] \in Regions
    BY <2>1 DEF Regions
  <2> QED
    BY <2>2
<1>c. new.start = (IF Wraps(count) THEN 0 ELSE current) /\ new.len = count
  BY <1>b
<1>q. q' = Append(q, new)
  BY <1>b DEF GetBuffer
<1>1. /\ first' = first /\ failed' = failed /\ used' = used + count
      /\ end' = (IF Wraps(count) THEN current ELSE end)
      /\ current' = IF Wraps(count) THEN count
                    ELSE IF current + count = size THEN 0 ELSE current + count
  BY DEF GetBuffer
<1>e. \/ /\ Wraps(count) /\ ~Wrapped /\ end = size /\ count < first /\ first < current
         /\ end' = current /\ current' = count
      \/ /\ ~Wraps(count) /\ ~Wrapped /\ end = size /\ 0 < first /\ first < current
         /\ current + count = size /\ end' = size /\ current' = 0
      \/ /\ ~Wraps(count) /\ ~Wrapped /\ end = size /\ first < current
         /\ current + count < size /\ end' = size /\ current' = current + count
      \/ /\ ~Wraps(count) /\ Wrapped /\ first < end /\ current + count < first
         /\ end' = end /\ current' = current + count
  BY <1>0, <1>1, <1>a, SizeType DEF IndexBounds, Geometry, Wrapped, IsBufferFree, Wraps
<1>2. /\ first' \in 0 .. size - 1 /\ current' \in 0 .. size - 1
      /\ end' \in 1 .. size /\ used' \in 0 .. size - 1
  BY <1>0, <1>1, <1>a, SizeType DEF IndexBounds, Geometry, Wrapped, IsBufferFree, Wraps
<1>5. /\ q' \in Seq(Regions)
      /\ Len(q') = Len(q) + 1
      /\ \A i \in 1 .. Len(q) : q'[i] = q[i]
      /\ q'[Len(q) + 1] = new
      /\ Len(q) \in Nat
      /\ q' # <<>>
  BY <1>0, <1>q
<1>6. Geometry'
  BY <1>0, <1>1, <1>a, SizeType DEF IndexBounds, Geometry, Wrapped, IsBufferFree, Wraps
<1>7. ASSUME NEW i \in 1 .. Len(q)
      PROVE  /\ Upper(q[i]) => Upper(q[i])'
             /\ Lower(q[i]) => Lower(q[i])'
             /\ Upper(q[i]) \/ Lower(q[i])
             /\ RegionEnd(q[i]) <= new.start \/ (Upper(q[i])' /\ Lower(new)')
  <2>1. q'[i] = q[i]
    BY <1>5
  <2>2. Upper(q[i]) \/ Lower(q[i])
    BY <1>0 DEF Tiling
  <2>d. q[i].start \in Int /\ 0 <= q[i].start /\ q[i].len \in Int /\ 1 <= q[i].len
    BY <1>d
  <2>i. IndexBounds /\ first' = first
    BY <1>0, <1>1
  <2>3. Upper(q[i]) => Upper(q[i])'
    BY <1>a, <1>e, <2>1, <2>d, <2>i DEF IndexBounds, Wrapped, Upper, RegionEnd
  <2>4. Lower(q[i]) => Lower(q[i])'
    BY <1>a, <1>e, <2>1, <2>d, <2>i DEF IndexBounds, Wrapped, Lower, RegionEnd
  <2>5. RegionEnd(q[i]) <= new.start \/ (Upper(q[i])' /\ Lower(new)')
    BY <1>a, <1>c, <1>e, <2>1, <2>2, <2>d, <2>i
       DEF IndexBounds, Wrapped, Upper, Lower, RegionEnd
  <2> QED
    BY <2>2, <2>3, <2>4, <2>5
<1>8. Upper(new)' \/ Lower(new)'
  BY <1>0, <1>1, <1>a, <1>c, SizeType
     DEF IndexBounds, Geometry, Wrapped, IsBufferFree, Wraps, Upper, Lower, RegionEnd
<1>9. RegionEnd(new) = IF current' = 0 THEN end' ELSE current'
  BY <1>0, <1>1, <1>a, <1>c, SizeType
     DEF IndexBounds, Geometry, Wrapped, IsBufferFree, Wraps, RegionEnd
<1>10. q'[1].start = IF UpperFreed' THEN 0 ELSE first' + 1
  <2>1. CASE q = <<>>
    <3>1. used = 0 /\ q'[1] = new
      BY <1>0, <1>5, <2>1 DEF Tiling
    <3> QED
      BY <1>0, <1>1, <1>a, <1>c, <3>1, SizeType
         DEF IndexBounds, Geometry, Wrapped, IsBufferFree, Wraps, UpperFreed
  <2>2. CASE q # <<>>
    <3>1. 1 \in 1 .. Len(q) /\ q'[1] = q[1]
      BY <1>0, <1>5, <2>2
    <3>2. q[1].start = (IF UpperFreed THEN 0 ELSE first + 1)
      BY <1>0, <2>2 DEF Tiling
    <3>3. Upper(q[1]) \/ Lower(q[1])
      BY <1>7, <3>1
    <3>4. q[1].start \in Int /\ 0 <= q[1].start /\ q[1].len \in Int /\ 1 <= q[1].len
      BY <1>d, <3>1
    <3>5. IndexBounds /\ first' = first
      BY <1>0, <1>1
    <3> QED
      BY <1>a, <1>e, <3>1, <3>2, <3>3, <3>4, <3>5
         DEF IndexBounds, Wrapped, UpperFreed, Upper, Lower, RegionEnd
  <2> QED
    BY <2>1, <2>2
<1>11. ASSUME NEW i \in 1 .. Len(q') - 1
       PROVE  \/ q'[i + 1].start = RegionEnd(q'[i])
              \/ q'[i + 1].start = 0 /\ RegionEnd(q'[i]) = end' /\ Wrapped'
  <2>1. i \in 1 .. Len(q) /\ q'[i] = q[i]
    BY <1>5
  <2>2. CASE i < Len(q)
    <3>1. i \in 1 .. Len(q) - 1 /\ i + 1 \in 1 .. Len(q)
      BY <1>5, <2>1, <2>2
    <3>2. q'[i + 1] = q[i + 1]
      BY <1>5, <3>1
    <3>3. \/ q[i + 1].start = RegionEnd(q[i])
          \/ q[i + 1].start = 0 /\ RegionEnd(q[i]) = end /\ Wrapped
      BY <1>0, <3>1 DEF Tiling
    <3> QED
      BY <1>0, <1>1, <1>a, <2>1, <3>2, <3>3, SizeType
         DEF IndexBounds, Geometry, Wrapped, IsBufferFree, Wraps
  <2>3. CASE i = Len(q)
    <3>1. q # <<>> /\ q'[i + 1] = new
      BY <1>5, <2>1, <2>3
    <3>2. RegionEnd(q[i]) = IF current = 0 THEN end ELSE current
      BY <1>0, <2>3, <3>1 DEF Tiling
    <3>3. IndexBounds /\ first' = first
      BY <1>0, <1>1
    <3>4. CASE Wraps(count)
      <4>1. new.start = 0 /\ end' = current /\ current' = count /\ count < first /\ current # 0
        BY <1>c, <1>e, <3>3, <3>4 DEF IndexBounds
      <4> QED
        BY <2>1, <3>1, <3>2, <3>3, <4>1 DEF Wrapped
    <3>5. CASE ~Wraps(count)
      <4>1. new.start = current /\ end' = end
        BY <1>1, <1>c, <3>5
      <4>2. current = 0 => Wrapped' /\ new.start = 0
        BY <1>a, <1>e, <3>3, <3>5, <4>1 DEF IndexBounds, Wrapped
      <4> QED
        BY <2>1, <3>1, <3>2, <4>1, <4>2
    <3> QED
      BY <3>4, <3>5
  <2> QED
    BY <1>5, <2>1, <2>2, <2>3
<1>12. \A i \in 1 .. Len(q') : Upper(q[i])' \/ Lower(q[i])'
  <2> SUFFICES ASSUME NEW i \in 1 .. Len(q') PROVE Upper(q[i])' \/ Lower(q[i])'
    OBVIOUS
  <2>1. i \in 1 .. Len(q) \/ i = Len(q) + 1
    BY <1>5
  <2> QED
    BY <1>5, <1>7, <1>8, <2>1
<1>13. \A i, j \in 1 .. Len(q') :
         i < j => RegionEnd(q'[i]) <= q'[j].start \/ (Upper(q[i])' /\ Lower(q[j])')
  <2> SUFFICES ASSUME NEW i \in 1 .. Len(q'), NEW j \in 1 .. Len(q'), i < j
               PROVE  RegionEnd(q'[i]) <= q'[j].start \/ (Upper(q[i])' /\ Lower(q[j])')
    OBVIOUS
  <2>1. i \in 1 .. Len(q) /\ q'[i] = q[i]
    BY <1>5
  <2>2. CASE j \in 1 .. Len(q)
    <3>1. q'[j] = q[j]
      BY <1>5, <2>2
    <3>2. RegionEnd(q[i]) <= q[j].start \/ (Upper(q[i]) /\ Lower(q[j]))
      BY <1>0, <2>1, <2>2 DEF Tiling
    <3> QED
      BY <1>7, <2>1, <2>2, <3>1, <3>2
  <2>3. CASE j = Len(q) + 1
    BY <1>5, <1>7, <2>1, <2>3
  <2> QED
    BY <1>5, <2>2, <2>3
<1>14. Tiling'
  BY <1>5, <1>9, <1>10, <1>11, <1>12, <1>13 DEF Tiling, RegionEnd
<1> QED
  BY <1>1, <1>2, <1>5, <1>6, <1>14 DEF Preserved, TypeNext

(* A region inside a ring whose upper part has been freed is a lower one.    *)
LEMMA AllLower ==
  ASSUME RingInv, UpperFreed, NEW i \in 1 .. Len(q)
  PROVE  Wrapped /\ Lower(q[i]) /\ ~Upper(q[i])
<1>1. TypeOK /\ Geometry /\ Tiling /\ IndexBounds
  BY IndexType DEF RingInv
<1>2. /\ q[i].start \in Int /\ 0 <= q[i].start
      /\ q[i].len \in Int /\ 1 <= q[i].len
  BY <1>1, RegionType
<1>3. Upper(q[i]) \/ Lower(q[i])
  BY <1>1 DEF Tiling
<1> QED
  BY <1>1, <1>2, <1>3, SizeType
     DEF IndexBounds, Geometry, Wrapped, Upper, Lower, RegionEnd, UpperFreed

(* freeBuffer of bytes of the oldest region keeps the ring well formed.      *)
LEMMA FreeStep ==
  ASSUME RingInv, NEW count \in Counts, q # <<>>, count <= q[1].len, FreeBuffer(count)
  PROVE  Preserved /\ (Len(q) > 1 => q' # <<>>)
<1>0. TypeOK /\ Geometry /\ Tiling /\ IndexBounds /\ q \in Seq(Regions)
  BY IndexType DEF RingInv
<1>a. count \in Int /\ 1 <= count /\ count <= BuffSize
  BY SizeType DEF Counts
<1>b. Len(q) \in Nat /\ 1 \in 1 .. Len(q)
  BY <1>0
<1>d. \A i \in 1 .. Len(q) :
        /\ q[i].start \in Int /\ 0 <= q[i].start
        /\ q[i].len \in Int /\ 1 <= q[i].len
        /\ RegionEnd(q[i]) = q[i].start + q[i].len
  BY <1>0, RegionType
<1>i. IndexBounds /\ Geometry
  BY <1>0
<1>r. /\ q[1].start \in Int /\ 0 <= q[1].start
      /\ q[1].len \in Int /\ 1 <= q[1].len
      /\ RegionEnd(q[1]) = q[1].start + q[1].len
  BY <1>b, <1>d
<1>e. q[1].start = (IF UpperFreed THEN 0 ELSE first + 1) /\ (Upper(q[1]) \/ Lower(q[1]))
  BY <1>0, <1>b DEF Tiling
<1>f. UpperFreed => Wrapped /\ Lower(q[1])
  BY <1>b, AllLower
<1>g. IF UpperFreed
        THEN Wrapped /\ q[1].start = 0 /\ count <= current /\ q[1].len <= current
        ELSE q[1].start = first + 1 /\ first + count <= first + q[1].len
             /\ first + q[1].len < (IF Wrapped THEN end ELSE current)
  <2>1. CASE UpperFreed
    <3>1. Wrapped /\ q[1].start = 0 /\ q[1].len <= current
      BY <1>e, <1>f, <1>r, <2>1 DEF Lower
    <3> QED
      BY <1>a, <1>i, <1>r, <2>1, <3>1 DEF IndexBounds
  <2>2. CASE ~UpperFreed
    <3>1. q[1].start = first + 1 /\ RegionEnd(q[1]) = first + 1 + q[1].len
      BY <1>e, <1>r, <2>2
    <3>2. ~Lower(q[1])
      BY <1>i, <1>r, <3>1 DEF IndexBounds, Wrapped, Lower
    <3>3. first + 1 + q[1].len <= (IF Wrapped THEN end ELSE current)
      BY <1>e, <3>1, <3>2 DEF Upper
    <3> QED
      BY <1>a, <1>i, <1>r, <2>2, <3>1, <3>3 DEF IndexBounds
  <2> QED
    BY <2>1, <2>2
<1>h. failed = FALSE \/ failed = TRUE
  BY <1>0 DEF TypeOK
<1>1. /\ first' = (IF UpperFreed THEN count - 1 ELSE first + count)
      /\ end' = (IF UpperFreed THEN size ELSE end)
      /\ current' = current
      /\ used' = used - count
      /\ failed' = failed
  <2>1. CASE UpperFreed
    <3>1. 0 + (count - 1) < current /\ 0 <= current
      BY <1>0, <1>a, <1>g, <2>1 DEF IndexBounds
    <3>2. 0 + (count - 1) = count - 1
      BY <1>a
    <3> QED
      BY <1>h, <2>1, <3>1, <3>2 DEF FreeBuffer, UsedAfterFree
  <2>2. CASE ~UpperFreed
    <3>1. first + count < (IF first <= current THEN current ELSE end)
      <4>1. first + count < (IF Wrapped THEN end ELSE current)
        BY <1>a, <1>g, <1>i, <1>r, <2>2 DEF IndexBounds
      <4>2. first # current
        BY <1>i DEF IndexBounds, Geometry, Wrapped
      <4> QED
        BY <1>i, <4>1, <4>2 DEF IndexBounds, Wrapped
    <3> QED
      BY <1>h, <2>2, <3>1 DEF FreeBuffer, UsedAfterFree
  <2> QED
    BY <2>1, <2>2
<1>2. /\ first' \in 0 .. size - 1 /\ current' \in 0 .. size - 1
      /\ end' \in 1 .. size /\ used' \in 0 .. size - 1
  <2>1. CASE UpperFreed
    <3>1. /\ first' = count - 1 /\ end' = size /\ current' = current /\ used' = used - count
          /\ used = current /\ count <= current
      BY <1>1, <1>g, <1>i, <2>1 DEF IndexBounds, Geometry, UpperFreed
    <3> QED
      BY <1>a, <1>i, <3>1, SizeType DEF IndexBounds
  <2>2. CASE ~UpperFreed
    <3>1. /\ first' = first + count /\ end' = end /\ current' = current /\ used' = used - count
      BY <1>1, <2>2
    <3>2. first + count < (IF Wrapped THEN end ELSE current)
      BY <1>a, <1>g, <1>i, <1>r, <2>2 DEF IndexBounds
    <3>3. 0 <= used - count /\ first + count < size
      BY <1>a, <1>i, <3>2, SizeType DEF IndexBounds, Geometry
    <3> QED
      BY <1>a, <1>i, <3>1, <3>3, SizeType DEF IndexBounds
  <2> QED
    BY <2>1, <2>2
<1>3. Geometry'
  <2>1. CASE UpperFreed
    <3>1. /\ first' = count - 1 /\ end' = size /\ current' = current /\ used' = used - count
          /\ used = current /\ count <= current
      BY <1>1, <1>g, <1>i, <2>1 DEF IndexBounds, Geometry, UpperFreed
    <3> QED
      BY <1>a, <1>i, <3>1, SizeType DEF IndexBounds, Geometry, Wrapped
  <2>2. CASE ~UpperFreed
    <3>1. /\ first' = first + count /\ end' = end /\ current' = current /\ used' = used - count
          /\ first + count < (IF Wrapped THEN end ELSE current)
      BY <1>1, <1>a, <1>g, <1>i, <1>r, <2>2 DEF IndexBounds
    <3> QED
      BY <1>a, <1>i, <3>1, SizeType DEF IndexBounds, Geometry, Wrapped
  <2> QED
    BY <2>1, <2>2
<1>4. PICK k \in {0, 1} :
        /\ q' \in Seq(Regions) /\ Len(q') = Len(q) - k
        /\ k = 1 => count = q[1].len
        /\ \A i \in 1 .. Len(q') : i + k > 1 => q'[i] = q[i + k]
        /\ k = 0 => q'[1].start = q[1].start + count /\ q'[1].len = q[1].len - count
                    /\ count < q[1].len
  <2>1. CASE count = q[1].len
    <3>1. q' = Tail(q)
      BY <2>1 DEF FreeBuffer
    <3> QED
      BY <1>0, <1>b, <2>1, <3>1
  <2>2. CASE count # q[1].len
    <3>1. PICK h : h = [start |-> q[1].start + count, len |-> q[1].len - count]
      OBVIOUS
    <3>2. h \in Regions /\ h.start = q[1].start + count /\ h.len = q[1].len - count
      <4>1. q[1].len <= BuffSize
        BY <1>0, <1>b, RegionType
      <4>2. q[1].start + count \in 0 .. size - 1
        <5>1. count < q[1].len
          BY <1>a, <1>r, <2>2
        <5>2. q[1].start + q[1].len <= size
          <6>1. RegionEnd(q[1]) <= end \/ RegionEnd(q[1]) <= current
            BY <1>e DEF Upper, Lower
          <6>2. RegionEnd(q[1]) \in Int
            BY <1>r
          <6>3. RegionEnd(q[1]) <= size
            BY <1>i, <6>1, <6>2, SizeType DEF IndexBounds
          <6> QED
            BY <1>r, <6>3
        <5> QED
          BY <1>a, <1>r, <5>1, <5>2, SizeType
      <4>3. q[1].len - count \in 1 .. BuffSize
        BY <1>a, <1>b, <1>d, <2>2, <4>1, SizeType
      <4> QED
        BY <3>1, <4>2, <4>3 DEF Regions
    <3>3. q' = [q EXCEPT ![1] = h]
      BY <2>2, <3>1 DEF FreeBuffer
    <3> QED
      BY <1>0, <1>a, <1>b, <1>d, <2>2, <3>2, <3>3
  <2> QED
    BY <2>1, <2>2
<1>5. ASSUME NEW i \in 1 .. Len(q')
      PROVE  /\ i + k \in 1 .. Len(q)
             /\ RegionEnd(q'[i]) = RegionEnd(q[i + k])
             /\ q'[i].start = IF i + k = 1 THEN q[1].start + count ELSE q[i + k].start
             /\ q'[i].start \in Int /\ q'[i].len \in Int /\ 1 <= q'[i].len
  <2>1. i + k \in 1 .. Len(q)
    BY <1>4, <1>b
  <2>2. CASE i + k = 1
    <3>1. i = 1 /\ k = 0
      BY <1>4, <1>b, <2>2
    <3>2. /\ q'[i].start = q[1].start + count /\ q'[i].len = q[1].len - count
          /\ count < q[1].len /\ q[i + k] = q[1]
      BY <1>4, <3>1
    <3>3. /\ q[1].start \in Int /\ q[1].len \in Int
          /\ RegionEnd(q[1]) = q[1].start + q[1].len
      BY <1>b, <1>d
    <3>4. RegionEnd(q'[i]) = q'[i].start + q'[i].len
      BY DEF RegionEnd
    <3>5. q'[i].start \in Int /\ q'[i].len \in Int /\ 1 <= q'[i].len
      BY <1>a, <3>2, <3>3
    <3>6. q'[i].start + q'[i].len = q[1].start + q[1].len
      <4>1. \A a, b, c \in Int : (a + c) + (b - c) = a + b
        OBVIOUS
      <4>2. (q[1].start + count) + (q[1].len - count) = q[1].start + q[1].len
        BY <1>a, <3>3, <4>1
      <4> QED
        BY <3>2, <4>2, Zenon
    <3>7. RegionEnd(q'[i]) = RegionEnd(q[i + k])
      BY <3>2, <3>3, <3>4, <3>6
    <3> QED
      BY <2>1, <2>2, <3>2, <3>5, <3>7
  <2>3. CASE i + k # 1
    <3>1. q'[i] = q[i + k]
      BY <1>4, <2>1, <2>3
    <3> QED
      BY <1>d, <2>1, <2>3, <3>1
  <2> QED
    BY <2>1, <2>2, <2>3
<1>6. ASSUME NEW i \in 1 .. Len(q')
      PROVE  /\ Upper(q[i + k]) => Upper(q[i])'
             /\ Lower(q[i + k]) => IF UpperFreed THEN Upper(q[i])' ELSE Lower(q[i])'
  <2>1. CASE i + k = 1
    <3>1. /\ RegionEnd(q[i])' = q[1].start + q[1].len
          /\ q'[i].start = q[1].start + count
      BY <1>5, <1>b, <1>d, <2>1 DEF RegionEnd
    <3>2. q[i + k] = q[1] /\ RegionEnd(q[1]) = q[1].start + q[1].len
      BY <1>b, <1>d, <2>1
    <3>3. CASE UpperFreed
      <4>1. ~Upper(q[1]) /\ first' = count - 1 /\ current' = current /\ q[1].start = 0
            /\ count <= current /\ q[1].len <= current
        BY <1>1, <1>b, <1>g, <3>3, AllLower
      <4>2. first' < q'[i].start /\ ~Wrapped' /\ RegionEnd(q[i])' <= current'
        BY <1>a, <1>i, <1>r, <3>1, <4>1 DEF IndexBounds, Wrapped
      <4> QED
        BY <3>2, <3>3, <4>1, <4>2 DEF Upper
    <3>4. CASE ~UpperFreed
      <4>1. /\ q[1].start = first + 1 /\ first' = first + count
            /\ end' = end /\ current' = current
            /\ first + q[1].len < (IF Wrapped THEN end ELSE current)
        BY <1>1, <1>g, <3>4
      <4>2. first' < q'[i].start
        BY <1>a, <1>i, <3>1, <4>1 DEF IndexBounds
      <4>3. Wrapped => Wrapped'
        BY <1>a, <1>i, <4>1 DEF IndexBounds, Wrapped
      <4>4. Wrapped' => Wrapped
        BY <1>a, <1>g, <1>i, <1>r, <3>4, <4>1 DEF IndexBounds, Wrapped
      <4>5. ~Lower(q[1])
        BY <1>i, <1>r, <4>1 DEF IndexBounds, Wrapped, Lower
      <4> QED
        BY <3>1, <3>2, <3>4, <4>1, <4>2, <4>3, <4>4, <4>5 DEF Upper
    <3> QED
      BY <3>3, <3>4
  <2>2. CASE i + k # 1
    <3>1. RegionEnd(q[1]) <= q[i + k].start \/ (Upper(q[1]) /\ Lower(q[i + k]))
      BY <1>0, <1>4, <1>5, <1>b, <2>2 DEF Tiling
    <3>2. UpperFreed => ~Upper(q[1]) /\ ~Upper(q[i + k])
      BY <1>5, <1>b, AllLower
    <3>3. RegionEnd(q[1]) = q[1].start + q[1].len /\ RegionEnd(q[i + k]) = q[i + k].start + q[i + k].len
          /\ q[i + k].start \in Int /\ q[i + k].len \in Int /\ 1 <= q[i + k].len
      BY <1>5, <1>b, <1>d
    <3>4. RegionEnd(q[i])' = RegionEnd(q[i + k]) /\ q'[i].start = q[i + k].start
      BY <1>5, <2>2 DEF RegionEnd
    <3>5. CASE UpperFreed
      <4>1. ~Upper(q[i + k]) /\ q[1].len <= q[i + k].start /\ first' = count - 1
            /\ current' = current /\ count <= current
        BY <1>1, <1>g, <1>r, <3>1, <3>2, <3>5
      <4>2. ~Wrapped'
        BY <1>a, <1>i, <4>1 DEF IndexBounds, Wrapped
      <4>3. count - 1 < q[i + k].start
        BY <1>a, <1>g, <1>r, <3>3, <3>5, <4>1
      <4> QED
        BY <3>4, <3>5, <4>1, <4>2, <4>3 DEF Upper, Lower
    <3>6. CASE ~UpperFreed
      <4>1. /\ (Wrapped' <=> Wrapped) /\ first' = first + count
            /\ end' = end /\ current' = current
            /\ first' < RegionEnd(q[1])
        <5>1. /\ q[1].start = first + 1 /\ first' = first + count
              /\ end' = end /\ current' = current
              /\ first + q[1].len < (IF Wrapped THEN end ELSE current)
          BY <1>1, <1>g, <3>6
        <5> QED
          BY <1>a, <1>i, <1>r, <5>1 DEF IndexBounds, Wrapped
      <4>2. Lower(q[i + k]) => Lower(q[i])'
        BY <3>4, <4>1 DEF Lower
      <4>3. Upper(q[i + k]) => ~Lower(q[i + k])
        BY <1>0, <3>3 DEF IndexBounds, Upper, Lower, Wrapped
      <4>4. Upper(q[i + k]) => first' < q[i + k].start
        <5>1. first' \in Int /\ RegionEnd(q[1]) \in Int /\ q[i + k].start \in Int
          BY <1>a, <1>i, <1>r, <3>3, <4>1 DEF IndexBounds
        <5> QED
          BY <3>1, <4>1, <4>3, <5>1
      <4>5. Upper(q[i + k]) => Upper(q[i])'
        BY <3>4, <4>1, <4>4 DEF Upper
      <4> QED
        BY <3>6, <4>2, <4>5
    <3> QED
      BY <3>5, <3>6
  <2> QED
    BY <2>1, <2>2
<1>7. \A i \in 1 .. Len(q') : Upper(q[i])' \/ Lower(q[i])'
  <2> TAKE i \in 1 .. Len(q')
  <2>1. Upper(q[i + k]) \/ Lower(q[i + k])
    BY <1>0, <1>5 DEF Tiling
  <2> QED
    BY <1>6, <2>1
<1>8. \A i, j \in 1 .. Len(q') :
        i < j => RegionEnd(q'[i]) <= q'[j].start \/ (Upper(q[i])' /\ Lower(q[j])')
  <2> SUFFICES ASSUME NEW i \in 1 .. Len(q'), NEW j \in 1 .. Len(q'), i < j
               PROVE  RegionEnd(q'[i]) <= q'[j].start \/ (Upper(q[i])' /\ Lower(q[j])')
    OBVIOUS
  <2>1. i + k \in 1 .. Len(q) /\ j + k \in 1 .. Len(q) /\ i + k < j + k /\ j + k # 1
    BY <1>4, <1>5
  <2>2. RegionEnd(q[i + k]) <= q[j + k].start \/ (Upper(q[i + k]) /\ Lower(q[j + k]))
    BY <1>0, <2>1 DEF Tiling
  <2>3. RegionEnd(q'[i]) = RegionEnd(q[i + k]) /\ q'[j].start = q[j + k].start
    BY <1>5, <2>1
  <2>4. UpperFreed => ~Upper(q[i + k])
    BY <2>1, AllLower
  <2> QED
    BY <1>6, <2>2, <2>3, <2>4
<1>9. ASSUME NEW i \in 1 .. Len(q') - 1
      PROVE  \/ q'[i + 1].start = RegionEnd(q'[i])
             \/ q'[i + 1].start = 0 /\ RegionEnd(q'[i]) = end' /\ Wrapped'
  <2>1. /\ i \in 1 .. Len(q') /\ i + 1 \in 1 .. Len(q')
        /\ i + k \in 1 .. Len(q) - 1 /\ i + k \in 1 .. Len(q)
        /\ (i + 1) + k = (i + k) + 1 /\ (i + k) + 1 # 1
    BY <1>4, <1>b
  <2>2. \/ q[(i + k) + 1].start = RegionEnd(q[i + k])
        \/ q[(i + k) + 1].start = 0 /\ RegionEnd(q[i + k]) = end /\ Wrapped
    BY <1>0, <2>1 DEF Tiling
  <2>3. RegionEnd(q'[i]) = RegionEnd(q[i + k]) /\ q'[i + 1].start = q[(i + k) + 1].start
    BY <1>5, <2>1
  <2>4. UpperFreed => Lower(q[i + k])
    BY <2>1, AllLower
  <2>5. CASE UpperFreed
    <3>1. RegionEnd(q[i + k]) # end
      BY <1>i, <2>4, <2>5 DEF IndexBounds, Geometry, Wrapped, Lower
    <3> QED
      BY <2>2, <2>3, <3>1
  <2>6. CASE ~UpperFreed
    <3>1. /\ first' = first + count /\ end' = end /\ current' = current
      BY <1>1, <2>6
    <3>2. Wrapped => Wrapped'
      BY <1>a, <1>i, <3>1 DEF IndexBounds, Wrapped
    <3> QED
      BY <2>2, <2>3, <3>1, <3>2
  <2> QED
    BY <2>5, <2>6
<1>10. q' = <<>> => used' = 0
  <2>1. SUFFICES ASSUME q' = <<>> PROVE used' = 0
    OBVIOUS
  <2>2. Len(q) = 1 /\ count = q[1].len
    BY <1>4, <1>b, <2>1
  <2>3. RegionEnd(q[1]) = IF current = 0 THEN end ELSE current
    BY <1>0, <2>2 DEF Tiling
  <2>4. CASE UpperFreed
    <3>1. count = current
      BY <1>a, <1>g, <1>i, <1>r, <2>2, <2>3, <2>4 DEF IndexBounds
    <3>2. used = current
      BY <1>g, <1>i, <2>4 DEF IndexBounds, Geometry, UpperFreed
    <3> QED
      BY <1>1, <1>i, <3>1, <3>2 DEF IndexBounds
  <2>5. CASE ~UpperFreed
    <3>1. first + 1 + count = (IF current = 0 THEN end ELSE current)
      BY <1>g, <1>r, <2>2, <2>3, <2>5
    <3>2. used = count
      BY <1>a, <1>i, <3>1 DEF IndexBounds, Geometry, Wrapped
    <3> QED
      BY <1>1, <1>a, <3>2
  <2> QED
    BY <2>4, <2>5
<1>11. ASSUME q' # <<>>
       PROVE  q'[1].start = IF UpperFreed' THEN 0 ELSE first' + 1
  <2>1. 1 \in 1 .. Len(q')
    BY <1>4, <1>11
  <2>2. /\ 1 + k \in 1 .. Len(q)
        /\ RegionEnd(q'[1]) = RegionEnd(q[1 + k])
        /\ q'[1].start = (IF 1 + k = 1 THEN q[1].start + count ELSE q[1 + k].start)
        /\ q'[1].start \in Int /\ q'[1].len \in Int /\ 1 <= q'[1].len
    BY <1>5, <2>1
  <2>3. Upper(q[1])' \/ Lower(q[1])'
    BY <1>7, <2>1
  <2>4. CASE k = 0
    <3>1. q'[1].start = q[1].start + count /\ count < q[1].len
      BY <1>4, <2>2, <2>4
    <3>2. CASE UpperFreed
      <4>1. first' = count - 1 /\ end' = size /\ q[1].start = 0
        BY <1>1, <1>g, <3>2
      <4> QED
        BY <1>a, <3>1, <4>1, SizeType DEF UpperFreed
    <3>3. CASE ~UpperFreed
      <4>1. /\ first' = first + count /\ end' = end /\ q[1].start = first + 1
            /\ first + q[1].len < (IF Wrapped THEN end ELSE current)
        BY <1>1, <1>g, <3>3
      <4>2. first + q[1].len < end
        BY <1>i, <1>r, <4>1 DEF IndexBounds, Geometry
      <4> QED
        BY <1>a, <1>i, <1>r, <3>1, <4>1, <4>2 DEF IndexBounds, UpperFreed
    <3> QED
      BY <3>2, <3>3
  <2>5. CASE k = 1
    <3>1. q'[1].start = q[2].start /\ 1 \in 1 .. Len(q) - 1 /\ count = q[1].len
      BY <1>4, <1>b, <2>2, <2>5
    <3>2. \/ q[2].start = RegionEnd(q[1])
          \/ q[2].start = 0 /\ RegionEnd(q[1]) = end /\ Wrapped
      BY <1>0, <3>1 DEF Tiling
    <3>3. RegionEnd(q[1]) = q[1].start + q[1].len /\ RegionEnd(q[1])' = q'[1].start + q'[1].len
      BY <1>b, <1>d DEF RegionEnd
    <3>4. CASE UpperFreed
      <4>1. q[2].start = RegionEnd(q[1])
        BY <1>0, <1>b, <1>d, <1>g, <3>2, <3>3, <3>4 DEF IndexBounds, Geometry, Wrapped
      <4>2. ~UpperFreed'
        BY <1>1, <1>a, <3>4, SizeType DEF UpperFreed
      <4> QED
        BY <1>1, <1>a, <1>g, <3>1, <3>3, <3>4, <4>1, <4>2
    <3>5. CASE ~UpperFreed
      <4>0. /\ q[1].start = first + 1 /\ first' = first + count
            /\ end' = end /\ current' = current
            /\ RegionEnd(q[1]) = first' + 1
            /\ first' \in Int /\ end \in Int
        <5>1. /\ q[1].start = first + 1 /\ first' = first + count
              /\ end' = end /\ current' = current
          BY <1>1, <1>g, <3>5
        <5>2. first \in Int /\ end \in Int /\ RegionEnd(q[1]) = q[1].start + count
          BY <1>0, <3>1, <3>3 DEF IndexBounds
        <5> QED
          BY <1>a, <5>1, <5>2
      <4>1. CASE q[2].start = RegionEnd(q[1])
        <5>1. q'[1].start = first' + 1
          BY <3>1, <4>0, <4>1
        <5>2. ~Lower(q[1])'
          <6>1. RegionEnd(q[1])' \in Int /\ first' < RegionEnd(q[1])'
            BY <2>2, <3>3, <4>0, <5>1
          <6> QED
            BY <1>2, <4>0, <6>1, SizeType DEF Lower, Wrapped
        <5>3. first' + 2 <= end'
          <6>1. RegionEnd(q[1])' <= (IF Wrapped' THEN end' ELSE current')
            BY <2>3, <5>2 DEF Upper
          <6>2. ~Wrapped' => current' <= end'
            BY <1>3, <1>2, SizeType DEF Geometry
          <6> QED
            BY <1>2, <2>2, <3>3, <4>0, <5>1, <6>1, <6>2, SizeType
        <5>4. ~UpperFreed'
          BY <4>0, <5>3 DEF UpperFreed
        <5> QED
          BY <5>1, <5>4
      <4>2. CASE q[2].start = 0 /\ RegionEnd(q[1]) = end
        <5>1. UpperFreed'
          BY <4>0, <4>2 DEF UpperFreed
        <5> QED
          BY <3>1, <4>2, <5>1
      <4> QED
        BY <3>2, <4>1, <4>2
    <3> QED
      BY <3>4, <3>5
  <2> QED
    BY <2>4, <2>5
<1>12. ASSUME q' # <<>>
       PROVE  RegionEnd(q'[Len(q')]) = IF current' = 0 THEN end' ELSE current'
  <2>1. Len(q') \in 1 .. Len(q') /\ Len(q') + k = Len(q)
    BY <1>4, <1>12
  <2>2. RegionEnd(q'[Len(q')]) = RegionEnd(q[Len(q)])
    BY <1>5, <2>1
  <2>3. RegionEnd(q[Len(q)]) = IF current = 0 THEN end ELSE current
    BY <1>0 DEF Tiling
  <2>4. UpperFreed => Lower(q[Len(q)]) /\ 1 <= RegionEnd(q[Len(q)])
    BY <1>b, <1>d, AllLower
  <2> QED
    BY <1>0, <1>1, <2>2, <2>3, <2>4, SizeType DEF IndexBounds, Lower
<1>13. Tiling'
  BY <1>7, <1>8, <1>9, <1>10, <1>11, <1>12 DEF Tiling, RegionEnd
<1>14. Len(q) > 1 => q' # <<>>
  BY <1>4, <1>b
<1> QED
  BY <1>1, <1>2, <1>3, <1>4, <1>13, <1>14 DEF Preserved, TypeNext

(* popBuffer of the newest region keeps the ring well formed.                *)
LEMMA PopStep ==
  ASSUME RingInv, q # <<>>, PopBuffer(q[Len(q)].len)
  PROVE  Preserved
<1> DEFINE n == Len(q)
           new == q[n]
           count == new.len
           from == IF current = 0 THEN end ELSE current
<1>0. TypeOK /\ Geometry /\ Tiling /\ IndexBounds /\ q \in Seq(Regions)
  BY IndexType DEF RingInv
<1>b. n \in Nat /\ 1 <= n /\ n \in 1 .. Len(q) /\ 1 \in 1 .. Len(q)
  BY <1>0
<1>d. \A i \in 1 .. n :
        /\ q[i].start \in Int /\ 0 <= q[i].start /\ q[i].start < size
        /\ q[i].len \in Int /\ 1 <= q[i].len
        /\ RegionEnd(q[i]) = q[i].start + q[i].len
  BY <1>0, RegionType
<1>c. /\ new.start \in Int /\ 0 <= new.start /\ new.start < size
      /\ count \in Int /\ 1 <= count
      /\ RegionEnd(new) = new.start + count
      /\ Upper(new) \/ Lower(new)
  BY <1>0, <1>b, <1>d DEF Tiling
<1>e. new.start + count = from
  BY <1>0, <1>b, <1>c DEF Tiling
<1>f. \/ current = 0 /\ Wrapped /\ Upper(new) /\ ~Lower(new)
      \/ current # 0 /\ Wrapped /\ Lower(new) /\ ~Upper(new)
      \/ current # 0 /\ ~Wrapped /\ Upper(new) /\ ~Lower(new)
  BY <1>0, <1>c, <1>e DEF IndexBounds, Geometry, Wrapped, Upper, Lower
<1>g. from - count = new.start /\ (new.start > first \/ first > from)
  BY <1>0, <1>c, <1>e, <1>f DEF IndexBounds, Geometry, Wrapped, Upper, Lower
<1> HIDE DEF n
<1>1. /\ first' = first /\ failed' = failed
      /\ end' = (IF current = 0 THEN size ELSE end)
      /\ current' = new.start
      /\ used' = used - count
      /\ q' = SubSeq(q, 1, n - 1)
  <2>1. failed = FALSE \/ failed = TRUE
    BY <1>0 DEF TypeOK
  <2> QED
    BY <1>g, <2>1 DEF PopBuffer, UsedAfterPop, n
<1> HIDE DEF from, new, count
<1>2. /\ q' \in Seq(Regions) /\ Len(q') = n - 1
      /\ \A i \in 1 .. n - 1 : q'[i] = q[i]
  <2>1. \A i \in 1 .. n - 1 : q[i] \in Regions
    BY <1>0, <1>b DEF n
  <2> QED
    BY <1>0, <1>1, <1>b, <2>1
<1>3. Geometry'
  <2>i. IndexBounds /\ Geometry
    BY <1>0
  <2>1. CASE current = 0
    <3>1. /\ first' = first /\ end' = size /\ current' = new.start /\ used' = used - count
          /\ new.start + count = end /\ Wrapped /\ first < new.start
      BY <1>1, <1>e, <1>f, <2>1 DEF from, Upper
    <3> QED
      BY <1>c, <2>1, <2>i, <3>1 DEF IndexBounds, Geometry, Wrapped
  <2>2. CASE current # 0 /\ Wrapped
    <3>1. /\ first' = first /\ end' = end /\ current' = new.start /\ used' = used - count
          /\ new.start + count = current
      BY <1>1, <1>e, <2>2 DEF from
    <3> QED
      BY <1>c, <2>2, <2>i, <3>1 DEF IndexBounds, Geometry, Wrapped
  <2>3. CASE current # 0 /\ ~Wrapped
    <3>1. /\ first' = first /\ end' = end /\ current' = new.start /\ used' = used - count
          /\ new.start + count = current /\ first < new.start
      BY <1>1, <1>e, <1>f, <2>3 DEF from, Upper
    <3> QED
      BY <1>c, <2>3, <2>i, <3>1 DEF IndexBounds, Geometry, Wrapped
  <2> QED
    BY <2>1, <2>2, <2>3
<1>4. /\ first' \in 0 .. size - 1 /\ current' \in 0 .. size - 1
      /\ end' \in 1 .. size /\ used' \in 0 .. size - 1
  BY <1>0, <1>1, <1>3, <1>c, SizeType DEF IndexBounds, Geometry, Wrapped
<1>5. ASSUME NEW i \in 1 .. n - 1
      PROVE  /\ Upper(q[i]) => Upper(q[i])'
             /\ Lower(q[i]) => Lower(q[i])'
  <2>1. /\ i \in 1 .. n /\ q'[i] = q[i] /\ i < n
        /\ q[i].start \in Int /\ q[i].len \in Int /\ 1 <= q[i].len
        /\ RegionEnd(q[i]) = q[i].start + q[i].len
    BY <1>2, <1>b, <1>d
  <2>2. RegionEnd(q[i]) <= new.start \/ (Upper(q[i]) /\ Lower(new))
    BY <1>0, <1>b, <2>1 DEF Tiling, n, new
  <2>3. RegionEnd(q[i])' = RegionEnd(q[i]) /\ RegionEnd(q[i]) \in Int
    BY <2>1 DEF RegionEnd
  <2>4. Upper(q[i])' <=> (first < q[i].start /\ RegionEnd(q[i]) <= (IF Wrapped' THEN end' ELSE new.start))
    BY <1>1, <2>1, <2>3 DEF Upper
  <2>5. Lower(q[i])' <=> (Wrapped' /\ RegionEnd(q[i]) <= new.start)
    BY <1>1, <2>1, <2>3 DEF Lower
  <2>6. Wrapped' <=> (new.start < first)
    BY <1>1 DEF Wrapped
  <2>7. CASE Upper(new) /\ ~Lower(new)
    <3>1. ~Wrapped' /\ RegionEnd(q[i]) <= new.start
      BY <1>0, <1>c, <2>2, <2>6, <2>7 DEF IndexBounds, Upper
    <3>2. ~Lower(q[i])
      <4>1. current = 0 \/ ~Wrapped
        BY <1>f, <2>7
      <4>2. RegionEnd(q[i]) \in Int /\ RegionEnd(q[i]) > 0
        BY <1>d, <2>1
      <4> QED
        BY <4>1, <4>2 DEF Lower
    <3> QED
      BY <2>4, <3>1, <3>2 DEF Upper
  <2>8. CASE current # 0 /\ Wrapped /\ Lower(new) /\ ~Upper(new)
    <3>1. Wrapped' /\ end' = end
      BY <1>0, <1>1, <1>c, <2>6, <2>8 DEF IndexBounds, Wrapped, Lower
    <3>2. Upper(q[i]) => Upper(q[i])'
      BY <2>4, <2>8, <3>1 DEF Upper
    <3>3. Lower(q[i]) => ~Upper(q[i])
      BY <1>0, <2>1 DEF IndexBounds, Upper, Lower, Wrapped
    <3> QED
      BY <2>2, <2>5, <3>1, <3>2, <3>3
  <2> QED
    BY <1>f, <2>7, <2>8
<1>6. \A i \in 1 .. Len(q') : Upper(q[i])' \/ Lower(q[i])'
  BY <1>0, <1>2, <1>5, <1>b DEF Tiling, n
<1>7. \A i, j \in 1 .. Len(q') :
        i < j => RegionEnd(q'[i]) <= q'[j].start \/ (Upper(q[i])' /\ Lower(q[j])')
  <2> SUFFICES ASSUME NEW i \in 1 .. Len(q'), NEW j \in 1 .. Len(q'), i < j
               PROVE  RegionEnd(q'[i]) <= q'[j].start \/ (Upper(q[i])' /\ Lower(q[j])')
    OBVIOUS
  <2>1. /\ i \in 1 .. n - 1 /\ j \in 1 .. n - 1 /\ q'[i] = q[i] /\ q'[j] = q[j]
        /\ i \in 1 .. Len(q) /\ j \in 1 .. Len(q)
    BY <1>2, <1>b DEF n
  <2>2. RegionEnd(q[i]) <= q[j].start \/ (Upper(q[i]) /\ Lower(q[j]))
    BY <1>0, <2>1 DEF Tiling
  <2> QED
    BY <1>5, <2>1, <2>2
<1>8. ASSUME NEW i \in 1 .. Len(q') - 1
      PROVE  \/ q'[i + 1].start = RegionEnd(q'[i])
             \/ q'[i + 1].start = 0 /\ RegionEnd(q'[i]) = end' /\ Wrapped'
  <2>1. /\ i \in 1 .. n - 1 /\ i + 1 \in 1 .. n - 1 /\ i \in 1 .. Len(q) - 1
        /\ q'[i] = q[i] /\ q'[i + 1] = q[i + 1]
    BY <1>2, <1>b DEF n
  <2>2. \/ q[i + 1].start = RegionEnd(q[i])
        \/ q[i + 1].start = 0 /\ RegionEnd(q[i]) = end /\ Wrapped
    BY <1>0, <2>1 DEF Tiling
  <2>3. CASE q[i + 1].start = RegionEnd(q[i])
    BY <2>1, <2>3
  <2>4. CASE q[i + 1].start = 0 /\ RegionEnd(q[i]) = end /\ Wrapped
    <3>1. ~Upper(q[i + 1])
      BY <1>0, <2>4 DEF IndexBounds, Upper
    <3>2. i + 1 \in 1 .. Len(q) /\ RegionEnd(q[i + 1]) \in Int /\ RegionEnd(q[i + 1]) > 0
      <4>1. i + 1 \in 1 .. n /\ i + 1 \in 1 .. Len(q)
        BY <2>1 DEF n
      <4>2. /\ q[i + 1].start \in Int /\ 0 <= q[i + 1].start
            /\ q[i + 1].len \in Int /\ 1 <= q[i + 1].len
            /\ RegionEnd(q[i + 1]) = q[i + 1].start + q[i + 1].len
        BY <1>d, <4>1
      <4> QED
        BY <4>1, <4>2
    <3>3. current # 0
      <4>1. Lower(q[i + 1])
        BY <1>0, <3>1, <3>2 DEF Tiling
      <4> QED
        BY <1>0, <3>2, <4>1 DEF Lower, IndexBounds
    <3>4. Wrapped' /\ end' = end
      BY <1>0, <1>1, <1>c, <1>f, <2>4, <3>3 DEF IndexBounds, Wrapped, Lower
    <3> QED
      BY <2>1, <2>4, <3>4
  <2> QED
    BY <2>2, <2>3, <2>4
<1>9. q' = <<>> => used' = 0
  <2>1. SUFFICES ASSUME q' = <<>> PROVE used' = 0
    OBVIOUS
  <2>2. n = 1
    BY <1>2, <1>b, <2>1
  <2>3. new.start = IF UpperFreed THEN 0 ELSE first + 1
    BY <1>0, <2>2 DEF Tiling, n, new
  <2> QED
    BY <1>0, <1>1, <1>c, <1>e, <1>f, <2>3
       DEF from, IndexBounds, Geometry, Wrapped, Upper, Lower, UpperFreed
<1>10. ASSUME q' # <<>>
       PROVE  q'[1].start = IF UpperFreed' THEN 0 ELSE first' + 1
  <2>1. 1 \in 1 .. n - 1 /\ q'[1] = q[1]
    BY <1>2, <1>b, <1>10
  <2>2. q[1].start = IF UpperFreed THEN 0 ELSE first + 1
    BY <1>0 DEF Tiling
  <2>3. CASE current = 0
    <3>1. ~UpperFreed
      BY <1>0, <1>b, <1>d, <2>3, AllLower DEF Lower, IndexBounds
    <3>2. ~UpperFreed'
      BY <1>0, <1>1, <1>c, <1>f, <2>3, SizeType DEF IndexBounds, Upper, UpperFreed
    <3> QED
      BY <1>1, <2>1, <2>2, <3>1, <3>2
  <2>4. CASE current # 0
    BY <1>1, <2>1, <2>2, <2>4 DEF UpperFreed
  <2> QED
    BY <2>3, <2>4
<1>11. ASSUME q' # <<>>
       PROVE  RegionEnd(q'[Len(q')]) = IF current' = 0 THEN end' ELSE current'
  <2>1. /\ n - 1 \in 1 .. Len(q) - 1 /\ n - 1 \in 1 .. n - 1 /\ (n - 1) + 1 = n
        /\ Len(q') = n - 1 /\ q'[n - 1] = q[n - 1] /\ n - 1 \in 1 .. n
    BY <1>2, <1>b, <1>11 DEF n
  <2>2. \/ new.start = RegionEnd(q[n - 1])
        \/ new.start = 0 /\ RegionEnd(q[n - 1]) = end /\ Wrapped
    <3>1. \/ q[(n - 1) + 1].start = RegionEnd(q[n - 1])
          \/ q[(n - 1) + 1].start = 0 /\ RegionEnd(q[n - 1]) = end /\ Wrapped
      BY <1>0, <2>1 DEF Tiling
    <3> QED
      BY <2>1, <3>1 DEF new
  <2>3. RegionEnd(q[n - 1]) \in Int /\ RegionEnd(q[n - 1]) > 0
    <3>1. /\ q[n - 1].start \in Int /\ 0 <= q[n - 1].start
          /\ q[n - 1].len \in Int /\ 1 <= q[n - 1].len
          /\ RegionEnd(q[n - 1]) = q[n - 1].start + q[n - 1].len
      BY <1>d, <2>1
    <3> QED
      BY <3>1
  <2>4. CASE new.start = RegionEnd(q[n - 1])
    BY <1>1, <2>1, <2>3, <2>4
  <2>5. CASE new.start = 0 /\ RegionEnd(q[n - 1]) = end /\ Wrapped
    <3>1. current # 0
      BY <1>0, <1>f, <2>5 DEF IndexBounds, Upper
    <3> QED
      BY <1>1, <2>1, <2>5, <3>1
  <2> QED
    BY <2>2, <2>4, <2>5
<1>12. Tiling'
  BY <1>6, <1>7, <1>8, <1>9, <1>10, <1>11 DEF Tiling, RegionEnd
<1> QED
  BY <1>1, <1>2, <1>3, <1>4, <1>12 DEF Preserved, TypeNext

(* What is received is never taken out by a free of the oldest region while  *)
(* a newer one is being filled; every step of the server keeps the ring well *)
(* formed.                                                                   *)
LEMMA StepKeepsInv == RingInv /\ [Next]_vars => RingInv'
<1> SUFFICES ASSUME RingInv, [Next]_vars PROVE RingInv'
  OBVIOUS
<1>0. TypeOK /\ Geometry /\ Tiling /\ NoError /\ (incoming => q # <<>>)
  BY DEF RingInv
<1>1. ASSUME Preserved, incoming' \in BOOLEAN, incoming' => q' # <<>>
      PROVE  RingInv'
  BY <1>0, <1>1 DEF RingInv, Preserved, TypeNext, TypeOK, NoError, Regions
<1>2. ASSUME NEW count \in Counts, Receive(count) PROVE RingInv'
  BY <1>1, <1>2, GetStep DEF Receive
<1>3. ASSUME IsBufferEmpty, NEW count \in Counts, GetBuffer(count), incoming' \in BOOLEAN
      PROVE  RingInv'
  <2>1. IsBufferFree(count)
    BY <1>0, <1>3, EmptyHasRoom DEF EmptyRingFits
  <2> QED
    BY <1>1, <1>3, <2>1, GetStep
<1>4. ASSUME NEW count \in Counts, ReceiveWhileResizing(count) PROVE RingInv'
  BY <1>3, <1>4 DEF ReceiveWhileResizing
<1>5. ASSUME NEW count \in Counts, TakeFromClient(count) PROVE RingInv'
  BY <1>3, <1>5 DEF TakeFromClient
<1>6. ASSUME NEW count \in Counts, FreeSubEvent(count) PROVE RingInv'
  <2>1. Preserved /\ (Len(q) > 1 => q' # <<>>)
    BY <1>6, FreeStep DEF FreeSubEvent
  <2>2. incoming' = incoming /\ incoming \in BOOLEAN /\ (incoming => Len(q) > 1)
    BY <1>0, <1>6 DEF FreeSubEvent, TypeOK
  <2> QED
    BY <1>1, <2>1, <2>2
<1>7. ASSUME CompleteNotify PROVE RingInv'
  <2>1. Preserved /\ incoming' = FALSE
    BY <1>0, <1>7, PopStep DEF CompleteNotify
  <2> QED
    BY <1>1, <2>1
<1>8. ASSUME UNCHANGED <<first, current, end, used, q, failed>>, incoming' \in BOOLEAN,
             incoming' => incoming
      PROVE  RingInv'
  <2>1. TypeNext /\ failed' = failed
    BY <1>0, <1>8 DEF TypeNext, TypeOK, Regions
  <2>2. Geometry' /\ Tiling'
    BY <1>0, <1>8 DEF Geometry, Tiling, Wrapped, UpperFreed, Upper, Lower, RegionEnd
  <2> QED
    BY <1>0, <1>1, <1>8, <2>1, <2>2 DEF Preserved
<1>9. ASSUME CompleteEvents PROVE RingInv'
  BY <1>8, <1>9 DEF CompleteEvents, ring
<1>10. ASSUME UNCHANGED vars PROVE RingInv'
  BY <1>0, <1>8, <1>10 DEF vars, TypeOK
<1> QED
  BY <1>2, <1>4, <1>5, <1>6, <1>7, <1>9, <1>10 DEF Next

(* The ring as the constructor leaves it is well formed.                     *)
LEMMA InitHasInv == Init => RingInv
<1> SUFFICES ASSUME Init PROVE RingInv
  OBVIOUS
<1>1. q = <<>> /\ Len(q) = 0 /\ q \in Seq(Regions)
  BY DEF Init
<1>2. TypeOK
  <2>1. 0 \in 0 .. size - 1 /\ 1 \in 0 .. size - 1 /\ size \in 1 .. size
    BY SizeType
  <2> QED
    BY <1>1, <2>1 DEF Init, TypeOK, Regions
<1>3. Geometry
  BY SizeType DEF Init, Geometry, Wrapped
<1>4. Tiling
  BY <1>1, SizeType DEF Init, Tiling
<1> QED
  BY <1>2, <1>3, <1>4 DEF Init, RingInv, NoError

-----------------------------------------------------------------------------
(* The inductive invariant: the indices and the live regions describe the    *)
(* same tiling of the ring, and no request has met an ERROR.                 *)
THEOREM RingInvariant == Spec => []RingInv
BY InitHasInv, StepKeepsInv, PTL DEF Spec

(* The members of the ring keep their ranges.                                *)
THEOREM TypeCorrect == Spec => []TypeOK
<1>1. RingInv => TypeOK
  BY DEF RingInv
<1> QED
  BY <1>1, RingInvariant, PTL

(* No getBuffer, freeBuffer or popBuffer the server makes reaches an ERROR.  *)
THEOREM NoErrorEver == Spec => []NoError
<1>1. RingInv => NoError
  BY DEF RingInv
<1> QED
  BY <1>1, RingInvariant, PTL

(* A reception never overwrites bytes of a sub-event not yet processed.      *)
THEOREM LiveBytesKept == Spec => []LiveRegionsDisjoint
<1>1. RingInv => LiveRegionsDisjoint
  <2> SUFFICES ASSUME RingInv, NEW i \in 1 .. Len(q), NEW j \in 1 .. Len(q), i < j
               PROVE  \/ q[i].start + q[i].len <= q[j].start
                      \/ q[j].start + q[j].len <= q[i].start
    BY DEF LiveRegionsDisjoint
  <2>1. TypeOK /\ IndexBounds /\ Geometry
    BY IndexType DEF RingInv
  <2>2. RegionEnd(q[i]) <= q[j].start \/ (Upper(q[i]) /\ Lower(q[j]))
    BY DEF RingInv, Tiling
  <2>3. /\ RegionEnd(q[i]) = q[i].start + q[i].len
        /\ RegionEnd(q[j]) = q[j].start + q[j].len
        /\ q[i].start \in Int /\ q[i].len \in Int /\ q[j].start \in Int /\ q[j].len \in Int
    BY <2>1, RegionType
  <2> QED
    BY <2>1, <2>2, <2>3 DEF IndexBounds, Upper, Lower, Wrapped
<1> QED
  BY <1>1, RingInvariant, PTL

(* Every live region lies inside the allocation.                             *)
THEOREM LiveBytesInside == Spec => []LiveRegionsInside
<1>1. RingInv => LiveRegionsInside
  <2> SUFFICES ASSUME RingInv, NEW i \in 1 .. Len(q)
               PROVE  q[i].start + q[i].len <= size
    BY DEF LiveRegionsInside
  <2>1. TypeOK /\ IndexBounds /\ (Upper(q[i]) \/ Lower(q[i]))
    BY IndexType DEF RingInv, Tiling
  <2>2. RegionEnd(q[i]) = q[i].start + q[i].len /\ q[i].start \in Int /\ q[i].len \in Int
    BY <2>1, RegionType
  <2> QED
    BY <2>1, <2>2, SizeType DEF IndexBounds, Upper, Lower
<1> QED
  BY <1>1, RingInvariant, PTL

(* isBufferEmpty tells exactly whether a received byte is still referenced.  *)
THEOREM EmptinessExact == Spec => []EmptyMeansNoneLive
<1>1. RingInv => EmptyMeansNoneLive
  <2> SUFFICES ASSUME RingInv, q # <<>> PROVE used # 0
    BY DEF RingInv, Tiling, EmptyMeansNoneLive, IsBufferEmpty
  <2>1. TypeOK /\ IndexBounds /\ Geometry /\ 1 \in 1 .. Len(q)
    BY IndexType DEF RingInv, TypeOK
  <2>2. Upper(q[1]) \/ Lower(q[1])
    BY <2>1 DEF RingInv, Tiling
  <2>3. /\ RegionEnd(q[1]) = q[1].start + q[1].len
        /\ q[1].start \in Int /\ q[1].len \in Int /\ 1 <= q[1].len /\ 0 <= q[1].start
    BY <2>1, RegionType
  <2> QED
    BY <2>1, <2>2, <2>3 DEF IndexBounds, Geometry, Wrapped, Upper, Lower
<1> QED
  BY <1>1, RingInvariant, PTL

(* A server that waits for its ring to be empty can then take any message    *)
(* the client may send: it is never stuck on an awkward end position.        *)
THEOREM EmptyNeverStuck == Spec => []EmptyRingFits
<1>1. RingInv => EmptyRingFits
  BY EmptyHasRoom DEF RingInv
<1> QED
  BY <1>1, RingInvariant, PTL
=============================================================================
