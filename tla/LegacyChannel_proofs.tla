------------------------ MODULE LegacyChannel_proofs ------------------------
(* What holds of LegacyChannel for every number and size of events, every    *)
(* size of window and every size the buffer may be fixed to.                 *)
EXTENDS LegacyChannel, SequenceTheorems, TLAPS

(* The constants the messages are told apart by.                             *)
LEMMA Codes ==
  /\ Notify \in Nat /\ Notify > MaxTime /\ Change \in Nat /\ Change > MaxTime
  /\ Notify # Change /\ Notify \in 1 .. Change /\ CtlSize = 1
  /\ Nothing # Resize /\ Nothing # Finalize /\ Resize # Finalize
  /\ \A w \in {0, 1} : Other(w) \in {0, 1} /\ Other(w) # w /\ Other(Other(w)) = w
  /\ Other(0) = 1 /\ Other(1) = 0
BY SizesAssumption DEF Notify, Change, CtlSize, Nothing, Resize, Finalize, Other

(* The window as it is made.                                                 *)
LEMMA EmptyWindowType == EmptyWindow \in Window
BY SizesAssumption DEF EmptyWindow, Window, Nothing, Change

(* What getBuffer and the writes of its caller leave in a window.            *)
WrittenRight(w, n, tl, size, arg, addr) ==
  LET v == Written(w, n, tl, size, arg, addr)
      item == [at |-> n, tl |-> tl, size |-> size, arg |-> arg, addr |-> addr]
  IN
  /\ v \in Window /\ item \in Item
  /\ v.tl = IF w.tl = 0 THEN tl ELSE w.tl
  /\ v.cnt = n + size /\ v.notify = w.notify
  /\ v.mem = Below(w.mem, n) \cup {item}
  /\ Below(v.mem, n + size) = v.mem

(* It is the old contents below the offset, and the new item behind them.    *)
LEMMA WrittenFields ==
  ASSUME NEW w \in Window, NEW n \in Nat, NEW tl \in 1 .. Change, NEW size \in Nat \ {0},
         NEW arg \in Nat, NEW addr \in Nat
  PROVE  WrittenRight(w, n, tl, size, arg, addr)
<1> DEFINE v == Written(w, n, tl, size, arg, addr)
           item == [at |-> n, tl |-> tl, size |-> size, arg |-> arg, addr |-> addr]
<1>1. Change \in Nat
  BY Codes
<1>2. item \in Item
  BY DEF Item
<1>3. w \in [tl : 0 .. Change, cnt : Nat, notify : {Nothing, Resize, Finalize}, mem : SUBSET Item]
  BY DEF Window
<1>4. Below(w.mem, n) \cup {item} \in SUBSET Item
  BY <1>2, <1>3 DEF Below
<1>5. v = [w EXCEPT !.tl = IF w.tl = 0 THEN tl ELSE w.tl, !.cnt = n + size,
                    !.mem = Below(w.mem, n) \cup {item}]
  BY <1>3 DEF Written
<1>6. v \in [tl : 0 .. Change, cnt : Nat, notify : {Nothing, Resize, Finalize}, mem : SUBSET Item]
  <2>1. (IF w.tl = 0 THEN tl ELSE w.tl) \in 0 .. Change
    BY <1>1, <1>3
  <2>2. n + size \in Nat
    OBVIOUS
  <2> HIDE DEF v
  <2> QED
    BY <1>3, <1>4, <1>5, <2>1, <2>2
<1>7. /\ v.tl = IF w.tl = 0 THEN tl ELSE w.tl
      /\ v.cnt = n + size /\ v.notify = w.notify /\ v.mem = Below(w.mem, n) \cup {item}
  BY <1>3, <1>5
<1>8. \A i \in Below(w.mem, n) \cup {item} : i.at < n + size
  <2>1. \A i \in Below(w.mem, n) : i.at \in Nat /\ i.at < n
    BY <1>3 DEF Below, Item
  <2> QED
    BY <2>1, n + size > n
<1>9. Below(v.mem, n + size) = v.mem
  BY <1>7, <1>8 DEF Below
<1>10. v \in Window
  BY <1>6 DEF Window
<1> QED
  BY <1>2, <1>7, <1>9, <1>10 DEF WrittenRight

(* What checkBuffer and the server's take leave in a window.                 *)
LEMMA EmptiedFields ==
  ASSUME NEW w \in Window
  PROVE  /\ Emptied(w) \in Window /\ Emptied(w).tl = 0 /\ Emptied(w).cnt = 0
         /\ Emptied(w).notify = w.notify
<1>1. w \in [tl : 0 .. Change, cnt : Nat, notify : {Nothing, Resize, Finalize}, mem : SUBSET Item]
  BY DEF Window
<1>2. 0 \in 0 .. Change
  BY SizesAssumption DEF Change
<1>3. Emptied(w) = [w EXCEPT !.tl = 0, !.cnt = 0]
  BY DEF Emptied
<1>4. Emptied(w).tl = 0 /\ Emptied(w).cnt = 0 /\ Emptied(w).notify = w.notify
  BY <1>1, <1>3
<1>5. Emptied(w) \in [tl : 0 .. Change, cnt : Nat, notify : {Nothing, Resize, Finalize}, mem : SUBSET Item]
  <2>1. Emptied(w) = [tl |-> 0, cnt |-> 0, notify |-> w.notify, mem |-> w.mem]
    BY <1>1, <1>3
  <2>2. w.notify \in {Nothing, Resize, Finalize} /\ w.mem \in SUBSET Item
    BY <1>1
  <2> QED
    BY <1>2, <2>1, <2>2
<1> QED
  BY <1>4, <1>5 DEF Window

(* What a window whose word is cleared keeps.                                *)
LEMMA WordFields ==
  ASSUME NEW w \in Window
  PROVE  LET v == [w EXCEPT !.tl = 0] IN
         v \in Window /\ v.tl = 0 /\ v.cnt = w.cnt /\ v.notify = w.notify /\ v.mem = w.mem
<1>1. w \in [tl : 0 .. Change, cnt : Nat, notify : {Nothing, Resize, Finalize}, mem : SUBSET Item]
  BY DEF Window
<1> DEFINE v == [w EXCEPT !.tl = 0]
<1>2. v = [tl |-> 0, cnt |-> w.cnt, notify |-> w.notify, mem |-> w.mem]
  BY <1>1
<1>3. w.cnt \in Nat /\ w.notify \in {Nothing, Resize, Finalize} /\ w.mem \in SUBSET Item
  BY <1>1
<1>4. 0 \in 0 .. Change
  BY SizesAssumption DEF Change
<1> HIDE DEF v
<1>5. v \in Window
  BY <1>2, <1>3, <1>4 DEF Window
<1>6. v.tl = 0 /\ v.cnt = w.cnt /\ v.notify = w.notify /\ v.mem = w.mem
  BY <1>2
<1> QED
  BY <1>5, <1>6 DEF v

(* What a window in which a notification is put keeps.                       *)
LEMMA NotifyFields ==
  ASSUME NEW w \in Window, NEW x \in {Nothing, Resize, Finalize}
  PROVE  LET v == [w EXCEPT !.notify = x] IN
         v \in Window /\ v.tl = w.tl /\ v.cnt = w.cnt /\ v.notify = x /\ v.mem = w.mem
<1>1. w \in [tl : 0 .. Change, cnt : Nat, notify : {Nothing, Resize, Finalize}, mem : SUBSET Item]
  BY DEF Window
<1> DEFINE v == [w EXCEPT !.notify = x]
<1>2. v = [tl |-> w.tl, cnt |-> w.cnt, notify |-> x, mem |-> w.mem]
  BY <1>1
<1>3. w.tl \in 0 .. Change /\ w.cnt \in Nat /\ w.mem \in SUBSET Item
  BY <1>1
<1> HIDE DEF v
<1>5. v \in Window
  BY <1>2, <1>3 DEF Window
<1>6. v.tl = w.tl /\ v.cnt = w.cnt /\ v.notify = x /\ v.mem = w.mem
  BY <1>2
<1> QED
  BY <1>5, <1>6 DEF v

(* The bytes of a window are a message.                                      *)
LEMMA ContentsType ==
  ASSUME NEW w \in Window
  PROVE  /\ Contents(w) \in Message /\ Contents(w).n = w.cnt
         /\ Contents(w).items = Below(w.mem, w.cnt)
BY DEF Contents, Window, Message, Below

-----------------------------------------------------------------------------
(* The three stages.                                                         *)
LEMMA Single ==
  ASSUME NEW S, NEW s \in Seq(S), Len(s) <= 1, s # <<>>
  PROVE  /\ s = <<Head(s)>> /\ Head(s) = s[1] /\ Head(s) \in S
         /\ Tail(s) = <<>> /\ Len(s) = 1
<1>0. Len(s) \in Nat \ {0}
  BY EmptySeq
<1>1. Len(s) = 1
  <2>1. \A n \in Nat \ {0} : n <= 1 => n = 1
    OBVIOUS
  <2> QED
    BY <1>0, <2>1
<1>2. Head(s) = s[1] /\ Head(s) \in S /\ Tail(s) \in Seq(S) /\ Len(Tail(s)) = 0
  <2>1. Head(s) \in S /\ Tail(s) \in Seq(S) /\ Len(Tail(s)) = Len(s) - 1
    BY HeadTailProperties
  <2>2. Head(s) = s[1]
    OBVIOUS
  <2> QED
    BY <1>1, <2>1, <2>2
<1>3. Tail(s) = <<>>
  BY <1>2, EmptySeq
<1>4. s = <<Head(s)>>
  <2>1. <<Head(s)>> \in Seq(S) /\ Len(<<Head(s)>>) = 1 /\ <<Head(s)>>[1] = Head(s)
    BY <1>2
  <2> QED
    BY <1>1, <1>2, <2>1, SeqEqual
<1> QED
  BY <1>1, <1>2, <1>3, <1>4

(* The three stages are these.                                               *)
LEMMA ThreeStages == Stages = {1, 2, 3} /\ Stage(1) = request /\ Stage(2) = Between /\ Stage(3) = InWindow
BY DEF Stages, Stage

(* What is in a stage is the one message it holds.                           *)
LEMMA StageForm ==
  ASSUME TypeOK, StagesKept, NEW k \in Stages
  PROVE  /\ Stage(k) \in Seq(Message)
         /\ ~Empty(k) => /\ Stage(k) = <<Head(Stage(k))>> /\ Head(Stage(k)) \in Message
                         /\ Tail(Stage(k)) = <<>>
<1>1. CASE k = 1
  BY <1>1, Single DEF Stage, TypeOK, StagesKept, Empty
<1>2. CASE k = 2
  <2>1. Between \in Seq(Message) /\ Len(Between) <= 1
    BY DEF Between, TypeOK, StagesKept
  <2> QED
    BY <1>2, <2>1, Single DEF Stage, Empty
<1>3. CASE k = 3
  <2>1. win[cur] \in Window
    BY DEF TypeOK
  <2>2. Contents(win[cur]) \in Message
    BY <2>1, ContentsType
  <2> QED
    BY <1>3, <2>2 DEF Stage, Empty, InWindow
<1> QED
  BY <1>1, <1>2, <1>3 DEF Stages

(* Nothing is between the ranks, or one message is, sent or probed.          *)
LEMMA BetweenForm ==
  ASSUME TypeOK, StagesKept
  PROVE  /\ Empty(2) <=> wire = <<>> /\ probes = <<>>
         /\ wire # <<>> => /\ probes = <<>> /\ Stage(2) = wire /\ Tail(wire) = <<>>
                           /\ Head(wire) \in Message /\ wire = <<Head(wire)>>
         /\ probes # <<>> => /\ wire = <<>> /\ Stage(2) = probes /\ Tail(probes) = <<>>
                             /\ Head(probes) \in Message /\ probes = <<Head(probes)>>
<1>1. wire \in Seq(Message) /\ probes \in Seq(Message) /\ Len(wire) + Len(probes) <= 1
  BY DEF TypeOK, StagesKept
<1>a. Len(wire) \in Nat /\ Len(probes) \in Nat
  BY <1>1, LenProperties
<1>b. (wire # <<>> => Len(wire) \in Nat \ {0}) /\ (probes # <<>> => Len(probes) \in Nat \ {0})
  BY <1>1, EmptySeq
<1>2. /\ Len(wire) <= 1 /\ Len(probes) <= 1
      /\ wire # <<>> /\ probes # <<>> => FALSE
  BY <1>1, <1>a, <1>b
<1>4. Stage(2) = IF wire # <<>> THEN wire ELSE probes
  BY DEF Stage, Between
<1> QED
  BY <1>1, <1>2, <1>4, Single DEF Empty

(* A message is of one kind.                                                 *)
LEMMA OneKind ==
  ASSUME TypeOK, NEW k \in Stages
  PROVE  /\ ~(EventsIn(k) /\ NotifyIn(k)) /\ ~(EventsIn(k) /\ ChangeIn(k))
         /\ ~(NotifyIn(k) /\ ChangeIn(k))
<1>1. IsEvents(Head(Stage(k))) => /\ \E i \in Head(Stage(k)).items : i.at = 0
                                  /\ \A i \in Head(Stage(k)).items : i.tl < nextTL
  BY DEF IsEvents
<1>2. nextTL <= Notify /\ nextTL < Change /\ Notify # Change
  BY SizesAssumption DEF TypeOK, Notify, Change
<1>3. IsNotify(Head(Stage(k))) => /\ \E i \in Head(Stage(k)).items : i.tl = Notify
                                  /\ \A i \in Head(Stage(k)).items : i.tl = Notify
  <2> DEFINE note == [at |-> 0, tl |-> Notify, size |-> CtlSize, arg |-> 0, addr |-> 0]
  <2>1. note.tl = Notify
    OBVIOUS
  <2>2. IsNotify(Head(Stage(k))) => Head(Stage(k)).items = {note}
    BY DEF IsNotify
  <2> HIDE DEF note
  <2> QED
    BY <2>1, <2>2
<1>4. IsChange(Head(Stage(k))) => /\ \E i \in Head(Stage(k)).items : i.tl = Change
                                  /\ \A i \in Head(Stage(k)).items : i.tl = Change
  BY DEF IsChange
<1>5. nextTL \in Int /\ Notify \in Int /\ Change \in Int
  BY Codes DEF TypeOK
<1> QED
  BY <1>1, <1>2, <1>3, <1>4, <1>5 DEF EventsIn, NotifyIn, ChangeIn

KindsApart ==
  \A k \in Stages : /\ ~(EventsIn(k) /\ NotifyIn(k)) /\ ~(EventsIn(k) /\ ChangeIn(k))
                    /\ ~(NotifyIn(k) /\ ChangeIn(k))

(* A message is of one kind only, now ...                                    *)
LEMMA OneKindAlways == TypeOK => KindsApart
BY OneKind DEF KindsApart

(* ... and after a step.                                                     *)
LEMMA OneKindNext ==
  ASSUME TypeOK'
  PROVE  KindsApart'
BY OneKindAlways, PTL

-----------------------------------------------------------------------------
(* The stream of the client's bytes, and the events of a message in it.      *)
LEMMA ItemType ==
  ASSUME NEW i \in Item
  PROVE  /\ i.at \in Nat /\ i.tl \in 1 .. Change /\ i.size \in Nat \ {0} /\ i.arg \in Nat
         /\ i.addr \in Nat
BY DEF Item

(* The fields of a message and of its items.                                 *)
LEMMA MessageType ==
  ASSUME NEW m \in Message
  PROVE  /\ m.n \in Nat /\ \A i \in m.items : i \in Item
BY DEF Message

(* The offsets are numbers.                                                  *)
LEMMA OffsetType ==
  ASSUME TypeOK, OffsetsRight
  PROVE  /\ nextTL \in Nat /\ nextTL >= 1 /\ nextTL <= MaxTime + 1
         /\ \A t \in 1 .. nextTL : offset[t] \in Nat
         /\ \A t \in 1 .. MaxTime : plan[t] \in Nat
<1>1. offset \in Seq(Nat) /\ Len(offset) = nextTL /\ nextTL \in 1 .. MaxTime + 1
  BY DEF TypeOK, OffsetsRight
<1>2. \A t \in 1 .. nextTL : offset[t] \in Nat
  BY <1>1, ElementOfSeq
<1> QED
  BY <1>1, <1>2, SizesAssumption DEF TypeOK

(* An event ends before every later one begins.                              *)
LEMMA OffsetsGrow ==
  ASSUME TypeOK, OffsetsRight, NEW s \in 1 .. nextTL, NEW t \in 1 .. nextTL, s < t
  PROVE  offset[s] + plan[s] <= offset[t]
<1>1. s + 1 \in 1 .. nextTL /\ s \in 1 .. nextTL - 1 /\ s + 1 <= t
  BY OffsetType
<1>2. offset[s + 1] = offset[s] + plan[s] /\ offset[s + 1] <= offset[t]
  BY <1>1 DEF OffsetsRight
<1> QED
  BY <1>2

(* The last event of a message is the one its timeline is read from, and the *)
(* bytes of the message are those of the stream up to its end.               *)
LEMMA EventsOfMessage ==
  ASSUME TypeOK, OffsetsRight, NEW m \in Message, IsEvents(m)
  PROVE  \E a, z \in m.items :
           /\ LastTimeLine(m.items) = z.tl
           /\ m.n = offset[z.tl + 1] - offset[a.tl]
           /\ \A i \in m.items : a.tl <= i.tl /\ i.tl <= z.tl
<1>1. \A i \in m.items : /\ i.at \in Nat /\ i.size \in Nat \ {0} /\ i.size = plan[i.tl]
                         /\ i.tl \in 1 .. nextTL - 1 /\ i.tl \in 1 .. nextTL
                         /\ i.tl + 1 \in 1 .. nextTL /\ i.tl \in 1 .. MaxTime
                         /\ i.at + i.size <= m.n
  <2>1. \A i \in m.items : i.at \in Nat /\ i.tl \in 1 .. Change /\ i.size \in Nat \ {0}
    BY MessageType, ItemType
  <2>2. \A i \in m.items : i.tl < nextTL /\ i.size = plan[i.tl] /\ i.at + i.size <= m.n
    BY DEF IsEvents
  <2>3. Change \in Nat
    BY Codes
  <2> QED
    BY <2>1, <2>2, <2>3, OffsetType, SizesAssumption
<1>2. \A i, j \in m.items : /\ i.tl = j.tl => i = j
                            /\ j.at - i.at = offset[j.tl] - offset[i.tl]
  BY DEF IsEvents
<1>3. PICK a \in m.items : a.at = 0
  BY DEF IsEvents
<1>4. PICK z \in m.items : z.at + z.size = m.n
  BY DEF IsEvents
<1>5. \A i, j \in m.items : i.tl < j.tl => i.at + i.size <= j.at
  <2>1. SUFFICES ASSUME NEW i \in m.items, NEW j \in m.items, i.tl < j.tl
                 PROVE  i.at + i.size <= j.at
    OBVIOUS
  <2>2. offset[i.tl] + plan[i.tl] <= offset[j.tl]
    BY <1>1, <2>1, OffsetsGrow
  <2>3. offset[i.tl] \in Nat /\ offset[j.tl] \in Nat
    BY <1>1, OffsetType
  <2> QED
    BY <1>1, <1>2, <2>2, <2>3
<1>6. \A i \in m.items : i.tl <= z.tl
  BY <1>1, <1>4, <1>5
<1>7. \A i \in m.items : a.tl <= i.tl
  BY <1>1, <1>3, <1>5
<1>8. m.n = offset[z.tl + 1] - offset[a.tl]
  <2>1. z.at - a.at = offset[z.tl] - offset[a.tl] /\ offset[z.tl + 1] = offset[z.tl] + plan[z.tl]
    BY <1>1, <1>2 DEF OffsetsRight
  <2>2. offset[z.tl] \in Nat /\ offset[a.tl] \in Nat /\ offset[z.tl + 1] \in Nat
    BY <1>1, OffsetType
  <2> QED
    BY <1>1, <1>3, <1>4, <2>1, <2>2
<1>9. LastTimeLine(m.items) = z.tl
  <2>1. ASSUME NEW other \in m.items
        PROVE  other.at <= z.at
    <3>1. CASE other.tl = z.tl
      BY <1>1, <1>2, <3>1
    <3>2. CASE other.tl < z.tl
      BY <1>1, <1>5, <3>2
    <3> QED
      BY <1>1, <1>6, <3>1, <3>2
  <2> DEFINE c == CHOOSE item \in m.items : \A other \in m.items : other.at <= item.at
  <2>2. c \in m.items /\ \A other \in m.items : other.at <= c.at
    BY <2>1
  <2>3. LastTimeLine(m.items) = c.tl
    BY DEF LastTimeLine
  <2> HIDE DEF c
  <2>4. ~(c.tl < z.tl)
    BY <1>1, <1>5, <2>2
  <2> QED
    BY <1>1, <1>6, <2>2, <2>3, <2>4
<1> QED
  BY <1>6, <1>7, <1>8, <1>9

(* What the server learns when it reads the first message of events.         *)
LEMMA FirstEvents ==
  ASSUME TypeOK, StagesKept, NoneLost, OffsetsRight, NEW k \in Stages, EventsIn(k),
         \A j \in Stages : j < k => Empty(j),
         NEW m, m = Head(Stage(k)), NEW L, L = LastTimeLine(m.items)
  PROVE  /\ m \in Message /\ L \in 1 .. nextTL - 1 /\ lastTL < L /\ curTL <= L
         /\ \A i \in m.items : /\ i \in Item /\ i.tl \in Nat /\ curTL <= i.tl /\ i.tl <= L
                                /\ lastTL < i.tl /\ i.size = plan[i.tl]
         /\ \A i, j \in m.items : i.tl = j.tl => i = j
         /\ \A t \in 1 .. L : plan[t] > 0 /\ t > lastTL => \E i \in m.items : i.tl = t
         /\ \A j \in Stages : j # k /\ EventsIn(j) =>
              \A i \in Head(Stage(j)).items : i.tl > L
         /\ offset[L + 1] - offset[curTL] = HeldBytes + m.n
<1>1. IsEvents(m) /\ m \in Message /\ ~Empty(k)
  BY StageForm DEF EventsIn
<1>2. PICK a, z \in m.items :
        /\ L = z.tl /\ m.n = offset[L + 1] - offset[a.tl]
        /\ \A i \in m.items : a.tl <= i.tl /\ i.tl <= z.tl
  BY <1>1, EventsOfMessage
<1>3. \A i \in m.items : /\ i \in Item /\ i.tl \in 1 .. nextTL - 1 /\ curTL <= i.tl
                         /\ lastTL < i.tl /\ i.size = plan[i.tl] /\ i.tl \in Nat
  <2>1. \A i \in m.items : i \in Item /\ i.tl \in 1 .. Change
    BY <1>1, MessageType, ItemType
  <2>2. \A i \in m.items : i.tl < nextTL /\ i.tl > lastTL /\ i.tl >= curTL /\ i.size = plan[i.tl]
    BY <1>1 DEF IsEvents
  <2>3. Change \in Nat /\ nextTL \in Int /\ lastTL \in Int /\ curTL \in Int
    BY Codes, SizesAssumption DEF TypeOK
  <2> QED
    BY <2>1, <2>2, <2>3
<1>4. \A i, j \in m.items : i.tl = j.tl => i = j
  BY <1>1 DEF IsEvents
<1>t. /\ nextTL \in Nat /\ curTL \in Nat /\ lastTL \in Nat /\ nextTL <= MaxTime + 1
      /\ curTL >= 1 /\ lastTL < nextTL /\ MaxTime \in Nat
  BY SizesAssumption DEF TypeOK, NoneLost
<1>5. \A j \in Stages : j # k /\ EventsIn(j) => \A i \in Head(Stage(j)).items : i.tl > L
  <2>1. SUFFICES ASSUME NEW j \in Stages, j # k, EventsIn(j), NEW i \in Head(Stage(j)).items
                 PROVE  z.tl < i.tl
    <3>1. L = z.tl /\ z.tl \in Nat
      BY <1>2, <1>3
    <3>2. \A j \in Stages : EventsIn(j) => \A i \in Head(Stage(j)).items : i.tl \in Nat
      <4>1. SUFFICES ASSUME NEW j \in Stages, EventsIn(j), NEW i \in Head(Stage(j)).items
                     PROVE  i.tl \in Nat
        OBVIOUS
      <4>2. Head(Stage(j)) \in Message
        BY <4>1, StageForm DEF EventsIn
      <4>3. i \in Item
        BY <4>2, <4>1, MessageType
      <4> QED
        BY <4>3, ItemType, Codes
    <3> QED
      BY <3>1, <3>2
  <2>2. k < j
    <3>1. ~Empty(j)
      BY <2>1 DEF EventsIn
    <3> QED
      BY <2>1, <3>1 DEF Stages
  <2> QED
    BY <1>2, <2>1, <2>2 DEF StagesKept
<1>6. \A t \in 1 .. nextTL - 1 : plan[t] > 0 /\ t > lastTL /\ t <= L => \E i \in m.items : i.tl = t
  <2>1. SUFFICES ASSUME NEW t \in 1 .. nextTL - 1, plan[t] > 0, t > lastTL, t <= L
                 PROVE  \E i \in m.items : i.tl = t
    OBVIOUS
  <2>2. PICK j \in Stages : Waits(j, t)
    BY <2>1 DEF NoneLost
  <2>3. PICK i \in Head(Stage(j)).items : i.tl = t
    BY <2>2 DEF Waits
  <2>4. ~Empty(j)
    BY <2>2 DEF Waits
  <2>5. EventsIn(j)
    <3>1. t <= MaxTime
      BY <1>t, <2>1
    <3>2. t # Notify /\ t # Change
      BY <3>1, <1>t DEF Notify, Change
    <3>3. ~NotifyIn(j)
      <4>1. IsNotify(Head(Stage(j))) => i.tl = Notify
        BY <2>3 DEF IsNotify
      <4> QED
        BY <4>1, <3>2, <2>3 DEF NotifyIn
    <3>4. ~ChangeIn(j)
      BY <3>2, <2>3 DEF ChangeIn, IsChange
    <3> QED
      BY <2>4, <3>3, <3>4 DEF StagesKept
  <2>6. CASE j = k
    BY <2>3, <2>6
  <2>7. CASE j # k
    <3>1. i.tl > L /\ L \in Nat
      BY <1>2, <1>3, <1>5, <2>3, <2>5, <2>7
    <3> QED
      BY <2>1, <2>3, <3>1, <1>t
  <2> QED
    BY <2>6, <2>7
<1>7. L \in 1 .. nextTL - 1 /\ lastTL < L /\ curTL <= L
  BY <1>2, <1>3
<1>8. \A t \in 1 .. nextTL - 1 : t > lastTL /\ t < a.tl => plan[t] = 0
  <2>1. SUFFICES ASSUME NEW t \in 1 .. nextTL - 1, t > lastTL, t < a.tl, plan[t] # 0
                 PROVE  FALSE
    OBVIOUS
  <2>2. plan[t] > 0 /\ a.tl \in Nat /\ a.tl <= L
    BY <1>2, <1>3, <1>t, <2>1, OffsetType
  <2>3. PICK i \in m.items : i.tl = t
    BY <1>6, <1>7, <2>1, <2>2
  <2> QED
    BY <1>2, <1>3, <2>1, <2>2, <2>3
<1>9. offset[L + 1] - offset[curTL] = HeldBytes + m.n
  <2>1. a.tl \in 1 .. nextTL - 1 /\ lastTL < a.tl /\ curTL <= a.tl
    BY <1>3
  <2>2. CASE curTL <= lastTL
    <3>1. offset[lastTL + 1] = offset[a.tl]
      <4>1. lastTL + 1 \in 1 .. nextTL /\ a.tl \in 1 .. nextTL /\ lastTL + 1 <= a.tl
        BY <1>t, <2>1
      <4>2. \A u \in lastTL + 1 .. a.tl - 1 : plan[u] = 0
        BY <1>8, <1>t, <2>1
      <4> QED
        BY <4>1, <4>2 DEF OffsetsRight
    <3>2. HeldBytes = offset[lastTL + 1] - offset[curTL]
      BY <2>2 DEF HeldBytes
    <3>3. /\ offset[lastTL + 1] \in Nat /\ offset[curTL] \in Nat /\ offset[L + 1] \in Nat
          /\ offset[a.tl] \in Nat
      BY OffsetType, <1>t, <2>1, <2>2, <1>7
    <3> QED
      BY <1>2, <3>1, <3>2, <3>3
  <2>3. CASE curTL > lastTL
    <3>1. offset[curTL] = offset[a.tl]
      <4>1. curTL \in 1 .. nextTL /\ a.tl \in 1 .. nextTL /\ curTL <= a.tl
        BY <1>t, <2>1
      <4>2. \A u \in curTL .. a.tl - 1 : plan[u] = 0
        BY <1>8, <1>t, <2>1, <2>3
      <4> QED
        BY <4>1, <4>2 DEF OffsetsRight
    <3>2. HeldBytes = 0
      BY <2>3, <1>t DEF HeldBytes
    <3>3. offset[curTL] \in Nat /\ offset[L + 1] \in Nat
      BY OffsetType, <1>t, <2>1, <1>7
    <3> QED
      BY <1>2, <3>1, <3>2, <3>3
  <2> QED
    BY <1>t, <2>2, <2>3
<1>10. \A t \in 1 .. L : t \in 1 .. nextTL - 1 /\ t <= L
  BY <1>7, <1>t
<1> QED
  BY <1>1, <1>2, <1>3, <1>4, <1>5, <1>6, <1>7, <1>9, <1>10

(* What is in a stage that an action leaves alone, or moves.                 *)
LEMMA SameStage ==
  ASSUME NEW j \in Stages, NEW k \in Stages, Stage(j)' = Stage(k), UNCHANGED epoch
  PROVE  /\ Empty(j)' <=> Empty(k)
         /\ NotifyIn(j)' <=> NotifyIn(k)
         /\ ChangeIn(j)' <=> ChangeIn(k)
         /\ \A t : Waits(j, t)' <=> Waits(k, t)
         /\ UNCHANGED <<nextTL, lastTL, curTL, plan, offset>> => (EventsIn(j)' <=> EventsIn(k))
<1>1. Empty(j)' <=> Empty(k)
  BY DEF Empty
<1>2. NotifyIn(j)' <=> NotifyIn(k)
  BY <1>1 DEF NotifyIn, IsNotify, Notify, Change, CtlSize
<1>3. ChangeIn(j)' <=> ChangeIn(k)
  BY <1>1 DEF ChangeIn, IsChange, Notify, Change, CtlSize
<1>4. \A t : Waits(j, t)' <=> Waits(k, t)
  BY <1>1 DEF Waits
<1>5. UNCHANGED <<nextTL, lastTL, curTL, plan, offset>> => (EventsIn(j)' <=> EventsIn(k))
  BY <1>1 DEF EventsIn, IsEvents
<1> QED
  BY <1>1, <1>2, <1>3, <1>4, <1>5

(* Nothing is in an empty stage.                                             *)
LEMMA EmptyStage ==
  ASSUME NEW k \in Stages, Empty(k)
  PROVE  ~NotifyIn(k) /\ ~ChangeIn(k) /\ ~EventsIn(k) /\ \A t : ~Waits(k, t)
BY DEF NotifyIn, ChangeIn, EventsIn, Waits

(* The items of the ring, without their bytes.                               *)
HeldRight ==
  /\ \A item \in held : item.tl \in curTL .. lastTL /\ item.size = plan[item.tl]
  /\ \A t \in curTL .. lastTL : plan[t] > 0 => \E item \in held : item.tl = t
  /\ \A i, j \in held : i.tl = j.tl => i = j

(* The events of the first message become sub-events of the ring.            *)
LEMMA EventsRead ==
  ASSUME TypeOK, StagesKept, NoneLost, OffsetsRight, HeldRight, NEW k \in Stages, EventsIn(k),
         \A j \in Stages : j < k => Empty(j),
         NEW m, m = Head(Stage(k)), NEW L, L = LastTimeLine(m.items),
         held' = held \cup m.items, lastTL' = L,
         Empty(k)', \A j \in Stages : j # k => Stage(j)' = Stage(j),
         UNCHANGED <<nextTL, plan, offset, curTL, busy, epoch>>
  PROVE  /\ NoneLost' /\ HeldRight' /\ HeldBytes' = HeldBytes + m.n
         /\ \A j \in Stages : j # k => /\ Empty(j)' <=> Empty(j)
                                       /\ NotifyIn(j)' <=> NotifyIn(j)
                                       /\ ChangeIn(j)' <=> ChangeIn(j)
                                       /\ EventsIn(j) => EventsIn(j)'
         /\ ~NotifyIn(k)' /\ ~ChangeIn(k)' /\ ~EventsIn(k)'
         /\ m \in Message /\ L \in 0 .. MaxTime /\ held' \subseteq Item
<1>t. /\ nextTL \in Nat /\ curTL \in Nat /\ lastTL \in Nat /\ nextTL <= MaxTime + 1
      /\ curTL >= 1 /\ lastTL < nextTL /\ MaxTime \in Nat /\ held \subseteq Item
  BY SizesAssumption DEF TypeOK, NoneLost
<1>1. /\ m \in Message /\ L \in 1 .. nextTL - 1 /\ lastTL < L /\ curTL <= L
      /\ \A i \in m.items : /\ i \in Item /\ i.tl \in Nat /\ curTL <= i.tl /\ i.tl <= L
                             /\ lastTL < i.tl /\ i.size = plan[i.tl]
      /\ \A i, j \in m.items : i.tl = j.tl => i = j
      /\ \A t \in 1 .. L : plan[t] > 0 /\ t > lastTL => \E i \in m.items : i.tl = t
      /\ \A j \in Stages : j # k /\ EventsIn(j) =>
           \A i \in Head(Stage(j)).items : i.tl > L
      /\ offset[L + 1] - offset[curTL] = HeldBytes + m.n
  BY FirstEvents
<1>2. \A j \in Stages : j # k => /\ Empty(j)' <=> Empty(j)
                                 /\ NotifyIn(j)' <=> NotifyIn(j)
                                 /\ ChangeIn(j)' <=> ChangeIn(j)
                                 /\ \A t : Waits(j, t)' <=> Waits(j, t)
  BY SameStage
<1>3. ~NotifyIn(k)' /\ ~ChangeIn(k)' /\ ~EventsIn(k)' /\ \A t : ~Waits(k, t)'
  BY DEF NotifyIn, ChangeIn, EventsIn, Waits
<1>4. \A j \in Stages : j # k /\ EventsIn(j) => EventsIn(j)'
  <2>1. SUFFICES ASSUME NEW j \in Stages, j # k, EventsIn(j)
                 PROVE  EventsIn(j)'
    OBVIOUS
  <2>2. \A i \in Head(Stage(j)).items : i.tl > L
    BY <1>1, <2>1
  <2>3. Stage(j)' = Stage(j)
    BY <2>1
  <2> QED
    BY <2>1, <2>2, <2>3 DEF EventsIn, IsEvents, Empty
<1>5. HeldBytes' = HeldBytes + m.n
  BY <1>1, <1>t DEF HeldBytes
<1>6. NoneLost'
  <2>1. lastTL' < nextTL'
    BY <1>1, <1>t
  <2>2. ASSUME NEW t \in 1 .. nextTL' - 1, plan'[t] > 0 /\ t > lastTL'
        PROVE  t >= curTL' /\ \E j \in Stages : Waits(j, t)'
    <3>1. t \in 1 .. nextTL - 1 /\ plan[t] > 0 /\ t > lastTL /\ t > L
      BY <1>1, <1>t, <2>2
    <3>2. PICK j \in Stages : Waits(j, t)
      BY <3>1 DEF NoneLost
    <3>3. j # k
      <4>1. SUFFICES ASSUME j = k PROVE FALSE
        OBVIOUS
      <4>2. \E i \in m.items : i.tl = t
        BY <3>2, <4>1 DEF Waits
      <4> QED
        BY <1>1, <1>t, <3>1, <4>2
    <3>4. Waits(j, t)'
      BY <1>2, <3>2, <3>3
    <3>5. t >= curTL
      BY <3>1 DEF NoneLost
    <3> QED
      BY <3>4, <3>5
  <2>3. \A t \in 1 .. MaxTime : plan'[t] > 0 /\ t < curTL' => t <= lastTL'
    BY <1>1, <1>t DEF NoneLost
  <2>4. busy' => \E item \in held' : IsCurrent(item)'
    BY DEF NoneLost, IsCurrent
  <2> QED
    BY <2>1, <2>2, <2>3, <2>4 DEF NoneLost
<1>7. HeldRight'
  <2>1. ASSUME NEW i \in held'
        PROVE  i.tl \in curTL .. L /\ i.size = plan[i.tl]
    BY <1>1, <1>t, <2>1 DEF HeldRight
  <2>2. ASSUME NEW t \in curTL .. L, plan[t] > 0
        PROVE  \E i \in held' : i.tl = t
    <3>1. CASE t <= lastTL
      BY <1>t, <2>2, <3>1 DEF HeldRight
    <3>2. CASE t > lastTL
      BY <1>1, <1>t, <2>2, <3>2
    <3> QED
      BY <1>t, <3>1, <3>2
  <2>3. ASSUME NEW i \in held', NEW j \in held', i.tl = j.tl
        PROVE  i = j
    <3>1. (i \in held => i.tl <= lastTL) /\ (j \in held => j.tl <= lastTL)
      BY DEF HeldRight
    <3>2. (i \in m.items => lastTL < i.tl) /\ (j \in m.items => lastTL < j.tl)
      BY <1>1
    <3>3. i.tl \in Int
      BY <1>1, <1>t, <2>3 DEF HeldRight
    <3>4. (i \in held /\ j \in held) \/ (i \in m.items /\ j \in m.items)
      BY <1>t, <2>3, <3>1, <3>2, <3>3
    <3> QED
      BY <1>1, <2>3, <3>4 DEF HeldRight
  <2> QED
    BY <2>1, <2>2, <2>3 DEF HeldRight
<1>8. L \in 0 .. MaxTime /\ held' \subseteq Item
  BY <1>1, <1>t
<1> QED
  BY <1>1, <1>2, <1>3, <1>4, <1>5, <1>6, <1>7, <1>8

-----------------------------------------------------------------------------
(* The steps.  First those that leave the stages as they are.                *)
SameObservers ==
  \A k \in Stages : /\ Empty(k)' <=> Empty(k)
                    /\ NotifyIn(k)' <=> NotifyIn(k)
                    /\ ChangeIn(k)' <=> ChangeIn(k)
                    /\ EventsIn(k)' <=> EventsIn(k)
                    /\ \A t : Waits(k, t)' <=> Waits(k, t)

(* With the stages, what is seen of them is unchanged ...                    *)
LEMMA SameStages ==
  ASSUME \A k \in Stages : Stage(k)' = Stage(k),
         UNCHANGED <<nextTL, lastTL, curTL, plan, offset, epoch>>
  PROVE  SameObservers
BY SameStage DEF SameObservers

(* A step that changes no stage keeps each part of the invariant: StagesKept, *)
LEMMA StagesFrame ==
  ASSUME StagesKept, SameObservers, \A k \in Stages : Stage(k)' = Stage(k),
         Len(request') <= 1, Len(wire') + Len(probes') <= 1, ~Empty(2)' => pending',
         pc' \in {"wait", "released"} => ~pending' /\ Empty(3)'
  PROVE  StagesKept'
<1>1. \A k \in Stages : ~Empty(k)' => EventsIn(k)' \/ NotifyIn(k)' \/ ChangeIn(k)'
  BY DEF StagesKept, SameObservers
<1>2. \A k \in Stages : NotifyIn(k)' \/ ChangeIn(k)' => Head(Stage(k))'.n = CtlSize
  BY DEF StagesKept, SameObservers
<1>3. \A j, k \in Stages : j < k /\ EventsIn(j)' /\ EventsIn(k)' =>
        \A a \in Head(Stage(j))'.items, b \in Head(Stage(k))'.items : a.tl < b.tl
  BY DEF StagesKept, SameObservers
<1> QED
  BY <1>1, <1>2, <1>3 DEF StagesKept, CtlSize

(* NoneLost,                                                                 *)
LEMMA NoneLostFrame ==
  ASSUME NoneLost, SameObservers, UNCHANGED <<nextTL, lastTL, curTL, plan, held, busy>>
  PROVE  NoneLost'
<1>1. \A t \in 1 .. nextTL - 1 :
        plan[t] > 0 /\ t > lastTL => t >= curTL /\ \E k \in Stages : Waits(k, t)'
  BY DEF NoneLost, SameObservers
<1>2. busy' => \E item \in held' : IsCurrent(item)'
  BY DEF NoneLost, IsCurrent
<1> QED
  BY <1>1, <1>2 DEF NoneLost

(* WordsRight,                                                               *)
LEMMA WordsFrame ==
  ASSUME WordsRight, SameObservers, UNCHANGED <<win, cur>>
  PROVE  WordsRight'
BY DEF WordsRight, SameObservers, Stages

(* the kinds of the stages, one by one,                                      *)
LEMMA StageByStage ==
  ASSUME SameObservers
  PROVE  /\ Empty(1)' <=> Empty(1)
         /\ Empty(2)' <=> Empty(2)
         /\ Empty(3)' <=> Empty(3)
         /\ NotifyIn(1)' <=> NotifyIn(1)
         /\ NotifyIn(2)' <=> NotifyIn(2)
         /\ NotifyIn(3)' <=> NotifyIn(3)
         /\ ChangeIn(1)' <=> ChangeIn(1)
         /\ ChangeIn(2)' <=> ChangeIn(2)
         /\ ChangeIn(3)' <=> ChangeIn(3)
         /\ EventsIn(3)' <=> EventsIn(3)
         /\ Answered' <=> Answered
BY DEF SameObservers, Stages, Answered

(* DialogueKept,                                                             *)
LEMMA DialogueFrame ==
  ASSUME TypeOK, DialogueKept, SameObservers,
         UNCHANGED <<step, resizing, lastTL, epoch, sepoch, cur, held, newSize>>,
         \A w \in {0, 1} : win'[w].notify = win[w].notify,
         step > 0 => pc' = "open" /\ (blocked' \/ fixed'),
         pc' # "released" => pc # "released"
  PROVE  DialogueKept'
<1>1. \A w \in {0, 1} : win'[w].notify = Resize => w = cur' /\ step' = 2 /\ Answered'
  BY StageByStage DEF DialogueKept
<1>2. (\A k \in Stages : ~ChangeIn(k)') /\ pc' # "released" => epoch' = sepoch'
  BY StageByStage DEF DialogueKept, Stages
<1>3. step' = 2 => \/ \E k \in Stages : NotifyIn(k)'
                   \/ Answered' /\ resizing' /\ win'[cur'].notify = Resize
  <2>1. step = 2 /\ win[cur].notify = Resize => win'[cur].notify = Resize
    BY DEF TypeOK
  <2> QED
    BY <2>1, StageByStage DEF DialogueKept, Stages
<1> QED
  BY <1>1, <1>2, <1>3, StageByStage DEF DialogueKept, Stages, Resize

(* TurnsKept,                                                                *)
LEMMA TurnsFrame ==
  ASSUME TurnsKept, SameObservers, UNCHANGED <<resizing, swin, cur>>
  PROVE  TurnsKept'
BY StageByStage DEF TurnsKept

(* EndKept,                                                                  *)
LEMMA EndFrame ==
  ASSUME EndKept, UNCHANGED <<pc, nextTL, plan, blocked, win, curTL, busy>>
  PROVE  EndKept'
BY DEF EndKept, Finalize

(* HistoryKept,                                                              *)
LEMMA HistoryFrame ==
  ASSUME HistoryKept, UNCHANGED <<accepted, processed, nextTL, plan, curTL, busy>>
  PROVE  HistoryKept'
BY DEF HistoryKept, Handed

(* RingAccounted,                                                            *)
LEMMA RingFrame ==
  ASSUME RingAccounted, UNCHANGED <<held, curTL, lastTL, plan, used, offset, request>>
  PROVE  RingAccounted'
BY DEF RingAccounted, HeldBytes

(* and LocalCountSafe.                                                       *)
LEMMA CountFrame ==
  ASSUME LocalCountSafe, UNCHANGED <<win, cur, count, bufSize>>
  PROVE  LocalCountSafe'
BY DEF LocalCountSafe, Other

(* listen: a message sent becomes a message probed.                          *)
LEMMA ListenStep ==
  ASSUME LegacyInv, Listen
  PROVE  LegacyInv'
<1> USE DEF LegacyInv
<1>1. /\ wire # <<>> /\ wire' = Tail(wire) /\ probes' = Append(probes, Head(wire))
      /\ UNCHANGED <<clientVars, win, request, swin, resizing, used, ring, held,
                     curTL, lastTL, busy, sepoch, processed, stale>>
  BY DEF Listen
<1>2. wire' = <<>> /\ probes' = wire /\ Head(wire) \in Message
  <2>1. probes = <<>> /\ Tail(wire) = <<>> /\ Head(wire) \in Message /\ wire = <<Head(wire)>>
    BY <1>1, BetweenForm
  <2> QED
    BY <1>1, <2>1
<1>3. TypeOK'
  BY <1>1, <1>2 DEF TypeOK, clientVars
<1>4. \A k \in Stages : Stage(k)' = Stage(k)
  BY <1>1, <1>2 DEF Stage, Between, InWindow, Contents, Below, clientVars
<1>5. SameObservers
  BY <1>1, <1>4, SameStages DEF clientVars
<1>6. StagesKept'
  <2>1. Len(request') <= 1 /\ Len(wire') + Len(probes') <= 1
    BY <1>1, <1>2 DEF StagesKept
  <2> QED
    BY <1>1, <1>4, <1>5, <2>1, StagesFrame, StageByStage DEF StagesKept, clientVars
<1>7. NoneLost' /\ OffsetsRight' /\ WordsRight'
  BY <1>1, <1>5, NoneLostFrame, WordsFrame DEF clientVars, OffsetsRight
<1>8. DialogueKept' /\ TurnsKept' /\ EndKept'
  BY <1>1, <1>5, DialogueFrame, TurnsFrame, EndFrame DEF clientVars, DialogueKept
<1>9. HistoryKept' /\ NoStaleAccess' /\ LocalCountSafe' /\ RingAccounted'
  BY <1>1, HistoryFrame, CountFrame, RingFrame DEF clientVars, NoStaleAccess
<1> QED
  BY <1>3, <1>6, <1>7, <1>8, <1>9

(* checkBuffer finds its request complete.                                   *)
LEMMA TestSendStep ==
  ASSUME LegacyInv, TestSend
  PROVE  LegacyInv'
<1> USE DEF LegacyInv
<1>1. /\ pc \in {"open", "drain"} /\ pending' = FALSE /\ wire = <<>> /\ probes = <<>>
      /\ UNCHANGED <<pureOneSided, plan, nextTL, pc, blocked, cur, count, win,
                     step, bufSize, newSize, growable, fixed, epoch, accepted, offset,
                     wire, serverVars>>
  BY DEF TestSend, Matched
<1>3. TypeOK'
  <2>1. pending' \in BOOLEAN
    BY <1>1, Zenon
  <2>2. /\ UNCHANGED <<pureOneSided, plan, nextTL, pc, blocked, cur, count, win, step>>
        /\ UNCHANGED <<bufSize, newSize, growable, fixed, epoch, accepted, offset>>
        /\ UNCHANGED <<wire, serverVars>>
    BY <1>1
  <2> QED
    BY <2>1, <2>2 DEF TypeOK, serverVars
<1>4. \A k \in Stages : Stage(k)' = Stage(k)
  BY <1>1 DEF Stage, Between, InWindow, Contents, Below, serverVars
<1>5. SameObservers
  BY <1>1, <1>4, SameStages DEF serverVars
<1>6. StagesKept'
  <2>1. Empty(2)
    BY <1>1, BetweenForm
  <2>2. Len(request') <= 1 /\ Len(wire') + Len(probes') <= 1
    BY <1>1 DEF StagesKept, serverVars
  <2> QED
    BY <1>1, <1>4, <1>5, <2>1, <2>2, StagesFrame, StageByStage
<1>7. NoneLost' /\ OffsetsRight' /\ WordsRight'
  BY <1>1, <1>5, NoneLostFrame, WordsFrame DEF serverVars, OffsetsRight
<1>8. DialogueKept' /\ TurnsKept' /\ EndKept'
  BY <1>1, <1>5, DialogueFrame, TurnsFrame, EndFrame DEF serverVars, DialogueKept
<1>9. HistoryKept' /\ NoStaleAccess' /\ LocalCountSafe' /\ RingAccounted'
  BY <1>1, HistoryFrame, CountFrame, RingFrame DEF serverVars, NoStaleAccess
<1> QED
  BY <1>3, <1>6, <1>7, <1>8, <1>9

(* The window's byte count the client reads again is the one it knew, or 0.  *)
LEMMA CountRefreshed ==
  ASSUME TypeOK, LocalCountSafe, count' = win[cur].cnt, UNCHANGED <<win, cur, bufSize>>
  PROVE  LocalCountSafe' /\ count' \in Nat
<1>1. /\ win[cur].cnt \in Nat /\ count \in Nat /\ bufSize \in Nat
      /\ win[cur].cnt \in {0, count} /\ count <= bufSize
  BY DEF TypeOK, Window, LocalCountSafe
<1>2. count' <= bufSize
  BY <1>1
<1> QED
  BY <1>1, <1>2 DEF LocalCountSafe, Other

(* sendEvent has room here, not on another server.                           *)
LEMMA OthersNotFreeStep ==
  ASSUME LegacyInv, OthersNotFree
  PROVE  LegacyInv'
<1> USE DEF LegacyInv
<1>1. /\ pc = "open" /\ step = 0 /\ blocked' = TRUE /\ count' = win[cur].cnt
      /\ UNCHANGED <<pureOneSided, plan, nextTL, pc, cur, win, pending, step,
                     bufSize, newSize, growable, fixed, epoch, accepted, offset, wire,
                     serverVars>>
  BY DEF OthersNotFree, Sending, Frozen, Refreshed, TypeOK
<1>2. LocalCountSafe' /\ count' \in Nat
  BY <1>1, CountRefreshed
<1>3. TypeOK'
  BY <1>1, <1>2 DEF TypeOK, serverVars
<1>4. \A k \in Stages : Stage(k)' = Stage(k)
  BY <1>1 DEF Stage, Between, InWindow, Contents, Below, serverVars
<1>5. SameObservers
  BY <1>1, <1>4, SameStages DEF serverVars
<1>6. StagesKept'
  <2>2. Len(request') <= 1 /\ Len(wire') + Len(probes') <= 1
    BY <1>1 DEF StagesKept, serverVars
  <2> QED
    BY <1>1, <1>4, <1>5, <2>2, StagesFrame, StageByStage DEF StagesKept
<1>7. NoneLost' /\ OffsetsRight' /\ WordsRight'
  BY <1>1, <1>5, NoneLostFrame, WordsFrame DEF serverVars, OffsetsRight
<1>8. DialogueKept' /\ TurnsKept' /\ EndKept'
  <2>1. EndKept'
    BY <1>1 DEF EndKept, Finalize, serverVars
  <2> QED
    BY <1>1, <1>5, <2>1, DialogueFrame, TurnsFrame DEF serverVars
<1>9. HistoryKept' /\ NoStaleAccess' /\ RingAccounted'
  BY <1>1, HistoryFrame, RingFrame DEF serverVars, NoStaleAccess
<1> QED
  BY <1>2, <1>3, <1>6, <1>7, <1>8, <1>9

(* finalize: nothing is left to send.                                        *)
LEMMA HavePendingRequestsStep ==
  ASSUME LegacyInv, HavePendingRequests
  PROVE  LegacyInv'
<1> USE DEF LegacyInv
<1>1. /\ pc = "drain" /\ count' = win[cur].cnt
      /\ pc' = IF pending \/ count' > 0 THEN pc ELSE "wait"
      /\ UNCHANGED <<pureOneSided, plan, nextTL, blocked, cur, win, pending, step,
                     bufSize, newSize, growable, fixed, epoch, accepted, offset, wire,
                     serverVars>>
  BY DEF HavePendingRequests
<1>2. LocalCountSafe' /\ count' \in Nat
  BY <1>1, CountRefreshed
<1>3. TypeOK'
  BY <1>1, <1>2 DEF TypeOK, serverVars
<1>4. \A k \in Stages : Stage(k)' = Stage(k)
  BY <1>1 DEF Stage, Between, InWindow, Contents, Below, serverVars
<1>5. SameObservers
  BY <1>1, <1>4, SameStages DEF serverVars
<1>6. StagesKept'
  <2>1. pc' # "drain" => ~pending /\ Empty(3)
    <3>1. pc' # "drain" => ~pending /\ win[cur].cnt = 0
      BY <1>1, <1>2
    <3> QED
      BY <3>1 DEF Empty, Stage, InWindow
  <2>2. Len(request') <= 1 /\ Len(wire') + Len(probes') <= 1
    BY <1>1 DEF StagesKept, serverVars
  <2> QED
    BY <1>1, <1>4, <1>5, <2>1, <2>2, StagesFrame, StageByStage DEF StagesKept
<1>7. NoneLost' /\ OffsetsRight' /\ WordsRight'
  BY <1>1, <1>5, NoneLostFrame, WordsFrame DEF serverVars, OffsetsRight
<1>8. DialogueKept' /\ TurnsKept' /\ EndKept'
  <2>1. EndKept'
    BY <1>1 DEF EndKept, Finalize, serverVars
  <2>2. ~(step > 0)
    BY <1>1 DEF DialogueKept
  <2> QED
    BY <1>1, <1>5, <2>1, <2>2, DialogueFrame, TurnsFrame DEF serverVars
<1>9. HistoryKept' /\ NoStaleAccess' /\ RingAccounted'
  BY <1>1, HistoryFrame, RingFrame DEF serverVars, NoStaleAccess
<1> QED
  BY <1>2, <1>3, <1>6, <1>7, <1>8, <1>9

(* The word of the window that is for the server is cleared.                 *)
LEMMA WordCleared ==
  ASSUME TypeOK, win' = [win EXCEPT ![cur].tl = 0]
  PROVE  /\ win' \in [{0, 1} -> Window]
         /\ \A w \in {0, 1} : /\ win'[w].cnt = win[w].cnt /\ win'[w].mem = win[w].mem
                              /\ win'[w].notify = win[w].notify
                              /\ win'[w].tl = IF w = cur THEN 0 ELSE win[w].tl
<1>1. cur \in {0, 1} /\ win \in [{0, 1} -> Window] /\ win[cur] \in Window
  BY DEF TypeOK
<1> DEFINE v == [win[cur] EXCEPT !.tl = 0]
<1>2. /\ v \in Window /\ v.tl = 0 /\ v.cnt = win[cur].cnt /\ v.notify = win[cur].notify
      /\ v.mem = win[cur].mem
  BY <1>1, WordFields
<1>3. win' = [win EXCEPT ![cur] = v]
  OBVIOUS
<1> HIDE DEF v
<1> QED
  BY <1>1, <1>2, <1>3

(* A notification is written in a window.                                    *)
LEMMA WindowNotified ==
  ASSUME TypeOK, NEW w \in {0, 1}, NEW x \in {Nothing, Resize, Finalize},
         win' = [win EXCEPT ![w].notify = x]
  PROVE  /\ win' \in [{0, 1} -> Window]
         /\ \A v \in {0, 1} : /\ win'[v].cnt = win[v].cnt /\ win'[v].mem = win[v].mem
                              /\ win'[v].tl = win[v].tl
                              /\ win'[v].notify = IF v = w THEN x ELSE win[v].notify
<1>1. win \in [{0, 1} -> Window] /\ win[w] \in Window
  BY DEF TypeOK
<1> DEFINE u == [win[w] EXCEPT !.notify = x]
<1>2. /\ u \in Window /\ u.tl = win[w].tl /\ u.cnt = win[w].cnt /\ u.notify = x
      /\ u.mem = win[w].mem
  BY <1>1, NotifyFields
<1>3. win' = [win EXCEPT ![w] = u]
  OBVIOUS
<1> HIDE DEF u
<1> QED
  BY <1>1, <1>2, <1>3

(* What is in the window is its bytes, not its words.                        *)
LEMMA SameWindow ==
  ASSUME TypeOK, UNCHANGED <<cur, wire, probes, request>>,
         \A w \in {0, 1} : win'[w].cnt = win[w].cnt /\ win'[w].mem = win[w].mem
  PROVE  \A k \in Stages : Stage(k)' = Stage(k)
<1>1. cur \in {0, 1}
  BY DEF TypeOK
<1>2. InWindow' = InWindow
  BY <1>1 DEF InWindow, Contents, Below
<1> QED
  BY <1>2 DEF Stage, Between

(* The types of the small variables of the client.                           *)
LEMMA ClientTypes ==
  ASSUME TypeOK
  PROVE  /\ cur \in {0, 1} /\ win[cur] \in Window /\ win[cur].cnt \in Nat /\ count \in Nat
         /\ step \in 0 .. 4 /\ newSize \in Nat /\ bufSize \in Nat
         /\ \A t \in 1 .. MaxTime : plan[t] \in Nat
<1>1. /\ cur \in {0, 1} /\ win \in [{0, 1} -> Window] /\ count \in Nat
      /\ step \in 0 .. 4 /\ newSize \in Nat /\ bufSize \in Nat
  BY DEF TypeOK
<1>2. plan \in [1 .. MaxTime -> 0 .. MaxSize]
  BY DEF TypeOK
<1>3. \A t \in 1 .. MaxTime : plan[t] \in Nat
  BY <1>2, SizesAssumption
<1>4. win[cur] \in Window
  BY <1>1
<1>5. win[cur].cnt \in Nat
  BY <1>4 DEF Window
<1> QED
  BY <1>1, <1>3, <1>4, <1>5

(* The client goes on with a resize only inside getBuffers, or once the size *)
(* has been fixed.                                                           *)
LEMMA NoDialogue ==
  ASSUME TypeOK, DialogueKept, pc # "open" \/ (~blocked /\ ~fixed)
  PROVE  step = 0
<1>1. ~(step > 0)
  BY DEF DialogueKept
<1>2. step \in 0 .. 4
  BY DEF TypeOK
<1> QED
  BY <1>1, <1>2

(* A resize is decided while the client waits for room.                      *)
LEMMA ResizeDecided ==
  ASSUME TypeOK, DialogueKept, SameObservers, step = 0, step' = 1,
         UNCHANGED <<resizing, lastTL, epoch, sepoch, cur, held>>,
         \A w \in {0, 1} : win'[w].notify = win[w].notify,
         newSize' > 0, pc = "open", pc' = "open", blocked' \/ fixed'
  PROVE  DialogueKept'
<1>1. \A w \in {0, 1} : win'[w].notify # Resize
  BY DEF DialogueKept
<1>2. \A k \in {1, 2, 3} : ~NotifyIn(k)' /\ ~ChangeIn(3)'
  BY StageByStage DEF DialogueKept, Stages
<1> QED
  BY <1>1, <1>2, StageByStage DEF DialogueKept, Stages, Resize

(* sendEvent finds no room for the event.                                    *)
LEMMA BufferNotFreeStep ==
  ASSUME LegacyInv, BufferNotFree
  PROVE  LegacyInv'
<1> USE DEF LegacyInv
<1> DEFINE size == plan[nextTL]
           grows == ~Frozen /\ (size > bufSize \/ growable)
<1>1. /\ pc = "open" /\ nextTL <= MaxTime /\ size > 0 /\ blocked' = TRUE
      /\ count' = win[cur].cnt
      /\ step' = IF grows THEN 1 ELSE step
      /\ newSize' = IF ~grows THEN newSize
                    ELSE IF size > bufSize THEN size ELSE ((win[cur].cnt + size) * 12) \div 10
      /\ win' = IF grows THEN [win EXCEPT ![cur].tl = 0] ELSE win
      /\ UNCHANGED <<pureOneSided, plan, nextTL, pc, cur, pending, bufSize,
                     growable, fixed, epoch, accepted, offset, wire, serverVars>>
  BY DEF BufferNotFree, Sending, Refreshed
<1>2. /\ win' \in [{0, 1} -> Window]
      /\ \A w \in {0, 1} : /\ win'[w].cnt = win[w].cnt /\ win'[w].mem = win[w].mem
                           /\ win'[w].notify = win[w].notify
                           /\ win'[w].tl \in {0, win[w].tl}
  <2>1. CASE grows
    <3>1. win' = [win EXCEPT ![cur].tl = 0]
      BY <1>1, <2>1
    <3> QED
      BY <3>1, WordCleared
  <2>2. CASE ~grows
    BY <1>1, <2>2 DEF TypeOK
  <2> QED
    BY <2>1, <2>2
<1>t. /\ win[cur].cnt \in Nat /\ count \in Nat /\ size \in Nat /\ cur \in {0, 1}
      /\ step \in 0 .. 4 /\ newSize \in Nat /\ bufSize \in Nat
  <2>1. nextTL \in 1 .. MaxTime + 1
    BY DEF TypeOK
  <2>2. nextTL \in 1 .. MaxTime
    BY <1>1, <2>1, SizesAssumption
  <2> QED
    BY <2>2, ClientTypes
<1>n. newSize' \in Nat /\ (grows => newSize' > 0)
  <2>1. ((win[cur].cnt + size) * 12) \div 10 \in Nat /\ ((win[cur].cnt + size) * 12) \div 10 > 0
    BY <1>t, <1>1
  <2> HIDE DEF grows, size
  <2> QED
    BY <1>1, <1>t, <2>1
<1>3. TypeOK'
  <2> HIDE DEF grows
  <2>1. step' \in 0 .. 4 /\ count' \in Nat /\ blocked' \in BOOLEAN
    BY <1>1, <1>t
  <2> QED
    BY <1>1, <1>2, <1>n, <2>1 DEF TypeOK, serverVars
<1>4. \A k \in Stages : Stage(k)' = Stage(k)
  BY <1>1, <1>2, SameWindow DEF serverVars
<1>5. SameObservers
  BY <1>1, <1>4, SameStages DEF serverVars
<1>6. StagesKept'
  <2>2. Len(request') <= 1 /\ Len(wire') + Len(probes') <= 1
    BY <1>1 DEF StagesKept, serverVars
  <2> QED
    BY <1>1, <1>4, <1>5, <2>2, StagesFrame, StageByStage DEF StagesKept
<1>7. NoneLost' /\ OffsetsRight' /\ WordsRight'
  <2>1. WordsRight'
    BY <1>1, <1>2, <1>5, <1>t, StageByStage DEF WordsRight
  <2> QED
    BY <1>1, <1>5, <2>1, NoneLostFrame DEF serverVars, OffsetsRight
<1>8. DialogueKept' /\ TurnsKept' /\ EndKept'
  <2>1. EndKept'
    BY <1>1, <1>2 DEF EndKept, Finalize, serverVars
  <2>2. TurnsKept'
    BY <1>1, <1>5, TurnsFrame DEF serverVars
  <2>3. CASE grows
    <3>1. step = 0 /\ step' = 1 /\ newSize' > 0
      BY <1>1, <1>n, <1>t, <2>3 DEF Frozen
    <3> QED
      BY <1>1, <1>2, <1>5, <2>1, <2>2, <3>1, ResizeDecided DEF serverVars
  <2>4. CASE ~grows
    BY <1>1, <1>2, <1>5, <2>1, <2>2, <2>4, DialogueFrame DEF serverVars
  <2> QED
    BY <2>3, <2>4
<1>9. HistoryKept' /\ NoStaleAccess' /\ RingAccounted' /\ LocalCountSafe'
  <2>1. count' <= bufSize /\ win[Other(cur)].cnt = 0 /\ Other(cur) \in {0, 1}
    BY <1>1, <1>t, Codes DEF LocalCountSafe
  <2>2. LocalCountSafe'
    BY <1>1, <1>2, <1>t, <2>1 DEF LocalCountSafe, Other
  <2> QED
    BY <1>1, <2>2, HistoryFrame, RingFrame DEF serverVars, NoStaleAccess
<1> QED
  BY <1>3, <1>6, <1>7, <1>8, <1>9

(* closeDefinition fixes the size of the buffer.                             *)
LEMMA FixBufferSizeStep ==
  ASSUME LegacyInv, NEW size \in FixSizes, FixBufferSize(size)
  PROVE  LegacyInv'
<1> USE DEF LegacyInv
<1>1. /\ pc = "open" /\ ~blocked /\ ~fixed
      /\ newSize' = size /\ growable' = FALSE /\ step' = 1 /\ fixed' = TRUE
      /\ UNCHANGED <<pureOneSided, plan, nextTL, pc, blocked, cur, count, win,
                     pending, bufSize, epoch, accepted, offset, wire, serverVars>>
      /\ size \in Nat /\ size > 0
  BY SizesAssumption DEF FixBufferSize
<1>2. step = 0
  BY <1>1, NoDialogue
<1>3. TypeOK'
  <2>1. growable' \in BOOLEAN /\ fixed' \in BOOLEAN
    BY <1>1, Zenon
  <2>2. step' \in 0 .. 4 /\ newSize' \in Nat
    BY <1>1
  <2> QED
    BY <1>1, <2>1, <2>2 DEF TypeOK, serverVars
<1>4. \A k \in Stages : Stage(k)' = Stage(k)
  BY <1>1, SameWindow DEF serverVars
<1>5. SameObservers
  BY <1>1, <1>4, SameStages DEF serverVars
<1>6. StagesKept'
  <2>2. Len(request') <= 1 /\ Len(wire') + Len(probes') <= 1
    BY <1>1 DEF StagesKept, serverVars
  <2> QED
    BY <1>1, <1>4, <1>5, <2>2, StagesFrame, StageByStage DEF StagesKept
<1>7. NoneLost' /\ OffsetsRight' /\ WordsRight'
  BY <1>1, <1>5, NoneLostFrame, WordsFrame DEF serverVars, OffsetsRight
<1>8. DialogueKept' /\ TurnsKept' /\ EndKept'
  BY <1>1, <1>2, <1>5, ResizeDecided, TurnsFrame, EndFrame DEF serverVars
<1>9. HistoryKept' /\ NoStaleAccess' /\ LocalCountSafe' /\ RingAccounted'
  BY <1>1, HistoryFrame, CountFrame, RingFrame DEF serverVars, NoStaleAccess
<1> QED
  BY <1>3, <1>6, <1>7, <1>8, <1>9

(* The stream is extended by the bytes of one more timeline.                 *)
LEMMA StreamExtended ==
  ASSUME TypeOK, OffsetsRight, nextTL <= MaxTime, nextTL' = nextTL + 1, UNCHANGED plan,
         NEW size, size = plan[nextTL],
         offset' = Append(offset, offset[nextTL] + size)
  PROVE  /\ OffsetsRight' /\ offset' \in Seq(Nat) /\ nextTL' \in 1 .. MaxTime + 1
         /\ \A t \in 1 .. nextTL : offset'[t] = offset[t]
<1>1. /\ nextTL \in 1 .. MaxTime + 1 /\ nextTL \in Nat /\ nextTL >= 1 /\ MaxTime \in Nat
      /\ nextTL' \in Nat
  BY SizesAssumption DEF TypeOK
<1>2. /\ \A t \in 1 .. nextTL : offset[t] \in Nat
      /\ size \in Nat
  BY <1>1, OffsetType
<1>3. /\ offset' \in Seq(Nat) /\ Len(offset') = nextTL + 1
      /\ \A t \in 1 .. nextTL : offset'[t] = offset[t]
      /\ offset'[nextTL + 1] = offset[nextTL] + size
  <2>1. offset[nextTL] + size \in Nat
    BY <1>1, <1>2
  <2>2. offset \in Seq(Nat) /\ Len(offset) = nextTL
    BY DEF TypeOK, OffsetsRight
  <2> QED
    BY <2>1, <2>2, AppendProperties
<1>4. ASSUME NEW t \in 1 .. nextTL' - 1
      PROVE  offset'[t + 1] = offset'[t] + plan[t]
  <2>1. CASE t = nextTL
    BY <1>1, <1>3, <2>1
  <2>2. CASE t # nextTL
    <3>1. t \in 1 .. nextTL - 1 /\ t + 1 \in 1 .. nextTL /\ t \in 1 .. nextTL
      BY <1>1, <2>2
    <3> QED
      BY <1>3, <3>1 DEF OffsetsRight
  <2> QED
    BY <2>1, <2>2
<1>5. ASSUME NEW s \in 1 .. nextTL', NEW t \in 1 .. nextTL', s <= t
      PROVE  offset'[s] <= offset'[t]
  <2>1. CASE t <= nextTL
    <3>1. s \in 1 .. nextTL /\ t \in 1 .. nextTL
      BY <1>1, <1>5, <2>1
    <3> QED
      BY <1>3, <1>5, <3>1 DEF OffsetsRight
  <2>2. CASE s <= nextTL /\ t = nextTL + 1
    <3>1. s \in 1 .. nextTL /\ nextTL \in 1 .. nextTL
      BY <1>1, <2>2
    <3>2. offset[s] <= offset[nextTL] /\ offset[s] \in Nat /\ offset[nextTL] \in Nat
      BY <1>2, <2>2, <3>1 DEF OffsetsRight
    <3> QED
      BY <1>2, <1>3, <2>2, <3>1, <3>2
  <2>3. CASE s = t
    <3>1. s = nextTL + 1 \/ s \in 1 .. nextTL
      BY <1>1
    <3>2. nextTL \in 1 .. nextTL
      BY <1>1
    <3>3. PICK x \in Nat : x = offset'[s]
      BY <1>2, <1>3, <3>1, <3>2
    <3>4. offset'[t] = x
      BY <2>3, <3>3
    <3>5. x <= x
      OBVIOUS
    <3> QED
      BY <3>3, <3>4, <3>5
  <2>4. s \in Nat /\ t \in Nat /\ s >= 1 /\ t <= nextTL + 1
    BY <1>1
  <2>5. t <= nextTL \/ (s <= nextTL /\ t = nextTL + 1) \/ s = t
    BY <1>1, <1>5, <2>4
  <2> QED
    BY <2>1, <2>2, <2>3, <2>5
<1>7. ASSUME NEW s \in 1 .. nextTL', NEW t \in 1 .. nextTL', s <= t,
             \A u \in s .. t - 1 : plan[u] = 0
      PROVE  offset'[s] = offset'[t]
  <2>1. CASE t <= nextTL
    <3>1. s \in 1 .. nextTL /\ t \in 1 .. nextTL
      BY <1>1, <1>7, <2>1
    <3>2. offset[s] = offset[t]
      BY <1>7, <3>1 DEF OffsetsRight
    <3> QED
      BY <1>3, <3>1, <3>2
  <2>2. CASE s <= nextTL /\ t = nextTL + 1
    <3>1. s \in 1 .. nextTL /\ nextTL \in 1 .. nextTL /\ s <= nextTL
      BY <1>1, <2>2
    <3>2. \A u \in s .. nextTL - 1 : plan[u] = 0
      BY <1>1, <1>7, <2>2, <3>1
    <3>3. size = 0
      BY <1>1, <1>7, <2>2, <3>1
    <3>4. offset[s] = offset[nextTL]
      BY <3>1, <3>2 DEF OffsetsRight
    <3> QED
      BY <1>2, <1>3, <2>2, <3>1, <3>3, <3>4
  <2>3. CASE s = t
    BY <2>3
  <2>4. s \in Nat /\ t \in Nat /\ s >= 1 /\ t <= nextTL + 1 /\ s <= t
    BY <1>1, <1>7
  <2>5. t <= nextTL \/ (s <= nextTL /\ t = nextTL + 1) \/ s = t
    BY <1>1, <2>4
  <2> QED
    BY <2>1, <2>2, <2>3, <2>5
<1>6. OffsetsRight'
  BY <1>3, <1>4, <1>5, <1>7 DEF OffsetsRight
<1> QED
  BY <1>1, <1>3, <1>6

(* ... and the events already in a message keep their place in it.           *)
LEMMA EventsKept ==
  ASSUME TypeOK, NEW k \in Stages, EventsIn(k), Head(Stage(k)) \in Message, Stage(k)' = Stage(k),
         nextTL' = nextTL + 1, UNCHANGED <<lastTL, curTL, plan>>,
         \A t \in 1 .. nextTL : offset'[t] = offset[t]
  PROVE  EventsIn(k)'
<1> DEFINE m == Head(Stage(k))
<1>1. IsEvents(m) /\ m \in Message /\ ~Empty(k)
  BY DEF EventsIn
<1>2. \A i \in m.items : i.tl \in 1 .. Change
  BY <1>1, MessageType, ItemType
<1>3. \A i \in m.items : i.tl \in 1 .. nextTL /\ i.tl < nextTL'
  BY <1>1, <1>2, Codes DEF IsEvents, TypeOK
<1>4. \A i \in m.items : /\ i.tl < nextTL' /\ i.tl > lastTL /\ i.tl >= curTL
                         /\ i.size = plan[i.tl] /\ i.at + i.size <= m.n
  BY <1>1, <1>3 DEF IsEvents
<1>5. \A i, j \in m.items : /\ i.tl = j.tl => i = j
                            /\ j.at - i.at = offset'[j.tl] - offset'[i.tl]
  <2>1. \A i \in m.items : offset'[i.tl] = offset[i.tl]
    BY <1>3
  <2> QED
    BY <1>1, <2>1 DEF IsEvents
<1>6. (\E i \in m.items : i.at = 0) /\ (\E i \in m.items : i.at + i.size = m.n)
  BY <1>1 DEF IsEvents
<1>7. Head(Stage(k))' = m /\ ~Empty(k)'
  BY <1>1 DEF Empty
<1> HIDE DEF m
<1> QED
  BY <1>4, <1>5, <1>6, <1>7 DEF EventsIn, IsEvents

(* ... also where the timelines that make a message one of events move on.   *)
LEMMA ObserversKept ==
  ASSUME TypeOK', StagesKept, \A k \in Stages : Stage(k)' = Stage(k), UNCHANGED epoch,
         \A k \in Stages : EventsIn(k) => EventsIn(k)'
  PROVE  SameObservers
<1>1. KindsApart'
  BY OneKindNext
<1>2. ASSUME NEW k \in Stages
      PROVE  /\ Empty(k)' <=> Empty(k)
             /\ NotifyIn(k)' <=> NotifyIn(k)
             /\ ChangeIn(k)' <=> ChangeIn(k)
             /\ EventsIn(k)' <=> EventsIn(k)
             /\ \A t : Waits(k, t)' <=> Waits(k, t)
  <2>1. /\ Empty(k)' <=> Empty(k)
        /\ NotifyIn(k)' <=> NotifyIn(k)
        /\ ChangeIn(k)' <=> ChangeIn(k)
        /\ \A t : Waits(k, t)' <=> Waits(k, t)
    BY SameStage
  <2>2. EventsIn(k)' => EventsIn(k)
    <3>1. EventsIn(k)' => ~Empty(k)'
      BY DEF EventsIn
    <3>2. ~Empty(k) => EventsIn(k) \/ NotifyIn(k) \/ ChangeIn(k)
      BY DEF StagesKept
    <3>3. ~(EventsIn(k)' /\ NotifyIn(k)') /\ ~(EventsIn(k)' /\ ChangeIn(k)')
      BY <1>1 DEF KindsApart
    <3> QED
      BY <2>1, <3>1, <3>2, <3>3
  <2> QED
    BY <2>1, <2>2
<1> QED
  BY <1>2 DEF SameObservers

(* The types of the two histories, element by element.                       *)
LEMMA HistoryType ==
  ASSUME TypeOK
  PROVE  /\ DOMAIN processed = 1 .. Len(processed) /\ DOMAIN accepted = 1 .. Len(accepted)
         /\ Len(processed) \in Nat /\ Len(accepted) \in Nat
         /\ \A i \in DOMAIN processed : processed[i] \in 1 .. MaxTime
         /\ \A i \in DOMAIN accepted : accepted[i] \in 1 .. MaxTime
<1>1. processed \in Seq(1 .. MaxTime) /\ accepted \in Seq(1 .. MaxTime)
  BY DEF TypeOK
<1> QED
  BY <1>1, LenProperties, ElementOfSeq

(* A timeline in which the client has nothing for the server.                *)
LEMMA SkipTimelineStep ==
  ASSUME LegacyInv, SkipTimeline
  PROVE  LegacyInv'
<1> USE DEF LegacyInv
<1>1. /\ pc = "open" /\ nextTL <= MaxTime /\ plan[nextTL] = 0 /\ nextTL' = nextTL + 1
      /\ offset' = Append(offset, offset[nextTL])
      /\ UNCHANGED <<pureOneSided, plan, pc, blocked, cur, count, win, pending,
                     step, bufSize, newSize, growable, fixed, epoch, accepted,
                     wire, serverVars>>
  BY DEF SkipTimeline, Sending
<1>t. /\ nextTL \in 1 .. MaxTime /\ MaxTime \in Nat /\ nextTL \in Nat /\ lastTL \in Nat
      /\ curTL \in Nat
  BY <1>1, SizesAssumption DEF TypeOK
<1>2. /\ OffsetsRight' /\ offset' \in Seq(Nat) /\ nextTL' \in 1 .. MaxTime + 1
      /\ \A t \in 1 .. nextTL : offset'[t] = offset[t]
  <2>1. offset' = Append(offset, offset[nextTL] + plan[nextTL])
    BY <1>1, <1>t, OffsetType
  <2> QED
    BY <1>1, <2>1, StreamExtended DEF serverVars
<1>3. TypeOK'
  <2>1. nextTL' \in 1 .. MaxTime + 1 /\ offset' \in Seq(Nat)
    BY <1>2
  <2>2. /\ UNCHANGED <<pureOneSided, plan, pc, blocked, cur, count, win, pending, step>>
        /\ UNCHANGED <<bufSize, newSize, growable, fixed, epoch, accepted, wire, serverVars>>
    BY <1>1
  <2> QED
    BY <2>1, <2>2 DEF TypeOK, serverVars
<1>4. \A k \in Stages : Stage(k)' = Stage(k)
  BY <1>1, SameWindow DEF serverVars
<1>5. SameObservers
  <2>1. ASSUME NEW k \in Stages, EventsIn(k)
        PROVE  EventsIn(k)'
    <3>1. Head(Stage(k)) \in Message
      BY <2>1, StageForm DEF EventsIn
    <3> QED
      BY <1>1, <1>2, <1>4, <2>1, <3>1, EventsKept DEF serverVars
  <2> QED
    BY <1>1, <1>3, <1>4, <2>1, ObserversKept
<1>6. StagesKept'
  <2>2. Len(request') <= 1 /\ Len(wire') + Len(probes') <= 1
    BY <1>1 DEF StagesKept, serverVars
  <2> QED
    BY <1>1, <1>4, <1>5, <2>2, StagesFrame, StageByStage DEF StagesKept
<1>7. NoneLost' /\ OffsetsRight' /\ WordsRight'
  <2>1. \A t \in 1 .. nextTL' - 1 : plan[t] > 0 => t \in 1 .. nextTL - 1
    BY <1>1, <1>t
  <2>2. \A t \in 1 .. nextTL' - 1 :
          plan[t] > 0 /\ t > lastTL => t >= curTL /\ \E k \in Stages : Waits(k, t)'
    BY <1>5, <2>1 DEF NoneLost, SameObservers
  <2>3. busy' => \E item \in held' : IsCurrent(item)'
    BY <1>1 DEF NoneLost, IsCurrent, serverVars
  <2>4. lastTL < nextTL'
    BY <1>1, <1>t DEF NoneLost
  <2>5. NoneLost'
    BY <1>1, <2>2, <2>3, <2>4 DEF NoneLost, serverVars
  <2> QED
    BY <1>1, <1>2, <1>5, <2>5, WordsFrame
<1>8. DialogueKept' /\ TurnsKept' /\ EndKept'
  <2>1. nextTL' <= MaxTime
    BY <1>1, <1>t DEF EndKept
  <2>2. EndKept'
    BY <1>1, <2>1 DEF EndKept, Finalize, serverVars
  <2> QED
    BY <1>1, <1>5, <2>2, DialogueFrame, TurnsFrame DEF serverVars, DialogueKept
<1>9. HistoryKept' /\ NoStaleAccess' /\ LocalCountSafe' /\ RingAccounted'
  <2>1. \A t \in 1 .. nextTL' - 1 : plan[t] > 0 => t \in 1 .. nextTL - 1
    BY <1>1, <1>t
  <2>2. \A i \in DOMAIN accepted : accepted[i] < nextTL'
    <3>1. \A i \in DOMAIN accepted : accepted[i] \in Nat
      <4>1. \A i \in DOMAIN accepted : accepted[i] \in 1 .. MaxTime
        BY HistoryType
      <4> QED
        BY <4>1
    <3> QED
      BY <1>1, <1>t, <3>1 DEF HistoryKept
  <2>3. HistoryKept'
    BY <1>1, <2>1, <2>2 DEF HistoryKept, Handed, serverVars
  <2>4. HeldBytes' = HeldBytes
    <3>1. curTL <= lastTL => curTL \in 1 .. nextTL /\ lastTL + 1 \in 1 .. nextTL
      BY <1>t DEF NoneLost, TypeOK
    <3> QED
      BY <1>1, <1>2, <3>1 DEF HeldBytes, serverVars
  <2>5. RingAccounted'
    BY <1>1, <2>4 DEF RingAccounted, serverVars
  <2> QED
    BY <1>1, <2>3, <2>5, CountFrame DEF serverVars, NoStaleAccess
<1> QED
  BY <1>3, <1>6, <1>7, <1>8, <1>9

(* A notification in a window changes nothing of what both ends count.       *)
LEMMA NotifiedFrame ==
  ASSUME TypeOK, LocalCountSafe, WordsRight, SameObservers, UNCHANGED <<cur, count, bufSize>>,
         \A w \in {0, 1} : win'[w].cnt = win[w].cnt /\ win'[w].tl = win[w].tl
  PROVE  LocalCountSafe' /\ WordsRight'
<1>1. cur \in {0, 1} /\ Other(cur) \in {0, 1} /\ Other(cur)' = Other(cur)
  BY Codes DEF TypeOK, Other
<1>2. LocalCountSafe'
  BY <1>1 DEF LocalCountSafe
<1>3. WordsRight'
  BY <1>1, StageByStage DEF WordsRight
<1> QED
  BY <1>2, <1>3

(* The client reads the server's answer: it may resize.                      *)
LEMMA IsNotifiedChangeStep ==
  ASSUME LegacyInv, IsNotifiedChangeBufferSize
  PROVE  LegacyInv'
<1> USE DEF LegacyInv
<1>1. /\ step = 2 /\ win[cur].notify = Resize /\ step' = 3 /\ pending' = FALSE
      /\ win' = [win EXCEPT ![cur].notify = Nothing]
      /\ UNCHANGED <<pureOneSided, plan, nextTL, pc, blocked, cur, count, bufSize,
                     newSize, growable, fixed, epoch, accepted, offset, wire, serverVars>>
  BY DEF IsNotifiedChangeBufferSize
<1>t. cur \in {0, 1}
  BY DEF TypeOK
<1>2. /\ win' \in [{0, 1} -> Window]
      /\ \A v \in {0, 1} : /\ win'[v].cnt = win[v].cnt /\ win'[v].mem = win[v].mem
                           /\ win'[v].tl = win[v].tl
                           /\ win'[v].notify = IF v = cur THEN Nothing ELSE win[v].notify
  BY <1>1, <1>t, WindowNotified
<1>3. TypeOK'
  <2>1. step' \in 0 .. 4
    BY <1>1
  <2>2. pending' \in BOOLEAN
    BY <1>1, Zenon
  <2>3. win' \in [{0, 1} -> Window]
    BY <1>2
  <2>4. /\ UNCHANGED <<pureOneSided, plan, nextTL, pc, blocked, cur, count, bufSize, newSize>>
        /\ UNCHANGED <<growable, fixed, epoch, accepted, offset, wire, serverVars>>
    BY <1>1
  <2> QED
    BY <2>1, <2>2, <2>3, <2>4 DEF TypeOK, serverVars
<1>4. \A k \in Stages : Stage(k)' = Stage(k)
  BY <1>1, <1>2, SameWindow DEF serverVars
<1>5. SameObservers
  BY <1>1, <1>4, SameStages DEF serverVars
<1>a. Answered /\ resizing
  <2>1. Answered
    BY <1>1, <1>t DEF DialogueKept
  <2>2. \A k \in Stages : ~NotifyIn(k)
    BY <2>1 DEF Answered, NotifyIn
  <2> QED
    BY <1>1, <2>1, <2>2 DEF DialogueKept
<1>6. StagesKept'
  <2>1. Empty(2)
    BY <1>a DEF Answered, Stages
  <2>2. Len(request') <= 1 /\ Len(wire') + Len(probes') <= 1
    BY <1>1 DEF StagesKept, serverVars
  <2>3. pc = "open"
    BY <1>1 DEF DialogueKept
  <2> QED
    BY <1>1, <1>4, <1>5, <2>1, <2>2, <2>3, StagesFrame, StageByStage
<1>7. NoneLost' /\ OffsetsRight' /\ WordsRight' /\ LocalCountSafe'
  BY <1>1, <1>2, <1>5, NoneLostFrame, NotifiedFrame DEF serverVars, OffsetsRight
<1>8. DialogueKept'
  <2>1. \A k \in Stages : Empty(k)' /\ ~NotifyIn(k)' /\ ~ChangeIn(k)'
    BY <1>5, <1>a, EmptyStage DEF SameObservers, Answered
  <2>2. Answered' /\ ~ChangeIn(1)' /\ ~ChangeIn(3)'
    BY <2>1 DEF Answered, Stages
  <2>3. \A w \in {0, 1} : win'[w].notify # Resize
    BY <1>1, <1>2, <1>t DEF DialogueKept, Nothing, Resize
  <2>4. pc = "open" /\ (blocked \/ fixed) /\ newSize > 0
    BY <1>1 DEF DialogueKept
  <2>5. epoch = sepoch
    BY <1>a, <2>4, EmptyStage DEF DialogueKept, Answered
  <2> QED
    BY <1>1, <1>a, <2>1, <2>2, <2>3, <2>4, <2>5 DEF DialogueKept, Resize, serverVars
<1>9. TurnsKept' /\ EndKept'
  <2>1. EndKept'
    BY <1>1, <1>2 DEF EndKept, Finalize, Nothing, serverVars
  <2> QED
    BY <1>1, <1>5, <2>1, TurnsFrame DEF serverVars
<1>10. HistoryKept' /\ NoStaleAccess' /\ RingAccounted'
  BY <1>1, HistoryFrame, RingFrame DEF serverVars, NoStaleAccess
<1> QED
  BY <1>3, <1>6, <1>7, <1>8, <1>9, <1>10

(* Once the finalize event was handed over no change of size is on its way.  *)
LEMMA NoChangeAtTheEnd ==
  ASSUME TypeOK, DialogueKept, NoneLost, EndKept, HeldRight,
         curTL > MaxTime \/ (curTL = MaxTime /\ \E item \in held : IsCurrent(item))
  PROVE  lastTL = MaxTime /\ \A k \in Stages : ~ChangeIn(k)
<1>1. MaxTime \in 1 .. MaxTime /\ plan[MaxTime] > 0
  BY SizesAssumption DEF EndKept
<1>2. lastTL \in 0 .. MaxTime /\ MaxTime \in Nat /\ curTL \in Nat
  BY SizesAssumption DEF TypeOK
<1>3. CASE curTL > MaxTime
  <2>1. MaxTime <= lastTL
    BY <1>1, <1>2, <1>3 DEF NoneLost
  <2> QED
    BY <1>2, <2>1 DEF DialogueKept
<1>4. CASE curTL = MaxTime /\ \E item \in held : IsCurrent(item)
  <2>1. PICK item \in held : item.tl = curTL
    BY <1>4 DEF IsCurrent
  <2>2. curTL <= lastTL
    BY <1>2, <2>1 DEF HeldRight
  <2> QED
    BY <1>2, <1>4, <2>2 DEF DialogueKept
<1> QED
  BY <1>3, <1>4

(* finalize: the client reads the acknowledgement and frees its buffers.     *)
LEMMA IsNotifiedFinalizedStep ==
  ASSUME LegacyInv, IsNotifiedFinalized
  PROVE  LegacyInv'
<1> USE DEF LegacyInv
<1>1. /\ pc = "wait" /\ win[cur].notify = Finalize /\ pc' = "released" /\ epoch' = epoch + 1
      /\ UNCHANGED <<pureOneSided, plan, nextTL, blocked, cur, count, win, pending,
                     step, bufSize, newSize, growable, fixed, accepted, offset, wire,
                     serverVars>>
  BY DEF IsNotifiedFinalized
<1>2. curTL > MaxTime \/ (curTL = MaxTime /\ busy)
  BY <1>1 DEF EndKept, TypeOK
<1>3. TypeOK'
  BY <1>1 DEF TypeOK, serverVars
<1>4. \A k \in Stages : Stage(k)' = Stage(k)
  BY <1>1, SameWindow DEF serverVars
<1>a. step = 0
  BY <1>1, NoDialogue
<1>b. \A k \in Stages : ~ChangeIn(k) /\ ~NotifyIn(k)
  <2>1. HeldRight
    BY DEF HeldRight, RingAccounted
  <2>2. busy => \E item \in held : IsCurrent(item)
    BY DEF NoneLost
  <2>3. \A k \in Stages : ~ChangeIn(k)
    BY <1>2, <2>1, <2>2, NoChangeAtTheEnd
  <2> QED
    BY <1>a, <2>3 DEF DialogueKept
<1>c. \A k \in Stages : /\ Empty(k)' <=> Empty(k)
                        /\ EventsIn(k)' <=> EventsIn(k)
                        /\ NotifyIn(k)' <=> NotifyIn(k)
                        /\ \A t : Waits(k, t)' <=> Waits(k, t)
  BY <1>1, <1>4 DEF serverVars, Empty, EventsIn, NotifyIn, Waits, IsEvents, IsNotify, Notify, CtlSize
<1>d. \A k \in Stages : ~ChangeIn(k)'
  <2>1. \A k \in Stages : ~Empty(k)' => EventsIn(k)'
    BY <1>b, <1>c DEF StagesKept
  <2>2. KindsApart'
    BY <1>3, OneKindNext
  <2>3. \A k \in Stages : ChangeIn(k)' => ~Empty(k)'
    BY DEF ChangeIn
  <2> QED
    BY <2>1, <2>2, <2>3 DEF KindsApart
<1>5. SameObservers
  BY <1>b, <1>c, <1>d DEF SameObservers
<1>6. StagesKept'
  <2>2. Len(request') <= 1 /\ Len(wire') + Len(probes') <= 1
    BY <1>1 DEF StagesKept, serverVars
  <2> QED
    BY <1>1, <1>4, <1>5, <2>2, StagesFrame, StageByStage DEF StagesKept
<1>7. NoneLost' /\ OffsetsRight' /\ WordsRight' /\ LocalCountSafe'
  BY <1>1, <1>5, NoneLostFrame, WordsFrame, CountFrame DEF serverVars, OffsetsRight
<1>8. DialogueKept'
  <2>1. \A w \in {0, 1} : win[w].notify # Resize
    BY <1>a DEF DialogueKept
  <2>2. ~resizing
    BY <1>a, <1>b DEF DialogueKept
  <2> QED
    BY <1>1, <1>a, <1>b, <1>c, <1>d, <2>1, <2>2 DEF DialogueKept, Stages, Resize, serverVars
<1>9. TurnsKept' /\ EndKept'
  <2>1. EndKept'
    BY <1>1, <1>2 DEF EndKept, Finalize, serverVars
  <2> QED
    BY <1>1, <1>5, <2>1, TurnsFrame DEF serverVars
<1>10. HistoryKept' /\ NoStaleAccess' /\ RingAccounted'
  BY <1>1, HistoryFrame, RingFrame DEF serverVars, NoStaleAccess
<1> QED
  BY <1>3, <1>6, <1>7, <1>8, <1>9, <1>10

-----------------------------------------------------------------------------
(* The server hands the events over.                                         *)

(* What the server learns of an event it holds.                              *)
LEMMA CurrentHeld ==
  ASSUME TypeOK, NoneLost, RingAccounted, NEW item \in held, item.tl = curTL
  PROVE  /\ curTL \in 1 .. MaxTime /\ curTL <= lastTL /\ lastTL < nextTL /\ curTL < nextTL
         /\ plan[curTL] = item.size /\ item.size \in Nat \ {0}
<1>1. item \in Item /\ curTL \in Nat /\ curTL >= 1 /\ lastTL \in Nat /\ lastTL <= MaxTime
  BY SizesAssumption DEF TypeOK
<1>2. item.tl \in curTL .. lastTL /\ item.size = plan[item.tl]
  BY DEF RingAccounted
<1>3. item.size \in Nat \ {0}
  BY <1>1, ItemType
<1> QED
  BY <1>1, <1>2, <1>3, SizesAssumption DEF NoneLost, TypeOK

(* The server turns to its next event: what is on its way is still later.    *)
LEMMA NextEvent ==
  ASSUME TypeOK, TypeOK', StagesKept, NoneLost, \A k \in Stages : Stage(k)' = Stage(k),
         curTL \in 1 .. MaxTime, curTL' = curTL + 1, plan[curTL] = 0 \/ curTL <= lastTL,
         UNCHANGED <<nextTL, lastTL, plan, offset, epoch>>, ~busy'
  PROVE  SameObservers /\ NoneLost'
<1>t. /\ curTL \in Nat /\ lastTL \in Nat /\ nextTL \in Nat /\ MaxTime \in Nat
      /\ nextTL <= MaxTime + 1 /\ Change \in Nat
  BY SizesAssumption, Codes DEF TypeOK
<1>1. ASSUME NEW k \in Stages, EventsIn(k)
      PROVE  EventsIn(k)'
  <2> DEFINE m == Head(Stage(k))
  <2>1. IsEvents(m) /\ m \in Message /\ ~Empty(k)
    BY <1>1, StageForm DEF EventsIn
  <2>2. \A i \in m.items : i.tl \in Nat /\ i.size \in Nat \ {0}
    BY <2>1, MessageType, ItemType, <1>t
  <2>3. \A i \in m.items : i.tl # curTL
    BY <1>t, <2>1, <2>2 DEF IsEvents
  <2>4. \A i \in m.items : /\ i.tl < nextTL /\ i.tl > lastTL /\ i.tl >= curTL + 1
                           /\ i.size = plan[i.tl] /\ i.at + i.size <= m.n
    BY <1>t, <2>1, <2>2, <2>3 DEF IsEvents
  <2>5. /\ \A i, j \in m.items : /\ i.tl = j.tl => i = j
                                 /\ j.at - i.at = offset[j.tl] - offset[i.tl]
        /\ (\E i \in m.items : i.at = 0) /\ (\E i \in m.items : i.at + i.size = m.n)
    BY <2>1 DEF IsEvents
  <2>6. Head(Stage(k))' = m /\ ~Empty(k)'
    BY <2>1 DEF Empty
  <2> HIDE DEF m
  <2> QED
    BY <2>4, <2>5, <2>6 DEF EventsIn, IsEvents
<1>2. SameObservers
  BY <1>1, ObserversKept
<1>3. \A t \in 1 .. nextTL - 1 :
        plan[t] > 0 /\ t > lastTL => t >= curTL + 1 /\ \E k \in Stages : Waits(k, t)'
  <2>1. SUFFICES ASSUME NEW t \in 1 .. nextTL - 1, plan[t] > 0, t > lastTL
                 PROVE  t >= curTL + 1 /\ \E k \in Stages : Waits(k, t)'
    OBVIOUS
  <2>2. t >= curTL /\ \E k \in Stages : Waits(k, t)
    BY <2>1 DEF NoneLost
  <2>3. t # curTL
    BY <1>t, <2>1
  <2> QED
    BY <1>2, <1>t, <2>2, <2>3 DEF SameObservers
<1>4. \A t \in 1 .. MaxTime : plan[t] > 0 /\ t < curTL + 1 => t <= lastTL
  BY <1>t DEF NoneLost
<1>5. NoneLost'
  BY <1>3, <1>4 DEF NoneLost
<1> QED
  BY <1>2, <1>5

(* An event in which this client has no part.                                *)
LEMMA OtherEventStep ==
  ASSUME LegacyInv, OtherEvent
  PROVE  LegacyInv'
<1> USE DEF LegacyInv
<1>1. /\ ~busy /\ curTL < MaxTime /\ plan[curTL] = 0 /\ curTL' = curTL + 1
      /\ UNCHANGED <<clientVars, win, wire, probes, request, swin, resizing, used,
                     ring, held, lastTL, busy, sepoch, processed, stale>>
  BY DEF OtherEvent
<1>t. /\ curTL \in 1 .. MaxTime /\ MaxTime \in Nat /\ curTL \in Nat /\ lastTL \in Nat
      /\ lastTL < nextTL /\ nextTL \in Nat /\ lastTL <= MaxTime
  BY <1>1, SizesAssumption DEF TypeOK, NoneLost
<1>3. TypeOK'
  BY <1>1, <1>t DEF TypeOK, clientVars
<1>4. \A k \in Stages : Stage(k)' = Stage(k)
  BY <1>1, SameWindow DEF clientVars
<1>5. SameObservers /\ NoneLost'
  BY <1>1, <1>3, <1>4, <1>t, NextEvent DEF clientVars
<1>6. StagesKept'
  <2>2. Len(request') <= 1 /\ Len(wire') + Len(probes') <= 1
    BY <1>1 DEF StagesKept, clientVars
  <2> QED
    BY <1>1, <1>4, <1>5, <2>2, StagesFrame, StageByStage DEF StagesKept, clientVars
<1>7. OffsetsRight' /\ WordsRight' /\ LocalCountSafe'
  BY <1>1, <1>5, WordsFrame, CountFrame DEF clientVars, OffsetsRight
<1>8. DialogueKept' /\ TurnsKept' /\ EndKept'
  <2>1. EndKept'
    BY <1>1, <1>t DEF EndKept, Finalize, clientVars
  <2> QED
    BY <1>1, <1>5, <2>1, DialogueFrame, TurnsFrame DEF clientVars, DialogueKept
<1>9. HistoryKept'
  <2>1. \A t \in 1 .. MaxTime : Handed(t)' <=> Handed(t)
    BY <1>1, <1>t DEF Handed, clientVars
  <2>2. \A i \in DOMAIN processed : processed[i] \in 1 .. MaxTime
    BY HistoryType
  <2> QED
    BY <1>1, <2>1, <2>2 DEF HistoryKept, clientVars
<1>10. RingAccounted'
  <2>1. HeldBytes' = HeldBytes
    <3>1. CASE curTL < lastTL
      <4>1. curTL \in 1 .. nextTL - 1
        BY <1>t, <3>1
      <4>2. offset[curTL + 1] = offset[curTL]
        <5>1. curTL \in 1 .. nextTL
          BY <4>1, <1>t
        <5> QED
          BY <1>1, <4>1, <5>1, OffsetType DEF OffsetsRight
      <4> QED
        BY <1>1, <1>t, <3>1, <4>2 DEF HeldBytes, clientVars
    <3>2. CASE curTL = lastTL
      <4>1. curTL \in 1 .. nextTL - 1
        BY <1>t, <3>2
      <4>2. offset[curTL + 1] = offset[curTL] /\ offset[curTL] \in Nat
        <5>1. curTL \in 1 .. nextTL
          BY <4>1, <1>t
        <5> QED
          BY <1>1, <4>1, <5>1, OffsetType DEF OffsetsRight
      <4> QED
        BY <1>1, <1>t, <3>2, <4>2 DEF HeldBytes, clientVars
    <3>3. CASE curTL > lastTL
      BY <1>1, <1>t, <3>3 DEF HeldBytes, clientVars
    <3> QED
      BY <1>t, <3>1, <3>2, <3>3
  <2>2. ASSUME NEW item \in held
        PROVE  item.tl \in curTL + 1 .. lastTL /\ item.size = plan[item.tl]
    <3>1. item.tl \in curTL .. lastTL /\ item.size = plan[item.tl]
      BY DEF RingAccounted
    <3>2. item.tl # curTL
      BY <1>1, CurrentHeld
    <3> QED
      BY <1>t, <3>1, <3>2
  <2>3. \A t \in curTL + 1 .. lastTL : plan[t] > 0 => \E item \in held : item.tl = t
    BY <1>t DEF RingAccounted
  <2> QED
    BY <1>1, <2>1, <2>2, <2>3 DEF RingAccounted, clientVars
<1> QED
  BY <1>1, <1>3, <1>5, <1>6, <1>7, <1>8, <1>9, <1>10 DEF NoStaleAccess

(* The event is over: its bytes leave the ring.                              *)
LEMMA EndEventStep ==
  ASSUME LegacyInv, EndEvent
  PROVE  LegacyInv'
<1> USE DEF LegacyInv
<1>1. PICK item \in held : /\ item.tl = curTL /\ used' = used - item.size
                          /\ held' = held \ {item}
  BY DEF EndEvent, IsCurrent
<1>2. /\ busy /\ busy' = FALSE /\ curTL' = curTL + 1
      /\ UNCHANGED <<clientVars, win, wire, probes, request, swin, resizing, ring,
                     lastTL, sepoch, processed, stale>>
  BY DEF EndEvent
<1>t. /\ curTL \in 1 .. MaxTime /\ MaxTime \in Nat /\ curTL \in Nat /\ lastTL \in Nat
      /\ lastTL < nextTL /\ nextTL \in Nat /\ lastTL <= MaxTime /\ curTL <= lastTL
      /\ plan[curTL] = item.size /\ item.size \in Nat \ {0}
  BY <1>1, CurrentHeld, SizesAssumption DEF TypeOK
<1>h. HeldBytes' = HeldBytes - item.size /\ HeldBytes' \in Nat /\ HeldBytes \in Nat
  <2>1. curTL \in 1 .. nextTL - 1 /\ curTL \in 1 .. nextTL /\ lastTL + 1 \in 1 .. nextTL
        /\ curTL + 1 \in 1 .. nextTL
    BY <1>t
  <2>2. offset[curTL + 1] = offset[curTL] + item.size /\ offset[curTL + 1] <= offset[lastTL + 1]
    BY <1>t, <2>1 DEF OffsetsRight
  <2>3. offset[curTL] \in Nat /\ offset[lastTL + 1] \in Nat /\ offset[curTL + 1] \in Nat
    BY <2>1, OffsetType
  <2>4. HeldBytes = offset[lastTL + 1] - offset[curTL]
    BY <1>t DEF HeldBytes
  <2>5. CASE curTL = lastTL
    <3>1. HeldBytes' = 0
      BY <1>2, <1>t, <2>5 DEF HeldBytes, clientVars
    <3>2. HeldBytes = item.size
      BY <1>t, <2>2, <2>3, <2>4, <2>5
    <3> QED
      BY <1>t, <3>1, <3>2
  <2>6. CASE curTL < lastTL
    <3>1. HeldBytes' = offset[lastTL + 1] - offset[curTL + 1]
      BY <1>2, <1>t, <2>6 DEF HeldBytes, clientVars
    <3> QED
      BY <1>t, <2>2, <2>3, <2>4, <3>1
  <2> QED
    BY <1>t, <2>5, <2>6
<1>r. RingAccounted' /\ used' \in Nat
  <2>1. used = HeldBytes + (IF request = <<>> THEN 0 ELSE Head(request).n)
    BY DEF RingAccounted
  <2>2. request # <<>> => Head(request).n \in Nat
    <3>1. request \in Seq(Message)
      BY DEF TypeOK
    <3>2. request # <<>> => Head(request) \in Message
      BY <3>1, HeadTailProperties
    <3> QED
      BY <3>2, MessageType
  <2>3. HeldBytes \in Nat
    BY <1>h
  <2>m. PICK m \in Nat : m = IF request = <<>> THEN 0 ELSE Head(request).n
    BY <2>2
  <2>4. used' = HeldBytes' + (IF request = <<>> THEN 0 ELSE Head(request).n) /\ used' \in Nat
    <3>1. used' = used - item.size /\ used = HeldBytes + m
      BY <1>1, <2>1, <2>m
    <3>2. HeldBytes' = HeldBytes - item.size /\ HeldBytes' \in Nat /\ item.size \in Nat
      BY <1>h, <1>t
    <3>3. used' = HeldBytes' + m
      BY <2>3, <3>1, <3>2
    <3> QED
      BY <2>m, <3>2, <3>3
  <2>5. ASSUME NEW i \in held'
        PROVE  i.tl \in curTL + 1 .. lastTL /\ i.size = plan[i.tl]
    <3>1. i \in held /\ i # item
      BY <1>1
    <3>2. i.tl \in curTL .. lastTL /\ i.size = plan[i.tl] /\ i.tl # curTL
      BY <1>1, <3>1 DEF RingAccounted
    <3> QED
      BY <1>t, <3>2
  <2>6. ASSUME NEW t \in curTL + 1 .. lastTL, plan[t] > 0
        PROVE  \E i \in held' : i.tl = t
    <3>1. t \in curTL .. lastTL /\ t # curTL
      BY <1>t
    <3>2. PICK i \in held : i.tl = t
      BY <2>6, <3>1 DEF RingAccounted
    <3> QED
      BY <1>1, <3>1, <3>2
  <2>7. \A i, j \in held' : i.tl = j.tl => i = j
    BY <1>1 DEF RingAccounted
  <2>8. \A t \in curTL + 1 .. lastTL : plan[t] > 0 => \E i \in held' : i.tl = t
    BY <2>6
  <2> QED
    BY <1>2, <2>4, <2>5, <2>7, <2>8 DEF RingAccounted, clientVars
<1>3. TypeOK'
  <2>1. busy' \in BOOLEAN
    BY <1>2, Zenon
  <2>2. curTL' \in 1 .. MaxTime + 1 /\ held' \in SUBSET Item
    BY <1>1, <1>2, <1>t DEF TypeOK
  <2> QED
    BY <1>2, <1>r, <2>1, <2>2 DEF TypeOK, clientVars
<1>4. \A k \in Stages : Stage(k)' = Stage(k)
  BY <1>2, SameWindow DEF clientVars
<1>5. SameObservers /\ NoneLost'
  BY <1>2, <1>3, <1>4, <1>t, NextEvent DEF clientVars
<1>6. StagesKept'
  <2>2. Len(request') <= 1 /\ Len(wire') + Len(probes') <= 1
    BY <1>2 DEF StagesKept, clientVars
  <2> QED
    BY <1>2, <1>4, <1>5, <2>2, StagesFrame, StageByStage DEF StagesKept, clientVars
<1>7. OffsetsRight' /\ WordsRight' /\ LocalCountSafe'
  BY <1>2, <1>5, WordsFrame, CountFrame DEF clientVars, OffsetsRight
<1>8. DialogueKept' /\ TurnsKept' /\ EndKept'
  <2>1. EndKept'
    BY <1>2, <1>t DEF EndKept, Finalize, clientVars
  <2>2. ~ChangeIn(1)
    <3>1. ChangeIn(1) => held = {}
      BY DEF DialogueKept
    <3> QED
      BY <1>1, <3>1
  <2>3. DialogueKept'
    BY <1>2, <1>5, <2>2, StageByStage DEF DialogueKept, Stages, Resize, clientVars
  <2> QED
    BY <1>2, <1>5, <2>1, <2>3, TurnsFrame DEF clientVars
<1>9. HistoryKept'
  <2>1. \A t \in 1 .. MaxTime : Handed(t)' <=> Handed(t)
    BY <1>2, <1>t DEF Handed, clientVars
  <2>2. \A i \in DOMAIN processed : processed[i] \in 1 .. MaxTime
    BY HistoryType
  <2> QED
    BY <1>2, <2>1, <2>2 DEF HistoryKept, clientVars
<1> QED
  BY <1>2, <1>3, <1>5, <1>6, <1>7, <1>8, <1>9, <1>r DEF NoStaleAccess

(* The next event to be handed over is the oldest accepted that was not.     *)
LEMMA NextHanded ==
  ASSUME TypeOK, NoneLost, RingAccounted, HistoryKept, ~busy,
         NEW item \in held, item.tl = curTL
  PROVE  Len(processed) + 1 <= Len(accepted) /\ accepted[Len(processed) + 1] = curTL
<1>1. /\ curTL \in 1 .. MaxTime /\ curTL \in 1 .. nextTL - 1 /\ plan[curTL] > 0
      /\ curTL \in Nat
  <2>1. /\ curTL \in 1 .. MaxTime /\ curTL < nextTL /\ plan[curTL] = item.size
        /\ item.size \in Nat \ {0}
    BY CurrentHeld
  <2>2. nextTL \in Nat /\ MaxTime \in Nat
    BY SizesAssumption DEF TypeOK
  <2> QED
    BY <2>1, <2>2
<1>2. PICK i \in DOMAIN accepted : accepted[i] = curTL
  BY <1>1 DEF HistoryKept
<1> DEFINE j == Len(processed) + 1
<1>3. /\ DOMAIN processed = 1 .. Len(processed) /\ DOMAIN accepted = 1 .. Len(accepted)
      /\ Len(processed) \in Nat /\ Len(accepted) \in Nat /\ i \in Nat /\ j \in Nat
      /\ Len(processed) <= Len(accepted) /\ i <= Len(accepted)
  BY HistoryType DEF HistoryKept
<1>4. ~(i < j)
  <2>1. SUFFICES ASSUME i < j
                 PROVE  FALSE
    OBVIOUS
  <2>2. i \in DOMAIN processed
    BY <1>3, <2>1
  <2>3. Handed(curTL)
    BY <1>2, <2>2 DEF HistoryKept
  <2> QED
    BY <1>1, <2>3 DEF Handed
<1>5. ~(j < i)
  <2>1. SUFFICES ASSUME j < i
                 PROVE  FALSE
    OBVIOUS
  <2>2. j \in DOMAIN accepted
    BY <1>3, <2>1
  <2>3. accepted[j] < curTL /\ plan[accepted[j]] > 0 /\ accepted[j] \in 1 .. MaxTime
    BY <1>2, <2>1, <2>2, HistoryType DEF HistoryKept
  <2>4. Handed(accepted[j])
    BY <2>3 DEF Handed
  <2>5. PICK k \in DOMAIN processed : processed[k] = accepted[j]
    BY <2>3, <2>4 DEF HistoryKept
  <2>6. k \in DOMAIN accepted /\ accepted[k] = accepted[j] /\ k < j
    BY <1>3, <2>5 DEF HistoryKept
  <2>7. accepted[k] < accepted[j]
    BY <2>2, <2>6 DEF HistoryKept
  <2> QED
    BY <2>3, <2>6, <2>7
<1> QED
  BY <1>2, <1>3, <1>4, <1>5

(* The event is handed over; the finalize event is acknowledged first.       *)
LEMMA StartEventStep ==
  ASSUME LegacyInv, StartEvent
  PROVE  LegacyInv'
<1> USE DEF LegacyInv
<1>1. /\ ~busy /\ busy' = TRUE
      /\ IF curTL = MaxTime
           THEN win' = [win EXCEPT ![swin].notify = Finalize] /\ stale' = (stale \/ sepoch # epoch)
           ELSE UNCHANGED <<win, stale>>
      /\ processed' = Append(processed, curTL)
      /\ UNCHANGED <<clientVars, wire, probes, request, swin, resizing, used, ring,
                     held, curTL, lastTL, sepoch>>
  BY DEF StartEvent, Access
<1>2. PICK item \in held : item.tl = curTL
  BY DEF StartEvent, IsCurrent
<1>t. /\ curTL \in 1 .. MaxTime /\ MaxTime \in Nat /\ curTL \in Nat /\ lastTL \in Nat
      /\ lastTL < nextTL /\ nextTL \in Nat /\ lastTL <= MaxTime /\ curTL <= lastTL
      /\ plan[curTL] = item.size /\ item.size \in Nat \ {0}
  BY <1>2, CurrentHeld, SizesAssumption DEF TypeOK
<1>e. curTL = MaxTime => /\ step = 0 /\ \A k \in Stages : ~ChangeIn(k)
                         /\ pc # "released" /\ sepoch = epoch
  <2>1. SUFFICES ASSUME curTL = MaxTime
                 PROVE  /\ step = 0 /\ \A k \in Stages : ~ChangeIn(k)
                        /\ pc # "released" /\ sepoch = epoch
    OBVIOUS
  <2>2. pc # "open"
    BY <1>t, <2>1 DEF EndKept
  <2>3. step = 0
    BY <2>2, NoDialogue
  <2>4. HeldRight
    BY DEF RingAccounted, HeldRight
  <2>5. \A k \in Stages : ~ChangeIn(k)
    <3>1. \E i \in held : IsCurrent(i)
      BY <1>2 DEF IsCurrent
    <3> QED
      BY <2>1, <2>4, <3>1, NoChangeAtTheEnd
  <2>6. pc # "released"
    BY <1>1, <1>t, <2>1 DEF EndKept
  <2> QED
    BY <2>3, <2>5, <2>6 DEF DialogueKept
<1>w. /\ win' \in [{0, 1} -> Window]
      /\ \A v \in {0, 1} :
           /\ win'[v].cnt = win[v].cnt /\ win'[v].mem = win[v].mem
           /\ win'[v].tl = win[v].tl
           /\ win'[v].notify # win[v].notify => curTL = MaxTime /\ win'[v].notify = Finalize
  <2>1. CASE curTL = MaxTime
    <3>1. swin \in {0, 1}
      BY DEF TypeOK
    <3>2. win' = [win EXCEPT ![swin].notify = Finalize]
      BY <1>1, <2>1
    <3> QED
      BY <2>1, <3>1, <3>2, WindowNotified
  <2>2. CASE curTL # MaxTime
    BY <1>1, <2>2 DEF TypeOK
  <2> QED
    BY <2>1, <2>2
<1>n. ~stale' /\ stale' \in BOOLEAN
  <2>1. ~stale /\ stale \in BOOLEAN
    BY DEF NoStaleAccess, TypeOK
  <2>2. CASE curTL = MaxTime
    <3>1. stale' = (stale \/ sepoch # epoch)
      BY <1>1, <2>2
    <3>2. sepoch = epoch
      BY <1>e, <2>2
    <3> QED
      BY <2>1, <3>1, <3>2, Zenon
  <2>3. CASE curTL # MaxTime
    <3>1. stale' = stale
      BY <1>1, <2>3
    <3> QED
      BY <2>1, <3>1, Zenon
  <2> QED
    BY <2>2, <2>3
<1>3. TypeOK'
  <2>1. busy' \in BOOLEAN
    BY <1>1, Zenon
  <2>2. processed' \in Seq(1 .. MaxTime)
    BY <1>1, <1>t DEF TypeOK
  <2>3. UNCHANGED <<clientVars, wire, probes, request, swin, resizing, used, ring, held,
                    curTL, lastTL, sepoch>>
    BY <1>1
  <2>4. win' \in [{0, 1} -> Window] /\ stale' \in BOOLEAN
    BY <1>w, <1>n
  <2> QED
    BY <2>1, <2>2, <2>3, <2>4 DEF TypeOK, clientVars
<1>4. \A k \in Stages : Stage(k)' = Stage(k)
  BY <1>1, <1>w, SameWindow DEF clientVars
<1>5. SameObservers
  BY <1>1, <1>4, SameStages DEF clientVars
<1>6. StagesKept'
  <2>2. Len(request') <= 1 /\ Len(wire') + Len(probes') <= 1
    BY <1>1 DEF StagesKept, clientVars
  <2> QED
    BY <1>1, <1>4, <1>5, <2>2, StagesFrame, StageByStage DEF StagesKept, clientVars
<1>7. NoneLost' /\ OffsetsRight' /\ WordsRight' /\ LocalCountSafe'
  <2>1. \E i \in held' : IsCurrent(i)'
    BY <1>1, <1>2 DEF IsCurrent
  <2>2. \A t \in 1 .. nextTL - 1 :
          plan[t] > 0 /\ t > lastTL => t >= curTL /\ \E k \in Stages : Waits(k, t)'
    BY <1>5 DEF NoneLost, SameObservers
  <2>3. NoneLost'
    BY <1>1, <2>1, <2>2 DEF NoneLost, clientVars
  <2> QED
    BY <1>1, <1>w, <1>5, <2>3, NotifiedFrame DEF clientVars, OffsetsRight
<1>8. DialogueKept'
  <2>1. cur \in {0, 1}
    BY DEF TypeOK
  <2>2. CASE curTL = MaxTime
    <3>1. \A v \in {0, 1} : win[v].notify # Resize /\ win'[v].notify # Resize
      BY <1>e, <1>w, <2>2 DEF DialogueKept, Resize, Finalize
    <3> QED
      BY <1>1, <1>e, <1>5, <2>2, <3>1, StageByStage DEF DialogueKept, Stages, Resize, clientVars
  <2>3. CASE curTL # MaxTime
    <3>1. \A v \in {0, 1} : win'[v].notify = win[v].notify
      BY <1>w, <2>3
    <3> QED
      BY <1>1, <1>5, <3>1, DialogueFrame DEF clientVars, DialogueKept
  <2> QED
    BY <2>2, <2>3
<1>9. TurnsKept' /\ EndKept'
  <2>1. \A v \in {0, 1} : win'[v].notify = Finalize => curTL > MaxTime \/ curTL = MaxTime
    BY <1>w DEF EndKept
  <2>2. EndKept'
    BY <1>1, <2>1 DEF EndKept, Finalize, clientVars
  <2> QED
    BY <1>1, <1>5, <2>2, TurnsFrame DEF clientVars
<1>10. HistoryKept'
  <2>1. Len(processed) + 1 <= Len(accepted) /\ accepted[Len(processed) + 1] = curTL
    BY <1>1, <1>2, NextHanded
  <2>2. /\ Len(processed') = Len(processed) + 1 /\ processed'[Len(processed) + 1] = curTL
        /\ \A i \in 1 .. Len(processed) : processed'[i] = processed[i]
        /\ processed' \in Seq(1 .. MaxTime)
    <3>1. processed \in Seq(1 .. MaxTime)
      BY DEF TypeOK
    <3> QED
      BY <1>1, <1>t, <3>1, AppendProperties
  <2>3. /\ DOMAIN processed = 1 .. Len(processed) /\ Len(processed) \in Nat
        /\ DOMAIN processed' = 1 .. Len(processed) + 1
    BY <2>2, HistoryType, LenProperties
  <2>4. \A t \in 1 .. MaxTime : Handed(t)' => Handed(t) \/ t = curTL
    BY <1>1, <1>t DEF Handed, clientVars
  <2>5. \A t \in 1 .. MaxTime : Handed(t) => Handed(t)'
    BY <1>1, <1>t DEF Handed, clientVars
  <2>6. ASSUME NEW i \in DOMAIN processed'
        PROVE  /\ processed'[i] = accepted[i]
               /\ \E t \in 1 .. MaxTime : t = processed'[i] /\ Handed(t)'
    <3>1. CASE i = Len(processed) + 1
      <4>1. PICK t \in 1 .. MaxTime : t = curTL
        BY <1>t
      <4>2. Handed(t)'
        BY <1>1, <1>t, <4>1 DEF Handed, clientVars
      <4> QED
        BY <2>1, <2>2, <3>1, <4>1, <4>2
    <3>2. CASE i \in DOMAIN processed
      <4>1. processed'[i] = processed[i]
        BY <2>2, <2>3, <3>2
      <4>2. processed[i] = accepted[i] /\ Handed(processed[i])
        BY <3>2 DEF HistoryKept
      <4>3. processed[i] \in 1 .. MaxTime
        BY <3>2, HistoryType
      <4>4. PICK t \in 1 .. MaxTime : t = processed[i]
        BY <4>3
      <4>5. Handed(t)
        BY <4>2, <4>4 DEF Handed
      <4>6. Handed(t)'
        BY <2>5, <4>5
      <4> QED
        BY <4>1, <4>2, <4>4, <4>6
    <3> QED
      BY <2>3, <3>1, <3>2
  <2>7. ASSUME NEW t \in 1 .. MaxTime, Handed(t)'
        PROVE  \E i \in DOMAIN processed' : processed'[i] = t
    <3>1. CASE t = curTL
      BY <2>2, <2>3, <3>1
    <3>2. CASE Handed(t)
      <4>1. PICK i \in DOMAIN processed : processed[i] = t
        BY <3>2 DEF HistoryKept
      <4> QED
        BY <2>2, <2>3, <4>1
    <3> QED
      BY <2>4, <2>7, <3>1, <3>2
  <2> QED
    <3>1. \A i \in DOMAIN processed' : processed'[i] = accepted'[i] /\ Handed(processed[i])'
      BY <1>1, <2>6 DEF Handed, clientVars
    <3>2. Len(processed') <= Len(accepted')
      BY <1>1, <2>1, <2>2 DEF clientVars
    <3> QED
      BY <1>1, <2>7, <3>1, <3>2 DEF HistoryKept, clientVars
<1>11. NoStaleAccess' /\ RingAccounted'
  BY <1>1, <1>n, RingFrame DEF clientVars, NoStaleAccess
<1> QED
  BY <1>3, <1>6, <1>7, <1>8, <1>9, <1>10, <1>11

-----------------------------------------------------------------------------
(* The server receives.                                                      *)

(* The bytes of the events held are a number.                                *)
LEMMA HeldBytesType ==
  ASSUME TypeOK, NoneLost, OffsetsRight
  PROVE  HeldBytes \in Nat
<1>1. /\ curTL \in Nat /\ lastTL \in Nat /\ nextTL \in Nat /\ curTL >= 1 /\ lastTL < nextTL
  BY SizesAssumption DEF TypeOK, NoneLost
<1>2. CASE curTL <= lastTL
  <2>1. curTL \in 1 .. nextTL /\ lastTL + 1 \in 1 .. nextTL /\ curTL <= lastTL + 1
    BY <1>1, <1>2
  <2>2. offset[curTL] <= offset[lastTL + 1] /\ offset[curTL] \in Nat /\ offset[lastTL + 1] \in Nat
    BY <2>1, OffsetType DEF OffsetsRight
  <2> QED
    BY <1>2, <2>2 DEF HeldBytes
<1>3. CASE ~(curTL <= lastTL)
  BY <1>3 DEF HeldBytes
<1> QED
  BY <1>2, <1>3

(* A ring with no byte in use holds nothing.                                 *)
LEMMA EmptyRing ==
  ASSUME TypeOK, NoneLost, OffsetsRight, RingAccounted, used = 0, request = <<>>
  PROVE  held = {} /\ HeldBytes = 0
<1>1. HeldBytes = 0
  BY HeldBytesType DEF RingAccounted
<1>2. ASSUME NEW item \in held
      PROVE  FALSE
  <2>1. /\ item \in Item /\ item.tl \in curTL .. lastTL /\ item.size = plan[item.tl]
        /\ item.size \in Nat \ {0}
    BY ItemType DEF TypeOK, RingAccounted
  <2>2. /\ curTL \in Nat /\ lastTL \in Nat /\ nextTL \in Nat /\ curTL >= 1 /\ lastTL < nextTL
        /\ item.tl \in Nat /\ curTL <= item.tl /\ item.tl <= lastTL
    BY <2>1, SizesAssumption DEF TypeOK, NoneLost
  <2>3. /\ curTL \in 1 .. nextTL /\ item.tl \in 1 .. nextTL - 1 /\ item.tl \in 1 .. nextTL
        /\ item.tl + 1 \in 1 .. nextTL /\ lastTL + 1 \in 1 .. nextTL
        /\ item.tl + 1 <= lastTL + 1
    BY <2>2
  <2>4. /\ offset[curTL] <= offset[item.tl] /\ offset[item.tl + 1] <= offset[lastTL + 1]
        /\ offset[item.tl + 1] = offset[item.tl] + item.size
    BY <2>1, <2>2, <2>3 DEF OffsetsRight
  <2>5. /\ offset[curTL] \in Nat /\ offset[item.tl] \in Nat /\ offset[item.tl + 1] \in Nat
        /\ offset[lastTL + 1] \in Nat
    BY <2>3, OffsetType
  <2>6. offset[lastTL + 1] - offset[curTL] = 0
    BY <1>1, <2>2 DEF HeldBytes
  <2> QED
    BY <2>1, <2>4, <2>5, <2>6
<1> QED
  BY <1>1, <1>2

(* checkPendingProbe: there is room for the message, it is being received.   *)
LEMMA AcceptProbeStep ==
  ASSUME LegacyInv, AcceptProbe
  PROVE  LegacyInv'
<1> USE DEF LegacyInv
<1>1. /\ request = <<>> /\ probes # <<>> /\ Acceptable(Head(probes).n)
      /\ used' = used + Head(probes).n /\ request' = <<Head(probes)>>
      /\ probes' = Tail(probes)
      /\ UNCHANGED <<clientVars, win, wire, swin, resizing, ring, held, curTL,
                     lastTL, busy, sepoch, processed, stale>>
  BY DEF AcceptProbe
<1>2. /\ wire = <<>> /\ Stage(2) = probes /\ Tail(probes) = <<>> /\ Head(probes) \in Message
      /\ probes = <<Head(probes)>>
  BY <1>1, BetweenForm
<1>3. TypeOK'
  <2>1. Head(probes).n \in Nat
    BY <1>2, MessageType
  <2>2. used' \in Nat /\ request' \in Seq(Message) /\ probes' \in Seq(Message)
    BY <1>1, <1>2, <2>1 DEF TypeOK
  <2> QED
    BY <1>1, <2>2 DEF TypeOK, clientVars
<1>4. Stage(1)' = Stage(2) /\ Stage(2)' = <<>> /\ Stage(3)' = Stage(3)
  BY <1>1, <1>2 DEF Stage, Between, InWindow, Contents, Below, clientVars
<1>5. /\ Empty(1) /\ ~Empty(2) /\ ~Empty(1)' /\ Empty(2)' /\ (Empty(3)' <=> Empty(3))
      /\ (NotifyIn(1)' <=> NotifyIn(2)) /\ (NotifyIn(3)' <=> NotifyIn(3))
      /\ (ChangeIn(1)' <=> ChangeIn(2)) /\ (ChangeIn(3)' <=> ChangeIn(3))
      /\ (EventsIn(1)' <=> EventsIn(2)) /\ (EventsIn(3)' <=> EventsIn(3))
      /\ \A t : (Waits(1, t)' <=> Waits(2, t)) /\ (Waits(3, t)' <=> Waits(3, t))
  <2>1. Empty(1) /\ ~Empty(2) /\ Empty(2)'
    BY <1>1, <1>2, <1>4, BetweenForm DEF Empty, Stage
  <2>2. 1 \in Stages /\ 2 \in Stages /\ 3 \in Stages
    BY DEF Stages
  <2>3. UNCHANGED <<nextTL, lastTL, curTL, plan, offset, epoch>>
    BY <1>1 DEF clientVars
  <2> QED
    BY <1>4, <2>1, <2>2, <2>3, SameStage
<1>6. /\ ~NotifyIn(2)' /\ ~ChangeIn(2)' /\ ~EventsIn(2)' /\ ~NotifyIn(1) /\ ~ChangeIn(1)
      /\ ~EventsIn(1) /\ \A t : ~Waits(1, t)
  BY <1>5 DEF NotifyIn, ChangeIn, EventsIn, Waits
<1>7. StagesKept'
  <2>1. Len(request') = 1 /\ Len(wire') = 0 /\ Len(probes') = 0
    BY <1>1, <1>2 DEF clientVars
  <2>2. \A k \in Stages : ~Empty(k)' => EventsIn(k)' \/ NotifyIn(k)' \/ ChangeIn(k)'
    BY <1>5 DEF StagesKept, Stages
  <2>3. /\ NotifyIn(1)' \/ ChangeIn(1)' => Head(Stage(1))'.n = CtlSize
        /\ NotifyIn(3)' \/ ChangeIn(3)' => Head(Stage(3))'.n = CtlSize
    BY <1>4, <1>5 DEF StagesKept, Stages
  <2>4. \A k \in Stages : NotifyIn(k)' \/ ChangeIn(k)' => Head(Stage(k))'.n = CtlSize
    BY <1>6, <2>3 DEF Stages
  <2>5. EventsIn(1)' /\ EventsIn(3)' =>
          \A a \in Head(Stage(1))'.items, b \in Head(Stage(3))'.items : a.tl < b.tl
    BY <1>4, <1>5 DEF StagesKept, Stages
  <2>6. \A j, k \in Stages : j < k /\ EventsIn(j)' /\ EventsIn(k)' =>
        \A a \in Head(Stage(j))'.items, b \in Head(Stage(k))'.items : a.tl < b.tl
    BY <1>6, <2>5 DEF Stages
  <2>7. pc' \in {"wait", "released"} => ~pending' /\ Empty(3)'
    BY <1>1, <1>5 DEF StagesKept, clientVars
  <2> QED
    BY <1>5, <2>1, <2>2, <2>4, <2>6, <2>7 DEF StagesKept, CtlSize
<1>8. NoneLost' /\ OffsetsRight' /\ WordsRight' /\ LocalCountSafe'
  <2>1. \A t : (\E k \in Stages : Waits(k, t)) => (\E k \in Stages : Waits(k, t)')
    BY <1>5, <1>6 DEF Stages
  <2>2. \A t \in 1 .. nextTL - 1 :
          plan[t] > 0 /\ t > lastTL => t >= curTL /\ \E k \in Stages : Waits(k, t)'
    BY <2>1 DEF NoneLost
  <2>3. busy' => \E i \in held' : IsCurrent(i)'
    BY <1>1 DEF IsCurrent, NoneLost
  <2>4. NoneLost'
    BY <1>1, <2>2, <2>3 DEF NoneLost, clientVars
  <2> QED
    BY <1>1, <1>5, <2>4, CountFrame DEF clientVars, OffsetsRight, WordsRight
<1>9. DialogueKept'
  <2>1. ChangeIn(2) => held = {}
    <3>1. SUFFICES ASSUME ChangeIn(2)
                   PROVE  held = {}
      OBVIOUS
    <3>2. resizing
      BY <3>1 DEF DialogueKept, Stages
    <3>3. used = 0
      BY <1>1, <3>2 DEF Acceptable, RoomWhileResizing
    <3> QED
      BY <1>1, <3>3, EmptyRing
  <2>2. ~Answered /\ ~Answered'
    BY <1>5 DEF Answered, Stages
  <2> QED
    BY <1>1, <1>5, <1>6, <2>1, <2>2 DEF DialogueKept, Stages, Resize, clientVars
<1>10. TurnsKept' /\ EndKept'
  BY <1>1, <1>5, EndFrame DEF TurnsKept, clientVars
<1>11. RingAccounted'
  <2>1. request' # <<>> /\ Head(request') = Head(probes) /\ Head(probes).n \in Nat
    BY <1>1, <1>2, MessageType
  <2>2. used = HeldBytes /\ HeldBytes' = HeldBytes /\ HeldBytes \in Nat
    <3>1. used = HeldBytes + 0
      BY <1>1 DEF RingAccounted
    <3>2. HeldBytes' = HeldBytes
      BY <1>1 DEF HeldBytes, clientVars
    <3> QED
      BY <3>1, <3>2, HeldBytesType
  <2>3. used' = HeldBytes' + Head(request').n
    BY <1>1, <2>1, <2>2
  <2> QED
    BY <1>1, <2>1, <2>3 DEF RingAccounted, clientVars
<1>12. HistoryKept' /\ NoStaleAccess'
  BY <1>1, HistoryFrame DEF clientVars, NoStaleAccess
<1> QED
  BY <1>3, <1>7, <1>8, <1>9, <1>10, <1>11, <1>12

(* The message being received, and its kind.                                 *)
LEMMA Receiving ==
  ASSUME TypeOK, StagesKept, request # <<>>
  PROVE  /\ Stage(1) = request /\ ~Empty(1) /\ Head(request) \in Message /\ Head(request).n \in Nat
         /\ EventsIn(1) \/ NotifyIn(1) \/ ChangeIn(1)
         /\ EventsIn(1) => \A i \in Head(request).items : ~IsControl(i)
         /\ NotifyIn(1) => \A i \in Head(request).items : IsControl(i) /\ i.tl = Notify
         /\ NotifyIn(1) => \E i \in Head(request).items : TRUE
         /\ ChangeIn(1) => \A i \in Head(request).items : IsControl(i) /\ i.tl = Change
         /\ ChangeIn(1) => \E i \in Head(request).items : TRUE
<1>1. 1 \in Stages /\ Stage(1) = request /\ ~Empty(1)
  BY DEF Stages, Stage, Empty
<1>2. Head(request) \in Message /\ Head(request).n \in Nat
  BY <1>1, StageForm, MessageType
<1>3. EventsIn(1) \/ NotifyIn(1) \/ ChangeIn(1)
  BY <1>1 DEF StagesKept
<1>4. \A i \in Head(request).items : i.tl \in Nat
  <2>1. \A i \in Head(request).items : i.tl \in 1 .. Change
    BY <1>2, MessageType, ItemType
  <2> QED
    BY <2>1, Codes
<1>5. EventsIn(1) => \A i \in Head(request).items : ~IsControl(i)
  <2>1. EventsIn(1) => \A i \in Head(request).items : i.tl < nextTL
    BY <1>1 DEF EventsIn, IsEvents
  <2>2. nextTL \in Nat /\ nextTL <= MaxTime + 1 /\ MaxTime \in Nat
    BY SizesAssumption DEF TypeOK
  <2> QED
    BY <1>4, <2>1, <2>2 DEF IsControl
<1>6. Notify > MaxTime /\ Change > MaxTime
  BY Codes
<1>7. NotifyIn(1) => /\ \A i \in Head(request).items : i.tl = Notify
                     /\ \E i \in Head(request).items : TRUE
  <2> DEFINE note == [at |-> 0, tl |-> Notify, size |-> CtlSize, arg |-> 0, addr |-> 0]
  <2>1. note.tl = Notify
    OBVIOUS
  <2>2. NotifyIn(1) => Head(request).items = {note}
    BY <1>1 DEF NotifyIn, IsNotify
  <2> HIDE DEF note
  <2> QED
    BY <2>1, <2>2
<1>8. ChangeIn(1) => /\ \A i \in Head(request).items : i.tl = Change
                     /\ \E i \in Head(request).items : TRUE
  BY <1>1 DEF ChangeIn, IsChange
<1> QED
  BY <1>1, <1>2, <1>3, <1>5, <1>6, <1>7, <1>8 DEF IsControl

(* The stages after the first message has been read.                         *)
LEMMA StagesRead ==
  ASSUME TypeOK, StagesKept, NEW k \in Stages, Empty(k)',
         \A j \in Stages : j # k => Stage(j)' = Stage(j),
         \A j \in Stages : j # k => /\ Empty(j)' <=> Empty(j)
                                    /\ NotifyIn(j)' <=> NotifyIn(j)
                                    /\ ChangeIn(j)' <=> ChangeIn(j)
                                    /\ EventsIn(j) <=> EventsIn(j)',
         Len(request') <= 1, Len(wire') + Len(probes') <= 1, UNCHANGED <<pending, pc>>,
         k = 3 => Empty(2)
  PROVE  StagesKept'
<1>1. ~NotifyIn(k)' /\ ~ChangeIn(k)' /\ ~EventsIn(k)'
  BY DEF NotifyIn, ChangeIn, EventsIn
<1>2. \A j \in Stages : ~Empty(j)' => EventsIn(j)' \/ NotifyIn(j)' \/ ChangeIn(j)'
  BY DEF StagesKept
<1>3. \A j \in Stages : NotifyIn(j)' \/ ChangeIn(j)' => Head(Stage(j))'.n = CtlSize
  BY <1>1 DEF StagesKept
<1>4. \A i, j \in Stages : i < j /\ EventsIn(i)' /\ EventsIn(j)' =>
        \A a \in Head(Stage(i))'.items, b \in Head(Stage(j))'.items : a.tl < b.tl
  <2>1. SUFFICES ASSUME NEW i \in Stages, NEW j \in Stages, i < j, EventsIn(i)', EventsIn(j)'
                 PROVE  \A a \in Head(Stage(i))'.items, b \in Head(Stage(j))'.items : a.tl < b.tl
    OBVIOUS
  <2>2. i # k /\ j # k
    BY <1>1, <2>1
  <2>3. EventsIn(i) /\ EventsIn(j) /\ Stage(i)' = Stage(i) /\ Stage(j)' = Stage(j)
    BY <2>1, <2>2
  <2> QED
    BY <2>1, <2>3 DEF StagesKept
<1>5. (~Empty(2)' => pending') /\ (pc' \in {"wait", "released"} => ~pending' /\ Empty(3)')
  BY DEF StagesKept, Stages
<1> QED
  BY <1>2, <1>3, <1>4, <1>5 DEF StagesKept, CtlSize

(* processRequest of a message of events.                                    *)
LEMMA ReceiveEventsStep ==
  ASSUME LegacyInv, ReceiveEvents
  PROVE  LegacyInv'
<1> USE DEF LegacyInv
<1> DEFINE m == Head(request)
           L == LastTimeLine(m.items)
<1>1. /\ request # <<>> /\ \A item \in m.items : ~IsControl(item)
      /\ swin' = Other(swin) /\ held' = held \cup m.items /\ lastTL' = L
      /\ request' = <<>>
      /\ UNCHANGED <<clientVars, win, wire, probes, resizing, used, ring, curTL,
                     busy, sepoch, processed, stale>>
  BY DEF ReceiveEvents, NextWindow
<1>2. EventsIn(1) /\ m = Head(Stage(1)) /\ ~Empty(1) /\ ~NotifyIn(1) /\ ~ChangeIn(1)
  BY <1>1, Receiving
<1>3. Stage(1)' = <<>> /\ Empty(1)' /\ \A j \in Stages : j # 1 => Stage(j)' = Stage(j)
  BY <1>1 DEF Stage, Between, InWindow, Contents, Below, clientVars, Empty
<1>h. HeldRight
  BY DEF HeldRight, RingAccounted
<1>4. /\ NoneLost' /\ HeldRight' /\ HeldBytes' = HeldBytes + m.n
      /\ \A j \in Stages : j # 1 => /\ Empty(j)' <=> Empty(j)
                                    /\ NotifyIn(j)' <=> NotifyIn(j)
                                    /\ ChangeIn(j)' <=> ChangeIn(j)
                                    /\ EventsIn(j) => EventsIn(j)'
      /\ ~NotifyIn(1)' /\ ~ChangeIn(1)' /\ ~EventsIn(1)'
      /\ m \in Message /\ L \in 0 .. MaxTime /\ held' \subseteq Item
  <2>1. 1 \in Stages /\ \A j \in Stages : j < 1 => Empty(j)
    BY DEF Stages
  <2>2. UNCHANGED <<nextTL, plan, offset, curTL, busy, epoch>>
    BY <1>1 DEF clientVars
  <2> QED
    BY <1>1, <1>2, <1>3, <1>h, <2>1, <2>2, EventsRead
<1>5. TypeOK'
  <2>1. swin' \in {0, 1}
    BY <1>1, Codes DEF TypeOK
  <2>2. request' \in Seq(Message)
    BY <1>1
  <2> QED
    BY <1>1, <1>4, <2>1, <2>2 DEF TypeOK, clientVars
<1>e. \A j \in Stages : j # 1 => (EventsIn(j) <=> EventsIn(j)')
  <2>1. KindsApart'
    BY <1>5, OneKindNext
  <2>2. \A j \in Stages : j # 1 /\ EventsIn(j)' => ~Empty(j)
    BY <1>4 DEF EventsIn
  <2> QED
    BY <1>4, <2>1, <2>2 DEF KindsApart, StagesKept
<1>6. StagesKept'
  <2>1. 1 \in Stages /\ Len(request') <= 1 /\ Len(wire') + Len(probes') <= 1
    BY <1>1 DEF StagesKept, Stages
  <2> QED
    BY <1>1, <1>3, <1>4, <1>e, <2>1, StagesRead DEF clientVars
<1>7. OffsetsRight' /\ WordsRight' /\ LocalCountSafe'
  <2>1. EventsIn(3) => EventsIn(3)'
    BY <1>4 DEF Stages
  <2> QED
    BY <1>1, <2>1, CountFrame DEF clientVars, OffsetsRight, WordsRight
<1>8. DialogueKept' /\ ~resizing
  <2>1. ~Answered
    BY <1>2 DEF Answered, Stages
  <2>2. \A j \in Stages : ~ChangeIn(j)
    BY <1>2 DEF DialogueKept, Stages
  <2>3. ~resizing /\ step # 3
    BY <2>1, <2>2 DEF DialogueKept
  <2>4. \A j \in Stages : ~ChangeIn(j)'
    BY <1>4, <2>2
  <2>5. \A j \in Stages : NotifyIn(j) <=> NotifyIn(j)'
    BY <1>2, <1>4
  <2>6. \A j \in Stages : NotifyIn(j)' => step = 2 /\ \A i \in Stages : i > j => Empty(i)'
    BY <1>3, <1>4, <2>5 DEF DialogueKept
  <2>7. \A w \in {0, 1} : win[w].notify # Resize
    BY <2>1 DEF DialogueKept
  <2>8. step = 2 => \E j \in Stages : NotifyIn(j)'
    BY <2>1, <2>5 DEF DialogueKept
  <2>9. step # 4 /\ ~ChangeIn(1)' /\ ~ChangeIn(3)'
    BY <2>2, <2>4 DEF DialogueKept, Stages
  <2>10. (step > 0 => pc = "open" /\ (blocked \/ fixed)) /\ (step \in 1 .. 3 => newSize > 0)
    BY DEF DialogueKept
  <2>11. pc # "released" => epoch = sepoch
    BY <2>2 DEF DialogueKept
  <2> QED
    BY <1>1, <2>3, <2>4, <2>6, <2>7, <2>8, <2>9, <2>10, <2>11 DEF DialogueKept, Resize, clientVars
<1>9. TurnsKept' /\ EndKept'
  <2>1. Empty(2)' <=> Empty(2)
    BY <1>4 DEF Stages
  <2>2. swin \in {0, 1} /\ cur \in {0, 1}
    BY DEF TypeOK
  <2>3. TurnsKept'
    BY <1>1, <1>2, <1>3, <1>8, <2>1, <2>2 DEF TurnsKept, Other, clientVars
  <2> QED
    BY <1>1, <2>3, EndFrame DEF clientVars
<1>10. RingAccounted'
  <2>1. used = HeldBytes + m.n /\ m.n \in Nat
    BY <1>1, Receiving DEF RingAccounted
  <2>2. used' = HeldBytes' + 0
    BY <1>1, <1>4, <2>1, HeldBytesType
  <2> QED
    BY <1>1, <1>4, <2>2 DEF RingAccounted, HeldRight
<1>11. HistoryKept' /\ NoStaleAccess'
  BY <1>1, HistoryFrame DEF clientVars, NoStaleAccess
<1> QED
  BY <1>4, <1>5, <1>6, <1>7, <1>8, <1>9, <1>10, <1>11

(* A control message is read: nothing of the events moves.                   *)
LEMMA ControlRead ==
  ASSUME TypeOK, StagesKept, NoneLost, ~EventsIn(1), ~Empty(1),
         request' = <<>>, UNCHANGED <<wire, probes, cur, epoch>>,
         UNCHANGED <<nextTL, lastTL, curTL, plan, offset, held, busy, pending, pc>>,
         \A w \in {0, 1} : win'[w].cnt = win[w].cnt /\ win'[w].mem = win[w].mem
  PROVE  /\ StagesKept' /\ NoneLost' /\ Empty(1)'
         /\ ~NotifyIn(1)' /\ ~ChangeIn(1)' /\ ~EventsIn(1)'
         /\ (Empty(2)' <=> Empty(2)) /\ (Empty(3)' <=> Empty(3))
         /\ (NotifyIn(2)' <=> NotifyIn(2)) /\ (NotifyIn(3)' <=> NotifyIn(3))
         /\ (ChangeIn(2)' <=> ChangeIn(2)) /\ (ChangeIn(3)' <=> ChangeIn(3))
         /\ (EventsIn(2)' <=> EventsIn(2)) /\ (EventsIn(3)' <=> EventsIn(3))
<1>1. cur \in {0, 1} /\ 1 \in Stages
  BY DEF TypeOK, Stages
<1>2. InWindow' = InWindow
  BY <1>1 DEF InWindow, Contents, Below
<1>3. Empty(1)' /\ \A j \in Stages : j # 1 => Stage(j)' = Stage(j)
  BY <1>2 DEF Stage, Between, Empty
<1>4. \A j \in Stages : j # 1 => /\ Empty(j)' <=> Empty(j)
                                 /\ NotifyIn(j)' <=> NotifyIn(j)
                                 /\ ChangeIn(j)' <=> ChangeIn(j)
                                 /\ EventsIn(j) <=> EventsIn(j)'
                                 /\ \A t : Waits(j, t)' <=> Waits(j, t)
  BY <1>3, SameStage
<1>5. ~NotifyIn(1)' /\ ~ChangeIn(1)' /\ ~EventsIn(1)'
  BY <1>3 DEF NotifyIn, ChangeIn, EventsIn
<1>6. StagesKept'
  <2>1. Len(request') <= 1 /\ Len(wire') + Len(probes') <= 1
    BY DEF StagesKept
  <2> QED
    BY <1>1, <1>3, <1>4, <2>1, StagesRead
<1>7. NoneLost'
  <2>1. \A t \in 1 .. MaxTime : ~Waits(1, t)
    <3>1. NotifyIn(1) \/ ChangeIn(1)
      BY <1>1 DEF StagesKept
    <3>2. request # <<>> /\ Stage(1) = request
      BY DEF Empty, Stage
    <3>3. \A i \in Head(request).items : IsControl(i)
      BY <3>1, <3>2, Receiving
    <3>4. MaxTime \in Nat
      BY SizesAssumption
    <3> QED
      BY <3>2, <3>3, <3>4 DEF Waits, IsControl
  <2>2. \A t \in 1 .. nextTL - 1 :
          plan[t] > 0 /\ t > lastTL => t >= curTL /\ \E k \in Stages : Waits(k, t)'
    <3>1. SUFFICES ASSUME NEW t \in 1 .. nextTL - 1, plan[t] > 0, t > lastTL
                   PROVE  t >= curTL /\ \E k \in Stages : Waits(k, t)'
      OBVIOUS
    <3>2. t >= curTL /\ \E k \in Stages : Waits(k, t)
      BY <3>1 DEF NoneLost
    <3>3. t \in 1 .. MaxTime
      BY SizesAssumption DEF TypeOK
    <3> QED
      BY <1>4, <2>1, <3>2, <3>3
  <2>3. busy' => \E i \in held' : IsCurrent(i)'
    BY DEF IsCurrent, NoneLost
  <2> QED
    BY <2>2, <2>3 DEF NoneLost
<1> QED
  BY <1>3, <1>4, <1>5, <1>6, <1>7 DEF Stages

(* processRequest of a notification: answered in the client's window.        *)
LEMMA ReceiveNotifyStep ==
  ASSUME LegacyInv, ReceiveNotify
  PROVE  LegacyInv'
<1> USE DEF LegacyInv
<1>1. /\ request # <<>> /\ \E item \in Head(request).items : item.tl = Notify
      /\ resizing' = TRUE
      /\ win' = [win EXCEPT ![Other(swin)].notify = Resize]
      /\ stale' = (stale \/ sepoch # epoch)
      /\ swin' = Other(Other(swin))
      /\ used' = used - Head(request).n /\ request' = <<>>
      /\ UNCHANGED <<clientVars, wire, probes, ring, held, curTL, lastTL, busy,
                     sepoch, processed>>
  BY DEF ReceiveNotify, StartsWith, NextWindow, TurnAgain, Access, UsedAfterPop
<1>2. /\ NotifyIn(1) /\ ~EventsIn(1) /\ ~ChangeIn(1) /\ ~Empty(1)
      /\ Head(request).n \in Nat
  <2>1. Notify # Change
    BY Codes
  <2>2. \E item \in Head(request).items : IsControl(item) /\ item.tl # Change
    BY <1>1, <2>1, Codes DEF IsControl
  <2> QED
    BY <1>1, <2>2, Receiving
<1>3. step = 2 /\ Empty(2) /\ Empty(3) /\ ~Answered
  BY <1>2 DEF DialogueKept, Stages, Answered
<1>4. /\ ~NotifyIn(2) /\ ~ChangeIn(2) /\ ~EventsIn(2)
      /\ ~NotifyIn(3) /\ ~ChangeIn(3) /\ ~EventsIn(3)
  BY <1>3 DEF NotifyIn, ChangeIn, EventsIn
<1>5. \A k \in Stages : ~ChangeIn(k)
  BY <1>2, <1>4 DEF Stages
<1>6. ~resizing /\ pc = "open" /\ epoch = sepoch
  BY <1>3, <1>5 DEF DialogueKept
<1>7. Other(swin) = cur /\ swin \in {0, 1} /\ cur \in {0, 1} /\ Other(Other(swin)) = swin
  BY <1>2, <1>3, <1>6, Codes DEF TurnsKept, TypeOK, Other
<1>w. /\ win' \in [{0, 1} -> Window]
      /\ \A v \in {0, 1} : /\ win'[v].cnt = win[v].cnt /\ win'[v].mem = win[v].mem
                           /\ win'[v].tl = win[v].tl
                           /\ win'[v].notify = IF v = cur THEN Resize ELSE win[v].notify
  <2>1. win' = [win EXCEPT ![cur].notify = Resize]
    BY <1>1, <1>7
  <2> QED
    BY <1>7, <2>1, WindowNotified
<1>n. ~stale' /\ stale' \in BOOLEAN
  <2>1. ~stale /\ stale \in BOOLEAN
    BY DEF NoStaleAccess, TypeOK
  <2> QED
    BY <1>1, <1>6, <2>1, Zenon
<1>u. used' = HeldBytes /\ HeldBytes \in Nat
  <2>1. used = HeldBytes + Head(request).n
    BY <1>1 DEF RingAccounted
  <2> QED
    BY <1>1, <1>2, <2>1, HeldBytesType
<1>8. TypeOK'
  <2>1. resizing' \in BOOLEAN
    BY <1>1, Zenon
  <2>2. request' \in Seq(Message) /\ used' \in Nat /\ swin' \in {0, 1}
    BY <1>1, <1>7, <1>u
  <2> QED
    BY <1>1, <1>w, <1>n, <2>1, <2>2 DEF TypeOK, clientVars
<1>9. /\ StagesKept' /\ NoneLost' /\ Empty(1)'
      /\ ~NotifyIn(1)' /\ ~ChangeIn(1)' /\ ~EventsIn(1)'
      /\ (Empty(2)' <=> Empty(2)) /\ (Empty(3)' <=> Empty(3))
      /\ (NotifyIn(2)' <=> NotifyIn(2)) /\ (NotifyIn(3)' <=> NotifyIn(3))
      /\ (ChangeIn(2)' <=> ChangeIn(2)) /\ (ChangeIn(3)' <=> ChangeIn(3))
      /\ (EventsIn(2)' <=> EventsIn(2)) /\ (EventsIn(3)' <=> EventsIn(3))
  BY <1>1, <1>2, <1>w, ControlRead DEF clientVars
<1>10. OffsetsRight' /\ WordsRight' /\ LocalCountSafe'
  <2>1. WordsRight'
    BY <1>1, <1>7, <1>w, <1>9 DEF WordsRight, clientVars
  <2>2. LocalCountSafe'
    BY <1>1, <1>7, <1>w, Codes DEF LocalCountSafe, Other, clientVars
  <2> QED
    BY <1>1, <2>1, <2>2 DEF clientVars, OffsetsRight
<1>11. DialogueKept'
  <2>1. Answered' /\ \A k \in Stages : ~NotifyIn(k)' /\ ~ChangeIn(k)'
    BY <1>3, <1>4, <1>9 DEF Answered, Stages
  <2>2. ~ChangeIn(1)' /\ ~ChangeIn(3)'
    BY <1>4, <1>9
  <2>3. win'[cur].notify = Resize
    BY <1>7, <1>w
  <2>4. \A v \in {0, 1} : win'[v].notify = Resize => v = cur
    BY <1>3, <1>w DEF DialogueKept
  <2>5. (blocked \/ fixed) /\ newSize > 0
    BY <1>3 DEF DialogueKept
  <2>6. step' = 2 /\ pc' = "open" /\ cur' = cur /\ epoch' = sepoch' /\ newSize' > 0
        /\ (blocked' \/ fixed') /\ resizing'
    BY <1>1, <1>3, <1>6, <2>5 DEF clientVars
  <2> QED
    BY <2>1, <2>2, <2>3, <2>4, <2>6 DEF DialogueKept, Resize
<1>12. TurnsKept' /\ EndKept'
  <2>1. EndKept'
    BY <1>1, <1>w DEF EndKept, Finalize, Resize, clientVars
  <2> QED
    BY <1>1, <2>1 DEF TurnsKept
<1>13. RingAccounted'
  <2>1. HeldBytes' = HeldBytes
    BY <1>1 DEF HeldBytes, clientVars
  <2>2. used' = HeldBytes' + 0
    BY <1>u, <2>1
  <2> QED
    BY <1>1, <2>2 DEF RingAccounted, clientVars
<1>14. HistoryKept' /\ NoStaleAccess'
  BY <1>1, <1>n, HistoryFrame DEF clientVars, NoStaleAccess
<1> QED
  BY <1>8, <1>9, <1>10, <1>11, <1>12, <1>13, <1>14

(* processRequest of a change: a new ring, the addresses of new windows.     *)
LEMMA ReceiveChangeStep ==
  ASSUME LegacyInv, ReceiveChange
  PROVE  LegacyInv' /\ held = {} /\ held' = {}
<1> USE DEF LegacyInv
<1>1. PICK item \in Head(request).items : item.tl = Change /\ ring' = 3 * item.arg /\ sepoch' = item.addr
  BY DEF ReceiveChange
<1>2. /\ request # <<>> /\ resizing' = FALSE /\ used' = 0 /\ swin' = 1 /\ request' = <<>>
      /\ UNCHANGED <<clientVars, win, wire, probes, held, curTL, lastTL, busy,
                     processed, stale>>
  BY DEF ReceiveChange
<1>3. ChangeIn(1) /\ ~EventsIn(1) /\ ~NotifyIn(1) /\ ~Empty(1)
  <2>1. Notify # Change
    BY Codes
  <2>2. IsControl(item) /\ item.tl # Notify
    BY <1>1, <2>1, Codes DEF IsControl
  <2> QED
    BY <1>2, <2>2, Receiving
<1>4. held = {} /\ lastTL < MaxTime /\ epoch = sepoch + 1 /\ cur = IF Empty(2) THEN 1 ELSE 0
  BY <1>3 DEF DialogueKept, Stages
<1>5. sepoch' = epoch /\ ring' \in Nat
  <2>1. PICK i \in Head(request).items : Head(request).items = {i} /\ i.addr = epoch
    <3>1. Stage(1) = request
      BY DEF Stage
    <3> QED
      BY <1>3, <3>1 DEF ChangeIn, IsChange
  <2>2. item = i
    BY <1>1, <2>1
  <2>3. item \in Item
    BY <1>1, <1>2, Receiving, MessageType
  <2> QED
    BY <1>1, <2>1, <2>2, <2>3, ItemType
<1>6. ~Answered /\ ~ChangeIn(2) /\ ~ChangeIn(3)
  BY <1>3 DEF DialogueKept, Stages, Answered
<1>7. TypeOK'
  <2>1. resizing' \in BOOLEAN
    BY <1>2, Zenon
  <2>2. request' \in Seq(Message) /\ used' \in Nat /\ swin' \in {0, 1} /\ epoch \in Nat
    BY <1>2 DEF TypeOK
  <2> QED
    BY <1>2, <1>5, <2>1, <2>2 DEF TypeOK, clientVars
<1>9. /\ StagesKept' /\ NoneLost' /\ Empty(1)'
      /\ ~NotifyIn(1)' /\ ~ChangeIn(1)' /\ ~EventsIn(1)'
      /\ (Empty(2)' <=> Empty(2)) /\ (Empty(3)' <=> Empty(3))
      /\ (NotifyIn(2)' <=> NotifyIn(2)) /\ (NotifyIn(3)' <=> NotifyIn(3))
      /\ (ChangeIn(2)' <=> ChangeIn(2)) /\ (ChangeIn(3)' <=> ChangeIn(3))
      /\ (EventsIn(2)' <=> EventsIn(2)) /\ (EventsIn(3)' <=> EventsIn(3))
  BY <1>2, <1>3, ControlRead DEF clientVars
<1>10. OffsetsRight' /\ WordsRight' /\ LocalCountSafe'
  BY <1>2, <1>9, CountFrame DEF WordsRight, clientVars, OffsetsRight
<1>11. DialogueKept'
  <2>1. \A k \in Stages : ~ChangeIn(k)'
    BY <1>6, <1>9 DEF Stages
  <2>2. \A v \in {0, 1} : win[v].notify # Resize
    BY <1>6 DEF DialogueKept
  <2>3. step # 3 /\ step # 4
    BY <1>6 DEF DialogueKept
  <2>4. step = 2 => NotifyIn(2) \/ NotifyIn(3)
    BY <1>3, <1>6 DEF DialogueKept, Stages
  <2>5. /\ NotifyIn(2) => step = 2 /\ Empty(3)
        /\ NotifyIn(3) => step = 2
    BY DEF DialogueKept, Stages
  <2>6. (step > 0 => pc = "open" /\ (blocked \/ fixed)) /\ (step \in 1 .. 3 => newSize > 0)
    BY DEF DialogueKept
  <2>7. \A k \in Stages : NotifyIn(k)' => step = 2 /\ \A j \in Stages : j > k => Empty(j)'
    BY <1>9, <2>5 DEF Stages
  <2>8. step = 2 => \E k \in Stages : NotifyIn(k)'
    BY <1>9, <2>4 DEF Stages
  <2>9. ~ChangeIn(1)' /\ ~ChangeIn(3)'
    BY <1>6, <1>9
  <2>10. /\ step' = step /\ pc' = pc /\ (blocked' <=> blocked) /\ (fixed' <=> fixed)
         /\ newSize' = newSize
         /\ win' = win /\ epoch' = sepoch' /\ ~resizing'
    BY <1>2, <1>5 DEF clientVars
  <2> QED
    BY <2>1, <2>2, <2>3, <2>6, <2>7, <2>8, <2>9, <2>10 DEF DialogueKept, Resize
<1>12. TurnsKept' /\ EndKept'
  <2>1. TurnsKept'
    BY <1>2, <1>4, <1>9 DEF TurnsKept, clientVars
  <2> QED
    BY <1>2, <2>1, EndFrame DEF clientVars
<1>13. RingAccounted'
  <2>1. HeldBytes = 0
    <3>1. \A t \in curTL .. lastTL : plan[t] = 0
      <4>1. \A t \in curTL .. lastTL : plan[t] \in Nat /\ ~(plan[t] > 0)
        <5>1. \A t \in curTL .. lastTL : t \in 1 .. MaxTime
          BY SizesAssumption DEF TypeOK
        <5> QED
          BY <1>4, <5>1, OffsetType DEF RingAccounted
      <4> QED
        BY <4>1
    <3>2. CASE curTL <= lastTL
      <4>1. /\ curTL \in 1 .. nextTL /\ lastTL + 1 \in 1 .. nextTL /\ curTL <= lastTL + 1
            /\ (lastTL + 1) - 1 = lastTL
        BY <3>2, SizesAssumption DEF TypeOK, NoneLost
      <4>2. offset[curTL] = offset[lastTL + 1] /\ offset[curTL] \in Nat
        BY <3>1, <4>1, OffsetType DEF OffsetsRight
      <4> QED
        BY <3>2, <4>2 DEF HeldBytes
    <3> QED
      BY <3>2 DEF HeldBytes
  <2>2. HeldBytes' = HeldBytes
    BY <1>2 DEF HeldBytes, clientVars
  <2>3. used' = HeldBytes' + 0
    BY <1>2, <2>1, <2>2
  <2> QED
    BY <1>2, <2>3 DEF RingAccounted, clientVars
<1>14. HistoryKept' /\ NoStaleAccess' /\ held' = {}
  BY <1>2, <1>4, HistoryFrame DEF clientVars, NoStaleAccess
<1> QED
  BY <1>4, <1>7, <1>9, <1>10, <1>11, <1>12, <1>13, <1>14

(* A window is emptied: by a send, or by the server.                         *)
LEMMA WindowEmptied ==
  ASSUME TypeOK, win' = [win EXCEPT ![cur] = Emptied(@)]
  PROVE  /\ win' \in [{0, 1} -> Window] /\ win'[cur].cnt = 0 /\ win'[cur].tl = 0
         /\ \A v \in {0, 1} : /\ win'[v].notify = win[v].notify
                              /\ v # cur => win'[v] = win[v]
<1>1. cur \in {0, 1} /\ win \in [{0, 1} -> Window]
  BY DEF TypeOK
<1>2. /\ Emptied(win[cur]) \in Window /\ Emptied(win[cur]).tl = 0
      /\ Emptied(win[cur]).cnt = 0 /\ Emptied(win[cur]).notify = win[cur].notify
  BY <1>1, EmptiedFields
<1>3. win'[cur] = Emptied(win[cur]) /\ \A v \in {0, 1} : v # cur => win'[v] = win[v]
  BY <1>1
<1>4. win' \in [{0, 1} -> Window]
  BY <1>1, <1>2
<1> QED
  BY <1>1, <1>2, <1>3, <1>4

(* Out of a resize, the server knows the windows of a client not released.   *)
LEMMA AddressesKnown ==
  ASSUME TypeOK, DialogueKept, EndKept, ~busy, curTL <= MaxTime, ~resizing
  PROVE  epoch = sepoch
<1>1. pc # "released"
  BY SizesAssumption DEF EndKept, TypeOK
<1>2. \A k \in Stages : ~ChangeIn(k)
  BY DEF DialogueKept
<1> QED
  BY <1>1, <1>2 DEF DialogueKept

(* processEvents looks in the window and finds the current event there.      *)
LEMMA EventsTaken ==
  ASSUME LegacyInv, GetBufferFromClient, win[swin].tl = curTL
  PROVE  LegacyInv'
<1> USE DEF LegacyInv
<1> DEFINE m == Head(Stage(3))
           L == LastTimeLine(m.items)
<1>1. /\ ~busy /\ request = <<>> /\ curTL <= MaxTime /\ used = 0 /\ ~resizing
      /\ stale' = (stale \/ sepoch # epoch)
      /\ used' = win[swin].cnt
      /\ held' = held \cup Contents(win[swin]).items
      /\ lastTL' = LastTimeLine(Contents(win[swin]).items)
      /\ win' = [win EXCEPT ![swin] = Emptied(@)]
      /\ UNCHANGED <<clientVars, wire, probes, request, swin, resizing, ring,
                     curTL, busy, sepoch, processed>>
  BY DEF GetBufferFromClient, MayLook, Access
<1>t. cur \in {0, 1} /\ swin \in {0, 1} /\ curTL \in 1 .. MaxTime + 1 /\ win \in [{0, 1} -> Window]
  BY DEF TypeOK
<1>2. swin = cur
  <2>1. win[swin].tl # 0
    BY <1>t
  <2>2. win[swin].cnt # 0
    BY <1>t, <2>1 DEF WordsRight
  <2> QED
    BY <1>t, <2>2 DEF LocalCountSafe, Other
<1>3. EventsIn(3)
  <2>1. win[cur].tl \in 1 .. MaxTime
    BY <1>1, <1>2, <1>t
  <2> QED
    BY <2>1 DEF WordsRight
<1>4. Empty(1) /\ Empty(2)
  <2>1. Empty(1)
    BY <1>1 DEF Empty, Stage
  <2> QED
    BY <1>1, <1>2, <2>1 DEF TurnsKept
<1>5. ~Empty(3) /\ m = Contents(win[cur]) /\ m.n = win[cur].cnt
  <2>1. ~Empty(3)
    BY <1>3 DEF EventsIn
  <2>2. Stage(3) = <<Contents(win[cur])>>
    BY <2>1 DEF Empty, Stage, InWindow
  <2> QED
    BY <1>t, <2>1, <2>2, ContentsType
<1>6. /\ used' = m.n /\ held' = held \cup m.items /\ lastTL' = L
      /\ win' = [win EXCEPT ![cur] = Emptied(@)]
  BY <1>1, <1>2, <1>5
<1>w. /\ win' \in [{0, 1} -> Window] /\ win'[cur].cnt = 0 /\ win'[cur].tl = 0
      /\ \A v \in {0, 1} : /\ win'[v].notify = win[v].notify
                           /\ v # cur => win'[v] = win[v]
  BY <1>6, WindowEmptied
<1>7. Stage(3)' = <<>> /\ Empty(3)' /\ \A j \in Stages : j # 3 => Stage(j)' = Stage(j)
  <2>1. InWindow' = <<>>
    BY <1>1, <1>w DEF InWindow, clientVars
  <2>2. Stage(3)' = <<>> /\ Stage(1)' = Stage(1) /\ Stage(2)' = Stage(2)
    BY <1>1, <2>1 DEF Stage, Between
  <2> QED
    BY <2>2 DEF Empty, Stages
<1>h. HeldRight /\ HeldBytes = 0
  BY <1>1, EmptyRing DEF HeldRight, RingAccounted
<1>8. /\ NoneLost' /\ HeldRight' /\ HeldBytes' = HeldBytes + m.n
      /\ \A j \in Stages : j # 3 => /\ Empty(j)' <=> Empty(j)
                                    /\ NotifyIn(j)' <=> NotifyIn(j)
                                    /\ ChangeIn(j)' <=> ChangeIn(j)
                                    /\ EventsIn(j) => EventsIn(j)'
      /\ ~NotifyIn(3)' /\ ~ChangeIn(3)' /\ ~EventsIn(3)'
      /\ m \in Message /\ L \in 0 .. MaxTime /\ held' \subseteq Item
  <2>1. 3 \in Stages /\ \A j \in Stages : j < 3 => Empty(j)
    BY <1>4 DEF Stages
  <2>2. UNCHANGED <<nextTL, plan, offset, curTL, busy, epoch>>
    BY <1>1 DEF clientVars
  <2> HIDE DEF m, L
  <2>3. m = Head(Stage(3)) /\ L = LastTimeLine(m.items)
    BY DEF m, L
  <2> QED
    BY <1>3, <1>6, <1>7, <1>h, <2>1, <2>2, <2>3, EventsRead
<1>9. \A k \in Stages : ~ChangeIn(k)
  BY <1>1 DEF DialogueKept
<1>n. ~stale' /\ stale' \in BOOLEAN
  <2>1. epoch = sepoch
    BY <1>1, AddressesKnown
  <2>2. ~stale /\ stale \in BOOLEAN
    BY DEF NoStaleAccess, TypeOK
  <2> QED
    BY <1>1, <2>1, <2>2, Zenon
<1>10. TypeOK'
  <2>1. used' \in Nat
    BY <1>6, <1>8, MessageType
  <2> QED
    BY <1>1, <1>6, <1>8, <1>w, <1>n, <2>1 DEF TypeOK, clientVars
<1>11. StagesKept'
  <2>1. \A j \in Stages : j # 3 => (EventsIn(j) <=> EventsIn(j)')
    BY <1>4, <1>7, <1>8 DEF EventsIn, Stages
  <2>2. 3 \in Stages /\ Len(request') <= 1 /\ Len(wire') + Len(probes') <= 1
    BY <1>1 DEF StagesKept, Stages
  <2> QED
    BY <1>1, <1>4, <1>7, <1>8, <2>1, <2>2, StagesRead DEF clientVars
<1>12. OffsetsRight' /\ WordsRight' /\ LocalCountSafe'
  <2>1. WordsRight'
    BY <1>1, <1>t, <1>w DEF WordsRight, clientVars
  <2>2. LocalCountSafe'
    BY <1>1, <1>t, <1>w DEF LocalCountSafe, Other, clientVars
  <2> QED
    BY <1>1, <2>1, <2>2 DEF OffsetsRight, clientVars
<1>13. DialogueKept'
  <2>1. \A k \in Stages : ~ChangeIn(k)' /\ ~NotifyIn(k)'
    BY <1>4, <1>7, <1>8, <1>9 DEF NotifyIn, Stages
  <2>2. ~Answered /\ \A k \in Stages : ~NotifyIn(k)
    <3>1. KindsApart
      BY OneKindAlways
    <3> QED
      BY <1>3, <1>4, <1>5, <3>1 DEF Answered, Stages, KindsApart, NotifyIn
  <2>3. step # 2 /\ step # 3 /\ step # 4
    BY <2>2, <1>9 DEF DialogueKept, Stages
  <2>4. \A v \in {0, 1} : win'[v].notify # Resize
    BY <1>w, <2>3 DEF DialogueKept
  <2>5. (step > 0 => pc = "open" /\ (blocked \/ fixed)) /\ (step \in 1 .. 3 => newSize > 0)
    BY DEF DialogueKept
  <2>6. pc # "released" => epoch = sepoch
    BY <1>9 DEF DialogueKept
  <2>7. ~ChangeIn(1)' /\ ~ChangeIn(3)' /\ ~resizing'
    BY <1>1, <2>1 DEF Stages
  <2>8. /\ step' = step /\ pc' = pc /\ (blocked' <=> blocked) /\ (fixed' <=> fixed)
        /\ newSize' = newSize /\ epoch' = epoch /\ sepoch' = sepoch
    BY <1>1 DEF clientVars
  <2> QED
    BY <2>1, <2>3, <2>4, <2>5, <2>6, <2>7, <2>8 DEF DialogueKept, Resize
<1>14. TurnsKept' /\ EndKept'
  <2>1. Empty(1)' /\ Empty(2)'
    BY <1>4, <1>8 DEF Stages
  <2>2. TurnsKept'
    BY <1>1, <1>2, <2>1 DEF TurnsKept, clientVars
  <2>3. EndKept'
    BY <1>1, <1>w DEF EndKept, Finalize, clientVars
  <2> QED
    BY <2>2, <2>3
<1>15. RingAccounted'
  <2>1. used' = HeldBytes' + 0
    BY <1>6, <1>8, <1>h, MessageType
  <2> QED
    BY <1>1, <1>8, <2>1 DEF RingAccounted, HeldRight
<1>16. HistoryKept' /\ NoStaleAccess'
  BY <1>1, <1>n, HistoryFrame DEF clientVars, NoStaleAccess
<1> QED
  BY <1>8, <1>10, <1>11, <1>12, <1>13, <1>14, <1>15, <1>16

(* ... or does not.                                                          *)
LEMMA GetBufferFromClientStep ==
  ASSUME LegacyInv, GetBufferFromClient
  PROVE  LegacyInv'
<1> USE DEF LegacyInv
<1>1. CASE win[swin].tl = curTL
  BY <1>1, EventsTaken
<1>2. CASE win[swin].tl # curTL
  <2>1. /\ ~busy /\ curTL <= MaxTime /\ ~resizing /\ stale' = (stale \/ sepoch # epoch)
        /\ UNCHANGED <<clientVars, win, wire, probes, request, swin, resizing, used, ring, held,
                       curTL, lastTL, busy, sepoch, processed>>
    BY <1>2 DEF GetBufferFromClient, MayLook, Access
  <2>2. ~stale' /\ stale' \in BOOLEAN
    <3>1. epoch = sepoch
      BY <2>1, AddressesKnown
    <3>2. ~stale /\ stale \in BOOLEAN
      BY DEF NoStaleAccess, TypeOK
    <3> QED
      BY <2>1, <3>1, <3>2, Zenon
  <2>3. TypeOK'
    BY <2>1, <2>2 DEF TypeOK, clientVars
  <2>4. \A k \in Stages : Stage(k)' = Stage(k)
    BY <2>1, SameWindow DEF clientVars
  <2>5. SameObservers
    BY <2>1, <2>4, SameStages DEF clientVars
  <2>6. StagesKept'
    <3>1. Len(request') <= 1 /\ Len(wire') + Len(probes') <= 1
      BY <2>1 DEF StagesKept
    <3> QED
      BY <2>1, <2>4, <2>5, <3>1, StagesFrame, StageByStage DEF StagesKept, clientVars
  <2>7. NoneLost' /\ OffsetsRight' /\ WordsRight'
    BY <2>1, <2>5, NoneLostFrame, WordsFrame DEF clientVars, OffsetsRight
  <2>8. DialogueKept' /\ TurnsKept' /\ EndKept'
    BY <2>1, <2>5, DialogueFrame, TurnsFrame, EndFrame DEF clientVars, DialogueKept
  <2>9. HistoryKept' /\ NoStaleAccess' /\ LocalCountSafe' /\ RingAccounted'
    BY <2>1, <2>2, HistoryFrame, CountFrame, RingFrame DEF clientVars, NoStaleAccess
  <2> QED
    BY <2>3, <2>6, <2>7, <2>8, <2>9
<1> QED
  BY <1>1, <1>2

-----------------------------------------------------------------------------
(* The client writes.                                                        *)

(* An event that waits somewhere is in a message of events.                  *)
LEMMA EventsWait ==
  ASSUME TypeOK, StagesKept, NEW k \in Stages, NEW t \in 1 .. MaxTime, Waits(k, t)
  PROVE  EventsIn(k)
<1>1. PICK i \in Head(Stage(k)).items : i.tl = t
  BY DEF Waits
<1>2. t # Notify /\ t # Change
  BY SizesAssumption DEF Notify, Change
<1>3. ~NotifyIn(k)
  <2>1. IsNotify(Head(Stage(k))) => i.tl = Notify
    BY <1>1 DEF IsNotify
  <2> QED
    BY <1>1, <1>2, <2>1 DEF NotifyIn
<1>4. ~ChangeIn(k)
  BY <1>1, <1>2 DEF ChangeIn, IsChange
<1> QED
  BY <1>3, <1>4 DEF StagesKept, Waits

(* The window holds the bytes of the stream from its first event to the next *)
(* event the client will write: what lies in between is not for this server. *)
LEMMA ToTheWriter ==
  ASSUME TypeOK, StagesKept, NoneLost, OffsetsRight, EventsIn(3), NEW m, m = Head(Stage(3))
  PROVE  /\ m \in Message /\ IsEvents(m)
         /\ \A i \in m.items : i.at \in Nat /\ i.tl \in 1 .. nextTL - 1
         /\ \A i \in m.items : m.n - i.at = offset[nextTL] - offset[i.tl]
<1>1. IsEvents(m) /\ m \in Message /\ 3 \in Stages
  BY StageForm DEF EventsIn, Stages
<1>t. /\ nextTL \in Nat /\ lastTL \in Nat /\ nextTL <= MaxTime + 1 /\ MaxTime \in Nat
      /\ nextTL >= 1
  BY SizesAssumption DEF TypeOK
<1>2. \A i \in m.items : /\ i.at \in Nat /\ i.size \in Nat \ {0} /\ i.size = plan[i.tl]
                         /\ i.tl \in 1 .. nextTL - 1 /\ i.tl \in 1 .. nextTL
                         /\ i.tl + 1 \in 1 .. nextTL /\ i.at + i.size <= m.n
                         /\ i.tl > lastTL
  <2>1. \A i \in m.items : i.at \in Nat /\ i.tl \in 1 .. Change /\ i.size \in Nat \ {0}
    BY <1>1, MessageType, ItemType
  <2>2. \A i \in m.items : /\ i.tl < nextTL /\ i.size = plan[i.tl] /\ i.at + i.size <= m.n
                           /\ i.tl > lastTL
    BY <1>1 DEF IsEvents
  <2> QED
    BY <1>t, <2>1, <2>2, Codes
<1>3. \A i, j \in m.items : j.at - i.at = offset[j.tl] - offset[i.tl]
  BY <1>1 DEF IsEvents
<1>4. PICK z \in m.items : z.at + z.size = m.n
  BY <1>1 DEF IsEvents
<1>5. \A i \in m.items : i.tl <= z.tl
  <2>1. SUFFICES ASSUME NEW i \in m.items, z.tl < i.tl
                 PROVE  FALSE
    BY <1>2
  <2>2. offset[z.tl] + plan[z.tl] <= offset[i.tl]
    BY <1>2, <2>1, OffsetsGrow
  <2>3. offset[z.tl] \in Nat /\ offset[i.tl] \in Nat
    BY <1>2, OffsetType
  <2> QED
    BY <1>2, <1>3, <1>4, <2>2, <2>3
<1>6. \A u \in z.tl + 1 .. nextTL - 1 : plan[u] = 0
  <2>1. SUFFICES ASSUME NEW u \in z.tl + 1 .. nextTL - 1, plan[u] # 0
                 PROVE  FALSE
    OBVIOUS
  <2>2. /\ u \in 1 .. nextTL - 1 /\ u \in 1 .. MaxTime /\ u > z.tl /\ u > lastTL
        /\ z.tl \in Nat /\ u \in Nat
    BY <1>2, <1>t
  <2>3. plan[u] > 0
    BY <2>1, <2>2, OffsetType
  <2>4. PICK k \in Stages : Waits(k, u)
    BY <2>2, <2>3 DEF NoneLost
  <2>5. PICK i \in Head(Stage(k)).items : i.tl = u
    BY <2>4 DEF Waits
  <2>6. EventsIn(k)
    BY <2>2, <2>4, EventsWait
  <2>7. CASE k = 3
    BY <1>5, <2>2, <2>5, <2>7
  <2>8. CASE k < 3
    BY <1>1, <2>2, <2>5, <2>6, <2>8 DEF StagesKept
  <2> QED
    BY <2>7, <2>8 DEF Stages
<1>7. offset[z.tl + 1] = offset[nextTL] /\ offset[z.tl + 1] = offset[z.tl] + plan[z.tl]
  <2>1. z.tl + 1 \in 1 .. nextTL /\ nextTL \in 1 .. nextTL /\ z.tl + 1 <= nextTL
    BY <1>2, <1>t
  <2> QED
    BY <1>2, <1>6, <2>1 DEF OffsetsRight
<1>8. \A i \in m.items : m.n - i.at = offset[nextTL] - offset[i.tl]
  <2>1. SUFFICES ASSUME NEW i \in m.items
                 PROVE  m.n - i.at = offset[nextTL] - offset[i.tl]
    OBVIOUS
  <2>2. offset[z.tl] \in Nat /\ offset[i.tl] \in Nat
    BY <1>2, OffsetType
  <2> QED
    BY <1>2, <1>3, <1>4, <1>7, <2>2
<1> QED
  BY <1>1, <1>2, <1>8

(* Written after the events of the window, or in a window taken or sent, the *)
(* event is where the stream says.                                           *)
LEMMA EventWritten ==
  ASSUME TypeOK, StagesKept, NoneLost, OffsetsRight, Empty(3) \/ EventsIn(3),
         NEW cnt, cnt = win[cur].cnt, NEW size, size = plan[nextTL], size > 0,
         nextTL <= MaxTime,
         win' = [win EXCEPT ![cur] = Written(@, cnt, nextTL, size, 0, 0)],
         nextTL' = nextTL + 1, UNCHANGED <<lastTL, curTL, plan, cur>>,
         \A t \in 1 .. nextTL : offset'[t] = offset[t]
  PROVE  /\ win' \in [{0, 1} -> Window] /\ win'[cur].cnt = cnt + size
         /\ win'[cur].tl # 0
         /\ \A v \in {0, 1} : /\ win'[v].notify = win[v].notify
                              /\ v # cur => win'[v] = win[v]
         /\ EventsIn(3)' /\ ~Empty(3)'
         /\ \A t : Waits(3, t) => Waits(3, t)'
         /\ \A t : t = nextTL => Waits(3, t)'
         /\ \A i \in Head(Stage(3))'.items :
              i.tl = nextTL \/ (EventsIn(3) /\ i \in Head(Stage(3)).items)
<1> DEFINE w == win[cur]
           v == Written(w, cnt, nextTL, size, 0, 0)
           item == [at |-> cnt, tl |-> nextTL, size |-> size, arg |-> 0, addr |-> 0]
<1>n. PICK new : new = [n |-> cnt + size, items |-> Below(w.mem, cnt) \cup {item}]
  OBVIOUS
<1>t. /\ cur \in {0, 1} /\ win \in [{0, 1} -> Window] /\ w \in Window /\ w.mem \subseteq Item
      /\ cnt \in Nat /\ nextTL \in 1 .. nextTL /\ nextTL \in 1 .. Change /\ nextTL \in Nat
      /\ size \in Nat /\ lastTL \in Nat /\ curTL \in Nat /\ nextTL \in 1 .. MaxTime
      /\ lastTL < nextTL
  <2>1. /\ cur \in {0, 1} /\ win \in [{0, 1} -> Window] /\ nextTL \in 1 .. MaxTime + 1
        /\ lastTL \in 0 .. MaxTime /\ curTL \in 1 .. MaxTime + 1
    BY DEF TypeOK
  <2>2. nextTL \in 1 .. MaxTime /\ MaxTime \in Nat
    BY <2>1, SizesAssumption
  <2>3. w \in Window
    BY <2>1
  <2>4. w.mem \subseteq Item /\ w.cnt \in Nat
    BY <2>3 DEF Window
  <2>5. size \in Nat
    BY <2>2, ClientTypes
  <2>6. lastTL < nextTL
    BY DEF NoneLost
  <2>7. nextTL \in 1 .. nextTL /\ nextTL \in 1 .. Change /\ nextTL \in Nat /\ lastTL \in Nat
        /\ curTL \in Nat
    BY <2>1, <2>2 DEF Change
  <2> QED
    BY <2>1, <2>2, <2>3, <2>4, <2>5, <2>6, <2>7
<1>1. /\ v \in Window /\ item \in Item
      /\ v.tl = (IF w.tl = 0 THEN nextTL ELSE w.tl)
      /\ v.cnt = cnt + size /\ v.notify = w.notify
      /\ v.mem = Below(w.mem, cnt) \cup {item}
      /\ Below(v.mem, cnt + size) = v.mem
  <2>1. /\ w \in Window /\ cnt \in Nat /\ nextTL \in 1 .. Change
        /\ size \in Nat \ {0} /\ 0 \in Nat
    BY <1>t
  <2> HIDE DEF w
  <2>2. WrittenRight(w, cnt, nextTL, size, 0, 0)
    BY <2>1, WrittenFields
  <2> QED
    BY <2>2, Zenon DEF WrittenRight
<1>2. /\ win'[cur] = v /\ win' \in [{0, 1} -> Window]
      /\ \A u \in {0, 1} : u # cur => win'[u] = win[u]
  <2>1. win' = [win EXCEPT ![cur] = v]
    OBVIOUS
  <2> HIDE DEF v
  <2> QED
    BY <1>1, <1>t, <2>1
<1>3. Contents(v) = new
  BY <1>1, <1>n DEF Contents
<1>4. Stage(3)' = <<new>> /\ Head(Stage(3)') = new /\ ~Empty(3)'
  <2>1. win'[cur].cnt # 0
    BY <1>1, <1>2, <1>t
  <2>2. InWindow' = <<Contents(win[cur])>>'
    BY <2>1 DEF InWindow
  <2>3. Contents(win[cur])' = Contents(v)
    BY <1>2 DEF Contents, Below
  <2> HIDE DEF v
  <2>4. Stage(3)' = <<new>>
    BY <1>3, <2>2, <2>3 DEF Stage
  <2> QED
    BY <2>4 DEF Empty
<1>5. CASE Empty(3)
  <2>1. cnt = 0 /\ Below(w.mem, cnt) = {}
    <3>1. cnt = 0
      BY <1>5 DEF Empty, Stage, InWindow
    <3>2. \A i \in w.mem : i.at \in Nat
      BY <1>t, ItemType
    <3> QED
      BY <3>1, <3>2 DEF Below
  <2>2. new.items = {item} /\ new.n = size
    BY <1>n, <1>t, <2>1
  <2>3. IsEvents(new)'
    <3>1. item.at = 0 /\ item.tl = nextTL /\ item.size = size
      BY <2>1
    <3>2. nextTL >= curTL
      BY <1>t DEF NoneLost
    <3>3. offset[nextTL] \in Nat /\ offset'[nextTL] = offset[nextTL]
      BY <1>t, OffsetType
    <3> HIDE DEF item
    <3>4. \A i \in new.items : i = item
      BY <2>2
    <3> QED
      BY <1>t, <2>2, <3>1, <3>2, <3>3, <3>4 DEF IsEvents
  <2>4. EventsIn(3)'
    BY <1>4, <2>3 DEF EventsIn
  <2>5. (\A t : t = nextTL => Waits(3, t)') /\ \A t : ~Waits(3, t)
    <3>1. item.tl = nextTL
      OBVIOUS
    <3> HIDE DEF item
    <3> QED
      BY <1>4, <1>5, <2>2, <3>1 DEF Waits
  <2> QED
    BY <1>1, <1>2, <1>4, <1>t, <2>2, <2>4, <2>5
<1>6. CASE EventsIn(3)
  <2> DEFINE m == Head(Stage(3))
  <2>1. m = Contents(w) /\ m.n = cnt /\ m.items = Below(w.mem, cnt)
    <3>1. Stage(3) = <<Contents(w)>>
      BY <1>6 DEF EventsIn, Empty, Stage, InWindow
    <3> QED
      BY <1>t, <3>1, ContentsType
  <2>2. /\ m \in Message /\ IsEvents(m)
        /\ \A i \in m.items : i.at \in Nat /\ i.tl \in 1 .. nextTL - 1
        /\ \A i \in m.items : m.n - i.at = offset[nextTL] - offset[i.tl]
    BY <1>6, ToTheWriter
  <2>3. new.items = m.items \cup {item} /\ new.n = cnt + size
    BY <1>n, <2>1
  <2>4. item.at = cnt /\ item.tl = nextTL /\ item.size = size
    OBVIOUS
  <2> HIDE DEF item, m
  <2>5. \A i \in m.items : i.tl \in 1 .. nextTL /\ i.tl # nextTL /\ offset'[i.tl] = offset[i.tl]
                           /\ offset[i.tl] \in Nat /\ i.size \in Nat
    <3>1. \A i \in m.items : i.tl \in 1 .. nextTL /\ i.tl # nextTL
      BY <1>t, <2>2
    <3>2. \A i \in m.items : i.size \in Nat
      BY <2>2, MessageType, ItemType
    <3> QED
      BY <3>1, <3>2, OffsetType
  <2>6. offset'[nextTL] = offset[nextTL] /\ offset[nextTL] \in Nat /\ nextTL >= curTL
    BY <1>t, OffsetType DEF NoneLost
  <2>7. \A i \in new.items : /\ i.tl < nextTL' /\ i.tl > lastTL /\ i.tl >= curTL
                             /\ i.size = plan[i.tl] /\ i.at + i.size <= new.n
    <3>1. \A i \in m.items : /\ i.tl < nextTL /\ i.tl > lastTL /\ i.tl >= curTL
                             /\ i.size = plan[i.tl] /\ i.at + i.size <= m.n
      BY <2>2 DEF IsEvents
    <3> QED
      BY <1>t, <2>1, <2>2, <2>3, <2>4, <2>5, <2>6, <3>1
  <2>8. \A i, j \in new.items : /\ i.tl = j.tl => i = j
                                /\ j.at - i.at = offset'[j.tl] - offset'[i.tl]
    <3>1. \A i, j \in m.items : /\ i.tl = j.tl => i = j
                                /\ j.at - i.at = offset'[j.tl] - offset'[i.tl]
      BY <2>2, <2>5 DEF IsEvents
    <3>2. \A i \in m.items : i.tl # item.tl /\ item.at - i.at = offset'[item.tl] - offset'[i.tl]
      BY <2>1, <2>2, <2>4, <2>5, <2>6
    <3>3. \A i \in m.items : i.at - item.at = offset'[i.tl] - offset'[item.tl]
      BY <1>t, <2>2, <2>4, <2>5, <2>6, <3>2
    <3>4. item.at - item.at = offset'[item.tl] - offset'[item.tl]
      BY <1>t, <2>4, <2>6
    <3> QED
      BY <2>3, <3>1, <3>2, <3>3, <3>4
  <2>9. (\E i \in new.items : i.at = 0) /\ (\E i \in new.items : i.at + i.size = new.n)
    BY <2>2, <2>3, <2>4 DEF IsEvents
  <2>10. IsEvents(new)'
    BY <2>7, <2>8, <2>9 DEF IsEvents
  <2>11. EventsIn(3)'
    BY <1>4, <2>10 DEF EventsIn
  <2>12. (\A t : t = nextTL => Waits(3, t)') /\ \A t : Waits(3, t) => Waits(3, t)'
    BY <1>4, <2>3, <2>4 DEF Waits, m
  <2> QED
    BY <1>1, <1>2, <1>4, <1>6, <1>t, <2>3, <2>4, <2>11, <2>12 DEF m
<1> QED
  BY <1>5, <1>6

(* The event accepted is the last of the history.                            *)
LEMMA HistoryExtended ==
  ASSUME TypeOK, HistoryKept, nextTL \in 1 .. MaxTime, plan[nextTL] > 0,
         accepted' = Append(accepted, nextTL), nextTL' = nextTL + 1,
         UNCHANGED <<plan, processed, curTL, busy>>
  PROVE  HistoryKept' /\ accepted' \in Seq(1 .. MaxTime)
<1> DEFINE n == Len(accepted)
<1>t. /\ accepted \in Seq(1 .. MaxTime) /\ nextTL \in Nat /\ n \in Nat /\ MaxTime \in Nat
      /\ DOMAIN accepted = 1 .. n /\ \A i \in 1 .. n : accepted[i] \in 1 .. MaxTime
      /\ DOMAIN processed = 1 .. Len(processed) /\ Len(processed) \in Nat
  <2>1. accepted \in Seq(1 .. MaxTime) /\ MaxTime \in Nat
    BY SizesAssumption DEF TypeOK
  <2>2. nextTL \in Nat
    BY <2>1
  <2>3. /\ n \in Nat /\ DOMAIN accepted = 1 .. n /\ \A i \in 1 .. n : accepted[i] \in 1 .. MaxTime
        /\ DOMAIN processed = 1 .. Len(processed) /\ Len(processed) \in Nat
    BY HistoryType
  <2> QED
    BY <2>1, <2>2, <2>3
<1>1. /\ accepted' \in Seq(1 .. MaxTime) /\ Len(accepted') = n + 1
      /\ \A i \in 1 .. n : accepted'[i] = accepted[i]
      /\ accepted'[n + 1] = nextTL
  BY <1>t, AppendProperties
<1>2. DOMAIN accepted' = 1 .. n + 1
  BY <1>1, <1>t, LenProperties
<1>3. \A i \in 1 .. n + 1 : i \in 1 .. n \/ i = n + 1
  BY <1>t
<1>4. \A i \in 1 .. n : accepted[i] < nextTL /\ plan[accepted[i]] > 0
  BY <1>t DEF HistoryKept
<1> HIDE DEF n
<1>5. \A i \in 1 .. n + 1 : accepted'[i] < nextTL' /\ plan[accepted'[i]] > 0
  <2>1. ASSUME NEW i \in 1 .. n
        PROVE  accepted'[i] < nextTL' /\ plan[accepted'[i]] > 0
    <3>1. accepted[i] \in Nat /\ accepted[i] < nextTL /\ plan[accepted[i]] > 0
      BY <1>4, <1>t
    <3> QED
      BY <1>1, <1>t, <3>1
  <2>2. accepted'[n + 1] < nextTL' /\ plan[accepted'[n + 1]] > 0
    BY <1>1, <1>t
  <2> QED
    BY <1>3, <2>1, <2>2
<1>6. \A i, j \in 1 .. n + 1 : i < j => accepted'[i] < accepted'[j]
  <2>1. SUFFICES ASSUME NEW i \in 1 .. n + 1, NEW j \in 1 .. n + 1, i < j
                 PROVE  accepted'[i] < accepted'[j]
    OBVIOUS
  <2>2. i \in 1 .. n
    BY <1>t, <2>1
  <2>3. CASE j = n + 1
    BY <1>1, <1>4, <2>2, <2>3
  <2>4. CASE j \in 1 .. n
    <3>1. accepted[i] < accepted[j]
      BY <1>t, <2>1, <2>2, <2>4 DEF HistoryKept
    <3> QED
      BY <1>1, <2>2, <2>4, <3>1
  <2> QED
    BY <1>3, <2>3, <2>4
<1>7. \A t \in 1 .. nextTL' - 1 : plan[t] > 0 => \E i \in 1 .. n + 1 : accepted'[i] = t
  <2>0. nextTL' - 1 = nextTL
    BY <1>t
  <2>1. SUFFICES ASSUME NEW t \in 1 .. nextTL, plan[t] > 0
                 PROVE  \E i \in 1 .. n + 1 : accepted'[i] = t
    BY <2>0
  <2>2. CASE t = nextTL
    BY <1>1, <1>t, <2>2
  <2>3. CASE t \in 1 .. nextTL - 1
    <3>1. PICK i \in 1 .. n : accepted[i] = t
      BY <1>t, <2>1, <2>3 DEF HistoryKept
    <3> QED
      BY <1>1, <1>t, <3>1
  <2> QED
    BY <1>t, <2>2, <2>3
<1>8. Len(processed) <= n + 1 /\ \A i \in DOMAIN processed : i \in 1 .. n
  <2>1. Len(processed) <= n
    BY DEF HistoryKept, n
  <2> QED
    BY <1>t, <2>1
<1>9. \A i \in DOMAIN processed : processed[i] = accepted'[i] /\ Handed(processed[i])
  BY <1>1, <1>8 DEF HistoryKept
<1>10. \A t : Handed(t)' <=> Handed(t)
  BY DEF Handed
<1>11. \A t \in 1 .. MaxTime : Handed(t)' => \E i \in DOMAIN processed : processed[i] = t
  BY <1>10 DEF HistoryKept
<1>12. \A i \in DOMAIN processed : processed[i] = accepted'[i] /\ Handed(processed[i])'
  BY <1>9 DEF Handed
<1> QED
  BY <1>1, <1>2, <1>5, <1>6, <1>7, <1>8, <1>11, <1>12 DEF HistoryKept

(* sendEvent, when there is room for the event.                              *)
LEMMA SendEventStep ==
  ASSUME LegacyInv, SendEvent
  PROVE  LegacyInv'
<1> USE DEF LegacyInv
<1>r. PICK cnt, size : cnt = win[cur].cnt /\ size = plan[nextTL]
  OBVIOUS
<1>1. /\ pc = "open" /\ nextTL <= MaxTime /\ size > 0 /\ ~(step > 0) /\ size <= bufSize - cnt
      /\ win' = [win EXCEPT ![cur] = Written(@, cnt, nextTL, size, 0, 0)]
      /\ count' = cnt + size /\ accepted' = Append(accepted, nextTL)
      /\ offset' = Append(offset, offset[nextTL] + size)
      /\ nextTL' = nextTL + 1
      /\ pc' = IF nextTL = MaxTime THEN "drain" ELSE pc
      /\ blocked' = FALSE
      /\ UNCHANGED <<pureOneSided, plan, cur, pending, step, bufSize, newSize,
                     growable, fixed, epoch, wire, serverVars>>
  BY <1>r DEF SendEvent, Sending, Frozen, Refreshed
<1>t. /\ nextTL \in 1 .. MaxTime /\ MaxTime \in Nat /\ nextTL \in Nat /\ lastTL \in Nat
      /\ curTL \in Nat /\ cur \in {0, 1} /\ cnt \in Nat /\ size \in Nat /\ step = 0
      /\ bufSize \in Nat /\ win \in [{0, 1} -> Window]
  <2>1. /\ nextTL \in 1 .. MaxTime + 1 /\ MaxTime \in Nat /\ lastTL \in 0 .. MaxTime
        /\ curTL \in 1 .. MaxTime + 1 /\ cur \in {0, 1} /\ bufSize \in Nat
        /\ win \in [{0, 1} -> Window] /\ step \in 0 .. 4
    BY SizesAssumption DEF TypeOK
  <2>2. nextTL \in 1 .. MaxTime /\ nextTL \in Nat /\ lastTL \in Nat /\ curTL \in Nat /\ step = 0
    BY <1>1, <2>1
  <2>3. cnt \in Nat /\ size \in Nat
    BY <1>r, <2>1, <2>2, OffsetType DEF Window
  <2> QED
    BY <2>1, <2>2, <2>3
<1>2. /\ OffsetsRight' /\ offset' \in Seq(Nat) /\ nextTL' \in 1 .. MaxTime + 1
      /\ \A t \in 1 .. nextTL : offset'[t] = offset[t]
  BY <1>1, <1>r, StreamExtended DEF serverVars
<1>3. /\ ~NotifyIn(1) /\ ~NotifyIn(2) /\ ~NotifyIn(3) /\ ~ChangeIn(3)
      /\ Empty(3) \/ EventsIn(3)
  <2>1. ~NotifyIn(1) /\ ~NotifyIn(2) /\ ~NotifyIn(3) /\ ~ChangeIn(3)
    BY <1>t DEF DialogueKept, Stages
  <2> QED
    BY <2>1 DEF StagesKept, Stages
<1>4. /\ win' \in [{0, 1} -> Window] /\ win'[cur].cnt = cnt + size
      /\ win'[cur].tl # 0
      /\ \A v \in {0, 1} : /\ win'[v].notify = win[v].notify
                           /\ v # cur => win'[v] = win[v]
      /\ EventsIn(3)' /\ ~Empty(3)'
      /\ \A t : Waits(3, t) => Waits(3, t)'
      /\ \A t : t = nextTL => Waits(3, t)'
      /\ \A i \in Head(Stage(3))'.items :
           i.tl = nextTL \/ (EventsIn(3) /\ i \in Head(Stage(3)).items)
  <2>1. UNCHANGED <<lastTL, curTL, plan, cur>>
    BY <1>1 DEF serverVars
  <2> QED
    BY <1>1, <1>2, <1>3, <1>r, <2>1, EventWritten
<1>5. TypeOK' /\ HistoryKept'
  <2>1. HistoryKept' /\ accepted' \in Seq(1 .. MaxTime)
    BY <1>1, <1>r, <1>t, HistoryExtended DEF serverVars
  <2>2. count' \in Nat /\ pc' \in {"open", "drain", "wait", "released"}
    BY <1>1, <1>t
  <2>3. blocked' \in BOOLEAN
    BY <1>1, Zenon
  <2> QED
    BY <1>1, <1>2, <1>4, <2>1, <2>2, <2>3 DEF TypeOK, serverVars
<1>6. /\ Stage(1)' = Stage(1) /\ Stage(2)' = Stage(2)
      /\ \A k \in {1, 2} : /\ Empty(k)' <=> Empty(k)
                           /\ NotifyIn(k)' <=> NotifyIn(k)
                           /\ ChangeIn(k)' <=> ChangeIn(k)
                           /\ EventsIn(k)' <=> EventsIn(k)
                           /\ \A t : Waits(k, t)' <=> Waits(k, t)
  <2>1. Stage(1)' = Stage(1) /\ Stage(2)' = Stage(2)
    BY <1>1 DEF Stage, Between, serverVars
  <2>2. ASSUME NEW k \in {1, 2}
        PROVE  /\ Empty(k)' <=> Empty(k)
               /\ NotifyIn(k)' <=> NotifyIn(k)
               /\ ChangeIn(k)' <=> ChangeIn(k)
               /\ EventsIn(k)' <=> EventsIn(k)
               /\ \A t : Waits(k, t)' <=> Waits(k, t)
    <3>1. k \in Stages /\ Stage(k)' = Stage(k) /\ UNCHANGED epoch
      BY <1>1, <2>1 DEF Stages
    <3>2. /\ Empty(k)' <=> Empty(k)
          /\ NotifyIn(k)' <=> NotifyIn(k)
          /\ ChangeIn(k)' <=> ChangeIn(k)
          /\ \A t : Waits(k, t)' <=> Waits(k, t)
      BY <3>1, SameStage
    <3>3. EventsIn(k) => EventsIn(k)'
      <4>1. EventsIn(k) => Head(Stage(k)) \in Message
        BY <3>1, StageForm DEF EventsIn
      <4> QED
        BY <1>1, <1>2, <3>1, <4>1, EventsKept DEF serverVars
    <3>4. EventsIn(k)' => EventsIn(k)
      <4>1. KindsApart'
        BY <1>5, OneKindNext
      <4>2. EventsIn(k)' => ~Empty(k)'
        BY DEF EventsIn
      <4>3. ~Empty(k) => EventsIn(k) \/ NotifyIn(k) \/ ChangeIn(k)
        BY <3>1 DEF StagesKept
      <4>4. ~(EventsIn(k)' /\ NotifyIn(k)') /\ ~(EventsIn(k)' /\ ChangeIn(k)')
        BY <3>1, <4>1 DEF KindsApart
      <4> QED
        BY <3>2, <4>2, <4>3, <4>4
    <3> QED
      BY <3>2, <3>3, <3>4
  <2> QED
    BY <2>1, <2>2
<1>7. ~NotifyIn(3)' /\ ~ChangeIn(3)'
  <2>1. KindsApart'
    BY <1>5, OneKindNext
  <2> QED
    BY <1>4, <2>1 DEF KindsApart, Stages
<1>8. StagesKept'
  <2>1. Len(request') <= 1 /\ Len(wire') + Len(probes') <= 1 /\ pc' \notin {"wait", "released"}
        /\ (~Empty(2)' => pending')
    BY <1>1, <1>6 DEF StagesKept, serverVars
  <2>2. \A k \in Stages : ~Empty(k)' => EventsIn(k)' \/ NotifyIn(k)' \/ ChangeIn(k)'
    BY <1>4, <1>6 DEF StagesKept, Stages
  <2>3. \A k \in {1, 2} : NotifyIn(k)' \/ ChangeIn(k)' => Head(Stage(k))'.n = CtlSize
    BY <1>6 DEF StagesKept, Stages
  <2>4. \A k \in Stages : NotifyIn(k)' \/ ChangeIn(k)' => Head(Stage(k))'.n = CtlSize
    BY <1>7, <2>3 DEF Stages
  <2>5. EventsIn(1)' /\ EventsIn(2)' =>
          \A a \in Head(Stage(1))'.items, b \in Head(Stage(2))'.items : a.tl < b.tl
    BY <1>6 DEF StagesKept, Stages
  <2>6. ASSUME NEW k \in {1, 2}, EventsIn(k)'
        PROVE  \A a \in Head(Stage(k))'.items, b \in Head(Stage(3))'.items : a.tl < b.tl
    <3>1. EventsIn(k) /\ Head(Stage(k))' = Head(Stage(k)) /\ k < 3 /\ k \in Stages /\ 3 \in Stages
      BY <1>6, <2>6 DEF Stages
    <3>2. \A a \in Head(Stage(k)).items : a.tl < nextTL
      BY <3>1 DEF EventsIn, IsEvents
    <3>3. EventsIn(3) => \A a \in Head(Stage(k)).items, b \in Head(Stage(3)).items : a.tl < b.tl
      BY <3>1 DEF StagesKept
    <3> QED
      BY <1>4, <3>1, <3>2, <3>3
  <2>7. \A j, k \in Stages : j < k /\ EventsIn(j)' /\ EventsIn(k)' =>
          \A a \in Head(Stage(j))'.items, b \in Head(Stage(k))'.items : a.tl < b.tl
    BY <2>5, <2>6 DEF Stages
  <2> QED
    BY <2>1, <2>2, <2>4, <2>7 DEF StagesKept, CtlSize
<1>9. NoneLost'
  <2>1. \A t : (\E k \in Stages : Waits(k, t)) => \E k \in Stages : Waits(k, t)'
    BY <1>4, <1>6 DEF Stages
  <2>2. ASSUME NEW t \in 1 .. nextTL' - 1, plan[t] > 0, t > lastTL
        PROVE  t >= curTL /\ \E k \in Stages : Waits(k, t)'
    <3>1. CASE t = nextTL
      <4>1. t >= curTL
        BY <1>t, <2>2, <3>1 DEF NoneLost
      <4> QED
        BY <1>4, <3>1, <4>1 DEF Stages
    <3>2. CASE t \in 1 .. nextTL - 1
      BY <2>1, <2>2, <3>2 DEF NoneLost
    <3> QED
      BY <1>1, <1>t, <3>1, <3>2
  <2>3. busy' => \E item \in held' : IsCurrent(item)'
    BY <1>1 DEF NoneLost, IsCurrent, serverVars
  <2>4. lastTL < nextTL'
    BY <1>1, <1>t DEF NoneLost
  <2> QED
    BY <1>1, <2>2, <2>3, <2>4 DEF NoneLost, serverVars
<1>10. WordsRight' /\ LocalCountSafe'
  <2>1. cur' = cur /\ bufSize' = bufSize
    BY <1>1
  <2>2. WordsRight'
    BY <1>4, <1>t, <1>1, <2>1 DEF WordsRight
  <2>3. Other(cur) \in {0, 1} /\ Other(cur) # cur
    BY <1>t, Codes
  <2>4. LocalCountSafe'
    BY <1>1, <1>4, <1>t, <2>1, <2>3 DEF LocalCountSafe, Other
  <2> QED
    BY <2>2, <2>4
<1>11. DialogueKept'
  <2>1. \A k \in Stages : ~NotifyIn(k)'
    BY <1>3, <1>6, <1>7 DEF Stages
  <2>2. \A k \in Stages : ChangeIn(k)' <=> ChangeIn(k)
    BY <1>3, <1>6, <1>7 DEF Stages
  <2>3. \A k \in Stages : ChangeIn(k)' => /\ \A j \in Stages : j < k => Empty(j)'
                                          /\ resizing /\ lastTL < MaxTime
                                          /\ epoch = sepoch + 1
                                          /\ cur = CASE k = 3 -> 0 [] k = 2 -> 1
                                                     [] OTHER -> IF Empty(2)' THEN 1 ELSE 0
    <3>1. SUFFICES ASSUME NEW k \in Stages, ChangeIn(k)
                   PROVE  /\ \A j \in Stages : j < k => Empty(j)'
                          /\ resizing /\ lastTL < MaxTime
                          /\ epoch = sepoch + 1
                          /\ cur = CASE k = 3 -> 0 [] k = 2 -> 1
                                     [] OTHER -> IF Empty(2)' THEN 1 ELSE 0
      BY <2>2
    <3>2. k \in {1, 2}
      BY <1>3, <3>1 DEF Stages
    <3>3. \A j \in Stages : j < k => Empty(j)'
      BY <1>6, <3>1, <3>2 DEF DialogueKept, Stages
    <3>4. resizing /\ lastTL < MaxTime /\ epoch = sepoch + 1
      BY <3>1 DEF DialogueKept
    <3>5. k = 1 => cur = IF Empty(2)' THEN 1 ELSE 0
      BY <1>6, <3>1 DEF DialogueKept
    <3>6. k = 2 => cur = 1
      BY <3>1 DEF DialogueKept
    <3> QED
      BY <3>2, <3>3, <3>4, <3>5, <3>6
  <2>4. ChangeIn(1)' => held = {}
    BY <1>6 DEF DialogueKept
  <2>5. resizing => \E k \in Stages : ChangeIn(k)'
    BY <1>t, <2>2 DEF DialogueKept
  <2>6. (\A k \in Stages : ~ChangeIn(k)') => epoch = sepoch
    BY <1>1, <2>2 DEF DialogueKept
  <2>7. \A w \in {0, 1} : win'[w].notify # Resize
    BY <1>4, <1>t DEF DialogueKept
  <2>8. step' = 0 /\ cur' = cur /\ (resizing' <=> resizing) /\ epoch' = epoch
        /\ sepoch' = sepoch /\ lastTL' = lastTL /\ held' = held
    BY <1>1, <1>t DEF serverVars
  <2> QED
    BY <1>7, <2>1, <2>3, <2>4, <2>5, <2>6, <2>7, <2>8 DEF DialogueKept, Resize
<1>12. TurnsKept' /\ EndKept'
  <2>1. TurnsKept'
    BY <1>1, <1>6 DEF TurnsKept, serverVars
  <2>2. pc' = "open" <=> nextTL' <= MaxTime
    BY <1>1, <1>t
  <2>3. \A w \in {0, 1} : win'[w].notify = Finalize => curTL > MaxTime \/ (curTL = MaxTime /\ busy)
    BY <1>4 DEF EndKept
  <2>4. pc' # "released" /\ ~blocked' /\ curTL' = curTL /\ (busy' <=> busy) /\ plan' = plan
    BY <1>1 DEF serverVars
  <2>5. EndKept'
    BY <2>2, <2>3, <2>4 DEF EndKept, Finalize
  <2> QED
    BY <2>1, <2>5
<1>13. NoStaleAccess' /\ RingAccounted'
  <2>4. HeldBytes' = HeldBytes
    <3>1. curTL <= lastTL => curTL \in 1 .. nextTL /\ lastTL + 1 \in 1 .. nextTL
      BY <1>t DEF NoneLost, TypeOK
    <3> QED
      BY <1>1, <1>2, <3>1 DEF HeldBytes, serverVars
  <2>5. RingAccounted'
    BY <1>1, <2>4 DEF RingAccounted, serverVars
  <2> QED
    BY <1>1, <2>5 DEF NoStaleAccess, serverVars
<1> QED
  BY <1>2, <1>5, <1>8, <1>9, <1>10, <1>11, <1>12, <1>13

(* Nothing the client sent is on its way when its request is complete.       *)
LEMMA NoneSent ==
  ASSUME TypeOK, StagesKept, Checking
  PROVE  Empty(2) /\ wire = <<>> /\ probes = <<>>
BY BetweenForm DEF Checking, Matched, StagesKept

(* checkBuffer sends what the window holds and turns to the other window.    *)
LEMMA IssueSendStep ==
  ASSUME LegacyInv, IssueSend
  PROVE  LegacyInv'
<1> USE DEF LegacyInv
<1>1. /\ Checking /\ count > 0 /\ win[cur].cnt > 0
      /\ wire' = Append(wire, Contents([win[cur] EXCEPT !.cnt = count]))
      /\ step' = (IF step = 4 THEN 0 ELSE step)
      /\ pending' = TRUE
      /\ win' = [win EXCEPT ![cur] = Emptied(@)]
      /\ cur' = Other(cur)
      /\ count' = 0
      /\ UNCHANGED <<pureOneSided, plan, nextTL, pc, blocked, bufSize, newSize,
                     growable, fixed, epoch, accepted, offset, serverVars>>
  BY DEF IssueSend, StepAfterSend
<1>t. /\ cur \in {0, 1} /\ cur' \in {0, 1} /\ cur' # cur /\ Other(cur') = cur
      /\ Other(cur) = cur' /\ win \in [{0, 1} -> Window] /\ win[cur] \in Window
      /\ win[cur].cnt \in Nat /\ count \in Nat /\ bufSize \in Nat
  <2>1. cur \in {0, 1} /\ win \in [{0, 1} -> Window] /\ count \in Nat /\ bufSize \in Nat
    BY DEF TypeOK
  <2> QED
    BY <1>1, <2>1, Codes DEF Window
<1>2. Empty(2) /\ wire = <<>> /\ probes = <<>> /\ pc \in {"open", "drain"}
  BY <1>1, NoneSent DEF Checking
<1>3. wire' = <<Contents(win[cur])>> /\ probes' = <<>> /\ request' = request
  <2>1. win[cur].cnt = count
    BY <1>1, <1>t DEF LocalCountSafe
  <2>2. [win[cur] EXCEPT !.cnt = count] = win[cur]
    BY <1>t, <2>1 DEF Window
  <2> QED
    BY <1>1, <1>2, <2>2 DEF serverVars
<1>w. /\ win' \in [{0, 1} -> Window] /\ win'[cur].cnt = 0 /\ win'[cur].tl = 0
      /\ \A v \in {0, 1} : /\ win'[v].notify = win[v].notify
                           /\ v # cur => win'[v] = win[v]
  BY <1>1, WindowEmptied
<1>o. win'[cur'].cnt = 0 /\ win'[cur'].tl = 0
  <2>1. win[cur'].cnt = 0 /\ win[cur'].tl = 0
    BY <1>t DEF LocalCountSafe, WordsRight
  <2> QED
    BY <1>t, <1>w, <2>1
<1>4. Stage(1)' = Stage(1) /\ Stage(2)' = Stage(3) /\ Stage(3)' = <<>> /\ ~Empty(3)
  <2>1. InWindow = <<Contents(win[cur])>> /\ InWindow' = <<>>
    BY <1>1, <1>o DEF InWindow
  <2>2. Between' = wire'
    BY <1>3 DEF Between
  <2> QED
    BY <1>3, <2>1, <2>2 DEF Stage, Empty
<1>5. TypeOK'
  <2>1. pending' \in BOOLEAN
    BY <1>1, Zenon
  <2>2. wire' \in Seq(Message)
    BY <1>3, <1>t, ContentsType
  <2>3. step' \in 0 .. 4 /\ count' \in Nat
    BY <1>1 DEF TypeOK
  <2> QED
    BY <1>1, <1>t, <1>w, <2>1, <2>2, <2>3 DEF TypeOK, serverVars
<1>6. /\ ~Empty(2)' /\ Empty(3)' /\ (Empty(1)' <=> Empty(1))
      /\ (NotifyIn(1)' <=> NotifyIn(1)) /\ (NotifyIn(2)' <=> NotifyIn(3))
      /\ (ChangeIn(1)' <=> ChangeIn(1)) /\ (ChangeIn(2)' <=> ChangeIn(3))
      /\ (EventsIn(1)' <=> EventsIn(1)) /\ (EventsIn(2)' <=> EventsIn(3))
      /\ \A t : (Waits(1, t)' <=> Waits(1, t)) /\ (Waits(2, t)' <=> Waits(3, t))
  <2>1. ~Empty(2)' /\ Empty(3)'
    BY <1>4 DEF Empty
  <2>2. 1 \in Stages /\ 2 \in Stages /\ 3 \in Stages
    BY DEF Stages
  <2>3. UNCHANGED <<nextTL, lastTL, curTL, plan, offset, epoch>>
    BY <1>1 DEF serverVars
  <2> QED
    BY <1>4, <2>1, <2>2, <2>3, SameStage
<1>7. /\ ~NotifyIn(3)' /\ ~ChangeIn(3)' /\ ~EventsIn(3)' /\ ~NotifyIn(2) /\ ~ChangeIn(2)
      /\ ~EventsIn(2) /\ \A t : ~Waits(2, t)
  BY <1>2, <1>6 DEF NotifyIn, ChangeIn, EventsIn, Waits
<1>8. StagesKept'
  <2>1. Len(request') <= 1 /\ Len(wire') = 1 /\ Len(probes') = 0
    BY <1>3 DEF StagesKept
  <2>2. \A k \in Stages : ~Empty(k)' => EventsIn(k)' \/ NotifyIn(k)' \/ ChangeIn(k)'
    BY <1>4, <1>6 DEF StagesKept, Stages
  <2>3. /\ NotifyIn(1)' \/ ChangeIn(1)' => Head(Stage(1))'.n = CtlSize
        /\ NotifyIn(2)' \/ ChangeIn(2)' => Head(Stage(2))'.n = CtlSize
    BY <1>4, <1>6 DEF StagesKept, Stages
  <2>4. \A k \in Stages : NotifyIn(k)' \/ ChangeIn(k)' => Head(Stage(k))'.n = CtlSize
    BY <1>7, <2>3 DEF Stages
  <2>5. EventsIn(1)' /\ EventsIn(2)' =>
          \A a \in Head(Stage(1))'.items, b \in Head(Stage(2))'.items : a.tl < b.tl
    BY <1>4, <1>6 DEF StagesKept, Stages
  <2>6. \A j, k \in Stages : j < k /\ EventsIn(j)' /\ EventsIn(k)' =>
        \A a \in Head(Stage(j))'.items, b \in Head(Stage(k))'.items : a.tl < b.tl
    BY <1>7, <2>5 DEF Stages
  <2>7. pc' \notin {"wait", "released"} /\ pending'
    BY <1>1, <1>2
  <2> QED
    BY <2>1, <2>2, <2>4, <2>6, <2>7 DEF StagesKept, CtlSize
<1>9. NoneLost' /\ OffsetsRight'
  <2>1. \A t : (\E k \in Stages : Waits(k, t)) => (\E k \in Stages : Waits(k, t)')
    BY <1>6, <1>7 DEF Stages
  <2>2. \A t \in 1 .. nextTL - 1 :
          plan[t] > 0 /\ t > lastTL => t >= curTL /\ \E k \in Stages : Waits(k, t)'
    BY <2>1 DEF NoneLost
  <2>3. busy' => \E i \in held' : IsCurrent(i)'
    BY <1>1 DEF IsCurrent, NoneLost, serverVars
  <2>4. NoneLost'
    BY <1>1, <2>2, <2>3 DEF NoneLost, serverVars
  <2> QED
    BY <1>1, <2>4 DEF serverVars, OffsetsRight
<1>10. WordsRight' /\ LocalCountSafe'
  <2>1. WordsRight'
    <3>1. \A v \in {0, 1} : win'[v].tl = 0
      BY <1>o, <1>t, <1>w
    <3> QED
      BY <1>t, <3>1, SizesAssumption DEF WordsRight
  <2>2. LocalCountSafe'
    <3>1. (Other(cur) = 1 - cur)' /\ 1 - cur' = cur
      BY <1>t DEF Other
    <3> QED
      BY <1>1, <1>o, <1>t, <1>w, <3>1 DEF LocalCountSafe
  <2> QED
    BY <2>1, <2>2
<1>11. DialogueKept'
  <2>1. ~Answered /\ ~Answered'
    BY <1>4, <1>6 DEF Answered, Stages
  <2>2. ~NotifyIn(1)
    BY <1>4 DEF DialogueKept, Stages
  <2>3. NotifyIn(2)' => step = 2
    BY <1>6 DEF DialogueKept, Stages
  <2>4. \A k \in Stages : NotifyIn(k)' => step' = 2 /\ \A j \in Stages : j > k => Empty(j)'
    BY <1>1, <1>6, <1>7, <2>2, <2>3 DEF Stages
  <2>5. ChangeIn(1)' => /\ resizing /\ lastTL < MaxTime /\ epoch = sepoch + 1 /\ held = {}
                        /\ cur = 1
    BY <1>2, <1>6 DEF DialogueKept, Stages
  <2>6. ChangeIn(2)' => /\ resizing /\ lastTL < MaxTime /\ epoch = sepoch + 1
                        /\ cur = 0 /\ Empty(1)
    BY <1>6 DEF DialogueKept, Stages
  <2>7. \A k \in Stages : ChangeIn(k)' => /\ \A j \in Stages : j < k => Empty(j)'
                                          /\ resizing /\ lastTL < MaxTime
                                          /\ epoch = sepoch + 1
                                          /\ cur' = CASE k = 3 -> 0 [] k = 2 -> 1
                                                      [] OTHER -> IF Empty(2)' THEN 1 ELSE 0
    BY <1>1, <1>6, <1>7, <2>5, <2>6, Codes DEF Stages
  <2>8. step' # 4 /\ step # 3
    BY <1>1, <2>1 DEF DialogueKept
  <2>9. step' = 2 => NotifyIn(2)'
    BY <1>1, <1>6, <1>7, <2>1, <2>2 DEF DialogueKept, Stages
  <2>10. resizing => ChangeIn(1)' \/ ChangeIn(2)'
    BY <1>6, <1>7, <2>1, <2>8 DEF DialogueKept, Stages
  <2>11. (\A k \in Stages : ~ChangeIn(k)') /\ pc # "released" => epoch = sepoch
    BY <1>6, <1>7 DEF DialogueKept, Stages
  <2>12. \A v \in {0, 1} : win'[v].notify # Resize
    BY <1>w, <2>1 DEF DialogueKept
  <2>13. /\ step' > 0 => pc = "open" /\ (blocked \/ fixed)
         /\ step' \in 1 .. 3 => newSize > 0
         /\ step' # 3
    BY <1>1, <2>8 DEF DialogueKept, TypeOK
  <2>14. /\ pc' = pc /\ (blocked' <=> blocked) /\ (fixed' <=> fixed) /\ newSize' = newSize
         /\ (resizing' <=> resizing) /\ epoch' = epoch /\ sepoch' = sepoch /\ held' = held
         /\ lastTL' = lastTL
    BY <1>1 DEF serverVars
  <2>15. 1 \in Stages /\ 2 \in Stages
    BY DEF Stages
  <2> QED
    BY <1>7, <2>4, <2>5, <2>7, <2>8, <2>9, <2>10, <2>11, <2>12, <2>13, <2>14, <2>15
       DEF DialogueKept, Resize
<1>12. TurnsKept' /\ EndKept'
  <2>1. swin' = swin /\ swin \in {0, 1} /\ (resizing' <=> resizing)
    BY <1>1 DEF TypeOK, serverVars
  <2>2. TurnsKept'
    BY <1>2, <1>6, <1>t, <2>1 DEF TurnsKept
  <2>3. EndKept'
    BY <1>1, <1>w DEF EndKept, Finalize, serverVars
  <2> QED
    BY <2>2, <2>3
<1>13. HistoryKept' /\ NoStaleAccess' /\ RingAccounted'
  BY <1>1, HistoryFrame, RingFrame DEF serverVars, NoStaleAccess
<1> QED
  BY <1>5, <1>8, <1>9, <1>10, <1>11, <1>12, <1>13

(* A control message is written alone in an empty window.                    *)
LEMMA ControlWritten ==
  ASSUME NEW w \in Window, NEW tl \in 1 .. Change, NEW arg \in Nat, NEW addr \in Nat, w.tl = 0
  PROVE  LET v == Written(w, 0, tl, CtlSize, arg, addr)
             item == [at |-> 0, tl |-> tl, size |-> CtlSize, arg |-> arg, addr |-> addr] IN
         /\ v \in Window /\ item \in Item /\ v.tl = tl /\ v.cnt = CtlSize /\ v.notify = w.notify
         /\ Contents(v) = [n |-> CtlSize, items |-> {item}]
<1> DEFINE v == Written(w, 0, tl, CtlSize, arg, addr)
           item == [at |-> 0, tl |-> tl, size |-> CtlSize, arg |-> arg, addr |-> addr]
<1>1. CtlSize \in Nat \ {0} /\ 0 \in Nat /\ 0 + CtlSize = CtlSize
  BY DEF CtlSize
<1>2. /\ v \in Window /\ item \in Item
      /\ v.tl = (IF w.tl = 0 THEN tl ELSE w.tl)
      /\ v.cnt = 0 + CtlSize /\ v.notify = w.notify
      /\ v.mem = Below(w.mem, 0) \cup {item}
      /\ Below(v.mem, 0 + CtlSize) = v.mem
  <2>1. WrittenRight(w, 0, tl, CtlSize, arg, addr)
    BY <1>1, WrittenFields
  <2> QED
    BY <2>1, Zenon DEF WrittenRight
<1>3. Below(w.mem, 0) = {}
  <2>1. \A i \in w.mem : i.at \in Nat
    BY ItemType DEF Window
  <2> QED
    BY <2>1 DEF Below
<1> HIDE DEF item, v
<1>4. Contents(v) = [n |-> CtlSize, items |-> {item}]
  BY <1>1, <1>2, <1>3 DEF Contents
<1> QED
  BY <1>1, <1>2, <1>4 DEF item, v

(* What the first two stages hold when only the window is written.           *)
LEMMA OnlyWritten ==
  ASSUME TypeOK, UNCHANGED <<wire, probes, request, nextTL, lastTL, curTL, plan, offset, epoch>>
  PROVE  \A k \in {1, 2} : /\ Stage(k)' = Stage(k)
                           /\ Empty(k)' <=> Empty(k)
                           /\ NotifyIn(k)' <=> NotifyIn(k)
                           /\ ChangeIn(k)' <=> ChangeIn(k)
                           /\ EventsIn(k)' <=> EventsIn(k)
                           /\ \A t : Waits(k, t)' <=> Waits(k, t)
<1>1. Stage(1)' = Stage(1) /\ Stage(2)' = Stage(2) /\ 1 \in Stages /\ 2 \in Stages
  BY DEF Stage, Between, Stages
<1> QED
  BY <1>1, SameStage

(* resizeBufferNotify: the notification is written in the window.            *)
LEMMA ResizeBufferNotifyStep ==
  ASSUME LegacyInv, ResizeBufferNotify
  PROVE  LegacyInv'
<1> USE DEF LegacyInv
<1> DEFINE note == [at |-> 0, tl |-> Notify, size |-> CtlSize, arg |-> 0, addr |-> 0]
<1>1. /\ Checking /\ count = 0 /\ step = 1
      /\ win' = [win EXCEPT ![cur] = Written(@, 0, Notify, CtlSize, 0, 0)]
      /\ count' = CtlSize /\ step' = 2 /\ pending' = FALSE
      /\ UNCHANGED <<pureOneSided, plan, nextTL, pc, blocked, cur, bufSize,
                     newSize, growable, fixed, epoch, accepted, offset, wire, serverVars>>
  BY DEF ResizeBufferNotify
<1>t. /\ cur \in {0, 1} /\ win \in [{0, 1} -> Window] /\ win[cur] \in Window
      /\ bufSize \in Nat \ {0} /\ Other(cur) \in {0, 1} /\ Other(cur) # cur
  <2>1. cur \in {0, 1} /\ win \in [{0, 1} -> Window] /\ bufSize \in Nat \ {0}
    BY DEF TypeOK
  <2> QED
    BY <2>1, Codes
<1>2. Empty(2) /\ pc \in {"open", "drain"}
  BY <1>1, NoneSent DEF Checking
<1>3. win[cur].cnt = 0 /\ win[cur].tl = 0 /\ Empty(3)
  <2>1. win[cur].cnt = 0
    BY <1>1 DEF LocalCountSafe
  <2> QED
    BY <1>t, <2>1 DEF WordsRight, Empty, Stage, InWindow
<1>w. /\ win' \in [{0, 1} -> Window] /\ win'[cur].cnt = CtlSize /\ win'[cur].tl = Notify
      /\ Contents(win'[cur]) = [n |-> CtlSize, items |-> {note}]
      /\ \A v \in {0, 1} : /\ win'[v].notify = win[v].notify
                           /\ v # cur => win'[v] = win[v]
  <2> DEFINE v == Written(win[cur], 0, Notify, CtlSize, 0, 0)
  <2>1. /\ v \in Window /\ v.tl = Notify /\ v.cnt = CtlSize /\ v.notify = win[cur].notify
        /\ Contents(v) = [n |-> CtlSize, items |-> {note}] /\ note \in Item
    <3>1. Notify \in 1 .. Change /\ 0 \in Nat /\ win[cur] \in Window /\ win[cur].tl = 0
      BY <1>3, <1>t, Codes
    <3> QED
      BY <3>1, ControlWritten
  <2>2. win' = [win EXCEPT ![cur] = v]
    BY <1>1
  <2> HIDE DEF v, note
  <2> QED
    BY <1>t, <2>1, <2>2
<1>4. Stage(3)' = <<[n |-> CtlSize, items |-> {note}]>> /\ ~Empty(3)' /\ NotifyIn(3)'
  <2>1. CtlSize # 0 /\ cur' = cur
    BY <1>1, Codes
  <2>2. InWindow' = <<Contents(win'[cur])>>
    BY <1>w, <2>1 DEF InWindow, Contents, Below
  <2>3. Stage(3)' = <<[n |-> CtlSize, items |-> {note}]>>
    BY <1>w, <2>2 DEF Stage
  <2>4. ~Empty(3)'
    BY <2>3 DEF Empty
  <2>5. Head(Stage(3))'.items = {note}
    BY <2>3
  <2> QED
    BY <2>3, <2>4, <2>5 DEF NotifyIn, IsNotify, Notify, CtlSize
<1>5. TypeOK'
  <2>1. pending' \in BOOLEAN
    BY <1>1, Zenon
  <2>2. step' \in 0 .. 4 /\ count' \in Nat
    BY <1>1, Codes
  <2> QED
    BY <1>1, <1>w, <2>1, <2>2 DEF TypeOK, serverVars
<1>6. ~EventsIn(3)' /\ ~ChangeIn(3)'
  <2>1. KindsApart'
    BY <1>5, OneKindNext
  <2> QED
    BY <1>4, <2>1 DEF KindsApart, Stages
<1>7. \A k \in {1, 2} : /\ Stage(k)' = Stage(k)
                        /\ Empty(k)' <=> Empty(k)
                        /\ NotifyIn(k)' <=> NotifyIn(k)
                        /\ ChangeIn(k)' <=> ChangeIn(k)
                        /\ EventsIn(k)' <=> EventsIn(k)
                        /\ \A t : Waits(k, t)' <=> Waits(k, t)
  BY <1>1, OnlyWritten DEF serverVars
<1>8. StagesKept'
  <2>1. /\ Len(request') <= 1 /\ Len(wire') + Len(probes') <= 1
        /\ pc' \notin {"wait", "released"} /\ Empty(2)'
    BY <1>1, <1>2, <1>7 DEF StagesKept, serverVars
  <2>2. \A k \in Stages : ~Empty(k)' => EventsIn(k)' \/ NotifyIn(k)' \/ ChangeIn(k)'
    BY <1>4, <1>7 DEF StagesKept, Stages
  <2>3. \A k \in {1, 2} : NotifyIn(k)' \/ ChangeIn(k)' => Head(Stage(k))'.n = CtlSize
    BY <1>7 DEF StagesKept, Stages
  <2>4. Head(Stage(3))'.n = CtlSize
    BY <1>4
  <2>5. \A k \in Stages : NotifyIn(k)' \/ ChangeIn(k)' => Head(Stage(k))'.n = CtlSize
    BY <2>3, <2>4 DEF Stages
  <2>6. EventsIn(1)' /\ EventsIn(2)' =>
          \A a \in Head(Stage(1))'.items, b \in Head(Stage(2))'.items : a.tl < b.tl
    BY <1>7 DEF StagesKept, Stages
  <2>7. \A j, k \in Stages : j < k /\ EventsIn(j)' /\ EventsIn(k)' =>
          \A a \in Head(Stage(j))'.items, b \in Head(Stage(k))'.items : a.tl < b.tl
    BY <1>6, <2>6 DEF Stages
  <2> QED
    BY <2>1, <2>2, <2>5, <2>7 DEF StagesKept, CtlSize
<1>9. NoneLost' /\ OffsetsRight'
  <2>0. \A t : ~Waits(3, t)
    BY <1>3 DEF Waits
  <2>1. \A t : (\E k \in Stages : Waits(k, t)) => (\E k \in Stages : Waits(k, t)')
    BY <1>7, <2>0 DEF Stages
  <2>2. \A t \in 1 .. nextTL - 1 :
          plan[t] > 0 /\ t > lastTL => t >= curTL /\ \E k \in Stages : Waits(k, t)'
    BY <2>1 DEF NoneLost
  <2>3. busy' => \E i \in held' : IsCurrent(i)'
    BY <1>1 DEF IsCurrent, NoneLost, serverVars
  <2>4. NoneLost'
    BY <1>1, <2>2, <2>3 DEF NoneLost, serverVars
  <2> QED
    BY <1>1, <2>4 DEF serverVars, OffsetsRight
<1>10. WordsRight' /\ LocalCountSafe'
  <2>1. CtlSize = 1 /\ Notify \notin 1 .. MaxTime /\ cur' = cur /\ bufSize' = bufSize
    BY <1>1, Codes, SizesAssumption
  <2>2. WordsRight'
    BY <1>t, <1>w, <2>1 DEF WordsRight
  <2>3. LocalCountSafe'
    BY <1>1, <1>t, <1>w, <2>1 DEF LocalCountSafe, Other
  <2> QED
    BY <2>2, <2>3
<1>11. DialogueKept'
  <2>1. ~NotifyIn(1) /\ ~NotifyIn(2) /\ ~ChangeIn(2) /\ ~ChangeIn(3)
    BY <1>1, <1>2 DEF DialogueKept, Stages, ChangeIn
  <2>2. \A k \in Stages : NotifyIn(k)' => \A j \in Stages : j > k => Empty(j)'
    BY <1>7, <2>1 DEF Stages
  <2>3. ChangeIn(1)' <=> ChangeIn(1)
    BY <1>7
  <2>4. ~ChangeIn(2)' /\ ~ChangeIn(3)'
    BY <1>6, <1>7, <2>1
  <2>5. ChangeIn(1) => /\ resizing /\ lastTL < MaxTime /\ epoch = sepoch + 1 /\ held = {}
                       /\ cur = IF Empty(2)' THEN 1 ELSE 0
    BY <1>7 DEF DialogueKept, Stages
  <2>6. \A k \in Stages : ChangeIn(k)' => /\ \A j \in Stages : j < k => Empty(j)'
                                          /\ resizing /\ lastTL < MaxTime
                                          /\ epoch = sepoch + 1
                                          /\ cur = CASE k = 3 -> 0 [] k = 2 -> 1
                                                     [] OTHER -> IF Empty(2)' THEN 1 ELSE 0
    BY <2>3, <2>4, <2>5 DEF Stages
  <2>7. resizing => ChangeIn(1)'
    BY <1>1, <2>1, <2>3 DEF DialogueKept, Stages
  <2>8. (\A k \in Stages : ~ChangeIn(k)') /\ pc # "released" => epoch = sepoch
    BY <2>1, <2>3 DEF DialogueKept, Stages
  <2>9. \A v \in {0, 1} : win'[v].notify # Resize
    BY <1>1, <1>w DEF DialogueKept
  <2>10. pc = "open" /\ (blocked \/ fixed) /\ newSize > 0
    BY <1>1 DEF DialogueKept
  <2>11. /\ pc' = pc /\ (blocked' <=> blocked) /\ (fixed' <=> fixed) /\ newSize' = newSize
         /\ (resizing' <=> resizing) /\ epoch' = epoch /\ sepoch' = sepoch /\ held' = held
         /\ lastTL' = lastTL /\ cur' = cur /\ step' = 2
    BY <1>1 DEF serverVars
  <2>12. 1 \in Stages /\ 3 \in Stages
    BY DEF Stages
  <2> QED
    BY <1>4, <2>2, <2>3, <2>4, <2>5, <2>6, <2>7, <2>8, <2>9, <2>10, <2>11, <2>12
       DEF DialogueKept, Resize
<1>12. TurnsKept' /\ EndKept'
  <2>1. TurnsKept'
    BY <1>1, <1>7 DEF TurnsKept, serverVars
  <2>2. EndKept'
    BY <1>1, <1>w DEF EndKept, Finalize, serverVars
  <2> QED
    BY <2>1, <2>2
<1>13. HistoryKept' /\ NoStaleAccess' /\ RingAccounted'
  BY <1>1, HistoryFrame, RingFrame DEF serverVars, NoStaleAccess
<1> QED
  BY <1>5, <1>8, <1>9, <1>10, <1>11, <1>12, <1>13

(* resizeBuffer: new windows, their addresses in the first one.              *)
LEMMA ResizeBufferStep ==
  ASSUME LegacyInv, ResizeBuffer
  PROVE  LegacyInv'
<1> USE DEF LegacyInv
<1>r. PICK address : address = epoch + 1
  OBVIOUS
<1> DEFINE item == [at |-> 0, tl |-> Change, size |-> CtlSize, arg |-> newSize, addr |-> address]
<1>1. /\ count = 0 /\ step = 3 /\ bufSize' = newSize /\ epoch' = address
      /\ win' = [w \in {0, 1} |-> IF w = 0
                              THEN Written(EmptyWindow, 0, Change, CtlSize, newSize, address)
                              ELSE EmptyWindow]
      /\ cur' = 0 /\ count' = CtlSize /\ step' = 4 /\ pending' = FALSE
      /\ UNCHANGED <<pureOneSided, plan, nextTL, pc, blocked, newSize, growable,
                     fixed, accepted, offset, wire, serverVars>>
  BY <1>r DEF ResizeBuffer
<1>2. /\ Empty(1) /\ Empty(2) /\ Empty(3) /\ resizing /\ newSize > 0
      /\ pc = "open" /\ (blocked \/ fixed)
  BY <1>1 DEF DialogueKept, Answered, Stages
<1>3. epoch = sepoch /\ address = sepoch + 1 /\ address \in Nat /\ newSize \in Nat \ {0}
  <2>1. \A k \in Stages : ~ChangeIn(k)
    BY <1>2 DEF ChangeIn, Stages
  <2>2. epoch = sepoch
    BY <1>2, <2>1 DEF DialogueKept
  <2> QED
    BY <1>2, <1>r, <2>2 DEF TypeOK
<1>w. /\ win' \in [{0, 1} -> Window] /\ win'[0].cnt = CtlSize /\ win'[0].tl = Change
      /\ Contents(win'[0]) = [n |-> CtlSize, items |-> {item}]
      /\ win'[1] = EmptyWindow
      /\ \A v \in {0, 1} : win'[v].notify = Nothing
  <2> DEFINE v == Written(EmptyWindow, 0, Change, CtlSize, newSize, address)
  <2>1. EmptyWindow \in Window /\ EmptyWindow.cnt = 0 /\ EmptyWindow.tl = 0
        /\ EmptyWindow.notify = Nothing /\ Change \in 1 .. Change
    BY EmptyWindowType, Codes DEF EmptyWindow
  <2>2. /\ v \in Window /\ v.tl = Change /\ v.cnt = CtlSize /\ v.notify = EmptyWindow.notify
        /\ Contents(v) = [n |-> CtlSize, items |-> {item}] /\ item \in Item
    <3>1. /\ Change \in 1 .. Change /\ newSize \in Nat /\ address \in Nat
          /\ EmptyWindow \in Window /\ EmptyWindow.tl = 0
      BY <1>3, <2>1
    <3> QED
      BY <3>1, ControlWritten
  <2>3. win' = [w \in {0, 1} |-> IF w = 0 THEN v ELSE EmptyWindow]
    BY <1>1
  <2> HIDE DEF v, item
  <2> QED
    BY <2>1, <2>2, <2>3
<1>4. /\ Stage(3)' = <<[n |-> CtlSize, items |-> {item}]>> /\ ~Empty(3)' /\ ChangeIn(3)'
      /\ Head(Stage(3))'.n = CtlSize
  <2>1. CtlSize # 0 /\ cur' = 0
    BY <1>1, Codes
  <2>2. InWindow' = <<Contents(win'[0])>>
    BY <1>w, <2>1 DEF InWindow, Contents, Below
  <2>3. Stage(3)' = <<[n |-> CtlSize, items |-> {item}]>>
    BY <1>w, <2>2 DEF Stage
  <2>4. ~Empty(3)'
    BY <2>3 DEF Empty
  <2>5. Head(Stage(3))'.items = {item} /\ Head(Stage(3))'.n = CtlSize
    BY <2>3
  <2>6. item.at = 0 /\ item.tl = Change /\ item.arg > 0 /\ item.addr = epoch'
    BY <1>1, <1>2
  <2> HIDE DEF item
  <2>7. IsChange(Head(Stage(3)))'
    BY <2>5, <2>6 DEF IsChange, Change
  <2> QED
    BY <2>3, <2>4, <2>5, <2>7 DEF ChangeIn
<1>5. TypeOK'
  <2>1. pending' \in BOOLEAN
    BY <1>1, Zenon
  <2>2. step' \in 0 .. 4 /\ count' \in Nat /\ cur' \in {0, 1}
    BY <1>1, Codes
  <2> QED
    BY <1>1, <1>3, <1>w, <2>1, <2>2 DEF TypeOK, serverVars
<1>6. ~EventsIn(3)' /\ ~NotifyIn(3)'
  <2>1. KindsApart'
    BY <1>5, OneKindNext
  <2> QED
    BY <1>4, <2>1 DEF KindsApart, Stages
<1>7. \A k \in {1, 2} : Empty(k)' /\ ~NotifyIn(k)' /\ ~ChangeIn(k)' /\ ~EventsIn(k)'
  <2>1. Stage(1)' = Stage(1) /\ Stage(2)' = Stage(2)
    BY <1>1 DEF Stage, Between, serverVars
  <2>2. Empty(1)' /\ Empty(2)'
    BY <1>2, <2>1 DEF Empty
  <2> QED
    BY <2>2 DEF NotifyIn, ChangeIn, EventsIn
<1>8. StagesKept'
  <2>1. /\ Len(request') <= 1 /\ Len(wire') + Len(probes') <= 1
        /\ pc' \notin {"wait", "released"}
    BY <1>1, <1>2 DEF StagesKept, serverVars
  <2>2. \A k \in Stages : ~Empty(k)' => EventsIn(k)' \/ NotifyIn(k)' \/ ChangeIn(k)'
    BY <1>4, <1>7 DEF Stages
  <2>5. \A k \in Stages : NotifyIn(k)' \/ ChangeIn(k)' => Head(Stage(k))'.n = CtlSize
    BY <1>4, <1>7 DEF Stages
  <2>7. \A k \in Stages : ~EventsIn(k)'
    BY <1>6, <1>7 DEF Stages
  <2> QED
    BY <1>7, <2>1, <2>2, <2>5, <2>7 DEF StagesKept, CtlSize
<1>9. NoneLost' /\ OffsetsRight'
  <2>1. \A t : \A k \in Stages : ~Waits(k, t)
    BY <1>2 DEF Stages, Waits
  <2>2. \A t \in 1 .. nextTL - 1 : ~(plan[t] > 0 /\ t > lastTL)
    BY <2>1 DEF NoneLost
  <2>3. busy' => \E i \in held' : IsCurrent(i)'
    BY <1>1 DEF IsCurrent, NoneLost, serverVars
  <2>4. NoneLost'
    BY <1>1, <2>2, <2>3 DEF NoneLost, serverVars
  <2> QED
    BY <1>1, <2>4 DEF serverVars, OffsetsRight
<1>10. WordsRight' /\ LocalCountSafe'
  <2>1. CtlSize = 1 /\ Change \notin 1 .. MaxTime /\ cur' = 0
    BY <1>1, Codes, SizesAssumption
  <2>2. win'[1].cnt = 0 /\ win'[1].tl = 0 /\ win'[0].cnt = 1 /\ win'[0].tl = Change
    BY <1>w, <2>1 DEF EmptyWindow
  <2>3. WordsRight'
    BY <2>1, <2>2 DEF WordsRight
  <2>4. (Other(cur) = 1 - cur)' /\ 1 - cur' = 1
    BY <2>1 DEF Other
  <2>5. LocalCountSafe'
    BY <1>1, <1>3, <2>1, <2>2, <2>4 DEF LocalCountSafe
  <2> QED
    BY <2>3, <2>5
<1>11. DialogueKept'
  <2>1. lastTL < MaxTime
    BY <1>2, SizesAssumption DEF EndKept, NoneLost, TypeOK
  <2>2. \A k \in Stages : ~NotifyIn(k)'
    BY <1>6, <1>7 DEF Stages
  <2>3. \A k \in Stages : ChangeIn(k)' => k = 3
    BY <1>7 DEF Stages
  <2>4. \A j \in Stages : j < 3 => Empty(j)'
    BY <1>7 DEF Stages
  <2>5. /\ pc' = "open" /\ (blocked' \/ fixed') /\ resizing' /\ epoch' = sepoch' + 1
        /\ lastTL' = lastTL /\ cur' = 0 /\ step' = 4
    BY <1>1, <1>2, <1>3 DEF serverVars
  <2>6. \A v \in {0, 1} : win'[v].notify # Resize
    BY <1>w, Codes
  <2>7. 3 \in Stages /\ ~ChangeIn(1)'
    BY <1>7 DEF Stages
  <2> QED
    BY <1>4, <2>1, <2>2, <2>3, <2>4, <2>5, <2>6, <2>7 DEF DialogueKept, Resize
<1>12. TurnsKept' /\ EndKept'
  <2>1. resizing'
    BY <1>1, <1>2 DEF serverVars
  <2>2. Nothing # Finalize
    BY Codes
  <2>3. EndKept'
    BY <1>1, <1>w, <2>2 DEF EndKept, Finalize, serverVars
  <2> QED
    BY <2>1, <2>3 DEF TurnsKept
<1>13. HistoryKept' /\ NoStaleAccess' /\ RingAccounted'
  BY <1>1, HistoryFrame, RingFrame DEF serverVars, NoStaleAccess
<1> QED
  BY <1>5, <1>8, <1>9, <1>10, <1>11, <1>12, <1>13

-----------------------------------------------------------------------------
(* The invariant holds initially, and every step keeps it.                   *)
LEMMA InitStep ==
  ASSUME Init
  PROVE  LegacyInv
<1>1. /\ plan \in [1 .. MaxTime -> 0 .. MaxSize] /\ plan[MaxTime] > 0
      /\ pureOneSided \in BOOLEAN
      /\ nextTL = 1 /\ pc = "open" /\ blocked = FALSE
      /\ cur = 1 /\ count = 0 /\ win = [w \in {0, 1} |-> EmptyWindow]
      /\ pending = FALSE /\ step = 0
      /\ bufSize = InitSize /\ newSize = 0
      /\ growable \in BOOLEAN /\ fixed = FALSE /\ epoch = 0
      /\ wire = <<>> /\ probes = <<>> /\ request = <<>>
      /\ swin = 1 /\ resizing = FALSE /\ used = 0 /\ ring = 3 * InitSize
      /\ held = {} /\ curTL = 1 /\ lastTL = 0 /\ busy = FALSE /\ sepoch = 0
      /\ accepted = <<>> /\ processed = <<>> /\ offset = <<0>> /\ stale = FALSE
  BY DEF Init
<1>2. win \in [{0, 1} -> Window] /\ \A w \in {0, 1} : win[w] = EmptyWindow
  BY <1>1, EmptyWindowType
<1>3. MaxTime \in Nat /\ MaxTime >= 1 /\ InitSize \in Nat \ {0}
  BY SizesAssumption
<1>4. TypeOK
  <2>1. /\ blocked \in BOOLEAN /\ pending \in BOOLEAN /\ fixed \in BOOLEAN
        /\ resizing \in BOOLEAN /\ busy \in BOOLEAN /\ stale \in BOOLEAN
    BY <1>1, Zenon
  <2>2. /\ nextTL \in 1 .. MaxTime + 1 /\ curTL \in 1 .. MaxTime + 1 /\ lastTL \in 0 .. MaxTime
        /\ ring \in Nat
    BY <1>1, <1>3
  <2>3. /\ wire \in Seq(Message) /\ probes \in Seq(Message) /\ request \in Seq(Message)
        /\ accepted \in Seq(1 .. MaxTime) /\ processed \in Seq(1 .. MaxTime)
        /\ offset \in Seq(Nat)
    BY <1>1
  <2> QED
    BY <1>1, <1>2, <1>3, <2>1, <2>2, <2>3 DEF TypeOK
<1>5. /\ \A k \in Stages : Empty(k) /\ ~NotifyIn(k) /\ ~ChangeIn(k) /\ ~EventsIn(k)
      /\ Answered
  <2>1. win[cur].cnt = 0
    BY <1>1, <1>2 DEF EmptyWindow
  <2>2. \A k \in Stages : Empty(k)
    BY <1>1, <2>1 DEF Empty, Stages, Stage, Between, InWindow
  <2> QED
    BY <2>2 DEF NotifyIn, ChangeIn, EventsIn, Answered
<1>6. StagesKept
  BY <1>1, <1>5 DEF StagesKept, Stages
<1>7. NoneLost
  <2>1. \A t \in 1 .. MaxTime : ~(t < curTL)
    BY <1>1, <1>3
  <2> QED
    BY <1>1, <2>1 DEF NoneLost
<1>8. OffsetsRight
  <2>1. \A s, t \in 1 .. nextTL : offset[s] = 0 /\ offset[t] = 0
    BY <1>1
  <2> QED
    BY <1>1, <2>1 DEF OffsetsRight
<1>9. WordsRight /\ LocalCountSafe
  <2>1. \A w \in {0, 1} : win[w].cnt = 0 /\ win[w].tl = 0
    BY <1>2 DEF EmptyWindow
  <2>2. Other(cur) \in {0, 1} /\ cur \in {0, 1} /\ 0 \notin 1 .. MaxTime
    BY <1>1, <1>3, Codes
  <2> QED
    BY <1>1, <1>3, <2>1, <2>2 DEF WordsRight, LocalCountSafe
<1>10. DialogueKept /\ TurnsKept /\ EndKept
  <2>1. \A w \in {0, 1} : win[w].notify # Resize /\ win[w].notify # Finalize
    BY <1>2, Codes DEF EmptyWindow
  <2>2. 3 \in Stages /\ 1 \in Stages /\ 2 \in Stages
    BY DEF Stages
  <2> QED
    BY <1>1, <1>3, <1>5, <2>1, <2>2 DEF DialogueKept, TurnsKept, EndKept
<1>11. HistoryKept
  <2>1. \A t \in 1 .. MaxTime : ~Handed(t)
    BY <1>1, <1>3 DEF Handed
  <2>2. DOMAIN accepted = {} /\ DOMAIN processed = {} /\ Len(accepted) = 0 /\ Len(processed) = 0
    BY <1>1
  <2> QED
    BY <1>1, <2>1, <2>2 DEF HistoryKept
<1>12. NoStaleAccess /\ RingAccounted
  <2>1. HeldBytes = 0
    BY <1>1 DEF HeldBytes
  <2> QED
    BY <1>1, <2>1 DEF NoStaleAccess, RingAccounted
<1> QED
  BY <1>4, <1>6, <1>7, <1>8, <1>9, <1>10, <1>11, <1>12 DEF LegacyInv

(* A step that changes nothing.                                              *)
LEMMA Stuttering ==
  ASSUME LegacyInv, UNCHANGED vars
  PROVE  LegacyInv'
<1> USE DEF LegacyInv
<1>1. UNCHANGED <<clientVars, win, wire, serverVars>>
  BY DEF vars
<1>2. TypeOK'
  BY <1>1 DEF TypeOK, clientVars, serverVars
<1>3. \A k \in Stages : Stage(k)' = Stage(k)
  BY <1>1, SameWindow DEF clientVars, serverVars
<1>4. SameObservers
  BY <1>1, <1>3, SameStages DEF clientVars, serverVars
<1>5. StagesKept'
  <2>1. Len(request') <= 1 /\ Len(wire') + Len(probes') <= 1
    BY <1>1 DEF StagesKept, serverVars
  <2> QED
    BY <1>1, <1>3, <1>4, <2>1, StagesFrame, StageByStage DEF StagesKept, clientVars
<1>6. NoneLost' /\ OffsetsRight' /\ WordsRight'
  BY <1>1, <1>4, NoneLostFrame, WordsFrame DEF clientVars, serverVars, OffsetsRight
<1>7. DialogueKept' /\ TurnsKept' /\ EndKept'
  BY <1>1, <1>4, DialogueFrame, TurnsFrame, EndFrame DEF clientVars, serverVars, DialogueKept
<1>8. HistoryKept' /\ NoStaleAccess' /\ LocalCountSafe' /\ RingAccounted'
  BY <1>1, HistoryFrame, CountFrame, RingFrame DEF clientVars, serverVars, NoStaleAccess
<1> QED
  BY <1>2, <1>5, <1>6, <1>7, <1>8

(* Every step keeps the invariant.                                           *)
LEMMA EveryStep ==
  ASSUME LegacyInv, [Next]_vars
  PROVE  LegacyInv'
<1>1. CASE SkipTimeline
  BY <1>1, SkipTimelineStep
<1>2. CASE SendEvent
  BY <1>2, SendEventStep
<1>3. CASE BufferNotFree
  BY <1>3, BufferNotFreeStep
<1>4. CASE OthersNotFree
  BY <1>4, OthersNotFreeStep
<1>5. CASE \E size \in FixSizes : FixBufferSize(size)
  BY <1>5, FixBufferSizeStep
<1>6. CASE IssueSend
  BY <1>6, IssueSendStep
<1>7. CASE TestSend
  BY <1>7, TestSendStep
<1>8. CASE ResizeBufferNotify
  BY <1>8, ResizeBufferNotifyStep
<1>9. CASE IsNotifiedChangeBufferSize
  BY <1>9, IsNotifiedChangeStep
<1>10. CASE ResizeBuffer
  BY <1>10, ResizeBufferStep
<1>11. CASE HavePendingRequests
  BY <1>11, HavePendingRequestsStep
<1>12. CASE IsNotifiedFinalized
  BY <1>12, IsNotifiedFinalizedStep
<1>13. CASE Listen
  BY <1>13, ListenStep
<1>14. CASE AcceptProbe
  BY <1>14, AcceptProbeStep
<1>15. CASE ReceiveEvents
  BY <1>15, ReceiveEventsStep
<1>16. CASE ReceiveNotify
  BY <1>16, ReceiveNotifyStep
<1>17. CASE ReceiveChange
  BY <1>17, ReceiveChangeStep
<1>18. CASE GetBufferFromClient
  BY <1>18, GetBufferFromClientStep
<1>19. CASE StartEvent
  BY <1>19, StartEventStep
<1>20. CASE EndEvent
  BY <1>20, EndEventStep
<1>21. CASE OtherEvent
  BY <1>21, OtherEventStep
<1>22. CASE Finished \/ UNCHANGED vars
  BY <1>22, Stuttering DEF Finished
<1> QED
  BY <1>1, <1>2, <1>3, <1>4, <1>5, <1>6, <1>7, <1>8, <1>9, <1>10, <1>11, <1>12, <1>13, <1>14,
     <1>15, <1>16, <1>17, <1>18, <1>19, <1>20, <1>21, <1>22 DEF Next

(* The inductive invariant of the legacy transport: what each of the three   *)
(* stages between the client's window and the server's ring can hold, and    *)
(* what each side knows of it (buffer_client.cpp, legacy_context_server.cpp). *)
THEOREM LegacyExact == Spec => []LegacyInv
<1>1. Init => LegacyInv
  BY InitStep
<1>2. LegacyInv /\ [Next]_vars => LegacyInv'
  BY EveryStep
<1> QED
  BY <1>1, <1>2, PTL DEF Spec

-----------------------------------------------------------------------------
(* What both ends may rely on.                                               *)
LEMMA AgreeAboutWindows ==
  ASSUME LegacyInv
  PROVE  WindowsAgree
<1> USE DEF LegacyInv
<1>1. SUFFICES ASSUME wire = <<>>, probes = <<>>, request = <<>>
               PROVE  IF resizing THEN step = 2 => win[cur].notify = Resize ELSE swin = cur
  BY DEF WindowsAgree, NothingOnTheWay
<1>2. Empty(1) /\ Empty(2)
  BY <1>1 DEF Empty, Stage, Between
<1>3. CASE resizing
  <2>1. SUFFICES ASSUME step = 2
                 PROVE  win[cur].notify = Resize
    BY <1>3
  <2>2. ~ChangeIn(1) /\ ~ChangeIn(2) /\ ~NotifyIn(1) /\ ~NotifyIn(2) /\ ~ChangeIn(3)
    BY <1>2, <2>1 DEF ChangeIn, NotifyIn, DialogueKept
  <2>3. Answered
    BY <1>3, <2>1, <2>2 DEF DialogueKept, Stages
  <2>4. ~NotifyIn(3)
    BY <2>3 DEF Answered, NotifyIn, Stages
  <2> QED
    BY <2>1, <2>2, <2>4 DEF DialogueKept, Stages
<1>4. CASE ~resizing
  BY <1>2, <1>4 DEF TurnsKept
<1> QED
  BY <1>3, <1>4

(* A control message is alone in its message, in each stage,                 *)
LEMMA AloneInMessage ==
  ASSUME TypeOK, StagesKept, NEW k \in Stages, ~Empty(k),
         NEW i \in Head(Stage(k)).items, NEW j \in Head(Stage(k)).items, IsControl(i)
  PROVE  i = j
<1>1. Head(Stage(k)) \in Message
  BY StageForm
<1>2. i.tl \in Nat /\ nextTL \in Nat /\ nextTL <= MaxTime + 1 /\ MaxTime \in Nat
  <2>1. i \in Item
    BY <1>1, MessageType
  <2> QED
    BY <2>1, ItemType, Codes, SizesAssumption DEF TypeOK
<1>3. ~EventsIn(k)
  BY <1>2 DEF EventsIn, IsEvents, IsControl
<1>4. NotifyIn(k) => i = j
  BY DEF NotifyIn, IsNotify
<1>5. ChangeIn(k) => i = j
  BY DEF ChangeIn, IsChange
<1> QED
  BY <1>3, <1>4, <1>5 DEF StagesKept

(* and so in what has been sent, probed and received.                        *)
LEMMA AgreeAboutControl ==
  ASSUME LegacyInv
  PROVE  ControlAlone
<1> USE DEF LegacyInv
<1>1. SUFFICES ASSUME NEW s \in {wire, probes, request}, NEW k \in DOMAIN s,
                      NEW i \in s[k].items, NEW j \in s[k].items, IsControl(i)
               PROVE  i = j
  BY DEF ControlAlone
<1>2. s \in Seq(Message) /\ Len(s) <= 1 /\ s # <<>> /\ s[k] = Head(s)
  <2>1. wire \in Seq(Message) /\ probes \in Seq(Message) /\ request \in Seq(Message)
    BY DEF TypeOK
  <2>2. Len(wire) \in Nat /\ Len(probes) \in Nat
    BY <2>1, LenProperties
  <2>3. Len(wire) <= 1 /\ Len(probes) <= 1 /\ Len(request) <= 1
    BY <2>2 DEF StagesKept
  <2>4. s \in Seq(Message) /\ Len(s) <= 1 /\ DOMAIN s = 1 .. Len(s) /\ Len(s) \in Nat
    BY <2>1, <2>3, LenProperties
  <2>5. k = 1 /\ s # <<>>
    BY <2>4
  <2> QED
    BY <2>4, <2>5, Single
<1>3. \E n \in Stages : ~Empty(n) /\ Head(Stage(n)) = s[k]
  <2>1. CASE s = request
    BY <1>2, <2>1 DEF Empty, Stage, Stages
  <2>2. CASE s = wire
    BY <1>2, <2>2, BetweenForm DEF Empty, Stages
  <2>3. CASE s = probes
    BY <1>2, <2>3, BetweenForm DEF Empty, Stages
  <2> QED
    BY <2>1, <2>2, <2>3
<1> QED
  BY <1>1, <1>3, AloneInMessage

(* The two ends of the legacy transport always agree, for every plan of      *)
(* events, every size of window and every size the buffer is fixed to        *)
(* (legacy_context_server.cpp:213).                                          *)
THEOREM EndsAlwaysAgree == Spec => []LegacyEndsAgree
<1>1. LegacyInv => LegacyEndsAgree
  BY AgreeAboutWindows, AgreeAboutControl DEF LegacyInv, LegacyEndsAgree
<1> QED
  BY <1>1, LegacyExact, PTL

(* A resize is ended by nothing but the ChangeBufferSize message.            *)
LEMMA OnlyChangeEnds ==
  ASSUME LegacyInv, [Next]_vars, ~ReceiveChange
  PROVE  ~(resizing /\ ~resizing')
BY DEF Next, SkipTimeline, SendEvent, BufferNotFree, OthersNotFree, FixBufferSize, IssueSend,
       TestSend, ResizeBufferNotify, IsNotifiedChangeBufferSize, ResizeBuffer,
       HavePendingRequests, IsNotifiedFinalized, Listen, AcceptProbe, ReceiveEvents,
       ReceiveNotify, GetBufferFromClient, StartEvent, EndEvent, OtherEvent, Finished,
       serverVars, vars

(* The ring a resize deletes never holds an event, however far the server    *)
(* is behind the client when the message comes (legacy_context_server.cpp).  *)
THEOREM RingEmptyWhenDeleted == Spec => DeletedRingEmpty
<1>1. LegacyInv /\ [Next]_vars => [resizing /\ ~resizing' => held = {} /\ held' = {}]_vars
  <2>1. SUFFICES ASSUME LegacyInv, [Next]_vars, resizing, ~resizing'
                 PROVE  held = {} /\ held' = {}
    OBVIOUS
  <2>2. ReceiveChange
    BY <2>1, OnlyChangeEnds
  <2> QED
    BY <2>1, <2>2, ReceiveChangeStep
<1> QED
  BY <1>1, LegacyExact, PTL DEF Spec, DeletedRingEmpty

-----------------------------------------------------------------------------
(* The transport takes the steps of the abstract channel, and only those.    *)
LEMMA ChannelProcesses ==
  ASSUME LegacyInv, StartEvent
  PROVE  Channel!Process
<1> USE DEF LegacyInv
<1>1. /\ ~busy /\ processed' = Append(processed, curTL)
      /\ UNCHANGED clientVars
  BY DEF StartEvent
<1>2. PICK item \in held : item.tl = curTL
  BY DEF StartEvent, IsCurrent
<1>3. Len(processed) + 1 <= Len(accepted) /\ accepted[Len(processed) + 1] = curTL
  BY <1>1, <1>2, NextHanded
<1> DEFINE n == Len(processed)
<1>4. /\ processed \in Seq(1 .. MaxTime) /\ accepted \in Seq(1 .. MaxTime) /\ n \in Nat
      /\ Len(accepted) \in Nat /\ \A i \in 1 .. n : processed[i] = accepted[i]
      /\ curTL \in 1 .. MaxTime
  <2>1. processed \in Seq(1 .. MaxTime) /\ accepted \in Seq(1 .. MaxTime)
    BY DEF TypeOK
  <2>2. \A i \in DOMAIN processed : processed[i] = accepted[i]
    BY DEF HistoryKept
  <2> QED
    BY <1>2, <2>1, <2>2, HistoryType, CurrentHeld
<1>5. /\ Append(processed, curTL) \in Seq(1 .. MaxTime) /\ Len(Append(processed, curTL)) = n + 1
      /\ Append(processed, curTL)[n + 1] = curTL
      /\ \A i \in 1 .. n : Append(processed, curTL)[i] = processed[i]
  BY <1>4, AppendProperties
<1>6. /\ SubSeq(accepted, 1, n + 1) \in Seq(1 .. MaxTime) /\ Len(SubSeq(accepted, 1, n + 1)) = n + 1
      /\ \A i \in 1 .. n + 1 : SubSeq(accepted, 1, n + 1)[i] = accepted[i]
  <2> HIDE DEF n
  <2>1. n + 1 \in Nat /\ 1 <= n + 2 /\ n + 1 <= Len(accepted)
    BY <1>3, <1>4 DEF n
  <2>a. \A i \in 1 .. n + 1 : accepted[i] \in 1 .. MaxTime
    <3>1. n \in Nat /\ Len(accepted) \in Nat /\ accepted \in Seq(1 .. MaxTime)
      BY <1>4
    <3> SUFFICES ASSUME NEW i \in 1 .. n + 1
                 PROVE  accepted[i] \in 1 .. MaxTime
      OBVIOUS
    <3>2. i \in 1 .. Len(accepted)
      BY <2>1, <3>1
    <3> QED
      BY <3>1, <3>2, ElementOfSeq
  <2>b. 1 \in Int /\ n + 1 \in Int /\ 1 <= n + 1 /\ (n + 1) - 1 + 1 = n + 1
    BY <1>4
  <2>c. /\ SubSeq(accepted, 1, n + 1) \in Seq(1 .. MaxTime)
        /\ Len(SubSeq(accepted, 1, n + 1)) = IF 1 <= n + 1 THEN (n + 1) - 1 + 1 ELSE 0
    BY <2>a, <2>b, SubSeqProperties
  <2>2. /\ SubSeq(accepted, 1, n + 1) \in Seq(1 .. MaxTime)
        /\ Len(SubSeq(accepted, 1, n + 1)) = n + 1
    BY <2>b, <2>c
  <2>3. \A i \in 1 .. n + 1 : SubSeq(accepted, 1, n + 1)[i] = accepted[i]
    BY <1>4, <2>1, SubSeqProperties
  <2> QED
    BY <2>2, <2>3
<1> HIDE DEF n
<1>7. Append(processed, curTL) = SubSeq(accepted, 1, n + 1)
  <2>1. \A i \in 1 .. n + 1 : i \in 1 .. n \/ i = n + 1
    BY <1>4
  <2>2. \A i \in 1 .. n + 1 : Append(processed, curTL)[i] = SubSeq(accepted, 1, n + 1)[i]
    BY <1>3, <1>4, <1>5, <1>6, <2>1 DEF n
  <2> QED
    BY <1>5, <1>6, <2>2, SeqEqual
<1>8. pc # "released"
  <2>1. ~(curTL > MaxTime) /\ ~busy
    BY <1>1, <1>4, SizesAssumption
  <2> QED
    BY <2>1 DEF EndKept
<1>9. processed # accepted
  BY <1>3, <1>4 DEF n
<1> QED
  BY <1>1, <1>7, <1>8, <1>9 DEF Channel!Process, n, clientVars

(* The client is released after the last of the events accepted.             *)
LEMMA ChannelReleases ==
  ASSUME LegacyInv, IsNotifiedFinalized
  PROVE  Channel!Release
<1> USE DEF LegacyInv
<1>1. /\ pc = "wait" /\ win[cur].notify = Finalize /\ pc' = "released"
      /\ UNCHANGED <<accepted, processed>>
  BY DEF IsNotifiedFinalized, serverVars
<1>t. /\ DOMAIN processed = 1 .. Len(processed) /\ DOMAIN accepted = 1 .. Len(accepted)
      /\ Len(processed) \in Nat /\ Len(accepted) \in Nat
      /\ Len(processed) <= Len(accepted)
      /\ processed \in Seq(1 .. MaxTime) /\ accepted \in Seq(1 .. MaxTime)
      /\ curTL \in Nat /\ MaxTime \in Nat /\ nextTL \in 1 .. MaxTime + 1 /\ MaxTime >= 1
  BY HistoryType, SizesAssumption DEF HistoryKept, TypeOK
<1>2. curTL > MaxTime \/ (curTL = MaxTime /\ busy)
  BY <1>1 DEF EndKept, TypeOK
<1>3. \A i \in DOMAIN accepted : i \in DOMAIN processed
  <2>1. SUFFICES ASSUME NEW i \in DOMAIN accepted
                 PROVE  i \in DOMAIN processed
    OBVIOUS
  <2>2. accepted[i] \in 1 .. MaxTime /\ plan[accepted[i]] > 0
    BY HistoryType DEF HistoryKept
  <2>3. Handed(accepted[i])
    BY <1>2, <1>t, <2>2 DEF Handed
  <2>4. PICK j \in DOMAIN processed : processed[j] = accepted[i]
    BY <2>2, <2>3 DEF HistoryKept
  <2>5. j \in DOMAIN accepted /\ accepted[j] = accepted[i] /\ i \in Nat /\ j \in Nat
    BY <1>t, <2>4 DEF HistoryKept
  <2>6. i = j
    <3>1. ~(i < j) /\ ~(j < i)
      BY <2>2, <2>5 DEF HistoryKept
    <3> QED
      BY <2>5, <3>1
  <2> QED
    BY <2>4, <2>6
<1>4. Len(processed) = Len(accepted)
  <2>1. Len(processed) < Len(accepted) =>
          Len(accepted) \in DOMAIN accepted /\ Len(accepted) \notin DOMAIN processed
    BY <1>t
  <2>2. ~(Len(processed) < Len(accepted))
    BY <1>3, <2>1
  <2>3. /\ Len(processed) \in Nat /\ Len(accepted) \in Nat
        /\ Len(processed) <= Len(accepted)
    BY <1>t
  <2>4. \A a, b \in Nat : a <= b /\ ~(a < b) => a = b
    OBVIOUS
  <2> QED
    BY <2>2, <2>3, <2>4
<1>5. processed = accepted
  <2>1. \A i \in 1 .. Len(processed) : processed[i] = accepted[i]
    BY <1>t DEF HistoryKept
  <2> QED
    BY <1>4, <1>t, <2>1, SeqEqual
<1>6. accepted # <<>>
  <2>1. nextTL = MaxTime + 1 /\ plan[MaxTime] > 0 /\ MaxTime \in 1 .. nextTL - 1
    BY <1>1, <1>t DEF EndKept
  <2>2. \E i \in DOMAIN accepted : accepted[i] = MaxTime
    BY <2>1 DEF HistoryKept
  <2> QED
    BY <2>2
<1> QED
  BY <1>1, <1>5, <1>6 DEF Channel!Release

(* What is accepted comes after all that was accepted before.                *)
LEMMA ChannelAccepts ==
  ASSUME LegacyInv, SendEvent
  PROVE  \E t \in 1 .. MaxTime : Channel!Accept(t)
<1> USE DEF LegacyInv
<1>1. /\ pc = "open" /\ nextTL <= MaxTime /\ accepted' = Append(accepted, nextTL)
      /\ pc' \in {"open", "drain"} /\ processed' = processed
  BY DEF SendEvent, Sending, serverVars
<1>2. nextTL \in 1 .. MaxTime
  BY <1>1, SizesAssumption DEF TypeOK
<1>3. \A i \in DOMAIN accepted : accepted[i] < nextTL
  BY DEF HistoryKept
<1>4. Channel!Accept(nextTL)
  BY <1>1, <1>3 DEF Channel!Accept
<1> QED
  BY <1>2, <1>4

(* Every step is one of the abstract channel, or shows it nothing.           *)
LEMMA ChannelStep ==
  ASSUME LegacyInv, [Next]_vars
  PROVE  [Channel!Next]_(Channel!vars)
<1>1. CASE SendEvent
  BY <1>1, ChannelAccepts DEF Channel!Next
<1>2. CASE StartEvent
  BY <1>2, ChannelProcesses DEF Channel!Next
<1>3. CASE IsNotifiedFinalized
  BY <1>3, ChannelReleases DEF Channel!Next
<1>4. CASE HavePendingRequests
  <2>1. pc = "drain" /\ pc' \in {"drain", "wait"} /\ UNCHANGED <<accepted, processed>>
    BY <1>4 DEF HavePendingRequests, serverVars
  <2> QED
    BY <2>1 DEF Channel!vars
<1>5. CASE UNCHANGED <<pc, accepted, processed>>
  BY <1>5 DEF Channel!vars
<1>6. [Next]_vars => \/ SendEvent \/ StartEvent \/ IsNotifiedFinalized \/ HavePendingRequests
                     \/ UNCHANGED <<pc, accepted, processed>>
  BY DEF Next, SkipTimeline, BufferNotFree, OthersNotFree, FixBufferSize, IssueSend,
         TestSend, ResizeBufferNotify, IsNotifiedChangeBufferSize, ResizeBuffer,
         Listen, AcceptProbe, ReceiveEvents, ReceiveNotify, ReceiveChange,
         GetBufferFromClient, EndEvent, OtherEvent, Finished, clientVars, serverVars, vars
<1> QED
  BY <1>1, <1>2, <1>3, <1>4, <1>5, <1>6

(* The legacy transport implements the abstract channel: the events are      *)
(* handed to the context in the order they were accepted, each once, and the *)
(* client releases its buffers after the last (legacy_context_client.cpp:405 *)
(* and 470).  That all are handed over in the end is left to the runs.       *)
THEOREM FollowsTheChannel == Spec => Channel!Init /\ [][Channel!Next]_(Channel!vars)
<1>1. Init => Channel!Init
  BY DEF Init, Channel!Init
<1>2. LegacyInv /\ [Next]_vars => [Channel!Next]_(Channel!vars)
  BY ChannelStep
<1> QED
  BY <1>1, <1>2, LegacyExact, PTL DEF Spec

=============================================================================
