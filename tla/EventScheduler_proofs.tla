------------------------ MODULE EventScheduler_proofs ------------------------
(* For any number of ranks and any events: what a rank is handed is a prefix  *)
(* of the one order, each event of it registered by the rank itself; no count *)
(* of children is left over; and an event is broadcast only when all ranks    *)
(* have announced it (the safety of EventOrder).                              *)
EXTENDS EventScheduler, FiniteSetTheorems, SequenceTheorems, WellFoundedInduction, TLAPS

-----------------------------------------------------------------------------
(* The shape of the tree.                                                     *)

(* Rank r begins its branch at level l: it stands there in the tree.          *)
Node(r, l) == r \in Ranks /\ l \in 0 .. Level[r] /\ span[r][l].begin = r

(* A node with children.                                                      *)
Inner(r, l) == Node(r, l) /\ l < Level[r]

Branch(r, l) == {s \in Ranks : Holds(span[r][l], s)}

TreeShape ==
  /\ Level \in [Ranks -> 1 .. N]
  /\ Node(0, 0) /\ Branch(0, 0) = Ranks
  /\ \A r \in Ranks : Node(r, 0) => r = 0
  /\ \A r \in Ranks : Node(r, Level[r]) /\ Branch(r, Level[r]) = {r}
  /\ \A r \in Ranks : \A l \in 1 .. Level[r] : Node(r, l) =>
       /\ Inner(Parent[r][l], l - 1)
       /\ r \in Child[Parent[r][l]][l - 1]
  /\ \A r \in Ranks : \A l \in 0 .. N : Inner(r, l) =>
       /\ Child[r][l] \in SUBSET Ranks
       /\ NbChild[r][l] = Cardinality(Child[r][l])
       /\ \A c \in Child[r][l] : /\ Node(c, l + 1) /\ Parent[c][l + 1] = r
                                 /\ Branch(c, l + 1) \subseteq Branch(r, l)
       /\ \A s \in Branch(r, l) : \E c \in Child[r][l] : s \in Branch(c, l + 1)
  /\ \A r, c \in Ranks : \A l \in 0 .. N :
       Node(r, l) => /\ r \in Branch(r, l)
                     /\ Node(c, l) /\ c \in Branch(r, l) => c = r

-----------------------------------------------------------------------------
(* The announcements on their way up.                                         *)

(* How many announcements of e the node (r, l) has had or is about to have.   *)
Counted(r, l, e) == up[r][<<e, l>>] + recvEvent[r][<<e, l>>]

ChildrenAhead(r, l, e) == {c \in Child[r][l] : e \in ahead[c][l + 1]}

(* Only nodes with children are sent announcements, or keep counts of them.   *)
KeysRight ==
  /\ up \in [Ranks -> [Keys -> Nat]] /\ recvEvent \in [Ranks -> [Keys -> Nat]]
  /\ \A r \in Ranks : \A m \in Keys : up[r][m] + recvEvent[r][m] > 0 => Inner(r, m[2])

(* A node that has announced an event has counted all its children and        *)
(* forgotten them; one that has not counts exactly those that have.           *)
CountsRight ==
  \A r \in Ranks, l \in 0 .. N, e \in Events :
    Inner(r, l) =>
      /\ Counted(r, l, e) = IF e \in ahead[r][l] THEN 0
                            ELSE Cardinality(ChildrenAhead(r, l, e))
      /\ recvEvent[r][<<e, l>>] < NbChild[r][l]

(* Whoever stands below a node that has announced an event has announced it.  *)
AheadBelow ==
  /\ ahead \in [Ranks -> [0 .. N -> SUBSET Events]]
  /\ ahead[0][0] = {}
  /\ \A r, c \in Ranks, l, k \in 0 .. N :
       Node(r, l) /\ Node(c, k) /\ l <= k /\ c \in Branch(r, l) =>
         ahead[r][l] \subseteq ahead[c][k]

(* A rank waits for what it has announced and for what the root has           *)
(* broadcast and it has not popped, each event once.                          *)
Ahead(r) == ahead[r][Level[r]]
Due(r) == popped[r] + 1 .. Len(order)
WaitingRight ==
  \A r \in Ranks :
    /\ \A e \in Events : e \in waiting[r] <=> e \in Ahead(r) \/ \E i \in Due(r) : order[i] = e
    /\ \A i \in Due(r) : order[i] \notin Ahead(r)
    /\ \A i, j \in Due(r) : order[i] = order[j] => i = j
    /\ \A e \in Events : registered[r][e] = Times(e) + (IF e \in Ahead(r) THEN 1 ELSE 0)

-----------------------------------------------------------------------------
(* The events on their way down.                                              *)

(* What the node (r, l) has had is a prefix of the order; at its last level a *)
(* rank has it on its stack or has popped it.                                 *)
GotRight ==
  /\ got \in [Ranks -> [0 .. N -> Nat]]
  /\ got[0][0] = Len(order)
  /\ \A r \in Ranks, l \in 0 .. N : Node(r, l) => got[r][l] <= Len(order)
  /\ \A r \in Ranks, l \in 0 .. N : Node(r, l) /\ l # 0 => got[r][l] <= got[Parent[r][l]][l - 1]
  /\ \A r \in Ranks : /\ got[r][Level[r]] = popped[r] + Len(stack[r])
                      /\ \A i \in 1 .. Len(stack[r]) : stack[r][i] = order[popped[r] + i]

(* The places of the order on their way to the node (r, l) from its parent.   *)
OnTheWay(r, l) == got[r][l] + 1 .. got[Parent[r][l]][l - 1]

(* The messages to a node are exactly those, in order.                        *)
RightMessage(s, r, m) ==
  /\ m = <<order[m[3]], m[2], m[3]>>
  /\ m[2] \in 1 .. Level[r] /\ Node(r, m[2]) /\ Parent[r][m[2]] = s
  /\ m[3] \in OnTheWay(r, m[2])
Channels ==
  /\ \A s, r \in Ranks : down[s][r] \in Seq(Events \X (1 .. N) \X Nat)
  /\ \A s, r \in Ranks : \A i \in 1 .. Len(down[s][r]) : RightMessage(s, r, down[s][r][i])
  /\ \A s, r \in Ranks : \A i, j \in 1 .. Len(down[s][r]) :
       i < j /\ down[s][r][i][2] = down[s][r][j][2] => down[s][r][i][3] < down[s][r][j][3]
  /\ \A r \in Ranks, l \in 1 .. N : Node(r, l) => \A n \in OnTheWay(r, l) :
       \E i \in 1 .. Len(down[Parent[r][l]][r]) :
         down[Parent[r][l]][r][i] = <<order[n], l, n>>

-----------------------------------------------------------------------------
(* The inductive invariant.                                                   *)
Kinds ==
  /\ tree = Tree
  /\ registered \in [Ranks -> [Events -> 0 .. Rounds]]
  /\ waiting \in [Ranks -> SUBSET Events]
  /\ stack \in [Ranks -> Seq(Events)]
  /\ order \in Seq(Events)
  /\ popped \in [Ranks -> Nat]
  /\ down \in [Ranks -> [Ranks -> Seq(Events \X (1 .. N) \X Nat)]]

SchedulerInv ==
  Kinds /\ KeysRight /\ CountsRight /\ AheadBelow /\ WaitingRight /\ GotRight /\ Channels

-----------------------------------------------------------------------------
(* The tree that initialize builds has this shape, for any number of ranks.   *)

(* A nonempty set of naturals has a least element.                            *)
LEMMA Least ==
  ASSUME NEW T, T \subseteq Nat, T # {}
  PROVE  \E x \in T : \A y \in T : x <= y
<1>1. PICK n \in T : TRUE
  OBVIOUS
<1> DEFINE S == 0 .. n
           W == {0 .. x : x \in T \cap S}
<1>2. IsFiniteSet(S)
  BY <1>1, FS_Interval
<1>3. IsWellFoundedOn(StrictSubsetOrdering(S), FiniteSubsetsOf(S))
  <2> HIDE DEF S
  <2> QED BY FS_StrictSubsetOrderingWellFounded
<1>4. W \subseteq FiniteSubsetsOf(S)
  <2> SUFFICES ASSUME NEW x \in T \cap S PROVE 0 .. x \in SUBSET S /\ IsFiniteSet(0 .. x)
    BY DEF FiniteSubsetsOf
  <2>1. x \in Int /\ 0 \in Int /\ 0 .. x \in SUBSET S
    BY <1>1
  <2>2. QED BY <2>1, FS_Interval
<1>5. 0 .. n \in W
  BY <1>1
<1>6. PICK m \in W : \A w \in W : ~ (<<w, m>> \in StrictSubsetOrdering(S))
  <2> HIDE DEF W, S
  <2>1. W # {}
    BY <1>5
  <2> DEFINE R == StrictSubsetOrdering(S)
             F == FiniteSubsetsOf(S)
  <2>2. IsWellFoundedOn(R, F) /\ W \subseteq F
    BY <1>3, <1>4
  <2> HIDE DEF R, F
  <2>3. \E x \in W : \A y \in W : ~ (<<y, x>> \in R)
    BY <2>1, <2>2, WFMin
  <2> QED BY <2>3 DEF R
<1>7. PICK x \in T \cap S : m = 0 .. x
  OBVIOUS
<1>8. ASSUME NEW y \in T PROVE x <= y
  <2>1. SUFFICES ASSUME y < x PROVE FALSE
    BY <1>7
  <2>2. 0 .. y \in W
    BY <2>1, <1>7
  <2>3. 0 .. y \in SUBSET S /\ 0 .. x \in SUBSET S /\ 0 .. y \subseteq 0 .. x /\ x \in 0 .. x /\ x \notin 0 .. y
    BY <2>1, <1>7
  <2>4. <<0 .. y, m>> \in StrictSubsetOrdering(S)
    BY <2>3, <1>7 DEF StrictSubsetOrdering
  <2> QED BY <1>6, <2>2, <2>4
<1>9. QED BY <1>7, <1>8

(* The division of naturals.                                                  *)
LEMMA Divided ==
  ASSUME NEW n \in Nat, NEW m \in Nat \ {0}
  PROVE  /\ n \div m \in Nat /\ n % m \in Nat /\ n % m < m
         /\ n = m * (n \div m) + (n % m)
OBVIOUS

(* A function from x, each value of which is a step from the one before.      *)
Iteration(D, x, st, n) ==
  \E f \in [0 .. n -> D] : f[0] = x /\ \A i \in 1 .. n : f[i] = st[f[i - 1]]

(* Such a function exists whatever the set and the step.                      *)
LEMMA Iterated ==
  ASSUME NEW D, NEW x \in D, NEW st \in [D -> D], NEW n \in Nat
  PROVE  Iteration(D, x, st, n)
<1> DEFINE Good(k) == \E f \in [0 .. k -> D] : f[0] = x /\ \A i \in 1 .. k : f[i] = st[f[i - 1]]
           T == {k \in Nat : ~ Good(k)}
<1>1. SUFFICES ASSUME T # {} PROVE FALSE
  BY DEF Iteration
<1>2. T \subseteq Nat
  OBVIOUS
<1>3. PICK t \in T : \A y \in T : t <= y
  <2> HIDE DEF T
  <2> QED BY <1>1, <1>2, Least
<1>4. Good(0)
  <2> WITNESS [i \in 0 .. 0 |-> x] \in [0 .. 0 -> D]
  <2> QED OBVIOUS
<1>5. t \in Nat /\ t # 0 /\ t - 1 \in Nat /\ t - 1 < t
  BY <1>4
<1>6. Good(t - 1)
  <2>1. ~ (t <= t - 1)
    BY <1>5
  <2>2. t - 1 \notin T
    <3> HIDE DEF T
    <3> QED BY <1>3, <2>1
  <2> QED BY <1>5, <2>2
<1>7. PICK g \in [0 .. t - 1 -> D] : g[0] = x /\ \A i \in 1 .. t - 1 : g[i] = st[g[i - 1]]
  BY <1>6
<1>8. Good(t)
  <2> DEFINE h == [i \in 0 .. t |-> IF i = t THEN st[g[t - 1]] ELSE g[i]]
  <2>1. \A i \in 0 .. t : i # t => i \in 0 .. t - 1
    BY <1>5
  <2>2. t - 1 \in 0 .. t - 1
    BY <1>5
  <2>3. h \in [0 .. t -> D]
    BY <2>1, <2>2
  <2>4. h[0] = x
    BY <1>5, <1>7
  <2>5. ASSUME NEW i \in 1 .. t PROVE h[i] = st[h[i - 1]]
    <3>1. i \in 0 .. t /\ i - 1 \in 0 .. t /\ i - 1 # t
      BY <1>5
    <3>2. h[i - 1] = g[i - 1]
      BY <3>1
    <3>3. CASE i = t
      BY <3>1, <3>2, <3>3
    <3>4. CASE i # t
      <4>1. i \in 1 .. t - 1
        BY <1>5, <3>4
      <4> QED BY <1>7, <3>1, <3>2, <3>4, <4>1
    <3> QED BY <3>3, <3>4
  <2> HIDE DEF h
  <2> QED BY <2>3, <2>4, <2>5
<1>9. QED BY <1>3, <1>8 DEF Iteration

(* The power of the loop: at least its base.                                  *)
LEMMA PowerCovers ==
  ASSUME NEW c \in Nat \ {0}
  PROVE  Power(c) \in Nat /\ Power(c) >= c
<1> DEFINE Pos == Nat \ {0}
           st == [d \in Pos |-> d * c]
           Is(f) == f = [i \in 0 .. c |-> IF i = 0 THEN 1 ELSE f[i - 1] * c]
           m == CHOOSE f : Is(f)
<1>1. \A d \in Pos : d * c \in Pos /\ d * c >= c
  OBVIOUS
<1>2. \E f : Is(f)
  <2>1. st \in [Pos -> Pos] /\ 1 \in Pos /\ c \in Nat
    BY <1>1
  <2> HIDE DEF Pos, st
  <2>2. PICK f \in [0 .. c -> Pos] : f[0] = 1 /\ \A i \in 1 .. c : f[i] = st[f[i - 1]]
    <3>1. Iteration(Pos, 1, st, c)
      BY <2>1, Iterated
    <3> QED BY <3>1 DEF Iteration
  <2>3. ASSUME NEW i \in 0 .. c PROVE f[i] = IF i = 0 THEN 1 ELSE f[i - 1] * c
    <3>1. CASE i = 0
      BY <2>2, <3>1
    <3>2. CASE i # 0
      <4>1. i \in 1 .. c /\ i - 1 \in 0 .. c
        BY <3>2
      <4>2. f[i - 1] \in Pos
        BY <4>1
      <4> QED BY <2>2, <3>2, <4>1, <4>2 DEF st
    <3> QED BY <3>1, <3>2
  <2>4. Is(f)
    BY <2>3
  <2> QED BY <2>4
<1>3. Is(m)
  BY <1>2
<1>4. Power(c) = m[c]
  BY DEF Power
<1> HIDE DEF m
<1>5. m[0] = 1 /\ \A i \in 1 .. c : m[i] = m[i - 1] * c
  BY <1>3
<1>6. \A i \in 0 .. c : m[i] \in Pos
  <2> DEFINE T == {i \in 0 .. c : m[i] \notin Pos}
  <2>1. SUFFICES ASSUME T # {} PROVE FALSE
    OBVIOUS
  <2>2. T \subseteq Nat
    OBVIOUS
  <2>3. PICK t \in T : \A y \in T : t <= y
    <3> HIDE DEF T
    <3> QED BY <2>1, <2>2, Least
  <2>4. t \in 0 .. c /\ m[t] \notin Pos
    OBVIOUS
  <2>5. t # 0
    BY <1>5, <2>4
  <2>6. t - 1 \in 0 .. c /\ t \in 1 .. c /\ ~ (t <= t - 1)
    BY <2>4, <2>5
  <2>7. m[t - 1] \in Pos
    BY <2>3, <2>6
  <2>8. m[t] = m[t - 1] * c
    BY <1>5, <2>6
  <2> HIDE DEF Pos
  <2> QED BY <1>1, <2>4, <2>7, <2>8
<1>7. c \in 1 .. c /\ c - 1 \in 0 .. c
  OBVIOUS
<1>8. m[c] = m[c - 1] * c /\ m[c - 1] \in Pos
  BY <1>5, <1>6, <1>7
<1>9. QED BY <1>1, <1>4, <1>8

(* The fan-out is at least 2.                                                 *)
LEMMA FanOut == maxChild \in Nat /\ maxChild >= 2
<1> DEFINE T == {c \in 2 .. N + 1 : Power(c) >= N}
<1>1. N + 1 \in T
  <2>1. Power(N + 1) \in Nat /\ Power(N + 1) >= N + 1
    BY SchedulerAssumption, PowerCovers
  <2> QED BY <2>1, SchedulerAssumption
<1>2. T \subseteq Nat
  BY SchedulerAssumption
<1>3. PICK t \in T : \A y \in T : t <= y
  <2> HIDE DEF T
  <2> QED BY <1>1, <1>2, Least
<1>4. t \in 2 .. N + 1 /\ Power(t) >= N
  OBVIOUS
<1>5. \A d \in 2 .. t - 1 : Power(d) < N
  <2> SUFFICES ASSUME NEW d \in 2 .. t - 1 PROVE Power(d) < N
    OBVIOUS
  <2>1. d \in 2 .. N + 1 /\ ~ (t <= d) /\ d \in Nat \ {0}
    BY <1>4, SchedulerAssumption
  <2>2. d \notin T
    BY <1>3, <2>1
  <2>3. Power(d) \in Nat
    BY <2>1, PowerCovers
  <2> QED BY <2>1, <2>2, <2>3, SchedulerAssumption
<1>6. maxChild \in 2 .. N + 1
  BY <1>4, <1>5 DEF maxChild
<1>7. QED BY <1>6, SchedulerAssumption

(* The number of parts, where a part begins and how much it holds.            *)
NbParts(nb) == IF nb < maxChild THEN nb ELSE maxChild
Start(begin, nb, i) == begin + i * (nb \div maxChild) + (IF i < nb % maxChild THEN i ELSE nb % maxChild)
Size(nb, i) == nb \div maxChild + (IF i < nb % maxChild THEN 1 ELSE 0)

(* The parts follow one another, from the first rank to the last.             *)
LEMMA PartEnds ==
  ASSUME NEW begin \in Nat, NEW nb \in Nat \ {0}
  PROVE  /\ NbParts(nb) \in Nat \ {0} /\ Start(begin, nb, 0) = begin
         /\ Start(begin, nb, NbParts(nb)) = begin + nb
         /\ \A i \in Nat : /\ Start(begin, nb, i) \in Nat /\ Size(nb, i) \in Nat
                           /\ Start(begin, nb, i + 1) = Start(begin, nb, i) + Size(nb, i)
         /\ \A i \in 0 .. NbParts(nb) - 1 :
              Size(nb, i) >= 1 /\ (nb > 1 => Size(nb, i) < nb) /\ (nb = 1 => Size(nb, i) = 1)
<1>1. PICK q, m, c : q = nb \div maxChild /\ m = nb % maxChild /\ c = maxChild
  OBVIOUS
<1>2. /\ q \in Nat /\ m \in Nat /\ c \in Nat /\ c >= 2 /\ m < c
      /\ nb = c * q + m
  BY <1>1, FanOut, Divided
<1>3. CASE nb < c
  <2>1. q = 0 /\ m = nb
    <3>1. SUFFICES ASSUME q >= 1 PROVE FALSE
      BY <1>2
    <3>2. c * q >= c
      BY <1>2, <3>1
    <3> QED BY <1>2, <1>3, <3>2
  <2>2. NbParts(nb) = nb
    BY <1>1, <1>3 DEF NbParts
  <2>3. \A i \in Nat : i * q = 0 /\ (i + 1) * q = 0
    BY <2>1
  <2>4. \A i \in Nat : /\ Start(begin, nb, i) = begin + (IF i < nb THEN i ELSE nb)
                       /\ Size(nb, i) = IF i < nb THEN 1 ELSE 0
    BY <1>1, <2>1, <2>3 DEF Start, Size
  <2> QED BY <2>2, <2>4
<1>4. CASE nb >= c
  <2>1. q >= 1
    <3>1. SUFFICES ASSUME q = 0 PROVE FALSE
      BY <1>2
    <3>2. c * q = 0
      BY <1>2, <3>1
    <3> QED BY <1>2, <1>4, <3>2
  <2>2. NbParts(nb) = c
    BY <1>1, <1>2, <1>4 DEF NbParts
  <2>3. \A i \in Nat : i * q \in Nat /\ (i + 1) * q = i * q + q
    BY <1>2
  <2>4. \A i \in Nat : /\ Start(begin, nb, i) = begin + i * q + (IF i < m THEN i ELSE m)
                       /\ Size(nb, i) = q + (IF i < m THEN 1 ELSE 0)
    BY <1>1 DEF Start, Size
  <2>5. Start(begin, nb, 0) = begin
    <3>1. 0 * q = 0
      BY <1>2
    <3>2. PICK z \in Nat : z = 0
      OBVIOUS
    <3>3. Start(begin, nb, z) = begin + z * q + (IF z < m THEN z ELSE m)
      BY <2>4
    <3>4. (IF z < m THEN z ELSE m) = 0
      BY <1>2, <3>2
    <3> QED BY <3>1, <3>2, <3>3, <3>4
  <2>6. Start(begin, nb, c) = begin + nb
    BY <1>2, <2>3, <2>4
  <2>7. ASSUME NEW i \in Nat
        PROVE  /\ Start(begin, nb, i) \in Nat /\ Size(nb, i) \in Nat
               /\ Start(begin, nb, i + 1) = Start(begin, nb, i) + Size(nb, i)
    <3>1. PICK a : a = i * q
      OBVIOUS
    <3>2. a \in Nat /\ (i + 1) * q = a + q
      BY <2>3, <3>1
    <3>3. /\ Start(begin, nb, i) = begin + a + (IF i < m THEN i ELSE m)
          /\ Start(begin, nb, i + 1) = begin + (a + q) + (IF i + 1 < m THEN i + 1 ELSE m)
          /\ Size(nb, i) = q + (IF i < m THEN 1 ELSE 0)
      BY <2>4, <3>1, <3>2
    <3> QED BY <1>2, <3>2, <3>3
  <2>8. ASSUME NEW i \in 0 .. c - 1
        PROVE  Size(nb, i) >= 1 /\ (nb > 1 => Size(nb, i) < nb) /\ (nb = 1 => Size(nb, i) = 1)
    <3>1. Size(nb, i) = q + (IF i < m THEN 1 ELSE 0)
      BY <1>2, <2>4
    <3>2. c * q >= q + q
      BY <1>2, <2>1
    <3>3. nb >= q + q + m
      BY <1>2, <3>2
    <3> QED BY <1>2, <1>4, <2>1, <3>1, <3>3
  <2> QED BY <1>2, <2>2, <2>5, <2>6, <2>7, <2>8
<1>5. QED BY <1>2, <1>3, <1>4

(* A later part begins later.                                                 *)
LEMMA StartsRise ==
  ASSUME NEW begin \in Nat, NEW nb \in Nat \ {0}, NEW i \in Nat, NEW j \in Nat, i <= j
  PROVE  Start(begin, nb, i) <= Start(begin, nb, j)
<1> DEFINE S(k) == Start(begin, nb, k)
           T == {k \in Nat : i <= k /\ ~ (S(i) <= S(k))}
<1>1. \A k \in Nat : S(k) \in Nat /\ S(k + 1) >= S(k)
  BY PartEnds, SMTT(30)
<1> HIDE DEF S
<1>2. SUFFICES ASSUME T # {} PROVE FALSE
  BY DEF S
<1>3. T \subseteq Nat
  OBVIOUS
<1>4. PICK t \in T : \A y \in T : t <= y
  <2> HIDE DEF T
  <2> QED BY <1>2, <1>3, Least
<1>5. t \in Nat /\ i <= t /\ ~ (S(i) <= S(t))
  OBVIOUS
<1>6. t # i
  BY <1>1, <1>5
<1>7. t - 1 \in Nat /\ i <= t - 1 /\ ~ (t <= t - 1) /\ t - 1 + 1 = t
  BY <1>5, <1>6
<1>8. S(i) <= S(t - 1)
  BY <1>4, <1>7
<1>9. PICK u \in Nat : u = t - 1
  BY <1>7
<1>10. S(u) \in Nat /\ S(u + 1) >= S(u) /\ S(u + 1) \in Nat /\ S(i) \in Nat
  BY <1>1
<1>11. QED BY <1>5, <1>7, <1>8, <1>9, <1>10

(* A part is one of the intervals.                                            *)
LEMMA PartFacts ==
  ASSUME NEW begin \in Nat, NEW nb \in Nat \ {0}
  PROVE  /\ \A i : Part(begin, nb, i) = [begin |-> Start(begin, nb, i), nb |-> Size(nb, i)]
         /\ Parts(begin, nb) = {Part(begin, nb, i) : i \in 0 .. NbParts(nb) - 1}
BY DEF Part, Parts, Start, Size, NbParts

(* The parts of a branch are smaller branches within it, of which each of its *)
(* ranks has exactly one.                                                     *)
Within(p, begin, nb) ==
  /\ p \in [begin : Nat, nb : Nat \ {0}]
  /\ begin <= p.begin /\ p.begin + p.nb <= begin + nb
  /\ (nb > 1 => p.nb < nb) /\ (nb = 1 => p.nb = 1)

(* Each part lies within its branch.                                          *)
LEMMA PartWithin ==
  ASSUME NEW begin \in Nat, NEW nb \in Nat \ {0}, NEW p \in Parts(begin, nb)
  PROVE  Within(p, begin, nb)
<1>1. PICK i \in 0 .. NbParts(nb) - 1 : p = [begin |-> Start(begin, nb, i), nb |-> Size(nb, i)]
  BY PartFacts
<1>2. NbParts(nb) \in Nat \ {0} /\ i \in Nat /\ i + 1 \in Nat /\ 0 \in Nat /\ 0 <= i /\ i + 1 <= NbParts(nb)
  BY PartEnds
<1>3. /\ Start(begin, nb, 0) = begin /\ Start(begin, nb, NbParts(nb)) = begin + nb
      /\ Start(begin, nb, i) \in Nat /\ Size(nb, i) \in Nat
      /\ Start(begin, nb, i + 1) = Start(begin, nb, i) + Size(nb, i)
      /\ Size(nb, i) >= 1 /\ (nb > 1 => Size(nb, i) < nb) /\ (nb = 1 => Size(nb, i) = 1)
  BY <1>2, PartEnds
<1>4. Start(begin, nb, 0) <= Start(begin, nb, i)
  BY <1>2, StartsRise
<1>5. PICK j : j = i + 1
  OBVIOUS
<1>6. Start(begin, nb, j) <= Start(begin, nb, NbParts(nb))
  BY <1>2, <1>5, StartsRise
<1>7. QED BY <1>1, <1>3, <1>4, <1>5, <1>6 DEF Within

(* Each rank of the branch is in a part.                                      *)
LEMMA SomePart ==
  ASSUME NEW begin \in Nat, NEW nb \in Nat \ {0}, NEW s \in Nat, begin <= s, s < begin + nb
  PROVE  \E p \in Parts(begin, nb) : Holds(p, s)
<1> DEFINE T == {k \in 0 .. NbParts(nb) : s < Start(begin, nb, k)}
<1>1. NbParts(nb) \in Nat \ {0} /\ Start(begin, nb, 0) = begin /\ Start(begin, nb, NbParts(nb)) = begin + nb
  BY PartEnds
<1>2. NbParts(nb) \in T /\ T \subseteq Nat
  BY <1>1
<1>3. PICK t \in T : \A y \in T : t <= y
  <2> HIDE DEF T
  <2> QED BY <1>2, Least
<1>4. t \in 0 .. NbParts(nb) /\ s < Start(begin, nb, t)
  OBVIOUS
<1>5. t # 0
  BY <1>1, <1>4
<1>6. PICK i \in 0 .. NbParts(nb) - 1 : i = t - 1
  BY <1>1, <1>4, <1>5
<1>7. i \in Nat /\ i \in 0 .. NbParts(nb) /\ ~ (t <= i) /\ t = i + 1
  BY <1>1, <1>4, <1>6
<1>8. ~ (s < Start(begin, nb, i))
  BY <1>3, <1>7
<1>9. /\ Start(begin, nb, i) \in Nat /\ Size(nb, i) \in Nat
      /\ Start(begin, nb, i + 1) = Start(begin, nb, i) + Size(nb, i)
  BY <1>7, PartEnds
<1>10. /\ Part(begin, nb, i) \in Parts(begin, nb)
       /\ Part(begin, nb, i) = [begin |-> Start(begin, nb, i), nb |-> Size(nb, i)]
  BY PartFacts
<1>11. Holds(Part(begin, nb, i), s)
  BY <1>4, <1>7, <1>8, <1>9, <1>10 DEF Holds
<1>12. QED BY <1>10, <1>11

(* And in no other.                                                           *)
LEMMA OnePart ==
  ASSUME NEW begin \in Nat, NEW nb \in Nat \ {0}, NEW s \in Nat,
         NEW p \in Parts(begin, nb), NEW q \in Parts(begin, nb), Holds(p, s), Holds(q, s)
  PROVE  p = q
<1>1. PICK i \in 0 .. NbParts(nb) - 1 : p = [begin |-> Start(begin, nb, i), nb |-> Size(nb, i)]
  BY PartFacts
<1>2. PICK j \in 0 .. NbParts(nb) - 1 : q = [begin |-> Start(begin, nb, j), nb |-> Size(nb, j)]
  BY PartFacts
<1>3. NbParts(nb) \in Nat \ {0} /\ i \in Nat /\ j \in Nat /\ i + 1 \in Nat /\ j + 1 \in Nat
  BY PartEnds
<1>4. \A k \in Nat : /\ Start(begin, nb, k) \in Nat /\ Size(nb, k) \in Nat
                     /\ Start(begin, nb, k + 1) = Start(begin, nb, k) + Size(nb, k)
  BY PartEnds
<1>5. /\ Start(begin, nb, i) <= s /\ s < Start(begin, nb, i + 1)
      /\ Start(begin, nb, j) <= s /\ s < Start(begin, nb, j + 1)
  BY <1>1, <1>2, <1>3, <1>4 DEF Holds
<1>6. ASSUME i < j PROVE FALSE
  <2>1. PICK k \in Nat : k = i + 1
    BY <1>3
  <2>2. Start(begin, nb, k) <= Start(begin, nb, j)
    BY <1>3, <1>6, <2>1, StartsRise
  <2>3. Start(begin, nb, k) \in Nat /\ Start(begin, nb, j) \in Nat
    BY <1>3, <1>4
  <2> QED BY <1>5, <2>1, <2>2, <2>3
<1>7. ASSUME j < i PROVE FALSE
  <2>1. PICK k \in Nat : k = j + 1
    BY <1>3
  <2>2. Start(begin, nb, k) <= Start(begin, nb, i)
    BY <1>3, <1>7, <2>1, StartsRise
  <2>3. Start(begin, nb, k) \in Nat /\ Start(begin, nb, i) \in Nat
    BY <1>3, <1>4
  <2> QED BY <1>5, <2>1, <2>2, <2>3
<1>8. i = j
  BY <1>3, <1>6, <1>7
<1>9. QED BY <1>1, <1>2, <1>8

(* The part of a branch that has rank r.                                      *)
PartOf(d, r) == CHOOSE p \in Parts(d.begin, d.nb) : Holds(p, r)

(* The branches of a rank: each is the part of the one before that has it.    *)
LEMMA SpanSteps ==
  ASSUME NEW r \in Ranks
  PROVE  /\ span[r][0] = [begin |-> 0, nb |-> N]
         /\ \A l \in 1 .. N : span[r][l] = PartOf(span[r][l - 1], r)
<1> DEFINE D == {d \in [begin : Nat, nb : Nat \ {0}] : Holds(d, r)}
           st == [d \in D |-> PartOf(d, r)]
           Is(f) == f = [l \in 0 .. N |-> IF l = 0 THEN [begin |-> 0, nb |-> N]
                                          ELSE PartOf(f[l - 1], r)]
           m == CHOOSE f : Is(f)
<1>1. [begin |-> 0, nb |-> N] \in D
  BY SchedulerAssumption DEF Ranks, Holds
<1>2. ASSUME NEW d \in D PROVE PartOf(d, r) \in D
  <2>1. /\ d.begin \in Nat /\ d.nb \in Nat \ {0} /\ r \in Nat
        /\ d.begin <= r /\ r < d.begin + d.nb
    BY SchedulerAssumption DEF Holds, Ranks
  <2>2. \E p \in Parts(d.begin, d.nb) : Holds(p, r)
    BY <2>1, SomePart
  <2>3. PartOf(d, r) \in Parts(d.begin, d.nb) /\ Holds(PartOf(d, r), r)
    BY <2>2 DEF PartOf
  <2>4. Within(PartOf(d, r), d.begin, d.nb)
    BY <2>1, <2>3, PartWithin
  <2> QED BY <2>3, <2>4 DEF Within
<1>3. \E f : Is(f)
  <2>1. st \in [D -> D] /\ N \in Nat
    BY <1>2, SchedulerAssumption
  <2> HIDE DEF D, st
  <2>2. Iteration(D, [begin |-> 0, nb |-> N], st, N)
    BY <1>1, <2>1, Iterated
  <2>3. PICK f \in [0 .. N -> D] : /\ f[0] = [begin |-> 0, nb |-> N]
                                   /\ \A l \in 1 .. N : f[l] = st[f[l - 1]]
    BY <2>2 DEF Iteration
  <2>4. ASSUME NEW l \in 0 .. N
        PROVE  f[l] = IF l = 0 THEN [begin |-> 0, nb |-> N] ELSE PartOf(f[l - 1], r)
    <3>1. CASE l = 0
      BY <2>3, <3>1
    <3>2. CASE l # 0
      <4>1. l \in 1 .. N /\ l - 1 \in 0 .. N
        BY <3>2, SchedulerAssumption
      <4>2. f[l - 1] \in D
        BY <4>1
      <4> QED BY <2>3, <3>2, <4>1, <4>2 DEF st
    <3> QED BY <3>1, <3>2
  <2>5. Is(f)
    BY <2>4
  <2> QED BY <2>5
<1>4. Is(m)
  BY <1>3
<1>5. span[r] = m
  BY DEF span, PartOf
<1> HIDE DEF m
<1>6. /\ m[0] = [begin |-> 0, nb |-> N]
      /\ \A l \in 1 .. N : m[l] = PartOf(m[l - 1], r)
  <2>1. 0 \in 0 .. N /\ \A l \in 1 .. N : l \in 0 .. N /\ l # 0
    BY SchedulerAssumption
  <2> QED BY <1>4, <2>1
<1>7. QED BY <1>5, <1>6

(* The branch of a rank at a level: it has the rank, lies within the ranks,   *)
(* and is the rank alone or smaller than the one before.                      *)
Spans(r, l) ==
  /\ span[r][l] \in [begin : Nat, nb : Nat \ {0}]
  /\ Holds(span[r][l], r)
  /\ span[r][l].begin + span[r][l].nb <= N
  /\ span[r][l].nb = 1 \/ span[r][l].nb + l <= N

(* From one level to the next.                                                *)
LEMMA NextSpan ==
  ASSUME NEW r \in Ranks, NEW l \in 1 .. N, Spans(r, l - 1)
  PROVE  /\ Spans(r, l) /\ span[r][l] \in Parts(span[r][l - 1].begin, span[r][l - 1].nb)
         /\ Within(span[r][l], span[r][l - 1].begin, span[r][l - 1].nb)
<1>1. PICK d, b, n, p : d = span[r][l - 1] /\ b = d.begin /\ n = d.nb /\ p = span[r][l]
  OBVIOUS
<1>2. /\ b \in Nat /\ n \in Nat \ {0} /\ r \in Nat /\ b <= r /\ r < b + n
      /\ b + n <= N /\ (n = 1 \/ n + (l - 1) <= N)
  BY <1>1, SchedulerAssumption DEF Spans, Holds, Ranks
<1>3. p = PartOf(d, r)
  BY <1>1, SpanSteps
<1>4. p \in Parts(b, n) /\ Holds(p, r)
  <2>1. \E q \in Parts(b, n) : Holds(q, r)
    BY <1>2, SomePart
  <2> QED BY <1>1, <1>3, <2>1 DEF PartOf
<1>5. Within(p, b, n)
  BY <1>2, <1>4, PartWithin
<1>6. /\ p \in [begin : Nat, nb : Nat \ {0}] /\ p.begin + p.nb <= b + n
      /\ (n > 1 => p.nb < n) /\ (n = 1 => p.nb = 1)
  BY <1>5 DEF Within
<1>7. p.begin + p.nb <= N /\ (p.nb = 1 \/ p.nb + l <= N)
  BY <1>2, <1>6, SchedulerAssumption
<1>8. QED BY <1>1, <1>4, <1>5, <1>6, <1>7 DEF Spans

(* At every level.                                                            *)
LEMMA AllSpans ==
  ASSUME NEW r \in Ranks, NEW l \in 0 .. N
  PROVE  Spans(r, l)
<1> DEFINE T == {k \in 0 .. N : ~ Spans(r, k)}
<1>1. SUFFICES ASSUME T # {} PROVE FALSE
  OBVIOUS
<1>2. T \subseteq Nat
  BY SchedulerAssumption
<1>3. PICK t \in T : \A y \in T : t <= y
  <2> HIDE DEF T
  <2> QED BY <1>1, <1>2, Least
<1>4. t \in 0 .. N /\ ~ Spans(r, t)
  OBVIOUS
<1>5. t # 0
  <2>1. Spans(r, 0)
    BY SpanSteps, SchedulerAssumption DEF Spans, Holds, Ranks
  <2> QED BY <1>4, <2>1
<1>6. t \in 1 .. N /\ t - 1 \in 0 .. N /\ ~ (t <= t - 1)
  BY <1>4, <1>5, SchedulerAssumption
<1>7. Spans(r, t - 1)
  BY <1>3, <1>6
<1>8. QED BY <1>4, <1>6, <1>7, NextSpan

(* The ranks of a branch share it.                                            *)
Shared(r, s, l) == Holds(span[r][l], s) => span[s][l] = span[r][l]

(* A branch has no rank that the branch before has not.                       *)
LEMMA BranchNarrows ==
  ASSUME NEW r \in Ranks, NEW s \in Ranks, NEW l \in 1 .. N, Holds(span[r][l], s)
  PROVE  Holds(span[r][l - 1], s)
<1>1. l - 1 \in 0 .. N
  BY SchedulerAssumption
<1>2. PICK d, p : d = span[r][l - 1] /\ p = span[r][l]
  OBVIOUS
<1>3. Within(p, d.begin, d.nb) /\ d \in [begin : Nat, nb : Nat \ {0}]
  BY <1>1, <1>2, AllSpans, NextSpan DEF Spans
<1>4. QED BY <1>2, <1>3, SchedulerAssumption DEF Within, Holds, Ranks

(* At every level.                                                            *)
LEMMA AllShared ==
  ASSUME NEW r \in Ranks, NEW s \in Ranks, NEW l \in 0 .. N
  PROVE  Shared(r, s, l)
<1> DEFINE T == {k \in 0 .. N : ~ Shared(r, s, k)}
<1>1. SUFFICES ASSUME T # {} PROVE FALSE
  OBVIOUS
<1>2. T \subseteq Nat
  BY SchedulerAssumption
<1>3. PICK t \in T : \A y \in T : t <= y
  <2> HIDE DEF T
  <2> QED BY <1>1, <1>2, Least
<1>4. t \in 0 .. N /\ ~ Shared(r, s, t)
  OBVIOUS
<1>5. Holds(span[r][t], s) /\ span[s][t] # span[r][t]
  BY <1>4 DEF Shared
<1>6. t # 0
  BY <1>5, SpanSteps
<1>7. t \in 1 .. N /\ t - 1 \in 0 .. N /\ ~ (t <= t - 1)
  BY <1>4, <1>6, SchedulerAssumption
<1>8. Shared(r, s, t - 1)
  BY <1>3, <1>7
<1>9. PICK d, p, q : d = span[r][t - 1] /\ p = span[r][t] /\ q = span[s][t]
  OBVIOUS
<1>10. span[s][t - 1] = d
  BY <1>5, <1>7, <1>8, <1>9, BranchNarrows DEF Shared
<1>11. /\ p \in Parts(d.begin, d.nb) /\ q \in Parts(d.begin, d.nb)
       /\ d.begin \in Nat /\ d.nb \in Nat \ {0}
  BY <1>7, <1>9, <1>10, AllSpans, NextSpan DEF Spans
<1>12. Holds(q, s) /\ Holds(p, s) /\ s \in Nat
  BY <1>4, <1>5, <1>9, AllSpans, SchedulerAssumption DEF Spans, Ranks
<1>13. p = q
  BY <1>11, <1>12, OnePart
<1>14. QED BY <1>5, <1>9, <1>13

(* The level of a rank is the first at which it is alone.                     *)
LEMMA LevelFacts ==
  ASSUME NEW r \in Ranks
  PROVE  /\ Level[r] \in 1 .. N /\ span[r][Level[r]].nb = 1
         /\ \A m \in 1 .. Level[r] - 1 : span[r][m].nb > 1
<1> DEFINE T == {l \in 1 .. N : span[r][l].nb = 1}
<1>1. N \in T /\ T \subseteq Nat
  <2>1. Spans(r, N) /\ N \in 1 .. N
    BY AllSpans, SchedulerAssumption
  <2>2. span[r][N].nb \in Nat \ {0} /\ (span[r][N].nb = 1 \/ span[r][N].nb + N <= N)
    BY <2>1 DEF Spans
  <2> QED BY <2>1, <2>2, SchedulerAssumption
<1>2. PICK t \in T : \A y \in T : t <= y
  <2> HIDE DEF T
  <2> QED BY <1>1, Least
<1>3. t \in 1 .. N /\ span[r][t].nb = 1
  OBVIOUS
<1>4. ASSUME NEW m \in 1 .. t - 1 PROVE span[r][m].nb > 1
  <2>1. m \in 1 .. N /\ m \in 0 .. N /\ ~ (t <= m)
    BY <1>3, SchedulerAssumption
  <2>2. m \notin T
    BY <1>2, <2>1
  <2>3. span[r][m].nb \in Nat \ {0}
    BY <2>1, AllSpans DEF Spans
  <2> QED BY <2>1, <2>2, <2>3
<1>5. \E l \in 1 .. N : span[r][l].nb = 1 /\ \A m \in 1 .. l - 1 : span[r][m].nb > 1
  BY <1>3, <1>4
<1>6. QED BY <1>5 DEF Level

(* Ranks that share a branch share those before.                              *)
LEMMA SharedBefore ==
  ASSUME NEW r \in Ranks, NEW s \in Ranks, NEW l \in 0 .. N, Holds(span[r][l], s), NEW m \in 0 .. l
  PROVE  span[s][m] = span[r][m]
<1> DEFINE T == {k \in 0 .. N : Holds(span[r][k], s) /\ \E i \in 0 .. k : span[s][i] # span[r][i]}
<1>1. SUFFICES ASSUME T # {} PROVE FALSE
  OBVIOUS
<1>2. T \subseteq Nat
  BY SchedulerAssumption
<1>3. PICK t \in T : \A y \in T : t <= y
  <2> HIDE DEF T
  <2> QED BY <1>1, <1>2, Least
<1>4. t \in 0 .. N /\ Holds(span[r][t], s)
  OBVIOUS
<1>5. PICK i \in 0 .. t : span[s][i] # span[r][i]
  OBVIOUS
<1>6. i # t
  BY <1>4, <1>5, AllShared DEF Shared
<1>7. t \in 1 .. N /\ t - 1 \in 0 .. N /\ i \in 0 .. t - 1 /\ ~ (t <= t - 1)
  BY <1>4, <1>5, <1>6, SchedulerAssumption
<1>8. Holds(span[r][t - 1], s)
  BY <1>4, <1>7, BranchNarrows
<1>9. t - 1 \in T
  BY <1>5, <1>7, <1>8
<1>10. QED BY <1>3, <1>7, <1>9

(* A rank of a branch that is divided further goes at least one level deeper. *)
LEMMA GoesDeeper ==
  ASSUME NEW r \in Ranks, NEW s \in Ranks, NEW l \in 0 .. N, l < Level[r], Holds(span[r][l], s)
  PROVE  l < Level[s]
<1>1. /\ Level[s] \in 1 .. N /\ span[s][Level[s]].nb = 1 /\ Level[r] \in 1 .. N
      /\ \A m \in 1 .. Level[r] - 1 : span[r][m].nb > 1
  BY LevelFacts
<1>2. SUFFICES ASSUME Level[s] <= l PROVE FALSE
  BY <1>1, SchedulerAssumption
<1>3. Level[s] \in 0 .. l /\ Level[s] \in 1 .. Level[r] - 1
  BY <1>1, <1>2, SchedulerAssumption
<1>4. span[s][Level[s]] = span[r][Level[s]]
  BY <1>3, SharedBefore
<1>5. span[r][Level[s]].nb > 1
  BY <1>1, <1>3
<1>6. QED BY <1>1, <1>4, <1>5

(* The first rank of a branch.                                                *)
LEMMA FirstRank ==
  ASSUME NEW r \in Ranks, NEW l \in 0 .. N, NEW c, c = span[r][l].begin
  PROVE  c \in Ranks /\ Holds(span[r][l], c) /\ span[c][l] = span[r][l]
<1>1. PICK d : d = span[r][l]
  OBVIOUS
<1>2. d \in [begin : Nat, nb : Nat \ {0}] /\ d.begin + d.nb <= N
  BY <1>1, AllSpans DEF Spans
<1>3. c \in Ranks /\ Holds(d, c)
  BY <1>1, <1>2, SchedulerAssumption DEF Ranks, Holds
<1>4. QED BY <1>1, <1>3, AllShared DEF Shared

(* A node stands below the first rank of the branch before.                   *)
LEMMA ParentShape ==
  ASSUME NEW r \in Ranks, NEW l \in 1 .. Level[r], Node(r, l)
  PROVE  Inner(Parent[r][l], l - 1) /\ r \in Child[Parent[r][l]][l - 1]
<1>1. Level[r] \in 1 .. N /\ l \in 1 .. N /\ l - 1 \in 0 .. N /\ l - 1 < Level[r]
  BY LevelFacts, SchedulerAssumption
<1>2. PICK P : P = span[r][l - 1].begin
  OBVIOUS
<1>3. Parent[r][l] = P
  BY <1>2 DEF Parent
<1>4. P \in Ranks /\ Holds(span[r][l - 1], P) /\ span[P][l - 1] = span[r][l - 1]
  BY <1>1, <1>2, FirstRank
<1>5. l - 1 < Level[P] /\ Level[P] \in 1 .. N
  BY <1>1, <1>4, GoesDeeper, LevelFacts
<1>6. Inner(P, l - 1)
  BY <1>1, <1>2, <1>4, <1>5, SchedulerAssumption DEF Inner, Node
<1>7. span[r][l] \in Parts(span[P][l - 1].begin, span[P][l - 1].nb) /\ span[r][l].begin = r
  BY <1>1, <1>4, AllSpans, NextSpan DEF Node
<1>8. r \in Child[P][l - 1]
  <2>1. l - 1 \in 0 .. Level[P] - 1
    BY <1>1, <1>5, SchedulerAssumption
  <2>2. Child[P][l - 1] = {p.begin : p \in Parts(span[P][l - 1].begin, span[P][l - 1].nb)}
    BY <1>4, <2>1 DEF Child
  <2> QED BY <1>7, <2>2
<1>9. QED BY <1>3, <1>6, <1>8

(* The children of a node are the first ranks of the parts of its branch.     *)
LEMMA ChildShape ==
  ASSUME NEW r \in Ranks, NEW l \in 0 .. N, Inner(r, l)
  PROVE  /\ Child[r][l] \in SUBSET Ranks
         /\ NbChild[r][l] = Cardinality(Child[r][l])
         /\ \A c \in Child[r][l] : /\ Node(c, l + 1) /\ Parent[c][l + 1] = r
                                   /\ Branch(c, l + 1) \subseteq Branch(r, l)
         /\ \A s \in Branch(r, l) : \E c \in Child[r][l] : s \in Branch(c, l + 1)
<1>1. /\ l < Level[r] /\ Level[r] \in 1 .. N /\ l + 1 \in 1 .. N /\ l + 1 \in 0 .. N
      /\ l \in 0 .. Level[r] - 1 /\ l + 1 - 1 = l
  BY LevelFacts, SchedulerAssumption DEF Inner
<1>2. PICK b, n : b = span[r][l].begin /\ n = span[r][l].nb
  OBVIOUS
<1>3. b \in Nat /\ n \in Nat \ {0} /\ b + n <= N /\ b = r
  BY <1>2, AllSpans DEF Spans, Inner, Node
<1>4. Child[r][l] = {p.begin : p \in Parts(b, n)} /\ NbChild[r][l] = Cardinality(Child[r][l])
  BY <1>1, <1>2 DEF Child, NbChild
<1>5. ASSUME NEW p \in Parts(b, n), NEW c, c = p.begin
      PROVE  /\ c \in Ranks /\ Node(c, l + 1) /\ Parent[c][l + 1] = r
             /\ span[c][l + 1] = p
  <2>1. Within(p, b, n) /\ p \in [begin : Nat, nb : Nat \ {0}] /\ b <= p.begin /\ p.begin + p.nb <= b + n
    BY <1>3, PartWithin DEF Within
  <2>2. c \in Ranks /\ c \in Nat /\ Holds(p, c)
    BY <1>3, <1>5, <2>1, SchedulerAssumption DEF Ranks, Holds
  <2>3. Holds(span[r][l], c)
    BY <1>2, <1>3, <1>5, <2>1 DEF Holds
  <2>4. span[c][l] = span[r][l] /\ l < Level[c] /\ Level[c] \in 1 .. N
    BY <1>1, <2>2, <2>3, AllShared, GoesDeeper, LevelFacts DEF Shared
  <2>5. span[c][l + 1] \in Parts(b, n) /\ Holds(span[c][l + 1], c)
    <3>1. PICK k : k = l + 1
      OBVIOUS
    <3>2. k \in 1 .. N /\ k \in 0 .. N /\ k - 1 = l
      BY <1>1, <3>1
    <3>3. Spans(c, k - 1) /\ Spans(c, k)
      BY <2>2, <3>2, AllSpans
    <3>4. span[c][k] \in Parts(span[c][k - 1].begin, span[c][k - 1].nb)
      BY <2>2, <3>2, <3>3, NextSpan
    <3> QED BY <1>2, <2>4, <3>1, <3>2, <3>3, <3>4 DEF Spans
  <2>6. span[c][l + 1] = p
    <3>1. PICK q : q = span[c][l + 1]
      OBVIOUS
    <3> QED BY <1>3, <2>2, <2>5, <3>1, OnePart
  <2>7. l + 1 \in 0 .. Level[c] /\ l + 1 \in 1 .. Level[c]
    BY <1>1, <2>4, SchedulerAssumption
  <2>8. Node(c, l + 1)
    BY <1>5, <2>2, <2>6, <2>7 DEF Node
  <2>9. Parent[c][l + 1] = r
    <3>1. PICK k : k = l + 1
      OBVIOUS
    <3>2. k \in 1 .. Level[c] /\ k - 1 = l
      BY <1>1, <2>7, <3>1
    <3>3. Parent[c][k] = span[c][k - 1].begin
      BY <2>2, <3>2 DEF Parent
    <3> QED BY <1>2, <1>3, <2>4, <3>1, <3>2, <3>3
  <2> QED BY <2>2, <2>6, <2>8, <2>9
<1>6. ASSUME NEW c \in Child[r][l]
      PROVE  /\ c \in Ranks /\ Node(c, l + 1) /\ Parent[c][l + 1] = r
             /\ Branch(c, l + 1) \subseteq Branch(r, l)
  <2>1. PICK p \in Parts(b, n) : c = p.begin
    BY <1>4
  <2>2. c \in Ranks /\ Node(c, l + 1) /\ Parent[c][l + 1] = r /\ span[c][l + 1] = p
    BY <1>5, <2>1
  <2>3. Within(p, b, n)
    BY <1>3, PartWithin
  <2>4. Branch(c, l + 1) \subseteq Branch(r, l)
    <3> SUFFICES ASSUME NEW s \in Ranks, Holds(p, s) PROVE Holds(span[r][l], s)
      BY <2>2 DEF Branch
    <3>1. p.begin \in Nat /\ p.nb \in Nat /\ b <= p.begin /\ p.begin + p.nb <= b + n
      BY <2>3 DEF Within
    <3>2. s \in Nat /\ p.begin <= s /\ s < p.begin + p.nb
      BY SchedulerAssumption DEF Ranks, Holds
    <3> QED BY <1>2, <1>3, <3>1, <3>2 DEF Holds
  <2> QED BY <2>2, <2>4
<1>7. ASSUME NEW s \in Branch(r, l) PROVE \E c \in Child[r][l] : s \in Branch(c, l + 1)
  <2>1. s \in Ranks /\ s \in Nat /\ b <= s /\ s < b + n
    BY <1>2, SchedulerAssumption DEF Branch, Holds, Ranks
  <2>2. PICK p \in Parts(b, n) : Holds(p, s)
    BY <1>3, <2>1, SomePart
  <2>3. PICK c : c = p.begin
    OBVIOUS
  <2>4. span[c][l + 1] = p
    BY <1>5, <2>3
  <2>5. c \in Child[r][l] /\ s \in Branch(c, l + 1)
    BY <1>4, <2>1, <2>2, <2>3, <2>4 DEF Branch
  <2> QED BY <2>5
<1>8. QED BY <1>4, <1>6, <1>7

(* The tree that initialize builds, for any number of ranks, has the shape    *)
(* the collective steps rely on.                                              *)
THEOREM TreeHasShape == TreeShape
<1>1. Level \in [Ranks -> 1 .. N]
  <2>1. \A r \in Ranks : Level[r] \in 1 .. N
    BY LevelFacts
  <2>2. Level = [r \in Ranks |-> Level[r]]
    BY DEF Level
  <2> QED BY <2>1, <2>2
<1>2. 0 \in Ranks /\ 0 \in 0 .. N
  BY SchedulerAssumption DEF Ranks
<1>3. \A r \in Ranks : span[r][0] = [begin |-> 0, nb |-> N]
  BY SpanSteps
<1>4. Node(0, 0) /\ Branch(0, 0) = Ranks
  <2>1. 0 \in 0 .. Level[0]
    BY <1>1, <1>2
  <2>2. \A s \in Ranks : Holds(span[0][0], s)
    BY <1>2, <1>3, SchedulerAssumption DEF Holds, Ranks
  <2> QED BY <1>2, <1>3, <2>1, <2>2 DEF Node, Branch
<1>5. \A r \in Ranks : Node(r, 0) => r = 0
  BY <1>3 DEF Node
<1>6. ASSUME NEW r \in Ranks PROVE Node(r, Level[r]) /\ Branch(r, Level[r]) = {r}
  <2>1. PICK d, L : L = Level[r] /\ d = span[r][L]
    OBVIOUS
  <2>2. L \in 0 .. N /\ L \in 0 .. L /\ d.nb = 1
    BY <2>1, LevelFacts, SchedulerAssumption
  <2>3. d \in [begin : Nat, nb : Nat \ {0}] /\ Holds(d, r)
    BY <2>1, <2>2, AllSpans DEF Spans
  <2>4. \A s \in Ranks : Holds(d, s) <=> s = r
    BY <2>2, <2>3, SchedulerAssumption DEF Holds, Ranks
  <2>5. d.begin = r
    BY <2>2, <2>3, SchedulerAssumption DEF Holds, Ranks
  <2> QED BY <2>1, <2>2, <2>4, <2>5 DEF Node, Branch
<1>7. ASSUME NEW r \in Ranks, NEW l \in 0 .. N, Node(r, l)
      PROVE  /\ r \in Branch(r, l)
             /\ \A c \in Ranks : Node(c, l) /\ c \in Branch(r, l) => c = r
  <2>1. r \in Branch(r, l)
    BY AllSpans DEF Spans, Branch
  <2>2. ASSUME NEW c \in Ranks, Node(c, l), c \in Branch(r, l) PROVE c = r
    <3>1. span[c][l] = span[r][l]
      BY <2>2, AllShared DEF Shared, Branch
    <3> QED BY <1>7, <2>2, <3>1 DEF Node
  <2> QED BY <2>1, <2>2
<1>8. QED BY <1>1, <1>4, <1>5, <1>6, <1>7, ParentShape, ChildShape DEF TreeShape

-----------------------------------------------------------------------------
(* Lemmas about the tree.                                                     *)

(* The fields of the tree.                                                    *)
LEMMA Fields ==
  ASSUME tree = Tree
  PROVE  level = Level /\ parent = Parent /\ child = Child /\ nbChild = NbChild
BY DEF level, parent, child, nbChild, Tree

(* A node other than the root is a child of its parent.                       *)
LEMMA ParentNode ==
  ASSUME NEW r, NEW l, Node(r, l), l # 0
  PROVE  /\ r \in Ranks /\ l \in 1 .. N /\ l \in 1 .. Level[r] /\ l - 1 \in 0 .. N
         /\ Inner(Parent[r][l], l - 1) /\ Node(Parent[r][l], l - 1)
         /\ Parent[r][l] \in Ranks /\ r \in Child[Parent[r][l]][l - 1]
         /\ r \in Branch(Parent[r][l], l - 1)
<1>1. r \in Ranks /\ l \in 0 .. Level[r] /\ Level[r] \in 1 .. N
  BY TreeHasShape DEF Node, TreeShape
<1>2. l \in 1 .. Level[r] /\ l \in 1 .. N /\ l - 1 \in 0 .. N
  BY <1>1, SchedulerAssumption
<1>3. Inner(Parent[r][l], l - 1) /\ r \in Child[Parent[r][l]][l - 1]
  BY <1>1, <1>2, TreeHasShape DEF TreeShape
<1>4. Node(Parent[r][l], l - 1) /\ Parent[r][l] \in Ranks
  BY <1>3 DEF Inner, Node
<1>5. l - 1 + 1 = l
  BY <1>2
<1>6. Branch(r, l) \subseteq Branch(Parent[r][l], l - 1)
  BY <1>2, <1>3, <1>4, <1>5, TreeHasShape DEF TreeShape
<1>7. r \in Branch(r, l)
  BY <1>1, <1>2, TreeHasShape DEF TreeShape
<1>8. QED BY <1>1, <1>2, <1>3, <1>4, <1>6, <1>7

(* A child of a node.                                                         *)
LEMMA ChildNode ==
  ASSUME NEW r, NEW l, Inner(r, l), NEW c \in Child[r][l]
  PROVE  /\ r \in Ranks /\ l \in 0 .. N /\ l + 1 \in 1 .. N /\ c \in Ranks
         /\ Node(r, l) /\ Node(c, l + 1) /\ Parent[c][l + 1] = r
<1>1. r \in Ranks /\ l \in 0 .. Level[r] /\ l < Level[r] /\ Level[r] \in 1 .. N /\ Node(r, l)
  BY TreeHasShape DEF Inner, Node, TreeShape
<1>2. l \in 0 .. N /\ l + 1 \in 1 .. N
  BY <1>1, SchedulerAssumption
<1>3. Child[r][l] \in SUBSET Ranks /\ Node(c, l + 1) /\ Parent[c][l + 1] = r
  BY <1>1, <1>2, TreeHasShape DEF TreeShape
<1>4. QED BY <1>1, <1>2, <1>3

(* The ranks are finitely many, and so are the children of a node.            *)
LEMMA FiniteChildren ==
  ASSUME NEW r, NEW l, Inner(r, l)
  PROVE  /\ IsFiniteSet(Child[r][l]) /\ NbChild[r][l] = Cardinality(Child[r][l])
         /\ NbChild[r][l] \in Nat
<1>1. r \in Ranks /\ l \in 0 .. Level[r] /\ l < Level[r] /\ Level[r] \in 1 .. N
  BY TreeHasShape DEF Inner, Node, TreeShape
<1>2. l \in 0 .. N
  BY <1>1, SchedulerAssumption
<1>3. Child[r][l] \in SUBSET Ranks /\ NbChild[r][l] = Cardinality(Child[r][l])
  BY <1>1, <1>2, TreeHasShape DEF TreeShape
<1>4. N - 1 \in Int /\ 0 \in Int
  BY SchedulerAssumption
<1>5. IsFiniteSet(Ranks)
  BY <1>4, FS_Interval DEF Ranks
<1>6. IsFiniteSet(Child[r][l])
  BY <1>3, <1>5, FS_Subset
<1>7. QED BY <1>3, <1>6, FS_CardinalityType

(* Whoever stands below a node is the node itself or below one of its children. *)
LEMMA BelowNode ==
  ASSUME NEW r, NEW l, NEW c, NEW k, Node(r, l), Node(c, k), l <= k, c \in Branch(r, l)
  PROVE  \/ c = r /\ k = l
         \/ Inner(r, l) /\ l + 1 <= k /\ \E d \in Child[r][l] : c \in Branch(d, l + 1)
<1>1. /\ r \in Ranks /\ l \in 0 .. Level[r] /\ Level[r] \in 1 .. N
      /\ c \in Ranks /\ k \in 0 .. Level[c] /\ Level[c] \in 1 .. N
  BY TreeHasShape DEF Node, TreeShape
<1>2. l \in 0 .. N /\ k \in 0 .. N
  BY <1>1, SchedulerAssumption
<1>3. CASE k = l
  BY <1>1, <1>2, <1>3, TreeHasShape DEF TreeShape
<1>4. CASE k # l
  <2>1. l + 1 <= k
    BY <1>2, <1>4
  <2>2. l # Level[r]
    <3>1. SUFFICES ASSUME l = Level[r] PROVE FALSE
      OBVIOUS
    <3>2. c = r
      BY <1>1, <3>1, TreeHasShape DEF TreeShape
    <3> QED BY <1>1, <2>1, <3>1, <3>2
  <2>3. Inner(r, l)
    BY <1>1, <2>2 DEF Inner
  <2>4. \A s \in Branch(r, l) : \E d \in Child[r][l] : s \in Branch(d, l + 1)
    BY <1>1, <1>2, <2>3, TreeHasShape DEF TreeShape
  <2> QED BY <2>1, <2>3, <2>4
<1>5. QED BY <1>3, <1>4

(* Of all the counts of children only one grows.                              *)
OneMoreAhead(p, l, e) ==
  \A x \in Ranks, k \in 0 .. N, f \in Events : Inner(x, k) =>
    Cardinality(ChildrenAhead(x, k, f)') = Cardinality(ChildrenAhead(x, k, f))
      + (IF x = p /\ k = l /\ f = e THEN 1 ELSE 0)

(* What a node's announcement of an event changes: those who have announced   *)
(* it are again closed below, its parent had not announced it, and of all the *)
(* counts of children only the parent's grows.                                *)
LEMMA Announces ==
  ASSUME AheadBelow, NEW r, NEW l, Node(r, l), l # 0, NEW e \in Events, e \notin ahead[r][l],
         Inner(r, l) => \A d \in Child[r][l] : e \in ahead[d][l + 1],
         ahead' = [ahead EXCEPT ![r][l] = @ \cup {e}]
  PROVE  /\ AheadBelow'
         /\ e \notin ahead[Parent[r][l]][l - 1]
         /\ OneMoreAhead(Parent[r][l], l - 1, e)
<1>1. /\ r \in Ranks /\ l \in 1 .. N /\ l - 1 \in 0 .. N /\ l \in 0 .. N
      /\ Inner(Parent[r][l], l - 1) /\ Node(Parent[r][l], l - 1)
      /\ Parent[r][l] \in Ranks /\ r \in Child[Parent[r][l]][l - 1]
      /\ r \in Branch(Parent[r][l], l - 1) /\ l - 1 + 1 = l
  BY ParentNode, SchedulerAssumption
<1>2. ahead \in [Ranks -> [0 .. N -> SUBSET Events]]
  BY DEF AheadBelow
<1>3. ahead' \in [Ranks -> [0 .. N -> SUBSET Events]]
  BY <1>1, <1>2
<1>4. \A x \in Ranks, k \in 0 .. N :
        ahead'[x][k] = IF x = r /\ k = l THEN ahead[x][k] \cup {e} ELSE ahead[x][k]
  BY <1>1, <1>2
<1>5. ahead[Parent[r][l]][l - 1] \subseteq ahead[r][l]
  BY <1>1 DEF AheadBelow
<1>6. e \notin ahead[Parent[r][l]][l - 1]
  BY <1>5
<1>7. ASSUME NEW x \in Ranks, NEW c \in Ranks, NEW i \in 0 .. N, NEW k \in 0 .. N,
             Node(x, i), Node(c, k), i <= k, c \in Branch(x, i)
      PROVE  ahead'[x][i] \subseteq ahead'[c][k]
  <2>1. ahead[x][i] \subseteq ahead[c][k]
    BY <1>7 DEF AheadBelow
  <2>2. CASE x # r \/ i # l
    BY <1>4, <2>1, <2>2
  <2>3. CASE x = r /\ i = l
    <3>1. CASE c = r /\ k = l
      BY <2>3, <3>1
    <3>2. CASE ~ (c = r /\ k = l)
      <4>1. PICK d \in Child[r][l] : c \in Branch(d, l + 1)
        BY <1>7, <2>3, <3>2, BelowNode
      <4>2. Inner(r, l) /\ l + 1 <= k
        BY <1>7, <2>3, <3>2, BelowNode
      <4>3. d \in Ranks /\ l + 1 \in 0 .. N /\ Node(d, l + 1)
        BY <4>1, <4>2, ChildNode, SchedulerAssumption
      <4>4. e \in ahead[d][l + 1]
        BY <4>2
      <4>5. ahead[d][l + 1] \subseteq ahead[c][k]
        BY <1>7, <4>1, <4>2, <4>3 DEF AheadBelow
      <4>6. e \in ahead[c][k]
        BY <4>4, <4>5
      <4> QED BY <1>4, <2>1, <2>3, <4>6
    <3> QED BY <3>1, <3>2
  <2> QED BY <2>2, <2>3
<1>8. ahead'[0][0] = {}
  <2>1. 0 \in Ranks /\ 0 \in 0 .. N
    BY SchedulerAssumption DEF Ranks
  <2>2. ahead[0][0] = {} /\ l # 0
    BY DEF AheadBelow
  <2> QED BY <1>4, <2>1, <2>2
<1>9. AheadBelow'
  BY <1>3, <1>7, <1>8 DEF AheadBelow
<1>10. ASSUME NEW x \in Ranks, NEW k \in 0 .. N, NEW f \in Events, Inner(x, k)
       PROVE  Cardinality(ChildrenAhead(x, k, f)') = Cardinality(ChildrenAhead(x, k, f))
                + (IF x = Parent[r][l] /\ k = l - 1 /\ f = e THEN 1 ELSE 0)
  <2>1. /\ \A c \in Child[x][k] : c \in Ranks /\ Parent[c][k + 1] = x
        /\ k + 1 \in 0 .. N /\ Child[x][k] = Child[x][k]'
    <3>1. k < Level[x] /\ Level[x] \in 1 .. N
      BY <1>10, TreeHasShape DEF Inner, TreeShape
    <3>2. k + 1 \in 0 .. N
      BY <3>1, SchedulerAssumption
    <3> QED BY <1>10, <3>2, ChildNode
  <2>2. IsFiniteSet(Child[x][k])
    BY <1>10, FiniteChildren
  <2>3. IsFiniteSet(ChildrenAhead(x, k, f))
    BY <2>2, FS_Subset DEF ChildrenAhead
  <2>4. Cardinality(ChildrenAhead(x, k, f)) \in Nat
    BY <2>3, FS_CardinalityType
  <2>5. ChildrenAhead(x, k, f)' = {c \in Child[x][k] : f \in ahead'[c][k + 1]}
    BY DEF ChildrenAhead
  <2>6. CASE x = Parent[r][l] /\ k = l - 1 /\ f = e
    <3>1. k + 1 = l
      BY <1>1, <2>6
    <3>2. ChildrenAhead(x, k, f)' = ChildrenAhead(x, k, f) \cup {r}
      <4>1. ASSUME NEW c \in Child[x][k]
            PROVE  f \in ahead'[c][k + 1] <=> f \in ahead[c][k + 1] \/ c = r
        <5>1. ahead'[c][l] = IF c = r THEN ahead[c][l] \cup {e} ELSE ahead[c][l]
          BY <1>1, <1>4, <2>1, ZenonT(40)
        <5> QED BY <2>6, <3>1, <5>1
      <4>2. r \in Child[x][k]
        BY <1>1, <2>6
      <4> QED BY <2>5, <4>1, <4>2 DEF ChildrenAhead
    <3>3. r \notin ChildrenAhead(x, k, f)
      BY <2>6, <3>1 DEF ChildrenAhead
    <3>4. Cardinality(ChildrenAhead(x, k, f) \cup {r}) = Cardinality(ChildrenAhead(x, k, f)) + 1
      BY <2>3, <3>3, FS_AddElement
    <3> QED BY <2>6, <3>2, <3>4
  <2>7. CASE ~ (x = Parent[r][l] /\ k = l - 1 /\ f = e)
    <3>1. ASSUME NEW c \in Child[x][k]
          PROVE  f \in ahead'[c][k + 1] <=> f \in ahead[c][k + 1]
      <4>1. CASE c = r /\ k + 1 = l
        <5>1. x = Parent[r][l] /\ k = l - 1
          BY <1>1, <2>1, <4>1
        <5>2. f # e
          BY <2>7, <5>1
        <5> QED BY <1>4, <2>1, <5>2
      <4>2. CASE ~ (c = r /\ k + 1 = l)
        BY <1>4, <2>1, <4>2
      <4> QED BY <4>1, <4>2
    <3>2. ChildrenAhead(x, k, f)' = ChildrenAhead(x, k, f)
      BY <2>5, <3>1 DEF ChildrenAhead
    <3> QED BY <2>4, <2>7, <3>2
  <2> QED BY <2>6, <2>7
<1>11. OneMoreAhead(Parent[r][l], l - 1, e)
  BY <1>10 DEF OneMoreAhead
<1>12. QED BY <1>6, <1>9, <1>11

-----------------------------------------------------------------------------
(* What a step leaves alone.                                                  *)

(* The events on their way down depend on nothing else.                       *)
LEMMA DownSame ==
  ASSUME GotRight, Channels, UNCHANGED <<down, order, got, popped, stack>>
  PROVE  GotRight' /\ Channels'
<1>1. GotRight'
  BY DEF GotRight
<1>2. \A s, r, m : RightMessage(s, r, m)' <=> RightMessage(s, r, m)
  BY DEF RightMessage, OnTheWay
<1>3. \A r, l : OnTheWay(r, l)' = OnTheWay(r, l)
  BY DEF OnTheWay
<1>4. Channels'
  BY <1>2, <1>3 DEF Channels
<1>5. QED BY <1>1, <1>4

(* What the ranks wait for.                                                   *)
LEMMA WaitingSame ==
  ASSUME WaitingRight, UNCHANGED <<registered, waiting, order, popped>>,
         \A r \in Ranks : Ahead(r)' = Ahead(r)
  PROVE  WaitingRight'
<1>1. \A r : Due(r)' = Due(r)
  BY DEF Due
<1>2. \A e : Times(e)' = Times(e)
  BY DEF Times
<1>3. QED BY <1>1, <1>2 DEF WaitingRight

(* The announcements on their way up.                                         *)
LEMMA UpSame ==
  ASSUME KeysRight, CountsRight, AheadBelow, UNCHANGED <<up, recvEvent, ahead>>
  PROVE  KeysRight' /\ CountsRight' /\ AheadBelow' /\ \A r \in Ranks : Ahead(r)' = Ahead(r)
<1>1. KeysRight' /\ AheadBelow' /\ \A r \in Ranks : Ahead(r)' = Ahead(r)
  BY DEF KeysRight, AheadBelow, Ahead
<1>2. \A r, l, e : Counted(r, l, e)' = Counted(r, l, e) /\ ChildrenAhead(r, l, e)' = ChildrenAhead(r, l, e)
  BY DEF Counted, ChildrenAhead
<1>3. CountsRight'
  BY <1>2 DEF CountsRight
<1>4. QED BY <1>1, <1>3

-----------------------------------------------------------------------------
(* Each action keeps the invariant.                                           *)

(* The constants the proofs need.                                             *)
LEMMA RankFacts ==
  ASSUME NEW r \in Ranks
  PROVE  /\ Level[r] \in 1 .. N /\ Level[r] \in 0 .. N /\ Level[r] # 0
         /\ Node(r, Level[r]) /\ ~ Inner(r, Level[r])
<1>1. Level[r] \in 1 .. N /\ Node(r, Level[r])
  BY TreeHasShape DEF TreeShape
<1>2. QED BY <1>1, SchedulerAssumption DEF Inner

(* A rank registers an event.                                                 *)
LEMMA RegisterStep ==
  ASSUME SchedulerInv, NEW r \in Ranks, NEW e \in Events, RegisterEvent(r, e)
  PROVE  SchedulerInv'
<1> DEFINE L == Level[r]
           P == Parent[r][L]
<1>1. level = Level /\ parent = Parent
  BY Fields DEF SchedulerInv, Kinds
<1>2. /\ L \in 1 .. N /\ L \in 0 .. N /\ L # 0 /\ Node(r, L) /\ ~ Inner(r, L)
      /\ P \in Ranks /\ L - 1 \in 0 .. N /\ Inner(P, L - 1)
  BY RankFacts, ParentNode
<1> HIDE DEF L, P
<1>3. /\ e \notin waiting[r] /\ registered[r][e] < Rounds
      /\ registered' = [registered EXCEPT ![r][e] = @ + 1]
      /\ waiting' = [waiting EXCEPT ![r] = @ \cup {e}]
      /\ up' = [up EXCEPT ![P][<<e, L - 1>>] = @ + 1]
      /\ ahead' = [ahead EXCEPT ![r][L] = @ \cup {e}]
      /\ UNCHANGED <<tree, recvEvent, down, stack, order, popped, got>>
  BY <1>1 DEF RegisterEvent, SentUp, L, P
<1>4. KeysRight /\ CountsRight /\ AheadBelow /\ WaitingRight /\ GotRight /\ Channels /\ Kinds
  BY DEF SchedulerInv
<1>5. ahead \in [Ranks -> [0 .. N -> SUBSET Events]]
  BY <1>4 DEF AheadBelow
<1>6. e \notin ahead[r][L]
  BY <1>3, <1>4 DEF WaitingRight, Ahead, L
<1>7. AheadBelow' /\ e \notin ahead[P][L - 1] /\ OneMoreAhead(P, L - 1, e)
  BY <1>2, <1>3, <1>4, <1>6, Announces DEF P
<1>8. <<e, L - 1>> \in Keys
  BY <1>2 DEF Keys
<1>9. /\ up \in [Ranks -> [Keys -> Nat]] /\ up' \in [Ranks -> [Keys -> Nat]]
      /\ recvEvent \in [Ranks -> [Keys -> Nat]]
      /\ \A x \in Ranks : \A m \in Keys :
           up'[x][m] = IF x = P /\ m = <<e, L - 1>> THEN up[x][m] + 1 ELSE up[x][m]
  <2>1. /\ up \in [Ranks -> [Keys -> Nat]] /\ up[P] \in [Keys -> Nat]
        /\ recvEvent \in [Ranks -> [Keys -> Nat]]
    BY <1>2, <1>4 DEF KeysRight
  <2>2. /\ up' = [up EXCEPT ![P] = [up[P] EXCEPT ![<<e, L - 1>>] = up[P][<<e, L - 1>>] + 1]]
        /\ [up[P] EXCEPT ![<<e, L - 1>>] = up[P][<<e, L - 1>>] + 1] \in [Keys -> Nat]
    BY <1>3, <1>8, <2>1
  <2> QED BY <1>2, <1>8, <2>1, <2>2
<1>10. KeysRight'
  <2>1. ASSUME NEW x \in Ranks, NEW m \in Keys, up'[x][m] + recvEvent'[x][m] > 0
        PROVE  Inner(x, m[2])
    <3>1. CASE x = P /\ m = <<e, L - 1>>
      BY <1>2, <3>1
    <3>2. CASE ~ (x = P /\ m = <<e, L - 1>>)
      BY <1>3, <1>4, <1>9, <2>1, <3>2 DEF KeysRight
    <3> QED BY <3>1, <3>2
  <2> QED BY <1>3, <1>9, <2>1 DEF KeysRight
<1>11. \A x \in Ranks, k \in 0 .. N :
         ahead'[x][k] = IF x = r /\ k = L THEN ahead[x][k] \cup {e} ELSE ahead[x][k]
  BY <1>2, <1>3, <1>5
<1>12. ASSUME NEW x \in Ranks, NEW k \in 0 .. N, NEW f \in Events, Inner(x, k)
       PROVE  /\ Counted(x, k, f)' = IF f \in ahead'[x][k] THEN 0
                                     ELSE Cardinality(ChildrenAhead(x, k, f)')
              /\ recvEvent'[x][<<f, k>>] < NbChild[x][k]
  <2>1. /\ Counted(x, k, f) = IF f \in ahead[x][k] THEN 0
                              ELSE Cardinality(ChildrenAhead(x, k, f))
        /\ recvEvent[x][<<f, k>>] < NbChild[x][k]
    BY <1>4, <1>12 DEF CountsRight
  <2>2. ahead'[x][k] = ahead[x][k]
    BY <1>2, <1>11, <1>12
  <2>3. <<f, k>> \in Keys
    BY DEF Keys
  <2>4. Counted(x, k, f)' = Counted(x, k, f) + (IF x = P /\ k = L - 1 /\ f = e THEN 1 ELSE 0)
    BY <1>2, <1>3, <1>9, <2>3 DEF Counted
  <2>5. Cardinality(ChildrenAhead(x, k, f)') = Cardinality(ChildrenAhead(x, k, f))
             + (IF x = P /\ k = L - 1 /\ f = e THEN 1 ELSE 0)
    BY <1>7, <1>12 DEF OneMoreAhead
  <2>6. CASE x = P /\ k = L - 1 /\ f = e
    BY <1>3, <1>7, <2>1, <2>2, <2>4, <2>5, <2>6
  <2>7. CASE ~ (x = P /\ k = L - 1 /\ f = e)
    <3>1. Counted(x, k, f) \in Nat
      BY <1>9, <2>3 DEF Counted
    <3>2. Counted(x, k, f)' = Counted(x, k, f)
      BY <2>4, <2>7, <3>1
    <3>3. IsFiniteSet(Child[x][k])
      BY <1>12, FiniteChildren
    <3>4. Cardinality(ChildrenAhead(x, k, f)) \in Nat
      BY <3>3, FS_Subset, FS_CardinalityType DEF ChildrenAhead
    <3>5. Cardinality(ChildrenAhead(x, k, f)') = Cardinality(ChildrenAhead(x, k, f))
      BY <2>5, <2>7, <3>4
    <3> QED BY <1>3, <2>1, <2>2, <3>2, <3>5
  <2> QED BY <2>6, <2>7
<1>13. CountsRight'
  BY <1>12 DEF CountsRight
<1>14. Kinds'
  <2>1. registered' \in [Ranks -> [Events -> 0 .. Rounds]]
    BY <1>3, <1>4, SchedulerAssumption DEF Kinds
  <2>2. waiting' \in [Ranks -> SUBSET Events]
    BY <1>3, <1>4 DEF Kinds
  <2> QED BY <1>3, <1>4, <2>1, <2>2 DEF Kinds
<1>15. WaitingRight'
  <2>1. \A x \in Ranks : Ahead(x)' = IF x = r THEN Ahead(x) \cup {e} ELSE Ahead(x)
    BY <1>11, RankFacts DEF Ahead, L
  <2>2. \A x : Due(x)' = Due(x)
    BY <1>3 DEF Due
  <2>3. \A f : Times(f)' = Times(f) /\ Times(f) \in Nat
    <3>1. \A f : IsFiniteSet({i \in 1 .. Len(order) : order[i] = f})
      <4>1. Len(order) \in Int /\ 1 \in Int
        BY <1>4 DEF Kinds
      <4>2. IsFiniteSet(1 .. Len(order))
        BY <4>1, FS_Interval
      <4> QED BY <4>2, FS_Subset
    <3> QED BY <1>3, <3>1, FS_CardinalityType DEF Times
  <2>4. ASSUME NEW x \in Ranks
        PROVE  /\ \A f \in Events : f \in waiting'[x] <=> f \in Ahead(x)' \/ \E i \in Due(x)' : order'[i] = f
               /\ \A i \in Due(x)' : order'[i] \notin Ahead(x)'
    <3>1. waiting'[x] = IF x = r THEN waiting[x] \cup {e} ELSE waiting[x]
      BY <1>3, <1>4 DEF Kinds
    <3>2. /\ \A f \in Events : f \in waiting[x] <=> f \in Ahead(x) \/ \E i \in Due(x) : order[i] = f
          /\ \A i \in Due(x) : order[i] \notin Ahead(x)
      BY <1>4 DEF WaitingRight
    <3>3. CASE x = r
      BY <1>3, <2>1, <2>2, <3>1, <3>2, <3>3
    <3>4. CASE x # r
      BY <1>3, <2>1, <2>2, <3>1, <3>2, <3>4
    <3> QED BY <3>3, <3>4
  <2>5. ASSUME NEW x \in Ranks, NEW f \in Events
        PROVE  registered'[x][f] = Times(f)' + (IF f \in Ahead(x)' THEN 1 ELSE 0)
    <3>1. registered[x][f] = Times(f) + (IF f \in Ahead(x) THEN 1 ELSE 0)
      BY <1>4 DEF WaitingRight
    <3>2. registered'[x][f] = IF x = r /\ f = e THEN registered[x][f] + 1 ELSE registered[x][f]
      BY <1>3, <1>4 DEF Kinds
    <3>3. e \notin Ahead(r)
      BY <1>6 DEF Ahead, L
    <3>4. CASE x = r /\ f = e
      BY <2>1, <2>3, <3>1, <3>2, <3>3, <3>4
    <3>5. CASE ~ (x = r /\ f = e)
      BY <2>1, <2>3, <3>1, <3>2, <3>5
    <3> QED BY <3>4, <3>5
  <2>6. \A x \in Ranks : \A i, j \in Due(x)' : order'[i] = order'[j] => i = j
    BY <1>3, <1>4, <2>2 DEF WaitingRight
  <2> QED BY <2>4, <2>5, <2>6 DEF WaitingRight
<1>16. GotRight' /\ Channels'
  BY <1>3, <1>4, DownSame
<1>17. QED BY <1>7, <1>10, <1>13, <1>14, <1>15, <1>16 DEF SchedulerInv

(* A table of counts with one of them changed.                                *)
LEMMA OneCountChanged ==
  ASSUME NEW f \in [Ranks -> [Keys -> Nat]], NEW r \in Ranks, NEW m \in Keys, NEW v \in Nat,
         NEW g, g = [f EXCEPT ![r][m] = v]
  PROVE  /\ g \in [Ranks -> [Keys -> Nat]]
         /\ \A x \in Ranks : \A k \in Keys : g[x][k] = IF x = r /\ k = m THEN v ELSE f[x][k]
<1>1. f[r] \in [Keys -> Nat] /\ [f[r] EXCEPT ![m] = v] \in [Keys -> Nat]
  OBVIOUS
<1>2. g = [f EXCEPT ![r] = [f[r] EXCEPT ![m] = v]]
  OBVIOUS
<1>3. QED BY <1>1, <1>2

(* A node that counts the last of its children has them all ahead, had not    *)
(* announced the event, and has no other announcement of it to count.         *)
LEMMA AllAhead ==
  ASSUME KeysRight, CountsRight, NEW r \in Ranks, NEW e \in Events, NEW l \in 0 .. N,
         up[r][<<e, l>>] > 0, recvEvent[r][<<e, l>>] + 1 = NbChild[r][l]
  PROVE  /\ Inner(r, l) /\ e \notin ahead[r][l] /\ up[r][<<e, l>>] = 1
         /\ \A d \in Child[r][l] : e \in ahead[d][l + 1]
<1>1. /\ <<e, l>> \in Keys /\ <<e, l>>[2] = l
      /\ up[r][<<e, l>>] \in Nat /\ recvEvent[r][<<e, l>>] \in Nat
  BY DEF KeysRight, Keys
<1>2. Inner(r, l)
  BY <1>1 DEF KeysRight
<1>3. Counted(r, l, e) = IF e \in ahead[r][l] THEN 0 ELSE Cardinality(ChildrenAhead(r, l, e))
  BY <1>2 DEF CountsRight
<1>4. e \notin ahead[r][l] /\ Counted(r, l, e) = Cardinality(ChildrenAhead(r, l, e))
  BY <1>1, <1>3 DEF Counted
<1>5. IsFiniteSet(Child[r][l]) /\ NbChild[r][l] = Cardinality(Child[r][l]) /\ NbChild[r][l] \in Nat
  BY <1>2, FiniteChildren
<1>6. ChildrenAhead(r, l, e) \in SUBSET Child[r][l]
  BY DEF ChildrenAhead
<1>7. /\ Cardinality(ChildrenAhead(r, l, e)) <= Cardinality(Child[r][l])
      /\ Cardinality(ChildrenAhead(r, l, e)) = Cardinality(Child[r][l])
           => ChildrenAhead(r, l, e) = Child[r][l]
  BY <1>5, <1>6, FS_Subset
<1>8. up[r][<<e, l>>] = 1 /\ Cardinality(ChildrenAhead(r, l, e)) = Cardinality(Child[r][l])
  BY <1>1, <1>4, <1>5, <1>7 DEF Counted
<1>9. QED BY <1>2, <1>4, <1>7, <1>8 DEF ChildrenAhead

(* A node counts one child, and not the last.                                 *)
LEMMA CountStep ==
  ASSUME SchedulerInv, NEW r \in Ranks, NEW e \in Events, NEW l \in 0 .. N,
         up[r][<<e, l>>] > 0, recvEvent[r][<<e, l>>] + 1 # NbChild[r][l],
         up' = [up EXCEPT ![r][<<e, l>>] = @ - 1],
         recvEvent' = [recvEvent EXCEPT ![r][<<e, l>>] = @ + 1],
         UNCHANGED <<tree, registered, waiting, down, stack, order, popped, ahead, got>>
  PROVE  SchedulerInv'
<1>1. KeysRight /\ CountsRight /\ AheadBelow /\ WaitingRight /\ GotRight /\ Channels /\ Kinds
  BY DEF SchedulerInv
<1>2. /\ <<e, l>> \in Keys
      /\ up \in [Ranks -> [Keys -> Nat]] /\ recvEvent \in [Ranks -> [Keys -> Nat]]
      /\ up[r][<<e, l>>] \in Nat \ {0} /\ recvEvent[r][<<e, l>>] \in Nat
      /\ up[r][<<e, l>>] - 1 \in Nat /\ recvEvent[r][<<e, l>>] + 1 \in Nat
  <2>1. <<e, l>> \in Keys
    BY DEF Keys
  <2>2. up \in [Ranks -> [Keys -> Nat]] /\ recvEvent \in [Ranks -> [Keys -> Nat]]
    BY <1>1 DEF KeysRight
  <2> QED BY <2>1, <2>2
<1>3. /\ up' \in [Ranks -> [Keys -> Nat]] /\ recvEvent' \in [Ranks -> [Keys -> Nat]]
      /\ \A x \in Ranks : \A m \in Keys :
           /\ up'[x][m] = IF x = r /\ m = <<e, l>> THEN up[x][m] - 1 ELSE up[x][m]
           /\ recvEvent'[x][m] = IF x = r /\ m = <<e, l>> THEN recvEvent[x][m] + 1
                                 ELSE recvEvent[x][m]
  <2>1. /\ up' = [up EXCEPT ![r][<<e, l>>] = up[r][<<e, l>>] - 1]
        /\ recvEvent' = [recvEvent EXCEPT ![r][<<e, l>>] = recvEvent[r][<<e, l>>] + 1]
    OBVIOUS
  <2>2. /\ up' \in [Ranks -> [Keys -> Nat]]
        /\ \A x \in Ranks : \A m \in Keys :
             up'[x][m] = IF x = r /\ m = <<e, l>> THEN up[r][<<e, l>>] - 1 ELSE up[x][m]
    BY <1>2, <2>1, OneCountChanged
  <2>3. /\ recvEvent' \in [Ranks -> [Keys -> Nat]]
        /\ \A x \in Ranks : \A m \in Keys :
             recvEvent'[x][m] = IF x = r /\ m = <<e, l>> THEN recvEvent[r][<<e, l>>] + 1
                                ELSE recvEvent[x][m]
    BY <1>2, <2>1, OneCountChanged
  <2> QED BY <2>2, <2>3
<1>4. KeysRight'
  <2>1. ASSUME NEW x \in Ranks, NEW m \in Keys, up'[x][m] + recvEvent'[x][m] > 0
        PROVE  Inner(x, m[2])
    <3>1. up[x][m] + recvEvent[x][m] > 0
      BY <1>2, <1>3, <2>1
    <3> QED BY <1>1, <3>1 DEF KeysRight
  <2> QED BY <1>3, <2>1 DEF KeysRight
<1>5. ASSUME NEW x \in Ranks, NEW k \in 0 .. N, NEW f \in Events, Inner(x, k)
      PROVE  /\ Counted(x, k, f)' = IF f \in ahead'[x][k] THEN 0
                                    ELSE Cardinality(ChildrenAhead(x, k, f)')
             /\ recvEvent'[x][<<f, k>>] < NbChild[x][k]
  <2>1. /\ Counted(x, k, f) = IF f \in ahead[x][k] THEN 0
                              ELSE Cardinality(ChildrenAhead(x, k, f))
        /\ recvEvent[x][<<f, k>>] < NbChild[x][k]
    BY <1>1, <1>5 DEF CountsRight
  <2>2. ChildrenAhead(x, k, f)' = ChildrenAhead(x, k, f)
    BY DEF ChildrenAhead
  <2>3. /\ <<f, k>> \in Keys /\ up[x][<<f, k>>] \in Nat /\ recvEvent[x][<<f, k>>] \in Nat
        /\ NbChild[x][k] \in Nat
    BY <1>2, <1>5, FiniteChildren DEF Keys
  <2>4. Counted(x, k, f)' = Counted(x, k, f)
    BY <1>2, <1>3, <2>3 DEF Counted
  <2>5. recvEvent'[x][<<f, k>>] < NbChild[x][k]
    <3>1. CASE x = r /\ f = e /\ k = l
      <4>1. recvEvent'[r][<<e, l>>] = recvEvent[r][<<e, l>>] + 1
        BY <1>2, <1>3
      <4> QED BY <2>1, <2>3, <3>1, <4>1
    <3>2. CASE ~ (x = r /\ f = e /\ k = l)
      <4>1. recvEvent'[x][<<f, k>>] = recvEvent[x][<<f, k>>]
        BY <1>3, <2>3, <3>2
      <4> QED BY <2>1, <4>1
    <3> QED BY <3>1, <3>2
  <2> QED BY <2>1, <2>2, <2>4, <2>5
<1>6. CountsRight'
  BY <1>5 DEF CountsRight
<1>7. AheadBelow' /\ \A x \in Ranks : Ahead(x)' = Ahead(x)
  BY <1>1 DEF AheadBelow, Ahead
<1>8. WaitingRight'
  BY <1>1, <1>7, WaitingSame
<1>9. GotRight' /\ Channels'
  BY <1>1, DownSame
<1>10. Kinds'
  BY <1>1 DEF Kinds
<1>11. QED BY <1>4, <1>6, <1>7, <1>8, <1>9, <1>10 DEF SchedulerInv

(* A node that is not the root has counted all its children: it forgets them  *)
(* and announces the event to its own parent.                                 *)
LEMMA AnnounceStep ==
  ASSUME SchedulerInv, NEW r \in Ranks, NEW e \in Events, NEW l \in 0 .. N, l # 0,
         up[r][<<e, l>>] > 0, recvEvent[r][<<e, l>>] + 1 = NbChild[r][l],
         up' = [[up EXCEPT ![r][<<e, l>>] = @ - 1] EXCEPT ![Parent[r][l]][<<e, l - 1>>] = @ + 1],
         recvEvent' = [recvEvent EXCEPT ![r][<<e, l>>] = 0],
         ahead' = [ahead EXCEPT ![r][l] = @ \cup {e}],
         UNCHANGED <<tree, registered, waiting, down, stack, order, popped, got>>
  PROVE  SchedulerInv'
<1> DEFINE P == Parent[r][l]
<1>1. KeysRight /\ CountsRight /\ AheadBelow /\ WaitingRight /\ GotRight /\ Channels /\ Kinds
  BY DEF SchedulerInv
<1>2. /\ Inner(r, l) /\ Node(r, l) /\ e \notin ahead[r][l] /\ up[r][<<e, l>>] = 1
      /\ \A d \in Child[r][l] : e \in ahead[d][l + 1]
  BY <1>1, AllAhead DEF Inner
<1>3. l \in 1 .. N /\ P \in Ranks /\ l - 1 \in 0 .. N /\ Inner(P, l - 1) /\ l # Level[r]
  BY <1>2, ParentNode DEF Inner
<1>4. AheadBelow' /\ e \notin ahead[P][l - 1] /\ OneMoreAhead(P, l - 1, e)
  BY <1>1, <1>2, Announces
<1> HIDE DEF P
<1>5. /\ <<e, l>> \in Keys /\ <<e, l - 1>> \in Keys /\ <<e, l>> # <<e, l - 1>>
      /\ up \in [Ranks -> [Keys -> Nat]] /\ recvEvent \in [Ranks -> [Keys -> Nat]]
  <2>1. <<e, l>> \in Keys /\ <<e, l - 1>> \in Keys /\ <<e, l>> # <<e, l - 1>>
    BY <1>3 DEF Keys
  <2> QED BY <1>1, <2>1 DEF KeysRight
<1>6. /\ up' \in [Ranks -> [Keys -> Nat]]
      /\ \A x \in Ranks : \A m \in Keys :
           up'[x][m] = IF x = r /\ m = <<e, l>> THEN 0
                       ELSE IF x = P /\ m = <<e, l - 1>> THEN up[x][m] + 1
                       ELSE up[x][m]
  <2>1. PICK mid : mid = [up EXCEPT ![r][<<e, l>>] = 0]
    OBVIOUS
  <2>2. /\ mid \in [Ranks -> [Keys -> Nat]]
        /\ \A x \in Ranks : \A m \in Keys :
             mid[x][m] = IF x = r /\ m = <<e, l>> THEN 0 ELSE up[x][m]
    BY <1>5, <2>1, OneCountChanged
  <2>3. up' = [mid EXCEPT ![P][<<e, l - 1>>] = mid[P][<<e, l - 1>>] + 1]
    BY <1>2, <1>5, <2>1 DEF P
  <2>4. PICK v \in Nat : v = mid[P][<<e, l - 1>>] + 1
    BY <1>3, <1>5, <2>2
  <2>5. /\ up' \in [Ranks -> [Keys -> Nat]]
        /\ \A x \in Ranks : \A m \in Keys :
             up'[x][m] = IF x = P /\ m = <<e, l - 1>> THEN v ELSE mid[x][m]
    <3>1. /\ P \in Ranks /\ <<e, l - 1>> \in Keys /\ mid \in [Ranks -> [Keys -> Nat]]
          /\ up' = [mid EXCEPT ![P][<<e, l - 1>>] = v]
      BY <1>3, <1>5, <2>2, <2>3, <2>4
    <3>2. mid[P] \in [Keys -> Nat] /\ [mid[P] EXCEPT ![<<e, l - 1>>] = v] \in [Keys -> Nat]
      BY <2>4, <3>1
    <3>3. up' = [mid EXCEPT ![P] = [mid[P] EXCEPT ![<<e, l - 1>>] = v]]
      BY <3>1
    <3>4. up' \in [Ranks -> [Keys -> Nat]]
      BY <3>1, <3>2, <3>3
    <3>5. ASSUME NEW x \in Ranks, NEW m \in Keys
          PROVE  up'[x][m] = IF x = P /\ m = <<e, l - 1>> THEN v ELSE mid[x][m]
      <4>1. up'[x] = IF x = P THEN [mid[P] EXCEPT ![<<e, l - 1>>] = v] ELSE mid[x]
        BY <3>1, <3>3
      <4> QED BY <3>1, <3>2, <4>1, ZenonT(40)
    <3> QED BY <3>4, <3>5
  <2>6. v = up[P][<<e, l - 1>>] + 1
    BY <1>3, <1>5, <2>2, <2>4
  <2>7. ASSUME NEW x \in Ranks, NEW m \in Keys
        PROVE  up'[x][m] = IF x = r /\ m = <<e, l>> THEN 0
                           ELSE IF x = P /\ m = <<e, l - 1>> THEN up[x][m] + 1
                           ELSE up[x][m]
    <3>1. up'[x][m] = IF x = P /\ m = <<e, l - 1>> THEN v ELSE mid[x][m]
      BY <2>5
    <3>2. mid[x][m] = IF x = r /\ m = <<e, l>> THEN 0 ELSE up[x][m]
      BY <2>2
    <3> QED BY <1>5, <2>6, <3>1, <3>2
  <2> QED BY <2>5, <2>7
<1>7. /\ recvEvent' \in [Ranks -> [Keys -> Nat]]
      /\ \A x \in Ranks : \A m \in Keys :
           recvEvent'[x][m] = IF x = r /\ m = <<e, l>> THEN 0 ELSE recvEvent[x][m]
  BY <1>5, OneCountChanged
<1>8. KeysRight'
  <2>1. ASSUME NEW x \in Ranks, NEW m \in Keys, up'[x][m] + recvEvent'[x][m] > 0
        PROVE  Inner(x, m[2])
    <3>1. CASE x = P /\ m = <<e, l - 1>>
      BY <1>3, <3>1
    <3>2. CASE ~ (x = P /\ m = <<e, l - 1>>)
      <4>1. up[x][m] + recvEvent[x][m] > 0
        <5>1. up'[x][m] = IF x = r /\ m = <<e, l>> THEN 0 ELSE up[x][m]
          BY <1>6, <3>2
        <5>2. recvEvent'[x][m] = IF x = r /\ m = <<e, l>> THEN 0 ELSE recvEvent[x][m]
          BY <1>7
        <5> QED BY <2>1, <5>1, <5>2
      <4> QED BY <1>1, <4>1 DEF KeysRight
    <3> QED BY <3>1, <3>2
  <2> QED BY <1>6, <1>7, <2>1 DEF KeysRight
<1>9. \A x \in Ranks, k \in 0 .. N :
        ahead'[x][k] = IF x = r /\ k = l THEN ahead[x][k] \cup {e} ELSE ahead[x][k]
  <2>1. ahead \in [Ranks -> [0 .. N -> SUBSET Events]] /\ r \in Ranks /\ l \in 0 .. N
    BY <1>1 DEF AheadBelow
  <2>2. ahead' = [ahead EXCEPT ![r][l] = ahead[r][l] \cup {e}]
    OBVIOUS
  <2> QED BY <2>1, <2>2
<1>10. ASSUME NEW x \in Ranks, NEW k \in 0 .. N, NEW f \in Events, Inner(x, k)
       PROVE  /\ Counted(x, k, f)' = IF f \in ahead'[x][k] THEN 0
                                     ELSE Cardinality(ChildrenAhead(x, k, f)')
              /\ recvEvent'[x][<<f, k>>] < NbChild[x][k]
  <2>1. /\ Counted(x, k, f) = IF f \in ahead[x][k] THEN 0
                              ELSE Cardinality(ChildrenAhead(x, k, f))
        /\ recvEvent[x][<<f, k>>] < NbChild[x][k]
    BY <1>1, <1>10 DEF CountsRight
  <2>2. /\ <<f, k>> \in Keys /\ up[x][<<f, k>>] \in Nat /\ recvEvent[x][<<f, k>>] \in Nat
        /\ NbChild[x][k] \in Nat
    BY <1>5, <1>10, FiniteChildren DEF Keys
  <2>3. Cardinality(ChildrenAhead(x, k, f)') = Cardinality(ChildrenAhead(x, k, f))
             + (IF x = P /\ k = l - 1 /\ f = e THEN 1 ELSE 0)
    BY <1>4, <1>10 DEF OneMoreAhead
  <2>4. Cardinality(ChildrenAhead(x, k, f)) \in Nat
    <3>1. IsFiniteSet(Child[x][k])
      BY <1>10, FiniteChildren
    <3> QED BY <3>1, FS_Subset, FS_CardinalityType DEF ChildrenAhead
  <2>5. Counted(x, k, f)' = up'[x][<<f, k>>] + recvEvent'[x][<<f, k>>]
    BY DEF Counted
  <2>6. recvEvent'[x][<<f, k>>] = IF x = r /\ f = e /\ k = l THEN 0 ELSE recvEvent[x][<<f, k>>]
    BY <1>7, <2>2
  <2>7. up'[x][<<f, k>>] = IF x = r /\ f = e /\ k = l THEN 0
                           ELSE IF x = P /\ f = e /\ k = l - 1 THEN up[x][<<f, k>>] + 1
                           ELSE up[x][<<f, k>>]
    BY <1>6, <2>2
  <2>8. recvEvent'[x][<<f, k>>] < NbChild[x][k]
    BY <2>1, <2>2, <2>6
  <2>9. CASE x = r /\ f = e /\ k = l
    <3>1. f \in ahead'[x][k]
      BY <1>9, <2>9, SMTT(30)
    <3>2. Counted(x, k, f)' = 0
      BY <2>5, <2>6, <2>7, <2>9
    <3> QED BY <2>8, <3>1, <3>2
  <2>10. CASE x = P /\ f = e /\ k = l - 1
    <3>1. ahead'[x][k] = ahead[x][k] /\ e \notin ahead[x][k]
      BY <1>3, <1>4, <1>9, <2>10
    <3>2. Counted(x, k, f)' = Counted(x, k, f) + 1
      BY <1>3, <2>2, <2>5, <2>6, <2>7, <2>10 DEF Counted
    <3>3. Cardinality(ChildrenAhead(x, k, f)') = Cardinality(ChildrenAhead(x, k, f)) + 1
      BY <2>3, <2>10
    <3> QED BY <2>1, <2>8, <2>10, <3>1, <3>2, <3>3
  <2>11. CASE ~ (x = r /\ f = e /\ k = l) /\ ~ (x = P /\ f = e /\ k = l - 1)
    <3>1. f \in ahead'[x][k] <=> f \in ahead[x][k]
      BY <1>9, <2>11
    <3>2. Counted(x, k, f)' = Counted(x, k, f)
      BY <2>2, <2>5, <2>6, <2>7, <2>11 DEF Counted
    <3>3. Cardinality(ChildrenAhead(x, k, f)') = Cardinality(ChildrenAhead(x, k, f))
      BY <2>3, <2>4, <2>11
    <3> QED BY <2>1, <2>8, <3>1, <3>2, <3>3
  <2> QED BY <2>9, <2>10, <2>11
<1>11. CountsRight'
  BY <1>10 DEF CountsRight
<1>12. \A x \in Ranks : Ahead(x)' = Ahead(x)
  BY <1>3, <1>9, RankFacts DEF Ahead
<1>13. WaitingRight'
  BY <1>1, <1>12, WaitingSame
<1>14. GotRight' /\ Channels'
  BY <1>1, DownSame
<1>15. Kinds'
  BY <1>1 DEF Kinds
<1>16. QED BY <1>4, <1>8, <1>11, <1>13, <1>14, <1>15 DEF SchedulerInv

(* The message at the head of a channel is the next one its node is to have.  *)
LEMMA HeadIsNext ==
  ASSUME GotRight, Channels, NEW s \in Ranks, NEW r \in Ranks, down[s][r] # <<>>
  PROVE  \E l \in 1 .. N :
           /\ l \in 1 .. Level[r] /\ Node(r, l) /\ s = Parent[r][l]
           /\ got[r][l] + 1 \in OnTheWay(r, l)
           /\ down[s][r][1] = <<order[got[r][l] + 1], l, got[r][l] + 1>>
<1>1. down[s][r] \in Seq(Events \X (1 .. N) \X Nat)
  BY DEF Channels
<1>2. Len(down[s][r]) \in Nat \ {0} /\ 1 \in 1 .. Len(down[s][r])
  BY <1>1, EmptySeq, LenProperties
<1>3. PICK m : m = down[s][r][1]
  OBVIOUS
<1>4. RightMessage(s, r, m)
  BY <1>2, <1>3 DEF Channels
<1>5. PICK l : l = m[2]
  OBVIOUS
<1>6. /\ m = <<order[m[3]], l, m[3]>> /\ l \in 1 .. Level[r] /\ Node(r, l) /\ s = Parent[r][l]
      /\ m[3] \in OnTheWay(r, l)
  BY <1>4, <1>5 DEF RightMessage
<1>7. l \in 1 .. N /\ l \in 0 .. N /\ l - 1 \in 0 .. N /\ Parent[r][l] \in Ranks
  BY <1>6, ParentNode, SchedulerAssumption
<1>8. got[r][l] \in Nat /\ got[Parent[r][l]][l - 1] \in Nat
  BY <1>7 DEF GotRight
<1>9. got[r][l] + 1 \in OnTheWay(r, l) /\ got[r][l] + 1 <= m[3]
  BY <1>6, <1>8, SMTT(30) DEF OnTheWay
<1>10. PICK i \in 1 .. Len(down[s][r]) : down[s][r][i] = <<order[got[r][l] + 1], l, got[r][l] + 1>>
  BY <1>6, <1>7, <1>9 DEF Channels
<1>11. i = 1
  <2>1. SUFFICES ASSUME 1 < i PROVE FALSE
    BY <1>10
  <2>2. down[s][r][1][2] = down[s][r][i][2]
    BY <1>3, <1>5, <1>10
  <2>3. down[s][r][1][3] < down[s][r][i][3]
    BY <1>2, <2>1, <2>2 DEF Channels
  <2>4. m[3] < got[r][l] + 1
    BY <1>3, <1>10, <2>3
  <2>5. m[3] \in Nat
    BY <1>6, <1>8 DEF OnTheWay
  <2> QED BY <1>8, <1>9, <2>4, <2>5
<1>12. QED BY <1>6, <1>7, <1>9, <1>10, <1>11

(* What a message in a channel is.                                            *)
LEMMA MessageFacts ==
  ASSUME GotRight, Channels, Len(order) \in Nat,
         NEW p \in Ranks, NEW d \in Ranks, NEW i \in 1 .. Len(down[p][d])
  PROVE  \E k \in 1 .. N, n \in Nat :
           /\ down[p][d][i] = <<order[n], k, n>>
           /\ k \in 1 .. Level[d] /\ Node(d, k) /\ p = Parent[d][k]
           /\ got[d][k] < n /\ n <= got[p][k - 1] /\ n <= Len(order) /\ 1 <= n
<1>1. PICK m : m = down[p][d][i]
  OBVIOUS
<1>2. RightMessage(p, d, m)
  BY <1>1 DEF Channels
<1>3. PICK k, n : k = m[2] /\ n = m[3]
  OBVIOUS
<1>4. /\ m = <<order[n], k, n>> /\ k \in 1 .. Level[d] /\ Node(d, k) /\ p = Parent[d][k]
      /\ n \in OnTheWay(d, k)
  BY <1>2, <1>3 DEF RightMessage
<1>5. /\ k \in 1 .. N /\ k \in 0 .. N /\ k - 1 \in 0 .. N /\ Parent[d][k] \in Ranks
      /\ Node(Parent[d][k], k - 1)
  BY <1>4, ParentNode, SchedulerAssumption
<1>6. got[d][k] \in Nat /\ got[p][k - 1] \in Nat /\ got[p][k - 1] <= Len(order)
  BY <1>4, <1>5 DEF GotRight
<1>7. n \in Nat /\ got[d][k] < n /\ n <= got[p][k - 1] /\ 1 <= n
  BY <1>4, <1>6 DEF OnTheWay
<1>8. n <= Len(order)
  BY <1>6, <1>7
<1>9. QED BY <1>1, <1>4, <1>5, <1>7, <1>8

(* What handling a message at the node (r, l) does to the channel from p to   *)
(* d: the message leaves that of the node's parent, and the event goes on     *)
(* those to its children.                                                     *)
Off(r, l, p, d) == IF l # 0 /\ p = Parent[r][l] /\ d = r THEN 1 ELSE 0
Onward(r, l, p, d) == p = r /\ Inner(r, l) /\ d \in Child[r][l]
Passed(r, l, n, e, p, d) ==
  /\ down'[p][d] \in Seq(Events \X (1 .. N) \X Nat)
  /\ Len(down'[p][d]) = Len(down[p][d]) - Off(r, l, p, d) + (IF Onward(r, l, p, d) THEN 1 ELSE 0)
  /\ \A i \in 1 .. Len(down[p][d]) - Off(r, l, p, d) :
       down'[p][d][i] = down[p][d][i + Off(r, l, p, d)]
  /\ Onward(r, l, p, d) => down'[p][d][Len(down'[p][d])] = <<e, l + 1, n>>

(* The node (r, l) has its next event, of the order as it may have grown, and *)
(* passes it on: the channels hold what is on the way again.                  *)
LEMMA PassOn ==
  ASSUME GotRight, Channels, NEW r \in Ranks, NEW l \in 0 .. N, Node(r, l),
         Len(order) \in Nat, Len(order') \in Nat,
         \A i \in 1 .. Len(order) : order'[i] = order[i],
         Len(order) <= Len(order'), got[r][l] + 1 <= Len(order'),
         l # 0 => /\ got[r][l] + 1 \in OnTheWay(r, l)
                  /\ Len(down[Parent[r][l]][r]) > 0
                  /\ down[Parent[r][l]][r][1] = <<order[got[r][l] + 1], l, got[r][l] + 1>>,
         got' = [got EXCEPT ![r][l] = got[r][l] + 1],
         \A p, d \in Ranks : Passed(r, l, got[r][l] + 1, order'[got[r][l] + 1], p, d)
  PROVE  /\ Channels'
         /\ got' \in [Ranks -> [0 .. N -> Nat]]
         /\ \A x \in Ranks, k \in 0 .. N : Node(x, k) =>
              got'[x][k] <= Len(order') /\ (k # 0 => got'[x][k] <= got'[Parent[x][k]][k - 1])
<1>1. PICK n : n = got[r][l] + 1
  OBVIOUS
<1>2. got \in [Ranks -> [0 .. N -> Nat]] /\ n \in Nat
  <2>1. got \in [Ranks -> [0 .. N -> Nat]]
    BY DEF GotRight
  <2>2. got[r][l] \in Nat
    BY <2>1
  <2> QED BY <1>1, <2>1, <2>2
<1>3. /\ got' \in [Ranks -> [0 .. N -> Nat]]
      /\ \A x \in Ranks, k \in 0 .. N : got'[x][k] = IF x = r /\ k = l THEN n ELSE got[x][k]
  BY <1>1, <1>2
<1>4. \A x \in Ranks, k \in 0 .. N : got[x][k] \in Nat /\ got[x][k] <= got'[x][k]
  <2> TAKE x \in Ranks, k \in 0 .. N
  <2>1. got[x][k] \in Nat /\ got[r][l] \in Nat
    BY <1>2
  <2>2. got'[x][k] = IF x = r /\ k = l THEN n ELSE got[x][k]
    BY <1>3
  <2> QED BY <1>1, <2>1, <2>2
<1>5. ASSUME NEW x \in Ranks, NEW k \in 0 .. N, Node(x, k)
      PROVE  got'[x][k] <= Len(order') /\ (k # 0 => got'[x][k] <= got'[Parent[x][k]][k - 1])
  <2>1. got[x][k] <= Len(order) /\ (k # 0 => got[x][k] <= got[Parent[x][k]][k - 1])
    BY <1>5 DEF GotRight
  <2>2. got'[x][k] <= Len(order')
    <3>1. got'[x][k] = IF x = r /\ k = l THEN n ELSE got[x][k]
      BY <1>3
    <3>2. n <= Len(order') /\ got[x][k] \in Nat
      BY <1>1, <1>2
    <3> QED BY <2>1, <3>1, <3>2
  <2>3. ASSUME k # 0 PROVE got'[x][k] <= got'[Parent[x][k]][k - 1]
    <3>1. Parent[x][k] \in Ranks /\ k - 1 \in 0 .. N
      BY <1>5, <2>3, ParentNode
    <3>2. got[Parent[x][k]][k - 1] <= got'[Parent[x][k]][k - 1] /\ got[Parent[x][k]][k - 1] \in Nat
          /\ got'[Parent[x][k]][k - 1] \in Nat
      BY <1>3, <1>4, <3>1
    <3>3. CASE x = r /\ k = l
      <4>1. n \in OnTheWay(r, l)
        BY <1>1, <2>3, <3>3
      <4>2. n <= got[Parent[x][k]][k - 1]
        BY <3>2, <3>3, <4>1 DEF OnTheWay
      <4>3. got'[x][k] = n
        BY <1>3, <3>3
      <4> QED BY <1>2, <3>2, <4>2, <4>3
    <3>4. CASE ~ (x = r /\ k = l)
      <4>1. got'[x][k] = got[x][k] /\ got[x][k] \in Nat
        BY <1>2, <1>3, <3>4, ZenonT(40)
      <4> QED BY <2>1, <2>3, <3>2, <4>1
    <3> QED BY <3>3, <3>4
  <2> QED BY <2>2, <2>3
<1>6. \A x \in Ranks, k \in 0 .. N : Node(x, k) /\ k # 0 =>
        OnTheWay(x, k)' = got'[x][k] + 1 .. got'[Parent[x][k]][k - 1]
  BY DEF OnTheWay
<1>7. ASSUME NEW p \in Ranks, NEW d \in Ranks
      PROVE  /\ Len(down[p][d]) \in Nat /\ Len(down'[p][d]) \in Nat
             /\ Off(r, l, p, d) \in {0, 1}
             /\ Off(r, l, p, d) = 1 =>
                  /\ l # 0 /\ p = Parent[r][l] /\ d = r /\ Len(down[p][d]) > 0
                  /\ down[p][d][1] = <<order[n], l, n>>
  <2>1. down[p][d] \in Seq(Events \X (1 .. N) \X Nat)
    BY DEF Channels
  <2>2. down'[p][d] \in Seq(Events \X (1 .. N) \X Nat)
    BY DEF Passed
  <2>3. Len(down[p][d]) \in Nat /\ Len(down'[p][d]) \in Nat
    BY <2>1, <2>2, LenProperties
  <2>4. Off(r, l, p, d) = IF l # 0 /\ p = Parent[r][l] /\ d = r THEN 1 ELSE 0
    BY DEF Off
  <2>5. l # 0 /\ p = Parent[r][l] /\ d = r =>
          Len(down[p][d]) > 0 /\ down[p][d][1] = <<order[n], l, n>>
    BY <1>1
  <2> QED BY <2>3, <2>4, <2>5
<1>8. ASSUME NEW p \in Ranks, NEW d \in Ranks, Onward(r, l, p, d)
      PROVE  /\ l + 1 \in 1 .. N /\ l + 1 \in 0 .. N /\ Node(d, l + 1) /\ Parent[d][l + 1] = r /\ p = r
             /\ l + 1 \in 1 .. Level[d] /\ l + 1 - 1 = l
             /\ got'[d][l + 1] = got[d][l + 1] /\ got[d][l + 1] < n /\ got'[r][l] = n
  <2>1. Inner(r, l) /\ d \in Child[r][l] /\ p = r
    BY <1>8 DEF Onward
  <2>2. /\ l + 1 \in 1 .. N /\ l + 1 \in 0 .. N /\ Node(d, l + 1) /\ Parent[d][l + 1] = r
        /\ l + 1 \in 1 .. Level[d] /\ l + 1 # 0 /\ l + 1 - 1 = l
    BY <2>1, ChildNode, ParentNode, SchedulerAssumption
  <2>3. got[d][l + 1] <= got[r][l] /\ got[r][l] \in Nat /\ got[d][l + 1] \in Nat
    <3>1. got[d][l + 1] <= got[Parent[d][l + 1]][l + 1 - 1]
      BY <2>2, SMTT(30) DEF GotRight
    <3> QED BY <1>2, <2>2, <3>1
  <2>4. got'[d][l + 1] = got[d][l + 1] /\ got'[r][l] = n
    BY <1>3, <2>2
  <2> QED BY <1>1, <2>1, <2>2, <2>3, <2>4
<1>9. ASSUME NEW p \in Ranks, NEW d \in Ranks, NEW i \in 1 .. Len(down'[p][d])
      PROVE  \/ /\ i \in 1 .. Len(down[p][d]) - Off(r, l, p, d)
                /\ i + Off(r, l, p, d) \in 1 .. Len(down[p][d])
                /\ down'[p][d][i] = down[p][d][i + Off(r, l, p, d)]
             \/ /\ i = Len(down'[p][d]) /\ Onward(r, l, p, d)
                /\ down'[p][d][i] = <<order'[n], l + 1, n>>
                /\ i > Len(down[p][d]) - Off(r, l, p, d)
  <2>1. /\ Len(down[p][d]) \in Nat /\ Len(down'[p][d]) \in Nat
        /\ Off(r, l, p, d) \in {0, 1}
    BY <1>7
  <2>2. /\ Len(down'[p][d]) = Len(down[p][d]) - Off(r, l, p, d)
                                + (IF Onward(r, l, p, d) THEN 1 ELSE 0)
        /\ \A j \in 1 .. Len(down[p][d]) - Off(r, l, p, d) :
             down'[p][d][j] = down[p][d][j + Off(r, l, p, d)]
        /\ Onward(r, l, p, d) => down'[p][d][Len(down'[p][d])] = <<order'[n], l + 1, n>>
    BY <1>1 DEF Passed
  <2>3. CASE i <= Len(down[p][d]) - Off(r, l, p, d)
    <3>1. i \in 1 .. Len(down[p][d]) - Off(r, l, p, d) /\ i + Off(r, l, p, d) \in 1 .. Len(down[p][d])
      BY <2>1, <2>3
    <3> QED BY <2>2, <3>1
  <2>4. CASE i > Len(down[p][d]) - Off(r, l, p, d)
    <3>1. Onward(r, l, p, d) /\ i = Len(down'[p][d])
      BY <2>1, <2>2, <2>4, SMTT(30)
    <3> QED BY <2>2, <2>4, <3>1
  <2> QED BY <2>1, <2>3, <2>4
<1>10. ASSUME NEW p \in Ranks, NEW d \in Ranks, NEW i \in 1 .. Len(down'[p][d]),
              NEW m, m = down'[p][d][i]
       PROVE  RightMessage(p, d, m)'
  <2>2. SUFFICES ASSUME NEW k \in 1 .. N, NEW nn \in Nat, m = <<order'[nn], k, nn>>,
                        k \in 1 .. Level[d], Node(d, k), p = Parent[d][k],
                        got'[d][k] < nn, nn <= got'[p][k - 1]
                 PROVE  RightMessage(p, d, m)'
    <3>1. CASE /\ i \in 1 .. Len(down[p][d]) - Off(r, l, p, d)
               /\ i + Off(r, l, p, d) \in 1 .. Len(down[p][d])
               /\ down'[p][d][i] = down[p][d][i + Off(r, l, p, d)]
      <4>1. PICK k \in 1 .. N, nn \in Nat :
              /\ down[p][d][i + Off(r, l, p, d)] = <<order[nn], k, nn>>
              /\ k \in 1 .. Level[d] /\ Node(d, k) /\ p = Parent[d][k]
              /\ got[d][k] < nn /\ nn <= got[p][k - 1] /\ nn <= Len(order) /\ 1 <= nn
        BY <3>1, MessageFacts, SMTT(30)
      <4>2. m = <<order'[nn], k, nn>>
        BY <1>10, <3>1, <4>1, SMTT(30)
      <4>3. k \in 0 .. N /\ k - 1 \in 0 .. N
        BY <4>1, SchedulerAssumption
      <4>4. nn <= got'[p][k - 1]
        BY <1>2, <1>3, <1>4, <4>1, <4>3, SMTT(30)
      <4>5. got'[d][k] < nn
        <5>1. CASE d = r /\ k = l
          <6>1. Off(r, l, p, d) = 1
            BY <4>1, <5>1 DEF Off
          <6>2. down[p][d][1] = <<order[n], l, n>>
            BY <1>7, <6>1
          <6>3. 1 \in 1 .. Len(down[p][d]) /\ 1 < i + 1 /\ i + 1 \in 1 .. Len(down[p][d])
            BY <1>7, <3>1, <6>1
          <6>4. /\ down[p][d][i + 1][2] = down[p][d][1][2]
                /\ down[p][d][1][3] = n /\ down[p][d][i + 1][3] = nn
            <7>1. down[p][d][i + 1] = <<order[nn], l, nn>>
              BY <4>1, <5>1, <6>1
            <7> QED BY <6>2, <7>1
          <6>5. n < nn
            BY <6>3, <6>4 DEF Channels
          <6> QED BY <1>3, <4>3, <5>1, <6>5
        <5>2. CASE ~ (d = r /\ k = l)
          BY <1>3, <4>1, <4>3, <5>2
        <5> QED BY <5>1, <5>2
      <4> QED BY <2>2, <4>1, <4>2, <4>4, <4>5
    <3>2. CASE i = Len(down'[p][d]) /\ Onward(r, l, p, d) /\ down'[p][d][i] = <<order'[n], l + 1, n>>
      <4>1. m = <<order'[n], l + 1, n>>
        BY <1>10, <3>2
      <4>2. /\ l + 1 \in 1 .. N /\ l + 1 \in 1 .. Level[d] /\ Node(d, l + 1) /\ p = Parent[d][l + 1]
            /\ got'[d][l + 1] < n /\ n <= got'[p][l + 1 - 1]
        BY <1>2, <1>8, <3>2
      <4>3. PICK k : k = l + 1
        OBVIOUS
      <4>4. /\ k \in 1 .. N /\ k \in 1 .. Level[d] /\ Node(d, k) /\ p = Parent[d][k]
            /\ got'[d][k] < n /\ n <= got'[p][k - 1] /\ m = <<order'[n], k, n>>
        BY <4>1, <4>2, <4>3
      <4> QED BY <1>2, <2>2, <4>4
    <3> QED BY <1>9, <3>1, <3>2, SMTT(30)
  <2>3. k \in 0 .. N /\ k - 1 \in 0 .. N /\ k # 0
    BY SchedulerAssumption
  <2>4. nn \in OnTheWay(d, k)'
    <3>1. got'[d][k] \in Nat /\ got'[p][k - 1] \in Nat
      BY <1>3, <2>3
    <3> QED BY <1>6, <2>2, <2>3, <3>1, SMTT(30)
  <2>5. m[1] = order'[nn] /\ m[2] = k /\ m[3] = nn
    BY <2>2
  <2>6. RightMessage(p, d, m)'
    BY <2>2, <2>4, <2>5 DEF RightMessage
  <2> QED BY <2>6
<1>11. ASSUME NEW p \in Ranks, NEW d \in Ranks, NEW i \in 1 .. Len(down'[p][d]),
              NEW j \in 1 .. Len(down'[p][d]), i < j, down'[p][d][i][2] = down'[p][d][j][2]
       PROVE  down'[p][d][i][3] < down'[p][d][j][3]
  <2> DEFINE o == Off(r, l, p, d)
  <2>0. o \in {0, 1} /\ Len(down[p][d]) \in Nat /\ Len(down'[p][d]) \in Nat
    BY <1>7
  <2> HIDE DEF o
  <2>1. CASE j \in 1 .. Len(down[p][d]) - o
    <3>1. i \in 1 .. Len(down[p][d]) - o
      BY <1>11, <2>0, <2>1
    <3>2. down'[p][d][i] = down[p][d][i + o] /\ down'[p][d][j] = down[p][d][j + o]
      BY <1>1, <2>1, <3>1 DEF Passed, o
    <3>3. i + o \in 1 .. Len(down[p][d]) /\ j + o \in 1 .. Len(down[p][d]) /\ i + o < j + o
      BY <1>11, <2>0, <2>1, <3>1
    <3>4. \A a, b \in 1 .. Len(down[p][d]) :
            a < b /\ down[p][d][a][2] = down[p][d][b][2] => down[p][d][a][3] < down[p][d][b][3]
      BY DEF Channels
    <3>5. down[p][d][i + o][3] < down[p][d][j + o][3]
      BY <1>11, <3>2, <3>3, <3>4
    <3> QED BY <3>2, <3>5
  <2>2. CASE ~ (j \in 1 .. Len(down[p][d]) - o)
    <3>1. /\ j = Len(down'[p][d]) /\ Onward(r, l, p, d)
          /\ down'[p][d][j] = <<order'[n], l + 1, n>>
      BY <1>9, <2>2, SMTT(30) DEF o
    <3>2. i # Len(down'[p][d])
      BY <1>11, <2>0, <3>1
    <3>3. /\ i + o \in 1 .. Len(down[p][d])
          /\ down'[p][d][i] = down[p][d][i + o]
      BY <1>9, <3>2 DEF o
    <3>4. PICK k \in 1 .. N, nn \in Nat :
            /\ down[p][d][i + o] = <<order[nn], k, nn>>
            /\ k \in 1 .. Level[d] /\ Node(d, k) /\ p = Parent[d][k]
            /\ got[d][k] < nn /\ nn <= got[p][k - 1] /\ nn <= Len(order) /\ 1 <= nn
      <4>1. PICK a : a = i + o
        OBVIOUS
      <4>2. a \in 1 .. Len(down[p][d])
        BY <3>3, <4>1
      <4>3. \E k \in 1 .. N, nn \in Nat :
              /\ down[p][d][a] = <<order[nn], k, nn>>
              /\ k \in 1 .. Level[d] /\ Node(d, k) /\ p = Parent[d][k]
              /\ got[d][k] < nn /\ nn <= got[p][k - 1] /\ nn <= Len(order) /\ 1 <= nn
        BY <4>2, MessageFacts, SMTT(30)
      <4> QED BY <4>1, <4>3
    <3>5. k = l + 1
      BY <1>11, <3>1, <3>3, <3>4, SMTT(30)
    <3>6. p = r /\ k - 1 = l
      BY <1>8, <3>1, <3>5
    <3>7. nn < n
      <4>1. nn <= got[r][l] /\ got[r][l] \in Nat
        BY <1>2, <3>4, <3>6
      <4> QED BY <1>1, <4>1
    <3> QED BY <3>1, <3>3, <3>4, <3>7, SMTT(30)
  <2> QED BY <2>1, <2>2
<1>12. ASSUME NEW x \in Ranks, NEW k \in 1 .. N, Node(x, k), NEW nn \in OnTheWay(x, k)'
       PROVE  \E i \in 1 .. Len(down'[Parent[x][k]][x]) :
                down'[Parent[x][k]][x][i] = <<order'[nn], k, nn>>
  <2>1. PICK y : y = Parent[x][k]
    OBVIOUS
  <2>2. /\ k \in 0 .. N /\ k - 1 \in 0 .. N /\ k # 0 /\ y \in Ranks
        /\ Node(y, k - 1) /\ Inner(y, k - 1) /\ x \in Child[y][k - 1]
    BY <1>12, <2>1, ParentNode, SchedulerAssumption
  <2>3. /\ got'[x][k] \in Nat /\ got'[y][k - 1] \in Nat /\ got[x][k] \in Nat /\ got[y][k - 1] \in Nat
        /\ got[x][k] <= got'[x][k]
    BY <1>2, <1>3, <1>4, <2>2
  <2>4. nn \in Nat /\ got'[x][k] < nn /\ nn <= got'[y][k - 1]
    <3>1. nn \in got'[x][k] + 1 .. got'[y][k - 1]
      BY <1>6, <1>12, <2>1, <2>2
    <3> QED BY <2>3, <3>1
  <2> DEFINE o == Off(r, l, y, x)
  <2>5. /\ o \in {0, 1} /\ Len(down[y][x]) \in Nat /\ Len(down'[y][x]) \in Nat
        /\ o = 1 => /\ y = Parent[r][l] /\ x = r /\ l # 0 /\ Len(down[y][x]) > 0
                    /\ down[y][x][1] = <<order[n], l, n>>
    BY <1>7, <2>2
  <2>6. /\ Len(down'[y][x]) = Len(down[y][x]) - o + (IF Onward(r, l, y, x) THEN 1 ELSE 0)
        /\ \A j \in 1 .. Len(down[y][x]) - o : down'[y][x][j] = down[y][x][j + o]
        /\ Onward(r, l, y, x) => down'[y][x][Len(down'[y][x])] = <<order'[n], l + 1, n>>
    BY <1>1, <2>2 DEF Passed
  <2> HIDE DEF o
  <2>7. CASE nn = n /\ y = r /\ k - 1 = l
    <3>1. Onward(r, l, y, x) /\ l + 1 = k
      BY <2>2, <2>7 DEF Onward
    <3>2. Len(down'[y][x]) \in 1 .. Len(down'[y][x])
      <4>1. o <= Len(down[y][x]) /\ o \in 0 .. 1
        BY <2>5
      <4>2. Len(down'[y][x]) = Len(down[y][x]) - o + 1
        BY <2>6, <3>1
      <4> QED BY <2>5, <4>1, <4>2
    <3>3. down'[y][x][Len(down'[y][x])] = <<order'[nn], k, nn>>
      BY <2>6, <2>7, <3>1
    <3> QED BY <2>1, <3>2, <3>3
  <2>8. CASE ~ (nn = n /\ y = r /\ k - 1 = l)
    <3>1. nn <= got[y][k - 1]
      <4>1. CASE y = r /\ k - 1 = l
        <5>1. got'[y][k - 1] = n /\ got[y][k - 1] = got[r][l] /\ nn # n
          BY <1>3, <2>8, <4>1
        <5> QED BY <1>1, <1>2, <2>3, <2>4, <5>1
      <4>2. CASE ~ (y = r /\ k - 1 = l)
        BY <1>3, <2>2, <2>4, <4>2
      <4> QED BY <4>1, <4>2
    <3>2. nn \in OnTheWay(x, k)
      BY <2>1, <2>3, <2>4, <3>1 DEF OnTheWay
    <3>3. PICK i \in 1 .. Len(down[y][x]) : down[y][x][i] = <<order[nn], k, nn>>
      BY <1>12, <2>1, <3>2 DEF Channels
    <3>4. nn \in 1 .. Len(order)
      <4>1. got[y][k - 1] <= Len(order)
        BY <2>2 DEF GotRight
      <4> QED BY <2>3, <2>4, <3>1, <4>1
    <3>5. down[y][x][i] = <<order'[nn], k, nn>>
      BY <3>3, <3>4
    <3>6. i # o
      <4>1. SUFFICES ASSUME o = 1, i = 1 PROVE FALSE
        BY <2>5
      <4>2. k = l /\ nn = n /\ x = r
        BY <2>5, <3>3, <4>1
      <4>3. got'[x][k] = n
        BY <1>3, <2>2, <4>2
      <4> QED BY <1>2, <2>4, <4>2, <4>3
    <3>7. /\ i - o \in 1 .. Len(down[y][x]) - o /\ i - o + o = i
          /\ i - o \in 1 .. Len(down'[y][x])
      <4>1. /\ o \in 0 .. 1 /\ Len(down[y][x]) \in Nat /\ Len(down'[y][x]) \in Nat
            /\ i \in 1 .. Len(down[y][x])
        BY <2>5
      <4>2. Len(down'[y][x]) >= Len(down[y][x]) - o
        BY <2>6, <4>1
      <4>3. CASE o = 0
        BY <4>1, <4>2, <4>3
      <4>4. CASE o = 1
        BY <3>6, <4>1, <4>2, <4>4, SMTT(30)
      <4> QED BY <2>5, <4>3, <4>4
    <3>8. down'[y][x][i - o] = down[y][x][i]
      BY <2>6, <3>7
    <3> QED BY <2>1, <3>5, <3>7, <3>8
  <2> QED BY <2>7, <2>8
<1>13. Channels'
  <2>1. \A p, d \in Ranks : down'[p][d] \in Seq(Events \X (1 .. N) \X Nat)
    BY DEF Passed
  <2>2. ASSUME NEW p \in Ranks, NEW d \in Ranks, NEW i \in 1 .. Len(down'[p][d])
        PROVE  RightMessage(p, d, down[p][d][i])'
    BY <1>10 DEF RightMessage
  <2> QED BY <1>11, <1>12, <2>1, <2>2 DEF Channels
<1>14. QED BY <1>3, <1>5, <1>13

(* An event added to the order is counted once more.                          *)
LEMMA TimesAppend ==
  ASSUME order \in Seq(Events), NEW e \in Events, order' = Append(order, e)
  PROVE  \A f : Times(f) \in Nat /\ Times(f)' = Times(f) + (IF f = e THEN 1 ELSE 0)
<1>1. /\ Len(order) \in Nat /\ Len(order') = Len(order) + 1 /\ order'[Len(order) + 1] = e
      /\ \A i \in 1 .. Len(order) : order'[i] = order[i]
  BY AppendProperties, LenProperties
<1>2. IsFiniteSet(1 .. Len(order))
  <2>1. Len(order) \in Int /\ 1 \in Int
    BY <1>1
  <2> QED BY <2>1, FS_Interval
<1> SUFFICES ASSUME NEW f PROVE Times(f) \in Nat /\ Times(f)' = Times(f) + (IF f = e THEN 1 ELSE 0)
  OBVIOUS
<1> DEFINE S == {i \in 1 .. Len(order) : order[i] = f}
           T == {i \in 1 .. Len(order') : order'[i] = f}
<1>3. IsFiniteSet(S)
  <2>1. S \in SUBSET (1 .. Len(order))
    OBVIOUS
  <2> HIDE DEF S
  <2> QED BY <1>2, <2>1, FS_Subset
<1>4. Len(order) + 1 \notin S
  BY <1>1
<1>5. T = IF f = e THEN S \cup {Len(order) + 1} ELSE S
  <2>1. ASSUME NEW i PROVE i \in T <=> i \in S \/ (i = Len(order) + 1 /\ f = e)
    <3>1. i \in 1 .. Len(order') <=> i \in 1 .. Len(order) \/ i = Len(order) + 1
      BY <1>1
    <3>2. CASE i \in 1 .. Len(order)
      <4>1. i # Len(order) + 1 /\ order'[i] = order[i]
        BY <1>1, <3>2
      <4> QED BY <3>1, <3>2, <4>1
    <3>3. CASE i \notin 1 .. Len(order)
      BY <1>1, <3>1, <3>3
    <3> QED BY <3>2, <3>3
  <2> QED BY <2>1
<1>6. Times(f) = Cardinality(S) /\ Times(f)' = Cardinality(T)
  BY DEF Times
<1> HIDE DEF S, T
<1>7. /\ Cardinality(S) \in Nat
      /\ Cardinality(S \cup {Len(order) + 1}) = Cardinality(S) + 1
  BY <1>3, <1>4, FS_CardinalityType, FS_AddElement
<1>8. QED BY <1>5, <1>6, <1>7

(* Once all children of the root have announced an event, everyone has.       *)
LEMMA EveryoneAhead ==
  ASSUME AheadBelow, NEW e \in Events, \A d \in Child[0][0] : e \in ahead[d][1]
  PROVE  \A c \in Ranks, k \in 0 .. N : Node(c, k) /\ k # 0 => e \in ahead[c][k]
<1> SUFFICES ASSUME NEW c \in Ranks, NEW k \in 0 .. N, Node(c, k), k # 0
             PROVE  e \in ahead[c][k]
  OBVIOUS
<1>1. Node(0, 0) /\ c \in Branch(0, 0)
  BY TreeHasShape DEF TreeShape
<1>2. PICK d \in Child[0][0] : Inner(0, 0) /\ c \in Branch(d, 1) /\ 1 <= k
  <2>1. 0 <= k /\ 0 + 1 = 1
    OBVIOUS
  <2>2. Inner(0, 0) /\ 0 + 1 <= k /\ \E d \in Child[0][0] : c \in Branch(d, 0 + 1)
    BY <1>1, <2>1, BelowNode
  <2> QED BY <2>1, <2>2
<1>3. Node(d, 1) /\ d \in Ranks /\ 1 \in 0 .. N
  <2>1. Node(d, 0 + 1) /\ d \in Ranks /\ 0 + 1 \in 1 .. N
    BY <1>2, ChildNode
  <2> QED BY <2>1, SchedulerAssumption
<1>4. ahead[d][1] \subseteq ahead[c][k]
  BY <1>2, <1>3 DEF AheadBelow
<1>5. QED BY <1>2, <1>4

(* Channels to each of which the same message may have been added.            *)
LEMMA MessageAdded ==
  ASSUME NEW M, NEW f \in [Ranks -> [Ranks -> Seq(M)]], NEW r \in Ranks, NEW C, NEW m \in M,
         NEW g, g = [f EXCEPT ![r] = [d \in Ranks |-> IF d \in C THEN Append(@[d], m) ELSE @[d]]]
  PROVE  /\ g \in [Ranks -> [Ranks -> Seq(M)]]
         /\ \A p, d \in Ranks : g[p][d] = IF p = r /\ d \in C THEN Append(f[p][d], m) ELSE f[p][d]
<1>1. PICK h : h = [d \in Ranks |-> IF d \in C THEN Append(f[r][d], m) ELSE f[r][d]]
  OBVIOUS
<1>2. g = [f EXCEPT ![r] = h]
  BY <1>1
<1>3. h \in [Ranks -> Seq(M)]
  <2>1. \A d \in Ranks : f[r][d] \in Seq(M)
    OBVIOUS
  <2>2. \A d \in Ranks : Append(f[r][d], m) \in Seq(M)
    BY <2>1, AppendProperties
  <2> QED BY <1>1, <2>1, <2>2
<1>4. g \in [Ranks -> [Ranks -> Seq(M)]] /\ \A p \in Ranks : g[p] = IF p = r THEN h ELSE f[p]
  BY <1>2, <1>3
<1>5. ASSUME NEW p \in Ranks, NEW d \in Ranks
      PROVE  g[p][d] = IF p = r /\ d \in C THEN Append(f[p][d], m) ELSE f[p][d]
  BY <1>1, <1>4
<1>6. QED BY <1>4, <1>5

(* What the root's broadcast does to the counts.                              *)
LEMMA BroadcastCounts ==
  ASSUME KeysRight, CountsRight, AheadBelow, NEW e \in Events, 0 \in Ranks, 0 \in 0 .. N,
         up[0][<<e, 0>>] > 0, recvEvent[0][<<e, 0>>] + 1 = NbChild[0][0],
         up' = [up EXCEPT ![0][<<e, 0>>] = @ - 1],
         recvEvent' = [recvEvent EXCEPT ![0][<<e, 0>>] = 0],
         ahead' = [s \in Ranks |-> [l \in 0 .. N |-> ahead[s][l] \ {e}]]
  PROVE  /\ KeysRight' /\ CountsRight' /\ AheadBelow'
         /\ \A x \in Ranks : Ahead(x)' = Ahead(x) \ {e} /\ e \in Ahead(x)
<1>1. /\ Inner(0, 0) /\ up[0][<<e, 0>>] = 1
      /\ \A d \in Child[0][0] : e \in ahead[d][1]
  <2>1. \A d \in Child[0][0] : e \in ahead[d][0 + 1]
    BY AllAhead
  <2> QED BY <2>1, AllAhead
<1>2. \A c \in Ranks, k \in 0 .. N : Node(c, k) /\ k # 0 => e \in ahead[c][k]
  BY <1>1, EveryoneAhead
<1>3. ahead \in [Ranks -> [0 .. N -> SUBSET Events]] /\ ahead[0][0] = {}
  BY DEF AheadBelow
<1>4. /\ ahead' \in [Ranks -> [0 .. N -> SUBSET Events]]
      /\ \A x \in Ranks, k \in 0 .. N : ahead'[x][k] = ahead[x][k] \ {e}
  BY <1>3
<1>5. AheadBelow'
  <2>1. ASSUME NEW r \in Ranks, NEW c \in Ranks, NEW l \in 0 .. N, NEW k \in 0 .. N,
               Node(r, l), Node(c, k), l <= k, c \in Branch(r, l)
        PROVE  ahead'[r][l] \subseteq ahead'[c][k]
    <3>1. ahead[r][l] \subseteq ahead[c][k]
      BY <2>1 DEF AheadBelow
    <3> QED BY <1>4, <3>1
  <2>2. ahead'[0][0] = {}
    BY <1>3, <1>4
  <2> QED BY <1>4, <2>1, <2>2 DEF AheadBelow
<1>6. \A x \in Ranks : Ahead(x)' = Ahead(x) \ {e} /\ e \in Ahead(x)
  BY <1>2, <1>4, RankFacts DEF Ahead
<1>7. /\ <<e, 0>> \in Keys
      /\ up \in [Ranks -> [Keys -> Nat]] /\ recvEvent \in [Ranks -> [Keys -> Nat]]
  BY DEF KeysRight, Keys
<1>8. /\ up' \in [Ranks -> [Keys -> Nat]] /\ recvEvent' \in [Ranks -> [Keys -> Nat]]
      /\ \A x \in Ranks : \A m \in Keys :
           /\ up'[x][m] = IF x = 0 /\ m = <<e, 0>> THEN 0 ELSE up[x][m]
           /\ recvEvent'[x][m] = IF x = 0 /\ m = <<e, 0>> THEN 0 ELSE recvEvent[x][m]
  <2>1. PICK h : h = up' /\ h = [up EXCEPT ![0][<<e, 0>>] = 0]
    BY <1>1
  <2>2. /\ h \in [Ranks -> [Keys -> Nat]]
        /\ \A x \in Ranks : \A m \in Keys :
             h[x][m] = IF x = 0 /\ m = <<e, 0>> THEN 0 ELSE up[x][m]
    <3>1. up \in [Ranks -> [Keys -> Nat]] /\ <<e, 0>> \in Keys /\ 0 \in Nat
      BY <1>7
    <3>2. h = [up EXCEPT ![0][<<e, 0>>] = 0]
      BY <2>1
    <3> QED BY <3>1, <3>2, OneCountChanged
  <2>3. /\ up' \in [Ranks -> [Keys -> Nat]]
        /\ \A x \in Ranks : \A m \in Keys :
             up'[x][m] = IF x = 0 /\ m = <<e, 0>> THEN 0 ELSE up[x][m]
    BY <2>1, <2>2
  <2>4. /\ recvEvent' \in [Ranks -> [Keys -> Nat]]
        /\ \A x \in Ranks : \A m \in Keys :
             recvEvent'[x][m] = IF x = 0 /\ m = <<e, 0>> THEN 0 ELSE recvEvent[x][m]
    BY <1>7, OneCountChanged
  <2> QED BY <2>3, <2>4
<1>9. KeysRight'
  <2>1. ASSUME NEW x \in Ranks, NEW m \in Keys, up'[x][m] + recvEvent'[x][m] > 0
        PROVE  Inner(x, m[2])
    <3>1. up[x][m] + recvEvent[x][m] > 0
      <4>1. up[x][m] \in Nat /\ recvEvent[x][m] \in Nat
        BY <1>7
      <4>2. up'[x][m] = 0 \/ up'[x][m] = up[x][m]
        BY <1>8
      <4>3. recvEvent'[x][m] = 0 \/ recvEvent'[x][m] = recvEvent[x][m]
        BY <1>8
      <4>4. SUFFICES ASSUME up[x][m] = 0, recvEvent[x][m] = 0 PROVE FALSE
        BY <4>1
      <4>5. up'[x][m] = 0 /\ recvEvent'[x][m] = 0
        BY <4>2, <4>3, <4>4
      <4> QED BY <2>1, <4>5
    <3> QED BY <3>1 DEF KeysRight
  <2> QED BY <1>8, <2>1 DEF KeysRight
<1>10. ASSUME NEW x \in Ranks, NEW k \in 0 .. N, NEW f \in Events, Inner(x, k)
       PROVE  /\ Counted(x, k, f)' = IF f \in ahead'[x][k] THEN 0
                                     ELSE Cardinality(ChildrenAhead(x, k, f)')
              /\ recvEvent'[x][<<f, k>>] < NbChild[x][k]
  <2>1. /\ Counted(x, k, f) = IF f \in ahead[x][k] THEN 0
                              ELSE Cardinality(ChildrenAhead(x, k, f))
        /\ recvEvent[x][<<f, k>>] < NbChild[x][k]
    BY <1>10 DEF CountsRight
  <2>2. /\ <<f, k>> \in Keys /\ up[x][<<f, k>>] \in Nat /\ recvEvent[x][<<f, k>>] \in Nat
        /\ NbChild[x][k] \in Nat
    BY <1>7, <1>10, FiniteChildren DEF Keys
  <2>3. Counted(x, k, f)' = up'[x][<<f, k>>] + recvEvent'[x][<<f, k>>]
    BY DEF Counted
  <2>4. recvEvent'[x][<<f, k>>] < NbChild[x][k]
    <3>1. recvEvent'[x][<<f, k>>] = 0 \/ recvEvent'[x][<<f, k>>] = recvEvent[x][<<f, k>>]
      BY <1>8, <2>2
    <3> QED BY <2>1, <2>2, <3>1
  <2>5. \A c \in Child[x][k] : c \in Ranks /\ k + 1 \in 0 .. N
    <3>1. \A c \in Child[x][k] : c \in Ranks /\ k + 1 \in 1 .. N
      BY <1>10, ChildNode
    <3> QED BY <3>1
  <2>6. ChildrenAhead(x, k, f)' = {c \in Child[x][k] : f \in ahead'[c][k + 1]}
    BY DEF ChildrenAhead
  <2>7. CASE f = e
    <3>1. f \notin ahead'[x][k]
      BY <1>4, <2>7
    <3>2. ChildrenAhead(x, k, f)' = {}
      BY <1>4, <2>5, <2>6, <2>7
    <3>3. Counted(x, k, f)' = 0
      <4>1. CASE x = 0 /\ k = 0
        <5>1. up'[x][<<f, k>>] = 0 /\ recvEvent'[x][<<f, k>>] = 0
          BY <1>8, <2>2, <2>7, <4>1
        <5> QED BY <2>3, <5>1
      <4>2. CASE ~ (x = 0 /\ k = 0)
        <5>1. Node(x, k) /\ k # 0
          BY <1>10, <4>2, TreeHasShape DEF Inner, TreeShape
        <5>2. Counted(x, k, f) = 0
          BY <1>2, <2>1, <2>7, <5>1
        <5>3. up'[x][<<f, k>>] = up[x][<<f, k>>] /\ recvEvent'[x][<<f, k>>] = recvEvent[x][<<f, k>>]
          BY <1>8, <2>2, <5>1
        <5> QED BY <2>3, <5>2, <5>3 DEF Counted
      <4> QED BY <4>1, <4>2
    <3>4. Cardinality(ChildrenAhead(x, k, f)') = 0
      BY <3>2, FS_EmptySet
    <3> QED BY <2>4, <3>1, <3>3, <3>4
  <2>8. CASE f # e
    <3>1. f \in ahead'[x][k] <=> f \in ahead[x][k]
      BY <1>4, <2>8
    <3>2. ChildrenAhead(x, k, f)' = ChildrenAhead(x, k, f)
      BY <1>4, <2>5, <2>6, <2>8 DEF ChildrenAhead
    <3>3. Counted(x, k, f)' = Counted(x, k, f)
      BY <1>8, <2>2, <2>3, <2>8 DEF Counted
    <3> QED BY <2>1, <2>4, <3>1, <3>2, <3>3
  <2> QED BY <2>7, <2>8
<1>11. CountsRight'
  BY <1>10 DEF CountsRight
<1>12. QED BY <1>5, <1>6, <1>9, <1>11

(* The root broadcasts an event that all its children have announced.         *)
LEMMA BroadcastStep ==
  ASSUME SchedulerInv, NEW e \in Events,
         up[0][<<e, 0>>] > 0, recvEvent[0][<<e, 0>>] + 1 = NbChild[0][0],
         up' = [up EXCEPT ![0][<<e, 0>>] = @ - 1],
         recvEvent' = [recvEvent EXCEPT ![0][<<e, 0>>] = 0],
         down' = [down EXCEPT ![0] = [d \in Ranks |-> IF d \in Child[0][0]
                                        THEN Append(@[d], <<e, 1, Len(order) + 1>>) ELSE @[d]]],
         order' = Append(order, e),
         ahead' = [s \in Ranks |-> [l \in 0 .. N |-> ahead[s][l] \ {e}]],
         got' = [got EXCEPT ![0][0] = Len(order) + 1],
         UNCHANGED <<tree, registered, waiting, stack, popped>>
  PROVE  SchedulerInv' /\ \A x \in Ranks : registered[x][e] > Times(e)
<1>1. KeysRight /\ CountsRight /\ AheadBelow /\ WaitingRight /\ GotRight /\ Channels /\ Kinds
  BY DEF SchedulerInv
<1>2. /\ 0 \in Ranks /\ 0 \in 0 .. N /\ 1 \in 1 .. N /\ Node(0, 0)
  BY SchedulerAssumption, TreeHasShape DEF Ranks, TreeShape
<1>3. /\ KeysRight' /\ CountsRight' /\ AheadBelow'
      /\ \A x \in Ranks : Ahead(x)' = Ahead(x) \ {e} /\ e \in Ahead(x)
  BY <1>1, <1>2, BroadcastCounts
<1>4. order \in Seq(Events)
  BY <1>1 DEF Kinds
<1>5. /\ Len(order) \in Nat /\ Len(order') = Len(order) + 1 /\ order'[Len(order) + 1] = e
      /\ \A i \in 1 .. Len(order) : order'[i] = order[i]
      /\ order' \in Seq(Events)
  BY <1>4, AppendProperties, LenProperties
<1>6. /\ down \in [Ranks -> [Ranks -> Seq(Events \X (1 .. N) \X Nat)]]
      /\ <<e, 1, Len(order) + 1>> \in Events \X (1 .. N) \X Nat
  BY <1>1, <1>2, <1>5, SMTT(30) DEF Kinds
<1>7. /\ down' \in [Ranks -> [Ranks -> Seq(Events \X (1 .. N) \X Nat)]]
      /\ \A p, d \in Ranks : down'[p][d] = IF p = 0 /\ d \in Child[0][0]
                                             THEN Append(down[p][d], <<e, 1, Len(order) + 1>>)
                                             ELSE down[p][d]
  BY <1>2, <1>6, MessageAdded
<1>8. Kinds'
  BY <1>1, <1>5, <1>7 DEF Kinds
<1>9. got[0][0] = Len(order) /\ got \in [Ranks -> [0 .. N -> Nat]]
  BY <1>1 DEF GotRight
<1>10. Inner(0, 0)
  BY <1>2, RankFacts, SchedulerAssumption DEF Inner
<1>11. ASSUME NEW p \in Ranks, NEW d \in Ranks
       PROVE  Passed(0, 0, got[0][0] + 1, order'[got[0][0] + 1], p, d)
  <2>1. /\ Off(0, 0, p, d) = 0 /\ (Onward(0, 0, p, d) <=> p = 0 /\ d \in Child[0][0])
        /\ got[0][0] + 1 = Len(order) + 1 /\ order'[got[0][0] + 1] = e /\ 0 + 1 = 1
    BY <1>5, <1>9, <1>10 DEF Off, Onward
  <2>2. PICK q : q = down[p][d]
    OBVIOUS
  <2>3. q \in Seq(Events \X (1 .. N) \X Nat) /\ Len(q) \in Nat
    BY <1>6, <2>2, LenProperties
  <2>4. /\ Len(q) - 0 = Len(q) /\ Len(q) + 0 = Len(q)
        /\ \A i \in 1 .. Len(q) : i + 0 = i
    BY <2>3
  <2>5. CASE p = 0 /\ d \in Child[0][0]
    <3>1. down'[p][d] = Append(q, <<e, 1, Len(order) + 1>>)
      BY <1>7, <2>2, <2>5
    <3>2. /\ Append(q, <<e, 1, Len(order) + 1>>) \in Seq(Events \X (1 .. N) \X Nat)
          /\ Len(Append(q, <<e, 1, Len(order) + 1>>)) = Len(q) + 1
          /\ \A i \in 1 .. Len(q) : Append(q, <<e, 1, Len(order) + 1>>)[i] = q[i]
          /\ Append(q, <<e, 1, Len(order) + 1>>)[Len(q) + 1] = <<e, 1, Len(order) + 1>>
      BY <1>6, <2>3, AppendProperties
    <3> QED BY <2>1, <2>2, <2>4, <2>5, <3>1, <3>2 DEF Passed
  <2>6. CASE ~ (p = 0 /\ d \in Child[0][0])
    <3>1. down'[p][d] = q
      BY <1>7, <2>2, <2>6
    <3> QED BY <2>1, <2>2, <2>3, <2>4, <2>6, <3>1 DEF Passed
  <2> QED BY <2>5, <2>6
<1>12. /\ Channels' /\ got' \in [Ranks -> [0 .. N -> Nat]]
       /\ \A x \in Ranks, k \in 0 .. N : Node(x, k) =>
            got'[x][k] <= Len(order') /\ (k # 0 => got'[x][k] <= got'[Parent[x][k]][k - 1])
  <2>1. /\ Len(order') \in Nat /\ Len(order) <= Len(order') /\ got[0][0] + 1 <= Len(order')
        /\ got' = [got EXCEPT ![0][0] = got[0][0] + 1]
    BY <1>5, <1>9
  <2> QED BY <1>1, <1>2, <1>5, <1>11, <2>1, PassOn
<1>13. \A x \in Ranks, k \in 0 .. N : got'[x][k] = IF x = 0 /\ k = 0 THEN Len(order) + 1 ELSE got[x][k]
  BY <1>2, <1>5, <1>9
<1>14. \A x \in Ranks : /\ popped[x] \in Nat /\ Len(stack[x]) \in Nat
                        /\ popped[x] + Len(stack[x]) <= Len(order)
  <2> TAKE x \in Ranks
  <2>1. popped[x] \in Nat /\ stack[x] \in Seq(Events)
    BY <1>1 DEF Kinds
  <2>2. got[x][Level[x]] <= Len(order) /\ got[x][Level[x]] = popped[x] + Len(stack[x])
    BY <1>1, RankFacts DEF GotRight
  <2> QED BY <2>1, <2>2, LenProperties
<1>15. GotRight'
  <2>1. got'[0][0] = Len(order')
    BY <1>2, <1>5, <1>13
  <2>2. ASSUME NEW x \in Ranks
        PROVE  /\ got'[x][Level[x]] = popped'[x] + Len(stack'[x])
               /\ \A i \in 1 .. Len(stack'[x]) : stack'[x][i] = order'[popped'[x] + i]
    <3>1. got'[x][Level[x]] = got[x][Level[x]]
      BY <1>13, RankFacts
    <3>2. /\ got[x][Level[x]] = popped[x] + Len(stack[x])
          /\ \A i \in 1 .. Len(stack[x]) : stack[x][i] = order[popped[x] + i]
      BY <1>1 DEF GotRight
    <3>3. \A i \in 1 .. Len(stack[x]) : popped[x] + i \in 1 .. Len(order)
      BY <1>5, <1>14
    <3> QED BY <1>5, <3>1, <3>2, <3>3
  <2> QED BY <1>12, <2>1, <2>2 DEF GotRight
<1>16. \A f : Times(f) \in Nat /\ Times(f)' = Times(f) + (IF f = e THEN 1 ELSE 0)
  BY <1>4, TimesAppend
<1>17. ASSUME NEW x \in Ranks
       PROVE  /\ \A f \in Events : f \in waiting'[x] <=> f \in Ahead(x)' \/ \E i \in Due(x)' : order'[i] = f
              /\ \A i \in Due(x)' : order'[i] \notin Ahead(x)'
              /\ \A i, j \in Due(x)' : order'[i] = order'[j] => i = j
              /\ \A f \in Events : registered'[x][f] = Times(f)' + (IF f \in Ahead(x)' THEN 1 ELSE 0)
              /\ registered[x][e] > Times(e)
  <2>1. Ahead(x)' = Ahead(x) \ {e} /\ e \in Ahead(x)
    BY <1>3
  <2>2. popped[x] \in Nat /\ popped[x] <= Len(order)
    BY <1>5, <1>14
  <2>3. \A i : i \in Due(x)' <=> i \in Due(x) \/ i = Len(order) + 1
    <3>1. Due(x)' = popped[x] + 1 .. Len(order) + 1
      BY <1>5 DEF Due
    <3> QED BY <1>5, <2>2, <3>1 DEF Due
  <2>4. \A i \in Due(x) : order'[i] = order[i] /\ i # Len(order) + 1
    <3>1. \A i \in Due(x) : i \in 1 .. Len(order)
      BY <1>5, <2>2 DEF Due
    <3> QED BY <1>5, <3>1
  <2>5. /\ \A f \in Events : f \in waiting[x] <=> f \in Ahead(x) \/ \E i \in Due(x) : order[i] = f
        /\ \A i \in Due(x) : order[i] \notin Ahead(x)
        /\ \A i, j \in Due(x) : order[i] = order[j] => i = j
        /\ \A f \in Events : registered[x][f] = Times(f) + (IF f \in Ahead(x) THEN 1 ELSE 0)
    BY <1>1 DEF WaitingRight
  <2>6. \A f \in Events : f \in waiting'[x] <=> f \in Ahead(x)' \/ \E i \in Due(x)' : order'[i] = f
    <3> SUFFICES ASSUME NEW f \in Events
                 PROVE  f \in waiting[x] <=> f \in Ahead(x)' \/ \E i \in Due(x)' : order'[i] = f
      OBVIOUS
    <3>1. (\E i \in Due(x)' : order'[i] = f) <=> (\E i \in Due(x) : order[i] = f) \/ f = e
      BY <1>5, <2>3, <2>4
    <3>2. f \in waiting[x] <=> f \in Ahead(x) \/ \E i \in Due(x) : order[i] = f
      BY <2>5
    <3> QED BY <2>1, <3>1, <3>2
  <2>7. \A i \in Due(x)' : order'[i] \notin Ahead(x)'
    BY <1>5, <2>1, <2>3, <2>4, <2>5
  <2>8. \A i, j \in Due(x)' : order'[i] = order'[j] => i = j
    <3> SUFFICES ASSUME NEW i \in Due(x)', NEW j \in Due(x)', order'[i] = order'[j]
                 PROVE  i = j
      OBVIOUS
    <3>1. \A k \in Due(x) : order'[k] = order[k] /\ order[k] # e
      BY <2>1, <2>4, <2>5, ZenonT(40)
    <3>2. i \in Due(x) <=> j \in Due(x)
      BY <1>5, <2>3, <3>1
    <3>3. CASE i \in Due(x)
      BY <2>5, <3>1, <3>2, <3>3
    <3>4. CASE i \notin Due(x)
      BY <2>3, <3>2, <3>4
    <3> QED BY <3>3, <3>4
  <2>9. \A f \in Events : registered'[x][f] = Times(f)' + (IF f \in Ahead(x)' THEN 1 ELSE 0)
    BY <1>16, <2>1, <2>5
  <2>10. registered[x][e] > Times(e)
    BY <1>16, <2>1, <2>5
  <2> QED BY <2>6, <2>7, <2>8, <2>9, <2>10
<1>18. WaitingRight'
  BY <1>17 DEF WaitingRight
<1>19. QED BY <1>3, <1>8, <1>12, <1>15, <1>17, <1>18 DEF SchedulerInv

(* Channels one of which has lost its oldest message.                         *)
LEMMA MessageTaken ==
  ASSUME NEW M, NEW f \in [Ranks -> [Ranks -> Seq(M)]], NEW s \in Ranks, NEW r \in Ranks,
         f[s][r] # <<>>, NEW g, g = [f EXCEPT ![s][r] = Tail(@)]
  PROVE  /\ g \in [Ranks -> [Ranks -> Seq(M)]]
         /\ \A p, d \in Ranks : g[p][d] = IF p = s /\ d = r THEN Tail(f[p][d]) ELSE f[p][d]
<1>1. PICK t : t = Tail(f[s][r])
  OBVIOUS
<1>2. f[s] \in [Ranks -> Seq(M)] /\ f[s][r] \in Seq(M) /\ t \in Seq(M)
  BY <1>1, HeadTailProperties
<1>3. PICK h : h = [f[s] EXCEPT ![r] = t]
  OBVIOUS
<1>4. g = [f EXCEPT ![s] = h]
  BY <1>1, <1>3
<1>5. h \in [Ranks -> Seq(M)] /\ \A d \in Ranks : h[d] = IF d = r THEN t ELSE f[s][d]
  BY <1>2, <1>3
<1>6. g \in [Ranks -> [Ranks -> Seq(M)]] /\ \A p \in Ranks : g[p] = IF p = s THEN h ELSE f[p]
  BY <1>4, <1>5
<1>7. ASSUME NEW p \in Ranks, NEW d \in Ranks
      PROVE  g[p][d] = IF p = s /\ d = r THEN Tail(f[p][d]) ELSE f[p][d]
  BY <1>1, <1>5, <1>6
<1>8. QED BY <1>6, <1>7

(* A channel from which a message may have been taken and to which one may    *)
(* have been added.                                                           *)
LEMMA PassedMessage ==
  ASSUME NEW r, NEW l, NEW n, NEW e, NEW p, NEW d, NEW mid,
         down[p][d] \in Seq(Events \X (1 .. N) \X Nat),
         Off(r, l, p, d) = 1 => down[p][d] # <<>>,
         mid = IF Off(r, l, p, d) = 1 THEN Tail(down[p][d]) ELSE down[p][d],
         Onward(r, l, p, d) => <<e, l + 1, n>> \in Events \X (1 .. N) \X Nat,
         down'[p][d] = IF Onward(r, l, p, d) THEN Append(mid, <<e, l + 1, n>>) ELSE mid
  PROVE  Passed(r, l, n, e, p, d)
<1>1. PICK o, q, m, MM : /\ o = Off(r, l, p, d) /\ q = down[p][d] /\ m = <<e, l + 1, n>>
                         /\ MM = Events \X (1 .. N) \X Nat
  OBVIOUS
<1>2. q \in Seq(MM) /\ Len(q) \in Nat /\ o \in {0, 1} /\ (o = 1 => q # <<>>)
  BY <1>1, LenProperties DEF Off
<1>3. /\ mid \in Seq(MM) /\ Len(mid) \in Nat /\ Len(mid) = Len(q) - o
      /\ \A i \in 1 .. Len(q) - o : mid[i] = q[i + o]
  <2>1. CASE o = 0
    <3>1. mid = q /\ Len(q) - 0 = Len(q) /\ \A i \in 1 .. Len(q) : i + 0 = i
      BY <1>1, <1>2, <2>1
    <3> QED BY <1>2, <2>1, <3>1
  <2>2. CASE o = 1
    <3>1. mid = Tail(q) /\ q # <<>>
      BY <1>1, <1>2, <2>2
    <3>2. /\ Tail(q) \in Seq(MM) /\ Len(Tail(q)) = Len(q) - 1
          /\ \A i \in 1 .. Len(Tail(q)) : Tail(q)[i] = q[i + 1]
      BY <1>2, <3>1, HeadTailProperties
    <3>3. Len(Tail(q)) \in Nat
      BY <3>2, LenProperties
    <3> QED BY <2>2, <3>1, <3>2, <3>3
  <2> QED BY <1>2, <2>1, <2>2
<1>4. CASE Onward(r, l, p, d)
  <2>1. down'[p][d] = Append(mid, m) /\ m \in MM
    BY <1>1, <1>4
  <2>2. /\ Append(mid, m) \in Seq(MM) /\ Len(Append(mid, m)) = Len(mid) + 1
        /\ \A i \in 1 .. Len(mid) : Append(mid, m)[i] = mid[i]
        /\ Append(mid, m)[Len(mid) + 1] = m
    BY <1>3, <2>1, AppendProperties
  <2> QED BY <1>1, <1>3, <1>4, <2>1, <2>2 DEF Passed
<1>5. CASE ~ Onward(r, l, p, d)
  <2>1. down'[p][d] = mid
    BY <1>5
  <2>2. Len(q) - o + 0 = Len(mid)
    BY <1>3
  <2> QED BY <1>1, <1>3, <1>5, <2>1, <2>2 DEF Passed
<1>6. QED BY <1>4, <1>5

(* A rank handles the oldest message from another.                            *)
LEMMA HandStep ==
  ASSUME SchedulerInv, NEW r \in Ranks, NEW s \in Ranks, CheckParentRequest(r, s)
  PROVE  SchedulerInv'
<1>1. KeysRight /\ CountsRight /\ AheadBelow /\ WaitingRight /\ GotRight /\ Channels /\ Kinds
  BY DEF SchedulerInv
<1>2. level = Level /\ child = Child
  BY <1>1, Fields DEF Kinds
<1>3. down[s][r] # <<>>
  BY DEF CheckParentRequest
<1>4. PICK l \in 1 .. N :
        /\ l \in 1 .. Level[r] /\ Node(r, l) /\ s = Parent[r][l]
        /\ got[r][l] + 1 \in OnTheWay(r, l)
        /\ down[s][r][1] = <<order[got[r][l] + 1], l, got[r][l] + 1>>
  BY <1>1, <1>3, HeadIsNext
<1>5. PICK n, e : n = got[r][l] + 1 /\ e = order[n]
  OBVIOUS
<1>6. Head(down[s][r]) = <<e, l, n>>
  BY <1>4, <1>5
<1>7. PICK received : received = [down EXCEPT ![s][r] = Tail(@)]
  OBVIOUS
<1>8. /\ \/ /\ l = Level[r]
            /\ stack' = [stack EXCEPT ![r] = Append(@, e)]
            /\ down' = received
         \/ /\ l # Level[r]
            /\ down' = [received EXCEPT ![r] = [d \in Ranks |-> IF d \in Child[r][l]
                                                   THEN Append(@[d], <<e, l + 1, n>>) ELSE @[d]]]
            /\ UNCHANGED stack
      /\ got' = [got EXCEPT ![r][l] = n]
      /\ UNCHANGED <<tree, registered, waiting, up, recvEvent, order, popped, ahead>>
  <2>1. Head(down[s][r])[1] = e /\ Head(down[s][r])[2] = l /\ Head(down[s][r])[3] = n
    BY <1>6
  <2>2. /\ \/ /\ IsLeaf(r, l)
              /\ stack' = [stack EXCEPT ![r] = Pushed(@, e)]
              /\ down' = received
           \/ /\ ~ IsLeaf(r, l)
              /\ down' = SentDown(received, r, e, l, n)
              /\ UNCHANGED stack
        /\ got' = [got EXCEPT ![r][l] = n]
        /\ UNCHANGED <<tree, registered, waiting, up, recvEvent, order, popped, ahead>>
    BY <1>7, <2>1 DEF CheckParentRequest
  <2>3. IsLeaf(r, l) <=> l = Level[r]
    BY <1>2 DEF IsLeaf
  <2>4. SentDown(received, r, e, l, n) =
          [received EXCEPT ![r] = [d \in Ranks |-> IF d \in Child[r][l]
                                     THEN Append(@[d], <<e, l + 1, n>>) ELSE @[d]]]
    BY <1>2 DEF SentDown, Receivers
  <2>5. Pushed(stack[r], e) = Append(stack[r], e)
    BY DEF Pushed
  <2> QED BY <2>2, <2>3, <2>4, <2>5
<1>9. /\ l # 0 /\ l \in 0 .. N /\ l - 1 \in 0 .. N /\ Level[r] \in 1 .. N
      /\ Node(Parent[r][l], l - 1) /\ Parent[r][l] \in Ranks /\ l <= Level[r]
  BY <1>4, ParentNode, RankFacts, SchedulerAssumption
<1>10. /\ got \in [Ranks -> [0 .. N -> Nat]] /\ got[r][l] \in Nat /\ n \in Nat
       /\ n <= Len(order) /\ n \in 1 .. Len(order) /\ Len(order) \in Nat /\ e \in Events
  <2>1. got \in [Ranks -> [0 .. N -> Nat]]
    BY <1>1 DEF GotRight
  <2>2. got[r][l] \in Nat /\ got[Parent[r][l]][l - 1] \in Nat
    BY <1>9, <2>1
  <2>3. n <= got[Parent[r][l]][l - 1]
    BY <1>4, <1>5, <2>2 DEF OnTheWay
  <2>4. got[Parent[r][l]][l - 1] <= Len(order)
    BY <1>1, <1>9 DEF GotRight
  <2>5. order \in Seq(Events) /\ Len(order) \in Nat
    BY <1>1, LenProperties DEF Kinds
  <2>6. n \in 1 .. Len(order) /\ n <= Len(order) /\ n \in Nat
    BY <1>5, <2>2, <2>3, <2>4, <2>5
  <2>7. e \in Events
    BY <1>5, <2>5, <2>6, ElementOfSeq
  <2> QED BY <2>1, <2>2, <2>5, <2>6, <2>7
<1>11. down \in [Ranks -> [Ranks -> Seq(Events \X (1 .. N) \X Nat)]]
  BY <1>1 DEF Kinds
<1>12. /\ received \in [Ranks -> [Ranks -> Seq(Events \X (1 .. N) \X Nat)]]
       /\ \A p, d \in Ranks : received[p][d] = IF p = s /\ d = r THEN Tail(down[p][d]) ELSE down[p][d]
  BY <1>3, <1>7, <1>11, MessageTaken
<1>13. /\ down' \in [Ranks -> [Ranks -> Seq(Events \X (1 .. N) \X Nat)]]
       /\ \A p, d \in Ranks : down'[p][d] = IF Onward(r, l, p, d)
                                              THEN Append(received[p][d], <<e, l + 1, n>>)
                                              ELSE received[p][d]
       /\ \A p, d \in Ranks : Onward(r, l, p, d) => <<e, l + 1, n>> \in Events \X (1 .. N) \X Nat
  <2>1. CASE l = Level[r]
    <3>1. \A p, d \in Ranks : ~ Onward(r, l, p, d)
      BY <1>9, <2>1 DEF Onward, Inner
    <3> QED BY <1>8, <1>12, <2>1, <3>1
  <2>2. CASE l # Level[r]
    <3>1. Inner(r, l) /\ l + 1 \in 1 .. N
      BY <1>4, <1>9, <2>2, SchedulerAssumption DEF Inner
    <3>2. \A p, d \in Ranks : Onward(r, l, p, d) <=> p = r /\ d \in Child[r][l]
      BY <3>1 DEF Onward
    <3>3. <<e, l + 1, n>> \in Events \X (1 .. N) \X Nat
      BY <1>10, <3>1
    <3>4. /\ down' \in [Ranks -> [Ranks -> Seq(Events \X (1 .. N) \X Nat)]]
          /\ \A p, d \in Ranks : down'[p][d] = IF p = r /\ d \in Child[r][l]
                                                 THEN Append(received[p][d], <<e, l + 1, n>>)
                                                 ELSE received[p][d]
      <4>1. down' = [received EXCEPT ![r] = [d \in Ranks |-> IF d \in Child[r][l]
                                                   THEN Append(@[d], <<e, l + 1, n>>) ELSE @[d]]]
        BY <1>8, <2>2
      <4>2. PICK C, m : C = Child[r][l] /\ m = <<e, l + 1, n>>
        OBVIOUS
      <4>3. /\ m \in Events \X (1 .. N) \X Nat
            /\ down' = [received EXCEPT ![r] = [d \in Ranks |-> IF d \in C THEN Append(@[d], m) ELSE @[d]]]
        BY <3>3, <4>1, <4>2
      <4>4. /\ down' \in [Ranks -> [Ranks -> Seq(Events \X (1 .. N) \X Nat)]]
            /\ \A p, d \in Ranks : down'[p][d] = IF p = r /\ d \in C THEN Append(received[p][d], m)
                                                                  ELSE received[p][d]
        <5>1. PICK MM, g : MM = Events \X (1 .. N) \X Nat /\ g = down'
          OBVIOUS
        <5>2. /\ received \in [Ranks -> [Ranks -> Seq(MM)]] /\ m \in MM
              /\ g = [received EXCEPT ![r] = [d \in Ranks |-> IF d \in C THEN Append(@[d], m) ELSE @[d]]]
          BY <1>12, <4>3, <5>1
        <5>3. /\ g \in [Ranks -> [Ranks -> Seq(MM)]]
              /\ \A p, d \in Ranks : g[p][d] = IF p = r /\ d \in C THEN Append(received[p][d], m)
                                                                ELSE received[p][d]
          BY <5>2, MessageAdded
        <5> QED BY <5>1, <5>3
      <4> QED BY <4>2, <4>4
    <3> QED BY <3>2, <3>3, <3>4
  <2> QED BY <2>1, <2>2
<1>14. ASSUME NEW p \in Ranks, NEW d \in Ranks PROVE Passed(r, l, n, e, p, d)
  <2>1. Off(r, l, p, d) = IF p = s /\ d = r THEN 1 ELSE 0
    BY <1>4, <1>9 DEF Off
  <2>2. Off(r, l, p, d) = 1 <=> p = s /\ d = r
    BY <2>1
  <2>3. down[p][d] \in Seq(Events \X (1 .. N) \X Nat) /\ (p = s /\ d = r => down[p][d] # <<>>)
    BY <1>3, <1>11
  <2>4. received[p][d] = IF Off(r, l, p, d) = 1 THEN Tail(down[p][d]) ELSE down[p][d]
    BY <1>12, <2>2
  <2>5. /\ down'[p][d] = IF Onward(r, l, p, d) THEN Append(received[p][d], <<e, l + 1, n>>)
                         ELSE received[p][d]
        /\ Onward(r, l, p, d) => <<e, l + 1, n>> \in Events \X (1 .. N) \X Nat
    BY <1>13
  <2>6. PICK mid : mid = received[p][d]
    OBVIOUS
  <2> QED BY <2>2, <2>3, <2>4, <2>5, <2>6, PassedMessage
<1>15. /\ Channels' /\ got' \in [Ranks -> [0 .. N -> Nat]]
       /\ \A x \in Ranks, k \in 0 .. N : Node(x, k) =>
            got'[x][k] <= Len(order') /\ (k # 0 => got'[x][k] <= got'[Parent[x][k]][k - 1])
  <2>1. /\ Len(order') \in Nat /\ Len(order) <= Len(order') /\ got[r][l] + 1 <= Len(order')
        /\ \A i \in 1 .. Len(order) : order'[i] = order[i]
        /\ got' = [got EXCEPT ![r][l] = got[r][l] + 1]
    BY <1>5, <1>8, <1>10
  <2>2. \A p, d \in Ranks : Passed(r, l, got[r][l] + 1, order'[got[r][l] + 1], p, d)
    BY <1>5, <1>8, <1>14
  <2>3. Len(down[s][r]) > 0
    <3>1. down[s][r] \in Seq(Events \X (1 .. N) \X Nat)
      BY <1>11
    <3>2. Len(down[s][r]) \in Nat \ {0}
      BY <1>3, <3>1, EmptySeq
    <3> QED BY <3>2
  <2> QED BY <1>1, <1>4, <1>9, <1>10, <2>1, <2>2, <2>3, PassOn
<1>16. \A x \in Ranks, k \in 0 .. N : got'[x][k] = IF x = r /\ k = l THEN n ELSE got[x][k]
  BY <1>8, <1>9, <1>10
<1>17. ASSUME NEW x \in Ranks
       PROVE  /\ stack'[x] \in Seq(Events)
              /\ got'[x][Level[x]] = popped'[x] + Len(stack'[x])
              /\ \A i \in 1 .. Len(stack'[x]) : stack'[x][i] = order'[popped'[x] + i]
  <2>1. /\ got[x][Level[x]] = popped[x] + Len(stack[x])
        /\ \A i \in 1 .. Len(stack[x]) : stack[x][i] = order[popped[x] + i]
    BY <1>1 DEF GotRight
  <2>2. stack[x] \in Seq(Events) /\ popped[x] \in Nat /\ stack \in [Ranks -> Seq(Events)]
    BY <1>1 DEF Kinds
  <2>3. Len(stack[x]) \in Nat
    BY <2>2, LenProperties
  <2>4. CASE x = r /\ l = Level[r]
    <3>1. stack'[x] = Append(stack[x], e)
      BY <1>8, <2>2, <2>4
    <3>2. /\ Append(stack[x], e) \in Seq(Events) /\ Len(Append(stack[x], e)) = Len(stack[x]) + 1
          /\ \A i \in 1 .. Len(stack[x]) : Append(stack[x], e)[i] = stack[x][i]
          /\ Append(stack[x], e)[Len(stack[x]) + 1] = e
      BY <1>10, <2>2, AppendProperties
    <3>3. got'[x][Level[x]] = n /\ n = popped[x] + (Len(stack[x]) + 1)
      <4>1. got'[x][Level[x]] = n
        BY <1>9, <1>16, <2>4
      <4>2. n = popped[x] + Len(stack[x]) + 1
        BY <1>5, <2>1, <2>4
      <4>3. \A a, b \in Nat : a + b + 1 = a + (b + 1)
        OBVIOUS
      <4> QED BY <2>2, <2>3, <4>1, <4>2, <4>3, Zenon
    <3>4. ASSUME NEW i \in 1 .. Len(stack[x]) + 1
          PROVE  Append(stack[x], e)[i] = order[popped[x] + i]
      <4>1. CASE i \in 1 .. Len(stack[x])
        BY <2>1, <3>2, <4>1
      <4>2. CASE i = Len(stack[x]) + 1
        BY <1>5, <3>2, <3>3, <4>2
      <4> QED BY <2>3, <4>1, <4>2
    <3> QED BY <1>8, <3>1, <3>2, <3>3, <3>4
  <2>5. CASE ~ (x = r /\ l = Level[r])
    <3>1. stack'[x] = stack[x]
      BY <1>8, <2>2, <2>5
    <3>2. got'[x][Level[x]] = got[x][Level[x]]
      BY <1>16, <2>5, RankFacts
    <3> QED BY <1>8, <2>1, <2>2, <3>1, <3>2
  <2> QED BY <2>4, <2>5
<1>18. GotRight'
  <2>1. got'[0][0] = Len(order')
    <3>1. 0 \in Ranks /\ 0 \in 0 .. N
      BY SchedulerAssumption DEF Ranks
    <3>2. got[0][0] = Len(order)
      BY <1>1 DEF GotRight
    <3> QED BY <1>8, <1>9, <1>16, <3>1, <3>2
  <2> QED BY <1>15, <1>17, <2>1 DEF GotRight
<1>19. Kinds'
  <2>1. stack' \in [Ranks -> Seq(Events)]
    <3>1. stack \in [Ranks -> Seq(Events)]
      BY <1>1 DEF Kinds
    <3>2. stack' = [x \in Ranks |-> stack'[x]]
      BY <1>8, <3>1
    <3> QED BY <1>17, <3>2
  <2> QED BY <1>1, <1>8, <1>13, <2>1 DEF Kinds
<1>20. KeysRight' /\ CountsRight' /\ AheadBelow' /\ \A x \in Ranks : Ahead(x)' = Ahead(x)
  BY <1>1, <1>8, UpSame
<1>21. WaitingRight'
  BY <1>1, <1>8, <1>20, WaitingSame
<1>22. QED BY <1>15, <1>18, <1>19, <1>20, <1>21 DEF SchedulerInv

(* A rank pops the event at the front of its stack.                           *)
LEMMA PopStep ==
  ASSUME SchedulerInv, NEW r \in Ranks, PopEvent(r)
  PROVE  SchedulerInv' /\ popped[r] < Len(order)
<1>1. KeysRight /\ CountsRight /\ AheadBelow /\ WaitingRight /\ GotRight /\ Channels /\ Kinds
  BY DEF SchedulerInv
<1>2. PICK e : e = Head(stack[r])
  OBVIOUS
<1>3. /\ stack[r] # <<>>
      /\ stack' = [stack EXCEPT ![r] = Tail(@)]
      /\ waiting' = [waiting EXCEPT ![r] = @ \ {e}]
      /\ popped' = [popped EXCEPT ![r] = @ + 1]
      /\ UNCHANGED <<tree, registered, up, recvEvent, down, order, ahead, got>>
  BY <1>2 DEF PopEvent
<1>4. /\ stack \in [Ranks -> Seq(Events)] /\ popped \in [Ranks -> Nat]
      /\ waiting \in [Ranks -> SUBSET Events] /\ order \in Seq(Events) /\ Len(order) \in Nat
      /\ stack[r] \in Seq(Events) /\ popped[r] \in Nat
  BY <1>1, LenProperties DEF Kinds
<1>5. /\ Len(stack[r]) \in Nat \ {0}
      /\ Tail(stack[r]) \in Seq(Events) /\ Len(Tail(stack[r])) = Len(stack[r]) - 1
      /\ \A i \in 1 .. Len(Tail(stack[r])) : Tail(stack[r])[i] = stack[r][i + 1]
      /\ e = stack[r][1]
  BY <1>2, <1>3, <1>4, EmptySeq, HeadTailProperties
<1>6. /\ got[r][Level[r]] = popped[r] + Len(stack[r]) /\ got[r][Level[r]] <= Len(order)
      /\ \A i \in 1 .. Len(stack[r]) : stack[r][i] = order[popped[r] + i]
  BY <1>1, RankFacts DEF GotRight
<1>7. popped[r] + 1 \in Due(r) /\ e = order[popped[r] + 1] /\ popped[r] < Len(order)
  <2>1. popped[r] + 1 <= Len(order)
    BY <1>4, <1>5, <1>6
  <2>2. popped[r] < Len(order) /\ popped[r] + 1 \in popped[r] + 1 .. Len(order)
    BY <1>4, <2>1
  <2>3. 1 \in 1 .. Len(stack[r])
    BY <1>5
  <2>4. e = order[popped[r] + 1]
    BY <1>5, <1>6, <2>3
  <2> QED BY <2>2, <2>4 DEF Due
<1>8. Kinds'
  <2>1. /\ stack' \in [Ranks -> Seq(Events)] /\ popped' \in [Ranks -> Nat]
        /\ waiting' \in [Ranks -> SUBSET Events]
    BY <1>3, <1>4, <1>5
  <2> QED BY <1>1, <1>3, <2>1 DEF Kinds
<1>9. KeysRight' /\ CountsRight' /\ AheadBelow' /\ \A x \in Ranks : Ahead(x)' = Ahead(x)
  BY <1>1, <1>3, UpSame
<1>10. Channels'
  <2>1. \A d, l : OnTheWay(d, l)' = OnTheWay(d, l)
    BY <1>3 DEF OnTheWay
  <2>2. \A p, d, i : RightMessage(p, d, down[p][d][i])' <=> RightMessage(p, d, down[p][d][i])
    BY <1>3 DEF RightMessage, OnTheWay
  <2> QED BY <1>1, <1>3, <2>1, <2>2 DEF Channels
<1>11. ASSUME NEW x \in Ranks
       PROVE  /\ got'[x][Level[x]] = popped'[x] + Len(stack'[x])
              /\ \A i \in 1 .. Len(stack'[x]) : stack'[x][i] = order'[popped'[x] + i]
  <2>1. CASE x = r
    <3>1. popped'[x] = popped[r] + 1 /\ stack'[x] = Tail(stack[r])
      BY <1>3, <1>4, <2>1
    <3>2. popped[r] + Len(stack[r]) = popped[r] + 1 + (Len(stack[r]) - 1)
      BY <1>4, <1>5
    <3>3. ASSUME NEW i \in 1 .. Len(Tail(stack[r]))
          PROVE  Tail(stack[r])[i] = order[popped[r] + 1 + i]
      <4>1. i + 1 \in 1 .. Len(stack[r]) /\ popped[r] + (i + 1) = popped[r] + 1 + i
        BY <1>4, <1>5
      <4> QED BY <1>5, <1>6, <4>1
    <3> QED BY <1>3, <1>5, <1>6, <2>1, <3>1, <3>2, <3>3
  <2>2. CASE x # r
    <3>1. popped'[x] = popped[x] /\ stack'[x] = stack[x]
      BY <1>3, <1>4, <2>2
    <3> QED BY <1>1, <1>3, <3>1 DEF GotRight
  <2> QED BY <2>1, <2>2
<1>12. GotRight'
  <2>1. /\ got' \in [Ranks -> [0 .. N -> Nat]]
        /\ got'[0][0] = Len(order')
        /\ \A x \in Ranks, l \in 0 .. N : Node(x, l) => got'[x][l] <= Len(order')
        /\ \A x \in Ranks, l \in 0 .. N : Node(x, l) /\ l # 0 => got'[x][l] <= got'[Parent[x][l]][l - 1]
    BY <1>1, <1>3 DEF GotRight
  <2> QED BY <1>11, <2>1 DEF GotRight
<1>13. ASSUME NEW x \in Ranks
       PROVE  /\ \A f \in Events : f \in waiting'[x] <=> f \in Ahead(x)' \/ \E i \in Due(x)' : order'[i] = f
              /\ \A i \in Due(x)' : order'[i] \notin Ahead(x)'
              /\ \A i, j \in Due(x)' : order'[i] = order'[j] => i = j
  <2>1. /\ \A f \in Events : f \in waiting[x] <=> f \in Ahead(x) \/ \E i \in Due(x) : order[i] = f
        /\ \A i \in Due(x) : order[i] \notin Ahead(x)
        /\ \A i, j \in Due(x) : order[i] = order[j] => i = j
    BY <1>1 DEF WaitingRight
  <2>2. CASE x = r
    <3>1. waiting'[x] = waiting[x] \ {e} /\ popped'[x] = popped[x] + 1
      BY <1>3, <1>4, <2>2
    <3>2. \A i : i \in Due(x)' <=> i \in Due(x) /\ i # popped[x] + 1
      <4>1. Due(x)' = popped[x] + 1 + 1 .. Len(order)
        BY <1>3, <3>1 DEF Due
      <4>2. Due(x) = popped[x] + 1 .. Len(order) /\ popped[x] \in Nat
        BY <1>4, <2>2 DEF Due
      <4>3. \A a, b \in Nat : \A i : i \in a + 1 + 1 .. b <=> i \in a + 1 .. b /\ i # a + 1
        OBVIOUS
      <4>4. PICK a, b \in Nat : a = popped[x] /\ b = Len(order)
        BY <1>4, <4>2
      <4> QED BY <4>1, <4>2, <4>3, <4>4
    <3>3. ASSUME NEW f \in Events
          PROVE  f \in waiting'[x] <=> f \in Ahead(x)' \/ \E i \in Due(x)' : order'[i] = f
      <4>1. f \in waiting[x] <=> f \in Ahead(x) \/ \E i \in Due(x) : order[i] = f
        BY <2>1
      <4>2. e \notin Ahead(x)
        BY <1>7, <2>1, <2>2
      <4>3. (\E i \in Due(x)' : order[i] = f) <=> f # e /\ \E i \in Due(x) : order[i] = f
        BY <1>7, <2>1, <2>2, <3>2
      <4>4. Ahead(x)' = Ahead(x) /\ order' = order
        BY <1>3, <1>9
      <4> QED BY <3>1, <4>1, <4>2, <4>3, <4>4
    <3> QED BY <1>3, <1>9, <2>1, <3>2, <3>3
  <2>3. CASE x # r
    <3>1. waiting'[x] = waiting[x] /\ popped'[x] = popped[x]
      BY <1>3, <1>4, <2>3
    <3>2. Due(x)' = Due(x) /\ Ahead(x)' = Ahead(x) /\ order' = order
      BY <1>3, <1>9, <3>1 DEF Due
    <3> QED BY <2>1, <3>1, <3>2
  <2> QED BY <2>2, <2>3
<1>14. WaitingRight'
  <2>1. \A f : Times(f)' = Times(f)
    BY <1>3 DEF Times
  <2>2. ASSUME NEW x \in Ranks, NEW f \in Events
        PROVE  registered'[x][f] = Times(f)' + (IF f \in Ahead(x)' THEN 1 ELSE 0)
    <3>1. registered[x][f] = Times(f) + (IF f \in Ahead(x) THEN 1 ELSE 0)
      BY <1>1 DEF WaitingRight
    <3> QED BY <1>3, <1>9, <2>1, <3>1
  <2> QED BY <1>13, <2>2 DEF WaitingRight
<1>15. QED BY <1>7, <1>8, <1>9, <1>10, <1>12, <1>14 DEF SchedulerInv

(* A rank counts an announcement from one of its children.                    *)
LEMMA ChildRequestStep ==
  ASSUME SchedulerInv, NEW r \in Ranks, NEW m \in Keys, CheckChildRequest(r, m)
  PROVE  /\ SchedulerInv'
         /\ \/ UNCHANGED <<registered, order, popped>>
            \/ \E e \in Events : /\ order' = Append(order, e)
                                 /\ \A x \in Ranks : registered[x][e] > Times(e)
                                 /\ UNCHANGED <<registered, popped>>
<1>1. PICK e \in Events, l \in 0 .. N : m = <<e, l>>
  BY DEF Keys
<1>2. m[1] = e /\ m[2] = l
  BY <1>1
<1>3. Kinds /\ KeysRight
  BY DEF SchedulerInv
<1>4. parent = Parent /\ child = Child /\ nbChild = NbChild
  BY <1>3, Fields DEF Kinds
<1>5. /\ up \in [Ranks -> [Keys -> Nat]] /\ recvEvent \in [Ranks -> [Keys -> Nat]]
      /\ <<e, l>> \in Keys
  BY <1>1, <1>3 DEF KeysRight
<1>6. PICK counted : counted = [recvEvent[r] EXCEPT ![m] = @ + 1]
  OBVIOUS
<1>7. PICK received : received = [up EXCEPT ![r][m] = @ - 1]
  OBVIOUS
<1>8. counted[m] = recvEvent[r][<<e, l>>] + 1
  <2>1. recvEvent[r] \in [Keys -> Nat]
    BY <1>5
  <2> QED BY <1>1, <1>6, <2>1
<1>9. /\ up[r][<<e, l>>] > 0
      /\ UNCHANGED <<tree, registered, waiting, stack, popped>>
      /\ \/ /\ ~ AllChildren(r, m, counted)
            /\ recvEvent' = [recvEvent EXCEPT ![r] = counted]
            /\ up' = received
            /\ UNCHANGED <<down, order, ahead, got>>
         \/ /\ AllChildren(r, m, counted) /\ l = 0
            /\ recvEvent' = [recvEvent EXCEPT ![r] = Forget(counted, m)]
            /\ up' = received
            /\ down' = SentDown(down, r, e, 0, Len(order) + 1)
            /\ order' = Append(order, e)
            /\ ahead' = [s \in Ranks |-> [k \in 0 .. N |-> ahead[s][k] \ {e}]]
            /\ got' = [got EXCEPT ![r][0] = Len(order) + 1]
         \/ /\ AllChildren(r, m, counted) /\ l # 0
            /\ recvEvent' = [recvEvent EXCEPT ![r] = Forget(counted, m)]
            /\ up' = SentUp(received, r, e, l)
            /\ ahead' = [ahead EXCEPT ![r][l] = @ \cup {e}]
            /\ UNCHANGED <<down, order, got>>
  BY <1>1, <1>2, <1>6, <1>7 DEF CheckChildRequest
<1>10. AllChildren(r, m, counted) <=> recvEvent[r][<<e, l>>] + 1 = NbChild[r][l]
  BY <1>2, <1>4, <1>8 DEF AllChildren
<1>11. /\ received = [up EXCEPT ![r][<<e, l>>] = @ - 1]
       /\ [recvEvent EXCEPT ![r] = counted] = [recvEvent EXCEPT ![r][<<e, l>>] = @ + 1]
       /\ [recvEvent EXCEPT ![r] = Forget(counted, m)] = [recvEvent EXCEPT ![r][<<e, l>>] = 0]
  <2>1. Forget(counted, m) = [recvEvent[r] EXCEPT ![<<e, l>>] = 0]
    BY <1>1, <1>6 DEF Forget
  <2> QED BY <1>1, <1>6, <1>7, <2>1
<1>12. CASE ~ AllChildren(r, m, counted)
  BY <1>9, <1>10, <1>11, <1>12, CountStep
<1>13. CASE AllChildren(r, m, counted) /\ l = 0
  <2>1. r = 0
    <3>1. <<e, l>>[2] = 0 /\ up[r][<<e, l>>] + recvEvent[r][<<e, l>>] > 0
      BY <1>5, <1>9, <1>13
    <3>2. Inner(r, 0)
      BY <1>3, <1>5, <3>1 DEF KeysRight
    <3> QED BY <3>2, TreeHasShape DEF Inner, TreeShape
  <2>2. SentDown(down, r, e, 0, Len(order) + 1) =
          [down EXCEPT ![0] = [d \in Ranks |-> IF d \in Child[0][0]
                                 THEN Append(@[d], <<e, 1, Len(order) + 1>>) ELSE @[d]]]
    BY <1>4, <2>1 DEF SentDown, Receivers
  <2>3. SchedulerInv' /\ \A x \in Ranks : registered[x][e] > Times(e)
    BY <1>9, <1>10, <1>11, <1>13, <2>1, <2>2, BroadcastStep
  <2> QED BY <1>9, <1>13, <2>3
<1>14. CASE AllChildren(r, m, counted) /\ l # 0
  <2>1. up' = [[up EXCEPT ![r][<<e, l>>] = @ - 1] EXCEPT ![Parent[r][l]][<<e, l - 1>>] = @ + 1]
    BY <1>4, <1>9, <1>11, <1>14 DEF SentUp
  <2>2. SchedulerInv'
    BY <1>9, <1>10, <1>11, <1>14, <2>1, AnnounceStep
  <2> QED BY <1>9, <1>14, <2>2
<1>15. QED BY <1>12, <1>13, <1>14

(* A node with children has one.                                              *)
LEMMA SomeChild ==
  ASSUME NEW r, NEW l, Inner(r, l)
  PROVE  NbChild[r][l] > 0
<1>1. r \in Ranks /\ l \in 0 .. N /\ Node(r, l) /\ r \in Branch(r, l)
  <2>1. r \in Ranks /\ l \in 0 .. Level[r] /\ Level[r] \in 1 .. N /\ Node(r, l)
    BY TreeHasShape DEF Inner, Node, TreeShape
  <2>2. l \in 0 .. N
    BY <2>1, SchedulerAssumption
  <2> QED BY <2>1, <2>2, TreeHasShape DEF TreeShape
<1>2. Child[r][l] # {}
  BY <1>1, TreeHasShape DEF TreeShape
<1>3. IsFiniteSet(Child[r][l]) /\ NbChild[r][l] = Cardinality(Child[r][l]) /\ NbChild[r][l] \in Nat
  BY FiniteChildren
<1>4. QED BY <1>2, <1>3, FS_EmptySet

(* The initial states.                                                        *)
LEMMA InitRight == Init => SchedulerInv
<1> SUFFICES ASSUME Init PROVE SchedulerInv
  OBVIOUS
<1>1. /\ tree = Tree
      /\ registered = [r \in Ranks |-> [e \in Events |-> 0]]
      /\ waiting = [r \in Ranks |-> {}]
      /\ up = [r \in Ranks |-> [m \in Keys |-> 0]]
      /\ recvEvent = [r \in Ranks |-> [m \in Keys |-> 0]]
      /\ down = [s \in Ranks |-> [r \in Ranks |-> <<>>]]
      /\ stack = [r \in Ranks |-> <<>>]
      /\ order = <<>>
      /\ popped = [r \in Ranks |-> 0]
      /\ ahead = [r \in Ranks |-> [l \in 0 .. N |-> {}]]
      /\ got = [r \in Ranks |-> [l \in 0 .. N |-> 0]]
  BY DEF Init
<1>2. 0 \in Ranks /\ 0 \in 0 .. N /\ \A r \in Ranks : Level[r] \in 0 .. N
  BY SchedulerAssumption, RankFacts DEF Ranks
<1>3. Len(order) = 0 /\ \A M : <<>> \in Seq(M)
  BY <1>1, EmptySeq
<1>4. Kinds
  BY <1>1, <1>3, SchedulerAssumption DEF Kinds
<1>5. KeysRight
  BY <1>1 DEF KeysRight
<1>6. AheadBelow
  BY <1>1, <1>2 DEF AheadBelow
<1>7. ASSUME NEW r \in Ranks, NEW l \in 0 .. N, NEW e \in Events, Inner(r, l)
      PROVE  /\ Counted(r, l, e) = IF e \in ahead[r][l] THEN 0
                                   ELSE Cardinality(ChildrenAhead(r, l, e))
             /\ recvEvent[r][<<e, l>>] < NbChild[r][l]
  <2>1. <<e, l>> \in Keys
    BY DEF Keys
  <2>2. up[r][<<e, l>>] = 0 /\ recvEvent[r][<<e, l>>] = 0
    BY <1>1, <2>1
  <2>3. ChildrenAhead(r, l, e) = {}
    <3>1. \A c \in Child[r][l] : c \in Ranks /\ l + 1 \in 0 .. N
      <4>1. \A c \in Child[r][l] : c \in Ranks /\ l + 1 \in 1 .. N
        BY <1>7, ChildNode
      <4> QED BY <4>1
    <3> QED BY <1>1, <3>1 DEF ChildrenAhead
  <2>4. Cardinality(ChildrenAhead(r, l, e)) = 0
    BY <2>3, FS_EmptySet
  <2>5. e \notin ahead[r][l] /\ Counted(r, l, e) = 0
    BY <1>1, <2>2 DEF Counted
  <2> QED BY <1>7, <2>2, <2>4, <2>5, SomeChild
<1>8. CountsRight
  BY <1>7 DEF CountsRight
<1>9. WaitingRight
  <2>1. ASSUME NEW r \in Ranks
        PROVE  Due(r) = {} /\ Ahead(r) = {} /\ waiting[r] = {} /\ \A e \in Events : registered[r][e] = 0
    BY <1>1, <1>2, <1>3 DEF Due, Ahead
  <2>2. ASSUME NEW e PROVE Times(e) = 0
    <3>1. {i \in 1 .. Len(order) : order[i] = e} = {}
      BY <1>3
    <3> QED BY <3>1, FS_EmptySet DEF Times
  <2> QED BY <2>1, <2>2 DEF WaitingRight
<1>10. GotRight
  <2>1. got \in [Ranks -> [0 .. N -> Nat]] /\ \A r \in Ranks, l \in 0 .. N : got[r][l] = 0
    BY <1>1
  <2>2. \A r \in Ranks : popped[r] = 0 /\ stack[r] = <<>> /\ Len(stack[r]) = 0
    BY <1>1, <1>3
  <2>3. ASSUME NEW r \in Ranks, NEW l \in 0 .. N, Node(r, l), l # 0
        PROVE  got[r][l] <= got[Parent[r][l]][l - 1]
    BY <2>1, <2>3, ParentNode
  <2>4. \A r \in Ranks : /\ got[r][Level[r]] = popped[r] + Len(stack[r])
                         /\ \A i \in 1 .. Len(stack[r]) : stack[r][i] = order[popped[r] + i]
    BY <1>2, <2>1, <2>2
  <2>5. got[0][0] = Len(order) /\ \A r \in Ranks, l \in 0 .. N : got[r][l] <= Len(order)
    BY <1>2, <1>3, <2>1
  <2> QED BY <2>1, <2>3, <2>4, <2>5 DEF GotRight
<1>11. Channels
  <2>1. \A s, r \in Ranks : down[s][r] = <<>> /\ Len(down[s][r]) = 0
    BY <1>1, <1>3
  <2>2. ASSUME NEW r \in Ranks, NEW l \in 1 .. N, Node(r, l) PROVE OnTheWay(r, l) = {}
    <3>1. Parent[r][l] \in Ranks /\ l - 1 \in 0 .. N /\ l \in 0 .. N
      BY <2>2, ParentNode, SchedulerAssumption
    <3> QED BY <1>1, <3>1 DEF OnTheWay
  <2>3. \A s, r \in Ranks : down[s][r] \in Seq(Events \X (1 .. N) \X Nat)
    BY <1>3, <2>1
  <2>4. \A s, r \in Ranks : 1 .. Len(down[s][r]) = {}
    BY <2>1
  <2> QED BY <2>2, <2>3, <2>4 DEF Channels
<1>12. QED BY <1>4, <1>5, <1>6, <1>8, <1>9, <1>10, <1>11 DEF SchedulerInv

(* Every step keeps the invariant.                                            *)
LEMMA StepRight == SchedulerInv /\ [Next]_vars => SchedulerInv'
<1> SUFFICES ASSUME SchedulerInv, [Next]_vars PROVE SchedulerInv'
  OBVIOUS
<1>1. ASSUME NEW r \in Ranks, NEW e \in Events, RegisterEvent(r, e) PROVE SchedulerInv'
  BY <1>1, RegisterStep
<1>2. ASSUME NEW r \in Ranks, NEW m \in Keys, CheckChildRequest(r, m) PROVE SchedulerInv'
  BY <1>2, ChildRequestStep
<1>3. ASSUME NEW r \in Ranks, NEW s \in Ranks, CheckParentRequest(r, s) PROVE SchedulerInv'
  BY <1>3, HandStep
<1>4. ASSUME NEW r \in Ranks, PopEvent(r) PROVE SchedulerInv'
  BY <1>4, PopStep
<1>5. CASE UNCHANGED vars
  <2>1. KeysRight /\ CountsRight /\ AheadBelow /\ WaitingRight /\ GotRight /\ Channels /\ Kinds
    BY DEF SchedulerInv
  <2>2. UNCHANGED <<tree, registered, waiting, up, recvEvent, down, stack, order, popped, ahead, got>>
    BY <1>5 DEF vars
  <2>3. KeysRight' /\ CountsRight' /\ AheadBelow' /\ \A r \in Ranks : Ahead(r)' = Ahead(r)
    BY <2>1, <2>2, UpSame
  <2>4. WaitingRight' /\ GotRight' /\ Channels'
    BY <2>1, <2>2, <2>3, WaitingSame, DownSame
  <2>5. Kinds'
    BY <2>1, <2>2 DEF Kinds
  <2> QED BY <2>3, <2>4, <2>5 DEF SchedulerInv
<1>6. QED BY <1>1, <1>2, <1>3, <1>4, <1>5 DEF Next

(* The invariant holds of every behaviour, whatever the number of ranks.      *)
THEOREM SchedulerSafe == Spec => []SchedulerInv
BY InitRight, StepRight, PTL DEF Spec

-----------------------------------------------------------------------------
(* What the invariant says of the properties the runs check.                  *)

(* Every kind of state is as its users expect.                                *)
LEMMA InvTypes == SchedulerInv => TypeOK
<1> SUFFICES ASSUME SchedulerInv PROVE TypeOK
  OBVIOUS
<1>1. KeysRight /\ CountsRight /\ GotRight /\ Channels /\ Kinds
  BY DEF SchedulerInv
<1>2. level = Level /\ nbChild = NbChild
  BY <1>1, Fields DEF Kinds
<1>3. order \in Seq(Events) /\ Len(order) \in Nat
  BY <1>1, LenProperties DEF Kinds
<1>4. /\ registered \in [Ranks -> [Events -> 0 .. Rounds]]
      /\ waiting \in [Ranks -> SUBSET Events]
      /\ up \in [Ranks -> [Keys -> Nat]] /\ recvEvent \in [Ranks -> [Keys -> Nat]]
      /\ \A r \in Ranks : stack[r] \in Seq(Events)
  BY <1>1 DEF Kinds, KeysRight
<1>5. ASSUME NEW r \in Ranks, NEW m \in Keys, up[r][m] + recvEvent[r][m] > 0
      PROVE  m[2] < Level[r] /\ recvEvent[r][m] < NbChild[r][m[2]]
  <2>1. Inner(r, m[2])
    BY <1>1, <1>5 DEF KeysRight
  <2>2. PICK e \in Events, l \in 0 .. N : m = <<e, l>>
    BY DEF Keys
  <2>3. m[2] = l
    BY <2>2
  <2> QED BY <1>1, <2>1, <2>2, <2>3 DEF CountsRight, Inner
<1>6. ASSUME NEW r \in Ranks, NEW s \in Ranks, NEW i \in DOMAIN down[s][r]
      PROVE  down[s][r][i] \in Events \X (1 .. Level[r]) \X Nat
  <2>1. down[s][r] \in Seq(Events \X (1 .. N) \X Nat)
    BY <1>1 DEF Channels
  <2>2. i \in 1 .. Len(down[s][r])
    BY <2>1, LenProperties
  <2>3. PICK m : m = down[s][r][i]
    OBVIOUS
  <2>4. m \in Events \X (1 .. N) \X Nat
    BY <2>1, <2>2, <2>3, ElementOfSeq
  <2>5. \E k \in 1 .. N, n \in Nat : m = <<order[n], k, n>> /\ k \in 1 .. Level[r]
    BY <1>1, <1>3, <2>2, <2>3, MessageFacts
  <2> QED BY <2>3, <2>4, <2>5
<1>7. popped \in [Ranks -> 0 .. Len(order)]
  <2>1. ASSUME NEW r \in Ranks PROVE popped[r] \in 0 .. Len(order)
    <3>1. popped[r] \in Nat /\ Len(stack[r]) \in Nat
      BY <1>1, <1>4, LenProperties DEF Kinds
    <3>2. popped[r] + Len(stack[r]) <= Len(order)
      <4>1. got[r][Level[r]] = popped[r] + Len(stack[r]) /\ got[r][Level[r]] <= Len(order)
        BY <1>1, RankFacts DEF GotRight
      <4> QED BY <4>1
    <3> QED BY <1>3, <3>1, <3>2
  <2> QED BY <1>1, <2>1 DEF Kinds
<1>8. QED BY <1>2, <1>3, <1>4, <1>5, <1>6, <1>7 DEF TypeOK

(* What a rank has been handed is a prefix of the order, and each event of it *)
(* waits for this rank.                                                       *)
LEMMA InvOrder == SchedulerInv => OneOrder /\ FrontHasOwner
<1> SUFFICES ASSUME SchedulerInv, NEW r \in Ranks
             PROVE  /\ popped[r] + Len(stack[r]) <= Len(order)
                    /\ stack[r] = SubSeq(order, popped[r] + 1, popped[r] + Len(stack[r]))
                    /\ \A i \in DOMAIN stack[r] : stack[r][i] \in waiting[r]
  BY DEF OneOrder, FrontHasOwner
<1>1. WaitingRight /\ GotRight /\ Kinds
  BY DEF SchedulerInv
<1>2. PICK s, p, n : s = stack[r] /\ p = popped[r] /\ n = Len(stack[r])
  OBVIOUS
<1>3. /\ s \in Seq(Events) /\ n = Len(s) /\ n \in Nat /\ DOMAIN s = 1 .. n /\ p \in Nat
      /\ order \in Seq(Events) /\ Len(order) \in Nat
  BY <1>1, <1>2, LenProperties DEF Kinds
<1>4. p + n <= Len(order) /\ \A i \in 1 .. n : s[i] = order[p + i]
  <2>1. got[r][Level[r]] = p + n /\ got[r][Level[r]] <= Len(order)
    BY <1>1, <1>2, RankFacts DEF GotRight
  <2>2. \A i \in 1 .. n : s[i] = order[p + i]
    BY <1>1, <1>2 DEF GotRight
  <2> QED BY <2>1, <2>2
<1>5. ASSUME NEW i \in 1 .. n PROVE s[i] \in waiting[r]
  <2>1. p + i \in Due(r) /\ p + i \in 1 .. Len(order)
    BY <1>2, <1>3, <1>4 DEF Due
  <2>2. s[i] \in Events /\ s[i] = order[p + i]
    BY <1>3, <1>4, ElementOfSeq
  <2>3. \A e \in Events : (\E j \in Due(r) : order[j] = e) => e \in waiting[r]
    BY <1>1 DEF WaitingRight
  <2> QED BY <2>1, <2>2, <2>3
<1>6. s = SubSeq(order, p + 1, p + n)
  <2>1. PICK a, b \in Int : a = p + 1 /\ b = p + n
    BY <1>3
  <2>2. \A i \in a .. b : order[i] \in Events
    <3>1. \A i \in a .. b : i \in 1 .. Len(order)
      BY <1>3, <1>4, <2>1
    <3> QED BY <1>3, <3>1, ElementOfSeq
  <2>3. /\ SubSeq(order, a, b) \in Seq(Events)
        /\ Len(SubSeq(order, a, b)) = IF a <= b THEN b - a + 1 ELSE 0
        /\ \A i \in 1 .. b - a + 1 : SubSeq(order, a, b)[i] = order[a + i - 1]
    BY <2>2, SubSeqProperties
  <2>4. b - a + 1 = n /\ (a <= b <=> n > 0) /\ \A i \in 1 .. n : a + i - 1 = p + i
    BY <1>3, <2>1
  <2>5. Len(SubSeq(order, a, b)) = n
    BY <1>3, <2>3, <2>4
  <2>6. \A i \in 1 .. n : SubSeq(order, a, b)[i] = s[i]
    BY <1>4, <2>3, <2>4
  <2>7. PICK t : t = SubSeq(order, a, b)
    OBVIOUS
  <2>8. s = t
    BY <1>3, <2>3, <2>5, <2>6, <2>7, SeqEqual
  <2> QED BY <2>1, <2>7, <2>8
<1>7. QED BY <1>2, <1>3, <1>4, <1>5, <1>6

(* When no announcement is on its way, an event announced by every rank has   *)
(* been broadcast.                                                            *)
LEMMA NoneHeldUp ==
  ASSUME KeysRight, CountsRight, AheadBelow, NEW e \in Events,
         \A r \in Ranks, m \in Keys : up[r][m] = 0
  PROVE  \E r \in Ranks : e \notin Ahead(r)
<1>1. SUFFICES ASSUME \A r \in Ranks : e \in Ahead(r) PROVE FALSE
  OBVIOUS
<1> DEFINE Behind(x, k) == Inner(x, k) /\ e \notin ahead[x][k]
           T == {N - k : k \in {i \in 0 .. N : \E x \in Ranks : Behind(x, i)}}
<1>2. 0 \in Ranks /\ 0 \in 0 .. N /\ N \in Nat
  BY SchedulerAssumption DEF Ranks
<1>3. Behind(0, 0)
  <2>1. Inner(0, 0)
    BY <1>2, RankFacts, SchedulerAssumption, TreeHasShape DEF Inner, TreeShape
  <2> QED BY <2>1 DEF AheadBelow
<1>4. T \subseteq Nat /\ T # {}
  <2>1. N - 0 \in T
    BY <1>2, <1>3
  <2>2. \A k \in 0 .. N : N - k \in Nat
    BY <1>2
  <2> QED BY <2>1, <2>2
<1>5. PICK t \in T : \A y \in T : t <= y
  <2> HIDE DEF T
  <2> QED BY <1>4, Least
<1>6. PICK k \in 0 .. N : t = N - k /\ \E x \in Ranks : Behind(x, k)
  OBVIOUS
<1>7. PICK x \in Ranks : Behind(x, k)
  BY <1>6
<1>8. ASSUME NEW d \in Child[x][k] PROVE e \in ahead[d][k + 1]
  <2>1. d \in Ranks /\ k + 1 \in 1 .. N /\ k + 1 \in 0 .. N /\ Node(d, k + 1)
    BY <1>2, <1>7, ChildNode
  <2>2. CASE k + 1 = Level[d]
    BY <1>1, <2>1, <2>2 DEF Ahead
  <2>3. CASE k + 1 # Level[d]
    <3>1. Inner(d, k + 1)
      <4>1. k + 1 \in 0 .. Level[d] /\ Level[d] \in 1 .. N
        BY <2>1, RankFacts DEF Node
      <4> QED BY <1>2, <2>1, <2>3, <4>1 DEF Inner
    <3>2. SUFFICES ASSUME e \notin ahead[d][k + 1] PROVE FALSE
      OBVIOUS
    <3>3. N - (k + 1) \in T
      BY <2>1, <3>1, <3>2
    <3>4. t <= N - (k + 1)
      BY <1>5, <3>3
    <3> QED BY <1>2, <1>6, <3>4
  <2> QED BY <2>2, <2>3
<1>9. ChildrenAhead(x, k, e) = Child[x][k]
  BY <1>8 DEF ChildrenAhead
<1>10. Counted(x, k, e) = Cardinality(Child[x][k]) /\ recvEvent[x][<<e, k>>] < NbChild[x][k]
  BY <1>7, <1>9 DEF CountsRight
<1>11. NbChild[x][k] = Cardinality(Child[x][k]) /\ NbChild[x][k] \in Nat
  BY <1>7, FiniteChildren
<1>12. /\ <<e, k>> \in Keys /\ up[x][<<e, k>>] = 0 /\ recvEvent[x][<<e, k>>] \in Nat
  BY DEF Keys, KeysRight
<1>13. QED BY <1>10, <1>11, <1>12 DEF Counted

(* A rank that has announced an event at some level has at its last.          *)
LEMMA AheadToLeaf ==
  ASSUME AheadBelow, NEW x, NEW k, Node(x, k)
  PROVE  ahead[x][k] \subseteq Ahead(x)
<1>1. x \in Ranks /\ k \in 0 .. Level[x] /\ Level[x] \in 1 .. N /\ k <= Level[x]
  BY TreeHasShape, SchedulerAssumption DEF Node, TreeShape
<1>2. k \in 0 .. N /\ Level[x] \in 0 .. N
  BY <1>1, SchedulerAssumption
<1>3. Node(x, Level[x]) /\ x \in Branch(x, k)
  BY <1>1, <1>2, TreeHasShape DEF TreeShape
<1>4. QED BY <1>1, <1>2, <1>3 DEF AheadBelow, Ahead

(* No count is left behind.                                                   *)
LEMMA InvLeftover == SchedulerInv => NoLeftover
<1> SUFFICES ASSUME SchedulerInv,
                    \A r, s \in Ranks : registered[r] = registered[s],
                    \A r \in Ranks, m \in Keys : up[r][m] = 0
             PROVE  /\ \A r \in Ranks, m \in Keys : recvEvent[r][m] = 0
                    /\ \A e \in Events : \A r \in Ranks : registered[r][e] = Times(e)
  BY DEF NoLeftover
<1>1. KeysRight /\ CountsRight /\ AheadBelow /\ WaitingRight /\ Kinds
  BY DEF SchedulerInv
<1>2. \A e : Times(e) \in Nat
  <2> SUFFICES ASSUME NEW e PROVE Times(e) \in Nat
    OBVIOUS
  <2>1. Len(order) \in Int /\ 1 \in Int
    BY <1>1, LenProperties DEF Kinds
  <2>2. IsFiniteSet(1 .. Len(order))
    BY <2>1, FS_Interval
  <2>3. IsFiniteSet({i \in 1 .. Len(order) : order[i] = e})
    BY <2>2, FS_Subset
  <2> QED BY <2>3, FS_CardinalityType DEF Times
<1>3. ASSUME NEW e \in Events, NEW r \in Ranks PROVE e \notin Ahead(r)
  <2>1. PICK s \in Ranks : e \notin Ahead(s)
    BY <1>1, NoneHeldUp
  <2>2. /\ registered[r][e] = Times(e) + (IF e \in Ahead(r) THEN 1 ELSE 0)
        /\ registered[s][e] = Times(e) + (IF e \in Ahead(s) THEN 1 ELSE 0)
        /\ registered[r][e] = registered[s][e]
    BY <1>1 DEF WaitingRight
  <2> QED BY <1>2, <2>1, <2>2
<1>4. ASSUME NEW r \in Ranks, NEW m \in Keys PROVE recvEvent[r][m] = 0
  <2>1. PICK e \in Events, l \in 0 .. N : m = <<e, l>>
    BY DEF Keys
  <2>2. recvEvent[r][m] \in Nat /\ up[r][m] = 0 /\ m[2] = l
    BY <1>1, <2>1 DEF KeysRight
  <2>3. CASE Inner(r, l)
    <3>1. ASSUME NEW c \in Child[r][l] PROVE e \notin ahead[c][l + 1]
      <4>1. Node(c, l + 1) /\ c \in Ranks
        BY <2>3, ChildNode
      <4> QED BY <1>1, <1>3, <4>1, AheadToLeaf
    <3>2. ChildrenAhead(r, l, e) = {}
      BY <3>1 DEF ChildrenAhead
    <3>3. Counted(r, l, e) = 0
      <4>1. Counted(r, l, e) = IF e \in ahead[r][l] THEN 0 ELSE Cardinality(ChildrenAhead(r, l, e))
        BY <1>1, <2>3 DEF CountsRight
      <4> QED BY <3>2, <4>1, FS_EmptySet
    <3> QED BY <2>1, <2>2, <3>3 DEF Counted
  <2>4. CASE ~ Inner(r, l)
    <3>1. ~ (up[r][m] + recvEvent[r][m] > 0)
      BY <1>1, <2>2, <2>4 DEF KeysRight
    <3> QED BY <2>2, <3>1
  <2> QED BY <2>3, <2>4
<1>5. ASSUME NEW e \in Events, NEW r \in Ranks PROVE registered[r][e] = Times(e)
  <2>1. registered[r][e] = Times(e) + (IF e \in Ahead(r) THEN 1 ELSE 0)
    BY <1>1 DEF WaitingRight
  <2> QED BY <1>2, <1>3, <2>1
<1>6. QED BY <1>4, <1>5

(* For any number of ranks: the tree never loses, doubles or swaps an event,  *)
(* no rank is handed one it has not registered, and no count is left behind.  *)
THEOREM SchedulerIsExact == Spec => []SchedulerExact
<1>1. SchedulerInv => SchedulerExact
  BY InvTypes, InvOrder, InvLeftover DEF SchedulerExact
<1> QED BY <1>1, SchedulerSafe, PTL

-----------------------------------------------------------------------------
(* The scheduler implements the order its users rely on.                      *)

(* The abstract specification counts as this one does.                        *)
LEMMA SameTimes == \A e : Order!Times(e) = Times(e)
<1>1. \A S : Order!Cardinality(S) = Cardinality(S)
  BY DEF Order!Cardinality, Cardinality
<1> QED BY <1>1 DEF Order!Times, Times

(* Each step of the scheduler is a step of the abstract specification, or     *)
(* none.                                                                      *)
LEMMA OrderStep == SchedulerInv /\ [Next]_vars => [Order!Next]_(Order!vars)
<1> SUFFICES ASSUME SchedulerInv, [Next]_vars PROVE [Order!Next]_(Order!vars)
  OBVIOUS
<1>1. ASSUME NEW r \in Ranks, NEW e \in Events, RegisterEvent(r, e) PROVE Order!Next
  <2>1. registered' = [registered EXCEPT ![r][e] = @ + 1] /\ UNCHANGED <<order, popped>>
    BY <1>1 DEF RegisterEvent
  <2>2. Order!Announce(r, e)
    BY <2>1 DEF Order!Announce
  <2> QED BY <2>2 DEF Order!Next
<1>2. ASSUME NEW r \in Ranks, NEW m \in Keys, CheckChildRequest(r, m)
      PROVE  [Order!Next]_(Order!vars)
  <2>1. CASE UNCHANGED <<registered, order, popped>>
    BY <2>1 DEF Order!vars
  <2>2. ASSUME NEW e \in Events, order' = Append(order, e),
               \A x \in Ranks : registered[x][e] > Times(e), UNCHANGED <<registered, popped>>
        PROVE  Order!Next
    <3>1. Order!Choose(e)
      BY <2>2, SameTimes DEF Order!Choose
    <3> QED BY <3>1 DEF Order!Next
  <2> QED BY <1>2, <2>1, <2>2, ChildRequestStep
<1>3. ASSUME NEW r \in Ranks, NEW s \in Ranks, CheckParentRequest(r, s)
      PROVE  UNCHANGED Order!vars
  BY <1>3 DEF CheckParentRequest, Order!vars
<1>4. ASSUME NEW r \in Ranks, PopEvent(r) PROVE Order!Next
  <2>1. popped' = [popped EXCEPT ![r] = @ + 1] /\ UNCHANGED <<order, registered>>
    BY <1>4 DEF PopEvent
  <2>2. popped[r] < Len(order)
    BY <1>4, PopStep
  <2>3. Order!Take(r)
    BY <2>1, <2>2 DEF Order!Take
  <2> QED BY <2>3 DEF Order!Next
<1>5. CASE UNCHANGED vars
  BY <1>5 DEF vars, Order!vars
<1>6. QED BY <1>1, <1>2, <1>3, <1>4, <1>5 DEF Next

(* For any number of ranks, an event is broadcast only when every rank has    *)
(* registered it, and leaves the stack of a rank once and in the order of the *)
(* broadcasts: the safety part of AgreedOrder.                                *)
THEOREM SchedulerKeepsOrder == Spec => Order!Init /\ [][Order!Next]_(Order!vars)
<1>1. Init => Order!Init
  BY DEF Init, Order!Init
<1> QED BY <1>1, SchedulerSafe, OrderStep, PTL DEF Spec

=============================================================================
