--------------------------- MODULE ContextEnd_proofs ---------------------------
(* Proofs about ContextEnd: the invariant of the end of the contexts is        *)
(* inductive for any contexts, ranks and receivers, and the end comes down the *)
(* tiers in order.  Then proofs about CoupledDefinition: whatever contexts are *)
(* coupled, one closes its definition after those it sends fields to.          *)
EXTENDS ContextEnd, Integers, SequenceTheorems, TLAPS

(* The tiers are apart, and the peers of a rank are its tier.                  *)
LEMMA Tiers ==
  /\ Gatherers \cap Writers = {} /\ Clients \cap Servers = {} /\ Gatherers # {}
  /\ Servers \subseteq Ranks /\ Clients \subseteq Ranks
  /\ \A c \in Contexts : /\ Receivers[c] \subseteq Contexts
                         /\ ClientsOf[c] \subseteq Clients
                         /\ Members(c) = ClientsOf[c] \cup Servers
                         /\ Members(c) \subseteq Ranks
BY TiersAssumption DEF Servers, Members, Ranks, Clients

LEMMA PeersOf ==
  ASSUME NEW c \in Contexts, NEW r \in Members(c)
  PROVE  /\ r \in Peers(c, r) /\ Peers(c, r) \subseteq Members(c)
         /\ r \in Clients => r \in ClientsOf[c] /\ Peers(c, r) = ClientsOf[c]
         /\ r \in Gatherers => Peers(c, r) = Gatherers
         /\ r \in Writers => Peers(c, r) = Writers
         /\ \A q \in Peers(c, r) : Peers(c, q) = Peers(c, r)
BY Tiers DEF Peers, Members, Servers

(* The three kinds of events are apart, and each names its contexts.           *)
LEMMA EventNames ==
  /\ \A c, d : Fin(c) = Fin(d) => c = d
  /\ \A c, d : Sync(c) = Sync(d) => c = d
  /\ \A c, d : Fin(c) # Sync(d)
  /\ \A c, d, e : Fin(c) # Gone(d, e) /\ Sync(c) # Gone(d, e)
  /\ \A c, d, a, b : Gone(c, d) = Gone(a, b) => c = a /\ d = b
<1>1. \A c, d : Fin(c) = Fin(d) => c = d
  BY DEF Fin
<1>2. \A c, d : Sync(c) = Sync(d) => c = d
  BY DEF Sync
<1>3. \A c, d : Fin(c) # Sync(d)
  BY DEF Fin, Sync
<1>4. \A c, d, e : Fin(c) # Gone(d, e)
  BY DEF Fin, Gone
<1>5. \A c, d, e : Sync(c) # Gone(d, e)
  BY DEF Sync, Gone
<1>6. \A c, d, a, b : Gone(c, d) = Gone(a, b) => c = a /\ d = b
  BY DEF Gone
<1> QED
  BY <1>1, <1>2, <1>3, <1>4, <1>5, <1>6

LEMMA EventsIn ==
  ASSUME NEW c \in Contexts
  PROVE  /\ Events(c) \subseteq AllEvents
         /\ Fin(c) \in AllEvents /\ Sync(c) \in AllEvents
         /\ \A d \in Receivers[c] : Gone(c, d) \in AllEvents
BY DEF AllEvents, Events

(* A rank moves to a phase: the others stay where they are.                    *)
LEMMA Moved ==
  ASSUME TypeOK, NEW c \in Contexts, NEW r \in Members(c), NEW p \in Phases(r), Goes(c, r, p)
  PROVE  /\ DOMAIN phase' = Contexts
         /\ \A d \in Contexts : /\ DOMAIN phase'[d] = Members(d)
                                /\ \A q \in Members(d) : phase'[d][q] \in Phases(q)
         /\ phase'[c][r] = p
         /\ \A d \in Contexts : \A q \in Members(d) :
              d # c \/ q # r => phase'[d][q] = phase[d][q]
<1>1. /\ DOMAIN phase = Contexts
      /\ \A d \in Contexts : /\ DOMAIN phase[d] = Members(d)
                             /\ \A q \in Members(d) : phase[d][q] \in Phases(q)
  BY DEF TypeOK
<1>2. phase' = [phase EXCEPT ![c] = [phase[c] EXCEPT ![r] = p]]
  BY DEF Goes
<1>3. /\ DOMAIN phase' = Contexts /\ phase'[c] = [phase[c] EXCEPT ![r] = p]
      /\ \A d \in Contexts \ {c} : phase'[d] = phase[d]
  BY <1>1, <1>2
<1> QED
  BY <1>1, <1>3

(* Nobody goes back: the clients of a context that have left their time steps  *)
(* have done so for good, and a rank past its loop is past it for good.        *)
LEMMA Onward ==
  ASSUME TypeOK, NEW c \in Contexts, NEW r \in Members(c), NEW p \in Phases(r), Goes(c, r, p),
         p # "open", Past(c, r) => p # "listen"
  PROVE  /\ \A d \in Contexts : Told(d) => Told(d)'
         /\ \A d \in Contexts : \A q \in Members(d) :
              /\ Past(d, q) => Past(d, q)'
              /\ phase[d][q] # "open" => phase'[d][q] # "open"
<1>1. /\ phase'[c][r] = p
      /\ \A d \in Contexts : \A q \in Members(d) :
           d # c \/ q # r => phase'[d][q] = phase[d][q]
  BY Moved
<1>2. \A d \in Contexts : \A q \in Members(d) :
        /\ Past(d, q) => Past(d, q)'
        /\ phase[d][q] # "open" => phase'[d][q] # "open"
  BY <1>1 DEF Past
<1>3. \A d \in Contexts : ClientsOf[d] \subseteq Members(d)
  BY Tiers
<1> QED
  BY <1>2, <1>3 DEF Told

(* A rank takes the event at the front of its stack.                           *)
LEMMA Took ==
  ASSUME TypeOK, PendingOnce, NEW r \in Ranks, stack[r] # <<>>, Take(r)
  PROVE  /\ stack' \in [Ranks -> Seq(AllEvents)]
         /\ Len(stack'[r]) = Len(stack[r]) - 1
         /\ \A i \in 1 .. Len(stack'[r]) : stack'[r][i] = stack[r][i + 1]
         /\ \A q \in Ranks \ {r} : stack'[q] = stack[q]
         /\ \A q \in Ranks : \A e : InStack(q, e)' => InStack(q, e)
         /\ \A e : e = Head(stack[r]) => ~InStack(r, e)'
<1>1. stack \in [Ranks -> Seq(AllEvents)] /\ stack' = [stack EXCEPT ![r] = Tail(stack[r])]
  BY DEF TypeOK, Take
<1>2. stack[r] \in Seq(AllEvents) /\ Len(stack[r]) \in Nat /\ Len(stack[r]) > 0
  BY <1>1
<1>3. /\ Tail(stack[r]) \in Seq(AllEvents) /\ Len(Tail(stack[r])) = Len(stack[r]) - 1
      /\ \A i \in 1 .. Len(Tail(stack[r])) : Tail(stack[r])[i] = stack[r][i + 1]
      /\ Head(stack[r]) = stack[r][1] /\ Head(stack[r]) \in AllEvents
  BY <1>2
<1>4. /\ stack' \in [Ranks -> Seq(AllEvents)] /\ stack'[r] = Tail(stack[r])
      /\ \A q \in Ranks \ {r} : stack'[q] = stack[q]
  BY <1>1, <1>3
<1>5. ASSUME NEW q \in Ranks, NEW e, InStack(q, e)' PROVE InStack(q, e)
  <2>1. CASE q # r
    BY <1>4, <1>5, <2>1 DEF InStack
  <2>2. CASE q = r
    <3>1. PICK i \in 1 .. Len(stack'[r]) : stack'[r][i] = e
      BY <1>5, <2>2 DEF InStack
    <3>2. i + 1 \in 1 .. Len(stack[r]) /\ stack[r][i + 1] = e
      BY <1>2, <1>3, <1>4, <3>1
    <3> QED
      BY <2>2, <3>2 DEF InStack
  <2> QED
    BY <2>1, <2>2
<1>6. ASSUME NEW e, e = Head(stack[r]), InStack(r, e)' PROVE FALSE
  <2>1. PICK i \in 1 .. Len(stack'[r]) : stack'[r][i] = e
    BY <1>6 DEF InStack
  <2>2. i + 1 \in 1 .. Len(stack[r]) /\ 1 \in 1 .. Len(stack[r]) /\ i + 1 # 1
    BY <1>2, <1>3, <1>4, <2>1
  <2>3. stack[r][i + 1] = e /\ stack[r][1] = e /\ e \in AllEvents
    BY <1>3, <1>4, <1>6, <2>1
  <2> QED
    BY <2>2, <2>3 DEF PendingOnce
<1> QED
  BY <1>3, <1>4, <1>5, <1>6

(* Places counted from the end of a queue of length y and of one of length x.  *)
LEMMA Places ==
  \A i, x, y \in Nat :
    /\ (x + 1) + (y - x) = y + 1
    /\ i \in 1 .. x /\ x <= y => i + (y - x) \in 1 .. y
OBVIOUS

(* Taking the front leaves each event pending once, and the tiers in order.    *)
LEMMA TookInOrder ==
  ASSUME TypeOK, PendingOnce, OneOrder, NEW r \in Ranks, stack[r] # <<>>, Take(r),
         UNCHANGED announced
  PROVE  /\ PendingOnce' /\ OneOrder'
         /\ \A q \in Ranks : \A e : Pending(q, e)' => Pending(q, e)
<1>1. /\ stack' \in [Ranks -> Seq(AllEvents)]
      /\ Len(stack'[r]) = Len(stack[r]) - 1
      /\ \A i \in 1 .. Len(stack'[r]) : stack'[r][i] = stack[r][i + 1]
      /\ \A q \in Ranks \ {r} : stack'[q] = stack[q]
      /\ \A q \in Ranks : \A e : InStack(q, e)' => InStack(q, e)
  BY Took
<1>2. \A q \in Ranks : Len(stack[q]) \in Nat /\ Len(stack'[q]) \in Nat
  BY <1>1 DEF TypeOK
<1>3. PendingOnce'
  <2> SUFFICES ASSUME NEW q \in Ranks, NEW e \in AllEvents
               PROVE  /\ e \in announced[q] => ~InStack(q, e)'
                      /\ \A i, j \in 1 .. Len(stack'[q]) :
                           stack'[q][i] = e /\ stack'[q][j] = e => i = j
    BY DEF PendingOnce
  <2>1. e \in announced[q] => ~InStack(q, e)'
    BY <1>1 DEF PendingOnce
  <2>2. ASSUME NEW i \in 1 .. Len(stack'[q]), NEW j \in 1 .. Len(stack'[q]),
               stack'[q][i] = e, stack'[q][j] = e
        PROVE  i = j
    <3>1. CASE q # r
      BY <1>1, <2>2, <3>1 DEF PendingOnce
    <3>2. CASE q = r
      <4>1. i + 1 \in 1 .. Len(stack[r]) /\ j + 1 \in 1 .. Len(stack[r])
        BY <1>1, <1>2, <2>2, <3>2
      <4>2. stack[r][i + 1] = e /\ stack[r][j + 1] = e
        BY <1>1, <2>2, <3>2
      <4>3. i + 1 = j + 1
        BY <4>1, <4>2 DEF PendingOnce
      <4> QED
        BY <4>3
    <3> QED
      BY <3>1, <3>2
  <2> QED
    BY <2>1, <2>2
<1>4. OneOrder'
  <2> SUFFICES ASSUME NEW tier \in {Gatherers, Writers}, NEW a \in tier, NEW b \in tier,
                      Len(stack'[a]) <= Len(stack'[b]), NEW i \in 1 .. Len(stack'[a])
               PROVE  stack'[a][i] = stack'[b][i + (Len(stack'[b]) - Len(stack'[a]))]
    BY DEF OneOrder
  <2>1. a \in Ranks /\ b \in Ranks
    BY Tiers DEF Servers
  <2>a. Len(stack[a]) <= Len(stack[b]) =>
          \A j \in 1 .. Len(stack[a]) : stack[a][j] = stack[b][j + (Len(stack[b]) - Len(stack[a]))]
    BY Zenon DEF OneOrder
  <2>b. Len(stack[b]) <= Len(stack[a]) =>
          \A j \in 1 .. Len(stack[b]) : stack[b][j] = stack[a][j + (Len(stack[a]) - Len(stack[b]))]
    BY Zenon DEF OneOrder
  <2>c. /\ Len(stack[a]) \in Nat /\ Len(stack[b]) \in Nat
        /\ Len(stack'[a]) \in Nat /\ Len(stack'[b]) \in Nat
    BY <1>2, <2>1
  <2>d. /\ a # r => stack'[a] = stack[a] /\ Len(stack'[a]) = Len(stack[a])
        /\ b # r => stack'[b] = stack[b] /\ Len(stack'[b]) = Len(stack[b])
        /\ a = r => Len(stack'[a]) = Len(stack[a]) - 1
        /\ b = r => Len(stack'[b]) = Len(stack[b]) - 1
    BY <1>1, <2>1
  <2>e. i \in Nat /\ i >= 1 /\ i <= Len(stack'[a]) /\ Len(stack'[a]) <= Len(stack'[b])
    BY <2>c
  <2>2. CASE a # r /\ b # r
    BY <2>a, <2>d, <2>2
  <2>3. CASE a = b
    <3>1. i + (Len(stack'[b]) - Len(stack'[a])) = i
      BY <2>c, <2>3
    <3> QED
      BY <2>3, <3>1
  <2>4. CASE a = r /\ b # r /\ Len(stack[a]) <= Len(stack[b])
    <3>1. i + 1 \in 1 .. Len(stack[a])
      BY <2>c, <2>e, <2>d, <2>4
    <3>2. stack[a][i + 1] = stack[b][(i + 1) + (Len(stack[b]) - Len(stack[a]))]
      BY <2>4, <2>a, <3>1
    <3>3. (i + 1) + (Len(stack[b]) - Len(stack[a])) = i + (Len(stack'[b]) - Len(stack'[a]))
      <4> DEFINE x == Len(stack[a])
                 y == Len(stack[b])
      <4>1. x \in Nat /\ y \in Nat /\ i \in Nat
        BY <2>c, <2>e
      <4>2. Len(stack'[b]) = y /\ Len(stack'[a]) = x - 1
        BY <2>d, <2>4
      <4> HIDE DEF x, y
      <4>3. (i + 1) + (y - x) = i + (y - (x - 1))
        BY <4>1
      <4> QED
        BY <4>2, <4>3 DEF x, y
    <3>4. stack'[a][i] = stack[a][i + 1]
      BY <1>1, <2>4
    <3> QED
      BY <2>d, <2>4, <3>2, <3>3, <3>4
  <2>5. CASE a = r /\ b # r /\ ~(Len(stack[a]) <= Len(stack[b]))
    <3>1. Len(stack[a]) = Len(stack[b]) + 1 /\ Len(stack'[a]) = Len(stack[b])
      BY <2>c, <2>e, <2>d, <2>5
    <3>2. i \in 1 .. Len(stack[b]) /\ Len(stack[b]) <= Len(stack[a])
      BY <2>c, <2>e, <3>1
    <3>3. stack[b][i] = stack[a][i + (Len(stack[a]) - Len(stack[b]))]
      BY <2>b, <3>2
    <3>4. /\ i + (Len(stack[a]) - Len(stack[b])) = i + 1
          /\ i + (Len(stack'[b]) - Len(stack'[a])) = i
      BY <2>c, <2>e, <2>d, <2>5, <3>1
    <3>5. stack'[a][i] = stack[a][i + 1]
      BY <1>1, <2>5
    <3> QED
      BY <2>d, <2>5, <3>3, <3>4, <3>5
  <2>6. CASE a # r /\ b = r
    <3>1. Len(stack[a]) <= Len(stack[b]) /\ i \in 1 .. Len(stack[a])
      BY <2>c, <2>e, <2>d, <2>6
    <3>2. stack[a][i] = stack[b][i + (Len(stack[b]) - Len(stack[a]))]
      BY <2>a, <3>1
    <3>3. i + (Len(stack'[b]) - Len(stack'[a])) \in 1 .. Len(stack'[b])
      BY <2>c, <2>e, Places
    <3>4. (i + (Len(stack'[b]) - Len(stack'[a]))) + 1 = i + (Len(stack[b]) - Len(stack[a]))
      <4> DEFINE x == Len(stack[a])
                 y == Len(stack[b])
      <4>1. x \in Nat /\ y \in Nat /\ i \in Nat
        BY <2>c, <2>e
      <4>2. Len(stack'[b]) = y - 1 /\ Len(stack'[a]) = x
        BY <2>d, <2>6
      <4> HIDE DEF x, y
      <4>3. (i + ((y - 1) - x)) + 1 = i + (y - x)
        BY <4>1
      <4> QED
        BY <4>2, <4>3 DEF x, y
    <3>5. stack'[b][i + (Len(stack'[b]) - Len(stack'[a]))]
            = stack[b][(i + (Len(stack'[b]) - Len(stack'[a]))) + 1]
      BY <1>1, <2>6, <3>3
    <3> QED
      BY <2>d, <2>6, <3>2, <3>4, <3>5
  <2> QED
    BY <2>2, <2>3, <2>4, <2>5, <2>6
<1> QED
  BY <1>1, <1>3, <1>4 DEF Pending

(* A rank registers an event that is not pending.                              *)
LEMMA Announced ==
  ASSUME TypeOK, PendingOnce, NEW r \in Ranks, NEW e \in AllEvents, Announces(r, e),
         ~Pending(r, e), UNCHANGED stack
  PROVE  /\ announced' \in [Ranks -> SUBSET AllEvents] /\ PendingOnce'
         /\ \A q \in Ranks : \A f : Pending(q, f)' => Pending(q, f) \/ (q = r /\ f = e)
         /\ \A q, f : InStack(q, f)' <=> InStack(q, f)
<1>1. /\ announced \in [Ranks -> SUBSET AllEvents]
      /\ announced' = [announced EXCEPT ![r] = announced[r] \cup {e}]
  BY DEF TypeOK, Announces
<1>2. announced' \in [Ranks -> SUBSET AllEvents]
  BY <1>1
<1>3. \A q \in Ranks : \A f : f \in announced'[q] => f \in announced[q] \/ (q = r /\ f = e)
  BY <1>1
<1>4. \A q, f : InStack(q, f)' <=> InStack(q, f)
  BY DEF InStack
<1>5. PendingOnce'
  BY <1>3, <1>4 DEF PendingOnce, Pending
<1> QED
  BY <1>2, <1>3, <1>4, <1>5 DEF Pending

(* An event is put at the end of a queue.                                      *)
LEMMA Appended ==
  ASSUME NEW S, NEW s \in Seq(S), NEW e \in S
  PROVE  /\ Len(s) \in Nat /\ Len(Append(s, e)) = Len(s) + 1
         /\ \A i \in 1 .. Len(s) : Append(s, e)[i] = s[i]
         /\ Append(s, e)[Len(s) + 1] = e
         /\ Append(s, e) # <<>> /\ (s # <<>> => Head(Append(s, e)) = Head(s))
<1>1. /\ Len(s) \in Nat /\ Len(Append(s, e)) = Len(s) + 1
      /\ \A i \in 1 .. Len(s) : Append(s, e)[i] = s[i]
      /\ Append(s, e)[Len(s) + 1] = e
  OBVIOUS
<1>2. Append(s, e) # <<>>
  BY <1>1
<1>3. ASSUME s # <<>> PROVE Head(Append(s, e)) = Head(s)
  <2>1. Len(s) > 0 /\ 1 \in 1 .. Len(s)
    BY <1>3
  <2>2. Head(Append(s, e)) = Append(s, e)[1] /\ Head(s) = s[1]
    BY <1>2, <1>3
  <2> QED
    BY <1>1, <2>1, <2>2
<1> QED
  BY <1>1, <1>2, <1>3

(* The order of a tier grows at its end, the same on all its ranks.            *)
LEMMA DecidedInOrder ==
  ASSUME TypeOK, PendingOnce, OneOrder, NEW c \in Contexts, NEW r \in Members(c),
         NEW e \in Events(c), Decide(c, r, e)
  PROVE  /\ stack' \in [Ranks -> Seq(AllEvents)] /\ announced' \in [Ranks -> SUBSET AllEvents]
         /\ PendingOnce' /\ OneOrder'
         /\ \A q \in Ranks : \A f : Pending(q, f)' => Pending(q, f)
         /\ \A q \in Ranks : \A f : Front(q, f) => Front(q, f)'
         /\ \A q \in Ranks : \A f :
              InStack(q, f)' => InStack(q, f) \/ (q \in Peers(c, r) /\ f = e)
<1> DEFINE P == Peers(c, r)
<1>1. /\ P \subseteq Ranks /\ e \in AllEvents
      /\ stack \in [Ranks -> Seq(AllEvents)] /\ announced \in [Ranks -> SUBSET AllEvents]
  BY PeersOf, Tiers, EventsIn DEF TypeOK
<1>2. /\ \A q \in P : e \in announced[q]
      /\ announced' = [q \in Ranks |-> IF q \in P THEN announced[q] \ {e} ELSE announced[q]]
      /\ stack' = [q \in Ranks |-> IF q \in P THEN Append(stack[q], e) ELSE stack[q]]
  BY DEF Decide
<1> HIDE DEF P
<1>3. stack' \in [Ranks -> Seq(AllEvents)] /\ announced' \in [Ranks -> SUBSET AllEvents]
  BY <1>1, <1>2
<1>4. ASSUME NEW q \in P
      PROVE  /\ Len(stack[q]) \in Nat /\ Len(stack'[q]) = Len(stack[q]) + 1
             /\ \A i \in 1 .. Len(stack[q]) : stack'[q][i] = stack[q][i]
             /\ stack'[q][Len(stack[q]) + 1] = e
             /\ stack'[q] # <<>> /\ (stack[q] # <<>> => Head(stack'[q]) = Head(stack[q]))
             /\ announced'[q] = announced[q] \ {e}
  <2>1. stack[q] \in Seq(AllEvents) /\ stack'[q] = Append(stack[q], e)
    BY <1>1, <1>2
  <2>5. announced'[q] = announced[q] \ {e}
    BY <1>1, <1>2
  <2> QED
    BY <1>1, <2>1, <2>5, Appended
<1>5. \A q \in Ranks \ P : stack'[q] = stack[q] /\ announced'[q] = announced[q]
  BY <1>2
<1>6. ASSUME NEW q \in Ranks, NEW f
      PROVE  /\ InStack(q, f)' => InStack(q, f) \/ (q \in P /\ f = e)
             /\ Pending(q, f)' => Pending(q, f)
             /\ Front(q, f) => Front(q, f)'
  <2>1. CASE q \notin P
    BY <1>5, <2>1 DEF InStack, Pending, Front
  <2>2. CASE q \in P
    <3>1. InStack(q, f)' => InStack(q, f) \/ f = e
      <4> SUFFICES ASSUME NEW i \in 1 .. Len(stack'[q]), stack'[q][i] = f, f # e
                   PROVE  InStack(q, f)
        BY DEF InStack
      <4>1. i \in 1 .. Len(stack[q]) \/ i = Len(stack[q]) + 1
        BY <1>4, <2>2
      <4> QED
        BY <1>4, <2>2, <4>1 DEF InStack
    <3> QED
      BY <1>2, <1>4, <2>2, <3>1 DEF Pending, Front
  <2> QED
    BY <2>1, <2>2
<1>7. PendingOnce'
  <2> SUFFICES ASSUME NEW q \in Ranks, NEW f \in AllEvents
               PROVE  /\ f \in announced'[q] => ~InStack(q, f)'
                      /\ \A i, j \in 1 .. Len(stack'[q]) :
                           stack'[q][i] = f /\ stack'[q][j] = f => i = j
    BY DEF PendingOnce
  <2>1. CASE q \notin P
    BY <1>5, <2>1 DEF PendingOnce, InStack
  <2>2. CASE q \in P
    <3>1. f \in announced'[q] => ~InStack(q, f)'
      BY <1>4, <1>6, <2>2 DEF PendingOnce
    <3>2. ~InStack(q, e)
      BY <1>1, <1>2, <2>2 DEF PendingOnce
    <3>3. ASSUME NEW i \in 1 .. Len(stack'[q]), NEW j \in 1 .. Len(stack'[q]),
                 stack'[q][i] = f, stack'[q][j] = f
          PROVE  i = j
      <4>1. /\ i \in 1 .. Len(stack[q]) \/ i = Len(stack[q]) + 1
            /\ j \in 1 .. Len(stack[q]) \/ j = Len(stack[q]) + 1
        BY <1>4, <2>2
      <4>2. CASE f = e
        BY <1>4, <2>2, <3>2, <3>3, <4>1, <4>2 DEF InStack
      <4>3. CASE f # e
        <5>1. i \in 1 .. Len(stack[q]) /\ j \in 1 .. Len(stack[q])
          BY <1>4, <2>2, <3>3, <4>1, <4>3
        <5> QED
          BY <1>4, <2>2, <3>3, <5>1 DEF PendingOnce
      <4> QED
        BY <4>2, <4>3
    <3> QED
      BY <3>1, <3>3
  <2> QED
    BY <2>1, <2>2
<1>8. OneOrder'
  <2> SUFFICES ASSUME NEW tier \in {Gatherers, Writers}, NEW a \in tier, NEW b \in tier,
                      Len(stack'[a]) <= Len(stack'[b]), NEW i \in 1 .. Len(stack'[a])
               PROVE  stack'[a][i] = stack'[b][i + (Len(stack'[b]) - Len(stack'[a]))]
    BY DEF OneOrder
  <2>1. a \in Ranks /\ b \in Ranks
    BY Tiers DEF Servers
  <2>2. Len(stack[a]) <= Len(stack[b]) =>
          \A j \in 1 .. Len(stack[a]) : stack[a][j] = stack[b][j + (Len(stack[b]) - Len(stack[a]))]
    BY Zenon DEF OneOrder
  <2>3. a \in P <=> b \in P
    <3>1. r \in Clients \/ r \in Gatherers \/ r \in Writers
      BY Tiers DEF Members, Servers
    <3>2. P \in {Gatherers, Writers} \/ P \subseteq Clients
      BY <3>1, PeersOf, Tiers DEF P
    <3> QED
      BY <3>2, Tiers DEF Servers
  <2>4. CASE a \notin P
    BY <1>5, <2>1, <2>2, <2>3, <2>4
  <2>5. CASE a \in P
    <3>1. /\ Len(stack[a]) \in Nat /\ Len(stack[b]) \in Nat
          /\ Len(stack'[a]) = Len(stack[a]) + 1 /\ Len(stack'[b]) = Len(stack[b]) + 1
      BY <1>4, <2>3, <2>5
    <3>2. /\ Len(stack[a]) <= Len(stack[b]) /\ i \in Nat
          /\ i \in 1 .. Len(stack[a]) \/ i = Len(stack[a]) + 1
          /\ Len(stack'[b]) - Len(stack'[a]) = Len(stack[b]) - Len(stack[a])
      BY <3>1
    <3>3. CASE i \in 1 .. Len(stack[a])
      <4>1. i + (Len(stack[b]) - Len(stack[a])) \in 1 .. Len(stack[b])
        BY <3>1, <3>2, <3>3, Places
      <4>2. /\ stack'[a][i] = stack[a][i]
            /\ stack'[b][i + (Len(stack[b]) - Len(stack[a]))]
                 = stack[b][i + (Len(stack[b]) - Len(stack[a]))]
        BY <1>4, <2>3, <2>5, <3>3, <4>1
      <4>3. stack[a][i] = stack[b][i + (Len(stack[b]) - Len(stack[a]))]
        BY <2>2, <3>2, <3>3
      <4> QED
        BY <3>2, <4>2, <4>3
    <3>4. CASE i = Len(stack[a]) + 1
      <4>1. i + (Len(stack[b]) - Len(stack[a])) = Len(stack[b]) + 1
        BY <3>1, <3>4, Places
      <4>2. stack'[a][i] = e /\ stack'[b][Len(stack[b]) + 1] = e
        BY <1>4, <2>3, <2>5, <3>4
      <4> QED
        BY <3>2, <4>1, <4>2
    <3> QED
      BY <3>2, <3>3, <3>4
  <2> QED
    BY <2>4, <2>5
<1> QED
  BY <1>3, <1>6, <1>7, <1>8 DEF P

-----------------------------------------------------------------------------
(* The steps.                                                                  *)

(* The places of the events do not depend on the phases.                       *)
LEMMA StacksKept ==
  ASSUME UNCHANGED <<announced, stack>>
  PROVE  /\ \A q, f : /\ InStack(q, f)' <=> InStack(q, f)
                      /\ Pending(q, f)' <=> Pending(q, f)
                      /\ Front(q, f)' <=> Front(q, f)
         /\ PendingOnce => PendingOnce'
         /\ OneOrder => OneOrder'
<1>1. \A q, f : InStack(q, f)' <=> InStack(q, f)
  BY DEF InStack
<1>2. \A q, f : Pending(q, f)' <=> Pending(q, f)
  BY <1>1 DEF Pending
<1>3. \A q, f : Front(q, f)' <=> Front(q, f)
  BY DEF Front
<1>4. PendingOnce => PendingOnce'
  BY <1>1 DEF PendingOnce
<1>5. OneOrder => OneOrder'
  BY DEF OneOrder
<1> QED
  BY <1>1, <1>2, <1>3, <1>4, <1>5

(* A rank goes on to a phase.  It may register the event it goes on to wait    *)
(* for, or take the one it has waited for; it does not go on before the tier   *)
(* above, the tier below or its receivers let it.                              *)
LEMMA MoveStep ==
  ASSUME EndInv, NEW c \in Contexts, NEW r \in Members(c), NEW p \in Phases(r), Goes(c, r, p),
         UNCHANGED <<entered, gone>>,
         announced' \in [Ranks -> SUBSET AllEvents], stack' \in [Ranks -> Seq(AllEvents)],
         PendingOnce', OneOrder',
         p # "open", Past(c, r) => p # "listen",
         \A q \in Ranks : \A f : InStack(q, f)' => InStack(q, f),
         \A q \in Ranks : \A f : Pending(q, f)' =>
           Pending(q, f) \/ (q = r /\ f = Fin(c)) \/ (q = r /\ f = Sync(c)),
         Pending(r, Fin(c))' => r \in Servers /\ p = "listen",
         Pending(r, Sync(c))' => p = "sync",
         \A q \in Servers : \A d \in Contexts : Front(q, Fin(d)) =>
           Front(q, Fin(d))' \/ (q = r /\ d = c /\ p # "listen"),
         written' \in [Contexts -> SUBSET (Clients \cup Gatherers)],
         notified' \in [Contexts -> SUBSET Servers],
         \A d \in Contexts : written[d] \subseteq written'[d],
         \A d \in Contexts : \A q \in written'[d] :
           q \in written[d] \/ (d = c /\ q = r /\ p = "sync"),
         p = "sync" => r \in written'[c],
         \A d \in Contexts : \A q \in notified'[d] :
           q \in notified[d] \/ (d = c /\ q = r /\ p # "listen"),
         r \in written[c] => p \in {"spin", "close", "done"},
         r \in Servers => Above(c, r) \subseteq written[c],
         r \in Servers /\ p # "listen" => \A q \in Peers(c, r) : <<q, Fin(c)>> \in entered,
         r \in ClientsOf[c] /\ p # "listen" => \A d \in Receivers[c] : <<r, d>> \in gone[c],
         p = "spin" => Peers(c, r) \subseteq written[c],
         p \in {"close", "done"} /\ r \notin Writers => \A s \in Below(r) : Past(c, s)
  PROVE  EndInv'
<1>1. /\ TypeOK /\ PendingOnce /\ PendingWhere /\ OneOrder /\ StaysAtFront /\ ComesDown
      /\ SpinsAlone /\ ReleasedAfterTaken
  BY DEF EndInv
<1>2. /\ phase'[c][r] = p
      /\ \A d \in Contexts : \A q \in Members(d) :
           d # c \/ q # r => phase'[d][q] = phase[d][q]
  BY <1>1, Moved
<1>3. /\ \A d \in Contexts : Told(d) => Told(d)'
      /\ \A d \in Contexts : \A q \in Members(d) :
           /\ Past(d, q) => Past(d, q)'
           /\ phase[d][q] # "open" => phase'[d][q] # "open"
  BY <1>1, Onward
<1>4. \A d \in Contexts : /\ Servers \subseteq Members(d) /\ ClientsOf[d] \subseteq Members(d)
                          /\ Receivers[d] \subseteq Contexts /\ Members(d) \subseteq Ranks
  BY Tiers
<1>6. TypeOK'
  <2>3. /\ DOMAIN phase' = Contexts
        /\ \A d \in Contexts : /\ DOMAIN phase'[d] = Members(d)
                               /\ \A q \in Members(d) : phase'[d][q] \in Phases(q)
    BY <1>1, Moved
  <2> QED
    BY <1>1, <2>3 DEF TypeOK
<1>7. PendingWhere'
  <2> SUFFICES ASSUME NEW d \in Contexts, NEW q \in Ranks
               PROVE  /\ Pending(q, Fin(d))' => q \in Servers /\ phase'[d][q] = "listen"
                      /\ Pending(q, Sync(d))' =>
                           q \in Members(d) /\ phase'[d][q] = "sync" /\ q \in written'[d]
                      /\ InStack(q, Sync(d))' => Peers(d, q) \subseteq written'[d]
                      /\ \A a \in Receivers[d] : Pending(q, Gone(d, a))' => Told(a)'
    BY DEF PendingWhere
  <2>1. /\ Pending(q, Fin(d)) => q \in Servers /\ phase[d][q] = "listen"
        /\ Pending(q, Sync(d)) => q \in Members(d) /\ phase[d][q] = "sync" /\ q \in written[d]
        /\ InStack(q, Sync(d)) => Peers(d, q) \subseteq written[d]
        /\ \A a \in Receivers[d] : Pending(q, Gone(d, a)) => Told(a)
    BY <1>1 DEF PendingWhere
  <2>a. Pending(q, Fin(d))' => Pending(q, Fin(d)) \/ (q = r /\ Fin(d) = Fin(c))
    BY EventNames
  <2>b. Pending(q, Sync(d))' => Pending(q, Sync(d)) \/ (q = r /\ Sync(d) = Sync(c))
    BY EventNames
  <2>c. ASSUME NEW a PROVE Pending(q, Gone(d, a))' => Pending(q, Gone(d, a))
    BY EventNames
  <2>d. InStack(q, Sync(d))' => InStack(q, Sync(d))
    OBVIOUS
  <2>e. (Fin(d) = Fin(c) => d = c) /\ (Sync(d) = Sync(c) => d = c)
    BY EventNames
  <2>2. Pending(q, Fin(d))' => q \in Servers /\ phase'[d][q] = "listen"
    <3>1. CASE d = c /\ q = r
      BY <1>2, <3>1
    <3>2. CASE ~(d = c /\ q = r)
      BY <1>2, <1>4, <2>1, <2>a, <2>e, <3>2
    <3> QED
      BY <3>1, <3>2
  <2>3. Pending(q, Sync(d))' =>
          q \in Members(d) /\ phase'[d][q] = "sync" /\ q \in written'[d]
    <3>1. CASE d = c /\ q = r
      BY <1>2, <3>1
    <3>2. CASE ~(d = c /\ q = r)
      BY <1>2, <2>1, <2>b, <2>e, <3>2
    <3> QED
      BY <3>1, <3>2
  <2>4. InStack(q, Sync(d))' => Peers(d, q) \subseteq written'[d]
    BY <2>1, <2>d
  <2>5. \A a \in Receivers[d] : Pending(q, Gone(d, a))' => Told(a)'
    BY <1>3, <1>4, <2>1, <2>c
  <2> QED
    BY <2>2, <2>3, <2>4, <2>5
<1>8. StaysAtFront'
  <2> SUFFICES ASSUME NEW d \in Contexts, NEW q \in Servers
               PROVE  /\ <<q, Fin(d)>> \in entered /\ ~Past(d, q)' => Front(q, Fin(d))'
                      /\ Past(d, q)' => \A x \in Peers(d, q) : <<x, Fin(d)>> \in entered
    BY DEF StaysAtFront
  <2>1. /\ <<q, Fin(d)>> \in entered /\ ~Past(d, q) => Front(q, Fin(d))
        /\ Past(d, q) => \A x \in Peers(d, q) : <<x, Fin(d)>> \in entered
    BY <1>1 DEF StaysAtFront
  <2>2. CASE d = c /\ q = r
    BY <1>2, <1>3, <1>4, <2>1, <2>2 DEF Past
  <2>3. CASE ~(d = c /\ q = r)
    <3>1. Past(d, q)' <=> Past(d, q)
      BY <1>2, <1>4, <2>3 DEF Past
    <3> QED
      BY <2>1, <2>3, <3>1
  <2> QED
    BY <2>2, <2>3
<1>9. ComesDown'
  <2> SUFFICES ASSUME NEW d \in Contexts
               PROVE  /\ \A q \in written'[d] :
                           q \in Members(d) /\ phase'[d][q] \in {"sync", "spin", "close", "done"}
                      /\ \A q \in notified'[d] : Past(d, q)'
                      /\ \A q \in Servers : phase'[d][q] # "open" => Above(d, q) \subseteq written'[d]
                      /\ \A q \in ClientsOf[d] : Past(d, q)' =>
                           \A a \in Receivers[d] : <<q, a>> \in gone[d]
                      /\ \A x \in gone[d] : x[2] \in Receivers[d] => Told(x[2])'
    BY DEF ComesDown
  <2>1. /\ \A q \in written[d] :
             q \in Members(d) /\ phase[d][q] \in {"sync", "spin", "close", "done"}
        /\ \A q \in notified[d] : Past(d, q)
        /\ \A q \in Servers : phase[d][q] # "open" => Above(d, q) \subseteq written[d]
        /\ \A q \in ClientsOf[d] : Past(d, q) => \A a \in Receivers[d] : <<q, a>> \in gone[d]
        /\ \A x \in gone[d] : x[2] \in Receivers[d] => Told(x[2])
    BY <1>1 DEF ComesDown
  <2>2. \A q \in written'[d] :
          q \in Members(d) /\ phase'[d][q] \in {"sync", "spin", "close", "done"}
    BY <1>2, <2>1
  <2>3. \A q \in notified'[d] : Past(d, q)'
    <3>1. notified[d] \subseteq Members(d)
      BY <1>1, <1>4 DEF TypeOK
    <3>2. p # "listen" => Past(c, r)'
      BY <1>2 DEF Past
    <3> QED
      BY <1>3, <2>1, <3>1, <3>2
  <2>4. \A q \in Servers : phase'[d][q] # "open" => Above(d, q) \subseteq written'[d]
    BY <1>2, <1>4, <2>1
  <2>5. \A q \in ClientsOf[d] : Past(d, q)' => \A a \in Receivers[d] : <<q, a>> \in gone[d]
    BY <1>2, <1>4, <2>1 DEF Past
  <2> QED
    BY <1>3, <1>4, <2>1, <2>2, <2>3, <2>4, <2>5
<1>10. SpinsAlone'
  <2> SUFFICES ASSUME NEW d \in Contexts, NEW q \in Members(d), phase'[d][q] = "spin"
               PROVE  Peers(d, q) \subseteq written'[d]
    BY DEF SpinsAlone, At
  <2> QED
    BY <1>1, <1>2 DEF SpinsAlone, At
<1>11. ReleasedAfterTaken'
  <2> SUFFICES ASSUME NEW d \in Contexts, NEW q \in Members(d) \ Writers,
                      phase'[d][q] \in {"close", "done"}, NEW s \in Below(q)
               PROVE  Past(d, s)'
    BY DEF ReleasedAfterTaken, Past
  <2>1. s \in Members(d)
    BY <1>4 DEF Below, Servers
  <2>2. Past(d, s)
    BY <1>1, <1>2 DEF ReleasedAfterTaken, Past
  <2> QED
    BY <1>3, <2>1, <2>2
<1> QED
  BY <1>6, <1>7, <1>8, <1>9, <1>10, <1>11 DEF EndInv

(* What the invariant says of a rank.                                          *)
LEMMA Known ==
  ASSUME EndInv, NEW c \in Contexts, NEW r \in Members(c)
  PROVE  /\ r \in Ranks /\ phase[c][r] \in Phases(r)
         /\ announced \in [Ranks -> SUBSET AllEvents] /\ stack \in [Ranks -> Seq(AllEvents)]
         /\ written \in [Contexts -> SUBSET (Clients \cup Gatherers)]
         /\ notified \in [Contexts -> SUBSET Servers]
         /\ PendingOnce /\ OneOrder
         /\ r \in written[c] => phase[c][r] \in {"sync", "spin", "close", "done"}
         /\ r \in Servers /\ phase[c][r] # "open" => Above(c, r) \subseteq written[c]
         /\ r \in Servers /\ Past(c, r) => \A q \in Peers(c, r) : <<q, Fin(c)>> \in entered
         /\ r \in ClientsOf[c] /\ Past(c, r) => \A d \in Receivers[c] : <<r, d>> \in gone[c]
         /\ Pending(r, Fin(c)) => r \in Servers /\ phase[c][r] = "listen"
         /\ Pending(r, Sync(c)) => phase[c][r] = "sync" /\ r \in written[c]
         /\ InStack(r, Sync(c)) => Peers(c, r) \subseteq written[c]
         /\ \A s \in notified[c] : Past(c, s)
<1>1. r \in Ranks /\ ClientsOf[c] \subseteq Members(c)
  BY Tiers
<1>2. TypeOK /\ PendingOnce /\ PendingWhere /\ OneOrder /\ StaysAtFront /\ ComesDown
  BY DEF EndInv
<1>3. /\ phase[c][r] \in Phases(r)
      /\ announced \in [Ranks -> SUBSET AllEvents] /\ stack \in [Ranks -> Seq(AllEvents)]
      /\ written \in [Contexts -> SUBSET (Clients \cup Gatherers)]
      /\ notified \in [Contexts -> SUBSET Servers]
  BY <1>2 DEF TypeOK
<1>4. /\ r \in written[c] => phase[c][r] \in {"sync", "spin", "close", "done"}
      /\ r \in Servers /\ phase[c][r] # "open" => Above(c, r) \subseteq written[c]
      /\ r \in ClientsOf[c] /\ Past(c, r) => \A d \in Receivers[c] : <<r, d>> \in gone[c]
      /\ \A s \in notified[c] : Past(c, s)
  BY <1>2 DEF ComesDown
<1>5. r \in Servers /\ Past(c, r) => \A q \in Peers(c, r) : <<q, Fin(c)>> \in entered
  BY <1>2 DEF StaysAtFront
<1>6. /\ Pending(r, Fin(c)) => r \in Servers /\ phase[c][r] = "listen"
      /\ Pending(r, Sync(c)) => phase[c][r] = "sync" /\ r \in written[c]
      /\ InStack(r, Sync(c)) => Peers(c, r) \subseteq written[c]
  BY <1>1, <1>2 DEF PendingWhere
<1> QED
  BY <1>1, <1>2, <1>3, <1>4, <1>5, <1>6

(* A rank goes on to a phase, and nothing else happens.                        *)
LEMMA PhaseStep ==
  ASSUME EndInv, NEW c \in Contexts, NEW r \in Members(c), NEW p \in Phases(r), Goes(c, r, p),
         UNCHANGED <<written, notified, announced, stack, entered, gone>>,
         p \notin {"open", "sync", "spin"}, phase[c][r] # "sync",
         r \in Servers => Past(c, r),
         Past(c, r) => p # "listen",
         r \in written[c] => p \in {"close", "done"},
         r \in ClientsOf[c] /\ p # "listen" => \A d \in Receivers[c] : <<r, d>> \in gone[c],
         p \in {"close", "done"} /\ r \notin Writers => \A s \in Below(r) : Past(c, s)
  PROVE  EndInv'
<1>1. /\ announced' \in [Ranks -> SUBSET AllEvents] /\ stack' \in [Ranks -> Seq(AllEvents)]
      /\ written' \in [Contexts -> SUBSET (Clients \cup Gatherers)]
      /\ notified' \in [Contexts -> SUBSET Servers]
      /\ PendingOnce' /\ OneOrder'
      /\ ~Pending(r, Fin(c)) /\ ~Pending(r, Sync(c))
      /\ r \in Servers => Above(c, r) \subseteq written[c]
      /\ r \in Servers => \A q \in Peers(c, r) : <<q, Fin(c)>> \in entered
  BY Known, StacksKept DEF Past
<1>2. /\ \A q, f : InStack(q, f)' <=> InStack(q, f)
      /\ \A q, f : Pending(q, f)' <=> Pending(q, f)
      /\ \A q, f : Front(q, f)' <=> Front(q, f)
  BY StacksKept
<1>3. ~Pending(r, Fin(c))' /\ ~Pending(r, Sync(c))'
  BY <1>1, <1>2
<1>4. \A q \in Servers : \A d \in Contexts : Front(q, Fin(d)) =>
        Front(q, Fin(d))' \/ (q = r /\ d = c /\ p # "listen")
  BY <1>2
<1> QED
  BY <1>1, <1>2, <1>3, <1>4, MoveStep

(* The phases of a rank that gets on by itself.                                *)
LEMMA FinalizeStep ==
  ASSUME EndInv, NEW c \in Contexts, NEW r \in Members(c), Finalize(c, r) PROVE EndInv'
<1>1. /\ phase[c][r] = "open" /\ r \in Clients /\ Goes(c, r, "listen")
      /\ UNCHANGED <<written, notified, announced, stack, entered, gone>>
  BY DEF Finalize, At
<1>2. r \notin Servers /\ r \notin written[c] /\ "listen" \in Phases(r)
  BY <1>1, Known, Tiers DEF Phases
<1> QED
  BY <1>1, <1>2, PhaseStep DEF Past

LEMMA StopListeningStep ==
  ASSUME EndInv, NEW c \in Contexts, NEW r \in Members(c), StopListening(c, r) PROVE EndInv'
<1>1. /\ phase[c][r] = "listen" /\ r \in Clients /\ Goes(c, r, "reduce")
      /\ \A d \in Receivers[c] : <<r, d>> \in gone[c]
      /\ UNCHANGED <<written, notified, announced, stack, entered, gone>>
  BY DEF StopListening, At
<1>2. r \notin Servers /\ r \notin written[c] /\ "reduce" \in Phases(r)
  BY <1>1, Known, Tiers DEF Phases, Servers
<1> QED
  BY <1>1, <1>2, PhaseStep DEF Past

LEMMA ReduceStep ==
  ASSUME EndInv, NEW c \in Contexts, NEW r \in Members(c), Reduce(c, r) PROVE EndInv'
<1>1. /\ phase[c][r] = "reduce" /\ Goes(c, r, "send")
      /\ UNCHANGED <<written, notified, announced, stack, entered, gone>>
  BY DEF Reduce, At
<1>2. Past(c, r) /\ r \notin written[c] /\ "send" \in Phases(r)
  BY <1>1, Known DEF Phases, Past
<1>3. r \in ClientsOf[c] => \A d \in Receivers[c] : <<r, d>> \in gone[c]
  BY <1>2, Known
<1> QED
  BY <1>1, <1>2, <1>3, PhaseStep

(* The tier below has notified that it has dispatched the end.                 *)
LEMMA ReleaseStep ==
  ASSUME EndInv, NEW c \in Contexts, NEW r \in Members(c), Release(c, r) PROVE EndInv'
<1> DEFINE p == IF r \in Gatherers THEN "close" ELSE "done"
<1>1. /\ phase[c][r] = "spin" /\ Goes(c, r, p) /\ Below(r) \subseteq notified[c]
      /\ UNCHANGED <<written, notified, announced, stack, entered, gone>>
  BY DEF Release, At, Notified
<1>2. Past(c, r) /\ p \in Phases(r) /\ p \in {"close", "done"}
  BY <1>1 DEF Phases, Past
<1>3. /\ r \in ClientsOf[c] => \A d \in Receivers[c] : <<r, d>> \in gone[c]
      /\ \A s \in Below(r) : Past(c, s)
  BY <1>1, <1>2, Known
<1> QED
  BY <1>1, <1>2, <1>3, PhaseStep

LEMMA CloseStep ==
  ASSUME EndInv, NEW c \in Contexts, NEW r \in Members(c), Close(c, r) PROVE EndInv'
<1>1. /\ phase[c][r] = "close" /\ Goes(c, r, "done")
      /\ UNCHANGED <<written, notified, announced, stack, entered, gone>>
  BY DEF Close, At
<1>2. Past(c, r) /\ "done" \in Phases(r)
  BY <1>1 DEF Phases, Past
<1>3. r \notin Writers => \A s \in Below(r) : Past(c, s)
  BY <1>1 DEF EndInv, ReleasedAfterTaken, Past
<1>4. r \in ClientsOf[c] => \A d \in Receivers[c] : <<r, d>> \in gone[c]
  BY <1>2, Known
<1> QED
  BY <1>1, <1>2, <1>3, <1>4, PhaseStep

(* The part is written, and the synchronization that follows is registered.    *)
LEMMA SendStep ==
  ASSUME EndInv, NEW c \in Contexts, NEW r \in Members(c), Send(c, r) PROVE EndInv'
<1>1. /\ phase[c][r] = "send" /\ Goes(c, r, "sync") /\ Announces(r, Sync(c))
      /\ written' = [written EXCEPT ![c] = @ \cup {r}]
      /\ UNCHANGED <<notified, stack, entered, gone>>
  BY DEF Send, At
<1>2. Past(c, r) /\ r \notin Writers /\ "sync" \in Phases(r)
  BY <1>1, Known DEF Phases, Past
<1>3. ~Pending(r, Fin(c)) /\ ~Pending(r, Sync(c)) /\ r \notin written[c]
  BY <1>1, Known
<1>4. /\ announced' \in [Ranks -> SUBSET AllEvents] /\ PendingOnce'
      /\ \A q \in Ranks : \A f : Pending(q, f)' => Pending(q, f) \/ (q = r /\ f = Sync(c))
      /\ \A q, f : InStack(q, f)' <=> InStack(q, f)
  BY <1>1, <1>3, Known, EventsIn, Announced DEF EndInv
<1>5. stack' \in [Ranks -> Seq(AllEvents)] /\ OneOrder'
  <2>1. OneOrder /\ stack \in [Ranks -> Seq(AllEvents)]
    BY Known
  <2> QED
    BY <1>1, <2>1 DEF OneOrder
<1>6. ~Pending(r, Fin(c))'
  BY <1>3, <1>4, Known, EventNames
<1>7. \A q \in Servers : \A d \in Contexts : Front(q, Fin(d)) =>
        Front(q, Fin(d))' \/ (q = r /\ d = c /\ "sync" # "listen")
  BY <1>1 DEF Front
<1>8. /\ r \in Servers => Above(c, r) \subseteq written[c]
      /\ r \in Servers => \A q \in Peers(c, r) : <<q, Fin(c)>> \in entered
      /\ r \in ClientsOf[c] => \A d \in Receivers[c] : <<r, d>> \in gone[c]
  BY <1>1, <1>2, Known
<1>9. /\ written' \in [Contexts -> SUBSET (Clients \cup Gatherers)] /\ r \in written'[c]
      /\ notified' \in [Contexts -> SUBSET Servers]
      /\ \A d \in Contexts : written[d] \subseteq written'[d]
      /\ \A d \in Contexts : \A q \in written'[d] : q \in written[d] \/ (d = c /\ q = r)
  <2>1. /\ written \in [Contexts -> SUBSET (Clients \cup Gatherers)]
        /\ notified \in [Contexts -> SUBSET Servers]
    BY Known
  <2>2. r \in Clients \cup Gatherers
    BY <1>2, Tiers DEF Servers
  <2> QED
    BY <1>1, <2>1, <2>2
<1>10. /\ \A q \in Ranks : \A f : InStack(q, f)' => InStack(q, f)
       /\ \A q \in Ranks : \A f : Pending(q, f)' =>
            Pending(q, f) \/ (q = r /\ f = Fin(c)) \/ (q = r /\ f = Sync(c))
  BY <1>4
<1> QED
  BY <1>1, <1>2, <1>3, <1>4, <1>5, <1>6, <1>7, <1>8, <1>9, <1>10, MoveStep

(* The event of the end is full, and is registered.                            *)
LEMMA ReceiveStep ==
  ASSUME EndInv, NEW c \in Contexts, NEW r \in Members(c), Receive(c, r) PROVE EndInv'
<1>1. /\ phase[c][r] = "open" /\ r \notin Clients /\ Goes(c, r, "listen")
      /\ Announces(r, Fin(c)) /\ Above(c, r) \subseteq written[c]
      /\ UNCHANGED <<written, notified, stack, entered, gone>>
  BY DEF Receive, At, IsFull
<1>2. /\ ~Past(c, r) /\ r \in Servers /\ r \notin ClientsOf[c] /\ "listen" \in Phases(r)
  BY <1>1, Tiers DEF Phases, Past
<1>3. ~Pending(r, Fin(c)) /\ ~Pending(r, Sync(c)) /\ r \notin written[c]
  BY <1>1, Known
<1>4. /\ announced' \in [Ranks -> SUBSET AllEvents] /\ PendingOnce'
      /\ \A q \in Ranks : \A f : Pending(q, f)' => Pending(q, f) \/ (q = r /\ f = Fin(c))
      /\ \A q, f : InStack(q, f)' <=> InStack(q, f)
  BY <1>1, <1>3, Known, EventsIn, Announced DEF EndInv
<1>5. stack' \in [Ranks -> Seq(AllEvents)] /\ OneOrder'
  <2>1. OneOrder /\ stack \in [Ranks -> Seq(AllEvents)]
    BY Known
  <2> QED
    BY <1>1, <2>1 DEF OneOrder
<1>6. ~Pending(r, Sync(c))'
  BY <1>3, <1>4, Known, EventNames
<1>7. \A q \in Servers : \A d \in Contexts : Front(q, Fin(d)) =>
        Front(q, Fin(d))' \/ (q = r /\ d = c /\ "listen" # "listen")
  BY <1>1 DEF Front
<1>8. /\ written' \in [Contexts -> SUBSET (Clients \cup Gatherers)]
      /\ notified' \in [Contexts -> SUBSET Servers]
  BY <1>1, Known
<1> QED
  BY <1>1, <1>2, <1>3, <1>4, <1>5, <1>6, <1>7, <1>8, MoveStep

(* What is at the front of a stack, and who is there no more when it is taken. *)
LEMMA TakesFront ==
  ASSUME EndInv, NEW c \in Contexts, NEW r \in Members(c), NEW e \in AllEvents, Front(r, e),
         Take(r), UNCHANGED announced
  PROVE  /\ announced' \in [Ranks -> SUBSET AllEvents] /\ stack' \in [Ranks -> Seq(AllEvents)]
         /\ PendingOnce' /\ OneOrder'
         /\ InStack(r, e) /\ ~Pending(r, e)'
         /\ \A q \in Ranks : \A f : InStack(q, f)' => InStack(q, f)
         /\ \A q \in Ranks : \A f : Pending(q, f)' => Pending(q, f)
         /\ \A q \in Ranks : \A f : Front(q, f) => Front(q, f)' \/ (q = r /\ f = e)
<1>1. /\ r \in Ranks /\ stack[r] # <<>> /\ Head(stack[r]) = e
      /\ announced \in [Ranks -> SUBSET AllEvents] /\ stack \in [Ranks -> Seq(AllEvents)]
      /\ TypeOK /\ PendingOnce /\ OneOrder
  BY Known DEF Front, EndInv
<1>2. InStack(r, e)
  <2>1. stack[r] \in Seq(AllEvents)
    BY <1>1
  <2>2. 1 \in 1 .. Len(stack[r]) /\ stack[r][1] = e
    BY <1>1, <2>1
  <2> QED
    BY <2>2 DEF InStack
<1>3. /\ stack' \in [Ranks -> Seq(AllEvents)]
      /\ \A q \in Ranks : \A f : InStack(q, f)' => InStack(q, f)
      /\ \A q \in Ranks \ {r} : stack'[q] = stack[q]
      /\ ~InStack(r, e)'
  BY <1>1, Took
<1>4. PendingOnce' /\ OneOrder' /\ \A q \in Ranks : \A f : Pending(q, f)' => Pending(q, f)
  BY <1>1, TookInOrder
<1>5. ~Pending(r, e)'
  BY <1>1, <1>2, <1>3 DEF Pending, PendingOnce
<1>6. \A q \in Ranks : \A f : Front(q, f) => Front(q, f)' \/ (q = r /\ f = e)
  BY <1>1, <1>3 DEF Front
<1> QED
  BY <1>1, <1>2, <1>3, <1>4, <1>5, <1>6

(* The peers have all written when the synchronization is at the front.        *)
LEMMA SynchronizeStep ==
  ASSUME EndInv, NEW c \in Contexts, NEW r \in Members(c), Synchronize(c, r) PROVE EndInv'
<1>1. /\ phase[c][r] = "sync" /\ Goes(c, r, "spin") /\ Front(r, Sync(c)) /\ Take(r)
      /\ UNCHANGED <<written, notified, announced, entered, gone>>
  BY DEF Synchronize, At
<1>2. Past(c, r) /\ "spin" \in Phases(r) /\ Sync(c) \in AllEvents
  BY <1>1, Known, EventsIn DEF Phases, Past
<1>3. /\ announced' \in [Ranks -> SUBSET AllEvents] /\ stack' \in [Ranks -> Seq(AllEvents)]
      /\ PendingOnce' /\ OneOrder'
      /\ InStack(r, Sync(c)) /\ ~Pending(r, Sync(c))'
      /\ \A q \in Ranks : \A f : InStack(q, f)' => InStack(q, f)
      /\ \A q \in Ranks : \A f : Pending(q, f)' => Pending(q, f)
      /\ \A q \in Ranks : \A f : Front(q, f) => Front(q, f)' \/ (q = r /\ f = Sync(c))
  BY <1>1, <1>2, TakesFront
<1>4. ~Pending(r, Fin(c))'
  BY <1>1, <1>3, Known
<1>5. \A q \in Servers : \A d \in Contexts : Front(q, Fin(d)) =>
        Front(q, Fin(d))' \/ (q = r /\ d = c /\ "spin" # "listen")
  BY <1>3, EventNames, Tiers
<1>6. /\ r \in Servers => Above(c, r) \subseteq written[c]
      /\ r \in Servers => \A q \in Peers(c, r) : <<q, Fin(c)>> \in entered
      /\ r \in ClientsOf[c] => \A d \in Receivers[c] : <<r, d>> \in gone[c]
      /\ Peers(c, r) \subseteq written[c]
  BY <1>1, <1>2, <1>3, Known
<1>7. /\ written' \in [Contexts -> SUBSET (Clients \cup Gatherers)]
      /\ notified' \in [Contexts -> SUBSET Servers]
  BY <1>1, Known
<1> QED
  BY <1>1, <1>2, <1>3, <1>4, <1>5, <1>6, <1>7, MoveStep

(* A server leaves the barrier of the end when all its tier has entered it.    *)
LEMMA DispatchStep ==
  ASSUME EndInv, NEW c \in Contexts, NEW r \in Members(c), Dispatch(c, r) PROVE EndInv'
<1> DEFINE p == FinalizeAs(r)
<1>1. /\ phase[c][r] = "listen" /\ r \notin Clients /\ Goes(c, r, p) /\ Front(r, Fin(c))
      /\ Take(r) /\ \A q \in Peers(c, r) : <<q, Fin(c)>> \in entered
      /\ notified' = [notified EXCEPT ![c] = @ \cup {r}]
      /\ UNCHANGED <<written, announced, entered, gone>>
  BY DEF Dispatch, At, BarrierOver
<1>2. /\ ~Past(c, r) /\ r \in Servers /\ r \notin ClientsOf[c] /\ Fin(c) \in AllEvents
      /\ p \in Phases(r) /\ p \in {"reduce", "close"} /\ (r \notin Writers => p = "reduce")
  BY <1>1, Tiers, EventsIn DEF Phases, Past, FinalizeAs, Servers
<1>3. /\ announced' \in [Ranks -> SUBSET AllEvents] /\ stack' \in [Ranks -> Seq(AllEvents)]
      /\ PendingOnce' /\ OneOrder' /\ ~Pending(r, Fin(c))'
      /\ \A q \in Ranks : \A f : InStack(q, f)' => InStack(q, f)
      /\ \A q \in Ranks : \A f : Pending(q, f)' => Pending(q, f)
      /\ \A q \in Ranks : \A f : Front(q, f) => Front(q, f)' \/ (q = r /\ f = Fin(c))
  BY <1>1, <1>2, TakesFront
<1>4. ~Pending(r, Sync(c))' /\ r \notin written[c] /\ Above(c, r) \subseteq written[c]
  BY <1>1, <1>2, <1>3, Known
<1>5. \A q \in Servers : \A d \in Contexts : Front(q, Fin(d)) =>
        Front(q, Fin(d))' \/ (q = r /\ d = c /\ p # "listen")
  BY <1>2, <1>3, EventNames, Tiers
<1>6. /\ written' \in [Contexts -> SUBSET (Clients \cup Gatherers)]
      /\ notified' \in [Contexts -> SUBSET Servers]
      /\ \A d \in Contexts : \A q \in notified'[d] : q \in notified[d] \/ (d = c /\ q = r)
  <2>1. /\ written \in [Contexts -> SUBSET (Clients \cup Gatherers)]
        /\ notified \in [Contexts -> SUBSET Servers]
    BY Known
  <2> QED
    BY <1>1, <1>2, <2>1
<1>7. \A q \in Ranks : \A f : Pending(q, f)' =>
        Pending(q, f) \/ (q = r /\ f = Fin(c)) \/ (q = r /\ f = Sync(c))
  BY <1>3
<1>8. /\ Past(c, r) => p # "listen"
      /\ p \in {"close", "done"} /\ r \notin Writers => \A s \in Below(r) : Past(c, s)
      /\ p \notin {"open", "listen", "sync", "spin"}
  BY <1>2
<1> HIDE DEF p
<1> QED
  BY <1>1, <1>2, <1>3, <1>4, <1>5, <1>6, <1>7, <1>8, MoveStep

(* The steps that move no rank: events are heard, ordered, waited for and      *)
(* taken.                                                                      *)
LEMMA StillStep ==
  ASSUME EndInv, UNCHANGED <<phase, written, notified>>,
         announced' \in [Ranks -> SUBSET AllEvents], stack' \in [Ranks -> Seq(AllEvents)],
         entered' \subseteq Ranks \X AllEvents, gone' \in [Contexts -> SUBSET (Clients \X Contexts)],
         PendingOnce', OneOrder',
         \A q \in Ranks : \A d \in Contexts : Pending(q, Fin(d))' => Pending(q, Fin(d)),
         \A q \in Ranks : \A d \in Contexts : Pending(q, Sync(d))' => Pending(q, Sync(d)),
         \A q \in Ranks : \A d \in Contexts : InStack(q, Sync(d))' => Peers(d, q) \subseteq written[d],
         \A q \in Ranks : \A d \in Contexts : \A a \in Receivers[d] :
           Pending(q, Gone(d, a))' => Told(a),
         entered \subseteq entered',
         \A q \in Servers : \A d \in Contexts :
           <<q, Fin(d)>> \in entered' /\ ~Past(d, q) => Front(q, Fin(d))',
         \A d \in Contexts : gone[d] \subseteq gone'[d],
         \A d \in Contexts : \A x \in gone'[d] : x[2] \in Receivers[d] => Told(x[2])
  PROVE  EndInv'
<1>1. /\ TypeOK /\ PendingWhere /\ StaysAtFront /\ ComesDown /\ SpinsAlone /\ ReleasedAfterTaken
  BY DEF EndInv
<1>2. /\ \A d, q : Past(d, q)' <=> Past(d, q)
      /\ \A d : Told(d)' <=> Told(d)
  BY DEF Past, Told
<1>3. TypeOK'
  BY <1>1 DEF TypeOK
<1>4. PendingWhere'
  <2> SUFFICES ASSUME NEW d \in Contexts, NEW q \in Ranks
               PROVE  /\ Pending(q, Fin(d))' => q \in Servers /\ phase[d][q] = "listen"
                      /\ Pending(q, Sync(d))' =>
                           q \in Members(d) /\ phase[d][q] = "sync" /\ q \in written[d]
                      /\ InStack(q, Sync(d))' => Peers(d, q) \subseteq written[d]
                      /\ \A a \in Receivers[d] : Pending(q, Gone(d, a))' => Told(a)'
    BY DEF PendingWhere
  <2>1. /\ Pending(q, Fin(d)) => q \in Servers /\ phase[d][q] = "listen"
        /\ Pending(q, Sync(d)) => q \in Members(d) /\ phase[d][q] = "sync" /\ q \in written[d]
    BY <1>1 DEF PendingWhere
  <2> QED
    BY <1>2, <2>1
<1>5. StaysAtFront'
  <2> SUFFICES ASSUME NEW d \in Contexts, NEW q \in Servers
               PROVE  /\ <<q, Fin(d)>> \in entered' /\ ~Past(d, q)' => Front(q, Fin(d))'
                      /\ Past(d, q)' => \A x \in Peers(d, q) : <<x, Fin(d)>> \in entered'
    BY DEF StaysAtFront
  <2>1. Past(d, q) => \A x \in Peers(d, q) : <<x, Fin(d)>> \in entered
    BY <1>1 DEF StaysAtFront
  <2> QED
    BY <1>2, <2>1
<1>6. ComesDown'
  <2> SUFFICES ASSUME NEW d \in Contexts
               PROVE  /\ \A q \in written[d] :
                           q \in Members(d) /\ phase[d][q] \in {"sync", "spin", "close", "done"}
                      /\ \A q \in notified[d] : Past(d, q)'
                      /\ \A q \in Servers : phase[d][q] # "open" => Above(d, q) \subseteq written[d]
                      /\ \A q \in ClientsOf[d] : Past(d, q)' =>
                           \A a \in Receivers[d] : <<q, a>> \in gone'[d]
                      /\ \A x \in gone'[d] : x[2] \in Receivers[d] => Told(x[2])'
    BY DEF ComesDown
  <2>1. /\ \A q \in written[d] :
             q \in Members(d) /\ phase[d][q] \in {"sync", "spin", "close", "done"}
        /\ \A q \in notified[d] : Past(d, q)
        /\ \A q \in Servers : phase[d][q] # "open" => Above(d, q) \subseteq written[d]
        /\ \A q \in ClientsOf[d] : Past(d, q) => \A a \in Receivers[d] : <<q, a>> \in gone[d]
    BY <1>1 DEF ComesDown
  <2> QED
    BY <1>2, <2>1
<1>7. SpinsAlone' /\ ReleasedAfterTaken'
  <2>1. SpinsAlone'
    BY <1>1 DEF SpinsAlone, At
  <2>2. ReleasedAfterTaken'
    BY <1>1 DEF ReleasedAfterTaken
  <2> QED
    BY <2>1, <2>2
<1> QED
  BY <1>3, <1>4, <1>5, <1>6, <1>7 DEF EndInv

(* What the invariant says of all ranks, for the steps that move none.         *)
LEMMA KnownOfAll ==
  ASSUME EndInv
  PROVE  /\ TypeOK /\ PendingOnce /\ OneOrder
         /\ \A q \in Ranks : \A d \in Contexts : InStack(q, Sync(d)) => Peers(d, q) \subseteq written[d]
         /\ \A q \in Ranks : \A d \in Contexts : Pending(q, Sync(d)) => q \in Members(d) /\ q \in written[d]
         /\ \A q \in Ranks : \A d \in Contexts : \A a \in Receivers[d] :
              Pending(q, Gone(d, a)) => Told(a)
         /\ \A q \in Servers : \A d \in Contexts :
              <<q, Fin(d)>> \in entered /\ ~Past(d, q) => Front(q, Fin(d))
         /\ \A d \in Contexts : \A x \in gone[d] : x[2] \in Receivers[d] => Told(x[2])
<1>1. TypeOK /\ PendingOnce /\ OneOrder /\ PendingWhere /\ StaysAtFront /\ ComesDown
  BY DEF EndInv
<1>2. /\ \A q \in Ranks : \A d \in Contexts : InStack(q, Sync(d)) => Peers(d, q) \subseteq written[d]
      /\ \A q \in Ranks : \A d \in Contexts :
           Pending(q, Sync(d)) => q \in Members(d) /\ q \in written[d]
      /\ \A q \in Ranks : \A d \in Contexts : \A a \in Receivers[d] :
           Pending(q, Gone(d, a)) => Told(a)
  BY <1>1 DEF PendingWhere
<1>3. \A q \in Servers : \A d \in Contexts :
        <<q, Fin(d)>> \in entered /\ ~Past(d, q) => Front(q, Fin(d))
  BY <1>1 DEF StaysAtFront
<1>4. \A d \in Contexts : \A x \in gone[d] : x[2] \in Receivers[d] => Told(x[2])
  BY <1>1 DEF ComesDown
<1> QED
  BY <1>1, <1>2, <1>3, <1>4

(* The end of a receiver is registered once its client ranks have ended it.    *)
LEMMA HearGoneStep ==
  ASSUME EndInv, NEW c \in Contexts, NEW r \in Members(c), NEW a \in Receivers[c],
         HearGone(c, r, a)
  PROVE  EndInv'
<1>1. /\ Told(a) /\ Announces(r, Gone(c, a)) /\ ~Pending(r, Gone(c, a))
      /\ UNCHANGED <<phase, written, notified, stack, entered, gone>>
  BY DEF HearGone, Pending
<1>2. /\ announced' \in [Ranks -> SUBSET AllEvents] /\ PendingOnce'
      /\ \A q \in Ranks : \A f : Pending(q, f)' => Pending(q, f) \/ (q = r /\ f = Gone(c, a))
      /\ \A q, f : InStack(q, f)' <=> InStack(q, f)
  BY <1>1, Known, KnownOfAll, EventsIn, Announced
<1>3. /\ stack' \in [Ranks -> Seq(AllEvents)] /\ entered' \subseteq Ranks \X AllEvents
      /\ gone' \in [Contexts -> SUBSET (Clients \X Contexts)]
      /\ entered \subseteq entered' /\ \A d \in Contexts : gone[d] \subseteq gone'[d]
  BY <1>1, KnownOfAll DEF TypeOK
<1>4. OneOrder'
  BY <1>1, KnownOfAll DEF OneOrder
<1>5. /\ \A q \in Ranks : \A d \in Contexts : Pending(q, Fin(d))' => Pending(q, Fin(d))
      /\ \A q \in Ranks : \A d \in Contexts : Pending(q, Sync(d))' => Pending(q, Sync(d))
  BY <1>2, EventNames
<1>6. \A q \in Ranks : \A d \in Contexts : InStack(q, Sync(d))' => Peers(d, q) \subseteq written[d]
  BY <1>2, KnownOfAll
<1>7. ASSUME NEW q \in Ranks, NEW d \in Contexts, NEW b \in Receivers[d], Pending(q, Gone(d, b))'
      PROVE  Told(b)
  <2>1. CASE Pending(q, Gone(d, b))
    BY <2>1, KnownOfAll
  <2>2. CASE Gone(d, b) = Gone(c, a)
    BY <1>1, <2>2, EventNames
  <2> QED
    BY <1>2, <1>7, <2>1, <2>2
<1>8. \A q \in Servers : \A d \in Contexts :
        <<q, Fin(d)>> \in entered' /\ ~Past(d, q) => Front(q, Fin(d))'
  BY <1>1, KnownOfAll DEF Front
<1>9. \A d \in Contexts : \A x \in gone'[d] : x[2] \in Receivers[d] => Told(x[2])
  BY <1>1, KnownOfAll
<1> QED
  BY <1>1, <1>2, <1>3, <1>4, <1>5, <1>6, <1>7, <1>8, <1>9, StillStep

LEMMA EnterBarrierStep ==
  ASSUME EndInv, NEW c \in Contexts, NEW r \in Members(c), NEW e \in Events(c),
         EnterBarrier(c, r, e)
  PROVE  EndInv'
<1>1. /\ Front(r, e) /\ entered' = entered \cup {<<r, e>>}
      /\ UNCHANGED <<phase, written, notified, announced, stack, gone>>
  BY DEF EnterBarrier
<1>2. /\ \A q, f : InStack(q, f)' <=> InStack(q, f)
      /\ \A q, f : Pending(q, f)' <=> Pending(q, f)
      /\ \A q, f : Front(q, f)' <=> Front(q, f)
      /\ PendingOnce' /\ OneOrder'
  BY <1>1, KnownOfAll, StacksKept
<1>3. r \in Ranks /\ e \in AllEvents
  BY Tiers, EventsIn
<1>4. /\ announced' \in [Ranks -> SUBSET AllEvents] /\ stack' \in [Ranks -> Seq(AllEvents)]
      /\ entered' \subseteq Ranks \X AllEvents /\ entered \subseteq entered'
      /\ gone' \in [Contexts -> SUBSET (Clients \X Contexts)]
      /\ \A d \in Contexts : gone[d] \subseteq gone'[d]
  BY <1>1, <1>3, KnownOfAll DEF TypeOK
<1>5. ASSUME NEW q \in Servers, NEW d \in Contexts, <<q, Fin(d)>> \in entered', ~Past(d, q)
      PROVE  Front(q, Fin(d))'
  BY <1>1, <1>2, <1>5, KnownOfAll
<1>6. \A d \in Contexts : \A x \in gone'[d] : x[2] \in Receivers[d] => Told(x[2])
  BY <1>1, KnownOfAll
<1>7. /\ \A q \in Ranks : \A d \in Contexts : InStack(q, Sync(d))' => Peers(d, q) \subseteq written[d]
      /\ \A q \in Ranks : \A d \in Contexts : \A a \in Receivers[d] :
           Pending(q, Gone(d, a))' => Told(a)
  BY <1>2, KnownOfAll
<1> QED
  BY <1>1, <1>2, <1>4, <1>5, <1>6, <1>7, StillStep

(* A client takes the event: it knows that the receiver has ended.             *)
LEMMA KnowGoneStep ==
  ASSUME EndInv, NEW c \in Contexts, NEW r \in Members(c), NEW a \in Receivers[c],
         KnowGone(c, r, a)
  PROVE  EndInv'
<1>1. /\ r \in Clients /\ Front(r, Gone(c, a)) /\ Take(r)
      /\ gone' = [gone EXCEPT ![c] = @ \cup {<<r, a>>}]
      /\ UNCHANGED <<phase, written, notified, announced, entered>>
  BY DEF KnowGone
<1>2. r \in Ranks /\ r \notin Servers /\ a \in Contexts /\ Gone(c, a) \in AllEvents
  BY <1>1, Tiers, EventsIn
<1>3. /\ announced' \in [Ranks -> SUBSET AllEvents] /\ stack' \in [Ranks -> Seq(AllEvents)]
      /\ PendingOnce' /\ OneOrder' /\ InStack(r, Gone(c, a))
      /\ \A q \in Ranks : \A f : InStack(q, f)' => InStack(q, f)
      /\ \A q \in Ranks : \A f : Pending(q, f)' => Pending(q, f)
      /\ \A q \in Ranks : \A f : Front(q, f) => Front(q, f)' \/ (q = r /\ f = Gone(c, a))
  BY <1>1, <1>2, TakesFront
<1>4. Told(a)
  BY <1>2, <1>3, KnownOfAll DEF Pending
<1>5. /\ gone' \in [Contexts -> SUBSET (Clients \X Contexts)]
      /\ entered' \subseteq Ranks \X AllEvents /\ entered \subseteq entered'
      /\ \A d \in Contexts : gone[d] \subseteq gone'[d]
      /\ \A d \in Contexts : \A x \in gone'[d] : x \in gone[d] \/ x = <<r, a>>
  BY <1>1, <1>2, KnownOfAll DEF TypeOK
<1>6. \A d \in Contexts : \A x \in gone'[d] : x[2] \in Receivers[d] => Told(x[2])
  BY <1>4, <1>5, KnownOfAll
<1>7. ASSUME NEW q \in Servers, NEW d \in Contexts, <<q, Fin(d)>> \in entered', ~Past(d, q)
      PROVE  Front(q, Fin(d))'
  <2>1. q \in Ranks /\ q # r /\ Front(q, Fin(d))
    BY <1>1, <1>2, <1>7, KnownOfAll, Tiers
  <2> QED
    BY <1>3, <2>1
<1>8. /\ \A q \in Ranks : \A d \in Contexts : InStack(q, Sync(d))' => Peers(d, q) \subseteq written[d]
      /\ \A q \in Ranks : \A d \in Contexts : \A b \in Receivers[d] :
           Pending(q, Gone(d, b))' => Told(b)
  BY <1>3, KnownOfAll
<1> QED
  BY <1>1, <1>3, <1>5, <1>6, <1>7, <1>8, StillStep

(* The tier has one place for what all its ranks have registered: all of them  *)
(* have written their part when it is their synchronization.                   *)
LEMMA DecideStep ==
  ASSUME EndInv, NEW c \in Contexts, NEW r \in Members(c), NEW e \in Events(c), Decide(c, r, e)
  PROVE  EndInv'
<1>1. /\ \A q \in Peers(c, r) : e \in announced[q]
      /\ UNCHANGED <<phase, written, notified, entered, gone>>
  BY DEF Decide
<1>2. /\ stack' \in [Ranks -> Seq(AllEvents)] /\ announced' \in [Ranks -> SUBSET AllEvents]
      /\ PendingOnce' /\ OneOrder'
      /\ \A q \in Ranks : \A f : Pending(q, f)' => Pending(q, f)
      /\ \A q \in Ranks : \A f : Front(q, f) => Front(q, f)'
      /\ \A q \in Ranks : \A f :
           InStack(q, f)' => InStack(q, f) \/ (q \in Peers(c, r) /\ f = e)
  BY KnownOfAll, DecidedInOrder
<1>3. ASSUME NEW q \in Ranks, NEW d \in Contexts, InStack(q, Sync(d))'
      PROVE  Peers(d, q) \subseteq written[d]
  <2>1. CASE InStack(q, Sync(d))
    BY <2>1, KnownOfAll
  <2>2. CASE q \in Peers(c, r) /\ Sync(d) = e
    <3>1. d = c
      BY <2>2, EventNames DEF Events
    <3>2. Peers(d, q) = Peers(c, r) /\ Peers(c, r) \subseteq Ranks
      BY <2>2, <3>1, PeersOf, Tiers
    <3>3. \A x \in Peers(c, r) : Pending(x, Sync(c))
      BY <1>1, <2>2, <3>1 DEF Pending
    <3> QED
      BY <3>1, <3>2, <3>3, KnownOfAll
  <2> QED
    BY <1>2, <1>3, <2>1, <2>2
<1>4. /\ entered' \subseteq Ranks \X AllEvents /\ entered \subseteq entered'
      /\ gone' \in [Contexts -> SUBSET (Clients \X Contexts)]
      /\ \A d \in Contexts : gone[d] \subseteq gone'[d]
  BY <1>1, KnownOfAll DEF TypeOK
<1>5. ASSUME NEW q \in Servers, NEW d \in Contexts, <<q, Fin(d)>> \in entered', ~Past(d, q)
      PROVE  Front(q, Fin(d))'
  BY <1>1, <1>2, <1>5, KnownOfAll, Tiers
<1>6. /\ \A d \in Contexts : \A x \in gone'[d] : x[2] \in Receivers[d] => Told(x[2])
      /\ \A q \in Ranks : \A d \in Contexts : \A b \in Receivers[d] :
           Pending(q, Gone(d, b))' => Told(b)
  BY <1>1, <1>2, KnownOfAll
<1> QED
  BY <1>1, <1>2, <1>3, <1>4, <1>5, <1>6, StillStep

-----------------------------------------------------------------------------
(* The invariant.                                                              *)

LEMMA InitInv == Init => EndInv
<1> SUFFICES ASSUME Init PROVE EndInv
  OBVIOUS
<1>1. /\ phase = [c \in Contexts |-> [r \in Members(c) |-> "open"]]
      /\ written = [c \in Contexts |-> {}] /\ notified = [c \in Contexts |-> {}]
      /\ announced = [r \in Ranks |-> {}] /\ stack = [r \in Ranks |-> <<>>]
      /\ entered = {} /\ gone = [c \in Contexts |-> {}]
  BY DEF Init
<1>2. \A c \in Contexts : \A r \in Members(c) : phase[c][r] = "open"
  BY <1>1
<1>3. \A c \in Contexts : Servers \subseteq Members(c) /\ ClientsOf[c] \subseteq Members(c)
  BY Tiers
<1>4. \A r \in Ranks : /\ announced[r] = {} /\ stack[r] = <<>> /\ Len(stack[r]) = 0
                       /\ stack[r] \in Seq(AllEvents)
  BY <1>1
<1>5. TypeOK
  <2>1. \A r : "open" \in Phases(r)
    BY DEF Phases
  <2>2. stack \in [Ranks -> Seq(AllEvents)]
    BY <1>1
  <2> QED
    BY <1>1, <2>1, <2>2 DEF TypeOK
<1>6. \A r \in Ranks : \A e : ~InStack(r, e) /\ ~Pending(r, e)
  BY <1>4 DEF InStack, Pending
<1>7. PendingOnce
  BY <1>4 DEF PendingOnce
<1>8. PendingWhere
  BY <1>6 DEF PendingWhere
<1>9. OneOrder
  <2> SUFFICES ASSUME NEW tier \in {Gatherers, Writers}, NEW r \in tier, NEW q \in tier,
                      NEW i \in 1 .. Len(stack[r])
               PROVE  FALSE
    BY DEF OneOrder
  <2>1. r \in Ranks
    BY Tiers DEF Servers
  <2> QED
    BY <1>4, <2>1
<1>10. StaysAtFront
  BY <1>1, <1>2, <1>3 DEF StaysAtFront, Past
<1>11. ComesDown
  BY <1>1, <1>2, <1>3 DEF ComesDown, Past
<1>12. SpinsAlone /\ ReleasedAfterTaken
  BY <1>2 DEF SpinsAlone, At, ReleasedAfterTaken
<1> QED
  BY <1>5, <1>7, <1>8, <1>9, <1>10, <1>11, <1>12 DEF EndInv

(* Every step keeps the invariant; so does none.                               *)
LEMMA NextInv == EndInv /\ [Next]_vars => EndInv'
<1> SUFFICES ASSUME EndInv, [Next]_vars PROVE EndInv'
  OBVIOUS
<1>1. ASSUME NEW c \in Contexts, NEW r \in Members(c), LoopSteps(c, r) PROVE EndInv'
  <2>1. ASSUME NEW d \in Receivers[c], HearGone(c, r, d) PROVE EndInv'
    BY <2>1, HearGoneStep
  <2>2. ASSUME NEW d \in Receivers[c], KnowGone(c, r, d) PROVE EndInv'
    BY <2>2, KnowGoneStep
  <2>3. ASSUME NEW e \in Events(c), EnterBarrier(c, r, e) PROVE EndInv'
    BY <2>3, EnterBarrierStep
  <2> QED
    BY <1>1, <2>1, <2>2, <2>3 DEF LoopSteps
<1>2. ASSUME NEW c \in Contexts, NEW r \in Members(c), Steps(c, r) PROVE EndInv'
  BY <1>2, StopListeningStep, ReduceStep, SendStep, SynchronizeStep, ReleaseStep, ReceiveStep,
     DispatchStep, CloseStep DEF Steps
<1>3. ASSUME NEW c \in Contexts, NEW r \in Members(c), Finalize(c, r) PROVE EndInv'
  BY <1>3, FinalizeStep
<1>4. ASSUME NEW c \in Contexts, NEW r \in Members(c), NEW e \in Events(c), Decide(c, r, e)
      PROVE  EndInv'
  BY <1>4, DecideStep
<1>5. CASE UNCHANGED vars
  <2>1. UNCHANGED <<phase, written, notified, announced, stack, entered, gone>>
    BY <1>5 DEF vars
  <2>2. /\ \A q, f : InStack(q, f)' <=> InStack(q, f)
        /\ \A q, f : Pending(q, f)' <=> Pending(q, f)
        /\ \A q, f : Front(q, f)' <=> Front(q, f)
        /\ PendingOnce' /\ OneOrder'
    BY <2>1, KnownOfAll, StacksKept
  <2>3. /\ announced' \in [Ranks -> SUBSET AllEvents] /\ stack' \in [Ranks -> Seq(AllEvents)]
        /\ entered' \subseteq Ranks \X AllEvents
        /\ gone' \in [Contexts -> SUBSET (Clients \X Contexts)]
    BY <2>1, KnownOfAll DEF TypeOK
  <2> QED
    BY <2>1, <2>2, <2>3, KnownOfAll, StillStep
<1> QED
  BY <1>1, <1>2, <1>3, <1>4, <1>5 DEF Next

(* Files are closed after the clients and the receivers: what a writer knows   *)
(* of a context came from a gatherer that knew it from all the clients.        *)
LEMMA ClosedAfterAll == EndInv => ClosedLast
<1> SUFFICES ASSUME EndInv, NEW c \in Contexts, NEW w \in Writers,
                    phase[c][w] \in {"close", "done"}
             PROVE  /\ \A r \in ClientsOf[c] : phase[c][r] \notin {"open", "listen"}
                    /\ \A d \in Receivers[c] : \A r \in ClientsOf[d] : phase[d][r] # "open"
  BY DEF ClosedLast
<1>1. ComesDown
  BY DEF EndInv
<1>2. PICK g \in Gatherers : TRUE
  BY Tiers
<1>3. /\ w \in Servers /\ g \in Servers /\ w \notin Gatherers
      /\ Above(c, w) = Gatherers /\ Above(c, g) = ClientsOf[c]
  BY Tiers DEF Servers, Above
<1>4. g \in written[c]
  BY <1>1, <1>3 DEF ComesDown
<1>5. phase[c][g] # "open"
  BY <1>1, <1>4 DEF ComesDown
<1>6. ClientsOf[c] \subseteq written[c]
  BY <1>1, <1>3, <1>5 DEF ComesDown
<1>7. \A r \in ClientsOf[c] : phase[c][r] \in {"sync", "spin", "close", "done"}
  BY <1>1, <1>6 DEF ComesDown
<1>8. ASSUME NEW d \in Receivers[c] PROVE Told(d)
  <2>1. PICK r \in ClientsOf[c] : TRUE
    BY TiersAssumption
  <2>2. Past(c, r)
    BY <1>7 DEF Past
  <2>3. <<r, d>> \in gone[c]
    BY <1>1, <2>2 DEF ComesDown
  <2>4. <<r, d>>[2] = d
    OBVIOUS
  <2> QED
    BY <1>1, <2>3, <2>4 DEF ComesDown
<1> QED
  BY <1>7, <1>8 DEF Told

(* A rank of a tier that is behind another has all that the other has yet to   *)
(* take.                                                                       *)
LEMMA BehindHasAll ==
  ASSUME EndInv, NEW tier \in {Gatherers, Writers}, NEW a \in tier, NEW b \in tier,
         Len(stack[a]) <= Len(stack[b]), NEW e, InStack(a, e)
  PROVE  InStack(b, e)
<1>1. PICK i \in 1 .. Len(stack[a]) : stack[a][i] = e
  BY DEF InStack
<1>2. OneOrder
  BY DEF EndInv
<1>3. stack[a][i] = stack[b][i + (Len(stack[b]) - Len(stack[a]))]
  BY Zenon, <1>2 DEF OneOrder
<1>4. a \in Ranks /\ b \in Ranks /\ stack \in [Ranks -> Seq(AllEvents)]
  BY Tiers DEF Servers, EndInv, TypeOK
<1>5. Len(stack[a]) \in Nat /\ Len(stack[b]) \in Nat /\ i \in Nat
  BY <1>4
<1>6. i + (Len(stack[b]) - Len(stack[a])) \in 1 .. Len(stack[b])
  BY <1>5, Places
<1> QED
  BY <1>1, <1>3, <1>6 DEF InStack

(* Two ranks never wait for each other in the ends of two contexts: each would *)
(* have at the front the end that the other has left, and one of them would be *)
(* behind in the one order of the tier.                                        *)
LEMMA NoneCrosses == EndInv => NoCrossing
<1> SUFFICES ASSUME EndInv, NEW c \in Contexts, NEW d \in Contexts, NEW r \in Servers,
                    NEW q \in Peers(c, r), Needs(c, r, q), Needs(d, q, r)
             PROVE  FALSE
  BY DEF NoCrossing, Servers
<1>1. /\ r \in Members(c) /\ r \in Members(d) /\ Peers(c, r) \subseteq Members(c)
  BY Tiers, PeersOf
<1>2. PICK tier \in {Gatherers, Writers} : r \in tier /\ Peers(c, r) = tier
  BY <1>1, PeersOf DEF Servers
<1>3. /\ q \in Servers /\ q \in Members(c) /\ q \in Members(d) /\ q \in Ranks /\ r \in Ranks
  BY <1>1, <1>2, Tiers DEF Servers
<1>4. Peers(d, q) = tier
  BY <1>2, <1>3, PeersOf
<1>5. Past(c, r) /\ ~Past(c, q) /\ Past(d, q) /\ ~Past(d, r)
  BY DEF Needs, Past
<1>6. <<q, Fin(c)>> \in entered /\ <<r, Fin(d)>> \in entered
  BY <1>1, <1>2, <1>3, <1>4, <1>5, Known
<1>7. Front(q, Fin(c)) /\ Front(r, Fin(d))
  BY <1>3, <1>5, <1>6, KnownOfAll
<1>8. InStack(q, Fin(c)) /\ InStack(r, Fin(d))
  <2>1. stack[q] \in Seq(AllEvents) /\ stack[r] \in Seq(AllEvents)
    BY <1>3, KnownOfAll DEF TypeOK
  <2>2. /\ 1 \in 1 .. Len(stack[q]) /\ stack[q][1] = Fin(c)
        /\ 1 \in 1 .. Len(stack[r]) /\ stack[r][1] = Fin(d)
    BY <1>7, <2>1 DEF Front
  <2> QED
    BY <2>2 DEF InStack
<1>9. ~InStack(r, Fin(c)) /\ ~InStack(q, Fin(d))
  BY <1>1, <1>3, <1>5, Known DEF Past, Pending
<1>10. Len(stack[r]) <= Len(stack[q]) \/ Len(stack[q]) <= Len(stack[r])
  <2>1. stack[q] \in Seq(AllEvents) /\ stack[r] \in Seq(AllEvents)
    BY <1>3, KnownOfAll DEF TypeOK
  <2> QED
    BY <2>1
<1> QED
  BY <1>2, <1>8, <1>9, <1>10, BehindHasAll

(* The events of the end are pending where they are waited for, in one order   *)
(* on each tier, and each tier ends after the one above has written all, for   *)
(* any contexts, ranks and receivers (context.cpp:848-985).                    *)
THEOREM EndExact == Spec => []EndInv
<1>1. Init /\ [][Next]_vars => []EndInv
  BY InitInv, NextInv, PTL
<1> QED
  BY <1>1, PTL DEF Spec

(* Whatever the contexts and their ranks, the files of a context are closed    *)
(* after its clients and its receivers have ended, its buffers are released    *)
(* after the servers took what was in them, and no two ranks stop in the ends  *)
(* of two contexts for each other (context.cpp:848-985).                       *)
THEOREM AlwaysEndsInOrder == Spec => []EndsInOrder
<1>1. EndInv => EndsInOrder
  BY ClosedAfterAll, NoneCrosses DEF EndInv, EndsInOrder
<1> QED
  BY <1>1, EndExact, PTL

-----------------------------------------------------------------------------
(* The close of coupled definitions (CoupledDefinition).                       *)
CONSTANTS Processes, Outs, Ins, Uses
VARIABLES rank, seen, arrived, asked, place, come

D == INSTANCE CoupledDefinition WITH Ranks <- Processes, stack <- place, entered <- come

(* The message that a context is done reaches those it receives from after its *)
(* rest, from which no rank comes back.                                        *)
PastRest(x) == x.pc \in {"ask", "closed"} \/ (x.pc = "round" /\ x.at = -2)
AllPast(d) == \A q \in Processes : PastRest(rank[d][q])
Closing(x) == x.pc = "closed" \/ (x.pc = "round" /\ x.at = -2 /\ x.allReady)
AfterReceivers(c) == \A d \in Contexts : D!InSeq(Outs[c], d) => AllPast(d)

(* Where a rank may be in the loops of closeDefinition.                        *)
Placed(c, x) ==
  /\ x.pc \in {"tell", "telling", "look", "sending", "sharing"} => x.at \in Nat \ {0}
  /\ x.pc = "telling" => x.at <= Len(Ins[c])
  /\ x.pc \in {"sending", "sharing"} => x.at <= Len(Outs[c])
  /\ x.pc = "round" => x.at \in {0, -1, -2}
  /\ x.pc = "rest" \/ PastRest(x) => x.built

(* The message is on its way to the decisions of r, or has come to them.       *)
Hears(c, r, e) ==
  \/ e \in seen[c][r] \cup arrived[c][r]
  \/ D!InSeq(place[c][r], e)
  \/ <<r, e>> \in asked[c]

DefinitionEvents == D!Messages \cup {D!Round}
RankStates ==
  [pc : D!Pcs, at : Int, built : BOOLEAN, allReady : BOOLEAN,
   told : SUBSET Contexts, sent : SUBSET Contexts, early : SUBSET Contexts]

EventTypes ==
  /\ seen \in [Contexts -> [Processes -> SUBSET D!Messages]]
  /\ arrived \in [Contexts -> [Processes -> SUBSET D!Messages]]
  /\ asked \in [Contexts -> SUBSET (Processes \X DefinitionEvents)]
  /\ place \in [Contexts -> [Processes -> Seq(DefinitionEvents)]]
  /\ come \in [Contexts -> SUBSET (Processes \X D!Messages)]
RankTypes == rank \in [Contexts -> [Processes -> RankStates]]
RanksPlaced == \A c \in Contexts, r \in Processes : Placed(c, rank[c][r])
ClosedHeard ==
  \A c, d \in Contexts, r \in Processes : Hears(c, r, D!Closed(d)) => AllPast(d)
WaitedFor ==
  \A c \in Contexts, r \in Processes : Closing(rank[c][r]) => AfterReceivers(c)

DefinitionInv == EventTypes /\ RankTypes /\ RanksPlaced /\ ClosedHeard /\ WaitedFor
RanksKept == RankTypes /\ RanksPlaced /\ WaitedFor

-----------------------------------------------------------------------------
(* The couplings of a context are a sequence of contexts.                      *)
LEMMA Couplings ==
  ASSUME D!CouplingsAssumption, NEW c \in Contexts
  PROVE  /\ Ins[c] \in Seq(Contexts) /\ Len(Ins[c]) \in Nat
         /\ Outs[c] \in Seq(Contexts) /\ Len(Outs[c]) \in Nat
<1>1. Ins[c] \in Seq(Contexts) /\ Outs[c] \in Seq(Contexts)
  BY DEF D!CouplingsAssumption
<1> QED
  BY <1>1, LenProperties

(* What stays, and what does not, when fields of a rank's state change.        *)
LEMMA GoesTo ==
  ASSUME NEW x \in RankStates, NEW v \in D!Pcs
  PROVE  LET y == [x EXCEPT !.pc = v] IN
         /\ y \in RankStates /\ y.pc = v /\ y.at = x.at /\ y.built = x.built
         /\ y.allReady = x.allReady
BY DEF RankStates

(* A rank that announces a round is in it, as it was otherwise.                *)
LEMMA InRound ==
  ASSUME NEW x \in RankStates
  PROVE  LET y == [x EXCEPT !.pc = "round"] IN
         /\ y \in RankStates /\ y.pc = "round" /\ y.at = x.at /\ y.built = x.built
BY DEF RankStates, D!Pcs

(* A rank that counts on stays where it was.                                   *)
LEMMA Counts ==
  ASSUME NEW x \in RankStates, NEW i \in Int
  PROVE  LET y == [x EXCEPT !.at = i] IN
         /\ y \in RankStates /\ y.pc = x.pc /\ y.at = i /\ y.built = x.built
         /\ y.allReady = x.allReady
BY DEF RankStates

(* A rank that looks again begins with the first field it sends.               *)
LEMMA Begins ==
  ASSUME NEW x \in RankStates
  PROVE  LET y == [x EXCEPT !.pc = "look", !.at = 1, !.allReady = TRUE] IN
         y \in RankStates /\ y.pc = "look" /\ y.at = 1
<1>1. PICK b \in BOOLEAN : b = TRUE
  OBVIOUS
<1> DEFINE y == [x EXCEPT !.pc = "look", !.at = 1, !.allReady = b]
<1>2. "look" \in D!Pcs /\ 1 \in Int
  BY DEF D!Pcs
<1>3. y \in RankStates
  BY <1>2 DEF RankStates
<1>4. y.pc = "look" /\ y.at = 1
  BY DEF RankStates
<1> QED
  BY <1>1, <1>3, <1>4, Zenon

(* The messages of couplers are apart, and each names its context.             *)
LEMMA Apart ==
  \A c, d \in Contexts :
    /\ {D!Ready(c), D!Grid(c), D!Closed(c)} \subseteq D!Messages
    /\ D!Closed(d) \notin {D!Ready(c), D!Grid(c)}
    /\ D!Closed(c) = D!Closed(d) => c = d
BY DEF D!Ready, D!Grid, D!Closed, D!Messages

(* The ranks of a context move together, none leaves its wait or its close,    *)
(* and one closes only after its receivers: all contexts stay in order.        *)
LEMMA AllMove ==
  ASSUME DefinitionInv, NEW c \in Contexts, NEW y \in [Processes -> RankStates],
         rank' = [rank EXCEPT ![c] = y],
         \A r \in Processes : /\ Placed(c, y[r])
                              /\ PastRest(rank[c][r]) => PastRest(y[r])
                              /\ Closing(y[r]) => AfterReceivers(c)
  PROVE  RanksKept' /\ \A d \in Contexts : AllPast(d) => AllPast(d)'
<1>1. RankTypes'
  BY DEF DefinitionInv, RankTypes
<1>2. /\ rank'[c] = y
      /\ \A d \in Contexts : d # c => rank'[d] = rank[d]
  BY DEF DefinitionInv, RankTypes
<1>3. ASSUME NEW d \in Contexts, AllPast(d)
      PROVE  AllPast(d)'
  BY <1>2, <1>3 DEF AllPast
<1>4. ASSUME NEW d \in Contexts, NEW q \in Processes
      PROVE  Placed(d, rank'[d][q])
  BY <1>2 DEF DefinitionInv, RanksPlaced
<1>5. RanksPlaced'
  BY <1>4 DEF RanksPlaced, Placed, PastRest
<1>6. ASSUME NEW d \in Contexts, NEW q \in Processes, Closing(rank'[d][q])
      PROVE  AfterReceivers(d)
  BY <1>2, <1>6 DEF DefinitionInv, WaitedFor
<1>7. ASSUME NEW d \in Contexts, AfterReceivers(d)
      PROVE  AfterReceivers(d)'
  BY <1>3, <1>7 DEF AfterReceivers
<1>8. WaitedFor'
  BY <1>6, <1>7 DEF WaitedFor, Closing
<1> QED
  BY <1>1, <1>3, <1>5, <1>8 DEF RanksKept

(* The same of one rank.                                                       *)
LEMMA OneMoves ==
  ASSUME DefinitionInv, NEW c \in Contexts, NEW r \in Processes, NEW x \in RankStates,
         D!Goes(c, r, x), Placed(c, x),
         PastRest(rank[c][r]) => PastRest(x),
         Closing(x) => AfterReceivers(c)
  PROVE  RanksKept' /\ \A d \in Contexts : AllPast(d) => AllPast(d)'
<1> DEFINE y == [rank[c] EXCEPT ![r] = x]
<1>1. rank[c] \in [Processes -> RankStates]
  BY DEF DefinitionInv, RankTypes
<1>2. y \in [Processes -> RankStates] /\ rank' = [rank EXCEPT ![c] = y]
  BY <1>1 DEF D!Goes
<1>3. ASSUME NEW q \in Processes
      PROVE  /\ Placed(c, y[q])
             /\ PastRest(rank[c][q]) => PastRest(y[q])
             /\ Closing(y[q]) => AfterReceivers(c)
  <2>1. y[q] = IF q = r THEN x ELSE rank[c][q]
    BY <1>1
  <2>2. Placed(c, rank[c][q]) /\ (Closing(rank[c][q]) => AfterReceivers(c))
    BY DEF DefinitionInv, RanksPlaced, WaitedFor
  <2> QED
    BY <2>1, <2>2
<1> HIDE DEF y
<1> QED
  BY <1>2, <1>3, AllMove

(* What a step adds to what the ranks hear is of contexts past their rest.     *)
LEMMA HeardKept ==
  ASSUME DefinitionInv, RanksKept', EventTypes',
         \A d \in Contexts : AllPast(d) => AllPast(d)',
         \A c, d \in Contexts, r \in Processes :
           Hears(c, r, D!Closed(d))' => Hears(c, r, D!Closed(d)) \/ AllPast(d)'
  PROVE  DefinitionInv'
BY DEF DefinitionInv, RanksKept, ClosedHeard

(* Steps of the events alone, and of the ranks alone.                          *)
LEMMA RanksStill ==
  ASSUME DefinitionInv, UNCHANGED rank
  PROVE  RanksKept' /\ \A d \in Contexts : AllPast(d) => AllPast(d)'
BY DEF DefinitionInv, RanksKept, RankTypes, RanksPlaced, WaitedFor, Placed, PastRest,
       Closing, AfterReceivers, AllPast

LEMMA EventsStill ==
  ASSUME DefinitionInv, UNCHANGED D!events, RanksKept',
         \A d \in Contexts : AllPast(d) => AllPast(d)'
  PROVE  DefinitionInv'
<1>1. EventTypes'
  BY DEF DefinitionInv, EventTypes, D!events
<1>2. \A c, d \in Contexts, r \in Processes :
        Hears(c, r, D!Closed(d))' => Hears(c, r, D!Closed(d))
  BY DEF Hears, D!events
<1> QED
  BY <1>1, <1>2, HeardKept

-----------------------------------------------------------------------------
(* The event loop.                                                             *)
(* An event that came whole goes to the scheduler: it is heard of as before.   *)
LEMMA AnnounceKeeps ==
  ASSUME DefinitionInv, NEW c \in Contexts, NEW r \in Processes,
         NEW e \in arrived[c][r], D!Announce(c, r, e)
  PROVE  DefinitionInv'
<1>1. RanksKept' /\ \A d \in Contexts : AllPast(d) => AllPast(d)'
  BY RanksStill DEF D!Announce
<1>2. EventTypes /\ e \in D!Messages /\ e \in DefinitionEvents
  BY DEF DefinitionInv, EventTypes, DefinitionEvents
<1>3. EventTypes'
  BY <1>2 DEF EventTypes, D!Announce
<1>4. ASSUME NEW b \in Contexts, NEW q \in Processes, NEW m, Hears(b, q, m)'
      PROVE  Hears(b, q, m)
  <2>1. /\ seen' = seen /\ place' = place
        /\ arrived' = [arrived EXCEPT ![c][r] = @ \ {e}]
        /\ asked' = [asked EXCEPT ![c] = @ \cup {<<r, e>>}]
    BY DEF D!Announce
  <2>2. arrived'[b][q] \subseteq arrived[b][q]
    BY <1>2, <2>1 DEF EventTypes
  <2>3. <<q, m>> \in asked'[b] => <<q, m>> \in asked[b] \/ m \in arrived[b][q]
    BY <1>2, <2>1 DEF EventTypes
  <2> QED
    BY <1>4, <2>1, <2>2, <2>3 DEF Hears, D!InSeq
<1> QED
  BY <1>1, <1>3, <1>4, HeardKept

(* What an order holds as it grows at its end and shrinks at its front.        *)
LEMMA AppendHas ==
  ASSUME NEW S, NEW s \in Seq(S), NEW e \in S, NEW m, D!InSeq(Append(s, e), m)
  PROVE  D!InSeq(s, m) \/ m = e
BY DEF D!InSeq

LEMMA TailHas ==
  ASSUME NEW S, NEW s \in Seq(S), s # <<>>, NEW m, D!InSeq(Tail(s), m)
  PROVE  D!InSeq(s, m)
<1>1. PICK i \in 1 .. Len(Tail(s)) : Tail(s)[i] = m
  BY DEF D!InSeq
<1>2. i + 1 \in 1 .. Len(s) /\ s[i + 1] = m
  BY <1>1
<1> QED
  BY <1>2 DEF D!InSeq

(* What has its place in the order was announced by all.                       *)
LEMMA DecideKeeps ==
  ASSUME DefinitionInv, NEW c \in Contexts, NEW e \in DefinitionEvents, D!Decide(c, e)
  PROVE  DefinitionInv'
<1>1. RanksKept' /\ \A d \in Contexts : AllPast(d) => AllPast(d)'
  BY RanksStill DEF D!Decide
<1>2. EventTypes
  BY DEF DefinitionInv
<1>3. /\ Processes \X {e} \subseteq asked[c]
      /\ asked' = [asked EXCEPT ![c] = @ \ (Processes \X {e})]
      /\ place' = [place EXCEPT ![c] = [q \in Processes |-> Append(place[c][q], e)]]
      /\ seen' = seen /\ arrived' = arrived /\ come' = come
  BY <1>2 DEF D!Decide, EventTypes
<1>4. EventTypes'
  BY <1>2, <1>3 DEF EventTypes
<1>5. ASSUME NEW b \in Contexts, NEW q \in Processes, NEW m, Hears(b, q, m)'
      PROVE  Hears(b, q, m)
  <2>1. <<q, m>> \in asked'[b] => <<q, m>> \in asked[b]
    BY <1>2, <1>3 DEF EventTypes
  <2>2. ASSUME D!InSeq(place'[b][q], m)
        PROVE  D!InSeq(place[b][q], m) \/ <<q, m>> \in asked[b]
    <3>1. CASE b # c
      BY <1>2, <1>3, <2>2, <3>1 DEF EventTypes
    <3>2. CASE b = c
      <4>1. place'[b][q] = Append(place[b][q], e)
        BY <1>2, <1>3, <3>2 DEF EventTypes
      <4>2. place[b][q] \in Seq(DefinitionEvents)
        BY <1>2 DEF EventTypes
      <4>3. D!InSeq(place[b][q], m) \/ m = e
        BY <2>2, <4>1, <4>2, AppendHas
      <4> QED
        BY <1>3, <3>2, <4>3
    <3> QED
      BY <3>1, <3>2
  <2> QED
    BY <1>3, <1>5, <2>1, <2>2 DEF Hears
<1> QED
  BY <1>1, <1>4, <1>5, HeardKept

(* What enters a barrier is a message of a coupler, not a round.               *)
LEMMA EnterBarrierKeeps ==
  ASSUME DefinitionInv, NEW c \in Contexts, NEW r \in Processes, NEW e,
         D!EnterBarrier(c, r, e)
  PROVE  DefinitionInv'
<1>1. RanksKept' /\ \A d \in Contexts : AllPast(d) => AllPast(d)'
  BY RanksStill DEF D!EnterBarrier
<1>2. EventTypes
  BY DEF DefinitionInv
<1>3. place[c][r] \in Seq(DefinitionEvents) /\ place[c][r] # <<>> /\ e = Head(place[c][r])
  BY <1>2 DEF EventTypes, D!EnterBarrier, D!AtFront
<1>4. e \in D!Messages
  BY <1>3 DEF D!EnterBarrier, DefinitionEvents
<1>5. /\ seen' = seen /\ arrived' = arrived /\ asked' = asked /\ place' = place
      /\ come' = [come EXCEPT ![c] = @ \cup {<<r, e>>}]
  BY DEF D!EnterBarrier
<1>6. EventTypes'
  BY <1>2, <1>4, <1>5 DEF EventTypes
<1>7. ASSUME NEW b \in Contexts, NEW q \in Processes, NEW m, Hears(b, q, m)'
      PROVE  Hears(b, q, m)
  BY <1>5, <1>7 DEF Hears
<1> QED
  BY <1>1, <1>6, <1>7, HeardKept

(* What is seen was in the order.                                              *)
LEMMA DispatchKeeps ==
  ASSUME DefinitionInv, NEW c \in Contexts, NEW r \in Processes, NEW e,
         D!Dispatch(c, r, e)
  PROVE  DefinitionInv'
<1>1. RanksKept' /\ \A d \in Contexts : AllPast(d) => AllPast(d)'
  BY RanksStill DEF D!Dispatch
<1>2. EventTypes
  BY DEF DefinitionInv
<1>3. /\ place[c][r] \in Seq(DefinitionEvents) /\ place[c][r] # <<>> /\ e = Head(place[c][r])
      /\ e \in D!Messages
  BY <1>2 DEF EventTypes, D!Dispatch, D!AtFront
<1>4. /\ seen' = [seen EXCEPT ![c][r] = @ \cup {e}]
      /\ place' = [place EXCEPT ![c][r] = Tail(@)]
      /\ arrived' = arrived /\ asked' = asked /\ come' = come
  BY DEF D!Dispatch, D!Pop
<1>5. EventTypes'
  <2>1. Tail(place[c][r]) \in Seq(DefinitionEvents)
    BY <1>3
  <2> QED
    BY <1>2, <1>3, <1>4, <2>1 DEF EventTypes
<1>6. ASSUME NEW b \in Contexts, NEW q \in Processes, NEW m, Hears(b, q, m)'
      PROVE  Hears(b, q, m)
  <2>1. CASE b = c /\ q = r
    <3>1. seen'[b][q] = seen[c][r] \cup {e} /\ place'[b][q] = Tail(place[c][r])
      BY <1>2, <1>4, <2>1 DEF EventTypes
    <3>2. D!InSeq(place[c][r], e)
      <4>1. 1 \in 1 .. Len(place[c][r]) /\ place[c][r][1] = e
        BY <1>3
      <4> QED
        BY <4>1 DEF D!InSeq
    <3>3. D!InSeq(Tail(place[c][r]), m) => D!InSeq(place[c][r], m)
      BY <1>3, TailHas
    <3> QED
      BY <1>4, <1>6, <2>1, <3>1, <3>2, <3>3 DEF Hears
  <2>2. CASE ~(b = c /\ q = r)
    <3>1. seen'[b][q] = seen[b][q] /\ place'[b][q] = place[b][q]
      BY <1>2, <1>4, <2>2 DEF EventTypes
    <3> QED
      BY <1>4, <1>6, <3>1 DEF Hears
  <2> QED
    BY <2>1, <2>2
<1> QED
  BY <1>1, <1>5, <1>6, HeardKept

(* A rank announces its next round, and goes where x says with it.             *)
LEMMA NextRoundKeeps ==
  ASSUME DefinitionInv, NEW c \in Contexts, NEW r \in Processes, NEW x \in RankStates,
         D!NextRound(c, r, x), Placed(c, [x EXCEPT !.pc = "round"]),
         PastRest(rank[c][r]) => x.at = -2,
         x.at = -2 /\ x.allReady => AfterReceivers(c)
  PROVE  DefinitionInv'
<1> DEFINE y == [x EXCEPT !.pc = "round"]
<1>1. /\ y \in RankStates /\ y.pc = "round" /\ y.at = x.at /\ y.allReady = x.allReady
  BY DEF RankStates, D!Pcs
<1>2. D!Goes(c, r, y) /\ Placed(c, y)
  BY DEF D!NextRound
<1> HIDE DEF y
<1>3. /\ PastRest(rank[c][r]) => PastRest(y)
      /\ Closing(y) => AfterReceivers(c)
  BY <1>1 DEF PastRest, Closing
<1>4. RanksKept' /\ \A d \in Contexts : AllPast(d) => AllPast(d)'
  BY <1>1, <1>2, <1>3, OneMoves
<1>5. EventTypes /\ D!Round \in DefinitionEvents
  BY DEF DefinitionInv, DefinitionEvents
<1>6. /\ seen' = seen /\ arrived' = arrived /\ place' = place /\ come' = come
      /\ asked' = [asked EXCEPT ![c] = @ \cup {<<r, D!Round>>}]
  BY DEF D!NextRound
<1>7. EventTypes'
  BY <1>5, <1>6 DEF EventTypes
<1>8. ASSUME NEW b \in Contexts, NEW q \in Processes, NEW d, Hears(b, q, D!Closed(d))'
      PROVE  Hears(b, q, D!Closed(d))
  <2>1. D!Round # D!Closed(d)
    BY DEF D!Round, D!Closed
  <2>2. <<q, D!Closed(d)>> \in asked'[b] => <<q, D!Closed(d)>> \in asked[b]
    BY <1>5, <1>6, <2>1 DEF EventTypes
  <2> QED
    BY <1>6, <1>8, <2>2 DEF Hears
<1> QED
  BY <1>4, <1>7, <1>8, HeardKept

-----------------------------------------------------------------------------
(* closeDefinition.                                                            *)
(* What the invariant says of a rank.                                          *)
LEMMA RankState ==
  ASSUME DefinitionInv, NEW c \in Contexts, NEW r \in Processes
  PROVE  /\ rank[c][r] \in RankStates /\ rank[c] \in [Processes -> RankStates]
         /\ Placed(c, rank[c][r])
BY DEF DefinitionInv, RankTypes, RanksPlaced

(* The calls to the sources, and the loop over the fields to send, are not     *)
(* past the rest: these steps bring no rank there and take none from there.    *)
LEMMA TellKeeps ==
  ASSUME D!CouplingsAssumption, DefinitionInv, NEW c \in Contexts, NEW r \in Processes, D!Tell(c, r)
  PROVE  DefinitionInv'
<1> DEFINE x == rank[c][r]
           y == IF x.at > Len(Ins[c]) THEN [x EXCEPT !.pc = "look", !.at = 1, !.allReady = TRUE]
                ELSE IF Ins[c][x.at] \in x.told THEN [x EXCEPT !.at = @ + 1]
                ELSE [x EXCEPT !.pc = "telling"]
<1>1. x \in RankStates /\ Placed(c, x) /\ x.pc = "tell"
  BY RankState DEF D!Tell, D!At
<1>2. D!Goes(c, r, y) /\ UNCHANGED D!events
  BY DEF D!Tell
<1> HIDE DEF x
<1>3. x.at \in Nat \ {0}
  BY <1>1 DEF Placed
<1>4. /\ y \in RankStates /\ y.pc \in {"look", "tell", "telling"} /\ y.at \in Nat \ {0}
      /\ y.pc = "telling" => y.at <= Len(Ins[c])
  <2>1. CASE x.at > Len(Ins[c])
    <3>1. y = [x EXCEPT !.pc = "look", !.at = 1, !.allReady = TRUE]
      BY <2>1
    <3> HIDE DEF y
    <3>2. y \in RankStates /\ y.pc = "look" /\ y.at = 1
      BY <1>1, <3>1, Begins
    <3> QED
      BY <3>2
  <2>2. CASE ~(x.at > Len(Ins[c])) /\ Ins[c][x.at] \in x.told
    <3>1. y = [x EXCEPT !.at = x.at + 1]
      BY <2>2
    <3>2. x.at + 1 \in Nat \ {0} /\ x.at + 1 \in Int
      BY <1>3
    <3> HIDE DEF y
    <3> QED
      BY <1>1, <3>1, <3>2, Counts
  <2>3. CASE ~(x.at > Len(Ins[c])) /\ Ins[c][x.at] \notin x.told
    <3>1. y = [x EXCEPT !.pc = "telling"]
      BY <2>3
    <3>2. "telling" \in D!Pcs
      BY DEF D!Pcs
    <3>3. Len(Ins[c]) \in Nat
      BY Couplings
    <3>4. x.at <= Len(Ins[c])
      BY <1>3, <2>3, <3>3
    <3> HIDE DEF y
    <3> QED
      BY <1>1, <1>3, <3>1, <3>2, <3>4, GoesTo
  <2> QED
    BY <2>1, <2>2, <2>3
<1> HIDE DEF y
<1>5. Placed(c, y) /\ ~PastRest(x) /\ ~Closing(y)
  BY <1>1, <1>4 DEF Placed, PastRest, Closing
<1>6. RanksKept' /\ \A d \in Contexts : AllPast(d) => AllPast(d)'
  BY <1>2, <1>4, <1>5, OneMoves DEF x
<1> QED
  BY <1>2, <1>6, EventsStill

LEMMA ToldKeeps ==
  ASSUME D!CouplingsAssumption, DefinitionInv, NEW c \in Contexts, NEW r \in Processes, D!Told(c, r)
  PROVE  DefinitionInv'
<1> DEFINE x == rank[c][r]
           s == Ins[c][x.at]
           y == [x EXCEPT !.pc = "tell", !.told = @ \cup {s}, !.at = @ + 1]
<1>1. x \in RankStates /\ Placed(c, x) /\ x.pc = "telling"
  BY RankState DEF D!Told, D!At
<1>2. /\ D!Goes(c, r, y)
      /\ arrived' = [arrived EXCEPT ![s][r] = @ \cup {D!Ready(c)}]
      /\ seen' = seen /\ asked' = asked /\ place' = place /\ come' = come
  BY DEF D!Told
<1> HIDE DEF x
<1>3. x.at \in Nat \ {0} /\ x.at <= Len(Ins[c])
  BY <1>1 DEF Placed
<1>4. s \in Contexts
  <2>1. Ins[c] \in Seq(Contexts) /\ Len(Ins[c]) \in Nat
    BY Couplings
  <2>2. x.at \in 1 .. Len(Ins[c])
    BY <1>3, <2>1
  <2> QED
    BY <2>1, <2>2, ElementOfSeq
<1> HIDE DEF s
<1>5. y \in RankStates /\ y.pc = "tell" /\ y.at \in Nat \ {0}
  <2>1. x.at + 1 \in Int /\ x.at + 1 \in Nat \ {0}
    BY <1>3
  <2>2. x.told \cup {s} \in SUBSET Contexts
    BY <1>1, <1>4 DEF RankStates
  <2>3. "tell" \in D!Pcs
    BY DEF D!Pcs
  <2> QED
    BY <1>1, <2>1, <2>2, <2>3 DEF RankStates
<1> HIDE DEF y
<1>6. Placed(c, y) /\ ~PastRest(x) /\ ~Closing(y)
  BY <1>1, <1>5 DEF Placed, PastRest, Closing
<1>7. RanksKept' /\ \A d \in Contexts : AllPast(d) => AllPast(d)'
  BY <1>2, <1>5, <1>6, OneMoves DEF x
<1>8. EventTypes /\ D!Ready(c) \in D!Messages
  BY Apart DEF DefinitionInv
<1>9. EventTypes'
  BY <1>2, <1>4, <1>8 DEF EventTypes
<1>10. ASSUME NEW b \in Contexts, NEW q \in Processes, NEW d \in Contexts,
              Hears(b, q, D!Closed(d))'
       PROVE  Hears(b, q, D!Closed(d))
  <2>1. D!Closed(d) # D!Ready(c)
    BY Apart
  <2>2. D!Closed(d) \in arrived'[b][q] => D!Closed(d) \in arrived[b][q]
    BY <1>2, <1>4, <1>8, <2>1 DEF EventTypes
  <2> QED
    BY <1>2, <1>10, <2>2 DEF Hears
<1> QED
  BY <1>7, <1>9, <1>10, HeardKept

LEMMA LookKeeps ==
  ASSUME DefinitionInv, NEW c \in Contexts, NEW r \in Processes, D!Look(c, r)
  PROVE  DefinitionInv'
<1> DEFINE x == rank[c][r]
           d == Outs[c][x.at]
           y == IF D!Ready(d) \notin seen[c][r] THEN [x EXCEPT !.allReady = FALSE, !.at = @ + 1]
                ELSE IF d \in x.sent THEN [x EXCEPT !.at = @ + 1]
                ELSE [x EXCEPT !.pc = "sending"]
<1>1. x \in RankStates /\ Placed(c, x) /\ x.pc = "look" /\ x.at <= Len(Outs[c])
  BY RankState DEF D!Look, D!At
<1>2. D!Goes(c, r, y) /\ UNCHANGED D!events
  BY DEF D!Look
<1> HIDE DEF x, d
<1>3. x.at \in Nat \ {0}
  BY <1>1 DEF Placed
<1>4. /\ y \in RankStates /\ y.pc \in {"look", "sending"} /\ y.at \in Nat \ {0}
      /\ y.pc = "sending" => y.at <= Len(Outs[c])
  <2>1. /\ x.at + 1 \in Int /\ x.at + 1 \in Nat \ {0}
        /\ "look" \in D!Pcs /\ "sending" \in D!Pcs
    BY <1>3 DEF D!Pcs
  <2>2. CASE D!Ready(d) \notin seen[c][r]
    <3>1. y = [x EXCEPT !.allReady = FALSE, !.at = x.at + 1]
      BY <2>2
    <3> HIDE DEF y
    <3> QED
      BY <1>1, <2>1, <3>1 DEF RankStates
  <2>3. CASE D!Ready(d) \in seen[c][r] /\ d \in x.sent
    <3>1. y = [x EXCEPT !.at = x.at + 1]
      BY <2>3
    <3> HIDE DEF y
    <3> QED
      BY <1>1, <2>1, <3>1, Counts
  <2>4. CASE D!Ready(d) \in seen[c][r] /\ d \notin x.sent
    <3>1. y = [x EXCEPT !.pc = "sending"]
      BY <2>4
    <3> HIDE DEF y
    <3> QED
      BY <1>1, <1>3, <2>1, <3>1, GoesTo
  <2> QED
    BY <2>2, <2>3, <2>4
<1> HIDE DEF y
<1>5. Placed(c, y) /\ ~PastRest(x) /\ ~Closing(y)
  BY <1>1, <1>4 DEF Placed, PastRest, Closing
<1>6. RanksKept' /\ \A b \in Contexts : AllPast(b) => AllPast(b)'
  BY <1>2, <1>4, <1>5, OneMoves DEF x
<1> QED
  BY <1>2, <1>6, EventsStill

LEMMA ConnectedKeeps ==
  ASSUME DefinitionInv, NEW c \in Contexts, NEW r \in Processes, D!Connected(c, r)
  PROVE  DefinitionInv'
<1> DEFINE x == rank[c][r]
           y == [x EXCEPT !.pc = "sharing"]
<1>1. x \in RankStates /\ Placed(c, x) /\ x.pc = "sending"
  BY RankState DEF D!Connected, D!At
<1>2. D!Goes(c, r, y) /\ UNCHANGED D!events
  BY DEF D!Connected
<1> HIDE DEF x
<1>3. y \in RankStates /\ y.pc = "sharing" /\ y.at = x.at
  BY <1>1 DEF RankStates, D!Pcs
<1> HIDE DEF y
<1>4. Placed(c, y) /\ ~PastRest(x) /\ ~Closing(y)
  BY <1>1, <1>3 DEF Placed, PastRest, Closing
<1>5. RanksKept' /\ \A b \in Contexts : AllPast(b) => AllPast(b)'
  BY <1>2, <1>3, <1>4, OneMoves DEF x
<1> QED
  BY <1>2, <1>5, EventsStill

LEMMA LookedKeeps ==
  ASSUME DefinitionInv, NEW c \in Contexts, NEW r \in Processes, D!Looked(c, r)
  PROVE  DefinitionInv'
<1> DEFINE x == rank[c][r]
           y == [x EXCEPT !.at = 0]
<1>1. x \in RankStates /\ Placed(c, x) /\ x.pc = "look"
  BY RankState DEF D!Looked, D!At
<1>2. D!NextRound(c, r, y)
  BY DEF D!Looked
<1>3. ~PastRest(x)
  BY <1>1 DEF PastRest
<1> HIDE DEF x
<1>4. y \in RankStates /\ y.at = 0
  BY <1>1, Counts
<1> HIDE DEF y
<1>5. Placed(c, [y EXCEPT !.pc = "round"])
  BY <1>4, InRound DEF Placed, PastRest
<1> QED
  BY <1>2, <1>3, <1>4, <1>5, NextRoundKeeps DEF x

LEMMA OnceMoreKeeps ==
  ASSUME DefinitionInv, NEW c \in Contexts, NEW r \in Processes, D!OnceMore(c, r)
  PROVE  DefinitionInv'
<1> DEFINE x == rank[c][r]
           y == [x EXCEPT !.at = -1]
<1>1. x \in RankStates /\ x.pc = "once more"
  BY RankState DEF D!OnceMore, D!At
<1>2. D!NextRound(c, r, y)
  BY DEF D!OnceMore
<1>3. ~PastRest(x)
  BY <1>1 DEF PastRest
<1> HIDE DEF x
<1>4. y \in RankStates /\ y.at = -1
  <2>1. -1 \in Int
    OBVIOUS
  <2> QED
    BY <1>1, <2>1, Counts
<1> HIDE DEF y
<1>5. Placed(c, [y EXCEPT !.pc = "round"])
  BY <1>4, InRound DEF Placed, PastRest
<1> QED
  BY <1>2, <1>3, <1>4, <1>5, NextRoundKeeps DEF x

(* A rank that has seen all its receivers close may close after its round.     *)
LEMMA AskKeeps ==
  ASSUME DefinitionInv, NEW c \in Contexts, NEW r \in Processes, D!Ask(c, r)
  PROVE  DefinitionInv'
<1> DEFINE x == rank[c][r]
           closed == \A d \in Contexts : D!InSeq(Outs[c], d) => D!Closed(d) \in seen[c][r]
           y == [x EXCEPT !.at = -2, !.allReady = closed]
<1>1. x \in RankStates /\ Placed(c, x) /\ x.pc = "ask"
  BY RankState DEF D!Ask, D!At
<1>2. D!NextRound(c, r, y)
  BY DEF D!Ask
<1>3. closed => AfterReceivers(c)
  BY DEF AfterReceivers, DefinitionInv, ClosedHeard, Hears
<1> HIDE DEF x
<1>4. closed \in BOOLEAN
  OBVIOUS
<1> HIDE DEF closed
<1>5. y \in RankStates /\ y.at = -2 /\ y.allReady = closed /\ y.built = x.built
  <2>1. -2 \in Int
    OBVIOUS
  <2> QED
    BY <1>1, <1>4, <2>1 DEF RankStates
<1> HIDE DEF y
<1>6. x.built
  BY <1>1 DEF Placed, PastRest
<1>7. Placed(c, [y EXCEPT !.pc = "round"])
  BY <1>5, <1>6, InRound DEF Placed, PastRest
<1>8. y.at = -2 /\ y.allReady => AfterReceivers(c)
  BY <1>3, <1>5
<1> QED
  BY <1>2, <1>5, <1>7, <1>8, NextRoundKeeps DEF x


(* The steps that all the ranks of a context make together.                    *)
LEMMA BuildKeeps ==
  ASSUME DefinitionInv, NEW c \in Contexts, D!Build(c)
  PROVE  DefinitionInv'
<1> DEFINE y == [r \in Processes |->
                   [rank[c][r] EXCEPT !.pc = "tell", !.at = 1, !.built = D!Complete(c, r)]]
<1>1. rank' = [rank EXCEPT ![c] = y] /\ UNCHANGED D!events
  BY DEF D!Build
<1>2. ASSUME NEW r \in Processes
      PROVE  /\ y[r] \in RankStates /\ Placed(c, y[r])
             /\ ~PastRest(rank[c][r]) /\ ~Closing(y[r])
  <2> DEFINE x == rank[c][r]
             b == D!Complete(c, r)
             z == [x EXCEPT !.pc = "tell", !.at = 1, !.built = b]
  <2>1. x \in RankStates /\ x.pc = "build"
    BY RankState DEF D!Build, D!At
  <2>2. y[r] = z /\ b \in BOOLEAN
    BY DEF D!Complete
  <2> HIDE DEF x, b
  <2>3. "tell" \in D!Pcs /\ 1 \in Int
    BY DEF D!Pcs
  <2>4. z \in RankStates /\ z.pc = "tell" /\ z.at = 1
    BY <2>1, <2>2, <2>3 DEF RankStates
  <2> HIDE DEF y, z
  <2>5. Placed(c, z) /\ ~PastRest(x) /\ ~Closing(z)
    BY <2>1, <2>4 DEF Placed, PastRest, Closing
  <2> QED
    BY <2>2, <2>4, <2>5 DEF x
<1>3. y \in [Processes -> RankStates]
  BY <1>2
<1> HIDE DEF y
<1>4. RanksKept' /\ \A b \in Contexts : AllPast(b) => AllPast(b)'
  BY <1>1, <1>2, <1>3, AllMove
<1> QED
  BY <1>1, <1>4, EventsStill

LEMMA ShareKeeps ==
  ASSUME D!CouplingsAssumption, DefinitionInv, NEW c \in Contexts, D!Share(c)
  PROVE  DefinitionInv'
<1> DEFINE d == Outs[c][rank[c][CHOOSE r \in Processes : TRUE].at]
           y == [r \in Processes |->
                  [rank[c][r] EXCEPT !.pc = "look", !.at = @ + 1, !.sent = @ \cup {d},
                     !.early = IF D!GridsKnown(c, r, D!OfField(c, d)) THEN @ ELSE @ \cup {d}]]
<1>1. /\ rank' = [rank EXCEPT ![c] = y]
      /\ arrived' = [arrived EXCEPT ![d] = [r \in Processes |-> arrived[d][r] \cup {D!Grid(c)}]]
      /\ seen' = seen /\ asked' = asked /\ place' = place /\ come' = come
  BY DEF D!Share
<1>2. ASSUME NEW r \in Processes
      PROVE  /\ rank[c][r] \in RankStates /\ rank[c][r].pc = "sharing"
             /\ rank[c][r].at \in Nat \ {0}
             /\ d \in Contexts
  <2>1. PICK q \in Processes : q = CHOOSE p \in Processes : TRUE
    OBVIOUS
  <2>2. d = Outs[c][rank[c][q].at]
    BY <2>1
  <2>3. /\ rank[c][r] \in RankStates /\ rank[c][r].pc = "sharing" /\ Placed(c, rank[c][r])
        /\ rank[c][q].pc = "sharing" /\ Placed(c, rank[c][q])
    BY RankState DEF D!Share, D!At
  <2> HIDE DEF d
  <2>4. /\ rank[c][r].at \in Nat \ {0}
        /\ rank[c][q].at \in Nat \ {0} /\ rank[c][q].at <= Len(Outs[c])
    BY <2>3 DEF Placed
  <2>5. Outs[c] \in Seq(Contexts) /\ Len(Outs[c]) \in Nat
    BY Couplings
  <2>6. rank[c][q].at \in 1 .. Len(Outs[c])
    BY <2>4, <2>5
  <2> QED
    BY <2>2, <2>3, <2>4, <2>5, <2>6, ElementOfSeq
<1> HIDE DEF d
<1>3. ASSUME NEW r \in Processes
      PROVE  /\ y[r] \in RankStates /\ Placed(c, y[r])
             /\ ~PastRest(rank[c][r]) /\ ~Closing(y[r])
  <2> DEFINE x == rank[c][r]
             e == IF D!GridsKnown(c, r, D!OfField(c, d)) THEN x.early ELSE x.early \cup {d}
             z == [x EXCEPT !.pc = "look", !.at = x.at + 1, !.sent = x.sent \cup {d}, !.early = e]
  <2>1. x \in RankStates /\ x.pc = "sharing" /\ x.at \in Nat \ {0} /\ d \in Contexts
    BY <1>2
  <2>2. y[r] = z
    OBVIOUS
  <2> HIDE DEF y, x
  <2>3. "look" \in D!Pcs /\ x.at + 1 \in Int /\ x.at + 1 \in Nat \ {0}
    BY <2>1 DEF D!Pcs
  <2>4. x.sent \cup {d} \in SUBSET Contexts /\ x.early \in SUBSET Contexts
    BY <2>1 DEF RankStates
  <2>5. e \in SUBSET Contexts
    BY <2>1, <2>4
  <2> HIDE DEF e
  <2>6. z \in RankStates /\ z.pc = "look" /\ z.at = x.at + 1
    BY <2>1, <2>3, <2>4, <2>5 DEF RankStates
  <2> HIDE DEF z
  <2>7. Placed(c, z) /\ ~PastRest(x) /\ ~Closing(z)
    BY <2>1, <2>3, <2>6 DEF Placed, PastRest, Closing
  <2> QED
    BY <2>2, <2>6, <2>7 DEF x
<1>4. y \in [Processes -> RankStates]
  BY <1>3
<1> HIDE DEF y
<1>5. RanksKept' /\ \A b \in Contexts : AllPast(b) => AllPast(b)'
  BY <1>1, <1>3, <1>4, AllMove
<1>6. EventTypes /\ D!Grid(c) \in D!Messages
  BY Apart DEF DefinitionInv
<1>7. EventTypes'
  BY <1>1, <1>6 DEF EventTypes
<1>8. ASSUME NEW b \in Contexts, NEW q \in Processes, NEW m \in Contexts,
             Hears(b, q, D!Closed(m))'
      PROVE  Hears(b, q, D!Closed(m))
  <2>1. D!Closed(m) # D!Grid(c)
    BY Apart
  <2>2. D!Closed(m) \in arrived'[b][q] => D!Closed(m) \in arrived[b][q]
    BY <1>1, <1>6, <2>1 DEF EventTypes
  <2> QED
    BY <1>1, <1>8, <2>2 DEF Hears
<1> QED
  BY <1>5, <1>7, <1>8, HeardKept

(* The sources hear that c is done when all its ranks are past their rest.     *)
LEMMA RestKeeps ==
  ASSUME DefinitionInv, NEW c \in Contexts, D!Rest(c)
  PROVE  DefinitionInv'
<1> DEFINE y == [r \in Processes |-> [rank[c][r] EXCEPT !.pc = "ask"]]
<1>1. /\ rank' = [rank EXCEPT ![c] = y]
      /\ arrived' = [s \in Contexts |-> IF s \in D!Sources(c)
                       THEN [r \in Processes |-> arrived[s][r] \cup {D!Closed(c)}] ELSE arrived[s]]
      /\ seen' = seen /\ asked' = asked /\ place' = place /\ come' = come
  BY DEF D!Rest
<1>2. ASSUME NEW r \in Processes
      PROVE  /\ y[r] \in RankStates /\ Placed(c, y[r])
             /\ PastRest(y[r]) /\ ~Closing(y[r])
  <2> DEFINE x == rank[c][r]
             z == [x EXCEPT !.pc = "ask"]
  <2>1. x \in RankStates /\ Placed(c, x) /\ x.pc = "rest"
    BY RankState DEF D!Rest, D!At
  <2>2. y[r] = z
    OBVIOUS
  <2> HIDE DEF x, y
  <2>3. "ask" \in D!Pcs
    BY DEF D!Pcs
  <2>4. z \in RankStates /\ z.pc = "ask" /\ z.built = x.built
    BY <2>1, <2>3, GoesTo
  <2> HIDE DEF z
  <2>5. Placed(c, z) /\ PastRest(z) /\ ~Closing(z)
    BY <2>1, <2>4 DEF Placed, PastRest, Closing
  <2> QED
    BY <2>2, <2>4, <2>5
<1>3. y \in [Processes -> RankStates]
  BY <1>2
<1> HIDE DEF y
<1>4. RanksKept' /\ \A b \in Contexts : AllPast(b) => AllPast(b)'
  BY <1>1, <1>2, <1>3, AllMove
<1>5. AllPast(c)'
  BY <1>1, <1>2 DEF AllPast, DefinitionInv, RankTypes, PastRest
<1>6. EventTypes /\ D!Closed(c) \in D!Messages
  BY Apart DEF DefinitionInv
<1>7. EventTypes'
  BY <1>1, <1>6 DEF EventTypes
<1>8. ASSUME NEW b \in Contexts, NEW q \in Processes, NEW d \in Contexts,
             Hears(b, q, D!Closed(d))'
      PROVE  Hears(b, q, D!Closed(d)) \/ AllPast(d)'
  <2>1. D!Closed(d) = D!Closed(c) => d = c
    BY Apart
  <2>2. D!Closed(d) \in arrived'[b][q] => D!Closed(d) \in arrived[b][q] \/ d = c
    BY <1>1, <1>6, <2>1 DEF EventTypes
  <2> QED
    BY <1>1, <1>5, <1>8, <2>2 DEF Hears
<1> QED
  BY <1>4, <1>7, <1>8, HeardKept

(* From the round of Ask a rank closes or asks again, from the one before it   *)
(* goes to its rest only with its graph built.                                 *)
LEMMA EndRoundKeeps ==
  ASSUME DefinitionInv, NEW c \in Contexts, NEW r \in Processes, D!EndRound(c, r)
  PROVE  DefinitionInv'
<1> DEFINE x == rank[c][r]
           to == IF x.at = 0 /\ x.allReady THEN "once more"
                 ELSE IF x.at = -1 THEN IF x.built THEN "rest" ELSE "build"
                 ELSE IF x.allReady THEN "closed" ELSE "ask"
           y == IF x.at = 0 /\ ~x.allReady THEN [x EXCEPT !.pc = "look", !.at = 1, !.allReady = TRUE]
                ELSE [x EXCEPT !.pc = to]
<1>1. /\ x \in RankStates /\ Placed(c, x) /\ x.pc = "round"
      /\ Closing(x) => AfterReceivers(c)
  BY RankState DEF D!EndRound, D!At, DefinitionInv, WaitedFor
<1>2. /\ place[c][r] # <<>>
      /\ place' = [place EXCEPT ![c][r] = Tail(@)]
      /\ seen' = seen /\ arrived' = arrived /\ asked' = asked /\ come' = come
  BY DEF D!EndRound, D!Pop, D!AtFront
<1>3. D!Goes(c, r, y)
  BY DEF D!EndRound
<1> HIDE DEF x
<1>4. x.at \in {0, -1, -2} /\ x.allReady \in BOOLEAN /\ (x.at = -2 => x.built)
  BY <1>1 DEF Placed, RankStates, PastRest
<1>5. /\ y \in RankStates /\ Placed(c, y)
      /\ PastRest(x) => PastRest(y)
      /\ Closing(y) => Closing(x)
  <2>1. CASE x.at = 0 /\ ~x.allReady
    <3>1. y = [x EXCEPT !.pc = "look", !.at = 1, !.allReady = TRUE]
      BY <2>1
    <3> HIDE DEF y
    <3>2. y \in RankStates /\ y.pc = "look" /\ y.at = 1
      BY <1>1, <3>1, Begins
    <3> QED
      BY <1>1, <2>1, <3>2 DEF Placed, PastRest, Closing
  <2>2. CASE ~(x.at = 0 /\ ~x.allReady)
    <3>1. y = [x EXCEPT !.pc = to]
      BY <2>2
    <3>2. to \in D!Pcs
      BY DEF D!Pcs
    <3>3. /\ to \in {"once more", "rest", "build", "closed", "ask"}
          /\ to = "rest" => x.built
          /\ to \in {"closed", "ask"} <=> x.at = -2
          /\ to = "closed" => x.allReady
      BY <1>4, <2>2
    <3> HIDE DEF y, to
    <3>4. y \in RankStates /\ y.pc = to /\ y.at = x.at /\ y.built = x.built
      BY <1>1, <3>1, <3>2, GoesTo
    <3> QED
      BY <1>1, <1>4, <3>3, <3>4 DEF Placed, PastRest, Closing
  <2> QED
    BY <2>1, <2>2
<1> HIDE DEF y
<1>6. RanksKept' /\ \A b \in Contexts : AllPast(b) => AllPast(b)'
  BY <1>1, <1>3, <1>5, OneMoves DEF x
<1>7. EventTypes /\ place[c][r] \in Seq(DefinitionEvents)
  BY DEF DefinitionInv, EventTypes
<1>8. EventTypes'
  <2>1. Tail(place[c][r]) \in Seq(DefinitionEvents)
    BY <1>2, <1>7
  <2> QED
    BY <1>2, <1>7, <2>1 DEF EventTypes
<1>9. ASSUME NEW b \in Contexts, NEW q \in Processes, NEW m, Hears(b, q, m)'
      PROVE  Hears(b, q, m)
  <2>1. D!InSeq(place'[b][q], m) => D!InSeq(place[b][q], m)
    <3>1. CASE b = c /\ q = r
      <4>1. place'[b][q] = Tail(place[c][r])
        BY <1>2, <1>7, <3>1 DEF EventTypes
      <4> QED
        BY <1>2, <1>7, <3>1, <4>1, TailHas
    <3>2. CASE ~(b = c /\ q = r)
      BY <1>2, <1>7, <3>2 DEF EventTypes
    <3> QED
      BY <3>1, <3>2
  <2> QED
    BY <1>2, <1>9, <2>1 DEF Hears
<1> QED
  BY <1>6, <1>8, <1>9, HeardKept

-----------------------------------------------------------------------------
(* The invariant holds from the beginning, and every step keeps it.            *)
LEMMA BeginInv == D!Init => DefinitionInv
<1> SUFFICES ASSUME D!Init PROVE DefinitionInv
  OBVIOUS
<1>1. EventTypes
  BY DEF D!Init, EventTypes
<1>2. RankTypes
  <2>1. "build" \in D!Pcs
    BY DEF D!Pcs
  <2> QED
    BY <2>1 DEF D!Init, RankTypes, RankStates
<1>3. \A c \in Contexts, r \in Processes : rank[c][r].pc = "build"
  BY DEF D!Init
<1>4. RanksPlaced /\ WaitedFor
  BY <1>3 DEF RanksPlaced, WaitedFor, Placed, PastRest, Closing
<1>5. ClosedHeard
  BY DEF D!Init, ClosedHeard, Hears, D!InSeq
<1> QED
  BY <1>1, <1>2, <1>4, <1>5 DEF DefinitionInv

LEMMA DefinitionNext ==
  ASSUME D!CouplingsAssumption, DefinitionInv, [D!Next]_D!vars
  PROVE  DefinitionInv'
<1>1. CASE UNCHANGED D!vars
  <2>1. RanksKept' /\ \A d \in Contexts : AllPast(d) => AllPast(d)'
    BY <1>1, RanksStill DEF D!vars
  <2> QED
    BY <1>1, <2>1, EventsStill DEF D!vars
<1>2. ASSUME NEW c \in Contexts, D!Decides(c) \/ D!Decide(c, D!Round)
      PROVE  DefinitionInv'
  BY <1>2, DecideKeeps DEF D!Decides, DefinitionEvents
<1>3. ASSUME NEW c \in Contexts, D!Build(c) \/ D!Share(c) \/ D!Rest(c)
      PROVE  DefinitionInv'
  BY <1>3, BuildKeeps, ShareKeeps, RestKeeps
<1>4. ASSUME NEW c \in Contexts, NEW r \in Processes, D!LoopSteps(c, r)
      PROVE  DefinitionInv'
  BY <1>4, AnnounceKeeps, EnterBarrierKeeps, DispatchKeeps DEF D!LoopSteps
<1>5. ASSUME NEW c \in Contexts, NEW r \in Processes, D!RankSteps(c, r)
      PROVE  DefinitionInv'
  BY <1>5, TellKeeps, ToldKeeps, LookKeeps, ConnectedKeeps, LookedKeeps, EndRoundKeeps,
     OnceMoreKeeps, AskKeeps DEF D!RankSteps
<1> QED
  BY <1>1, <1>2, <1>3, <1>4, <1>5 DEF D!Next

(* A rank that has closed waited for all its receivers.                        *)
LEMMA ClosedAfter == DefinitionInv => D!ClosedAfterReceivers
<1> SUFFICES ASSUME DefinitionInv, NEW c \in Contexts, NEW d \in Contexts,
                    NEW r \in Processes, NEW q \in Processes,
                    D!At(c, r, "closed"), D!InSeq(Outs[c], d)
             PROVE  D!Connects(d, q)
  BY DEF D!ClosedAfterReceivers
<1>1. AllPast(d)
  BY DEF DefinitionInv, WaitedFor, Closing, AfterReceivers, D!At
<1>2. PastRest(rank[d][q]) /\ Placed(d, rank[d][q])
  BY <1>1 DEF AllPast, DefinitionInv, RanksPlaced
<1> QED
  BY <1>2 DEF D!Connects, Placed, PastRest

(* Whatever the contexts and their couplings, a context hears that another is  *)
(* done only when all the ranks of that one are past their rest, and none of   *)
(* its ranks closes before it heard that of all its receivers                  *)
(* (context.cpp:1332-1350).                                                    *)
THEOREM DefinitionExact ==
  ASSUME D!CouplingsAssumption PROVE D!Spec => []DefinitionInv
<1>1. D!Init => DefinitionInv
  BY BeginInv
<1>2. DefinitionInv /\ [D!Next]_D!vars => DefinitionInv'
  BY DefinitionNext
<1> QED
  BY <1>1, <1>2, PTL DEF D!Spec

(* Whatever the contexts and their couplings, a context has closed its         *)
(* definition only when those it sends fields to have built their graph and    *)
(* said so, although the messages come at different times to its ranks         *)
(* (context.cpp:1332, field.cpp:194).                                          *)
THEOREM ClosesAfterReceivers ==
  ASSUME D!CouplingsAssumption PROVE D!Spec => []D!ClosedAfterReceivers
<1>1. DefinitionInv => D!ClosedAfterReceivers
  BY ClosedAfter
<1> QED
  BY <1>1, DefinitionExact, PTL
=============================================================================
