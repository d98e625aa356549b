-------------------------- MODULE Coupling_proofs --------------------------
(* Proofs about Coupling for any contexts and any couplings between them:    *)
(* the manager's list counts the sides that have still to take a coupling,   *)
(* and no contexts wait for each other in a circle.                          *)
EXTENDS Coupling, TLAPS

(* A coupling has two sides, its contexts.                                   *)
LEMMA TwoSides ==
  \A k \in Links : /\ k = <<k[1], k[2]>> /\ k[1] # k[2]
                   /\ Sides(k) \subseteq Contexts
                   /\ \A c \in Sides(k) : /\ Other(c, k) \in Sides(k) /\ Other(c, k) # c
                                          /\ Sides(k) = {c, Other(c, k)}
BY LinksAssumption DEF Sides, Other

(* Appending to the list of couplings one that is not on it.                 *)
LEMMA AppendListed ==
  ASSUME TypeOK, NEW k \in Links, ~Listed(k), HalfAtFront,
         OnceEach,
         nextOnes' = Append(nextOnes, <<k, 2>>)
  PROVE  /\ nextOnes' \in Seq(Links \X {1, 2})
         /\ OnceEach'
         /\ HalfAtFront'
         /\ ListedAs(k, 2)'
         /\ \A j \in Links, n \in {1, 2} : ListedAs(j, n) => ListedAs(j, n)'
         /\ \A j \in Links : j # k /\ ~Listed(j) => ~Listed(j)'
<1>1. nextOnes \in Seq(Links \X {1, 2}) /\ <<k, 2>> \in Links \X {1, 2}
  BY DEF TypeOK
<1>2. /\ nextOnes' \in Seq(Links \X {1, 2})
      /\ Len(nextOnes') = Len(nextOnes) + 1 /\ Len(nextOnes) \in Nat
      /\ \A i \in 1..Len(nextOnes) : nextOnes'[i] = nextOnes[i]
      /\ nextOnes'[Len(nextOnes) + 1] = <<k, 2>>
  BY <1>1
<1>3. \A i \in 1..Len(nextOnes') : i \in 1..Len(nextOnes) \/ i = Len(nextOnes) + 1
  BY <1>2
<1>4. \A i \in 1..Len(nextOnes) : i \in 1..Len(nextOnes') /\ nextOnes[i][1] # k
  BY <1>2 DEF Listed
<1>5. OnceEach'
  BY <1>2, <1>3, <1>4 DEF OnceEach
<1>6. HalfAtFront'
  BY <1>2, <1>3 DEF HalfAtFront
<1>7. ListedAs(k, 2)'
  BY <1>2 DEF ListedAs
<1>8. \A j \in Links, n \in {1, 2} : ListedAs(j, n) => ListedAs(j, n)'
  BY <1>2, <1>4 DEF ListedAs
<1>9. \A j \in Links : j # k /\ ~Listed(j) => ~Listed(j)'
  BY <1>2, <1>3 DEF Listed
<1> QED
  BY <1>2, <1>5, <1>6, <1>7, <1>8, <1>9

(* Taking the coupling at the front: its last side removes it, its first     *)
(* leaves it to the other.                                                   *)
LEMMA TakeListed ==
  ASSUME TypeOK, NEW k \in Links, IsNext(k), HalfAtFront,
         OnceEach,
         nextOnes' = Taken
  PROVE  /\ nextOnes' \in Seq(Links \X {1, 2})
         /\ OnceEach'
         /\ HalfAtFront'
         /\ Listed(k)
         /\ ListedAs(k, 1) => ~Listed(k)'
         /\ ListedAs(k, 2) => ListedAs(k, 1)'
         /\ \A j \in Links, n \in {1, 2} : j # k /\ ListedAs(j, n) => ListedAs(j, n)'
         /\ \A j \in Links : ~Listed(j) => ~Listed(j)'
<1>1. nextOnes \in Seq(Links \X {1, 2}) /\ Len(nextOnes) \in Nat /\ Len(nextOnes) >= 1
  BY DEF TypeOK, IsNext
<1>2. 1 \in 1..Len(nextOnes) /\ nextOnes[1] \in Links \X {1, 2} /\ nextOnes[1][1] = k
      /\ Head(nextOnes) = nextOnes[1]
  BY <1>1 DEF IsNext
<1>3. Listed(k)
  BY <1>2 DEF Listed
<1>4. \A i \in 1..Len(nextOnes) : nextOnes[i][1] = k => i = 1
  BY <1>2 DEF OnceEach
<1>5. CASE nextOnes[1][2] = 1
  <2>1. /\ nextOnes' = Tail(nextOnes) /\ nextOnes' \in Seq(Links \X {1, 2})
        /\ Len(nextOnes') = Len(nextOnes) - 1
        /\ \A i \in 1..Len(nextOnes') : i + 1 \in 1..Len(nextOnes) /\ nextOnes'[i] = nextOnes[i + 1]
        /\ \A i \in 2..Len(nextOnes) : i - 1 \in 1..Len(nextOnes') /\ nextOnes'[i - 1] = nextOnes[i]
    BY <1>1, <1>2, <1>5 DEF Taken
  <2>2. OnceEach'
    BY <1>1, <2>1 DEF OnceEach
  <2>3. HalfAtFront'
    BY <1>1, <2>1 DEF HalfAtFront
  <2>4. ~Listed(k)'
    BY <1>1, <1>4, <2>1 DEF Listed
  <2>5. ~ListedAs(k, 2)
    <3>1. \A i \in 1..Len(nextOnes) : nextOnes[i] = <<k, 2>> => nextOnes[i][1] = k /\ nextOnes[i][2] = 2
      OBVIOUS
    <3> QED
      BY <1>4, <1>5, <3>1 DEF ListedAs
  <2>6. ASSUME NEW j \in Links, NEW n \in {1, 2}, j # k, ListedAs(j, n)
        PROVE  ListedAs(j, n)'
    <3>1. PICK i \in 1..Len(nextOnes) : nextOnes[i] = <<j, n>>
      BY <2>6 DEF ListedAs
    <3>2. i \in 2..Len(nextOnes)
      BY <1>1, <1>2, <2>6, <3>1
    <3> QED
      BY <2>1, <3>1, <3>2 DEF ListedAs
  <2>7. \A j \in Links : ~Listed(j) => ~Listed(j)'
    BY <2>1 DEF Listed
  <2> QED
    BY <1>3, <2>1, <2>2, <2>3, <2>4, <2>5, <2>6, <2>7
<1>6. CASE nextOnes[1][2] = 2
  <2>1. /\ nextOnes' = [nextOnes EXCEPT ![1] = <<@[1], 1>>]
        /\ Len(nextOnes') = Len(nextOnes) /\ nextOnes'[1] = <<k, 1>>
        /\ \A i \in 1..Len(nextOnes) : i # 1 => nextOnes'[i] = nextOnes[i]
    BY <1>1, <1>2, <1>6 DEF Taken
  <2>2. nextOnes' \in Seq(Links \X {1, 2})
    BY <1>1, <1>2, <2>1
  <2>3. \A i \in 1..Len(nextOnes) : nextOnes'[i][1] = nextOnes[i][1]
    BY <1>2, <2>1
  <2>4. OnceEach'
    BY <2>1, <2>3 DEF OnceEach
  <2>5. HalfAtFront'
    BY <2>1 DEF HalfAtFront
  <2>6. ListedAs(k, 1)'
    BY <1>2, <2>1 DEF ListedAs
  <2>7. ~ListedAs(k, 1)
    <3>1. \A i \in 1..Len(nextOnes) : nextOnes[i] = <<k, 1>> => nextOnes[i][1] = k /\ nextOnes[i][2] = 1
      OBVIOUS
    <3> QED
      BY <1>4, <1>6, <3>1 DEF ListedAs
  <2>8. ASSUME NEW j \in Links, NEW n \in {1, 2}, j # k, ListedAs(j, n)
        PROVE  ListedAs(j, n)'
    <3>1. PICK i \in 1..Len(nextOnes) : nextOnes[i] = <<j, n>>
      BY <2>8 DEF ListedAs
    <3>2. i # 1
      BY <1>2, <2>8, <3>1
    <3> QED
      BY <2>1, <3>1, <3>2 DEF ListedAs
  <2>9. \A j \in Links : ~Listed(j) => ~Listed(j)'
    BY <2>1, <2>3 DEF Listed
  <2> QED
    BY <1>3, <2>2, <2>4, <2>5, <2>6, <2>7, <2>8, <2>9
<1> QED
  BY <1>2, <1>5, <1>6

(* Nothing is registered, and nothing taken.                                 *)
LEMMA InitInv == Init => CouplingInv
<1> SUFFICES ASSUME Init PROVE CouplingInv
  OBVIOUS
<1> USE DEF Init
<1>1. TypeOK
  BY DEF TypeOK, Couplings
<1>2. OnceEach /\ HalfAtFront
  BY DEF OnceEach, HalfAtFront
<1>3. ASSUME NEW k \in Links PROVE Counted(k)
  <2>1. \A c \in Sides(k) : ~HasRegistered(c, k)
    BY TwoSides DEF HasRegistered, Couplings
  <2>2. \E c \in Sides(k) : TRUE
    BY DEF Sides
  <2>3. ~BothRegistered(k) /\ ~Listed(k)
    BY <2>1, <2>2 DEF BothRegistered, Listed
  <2> QED
    BY <2>1, <2>3 DEF Counted
<1>4. MadeTogether
  BY DEF MadeTogether, HasTaken
<1>5. AsksForTheRest
  BY DEF AsksForTheRest
<1> QED
  BY <1>1, <1>2, <1>3, <1>4, <1>5 DEF CouplingInv, TurnsCounted

(* registerCoupling: the second side to call it puts the coupling on the     *)
(* list.                                                                     *)
LEMMA RegisterStep ==
  ASSUME CouplingInv, NEW c \in Contexts, NEW k \in Links, Register(c, k)
  PROVE  CouplingInv'
<1> USE DEF CouplingInv
<1>1. /\ k \in toRegister[c] /\ Registered(k)
      /\ toRegister' = [toRegister EXCEPT ![c] = @ \ {k}]
      /\ UNCHANGED <<lists, phase, todo, waiting, channels>>
  BY DEF Register, FirstOf
<1>2. /\ toRegister' \in [Contexts -> SUBSET Links]
      /\ \A d \in Contexts, j \in Links :
           HasRegistered(d, j)' <=> HasRegistered(d, j) \/ <<d, j>> = <<c, k>>
  BY <1>1 DEF TypeOK, HasRegistered
<1>3. c \in Sides(k) /\ ~HasRegistered(c, k) /\ ~BothRegistered(k)
  BY <1>1 DEF HasRegistered, BothRegistered, AsksForTheRest, Couplings
<1>4. \A j \in Links : /\ NoneTook(j)' <=> NoneTook(j)
                       /\ BothTook(j)' <=> BothTook(j)
  BY <1>1 DEF NoneTook, BothTook, HasTaken
<1>5. NoneTook(k) /\ ~BothTook(k)
  BY <1>3, TwoSides DEF NoneTook, BothTook, MadeTogether
<1>6. \A j \in Links : j # k => /\ BothRegistered(j)' <=> BothRegistered(j)
                                /\ \A d \in Sides(j) : HasRegistered(d, j)' <=> HasRegistered(d, j)
  BY <1>2, TwoSides DEF BothRegistered
<1>7. \A d \in Sides(k) : HasRegistered(d, k)' <=> HasRegistered(d, k) \/ d = c
  BY <1>2, TwoSides
<1>8. ~Listed(k)
  BY <1>3 DEF TurnsCounted, Counted
<1>9. MadeTogether'
  <2>1. \A d \in Contexts, j \in Links : HasTaken(d, j)' <=> HasTaken(d, j)
    BY <1>1 DEF HasTaken
  <2>2. \A j \in Links : BothRegistered(j) => BothRegistered(j)'
    BY <1>3, <1>6
  <2> QED
    BY <1>1, <2>1, <2>2 DEF MadeTogether
<1>10. AsksForTheRest'
  BY <1>1 DEF AsksForTheRest, TypeOK
<1>11. CASE k \in registred
  <2>1. registred' = registred \ {k} /\ nextOnes' = Append(nextOnes, <<k, 2>>)
    BY <1>1, <1>11 DEF Registered
  <2>2. BothRegistered(k)'
    <3>1. PICK d \in Sides(k) : HasRegistered(d, k)
      BY <1>11 DEF TurnsCounted, Counted
    <3>2. Sides(k) = {c, d}
      BY <1>3, <3>1, TwoSides
    <3> QED
      BY <1>7, <3>1, <3>2 DEF BothRegistered
  <2>3. /\ nextOnes' \in Seq(Links \X {1, 2})
        /\ OnceEach' /\ HalfAtFront' /\ ListedAs(k, 2)'
        /\ \A j \in Links, n \in {1, 2} : ListedAs(j, n) => ListedAs(j, n)'
        /\ \A j \in Links : j # k /\ ~Listed(j) => ~Listed(j)'
    BY <1>8, <2>1, AppendListed DEF TurnsCounted
  <2>4. Counted(k)'
    BY <1>4, <1>5, <2>1, <2>2, <2>3 DEF Counted
  <2>5. ASSUME NEW j \in Links, j # k PROVE Counted(j)'
    BY <1>4, <1>6, <2>1, <2>3, <2>5 DEF Counted, TurnsCounted
  <2>6. TypeOK'
    BY <1>1, <1>2, <2>1, <2>3 DEF TypeOK
  <2> QED
    BY <1>9, <1>10, <2>3, <2>4, <2>5, <2>6 DEF TurnsCounted
<1>12. CASE k \notin registred
  <2>1. registred' = registred \cup {k} /\ nextOnes' = nextOnes
    BY <1>1, <1>12 DEF Registered
  <2>2. ~BothRegistered(k)' /\ \E d \in Sides(k) : HasRegistered(d, k)'
    <3>1. \A d \in Sides(k) : ~HasRegistered(d, k)
      BY <1>3, <1>12 DEF TurnsCounted, Counted
    <3> QED
      BY <1>3, <1>7, <3>1, TwoSides DEF BothRegistered
  <2>3. OnceEach' /\ HalfAtFront'
    BY <2>1 DEF OnceEach, HalfAtFront, TurnsCounted
  <2>4. Counted(k)'
    BY <1>8, <2>1, <2>2 DEF Counted, Listed
  <2>5. ASSUME NEW j \in Links, j # k PROVE Counted(j)'
    BY <1>4, <1>6, <2>1, <2>5 DEF Counted, TurnsCounted, Listed, ListedAs
  <2>6. TypeOK'
    BY <1>1, <1>2, <2>1 DEF TypeOK
  <2> QED
    BY <1>9, <1>10, <2>3, <2>4, <2>5, <2>6 DEF TurnsCounted
<1> QED
  BY <1>11, <1>12

(* The loops: a context starts over with the couplings it has not made.      *)
LEMMA TurnStep ==
  ASSUME CouplingInv, NEW c \in Contexts, Turn(c)
  PROVE  CouplingInv'
<1> USE DEF CouplingInv
<1>1. PICK p \in {"out", "in", "done"} : Start(c, p)
  BY DEF Turn
<1>2. /\ phase' = [phase EXCEPT ![c] = p] /\ p \in {"out", "in", "done"}
      /\ todo' = [todo EXCEPT ![c] = {k \in lists[c] : Side(c, k) = p}]
      /\ waiting[c] = {}
      /\ UNCHANGED <<registred, nextOnes, toRegister, lists, waiting, channels>>
  BY <1>1 DEF Turn, Start
<1>3. TypeOK'
  <2>1. {k \in lists[c] : Side(c, k) = p} \in SUBSET Links
    BY DEF TypeOK
  <2> QED
    BY <1>2, <2>1 DEF TypeOK
<1>4. TurnsCounted' /\ HalfAtFront'
  <2>1. ASSUME NEW k \in Links, Counted(k) PROVE Counted(k)'
    BY <1>2, <2>1
       DEF Counted, BothRegistered, NoneTook, BothTook, HasRegistered, HasTaken, Listed, ListedAs
  <2>2. OnceEach' /\ HalfAtFront'
    BY <1>2 DEF TurnsCounted, OnceEach, HalfAtFront
  <2> QED
    BY <2>1, <2>2 DEF TurnsCounted
<1>5. MadeTogether'
  BY <1>2 DEF MadeTogether, HasTaken, BothRegistered, HasRegistered
<1>6. AsksForTheRest'
  BY <1>2 DEF AsksForTheRest, TypeOK
<1> QED
  BY <1>3, <1>4, <1>5, <1>6

(* isNextCoupling answers yes: the coupling is the one at the front, and     *)
(* this side had not taken it.                                               *)
LEMMA TakeStep ==
  ASSUME CouplingInv, NEW c \in Contexts, NEW k \in Links, Ask(c, k), IsNext(k)
  PROVE  CouplingInv'
<1> USE DEF CouplingInv
<1>1. /\ waiting[c] = {} /\ k \in todo[c]
      /\ nextOnes' = Taken
      /\ waiting' = [waiting EXCEPT ![c] = {k}]
      /\ todo' = [todo EXCEPT ![c] = {}]
      /\ UNCHANGED <<registred, toRegister, lists, phase, channels>>
  BY DEF Ask, AskFor, FirstOf
<1>2. k \in lists[c] /\ c \in Sides(k) /\ ~HasTaken(c, k)
  BY <1>1 DEF AsksForTheRest, Couplings, HasTaken
<1>3. /\ nextOnes' \in Seq(Links \X {1, 2})
      /\ OnceEach' /\ HalfAtFront' /\ Listed(k)
      /\ ListedAs(k, 1) => ~Listed(k)'
      /\ ListedAs(k, 2) => ListedAs(k, 1)'
      /\ \A j \in Links, n \in {1, 2} : j # k /\ ListedAs(j, n) => ListedAs(j, n)'
      /\ \A j \in Links : ~Listed(j) => ~Listed(j)'
  BY <1>1, TakeListed DEF TurnsCounted
<1>4. BothRegistered(k) /\ ~BothTook(k) /\ Counted(k)
  BY <1>3 DEF TurnsCounted, Counted
<1>5. \A d \in Contexts, j \in Links :
        HasTaken(d, j)' <=> HasTaken(d, j) \/ <<d, j>> = <<c, k>>
  BY <1>1 DEF HasTaken, TypeOK
<1>6. \A j \in Links : /\ BothRegistered(j)' <=> BothRegistered(j)
                       /\ \A d \in Sides(j) : HasRegistered(d, j)' <=> HasRegistered(d, j)
  BY <1>1 DEF BothRegistered, HasRegistered
<1>7. TypeOK'
  BY <1>1, <1>3 DEF TypeOK
<1>8. Counted(k)'
  <2>1. Sides(k) = {c, Other(c, k)} /\ Other(c, k) # c /\ Other(c, k) \in Contexts
    BY <1>2, TwoSides
  <2>2. HasTaken(c, k)' /\ (HasTaken(Other(c, k), k)' <=> HasTaken(Other(c, k), k))
    BY <1>5, <2>1
  <2>3. CASE HasTaken(Other(c, k), k)
    <3>1. ~NoneTook(k) /\ BothTook(k)'
      BY <2>1, <2>2, <2>3 DEF NoneTook, BothTook
    <3>2. ~Listed(k)'
      BY <1>3, <1>4, <3>1 DEF Counted
    <3> QED
      BY <1>1, <1>4, <1>6, <3>1, <3>2 DEF Counted
  <2>4. CASE ~HasTaken(Other(c, k), k)
    <3>1. NoneTook(k) /\ ~NoneTook(k)' /\ ~BothTook(k)'
      BY <1>2, <2>1, <2>2, <2>4 DEF NoneTook, BothTook
    <3>2. ListedAs(k, 1)'
      BY <1>3, <1>4, <3>1 DEF Counted
    <3> QED
      BY <1>1, <1>4, <1>6, <3>1, <3>2 DEF Counted
  <2> QED
    BY <2>3, <2>4
<1>9. ASSUME NEW j \in Links, j # k PROVE Counted(j)'
  <2>1. (NoneTook(j)' <=> NoneTook(j)) /\ (BothTook(j)' <=> BothTook(j))
    BY <1>5, <1>9, TwoSides DEF NoneTook, BothTook
  <2> QED
    BY <1>1, <1>3, <1>6, <1>9, <2>1 DEF Counted, TurnsCounted
<1>10. MadeTogether'
  BY <1>1, <1>2, <1>4, <1>5, <1>6 DEF MadeTogether
<1>11. AsksForTheRest'
  BY <1>1, <1>2 DEF AsksForTheRest, TypeOK
<1> QED
  BY <1>3, <1>7, <1>8, <1>9, <1>10, <1>11 DEF TurnsCounted

(* isNextCoupling answers no.                                                *)
LEMMA PassStep ==
  ASSUME CouplingInv, NEW c \in Contexts, NEW k \in Links, Ask(c, k), ~IsNext(k)
  PROVE  CouplingInv'
<1> USE DEF CouplingInv
<1>1. /\ waiting[c] = {} /\ todo' = [todo EXCEPT ![c] = @ \ {k}]
      /\ UNCHANGED <<registred, nextOnes, toRegister, lists, phase, waiting, channels>>
  BY DEF Ask, AskFor
<1>2. TypeOK'
  BY <1>1 DEF TypeOK
<1>3. TurnsCounted' /\ HalfAtFront'
  <2>1. ASSUME NEW j \in Links, Counted(j) PROVE Counted(j)'
    BY <1>1, <2>1
       DEF Counted, BothRegistered, NoneTook, BothTook, HasRegistered, HasTaken, Listed, ListedAs
  <2>2. OnceEach' /\ HalfAtFront'
    BY <1>1 DEF TurnsCounted, OnceEach, HalfAtFront
  <2> QED
    BY <2>1, <2>2 DEF TurnsCounted
<1>4. MadeTogether'
  BY <1>1 DEF MadeTogether, HasTaken, BothRegistered, HasRegistered
<1>5. AsksForTheRest'
  BY <1>1 DEF AsksForTheRest, TypeOK
<1> QED
  BY <1>2, <1>3, <1>4, <1>5

(* addCouplingChanel: both sides hold the channel, and go on.                *)
LEMMA CreateStep ==
  ASSUME CouplingInv, NEW k \in Links, Create(k)
  PROVE  CouplingInv'
<1> USE DEF CouplingInv
<1>1. /\ \A c \in Sides(k) : waiting[c] = {k}
      /\ waiting' = [c \in Contexts |-> IF c \in Sides(k) THEN {} ELSE waiting[c]]
      /\ channels' = [c \in Contexts |-> IF c \in Sides(k) THEN channels[c] \cup {k} ELSE channels[c]]
      /\ lists' = [c \in Contexts |-> IF c \in Sides(k) THEN lists[c] \ {k} ELSE lists[c]]
      /\ UNCHANGED <<registred, nextOnes, toRegister, phase, todo>>
  BY DEF Create
<1>2. \A c \in Contexts, j \in Links : HasTaken(c, j)' <=> HasTaken(c, j)
  BY <1>1 DEF HasTaken
<1>3. TypeOK'
  BY <1>1 DEF TypeOK
<1>4. TurnsCounted' /\ HalfAtFront'
  <2>1. ASSUME NEW j \in Links PROVE Counted(j)'
    <3>1. (NoneTook(j)' <=> NoneTook(j)) /\ (BothTook(j)' <=> BothTook(j))
      BY <1>2, TwoSides DEF NoneTook, BothTook
    <3>2. Counted(j)
      BY DEF TurnsCounted
    <3> QED
      BY <1>1, <3>1, <3>2 DEF Counted, BothRegistered, HasRegistered, Listed, ListedAs
  <2>2. OnceEach' /\ HalfAtFront'
    BY <1>1 DEF TurnsCounted, OnceEach, HalfAtFront
  <2> QED
    BY <2>1, <2>2 DEF TurnsCounted
<1>5. MadeTogether'
  <2>1. ASSUME NEW c \in Contexts, NEW j \in Links, HasTaken(c, j)'
        PROVE  c \in Sides(j) /\ BothRegistered(j)'
    BY <1>1, <1>2, <2>1 DEF MadeTogether, BothRegistered, HasRegistered
  <2>2. ASSUME NEW c \in Contexts, NEW j \in Links, j \in channels'[c], NEW d \in Sides(j)
        PROVE  j \in channels'[d]
    <3>1. d \in Contexts
      BY TwoSides
    <3>2. CASE j = k
      BY <1>1, <2>2, <3>1, <3>2
    <3>3. CASE j # k
      BY <1>1, <2>2, <3>1, <3>3 DEF MadeTogether
    <3> QED
      BY <3>2, <3>3
  <2> QED
    BY <2>1, <2>2 DEF MadeTogether
<1>6. AsksForTheRest'
  <2> SUFFICES ASSUME NEW c \in Contexts
               PROVE  /\ toRegister'[c] \subseteq Couplings(c)
                      /\ lists'[c] = Couplings(c) \ channels'[c]
                      /\ todo'[c] \subseteq lists'[c] /\ waiting'[c] \subseteq lists'[c]
                      /\ \A i, j \in waiting'[c] : i = j
                      /\ waiting'[c] # {} => todo'[c] = {}
    BY DEF AsksForTheRest, Couplings
  <2>1. CASE c \in Sides(k)
    BY <1>1, <2>1 DEF AsksForTheRest
  <2>2. CASE c \notin Sides(k)
    BY <1>1, <2>2 DEF AsksForTheRest
  <2> QED
    BY <2>1, <2>2
<1> QED
  BY <1>3, <1>4, <1>5, <1>6

(* A coupling that one side has taken and the other not is at the front.     *)
LEMMA HalfIsFront ==
  ASSUME CouplingInv, NEW k \in Links, ~NoneTook(k), ~BothTook(k)
  PROVE  1 \in 1..Len(nextOnes) /\ nextOnes[1][1] = k
<1> USE DEF CouplingInv
<1>1. BothRegistered(k)
  BY TwoSides DEF NoneTook, MadeTogether
<1>2. ListedAs(k, 1)
  BY <1>1 DEF TurnsCounted, Counted
<1>3. PICK i \in 1..Len(nextOnes) : nextOnes[i] = <<k, 1>>
  BY <1>2 DEF ListedAs
<1>4. i = 1
  BY <1>3 DEF HalfAtFront
<1> QED
  BY <1>3, <1>4

(* What a context of a group waits for in vain, its partner waiting for      *)
(* something else, has been taken by one side only.                          *)
LEMMA BlockedByFront ==
  ASSUME CouplingInv, NEW S \in SUBSET Contexts, NEW c \in S, Blocked(c, S)
  PROVE  \E k \in Links : /\ waiting[c] = {k} /\ Other(c, k) \in S
                          /\ waiting[Other(c, k)] \notin {{k}, {}}
                          /\ nextOnes[1][1] = k
<1> USE DEF CouplingInv
<1>1. PICK k \in waiting[c] : /\ Other(c, k) \in S
                              /\ waiting[Other(c, k)] \notin {{k}, {}}
  BY DEF Blocked
<1>2. k \in Links /\ k \in lists[c] /\ waiting[c] = {k} /\ c \in Sides(k)
  BY <1>1 DEF AsksForTheRest, Couplings, TypeOK
<1>3. Other(c, k) \in Sides(k) /\ Other(c, k) \in Contexts
  BY <1>2, TwoSides
<1>4. HasTaken(c, k) /\ ~HasTaken(Other(c, k), k)
  <2>1. k \notin channels[c]
    BY <1>2 DEF AsksForTheRest
  <2>2. k \notin channels[Other(c, k)]
    BY <1>2, <1>3, <2>1 DEF MadeTogether
  <2>3. k \notin waiting[Other(c, k)]
    BY <1>1, <1>3 DEF AsksForTheRest
  <2> QED
    BY <1>2, <2>2, <2>3 DEF HasTaken
<1>5. ~NoneTook(k) /\ ~BothTook(k)
  BY <1>2, <1>3, <1>4 DEF NoneTook, BothTook
<1> QED
  BY <1>1, <1>2, <1>5, HalfIsFront

(* If every context of a group were blocked, two of them would wait for      *)
(* different couplings, both at the front.                                   *)
LEMMA NobodyInACircle == CouplingInv => NoCircularWait
<1> SUFFICES ASSUME CouplingInv PROVE NoCircularWait
  OBVIOUS
<1> SUFFICES ASSUME NEW S \in (SUBSET Contexts) \ {{}}, \A c \in S : Blocked(c, S)
             PROVE  FALSE
  BY DEF NoCircularWait
<1>a. S \in SUBSET Contexts /\ S # {}
  OBVIOUS
<1>1. PICK c \in S : TRUE
  BY <1>a
<1>2. PICK k \in Links : /\ waiting[c] = {k} /\ Other(c, k) \in S
                         /\ waiting[Other(c, k)] \notin {{k}, {}}
                         /\ nextOnes[1][1] = k
  BY <1>a, <1>1, BlockedByFront
<1>3. PICK j \in Links : waiting[Other(c, k)] = {j} /\ nextOnes[1][1] = j
  BY <1>a, <1>2, BlockedByFront
<1> QED
  BY <1>2, <1>3

(* Every step keeps the invariant; so does none.                             *)
LEMMA NextInv == CouplingInv /\ [Next]_vars => CouplingInv'
<1> SUFFICES ASSUME CouplingInv, [Next]_vars PROVE CouplingInv'
  OBVIOUS
<1>1. ASSUME NEW c \in Contexts, Step(c) PROVE CouplingInv'
  BY <1>1, RegisterStep, TurnStep, TakeStep, PassStep DEF Step
<1>2. ASSUME NEW k \in Links, Create(k) PROVE CouplingInv'
  BY <1>2, CreateStep
<1>3. CASE UNCHANGED vars
  <2> USE <1>3 DEF CouplingInv, vars
  <2>1. TypeOK'
    BY DEF TypeOK
  <2>2. ASSUME NEW k \in Links, Counted(k) PROVE Counted(k)'
    BY <2>2
       DEF Counted, BothRegistered, NoneTook, BothTook, HasRegistered, HasTaken, Listed, ListedAs
  <2>3. OnceEach' /\ HalfAtFront'
    BY DEF TurnsCounted, OnceEach, HalfAtFront
  <2>4. MadeTogether'
    BY DEF MadeTogether, HasTaken, BothRegistered, HasRegistered
  <2>5. AsksForTheRest'
    BY DEF AsksForTheRest
  <2> QED
    BY <2>1, <2>2, <2>3, <2>4, <2>5 DEF TurnsCounted
<1> QED
  BY <1>1, <1>2, <1>3 DEF Next

(* The manager's list, the registrations and what the contexts have taken    *)
(* always agree, for any contexts and couplings (coupler_manager.cpp:38-82). *)
THEOREM CouplingExact == Spec => []CouplingInv
<1>1. Init /\ [][Next]_vars => []CouplingInv
  BY InitInv, NextInv, PTL
<1> QED
  BY <1>1, PTL DEF Spec

(* Whatever the contexts and the couplings between them, contexts never wait *)
(* for each other in a circle, and none spends or repeats the turn of its    *)
(* partner (coupler_manager.cpp:71).                                         *)
THEOREM NeverInACircle == Spec => []CouplingsInOrder
<1>1. CouplingInv => CouplingsInOrder
  BY NobodyInACircle DEF CouplingsInOrder, CouplingInv
<1> QED
  BY <1>1, CouplingExact, PTL
=============================================================================
