------------------------ MODULE ThreadManager_proofs ------------------------
(* Proofs about ThreadManager for any set of threads: the ring stays one     *)
(* ring, the turn is never lost nor doubled, and no wake-up is lost.         *)
EXTENDS ThreadManager, TLAPS

(* The ring is that of the threads and links it is made of.                  *)
LEMMA RingKept ==
  ASSUME OneRing, Linked' = Linked,
         \A t \in Linked : next'[t] = next[t] /\ previous'[t] = previous[t]
  PROVE  OneRing'
<1>1. Inverse'
  BY DEF OneRing, Inverse
<1>2. ASSUME NEW part \in SUBSET Linked, part # {}, Closed(part)'
      PROVE  part = Linked
  <2>1. Closed(part)
    BY <1>2 DEF Closed
  <2> QED
    BY <1>2, <2>1 DEF OneRing, Unbroken
<1>3. Unbroken'
  BY <1>2 DEF Unbroken
<1> QED
  BY <1>1, <1>3 DEF OneRing

(* A thread that follows itself is alone.                                    *)
LEMMA AloneWhenOwnNext ==
  ASSUME OneRing, NEW t \in Linked, next[t] = t
  PROVE  Linked = {t}
<1>1. Closed({t})
  BY DEF Closed
<1> QED
  BY <1>1 DEF OneRing, Unbroken

(* Before anything is spawned, the main thread has the turn.                  *)
LEMMA InitInv == Init => TurnInv
<1> SUFFICES ASSUME Init PROVE TurnInv
  OBVIOUS
<1> USE MainAssumption
<1>1. TypeOK
  BY DEF Init, TypeOK, States
<1>2. Linked = {Main}
  BY DEF Init, Linked
<1>3. Inverse
  BY <1>2 DEF Init, Inverse
<1>4. Unbroken
  BY <1>2 DEF Unbroken
<1>5. Starting = {Main} /\ Notified = {}
  BY DEF Init, Starting, Notified
<1>6. OneTurn
  BY <1>5 DEF OneTurn
<1>7. NoLostWakeUp /\ ParentWaits
  BY DEF Init, NoLostWakeUp, ParentWaits
<1> QED
  BY <1>1, <1>2, <1>3, <1>4, <1>6, <1>7 DEF TurnInv, OneRing

(* While a thread runs, nobody else does, starts or is notified.             *)
LEMMA RunsAlone ==
  ASSUME TurnInv, NEW t \in Threads, state[t] = "running"
  PROVE  /\ Starting = {t} /\ Notified = {}
         /\ t \in Linked
         /\ \A x \in Threads : isNotified[x] = FALSE
         /\ \A x \in Threads \ {t} : state[x] \notin {"running", "new"}
<1>1. t \in Starting /\ t \in Linked
  BY DEF Starting, Linked
<1>2. Starting \cap Notified = {} /\ \E h \in Threads : Starting \cup Notified = {h}
  BY DEF TurnInv, OneTurn
<1>3. Starting = {t} /\ Notified = {}
  BY <1>1, <1>2
<1>4. \A x \in Threads : isNotified[x] = FALSE
  BY <1>3 DEF Notified, TurnInv, TypeOK
<1>5. \A x \in Threads \ {t} : state[x] \notin {"running", "new"}
  BY <1>3 DEF Starting
<1> QED
  BY <1>1, <1>3, <1>4, <1>5

(* spawnThread: the child is put in the ring after its parent and has the    *)
(* turn; the parent waits.                                                   *)
LEMMA SpawnStep ==
  ASSUME TurnInv, NEW t \in Threads, NEW n \in Threads, SpawnThread(t, n)
  PROVE  TurnInv'
<1> USE DEF TurnInv
<1>1. /\ state[t] = "running" /\ state[n] = "none" /\ n # t
      /\ next' = [next EXCEPT ![n] = next[t], ![t] = n]
      /\ previous' = [previous EXCEPT ![n] = t, ![next[t]] = n]
      /\ state' = [state EXCEPT ![n] = "new", ![t] = "waiting"]
      /\ isNotified' = isNotified
  BY DEF SpawnThread, NextAfterSpawn, PreviousAfterSpawn
<1>2. /\ Starting = {t} /\ Notified = {} /\ t \in Linked
      /\ \A x \in Threads : isNotified[x] = FALSE
      /\ \A x \in Threads \ {t} : state[x] \notin {"running", "new"}
  BY <1>1, RunsAlone
<1>3. n \notin Linked /\ next[t] \in Linked /\ next[t] # n
  BY <1>1, <1>2 DEF Linked, OneRing, Inverse
<1>4. Linked' = Linked \cup {n}
  BY <1>1 DEF Linked, TypeOK
<1>5. TypeOK'
  <2>1. state' \in [Threads -> States] /\ isNotified' \in [Threads -> BOOLEAN]
    BY <1>1 DEF TypeOK, States
  <2>2. next[t] \in Threads
    BY <1>3 DEF Linked
  <2>3. /\ next' \in [Threads -> Threads \cup {None}]
        /\ previous' \in [Threads -> Threads \cup {None}]
    BY <1>1, <2>2 DEF TypeOK
  <2>4. ASSUME NEW x \in Threads
        PROVE  /\ state'[x] = "none" <=> next'[x] = None
               /\ state'[x] = "none" <=> previous'[x] = None
    <3>1. n # None /\ t # None /\ next[t] # None
      BY <2>2, MainAssumption
    <3>2. state[next[t]] # "none"
      BY <1>3 DEF Linked
    <3> QED
      BY <1>1, <2>2, <3>1, <3>2 DEF TypeOK
  <2> QED
    BY <2>1, <2>3, <2>4 DEF TypeOK
<1>6. OneTurn'
  <2>1. Starting' = {n}
    BY <1>1, <1>2 DEF Starting, TypeOK
  <2>2. Notified' = {}
    BY <1>1, <1>2 DEF Notified
  <2> QED
    BY <2>1, <2>2 DEF OneTurn
<1>7. NoLostWakeUp'
  BY <1>1, <1>2 DEF NoLostWakeUp
<1>8. Inverse'
  <2>1. ASSUME NEW x \in Linked'
        PROVE  /\ next'[x] \in Linked' /\ previous'[next'[x]] = x
               /\ previous'[x] \in Linked' /\ next'[previous'[x]] = x
    <3>1. CASE x = n
      BY <3>1, <1>1, <1>2, <1>3, <1>4 DEF TypeOK, Linked
    <3>2. CASE x = t
      BY <3>2, <1>1, <1>2, <1>3, <1>4 DEF TypeOK, Linked, OneRing, Inverse
    <3>3. CASE x # n /\ x # t
      BY <3>3, <1>1, <1>2, <1>3, <1>4 DEF TypeOK, Linked, OneRing, Inverse
    <3> QED
      BY <3>1, <3>2, <3>3
  <2> QED
    BY <2>1 DEF Inverse
<1>9. Unbroken'
  <2>1. ASSUME NEW part \in SUBSET (Linked \cup {n}), part # {}, Closed(part)'
        PROVE  part = Linked \cup {n}
    <3>1. Closed(part \ {n})
      BY <2>1, <1>1, <1>3 DEF Closed, OneRing, Inverse, TypeOK, Linked
    <3>2. part \ {n} # {}
      BY <2>1, <1>1, <1>3 DEF Closed, TypeOK
    <3>3. part \ {n} = Linked
      BY <2>1, <3>1, <3>2 DEF OneRing, Unbroken
    <3>4. n \in part
      BY <2>1, <3>3, <1>1, <1>2 DEF Closed, TypeOK
    <3> QED
      BY <2>1, <3>3, <3>4
  <2> QED
    BY <2>1, <1>4 DEF Unbroken
<1>10. ParentWaits'
  BY <1>1, <1>2 DEF ParentWaits, TypeOK
<1> QED
  BY <1>4, <1>5, <1>6, <1>7, <1>8, <1>9, <1>10 DEF OneRing

(* threadInitialize: the turn goes back to the parent, which waits.          *)
LEMMA InitializeStep ==
  ASSUME TurnInv, NEW n \in Threads, ThreadInitialize(n)
  PROVE  TurnInv'
<1> USE DEF TurnInv
<1> DEFINE p == previous[n]
<1>1. /\ state[n] = "new" /\ n \in Linked /\ n \in Starting
      /\ p \in Linked /\ p \in Threads /\ p # n
      /\ state[p] \in {"waiting", "woken"}
  BY DEF ThreadInitialize, Linked, Starting, OneRing, Inverse, ParentWaits
<1>2. Starting = {n} /\ Notified = {}
  BY <1>1 DEF OneTurn
<1>3. /\ isNotified' = [isNotified EXCEPT ![p] = TRUE]
      /\ state' = [state EXCEPT ![n] = "waiting", ![p] = "woken"]
      /\ next' = next /\ previous' = previous
  BY <1>1 DEF ThreadInitialize, Awake, TypeOK
<1>4. Linked' = Linked
  BY <1>1, <1>3 DEF Linked, TypeOK
<1>5. TypeOK'
  BY <1>1, <1>3 DEF TypeOK, States
<1>6. Starting' = {} /\ Notified' = {p}
  BY <1>1, <1>2, <1>3 DEF Starting, Notified, TypeOK
<1>7. OneTurn'
  BY <1>1, <1>6 DEF OneTurn
<1>8. NoLostWakeUp'
  BY <1>1, <1>2, <1>3 DEF NoLostWakeUp, Notified, TypeOK
<1>9. OneRing'
  BY <1>3, <1>4, RingKept
<1>10. ParentWaits'
  BY <1>6 DEF ParentWaits, Starting
<1> QED
  BY <1>4, <1>5, <1>7, <1>8, <1>9, <1>10

(* yield: finished threads are joined; the turn goes to the next thread,     *)
(* which is another one whenever any other is left.                          *)
LEMMA YieldStep ==
  ASSUME TurnInv, NEW t \in Threads, Yield(t)
  PROVE  TurnInv'
<1> USE DEF TurnInv
<1> DEFINE erased == [x \in Threads |-> IF x \in Joined THEN "none" ELSE state[x]]
           others == {x \in Threads \ {t} : erased[x] # "none"}
<1>1. /\ state[t] = "running"
      /\ IF others = {}
           THEN state' = erased /\ isNotified' = isNotified
           ELSE /\ isNotified' = [isNotified EXCEPT ![next[t]] = TRUE]
                /\ state' = [Awake(erased, next[t]) EXCEPT ![t] = "waiting"]
      /\ next' = [x \in Threads |-> IF x \in Joined THEN None ELSE next[x]]
      /\ previous' = [x \in Threads |-> IF x \in Joined THEN None ELSE previous[x]]
  BY DEF Yield
<1>2. /\ Starting = {t} /\ Notified = {} /\ t \in Linked
      /\ \A x \in Threads : isNotified[x] = FALSE
      /\ \A x \in Threads \ {t} : state[x] \notin {"running", "new"}
  BY <1>1, RunsAlone
<1>3. /\ \A x \in Threads : x \in Linked <=> erased[x] # "none"
      /\ \A x \in Linked : x \notin Joined /\ erased[x] = state[x]
      /\ \A x \in Threads : erased[x] = "none" <=> x \in Joined \/ state[x] = "none"
  BY DEF Joined, Finished, Linked, TypeOK, States
<1>4. next[t] \in Linked /\ next[t] \in Threads
  BY <1>2 DEF OneRing, Inverse, Linked
<1>5. ASSUME others # {}
      PROVE  /\ next[t] # t
             /\ state' = [erased EXCEPT ![next[t]] = "woken", ![t] = "waiting"]
  <2>1. next[t] # t
    BY <1>2, <1>3, <1>5, AloneWhenOwnNext
  <2>2. state[next[t]] \in {"waiting", "woken"}
    BY <2>1, <1>2, <1>4 DEF Linked
  <2>3. erased[next[t]] \in {"waiting", "woken"}
    BY <2>2, <1>3, <1>4
  <2> HIDE DEF erased
  <2>4. Awake(erased, next[t]) = [erased EXCEPT ![next[t]] = "woken"]
    BY <2>3 DEF Awake, erased
  <2> QED
    BY <2>1, <2>4, <1>1, <1>5
<1>6. \A x \in Threads : state'[x] = "none" <=> erased[x] = "none"
  <2>1. CASE others = {}
    BY <2>1, <1>1
  <2>2. CASE others # {}
    BY <2>2, <1>2, <1>3, <1>4, <1>5
  <2> QED
    BY <2>1, <2>2
<1>7. state' \in [Threads -> States]
  <2>0. erased \in [Threads -> States]
    BY DEF TypeOK, States
  <2>1. CASE others = {}
    BY <2>0, <2>1, <1>1
  <2>2. CASE others # {}
    <3> HIDE DEF erased
    <3> QED
      BY <2>0, <2>2, <1>5 DEF States
  <2> QED
    BY <2>1, <2>2
<1>8. \A x \in Threads : state'[x] \notin {"closing", "exited"}
  <2>0. /\ erased \in [Threads -> States]
        /\ \A x \in Threads : erased[x] \notin {"closing", "exited"}
    BY DEF Joined, Finished, TypeOK, States
  <2>1. CASE others = {}
    BY <2>0, <2>1, <1>1
  <2>2. CASE others # {}
    <3> HIDE DEF erased
    <3> QED
      BY <2>0, <2>2, <1>5, <1>4
  <2> QED
    BY <2>1, <2>2
<1>9. Linked' = Linked
  BY <1>3, <1>6, <1>7, <1>8 DEF Linked, States
<1>10. TypeOK'
  <2>1. isNotified' \in [Threads -> BOOLEAN]
    BY <1>1 DEF TypeOK
  <2>2. /\ next' \in [Threads -> Threads \cup {None}]
        /\ previous' \in [Threads -> Threads \cup {None}]
    BY <1>1 DEF TypeOK
  <2>3. ASSUME NEW x \in Threads
        PROVE  /\ state'[x] = "none" <=> next'[x] = None
               /\ state'[x] = "none" <=> previous'[x] = None
    BY <1>1, <1>3, <1>6 DEF TypeOK
  <2> QED
    BY <1>7, <2>1, <2>2, <2>3 DEF TypeOK
<1>11. OneTurn' /\ NoLostWakeUp' /\ ParentWaits'
  <2>1. CASE others = {}
    <3>1. \A x \in Threads : state'[x] = erased[x] /\ isNotified'[x] = FALSE
      BY <2>1, <1>1, <1>2
    <3>2. Starting' = {t} /\ Notified' = {}
      BY <3>1, <1>2, <1>3 DEF Starting, Notified
    <3>3. OneTurn' /\ NoLostWakeUp'
      BY <3>1, <3>2 DEF OneTurn, NoLostWakeUp
    <3>4. \A x \in Threads : state'[x] # "new"
      BY <3>1, <1>1, <1>2, <1>3
    <3> QED
      BY <3>3, <3>4 DEF ParentWaits
  <2>2. CASE others # {}
    <3>1. Notified' = {next[t]}
      BY <2>2, <1>1, <1>2, <1>4 DEF Notified, TypeOK
    <3>2. \A x \in Threads \ {t, next[t]} : state'[x] = erased[x]
      BY <2>2, <1>5
    <3>3. state'[t] = "waiting" /\ state'[next[t]] = "woken"
      BY <2>2, <1>4, <1>5
    <3>4. Starting' = {}
      BY <3>2, <3>3, <1>2, <1>3 DEF Starting, Joined
    <3> QED
      BY <3>1, <3>3, <3>4, <1>4 DEF OneTurn, NoLostWakeUp, ParentWaits, Starting, Notified
  <2> QED
    BY <2>1, <2>2
<1>12. OneRing'
  <2>1. \A x \in Linked : next'[x] = next[x] /\ previous'[x] = previous[x]
    BY <1>1, <1>3 DEF Linked
  <2> QED
    BY <2>1, <1>9, RingKept
<1> QED
  BY <1>9, <1>10, <1>11, <1>12

(* threadFinalize: the thread leaves the ring, and the turn goes to the one  *)
(* that followed it, which is another since the main thread stays.           *)
LEMMA FinalizeStep ==
  ASSUME TurnInv, NEW t \in Threads, ThreadFinalize(t)
  PROVE  TurnInv'
<1> USE DEF TurnInv
<1> DEFINE n == next[t]
           p == previous[t]
<1>1. /\ state[t] = "running" /\ t # Main
      /\ next' = [next EXCEPT ![p] = n]
      /\ previous' = [previous EXCEPT ![n] = p]
      /\ isNotified' = [isNotified EXCEPT ![n] = TRUE]
      /\ state' = Awake([state EXCEPT ![t] = "closing"], n)
  BY DEF ThreadFinalize, NextAfterEnd, PreviousAfterEnd
<1>2. /\ Starting = {t} /\ Notified = {} /\ t \in Linked
      /\ \A x \in Threads : isNotified[x] = FALSE
      /\ \A x \in Threads \ {t} : state[x] \notin {"running", "new"}
  BY <1>1, RunsAlone
<1>3. /\ n \in Linked /\ n \in Threads /\ previous[n] = t
      /\ p \in Linked /\ p \in Threads /\ next[p] = t
  BY <1>2 DEF OneRing, Inverse, Linked
<1>4. n # t /\ p # t
  BY <1>1, <1>2, <1>3, AloneWhenOwnNext
<1>5. state[n] \in {"waiting", "woken"}
  BY <1>2, <1>3, <1>4 DEF Linked
<1>6. state' = [state EXCEPT ![t] = "closing", ![n] = "woken"]
  BY <1>1, <1>3, <1>4, <1>5 DEF Awake, TypeOK
<1>7. Linked' = Linked \ {t}
  BY <1>3, <1>4, <1>5, <1>6 DEF Linked, TypeOK
<1>8. TypeOK'
  <2>1. n # None /\ p # None /\ state[p] # "none" /\ state[n] # "none"
    BY <1>3, MainAssumption DEF Linked
  <2>2. /\ next' \in [Threads -> Threads \cup {None}]
        /\ previous' \in [Threads -> Threads \cup {None}]
        /\ isNotified' \in [Threads -> BOOLEAN]
        /\ state' \in [Threads -> States]
    BY <1>1, <1>3, <1>6 DEF TypeOK, States
  <2>3. ASSUME NEW x \in Threads
        PROVE  /\ state'[x] = "none" <=> next'[x] = None
               /\ state'[x] = "none" <=> previous'[x] = None
    BY <2>1, <1>1, <1>3, <1>6 DEF TypeOK
  <2> QED
    BY <2>2, <2>3 DEF TypeOK
<1>9. Starting' = {} /\ Notified' = {n}
  <2>1. Starting' = {}
    <3>1. \A x \in Threads : state'[x] \notin {"running", "new"}
      BY <1>2, <1>3, <1>4, <1>6 DEF TypeOK
    <3> QED
      BY <3>1 DEF Starting
  <2>2. Notified' = {n}
    <3>1. \A x \in Threads : isNotified'[x] <=> x = n
      BY <1>1, <1>2, <1>3 DEF TypeOK
    <3> QED
      BY <3>1, <1>3 DEF Notified
  <2> QED
    BY <2>1, <2>2
<1>10. OneTurn' /\ ParentWaits'
  BY <1>3, <1>9 DEF OneTurn, ParentWaits, Starting
<1>11. NoLostWakeUp'
  BY <1>3, <1>4, <1>6, <1>9 DEF NoLostWakeUp, Notified, TypeOK
<1>12. Inverse'
  <2>1. ASSUME NEW x \in Linked \ {t}
        PROVE  /\ next'[x] \in Linked \ {t} /\ previous'[next'[x]] = x
               /\ previous'[x] \in Linked \ {t} /\ next'[previous'[x]] = x
    <3>0. x \in Threads /\ next[x] \in Threads /\ previous[x] \in Threads
      BY DEF OneRing, Inverse, Linked
    <3>1. /\ next'[x] \in Linked \ {t} /\ previous'[next'[x]] = x
      <4>1. CASE x = p
        BY <4>1, <1>1, <1>3, <1>4 DEF TypeOK
      <4>2. CASE x # p
        BY <4>2, <3>0, <1>1, <1>2, <1>3 DEF TypeOK, OneRing, Inverse
      <4> QED
        BY <4>1, <4>2
    <3>2. /\ previous'[x] \in Linked \ {t} /\ next'[previous'[x]] = x
      <4>1. CASE x = n
        BY <4>1, <1>1, <1>3, <1>4 DEF TypeOK
      <4>2. CASE x # n
        BY <4>2, <3>0, <1>1, <1>2, <1>3 DEF TypeOK, OneRing, Inverse
      <4> QED
        BY <4>1, <4>2
    <3> QED
      BY <3>1, <3>2
  <2> QED
    BY <2>1, <1>7 DEF Inverse
<1>13. Unbroken'
  <2>1. ASSUME NEW part \in SUBSET (Linked \ {t}), part # {}, Closed(part)'
        PROVE  part = Linked \ {t}
    <3> DEFINE whole == IF p \in part THEN part \cup {t} ELSE part
    <3>1. \A x \in part : x \in Threads /\ next'[x] \in part
      BY <2>1 DEF Closed, Linked
    <3>2. ASSUME NEW x \in whole
          PROVE  next[x] \in whole
      <4>1. CASE x = t
        BY <4>1, <2>1, <3>1, <1>1, <1>3 DEF TypeOK
      <4>2. CASE x = p
        BY <4>2, <2>1, <1>3, <1>4
      <4>3. CASE x # t /\ x # p
        BY <4>3, <3>1, <1>1 DEF TypeOK
      <4> QED
        BY <4>1, <4>2, <4>3
    <3>3. whole \in SUBSET Linked /\ whole # {} /\ Closed(whole)
      BY <2>1, <3>2, <1>2 DEF Closed
    <3>4. whole = Linked
      BY <3>3 DEF OneRing, Unbroken
    <3> QED
      BY <2>1, <3>4
  <2> QED
    BY <2>1, <1>7 DEF Unbroken
<1> QED
  BY <1>1, <1>7, <1>8, <1>10, <1>11, <1>12, <1>13 DEF OneRing

(* A thread leaves the process, or its wait, or waits on.                    *)
LEMMA WakingStep ==
  ASSUME TurnInv, NEW t \in Threads, Exit(t) \/ SpuriousWakeUp(t) \/ WaitReturns(t)
  PROVE  TurnInv'
<1> USE DEF TurnInv
<1>1. /\ next' = next /\ previous' = previous
      /\ \/ /\ state[t] = "closing" /\ isNotified' = isNotified
            /\ state' = [state EXCEPT ![t] = "exited"]
         \/ /\ state[t] = "waiting" /\ isNotified' = isNotified
            /\ state' = [state EXCEPT ![t] = "woken"]
         \/ /\ state[t] = "woken" /\ \A x \in Threads : state[x] # "running"
            /\ isNotified' = [isNotified EXCEPT ![t] = FALSE]
            /\ state' = [state EXCEPT ![t] = IF isNotified[t] THEN "running" ELSE "waiting"]
  BY DEF Exit, SpuriousWakeUp, WaitReturns, MutexFree, HasTurn
<1>2. state' \in [Threads -> States] /\ isNotified' \in [Threads -> BOOLEAN]
  BY <1>1 DEF TypeOK, States
<1>3. \A x \in Threads : state'[x] = "none" <=> state[x] = "none"
  BY <1>1 DEF TypeOK
<1>4. TypeOK'
  BY <1>1, <1>2, <1>3 DEF TypeOK
<1>5. Linked' = Linked
  BY <1>1 DEF Linked, TypeOK
<1>6. OneRing'
  BY <1>1, <1>5, RingKept
<1>7. OneTurn' /\ NoLostWakeUp' /\ ParentWaits'
  <2>1. CASE isNotified' = isNotified
    <3>1. Starting' = Starting /\ Notified' = Notified
      BY <2>1, <1>1 DEF Starting, Notified, TypeOK
    <3>2. NoLostWakeUp'
      BY <2>1, <1>1 DEF NoLostWakeUp, TypeOK
    <3>3. ParentWaits'
      BY <2>1, <1>1, <1>3 DEF ParentWaits, TypeOK
    <3> QED
      BY <3>1, <3>2, <3>3 DEF OneTurn
  <2>2. CASE isNotified' # isNotified
    <3>0. isNotified[t] # TRUE => [isNotified EXCEPT ![t] = FALSE] = isNotified
      BY DEF TypeOK
    <3>1. /\ state[t] = "woken" /\ isNotified[t] = TRUE
          /\ isNotified' = [isNotified EXCEPT ![t] = FALSE]
          /\ state' = [state EXCEPT ![t] = "running"]
      BY <2>2, <3>0, <1>1
    <3>2. Notified = {t} /\ Starting = {}
      BY <3>1 DEF OneTurn, Notified
    <3>3. Notified' = {} /\ Starting' = {t}
      BY <3>1, <3>2 DEF Notified, Starting, TypeOK
    <3> QED
      BY <3>1, <3>3 DEF OneTurn, NoLostWakeUp, ParentWaits, Notified, Starting, TypeOK
  <2> QED
    BY <2>1, <2>2
<1> QED
  BY <1>4, <1>5, <1>6, <1>7

(* Every step keeps the invariant.                                           *)
LEMMA NextInv == TurnInv /\ [Next]_vars => TurnInv'
<1> SUFFICES ASSUME TurnInv, [Next]_vars PROVE TurnInv'
  OBVIOUS
<1>1. ASSUME NEW t \in Threads, NEW n \in Threads, SpawnThread(t, n) PROVE TurnInv'
  BY <1>1, SpawnStep
<1>2. ASSUME NEW t \in Threads, ThreadInitialize(t) PROVE TurnInv'
  BY <1>2, InitializeStep
<1>3. ASSUME NEW t \in Threads, Yield(t) PROVE TurnInv'
  BY <1>3, YieldStep
<1>4. ASSUME NEW t \in Threads, ThreadFinalize(t) PROVE TurnInv'
  BY <1>4, FinalizeStep
<1>5. ASSUME NEW t \in Threads, Exit(t) \/ SpuriousWakeUp(t) \/ WaitReturns(t)
      PROVE  TurnInv'
  BY <1>5, WakingStep
<1>6. CASE UNCHANGED vars
  <2> USE <1>6 DEF vars, TurnInv
  <2>1. TypeOK' /\ NoLostWakeUp' /\ ParentWaits'
    BY DEF TypeOK, NoLostWakeUp, ParentWaits
  <2>2. Starting' = Starting /\ Notified' = Notified /\ Linked' = Linked
    BY DEF Starting, Notified, Linked
  <2>3. OneRing'
    BY <2>2, RingKept
  <2> QED
    BY <2>1, <2>2, <2>3 DEF OneTurn
<1> QED
  BY <1>1, <1>2, <1>3, <1>4, <1>5, <1>6 DEF Next

(* The ring, the turn and the parents that wait stay consistent in every     *)
(* reachable state, for any set of threads.                                  *)
THEOREM TurnInvariant == Spec => []TurnInv
BY InitInv, NextInv, PTL DEF Spec

(* Every variable keeps its type: a thread has links exactly while it is in  *)
(* threads_.                                                                 *)
THEOREM TypeCorrect == Spec => []TypeOK
<1>1. TurnInv => TypeOK
  BY DEF TurnInv
<1> QED
  BY <1>1, TurnInvariant, PTL

(* The turn of CThreadManager is never lost nor doubled.                     *)
THEOREM OneTurnEver == Spec => []OneTurn
<1>1. TurnInv => OneTurn
  BY DEF TurnInv
<1> QED
  BY <1>1, TurnInvariant, PTL

(* A notification never meets a thread that has not yet left its wait.       *)
THEOREM WakeUpsReceived == Spec => []NoLostWakeUp
<1>1. TurnInv => NoLostWakeUp
  BY DEF TurnInv
<1> QED
  BY <1>1, TurnInvariant, PTL

(* The links always form one ring of exactly the unfinished threads.         *)
THEOREM RingUnbroken == Spec => []OneRing
<1>1. TurnInv => OneRing
  BY DEF TurnInv
<1> QED
  BY <1>1, TurnInvariant, PTL
=============================================================================
