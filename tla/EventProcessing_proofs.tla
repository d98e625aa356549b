----------------------- MODULE EventProcessing_proofs -----------------------
(* Proofs about EventProcessing for any ranks, contexts, forwarding contexts *)
(* and number of events: the collective calls of two contexts never cross,   *)
(* and what the ranks announce, order and pop is the order of EventOrder.    *)
(* Then about EventAssembly for any clients, servers, scripts and buffers:   *)
(* clients that disagree are found out, and of those that agree every event  *)
(* is handled whole.                                                         *)
EXTENDS EventProcessing, FiniteSetTheorems, SequenceTheorems, TLAPS

(* The keys are those of the events and those of the calls of synchronize.   *)
LEMMA KeysAre ==
  /\ \A c \in Contexts, t \in Timelines :
       <<"event", c, t>> \in Keys /\ <<"sync", c, t>> \in Keys
  /\ \A key \in Keys : \E c \in Contexts, t \in Timelines :
       key = <<"event", c, t>> \/ key = <<"sync", c, t>>
BY DEF Keys

(* The abstract specification counts with the Cardinality of FiniteSets.     *)
LEMMA SameCardinality == \A S : Scheduler!Cardinality(S) = Cardinality(S)
BY DEF Scheduler!Cardinality, Cardinality

(* Popping the next of the order adds just that to what a rank has popped.   *)
LEMMA PopNext ==
  ASSUME TypeOK, NEW r \in Ranks, Scheduler!Take(r)
  PROVE  \A s \in Ranks, key \in Keys :
           Popped(s, key)' <=> \/ Popped(s, key)
                               \/ s = r /\ key = order[taken[r] + 1]
<1>1. taken' = [taken EXCEPT ![r] = @ + 1] /\ order' = order
  BY DEF Scheduler!Take
<1>2. taken \in [Ranks -> Nat]
  BY DEF TypeOK
<1> TAKE s \in Ranks, key \in Keys
<1>3. CASE s = r
  <2>1. 1 .. taken'[r] = (1 .. taken[r]) \cup {taken[r] + 1}
    BY <1>1, <1>2
  <2> QED
    BY <1>1, <1>3, <2>1 DEF Popped
<1>4. CASE s # r
  BY <1>1, <1>2, <1>4 DEF Popped
<1> QED
  BY <1>3, <1>4

(* Nothing is announced, and no handler has begun.                           *)
LEMMA InitInv == Init => ProcessingInv
<1> SUFFICES ASSUME Init PROVE ProcessingInv
  OBVIOUS
<1> USE ContextsAssumption
<1>1. TypeOK
  BY DEF Init, Each, Scheduler!Init, TypeOK, Blocking, Yielding
<1>2. ASSUME NEW r \in Ranks, NEW c \in Contexts
      PROVE  /\ currentTimeLine[r][c] = 1 /\ ~scheduled[r][c] /\ ~eventScheduled[r][c]
             /\ barriers[r][c] = 0 /\ collectives[r][c] = 0 /\ phase[r][c] = "idle"
  BY DEF Init, Each
<1>3. order = <<>> /\ \A r \in Ranks : taken[r] = 0
  BY DEF Init, Scheduler!Init
<1>4. \A r \in Ranks, key \in Keys : announced[r][key] = 0
  BY DEF Init, Scheduler!Init
<1>5. AnnouncedExactly
  <2> SUFFICES ASSUME NEW r \in Ranks, NEW c \in Contexts, NEW t \in Timelines
               PROVE  /\ announced[r][<<"event", c, t>>] =
                           IF AnnouncedEvent(r, c, t) THEN 1 ELSE 0
                      /\ announced[r][<<"sync", c, t>>] =
                           IF AnnouncedSync(r, c, t) THEN 1 ELSE 0
    BY DEF AnnouncedExactly
  <2>1. ~AnnouncedEvent(r, c, t) /\ ~AnnouncedSync(r, c, t)
    BY <1>2 DEF AnnouncedEvent, AnnouncedSync, Timelines
  <2> QED
    BY <2>1, <1>4, KeysAre
<1>6. TakenExactly
  BY <1>2, <1>3 DEF TakenExactly, Popped, TookEvent, TookSync, Timelines
<1>7. ChosenByAll
  BY <1>3 DEF ChosenByAll
<1>8. ASSUME NEW r \in Ranks, NEW c \in Contexts
      PROVE  InStep(r, c) /\ BlockedByLast(r, c) /\ BarrierPassed(r, c)
  BY <1>2 DEF InStep, BlockedByLast, BarrierPassed
<1> QED
  BY <1>1, <1>5, <1>6, <1>7, <1>8 DEF ProcessingInv

(* Announcing a key not announced yet changes just that.                     *)
LEMMA AnnounceOnce ==
  ASSUME TypeOK, NEW r \in Ranks, NEW key \in Keys,
         announced[r][key] = 0, Scheduler!Announce(r, key)
  PROVE  /\ announced' \in [Ranks -> [Keys -> 0 .. 1]]
         /\ order' = order /\ taken' = taken
         /\ \A s \in Ranks, k \in Keys :
              announced'[s][k] = IF s = r /\ k = key THEN 1 ELSE announced[s][k]
BY DEF TypeOK, Scheduler!Announce

(* What was chosen was announced, and an announcement is never taken back.   *)
LEMMA ChosenKept ==
  ASSUME TypeOK, ChosenByAll, order' = order, taken' = taken,
         announced' \in [Ranks -> [Keys -> 0 .. 1]],
         \A s \in Ranks, k \in Keys : announced'[s][k] >= announced[s][k]
  PROVE  ChosenByAll'
<1>1. ASSUME NEW i \in 1 .. Len(order), NEW s \in Ranks
      PROVE  announced'[s][order[i]] = 1
  <2>1. order[i] \in Keys
    BY DEF TypeOK
  <2>2. announced[s][order[i]] = 1
    BY DEF ChosenByAll
  <2>3. announced'[s][order[i]] \in 0 .. 1
    BY <2>1
  <2> QED
    BY <2>1, <2>2, <2>3
<1> QED
  BY <1>1 DEF ChosenByAll

(* What the handler of one rank in one context may be at.                    *)
LEMMA Types ==
  ASSUME TypeOK, NEW r \in Ranks, NEW c \in Contexts
  PROVE  /\ currentTimeLine[r][c] \in 1 .. MaxTime + 1
         /\ currentTimeLine[r][c] \in Nat /\ currentTimeLine[r][c] > 0
         /\ scheduled[r][c] \in BOOLEAN /\ eventScheduled[r][c] \in BOOLEAN
         /\ barriers[r][c] \in Nat /\ collectives[r][c] \in Nat
         /\ phase[r][c] \in {"idle", "before", "send", "sync", "after"}
         /\ taken[r] \in Nat
BY ContextsAssumption DEF TypeOK, Blocking, Yielding

(* The keys of the event a rank is at, when there is one left.               *)
LEMMA KeysOf ==
  ASSUME TypeOK, NEW r \in Ranks, NEW c \in Contexts, currentTimeLine[r][c] <= MaxTime
  PROVE  /\ currentTimeLine[r][c] \in Timelines
         /\ Event(r, c) \in Keys /\ Sync(r, c) \in Keys
<1>1. currentTimeLine[r][c] \in Timelines
  BY Types, ContextsAssumption DEF Timelines
<1> QED
  BY <1>1, KeysAre DEF Event, Sync

(* What is popped follows the handlers when neither changes.                 *)
LEMMA TakenKept ==
  ASSUME TakenExactly, order' = order, taken' = taken,
         \A s \in Ranks, d \in Contexts, t \in Timelines :
           /\ TookEvent(s, d, t)' <=> TookEvent(s, d, t)
           /\ TookSync(s, d, t)' <=> TookSync(s, d, t)
  PROVE  TakenExactly'
<1> SUFFICES ASSUME NEW s \in Ranks, NEW d \in Contexts, NEW t \in Timelines
             PROVE  /\ Popped(s, <<"event", d, t>>)' <=> TookEvent(s, d, t)'
                    /\ Popped(s, <<"sync", d, t>>)' <=> TookSync(s, d, t)'
  BY DEF TakenExactly
<1>1. /\ Popped(s, <<"event", d, t>>)' <=> Popped(s, <<"event", d, t>>)
      /\ Popped(s, <<"sync", d, t>>)' <=> Popped(s, <<"sync", d, t>>)
  BY DEF Popped
<1> QED
  BY <1>1 DEF TakenExactly

(* So does what is announced.                                                *)
LEMMA AnnouncedKept ==
  ASSUME AnnouncedExactly, announced' = announced,
         \A s \in Ranks, d \in Contexts, t \in Timelines :
           /\ AnnouncedEvent(s, d, t)' <=> AnnouncedEvent(s, d, t)
           /\ AnnouncedSync(s, d, t)' <=> AnnouncedSync(s, d, t)
  PROVE  AnnouncedExactly'
BY DEF AnnouncedExactly

(* A handler is where it was when nothing of it changes.                     *)
LEMMA HandlerKept ==
  ASSUME NEW s \in Ranks, NEW d \in Contexts,
         InStep(s, d), BlockedByLast(s, d), BarrierPassed(s, d),
         currentTimeLine'[s][d] = currentTimeLine[s][d],
         scheduled'[s][d] <=> scheduled[s][d],
         eventScheduled'[s][d] <=> eventScheduled[s][d],
         barriers'[s][d] = barriers[s][d], collectives'[s][d] = collectives[s][d],
         phase'[s][d] = phase[s][d],
         \A x \in Ranks :
           /\ barriers[x][d] \in Nat /\ currentTimeLine[x][d] \in Nat
           /\ \/ barriers'[x][d] = barriers[x][d]
              \/ barriers'[x][d] = barriers[x][d] + 1,
         eventScheduled[s][d] /\ QueryEvent(s, Event(s, d)) => QueryEvent(s, Event(s, d))',
         phase[s][d] \in Blocking => taken'[s] = taken[s] /\ order'[taken[s]] = order[taken[s]]
  PROVE  InStep(s, d)' /\ BlockedByLast(s, d)' /\ BarrierPassed(s, d)'
<1>1. InStep(s, d)'
  BY DEF InStep
<1>2. BlockedByLast(s, d)'
  BY DEF BlockedByLast, Event, Sync, Blocking
<1>3. BarrierPassed(s, d)'
  <2> SUFFICES ASSUME phase[s][d] # "idle", NEW x \in Ranks
               PROVE  barriers'[x][d] >= currentTimeLine[s][d]
    BY DEF BarrierPassed
  <2>1. barriers[x][d] >= currentTimeLine[s][d]
    BY DEF BarrierPassed
  <2>2. /\ barriers[x][d] \in Nat /\ currentTimeLine[s][d] \in Nat
        /\ barriers'[x][d] = barriers[x][d] \/ barriers'[x][d] = barriers[x][d] + 1
    OBVIOUS
  <2> QED
    BY <2>1, <2>2
<1> QED
  BY <1>1, <1>2, <1>3

(* A rank whose threads take turns pops the next of the order: it is in no   *)
(* collective call, and no other context has it at the front of the stack.   *)
LEMMA TakeKeeps ==
  ASSUME ProcessingInv, NEW r \in Ranks, NEW c \in Contexts,
         NEW key \in {Event(r, c), Sync(r, c)}, QueryEvent(r, key),
         Looping(r), Scheduler!Take(r)
  PROVE  /\ taken' \in [Ranks -> Nat] /\ order' = order /\ announced' = announced
         /\ taken'[r] = taken[r] + 1 /\ order[taken'[r]] = key
         /\ ChosenByAll'
         /\ \A s \in Ranks, d \in Contexts : s # r \/ d # c =>
              /\ (/\ eventScheduled[s][d] /\ QueryEvent(s, Event(s, d))
                  /\ currentTimeLine'[s][d] = currentTimeLine[s][d])
                   => QueryEvent(s, Event(s, d))'
              /\ phase[s][d] \in Blocking => taken'[s] = taken[s]
<1> USE DEF ProcessingInv
<1>1. /\ taken[r] < Len(order) /\ order[taken[r] + 1] = key
      /\ taken' = [taken EXCEPT ![r] = @ + 1] /\ order' = order /\ announced' = announced
  BY DEF QueryEvent, Scheduler!Take
<1>2. taken \in [Ranks -> Nat] /\ order \in Seq(Keys)
  BY DEF TypeOK
<1>3. taken' \in [Ranks -> Nat] /\ taken'[r] = taken[r] + 1
  BY <1>1, <1>2
<1>4. ChosenByAll'
  <2>1. \A s \in Ranks : taken'[s] <= Len(order)
    BY <1>1, <1>2 DEF ChosenByAll
  <2> QED
    BY <2>1, <1>1 DEF ChosenByAll
<1>5. ASSUME NEW s \in Ranks, NEW d \in Contexts, s # r \/ d # c,
             eventScheduled[s][d], QueryEvent(s, Event(s, d)),
             currentTimeLine'[s][d] = currentTimeLine[s][d]
      PROVE  QueryEvent(s, Event(s, d))'
  <2>1. s # r
    <3> SUFFICES ASSUME s = r PROVE FALSE
      OBVIOUS
    <3>1. Event(r, d) = key
      BY <1>1, <1>5 DEF QueryEvent
    <3> QED
      BY <3>1, <1>5 DEF Event, Sync
  <2>2. taken'[s] = taken[s]
    BY <1>1, <1>2, <2>1
  <2> QED
    BY <1>1, <1>5, <2>2 DEF QueryEvent, Event
<1>6. ASSUME NEW s \in Ranks, NEW d \in Contexts, phase[s][d] \in Blocking
      PROVE  taken'[s] = taken[s]
  BY <1>1, <1>2, <1>6 DEF Looping
<1> QED
  BY <1>1, <1>3, <1>4, <1>5, <1>6

(* What is popped follows the handlers when one goes past the key it pops.   *)
LEMMA TakenNext ==
  ASSUME TypeOK, TakenExactly, NEW r \in Ranks, NEW key \in Keys,
         QueryEvent(r, key), Scheduler!Take(r),
         \A s \in Ranks, d \in Contexts, t \in Timelines :
           /\ TookEvent(s, d, t)' <=> \/ TookEvent(s, d, t)
                                      \/ s = r /\ <<"event", d, t>> = key
           /\ TookSync(s, d, t)' <=> \/ TookSync(s, d, t)
                                     \/ s = r /\ <<"sync", d, t>> = key
  PROVE  TakenExactly'
<1> SUFFICES ASSUME NEW s \in Ranks, NEW d \in Contexts, NEW t \in Timelines
             PROVE  /\ Popped(s, <<"event", d, t>>)' <=> TookEvent(s, d, t)'
                    /\ Popped(s, <<"sync", d, t>>)' <=> TookSync(s, d, t)'
  BY DEF TakenExactly
<1>1. <<"event", d, t>> \in Keys /\ <<"sync", d, t>> \in Keys
  BY KeysAre
<1>2. order[taken[r] + 1] = key
  BY DEF QueryEvent
<1>3. /\ Popped(s, <<"event", d, t>>)' <=> \/ Popped(s, <<"event", d, t>>)
                                           \/ s = r /\ <<"event", d, t>> = key
      /\ Popped(s, <<"sync", d, t>>)' <=> \/ Popped(s, <<"sync", d, t>>)
                                          \/ s = r /\ <<"sync", d, t>> = key
  <2>1. \A x \in Ranks, k \in Keys :
          Popped(x, k)' <=> \/ Popped(x, k)
                            \/ x = r /\ k = order[taken[r] + 1]
    BY PopNext
  <2> QED
    BY <1>1, <1>2, <2>1
<1>4. /\ Popped(s, <<"event", d, t>>) <=> TookEvent(s, d, t)
      /\ Popped(s, <<"sync", d, t>>) <=> TookSync(s, d, t)
  BY DEF TakenExactly
<1> QED
  BY <1>3, <1>4

(* RegisterEvent: all parts of the event have been received.                 *)
LEMMA RegisterStep ==
  ASSUME ProcessingInv, NEW r \in Ranks, NEW c \in Contexts, RegisterEvent(r, c)
  PROVE  ProcessingInv'
<1> USE ContextsAssumption DEF ProcessingInv
<1>1. /\ phase[r][c] = "idle" /\ currentTimeLine[r][c] <= MaxTime /\ ~scheduled[r][c]
      /\ scheduled' = [scheduled EXCEPT ![r][c] = TRUE]
      /\ Scheduler!Announce(r, Event(r, c))
      /\ UNCHANGED <<currentTimeLine, eventScheduled, barriers, collectives, phase>>
  BY DEF RegisterEvent, MayProcess
<1>2. currentTimeLine[r][c] \in Timelines /\ Event(r, c) \in Keys
  BY <1>1, KeysOf
<1>3. announced[r][Event(r, c)] = 0
  <2>1. ~AnnouncedEvent(r, c, currentTimeLine[r][c])
    BY <1>1, Types DEF AnnouncedEvent
  <2> QED
    BY <1>2, <2>1 DEF AnnouncedExactly, Event
<1>4. /\ announced' \in [Ranks -> [Keys -> 0 .. 1]]
      /\ order' = order /\ taken' = taken
      /\ \A s \in Ranks, k \in Keys :
           announced'[s][k] = IF s = r /\ k = Event(r, c) THEN 1 ELSE announced[s][k]
  BY <1>1, <1>2, <1>3, AnnounceOnce
<1>5. \A s \in Ranks, d \in Contexts :
        scheduled'[s][d] = IF s = r /\ d = c THEN TRUE ELSE scheduled[s][d]
  BY <1>1 DEF TypeOK
<1>6. TypeOK'
  BY <1>1, <1>4 DEF TypeOK
<1>7. AnnouncedExactly'
  <2> SUFFICES ASSUME NEW s \in Ranks, NEW d \in Contexts, NEW t \in Timelines
               PROVE  /\ announced'[s][<<"event", d, t>>] =
                           IF AnnouncedEvent(s, d, t)' THEN 1 ELSE 0
                      /\ announced'[s][<<"sync", d, t>>] =
                           IF AnnouncedSync(s, d, t)' THEN 1 ELSE 0
    BY DEF AnnouncedExactly
  <2>1. AnnouncedSync(s, d, t)' <=> AnnouncedSync(s, d, t)
    BY <1>1 DEF AnnouncedSync
  <2>2. AnnouncedEvent(s, d, t)' <=> \/ AnnouncedEvent(s, d, t)
                                     \/ s = r /\ <<"event", d, t>> = Event(r, c)
    BY <1>1, <1>5 DEF AnnouncedEvent, Event
  <2>3. <<"sync", d, t>> # Event(r, c)
    BY DEF Event
  <2> QED
    <3>1. <<"event", d, t>> \in Keys /\ <<"sync", d, t>> \in Keys
      BY KeysAre
    <3>2. /\ announced[s][<<"event", d, t>>] = IF AnnouncedEvent(s, d, t) THEN 1 ELSE 0
          /\ announced[s][<<"sync", d, t>>] = IF AnnouncedSync(s, d, t) THEN 1 ELSE 0
      BY DEF AnnouncedExactly
    <3> QED
      BY <2>1, <2>2, <2>3, <3>1, <3>2, <1>4
<1>8. TakenExactly'
  <2>1. \A s \in Ranks, d \in Contexts, t \in Timelines :
          /\ TookEvent(s, d, t)' <=> TookEvent(s, d, t)
          /\ TookSync(s, d, t)' <=> TookSync(s, d, t)
    BY <1>1 DEF TookEvent, TookSync
  <2> QED
    BY <2>1, <1>4, TakenKept
<1>9. ChosenByAll'
  <2>1. \A s \in Ranks, k \in Keys : announced'[s][k] >= announced[s][k]
    <3> TAKE s \in Ranks, k \in Keys
    <3>1. announced[s][k] \in 0 .. 1
      BY DEF TypeOK
    <3> QED
      BY <3>1, <1>4
  <2> QED
    BY <2>1, <1>4, ChosenKept
<1>10. ASSUME NEW s \in Ranks, NEW d \in Contexts
       PROVE  InStep(s, d)' /\ BlockedByLast(s, d)' /\ BarrierPassed(s, d)'
  <2>1. CASE s = r /\ d = c
    <3>1. /\ currentTimeLine'[r][c] = currentTimeLine[r][c] /\ phase'[r][c] = "idle"
          /\ scheduled'[r][c] /\ eventScheduled'[r][c] = eventScheduled[r][c]
          /\ barriers'[r][c] = barriers[r][c] /\ collectives'[r][c] = collectives[r][c]
      BY <1>1, <1>5
    <3>2. InStep(r, c) /\ ~eventScheduled[r][c]
      BY <1>1 DEF InStep
    <3>3. InStep(r, c)'
      BY <1>1, <3>1, <3>2 DEF InStep
    <3>4. BlockedByLast(r, c)' /\ BarrierPassed(r, c)'
      BY <3>1 DEF BlockedByLast, BarrierPassed
    <3> QED
      BY <2>1, <3>3, <3>4
  <2>2. CASE s # r \/ d # c
    <3>1. /\ currentTimeLine'[s][d] = currentTimeLine[s][d]
          /\ scheduled'[s][d] <=> scheduled[s][d]
          /\ eventScheduled'[s][d] <=> eventScheduled[s][d]
          /\ barriers'[s][d] = barriers[s][d] /\ collectives'[s][d] = collectives[s][d]
          /\ phase'[s][d] = phase[s][d]
      BY <1>1, <1>5, <2>2
    <3>2. \A x \in Ranks :
            /\ barriers[x][d] \in Nat /\ currentTimeLine[x][d] \in Nat
            /\ \/ barriers'[x][d] = barriers[x][d]
               \/ barriers'[x][d] = barriers[x][d] + 1
      BY <1>1, Types
    <3>3. QueryEvent(s, Event(s, d)) => QueryEvent(s, Event(s, d))'
      BY <1>1, <1>4 DEF QueryEvent, Event
    <3> QED
      BY <1>4, <3>1, <3>2, <3>3, HandlerKept
  <2> QED
    BY <2>1, <2>2
<1> QED
  BY <1>6, <1>7, <1>8, <1>9, <1>10

(* The scheduler appends an event: nothing at the front of a stack moves.    *)
LEMMA ChooseStep ==
  ASSUME ProcessingInv, NEW key \in Keys, Choose(key)
  PROVE  ProcessingInv'
<1> USE DEF ProcessingInv
<1>1. /\ \A r \in Ranks : announced[r][key] > Scheduler!Times(key)
      /\ order' = Append(order, key)
      /\ UNCHANGED <<currentTimeLine, scheduled, eventScheduled, barriers,
                     collectives, phase, announced, taken>>
  BY DEF Choose, Scheduler!Choose
<1>2. order \in Seq(Keys) /\ taken \in [Ranks -> Nat]
  BY DEF TypeOK
<1>3. /\ Len(order') = Len(order) + 1
      /\ \A i \in 1 .. Len(order) : order'[i] = order[i]
      /\ order'[Len(order) + 1] = key
      /\ order' \in Seq(Keys)
  BY <1>1, <1>2
<1>4. \A r \in Ranks : announced[r][key] = 1
  <2>1. Scheduler!Times(key) \in Nat
    <3>1. IsFiniteSet(1 .. Len(order))
      BY <1>2, FS_Interval
    <3>2. IsFiniteSet({i \in 1 .. Len(order) : order[i] = key})
      BY <3>1, FS_Subset
    <3> QED
      BY <3>2, FS_CardinalityType, SameCardinality DEF Scheduler!Times
  <2> TAKE r \in Ranks
  <2>2. announced[r][key] \in 0 .. 1 /\ announced[r][key] > Scheduler!Times(key)
    BY <1>1 DEF TypeOK
  <2> QED
    BY <2>1, <2>2
<1>5. \A r \in Ranks : taken[r] <= Len(order)
  BY DEF ChosenByAll
<1>6. TypeOK'
  BY <1>1, <1>3 DEF TypeOK
<1>7. AnnouncedExactly'
  <2>1. \A s \in Ranks, d \in Contexts, t \in Timelines :
          /\ AnnouncedEvent(s, d, t)' <=> AnnouncedEvent(s, d, t)
          /\ AnnouncedSync(s, d, t)' <=> AnnouncedSync(s, d, t)
    BY <1>1 DEF AnnouncedEvent, AnnouncedSync
  <2> QED
    BY <1>1, <2>1, AnnouncedKept
<1>8. TakenExactly'
  <2> SUFFICES ASSUME NEW s \in Ranks, NEW d \in Contexts, NEW t \in Timelines
               PROVE  /\ Popped(s, <<"event", d, t>>)' <=> TookEvent(s, d, t)'
                      /\ Popped(s, <<"sync", d, t>>)' <=> TookSync(s, d, t)'
    BY DEF TakenExactly
  <2>1. \A i \in 1 .. taken[s] : order'[i] = order[i]
    BY <1>2, <1>3, <1>5
  <2>2. /\ Popped(s, <<"event", d, t>>)' <=> Popped(s, <<"event", d, t>>)
        /\ Popped(s, <<"sync", d, t>>)' <=> Popped(s, <<"sync", d, t>>)
    BY <2>1, <1>1 DEF Popped
  <2> QED
    BY <2>2, <1>1 DEF TakenExactly, TookEvent, TookSync
<1>9. ChosenByAll'
  <2>1. ASSUME NEW i \in 1 .. Len(order'), NEW s \in Ranks
        PROVE  announced'[s][order'[i]] = 1
    BY <1>1, <1>2, <1>3, <1>4 DEF ChosenByAll
  <2>2. \A s \in Ranks : taken'[s] <= Len(order')
    BY <1>1, <1>2, <1>3, <1>5
  <2> QED
    BY <2>1, <2>2 DEF ChosenByAll
<1>10. ASSUME NEW s \in Ranks, NEW d \in Contexts
       PROVE  InStep(s, d)' /\ BlockedByLast(s, d)' /\ BarrierPassed(s, d)'
  <2>1. QueryEvent(s, Event(s, d)) => QueryEvent(s, Event(s, d))'
    BY <1>1, <1>2, <1>3 DEF QueryEvent, Event
  <2>2. taken[s] > 0 => order'[taken[s]] = order[taken[s]]
    BY <1>2, <1>3, <1>5
  <2>3. InStep(s, d)'
    BY <1>1, <2>1 DEF InStep
  <2>4. BlockedByLast(s, d)'
    BY <1>1, <2>2 DEF BlockedByLast, Event, Sync
  <2>5. BarrierPassed(s, d)'
    BY <1>1 DEF BarrierPassed
  <2> QED
    BY <2>3, <2>4, <2>5
<1> QED
  BY <1>6, <1>7, <1>8, <1>9, <1>10

(* processEvents calls MPI_Ibarrier for the event at the front of the stack. *)
LEMMA EnterBarrierStep ==
  ASSUME ProcessingInv, NEW r \in Ranks, NEW c \in Contexts, EnterBarrier(r, c)
  PROVE  ProcessingInv'
<1> USE DEF ProcessingInv
<1>1. /\ phase[r][c] = "idle" /\ currentTimeLine[r][c] <= MaxTime
      /\ scheduled[r][c] /\ ~eventScheduled[r][c] /\ QueryEvent(r, Event(r, c))
      /\ eventScheduled' = [eventScheduled EXCEPT ![r][c] = TRUE]
      /\ barriers' = [barriers EXCEPT ![r][c] = @ + 1]
      /\ UNCHANGED <<currentTimeLine, scheduled, collectives, phase, announced,
                     order, taken>>
  BY DEF EnterBarrier, MayProcess, Counted, orderVars
<1>2. \A s \in Ranks, d \in Contexts :
        /\ eventScheduled'[s][d] = IF s = r /\ d = c THEN TRUE ELSE eventScheduled[s][d]
        /\ barriers'[s][d] = IF s = r /\ d = c THEN barriers[r][c] + 1 ELSE barriers[s][d]
  BY <1>1 DEF TypeOK
<1>3. barriers[r][c] + 1 = currentTimeLine[r][c]
  BY <1>1, Types DEF InStep
<1>4. TypeOK'
  <2>1. barriers[r][c] + 1 \in 0 .. MaxTime
    BY <1>1, <1>3, Types, ContextsAssumption
  <2> QED
    BY <1>1, <2>1 DEF TypeOK
<1>5. AnnouncedExactly' /\ TakenExactly' /\ ChosenByAll'
  <2>1. AnnouncedExactly'
    BY <1>1, AnnouncedKept DEF AnnouncedEvent, AnnouncedSync
  <2>2. TakenExactly'
    BY <1>1, TakenKept DEF TookEvent, TookSync
  <2>3. ChosenByAll'
    BY <1>1 DEF ChosenByAll
  <2> QED
    BY <2>1, <2>2, <2>3
<1>6. ASSUME NEW s \in Ranks, NEW d \in Contexts
      PROVE  InStep(s, d)' /\ BlockedByLast(s, d)' /\ BarrierPassed(s, d)'
  <2>1. InStep(s, d)'
    <3>1. InStep(s, d)
      OBVIOUS
    <3>2. QueryEvent(s, Event(s, d))' <=> QueryEvent(s, Event(s, d))
      BY <1>1 DEF QueryEvent, Event
    <3>3. CASE s = r /\ d = c
      <4>1. /\ currentTimeLine'[r][c] = currentTimeLine[r][c]
            /\ phase'[r][c] = "idle" /\ scheduled'[r][c]
            /\ eventScheduled'[r][c] /\ QueryEvent(r, Event(r, c))'
            /\ barriers'[r][c] = currentTimeLine[r][c]
            /\ collectives'[r][c] = collectives[r][c]
        <5>1. QueryEvent(r, Event(r, c))'
          BY <1>1, <3>2, <3>3
        <5>2. eventScheduled'[r][c] /\ barriers'[r][c] = currentTimeLine[r][c]
          BY <1>2, <1>3
        <5> QED
          BY <1>1, <5>1, <5>2
      <4>2. InStep(r, c) /\ phase[r][c] = "idle" /\ scheduled[r][c]
        BY <1>1
      <4>3. currentTimeLine[r][c] \in Nat
        BY Types
      <4> QED
        BY <3>3, <4>1, <4>2, <4>3 DEF InStep
    <3>4. CASE ~(s = r /\ d = c)
      BY <1>1, <1>2, <3>1, <3>2, <3>4 DEF InStep
    <3> QED
      BY <3>3, <3>4
  <2>2. BlockedByLast(s, d)'
    BY <1>1 DEF BlockedByLast, Event, Sync
  <2>3. BarrierPassed(s, d)'
    <3> SUFFICES ASSUME phase[s][d] # "idle", NEW x \in Ranks
                 PROVE  barriers'[x][d] >= currentTimeLine[s][d]
      BY <1>1 DEF BarrierPassed
    <3>1. barriers[x][d] >= currentTimeLine[s][d]
      BY DEF BarrierPassed
    <3>2. barriers[x][d] \in Nat /\ currentTimeLine[s][d] \in Nat
      BY Types
    <3>3. barriers'[x][d] = barriers[x][d] \/ barriers'[x][d] = barriers[x][d] + 1
      BY <1>2
    <3> QED
      BY <3>1, <3>2, <3>3
  <2> QED
    BY <2>1, <2>2, <2>3
<1> QED
  BY <1>4, <1>5, <1>6

(* popEvent and dispatchEvent, when the barrier of the event is over.         *)
LEMMA DispatchStep ==
  ASSUME ProcessingInv, NEW r \in Ranks, NEW c \in Contexts, DispatchEvent(r, c)
  PROVE  ProcessingInv'
<1> USE DEF ProcessingInv
<1>1. /\ phase[r][c] = "idle" /\ currentTimeLine[r][c] <= MaxTime /\ Looping(r)
      /\ eventScheduled[r][c] /\ QueryEvent(r, Event(r, c)) /\ BarrierOver(r, c)
      /\ eventScheduled' = [eventScheduled EXCEPT ![r][c] = FALSE]
      /\ phase' = [phase EXCEPT ![r][c] = "before"]
      /\ collectives' = [collectives EXCEPT ![r][c] = @ + 1]
      /\ Scheduler!Take(r)
      /\ UNCHANGED <<currentTimeLine, scheduled, barriers>>
  BY DEF DispatchEvent, MayProcess, Counted
<1>2. \A s \in Ranks, d \in Contexts :
        /\ eventScheduled'[s][d] <=> eventScheduled[s][d] /\ ~(s = r /\ d = c)
        /\ phase'[s][d] = IF s = r /\ d = c THEN "before" ELSE phase[s][d]
        /\ collectives'[s][d] =
             IF s = r /\ d = c THEN collectives[r][c] + 1 ELSE collectives[s][d]
  BY <1>1 DEF TypeOK
<1>3. /\ taken' \in [Ranks -> Nat] /\ order' = order /\ announced' = announced
      /\ taken'[r] = taken[r] + 1 /\ order[taken'[r]] = Event(r, c)
      /\ ChosenByAll'
      /\ \A s \in Ranks, d \in Contexts : s # r \/ d # c =>
           /\ (/\ eventScheduled[s][d] /\ QueryEvent(s, Event(s, d))
               /\ currentTimeLine'[s][d] = currentTimeLine[s][d])
                => QueryEvent(s, Event(s, d))'
           /\ phase[s][d] \in Blocking => taken'[s] = taken[s]
  BY <1>1, TakeKeeps
<1>4. /\ collectives[r][c] = IF c \in Forwarding THEN 2 * (currentTimeLine[r][c] - 1)
                                                ELSE currentTimeLine[r][c] - 1
      /\ barriers[r][c] = currentTimeLine[r][c] /\ scheduled[r][c]
  <2>1. InStep(r, c) /\ currentTimeLine[r][c] \in Nat
    BY Types
  <2> QED
    BY <1>1, <2>1 DEF InStep
<1>5. TypeOK'
  <2>1. collectives[r][c] + 1 \in 0 .. 2 * MaxTime
    BY <1>1, <1>4, Types, ContextsAssumption
  <2>2. phase' \in [Ranks -> [Contexts -> {"idle"} \cup Blocking \cup Yielding]]
    BY <1>1 DEF TypeOK, Blocking
  <2>3. /\ eventScheduled' \in [Ranks -> [Contexts -> BOOLEAN]]
        /\ collectives' \in [Ranks -> [Contexts -> 0 .. 2 * MaxTime]]
    BY <1>1, <2>1 DEF TypeOK
  <2> QED
    BY <1>1, <1>3, <2>2, <2>3 DEF TypeOK
<1>6. AnnouncedExactly'
  <2>1. \A s \in Ranks, d \in Contexts, t \in Timelines :
          /\ AnnouncedEvent(s, d, t)' <=> AnnouncedEvent(s, d, t)
          /\ AnnouncedSync(s, d, t)' <=> AnnouncedSync(s, d, t)
    BY <1>1, <1>2 DEF AnnouncedEvent, AnnouncedSync
  <2> QED
    BY <1>3, <2>1, AnnouncedKept
<1>7. TakenExactly'
  <2>1. ASSUME NEW s \in Ranks, NEW d \in Contexts, NEW t \in Timelines
        PROVE  /\ TookEvent(s, d, t)' <=> \/ TookEvent(s, d, t)
                                          \/ s = r /\ <<"event", d, t>> = Event(r, c)
               /\ TookSync(s, d, t)' <=> \/ TookSync(s, d, t)
                                         \/ s = r /\ <<"sync", d, t>> = Event(r, c)
    BY <1>1, <1>2 DEF TookEvent, TookSync, Event
  <2>2. Event(r, c) \in Keys
    BY <1>1, KeysOf
  <2> QED
    BY <1>1, <2>1, <2>2, TakenNext
<1>8. ASSUME NEW s \in Ranks, NEW d \in Contexts
      PROVE  InStep(s, d)' /\ BlockedByLast(s, d)' /\ BarrierPassed(s, d)'
  <2>1. CASE s = r /\ d = c
    <3>1. /\ currentTimeLine'[r][c] = currentTimeLine[r][c]
          /\ phase'[r][c] = "before" /\ ~eventScheduled'[r][c] /\ scheduled'[r][c]
          /\ barriers'[r][c] = currentTimeLine[r][c]
          /\ collectives'[r][c] = collectives[r][c] + 1
      BY <1>1, <1>2, <1>4
    <3>2. currentTimeLine[r][c] \in Nat
      BY Types
    <3>3. InStep(r, c)'
      BY <1>1, <1>4, <3>1, <3>2 DEF InStep
    <3>4. BlockedByLast(r, c)'
      BY <1>1, <1>3, <3>1, Types DEF BlockedByLast, Event
    <3>5. BarrierPassed(r, c)'
      BY <1>1, <1>4 DEF BarrierPassed, BarrierOver, AllEntered
    <3> QED
      BY <2>1, <3>3, <3>4, <3>5
  <2>2. CASE s # r \/ d # c
    <3>1. /\ currentTimeLine'[s][d] = currentTimeLine[s][d]
          /\ scheduled'[s][d] <=> scheduled[s][d]
          /\ eventScheduled'[s][d] <=> eventScheduled[s][d]
          /\ barriers'[s][d] = barriers[s][d] /\ collectives'[s][d] = collectives[s][d]
          /\ phase'[s][d] = phase[s][d]
      BY <1>1, <1>2, <2>2
    <3>2. \A x \in Ranks :
            /\ barriers[x][d] \in Nat /\ currentTimeLine[x][d] \in Nat
            /\ barriers'[x][d] = barriers[x][d] \/ barriers'[x][d] = barriers[x][d] + 1
      BY <1>1, Types
    <3>3. /\ eventScheduled[s][d] /\ QueryEvent(s, Event(s, d)) => QueryEvent(s, Event(s, d))'
          /\ phase[s][d] \in Blocking => taken'[s] = taken[s]
      BY <1>3, <2>2, <3>1
    <3> QED
      BY <1>3, <3>1, <3>2, <3>3, HandlerKept
  <2> QED
    BY <2>1, <2>2
<1> QED
  BY <1>3, <1>5, <1>6, <1>7, <1>8

(* The first collective call returns, and the handler goes on to sendEvent.  *)
LEMMA StartSendStep ==
  ASSUME ProcessingInv, NEW r \in Ranks, NEW c \in Contexts, StartSend(r, c)
  PROVE  ProcessingInv'
<1> USE DEF ProcessingInv
<1>1. /\ phase[r][c] = "before" /\ c \in Forwarding
      /\ phase' = [phase EXCEPT ![r][c] = "send"]
      /\ UNCHANGED <<currentTimeLine, scheduled, eventScheduled, barriers,
                     collectives, announced, order, taken>>
  BY DEF StartSend, orderVars
<1>2. \A s \in Ranks, d \in Contexts :
        phase'[s][d] = IF s = r /\ d = c THEN "send" ELSE phase[s][d]
  BY <1>1 DEF TypeOK
<1>3. TypeOK'
  <2>1. phase' \in [Ranks -> [Contexts -> {"idle"} \cup Blocking \cup Yielding]]
    BY <1>1 DEF TypeOK, Yielding
  <2> QED
    BY <1>1, <2>1 DEF TypeOK
<1>4. AnnouncedExactly'
  <2>1. \A s \in Ranks, d \in Contexts, t \in Timelines :
          /\ AnnouncedEvent(s, d, t)' <=> AnnouncedEvent(s, d, t)
          /\ AnnouncedSync(s, d, t)' <=> AnnouncedSync(s, d, t)
    BY <1>1, <1>2 DEF AnnouncedEvent, AnnouncedSync
  <2> QED
    BY <1>1, <2>1, AnnouncedKept
<1>5. TakenExactly'
  <2>1. \A s \in Ranks, d \in Contexts, t \in Timelines :
          /\ TookEvent(s, d, t)' <=> TookEvent(s, d, t)
          /\ TookSync(s, d, t)' <=> TookSync(s, d, t)
    BY <1>1, <1>2 DEF TookEvent, TookSync
  <2> QED
    BY <1>1, <2>1, TakenKept
<1>6. ChosenByAll'
  BY <1>1 DEF ChosenByAll
<1>7. ASSUME NEW s \in Ranks, NEW d \in Contexts
      PROVE  InStep(s, d)' /\ BlockedByLast(s, d)' /\ BarrierPassed(s, d)'
  <2>1. CASE s = r /\ d = c
    <3>1. /\ currentTimeLine'[r][c] = currentTimeLine[r][c] /\ phase'[r][c] = "send"
          /\ scheduled'[r][c] <=> scheduled[r][c]
          /\ eventScheduled'[r][c] <=> eventScheduled[r][c]
          /\ barriers'[r][c] = barriers[r][c] /\ collectives'[r][c] = collectives[r][c]
      BY <1>1, <1>2
    <3>2. InStep(r, c) /\ BarrierPassed(r, c)
      OBVIOUS
    <3>3. InStep(r, c)'
      BY <1>1, <3>1, <3>2 DEF InStep
    <3>4. BlockedByLast(r, c)' /\ BarrierPassed(r, c)'
      BY <1>1, <3>1, <3>2 DEF BlockedByLast, BarrierPassed
    <3> QED
      BY <2>1, <3>3, <3>4
  <2>2. CASE s # r \/ d # c
    <3>1. /\ currentTimeLine'[s][d] = currentTimeLine[s][d]
          /\ scheduled'[s][d] <=> scheduled[s][d]
          /\ eventScheduled'[s][d] <=> eventScheduled[s][d]
          /\ barriers'[s][d] = barriers[s][d] /\ collectives'[s][d] = collectives[s][d]
          /\ phase'[s][d] = phase[s][d]
      BY <1>1, <1>2, <2>2
    <3>2. \A x \in Ranks :
            /\ barriers[x][d] \in Nat /\ currentTimeLine[x][d] \in Nat
            /\ \/ barriers'[x][d] = barriers[x][d]
               \/ barriers'[x][d] = barriers[x][d] + 1
      BY <1>1, Types
    <3>3. QueryEvent(s, Event(s, d)) => QueryEvent(s, Event(s, d))'
      BY <1>1 DEF QueryEvent, Event
    <3> QED
      BY <1>1, <3>1, <3>2, <3>3, HandlerKept
  <2> QED
    BY <2>1, <2>2
<1> QED
  BY <1>3, <1>4, <1>5, <1>6, <1>7

(* sendEvent has found room, and calls synchronize.                          *)
LEMMA SentStep ==
  ASSUME ProcessingInv, NEW r \in Ranks, NEW c \in Contexts, Sent(r, c)
  PROVE  ProcessingInv'
<1> USE DEF ProcessingInv
<1>1. /\ phase[r][c] = "send"
      /\ phase' = [phase EXCEPT ![r][c] = "sync"]
      /\ Scheduler!Announce(r, Sync(r, c))
      /\ UNCHANGED <<currentTimeLine, scheduled, eventScheduled, barriers, collectives>>
  BY DEF Sent
<1>2. \A s \in Ranks, d \in Contexts :
        phase'[s][d] = IF s = r /\ d = c THEN "sync" ELSE phase[s][d]
  BY <1>1 DEF TypeOK
<1>3. InStep(r, c) /\ BarrierPassed(r, c)
  OBVIOUS
<1>4. /\ currentTimeLine[r][c] <= MaxTime /\ c \in Forwarding
      /\ currentTimeLine[r][c] \in Timelines /\ Sync(r, c) \in Keys
  <2>1. currentTimeLine[r][c] <= MaxTime /\ c \in Forwarding
    BY <1>1, <1>3 DEF InStep
  <2> QED
    BY <2>1, KeysOf
<1>5. announced[r][Sync(r, c)] = 0
  <2>1. ~AnnouncedSync(r, c, currentTimeLine[r][c])
    BY <1>1, Types DEF AnnouncedSync
  <2> QED
    BY <1>4, <2>1 DEF AnnouncedExactly, Sync
<1>6. /\ announced' \in [Ranks -> [Keys -> 0 .. 1]]
      /\ order' = order /\ taken' = taken
      /\ \A s \in Ranks, k \in Keys :
           announced'[s][k] = IF s = r /\ k = Sync(r, c) THEN 1 ELSE announced[s][k]
  BY <1>1, <1>4, <1>5, AnnounceOnce
<1>7. TypeOK'
  <2>1. phase' \in [Ranks -> [Contexts -> {"idle"} \cup Blocking \cup Yielding]]
    BY <1>1 DEF TypeOK, Yielding
  <2> QED
    BY <1>1, <1>6, <2>1 DEF TypeOK
<1>8. AnnouncedExactly'
  <2> SUFFICES ASSUME NEW s \in Ranks, NEW d \in Contexts, NEW t \in Timelines
               PROVE  /\ announced'[s][<<"event", d, t>>] =
                           IF AnnouncedEvent(s, d, t)' THEN 1 ELSE 0
                      /\ announced'[s][<<"sync", d, t>>] =
                           IF AnnouncedSync(s, d, t)' THEN 1 ELSE 0
    BY DEF AnnouncedExactly
  <2>1. AnnouncedEvent(s, d, t)' <=> AnnouncedEvent(s, d, t)
    BY <1>1 DEF AnnouncedEvent
  <2>2. AnnouncedSync(s, d, t)' <=> \/ AnnouncedSync(s, d, t)
                                    \/ s = r /\ <<"sync", d, t>> = Sync(r, c)
    BY <1>1, <1>2, <1>4 DEF AnnouncedSync, Sync
  <2>3. <<"event", d, t>> # Sync(r, c)
    BY DEF Sync
  <2>4. <<"event", d, t>> \in Keys /\ <<"sync", d, t>> \in Keys
    BY KeysAre
  <2>5. /\ announced[s][<<"event", d, t>>] = IF AnnouncedEvent(s, d, t) THEN 1 ELSE 0
        /\ announced[s][<<"sync", d, t>>] = IF AnnouncedSync(s, d, t) THEN 1 ELSE 0
    BY DEF AnnouncedExactly
  <2> QED
    BY <2>1, <2>2, <2>3, <2>4, <2>5, <1>6
<1>9. TakenExactly'
  <2>1. \A s \in Ranks, d \in Contexts, t \in Timelines :
          /\ TookEvent(s, d, t)' <=> TookEvent(s, d, t)
          /\ TookSync(s, d, t)' <=> TookSync(s, d, t)
    BY <1>1, <1>2 DEF TookEvent, TookSync
  <2> QED
    BY <1>6, <2>1, TakenKept
<1>10. ChosenByAll'
  <2>1. \A s \in Ranks, k \in Keys : announced'[s][k] >= announced[s][k]
    <3> TAKE s \in Ranks, k \in Keys
    <3>1. announced[s][k] \in 0 .. 1
      BY DEF TypeOK
    <3> QED
      BY <3>1, <1>6
  <2> QED
    BY <2>1, <1>6, ChosenKept
<1>11. ASSUME NEW s \in Ranks, NEW d \in Contexts
       PROVE  InStep(s, d)' /\ BlockedByLast(s, d)' /\ BarrierPassed(s, d)'
  <2>1. CASE s = r /\ d = c
    <3>1. /\ currentTimeLine'[r][c] = currentTimeLine[r][c] /\ phase'[r][c] = "sync"
          /\ scheduled'[r][c] <=> scheduled[r][c]
          /\ eventScheduled'[r][c] <=> eventScheduled[r][c]
          /\ barriers'[r][c] = barriers[r][c] /\ collectives'[r][c] = collectives[r][c]
      BY <1>1, <1>2
    <3>2. InStep(r, c)'
      BY <1>1, <1>3, <3>1 DEF InStep
    <3>3. BlockedByLast(r, c)' /\ BarrierPassed(r, c)'
      BY <1>1, <1>3, <3>1 DEF BlockedByLast, BarrierPassed
    <3> QED
      BY <2>1, <3>2, <3>3
  <2>2. CASE s # r \/ d # c
    <3>1. /\ currentTimeLine'[s][d] = currentTimeLine[s][d]
          /\ scheduled'[s][d] <=> scheduled[s][d]
          /\ eventScheduled'[s][d] <=> eventScheduled[s][d]
          /\ barriers'[s][d] = barriers[s][d] /\ collectives'[s][d] = collectives[s][d]
          /\ phase'[s][d] = phase[s][d]
      BY <1>1, <1>2, <2>2
    <3>2. \A x \in Ranks :
            /\ barriers[x][d] \in Nat /\ currentTimeLine[x][d] \in Nat
            /\ \/ barriers'[x][d] = barriers[x][d]
               \/ barriers'[x][d] = barriers[x][d] + 1
      BY <1>1, Types
    <3>3. QueryEvent(s, Event(s, d)) => QueryEvent(s, Event(s, d))'
      BY <1>1, <1>6 DEF QueryEvent, Event
    <3> QED
      BY <1>6, <3>1, <3>2, <3>3, HandlerKept
  <2> QED
    BY <2>1, <2>2
<1> QED
  BY <1>7, <1>8, <1>9, <1>10, <1>11

(* synchronize returns, and the handler makes its next collective call.      *)
LEMMA SynchronizeStep ==
  ASSUME ProcessingInv, NEW r \in Ranks, NEW c \in Contexts, Synchronize(r, c)
  PROVE  ProcessingInv'
<1> USE DEF ProcessingInv
<1>1. /\ phase[r][c] = "sync" /\ Looping(r) /\ QueryEvent(r, Sync(r, c))
      /\ phase' = [phase EXCEPT ![r][c] = "after"]
      /\ collectives' = [collectives EXCEPT ![r][c] = @ + 1]
      /\ Scheduler!Take(r)
      /\ UNCHANGED <<currentTimeLine, scheduled, eventScheduled, barriers>>
  BY DEF Synchronize, MayResume, Counted
<1>2. \A s \in Ranks, d \in Contexts :
        /\ phase'[s][d] = IF s = r /\ d = c THEN "after" ELSE phase[s][d]
        /\ collectives'[s][d] =
             IF s = r /\ d = c THEN collectives[r][c] + 1 ELSE collectives[s][d]
  BY <1>1 DEF TypeOK
<1>3. /\ taken' \in [Ranks -> Nat] /\ order' = order /\ announced' = announced
      /\ taken'[r] = taken[r] + 1 /\ order[taken'[r]] = Sync(r, c)
      /\ ChosenByAll'
      /\ \A s \in Ranks, d \in Contexts : s # r \/ d # c =>
           /\ (/\ eventScheduled[s][d] /\ QueryEvent(s, Event(s, d))
               /\ currentTimeLine'[s][d] = currentTimeLine[s][d])
                => QueryEvent(s, Event(s, d))'
           /\ phase[s][d] \in Blocking => taken'[s] = taken[s]
  BY <1>1, TakeKeeps
<1>4. InStep(r, c) /\ BarrierPassed(r, c) /\ currentTimeLine[r][c] \in Nat
  BY Types
<1>5. /\ currentTimeLine[r][c] <= MaxTime /\ c \in Forwarding
      /\ collectives[r][c] = 2 * (currentTimeLine[r][c] - 1) + 1
      /\ ~eventScheduled[r][c]
  BY <1>1, <1>4 DEF InStep
<1>6. TypeOK'
  <2>1. collectives[r][c] + 1 \in 0 .. 2 * MaxTime
    BY <1>5, Types, ContextsAssumption
  <2>2. phase' \in [Ranks -> [Contexts -> {"idle"} \cup Blocking \cup Yielding]]
    BY <1>1 DEF TypeOK, Blocking
  <2>3. collectives' \in [Ranks -> [Contexts -> 0 .. 2 * MaxTime]]
    BY <1>1, <2>1 DEF TypeOK
  <2> QED
    BY <1>1, <1>3, <2>2, <2>3 DEF TypeOK
<1>7. AnnouncedExactly'
  <2>1. \A s \in Ranks, d \in Contexts, t \in Timelines :
          /\ AnnouncedEvent(s, d, t)' <=> AnnouncedEvent(s, d, t)
          /\ AnnouncedSync(s, d, t)' <=> AnnouncedSync(s, d, t)
    BY <1>1, <1>2 DEF AnnouncedEvent, AnnouncedSync
  <2> QED
    BY <1>3, <2>1, AnnouncedKept
<1>8. TakenExactly'
  <2>1. ASSUME NEW s \in Ranks, NEW d \in Contexts, NEW t \in Timelines
        PROVE  /\ TookEvent(s, d, t)' <=> \/ TookEvent(s, d, t)
                                          \/ s = r /\ <<"event", d, t>> = Sync(r, c)
               /\ TookSync(s, d, t)' <=> \/ TookSync(s, d, t)
                                         \/ s = r /\ <<"sync", d, t>> = Sync(r, c)
    BY <1>1, <1>2, <1>5 DEF TookEvent, TookSync, Sync
  <2>2. Sync(r, c) \in Keys
    BY <1>5, KeysOf
  <2> QED
    BY <1>1, <2>1, <2>2, TakenNext
<1>9. ASSUME NEW s \in Ranks, NEW d \in Contexts
      PROVE  InStep(s, d)' /\ BlockedByLast(s, d)' /\ BarrierPassed(s, d)'
  <2>1. CASE s = r /\ d = c
    <3>1. /\ currentTimeLine'[r][c] = currentTimeLine[r][c] /\ phase'[r][c] = "after"
          /\ scheduled'[r][c] <=> scheduled[r][c]
          /\ eventScheduled'[r][c] <=> eventScheduled[r][c]
          /\ barriers'[r][c] = barriers[r][c]
          /\ collectives'[r][c] = collectives[r][c] + 1
      BY <1>1, <1>2
    <3>2. InStep(r, c)'
      BY <1>1, <1>4, <1>5, <3>1 DEF InStep
    <3>3. BlockedByLast(r, c)'
      BY <1>1, <1>3, <3>1, Types DEF BlockedByLast, Sync
    <3>4. BarrierPassed(r, c)'
      BY <1>1, <1>4 DEF BarrierPassed
    <3> QED
      BY <2>1, <3>2, <3>3, <3>4
  <2>2. CASE s # r \/ d # c
    <3>1. /\ currentTimeLine'[s][d] = currentTimeLine[s][d]
          /\ scheduled'[s][d] <=> scheduled[s][d]
          /\ eventScheduled'[s][d] <=> eventScheduled[s][d]
          /\ barriers'[s][d] = barriers[s][d] /\ collectives'[s][d] = collectives[s][d]
          /\ phase'[s][d] = phase[s][d]
      BY <1>1, <1>2, <2>2
    <3>2. \A x \in Ranks :
            /\ barriers[x][d] \in Nat /\ currentTimeLine[x][d] \in Nat
            /\ \/ barriers'[x][d] = barriers[x][d]
               \/ barriers'[x][d] = barriers[x][d] + 1
      BY <1>1, Types
    <3>3. /\ eventScheduled[s][d] /\ QueryEvent(s, Event(s, d)) => QueryEvent(s, Event(s, d))'
          /\ phase[s][d] \in Blocking => taken'[s] = taken[s]
      BY <1>3, <2>2, <3>1
    <3> QED
      BY <1>3, <3>1, <3>2, <3>3, HandlerKept
  <2> QED
    BY <2>1, <2>2
<1> QED
  BY <1>3, <1>6, <1>7, <1>8, <1>9

(* The last collective call of the handler returns.                          *)
LEMMA EndEventStep ==
  ASSUME ProcessingInv, NEW r \in Ranks, NEW c \in Contexts, EndEvent(r, c)
  PROVE  ProcessingInv'
<1> USE DEF ProcessingInv
<1>1. /\ phase[r][c] = IF c \in Forwarding THEN "after" ELSE "before"
      /\ phase' = [phase EXCEPT ![r][c] = "idle"]
      /\ currentTimeLine' = [currentTimeLine EXCEPT ![r][c] = @ + 1]
      /\ scheduled' = [scheduled EXCEPT ![r][c] = FALSE]
      /\ UNCHANGED <<eventScheduled, barriers, collectives, announced, order, taken>>
  BY DEF EndEvent, orderVars
<1>2. \A s \in Ranks, d \in Contexts :
        /\ phase'[s][d] = IF s = r /\ d = c THEN "idle" ELSE phase[s][d]
        /\ currentTimeLine'[s][d] =
             IF s = r /\ d = c THEN currentTimeLine[r][c] + 1 ELSE currentTimeLine[s][d]
        /\ scheduled'[s][d] <=> scheduled[s][d] /\ ~(s = r /\ d = c)
  BY <1>1 DEF TypeOK
<1>3. InStep(r, c) /\ currentTimeLine[r][c] \in Nat
  BY Types
<1>4. /\ currentTimeLine[r][c] <= MaxTime /\ scheduled[r][c] /\ ~eventScheduled[r][c]
      /\ barriers[r][c] = currentTimeLine[r][c]
      /\ collectives[r][c] = IF c \in Forwarding THEN 2 * currentTimeLine[r][c]
                                                 ELSE currentTimeLine[r][c]
  BY <1>1, <1>3 DEF InStep
<1>5. TypeOK'
  <2>1. currentTimeLine[r][c] + 1 \in 1 .. MaxTime + 1
    BY <1>4, Types, ContextsAssumption
  <2>2. /\ currentTimeLine' \in [Ranks -> [Contexts -> 1 .. MaxTime + 1]]
        /\ scheduled' \in [Ranks -> [Contexts -> BOOLEAN]]
    BY <1>1, <2>1 DEF TypeOK
  <2>3. phase' \in [Ranks -> [Contexts -> {"idle"} \cup Blocking \cup Yielding]]
    BY <1>1 DEF TypeOK
  <2> QED
    BY <1>1, <2>2, <2>3 DEF TypeOK
<1>6. AnnouncedExactly'
  <2>1. ASSUME NEW s \in Ranks, NEW d \in Contexts, NEW t \in Timelines
        PROVE  /\ AnnouncedEvent(s, d, t)' <=> AnnouncedEvent(s, d, t)
               /\ AnnouncedSync(s, d, t)' <=> AnnouncedSync(s, d, t)
    <3>1. t \in Nat
      BY ContextsAssumption DEF Timelines
    <3>2. CASE s = r /\ d = c
      BY <1>1, <1>2, <1>3, <1>4, <3>1, <3>2 DEF AnnouncedEvent, AnnouncedSync
    <3>3. CASE s # r \/ d # c
      BY <1>2, <3>3 DEF AnnouncedEvent, AnnouncedSync
    <3> QED
      BY <3>2, <3>3
  <2> QED
    BY <1>1, <2>1, AnnouncedKept
<1>7. TakenExactly'
  <2>1. ASSUME NEW s \in Ranks, NEW d \in Contexts, NEW t \in Timelines
        PROVE  /\ TookEvent(s, d, t)' <=> TookEvent(s, d, t)
               /\ TookSync(s, d, t)' <=> TookSync(s, d, t)
    <3>1. t \in Nat
      BY ContextsAssumption DEF Timelines
    <3>2. CASE s = r /\ d = c
      BY <1>1, <1>2, <1>3, <1>4, <3>1, <3>2 DEF TookEvent, TookSync
    <3>3. CASE s # r \/ d # c
      BY <1>2, <3>3 DEF TookEvent, TookSync
    <3> QED
      BY <3>2, <3>3
  <2> QED
    BY <1>1, <2>1, TakenKept
<1>8. ChosenByAll'
  BY <1>1 DEF ChosenByAll
<1>9. ASSUME NEW s \in Ranks, NEW d \in Contexts
      PROVE  InStep(s, d)' /\ BlockedByLast(s, d)' /\ BarrierPassed(s, d)'
  <2>1. CASE s = r /\ d = c
    <3>1. /\ currentTimeLine'[r][c] = currentTimeLine[r][c] + 1 /\ phase'[r][c] = "idle"
          /\ ~scheduled'[r][c] /\ ~eventScheduled'[r][c]
          /\ barriers'[r][c] = currentTimeLine[r][c]
          /\ collectives'[r][c] = collectives[r][c]
      BY <1>1, <1>2, <1>4
    <3>2. InStep(r, c)'
      BY <1>3, <1>4, <3>1 DEF InStep
    <3>3. BlockedByLast(r, c)' /\ BarrierPassed(r, c)'
      BY <3>1 DEF BlockedByLast, BarrierPassed
    <3> QED
      BY <2>1, <3>2, <3>3
  <2>2. CASE s # r \/ d # c
    <3>1. /\ currentTimeLine'[s][d] = currentTimeLine[s][d]
          /\ scheduled'[s][d] <=> scheduled[s][d]
          /\ eventScheduled'[s][d] <=> eventScheduled[s][d]
          /\ barriers'[s][d] = barriers[s][d] /\ collectives'[s][d] = collectives[s][d]
          /\ phase'[s][d] = phase[s][d]
      BY <1>1, <1>2, <2>2
    <3>2. \A x \in Ranks :
            /\ barriers[x][d] \in Nat /\ currentTimeLine[x][d] \in Nat
            /\ \/ barriers'[x][d] = barriers[x][d]
               \/ barriers'[x][d] = barriers[x][d] + 1
      BY <1>1, Types
    <3>3. QueryEvent(s, Event(s, d)) => QueryEvent(s, Event(s, d))'
      BY <1>1, <3>1 DEF QueryEvent, Event
    <3> QED
      BY <1>1, <3>1, <3>2, <3>3, HandlerKept
  <2> QED
    BY <2>1, <2>2
<1> QED
  BY <1>5, <1>6, <1>7, <1>8, <1>9

(* Every step keeps the invariant; so does none.                             *)
LEMMA NextInv == ProcessingInv /\ [Next]_vars => ProcessingInv'
<1> SUFFICES ASSUME ProcessingInv, [Next]_vars PROVE ProcessingInv'
  OBVIOUS
<1>1. CASE UNCHANGED vars
  <2> USE <1>1 DEF ProcessingInv, vars, orderVars
  <2>1. TypeOK'
    BY DEF TypeOK
  <2>2. AnnouncedExactly'
    BY AnnouncedKept DEF AnnouncedEvent, AnnouncedSync
  <2>3. TakenExactly'
    BY TakenKept DEF TookEvent, TookSync
  <2>4. ChosenByAll'
    BY DEF ChosenByAll
  <2>5. ASSUME NEW s \in Ranks, NEW d \in Contexts
        PROVE  InStep(s, d)' /\ BlockedByLast(s, d)' /\ BarrierPassed(s, d)'
    <3>1. InStep(s, d)'
      BY DEF InStep, QueryEvent, Event
    <3>2. BlockedByLast(s, d)' /\ BarrierPassed(s, d)'
      BY DEF BlockedByLast, BarrierPassed, Event, Sync
    <3> QED
      BY <3>1, <3>2
  <2> QED
    BY <2>1, <2>2, <2>3, <2>4, <2>5
<1>2. ASSUME NEW r \in Ranks, NEW c \in Contexts,
             \/ RegisterEvent(r, c) \/ EnterBarrier(r, c) \/ DispatchEvent(r, c)
             \/ StartSend(r, c) \/ Sent(r, c) \/ Synchronize(r, c) \/ EndEvent(r, c)
      PROVE  ProcessingInv'
  BY <1>2, RegisterStep, EnterBarrierStep, DispatchStep, StartSendStep, SentStep,
     SynchronizeStep, EndEventStep
<1>3. ASSUME NEW key \in Keys, Choose(key) PROVE ProcessingInv'
  BY <1>3, ChooseStep
<1>4. CASE Finished
  BY <1>1, <1>4 DEF Finished
<1> QED
  BY <1>1, <1>2, <1>3, <1>4 DEF Next

(* A rank that waits for another in a call of c has popped the key of the    *)
(* call last, and the other has not popped it.                               *)
LEMMA NotPoppedYet ==
  ASSUME ProcessingInv, NEW r \in Ranks, NEW s \in Ranks, NEW c \in Contexts,
         WaitsFor(r, s, c)
  PROVE  /\ taken[r] \in Nat /\ taken[s] \in Nat
         /\ taken[r] > 0 /\ ~Popped(s, order[taken[r]])
<1> USE DEF ProcessingInv
<1>1. /\ phase[r][c] \in {"before", "after"} /\ collectives[s][c] < collectives[r][c]
      /\ taken[r] \in Nat /\ taken[s] \in Nat
  BY Types DEF WaitsFor, Blocking
<1>2. /\ InStep(r, c) /\ BlockedByLast(r, c) /\ InStep(s, c)
      /\ currentTimeLine[r][c] \in Nat /\ currentTimeLine[s][c] \in Nat
  BY Types
<1>3. currentTimeLine[r][c] <= MaxTime
  BY <1>1, <1>2 DEF InStep
<1>4. currentTimeLine[r][c] \in Timelines
  BY <1>3, KeysOf
<1>5. CASE phase[r][c] = "before"
  <2>1. ~TookEvent(s, c, currentTimeLine[r][c])
    BY <1>1, <1>2, <1>5 DEF InStep, TookEvent
  <2>2. ~Popped(s, Event(r, c))
    BY <1>4, <2>1 DEF TakenExactly, Event
  <2> QED
    BY <1>1, <1>2, <1>5, <2>2 DEF BlockedByLast
<1>6. CASE phase[r][c] = "after"
  <2>1. ~TookSync(s, c, currentTimeLine[r][c])
    BY <1>1, <1>2, <1>6 DEF InStep, TookSync
  <2>2. ~Popped(s, Sync(r, c))
    BY <1>4, <2>1 DEF TakenExactly, Sync
  <2> QED
    BY <1>1, <1>2, <1>6, <2>2 DEF BlockedByLast
<1> QED
  BY <1>1, <1>5, <1>6

(* Of two ranks that waited for each other, each would have popped less of   *)
(* the order than the other.                                                 *)
LEMMA NeverCross == ProcessingInv => NoCrossing
<1> SUFFICES ASSUME ProcessingInv, NEW r \in Ranks, NEW s \in Ranks,
                    NEW c \in Contexts, NEW d \in Contexts,
                    WaitsFor(r, s, c), WaitsFor(s, r, d)
             PROVE  FALSE
  BY DEF NoCrossing
<1>1. /\ taken[r] \in Nat /\ taken[s] \in Nat /\ taken[r] > 0 /\ taken[s] > 0
      /\ ~Popped(s, order[taken[r]]) /\ ~Popped(r, order[taken[s]])
  BY NotPoppedYet
<1>2. taken[s] < taken[r]
  BY <1>1 DEF Popped
<1>3. taken[r] < taken[s]
  BY <1>1 DEF Popped
<1> QED
  BY <1>1, <1>2, <1>3

(* The barrier of an event, and the announcements of a send, tell that the   *)
(* others are ready.                                                         *)
LEMMA AreReady == ProcessingInv => ReadyTogether
<1> SUFFICES ASSUME ProcessingInv, NEW r \in Ranks, NEW s \in Ranks, NEW c \in Contexts
             PROVE  /\ phase[r][c] = "before" => \/ currentTimeLine[s][c] > currentTimeLine[r][c]
                                                 \/ eventScheduled[s][c] \/ phase[s][c] # "idle"
                    /\ phase[r][c] = "after" => \/ currentTimeLine[s][c] > currentTimeLine[r][c]
                                                \/ phase[s][c] \in {"sync", "after"}
  BY DEF ReadyTogether
<1> USE DEF ProcessingInv
<1>1. /\ InStep(r, c) /\ BlockedByLast(r, c) /\ BarrierPassed(r, c) /\ InStep(s, c)
      /\ currentTimeLine[r][c] \in Nat /\ currentTimeLine[s][c] \in Nat
  BY Types
<1>2. ASSUME phase[r][c] = "before"
      PROVE  \/ currentTimeLine[s][c] > currentTimeLine[r][c]
             \/ eventScheduled[s][c] \/ phase[s][c] # "idle"
  <2>1. barriers[s][c] >= currentTimeLine[r][c]
    BY <1>1, <1>2 DEF BarrierPassed
  <2> QED
    BY <1>1, <2>1 DEF InStep
<1>3. ASSUME phase[r][c] = "after"
      PROVE  \/ currentTimeLine[s][c] > currentTimeLine[r][c]
             \/ phase[s][c] \in {"sync", "after"}
  <2>1. currentTimeLine[r][c] \in Timelines
    BY <1>1, <1>3, KeysOf DEF InStep
  <2>2. taken[r] \in 1 .. Len(order) /\ order[taken[r]] = Sync(r, c)
    BY <1>1, <1>3, Types DEF BlockedByLast, ChosenByAll
  <2>3. announced[s][Sync(r, c)] = 1
    BY <2>2 DEF ChosenByAll
  <2>4. AnnouncedSync(s, c, currentTimeLine[r][c])
    <3>1. announced[s][<<"sync", c, currentTimeLine[r][c]>>] =
            IF AnnouncedSync(s, c, currentTimeLine[r][c]) THEN 1 ELSE 0
      BY <2>1 DEF AnnouncedExactly
    <3> QED
      BY <2>3, <3>1 DEF Sync
  <2> QED
    BY <1>1, <2>4 DEF AnnouncedSync
<1> QED
  BY <1>2, <1>3

(* The counts, the flags and the phases of the handlers, what the ranks have *)
(* announced and what they have popped always agree, for any ranks, contexts *)
(* and number of events (processEvents, legacy_context_server.cpp).          *)
THEOREM ProcessingExact == Spec => []ProcessingInv
<1>1. Init /\ [][Next]_vars => []ProcessingInv
  BY InitInv, NextInv, PTL
<1> QED
  BY <1>1, PTL DEF Spec

(* Collective calls of different contexts never wait for each other, and a   *)
(* rank blocks only when every other is ready to follow, for any ranks,      *)
(* contexts and number of events (event_scheduler.hpp:10).                   *)
THEOREM NothingEverCrosses == Spec => []NothingCrosses
<1>1. ProcessingInv => NothingCrosses
  BY NeverCross, AreReady DEF NothingCrosses, ProcessingInv
<1> QED
  BY <1>1, ProcessingExact, PTL

(* What the ranks announce, what is chosen of it and what they pop follow    *)
(* the one order of EventOrder, step by step.                                *)
THEOREM FollowsOneOrder == Spec => Scheduler!Init /\ [][Scheduler!Next]_orderVars
<1>1. Init => Scheduler!Init
  BY DEF Init
<1>2. ProcessingInv /\ [Next]_vars => [Scheduler!Next]_orderVars
  <2> SUFFICES ASSUME ProcessingInv, [Next]_vars PROVE [Scheduler!Next]_orderVars
    OBVIOUS
  <2>1. ASSUME NEW r \in Ranks, NEW c \in Contexts, RegisterEvent(r, c)
        PROVE  Scheduler!Next
    <3>1. Event(r, c) \in Keys /\ Scheduler!Announce(r, Event(r, c))
      BY <2>1, KeysOf DEF RegisterEvent, MayProcess, ProcessingInv
    <3> QED
      BY <3>1 DEF Scheduler!Next
  <2>2. ASSUME NEW r \in Ranks, NEW c \in Contexts, Sent(r, c)
        PROVE  Scheduler!Next
    <3>1. phase[r][c] = "send" /\ InStep(r, c) /\ TypeOK
      BY <2>2 DEF Sent, ProcessingInv
    <3>2. Sync(r, c) \in Keys
      BY <3>1, KeysOf DEF InStep
    <3> QED
      BY <2>2, <3>2 DEF Sent, Scheduler!Next
  <2>3. ASSUME NEW r \in Ranks, NEW c \in Contexts, DispatchEvent(r, c) \/ Synchronize(r, c)
        PROVE  Scheduler!Next
    BY <2>3 DEF DispatchEvent, Synchronize, Scheduler!Next
  <2>4. ASSUME NEW key \in Keys, Choose(key)
        PROVE  Scheduler!Next
    BY <2>4 DEF Choose, Scheduler!Next
  <2>5. ASSUME NEW r \in Ranks, NEW c \in Contexts,
               EnterBarrier(r, c) \/ StartSend(r, c) \/ EndEvent(r, c)
        PROVE  UNCHANGED orderVars
    BY <2>5 DEF EnterBarrier, StartSend, EndEvent
  <2>6. CASE UNCHANGED vars \/ Finished
    BY <2>6 DEF Finished, vars
  <2> QED
    BY <2>1, <2>2, <2>3, <2>4, <2>5, <2>6 DEF Next
<1> QED
  BY <1>1, <1>2, ProcessingExact, PTL DEF Spec

-----------------------------------------------------------------------------
(* The assembly of events (EventAssembly).                                 *)
CONSTANTS Clients, Servers, Script, BufferSize, RingSize, CheckSync
VARIABLES sent, written, wire, ring, events, lastTL, at, current, registeredPart,
          handled, error

A == INSTANCE EventAssembly WITH announced <- registeredPart

(* The part of its event at timeline t that c sends to s.                  *)
PartOf(c, s, t) == [from |-> c, timeLine |-> t, type |-> Script[c][t].type,
                    nbSender |-> Cardinality(Script[c][t].to[s])]
AllParts == {PartOf(c, s, t) : c \in Clients, s \in Servers, t \in 1 .. A!LastTime}
EventTypes == {Script[c][t].type : c \in Clients, t \in 1 .. A!LastTime} \cup {0}
InQueue(q, t) == \E i \in 1 .. Len(q) : q[i].timeLine = t
Heads == [nbSender : Nat, type : EventTypes, from : SUBSET Clients]

AssemblyTypes ==
  /\ sent \in [Clients -> 0 .. A!LastTime]
  /\ written \in [Clients -> [Servers -> Seq(AllParts)]]
  /\ wire \in [Clients -> [Servers -> Seq(AllParts)]]
  /\ events \in [Servers -> [1 .. A!LastTime -> Heads]]
  /\ lastTL \in [Servers -> [Clients -> 0 .. A!LastTime]]
  /\ at \in [Servers -> 1 .. A!N]
  /\ current \in [Servers -> 1 .. A!LastTime + 1]
  /\ registeredPart \in [Servers -> BOOLEAN]
  /\ handled \in [Servers -> Seq([type : EventTypes, from : SUBSET Clients])]
  /\ error \in BOOLEAN

(* What is on its way from c to s are parts of c for s, of its n events.   *)
OwnParts(q, c, s, n) ==
  \A i \in 1 .. Len(q) : \E t \in 1 .. n :
    q[i] = PartOf(c, s, t) /\ c \in Script[c][t].to[s]
PartsOwn == \A c \in Clients, s \in Servers : /\ OwnParts(written[c][s], c, s, sent[c])
                                              /\ OwnParts(wire[c][s], c, s, sent[c])

(* An event, known or handled, is what each client meant that sent a part. *)
AsMeant(e, t, has) == \A c \in e.from : t <= has[c] /\ Script[c][t].type = e.type
EventsMeant == ~error => \A s \in Servers, t \in 1 .. A!LastTime : AsMeant(events[s][t], t, sent)
HandledMeant ==
  \A s \in Servers : /\ current[s] = Len(handled[s]) + 1
                     /\ \A t \in 1 .. Len(handled[s]) : /\ handled[s][t].from # {}
                                                        /\ AsMeant(handled[s][t], t, sent)
RegisteredKnown ==
  \A s \in Servers : registeredPart[s] =>
    current[s] <= A!LastTime /\ events[s][current[s]].from # {}

(* With check_event_sync, the clients have sent the same types.            *)
SentAlike ==
  CheckSync => \A c, d \in Clients :
    sent[c] = sent[d] /\ \A t \in 1 .. sent[c] : Script[c][t].type = Script[d][t].type

MeantInv ==
  AssemblyTypes /\ PartsOwn /\ EventsMeant /\ HandledMeant /\ RegisteredKnown /\ SentAlike

-----------------------------------------------------------------------------
(* The clients agree.                                                      *)

(* The clients that have a part of event t for s.                          *)
Dest(s, t) == Script[1][t].to[s]

(* Parts come to a server in the order of their events.                    *)
Rising(q) == \A i, j \in 1 .. Len(q) : i < j => q[i].timeLine < q[j].timeLine
After(q, t) == \A i \in 1 .. Len(q) : t < q[i].timeLine
InTurn ==
  \A c \in Clients, s \in Servers :
    /\ lastTL[s][c] <= sent[c]
    /\ Rising(written[c][s]) /\ Rising(wire[c][s])
    /\ After(written[c][s], lastTL[s][c]) /\ After(wire[c][s], lastTL[s][c])
    /\ \A i \in 1 .. Len(wire[c][s]) : After(written[c][s], wire[c][s][i].timeLine)

(* What is known of an event is of its clients, and nothing is left behind of *)
(* one that was handled.                                                   *)
KnownRight ==
  \A s \in Servers, t \in 1 .. A!LastTime :
    /\ events[s][t].from # {} => /\ current[s] <= t
                                 /\ events[s][t].nbSender = Cardinality(Dest(s, t))
    /\ \A c \in events[s][t].from : c \in Dest(s, t) /\ t <= lastTL[s][c]
NothingLate ==
  \A c \in Clients, s \in Servers :
    After(written[c][s], current[s] - 1) /\ After(wire[c][s], current[s] - 1)

(* An event is registered and handled with the parts of all of its clients. *)
HandledWhole ==
  \A s \in Servers :
    /\ \A t \in 1 .. Len(handled[s]) : handled[s][t].from = Dest(s, t)
    /\ registeredPart[s] => events[s][current[s]].from = Dest(s, current[s])

(* The ring of a client holds its parts of the events not handled.         *)
Holds(known, c) == {t \in 1 .. A!LastTime : c \in known[t].from}
RingRight ==
  /\ ring \in [Servers -> [Clients -> Nat]]
  /\ \A s \in Servers, c \in Clients : ring[s][c] = Cardinality(Holds(events[s], c))

Bound == IF BufferSize > RingSize THEN BufferSize ELSE RingSize
Bounded ==
  \A c \in Clients, s \in Servers :
    /\ Len(written[c][s]) <= BufferSize /\ Len(wire[c][s]) <= BufferSize
    /\ ring[s][c] <= Bound

AgreedInv ==
  /\ InTurn /\ KnownRight /\ NothingLate /\ HandledWhole /\ Bounded
  /\ RingRight /\ A!NoFalseError

AssemblyInv == MeantInv /\ (A!Agreed => AgreedInv)

-----------------------------------------------------------------------------
(* Facts about the constants, parts and messages.                          *)

(* The instance counts with the Cardinality of FiniteSets.                 *)
LEMMA CountsAlike == \A S : A!Cardinality(S) = Cardinality(S)
BY DEF A!Cardinality, Cardinality

(* What the assumption says of clients, scripts and the sets of clients.   *)
LEMMA Scripts ==
  ASSUME A!AssemblyAssumption
  PROVE  /\ A!N \in Nat \ {0} /\ Clients = 1 .. A!N /\ 1 \in Clients
         /\ IsFiniteSet(Clients) /\ A!LastTime \in Nat
         /\ BufferSize \in Nat \ {0} /\ RingSize \in Nat \ {0} /\ CheckSync \in BOOLEAN
         /\ \A c \in Clients : Len(Script[c]) = A!LastTime
         /\ \A c \in Clients, t \in 1 .. A!LastTime, s \in Servers :
              /\ Script[c][t].to[s] \in SUBSET Clients
              /\ IsFiniteSet(Script[c][t].to[s])
              /\ Cardinality(Script[c][t].to[s]) \in Nat
<1>1. /\ IsFiniteSet(Clients) /\ Clients # {} /\ Clients = 1 .. Cardinality(Clients)
      /\ BufferSize \in Nat \ {0} /\ RingSize \in Nat \ {0} /\ CheckSync \in BOOLEAN
      /\ \A c \in Clients : /\ Len(Script[c]) \in Nat /\ Len(Script[c]) = Len(Script[1])
                            /\ \A t \in 1 .. Len(Script[c]) :
                                 Script[c][t].to \in [Servers -> SUBSET Clients]
  BY CountsAlike DEF A!AssemblyAssumption, A!IsFiniteSet, IsFiniteSet
<1>2. A!N = Cardinality(Clients) /\ A!LastTime = Len(Script[1])
  BY CountsAlike DEF A!N, A!LastTime
<1>3. Cardinality(Clients) \in Nat /\ Cardinality(Clients) # 0
  BY <1>1, FS_CardinalityType, FS_EmptySet
<1>4. 1 \in Clients
  BY <1>1, <1>3
<1>5. ASSUME NEW c \in Clients, NEW t \in 1 .. A!LastTime, NEW s \in Servers
      PROVE  /\ Script[c][t].to[s] \in SUBSET Clients
             /\ IsFiniteSet(Script[c][t].to[s])
             /\ Cardinality(Script[c][t].to[s]) \in Nat
  <2>1. Script[c][t].to \in [Servers -> SUBSET Clients]
    BY <1>1, <1>2
  <2>2. Script[c][t].to[s] \in SUBSET Clients
    BY <2>1
  <2> QED BY <1>1, <2>2, FS_Subset, FS_CardinalityType
<1>6. QED BY <1>1, <1>2, <1>3, <1>4, <1>5

(* The fields of a part of c for s, and that of the next event.            *)
LEMMA PartFields ==
  ASSUME A!AssemblyAssumption, NEW c \in Clients, NEW s \in Servers, NEW t \in 1 .. A!LastTime
  PROVE  /\ PartOf(c, s, t) \in AllParts
         /\ PartOf(c, s, t).from = c /\ PartOf(c, s, t).timeLine = t
         /\ PartOf(c, s, t).type = Script[c][t].type /\ Script[c][t].type \in EventTypes
         /\ PartOf(c, s, t).nbSender = Cardinality(Script[c][t].to[s])
         /\ PartOf(c, s, t).nbSender \in Nat
         /\ t = sent[c] + 1 => A!Part(c, s) = PartOf(c, s, t)
BY Scripts, CountsAlike DEF PartOf, AllParts, EventTypes, A!Part, A!Event

(* A message of c for s: what its parts are.                               *)
LEMMA OwnFields ==
  ASSUME A!AssemblyAssumption, AssemblyTypes, NEW c \in Clients, NEW s \in Servers,
         NEW q, OwnParts(q, c, s, sent[c]), NEW i \in 1 .. Len(q)
  PROVE  /\ q[i].timeLine \in 1 .. sent[c] /\ q[i].timeLine \in 1 .. A!LastTime
         /\ q[i].timeLine \in Nat
         /\ q[i] = PartOf(c, s, q[i].timeLine)
         /\ c \in Script[c][q[i].timeLine].to[s]
<1>1. PICK t \in 1 .. sent[c] : q[i] = PartOf(c, s, t) /\ c \in Script[c][t].to[s]
  BY DEF OwnParts
<1>2. sent[c] \in 0 .. A!LastTime /\ A!LastTime \in Nat
  BY Scripts DEF AssemblyTypes
<1>3. t \in 1 .. A!LastTime
  BY <1>2
<1>4. PartOf(c, s, t).timeLine = t
  BY <1>3, PartFields
<1>5. QED BY <1>1, <1>3, <1>4

(* What a message changes of what the server knows.                        *)
LEMMA TakenIn ==
  ASSUME A!AssemblyAssumption, AssemblyTypes, NEW c \in Clients, NEW s \in Servers,
         NEW q \in Seq(AllParts), q # <<>>, OwnParts(q, c, s, sent[c]), A!Received(s, c, q)
  PROVE  /\ events' \in [Servers -> [1 .. A!LastTime -> Heads]]
         /\ \A x \in Servers, t \in 1 .. A!LastTime :
              IF x = s /\ InQueue(q, t)
              THEN /\ events'[x][t].from = events[x][t].from \cup {c}
                   /\ events'[x][t].type = IF events[x][t].from = {} THEN Script[c][t].type
                                           ELSE events[x][t].type
                   /\ events'[x][t].nbSender = IF events[x][t].from = {}
                                               THEN Cardinality(Script[c][t].to[s])
                                               ELSE events[x][t].nbSender
              ELSE events'[x][t] = events[x][t]
         /\ error' \in BOOLEAN
         /\ error' <=> \/ \E t \in 1 .. A!LastTime :
                            /\ InQueue(q, t) /\ events[s][t].from # {}
                            /\ \/ events[s][t].type # Script[c][t].type
                               \/ events[s][t].nbSender # Cardinality(Script[c][t].to[s])
                       \/ \E t \in 1 .. A!LastTime :
                            Cardinality(events'[s][t].from) > events'[s][t].nbSender
<1> DEFINE places(t) == {i \in 1 .. Len(q) : q[i].timeLine = t}
           after == [t \in 1 .. A!LastTime |->
                       IF places(t) = {} THEN events[s][t]
                       ELSE A!With(events[s][t], q[CHOOSE i \in places(t) : TRUE])]
<1>1. /\ events' = [events EXCEPT ![s] = after]
      /\ error' = (~ (\A i \in 1 .. Len(q) : A!Coherent(events[s][q[i].timeLine], q[i]))
                   \/ \E t \in 1 .. A!LastTime : A!TooMany(after[t]))
  BY DEF A!Received
<1>2. events \in [Servers -> [1 .. A!LastTime -> Heads]]
  BY DEF AssemblyTypes
<1>3. ASSUME NEW t \in 1 .. A!LastTime
      PROVE  after[t] = IF InQueue(q, t) THEN A!With(events[s][t], PartOf(c, s, t)) ELSE events[s][t]
  <2>1. CASE InQueue(q, t)
    <3>1. places(t) # {}
      BY <2>1 DEF InQueue
    <3>2. PICK i : i = CHOOSE j \in places(t) : TRUE
      OBVIOUS
    <3>3. i \in places(t)
      BY <3>1, <3>2
    <3>4. i \in 1 .. Len(q) /\ q[i].timeLine = t
      BY <3>3
    <3>5. q[i] = PartOf(c, s, t)
      BY <3>4, OwnFields
    <3> QED BY <2>1, <3>1, <3>2, <3>5
  <2>2. CASE ~InQueue(q, t)
    BY <2>2 DEF InQueue
  <2> QED BY <2>1, <2>2
<1>4. ASSUME NEW t \in 1 .. A!LastTime
      PROVE  /\ after[t] \in Heads
             /\ InQueue(q, t) =>
                  /\ after[t].from = events[s][t].from \cup {c}
                  /\ after[t].type = IF events[s][t].from = {} THEN Script[c][t].type
                                     ELSE events[s][t].type
                  /\ after[t].nbSender = IF events[s][t].from = {}
                                         THEN Cardinality(Script[c][t].to[s])
                                         ELSE events[s][t].nbSender
             /\ ~InQueue(q, t) => after[t] = events[s][t]
  <2>1. PICK e \in Heads : e = events[s][t]
    BY <1>2
  <2>2. PICK p : p = PartOf(c, s, t)
    OBVIOUS
  <2>3. /\ p.from = c /\ p.type = Script[c][t].type /\ p.type \in EventTypes
        /\ p.nbSender = Cardinality(Script[c][t].to[s]) /\ p.nbSender \in Nat
    BY <2>2, PartFields
  <2>4. after[t] = IF InQueue(q, t) THEN A!With(e, p) ELSE e
    BY <1>3, <2>1, <2>2
  <2>5. /\ A!With(e, p).from = e.from \cup {c}
        /\ A!With(e, p).type = IF e.from = {} THEN p.type ELSE e.type
        /\ A!With(e, p).nbSender = IF e.from = {} THEN p.nbSender ELSE e.nbSender
        /\ A!With(e, p) \in Heads
    <3> HIDE DEF after, places
    <3> QED BY <2>3 DEF A!With, Heads
  <2> HIDE DEF after
  <2> QED BY <2>1, <2>3, <2>4, <2>5
<1>5. after \in [1 .. A!LastTime -> Heads]
  <2>1. \A t \in 1 .. A!LastTime : after[t] \in Heads
    BY <1>4
  <2> QED BY <2>1
<1>6. (\A i \in 1 .. Len(q) : A!Coherent(events[s][q[i].timeLine], q[i])) <=>
        ~ \E t \in 1 .. A!LastTime :
            /\ InQueue(q, t) /\ events[s][t].from # {}
            /\ \/ events[s][t].type # Script[c][t].type
               \/ events[s][t].nbSender # Cardinality(Script[c][t].to[s])
  <2>1. ASSUME NEW i \in 1 .. Len(q)
        PROVE  /\ q[i].timeLine \in 1 .. A!LastTime
               /\ q[i].type = Script[c][q[i].timeLine].type
               /\ q[i].nbSender = Cardinality(Script[c][q[i].timeLine].to[s])
    BY OwnFields, PartFields
  <2> HIDE DEF after
  <2> QED BY <2>1 DEF InQueue, A!Coherent
<1>7. \A t \in 1 .. A!LastTime : A!TooMany(after[t]) <=> Cardinality(after[t].from) > after[t].nbSender
  BY CountsAlike DEF A!TooMany
<1> HIDE DEF after
<1>8. /\ events' \in [Servers -> [1 .. A!LastTime -> Heads]]
      /\ \A x \in Servers : events'[x] = IF x = s THEN after ELSE events[x]
  BY <1>1, <1>2, <1>5
<1>9. error' <=> \/ \E t \in 1 .. A!LastTime :
                      /\ InQueue(q, t) /\ events[s][t].from # {}
                      /\ \/ events[s][t].type # Script[c][t].type
                         \/ events[s][t].nbSender # Cardinality(Script[c][t].to[s])
                 \/ \E t \in 1 .. A!LastTime :
                      Cardinality(events'[s][t].from) > events'[s][t].nbSender
  BY <1>1, <1>6, <1>7, <1>8
<1>10. error' \in BOOLEAN
  BY <1>1
<1>11. ASSUME NEW x \in Servers, NEW t \in 1 .. A!LastTime
       PROVE  IF x = s /\ InQueue(q, t)
              THEN /\ events'[x][t].from = events[x][t].from \cup {c}
                   /\ events'[x][t].type = IF events[x][t].from = {} THEN Script[c][t].type
                                           ELSE events[x][t].type
                   /\ events'[x][t].nbSender = IF events[x][t].from = {}
                                               THEN Cardinality(Script[c][t].to[s])
                                               ELSE events[x][t].nbSender
              ELSE events'[x][t] = events[x][t]
  BY <1>4, <1>8
<1>12. QED BY <1>8, <1>9, <1>10, <1>11

-----------------------------------------------------------------------------
(* Clients that may disagree: MeantInv is inductive.                       *)

(* A message or a buffer whose client has sent more is still its own.      *)
LEMMA StillOwn ==
  ASSUME NEW c, NEW s, NEW q, NEW n \in Nat, NEW m \in Nat, n <= m, OwnParts(q, c, s, n)
  PROVE  OwnParts(q, c, s, m)
<1>1. ASSUME NEW i \in 1 .. Len(q)
      PROVE  \E t \in 1 .. m : q[i] = PartOf(c, s, t) /\ c \in Script[c][t].to[s]
  <2>1. PICK t \in 1 .. n : q[i] = PartOf(c, s, t) /\ c \in Script[c][t].to[s]
    BY DEF OwnParts
  <2>2. t \in 1 .. m
    BY <2>1
  <2> QED BY <2>1, <2>2
<1> QED BY <1>1 DEF OwnParts

(* The part of one more event, behind those of the events before.          *)
LEMMA OneMore ==
  ASSUME A!AssemblyAssumption, NEW c \in Clients, NEW s \in Servers, NEW q \in Seq(AllParts),
         NEW n \in Nat, OwnParts(q, c, s, n), NEW m \in 1 .. A!LastTime, m = n + 1,
         c \in Script[c][m].to[s]
  PROVE  /\ Append(q, PartOf(c, s, m)) \in Seq(AllParts)
         /\ OwnParts(Append(q, PartOf(c, s, m)), c, s, m)
<1>1. PICK p : p = PartOf(c, s, m)
  OBVIOUS
<1>2. /\ Append(q, p) \in Seq(AllParts) /\ Len(Append(q, p)) = Len(q) + 1 /\ Len(q) \in Nat
      /\ \A i \in 1 .. Len(q) : Append(q, p)[i] = q[i]
      /\ Append(q, p)[Len(q) + 1] = p
  <2>1. p \in AllParts
    BY <1>1, PartFields
  <2> QED BY <2>1, AppendProperties, LenProperties
<1>3. ASSUME NEW i \in 1 .. Len(Append(q, p))
      PROVE  \E u \in 1 .. m : Append(q, p)[i] = PartOf(c, s, u) /\ c \in Script[c][u].to[s]
  <2>1. CASE i \in 1 .. Len(q)
    <3>1. PICK u \in 1 .. n : q[i] = PartOf(c, s, u) /\ c \in Script[c][u].to[s]
      BY <2>1 DEF OwnParts
    <3>2. u \in 1 .. m
      OBVIOUS
    <3> QED BY <1>2, <2>1, <3>1, <3>2
  <2>2. CASE i = Len(q) + 1
    <3>1. m \in 1 .. m
      BY Scripts
    <3> QED BY <1>1, <1>2, <2>2, <3>1
  <2> QED BY <1>2, <2>1, <2>2
<1> QED BY <1>1, <1>2, <1>3 DEF OwnParts

(* Nothing of what clients or servers hold is meant otherwise when clients *)
(* have sent more.                                                         *)
LEMMA StillMeant ==
  ASSUME A!AssemblyAssumption, MeantInv, sent' \in [Clients -> 0 .. A!LastTime],
         \A c \in Clients : sent[c] <= sent'[c],
         UNCHANGED <<events, current, registeredPart, handled>>, ~error' => ~error
  PROVE  EventsMeant' /\ HandledMeant' /\ RegisteredKnown'
<1>1. /\ sent \in [Clients -> 0 .. A!LastTime] /\ A!LastTime \in Nat
      /\ events \in [Servers -> [1 .. A!LastTime -> Heads]]
      /\ \A s \in Servers : handled[s] \in Seq([type : EventTypes, from : SUBSET Clients])
  BY Scripts DEF MeantInv, AssemblyTypes
<1>2. \A e, t : t \in Nat /\ e.from \subseteq Clients /\ AsMeant(e, t, sent) => AsMeant(e, t, sent')
  <2> SUFFICES ASSUME NEW e, NEW t \in Nat, e.from \subseteq Clients, AsMeant(e, t, sent)
               PROVE  AsMeant(e, t, sent')
    OBVIOUS
  <2>1. ASSUME NEW c \in e.from PROVE t <= sent'[c] /\ Script[c][t].type = e.type
    <3>1. t <= sent[c] /\ Script[c][t].type = e.type /\ c \in Clients
      BY DEF AsMeant
    <3> QED BY <1>1, <3>1
  <2> QED BY <2>1 DEF AsMeant
<1>3. EventsMeant'
  <2> SUFFICES ASSUME ~error', NEW s \in Servers, NEW t \in 1 .. A!LastTime
               PROVE  AsMeant(events'[s][t], t, sent')
    BY DEF EventsMeant
  <2>1. AsMeant(events[s][t], t, sent)
    BY DEF MeantInv, EventsMeant
  <2>2. events[s][t].from \subseteq Clients /\ t \in Nat
    BY <1>1 DEF Heads
  <2> QED BY <1>2, <2>1, <2>2
<1>4. HandledMeant'
  <2> SUFFICES ASSUME NEW s \in Servers
               PROVE  /\ current[s] = Len(handled[s]) + 1
                      /\ \A t \in 1 .. Len(handled[s]) : /\ handled[s][t].from # {}
                                                         /\ AsMeant(handled[s][t], t, sent')
    BY DEF HandledMeant
  <2>1. /\ current[s] = Len(handled[s]) + 1
        /\ \A t \in 1 .. Len(handled[s]) : handled[s][t].from # {} /\ AsMeant(handled[s][t], t, sent)
    BY DEF MeantInv, HandledMeant
  <2>2. \A t \in 1 .. Len(handled[s]) : handled[s][t].from \subseteq Clients /\ t \in Nat
    <3>1. \A t \in 1 .. Len(handled[s]) : handled[s][t] \in [type : EventTypes, from : SUBSET Clients]
      BY <1>1, ElementOfSeq
    <3> QED BY <3>1
  <2> QED BY <1>2, <2>1, <2>2
<1>5. RegisteredKnown'
  BY DEF MeantInv, RegisteredKnown
<1> QED BY <1>3, <1>4, <1>5

(* sendEvent of one client.                                                *)
LEMMA MeantSend ==
  ASSUME A!AssemblyAssumption, MeantInv, NEW c \in Clients, A!SendEvent(c)
  PROVE  MeantInv'
<1> USE DEF MeantInv
<1>1. /\ ~error /\ ~CheckSync /\ sent[c] < A!LastTime
      /\ written' = [written EXCEPT ![c] = [s \in Servers |->
                       IF s \in A!Concerned(c) THEN Append(@[s], A!Part(c, s)) ELSE @[s]]]
      /\ sent' = [sent EXCEPT ![c] = @ + 1]
      /\ UNCHANGED <<wire, ring, events, lastTL, at, current, registeredPart, handled, error>>
  BY DEF A!SendEvent, A!Write, A!servers
<1>2. A!LastTime \in Nat /\ sent \in [Clients -> 0 .. A!LastTime]
      /\ written \in [Clients -> [Servers -> Seq(AllParts)]]
  BY Scripts DEF AssemblyTypes
<1>3. /\ sent' \in [Clients -> 0 .. A!LastTime] /\ sent'[c] = sent[c] + 1
      /\ \A d \in Clients : sent'[d] \in Nat /\ sent[d] <= sent'[d]
  BY <1>1, <1>2
<1>4. ASSUME NEW s \in Servers
      PROVE  written'[c][s] \in Seq(AllParts) /\ OwnParts(written'[c][s], c, s, sent'[c])
  <2>1. written'[c][s] = IF s \in A!Concerned(c) THEN Append(written[c][s], A!Part(c, s))
                         ELSE written[c][s]
    BY <1>1, <1>2
  <2>2. written[c][s] \in Seq(AllParts) /\ OwnParts(written[c][s], c, s, sent[c])
    BY <1>2 DEF PartsOwn
  <2>3. CASE s \in A!Concerned(c)
    <3>1. PICK n, m : n = sent[c] /\ m = n + 1
      OBVIOUS
    <3>2. n \in Nat /\ m \in 1 .. A!LastTime /\ sent'[c] = m
      BY <1>1, <1>2, <1>3, <3>1
    <3>3. A!Part(c, s) = PartOf(c, s, m) /\ c \in Script[c][m].to[s]
      BY <2>3, <3>1, <3>2, PartFields DEF A!Concerned, A!Event
    <3>4. PICK q \in Seq(AllParts) : q = written[c][s]
      BY <2>2
    <3>5. OwnParts(q, c, s, n)
      BY <2>2, <3>1, <3>4
    <3>6. Append(q, PartOf(c, s, m)) \in Seq(AllParts) /\ OwnParts(Append(q, PartOf(c, s, m)), c, s, m)
      BY <3>1, <3>2, <3>3, <3>5, OneMore
    <3> QED BY <2>1, <2>3, <3>2, <3>3, <3>4, <3>6
  <2>4. CASE s \notin A!Concerned(c)
    BY <1>2, <1>3, <2>1, <2>2, <2>4, StillOwn
  <2> QED BY <2>3, <2>4
<1>5. \A d \in Clients \ {c} : written'[d] = written[d]
  BY <1>1, <1>2
<1>6. written' \in [Clients -> [Servers -> Seq(AllParts)]]
  <2>1. written'[c] \in [Servers -> Seq(AllParts)]
    <3>1. written'[c] = [s \in Servers |-> written'[c][s]]
      BY <1>1, <1>2
    <3> QED BY <1>4, <3>1
  <2> QED BY <1>1, <1>2, <2>1
<1>7. AssemblyTypes'
  BY <1>1, <1>3, <1>6 DEF AssemblyTypes
<1>8. PartsOwn'
  <2> SUFFICES ASSUME NEW d \in Clients, NEW s \in Servers
               PROVE  OwnParts(written'[d][s], d, s, sent'[d]) /\ OwnParts(wire[d][s], d, s, sent'[d])
    BY <1>1 DEF PartsOwn
  <2>1. OwnParts(wire[d][s], d, s, sent'[d])
    BY <1>2, <1>3, StillOwn DEF PartsOwn
  <2>2. OwnParts(written[d][s], d, s, sent'[d])
    BY <1>2, <1>3, StillOwn DEF PartsOwn
  <2> QED BY <1>4, <1>5, <2>1, <2>2
<1>9. EventsMeant' /\ HandledMeant' /\ RegisteredKnown'
  BY <1>1, <1>3, StillMeant
<1>10. SentAlike'
  BY <1>1 DEF SentAlike
<1> QED BY <1>7, <1>8, <1>9, <1>10

(* The clients compare their events, and send them or raise an error.      *)
LEMMA MeantSendChecked ==
  ASSUME A!AssemblyAssumption, MeantInv, A!SendChecked
  PROVE  MeantInv'
<1> USE DEF MeantInv
<1>1. CASE error' = TRUE /\ UNCHANGED <<A!channels, A!servers>>
  <2>1. UNCHANGED <<sent, written, wire, ring, events, lastTL, at, current, registeredPart, handled>>
    BY <1>1 DEF A!channels, A!servers
  <2>2. AssemblyTypes' /\ PartsOwn' /\ SentAlike'
    BY <1>1, <2>1 DEF AssemblyTypes, PartsOwn, SentAlike
  <2>3. EventsMeant' /\ HandledMeant' /\ RegisteredKnown'
    BY <1>1, <2>1 DEF EventsMeant, HandledMeant, RegisteredKnown
  <2> QED BY <2>2, <2>3
<1>2. CASE /\ \A c \in Clients : ~A!Incoherent(c)
           /\ written' = [c \in Clients |-> [s \in Servers |->
                IF s \in A!Concerned(c) THEN Append(written[c][s], A!Part(c, s)) ELSE written[c][s]]]
           /\ sent' = [c \in Clients |-> sent[c] + 1]
           /\ UNCHANGED <<wire, A!servers, error>>
  <2>1. /\ A!LastTime \in Nat /\ sent \in [Clients -> 0 .. A!LastTime]
        /\ written \in [Clients -> [Servers -> Seq(AllParts)]]
        /\ \A c, d \in Clients : sent[c] = sent[d] /\ sent[c] < A!LastTime
        /\ UNCHANGED <<wire, ring, events, lastTL, at, current, registeredPart, handled, error>>
    BY <1>2, Scripts DEF AssemblyTypes, A!SendChecked, A!servers
  <2>2. /\ sent' \in [Clients -> 0 .. A!LastTime]
        /\ \A c \in Clients : sent'[c] = sent[c] + 1 /\ sent'[c] \in Nat /\ sent[c] <= sent'[c]
    BY <1>2, <2>1
  <2>3. ASSUME NEW c \in Clients, NEW s \in Servers
        PROVE  written'[c][s] \in Seq(AllParts) /\ OwnParts(written'[c][s], c, s, sent'[c])
    <3>1. written'[c][s] = IF s \in A!Concerned(c) THEN Append(written[c][s], A!Part(c, s))
                           ELSE written[c][s]
      BY <1>2
    <3>2. written[c][s] \in Seq(AllParts) /\ OwnParts(written[c][s], c, s, sent[c])
      BY <2>1 DEF PartsOwn
    <3>3. CASE s \in A!Concerned(c)
      <4>1. PICK n, m : n = sent[c] /\ m = n + 1
        OBVIOUS
      <4>2. n \in Nat /\ m \in 1 .. A!LastTime /\ sent'[c] = m
        BY <2>1, <2>2, <4>1
      <4>3. A!Part(c, s) = PartOf(c, s, m) /\ c \in Script[c][m].to[s]
        BY <3>3, <4>1, <4>2, PartFields DEF A!Concerned, A!Event
      <4>4. PICK q \in Seq(AllParts) : q = written[c][s]
        BY <3>2
      <4>5. OwnParts(q, c, s, n)
        BY <3>2, <4>1, <4>4
      <4>6. Append(q, PartOf(c, s, m)) \in Seq(AllParts) /\ OwnParts(Append(q, PartOf(c, s, m)), c, s, m)
        BY <4>1, <4>2, <4>3, <4>5, OneMore
      <4> QED BY <3>1, <3>3, <4>2, <4>3, <4>4, <4>6
    <3>4. CASE s \notin A!Concerned(c)
      BY <2>1, <2>2, <3>1, <3>2, <3>4, StillOwn
    <3> QED BY <3>3, <3>4
  <2>4. written' \in [Clients -> [Servers -> Seq(AllParts)]]
    <3>1. written' = [c \in Clients |-> [s \in Servers |-> written'[c][s]]]
      BY <1>2
    <3> QED BY <2>3, <3>1
  <2>5. AssemblyTypes'
    BY <2>1, <2>2, <2>4 DEF AssemblyTypes
  <2>6. PartsOwn'
    <3> SUFFICES ASSUME NEW c \in Clients, NEW s \in Servers
                 PROVE  OwnParts(wire[c][s], c, s, sent'[c])
      BY <2>1, <2>3 DEF PartsOwn
    <3>1. OwnParts(wire[c][s], c, s, sent[c])
      BY DEF PartsOwn
    <3> QED BY <2>1, <2>2, <3>1, StillOwn
  <2>7. EventsMeant' /\ HandledMeant' /\ RegisteredKnown'
    BY <2>1, <2>2, StillMeant
  <2>8. SentAlike'
    <3> SUFFICES ASSUME CheckSync, NEW c \in Clients, NEW d \in Clients
                 PROVE  /\ sent'[c] = sent'[d]
                        /\ \A t \in 1 .. sent'[c] : Script[c][t].type = Script[d][t].type
      BY DEF SentAlike
    <3>1. sent'[c] = sent'[d] /\ sent'[c] = sent[c] + 1 /\ sent[c] \in Nat /\ sent[d] = sent[c]
      BY <2>1, <2>2
    <3>2. \A t \in 1 .. sent[c] : Script[c][t].type = Script[d][t].type
      BY DEF SentAlike
    <3>3. A!Event(c).type = A!Event(d).type
      BY <1>2 DEF A!Incoherent
    <3>4. Script[c][sent[c] + 1].type = Script[d][sent[c] + 1].type
      BY <3>1, <3>3 DEF A!Event
    <3>5. \A t \in 1 .. sent'[c] : t \in 1 .. sent[c] \/ t = sent[c] + 1
      BY <3>1
    <3> QED BY <3>1, <3>2, <3>4, <3>5
  <2> QED BY <2>5, <2>6, <2>7, <2>8
<1> QED BY <1>1, <1>2 DEF A!SendChecked

(* A buffer leaves as a message.                                           *)
LEMMA MeantPush ==
  ASSUME A!AssemblyAssumption, MeantInv, NEW c \in Clients, NEW s \in Servers, A!Push(c, s)
  PROVE  MeantInv'
<1> USE DEF MeantInv
<1>1. /\ wire' = [wire EXCEPT ![c][s] = written[c][s]]
      /\ written' = [written EXCEPT ![c][s] = <<>>]
      /\ UNCHANGED <<sent, ring, events, lastTL, at, current, registeredPart, handled, error>>
  BY DEF A!Push, A!servers
<1>2. /\ written \in [Clients -> [Servers -> Seq(AllParts)]]
      /\ wire \in [Clients -> [Servers -> Seq(AllParts)]]
      /\ <<>> \in Seq(AllParts) /\ Len(<<>>) = 0
  BY EmptySeq DEF AssemblyTypes
<1>3. /\ written' \in [Clients -> [Servers -> Seq(AllParts)]]
      /\ wire' \in [Clients -> [Servers -> Seq(AllParts)]]
  BY <1>1, <1>2
<1>4. ASSUME NEW d \in Clients, NEW x \in Servers
      PROVE  OwnParts(written'[d][x], d, x, sent[d]) /\ OwnParts(wire'[d][x], d, x, sent[d])
  <2>1. /\ written'[d][x] = IF d = c /\ x = s THEN <<>> ELSE written[d][x]
        /\ wire'[d][x] = IF d = c /\ x = s THEN written[d][x] ELSE wire[d][x]
    BY <1>1, <1>2
  <2>2. OwnParts(<<>>, d, x, sent[d])
    BY <1>2 DEF OwnParts
  <2>3. OwnParts(written[d][x], d, x, sent[d]) /\ OwnParts(wire[d][x], d, x, sent[d])
    BY DEF PartsOwn
  <2> QED BY <2>1, <2>2, <2>3
<1>5. AssemblyTypes'
  BY <1>1, <1>3 DEF AssemblyTypes
<1>6. PartsOwn'
  BY <1>1, <1>4 DEF PartsOwn
<1>7. EventsMeant' /\ HandledMeant' /\ RegisteredKnown' /\ SentAlike'
  BY <1>1 DEF EventsMeant, HandledMeant, RegisteredKnown, SentAlike
<1> QED BY <1>5, <1>6, <1>7

(* How a message, or what a buffer holds, comes to the server.             *)
Moved(c, s, q) ==
  \/ wire[c][s] = q /\ wire' = [wire EXCEPT ![c][s] = <<>>] /\ written' = written
  \/ written[c][s] = q /\ written' = [written EXCEPT ![c][s] = <<>>] /\ wire' = wire

(* A buffer or a channel that is emptied.                                  *)
LEMMA Emptied ==
  ASSUME NEW f \in [Clients -> [Servers -> Seq(AllParts)]], NEW c \in Clients, NEW s \in Servers,
         NEW g, g = [f EXCEPT ![c][s] = <<>>]
  PROVE  /\ g \in [Clients -> [Servers -> Seq(AllParts)]]
         /\ \A d \in Clients, x \in Servers :
              g[d][x] = IF d = c /\ x = s THEN <<>> ELSE f[d][x]
<1>1. <<>> \in Seq(AllParts)
  BY EmptySeq
<1>2. g[c] = [f[c] EXCEPT ![s] = <<>>] /\ \A d \in Clients \ {c} : g[d] = f[d]
  OBVIOUS
<1>3. g[c] \in [Servers -> Seq(AllParts)]
  BY <1>1, <1>2
<1> QED BY <1>2, <1>3

(* What is left behind it, and what has not moved.                         *)
LEMMA MovedAway ==
  ASSUME AssemblyTypes, NEW c \in Clients, NEW s \in Servers, NEW q, Moved(c, s, q)
  PROVE  /\ written' \in [Clients -> [Servers -> Seq(AllParts)]]
         /\ wire' \in [Clients -> [Servers -> Seq(AllParts)]]
         /\ \A d \in Clients, x \in Servers : d # c \/ x # s =>
              written'[d][x] = written[d][x] /\ wire'[d][x] = wire[d][x]
         /\ \/ wire[c][s] = q /\ wire'[c][s] = <<>> /\ written'[c][s] = written[c][s]
            \/ written[c][s] = q /\ written'[c][s] = <<>> /\ wire'[c][s] = wire[c][s]
<1>1. /\ written \in [Clients -> [Servers -> Seq(AllParts)]]
      /\ wire \in [Clients -> [Servers -> Seq(AllParts)]]
  BY DEF AssemblyTypes
<1>2. CASE wire[c][s] = q /\ wire' = [wire EXCEPT ![c][s] = <<>>] /\ written' = written
  <2>1. /\ wire' \in [Clients -> [Servers -> Seq(AllParts)]]
        /\ \A d \in Clients, x \in Servers :
             wire'[d][x] = IF d = c /\ x = s THEN <<>> ELSE wire[d][x]
    BY <1>1, <1>2, Emptied
  <2> QED BY <1>1, <1>2, <2>1
<1>3. CASE written[c][s] = q /\ written' = [written EXCEPT ![c][s] = <<>>] /\ wire' = wire
  <2>1. /\ written' \in [Clients -> [Servers -> Seq(AllParts)]]
        /\ \A d \in Clients, x \in Servers :
             written'[d][x] = IF d = c /\ x = s THEN <<>> ELSE written[d][x]
    BY <1>1, <1>3, Emptied
  <2> QED BY <1>1, <1>3, <2>1
<1> QED BY <1>2, <1>3 DEF Moved

(* The parts that a server takes are what their client meant; if they are not *)
(* what is known of the event, an error is raised.                         *)
LEMMA MeantTake ==
  ASSUME A!AssemblyAssumption, MeantInv, NEW c \in Clients, NEW s \in Servers,
         NEW q, q # <<>>, Moved(c, s, q), A!Received(s, c, q), ~error,
         at' \in [Servers -> 1 .. A!N]
  PROVE  MeantInv'
<1> USE DEF MeantInv
<1>1. /\ written \in [Clients -> [Servers -> Seq(AllParts)]]
      /\ wire \in [Clients -> [Servers -> Seq(AllParts)]]
      /\ <<>> \in Seq(AllParts) /\ Len(<<>>) = 0
      /\ A!LastTime \in Nat /\ sent \in [Clients -> 0 .. A!LastTime]
  BY EmptySeq, Scripts DEF AssemblyTypes
<1>2. q \in Seq(AllParts) /\ OwnParts(q, c, s, sent[c])
  BY <1>1 DEF Moved, PartsOwn
<1>3. /\ UNCHANGED <<sent, current, registeredPart, handled>>
      /\ lastTL' = [lastTL EXCEPT ![s][c] = q[Len(q)].timeLine]
  BY DEF A!Received
<1>4. Len(q) \in 1 .. Len(q)
  BY <1>2, EmptySeq
<1>5. q[Len(q)].timeLine \in 0 .. A!LastTime
  <2>1. q[Len(q)].timeLine \in 1 .. A!LastTime
    BY <1>2, <1>4, OwnFields
  <2> QED BY <1>1, <2>1
<1>6. /\ written' \in [Clients -> [Servers -> Seq(AllParts)]]
      /\ wire' \in [Clients -> [Servers -> Seq(AllParts)]]
  BY MovedAway
<1>7. lastTL' \in [Servers -> [Clients -> 0 .. A!LastTime]]
  BY <1>3, <1>5 DEF AssemblyTypes
<1>8. /\ events' \in [Servers -> [1 .. A!LastTime -> Heads]]
      /\ \A x \in Servers, t \in 1 .. A!LastTime :
           IF x = s /\ InQueue(q, t)
           THEN /\ events'[x][t].from = events[x][t].from \cup {c}
                /\ events'[x][t].type = IF events[x][t].from = {} THEN Script[c][t].type
                                        ELSE events[x][t].type
           ELSE events'[x][t] = events[x][t]
      /\ error' \in BOOLEAN
      /\ ~error' => \A t \in 1 .. A!LastTime :
           InQueue(q, t) /\ events[s][t].from # {} => events[s][t].type = Script[c][t].type
  BY <1>2, TakenIn
<1>9. AssemblyTypes'
  BY <1>3, <1>6, <1>7, <1>8 DEF AssemblyTypes
<1>10. PartsOwn'
  <2> SUFFICES ASSUME NEW d \in Clients, NEW x \in Servers
               PROVE  OwnParts(written'[d][x], d, x, sent[d]) /\ OwnParts(wire'[d][x], d, x, sent[d])
    BY <1>3 DEF PartsOwn
  <2>1. /\ written'[d][x] = written[d][x] \/ written'[d][x] = <<>>
        /\ wire'[d][x] = wire[d][x] \/ wire'[d][x] = <<>>
    BY MovedAway
  <2>2. OwnParts(<<>>, d, x, sent[d])
    BY <1>1 DEF OwnParts
  <2>3. OwnParts(written[d][x], d, x, sent[d]) /\ OwnParts(wire[d][x], d, x, sent[d])
    BY DEF PartsOwn
  <2> QED BY <2>1, <2>2, <2>3
<1>11. EventsMeant'
  <2> SUFFICES ASSUME ~error', NEW x \in Servers, NEW t \in 1 .. A!LastTime
               PROVE  AsMeant(events'[x][t], t, sent)
    BY <1>3 DEF EventsMeant
  <2>1. AsMeant(events[x][t], t, sent)
    BY DEF EventsMeant
  <2>2. CASE x = s /\ InQueue(q, t)
    <3>1. PICK i \in 1 .. Len(q) : q[i].timeLine = t
      BY <2>2 DEF InQueue
    <3>2. t \in 1 .. sent[c]
      BY <1>2, <3>1, OwnFields
    <3>3. events'[x][t].from = events[x][t].from \cup {c} /\ events'[x][t].type = Script[c][t].type
      BY <1>8, <2>2
    <3>4. ASSUME NEW d \in events[x][t].from PROVE t <= sent[d] /\ Script[d][t].type = Script[c][t].type
      BY <1>8, <2>1, <2>2, <3>4 DEF AsMeant
    <3>5. t <= sent[c]
      BY <3>2
    <3> QED BY <3>3, <3>4, <3>5 DEF AsMeant
  <2>3. CASE ~(x = s /\ InQueue(q, t))
    BY <1>8, <2>1, <2>3
  <2> QED BY <2>2, <2>3
<1>12. HandledMeant' /\ SentAlike'
  BY <1>3 DEF HandledMeant, SentAlike
<1>13. RegisteredKnown'
  <2> SUFFICES ASSUME NEW x \in Servers, registeredPart[x]
               PROVE  current[x] <= A!LastTime /\ events'[x][current[x]].from # {}
    BY <1>3 DEF RegisteredKnown
  <2>1. /\ current[x] <= A!LastTime /\ events[x][current[x]].from # {}
        /\ current[x] \in 1 .. A!LastTime + 1
    BY DEF RegisteredKnown, AssemblyTypes
  <2>2. current[x] \in 1 .. A!LastTime
    BY <1>1, <2>1
  <2> QED BY <1>8, <2>1, <2>2
<1> QED BY <1>9, <1>10, <1>11, <1>12, <1>13

(* What a server does when it lacks the current event: it takes the buffer of *)
(* a client that begins with it, or looks further.                         *)
Looked == /\ at' \in [Servers -> 1 .. A!N]
          /\ UNCHANGED <<sent, written, wire, ring, events, lastTL, current, registeredPart,
                         handled, error>>
Fetched(c, s, q) ==
  /\ q = written[c][s] /\ q # <<>> /\ q[1].timeLine = current[s]
  /\ lastTL[s][c] < current[s] /\ ring[s][c] = 0
  /\ A!Received(s, c, q)
  /\ written' = [written EXCEPT ![c][s] = <<>>] /\ wire' = wire
  /\ at' \in [Servers -> 1 .. A!N]

LEMMA PullCases ==
  ASSUME A!AssemblyAssumption, AssemblyTypes, NEW s \in Servers, A!Pull(s)
  PROVE  ~error /\ (Looked \/ \E c \in Clients : Fetched(c, s, written[c][s]))
<1>1. /\ A!N \in Nat \ {0} /\ Clients = 1 .. A!N /\ at \in [Servers -> 1 .. A!N]
      /\ 1 \in 1 .. A!N
  BY Scripts DEF AssemblyTypes
<1>2. ~error
  BY DEF A!Pull, A!Lacks
<1>3. CASE /\ at' = [at EXCEPT ![s] = 1]
           /\ UNCHANGED <<A!channels, ring, events, lastTL, current, registeredPart, handled, error>>
  <2>1. at' \in [Servers -> 1 .. A!N]
    BY <1>1, <1>3
  <2> QED BY <1>2, <1>3, <2>1 DEF Looked, A!channels
<1>4. ASSUME NEW c \in A!Candidates(s), NEW q, NEW found, q = written[c][s],
             found = (q # <<>> /\ q[1].timeLine = current[s]),
             at' = [at EXCEPT ![s] = A!Wrapped(A!Past(s, c, found))],
             IF found THEN /\ A!Received(s, c, q)
                           /\ written' = [written EXCEPT ![c][s] = <<>>]
                           /\ UNCHANGED wire
             ELSE UNCHANGED <<A!channels, ring, events, lastTL, current, registeredPart, handled, error>>
      PROVE  Looked \/ \E d \in Clients : Fetched(d, s, written[d][s])
  <2>1. c \in Clients /\ lastTL[s][c] < current[s] /\ ring[s][c] = 0
    BY <1>4 DEF A!Candidates, A!MayHave
  <2>2. A!Wrapped(A!Past(s, c, found)) \in 1 .. A!N
    BY <1>1, <2>1 DEF A!Wrapped, A!Past
  <2>3. at' \in [Servers -> 1 .. A!N]
    BY <1>1, <1>4, <2>2
  <2>4. CASE found
    <3>1. Fetched(c, s, q)
      BY <1>4, <2>1, <2>3, <2>4 DEF Fetched
    <3> QED BY <1>4, <2>1, <3>1
  <2>5. CASE ~found
    BY <1>4, <2>3, <2>5 DEF Looked, A!channels
  <2> QED BY <2>4, <2>5
<1> QED BY <1>2, <1>3, <1>4 DEF A!Pull

(* What a received message is.                                             *)
LEMMA ReceiveCase ==
  ASSUME A!AssemblyAssumption, AssemblyTypes, NEW c \in Clients, NEW s \in Servers,
         A!Receive(s, c)
  PROVE  /\ ~error /\ Moved(c, s, wire[c][s]) /\ A!Received(s, c, wire[c][s])
         /\ wire[c][s] # <<>> /\ at' \in [Servers -> 1 .. A!N]
         /\ wire' = [wire EXCEPT ![c][s] = <<>>] /\ written' = written
         /\ ring[s][c] = 0 \/ ring[s][c] + Len(wire[c][s]) <= RingSize
BY DEF A!Receive, Moved, A!Fits, AssemblyTypes

(* An event that is full is registered.                                    *)
LEMMA MeantAnnounce ==
  ASSUME A!AssemblyAssumption, MeantInv, NEW s \in Servers, A!Announce(s)
  PROVE  MeantInv'
<1> USE DEF MeantInv
<1>1. /\ current[s] <= A!LastTime /\ events[s][current[s]].from # {}
      /\ registeredPart' = [registeredPart EXCEPT ![s] = TRUE]
      /\ UNCHANGED <<sent, written, wire, ring, events, lastTL, at, current, handled, error>>
  BY DEF A!Announce, A!IsFull, A!channels
<1>2. registeredPart \in [Servers -> BOOLEAN]
  BY DEF AssemblyTypes
<1>3. AssemblyTypes'
  BY <1>1, <1>2 DEF AssemblyTypes
<1>4. PartsOwn' /\ EventsMeant' /\ HandledMeant' /\ SentAlike'
  BY <1>1 DEF PartsOwn, EventsMeant, HandledMeant, SentAlike
<1>5. RegisteredKnown'
  BY <1>1, <1>2 DEF RegisteredKnown
<1> QED BY <1>3, <1>4, <1>5

(* What the handling of an event changes.                                  *)
HandledNext(s, t) ==
  /\ ~error /\ registeredPart[s] /\ t \in 1 .. A!LastTime /\ events[s][t] \in Heads
  /\ events[s][t].from # {}
  /\ UNCHANGED <<sent, written, wire, lastTL, at, error>>
  /\ events' \in [Servers -> [1 .. A!LastTime -> Heads]]
  /\ \A x \in Servers, u \in 1 .. A!LastTime :
       events'[x][u] = IF x = s /\ u = t THEN A!NoEvent ELSE events[x][u]
  /\ current' \in [Servers -> 1 .. A!LastTime + 1]
  /\ \A x \in Servers : current'[x] = IF x = s THEN t + 1 ELSE current[x]
  /\ registeredPart' \in [Servers -> BOOLEAN] /\ ~registeredPart'[s]
  /\ \A x \in Servers \ {s} : registeredPart'[x] = registeredPart[x]
  /\ handled' \in [Servers -> Seq([type : EventTypes, from : SUBSET Clients])]
  /\ \A x \in Servers \ {s} : handled'[x] = handled[x]
  /\ Len(handled[s]) \in Nat /\ t = Len(handled[s]) + 1 /\ Len(handled'[s]) = t
  /\ \A u \in 1 .. Len(handled[s]) : handled'[s][u] = handled[s][u]
  /\ handled'[s][t].type = events[s][t].type /\ handled'[s][t].from = events[s][t].from

LEMMA HandleCase ==
  ASSUME A!AssemblyAssumption, MeantInv, NEW s \in Servers, A!Handle(s),
         NEW t, t = current[s]
  PROVE  /\ HandledNext(s, t)
         /\ ring' = [ring EXCEPT ![s] = [c \in Clients |-> @[c] - A!Freed(s, c, events[s][t])]]
<1> USE DEF MeantInv
<1>1. /\ events \in [Servers -> [1 .. A!LastTime -> Heads]] /\ A!LastTime \in Nat
      /\ current \in [Servers -> 1 .. A!LastTime + 1]
      /\ registeredPart \in [Servers -> BOOLEAN]
      /\ handled \in [Servers -> Seq([type : EventTypes, from : SUBSET Clients])]
  BY Scripts DEF AssemblyTypes
<1>2. PICK e : e = events[s][t]
  OBVIOUS
<1>3. /\ ~error /\ registeredPart[s]
      /\ handled' = [handled EXCEPT ![s] = Append(@, [type |-> e.type, from |-> e.from])]
      /\ ring' = [ring EXCEPT ![s] = [c \in Clients |-> @[c] - A!Freed(s, c, e)]]
      /\ events' = [events EXCEPT ![s][t] = A!NoEvent]
      /\ current' = [current EXCEPT ![s] = @ + 1]
      /\ registeredPart' = [registeredPart EXCEPT ![s] = FALSE]
      /\ UNCHANGED <<sent, written, wire, lastTL, at, error>>
  BY <1>2 DEF A!Handle, A!Scheduled, A!channels
<1>4. t \in 1 .. A!LastTime /\ e \in Heads /\ e.from # {}
  <2>1. current[s] <= A!LastTime /\ events[s][current[s]].from # {}
    BY <1>3 DEF RegisteredKnown
  <2>2. t \in 1 .. A!LastTime
    BY <1>1, <2>1
  <2> QED BY <1>1, <1>2, <2>1, <2>2
<1>5. A!NoEvent \in Heads
  BY DEF A!NoEvent, Heads, EventTypes
<1>6. /\ events' \in [Servers -> [1 .. A!LastTime -> Heads]]
      /\ \A x \in Servers, u \in 1 .. A!LastTime :
           events'[x][u] = IF x = s /\ u = t THEN A!NoEvent ELSE events[x][u]
  <2>1. PICK no \in Heads : no = A!NoEvent
    BY <1>5
  <2>2. events' = [events EXCEPT ![s] = [events[s] EXCEPT ![t] = no]]
    BY <1>1, <1>3, <2>1
  <2>3. [events[s] EXCEPT ![t] = no] \in [1 .. A!LastTime -> Heads]
    BY <1>1, <2>1
  <2>4. events' \in [Servers -> [1 .. A!LastTime -> Heads]]
    BY <1>1, <2>2, <2>3
  <2>5. \A x \in Servers : events'[x] = IF x = s THEN [events[s] EXCEPT ![t] = no] ELSE events[x]
    BY <1>1, <2>2
  <2>6. ASSUME NEW x \in Servers, NEW u \in 1 .. A!LastTime
        PROVE  events'[x][u] = IF x = s /\ u = t THEN no ELSE events[x][u]
    BY <1>1, <2>5
  <2> QED BY <2>1, <2>4, <2>6
<1>7. /\ current' \in [Servers -> 1 .. A!LastTime + 1]
      /\ \A x \in Servers : current'[x] = IF x = s THEN t + 1 ELSE current[x]
  BY <1>1, <1>3, <1>4
<1>8. /\ registeredPart' \in [Servers -> BOOLEAN] /\ ~registeredPart'[s]
      /\ \A x \in Servers \ {s} : registeredPart'[x] = registeredPart[x]
  BY <1>1, <1>3
<1>9. PICK h \in [type : EventTypes, from : SUBSET Clients] : h = [type |-> e.type, from |-> e.from]
  BY <1>4 DEF Heads
<1>10. /\ Append(handled[s], h) \in Seq([type : EventTypes, from : SUBSET Clients])
       /\ Len(handled[s]) \in Nat /\ Len(Append(handled[s], h)) = Len(handled[s]) + 1
       /\ \A u \in 1 .. Len(handled[s]) : Append(handled[s], h)[u] = handled[s][u]
       /\ Append(handled[s], h)[Len(handled[s]) + 1] = h
  <2>1. PICK S : S = [type : EventTypes, from : SUBSET Clients]
    OBVIOUS
  <2>2. PICK q \in Seq(S) : q = handled[s]
    BY <1>1, <2>1
  <2>3. h \in S
    BY <2>1
  <2>4. /\ Append(q, h) \in Seq(S) /\ Len(q) \in Nat /\ Len(Append(q, h)) = Len(q) + 1
        /\ \A u \in 1 .. Len(q) : Append(q, h)[u] = q[u]
        /\ Append(q, h)[Len(q) + 1] = h
    BY <2>2, <2>3, AppendProperties, LenProperties
  <2> QED BY <2>1, <2>2, <2>4
<1>11. /\ handled' \in [Servers -> Seq([type : EventTypes, from : SUBSET Clients])]
       /\ handled'[s] = Append(handled[s], h)
       /\ \A x \in Servers \ {s} : handled'[x] = handled[x]
  BY <1>1, <1>3, <1>9, <1>10
<1>12. t = Len(handled[s]) + 1
  BY DEF HandledMeant
<1>13. h.type = e.type /\ h.from = e.from
  BY <1>9
<1>14. /\ Len(handled'[s]) = t
       /\ \A u \in 1 .. Len(handled[s]) : handled'[s][u] = handled[s][u]
       /\ handled'[s][t] = h
  BY <1>10, <1>11, <1>12
<1>15. HandledNext(s, t)
  BY <1>2, <1>3, <1>4, <1>6, <1>7, <1>8, <1>10, <1>11, <1>12, <1>13, <1>14 DEF HandledNext
<1> QED BY <1>2, <1>3, <1>15

(* An event is handled when all servers have registered it.                *)
LEMMA MeantHandle ==
  ASSUME A!AssemblyAssumption, MeantInv, NEW s \in Servers, A!Handle(s)
  PROVE  MeantInv'
<1> USE DEF MeantInv
<1>1. PICK t : t = current[s]
  OBVIOUS
<1>a. HandledNext(s, t)
  BY <1>1, HandleCase
<1>2. /\ ~error /\ events[s][t].from # {}
      /\ t \in 1 .. A!LastTime /\ events[s][t] \in Heads
      /\ UNCHANGED <<sent, written, wire, lastTL, at, error>>
      /\ events' \in [Servers -> [1 .. A!LastTime -> Heads]]
      /\ \A x \in Servers, u \in 1 .. A!LastTime :
           events'[x][u] = IF x = s /\ u = t THEN A!NoEvent ELSE events[x][u]
      /\ current' \in [Servers -> 1 .. A!LastTime + 1]
      /\ \A x \in Servers : current'[x] = IF x = s THEN t + 1 ELSE current[x]
      /\ registeredPart' \in [Servers -> BOOLEAN] /\ ~registeredPart'[s]
      /\ \A x \in Servers \ {s} : registeredPart'[x] = registeredPart[x]
      /\ handled' \in [Servers -> Seq([type : EventTypes, from : SUBSET Clients])]
      /\ \A x \in Servers \ {s} : handled'[x] = handled[x]
      /\ Len(handled[s]) \in Nat /\ t = Len(handled[s]) + 1 /\ Len(handled'[s]) = t
      /\ \A u \in 1 .. Len(handled[s]) : handled'[s][u] = handled[s][u]
      /\ handled'[s][t].type = events[s][t].type /\ handled'[s][t].from = events[s][t].from
  BY <1>a DEF HandledNext
<1>3. AssemblyTypes'
  BY <1>2 DEF AssemblyTypes
<1>4. PartsOwn' /\ SentAlike'
  BY <1>2 DEF PartsOwn, SentAlike
<1>5. EventsMeant'
  <2> SUFFICES ASSUME NEW x \in Servers, NEW u \in 1 .. A!LastTime
               PROVE  AsMeant(events'[x][u], u, sent)
    BY <1>2 DEF EventsMeant
  <2>1. CASE x = s /\ u = t
    <3>1. A!NoEvent.from = {}
      BY DEF A!NoEvent
    <3> QED BY <1>2, <2>1, <3>1 DEF AsMeant
  <2>2. CASE ~(x = s /\ u = t)
    <3>1. events'[x][u] = events[x][u]
      BY <1>2, <2>2
    <3> QED BY <1>2, <3>1 DEF EventsMeant
  <2> QED BY <2>1, <2>2
<1>6. HandledMeant'
  <2> SUFFICES ASSUME NEW x \in Servers
               PROVE  /\ current'[x] = Len(handled'[x]) + 1
                      /\ \A u \in 1 .. Len(handled'[x]) :
                           handled'[x][u].from # {} /\ AsMeant(handled'[x][u], u, sent)
    BY <1>2 DEF HandledMeant
  <2>1. /\ current[x] = Len(handled[x]) + 1
        /\ \A u \in 1 .. Len(handled[x]) : handled[x][u].from # {} /\ AsMeant(handled[x][u], u, sent)
    BY DEF HandledMeant
  <2>2. CASE x # s
    BY <1>2, <2>1, <2>2
  <2>3. CASE x = s
    <3>1. ASSUME NEW u \in 1 .. Len(handled'[s])
          PROVE  handled'[s][u].from # {} /\ AsMeant(handled'[s][u], u, sent)
      <4>1. CASE u \in 1 .. Len(handled[s])
        BY <1>2, <2>1, <2>3, <4>1
      <4>2. CASE u = t
        <5>1. AsMeant(events[s][t], t, sent)
          BY <1>2 DEF EventsMeant
        <5> QED BY <1>2, <4>2, <5>1 DEF AsMeant
      <4> QED BY <1>2, <4>1, <4>2
    <3> QED BY <1>2, <2>3, <3>1
  <2> QED BY <2>2, <2>3
<1>7. RegisteredKnown'
  <2> SUFFICES ASSUME NEW x \in Servers, registeredPart'[x]
               PROVE  current'[x] <= A!LastTime /\ events'[x][current'[x]].from # {}
    BY DEF RegisteredKnown
  <2>1. x # s /\ current'[x] = current[x]
    BY <1>2
  <2>2. current[x] <= A!LastTime /\ events[x][current[x]].from # {}
    BY <1>2, <2>1 DEF RegisteredKnown
  <2>3. current[x] \in 1 .. A!LastTime
    BY <2>2, Scripts DEF AssemblyTypes
  <2>4. events'[x][current[x]] = events[x][current[x]]
    BY <1>2, <2>1, <2>3
  <2> QED BY <2>1, <2>2, <2>4
<1> QED BY <1>3, <1>4, <1>5, <1>6, <1>7

(* Every step.                                                             *)
LEMMA MeantStep ==
  ASSUME A!AssemblyAssumption, MeantInv, [A!Next]_(A!vars)
  PROVE  MeantInv'
<1>1. CASE A!SendChecked
  BY <1>1, MeantSendChecked
<1>2. ASSUME NEW c \in Clients, A!SendEvent(c)
      PROVE  MeantInv'
  BY <1>2, MeantSend
<1>3. ASSUME NEW c \in Clients, NEW s \in Servers, A!Push(c, s)
      PROVE  MeantInv'
  BY <1>3, MeantPush
<1>4. ASSUME NEW c \in Clients, NEW s \in Servers, A!Receive(s, c)
      PROVE  MeantInv'
  <2>1. PICK q : q = wire[c][s]
    OBVIOUS
  <2>2. Moved(c, s, q) /\ A!Received(s, c, q) /\ q # <<>> /\ ~error /\ at' \in [Servers -> 1 .. A!N]
    BY <1>4, <2>1, ReceiveCase DEF MeantInv
  <2> QED BY <2>2, MeantTake
<1>5. ASSUME NEW s \in Servers, A!Pull(s)
      PROVE  MeantInv'
  <2>1. ~error /\ (Looked \/ \E c \in Clients : Fetched(c, s, written[c][s]))
    BY <1>5, PullCases DEF MeantInv
  <2>2. CASE Looked
    <3>1. AssemblyTypes'
      BY <2>2 DEF MeantInv, AssemblyTypes, Looked
    <3>2. PartsOwn' /\ EventsMeant' /\ HandledMeant' /\ RegisteredKnown' /\ SentAlike'
      BY <2>2 DEF MeantInv, Looked, PartsOwn, EventsMeant, HandledMeant, RegisteredKnown, SentAlike
    <3> QED BY <3>1, <3>2 DEF MeantInv
  <2>3. ASSUME NEW c \in Clients, Fetched(c, s, written[c][s])
        PROVE  MeantInv'
    <3>1. PICK q : q = written[c][s]
      OBVIOUS
    <3>2. Moved(c, s, q) /\ A!Received(s, c, q) /\ q # <<>> /\ at' \in [Servers -> 1 .. A!N]
      BY <2>3, <3>1 DEF Fetched, Moved
    <3> QED BY <2>1, <3>2, MeantTake
  <2> QED BY <2>1, <2>2, <2>3
<1>6. ASSUME NEW s \in Servers, A!Announce(s)
      PROVE  MeantInv'
  BY <1>6, MeantAnnounce
<1>7. ASSUME NEW s \in Servers, A!Handle(s)
      PROVE  MeantInv'
  BY <1>7, MeantHandle
<1>8. CASE UNCHANGED A!vars
  <2>1. UNCHANGED <<sent, written, wire, ring, events, lastTL, at, current, registeredPart, handled, error>>
    BY <1>8 DEF A!vars, A!channels, A!servers
  <2>2. AssemblyTypes'
    BY <2>1 DEF MeantInv, AssemblyTypes
  <2>3. PartsOwn' /\ EventsMeant' /\ HandledMeant' /\ RegisteredKnown' /\ SentAlike'
    BY <2>1 DEF MeantInv, PartsOwn, EventsMeant, HandledMeant, RegisteredKnown, SentAlike
  <2> QED BY <2>2, <2>3 DEF MeantInv
<1> QED BY <1>1, <1>2, <1>3, <1>4, <1>5, <1>6, <1>7, <1>8 DEF A!Next

(* At the start nothing was sent.                                          *)
LEMMA MeantInit == A!AssemblyAssumption /\ A!Init => MeantInv
<1> SUFFICES ASSUME A!AssemblyAssumption, A!Init PROVE MeantInv
  OBVIOUS
<1>1. A!LastTime \in Nat /\ 1 \in 1 .. A!N /\ \A S : <<>> \in Seq(S)
  BY Scripts, EmptySeq
<1>2. PICK no : no = A!NoEvent
  OBVIOUS
<1>3. no \in Heads /\ no.from = {}
  BY <1>2 DEF A!NoEvent, Heads, EventTypes
<1>4. /\ sent = [c \in Clients |-> 0]
      /\ written = [c \in Clients |-> [s \in Servers |-> <<>>]]
      /\ wire = [c \in Clients |-> [s \in Servers |-> <<>>]]
      /\ events = [s \in Servers |-> [t \in 1 .. A!LastTime |-> no]]
      /\ lastTL = [s \in Servers |-> [c \in Clients |-> 0]]
      /\ at = [s \in Servers |-> 1] /\ current = [s \in Servers |-> 1]
      /\ registeredPart = [s \in Servers |-> FALSE]
      /\ handled = [s \in Servers |-> <<>>] /\ error = FALSE
  BY <1>2 DEF A!Init
<1>5. AssemblyTypes
  <2>1. sent \in [Clients -> 0 .. A!LastTime]
    BY <1>1, <1>4
  <2>7. error \in BOOLEAN
    BY <1>4
  <2>2. written \in [Clients -> [Servers -> Seq(AllParts)]] /\ wire \in [Clients -> [Servers -> Seq(AllParts)]]
    BY <1>1, <1>4
  <2>3. events \in [Servers -> [1 .. A!LastTime -> Heads]]
    BY <1>3, <1>4
  <2>4. lastTL \in [Servers -> [Clients -> 0 .. A!LastTime]] /\ current \in [Servers -> 1 .. A!LastTime + 1]
    BY <1>1, <1>4
  <2>5. at \in [Servers -> 1 .. A!N] /\ registeredPart \in [Servers -> BOOLEAN]
    BY <1>1, <1>4
  <2>6. handled \in [Servers -> Seq([type : EventTypes, from : SUBSET Clients])]
    BY <1>1, <1>4
  <2> QED BY <2>1, <2>2, <2>3, <2>4, <2>5, <2>6, <2>7 DEF AssemblyTypes
<1>6. Len(<<>>) = 0
  BY EmptySeq
<1>7. PartsOwn
  <2>1. \A c \in Clients, s \in Servers : written[c][s] = <<>> /\ wire[c][s] = <<>>
    BY <1>4
  <2>2. \A c \in Clients, s \in Servers : OwnParts(<<>>, c, s, sent[c])
    BY <1>6 DEF OwnParts
  <2> QED BY <2>1, <2>2 DEF PartsOwn
<1>8. EventsMeant
  BY <1>3, <1>4 DEF EventsMeant, AsMeant
<1>9. HandledMeant
  <2>1. \A s \in Servers : handled[s] = <<>> /\ current[s] = 1
    BY <1>4
  <2> QED BY <1>6, <2>1 DEF HandledMeant
<1>10. RegisteredKnown /\ SentAlike
  BY <1>4 DEF RegisteredKnown, SentAlike
<1> QED BY <1>5, <1>7, <1>8, <1>9, <1>10 DEF MeantInv

(* What is handled is what was meant, and with the comparison the same on all *)
(* servers.                                                                *)
LEMMA MeantCaught == A!AssemblyAssumption /\ MeantInv => A!DisagreementCaught
<1> SUFFICES ASSUME A!AssemblyAssumption, MeantInv PROVE A!DisagreementCaught
  OBVIOUS
<1>1. A!NotMixed
  BY DEF MeantInv, HandledMeant, AsMeant, A!NotMixed
<1>2. ASSUME CheckSync, NEW s \in Servers, NEW q \in Servers, NEW t \in 1 .. Len(handled[s]),
             t <= Len(handled[q])
      PROVE  handled[q][t].type = handled[s][t].type
  <2>1. /\ handled[s] \in Seq([type : EventTypes, from : SUBSET Clients])
        /\ handled[q] \in Seq([type : EventTypes, from : SUBSET Clients])
    BY DEF MeantInv, AssemblyTypes
  <2>2. t \in 1 .. Len(handled[q]) /\ t \in Nat /\ t # 0
    BY <1>2, <2>1, LenProperties
  <2>3. handled[s][t].from \subseteq Clients /\ handled[q][t].from \subseteq Clients
    <3>1. /\ handled[s][t] \in [type : EventTypes, from : SUBSET Clients]
          /\ handled[q][t] \in [type : EventTypes, from : SUBSET Clients]
      BY <2>1, <2>2, ElementOfSeq
    <3> QED BY <3>1
  <2>4. /\ handled[s][t].from # {} /\ AsMeant(handled[s][t], t, sent)
        /\ handled[q][t].from # {} /\ AsMeant(handled[q][t], t, sent)
    BY <2>2 DEF MeantInv, HandledMeant
  <2>5. PICK c \in handled[s][t].from : t <= sent[c] /\ Script[c][t].type = handled[s][t].type
    BY <2>4 DEF AsMeant
  <2>6. PICK d \in handled[q][t].from : t <= sent[d] /\ Script[d][t].type = handled[q][t].type
    BY <2>4 DEF AsMeant
  <2>7. c \in Clients /\ d \in Clients /\ sent[c] \in Nat
    <3>1. sent \in [Clients -> 0 .. A!LastTime] /\ A!LastTime \in Nat
      BY Scripts DEF MeantInv, AssemblyTypes
    <3> QED BY <2>3, <2>5, <2>6, <3>1
  <2>8. t \in 1 .. sent[c]
    BY <2>2, <2>5, <2>7
  <2>9. Script[c][t].type = Script[d][t].type
    BY <1>2, <2>7, <2>8 DEF MeantInv, SentAlike
  <2> QED BY <2>5, <2>6, <2>9
<1> QED BY <1>1, <1>2 DEF A!DisagreementCaught, A!SameEverywhere

(* Of any clients that disagree about their events, with any servers, buffers *)
(* and scripts, no server handles parts of different events as one, and with *)
(* check_event_sync no two servers handle different events at one timeline *)
(* (event_server.cpp:25, legacy_context_client.cpp:97).                    *)
THEOREM DisagreementIsCaught ==
  ASSUME A!AssemblyAssumption PROVE A!Spec => []A!DisagreementCaught
<1>1. A!Init => MeantInv
  BY MeantInit
<1>2. MeantInv /\ [A!Next]_(A!vars) => MeantInv'
  BY MeantStep
<1>3. MeantInv => A!DisagreementCaught
  BY MeantCaught
<1> QED BY <1>1, <1>2, <1>3, PTL DEF A!Spec

-----------------------------------------------------------------------------
(* Clients that agree: AgreedInv is inductive.                             *)

(* All clients have the same events.                                       *)
LEMMA SameEvents ==
  ASSUME A!AssemblyAssumption, A!Agreed
  PROVE  /\ \A c \in Clients : Script[c] = Script[1]
         /\ \A s \in Servers, t \in 1 .. A!LastTime :
              /\ Dest(s, t) \in SUBSET Clients /\ IsFiniteSet(Dest(s, t))
              /\ Cardinality(Dest(s, t)) \in Nat
              /\ \A c \in Clients : Script[c][t].to[s] = Dest(s, t)
BY Scripts DEF A!Agreed, Dest

(* What the messages and buffers of the invariants are.                    *)
LEMMA QueueFacts ==
  ASSUME A!AssemblyAssumption, A!Agreed, AssemblyTypes, PartsOwn, InTurn,
         NEW c \in Clients, NEW s \in Servers, NEW q, q = written[c][s] \/ q = wire[c][s]
  PROVE  /\ q \in Seq(AllParts) /\ Len(q) \in Nat /\ OwnParts(q, c, s, sent[c])
         /\ Rising(q) /\ After(q, lastTL[s][c])
         /\ \A i \in 1 .. Len(q) :
              /\ q[i].timeLine \in 1 .. A!LastTime /\ q[i].timeLine \in Nat
              /\ q[i].timeLine <= sent[c] /\ c \in Dest(s, q[i].timeLine)
<1>1. /\ q \in Seq(AllParts) /\ Len(q) \in Nat /\ OwnParts(q, c, s, sent[c])
      /\ Rising(q) /\ After(q, lastTL[s][c])
  BY LenProperties DEF AssemblyTypes, PartsOwn, InTurn
<1>2. ASSUME NEW i \in 1 .. Len(q)
      PROVE  /\ q[i].timeLine \in 1 .. A!LastTime /\ q[i].timeLine \in Nat
             /\ q[i].timeLine <= sent[c] /\ c \in Dest(s, q[i].timeLine)
  <2>1. /\ q[i].timeLine \in 1 .. sent[c] /\ q[i].timeLine \in 1 .. A!LastTime
        /\ q[i].timeLine \in Nat /\ c \in Script[c][q[i].timeLine].to[s]
    BY <1>1, OwnFields
  <2>2. Script[c][q[i].timeLine].to[s] = Dest(s, q[i].timeLine)
    BY <2>1, SameEvents
  <2>3. sent[c] \in Nat
    BY Scripts DEF AssemblyTypes
  <2> QED BY <2>1, <2>2, <2>3
<1> QED BY <1>1, <1>2

(* A part of the next event, behind those of the events before.            *)
LEMMA BehindOthers ==
  ASSUME NEW q \in Seq(AllParts), NEW p \in AllParts, NEW m \in Nat, p.timeLine = m,
         \A i \in 1 .. Len(q) : q[i].timeLine \in Nat /\ q[i].timeLine < m
  PROVE  /\ Len(Append(q, p)) = Len(q) + 1 /\ Len(q) \in Nat
         /\ Rising(q) => Rising(Append(q, p))
         /\ \A t \in Int : After(q, t) /\ t < m => After(Append(q, p), t)
<1>1. /\ Len(Append(q, p)) = Len(q) + 1 /\ Len(q) \in Nat
      /\ \A i \in 1 .. Len(q) : Append(q, p)[i] = q[i]
      /\ Append(q, p)[Len(q) + 1] = p
  BY AppendProperties, LenProperties
<1>2. \A i \in 1 .. Len(Append(q, p)) :
        Append(q, p)[i].timeLine = IF i = Len(q) + 1 THEN m ELSE q[i].timeLine
  BY <1>1
<1>3. ASSUME Rising(q), NEW i \in 1 .. Len(Append(q, p)), NEW j \in 1 .. Len(Append(q, p)), i < j
      PROVE  Append(q, p)[i].timeLine < Append(q, p)[j].timeLine
  <2>1. i \in 1 .. Len(q) /\ (j \in 1 .. Len(q) \/ j = Len(q) + 1) /\ i # Len(q) + 1
    BY <1>1, <1>3
  <2>2. CASE j \in 1 .. Len(q)
    <3>1. q[i].timeLine < q[j].timeLine /\ j # Len(q) + 1
      BY <1>1, <1>3, <2>1, <2>2 DEF Rising
    <3> QED BY <1>2, <2>1, <3>1
  <2>3. CASE j = Len(q) + 1
    BY <1>2, <2>1, <2>3
  <2> QED BY <2>1, <2>2, <2>3
<1>4. ASSUME NEW t \in Int, After(q, t), t < m, NEW i \in 1 .. Len(Append(q, p))
      PROVE  t < Append(q, p)[i].timeLine
  <2>1. CASE i = Len(q) + 1
    BY <1>2, <1>4, <2>1
  <2>2. CASE i \in 1 .. Len(q)
    BY <1>1, <1>2, <1>4, <2>2 DEF After
  <2> QED BY <1>1, <2>1, <2>2
<1> QED BY <1>1, <1>3, <1>4 DEF Rising, After

(* Events are only sent that no server has handled or had parts of.        *)
LEMMA AgreedSends ==
  ASSUME A!AssemblyAssumption, A!Agreed, MeantInv, AgreedInv,
         NEW C \in SUBSET Clients,
         UNCHANGED <<wire, ring, events, lastTL, current, registeredPart, handled, error>>,
         \A c \in Clients \ C : sent'[c] = sent[c] /\ written'[c] = written[c],
         \A c \in C : /\ sent[c] < A!LastTime /\ sent'[c] = sent[c] + 1
                      /\ \A s \in Servers :
                           IF c \in Script[c][sent[c] + 1].to[s]
                           THEN /\ Len(written[c][s]) < BufferSize
                                /\ written'[c][s] = Append(written[c][s], PartOf(c, s, sent[c] + 1))
                           ELSE written'[c][s] = written[c][s]
  PROVE  AgreedInv'
<1> USE DEF MeantInv, AgreedInv
<1>1. /\ sent \in [Clients -> 0 .. A!LastTime] /\ A!LastTime \in Nat
      /\ lastTL \in [Servers -> [Clients -> 0 .. A!LastTime]]
      /\ current \in [Servers -> 1 .. A!LastTime + 1] /\ BufferSize \in Nat
  BY Scripts DEF AssemblyTypes
<1>2. KnownRight' /\ HandledWhole' /\ RingRight' /\ A!NoFalseError'
  BY DEF KnownRight, HandledWhole, RingRight, A!NoFalseError
<1>3. ASSUME NEW c \in Clients, NEW s \in Servers
      PROVE  /\ lastTL[s][c] <= sent'[c]
             /\ Rising(written'[c][s]) /\ Len(written'[c][s]) <= BufferSize
             /\ After(written'[c][s], lastTL[s][c]) /\ After(written'[c][s], current[s] - 1)
             /\ \A i \in 1 .. Len(wire[c][s]) : After(written'[c][s], wire[c][s][i].timeLine)
  <2>1. PICK q, n, m, l, r, k : /\ q = written[c][s] /\ n = sent[c] /\ m = n + 1
                                /\ l = lastTL[s][c] /\ r = wire[c][s] /\ k = current[s] - 1
    OBVIOUS
  <2>2. /\ n \in Nat /\ m \in Nat /\ l \in Nat /\ k \in Nat /\ n <= A!LastTime
        /\ k + 1 = current[s]
    BY <1>1, <2>1
  <2>3. /\ q \in Seq(AllParts) /\ Len(q) \in Nat /\ Rising(q) /\ After(q, l)
        /\ \A i \in 1 .. Len(q) : q[i].timeLine \in Nat /\ q[i].timeLine <= n
    BY <2>1, QueueFacts
  <2>4. \A i \in 1 .. Len(r) : r[i].timeLine \in Nat /\ r[i].timeLine <= n
    BY <2>1, QueueFacts
  <2>5. l <= n /\ After(q, k) /\ Len(q) <= BufferSize /\ \A i \in 1 .. Len(r) : After(q, r[i].timeLine)
    BY <2>1 DEF InTurn, NothingLate, Bounded
  <2>6. CASE c \in C /\ c \in Script[c][m].to[s]
    <3>1. PICK p : p = PartOf(c, s, m)
      OBVIOUS
    <3>2. m \in 1 .. A!LastTime /\ sent'[c] = m /\ Len(q) < BufferSize /\ written'[c][s] = Append(q, p)
      BY <1>1, <2>1, <2>2, <2>6, <3>1
    <3>3. p \in AllParts /\ p.timeLine = m
      BY <3>1, <3>2, PartFields
    <3>4. k < m
      <4>1. SUFFICES ASSUME m <= k PROVE FALSE
        BY <2>2
      <4>2. k = Len(handled[s])
        BY <2>1, <2>2, LenProperties DEF HandledMeant, AssemblyTypes
      <4>3. m \in 1 .. Len(handled[s])
        BY <2>2, <3>2, <4>1, <4>2
      <4>4. c \in handled[s][m].from
        BY <2>6, <3>2, <4>3, SameEvents DEF HandledWhole
      <4>5. m <= sent[c]
        BY <4>3, <4>4 DEF HandledMeant, AsMeant
      <4> QED BY <2>1, <2>2, <4>5
    <3>5. \A i \in 1 .. Len(q) : q[i].timeLine \in Nat /\ q[i].timeLine < m
      BY <2>1, <2>2, <2>3
    <3>6. /\ Len(Append(q, p)) = Len(q) + 1
          /\ Rising(Append(q, p))
          /\ \A t \in Int : After(q, t) /\ t < m => After(Append(q, p), t)
      BY <2>2, <2>3, <3>3, <3>5, BehindOthers
    <3>7. l < m /\ l \in Int /\ k \in Int /\ \A i \in 1 .. Len(r) : r[i].timeLine \in Int /\ r[i].timeLine < m
      BY <2>1, <2>2, <2>4, <2>5
    <3>8. After(Append(q, p), l) /\ After(Append(q, p), k) /\ \A i \in 1 .. Len(r) : After(Append(q, p), r[i].timeLine)
      BY <2>3, <2>5, <3>4, <3>6, <3>7
    <3>9. Len(q) + 1 <= BufferSize /\ l <= m
      BY <1>1, <2>2, <2>3, <3>2, <3>7
    <3> QED BY <2>1, <3>2, <3>6, <3>8, <3>9
  <2>7. CASE ~(c \in C /\ c \in Script[c][m].to[s])
    <3>1. written'[c][s] = q /\ (sent'[c] = n \/ sent'[c] = m)
      BY <2>1, <2>7
    <3>2. l <= sent'[c]
      BY <2>1, <2>2, <2>5, <3>1
    <3> QED BY <2>1, <2>3, <2>5, <3>1, <3>2
  <2> QED BY <2>6, <2>7
<1>4. InTurn'
  BY <1>3 DEF InTurn
<1>5. NothingLate' /\ Bounded'
  BY <1>3 DEF NothingLate, Bounded
<1> QED BY <1>2, <1>4, <1>5

LEMMA AgreedSend ==
  ASSUME A!AssemblyAssumption, A!Agreed, MeantInv, AgreedInv, NEW c \in Clients, A!SendEvent(c)
  PROVE  AgreedInv'
<1>1. /\ sent[c] < A!LastTime /\ A!HasRoom(c)
      /\ written' = [written EXCEPT ![c] = [s \in Servers |->
                       IF s \in A!Concerned(c) THEN Append(@[s], A!Part(c, s)) ELSE @[s]]]
      /\ sent' = [sent EXCEPT ![c] = @ + 1]
      /\ UNCHANGED <<wire, ring, events, lastTL, current, registeredPart, handled, error>>
  BY DEF A!SendEvent, A!Write, A!servers
<1>2. /\ A!LastTime \in Nat /\ sent \in [Clients -> 0 .. A!LastTime]
      /\ written \in [Clients -> [Servers -> Seq(AllParts)]]
  BY Scripts DEF MeantInv, AssemblyTypes
<1>3. /\ sent'[c] = sent[c] + 1
      /\ \A d \in Clients \ {c} : sent'[d] = sent[d] /\ written'[d] = written[d]
  BY <1>1, <1>2
<1>4. sent[c] + 1 \in 1 .. A!LastTime
  BY <1>1, <1>2
<1>5. ASSUME NEW s \in Servers
      PROVE  IF c \in Script[c][sent[c] + 1].to[s]
             THEN /\ Len(written[c][s]) < BufferSize
                  /\ written'[c][s] = Append(written[c][s], PartOf(c, s, sent[c] + 1))
             ELSE written'[c][s] = written[c][s]
  <2>1. s \in A!Concerned(c) <=> c \in Script[c][sent[c] + 1].to[s]
    BY DEF A!Concerned, A!Event
  <2>2. A!Part(c, s) = PartOf(c, s, sent[c] + 1)
    BY <1>4, PartFields
  <2> QED BY <1>1, <1>2, <2>1, <2>2 DEF A!HasRoom
<1>6. PICK C \in SUBSET Clients : C = {c}
  OBVIOUS
<1>7. /\ \A d \in Clients \ C : sent'[d] = sent[d] /\ written'[d] = written[d]
      /\ \A d \in C : /\ sent[d] < A!LastTime /\ sent'[d] = sent[d] + 1
                      /\ \A s \in Servers :
                           IF d \in Script[d][sent[d] + 1].to[s]
                           THEN /\ Len(written[d][s]) < BufferSize
                                /\ written'[d][s] = Append(written[d][s], PartOf(d, s, sent[d] + 1))
                           ELSE written'[d][s] = written[d][s]
  BY <1>1, <1>3, <1>5, <1>6
<1> QED BY <1>1, <1>7, AgreedSends

(* With the comparison the clients send together; it may refuse an event.  *)
LEMMA AgreedSendChecked ==
  ASSUME A!AssemblyAssumption, A!Agreed, MeantInv, AgreedInv, A!SendChecked
  PROVE  AgreedInv'
<1>1. CASE error' = TRUE /\ UNCHANGED <<A!channels, A!servers>>
  <2>1. UNCHANGED <<sent, written, wire, ring, events, lastTL, current, registeredPart, handled>>
    BY <1>1 DEF A!channels, A!servers
  <2>2. CheckSync
    BY DEF A!SendChecked
  <2>3. A!NoFalseError'
    BY <2>2 DEF A!NoFalseError
  <2>4. InTurn' /\ KnownRight' /\ NothingLate'
    BY <2>1 DEF AgreedInv, InTurn, KnownRight, NothingLate
  <2>5. HandledWhole' /\ Bounded' /\ RingRight'
    BY <2>1 DEF AgreedInv, HandledWhole, Bounded, RingRight
  <2> QED BY <2>3, <2>4, <2>5 DEF AgreedInv
<1>2. CASE /\ \A c \in Clients : A!HasRoom(c)
           /\ written' = [c \in Clients |-> [s \in Servers |->
                IF s \in A!Concerned(c) THEN Append(written[c][s], A!Part(c, s)) ELSE written[c][s]]]
           /\ sent' = [c \in Clients |-> sent[c] + 1]
           /\ UNCHANGED <<wire, A!servers, error>>
  <2>1. /\ A!LastTime \in Nat /\ sent \in [Clients -> 0 .. A!LastTime]
        /\ \A c \in Clients : sent[c] < A!LastTime
        /\ UNCHANGED <<wire, ring, events, lastTL, current, registeredPart, handled, error>>
    BY <1>2, Scripts DEF MeantInv, AssemblyTypes, A!SendChecked, A!servers
  <2>2. ASSUME NEW c \in Clients
        PROVE  /\ sent[c] < A!LastTime /\ sent'[c] = sent[c] + 1
               /\ \A s \in Servers :
                    IF c \in Script[c][sent[c] + 1].to[s]
                    THEN /\ Len(written[c][s]) < BufferSize
                         /\ written'[c][s] = Append(written[c][s], PartOf(c, s, sent[c] + 1))
                    ELSE written'[c][s] = written[c][s]
    <3>1. sent[c] + 1 \in 1 .. A!LastTime /\ sent'[c] = sent[c] + 1
      BY <1>2, <2>1
    <3>2. ASSUME NEW s \in Servers
          PROVE  IF c \in Script[c][sent[c] + 1].to[s]
                 THEN /\ Len(written[c][s]) < BufferSize
                      /\ written'[c][s] = Append(written[c][s], PartOf(c, s, sent[c] + 1))
                 ELSE written'[c][s] = written[c][s]
      <4>1. s \in A!Concerned(c) <=> c \in Script[c][sent[c] + 1].to[s]
        BY DEF A!Concerned, A!Event
      <4>2. A!Part(c, s) = PartOf(c, s, sent[c] + 1)
        BY <3>1, PartFields
      <4>3. written'[c][s] = IF s \in A!Concerned(c) THEN Append(written[c][s], A!Part(c, s))
                             ELSE written[c][s]
        BY <1>2
      <4> QED BY <1>2, <4>1, <4>2, <4>3 DEF A!HasRoom
    <3> QED BY <2>1, <3>1, <3>2
  <2>3. PICK C \in SUBSET Clients : C = Clients
    OBVIOUS
  <2>4. /\ \A d \in Clients \ C : sent'[d] = sent[d] /\ written'[d] = written[d]
        /\ \A d \in C : /\ sent[d] < A!LastTime /\ sent'[d] = sent[d] + 1
                        /\ \A s \in Servers :
                             IF d \in Script[d][sent[d] + 1].to[s]
                             THEN /\ Len(written[d][s]) < BufferSize
                                  /\ written'[d][s] = Append(written[d][s], PartOf(d, s, sent[d] + 1))
                             ELSE written'[d][s] = written[d][s]
    BY <2>2, <2>3
  <2> QED BY <2>1, <2>4, AgreedSends
<1> QED BY <1>1, <1>2 DEF A!SendChecked

(* A message leaves when the one before it was received.                   *)
LEMMA AgreedPush ==
  ASSUME A!AssemblyAssumption, A!Agreed, MeantInv, AgreedInv,
         NEW c \in Clients, NEW s \in Servers, A!Push(c, s)
  PROVE  AgreedInv'
<1>1. /\ wire' = [wire EXCEPT ![c][s] = written[c][s]]
      /\ written' = [written EXCEPT ![c][s] = <<>>]
      /\ UNCHANGED <<sent, ring, events, lastTL, current, registeredPart, handled, error>>
  BY DEF A!Push, A!servers
<1>2. /\ written \in [Clients -> [Servers -> Seq(AllParts)]]
      /\ wire \in [Clients -> [Servers -> Seq(AllParts)]]
      /\ <<>> \in Seq(AllParts) /\ Len(<<>>) = 0 /\ BufferSize \in Nat
  BY EmptySeq, Scripts DEF MeantInv, AssemblyTypes
<1>3. ASSUME NEW d \in Clients, NEW x \in Servers
      PROVE  /\ written'[d][x] = IF d = c /\ x = s THEN <<>> ELSE written[d][x]
             /\ wire'[d][x] = IF d = c /\ x = s THEN written[d][x] ELSE wire[d][x]
  BY <1>1, <1>2
<1>4. /\ Rising(<<>>) /\ Len(<<>>) <= BufferSize
      /\ \A t : After(<<>>, t)
  BY <1>2 DEF Rising, After
<1>5. InTurn'
  <2> SUFFICES ASSUME NEW d \in Clients, NEW x \in Servers
               PROVE  /\ lastTL[x][d] <= sent[d]
                      /\ Rising(written'[d][x]) /\ Rising(wire'[d][x])
                      /\ After(written'[d][x], lastTL[x][d]) /\ After(wire'[d][x], lastTL[x][d])
                      /\ \A i \in 1 .. Len(wire'[d][x]) : After(written'[d][x], wire'[d][x][i].timeLine)
    BY <1>1 DEF InTurn
  <2> QED BY <1>3, <1>4 DEF AgreedInv, InTurn
<1>6. NothingLate' /\ Bounded'
  BY <1>1, <1>3, <1>4 DEF AgreedInv, NothingLate, Bounded
<1>7. KnownRight' /\ HandledWhole' /\ RingRight' /\ A!NoFalseError'
  BY <1>1 DEF AgreedInv, KnownRight, HandledWhole, RingRight, A!NoFalseError
<1> QED BY <1>5, <1>6, <1>7 DEF AgreedInv

(* Parts in turn are of as many events.                                    *)
LEMMA AsManyEvents ==
  ASSUME NEW q, Len(q) \in Nat, Rising(q), \A i \in 1 .. Len(q) : q[i].timeLine \in Nat,
         NEW S, S = {q[i].timeLine : i \in 1 .. Len(q)}
  PROVE  IsFiniteSet(S) /\ Cardinality(S) = Len(q)
<1> DEFINE f == [i \in 1 .. Len(q) |-> q[i].timeLine]
<1>1. f \in [1 .. Len(q) -> S] /\ \A t \in S : \E i \in 1 .. Len(q) : f[i] = t
  OBVIOUS
<1>2. ASSUME NEW i \in 1 .. Len(q), NEW j \in 1 .. Len(q), f[i] = f[j]
      PROVE  i = j
  <2>1. CASE i < j
    BY <1>2, <2>1 DEF Rising
  <2>2. CASE j < i
    BY <1>2, <2>2 DEF Rising
  <2> QED BY <2>1, <2>2
<1>3. f \in Bijection(1 .. Len(q), S)
  <2> HIDE DEF f
  <2> QED BY <1>1, <1>2 DEF Bijection, Injection, Surjection, IsInjective
<1>4. ExistsBijection(1 .. Len(q), S)
  BY <1>3 DEF ExistsBijection
<1> QED BY <1>4, FS_CountingElements, FS_Interval, FS_Bijection

(* The parts a server takes are new to it, of events still to be handled.  *)
LEMMA AgreedTake ==
  ASSUME A!AssemblyAssumption, A!Agreed, MeantInv, AgreedInv, NEW c \in Clients, NEW s \in Servers,
         NEW q, q # <<>>, Moved(c, s, q), A!Received(s, c, q), ~error,
         wire'[c][s] = <<>>, \A i \in 1 .. Len(q) : After(written'[c][s], q[i].timeLine),
         ring[s][c] = 0 \/ ring[s][c] + Len(q) <= RingSize
  PROVE  AgreedInv'
<1> USE DEF MeantInv, AgreedInv
<1>1. /\ lastTL \in [Servers -> [Clients -> 0 .. A!LastTime]] /\ A!LastTime \in Nat
      /\ ring \in [Servers -> [Clients -> Nat]]
      /\ events \in [Servers -> [1 .. A!LastTime -> Heads]]
      /\ current \in [Servers -> 1 .. A!LastTime + 1]
      /\ BufferSize \in Nat /\ RingSize \in Nat
  BY Scripts DEF AssemblyTypes, RingRight
<1>2. PICK n, l, k : n = Len(q) /\ l = lastTL[s][c] /\ k = current[s] - 1
  OBVIOUS
<1>3. /\ q \in Seq(AllParts) /\ n \in Nat /\ OwnParts(q, c, s, sent[c])
      /\ Rising(q) /\ After(q, l) /\ After(q, k) /\ n <= BufferSize
      /\ \A i \in 1 .. n :
           /\ q[i].timeLine \in 1 .. A!LastTime /\ q[i].timeLine \in Nat
           /\ q[i].timeLine <= sent[c] /\ c \in Dest(s, q[i].timeLine)
  <2>1. q = written[c][s] \/ q = wire[c][s]
    BY DEF Moved
  <2>2. After(q, k) /\ n <= BufferSize
    BY <1>2, <2>1 DEF NothingLate, Bounded
  <2> QED BY <1>2, <2>1, <2>2, QueueFacts
<1>4. n \in 1 .. n
  BY <1>2, <1>3, EmptySeq
<1>5. PICK z : z = q[n].timeLine
  OBVIOUS
<1>6. /\ z \in Nat /\ l \in Nat /\ l < z /\ z <= sent[c]
      /\ \A i \in 1 .. n : q[i].timeLine <= z
  <2>1. ASSUME NEW i \in 1 .. n PROVE q[i].timeLine <= z
    <3>1. i = n \/ i < n
      BY <1>3
    <3> QED BY <1>2, <1>3, <1>4, <1>5, <3>1 DEF Rising
  <2> QED BY <1>1, <1>2, <1>3, <1>4, <1>5, <2>1 DEF After
<1>7. /\ UNCHANGED <<sent, current, registeredPart, handled>>
      /\ lastTL' = [lastTL EXCEPT ![s][c] = z]
      /\ ring' = [ring EXCEPT ![s][c] = @ + n]
  BY <1>2, <1>5 DEF A!Received
<1>8. /\ ring' \in [Servers -> [Clients -> Nat]]
      /\ \A x \in Servers, d \in Clients :
           /\ lastTL'[x][d] = IF x = s /\ d = c THEN z ELSE lastTL[x][d]
           /\ ring'[x][d] = IF x = s /\ d = c THEN ring[s][c] + n ELSE ring[x][d]
  BY <1>1, <1>3, <1>7
<1>9. /\ \A x \in Servers, t \in 1 .. A!LastTime :
           IF x = s /\ InQueue(q, t)
           THEN /\ events'[x][t].from = events[x][t].from \cup {c}
                /\ events'[x][t].nbSender = IF events[x][t].from = {} THEN Cardinality(Dest(s, t))
                                            ELSE events[x][t].nbSender
           ELSE events'[x][t] = events[x][t]
      /\ events' \in [Servers -> [1 .. A!LastTime -> Heads]]
      /\ error' <=> \/ \E t \in 1 .. A!LastTime :
                         /\ InQueue(q, t) /\ events[s][t].from # {}
                         /\ \/ events[s][t].type # Script[c][t].type
                            \/ events[s][t].nbSender # Cardinality(Dest(s, t))
                    \/ \E t \in 1 .. A!LastTime :
                         Cardinality(events'[s][t].from) > events'[s][t].nbSender
  <2>1. /\ \A x \in Servers, t \in 1 .. A!LastTime :
             IF x = s /\ InQueue(q, t)
             THEN /\ events'[x][t].from = events[x][t].from \cup {c}
                  /\ events'[x][t].nbSender = IF events[x][t].from = {}
                                              THEN Cardinality(Script[c][t].to[s])
                                              ELSE events[x][t].nbSender
             ELSE events'[x][t] = events[x][t]
        /\ events' \in [Servers -> [1 .. A!LastTime -> Heads]]
        /\ error' <=> \/ \E t \in 1 .. A!LastTime :
                           /\ InQueue(q, t) /\ events[s][t].from # {}
                           /\ \/ events[s][t].type # Script[c][t].type
                              \/ events[s][t].nbSender # Cardinality(Script[c][t].to[s])
                      \/ \E t \in 1 .. A!LastTime :
                           Cardinality(events'[s][t].from) > events'[s][t].nbSender
    BY <1>3, TakenIn
  <2>2. \A t \in 1 .. A!LastTime : Script[c][t].to[s] = Dest(s, t)
    BY SameEvents
  <2> QED BY <2>1, <2>2
<1>10. ASSUME NEW t \in 1 .. A!LastTime, InQueue(q, t)
       PROVE  t \in Nat /\ c \in Dest(s, t) /\ l < t /\ t <= z /\ current[s] <= t
  <2>1. PICK i \in 1 .. n : q[i].timeLine = t
    BY <1>2, <1>10 DEF InQueue
  <2>2. l < t /\ k < t /\ t <= z /\ c \in Dest(s, t)
    BY <1>2, <1>3, <1>6, <2>1 DEF After
  <2> QED BY <1>1, <1>2, <2>2
<1>11. ASSUME NEW d \in Clients, NEW x \in Servers
       PROVE  /\ written'[d][x] = written[d][x] \/ written'[d][x] = <<>>
              /\ wire'[d][x] = wire[d][x] \/ wire'[d][x] = <<>>
              /\ d # c \/ x # s => written'[d][x] = written[d][x] /\ wire'[d][x] = wire[d][x]
  BY MovedAway
<1>12. /\ Rising(<<>>) /\ Len(<<>>) = 0 /\ \A t : After(<<>>, t)
  BY EmptySeq DEF Rising, After
<1>13. InTurn'
  <2> SUFFICES ASSUME NEW d \in Clients, NEW x \in Servers
               PROVE  /\ lastTL'[x][d] <= sent[d]
                      /\ Rising(written'[d][x]) /\ Rising(wire'[d][x])
                      /\ After(written'[d][x], lastTL'[x][d]) /\ After(wire'[d][x], lastTL'[x][d])
                      /\ \A i \in 1 .. Len(wire'[d][x]) : After(written'[d][x], wire'[d][x][i].timeLine)
    BY <1>7 DEF InTurn
  <2>1. Rising(written'[d][x]) /\ Rising(wire'[d][x])
    BY <1>11, <1>12 DEF InTurn
  <2>2. CASE d = c /\ x = s
    <3>1. lastTL'[x][d] = z /\ wire'[d][x] = <<>> /\ After(written'[d][x], z)
      BY <1>2, <1>4, <1>5, <1>8, <2>2
    <3> QED BY <1>6, <1>12, <2>1, <2>2, <3>1
  <2>3. CASE ~(d = c /\ x = s)
    <3>1. lastTL'[x][d] = lastTL[x][d] /\ written'[d][x] = written[d][x] /\ wire'[d][x] = wire[d][x]
      BY <1>8, <1>11, <2>3
    <3> QED BY <3>1 DEF InTurn
  <2> QED BY <2>2, <2>3
<1>14. KnownRight'
  <2> SUFFICES ASSUME NEW x \in Servers, NEW t \in 1 .. A!LastTime
               PROVE  /\ events'[x][t].from # {} =>
                           current[x] <= t /\ events'[x][t].nbSender = Cardinality(Dest(x, t))
                      /\ \A d \in events'[x][t].from : d \in Dest(x, t) /\ t <= lastTL'[x][d]
    BY <1>7 DEF KnownRight
  <2>1. /\ events[x][t].from # {} =>
             current[x] <= t /\ events[x][t].nbSender = Cardinality(Dest(x, t))
        /\ \A d \in events[x][t].from : d \in Dest(x, t) /\ t <= lastTL[x][d]
    BY DEF KnownRight
  <2>2. events[x][t].from \subseteq Clients
    BY <1>1 DEF Heads
  <2>3. \A d \in events[x][t].from : t <= lastTL'[x][d]
    <3> SUFFICES ASSUME NEW d \in events[x][t].from PROVE t <= lastTL'[x][d]
      OBVIOUS
    <3>1. d \in Clients /\ t <= lastTL[x][d]
      BY <2>1, <2>2
    <3>2. CASE x = s /\ d = c
      BY <1>2, <1>6, <1>8, <3>1, <3>2
    <3>3. CASE ~(x = s /\ d = c)
      BY <1>8, <3>1, <3>3
    <3> QED BY <3>2, <3>3
  <2>4. CASE x = s /\ InQueue(q, t)
    <3>1. c \in Dest(x, t) /\ t <= lastTL'[x][c] /\ current[x] <= t
      BY <1>8, <1>10, <2>4
    <3>2. events'[x][t].from = events[x][t].from \cup {c}
      BY <1>9, <2>4
    <3>3. events'[x][t].nbSender = Cardinality(Dest(x, t))
      BY <1>9, <2>1, <2>4
    <3> QED BY <2>1, <2>3, <3>1, <3>2, <3>3
  <2>5. CASE ~(x = s /\ InQueue(q, t))
    BY <1>9, <2>1, <2>3, <2>5
  <2> QED BY <2>4, <2>5
<1>15. NothingLate'
  <2> SUFFICES ASSUME NEW d \in Clients, NEW x \in Servers
               PROVE  After(written'[d][x], current[x] - 1) /\ After(wire'[d][x], current[x] - 1)
    BY <1>7 DEF NothingLate
  <2> QED BY <1>11, <1>12 DEF NothingLate
<1>16. HandledWhole'
  <2> SUFFICES ASSUME NEW x \in Servers, registeredPart[x]
               PROVE  events'[x][current[x]].from = Dest(x, current[x])
    BY <1>7 DEF HandledWhole
  <2>1. PICK t : t = current[x]
    OBVIOUS
  <2>2. t \in 1 .. A!LastTime
    BY <1>1, <2>1 DEF RegisteredKnown
  <2>3. events[x][t].from = Dest(x, t)
    BY <2>1 DEF HandledWhole
  <2>4. CASE x = s /\ InQueue(q, t)
    <3>1. c \in Dest(x, t) /\ events'[x][t].from = events[x][t].from \cup {c}
      BY <1>9, <1>10, <2>2, <2>4
    <3> QED BY <2>1, <2>3, <3>1
  <2>5. CASE ~(x = s /\ InQueue(q, t))
    BY <1>9, <2>1, <2>2, <2>3, <2>5
  <2> QED BY <2>4, <2>5
<1>17. Bounded'
  <2> SUFFICES ASSUME NEW d \in Clients, NEW x \in Servers
               PROVE  /\ Len(written'[d][x]) <= BufferSize /\ Len(wire'[d][x]) <= BufferSize
                      /\ ring'[x][d] <= Bound
    BY DEF Bounded
  <2>1. Len(written'[d][x]) <= BufferSize /\ Len(wire'[d][x]) <= BufferSize
    <3>1. Len(written[d][x]) <= BufferSize /\ Len(wire[d][x]) <= BufferSize
      BY DEF Bounded
    <3>2. Len(<<>>) <= BufferSize
      BY <1>1, <1>12
    <3> QED BY <1>11, <3>1, <3>2
  <2>2. CASE x = s /\ d = c
    <3>1. ring'[x][d] = ring[s][c] + n /\ ring[s][c] \in Nat
      BY <1>1, <1>8, <2>2
    <3>2. ring[s][c] + n <= BufferSize \/ ring[s][c] + n <= RingSize
      BY <1>1, <1>2, <1>3
    <3> QED BY <1>1, <1>3, <2>1, <3>1, <3>2 DEF Bound
  <2>3. CASE ~(x = s /\ d = c)
    BY <1>8, <2>1, <2>3 DEF Bounded
  <2> QED BY <2>2, <2>3
<1>18. RingRight'
  <2> SUFFICES ASSUME NEW x \in Servers, NEW d \in Clients
               PROVE  ring'[x][d] = Cardinality(Holds(events'[x], d))
    BY <1>8 DEF RingRight
  <2>1. ring[x][d] = Cardinality(Holds(events[x], d))
    BY DEF RingRight
  <2>2. CASE x = s /\ d = c
    <3>1. PICK S : S = {q[i].timeLine : i \in 1 .. n}
      OBVIOUS
    <3>2. IsFiniteSet(S) /\ Cardinality(S) = n
      BY <1>2, <1>3, <3>1, AsManyEvents
    <3>3. PICK H, G : H = Holds(events[s], c) /\ G = Holds(events'[s], c)
      OBVIOUS
    <3>4. IsFiniteSet(H) /\ Cardinality(H) \in Nat
      <4>1. H \in SUBSET (1 .. A!LastTime) /\ IsFiniteSet(1 .. A!LastTime)
        BY <1>1, <3>3, FS_Interval DEF Holds
      <4> QED BY <4>1, FS_Subset, FS_CardinalityType
    <3>5. \A t \in H : t <= l
      BY <1>2, <3>3 DEF Holds, KnownRight
    <3>6. \A t \in S : t \in 1 .. A!LastTime /\ l < t
      BY <1>2, <1>3, <3>1 DEF After
    <3>7. H \cap S = {}
      BY <1>1, <1>6, <3>3, <3>5, <3>6 DEF Holds
    <3>8. \A t : t \in S <=> t \in 1 .. A!LastTime /\ InQueue(q, t)
      BY <1>2, <3>1, <3>6 DEF InQueue
    <3>9. \A t \in 1 .. A!LastTime : c \in events'[s][t].from <=> c \in events[s][t].from \/ InQueue(q, t)
      BY <1>9
    <3>10. G = H \cup S
      BY <3>3, <3>8, <3>9 DEF Holds
    <3>11. Cardinality(G) = Cardinality(H) + Cardinality(S) - Cardinality(H \cap S)
      BY <3>2, <3>4, <3>10, FS_Union
    <3>12. Cardinality(H \cap S) = 0
      BY <3>7, FS_EmptySet
    <3>13. ring'[s][c] = ring[s][c] + n /\ ring[s][c] = Cardinality(H)
      BY <1>8, <2>1, <2>2, <3>3
    <3>14. ring'[s][c] = Cardinality(G)
      BY <1>3, <3>2, <3>4, <3>11, <3>12, <3>13
    <3> QED BY <2>2, <3>3, <3>14
  <2>3. CASE ~(x = s /\ d = c)
    <3>1. \A t \in 1 .. A!LastTime : d \in events'[x][t].from <=> d \in events[x][t].from
      BY <1>9, <2>3
    <3>2. Holds(events'[x], d) = Holds(events[x], d)
      BY <3>1 DEF Holds
    <3> QED BY <1>8, <2>1, <2>3, <3>2
  <2> QED BY <2>2, <2>3
<1>19. ~error'
  <2>1. ASSUME NEW t \in 1 .. A!LastTime, InQueue(q, t), events[s][t].from # {}
        PROVE  events[s][t].type = Script[c][t].type /\ events[s][t].nbSender = Cardinality(Dest(s, t))
    <3>1. PICK d \in events[s][t].from : TRUE
      BY <2>1
    <3>2. d \in Clients /\ Script[d][t].type = events[s][t].type
      BY <1>1 DEF EventsMeant, AsMeant, Heads
    <3>3. Script[d] = Script[c]
      BY <3>2 DEF A!Agreed
    <3> QED BY <2>1, <3>2, <3>3 DEF KnownRight
  <2>2. ASSUME NEW t \in 1 .. A!LastTime
        PROVE  ~(Cardinality(events'[s][t].from) > events'[s][t].nbSender)
    <3>1. PICK e \in Heads : e = events'[s][t]
      BY <1>9
    <3>2. e.nbSender \in Nat
      BY <3>1 DEF Heads
    <3>3. CASE e.from = {}
      BY <3>1, <3>2, <3>3, FS_EmptySet
    <3>4. CASE e.from # {}
      <4>1. e.nbSender = Cardinality(Dest(s, t)) /\ e.from \in SUBSET Dest(s, t)
        BY <1>14, <3>1, <3>4 DEF KnownRight
      <4>2. IsFiniteSet(Dest(s, t))
        BY SameEvents
      <4>3. Cardinality(e.from) <= e.nbSender /\ Cardinality(e.from) \in Nat
        BY <4>1, <4>2, FS_Subset, FS_CardinalityType
      <4> QED BY <3>1, <3>2, <4>3
    <3> QED BY <3>3, <3>4
  <2> QED BY <1>9, <2>1, <2>2
<1> QED BY <1>13, <1>14, <1>15, <1>16, <1>17, <1>18, <1>19 DEF A!NoFalseError

(* An event is full with the parts of all of its clients.                  *)
LEMMA AgreedAnnounce ==
  ASSUME A!AssemblyAssumption, A!Agreed, MeantInv, AgreedInv, NEW s \in Servers, A!Announce(s)
  PROVE  AgreedInv'
<1> USE DEF MeantInv, AgreedInv
<1>1. PICK t, e : t = current[s] /\ e = events[s][t]
  OBVIOUS
<1>2. /\ t <= A!LastTime /\ e.from # {} /\ Cardinality(e.from) = e.nbSender
      /\ registeredPart' = [registeredPart EXCEPT ![s] = TRUE]
      /\ UNCHANGED <<sent, written, wire, ring, events, lastTL, at, current, handled, error>>
  BY <1>1, CountsAlike DEF A!Announce, A!IsFull, A!channels
<1>3. t \in 1 .. A!LastTime
  BY <1>1, <1>2, Scripts DEF AssemblyTypes
<1>4. e.from = Dest(s, t)
  <2>1. e.from \in SUBSET Dest(s, t) /\ e.nbSender = Cardinality(Dest(s, t))
    BY <1>1, <1>2, <1>3 DEF KnownRight
  <2>2. IsFiniteSet(Dest(s, t))
    BY <1>3, SameEvents
  <2> QED BY <1>2, <2>1, <2>2, FS_Subset
<1>5. HandledWhole'
  <2>1. registeredPart \in [Servers -> BOOLEAN]
    BY DEF AssemblyTypes
  <2> SUFFICES ASSUME NEW x \in Servers, registeredPart'[x]
               PROVE  events[x][current[x]].from = Dest(x, current[x])
    BY <1>2 DEF HandledWhole
  <2> QED BY <1>1, <1>2, <1>4, <2>1 DEF HandledWhole
<1>6. InTurn' /\ KnownRight' /\ NothingLate'
  BY <1>2 DEF InTurn, KnownRight, NothingLate
<1>7. Bounded' /\ RingRight' /\ A!NoFalseError'
  BY <1>2 DEF Bounded, RingRight, A!NoFalseError
<1> QED BY <1>5, <1>6, <1>7

(* An event is handled with all of its parts: none is left behind, and all *)
(* leave the ring.                                                         *)
LEMMA AgreedHandle ==
  ASSUME A!AssemblyAssumption, A!Agreed, MeantInv, AgreedInv, NEW s \in Servers, A!Handle(s)
  PROVE  AgreedInv'
<1> USE DEF MeantInv, AgreedInv
<1>1. PICK t, e : t = current[s] /\ e = events[s][t]
  OBVIOUS
<1>2. /\ HandledNext(s, t)
      /\ ring' = [ring EXCEPT ![s] = [c \in Clients |-> @[c] - A!Freed(s, c, e)]]
  BY <1>1, HandleCase
<1>3. /\ registeredPart[s] /\ t \in 1 .. A!LastTime /\ e \in Heads
      /\ UNCHANGED <<sent, written, wire, lastTL, error>>
      /\ \A x \in Servers, u \in 1 .. A!LastTime :
           events'[x][u] = IF x = s /\ u = t THEN A!NoEvent ELSE events[x][u]
      /\ \A x \in Servers : current'[x] = IF x = s THEN t + 1 ELSE current[x]
      /\ ~registeredPart'[s] /\ \A x \in Servers \ {s} : registeredPart'[x] = registeredPart[x]
      /\ \A x \in Servers \ {s} : handled'[x] = handled[x]
      /\ Len(handled[s]) \in Nat /\ t = Len(handled[s]) + 1 /\ Len(handled'[s]) = t
      /\ \A u \in 1 .. Len(handled[s]) : handled'[s][u] = handled[s][u]
      /\ handled'[s][t].from = e.from
  BY <1>1, <1>2 DEF HandledNext
<1>4. /\ A!LastTime \in Nat /\ ring \in [Servers -> [Clients -> Nat]]
      /\ current \in [Servers -> 1 .. A!LastTime + 1]
      /\ lastTL \in [Servers -> [Clients -> 0 .. A!LastTime]]
  BY Scripts DEF AssemblyTypes, RingRight
<1>5. e.from = Dest(s, t)
  BY <1>1, <1>3 DEF HandledWhole
<1>6. \A c \in e.from : c \in Clients /\ t <= lastTL[s][c]
  BY <1>1, <1>3 DEF KnownRight, Heads
<1>7. PICK no : no = A!NoEvent
  OBVIOUS
<1>8. no.from = {}
  BY <1>7 DEF A!NoEvent
<1>9. InTurn' /\ A!NoFalseError'
  BY <1>3 DEF InTurn, A!NoFalseError
<1>10. KnownRight'
  <2> SUFFICES ASSUME NEW x \in Servers, NEW u \in 1 .. A!LastTime
               PROVE  /\ events'[x][u].from # {} =>
                           current'[x] <= u /\ events'[x][u].nbSender = Cardinality(Dest(x, u))
                      /\ \A d \in events'[x][u].from : d \in Dest(x, u) /\ u <= lastTL[x][d]
    BY <1>3 DEF KnownRight
  <2>1. CASE x = s /\ u = t
    BY <1>3, <1>7, <1>8, <2>1
  <2>2. CASE ~(x = s /\ u = t)
    <3>1. events'[x][u] = events[x][u]
      BY <1>3, <2>2
    <3>2. /\ events[x][u].from # {} =>
               current[x] <= u /\ events[x][u].nbSender = Cardinality(Dest(x, u))
          /\ \A d \in events[x][u].from : d \in Dest(x, u) /\ u <= lastTL[x][d]
      BY DEF KnownRight
    <3>3. current[x] <= u => current'[x] <= u
      <4>1. current[x] \in Nat /\ t \in Nat /\ u \in Nat
        BY <1>3, <1>4
      <4>2. CASE x = s
        <5>1. current[x] = t /\ u # t /\ current'[x] = t + 1
          BY <1>1, <1>3, <2>2, <4>2
        <5> QED BY <4>1, <5>1
      <4>3. CASE x # s
        BY <1>3, <4>3
      <4> QED BY <4>2, <4>3
    <3> QED BY <3>1, <3>2, <3>3
  <2> QED BY <2>1, <2>2
<1>11. NothingLate'
  <2> SUFFICES ASSUME NEW c \in Clients, NEW x \in Servers, NEW q,
                      q = written[c][x] \/ q = wire[c][x], NEW i \in 1 .. Len(q)
               PROVE  current'[x] - 1 < q[i].timeLine
    BY <1>3 DEF NothingLate, After
  <2>1. /\ q[i].timeLine \in Nat /\ lastTL[x][c] < q[i].timeLine
        /\ q[i].timeLine \in 1 .. A!LastTime /\ c \in Dest(x, q[i].timeLine)
    BY QueueFacts DEF After
  <2>2. current[x] - 1 < q[i].timeLine
    BY DEF NothingLate, After
  <2>3. CASE x = s
    <3>1. q[i].timeLine # t
      BY <1>4, <1>5, <1>6, <2>1, <2>3
    <3>2. t \in Nat
      BY <1>3, <1>4
    <3>3. current[x] = t
      BY <1>1, <2>3
    <3>4. current'[x] = t + 1
      BY <1>3, <2>3
    <3> QED BY <2>1, <2>2, <3>1, <3>2, <3>3, <3>4
  <2>4. CASE x # s
    BY <1>3, <2>2, <2>4
  <2> QED BY <2>3, <2>4
<1>12. HandledWhole'
  <2>1. ASSUME NEW x \in Servers, NEW u \in 1 .. Len(handled'[x])
        PROVE  handled'[x][u].from = Dest(x, u)
    <3>1. CASE x # s
      BY <1>3, <2>1, <3>1 DEF HandledWhole
    <3>2. CASE x = s /\ u # t
      <4>1. u \in 1 .. Len(handled[s])
        BY <1>3, <3>2
      <4> QED BY <1>3, <3>2, <4>1 DEF HandledWhole
    <3>3. CASE x = s /\ u = t
      BY <1>3, <1>5, <3>3
    <3> QED BY <3>1, <3>2, <3>3
  <2>2. ASSUME NEW x \in Servers, registeredPart'[x]
        PROVE  events'[x][current'[x]].from = Dest(x, current'[x])
    <3>1. x # s /\ registeredPart[x] /\ current'[x] = current[x]
      BY <1>3, <2>2
    <3>2. current[x] \in 1 .. A!LastTime
      BY <1>4, <3>1 DEF RegisteredKnown
    <3>3. events'[x][current[x]] = events[x][current[x]]
      BY <1>3, <3>1, <3>2
    <3> QED BY <3>1, <3>3 DEF HandledWhole
  <2> QED BY <2>1, <2>2 DEF HandledWhole
<1>13. ASSUME NEW x \in Servers, NEW c \in Clients
       PROVE  /\ ring'[x][c] \in Nat /\ ring'[x][c] <= ring[x][c]
              /\ ring'[x][c] = Cardinality(Holds(events'[x], c))
  <2>1. PICK H, G : H = Holds(events[x], c) /\ G = Holds(events'[x], c)
    OBVIOUS
  <2>2. ring[x][c] = Cardinality(H) /\ ring[x][c] \in Nat
    BY <1>4, <2>1 DEF RingRight
  <2>3. IsFiniteSet(H)
    <3>1. H \in SUBSET (1 .. A!LastTime) /\ IsFiniteSet(1 .. A!LastTime)
      BY <1>4, <2>1, FS_Interval DEF Holds
    <3> QED BY <3>1, FS_Subset
  <2>4. CASE x = s /\ c \in e.from
    <3>1. t \in H
      BY <1>1, <1>3, <2>1, <2>4 DEF Holds
    <3>2. G = H \ {t}
      <4>1. \A u \in 1 .. A!LastTime : c \in events'[x][u].from <=> c \in events[x][u].from /\ u # t
        BY <1>3, <1>7, <1>8, <2>4
      <4> QED BY <2>1, <4>1 DEF Holds
    <3>3. IsFiniteSet(G) /\ Cardinality(G) = Cardinality(H) - 1
      BY <2>3, <3>1, <3>2, FS_RemoveElement
    <3>4. Cardinality(G) \in Nat
      BY <3>3, FS_CardinalityType
    <3>5. ring'[x][c] = ring[x][c] - 1
      BY <1>2, <1>4, <2>4 DEF A!Freed
    <3> QED BY <2>1, <2>2, <3>3, <3>4, <3>5
  <2>5. CASE ~(x = s /\ c \in e.from)
    <3>1. \A u \in 1 .. A!LastTime : c \in events'[x][u].from <=> c \in events[x][u].from
      BY <1>1, <1>3, <1>7, <1>8, <2>5
    <3>2. G = H
      BY <2>1, <3>1 DEF Holds
    <3>3. ring'[x][c] = ring[x][c]
      BY <1>2, <1>4, <2>5 DEF A!Freed
    <3> QED BY <2>1, <2>2, <3>2, <3>3
  <2> QED BY <2>4, <2>5
<1>14. RingRight'
  <2>1. ring' \in [Servers -> [Clients -> Nat]]
    <3>1. ring'[s] = [c \in Clients |-> ring'[s][c]] /\ \A x \in Servers \ {s} : ring'[x] = ring[x]
      BY <1>2, <1>4
    <3>2. ring'[s] \in [Clients -> Nat]
      BY <1>13, <3>1
    <3> QED BY <1>2, <1>4, <3>1, <3>2
  <2> QED BY <1>13, <2>1 DEF RingRight
<1>15. Bounded'
  <2>1. Bound \in Nat
    BY Scripts DEF Bound
  <2>2. ASSUME NEW c \in Clients, NEW x \in Servers PROVE ring'[x][c] <= Bound
    BY <1>4, <1>13, <2>1 DEF Bounded
  <2> QED BY <1>3, <2>2 DEF Bounded
<1> QED BY <1>9, <1>10, <1>11, <1>12, <1>14, <1>15

(* Every step.                                                             *)
LEMMA AgreedStep ==
  ASSUME A!AssemblyAssumption, A!Agreed, MeantInv, AgreedInv, [A!Next]_(A!vars)
  PROVE  AgreedInv'
<1>1. CASE A!SendChecked
  BY <1>1, AgreedSendChecked
<1>2. ASSUME NEW c \in Clients, A!SendEvent(c)
      PROVE  AgreedInv'
  BY <1>2, AgreedSend
<1>3. ASSUME NEW c \in Clients, NEW s \in Servers, A!Push(c, s)
      PROVE  AgreedInv'
  BY <1>3, AgreedPush
<1>4. ASSUME NEW c \in Clients, NEW s \in Servers, A!Receive(s, c)
      PROVE  AgreedInv'
  <2>1. PICK q : q = wire[c][s]
    OBVIOUS
  <2>2. /\ Moved(c, s, q) /\ A!Received(s, c, q) /\ q # <<>> /\ ~error
        /\ wire' = [wire EXCEPT ![c][s] = <<>>] /\ written' = written
        /\ ring[s][c] = 0 \/ ring[s][c] + Len(q) <= RingSize
    BY <1>4, <2>1, ReceiveCase DEF MeantInv
  <2>3. wire'[c][s] = <<>>
    BY <2>2 DEF MeantInv, AssemblyTypes
  <2>4. \A i \in 1 .. Len(q) : After(written'[c][s], q[i].timeLine)
    BY <2>1, <2>2 DEF AgreedInv, InTurn
  <2> QED BY <2>2, <2>3, <2>4, AgreedTake
<1>5. ASSUME NEW s \in Servers, A!Pull(s)
      PROVE  AgreedInv'
  <2>1. ~error /\ (Looked \/ \E c \in Clients : Fetched(c, s, written[c][s]))
    BY <1>5, PullCases DEF MeantInv
  <2>2. CASE Looked
    <3>1. InTurn' /\ KnownRight' /\ NothingLate' /\ HandledWhole'
      BY <2>2 DEF AgreedInv, Looked, InTurn, KnownRight, NothingLate, HandledWhole
    <3>2. Bounded' /\ RingRight' /\ A!NoFalseError'
      BY <2>2 DEF AgreedInv, Looked, Bounded, RingRight, A!NoFalseError
    <3> QED BY <3>1, <3>2 DEF AgreedInv
  <2>3. ASSUME NEW c \in Clients, Fetched(c, s, written[c][s])
        PROVE  AgreedInv'
    <3>1. PICK q, r : q = written[c][s] /\ r = wire[c][s]
      OBVIOUS
    <3>2. /\ Moved(c, s, q) /\ A!Received(s, c, q) /\ q # <<>> /\ ring[s][c] = 0
          /\ q[1].timeLine = current[s]
          /\ wire' = wire /\ written' = [written EXCEPT ![c][s] = <<>>]
      BY <2>3, <3>1 DEF Fetched, Moved
    <3>3. q \in Seq(AllParts) /\ r \in Seq(AllParts)
      BY <3>1 DEF MeantInv, AssemblyTypes
    <3>4. r = <<>>
      <4> SUFFICES ASSUME r # <<>> PROVE FALSE
        OBVIOUS
      <4>1. 1 \in 1 .. Len(q) /\ 1 \in 1 .. Len(r)
        BY <3>2, <3>3, EmptySeq, LenProperties
      <4>2. r[1].timeLine \in Nat
        BY <3>1, <4>1, QueueFacts DEF MeantInv, AgreedInv
      <4>3. current[s] - 1 < r[1].timeLine /\ r[1].timeLine < current[s]
        BY <3>1, <3>2, <4>1 DEF AgreedInv, NothingLate, InTurn, After
      <4>4. current[s] \in Nat
        BY Scripts DEF MeantInv, AssemblyTypes
      <4> QED BY <4>2, <4>3, <4>4
    <3>5. written'[c][s] = <<>> /\ wire'[c][s] = <<>>
      BY <3>1, <3>2, <3>4 DEF MeantInv, AssemblyTypes
    <3>6. \A i \in 1 .. Len(q) : After(written'[c][s], q[i].timeLine)
      BY <3>5, EmptySeq DEF After
    <3> QED BY <2>1, <3>2, <3>5, <3>6, AgreedTake
  <2> QED BY <2>1, <2>2, <2>3
<1>6. ASSUME NEW s \in Servers, A!Announce(s)
      PROVE  AgreedInv'
  BY <1>6, AgreedAnnounce
<1>7. ASSUME NEW s \in Servers, A!Handle(s)
      PROVE  AgreedInv'
  BY <1>7, AgreedHandle
<1>8. CASE UNCHANGED A!vars
  <2>1. UNCHANGED <<sent, written, wire, ring, events, lastTL, at, current, registeredPart, handled, error>>
    BY <1>8 DEF A!vars, A!channels, A!servers
  <2>2. InTurn' /\ KnownRight' /\ NothingLate' /\ HandledWhole'
    BY <2>1 DEF AgreedInv, InTurn, KnownRight, NothingLate, HandledWhole
  <2>3. Bounded' /\ RingRight' /\ A!NoFalseError'
    BY <2>1 DEF AgreedInv, Bounded, RingRight, A!NoFalseError
  <2> QED BY <2>2, <2>3 DEF AgreedInv
<1> QED BY <1>1, <1>2, <1>3, <1>4, <1>5, <1>6, <1>7, <1>8 DEF A!Next

LEMMA AgreedInit == A!AssemblyAssumption /\ A!Init => AgreedInv
<1> SUFFICES ASSUME A!AssemblyAssumption, A!Init PROVE AgreedInv
  OBVIOUS
<1>1. /\ A!LastTime \in Nat /\ Len(<<>>) = 0 /\ BufferSize \in Nat /\ Bound \in Nat
  BY Scripts, EmptySeq DEF Bound
<1>2. PICK no : no = A!NoEvent
  OBVIOUS
<1>3. no.from = {}
  BY <1>2 DEF A!NoEvent
<1>4. /\ sent = [c \in Clients |-> 0]
      /\ written = [c \in Clients |-> [s \in Servers |-> <<>>]]
      /\ wire = [c \in Clients |-> [s \in Servers |-> <<>>]]
      /\ ring = [s \in Servers |-> [c \in Clients |-> 0]]
      /\ events = [s \in Servers |-> [t \in 1 .. A!LastTime |-> no]]
      /\ lastTL = [s \in Servers |-> [c \in Clients |-> 0]]
      /\ registeredPart = [s \in Servers |-> FALSE]
      /\ handled = [s \in Servers |-> <<>>] /\ error = FALSE
  BY <1>2 DEF A!Init
<1>5. /\ Rising(<<>>) /\ Len(<<>>) <= BufferSize /\ \A t : After(<<>>, t)
  BY <1>1 DEF Rising, After
<1>6. \A c \in Clients, s \in Servers :
        /\ written[c][s] = <<>> /\ wire[c][s] = <<>> /\ ring[s][c] = 0
        /\ sent[c] = 0 /\ lastTL[s][c] = 0 /\ handled[s] = <<>>
  BY <1>4
<1>7. InTurn
  <2>1. 0 <= 0
    OBVIOUS
  <2> QED BY <1>5, <1>6, <2>1 DEF InTurn
<1>8. NothingLate
  BY <1>5, <1>6 DEF NothingLate
<1>9. KnownRight
  BY <1>3, <1>4 DEF KnownRight
<1>10. HandledWhole
  <2>1. \A s \in Servers : handled[s] = <<>> /\ registeredPart[s] = FALSE
    BY <1>4
  <2> QED BY <1>1, <2>1 DEF HandledWhole
<1>11. RingRight
  <2>1. \A s \in Servers, c \in Clients : Holds(events[s], c) = {}
    BY <1>3, <1>4 DEF Holds
  <2>2. ring \in [Servers -> [Clients -> Nat]]
    BY <1>4
  <2> QED BY <1>6, <2>1, <2>2, FS_EmptySet DEF RingRight
<1>12. Bounded
  <2>1. 0 <= Bound
    BY <1>1
  <2> QED BY <1>5, <1>6, <2>1 DEF Bounded
<1>13. A!NoFalseError
  BY <1>4 DEF A!NoFalseError
<1> QED BY <1>7, <1>8, <1>9, <1>10, <1>11, <1>12, <1>13 DEF AgreedInv

(* What the invariants say of the events handled.                          *)
LEMMA AgreedWhole == A!AssemblyAssumption /\ A!Agreed /\ MeantInv /\ AgreedInv =>
                       A!TypeOK /\ A!Whole /\ A!RingCounts /\ A!NoFalseError
<1> SUFFICES ASSUME A!AssemblyAssumption, A!Agreed, MeantInv, AgreedInv
             PROVE  A!TypeOK /\ A!Whole /\ A!RingCounts /\ A!NoFalseError
  OBVIOUS
<1>1. A!RingCounts
  BY CountsAlike DEF AgreedInv, RingRight, Holds, A!RingCounts
<1>2. A!TypeOK
  <2>1. A!LastTime \in Nat /\ BufferSize \in Nat /\ RingSize \in Nat
    BY Scripts
  <2>2. \A s \in Servers, c \in Clients : ring[s][c] \in 0 .. Bound
    BY <2>1 DEF AgreedInv, Bounded, RingRight, Bound
  <2> QED BY <2>2 DEF MeantInv, AgreedInv, AssemblyTypes, Bounded, Bound, A!TypeOK
<1>3. A!Whole
  <2> SUFFICES ASSUME NEW s \in Servers, NEW t \in 1 .. Len(handled[s]), NEW c \in Clients
               PROVE  /\ c \in handled[s][t].from <=> c \in Script[c][t].to[s]
                      /\ \A i \in 1 .. Len(written[c][s]) : written[c][s][i].timeLine # t
                      /\ \A i \in 1 .. Len(wire[c][s]) : wire[c][s][i].timeLine # t
    BY DEF A!Whole
  <2>1. /\ current[s] = Len(handled[s]) + 1 /\ Len(handled[s]) \in Nat
        /\ current[s] \in 1 .. A!LastTime + 1 /\ A!LastTime \in Nat
    BY Scripts, LenProperties DEF MeantInv, AssemblyTypes, HandledMeant
  <2>2. t \in 1 .. A!LastTime /\ t <= current[s] - 1 /\ t \in Nat /\ current[s] \in Nat
    BY <2>1
  <2>3. c \in handled[s][t].from <=> c \in Script[c][t].to[s]
    BY <2>2, SameEvents DEF AgreedInv, HandledWhole
  <2>4. ASSUME NEW q, q = written[c][s] \/ q = wire[c][s], NEW i \in 1 .. Len(q)
        PROVE  q[i].timeLine # t
    <3>1. current[s] - 1 < q[i].timeLine
      BY <2>4 DEF AgreedInv, NothingLate, After
    <3>2. q[i].timeLine \in Nat
      BY <2>4, QueueFacts DEF MeantInv, AgreedInv
    <3> QED BY <2>2, <3>1, <3>2
  <2> QED BY <2>3, <2>4
<1> QED BY <1>1, <1>2, <1>3 DEF AgreedInv

(* Of any clients that agree on their events, with any servers, buffers and *)
(* events, a server handles an event with the parts of all the clients that *)
(* send one, and none comes later; a ring holds the parts of the events not *)
(* handled; and no error is raised (event_server.cpp:51,                   *)
(* legacy_context_server.cpp:227).                                         *)
THEOREM EventsAreWhole ==
  ASSUME A!AssemblyAssumption PROVE A!Spec => []A!EventsWhole
<1> DEFINE Inv == MeantInv /\ (A!Agreed => AgreedInv)
<1>1. A!Init => Inv
  BY MeantInit, AgreedInit
<1>2. Inv /\ [A!Next]_(A!vars) => Inv'
  <2> SUFFICES ASSUME Inv, [A!Next]_(A!vars) PROVE Inv'
    OBVIOUS
  <2>1. MeantInv'
    BY MeantStep
  <2>2. A!Agreed => AgreedInv'
    BY AgreedStep
  <2>3. A!Agreed' <=> A!Agreed
    BY DEF A!Agreed
  <2> QED BY <2>1, <2>2, <2>3
<1>3. Inv => A!EventsWhole
  BY AgreedWhole DEF A!EventsWhole
<1> QED BY <1>1, <1>2, <1>3, PTL DEF A!Spec
=============================================================================
