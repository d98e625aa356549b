---------------------------- MODULE ThreadManager ---------------------------
(* CThreadManager (src/src/manager/thread_manager.hpp): the threads of a     *)
(* server rank, one per resource, pool, service and context, take turns.     *)
(* They are linked in a ring.  A thread that yields marks the next one,      *)
(* notifies its condition variable and waits on its own; all of it under one *)
(* mutex, which a thread holds whenever it is not waiting.  Spawning a       *)
(* thread, its start and its end pass the turn in the same way.              *)
CONSTANTS
  Threads,      \* thread ids; the id of a joined thread may be used again
  Main,         \* the thread that has called initialize
  None          \* no thread

ASSUME MainAssumption == Main \in Threads /\ None \notin Threads

VARIABLES
  state,        \* where each thread is
  next, previous,   \* the links of SThreadInfo, None outside threads_
  isNotified

vars == <<state, next, previous, isNotified>>

(* "new": started, waiting for the mutex in threadInitialize; "woken": out   *)
(* of the wait, and for the mutex; "closing": past threadFinalize.           *)
States == {"none", "new", "running", "waiting", "woken", "closing", "exited"}

Finished == {t \in Threads : state[t] \in {"closing", "exited"}}
Linked   == {t \in Threads : state[t] \in {"new", "running", "waiting", "woken"}}

(* The mutex is held by the thread that runs.                                *)
MutexFree == \A t \in Threads : state[t] # "running"

Init ==
  /\ state = [t \in Threads |-> IF t = Main THEN "running" ELSE "none"]
  /\ next = [t \in Threads |-> IF t = Main THEN Main ELSE None]
  /\ previous = next
  /\ isNotified = [t \in Threads |-> FALSE]

-----------------------------------------------------------------------------
(* Variants a slip in the code would produce.                                *)
NothingJoined == {}
AllButWaiting == {t \in Threads : state[t] # "waiting"}
AnyWakeUp(t) == TRUE
ShortRing(t, n) == [next EXCEPT ![n] = t, ![t] = n]
KeepsPrevious(t) == previous

(* notify_one: a thread that waits is let out of its wait.                   *)
Awake(states, t) == [states EXCEPT ![t] = IF @ = "waiting" THEN "woken" ELSE @]

(* The links of spawnThread: the new thread follows its parent.              *)
NextAfterSpawn(t, n) == [next EXCEPT ![n] = next[t], ![t] = n]
PreviousAfterSpawn(t, n) == [previous EXCEPT ![n] = t, ![next[t]] = n]

(* The links of threadFinalize.                                              *)
NextAfterEnd(t) == [next EXCEPT ![previous[t]] = next[t]]
PreviousAfterEnd(t) == [previous EXCEPT ![next[t]] = previous[t]]

(* spawnThread, up to its wait: the parent waits until the child has begun.  *)
SpawnThread(t, n) ==
  /\ state[t] = "running" /\ state[n] = "none"
  /\ next' = NextAfterSpawn(t, n)
  /\ previous' = PreviousAfterSpawn(t, n)
  /\ state' = [state EXCEPT ![n] = "new", ![t] = "waiting"]
  /\ UNCHANGED isNotified

(* threadInitialize, up to its wait.                                         *)
ThreadInitialize(n) ==
  /\ state[n] = "new" /\ MutexFree
  /\ isNotified' = [isNotified EXCEPT ![previous[n]] = TRUE]
  /\ state' = Awake([state EXCEPT ![n] = "waiting"], previous[n])
  /\ UNCHANGED <<next, previous>>

(* checkJoin, which yield always calls: the threads it joins and erases.     *)
Joined == Finished

(* yield, up to its wait, if there is a thread to hand the turn to.          *)
Yield(t) ==
  /\ state[t] = "running"
  /\ \A n \in Joined : state[n] # "closing"
  /\ LET erased == [n \in Threads |-> IF n \in Joined THEN "none" ELSE state[n]]
         others == {n \in Threads \ {t} : erased[n] # "none"}
     IN  IF others = {}
           THEN state' = erased /\ UNCHANGED isNotified
           ELSE /\ isNotified' = [isNotified EXCEPT ![next[t]] = TRUE]
                /\ state' = [Awake(erased, next[t]) EXCEPT ![t] = "waiting"]
  /\ next' = [n \in Threads |-> IF n \in Joined THEN None ELSE next[n]]
  /\ previous' = [n \in Threads |-> IF n \in Joined THEN None ELSE previous[n]]

(* threadFinalize: the thread leaves the ring and hands its turn on.         *)
ThreadFinalize(t) ==
  /\ state[t] = "running" /\ t # Main
  /\ next' = NextAfterEnd(t)
  /\ previous' = PreviousAfterEnd(t)
  /\ isNotified' = [isNotified EXCEPT ![next[t]] = TRUE]
  /\ state' = Awake([state EXCEPT ![t] = "closing"], next[t])

(* What the thread still does after threadFinalize, without the mutex.       *)
Exit(t) ==
  /\ state[t] = "closing"
  /\ state' = [state EXCEPT ![t] = "exited"]
  /\ UNCHANGED <<next, previous, isNotified>>

(* wait may return without a notification.                                   *)
SpuriousWakeUp(t) ==
  /\ state[t] = "waiting"
  /\ state' = [state EXCEPT ![t] = "woken"]
  /\ UNCHANGED <<next, previous, isNotified>>

(* The test of the do-while around each wait.                                *)
HasTurn(t) == isNotified[t]

(* wait has the mutex again and returns.                                     *)
WaitReturns(t) ==
  /\ state[t] = "woken" /\ MutexFree
  /\ state' = [state EXCEPT ![t] = IF HasTurn(t) THEN "running" ELSE "waiting"]
  /\ isNotified' = [isNotified EXCEPT ![t] = FALSE]
  /\ UNCHANGED <<next, previous>>

Next ==
  \E t \in Threads :
    \/ \E n \in Threads : SpawnThread(t, n)
    \/ ThreadInitialize(t) \/ Yield(t) \/ ThreadFinalize(t) \/ Exit(t)
    \/ SpuriousWakeUp(t) \/ WaitReturns(t)

(* Every event loop yields again and again; the system runs every thread.    *)
Fairness ==
  \A t \in Threads :
    /\ WF_vars(ThreadInitialize(t)) /\ WF_vars(Yield(t))
    /\ WF_vars(Exit(t)) /\ WF_vars(WaitReturns(t))

Spec == Init /\ [][Next]_vars /\ Fairness

-----------------------------------------------------------------------------
TypeOK ==
  /\ state \in [Threads -> States]
  /\ next \in [Threads -> Threads \cup {None}]
  /\ previous \in [Threads -> Threads \cup {None}]
  /\ isNotified \in [Threads -> BOOLEAN]
  /\ \A t \in Threads : /\ state[t] = "none" <=> next[t] = None
                        /\ state[t] = "none" <=> previous[t] = None

(* The turn is never lost nor doubled: it is with one thread that runs, is   *)
(* starting, or has been notified.                                           *)
Starting == {t \in Threads : state[t] \in {"running", "new"}}
Notified == {t \in Threads : isNotified[t]}
OneTurn ==
  /\ Starting \cap Notified = {}
  /\ \E t \in Threads : Starting \cup Notified = {t}

(* No wake-up is lost: a notified thread is no longer in its wait, although  *)
(* each loop waits before it tests (thread_manager.hpp:55,69,109).           *)
NoLostWakeUp == \A t \in Threads : isNotified[t] => state[t] = "woken"

(* The links are one ring of exactly the threads that are not finished, in   *)
(* both directions, while threads are spawned and end anywhere in it: the    *)
(* links are inverse, and no part of the ring is closed under next.          *)
Inverse == \A t \in Linked : /\ next[t] \in Linked /\ previous[next[t]] = t
                             /\ previous[t] \in Linked /\ next[previous[t]] = t
Closed(part) == \A t \in part : next[t] \in part
Unbroken == \A part \in SUBSET Linked : part # {} /\ Closed(part) => part = Linked
OneRing == Inverse /\ Unbroken

(* Every thread that waits for its turn gets it.                             *)
EveryoneRuns ==
  \A t \in Threads : state[t] \in {"new", "waiting", "woken"} ~> state[t] = "running"

-----------------------------------------------------------------------------
(* The inductive invariant behind the safety properties.                     *)

(* The parent of a thread that is starting waits for it.                     *)
ParentWaits ==
  \A n \in Threads : state[n] = "new" => state[previous[n]] \in {"waiting", "woken"}

TurnInv == TypeOK /\ OneTurn /\ NoLostWakeUp /\ OneRing /\ Main \in Linked /\ ParentWaits
=============================================================================
