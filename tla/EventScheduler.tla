--------------------------- MODULE EventScheduler ---------------------------
(* CEventScheduler (src/src/event_scheduler.cpp) over one communicator.  The *)
(* ranks form a tree in which a rank may stand at several levels.  A rank    *)
(* registers an event with its parent; a parent passes it on once all its    *)
(* children have; the root, once it has it from all, broadcasts it down the  *)
(* tree, and every leaf pushes it on its stack.  A context processes an      *)
(* event only when it is at the front of the stack of its rank.              *)
EXTENDS Integers, Sequences, FiniteSets

CONSTANTS
  N,            \* mpiSize_
  Events,       \* <<timeLine, contextHashId>> pairs
  Rounds        \* bound: how often a rank may register one event

ASSUME SchedulerAssumption == N \in Nat \ {0} /\ Rounds \in Nat \ {0}

Ranks == 0 .. N - 1
Keys == Events \X (0 .. N)

VARIABLES
  tree,         \* level_, parent_, child_ and nbChild_ of each rank
  registered,   \* registered[r][e]: how often r has called registerEvent
  waiting,      \* waiting[r]: registered by r and not popped
  up,           \* up[r][<<e, lev>>]: so many sent to r by its children (tag 0)
  recvEvent,    \* recvEvent_[r][<<e, lev>>]: so many counted, 0 for none
  down,         \* down[s][r]: sequence of <<e, lev, nth>> sent by s to r
                \* (tag 1); nth, the place of e in order, is history
  stack,        \* eventStack_[r]
  order,        \* history: the events the root has broadcast
  popped,       \* history: how many events each rank has popped
  ahead,        \* history: ahead[r][l]: the events r has announced at level l
                \* and the root has not broadcast since
  got           \* history: got[r][l]: how many events r has had at level l

vars == <<tree, registered, waiting, up, recvEvent, down, stack, order, popped,
          ahead, got>>

-----------------------------------------------------------------------------
(* initialize: the tree.                                                     *)

(* The least fan-out of at least 2 whose own power covers the ranks.         *)
Power(c) == LET m[i \in 0 .. c] == IF i = 0 THEN 1 ELSE m[i - 1] * c IN m[c]
maxChild == CHOOSE c \in 2 .. N + 1 :
              Power(c) >= N /\ \A d \in 2 .. c - 1 : Power(d) < N

(* The i-th part of the ranks begin .. begin + nb - 1: its first and number. *)
Part(begin, nb, i) ==
  [begin |-> begin + i * (nb \div maxChild)
                   + (IF i < nb % maxChild THEN i ELSE nb % maxChild),
   nb    |-> nb \div maxChild + (IF i < nb % maxChild THEN 1 ELSE 0)]

Parts(begin, nb) ==
  {Part(begin, nb, i) : i \in 0 .. (IF nb < maxChild THEN nb ELSE maxChild) - 1}

Holds(part, r) == part.begin <= r /\ r < part.begin + part.nb

(* span[r][l]: the ranks that share r's branch at level l.                   *)
span ==
  [r \in Ranks |->
     LET f[l \in 0 .. N] ==
           IF l = 0 THEN [begin |-> 0, nb |-> N]
           ELSE CHOOSE p \in Parts(f[l - 1].begin, f[l - 1].nb) : Holds(p, r)
     IN  f]

(* level_: the first level, from 1, at which the rank is alone.              *)
Level == [r \in Ranks |-> CHOOSE l \in 1 .. N :
                            span[r][l].nb = 1 /\ \A m \in 1 .. l - 1 : span[r][m].nb > 1]

Parent == [r \in Ranks |-> [l \in 1 .. Level[r] |-> span[r][l - 1].begin]]
Child == [r \in Ranks |-> [l \in 0 .. Level[r] - 1 |->
            {p.begin : p \in Parts(span[r][l].begin, span[r][l].nb)}]]
NbChild == [r \in Ranks |-> [l \in 0 .. Level[r] - 1 |-> Cardinality(Child[r][l])]]

Tree == [level |-> Level, parent |-> Parent, child |-> Child, nbChild |-> NbChild]

level == tree.level
parent == tree.parent
child == tree.child
nbChild == tree.nbChild

Init ==
  /\ tree = Tree
  /\ registered = [r \in Ranks |-> [e \in Events |-> 0]]
  /\ waiting = [r \in Ranks |-> {}]
  /\ up = [r \in Ranks |-> [m \in Keys |-> 0]]
  /\ recvEvent = [r \in Ranks |-> [m \in Keys |-> 0]]
  /\ down = [s \in Ranks |-> [r \in Ranks |-> <<>>]]
  /\ stack = [r \in Ranks |-> <<>>]
  /\ order = <<>>
  /\ popped = [r \in Ranks |-> 0]
  /\ ahead = [r \in Ranks |-> [l \in 0 .. N |-> {}]]
  /\ got = [r \in Ranks |-> [l \in 0 .. N |-> 0]]

(* Variants a slip in the code would produce.                                *)
AnyChildEnough(r, m, counted) == TRUE
SelfNotCounted(r, m, counted) == counted[m] = nbChild[r][m[2]] - 1
NewestFirst(queue, e) == <<e>> \o queue
NotForgotten(counted, m) == counted
MessageLevelForgotten(r, lev) == lev = 1
FirstChildOnly(r, lev) == {r}

(* registerEvent(.., lev): the branch of level lev announces e to its parent. *)
SentUp(sent, r, e, lev) == [sent EXCEPT ![parent[r][lev]][<<e, lev - 1>>] = @ + 1]

Receivers(r, lev) == child[r][lev]

(* bcastEvent(.., lev).                                                      *)
SentDown(chans, r, e, lev, nth) ==
  [chans EXCEPT ![r] = [d \in Ranks |-> IF d \in Receivers(r, lev)
                                          THEN Append(@[d], <<e, lev + 1, nth>>)
                                          ELSE @[d]]]

(* registerEvent, by a context or a service of rank r.  The caller does not  *)
(* register an event again before it has popped it.                          *)
RegisterEvent(r, e) ==
  /\ e \notin waiting[r] /\ registered[r][e] < Rounds
  /\ registered' = [registered EXCEPT ![r][e] = @ + 1]
  /\ waiting' = [waiting EXCEPT ![r] = @ \cup {e}]
  /\ up' = SentUp(up, r, e, level[r])
  /\ ahead' = [ahead EXCEPT ![r][level[r]] = @ \cup {e}]
  /\ UNCHANGED <<tree, recvEvent, down, stack, order, popped, got>>

(* Every child of the level has announced the event.                         *)
AllChildren(r, m, counted) == counted[m] = nbChild[r][m[2]]

Forget(counted, m) == [counted EXCEPT ![m] = 0]

(* checkChildRequest, for one message: receptions may complete in any order. *)
CheckChildRequest(r, m) ==
  LET counted == [recvEvent[r] EXCEPT ![m] = @ + 1]
      received == [up EXCEPT ![r][m] = @ - 1]
      e == m[1]
      lev == m[2]
  IN
  /\ up[r][m] > 0
  /\ \/ /\ ~ AllChildren(r, m, counted)
        /\ recvEvent' = [recvEvent EXCEPT ![r] = counted]
        /\ up' = received
        /\ UNCHANGED <<down, order, ahead, got>>
     \/ /\ AllChildren(r, m, counted)
        /\ recvEvent' = [recvEvent EXCEPT ![r] = Forget(counted, m)]
        /\ IF lev = 0
             THEN /\ up' = received
                  /\ down' = SentDown(down, r, e, 0, Len(order) + 1)
                  /\ order' = Append(order, e)
                  /\ ahead' = [s \in Ranks |-> [l \in 0 .. N |-> ahead[s][l] \ {e}]]
                  /\ got' = [got EXCEPT ![r][0] = Len(order) + 1]
             ELSE /\ up' = SentUp(received, r, e, lev)
                  /\ ahead' = [ahead EXCEPT ![r][lev] = @ \cup {e}]
                  /\ UNCHANGED <<down, order, got>>
  /\ UNCHANGED <<tree, registered, waiting, stack, popped>>

(* The message has reached the level at which r has no branch of its own.    *)
IsLeaf(r, lev) == lev = level[r]

Pushed(queue, e) == Append(queue, e)

(* checkParentRequest, for the oldest message of s: receptions from one      *)
(* source complete in the order of its sends.                                *)
CheckParentRequest(r, s) ==
  /\ down[s][r] # <<>>
  /\ LET e == Head(down[s][r])[1]
         lev == Head(down[s][r])[2]
         nth == Head(down[s][r])[3]
         received == [down EXCEPT ![s][r] = Tail(@)]
     IN  /\ \/ /\ IsLeaf(r, lev)
               /\ stack' = [stack EXCEPT ![r] = Pushed(@, e)]
               /\ down' = received
            \/ /\ ~ IsLeaf(r, lev)
               /\ down' = SentDown(received, r, e, lev, nth)
               /\ UNCHANGED stack
         /\ got' = [got EXCEPT ![r][lev] = nth]
  /\ UNCHANGED <<tree, registered, waiting, up, recvEvent, order, popped, ahead>>

(* queryEvent, true for the waiting owner of the event at the front, and     *)
(* popEvent.                                                                 *)
PopEvent(r) ==
  /\ stack[r] # <<>> /\ Head(stack[r]) \in waiting[r]
  /\ stack' = [stack EXCEPT ![r] = Tail(@)]
  /\ waiting' = [waiting EXCEPT ![r] = @ \ {Head(stack[r])}]
  /\ popped' = [popped EXCEPT ![r] = @ + 1]
  /\ UNCHANGED <<tree, registered, up, recvEvent, down, order, ahead, got>>

Next ==
  \E r \in Ranks :
    \/ \E e \in Events : RegisterEvent(r, e)
    \/ \E m \in Keys : CheckChildRequest(r, m)
    \/ \E s \in Ranks : CheckParentRequest(r, s)
    \/ PopEvent(r)

(* checkEvent runs in every turn of every server loop.                       *)
Fairness ==
  \A r \in Ranks :
    /\ WF_vars(\E m \in Keys : CheckChildRequest(r, m))
    /\ \A s \in Ranks : WF_vars(CheckParentRequest(r, s))
    /\ WF_vars(PopEvent(r))

Spec == Init /\ [][Next]_vars /\ Fairness

-----------------------------------------------------------------------------
(* What the state holds.                                                     *)
TypeOK ==
  /\ registered \in [Ranks -> [Events -> 0 .. Rounds]]
  /\ waiting \in [Ranks -> SUBSET Events]
  /\ up \in [Ranks -> [Keys -> Nat]] /\ recvEvent \in [Ranks -> [Keys -> Nat]]
  /\ \A r \in Ranks : /\ \A m \in Keys : up[r][m] + recvEvent[r][m] > 0 =>
                            m[2] < level[r] /\ recvEvent[r][m] < nbChild[r][m[2]]
                       /\ \A s \in Ranks : \A i \in DOMAIN down[s][r] :
                            down[s][r][i] \in Events \X (1 .. level[r]) \X Nat
                       /\ stack[r] \in Seq(Events)
  /\ order \in Seq(Events)
  /\ popped \in [Ranks -> 0 .. Len(order)]

(* The ranks follow one order: each is handed, event by event, exactly the   *)
(* prefix of what the root broadcast that it has received so far, whatever   *)
(* path through the tree the events took (the collective operations of       *)
(* legacy_context_server.cpp:326-341 rely on it).                            *)
OneOrder ==
  \A r \in Ranks :
    LET nb == popped[r] + Len(stack[r])
    IN  nb <= Len(order) /\ stack[r] = SubSeq(order, popped[r] + 1, nb)

(* No rank is told to process an event it has not registered itself: the     *)
(* owner of the event at the front of a stack is always there to pop it, so  *)
(* that the front never blocks the events behind (event_scheduler.cpp:172).  *)
FrontHasOwner == \A r \in Ranks : \A i \in DOMAIN stack[r] : stack[r][i] \in waiting[r]

(* How often the root has broadcast e.                                       *)
Times(e) == Cardinality({i \in 1 .. Len(order) : order[i] = e})

(* Counts are complete: when all ranks have registered the same events as    *)
(* often and no message is in flight, no count of children is left over in   *)
(* recvEvent_ to spoil the next registration of the same key                 *)
(* (event_scheduler.cpp:302-309).                                            *)
NoLeftover ==
  (/\ \A r, s \in Ranks : registered[r] = registered[s]
   /\ \A r \in Ranks, m \in Keys : up[r][m] = 0) =>
    /\ \A r \in Ranks, m \in Keys : recvEvent[r][m] = 0
    /\ \A e \in Events : \A r \in Ranks :
         registered[r][e] = Times(e)

(* The tree never loses, doubles or swaps an event: each rank is handed, in   *)
(* order, a prefix of what the root broadcast, none it has not registered     *)
(* itself, and no count is left behind to spoil the next registration.        *)
SchedulerExact == TypeOK /\ OneOrder /\ FrontHasOwner /\ NoLeftover

(* The scheduler implements the order its users rely on: an event is         *)
(* broadcast only when every rank has registered it, and then reaches and    *)
(* leaves the stack of every rank (EventOrder).                              *)
Order == INSTANCE EventOrder WITH announced <- registered, taken <- popped
AgreedOrder == Order!Spec
=============================================================================
