------------------------------ MODULE Coupling ------------------------------
(* The creation of the channels between coupled contexts:                    *)
(* CContext::createCouplerInterCommunicator over CCouplerManager.  A context *)
(* polls its couplings in the order of their names, and creating a channel   *)
(* is collective over two contexts, so the manager keeps one list that says  *)
(* whose turn it is.  A context stands for its rank 0, which asks, and the   *)
(* ranks it broadcasts each answer to.  The manager's two windows are read   *)
(* and written under their locks: each of its calls is one step.             *)
EXTENDS Naturals, Sequences

CONSTANTS
  Contexts,   \* the coupled contexts, numbered in the order of their names
  Links       \* <<source, destination>> of each coupling, declared by both

ASSUME LinksAssumption ==
  /\ Contexts \subseteq Nat
  /\ Links \subseteq {k \in Contexts \X Contexts : k[1] # k[2]}

VARIABLES
  registred,  \* registredCoupling_: the couplings registered by one side
  nextOnes,   \* nextCoupling_: registered by both, and the sides still to take it
  toRegister, \* toRegister[c]: the couplings c has yet to call registerCoupling for
  lists,      \* lists[c]: listCouplerOut and listCouplerIn of c
  phase,      \* phase[c]: the loop c is in, over "out" or "in", or "done"
  todo,       \* todo[c]: the couplings that loop has yet to ask about
  waiting,    \* waiting[c]: the couplings whose channel c is creating
  channels    \* channels[c]: the channels c holds (couplerOutClient_, couplerInClient_)

vars == <<registred, nextOnes, toRegister, lists, phase, todo, waiting, channels>>

Sides(k) == {k[1], k[2]}
Side(c, k) == IF k[1] = c THEN "out" ELSE "in"
Other(c, k) == IF k[1] = c THEN k[2] ELSE k[1]
Couplings(c) == {k \in Links : c \in Sides(k)}

(* A context goes through its maps in the order of the names in them, that   *)
(* of the couplings out before that of the couplings in.                     *)
Before(c, j, k) == \/ Side(c, j) = "out" /\ Side(c, k) = "in"
                   \/ Side(c, j) = Side(c, k) /\ Other(c, j) < Other(c, k)
FirstOf(c, S, k) == k \in S /\ \A j \in S \ {k} : Before(c, k, j)

Init == /\ registred = {}
        /\ nextOnes = <<>>
        /\ toRegister = [c \in Contexts |-> Couplings(c)]
        /\ lists = [c \in Contexts |-> Couplings(c)]
        /\ phase = [c \in Contexts |-> "register"]
        /\ todo = [c \in Contexts |-> {}]
        /\ waiting = [c \in Contexts |-> {}]
        /\ channels = [c \in Contexts |-> {}]

(* What slips in the manager would make of it.                               *)
NextAtOnce(k) == /\ UNCHANGED registred
                 /\ nextOnes' = Append(nextOnes, <<k, 2>>)
TakenForBoth == Tail(nextOnes)
NeverPopped == [nextOnes EXCEPT ![1] = <<@[1], @[2] - 1>>]
AnyNext(k) == \E i \in 1..Len(nextOnes) : nextOnes[i][1] = k

(* registerCoupling.                                                         *)
Registered(k) == IF k \in registred
                 THEN /\ registred' = registred \ {k}
                      /\ nextOnes' = Append(nextOnes, <<k, 2>>)
                 ELSE /\ registred' = registred \cup {k}
                      /\ UNCHANGED nextOnes

Register(c, k) == /\ phase[c] = "register" /\ FirstOf(c, toRegister[c], k)
                  /\ Registered(k)
                  /\ toRegister' = [toRegister EXCEPT ![c] = @ \ {k}]
                  /\ UNCHANGED <<lists, phase, todo, waiting, channels>>

(* Entering the loop over one of the lists; the outer loop ends when both    *)
(* lists are empty.                                                          *)
Start(c, p) == /\ phase' = [phase EXCEPT ![c] = p]
               /\ todo' = [todo EXCEPT ![c] = {k \in lists[c] : Side(c, k) = p}]

Turn(c) == /\ waiting[c] = {} /\ todo[c] = {}
           /\ \/ phase[c] = "register" /\ toRegister[c] = {} /\ Start(c, "out")
              \/ phase[c] = "out" /\ Start(c, "in")
              \/ phase[c] = "in" /\ lists[c] # {} /\ Start(c, "out")
              \/ phase[c] = "in" /\ lists[c] = {} /\ Start(c, "done")
           /\ UNCHANGED <<registred, nextOnes, toRegister, lists, waiting, channels>>

(* isNextCoupling.  The front of an empty list is read all the same: what is *)
(* there is the list's own length, 0, which is the key of no coupling.       *)
IsNext(k) == nextOnes # <<>> /\ Head(nextOnes)[1] = k
Taken == IF Head(nextOnes)[2] = 1 THEN Tail(nextOnes)
         ELSE [nextOnes EXCEPT ![1] = <<@[1], 1>>]

(* A coupling whose turn it is leaves the list and the loop is left; the     *)
(* channel is created before anything else is done.                          *)
AskFor(c, k) == IF IsNext(k)
                THEN /\ nextOnes' = Taken
                     /\ waiting' = [waiting EXCEPT ![c] = {k}]
                     /\ todo' = [todo EXCEPT ![c] = {}]
                ELSE /\ todo' = [todo EXCEPT ![c] = @ \ {k}]
                     /\ UNCHANGED <<nextOnes, waiting>>

Ask(c, k) == /\ phase[c] \in {"out", "in"} /\ waiting[c] = {}
             /\ FirstOf(c, todo[c], k)
             /\ AskFor(c, k)
             /\ UNCHANGED <<registred, toRegister, lists, phase, channels>>

(* addCouplingChanel returns once both contexts have called it.              *)
Create(k) == /\ \A c \in Sides(k) : waiting[c] = {k}
             /\ waiting' = [c \in Contexts |-> IF c \in Sides(k) THEN {} ELSE waiting[c]]
             /\ channels' = [c \in Contexts |->
                  IF c \in Sides(k) THEN channels[c] \cup {k} ELSE channels[c]]
             /\ lists' = [c \in Contexts |->
                  IF c \in Sides(k) THEN lists[c] \ {k} ELSE lists[c]]
             /\ UNCHANGED <<registred, nextOnes, toRegister, phase, todo>>

Step(c) == Turn(c) \/ \E k \in Links : Register(c, k) \/ Ask(c, k)

Next == \/ \E c \in Contexts : Step(c)
        \/ \E k \in Links : Create(k)

(* Every context runs its loop, and a collective call that all its members   *)
(* made returns.                                                             *)
Fairness == /\ \A c \in Contexts : WF_vars(Step(c))
            /\ \A k \in Links : WF_vars(Create(k))

Spec == Init /\ [][Next]_vars /\ Fairness

-----------------------------------------------------------------------------
TypeOK == /\ registred \subseteq Links
          /\ nextOnes \in Seq(Links \X {1, 2})
          /\ phase \in [Contexts -> {"register", "out", "in", "done"}]
          /\ toRegister \in [Contexts -> SUBSET Links]
          /\ lists \in [Contexts -> SUBSET Links]
          /\ todo \in [Contexts -> SUBSET Links]
          /\ waiting \in [Contexts -> SUBSET Links]
          /\ channels \in [Contexts -> SUBSET Links]

HasRegistered(c, k) == k \notin toRegister[c]
HasTaken(c, k) == k \in waiting[c] \/ k \in channels[c]

BothRegistered(k) == \A c \in Sides(k) : HasRegistered(c, k)
NoneTook(k) == \A c \in Sides(k) : ~HasTaken(c, k)
BothTook(k) == \A c \in Sides(k) : HasTaken(c, k)
Listed(k) == \E i \in 1..Len(nextOnes) : nextOnes[i][1] = k
ListedAs(k, n) == \E i \in 1..Len(nextOnes) : nextOnes[i] = <<k, n>>

OnceEach == \A i, j \in 1..Len(nextOnes) : nextOnes[i][1] = nextOnes[j][1] => i = j
Counted(k) ==
  /\ BothRegistered(k) /\ ~BothTook(k) => ListedAs(k, IF NoneTook(k) THEN 2 ELSE 1)
  /\ ~BothRegistered(k) \/ BothTook(k) => ~Listed(k)
  /\ k \in registred <=> ~BothRegistered(k) /\ \E c \in Sides(k) : HasRegistered(c, k)

(* The list counts, for each coupling, the sides that have still to take it: *)
(* no context spends the turn of its partner, takes a coupling twice, or     *)
(* leaves a turn behind (coupler_manager.cpp:72-77).                         *)
TurnsCounted == OnceEach /\ \A k \in Links : Counted(k)

(* No group of contexts is blocked in collective calls that wait for each    *)
(* other: the one order of the list is what prevents it, each context asking *)
(* in an order of its own (coupler_manager.cpp:71).                          *)
Blocked(c, S) == \E k \in waiting[c] : Other(c, k) \in S /\ waiting[Other(c, k)] \notin {{k}, {}}
NoCircularWait == \A S \in (SUBSET Contexts) \ {{}} : \E c \in S : ~Blocked(c, S)

(* Contexts that create their couplings in collective calls, each asking in  *)
(* an order of its own, never wait for each other in a circle, and none      *)
(* spends or repeats the turn of its partner (coupler_manager.cpp:71).       *)
CouplingsInOrder == TypeOK /\ TurnsCounted /\ NoCircularWait

(* Why it holds: only the coupling at the front has been taken by one side.  *)
HalfAtFront == \A i \in 1..Len(nextOnes) : i > 1 => nextOnes[i][2] = 2

(* A coupling is taken after both sides have registered it, and its channel  *)
(* is made on both sides at once.                                            *)
MadeTogether ==
  \A c \in Contexts, k \in Links :
    /\ HasTaken(c, k) => c \in Sides(k) /\ BothRegistered(k)
    /\ k \in channels[c] => \A d \in Sides(k) : k \in channels[d]

(* A context asks about what it has not made, and stops at what it takes.    *)
AsksForTheRest ==
  \A c \in Contexts :
    /\ toRegister[c] \subseteq Couplings(c)
    /\ lists[c] = Couplings(c) \ channels[c]
    /\ todo[c] \subseteq lists[c] /\ waiting[c] \subseteq lists[c]
    /\ \A j, k \in waiting[c] : j = k
    /\ waiting[c] # {} => todo[c] = {}

CouplingInv == TypeOK /\ TurnsCounted /\ HalfAtFront /\ MadeTogether /\ AsksForTheRest

(* Every coupling gets its channel on both sides and every context leaves    *)
(* the loop.                                                                 *)
AllCoupled == <>[](\A c \in Contexts :
  phase[c] = "done" /\ channels[c] = Couplings(c))
=============================================================================
