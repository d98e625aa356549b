-------------------------- MODULE MCEventScheduler --------------------------
(* EventScheduler over three ranks (a fan-out of 2, branches of unequal       *)
(* depth, two events) and over five (a fan-out of 3, one event), each event   *)
(* registered twice: a behaviour is of one or of the other, and the variables *)
(* of the other stay as they begin.                                           *)
EXTENDS EventScheduler

VARIABLES part, tree5, registered5, waiting5, up5, recvEvent5, down5, stack5,
          order5, popped5, ahead5, got5

vars5 == <<tree5, registered5, waiting5, up5, recvEvent5, down5, stack5,
           order5, popped5, ahead5, got5>>
MCvars == <<part, vars, vars5>>

S5 == INSTANCE EventScheduler WITH
  N <- 5, Events <- {"e1"}, Rounds <- 2,
  tree <- tree5, registered <- registered5, waiting <- waiting5, up <- up5,
  recvEvent <- recvEvent5, down <- down5, stack <- stack5, order <- order5,
  popped <- popped5, ahead <- ahead5, got <- got5

MCInit == Init /\ S5!Init /\ part \in {"three", "five"}

MCNext ==
  \/ part = "three" /\ Next /\ UNCHANGED <<part, vars5>>
  \/ part = "five" /\ S5!Next /\ UNCHANGED <<part, vars>>

MCSpec == MCInit /\ [][MCNext]_MCvars /\ Fairness /\ S5!Fairness

-----------------------------------------------------------------------------
(* Of three ranks and of five: an event is chosen once all ranks have         *)
(* announced it, and then all of them take it, in the one order.  Of five,    *)
(* SchedulerExact too.                                                        *)
AgreedOrders == AgreedOrder /\ S5!AgreedOrder /\ []S5!SchedulerExact
=============================================================================
