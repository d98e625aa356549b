----------------------------- MODULE CommLevels -----------------------------
(***************************************************************************)
(* Every process works out alone, from its rank and the number of          *)
(* processes, the levels of the distributed table and whom it exchanges    *)
(* with at each (HashGroups): nobody compares the results, and a process   *)
(* waits for those it expects.  The ranks are taken one after the other.   *)
(***************************************************************************)
EXTENDS HashGroups, Functions

CONSTANT MaxClients   \* bound of the number of processes

MaxClientsAssumption == MaxClients \in 1..HashMax

VARIABLES
  clients,    \* mpiSize
  groups,     \* rank -> level -> the group of the rank
  recvRank,   \* rank -> level -> the ranks it receives from
  sendRank    \* rank -> level -> the ranks it sends to

vars == <<clients, groups, recvRank, sendRank>>

NotYet == [n \in {} |-> {}]
Ranks == 0..(clients - 1)
Computed == DOMAIN groups

Init ==
  /\ clients \in 1..MaxClients
  /\ groups = NotYet /\ recvRank = NotYet /\ sendRank = NotYet

(* The constructor of the table, on the next rank.                         *)
Construct ==
  LET rank == Cardinality(Computed)
      levels == 0..(NbLevel(clients, rank) - 1)
      with(map, value) == [r \in Computed \cup {rank} |->
                             IF r = rank THEN value ELSE map[r]]
  IN  /\ rank < clients
      /\ groups' = with(groups, Groups(clients, rank))
      /\ recvRank' = with(recvRank,
                          [l \in levels |-> RecvRank(clients, rank, l)])
      /\ sendRank' = with(sendRank,
                          [l \in levels |-> SendRank(clients, rank, l)])
      /\ UNCHANGED clients

Finished == Computed = Ranks /\ UNCHANGED vars

Next == Construct \/ Finished

Spec == Init /\ [][Next]_vars

---------------------------------------------------------------------------
Levels(r) == DOMAIN groups[r]

TypeOK ==
  /\ Computed \subseteq Ranks
  /\ \A r \in Computed : \A l \in Levels(r) :
       /\ r \in Members(groups[r][l]) /\ Members(groups[r][l]) \subseteq Ranks
       /\ sendRank[r][l] \cup recvRank[r][l] \subseteq Members(groups[r][l])

(* The processes have the same number of levels, though the groups that    *)
(* are cut differ in size: a level is an exchange that all take part in.   *)
(* The last groups fit in the tables, that have room for the children of   *)
(* one group.                                                              *)
SameLevels ==
  \A r \in Computed :
    /\ Levels(r) = Levels(0)
    /\ groups[r][Cardinality(Levels(r)) - 1].nb <= MaxChild(clients)

(* Whoever one waits for does write, and nobody else does.                 *)
PairsMeet ==
  Computed = Ranks =>
    \A q, r \in Ranks : \A l \in Levels(q) \cap Levels(r) :
      q \in sendRank[r][l] <=> r \in recvRank[q][l]

(* What reaches a process from the level above can go on: the owner of the *)
(* value in the larger group is a process it writes to.  The last owner is *)
(* the same for all of them.                                               *)
RoutesLead ==
  Computed = Ranks =>
    \A r \in Ranks : \A l \in Levels(r) :
      LET here == IF l + 1 \in Levels(r) THEN Held(groups[r][l + 1], r)
                  ELSE 0..(HashMax - 1)
      IN  /\ \A hash \in here : Owner(groups[r][l], hash) \in sendRank[r][l]
          /\ groups[r][0] = groups[0][0]
=============================================================================
