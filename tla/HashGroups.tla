----------------------------- MODULE HashGroups -----------------------------
(***************************************************************************)
(* The processes that the distributed table of                             *)
(* src/src/distribution/client_client_dht_template_impl.hpp is made of:    *)
(* the groups that DivideAdaptiveComm (policy.cpp) cuts them in, level     *)
(* after level, the part of the hash values that each process of a group   *)
(* holds, and the processes it may hear from and write to at each level.   *)
(***************************************************************************)
EXTENDS Integers, FiniteSets, FiniteSetsExt

CONSTANT HashMax   \* the largest size_t

HashMaxAssumption == HashMax \in Nat \ {0}

(* do ... while (m < mpiSize): the least c >= 2 with c^c >= clients.       *)
MaxChild(clients) == CHOOSE c \in 2..(clients + 2) :
                       c ^ c >= clients /\ \A d \in 2..(c - 1) : d ^ d < clients

MaxLevel(clients) ==
  Cardinality({k \in 0..MaxChild(clients) : MaxChild(clients) ^ k <= clients})

(* (a slip: the last child is what the others, rounded up, leave)          *)
ChildrenCeil(group, most) ==
  LET size == (group.nb + most - 1) \div most
  IN  {[begin |-> group.begin + i * size,
        nb    |-> Min({size, group.nb - i * size})] :
         i \in 0..((group.nb - 1) \div size)}

(* A group is cut in children groups as large as each other, or almost.    *)
Children(group, most) ==
  LET size == group.nb \div most
      more == group.nb % most
  IN  {[begin |-> group.begin + i * size + Min({i, more}),
        nb    |-> size + IF i < more THEN 1 ELSE 0] :
         i \in 0..(Min({most, group.nb}) - 1)}

Members(group) == group.begin..(group.begin + group.nb - 1)
Singles(group) == {[begin |-> r, nb |-> 1] : r \in Members(group)}
ChildOf(rank, groups) == CHOOSE g \in groups : rank \in Members(g)

---------------------------------------------------------------------------
(* computeMPICommLevel, for a rank: groupBegin_ and nbInGroup_, level 0    *)
(* first.  The groups are cut while they are larger than 2.                *)
Groups(clients, rank) ==
  LET cut[level \in 0..(MaxLevel(clients) - 1)] ==
        IF level = 0 THEN [begin |-> 0, nb |-> clients]
        ELSE IF cut[level - 1].nb <= 2 THEN cut[level - 1]
        ELSE ChildOf(rank, Children(cut[level - 1], MaxChild(clients)))
      last == {level \in DOMAIN cut : \A l \in 0..(level - 1) : cut[l].nb > 2}
  IN  [level \in last |-> cut[level]]

NbLevel(clients, rank) == Cardinality(DOMAIN Groups(clients, rank))

(* groupParentsBegin_, nbInGroupParents_: the groups that a group is made  *)
(* of; in the last one every process is on its own.                        *)
Parents(clients, rank, level) ==
  LET group == Groups(clients, rank)[level]
  IN  IF level = NbLevel(clients, rank) - 1 THEN Singles(group)
      ELSE Children(group, MaxChild(clients))

(* computeHashIndex: the process number i of n has the hash values from    *)
(* bound i to bound i + 1.                                                 *)
HashIndex(n, i) ==
  IF i = n THEN HashMax
  ELSE i * (HashMax \div n) + Min({i, Max({(HashMax % n) - 1, 0})})

(* upper_bound - 1.                                                        *)
Owner(group, hash) ==
  group.begin + Max({i \in 0..group.nb : HashIndex(group.nb, i) <= hash})

(* The first and last hash value of a process in a group.                  *)
Held(group, rank) ==
  HashIndex(group.nb, rank - group.begin)
    ..(HashIndex(group.nb, rank - group.begin + 1) - 1)

(* computeSendRecvRank.  A process hears, at a level, from the processes   *)
(* of the parent groups whose hash values meet its own ones, and writes to *)
(* those of its group who have one of the values it has in its parent.     *)
(* (a slip: the bounds are taken as excluded)                              *)
RecvRankStrict(clients, rank, level) ==
  LET mine == Held(Groups(clients, rank)[level], rank)
  IN  UNION {{r \in Members(parent) :
                Cardinality(mine \cap Held(parent, r)) > 1} :
               parent \in Parents(clients, rank, level)}

RecvRank(clients, rank, level) ==
  LET mine == Held(Groups(clients, rank)[level], rank)
  IN  UNION {{r \in Members(parent) : mine \cap Held(parent, r) # {}} :
               parent \in Parents(clients, rank, level)}

(* (a slip: the first process is looked for with the value itself)         *)
SendRankFrom(clients, rank, level) ==
  LET group == Groups(clients, rank)[level]
      mine  == Held(ChildOf(rank, Parents(clients, rank, level)), rank)
  IN  {r \in Members(group) : /\ Owner(group, Min(mine)) < r
                              /\ r <= Owner(group, Max(mine))}

(* (a slip: one process too far)                                           *)
SendRankPast(clients, rank, level) ==
  LET group == Groups(clients, rank)[level]
      mine  == Held(ChildOf(rank, Parents(clients, rank, level)), rank)
  IN  Owner(group, Min(mine))..(Owner(group, Max(mine)) + 1)

SendRank(clients, rank, level) ==
  LET group == Groups(clients, rank)[level]
      mine  == Held(ChildOf(rank, Parents(clients, rank, level)), rank)
  IN  Owner(group, Min(mine))..Owner(group, Max(mine))
=============================================================================
