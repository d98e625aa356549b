------------------------------ MODULE Leaders ------------------------------
(***************************************************************************)
(* Which client rank is in charge of which server, from their numbers      *)
(* alone: src/src/distribution/leader_process.cpp; and the chunks that     *)
(* elements are cut in.                                                    *)
(***************************************************************************)
EXTENDS Integers

Least(a, b) == IF a <= b THEN a ELSE b

(* The chunk number rank of n rows cut in the given number of chunks.      *)
Chunk(n, chunks, rank) ==
  LET size  == n \div chunks
      more  == n % chunks
      start == IF more > rank THEN (size + 1) * rank ELSE size * rank + more
  IN  start..(start + size - 1 + IF more > rank THEN 1 ELSE 0)

(* (a slip: the clients in excess all go to the last server)               *)
ServerLast(clients, servers, rank) ==
  LET size == clients \div servers
  IN  [server |-> Least(rank \div size, servers - 1),
       first |-> rank % size = 0 /\ rank \div size < servers]

(* computeLeaderProcess: with fewer clients than servers each client leads *)
(* a run of servers; otherwise each server has a run of clients, of which  *)
(* the first leads.                                                        *)
ServerOf(clients, servers, rank) ==
  LET size == clients \div servers
      more == clients % servers
  IN  IF rank < (size + 1) * more
      THEN [server |-> rank \div (size + 1), first |-> rank % (size + 1) = 0]
      ELSE LET other == rank - (size + 1) * more
           IN  [server |-> more + other \div size, first |-> other % size = 0]

Led(clients, servers, rank) ==
  IF clients < servers THEN Chunk(servers, clients, rank)
  ELSE LET of == ServerOf(clients, servers, rank)
       IN  IF of.first THEN {of.server} ELSE {}

Followed(clients, servers, rank) ==
  IF clients < servers \/ ServerOf(clients, servers, rank).first THEN {}
  ELSE {ServerOf(clients, servers, rank).server}

(* (a slip: the clients in excess are not counted)                         *)
LeaderEven(clientSize, serverSize, server) ==
  IF clientSize > serverSize THEN (clientSize \div serverSize) * server
  ELSE server \div (serverSize \div clientSize)

(* getLeaderRank.                                                          *)
LeaderRank(clientSize, serverSize, server) ==
  IF clientSize > serverSize
  THEN LET size == clientSize \div serverSize
           more == clientSize % serverSize
       IN  IF more < server THEN (size + 1) * more + size * (server - more)
           ELSE (size + 1) * server
  ELSE LET size == serverSize \div clientSize
           more == serverSize % clientSize
       IN  IF more * (size + 1) > server THEN server \div (size + 1)
           ELSE more + (server - (size + 1) * more) \div size
=============================================================================
