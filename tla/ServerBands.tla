---------------------------- MODULE ServerBands ----------------------------
(***************************************************************************)
(* Who is in charge of which server, and which part of a grid goes to it:  *)
(* the leaders of src/src/distribution/leader_process.cpp and the bands of *)
(* CDomain::computeRemoteElement and CAxis::computeRemoteElement.          *)
(*                                                                         *)
(* Each client rank computes alone what the grid looks like on the servers *)
(* it describes; nobody compares the results.  The ranks are taken one     *)
(* after the other: what a rank computes depends on its number only.       *)
(***************************************************************************)
EXTENDS Leaders, FiniteSets, Functions

CONSTANTS MaxClients, MaxServers, MaxRows   \* bounds of the sizes

SizesAssumption == {MaxClients, MaxServers, MaxRows} \subseteq Nat \ {0}

VARIABLES
  clients,   \* getIntraCommSize
  servers,   \* getRemoteSize
  rows,      \* nj_glo of the domain, n_glo of the axis
  leads,     \* rank -> the servers the rank leads
  follows,   \* rank -> the servers the rank sends to without leading them
  domain,    \* rank -> server -> the rows of the domain the rank describes
  axis       \* rank -> server -> the points of the axis

vars == <<clients, servers, rows, leads, follows, domain, axis>>

Greatest(a, b) == IF a >= b THEN a ELSE b

---------------------------------------------------------------------------
(* CDomain::computeRemoteElement, bands: a chunk per client, or per server *)
(* when there are more of them.  A client beyond the last chunk describes  *)
(* an empty band for the server of its own number, if no other does.       *)
ChunksOf(rank) ==
  IF servers <= clients THEN {rank} ELSE Chunk(servers, clients, rank)

BandServer(rank) ==
  IF servers > clients THEN rank
  ELSE LET chunks == Least(rows, clients)
           size   == chunks \div servers
           more   == chunks % servers
       IN  IF rank < more * (size + 1) THEN rank \div (size + 1)
           ELSE IF size > 0 THEN more + (rank - more * (size + 1)) \div size
           ELSE servers

(* (a slip: the servers without a row are forgotten)                       *)
DomainBandsFull(rank) ==
  LET chunks == Greatest(servers, clients)
      owners == {c \in ChunksOf(rank) : BandServer(c) < servers}
  IN  [server \in {BandServer(c) : c \in owners} |->
         UNION {Chunk(rows, chunks, c) : c \in
                  {d \in owners : BandServer(d) = server}}]

(* (a slip: the ranks beyond the last chunk are not left out)              *)
DomainBandsAll(rank) ==
  [server \in {BandServer(c) : c \in ChunksOf(rank)} |-> {}]

DomainBands(rank) ==
  LET chunks == Greatest(servers, clients)
      empty  == {c \in ChunksOf(rank) :
                   /\ servers <= clients /\ rows < servers
                   /\ BandServer(c) = servers /\ rank < servers}
      owners == {c \in ChunksOf(rank) : BandServer(c) < servers}
  IN  [server \in {BandServer(c) : c \in owners} \cup empty |->
         UNION {Chunk(rows, chunks, c) : c \in
                  {d \in owners : BandServer(d) = server}}]

(* (a slip: the points are cut by the number of clients)                   *)
AxisBandsByClient(rank) ==
  [server \in Chunk(servers, clients, rank) |-> Chunk(rows, clients, server)]

(* CAxis::computeRemoteElement, bands (and the columns of a domain): each  *)
(* client describes whole servers.                                         *)
AxisBands(rank) ==
  [server \in Chunk(servers, clients, rank) |-> Chunk(rows, servers, server)]

---------------------------------------------------------------------------
NotYet == [n \in {} |-> {}]

Init ==
  /\ clients \in 1..MaxClients /\ servers \in 1..MaxServers
  /\ rows \in 1..MaxRows
  /\ leads = NotYet /\ follows = NotYet /\ domain = NotYet /\ axis = NotYet

Ranks == 0..(clients - 1)
Servers == 0..(servers - 1)
Done == DOMAIN leads

(* The next rank computes its leaders and its remote elements.             *)
ComputeRemoteElement ==
  LET rank == Cardinality(Done)
      with(map, value) == [r \in Done \cup {rank} |->
                             IF r = rank THEN value ELSE map[r]]
  IN  /\ rank < clients
      /\ leads' = with(leads, Led(clients, servers, rank))
      /\ follows' = with(follows, Followed(clients, servers, rank))
      /\ domain' = with(domain, DomainBands(rank))
      /\ axis' = with(axis, AxisBands(rank))
      /\ UNCHANGED <<clients, servers, rows>>

Finished == Done = Ranks /\ UNCHANGED vars

Next == ComputeRemoteElement \/ Finished

Spec == Init /\ [][Next]_vars

---------------------------------------------------------------------------
TypeOK ==
  /\ Done \subseteq Ranks
  /\ \A r \in Done : /\ leads[r] \cup follows[r] \subseteq Servers
                     /\ DOMAIN domain[r] \cup DOMAIN axis[r] \subseteq Servers

(* Every server has one leader, the rank that getLeaderRank names without  *)
(* asking: rank 0 sends the indices of a server to the rank that one of    *)
(* the two names, and the rank that the other one names receives them.     *)
(* The server that a client reads a whole grid from exists.                *)
OneLeader ==
  Done = Ranks =>
    /\ \A s \in Servers :
         {r \in Ranks : s \in leads[r]} = {LeaderRank(clients, servers, s)}
    /\ \A r \in Ranks : LeaderRank(servers, clients, r) \in Servers

(* Every client has a server to send to and to be led by, and the clients  *)
(* of one server are spread evenly: their numbers differ by one at most.   *)
EvenlyShared ==
  Done = Ranks =>
    /\ \A r \in Ranks : leads[r] \cup follows[r] # {}
    /\ \A s, t \in Servers :
         LET of(u) == Cardinality({r \in Ranks : u \in leads[r] \cup follows[r]})
         IN  of(s) <= of(t) + 1

(* The part of a server as the clients describe it together.               *)
PartOf(map, s) == UNION {map[r][s] : r \in {q \in Done : s \in DOMAIN map[q]}}

Interval(S) == \A a, b \in S : a..b \subseteq S

(* The bands that the clients describe alone fit together: every row is in *)
(* one band, a band is made of rows that follow each other, no two clients *)
(* describe the same row, and each server is described by somebody, be it  *)
(* as having nothing: it must be told of the grid like the others.         *)
Partition(map) ==
  Done = Ranks =>
    /\ UNION {PartOf(map, s) : s \in Servers} = 0..(rows - 1)
    /\ \A s, t \in Servers : s # t => PartOf(map, s) \cap PartOf(map, t) = {}
    /\ \A s \in Servers : Interval(PartOf(map, s))
    /\ \A q, r \in Ranks : \A s \in DOMAIN map[q] \cap DOMAIN map[r] :
         q # r => map[q][s] \cap map[r][s] = {}
    /\ UNION {DOMAIN map[r] : r \in Ranks} = Servers

DomainParted == Partition(domain)
AxisParted == Partition(axis)
=============================================================================
