-------------------------- MODULE RemoteConnector --------------------------
(***************************************************************************)
(* Which client sends which points of a grid to which server, and which    *)
(* points it asks the servers for: CGridRemoteConnector and                *)
(* CGridClientServerRemoteConnector (src/src/distribution/).               *)
(*                                                                         *)
(* A grid is the product of its elements.  The clients hold views of them, *)
(* the full one and the workflow one (what the mask leaves), which may     *)
(* overlap or be the same everywhere; the servers have whole elements, but *)
(* for the one that CGrid::distributeGridToServer cuts in bands.  Every    *)
(* step is collective: the clients reduce and look up what they need of    *)
(* one another inside of it.                                               *)
(***************************************************************************)
EXTENDS Leaders, FiniteSets, SequencesExt

CONSTANT Grids   \* the clients, the servers, and per element its number of
                 \* points, the views of the clients and the element cut

GridsAssumption ==
  \A g \in Grids :
    /\ {g.clients, g.servers} \subseteq Nat \ {0}
    /\ g.cut \in DOMAIN g.points
    /\ DOMAIN g.full = DOMAIN g.points /\ DOMAIN g.work = DOMAIN g.points
    /\ \A i \in DOMAIN g.points : \A p \in 0..(g.clients - 1) :
         g.work[i][p] \subseteq g.full[i][p]

VARIABLES
  grid,       \* one of Grids
  reading,    \* computeConnectorIn, not computeConnectorOut
  stage,      \* what has been computed
  workflow,   \* the connector of the workflow views
  connector   \* the connector of the full views

vars == <<grid, reading, stage, workflow, connector>>

Clients == 0..(grid.clients - 1)
Servers == 0..(grid.servers - 1)
Elements == DOMAIN grid.points

(* The part of an element that a server has.                               *)
Dst(i, r) ==
  IF i = grid.cut THEN Chunk(grid.points[i], grid.servers, r)
  ELSE 0..(grid.points[i] - 1)

(* A sum of hashes that tells all sets of indices apart, but the hash of   *)
(* index 0 is 0.                                                           *)
Hash(S) == S \ {0}

---------------------------------------------------------------------------
(* (a slip: parts of the same size are taken as the same)                  *)
SrcDistributedBySize(view) ==
  {i \in Elements : \E p, q \in Clients :
     Cardinality(view[i][p]) # Cardinality(view[i][q])}

(* computeViewDistribution: the elements whose parts differ.  The loop on  *)
(* the views of the clients ends at the first one with parts of different  *)
(* sizes: those behind count as not distributed.                           *)
Uneven(view) ==
  {i \in Elements : \E p, q \in Clients :
     Cardinality(view[i][p]) # Cardinality(view[i][q])}

SrcDistributed(view) ==
  {i \in Elements :
     /\ \A j \in Uneven(view) : i <= j
     /\ \/ i \in Uneven(view)
        \/ \E p, q \in Clients : Hash(view[i][p]) # Hash(view[i][q])}

DstDistributed ==
  {i \in Elements : \E r \in Servers :
     \/ Cardinality(Dst(i, r)) # Cardinality(Dst(i, 0))
     \/ Hash(Dst(i, r)) # Hash(Dst(i, 0))}

(* (a slip: the points are not looked up in the part of the server)        *)
SharedAll(view, i, p, r) == view[i][p]

Shared(view, i, p, r) == view[i][p] \cap Dst(i, r)

(* computeGenericMethod, for the elements D: a client keeps the servers    *)
(* that have points of each of its parts; the servers that no client       *)
(* keeps are told that they have none, by the clients in turn.             *)
(* (a slip: the servers without data are left out)                         *)
GenericOnlyData(view, D) ==
  [p \in Clients |->
     LET reach == {r \in Servers : \A i \in D : Shared(view, i, p, r) # {}}
     IN  [i \in D |-> [r \in reach |-> Shared(view, i, p, r)]]]

Generic(view, D) ==
  LET reach(p) == {r \in Servers : \A i \in D : Shared(view, i, p, r) # {}}
      unreached == Servers \ UNION {reach(p) : p \in Clients}
      told(p) == {r \in unreached :
                    Cardinality({s \in unreached : s < r}) % grid.clients = p}
  IN  [p \in Clients |-> [i \in D |-> [r \in reach(p) \cup told(p) |->
         IF r \in told(p) THEN {} ELSE Shared(view, i, p, r)]]]

(* computeSrcDstNonDistributed: everybody has what client 0 shares with    *)
(* server 0; data \subseteq ranks are the servers that get some.           *)
SrcDstSame(view, i, ranks, data) ==
  [r \in ranks |-> IF r \in data THEN Shared(view, i, 0, 0) ELSE {}]

(* The elements that are the same everywhere follow the first of D.        *)
WithOthers(view, D, map) ==
  LET first == CHOOSE i \in D : \A j \in D : i <= j
  IN  [p \in Clients |-> [i \in Elements |->
         IF i \in D THEN map[p][i]
         ELSE SrcDstSame(view, i, DOMAIN map[p][first],
                {r \in DOMAIN map[p][first] : map[p][first][r] # {}})]]

(* The servers of a client when the servers do not differ, or when it is   *)
(* enough that one client sends.                                           *)
LeaderRanks(p) ==
  IF reading THEN {LeaderRank(grid.servers, grid.clients, p)}
  ELSE Led(grid.clients, grid.servers, p)

NoneDistributed(view) ==
  [p \in Clients |-> [i \in Elements |->
     SrcDstSame(view, i, LeaderRanks(p), LeaderRanks(p))]]

(* computeSrcNonDistributed: client 0 looks the points up and sends those  *)
(* of a server to its leader.                                              *)
SrcSame(view, dst) ==
  [p \in Clients |-> [i \in Elements |->
     IF i \in dst THEN [r \in LeaderRanks(p) |-> Shared(view, i, 0, r)]
     ELSE SrcDstSame(view, i, LeaderRanks(p), LeaderRanks(p))]]

(* Reading, client 0 looks up and broadcasts what it has found.            *)
SrcSameReading(view, dst) ==
  LET only0 == [i \in Elements |-> [p \in Clients |->
                  IF p = 0 THEN view[i][0] ELSE {}]]
      map   == Generic(only0, dst)
  IN  WithOthers(view, dst,
        [p \in Clients |-> [i \in dst |-> map[0][i] @@ map[p][i]]])

(* computeDstNonDistributed.                                               *)
DstSame(view, src) ==
  LET ranks(p) == IF reading THEN LeaderRanks(p) ELSE Servers
  IN  [p \in Clients |-> [i \in Elements |->
         IF i \in src THEN [r \in ranks(p) |-> Shared(view, i, p, 0)]
         ELSE SrcDstSame(view, i, ranks(p), ranks(p))]]

(* (a slip: the elements cut on the servers only are taken as the same)    *)
ConnectorMethodsSrc(view, src) ==
  LET dst == DstDistributed
  IN  CASE src = {} /\ dst = {} -> NoneDistributed(view)
        [] src = {} /\ dst # {} /\ ~reading -> SrcSame(view, dst)
        [] src = {} /\ dst # {} /\ reading -> SrcSameReading(view, dst)
        [] src # {} /\ dst = {} -> DstSame(view, src)
        [] src # {} /\ dst # {} -> WithOthers(view, src, Generic(view, src))

(* computeConnectorMethods.                                                *)
ConnectorMethods(view, src) ==
  LET dst == DstDistributed
  IN  CASE src = {} /\ dst = {} -> NoneDistributed(view)
        [] src = {} /\ dst # {} /\ ~reading -> SrcSame(view, dst)
        [] src = {} /\ dst # {} /\ reading -> SrcSameReading(view, dst)
        [] src # {} /\ dst = {} -> DstSame(view, src)
        [] src # {} /\ dst # {} ->
             WithOthers(view, src \cup dst, Generic(view, src \cup dst))

(* computeRedondantRanks: a block is known by the hashes of its parts that *)
(* are not empty.  Of the clients with the same block for a server only    *)
(* the first sends it; a client asks for a block one server only.          *)
BlockHash(map, p, r) ==
  LET filled == SelectSeq([i \in Elements |-> i], LAMBDA i : map[p][i][r] # {})
  IN  [k \in DOMAIN filled |-> Hash(map[p][filled[k]][r])]

Called(map, p) == DOMAIN map[p][1]

(* (a slip: the first client is left out like the others)                  *)
RedundantEverywhere(map) ==
  [p \in Clients |-> {r \in Called(map, p) :
     /\ BlockHash(map, p, r) # <<>>
     /\ \E q \in Clients \ {p} :
          /\ r \in Called(map, q)
          /\ BlockHash(map, q, r) = BlockHash(map, p, r)}]

Redundant(map) ==
  [p \in Clients |-> {r \in Called(map, p) :
     /\ BlockHash(map, p, r) # <<>>
     /\ IF reading
        THEN \E s \in Called(map, p) :
               s < r /\ BlockHash(map, p, s) = BlockHash(map, p, r)
        ELSE \E q \in Clients :
               /\ q < p /\ r \in Called(map, q)
               /\ BlockHash(map, q, r) = BlockHash(map, p, r)}]

Connector(view, src) ==
  LET map == ConnectorMethods(view, src)
  IN  [src |-> src, elements |-> map, remove |-> Redundant(map)]

---------------------------------------------------------------------------
Nothing == [src |-> {}, elements |-> <<>>, remove |-> <<>>]

Init ==
  /\ grid \in Grids
  /\ reading \in BOOLEAN
  /\ stage = "start"
  /\ workflow = Nothing /\ connector = Nothing

(* The connector of the workflow views, made for what it would remove.     *)
ComputeWorkflow ==
  /\ stage = "start"
  /\ stage' = "workflow"
  /\ workflow' = Connector(grid.work, SrcDistributed(grid.work))
  /\ UNCHANGED <<grid, reading, connector>>

(* The connector of the full views; a view counts as distributed when the  *)
(* workflow is, too.                                                       *)
ComputeFull ==
  /\ stage = "workflow"
  /\ stage' = "full"
  /\ connector' = Connector(grid.full,
                            SrcDistributed(grid.full) \cup workflow.src)
  /\ UNCHANGED <<grid, reading, workflow>>

(* (a slip: what is redundant in the full views is enough)                 *)
ErasedFull(p) == connector.remove[p]

(* A server is left out when both connectors would.                        *)
Erased(p) == connector.remove[p] \cap workflow.remove[p]

EraseRedundant ==
  /\ stage = "full"
  /\ stage' = "done"
  /\ connector' = [connector EXCEPT !.elements =
       [p \in Clients |-> [i \in Elements |->
          [r \in (DOMAIN @[p][i]) \ Erased(p) |-> @[p][i][r]]]]]
  /\ UNCHANGED <<grid, reading, workflow>>

Finished == stage = "done" /\ UNCHANGED vars

Next == ComputeWorkflow \/ ComputeFull \/ EraseRedundant \/ Finished

Spec == Init /\ [][Next]_vars

---------------------------------------------------------------------------
Done == stage = "done"
Kept == connector.elements

TypeOK ==
  /\ stage \in {"start", "workflow", "full", "done"}
  /\ workflow.src \cup connector.src \subseteq Elements
  /\ stage \in {"full", "done"} =>
       \A p \in Clients : \A i \in Elements :
         /\ DOMAIN Kept[p][i] \subseteq Servers
         /\ connector.remove[p] \subseteq Servers
         /\ \A r \in DOMAIN Kept[p][i] : Kept[p][i][r] \subseteq Dst(i, r)

(* The points of the grid: an index in each element.                       *)
Points == {f \in [Elements -> 0..Max(Range(grid.points))] :
             \A i \in Elements : f[i] < grid.points[i]}
Has(view, p, f) == \A i \in Elements : f[i] \in view[i][p]
Takes(r, f) == \A i \in Elements : f[i] \in Dst(i, r)
Sends(p, r, f) ==
  \A i \in Elements : r \in DOMAIN Kept[p][i] /\ f[i] \in Kept[p][i][r]

(* Whatever is found redundant and left out, every point that a client has *)
(* goes to the server it belongs to, from some client.                     *)
GridComplete ==
  Done /\ ~reading =>
    \A r \in Servers : \A f \in Points :
      Takes(r, f) /\ (\E p \in Clients : Has(grid.full, p, f)) =>
        \E p \in Clients : Sends(p, r, f)

(* The same of the values: every point of the workflow is sent by a client *)
(* that has it in its workflow, not only in a part that the mask hides     *)
(* (src/src/node/grid.cpp:1576, against a "spurious optimisation").        *)
WorkflowComplete ==
  Done /\ ~reading =>
    \A r \in Servers : \A f \in Points :
      Takes(r, f) /\ (\E p \in Clients : Has(grid.work, p, f)) =>
        \E p \in Clients : Has(grid.work, p, f) /\ Sends(p, r, f)

(* Every point a client has is asked from some server, once.               *)
ReadComplete ==
  Done /\ reading =>
    \A p \in Clients : \A f \in Points :
      Has(grid.full, p, f) =>
        Cardinality({r \in Servers : Sends(p, r, f)}) = 1

(* A client sends, or asks for, nothing that it does not have.  What is    *)
(* worked out by client 0 for the others relies on the views being equal.  *)
OwnedOnly ==
  Done => \A p \in Clients : \A i \in Elements :
    \A r \in DOMAIN Kept[p][i] : Kept[p][i][r] \subseteq grid.full[i][p]

(* Every server hears of the grid, be it that it has nothing of it: events *)
(* are collective on the servers ("Some servers will not receive the       *)
(* message", legacy_context_client.cpp:83).  A client speaks to the same   *)
(* servers of each element.                                                *)
EveryServerTold ==
  Done =>
    /\ \A r \in Servers : \E p \in Clients : r \in Called(Kept, p)
    /\ \A p \in Clients : \A i \in Elements : DOMAIN Kept[p][i] = Called(Kept, p)

(* grid_remote_connector.cpp:35: "Compute if each view composing the       *)
(* source grid and the remote grid is distributed or not", that is if a    *)
(* client has other indices than another.                                  *)
ViewsJudged ==
  Done => connector.src =
    {i \in Elements : \E p, q \in Clients :
       grid.full[i][p] # grid.full[i][q] \/ grid.work[i][p] # grid.work[i][q]}
=============================================================================
