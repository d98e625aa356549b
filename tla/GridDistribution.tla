-------------------------- MODULE GridDistribution --------------------------
(* How a grid gets to the servers and its values there and back:             *)
(* CGrid::distributeGridToServer and CGrid::receiveMask (src/src/node/       *)
(* grid.cpp), distributeToServer of domains, axes and scalars, and the       *)
(* connectors of src/src/distribution/ that they leave behind.               *)
(*                                                                           *)
(* A client holds each element in an order of its own; the servers hold      *)
(* theirs sorted; connectors match them by global index.  A step is one      *)
(* event, from the clients, who make it together, to the servers, who take   *)
(* the events in their order when all parts have come.  Data are functions   *)
(* of positions in the views, one position per element; the value a client   *)
(* has at a point of the grid is the point itself.                           *)
EXTENDS Leaders, FiniteSets, SequencesExt

CONSTANT Grids   \* as in RemoteConnector

VARIABLES
  grid,      \* one of Grids
  reading,   \* inOut: the servers send values back
  stage,     \* how many of the events have been
  index,     \* globalIndexOut and globalIndexIn: client -> element -> server
  server,    \* what each server knows of the elements, and its values
  back       \* the values that each client has read

vars == <<grid, reading, stage, index, server, back>>

Clients == 0 .. (grid.clients - 1)
Servers == 0 .. (grid.servers - 1)
Elements == DOMAIN grid.points

Sorted(S) == SetToSortSeq(S, <)

(* The views of a client's own element, in an order that is not the servers'. *)
FullView(p) == [i \in Elements |-> Reverse(Sorted(grid.full[i][p]))]
WorkflowView(p) ==
  [i \in Elements |-> SelectSeq(FullView(p)[i], LAMBDA x : x \in grid.work[i][p])]

-----------------------------------------------------------------------------
(* A view of a grid is one of each element, a cell a position in each.       *)
Cells(view) ==
  {t \in [DOMAIN view -> UNION {DOMAIN view[i] : i \in DOMAIN view}] :
     \A i \in DOMAIN view : t[i] \in DOMAIN view[i]}

At(view, t) == [i \in DOMAIN view |-> view[i][t[i]]]
Holds(view, f) == \A i \in DOMAIN view : f[i] \in Range(view[i])
CellOf(view, f) ==
  [i \in DOMAIN view |-> CHOOSE k \in DOMAIN view[i] : view[i][k] = f[i]]

Only(i, view) == [j \in {i} |-> view]
Unset == <<>>

(* (a slip: the points are sent in the order of the client's view)           *)
ScatterInPlace(src, dst, data) ==
  [t \in Cells(dst) |-> IF t \in Cells(src) THEN data[t] ELSE Unset]

(* CScattererConnector, for an element or, nested, for a grid: what is known *)
(* of the points of one view, for those of another.                          *)
Scatter(src, dst, data) ==
  [t \in Cells(dst) |-> IF Holds(src, At(dst, t))
                        THEN data[CellOf(src, At(dst, t))] ELSE Unset]

(* CGathererConnector: the ranks are taken in their order, and the last one  *)
(* that has a point leaves its value there.                                  *)
Gather(srcs, datas, dst, missing) ==
  [t \in Cells(dst) |->
     LET f    == At(dst, t)
         with == {q \in DOMAIN srcs : Holds(srcs[q], f)}
     IN  IF with = {} THEN missing ELSE datas[Max(with)][CellOf(srcs[Max(with)], f)]]

(* (a slip: all must have the point in their mask)                           *)
GatherAnd(srcs, datas, dst) ==
  {t \in Cells(dst) :
     LET f == At(dst, t)
     IN  \A q \in DOMAIN srcs : Holds(srcs[q], f) => datas[q][CellOf(srcs[q], f)] = <<TRUE>>}

(* transfer_or, for masks: the cells that some rank has in its own.          *)
GatherOr(srcs, datas, dst) ==
  {t \in Cells(dst) :
     LET f == At(dst, t)
     IN  \E q \in DOMAIN srcs :
           Holds(srcs[q], f) /\ datas[q][CellOf(srcs[q], f)] = <<TRUE>>}

-----------------------------------------------------------------------------
(* The connector of the grid, which the clients compute together.            *)
Remote(ahead) == INSTANCE RemoteConnector
                 WITH reading <- ahead, stage <- "full", workflow <- 0, connector <- 0

Connected(ahead) ==
  LET work == Remote(ahead)!Connector(grid.work, Remote(ahead)!SrcDistributed(grid.work))
      full == Remote(ahead)!Connector(grid.full,
                Remote(ahead)!SrcDistributed(grid.full) \cup work.src)
  IN  [p \in Clients |->
         LET erased == work.remove[p] \cap full.remove[p]
         IN  [i \in Elements |-> [r \in (DOMAIN full.elements[p][i]) \ erased |->
                Sorted(full.elements[p][i][r])]]]

(* computeRemoteElement: what the clients describe of the servers' elements. *)
RemoteElement(i, r) ==
  IF i = grid.cut THEN Chunk(grid.points[i], grid.servers, r)
  ELSE 0 .. (grid.points[i] - 1)

(* Whom a part of an element goes to, and what of it the client's mask       *)
(* leaves.                                                                   *)
Senders(ix, r) == {p \in Clients : r \in DOMAIN ix[p][1]}
Part(ix, p, r) == [i \in Elements |-> ix[p][i][r]]

(* (a slip: the mask of the client is forgotten)                             *)
MaskedNot(ix, p, r) == Part(ix, p, r)

Masked(ix, p, r) ==
  [i \in Elements |-> SelectSeq(ix[p][i][r], LAMBDA x : x \in grid.work[i][p])]

Plan ==
  << <<"connectors", 0>> >>
  \o FlattenSeq([i \in Elements |->
    << <<"view", i>>, <<"gatherer", i>>, <<"attributes", i>>, <<"from", i>> >>
      \o IF reading THEN << <<"to", i>> >> ELSE <<>>])
  \o << <<"mask", 0>>, <<"values", 0>> >> \o IF reading THEN << <<"back", 0>> >> ELSE <<>>

Nobody == [p \in {} |-> <<>>]
Unknown == [i \in Elements |-> Nobody]

Init ==
  /\ grid \in Grids
  /\ reading \in BOOLEAN
  /\ stage = 0
  /\ index = [out |-> <<>>, in |-> <<>>]
  /\ server = [r \in Servers |-> [full |-> Unknown, gatherer |-> Unknown, attribute |-> Unknown,
                                  from |-> Unknown, to |-> Unknown, work |-> Unknown,
                                  values |-> Nobody]]
  /\ back = [p \in Clients |-> Nobody]

Event(kind, i) ==
  /\ stage < Len(Plan) /\ Plan[stage + 1] = <<kind, i>>
  /\ stage' = stage + 1
  /\ UNCHANGED <<grid, reading>>

(* computeConnectorOut and, to read, computeConnectorIn.                     *)
ComputeConnectors ==
  /\ Event("connectors", 0)
  /\ index' = [out |-> Connected(FALSE), in |-> IF reading THEN Connected(TRUE) ELSE <<>>]
  /\ UNCHANGED <<server, back>>

(* Phase 0: "the full view on server, ie without hole".                      *)
SendRemoteElement(i) ==
  /\ Event("view", i)
  /\ server' = [r \in Servers |-> [server[r] EXCEPT !.full[i] = Sorted(RemoteElement(i, r))]]
  /\ UNCHANGED <<index, back>>

(* Phase 1: the indices themselves, through the scatterer.                   *)
SendFullView(i) ==
  LET ship(p, r) ==
        LET src == Only(i, FullView(p)[i])
            dst == Only(i, index.out[p][i][r])
            got == Scatter(src, dst, [t \in Cells(src) |-> <<At(src, t)[i]>>])
        IN  [k \in DOMAIN dst[i] |-> got[[j \in {i} |-> k]][1]]
  IN  /\ Event("gatherer", i)
      /\ server' = [r \in Servers |-> [server[r] EXCEPT !.gatherer[i] =
                       [p \in Senders(index.out, r) |-> ship(p, r)]]]
      /\ UNCHANGED <<index, back>>

(* sendDistributedAttributes: a value per point of the element, 0 where no   *)
(* client has one.                                                           *)
SendDistributedAttributes(i) ==
  LET ship(p, r) ==
        LET src == Only(i, FullView(p)[i])
        IN  Scatter(src, Only(i, index.out[p][i][r]), [t \in Cells(src) |-> At(src, t)])
  IN  /\ Event("attributes", i)
      /\ server' = [r \in Servers |-> [server[r] EXCEPT !.attribute[i] =
                       LET from == server[r].gatherer[i]
                       IN  Gather([p \in DOMAIN from |-> Only(i, from[p])],
                                  [p \in DOMAIN from |-> ship(p, r)],
                                  Only(i, server[r].full[i]), Unset)]]
      /\ UNCHANGED <<index, back>>

(* Phase 2: the points that values will come for.                            *)
SendElementFrom(i) ==
  /\ Event("from", i)
  /\ server' = [r \in Servers |-> [server[r] EXCEPT !.from[i] =
                   [p \in Senders(index.out, r) |-> Masked(index.out, p, r)[i]]]]
  /\ UNCHANGED <<index, back>>

(* Phase 3: the points that values are asked for.                            *)
SendElementTo(i) ==
  /\ Event("to", i)
  /\ server' = [r \in Servers |-> [server[r] EXCEPT !.to[i] =
                   [p \in Senders(index.in, r) |-> Masked(index.in, p, r)[i]]]]
  /\ UNCHANGED <<index, back>>

(* The mask of the grid, point by point, of which a server keeps the shadow  *)
(* on each element (CGridMaskConnector, setServerMask).                      *)
SendMask ==
  LET ship(p, r) ==
        Scatter(FullView(p), Part(index.out, p, r),
                [t \in Cells(FullView(p)) |-> << Holds(WorkflowView(p), At(FullView(p), t)) >>])
      mask(r) ==
        GatherOr([p \in Senders(index.out, r) |-> [i \in Elements |-> server[r].gatherer[i][p]]],
                 [p \in Senders(index.out, r) |-> ship(p, r)], server[r].full)
  IN  /\ Event("mask", 0)
      /\ server' = [r \in Servers |-> [server[r] EXCEPT !.work =
                       [i \in Elements |->
                          Sorted({At(server[r].full, t)[i] : t \in mask(r)})]]]
      /\ UNCHANGED <<index, back>>

-----------------------------------------------------------------------------
(* From the model to the file: clientToServerConnector, then                 *)
(* serverFromClientConnector.                                                *)
SendValues ==
  LET ship(p, r) ==
        Scatter(WorkflowView(p), Masked(index.out, p, r),
                [t \in Cells(WorkflowView(p)) |-> At(WorkflowView(p), t)])
  IN  /\ Event("values", 0)
      /\ server' = [r \in Servers |-> [server[r] EXCEPT !.values =
                       Gather([p \in Senders(index.out, r) |->
                                 [i \in Elements |-> server[r].from[i][p]]],
                              [p \in Senders(index.out, r) |-> ship(p, r)],
                              server[r].work, Unset)]]
      /\ UNCHANGED <<index, back>>

(* From the file to the model: a client hears from the servers that have its *)
(* number in their elementTo.                                                *)
Answers(p) == {r \in Servers : p \in DOMAIN server[r].to[1]}

SendBack ==
  LET ship(r, p) ==
        Scatter(server[r].work, [i \in Elements |-> server[r].to[i][p]], server[r].values)
  IN  /\ Event("back", 0)
      /\ back' = [p \in Clients |->
                    IF Answers(p) = {} THEN Nobody
                    ELSE Gather([r \in Answers(p) |-> Masked(index.in, p, r)],
                                [r \in Answers(p) |-> ship(r, p)], WorkflowView(p), Unset)]
      /\ UNCHANGED <<index, server>>

Done == stage = Len(Plan)
Finished == Done /\ UNCHANGED vars

Next ==
  \/ \E i \in Elements : \/ SendRemoteElement(i) \/ SendFullView(i) \/ SendElementFrom(i)
                          \/ SendDistributedAttributes(i) \/ SendElementTo(i)
  \/ ComputeConnectors \/ SendMask \/ SendValues \/ SendBack \/ Finished

Spec == Init /\ [][Next]_vars

-----------------------------------------------------------------------------
Points == {f \in [Elements -> 0 .. Max(Range(grid.points))] :
             \A i \in Elements : f[i] < grid.points[i]}
Here(r, f) == \A i \in Elements : f[i] \in RemoteElement(i, r)
InWork(p, f) == \A i \in Elements : f[i] \in grid.work[i][p]
InFull(p, f) == \A i \in Elements : f[i] \in grid.full[i][p]
Masks(r) == {f \in Points : Here(r, f) /\ \E p \in Clients : InWork(p, f)}

TypeOK ==
  /\ stage \in 0 .. Len(Plan)
  /\ \A r \in Servers : \A i \in Elements : IsInjective(server[r].full[i])

(* The mask a server has of an element is the shadow of what the clients     *)
(* have left of the grid in its part, whoever sent what (grid.cpp:1709).     *)
ServerMaskExact ==
  stage >= Len(Plan) - (IF reading THEN 2 ELSE 1) =>
    \A r \in Servers : \A i \in Elements :
      Range(server[r].work[i]) = {f[i] : f \in Masks(r)}

(* Each server has at each point that a client has the value of that point,  *)
(* through the orders that the two have their elements in.                   *)
ValuesArrive ==
  Done => \A r \in Servers : \A f \in Masks(r) :
    Holds(server[r].work, f) /\ server[r].values[CellOf(server[r].work, f)] = f

(* So have the coordinates of the points, masked ones too: a point that some *)
(* client has is not left at 0 (domain.cpp:2379).                            *)
AttributesArrive ==
  Done => \A r \in Servers : \A p \in Clients : \A f \in Points :
    Here(r, f) /\ InFull(p, f) => \A i \in Elements :
      LET t == CellOf(Only(i, server[r].full[i]), Only(i, f[i]))
      IN  server[r].attribute[i][t] = Only(i, f[i])

(* A client reads at each of its points what the servers have there.         *)
ValuesReturn ==
  Done /\ reading => \A p \in Clients : \A f \in Points :
    InWork(p, f) => back[p] # Nobody /\ back[p][CellOf(WorkflowView(p), f)] = f

(* Each rank of the clients takes part in the events that the servers send   *)
(* ("the call is collective", grid_remote_connector.cpp:353), be it that it  *)
(* has nothing of the grid.                                                  *)
EveryClientAnswered ==
  Done /\ reading => \A p \in Clients : Answers(p) # {}

(* The servers have no point without a value in what they write.             *)
NoHole ==
  Done => \A r \in Servers : \A t \in DOMAIN server[r].values : server[r].values[t] # Unset
=============================================================================
