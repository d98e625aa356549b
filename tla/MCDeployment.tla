---------------------------- MODULE MCDeployment ----------------------------
(* A run of the servers around the contexts: codes and servers meet (three    *)
(* codes by files, the same by the global communicator, or one code that has  *)
(* no servers); pools and services are made and contexts asked for (four      *)
(* ranks: two pools, a service onto another; or one pool with a service in    *)
(* three partitions); contexts are coupled (three of them in a ring, one pair *)
(* both ways); and registries are gathered at the end of each run (a model    *)
(* and three servers with two contexts over two runs; seven ranks, for the    *)
(* tree).  A behaviour is of one part; the variables of the couplings stay as *)
(* they begin in the others, those of the other parts are Off.                *)
EXTENDS Coupling, Integers, FiniteSets, SequencesExt

Off == "off"

VARIABLES part, asked, registered, started, calls, resWin, svcWin, ctxWin,
          freeRanks, srv, pool, svc, chain, stack, sent, down, lost,
          run, disk, input, given, out, saved, file, place,
          hasServer, serverRank, clientsRank, others, at, comm, told, counted,
          signalled, announced, entered

poolVars == <<asked, registered, started, resWin, svcWin, ctxWin, freeRanks, srv,
              pool, svc, chain, stack, sent, down, lost>>
registryVars == <<run, disk, input, given, out, saved>>
startVars == <<file, place, hasServer, serverRank, clientsRank, others, at, comm,
               told, counted, signalled, announced, entered>>
MCvars == <<part, vars, poolVars, calls, registryVars, startVars>>

Pool(id, size) == [op |-> "pool", id |-> id, size |-> size]
Service(p, id, size, parts) ==
  [op |-> "service", pool |-> p, id |-> id, size |-> size, parts |-> parts]
OntoService(p, id, on, parts) ==
  [op |-> "onto", pool |-> p, id |-> id, on |-> on, parts |-> parts]

TwoPools == << Pool("a", 3), Service("a", "gatherer", 2, 1),
               OntoService("a", "reader", "gatherer", 1),
               Service("a", "writer", 1, 1), Pool("b", 1) >>
Partitions == << Pool("a", 4), Service("a", "writer", 4, 3) >>

P == INSTANCE Deployment WITH N <- 4, Script <- TwoPools, EarlyFinalize <- FALSE,
       Contexts <- {[pool |-> "a", id |-> "gatherer", name |-> "ctx"]}
Q == INSTANCE Deployment WITH N <- 4, Script <- Partitions, EarlyFinalize <- FALSE,
       Contexts <- {[pool |-> "a", id |-> "writer", name |-> "ctx"]}

Ring == {<<1, 2>>, <<2, 3>>, <<3, 1>>, <<2, 1>>}

G == INSTANCE Registry WITH
  N <- 4, Contexts <- <<"model", "writer", "reader">>,
  RanksOf <- [model |-> <<0>>, writer |-> <<1, 2, 3>>, reader |-> <<2>>],
  Names <- {"splitStart"}, Runs <- 2
T == INSTANCE Registry WITH
  N <- 7, Contexts <- <<"model">>, RanksOf <- [model |-> [i \in 1 .. 7 |-> i - 1]],
  Names <- {"splitStart"}, Runs <- 1

RootOf == [atm |-> 0, oce |-> 3, ice |-> 5, xios |-> 8]
NothingLeft == [c \in {} |-> 0]
M == INSTANCE Startup WITH
  Codes <- <<"oce", "atm", "ice">>, Server <- "xios", ServerRanks <- {"x1", "x2"},
  ServerRoot <- "x1", Left <- NothingLeft, ByFile <- TRUE, Torn <- FALSE, Patient <- TRUE
W == INSTANCE Startup WITH
  Codes <- <<"oce", "atm", "ice">>, Server <- "xios", ServerRanks <- {"x1", "x2"},
  ServerRoot <- "x1", Left <- NothingLeft, ByFile <- FALSE, Torn <- FALSE, Patient <- TRUE
A == INSTANCE Startup WITH
  Codes <- <<"oce">>, Server <- "xios", ServerRanks <- {},
  ServerRoot <- "x1", Left <- NothingLeft, ByFile <- TRUE, Torn <- FALSE, Patient <- FALSE

ASSUME /\ M!StartupAssumption /\ W!StartupAssumption /\ A!StartupAssumption
       /\ P!RanksAssumption /\ P!ScriptAssumption /\ Q!RanksAssumption /\ Q!ScriptAssumption
       /\ G!RegistryAssumption /\ T!RegistryAssumption

PoolsOff ==
  /\ asked = Off /\ registered = Off /\ started = Off /\ resWin = Off /\ svcWin = Off
  /\ ctxWin = Off /\ freeRanks = Off /\ srv = Off /\ pool = Off /\ svc = Off
  /\ chain = Off /\ stack = Off /\ sent = Off /\ down = Off /\ lost = Off
RegistryOff ==
  /\ run = Off /\ disk = Off /\ input = Off /\ given = Off /\ out = Off /\ saved = Off
StartOff ==
  /\ file = Off /\ place = Off /\ hasServer = Off /\ serverRank = Off
  /\ clientsRank = Off /\ others = Off /\ at = Off /\ comm = Off /\ told = Off
  /\ counted = Off /\ signalled = Off /\ announced = Off /\ entered = Off

MCInit ==
  /\ Init
  /\ \/ part = "pools" /\ P!Init /\ RegistryOff /\ StartOff
     \/ part = "partitions" /\ Q!Init /\ RegistryOff /\ StartOff
     \/ part = "coupling" /\ calls = Off /\ PoolsOff /\ RegistryOff /\ StartOff
     \/ part = "registry" /\ G!Init /\ PoolsOff /\ StartOff
     \/ part = "tree" /\ T!Init /\ PoolsOff /\ StartOff
     \/ part = "meeting" /\ M!Init /\ calls = Off /\ PoolsOff /\ RegistryOff
     \/ part = "global" /\ W!Init /\ calls = Off /\ PoolsOff /\ RegistryOff
     \/ part = "alone" /\ A!Init /\ calls = Off /\ PoolsOff /\ RegistryOff

MCNext ==
  \/ part = "pools" /\ P!Next /\ UNCHANGED <<part, vars, registryVars, startVars>>
  \/ part = "pools" /\ (\A r \in 0 .. 3 : srv[r].pc = "ended") /\ UNCHANGED MCvars
  \/ part = "partitions" /\ Q!Next /\ UNCHANGED <<part, vars, registryVars, startVars>>
  \/ part = "partitions" /\ (\A r \in 0 .. 3 : srv[r].pc = "ended") /\ UNCHANGED MCvars
  \/ /\ part = "coupling" /\ Next
     /\ UNCHANGED <<part, calls, poolVars, registryVars, startVars>>
  \/ part = "coupling" /\ (\A c \in Contexts : phase[c] = "done") /\ UNCHANGED MCvars
  \/ part = "registry" /\ G!Next /\ UNCHANGED <<part, vars, poolVars, startVars>>
  \/ part = "tree" /\ T!Next /\ UNCHANGED <<part, vars, poolVars, startVars>>
  \/ part = "meeting" /\ M!Next /\ UNCHANGED <<part, vars, calls, poolVars, registryVars>>
  \/ part = "global" /\ W!Next /\ UNCHANGED <<part, vars, calls, poolVars, registryVars>>
  \/ part = "alone" /\ A!Next /\ UNCHANGED <<part, vars, calls, poolVars, registryVars>>

(* The fairness of each part's own Spec.                                      *)
MCFairness ==
  /\ WF_(P!vars)(part = "pools" /\ P!Server)
  /\ WF_(P!vars)(part = "pools" /\ P!AskOne)
  /\ WF_(P!vars)(part = "pools" /\ P!ClientsFinalize)
  /\ WF_(Q!vars)(part = "partitions" /\ Q!Server)
  /\ WF_(Q!vars)(part = "partitions" /\ Q!AskOne)
  /\ WF_(Q!vars)(part = "partitions" /\ Q!ClientsFinalize)
  /\ \A c \in Contexts : WF_vars(part = "coupling" /\ Step(c))
  /\ \A k \in Links : WF_vars(part = "coupling" /\ Create(k))
  /\ WF_(M!vars)(part = "meeting" /\ M!Step)
  /\ WF_(W!vars)(part = "global" /\ W!Step)
  /\ WF_(A!vars)(part = "alone" /\ A!Step)
  /\ WF_(G!vars)(part = "registry" /\ \E r \in 0 .. 3 : G!Step(r))
  /\ WF_(T!vars)(part = "tree" /\ \E r \in 0 .. 6 : T!Step(r))

MCSpec == MCInit /\ [][MCNext]_MCvars /\ MCFairness

-----------------------------------------------------------------------------
(* The threads of a server rank stay in step with those of the others while   *)
(* pools are split and schedulers replaced under them: a request finds what   *)
(* it is for, ranks of one group are in the same collective call, a resource  *)
(* registers with and queries one stack (servers_ressource.cpp:213), nothing  *)
(* is on its way in a scheduler that is replaced (event_scheduler.cpp:118),   *)
(* and the ranks a leader counts as occupied are those that have a service    *)
(* (pool_ressource.cpp:348).                                                  *)
ServersInStep ==
  /\ part = "pools" => /\ P!TypeOK /\ P!TargetsThere /\ P!SameCollective
                       /\ P!OneStack /\ P!NothingLost /\ P!OccupancyMatches
  /\ part = "partitions" => /\ Q!TypeOK /\ Q!TargetsThere /\ Q!SameCollective
                            /\ Q!OneStack /\ Q!NothingLost /\ Q!OccupancyMatches

(* Codes and servers come to one communicator, whose ranks all know in one    *)
(* order (client.cpp:135); a file is removed only after the last rank that    *)
(* polls for it has read it (client.cpp:346, server.cpp:459); and the servers *)
(* end the definition of the coupling after the last code has asked for it    *)
(* (server.cpp:538).                                                          *)
StartTogether ==
  /\ part = "meeting" => /\ M!TypeOK /\ M!OneXiosComm
                         /\ M!FilesReadFirst /\ M!EnddefAfterAll
  /\ part = "global" => W!TypeOK /\ W!OneXiosComm
  /\ part = "alone" => A!TypeOK /\ A!OneXiosComm

(* What the ranks of a context put in its registry reaches its first rank by  *)
(* the tree of gatherings, and a run reads what the last one saved.           *)
RegistryKept ==
  /\ part = "registry" => G!TypeOK /\ G!ContextGathered /\ G!RunReadsLast
  /\ part = "tree" => T!TypeOK /\ T!ContextGathered

(* Every code and every rank of the servers gets out of the start; every      *)
(* server rank ends with no request left unread; every coupling gets its      *)
(* channel on both sides and every context leaves its loop.                   *)
AllEnd ==
  <>[](/\ part = "meeting" => M!Started
       /\ part = "global" => W!Started
       /\ part = "alone" => A!Started
       /\ part \in {"pools", "partitions"} =>
            \A r \in 0 .. 3 : /\ srv[r].pc = "ended" /\ srv[r].win = <<>>
                              /\ svcWin[r] = <<>> /\ ctxWin[r] = <<>>
       /\ part = "coupling" =>
            \A c \in Contexts : phase[c] = "done" /\ channels[c] = Couplings(c))

(* Ranks that take part in different gatherings never wait for one another:   *)
(* a run that is not stopped ends.                                            *)
RunEnds ==
  /\ (part = "registry" /\ ~G!Ended) ~> (part = "registry" /\ G!Ended)
  /\ (part = "tree" /\ ~T!Ended) ~> (part = "tree" /\ T!Ended)
=============================================================================
