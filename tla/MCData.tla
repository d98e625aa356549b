-------------------------------- MODULE MCData --------------------------------
(* What is done to the data of fields: the workflow that computes them, the  *)
(* temporal filter, the requests for the records of a file, the series of     *)
(* files they are written to, the calendar that dates them, and what each     *)
(* client describes, sends and finds of the elements of their grids.  A       *)
(* behaviour is of one part; the variables of the others are Off.             *)
EXTENDS Integers, Sequences, FiniteSets, TLC

CONSTANTS None,     \* no trigger, no date
          k1, k2    \* two global indices

Off == "off"

VARIABLES part, outputs, triggers, twice, flow, date, sent, asked, op,
          missing, full, lazy, requested, requests, gotOne, lastDate, isEOF,
          dateEOF, packets, model, replies, served, nStep, disk, registry,
          run, going, lastSplit, isOpen, appendMode, registryOut, todo, nstep,
          lastFileSplit, written, chained, phase, config, initDate,
          timeOrigin, timeStep, currentDate, clients, servers, rows, leads,
          follows, domain, axis, grid, reading, stage, workflow, connector,
          index, server, back, groups, recvRank, sendRank, plan, fed, demand,
          step, posted, store, wanted, askedFrom, found, expected, net

vars == <<part, outputs, triggers, twice, flow, date, sent, asked, op, missing, full,
          lazy, requested, requests, gotOne, lastDate, isEOF, dateEOF,
          packets, model, replies, served, nStep, disk, registry, run, going,
          lastSplit, isOpen, appendMode, registryOut, todo, nstep,
          lastFileSplit, written, chained, phase, config, initDate,
          timeOrigin, timeStep, currentDate, clients, servers, rows, leads,
          follows, domain, axis, grid, reading, stage, workflow, connector,
          index, server, back, groups, recvRank, sendRank, plan, fed, demand,
          step, posted, store, wanted, askedFrom, found, expected, net>>

-----------------------------------------------------------------------------
(* The fields m1 and m2 are read, s is sent by the model; a = m1 + m2,        *)
(* c = a + m1, b = c + s; the model reads m2 and b.                           *)
N8 == {"m1", "m2", "s", "a", "b", "c", "get2", "getb"}
Kinds == [n \in N8 |-> CASE n \in {"m1", "m2"} -> "manual"
                         [] n = "s" -> "auto"
                         [] n \in {"a", "b", "c"} -> "filter"
                         [] OTHER -> "store"]
E8 == {<<"m1", "a", 1>>, <<"m2", "a", 2>>, <<"a", "c", 1>>, <<"m1", "c", 2>>,
       <<"c", "b", 1>>, <<"s", "b", 2>>, <<"b", "getb", 1>>, <<"m2", "get2", 1>>}

(* A year of three short months, and that of the Earth.                       *)
Date(y, m, d, s) == [y |-> y, m |-> m, d |-> d, s |-> s]
Dur(y, mo, d, s, ts) == [y |-> y, mo |-> mo, d |-> d, s |-> s, ts |-> ts]

ShortCalendars ==
  [start : {Date(4, m, d, s) : m \in {1, 2}, d \in 1..2, s \in {1}}
             \cup {Date(3, 2, 3, 1), Date(4, 2, 3, 0)},
   origin : {Date(0, 2, 2, 0)},
   step : {Dur(0, 0, 0, 1, 0), Dur(0, 0, 1, 1, 0), Dur(0, 0, 7, 0, 0),
           Dur(0, 1, 0, 0, 0), Dur(0, 1, 1, 1, 0), Dur(1, 2, 0, 0, 0)},
   split : {Dur(0, 0, 2, 1, 0), Dur(0, 0, 9, 0, 0), Dur(0, 1, 0, 0, 0),
            Dur(1, 0, 0, 0, 0), Dur(0, 0, 0, 0, 2)}]
EarthCalendars ==
  [start : {Date(1899, 12, 31, 1), Date(1896, 2, 29, 0), Date(1999, 11, 28, 0),
            Date(1900, 2, 29, 0)},
   origin : {Date(1896, 2, 1, 0)},
   step : {Dur(0, 0, 1, 0, 0), Dur(0, 0, 29, 1, 0), Dur(0, 0, 365, 0, 0),
           Dur(0, 1, 0, 0, 0), Dur(4, 0, 0, 0, 0)},
   split : {Dur(0, 1, 0, 0, 0), Dur(1, 0, 0, 0, 0), Dur(0, 0, 40, 1, 0)}]

Sizes == INSTANCE RemoteConnector WITH Grids <- {}

(* The views of an element of n points that P clients have of the full grid   *)
(* and of the workflow, which their hashes tell apart when they are not the   *)
(* same, also when cut in Q bands.                                            *)
Telling(P, Q, n) ==
  LET parts == {<<f, w>> \in (SUBSET (0..(n - 1))) \X (SUBSET (0..(n - 1))) :
                  w \subseteq f}
  IN  {v \in [0..(P - 1) -> parts] :
        \A r \in 0..(Q - 1) : \A p, q \in 0..(P - 1) : \A k \in {1, 2} :
          \A band \in {Sizes!Chunk(n, Q, r), 0..(n - 1)} :
            Sizes!Hash(v[p][k] \cap band) = Sizes!Hash(v[q][k] \cap band)
              => v[p][k] \cap band = v[q][k] \cap band}

Grid(P, Q, points, cut, views) ==
  [clients |-> P, servers |-> Q, points |-> points, cut |-> cut,
   full |-> [i \in DOMAIN points |-> [p \in 0..(P - 1) |-> views[i][p][1]]],
   work |-> [i \in DOMAIN points |-> [p \in 0..(P - 1) |-> views[i][p][2]]]]

(* Grids of one element, an axis, a domain or a scalar.                       *)
Single(P, Q, n) == {Grid(P, Q, <<n>>, 1, <<v>>) : v \in Telling(P, Q, n)}

(* Grids of two elements, the first or the second being cut; no element is    *)
(* distributed behind one with parts of different sizes.                      *)
Judged(v, w) ==
  \A k \in {1, 2} : \A p, q \in DOMAIN v :
    Cardinality(v[p][k]) # Cardinality(v[q][k])
      => \A s, t \in DOMAIN w : w[s][k] = w[t][k]
Double(Q, points, cut) ==
  {Grid(2, Q, points, cut, vw) :
     vw \in {uv \in Telling(2, Q, points[1]) \X Telling(2, Q, points[2]) :
               Judged(uv[1], uv[2])}}

UsualGrids ==
  UNION {Single(3, n, 2) : n \in {1, 4}} \cup UNION {Single(2, n, 3) : n \in {1, 2}}
    \cup UNION {Double(n, <<2, 2>>, 1) : n \in {1, 2}}
    \cup Double(3, <<1, 2>>, 2)

(* Those of them that are followed to the servers and back.                   *)
SentGrids ==
  Single(2, 2, 3) \cup Single(3, 4, 1) \cup Double(2, <<2, 2>>, 1)

R2 == {"r1", "r2"}

-----------------------------------------------------------------------------
W == INSTANCE Workflow WITH
  Nodes <- N8, Kind <- Kinds, Edges <- E8, ReadFields <- <<"m1", "m2">>, LastDate <- 2,
  Slots <- [n \in N8 |-> CASE Kinds[n] = "filter" -> 2 [] Kinds[n] = "store" -> 1 [] OTHER -> 0]
A == INSTANCE Averaging WITH
  Operations <- {"average", "instant", "once"}, SamplingFreqs <- 1..3, OpFreqs <- 1..4,
  Offsets <- 0..1, LastDate <- 6
R == INSTANCE ReadAhead WITH
  Ranks <- R2, Freq <- 2, Offset <- 0, Records <- 2, First <- 0, Cyclic <- FALSE, LastDate <- 9
C == INSTANCE ReadAhead WITH
  Ranks <- R2, Freq <- 2, Offset <- 1, Records <- 2, First <- 1, Cyclic <- TRUE, LastDate <- 9
F == INSTANCE FileSeries WITH
  Fields <- {"f", "g"}, SplitFreq <- 3, RecordOffset <- 0, LastDate <- 5, Runs <- 3
S == INSTANCE Calendar WITH
  MonthDays <- <<3, 2, 3>>, DayLength <- 2, LeapRule <- "drift", LeapMonth <- 2, Drift <- 1,
  DriftDen <- 4, DriftOffset <- 0, Calendars <- ShortCalendars, LastStep <- 8, step <- timeStep
E == INSTANCE Calendar WITH
  MonthDays <- <<31, 28, 31, 30, 31, 30, 31, 31, 30, 31, 30, 31>>, DayLength <- 2,
  LeapRule <- "gregorian", LeapMonth <- 2, Drift <- 0, DriftDen <- 1, DriftOffset <- 0,
  Calendars <- EarthCalendars, LastStep <- 6, step <- timeStep
B == INSTANCE ServerBands WITH MaxClients <- 7, MaxServers <- 6, MaxRows <- 16
G == INSTANCE RemoteConnector WITH Grids <- UsualGrids
P == INSTANCE GridDistribution WITH Grids <- SentGrids
L == INSTANCE CommLevels WITH HashMax <- 127, MaxClients <- 40
D == INSTANCE DistributedTable WITH
  HashMax <- 13, Clients <- 3, Keys <- {k1, k2}, Hash <- (k1 :> 0) @@ (k2 :> 9),
  Feeds <- {(k1 :> {0, 2}) @@ (k2 :> {1}), (k1 :> {1}) @@ (k2 :> {0, 1, 2})},
  Demands <- {d \in [0..2 -> {{}, {k1, k2}}] : d[0] # {} /\ (d[1] = {} <=> d[2] # {})}

ASSUME /\ W!WorkflowAssumption /\ A!AveragingAssumption /\ R!ReadAheadAssumption
       /\ C!ReadAheadAssumption /\ F!FileSeriesAssumption /\ S!CalendarAssumption
       /\ E!CalendarAssumption /\ B!SizesAssumption /\ G!GridsAssumption
       /\ L!MaxClientsAssumption /\ L!HashMaxAssumption /\ D!TableAssumption

Init ==
  \/ /\ part = "workflow" /\ W!Init
     /\ op = Off /\ missing = Off /\ full = Off /\ lazy = Off
     /\ requested = Off /\ requests = Off /\ gotOne = Off /\ lastDate = Off
     /\ isEOF = Off /\ dateEOF = Off /\ packets = Off /\ model = Off
     /\ replies = Off /\ served = Off /\ nStep = Off /\ disk = Off
     /\ registry = Off /\ run = Off /\ going = Off /\ lastSplit = Off
     /\ isOpen = Off /\ appendMode = Off /\ registryOut = Off /\ todo = Off
     /\ nstep = Off /\ lastFileSplit = Off /\ written = Off /\ chained = Off
     /\ phase = Off /\ config = Off /\ initDate = Off /\ timeOrigin = Off
     /\ timeStep = Off /\ currentDate = Off /\ clients = Off /\ servers = Off
     /\ rows = Off /\ leads = Off /\ follows = Off /\ domain = Off
     /\ axis = Off /\ grid = Off /\ reading = Off /\ stage = Off
     /\ workflow = Off /\ connector = Off /\ index = Off /\ server = Off
     /\ back = Off /\ groups = Off /\ recvRank = Off /\ sendRank = Off
     /\ plan = Off /\ fed = Off /\ demand = Off /\ step = Off /\ posted = Off
     /\ store = Off /\ wanted = Off /\ askedFrom = Off /\ found = Off
     /\ expected = Off /\ net = Off
  \/ /\ part = "averages" /\ A!Init
     /\ outputs = Off /\ triggers = Off /\ twice = Off /\ flow = Off
     /\ sent = Off /\ asked = Off /\ requested = Off /\ requests = Off
     /\ gotOne = Off /\ lastDate = Off /\ isEOF = Off /\ dateEOF = Off
     /\ packets = Off /\ model = Off /\ replies = Off /\ served = Off
     /\ nStep = Off /\ disk = Off /\ registry = Off /\ run = Off
     /\ going = Off /\ lastSplit = Off /\ isOpen = Off /\ appendMode = Off
     /\ registryOut = Off /\ todo = Off /\ nstep = Off /\ lastFileSplit = Off
     /\ written = Off /\ chained = Off /\ phase = Off /\ config = Off
     /\ initDate = Off /\ timeOrigin = Off /\ timeStep = Off
     /\ currentDate = Off /\ clients = Off /\ servers = Off /\ rows = Off
     /\ leads = Off /\ follows = Off /\ domain = Off /\ axis = Off
     /\ grid = Off /\ reading = Off /\ stage = Off /\ workflow = Off
     /\ connector = Off /\ index = Off /\ server = Off /\ back = Off
     /\ groups = Off /\ recvRank = Off /\ sendRank = Off /\ plan = Off
     /\ fed = Off /\ demand = Off /\ step = Off /\ posted = Off /\ store = Off
     /\ wanted = Off /\ askedFrom = Off /\ found = Off /\ expected = Off
     /\ net = Off
  \/ /\ part = "reads" /\ R!Init
     /\ outputs = Off /\ triggers = Off /\ twice = Off /\ flow = Off
     /\ sent = Off /\ asked = Off /\ op = Off /\ missing = Off /\ full = Off
     /\ lazy = Off /\ disk = Off /\ registry = Off /\ run = Off /\ going = Off
     /\ lastSplit = Off /\ isOpen = Off /\ appendMode = Off
     /\ registryOut = Off /\ todo = Off /\ nstep = Off /\ lastFileSplit = Off
     /\ written = Off /\ chained = Off /\ phase = Off /\ config = Off
     /\ initDate = Off /\ timeOrigin = Off /\ timeStep = Off
     /\ currentDate = Off /\ clients = Off /\ servers = Off /\ rows = Off
     /\ leads = Off /\ follows = Off /\ domain = Off /\ axis = Off
     /\ grid = Off /\ reading = Off /\ stage = Off /\ workflow = Off
     /\ connector = Off /\ index = Off /\ server = Off /\ back = Off
     /\ groups = Off /\ recvRank = Off /\ sendRank = Off /\ plan = Off
     /\ fed = Off /\ demand = Off /\ step = Off /\ posted = Off /\ store = Off
     /\ wanted = Off /\ askedFrom = Off /\ found = Off /\ expected = Off
     /\ net = Off
  \/ /\ part = "cycle" /\ C!Init
     /\ outputs = Off /\ triggers = Off /\ twice = Off /\ flow = Off
     /\ sent = Off /\ asked = Off /\ op = Off /\ missing = Off /\ full = Off
     /\ lazy = Off /\ disk = Off /\ registry = Off /\ run = Off /\ going = Off
     /\ lastSplit = Off /\ isOpen = Off /\ appendMode = Off
     /\ registryOut = Off /\ todo = Off /\ nstep = Off /\ lastFileSplit = Off
     /\ written = Off /\ chained = Off /\ phase = Off /\ config = Off
     /\ initDate = Off /\ timeOrigin = Off /\ timeStep = Off
     /\ currentDate = Off /\ clients = Off /\ servers = Off /\ rows = Off
     /\ leads = Off /\ follows = Off /\ domain = Off /\ axis = Off
     /\ grid = Off /\ reading = Off /\ stage = Off /\ workflow = Off
     /\ connector = Off /\ index = Off /\ server = Off /\ back = Off
     /\ groups = Off /\ recvRank = Off /\ sendRank = Off /\ plan = Off
     /\ fed = Off /\ demand = Off /\ step = Off /\ posted = Off /\ store = Off
     /\ wanted = Off /\ askedFrom = Off /\ found = Off /\ expected = Off
     /\ net = Off
  \/ /\ part = "files" /\ F!Init
     /\ outputs = Off /\ triggers = Off /\ twice = Off /\ flow = Off
     /\ sent = Off /\ asked = Off /\ op = Off /\ missing = Off /\ full = Off
     /\ lazy = Off /\ requested = Off /\ requests = Off /\ gotOne = Off
     /\ lastDate = Off /\ isEOF = Off /\ dateEOF = Off /\ packets = Off
     /\ model = Off /\ replies = Off /\ served = Off /\ nStep = Off
     /\ phase = Off /\ config = Off /\ initDate = Off /\ timeOrigin = Off
     /\ timeStep = Off /\ currentDate = Off /\ clients = Off /\ servers = Off
     /\ rows = Off /\ leads = Off /\ follows = Off /\ domain = Off
     /\ axis = Off /\ grid = Off /\ reading = Off /\ stage = Off
     /\ workflow = Off /\ connector = Off /\ index = Off /\ server = Off
     /\ back = Off /\ groups = Off /\ recvRank = Off /\ sendRank = Off
     /\ plan = Off /\ fed = Off /\ demand = Off /\ step = Off /\ posted = Off
     /\ store = Off /\ wanted = Off /\ askedFrom = Off /\ found = Off
     /\ expected = Off /\ net = Off
  \/ /\ part = "short" /\ S!Init
     /\ outputs = Off /\ triggers = Off /\ twice = Off /\ flow = Off
     /\ date = Off /\ sent = Off /\ asked = Off /\ op = Off /\ missing = Off
     /\ full = Off /\ lazy = Off /\ requested = Off /\ requests = Off
     /\ gotOne = Off /\ lastDate = Off /\ isEOF = Off /\ dateEOF = Off
     /\ packets = Off /\ model = Off /\ replies = Off /\ served = Off
     /\ nStep = Off /\ disk = Off /\ registry = Off /\ run = Off
     /\ going = Off /\ isOpen = Off /\ appendMode = Off /\ registryOut = Off
     /\ todo = Off /\ nstep = Off /\ lastFileSplit = Off /\ written = Off
     /\ chained = Off /\ clients = Off /\ servers = Off /\ rows = Off
     /\ leads = Off /\ follows = Off /\ domain = Off /\ axis = Off
     /\ grid = Off /\ reading = Off /\ stage = Off /\ workflow = Off
     /\ connector = Off /\ index = Off /\ server = Off /\ back = Off
     /\ groups = Off /\ recvRank = Off /\ sendRank = Off /\ plan = Off
     /\ fed = Off /\ demand = Off /\ step = Off /\ posted = Off /\ store = Off
     /\ wanted = Off /\ askedFrom = Off /\ found = Off /\ expected = Off
     /\ net = Off
  \/ /\ part = "earth" /\ E!Init
     /\ outputs = Off /\ triggers = Off /\ twice = Off /\ flow = Off
     /\ date = Off /\ sent = Off /\ asked = Off /\ op = Off /\ missing = Off
     /\ full = Off /\ lazy = Off /\ requested = Off /\ requests = Off
     /\ gotOne = Off /\ lastDate = Off /\ isEOF = Off /\ dateEOF = Off
     /\ packets = Off /\ model = Off /\ replies = Off /\ served = Off
     /\ nStep = Off /\ disk = Off /\ registry = Off /\ run = Off
     /\ going = Off /\ isOpen = Off /\ appendMode = Off /\ registryOut = Off
     /\ todo = Off /\ nstep = Off /\ lastFileSplit = Off /\ written = Off
     /\ chained = Off /\ clients = Off /\ servers = Off /\ rows = Off
     /\ leads = Off /\ follows = Off /\ domain = Off /\ axis = Off
     /\ grid = Off /\ reading = Off /\ stage = Off /\ workflow = Off
     /\ connector = Off /\ index = Off /\ server = Off /\ back = Off
     /\ groups = Off /\ recvRank = Off /\ sendRank = Off /\ plan = Off
     /\ fed = Off /\ demand = Off /\ step = Off /\ posted = Off /\ store = Off
     /\ wanted = Off /\ askedFrom = Off /\ found = Off /\ expected = Off
     /\ net = Off
  \/ /\ part = "bands" /\ B!Init
     /\ outputs = Off /\ triggers = Off /\ twice = Off /\ flow = Off
     /\ date = Off /\ sent = Off /\ asked = Off /\ op = Off /\ missing = Off
     /\ full = Off /\ lazy = Off /\ requested = Off /\ requests = Off
     /\ gotOne = Off /\ lastDate = Off /\ isEOF = Off /\ dateEOF = Off
     /\ packets = Off /\ model = Off /\ replies = Off /\ served = Off
     /\ nStep = Off /\ disk = Off /\ registry = Off /\ run = Off
     /\ going = Off /\ lastSplit = Off /\ isOpen = Off /\ appendMode = Off
     /\ registryOut = Off /\ todo = Off /\ nstep = Off /\ lastFileSplit = Off
     /\ written = Off /\ chained = Off /\ phase = Off /\ config = Off
     /\ initDate = Off /\ timeOrigin = Off /\ timeStep = Off
     /\ currentDate = Off /\ grid = Off /\ reading = Off /\ stage = Off
     /\ workflow = Off /\ connector = Off /\ index = Off /\ server = Off
     /\ back = Off /\ groups = Off /\ recvRank = Off /\ sendRank = Off
     /\ plan = Off /\ fed = Off /\ demand = Off /\ step = Off /\ posted = Off
     /\ store = Off /\ wanted = Off /\ askedFrom = Off /\ found = Off
     /\ expected = Off /\ net = Off
  \/ /\ part = "connector" /\ G!Init
     /\ outputs = Off /\ triggers = Off /\ twice = Off /\ flow = Off
     /\ date = Off /\ sent = Off /\ asked = Off /\ op = Off /\ missing = Off
     /\ full = Off /\ lazy = Off /\ requested = Off /\ requests = Off
     /\ gotOne = Off /\ lastDate = Off /\ isEOF = Off /\ dateEOF = Off
     /\ packets = Off /\ model = Off /\ replies = Off /\ served = Off
     /\ nStep = Off /\ disk = Off /\ registry = Off /\ run = Off
     /\ going = Off /\ lastSplit = Off /\ isOpen = Off /\ appendMode = Off
     /\ registryOut = Off /\ todo = Off /\ nstep = Off /\ lastFileSplit = Off
     /\ written = Off /\ chained = Off /\ phase = Off /\ config = Off
     /\ initDate = Off /\ timeOrigin = Off /\ timeStep = Off
     /\ currentDate = Off /\ clients = Off /\ servers = Off /\ rows = Off
     /\ leads = Off /\ follows = Off /\ domain = Off /\ axis = Off
     /\ index = Off /\ server = Off /\ back = Off /\ groups = Off
     /\ recvRank = Off /\ sendRank = Off /\ plan = Off /\ fed = Off
     /\ demand = Off /\ step = Off /\ posted = Off /\ store = Off
     /\ wanted = Off /\ askedFrom = Off /\ found = Off /\ expected = Off
     /\ net = Off
  \/ /\ part = "grid" /\ P!Init
     /\ outputs = Off /\ triggers = Off /\ twice = Off /\ flow = Off
     /\ date = Off /\ sent = Off /\ asked = Off /\ op = Off /\ missing = Off
     /\ full = Off /\ lazy = Off /\ requested = Off /\ requests = Off
     /\ gotOne = Off /\ lastDate = Off /\ isEOF = Off /\ dateEOF = Off
     /\ packets = Off /\ model = Off /\ replies = Off /\ served = Off
     /\ nStep = Off /\ disk = Off /\ registry = Off /\ run = Off
     /\ going = Off /\ lastSplit = Off /\ isOpen = Off /\ appendMode = Off
     /\ registryOut = Off /\ todo = Off /\ nstep = Off /\ lastFileSplit = Off
     /\ written = Off /\ chained = Off /\ phase = Off /\ config = Off
     /\ initDate = Off /\ timeOrigin = Off /\ timeStep = Off
     /\ currentDate = Off /\ clients = Off /\ servers = Off /\ rows = Off
     /\ leads = Off /\ follows = Off /\ domain = Off /\ axis = Off
     /\ workflow = Off /\ connector = Off /\ groups = Off /\ recvRank = Off
     /\ sendRank = Off /\ plan = Off /\ fed = Off /\ demand = Off
     /\ step = Off /\ posted = Off /\ store = Off /\ wanted = Off
     /\ askedFrom = Off /\ found = Off /\ expected = Off /\ net = Off
  \/ /\ part = "levels" /\ L!Init
     /\ outputs = Off /\ triggers = Off /\ twice = Off /\ flow = Off
     /\ date = Off /\ sent = Off /\ asked = Off /\ op = Off /\ missing = Off
     /\ full = Off /\ lazy = Off /\ requested = Off /\ requests = Off
     /\ gotOne = Off /\ lastDate = Off /\ isEOF = Off /\ dateEOF = Off
     /\ packets = Off /\ model = Off /\ replies = Off /\ served = Off
     /\ nStep = Off /\ disk = Off /\ registry = Off /\ run = Off
     /\ going = Off /\ lastSplit = Off /\ isOpen = Off /\ appendMode = Off
     /\ registryOut = Off /\ todo = Off /\ nstep = Off /\ lastFileSplit = Off
     /\ written = Off /\ chained = Off /\ phase = Off /\ config = Off
     /\ initDate = Off /\ timeOrigin = Off /\ timeStep = Off
     /\ currentDate = Off /\ servers = Off /\ rows = Off /\ leads = Off
     /\ follows = Off /\ domain = Off /\ axis = Off /\ grid = Off
     /\ reading = Off /\ stage = Off /\ workflow = Off /\ connector = Off
     /\ index = Off /\ server = Off /\ back = Off /\ plan = Off /\ fed = Off
     /\ demand = Off /\ step = Off /\ posted = Off /\ store = Off
     /\ wanted = Off /\ askedFrom = Off /\ found = Off /\ expected = Off
     /\ net = Off
  \/ /\ part = "table" /\ D!Init
     /\ outputs = Off /\ triggers = Off /\ twice = Off /\ flow = Off
     /\ date = Off /\ sent = Off /\ asked = Off /\ op = Off /\ missing = Off
     /\ full = Off /\ lazy = Off /\ requested = Off /\ gotOne = Off
     /\ lastDate = Off /\ isEOF = Off /\ dateEOF = Off /\ packets = Off
     /\ model = Off /\ replies = Off /\ served = Off /\ nStep = Off
     /\ disk = Off /\ registry = Off /\ run = Off /\ going = Off
     /\ lastSplit = Off /\ isOpen = Off /\ appendMode = Off
     /\ registryOut = Off /\ todo = Off /\ nstep = Off /\ lastFileSplit = Off
     /\ written = Off /\ chained = Off /\ phase = Off /\ config = Off
     /\ initDate = Off /\ timeOrigin = Off /\ timeStep = Off
     /\ currentDate = Off /\ clients = Off /\ servers = Off /\ rows = Off
     /\ leads = Off /\ follows = Off /\ domain = Off /\ axis = Off
     /\ grid = Off /\ reading = Off /\ stage = Off /\ workflow = Off
     /\ connector = Off /\ index = Off /\ server = Off /\ back = Off
     /\ groups = Off /\ recvRank = Off /\ sendRank = Off

Next ==
  \/ /\ part = "workflow" /\ W!Next
     /\ UNCHANGED <<part, op, missing, full, lazy, requested, requests,
                    gotOne, lastDate, isEOF, dateEOF, packets, model, replies,
                    served, nStep, disk, registry, run, going, lastSplit,
                    isOpen, appendMode, registryOut, todo, nstep,
                    lastFileSplit, written, chained, phase, config, initDate,
                    timeOrigin, timeStep, currentDate, clients, servers, rows,
                    leads, follows, domain, axis, grid, reading, stage,
                    workflow, connector, index, server, back, groups,
                    recvRank, sendRank, plan, fed, demand, step, posted,
                    store, wanted, askedFrom, found, expected, net>>
  \/ /\ part = "averages" /\ A!Next
     /\ UNCHANGED <<part, outputs, triggers, twice, flow, sent, asked,
                    requested, requests, gotOne, lastDate, isEOF, dateEOF,
                    packets, model, replies, served, nStep, disk, registry,
                    run, going, lastSplit, isOpen, appendMode, registryOut,
                    todo, nstep, lastFileSplit, written, chained, phase,
                    config, initDate, timeOrigin, timeStep, currentDate,
                    clients, servers, rows, leads, follows, domain, axis,
                    grid, reading, stage, workflow, connector, index, server,
                    back, groups, recvRank, sendRank, plan, fed, demand, step,
                    posted, store, wanted, askedFrom, found, expected, net>>
  \/ /\ part = "reads" /\ R!Next
     /\ UNCHANGED <<part, outputs, triggers, twice, flow, sent, asked, op,
                    missing, full, lazy, disk, registry, run, going,
                    lastSplit, isOpen, appendMode, registryOut, todo, nstep,
                    lastFileSplit, written, chained, phase, config, initDate,
                    timeOrigin, timeStep, currentDate, clients, servers, rows,
                    leads, follows, domain, axis, grid, reading, stage,
                    workflow, connector, index, server, back, groups,
                    recvRank, sendRank, plan, fed, demand, step, posted,
                    store, wanted, askedFrom, found, expected, net>>
  \/ /\ part = "cycle" /\ C!Next
     /\ UNCHANGED <<part, outputs, triggers, twice, flow, sent, asked, op,
                    missing, full, lazy, disk, registry, run, going,
                    lastSplit, isOpen, appendMode, registryOut, todo, nstep,
                    lastFileSplit, written, chained, phase, config, initDate,
                    timeOrigin, timeStep, currentDate, clients, servers, rows,
                    leads, follows, domain, axis, grid, reading, stage,
                    workflow, connector, index, server, back, groups,
                    recvRank, sendRank, plan, fed, demand, step, posted,
                    store, wanted, askedFrom, found, expected, net>>
  \/ /\ part = "files" /\ F!Next
     /\ UNCHANGED <<part, outputs, triggers, twice, flow, sent, asked, op,
                    missing, full, lazy, requested, requests, gotOne,
                    lastDate, isEOF, dateEOF, packets, model, replies, served,
                    nStep, phase, config, initDate, timeOrigin, timeStep,
                    currentDate, clients, servers, rows, leads, follows,
                    domain, axis, grid, reading, stage, workflow, connector,
                    index, server, back, groups, recvRank, sendRank, plan,
                    fed, demand, step, posted, store, wanted, askedFrom,
                    found, expected, net>>
  \/ /\ part = "short" /\ S!Next
     /\ UNCHANGED <<part, outputs, triggers, twice, flow, date, sent, asked,
                    op, missing, full, lazy, requested, requests, gotOne,
                    lastDate, isEOF, dateEOF, packets, model, replies, served,
                    nStep, disk, registry, run, going, isOpen, appendMode,
                    registryOut, todo, nstep, lastFileSplit, written, chained,
                    clients, servers, rows, leads, follows, domain, axis,
                    grid, reading, stage, workflow, connector, index, server,
                    back, groups, recvRank, sendRank, plan, fed, demand, step,
                    posted, store, wanted, askedFrom, found, expected, net>>
  \/ /\ part = "earth" /\ E!Next
     /\ UNCHANGED <<part, outputs, triggers, twice, flow, date, sent, asked,
                    op, missing, full, lazy, requested, requests, gotOne,
                    lastDate, isEOF, dateEOF, packets, model, replies, served,
                    nStep, disk, registry, run, going, isOpen, appendMode,
                    registryOut, todo, nstep, lastFileSplit, written, chained,
                    clients, servers, rows, leads, follows, domain, axis,
                    grid, reading, stage, workflow, connector, index, server,
                    back, groups, recvRank, sendRank, plan, fed, demand, step,
                    posted, store, wanted, askedFrom, found, expected, net>>
  \/ /\ part = "bands" /\ B!Next
     /\ UNCHANGED <<part, outputs, triggers, twice, flow, date, sent, asked,
                    op, missing, full, lazy, requested, requests, gotOne,
                    lastDate, isEOF, dateEOF, packets, model, replies, served,
                    nStep, disk, registry, run, going, lastSplit, isOpen,
                    appendMode, registryOut, todo, nstep, lastFileSplit,
                    written, chained, phase, config, initDate, timeOrigin,
                    timeStep, currentDate, grid, reading, stage, workflow,
                    connector, index, server, back, groups, recvRank,
                    sendRank, plan, fed, demand, step, posted, store, wanted,
                    askedFrom, found, expected, net>>
  \/ /\ part = "connector" /\ G!Next
     /\ UNCHANGED <<part, outputs, triggers, twice, flow, date, sent, asked,
                    op, missing, full, lazy, requested, requests, gotOne,
                    lastDate, isEOF, dateEOF, packets, model, replies, served,
                    nStep, disk, registry, run, going, lastSplit, isOpen,
                    appendMode, registryOut, todo, nstep, lastFileSplit,
                    written, chained, phase, config, initDate, timeOrigin,
                    timeStep, currentDate, clients, servers, rows, leads,
                    follows, domain, axis, index, server, back, groups,
                    recvRank, sendRank, plan, fed, demand, step, posted,
                    store, wanted, askedFrom, found, expected, net>>
  \/ /\ part = "grid" /\ P!Next
     /\ UNCHANGED <<part, outputs, triggers, twice, flow, date, sent, asked,
                    op, missing, full, lazy, requested, requests, gotOne,
                    lastDate, isEOF, dateEOF, packets, model, replies, served,
                    nStep, disk, registry, run, going, lastSplit, isOpen,
                    appendMode, registryOut, todo, nstep, lastFileSplit,
                    written, chained, phase, config, initDate, timeOrigin,
                    timeStep, currentDate, clients, servers, rows, leads,
                    follows, domain, axis, workflow, connector, groups,
                    recvRank, sendRank, plan, fed, demand, step, posted,
                    store, wanted, askedFrom, found, expected, net>>
  \/ /\ part = "levels" /\ L!Next
     /\ UNCHANGED <<part, outputs, triggers, twice, flow, date, sent, asked,
                    op, missing, full, lazy, requested, requests, gotOne,
                    lastDate, isEOF, dateEOF, packets, model, replies, served,
                    nStep, disk, registry, run, going, lastSplit, isOpen,
                    appendMode, registryOut, todo, nstep, lastFileSplit,
                    written, chained, phase, config, initDate, timeOrigin,
                    timeStep, currentDate, servers, rows, leads, follows,
                    domain, axis, grid, reading, stage, workflow, connector,
                    index, server, back, plan, fed, demand, step, posted,
                    store, wanted, askedFrom, found, expected, net>>
  \/ /\ part = "table" /\ D!Next
     /\ UNCHANGED <<part, outputs, triggers, twice, flow, date, sent, asked,
                    op, missing, full, lazy, requested, gotOne, lastDate,
                    isEOF, dateEOF, packets, model, replies, served, nStep,
                    disk, registry, run, going, lastSplit, isOpen, appendMode,
                    registryOut, todo, nstep, lastFileSplit, written, chained,
                    phase, config, initDate, timeOrigin, timeStep,
                    currentDate, clients, servers, rows, leads, follows,
                    domain, axis, grid, reading, stage, workflow, connector,
                    index, server, back, groups, recvRank, sendRank>>

(* The fairness of the parts' own Spec.                                       *)
Fairness ==
  /\ WF_(R!vars)(part = "reads" /\ R!StreamData)
  /\ \A r \in R2 :
       /\ WF_(R!vars)(part = "reads" /\ R!Receive(r))
       /\ WF_(R!vars)(part = "reads" /\ R!PacketFound(r))
       /\ SF_(R!vars)(part = "reads" /\ R!UpdateCalendar(r))
  /\ \A p \in 0..2 : WF_(D!vars)(part = "table" /\ D!Process(p))

Spec == Init /\ [][Next]_vars /\ Fairness

-----------------------------------------------------------------------------
(* Whatever the order in which filters are connected and packets come, a      *)
(* field is computed once from one packet of each source it depends on, all   *)
(* of one date, is given when it is asked for, and nothing older than the     *)
(* calendar stays in the graph (CInputPin, COutputPin, CGarbageCollector).    *)
WorkflowExact ==
  part = "workflow" =>
    /\ W!TypeOK /\ W!TriggersSet /\ W!OneOfEach /\ W!ComputedOnce
    /\ W!NothingOld /\ W!AskedIsGiven

(* The n-th result of a temporal filter is computed at the end of the n-th    *)
(* period from the samples of the period, of which some are missing, and a    *)
(* model that sends only what the filter expects gets the same.               *)
AveragesRight ==
  part = "averages" => A!TypeOK /\ A!ResultsRight /\ A!NoneSkipped /\ A!LazyIsFull

(* Ranks that read ahead ask for the same records at the same dates, take     *)
(* each of them for the date it is of, and keep no more than two.             *)
ReadsInStep ==
  /\ part = "reads" => R!TypeOK /\ R!SameRequests /\ R!RightRecord /\ R!TwoAhead
  /\ part = "cycle" => C!RightRecord

(* Across splits, restarts and crashes of the run, a file holds the times of  *)
(* its period in order, each with its data, and no date is in two files.      *)
FilesRight ==
  part = "files" =>
    /\ F!TypeOK /\ F!TimesIncrease /\ F!FieldsAligned /\ F!InItsPeriod
    /\ F!OneFilePerDate

(* What the calendar adds up field by field agrees with the count of the      *)
(* seconds, goes forward and back, and dates the splits of files as the steps *)
(* of the model, through short months, leap years and both.                   *)
CalendarExact ==
  /\ part = "short" => /\ S!TypeOK /\ S!ExactSeconds /\ S!TimeForward
                       /\ S!OrderIsTime /\ S!BackAgain /\ S!SplitsInStep
  /\ part = "earth" => E!ExactSeconds /\ E!TimeForward /\ E!BackAgain

(* What each client computes alone of the grid fits what the others compute:  *)
(* the parts that servers are sent are parted and complete, each server has   *)
(* one leader, all of them hear of the grid, and masks, coordinates and       *)
(* values arrive, and return, at the points they are of.                      *)
GridsServed ==
  /\ part = "bands" =>
       B!TypeOK /\ B!OneLeader /\ B!EvenlyShared /\ B!DomainParted /\ B!AxisParted
  /\ part = "connector" =>
       /\ G!TypeOK /\ G!GridComplete /\ G!WorkflowComplete /\ G!ReadComplete
       /\ G!OwnedOnly /\ G!EveryServerTold
  /\ part = "grid" =>
       /\ P!TypeOK /\ P!ServerMaskExact /\ P!ValuesArrive /\ P!AttributesArrive
       /\ P!ValuesReturn

(* Processes that go through the levels of the distributed table agree, each  *)
(* from its own rank, on who writes to whom and on how much, and find all     *)
(* that was fed of what they look for.                                        *)
LookupsRight ==
  /\ part = "levels" => L!TypeOK /\ L!SameLevels /\ L!PairsMeet /\ L!RoutesLead
  /\ part = "table" => D!TypeOK /\ D!AnnouncedSize /\ D!Answered

(* A rank that asks for its field gets it or is told that the file has ended; *)
(* every rank gets to its last date; no process of the table waits for ever.  *)
EveryoneAnswered ==
  /\ \A r \in R2 : (part = "reads" /\ model[r] = "asks")
                    ~> (part = "reads" => model[r] = "runs" \/ ~R!Running)
  /\ <>(/\ part = "reads" => ~R!Running \/ \A r \in R2 : date[r] = 9
        /\ part = "table" => \A p \in 0..2 : D!Done(p))
=============================================================================
