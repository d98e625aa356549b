----------------------------- MODULE Deployment -----------------------------
(* How the server ranks are divided into pools and services when they start, *)
(* and end: CServer::initialize on the server leader, CServersRessource,     *)
(* CPoolRessource and CService on every rank, and the managers that carry    *)
(* requests to them.  A rank runs several threads in turn: its main thread,  *)
(* one for the servers resource, one for its pool, one for each service.  A  *)
(* collective MPI call stops the whole rank.  Ranks agree on when to make    *)
(* one through event schedulers, which are split each time the ranks are:    *)
(* a rank holds a chain of them, from the one of its smallest group up, and  *)
(* an event is announced at the first and decided at the one of its level.   *)
(* One scheduler is taken as what EventScheduler shows of it (EventOrder).   *)
EXTENDS Integers, Sequences, SequencesExt, FiniteSets, FiniteSetsExt, Functions

CONSTANTS
  N,              \* the server ranks
  Script,         \* the pools and services the leader asks for, in order
  Contexts,       \* the contexts clients ask for: [pool, id, name]
  EarlyFinalize   \* a client that uses no context may end before the services are there

RanksAssumption == N \in Nat \ {0} /\ EarlyFinalize \in BOOLEAN
ScriptAssumption == \A i \in 1..Len(Script) : Script[i].op \in {"pool", "service", "onto"}

Ranks == 0 .. N - 1
None == "none"

VARIABLES
  asked,        \* the requests of Script sent by the leader
  registered,   \* the pools, services and contexts the managers know of
  started,      \* the leader has entered the barrier "all services are created"
  calls,        \* calls: the contexts asked for, and whether the clients finalized
  resWin,       \* winNotify_ of the resources manager, on the server leader
  svcWin,       \* svcWin[r]: winNotify_ of the services manager
  ctxWin,       \* ctxWin[r]: winNotify_ of the contexts manager
  freeRanks,    \* freeRessourcesRank_ of the server leader
  srv,          \* srv[r]: the servers resource of r, and its thread
  pool,         \* pool[r]: the pool resource of r, and its thread
  svc,          \* svc[r]: the services of r by name and partition, and their threads
  chain,        \* chain[r]: the schedulers of r that are linked, from the base up
  stack,        \* stack[r]: eventStack_ of the base
  sent,         \* <<scheduler, rank, event>> announced and not all there yet
  down,         \* down[r]: <<scheduler, event>> on their way from the roots
  lost          \* what was left in schedulers that were replaced

managers == <<asked, started, calls, resWin, svcWin, ctxWin, freeRanks>>
schedulers == <<chain, stack, sent, down, lost>>
vars == <<managers, registered, srv, pool, svc, schedulers>>

-----------------------------------------------------------------------------
(* A scheduler: its level, its ranks and the request it was made for.        *)
Sched(lev, members, q) == [level |-> lev, members |-> members, for |-> q]
Root(s) == Min(s.members)
First == Sched(0, Ranks, "servers")

(* getBaseScheduler: the end of the links down from s.                       *)
Base(r, s) == IF s \in ToSet(chain[r]) THEN chain[r][1] ELSE s

NoNote == [q |-> [op |-> None], id |-> None, in |-> FALSE]
InitialPool == [id |-> None, ranks |-> {}, taken |-> 0, win |-> <<>>, note |-> NoNote,
                pc |-> "off", final |-> FALSE, sched |-> First, free |-> First, split |-> FALSE]

Init ==
  /\ asked = 0 /\ registered = {} /\ started = FALSE
  /\ calls = [contexts |-> {}, finalized |-> FALSE]
  /\ resWin = <<>> /\ svcWin = [r \in Ranks |-> <<>>] /\ ctxWin = [r \in Ranks |-> <<>>]
  /\ freeRanks = [i \in 1..N |-> i - 1]
  /\ srv = [r \in Ranks |-> [ranks |-> Ranks, win |-> <<>>, note |-> NoNote, pc |-> "idle",
                             final |-> FALSE, sched |-> First, free |-> First, split |-> FALSE]]
  /\ pool = [r \in Ranks |-> InitialPool]
  /\ svc = [r \in Ranks |-> <<>>]
  /\ chain = [r \in Ranks |-> <<First>>]
  /\ stack = [r \in Ranks |-> <<>>]
  /\ sent = {} /\ down = [r \in Ranks |-> <<>>] /\ lost = {}

-----------------------------------------------------------------------------
(* The chain of schedulers.                                                  *)

(* A rank in a collective call runs none of its threads.                     *)
InCollective(x) == x.pc = "collective"
Blocked(r) == InCollective(srv[r]) \/ InCollective(pool[r]) \/ \E k \in DOMAIN svc[r] : InCollective(svc[r][k])

(* Every thread that waits for an event, and every service, polls the chain. *)
Polls(r) == /\ ~Blocked(r)
            /\ srv[r].pc = "sync" \/ pool[r].pc = "sync" \/ svc[r] # <<>>

(* registerEvent: at the base, for the level of the scheduler it is asked of. *)
Event(s, key) == [level |-> s.level, key |-> key]
Registers(r, s, key) == /\ sent' = sent \cup {<<Base(r, s), r, Event(s, key)>>}
                        /\ UNCHANGED <<chain, stack, down, lost>>

(* queryEvent and popEvent (slips: any event that came is taken for it; it   *)
(* is not popped).                                                           *)
AnyCame(r, s, key) == Base(r, s) = chain[r][1] /\ stack[r] # <<>>
AtFront(r, s, key) == /\ Base(r, s) = chain[r][1]
                      /\ stack[r] # <<>> /\ Head(stack[r]) = key
StackKept(r) == UNCHANGED <<chain, stack, sent, down, lost>>
Pops(r) == /\ stack' = [stack EXCEPT ![r] = Tail(@)]
           /\ UNCHANGED <<chain, sent, down, lost>>


ToMembers(s, e) == [r \in Ranks |-> IF r \in s.members THEN Append(down[r], <<s, e>>) ELSE down[r]]

(* checkChildRequest at the root: the event that all members announced is    *)
(* broadcast, or announced to the scheduler above when it is of another level   *)
(* (a slip: the level is not looked at).                                     *)
AtOnce(s, e) == TRUE
DecidedHere(s, e) == e.level = s.level
Above(r, s) == chain[r][CHOOSE i \in 2..Len(chain[r]) : chain[r][i - 1] = s]

CheckChildRequest(s, e) ==
  LET all == {s} \X s.members \X {e} IN
  /\ all \subseteq sent /\ Polls(Root(s)) /\ s \in ToSet(chain[Root(s)])
  /\ IF DecidedHere(s, e)
     THEN /\ down' = ToMembers(s, e)
          /\ sent' = sent \ all
     ELSE /\ sent' = (sent \ all) \cup {<<Above(Root(s), s), Root(s), e>>}
          /\ UNCHANGED down
  /\ UNCHANGED <<managers, registered, srv, pool, svc, chain, stack, lost>>

(* checkParentRequest: the oldest event of one scheduler goes to the one     *)
(* below it on this rank, or to the stack.                                   *)
CheckParentRequest(r, i) ==
  LET s == down[r][i][1]
      e == down[r][i][2]
      at == CHOOSE n \in 1..Len(chain[r]) : chain[r][n] = s
      below == chain[r][at - 1]
      rest == [down EXCEPT ![r] = RemoveAt(@, i)]
  IN
  /\ Polls(r) /\ s \in ToSet(chain[r])
  /\ \A j \in 1 .. i - 1 : down[r][j][1] # s
  /\ IF at = 1
     THEN /\ stack' = [stack EXCEPT ![r] = Append(@, e.key)]
          /\ down' = rest
     ELSE /\ down' = [x \in Ranks |-> IF x \in below.members THEN Append(rest[x], <<below, e>>) ELSE rest[x]]
          /\ UNCHANGED stack
  /\ UNCHANGED <<managers, registered, srv, pool, svc, chain, sent, lost>>

(* splitScheduler, made by all ranks of a group: group[r] is the part of r.  *)
(* The scheduler of the whole is replaced by one over the roots of the parts *)
(* (the ranks that are not get one of their own, which nothing uses; a slip:  *)
(* they get that of the roots).                                              *)
Child(old, group, r, q) == Sched(old.level + 1, group[r], q)
ParentOfRoots(old, group, r, q) == Sched(old.level, {x \in DOMAIN group : x = Min(group[x])}, q)
Parent(old, group, r, q) ==
  LET isRoot(x) == x = Min(group[x])
  IN  Sched(old.level, {x \in DOMAIN group : isRoot(x) = isRoot(r)}, q)

Split(old, group, q) ==
  /\ chain' = [r \in Ranks |->
       IF r \in DOMAIN group
       THEN <<Child(old, group, r, q), Parent(old, group, r, q)>> \o Tail(chain[r]) ELSE chain[r]]
  /\ stack' = [r \in Ranks |-> IF r \in DOMAIN group THEN <<>> ELSE stack[r]]
  /\ lost' = lost \cup {m \in sent : m[1] = old}
               \cup UNION {ToSet(stack[r]) \cup {m \in ToSet(down[r]) : m[1] = old} : r \in DOMAIN group}
  /\ UNCHANGED <<sent, down>>

(* A resource r after the split: its first one also changes the scheduler it *)
(* synchronizes on (a slip: it does not).                                    *)
KeepsItsOwn(x, old, group, r, q) == [x EXCEPT !.pc = "idle", !.split = TRUE]
AfterSplit(x, old, group, r, q) ==
  [x EXCEPT !.pc = "idle", !.split = TRUE,
            !.sched = IF x.split THEN @ ELSE Parent(old, group, r, q)]

-----------------------------------------------------------------------------
(* The server leader and the clients.                                        *)
Leader == 0
Known(name) == \E x \in registered : x.name = name
LeaderOf(name) == (CHOOSE x \in registered : x.name = name).leader
ServiceOf(q, part) == <<q.pool, q.id, part>>
Named(q) == IF q.op = "pool" THEN {<<q.id>>} ELSE {ServiceOf(q, i) : i \in 0 .. q.parts - 1}

(* CServer::initialize: each request is sent when what the one before it     *)
(* asked for is registered.                                                  *)
Ready == \A i \in 1..asked : \A name \in Named(Script[i]) : Known(name)

Ask == /\ asked < Len(Script) /\ Ready /\ ~Blocked(Leader)
       /\ LET q == Script[asked + 1] IN
            IF q.op = "pool"
            THEN /\ resWin' = Append(resWin, q)
                 /\ UNCHANGED svcWin
            ELSE /\ svcWin' = [svcWin EXCEPT ![LeaderOf(<<q.pool>>)] = Append(@, q)]
                 /\ UNCHANGED resWin
       /\ asked' = asked + 1
       /\ UNCHANGED <<started, calls, ctxWin, freeRanks, registered, srv, pool, svc, schedulers>>

(* The barrier every other rank has entered: the services are all created.   *)
Start == /\ asked = Len(Script) /\ Ready /\ ~started /\ ~Blocked(Leader)
         /\ started' = TRUE
         /\ UNCHANGED <<asked, calls, resWin, svcWin, ctxWin, freeRanks, registered, srv, pool, svc, schedulers>>

(* A client asks the leader of a service partition for its context.          *)
AskContext(c, part) ==
  LET name == <<c.pool, c.id, part>> IN
  /\ Known(name) /\ Known(<<c.pool, c.id, 0>>)
  /\ <<c, part>> \notin calls.contexts /\ ~calls.finalized
  /\ calls' = [calls EXCEPT !.contexts = @ \cup {<<c, part>>}]
  /\ ctxWin' = [ctxWin EXCEPT ![LeaderOf(name)] = Append(@, [name |-> name, context |-> c.name])]
  /\ UNCHANGED <<asked, started, resWin, svcWin, freeRanks, registered, srv, pool, svc, schedulers>>

Parts(c) == UNION {0 .. Script[i].parts - 1 : i \in {j \in 1..Len(Script) :
                     Script[j].op # "pool" /\ Script[j].pool = c.pool /\ Script[j].id = c.id}}
NotWaited == TRUE
Served == \A c \in Contexts : \A part \in Parts(c) : Known(<<c.pool, c.id, part, c.name>>)

(* CClient::finalize, of the one that speaks for all.                        *)
ClientsFinalize == /\ ~calls.finalized
                   /\ EarlyFinalize \/ (asked = Len(Script) /\ Ready /\ Served)
                   /\ calls' = [calls EXCEPT !.finalized = TRUE]
                   /\ resWin' = Append(resWin, [op |-> "finalize"])
                   /\ UNCHANGED <<asked, started, svcWin, ctxWin, freeRanks, registered, srv, pool, svc, schedulers>>

-----------------------------------------------------------------------------
(* The managers, polled by the main thread of each rank.                     *)
MainPolls(r) == ~Blocked(r) /\ ~(started /\ srv[r].pc = "ended")
SendNotification(wins, ranks, notes) == [r \in Ranks |-> IF r \in ranks THEN Append(wins[r], notes[r]) ELSE wins[r]]
SrvWins == [r \in Ranks |-> srv[r].win]

(* CRessourcesManager::checkNotifications on the server leader, with         *)
(* CServersRessource::createPool or finalize.                                *)
ResourcesCheck ==
  /\ MainPolls(Leader) /\ resWin # <<>>
  /\ resWin' = Tail(resWin)
  /\ LET q == Head(resWin)
         places == 1..Len(freeRanks)
         place(r) == CHOOSE i \in places : freeRanks[i] = r
         notes == [r \in Ranks |-> IF q.op = "pool"
                                  THEN [op |-> "pool", id |-> q.id, in |-> r \in ToSet(freeRanks) /\ place(r) <= q.size]
                                  ELSE q]
         to == IF q.op = "pool" THEN ToSet(freeRanks) ELSE Ranks
         wins == SendNotification(SrvWins, to, notes)
     IN  /\ srv' = [r \in Ranks |-> [srv[r] EXCEPT !.win = wins[r]]]
         /\ freeRanks' = IF q.op = "pool" THEN SubSeq(freeRanks, q.size + 1, Len(freeRanks)) ELSE freeRanks
  /\ UNCHANGED <<asked, started, calls, svcWin, ctxWin, registered, pool, svc, schedulers>>

(* The ranks of a pool a service is made on: those after the ranks already   *)
(* taken (a slip: the last of them too).                                     *)
Place(r, x) == Cardinality({y \in pool[r].ranks : y <= x})
FromTheLast(r, x, q) == Place(r, x) >= pool[r].taken /\ Place(r, x) <= pool[r].taken + q.size
Takes(r, x, q) == Place(r, x) > pool[r].taken /\ Place(r, x) <= pool[r].taken + q.size

(* CServicesManager::checkNotifications on the leader of a pool, with        *)
(* CPoolRessource::createService or createServiceOnto: a service takes ranks *)
(* that have none.                                                           *)
ServicesCheck(r) ==
  /\ MainPolls(r) /\ svcWin[r] # <<>> /\ pool[r].id # None
  /\ svcWin' = [svcWin EXCEPT ![r] = Tail(@)]
  /\ LET q == Head(svcWin[r])
     IN  pool' = [x \in Ranks |->
           LET told == IF x \in pool[r].ranks
                       THEN [pool[x] EXCEPT !.win = Append(@, [q |-> q, in |-> q.op = "service" /\ Takes(r, x, q)])] ELSE pool[x]
           IN  IF x = r /\ q.op = "service" THEN [told EXCEPT !.taken = @ + q.size] ELSE told]
  /\ UNCHANGED <<asked, started, calls, resWin, ctxWin, freeRanks, registered, srv, svc, schedulers>>

(* CContextsManager::checkNotifications on the leader of a service, with     *)
(* CService::createContext.                                                  *)
ContextsCheck(r) ==
  /\ MainPolls(r) /\ ctxWin[r] # <<>> /\ Head(ctxWin[r]).name \in DOMAIN svc[r]
  /\ ctxWin' = [ctxWin EXCEPT ![r] = Tail(@)]
  /\ LET k == Head(ctxWin[r]).name
     IN  svc' = [x \in Ranks |-> IF x \in svc[r][k].ranks
                                 THEN [svc[x] EXCEPT ![k].win = Append(@, Head(ctxWin[r]).context)] ELSE svc[x]]
  /\ UNCHANGED <<asked, started, calls, resWin, svcWin, freeRanks, registered, srv, pool, schedulers>>

-----------------------------------------------------------------------------
(* The servers resource.                                                     *)

(* checkNotifications: a pool is created once all the free ranks know of it. *)
SrvKey(r) == <<"servers", Cardinality(srv[r].ranks)>>

SrvCheck(r) ==
  /\ ~Blocked(r) /\ srv[r].pc = "idle" /\ srv[r].win # <<>>
  /\ LET q == Head(srv[r].win) IN
       IF q.op = "pool"
       THEN /\ srv' = [srv EXCEPT ![r].win = Tail(@), ![r].note = q, ![r].pc = "sync"]
            /\ Registers(r, srv[r].free, SrvKey(r))
            /\ UNCHANGED <<pool, svc>>
       ELSE /\ srv' = [srv EXCEPT ![r].win = Tail(@), ![r].final = TRUE]
            /\ pool' = [pool EXCEPT ![r].final = pool[r].id # None]
            /\ svc' = [svc EXCEPT ![r] = [k \in DOMAIN @ |->
                 [@[k] EXCEPT !.final = TRUE, !.signalled = svc[r][k].contexts]]]
            /\ UNCHANGED schedulers
  /\ UNCHANGED <<managers, registered>>

SrvQuery(r) ==
  /\ ~Blocked(r) /\ srv[r].pc = "sync" /\ AtFront(r, srv[r].sched, SrvKey(r))
  /\ Pops(r)
  /\ srv' = [srv EXCEPT ![r].pc = "collective"]
  /\ UNCHANGED <<managers, registered, pool, svc>>

(* createPool, made by all the free ranks.                                   *)
NewPool(id, ranks, sched) ==
  [InitialPool EXCEPT !.id = id, !.ranks = ranks, !.pc = "idle", !.sched = sched, !.free = sched]

CreatePool(ranks) ==
  /\ \A r \in ranks : srv[r].ranks = ranks /\ srv[r].pc = "collective"
  /\ LET id == srv[Min(ranks)].note.id
         old == srv[Min(ranks)].free
         members == {r \in ranks : srv[r].note.in}
         group == [r \in ranks |-> IF r \in members THEN members ELSE ranks \ members]
     IN
     /\ Split(old, group, id)
     /\ srv' = [r \in Ranks |->
          IF r \notin ranks THEN srv[r]
          ELSE LET after == AfterSplit(srv[r], old, group, r, id)
               IN  IF r \in members THEN after
                   ELSE [after EXCEPT !.free = Child(old, group, r, id), !.ranks = group[r]]]
     /\ pool' = [r \in Ranks |-> IF r \in members
                    THEN NewPool(id, members, Child(old, group, r, id)) ELSE pool[r]]
     /\ registered' = registered \cup {[name |-> <<id>>, leader |-> Min(members)]}
  /\ UNCHANGED <<managers, svc>>

(* threadEventLoop ends once the pool is gone and the end was announced.     *)
SrvEnd(r) == /\ ~Blocked(r) /\ srv[r].pc = "idle" /\ srv[r].final /\ pool[r].id = None
             /\ srv' = [srv EXCEPT ![r].pc = "ended"]
             /\ UNCHANGED <<managers, registered, pool, svc, schedulers>>

-----------------------------------------------------------------------------
(* The pools.                                                                *)
PoolKey(r) == <<"pool", pool[r].id>>

PoolCheck(r) ==
  /\ ~Blocked(r) /\ pool[r].pc = "idle" /\ pool[r].win # <<>>
  /\ pool' = [pool EXCEPT ![r].win = Tail(@), ![r].note = Head(pool[r].win), ![r].pc = "sync"]
  /\ Registers(r, pool[r].sched, PoolKey(r))
  /\ UNCHANGED <<managers, registered, srv, svc>>

PoolQuery(r) ==
  /\ ~Blocked(r) /\ pool[r].pc = "sync" /\ AtFront(r, pool[r].sched, PoolKey(r))
  /\ Pops(r)
  /\ pool' = [pool EXCEPT ![r].pc = "collective"]
  /\ UNCHANGED <<managers, registered, srv, svc>>

NewService(ranks, sched) == [ranks |-> ranks, sched |-> sched, win |-> <<>>, note |-> None, pc |-> "idle",
                             final |-> FALSE, contexts |-> {}, signalled |-> {}]
With(f, k, x) == [j \in DOMAIN f \cup {k} |-> IF j = k THEN x ELSE f[j]]

(* createNewService, made by all the ranks of the pool: those that have no   *)
(* service yet are split into the partitions of the new one and the rest  *)
(* (a slip: all partitions are of the larger size).                          *)
AllLarge(i, size, n) == i \div (size \div n + 1)
Partition(i, size, n) ==
  LET large == (size \div n + 1) * (size % n)
  IN  IF i >= large THEN (size % n) + (i - large) \div (size \div n) ELSE i \div (size \div n + 1)

HasNoService(r) == svc[r] = <<>>

CreateService(ranks) ==
  /\ \A r \in ranks : pool[r].ranks = ranks /\ pool[r].pc = "collective" /\ pool[r].note.q.op = "service"
  /\ LET q == pool[Min(ranks)].note.q
         free == {r \in ranks : HasNoService(r)}
         members == {r \in free : pool[r].note.in}
         place(r) == Cardinality({x \in members : x < r})
         part == [r \in members |-> Partition(place(r), Cardinality(members), q.parts)]
         group == [r \in free |-> IF r \in members THEN {x \in members : part[x] = part[r]} ELSE free \ members]
         old == pool[Min(free)].free
     IN
     /\ free # {} /\ Split(old, group, q.id)
     /\ pool' = [r \in Ranks |->
          IF r \notin ranks THEN pool[r]
          ELSE IF r \notin free THEN [pool[r] EXCEPT !.pc = "idle"]
          ELSE IF r \in members THEN AfterSplit(pool[r], old, group, r, q.id)
          ELSE [AfterSplit(pool[r], old, group, r, q.id) EXCEPT !.free = Child(old, group, r, q.id)]]
     /\ svc' = [r \in Ranks |-> IF r \in members
          THEN With(svc[r], ServiceOf(q, part[r]), NewService(group[r], Child(old, group, r, q.id))) ELSE svc[r]]
     /\ registered' = registered \cup
          {[name |-> ServiceOf(q, part[r]), leader |-> Min(group[r])] : r \in members}
  /\ UNCHANGED <<managers, srv>>

(* createNewServiceOnto, made by the ranks of one partition; a rank that has *)
(* no service of that name has nothing to do.                                *)
Onto(r) == {k \in DOMAIN svc[r] : pool[r].note.q.op = "onto" /\ k[2] = pool[r].note.q.on}

CreateServiceOnto(k, ranks) ==
  /\ \A r \in ranks : /\ pool[r].pc = "collective" /\ k \in Onto(r)
                        /\ svc[r][k].ranks = ranks
  /\ LET q == pool[Min(ranks)].note.q
         name == ServiceOf(q, k[3])
     IN
     /\ svc' = [r \in Ranks |-> IF r \in ranks
          THEN With(svc[r], name, NewService(ranks, svc[r][k].sched)) ELSE svc[r]]
     /\ registered' = registered \cup {[name |-> name, leader |-> Min(ranks)]}
  /\ pool' = [r \in Ranks |-> IF r \in ranks THEN [pool[r] EXCEPT !.pc = "idle"] ELSE pool[r]]
  /\ UNCHANGED <<managers, srv, schedulers>>

NothingOnto(r) ==
  /\ pool[r].pc = "collective" /\ pool[r].note.q.op = "onto" /\ Onto(r) = {}
  /\ pool' = [pool EXCEPT ![r].pc = "idle"]
  /\ UNCHANGED <<managers, registered, srv, svc, schedulers>>

(* threadEventLoop of the pool ends, and its owner deletes it.               *)
PoolEnd(r) == /\ ~Blocked(r) /\ pool[r].pc = "idle" /\ pool[r].final /\ svc[r] = <<>>
              /\ pool' = [pool EXCEPT ![r] = InitialPool]
              /\ UNCHANGED <<managers, registered, srv, svc, schedulers>>

-----------------------------------------------------------------------------
(* The services: a context is created once all the ranks know of it.         *)
SvcCheck(r, k) ==
  /\ ~Blocked(r) /\ svc[r][k].pc = "idle" /\ svc[r][k].win # <<>>
  /\ svc' = [svc EXCEPT ![r][k].win = Tail(@), ![r][k].note = Head(svc[r][k].win), ![r][k].pc = "sync"]
  /\ Registers(r, svc[r][k].sched, k)
  /\ UNCHANGED <<managers, registered, srv, pool>>

SvcQuery(r, k) ==
  /\ ~Blocked(r) /\ svc[r][k].pc = "sync" /\ AtFront(r, svc[r][k].sched, k)
  /\ Pops(r)
  /\ svc' = [svc EXCEPT ![r][k].pc = "collective"]
  /\ UNCHANGED <<managers, registered, srv, pool>>

(* createContext, with the communicators CServerContext makes.               *)
CreateContext(k, ranks) ==
  /\ \A r \in ranks : k \in DOMAIN svc[r] /\ svc[r][k].ranks = ranks /\ svc[r][k].pc = "collective"
  /\ LET name == svc[Min(ranks)][k].note IN
     /\ svc' = [r \in Ranks |-> IF r \in ranks
          THEN [svc[r] EXCEPT ![k].pc = "idle", ![k].contexts = @ \cup {name}] ELSE svc[r]]
     /\ registered' = registered \cup {[name |-> Append(k, name), leader |-> Min(ranks)]}
  /\ UNCHANGED <<managers, srv, pool, schedulers>>

(* threadEventLoop of a service ends, and the pool deletes it: its contexts, *)
(* whose clients are done, ended if they were told to (a slip: it waits for  *)
(* them to be none).                                                         *)
EndsIfEmpty(x) == x.final /\ x.contexts = {}
Ends(x) == x.final /\ x.contexts \subseteq x.signalled

SvcEnd(r, k) == /\ ~Blocked(r) /\ svc[r][k].pc \in {"idle", "sync"} /\ Ends(svc[r][k])
                /\ svc' = [svc EXCEPT ![r] = [j \in DOMAIN @ \ {k} |-> @[j]]]
                /\ UNCHANGED <<managers, registered, srv, pool, schedulers>>

-----------------------------------------------------------------------------
MainSteps == \/ Ask \/ Start \/ ResourcesCheck
             \/ \E r \in Ranks : ServicesCheck(r) \/ ContextsCheck(r)
SchedulerSteps == \/ \E x \in sent : CheckChildRequest(x[1], x[3])
                  \/ \E r \in Ranks : \E i \in 1..Len(down[r]) : CheckParentRequest(r, i)
ThreadSteps == \E r \in Ranks :
                 \/ SrvCheck(r) \/ SrvQuery(r) \/ SrvEnd(r)
                 \/ PoolCheck(r) \/ PoolQuery(r) \/ NothingOnto(r) \/ PoolEnd(r)
                 \/ \E k \in DOMAIN svc[r] : SvcCheck(r, k) \/ SvcQuery(r, k) \/ SvcEnd(r, k)
Collectives == \E r \in Ranks :
                 \/ CreatePool(srv[r].ranks)
                 \/ pool[r].id # None /\ CreateService(pool[r].ranks)
                 \/ \E k \in DOMAIN svc[r] : \/ CreateServiceOnto(k, svc[r][k].ranks)
                                             \/ CreateContext(k, svc[r][k].ranks)
Server == MainSteps \/ SchedulerSteps \/ ThreadSteps \/ Collectives

AskOne == \E c \in Contexts : \E part \in Parts(c) : AskContext(c, part)

Next == \/ Server
        \/ AskOne
        \/ ClientsFinalize

(* The threads of a rank run in turn and each loop comes round again: what   *)
(* stays possible for the servers is done.  Nothing they do can be repeated  *)
(* for ever, so that one condition on all of them is enough.  Clients ask    *)
(* for their contexts and end.                                               *)
Fairness == /\ WF_vars(Server)
            /\ WF_vars(AskOne)
            /\ WF_vars(ClientsFinalize)

Spec == Init /\ [][Next]_vars /\ Fairness

-----------------------------------------------------------------------------
(* What the state holds.                                                     *)
Pcs == {"off", "idle", "sync", "collective", "ended"}
TypeOK ==
  /\ asked \in 0..Len(Script) /\ started \in BOOLEAN
  /\ \A r \in Ranks :
       /\ srv[r].pc \in Pcs /\ r \in srv[r].ranks
       /\ pool[r].pc \in Pcs /\ pool[r].id # None => r \in pool[r].ranks
       /\ \A k \in DOMAIN svc[r] : svc[r][k].pc \in Pcs /\ r \in svc[r][k].ranks
       /\ \A i \in 1..Len(chain[r]) : r \in chain[r][i].members
       /\ \A i \in 1..Len(freeRanks) : freeRanks[i] \in Ranks

(* A request always finds what it is for: the pool is there when the manager *)
(* is asked for a service, and the service when it is asked for a context,   *)
(* although both are registered before they are stored                       *)
(* (services_manager.cpp:159, contexts_manager.cpp:188).                     *)
TargetsThere == \A r \in Ranks : ~Blocked(r) =>
  /\ svcWin[r] # <<>> => pool[r].id # None
  /\ ctxWin[r] # <<>> => Head(ctxWin[r]).name \in DOMAIN svc[r]

(* Ranks that are in collective calls of one group are in the same one: no   *)
(* rank creates a context while another splits its pool                      *)
(* (pool_ressource.cpp:337, services.cpp:253).                               *)
Doing(r) == IF InCollective(srv[r]) THEN {<<"pool", srv[r].note.id>>}
            ELSE IF InCollective(pool[r]) THEN {<<"service", pool[r].note.q.id>>}
            ELSE {<<"context", k, svc[r][k].note>> : k \in {j \in DOMAIN svc[r] : InCollective(svc[r][j])}}
Mates(r) == UNION {svc[r][k].ranks : k \in DOMAIN svc[r]}
SameCollective == \A r \in Ranks : \A x \in Mates(r) :
                    Blocked(r) /\ Blocked(x) => Doing(r) = Doing(x)

(* The scheduler a resource registers with and the one it queries lead to    *)
(* the same stack for as long as the rank takes part in its synchronizations *)
(* (servers_ressource.cpp:213, 218).                                         *)
OneStack == \A r \in Ranks :
  /\ srv[r].pc = "sync" => Base(r, srv[r].free) = chain[r][1] /\ Base(r, srv[r].sched) = chain[r][1]
  /\ pool[r].pc = "sync" => Base(r, pool[r].sched) = chain[r][1]
  /\ \A k \in DOMAIN svc[r] : Base(r, svc[r][k].sched) = chain[r][1]

(* A scheduler is replaced only when nothing is on its way in it and nothing *)
(* on its stack (event_scheduler.cpp:118-137).                               *)
NothingLost == lost = {}

(* The ranks that the leader of a pool counts as occupied are those that     *)
(* have a service or are told to make one: what the comment "we hope for now *)
(* that spliting using occupancy make this match" relies on                  *)
(* (pool_ressource.cpp:348).                                                 *)
OccupancyMatches == \A r \in Ranks :
  LET p == pool[r] IN
  /\ \A i \in 1..Len(p.win) : p.win[i].in => HasNoService(r)
  /\ p.pc \in {"sync", "collective"} /\ p.note.in => HasNoService(r)

(* Every service the leader asked for is created, and the ranks are let into *)
(* their loops ("be sure that all services are created now", server.cpp:298). *)
AllCreated == <>started

(* Every server rank ends, with no request left to it unread.                *)
AllEnd == <>[](\A r \in Ranks : srv[r].pc = "ended" /\ srv[r].win = <<>> /\ svcWin[r] = <<>> /\ ctxWin[r] = <<>>)
=============================================================================
