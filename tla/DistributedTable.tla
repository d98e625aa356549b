-------------------------- MODULE DistributedTable --------------------------
(***************************************************************************)
(* CClientClientDHTTemplate: a table spread over the processes by the hash *)
(* of its keys.  The constructor carries what each process feeds to the    *)
(* owner of the key, level after level of the groups of HashGroups;        *)
(* computeIndexInfoMapping carries the keys that a process asks for the    *)
(* same way, and what is known of them back.                               *)
(*                                                                         *)
(* At each level the processes tell one another how many elements will     *)
(* come, then send them.  Sends and receives are posted together and       *)
(* waited for; the messages of all levels, and of the way there and back,  *)
(* have the same tags, and are told apart by their order only.             *)
(***************************************************************************)
EXTENDS HashGroups, SequencesExt

CONSTANTS Clients,   \* the number of processes
          Keys,      \* the global indices
          Hash,      \* of each key
          Feeds,     \* what may be fed: key -> the processes that feed it
          Demands    \* what may be asked for: process -> keys

TableAssumption ==
  /\ Clients \in 1..HashMax
  /\ Hash \in [Keys -> 0..(HashMax - 1)]
  /\ Feeds \subseteq [Keys -> SUBSET (0..(Clients - 1))]
  /\ Demands \subseteq [0..(Clients - 1) -> SUBSET Keys]

Procs == 0..(Clients - 1)
Levels == 0..(NbLevel(Clients, 0) - 1)
LevelsDown == [k \in 1..Cardinality(Levels) |-> Cardinality(Levels) - k]
LevelsUp == Reverse(LevelsDown)

(* What a process goes through: the counts and the elements of each level. *)
Exchanges(part, levels) ==
  FlattenSeq([k \in DOMAIN levels |->
    <<[part |-> part, level |-> levels[k], tag |-> "count"],
      [part |-> part, level |-> levels[k], tag |-> "data"]>>])

(* What the constructor works out for each process, and what it will go    *)
(* through: its groups, who owns a key, whom it writes to and hears from   *)
(* at each level (HashGroups).                                             *)
Plan ==
  [group |-> [p \in Procs |-> Groups(Clients, p)],
   owner |-> [p \in Procs |-> [l \in Levels |-> [k \in Keys |->
                Owner(Groups(Clients, p)[l], Hash[k])]]],
   to |-> [p \in Procs |-> [l \in Levels |-> SendRank(Clients, p, l)]],
   from |-> [p \in Procs |-> [l \in Levels |-> RecvRank(Clients, p, l)]],
   script |-> Exchanges("feed", LevelsDown) \o Exchanges("ask", LevelsDown)
                \o Exchanges("back", LevelsUp)]

VARIABLES
  plan,          \* see Plan
  fed, demand,   \* what the callers of the processes give
  step,          \* process -> where it is in Script
  posted,        \* process -> the messages of this step have been posted
  store,         \* process -> key -> the ranks that feed it
                 \*   (index2InfoMapping_, what is carried until then)
  wanted,        \* process -> the keys looked up at this level
  requests,      \* process -> level -> the keys that it is asked for, by rank
  askedFrom,     \* process -> level -> the ranks that it has asked
  found,         \* process -> key -> ranks (indexToInfoMappingLevel_)
  expected,      \* process -> rank -> the number of elements announced
  net            \* <<tag, from, to>> -> the messages on their way

vars == <<plan, fed, demand, step, posted, store, wanted, requests, askedFrom, found,
          expected, net>>

NoInfo == [k \in Keys |-> <<>>]
Nobody == [q \in {} |-> {}]
Tags == {"count", "data", "return"}

Init ==
  /\ plan = Plan
  /\ fed \in Feeds /\ demand \in Demands
  /\ step = [p \in Procs |-> 1]
  /\ posted = [p \in Procs |-> FALSE]
  /\ store = [p \in Procs |-> [k \in Keys |-> IF p \in fed[k] THEN <<p>> ELSE <<>>]]
  /\ wanted = demand
  /\ requests = [p \in Procs |-> [l \in Levels |-> Nobody]]
  /\ askedFrom = [p \in Procs |-> [l \in Levels |-> {}]]
  /\ found = [p \in Procs |-> NoInfo]
  /\ expected = [p \in Procs |-> Nobody]
  /\ net = [c \in Tags \X Procs \X Procs |-> <<>>]

Script == plan.script
Done(p) == step[p] > Len(Script)
Now(p) == Script[step[p]]

---------------------------------------------------------------------------
(* The keys that q owns at this level.                                     *)
Owned(p, q, keys) ==
  {k \in keys : plan.owner[p][Now(p).level][k] = q}

(* (a slip: the answer is the question)                                    *)
ForEcho(p, q) ==
  IF Now(p).part = "feed"
  THEN [k \in Owned(p, q, {j \in Keys : store[p][j] # <<>>}) |-> store[p][k]]
  ELSE [k \in IF Now(p).part = "ask" THEN Owned(p, q, wanted[p])
             ELSE requests[p][Now(p).level][q] |-> <<k>>]

(* What p has for q in this exchange: key -> ranks when it feeds or        *)
(* answers, keys with nothing when it asks.                                *)
For(p, q) ==
  CASE Now(p).part = "feed" ->
         [k \in Owned(p, q, {j \in Keys : store[p][j] # <<>>}) |-> store[p][k]]
    [] Now(p).part = "ask" ->
         [k \in Owned(p, q, wanted[p]) |-> <<k>>]
    [] Now(p).part = "back" ->
         [k \in {j \in requests[p][Now(p).level][q] : found[p][j] # <<>>} |->
            found[p][k]]

Size(elements) ==
  FoldSet(LAMBDA k, n : n + Len(elements[k]), 0, DOMAIN elements)

(* (a slip: the keys are counted, not the ranks fed with them)             *)
CountKeys(p, q) == Cardinality(DOMAIN For(p, q))

Count(p, q) == Size(For(p, q))

Group(p) == Members(plan.group[p][Now(p).level])

(* sendRecvRank, sendRecvOnReturn: the counts go to those of computeSend-  *)
(* RecvRank, or to the ones that have asked.                               *)
(* (a slip: only the processes that have something are told)               *)
TellsNonEmpty(p) ==
  IF Now(p).part = "back" THEN DOMAIN requests[p][Now(p).level]
  ELSE {q \in plan.to[p][Now(p).level] : Size(For(p, q)) > 0}

Tells(p) ==
  IF Now(p).part = "back" THEN DOMAIN requests[p][Now(p).level]
  ELSE plan.to[p][Now(p).level]

Hears(p) ==
  IF Now(p).part = "back" THEN askedFrom[p][Now(p).level]
  ELSE plan.from[p][Now(p).level]

(* The tag of the counts; the elements have their own, there and back.     *)
Tag(p) == IF Now(p).tag = "count" /\ Now(p).part = "back" THEN "return"
          ELSE Now(p).tag

(* The elements are sent to all that there are some for.                   *)
Targets(p) ==
  IF Now(p).tag = "count" THEN Tells(p)
  ELSE {q \in IF Now(p).part = "back" THEN DOMAIN requests[p][Now(p).level]
              ELSE Group(p) : Size(For(p, q)) > 0}

Sources(p) == IF Now(p).tag = "count" THEN Hears(p) ELSE DOMAIN expected[p]

Post(p) ==
  /\ ~Done(p) /\ ~posted[p]
  /\ posted' = [posted EXCEPT ![p] = TRUE]
  /\ net' = [c \in DOMAIN net |->
       IF c[1] = Tag(p) /\ c[2] = p /\ c[3] \in Targets(p)
       THEN Append(net[c], IF Now(p).tag = "count" THEN Count(p, c[3])
                           ELSE For(p, c[3]))
       ELSE net[c]]
  /\ askedFrom' =
       IF Now(p) = [part |-> "ask", level |-> Now(p).level, tag |-> "data"]
       THEN [askedFrom EXCEPT ![p][Now(p).level] = Targets(p)] ELSE askedFrom
  /\ UNCHANGED <<plan, fed, demand, step, store, wanted, requests, found, expected>>

---------------------------------------------------------------------------
Arrived(p) == \A q \in Sources(p) : net[<<Tag(p), q, p>>] # <<>>
Message(p, q) == Head(net[<<Tag(p), q, p>>])

(* The elements of all messages together, in the order of the ranks.       *)
Merged(p) ==
  [k \in Keys |->
     FlattenSeq([i \in 1..Clients |->
       IF i - 1 \in Sources(p) /\ k \in DOMAIN Message(p, i - 1)
       THEN Message(p, i - 1)[k] ELSE <<>>])]

Wait(p) ==
  /\ ~Done(p) /\ posted[p] /\ Arrived(p)
  /\ step' = [step EXCEPT ![p] = @ + 1]
  /\ posted' = [posted EXCEPT ![p] = FALSE]
  /\ net' = [c \in DOMAIN net |->
               IF c[1] = Tag(p) /\ c[3] = p /\ c[2] \in Sources(p)
               THEN Tail(net[c]) ELSE net[c]]

(* The counts; a zero announces no message.                                *)
ReceiveCounts(p) ==
  /\ ~Done(p) /\ Now(p).tag = "count"
  /\ Wait(p)
  /\ expected' = [expected EXCEPT ![p] =
       [q \in {r \in Sources(p) : Message(p, r) > 0} |-> Message(p, q)]]
  /\ UNCHANGED <<plan, fed, demand, store, wanted, requests, askedFrom, found>>

(* computeDistributedIndex: what has come replaces what was carried.       *)
(* (a slip: it is added to what was carried)                               *)
ReceiveFedAdded(p) ==
  /\ ~Done(p) /\ Now(p).tag = "data" /\ Now(p).part = "feed"
  /\ Wait(p)
  /\ store' = [store EXCEPT ![p] = [k \in Keys |-> @[k] \o Merged(p)[k]]]
  /\ UNCHANGED <<plan, fed, demand, wanted, requests, askedFrom, found, expected>>

ReceiveFed(p) ==
  /\ ~Done(p) /\ Now(p).tag = "data" /\ Now(p).part = "feed"
  /\ Wait(p)
  /\ store' = [store EXCEPT ![p] = Merged(p)]
  /\ UNCHANGED <<plan, fed, demand, wanted, requests, askedFrom, found, expected>>

(* computeIndexInfoMappingLevel, on the way there: the keys asked by the   *)
(* others are looked up at the next level, or in the table at the last.    *)
ReceiveAsked(p) ==
  LET asks == [q \in Sources(p) |-> DOMAIN Message(p, q)]
  IN  /\ ~Done(p) /\ Now(p).tag = "data" /\ Now(p).part = "ask"
      /\ Wait(p)
      /\ requests' = [requests EXCEPT ![p][Now(p).level] = asks]
      /\ wanted' = [wanted EXCEPT ![p] = UNION {asks[q] : q \in DOMAIN asks}]
      /\ found' = IF Now(p).level = 0 THEN [found EXCEPT ![p] = store[p]]
                  ELSE found
      /\ UNCHANGED <<plan, fed, demand, store, askedFrom, expected>>

(* On the way back: what is known of the keys of this level.               *)
ReceiveFound(p) ==
  /\ ~Done(p) /\ Now(p).tag = "data" /\ Now(p).part = "back"
  /\ Wait(p)
  /\ found' = [found EXCEPT ![p] = Merged(p)]
  /\ UNCHANGED <<plan, fed, demand, store, wanted, requests, askedFrom, expected>>

(* MPI_Waitall.                                                            *)
Waiting(p) == ~Done(p) /\ posted[p] /\ ~Arrived(p) /\ UNCHANGED vars

Finished == (\A p \in Procs : Done(p)) /\ UNCHANGED vars

Process(p) == \/ Post(p) \/ ReceiveCounts(p) \/ ReceiveFed(p)
              \/ ReceiveAsked(p) \/ ReceiveFound(p)

Next == (\E p \in Procs : Process(p) \/ Waiting(p)) \/ Finished

(* Each process runs on its own, and MPI delivers what is posted.          *)
Spec == Init /\ [][Next]_vars /\ \A p \in Procs : WF_vars(Process(p))

---------------------------------------------------------------------------
TypeOK ==
  /\ \A p \in Procs :
       /\ step[p] \in 1..(Len(Script) + 1) /\ posted[p] \in BOOLEAN
       /\ wanted[p] \subseteq Keys
       /\ \A k \in Keys : Range(store[p][k]) \cup Range(found[p][k]) \subseteq Procs
       /\ \A l \in Levels : askedFrom[p][l] \cup DOMAIN requests[p][l] \subseteq Procs

(* A message that a process waits for is the one that was announced: what  *)
(* comes first under the tag is not of another level, nor an answer taken  *)
(* for a question.                                                         *)
AnnouncedSize ==
  \A p \in Procs :
    ~Done(p) /\ Now(p).tag = "data" =>
      \A q \in DOMAIN expected[p] :
        net[<<"data", q, p>>] # <<>> /\ posted[p] =>
          Size(Message(p, q)) = expected[p][q]

(* In the end everybody knows of the keys he asked for, and of no other,   *)
(* all that was fed, each part once; no message is left to be taken for    *)
(* one of the next call.                                                   *)
Answered ==
  (\A p \in Procs : Done(p)) =>
    /\ \A p \in Procs : \A k \in Keys :
         IF k \in demand[p]
         THEN IsInjective(found[p][k]) /\ Range(found[p][k]) = fed[k]
         ELSE found[p][k] = <<>>
    /\ \A c \in DOMAIN net : net[c] = <<>>

(* Nobody waits for ever for a message.                                    *)
Terminates == <>(\A p \in Procs : Done(p))
=============================================================================
