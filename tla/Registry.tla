------------------------------ MODULE Registry ------------------------------
(***************************************************************************)
(* What a run leaves to the next one: the registries of                    *)
(* src/src/registry.cpp, one per context and rank, gathered on the first   *)
(* rank of the context when it ends (CContext::finalize), merged into      *)
(* those of manager/registry_manager.cpp, which are gathered on the first  *)
(* of all ranks at the end of the run and written to registry.bin.  The    *)
(* next run reads it and broadcasts it.                                    *)
(*                                                                         *)
(* A gathering is a recursion of collective calls on communicators split   *)
(* in two, in which only the ranks that have something to give take part.  *)
(* A value is taken as the run and the rank that have set it.              *)
(***************************************************************************)
EXTENDS Integers, Sequences, SequencesExt, FiniteSets, FiniteSetsExt, Functions

CONSTANTS N,         \* the ranks of xiosComm_
          Contexts,  \* the contexts in the order in which they end
          RanksOf,   \* context -> its ranks, in order
          Names,     \* what a context keeps in its registry
          Runs       \* the number of runs (a bound of the model)

Ranks == 0..(N - 1)
AllContexts == ToSet(Contexts)
Keys == AllContexts \X Names          \* path and key

RegistryAssumption ==
  /\ N \in Nat \ {0} /\ Runs \in Nat
  /\ \A c \in AllContexts : IsInjective(RanksOf[c]) /\ ToSet(RanksOf[c]) \subseteq Ranks

VARIABLES run,    \* the number of the run
          disk,   \* registry.bin
          input,  \* rank -> registryIn_
          given,  \* what the contexts set in this run: <<context, rank>> -> names
          out,    \* context, or the manager -> rank -> registryOut
          calls,  \* rank -> what it has left to call, first call first
          saved   \* what the runs that ended should have left

vars == <<run, disk, input, given, out, calls, saved>>

Manager == "manager"
Nothing == [k \in {} |-> <<>>]
Everyone == [i \in 1..N |-> i - 1]

---------------------------------------------------------------------------
(* hierarchicalGatherRegistry(comm), for the place i of a communicator of  *)
(* n: the splits and the gatherings it calls, with the places that call    *)
(* them too.                                                               *)
(* (a slip: the places are those of the half)                              *)
MovedNot(call, by) == call

Moved(call, by) == [call EXCEPT !.who = {p + by : p \in @}]

Half(n) == (n \div 2) + (n % 2)

LeadersOf(n) == {0, Half(n)}

(* (a slip: only those that gather call the split that tells them apart)   *)
TogetherLeaders(n, i) ==
  IF n = 1 \/ i \notin LeadersOf(n) THEN <<>>
  ELSE <<[op |-> "split", who |-> 0..(n - 1)], [op |-> "gather", who |-> LeadersOf(n)]>>

Together(n, i) ==
  IF n = 1 THEN <<>>
  ELSE <<[op |-> "split", who |-> 0..(n - 1)]>> \o
       IF i \in LeadersOf(n) THEN <<[op |-> "gather", who |-> LeadersOf(n)]>> ELSE <<>>

Gathering ==
  LET calling[n \in 1..N] ==
        [i \in 0..(n - 1) |->
           (IF n <= 2 THEN <<>>
            ELSE <<[op |-> "split", who |-> 0..(n - 1)]>> \o
                 IF i < Half(n) THEN calling[Half(n)][i]
                 ELSE [j \in DOMAIN calling[n - Half(n)][i - Half(n)] |->
                         Moved(calling[n - Half(n)][i - Half(n)][j], Half(n))])
           \o Together(n, i)]
  IN  calling

(* The same in a communicator of these ranks.                              *)
GatheringOf(where, comm, r) ==
  LET place == CHOOSE i \in DOMAIN comm : comm[i] = r
      plan  == Gathering[Len(comm)][place - 1]
  IN  [j \in DOMAIN plan |->
         [op |-> plan[j].op, of |-> where, who |-> {comm[p + 1] : p \in plan[j].who}]]

CommOf(where) == IF where = Manager THEN Everyone ELSE RanksOf[where]
Start(where) == [op |-> "start", of |-> where, who |-> ToSet(CommOf(where))]
Merge(c) == [op |-> "merge", of |-> c, who |-> {RanksOf[c][1]}]
Save == [op |-> "save", of |-> Manager, who |-> {0}]

(* What a rank does at the end of its contexts, and of the run.            *)
Ending(r) ==
  FlattenSeq([i \in DOMAIN Contexts |->
     LET c == Contexts[i]
     IN  (IF r \in ToSet(RanksOf[c]) THEN <<Start(c)>> ELSE <<>>)
         \o (IF r = RanksOf[c][1] THEN <<Merge(c)>> ELSE <<>>)])
  \o <<Start(Manager)>> \o (IF r = 0 THEN <<Save>> ELSE <<>>)

Members == {<<c, r>> \in AllContexts \X Ranks : r \in ToSet(RanksOf[c])}

(* (a slip: ranks are counted from 1)                                      *)
FilledNext(c, r, names, n) == [k \in {c} \X names |-> <<n, r + 1>>]

(* What a context of this run has, when its rank r has set these names.    *)
Filled(c, r, names, n) == [k \in {c} \X names |-> <<n, r>>]

(* (a slip: a rank that is not the first keeps what it had)                *)
BroadcastFirst(content) == [r \in Ranks |-> IF r = 0 THEN content ELSE Nothing]

Broadcast(content) == [r \in Ranks |-> content]

(* The managers and the contexts of a run are made, and set their keys.    *)
Begins(n) ==
  /\ run' = n
  /\ input' = Broadcast(disk)
  /\ given' \in [Members -> SUBSET Names]
  /\ out' = [where \in AllContexts \cup {Manager} |-> [r \in Ranks |->
               IF <<where, r>> \in Members
               THEN Filled(where, r, given'[where, r], n) ELSE Nothing]]
  /\ calls' = [r \in Ranks |-> Ending(r)]

Init ==
  /\ run = 0 /\ disk = Nothing /\ saved = Nothing
  /\ input = Broadcast(Nothing) /\ given = [m \in Members |-> {}]
  /\ out = [where \in AllContexts \cup {Manager} |-> [r \in Ranks |-> Nothing]]
  /\ calls = [r \in Ranks |-> <<>>]

Ended == \A r \in Ranks : calls[r] = <<>>

BeginRun == Ended /\ run < Runs /\ Begins(run + 1) /\ UNCHANGED <<disk, saved>>

---------------------------------------------------------------------------
(* A collective call is made when all that make it are there.              *)
Meets(call) == /\ call.who # {}
               /\ \A r \in call.who : calls[r] # <<>> /\ Head(calls[r]) = call
Goes(call, then) ==
  calls' = [r \in Ranks |->
              IF r \in call.who THEN then[r] \o Tail(calls[r]) ELSE calls[r]]
NoMore == [r \in Ranks |-> <<>>]

(* (a slip: the first rank is left out too when it is empty)               *)
GiversStrict(where, comm) == {r \in ToSet(comm) : out[where][r] # Nothing}

(* color: the ranks with something to give, and the first one.             *)
Givers(where, comm) == {r \in ToSet(comm) : out[where][r] # Nothing \/ r = comm[1]}

(* hierarchicalGatherRegistry(): the split by color.                       *)
StartGathering(call) ==
  LET comm == SelectSeq(CommOf(call.of), LAMBDA r : r \in Givers(call.of, CommOf(call.of)))
  IN  /\ call.op = "start" /\ Meets(call)
      /\ Goes(call, [r \in Ranks |->
                IF r \in ToSet(comm) THEN GatheringOf(call.of, comm, r) ELSE <<>>])
      /\ UNCHANGED <<run, disk, input, given, out, saved>>

Split(call) ==
  /\ call.op = "split" /\ Meets(call) /\ Goes(call, NoMore)
  /\ UNCHANGED <<run, disk, input, given, out, saved>>

(* (a slip: what comes replaces what is there)                             *)
MergedOver(reg, other) == other @@ reg

(* mergeRegistry: what is there is not replaced.                           *)
Merged(reg, other) == reg @@ other

(* gatherRegistry: the first rank merges what the others have.             *)
Gather(call) ==
  LET first  == Min(call.who)
      others == SetToSortSeq(call.who \ {first}, <)
  IN  /\ call.op = "gather" /\ Meets(call) /\ Goes(call, NoMore)
      /\ out' = [out EXCEPT ![call.of][first] =
                   FoldLeft(LAMBDA reg, r : Merged(reg, out[call.of][r]), @, others)]
      /\ UNCHANGED <<run, disk, input, given, saved>>

(* CRegistryManager::merge, by the first rank of a context.                *)
MergeContext(call) ==
  /\ call.op = "merge" /\ Meets(call) /\ Goes(call, NoMore)
  /\ \E r \in call.who :
       out' = [out EXCEPT ![Manager][r] = Merged(@, out[call.of][r])]
  /\ UNCHANGED <<run, disk, input, given, saved>>

(* What a run leaves, by what has been given: of each context, the value   *)
(* of the first of its ranks that have set a key.                          *)
Setters(c, k) == {r \in Ranks : <<c, r>> \in Members /\ k \in given[c, r]}
Left == [key \in {k \in Keys : Setters(k[1], k[2]) # {}} |->
           <<run, Min(Setters(key[1], key[2]))>>]

(* toFile.                                                                 *)
Written(content) == IF content = Nothing THEN disk ELSE content

ToFile(call) ==
  /\ call.op = "save" /\ Meets(call) /\ Goes(call, NoMore)
  /\ disk' = Written(out[Manager][0])
  /\ saved' = IF Left = Nothing THEN saved ELSE Left
  /\ UNCHANGED <<run, input, given, out>>

(* The run is stopped: nothing is written.                                 *)
Stopped ==
  /\ ~Ended /\ run < Runs /\ Begins(run + 1) /\ UNCHANGED <<disk, saved>>

(* Some rank is in a collective call that the others have not reached.      *)
Waiting == /\ \E r \in Ranks : calls[r] # <<>> /\ ~Meets(Head(calls[r]))
           /\ UNCHANGED vars

Finished == Ended /\ run = Runs /\ UNCHANGED vars

Step(r) == /\ calls[r] # <<>>
           /\ \/ StartGathering(Head(calls[r])) \/ Split(Head(calls[r]))
              \/ Gather(Head(calls[r])) \/ MergeContext(Head(calls[r]))
              \/ ToFile(Head(calls[r]))

Next == BeginRun \/ (\E r \in Ranks : Step(r)) \/ Stopped \/ Waiting \/ Finished

(* Ranks go on; runs may be stopped.                                       *)
Spec == Init /\ [][Next]_vars /\ WF_vars(\E r \in Ranks : Step(r))

---------------------------------------------------------------------------
Registries == UNION {[ks -> (1..Runs) \X Ranks] : ks \in SUBSET Keys}

TypeOK ==
  /\ run \in 0..Runs
  /\ {disk, saved} \cup Range(input) \subseteq Registries
  /\ \A w \in DOMAIN out : Range(out[w]) \subseteq Registries
  /\ \A r \in Ranks : \A i \in DOMAIN calls[r] :
       r \in calls[r][i].who /\ calls[r][i].who \subseteq Ranks

(* A context hands over what any of its ranks has set, the value of its    *)
(* first rank when several have: mergeRegistry's rule survives the tree of *)
(* gatherings and the ranks left out of it.                                *)
ContextGathered ==
  \A c \in AllContexts :
    LET first == RanksOf[c][1]
    IN  calls[first] # <<>> /\ Head(calls[first]) = Merge(c) =>
          out[c][first] = [key \in {k \in DOMAIN Left : k[1] = c} |-> Left[key]]

(* A run reads, on every rank, what the last run that was not stopped and  *)
(* had something to say has left.                                          *)
RunReadsLast == \A r \in Ranks : run > 0 /\ ~Ended => input[r] = saved

(* Ranks that take part in different gatherings never wait for one         *)
(* another: a run that is not stopped ends.                                *)
RunEnds == ~Ended ~> Ended
=============================================================================
