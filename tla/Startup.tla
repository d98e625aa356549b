------------------------------- MODULE Startup -------------------------------
(* How the codes of a coupled run and the servers come to one communicator   *)
(* (CClient::initialize, CServer::initialize and their                       *)
(* xiosGlobalCommByFileExchange).  The root of each code leaves its global   *)
(* rank in a file of the working directory and polls for the files of those  *)
(* it connects to; intercommunicators are then made and merged one after the *)
(* other, until all codes are in.  Without clients_code_id the whole of the  *)
(* global communicator is split in clients and servers instead.  Then, with  *)
(* OASIS, the servers end the definition of the coupling once every code has *)
(* told their root to.                                                       *)
(*                                                                           *)
(* The ranks of a client code follow its root, which broadcasts what it      *)
(* finds; those of the servers each read the files by themselves.            *)
EXTENDS Integers, Sequences, SequencesExt, FiniteSets, FiniteSetsExt

CONSTANTS
  Codes,        \* clients_code_id: the client codes, in that order
  Server,       \* xiosCodeId, the name of the servers' code
  ServerRanks,  \* the ranks of the servers, none when there are no servers
  ServerRoot,   \* the first of them
  RootOf,       \* the global rank of the root of each code
  ByFile,       \* clients_code_id is given
  Left,         \* files a run that was killed has left: code -> global rank
  Torn,         \* a client may read a file between its opening and its writing
  Patient       \* no client gives up before the servers are there

Clients == ToSet(Codes)
AllCodes == Clients \cup IF ServerRanks = {} THEN {} ELSE {Server}

StartupAssumption ==
  /\ IsInjective(Codes) /\ Codes # <<>> /\ Server \notin Clients
  /\ ServerRanks # {} => ServerRoot \in ServerRanks
  /\ \A c, d \in AllCodes : RootOf[c] \in Nat /\ (c # d => RootOf[c] # RootOf[d])
  /\ DOMAIN Left \subseteq Clients \cup {Server}
  /\ {Torn, Patient, ByFile} \subseteq BOOLEAN

VARIABLES
  file,         \* what is in the directory: NoFile, Empty, or a global rank
  place,        \* where the root of each code is
  hasServer,    \* what each client found: the opposite of error
  serverRank,   \* the rank a client takes for the servers' root
  clientsRank,  \* clientsRank of each rank of the servers, as far as it got
  others,       \* clientsRank of a client that found no server
  at,           \* the code whose turn it is in the loop over clients_code_id
  comm,         \* intraComm, then xiosComm: the codes in the order of the ranks
  told,         \* codes that have sent the order to end the definition
  counted,      \* nbCompound: those whose order the servers' root has received
  signalled,    \* ranks of the servers the root has sent the order to
  announced,    \* ranks that have registered the event oasis_enddef
  entered       \* ranks in endSynchronizedDefinition

exchange == <<file, place, hasServer, serverRank, clientsRank, others, at, comm>>
enddef == <<told, counted, signalled, announced, entered>>
vars == <<exchange, enddef>>

NoFile == -1
Empty == -2
Files == Clients \cup {Server}
Pos(c) == CHOOSE i \in DOMAIN Codes : Codes[i] = c
Root(c) == comm[c][1] = c

Init ==
  /\ file = [c \in Files |-> IF c \in DOMAIN Left THEN Left[c] ELSE NoFile]
  /\ place = [c \in AllCodes |-> "start"]
  /\ hasServer = [c \in Clients |-> TRUE]
  /\ serverRank = [c \in Clients |-> 0]
  /\ clientsRank = [r \in ServerRanks |-> <<>>]
  /\ others = [c \in Clients |-> <<>>]
  /\ at = [c \in AllCodes |-> 1]
  /\ comm = [c \in AllCodes |-> <<c>>]
  /\ told = {} /\ counted = {} /\ signalled = {} /\ announced = {} /\ entered = {}

-----------------------------------------------------------------------------
(* ofstream opens the file, which empties it; the rank lands at its close.   *)
OpenFile(c) ==
  /\ ByFile /\ place[c] = "start"
  /\ file' = [file EXCEPT ![c] = Empty]
  /\ place' = [place EXCEPT ![c] = "publish"]
  /\ UNCHANGED <<hasServer, serverRank, clientsRank, others, at, comm, enddef>>

WriteFile(c) ==
  /\ place[c] = "publish"
  /\ file' = [file EXCEPT ![c] = RootOf[c]]
  /\ place' = [place EXCEPT ![c] = IF c = Server THEN "loop" ELSE "look"]
  /\ UNCHANGED <<hasServer, serverRank, clientsRank, others, at, comm, enddef>>

(* (a slip: a client joins after its own turn)                               *)
FirstTurnLate(c, server) == IF c = Server THEN 1 ELSE Pos(c) + 1

(* The turn a code enters the loop with.  With no server "first model play   *)
(* the server rule", and no code has a turn of its own.                      *)
FirstTurn(c, server) == IF c = Server THEN 1
                        ELSE IF server THEN Pos(c) ELSE Pos(c) + 1

(* The rank an opened file gives: 0 if there is nothing in it.               *)
RankIn(c) == IF file[c] = Empty THEN 0 ELSE file[c]
Readable(c) == file[c] # NoFile /\ (file[c] = Empty => Torn)

(* The open of the servers' file succeeds.                                   *)
FindServer(c) ==
  /\ place[c] = "look" /\ Readable(Server)
  /\ serverRank' = [serverRank EXCEPT ![c] = RankIn(Server)]
  /\ at' = [at EXCEPT ![c] = FirstTurn(c, TRUE)]
  /\ place' = [place EXCEPT ![c] = "loop"]
  /\ UNCHANGED <<file, hasServer, clientsRank, others, comm, enddef>>

(* server_publish_timeout has passed, whether the file is there or not.      *)
GiveUp(c) ==
  /\ place[c] = "look" /\ ~Patient
  /\ hasServer' = [hasServer EXCEPT ![c] = FALSE]
  /\ place' = [place EXCEPT ![c] = "others"]
  /\ UNCHANGED <<file, serverRank, clientsRank, others, at, comm, enddef>>

ReadOther(c) ==
  /\ place[c] = "others" /\ Len(others[c]) < Len(Codes)
  /\ Readable(Codes[Len(others[c]) + 1])
  /\ others' = [others EXCEPT ![c] = Append(@, RankIn(Codes[Len(@) + 1]))]
  /\ UNCHANGED <<file, place, hasServer, serverRank, clientsRank, at, comm, enddef>>

OthersRead(c) ==
  /\ place[c] = "others" /\ Len(others[c]) = Len(Codes)
  /\ at' = [at EXCEPT ![c] = FirstTurn(c, FALSE)]
  /\ place' = [place EXCEPT ![c] = "loop"]
  /\ UNCHANGED <<file, hasServer, serverRank, clientsRank, others, comm, enddef>>

(* A rank of the servers waits a second between seeing a file and reading    *)
(* it, which is taken as enough for the rank to be in it.                    *)
ReadClient(r) ==
  LET i == Len(clientsRank[r]) + 1
  IN  /\ ByFile /\ i <= Len(Codes) /\ file[Codes[i]] \notin {NoFile, Empty}
      /\ r = ServerRoot => place[Server] = "loop"
      /\ clientsRank' = [clientsRank EXCEPT ![r] = Append(@, file[Codes[i]])]
      /\ UNCHANGED <<file, place, hasServer, serverRank, others, at, comm, enddef>>

-----------------------------------------------------------------------------
(* The rank the leader c of a communicator names for the other's leader, and *)
(* the place it gives its own side in what is merged.                        *)
RemoteLeader(c) ==
  IF c = Server THEN clientsRank[ServerRoot][at[c]]
  ELSE IF hasServer[c] THEN serverRank[c]
  ELSE IF Pos(c) = 1 THEN others[c][at[c]] ELSE others[c][1]

High(c) == c # Server /\ (hasServer[c] \/ Pos(c) > 1) /\ at[c] = FirstTurn(c, hasServer[c])

(* Every rank of the communicator calls MPI_Intercomm_create.                *)
Calls(c) ==
  \A d \in ToSet(comm[c]) :
    /\ place[d] = "loop" /\ at[d] <= Len(Codes)
    /\ d = Server => \A r \in ServerRanks : Len(clientsRank[r]) = Len(Codes)

Meet(c, d) == /\ Root(c) /\ Root(d) /\ c # d /\ Calls(c) /\ Calls(d)
              /\ RemoteLeader(c) = RootOf[d] /\ RemoteLeader(d) = RootOf[c]

(* MPI_Intercomm_create and MPI_Intercomm_merge: the low side comes first.   *)
Merge(c, d) ==
  LET both == ToSet(comm[c]) \cup ToSet(comm[d])
  IN  /\ Meet(c, d) /\ (High(c) => High(d))
      /\ comm' = [e \in AllCodes |-> IF e \in both THEN comm[c] \o comm[d] ELSE comm[e]]
      /\ at' = [e \in AllCodes |-> IF e \in both THEN at[e] + 1 ELSE at[e]]
      /\ UNCHANGED <<file, place, hasServer, serverRank, clientsRank, others, enddef>>

(* A barrier of xiosGlobalComm, for the code c.                              *)
Together(c, from) == \A d \in ToSet(comm[c]) : place[d] = from /\ comm[d] = comm[c]

LeaveLoop(c) ==
  /\ place[c] = "loop" /\ at[c] > Len(Codes)
  /\ place' = [place EXCEPT ![c] = "barrier"]
  /\ UNCHANGED <<file, hasServer, serverRank, clientsRank, others, at, comm, enddef>>

Barrier(c) ==
  /\ Together(c, "barrier")
  /\ place' = [d \in AllCodes |-> IF place[d] = "barrier" /\ d \in ToSet(comm[c])
                                    THEN "remove" ELSE place[d]]
  /\ UNCHANGED <<file, hasServer, serverRank, clientsRank, others, at, comm, enddef>>

RemoveFile(c) ==
  /\ place[c] = "remove"
  /\ file' = [file EXCEPT ![c] = NoFile]
  /\ place' = [place EXCEPT ![c] = "removed"]
  /\ UNCHANGED <<hasServer, serverRank, clientsRank, others, at, comm, enddef>>

SetXiosComm(c) ==
  /\ Together(c, "removed")
  /\ place' = [d \in AllCodes |-> IF d \in ToSet(comm[c]) THEN "out" ELSE place[d]]
  /\ UNCHANGED <<file, hasServer, serverRank, clientsRank, others, at, comm, enddef>>

(* Without clients_code_id: two intracommunicators, in the order of the      *)
(* global ranks, whose leaders each side learns by a sum to which all other  *)
(* ranks give 0; the servers are the low side of what is merged.             *)
ByRank(codes) == SetToSortSeq(codes, LAMBDA c, d : RootOf[c] < RootOf[d])

SplitGlobalComm ==
  /\ ~ByFile /\ \A c \in AllCodes : place[c] = "start"
  /\ comm' = [c \in AllCodes |-> ByRank(AllCodes \ Clients) \o ByRank(Clients)]
  /\ hasServer' = [c \in Clients |-> ServerRanks # {}]
  /\ place' = [c \in AllCodes |-> "out"]
  /\ UNCHANGED <<file, serverRank, clientsRank, others, at, enddef>>

-----------------------------------------------------------------------------
(* The order goes to the servers' root by the intercommunicator of the       *)
(* code, which is made by the exchange of files only.                        *)
CallOasisEnddef(c) ==
  /\ ByFile /\ c # Server /\ place[c] = "out" /\ hasServer[c]
  /\ told' = told \cup {c}
  /\ place' = [place EXCEPT ![c] = "enddef"]
  /\ UNCHANGED <<file, hasServer, serverRank, clientsRank, others, at, comm>>
  /\ UNCHANGED <<counted, signalled, announced, entered>>

(* (a slip: the first order is enough)                                       *)
AllCountedOne(n) == n >= 1
AllCounted(n) == n = Len(Codes)

ListenOasisEnddef ==
  /\ ServerRanks # {} /\ place[Server] = "out"
  /\ \E c \in told \ counted :
       /\ counted' = counted \cup {c}
       /\ signalled' = IF AllCounted(Cardinality(counted) + 1) THEN ServerRanks ELSE signalled
  /\ UNCHANGED <<exchange, told, announced, entered>>

ListenRootOasisEnddef(r) ==
  /\ r \in signalled \ announced
  /\ announced' = announced \cup {r}
  /\ UNCHANGED <<exchange, told, counted, signalled, entered>>

(* The scheduler lets the event through when all ranks have registered it.   *)
EndSynchronizedDefinition(r) ==
  /\ announced = ServerRanks /\ r \in ServerRanks \ entered
  /\ entered' = entered \cup {r}
  /\ UNCHANGED <<exchange, told, counted, signalled, announced>>

Step ==
  \/ \E c \in AllCodes : \/ OpenFile(c) \/ WriteFile(c) \/ LeaveLoop(c) \/ Barrier(c)
                         \/ RemoveFile(c) \/ SetXiosComm(c)
                         \/ \E d \in AllCodes : Merge(c, d)
  \/ \E c \in Clients : \/ FindServer(c) \/ GiveUp(c) \/ ReadOther(c) \/ OthersRead(c)
                        \/ CallOasisEnddef(c)
  \/ \E r \in ServerRanks : ReadClient(r) \/ ListenRootOasisEnddef(r)
                            \/ EndSynchronizedDefinition(r)
  \/ ListenOasisEnddef \/ SplitGlobalComm

Started == /\ \A c \in AllCodes : place[c] \in {"out", "enddef"}
           /\ ByFile => entered = ServerRanks

Next == Step \/ (Started /\ UNCHANGED vars)

Spec == Init /\ [][Next]_vars /\ WF_vars(Step)

-----------------------------------------------------------------------------
TypeOK ==
  /\ \A c \in Files : file[c] \in {NoFile, Empty} \cup Nat
  /\ \A c \in AllCodes : c \in ToSet(comm[c]) /\ ToSet(comm[c]) \subseteq AllCodes
                         /\ at[c] \in 1..(Len(Codes) + 1)
  /\ counted \subseteq told /\ announced \subseteq signalled

(* Whoever has got its communicator has that of all codes, with its ranks in *)
(* one order: "Create the XIOS communicator for every process which is       *)
(* related to XIOS, as well on client side as on server side"                *)
(* (client.cpp:135).                                                         *)
OneXiosComm ==
  \A c \in AllCodes : place[c] \in {"out", "enddef"} =>
    ToSet(comm[c]) = AllCodes /\ \A d \in AllCodes : comm[d] = comm[c]

(* A file is removed only when all that poll for it have read it: the        *)
(* others would wait for ever (client.cpp:346, server.cpp:459).  It is the   *)
(* collective merges that see to it, before the barrier does.                *)
FilesReadFirst ==
  ByFile => \A c \in AllCodes : place[c] \in {"removed", "out", "enddef"} =>
    /\ \A r \in ServerRanks : c # Server => Len(clientsRank[r]) >= Pos(c)
    /\ \A d \in Clients : c = Server /\ hasServer[d] => place[d] \notin {"start", "publish", "look"}

(* No rank of the servers is in the collective end of the definition before  *)
(* every code has asked for it (server.cpp:538).                             *)
EnddefAfterAll == entered # {} => told = Clients

(* All codes and ranks come to the end of their start.                       *)
AllStart == <>Started
=============================================================================
