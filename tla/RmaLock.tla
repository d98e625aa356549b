------------------------------- MODULE RmaLock -------------------------------
(* The reader/writer lock that every XIOS one-sided window carries in its    *)
(* first eight bytes (src/src/manager/window_base.hpp and the same code in   *)
(* window_dynamic.hpp).  The lock word is a long: its low int is the         *)
(* exclusive bit, its high int counts readers.  Processes touch it only with *)
(* atomic RMA operations, each of them one action here; a put is asynchronous*)
(* and lands at any time before the flush that closes the section.           *)
EXTENDS Integers, FiniteSets

CONSTANTS Procs,      \* the MPI ranks that attach the window
          Modulus     \* bound: the protected value and the ghost count live in 0..Modulus-1

ASSUME ProcsFinite == IsFiniteSet(Procs)
ASSUME ModulusPositive == Modulus \in Nat \ {0}

VARIABLES
  lockWord,   \* [x |-> low int, r |-> high int] of the long at OFFSET_LOCK
  data,       \* the protected buffer, at OFFSET_BUFFER
  pc,         \* where each rank is in lock / access / unlock
  got,        \* the value a rank has read with MPI_Get
  put,        \* the value of a rank's MPI_Put not yet landed, or NoPut
  commits,    \* ghost: exclusive sections completed, modulo Modulus
  badState    \* an unlockExclusive has met its "bad state" ERROR

vars == <<lockWord, data, pc, got, put, commits, badState>>

NoPut == -1
Values == 0 .. Modulus - 1
Inc(v) == (v + 1) % Modulus

PCs == {"idle", "wantX", "ownX", "readX", "putX", "flushedX", "waitS", "ownS"}

Owners == {p \in Procs : pc[p] \in {"ownX", "readX", "putX", "flushedX"}}
Readers == {p \in Procs : pc[p] = "ownS"}
Registered == {p \in Procs : pc[p] \in {"waitS", "ownS"}}

TypeOK == /\ lockWord \in [x : {0, 1}, r : Nat]
          /\ data \in Values
          /\ pc \in [Procs -> PCs]
          /\ got \in [Procs -> Values]
          /\ put \in [Procs -> Values \cup {NoPut}]
          /\ commits \in Values
          /\ badState \in BOOLEAN

Init == /\ lockWord = [x |-> 0, r |-> 0]
        /\ data = 0
        /\ pc = [p \in Procs |-> "idle"]
        /\ got = [p \in Procs |-> 0]
        /\ put = [p \in Procs |-> NoPut]
        /\ commits = 0
        /\ badState = FALSE

(* Variants of the operations below that a slip in the code would produce;   *)
(* they are used only to show what each property depends on.                 *)
LowHalfFree == lockWord.x = 0
BitIgnored == TRUE
RegisterIfFree == [lockWord EXCEPT !.r = IF lockWord.x = 0 THEN @ + 1 ELSE @]
RegisterInLowHalf == [lockWord EXCEPT !.x = @ + 1]
NotFlushed(p) == TRUE

(* MPI_Compare_and_swap compares the whole long with 0: no writer, no reader. *)
WordFree == lockWord.x = 0 /\ lockWord.r = 0
(* A shared attempt succeeds when bit 0 of the fetched long is clear.         *)
NoWriter == lockWord.x = 0
(* MPI_Fetch_and_op(one << 32, MPI_SUM): registers even when a writer holds.  *)
PlusReader == [lockWord EXCEPT !.r = @ + 1]
(* MPI_Win_flush, the first call of unlockExclusive: the put has landed.      *)
Flushed(p) == put[p] = NoPut
(* MPI_Compare_and_swap on the low MPI_INT only: 1 -> 0, the readers stay.    *)
LowHalfCleared == [lockWord EXCEPT !.x = IF @ = 1 THEN 0 ELSE @]

StartExclusive(p) ==
  /\ pc[p] = "idle"
  /\ pc' = [pc EXCEPT ![p] = "wantX"]
  /\ UNCHANGED <<lockWord, data, got, put, commits, badState>>

(* tryLockExclusive; a failed attempt leaves everything as it is and is      *)
(* retried by the loop of lockExclusive.                                     *)
TryLockExclusive(p) ==
  /\ pc[p] = "wantX"
  /\ WordFree
  /\ lockWord' = [lockWord EXCEPT !.x = 1]
  /\ pc' = [pc EXCEPT ![p] = "ownX"]
  /\ UNCHANGED <<data, got, put, commits, badState>>

(* Inside the section the callers read the buffer with a get and a flush ... *)
GetExclusive(p) ==
  /\ pc[p] = "ownX"
  /\ got' = [got EXCEPT ![p] = data]
  /\ pc' = [pc EXCEPT ![p] = "readX"]
  /\ UNCHANGED <<lockWord, data, put, commits, badState>>

(* ... and put a value computed from it back.                                *)
PutExclusive(p) ==
  /\ pc[p] = "readX"
  /\ put' = [put EXCEPT ![p] = Inc(got[p])]
  /\ pc' = [pc EXCEPT ![p] = "putX"]
  /\ UNCHANGED <<lockWord, data, got, commits, badState>>

(* The put may reach the target memory at any time after MPI_Put returns.    *)
PutLands(p) ==
  /\ put[p] # NoPut
  /\ data' = put[p]
  /\ put' = [put EXCEPT ![p] = NoPut]
  /\ UNCHANGED <<lockWord, pc, got, commits, badState>>

FlushBeforeUnlock(p) ==
  /\ pc[p] = "putX"
  /\ Flushed(p)
  /\ pc' = [pc EXCEPT ![p] = "flushedX"]
  /\ UNCHANGED <<lockWord, data, got, put, commits, badState>>

UnlockExclusive(p) ==
  /\ pc[p] = "flushedX"
  /\ badState' = (badState \/ lockWord.x # 1)
  /\ lockWord' = LowHalfCleared
  /\ commits' = Inc(commits)
  /\ pc' = [pc EXCEPT ![p] = "idle"]
  /\ UNCHANGED <<data, got, put>>

(* tryLockShared(rank, MPI_SUM), the first attempt of lockShared.            *)
LockSharedFirst(p) ==
  /\ pc[p] = "idle"
  /\ lockWord' = PlusReader
  /\ pc' = [pc EXCEPT ![p] = IF NoWriter THEN "ownS" ELSE "waitS"]
  /\ UNCHANGED <<data, got, put, commits, badState>>

(* tryLockShared(rank, MPI_NO_OP), a later attempt: reads, changes nothing.  *)
LockSharedRetry(p) ==
  /\ pc[p] = "waitS"
  /\ NoWriter
  /\ pc' = [pc EXCEPT ![p] = "ownS"]
  /\ UNCHANGED <<lockWord, data, got, put, commits, badState>>

Get(p) ==
  /\ pc[p] = "ownS"
  /\ got' = [got EXCEPT ![p] = data]
  /\ UNCHANGED <<lockWord, data, pc, put, commits, badState>>

(* MPI_Fetch_and_op(-1, MPI_SUM) on the high MPI_INT.                        *)
UnlockShared(p) ==
  /\ pc[p] = "ownS"
  /\ lockWord' = [lockWord EXCEPT !.r = @ - 1]
  /\ pc' = [pc EXCEPT ![p] = "idle"]
  /\ UNCHANGED <<data, got, put, commits, badState>>

Next == \E p \in Procs :
          \/ StartExclusive(p)
          \/ TryLockExclusive(p)
          \/ GetExclusive(p)
          \/ PutExclusive(p)
          \/ PutLands(p)
          \/ FlushBeforeUnlock(p)
          \/ UnlockExclusive(p)
          \/ LockSharedFirst(p)
          \/ LockSharedRetry(p)
          \/ Get(p)
          \/ UnlockShared(p)

Spec == Init /\ [][Next]_vars

(* A rank in a section finishes it and a rank that spins keeps spinning;     *)
(* nothing obliges a rank to start a section.                                *)
Fairness == \A p \in Procs :
              /\ WF_vars(TryLockExclusive(p))
              /\ WF_vars(GetExclusive(p))
              /\ WF_vars(PutExclusive(p))
              /\ WF_vars(PutLands(p))
              /\ WF_vars(FlushBeforeUnlock(p))
              /\ WF_vars(UnlockExclusive(p))
              /\ WF_vars(LockSharedRetry(p))
              /\ WF_vars(UnlockShared(p))

FairSpec == Spec /\ Fairness

-----------------------------------------------------------------------------
(* Mutual exclusion: a rank in an exclusive section is alone in the window,  *)
(* although readers may have registered in the lock word while it holds it.  *)
Exclusion == /\ \A p, q \in Owners : p = q
             /\ Owners = {} \/ Readers = {}

(* The "bad state" ERROR of unlockExclusive is unreachable: reader traffic   *)
(* on the same long never disturbs the half word the release compares.       *)
UnlockNeverFails == ~badState

(* No update is lost: whenever no writer holds the lock, the buffer carries  *)
(* the effect of every exclusive section completed so far, asynchronous puts *)
(* included.                                                                 *)
NoLostUpdate == lockWord.x = 0 => data = commits

(* What a reader sees stays put while it is inside its shared section.        *)
StableWhileShared == [][Readers # {} /\ Readers' # {} => data' = data]_vars

(* A reader that met a writer gets in, however many ranks keep asking for    *)
(* the exclusive lock: its registration keeps new writers out.               *)
ReaderServed == \A p \in Procs : pc[p] = "waitS" ~> pc[p] = "ownS"

-----------------------------------------------------------------------------
(* The inductive invariant behind the safety properties.                     *)

(* The high half counts exactly the ranks that have registered as readers.   *)
CountInv == lockWord.r = Cardinality(Registered)

(* The low half is the exclusive bit of the one owner.                       *)
OwnerInv == /\ lockWord.x = 1 <=> Owners # {}
            /\ \A p, q \in Owners : p = q
            /\ Owners = {} \/ Readers = {}

(* How far the buffer is ahead of the completed sections, stage by stage.    *)
DataInv == /\ lockWord.x = 0 => data = commits
           /\ \A p \in Procs :
                /\ put[p] # NoPut => pc[p] = "putX"
                /\ pc[p] \in {"ownX", "readX"} => data = commits
                /\ pc[p] = "readX" => got[p] = data
                /\ pc[p] = "putX" =>
                     IF put[p] = NoPut THEN data = Inc(commits)
                                       ELSE data = commits /\ put[p] = Inc(commits)
                /\ pc[p] = "flushedX" => data = Inc(commits)

LockInv == TypeOK /\ CountInv /\ OwnerInv /\ DataInv /\ UnlockNeverFails
=============================================================================
