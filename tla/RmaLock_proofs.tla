--------------------------- MODULE RmaLock_proofs ---------------------------
(* Proofs about RmaLock for any finite set of ranks: the lock word stays     *)
(* consistent with what the ranks are doing, hence mutual exclusion, no      *)
(* failing unlock, no lost update and stable shared reads.                   *)
EXTENDS RmaLock, FiniteSetTheorems, TLAPS

(* The set of registered readers is finite and its cardinality a natural.    *)
LEMMA RegisteredFinite == IsFiniteSet(Registered) /\ Cardinality(Registered) \in Nat
<1>1. Registered \in SUBSET Procs
  BY DEF Registered
<1>2. IsFiniteSet(Registered)
  BY <1>1, FS_Subset, ProcsFinite
<1> QED
  BY <1>2, FS_CardinalityType

(* Inc stays within the bound.                                               *)
LEMMA IncType == \A v \in Values : Inc(v) \in Values
BY ModulusPositive DEF Inc, Values

(* The initial lock word is that of a window no rank has locked.              *)
LEMMA InitInv == Init => LockInv
<1> SUFFICES ASSUME Init PROVE LockInv
  OBVIOUS
<1>1. TypeOK
  <2>1. 0 \in Values
    BY ModulusPositive DEF Values
  <2>2. lockWord \in [x : {0, 1}, r : Nat]
    BY DEF Init
  <2> QED
    BY <2>1, <2>2 DEF Init, TypeOK, PCs
<1>2. CountInv
  <2>1. Registered = {}
    BY DEF Init, Registered
  <2> QED
    BY <2>1, FS_EmptySet DEF Init, CountInv
<1>3. OwnerInv
  BY DEF Init, OwnerInv, Owners, Readers
<1>4. DataInv
  BY DEF Init, DataInv, NoPut
<1>5. UnlockNeverFails
  BY DEF Init, UnlockNeverFails
<1> QED
  BY <1>1, <1>2, <1>3, <1>4, <1>5 DEF LockInv

(* Every step keeps the variables in their types.                            *)
LEMMA TypeStep == LockInv /\ [Next]_vars => TypeOK'
<1> SUFFICES ASSUME LockInv, [Next]_vars PROVE TypeOK'
  OBVIOUS
<1> USE IncType DEF TypeOK, PCs
<1>0. TypeOK /\ CountInv /\ DataInv
  BY DEF LockInv
<1>1. ASSUME NEW p \in Procs, StartExclusive(p) PROVE TypeOK'
  BY <1>0, <1>1 DEF StartExclusive
<1>2. ASSUME NEW p \in Procs, TryLockExclusive(p) PROVE TypeOK'
  BY <1>0, <1>2 DEF TryLockExclusive
<1>3. ASSUME NEW p \in Procs, GetExclusive(p) PROVE TypeOK'
  BY <1>0, <1>3 DEF GetExclusive
<1>4. ASSUME NEW p \in Procs, PutExclusive(p) PROVE TypeOK'
  BY <1>0, <1>4 DEF PutExclusive
<1>5. ASSUME NEW p \in Procs, PutLands(p) PROVE TypeOK'
  BY <1>0, <1>5 DEF PutLands
<1>6. ASSUME NEW p \in Procs, FlushBeforeUnlock(p) PROVE TypeOK'
  BY <1>0, <1>6 DEF FlushBeforeUnlock
<1>7. ASSUME NEW p \in Procs, UnlockExclusive(p) PROVE TypeOK'
  BY <1>0, <1>7 DEF UnlockExclusive, LowHalfCleared
<1>8. ASSUME NEW p \in Procs, LockSharedFirst(p) PROVE TypeOK'
  BY <1>0, <1>8 DEF LockSharedFirst, PlusReader
<1>9. ASSUME NEW p \in Procs, LockSharedRetry(p) PROVE TypeOK'
  BY <1>0, <1>9 DEF LockSharedRetry
<1>10. ASSUME NEW p \in Procs, Get(p) PROVE TypeOK'
  BY <1>0, <1>10 DEF Get
<1>11. ASSUME NEW p \in Procs, UnlockShared(p) PROVE TypeOK'
  <2>1. p \in Registered
    BY <1>11 DEF UnlockShared, Registered
  <2>2. Cardinality(Registered) # 0
    BY <2>1, RegisteredFinite, FS_EmptySet
  <2>3. lockWord.r - 1 \in Nat
    BY <1>0, <2>2, RegisteredFinite DEF CountInv
  <2> QED
    BY <1>0, <1>11, <2>3 DEF UnlockShared
<1>12. CASE UNCHANGED vars
  BY <1>0, <1>12 DEF vars
<1> QED
  BY <1>1, <1>2, <1>3, <1>4, <1>5, <1>6, <1>7, <1>8, <1>9, <1>10, <1>11, <1>12
     DEF Next

(* Every step keeps the high half equal to the number of registered readers. *)
LEMMA CountStep == LockInv /\ [Next]_vars => CountInv'
<1> SUFFICES ASSUME LockInv, [Next]_vars PROVE CountInv'
  OBVIOUS
<1> USE DEF CountInv, TypeOK
<1>0. TypeOK /\ CountInv
  BY DEF LockInv
<1>a. ASSUME Registered' = Registered, lockWord'.r = lockWord.r PROVE CountInv'
  BY <1>0, <1>a
<1>1. ASSUME NEW p \in Procs, StartExclusive(p) PROVE CountInv'
  BY <1>0, <1>1, <1>a DEF StartExclusive, Registered
<1>2. ASSUME NEW p \in Procs, TryLockExclusive(p) PROVE CountInv'
  BY <1>0, <1>2, <1>a DEF TryLockExclusive, Registered
<1>3. ASSUME NEW p \in Procs, GetExclusive(p) PROVE CountInv'
  BY <1>0, <1>3, <1>a DEF GetExclusive, Registered
<1>4. ASSUME NEW p \in Procs, PutExclusive(p) PROVE CountInv'
  BY <1>0, <1>4, <1>a DEF PutExclusive, Registered
<1>5. ASSUME NEW p \in Procs, PutLands(p) PROVE CountInv'
  BY <1>0, <1>5, <1>a DEF PutLands, Registered
<1>6. ASSUME NEW p \in Procs, FlushBeforeUnlock(p) PROVE CountInv'
  BY <1>0, <1>6, <1>a DEF FlushBeforeUnlock, Registered
<1>7. ASSUME NEW p \in Procs, UnlockExclusive(p) PROVE CountInv'
  BY <1>0, <1>7, <1>a DEF UnlockExclusive, LowHalfCleared, Registered
<1>8. ASSUME NEW p \in Procs, LockSharedFirst(p) PROVE CountInv'
  <2>1. p \notin Registered /\ Registered' = Registered \cup {p}
    BY <1>0, <1>8 DEF LockSharedFirst, Registered
  <2>2. Cardinality(Registered') = Cardinality(Registered) + 1
    BY <2>1, FS_AddElement, RegisteredFinite
  <2> QED
    BY <1>0, <1>8, <2>2 DEF LockSharedFirst, PlusReader
<1>9. ASSUME NEW p \in Procs, LockSharedRetry(p) PROVE CountInv'
  BY <1>0, <1>9, <1>a DEF LockSharedRetry, Registered
<1>10. ASSUME NEW p \in Procs, Get(p) PROVE CountInv'
  BY <1>0, <1>10, <1>a DEF Get, Registered
<1>11. ASSUME NEW p \in Procs, UnlockShared(p) PROVE CountInv'
  <2>1. p \in Registered /\ Registered' = Registered \ {p}
    BY <1>0, <1>11 DEF UnlockShared, Registered
  <2>2. Cardinality(Registered') = Cardinality(Registered) - 1
    BY <2>1, FS_RemoveElement, RegisteredFinite
  <2> QED
    BY <1>0, <1>11, <2>2 DEF UnlockShared
<1>12. CASE UNCHANGED vars
  BY <1>0, <1>12, <1>a DEF vars, Registered
<1> QED
  BY <1>1, <1>2, <1>3, <1>4, <1>5, <1>6, <1>7, <1>8, <1>9, <1>10, <1>11, <1>12
     DEF Next

(* Every step keeps the exclusive bit, its owner and the readers apart, and  *)
(* a release always finds the bit set.                                       *)
LEMMA OwnerStep == LockInv /\ [Next]_vars => OwnerInv' /\ UnlockNeverFails'
<1> SUFFICES ASSUME LockInv, [Next]_vars PROVE OwnerInv' /\ UnlockNeverFails'
  OBVIOUS
<1> USE DEF OwnerInv, UnlockNeverFails, TypeOK
<1>0. TypeOK /\ CountInv /\ OwnerInv /\ UnlockNeverFails
  BY DEF LockInv
<1>a. ASSUME Owners' = Owners, Readers' = Readers,
             lockWord'.x = lockWord.x, badState' = badState
      PROVE  OwnerInv' /\ UnlockNeverFails'
  BY <1>0, <1>a
<1>1. ASSUME NEW p \in Procs, StartExclusive(p) PROVE OwnerInv' /\ UnlockNeverFails'
  BY <1>0, <1>1, <1>a DEF StartExclusive, Owners, Readers
<1>2. ASSUME NEW p \in Procs, TryLockExclusive(p) PROVE OwnerInv' /\ UnlockNeverFails'
  <2>1. Registered = {}
    BY <1>0, <1>2, RegisteredFinite, FS_EmptySet DEF TryLockExclusive, WordFree, CountInv
  <2>2. Readers = {} /\ Owners = {}
    BY <1>0, <1>2, <2>1 DEF TryLockExclusive, WordFree, Readers, Registered
  <2>3. Readers' = {} /\ Owners' = {p}
    BY <1>0, <1>2, <2>2 DEF TryLockExclusive, Readers, Owners
  <2> QED
    BY <1>0, <1>2, <2>3 DEF TryLockExclusive
<1>3. ASSUME NEW p \in Procs, GetExclusive(p) PROVE OwnerInv' /\ UnlockNeverFails'
  BY <1>0, <1>3, <1>a DEF GetExclusive, Owners, Readers
<1>4. ASSUME NEW p \in Procs, PutExclusive(p) PROVE OwnerInv' /\ UnlockNeverFails'
  BY <1>0, <1>4, <1>a DEF PutExclusive, Owners, Readers
<1>5. ASSUME NEW p \in Procs, PutLands(p) PROVE OwnerInv' /\ UnlockNeverFails'
  BY <1>0, <1>5, <1>a DEF PutLands, Owners, Readers
<1>6. ASSUME NEW p \in Procs, FlushBeforeUnlock(p) PROVE OwnerInv' /\ UnlockNeverFails'
  BY <1>0, <1>6, <1>a DEF FlushBeforeUnlock, Owners, Readers
<1>7. ASSUME NEW p \in Procs, UnlockExclusive(p) PROVE OwnerInv' /\ UnlockNeverFails'
  <2>1. Owners = {p} /\ lockWord.x = 1
    BY <1>0, <1>7 DEF UnlockExclusive, Owners
  <2>2. Owners' = {} /\ Readers' = Readers
    BY <1>0, <1>7, <2>1 DEF UnlockExclusive, Owners, Readers
  <2> QED
    BY <1>0, <1>7, <2>1, <2>2 DEF UnlockExclusive, LowHalfCleared
<1>8. ASSUME NEW p \in Procs, LockSharedFirst(p) PROVE OwnerInv' /\ UnlockNeverFails'
  <2>1. Owners' = Owners /\ lockWord'.x = lockWord.x /\ badState' = badState
    BY <1>0, <1>8 DEF LockSharedFirst, PlusReader, Owners
  <2>2. lockWord.x = 0 \/ Readers' = Readers
    BY <1>0, <1>8 DEF LockSharedFirst, NoWriter, Readers
  <2> QED
    BY <1>0, <2>1, <2>2
<1>9. ASSUME NEW p \in Procs, LockSharedRetry(p) PROVE OwnerInv' /\ UnlockNeverFails'
  <2>1. Owners' = Owners /\ lockWord'.x = lockWord.x /\ badState' = badState
    BY <1>0, <1>9 DEF LockSharedRetry, Owners
  <2>2. lockWord.x = 0
    BY <1>9 DEF LockSharedRetry, NoWriter
  <2> QED
    BY <1>0, <2>1, <2>2
<1>10. ASSUME NEW p \in Procs, Get(p) PROVE OwnerInv' /\ UnlockNeverFails'
  BY <1>0, <1>10, <1>a DEF Get, Owners, Readers
<1>11. ASSUME NEW p \in Procs, UnlockShared(p) PROVE OwnerInv' /\ UnlockNeverFails'
  <2>1. /\ Owners' = Owners /\ lockWord'.x = lockWord.x /\ badState' = badState
        /\ Readers' \subseteq Readers
    BY <1>0, <1>11 DEF UnlockShared, Owners, Readers
  <2> QED
    BY <1>0, <2>1
<1>12. CASE UNCHANGED vars
  BY <1>0, <1>12, <1>a DEF vars, Owners, Readers
<1> QED
  BY <1>1, <1>2, <1>3, <1>4, <1>5, <1>6, <1>7, <1>8, <1>9, <1>10, <1>11, <1>12
     DEF Next

(* Every step keeps the buffer in step with the completed sections.          *)
LEMMA DataStep == LockInv /\ [Next]_vars => DataInv'
<1> SUFFICES ASSUME LockInv, [Next]_vars PROVE DataInv'
  OBVIOUS
<1> USE IncType DEF DataInv, TypeOK, NoPut
<1>0. TypeOK /\ OwnerInv /\ DataInv
  BY DEF LockInv
<1>b. \A v \in Values : Inc(v) # -1
  BY DEF Values
<1>1. ASSUME NEW p \in Procs, StartExclusive(p) PROVE DataInv'
  BY <1>0, <1>1 DEF StartExclusive
<1>2. ASSUME NEW p \in Procs, TryLockExclusive(p) PROVE DataInv'
  BY <1>0, <1>2 DEF TryLockExclusive, WordFree
<1>3. ASSUME NEW p \in Procs, GetExclusive(p) PROVE DataInv'
  BY <1>0, <1>3 DEF GetExclusive
<1>4. ASSUME NEW p \in Procs, PutExclusive(p) PROVE DataInv'
  BY <1>0, <1>4, <1>b DEF PutExclusive
<1>5. ASSUME NEW p \in Procs, PutLands(p) PROVE DataInv'
  <2>1. pc[p] = "putX" /\ data = commits /\ put[p] = Inc(commits)
    BY <1>0, <1>5 DEF PutLands
  <2>2. \A q \in Procs : q # p => pc[q] \notin {"ownX", "readX", "putX", "flushedX"}
    BY <1>0, <2>1 DEF OwnerInv, Owners
  <2>3. lockWord.x = 1
    BY <1>0, <2>1 DEF OwnerInv, Owners
  <2> QED
    BY <1>0, <1>5, <2>1, <2>2, <2>3 DEF PutLands
<1>6. ASSUME NEW p \in Procs, FlushBeforeUnlock(p) PROVE DataInv'
  BY <1>0, <1>6 DEF FlushBeforeUnlock, Flushed
<1>7. ASSUME NEW p \in Procs, UnlockExclusive(p) PROVE DataInv'
  <2>1. data = Inc(commits)
    BY <1>0, <1>7 DEF UnlockExclusive
  <2>2. \A q \in Procs : q # p => pc[q] \notin {"ownX", "readX", "putX", "flushedX"}
    BY <1>0, <1>7 DEF UnlockExclusive, OwnerInv, Owners
  <2> QED
    BY <1>0, <1>7, <2>1, <2>2 DEF UnlockExclusive
<1>8. ASSUME NEW p \in Procs, LockSharedFirst(p) PROVE DataInv'
  BY <1>0, <1>8 DEF LockSharedFirst, PlusReader
<1>9. ASSUME NEW p \in Procs, LockSharedRetry(p) PROVE DataInv'
  BY <1>0, <1>9 DEF LockSharedRetry
<1>10. ASSUME NEW p \in Procs, Get(p) PROVE DataInv'
  BY <1>0, <1>10 DEF Get
<1>11. ASSUME NEW p \in Procs, UnlockShared(p) PROVE DataInv'
  BY <1>0, <1>11 DEF UnlockShared
<1>12. CASE UNCHANGED vars
  BY <1>0, <1>12 DEF vars
<1> QED
  BY <1>1, <1>2, <1>3, <1>4, <1>5, <1>6, <1>7, <1>8, <1>9, <1>10, <1>11, <1>12
     DEF Next

(* LockInv is an invariant of the lock, for any finite set of ranks.         *)
THEOREM LockInvariant == Spec => []LockInv
<1>1. LockInv /\ [Next]_vars => LockInv'
  BY TypeStep, CountStep, OwnerStep, DataStep DEF LockInv
<1> QED
  BY InitInv, <1>1, PTL DEF Spec

(* The variables of the lock keep their types; in particular the reader      *)
(* count never goes below zero.                                              *)
THEOREM TypeCorrect == Spec => []TypeOK
<1>1. LockInv => TypeOK
  BY DEF LockInv
<1> QED
  BY LockInvariant, <1>1, PTL

(* A rank in an exclusive section is alone in the window.                    *)
THEOREM MutualExclusion == Spec => []Exclusion
<1>1. LockInv => Exclusion
  BY DEF LockInv, OwnerInv, Exclusion
<1> QED
  BY LockInvariant, <1>1, PTL

(* The "bad state" ERROR of unlockExclusive is unreachable.                  *)
THEOREM UnlockSucceeds == Spec => []UnlockNeverFails
<1>1. LockInv => UnlockNeverFails
  BY DEF LockInv
<1> QED
  BY LockInvariant, <1>1, PTL

(* The buffer carries every completed section whenever no writer is inside.  *)
THEOREM UpdatesKept == Spec => []NoLostUpdate
<1>1. LockInv => NoLostUpdate
  BY DEF LockInv, DataInv, NoLostUpdate
<1> QED
  BY LockInvariant, <1>1, PTL

(* The buffer does not change under a reader inside its shared section.      *)
THEOREM SharedReadsStable == Spec => StableWhileShared
<1>1. ASSUME LockInv, [Next]_vars
      PROVE  [Readers # {} /\ Readers' # {} => data' = data]_vars
  <2> SUFFICES ASSUME Next, Readers # {} PROVE data' = data
    BY <1>1
  <2>1. Owners = {}
    BY <1>1 DEF LockInv, OwnerInv
  <2>2. \A p \in Procs : put[p] = NoPut
    BY <1>1, <2>1 DEF LockInv, DataInv, Owners
  <2> QED
    BY <2>2 DEF Next, StartExclusive, TryLockExclusive, GetExclusive, PutExclusive,
                PutLands, FlushBeforeUnlock, UnlockExclusive, LockSharedFirst,
                LockSharedRetry, Get, UnlockShared
<1> QED
  BY LockInvariant, <1>1, PTL DEF Spec, StableWhileShared
=============================================================================
