--------------------------- MODULE JsonStoreProofs ---------------------------
(***************************************************************************)
(* Proofs about JsonStore for every set of workers, identities and paths.  *)
(* The invariants are layered: types, then who holds which lock, then what *)
(* a worker's copy has to do with the file it was read from.  The last     *)
(* layer carries the refinement of AffectRegister.                         *)
(***************************************************************************)
EXTENDS JsonStore, TLAPS

USE PathOfAssumption, MaxAgeAssumption, ContentsAssumption,
    NoneAssumption, OrphanAssumption, BoundsAssumption

USE DEF Places, Locked, Waiting, Goto, Return, Begin

\* Types and addresses are kept by every step.
LEMMA TypeStep ==
  ASSUME TypeOK, CallAddressed, [Next]_vars
  PROVE  (TypeOK /\ CallAddressed)'
<1> USE DEF TypeOK, CallAddressed
<1>1. ASSUME NEW w \in Workers, NEW i \in Identities, NEW r \in KnownRevisions,
             StartMutate(w, i, r)
      PROVE  (TypeOK /\ CallAddressed)'
  BY <1>1 DEF StartMutate, KnownRevisions
<1>2. ASSUME NEW w \in Workers, NEW i \in Identities, NEW r \in SavedRevisions,
             StartSave(w, i, r)
      PROVE  (TypeOK /\ CallAddressed)'
  BY <1>2 DEF StartSave, SavedRevisions, Fresh, States, Contents
<1>3. ASSUME NEW w \in Workers, NEW excluded, StartCollect(w, excluded)
      PROVE  (TypeOK /\ CallAddressed)'
  BY <1>3 DEF StartCollect
<1>4. ASSUME NEW w \in Workers, NEW p \in Paths, ExamineSkip(w, p)
      PROVE  (TypeOK /\ CallAddressed)'
  BY <1>4 DEF ExamineSkip
<1>5. ASSUME NEW w \in Workers, NEW p \in Paths, ExamineExpired(w, p)
      PROVE  (TypeOK /\ CallAddressed)'
  BY <1>5 DEF ExamineExpired
<1>6. ASSUME NEW w \in Workers, LockWriteFails(w)
      PROVE  (TypeOK /\ CallAddressed)'
  BY <1>6 DEF LockWriteFails
<1>7. ASSUME NEW w \in Workers, LockTimesOut(w)
      PROVE  (TypeOK /\ CallAddressed)'
  BY <1>7 DEF LockTimesOut
<1>8. ASSUME NEW w \in Workers, Unlock(w)
      PROVE  (TypeOK /\ CallAddressed)'
  BY <1>8 DEF Unlock, RemoveLock
<1>9. ASSUME NEW w \in Workers, AcquireForMutate(w)
      PROVE  (TypeOK /\ CallAddressed)'
  BY <1>9 DEF AcquireForMutate, CreateLock
<1>10. ASSUME NEW w \in Workers, Read(w)
      PROVE  (TypeOK /\ CallAddressed)'
  BY <1>10 DEF Read, Acceptable
<1>11. ASSUME NEW w \in Workers, ReadRefused(w)
      PROVE  (TypeOK /\ CallAddressed)'
  BY <1>11 DEF ReadRefused
<1>12. ASSUME NEW w \in Workers, MutateCopy(w)
      PROVE  (TypeOK /\ CallAddressed)'
  BY <1>12 DEF MutateCopy, Changed, States
<1>13. ASSUME NEW w \in Workers, MutateNothing(w)
      PROVE  (TypeOK /\ CallAddressed)'
  BY <1>13 DEF MutateNothing
<1>14. ASSUME NEW w \in Workers, Write(w)
      PROVE  (TypeOK /\ CallAddressed)'
  BY <1>14 DEF Write, Contents
<1>15. ASSUME NEW w \in Workers, WriteFails(w)
      PROVE  (TypeOK /\ CallAddressed)'
  BY <1>15 DEF WriteFails
<1>16. ASSUME NEW w \in Workers, AcquireForSave(w)
      PROVE  (TypeOK /\ CallAddressed)'
  BY <1>16 DEF AcquireForSave, CreateLock
<1>17. ASSUME NEW w \in Workers, SaveWrite(w)
      PROVE  (TypeOK /\ CallAddressed)'
  BY <1>17 DEF SaveWrite, Contents
<1>18. ASSUME NEW w \in Workers, CollectBusy(w)
      PROVE  (TypeOK /\ CallAddressed)'
  BY <1>18 DEF CollectBusy
<1>19. ASSUME NEW w \in Workers, AcquireForCollect(w)
      PROVE  (TypeOK /\ CallAddressed)'
  BY <1>19 DEF AcquireForCollect, CreateLock
<1>20. ASSUME NEW w \in Workers, Recheck(w)
      PROVE  (TypeOK /\ CallAddressed)'
  BY <1>20 DEF Recheck
<1>21. ASSUME NEW w \in Workers, Unlink(w)
      PROVE  (TypeOK /\ CallAddressed)'
  BY <1>21 DEF Unlink, Contents
<1>22. ASSUME NEW w \in Workers, UnlinkFails(w)
      PROVE  (TypeOK /\ CallAddressed)'
  BY <1>22 DEF UnlinkFails
<1>23. ASSUME NEW w \in Workers, UnlockScan(w)
      PROVE  (TypeOK /\ CallAddressed)'
  BY <1>23 DEF UnlockScan, RemoveLock
<1>24. ASSUME NEW w \in Workers, CollectDone(w)
      PROVE  (TypeOK /\ CallAddressed)'
  BY <1>24 DEF CollectDone
<1>25. ASSUME NEW w \in Workers, Crash(w)
      PROVE  (TypeOK /\ CallAddressed)'
  BY <1>25 DEF Crash
<1>26. ASSUME NEW p \in Paths, ClearOrphan(p)
      PROVE  (TypeOK /\ CallAddressed)'
  BY <1>26 DEF ClearOrphan, local
<1>27. ASSUME Tick
      PROVE  (TypeOK /\ CallAddressed)'
  BY <1>27 DEF Tick, local
<1>28. ASSUME UNCHANGED vars
      PROVE  (TypeOK /\ CallAddressed)'
  BY <1>28 DEF vars, local
<1> QED
  BY <1>1, <1>2, <1>3, <1>4, <1>5, <1>6, <1>7, <1>8, <1>9, <1>10, <1>11, <1>12, <1>13, <1>14, <1>15, <1>16, <1>17, <1>18, <1>19, <1>20, <1>21, <1>22, <1>23, <1>24, <1>25, <1>26, <1>27, <1>28 DEF Next, Start, Step, Fault

\* A lock file stays with its creator.
LEMMA LockStep ==
  ASSUME TypeOK, CallAddressed, LockHeld, [Next]_vars
  PROVE  LockHeld'
<1> USE DEF TypeOK, CallAddressed, LockHeld
<1>1. ASSUME NEW w \in Workers, NEW i \in Identities, NEW r \in KnownRevisions,
             StartMutate(w, i, r)
      PROVE  LockHeld'
  BY <1>1 DEF StartMutate
<1>2. ASSUME NEW w \in Workers, NEW i \in Identities, NEW r \in SavedRevisions,
             StartSave(w, i, r)
      PROVE  LockHeld'
  BY <1>2 DEF StartSave
<1>3. ASSUME NEW w \in Workers, NEW excluded, StartCollect(w, excluded)
      PROVE  LockHeld'
  BY <1>3 DEF StartCollect
<1>4. ASSUME NEW w \in Workers, NEW p \in Paths, ExamineSkip(w, p)
      PROVE  LockHeld'
  BY <1>4 DEF ExamineSkip
<1>5. ASSUME NEW w \in Workers, NEW p \in Paths, ExamineExpired(w, p)
      PROVE  LockHeld'
  BY <1>5 DEF ExamineExpired
<1>6. ASSUME NEW w \in Workers, LockWriteFails(w)
      PROVE  LockHeld'
  BY <1>6 DEF LockWriteFails
<1>7. ASSUME NEW w \in Workers, LockTimesOut(w)
      PROVE  LockHeld'
  BY <1>7 DEF LockTimesOut
<1>8. ASSUME NEW w \in Workers, Unlock(w)
      PROVE  LockHeld'
  BY <1>8 DEF Unlock, RemoveLock
<1>9. ASSUME NEW w \in Workers, AcquireForMutate(w)
      PROVE  LockHeld'
  BY <1>9 DEF AcquireForMutate, CreateLock
<1>10. ASSUME NEW w \in Workers, Read(w)
      PROVE  LockHeld'
  BY <1>10 DEF Read
<1>11. ASSUME NEW w \in Workers, ReadRefused(w)
      PROVE  LockHeld'
  BY <1>11 DEF ReadRefused
<1>12. ASSUME NEW w \in Workers, MutateCopy(w)
      PROVE  LockHeld'
  BY <1>12 DEF MutateCopy
<1>13. ASSUME NEW w \in Workers, MutateNothing(w)
      PROVE  LockHeld'
  BY <1>13 DEF MutateNothing
<1>14. ASSUME NEW w \in Workers, Write(w)
      PROVE  LockHeld'
  BY <1>14 DEF Write
<1>15. ASSUME NEW w \in Workers, WriteFails(w)
      PROVE  LockHeld'
  BY <1>15 DEF WriteFails
<1>16. ASSUME NEW w \in Workers, AcquireForSave(w)
      PROVE  LockHeld'
  BY <1>16 DEF AcquireForSave, CreateLock
<1>17. ASSUME NEW w \in Workers, SaveWrite(w)
      PROVE  LockHeld'
  BY <1>17 DEF SaveWrite
<1>18. ASSUME NEW w \in Workers, CollectBusy(w)
      PROVE  LockHeld'
  BY <1>18 DEF CollectBusy
<1>19. ASSUME NEW w \in Workers, AcquireForCollect(w)
      PROVE  LockHeld'
  BY <1>19 DEF AcquireForCollect, CreateLock
<1>20. ASSUME NEW w \in Workers, Recheck(w)
      PROVE  LockHeld'
  BY <1>20 DEF Recheck
<1>21. ASSUME NEW w \in Workers, Unlink(w)
      PROVE  LockHeld'
  BY <1>21 DEF Unlink
<1>22. ASSUME NEW w \in Workers, UnlinkFails(w)
      PROVE  LockHeld'
  BY <1>22 DEF UnlinkFails
<1>23. ASSUME NEW w \in Workers, UnlockScan(w)
      PROVE  LockHeld'
  BY <1>23 DEF UnlockScan, RemoveLock
<1>24. ASSUME NEW w \in Workers, CollectDone(w)
      PROVE  LockHeld'
  BY <1>24 DEF CollectDone
<1>25. ASSUME NEW w \in Workers, Crash(w)
      PROVE  LockHeld'
  BY <1>25 DEF Crash
<1>26. ASSUME NEW p \in Paths, ClearOrphan(p)
      PROVE  LockHeld'
  BY <1>26 DEF ClearOrphan, local
<1>27. ASSUME Tick
      PROVE  LockHeld'
  BY <1>27 DEF Tick, local
<1>28. ASSUME UNCHANGED vars
      PROVE  LockHeld'
  BY <1>28 DEF vars, local
<1> QED
  BY <1>1, <1>2, <1>3, <1>4, <1>5, <1>6, <1>7, <1>8, <1>9, <1>10, <1>11, <1>12, <1>13, <1>14, <1>15, <1>16, <1>17, <1>18, <1>19, <1>20, <1>21, <1>22, <1>23, <1>24, <1>25, <1>26, <1>27, <1>28 DEF Next, Start, Step, Fault

\* What is known under the lock, and what the files contain.
ContentInv ==
  /\ \A w \in Workers : UnderLock(w)
  /\ FilesCurrent
  /\ NoLostMutation

LEMMA ContentStep ==
  ASSUME TypeOK, CallAddressed, LockHeld, ContentInv, [Next]_vars
  PROVE  ContentInv'
<1> USE DEF TypeOK, CallAddressed, LockHeld, ContentInv, UnderLock, FilesCurrent, NoLostMutation,
            Acceptable, ChangeOf
<1>1. ASSUME NEW w \in Workers, NEW i \in Identities, NEW r \in KnownRevisions,
             StartMutate(w, i, r)
      PROVE  ContentInv'
  BY <1>1 DEF StartMutate, KnownRevisions
<1>2. ASSUME NEW w \in Workers, NEW i \in Identities, NEW r \in SavedRevisions,
             StartSave(w, i, r)
      PROVE  ContentInv'
  BY <1>2 DEF StartSave, SavedRevisions, Fresh, States
<1>3. ASSUME NEW w \in Workers, NEW excluded, StartCollect(w, excluded)
      PROVE  ContentInv'
  BY <1>3 DEF StartCollect
<1>4. ASSUME NEW w \in Workers, NEW p \in Paths, ExamineSkip(w, p)
      PROVE  ContentInv'
  BY <1>4 DEF ExamineSkip
<1>5. ASSUME NEW w \in Workers, NEW p \in Paths, ExamineExpired(w, p)
      PROVE  ContentInv'
  BY <1>5 DEF ExamineExpired
<1>6. ASSUME NEW w \in Workers, LockWriteFails(w)
      PROVE  ContentInv'
  BY <1>6 DEF LockWriteFails
<1>7. ASSUME NEW w \in Workers, LockTimesOut(w)
      PROVE  ContentInv'
  BY <1>7 DEF LockTimesOut
<1>8. ASSUME NEW w \in Workers, Unlock(w)
      PROVE  ContentInv'
  BY <1>8 DEF Unlock, RemoveLock
<1>9. ASSUME NEW w \in Workers, AcquireForMutate(w)
      PROVE  ContentInv'
  BY <1>9 DEF AcquireForMutate, CreateLock
<1>10. ASSUME NEW w \in Workers, Read(w)
      PROVE  ContentInv'
  BY <1>10 DEF Read
<1>11. ASSUME NEW w \in Workers, ReadRefused(w)
      PROVE  ContentInv'
  BY <1>11 DEF ReadRefused
<1>12. ASSUME NEW w \in Workers, MutateCopy(w)
      PROVE  ContentInv'
  BY <1>12 DEF MutateCopy, Changed, States
<1>13. ASSUME NEW w \in Workers, MutateNothing(w)
      PROVE  ContentInv'
  BY <1>13 DEF MutateNothing
<1>14. ASSUME NEW w \in Workers, Write(w)
      PROVE  ContentInv'
  BY <1>14 DEF Write, States, Expired
<1>15. ASSUME NEW w \in Workers, WriteFails(w)
      PROVE  ContentInv'
  BY <1>15 DEF WriteFails
<1>16. ASSUME NEW w \in Workers, AcquireForSave(w)
      PROVE  ContentInv'
  BY <1>16 DEF AcquireForSave, CreateLock
<1>17. ASSUME NEW w \in Workers, SaveWrite(w)
      PROVE  ContentInv'
  BY <1>17 DEF SaveWrite, States, Fresh, Expired
<1>18. ASSUME NEW w \in Workers, CollectBusy(w)
      PROVE  ContentInv'
  BY <1>18 DEF CollectBusy
<1>19. ASSUME NEW w \in Workers, AcquireForCollect(w)
      PROVE  ContentInv'
  BY <1>19 DEF AcquireForCollect, CreateLock
<1>20. ASSUME NEW w \in Workers, Recheck(w)
      PROVE  ContentInv'
  BY <1>20 DEF Recheck
<1>21. ASSUME NEW w \in Workers, Unlink(w)
      PROVE  ContentInv'
  BY <1>21 DEF Unlink, Expired
<1>22. ASSUME NEW w \in Workers, UnlinkFails(w)
      PROVE  ContentInv'
  BY <1>22 DEF UnlinkFails
<1>23. ASSUME NEW w \in Workers, UnlockScan(w)
      PROVE  ContentInv'
  BY <1>23 DEF UnlockScan, RemoveLock
<1>24. ASSUME NEW w \in Workers, CollectDone(w)
      PROVE  ContentInv'
  BY <1>24 DEF CollectDone
<1>25. ASSUME NEW w \in Workers, Crash(w)
      PROVE  ContentInv'
  BY <1>25 DEF Crash
<1>26. ASSUME NEW p \in Paths, ClearOrphan(p)
      PROVE  ContentInv'
  BY <1>26 DEF ClearOrphan, local
<1>27. ASSUME Tick
      PROVE  ContentInv'
  BY <1>27 DEF Tick, local, Expired, States
<1>28. ASSUME UNCHANGED vars
      PROVE  ContentInv'
  BY <1>28 DEF vars, local
<1> QED
  BY <1>1, <1>2, <1>3, <1>4, <1>5, <1>6, <1>7, <1>8, <1>9, <1>10, <1>11, <1>12, <1>13, <1>14, <1>15, <1>16, <1>17, <1>18, <1>19, <1>20, <1>21, <1>22, <1>23, <1>24, <1>25, <1>26, <1>27, <1>28 DEF Next, Start, Step, Fault

\* The inductive invariant holds in every reachable state of every instance.
THEOREM IndInvariant == Spec => []IndInv
<1>1. Init => IndInv
  BY DEF Init, IndInv, TypeOK, CallAddressed, LockHeld, UnderLock, FilesCurrent,
         NoLostMutation, Contents, States, Fresh
<1>2. IndInv /\ [Next]_vars => IndInv'
  BY TypeStep, LockStep, ContentStep DEF IndInv, ContentInv
<1> QED
  BY <1>1, <1>2, PTL DEF Spec

\* Every variable of the store keeps its type: in particular an idle worker has
\* no path, and a worker that is past its check has a snapshot of that path.
THEOREM TypeCorrect == Spec => []TypeOK
<1>1. IndInv => TypeOK
  BY DEF IndInv
<1> QED
  BY <1>1, IndInvariant, PTL

\* Two workers are never inside the lock of the same state file.
THEOREM Exclusion == Spec => []MutualExclusion
<1>1. IndInv => MutualExclusion
  BY DEF IndInv, LockHeld, MutualExclusion
<1> QED
  BY <1>1, IndInvariant, PTL

\* Every committed mutation is contained in what the file holds.
THEOREM NoMutationLost == Spec => []NoLostMutation
<1>1. IndInv => NoLostMutation
  BY DEF IndInv
<1> QED
  BY <1>1, IndInvariant, PTL

\* The steps that another process can see change in the state files.
LEMMA VisibleSteps ==
  ASSUME [Next]_vars
  PROVE  \/ \E w \in Workers : Write(w) \/ SaveWrite(w) \/ Unlink(w)
         \/ Tick
         \/ UNCHANGED <<file, now>>
<1>1. ASSUME NEW w \in Workers, Start(w)
      PROVE  UNCHANGED <<file, now>>
  BY <1>1 DEF Start, StartMutate, StartSave, StartCollect
<1>2. ASSUME NEW w \in Workers, Step(w)
      PROVE  Write(w) \/ SaveWrite(w) \/ Unlink(w) \/ UNCHANGED <<file, now>>
  BY <1>2 DEF Step, LockTimesOut, Unlock, AcquireForMutate, Read, ReadRefused, MutateCopy,
              MutateNothing, AcquireForSave, ExamineSkip, ExamineExpired, CollectBusy,
              AcquireForCollect, Recheck, UnlockScan, CollectDone
<1>3. ASSUME NEW w \in Workers, Fault(w)
      PROVE  UNCHANGED <<file, now>>
  BY <1>3 DEF Fault, LockWriteFails, WriteFails, UnlinkFails, Crash
<1>4. ASSUME NEW p \in Paths, ClearOrphan(p)
      PROVE  UNCHANGED <<file, now>>
  BY <1>4 DEF ClearOrphan
<1>5. CASE UNCHANGED vars
  BY <1>5 DEF vars
<1> QED
  BY <1>1, <1>2, <1>3, <1>4, <1>5 DEF Next

\* A commit meets the identity and the revision its call asked for.
THEOREM MutationsExact == Spec => ExactMutation
<1>1. IndInv => \A w \in Workers :
                  pc[w] = "write" => Acceptable(file[target[w]], id[w], expected[w])
  BY DEF IndInv, UnderLock
<1>2. IndInv /\ [Next]_vars =>
        [\A w \in Workers :
           pc[w] = "write" /\ file' # file =>
             Acceptable(file[target[w]], id[w], expected[w])]_vars
  BY <1>1
<1> QED
  BY <1>2, IndInvariant, PTL DEF Spec, ExactMutation

\* A lock file is removed by its creator only, and a stale one by nobody who
\* works on the path.
THEOREM LockFilesSafe == Spec => LockFileBelongsToCreator
<1> DEFINE Kept(p) ==
      /\ lock[p] \in Workers /\ lock'[p] # lock[p] =>
           pc[lock[p]] \in Locked /\ target[lock[p]] = p /\ pc'[lock[p]] \notin Locked
      /\ lock[p] = Orphan /\ lock'[p] # Orphan =>
           \A w \in Workers : target[w] # p
<1>1. ASSUME TypeOK, CallAddressed, LockHeld, [Next]_vars, NEW p \in Paths
      PROVE  Kept(p)
  <2> USE <1>1 DEF TypeOK, CallAddressed, LockHeld
  <2>1. ASSUME NEW w \in Workers, Start(w)
        PROVE  Kept(p)
    BY <2>1 DEF Start, StartMutate, StartSave, StartCollect
  <2>2. ASSUME NEW w \in Workers, Step(w)
        PROVE  Kept(p)
    <3>1. CASE Unlock(w) \/ UnlockScan(w)
      <4>1. /\ pc[w] \in Locked /\ target[w] \in Paths /\ lock[target[w]] = w
            /\ pc'[w] \notin Locked
            /\ lock' = [lock EXCEPT ![target[w]] = None]
        BY <3>1 DEF Unlock, UnlockScan, RemoveLock
      <4>2. CASE p = target[w]
        BY <4>1, <4>2
      <4>3. CASE p # target[w]
        BY <4>1, <4>3
      <4> QED
        BY <4>2, <4>3
    <3>2. CASE AcquireForMutate(w) \/ AcquireForSave(w) \/ AcquireForCollect(w)
      <4>1. /\ lock[target[w]] = None
            /\ lock' = [lock EXCEPT ![target[w]] = w]
        BY <3>2 DEF AcquireForMutate, AcquireForSave, AcquireForCollect, CreateLock
      <4> QED
        BY <4>1
    <3>3. CASE UNCHANGED lock
      BY <3>3
    <3> QED
      BY <2>2, <3>1, <3>2, <3>3
         DEF Step, LockTimesOut, Read, ReadRefused, MutateCopy, MutateNothing, Write, SaveWrite,
             ExamineSkip, ExamineExpired, CollectBusy, Recheck, Unlink, CollectDone
  <2>3. ASSUME NEW w \in Workers, Fault(w)
        PROVE  Kept(p)
    <3>1. CASE LockWriteFails(w)
      <4>1. /\ lock[target[w]] = None
            /\ lock' = [lock EXCEPT ![target[w]] = Orphan]
        BY <3>1 DEF LockWriteFails
      <4> QED
        BY <4>1
    <3>2. CASE Crash(w)
      <4>1. /\ lock' = [q \in Paths |-> IF lock[q] = w THEN Orphan ELSE lock[q]]
            /\ pc'[w] \notin Locked
        BY <3>2 DEF Crash
      <4> QED
        BY <4>1
    <3> QED
      BY <2>3, <3>1, <3>2 DEF Fault, WriteFails, UnlinkFails
  <2>4. ASSUME NEW q \in Paths, ClearOrphan(q)
        PROVE  Kept(p)
    BY <2>4 DEF ClearOrphan
  <2>5. CASE Tick \/ UNCHANGED vars
    BY <2>5 DEF Tick, vars
  <2> QED
    BY <2>1, <2>2, <2>3, <2>4, <2>5 DEF Next
<1>2. IndInv /\ [Next]_vars => [\A p \in Paths : Kept(p)]_vars
  BY <1>1 DEF IndInv
<1> QED
  BY <1>2, IndInvariant, PTL DEF Spec, LockFileBelongsToCreator

\* The store with its lock files, copies, crashes and collectors implements
\* one atomic register per path.
THEOREM StoreImplementsRegister == Spec => ImplementsRegister
<1> USE DEF Register!States, Register!Contents, Register!Fresh, Register!Expired,
            Register!ChangeOf
<1>1. Init => Register!RegisterInit
  BY DEF Init, Register!RegisterInit, Fresh
<1>2. IndInv /\ [Next]_vars => [Register!RegisterNext]_<<file, now>>
  <2> SUFFICES ASSUME IndInv, [Next]_vars
               PROVE  Register!RegisterNext \/ UNCHANGED <<file, now>>
    OBVIOUS
  <2> USE DEF IndInv, TypeOK, CallAddressed, UnderLock, Register!RegisterNext
  <2>1. ASSUME NEW w \in Workers, Write(w)
        PROVE  Register!Mutate(id[w])
    <3>1. /\ target[w] = PathOf[id[w]]
          /\ target[w] \in Paths
          /\ Acceptable(file[target[w]], id[w], expected[w])
          /\ ChangeOf(file[target[w]], copy[w], now)
      BY <2>1 DEF Write
    <3>2. /\ file' = [file EXCEPT ![PathOf[id[w]]] = copy[w]]
          /\ file'[PathOf[id[w]]] = copy[w]
          /\ UNCHANGED now
      BY <2>1, <3>1 DEF Write
    <3> QED
      BY <3>1, <3>2 DEF Register!Mutate, Acceptable, ChangeOf, States
  <2>2. ASSUME NEW w \in Workers, SaveWrite(w)
        PROVE  Register!Put(id[w])
    BY <2>2 DEF SaveWrite, Register!Put, Fresh, States
  <2>3. ASSUME NEW w \in Workers, Unlink(w)
        PROVE  Register!Discard(target[w])
    <3>1. Expired(file[target[w]], now)
      BY <2>3 DEF Unlink, Expired, States
    <3> QED
      BY <2>3, <3>1 DEF Unlink, Register!Discard, Expired, States
  <2>4. ASSUME Tick
        PROVE  Register!Advance
    BY <2>4 DEF Tick, Register!Advance
  <2>5. ASSUME NEW w \in Workers, Write(w) \/ SaveWrite(w) \/ Unlink(w)
        PROVE  Register!RegisterNext
    BY <2>1, <2>2, <2>3, <2>5 DEF Write, SaveWrite, Unlink
  <2> QED
    BY <2>4, <2>5, VisibleSteps
<1> QED
  BY <1>1, <1>2, IndInvariant, PTL
     DEF Spec, ImplementsRegister, Register!RegisterSpec, Register!rvars
=============================================================================
