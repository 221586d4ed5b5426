----------------------------- MODULE JsonStore ------------------------------
(***************************************************************************)
(* StateStore and StateFileLock (infrastructure/persistence/json_store.py) *)
(* under concurrent callers.  A worker is a thread of a Hermes process or  *)
(* a dashboard request; it makes one store call at a time.  Every file     *)
(* system operation another worker can observe is a step of its own:       *)
(* creating the lock file, reading the state, replacing it, unlinking it,  *)
(* unlinking the lock.  A process may die between any two of them.         *)
(***************************************************************************)
EXTENDS StateRecords, FiniteSets

CONSTANTS
  Workers,
  None,      \* no expected_revision, no copy, no lock file
  Orphan,    \* a lock file whose creator is gone
  MaxCalls,  \* bound: store calls started in a behaviour
  MaxTime    \* bound: ticks of the clock

ASSUME NoneAssumption ==
  /\ None \notin Workers \cup {Orphan} \cup Paths \cup Identities
  /\ None \notin States \cup Nat
ASSUME OrphanAssumption == Orphan \notin Workers
ASSUME BoundsAssumption == MaxCalls \in Nat /\ MaxTime \in Nat

VARIABLES
  file,       \* path -> content of the state file
  lock,       \* path -> the worker whose lock file exists, Orphan or None
  now,        \* the wall clock
  pc,         \* worker -> where it is in its store call
  id,         \* worker -> identity the call names
  expected,   \* worker -> expected_revision of the call, or None
  copy,       \* worker -> in-memory AffectState of the call, or None
  target,     \* worker -> path the call works on, or None
  todo,       \* worker -> paths garbage_collect has still to examine
  since,      \* worker -> "current" of garbage_collect
  calls,      \* store calls started so far
  committed   \* auxiliary: path -> mutations committed since the last save

local == <<pc, id, expected, copy, target, todo, since>>
vars == <<file, lock, now, local, calls, committed>>

\* The places at which a worker holds the lock of its target.
Locked ==
  {"read", "mutate", "write", "saveWrite", "unlock",
   "recheck", "unlink", "unlockScan"}

\* The places at which it waits for it.
Waiting == {"lockMutate", "lockSave", "gcLock"}

Places == Locked \cup Waiting \cup {"idle", "scan"}

Init ==
  /\ file \in {f \in [Paths -> {Missing, Malformed} \cup {Fresh(i, 0, 0) : i \in Identities}] :
                 \A p \in Paths : f[p] \in States => PathOf[f[p].id] = p}
  /\ lock = [p \in Paths |-> None]
  /\ now = 0
  /\ pc = [w \in Workers |-> "idle"]
  /\ id = [w \in Workers |-> None]
  /\ expected = [w \in Workers |-> None]
  /\ copy = [w \in Workers |-> None]
  /\ target = [w \in Workers |-> None]
  /\ todo = [w \in Workers |-> {}]
  /\ since = [w \in Workers |-> 0]
  /\ calls = 0
  /\ committed = [p \in Paths |-> 0]

Goto(w, place) == pc' = [pc EXCEPT ![w] = place]

\* The call returns or raises; its local variables are gone.
Return(w) ==
  /\ Goto(w, "idle")
  /\ id' = [id EXCEPT ![w] = None]
  /\ expected' = [expected EXCEPT ![w] = None]
  /\ copy' = [copy EXCEPT ![w] = None]
  /\ target' = [target EXCEPT ![w] = None]
  /\ todo' = [todo EXCEPT ![w] = {}]
  /\ since' = [since EXCEPT ![w] = 0]

Begin(w) ==
  /\ pc[w] = "idle"
  /\ calls < MaxCalls
  /\ calls' = calls + 1

-----------------------------------------------------------------------------
(* StateFileLock.                                                          *)

\* Mutant: the lock file is opened without O_EXCL.
CreateLock_NotExclusive(w) ==
  lock' = [lock EXCEPT ![target[w]] = w]

\* os.open(O_CREAT | O_EXCL) succeeds.
CreateLock(w) ==
  /\ lock[target[w]] = None
  /\ lock' = [lock EXCEPT ![target[w]] = w]

\* __exit__ unlinks the lock file.
RemoveLock(w) == lock' = [lock EXCEPT ![target[w]] = None]

\* The lock file was created but writing the process id to it failed:
\* __enter__ raises, so __exit__ never runs and the file stays.  Only
\* garbage_collect catches the error.
LockWriteFails(w) ==
  /\ pc[w] \in Waiting
  /\ lock[target[w]] = None
  /\ lock' = [lock EXCEPT ![target[w]] = Orphan]
  /\ \/ /\ pc[w] = "gcLock"
        /\ Goto(w, "scan")
        /\ target' = [target EXCEPT ![w] = None]
        /\ UNCHANGED <<id, expected, copy, todo, since>>
     \/ /\ pc[w] # "gcLock"
        /\ Return(w)
  /\ UNCHANGED <<file, now, calls, committed>>

\* Mutant: the loop has no deadline.
LockTimesOut_NoDeadline(w) == FALSE

\* Mutant: giving up runs the unlink of __exit__ all the same.
LockTimesOut_Unlinks(w) ==
  /\ pc[w] \in {"lockMutate", "lockSave"}
  /\ lock[target[w]] # None
  /\ RemoveLock(w)
  /\ Return(w)
  /\ UNCHANGED <<file, now, calls, committed>>

\* The deadline passes while the lock file exists: TimeoutError.
LockTimesOut(w) ==
  /\ pc[w] \in {"lockMutate", "lockSave"}
  /\ lock[target[w]] # None
  /\ Return(w)
  /\ UNCHANGED <<file, lock, now, calls, committed>>

Unlock(w) ==
  /\ pc[w] = "unlock"
  /\ RemoveLock(w)
  /\ Return(w)
  /\ UNCHANGED <<file, now, calls, committed>>

-----------------------------------------------------------------------------
(* StateStore.mutate_exact.                                                *)

StartMutate(w, i, r) ==
  /\ Begin(w)
  /\ Goto(w, "lockMutate")
  /\ id' = [id EXCEPT ![w] = i]
  /\ expected' = [expected EXCEPT ![w] = r]
  /\ target' = [target EXCEPT ![w] = PathOf[i]]
  /\ UNCHANGED <<file, lock, now, copy, todo, since, committed>>

\* Mutant: the read-modify-write runs outside the lock, as it would with a
\* load before "with self.locked".
AcquireForMutate_Unlocked(w) ==
  /\ pc[w] = "lockMutate"
  /\ Goto(w, "read")
  /\ UNCHANGED <<file, lock, now, id, expected, copy, target, todo, since, calls, committed>>

AcquireForMutate(w) ==
  /\ pc[w] = "lockMutate"
  /\ CreateLock(w)
  /\ Goto(w, "read")
  /\ UNCHANGED <<file, now, id, expected, copy, target, todo, since, calls, committed>>

\* The file may be read, names the requested identity and is at the
\* expected revision.
Acceptable(c, i, r) ==
  /\ c \in States
  /\ c.id = i
  /\ r = None \/ r = c.rev

\* Mutant: expected_revision is not compared again under the lock.
Read_AnyRevision(w) ==
  /\ pc[w] = "read"
  /\ Acceptable(file[target[w]], id[w], None)
  /\ copy' = [copy EXCEPT ![w] = file[target[w]]]
  /\ Goto(w, "mutate")
  /\ UNCHANGED <<file, lock, now, id, expected, target, todo, since, calls, committed>>

Read(w) ==
  /\ pc[w] = "read"
  /\ Acceptable(file[target[w]], id[w], expected[w])
  /\ copy' = [copy EXCEPT ![w] = file[target[w]]]
  /\ Goto(w, "mutate")
  /\ UNCHANGED <<file, lock, now, id, expected, target, todo, since, calls, committed>>

\* Mutant: the refusal is only noted, and the call goes on to write.
ReadRefused_FallsThrough(w) ==
  /\ pc[w] = "read"
  /\ ~Acceptable(file[target[w]], id[w], expected[w])
  /\ Goto(w, "write")
  /\ UNCHANGED <<file, lock, now, id, expected, copy, target, todo, since, calls, committed>>

\* ExactStateUnavailable or StateRevisionConflict.
ReadRefused(w) ==
  /\ pc[w] = "read"
  /\ ~Acceptable(file[target[w]], id[w], expected[w])
  /\ Goto(w, "unlock")
  /\ UNCHANGED <<file, lock, now, id, expected, copy, target, todo, since, calls, committed>>

\* The callback changes the copy: a lifecycle timestamp keeps the revision,
\* every other mutation adds one.
MutateCopy(w) ==
  /\ pc[w] = "mutate"
  /\ \E bump \in {0, 1} : copy' = [copy EXCEPT ![w] = Changed(@, bump, now)]
  /\ Goto(w, "write")
  /\ UNCHANGED <<file, lock, now, id, expected, target, todo, since, calls, committed>>

\* The callback raises, or reports that nothing changed.
MutateNothing(w) ==
  /\ pc[w] = "mutate"
  /\ Goto(w, "unlock")
  /\ UNCHANGED <<file, lock, now, id, expected, copy, target, todo, since, calls, committed>>

\* _write_path: os.replace puts the complete file in place.
Write(w) ==
  /\ pc[w] = "write"
  /\ file' = [file EXCEPT ![target[w]] = copy[w]]
  /\ committed' = [committed EXCEPT ![target[w]] = @ + 1]
  /\ Goto(w, "unlock")
  /\ UNCHANGED <<lock, now, id, expected, copy, target, todo, since, calls>>

\* _write_path raises before os.replace; the temporary file is removed.
WriteFails(w) ==
  /\ pc[w] \in {"write", "saveWrite"}
  /\ Goto(w, "unlock")
  /\ UNCHANGED <<file, lock, now, id, expected, copy, target, todo, since, calls, committed>>

-----------------------------------------------------------------------------
(* StateStore.save.                                                        *)

\* The state to save was built before the call: an initial one, or the
\* continuation of some session, whose revision it keeps.
StartSave(w, i, r) ==
  /\ Begin(w)
  /\ Goto(w, "lockSave")
  /\ id' = [id EXCEPT ![w] = i]
  /\ copy' = [copy EXCEPT ![w] = Fresh(i, r, now)]
  /\ target' = [target EXCEPT ![w] = PathOf[i]]
  /\ UNCHANGED <<file, lock, now, expected, todo, since, committed>>

AcquireForSave(w) ==
  /\ pc[w] = "lockSave"
  /\ CreateLock(w)
  /\ Goto(w, "saveWrite")
  /\ UNCHANGED <<file, now, id, expected, copy, target, todo, since, calls, committed>>

SaveWrite(w) ==
  /\ pc[w] = "saveWrite"
  /\ file' = [file EXCEPT ![target[w]] = copy[w]]
  /\ committed' = [committed EXCEPT ![target[w]] = 0]
  /\ Goto(w, "unlock")
  /\ UNCHANGED <<lock, now, id, expected, copy, target, todo, since, calls>>

-----------------------------------------------------------------------------
(* StateStore.garbage_collect.                                             *)

\* The directory is listed and the clock read once; on_session_start
\* excludes the file of its own session.
StartCollect(w, excluded) ==
  /\ Begin(w)
  /\ Goto(w, "scan")
  /\ todo' = [todo EXCEPT ![w] = {p \in Paths : file[p] # Missing} \ excluded]
  /\ since' = [since EXCEPT ![w] = now]
  /\ UNCHANGED <<file, lock, now, id, expected, copy, target, committed>>

\* The unlocked look: a missing, malformed or recent file is skipped.
ExamineSkip(w, p) ==
  /\ pc[w] = "scan"
  /\ p \in todo[w]
  /\ ~Expired(file[p], since[w])
  /\ todo' = [todo EXCEPT ![w] = @ \ {p}]
  /\ UNCHANGED <<file, lock, now, pc, id, expected, copy, target, since, calls, committed>>

ExamineExpired(w, p) ==
  /\ pc[w] = "scan"
  /\ p \in todo[w]
  /\ Expired(file[p], since[w])
  /\ todo' = [todo EXCEPT ![w] = @ \ {p}]
  /\ target' = [target EXCEPT ![w] = p]
  /\ Goto(w, "gcLock")
  /\ UNCHANGED <<file, lock, now, id, expected, copy, since, calls, committed>>

\* StateFileLock(timeout=0): one attempt, and a busy file is skipped.
CollectBusy(w) ==
  /\ pc[w] = "gcLock"
  /\ lock[target[w]] # None
  /\ target' = [target EXCEPT ![w] = None]
  /\ Goto(w, "scan")
  /\ UNCHANGED <<file, lock, now, id, expected, copy, todo, since, calls, committed>>

AcquireForCollect(w) ==
  /\ pc[w] = "gcLock"
  /\ CreateLock(w)
  /\ Goto(w, "recheck")
  /\ UNCHANGED <<file, now, id, expected, copy, target, todo, since, calls, committed>>

\* Mutant: the age is not checked again once the lock is held.
Recheck_Trusting(w) ==
  /\ pc[w] = "recheck"
  /\ Goto(w, "unlink")
  /\ UNCHANGED <<file, lock, now, id, expected, copy, target, todo, since, calls, committed>>

\* The second look, now under the lock.
Recheck(w) ==
  /\ pc[w] = "recheck"
  /\ Goto(w, IF Expired(file[target[w]], since[w]) THEN "unlink" ELSE "unlockScan")
  /\ UNCHANGED <<file, lock, now, id, expected, copy, target, todo, since, calls, committed>>

Unlink(w) ==
  /\ pc[w] = "unlink"
  /\ file' = [file EXCEPT ![target[w]] = Missing]
  /\ committed' = [committed EXCEPT ![target[w]] = 0]
  /\ Goto(w, "unlockScan")
  /\ UNCHANGED <<lock, now, id, expected, copy, target, todo, since, calls>>

UnlinkFails(w) ==
  /\ pc[w] = "unlink"
  /\ Goto(w, "unlockScan")
  /\ UNCHANGED <<file, lock, now, id, expected, copy, target, todo, since, calls, committed>>

UnlockScan(w) ==
  /\ pc[w] = "unlockScan"
  /\ RemoveLock(w)
  /\ target' = [target EXCEPT ![w] = None]
  /\ Goto(w, "scan")
  /\ UNCHANGED <<file, now, id, expected, copy, todo, since, calls, committed>>

CollectDone(w) ==
  /\ pc[w] = "scan"
  /\ todo[w] = {}
  /\ Return(w)
  /\ UNCHANGED <<file, lock, now, calls, committed>>

-----------------------------------------------------------------------------
(* The environment.                                                        *)

\* The worker's process dies: a lock file it created stays behind.
Crash(w) ==
  /\ pc[w] # "idle"
  /\ Return(w)
  /\ lock' = [p \in Paths |-> IF lock[p] = w THEN Orphan ELSE lock[p]]
  /\ UNCHANGED <<file, now, calls, committed>>

\* docs/privacy-and-retention.md: an administrator removes a stale lock
\* once no process is using the state.
ClearOrphan(p) ==
  /\ lock[p] = Orphan
  /\ \A w \in Workers : target[w] # p
  /\ lock' = [lock EXCEPT ![p] = None]
  /\ UNCHANGED <<file, now, local, calls, committed>>

Tick ==
  /\ now < MaxTime
  /\ now' = now + 1
  /\ UNCHANGED <<file, lock, local, calls, committed>>

-----------------------------------------------------------------------------

\* What expected_revision may be: None, or a revision read from some file,
\* now or earlier.
KnownRevisions == {None} \cup 0 .. MaxCalls

\* The revision of an initial state, or the one a continuation inherits.
SavedRevisions == {0} \cup {file[p].rev : p \in {q \in Paths : file[q] \in States}}

Start(w) ==
  \/ \E i \in Identities, r \in KnownRevisions : StartMutate(w, i, r)
  \/ \E i \in Identities, r \in SavedRevisions : StartSave(w, i, r)
  \/ \E excluded \in {{}} \cup {{PathOf[i]} : i \in Identities} :
       StartCollect(w, excluded)

\* What the code does on its own once a call has started.
Step(w) ==
  \/ LockTimesOut(w) \/ Unlock(w)
  \/ AcquireForMutate(w) \/ Read(w) \/ ReadRefused(w)
  \/ MutateCopy(w) \/ MutateNothing(w) \/ Write(w)
  \/ AcquireForSave(w) \/ SaveWrite(w)
  \/ \E p \in Paths : ExamineSkip(w, p) \/ ExamineExpired(w, p)
  \/ CollectBusy(w) \/ AcquireForCollect(w) \/ Recheck(w)
  \/ Unlink(w) \/ UnlockScan(w) \/ CollectDone(w)

\* What goes wrong around it.
Fault(w) == LockWriteFails(w) \/ WriteFails(w) \/ UnlinkFails(w) \/ Crash(w)

Next ==
  \/ \E w \in Workers : Start(w) \/ Step(w) \/ Fault(w)
  \/ \E p \in Paths : ClearOrphan(p)
  \/ Tick

Spec == Init /\ [][Next]_vars

\* A call in progress is executed: the operating system schedules every
\* thread, and the lock loop sleeps 0.05 s and then looks again.
Fairness == \A w \in Workers : WF_vars(Step(w))

FairSpec == Spec /\ Fairness

-----------------------------------------------------------------------------
(* Properties.                                                             *)

\* Every variable has its type (json_store.py).
TypeOK ==
  /\ file \in [Paths -> Contents]
  /\ lock \in [Paths -> Workers \cup {None, Orphan}]
  /\ now \in Nat
  /\ pc \in [Workers -> Places]
  /\ id \in [Workers -> Identities \cup {None}]
  /\ expected \in [Workers -> Nat \cup {None}]
  /\ copy \in [Workers -> States \cup {None}]
  /\ target \in [Workers -> Paths \cup {None}]
  /\ todo \in [Workers -> SUBSET Paths]
  /\ since \in [Workers -> Nat]
  /\ calls \in Nat
  /\ committed \in [Paths -> Nat]

\* Two workers are never inside the lock of one state file, whoever timed
\* out, crashed or collected in the meantime (StateFileLock).
MutualExclusion ==
  \A v, w \in Workers :
    v # w /\ pc[v] \in Locked /\ pc[w] \in Locked => target[v] # target[w]

\* A lock file is unlinked by the worker that created it; a stale one stays
\* until nobody works on the path and an administrator removes it
\* (StateFileLock.__exit__, garbage_collect).
LockFileBelongsToCreator ==
  [][\A p \in Paths :
       /\ lock[p] \in Workers /\ lock'[p] # lock[p] =>
            pc[lock[p]] \in Locked /\ target[lock[p]] = p /\ pc'[lock[p]] \notin Locked
       /\ lock[p] = Orphan /\ lock'[p] # Orphan =>
            \A w \in Workers : target[w] # p]_vars

\* The content of a file contains every mutation committed to it since it
\* was last saved whole: no mutate_exact writes over another one, whatever
\* the interleaving, the crashes and the failed writes.
NoLostMutation ==
  \A p \in Paths : file[p] \in States => file[p].muts = committed[p]

\* A mutation is committed only to the identity it names, and under
\* expected_revision only to that very revision, although both were checked
\* in an earlier step than the one that writes (mutate_exact).
ExactMutation ==
  [][\A w \in Workers :
       pc[w] = "write" /\ file' # file =>
         Acceptable(file[target[w]], id[w], expected[w])]_vars

\* The store implements one atomic register per path: whole-file saves,
\* atomic exact mutations and removal of expired states only.
Register == INSTANCE AffectRegister WITH reg <- file
ImplementsRegister == Register!RegisterSpec

\* Every store call returns or raises, also when a crashed worker has left
\* its lock file behind for good (StateFileLock's deadline).
EveryCallReturns == \A w \in Workers : pc[w] # "idle" ~> pc[w] = "idle"

-----------------------------------------------------------------------------
(* Why the properties hold: an inductive invariant in named layers.        *)

\* A worker inside a call knows its path, and a call that names an identity
\* works on the path of that identity.
CallAddressed ==
  \A w \in Workers :
    /\ pc[w] \in Locked \cup Waiting => target[w] \in Paths
    /\ pc[w] \in {"lockMutate", "read", "mutate", "write", "lockSave", "saveWrite"} =>
         id[w] \in Identities /\ target[w] = PathOf[id[w]]
    /\ pc[w] \in {"mutate", "write", "lockSave", "saveWrite"} => copy[w] \in States

\* A lock file that has a live creator is held by exactly that worker.
LockHeld ==
  /\ \A w \in Workers : pc[w] \in Locked => lock[target[w]] = w
  /\ \A p \in Paths : lock[p] \in Workers => pc[lock[p]] \in Locked /\ target[lock[p]] = p

\* What a worker has read or decided under the lock still holds when it
\* acts on it.
UnderLock(w) ==
  /\ pc[w] \in {"mutate", "write"} => Acceptable(file[target[w]], id[w], expected[w])
  /\ pc[w] = "mutate" => copy[w] = file[target[w]]
  /\ pc[w] = "write" => ChangeOf(file[target[w]], copy[w], now)
  /\ pc[w] \in {"lockSave", "saveWrite"} =>
       copy[w] = Fresh(id[w], copy[w].rev, copy[w].at) /\ copy[w].at <= now
  /\ pc[w] = "unlink" => Expired(file[target[w]], since[w])
  /\ since[w] <= now

FilesCurrent ==
  \A p \in Paths : file[p] \in States => file[p].at <= now

IndInv ==
  /\ TypeOK
  /\ CallAddressed
  /\ LockHeld
  /\ \A w \in Workers : UnderLock(w)
  /\ FilesCurrent
  /\ NoLostMutation
=============================================================================
