------------------------ MODULE RuntimeRegisterProofs ------------------------
(***************************************************************************)
(* The runtime uses the store as a register, for any threads, sessions,    *)
(* files, turn ids and bounds.                                             *)
(***************************************************************************)
EXTENDS SessionRuntimeProofs

-----------------------------------------------------------------------------
(* Retention goes by a time that has passed.                               *)

CollectInv == \A w \in Workers : pc[w] = "collect" => call[w].t \in Nat /\ call[w].t <= now

\* A call that begins to collect takes the present time; one that is at it
\* keeps its own.
LEMMA CollectTime ==
  ASSUME RuntimeInv, [Next]_vars, NEW w \in Workers, pc'[w] = "collect"
  PROVE  \/ pc[w] = "collect" /\ call'[w] = call[w]
         \/ call'[w].t = now
<1>0. TypeOK
  BY DEF RuntimeInv
<1> USE DEF TypeOK, Goto, Finish
<1>1. ASSUME NEW v \in Workers, pc[v] # "idle", NoState(v)
      PROVE  \/ pc[w] = "collect" /\ call'[w] = call[w]
             \/ call'[w].t = now
  <2>1. call[v] \in CallRecords
    BY <1>1, Working
  <2>2. [call[v] EXCEPT !.t = now].t = now
    BY <2>1 DEF CallRecords
  <2> QED BY <1>0, <1>1, <2>1, <2>2 DEF NoState
<1>2. ASSUME NEW v \in Workers, ActStart(v)
      PROVE  \/ pc[w] = "collect" /\ call'[w] = call[w]
             \/ call'[w].t = now
  <2>1. call[v] \in CallRecords
    BY <1>2, Working DEF ActStart
  <2>2. [call[v] EXCEPT !.t = now].t = now
    BY <2>1 DEF CallRecords
  <2> QED BY <1>0, <1>2, <2>1, <2>2 DEF ActStart
<1>3. ASSUME NEW v \in Workers, LoadParent(v) \/ Create(v)
      PROVE  \/ pc[w] = "collect" /\ call'[w] = call[w]
             \/ call'[w].t = now
  BY <1>0, <1>1, <1>3 DEF LoadParent, Create
<1>4. ASSUME NEW v \in Workers, Arrive(v)
      PROVE  pc[w] = "collect" /\ call'[w] = call[w]
  BY <1>0, <1>4 DEF Arrive, IgnoreTurn, InvokeHook, InvokeTurn, InvokePlain, Invoke
<1>5. ASSUME NEW v \in Workers,
             \/ Load(v) \/ LoadRaises(v) \/ LoadMissing(v) \/ Save(v)
             \/ ActDone(v) \/ ActTurn(v) \/ ActSemanticTurn(v) \/ SemanticDone(v)
             \/ ActMutate(v) \/ ActIntervene(v) \/ ActInterveneIgnored(v) \/ Inspect(v)
      PROVE  pc[w] = "collect" /\ call'[w] = call[w]
  BY <1>0, <1>5
     DEF Load, LoadRaises, LoadMissing, Save, ActDone, ActTurn, ActSemanticTurn, SemanticDone,
         ActMutate, ActIntervene, ActInterveneIgnored, Inspect
<1>6. ASSUME NEW v \in Workers,
             \/ ApplyTurnLatest(v) \/ ApplyLifecycle(v) \/ ApplyReset(v) \/ ApplyEdit(v)
             \/ ApplyNothing(v) \/ CollectDone(v) \/ StoreFails(v)
             \/ \E p \in Paths : Collect(v, p)
      PROVE  pc[w] = "collect" /\ call'[w] = call[w]
  BY <1>0, <1>6
     DEF ApplyTurnLatest, ApplyLifecycle, ApplyReset, ApplyEdit, ApplyNothing, CollectDone,
         StoreFails, Collect
<1>7. CASE Crash \/ Tick \/ MigrateSoul \/ UNCHANGED vars
  BY <1>0, <1>7 DEF Crash, Tick, MigrateSoul, vars
<1> QED BY <1>2, <1>3, <1>4, <1>5, <1>6, <1>7 DEF Next, Step

-----------------------------------------------------------------------------
(* The steps.                                                              *)

\* The clock is moved by its own step only.
LEMMA ClockStep ==
  ASSUME RuntimeInv, [Next]_vars, now' # now
  PROVE  now' = now + 1 /\ UNCHANGED store
<1>1. ASSUME NEW w \in Workers, Arrive(w) \/ StoreFails(w)
      PROVE  UNCHANGED now
  BY <1>1 DEF Arrive, IgnoreTurn, InvokeHook, InvokeTurn, InvokePlain, Invoke, StoreFails
<1>2. ASSUME NEW w \in Workers, Step(w)
      PROVE  UNCHANGED now
  <2>1. \A p \in Paths : Collect(w, p) => UNCHANGED now
    BY DEF Collect
  <2>2. CASE \/ Load(w) \/ LoadRaises(w) \/ LoadMissing(w) \/ LoadParent(w) \/ Create(w)
             \/ Save(w) \/ Inspect(w) \/ CollectDone(w)
    BY <2>2 DEF Load, LoadRaises, LoadMissing, LoadParent, Create, Save, Inspect, CollectDone
  <2>3. CASE \/ ActStart(w) \/ ActDone(w) \/ ActTurn(w) \/ ActSemanticTurn(w)
             \/ SemanticDone(w) \/ ActMutate(w) \/ ActIntervene(w) \/ ActInterveneIgnored(w)
    BY <2>3 DEF ActStart, ActDone, ActTurn, ActSemanticTurn, SemanticDone, ActMutate,
                ActIntervene, ActInterveneIgnored
  <2>4. CASE \/ ApplyTurnLatest(w) \/ ApplyLifecycle(w) \/ ApplyReset(w) \/ ApplyEdit(w)
             \/ ApplyNothing(w)
    BY <2>4 DEF ApplyTurnLatest, ApplyLifecycle, ApplyReset, ApplyEdit, ApplyNothing
  <2> QED BY <1>2, <2>1, <2>2, <2>3, <2>4 DEF Step
<1>3. CASE Crash \/ Tick \/ MigrateSoul \/ UNCHANGED vars
  BY <1>3 DEF Crash, Tick, MigrateSoul, vars
<1> QED BY <1>1, <1>2, <1>3 DEF Next

RegisterInv == RuntimeInv /\ CollectInv

LEMMA RegisterInvariant == Spec => []RegisterInv
<1>1. Init => RegisterInv
  BY InvInitially DEF Init, RegisterInv, CollectInv
<1>2. RegisterInv /\ [Next]_vars => RegisterInv'
  <2> SUFFICES ASSUME RegisterInv, [Next]_vars PROVE RegisterInv'
    OBVIOUS
  <2>1. RuntimeInv'
    BY InvStep DEF RegisterInv
  <2>2. now \in Nat /\ now' \in Nat /\ now <= now'
    BY <2>1, ClockStep DEF RegisterInv, RuntimeInv, TypeOK
  <2>3. CollectInv'
    BY <2>1, <2>2, CollectTime DEF RegisterInv, CollectInv
  <2> QED BY <2>1, <2>3 DEF RegisterInv
<1> QED BY <1>1, <1>2, PTL DEF Spec

-----------------------------------------------------------------------------
(* The refinement.                                                         *)

\* What the store sees of the two contents of a mutation.
Mutated(s, u) ==
  /\ u \in States /\ u.id = s.id /\ u.rev \in {s.rev, s.rev + 1} /\ s.at <= u.at /\ u.at <= now

LEMMA ResetIs ==
  ASSUME now \in Nat, NEW s \in States
  PROVE  /\ ResetState(s) \in States /\ ResetState(s).id = s.id
         /\ ResetState(s).rev = s.rev + 1 /\ ResetState(s).at = now
<1>1. s.id \in Identities /\ s.rev + 1 \in Nat
  BY FieldsOf
<1> DEFINE fresh == Initial(s.id)
<1>2. fresh \in States /\ fresh.id = s.id /\ fresh.at = now
  BY <1>1 DEF Initial, States, TurnIds
<1>3. ResetState(s) = [fresh EXCEPT !.rev = s.rev + 1]
  BY DEF ResetState
<1> HIDE DEF fresh
<1> QED BY <1>1, <1>2, <1>3, SetRevision DEF Becomes

\* Every mutation of the runtime is one the store accepts.
LEMMA MutationIs ==
  ASSUME RuntimeInv, NEW w \in Workers,
         ApplyTurnLatest(w) \/ ApplyLifecycle(w) \/ ApplyReset(w) \/ ApplyEdit(w)
  PROVE  /\ pc[w] = "apply" /\ Available(w) /\ UNCHANGED now
         /\ \E u : Commit(w, u) /\ Mutated(Current(w), u)
<1> DEFINE s == Current(w)
<1>0. TypeOK /\ now \in Nat
  BY DEF RuntimeInv, TypeOK
<1>1. pc[w] = "apply" /\ Available(w) /\ UNCHANGED now
  BY DEF ApplyTurnLatest, ApplyLifecycle, ApplyReset, ApplyEdit
<1>2. /\ s \in States /\ s.at <= now /\ call[w].n \in Nat
      /\ call[w].turn \in TurnIds \cup {None}
  BY <1>1, Mutating, Working DEF Good
<1>3. s.rev \in Nat /\ s.at \in Nat /\ s.id \in Identities
  BY <1>2, FieldsOf
<1>4. CASE ApplyTurnLatest(w)
  <2>1. Mutated(s, ApplyTurn(s, call[w].turn))
    BY <1>0, <1>2, <1>3, ApplyTurnIs DEF Becomes, Mutated
  <2> QED BY <1>1, <1>4, <2>1 DEF ApplyTurnLatest
<1>5. CASE ApplyLifecycle(w)
  <2>1. Mutated(s, Touch(s))
    BY <1>0, <1>2, <1>3, TouchIs DEF Becomes, Mutated
  <2> QED BY <1>1, <1>5, <2>1 DEF ApplyLifecycle
<1>6. CASE ApplyReset(w)
  <2>1. /\ ResetState(s) \in States /\ ResetState(s).id = s.id
        /\ ResetState(s).rev = s.rev + 1 /\ ResetState(s).at = now
    BY <1>0, <1>2, ResetIs
  <2> DEFINE u == ResetState(s)
  <2>2. Mutated(s, u)
    <3> HIDE DEF s, u
    <3> QED BY <1>0, <1>2, <1>3, <2>1 DEF Mutated, u
  <2> QED BY <1>1, <1>6, <2>2 DEF ApplyReset
<1>7. CASE ApplyEdit(w)
  <2>1. PICK u \in Edits(s, call[w].n) : Commit(w, u)
    BY <1>7 DEF ApplyEdit, Edits
  <2>2. Mutated(s, u)
    <3> HIDE DEF s
    <3>1. u \in States /\ u.id = s.id /\ u.rev = s.rev + 1 /\ u.at = now
      <4>1. CASE u = ManualEdit(s, call[w].n)
        BY <1>0, <1>2, <4>1, ManualEditIs DEF Becomes
      <4>2. CASE u = SetOverride(s, call[w].n)
        BY <1>0, <1>2, <4>2, GainIs DEF Becomes
      <4>3. CASE u = RestoreConfigured(s, call[w].n)
        BY <1>0, <1>2, <4>3, GainIs DEF Becomes
      <4> QED BY <2>1, <4>1, <4>2, <4>3 DEF Edits
    <3> QED BY <1>0, <1>2, <1>3, <3>1 DEF Mutated
  <2> QED BY <1>1, <2>1, <2>2
<1> QED BY <1>4, <1>5, <1>6, <1>7

\* What the store sees of the files.
LEMMA RecordIs ==
  ASSUME NEW c, NEW m \in Nat
  PROVE  /\ c \in States => /\ Record(c, m) \in Register!States
                            /\ Record(c, m) = [id |-> c.id, rev |-> c.rev, at |-> c.at, muts |-> m]
         /\ c \notin States => Record(c, m) = c
<1>1. CASE c \in States
  BY <1>1, FieldsOf DEF Record, Register!States
<1>2. CASE c \notin States
  BY <1>2 DEF Record
<1> QED BY <1>1, <1>2

\* A step writes the content u to one file, which has been through m mutations.
Written(p, u, m) ==
  store' = [store EXCEPT ![p] = u] /\ muts' = [muts EXCEPT ![p] = m]

\* The other records stay.
LEMMA RecordedAt ==
  ASSUME TypeOK, NEW p \in Paths, NEW u, NEW m, Written(p, u, m)
  PROVE  /\ Recorded' = [Recorded EXCEPT ![p] = Record(u, m)]
         /\ Recorded'[p] = Record(u, m)
         /\ Recorded[p] = Record(store[p], muts[p])
<1>1. store \in [Paths -> States \cup {Missing, Malformed}] /\ muts \in [Paths -> Nat]
  BY DEF TypeOK
<1>2. \A q \in Paths : /\ store'[q] = IF q = p THEN u ELSE store[q]
                       /\ muts'[q] = IF q = p THEN m ELSE muts[q]
  BY <1>1 DEF Written
<1>3. /\ Recorded = [q \in Paths |-> Record(store[q], muts[q])]
      /\ Recorded' = [q \in Paths |-> Record(store'[q], muts'[q])]
  BY DEF Recorded
<1>4. Recorded'[p] = Record(u, m)
  BY <1>2, <1>3
<1>5. \A q \in Paths \ {p} : Recorded'[q] = Recorded[q]
  BY <1>2, <1>3
<1>6. Recorded' = [q \in Paths |-> Recorded'[q]] /\ Recorded = [q \in Paths |-> Recorded[q]]
  BY <1>3
<1> QED BY <1>3, <1>4, <1>5, <1>6

\* A save, a mutation and a removal are the register's own.
LEMMA SaveImplements ==
  ASSUME RuntimeInv, NEW w \in Workers, Save(w)
  PROVE  Register!RegisterNext
<1> DEFINE s == snap[w]  i == s.id  p == PathOf[i]  new == Record(s, 0)
<1>0. TypeOK
  BY DEF RuntimeInv
<1>1. /\ s \in States /\ Good(s, now) /\ UNCHANGED now
      /\ Written(p, s, 0)
  BY Working DEF Save, WorkerInv, Written
<1>2. i \in Identities /\ p \in Paths /\ s.at <= now /\ s.rev \in Nat /\ s.at \in Nat
  BY <1>1, FieldsOf, PathOfType DEF Good
<1>3. new \in Register!States /\ new = [id |-> i, rev |-> s.rev, at |-> s.at, muts |-> 0]
  BY <1>1, RecordIs
<1>4. Recorded' = [Recorded EXCEPT ![p] = new] /\ Recorded'[p] = new
  BY <1>0, <1>1, <1>2, RecordedAt
<1> HIDE DEF s, i, new
<1>5. new.rev = s.rev /\ new.at = s.at
  BY <1>3
<1>6. /\ Recorded'[p] \in Register!States /\ Recorded'[p].at <= now
      /\ Recorded'[p] = [id |-> i, rev |-> Recorded'[p].rev, at |-> Recorded'[p].at, muts |-> 0]
      /\ Recorded' = [Recorded EXCEPT ![p] = Recorded'[p]]
  BY <1>2, <1>3, <1>4, <1>5
<1>7. Register!Put(i)
  BY <1>1, <1>6 DEF Register!Put, Register!Fresh
<1> QED BY <1>2, <1>7 DEF Register!RegisterNext

LEMMA MutationImplements ==
  ASSUME RuntimeInv, NEW w \in Workers,
         ApplyTurnLatest(w) \/ ApplyLifecycle(w) \/ ApplyReset(w) \/ ApplyEdit(w)
  PROVE  Register!RegisterNext
<1> DEFINE i == MutatedId(w)  p == PathOf[i]  s == Current(w)
<1>0. TypeOK
  BY DEF RuntimeInv
<1>1. pc[w] = "apply" /\ Available(w) /\ UNCHANGED now
  BY MutationIs
<1>2. PICK u : Commit(w, u) /\ Mutated(s, u)
  BY MutationIs
<1> DEFINE m == muts[p] + 1
<1>3. /\ Written(p, u, m)
      /\ s = store[p] /\ s.id = i /\ s \in States /\ i \in Identities /\ p \in Paths
  BY <1>1, <1>2, Mutating DEF Commit, Current, Written
<1>4. muts[p] \in Nat /\ m \in Nat
  BY <1>0, <1>3 DEF TypeOK
<1> HIDE DEF i, p, s
<1>5. /\ Recorded' = [Recorded EXCEPT ![p] = Record(u, m)]
      /\ Recorded'[p] = Record(u, m) /\ Recorded[p] = Record(s, muts[p])
  BY <1>0, <1>3, RecordedAt
<1>6. /\ Record(s, muts[p]) \in Register!States /\ Record(u, m) \in Register!States
      /\ Record(s, muts[p]) = [id |-> s.id, rev |-> s.rev, at |-> s.at, muts |-> muts[p]]
      /\ Record(u, m) = [id |-> u.id, rev |-> u.rev, at |-> u.at, muts |-> m]
  BY <1>2, <1>3, <1>4, RecordIs DEF Mutated
<1>7. Register!ChangeOf(Recorded[p], Recorded'[p], now)
  BY <1>2, <1>4, <1>5, <1>6 DEF Register!ChangeOf, Mutated
<1>8. /\ Recorded[p] \in Register!States /\ Recorded[p].id = i
      /\ Recorded' = [Recorded EXCEPT ![p] = Recorded'[p]]
  <2>1. Recorded[p].id = s.id
    BY <1>5, <1>6
  <2> QED BY <1>3, <1>5, <1>6, <2>1
<1>9. Register!Mutate(i)
  BY <1>1, <1>7, <1>8 DEF Register!Mutate, p
<1> QED BY <1>3, <1>9 DEF Register!RegisterNext

LEMMA RemovalImplements ==
  ASSUME RegisterInv, NEW w \in Workers, NEW p \in Paths, Collect(w, p)
  PROVE  Register!RegisterNext
<1> DEFINE u == Missing  m == muts[p]
<1>0. TypeOK /\ now \in Nat
  BY DEF RegisterInv, RuntimeInv, TypeOK
<1>1. /\ store' = [store EXCEPT ![p] = u] /\ UNCHANGED <<now, muts>> /\ pc[w] = "collect"
      /\ Expired(store[p], call[w].t)
  BY DEF Collect
<1>2. call[w].t \in Nat /\ call[w].t <= now
  BY <1>1 DEF RegisterInv, CollectInv
<1>3. store[p] \in States /\ store[p].at \in Nat /\ store[p].at + MaxAge < now
  BY <1>0, <1>1, <1>2, FieldsOf, MaxAgeType DEF Expired
<1>4. m \in Nat /\ Written(p, u, m)
  BY <1>0, <1>1 DEF TypeOK, Written
<1>5. Record(u, m) = Missing
  BY ValuesDiffer DEF Record
<1>6. Recorded' = [Recorded EXCEPT ![p] = Missing] /\ Recorded[p] = Record(store[p], m)
  BY <1>0, <1>4, <1>5, RecordedAt
<1>7. Register!Expired(Recorded[p], now)
  BY <1>3, <1>4, <1>6, RecordIs DEF Register!Expired
<1>8. Register!Discard(p)
  BY <1>1, <1>6, <1>7 DEF Register!Discard
<1> QED BY <1>8 DEF Register!RegisterNext

\* Hooks, commands, edits and retention use the store as the atomic register
\* it is shown to be, whatever interleaves, and do nothing else to the files.
THEOREM RuntimeUsesRegister == Spec => UsesRegister
<1>1. Init => Register!RegisterInit
  <2> SUFFICES ASSUME Init PROVE Register!RegisterInit
    OBVIOUS
  <2>1. TypeOK /\ \A p \in Paths : muts[p] \in Nat
    BY InvInitially DEF RuntimeInv, TypeOK
  <2>2. \A p \in Paths : Record(store[p], muts[p]) \in Register!Contents
    BY <2>1, RecordIs DEF TypeOK, Register!Contents
  <2> QED BY <2>1, <2>2 DEF TypeOK, Recorded, Register!RegisterInit
<1>2. RegisterInv /\ [Next]_vars => [Register!RegisterNext]_(Register!rvars)
  <2> SUFFICES ASSUME RegisterInv, [Next]_vars
               PROVE  Register!RegisterNext \/ UNCHANGED <<Recorded, now>>
    BY DEF Register!rvars
  <2>1. CASE UNCHANGED <<store, muts>>
    <3>1. UNCHANGED Recorded
      BY <2>1 DEF Recorded
    <3>2. UNCHANGED now \/ Register!Advance
      BY <3>1, ClockStep DEF RegisterInv, Register!Advance
    <3> QED BY <3>1, <3>2 DEF Register!RegisterNext
  <2>2. CASE ~UNCHANGED <<store, muts>>
    <3>1. PICK w \in Workers : Writes(w)
      BY <2>2, OnlyWrites DEF RegisterInv
    <3> QED BY <3>1, SaveImplements, MutationImplements, RemovalImplements DEF RegisterInv, Writes
  <2> QED BY <2>1, <2>2
<1> QED
  BY <1>1, <1>2, RegisterInvariant, PTL DEF Spec, UsesRegister, Register!RegisterSpec
=============================================================================
