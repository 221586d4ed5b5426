------------------------- MODULE SessionRuntimeProofs -------------------------
(***************************************************************************)
(* Proofs about SessionRuntime, for any threads, sessions, files, turn ids *)
(* and bounds.                                                             *)
(***************************************************************************)
EXTENDS SessionRuntime, SequenceTheorems, TLAPS

-----------------------------------------------------------------------------
(* Session states.                                                         *)

\* What every state in a file, and every state a call has loaded, satisfies at
\* time t: it was decayed only for hours between its birth and updated_at,
\* and last_turn_id is the last turn applied, which differs from the one before.
Good(s, t) ==
  /\ s \in States
  /\ s.at <= t
  /\ s.born + s.decayed <= s.at
  /\ s.last = None => s.turns = <<>>
  /\ s.last # None => Len(s.turns) > 0 /\ s.turns[Len(s.turns)] = s.last
  /\ \A k \in 1 .. Len(s.turns) - 1 : s.turns[k] # s.turns[k + 1]

\* The state u is s with these fields changed.
Becomes(u, s, rev, at, last, gain, seq, made, decayed) ==
  /\ u \in States /\ u.id = s.id /\ u.legacy = s.legacy /\ u.born = s.born
  /\ u.rev = rev /\ u.at = at /\ u.last = last /\ u.gain = gain
  /\ u.turns = seq /\ u.edits = made /\ u.decayed = decayed

LEMMA FieldsOf ==
  ASSUME NEW s \in States
  PROVE  /\ s.id \in Identities /\ s.rev \in Nat /\ s.at \in Nat /\ s.legacy \in BOOLEAN
         /\ s.last \in TurnIds \cup {None} /\ s.gain \in BOOLEAN /\ s.turns \in Seq(TurnIds)
         /\ s.edits \in SUBSET Nat /\ s.born \in Nat /\ s.decayed \in Nat
  BY DEF States

LEMMA SetClock ==
  ASSUME NEW s \in States, NEW at \in Nat
  PROVE  Becomes([s EXCEPT !.at = at], s, s.rev, at, s.last, s.gain, s.turns, s.edits, s.decayed)
  BY DEF States, Becomes

LEMMA SetDecayed ==
  ASSUME NEW s \in States, NEW decayed \in Nat, NEW at \in Nat
  PROVE  Becomes([s EXCEPT !.decayed = decayed, !.at = at], s, s.rev, at, s.last, s.gain, s.turns,
                 s.edits, decayed)
  BY DEF States, Becomes

LEMMA SetRevision ==
  ASSUME NEW s \in States, NEW rev \in Nat
  PROVE  Becomes([s EXCEPT !.rev = rev], s, rev, s.at, s.last, s.gain, s.turns, s.edits, s.decayed)
  BY DEF States, Becomes

LEMMA SetTurn ==
  ASSUME NEW s \in States, NEW last \in TurnIds \cup {None}, NEW seq \in Seq(TurnIds)
  PROVE  Becomes([s EXCEPT !.last = last, !.turns = seq], s, s.rev, s.at, last, s.gain, seq,
                 s.edits, s.decayed)
  BY DEF States, Becomes

\* An override is set or removed.
Tuned(s, rev, at, gain, made) ==
  [s EXCEPT !.rev = rev, !.at = at, !.gain = gain, !.edits = made]

LEMMA SetGain ==
  ASSUME NEW s \in States, NEW rev \in Nat, NEW at \in Nat, NEW gain \in BOOLEAN,
         NEW made \in SUBSET Nat
  PROVE  Becomes(Tuned(s, rev, at, gain, made), s, rev, at, s.last, gain, s.turns, made, s.decayed)
  BY DEF States, Becomes, Tuned

Edited(s, rev, made) == [s EXCEPT !.rev = rev, !.edits = made]

LEMMA SetEdits ==
  ASSUME NEW s \in States, NEW rev \in Nat, NEW made \in SUBSET Nat
  PROVE  Becomes(Edited(s, rev, made), s, rev, s.at, s.last, s.gain, s.turns, made, s.decayed)
  BY DEF States, Becomes, Edited

-----------------------------------------------------------------------------
(* What the operators on states make of a state.                           *)

LEMMA DecayedIs ==
  ASSUME NEW s \in States, now \in Nat, s.at <= now
  PROVE  /\ Becomes(Decayed(s), s, s.rev, now, s.last, s.gain, s.turns, s.edits,
                    s.decayed + (now - s.at))
         /\ s.decayed + (now - s.at) \in Nat
<1> DEFINE decayed == s.decayed + (now - s.at)
<1>1. decayed \in Nat
  BY FieldsOf
<1>2. Decayed(s) = [s EXCEPT !.decayed = decayed, !.at = now]
  BY DEF Decayed
<1> HIDE DEF decayed
<1>3. Becomes(Decayed(s), s, s.rev, now, s.last, s.gain, s.turns, s.edits, decayed)
  BY <1>1, <1>2, SetDecayed
<1> QED BY <1>1, <1>3 DEF decayed

LEMMA ApplyTurnIs ==
  ASSUME NEW s \in States, now \in Nat, s.at <= now, NEW turn \in TurnIds \cup {None}
  PROVE  Becomes(ApplyTurn(s, turn), s, s.rev + 1, now, IF turn = None THEN s.last ELSE turn,
                 s.gain, IF turn = None THEN s.turns ELSE Append(s.turns, turn), s.edits,
                 s.decayed + (now - s.at))
<1> DEFINE d == Decayed(s)  a == [d EXCEPT !.rev = d.rev + 1]
<1>1. Becomes(d, s, s.rev, now, s.last, s.gain, s.turns, s.edits, s.decayed + (now - s.at))
  BY DecayedIs
<1>2. ApplyTurn(s, turn) = IF turn = None THEN a
                           ELSE [a EXCEPT !.last = turn, !.turns = Append(a.turns, turn)]
  BY DEF ApplyTurn
<1>3. d \in States /\ d.rev + 1 \in Nat
  BY <1>1, FieldsOf DEF Becomes
<1> HIDE DEF d
<1>4. Becomes(a, d, d.rev + 1, d.at, d.last, d.gain, d.turns, d.edits, d.decayed)
  BY <1>3, SetRevision
<1> HIDE DEF a
<1>5. a \in States
  BY <1>4 DEF Becomes
<1>6. CASE turn = None
  BY <1>1, <1>2, <1>4, <1>6 DEF Becomes
<1>7. CASE turn # None
  <2>1. turn \in TurnIds \cup {None} /\ Append(a.turns, turn) \in Seq(TurnIds)
    BY <1>5, <1>7, FieldsOf
  <2> DEFINE u == [a EXCEPT !.last = turn, !.turns = Append(a.turns, turn)]
  <2>2. Becomes(u, a, a.rev, a.at, turn, a.gain, Append(a.turns, turn), a.edits, a.decayed)
    BY <1>5, <2>1, SetTurn
  <2>3. ApplyTurn(s, turn) = u
    BY <1>2, <1>7
  <2> HIDE DEF u
  <2> QED BY <1>1, <1>4, <1>7, <2>2, <2>3 DEF Becomes
<1> QED BY <1>6, <1>7

LEMMA TouchIs ==
  ASSUME NEW s \in States, now \in Nat
  PROVE  Becomes(Touch(s), s, s.rev, now, s.last, s.gain, s.turns, s.edits, s.decayed)
  BY SetClock DEF Touch

LEMMA GainIs ==
  ASSUME NEW s \in States, now \in Nat, NEW n \in Nat
  PROVE  /\ Becomes(SetOverride(s, n), s, s.rev + 1, now, s.last, TRUE, s.turns, s.edits \cup {n},
                    s.decayed)
         /\ Becomes(RestoreConfigured(s, n), s, s.rev + 1, now, s.last, FALSE, s.turns,
                    s.edits \cup {n}, s.decayed)
<1>1. s.rev + 1 \in Nat /\ s.edits \cup {n} \in SUBSET Nat
  BY FieldsOf
<1>2. /\ SetOverride(s, n) = Tuned(s, s.rev + 1, now, TRUE, s.edits \cup {n})
      /\ RestoreConfigured(s, n) = Tuned(s, s.rev + 1, now, FALSE, s.edits \cup {n})
  BY DEF SetOverride, RestoreConfigured, Tuned
<1>3. /\ Becomes(Tuned(s, s.rev + 1, now, TRUE, s.edits \cup {n}), s, s.rev + 1, now, s.last,
                 TRUE, s.turns, s.edits \cup {n}, s.decayed)
      /\ Becomes(Tuned(s, s.rev + 1, now, FALSE, s.edits \cup {n}), s, s.rev + 1, now, s.last,
                 FALSE, s.turns, s.edits \cup {n}, s.decayed)
  BY <1>1, SetGain
<1> QED BY <1>2, <1>3

LEMMA ManualEditIs ==
  ASSUME NEW s \in States, now \in Nat, s.at <= now, NEW n \in Nat
  PROVE  Becomes(ManualEdit(s, n), s, s.rev + 1, now, s.last, s.gain, s.turns, s.edits \cup {n},
                 s.decayed + (now - s.at))
<1> DEFINE d == Decayed(s)
<1>1. Becomes(d, s, s.rev, now, s.last, s.gain, s.turns, s.edits, s.decayed + (now - s.at))
  BY DecayedIs
<1>2. ManualEdit(s, n) = Edited(d, d.rev + 1, d.edits \cup {n})
  BY DEF ManualEdit, Edited
<1> HIDE DEF d
<1>3. d \in States /\ d.rev + 1 \in Nat /\ d.edits \cup {n} \in SUBSET Nat
  BY <1>1, FieldsOf DEF Becomes
<1>4. Becomes(ManualEdit(s, n), d, d.rev + 1, d.at, d.last, d.gain, d.turns, d.edits \cup {n},
              d.decayed)
  BY <1>2, <1>3, SetEdits
<1> QED BY <1>1, <1>4 DEF Becomes

Edits(s, n) == {SetOverride(s, n), RestoreConfigured(s, n), ManualEdit(s, n)}

\* Edits add themselves and leave the turns alone.
LEMMA EditIs ==
  ASSUME NEW s \in States, now \in Nat, s.at <= now, NEW n \in Nat, NEW u \in Edits(s, n)
  PROVE  u.id = s.id /\ u.legacy = s.legacy /\ u.turns = s.turns /\ u.edits = s.edits \cup {n}
<1>1. CASE u = ManualEdit(s, n)
  BY <1>1, ManualEditIs DEF Becomes
<1>2. CASE u = SetOverride(s, n)
  BY <1>2, GainIs DEF Becomes
<1>3. CASE u = RestoreConfigured(s, n)
  BY <1>3, GainIs DEF Becomes
<1> QED BY <1>1, <1>2, <1>3 DEF Edits

LEMMA InitialIs ==
  ASSUME now \in Nat, NEW i \in Identities, NEW rev \in Nat
  PROVE  LET u == [Initial(i) EXCEPT !.rev = rev]
         IN  Good(Initial(i), now) /\ Initial(i).id = i /\ ~Initial(i).legacy
             /\ Good(u, now) /\ u.id = i /\ ~u.legacy /\ u.turns = <<>> /\ u.edits = {}
<1>1. Good(Initial(i), now) /\ Initial(i).id = i /\ ~Initial(i).legacy
      /\ Initial(i).turns = <<>> /\ Initial(i).edits = {}
  BY DEF Initial, States, Good, TurnIds
<1>2. Initial(i) \in States
  BY <1>1 DEF Good
<1> DEFINE u == [Initial(i) EXCEPT !.rev = rev]  s == Initial(i)
<1> HIDE DEF s
<1>3. Becomes([s EXCEPT !.rev = rev], s, rev, s.at, s.last, s.gain, s.turns, s.edits, s.decayed)
  BY <1>2, SetRevision DEF s
<1>4. u = [s EXCEPT !.rev = rev]
  BY DEF s
<1> HIDE DEF u
<1> QED BY <1>1, <1>3, <1>4 DEF Becomes, Good, s, u

LEMMA ContinuedIs ==
  ASSUME NEW s, now \in Nat, Good(s, now), NEW i \in Identities
  PROVE  LET u == ContinuedFrom(s, i)
         IN  Good(u, now) /\ u.id = i /\ u.legacy = s.legacy
<1>1. ContinuedFrom(s, i) = [s EXCEPT !.id = i, !.at = now] /\ s \in States
  BY DEF ContinuedFrom, Good
<1> DEFINE u == [s EXCEPT !.id = i, !.at = now]
<1>2. /\ u \in States /\ u.id = i /\ u.legacy = s.legacy /\ u.born = s.born /\ u.at = now
      /\ u.last = s.last /\ u.turns = s.turns /\ u.decayed = s.decayed
  BY <1>1 DEF States
<1> HIDE DEF u
<1>3. s.at \in Nat /\ s.born \in Nat /\ s.decayed \in Nat
  BY <1>1, FieldsOf
<1>4. Good(u, now)
  BY <1>2, <1>3 DEF Good
<1> QED BY <1>1, <1>2, <1>4 DEF u

\* Time passes.
LEMMA GoodLater ==
  ASSUME NEW s, NEW t \in Nat, NEW u \in Nat, t <= u, Good(s, t)
  PROVE  Good(s, u)
<1>1. s.at \in Nat
  BY FieldsOf DEF Good
<1> QED BY <1>1 DEF Good

-----------------------------------------------------------------------------
(* Good states stay good.                                                  *)

LEMMA KeepsGood ==
  ASSUME now \in Nat, NEW s, Good(s, now), NEW u, NEW rev, NEW gain, NEW made, NEW decayed,
         Becomes(u, s, rev, now, s.last, gain, s.turns, made, decayed), s.born + decayed <= now
  PROVE  Good(u, now)
  BY DEF Becomes, Good

LEMMA GoodChanges ==
  ASSUME now \in Nat, NEW s, Good(s, now), NEW n \in Nat
  PROVE  /\ Good(Touch(s), now) /\ Good(SetOverride(s, n), now)
         /\ Good(RestoreConfigured(s, n), now) /\ Good(ManualEdit(s, n), now)
<1>1. s \in States /\ s.at <= now /\ s.born + s.decayed <= s.at
  BY DEF Good
<1>2. s.at \in Nat /\ s.born \in Nat /\ s.decayed \in Nat
  BY <1>1, FieldsOf
<1>3. s.born + s.decayed <= now /\ s.born + (s.decayed + (now - s.at)) <= now
  BY <1>1, <1>2
<1>4. Good(Touch(s), now)
  BY <1>1, <1>3, TouchIs, KeepsGood
<1>5. Good(SetOverride(s, n), now) /\ Good(RestoreConfigured(s, n), now)
  BY <1>1, <1>3, GainIs, KeepsGood
<1>6. Good(ManualEdit(s, n), now)
  BY <1>1, <1>3, ManualEditIs, KeepsGood
<1> QED BY <1>4, <1>5, <1>6

\* A turn that is appended is not the last one applied.
LEMMA GoodTurn ==
  ASSUME now \in Nat, NEW s, Good(s, now), NEW turn \in TurnIds \cup {None}, ~Seen(s, turn)
  PROVE  Good(ApplyTurn(s, turn), now)
<1> DEFINE u == ApplyTurn(s, turn)
<1>1. s \in States /\ s.at <= now /\ s.born + s.decayed <= s.at
  BY DEF Good
<1>2. s.at \in Nat /\ s.born \in Nat /\ s.decayed \in Nat /\ s.turns \in Seq(TurnIds)
  BY <1>1, FieldsOf
<1>3. s.born + (s.decayed + (now - s.at)) <= now
  BY <1>1, <1>2
<1>4. Becomes(u, s, s.rev + 1, now, IF turn = None THEN s.last ELSE turn,
              s.gain, IF turn = None THEN s.turns ELSE Append(s.turns, turn), s.edits,
              s.decayed + (now - s.at))
  BY <1>1, ApplyTurnIs
<1> HIDE DEF u
<1> SUFFICES Good(u, now)
  BY DEF u
<1>5. CASE turn = None
  <2>1. Becomes(u, s, s.rev + 1, now, s.last, s.gain, s.turns, s.edits, s.decayed + (now - s.at))
    BY <1>4, <1>5
  <2> QED BY <1>3, <2>1, KeepsGood
<1>6. CASE turn # None
  <2>1. /\ u \in States /\ u.at = now /\ u.born = s.born /\ u.last = turn
        /\ u.turns = Append(s.turns, turn) /\ u.decayed = s.decayed + (now - s.at)
    BY <1>4, <1>6 DEF Becomes
  <2>2. Len(u.turns) = Len(s.turns) + 1 /\ u.turns[Len(u.turns)] = turn
        /\ \A k \in 1 .. Len(s.turns) : u.turns[k] = s.turns[k]
    BY <1>2, <1>6, <2>1
  <2>3. Len(s.turns) \in Nat /\ (Len(s.turns) > 0 => s.turns[Len(s.turns)] # turn)
    BY <1>2, <1>6 DEF Good, Seen
  <2>4. ASSUME NEW k \in 1 .. Len(u.turns) - 1
        PROVE  u.turns[k] # u.turns[k + 1]
    <3>1. CASE k = Len(s.turns)
      BY <2>2, <2>3, <3>1
    <3>2. CASE k # Len(s.turns)
      <4>1. k \in 1 .. Len(s.turns) - 1 /\ k \in 1 .. Len(s.turns) /\ k + 1 \in 1 .. Len(s.turns)
        BY <2>2, <2>3, <3>2
      <4> QED BY <2>2, <4>1 DEF Good
    <3> QED BY <3>1, <3>2
  <2>5. Len(u.turns) > 0
    BY <2>2, <2>3
  <2>6. u.born + u.decayed <= u.at /\ u.at <= now
    BY <1>3, <2>1
  <2>7. u.last = turn
    BY <2>1
  <2> QED BY <1>6, <2>1, <2>2, <2>4, <2>5, <2>6, <2>7 DEF Good
<1> QED BY <1>5, <1>6

-----------------------------------------------------------------------------
(* Calls.                                                                  *)

CallTypes ==
  /\ pc \in [Workers -> Places]
  /\ call \in [Workers -> CallRecords \cup {None}]
  /\ snap \in [Workers -> States \cup {None}]

LEMMA PlainIs ==
  ASSUME calls \in Nat, NEW kind \in Kinds, NEW i \in Identities
  PROVE  Plain(kind, i) \in CallRecords
  BY DEF Plain, CallRecords

LEMMA RecordChanges ==
  ASSUME NEW c \in CallRecords
  PROVE  /\ \A parent \in Identities \cup {None} :
              [c EXCEPT !.parent = parent] \in CallRecords
         /\ \A parent \in Identities \cup {None}, turn \in TurnIds \cup {None}, semantic \in BOOLEAN :
              [c EXCEPT !.parent = parent, !.turn = turn, !.semantic = semantic] \in CallRecords
         /\ \A t \in Nat : LET d == [c EXCEPT !.t = t] IN d \in CallRecords /\ d.sid = c.sid
         /\ \A n \in Nat : LET d == [c EXCEPT !.kind = "turn", !.turn = n]
                           IN  d \in CallRecords /\ d.sid = c.sid
  BY DEF CallRecords, TurnIds, Kinds, HookKinds

LEMMA CallFields ==
  ASSUME NEW c \in CallRecords
  PROVE  /\ c.kind \in Kinds /\ c.sid \in Identities /\ c.parent \in Identities \cup {None}
         /\ c.turn \in TurnIds \cup {None} /\ c.n \in Nat /\ c.t \in Nat
  BY DEF CallRecords

-----------------------------------------------------------------------------
(* The invariant.                                                          *)

Legacy(c) == c \in States /\ c.legacy

\* A file holds a good state of a session that has this file.
StoreInv ==
  \A p \in Paths : store[p] \in States => Good(store[p], now) /\ PathOf[store[p].id] = p

\* What a call has loaded is good and comes from the file it works on; a call
\* that found no state never meets a legacy one there.
WorkerInv(w) ==
  /\ pc[w] # "idle" => call[w] \in CallRecords
  /\ snap[w] \in States => Good(snap[w], now)
  /\ pc[w] \in {"save", "act", "semantic", "apply"} =>
       snap[w] \in States /\ PathOf[snap[w].id] = PathFor(w)
  /\ pc[w] = "loadParent" => call[w].parent \in Identities
  /\ pc[w] \in {"loadParent", "create", "save"} => ~Legacy(store[PathFor(w)])
  /\ pc[w] = "save" => snap[w].id = call[w].sid /\ ~snap[w].legacy

RuntimeInv == TypeOK /\ StoreInv /\ \A w \in Workers : WorkerInv(w)

LEMMA InvInitially == Init => RuntimeInv
<1> SUFFICES ASSUME Init PROVE RuntimeInv
  OBVIOUS
<1>1. PICK legacy \in BOOLEAN :
        /\ store \in [Paths -> {Missing, Malformed} \cup
                       {[id |-> i, rev |-> 0, at |-> 0, legacy |-> legacy, last |-> None,
                         gain |-> FALSE, turns |-> <<>>, edits |-> {}, born |-> 0,
                         decayed |-> 0] : i \in Identities}]
        /\ \A p \in Paths : store[p] \in States => PathOf[store[p].id] = p
  BY DEF Init
<1>2. ASSUME NEW i \in Identities
      PROVE  Good([id |-> i, rev |-> 0, at |-> 0, legacy |-> legacy, last |-> None,
                   gain |-> FALSE, turns |-> <<>>, edits |-> {}, born |-> 0, decayed |-> 0], 0)
  BY DEF Good, States
<1>3. now = 0
  BY DEF Init
<1>4. StoreInv /\ store \in [Paths -> States \cup {Missing, Malformed}]
  <2>1. ASSUME NEW p \in Paths
        PROVE  store[p] \in {Missing, Malformed} \/ Good(store[p], now)
    BY <1>1, <1>2, <1>3
  <2> QED BY <1>1, <2>1, ValuesDiffer DEF StoreInv, Good
<1>5. /\ now \in Nat /\ soul \in {"v2", "legacy"} /\ semanticActive \in BOOLEAN
      /\ pc = [w \in Workers |-> "idle"] /\ call = [w \in Workers |-> None]
      /\ snap = [w \in Workers |-> None] /\ calls \in Nat /\ owed \in [Paths -> SUBSET Nat]
      /\ muts \in [Paths -> Nat]
  BY DEF Init
<1>6. TypeOK
  BY <1>4, <1>5 DEF TypeOK, Places
<1>7. \A w \in Workers : WorkerInv(w)
  BY <1>5, ValuesDiffer DEF WorkerInv
<1> QED BY <1>4, <1>6, <1>7 DEF RuntimeInv

\* The files after a step.
StoreAfter ==
  /\ store' \in [Paths -> States \cup {Missing, Malformed}]
  /\ muts' \in [Paths -> Nat]
  /\ now' \in Nat /\ now <= now'
  /\ StoreInv'
  /\ \A p \in Paths : Legacy(store'[p]) => Legacy(store[p])

LEMMA StoreSame ==
  ASSUME RuntimeInv, UNCHANGED <<store, now, muts>>
  PROVE  StoreAfter
  BY DEF RuntimeInv, StoreInv, StoreAfter, TypeOK

LEMMA StorePut ==
  ASSUME RuntimeInv, NEW i \in Identities, NEW u, Good(u, now), u.id = i,
         u.legacy => Legacy(store[PathOf[i]]),
         store' = [store EXCEPT ![PathOf[i]] = u], muts' \in [Paths -> Nat], UNCHANGED now
  PROVE  StoreAfter
<1>1. PathOf[i] \in Paths /\ u \in States
  BY PathOfType DEF Good
<1>2. store \in [Paths -> States \cup {Missing, Malformed}] /\ now \in Nat
  BY DEF RuntimeInv, TypeOK
<1>3. \A p \in Paths : store'[p] = IF p = PathOf[i] THEN u ELSE store[p]
  BY <1>2
<1>4. StoreInv'
  BY <1>3 DEF StoreInv, RuntimeInv
<1> QED BY <1>1, <1>2, <1>3, <1>4 DEF StoreAfter, Legacy

LEMMA StoreRemoved ==
  ASSUME RuntimeInv, NEW p \in Paths, store' = [store EXCEPT ![p] = Missing], UNCHANGED <<now, muts>>
  PROVE  StoreAfter
<1>1. /\ store \in [Paths -> States \cup {Missing, Malformed}] /\ now \in Nat
      /\ muts \in [Paths -> Nat]
  BY DEF RuntimeInv, TypeOK
<1>2. \A q \in Paths : store'[q] = IF q = p THEN Missing ELSE store[q]
  BY <1>1
<1>3. StoreInv'
  BY <1>2, ValuesDiffer DEF StoreInv, RuntimeInv
<1> QED BY <1>1, <1>2, <1>3, ValuesDiffer DEF StoreAfter, Legacy

LEMMA StoreLater ==
  ASSUME RuntimeInv, now' = now + 1, UNCHANGED <<store, muts>>
  PROVE  StoreAfter
<1>1. now \in Nat /\ now + 1 \in Nat /\ now <= now + 1
  BY DEF RuntimeInv, TypeOK
<1>2. \A p \in Paths : Good(store[p], now) => Good(store[p], now + 1)
  BY <1>1, GoodLater
<1> QED BY <1>1, <1>2 DEF RuntimeInv, StoreInv, StoreAfter, TypeOK

Others(w) ==
  \A v \in Workers \ {w} : pc'[v] = pc[v] /\ call'[v] = call[v] /\ snap'[v] = snap[v]

LEMMA WorkerSame ==
  ASSUME RuntimeInv, StoreAfter, NEW w \in Workers,
         pc'[w] = pc[w], call'[w] = call[w], snap'[w] = snap[w]
  PROVE  WorkerInv(w)'
<1>1. now \in Nat /\ now' \in Nat /\ now <= now' /\ WorkerInv(w)
  BY DEF RuntimeInv, TypeOK, StoreAfter
<1>2. Good(snap[w], now) => Good(snap[w], now')
  BY <1>1, GoodLater
<1>3. pc[w] # "idle" => PathFor(w) \in Paths
  BY <1>1, CallFields, PathOfType DEF WorkerInv, PathFor
<1>4. pc[w] \in {"loadParent", "create", "save"} => ~Legacy(store'[PathFor(w)])
  BY <1>1, <1>3 DEF WorkerInv, StoreAfter
<1>5. PathFor(w)' = PathFor(w)
  BY DEF PathFor
<1> QED BY <1>1, <1>2, <1>4, <1>5 DEF WorkerInv

\* A step is a step of the files, of one worker, and of nothing else.
LEMMA InvAfter ==
  ASSUME RuntimeInv, StoreAfter, NEW w \in Workers, Others(w), CallTypes', WorkerInv(w)',
         soul' \in {"v2", "legacy"}, semanticActive' \in BOOLEAN, calls' \in Nat,
         owed' \in [Paths -> SUBSET Nat]
  PROVE  RuntimeInv'
<1>1. \A v \in Workers \ {w} : WorkerInv(v)'
  BY WorkerSame DEF Others
<1> QED BY <1>1 DEF RuntimeInv, TypeOK, StoreAfter, CallTypes

\* A call is over.
LEMMA InvFinish ==
  ASSUME RuntimeInv, StoreAfter, NEW w \in Workers, Finish(w),
         soul' \in {"v2", "legacy"}, semanticActive' \in BOOLEAN, calls' \in Nat,
         owed' \in [Paths -> SUBSET Nat]
  PROVE  RuntimeInv'
<1>1. CallTypes' /\ Others(w) /\ pc'[w] = "idle" /\ snap'[w] = None
  BY DEF Finish, Goto, RuntimeInv, TypeOK, CallTypes, Others, Places
<1>2. WorkerInv(w)'
  BY <1>1, ValuesDiffer DEF WorkerInv
<1> QED BY <1>1, <1>2, InvAfter

\* What is known of a call under way.
LEMMA Working ==
  ASSUME RuntimeInv, NEW w \in Workers, pc[w] # "idle"
  PROVE  /\ call[w] \in CallRecords /\ call[w].kind \in Kinds /\ call[w].sid \in Identities
         /\ call[w].parent \in Identities \cup {None} /\ call[w].turn \in TurnIds \cup {None}
         /\ call[w].n \in Nat /\ call[w].t \in Nat
         /\ PathFor(w) = PathOf[call[w].sid] /\ PathFor(w) \in Paths
         /\ snap[w] \in States \cup {None} /\ WorkerInv(w)
<1>1. call[w] \in CallRecords /\ WorkerInv(w) /\ snap[w] \in States \cup {None}
  BY DEF RuntimeInv, WorkerInv, TypeOK
<1> QED BY <1>1, CallFields, PathOfType DEF PathFor

Calls ==
  /\ UNCHANGED <<store, muts, now, soul, semanticActive, calls, owed>>

LEMMA NoStateStep ==
  ASSUME RuntimeInv, NEW w \in Workers, pc[w] # "idle", NoState(w), Calls
  PROVE  RuntimeInv'
<1> USE DEF Calls
<1>0. StoreAfter /\ now \in Nat /\ TypeOK
  BY StoreSame DEF RuntimeInv, TypeOK
<1>1. CASE Finish(w)
  BY <1>0, <1>1, InvFinish DEF TypeOK
<1>2. CASE Goto(w, "collect") /\ call' = [call EXCEPT ![w].t = now] /\ UNCHANGED snap
  <2>1. [call[w] EXCEPT !.t = now] \in CallRecords
    BY <1>0, Working, RecordChanges
  <2>2. CallTypes' /\ Others(w) /\ pc'[w] = "collect" /\ call'[w] \in CallRecords
        /\ snap'[w] = snap[w]
    BY <1>0, <1>2, <2>1 DEF Goto, TypeOK, CallTypes, Others, Places
  <2>3. WorkerInv(w)'
    BY <2>2, Working DEF WorkerInv
  <2> QED BY <1>0, <2>2, <2>3, InvAfter DEF TypeOK
<1> QED BY <1>1, <1>2 DEF NoState

LEMMA InvokeStep ==
  ASSUME RuntimeInv, NEW w \in Workers, NEW c \in CallRecords, Invoke(w, c)
  PROVE  RuntimeInv'
<1>1. StoreAfter /\ TypeOK
  BY StoreSame DEF RuntimeInv, Invoke
<1>2. CallTypes' /\ Others(w) /\ pc'[w] \in {"inspect", "load"} /\ call'[w] = c
      /\ snap'[w] = snap[w] /\ WorkerInv(w) /\ UNCHANGED now
  BY <1>1 DEF Invoke, Goto, TypeOK, CallTypes, Others, Places, RuntimeInv
<1>3. WorkerInv(w)'
  BY <1>2 DEF WorkerInv
<1> QED BY <1>1, <1>2, <1>3, InvAfter DEF Invoke, TypeOK

LEMMA ArriveStep ==
  ASSUME RuntimeInv, NEW w \in Workers, Arrive(w)
  PROVE  RuntimeInv'
<1>0. calls \in Nat
  BY DEF RuntimeInv, TypeOK
<1>1. CASE IgnoreTurn(w)
  <2>1. StoreAfter /\ TypeOK
    BY <1>1, StoreSame DEF RuntimeInv, IgnoreTurn
  <2>2. CallTypes' /\ Others(w)
    BY <1>1, <2>1 DEF IgnoreTurn, CallTypes, Others, TypeOK
  <2>3. WorkerInv(w)'
    BY <1>1, <2>1, WorkerSame DEF IgnoreTurn
  <2> QED BY <1>1, <2>1, <2>2, <2>3, InvAfter DEF IgnoreTurn, TypeOK
<1>2. ASSUME NEW i \in Identities, NEW parent \in Identities \cup {None}, NEW kind \in Kinds,
             InvokeHook(w, kind, i, parent)
      PROVE  RuntimeInv'
  BY <1>0, <1>2, PlainIs, RecordChanges, InvokeStep DEF InvokeHook
<1>3. ASSUME NEW i \in Identities, NEW parent \in Identities \cup {None},
             NEW turn \in Turns \cup {None}, NEW semantic \in BOOLEAN,
             InvokeTurn(w, i, parent, turn, semantic)
      PROVE  RuntimeInv'
  <2>1. "turn" \in Kinds /\ turn \in TurnIds \cup {None}
    BY DEF Kinds, HookKinds, TurnIds
  <2>2. Plain("turn", i) \in CallRecords
    BY <1>0, <2>1, PlainIs
  <2>3. [Plain("turn", i) EXCEPT !.parent = parent, !.turn = turn, !.semantic = semantic]
          \in CallRecords
    BY <2>1, <2>2, RecordChanges
  <2> QED BY <1>3, <2>3, InvokeStep DEF InvokeTurn
<1>4. ASSUME NEW i \in Identities, NEW kind \in Kinds, InvokePlain(w, kind, i)
      PROVE  RuntimeInv'
  BY <1>0, <1>4, PlainIs, InvokeStep DEF InvokePlain
<1> QED BY <1>1, <1>2, <1>3, <1>4 DEF Arrive

\* _state.
LEMMA LoadingStep ==
  ASSUME RuntimeInv, NEW w \in Workers,
         \/ Load(w) \/ LoadRaises(w) \/ LoadMissing(w) \/ LoadParent(w) \/ Create(w) \/ Save(w)
  PROVE  RuntimeInv'
<1>0. TypeOK /\ StoreInv /\ now \in Nat
  BY DEF RuntimeInv, TypeOK
<1>1. CASE Load(w)
  <2>1. StoreAfter
    BY <1>1, StoreSame DEF Load
  <2>2. store[PathFor(w)] \in States /\ PathFor(w) \in Paths /\ call[w] \in CallRecords
    BY <1>1, Working DEF Load
  <2>3. Good(store[PathFor(w)], now) /\ PathOf[store[PathFor(w)].id] = PathFor(w)
    BY <1>0, <2>2 DEF StoreInv
  <2>4. /\ CallTypes' /\ Others(w) /\ pc'[w] = "act" /\ call'[w] = call[w]
        /\ snap'[w] = store[PathFor(w)] /\ UNCHANGED <<now, store>> /\ PathFor(w)' = PathFor(w)
    BY <1>0, <1>1, <2>2 DEF Load, Goto, TypeOK, CallTypes, Others, Places, PathFor
  <2>5. WorkerInv(w)'
    BY <2>2, <2>3, <2>4 DEF WorkerInv
  <2> QED BY <1>0, <1>1, <2>1, <2>4, <2>5, InvAfter DEF Load, TypeOK
<1>2. CASE LoadRaises(w)
  <2>1. StoreAfter
    BY <1>2, StoreSame DEF LoadRaises
  <2> QED BY <1>0, <1>2, <2>1, InvFinish DEF LoadRaises, TypeOK
<1>3. CASE LoadMissing(w)
  <2>1. StoreAfter
    BY <1>3, StoreSame DEF LoadMissing
  <2>2. ~Legacy(store[PathFor(w)]) /\ call[w] \in CallRecords /\ WorkerInv(w)
    BY <1>3, Working, ValuesDiffer DEF LoadMissing, Legacy
  <2>3. /\ CallTypes' /\ Others(w) /\ pc'[w] \in {"loadParent", "create"} /\ call'[w] = call[w]
        /\ snap'[w] = snap[w] /\ UNCHANGED <<now, store>> /\ PathFor(w)' = PathFor(w)
        /\ pc'[w] = "loadParent" => call[w].parent \in Identities
    BY <1>0, <1>3 DEF LoadMissing, Goto, TypeOK, CallTypes, Others, Places, PathFor
  <2>4. WorkerInv(w)'
    BY <2>2, <2>3 DEF WorkerInv
  <2> QED BY <1>0, <1>3, <2>1, <2>3, <2>4, InvAfter DEF LoadMissing, TypeOK
<1>4. CASE LoadParent(w)
  <2> DEFINE parent == store[PathOf[call[w].parent]]  u == ContinuedFrom(parent, call[w].sid)
  <2>1. StoreAfter
    BY <1>4, StoreSame DEF LoadParent
  <2>2. /\ call[w] \in CallRecords /\ call[w].sid \in Identities /\ WorkerInv(w)
        /\ PathOf[call[w].parent] \in Paths /\ pc[w] = "loadParent"
        /\ PathFor(w) = PathOf[call[w].sid]
    BY <1>4, Working, PathOfType DEF LoadParent, WorkerInv
  <2>3. CASE /\ parent \in States /\ ~parent.legacy
             /\ snap' = [snap EXCEPT ![w] = u]
             /\ Goto(w, "save") /\ UNCHANGED call
    <3>1. Good(u, now) /\ u.id = call[w].sid /\ ~u.legacy
      BY <1>0, <2>2, <2>3, ContinuedIs DEF StoreInv
    <3> HIDE DEF u
    <3>2. u \in States
      BY <3>1 DEF Good
    <3>3. /\ CallTypes' /\ Others(w) /\ pc'[w] = "save" /\ call'[w] = call[w]
          /\ snap'[w] = u /\ UNCHANGED <<now, store>> /\ PathFor(w)' = PathFor(w)
      BY <1>0, <1>4, <2>3, <3>2 DEF LoadParent, Goto, TypeOK, CallTypes, Others, Places, PathFor
    <3>4. WorkerInv(w)'
      BY <2>2, <3>1, <3>2, <3>3 DEF WorkerInv
    <3> QED BY <1>0, <1>4, <2>1, <3>3, <3>4, InvAfter DEF LoadParent, TypeOK
  <2>4. CASE NoState(w)
    BY <1>4, <2>2, <2>4, NoStateStep DEF LoadParent, Calls
  <2>5. CASE parent = Missing /\ Goto(w, "create") /\ UNCHANGED <<call, snap>>
    <3>1. /\ CallTypes' /\ Others(w) /\ pc'[w] = "create" /\ call'[w] = call[w]
          /\ snap'[w] = snap[w] /\ UNCHANGED <<now, store>> /\ PathFor(w)' = PathFor(w)
      BY <1>0, <1>4, <2>5 DEF LoadParent, Goto, TypeOK, CallTypes, Others, Places, PathFor
    <3>2. WorkerInv(w)'
      BY <2>2, <3>1 DEF WorkerInv
    <3> QED BY <1>0, <1>4, <2>1, <3>1, <3>2, InvAfter DEF LoadParent, TypeOK
  <2> QED BY <1>4, <2>3, <2>4, <2>5 DEF LoadParent
<1>5. CASE Create(w)
  <2> DEFINE u == Initial(call[w].sid)
  <2>1. StoreAfter
    BY <1>5, StoreSame DEF Create
  <2>2. /\ call[w] \in CallRecords /\ call[w].sid \in Identities /\ WorkerInv(w)
        /\ pc[w] = "create" /\ PathFor(w) = PathOf[call[w].sid]
    BY <1>5, Working DEF Create
  <2>3. CASE snap' = [snap EXCEPT ![w] = u] /\ Goto(w, "save") /\ UNCHANGED call
    <3>1. Good(u, now) /\ u.id = call[w].sid /\ ~u.legacy
      BY <1>0, <2>2, InitialIs
    <3> HIDE DEF u
    <3>2. u \in States
      BY <3>1 DEF Good
    <3>3. /\ CallTypes' /\ Others(w) /\ pc'[w] = "save" /\ call'[w] = call[w]
          /\ snap'[w] = u /\ UNCHANGED <<now, store>> /\ PathFor(w)' = PathFor(w)
      BY <1>0, <1>5, <2>3, <3>2 DEF Create, Goto, TypeOK, CallTypes, Others, Places, PathFor
    <3>4. WorkerInv(w)'
      BY <2>2, <3>1, <3>2, <3>3 DEF WorkerInv
    <3> QED BY <1>0, <1>5, <2>1, <3>3, <3>4, InvAfter DEF Create, TypeOK
  <2>4. CASE NoState(w)
    BY <1>5, <2>2, <2>4, NoStateStep DEF Create, Calls
  <2> QED BY <1>5, <2>3, <2>4 DEF Create
<1>6. CASE Save(w)
  <2> DEFINE u == snap[w]
  <2>1. /\ call[w] \in CallRecords /\ call[w].sid \in Identities /\ WorkerInv(w)
        /\ pc[w] = "save" /\ PathFor(w) = PathOf[call[w].sid]
    BY <1>6, Working DEF Save
  <2>2. u \in States /\ Good(u, now) /\ u.id = call[w].sid /\ ~u.legacy
    BY <2>1 DEF WorkerInv
  <2>3. StoreAfter
    <3>1. muts' \in [Paths -> Nat]
      BY <1>0, <1>6 DEF Save, TypeOK
    <3> QED BY <1>6, <2>1, <2>2, <3>1, StorePut DEF Save
  <2>4. /\ CallTypes' /\ Others(w) /\ pc'[w] = "act" /\ call'[w] = call[w]
        /\ snap'[w] = snap[w] /\ UNCHANGED now /\ PathFor(w)' = PathFor(w)
    BY <1>0, <1>6 DEF Save, Goto, TypeOK, CallTypes, Others, Places, PathFor
  <2>5. WorkerInv(w)'
    BY <2>1, <2>2, <2>4 DEF WorkerInv
  <2> QED BY <1>0, <1>6, <2>3, <2>4, <2>5, InvAfter DEF Save, TypeOK
<1> QED BY <1>1, <1>2, <1>3, <1>4, <1>5, <1>6

\* A call goes on to another place with what it has.
LEMMA InvMove ==
  ASSUME RuntimeInv, NEW w \in Workers, NEW place \in {"apply", "semantic", "collect"}, Goto(w, place),
         pc[w] \in {"act", "semantic"}, UNCHANGED <<store, muts, now, soul, call, snap, calls, owed>>,
         semanticActive' \in BOOLEAN
  PROVE  RuntimeInv'
<1>0. TypeOK /\ StoreAfter /\ WorkerInv(w) /\ call[w] \in CallRecords
  BY StoreSame, Working DEF RuntimeInv
<1>1. /\ CallTypes' /\ Others(w) /\ pc'[w] = place /\ call'[w] = call[w]
      /\ snap'[w] = snap[w] /\ UNCHANGED <<now, store>> /\ PathFor(w)' = PathFor(w)
  BY <1>0 DEF Goto, TypeOK, CallTypes, Others, Places, PathFor
<1>2. WorkerInv(w)'
  BY <1>0, <1>1 DEF WorkerInv
<1> QED BY <1>0, <1>1, <1>2, InvAfter DEF TypeOK

\* The steps between loading and the exact mutation.
LEMMA ActingStep ==
  ASSUME RuntimeInv, NEW w \in Workers,
         \/ ActStart(w) \/ ActDone(w) \/ ActTurn(w) \/ ActSemanticTurn(w) \/ SemanticDone(w)
         \/ ActMutate(w) \/ ActIntervene(w) \/ ActInterveneIgnored(w) \/ Inspect(w)
  PROVE  RuntimeInv'
<1>0. TypeOK /\ StoreInv /\ now \in Nat
  BY DEF RuntimeInv, TypeOK
<1>1. CASE ActStart(w)
  <2>1. [call[w] EXCEPT !.t = now] \in CallRecords /\ StoreAfter
    BY <1>0, <1>1, Working, RecordChanges, StoreSame DEF ActStart
  <2>2. /\ CallTypes' /\ Others(w) /\ pc'[w] = "collect" /\ call'[w] \in CallRecords
        /\ snap'[w] = snap[w] /\ UNCHANGED now
    BY <1>0, <1>1, <2>1 DEF ActStart, Goto, TypeOK, CallTypes, Others, Places
  <2>3. WorkerInv(w)'
    BY <1>1, <2>2, Working DEF ActStart, WorkerInv
  <2> QED BY <1>0, <1>1, <2>1, <2>2, <2>3, InvAfter DEF ActStart, TypeOK
<1>2. CASE ActDone(w) \/ ActInterveneIgnored(w)
  <2>1. StoreAfter
    BY <1>2, StoreSame DEF ActDone, ActInterveneIgnored
  <2> QED BY <1>0, <1>2, <2>1, InvFinish DEF ActDone, ActInterveneIgnored, TypeOK
<1>3. CASE ActTurn(w) \/ ActMutate(w)
  BY <1>0, <1>3, InvMove DEF ActTurn, ActMutate, TypeOK
<1>4. CASE ActSemanticTurn(w)
  BY <1>4, InvMove DEF ActSemanticTurn
<1>5. CASE SemanticDone(w)
  BY <1>5, InvMove DEF SemanticDone
<1>6. CASE ActIntervene(w)
  <2>1. snap[w] \in States /\ call[w] \in CallRecords /\ StoreAfter
    BY <1>6, Working, StoreSame DEF ActIntervene, WorkerInv
  <2>2. snap[w].rev + 1 \in Nat
    BY <2>1, FieldsOf
  <2> DEFINE c == [call[w] EXCEPT !.kind = "turn", !.turn = snap[w].rev + 1]
  <2>3. c \in CallRecords
    BY <2>1, <2>2, RecordChanges
  <2>4. call' = [call EXCEPT ![w] = c]
    BY <1>6 DEF ActIntervene
  <2> HIDE DEF c
  <2>5. /\ CallTypes' /\ Others(w) /\ pc'[w] = "load" /\ call'[w] \in CallRecords
        /\ snap'[w] = None
    BY <1>0, <1>6, <2>3, <2>4 DEF ActIntervene, Goto, TypeOK, CallTypes, Others, Places
  <2>6. WorkerInv(w)'
    BY <2>5, ValuesDiffer DEF WorkerInv
  <2> QED BY <1>0, <1>6, <2>1, <2>5, <2>6, InvAfter DEF ActIntervene, TypeOK
<1>7. CASE Inspect(w)
  <2>1. StoreAfter /\ call[w] \in CallRecords /\ PathFor(w) \in Paths
    BY <1>7, StoreSame, Working DEF Inspect
  <2>2. CASE Finish(w)
    BY <1>0, <1>7, <2>1, <2>2, InvFinish DEF Inspect, TypeOK
  <2>3. CASE /\ store[PathFor(w)] \in States
             /\ snap' = [snap EXCEPT ![w] = store[PathFor(w)]]
             /\ Goto(w, "apply") /\ UNCHANGED call
    <3>1. Good(store[PathFor(w)], now) /\ PathOf[store[PathFor(w)].id] = PathFor(w)
      BY <1>0, <2>1, <2>3 DEF StoreInv
    <3>2. /\ CallTypes' /\ Others(w) /\ pc'[w] = "apply" /\ call'[w] = call[w]
          /\ snap'[w] = store[PathFor(w)] /\ UNCHANGED <<now, store>> /\ PathFor(w)' = PathFor(w)
      BY <1>0, <1>7, <2>3 DEF Inspect, Goto, TypeOK, CallTypes, Others, Places, PathFor
    <3>3. WorkerInv(w)'
      BY <2>1, <2>3, <3>1, <3>2 DEF WorkerInv
    <3> QED BY <1>0, <1>7, <2>1, <3>2, <3>3, InvAfter DEF Inspect, TypeOK
  <2> QED BY <1>7, <2>2, <2>3 DEF Inspect
<1> QED BY <1>1, <1>2, <1>3, <1>4, <1>5, <1>6, <1>7

\* The state a mutation works on is good, and has the file of the call.
LEMMA Mutating ==
  ASSUME RuntimeInv, NEW w \in Workers, pc[w] = "apply"
  PROVE  /\ MutatedId(w) \in Identities /\ PathOf[MutatedId(w)] = PathFor(w)
         /\ PathFor(w) \in Paths
         /\ Available(w) => Good(Current(w), now) /\ Current(w).id = MutatedId(w)
                            /\ Current(w) \in States
<1>1. /\ snap[w] \in States /\ PathOf[snap[w].id] = PathFor(w)
      /\ call[w].sid \in Identities /\ PathFor(w) = PathOf[call[w].sid] /\ PathFor(w) \in Paths
  BY Working DEF WorkerInv
<1>2. snap[w].id \in Identities
  BY <1>1, FieldsOf
<1>3. MutatedId(w) \in Identities /\ PathOf[MutatedId(w)] = PathFor(w)
  BY <1>1, <1>2 DEF MutatedId
<1> QED BY <1>1, <1>3 DEF Available, Current, RuntimeInv, StoreInv

\* A mutation that is good, keeps the identity and makes nothing legacy.
LEMMA CommitStep ==
  ASSUME RuntimeInv, NEW w \in Workers, pc[w] = "apply", Available(w), NEW u, Good(u, now),
         u.id = Current(w).id, u.legacy => Current(w).legacy, Commit(w, u), UNCHANGED now
  PROVE  StoreAfter
<1>1. /\ MutatedId(w) \in Identities /\ Current(w) \in States /\ Current(w).id = MutatedId(w)
  BY Mutating
<1>2. Current(w) = store[PathOf[MutatedId(w)]]
  BY DEF Current
<1>3. muts' \in [Paths -> Nat]
  BY <1>1, PathOfType DEF Commit, RuntimeInv, TypeOK
<1> QED BY <1>1, <1>2, <1>3, StorePut DEF Commit, Legacy

LEMMA ApplyingStep ==
  ASSUME RuntimeInv, NEW w \in Workers,
         \/ ApplyTurnLatest(w) \/ ApplyLifecycle(w) \/ ApplyReset(w) \/ ApplyEdit(w)
         \/ ApplyNothing(w) \/ StoreFails(w)
  PROVE  RuntimeInv'
<1> DEFINE s == Current(w)
<1>0. TypeOK /\ now \in Nat
  BY DEF RuntimeInv, TypeOK
<1>1. CASE ApplyTurnLatest(w)
  <2>1. Good(s, now) /\ s \in States /\ s.at <= now /\ call[w].turn \in TurnIds \cup {None}
        /\ ~Seen(s, call[w].turn)
    BY <1>1, Mutating, Working DEF ApplyTurnLatest, Good
  <2> DEFINE u == ApplyTurn(s, call[w].turn)
  <2>2. Good(u, now)
    BY <1>0, <2>1, GoodTurn
  <2>3. u.id = s.id /\ u.legacy = s.legacy
    BY <1>0, <2>1, ApplyTurnIs DEF Becomes
  <2>4. Commit(w, u) /\ UNCHANGED now
    BY <1>1 DEF ApplyTurnLatest
  <2> HIDE DEF u
  <2>5. StoreAfter
    BY <1>1, <2>2, <2>3, <2>4, CommitStep DEF ApplyTurnLatest
  <2> QED BY <1>0, <1>1, <2>5, InvFinish DEF ApplyTurnLatest, TypeOK
<1>2. CASE ApplyLifecycle(w)
  <2>1. Good(s, now) /\ s \in States
    BY <1>2, Mutating DEF ApplyLifecycle
  <2>2. Good(Touch(s), now) /\ Touch(s).id = s.id /\ Touch(s).legacy = s.legacy
    BY <1>0, <2>1, GoodChanges, TouchIs DEF Becomes
  <2>3. StoreAfter
    BY <1>2, <2>2, CommitStep DEF ApplyLifecycle
  <2> QED BY <1>0, <1>2, <2>3, InvFinish DEF ApplyLifecycle, TypeOK
<1>3. CASE ApplyReset(w)
  <2>1. Good(s, now) /\ s \in States
    BY <1>3, Mutating DEF ApplyReset
  <2>2. s.rev + 1 \in Nat /\ s.id \in Identities
    BY <2>1, FieldsOf
  <2>3. Good(ResetState(s), now) /\ ResetState(s).id = s.id /\ ~ResetState(s).legacy
    BY <1>0, <2>2, InitialIs DEF ResetState
  <2>4. StoreAfter
    BY <1>3, <2>3, CommitStep DEF ApplyReset
  <2>5. owed' \in [Paths -> SUBSET Nat]
    BY <1>0, <1>3 DEF ApplyReset, TypeOK
  <2> QED BY <1>0, <1>3, <2>4, <2>5, InvFinish DEF ApplyReset, TypeOK
<1>4. CASE ApplyEdit(w)
  <2>1. Good(s, now) /\ s \in States /\ s.at <= now /\ call[w].n \in Nat
    BY <1>4, Mutating, Working DEF ApplyEdit, Good
  <2>2. PICK u \in Edits(s, call[w].n) : Commit(w, u)
    BY <1>4 DEF ApplyEdit, Edits
  <2>3. Good(u, now)
    BY <1>0, <2>1, <2>2, GoodChanges DEF Edits
  <2>4. u.id = s.id /\ u.legacy = s.legacy
    BY <1>0, <2>1, <2>2, EditIs
  <2>5. StoreAfter
    BY <1>4, <2>2, <2>3, <2>4, CommitStep DEF ApplyEdit
  <2>6. owed' \in [Paths -> SUBSET Nat]
    BY <1>0, <1>4, <2>1 DEF ApplyEdit, Acknowledge, TypeOK
  <2> QED BY <1>0, <1>4, <2>5, <2>6, InvFinish DEF ApplyEdit, TypeOK
<1>5. CASE ApplyNothing(w) \/ StoreFails(w)
  <2>1. StoreAfter
    BY <1>5, StoreSame DEF ApplyNothing, StoreFails
  <2> QED BY <1>0, <1>5, <2>1, InvFinish DEF ApplyNothing, StoreFails, TypeOK
<1> QED BY <1>1, <1>2, <1>3, <1>4, <1>5

LEMMA CollectingStep ==
  ASSUME RuntimeInv, NEW w \in Workers,
         (\E p \in Paths : Collect(w, p)) \/ CollectDone(w)
  PROVE  RuntimeInv'
<1>0. TypeOK
  BY DEF RuntimeInv
<1>1. ASSUME NEW p \in Paths, Collect(w, p)
      PROVE  RuntimeInv'
  <2>1. StoreAfter
    BY <1>1, StoreRemoved DEF Collect
  <2>2. CallTypes' /\ Others(w) /\ owed' \in [Paths -> SUBSET Nat]
    BY <1>0, <1>1 DEF Collect, CallTypes, Others, TypeOK
  <2>3. WorkerInv(w)'
    BY <1>1, <2>1, WorkerSame DEF Collect
  <2> QED BY <1>0, <1>1, <2>1, <2>2, <2>3, InvAfter DEF Collect, TypeOK
<1>2. CASE CollectDone(w)
  <2>1. StoreAfter
    BY <1>2, StoreSame DEF CollectDone
  <2> QED BY <1>0, <1>2, <2>1, InvFinish DEF CollectDone, TypeOK
<1> QED BY <1>1, <1>2

\* The environment: a crash, the clock, the operator.
LEMMA EnvironmentStep ==
  ASSUME RuntimeInv, Crash \/ Tick \/ MigrateSoul \/ UNCHANGED vars
  PROVE  RuntimeInv'
<1>0. TypeOK
  BY DEF RuntimeInv
<1>1. CASE Crash
  <2> DEFINE dead == {w \in Workers : pc[w] # "idle" /\ call[w].kind \notin DashboardKinds}
  <2>1. StoreAfter
    BY <1>1, StoreSame DEF Crash
  <2>2. /\ pc' = [w \in Workers |-> IF w \in dead THEN "idle" ELSE pc[w]]
        /\ call' = [w \in Workers |-> IF w \in dead THEN None ELSE call[w]]
        /\ snap' = [w \in Workers |-> IF w \in dead THEN None ELSE snap[w]]
        /\ semanticActive' = FALSE /\ UNCHANGED <<soul, calls, owed>>
    BY <1>1 DEF Crash
  <2> HIDE DEF dead
  <2>3. CallTypes'
    BY <1>0, <2>2 DEF CallTypes, TypeOK, Places
  <2>4. ASSUME NEW w \in Workers
        PROVE  WorkerInv(w)'
    <3>1. CASE w \in dead
      BY <2>2, <3>1, ValuesDiffer DEF WorkerInv
    <3>2. CASE w \notin dead
      BY <2>1, <2>2, <3>2, WorkerSame
    <3> QED BY <3>1, <3>2
  <2> QED BY <1>0, <2>1, <2>2, <2>3, <2>4 DEF RuntimeInv, TypeOK, StoreAfter, CallTypes
<1>2. CASE Tick \/ MigrateSoul \/ UNCHANGED vars
  <2>1. StoreAfter
    BY <1>2, StoreSame, StoreLater DEF Tick, MigrateSoul, vars
  <2>2. UNCHANGED <<pc, call, snap, calls, owed, semanticActive>> /\ soul' \in {"v2", "legacy"}
    BY <1>0, <1>2 DEF Tick, MigrateSoul, vars, TypeOK
  <2>3. \A w \in Workers : WorkerInv(w)'
    BY <2>1, <2>2, WorkerSame
  <2> QED BY <1>0, <2>1, <2>2, <2>3 DEF RuntimeInv, TypeOK, StoreAfter
<1> QED BY <1>1, <1>2

LEMMA InvStep == RuntimeInv /\ [Next]_vars => RuntimeInv'
<1> SUFFICES ASSUME RuntimeInv, [Next]_vars PROVE RuntimeInv'
  OBVIOUS
<1>1. ASSUME NEW w \in Workers, Step(w)
      PROVE  RuntimeInv'
  BY <1>1, LoadingStep, ActingStep, ApplyingStep, CollectingStep DEF Step
<1> QED BY <1>1, ArriveStep, ApplyingStep, EnvironmentStep DEF Next

-----------------------------------------------------------------------------
(* The theorems.                                                           *)

\* What the theorems of this module rest on: every state in a file and in the
\* hands of a call has an honest history (session_runtime.py, commands.py).
THEOREM RuntimeInvariant == Spec => []RuntimeInv
  BY InvInitially, InvStep, PTL DEF Spec

\* Every variable of the runtime keeps its type (session_runtime.py).
THEOREM RuntimeTyped == Spec => []TypeOK
<1>1. RuntimeInv => TypeOK
  BY DEF RuntimeInv
<1> QED BY <1>1, RuntimeInvariant, PTL

\* No hour is decayed twice, however turns, edits, lifecycle timestamps,
\* continuations and resets interleave (decay_state, updated_at).
THEOREM HoursDecayOnce == Spec => []NoDoubleDecay
<1>1. RuntimeInv => NoDoubleDecay
  <2> SUFFICES ASSUME RuntimeInv, NEW p \in Paths, store[p] \in States
               PROVE  store[p].at <= now /\ store[p].decayed <= store[p].at - store[p].born
    BY DEF NoDoubleDecay
  <2>1. Good(store[p], now)
    BY DEF RuntimeInv, StoreInv
  <2>2. store[p].at \in Nat /\ store[p].born \in Nat /\ store[p].decayed \in Nat
    BY FieldsOf
  <2> QED BY <2>1, <2>2 DEF Good
<1> QED BY <1>1, RuntimeInvariant, PTL

\* A turn that is delivered again before another one was processed is not
\* applied again, also when both deliveries were classified at the same time
\* (last_turn_id is checked again under the lock).
THEOREM TurnsNotRepeated == Spec => []NoImmediateDuplicate
<1>1. RuntimeInv => NoImmediateDuplicate
  BY DEF RuntimeInv, StoreInv, Good, NoImmediateDuplicate
<1> QED BY <1>1, RuntimeInvariant, PTL

\* The steps that change a file, each of one worker.
Writes(w) ==
  \/ Save(w) \/ ApplyTurnLatest(w) \/ ApplyLifecycle(w) \/ ApplyReset(w) \/ ApplyEdit(w)
  \/ \E p \in Paths : Collect(w, p)

LEMMA OnlyWrites ==
  ASSUME RuntimeInv, [Next]_vars, store' # store \/ muts' # muts
  PROVE  \E w \in Workers : Writes(w) /\ Others(w)
<1>1. TypeOK
  BY DEF RuntimeInv
<1>2. PICK w \in Workers : Arrive(w) \/ Step(w) \/ StoreFails(w)
  BY DEF Next, Crash, Tick, MigrateSoul, vars
<1>3. ~Arrive(w) /\ ~StoreFails(w)
  BY DEF Arrive, IgnoreTurn, InvokeHook, InvokeTurn, InvokePlain, Invoke, StoreFails
<1>4. Writes(w)
  BY <1>2, <1>3
     DEF Step, Writes, Load, LoadRaises, LoadMissing, LoadParent, Create, ActStart, ActDone,
         ActTurn, ActSemanticTurn, SemanticDone, ActMutate, ActIntervene, ActInterveneIgnored,
         Inspect, ApplyNothing, CollectDone
<1>5. Others(w)
  BY <1>1, <1>4
     DEF Writes, Save, ApplyTurnLatest, ApplyLifecycle, ApplyReset, ApplyEdit, Collect, Finish,
         Goto, Others, TypeOK
<1> QED BY <1>4, <1>5

\* The file that a mutation changes is that of its call.
LEMMA WrittenFile ==
  ASSUME RuntimeInv, NEW w \in Workers, pc[w] = "apply", NEW u, Commit(w, u)
  PROVE  /\ store'[PathFor(w)] = u /\ \A p \in Paths \ {PathFor(w)} : store'[p] = store[p]
         /\ PathFor(w) \in Paths /\ Current(w) = store[PathFor(w)]
<1>1. PathOf[MutatedId(w)] = PathFor(w) /\ PathFor(w) \in Paths
  BY Mutating
<1>2. store \in [Paths -> States \cup {Missing, Malformed}]
  BY DEF RuntimeInv, TypeOK
<1> QED BY <1>1, <1>2 DEF Commit, Current

\* Only a reset or retention changes a legacy state, although the hooks check
\* the configuration long before they write ("skip affect processing without
\* rewriting it").
THEOREM LegacyKept == Spec => LegacyPreserved
<1>1. RuntimeInv /\ [Next]_vars =>
        [\A p \in Paths :
           store[p] \in States /\ store[p].legacy /\ store'[p] # store[p] =>
             \/ store'[p] = Missing
             \/ \E w \in Workers : pc[w] = "apply" /\ call[w].kind = "reset" /\ pc'[w] = "idle"]_vars
  <2> SUFFICES ASSUME RuntimeInv, Next, NEW p \in Paths,
                      store[p] \in States, store[p].legacy, store'[p] # store[p]
               PROVE  \/ store'[p] = Missing
                      \/ \E w \in Workers :
                           pc[w] = "apply" /\ call[w].kind = "reset" /\ pc'[w] = "idle"
    OBVIOUS
  <2>0. TypeOK
    BY DEF RuntimeInv
  <2>1. PICK w \in Workers : Writes(w)
    BY OnlyWrites
  <2>2. ASSUME Save(w)
        PROVE  FALSE
    <3>1. /\ ~Legacy(store[PathFor(w)]) /\ PathFor(w) = PathOf[call[w].sid]
          /\ snap[w].id = call[w].sid
      BY <2>2, Working DEF Save, WorkerInv
    <3>2. p = PathFor(w)
      BY <2>0, <2>2, <3>1 DEF Save, TypeOK
    <3> QED BY <3>1, <3>2 DEF Legacy
  <2>3. ASSUME pc[w] = "apply", NEW u, Commit(w, u), Processable(Current(w))
        PROVE  FALSE
    <3>1. p = PathFor(w) /\ Current(w) = store[p]
      BY <2>3, WrittenFile
    <3> QED BY <2>3, <3>1 DEF Processable
  <2>4. CASE ApplyReset(w)
    BY <2>0, <2>4 DEF ApplyReset, Finish, Goto, TypeOK
  <2>5. ASSUME NEW q \in Paths, Collect(w, q)
        PROVE  store'[p] = Missing
    BY <2>0, <2>5 DEF Collect, TypeOK
  <2> QED BY <2>1, <2>2, <2>3, <2>4, <2>5 DEF Writes, ApplyTurnLatest, ApplyLifecycle, ApplyEdit
<1> QED BY <1>1, RuntimeInvariant, PTL DEF Spec, LegacyPreserved

\* No hook, command or edit writes back what it loaded earlier: turns and edits
\* leave a file only by a reset, or by a call that creates the session.
THEOREM NothingWrittenBack == Spec => NoStaleOverwrite
<1>1. RuntimeInv /\ [Next]_vars =>
        [\A p \in Paths :
           /\ store[p] \in States /\ store'[p] \in States
           /\ \/ ~(store[p].edits \subseteq store'[p].edits)
              \/ Len(store'[p].turns) < Len(store[p].turns)
           => \E w \in Workers :
                /\ pc'[w] # pc[w]
                /\ \/ pc[w] = "save"
                   \/ pc[w] = "apply" /\ call[w].kind = "reset"]_vars
  <2> SUFFICES ASSUME RuntimeInv, Next, NEW p \in Paths,
                      store[p] \in States, store'[p] \in States,
                      \/ ~(store[p].edits \subseteq store'[p].edits)
                      \/ Len(store'[p].turns) < Len(store[p].turns)
               PROVE  \E w \in Workers :
                        /\ pc'[w] # pc[w]
                        /\ \/ pc[w] = "save"
                           \/ pc[w] = "apply" /\ call[w].kind = "reset"
    OBVIOUS
  <2>0. TypeOK /\ now \in Nat /\ StoreInv
    BY DEF RuntimeInv, TypeOK
  <2>1. store[p].turns \in Seq(TurnIds) /\ Len(store[p].turns) \in Nat
    BY FieldsOf
  <2>2. store'[p] # store[p]
    BY <2>1
  <2>3. PICK w \in Workers : Writes(w)
    BY <2>2, OnlyWrites
  <2>4. CASE Save(w)
    <3>1. pc[w] = "save" /\ pc'[w] = "act"
      BY <2>0, <2>4 DEF Save, Goto, TypeOK
    <3> QED BY <3>1
  <2>11. CASE ApplyReset(w)
    <3>1. pc[w] = "apply" /\ call[w].kind = "reset" /\ pc'[w] = "idle"
      BY <2>0, <2>11 DEF ApplyReset, Finish, Goto, TypeOK
    <3> QED BY <3>1
  <2>5. ASSUME NEW q \in Paths, Collect(w, q)
        PROVE  FALSE
    BY <2>0, <2>2, <2>5, ValuesDiffer DEF Collect, TypeOK
  <2>6. ASSUME pc[w] = "apply", NEW u, Commit(w, u), Current(w).edits \subseteq u.edits,
               u.turns = Current(w).turns
                 \/ \E turn \in TurnIds : u.turns = Append(Current(w).turns, turn)
        PROVE  FALSE
    <3>1. store'[p] = u /\ Current(w) = store[p]
      BY <2>2, <2>6, WrittenFile
    <3>2. Len(u.turns) >= Len(store[p].turns)
      BY <2>1, <2>6, <3>1
    <3>3. Len(u.turns) \in Nat
      BY <2>1, <2>6, <3>1
    <3> QED BY <2>1, <2>6, <3>1, <3>2, <3>3
  <2>7. pc[w] = "apply" /\ Available(w) => Current(w) \in States /\ Current(w).at <= now
    BY Mutating DEF Good
  <2>8. CASE ApplyTurnLatest(w)
    <3>1. call[w].turn \in TurnIds \cup {None} /\ Current(w) \in States /\ Current(w).at <= now
      BY <2>7, <2>8, Working DEF ApplyTurnLatest
    <3> DEFINE u == ApplyTurn(Current(w), call[w].turn)
    <3>2. /\ u.edits = Current(w).edits
          /\ u.turns = IF call[w].turn = None THEN Current(w).turns
                       ELSE Append(Current(w).turns, call[w].turn)
      BY <2>0, <3>1, ApplyTurnIs DEF Becomes
    <3>3. Commit(w, u) /\ pc[w] = "apply"
      BY <2>8 DEF ApplyTurnLatest
    <3> HIDE DEF u
    <3> QED BY <2>6, <3>1, <3>2, <3>3
  <2>9. CASE ApplyLifecycle(w)
    <3>1. Touch(Current(w)).edits = Current(w).edits /\ Touch(Current(w)).turns = Current(w).turns
      BY <2>0, <2>7, <2>9, TouchIs DEF ApplyLifecycle, Becomes
    <3> QED BY <2>6, <2>9, <3>1 DEF ApplyLifecycle
  <2>10. CASE ApplyEdit(w)
    <3>1. /\ call[w].n \in Nat /\ Current(w) \in States /\ Current(w).at <= now
          /\ pc[w] = "apply"
      BY <2>7, <2>10, Working DEF ApplyEdit
    <3>2. PICK u \in Edits(Current(w), call[w].n) : Commit(w, u)
      BY <2>10 DEF ApplyEdit, Edits
    <3>3. u.turns = Current(w).turns /\ u.edits = Current(w).edits \cup {call[w].n}
      BY <2>0, <3>1, <3>2, EditIs
    <3> QED BY <2>6, <3>1, <3>2, <3>3
  <2> QED BY <2>3, <2>4, <2>11, <2>5, <2>8, <2>9, <2>10 DEF Writes
<1> QED BY <1>1, RuntimeInvariant, PTL DEF Spec, NoStaleOverwrite

\* As long as no two sessions share a file name, a call changes only the file of
\* the session it names, from and to a state of that session, and retention only
\* other files; with shared names it does not (see the README).
THEOREM SessionsIsolated ==
  ASSUME \A i, j \in Identities : PathOf[i] = PathOf[j] => i = j
  PROVE  Spec => SessionIsolation
<1>1. RuntimeInv /\ [Next]_vars =>
        [\A p \in Paths : store'[p] # store[p] =>
           \E w \in Workers :
             \/ /\ pc[w] \in {"save", "apply"} /\ pc'[w] # pc[w]
                /\ p = PathFor(w)
                /\ OfSession(store[p], call[w].sid) /\ OfSession(store'[p], call[w].sid)
             \/ pc[w] = "collect" /\ p # PathFor(w) /\ store'[p] = Missing]_vars
  <2> DEFINE Own(p, w) == /\ pc[w] \in {"save", "apply"} /\ pc'[w] # pc[w]
                          /\ p = PathFor(w)
                          /\ OfSession(store[p], call[w].sid)
                          /\ OfSession(store'[p], call[w].sid)
             Taken(p, w) == pc[w] = "collect" /\ p # PathFor(w) /\ store'[p] = Missing
  <2> SUFFICES ASSUME RuntimeInv, Next, NEW p \in Paths, store'[p] # store[p]
               PROVE  \E w \in Workers : Own(p, w) \/ Taken(p, w)
    OBVIOUS
  <2>0. TypeOK
    BY DEF RuntimeInv
  <2>1. PICK w \in Workers : Writes(w)
    BY OnlyWrites
  <2>2. call[w].sid \in Identities /\ PathFor(w) = PathOf[call[w].sid]
    BY <2>0, <2>1, Working DEF Writes, Save, ApplyTurnLatest, ApplyLifecycle, ApplyReset,
       ApplyEdit, Collect
  \* A file holds a state of the one session with that file name.
  <2>3. store[PathFor(w)] \in States =>
          store[PathFor(w)].id \in Identities /\ PathOf[store[PathFor(w)].id] = PathFor(w)
    BY <2>2, PathOfType, FieldsOf DEF RuntimeInv, StoreInv
  <2>4. OfSession(store[PathFor(w)], call[w].sid)
    BY <2>2, <2>3 DEF OfSession
  <2>5. CASE Save(w)
    <3>1. pc[w] = "save" /\ pc'[w] = "act"
      BY <2>0, <2>5 DEF Save, Goto, TypeOK
    <3>2. snap[w].id = call[w].sid
      BY <2>5, Working DEF Save, WorkerInv
    <3>3. p = PathFor(w) /\ store'[p] = snap[w]
      BY <2>0, <2>2, <2>5, <3>2 DEF Save, TypeOK
    <3> QED BY <2>4, <3>1, <3>2, <3>3 DEF OfSession
  <2>6. ASSUME pc[w] = "apply", pc'[w] = "idle", Available(w),
               NEW u, Commit(w, u), u.id = Current(w).id
        PROVE  Own(p, w)
    <3>1. p = PathFor(w) /\ store'[p] = u /\ Current(w) = store[p]
      BY <2>6, WrittenFile
    <3>2. u.id = call[w].sid
      BY <2>4, <2>6, <3>1 DEF Available, OfSession
    <3> QED BY <2>4, <2>6, <3>1, <3>2 DEF OfSession
  <2>7. pc[w] = "apply" /\ Available(w) =>
          Current(w) \in States /\ Current(w).at <= now /\ now \in Nat
    BY <2>0, Mutating DEF Good, TypeOK
  <2> HIDE DEF Own, Taken
  <2>8. CASE ApplyTurnLatest(w)
    <3>1. call[w].turn \in TurnIds \cup {None} /\ pc[w] = "apply" /\ Available(w)
      BY <2>8, Working DEF ApplyTurnLatest
    <3>2. ApplyTurn(Current(w), call[w].turn).id = Current(w).id
      BY <2>7, <3>1, ApplyTurnIs DEF Becomes
    <3>3. pc'[w] = "idle"
      BY <2>0, <2>8 DEF ApplyTurnLatest, Finish, Goto, TypeOK
    <3> QED BY <2>6, <2>8, <3>1, <3>2, <3>3 DEF ApplyTurnLatest
  <2>9. CASE ApplyLifecycle(w)
    <3>1. pc[w] = "apply" /\ Available(w) /\ pc'[w] = "idle"
      BY <2>0, <2>9 DEF ApplyLifecycle, Finish, Goto, TypeOK
    <3>2. Touch(Current(w)).id = Current(w).id
      BY <2>7, <3>1, TouchIs DEF Becomes
    <3> QED BY <2>6, <2>9, <3>1, <3>2 DEF ApplyLifecycle
  <2>10. CASE ApplyReset(w)
    <3>1. pc[w] = "apply" /\ Available(w) /\ pc'[w] = "idle"
      BY <2>0, <2>10 DEF ApplyReset, Finish, Goto, TypeOK
    <3>2. ResetState(Current(w)).id = Current(w).id
      BY <2>7, <3>1, FieldsOf DEF ResetState, Initial
    <3> QED BY <2>6, <2>10, <3>1, <3>2 DEF ApplyReset
  <2>11. CASE ApplyEdit(w)
    <3>1. call[w].n \in Nat /\ pc[w] = "apply" /\ Available(w) /\ pc'[w] = "idle"
      BY <2>0, <2>11, Working DEF ApplyEdit, Finish, Goto, TypeOK
    <3>2. PICK u \in Edits(Current(w), call[w].n) : Commit(w, u)
      BY <2>11 DEF ApplyEdit, Edits
    <3>3. u.id = Current(w).id
      BY <2>7, <3>1, <3>2, EditIs DEF Becomes
    <3> QED BY <2>6, <3>1, <3>2, <3>3
  <2>12. ASSUME NEW q \in Paths, Collect(w, q)
         PROVE  Taken(p, w)
    BY <2>0, <2>12 DEF Collect, TypeOK, Taken
  <2> QED BY <2>1, <2>5, <2>8, <2>9, <2>10, <2>11, <2>12 DEF Writes
<1> QED BY <1>1, RuntimeInvariant, PTL DEF Spec, SessionIsolation
=============================================================================
