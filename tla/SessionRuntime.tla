--------------------------- MODULE SessionRuntime ---------------------------
(***************************************************************************)
(* AffectRuntime and AffectCommandHandler: the hooks and the commands of   *)
(* one Hermes process, run by several threads, together with the dashboard *)
(* requests that edit the same session files.                              *)
(*                                                                         *)
(* A store call is one step here: JsonStore shows that load, save and      *)
(* mutate_exact of StateStore are atomic per file.  Everything between two *)
(* store calls is open to interleaving, above all the semantic classifier  *)
(* call, which runs outside every lock.                                    *)
(*                                                                         *)
(* The affect values are reduced to their provenance: which turns and      *)
(* which edits a state contains, and for how long it has been decayed.     *)
(***************************************************************************)
EXTENDS Naturals, FiniteSets, Sequences

CONSTANTS
  Workers,     \* threads of the Hermes process, and dashboard requests
  Identities,  \* (profile_id, session_id) pairs
  Paths,       \* state files
  PathOf,      \* StateStore.state_path
  Turns,       \* turn_id values of the host
  MaxAge,      \* state_gc_days, in ticks
  Missing, Malformed, None,
  MaxCalls,    \* bound: hook calls, commands and edits of a behaviour
  MaxTime      \* bound: ticks of the clock

ASSUME PathOfType == PathOf \in [Identities -> Paths]
ASSUME MaxAgeType == MaxAge \in Nat \ {0}
ASSUME BoundsType == MaxCalls \in Nat /\ MaxTime \in Nat
ASSUME NoneFresh == None \notin Workers \cup Identities \cup Turns \cup Nat

VARIABLES
  store,           \* path -> AffectState, Missing or Malformed
  now,             \* the wall clock
  soul,            \* schema of the live SOUL.md: "v2" or "legacy"
  semanticActive,  \* AffectRuntime._semantic_call_active
  pc,              \* worker -> place in the call it executes
  call,            \* worker -> the call, or None
  snap,            \* worker -> the state _state or load_exact returned, or None
  calls,           \* calls made so far
  owed,            \* auxiliary: path -> acknowledged edits the file has to contain
  muts             \* auxiliary: path -> exact mutations since the file was last saved

vars == <<store, now, soul, semanticActive, pc, call, snap, calls, owed, muts>>

-----------------------------------------------------------------------------
(* Session states (domain/state.py).                                       *)

\* An admin turn id is the number in "admin-<n>".
TurnIds == Turns \cup Nat

States ==
  [id : Identities,
   rev : Nat,
   at : Nat,                    \* updated_at
   legacy : BOOLEAN,            \* resolve_state_config returns no config
   last : TurnIds \cup {None},  \* last_turn_id
   gain : BOOLEAN,              \* an expression_gain override is set
   turns : Seq(TurnIds),        \* auxiliary: turns applied, in order
   edits : SUBSET Nat,          \* auxiliary: edits applied, by call number
   born : Nat,                  \* auxiliary: where decay started to count
   decayed : Nat]               \* auxiliary: time the values were decayed for

Initial(i) ==
  [id |-> i, rev |-> 0, at |-> now, legacy |-> FALSE, last |-> None, gain |-> FALSE,
   turns |-> <<>>, edits |-> {}, born |-> now, decayed |-> 0]

\* Mutant of ContinuedFrom: the copy keeps its parent's session_id.
ContinuedFrom_KeepsId(parent, i) == [parent EXCEPT !.at = now]

\* A deep copy that keeps the revision and last_turn_id of the parent.
ContinuedFrom(parent, i) == [parent EXCEPT !.id = i, !.at = now]

\* Mutant of Decayed: updated_at is not moved along.
Decayed_Unmarked(s) == [s EXCEPT !.decayed = @ + (now - s.at)]

\* decay_state over max(0, now - updated_at), then updated_at = now.
Decayed(s) == [s EXCEPT !.decayed = @ + (now - s.at), !.at = now]

\* Mutant of ApplyTurn: a missing turn_id is recorded like any other.
ApplyTurn_RecordsNone(s, turn) ==
  [Decayed(s) EXCEPT !.rev = @ + 1, !.last = turn, !.turns = Append(@, turn)]

\* The host may leave turn_id out; such a turn is applied unconditionally
\* and leaves last_turn_id alone.
ApplyTurn(s, turn) ==
  LET applied == [Decayed(s) EXCEPT !.rev = @ + 1] IN
  IF turn = None THEN applied
  ELSE [applied EXCEPT !.last = turn, !.turns = Append(@, turn)]

\* The duplicate guard.
Seen(s, turn) == turn # None /\ s.last = turn

\* _update_lifecycle_timestamp.
Touch(s) == [s EXCEPT !.at = now]

\* SessionTuningService.set_override and restore_configured.
SetOverride(s, n) == [s EXCEPT !.rev = @ + 1, !.at = now, !.gain = TRUE, !.edits = @ \cup {n}]
RestoreConfigured(s, n) ==
  [s EXCEPT !.rev = @ + 1, !.at = now, !.gain = FALSE, !.edits = @ \cup {n}]

\* ManualStateControlService.apply.
ManualEdit(s, n) == [Decayed(s) EXCEPT !.rev = @ + 1, !.edits = @ \cup {n}]

\* /affect reset: a new state under the old identity, one revision later.
ResetState(s) == [Initial(s.id) EXCEPT !.rev = s.rev + 1]

\* Mutant of Expired: a state of exactly the retention age counts as expired.
Expired_AtAge(c, t) == c \in States /\ c.at + MaxAge <= t

\* StateStore._updated_at(state) < cutoff.
Expired(c, t) == c \in States /\ c.at + MaxAge < t

-----------------------------------------------------------------------------
(* Calls.                                                                  *)

DashboardKinds == {"manual", "setGain", "restoreGain"}
CommandKinds == {"reset", "intervene", "tune"}
HookKinds == {"start", "turn", "lifecycle", "resetHook"}
Kinds == DashboardKinds \cup CommandKinds \cup HookKinds

CallRecords ==
  [kind : Kinds,
   sid : Identities,
   parent : Identities \cup {None},
   turn : TurnIds \cup {None},
   semantic : BOOLEAN,  \* the classifier is enabled and the turn is no moderation
   n : Nat,             \* the number of the call
   t : Nat]             \* "current" of its garbage collection

ASSUME ValuesDiffer ==
  None \notin States \cup CallRecords /\ {Missing, Malformed} \cap States = {}

Plain(kind, i) ==
  [kind |-> kind, sid |-> i, parent |-> None, turn |-> None, semantic |-> FALSE,
   n |-> calls + 1, t |-> 0]

PathFor(w) == PathOf[call[w].sid]

Places == {"idle", "load", "loadParent", "create", "save", "act", "semantic",
           "inspect", "apply", "collect"}

Init ==
  /\ \E legacy \in BOOLEAN :
       store \in {f \in [Paths -> {Missing, Malformed} \cup
                          {[id |-> i, rev |-> 0, at |-> 0, legacy |-> legacy, last |-> None,
                            gain |-> FALSE, turns |-> <<>>, edits |-> {}, born |-> 0,
                            decayed |-> 0] : i \in Identities}] :
                    \A p \in Paths : f[p] \in States => PathOf[f[p].id] = p}
  /\ now = 0
  /\ soul \in {"v2", "legacy"}
  /\ semanticActive = FALSE
  /\ pc = [w \in Workers |-> "idle"]
  /\ call = [w \in Workers |-> None]
  /\ snap = [w \in Workers |-> None]
  /\ calls = 0
  /\ owed = [p \in Paths |-> {}]
  /\ muts = [p \in Paths |-> 0]

Goto(w, place) == pc' = [pc EXCEPT ![w] = place]

Finish(w) ==
  /\ Goto(w, "idle")
  /\ call' = [call EXCEPT ![w] = None]
  /\ snap' = [snap EXCEPT ![w] = None]

\* The host or a user calls in.
Invoke(w, c) ==
  /\ pc[w] = "idle"
  /\ calls < MaxCalls
  /\ calls' = calls + 1
  /\ call' = [call EXCEPT ![w] = c]
  /\ Goto(w, IF c.kind \in DashboardKinds THEN "inspect" ELSE "load")
  /\ UNCHANGED <<store, muts, now, soul, semanticActive, snap, owed>>

\* on_session_start; post_llm_call and on_session_end are both "lifecycle".
InvokeHook(w, kind, i, parent) ==
  /\ kind \in {"start", "lifecycle"}
  /\ Invoke(w, [Plain(kind, i) EXCEPT !.parent = parent])

\* pre_llm_call, when no semantic call is active anywhere in the process.
InvokeTurn(w, i, parent, turn, semantic) ==
  /\ ~semanticActive
  /\ Invoke(w, [Plain("turn", i) EXCEPT !.parent = parent, !.turn = turn, !.semantic = semantic])

\* pre_llm_call otherwise: the hook returns None at once.
IgnoreTurn(w) ==
  /\ semanticActive
  /\ pc[w] = "idle"
  /\ calls < MaxCalls
  /\ calls' = calls + 1
  /\ UNCHANGED <<store, muts, now, soul, semanticActive, pc, call, snap, owed>>

\* on_session_reset drops the parent, commands and edits have none.
InvokePlain(w, kind, i) ==
  /\ kind \in Kinds \ {"start", "lifecycle", "turn"}
  /\ Invoke(w, Plain(kind, i))

-----------------------------------------------------------------------------
(* AffectRuntime._state: load, or continue the parent, or create.          *)

Load(w) ==
  /\ pc[w] = "load"
  /\ store[PathFor(w)] \in States
  /\ snap' = [snap EXCEPT ![w] = store[PathFor(w)]]
  /\ Goto(w, "act")
  /\ UNCHANGED <<store, muts, now, soul, semanticActive, call, calls, owed>>

\* StateStore.load raises on a malformed file, and so does the hook.
LoadRaises(w) ==
  /\ \/ pc[w] = "load" /\ store[PathFor(w)] = Malformed
     \/ pc[w] = "loadParent" /\ store[PathOf[call[w].parent]] = Malformed
  /\ Finish(w)
  /\ UNCHANGED <<store, muts, now, soul, semanticActive, calls, owed>>

LoadMissing(w) ==
  /\ pc[w] = "load"
  /\ store[PathFor(w)] = Missing
  /\ Goto(w, IF call[w].parent \in Identities \ {call[w].sid} THEN "loadParent" ELSE "create")
  /\ UNCHANGED <<store, muts, now, soul, semanticActive, call, snap, calls, owed>>

\* _state returns None; on_session_start collects all the same.
NoState(w) ==
  \/ /\ call[w].kind = "start"
     /\ Goto(w, "collect")
     /\ call' = [call EXCEPT ![w].t = now]
     /\ UNCHANGED snap
  \/ /\ call[w].kind # "start"
     /\ Finish(w)

LoadParent(w) ==
  LET parent == store[PathOf[call[w].parent]] IN
  /\ pc[w] = "loadParent"
  /\ \/ /\ parent \in States /\ ~parent.legacy
        /\ snap' = [snap EXCEPT ![w] = ContinuedFrom(parent, call[w].sid)]
        /\ Goto(w, "save")
        /\ UNCHANGED call
     \/ /\ parent \in States /\ parent.legacy
        /\ NoState(w)
     \/ /\ parent = Missing
        /\ Goto(w, "create")
        /\ UNCHANGED <<call, snap>>
  /\ UNCHANGED <<store, muts, now, soul, semanticActive, calls, owed>>

\* The live SOUL decides whether a state may be created.
Create(w) ==
  /\ pc[w] = "create"
  /\ \/ /\ soul = "v2"
        /\ snap' = [snap EXCEPT ![w] = Initial(call[w].sid)]
        /\ Goto(w, "save")
        /\ UNCHANGED call
     \/ /\ soul = "legacy"
        /\ NoState(w)
  /\ UNCHANGED <<store, muts, now, soul, semanticActive, calls, owed>>

\* StateStore.save writes over whatever is there by now.
Save(w) ==
  /\ pc[w] = "save"
  /\ store' = [store EXCEPT ![PathOf[snap[w].id]] = snap[w]]
  /\ muts' = [muts EXCEPT ![PathOf[snap[w].id]] = 0]
  /\ Goto(w, "act")
  /\ UNCHANGED <<now, soul, semanticActive, call, snap, calls, owed>>

-----------------------------------------------------------------------------
(* What each call does with the state it got.                              *)

\* Mutant of Processable: the model version is not looked at.
Processable_Always(s) == TRUE

\* resolve_state_config: only a v2 state is processed.
Processable(s) == ~s.legacy

ActStart(w) ==
  /\ pc[w] = "act"
  /\ call[w].kind = "start"
  /\ Goto(w, "collect")
  /\ call' = [call EXCEPT ![w].t = now]
  /\ UNCHANGED <<store, muts, now, soul, semanticActive, snap, calls, owed>>

\* Nothing more to do: a reset hook, a legacy state, or a turn that the
\* loaded state has seen last.  /affect reset of a legacy state goes on if
\* the live SOUL is v2.
ActDone(w) ==
  /\ pc[w] = "act"
  /\ \/ call[w].kind = "resetHook"
     \/ call[w].kind \in {"turn", "lifecycle", "intervene", "tune"} /\ ~Processable(snap[w])
     \/ call[w].kind = "reset" /\ ~Processable(snap[w]) /\ soul = "legacy"
     \/ call[w].kind = "turn" /\ Seen(snap[w], call[w].turn)
  /\ Finish(w)
  /\ UNCHANGED <<store, muts, now, soul, semanticActive, calls, owed>>

\* pre_llm_call: deterministic classification only.
ActTurn(w) ==
  /\ pc[w] = "act"
  /\ call[w].kind = "turn"
  /\ Processable(snap[w])
  /\ ~Seen(snap[w], call[w].turn)
  /\ ~call[w].semantic
  /\ Goto(w, "apply")
  /\ UNCHANGED <<store, muts, now, soul, semanticActive, call, snap, calls, owed>>

\* pre_llm_call: the provider is asked, without any lock.
ActSemanticTurn(w) ==
  /\ pc[w] = "act"
  /\ call[w].kind = "turn"
  /\ Processable(snap[w])
  /\ ~Seen(snap[w], call[w].turn)
  /\ call[w].semantic
  /\ semanticActive' = TRUE
  /\ Goto(w, "semantic")
  /\ UNCHANGED <<store, muts, now, soul, call, snap, calls, owed>>

\* The provider answers, fails or times out; "finally" clears the flag.
SemanticDone(w) ==
  /\ pc[w] = "semantic"
  /\ semanticActive' = FALSE
  /\ Goto(w, "apply")
  /\ UNCHANGED <<store, muts, now, soul, call, snap, calls, owed>>

\* Lifecycle timestamp, reset and tune go on to their exact mutation.
ActMutate(w) ==
  /\ pc[w] = "act"
  /\ \/ call[w].kind \in {"lifecycle", "tune"} /\ Processable(snap[w])
     \/ call[w].kind = "reset" /\ (Processable(snap[w]) \/ soul = "v2")
  /\ Goto(w, "apply")
  /\ UNCHANGED <<store, muts, now, soul, semanticActive, call, snap, calls, owed>>

\* /affect calm and heat call pre_llm_call with a turn id made from the
\* revision they have loaded.
ActIntervene(w) ==
  /\ pc[w] = "act"
  /\ call[w].kind = "intervene"
  /\ Processable(snap[w])
  /\ ~semanticActive
  /\ call' = [call EXCEPT ![w].kind = "turn", ![w].turn = snap[w].rev + 1]
  /\ snap' = [snap EXCEPT ![w] = None]
  /\ Goto(w, "load")
  /\ UNCHANGED <<store, muts, now, soul, semanticActive, calls, owed>>

\* The nested call is turned away by the re-entry guard.
ActInterveneIgnored(w) ==
  /\ pc[w] = "act"
  /\ call[w].kind = "intervene"
  /\ Processable(snap[w])
  /\ semanticActive
  /\ Finish(w)
  /\ UNCHANGED <<store, muts, now, soul, semanticActive, calls, owed>>

\* The dashboard shows an exact state (StateStore.load_exact).
Inspect(w) ==
  /\ pc[w] = "inspect"
  /\ \/ /\ store[PathFor(w)] \in States
        /\ store[PathFor(w)].id = call[w].sid
        /\ snap' = [snap EXCEPT ![w] = store[PathFor(w)]]
        /\ Goto(w, "apply")
        /\ UNCHANGED call
     \/ /\ store[PathFor(w)] \in States => store[PathFor(w)].id # call[w].sid
        /\ Finish(w)
  /\ UNCHANGED <<store, muts, now, soul, semanticActive, calls, owed>>

-----------------------------------------------------------------------------
(* The exact mutations.  A turn and an edit name the session they were     *)
(* called with, the others the session of the state they loaded.           *)

MutatedId(w) ==
  IF call[w].kind \in {"turn"} \cup DashboardKinds THEN call[w].sid ELSE snap[w].id

Current(w) == store[PathOf[MutatedId(w)]]

Available(w) == Current(w) \in States /\ Current(w).id = MutatedId(w)

Commit(w, s) ==
  /\ store' = [store EXCEPT ![PathOf[MutatedId(w)]] = s]
  /\ muts' = [muts EXCEPT ![PathOf[MutatedId(w)]] = @ + 1]

\* Mutant of ApplyTurnLatest: the duplicate guard of the loaded state is
\* thought to be enough.
ApplyTurnLatest_Unguarded(w) ==
  /\ pc[w] = "apply"
  /\ call[w].kind = "turn"
  /\ Available(w)
  /\ Processable(Current(w))
  /\ Commit(w, ApplyTurn(Current(w), call[w].turn))
  /\ Finish(w)
  /\ UNCHANGED <<now, soul, semanticActive, calls, owed>>

\* apply_latest: the duplicate guard and the configuration are checked
\* again on the state read under the lock.
ApplyTurnLatest(w) ==
  /\ pc[w] = "apply"
  /\ call[w].kind = "turn"
  /\ Available(w)
  /\ ~Seen(Current(w), call[w].turn)
  /\ Processable(Current(w))
  /\ Commit(w, ApplyTurn(Current(w), call[w].turn))
  /\ Finish(w)
  /\ UNCHANGED <<now, soul, semanticActive, calls, owed>>

\* Mutant of ApplyLifecycle: the loaded snapshot is saved.
ApplyLifecycle_Snapshot(w) ==
  /\ pc[w] = "apply"
  /\ call[w].kind = "lifecycle"
  /\ Available(w)
  /\ Processable(Current(w))
  /\ Commit(w, Touch(snap[w]))
  /\ Finish(w)
  /\ UNCHANGED <<now, soul, semanticActive, calls, owed>>

\* post_llm_call and on_session_end touch the latest state.
ApplyLifecycle(w) ==
  /\ pc[w] = "apply"
  /\ call[w].kind = "lifecycle"
  /\ Available(w)
  /\ Processable(Current(w))
  /\ Commit(w, Touch(Current(w)))
  /\ Finish(w)
  /\ UNCHANGED <<now, soul, semanticActive, calls, owed>>

ApplyReset(w) ==
  /\ pc[w] = "apply"
  /\ call[w].kind = "reset"
  /\ Available(w)
  /\ Commit(w, ResetState(Current(w)))
  /\ owed' = [owed EXCEPT ![PathOf[MutatedId(w)]] = {}]
  /\ Finish(w)
  /\ UNCHANGED <<now, soul, semanticActive, calls>>

\* An edit is acknowledged to its author.
Acknowledge(w) ==
  owed' = [owed EXCEPT ![PathOf[MutatedId(w)]] = @ \cup {call[w].n}]

\* The dashboard's edits require the revision that was shown; the command
\* has no expected_revision.
RevisionExpected(w) ==
  call[w].kind \in DashboardKinds => Current(w).rev = snap[w].rev

ApplyEdit(w) ==
  /\ pc[w] = "apply"
  /\ Available(w)
  /\ RevisionExpected(w)
  /\ Processable(Current(w))
  /\ \/ /\ call[w].kind \in {"tune", "setGain"}
        /\ Commit(w, SetOverride(Current(w), call[w].n))
     \/ /\ call[w].kind = "restoreGain" /\ Current(w).gain
        /\ Commit(w, RestoreConfigured(Current(w), call[w].n))
     \/ /\ call[w].kind = "manual"
        /\ Commit(w, ManualEdit(Current(w), call[w].n))
  /\ Acknowledge(w)
  /\ Finish(w)
  /\ UNCHANGED <<now, soul, semanticActive, calls>>

\* The mutation is refused, or has nothing to change.
ApplyNothing(w) ==
  /\ pc[w] = "apply"
  /\ \/ ~Available(w)
     \/ /\ Available(w)
        /\ \/ call[w].kind = "turn" /\ Seen(Current(w), call[w].turn)
           \/ call[w].kind # "reset" /\ ~Processable(Current(w))
           \/ ~RevisionExpected(w)
           \/ call[w].kind = "restoreGain" /\ ~Current(w).gain
  /\ Finish(w)
  /\ UNCHANGED <<store, muts, now, soul, semanticActive, calls, owed>>

\* garbage_collect at session start: any expired file but the session's own.
Collect(w, p) ==
  /\ pc[w] = "collect"
  /\ p # PathFor(w)
  /\ Expired(store[p], call[w].t)
  /\ store' = [store EXCEPT ![p] = Missing]
  /\ owed' = [owed EXCEPT ![p] = {}]
  /\ UNCHANGED <<now, soul, semanticActive, pc, call, snap, calls, muts>>

CollectDone(w) ==
  /\ pc[w] = "collect"
  /\ Finish(w)
  /\ UNCHANGED <<store, muts, now, soul, semanticActive, calls, owed>>

-----------------------------------------------------------------------------
(* The environment.                                                        *)

\* A store call raises: TimeoutError on the lock, or an I/O error.
StoreFails(w) ==
  /\ pc[w] \in {"save", "apply"}
  /\ Finish(w)
  /\ UNCHANGED <<store, muts, now, soul, semanticActive, calls, owed>>

\* The Hermes process dies and restarts; dashboard requests go on.
Crash ==
  LET dead == {w \in Workers : pc[w] # "idle" /\ call[w].kind \notin DashboardKinds} IN
  /\ dead # {}
  /\ semanticActive' = FALSE
  /\ pc' = [w \in Workers |-> IF w \in dead THEN "idle" ELSE pc[w]]
  /\ call' = [w \in Workers |-> IF w \in dead THEN None ELSE call[w]]
  /\ snap' = [w \in Workers |-> IF w \in dead THEN None ELSE snap[w]]
  /\ UNCHANGED <<store, muts, now, soul, calls, owed>>

Tick ==
  /\ now < MaxTime
  /\ now' = now + 1
  /\ UNCHANGED <<store, muts, soul, semanticActive, pc, call, snap, calls, owed>>

\* The operator migrates SOUL.md to schema 2.
MigrateSoul ==
  /\ soul = "legacy"
  /\ soul' = "v2"
  /\ UNCHANGED <<store, muts, now, semanticActive, pc, call, snap, calls, owed>>

-----------------------------------------------------------------------------

Arrive(w) ==
  \/ IgnoreTurn(w)
  \/ \E i \in Identities, parent \in Identities \cup {None} :
       \/ \E kind \in Kinds : InvokeHook(w, kind, i, parent)
       \/ \E turn \in Turns \cup {None}, semantic \in BOOLEAN :
            InvokeTurn(w, i, parent, turn, semantic)
  \/ \E i \in Identities, kind \in Kinds : InvokePlain(w, kind, i)

Step(w) ==
  \/ Load(w) \/ LoadRaises(w) \/ LoadMissing(w) \/ LoadParent(w) \/ Create(w) \/ Save(w)
  \/ ActStart(w) \/ ActDone(w) \/ ActTurn(w) \/ ActSemanticTurn(w) \/ SemanticDone(w)
  \/ ActMutate(w) \/ ActIntervene(w) \/ ActInterveneIgnored(w)
  \/ Inspect(w) \/ ApplyTurnLatest(w) \/ ApplyLifecycle(w) \/ ApplyReset(w)
  \/ ApplyEdit(w) \/ ApplyNothing(w)
  \/ \E p \in Paths : Collect(w, p)
  \/ CollectDone(w)

Next ==
  \/ \E w \in Workers : Arrive(w) \/ Step(w) \/ StoreFails(w)
  \/ Crash
  \/ Tick
  \/ MigrateSoul

Spec == Init /\ [][Next]_vars

-----------------------------------------------------------------------------
(* Properties.                                                             *)

\* Every variable has its type (session_runtime.py, commands.py).
TypeOK ==
  /\ store \in [Paths -> States \cup {Missing, Malformed}]
  /\ now \in Nat
  /\ soul \in {"v2", "legacy"}
  /\ semanticActive \in BOOLEAN
  /\ pc \in [Workers -> Places]
  /\ call \in [Workers -> CallRecords \cup {None}]
  /\ snap \in [Workers -> States \cup {None}]
  /\ calls \in Nat
  /\ owed \in [Paths -> SUBSET Nat]
  /\ muts \in [Paths -> Nat]

\* No hour is decayed twice: what a state has been decayed for lies between
\* the start of its history and updated_at, however turns, manual edits,
\* lifecycle timestamps, continuations and resets interleave.
NoDoubleDecay ==
  \A p \in Paths : store[p] \in States =>
    store[p].at <= now /\ store[p].decayed <= store[p].at - store[p].born

\* A turn delivered again before another turn was processed is not applied
\* again, also when both deliveries were classified at the same time
\* (last_turn_id, checked before classification and again under the lock).
NoImmediateDuplicate ==
  \A p \in Paths : store[p] \in States =>
    \A k \in 1 .. Len(store[p].turns) - 1 : store[p].turns[k] # store[p].turns[k + 1]

\* An edit or turn that reached the file leaves it only by an explicit reset
\* or by a call that creates the session's state from nothing: no hook, no
\* command and no edit writes back what it loaded earlier.
NoStaleOverwrite ==
  [][\A p \in Paths :
       /\ store[p] \in States /\ store'[p] \in States
       /\ \/ ~(store[p].edits \subseteq store'[p].edits)
          \/ Len(store'[p].turns) < Len(store[p].turns)
       => \E w \in Workers :
            /\ pc'[w] # pc[w]
            /\ \/ pc[w] = "save"
               \/ pc[w] = "apply" /\ call[w].kind = "reset"]_vars

\* A legacy state is preserved: only an administrator's reset or retention
\* changes it, although the hooks check the configuration long before they
\* write (docs/architecture.md: "skip affect processing without rewriting
\* it").
LegacyPreserved ==
  [][\A p \in Paths :
       store[p] \in States /\ store[p].legacy /\ store'[p] # store[p] =>
         \/ store'[p] = Missing
         \/ \E w \in Workers : pc[w] = "apply" /\ call[w].kind = "reset" /\ pc'[w] = "idle"]_vars

\* A state is filed under the session it is the state of.
OfSession(content, i) == content \in States => content.id = i

\* A hook, command or edit changes one file, that of the session it names, and
\* only from and to a state of that session, also when it saves a new or
\* continued state; retention removes other files only.  It holds as long as no
\* two sessions share a file name (session_runtime.py:138, state.py:117).
SessionIsolation ==
  [][\A p \in Paths : store'[p] # store[p] =>
       \E w \in Workers :
         \/ /\ pc[w] \in {"save", "apply"} /\ pc'[w] # pc[w]
            /\ p = PathFor(w)
            /\ OfSession(store[p], call[w].sid) /\ OfSession(store'[p], call[w].sid)
         \/ pc[w] = "collect" /\ p # PathFor(w) /\ store'[p] = Missing]_vars

\* What the store looks at in a content.
Record(c, m) == IF c \in States THEN [id |-> c.id, rev |-> c.rev, at |-> c.at, muts |-> m] ELSE c

Recorded == [p \in Paths |-> Record(store[p], muts[p])]

\* Every effect of the runtime on the files is one that the store provides: a
\* whole state saved, one mutation of the content of that moment under its own
\* identity that moves neither revision nor updated_at back, or the removal of
\* an expired state (session_runtime.py, commands.py, manual_state.py).
Register == INSTANCE AffectRegister WITH reg <- Recorded
UsesRegister == Register!RegisterSpec

\* What the dashboard or /affect tune acknowledged is in the file.
AcknowledgedEditsKept ==
  \A p \in Paths : store[p] \in States => owed[p] \subseteq store[p].edits
=============================================================================
