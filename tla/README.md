# TLA+ specifications of hermes-affect

hermes-affect gives a Hermes bot a temporary affective state per session: hooks of the
Hermes process classify each turn, move a small set of values, and add guidance to the
prompt; the state lives in one JSON file per session. An optional dashboard shows the state
and edits it while the bot runs. This directory holds TLA+ modules of that program, TLC
configurations that model-check them, and TLAPS proofs about them. Line numbers refer to
`src/`.

Contents: [system](#the-system) - [plan](#plan) - [modules](#modules) - [runs](#runs) -
[fairness](#fairness) - [proofs](#proofs) - [disagreements found](#disagreements-found) -
[not modelled](#what-is-not-modelled)

## The system

| Component | State it keeps | Operations that change state | What makes it correct |
|---|---|---|---|
| State store (`infrastructure/persistence/json_store.py`) | one JSON file and, for a moment, one `.lock` file per session | `save`, `mutate_exact`, `garbage_collect`, the lock's enter and exit | mutual exclusion per file; no mutation lost; a mutation only over the identity and revision it was checked against; only expired files are removed; a caller never hangs |
| Session runtime (`application/session_runtime.py`) | `_semantic_call_active`; the snapshot each hook call holds | `on_session_start`, `pre_llm_call`, `post_llm_call`, `on_session_end`, `on_session_reset` | a turn is applied once, no time is decayed twice, nothing is written back from an old snapshot, legacy states are preserved, sessions are isolated |
| Commands (`application/commands.py`, `tuning.py`) | none | `/affect reset`, `calm`, `heat`, `tune` | only a reset rewrites a legacy state |
| Dashboard backend (`dashboard/plugin_api.py`, `manual_state.py`) | none | set and restore `expression_gain`, manual edits | an edit is committed only to the revision its author saw, and then kept |
| Dashboard frontend: polling (`state_polling.js`, `state_controller.js`) | selection, generation, in-flight flag, refresh queue, timer, response | poll, refresh, selection, cleanup | one request at a time, no foreign state on display, answers in order, a refresh is over only when a later answer is on display, polling never ends |
| Dashboard frontend: edit controllers (`manual_state_controller.js`, `tuning_controller.js`) | pending flag, status, generation, reset token, drafts | apply, restore, conflict recovery, change of target | an edit goes where its author looked, one at a time, and is on display when it is reported saved; no controller stays disabled; drafts survive polls and end with their target |
| Session catalog (`session_catalog.py`, `session_catalog.js`, `domain/state.js`) | the list loaded so far, loading and error flags, request generation | refresh, retry, load more | paging over a list that is reordered meanwhile lists each session at most once and skips none |
| Affect dynamics (`domain/dynamics.py`, `calculations.py`, `relationships.py`, `posture.py`) | the values of one state | one event, decay, observation | values stay in range; conflicts and mood follow their sources; only a party to a conflict is retaliated against; an injury or a repair never vanishes; regard changes by evidence only; records stay bounded |
| Classification (`application/classification/`) | none | deterministic and semantic classification, arbitration, targeting | authority wins over everything and comes only from a verified user; an uncertain or foreign target is never taken personally |
| Configuration (`soul_loader.py`, `configuration.py`) | none | load SOUL.md | v2 or legacy, nothing in between |
| Rendering, presentation, registration, tools | none | text, React elements, one-time wiring | not protocol |

How they interact. The hooks of the Hermes process run on several threads; each loads its
session's state, may call the semantic provider for seconds **without any lock**, and then
commits through `mutate_exact`, which re-reads the file under its lock. The dashboard is
another process that commits through the same call with an expected revision. Retention
(`garbage_collect` at session start) removes files of other sessions. The dashboard's page
polls `GET /state` every five seconds; its edit controllers send an edit and then ask the
poller for a refresh. So the files, and the lock files beside them, are the only shared
memory, and everything between two store calls may interleave.

The hard behaviours, one by one and at their lines, are the `hazards` of `PROJECT.json`:
state used after the semantic call that was loaded before it, check and creation of a
session in two steps, retention against a turn that revives a session, orphaned lock files,
one re-entry flag for all threads, turn ids made from a revision that is stale, `updated_at`
with two meanings, late answers of the dashboard's server, refreshes that meet a poll.

## Plan

1. `JsonStore` over `StateRecords`: everything else stands on the atomicity of the store, so
   it comes first. Its abstract specification is `AffectRegister` (one atomic register per
   file), and the implementation is proved. *Done.*
2. `SessionRuntime`: hooks, commands and dashboard edits above atomic store calls, the step
   that 1 justifies. *Done, as far as the protocol goes.*
3. `DashboardPolling`: selection, polling, refreshes. *Done.*
4. `DashboardControls`: the two edit controllers and the drafts, above the contract
   `PageDisplay` that 3 implements. *Done.*
5. `AffectDynamics`: `apply_event`, `decay_state`, `observe_exchange`, posture and mood on whole
   thousandths, and `Classification`: moderation, normalization, arbitration and routing, both
   as operators; `TurnPipeline` composes them into one session's turns, edits and hours. *Done.*
6. `SessionCatalog`: offset paging over a list that is reordered between two pages. *Done.*

Proofs accompany the modules: `JsonStoreProofs`, `SessionRuntimeProofs`, `RuntimeRegisterProofs`,
`AffectDynamicsProofs`, `TurnPipelineProofs`, `DashboardPollingProofs`, `DashboardControlsProofs`,
`SessionCatalogProofs`. The plan is done: every safety property of a passing run is a
theorem, and liveness stays with TLC.

## Modules

### StateRecords and AffectRegister

`StateRecords` declares the parameters all store modules share and the record a state file
holds as far as the store looks at it: identity, revision, `updated_at`; `muts` is an
auxiliary count of the mutations a content has been through. An *identity* is a (profile,
session) pair and `PathOf` is `state_path`, which may map two identities to one file.

`AffectRegister` is what the store promises: a register per path that is put, mutated and
discarded in single steps, where a mutation is a successor of the current content under the
same identity and only an expired content is discarded.

### JsonStore

One action per file system operation that another process can observe: creating the lock
file (`O_CREAT|O_EXCL`), reading the state, replacing it (`os.replace`), unlinking it,
unlinking the lock. `pc[w]` is the place of worker `w` in `mutate_exact`, `save` or
`garbage_collect`; `copy`, `expected`, `target`, `todo`, `since` are the local variables of
those functions. Faults: the lock's process id cannot be written (the lock file is orphaned),
the write fails before the replacement, the unlink fails, the process dies anywhere.
`ClearOrphan` is the administrator of `docs/privacy-and-retention.md` who removes a stale
lock when nobody uses the state. The rest of the write (temporary file, fsync, chmod) is
invisible to others and part of `Write`.

The properties: `MutualExclusion`, `NoLostMutation`, `LockFileBelongsToCreator` (who may
remove a lock file), `ExactMutation` (identity and revision hold at the write although they
were checked steps before), `ImplementsRegister` (refinement, with `reg <- file`),
`EveryCallReturns`. `IndInv` is the inductive invariant of the proofs.

### SessionRuntime

A store call is one step, as `StoreImplementsRegister` allows. A call of the host, a user or
a dashboard request goes through `load`/`loadParent`/`create`/`save` (`_state`), `act` (what
the handler decides from the snapshot), `semantic` (the provider call) and `apply` (the
callback under the lock); `start` calls end in `collect`. The affect values are reduced to
their provenance: `turns` and `edits` a state contains, `born` and `decayed` for the hours it
has been decayed, next to the real fields `rev`, `at`, `last`, `legacy`, `gain`. A turn may
lack its `turn_id`; ids of `/affect calm` and `heat` are numbers made from the loaded
revision, as in `commands.py:107`. `Crash` ends every call of the Hermes process;
`MigrateSoul` is the operator who edits SOUL.md.

`muts` is auxiliary, as in `StateRecords`: the mutations a file has been through since it was last
written as a whole. With it a file is seen as the store sees it (`Recorded`), and `UsesRegister`
says that whatever the hooks, commands and edits do to the files is a step of `AffectRegister`, the
specification that `JsonStore` implements. So the two modules meet at one contract: the runtime asks
the store only for what the store provides, and the store provides it in single steps.

### DashboardPolling and PageDisplay

JavaScript runs a callback to its end, so each callback is an action of `DashboardPolling`: the
timer, an answer reaching the running effect (`Settle`) or a cancelled one (`SettleStale`),
`Refresh`, `Select` (render) and, as a later step, `RunEffect` (cleanup and effect of the new
selection), `Unmount`. `polls` holds the requests under way with their answers, `queue` the
refreshes that wait for the next poll.

The server is a revision per session and the session updated last. Nothing makes a revision grow
only: `Update` is a mutation, with a new revision (a turn, an edit, a reset) or without one (the
timestamp of a lifecycle hook). `Create` is the save of `_state` (`session_runtime.py:147`, `:159`),
at revision 0 or at that of the session it continues (`StartRevisions`); no lock spans the look for
the file and the save, so it may come when the session has a state with a larger revision, as in
`edit_lost`. `Remove` is retention, which spares the session of the hook that runs it and no other,
so the session updated last may go, too; then one of the others is the latest, or there is none.

`PageDisplay` is what `useSelectedState` promises the rest of the page, without timers, queue,
overlapping requests and generations. What is left is the display and the next answer to the
running effect; a refresh resolves when an answer that was *read after it was asked for* (or a
failure) reaches the display, or some time after its effect has been replaced.
`ImplementsDisplay` is the refinement: `waiting` are the refreshes asked for and not resolved,
`served` those that wait for the poll whose answer has come, `loose` those of cancelled polls.

- `NoOverlap`: the running effect has one request under way at most, and its flags tell the truth.
- `ShownIsSelected`, `AnswersInOrder`: no foreign state is shown and no answer overtakes a later one.
- `EveryRefreshResolves`, `PollingContinues`: liveness, see [fairness](#fairness).

### DashboardControls

It extends `PageDisplay`, as the controllers know the poller by its response and `refreshNow`
only. A call of `apply` (manual) or `save` (tuning) is an element of `save`: suspended until the
server answers (`sent`), then ready to go on (`answered`), then suspended until its refresh has
resolved (`refreshing`). `Submit`, `Drop`, `AskRefresh`, `EndRefresh`, `EndRefused` are the
stretches between two awaits. React's part is explicit where the code depends on it:
`AnswerArrives` changes the state that React holds, `Render` derives target and controls from it
(`activeKey`, `draft`), `RunEffects` runs the effects of that render (`requestGeneration`,
`pending`, reset tokens, the fields' drafts), and suspended saves may go on between the three.
`timely` is the comparison of a save's generation with `requestGeneration.current`, whose
effects are the same in both controllers; `session` and `activeKey` are the other half of
`requestIsCurrent`. Auxiliary: `meant`, the session whose control the value was typed into, and
`news`, whose state the last answer was about.

Assumed of React and the user: the effects of one render run before the next render, a render is
over before the next answer can come, and the user acts on a page whose effects have run.
Of the server nothing is assumed but what `PageDisplay` says. So what a save has
written may be gone before the save is reported, by `Create` or `Remove`; `lost` is auxiliary and
holds the saves to which that has happened (`Lose`), and a revision that grows after it is not
theirs. The
controls are taken to be enabled and the sessions to be of model version 2. Whether the number
typed differs from the one on display, and whether there is an override to restore, is left
open. The page is not left here (`PageDisplay` has `Leave`).

- `SentAsSeen`: an edit carries the session and revision on display and a value typed for that
  session, although the previous selection's response is still held after a selection, and the
  fields of the next session are the same React components.
- `OneSaveAtATime`: a controller has one save under way for the target of the page, also when the
  selection has gone away and come back.
- `SavingEnds`: while a controller is disabled, a save that will enable it, or the effects of a new
  target, are due. It says as an invariant what liveness would say under fairness: no step of
  the page leaves `pending` or `"saving"` behind.
- `SavedIsShown`: when a save is reported, the saved revision or a later one is on display, except
  for a save in `lost`, and unless the last answer was about another session.
- `DraftKept`: what was typed is dropped only for another target or selection, after a conflict or a
  restored value, when the selected session could not be read, or when no session is left to show.

Neither exception of `lost` and of the last session can be left out: TLC then finds the behaviours
in which a creation overwrites the saved state and the page reports "saved" above revision 0, and
in which retention takes the latest of all sessions and a poll the draft with it.

### SessionCatalog

The server's list is `Recent`, the sessions by their last update, each at the place that the number
of `Newer` ones gives it; `Page` cuts a page and reads one
state more to see whether there are others. `Touch` moves a session to the head, `Age` and
`Collect` are retention, which takes expired files one by one in the order of their names.
`LoadPage`, `Arrive` and `ArriveLate` are `loadPage` before and after its await; `RefreshSessions`,
`LoadMoreSessions` and `Retry` are the buttons with their own conditions - `Retry` alone is enabled
while a page is loading. Updates have distinct times.

- `NothingSkipped`: no session is listed twice; of the sessions nobody updated since the first page
  was read, all before a listed one are listed, and all when there is nothing more to load.
- `LoadingIsCurrent`: the buttons wait exactly for the answer that is due.

A session updated meanwhile may be missing until the next refresh, and a Load more may bring only
duplicates when as many sessions were updated as a page holds; `SESSION_NAVIGATION_PLAN.md:81`
calls the catalog eventually consistent.

### AffectDynamics, Classification and TurnPipeline

`SessionRuntime` asks which turns a state contains; these three ask what a turn does. Revisions,
turn ids and the file are left to the former.

`AffectDynamics` holds the values of a session and the pure functions over them, one operator per
branch of `apply_event` (`Please`, `Tease`, `Offend`, ...), `Decay`, `ObserveExchange`,
`DerivePosture`, `DeriveMood`. A value is a whole number of thousandths and every product is
rounded down, so quantities agree with the floats to within a few thousandths, and a reaction
that is positive here is positive there. A value within that distance of a threshold may fall on
its other side; no property is about such a value. The exponentials appear as what they
are used for: `MoodFactor` and `RelationFactor` are tables per persistence and hour, and the
comparison of `1 - exp(-x)` with a threshold is a comparison of `x`. Of the observed styles only
`playful` is kept, the one that is read again; the label of an edge's last event, the time stamps
and the audit trail are left out.

`Classification` goes from a delivered message to at most one routed event. A message is what the
rules find in it: `cues` are the event types whose patterns match, `calm` and `heat` the two
patterns of moderation. Names are already resolved: `Unknown` stands for a name that
`canonical_target` does not map to exactly one participant. `BotNames` are the identities of the
bot, of which routing uses the first while a semantic result may use any; a host that also lists
the bot among the other participants is outside the model. `Found`, `Dominant`, `Arbitrate` and
`Routed` are `classify`, `normalize_events`, `arbitrate_classifications` and `route_events`.

`TurnPipeline` has two actions per turn, because no lock is held between them: `Hear` classifies
and leaves the result in `pending`, `Apply` is `_apply_classified_turn` on the state of its own
moment. `ManualEdit`, `Wait` (an hour of the clock) and `TouchSession` (`updated_at` moves without
decay) may come between. `pending.moderates` and `pending.unresolved` are auxiliary: what the host
said about the message, which the properties compare with what became of it.

- `Projected`: the stored conflicts and mood are those of the stored values, whichever of four
  paths moved a value last.
- `AuthorityExact`: an intervention comes from a verified user who is no bot, and beats every other
  rule and outcome.
- `OthersStayOthers`, `UnresolvedImpersonal`: what is said to others, to nobody in a group or to an
  unknown recipient leaves the bot's own feelings and its regard alone.
- `RetaliationAimed`: a counterattack, refusal or evasion answers somebody with whom a conflict is
  open now, whatever happened between classification and application.
- `RegardByEvidence`: trust, affinity and respect for a participant change by that participant's
  own turns; neither time nor a mediation between others moves them.
- `ReactionsNeverVanish`: an insult hurts and an apology heals for every personality and history.
- `ObservationsBounded`: the records stay within the limit, one per pair and per speaker.
- `ExchangeRemembered`: the exchange just observed is the newest edge, a frustrated speaker has a
  record, and what was known goes only if it is the oldest entry of a full list that a new pair or
  speaker enters.

## Runs

Every configuration sets `CHECK_DEADLOCK FALSE`: the bounds on calls, polls and the clock end
each behaviour, and the page may be left.

| Run | Instance | What it shows |
|---|---|---|
| `store` | 2 workers, 3 identities on 2 files, 3 calls, 2 ticks | the safety properties of `JsonStore` and the refinement of `AffectRegister` |
| `store_live` | 2 workers, 1 file | every call returns or raises, also behind an orphaned lock |
| `runtime_one_session` | 2 workers, 1 session, 2 turn ids, 3 calls, 1 tick | no double decay, no immediate duplicate, no stale write-back |
| `runtime_two_sessions` | 2 workers, 2 sessions with a file each, 2 calls | the files are used as `AffectRegister` allows, legacy states preserved, a call changes one file and one session's state |
| `turns` | 3 participants (a person and a bot who speak, one who is remembered), 3 personalities, 9 semantic outcomes, all event families, 2 turns of a new session or 1 of a session with full lists, 1 edit, 1 hour between updates | projections follow their sources, authority is exact, nothing foreign is taken personally, reactions never vanish, the newest exchange is remembered |
| `polling` | 2 sessions, each missing or at revision 1, 2 refreshes, the timer while fewer than 2 requests were sent, 1 change on the server, 2 selections | one request at a time, the right state on display, answers in order, the refinement of `PageDisplay` |
| `polling_live` | 1 session, 2 refreshes, the timer while fewer than 2 requests were sent, 2 selections | refreshes resolve, also on a page that stays, and polling continues |
| `controls` | 2 sessions, 2 saves under way of 3, 1 of them a restore, 1 change elsewhere (an update, a creation or a removal), 2 selections, 4 events together | edits go where they were meant, one at a time, are shown when reported, leave nothing behind |
| `catalog` | 5 sessions in pages of 2, 5 requests, up to 2 expired | nothing skipped, nothing twice, loading is true |
| `edit_lost`, `shared_file`, `latest_stuck` | small instances of the same modules | one disagreement each, see below |

Why the bounds are enough. Two workers on one file show every conflict of the store, since a
step touches one file and its lock; a third identity makes two of them share a file. Three
calls allow a holder, a caller that gives up and a third that enters. `MaxAge` is one tick, so
two ticks pass from an update to its expiry, with the clock moving between the unlocked look
of the collector and its second one. One session with three calls allows two turns that
overlap in their semantic calls and an edit, a reset or a lifecycle hook between load and
commit. Two sessions with two calls allow a continuation against anything that happens to its
parent or child, and the collection of one session at the start of the other. Two turns with an
edit and an hour anywhere between them let the second meet a conflict, an edge or a mood that the
first, the edit or the decay left; the edit can set values a long history would need, and every
posture is reached. The record limit is 2. `MCInit` starts either in a new session with two turns to
come or, with one turn to come, in the state that two complaints between `a` and `q` leave: two
edges and two records, so that a turn of the third pair or speaker drops the oldest, and one of a
known pair takes its edge to the end. `MaxPolls` bounds the timer alone: a refresh, a queued refresh
and a new selection send their requests always, and the behaviours end because refreshes and
selections do. Two timed requests, two refreshes and two selections allow an answer to outlive its
selection, the selection to come back, and a refresh to wait behind either. From revision 1 one
change raises a state, keeps it, lets it fall to 0 or takes it away. In
`controls` two selections take the page away and back, two more events are the save of each
visit, or a save and a change elsewhere: before the save a conflict, after it the loss of what was saved.
There one or both sessions exist at revision 0 at first and creations start there, too. Five sessions
in pages of two are three pages, and two updates move one session before a page and one behind it;
where fewer sessions exist at first there are more updates; a reload, two Load more, a failure and
a Retry fit into five requests. Worker,
turn and session symmetry is used for safety runs only.

Bounds: `MaxCalls`, `MaxTime`, `MaxTurns`, `MaxEdits`, `MaxIdle`, `MaxPolls`, `MaxUpdates`, `MaxSelects`,
`MaxSubmits`, `MaxRestores`, `MaxEvents`, `MaxExpired`, `MaxLoads`; `KnownRevisions` limits
`expected_revision` to `0 .. MaxCalls`, the revisions a file can reach.

Every property has a mutant in `PROJECT.json`: a plausible slip in the code (the lock without
`O_EXCL`, the recheck dropped, the snapshot saved, the duplicate guard checked only before the
provider call, a refresh that joins the poll under way) under which TLC finds it violated.

## Fairness

`JsonStore`: weak fairness of each worker's own steps. The operating system schedules every
thread, and the lock loop sleeps 0.05 s and looks again until its deadline, so a waiting
worker always has a step that ends its call: `LockTimesOut`. Nothing is assumed about the
administrator, so `EveryCallReturns` holds behind a lock that is never removed.

`DashboardPolling`: weak fairness of the page's callbacks and of the server's answers. The
browser runs due callbacks; an answer or a failure eventually comes. The latter is an
assumption about the SDK's `fetchJSON`, which has no timeout of its own in `api.js`.

`DashboardControls` and `SessionCatalog` state theirs as invariants (`SavingEnds`,
`LoadingIsCurrent`): with the fairness of `DashboardPolling` and `EveryRefreshResolves` the awaited
step comes: every refresh that a controller awaits resolves, by the next request sent or by the
cleanup of its effect, and not only because the page is left - no bound on the number of requests
is an excuse in that property. `TurnPipeline` states none: a turn is over when the hook returns. `SessionRuntime` states no liveness: it waits for nothing but the store and the provider,
whose timeout is outside the repository's control.

## Proofs

Each theorem holds for every value of the constants, from the assumptions named in the modules:

- the model values for "nothing" and the like differ from the data they stand beside
  (`NoneAssumption`, `NoneFresh`, `NoEventIsNone`, `ValuesDiffer`, `ContentsAssumption`);
- `PathOf` is a function, `MaxAge` and the record limit are positive, bounds are natural numbers;
- the decay factors of a personality lie between 0 and 1 (`FactorsType`).

### The store

`JsonStoreProofs`, for any workers, paths and identities, also with colliding file names:

| Theorem | Statement |
|---|---|
| `IndInvariant` | `Spec => []IndInv` |
| `TypeCorrect` | `Spec => []TypeOK` |
| `Exclusion` | `Spec => []MutualExclusion` |
| `NoMutationLost` | `Spec => []NoLostMutation` |
| `MutationsExact` | `Spec => ExactMutation` |
| `LockFilesSafe` | `Spec => LockFileBelongsToCreator` |
| `StoreImplementsRegister` | `Spec => ImplementsRegister` |

`MutualExclusion` and `NoLostMutation` are not inductive: from an arbitrary state in which a
worker is past its read with an outdated copy, the next write loses a mutation. `IndInv` adds,
in layers, what rules this out. `CallAddressed`: a worker inside a call works on the path of its
identity. `LockHeld`: a worker in a locked place owns the lock file of its path, and a lock file
with a live creator is held by exactly that worker; this alone gives exclusion. `UnderLock`: what
a worker has read or decided under the lock is still true when it acts on it - the copy equals
the file before the callback and is one mutation ahead of it after, the file to unlink is still
expired. `FilesCurrent`: no file is from the future. The step is proved layer by layer
(`TypeStep`, `LockStep`, `ContentStep`), one case per action: a step of another worker cannot
disturb `UnderLock`, because it would have to be inside the same lock. The refinement maps `Write`
to `Mutate`, `SaveWrite` to `Put`, `Unlink` to `Discard`, `Tick` to `Advance`, and every other step
to a stutter.

### The runtime

`SessionRuntimeProofs`:

| Theorem | Statement |
|---|---|
| `RuntimeTyped` | `Spec => []TypeOK` |
| `HoursDecayOnce` | `Spec => []NoDoubleDecay` |
| `TurnsNotRepeated` | `Spec => []NoImmediateDuplicate` |
| `LegacyKept` | `Spec => LegacyPreserved` |
| `NothingWrittenBack` | `Spec => NoStaleOverwrite` |
| `SessionsIsolated` | `PathOf` injective, `Spec => SessionIsolation` |
| `RuntimeUsesRegister` | `Spec => UsesRegister` (`RuntimeRegisterProofs`) |

A call acts on what it loaded some steps ago, so the invariant is about files and about the
snapshots calls hold. `Good` states have an honest history: decayed hours lie between birth and
`updated_at`, no turn follows itself, the last turn is the one recorded. `StoreInv`: every file
is good. `WorkerInv`: what a call has loaded is good and came from the file of its path, and a
call that found no state never meets a legacy one there. Each change of a record (`Decayed`, `ApplyTurn`,
`ManualEdit`, `Continued`, ...) keeps a good state good; an action then only has to show which of
them it writes. The action properties look at the one write a step makes (`OnlyWrites`).
`SessionsIsolated` says of a call that it writes the file of the session it names and no other, from
and to a state of that session, in a creation, a continuation (which must not keep the parent's
identity) and a mutation alike. It needs the assumption that no two identities share a file name,
and the run `shared_file` shows that the code does not provide it. That an edit is committed to the
revision its author was shown is a guard of one step here, and so not a property of this module; the
store, where check and write are steps apart, has it as `ExactMutation`.

`RuntimeUsesRegister` maps `Save` to `Put`, the four applying steps to `Mutate`, `Collect` to
`Discard`, `Tick` to `Advance` and every other step to a stutter (`SaveImplements`,
`MutationImplements`, `RemovalImplements`). A mutation is a successor in the register's sense because
each of the record operators keeps the identity and moves the revision by at most one
(`MutationIs`, `ResetIs`) and starts from the content of that moment. A removal needs one
more conjunct, `CollectInv`: a collector's `t`, taken when it began, lies in the past, so what is
expired for it is expired now.

### The turns

`TurnPipelineProofs`, on lemmas about the operators of `AffectDynamics` in
`AffectDynamicsProofs`, for any participants, messages, personalities, decay factors and edits:

| Theorem | Statement |
|---|---|
| `AuthorityIsExact` | `Spec => []AuthorityExact` |
| `ProjectionsKept` | `Spec => []Projected` |
| `OthersRemainOthers` | `Spec => OthersStayOthers` |
| `UnresolvedStayImpersonal` | `Spec => UnresolvedImpersonal` |
| `RetaliationIsAimed` | `Spec => RetaliationAimed` |
| `RegardFollowsEvidence` | `Spec => RegardByEvidence` |
| `ReactionsRemain` | `Spec => ReactionsNeverVanish` |
| `TurnsTyped` | `Spec => []TypeOK` |
| `ObservationsAreBounded` | `Spec => []ObservationsBounded` |
| `ExchangesRemembered` | `Spec => ExchangeRemembered` |

`TurnInv` has three parts: the values are in their ranges (`WellFormed`), the stored conflicts are
those of the stored relations (`ConflictsOf`) and the mood that of the values, and what waits in
`pending` is at most one event, by the speaker of its message, an intervention exactly if the
message moderates, and aimed at a participant if its addressee was not resolved. One lemma per
event family (`PleaseIs`, `OffendIs`, `ReconcileIs`, ...) says what it does to the ranges, to
whose regard and to the bot's own feelings. They rest on three facts of the rounded arithmetic:
a share of a value is no more than the value (`MulShare`), a larger factor gives no less
(`MulGrows`), a clamped value is in its range (`ClampRange`). `ReactionsRemain` needs more than the
ranges: the trait floors bound the reaction from below, so that an offence comes to at least 3
thousandths and a repair to at least 7 whatever the personality, and rounding down cannot
swallow them.

The observed edges and records are sequences that a turn edits in the middle. `WellFormed` says
that they are no longer than the limit and have one entry per pair and per speaker (`EdgeList`,
`RecordList`). An observation about a known pair takes its edge out and puts the changed one
at the end, so the length stays and the pair is not repeated; a new pair drops the oldest edge when
the list is full. Both facts are proved for sequences of any length, from the places each entry
moves to (`EdgesBrought`, `RecordsNoted`) and from what truncation keeps (`NewestKeeps`).
`ExchangesRemembered` adds that nothing else in a turn touches the lists: decay keeps every pair and
speaker in place (`DecayAges`), and every event but an intervention leaves both alone until the
exchange itself is observed (`ApplyEventLeaves`, `ExchangeLists`).

### The page

`DashboardPollingProofs`:

| Theorem | Statement |
|---|---|
| `PollingTyped` | `Spec => []TypeOK` |
| `RequestsDoNotOverlap` | `Spec => []NoOverlap` |
| `SelectedIsShown` | `Spec => []ShownIsSelected` |
| `ShownInOrder` | `Spec => AnswersInOrder` |
| `PollingImplementsDisplay` | `Spec => ImplementsDisplay` |

`PollsInv` orders the requests: those of the running effect are about its selection and younger
than what is on display, and what they bring is about the session they asked for. `FlightInv` ties the in-flight flag to the one request of
the running effect. `WaitInv` places each refresh that has not resolved: it waits in the queue or on
exactly one request. The refinement maps `Serve` of the running effect's request to `Serve`,
`Settle` to `Settle`, `SettleStale` to `Release`, `RunEffect` to `Replace`, `Unmount` to `Leave`,
`Refresh` to `Ask`, and what concerns cancelled requests or the timer alone to a stutter.

`DashboardControlsProofs` stands on `PageDisplay` and so, with that refinement, on the poller:

| Theorem | Statement |
|---|---|
| `ControlsTyped` | `Spec => []TypeOK` |
| `OneSave` | `Spec => []OneSaveAtATime` |
| `SavingIsEnded` | `Spec => []SavingEnds` |
| `EditSentAsSeen` | `Spec => SentAsSeen` |
| `SavedShown` | `Spec => SavedIsShown` |
| `DraftIsKept` | `Spec => DraftKept` |

`SaveInv`: a timely save is about the target the effects last ran for, its controller is saving,
it is the only one of its controller, and a controller that is saving has one unless a new target's
effects are due. `ViewInv`: response and answer are about the session they were asked for, if they
were asked for one. `DraftInv`: a draft belongs to the rendered target, and something typed to a
response that is about the selection. For `SavedIsShown` four more conjuncts follow a committed
save that is not in `lost` from the server to the page: the server is past the revision the save was
based on (`Ahead`), because a step that makes a revision fall puts the acknowledged saves of its
session into `lost`,
an answer that resolves the save's refresh was read after the commit (`Fresh`), so was the last
answer the page has got (`Heard`), and while the effect of a selection is due, the effects that ran
are those of the target before (`Due`).

### The catalog

`SessionCatalogProofs`, for any sessions, page size and number of requests:

| Theorem | Statement |
|---|---|
| `LoadingTrue` | `Spec => []LoadingIsCurrent` |
| `CatalogTyped` | `Spec => []TypeOK` |
| `NothingIsSkipped` | `Spec => []NothingSkipped` |

The heart of `CatalogInv` is `Complete(listed, more, time)`: of the unexpired sessions nobody has
updated since `time`, those that are not listed are all older than the listed ones, and there are
none unless `more`. An update takes a session out of its range and retention only makes the range smaller, so
the server's steps keep it (`CompleteStays`). It holds of the list on the page, and of what the list
will be when the page under way is added to it (`Promised`), from the moment that page is read: the
first page is complete by itself (`FirstPage`); a later one begins at the length of the list, and a
session that is owed has all listed ones in front of it on the server, so its place is not before
that offset (`NextPage`). Because the answer may come after any number of updates, the
invariant is about the promise and not about the page.

Two operators need induction over data, which the provers cannot do from the library's theorems:
that `Recent` exists (a sequence in which each session stands behind its newer ones) and what the
recursive `Merged` returns. `LeastNumber` does it by hand, from the well-foundedness of the order on
natural numbers (`WFMin`, `NatLessThanWellFounded`): a set of numbers that is not empty has a least
one, so a first place at which the claim fails would have a predecessor at which it holds.

### Only model-checked

Liveness (`EveryCallReturns`, `EveryRefreshResolves`, `PollingContinues`), since fairness and
`ENABLED` are out of the prover's reach; and the three disagreements below, each of which is a
single behaviour. No module has a `RECURSIVE` operator.

## Disagreements found

Each is a run in which TLC reaches a state that a document, a comment or a message of the
program excludes; `PROJECT.json` quotes the line.

- `edit_lost`: `_state` looks for the file and creates it in two store calls; two calls that
  create the same session can overwrite an edit acknowledged in between.
- `shared_file`: `load` does not compare identities, so a session whose id is sanitized to
  another one's file name reads and changes that session's state.
- `latest_stuck`: in latest mode the page discards the answer about a newer session as long as
  its revision is below that of the session on display.

Known and not a finding:

- A turn delivered again after a *different* turn is applied again, because only the last id is
  kept.
- While one session waits for its provider, the turns of all others pass without affect
  (`IgnoreTurn`), and the re-entry flag, shared by all threads, is taken down by the first of two
  semantic calls to end.
- Lifecycle hooks, tuning and continuation move `updated_at` without decaying
  (`session_runtime.py:295`), so the hours before them are never decayed.
- `/affect calm` and `heat` report success when their turn was turned away by the re-entry guard or
  taken for a duplicate (`commands.py:107-111`).
- When the target changes during a manual save and comes back, the field's own status text stays
  "saving" (`manual_state_controller.js:88`): nothing clears it, though the controls are enabled.
- One failed poll of an exact selection takes the controls off the page and their drafts with them
  (`state_polling.js:59`, `page.js:90`); `DraftKept` excepts it.
- A draft survives polls, and the edit is then sent with the revision of the last poll
  (`manual_state_controller.js:81`): it may replace a value its author has not looked at.
- The tuning controls are enabled again while the refresh after a conflict is under way.
- An edit that `edit_lost` overwrites, or whose session retention takes, is reported as saved all the
  same, and the page may show revision 0 beside it: nothing in the answer to the refresh tells the
  controller (`manual_state_controller.js:89`). `SavedIsShown` excepts it (`lost`).
- When retention removes the latest session and none is left, the next poll takes the controls off
  the page and their drafts with them; `DraftKept` excepts it.
- In latest mode "saved" may appear above another session's state when the answer about the saved
  one is discarded as in `latest_stuck`; `SavedIsShown` is about answers of the saved session.

## What is not modelled

- The regular expressions, the provider's prompt and JSON, the wording of the guidance, the audit
  trail and the observed styles that nothing reads. The floats' rounding: see `AffectDynamics`.
- The texts of the dashboard's statuses, its tabs, and the participant chosen in the relationship
  controls, which are fields like the others.
- The clock moves forward only; `max(0, ...)` in `session_runtime.py:324` is not exercised.
- SOUL.md parsing, plugin registration, feature gates, layout and text of the dashboard, the calibration
  tool, the build script and the generated bundle: pure parsing, wiring or generated code.
