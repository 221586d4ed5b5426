-------------------------- MODULE DashboardPolling --------------------------
(***************************************************************************)
(* useSelectedState of the dashboard's frontend: the page polls the latest *)
(* or one exact session, the user moves the selection, and the edit        *)
(* controllers ask for a refresh while a poll may be under way.            *)
(*                                                                         *)
(* JavaScript runs one callback at a time, so each callback is one step.   *)
(* The steps that interleave are: the server answering, the answer         *)
(* reaching the page, the timer, a new selection being rendered and, later, *)
(* the effect of that selection replacing the previous one.                *)
(***************************************************************************)
EXTENDS Naturals, FiniteSets

CONSTANTS
  Sessions,     \* exact selections; also the sessions the server retains
  Latest,       \* the selection {mode: "latest"}
  Missing,      \* the server has no state for the session
  Unavailable,  \* the answer {available: false}
  Failed,       \* the request failed, or an exact state was answered by 404
  None,
  Refreshes,    \* calls of refreshNow
  StartRevisions,  \* revisions that a state is created with
  MaxPolls,     \* bound: the timer fires while fewer requests have been sent
  MaxUpdates,   \* bound: changes on the server
  MaxSelects    \* bound: selections made

ASSUME BoundsAssumption == MaxPolls \in Nat /\ MaxUpdates \in Nat /\ MaxSelects \in Nat
ASSUME LatestAssumption == Latest \notin Sessions
ASSUME StartRevisionsAssumption == StartRevisions \subseteq Nat

VARIABLES
  revision,    \* server: session -> revision, or Missing
  latest,      \* server: the session updated last, or None
  updates,     \* changes made on the server
  selection,   \* the selection of the last render
  selects,     \* selections made
  mounted,     \* the page is mounted
  gen,         \* generationRef.current
  effectSel,   \* request.selection of the running effect
  inFlight,    \* its inFlight
  again,       \* its refreshAfterCurrentPoll
  queue,       \* its queuedRefreshWaiters
  timer,       \* its timer is armed
  polls,       \* requests under way, of this effect and of earlier ones
  sent,        \* requests sent
  view,        \* what useState holds
  asked,       \* auxiliary: refresh -> requests sent before it, or None
  resolved,    \* auxiliary: refresh -> the request that resolved it, 0 for a
               \*   cleanup, None as long as it is pending
  fetched      \* auxiliary: last successful answer to the running effect

server == <<revision, latest, updates>>
effect == <<gen, effectSel, inFlight, again, queue, timer>>
ghosts == <<asked, resolved, fetched>>
vars == <<server, selection, selects, mounted, effect, polls, sent, view, ghosts>>

Selections == Sessions \cup {Latest}

\* A response with a state: whose it is and at which revision.
Snapshots == [session : Sessions, rev : Nat]

Answers == Snapshots \cup {Unavailable, Failed}

Requests == [n : Nat, gen : Nat, sel : Selections, answer : Answers \cup {None},
             waiters : SUBSET Refreshes]

\* "by" is auxiliary: the number of the request that brought the response.
Views == [response : Snapshots \cup {Unavailable}, sel : Selections, by : Nat,
          errorSel : Selections \cup {None}, hasError : BOOLEAN]

ASSUME ValuesDiffer ==
  /\ Missing \notin Nat /\ None \notin Nat /\ None \notin Sessions
  /\ None \notin Answers
  /\ {Unavailable, Failed} \cap Snapshots = {} /\ Unavailable # Failed

-----------------------------------------------------------------------------
(* The server.                                                             *)

\* GET /state: the state of an exact selection, or of the latest session.
Read(sel) ==
  IF sel = Latest
  THEN IF latest = None THEN Unavailable ELSE [session |-> latest, rev |-> revision[latest]]
  ELSE IF revision[sel] = Missing THEN Failed ELSE [session |-> sel, rev |-> revision[sel]]

\* A turn, an edit or a reset, which makes a new revision, or the timestamp of
\* a lifecycle hook, which does not.
Update(s) ==
  /\ updates < MaxUpdates
  /\ updates' = updates + 1
  /\ revision[s] # Missing
  /\ \E bump \in {0, 1} : revision' = [revision EXCEPT ![s] = @ + bump]
  /\ latest' = s
  /\ UNCHANGED <<selection, selects, mounted, effect, polls, sent, view, ghosts>>

\* A hook that found no state saves the one it has created, at revision 0 or at
\* that of the session it continues, over whatever the file holds by now.
Create(s) ==
  /\ updates < MaxUpdates
  /\ updates' = updates + 1
  /\ \E start \in StartRevisions : revision' = [revision EXCEPT ![s] = start]
  /\ latest' = s
  /\ UNCHANGED <<selection, selects, mounted, effect, polls, sent, view, ghosts>>

\* Retention removes a session that was not updated for long.  If it was the
\* one updated last, one of the others is now; which one is left open.
Remove(s) ==
  LET others == {o \in Sessions \ {s} : revision[o] # Missing} IN
  /\ updates < MaxUpdates
  /\ updates' = updates + 1
  /\ revision[s] # Missing
  /\ revision' = [revision EXCEPT ![s] = Missing]
  /\ latest' \in CASE s # latest -> {latest}
                  [] s = latest /\ others # {} -> others
                  [] OTHER -> {None}
  /\ UNCHANGED <<selection, selects, mounted, effect, polls, sent, view, ghosts>>

Serve(p) ==
  /\ p.answer = None
  /\ \E answer \in {Read(p.sel), Failed} :
       polls' = (polls \ {p}) \cup {[p EXCEPT !.answer = answer]}
  /\ UNCHANGED <<server, selection, selects, mounted, effect, sent, view, ghosts>>

-----------------------------------------------------------------------------
(* The page.                                                               *)

Init ==
  /\ revision \in [Sessions -> {Missing, 0, 1}]
  /\ latest \in Sessions \cup {None}
  /\ latest = None <=> \A s \in Sessions : revision[s] = Missing
  /\ latest # None => revision[latest] # Missing
  /\ updates = 0
  /\ selection = Latest
  /\ selects = 0
  /\ mounted = TRUE
  /\ gen = 1
  /\ effectSel = Latest
  /\ inFlight = FALSE
  /\ again = FALSE
  /\ queue = {}
  /\ timer = TRUE
  /\ polls = {}
  /\ sent = 0
  /\ view = [response |-> Read(Latest), sel |-> Latest, by |-> 0, errorSel |-> None,
             hasError |-> FALSE]
  /\ asked = [r \in Refreshes |-> None]
  /\ resolved = [r \in Refreshes |-> None]
  /\ fetched = None

\* The running effect's next request, with the refreshes that wait for it.
Request(waiters) ==
  [n |-> sent + 1, gen |-> gen, sel |-> effectSel, answer |-> None, waiters |-> waiters]

\* poll() up to its await.
StartPoll(others, waiters) ==
  /\ sent' = sent + 1
  /\ polls' = others \cup {Request(waiters)}
  /\ inFlight' = TRUE

TimerFires ==
  /\ timer
  /\ sent < MaxPolls
  /\ timer' = FALSE
  /\ StartPoll(polls, {})
  /\ UNCHANGED <<server, selection, selects, mounted, gen, effectSel, again, queue, view, ghosts>>

\* Mutant of Refresh: the request under way serves the refresh as well.
Refresh_Joins(r) ==
  /\ mounted
  /\ asked[r] = None
  /\ asked' = [asked EXCEPT ![r] = sent]
  /\ timer' = FALSE
  /\ \/ /\ inFlight
        /\ polls' = {[p EXCEPT !.waiters = IF p.gen = gen THEN @ \cup {r} ELSE @] : p \in polls}
        /\ UNCHANGED <<sent, inFlight>>
     \/ ~inFlight /\ StartPoll(polls, {r})
  /\ UNCHANGED <<server, selection, selects, mounted, gen, effectSel, again, queue, view,
                 resolved, fetched>>

\* Mutant of Refresh: a poll under way is not looked for.
Refresh_Overlaps(r) ==
  /\ mounted
  /\ asked[r] = None
  /\ asked' = [asked EXCEPT ![r] = sent]
  /\ timer' = FALSE
  /\ StartPoll(polls, {r})
  /\ UNCHANGED <<server, selection, selects, mounted, gen, effectSel, again, queue, view,
                 resolved, fetched>>

\* refreshNow of the running effect.
Refresh(r) ==
  /\ mounted
  /\ asked[r] = None
  /\ asked' = [asked EXCEPT ![r] = sent]
  /\ timer' = FALSE
  /\ \/ /\ inFlight
        /\ again' = TRUE
        /\ queue' = queue \cup {r}
        /\ UNCHANGED <<polls, sent, inFlight>>
     \/ /\ ~inFlight
        /\ StartPoll(polls, {r})
        /\ UNCHANGED <<again, queue>>
  /\ UNCHANGED <<server, selection, selects, mounted, gen, effectSel, view, resolved, fetched>>

\* Mutant of Live: answers to earlier effects count, too.
Live_Always(p) == mounted

\* The request was sent by the running effect, which was not cancelled.
Live(p) == mounted /\ p.gen = gen

\* An answer about an older revision than the one on display.
Outdated(p) ==
  /\ p.answer \in Snapshots
  /\ view.response \in Snapshots
  /\ view.sel = p.sel
  /\ p.answer.rev < view.response.rev

\* Mutant of Accepted: the answer is filed under the selection on display.
Accepted_Unkeyed(p) ==
  [response |-> p.answer, sel |-> selection, by |-> p.n, errorSel |-> None, hasError |-> FALSE]

\* acceptStateSuccess.
Accepted(p) ==
  IF Outdated(p) THEN view
  ELSE [response |-> p.answer, sel |-> p.sel, by |-> p.n, errorSel |-> None, hasError |-> FALSE]

\* Mutant of Rejected: the failure replaces the response.
Rejected_Shows(p) ==
  [view EXCEPT !.response = p.answer, !.hasError = p.sel = Latest]

\* acceptStateFailure keeps the response; errorSel stands for
\* selectedStateError, which only an exact selection has.
Rejected(p) ==
  [view EXCEPT !.errorSel = IF p.sel = Latest THEN None ELSE p.sel,
               !.hasError = p.sel = Latest]

Resolve(waiters, n) ==
  resolved' = [r \in Refreshes |-> IF r \in waiters THEN n ELSE resolved[r]]

\* Mutant of AfterPoll: the refreshes queued meanwhile are not looked at.
AfterPoll_Forgets(p) ==
  /\ timer' = TRUE
  /\ inFlight' = FALSE
  /\ polls' = polls \ {p}
  /\ UNCHANGED <<again, queue, sent>>

\* Mutant of AfterPoll: a failed poll is the last one.
AfterPoll_StopsOnFailure(p) ==
  \/ /\ again
     /\ again' = FALSE
     /\ queue' = {}
     /\ StartPoll(polls \ {p}, queue)
     /\ UNCHANGED timer
  \/ /\ ~again
     /\ timer' = (p.answer # Failed)
     /\ inFlight' = FALSE
     /\ polls' = polls \ {p}
     /\ UNCHANGED <<again, queue, sent>>

\* poll()'s "finally": the refreshes queued meanwhile get a request of their
\* own, otherwise the timer is armed.
AfterPoll(p) ==
  \/ /\ again
     /\ again' = FALSE
     /\ queue' = {}
     /\ timer' = FALSE
     /\ StartPoll(polls \ {p}, queue)
  \/ /\ ~again
     /\ timer' = TRUE
     /\ inFlight' = FALSE
     /\ polls' = polls \ {p}
     /\ UNCHANGED <<again, queue, sent>>

\* The answer reaches the effect that waits for it.
Settle(p) ==
  /\ p.answer # None
  /\ Live(p)
  /\ view' = IF p.answer = Failed THEN Rejected(p) ELSE Accepted(p)
  /\ fetched' = IF p.answer = Failed THEN fetched ELSE p.answer
  /\ Resolve(p.waiters, p.n)
  /\ AfterPoll(p)
  /\ UNCHANGED <<server, selection, selects, mounted, gen, effectSel, asked>>

\* The answer reaches an effect that was cancelled.
SettleStale(p) ==
  /\ p.answer # None
  /\ ~Live(p)
  /\ polls' = polls \ {p}
  /\ Resolve(p.waiters, p.n)
  /\ UNCHANGED <<server, selection, selects, mounted, effect, sent, view, asked, fetched>>

\* The user selects another session; the page renders, its effects run later.
Select(sel) ==
  /\ mounted
  /\ selects < MaxSelects
  /\ sel # selection
  /\ selection = effectSel
  /\ selection' = sel
  /\ selects' = selects + 1
  /\ UNCHANGED <<server, mounted, effect, polls, sent, view, ghosts>>

\* The cleanup of the running effect lets the queued refreshes go.
Cleanup == Resolve(queue, 0)

\* The effect of the new selection replaces the running one and polls at
\* once.
RunEffect ==
  /\ mounted
  /\ selection # effectSel
  /\ Cleanup
  /\ gen' = gen + 1
  /\ effectSel' = selection
  /\ again' = FALSE
  /\ queue' = {}
  /\ timer' = FALSE
  /\ inFlight' = TRUE
  /\ sent' = sent + 1
  /\ polls' = polls \cup {[n |-> sent + 1, gen |-> gen + 1, sel |-> selection, answer |-> None,
                           waiters |-> {}]}
  /\ view' = [view EXCEPT !.errorSel = None, !.hasError = FALSE]
  /\ fetched' = None
  /\ UNCHANGED <<server, selection, selects, mounted, asked>>

\* The page is left.
Unmount ==
  /\ mounted
  /\ mounted' = FALSE
  /\ Cleanup
  /\ again' = FALSE
  /\ queue' = {}
  /\ timer' = FALSE
  /\ UNCHANGED <<server, selection, selects, gen, effectSel, inFlight, polls, sent, view, asked,
                 fetched>>

-----------------------------------------------------------------------------

Page ==
  \/ TimerFires
  \/ \E p \in polls : Settle(p) \/ SettleStale(p)
  \/ RunEffect

Next ==
  \/ \E s \in Sessions : Update(s) \/ Create(s) \/ Remove(s)
  \/ \E p \in polls : Serve(p)
  \/ Page
  \/ \E r \in Refreshes : Refresh(r)
  \/ \E sel \in Selections : Select(sel)
  \/ Unmount

Spec == Init /\ [][Next]_vars

\* The browser runs timers, effects and callbacks, and every request is
\* answered or fails in the end; fetchJSON itself has no timeout.
Fairness == WF_vars(Page) /\ WF_vars(\E p \in polls : Serve(p))

FairSpec == Spec /\ Fairness

-----------------------------------------------------------------------------
(* Properties.                                                             *)

\* deriveStateView: a state is on display.
HasMatchingResponse ==
  /\ view.response \in Snapshots
  /\ view.sel = selection
  /\ view.errorSel # selection

\* Every variable has its type (state_polling.js).
TypeOK ==
  /\ revision \in [Sessions -> Nat \cup {Missing}]
  /\ latest \in Sessions \cup {None}
  /\ updates \in Nat
  /\ selection \in Selections
  /\ selects \in Nat
  /\ mounted \in BOOLEAN
  /\ gen \in Nat
  /\ effectSel \in Selections
  /\ inFlight \in BOOLEAN
  /\ again \in BOOLEAN
  /\ queue \in SUBSET Refreshes
  /\ timer \in BOOLEAN
  /\ polls \in SUBSET Requests
  /\ sent \in Nat
  /\ view \in Views
  /\ asked \in [Refreshes -> Nat \cup {None}]
  /\ resolved \in [Refreshes -> Nat \cup {None}]
  /\ fetched \in Answers \cup {None}

\* The running effect has at most one request under way, none is started by
\* the timer meanwhile, and its flag tells the truth, however polls,
\* refreshes and selections meet ("must not issue overlapping requests").
NoOverlap ==
  mounted =>
    /\ Cardinality({p \in polls : p.gen = gen}) = (IF inFlight THEN 1 ELSE 0)
    /\ inFlight => ~timer
    /\ again <=> queue # {}

\* A selected session is never shown the state of another one, also while
\* the answer to the previous selection is still to come.
ShownIsSelected ==
  HasMatchingResponse /\ selection # Latest => view.response.session = selection

\* The page never goes back to an answer that was requested before the one
\* it has shown, whatever order the answers arrive in.
AnswersInOrder == [][view'.by >= view.by]_vars

\* Every refresh resolves, by the next request sent after it was asked for or by
\* a cleanup: no edit stays "saving" because a poll, a second refresh or a new
\* selection got in its way, whether the page is left or stays
\* (state_polling.js:138, :172, :188).
EveryRefreshResolves ==
  \A r \in Refreshes :
    asked[r] # None ~> (asked[r] # None /\ resolved[r] \in {0, asked[r] + 1})

\* The page polls on as long as it is mounted, also after a failure.
PollingContinues ==
  \A n \in 0 .. MaxPolls - 1 : (mounted /\ sent = n) ~> (~mounted \/ sent > n)

\* What PageDisplay sees: the answer that the running effect is about to get,
\* the refreshes that wait, and those of them an earlier effect was asked for.
Arriving == {p \in polls : Live(p) /\ p.answer # None}
Stale == {p \in polls : ~Live(p)}
AnswerOf(ps) == IF ps = {} THEN None ELSE (CHOOSE p \in ps : TRUE).answer
WaitersOf(ps) == UNION {p.waiters : p \in ps}
OnDisplay == [response |-> view.response, sel |-> view.sel, errorSel |-> view.errorSel]
Waiting == {r \in Refreshes : asked[r] # None /\ resolved[r] = None}

Display == INSTANCE PageDisplay WITH
  display <- OnDisplay,
  answer  <- AnswerOf(Arriving),
  served  <- WaitersOf(Arriving),
  waiting <- Waiting,
  loose   <- WaitersOf(Stale)

\* The poller keeps what the edit controllers rely on: the display changes by
\* answers to the running effect alone, and a refresh is over only when an
\* answer read after it was asked for is on display, however the timer, the
\* queue, overlapping requests and cancelled effects meet (state_polling.js).
ImplementsDisplay == Display!DisplaySpec

\* In latest mode the page shows a state of the session that the last answer
\* was about.
LatestFollowed ==
  mounted /\ effectSel = Latest /\ fetched \in Snapshots =>
    view.response \in Snapshots /\ view.response.session = fetched.session
=============================================================================
