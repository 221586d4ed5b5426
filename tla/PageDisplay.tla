----------------------------- MODULE PageDisplay -----------------------------
(***************************************************************************)
(* What useSelectedState promises the rest of the page: a display that     *)
(* follows a server, and refreshes, each of which resolves                 *)
(*   - when an answer that was read after it was asked for, or a failure,  *)
(*     reaches the display, or                                             *)
(*   - some time after the effect it was asked of has been replaced.       *)
(* Timers, the queue, overlapping requests and their generations are gone: *)
(* only the next answer to the running effect is left.  DashboardPolling   *)
(* implements this module; DashboardControls stands on it.                 *)
(***************************************************************************)
EXTENDS Naturals

CONSTANTS
  Sessions,     \* exact selections; also the sessions the server may hold
  Latest,       \* the selection {mode: "latest"}
  Missing,      \* the server has no state for the session
  Unavailable,  \* the answer {available: false}
  Failed,       \* the request failed, or an exact state was answered by 404
  None,
  Refreshes,    \* calls of refreshNow
  StartRevisions,  \* revisions that a state is created with
  MaxUpdates,   \* bound: changes on the server
  MaxSelects    \* bound: selections made

VARIABLES
  revision,   \* server: session -> revision, or Missing
  latest,     \* server: the session updated last, or None
  updates,    \* changes made on the server
  selection,  \* the selection of the last render
  selects,    \* selections made
  effectSel,  \* the selection of the running effect
  display,    \* the response held, whose answer it is, the exact selection in error
  answer,     \* what the server last answered to the running effect, or None
  served,     \* the refreshes that answer resolves
  waiting,    \* refreshes asked for and not resolved
  loose       \* those of them that an effect now replaced was asked for

server == <<revision, latest, updates>>
choice == <<selection, selects, effectSel>>
refresh == <<answer, served, waiting, loose>>
displayVars == <<server, choice, display, refresh>>

Selections == Sessions \cup {Latest}
Snapshots == [session : Sessions, rev : Nat]
Displays == [response : Snapshots \cup {Unavailable}, sel : Selections,
             errorSel : Selections \cup {None}]

ASSUME StartRevisionsType == StartRevisions \subseteq Nat

ASSUME ValuesDiffer ==
  /\ Missing \notin Nat /\ None \notin Sessions
  /\ Unavailable \notin {Failed, None}
  /\ {Unavailable, Failed, None} \cap Snapshots = {}

Read(sel) ==
  CASE sel = Latest /\ latest = None -> Unavailable
    [] sel = Latest /\ latest # None -> [session |-> latest, rev |-> revision[latest]]
    [] sel # Latest /\ revision[sel] = Missing -> Failed
    [] OTHER -> [session |-> sel, rev |-> revision[sel]]

DisplayTypeOK ==
  /\ revision \in [Sessions -> Nat \cup {Missing}]
  /\ latest \in Sessions \cup {None}
  /\ {updates, selects} \subseteq Nat
  /\ {selection, effectSel} \subseteq Selections
  /\ display \in Displays
  /\ answer \in Snapshots \cup {Unavailable, Failed, None}
  /\ served \subseteq waiting /\ loose \subseteq waiting /\ waiting \subseteq Refreshes

DisplayInit ==
  /\ revision \in [Sessions -> {Missing, 0, 1}]
  /\ latest \in Sessions \cup {None}
  /\ latest = None <=> \A s \in Sessions : revision[s] = Missing
  /\ latest # None => revision[latest] # Missing
  /\ updates = 0 /\ selects = 0
  /\ selection = Latest /\ effectSel = Latest
  /\ display = [response |-> Read(Latest), sel |-> Latest, errorSel |-> None]
  /\ answer = None
  /\ served = {} /\ waiting = {} /\ loose = {}

-----------------------------------------------------------------------------
(* The server.                                                             *)

\* A mutation of the session's state: a turn, an edit or a reset is a new
\* revision, the timestamp of a lifecycle hook is not.
Written(s, bump) ==
  /\ revision[s] # Missing
  /\ revision' = [revision EXCEPT ![s] = @ + bump]
  /\ latest' = s

Update(s) ==
  /\ updates < MaxUpdates
  /\ updates' = updates + 1
  /\ \E bump \in {0, 1} : Written(s, bump)
  /\ UNCHANGED <<choice, display, refresh>>

\* A hook saves the state that it has created, at revision 0 or at the one of
\* the session it continues, over whatever the file holds by now.
Create(s) ==
  /\ updates < MaxUpdates
  /\ updates' = updates + 1
  /\ \E start \in StartRevisions : revision' = [revision EXCEPT ![s] = start]
  /\ latest' = s
  /\ UNCHANGED <<choice, display, refresh>>

\* Sessions other than s that the server has a state of.
Others(s) == {o \in Sessions \ {s} : revision[o] # Missing}

\* Retention removes an expired session.  If it was the one updated last, one
\* of the others is now; which one is left open.
Remove(s) ==
  /\ updates < MaxUpdates
  /\ updates' = updates + 1
  /\ revision[s] # Missing
  /\ revision' = [revision EXCEPT ![s] = Missing]
  /\ latest' \in CASE s # latest -> {latest}
                  [] s = latest /\ Others(s) # {} -> Others(s)
                  [] OTHER -> {None}
  /\ UNCHANGED <<choice, display, refresh>>

-----------------------------------------------------------------------------
(* The poller.                                                             *)

Ask(r) ==
  /\ r \notin waiting
  /\ waiting' = waiting \cup {r}
  /\ UNCHANGED <<server, choice, display, answer, served, loose>>

\* The server answers a request of the running effect; the refreshes of
\* "some" were asked for before that request was sent.
Serve(some) ==
  /\ answer = None
  /\ some \subseteq waiting \ loose
  /\ answer' \in {Read(effectSel), Failed}
  /\ served' = some
  /\ UNCHANGED <<server, choice, display, waiting, loose>>

\* The display keeps a response of the same selection with a larger revision.
Newer ==
  /\ answer \in Snapshots
  /\ display.response \in Snapshots
  /\ display.sel = effectSel
  /\ answer.rev < display.response.rev

\* The answer reaches the page.
Settle ==
  /\ answer # None
  /\ display' =
       CASE answer = Failed ->
              [display EXCEPT !.errorSel = IF effectSel = Latest THEN None ELSE effectSel]
         [] answer # Failed /\ Newer -> display
         [] OTHER -> [response |-> answer, sel |-> effectSel, errorSel |-> None]
  /\ answer' = None
  /\ served' = {}
  /\ waiting' = waiting \ served
  /\ UNCHANGED <<server, choice, loose>>

\* A refresh that outlived its effect resolves.
Release(some) ==
  /\ some # {} /\ some \subseteq loose
  /\ waiting' = waiting \ some
  /\ loose' = loose \ some
  /\ UNCHANGED <<server, choice, display, answer, served>>

Select(sel) ==
  /\ selects < MaxSelects
  /\ selects' = selects + 1
  /\ sel # selection
  /\ selection = effectSel
  /\ selection' = sel
  /\ UNCHANGED <<server, effectSel, display, refresh>>

\* The cleanup of an effect: the queued refreshes are let go, the one whose
\* request is under way (if any) comes loose.
Abandon ==
  /\ answer' = None
  /\ served' = {}
  /\ loose' \in SUBSET waiting
  /\ loose \subseteq loose'
  /\ waiting' = loose'

\* The effect of the new selection replaces the running one.
Replace ==
  /\ selection # effectSel
  /\ effectSel' = selection
  /\ display' = [display EXCEPT !.errorSel = None]
  /\ Abandon
  /\ UNCHANGED <<server, selection, selects>>

\* The page is left.
Leave == Abandon /\ UNCHANGED <<server, choice, display>>

DisplayNext ==
  \/ \E s \in Sessions : Update(s) \/ Create(s) \/ Remove(s)
  \/ \E r \in Refreshes : Ask(r)
  \/ \E some \in SUBSET Refreshes : Serve(some) \/ Release(some)
  \/ Settle
  \/ \E sel \in Selections : Select(sel)
  \/ Replace
  \/ Leave

DisplaySpec == DisplayInit /\ [][DisplayNext]_displayVars
=============================================================================
