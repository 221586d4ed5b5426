-------------------------- MODULE DashboardControls --------------------------
(***************************************************************************)
(* The dashboard's two edit controllers, useManualStateControls and        *)
(* useTuningControls, and the drafts of their fields, above the display    *)
(* that PageDisplay promises.                                              *)
(*                                                                         *)
(* A save is one call of apply or save.  It is suspended until the server  *)
(* has answered and again until the refresh it asks for has resolved.      *)
(* An answer changes the state that React holds, the render follows later, *)
(* and the effects of the render later still; suspended saves may go on    *)
(* between these steps.  The user acts on a page whose effects have run.   *)
(* One field stands for all those of the manual controls.                  *)
(***************************************************************************)
EXTENDS PageDisplay

CONSTANTS
  MaxSubmits,   \* bound: saves started
  MaxRestores,  \* bound: only the first saves may restore
  MaxEvents     \* bound: saves started, selections and changes elsewhere together

Saves == Refreshes   \* a save asks for one refresh at most

Controllers == {"manual", "tuning"}
Results == {"saved", "conflict", "error"}

VARIABLES
  save,         \* save -> its local variables, or None
  submits,      \* saves started
  saving,       \* controller -> pending of the manual, status = "saving" of the tuning one
  activeKey,    \* the target of the last render: activeKey.current, activeTarget.current
  effectKey,    \* the target whose effects ran last
  dirty,        \* the display has changed and is not rendered
  resetDue,     \* controller -> resetToken has changed, the fields' effects have not run
  draft,        \* controller -> the draft of its field, None while it is not rendered
  lost,         \* auxiliary: the acknowledged saves whose state was overwritten or
                \*   removed since
  news          \* auxiliary: whose state the running effect was last told, or None

edits == <<save, submits, saving, lost>>
hooks == <<activeKey, effectKey, resetDue>>
vars == <<displayVars, edits, hooks, dirty, draft, news>>

\* session, rev: what was sent; timely: requestGeneration.current is still the
\* generation captured; meant: the session whose control the value was typed
\* into (auxiliary).
SaveRecords ==
  [controller : Controllers, restore : BOOLEAN, phase : {"sent", "answered", "refreshing"},
   session : Sessions, rev : Nat, timely : BOOLEAN, meant : Sessions,
   result : Results \cup {None}]

Drafts == [session : Sessions, typed : BOOLEAN]

ASSUME NoneAssumption == None \notin Results /\ None \notin SaveRecords

\* The save e is suspended there.
At(e, phase) == save[e] # None /\ save[e].phase = phase

-----------------------------------------------------------------------------
(* What a render derives.                                                  *)

\* hasMatchingResponse, with which the page renders the controls.
Shown(shown, sel) ==
  /\ shown.response \in Snapshots
  /\ shown.sel = sel
  /\ shown.errorSel # sel

\* Mutant of Target: the latest selection is not resolved to a session.
Target_Unresolved(shown, sel) == sel

\* targetFor.
Target(shown, sel) ==
  CASE sel # Latest -> sel
    [] sel = Latest /\ shown.response \in Snapshots -> shown.response.session
    [] OTHER -> None

\* Mutant of Rendered: every render starts the drafts again.
Rendered_Restarts(sel) ==
  /\ activeKey' = Target(display, sel)
  /\ draft' = [c \in Controllers |->
       IF Shown(display, sel) THEN [session |-> display.response.session, typed |-> FALSE]
       ELSE None]
  /\ dirty' = FALSE

\* A control that appears starts with the value on display; one that stays
\* keeps its draft.
Rendered(sel) ==
  /\ activeKey' = Target(display, sel)
  /\ draft' = [c \in Controllers |->
       CASE ~Shown(display, sel) -> None
         [] Shown(display, sel) /\ draft[c] = None ->
              [session |-> display.response.session, typed |-> FALSE]
         [] OTHER -> draft[c]]
  /\ dirty' = FALSE

EffectsDue ==
  selection # effectSel \/ activeKey # effectKey \/ \E c \in Controllers : resetDue[c]

-----------------------------------------------------------------------------

Init ==
  /\ DisplayInit
  /\ save = [e \in Saves |-> None]
  /\ submits = 0
  /\ saving = [c \in Controllers |-> FALSE]
  /\ lost = {}
  /\ activeKey = Target(display, selection) /\ effectKey = activeKey
  /\ dirty = FALSE
  /\ resetDue = [c \in Controllers |-> FALSE]
  /\ draft = [c \in Controllers |->
       IF Shown(display, selection) THEN [session |-> activeKey, typed |-> FALSE] ELSE None]
  /\ news = None

\* React runs the effects of one render before it starts the next.
Render ==
  /\ dirty /\ ~EffectsDue
  /\ Rendered(selection)
  /\ UNCHANGED <<displayVars, edits, effectKey, resetDue, news>>

\* Mutant of FieldEffects: the fields' effects depend on the reset token alone.
FieldEffects_TokenOnly ==
  draft' = [c \in Controllers |->
    IF draft[c] # None /\ resetDue[c] THEN [session |-> activeKey, typed |-> FALSE] ELSE draft[c]]

\* The fields' effects: a new target or token starts a new draft.
FieldEffects ==
  draft' = [c \in Controllers |->
    IF draft[c] # None /\ (activeKey # effectKey \/ resetDue[c])
    THEN [session |-> activeKey, typed |-> FALSE] ELSE draft[c]]

\* The generation moves on: the saves under way are late from now on.
NextGeneration ==
  save' = [e \in Saves |-> IF save[e] = None THEN None ELSE [save[e] EXCEPT !.timely = FALSE]]

\* Mutant of TargetEffects: pending and status survive a new target.
TargetEffects_Keep == NextGeneration /\ UNCHANGED saving

\* The controllers' effects of a new target.  The new token of the tuning
\* controller starts once more the draft that FieldEffects has just started.
TargetEffects == NextGeneration /\ saving' = [c \in Controllers |-> FALSE]

\* All effects of the last render, in one flush.
RunEffects ==
  /\ EffectsDue
  /\ IF selection # effectSel
     THEN Replace /\ dirty' = TRUE /\ news' = None
     ELSE UNCHANGED <<displayVars, dirty, news>>
  /\ IF activeKey # effectKey THEN TargetEffects ELSE UNCHANGED <<save, saving>>
  /\ FieldEffects
  /\ effectKey' = activeKey
  /\ resetDue' = [c \in Controllers |-> FALSE]
  /\ UNCHANGED <<submits, lost, activeKey>>

-----------------------------------------------------------------------------
(* The user.                                                               *)

WithinBounds == updates + selects + submits < MaxEvents

UserActs == ~dirty /\ ~EffectsDue

\* A selection is rendered at once.
Choose(sel) ==
  /\ UserActs /\ WithinBounds
  /\ Select(sel)
  /\ Rendered(sel)
  /\ UNCHANGED <<edits, effectKey, resetDue, news>>

\* The control is on the page and enabled.
Enabled(c) == UserActs /\ draft[c] # None /\ ~saving[c]

Type(c) ==
  /\ Enabled(c)
  /\ ~draft[c].typed
  /\ draft' = [draft EXCEPT ![c].typed = TRUE]
  /\ UNCHANGED <<displayVars, edits, hooks, dirty, news>>

\* Apply, or Restore in the tuning controls.  Whether the number typed differs
\* from the one on display, and whether there is an override, is left open.
Submit(e, c, restore) ==
  /\ submits < MaxSubmits /\ WithinBounds
  /\ submits' = submits + 1
  /\ save[e] = None
  /\ Enabled(c)
  /\ display.response \in Snapshots
  /\ IF restore THEN c = "tuning" /\ submits < MaxRestores ELSE draft[c].typed
  /\ save' = [save EXCEPT ![e] =
       [controller |-> c, restore |-> restore, phase |-> "sent", session |-> activeKey,
        rev |-> display.response.rev, timely |-> TRUE, result |-> None,
        meant |-> IF restore THEN activeKey ELSE draft[c].session]]
  /\ saving' = [saving EXCEPT ![c] = TRUE]
  /\ UNCHANGED <<displayVars, lost, hooks, dirty, draft, news>>

-----------------------------------------------------------------------------
(* The server answers.                                                     *)

Answered(e, kind) ==
  save' = [save EXCEPT ![e].phase = "answered", ![e].result = kind]

\* The edit is committed to the revision it expects; its answer may get lost.
Commit(e) ==
  /\ At(e, "sent")
  /\ revision[save[e].session] = save[e].rev
  /\ Written(save[e].session, 1)
  /\ Answered(e, "saved") \/ Answered(e, "error")
  /\ UNCHANGED <<updates, choice, display, refresh, submits, saving, lost, hooks, dirty, draft,
                 news>>

\* Another revision or a lock held for too long; no such session or any other
\* failure ("unavailable" and "error" differ in their wording only).
Refuse(e) ==
  /\ At(e, "sent")
  /\ Answered(e, "conflict") \/ Answered(e, "error")
  /\ UNCHANGED <<displayVars, submits, saving, lost, hooks, dirty, draft, news>>

-----------------------------------------------------------------------------
(* A save goes on.                                                         *)

\* Mutant of Current: the target is compared, the generation is not.
Current_KeyOnly(e) == save[e].session = activeKey

\* requestIsCurrent.
Current(e) == save[e].timely /\ save[e].session = activeKey

\* Mutant of Resolved: the refresh is not awaited.
Resolved_AtOnce(e) == TRUE

\* refreshState() has resolved.
Resolved(e) == e \notin waiting

Over(e) == save' = [save EXCEPT ![e] = None] /\ lost' = lost \ {e}

\* The controller is enabled again.
Finish(e) == saving' = [saving EXCEPT ![save[e].controller] = FALSE]

\* The answer is late: the call returns.
Drop(e) ==
  /\ At(e, "answered") \/ (At(e, "refreshing") /\ Resolved(e))
  /\ ~Current(e)
  /\ Over(e)
  /\ UNCHANGED <<displayVars, submits, saving, hooks, dirty, draft, news>>

\* The edit is acknowledged or in conflict: a refresh is asked for.  A conflict
\* ends the tuning controller's status "saving", not the manual one's pending.
AskRefresh(e) ==
  /\ At(e, "answered") /\ Current(e)
  /\ save[e].result \in {"saved", "conflict"}
  /\ Ask(e)
  /\ save' = [save EXCEPT ![e].phase = "refreshing"]
  /\ IF save[e].result = "conflict" /\ save[e].controller = "tuning"
     THEN Finish(e) ELSE UNCHANGED saving
  /\ UNCHANGED <<submits, lost, hooks, dirty, draft, news>>

\* The refresh has resolved: a conflict, or a restored value, starts a new draft.
EndRefresh(e) ==
  /\ At(e, "refreshing") /\ Current(e) /\ Resolved(e)
  /\ Over(e)
  /\ IF save[e].result = "conflict" /\ save[e].controller = "tuning"
     THEN UNCHANGED saving ELSE Finish(e)
  /\ resetDue' = [resetDue EXCEPT
       ![save[e].controller] = @ \/ save[e].result = "conflict" \/ save[e].restore]
  /\ UNCHANGED <<displayVars, submits, activeKey, effectKey, dirty, draft, news>>

\* The edit was refused for another reason.
EndRefused(e) ==
  /\ At(e, "answered") /\ Current(e)
  /\ save[e].result = "error"
  /\ Over(e)
  /\ Finish(e)
  /\ UNCHANGED <<displayVars, submits, hooks, dirty, draft, news>>

Resume(e) == Drop(e) \/ AskRefresh(e) \/ EndRefresh(e) \/ EndRefused(e)

-----------------------------------------------------------------------------
(* The display underneath.                                                 *)

\* A render is over long before the next answer can come.
AnswerArrives ==
  /\ ~dirty
  /\ Settle
  /\ dirty' = TRUE
  /\ news' = IF answer \in Snapshots THEN answer.session ELSE None
  /\ UNCHANGED <<edits, hooks, draft>>

\* What was saved to the session is gone: a hook saves the state that it has
\* created over it, or retention removes it.
Lose(s) ==
  /\ Create(s) \/ Remove(s)
  /\ lost' = lost \cup
       {e \in Saves : save[e] # None /\ save[e].session = s /\ save[e].result = "saved"}

Elsewhere ==
  /\ \/ WithinBounds /\ \E s \in Sessions : Lose(s) \/ (Update(s) /\ UNCHANGED lost)
     \/ UNCHANGED lost /\ \E some \in SUBSET Saves : Serve(some) \/ Release(some)
  /\ UNCHANGED <<save, submits, saving, hooks, dirty, draft, news>>

-----------------------------------------------------------------------------

Next ==
  \/ Render
  \/ RunEffects
  \/ AnswerArrives
  \/ Elsewhere
  \/ \E sel \in Selections : Choose(sel)
  \/ \E c \in Controllers : Type(c)
  \/ \E e \in Saves, c \in Controllers, restore \in BOOLEAN : Submit(e, c, restore)
  \/ \E e \in Saves : Commit(e) \/ Refuse(e) \/ Resume(e)

Spec == Init /\ [][Next]_vars

-----------------------------------------------------------------------------
(* Properties.                                                             *)

\* Every variable has its type (manual_state_controller.js, tuning_controller.js).
TypeOK ==
  /\ DisplayTypeOK
  /\ save \in [Saves -> SaveRecords \cup {None}]
  /\ submits \in Nat
  /\ saving \in [Controllers -> BOOLEAN]
  /\ dirty \in BOOLEAN
  /\ {activeKey, effectKey} \subseteq Sessions \cup {None}
  /\ resetDue \in [Controllers -> BOOLEAN]
  /\ draft \in [Controllers -> Drafts \cup {None}]
  /\ lost \subseteq Saves
  /\ news \in Sessions \cup {None}

\* An edit goes to the session whose state is on display, under that state's
\* revision, and carries a value that was typed for that session: not while
\* the page still holds the previous selection's response, nor when the latest
\* session changes below a draft (page.js:90, manual_state_controls.js:57).
SentAsSeen ==
  [][\A e \in Saves : save[e] = None /\ save'[e] # None =>
       /\ save'[e].session = display.response.session
       /\ save'[e].rev = display.response.rev
       /\ save'[e].meant = save'[e].session]_vars

\* The save may still change what the user sees.  A tuning save in conflict
\* has given up its claim: the controls are enabled while it refreshes.
Claims(e) ==
  /\ save[e] # None
  /\ save[e].timely
  /\ save[e].session = activeKey
  /\ ~(save[e].controller = "tuning" /\ save[e].result = "conflict" /\ save[e].phase = "refreshing")

\* "Prevent duplicate submissions": a controller has at most one save under way
\* for the target of the page, also when the selection went away and came back
\* and the answer to an earlier visit's save arrives (manual_state_controller.js:88, :108).
OneSaveAtATime ==
  \A e, f \in Saves :
    Claims(e) /\ Claims(f) /\ save[e].controller = save[f].controller => e = f

\* "Display the resulting value and revision": when the page says "saved", and
\* the last answer it got is about the session that was saved, the saved
\* revision or a later one is on display, unless what was saved is gone from the
\* server since (manual_state_controller.js:89).
SavedIsShown ==
  [][\A e \in Saves :
       /\ save[e] # None /\ save'[e] = None
       /\ save[e].result = "saved" /\ Current(e) /\ e \notin lost
       /\ news = save[e].session
       => display.response.session = save[e].session /\ display.response.rev > save[e].rev]_vars

\* No controller stays disabled: while one is, a save that will enable it again
\* is under way, or the effects of a new target are about to, wherever the
\* selection moves meanwhile (manual_state_controller.js:58, :108).
SavingEnds ==
  \A c \in Controllers : saving[c] =>
    activeKey # effectKey \/ \E e \in Saves : Claims(e) /\ save[e].controller = c

\* "Retain an edit draft during routine polls": what was typed is dropped only
\* for another target or selection, after a conflict or a restored value, when
\* the selected session could not be read, or when no session is left to show
\* (manual_state_controls.js:57).
DraftKept ==
  [][\A c \in Controllers :
       draft[c] # None /\ draft[c].typed /\ (draft'[c] # None => ~draft'[c].typed)
       => \/ activeKey # effectKey \/ selection' # selection
          \/ resetDue[c] \/ display.errorSel = selection
          \/ display.response = Unavailable]_vars
=============================================================================
