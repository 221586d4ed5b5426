---------------------- MODULE DashboardControlsProofs ----------------------
(***************************************************************************)
(* Proofs about DashboardControls, for every set of sessions and saves.    *)
(***************************************************************************)
EXTENDS DashboardControls, TLAPS

SavesType == [Saves -> SaveRecords \cup {None}]

\* Only the save e has changed, and what it is about has not.
OnlyPhase(e) ==
  /\ save' \in SavesType
  /\ save[e] \in SaveRecords /\ save'[e] \in SaveRecords
  /\ \A f \in Saves \ {e} : save'[f] = save[f]
  /\ save'[e].controller = save[e].controller /\ save'[e].restore = save[e].restore
  /\ save'[e].session = save[e].session /\ save'[e].rev = save[e].rev
  /\ save'[e].timely = save[e].timely /\ save'[e].meant = save[e].meant

LEMMA AnsweredRecord ==
  ASSUME NEW r \in SaveRecords, NEW kind \in Results
  PROVE  LET a == [r EXCEPT !.phase = "answered", !.result = kind]
         IN  /\ a \in SaveRecords /\ a.phase = "answered" /\ a.result = kind
             /\ a.controller = r.controller /\ a.restore = r.restore /\ a.session = r.session
             /\ a.rev = r.rev /\ a.timely = r.timely /\ a.meant = r.meant
  BY DEF SaveRecords

LEMMA RefreshingRecord ==
  ASSUME NEW r \in SaveRecords
  PROVE  LET a == [r EXCEPT !.phase = "refreshing"]
         IN  /\ a \in SaveRecords /\ a.phase = "refreshing" /\ a.result = r.result
             /\ a.controller = r.controller /\ a.restore = r.restore /\ a.session = r.session
             /\ a.rev = r.rev /\ a.timely = r.timely /\ a.meant = r.meant
  BY DEF SaveRecords

LEMMA LateRecord ==
  ASSUME NEW r \in SaveRecords
  PROVE  LET a == [r EXCEPT !.timely = FALSE]
         IN  /\ a \in SaveRecords /\ a.timely = FALSE /\ a.phase = r.phase
             /\ a.result = r.result /\ a.session = r.session /\ a.rev = r.rev
  BY DEF SaveRecords

LEMMA AnsweredSave ==
  ASSUME save \in SavesType, NEW e \in Saves, At(e, "sent"), NEW kind \in Results,
         Answered(e, kind)
  PROVE  OnlyPhase(e) /\ save'[e].phase = "answered" /\ save'[e].result = kind
<1> DEFINE a == [save[e] EXCEPT !.phase = "answered", !.result = kind]
<1>1. save[e] \in SaveRecords
  BY DEF At, SavesType
<1>2. save' = [save EXCEPT ![e] = a]
  BY DEF Answered
<1>3. /\ a \in SaveRecords /\ a.phase = "answered" /\ a.result = kind
      /\ a.controller = save[e].controller /\ a.restore = save[e].restore
      /\ a.session = save[e].session /\ a.rev = save[e].rev
      /\ a.timely = save[e].timely /\ a.meant = save[e].meant
  BY <1>1, AnsweredRecord
<1> HIDE DEF a
<1> QED BY <1>1, <1>2, <1>3 DEF OnlyPhase, SavesType

LEMMA RefreshingSave ==
  ASSUME save \in SavesType, NEW e \in Saves, save[e] # None,
         save' = [save EXCEPT ![e].phase = "refreshing"]
  PROVE  OnlyPhase(e) /\ save'[e].phase = "refreshing" /\ save'[e].result = save[e].result
<1> DEFINE a == [save[e] EXCEPT !.phase = "refreshing"]
<1>1. save[e] \in SaveRecords
  BY DEF SavesType
<1>2. save' = [save EXCEPT ![e] = a]
  OBVIOUS
<1>3. /\ a \in SaveRecords /\ a.phase = "refreshing" /\ a.result = save[e].result
      /\ a.controller = save[e].controller /\ a.restore = save[e].restore
      /\ a.session = save[e].session /\ a.rev = save[e].rev
      /\ a.timely = save[e].timely /\ a.meant = save[e].meant
  BY <1>1, RefreshingRecord
<1> HIDE DEF a
<1> QED BY <1>1, <1>2, <1>3 DEF OnlyPhase, SavesType

LEMMA LateSaves ==
  ASSUME save \in SavesType, NextGeneration
  PROVE  /\ save' \in SavesType
         /\ \A e \in Saves : save'[e] = None <=> save[e] = None
         /\ \A e \in Saves : save'[e] # None =>
              /\ save'[e].timely = FALSE /\ save'[e].phase = save[e].phase
              /\ save'[e].result = save[e].result
              /\ save'[e].session = save[e].session /\ save'[e].rev = save[e].rev
<1> DEFINE late(e) == [save[e] EXCEPT !.timely = FALSE]
<1>1. \A e \in Saves : save[e] # None =>
        /\ late(e) \in SaveRecords
        /\ late(e).timely = FALSE /\ late(e).phase = save[e].phase
        /\ late(e).result = save[e].result
        /\ late(e).session = save[e].session /\ late(e).rev = save[e].rev
  BY LateRecord DEF SavesType
<1>2. save' = [e \in Saves |-> IF save[e] = None THEN None ELSE late(e)]
  BY DEF NextGeneration
<1> HIDE DEF late
<1> QED BY <1>1, <1>2, NoneAssumption DEF SavesType

LEMMA EndedSave ==
  ASSUME save \in SavesType, NEW e \in Saves, Over(e)
  PROVE  /\ save' \in SavesType /\ save'[e] = None
         /\ \A f \in Saves \ {e} : save'[f] = save[f]
         /\ lost' \subseteq lost
  BY DEF Over, SavesType

-----------------------------------------------------------------------------
(* Types.                                                                  *)

\* The session updated last has a state, and what an answer resolves was asked
\* of the running effect.
DisplayInv ==
  /\ DisplayTypeOK
  /\ latest # None => revision[latest] \in Nat
  /\ served \cap loose = {}

\* A control is on the page only while the page has a target.
TypeInv ==
  /\ TypeOK
  /\ DisplayInv
  /\ \A c \in Controllers : draft[c] # None => activeKey \in Sessions

LEMMA TargetType ==
  ASSUME display \in Displays, NEW sel \in Selections
  PROVE  Target(display, sel) \in Sessions \cup {None}
  BY DEF Target, Displays, Selections, Snapshots

LEMMA ShownTarget ==
  ASSUME display \in Displays, NEW sel \in Selections, Shown(display, sel)
  PROVE  Target(display, sel) \in Sessions /\ display.response.session \in Sessions
  BY DEF Target, Displays, Selections, Snapshots, Shown

LEMMA RenderedType ==
  ASSUME TypeInv, NEW sel \in Selections, Rendered(sel)
  PROVE  /\ activeKey' \in Sessions \cup {None}
         /\ draft' \in [Controllers -> Drafts \cup {None}]
         /\ dirty' \in BOOLEAN
         /\ \A c \in Controllers : draft'[c] # None => activeKey' \in Sessions
<1>1. display \in Displays /\ draft \in [Controllers -> Drafts \cup {None}]
  BY DEF TypeInv, TypeOK, DisplayTypeOK
<1>2. CASE Shown(display, sel)
  <2>1. /\ activeKey' \in Sessions
        /\ [session |-> display.response.session, typed |-> FALSE] \in Drafts
    BY <1>1, <1>2, ShownTarget DEF Rendered, Drafts
  <2> QED BY <1>1, <1>2, <2>1 DEF Rendered
<1>3. CASE ~Shown(display, sel)
  BY <1>1, <1>3, TargetType DEF Rendered
<1> QED BY <1>2, <1>3

LEMMA FieldEffectsType ==
  ASSUME TypeInv, FieldEffects
  PROVE  /\ draft' \in [Controllers -> Drafts \cup {None}]
         /\ \A c \in Controllers : draft'[c] # None => activeKey \in Sessions
<1>1. \A c \in Controllers : draft[c] # None =>
        [session |-> activeKey, typed |-> FALSE] \in Drafts
  BY DEF TypeInv, Drafts
<1> QED BY <1>1 DEF FieldEffects, TypeInv, TypeOK

LEMMA ReadType ==
  ASSUME TypeInv
  PROVE  Read(effectSel) \in Snapshots \cup {Unavailable, Failed}
<1>1. effectSel \in Selections /\ latest \in Sessions \cup {None}
      /\ revision \in [Sessions -> Nat \cup {Missing}]
      /\ (latest # None => revision[latest] \in Nat)
  BY DEF TypeInv, DisplayInv, DisplayTypeOK
<1> QED BY <1>1 DEF Read, Snapshots, Selections

LEMMA WrittenType ==
  ASSUME TypeInv, NEW s \in Sessions, NEW bump \in {0, 1}, Written(s, bump)
  PROVE  /\ revision' \in [Sessions -> Nat \cup {Missing}]
         /\ latest' \in Sessions /\ revision'[latest'] \in Nat
<1>1. /\ revision' = [revision EXCEPT ![s] = @ + bump] /\ latest' = s
      /\ revision[s] # Missing
  BY DEF Written
<1>2. revision \in [Sessions -> Nat \cup {Missing}]
  BY DEF TypeInv, DisplayInv, DisplayTypeOK
<1>3. revision[s] + bump \in Nat
  BY <1>1, <1>2
<1> QED BY <1>1, <1>2, <1>3

LEMMA CreateType ==
  ASSUME TypeInv, NEW s \in Sessions, Create(s)
  PROVE  DisplayInv'
<1>1. PICK start \in StartRevisions : revision' = [revision EXCEPT ![s] = start]
  BY DEF Create
<1>2. start \in Nat /\ latest' = s
  BY StartRevisionsType DEF Create
<1>3. revision' \in [Sessions -> Nat \cup {Missing}] /\ revision'[latest'] \in Nat
  BY <1>1, <1>2 DEF TypeInv, DisplayInv, DisplayTypeOK
<1> QED BY <1>2, <1>3 DEF Create, TypeInv, DisplayInv, DisplayTypeOK, choice, refresh

LEMMA RemoveType ==
  ASSUME TypeInv, NEW s \in Sessions, Remove(s)
  PROVE  DisplayInv'
<1>1. /\ revision' = [revision EXCEPT ![s] = Missing]
      /\ latest' \in CASE s # latest -> {latest}
                       [] s = latest /\ Others(s) # {} -> Others(s)
                       [] OTHER -> {None}
  BY DEF Remove
<1>2. revision' \in [Sessions -> Nat \cup {Missing}]
  BY <1>1 DEF TypeInv, DisplayInv, DisplayTypeOK
<1>3. latest' \in Sessions \cup {None} /\ (latest' # None => revision'[latest'] \in Nat)
  <2>1. CASE s # latest
    BY <1>1, <2>1 DEF TypeInv, DisplayInv, DisplayTypeOK
  <2>2. CASE s = latest /\ Others(s) # {}
    <3>1. latest' \in Others(s)
      BY <1>1, <2>2
    <3> QED BY <1>1, <3>1 DEF Others, TypeInv, DisplayInv, DisplayTypeOK
  <2>3. CASE s = latest /\ Others(s) = {}
    <3>1. latest' = None
      BY <1>1, <2>3
    <3> QED BY <3>1
  <2> QED BY <2>1, <2>2, <2>3
<1> QED BY <1>2, <1>3 DEF Remove, TypeInv, DisplayInv, DisplayTypeOK, choice, refresh

LEMMA ReplaceType ==
  ASSUME TypeInv, Replace
  PROVE  DisplayInv'
<1>1. display' \in Displays
  <2>1. display \in Displays
    BY DEF TypeInv, DisplayInv, DisplayTypeOK
  <2> QED BY <2>1 DEF Replace, Displays
<1> QED BY <1>1 DEF Replace, Abandon, TypeInv, DisplayInv, DisplayTypeOK, server

LEMMA SettleType ==
  ASSUME TypeInv, Settle
  PROVE  DisplayInv'
<1>1. display \in Displays /\ effectSel \in Selections
      /\ answer \in Snapshots \cup {Unavailable, Failed, None}
  BY DEF TypeInv, DisplayInv, DisplayTypeOK
<1>2. display' \in Displays
  <2>1. CASE answer = Failed
    BY <1>1, <2>1 DEF Settle, Displays
  <2>2. CASE answer # Failed
    BY <1>1, <2>2 DEF Settle, Displays
  <2> QED BY <2>1, <2>2
<1> QED BY <1>2 DEF Settle, TypeInv, DisplayInv, DisplayTypeOK, server, choice

LEMMA TypeInitially == Init => TypeInv
<1> SUFFICES ASSUME Init PROVE TypeInv
  OBVIOUS
<1>1. /\ revision \in [Sessions -> Nat \cup {Missing}]
      /\ latest \in Sessions \cup {None}
      /\ (latest # None => revision[latest] \in Nat)
      /\ {updates, selects} \subseteq Nat
      /\ {selection, effectSel} \subseteq Selections
  BY DEF Init, DisplayInit, Selections
<1>2. Read(Latest) \in Snapshots \cup {Unavailable}
  BY <1>1 DEF Read, Snapshots
<1>3. display \in Displays
  BY <1>2 DEF Init, DisplayInit, Displays, Selections
<1>4. DisplayInv
  BY <1>1, <1>3 DEF Init, DisplayInit, DisplayInv, DisplayTypeOK
<1>5. /\ activeKey \in Sessions \cup {None} /\ effectKey = activeKey
      /\ (Shown(display, selection) => activeKey \in Sessions)
  BY <1>1, <1>3, TargetType, ShownTarget DEF Init
<1>6. /\ draft \in [Controllers -> Drafts \cup {None}]
      /\ (\A c \in Controllers : draft[c] # None => activeKey \in Sessions)
  <2>1. CASE Shown(display, selection)
    <3>1. [session |-> activeKey, typed |-> FALSE] \in Drafts
      BY <1>5, <2>1 DEF Drafts
    <3> QED BY <1>5, <2>1, <3>1 DEF Init
  <2>2. CASE ~Shown(display, selection)
    BY <2>2 DEF Init
  <2> QED BY <2>1, <2>2
<1> QED BY <1>1, <1>4, <1>5, <1>6 DEF Init, TypeInv, TypeOK, DisplayInv

\* The steps that leave the display alone, and those that leave the page alone.
LEMMA DisplaySame ==
  ASSUME TypeInv, UNCHANGED displayVars
  PROVE  DisplayInv'
  BY DEF TypeInv, DisplayInv, DisplayTypeOK, displayVars, server, choice, refresh

LEMMA TypeEdits ==
  ASSUME TypeInv, UNCHANGED <<displayVars, activeKey, effectKey, dirty, draft, news>>,
         save' \in SavesType, submits' \in Nat,
         saving' \in [Controllers -> BOOLEAN], resetDue' \in [Controllers -> BOOLEAN],
         lost' \subseteq Saves
  PROVE  TypeInv'
  BY DisplaySame DEF TypeInv, TypeOK, DisplayInv, SavesType

LEMMA TypeDisplay ==
  ASSUME TypeInv, DisplayInv', dirty' \in BOOLEAN,
         news' \in Sessions \cup {None}, save' \in SavesType,
         saving' \in [Controllers -> BOOLEAN], lost' \subseteq Saves,
         UNCHANGED <<submits, hooks, draft>>
  PROVE  TypeInv'
  BY DEF TypeInv, TypeOK, DisplayInv, hooks, SavesType

LEMMA TypeStep ==
  ASSUME TypeInv, [Next]_vars
  PROVE  TypeInv'
<1> USE DEF SavesType
<1>1. CASE Render
  <2>1. selection \in Selections
    BY DEF TypeInv, DisplayInv, DisplayTypeOK
  <2>2. /\ activeKey' \in Sessions \cup {None}
        /\ draft' \in [Controllers -> Drafts \cup {None}]
        /\ dirty' \in BOOLEAN
        /\ \A c \in Controllers : draft'[c] # None => activeKey' \in Sessions
    BY <1>1, <2>1, RenderedType DEF Render
  <2> QED BY <1>1, <2>2
          DEF Render, TypeInv, TypeOK, DisplayInv, DisplayTypeOK, displayVars, server, choice, refresh, edits
<1>2. CASE RunEffects
  <2>1. /\ DisplayInv'
        /\ dirty' \in BOOLEAN /\ news' \in Sessions \cup {None}
    <3>1. CASE selection # effectSel
      BY <1>2, <3>1, ReplaceType DEF RunEffects
    <3>2. CASE selection = effectSel
      BY <1>2, <3>2 DEF RunEffects, displayVars, server, choice, refresh, TypeInv, TypeOK, DisplayInv, DisplayTypeOK
    <3> QED BY <3>1, <3>2
  <2>2. save' \in SavesType /\ saving' \in [Controllers -> BOOLEAN]
    <3>1. CASE activeKey # effectKey
      BY <1>2, <3>1, LateSaves DEF RunEffects, TargetEffects, TypeInv, TypeOK
    <3>2. CASE activeKey = effectKey
      BY <1>2, <3>2 DEF RunEffects, TypeInv, TypeOK
    <3> QED BY <3>1, <3>2
  <2>3. /\ draft' \in [Controllers -> Drafts \cup {None}]
        /\ \A c \in Controllers : draft'[c] # None => activeKey \in Sessions
    BY <1>2, FieldEffectsType DEF RunEffects
  <2> QED BY <1>2, <2>1, <2>2, <2>3 DEF RunEffects, TypeInv, TypeOK, DisplayInv
<1>3. CASE AnswerArrives
  <2>1. DisplayInv'
    BY <1>3, SettleType DEF AnswerArrives
  <2>2. news' \in Sessions \cup {None} /\ dirty' \in BOOLEAN
    BY <1>3 DEF AnswerArrives, Snapshots
  <2> QED BY <1>3, <2>1, <2>2, TypeDisplay DEF AnswerArrives, edits, TypeInv, TypeOK
<1>4. CASE Elsewhere
  <2>1. DisplayInv'
    <3>1. ASSUME NEW s \in Sessions, Update(s)
          PROVE  DisplayInv'
      BY <3>1, WrittenType DEF Update, TypeInv, TypeOK, DisplayInv, DisplayTypeOK, choice, refresh
    <3>2. ASSUME NEW s \in Sessions, Lose(s)
          PROVE  DisplayInv'
      BY <3>2, CreateType, RemoveType DEF Lose
    <3>3. ASSUME NEW some \in SUBSET Saves, Serve(some)
          PROVE  DisplayInv'
      BY <3>3, ReadType DEF Serve, TypeInv, TypeOK, DisplayInv, DisplayTypeOK, choice, server
    <3>4. ASSUME NEW some \in SUBSET Saves, Release(some)
          PROVE  DisplayInv'
      BY <3>4 DEF Release, TypeInv, TypeOK, DisplayInv, DisplayTypeOK, choice, server
    <3> QED BY <1>4, <3>1, <3>2, <3>3, <3>4 DEF Elsewhere
  <2>2. lost' \subseteq Saves
    BY <1>4 DEF Elsewhere, Lose, TypeInv, TypeOK
  <2> QED BY <1>4, <2>1, <2>2, TypeDisplay DEF Elsewhere, TypeInv, TypeOK
<1>5. ASSUME NEW sel \in Selections, Choose(sel)
      PROVE  TypeInv'
  <2>1. /\ activeKey' \in Sessions \cup {None}
        /\ draft' \in [Controllers -> Drafts \cup {None}]
        /\ dirty' \in BOOLEAN
        /\ \A c \in Controllers : draft'[c] # None => activeKey' \in Sessions
    BY <1>5, RenderedType DEF Choose
  <2> QED BY <1>5, <2>1
          DEF Choose, Select, TypeInv, TypeOK, DisplayInv, DisplayTypeOK, server, refresh, edits
<1>6. ASSUME NEW c \in Controllers, Type(c)
      PROVE  TypeInv'
  <2>1. draft[c] \in Drafts /\ draft' = [draft EXCEPT ![c] = [draft[c] EXCEPT !.typed = TRUE]]
    BY <1>6 DEF Type, Enabled, TypeInv, TypeOK
  <2>2. [draft[c] EXCEPT !.typed = TRUE] \in Drafts
    BY <2>1 DEF Drafts
  <2> QED BY <1>6, <2>1, <2>2, DisplaySame
          DEF Type, Enabled, TypeInv, TypeOK, DisplayInv, edits, hooks
<1>7. ASSUME NEW e \in Saves, NEW c \in Controllers, NEW restore \in BOOLEAN,
             Submit(e, c, restore)
      PROVE  TypeInv'
  <2> DEFINE new == [controller |-> c, restore |-> restore, phase |-> "sent",
                     session |-> activeKey, rev |-> display.response.rev, timely |-> TRUE,
                     result |-> None, meant |-> IF restore THEN activeKey ELSE draft[c].session]
  <2>1. save' = [save EXCEPT ![e] = new] /\ saving' = [saving EXCEPT ![c] = TRUE]
    BY <1>7 DEF Submit
  <2>2. new \in SaveRecords
    <3>1. activeKey \in Sessions /\ draft[c].session \in Sessions
      BY <1>7 DEF Submit, Enabled, TypeInv, TypeOK, Drafts
    <3>2. display.response.rev \in Nat
      BY <1>7 DEF Submit, Snapshots
    <3> QED BY <3>1, <3>2 DEF SaveRecords
  <2> HIDE DEF new
  <2>3. save' \in SavesType
    BY <2>1, <2>2 DEF TypeInv, TypeOK
  <2>4. saving' \in [Controllers -> BOOLEAN]
    BY <2>1 DEF TypeInv, TypeOK
  <2>5. submits' \in Nat
    BY <1>7 DEF Submit, TypeInv, TypeOK
  <2> QED BY <1>7, <2>3, <2>4, <2>5, TypeEdits DEF Submit, hooks, TypeInv, TypeOK
<1>8. ASSUME NEW e \in Saves, Commit(e)
      PROVE  TypeInv'
  <2>1. save' \in SavesType
    BY <1>8, AnsweredSave DEF Commit, TypeInv, TypeOK, OnlyPhase, Results
  <2>2. save[e] \in SaveRecords
    BY <1>8 DEF Commit, At, TypeInv, TypeOK
  <2>3. save[e].session \in Sessions
    BY <2>2 DEF SaveRecords
  <2>4. DisplayInv'
    BY <1>8, <2>3, WrittenType
       DEF Commit, TypeInv, DisplayInv, DisplayTypeOK, choice, refresh
  <2> QED BY <1>8, <2>1, <2>4, TypeDisplay DEF Commit, TypeInv, TypeOK
<1>9. ASSUME NEW e \in Saves, Refuse(e)
      PROVE  TypeInv'
  <2>1. save' \in SavesType
    BY <1>9, AnsweredSave DEF Refuse, TypeInv, TypeOK, OnlyPhase, Results
  <2> QED BY <1>9, <2>1, TypeEdits DEF Refuse, hooks, TypeInv, TypeOK
<1>10. ASSUME NEW e \in Saves, Resume(e)
      PROVE  TypeInv'
  <2>1. CASE Drop(e)
    <3>1. save' \in SavesType /\ lost' \subseteq Saves
      BY <2>1, EndedSave DEF Drop, TypeInv, TypeOK
    <3> QED BY <2>1, <3>1, TypeEdits DEF Drop, hooks, TypeInv, TypeOK
  <2>2. CASE AskRefresh(e)
    <3>1. save' \in SavesType
      BY <2>2, RefreshingSave DEF AskRefresh, At, TypeInv, TypeOK, OnlyPhase
    <3>2. DisplayInv'
      BY <2>2 DEF AskRefresh, Ask, Saves, TypeInv, DisplayInv, DisplayTypeOK, server, choice
    <3>3. saving' \in [Controllers -> BOOLEAN]
      BY <2>2 DEF AskRefresh, Finish, TypeInv, TypeOK
    <3> QED BY <2>2, <3>1, <3>2, <3>3, TypeDisplay DEF AskRefresh, TypeInv, TypeOK
  <2>3. CASE EndRefresh(e)
    <3>1. save' \in SavesType /\ lost' \subseteq Saves
      BY <2>3, EndedSave DEF EndRefresh, TypeInv, TypeOK
    <3>2. saving' \in [Controllers -> BOOLEAN]
      BY <2>3 DEF EndRefresh, Finish, TypeInv, TypeOK
    <3>3. resetDue' \in [Controllers -> BOOLEAN]
      <4> DEFINE v == resetDue[save[e].controller] \/ save[e].result = "conflict"
                        \/ save[e].restore
      <4>1. resetDue' = [resetDue EXCEPT ![save[e].controller] = v]
        BY <2>3 DEF EndRefresh
      <4>2. v \in BOOLEAN
        OBVIOUS
      <4> HIDE DEF v
      <4> QED BY <4>1, <4>2 DEF TypeInv, TypeOK
    <3> QED BY <2>3, <3>1, <3>2, <3>3, TypeEdits DEF EndRefresh, TypeInv, TypeOK
  <2>4. CASE EndRefused(e)
    <3>1. save' \in SavesType /\ lost' \subseteq Saves
      BY <2>4, EndedSave DEF EndRefused, TypeInv, TypeOK
    <3> QED BY <2>4, <3>1, TypeEdits DEF EndRefused, Finish, hooks, TypeInv, TypeOK
  <2> QED BY <1>10, <2>1, <2>2, <2>3, <2>4 DEF Resume
<1>11. CASE UNCHANGED vars
  BY <1>11 DEF vars, displayVars, server, choice, refresh, edits, hooks, TypeInv, TypeOK, DisplayInv, DisplayTypeOK
<1> QED
  BY <1>1, <1>2, <1>3, <1>4, <1>5, <1>6, <1>7, <1>8, <1>9, <1>10, <1>11 DEF Next

-----------------------------------------------------------------------------
(* Saves and the controllers' flags.                                       *)

\* The save will enable its controller again, unless it is found late.
Live(e) ==
  /\ save[e] # None
  /\ save[e].timely
  /\ ~(save[e].controller = "tuning" /\ save[e].result = "conflict" /\ save[e].phase = "refreshing")

\* What is timely is about the target whose effects ran last; a controller is
\* disabled while one of its saves is live, and that is one only; once the
\* effects of the target have run, it is disabled for no other reason.
SaveInv ==
  /\ \A e \in Saves : save[e] # None /\ save[e].timely => save[e].session = effectKey
  /\ \A e \in Saves : Live(e) => saving[save[e].controller]
  /\ \A e, f \in Saves : Live(e) /\ Live(f) /\ save[e].controller = save[f].controller => e = f
  /\ \A c \in Controllers : saving[c] /\ activeKey = effectKey =>
       \E e \in Saves : Live(e) /\ save[e].controller = c

LEMMA SaveInitially == Init => SaveInv
  BY DEF Init, SaveInv, Live, Controllers

\* A render moves only the target.
LEMMA SaveSame ==
  ASSUME SaveInv, activeKey = effectKey \/ activeKey' = activeKey,
         UNCHANGED <<save, saving, effectKey>>
  PROVE  SaveInv'
  BY DEF SaveInv, Live

\* A save that is answered, or goes on to refresh, stays as live as it was.
LEMMA SavePhase ==
  ASSUME SaveInv, NEW e \in Saves, OnlyPhase(e), Live(e)' <=> Live(e),
         UNCHANGED <<saving, activeKey, effectKey>>
  PROVE  SaveInv'
<1>1. \A f \in Saves : /\ Live(f)' <=> Live(f)
                       /\ save'[f] # None <=> save[f] # None
                       /\ save[f] # None => /\ save'[f].controller = save[f].controller
                                            /\ save'[f].session = save[f].session
                                            /\ save'[f].timely = save[f].timely
  BY NoneAssumption DEF OnlyPhase, Live
<1>2. \A f \in Saves : Live(f) => save[f] # None
  BY DEF Live
<1> QED BY <1>1, <1>2 DEF SaveInv

\* A live save ends, or gives up its claim, and enables its controller.
LEMMA SaveFinish ==
  ASSUME TypeInv, SaveInv, NEW e \in Saves, Live(e), Finish(e), ~Live(e)',
         \A f \in Saves \ {e} : save'[f] = save[f],
         save'[e] # None => save'[e].timely = save[e].timely /\ save'[e].session = save[e].session,
         UNCHANGED <<activeKey, effectKey>>
  PROVE  SaveInv'
<1>1. \A f \in Saves \ {e} : Live(f)' <=> Live(f)
  BY DEF Live
<1>2. saving \in [Controllers -> BOOLEAN]
  BY DEF TypeInv, TypeOK
<1>3. \A f \in Saves : Live(f) => save[f] \in SaveRecords
  BY DEF Live, TypeInv, TypeOK
<1>4. \A f \in Saves : Live(f) => save[f].controller \in Controllers
  BY <1>3 DEF SaveRecords
<1>5. \A f \in Saves : save'[f] # None /\ save'[f].timely => save'[f].session = effectKey'
  BY DEF SaveInv, Live
<1>6. \A f \in Saves : Live(f)' => f # e /\ save'[f] = save[f] /\ Live(f)
  BY <1>1
<1>7. \A f \in Saves : Live(f)' => saving'[save'[f].controller]
  BY <1>2, <1>4, <1>6 DEF SaveInv, Finish
<1>8. \A c \in Controllers : saving'[c] =>
        saving[c] /\ c # save[e].controller
  BY <1>2, <1>4 DEF Finish
<1>9. \A c \in Controllers : saving'[c] /\ activeKey' = effectKey' =>
        \E f \in Saves : Live(f)' /\ save'[f].controller = c
  BY <1>1, <1>8 DEF SaveInv
<1> QED BY <1>5, <1>6, <1>7, <1>9 DEF SaveInv

\* A save ends that was not live.
LEMMA SaveDropped ==
  ASSUME SaveInv, NEW e \in Saves, activeKey = effectKey => ~Live(e), save'[e] = None,
         \A f \in Saves \ {e} : save'[f] = save[f],
         UNCHANGED <<saving, activeKey, effectKey>>
  PROVE  SaveInv'
<1>1. \A f \in Saves \ {e} : Live(f)' <=> Live(f)
  BY DEF Live
<1>2. ~Live(e)'
  BY DEF Live
<1> QED BY <1>1, <1>2 DEF SaveInv

LEMMA SaveStep ==
  ASSUME TypeInv, SaveInv, [Next]_vars
  PROVE  SaveInv'
<1> USE DEF SavesType
<1>1. CASE Render
  BY <1>1, SaveSame DEF Render, EffectsDue, edits
<1>2. CASE RunEffects
  <2>1. CASE activeKey # effectKey
    <3>1. /\ \A e \in Saves : save'[e] # None => save'[e].timely = FALSE
          /\ saving' = [c \in Controllers |-> FALSE]
      BY <1>2, <2>1, LateSaves DEF RunEffects, TargetEffects, TypeInv, TypeOK
    <3> QED BY <3>1 DEF SaveInv, Live
  <2>2. CASE activeKey = effectKey
    BY <1>2, <2>2, SaveSame DEF RunEffects
  <2> QED BY <2>1, <2>2
<1>3. CASE AnswerArrives
  BY <1>3, SaveSame DEF AnswerArrives, edits, hooks
<1>4. CASE Elsewhere
  BY <1>4, SaveSame DEF Elsewhere, hooks
<1>5. ASSUME NEW sel \in Selections, Choose(sel)
      PROVE  SaveInv'
  BY <1>5, SaveSame DEF Choose, UserActs, EffectsDue, edits
<1>6. ASSUME NEW c \in Controllers, Type(c)
      PROVE  SaveInv'
  BY <1>6, SaveSame DEF Type, edits, hooks
<1>7. ASSUME NEW e \in Saves, NEW c \in Controllers, NEW restore \in BOOLEAN,
             Submit(e, c, restore)
      PROVE  SaveInv'
  <2> DEFINE new == [controller |-> c, restore |-> restore, phase |-> "sent",
                     session |-> activeKey, rev |-> display.response.rev, timely |-> TRUE,
                     result |-> None, meant |-> IF restore THEN activeKey ELSE draft[c].session]
  <2>1. /\ save' = [save EXCEPT ![e] = new] /\ saving' = [saving EXCEPT ![c] = TRUE]
        /\ ~saving[c] /\ activeKey = effectKey /\ save[e] = None
        /\ UNCHANGED <<activeKey, effectKey>>
    BY <1>7 DEF Submit, Enabled, UserActs, EffectsDue, hooks
  <2>2. new.controller = c /\ new.phase = "sent" /\ new.session = activeKey /\ new.timely
    OBVIOUS
  <2>3. new # None
    <3>1. activeKey \in Sessions /\ draft[c].session \in Sessions
      BY <1>7 DEF Submit, Enabled, TypeInv, TypeOK, Drafts
    <3>2. display.response.rev \in Nat
      BY <1>7 DEF Submit, Snapshots
    <3>3. new \in SaveRecords
      BY <3>1, <3>2 DEF SaveRecords
    <3> QED BY <3>3, NoneAssumption
  <2> HIDE DEF new
  <2>4. save \in SavesType /\ saving \in [Controllers -> BOOLEAN]
    BY DEF TypeInv, TypeOK
  <2>5. \A f \in Saves \ {e} : save'[f] = save[f] /\ (Live(f)' <=> Live(f))
    BY <2>1, <2>4 DEF Live
  <2>6. save'[e] = new
    BY <2>1, <2>4
  <2>7. ~Live(e) /\ \A f \in Saves : Live(f) => save[f].controller # c
    BY <2>1 DEF SaveInv, Live
  <2>8. \A f \in Saves : Live(f)' => saving'[save'[f].controller]
    BY <2>1, <2>2, <2>4, <2>5, <2>6 DEF SaveInv
  <2>9. \A f \in Saves : save'[f] # None /\ save'[f].timely => save'[f].session = effectKey'
    BY <2>1, <2>2, <2>5, <2>6 DEF SaveInv
  <2>10. \A f \in Saves : Live(f)' /\ f # e => Live(f) /\ save'[f].controller # c
    BY <2>5, <2>7
  <2>11. \A f, g \in Saves :
           Live(f)' /\ Live(g)' /\ save'[f].controller = save'[g].controller => f = g
    BY <2>2, <2>5, <2>6, <2>10 DEF SaveInv
  <2>12. Live(e)'
    BY <2>2, <2>3, <2>6 DEF Live
  <2>13. \A d \in Controllers : saving'[d] /\ activeKey' = effectKey' =>
           \E f \in Saves : Live(f)' /\ save'[f].controller = d
    <3>1. \A d \in Controllers : d # c => saving'[d] = saving[d]
      BY <2>1, <2>4
    <3> QED BY <2>1, <2>2, <2>5, <2>6, <2>7, <2>12, <3>1 DEF SaveInv
  <2> QED BY <2>8, <2>9, <2>11, <2>13 DEF SaveInv
<1>8. ASSUME NEW e \in Saves, Commit(e) \/ Refuse(e)
      PROVE  SaveInv'
  <2>1. OnlyPhase(e) /\ save[e].phase = "sent" /\ save'[e].phase = "answered"
    BY <1>8, AnsweredSave DEF Commit, Refuse, Results, At, TypeInv, TypeOK
  <2>2. Live(e)' <=> Live(e)
    BY <2>1, NoneAssumption DEF OnlyPhase, Live
  <2> QED BY <1>8, <2>1, <2>2, SavePhase DEF Commit, Refuse, hooks
<1>9. ASSUME NEW e \in Saves, Resume(e)
      PROVE  SaveInv'
  <2>1. CASE Drop(e)
    <3>1. save'[e] = None /\ \A f \in Saves \ {e} : save'[f] = save[f]
      BY <2>1, EndedSave DEF Drop, TypeInv, TypeOK
    <3>2. activeKey = effectKey => ~Live(e)
      BY <2>1 DEF Drop, Current, Live, SaveInv
    <3> QED BY <2>1, <3>1, <3>2, SaveDropped DEF Drop, hooks
  <2>2. CASE AskRefresh(e)
    <3>1. /\ OnlyPhase(e) /\ save[e].phase = "answered" /\ save'[e].phase = "refreshing"
          /\ save'[e].result = save[e].result
      BY <2>2, RefreshingSave DEF AskRefresh, At, TypeInv, TypeOK
    <3>2. Live(e)
      BY <2>2, <3>1 DEF AskRefresh, At, Current, Live
    <3>3. CASE save[e].result = "conflict" /\ save[e].controller = "tuning"
      <4>1. ~Live(e)'
        BY <3>1, <3>3 DEF OnlyPhase, Live
      <4>2. Finish(e) /\ UNCHANGED <<activeKey, effectKey>>
        BY <2>2, <3>3 DEF AskRefresh, hooks
      <4> QED BY <3>1, <3>2, <4>1, <4>2, SaveFinish DEF OnlyPhase
    <3>4. CASE ~(save[e].result = "conflict" /\ save[e].controller = "tuning")
      <4>1. Live(e)'
        BY <3>1, <3>2, <3>4, NoneAssumption DEF OnlyPhase, Live
      <4> QED BY <2>2, <3>1, <3>2, <3>4, <4>1, SavePhase DEF AskRefresh, hooks
    <3> QED BY <3>3, <3>4
  <2>3. CASE EndRefresh(e) \/ EndRefused(e)
    <3>1. save'[e] = None /\ \A f \in Saves \ {e} : save'[f] = save[f]
      BY <2>3, EndedSave DEF EndRefresh, EndRefused, TypeInv, TypeOK
    <3>2. UNCHANGED <<activeKey, effectKey>>
      BY <2>3 DEF EndRefresh, EndRefused, hooks
    <3>3. CASE EndRefresh(e) /\ save[e].result = "conflict" /\ save[e].controller = "tuning"
      <4>1. ~Live(e) /\ UNCHANGED saving
        BY <3>3 DEF EndRefresh, At, Live
      <4> QED BY <3>1, <3>2, <4>1, SaveDropped
    <3>4. CASE ~(EndRefresh(e) /\ save[e].result = "conflict" /\ save[e].controller = "tuning")
      <4>1. Live(e) /\ Finish(e)
        BY <2>3, <3>4 DEF EndRefresh, EndRefused, At, Current, Live
      <4>2. ~Live(e)'
        BY <3>1 DEF Live
      <4> QED BY <3>1, <3>2, <4>1, <4>2, SaveFinish
    <3> QED BY <3>3, <3>4
  <2> QED BY <1>9, <2>1, <2>2, <2>3 DEF Resume
<1>10. CASE UNCHANGED vars
  BY <1>10, SaveSame DEF vars, edits, hooks
<1> QED
  BY <1>1, <1>2, <1>3, <1>4, <1>5, <1>6, <1>7, <1>8, <1>9, <1>10 DEF Next

-----------------------------------------------------------------------------
(* The display and the drafts.                                             *)

\* What is on display, or about to be, is about the session selected exactly.
ViewInv ==
  /\ display.response \in Snapshots /\ display.sel # Latest =>
       display.response.session = display.sel
  /\ answer \in Snapshots /\ effectSel # Latest => answer.session = effectSel

LEMMA ViewInitially == Init => ViewInv
<1> SUFFICES ASSUME Init PROVE ViewInv
  OBVIOUS
<1>1. display.sel = Latest /\ effectSel = Latest
  BY DEF Init, DisplayInit
<1> QED BY <1>1 DEF ViewInv

LEMMA ServeView ==
  ASSUME TypeInv, ViewInv, NEW some, Serve(some)
  PROVE  ViewInv'
<1>1. effectSel \in Selections
  BY DEF TypeInv, TypeOK, DisplayTypeOK
<1>2. answer' \in {Read(effectSel), Failed} /\ UNCHANGED <<effectSel, display>>
  BY DEF Serve, choice
<1>3. Read(effectSel) \in Snapshots /\ effectSel # Latest => Read(effectSel).session = effectSel
  BY <1>1, ValuesDiffer DEF Read, Selections
<1> QED BY <1>2, <1>3, ValuesDiffer DEF ViewInv

LEMMA SettleView ==
  ASSUME TypeInv, ViewInv, Settle
  PROVE  ViewInv'
<1>1. /\ display \in Displays /\ effectSel \in Selections /\ answer # None
      /\ answer \in Snapshots \cup {Unavailable, Failed, None}
  BY DEF Settle, TypeInv, TypeOK, DisplayTypeOK
<1>2. answer' = None /\ UNCHANGED effectSel
  BY DEF Settle, choice
<1>3. CASE answer = Failed
  <2>1. display'.response = display.response /\ display'.sel = display.sel
    BY <1>1, <1>3 DEF Settle, Displays
  <2> QED BY <1>2, <2>1, ValuesDiffer DEF ViewInv
<1>4. CASE answer # Failed /\ Newer
  BY <1>2, <1>4, ValuesDiffer DEF Settle, ViewInv
<1>5. CASE answer # Failed /\ ~Newer
  <2>1. display'.response = answer /\ display'.sel = effectSel
    BY <1>5 DEF Settle
  <2> QED BY <1>2, <2>1, ValuesDiffer DEF ViewInv
<1> QED BY <1>3, <1>4, <1>5

LEMMA ReplaceView ==
  ASSUME TypeInv, ViewInv, Replace
  PROVE  ViewInv'
<1>1. display'.response = display.response /\ display'.sel = display.sel
  BY DEF Replace, Displays, TypeInv, TypeOK, DisplayTypeOK
<1>2. answer' = None
  BY DEF Replace, Abandon
<1> QED BY <1>1, <1>2, ValuesDiffer DEF ViewInv

LEMMA ViewSame ==
  ASSUME ViewInv, UNCHANGED <<display, answer, effectSel>>
  PROVE  ViewInv'
  BY DEF ViewInv

LEMMA ViewStep ==
  ASSUME TypeInv, ViewInv, [Next]_vars
  PROVE  ViewInv'
<1> USE DEF displayVars, server, choice, refresh
<1>1. CASE Render
  BY <1>1, ViewSame DEF Render
<1>2. CASE RunEffects
  BY <1>2, ViewSame, ReplaceView DEF RunEffects
<1>3. CASE AnswerArrives
  BY <1>3, SettleView DEF AnswerArrives
<1>4. CASE Elsewhere
  <2>1. ASSUME NEW s \in Sessions, Update(s)
        PROVE  ViewInv'
    BY <2>1, ViewSame DEF Update
  <2>2. ASSUME NEW s \in Sessions, Lose(s)
        PROVE  ViewInv'
    BY <2>2, ViewSame DEF Lose, Create, Remove
  <2>3. ASSUME NEW some \in SUBSET Saves, Serve(some) \/ Release(some)
        PROVE  ViewInv'
    BY <2>3, ServeView, ViewSame DEF Release
  <2> QED BY <1>4, <2>1, <2>2, <2>3 DEF Elsewhere
<1>5. ASSUME NEW sel \in Selections, Choose(sel)
      PROVE  ViewInv'
  BY <1>5, ViewSame DEF Choose, Select
<1>6. ASSUME NEW c \in Controllers, Type(c)
      PROVE  ViewInv'
  BY <1>6, ViewSame DEF Type
<1>7. ASSUME NEW e \in Saves, NEW c \in Controllers, NEW restore \in BOOLEAN,
             Submit(e, c, restore)
      PROVE  ViewInv'
  BY <1>7, ViewSame DEF Submit
<1>8. ASSUME NEW e \in Saves, Commit(e)
      PROVE  ViewInv'
  BY <1>8, ViewSame DEF Commit
<1>9. ASSUME NEW e \in Saves, Refuse(e) \/ Resume(e)
      PROVE  ViewInv'
  BY <1>9, ViewSame DEF Refuse, Resume, Drop, AskRefresh, Ask, EndRefresh, EndRefused
<1>10. CASE UNCHANGED vars
  BY <1>10, ViewSame DEF vars
<1> QED
  BY <1>1, <1>2, <1>3, <1>4, <1>5, <1>6, <1>7, <1>8, <1>9, <1>10 DEF Next

\* A draft is of the page's target once the effects have run; a rendered page
\* shows controls and targets as the display says; a draft that was typed
\* stands on an answer to the selection whose effect is running.
DraftInv ==
  /\ \A c \in Controllers : draft[c] # None /\ activeKey = effectKey => draft[c].session = activeKey
  /\ ~dirty =>
       /\ activeKey = Target(display, selection)
       /\ \A c \in Controllers : draft[c] # None => Shown(display, selection)
  /\ \A c \in Controllers : draft[c] # None /\ draft[c].typed =>
       display.sel = selection /\ selection = effectSel

LEMMA DraftInitially == Init => DraftInv
<1> SUFFICES ASSUME Init PROVE DraftInv
  OBVIOUS
<1>1. \A c \in Controllers : draft[c] # None =>
        draft[c] = [session |-> activeKey, typed |-> FALSE] /\ Shown(display, selection)
  BY DEF Init
<1> QED BY <1>1 DEF Init, DraftInv

\* A session on display under the page's selection is the page's target.
LEMMA ShownIsTarget ==
  ASSUME TypeInv, ViewInv, NEW sel \in Selections, Shown(display, sel)
  PROVE  Target(display, sel) = display.response.session
  BY DEF ViewInv, Shown, Target

LEMMA RenderedDrafts ==
  ASSUME TypeInv, ViewInv, DraftInv, NEW sel \in Selections, Rendered(sel), ~EffectsDue,
         selection' = sel, UNCHANGED <<display, effectSel, effectKey>>
  PROVE  DraftInv'
<1>1. ASSUME NEW c \in Controllers, draft'[c] # None
      PROVE  /\ Shown(display, sel)
             /\ \/ draft'[c] = draft[c] /\ draft[c] # None
                \/ draft'[c] = [session |-> display.response.session, typed |-> FALSE]
  BY <1>1 DEF Rendered
<1>2. activeKey' = Target(display, sel)
  BY DEF Rendered
<1>3. ASSUME NEW c \in Controllers, draft'[c] # None, activeKey' = effectKey'
      PROVE  draft'[c].session = activeKey'
  <2>1. CASE draft'[c] = draft[c] /\ draft[c] # None
    BY <1>3, <2>1 DEF EffectsDue, DraftInv
  <2>2. CASE draft'[c] = [session |-> display.response.session, typed |-> FALSE]
    <3>1. Target(display, sel) = display.response.session
      BY <1>1, <1>3, ShownIsTarget
    <3> QED BY <1>2, <2>2, <3>1
  <2> QED BY <1>1, <1>3, <2>1, <2>2
<1>4. ASSUME NEW c \in Controllers, draft'[c] # None, draft'[c].typed
      PROVE  display.sel = sel /\ sel = effectSel
  BY <1>1, <1>4 DEF DraftInv, Shown
<1> QED BY <1>1, <1>2, <1>3, <1>4 DEF DraftInv

LEMMA DraftSame ==
  ASSUME DraftInv, UNCHANGED <<activeKey, effectKey, display, selection, effectSel, draft, dirty>>
  PROVE  DraftInv'
  BY DEF DraftInv

LEMMA DraftStep ==
  ASSUME TypeInv, ViewInv, DraftInv, [Next]_vars
  PROVE  DraftInv'
<1> USE DEF displayVars, choice
<1>1. CASE Render
  <2>1. selection \in Selections
    BY DEF TypeInv, TypeOK, DisplayTypeOK
  <2> QED BY <1>1, <2>1, RenderedDrafts DEF Render
<1>2. CASE RunEffects
  <2>1. ASSUME NEW c \in Controllers, draft'[c] # None
        PROVE  /\ draft[c] # None
               /\ \/ draft'[c] = draft[c] /\ activeKey = effectKey
                  \/ draft'[c] = [session |-> activeKey, typed |-> FALSE]
    BY <1>2, <2>1 DEF RunEffects, FieldEffects
  <2>2. /\ activeKey' = activeKey /\ effectKey' = activeKey
        /\ UNCHANGED selection
    BY <1>2 DEF RunEffects, Replace
  <2>3. \A c \in Controllers : draft'[c] # None => draft'[c].session = activeKey'
    BY <2>1, <2>2 DEF DraftInv
  <2>4. CASE selection # effectSel
    BY <1>2, <2>1, <2>2, <2>3, <2>4 DEF RunEffects, DraftInv
  <2>5. CASE selection = effectSel
    BY <1>2, <2>1, <2>2, <2>3, <2>5 DEF RunEffects, DraftInv
  <2> QED BY <2>4, <2>5
<1>3. CASE AnswerArrives
  <2>1. dirty' /\ UNCHANGED <<activeKey, effectKey, selection, effectSel, draft>>
    BY <1>3 DEF AnswerArrives, Settle, hooks
  <2>2. ASSUME NEW c \in Controllers, draft[c] # None, draft[c].typed
        PROVE  display'.sel = selection
    <3>1. display.sel = selection /\ selection = effectSel
      BY <2>2 DEF DraftInv
    <3>2. display \in Displays
      BY <1>3 DEF AnswerArrives, Settle, TypeInv, TypeOK, DisplayTypeOK
    <3>3. CASE answer = Failed
      BY <1>3, <3>1, <3>2, <3>3 DEF AnswerArrives, Settle, Displays
    <3>4. CASE answer # Failed
      BY <1>3, <3>1, <3>2, <3>4 DEF AnswerArrives, Settle
    <3> QED BY <3>3, <3>4
  <2> QED BY <2>1, <2>2 DEF DraftInv
<1>4. CASE Elsewhere
  <2>1. UNCHANGED <<display, selection, effectSel>>
    <3>1. ASSUME NEW s \in Sessions, Update(s) \/ Lose(s)
          PROVE  UNCHANGED <<display, selection, effectSel>>
      BY <3>1 DEF Update, Lose, Create, Remove
    <3>2. ASSUME NEW some \in SUBSET Saves, Serve(some) \/ Release(some)
          PROVE  UNCHANGED <<display, selection, effectSel>>
      BY <3>2 DEF Serve, Release
    <3> QED BY <1>4, <3>1, <3>2 DEF Elsewhere
  <2> QED BY <1>4, <2>1, DraftSame DEF Elsewhere, hooks
<1>5. ASSUME NEW sel \in Selections, Choose(sel)
      PROVE  DraftInv'
  BY <1>5, RenderedDrafts DEF Choose, Select, UserActs
<1>6. ASSUME NEW c \in Controllers, Type(c)
      PROVE  DraftInv'
  <2>1. /\ UNCHANGED <<activeKey, effectKey, display, selection, effectSel, dirty>>
        /\ ~dirty /\ selection = effectSel /\ draft[c] # None
        /\ draft' = [draft EXCEPT ![c] = [draft[c] EXCEPT !.typed = TRUE]]
    BY <1>6 DEF Type, Enabled, UserActs, EffectsDue, hooks
  <2>2. draft \in [Controllers -> Drafts \cup {None}]
    BY DEF TypeInv, TypeOK
  <2>3. draft'[c].session = draft[c].session
    BY <2>1, <2>2 DEF Drafts
  <2>4. \A d \in Controllers \ {c} : draft'[d] = draft[d]
    BY <2>1, <2>2
  <2>5. Shown(display, selection)
    BY <2>1 DEF DraftInv
  <2>6. display.sel = selection
    BY <2>5 DEF Shown
  <2> HIDE DEF displayVars
  <2> QED BY <2>1, <2>3, <2>4, <2>5, <2>6 DEF DraftInv
<1>7. ASSUME NEW e \in Saves, NEW c \in Controllers, NEW restore \in BOOLEAN,
             Submit(e, c, restore)
      PROVE  DraftInv'
  BY <1>7, DraftSame DEF Submit, hooks
<1>8. ASSUME NEW e \in Saves, Commit(e) \/ Refuse(e) \/ Resume(e)
      PROVE  DraftInv'
  BY <1>8, DraftSame
     DEF Commit, Refuse, Resume, Drop, AskRefresh, Ask, EndRefresh, EndRefused, hooks
<1>9. CASE UNCHANGED vars
  BY <1>9, DraftSame DEF vars, hooks
<1> QED
  BY <1>1, <1>2, <1>3, <1>4, <1>5, <1>6, <1>7, <1>8, <1>9 DEF Next

-----------------------------------------------------------------------------
(* What is saved is shown.                                                 *)

\* The save has been acknowledged, and the server still has what it saved.
Saved(e) == save[e] # None /\ save[e].result = "saved" /\ e \notin lost

\* Its refresh does not depend on an answer to come: it has resolved, or is
\* about to, or was asked of an effect that has been replaced.
Told(e) == e \notin waiting \/ e \in loose

\* The server is ahead of what an acknowledged save expected.
Ahead ==
  \A e \in Saves : Saved(e) =>
    /\ save[e].phase # "sent"
    /\ revision[save[e].session] \in Nat /\ revision[save[e].session] > save[e].rev

\* An answer that resolves the refresh of such a save, or comes after the
\* effect the refresh was asked of, was read after the commit.
Fresh ==
  \A e \in Saves : Saved(e) /\ save[e].phase = "refreshing" /\ (Told(e) \/ e \in served) =>
    (answer \in Snapshots /\ answer.session = save[e].session => answer.rev > save[e].rev)

\* And so was the last answer that the page has got.
Heard ==
  \A e \in Saves :
    Saved(e) /\ save[e].phase = "refreshing" /\ Told(e) /\ Current(e) /\ news = save[e].session =>
      display.response.session = save[e].session /\ display.response.rev > save[e].rev

\* While the effect of a selection is due, the target's effects are those of
\* the selection before.
Due == ~dirty /\ selection # effectSel => effectKey = Target(display, effectSel)

LEMMA ShowInitially == Init => Ahead /\ Fresh /\ Heard /\ Due
  BY DEF Init, DisplayInit, Ahead, Fresh, Heard, Due, Saved

\* Where a save that is acknowledged after a step comes from.
Origin(e) ==
  /\ save[e] # None
  /\ save'[e].session = save[e].session /\ save'[e].rev = save[e].rev
  /\ \/ /\ Saved(e)
        /\ save'[e].timely => save[e].timely
        /\ \/ save'[e].phase = save[e].phase
           \/ AskRefresh(e) /\ save[e].phase = "answered"
     \/ Commit(e) /\ save'[e].phase = "answered"

\* A save that is lost remains so as long as it is under way.
LEMMA LostStays ==
  ASSUME TypeInv, [Next]_vars, NEW e \in lost, save'[e] # None
  PROVE  e \in lost'
<1> USE DEF edits
<1>1. e \in Saves /\ save \in SavesType
  BY DEF TypeInv, TypeOK, SavesType
<1>2. CASE Render \/ RunEffects \/ AnswerArrives \/ Elsewhere \/ UNCHANGED vars
  BY <1>2 DEF Render, RunEffects, AnswerArrives, Elsewhere, Lose, vars
<1>3. ASSUME NEW sel \in Selections, Choose(sel)
      PROVE  e \in lost'
  BY <1>3 DEF Choose
<1>4. ASSUME NEW c \in Controllers, Type(c)
      PROVE  e \in lost'
  BY <1>4 DEF Type
<1>5. ASSUME NEW f \in Saves, NEW c \in Controllers, NEW restore \in BOOLEAN,
             Submit(f, c, restore)
      PROVE  e \in lost'
  BY <1>5 DEF Submit
<1>6. ASSUME NEW f \in Saves, Commit(f) \/ Refuse(f) \/ AskRefresh(f)
      PROVE  e \in lost'
  BY <1>6 DEF Commit, Refuse, AskRefresh
<1>7. ASSUME NEW f \in Saves, Over(f)
      PROVE  e \in lost'
  <2>1. f # e
    BY <1>1, <1>7, EndedSave
  <2> QED BY <1>7, <2>1 DEF Over
<1> QED
  BY <1>2, <1>3, <1>4, <1>5, <1>6, <1>7 DEF Next, Resume, Drop, EndRefresh, EndRefused

LEMMA SavedBefore ==
  ASSUME TypeInv, [Next]_vars, NEW e \in Saves, Saved(e)'
  PROVE  Origin(e)
<1> USE DEF Origin
<1>9. e \notin lost
  BY LostStays DEF Saved
<1>0. ASSUME save'[e] = save[e]
      PROVE  Origin(e)
  BY <1>0, <1>9 DEF Saved
<1>1. save \in SavesType
  BY DEF TypeInv, TypeOK, SavesType
<1>2. CASE RunEffects
  <2>1. CASE activeKey # effectKey
    BY <1>1, <1>2, <1>9, <2>1, LateSaves DEF RunEffects, TargetEffects, Saved
  <2>2. CASE activeKey = effectKey
    BY <1>0, <1>2, <2>2 DEF RunEffects
  <2> QED BY <2>1, <2>2
<1>3. CASE Render \/ AnswerArrives \/ Elsewhere \/ UNCHANGED vars
  BY <1>0, <1>3 DEF Render, AnswerArrives, Elsewhere, vars, edits
<1>4. ASSUME NEW sel \in Selections, Choose(sel)
      PROVE  Origin(e)
  BY <1>0, <1>4 DEF Choose, edits
<1>5. ASSUME NEW c \in Controllers, Type(c)
      PROVE  Origin(e)
  BY <1>0, <1>5 DEF Type, edits
<1>6. ASSUME NEW f \in Saves, NEW c \in Controllers, NEW restore \in BOOLEAN,
             Submit(f, c, restore)
      PROVE  Origin(e)
  <2>1. CASE f = e
    <3>1. save'[e].result = None
      BY <1>1, <1>6, <2>1 DEF Submit, SavesType
    <3> QED BY <3>1, NoneAssumption DEF Saved, Results
  <2>2. CASE f # e
    <3>1. save'[e] = save[e]
      BY <1>1, <1>6, <2>2 DEF Submit, SavesType
    <3> QED BY <1>0, <3>1
  <2> QED BY <2>1, <2>2
<1>7. ASSUME NEW f \in Saves, Commit(f) \/ Refuse(f)
      PROVE  Origin(e)
  <2>1. PICK kind \in Results : At(f, "sent") /\ Answered(f, kind) /\ (kind = "saved" => Commit(f))
    BY <1>7 DEF Commit, Refuse, Results
  <2>2. OnlyPhase(f) /\ save'[f].phase = "answered" /\ save'[f].result = kind
    BY <1>1, <2>1, AnsweredSave
  <2>3. CASE f = e
    BY <2>1, <2>2, <2>3 DEF Saved, OnlyPhase, At
  <2>4. CASE f # e
    BY <1>0, <2>2, <2>4 DEF OnlyPhase
  <2> QED BY <2>3, <2>4
<1>8. ASSUME NEW f \in Saves, Resume(f)
      PROVE  Origin(e)
  <2>1. CASE AskRefresh(f)
    <3>1. OnlyPhase(f) /\ save'[f].result = save[f].result /\ save[f].phase = "answered"
      BY <1>1, <2>1, RefreshingSave DEF AskRefresh, At
    <3>2. CASE f = e
      BY <1>9, <2>1, <3>1, <3>2 DEF Saved, OnlyPhase, AskRefresh, At
    <3>3. CASE f # e
      BY <1>0, <3>1, <3>3 DEF OnlyPhase
    <3> QED BY <3>2, <3>3
  <2>2. CASE Over(f)
    BY <1>0, <1>1, <2>2, EndedSave DEF Saved
  <2> QED BY <1>8, <2>1, <2>2 DEF Resume, Drop, EndRefresh, EndRefused
<1> HIDE DEF Origin
<1> QED
  BY <1>2, <1>3, <1>4, <1>5, <1>6, <1>7, <1>8 DEF Next

\* A mutation of the session, or a timestamp.
Wrote(s) == \E bump \in {0, 1} : Written(s, bump)

\* The server changes by such a write to one session or by losing what was
\* saved to one.
LEMMA ServerStep ==
  ASSUME TypeInv, [Next]_vars
  PROVE  \/ UNCHANGED revision
         \/ \E s \in Sessions : Wrote(s) \/ (Lose(s) /\ UNCHANGED save)
<1> USE DEF displayVars, server
<1> DEFINE Goal == \/ UNCHANGED revision
                   \/ \E s \in Sessions : Wrote(s) \/ (Lose(s) /\ UNCHANGED save)
<1>1. CASE Elsewhere
  <2>1. ASSUME NEW s \in Sessions, Update(s) \/ Lose(s)
        PROVE  Goal
    BY <1>1, <2>1 DEF Elsewhere, Update, Wrote
  <2>2. ASSUME NEW some \in SUBSET Saves, Serve(some) \/ Release(some)
        PROVE  UNCHANGED revision
    BY <2>2 DEF Serve, Release
  <2> QED BY <1>1, <2>1, <2>2 DEF Elsewhere
<1>2. ASSUME NEW e \in Saves, Commit(e)
      PROVE  Goal
  <2>1. save[e].session \in Sessions
    BY <1>2 DEF Commit, At, TypeInv, TypeOK, SaveRecords
  <2> QED BY <1>2, <2>1 DEF Commit, Wrote
<1>3. CASE Render \/ RunEffects \/ AnswerArrives
  BY <1>3 DEF Render, RunEffects, Replace, AnswerArrives, Settle
<1>4. ASSUME NEW sel \in Selections, Choose(sel)
      PROVE  UNCHANGED revision
  BY <1>4 DEF Choose, Select
<1>5. ASSUME NEW e \in Saves, NEW c \in Controllers, NEW restore \in BOOLEAN,
             Type(c) \/ Submit(e, c, restore)
      PROVE  UNCHANGED revision
  BY <1>5 DEF Type, Submit
<1>6. ASSUME NEW e \in Saves, Refuse(e) \/ Resume(e)
      PROVE  UNCHANGED revision
  BY <1>6 DEF Refuse, Resume, Drop, AskRefresh, Ask, EndRefresh, EndRefused
<1>7. ASSUME NEW c \in Controllers, Type(c)
      PROVE  UNCHANGED revision
  BY <1>7 DEF Type
<1>8. CASE UNCHANGED vars
  BY <1>8 DEF vars
<1> QED
  BY <1>1, <1>2, <1>3, <1>4, <1>5, <1>6, <1>7, <1>8 DEF Next

LEMMA WrittenAhead ==
  ASSUME TypeInv, NEW s \in Sessions, NEW bump \in {0, 1}, Written(s, bump),
         NEW t \in Sessions, revision[t] \in Nat
  PROVE  revision'[t] \in Nat /\ revision'[t] >= revision[t]
         /\ (t = s => revision'[t] = revision[t] + bump)
<1>1. revision \in [Sessions -> Nat \cup {Missing}]
  BY DEF TypeInv, TypeOK, DisplayTypeOK
<1>2. revision' = [revision EXCEPT ![s] = @ + bump]
  BY DEF Written
<1> QED BY <1>1, <1>2

LEMMA AheadStep ==
  ASSUME TypeInv, Ahead, [Next]_vars
  PROVE  Ahead'
<1> SUFFICES ASSUME NEW e \in Saves, Saved(e)'
             PROVE  /\ save'[e].phase # "sent"
                    /\ revision'[save[e].session] \in Nat
                    /\ revision'[save[e].session] > save[e].rev
  BY SavedBefore DEF Ahead, Origin
<1>1. Origin(e)
  BY SavedBefore
<1>2. save[e] \in SaveRecords
  BY <1>1 DEF Origin, TypeInv, TypeOK
<1>3. save[e].session \in Sessions /\ save[e].rev \in Nat
  BY <1>2 DEF SaveRecords
<1>4. CASE Saved(e)
  <2>1. /\ save[e].phase # "sent" /\ revision[save[e].session] \in Nat
        /\ revision[save[e].session] > save[e].rev
    BY <1>4 DEF Ahead
  <2>2. save'[e].phase # "sent"
    <3>1. CASE AskRefresh(e)
      BY <3>1, RefreshingSave DEF AskRefresh, At, TypeInv, TypeOK, SavesType
    <3> QED BY <1>1, <2>1, <3>1 DEF Origin
  <2>3. ASSUME NEW s \in Sessions, Lose(s)
        PROVE  revision'[save[e].session] = revision[save[e].session]
    <3>1. save[e].session # s
      BY <1>4, <2>3 DEF Lose, Saved
    <3> QED BY <1>3, <2>3, <3>1 DEF Lose, Create, Remove, TypeInv, TypeOK, DisplayTypeOK
  <2>4. ASSUME NEW s \in Sessions, Wrote(s)
        PROVE  /\ revision'[save[e].session] \in Nat
               /\ revision'[save[e].session] >= revision[save[e].session]
    BY <1>3, <2>1, <2>4, WrittenAhead DEF Wrote
  <2>5. /\ revision'[save[e].session] \in Nat
        /\ revision'[save[e].session] >= revision[save[e].session]
    BY <2>1, <2>3, <2>4, ServerStep
  <2> QED BY <1>3, <2>1, <2>2, <2>5
<1>5. CASE Commit(e) /\ save'[e].phase = "answered"
  <2>1. revision[save[e].session] = save[e].rev /\ Written(save[e].session, 1)
    BY <1>5 DEF Commit
  <2>2. revision'[save[e].session] = save[e].rev + 1
    BY <1>3, <2>1, WrittenAhead
  <2> QED BY <1>3, <1>5, <2>2
<1> QED BY <1>1, <1>4, <1>5 DEF Origin

\* Until its refresh is asked for, a save waits for no answer.
LEMMA FreshStep ==
  ASSUME TypeInv, Ahead, Fresh, [Next]_vars
  PROVE  Fresh'
<1> USE DEF displayVars, refresh
<1> SUFFICES ASSUME NEW e \in Saves, Saved(e)', save'[e].phase = "refreshing",
                    Told(e)' \/ e \in served', answer' \in Snapshots,
                    answer'.session = save[e].session
             PROVE  answer'.rev > save[e].rev
  BY SavedBefore DEF Fresh, Origin
<1>1. Origin(e)
  BY SavedBefore
<1>2. ~AskRefresh(e)
  BY DEF AskRefresh, Ask, Told, TypeInv, DisplayInv, TypeOK, DisplayTypeOK
<1>3. Saved(e) /\ save[e].phase = "refreshing"
  BY <1>1, <1>2 DEF Origin
<1>4. UNCHANGED answer /\ (Told(e)' => Told(e)) /\ UNCHANGED served => answer'.rev > save[e].rev
  BY <1>3 DEF Fresh
<1>5. answer' # None
  BY ValuesDiffer
<1>6. CASE Elsewhere
  <2>1. ASSUME NEW s \in Sessions, Update(s) \/ Lose(s)
        PROVE  answer'.rev > save[e].rev
    BY <1>4, <2>1 DEF Update, Lose, Create, Remove, Told
  <2>2. ASSUME NEW some \in SUBSET Saves, Serve(some)
        PROVE  answer'.rev > save[e].rev
    <3>1. effectSel \in Selections /\ answer' = Read(effectSel)
      BY <2>2, ValuesDiffer DEF Serve, TypeInv, TypeOK, DisplayTypeOK
    <3>2. answer'.rev = revision[answer'.session]
      BY <3>1, ValuesDiffer DEF Read, Selections
    <3> QED BY <1>3, <3>2 DEF Ahead
  <2>3. ASSUME NEW some \in SUBSET Saves, Release(some)
        PROVE  answer'.rev > save[e].rev
    BY <1>4, <2>3 DEF Release, Told
  <2> QED BY <1>6, <2>1, <2>2, <2>3 DEF Elsewhere
<1>7. CASE Render \/ UNCHANGED vars
  BY <1>4, <1>7 DEF Render, Told, vars
<1>8. CASE RunEffects
  BY <1>4, <1>5, <1>8 DEF RunEffects, Replace, Abandon, Told
<1>9. CASE AnswerArrives
  BY <1>5, <1>9 DEF AnswerArrives, Settle
<1>10. ASSUME NEW sel \in Selections, Choose(sel)
       PROVE  answer'.rev > save[e].rev
  BY <1>4, <1>10 DEF Choose, Select, Told
<1>11. ASSUME NEW c \in Controllers, Type(c)
       PROVE  answer'.rev > save[e].rev
  BY <1>4, <1>11 DEF Type, Told
<1>12. ASSUME NEW f \in Saves, NEW c \in Controllers, NEW restore \in BOOLEAN,
              Submit(f, c, restore)
       PROVE  answer'.rev > save[e].rev
  BY <1>4, <1>12 DEF Submit, Told
<1>13. ASSUME NEW f \in Saves, Commit(f) \/ Refuse(f) \/ Resume(f)
       PROVE  answer'.rev > save[e].rev
  BY <1>4, <1>13
     DEF Commit, Refuse, Resume, Drop, AskRefresh, Ask, EndRefresh, EndRefused, Told
<1> QED
  BY <1>6, <1>7, <1>8, <1>9, <1>10, <1>11, <1>12, <1>13 DEF Next

LEMMA DueSame ==
  ASSUME Due, UNCHANGED <<dirty, selection, effectSel, effectKey, display>>
  PROVE  Due'
  BY DEF Due, Target

LEMMA DueStep ==
  ASSUME TypeInv, DraftInv, Due, [Next]_vars
  PROVE  Due'
<1> USE DEF displayVars, choice
<1>1. CASE Render
  BY <1>1 DEF Render, EffectsDue, Due
<1>2. CASE RunEffects
  BY <1>2 DEF RunEffects, Replace, Due
<1>3. CASE AnswerArrives
  BY <1>3 DEF AnswerArrives, Due
<1>4. CASE Elsewhere
  <2>1. ASSUME NEW s \in Sessions, Update(s) \/ Lose(s)
        PROVE  UNCHANGED <<selection, effectSel, display>>
    BY <2>1 DEF Update, Lose, Create, Remove
  <2>2. ASSUME NEW some \in SUBSET Saves, Serve(some) \/ Release(some)
        PROVE  UNCHANGED <<selection, effectSel, display>>
    BY <2>2 DEF Serve, Release
  <2> QED BY <1>4, <2>1, <2>2, DueSame DEF Elsewhere, hooks
<1>5. ASSUME NEW sel \in Selections, Choose(sel)
      PROVE  Due'
  <2>1. UNCHANGED <<display, effectSel, effectKey>> /\ ~dirty /\ ~EffectsDue
    BY <1>5 DEF Choose, Select, UserActs
  <2>2. effectKey = Target(display, effectSel)
    BY <2>1 DEF EffectsDue, DraftInv
  <2> QED BY <2>1, <2>2 DEF Due, Target
<1>6. ASSUME NEW c \in Controllers, Type(c)
      PROVE  Due'
  BY <1>6, DueSame DEF Type, hooks
<1>7. ASSUME NEW e \in Saves, NEW c \in Controllers, NEW restore \in BOOLEAN,
             Submit(e, c, restore)
      PROVE  Due'
  BY <1>7, DueSame DEF Submit, hooks
<1>8. ASSUME NEW e \in Saves, Commit(e) \/ Refuse(e) \/ Resume(e)
      PROVE  Due'
  BY <1>8, DueSame
     DEF Commit, Refuse, Resume, Drop, AskRefresh, Ask, EndRefresh, EndRefused, hooks
<1>9. CASE UNCHANGED vars
  BY <1>9, DueSame DEF vars, hooks
<1> QED
  BY <1>1, <1>2, <1>3, <1>4, <1>5, <1>6, <1>7, <1>8, <1>9 DEF Next

\* The answer to a save of the page's target is put on display, or the display
\* is of the same session and ahead of it.
LEMMA SettleShows ==
  ASSUME TypeInv, ViewInv, DraftInv, Due, AnswerArrives, answer \in Snapshots,
         answer.session = activeKey, answer.session = effectKey
  PROVE  /\ display'.response \in Snapshots /\ display'.response.session = activeKey
         /\ display'.response.rev >= answer.rev
<1>1. ~dirty /\ answer # Failed /\ effectSel \in Selections
  BY ValuesDiffer DEF AnswerArrives, TypeInv, TypeOK, DisplayTypeOK
<1>2. CASE Newer
  <2>1. /\ display' = display /\ display.response \in Snapshots /\ display.sel = effectSel
        /\ answer.rev < display.response.rev
    <3>1. display' = display
      BY <1>1, <1>2 DEF AnswerArrives, Settle
    <3> QED BY <1>2, <3>1 DEF Newer
  <2>2. display.response.session = activeKey
    <3>1. CASE effectSel # Latest
      BY <2>1, <3>1 DEF ViewInv
    <3>2. CASE effectSel = Latest
      <4>1. Target(display, effectSel) = display.response.session
        BY <2>1, <3>2 DEF Target
      <4>2. effectKey = Target(display, effectSel) \/ activeKey = Target(display, effectSel)
        BY <1>1 DEF Due, DraftInv
      <4> QED BY <4>1, <4>2
    <3> QED BY <3>1, <3>2
  <2>3. answer.rev \in Nat /\ display.response.rev \in Nat
    BY <2>1 DEF Snapshots
  <2>4. display.response.rev >= answer.rev
    BY <2>1, <2>3
  <2> QED BY <2>1, <2>2, <2>4
<1>3. CASE ~Newer
  <2>1. display'.response = answer
    BY <1>1, <1>3 DEF AnswerArrives, Settle
  <2>2. answer.rev \in Nat
    BY DEF Snapshots
  <2> QED BY <2>1, <2>2
<1> QED BY <1>2, <1>3

LEMMA HeardStep ==
  ASSUME TypeInv, SaveInv, ViewInv, DraftInv, Fresh, Heard, Due, [Next]_vars
  PROVE  Heard'
<1> USE DEF displayVars, refresh
<1> DEFINE Shows(e) == /\ display'.response.session = save[e].session
                       /\ display'.response.rev > save[e].rev
<1> SUFFICES ASSUME NEW e \in Saves, Saved(e)', save'[e].phase = "refreshing", Told(e)',
                    Current(e)', news' = save[e].session
             PROVE  Shows(e)
  <2>1. \A e \in Saves : Saved(e)' =>
          save'[e].session = save[e].session /\ save'[e].rev = save[e].rev
    BY SavedBefore DEF Origin
  <2> QED BY <2>1 DEF Heard
<1>1. Origin(e)
  BY SavedBefore
<1>2. ~AskRefresh(e)
  BY DEF AskRefresh, Ask, Told, TypeInv, DisplayInv, TypeOK, DisplayTypeOK
<1>3. /\ Saved(e) /\ save[e].phase = "refreshing"
      /\ save'[e].session = save[e].session /\ save'[e].timely /\ save[e].timely
      /\ save[e].session = activeKey'
  BY <1>1, <1>2 DEF Origin, Current
<1>4. save[e] \in SaveRecords
  BY <1>3 DEF Saved, TypeInv, TypeOK
<1>5. save[e].session \in Sessions /\ save[e].rev \in Nat /\ news' # None
  BY <1>4, ValuesDiffer DEF SaveRecords
<1>6. save[e].session = effectKey
  BY <1>3 DEF SaveInv, Saved
<1>7. /\ UNCHANGED <<display, news>> /\ (Told(e)' => Told(e))
      /\ (activeKey' = activeKey \/ activeKey = effectKey)
      => Shows(e)
  BY <1>3, <1>6 DEF Heard, Current
<1>8. CASE Elsewhere
  <2>1. ASSUME NEW s \in Sessions, Update(s) \/ Lose(s)
        PROVE  UNCHANGED display /\ (Told(e)' => Told(e))
    BY <2>1 DEF Update, Lose, Create, Remove, Told
  <2>2. ASSUME NEW some \in SUBSET Saves, Serve(some) \/ Release(some)
        PROVE  UNCHANGED display /\ (Told(e)' => Told(e))
    BY <2>2 DEF Serve, Release, Told
  <2> QED BY <1>7, <1>8, <2>1, <2>2 DEF Elsewhere, hooks
<1>9. CASE Render \/ UNCHANGED vars
  BY <1>7, <1>9 DEF Render, EffectsDue, Told, vars, hooks
<1>10. CASE RunEffects
  <2>1. selection = effectSel
    BY <1>5, <1>10 DEF RunEffects
  <2> QED BY <1>7, <1>10, <2>1 DEF RunEffects, Told
<1>11. CASE AnswerArrives
  <2>1. answer \in Snapshots /\ answer.session = save[e].session /\ activeKey' = activeKey
    BY <1>5, <1>11 DEF AnswerArrives, hooks
  <2>2. Told(e) \/ e \in served
    BY <1>11 DEF AnswerArrives, Settle, Told
  <2>3. answer.rev > save[e].rev
    BY <1>3, <2>1, <2>2 DEF Fresh
  <2>4. /\ display'.response \in Snapshots /\ display'.response.session = save[e].session
        /\ display'.response.rev >= answer.rev
    BY <1>3, <1>6, <1>11, <2>1, SettleShows
  <2>5. answer.rev \in Nat /\ display'.response.rev \in Nat
    BY <2>1, <2>4 DEF Snapshots
  <2> QED BY <1>5, <2>3, <2>4, <2>5
<1>12. ASSUME NEW sel \in Selections, Choose(sel)
       PROVE  Shows(e)
  BY <1>7, <1>12 DEF Choose, Select, UserActs, EffectsDue, Told
<1>13. ASSUME NEW c \in Controllers, Type(c)
       PROVE  Shows(e)
  BY <1>7, <1>13 DEF Type, Told, hooks
<1>14. ASSUME NEW f \in Saves, NEW c \in Controllers, NEW restore \in BOOLEAN,
              Submit(f, c, restore)
       PROVE  Shows(e)
  BY <1>7, <1>14 DEF Submit, Told, hooks
<1>15. ASSUME NEW f \in Saves, Commit(f) \/ Refuse(f) \/ Resume(f)
       PROVE  Shows(e)
  BY <1>7, <1>15
     DEF Commit, Refuse, Resume, Drop, AskRefresh, Ask, EndRefresh, EndRefused, Told, hooks
<1> HIDE DEF Shows
<1> QED
  BY <1>8, <1>9, <1>10, <1>11, <1>12, <1>13, <1>14, <1>15 DEF Next

-----------------------------------------------------------------------------
(* The theorems.                                                           *)

LEMMA SaveStarts ==
  ASSUME TypeInv, Next, NEW e \in Saves, save[e] = None, save'[e] # None
  PROVE  \E c \in Controllers, restore \in BOOLEAN : Submit(e, c, restore)
<1>1. save \in SavesType
  BY DEF TypeInv, TypeOK, SavesType
<1>2. ~Render /\ ~AnswerArrives /\ ~Elsewhere
  BY DEF Render, AnswerArrives, Elsewhere, edits
<1>3. ~RunEffects
  BY <1>1, LateSaves DEF RunEffects, TargetEffects
<1>4. \A sel \in Selections : ~Choose(sel)
  BY DEF Choose, edits
<1>5. \A c \in Controllers : ~Type(c)
  BY DEF Type, edits
<1>6. ASSUME NEW f \in Saves, Commit(f) \/ Refuse(f)
      PROVE  FALSE
  BY <1>1, <1>6, AnsweredSave DEF Commit, Refuse, OnlyPhase, Results, At
<1>7. ASSUME NEW f \in Saves, Resume(f)
      PROVE  FALSE
  <2>1. CASE AskRefresh(f)
    BY <1>1, <2>1, RefreshingSave DEF AskRefresh, OnlyPhase, At
  <2>2. CASE Over(f)
    BY <1>1, <2>2, EndedSave
  <2> QED BY <1>7, <2>1, <2>2 DEF Resume, Drop, EndRefresh, EndRefused
<1>8. ASSUME NEW f \in Saves, NEW c \in Controllers, NEW restore \in BOOLEAN,
             Submit(f, c, restore)
      PROVE  f = e
  BY <1>1, <1>8 DEF Submit, SavesType
<1> QED BY <1>2, <1>3, <1>4, <1>5, <1>6, <1>7, <1>8 DEF Next

LEMMA SaveEnds ==
  ASSUME TypeInv, Next, NEW e \in Saves, save[e] # None, save'[e] = None
  PROVE  Drop(e) \/ EndRefresh(e) \/ EndRefused(e)
<1>1. save \in SavesType
  BY DEF TypeInv, TypeOK, SavesType
<1>2. ~Render /\ ~AnswerArrives /\ ~Elsewhere
  BY DEF Render, AnswerArrives, Elsewhere, edits
<1>3. ~RunEffects
  BY <1>1, LateSaves DEF RunEffects, TargetEffects
<1>4. \A sel \in Selections : ~Choose(sel)
  BY DEF Choose, edits
<1>5. \A c \in Controllers : ~Type(c)
  BY DEF Type, edits
<1>6. ASSUME NEW f \in Saves, Commit(f) \/ Refuse(f)
      PROVE  FALSE
  BY <1>1, <1>6, AnsweredSave, NoneAssumption DEF Commit, Refuse, OnlyPhase, Results
<1>7. ASSUME NEW f \in Saves, Resume(f)
      PROVE  Drop(e) \/ EndRefresh(e) \/ EndRefused(e)
  <2>1. CASE AskRefresh(f)
    BY <1>1, <2>1, RefreshingSave, NoneAssumption DEF AskRefresh, OnlyPhase, At
  <2>2. CASE Drop(f) \/ EndRefresh(f) \/ EndRefused(f)
    <3>1. f = e
      BY <1>1, <2>2, EndedSave DEF Drop, EndRefresh, EndRefused
    <3> QED BY <2>2, <3>1
  <2> QED BY <1>7, <2>1, <2>2 DEF Resume
<1>8. ASSUME NEW f \in Saves, NEW c \in Controllers, NEW restore \in BOOLEAN,
             Submit(f, c, restore)
      PROVE  FALSE
  BY <1>1, <1>8 DEF Submit, SavesType
<1> QED BY <1>2, <1>3, <1>4, <1>5, <1>6, <1>7, <1>8 DEF Next

ControlsInv ==
  TypeInv /\ SaveInv /\ ViewInv /\ DraftInv /\ Ahead /\ Fresh /\ Heard /\ Due

\* The inductive invariant that every theorem of this module rests on: which
\* save keeps a controller disabled, what the drafts and the display are about,
\* and what the answers on their way were read after (manual_state_controller.js:58).
THEOREM ControlsInvariant == Spec => []ControlsInv
<1>1. Init => ControlsInv
  BY TypeInitially, SaveInitially, ViewInitially, DraftInitially, ShowInitially DEF ControlsInv
<1>2. ControlsInv /\ [Next]_vars => ControlsInv'
  BY TypeStep, SaveStep, ViewStep, DraftStep, AheadStep, FreshStep, HeardStep, DueStep
     DEF ControlsInv
<1> QED BY <1>1, <1>2, PTL DEF Spec

\* Every variable of the dashboard's controls keeps its type, the display's
\* included (manual_state_controller.js, tuning_controller.js).
THEOREM ControlsTyped == Spec => []TypeOK
<1>1. ControlsInv => TypeOK
  BY DEF ControlsInv, TypeInv
<1> QED BY <1>1, ControlsInvariant, PTL

\* Duplicate submissions are prevented: a controller has at most one save under
\* way for the target of the page (manual_state_controller.js:88, :108).
THEOREM OneSave == Spec => []OneSaveAtATime
<1>1. ControlsInv => OneSaveAtATime
  BY DEF ControlsInv, SaveInv, OneSaveAtATime, Claims, Live
<1> QED BY <1>1, ControlsInvariant, PTL

\* No controller stays disabled: a save that will enable it is under way, or
\* the effects of a new target are (manual_state_controller.js:58, :108).
THEOREM SavingIsEnded == Spec => []SavingEnds
<1>1. ControlsInv => SavingEnds
  <2> SUFFICES ASSUME ControlsInv, NEW c \in Controllers, saving[c], activeKey = effectKey
               PROVE  \E e \in Saves : Claims(e) /\ save[e].controller = c
    BY DEF SavingEnds
  <2>1. PICK e \in Saves : Live(e) /\ save[e].controller = c
    BY DEF ControlsInv, SaveInv
  <2>2. Claims(e)
    BY <2>1 DEF ControlsInv, SaveInv, Live, Claims
  <2> QED BY <2>1, <2>2
<1> QED BY <1>1, ControlsInvariant, PTL

\* An edit carries the session and the revision on display and a value typed
\* for that session (page.js:90, manual_state_controls.js:57).
THEOREM EditSentAsSeen == Spec => SentAsSeen
<1> DEFINE Sent == \A e \in Saves : save[e] = None /\ save'[e] # None =>
                     /\ save'[e].session = display.response.session
                     /\ save'[e].rev = display.response.rev
                     /\ save'[e].meant = save'[e].session
<1>1. ControlsInv /\ [Next]_vars => [Sent]_vars
  <2> SUFFICES ASSUME ControlsInv, Next, NEW e \in Saves, save[e] = None, save'[e] # None
               PROVE  /\ save'[e].session = display.response.session
                      /\ save'[e].rev = display.response.rev
                      /\ save'[e].meant = save'[e].session
    OBVIOUS
  <2>1. save \in SavesType
    BY DEF ControlsInv, TypeInv, TypeOK, SavesType
  <2>2. PICK c \in Controllers, restore \in BOOLEAN : Submit(e, c, restore)
    BY SaveStarts DEF ControlsInv
  <2>3. /\ draft[c] # None /\ ~dirty /\ activeKey = effectKey
    BY <2>2 DEF Submit, Enabled, UserActs, EffectsDue
  <2>4. /\ Shown(display, selection) /\ activeKey = Target(display, selection)
        /\ draft[c].session = activeKey
    BY <2>3 DEF ControlsInv, DraftInv
  <2>5. activeKey = display.response.session
    BY <2>4, ShownIsTarget DEF ControlsInv, TypeInv, TypeOK, DisplayTypeOK
  <2>6. /\ save'[e].session = activeKey /\ save'[e].rev = display.response.rev
        /\ save'[e].meant = IF restore THEN activeKey ELSE draft[c].session
    BY <2>1, <2>2 DEF Submit, SavesType
  <2> QED BY <2>4, <2>5, <2>6
<1> QED BY <1>1, ControlsInvariant, PTL DEF Spec, SentAsSeen

\* When the page says "saved", the saved revision or a later one is on display,
\* whatever is removed or created again elsewhere, unless that takes what was
\* saved from the server (manual_state_controller.js:89).
THEOREM SavedShown == Spec => SavedIsShown
<1> DEFINE Acknowledged == \A e \in Saves :
              /\ save[e] # None /\ save'[e] = None
              /\ save[e].result = "saved" /\ Current(e) /\ e \notin lost
              /\ news = save[e].session
              => display.response.session = save[e].session /\ display.response.rev > save[e].rev
<1>1. ControlsInv /\ [Next]_vars => [Acknowledged]_vars
  <2> SUFFICES ASSUME ControlsInv, Next, NEW e \in Saves, save[e] # None, save'[e] = None,
                      save[e].result = "saved", Current(e), e \notin lost,
                      news = save[e].session
               PROVE  display.response.session = save[e].session
                      /\ display.response.rev > save[e].rev
    OBVIOUS
  <2>1. EndRefresh(e)
    BY SaveEnds DEF ControlsInv, Drop, EndRefused
  <2> QED BY <2>1 DEF EndRefresh, At, Resolved, ControlsInv, Heard, Saved, Told
<1> QED BY <1>1, ControlsInvariant, PTL DEF Spec, SavedIsShown

\* What was typed is dropped only for another target or selection, after a
\* conflict or a restored value, when the selected session could not be read, or
\* when no session is left to show (manual_state_controls.js:57).
THEOREM DraftIsKept == Spec => DraftKept
<1> DEFINE Kept == \A c \in Controllers :
              draft[c] # None /\ draft[c].typed /\ (draft'[c] # None => ~draft'[c].typed)
              => \/ activeKey # effectKey \/ selection' # selection
                 \/ resetDue[c] \/ display.errorSel = selection
                 \/ display.response = Unavailable
<1>1. ControlsInv /\ [Next]_vars => [Kept]_vars
  <2> SUFFICES ASSUME ControlsInv, Next, NEW c \in Controllers, draft[c] # None, draft[c].typed,
                      draft'[c] # None => ~draft'[c].typed
               PROVE  \/ activeKey # effectKey \/ selection' # selection
                      \/ resetDue[c] \/ display.errorSel = selection
                      \/ display.response = Unavailable
    OBVIOUS
  <2>1. draft'[c] # draft[c]
    OBVIOUS
  <2>2. CASE Render
    <3>1. ~Shown(display, selection)
      BY <2>1, <2>2 DEF Render, Rendered
    <3>2. display.response \in Snapshots \cup {Unavailable}
      BY DEF ControlsInv, TypeInv, TypeOK, DisplayTypeOK, Displays
    <3> QED BY <3>1, <3>2 DEF ControlsInv, DraftInv, Shown
  <2>3. CASE RunEffects
    BY <2>1, <2>3 DEF RunEffects, FieldEffects
  <2>4. ASSUME NEW sel \in Selections, Choose(sel)
        PROVE  selection' # selection
    BY <2>4 DEF Choose, Select
  <2>5. ASSUME NEW d \in Controllers, Type(d)
        PROVE  FALSE
    <3>1. draft \in [Controllers -> Drafts \cup {None}] /\ d = c
      BY <2>1, <2>5 DEF Type, ControlsInv, TypeInv, TypeOK
    <3> QED BY <2>5, <3>1 DEF Type
  <2>6. ~AnswerArrives /\ ~Elsewhere
    BY <2>1 DEF AnswerArrives, Elsewhere
  <2>7. \A e \in Saves, d \in Controllers, restore \in BOOLEAN : ~Submit(e, d, restore)
    BY <2>1 DEF Submit
  <2>8. \A e \in Saves : ~Commit(e) /\ ~Refuse(e) /\ ~Resume(e)
    BY <2>1 DEF Commit, Refuse, Resume, Drop, AskRefresh, EndRefresh, EndRefused
  <2> QED BY <2>2, <2>3, <2>4, <2>5, <2>6, <2>7, <2>8 DEF Next
<1> QED BY <1>1, ControlsInvariant, PTL DEF Spec, DraftKept
=============================================================================
