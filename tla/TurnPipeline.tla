--------------------------- MODULE TurnPipeline ---------------------------
(***************************************************************************)
(* One session as turns, time and manual edits change it: a message is     *)
(* heard and classified, then applied to the state of that moment under    *)
(* the store's lock, with edits and the clock in between.                  *)
(*                                                                         *)
(* Revisions, turn ids and the file are the matter of SessionRuntime; here *)
(* the affect values are.                                                  *)
(***************************************************************************)
EXTENDS Classification

CONSTANTS
  Personalities,  \* resolved configurations a session may have
  Messages,       \* messages the host delivers
  Verdicts,       \* outcomes of the semantic classifier
  Edits,          \* requests of the dashboard: [scope, field, value, participant]
  MaxTurns,       \* bound: turns of a behaviour
  MaxEdits,       \* bound: manual edits of a behaviour
  MaxIdle         \* bound: hours between two updates

AffectFields == {"valence", "arousal", "frustration", "offended"}
RelationFields == {"trust", "affinity", "respect", "irritation", "tension"}
SignedFields == {"valence", "trust", "affinity", "respect"}

\* FIELD_RANGES.
EditRecords ==
  {d \in [scope : {"affect", "atmosphere", "relationship"},
          field : AffectFields \cup RelationFields \cup {"atmosphere"},
          value : -Unit .. Unit,
          participant : Participants \cup {None}] :
     /\ d.field \in CASE d.scope = "affect" -> AffectFields
                      [] d.scope = "relationship" -> RelationFields
                      [] OTHER -> {"atmosphere"}
     /\ d.field \notin SignedFields => d.value >= 0
     /\ (d.participant = None) <=> (d.scope # "relationship")}

ASSUME InputsType ==
  /\ Personalities \subseteq Configurations
  /\ Messages \subseteq MessageRecords
  /\ Verdicts \subseteq Outcomes
  /\ Edits \subseteq EditRecords
  /\ MaxTurns \in Nat /\ MaxEdits \in Nat /\ MaxIdle \in Nat

ASSUME NoEventIsNone == None \notin Events

ASSUME FactorsType ==
  \A c \in Personalities :
    \A h \in 0 .. MaxIdle :
      /\ MoodFactor[c.traits["persistence"]][h] \in 0 .. Unit
      /\ RelationFactor[c.traits["persistence"]][h] \in 0 .. Unit

VARIABLES
  config,   \* the configuration saved with the session
  state,    \* the affect values
  idle,     \* hours since updated_at
  pending,  \* the turn between classification and apply_latest, or None
  turns,    \* turns heard so far
  edits     \* edits made so far

vars == <<config, state, idle, pending, turns, edits>>

\* "events" has at most one element.  The other fields are auxiliary: what
\* the host said about the message.
Turns ==
  [events : SUBSET Events,
   speaker : Participants,
   moderates : BOOLEAN,     \* a verified user, no bot, with a moderation phrase
   unresolved : BOOLEAN]    \* a group message for nobody, or for an unknown recipient

TypeOK ==
  /\ config \in Personalities
  /\ DOMAIN state.conflicts \subseteq Known(state) /\ Known(state) \subseteq Participants
  /\ state \in StatesOver(Known(state), DOMAIN state.conflicts)
  /\ idle \in 0 .. MaxIdle
  /\ pending = None \/ (pending \in Turns /\ Cardinality(pending.events) <= 1)
  /\ turns \in 0 .. MaxTurns
  /\ edits \in 0 .. MaxEdits

Init ==
  /\ config \in Personalities
  /\ state = InitialState
  /\ idle = 0
  /\ pending = None
  /\ turns = 0
  /\ edits = 0

-----------------------------------------------------------------------------

Decayed == Decay(state, config, idle)

Unresolved(m) == Addressee(m) = Unknown \/ (Addressee(m) = None /\ m.group)

\* pre_llm_call up to apply_latest; no lock is held.
Hear(m, outcome) ==
  /\ pending = None
  /\ turns < MaxTurns
  /\ turns' = turns + 1
  /\ pending' = [events |-> Heard(m, outcome), speaker |-> m.speaker,
                 moderates |-> Moderates(m),
                 unresolved |-> Unresolved(m) /\ outcome \in {Disabled, Failed}]
  /\ UNCHANGED <<config, state, idle, edits>>

\* Mutant of React: what others say to each other is applied like the rest.
React_Personal(s, e, c) ==
  LET told == [s EXCEPT !.sensitive = e.charged]
      felt == ApplyEvent(told, e, c)
  IN IF e.type = "user_moderation" THEN felt ELSE ObserveExchange(felt, e, c)

\* The body of the loop over events.
React(s, e, c) ==
  LET told == [s EXCEPT !.sensitive = e.charged]
      felt == IF e.target = "participant" THEN s ELSE ApplyEvent(told, e, c)
  IN IF e.type = "user_moderation" THEN felt ELSE ObserveExchange(felt, e, c)

\* _apply_classified_turn, on the state of this moment.
Apply ==
  /\ pending # None
  /\ LET rested == [Decayed EXCEPT !.sensitive = FALSE]
         event == IF pending.events = {} THEN None ELSE CHOOSE e \in pending.events : TRUE
         reacted == IF event = None THEN rested ELSE React(rested, event, config)
     IN state' = [reacted EXCEPT
                    !.posture = DerivePosture(reacted, config, event, pending.speaker),
                    !.mood = DeriveMood(reacted)]
  /\ idle' = 0
  /\ pending' = None
  /\ UNCHANGED <<config, turns, edits>>

WithValue(s, d) ==
  CASE d.scope = "atmosphere" -> [s EXCEPT !.atmosphere = d.value]
    [] d.scope = "affect" -> [s EXCEPT ![d.field] = d.value]
    [] OTHER -> [s EXCEPT !.rel[d.participant][d.field] = d.value]

\* Mutant of Edited: the mood follows the edited field only.
Edited_FieldMood(s, before, d) ==
  LET changed == IF d.field \in {"valence", "frustration", "offended"}
                 THEN [s EXCEPT !.mood = DeriveMood(s)] ELSE s
  IN IF d.field = "tension" THEN RefreshConflicts(changed) ELSE changed

\* The projections an edit brings up to date.
Edited(s, before, d) ==
  LET moved == \/ d.field \in {"valence", "frustration", "offended"}
               \/ <<s.valence, s.frustration, s.offended>>
                    # <<before.valence, before.frustration, before.offended>>
      changed == IF moved THEN [s EXCEPT !.mood = DeriveMood(s)] ELSE s
  IN IF d.field = "tension" THEN RefreshConflicts(changed) ELSE changed

\* ManualStateControlService.apply.
ManualEdit(d) ==
  /\ edits < MaxEdits
  /\ d.scope = "relationship" => d.participant \in Known(state)
  /\ edits' = edits + 1
  /\ state' = Edited(WithValue(Decayed, d), state, d)
  /\ idle' = 0
  /\ UNCHANGED <<config, pending, turns>>

\* The clock.
Wait ==
  /\ idle < MaxIdle
  /\ idle' = idle + 1
  /\ UNCHANGED <<config, state, pending, turns, edits>>

\* post_llm_call and on_session_end: updated_at moves, nothing is decayed.
TouchSession ==
  /\ idle > 0
  /\ idle' = 0
  /\ UNCHANGED <<config, state, pending, turns, edits>>

Next ==
  \/ \E m \in Messages, outcome \in Verdicts : Hear(m, outcome)
  \/ Apply
  \/ \E d \in Edits : ManualEdit(d)
  \/ Wait
  \/ TouchSession

Spec == Init /\ [][Next]_vars

-----------------------------------------------------------------------------
(* Properties.                                                             *)

ConflictsProjected ==
  /\ DOMAIN state.conflicts = {p \in Known(state) : state.rel[p].tension > Half(PositiveStep)}
  /\ \A p \in DOMAIN state.conflicts : state.conflicts[p] = state.rel[p].tension

MoodProjected == state.mood = DeriveMood(state)

\* "Conflict heat/status is projected from unresolved relationship tension
\* after updates and decay": whatever turns, hours and edits came before, the
\* open conflicts are those of the tension now stored, with its heat, and the
\* mood is the one its sources imply, also when an edit of another field is
\* what let them decay.
Projected == ConflictsProjected /\ MoodProjected

\* A turn is an intervention exactly when a verified user who is no bot
\* gave one, whatever else the message contains or the classifier says.
AuthorityExact ==
  pending # None =>
    (pending.moderates <=> \E e \in pending.events : e.type = "user_moderation")

Applied == pending # None /\ pending' = None

\* The personal values of a state: the bot's own feelings and, for each
\* relationship, everything but the style seen in it.
Feelings(s) == <<s.valence, s.arousal, s.frustration, s.offended>>
Regard(r) == <<r.trust, r.affinity, r.respect>>
Strain(r) == <<r.irritation, r.tension>>

OnlyTimePassed(new) ==
  /\ Feelings(new) = Feelings(Decayed)
  /\ \A p \in Known(state) :
       Regard(new.rel[p]) = Regard(Decayed.rel[p]) /\ Strain(new.rel[p]) = Strain(Decayed.rel[p])
  /\ \A p \in Known(new) \ Known(state) :
       Regard(new.rel[p]) = Regard(Stranger) /\ Strain(new.rel[p]) = Strain(Stranger)

Retaliations == {"counterattack", "refusal", "evasive"}

\* "A resolved exchange between others updates this bot's observations and
\* perceived atmosphere, not personal offense": feelings and regard only
\* decay, and the posture is not one of a party to the conflict.
OthersStayOthers ==
  [][Applied /\ (\E e \in pending.events : e.target = "participant") =>
       /\ OnlyTimePassed(state')
       /\ state'.posture \notin Retaliations \cup {"mischievous", "reconciliation"}]_vars

\* "Unresolved group targets are ignored for personal offense": neither a
\* group message for nobody in particular nor one for an unknown recipient
\* touches the personal values, whatever it says.
UnresolvedImpersonal ==
  [][Applied /\ pending.unresolved /\ ~pending.moderates => OnlyTimePassed(state')]_vars

\* Personal retaliation is not transferred: it answers a speaker with whom
\* a conflict is open, while frustration or offence is active.
RetaliationAimed ==
  [][Applied /\ state'.posture \in Retaliations =>
       /\ pending.speaker \in DOMAIN state'.conflicts
       /\ Upset(state') > ActiveThreshold]_vars

\* "Trust, respect, affinity and observed style change through evidence":
\* of the regard for a participant, a turn changes only the speaker's, and
\* time none.
RegardByEvidence ==
  [][edits' = edits =>
       \A p \in Known(state) :
         Regard(state'.rel[p]) # Regard(state.rel[p]) => Applied /\ p = pending.speaker]_vars

\* Trust "can soften an injury without eliminating it" and "even the least
\* receptive relationship has an ordinary repair path": a hostile event for
\* the bot hurts and a repair heals for every personality and history.
ReactionsNeverVanish ==
  [][Applied => \A e \in pending.events :
       e.target = "bot" =>
         LET before == Meet(Decayed, e.speaker)
             tension == before.rel[e.speaker].tension
         IN /\ e.type \in HostileEvents =>
                 /\ state'.offended > before.offended \/ state'.offended = Unit
                 /\ state'.rel[e.speaker].tension > tension
                      \/ state'.rel[e.speaker].tension = Unit
            /\ e.type \in RepairEvents =>
                 /\ state'.offended < before.offended \/ state'.offended = 0
                 /\ state'.rel[e.speaker].tension < tension
                      \/ state'.rel[e.speaker].tension = 0]_vars

\* "At most 64 directed edges and 64 distress records are retained": one edge
\* for each pair and one record for each speaker, whatever was observed, decayed
\* or edited (relationships.py:79, :92).
ObservationsBounded ==
  /\ Len(state.edges) <= SocialRecordLimit
  /\ Len(state.observed) <= SocialRecordLimit
  /\ \A j, k \in DOMAIN state.edges :
       state.edges[j].from = state.edges[k].from /\ state.edges[j].to = state.edges[k].to
         => j = k
  /\ \A j, k \in DOMAIN state.observed :
       state.observed[j].who = state.observed[k].who => j = k

RemembersPair(s, from, to) ==
  \E k \in DOMAIN s.edges : s.edges[k].from = from /\ s.edges[k].to = to
RemembersSpeaker(s, p) == \E k \in DOMAIN s.observed : s.observed[k].who = p

\* "Edge order reflects recent observation": what was just observed is kept, as
\* the newest edge, and costs at most the oldest edge and the oldest record, each
\* only when its list was full and the pair or speaker is a new one
\* (relationships.py:68, :79, :92).
ExchangeRemembered ==
  [][Applied => \A e \in pending.events : e.type # "user_moderation" =>
       /\ e.to \notin {None, e.speaker} =>
            LET newest == state'.edges[Len(state'.edges)]
            IN newest.from = e.speaker /\ newest.to = e.to
       /\ e.type = "frustration" => RemembersSpeaker(state', e.speaker)
       /\ \A k \in DOMAIN state.edges :
            \/ RemembersPair(state', state.edges[k].from, state.edges[k].to)
            \/ /\ k = 1 /\ Len(state.edges) = SocialRecordLimit
               /\ ~RemembersPair(state, e.speaker, e.to)
       /\ \A k \in DOMAIN state.observed :
            \/ RemembersSpeaker(state', state.observed[k].who)
            \/ /\ k = 1 /\ Len(state.observed) = SocialRecordLimit
               /\ ~RemembersSpeaker(state, e.speaker)]_vars
=============================================================================
