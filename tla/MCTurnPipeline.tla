-------------------------- MODULE MCTurnPipeline --------------------------
(* Two messages in a new session, or one in a session where two exchanges  *)
(* have filled the lists of observations.                                  *)
EXTENDS TurnPipeline, TLC

CONSTANTS
  a, b,  \* a person and a bot of the same group
  q      \* a person who has left

\* exp(-rate * hours) for persistence 0, 0.5 and 1, in thousandths.
MCMoodFactor ==
  (0 :> (0 :> 1000 @@ 1 :> 368)) @@ (500 :> (0 :> 1000 @@ 1 :> 549))
  @@ (1000 :> (0 :> 1000 @@ 1 :> 819))
MCRelationFactor ==
  (0 :> (0 :> 1000 @@ 1 :> 607)) @@ (500 :> (0 :> 1000 @@ 1 :> 741))
  @@ (1000 :> (0 :> 1000 @@ 1 :> 905))

With(reactivity, persistence, pride, playfulness, assertiveness, receptiveness) ==
  "reactivity" :> reactivity @@ "persistence" :> persistence @@ "pride" :> pride
  @@ "playfulness" :> playfulness @@ "assertiveness" :> assertiveness
  @@ "receptiveness" :> receptiveness

MCPersonalities ==
  {[traits |-> With(400, 500, 1000, 0, 0, 0), gain |-> 500, sensitivity |-> 500],
   [traits |-> With(1000, 1000, 500, 1000, 1000, 0), gain |-> 2000, sensitivity |-> 0],
   [traits |-> With(0, 0, 0, 500, 1000, 1000), gain |-> 500, sensitivity |-> 1000]}

CueSets ==
  {{}, {"heat"}, {"calm", "bot_mediation"}, {"calm", "insult"}, {"insult", "apology"},
   {"insult", "bot_provocation"}}
  \cup {{t} : t \in EventTypes \ {"user_moderation"}}

\* Vocatives, recipient and group of a message.
Addressings ==
  {<<{}, None, FALSE>>, <<{}, None, TRUE>>, <<{Alias}, None, TRUE>>, <<{a}, None, TRUE>>,
   <<{b, Self}, None, TRUE>>, <<{}, Unknown, FALSE>>, <<{a}, Self, TRUE>>}

MessageFor(p, v, cues, way, charged) ==
  [speaker |-> p, verified |-> v, cues |-> cues, vocatives |-> way[1], recipient |-> way[2],
   group |-> way[3], charged |-> charged]

AllMessages ==
  {MessageFor(p, v, cues, way, "teasing" \in cues) :
     p \in {a, b}, v \in BOOLEAN, cues \in CueSets, way \in Addressings}

\* Cues that come only in a direct chat, or in a group when addressed to a.
PlainCues == {{"praise"}, {"support"}, {"disagreement"}, {"topic_steering"},
              {"reconciliation"}, {"leadership_challenge"}}

\* A verified sender matters to the two moderation cues only.
MCMessages ==
  {m \in AllMessages :
     /\ m.verified => m.cues \cap {"calm", "heat"} # {}
     /\ m.cues \in PlainCues => ~m.group \/ m.vocatives = {a}}

Judgement(event, target, to, confident, severity) ==
  [event |-> event, target |-> target, to |-> to, confident |-> confident,
   severity |-> severity]

MCVerdicts ==
  {Disabled, Failed,
   Judgement("none", "none", None, TRUE, 1000),
   Judgement("insult", "bot", Self, FALSE, 1000),
   Judgement("insult", "bot", Alias, TRUE, 1750),
   Judgement("insult", "bot", Unknown, TRUE, 1000),
   Judgement("apology", "participant", b, TRUE, 1000),
   Judgement("apology", "bot", Self, TRUE, 500),
   Judgement("frustration", "none", None, TRUE, 1750)}

Edit(scope, field, value, p) ==
  [scope |-> scope, field |-> field, value |-> value, participant |-> p]

MCEdits ==
  {Edit("affect", "offended", 1000, None), Edit("affect", "valence", 600, None),
   Edit("atmosphere", "atmosphere", 400, None), Edit("relationship", "tension", 300, b)}

-----------------------------------------------------------------------------

\* p has told "to" of a frustration.
Complaint(p, to) ==
  [type |-> "frustration", speaker |-> p, action |-> None, severity |-> 500,
   target |-> "participant", to |-> to, charged |-> FALSE]

\* Apply, with no time passed.
After(s, e, c) ==
  LET t == React(s, e, c)
  IN [t EXCEPT !.posture = DerivePosture(t, c, e, e.speaker), !.mood = DeriveMood(t)]

\* q and a have complained to each other.
FullHistory(c) == After(After(InitialState, Complaint(q, a), c), Complaint(a, q), c)

\* Init, or later in a session, when one turn is left.
MCInit ==
  /\ config \in Personalities
  /\ \/ state = InitialState /\ turns = 0
     \/ state = FullHistory(config) /\ turns = 1
  /\ idle = 0 /\ pending = None /\ edits = 0

MCSpec == MCInit /\ [][Next]_vars
=============================================================================
