-------------------------- MODULE AffectDynamics --------------------------
(***************************************************************************)
(* The v2 affect model: what one classified event, the passing of time and *)
(* a manual edit do to the values of a session, and the posture and mood   *)
(* read from them.                                                         *)
(*                                                                         *)
(* Values are whole thousandths: a float x of the code is x * Unit, and a  *)
(* product is rounded down.  The two exponentials appear as what the code  *)
(* uses them for: a decay factor is given by MoodFactor and RelationFactor *)
(* and the expression drive is compared through its argument.              *)
(***************************************************************************)
EXTENDS Integers, Sequences, FiniteSets

CONSTANTS
  Self,              \* bot_ids[0], the first identity of the bot
  Alias,             \* another identity of the same bot
  Participants,      \* stable identifiers of everybody else
  None,
  MoodFactor,        \* persistence -> hours -> factor of global_decay_factor
  RelationFactor,    \* persistence -> hours -> factor of relation_decay_factor
  SocialRecordLimit  \* 64 in domain/state.py

Unit == 1000

BotNames == {Self, Alias}
Everybody == Participants \cup BotNames

ASSUME IdentitiesType == Participants \cap BotNames = {} /\ None \notin Everybody
ASSUME LimitType == SocialRecordLimit \in Nat \ {0}

-----------------------------------------------------------------------------
(* Parameters and arithmetic.                                              *)

PositiveStep == 120
HumorStep == 100
FrictionStep == 100
HostilityStep == 240
RepairStep == 240
ModerationStep == 350
Floor == 250            \* TRAIT_FLOOR
SecondaryShare == 500
ActiveThreshold == 300
StrongThreshold == 650
StrategyThreshold == 450
StyleRate == 200

Mul(a, b) == (a * b) \div Unit
Half(a) == Mul(SecondaryShare, a)
Greater(a, b) == IF a > b THEN a ELSE b
Distance(a, b) == Greater(a - b, b - a)

\* clamp: a signed value lies in -Unit..Unit, an amount in 0..Unit.
Signed(x) == IF x > Unit THEN Unit ELSE IF x < -Unit THEN -Unit ELSE x
Amount(x) == IF x > Unit THEN Unit ELSE IF x < 0 THEN 0 ELSE x

-----------------------------------------------------------------------------
(* Session values and events.                                              *)

Traits == {"reactivity", "persistence", "pride", "playfulness", "assertiveness",
           "receptiveness"}

\* A resolved configuration: traits, expression_gain and the intensity of
\* the strongest sensitivity a charged message matches.
Personality == [Traits -> 0 .. Unit]
Configurations == [traits : Personality, gain : 0 .. 10 * Unit, sensitivity : 0 .. Unit]

EventTypes ==
  {"user_moderation", "apology", "reconciliation", "bot_mediation", "frustration",
   "bot_provocation", "insult", "leadership_challenge", "topic_steering", "teasing",
   "joke", "disagreement", "support", "praise"}

HostileEvents == {"insult", "bot_provocation", "leadership_challenge"}
RepairEvents == {"apology", "reconciliation", "bot_mediation"}
PositiveEvents == {"praise", "support", "joke"}

Severities == {500, 1000, 1750}  \* mild, normal, high

Events ==
  [type : EventTypes,
   speaker : Participants,
   action : {"calm", "heat", None},
   severity : Severities,
   target : {"bot", "participant", "none"},
   to : Everybody \cup {None},          \* target_id
   charged : BOOLEAN]                   \* attributes carry a sensitive topic

Postures ==
  {"normal", "warm", "playful", "mischievous", "terse", "guarded", "evasive",
   "topic_avoidance", "refusal", "counterattack", "reconciliation", "mediation",
   "topic_steering", "pass"}

Relations ==
  [trust : -Unit .. Unit, affinity : -Unit .. Unit, respect : -Unit .. Unit,
   irritation : 0 .. Unit, tension : 0 .. Unit, playful : 0 .. Unit]

Edges == [from : Participants, to : Everybody, tension : 0 .. Unit]
Records == [who : Participants, frustration : 0 .. Unit]

\* States with the keys known in "relationships" and open in "open_conflicts".
StatesOver(known, open) ==
  [valence : -Unit .. Unit, arousal : 0 .. Unit, frustration : 0 .. Unit,
   offended : 0 .. Unit, atmosphere : 0 .. Unit,
   mood : {"irritated", "open", "low", "neutral"},
   rel : [known -> Relations],                        \* relationships
   conflicts : [open -> 0 .. Unit],                   \* open_conflicts: heat
   edges : Seq(Edges),                                \* social_edges, oldest first
   observed : Seq(Records),                           \* observed_participants
   sensitive : BOOLEAN,                               \* active_sensitivities is not empty
   posture : Postures]

Stranger ==
  [trust |-> 0, affinity |-> 0, respect |-> 0, irritation |-> 0, tension |-> 0,
   playful |-> 500]

InitialState ==
  [valence |-> 0, arousal |-> 0, frustration |-> 0, offended |-> 0, atmosphere |-> 0,
   mood |-> "neutral", rel |-> [p \in {} |-> Stranger],
   conflicts |-> [p \in {} |-> 0], edges |-> <<>>, observed |-> <<>>, sensitive |-> FALSE, posture |-> "normal"]

Known(s) == DOMAIN s.rel

\* relationships.setdefault.
Meet(s, p) ==
  [s EXCEPT !.rel = [q \in DOMAIN @ \cup {p} |-> IF q \in DOMAIN @ THEN @[q] ELSE Stranger]]

-----------------------------------------------------------------------------
(* calculations.py.                                                        *)

\* Mutant of TraitFactor: no floor under the reaction.
TraitFactor_NoFloor(value) == value

TraitFactor(value) == Floor + Mul(Unit - Floor, value)

Reaction(c, e) == Mul(e.severity, TraitFactor(c.traits["reactivity"]))

SensitivityMultiplier(c, e) == Unit + (IF e.charged THEN c.sensitivity ELSE 0)

Credibility(r) == (2 * Unit + r.trust + r.respect) \div 4

SocialReceptivity(c, r) ==
  Mul(c.traits["receptiveness"], Mul(Credibility(r), Unit - Half(r.tension)))

RepairFactor(c, r) == TraitFactor(SocialReceptivity(c, r))

HumorCompatibility(c, r) == Unit - Distance(c.traits["playfulness"], r.playful)

Mischief(c) ==
  Mul(c.traits["playfulness"], Mul(c.traits["assertiveness"], Unit - c.traits["receptiveness"]))
ConflictAvoidance(c) == Mul(c.traits["reactivity"], Unit - c.traits["assertiveness"])
MediationDrive(c) == Mul(c.traits["receptiveness"], c.traits["assertiveness"])
AtmosphereSensitivity(c) ==
  TraitFactor((c.traits["reactivity"] + c.traits["pride"] + Unit - c.traits["assertiveness"])
              \div 3)

Intensity(s) ==
  Greater(Greater(Distance(s.valence, 0), s.arousal), Greater(s.frustration, s.offended))

\* effective_expression_drive is 1 - exp(-DriveExponent).
DriveExponent(s, c) == 2 * Mul(c.gain, Greater(Intensity(s), s.atmosphere))

\* -ln(1 - 0.65) and -ln(1 - 0.45) in thousandths.
StrongDrive(s, c) == DriveExponent(s, c) >= 1050
StrategyDrive(s, c) == DriveExponent(s, c) >= 598

-----------------------------------------------------------------------------
(* dynamics.py.                                                            *)

RefreshConflicts(s) ==
  [s EXCEPT !.conflicts =
     [p \in {q \in Known(s) : s.rel[q].tension > Half(PositiveStep)} |-> s.rel[p].tension]]

\* Mutant of Feel: arousal is not clamped.
Feel_Unclamped(s, valence, arousal, frustration, offended) ==
  [s EXCEPT !.valence = Signed(@ + valence), !.arousal = @ + arousal,
            !.frustration = Amount(@ + frustration), !.offended = Amount(@ + offended)]

\* _change.
Feel(s, valence, arousal, frustration, offended) ==
  [s EXCEPT !.valence = Signed(@ + valence), !.arousal = Amount(@ + arousal),
            !.frustration = Amount(@ + frustration), !.offended = Amount(@ + offended)]

\* _repair_relation.
Repaired(r, amount) ==
  [r EXCEPT !.irritation = Amount(@ - amount), !.tension = Amount(@ - amount)]

RepairEveryone(s, amount) ==
  [s EXCEPT !.rel = [p \in DOMAIN @ |-> Repaired(@[p], amount)]]

\* The tension of a social edge and the distress of an observed participant.
Strained(edge, amount) == [edge EXCEPT !.tension = Amount(@ + amount)]
Distressed(record, amount) == [record EXCEPT !.frustration = Amount(@ + amount)]

\* Verified moderation "calm": a fixed step on every channel.
Calm(s, c) ==
  LET step == ModerationStep IN
  [RepairEveryone(Feel(s, 0, -step, -step, -step), step) EXCEPT
     !.atmosphere = Amount(@ - step),
     !.edges = [k \in DOMAIN @ |-> Strained(@[k], -step)],
     !.observed = [k \in DOMAIN @ |-> Distressed(@[k], -step)]]

Heat(s) == Feel(s, 0, ModerationStep, Half(ModerationStep), 0)

Please(s, e, c) ==
  LET r == s.rel[e.speaker]
      amount == Mul(PositiveStep, Reaction(c, e))
      regarded == [r EXCEPT !.trust = Signed(r.trust + amount),
                            !.affinity = Signed(r.affinity + amount)]
  IN [Feel(s, amount, Half(amount), 0, 0) EXCEPT
        !.rel[e.speaker] = Repaired(regarded, Half(amount))]

Amuse(s, e, c) ==
  LET r == s.rel[e.speaker]
      amount == Mul(HumorStep, Reaction(c, e))
      fun == Mul(amount, c.traits["playfulness"])
  IN [Feel(s, fun, amount, Half(amount - fun), 0) EXCEPT
        !.rel[e.speaker] = [r EXCEPT !.affinity = Signed(r.affinity + fun)]]

Tease(s, e, c) ==
  LET r == s.rel[e.speaker]
      playfulness == c.traits["playfulness"]
      step == Mul(HumorStep, Reaction(c, e))
      compatibility == HumorCompatibility(c, r)
      misread == Mul(TraitFactor(Unit - playfulness), TraitFactor(c.traits["pride"]))
      friction == Mul(Mul(Mul(Mul(step, misread), 2 * Unit - compatibility),
                          SensitivityMultiplier(c, e)), Unit + r.tension)
      enjoyment == Mul(step, Mul(playfulness, compatibility))
  IN [Feel(s, enjoyment - friction, Greater(enjoyment, friction), friction,
           Mul(friction, c.traits["pride"])) EXCEPT
        !.rel[e.speaker] =
          [r EXCEPT !.affinity = Signed(r.affinity + enjoyment - friction),
                    !.irritation = Amount(r.irritation + friction),
                    !.tension = Amount(r.tension + Greater(0, friction - enjoyment))]]

Offend(s, e, c) ==
  LET r == s.rel[e.speaker]
      amount == Mul(HostilityStep, Reaction(c, e))
      softened == Unit - Half(SocialReceptivity(c, r))
      offense == Mul(Mul(Mul(Mul(amount, TraitFactor(c.traits["pride"])),
                             SensitivityMultiplier(c, e)), softened), Unit + r.tension)
  IN [Feel(s, -amount, amount, amount, offense) EXCEPT
        !.rel[e.speaker] =
          [r EXCEPT !.irritation = Amount(r.irritation + amount),
                    !.tension = Amount(r.tension + offense),
                    !.trust = Signed(r.trust - Half(offense)),
                    !.respect = Signed(r.respect - Half(offense)),
                    !.affinity = Signed(r.affinity - offense)]]

Disagree(s, e, c) ==
  LET amount == Mul(FrictionStep, Reaction(c, e)) IN Feel(s, 0, amount, Half(amount), 0)

\* Mutant of Reconcile: mediation raises the regard for everyone it reaches.
Reconcile_RegardAll(s, e, c) ==
  LET amount == Mul(RepairStep, Mul(Reaction(c, e), RepairFactor(c, s.rel[e.speaker])))
      felt == Feel(s, Half(amount), -amount, -amount, -amount)
      calmed == RepairEveryone(felt, amount)
  IN IF e.type = "bot_mediation"
     THEN [calmed EXCEPT !.rel = [p \in DOMAIN @ |->
             [@[p] EXCEPT !.respect = Signed(@ + amount)]]]
     ELSE [felt EXCEPT !.rel[e.speaker] =
             Repaired([@ EXCEPT !.trust = Signed(@ + Half(amount))], amount)]

\* Mediation calms every relationship, an apology the speaker's.
Reconcile(s, e, c) ==
  LET r == s.rel[e.speaker]
      amount == Mul(RepairStep, Mul(Reaction(c, e), RepairFactor(c, r)))
      felt == Feel(s, Half(amount), -amount, -amount, -amount)
  IN IF e.type = "bot_mediation"
     THEN [RepairEveryone(felt, amount) EXCEPT !.rel[e.speaker] =
             Repaired([r EXCEPT !.respect = Signed(r.respect + amount)], amount)]
     ELSE [felt EXCEPT !.rel[e.speaker] =
             Repaired([r EXCEPT !.trust = Signed(r.trust + Half(amount))], amount)]

Steer(s, e, c) ==
  LET r == s.rel[e.speaker] IN
  [s EXCEPT !.rel[e.speaker] =
     [r EXCEPT !.respect = Signed(r.respect + Half(Mul(PositiveStep, Reaction(c, e))))]]

\* The branches of apply_event; "frustration" changes nothing personal.
Impact(s, e, c) ==
  CASE e.type = "user_moderation" -> IF e.action = "calm" THEN Calm(s, c) ELSE Heat(s)
    [] e.type \in {"praise", "support"} -> Please(s, e, c)
    [] e.type = "joke" -> Amuse(s, e, c)
    [] e.type = "teasing" -> Tease(s, e, c)
    [] e.type \in HostileEvents -> Offend(s, e, c)
    [] e.type = "disagreement" -> Disagree(s, e, c)
    [] e.type \in RepairEvents -> Reconcile(s, e, c)
    [] e.type = "topic_steering" -> Steer(s, e, c)
    [] OTHER -> s

ApplyEvent(s, e, c) == RefreshConflicts(Impact(Meet(s, e.speaker), e, c))

FadedRelation(r, factor) ==
  [r EXCEPT !.irritation = Mul(@, factor), !.tension = Mul(@, factor)]
FadedEdge(edge, factor) == [edge EXCEPT !.tension = Mul(@, factor)]
FadedRecord(record, factor) == [record EXCEPT !.frustration = Mul(@, factor)]

\* decay_state.  With no time passed only the projection is refreshed.
Decay(s, c, hours) ==
  LET mood == MoodFactor[c.traits["persistence"]][hours]
      social == RelationFactor[c.traits["persistence"]][hours]
      \* A signed value decays towards zero.
      Shrink(v) == IF v < 0 THEN -Mul(-v, mood) ELSE Mul(v, mood)
      faded ==
        [s EXCEPT
           !.valence = Shrink(@), !.arousal = Mul(@, mood), !.frustration = Mul(@, mood),
           !.offended = Mul(@, mood), !.atmosphere = Mul(@, mood),
           !.rel = [p \in DOMAIN @ |-> FadedRelation(@[p], social)],
           !.edges = [k \in DOMAIN @ |-> FadedEdge(@[k], social)],
           !.observed = [k \in DOMAIN @ |-> FadedRecord(@[k], mood)]]
  IN RefreshConflicts(IF hours = 0 THEN s ELSE faded)

-----------------------------------------------------------------------------
(* relationships.py: what an exchange shows, whoever it is between.        *)

\* The one observed style the model reads.
ObserveStyle(r, type) ==
  LET signal == IF type \in {"joke", "teasing"} THEN Unit ELSE 0
  IN [r EXCEPT !.playful = @ + Mul(StyleRate, signal - @)]

\* The change an exchange makes to perceived tension.
Tension(e, c) ==
  LET perceived == Mul(Mul(HostilityStep, e.severity), AtmosphereSensitivity(c))
  IN CASE e.type \in HostileEvents \cup {"frustration"} -> perceived
       [] e.type = "teasing" -> Mul(perceived, Unit - c.traits["playfulness"])
       [] e.type \in RepairEvents -> -Mul(RepairStep, e.severity)
       [] e.type \in PositiveEvents -> -Mul(PositiveStep, e.severity)
       [] OTHER -> 0

\* Mutant of Newest: a full list takes nothing new.
Newest_KeepsOldest(seq) ==
  IF Len(seq) <= SocialRecordLimit THEN seq ELSE SubSeq(seq, 1, SocialRecordLimit)

Newest(seq) ==
  IF Len(seq) <= SocialRecordLimit THEN seq
  ELSE SubSeq(seq, Len(seq) - SocialRecordLimit + 1, Len(seq))

\* Mutant of Directed: an edge seen again is appended once more.
Directed_Duplicates(edges, e, c) ==
  IF e.to = None \/ e.to = e.speaker THEN edges
  ELSE Newest(Append(edges, [from |-> e.speaker, to |-> e.to,
                             tension |-> Amount(Tension(e, c))]))

\* The edge from the speaker to the addressee moves to the end; a repair
\* also lowers the opposite edge.
Directed(edges, e, c) ==
  LET seen == {k \in DOMAIN edges : edges[k].from = e.speaker /\ edges[k].to = e.to}
      first == CHOOSE k \in seen : \A j \in seen : k <= j
      before == IF seen = {} THEN 0 ELSE edges[first].tension
      others == IF seen = {} THEN edges
                ELSE SubSeq(edges, 1, first - 1) \o SubSeq(edges, first + 1, Len(edges))
      moved == Append(others, [from |-> e.speaker, to |-> e.to,
                               tension |-> Amount(before + Tension(e, c))])
      Eased(d) == IF e.type \in RepairEvents /\ d.from = e.to /\ d.to = e.speaker
                  THEN Strained(d, Tension(e, c)) ELSE d
  IN IF e.to = None \/ e.to = e.speaker THEN edges
     ELSE Newest([k \in DOMAIN moved |-> Eased(moved[k])])

\* Only expressed frustration raises an estimate of distress.
Distress(observed, e) ==
  LET Step == IF e.type = "frustration" THEN Mul(e.severity, HostilityStep)
              ELSE IF e.type \in RepairEvents THEN -Mul(RepairStep, e.severity)
              ELSE 0
      known == \E k \in DOMAIN observed : observed[k].who = e.speaker
      present == IF e.type = "frustration" /\ ~known
                 THEN Append(observed, [who |-> e.speaker, frustration |-> 0])
                 ELSE observed
  IN Newest([k \in DOMAIN present |->
               IF present[k].who = e.speaker
               THEN Distressed(present[k], Step)
               ELSE present[k]])

ObserveExchange(s, e, c) ==
  [Meet(s, e.speaker) EXCEPT
     !.rel[e.speaker] = ObserveStyle(@, e.type),
     !.atmosphere = Amount(@ + Tension(e, c)),
     !.edges = Directed(@, e, c),
     !.observed = Distress(@, e)]

-----------------------------------------------------------------------------
(* posture.py and derive_mood.                                             *)

Upset(s) == Greater(s.frustration, s.offended)

\* Group tension can lead to mediation or avoidance.
GroupPosture(s, c, personal) ==
  IF s.atmosphere <= ActiveThreshold THEN None
  ELSE IF MediationDrive(c) > StrategyThreshold /\ ~personal THEN "mediation"
  ELSE IF ConflictAvoidance(c) > StrategyThreshold THEN "topic_avoidance"
  ELSE None

ConflictPosture(s, c) ==
  LET assertive == c.traits["assertiveness"] >= SecondaryShare IN
  CASE assertive /\ StrongDrive(s, c) -> "counterattack"
    [] ~assertive /\ s.offended > StrongThreshold -> "refusal"
    [] ~assertive /\ s.offended <= StrongThreshold /\ ~StrategyDrive(s, c) -> "evasive"
    [] OTHER -> "guarded"

OwnPosture(s, c) ==
  IF Upset(s) > StrongThreshold THEN "terse"
  ELSE IF s.frustration > ActiveThreshold THEN "guarded"
  ELSE IF s.valence > ActiveThreshold
       THEN IF c.traits["playfulness"] > SecondaryShare THEN "playful" ELSE "warm"
  ELSE "normal"

\* Mutant of DerivePosture: an open conflict with anybody counts.
DerivePosture_AnyConflict(s, c, e, speaker) ==
  LET personal == e = None \/ e.target # "participant"
      group == GroupPosture(s, c, personal)
  IN IF e # None /\ e.type = "user_moderation" /\ e.action = "calm" THEN "pass"
     ELSE IF group # None THEN group
     ELSE IF personal /\ DOMAIN s.conflicts # {} /\ Upset(s) > ActiveThreshold
          THEN ConflictPosture(s, c)
     ELSE OwnPosture(s, c)

DerivePosture(s, c, e, speaker) ==
  LET personal == e = None \/ e.target # "participant"
      Of(types) == e # None /\ personal /\ e.type \in types
      group == GroupPosture(s, c, personal)
      upset == Upset(s) > ActiveThreshold
  IN IF e # None /\ e.type = "user_moderation" /\ e.action = "calm" THEN "pass"
     ELSE IF Of({"apology", "reconciliation"}) THEN "reconciliation"
     ELSE IF Of({"bot_mediation"}) THEN "mediation"
     ELSE IF Of({"topic_steering"}) THEN "topic_steering"
     ELSE IF group # None THEN group
     ELSE IF personal /\ s.sensitive /\ upset THEN "topic_avoidance"
     ELSE IF personal /\ speaker \in DOMAIN s.conflicts /\ upset THEN ConflictPosture(s, c)
     ELSE IF Of({"joke", "teasing", "disagreement"}) /\ Mischief(c) > StrategyThreshold
          THEN "mischievous"
     ELSE OwnPosture(s, c)

DeriveMood(s) ==
  IF Upset(s) > ActiveThreshold THEN "irritated"
  ELSE IF s.valence > ActiveThreshold THEN "open"
  ELSE IF s.valence < -ActiveThreshold THEN "low"
  ELSE "neutral"
=============================================================================
