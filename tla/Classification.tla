-------------------------- MODULE Classification --------------------------
(***************************************************************************)
(* From a delivered message to at most one event with a resolved target:   *)
(* the deterministic rules, the arbitration with the semantic result and   *)
(* the routing.                                                            *)
(*                                                                         *)
(* A message is reduced to what the rules find in it.  Its cues are the    *)
(* event types whose patterns match, with "calm" and "heat" for the two    *)
(* patterns of moderation; who is a vocative or a recipient is already     *)
(* resolved to an identity, or Unknown when it names nobody or several.    *)
(***************************************************************************)
EXTENDS AffectDynamics

CONSTANTS
  BotPeers,  \* participants the host delivers with sender_kind "bot"
  Unknown,   \* a name that does not resolve to exactly one participant
  Disabled,  \* the semantic classifier is off
  Failed,    \* an invalid result, a provider error or a timeout
  Fallback   \* semantic_classifier.fallback: "ignore" or "deterministic"

ASSUME PeersType == BotPeers \subseteq Participants
ASSUME OutcomesFresh == Disabled # Failed
ASSUME UnknownFresh == Unknown \notin Everybody \cup {None}
ASSUME FallbackType == Fallback \in {"ignore", "deterministic"}

MessageRecords ==
  [speaker : Participants,
   verified : BOOLEAN,                           \* verified_user of the host
   cues : SUBSET (EventTypes \cup {"calm", "heat"}),
   vocatives : SUBSET Everybody,                 \* participants the text opens with
   recipient : Everybody \cup {Unknown, None},   \* target_id or recipient_id
   group : BOOLEAN,                              \* is_group or several participants
   charged : BOOLEAN]                            \* a sensitive topic occurs

\* What the semantic classifier comes back with.  A result is kept only
\* when it has the exact fields, and a target_id exactly for a target that
\* is the bot or a participant.
Results ==
  {r \in [event : (EventTypes \ {"user_moderation"}) \cup {"none"},
          target : {"bot", "participant", "none", "unknown"},
          to : Everybody \cup {Unknown, None},
          confident : BOOLEAN,                   \* confidence >= min_confidence
          severity : Severities] :
     (r.to = None) <=> (r.target \in {"none", "unknown"})}

Outcomes == {Disabled, Failed} \cup Results

-----------------------------------------------------------------------------
(* EventClassifier.classify and normalize_events.                          *)

MayModerate(m) == m.verified /\ m.speaker \notin BotPeers

Moderates(m) == MayModerate(m) /\ m.cues \cap {"calm", "heat"} # {}

Found(m) ==
  (m.cues \cap (EventTypes \ {"user_moderation", "bot_mediation", "bot_provocation"}))
  \cup (IF m.speaker \in BotPeers THEN m.cues \cap {"bot_mediation", "bot_provocation"} ELSE {})
  \cup (IF Moderates(m) THEN {"user_moderation"} ELSE {})

\* Mutant of Priority: hostile signals come before authority.
Priority_HostileFirst ==
  <<"bot_provocation", "insult", "leadership_challenge", "user_moderation", "apology",
    "reconciliation", "bot_mediation", "frustration", "topic_steering", "teasing", "joke",
    "disagreement", "support", "praise">>

Priority ==
  <<"user_moderation", "apology", "reconciliation", "bot_mediation", "frustration",
    "bot_provocation", "insult", "leadership_challenge", "topic_steering", "teasing", "joke",
    "disagreement", "support", "praise">>

\* The event that ranks first, as a set of at most one.
Dominant(types) ==
  {Priority[k] : k \in {k \in DOMAIN Priority :
     Priority[k] \in types /\ \A j \in 1 .. k - 1 : Priority[j] \notin types}}

Candidates(m) ==
  {[type |-> type, source |-> "deterministic", severity |-> 1000, target |-> "unknown",
    to |-> None,
    action |-> IF type # "user_moderation" THEN None
               ELSE IF "calm" \in m.cues THEN "calm" ELSE "heat"] : type \in Dominant(Found(m))}

-----------------------------------------------------------------------------
(* arbitrate_classifications.                                              *)

Judged(r) ==
  [type |-> r.event, source |-> "semantic", severity |-> r.severity, target |-> r.target,
   to |-> r.to, action |-> None]

\* A confident result counts when its target resolves; distress also
\* counts without one.
Accepted(r) ==
  /\ r.confident
  /\ r.event # "none"
  /\ \/ r.event = "frustration" /\ r.target = "none"
     \/ r.target = "participant" /\ r.to \in Participants
     \/ r.target = "bot" /\ r.to \in BotNames

Arbitrate(candidates, outcome) ==
  LET authoritative == {e \in candidates : e.type = "user_moderation"} IN
  IF authoritative # {} THEN authoritative
  ELSE IF outcome = Disabled THEN candidates
  ELSE IF outcome = Failed
       THEN IF Fallback = "deterministic" THEN candidates ELSE {}
  ELSE IF Accepted(outcome) THEN {Judged(outcome)} ELSE {}

-----------------------------------------------------------------------------
(* route_events.                                                           *)

\* The single addressee of a deterministic event: its explicit recipient or,
\* without one, the only participant the text opens with.
Addressee(m) ==
  LET named == {IF p \in BotNames THEN Self ELSE p : p \in m.vocatives} IN
  IF m.recipient \in BotNames THEN Self
  ELSE IF m.recipient # None THEN m.recipient
  ELSE IF Cardinality(named) = 1 THEN CHOOSE p \in named : TRUE
  ELSE None

\* Mutant of Resolve: an explicit recipient nobody knows is passed over.
Resolve_UnknownPersonal(e, m) ==
  LET to == Addressee(m)
      Sent(target, id) == {[e EXCEPT !.target = target, !.to = id]}
  IN IF to \in Participants THEN Sent("participant", to)
     ELSE IF m.group /\ to # Self
          THEN IF e.type = "frustration" THEN Sent("participant", None) ELSE {}
     ELSE Sent("bot", Self)

\* A deterministic event with no addressee is personal in a direct chat,
\* and in a group only evidence of distress is kept.
Resolve(e, m) ==
  LET to == Addressee(m)
      Sent(target, id) == {[e EXCEPT !.target = target, !.to = id]}
  IN CASE to = Unknown -> {}
       [] to = Self -> Sent("bot", Self)
       [] to \in Participants -> Sent("participant", to)
       [] to = None /\ ~m.group -> Sent("bot", Self)
       [] to = None /\ m.group /\ e.type = "frustration" -> Sent("participant", None)
       [] OTHER -> {}

Routed(e, m) ==
  LET resolved == IF e.type = "user_moderation"
                  THEN {[e EXCEPT !.target = "bot", !.to = Self]}
                  ELSE IF e.source = "deterministic" THEN Resolve(e, m) ELSE {e}
  IN {[type |-> d.type, speaker |-> m.speaker, action |-> d.action, severity |-> d.severity,
       target |-> d.target, to |-> d.to,
       charged |-> m.charged /\ d.target = "bot" /\ d.type # "user_moderation"] :
        d \in resolved}

\* The whole way, from the message and the semantic outcome to the event.
\* The semantic classifier is not asked about a moderation.
Heard(m, outcome) ==
  LET events == IF Moderates(m) THEN Candidates(m) ELSE Arbitrate(Candidates(m), outcome)
  IN UNION {Routed(e, m) : e \in events}
=============================================================================
