------------------------- MODULE TurnPipelineProofs -------------------------
(***************************************************************************)
(* Proofs about TurnPipeline, for any participants, messages, personalities *)
(* (with any decay factors), edits and bounds.                             *)
(***************************************************************************)
EXTENDS TurnPipeline, AffectDynamicsProofs, FiniteSetTheorems

-----------------------------------------------------------------------------
(* From a message to at most one event.                                    *)

Judgements ==
  [type : EventTypes, source : {"deterministic", "semantic"}, severity : Severities,
   target : {"bot", "participant", "none", "unknown"}, to : Everybody \cup {Unknown, None},
   action : {"calm", "heat", None}]

AllEqual(S) == \A x, y \in S : x = y

LEMMA DominantIs ==
  ASSUME NEW types
  PROVE  /\ Dominant(types) \subseteq types /\ AllEqual(Dominant(types))
         /\ "user_moderation" \in types => Dominant(types) = {"user_moderation"}
<1>1. DOMAIN Priority = 1 .. 14 /\ Priority[1] = "user_moderation"
  BY DEF Priority
<1>2. Dominant(types) \subseteq types
  BY DEF Dominant
<1>3. AllEqual(Dominant(types))
  <2> SUFFICES ASSUME NEW k \in 1 .. 14, NEW j \in 1 .. 14,
                      Priority[k] \in types, \A i \in 1 .. k - 1 : Priority[i] \notin types,
                      Priority[j] \in types, \A i \in 1 .. j - 1 : Priority[i] \notin types
               PROVE  Priority[k] = Priority[j]
    BY <1>1 DEF AllEqual, Dominant
  <2>1. ~(k < j) /\ ~(j < k)
    OBVIOUS
  <2>2. k = j
    BY <2>1
  <2> QED BY <2>2
<1>4. ASSUME "user_moderation" \in types
      PROVE  Dominant(types) = {"user_moderation"}
  <2>1. \A i \in 1 .. 1 - 1 : Priority[i] \notin types
    OBVIOUS
  <2>2. 1 \in {k \in DOMAIN Priority :
                 Priority[k] \in types /\ \A i \in 1 .. k - 1 : Priority[i] \notin types}
    BY <1>1, <1>4, <2>1
  <2>3. "user_moderation" \in Dominant(types)
    BY <1>1, <2>2 DEF Dominant
  <2> QED BY <1>3, <2>3 DEF AllEqual
<1> QED BY <1>2, <1>3, <1>4

LEMMA FoundIs ==
  ASSUME NEW m \in MessageRecords
  PROVE  /\ Found(m) \subseteq EventTypes
         /\ "user_moderation" \in Found(m) <=> Moderates(m)
<1>1. "user_moderation" \in EventTypes /\ "bot_mediation" \in EventTypes
      /\ "bot_provocation" \in EventTypes
  BY DEF EventTypes
<1> QED BY <1>1 DEF Found

LEMMA CandidatesAre ==
  ASSUME NEW m \in MessageRecords
  PROVE  /\ AllEqual(Candidates(m))
         /\ \A d \in Candidates(m) :
              /\ d \in Judgements /\ d.source = "deterministic"
              /\ d.type = "user_moderation" <=> Moderates(m)
         /\ Moderates(m) => Candidates(m) # {}
<1> DEFINE Candidate(type) ==
             [type |-> type, source |-> "deterministic", severity |-> 1000, target |-> "unknown",
              to |-> None,
              action |-> IF type # "user_moderation" THEN None
                         ELSE IF "calm" \in m.cues THEN "calm" ELSE "heat"]
           types == Dominant(Found(m))
<1>1. Candidates(m) = {Candidate(type) : type \in types}
  BY DEF Candidates
<1>2. /\ types \subseteq EventTypes /\ AllEqual(types)
      /\ Moderates(m) => types = {"user_moderation"}
      /\ ~Moderates(m) => "user_moderation" \notin types
  BY FoundIs, DominantIs
<1>3. \A type \in EventTypes : Candidate(type) \in Judgements
  BY DEF Judgements, Severities
<1>4. \A type \in types : Candidate(type).type = type /\ Candidate(type).source = "deterministic"
  OBVIOUS
<1> HIDE DEF Candidate, types
<1>5. AllEqual(Candidates(m))
  BY <1>1, <1>2 DEF AllEqual
<1> QED BY <1>1, <1>2, <1>3, <1>4, <1>5

LEMMA JudgedIs ==
  ASSUME NEW r \in Results, Accepted(r)
  PROVE  /\ Judged(r) \in Judgements /\ Judged(r).source = "semantic"
         /\ Judged(r).type # "user_moderation"
         /\ Judged(r).target \in {"bot", "participant", "none"}
         /\ Judged(r).to \in Everybody \cup {None}
<1>1. /\ r.event \in (EventTypes \ {"user_moderation"}) \cup {"none"}
      /\ r.target \in {"bot", "participant", "none", "unknown"}
      /\ r.to \in Everybody \cup {Unknown, None} /\ r.severity \in Severities
      /\ (r.to = None) <=> (r.target \in {"none", "unknown"})
  BY DEF Results
<1>2. r.event \in EventTypes /\ r.event # "user_moderation"
  BY <1>1 DEF Accepted, EventTypes
<1>3. r.target \in {"bot", "participant", "none"} /\ r.to \in Everybody \cup {None}
  BY <1>1 DEF Accepted, Everybody
<1> QED BY <1>1, <1>2, <1>3 DEF Judged, Judgements

LEMMA ArbitrateIs ==
  ASSUME NEW m \in MessageRecords, NEW outcome \in Outcomes, ~Moderates(m)
  PROVE  LET found == Arbitrate(Candidates(m), outcome) IN
         /\ AllEqual(found)
         /\ \A d \in found :
              /\ d \in Judgements /\ d.type # "user_moderation"
              /\ \/ d.source = "deterministic"
                 \/ /\ outcome \notin {Disabled, Failed}
                    /\ d.source = "semantic" /\ d.target \in {"bot", "participant", "none"}
                    /\ d.to \in Everybody \cup {None}
<1>1. {d \in Candidates(m) : d.type = "user_moderation"} = {}
  BY CandidatesAre
<1>2. \A d \in Candidates(m) : d \in Judgements /\ d.source = "deterministic"
                               /\ d.type # "user_moderation"
  BY CandidatesAre
<1>3. AllEqual(Candidates(m)) /\ AllEqual({})
  BY CandidatesAre DEF AllEqual
<1>4. CASE outcome \in {Disabled, Failed}
  <2>1. Arbitrate(Candidates(m), outcome) \in {Candidates(m), {}}
    BY <1>1, <1>4 DEF Arbitrate
  <2> QED BY <1>2, <1>3, <2>1
<1>5. CASE outcome \notin {Disabled, Failed}
  <2>1. outcome \in Results
    BY <1>5 DEF Outcomes
  <2>2. Arbitrate(Candidates(m), outcome) = IF Accepted(outcome) THEN {Judged(outcome)} ELSE {}
    BY <1>1, <1>5 DEF Arbitrate
  <2> QED BY <1>3, <1>5, <2>1, <2>2, JudgedIs DEF AllEqual
<1> QED BY <1>4, <1>5

\* A deterministic event goes to one addressee or to nobody; without a
\* resolved one in a group it is never personal.
LEMMA ResolveIs ==
  ASSUME NEW d \in Judgements, NEW m \in MessageRecords
  PROVE  \/ Resolve(d, m) = {}
         \/ \E target \in {"bot", "participant"}, to \in Everybody \cup {None} :
              /\ Resolve(d, m) = {[d EXCEPT !.target = target, !.to = to]}
              /\ Unresolved(m) => target = "participant"
<1> DEFINE to == Addressee(m)
<1>1. Self \in Everybody /\ Self # Unknown /\ Self # None /\ Unknown # None
      /\ None \notin Participants /\ Unknown \notin Participants /\ Self \notin Participants
      /\ Participants \subseteq Everybody
  BY IdentitiesType, UnknownFresh DEF Everybody, BotNames
<1>2. Unresolved(m) <=> to = Unknown \/ (to = None /\ m.group)
  BY DEF Unresolved
<1>3. Resolve(d, m) =
        CASE to = Unknown -> {}
          [] to = Self -> {[d EXCEPT !.target = "bot", !.to = Self]}
          [] to \in Participants -> {[d EXCEPT !.target = "participant", !.to = to]}
          [] to = None /\ ~m.group -> {[d EXCEPT !.target = "bot", !.to = Self]}
          [] to = None /\ m.group /\ d.type = "frustration" ->
               {[d EXCEPT !.target = "participant", !.to = None]}
          [] OTHER -> {}
  BY DEF Resolve
<1> HIDE DEF to
<1>4. CASE to = Unknown
  BY <1>1, <1>3, <1>4
<1>5. CASE to = Self
  BY <1>1, <1>2, <1>3, <1>5
<1>6. CASE to \in Participants
  BY <1>1, <1>2, <1>3, <1>6
<1>7. CASE to = None /\ ~m.group
  BY <1>1, <1>2, <1>3, <1>7
<1>8. CASE to = None /\ m.group /\ d.type = "frustration"
  BY <1>1, <1>2, <1>3, <1>8
<1>9. CASE ~(to = None /\ ~m.group) /\ ~(to = None /\ m.group /\ d.type = "frustration")
           /\ to \notin Participants /\ to # Self /\ to # Unknown
  BY <1>1, <1>3, <1>9
<1> QED BY <1>4, <1>5, <1>6, <1>7, <1>8, <1>9

LEMMA RoutedIs ==
  ASSUME NEW d \in Judgements, NEW m \in MessageRecords,
         d.source = "deterministic"
           \/ (d.target \in {"bot", "participant", "none"} /\ d.to \in Everybody \cup {None})
  PROVE  /\ AllEqual(Routed(d, m))
         /\ \A e \in Routed(d, m) :
              /\ e \in Events /\ e.speaker = m.speaker /\ e.type = d.type
              /\ e.type = "user_moderation" => e.target = "bot"
              /\ e.type # "user_moderation" /\ d.source = "deterministic" /\ Unresolved(m)
                   => e.target = "participant"
         /\ d.type = "user_moderation" => Routed(d, m) # {}
<1> DEFINE Event(x) ==
             [type |-> x.type, speaker |-> m.speaker, action |-> x.action, severity |-> x.severity,
              target |-> x.target, to |-> x.to,
              charged |-> m.charged /\ x.target = "bot" /\ x.type # "user_moderation"]
           resolved == IF d.type = "user_moderation"
                       THEN {[d EXCEPT !.target = "bot", !.to = Self]}
                       ELSE IF d.source = "deterministic" THEN Resolve(d, m) ELSE {d}
<1>1. Routed(d, m) = {Event(x) : x \in resolved}
  BY DEF Routed
<1>2. Self \in Everybody
  BY DEF Everybody, BotNames
<1>3. /\ AllEqual(resolved)
      /\ \A x \in resolved :
           /\ x \in Judgements /\ x.type = d.type
           /\ x.target \in {"bot", "participant", "none"} /\ x.to \in Everybody \cup {None}
           /\ d.type = "user_moderation" => x.target = "bot"
           /\ d.type # "user_moderation" /\ d.source = "deterministic" /\ Unresolved(m)
                => x.target = "participant"
      /\ d.type = "user_moderation" => resolved # {}
  <2>2. CASE d.type = "user_moderation"
    <3>1. resolved = {[d EXCEPT !.target = "bot", !.to = Self]}
      BY <2>2
    <3> DEFINE x == [d EXCEPT !.target = "bot", !.to = Self]
    <3>2. x \in Judgements /\ x.type = d.type /\ x.target = "bot" /\ x.to \in Everybody
      BY <1>2 DEF Judgements
    <3>3. resolved = {x}
      BY <3>1
    <3> HIDE DEF resolved, x
    <3> QED BY <2>2, <3>2, <3>3 DEF AllEqual
  <2>3. CASE d.type # "user_moderation" /\ d.source = "deterministic"
    <3>1. resolved = Resolve(d, m)
      BY <2>3
    <3> HIDE DEF resolved
    <3>2. CASE resolved = {}
      BY <2>3, <3>2 DEF AllEqual
    <3>3. CASE resolved # {}
      <4>1. PICK target \in {"bot", "participant"}, to \in Everybody \cup {None} :
              /\ resolved = {[d EXCEPT !.target = target, !.to = to]}
              /\ Unresolved(m) => target = "participant"
        BY <3>1, <3>3, ResolveIs
      <4> DEFINE x == [d EXCEPT !.target = target, !.to = to]
      <4>2. x \in Judgements /\ x.type = d.type /\ x.target = target /\ x.to = to
        BY DEF Judgements
      <4>3. resolved = {x}
        BY <4>1
      <4> HIDE DEF x
      <4> QED BY <2>3, <4>1, <4>2, <4>3 DEF AllEqual
    <3> QED BY <3>2, <3>3
  <2>4. CASE d.type # "user_moderation" /\ d.source # "deterministic"
    <3>1. resolved = {d}
      BY <2>4
    <3> HIDE DEF resolved
    <3> QED BY <2>4, <3>1 DEF AllEqual
  <2> QED BY <2>2, <2>3, <2>4
<1> HIDE DEF resolved
<1>4. ASSUME NEW x \in resolved
      PROVE  /\ Event(x) \in Events /\ Event(x).speaker = m.speaker /\ Event(x).type = x.type
             /\ Event(x).target = x.target
  <2>1. /\ x.type \in EventTypes /\ x.severity \in Severities
        /\ x.action \in {"calm", "heat", None} /\ m.speaker \in Participants
        /\ x.target \in {"bot", "participant", "none"} /\ x.to \in Everybody \cup {None}
    BY <1>3, <1>4 DEF Judgements, MessageRecords
  <2>2. (m.charged /\ x.target = "bot" /\ x.type # "user_moderation") \in BOOLEAN
    OBVIOUS
  <2> QED BY <2>1, <2>2 DEF Events
<1> HIDE DEF Event
<1>5. AllEqual(Routed(d, m))
  BY <1>1, <1>3 DEF AllEqual
<1>6. d.type = "user_moderation" => Routed(d, m) # {}
  BY <1>1, <1>3
<1>7. \A e \in Routed(d, m) :
              /\ e \in Events /\ e.speaker = m.speaker /\ e.type = d.type
              /\ e.type = "user_moderation" => e.target = "bot"
              /\ e.type # "user_moderation" /\ d.source = "deterministic" /\ Unresolved(m)
                   => e.target = "participant"
  <2> SUFFICES ASSUME NEW x \in resolved
               PROVE  LET e == Event(x) IN
                      /\ e \in Events /\ e.speaker = m.speaker /\ e.type = d.type
                      /\ e.type = "user_moderation" => e.target = "bot"
                      /\ e.type # "user_moderation" /\ d.source = "deterministic" /\ Unresolved(m)
                           => e.target = "participant"
    BY <1>1
  <2> QED BY <1>3, <1>4
<1> QED BY <1>5, <1>6, <1>7

\* A message is heard as at most one event of its speaker; as an intervention
\* exactly when it moderates; and, when nobody in particular was resolved and
\* no semantic result counts, as nothing personal.
LEMMA HeardIs ==
  ASSUME NEW m \in MessageRecords, NEW outcome \in Outcomes
  PROVE  LET heard == Heard(m, outcome) IN
         /\ heard \subseteq Events /\ AllEqual(heard)
         /\ \A e \in heard : /\ e.speaker = m.speaker
                             /\ e.type = "user_moderation" => e.target = "bot"
         /\ Moderates(m) <=> \E e \in heard : e.type = "user_moderation"
         /\ Unresolved(m) /\ outcome \in {Disabled, Failed} /\ ~Moderates(m)
              => \A e \in heard : e.target = "participant"
<1> DEFINE found == IF Moderates(m) THEN Candidates(m) ELSE Arbitrate(Candidates(m), outcome)
           heard == Heard(m, outcome)
<1>1. heard = UNION {Routed(d, m) : d \in found}
  BY DEF Heard
<1>2. /\ AllEqual(found)
      /\ \A d \in found :
           /\ d \in Judgements /\ (d.type = "user_moderation" <=> Moderates(m))
           /\ \/ d.source = "deterministic"
              \/ /\ outcome \notin {Disabled, Failed}
                 /\ d.target \in {"bot", "participant", "none"} /\ d.to \in Everybody \cup {None}
      /\ Moderates(m) => found # {}
  <2>1. CASE Moderates(m)
    BY <2>1, CandidatesAre
  <2>2. CASE ~Moderates(m)
    BY <2>2, ArbitrateIs
  <2> QED BY <2>1, <2>2
<1> HIDE DEF found
<1>3. \A d \in found :
        /\ AllEqual(Routed(d, m))
        /\ \A e \in Routed(d, m) :
              /\ e \in Events /\ e.speaker = m.speaker /\ e.type = d.type
              /\ e.type = "user_moderation" => e.target = "bot"
              /\ e.type # "user_moderation" /\ d.source = "deterministic" /\ Unresolved(m)
                   => e.target = "participant"
        /\ d.type = "user_moderation" => Routed(d, m) # {}
  BY <1>2, RoutedIs
<1> HIDE DEF heard
<1>4. AllEqual(heard)
  BY <1>1, <1>2, <1>3 DEF AllEqual
<1>5. heard \subseteq Events
      /\ \A e \in heard : e.speaker = m.speaker /\ (e.type = "user_moderation" => e.target = "bot")
  BY <1>1, <1>3
<1>6. Moderates(m) <=> \E e \in heard : e.type = "user_moderation"
  BY <1>1, <1>2, <1>3
<1>7. Unresolved(m) /\ outcome \in {Disabled, Failed} /\ ~Moderates(m)
        => \A e \in heard : e.target = "participant"
  BY <1>1, <1>2, <1>3
<1> QED BY <1>4, <1>5, <1>6, <1>7 DEF heard

-----------------------------------------------------------------------------
(* What a turn does to the values.                                         *)

LEMMA SetSensitive ==
  ASSUME NEW s, WellFormed(s), NEW b \in BOOLEAN
  PROVE  LET t == [s EXCEPT !.sensitive = b] IN
         /\ WellFormed(t) /\ t.rel = s.rel /\ Known(t) = Known(s) /\ SameFeelings(t, s)
         /\ t.conflicts = s.conflicts
  BY DEF WellFormed, Known, SameFeelings

\* From m, where the speaker is known, the event e leads to t.
Answers(t, m, e) ==
  /\ Known(t) = Known(m)
  /\ \A q \in Known(m) \ {e.speaker} : SameRegard(t.rel[q], m.rel[q])
  /\ e.target = "participant" =>
       /\ SameFeelings(t, m)
       /\ \A q \in Known(m) : SameRegard(t.rel[q], m.rel[q]) /\ SameStrain(t.rel[q], m.rel[q])
  /\ e.target # "participant" /\ e.type \in HostileEvents => Hurt(t, m, e.speaker)
  /\ e.target # "participant" /\ e.type \in RepairEvents => Healed(t, m, e.speaker)

\* The loop body: what is said between others changes no feelings, regard or
\* strain; what is said to the bot changes only the regard for the speaker,
\* hurts when it is hostile and heals when it is a repair.
LEMMA ReactIs ==
  ASSUME NEW s, WellFormed(s), ConflictsOf(s), NEW e \in Events, NEW c \in Configurations,
         e.type = "user_moderation" => e.target = "bot"
  PROVE  LET t == React(s, e, c)  m == Meet(s, e.speaker) IN
         WellFormed(t) /\ ConflictsOf(t) /\ Answers(t, m, e)
<1> DEFINE p == e.speaker
           told == [s EXCEPT !.sensitive = e.charged]
           met == Meet(told, p)
           hit == ApplyEvent(told, e, c)
           felt == IF e.target = "participant" THEN s ELSE hit
           t == React(s, e, c)
           m == Meet(s, p)
<1>1. t = IF e.type = "user_moderation" THEN felt ELSE ObserveExchange(felt, e, c)
  BY DEF React
<1>2. /\ WellFormed(told) /\ told.rel = s.rel /\ Known(told) = Known(s) /\ SameFeelings(told, s)
      /\ told.conflicts = s.conflicts
  BY EventOf, SetSensitive
<1>3. p \in Participants
  BY EventOf
<1> HIDE DEF told, t
\* Meeting the speaker before or after the topic is set is the same.
<1>4. /\ WellFormed(m) /\ p \in Known(m)
      /\ \A q \in Known(m) : m.rel[q] = IF q \in Known(s) THEN s.rel[q] ELSE Stranger
      /\ Known(m) = Known(s) \cup {p} /\ SameFeelings(m, s) /\ m.conflicts = s.conflicts
  BY <1>3, MeetIs
<1>5. /\ WellFormed(met) /\ Known(met) = Known(m) /\ SameFeelings(met, m)
      /\ \A q \in Known(m) : met.rel[q] = m.rel[q]
  <2>1. /\ WellFormed(met) /\ Known(met) = Known(told) \cup {p}
        /\ \A q \in Known(met) : met.rel[q] = IF q \in Known(told) THEN told.rel[q] ELSE Stranger
        /\ SameFeelings(met, told)
    BY <1>2, <1>3, MeetIs
  <2> HIDE DEF met, m
  <2> QED BY <1>2, <1>4, <2>1 DEF SameFeelings
<1> HIDE DEF met, m, p
<1>6. /\ Reaches(hit, met, p) /\ ConflictsOf(hit)
      /\ e.type \in HostileEvents => Hurt(hit, met, p)
      /\ e.type \in RepairEvents => Healed(hit, met, p)
  BY <1>2, ApplyEventIs DEF met, p
<1> HIDE DEF hit
<1>7. /\ WellFormed(hit) /\ Known(hit) = Known(m)
      /\ \A q \in Known(m) \ {p} : SameRegard(hit.rel[q], m.rel[q])
      /\ e.type \in HostileEvents => Hurt(hit, m, p)
      /\ e.type \in RepairEvents => Healed(hit, m, p)
  BY <1>4, <1>5, <1>6 DEF Reaches, SameFeelings, Hurt, Healed
\* A stranger has no tension, so a new acquaintance opens no conflict.
<1>8. ConflictsOf(m)
  <2>1. ~(0 > Half(PositiveStep))
    BY DEF Half, Mul, SecondaryShare, PositiveStep, Unit
  <2>2. \A q \in Known(m) : m.rel[q].tension > Half(PositiveStep)
                              <=> q \in Known(s) /\ s.rel[q].tension > Half(PositiveStep)
    BY <1>4, <2>1, StrangerIs
  <2> QED BY <1>4, <2>2 DEF ConflictsOf
<1>9. ASSUME NEW u, NEW n, WellFormed(u), WellFormed(n), Known(n) = Known(u), ConflictsOf(n),
             n.conflicts = u.conflicts, \A q \in Known(n) : SameStrain(u.rel[q], n.rel[q])
      PROVE  ConflictsOf(u)
  BY <1>9 DEF ConflictsOf, SameStrain
<1>10. CASE e.target = "participant"
  <2>1. t = ObserveExchange(s, e, c)
    BY <1>1, <1>10
  <2>2. /\ WellFormed(t) /\ Known(t) = Known(m) /\ SameFeelings(t, m) /\ t.conflicts = m.conflicts
        /\ \A q \in Known(m) : SameRegard(t.rel[q], m.rel[q]) /\ SameStrain(t.rel[q], m.rel[q])
    BY <2>1, ObserveExchangeIs DEF m, p
  <2>3. ConflictsOf(t)
    BY <1>4, <1>8, <1>9, <2>2
  <2> QED BY <1>10, <2>2, <2>3 DEF t, m, p, Answers
<1>11. CASE e.target # "participant" /\ e.type = "user_moderation"
  <2>1. t = hit
    BY <1>1, <1>11
  <2> QED BY <1>6, <1>7, <1>11, <2>1 DEF t, m, p, Answers, HostileEvents, RepairEvents
<1>12. CASE e.target # "participant" /\ e.type # "user_moderation"
  <2>1. t = ObserveExchange(hit, e, c)
    BY <1>1, <1>12
  <2> DEFINE n == Meet(hit, p)
  <2>2. /\ WellFormed(n) /\ Known(n) = Known(hit) \cup {p}
        /\ \A q \in Known(n) : n.rel[q] = IF q \in Known(hit) THEN hit.rel[q] ELSE Stranger
        /\ SameFeelings(n, hit) /\ n.conflicts = hit.conflicts
    BY <1>3, <1>7, MeetIs
  <2>3. /\ WellFormed(t) /\ Known(t) = Known(n) /\ SameFeelings(t, n) /\ t.conflicts = n.conflicts
        /\ \A q \in Known(n) : SameRegard(t.rel[q], n.rel[q]) /\ SameStrain(t.rel[q], n.rel[q])
    BY <1>7, <2>1, ObserveExchangeIs DEF p
  <2> HIDE DEF n
  <2>4. Known(n) = Known(m) /\ \A q \in Known(m) : n.rel[q] = hit.rel[q]
    BY <1>4, <1>7, <2>2
  <2>5. ConflictsOf(n)
    BY <1>6, <1>7, <2>2, <2>4 DEF ConflictsOf
  <2>6. ConflictsOf(t)
    BY <1>9, <2>2, <2>3, <2>5
  <2>7. t.offended = hit.offended /\ t.rel[p].tension = hit.rel[p].tension
    BY <1>4, <2>2, <2>3, <2>4 DEF SameFeelings, SameStrain
  <2>8. \A q \in Known(m) \ {p} : SameRegard(t.rel[q], m.rel[q])
    BY <1>7, <2>3, <2>4 DEF SameRegard
  <2> QED BY <1>7, <1>12, <2>3, <2>4, <2>6, <2>7, <2>8 DEF t, m, p, Answers, Hurt, Healed
<1> QED BY <1>10, <1>11, <1>12

-----------------------------------------------------------------------------
(* The posture and the mood.                                               *)

LEMMA PostureIs ==
  ASSUME NEW s, NEW c, NEW e, NEW speaker
  PROVE  LET posture == DerivePosture(s, c, e, speaker) IN
         /\ posture \in Postures
         /\ posture \in Retaliations => /\ speaker \in DOMAIN s.conflicts
                                        /\ Upset(s) > ActiveThreshold
         /\ posture \in Retaliations \cup {"mischievous", "reconciliation"}
              => e = None \/ e.target # "participant"
<1>1. \/ ConflictPosture(s, c) = "counterattack" \/ ConflictPosture(s, c) = "refusal"
      \/ ConflictPosture(s, c) = "evasive" \/ ConflictPosture(s, c) = "guarded"
  BY DEF ConflictPosture
<1>2. OwnPosture(s, c) \in {"terse", "guarded", "playful", "warm", "normal"}
  BY DEF OwnPosture
<1> DEFINE personal == e = None \/ e.target # "participant"
           group == GroupPosture(s, c, personal)
<1>3. group \in {None, "mediation", "topic_avoidance"}
  BY DEF GroupPosture
<1> HIDE DEF group
<1> DEFINE Of(types) == e # None /\ personal /\ e.type \in types
           upset == Upset(s) > ActiveThreshold
<1>4. DerivePosture(s, c, e, speaker) =
        IF e # None /\ e.type = "user_moderation" /\ e.action = "calm" THEN "pass"
     ELSE IF Of({"apology", "reconciliation"}) THEN "reconciliation"
     ELSE IF Of({"bot_mediation"}) THEN "mediation"
     ELSE IF Of({"topic_steering"}) THEN "topic_steering"
     ELSE IF group # None THEN group
     ELSE IF personal /\ s.sensitive /\ upset THEN "topic_avoidance"
     ELSE IF personal /\ speaker \in DOMAIN s.conflicts /\ upset THEN ConflictPosture(s, c)
     ELSE IF Of({"joke", "teasing", "disagreement"}) /\ Mischief(c) > StrategyThreshold
          THEN "mischievous"
     ELSE OwnPosture(s, c)
  BY DEF DerivePosture, group
<1> QED BY <1>1, <1>2, <1>3, <1>4 DEF Retaliations, Postures

LEMMA SettleIs ==
  ASSUME NEW s, WellFormed(s), ConflictsOf(s), NEW posture \in Postures
  PROVE  LET t == [s EXCEPT !.posture = posture, !.mood = DeriveMood(s)] IN
         /\ WellFormed(t) /\ ConflictsOf(t) /\ t.mood = DeriveMood(t) /\ SameFeelings(t, s)
         /\ t.rel = s.rel /\ Known(t) = Known(s) /\ t.conflicts = s.conflicts
         /\ t.posture = posture
<1> DEFINE mood == DeriveMood(s)
           t == [s EXCEPT !.posture = posture, !.mood = mood]
<1>1. mood \in {"irritated", "open", "low", "neutral"}
  BY DEF DeriveMood
<1>2. mood = DeriveMood(s)
  OBVIOUS
<1> HIDE DEF mood
<1>3. /\ WellFormed(t) /\ t.mood = mood /\ SameFeelings(t, s)
      /\ t.rel = s.rel /\ Known(t) = Known(s) /\ t.conflicts = s.conflicts /\ t.posture = posture
  BY <1>1 DEF WellFormed, Known, SameFeelings
<1> HIDE DEF t
<1>4. DeriveMood(t) = mood
  BY <1>2, <1>3 DEF DeriveMood, Upset, SameFeelings
<1>5. ConflictsOf(t)
  BY <1>3 DEF ConflictsOf
<1> QED BY <1>3, <1>4, <1>5 DEF t, mood

-----------------------------------------------------------------------------
(* The invariant.                                                          *)

\* A turn between classification and apply_latest.
PendingInv ==
  pending # None =>
    /\ pending \in Turns
    /\ pending.events \subseteq Events /\ AllEqual(pending.events)
    /\ pending.speaker \in Participants
    /\ \A e \in pending.events : /\ e.speaker = pending.speaker
                                 /\ e.type = "user_moderation" => e.target = "bot"
    /\ pending.moderates <=> \E e \in pending.events : e.type = "user_moderation"
    /\ pending.unresolved /\ ~pending.moderates
         => \A e \in pending.events : e.target = "participant"

SessionInv ==
  /\ config \in Personalities /\ idle \in 0 .. MaxIdle
  /\ turns \in 0 .. MaxTurns /\ edits \in 0 .. MaxEdits
  /\ WellFormed(state) /\ ConflictsOf(state) /\ MoodProjected

TurnInv == SessionInv /\ PendingInv

LEMMA TurnInvInitially ==
  ASSUME Init
  PROVE  TurnInv
<1>1. WellFormed(InitialState) /\ ConflictsOf(InitialState)
  <2>1. EdgeList(<<>>) /\ RecordList(<<>>)
    BY LimitType DEF EdgeList, RecordList
  <2> QED BY <2>1 DEF InitialState, WellFormed, Known, ConflictsOf, Unit, Postures
<1>2. DeriveMood(InitialState) = InitialState.mood
  BY DEF InitialState, DeriveMood, Upset, Greater, ActiveThreshold
<1> QED BY <1>1, <1>2, InputsType DEF Init, TurnInv, SessionInv, PendingInv, MoodProjected

LEMMA DecayedIs ==
  ASSUME SessionInv
  PROVE  /\ WellFormed(Decayed) /\ ConflictsOf(Decayed) /\ Known(Decayed) = Known(state)
         /\ Decayed.mood = state.mood /\ config \in Configurations
         /\ \A q \in Known(state) : SameRegard(Decayed.rel[q], state.rel[q])
<1>1. /\ MoodFactor[config.traits["persistence"]][idle] \in 0 .. Unit
      /\ RelationFactor[config.traits["persistence"]][idle] \in 0 .. Unit
  BY FactorsType DEF SessionInv
<1>2. config \in Configurations
  BY InputsType DEF SessionInv
<1> QED BY <1>1, <1>2, DecayIs DEF Decayed, SessionInv

Rested == [Decayed EXCEPT !.sensitive = FALSE]

Reacted(event) == IF event = None THEN Rested ELSE React(Rested, event, config)

\* What the turn that is applied has done, told by its event.
LEMMA ApplyIs ==
  ASSUME SessionInv, PendingInv, Apply
  PROVE  /\ WellFormed(state') /\ ConflictsOf(state') /\ state'.mood = DeriveMood(state')
         /\ state'.posture \in Retaliations =>
              /\ pending.speaker \in DOMAIN state'.conflicts /\ Upset(state') > ActiveThreshold
         /\ pending.events = {} =>
              /\ SameFeelings(state', Decayed) /\ Known(state') = Known(state)
              /\ state'.rel = Decayed.rel
         /\ \A e \in pending.events :
              LET m == Meet(Decayed, e.speaker) IN
              /\ Answers(state', m, e)
              /\ e.target = "participant" =>
                   state'.posture \notin Retaliations \cup {"mischievous", "reconciliation"}
<1> DEFINE event == IF pending.events = {} THEN None ELSE CHOOSE e \in pending.events : TRUE
           reacted == Reacted(event)
           posture == DerivePosture(reacted, config, event, pending.speaker)
<1>1. state' = [reacted EXCEPT !.posture = posture, !.mood = DeriveMood(reacted)]
  BY DEF Apply, Reacted, Rested
<1>2. pending # None
  BY DEF Apply
<1>3. pending.events = {} => event = None
  OBVIOUS
<1>4. \A e \in pending.events : event = e /\ e \in Events /\ e # None
  <2>1. ASSUME NEW e \in pending.events
        PROVE  event = e
    <3>1. event \in pending.events
      BY <2>1
    <3> QED BY <1>2, <2>1, <3>1 DEF PendingInv, AllEqual
  <2> QED BY <1>2, <2>1, NoEventIsNone DEF PendingInv
<1>5. /\ WellFormed(Decayed) /\ ConflictsOf(Decayed) /\ Known(Decayed) = Known(state)
      /\ config \in Configurations
  BY DecayedIs
<1>6. /\ WellFormed(Rested) /\ Rested.rel = Decayed.rel /\ Known(Rested) = Known(Decayed)
      /\ SameFeelings(Rested, Decayed) /\ Rested.conflicts = Decayed.conflicts
  BY <1>5, SetSensitive DEF Rested
<1>7. ConflictsOf(Rested)
  BY <1>5, <1>6 DEF ConflictsOf
<1> HIDE DEF event
<1>8. ASSUME NEW e \in pending.events
      PROVE  LET m == Meet(Decayed, e.speaker) IN
         /\ reacted = React(Rested, e, config)
         /\ WellFormed(reacted) /\ ConflictsOf(reacted) /\ Answers(reacted, m, e)
  <2> DEFINE n == Meet(Rested, e.speaker)  m == Meet(Decayed, e.speaker)  t == React(Rested, e, config)
  <2>1. e \in Events /\ (e.type = "user_moderation" => e.target = "bot") /\ e.speaker \in Participants
    BY <1>2, <1>8, EventOf DEF PendingInv
  <2>2. reacted = t
    BY <1>4, <1>8 DEF Reacted
  <2>3. /\ Known(n) = Known(Rested) \cup {e.speaker}
        /\ \A q \in Known(n) : n.rel[q] = IF q \in Known(Rested) THEN Rested.rel[q] ELSE Stranger
        /\ SameFeelings(n, Rested)
    BY <1>6, <2>1, MeetIs
  <2>4. /\ Known(m) = Known(Decayed) \cup {e.speaker}
        /\ \A q \in Known(m) : m.rel[q] = IF q \in Known(Decayed) THEN Decayed.rel[q] ELSE Stranger
        /\ SameFeelings(m, Decayed)
    BY <1>5, <2>1, MeetIs
  <2>5. WellFormed(t) /\ ConflictsOf(t) /\ Answers(t, n, e)
    BY <1>5, <1>6, <1>7, <2>1, ReactIs
  <2> HIDE DEF n, m, t, reacted
  <2>6. /\ Known(n) = Known(m) /\ e.speaker \in Known(m) /\ \A q \in Known(m) : n.rel[q] = m.rel[q]
        /\ SameFeelings(n, m)
    BY <1>6, <2>3, <2>4 DEF SameFeelings
  <2> QED BY <2>2, <2>5, <2>6 DEF t, m, Answers, SameFeelings, Hurt, Healed
<1>9. ASSUME pending.events = {}
      PROVE  reacted = Rested
  BY <1>3, <1>9 DEF Reacted
<1> HIDE DEF reacted
<1>10. WellFormed(reacted) /\ ConflictsOf(reacted)
  BY <1>6, <1>7, <1>8, <1>9
<1>11. /\ posture \in Postures
       /\ posture \in Retaliations => /\ pending.speaker \in DOMAIN reacted.conflicts
                                      /\ Upset(reacted) > ActiveThreshold
       /\ posture \in Retaliations \cup {"mischievous", "reconciliation"}
              => event = None \/ event.target # "participant"
  BY PostureIs
<1> HIDE DEF posture
<1>12. /\ WellFormed(state') /\ ConflictsOf(state') /\ state'.mood = DeriveMood(state')
       /\ SameFeelings(state', reacted) /\ state'.rel = reacted.rel /\ Known(state') = Known(reacted)
       /\ state'.conflicts = reacted.conflicts /\ state'.posture = posture
  <2> DEFINE t == [reacted EXCEPT !.posture = posture, !.mood = DeriveMood(reacted)]
  <2>1. /\ WellFormed(t) /\ ConflictsOf(t) /\ t.mood = DeriveMood(t)
        /\ SameFeelings(t, reacted) /\ t.rel = reacted.rel /\ Known(t) = Known(reacted)
        /\ t.conflicts = reacted.conflicts /\ t.posture = posture
    BY <1>10, <1>11, SettleIs
  <2>2. state' = t
    BY <1>1
  <2> HIDE DEF t
  <2> QED BY <2>1, <2>2
<1>13. Upset(state') = Upset(reacted)
  BY <1>12 DEF Upset, SameFeelings
<1>14. pending.events = {} =>
         /\ SameFeelings(state', Decayed) /\ Known(state') = Known(state)
         /\ state'.rel = Decayed.rel
  BY <1>5, <1>6, <1>9, <1>12 DEF SameFeelings
<1>15. ASSUME NEW e \in pending.events
       PROVE  LET m == Meet(Decayed, e.speaker) IN
              /\ Answers(state', m, e)
              /\ e.target = "participant" =>
                   state'.posture \notin Retaliations \cup {"mischievous", "reconciliation"}
  <2>1. event = e /\ e # None
    BY <1>4, <1>15
  <2>2. e.target = "participant" => posture \notin Retaliations \cup {"mischievous", "reconciliation"}
    BY <1>11, <2>1
  <2> QED BY <1>8, <1>12, <1>15, <2>2 DEF Answers, SameFeelings, Hurt, Healed
<1> QED BY <1>11, <1>12, <1>13, <1>14, <1>15

LEMMA FieldsOfEdit ==
  ASSUME NEW d \in EditRecords
  PROVE  /\ d.scope \in {"affect", "atmosphere", "relationship"} /\ d.value \in -Unit .. Unit
         /\ d.scope = "affect" => d.field \in AffectFields
         /\ d.scope = "relationship" => d.field \in RelationFields
         /\ d.scope = "atmosphere" => d.field = "atmosphere"
         /\ d.field \notin SignedFields => d.value \in 0 .. Unit
<1>1. d.scope \in {"affect", "atmosphere", "relationship"} /\ d.value \in -Unit .. Unit
      /\ (d.field \notin SignedFields => d.value >= 0)
  BY DEF EditRecords
<1>2. d.field \in CASE d.scope = "affect" -> AffectFields
                    [] d.scope = "relationship" -> RelationFields
                    [] OTHER -> {"atmosphere"}
  BY DEF EditRecords
<1>3. d.field \notin SignedFields => d.value \in 0 .. Unit
  BY <1>1 DEF Unit
<1> QED BY <1>1, <1>2, <1>3

\* A manual edit changes one value within its range.
LEMMA WithValueIs ==
  ASSUME NEW s, WellFormed(s), ConflictsOf(s), NEW d \in EditRecords,
         d.scope = "relationship" => d.participant \in Known(s)
  PROVE  LET t == WithValue(s, d) IN
         /\ WellFormed(t) /\ t.mood = s.mood
         /\ d.field # "tension" => ConflictsOf(t)
<1> DEFINE t == WithValue(s, d)
<1>1. CASE d.scope = "atmosphere"
  <2>1. t = [s EXCEPT !.atmosphere = d.value]
    BY <1>1 DEF WithValue
  <2>2. d.value \in 0 .. Unit
    BY <1>1, FieldsOfEdit DEF SignedFields
  <2> HIDE DEF t
  <2>3. WellFormed(t) /\ t.mood = s.mood /\ t.rel = s.rel /\ t.conflicts = s.conflicts
    BY <2>1, <2>2 DEF WellFormed, Known
  <2> QED BY <2>3 DEF ConflictsOf, Known, t
<1>2. CASE d.scope = "affect"
  <2>1. t = [s EXCEPT ![d.field] = d.value]
    BY <1>2 DEF WithValue
  <2>2. d.field \in {"valence", "arousal", "frustration", "offended"}
        /\ d.value \in -Unit .. Unit /\ (d.field # "valence" => d.value \in 0 .. Unit)
    BY <1>2, FieldsOfEdit DEF AffectFields, SignedFields
  <2> HIDE DEF t
  <2>3. ASSUME d.field = "valence"
        PROVE  WellFormed(t) /\ t.mood = s.mood /\ t.rel = s.rel /\ t.conflicts = s.conflicts
    BY <2>1, <2>2, <2>3 DEF WellFormed, Known
  <2>4. ASSUME d.field = "arousal"
        PROVE  WellFormed(t) /\ t.mood = s.mood /\ t.rel = s.rel /\ t.conflicts = s.conflicts
    BY <2>1, <2>2, <2>4 DEF WellFormed, Known
  <2>5. ASSUME d.field = "frustration"
        PROVE  WellFormed(t) /\ t.mood = s.mood /\ t.rel = s.rel /\ t.conflicts = s.conflicts
    BY <2>1, <2>2, <2>5 DEF WellFormed, Known
  <2>6. ASSUME d.field = "offended"
        PROVE  WellFormed(t) /\ t.mood = s.mood /\ t.rel = s.rel /\ t.conflicts = s.conflicts
    BY <2>1, <2>2, <2>6 DEF WellFormed, Known
  <2> QED BY <2>2, <2>3, <2>4, <2>5, <2>6 DEF ConflictsOf, Known, t
<1>3. CASE d.scope = "relationship"
  <2> DEFINE p == d.participant  r == [s.rel[p] EXCEPT ![d.field] = d.value]
  <2>1. t = [s EXCEPT !.rel[p] = r]
    BY <1>3 DEF WithValue
  <2>2. d.field \in {"trust", "affinity", "respect", "irritation", "tension"}
        /\ d.value \in -Unit .. Unit
        /\ (d.field \notin {"trust", "affinity", "respect"} => d.value \in 0 .. Unit)
    BY <1>3, FieldsOfEdit DEF RelationFields, SignedFields
  <2>3. p \in Known(s) /\ s.rel[p] \in Relations /\ s.rel \in [Known(s) -> Relations]
    BY <1>3, ValuesOf
  <2>4. r \in Relations /\ (d.field # "tension" => r.tension = s.rel[p].tension)
    BY <2>2, <2>3 DEF Relations
  <2> HIDE DEF t, r, p
  <2>5. /\ WellFormed(t) /\ t.rel = [s.rel EXCEPT ![p] = r] /\ Known(t) = Known(s)
        /\ t.mood = s.mood /\ t.conflicts = s.conflicts
    BY <2>1, <2>3, <2>4, SetRelOf
  <2>6. \A q \in Known(s) : d.field # "tension" => t.rel[q].tension = s.rel[q].tension
    BY <2>3, <2>4, <2>5
  <2> QED BY <2>5, <2>6 DEF ConflictsOf, t
<1> QED BY <1>1, <1>2, <1>3, FieldsOfEdit

LEMMA EditedIs ==
  ASSUME NEW s, WellFormed(s), NEW before, NEW d \in EditRecords,
         d.field # "tension" => ConflictsOf(s), s.mood = before.mood,
         before.mood = DeriveMood(before)
  PROVE  LET t == Edited(s, before, d) IN
         WellFormed(t) /\ ConflictsOf(t) /\ t.mood = DeriveMood(t)
<1> DEFINE moved == \/ d.field \in {"valence", "frustration", "offended"}
                    \/ <<s.valence, s.frustration, s.offended>>
                         # <<before.valence, before.frustration, before.offended>>
           mood == DeriveMood(s)
           u == IF moved THEN [s EXCEPT !.mood = mood] ELSE s
           t == IF d.field = "tension" THEN RefreshConflicts(u) ELSE u
<1>1. Edited(s, before, d) = t
  BY DEF Edited
<1>2. mood \in {"irritated", "open", "low", "neutral"}
  BY DEF DeriveMood
<1>3. ~moved => s.mood = mood
  BY DEF DeriveMood, Upset
<1>4. mood = DeriveMood(s)
  OBVIOUS
<1> HIDE DEF moved, mood
<1>5. WellFormed(u) /\ u.rel = s.rel /\ u.conflicts = s.conflicts /\ SameFeelings(u, s) /\ u.mood = mood
  BY <1>2, <1>3 DEF WellFormed, Known, SameFeelings
<1> HIDE DEF u
<1>6. d.field # "tension" => ConflictsOf(u)
  BY <1>5 DEF ConflictsOf, Known
<1>7. WellFormed(t) /\ ConflictsOf(t) /\ SameFeelings(t, u) /\ t.mood = u.mood
  BY <1>5, <1>6, RefreshIs DEF SameFeelings
<1> HIDE DEF t
<1>8. DeriveMood(t) = DeriveMood(s)
  BY <1>5, <1>7 DEF DeriveMood, Upset, SameFeelings
<1> QED BY <1>1, <1>4, <1>5, <1>7, <1>8

LEMMA TurnInvStep ==
  ASSUME TurnInv, [Next]_vars
  PROVE  TurnInv'
<1>1. SessionInv /\ PendingInv
  BY DEF TurnInv
<1>2. ASSUME NEW m \in Messages, NEW outcome \in Verdicts, Hear(m, outcome)
      PROVE  TurnInv'
  <2>1. m \in MessageRecords /\ outcome \in Outcomes
    BY InputsType
  <2>2. SessionInv'
    <3>1. turns' \in 0 .. MaxTurns
      BY <1>1, <1>2, InputsType DEF Hear, SessionInv
    <3> QED BY <1>1, <1>2, <3>1 DEF Hear, SessionInv, MoodProjected
  <2> DEFINE heard == Heard(m, outcome)
             moderates == Moderates(m)
             unresolved == Unresolved(m) /\ outcome \in {Disabled, Failed}
  <2>3. pending' = [events |-> heard, speaker |-> m.speaker, moderates |-> moderates,
                    unresolved |-> unresolved]
    BY <1>2 DEF Hear
  <2>4. /\ heard \subseteq Events /\ AllEqual(heard)
        /\ \A e \in heard : e.speaker = m.speaker /\ (e.type = "user_moderation" => e.target = "bot")
        /\ moderates <=> \E e \in heard : e.type = "user_moderation"
        /\ unresolved /\ ~moderates => \A e \in heard : e.target = "participant"
    BY <2>1, HeardIs
  <2>5. m.speaker \in Participants
    BY <2>1 DEF MessageRecords
  <2>6. moderates \in BOOLEAN /\ unresolved \in BOOLEAN
    BY DEF Moderates
  <2> HIDE DEF heard, moderates, unresolved
  <2>7. pending' \in Turns
    BY <2>3, <2>4, <2>5, <2>6 DEF Turns
  <2>8. /\ pending'.events = heard /\ pending'.speaker = m.speaker
        /\ (pending'.moderates <=> moderates) /\ (pending'.unresolved <=> unresolved)
    BY <2>3
  <2>9. PendingInv'
    BY <2>4, <2>5, <2>7, <2>8 DEF PendingInv
  <2> QED BY <2>2, <2>9 DEF TurnInv
<1>3. CASE Apply
  <2>1. WellFormed(state') /\ ConflictsOf(state') /\ state'.mood = DeriveMood(state')
    BY <1>1, <1>3, ApplyIs
  <2>2. 0 \in 0 .. MaxIdle
    BY InputsType
  <2>3. pending' = None /\ idle' = 0 /\ config' = config /\ UNCHANGED <<turns, edits>>
    BY <1>3 DEF Apply
  <2>4. SessionInv'
    BY <1>1, <2>1, <2>2, <2>3 DEF SessionInv, MoodProjected
  <2> QED BY <2>3, <2>4 DEF TurnInv, PendingInv
<1>4. ASSUME NEW d \in Edits, ManualEdit(d)
      PROVE  TurnInv'
  <2> DEFINE s == WithValue(Decayed, d)
  <2>1. d \in EditRecords
    BY InputsType
  <2>2. /\ WellFormed(Decayed) /\ ConflictsOf(Decayed) /\ Decayed.mood = state.mood
        /\ d.scope = "relationship" => d.participant \in Known(Decayed)
    BY <1>1, <1>4, DecayedIs DEF ManualEdit
  <2>3. WellFormed(s) /\ s.mood = state.mood /\ (d.field # "tension" => ConflictsOf(s))
    BY <2>1, <2>2, WithValueIs
  <2>4. state.mood = DeriveMood(state)
    BY <1>1 DEF SessionInv, MoodProjected
  <2>5. state' = Edited(s, state, d)
    BY <1>4 DEF ManualEdit
  <2> HIDE DEF s
  <2>6. WellFormed(state') /\ ConflictsOf(state') /\ state'.mood = DeriveMood(state')
    BY <2>1, <2>3, <2>4, <2>5, EditedIs
  <2>7. /\ idle' = 0 /\ 0 \in 0 .. MaxIdle /\ edits' \in 0 .. MaxEdits
        /\ UNCHANGED <<config, turns, pending>>
    BY <1>1, <1>4, InputsType DEF ManualEdit, SessionInv
  <2>8. SessionInv'
    BY <1>1, <2>6, <2>7 DEF SessionInv, MoodProjected
  <2> QED BY <1>1, <2>7, <2>8 DEF TurnInv, PendingInv
<1>5. CASE Wait
  <2>1. idle' \in 0 .. MaxIdle
    BY <1>1, <1>5, InputsType DEF Wait, SessionInv
  <2> QED BY <1>1, <1>5, <2>1 DEF Wait, TurnInv, SessionInv, PendingInv, MoodProjected
<1>6. CASE TouchSession
  <2>1. idle' \in 0 .. MaxIdle
    BY <1>6, InputsType DEF TouchSession
  <2> QED BY <1>1, <1>6, <2>1 DEF TouchSession, TurnInv, SessionInv, PendingInv, MoodProjected
<1>7. CASE UNCHANGED vars
  BY <1>1, <1>7 DEF vars, TurnInv, SessionInv, PendingInv, MoodProjected
<1> QED BY <1>2, <1>3, <1>4, <1>5, <1>6, <1>7 DEF Next

\* The inductive invariant holds in every state.
THEOREM TurnInvariant == Spec => []TurnInv
<1> QED BY TurnInvInitially, TurnInvStep, PTL DEF Spec

-----------------------------------------------------------------------------
(* The properties.                                                         *)

\* Every value keeps the range the code clamps it to and every open conflict
\* is one with a known participant, after any turns, hours and edits; a message
\* is one event at most (AffectState, apply_event, decay_state, clamp).
THEOREM TurnsTyped == Spec => []TypeOK
<1>1. TurnInv => TypeOK
  <2> SUFFICES ASSUME SessionInv, PendingInv
               PROVE  TypeOK
    BY DEF TurnInv
  <2> DEFINE open == DOMAIN state.conflicts
  <2>1. WellFormed(state) /\ ConflictsOf(state)
    BY DEF SessionInv
  <2>2. open \subseteq Known(state) /\ Known(state) \subseteq Participants
    BY <2>1 DEF WellFormed, ConflictsOf
  <2>3. state.conflicts \in [open -> 0 .. Unit]
    BY <2>1 DEF ConflictsOf
  <2>4. state \in StatesOver(Known(state), open)
    <3>1. state.edges \in Seq(Edges) /\ state.observed \in Seq(Records)
      BY <2>1 DEF WellFormed, EdgeList, RecordList
    <3> HIDE DEF open
    <3> QED BY <2>1, <2>3, <3>1 DEF WellFormed, StatesOver
  <2>5. ASSUME pending # None
        PROVE  pending \in Turns /\ Cardinality(pending.events) <= 1
    <3>1. pending \in Turns /\ AllEqual(pending.events)
      BY <2>5 DEF PendingInv
    <3>2. CASE pending.events = {}
      BY <3>1, <3>2, FS_EmptySet
    <3>3. CASE pending.events # {}
      <4>1. PICK e \in pending.events : TRUE
        BY <3>3
      <4>2. pending.events = {e}
        BY <3>1, <4>1 DEF AllEqual
      <4>3. Cardinality({e}) = 1
        BY FS_Singleton
      <4> QED BY <3>1, <4>2, <4>3
    <3> QED BY <3>2, <3>3
  <2> QED BY <2>2, <2>4, <2>5 DEF TypeOK, SessionInv
<1> QED BY <1>1, TurnInvariant, PTL

\* What is remembered of others' exchanges stays within the limit, one edge for
\* each pair and one record for each speaker (relationships.py:55-93).
THEOREM ObservationsAreBounded == Spec => []ObservationsBounded
<1>1. TurnInv => ObservationsBounded
  BY DEF TurnInv, SessionInv, WellFormed, EdgeList, RecordList, ObservationsBounded
<1> QED BY <1>1, TurnInvariant, PTL

\* A turn is an intervention exactly when a verified user who is no bot gave
\* one (Moderates, Arbitrate, Routed).
THEOREM AuthorityIsExact == Spec => []AuthorityExact
<1>1. TurnInv => AuthorityExact
  BY DEF TurnInv, PendingInv, AuthorityExact
<1> QED BY <1>1, TurnInvariant, PTL

\* Conflicts and mood are projections of the values, after any turns, hours
\* and edits (refresh_conflicts, derive_mood).
THEOREM ProjectionsKept == Spec => []Projected
<1>1. TurnInv => Projected
  BY DEF TurnInv, SessionInv, ConflictsOf, Projected, ConflictsProjected
<1> QED BY <1>1, TurnInvariant, PTL

LEMMA AppliedBy ==
  ASSUME [Next]_vars, Applied
  PROVE  Apply
  BY DEF Next, Applied, Hear, ManualEdit, Wait, TouchSession, vars

\* What SameFeelings, SameRegard and SameStrain say of what has been decayed,
\* OnlyTimePassed says of the whole state.
LEMMA OnlyTime ==
  ASSUME TurnInv, Apply, \A e \in pending.events : e.target = "participant"
  PROVE  OnlyTimePassed(state')
<1>1. WellFormed(Decayed) /\ Known(Decayed) = Known(state)
  BY DecayedIs DEF TurnInv
<1>2. CASE pending.events = {}
  <2>1. SameFeelings(state', Decayed) /\ Known(state') = Known(state) /\ state'.rel = Decayed.rel
    BY <1>2, ApplyIs DEF TurnInv
  <2> QED BY <2>1 DEF OnlyTimePassed, SameFeelings, Feelings
<1>3. CASE pending.events # {}
  <2>1. PICK e \in pending.events : TRUE
    BY <1>3
  <2> DEFINE m == Meet(Decayed, e.speaker)
  <2>2. Answers(state', m, e)
    BY <2>1, ApplyIs DEF TurnInv
  <2>3. e.speaker \in Participants /\ e.target = "participant"
    BY <2>1, EventOf DEF TurnInv, PendingInv, Apply
  <2>4. /\ Known(m) = Known(state) \cup {e.speaker} /\ SameFeelings(m, Decayed)
        /\ \A q \in Known(m) : m.rel[q] = IF q \in Known(state) THEN Decayed.rel[q] ELSE Stranger
    BY <1>1, <2>3, MeetIs
  <2> HIDE DEF m
  <2>5. /\ Known(state') = Known(m) /\ SameFeelings(state', Decayed)
        /\ \A q \in Known(m) : SameRegard(state'.rel[q], m.rel[q]) /\ SameStrain(state'.rel[q], m.rel[q])
    BY <2>2, <2>3, <2>4 DEF Answers, SameFeelings
  <2>6. Feelings(state') = Feelings(Decayed)
    BY <2>5 DEF SameFeelings, Feelings
  <2>7. \A q \in Known(m) : /\ Regard(state'.rel[q]) = Regard(m.rel[q])
                            /\ Strain(state'.rel[q]) = Strain(m.rel[q])
    BY <2>5 DEF SameRegard, SameStrain, Regard, Strain
  <2> QED BY <2>4, <2>5, <2>6, <2>7 DEF OnlyTimePassed
<1> QED BY <1>2, <1>3

\* What others say to each other leaves the bot's feelings and regard to time
\* (React, observe_exchange).
THEOREM OthersRemainOthers == Spec => OthersStayOthers
<1>1. TurnInv /\ [Next]_vars =>
        [Applied /\ (\E e \in pending.events : e.target = "participant") =>
           /\ OnlyTimePassed(state')
           /\ state'.posture \notin Retaliations \cup {"mischievous", "reconciliation"}]_vars
  <2> SUFFICES ASSUME TurnInv, [Next]_vars, Applied,
                      NEW e \in pending.events, e.target = "participant"
               PROVE  /\ OnlyTimePassed(state')
                      /\ state'.posture \notin Retaliations \cup {"mischievous", "reconciliation"}
    OBVIOUS
  <2>1. Apply
    BY AppliedBy
  <2>2. \A d \in pending.events : d.target = "participant"
    BY <2>1 DEF TurnInv, PendingInv, AllEqual, Apply
  <2>3. OnlyTimePassed(state')
    BY <2>1, <2>2, OnlyTime
  <2>4. state'.posture \notin Retaliations \cup {"mischievous", "reconciliation"}
    BY <2>1, ApplyIs DEF TurnInv
  <2> QED BY <2>3, <2>4
<1> QED BY <1>1, TurnInvariant, PTL DEF Spec, OthersStayOthers

\* A group message that reached nobody in particular touches nothing personal
\* (route_events).
THEOREM UnresolvedStayImpersonal == Spec => UnresolvedImpersonal
<1>1. TurnInv /\ [Next]_vars =>
        [Applied /\ pending.unresolved /\ ~pending.moderates => OnlyTimePassed(state')]_vars
  <2> SUFFICES ASSUME TurnInv, [Next]_vars, Applied, pending.unresolved, ~pending.moderates
               PROVE  OnlyTimePassed(state')
    OBVIOUS
  <2>1. Apply
    BY AppliedBy
  <2>2. \A d \in pending.events : d.target = "participant"
    BY <2>1 DEF TurnInv, PendingInv, Apply
  <2> QED BY <2>1, <2>2, OnlyTime
<1> QED BY <1>1, TurnInvariant, PTL DEF Spec, UnresolvedImpersonal

\* Retaliation answers a speaker with whom a conflict is open while the bot is
\* upset (derive_posture).
THEOREM RetaliationIsAimed == Spec => RetaliationAimed
<1>1. TurnInv /\ [Next]_vars =>
        [Applied /\ state'.posture \in Retaliations =>
           /\ pending.speaker \in DOMAIN state'.conflicts
           /\ Upset(state') > ActiveThreshold]_vars
  BY AppliedBy, ApplyIs DEF TurnInv
<1> QED BY <1>1, TurnInvariant, PTL DEF Spec, RetaliationAimed

\* A turn changes the regard for nobody but its speaker, and time for nobody.
THEOREM RegardFollowsEvidence == Spec => RegardByEvidence
<1>1. TurnInv /\ [Next]_vars =>
        [edits' = edits =>
           \A p \in Known(state) :
             Regard(state'.rel[p]) # Regard(state.rel[p]) => Applied /\ p = pending.speaker]_vars
  <2> SUFFICES ASSUME TurnInv, [Next]_vars, edits' = edits, NEW p \in Known(state),
                      Regard(state'.rel[p]) # Regard(state.rel[p])
               PROVE  Applied /\ p = pending.speaker
    OBVIOUS
  <2>1. edits \in Int
    BY DEF TurnInv, SessionInv
  <2>2. Apply
    BY <2>1 DEF Next, Hear, ManualEdit, Wait, TouchSession, vars
  <2>3. WellFormed(Decayed) /\ Known(Decayed) = Known(state) /\ SameRegard(Decayed.rel[p], state.rel[p])
    BY DecayedIs DEF TurnInv
  <2>4. ~SameRegard(state'.rel[p], Decayed.rel[p])
    BY <2>3 DEF SameRegard, Regard
  <2>5. PICK e \in pending.events : TRUE
    <3>1. SUFFICES ASSUME pending.events = {}
                   PROVE  FALSE
      OBVIOUS
    <3>2. state'.rel = Decayed.rel
      BY <2>2, <3>1, ApplyIs DEF TurnInv
    <3> QED BY <2>4, <3>2 DEF SameRegard
  <2> DEFINE m == Meet(Decayed, e.speaker)
  <2>6. e.speaker \in Participants /\ e.speaker = pending.speaker
    BY <2>2, <2>5, EventOf DEF TurnInv, PendingInv, Apply
  <2>7. /\ Known(m) = Known(state) \cup {e.speaker}
        /\ \A q \in Known(m) : m.rel[q] = IF q \in Known(state) THEN Decayed.rel[q] ELSE Stranger
    BY <2>3, <2>6, MeetIs
  <2>8. Answers(state', m, e)
    BY <2>2, <2>5, ApplyIs DEF TurnInv
  <2> HIDE DEF m
  <2>9. p = e.speaker
    BY <2>4, <2>7, <2>8 DEF Answers
  <2> QED BY <2>2, <2>6, <2>9 DEF Apply, Applied
<1> QED BY <1>1, TurnInvariant, PTL DEF Spec, RegardByEvidence

\* A hostile event for the bot always hurts and a repair always heals, for
\* every personality and history (apply_event, trait_factor).
THEOREM ReactionsRemain == Spec => ReactionsNeverVanish
<1>1. TurnInv /\ [Next]_vars =>
        [Applied => \A e \in pending.events :
           e.target = "bot" =>
             LET before == Meet(Decayed, e.speaker)
                 tension == before.rel[e.speaker].tension
             IN /\ e.type \in HostileEvents =>
                     /\ state'.offended > before.offended \/ state'.offended = Unit
                     /\ state'.rel[e.speaker].tension > tension
                          \/ state'.rel[e.speaker].tension = Unit
                /\ e.type \in RepairEvents =>
                     /\ state'.offended < before.offended \/ state'.offended = 0
                     /\ state'.rel[e.speaker].tension < tension
                          \/ state'.rel[e.speaker].tension = 0]_vars
  <2> SUFFICES ASSUME TurnInv, [Next]_vars, Applied, NEW e \in pending.events, e.target = "bot"
               PROVE  LET before == Meet(Decayed, e.speaker)
                          tension == before.rel[e.speaker].tension
                      IN /\ e.type \in HostileEvents =>
                              /\ state'.offended > before.offended \/ state'.offended = Unit
                              /\ state'.rel[e.speaker].tension > tension
                                   \/ state'.rel[e.speaker].tension = Unit
                         /\ e.type \in RepairEvents =>
                              /\ state'.offended < before.offended \/ state'.offended = 0
                              /\ state'.rel[e.speaker].tension < tension
                                   \/ state'.rel[e.speaker].tension = 0
    OBVIOUS
  <2> DEFINE before == Meet(Decayed, e.speaker)
             tension == before.rel[e.speaker].tension
  <2>1. Apply
    BY AppliedBy
  <2>2. Answers(state', before, e)
    BY <2>1, ApplyIs DEF TurnInv
  <2>3. e.speaker \in Participants
    BY <2>1, EventOf DEF TurnInv, PendingInv, Apply
  <2>4. WellFormed(before) /\ e.speaker \in Known(before)
    <3>1. WellFormed(Decayed)
      BY DecayedIs DEF TurnInv
    <3> QED BY <2>3, <3>1, MeetIs
  <2>5. before.offended \in 0 .. Unit /\ tension \in 0 .. Unit
    BY <2>4, ValuesOf, RelationOf
  <2> HIDE DEF before
  <2>6. ASSUME e.type \in HostileEvents
        PROVE  /\ state'.offended > before.offended \/ state'.offended = Unit
               /\ state'.rel[e.speaker].tension > tension \/ state'.rel[e.speaker].tension = Unit
    <3>1. PICK o \in Nat : /\ o >= 3
                           /\ state'.offended = Amount(before.offended + o)
                           /\ state'.rel[e.speaker].tension = Amount(tension + o)
      BY <2>2, <2>6 DEF Answers, Hurt
    <3>2. \A x \in 0 .. Unit : Amount(x + o) > x \/ Amount(x + o) = Unit
      BY <3>1 DEF Amount, Unit
    <3> HIDE DEF tension
    <3> QED BY <2>5, <3>1, <3>2
  <2>7. ASSUME e.type \in RepairEvents
        PROVE  /\ state'.offended < before.offended \/ state'.offended = 0
               /\ state'.rel[e.speaker].tension < tension \/ state'.rel[e.speaker].tension = 0
    <3>1. PICK o \in Nat : /\ o >= 7
                           /\ state'.offended = Amount(before.offended - o)
                           /\ state'.rel[e.speaker].tension = Amount(tension - o)
      BY <2>2, <2>7 DEF Answers, Healed
    <3>2. \A x \in 0 .. Unit : Amount(x - o) < x \/ Amount(x - o) = 0
      BY <3>1 DEF Amount, Unit
    <3> HIDE DEF tension
    <3> QED BY <2>5, <3>1, <3>2
  <2> QED BY <2>6, <2>7 DEF before
<1> QED BY <1>1, TurnInvariant, PTL DEF Spec, ReactionsNeverVanish

\* The lists after a turn are those of time passed, with its exchange observed.
LEMMA AppliedLists ==
  ASSUME TurnInv, Apply, NEW e \in pending.events, e.type # "user_moderation"
  PROVE  /\ state'.edges = Directed(Decayed.edges, e, config)
         /\ state'.observed = Distress(Decayed.observed, e)
<1> DEFINE event == IF pending.events = {} THEN None ELSE CHOOSE d \in pending.events : TRUE
           reacted == Reacted(event)
           told == [Rested EXCEPT !.sensitive = e.charged]
           felt == IF e.target = "participant" THEN Rested ELSE ApplyEvent(told, e, config)
           t == ObserveExchange(felt, e, config)
           posture == DerivePosture(reacted, config, event, pending.speaker)
           mood == DeriveMood(reacted)
<1>1. state' = [reacted EXCEPT !.posture = posture, !.mood = mood]
  BY DEF Apply, Reacted, Rested
<1>2. event = e /\ e # None
  <2>1. event \in pending.events
    OBVIOUS
  <2>2. pending # None
    BY DEF Apply
  <2> QED BY <2>1, <2>2, NoEventIsNone DEF TurnInv, PendingInv, AllEqual
<1> HIDE DEF event, posture, mood
<1>3. reacted = t
  BY <1>2 DEF Reacted, React
<1>4. Leaves(Rested, Decayed)
  BY DecayedIs, WellFormedListed DEF TurnInv, Rested, Leaves, Listed
<1>5. Leaves(told, Rested)
  BY <1>4 DEF Leaves, Listed
<1> HIDE DEF told
<1>6. Leaves(felt, Rested)
  BY <1>4, <1>5, ApplyEventLeaves DEF Leaves
<1> HIDE DEF felt
<1>7. Listed(t) /\ t.edges = Directed(felt.edges, e, config) /\ t.observed = Distress(felt.observed, e)
  BY <1>6, ExchangeLists DEF Leaves
<1> HIDE DEF t, reacted
<1>8. state'.edges = t.edges /\ state'.observed = t.observed
  BY <1>1, <1>3, <1>7 DEF Listed
<1> QED BY <1>4, <1>6, <1>7, <1>8 DEF Leaves

\* What was just observed is kept as the newest, and costs at most the oldest
\* edge and record, each only of a full list for which the pair or the speaker
\* is new (relationships.py:68, :79, :92).
THEOREM ExchangesRemembered == Spec => ExchangeRemembered
<1>1. TurnInv /\ [Next]_vars =>
        [Applied => \A e \in pending.events : e.type # "user_moderation" =>
           /\ e.to \notin {None, e.speaker} =>
                LET newest == state'.edges[Len(state'.edges)]
                IN newest.from = e.speaker /\ newest.to = e.to
           /\ e.type = "frustration" => RemembersSpeaker(state', e.speaker)
           /\ \A k \in DOMAIN state.edges :
                \/ RemembersPair(state', state.edges[k].from, state.edges[k].to)
                \/ /\ k = 1 /\ Len(state.edges) = SocialRecordLimit
                   /\ ~RemembersPair(state, e.speaker, e.to)
           /\ \A k \in DOMAIN state.observed :
                \/ RemembersSpeaker(state', state.observed[k].who)
                \/ /\ k = 1 /\ Len(state.observed) = SocialRecordLimit
                   /\ ~RemembersSpeaker(state, e.speaker)]_vars
  <2> SUFFICES ASSUME TurnInv, [Next]_vars, Applied,
                      NEW e \in pending.events, e.type # "user_moderation"
               PROVE  /\ e.to \notin {None, e.speaker} =>
                           LET newest == state'.edges[Len(state'.edges)]
                           IN newest.from = e.speaker /\ newest.to = e.to
                      /\ e.type = "frustration" => RemembersSpeaker(state', e.speaker)
                      /\ \A k \in DOMAIN state.edges :
                           \/ RemembersPair(state', state.edges[k].from, state.edges[k].to)
                           \/ /\ k = 1 /\ Len(state.edges) = SocialRecordLimit
                              /\ ~RemembersPair(state, e.speaker, e.to)
                      /\ \A k \in DOMAIN state.observed :
                           \/ RemembersSpeaker(state', state.observed[k].who)
                           \/ /\ k = 1 /\ Len(state.observed) = SocialRecordLimit
                              /\ ~RemembersSpeaker(state, e.speaker)
    OBVIOUS
  <2>1. Apply
    BY AppliedBy
  <2>2. e \in Events
    BY <2>1 DEF TurnInv, PendingInv, Apply
  <2>3. /\ state'.edges = Directed(Decayed.edges, e, config)
        /\ state'.observed = Distress(Decayed.observed, e)
    BY <2>1, AppliedLists
  <2>4. WellFormed(Decayed) /\ config \in Configurations
    BY DecayedIs DEF TurnInv
  <2>5. EdgeList(Decayed.edges) /\ RecordList(Decayed.observed)
    BY <2>4, ValuesOf
  <2>6. Aged(Decayed, state)
    BY DecayAges DEF TurnInv, SessionInv, Decayed
  <2>7. /\ e.to \notin {None, e.speaker} =>
             LET newest == state'.edges[Len(state'.edges)]
             IN newest.from = e.speaker /\ newest.to = e.to
        /\ \A k \in DOMAIN Decayed.edges :
             \/ HasPair(state'.edges, Decayed.edges[k].from, Decayed.edges[k].to)
             \/ k = 1 /\ Len(Decayed.edges) = SocialRecordLimit
                  /\ ~HasPair(Decayed.edges, e.speaker, e.to)
    BY <2>2, <2>3, <2>4, <2>5, DirectedKeeps
  <2>8. /\ e.type = "frustration" => HasRecord(state'.observed, e.speaker)
        /\ \A k \in DOMAIN Decayed.observed :
             \/ HasRecord(state'.observed, Decayed.observed[k].who)
             \/ k = 1 /\ Len(Decayed.observed) = SocialRecordLimit
                  /\ ~HasRecord(Decayed.observed, e.speaker)
    BY <2>2, <2>3, <2>5, DistressKeeps
  <2>9. /\ HasPair(Decayed.edges, e.speaker, e.to) <=> RemembersPair(state, e.speaker, e.to)
        /\ HasRecord(Decayed.observed, e.speaker) <=> RemembersSpeaker(state, e.speaker)
    BY <2>6 DEF Aged, HasPair, HasRecord, RemembersPair, RemembersSpeaker
  <2>10. \A k \in DOMAIN state.edges :
           \/ RemembersPair(state', state.edges[k].from, state.edges[k].to)
           \/ /\ k = 1 /\ Len(state.edges) = SocialRecordLimit
              /\ ~RemembersPair(state, e.speaker, e.to)
    BY <2>6, <2>7, <2>9 DEF Aged, HasPair, RemembersPair
  <2>11. \A k \in DOMAIN state.observed :
           \/ RemembersSpeaker(state', state.observed[k].who)
           \/ /\ k = 1 /\ Len(state.observed) = SocialRecordLimit
              /\ ~RemembersSpeaker(state, e.speaker)
    BY <2>6, <2>8, <2>9 DEF Aged, HasRecord, RemembersSpeaker
  <2>12. e.type = "frustration" => RemembersSpeaker(state', e.speaker)
    BY <2>8 DEF HasRecord, RemembersSpeaker
  <2> QED BY <2>7, <2>10, <2>11, <2>12
<1> QED BY <1>1, TurnInvariant, PTL DEF Spec, ExchangeRemembered
=============================================================================
