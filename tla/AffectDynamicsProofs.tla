------------------------ MODULE AffectDynamicsProofs ------------------------
(***************************************************************************)
(* Lemmas about the affect dynamics, for any participants, personalities   *)
(* and decay factors: ranges, what an event leaves alone, and how far it   *)
(* moves what it does not.                                                 *)
(***************************************************************************)
EXTENDS AffectDynamics, TLAPS

-----------------------------------------------------------------------------
(* Arithmetic on thousandths.                                              *)

LEMMA MulInt ==
  ASSUME NEW a \in Int, NEW b \in Int
  PROVE  Mul(a, b) \in Int
<1>1. a * b \in Int
  OBVIOUS
<1> QED BY <1>1 DEF Mul, Unit

LEMMA MulNat ==
  ASSUME NEW a \in Nat, NEW b \in Nat
  PROVE  Mul(a, b) \in Nat
<1>1. a * b \in Nat
  OBVIOUS
<1> QED BY <1>1 DEF Mul, Unit

\* A share of an amount is at most the amount.
LEMMA MulShare ==
  ASSUME NEW a \in Nat, NEW f \in 0 .. Unit
  PROVE  Mul(a, f) \in 0 .. a
<1>1. f \in Nat /\ f <= 1000
  BY DEF Unit
<1>2. a * f \in Nat /\ a * f <= a * 1000
  BY <1>1
<1> QED BY <1>2 DEF Mul, Unit

LEMMA MulGrows ==
  ASSUME NEW a \in Nat, NEW b \in Nat, NEW x \in Nat, NEW y \in Nat, x <= a, y <= b
  PROVE  Mul(x, y) <= Mul(a, b)
<1>1. x * y \in Nat /\ a * b \in Nat /\ x * b \in Nat
  OBVIOUS
<1>2. x * y <= x * b
  OBVIOUS
<1>3. x * b <= a * b
  OBVIOUS
<1>4. x * y <= a * b
  BY <1>1, <1>2, <1>3
<1> QED BY <1>1, <1>4 DEF Mul, Unit

LEMMA ClampRange ==
  ASSUME NEW x \in Int
  PROVE  Signed(x) \in -Unit .. Unit /\ Amount(x) \in 0 .. Unit
  BY DEF Signed, Amount, Unit

LEMMA RangesInt ==
  /\ \A x \in 0 .. Unit : x \in Int /\ x \in Nat
  /\ \A x \in -Unit .. Unit : x \in Int
  BY DEF Unit

LEMMA HalfRange ==
  ASSUME NEW a \in 0 .. Unit
  PROVE  Half(a) \in 0 .. 500 /\ Half(a) <= a
  BY DEF Half, Mul, SecondaryShare, Unit

LEMMA HalfInt ==
  ASSUME NEW a \in Int
  PROVE  Half(a) \in Int
  BY DEF Half, Mul, SecondaryShare, Unit

-----------------------------------------------------------------------------
(* Traits, reactions and receptivity.                                      *)

\* Every trait-scaled reaction keeps the floor.
LEMMA TraitFactorRange ==
  ASSUME NEW v \in 0 .. Unit
  PROVE  TraitFactor(v) \in Floor .. Unit
  BY DEF TraitFactor, Mul, Floor, Unit

LEMMA TraitsOf ==
  ASSUME NEW c \in Configurations, NEW t \in Traits
  PROVE  c.traits[t] \in 0 .. Unit
<1>1. c.traits \in Personality
  BY DEF Configurations
<1> QED BY <1>1 DEF Personality

LEMMA ConfigurationOf ==
  ASSUME NEW c \in Configurations
  PROVE  c.gain \in Nat /\ c.sensitivity \in 0 .. Unit
<1> DEFINE top == 10 * Unit
<1>1. c.gain \in 0 .. top /\ c.sensitivity \in 0 .. Unit
  <2> HIDE DEF top
  <2> QED BY DEF Configurations, top
<1>2. top \in Int
  BY DEF Unit
<1> HIDE DEF top
<1> QED BY <1>1, <1>2

LEMMA EventOf ==
  ASSUME NEW e \in Events
  PROVE  /\ e.type \in EventTypes /\ e.speaker \in Participants /\ e.severity \in {500, 1000, 1750}
         /\ e.charged \in BOOLEAN /\ e.target \in {"bot", "participant", "none"}
         /\ e.to \in Everybody \cup {None}
  BY DEF Events, Severities

LEMMA RelationOf ==
  ASSUME NEW r \in Relations
  PROVE  /\ r.trust \in -Unit .. Unit /\ r.affinity \in -Unit .. Unit /\ r.respect \in -Unit .. Unit
         /\ r.irritation \in 0 .. Unit /\ r.tension \in 0 .. Unit /\ r.playful \in 0 .. Unit
  BY DEF Relations

LEMMA ReactionRange ==
  ASSUME NEW c \in Configurations, NEW e \in Events
  PROVE  Reaction(c, e) \in Nat /\ Reaction(c, e) >= 125
<1>1. TraitFactor(c.traits["reactivity"]) \in 250 .. 1000
  <2>1. c.traits["reactivity"] \in 0 .. Unit
    BY TraitsOf DEF Traits
  <2> QED BY <2>1, TraitFactorRange DEF Floor, Unit
<1>2. e.severity \in Nat /\ e.severity >= 500
  BY EventOf
<1>3. Mul(500, 250) = 125
  BY DEF Mul, Unit
<1> DEFINE f == TraitFactor(c.traits["reactivity"])
<1>4. f \in Nat /\ f >= 250
  BY <1>1
<1>5. Reaction(c, e) = Mul(e.severity, f)
  BY DEF Reaction
<1> HIDE DEF f
<1>6. Mul(500, 250) <= Mul(e.severity, f)
  BY <1>2, <1>4, MulGrows
<1>7. Mul(e.severity, f) \in Nat
  BY <1>2, <1>4, MulNat
<1> QED BY <1>3, <1>5, <1>6, <1>7

LEMMA SensitivityRange ==
  ASSUME NEW c \in Configurations, NEW e \in Events
  PROVE  SensitivityMultiplier(c, e) \in Nat /\ SensitivityMultiplier(c, e) >= Unit
  BY ConfigurationOf DEF SensitivityMultiplier, Unit

LEMMA ReceptivityRange ==
  ASSUME NEW c \in Configurations, NEW r \in Relations
  PROVE  SocialReceptivity(c, r) \in 0 .. Unit
<1>1. Credibility(r) \in 0 .. Unit
  <2>1. r.trust \in -1000 .. 1000 /\ r.respect \in -1000 .. 1000
    BY RelationOf DEF Unit
  <2> DEFINE x == r.trust  y == r.respect
  <2>2. Credibility(r) = (2000 + x + y) \div 4
    BY DEF Credibility, Unit
  <2>3. x \in -1000 .. 1000 /\ y \in -1000 .. 1000
    BY <2>1
  <2> HIDE DEF x, y
  <2>4. (2000 + x + y) \div 4 \in 0 .. 1000
    BY <2>3
  <2> QED BY <2>2, <2>4 DEF Unit
<1>2. Unit - Half(r.tension) \in 0 .. Unit
  <2>1. r.tension \in 0 .. Unit
    BY RelationOf
  <2>2. Half(r.tension) \in 0 .. 500
    BY <2>1, HalfRange
  <2>3. \A x \in 0 .. 500 : Unit - x \in 0 .. Unit
    BY DEF Unit
  <2> QED BY <2>2, <2>3
<1>3. Mul(Credibility(r), Unit - Half(r.tension)) \in 0 .. Unit
  <2> DEFINE a == Credibility(r)  b == Unit - Half(r.tension)
  <2>1. a \in Nat /\ a <= Unit /\ b \in 0 .. Unit
    BY <1>1, <1>2 DEF Unit
  <2> HIDE DEF a, b
  <2>2. Mul(a, b) \in 0 .. a
    BY <2>1, MulShare
  <2> QED BY <2>1, <2>2 DEF a, b, Unit
<1>4. c.traits["receptiveness"] \in 0 .. Unit
  BY TraitsOf DEF Traits
<1> DEFINE a == c.traits["receptiveness"]  b == Mul(Credibility(r), Unit - Half(r.tension))
<1>5. a \in 0 .. Unit /\ b \in 0 .. Unit
  BY <1>3, <1>4
<1> HIDE DEF a, b
<1>6. a \in Nat /\ a <= Unit
  BY <1>5 DEF Unit
<1>7. Mul(a, b) \in 0 .. a
  BY <1>5, <1>6, MulShare
<1>8. Mul(a, b) \in 0 .. Unit
  BY <1>6, <1>7 DEF Unit
<1> QED BY <1>8 DEF a, b, SocialReceptivity

LEMMA RepairFactorRange ==
  ASSUME NEW c \in Configurations, NEW r \in Relations
  PROVE  RepairFactor(c, r) \in Nat /\ RepairFactor(c, r) >= 250
<1>1. RepairFactor(c, r) \in Floor .. Unit
  BY ReceptivityRange, TraitFactorRange DEF RepairFactor
<1> QED BY <1>1 DEF Floor, Unit

-----------------------------------------------------------------------------
(* What is remembered of exchanges between others.                         *)

\* One edge for each pair and one record for each speaker, up to the limit.
EdgeList(edges) ==
  /\ edges \in Seq(Edges) /\ Len(edges) <= SocialRecordLimit
  /\ \A j, k \in DOMAIN edges :
       edges[j].from = edges[k].from /\ edges[j].to = edges[k].to => j = k

RecordList(observed) ==
  /\ observed \in Seq(Records) /\ Len(observed) <= SocialRecordLimit
  /\ \A j, k \in DOMAIN observed : observed[j].who = observed[k].who => j = k

LEMMA StrainedIs ==
  ASSUME NEW d \in Edges, NEW amount \in Int
  PROVE  LET t == Strained(d, amount) IN t \in Edges /\ t.from = d.from /\ t.to = d.to
<1> DEFINE x == Amount(d.tension + amount)
<1>1. x \in 0 .. Unit
  <2>1. d.tension + amount \in Int
    BY DEF Edges, Unit
  <2> QED BY <2>1, ClampRange
<1>2. Strained(d, amount) = [d EXCEPT !.tension = x]
  BY DEF Strained
<1> HIDE DEF x
<1> QED BY <1>1, <1>2 DEF Edges

LEMMA DistressedIs ==
  ASSUME NEW d \in Records, NEW amount \in Int
  PROVE  LET t == Distressed(d, amount) IN t \in Records /\ t.who = d.who
<1> DEFINE x == Amount(d.frustration + amount)
<1>1. x \in 0 .. Unit
  <2>1. d.frustration + amount \in Int
    BY DEF Records, Unit
  <2> QED BY <2>1, ClampRange
<1>2. Distressed(d, amount) = [d EXCEPT !.frustration = x]
  BY DEF Distressed
<1> HIDE DEF x
<1> QED BY <1>1, <1>2 DEF Records

\* What remains is the end of the list.
LEMMA NewestIs ==
  ASSUME NEW S, NEW seq \in Seq(S)
  PROVE  /\ Newest(seq) \in Seq(S) /\ Len(Newest(seq)) <= SocialRecordLimit
         /\ \E cut \in Nat : \A k \in DOMAIN Newest(seq) :
              k + cut \in DOMAIN seq /\ Newest(seq)[k] = seq[k + cut]
<1> DEFINE n == Len(seq)
<1>1. SocialRecordLimit \in Nat /\ SocialRecordLimit > 0 /\ n \in Nat
  BY LimitType
<1>2. CASE n <= SocialRecordLimit
  <2>1. Newest(seq) = seq
    BY <1>2 DEF Newest
  <2>2. \A k \in DOMAIN seq : k + 0 \in DOMAIN seq /\ seq[k] = seq[k + 0]
    OBVIOUS
  <2> QED BY <1>2, <2>1, <2>2
<1>3. CASE n > SocialRecordLimit
  <2> DEFINE cut == n - SocialRecordLimit
  <2>1. Newest(seq) = SubSeq(seq, cut + 1, n)
    BY <1>1, <1>3 DEF Newest
  <2>2. cut \in Nat /\ cut + 1 \in 1 .. n
    BY <1>1, <1>3
  <2>3. /\ SubSeq(seq, cut + 1, n) \in Seq(S) /\ Len(SubSeq(seq, cut + 1, n)) = n - cut
        /\ \A k \in 1 .. n - cut : SubSeq(seq, cut + 1, n)[k] = seq[k + cut]
    <3> HIDE DEF cut
    <3> QED BY <1>1, <2>2
  <2>4. \A k \in 1 .. n - cut : k + cut \in DOMAIN seq
    BY <1>1, <2>2
  <2>5. n - cut = SocialRecordLimit
    BY <1>1
  <2> HIDE DEF cut, n
  <2>6. DOMAIN Newest(seq) = 1 .. n - cut /\ Newest(seq) \in Seq(S)
        /\ Len(Newest(seq)) <= SocialRecordLimit
    BY <1>1, <2>1, <2>3, <2>5
  <2> QED BY <2>1, <2>2, <2>3, <2>4, <2>6
<1> QED BY <1>1, <1>2, <1>3

\* Of a list one too long, only the oldest entry goes.
LEMMA NewestKeeps ==
  ASSUME NEW S, NEW seq \in Seq(S), Len(seq) > 0, Len(seq) <= SocialRecordLimit + 1
  PROVE  LET kept == Newest(seq) IN
         /\ kept[Len(kept)] = seq[Len(seq)]
         /\ \A k \in DOMAIN seq :
              \/ \E j \in DOMAIN kept : kept[j] = seq[k]
              \/ k = 1 /\ Len(seq) = SocialRecordLimit + 1
<1> DEFINE n == Len(seq)
<1>1. /\ SocialRecordLimit \in Nat /\ SocialRecordLimit > 0
      /\ n \in Nat /\ n > 0 /\ n <= SocialRecordLimit + 1
  BY LimitType
<1>2. CASE n <= SocialRecordLimit
  <2>1. Newest(seq) = seq
    BY <1>2 DEF Newest
  <2> QED BY <2>1
<1>3. CASE n > SocialRecordLimit
  <2>1. n = SocialRecordLimit + 1
    <3> HIDE DEF n
    <3> QED BY <1>1, <1>3
  <2>2. n - SocialRecordLimit + 1 = 2
    BY <1>1, <2>1
  <2>3. Newest(seq) = SubSeq(seq, 2, n)
    <3>1. Newest(seq) = SubSeq(seq, n - SocialRecordLimit + 1, n)
      BY <1>1, <1>3 DEF Newest
    <3> QED BY <2>2, <3>1
  <2> DEFINE kept == SubSeq(seq, 2, n)
  <2>4. Len(kept) = n - 1 /\ \A k \in 1 .. n - 1 : kept[k] = seq[k + 1]
    <3> HIDE DEF n
    <3>1. 2 \in 1 .. n /\ n - 2 + 1 = n - 1
      BY <1>1, <2>1
    <3>2. n = Len(seq)
      BY DEF n
    <3> QED BY <1>1, <3>1, <3>2
  <2>5. DOMAIN kept = 1 .. n - 1 /\ DOMAIN seq = 1 .. n
    BY <2>4
  <2> HIDE DEF kept
  <2>6. n - 1 \in 1 .. n - 1 /\ kept[n - 1] = seq[n]
    <3>1. n - 1 \in 1 .. n - 1 /\ n - 1 + 1 = n
      BY <1>1, <2>1
    <3> QED BY <2>4, <3>1
  <2>7. ASSUME NEW k \in 1 .. n, k # 1
        PROVE  \E j \in 1 .. n - 1 : kept[j] = seq[k]
    <3>1. k - 1 \in 1 .. n - 1 /\ k - 1 + 1 = k
      BY <1>1, <2>7
    <3> QED BY <2>4, <3>1
  <2>8. kept[Len(kept)] = seq[n]
    BY <2>4, <2>6
  <2>9. \A k \in DOMAIN seq : (\E j \in DOMAIN kept : kept[j] = seq[k]) \/ k = 1
    BY <2>5, <2>7
  <2> QED BY <2>1, <2>3, <2>8, <2>9 DEF kept
<1>4. n <= SocialRecordLimit \/ n > SocialRecordLimit
  <2> HIDE DEF n
  <2> QED BY <1>1
<1> QED BY <1>2, <1>3, <1>4

LEMMA EdgesNewest ==
  ASSUME NEW edges \in Seq(Edges),
         \A j, k \in DOMAIN edges :
           edges[j].from = edges[k].from /\ edges[j].to = edges[k].to => j = k
  PROVE  EdgeList(Newest(edges))
<1> DEFINE kept == Newest(edges)
<1>1. kept \in Seq(Edges) /\ Len(kept) <= SocialRecordLimit
  BY NewestIs
<1>2. PICK cut \in Nat : \A k \in DOMAIN kept : k + cut \in DOMAIN edges /\ kept[k] = edges[k + cut]
  BY NewestIs
<1> HIDE DEF kept
<1>3. ASSUME NEW j \in DOMAIN kept, NEW k \in DOMAIN kept,
             kept[j].from = kept[k].from, kept[j].to = kept[k].to
      PROVE  j = k
  <2>1. j + cut = k + cut
    BY <1>2, <1>3
  <2>2. j \in Nat /\ k \in Nat
    BY <1>1
  <2> QED BY <2>1, <2>2
<1>4. EdgeList(kept)
  BY <1>1, <1>3 DEF EdgeList
<1> QED BY <1>4 DEF kept

LEMMA RecordsNewest ==
  ASSUME NEW observed \in Seq(Records),
         \A j, k \in DOMAIN observed : observed[j].who = observed[k].who => j = k
  PROVE  RecordList(Newest(observed))
<1> DEFINE kept == Newest(observed)
<1>1. kept \in Seq(Records) /\ Len(kept) <= SocialRecordLimit
  BY NewestIs
<1>2. PICK cut \in Nat :
        \A k \in DOMAIN kept : k + cut \in DOMAIN observed /\ kept[k] = observed[k + cut]
  BY NewestIs
<1> HIDE DEF kept
<1>3. ASSUME NEW j \in DOMAIN kept, NEW k \in DOMAIN kept, kept[j].who = kept[k].who
      PROVE  j = k
  <2>1. j + cut = k + cut
    BY <1>2, <1>3
  <2>2. j \in Nat /\ k \in Nat
    BY <1>1
  <2> QED BY <2>1, <2>2
<1>4. RecordList(kept)
  BY <1>1, <1>3 DEF RecordList
<1> QED BY <1>4 DEF kept

\* Edges and records whose amounts change stay one for each pair and speaker.
LEMMA EdgesChanged ==
  ASSUME NEW edges, EdgeList(edges), NEW changed, changed = [k \in DOMAIN edges |-> changed[k]],
         \A k \in DOMAIN edges :
           changed[k] \in Edges /\ changed[k].from = edges[k].from /\ changed[k].to = edges[k].to
  PROVE  EdgeList(changed)
<1>1. DOMAIN edges = 1 .. Len(edges) /\ Len(edges) \in Nat
  BY DEF EdgeList
<1>2. changed \in [1 .. Len(edges) -> Edges]
  BY <1>1
<1>3. changed \in Seq(Edges) /\ Len(changed) = Len(edges)
  BY <1>1, <1>2
<1> QED BY <1>1, <1>3 DEF EdgeList

LEMMA RecordsChanged ==
  ASSUME NEW observed, RecordList(observed), NEW changed,
         changed = [k \in DOMAIN observed |-> changed[k]],
         \A k \in DOMAIN observed :
           changed[k] \in Records /\ changed[k].who = observed[k].who
  PROVE  RecordList(changed)
<1>1. DOMAIN observed = 1 .. Len(observed) /\ Len(observed) \in Nat
  BY DEF RecordList
<1>2. changed \in [1 .. Len(observed) -> Records]
  BY <1>1
<1>3. changed \in Seq(Records) /\ Len(changed) = Len(observed)
  BY <1>1, <1>2
<1> QED BY <1>1, <1>3 DEF RecordList

LEMMA EdgesStrained ==
  ASSUME NEW edges, EdgeList(edges), NEW amount \in Int
  PROVE  EdgeList([k \in DOMAIN edges |-> Strained(edges[k], amount)])
<1> DEFINE changed == [k \in DOMAIN edges |-> Strained(edges[k], amount)]
<1>1. \A k \in DOMAIN edges : edges[k] \in Edges
  BY DEF EdgeList
<1>2. \A k \in DOMAIN edges :
        changed[k] \in Edges /\ changed[k].from = edges[k].from /\ changed[k].to = edges[k].to
  BY <1>1, StrainedIs
<1>3. changed = [k \in DOMAIN edges |-> changed[k]]
  OBVIOUS
<1> HIDE DEF changed
<1>4. EdgeList(changed)
  BY <1>2, <1>3, EdgesChanged
<1> QED BY <1>4 DEF changed

LEMMA RecordsDistressed ==
  ASSUME NEW observed, RecordList(observed), NEW amount \in Int
  PROVE  RecordList([k \in DOMAIN observed |-> Distressed(observed[k], amount)])
<1> DEFINE changed == [k \in DOMAIN observed |-> Distressed(observed[k], amount)]
<1>1. \A k \in DOMAIN observed : observed[k] \in Records
  BY DEF RecordList
<1>2. \A k \in DOMAIN observed : changed[k] \in Records /\ changed[k].who = observed[k].who
  BY <1>1, DistressedIs
<1>3. changed = [k \in DOMAIN observed |-> changed[k]]
  OBVIOUS
<1> HIDE DEF changed
<1>4. RecordList(changed)
  BY <1>2, <1>3, RecordsChanged
<1> QED BY <1>4 DEF changed

LEMMA FadedInRange ==
  ASSUME NEW x \in 0 .. Unit, NEW factor \in 0 .. Unit
  PROVE  Mul(x, factor) \in 0 .. Unit
<1>1. x \in Nat /\ x <= 1000
  BY DEF Unit
<1> DEFINE y == Mul(x, factor)
<1>2. y \in 0 .. x
  BY <1>1, MulShare
<1> HIDE DEF y
<1>3. y \in 0 .. 1000
  BY <1>1, <1>2
<1> QED BY <1>3 DEF y, Unit

LEMMA EdgesFaded ==
  ASSUME NEW edges, EdgeList(edges), NEW factor \in 0 .. Unit
  PROVE  EdgeList([k \in DOMAIN edges |-> FadedEdge(edges[k], factor)])
<1> DEFINE changed == [k \in DOMAIN edges |-> FadedEdge(edges[k], factor)]
<1>1. ASSUME NEW d \in Edges
      PROVE  LET t == FadedEdge(d, factor) IN t \in Edges /\ t.from = d.from /\ t.to = d.to
  <2> DEFINE x == Mul(d.tension, factor)
  <2>1. x \in 0 .. Unit
    <3>1. d.tension \in 0 .. Unit
      BY DEF Edges
    <3> QED BY <3>1, FadedInRange
  <2>2. FadedEdge(d, factor) = [d EXCEPT !.tension = x]
    BY DEF FadedEdge
  <2> HIDE DEF x
  <2> QED BY <2>1, <2>2 DEF Edges
<1>2. \A k \in DOMAIN edges : edges[k] \in Edges
  BY DEF EdgeList
<1>3. \A k \in DOMAIN edges :
        changed[k] \in Edges /\ changed[k].from = edges[k].from /\ changed[k].to = edges[k].to
  BY <1>1, <1>2
<1>4. changed = [k \in DOMAIN edges |-> changed[k]]
  OBVIOUS
<1> HIDE DEF changed
<1>5. EdgeList(changed)
  BY <1>3, <1>4, EdgesChanged
<1> QED BY <1>5 DEF changed

LEMMA RecordsFaded ==
  ASSUME NEW observed, RecordList(observed), NEW factor \in 0 .. Unit
  PROVE  RecordList([k \in DOMAIN observed |-> FadedRecord(observed[k], factor)])
<1> DEFINE changed == [k \in DOMAIN observed |-> FadedRecord(observed[k], factor)]
<1>1. ASSUME NEW d \in Records
      PROVE  LET t == FadedRecord(d, factor) IN t \in Records /\ t.who = d.who
  <2> DEFINE x == Mul(d.frustration, factor)
  <2>1. x \in 0 .. Unit
    <3>1. d.frustration \in 0 .. Unit
      BY DEF Records
    <3> QED BY <3>1, FadedInRange
  <2>2. FadedRecord(d, factor) = [d EXCEPT !.frustration = x]
    BY DEF FadedRecord
  <2> HIDE DEF x
  <2> QED BY <2>1, <2>2 DEF Records
<1>2. \A k \in DOMAIN observed : observed[k] \in Records
  BY DEF RecordList
<1>3. \A k \in DOMAIN observed : changed[k] \in Records /\ changed[k].who = observed[k].who
  BY <1>1, <1>2
<1>4. changed = [k \in DOMAIN observed |-> changed[k]]
  OBVIOUS
<1> HIDE DEF changed
<1>5. RecordList(changed)
  BY <1>3, <1>4, RecordsChanged
<1> QED BY <1>5 DEF changed

-----------------------------------------------------------------------------
(* Records of values.                                                      *)

\* The values of a session and what it remembers of others' exchanges.
WellFormed(s) ==
  /\ Known(s) \subseteq Participants
  /\ s \in [valence : -Unit .. Unit, arousal : 0 .. Unit, frustration : 0 .. Unit,
            offended : 0 .. Unit, atmosphere : 0 .. Unit,
            mood : {"irritated", "open", "low", "neutral"},
            rel : [Known(s) -> Relations],
            conflicts : {s.conflicts}, edges : {s.edges}, observed : {s.observed},
            sensitive : BOOLEAN, posture : Postures]
  /\ EdgeList(s.edges) /\ RecordList(s.observed)

SameFeelings(t, s) ==
  /\ t.valence = s.valence /\ t.arousal = s.arousal
  /\ t.frustration = s.frustration /\ t.offended = s.offended

SameRegard(r, q) == r.trust = q.trust /\ r.affinity = q.affinity /\ r.respect = q.respect
SameStrain(r, q) == r.irritation = q.irritation /\ r.tension = q.tension

LEMMA ValuesOf ==
  ASSUME NEW s, WellFormed(s)
  PROVE  /\ s.valence \in -Unit .. Unit /\ s.arousal \in 0 .. Unit
         /\ s.frustration \in 0 .. Unit /\ s.offended \in 0 .. Unit
         /\ s.atmosphere \in 0 .. Unit
         /\ s.rel \in [Known(s) -> Relations] /\ Known(s) \subseteq Participants
         /\ \A p \in Known(s) : s.rel[p] \in Relations
         /\ EdgeList(s.edges) /\ RecordList(s.observed)
  BY DEF WellFormed

LEMMA SetRel ==
  ASSUME NEW s, WellFormed(s), NEW known \in SUBSET Participants, NEW rel \in [known -> Relations]
  PROVE  LET t == [s EXCEPT !.rel = rel] IN
         /\ WellFormed(t) /\ t.rel = rel /\ Known(t) = known
         /\ SameFeelings(t, s) /\ t.atmosphere = s.atmosphere /\ t.conflicts = s.conflicts
         /\ t.mood = s.mood /\ t.sensitive = s.sensitive
  BY DEF WellFormed, Known, SameFeelings

LEMMA SetRelOf ==
  ASSUME NEW s, WellFormed(s), NEW p \in Known(s), NEW r \in Relations
  PROVE  LET t == [s EXCEPT !.rel[p] = r] IN
         /\ WellFormed(t) /\ t.rel = [s.rel EXCEPT ![p] = r] /\ Known(t) = Known(s)
         /\ SameFeelings(t, s) /\ t.atmosphere = s.atmosphere /\ t.conflicts = s.conflicts
         /\ t.mood = s.mood /\ t.sensitive = s.sensitive
<1> DEFINE rel == [s.rel EXCEPT ![p] = r]
<1>1. rel \in [Known(s) -> Relations] /\ Known(s) \in SUBSET Participants
  BY ValuesOf
<1>2. [s EXCEPT !.rel[p] = r] = [s EXCEPT !.rel = rel]
  OBVIOUS
<1> HIDE DEF rel
<1>3. LET t == [s EXCEPT !.rel = rel] IN
         /\ WellFormed(t) /\ t.rel = rel /\ Known(t) = Known(s)
         /\ SameFeelings(t, s) /\ t.atmosphere = s.atmosphere /\ t.conflicts = s.conflicts
         /\ t.mood = s.mood /\ t.sensitive = s.sensitive
  BY <1>1, SetRel
<1> QED BY <1>2, <1>3 DEF rel

LEMMA FeelIs ==
  ASSUME NEW s, WellFormed(s), NEW v \in Int, NEW a \in Int, NEW f \in Int, NEW o \in Int
  PROVE  LET t == Feel(s, v, a, f, o) IN
         /\ WellFormed(t) /\ t.rel = s.rel /\ Known(t) = Known(s)
         /\ t.offended = Amount(s.offended + o) /\ t.conflicts = s.conflicts
         /\ t.atmosphere = s.atmosphere
<1> DEFINE nv == Signed(s.valence + v)  na == Amount(s.arousal + a)
           nf == Amount(s.frustration + f)  no == Amount(s.offended + o)
<1>1. /\ s.valence + v \in Int /\ s.arousal + a \in Int
      /\ s.frustration + f \in Int /\ s.offended + o \in Int
  <2>1. s.valence \in Int /\ s.arousal \in Int /\ s.frustration \in Int /\ s.offended \in Int
    BY ValuesOf, RangesInt
  <2> QED BY <2>1
<1>2. /\ nv \in -Unit .. Unit /\ na \in 0 .. Unit /\ nf \in 0 .. Unit /\ no \in 0 .. Unit
  BY <1>1, ClampRange
<1>3. Feel(s, v, a, f, o) =
        [s EXCEPT !.valence = nv, !.arousal = na, !.frustration = nf, !.offended = no]
  BY DEF Feel
<1> HIDE DEF nv, na, nf, no
<1>4. LET t == [s EXCEPT !.valence = nv, !.arousal = na, !.frustration = nf, !.offended = no] IN
        /\ WellFormed(t) /\ t.rel = s.rel /\ Known(t) = Known(s) /\ t.offended = no
        /\ t.conflicts = s.conflicts /\ t.atmosphere = s.atmosphere
  BY <1>2 DEF WellFormed, Known
<1> QED BY <1>3, <1>4 DEF no

LEMMA RegardSet ==
  ASSUME NEW r \in Relations, NEW x \in Int, NEW y \in Int, NEW z \in Int, NEW i \in Int, NEW j \in Int
  PROVE  [r EXCEPT !.trust = Signed(x), !.affinity = Signed(y), !.respect = Signed(z),
                   !.irritation = Amount(i), !.tension = Amount(j)] \in Relations
<1>1. /\ Signed(x) \in -Unit .. Unit /\ Signed(y) \in -Unit .. Unit /\ Signed(z) \in -Unit .. Unit
      /\ Amount(i) \in 0 .. Unit /\ Amount(j) \in 0 .. Unit
  BY ClampRange
<1> QED BY <1>1 DEF Relations

LEMMA RepairedIs ==
  ASSUME NEW r \in Relations, NEW amount \in Int
  PROVE  LET q == Repaired(r, amount) IN
         q \in Relations /\ SameRegard(q, r) /\ q.tension = Amount(r.tension - amount)
<1>1. r.irritation - amount \in Int /\ r.tension - amount \in Int
  <2>1. r.irritation \in Int /\ r.tension \in Int
    BY RelationOf, RangesInt
  <2> QED BY <2>1
<1>2. Amount(r.irritation - amount) \in 0 .. Unit /\ Amount(r.tension - amount) \in 0 .. Unit
  BY <1>1, ClampRange
<1> QED BY <1>2 DEF Repaired, Relations, SameRegard

LEMMA StrangerIs == Stranger \in Relations /\ Stranger.tension = 0
  BY DEF Stranger, Relations, Unit

LEMMA MeetIs ==
  ASSUME NEW s, WellFormed(s), NEW p \in Participants
  PROVE  LET t == Meet(s, p) IN
         /\ WellFormed(t) /\ Known(t) = Known(s) \cup {p}
         /\ \A q \in Known(t) : t.rel[q] = IF q \in Known(s) THEN s.rel[q] ELSE Stranger
         /\ SameFeelings(t, s) /\ t.atmosphere = s.atmosphere /\ t.conflicts = s.conflicts
         /\ t.mood = s.mood /\ t.sensitive = s.sensitive
<1> DEFINE known == Known(s) \cup {p}
           rel == [q \in known |-> IF q \in Known(s) THEN s.rel[q] ELSE Stranger]
<1>1. known \in SUBSET Participants /\ rel \in [known -> Relations]
  BY ValuesOf, StrangerIs
<1>2. Meet(s, p) = [s EXCEPT !.rel = rel]
  BY DEF Meet, Known
<1>3. \A q \in known : rel[q] = IF q \in Known(s) THEN s.rel[q] ELSE Stranger
  OBVIOUS
<1>4. known = Known(s) \cup {p}
  OBVIOUS
<1> HIDE DEF known, rel
<1>5. LET t == [s EXCEPT !.rel = rel] IN
        /\ WellFormed(t) /\ t.rel = rel /\ Known(t) = known
        /\ SameFeelings(t, s) /\ t.atmosphere = s.atmosphere /\ t.conflicts = s.conflicts
        /\ t.mood = s.mood /\ t.sensitive = s.sensitive
  BY <1>1, SetRel
<1> QED BY <1>2, <1>3, <1>4, <1>5

\* The open conflicts are those of the tension stored, with its heat.
ConflictsOf(s) ==
  /\ s.conflicts \in [DOMAIN s.conflicts -> 0 .. Unit]
  /\ DOMAIN s.conflicts = {p \in Known(s) : s.rel[p].tension > Half(PositiveStep)}
  /\ \A p \in DOMAIN s.conflicts : s.conflicts[p] = s.rel[p].tension

LEMMA RefreshIs ==
  ASSUME NEW s, WellFormed(s)
  PROVE  LET t == RefreshConflicts(s) IN
         /\ WellFormed(t) /\ ConflictsOf(t) /\ t.rel = s.rel /\ Known(t) = Known(s)
         /\ SameFeelings(t, s) /\ t.atmosphere = s.atmosphere /\ t.mood = s.mood
         /\ t.sensitive = s.sensitive
<1> DEFINE open == {q \in Known(s) : s.rel[q].tension > Half(PositiveStep)}
           heat == [p \in open |-> s.rel[p].tension]
<1>1. RefreshConflicts(s) = [s EXCEPT !.conflicts = heat]
  BY DEF RefreshConflicts
<1>2. /\ DOMAIN heat = {q \in Known(s) : s.rel[q].tension > Half(PositiveStep)}
      /\ \A p \in DOMAIN heat : heat[p] = s.rel[p].tension
      /\ heat \in [DOMAIN heat -> 0 .. Unit]
  BY ValuesOf, RelationOf
<1> HIDE DEF open, heat
<1>3. LET t == [s EXCEPT !.conflicts = heat] IN
         /\ WellFormed(t) /\ t.conflicts = heat /\ t.rel = s.rel /\ Known(t) = Known(s)
         /\ SameFeelings(t, s) /\ t.atmosphere = s.atmosphere /\ t.mood = s.mood
         /\ t.sensitive = s.sensitive
  BY DEF WellFormed, Known, SameFeelings
<1> DEFINE t == [s EXCEPT !.conflicts = heat]
<1>4. t.conflicts = heat /\ t.rel = s.rel /\ Known(t) = Known(s)
  BY <1>3
<1> HIDE DEF t
<1>5. ConflictsOf(t)
  BY <1>2, <1>4 DEF ConflictsOf
<1> QED BY <1>1, <1>3, <1>5 DEF t

-----------------------------------------------------------------------------
(* What one event does.                                                    *)

\* From s, the event of speaker p leads to t: the regard for others is as it
\* was.
Reaches(t, s, p) ==
  /\ WellFormed(t) /\ Known(t) = Known(s)
  /\ \A q \in Known(s) \ {p} : SameRegard(t.rel[q], s.rel[q])

\* Offence and tension towards p have risen, or have fallen, by an amount that
\* no personality, trust or history can make vanish.
Hurt(t, s, p) ==
  \E o \in Nat :
    /\ o >= 3
    /\ t.offended = Amount(s.offended + o)
    /\ t.rel[p].tension = Amount(s.rel[p].tension + o)

Healed(t, s, p) ==
  \E o \in Nat :
    /\ o >= 7
    /\ t.offended = Amount(s.offended - o)
    /\ t.rel[p].tension = Amount(s.rel[p].tension - o)

\* The last part of most events: the relationship with p becomes r.
LEMMA ReachesBy ==
  ASSUME NEW s, NEW f, WellFormed(f), f.rel = s.rel, Known(f) = Known(s),
         NEW p \in Known(s), NEW r \in Relations
  PROVE  LET t == [f EXCEPT !.rel[p] = r] IN
         Reaches(t, s, p) /\ t.offended = f.offended /\ t.rel[p] = r
<1> DEFINE t == [f EXCEPT !.rel[p] = r]
<1>1. WellFormed(t) /\ t.rel = [f.rel EXCEPT ![p] = r] /\ Known(t) = Known(f) /\ SameFeelings(t, f)
  BY SetRelOf
<1>2. f.rel \in [Known(f) -> Relations]
  BY ValuesOf
<1> HIDE DEF t
<1>3. \A q \in Known(s) \ {p} : t.rel[q] = s.rel[q]
  BY <1>1, <1>2
<1>4. t.rel[p] = r
  BY <1>1, <1>2
<1> QED BY <1>1, <1>3, <1>4 DEF t, Reaches, SameRegard, SameFeelings

LEMMA PleaseIs ==
  ASSUME NEW s, WellFormed(s), NEW e \in Events, NEW c \in Configurations, e.speaker \in Known(s)
  PROVE  Reaches(Please(s, e, c), s, e.speaker)
<1> DEFINE p == e.speaker  r == s.rel[p]
           amount == Mul(PositiveStep, Reaction(c, e))
           half == Half(amount)
           f == Feel(s, amount, half, 0, 0)
           x == Signed(r.trust + amount)  y == Signed(r.affinity + amount)
           praised == [r EXCEPT !.trust = x, !.affinity = y]
           q == Repaired(praised, half)
<1>1. amount \in Int /\ half \in Int
  <2>1. PositiveStep \in Int /\ Reaction(c, e) \in Int
    BY ReactionRange DEF PositiveStep
  <2>2. amount \in Int
    BY <2>1, MulInt
  <2> HIDE DEF amount
  <2> QED BY <2>2, HalfInt
<1>2. r \in Relations
  BY ValuesOf
<1>3. r.trust \in Int /\ r.affinity \in Int
  BY <1>2, RelationOf, RangesInt
<1> HIDE DEF amount, half
<1>4. WellFormed(f) /\ f.rel = s.rel /\ Known(f) = Known(s)
  BY <1>1, FeelIs
<1>5. x \in -Unit .. Unit /\ y \in -Unit .. Unit
  <2>1. r.trust + amount \in Int /\ r.affinity + amount \in Int
    BY <1>1, <1>3
  <2> QED BY <2>1, ClampRange
<1> HIDE DEF x, y, r
<1>6. praised \in Relations
  BY <1>2, <1>5 DEF Relations
<1> HIDE DEF praised
<1>7. q \in Relations
  BY <1>1, <1>6, RepairedIs
<1>8. Please(s, e, c) = [f EXCEPT !.rel[p] = q]
  BY DEF Please, amount, half, praised, x, y, r
<1> HIDE DEF f, q, p
<1>9. p \in Known(s)
  BY DEF p
<1>10. Reaches([f EXCEPT !.rel[p] = q], s, p)
  BY <1>4, <1>7, <1>9, ReachesBy
<1> QED BY <1>8, <1>10 DEF p

LEMMA AmuseIs ==
  ASSUME NEW s, WellFormed(s), NEW e \in Events, NEW c \in Configurations, e.speaker \in Known(s)
  PROVE  Reaches(Amuse(s, e, c), s, e.speaker)
<1> DEFINE p == e.speaker  r == s.rel[p]
           amount == Mul(HumorStep, Reaction(c, e))
           fun == Mul(amount, c.traits["playfulness"])
           half == Half(amount - fun)
           f == Feel(s, fun, amount, half, 0)
           x == Signed(r.affinity + fun)
           q == [r EXCEPT !.affinity = x]
<1>1. amount \in Int /\ fun \in Int /\ half \in Int
  <2>1. HumorStep \in Int /\ Reaction(c, e) \in Int /\ c.traits["playfulness"] \in Int
    BY ReactionRange, TraitsOf, RangesInt DEF HumorStep, Traits
  <2>2. amount \in Int
    BY <2>1, MulInt
  <2> HIDE DEF amount
  <2>3. fun \in Int
    BY <2>1, <2>2, MulInt
  <2> HIDE DEF fun
  <2>4. amount - fun \in Int
    BY <2>2, <2>3
  <2> QED BY <2>2, <2>3, <2>4, HalfInt
<1>2. r \in Relations
  BY ValuesOf
<1> HIDE DEF amount, fun, half
<1>3. WellFormed(f) /\ f.rel = s.rel /\ Known(f) = Known(s)
  BY <1>1, FeelIs
<1>4. x \in -Unit .. Unit
  <2>1. r.affinity + fun \in Int
    BY <1>1, <1>2, RelationOf, RangesInt
  <2> QED BY <2>1, ClampRange
<1> HIDE DEF x, r
<1>5. q \in Relations
  BY <1>2, <1>4 DEF Relations
<1>6. Amuse(s, e, c) = [f EXCEPT !.rel[p] = q]
  BY DEF Amuse, amount, fun, half, x, r
<1> HIDE DEF f, q, p
<1>7. p \in Known(s)
  BY DEF p
<1>8. Reaches([f EXCEPT !.rel[p] = q], s, p)
  BY <1>3, <1>5, <1>7, ReachesBy
<1> QED BY <1>6, <1>8 DEF p

LEMMA TeaseIs ==
  ASSUME NEW s, WellFormed(s), NEW e \in Events, NEW c \in Configurations, e.speaker \in Known(s)
  PROVE  Reaches(Tease(s, e, c), s, e.speaker)
<1> DEFINE p == e.speaker  r == s.rel[p]
           playfulness == c.traits["playfulness"]
           step == Mul(HumorStep, Reaction(c, e))
           compatibility == HumorCompatibility(c, r)
           misread == Mul(TraitFactor(Unit - playfulness), TraitFactor(c.traits["pride"]))
           friction == Mul(Mul(Mul(Mul(step, misread), 2 * Unit - compatibility),
                               SensitivityMultiplier(c, e)), Unit + r.tension)
           enjoyment == Mul(step, Mul(playfulness, compatibility))
           arousal == Greater(enjoyment, friction)
           offended == Mul(friction, c.traits["pride"])
           f == Feel(s, enjoyment - friction, arousal, friction, offended)
           x == Signed(r.affinity + enjoyment - friction)
           y == Amount(r.irritation + friction)
           z == Amount(r.tension + Greater(0, friction - enjoyment))
           q == [r EXCEPT !.affinity = x, !.irritation = y, !.tension = z]
<1>1. playfulness \in Int /\ c.traits["pride"] \in Int /\ step \in Int
  <2>1. HumorStep \in Int /\ Reaction(c, e) \in Int
    BY ReactionRange DEF HumorStep
  <2> QED BY <2>1, MulInt, TraitsOf, RangesInt DEF Traits
<1>2. r \in Relations
  BY ValuesOf
<1>3. r.affinity \in Int /\ r.irritation \in Int /\ r.tension \in Int /\ r.playful \in Int
  BY <1>2, RelationOf, RangesInt
<1>4. Unit \in Int /\ SensitivityMultiplier(c, e) \in Int
  BY SensitivityRange DEF Unit
<1> HIDE DEF playfulness, step, r
<1>5. compatibility \in Int
  BY <1>1, <1>3, <1>4 DEF HumorCompatibility, Distance, Greater, playfulness
<1>6. misread \in Int
  <2>1. \A v \in Int : TraitFactor(v) \in Int
    BY MulInt, <1>4 DEF TraitFactor, Floor
  <2>2. Unit - playfulness \in Int
    BY <1>1, <1>4
  <2> QED BY <1>1, <2>1, <2>2, MulInt
<1> HIDE DEF compatibility, misread
<1>7. friction \in Int
  <2> DEFINE a == Mul(step, misread)  b == Mul(a, 2 * Unit - compatibility)
             d == Mul(b, SensitivityMultiplier(c, e))
  <2>1. a \in Int
    BY <1>1, <1>6, MulInt
  <2>2. 2 * Unit - compatibility \in Int /\ Unit + r.tension \in Int
    BY <1>3, <1>4, <1>5
  <2> HIDE DEF a
  <2>3. b \in Int
    BY <2>1, <2>2, MulInt
  <2> HIDE DEF b
  <2>4. d \in Int
    BY <1>4, <2>3, MulInt
  <2> HIDE DEF d
  <2>5. Mul(d, Unit + r.tension) \in Int
    BY <2>2, <2>4, MulInt
  <2> QED BY <2>5 DEF a, b, d
<1>8. enjoyment \in Int
  <2>1. Mul(playfulness, compatibility) \in Int
    BY <1>1, <1>5, MulInt
  <2> QED BY <1>1, <2>1, MulInt
<1> HIDE DEF friction, enjoyment
<1>9. arousal \in Int /\ offended \in Int /\ enjoyment - friction \in Int
  <2>1. arousal \in Int /\ enjoyment - friction \in Int
    BY <1>7, <1>8 DEF Greater
  <2>2. offended \in Int
    BY <1>1, <1>7, MulInt
  <2> QED BY <2>1, <2>2
<1> HIDE DEF arousal, offended
<1>10. WellFormed(f) /\ f.rel = s.rel /\ Known(f) = Known(s)
  BY <1>7, <1>9, FeelIs
<1>11. x \in -Unit .. Unit /\ y \in 0 .. Unit /\ z \in 0 .. Unit
  <2>1. /\ r.affinity + enjoyment - friction \in Int /\ r.irritation + friction \in Int
        /\ r.tension + Greater(0, friction - enjoyment) \in Int
    BY <1>3, <1>7, <1>8 DEF Greater
  <2> QED BY <2>1, ClampRange
<1> HIDE DEF x, y, z
<1>12. q \in Relations
  BY <1>2, <1>11 DEF Relations
<1>13. Tease(s, e, c) = [f EXCEPT !.rel[p] = q]
  BY DEF Tease, r, playfulness, step, compatibility, misread, friction, enjoyment, arousal,
         offended, x, y, z
<1> HIDE DEF f, q, p
<1>14. p \in Known(s)
  BY DEF p
<1>15. Reaches([f EXCEPT !.rel[p] = q], s, p)
  BY <1>10, <1>12, <1>14, ReachesBy
<1> QED BY <1>13, <1>15 DEF p

LEMMA Floors ==
  /\ Mul(240, 125) = 30 /\ Mul(30, 250) = 7 /\ Mul(7, 1000) = 7 /\ Mul(7, 500) = 3
  /\ Mul(3, 1000) = 3 /\ Mul(125, 250) = 31 /\ Mul(240, 31) = 7
  BY DEF Mul, Unit

\* A hostile event for the bot always hurts: whatever the personality, the
\* trust and the history, offence and tension rise by at least 3 thousandths,
\* within their range.
LEMMA OffendIs ==
  ASSUME NEW s, WellFormed(s), NEW e \in Events, NEW c \in Configurations, e.speaker \in Known(s)
  PROVE  LET t == Offend(s, e, c) IN
         /\ Reaches(t, s, e.speaker)
         /\ Hurt(t, s, e.speaker)
<1> DEFINE p == e.speaker  r == s.rel[p]
           amount == Mul(HostilityStep, Reaction(c, e))
           softened == Unit - Half(SocialReceptivity(c, r))
           hurt == Mul(Mul(amount, TraitFactor(c.traits["pride"])), SensitivityMultiplier(c, e))
           offense == Mul(Mul(hurt, softened), Unit + r.tension)
           f == Feel(s, -amount, amount, amount, offense)
           u == Amount(r.irritation + amount)
           v == Amount(r.tension + offense)
           x == Signed(r.trust - Half(offense))
           y == Signed(r.respect - Half(offense))
           z == Signed(r.affinity - offense)
           q == [r EXCEPT !.irritation = u, !.tension = v, !.trust = x, !.respect = y,
                          !.affinity = z]
<1>1. amount \in Nat /\ amount >= 30
  <2>1. Reaction(c, e) \in Nat /\ Reaction(c, e) >= 125
    BY ReactionRange
  <2> DEFINE a == Reaction(c, e)
  <2>2. a \in Nat /\ 125 <= a
    BY <2>1
  <2> HIDE DEF a
  <2>3. Mul(240, 125) <= Mul(240, a) /\ Mul(240, a) \in Nat
    BY <2>2, MulGrows, MulNat
  <2> QED BY <2>3, Floors DEF HostilityStep, a
<1>2. r \in Relations
  BY ValuesOf
<1>3. r.tension \in Nat /\ r.irritation \in Int /\ r.trust \in Int /\ r.respect \in Int
      /\ r.affinity \in Int
  BY <1>2, RelationOf, RangesInt
<1>4. softened \in Nat /\ softened >= 500
  <2>1. Half(SocialReceptivity(c, r)) \in 0 .. 500
    <3>1. SocialReceptivity(c, r) \in 0 .. Unit
      BY <1>2, ReceptivityRange
    <3> QED BY <3>1, HalfRange
  <2> DEFINE a == Half(SocialReceptivity(c, r))
  <2>2. a \in 0 .. 500
    BY <2>1
  <2> HIDE DEF a
  <2>3. Unit - a \in Nat /\ Unit - a >= 500
    BY <2>2 DEF Unit
  <2> QED BY <2>3 DEF a
<1> HIDE DEF amount, softened, r
<1>5. hurt \in Nat /\ hurt >= 7
  <2> DEFINE a == TraitFactor(c.traits["pride"])  b == Mul(amount, a)
             m == SensitivityMultiplier(c, e)
  <2>1. a \in Floor .. Unit
    BY TraitsOf, TraitFactorRange DEF Traits
  <2> HIDE DEF a
  <2>2. a \in Nat /\ a >= 250
    BY <2>1 DEF Floor, Unit
  <2>3. Mul(30, 250) <= b /\ b \in Nat
    BY <1>1, <2>2, MulGrows, MulNat
  <2> HIDE DEF b
  <2>4. b >= 7
    BY <2>3, Floors
  <2>5. m \in Nat /\ m >= 1000
    BY SensitivityRange DEF Unit
  <2> HIDE DEF m
  <2>6. Mul(7, 1000) <= Mul(b, m) /\ Mul(b, m) \in Nat
    <3>1. b \in Nat /\ 7 <= b /\ 1000 <= m
      BY <2>3, <2>4, <2>5
    <3> QED BY <2>5, <3>1, MulGrows, MulNat
  <2>7. Mul(b, m) >= 7
    BY <2>6, Floors
  <2> QED BY <2>6, <2>7 DEF a, b, m
<1> HIDE DEF hurt
<1>6. offense \in Nat /\ offense >= 3
  <2> DEFINE a == Mul(hurt, softened)  b == Unit + r.tension
  <2>1. Mul(7, 500) <= a /\ a \in Nat
    BY <1>4, <1>5, MulGrows, MulNat
  <2> HIDE DEF a
  <2>2. a >= 3
    BY <2>1, Floors
  <2>3. b \in Nat /\ b >= 1000
    BY <1>3 DEF Unit
  <2> HIDE DEF b
  <2>4. Mul(3, 1000) <= Mul(a, b) /\ Mul(a, b) \in Nat
    <3>1. a \in Nat /\ 3 <= a /\ 1000 <= b
      BY <2>1, <2>2, <2>3
    <3> QED BY <2>3, <3>1, MulGrows, MulNat
  <2>5. Mul(a, b) >= 3
    BY <2>4, Floors
  <2> QED BY <2>4, <2>5 DEF a, b
<1> HIDE DEF offense
<1>7. WellFormed(f) /\ f.rel = s.rel /\ Known(f) = Known(s) /\ f.offended = Amount(s.offended + offense)
  <2>1. -amount \in Int /\ amount \in Int /\ offense \in Int
    BY <1>1, <1>6
  <2> QED BY <2>1, FeelIs
<1>8. /\ u \in 0 .. Unit /\ v \in 0 .. Unit
      /\ x \in -Unit .. Unit /\ y \in -Unit .. Unit /\ z \in -Unit .. Unit
  <2>1. Half(offense) \in Int
    <3>1. offense \in Int
      BY <1>6
    <3> QED BY <3>1, HalfInt
  <2>2. /\ r.irritation + amount \in Int /\ r.tension + offense \in Int
        /\ r.trust - Half(offense) \in Int /\ r.respect - Half(offense) \in Int
        /\ r.affinity - offense \in Int
    BY <1>1, <1>3, <1>6, <2>1
  <2> QED BY <2>2, ClampRange
<1>9. v = Amount(r.tension + offense)
  OBVIOUS
<1> HIDE DEF u, v, x, y, z
<1>10. q \in Relations /\ q.tension = v
  BY <1>2, <1>8 DEF Relations
<1>11. Offend(s, e, c) = [f EXCEPT !.rel[p] = q]
  BY DEF Offend, r, amount, softened, hurt, offense, u, v, x, y, z
<1> HIDE DEF f, q, p
<1>12. p \in Known(s)
  BY DEF p
<1> DEFINE t == [f EXCEPT !.rel[p] = q]
<1>13. Reaches(t, s, p) /\ t.offended = f.offended /\ t.rel[p] = q
  BY <1>7, <1>10, <1>12, ReachesBy
<1> HIDE DEF t
<1>14. t.offended = Amount(s.offended + offense) /\ t.rel[p].tension = Amount(s.rel[p].tension + offense)
  BY <1>7, <1>9, <1>10, <1>13 DEF r
<1>15. Offend(s, e, c) = t
  BY <1>11 DEF t
<1> QED BY <1>6, <1>13, <1>14, <1>15 DEF p, Hurt

LEMMA RepairEveryoneIs ==
  ASSUME NEW f, WellFormed(f), NEW amount \in Int
  PROVE  LET t == RepairEveryone(f, amount) IN
         /\ WellFormed(t) /\ Known(t) = Known(f) /\ SameFeelings(t, f)
         /\ \A q \in Known(f) : SameRegard(t.rel[q], f.rel[q])
         /\ t.atmosphere = f.atmosphere
<1> DEFINE rel == [p \in Known(f) |-> Repaired(f.rel[p], amount)]
<1>1. rel \in [Known(f) -> Relations] /\ Known(f) \in SUBSET Participants
  BY ValuesOf, RepairedIs
<1>2. \A q \in Known(f) : SameRegard(rel[q], f.rel[q])
  BY ValuesOf, RepairedIs
<1>3. RepairEveryone(f, amount) = [f EXCEPT !.rel = rel]
  BY DEF RepairEveryone, Known
<1> HIDE DEF rel
<1>4. LET t == [f EXCEPT !.rel = rel] IN
         WellFormed(t) /\ t.rel = rel /\ Known(t) = Known(f) /\ SameFeelings(t, f)
         /\ t.atmosphere = f.atmosphere
  BY <1>1, SetRel
<1> QED BY <1>2, <1>3, <1>4

LEMMA DisagreeIs ==
  ASSUME NEW s, WellFormed(s), NEW e \in Events, NEW c \in Configurations, e.speaker \in Known(s)
  PROVE  Reaches(Disagree(s, e, c), s, e.speaker)
<1> DEFINE amount == Mul(FrictionStep, Reaction(c, e))  half == Half(amount)
<1>1. amount \in Int
  BY ReactionRange, MulInt DEF FrictionStep
<1> HIDE DEF amount
<1>2. half \in Int
  BY <1>1, HalfInt
<1> HIDE DEF half
<1> DEFINE t == Feel(s, 0, amount, half, 0)
<1>3. WellFormed(t) /\ t.rel = s.rel /\ Known(t) = Known(s)
  BY <1>1, <1>2, FeelIs
<1>4. Disagree(s, e, c) = t
  BY DEF Disagree, amount, half
<1> HIDE DEF t
<1> QED BY <1>3, <1>4 DEF Reaches, SameRegard

LEMMA SteerIs ==
  ASSUME NEW s, WellFormed(s), NEW e \in Events, NEW c \in Configurations, e.speaker \in Known(s)
  PROVE  Reaches(Steer(s, e, c), s, e.speaker)
<1> DEFINE p == e.speaker  r == s.rel[p]
           amount == Half(Mul(PositiveStep, Reaction(c, e)))
           x == Signed(r.respect + amount)
           q == [r EXCEPT !.respect = x]
<1>1. Mul(PositiveStep, Reaction(c, e)) \in Int
  BY ReactionRange, MulInt DEF PositiveStep
<1>2. amount \in Int
  BY <1>1, HalfInt
<1>3. r \in Relations
  BY ValuesOf
<1> HIDE DEF amount
<1>4. x \in -Unit .. Unit
  <2>1. r.respect + amount \in Int
    BY <1>2, <1>3, RelationOf, RangesInt
  <2> QED BY <2>1, ClampRange
<1> HIDE DEF x, r
<1>5. q \in Relations
  BY <1>3, <1>4 DEF Relations
<1>6. Steer(s, e, c) = [s EXCEPT !.rel[p] = q]
  BY DEF Steer, amount, x, r
<1> HIDE DEF q, p
<1>7. p \in Known(s)
  BY DEF p
<1>8. Reaches([s EXCEPT !.rel[p] = q], s, p)
  BY <1>5, <1>7, ReachesBy
<1> QED BY <1>6, <1>8 DEF p

LEMMA HeatIs ==
  ASSUME NEW s, WellFormed(s), NEW p
  PROVE  Reaches(Heat(s), s, p)
<1>1. ModerationStep \in Int /\ Half(ModerationStep) \in Int
  BY HalfInt DEF ModerationStep
<1> DEFINE t == Feel(s, 0, ModerationStep, Half(ModerationStep), 0)
<1>2. WellFormed(t) /\ t.rel = s.rel /\ Known(t) = Known(s)
  BY <1>1, FeelIs
<1>3. Heat(s) = t
  BY DEF Heat
<1> HIDE DEF t
<1> QED BY <1>2, <1>3 DEF Reaches, SameRegard

LEMMA CalmIs ==
  ASSUME NEW s, WellFormed(s), NEW c, NEW p
  PROVE  Reaches(Calm(s, c), s, p)
<1> DEFINE f == Feel(s, 0, -ModerationStep, -ModerationStep, -ModerationStep)
           g == RepairEveryone(f, ModerationStep)
           atmosphere == Amount(g.atmosphere - ModerationStep)
           edges == [k \in DOMAIN g.edges |-> Strained(g.edges[k], -ModerationStep)]
           observed == [k \in DOMAIN g.observed |-> Distressed(g.observed[k], -ModerationStep)]
           t == [g EXCEPT !.atmosphere = atmosphere, !.edges = edges, !.observed = observed]
<1>1. ModerationStep \in Int /\ -ModerationStep \in Int
  BY DEF ModerationStep
<1>2. WellFormed(f) /\ f.rel = s.rel /\ Known(f) = Known(s)
  BY <1>1, FeelIs
<1>3. Calm(s, c) = t
  BY DEF Calm
<1> HIDE DEF f
<1>4. WellFormed(g) /\ Known(g) = Known(f) /\ \A q \in Known(f) : SameRegard(g.rel[q], f.rel[q])
  BY <1>1, <1>2, RepairEveryoneIs
<1> HIDE DEF g
<1>5. atmosphere \in 0 .. Unit
  <2>1. g.atmosphere \in Int
    BY <1>4, ValuesOf, RangesInt
  <2>2. g.atmosphere - ModerationStep \in Int
    BY <1>1, <2>1
  <2> QED BY <2>2, ClampRange
<1>6. EdgeList(edges) /\ RecordList(observed)
  BY <1>1, <1>4, ValuesOf, EdgesStrained, RecordsDistressed
<1> HIDE DEF atmosphere, edges, observed
<1>7. WellFormed(t) /\ t.rel = g.rel /\ Known(t) = Known(g)
  BY <1>4, <1>5, <1>6 DEF WellFormed, Known
<1> HIDE DEF t
<1> QED BY <1>2, <1>3, <1>4, <1>7 DEF Reaches

\* A repair always helps: "even the least receptive relationship has an
\* ordinary repair path".
LEMMA ReconcileIs ==
  ASSUME NEW s, WellFormed(s), NEW e \in Events, NEW c \in Configurations, e.speaker \in Known(s)
  PROVE  LET t == Reconcile(s, e, c) IN
         /\ Reaches(t, s, e.speaker)
         /\ Healed(t, s, e.speaker)
<1> DEFINE p == e.speaker  r == s.rel[p]
           amount == Mul(RepairStep, Mul(Reaction(c, e), RepairFactor(c, r)))
           half == Half(amount)
           f == Feel(s, half, -amount, -amount, -amount)
           g == RepairEveryone(f, amount)
           x == Signed(r.respect + amount)
           y == Signed(r.trust + half)
           respected == [r EXCEPT !.respect = x]
           trusted == [r EXCEPT !.trust = y]
<1>1. r \in Relations
  BY ValuesOf
<1>2. amount \in Nat /\ amount >= 7
  <2> DEFINE a == Reaction(c, e)  b == RepairFactor(c, r)  d == Mul(a, b)
  <2>1. a \in Nat /\ 125 <= a
    BY ReactionRange
  <2>2. b \in Nat /\ 250 <= b
    BY <1>1, RepairFactorRange
  <2> HIDE DEF a, b
  <2>3. Mul(125, 250) <= d /\ d \in Nat
    BY <2>1, <2>2, MulGrows, MulNat
  <2> HIDE DEF d
  <2>4. d \in Nat /\ 31 <= d
    BY <2>3, Floors
  <2>5. Mul(240, 31) <= Mul(240, d) /\ Mul(240, d) \in Nat
    BY <2>4, MulGrows, MulNat
  <2>6. Mul(240, d) >= 7
    BY <2>5, Floors
  <2> QED BY <2>5, <2>6 DEF a, b, d, RepairStep
<1> HIDE DEF amount
<1>3. amount \in Int /\ -amount \in Int
  BY <1>2
<1>4. half \in Int
  BY <1>3, HalfInt
<1> HIDE DEF half
<1>5. /\ WellFormed(f) /\ f.rel = s.rel /\ Known(f) = Known(s)
      /\ f.offended = Amount(s.offended - amount)
  <2>1. f.offended = Amount(s.offended + (-amount)) /\ WellFormed(f) /\ f.rel = s.rel
        /\ Known(f) = Known(s)
    BY <1>3, <1>4, FeelIs
  <2>2. s.offended + (-amount) = s.offended - amount
    BY <1>3, ValuesOf, RangesInt
  <2> QED BY <2>1, <2>2
<1>6. x \in -Unit .. Unit /\ y \in -Unit .. Unit
  <2>1. r.respect + amount \in Int /\ r.trust + half \in Int
    BY <1>1, <1>3, <1>4, RelationOf, RangesInt
  <2> QED BY <2>1, ClampRange
<1> HIDE DEF x, y
<1>7. /\ respected \in Relations /\ respected.tension = r.tension
      /\ trusted \in Relations /\ trusted.tension = r.tension
  BY <1>1, <1>6, <1>6 DEF Relations
<1>8. Reconcile(s, e, c) =
        IF e.type = "bot_mediation" THEN [g EXCEPT !.rel[p] = Repaired(respected, amount)]
        ELSE [f EXCEPT !.rel[p] = Repaired(trusted, amount)]
  BY DEF Reconcile, amount, half, x, y
<1>9. p \in Known(s)
  OBVIOUS
<1>10. r.tension = s.rel[p].tension
  OBVIOUS
<1> HIDE DEF f, respected, trusted, r, p
<1>11. /\ WellFormed(g) /\ Known(g) = Known(f) /\ g.offended = f.offended
       /\ \A q \in Known(f) : SameRegard(g.rel[q], f.rel[q])
  BY <1>3, <1>5, RepairEveryoneIs DEF SameFeelings
<1> HIDE DEF g
<1>12. CASE e.type = "bot_mediation"
  <2> DEFINE q == Repaired(respected, amount)  t == [g EXCEPT !.rel[p] = q]
  <2>1. q \in Relations /\ q.tension = Amount(r.tension - amount)
    BY <1>3, <1>7, RepairedIs
  <2> HIDE DEF q
  <2>2. Reaches(t, g, p) /\ t.offended = g.offended /\ t.rel[p] = q
    BY <1>5, <1>9, <1>11, <2>1, ReachesBy
  <2> HIDE DEF t
  <2>3. Reaches(t, s, p)
    BY <1>5, <1>11, <2>2 DEF Reaches, SameRegard
  <2>4. Reconcile(s, e, c) = t
    BY <1>8, <1>12 DEF t, q
  <2> QED BY <1>2, <1>5, <1>10, <1>11, <2>1, <2>2, <2>3, <2>4 DEF p, Healed
<1>13. CASE e.type # "bot_mediation"
  <2> DEFINE q == Repaired(trusted, amount)  t == [f EXCEPT !.rel[p] = q]
  <2>1. q \in Relations /\ q.tension = Amount(r.tension - amount)
    BY <1>3, <1>7, RepairedIs
  <2> HIDE DEF q
  <2>2. Reaches(t, s, p) /\ t.offended = f.offended /\ t.rel[p] = q
    BY <1>5, <1>9, <2>1, ReachesBy
  <2> HIDE DEF t
  <2>3. Reconcile(s, e, c) = t
    BY <1>8, <1>13 DEF t, q
  <2> QED BY <1>2, <1>5, <1>10, <2>1, <2>2, <2>3 DEF p, Healed
<1> QED BY <1>12, <1>13

LEMMA ImpactIs ==
  ASSUME NEW s, WellFormed(s), NEW e \in Events, NEW c \in Configurations, e.speaker \in Known(s)
  PROVE  Reaches(Impact(s, e, c), s, e.speaker)
<1> DEFINE t == Impact(s, e, c)  p == e.speaker
<1>1. CASE e.type = "user_moderation"
  <2>1. t = IF e.action = "calm" THEN Calm(s, c) ELSE Heat(s)
    BY <1>1 DEF Impact, HostileEvents, RepairEvents
  <2> HIDE DEF t
  <2> QED BY <2>1, CalmIs, HeatIs DEF t
<1>2. CASE e.type \in {"praise", "support"}
  BY <1>2, PleaseIs DEF Impact, HostileEvents, RepairEvents
<1>3. CASE e.type = "joke"
  BY <1>3, AmuseIs DEF Impact, HostileEvents, RepairEvents
<1>4. CASE e.type = "teasing"
  BY <1>4, TeaseIs DEF Impact, HostileEvents, RepairEvents
<1>5. CASE e.type \in HostileEvents
  <2>1. t = Offend(s, e, c)
    BY <1>5 DEF Impact, HostileEvents, RepairEvents
  <2> QED BY <2>1, OffendIs
<1>6. CASE e.type = "disagreement"
  BY <1>6, DisagreeIs DEF Impact, HostileEvents, RepairEvents
<1>7. CASE e.type \in RepairEvents
  <2>1. t = Reconcile(s, e, c)
    BY <1>7 DEF Impact, HostileEvents, RepairEvents
  <2> QED BY <2>1, ReconcileIs
<1>8. CASE e.type = "topic_steering"
  BY <1>8, SteerIs DEF Impact, HostileEvents, RepairEvents
<1>9. CASE e.type \notin {"user_moderation", "praise", "support", "joke", "teasing", "disagreement",
                          "topic_steering"} \cup HostileEvents \cup RepairEvents
  <2>1. t = s
    BY <1>9 DEF Impact
  <2> HIDE DEF t
  <2> QED BY <2>1 DEF Reaches, SameRegard, t
<1> QED BY <1>1, <1>2, <1>3, <1>4, <1>5, <1>6, <1>7, <1>8, <1>9

\* apply_event, after relationships.setdefault for the speaker.
LEMMA ApplyEventIs ==
  ASSUME NEW s, WellFormed(s), NEW e \in Events, NEW c \in Configurations
  PROVE  LET t == ApplyEvent(s, e, c)  m == Meet(s, e.speaker) IN
         /\ Reaches(t, m, e.speaker) /\ ConflictsOf(t)
         /\ e.type \in HostileEvents => Hurt(t, m, e.speaker)
         /\ e.type \in RepairEvents => Healed(t, m, e.speaker)
<1> DEFINE m == Meet(s, e.speaker)  u == Impact(m, e, c)  t == RefreshConflicts(u)
<1>1. WellFormed(m) /\ e.speaker \in Known(m)
  BY EventOf, MeetIs
<1>2. ApplyEvent(s, e, c) = t
  BY DEF ApplyEvent
<1> HIDE DEF m
<1>3. Reaches(u, m, e.speaker)
  BY <1>1, ImpactIs
<1>4. e.type \in HostileEvents => u = Offend(m, e, c)
  BY DEF Impact, HostileEvents, RepairEvents
<1>5. e.type \in RepairEvents => u = Reconcile(m, e, c)
  BY DEF Impact, HostileEvents, RepairEvents
<1> HIDE DEF u
<1>6. ConflictsOf(t) /\ WellFormed(t) /\ t.rel = u.rel /\ Known(t) = Known(u) /\ t.offended = u.offended
  BY <1>3, RefreshIs DEF Reaches, SameFeelings
<1> HIDE DEF t
<1>7. Reaches(t, m, e.speaker)
  BY <1>3, <1>6 DEF Reaches
<1>8. e.type \in HostileEvents => Hurt(u, m, e.speaker)
  BY <1>1, <1>4, OffendIs
<1>9. e.type \in RepairEvents => Healed(u, m, e.speaker)
  BY <1>1, <1>5, ReconcileIs
<1> QED BY <1>2, <1>6, <1>7, <1>8, <1>9 DEF m, Hurt, Healed

-----------------------------------------------------------------------------
(* What an exchange shows, and what time does.                             *)

LEMMA ObserveStyleIs ==
  ASSUME NEW r \in Relations, NEW type
  PROVE  LET q == ObserveStyle(r, type) IN q \in Relations /\ SameRegard(q, r) /\ SameStrain(q, r)
<1> DEFINE signal == IF type \in {"joke", "teasing"} THEN Unit ELSE 0
           x == r.playful
           y == x + Mul(StyleRate, signal - x)
<1>1. ObserveStyle(r, type) = [r EXCEPT !.playful = y]
  BY DEF ObserveStyle
<1>2. y \in 0 .. Unit
  <2>1. x \in 0 .. 1000
    BY RelationOf DEF Unit
  <2>2. signal \in {0, 1000}
    BY DEF Unit
  <2> HIDE DEF x, signal
  <2>3. x + ((200 * (signal - x)) \div 1000) \in 0 .. 1000
    BY <2>1, <2>2
  <2> QED BY <2>3 DEF Mul, StyleRate, Unit
<1> HIDE DEF y
<1> QED BY <1>1, <1>2 DEF Relations, SameRegard, SameStrain

LEMMA TensionInt ==
  ASSUME NEW e \in Events, NEW c \in Configurations
  PROVE  Tension(e, c) \in Int
<1>1. e.severity \in Int /\ Unit - c.traits["playfulness"] \in Int
  <2>1. c.traits["playfulness"] \in Int
    BY TraitsOf, RangesInt DEF Traits
  <2> QED BY <2>1, EventOf DEF Unit
<1>2. AtmosphereSensitivity(c) \in Int
  <2> DEFINE x == c.traits["reactivity"]  y == c.traits["pride"]  z == c.traits["assertiveness"]
             w == (x + y + Unit - z) \div 3
  <2>1. x \in Int /\ y \in Int /\ z \in Int
    BY TraitsOf, RangesInt DEF Traits
  <2>2. AtmosphereSensitivity(c) = TraitFactor(w)
    BY DEF AtmosphereSensitivity
  <2> HIDE DEF x, y, z
  <2>3. w \in Int
    BY <2>1 DEF Unit
  <2> HIDE DEF w
  <2>4. Mul(Unit - Floor, w) \in Int
    BY <2>3, MulInt DEF Unit, Floor
  <2> QED BY <2>2, <2>4 DEF TraitFactor, Floor
<1> DEFINE p == Mul(HostilityStep, e.severity)
           perceived == Mul(p, AtmosphereSensitivity(c))
           eased == Mul(RepairStep, e.severity)
           liked == Mul(PositiveStep, e.severity)
           shared == Mul(perceived, Unit - c.traits["playfulness"])
<1>3. p \in Int /\ eased \in Int /\ liked \in Int
  <2>1. HostilityStep \in Int /\ RepairStep \in Int /\ PositiveStep \in Int
    BY DEF HostilityStep, RepairStep, PositiveStep
  <2> QED BY <1>1, <2>1, MulInt
<1> HIDE DEF p, eased, liked
<1>4. perceived \in Int
  BY <1>2, <1>3, MulInt
<1> HIDE DEF perceived
<1>5. shared \in Int
  BY <1>1, <1>4, MulInt
<1> HIDE DEF shared
<1>6. Tension(e, c) =
        CASE e.type \in HostileEvents \cup {"frustration"} -> perceived
          [] e.type = "teasing" -> shared
          [] e.type \in RepairEvents -> -eased
          [] e.type \in PositiveEvents -> -liked
          [] OTHER -> 0
  BY DEF Tension, p, perceived, eased, liked, shared
<1> QED BY <1>3, <1>4, <1>5, <1>6 DEF HostileEvents, RepairEvents, PositiveEvents

LEMMA RemovedIs ==
  ASSUME NEW S, NEW s \in Seq(S), NEW i \in 1 .. Len(s)
  PROVE  LET t == SubSeq(s, 1, i - 1) \o SubSeq(s, i + 1, Len(s)) IN
         /\ t \in Seq(S) /\ Len(t) = Len(s) - 1
         /\ \A k \in 1 .. Len(s) - 1 : t[k] = IF k < i THEN s[k] ELSE s[k + 1]
<1> DEFINE n == Len(s)  a == SubSeq(s, 1, i - 1)  b == SubSeq(s, i + 1, n)
<1>1. n \in Nat /\ i \in 1 .. n
  OBVIOUS
<1>2. a \in Seq(S) /\ Len(a) = i - 1 /\ \A k \in 1 .. i - 1 : a[k] = s[k]
  OBVIOUS
<1>3. b \in Seq(S) /\ Len(b) = n - i /\ \A k \in 1 .. n - i : b[k] = s[i + k]
  OBVIOUS
<1> HIDE DEF a, b, n
<1>4. /\ a \o b \in Seq(S) /\ Len(a \o b) = n - 1
      /\ \A k \in 1 .. n - 1 : (a \o b)[k] = IF k < i THEN a[k] ELSE b[k - (i - 1)]
  <2>1. a \o b \in Seq(S) /\ Len(a \o b) = Len(a) + Len(b)
    <3>1. a \in Seq(S) /\ b \in Seq(S)
      BY <1>2, <1>3
    <3> QED BY <3>1
  <2>2. \A k \in 1 .. Len(a) + Len(b) : (a \o b)[k] = IF k <= Len(a) THEN a[k] ELSE b[k - Len(a)]
    BY <1>2, <1>3
  <2>3. Len(a) + Len(b) = n - 1
    BY <1>1, <1>2, <1>3
  <2>4. \A k \in 1 .. n - 1 : k <= Len(a) <=> k < i
    BY <1>1, <1>2
  <2> QED BY <1>2, <2>1, <2>2, <2>3, <2>4
<1>5. \A k \in 1 .. n - 1 : (a \o b)[k] = IF k < i THEN s[k] ELSE s[k + 1]
  <2> SUFFICES ASSUME NEW k \in 1 .. n - 1
               PROVE  (a \o b)[k] = IF k < i THEN s[k] ELSE s[k + 1]
    OBVIOUS
  <2>1. CASE k < i
    BY <1>1, <1>2, <1>4, <2>1
  <2>2. CASE ~(k < i)
    <3>1. k - (i - 1) \in 1 .. n - i /\ i + (k - (i - 1)) = k + 1
      BY <1>1, <2>2
    <3>2. b[k - (i - 1)] = s[i + (k - (i - 1))]
      BY <1>3, <3>1
    <3> QED BY <1>4, <2>2, <3>1, <3>2
  <2> QED BY <2>1, <2>2
<1> QED BY <1>4, <1>5 DEF a, b, n

HasPair(edges, from, to) == \E k \in DOMAIN edges : edges[k].from = from /\ edges[k].to = to

\* The edges before the oldest may be dropped: the pair of e comes last, the
\* others are still there, in their places if that pair is a new one.
Brought(new, edges, e) ==
  /\ new \in Seq(Edges)
  /\ \A j, k \in DOMAIN new : new[j].from = new[k].from /\ new[j].to = new[k].to => j = k
  /\ new[Len(new)].from = e.speaker /\ new[Len(new)].to = e.to
  /\ Len(new) = IF HasPair(edges, e.speaker, e.to) THEN Len(edges) ELSE Len(edges) + 1
  /\ Len(new) > 0
  /\ \A k \in DOMAIN edges :
       \E j \in DOMAIN new :
         /\ new[j].from = edges[k].from /\ new[j].to = edges[k].to
         /\ ~HasPair(edges, e.speaker, e.to) => j = k

\* The edge seen again is moved, so there is still one for each pair.
LEMMA EdgesBrought ==
  ASSUME NEW edges, EdgeList(edges), NEW e \in Events, NEW c \in Configurations,
         e.to # None, e.to # e.speaker
  PROVE  \E new : Directed(edges, e, c) = Newest(new) /\ Brought(new, edges, e)
<1> DEFINE n == Len(edges)
           seen == {k \in DOMAIN edges : edges[k].from = e.speaker /\ edges[k].to = e.to}
           first == CHOOSE k \in seen : \A j \in seen : k <= j
           before == IF seen = {} THEN 0 ELSE edges[first].tension
           others == IF seen = {} THEN edges
                     ELSE SubSeq(edges, 1, first - 1) \o SubSeq(edges, first + 1, n)
           weight == Amount(before + Tension(e, c))
           edge == [from |-> e.speaker, to |-> e.to, tension |-> weight]
           moved == Append(others, edge)
           Eased(d) == IF e.type \in RepairEvents /\ d.from = e.to /\ d.to = e.speaker
                       THEN Strained(d, Tension(e, c)) ELSE d
           eased == [k \in DOMAIN moved |-> Eased(moved[k])]
<1>1. Directed(edges, e, c) = Newest(eased)
  BY DEF Directed
<1>2. /\ edges \in Seq(Edges) /\ n \in Nat /\ DOMAIN edges = 1 .. n
      /\ \A k \in 1 .. n : edges[k] \in Edges
      /\ \A j, k \in 1 .. n : edges[j].from = edges[k].from /\ edges[j].to = edges[k].to => j = k
  BY DEF EdgeList
<1>0. seen = {} <=> ~HasPair(edges, e.speaker, e.to)
  BY DEF HasPair
<1>3. seen # {} => first \in 1 .. n /\ edges[first].from = e.speaker /\ edges[first].to = e.to
  <2> SUFFICES ASSUME seen # {}
               PROVE  first \in seen
    BY <1>2
  <2>1. PICK k \in seen : TRUE
    OBVIOUS
  <2>2. \A j \in seen : k <= j
    BY <1>2
  <2>3. \E i \in seen : \A j \in seen : i <= j
    BY <2>2
  <2> HIDE DEF seen
  <2> QED BY <2>3
<1>4a. /\ others \in Seq(Edges)
       /\ \A k \in DOMAIN others : ~(others[k].from = e.speaker /\ others[k].to = e.to)
       /\ \A j, k \in DOMAIN others :
            others[j].from = others[k].from /\ others[j].to = others[k].to => j = k
       /\ Len(others) = IF seen = {} THEN n ELSE n - 1
       /\ \A k \in 1 .. n :
            \/ seen # {} /\ edges[k].from = e.speaker /\ edges[k].to = e.to
            \/ \E j \in DOMAIN others : others[j] = edges[k] /\ (seen = {} => j = k)
  <2>1. CASE seen = {}
    <3>1. others = edges
      BY <2>1
    <3> HIDE DEF others
    <3> QED BY <1>2, <2>1, <3>1
  <2>2. CASE seen # {}
    <3>1. others = SubSeq(edges, 1, first - 1) \o SubSeq(edges, first + 1, n)
      BY <2>2
    <3>2. first \in 1 .. n /\ edges[first].from = e.speaker /\ edges[first].to = e.to
      BY <1>3, <2>2
    <3> HIDE DEF others, first, seen
    <3>3. /\ others \in Seq(Edges) /\ Len(others) = n - 1
          /\ \A k \in 1 .. n - 1 : others[k] = IF k < first THEN edges[k] ELSE edges[k + 1]
      BY <1>2, <3>1, <3>2, RemovedIs
    <3>4. DOMAIN others = 1 .. n - 1
      BY <3>3
    <3>5. ASSUME NEW k \in 1 .. n - 1
          PROVE  ~(others[k].from = e.speaker /\ others[k].to = e.to)
      BY <1>2, <3>2, <3>3
    <3>6. ASSUME NEW j \in 1 .. n - 1, NEW k \in 1 .. n - 1,
                 others[j].from = others[k].from, others[j].to = others[k].to
          PROVE  j = k
      <4> DEFINE At(i) == IF i < first THEN i ELSE i + 1
      <4>1. \A i \in 1 .. n - 1 : At(i) \in 1 .. n /\ others[i] = edges[At(i)]
        BY <1>2, <3>2, <3>3
      <4>2. At(j) = At(k)
        BY <1>2, <3>6, <4>1
      <4> QED BY <3>2, <4>2
    <3>7. ASSUME NEW k \in 1 .. n, k # first
          PROVE  \E j \in 1 .. n - 1 : others[j] = edges[k]
      <4>1. CASE k < first
        <5>1. k \in 1 .. n - 1 /\ others[k] = edges[k]
          BY <1>2, <3>2, <3>3, <4>1
        <5> QED BY <5>1
      <4>2. CASE ~(k < first)
        <5>1. k - 1 \in 1 .. n - 1 /\ others[k - 1] = edges[k]
          BY <1>2, <3>2, <3>3, <3>7, <4>2
        <5> QED BY <5>1
      <4> QED BY <4>1, <4>2
    <3> QED BY <2>2, <3>2, <3>3, <3>4, <3>5, <3>6, <3>7
  <2> QED BY <2>1, <2>2
<1>4. /\ others \in Seq(Edges)
      /\ \A k \in DOMAIN others : ~(others[k].from = e.speaker /\ others[k].to = e.to)
      /\ \A j, k \in DOMAIN others :
           others[j].from = others[k].from /\ others[j].to = others[k].to => j = k
  BY <1>4a
<1>4b. /\ Len(others) = IF seen = {} THEN n ELSE n - 1
       /\ \A k \in 1 .. n :
            \/ seen # {} /\ edges[k].from = e.speaker /\ edges[k].to = e.to
            \/ \E j \in DOMAIN others : others[j] = edges[k] /\ (seen = {} => j = k)
  BY <1>4a
<1>5. before \in 0 .. Unit
  <2> HIDE DEF seen, first
  <2>1. CASE seen = {}
    BY <2>1 DEF Unit
  <2>2. CASE seen # {}
    <3>1. first \in 1 .. n
      BY <1>3, <2>2
    <3>2. edges[first].tension \in 0 .. Unit
      BY <1>2, <3>1 DEF Edges
    <3> QED BY <2>2, <3>2
  <2> QED BY <2>1, <2>2
<1> HIDE DEF before, others, first, seen
<1>6. edge \in Edges /\ edge.from = e.speaker /\ edge.to = e.to
  <2>1. weight \in 0 .. Unit
    <3>1. before + Tension(e, c) \in Int
      BY <1>5, TensionInt, RangesInt
    <3> QED BY <3>1, ClampRange
  <2>2. e.speaker \in Participants /\ e.to \in Everybody
    BY EventOf
  <2> HIDE DEF weight
  <2> QED BY <2>1, <2>2 DEF Edges
<1> HIDE DEF edge, weight
<1>7. /\ moved \in Seq(Edges)
      /\ \A j, k \in DOMAIN moved :
           moved[j].from = moved[k].from /\ moved[j].to = moved[k].to => j = k
      /\ Len(moved) = Len(others) + 1 /\ Len(others) \in Nat
      /\ DOMAIN moved = 1 .. Len(others) + 1 /\ DOMAIN others = 1 .. Len(others)
      /\ \A k \in 1 .. Len(others) : moved[k] = others[k]
      /\ moved[Len(others) + 1] = edge
  <2>1. /\ moved \in Seq(Edges) /\ Len(moved) = Len(others) + 1 /\ Len(others) \in Nat
        /\ \A k \in 1 .. Len(others) : moved[k] = others[k]
        /\ moved[Len(others) + 1] = edge
    BY <1>4, <1>6
  <2>2. DOMAIN moved = 1 .. Len(others) + 1 /\ DOMAIN others = 1 .. Len(others)
    BY <1>4, <2>1
  <2> HIDE DEF moved
  <2>3. ASSUME NEW j \in 1 .. Len(others) + 1, NEW k \in 1 .. Len(others) + 1,
               moved[j].from = moved[k].from, moved[j].to = moved[k].to
        PROVE  j = k
    <3>1. CASE j = Len(others) + 1 /\ k # Len(others) + 1
      BY <1>4, <1>6, <2>1, <2>2, <2>3, <3>1
    <3>2. CASE j # Len(others) + 1 /\ k = Len(others) + 1
      BY <1>4, <1>6, <2>1, <2>2, <2>3, <3>2
    <3>3. CASE j # Len(others) + 1 /\ k # Len(others) + 1
      BY <1>4, <2>1, <2>2, <2>3, <3>3
    <3> QED BY <3>1, <3>2, <3>3
  <2> QED BY <2>1, <2>2, <2>3
<1> HIDE DEF moved
<1>8. \A d \in Edges : Eased(d) \in Edges /\ Eased(d).from = d.from /\ Eased(d).to = d.to
  BY TensionInt, StrainedIs
<1> HIDE DEF Eased
<1>9. /\ eased \in Seq(Edges) /\ DOMAIN eased = DOMAIN moved /\ Len(eased) = Len(moved)
      /\ \A k \in DOMAIN moved : eased[k].from = moved[k].from /\ eased[k].to = moved[k].to
  <2>1. DOMAIN moved = 1 .. Len(moved) /\ Len(moved) \in Nat /\ \A k \in DOMAIN moved : moved[k] \in Edges
    BY <1>7
  <2>2. eased \in [1 .. Len(moved) -> Edges]
    BY <1>8, <2>1
  <2> QED BY <1>8, <2>1, <2>2
<1> HIDE DEF eased
<1>10. \A j, k \in DOMAIN eased :
         eased[j].from = eased[k].from /\ eased[j].to = eased[k].to => j = k
  BY <1>7, <1>9
<1> DEFINE last == Len(others) + 1
<1>11. Len(eased) = last /\ last \in DOMAIN eased /\ last > 0
       /\ eased[last].from = e.speaker /\ eased[last].to = e.to
  BY <1>6, <1>7, <1>9
<1>12. last = IF seen = {} THEN n + 1 ELSE n
  <2>1. n \in Nat /\ Len(others) = IF seen = {} THEN n ELSE n - 1
    BY <1>2, <1>4b
  <2> HIDE DEF n
  <2> QED BY <2>1
<1>13. ASSUME NEW k \in 1 .. n
       PROVE  \E j \in DOMAIN eased :
                /\ eased[j].from = edges[k].from /\ eased[j].to = edges[k].to
                /\ seen = {} => j = k
  <2>1. CASE seen # {} /\ edges[k].from = e.speaker /\ edges[k].to = e.to
    BY <1>11, <2>1
  <2>2. CASE \E j \in DOMAIN others : others[j] = edges[k] /\ (seen = {} => j = k)
    <3>1. PICK j \in DOMAIN others : others[j] = edges[k] /\ (seen = {} => j = k)
      BY <2>2
    <3>2. j \in DOMAIN moved /\ moved[j] = others[j]
      BY <1>7
    <3> QED BY <1>9, <3>1, <3>2
  <2> QED BY <1>4b, <2>1, <2>2
<1> HIDE DEF last
<1>14. Brought(eased, edges, e)
  BY <1>0, <1>2, <1>9, <1>10, <1>11, <1>12, <1>13 DEF Brought
<1> QED BY <1>1, <1>14

\* One edge for each pair.
LEMMA DirectedIs ==
  ASSUME NEW edges, EdgeList(edges), NEW e \in Events, NEW c \in Configurations
  PROVE  EdgeList(Directed(edges, e, c))
<1> SUFFICES ASSUME e.to # None, e.to # e.speaker
             PROVE  EdgeList(Directed(edges, e, c))
  BY DEF Directed
<1>1. PICK new : Directed(edges, e, c) = Newest(new) /\ Brought(new, edges, e)
  BY EdgesBrought
<1> QED BY <1>1, EdgesNewest DEF Brought

\* The exchange is the newest edge, and costs at most the oldest one of a full
\* list that had none for its pair.
LEMMA DirectedKeeps ==
  ASSUME NEW edges, EdgeList(edges), NEW e \in Events, NEW c \in Configurations
  PROVE  LET new == Directed(edges, e, c) IN
         /\ e.to # None /\ e.to # e.speaker =>
              new[Len(new)].from = e.speaker /\ new[Len(new)].to = e.to
         /\ \A k \in DOMAIN edges :
              \/ HasPair(new, edges[k].from, edges[k].to)
              \/ k = 1 /\ Len(edges) = SocialRecordLimit /\ ~HasPair(edges, e.speaker, e.to)
<1> DEFINE kept == Directed(edges, e, c)
<1>1. CASE e.to = None \/ e.to = e.speaker
  <2>1. kept = edges
    BY <1>1 DEF Directed
  <2> HIDE DEF kept
  <2>2. \A k \in DOMAIN edges : HasPair(kept, edges[k].from, edges[k].to)
    BY <2>1 DEF HasPair
  <2> QED BY <1>1, <2>2 DEF kept
<1>2. CASE e.to # None /\ e.to # e.speaker
  <2>1. PICK new : kept = Newest(new) /\ Brought(new, edges, e)
    BY <1>2, EdgesBrought
  <2> HIDE DEF kept
  <2>2. SocialRecordLimit \in Nat /\ Len(edges) \in Nat /\ Len(edges) <= SocialRecordLimit
    BY LimitType DEF EdgeList
  <2>3. new \in Seq(Edges) /\ Len(new) > 0 /\ Len(new) <= SocialRecordLimit + 1
    BY <2>1, <2>2 DEF Brought
  <2>4. /\ kept[Len(kept)] = new[Len(new)]
        /\ \A k \in DOMAIN new :
             \/ \E j \in DOMAIN kept : kept[j] = new[k]
             \/ k = 1 /\ Len(new) = SocialRecordLimit + 1
    BY <2>1, <2>3, NewestKeeps
  <2>5. ASSUME NEW k \in DOMAIN edges
        PROVE  \/ HasPair(kept, edges[k].from, edges[k].to)
               \/ k = 1 /\ Len(edges) = SocialRecordLimit /\ ~HasPair(edges, e.speaker, e.to)
    <3>1. PICK j \in DOMAIN new : /\ new[j].from = edges[k].from /\ new[j].to = edges[k].to
                                  /\ ~HasPair(edges, e.speaker, e.to) => j = k
      BY <2>1 DEF Brought
    <3>2. CASE \E i \in DOMAIN kept : kept[i] = new[j]
      BY <3>1, <3>2 DEF HasPair
    <3>3. CASE j = 1 /\ Len(new) = SocialRecordLimit + 1
      <4>1. ~HasPair(edges, e.speaker, e.to) /\ Len(new) = Len(edges) + 1
        BY <2>1, <2>2, <3>3 DEF Brought
      <4> QED BY <2>2, <3>1, <3>3, <4>1
    <3> QED BY <2>4, <3>2, <3>3
  <2>6. kept[Len(kept)].from = e.speaker /\ kept[Len(kept)].to = e.to
    BY <2>1, <2>4 DEF Brought
  <2> QED BY <2>5, <2>6 DEF kept
<1> QED BY <1>1, <1>2


HasRecord(observed, p) == \E k \in DOMAIN observed : observed[k].who = p

\* The records before the oldest may be dropped: all keep their places, and a
\* frustrated speaker who had none comes last.
Noted(new, observed, e) ==
  /\ new \in Seq(Records)
  /\ \A j, k \in DOMAIN new : new[j].who = new[k].who => j = k
  /\ \A k \in DOMAIN observed : k \in DOMAIN new /\ new[k].who = observed[k].who
  /\ \/ /\ HasRecord(observed, e.speaker) \/ e.type # "frustration"
        /\ Len(new) = Len(observed)
     \/ /\ ~HasRecord(observed, e.speaker) /\ e.type = "frustration"
        /\ Len(new) = Len(observed) + 1 /\ new[Len(new)].who = e.speaker

LEMMA RecordsNoted ==
  ASSUME NEW observed, RecordList(observed), NEW e \in Events
  PROVE  \E new : Distress(observed, e) = Newest(new) /\ Noted(new, observed, e)
<1> DEFINE step == IF e.type = "frustration" THEN Mul(e.severity, HostilityStep)
                   ELSE IF e.type \in RepairEvents THEN -Mul(RepairStep, e.severity)
                   ELSE 0
           known == \E k \in DOMAIN observed : observed[k].who = e.speaker
           record == [who |-> e.speaker, frustration |-> 0]
           present == IF e.type = "frustration" /\ ~known THEN Append(observed, record) ELSE observed
           changed == [k \in DOMAIN present |->
                         IF present[k].who = e.speaker THEN Distressed(present[k], step) ELSE present[k]]
<1>1. Distress(observed, e) = Newest(changed)
  BY DEF Distress
<1>2. step \in Int
  <2>1. e.severity \in Int /\ HostilityStep \in Int /\ RepairStep \in Int
    BY EventOf DEF HostilityStep, RepairStep
  <2>2. Mul(e.severity, HostilityStep) \in Int /\ Mul(RepairStep, e.severity) \in Int
    BY <2>1, MulInt
  <2> QED BY <2>2
<1> HIDE DEF step
<1>3. record \in Records /\ record.who = e.speaker
  BY EventOf DEF Records, Unit
<1> HIDE DEF record
<1>3a. known <=> HasRecord(observed, e.speaker)
  BY DEF HasRecord
<1>3b. observed \in Seq(Records) /\ Len(observed) \in Nat /\ DOMAIN observed = 1 .. Len(observed)
  BY DEF RecordList
<1>4. /\ present \in Seq(Records)
      /\ \A j, k \in DOMAIN present : present[j].who = present[k].who => j = k
      /\ \A k \in DOMAIN observed : k \in DOMAIN present /\ present[k] = observed[k]
      /\ \/ (known \/ e.type # "frustration") /\ Len(present) = Len(observed)
         \/ /\ ~known /\ e.type = "frustration"
            /\ Len(present) = Len(observed) + 1 /\ present[Len(present)].who = e.speaker
  <2>1. /\ observed \in Seq(Records)
        /\ \A j, k \in DOMAIN observed : observed[j].who = observed[k].who => j = k
    BY DEF RecordList
  <2>2. CASE known \/ e.type # "frustration"
    <3>1. present = observed
      BY <2>2
    <3> HIDE DEF present, known
    <3> QED BY <2>1, <2>2, <3>1
  <2>3. CASE ~known /\ e.type = "frustration"
    <3>1. present = Append(observed, record)
      BY <2>3
    <3>2. \A k \in DOMAIN observed : observed[k].who # record.who
      BY <1>3, <2>3
    <3> HIDE DEF present, known
    <3>3. /\ present \in Seq(Records) /\ DOMAIN present = 1 .. Len(observed) + 1
          /\ DOMAIN observed = 1 .. Len(observed) /\ Len(observed) \in Nat
          /\ \A k \in 1 .. Len(observed) : present[k] = observed[k]
          /\ present[Len(observed) + 1] = record
      BY <1>3, <2>1, <3>1
    <3>4. ASSUME NEW j \in DOMAIN present, NEW k \in DOMAIN present, present[j].who = present[k].who
          PROVE  j = k
      <4>1. CASE j = Len(observed) + 1 /\ k # Len(observed) + 1
        BY <3>2, <3>3, <3>4, <4>1
      <4>2. CASE j # Len(observed) + 1 /\ k = Len(observed) + 1
        BY <3>2, <3>3, <3>4, <4>2
      <4>3. CASE j # Len(observed) + 1 /\ k # Len(observed) + 1
        BY <2>1, <3>3, <3>4, <4>3
      <4> QED BY <4>1, <4>2, <4>3
    <3>5. Len(present) = Len(observed) + 1 /\ present[Len(present)].who = e.speaker
      BY <1>3, <3>3
    <3>6. \A k \in DOMAIN observed : k \in DOMAIN present /\ present[k] = observed[k]
      BY <3>3
    <3> QED BY <2>3, <3>3, <3>4, <3>5, <3>6
  <2> QED BY <2>2, <2>3
<1> HIDE DEF present, known
<1>5. /\ changed \in Seq(Records) /\ DOMAIN changed = DOMAIN present
      /\ Len(changed) = Len(present)
      /\ \A k \in DOMAIN present : changed[k].who = present[k].who
  <2>1. DOMAIN present = 1 .. Len(present) /\ Len(present) \in Nat
        /\ \A k \in DOMAIN present : present[k] \in Records
    BY <1>4
  <2>2. \A k \in DOMAIN present : changed[k] \in Records /\ changed[k].who = present[k].who
    BY <1>2, <2>1, DistressedIs
  <2>3. changed \in [1 .. Len(present) -> Records]
    BY <2>1, <2>2
  <2> QED BY <2>1, <2>2, <2>3
<1> HIDE DEF changed
<1>6. \A j, k \in DOMAIN changed : changed[j].who = changed[k].who => j = k
  BY <1>4, <1>5
<1>7. \A k \in DOMAIN observed : k \in DOMAIN changed /\ changed[k].who = observed[k].who
  BY <1>4, <1>5
<1>8. \/ (known \/ e.type # "frustration") /\ Len(changed) = Len(observed)
      \/ /\ ~known /\ e.type = "frustration"
         /\ Len(changed) = Len(observed) + 1 /\ changed[Len(changed)].who = e.speaker
  <2>1. CASE (known \/ e.type # "frustration") /\ Len(present) = Len(observed)
    BY <1>5, <2>1
  <2>2. CASE /\ ~known /\ e.type = "frustration"
             /\ Len(present) = Len(observed) + 1 /\ present[Len(present)].who = e.speaker
    <3>1. Len(present) \in DOMAIN present
      <4>1. DOMAIN present = 1 .. Len(present)
        BY <1>4
      <4>2. Len(present) = Len(observed) + 1 /\ Len(observed) \in Nat
        BY <1>3b, <2>2
      <4> QED BY <4>1, <4>2
    <3> QED BY <1>5, <2>2, <3>1
  <2> QED BY <1>4, <2>1, <2>2
<1>9. Noted(changed, observed, e)
  BY <1>3a, <1>5, <1>6, <1>7, <1>8 DEF Noted
<1> QED BY <1>1, <1>9

\* One record for each speaker.
LEMMA DistressIs ==
  ASSUME NEW observed, RecordList(observed), NEW e \in Events
  PROVE  RecordList(Distress(observed, e))
<1>1. PICK new : Distress(observed, e) = Newest(new) /\ Noted(new, observed, e)
  BY RecordsNoted
<1> QED BY <1>1, RecordsNewest DEF Noted

\* A frustrated speaker has a record, which costs at most the oldest one of a
\* full list that had none of the speaker.
LEMMA DistressKeeps ==
  ASSUME NEW observed, RecordList(observed), NEW e \in Events
  PROVE  LET new == Distress(observed, e) IN
         /\ e.type = "frustration" => HasRecord(new, e.speaker)
         /\ \A k \in DOMAIN observed :
              \/ HasRecord(new, observed[k].who)
              \/ k = 1 /\ Len(observed) = SocialRecordLimit /\ ~HasRecord(observed, e.speaker)
<1> DEFINE kept == Distress(observed, e)
<1>1. PICK new : kept = Newest(new) /\ Noted(new, observed, e)
  BY RecordsNoted
<1> HIDE DEF kept
<1>2. SocialRecordLimit \in Nat /\ Len(observed) \in Nat /\ Len(observed) <= SocialRecordLimit
  BY LimitType DEF RecordList
<1>3. CASE /\ HasRecord(observed, e.speaker) \/ e.type # "frustration"
           /\ Len(new) = Len(observed)
  <2>1. kept = new
    BY <1>1, <1>2, <1>3 DEF Newest
  <2>2. \A k \in DOMAIN observed : HasRecord(kept, observed[k].who)
    BY <1>1, <2>1 DEF Noted, HasRecord
  <2>3. e.type = "frustration" => HasRecord(kept, e.speaker)
    BY <1>3, <2>2 DEF HasRecord
  <2> QED BY <2>2, <2>3 DEF kept
<1>4. CASE /\ ~HasRecord(observed, e.speaker) /\ e.type = "frustration"
           /\ Len(new) = Len(observed) + 1 /\ new[Len(new)].who = e.speaker
  <2>1. new \in Seq(Records) /\ Len(new) > 0 /\ Len(new) <= SocialRecordLimit + 1
    BY <1>1, <1>2, <1>4 DEF Noted
  <2>2. /\ \A k \in DOMAIN new :
             \/ \E j \in DOMAIN kept : kept[j] = new[k]
             \/ k = 1 /\ Len(new) = SocialRecordLimit + 1
    BY <1>1, <2>1, NewestKeeps
  <2>3. ASSUME NEW k \in DOMAIN observed
        PROVE  \/ HasRecord(kept, observed[k].who)
               \/ k = 1 /\ Len(observed) = SocialRecordLimit /\ ~HasRecord(observed, e.speaker)
    <3>1. k \in DOMAIN new /\ new[k].who = observed[k].who
      BY <1>1 DEF Noted
    <3>2. CASE \E j \in DOMAIN kept : kept[j] = new[k]
      BY <3>1, <3>2 DEF HasRecord
    <3>3. CASE k = 1 /\ Len(new) = SocialRecordLimit + 1
      BY <1>2, <1>4, <3>3
    <3> QED BY <2>2, <3>1, <3>2, <3>3
  <2>4. HasRecord(kept, e.speaker)
    <3>1. Len(new) \in DOMAIN new
      BY <2>1
    <3>2. CASE \E j \in DOMAIN kept : kept[j] = new[Len(new)]
      BY <1>4, <3>2 DEF HasRecord
    <3>3. CASE Len(new) = 1 /\ Len(new) = SocialRecordLimit + 1
      BY <3>3, LimitType
    <3> QED BY <2>2, <3>1, <3>2, <3>3
  <2> QED BY <2>3, <2>4 DEF kept
<1> QED BY <1>1, <1>3, <1>4 DEF Noted


\* An exchange shows a style, an edge and distress: nobody's regard or
\* strain, and none of the bot's feelings, changes.
LEMMA ObserveExchangeIs ==
  ASSUME NEW s, WellFormed(s), NEW e \in Events, NEW c \in Configurations
  PROVE  LET t == ObserveExchange(s, e, c)  m == Meet(s, e.speaker) IN
         /\ WellFormed(t) /\ Known(t) = Known(m) /\ SameFeelings(t, m)
         /\ t.conflicts = m.conflicts /\ t.mood = m.mood /\ t.sensitive = m.sensitive
         /\ \A q \in Known(m) : SameRegard(t.rel[q], m.rel[q]) /\ SameStrain(t.rel[q], m.rel[q])
<1> DEFINE m == Meet(s, e.speaker)  p == e.speaker
           r == ObserveStyle(m.rel[p], e.type)
           rel == [m.rel EXCEPT ![p] = r]
           atmosphere == Amount(m.atmosphere + Tension(e, c))
           edges == Directed(m.edges, e, c)
           observed == Distress(m.observed, e)
           t == [m EXCEPT !.rel = rel, !.atmosphere = atmosphere, !.edges = edges,
                          !.observed = observed]
<1>1. WellFormed(m) /\ p \in Known(m)
  BY EventOf, MeetIs
<1>2. ObserveExchange(s, e, c) =
        [m EXCEPT !.rel[p] = r, !.atmosphere = atmosphere, !.edges = edges, !.observed = observed]
  BY DEF ObserveExchange
<1>3. ObserveExchange(s, e, c) = t
  <2> HIDE DEF m, p, r, atmosphere, edges, observed
  <2> QED BY <1>2
<1> HIDE DEF m, p
<1>4. m.rel \in [Known(m) -> Relations] /\ m.rel[p] \in Relations
  BY <1>1, ValuesOf
<1>5. r \in Relations /\ SameRegard(r, m.rel[p]) /\ SameStrain(r, m.rel[p])
  BY <1>4, ObserveStyleIs
<1> HIDE DEF r
<1>6. rel \in [Known(m) -> Relations]
  BY <1>1, <1>4, <1>5
<1>7. \A q \in Known(m) : SameRegard(rel[q], m.rel[q]) /\ SameStrain(rel[q], m.rel[q])
  BY <1>1, <1>4, <1>5 DEF SameRegard, SameStrain
<1> HIDE DEF rel
<1>8. atmosphere \in 0 .. Unit
  <2>1. m.atmosphere \in Int
    BY <1>1, ValuesOf, RangesInt
  <2>2. m.atmosphere + Tension(e, c) \in Int
    BY <2>1, TensionInt
  <2> QED BY <2>2, ClampRange
<1>9. EdgeList(edges) /\ RecordList(observed)
  BY <1>1, ValuesOf, DirectedIs, DistressIs
<1> HIDE DEF atmosphere, edges, observed
<1>10. /\ WellFormed(t) /\ t.rel = rel /\ Known(t) = Known(m)
       /\ SameFeelings(t, m) /\ t.conflicts = m.conflicts /\ t.sensitive = m.sensitive
       /\ t.mood = m.mood
  BY <1>1, <1>6, <1>8, <1>9 DEF WellFormed, Known, SameFeelings
<1> HIDE DEF t
<1> QED BY <1>3, <1>7, <1>10 DEF m

\* A signed value fades towards zero from either side.
LEMMA FadedValence ==
  ASSUME NEW v \in -Unit .. Unit, NEW factor \in 0 .. Unit
  PROVE  (IF v < 0 THEN -Mul(-v, factor) ELSE Mul(v, factor)) \in -Unit .. Unit
<1>1. v \in Int /\ -1000 <= v /\ v <= 1000
  BY DEF Unit
<1>2. CASE v < 0
  <2> DEFINE n == -v  w == Mul(n, factor)
  <2>1. n \in 0 .. Unit
    BY <1>1, <1>2 DEF Unit
  <2> HIDE DEF n
  <2>2. w \in 0 .. Unit
    BY <2>1, FadedInRange
  <2> HIDE DEF w
  <2>3. -w \in -Unit .. Unit
    BY <2>2 DEF Unit
  <2> QED BY <1>2, <2>3 DEF w, n
<1>3. CASE ~(v < 0)
  <2> DEFINE w == Mul(v, factor)
  <2>1. v \in 0 .. Unit
    BY <1>1, <1>3 DEF Unit
  <2>2. w \in 0 .. Unit
    BY <2>1, FadedInRange
  <2> HIDE DEF w
  <2>3. w \in -Unit .. Unit
    BY <2>2 DEF Unit
  <2> QED BY <1>3, <2>3 DEF w
<1> QED BY <1>2, <1>3

\* Time weakens feelings and strain within their ranges and leaves regard
\* alone.
LEMMA DecayIs ==
  ASSUME NEW s, WellFormed(s), NEW c, NEW hours,
         MoodFactor[c.traits["persistence"]][hours] \in 0 .. Unit,
         RelationFactor[c.traits["persistence"]][hours] \in 0 .. Unit
  PROVE  LET t == Decay(s, c, hours) IN
         /\ WellFormed(t) /\ ConflictsOf(t) /\ Known(t) = Known(s)
         /\ t.mood = s.mood
         /\ \A q \in Known(s) : SameRegard(t.rel[q], s.rel[q])
<1>0. s.valence \in -Unit .. Unit
  BY ValuesOf
<1> DEFINE mood == MoodFactor[c.traits["persistence"]][hours]
           social == RelationFactor[c.traits["persistence"]][hours]
           rel == [p \in Known(s) |-> FadedRelation(s.rel[p], social)]
           valence == IF s.valence < 0 THEN -Mul(-s.valence, mood) ELSE Mul(s.valence, mood)
           arousal == Mul(s.arousal, mood)
           frustration == Mul(s.frustration, mood)
           offended == Mul(s.offended, mood)
           atmosphere == Mul(s.atmosphere, mood)
           edges == [k \in DOMAIN s.edges |-> FadedEdge(s.edges[k], social)]
           observed == [k \in DOMAIN s.observed |-> FadedRecord(s.observed[k], mood)]
           faded == [s EXCEPT !.valence = valence, !.arousal = arousal, !.frustration = frustration,
                              !.offended = offended, !.atmosphere = atmosphere, !.rel = rel,
                              !.edges = edges, !.observed = observed]
           u == IF hours = 0 THEN s ELSE faded
<1>1. Decay(s, c, hours) = RefreshConflicts(u)
  BY DEF Decay, Known
<1>2. mood \in 0 .. Unit /\ social \in 0 .. Unit
  OBVIOUS
<1> HIDE DEF mood, social
<1>3. \A x \in 0 .. Unit : Mul(x, mood) \in 0 .. Unit /\ Mul(x, social) \in 0 .. Unit
  BY <1>2, FadedInRange
<1>4. /\ arousal \in 0 .. Unit /\ frustration \in 0 .. Unit /\ offended \in 0 .. Unit
      /\ atmosphere \in 0 .. Unit
  BY <1>3, ValuesOf
<1>5. valence \in -Unit .. Unit
  <2> HIDE DEF arousal, frustration, offended, atmosphere, rel, edges, observed, faded, u
  <2> QED BY <1>0, <1>2, FadedValence
<1>6. \A p \in Known(s) : rel[p] \in Relations /\ SameRegard(rel[p], s.rel[p])
  <2> SUFFICES ASSUME NEW p \in Known(s)
               PROVE  LET q == FadedRelation(s.rel[p], social) IN
                      q \in Relations /\ SameRegard(q, s.rel[p])
    OBVIOUS
  <2> DEFINE r == s.rel[p]  x == Mul(r.irritation, social)  y == Mul(r.tension, social)
  <2>1. r \in Relations
    BY ValuesOf
  <2>2. x \in 0 .. Unit /\ y \in 0 .. Unit
    BY <1>3, <2>1, RelationOf
  <2>3. FadedRelation(r, social) = [r EXCEPT !.irritation = x, !.tension = y]
    BY DEF FadedRelation
  <2> HIDE DEF r, x, y
  <2>4. LET q == FadedRelation(r, social) IN q \in Relations /\ SameRegard(q, r)
    BY <2>1, <2>2, <2>3 DEF Relations, SameRegard
  <2> QED BY <2>4 DEF r
<1>7. rel \in [Known(s) -> Relations]
  BY <1>6
<1>8. EdgeList(edges) /\ RecordList(observed)
  BY <1>2, ValuesOf, EdgesFaded, RecordsFaded
<1> HIDE DEF arousal, frustration, offended, atmosphere, valence, rel, edges, observed
<1>9. WellFormed(faded) /\ faded.rel = rel /\ Known(faded) = Known(s) /\ faded.mood = s.mood
  <2>1. rel \in [Known(s) -> Relations] /\ Known(s) = DOMAIN rel
    BY <1>7
  <2>2. Known(s) \subseteq Participants
    BY DEF WellFormed
  <2>3. faded \in [valence : -Unit .. Unit, arousal : 0 .. Unit, frustration : 0 .. Unit,
            offended : 0 .. Unit, atmosphere : 0 .. Unit,
            mood : {"irritated", "open", "low", "neutral"},
            rel : [Known(s) -> Relations],
            conflicts : {s.conflicts}, edges : {edges}, observed : {observed},
            sensitive : BOOLEAN, posture : Postures]
        /\ faded.rel = rel /\ faded.conflicts = s.conflicts /\ faded.edges = edges
        /\ faded.observed = observed /\ faded.mood = s.mood
    BY <1>4, <1>5, <1>7 DEF WellFormed
  <2> HIDE DEF faded
  <2> QED BY <1>8, <2>1, <2>2, <2>3 DEF WellFormed, Known
<1> HIDE DEF faded
<1>10. /\ WellFormed(u) /\ Known(u) = Known(s) /\ u.mood = s.mood
      /\ \A q \in Known(s) : SameRegard(u.rel[q], s.rel[q])
  BY <1>6, <1>9 DEF SameRegard
<1> HIDE DEF u
<1> QED BY <1>1, <1>10, RefreshIs
-----------------------------------------------------------------------------
(* Which of the lists of observations each part leaves alone.              *)

Listed(s) == {"edges", "observed"} \subseteq DOMAIN s
Leaves(t, s) == Listed(t) /\ t.edges = s.edges /\ t.observed = s.observed

LEMMA WellFormedListed ==
  ASSUME NEW s, WellFormed(s)
  PROVE  Listed(s)
  BY DEF WellFormed, Listed

LEMMA RelLeaves ==
  ASSUME NEW s, Listed(s), NEW p, NEW r
  PROVE  Leaves([s EXCEPT !.rel = r], s) /\ Leaves([s EXCEPT !.rel[p] = r], s)
  BY DEF Listed, Leaves

LEMMA FeelLeaves ==
  ASSUME NEW s, Listed(s), NEW v, NEW a, NEW f, NEW o
  PROVE  Leaves(Feel(s, v, a, f, o), s)
  BY DEF Listed, Leaves, Feel

LEMMA MeetLeaves ==
  ASSUME NEW s, Listed(s), NEW p
  PROVE  Leaves(Meet(s, p), s)
  BY DEF Listed, Leaves, Meet

LEMMA RefreshLeaves ==
  ASSUME NEW s, Listed(s)
  PROVE  Leaves(RefreshConflicts(s), s)
  BY DEF Listed, Leaves, RefreshConflicts

\* What an event does to the bot itself is not an observation; only a verified
\* "calm" lowers the observed values.
LEMMA ImpactLeaves ==
  ASSUME NEW s, Listed(s), NEW e, NEW c, e.type # "user_moderation"
  PROVE  Leaves(Impact(s, e, c), s)
<1>1. CASE e.type \in {"praise", "support"}
  <2>1. Impact(s, e, c) = Please(s, e, c)
    BY <1>1 DEF Impact, HostileEvents, RepairEvents
  <2> QED BY <2>1 DEF Please, Feel, Leaves, Listed
<1>2. CASE e.type = "joke"
  <2>1. Impact(s, e, c) = Amuse(s, e, c)
    BY <1>2 DEF Impact, HostileEvents, RepairEvents
  <2> QED BY <2>1 DEF Amuse, Feel, Leaves, Listed
<1>3. CASE e.type = "teasing"
  <2>1. Impact(s, e, c) = Tease(s, e, c)
    BY <1>3 DEF Impact, HostileEvents, RepairEvents
  <2> QED BY <2>1 DEF Tease, Feel, Leaves, Listed
<1>4. CASE e.type \in HostileEvents
  <2>1. Impact(s, e, c) = Offend(s, e, c)
    BY <1>4 DEF Impact, HostileEvents, RepairEvents
  <2> QED BY <2>1 DEF Offend, Feel, Leaves, Listed
<1>5. CASE e.type = "disagreement"
  <2>1. Impact(s, e, c) = Disagree(s, e, c)
    BY <1>5 DEF Impact, HostileEvents, RepairEvents
  <2> QED BY <2>1, FeelLeaves DEF Disagree
<1>6. CASE e.type \in RepairEvents
  <2>1. Impact(s, e, c) = Reconcile(s, e, c)
    BY <1>6 DEF Impact, HostileEvents, RepairEvents
  <2> QED BY <2>1 DEF Reconcile, RepairEveryone, Feel, Leaves, Listed
<1>7. CASE e.type = "topic_steering"
  <2>1. Impact(s, e, c) = Steer(s, e, c)
    BY <1>7 DEF Impact, HostileEvents, RepairEvents
  <2> QED BY <2>1, RelLeaves DEF Steer
<1>8. CASE e.type \notin {"praise", "support", "joke", "teasing", "disagreement",
                          "topic_steering"} \cup HostileEvents \cup RepairEvents
  <2>1. Impact(s, e, c) = s
    BY <1>8 DEF Impact, HostileEvents, RepairEvents
  <2> QED BY <2>1 DEF Leaves
<1> QED BY <1>1, <1>2, <1>3, <1>4, <1>5, <1>6, <1>7, <1>8

LEMMA ApplyEventLeaves ==
  ASSUME NEW s, Listed(s), NEW e, NEW c, e.type # "user_moderation"
  PROVE  Leaves(ApplyEvent(s, e, c), s)
<1> DEFINE m == Meet(s, e.speaker)  u == Impact(m, e, c)
<1>1. Leaves(m, s)
  BY MeetLeaves
<1> HIDE DEF m
<1>2. Leaves(u, m)
  BY <1>1, ImpactLeaves DEF Leaves
<1> HIDE DEF u
<1>3. Leaves(RefreshConflicts(u), u)
  BY <1>2, RefreshLeaves DEF Leaves
<1> QED BY <1>1, <1>2, <1>3 DEF ApplyEvent, m, u, Leaves

\* The exchange itself is observed on the lists as they were.
LEMMA ExchangeLists ==
  ASSUME NEW s, Listed(s), NEW e, NEW c
  PROVE  LET t == ObserveExchange(s, e, c) IN
         /\ Listed(t) /\ t.edges = Directed(s.edges, e, c)
         /\ t.observed = Distress(s.observed, e)
<1> DEFINE m == Meet(s, e.speaker)
           r == ObserveStyle(m.rel[e.speaker], e.type)
           atmosphere == Amount(m.atmosphere + Tension(e, c))
           edges == Directed(m.edges, e, c)
           observed == Distress(m.observed, e)
<1>1. Leaves(m, s)
  BY MeetLeaves
<1>2. ObserveExchange(s, e, c) =
        [m EXCEPT !.rel[e.speaker] = r, !.atmosphere = atmosphere, !.edges = edges,
                  !.observed = observed]
  BY DEF ObserveExchange
<1>3. edges = Directed(s.edges, e, c) /\ observed = Distress(s.observed, e)
  <2> HIDE DEF m
  <2> QED BY <1>1 DEF Leaves
<1> HIDE DEF m, r, atmosphere, edges, observed
<1> QED BY <1>1, <1>2, <1>3 DEF Leaves, Listed

\* Time weakens what was observed and forgets nothing of it.
Aged(t, s) ==
  /\ Listed(t)
  /\ DOMAIN t.edges = DOMAIN s.edges /\ Len(t.edges) = Len(s.edges)
  /\ \A k \in DOMAIN s.edges :
       t.edges[k].from = s.edges[k].from /\ t.edges[k].to = s.edges[k].to
  /\ DOMAIN t.observed = DOMAIN s.observed /\ Len(t.observed) = Len(s.observed)
  /\ \A k \in DOMAIN s.observed : t.observed[k].who = s.observed[k].who

LEMMA DecayAges ==
  ASSUME NEW s, WellFormed(s), NEW c, NEW hours
  PROVE  Aged(Decay(s, c, hours), s)
<1> DEFINE mood == MoodFactor[c.traits["persistence"]][hours]
           social == RelationFactor[c.traits["persistence"]][hours]
           rel == [p \in Known(s) |-> FadedRelation(s.rel[p], social)]
           valence == IF s.valence < 0 THEN -Mul(-s.valence, mood) ELSE Mul(s.valence, mood)
           arousal == Mul(s.arousal, mood)
           frustration == Mul(s.frustration, mood)
           offended == Mul(s.offended, mood)
           atmosphere == Mul(s.atmosphere, mood)
           edges == [k \in DOMAIN s.edges |-> FadedEdge(s.edges[k], social)]
           observed == [k \in DOMAIN s.observed |-> FadedRecord(s.observed[k], mood)]
           faded == [s EXCEPT !.valence = valence, !.arousal = arousal, !.frustration = frustration,
                              !.offended = offended, !.atmosphere = atmosphere, !.rel = rel,
                              !.edges = edges, !.observed = observed]
           u == IF hours = 0 THEN s ELSE faded
<1>1. Decay(s, c, hours) = RefreshConflicts(u)
  BY DEF Decay, Known
<1>2. Listed(s) /\ s.edges \in Seq(Edges) /\ s.observed \in Seq(Records)
  BY WellFormedListed, ValuesOf DEF EdgeList, RecordList
<1> HIDE DEF mood, social, valence, arousal, frustration, offended, atmosphere, rel
<1>3. /\ DOMAIN edges = DOMAIN s.edges /\ Len(edges) = Len(s.edges)
      /\ \A k \in DOMAIN s.edges : edges[k].from = s.edges[k].from /\ edges[k].to = s.edges[k].to
  <2>1. DOMAIN edges = 1 .. Len(s.edges) /\ Len(s.edges) \in Nat
    BY <1>2
  <2>2. Len(edges) = Len(s.edges)
    BY <2>1
  <2>3. \A k \in DOMAIN s.edges : s.edges[k] \in Edges
    BY <1>2
  <2> QED BY <2>2, <2>3 DEF FadedEdge, Edges
<1>4. /\ DOMAIN observed = DOMAIN s.observed /\ Len(observed) = Len(s.observed)
      /\ \A k \in DOMAIN s.observed : observed[k].who = s.observed[k].who
  <2>1. DOMAIN observed = 1 .. Len(s.observed) /\ Len(s.observed) \in Nat
    BY <1>2
  <2>2. Len(observed) = Len(s.observed)
    BY <2>1
  <2>3. \A k \in DOMAIN s.observed : s.observed[k] \in Records
    BY <1>2
  <2> QED BY <2>2, <2>3 DEF FadedRecord, Records
<1> HIDE DEF edges, observed
<1>5. Listed(faded) /\ faded.edges = edges /\ faded.observed = observed
  BY <1>2 DEF Listed
<1> HIDE DEF faded
<1>6. Aged(u, s)
  BY <1>2, <1>3, <1>4, <1>5 DEF Aged
<1> HIDE DEF u
<1>7. Leaves(RefreshConflicts(u), u)
  BY <1>6, RefreshLeaves DEF Aged
<1> QED BY <1>1, <1>6, <1>7 DEF Aged, Leaves
=============================================================================
