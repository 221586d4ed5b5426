------------------------ MODULE SessionCatalogProofs ------------------------
(***************************************************************************)
(* Proofs about SessionCatalog, for every set of sessions and every bound. *)
(***************************************************************************)
EXTENDS SessionCatalog, TLAPS, FiniteSetTheorems, SequenceTheorems, WellFoundedInduction

-----------------------------------------------------------------------------
(* The requests under way, and what they mean for the buttons.             *)

\* Requests are records with these fields.
RequestsOf(V) == [id : Nat, replace : V, offset : V, page : V, readAt : V]

\* A requestId names one call of loadPage, none later than the generation.
Ids ==
  /\ generation \in Nat
  /\ \E V : requests \subseteq RequestsOf(V)
  /\ \A r \in requests : r.id <= generation
  /\ \A q, r \in requests : q.id = r.id => q = r

\* LoadingIsCurrent is not inductive: if two requests had the generation as
\* their id, the answer to one would end the loading while the other is due.
LoadInv == Ids /\ loading \in BOOLEAN /\ LoadingIsCurrent

LEMMA LoadInit == Init => LoadInv
  <1> SUFFICES ASSUME Init PROVE LoadInv
  OBVIOUS
<1> DEFINE V == {TRUE, 0, None}
           first == Request(1, TRUE, 0)
<1>1. first \in RequestsOf(V) /\ first.id = 1
  BY DEF Request, RequestsOf
<1>2. requests = {first} /\ generation = 1 /\ loading = TRUE
  BY DEF Init
<1> HIDE DEF V, first
<1>3. \E U : requests \subseteq RequestsOf(U)
  BY <1>1, <1>2
<1> QED BY <1>1, <1>2, <1>3 DEF LoadInv, Ids, LoadingIsCurrent

\* A request keeps its id when it is answered.
LEMMA AnsweredTyped ==
  ASSUME NEW V, NEW r \in RequestsOf(V), NEW page \in V, NEW time \in V
  PROVE  LET answered == [r EXCEPT !.page = page, !.readAt = time]
         IN  answered.id = r.id /\ answered \in RequestsOf(V)
  BY DEF RequestsOf

LEMMA LoadStep ==
  ASSUME LoadInv, [Next]_vars
  PROVE  LoadInv'
<1> USE DEF LoadInv, Ids, LoadingIsCurrent
<1>1. ASSUME NEW s \in Sessions, Touch(s) \/ Collect(s)
      PROVE  LoadInv'
  BY <1>1 DEF Touch, Collect, server, client
<1>2. ASSUME Age
      PROVE  LoadInv'
  BY <1>2 DEF Age, client
<1>3. ASSUME NEW replace \in BOOLEAN, LoadPage(replace)
      PROVE  LoadInv'
  <2> DEFINE offset == IF replace THEN 0 ELSE Len(items)
             new == Request(generation', replace, offset)
  <2>1. /\ generation' = generation + 1 /\ loading' = TRUE
        /\ requests' = requests \cup {new}
    BY <1>3 DEF LoadPage
  <2>2. PICK V : requests \subseteq RequestsOf(V)
    OBVIOUS
  <2> DEFINE W == V \cup {replace, offset, None, 0}
  <2>3. RequestsOf(V) \subseteq RequestsOf(W)
    BY DEF RequestsOf
  <2>4. new \in RequestsOf(W) /\ new.id = generation + 1
    BY <2>1 DEF Request, RequestsOf
  <2> HIDE DEF new, W
  <2>5. \E U : requests' \subseteq RequestsOf(U)
    BY <2>1, <2>2, <2>3, <2>4
  <2>6. \A r \in requests : r.id \in Nat /\ r.id <= generation /\ r.id # new.id
    BY <2>2, <2>4 DEF RequestsOf
  <2> QED BY <2>1, <2>4, <2>5, <2>6
<1>4. ASSUME NEW r \in requests, Answer(r)
      PROVE  LoadInv'
  <2>1. PICK page : requests' = (requests \ {r}) \cup {[r EXCEPT !.page = page, !.readAt = now]}
    BY <1>4 DEF Answer
  <2>2. PICK V : requests \subseteq RequestsOf(V)
    OBVIOUS
  <2> DEFINE answered == [r EXCEPT !.page = page, !.readAt = now]
             W == V \cup {page, now}
  <2>3. RequestsOf(V) \subseteq RequestsOf(W)
    BY DEF RequestsOf
  <2>4. answered.id = r.id /\ answered \in RequestsOf(W)
    <3> HIDE DEF W
    <3>1. r \in RequestsOf(W)
      BY <2>2, <2>3
    <3>2. page \in W /\ now \in W
      BY DEF W
    <3> QED BY <3>1, <3>2, AnsweredTyped
  <2>5. /\ requests' = (requests \ {r}) \cup {answered}
        /\ UNCHANGED <<generation, loading>>
    BY <1>4, <2>1 DEF Answer
  <2> HIDE DEF answered, W
  <2>6. \E U : requests' \subseteq RequestsOf(U)
    BY <2>2, <2>3, <2>4, <2>5
  <2> QED BY <2>4, <2>5, <2>6
<1>5. ASSUME NEW r \in requests, Arrive(r)
      PROVE  LoadInv'
  BY <1>5 DEF Arrive, Current, Ended
<1>6. ASSUME NEW r \in requests, ArriveLate(r)
      PROVE  LoadInv'
  BY <1>6 DEF ArriveLate, Current
<1>7. ASSUME UNCHANGED vars
      PROVE  LoadInv'
  BY <1>7 DEF vars, client
<1> QED
  BY <1>1, <1>2, <1>3, <1>4, <1>5, <1>6, <1>7
     DEF Next, RefreshSessions, Retry, LoadMoreSessions

\* The buttons of the session list are disabled exactly while the answer that
\* will enable them is due, for any number of requests, failures and retries
\* (session_catalog.js:41).
THEOREM LoadingTrue == Spec => []LoadingIsCurrent
<1>1. LoadInv => LoadingIsCurrent
  BY DEF LoadInv
<1> QED
  BY LoadInit, LoadStep, <1>1, PTL DEF Spec

-----------------------------------------------------------------------------
(* The catalog.                                                            *)

\* No two states were updated at the same time, and none in the future.
ServerInv ==
  /\ {now, cutoff} \subseteq Nat
  /\ at \in [Sessions -> 0 .. now]
  /\ \A s, t \in Retained : at[s] = at[t] => s = t

\* Of the unexpired sessions nobody has updated since "time", those that are
\* not among the listed ones come after all of these; "more" says that there
\* may be such sessions.
Complete(listed, more, time) ==
  \A s \in Sessions \ listed :
    at[s] \in cutoff + 1 .. time => more /\ \A t \in listed : at[t] > at[s]

\* The list and what it becomes when the page of r is added to it.
Listed == ToSet(items)
Pending(r) == r.id = generation /\ r.page \notin {Failed, None}

\* The request that counts asks for the first page or for what follows the list,
\* and its answer will leave the list complete, whatever the server does meanwhile.
Promised(r) ==
  /\ r.id = generation => r.offset = IF r.replace THEN 0 ELSE Len(items)
  /\ Pending(r) =>
       /\ IsInjective(r.page.items)
       /\ IF r.replace THEN Complete(ToSet(r.page.items), r.page.hasMore, r.readAt)
          ELSE Complete(Listed \cup ToSet(r.page.items), r.page.hasMore, readAt)

ListInv ==
  /\ readAt <= now
  /\ IsInjective(items)
  /\ Complete(Listed, hasMore, readAt)
  /\ \A r \in requests : r.readAt <= now /\ Promised(r)

CatalogInv == TypeOK /\ ServerInv /\ Ids /\ ListInv

-----------------------------------------------------------------------------
(* Induction, from the well-foundedness of the order on natural numbers.   *)

LEMMA LeastNumber ==
  ASSUME NEW S \in SUBSET Nat, S # {}
  PROVE  \E m \in S : \A n \in S : m <= n
<1>1. PICK m \in S : \A n \in S : ~(<<n, m>> \in OpToRel(<, Nat))
  BY WFMin, NatLessThanWellFounded
<1>2. \A n \in S : ~(n < m)
  BY <1>1 DEF OpToRel
<1> QED BY <1>2

\* A set of numbers that contains 0 and, below a bound, the successor of each
\* of its elements contains all numbers up to the bound.
LEMMA Upwards ==
  ASSUME NEW L \in Nat, NEW S, 0 \in S, \A n \in 0 .. L - 1 : n \in S => n + 1 \in S
  PROVE  0 .. L \subseteq S
<1> SUFFICES ASSUME NEW x \in 0 .. L, x \notin S
             PROVE  FALSE
  OBVIOUS
<1> DEFINE T == {n \in 0 .. L : n \notin S}
<1>1. PICK m \in T : \A n \in T : m <= n
  <2>1. T \in SUBSET Nat /\ T # {}
    OBVIOUS
  <2> HIDE DEF T
  <2> QED BY <2>1, LeastNumber
<1>2. m # 0 /\ m - 1 \in 0 .. L - 1
  OBVIOUS
<1>3. m - 1 \in S
  BY <1>1, <1>2
<1> QED BY <1>2, <1>3

-----------------------------------------------------------------------------
(* The server's list.                                                      *)

LEMMA RetainedFinite ==
  ASSUME ServerInv
  PROVE  IsFiniteSet(Retained)
<1> DEFINE f == [s \in Retained |-> at[s]]
<1>1. f \in [Retained -> 1 .. now]
  BY DEF ServerInv, Retained
<1>2. f \in Injection(Retained, 1 .. now)
  BY <1>1 DEF Injection, IsInjective, ServerInv
<1>3. IsFiniteSet(1 .. now)
  BY FS_Interval DEF ServerInv
<1> QED BY <1>2, <1>3, FS_Injection

LEMMA NewerIs ==
  ASSUME ServerInv, NEW s \in Retained
  PROVE  /\ IsFiniteSet(Newer(s)) /\ Newer(s) \subseteq Retained
         /\ Cardinality(Newer(s)) \in 0 .. Cardinality(Retained) - 1
<1>1. IsFiniteSet(Retained) /\ Cardinality(Retained) \in Nat
  BY RetainedFinite, FS_CardinalityType
<1>2. Newer(s) \subseteq Retained \ {s}
  BY DEF Newer, ServerInv, Retained
<1>3. IsFiniteSet(Retained \ {s}) /\ Cardinality(Retained \ {s}) = Cardinality(Retained) - 1
  BY <1>1, FS_RemoveElement
<1>4. IsFiniteSet(Newer(s)) /\ Cardinality(Newer(s)) <= Cardinality(Retained) - 1
  BY <1>2, <1>3, FS_Subset
<1>5. Cardinality(Newer(s)) \in Nat
  BY <1>4, FS_CardinalityType
<1> QED BY <1>1, <1>2, <1>4, <1>5

LEMMA NewerGrows ==
  ASSUME ServerInv, NEW s \in Retained, NEW t \in Retained, at[s] > at[t]
  PROVE  Cardinality(Newer(s)) < Cardinality(Newer(t))
<1>1. Newer(s) \subseteq Newer(t) /\ s \in Newer(t) \ Newer(s)
  BY DEF Newer, ServerInv, Retained
<1>2. IsFiniteSet(Newer(t)) /\ Cardinality(Newer(t)) \in Nat /\ Cardinality(Newer(s)) \in Nat
  BY NewerIs
<1>3. Cardinality(Newer(s)) <= Cardinality(Newer(t)) /\ Cardinality(Newer(s)) # Cardinality(Newer(t))
  BY <1>1, <1>2, FS_Subset
<1> QED BY <1>2, <1>3

\* Every retained session has its place in the list, behind the newer ones.
LEMMA RecentIs ==
  ASSUME ServerInv
  PROVE  /\ Cardinality(Retained) \in Nat
         /\ Recent \in [1 .. Cardinality(Retained) -> Retained]
         /\ \A k \in 1 .. Cardinality(Retained) : Cardinality(Newer(Recent[k])) = k - 1
         /\ \A s \in Retained : s = Recent[Cardinality(Newer(s)) + 1]
<1> DEFINE n == Cardinality(Retained)
           rank == [s \in Retained |-> Cardinality(Newer(s)) + 1]
<1>1. IsFiniteSet(Retained) /\ n \in Nat
  BY RetainedFinite, FS_CardinalityType
<1>2. \A s \in Retained : Cardinality(Newer(s)) \in 0 .. n - 1
  BY NewerIs
<1>3. \A s, t \in Retained : Cardinality(Newer(s)) = Cardinality(Newer(t)) => s = t
  <2> SUFFICES ASSUME NEW s \in Retained, NEW t \in Retained, s # t
               PROVE  Cardinality(Newer(s)) # Cardinality(Newer(t))
    OBVIOUS
  <2>1. at[s] > at[t] \/ at[t] > at[s]
    BY DEF ServerInv, Retained
  <2> QED BY <1>2, <2>1, NewerGrows
<1>4. rank \in Injection(Retained, 1 .. n)
  <2>1. rank \in [Retained -> 1 .. n]
    BY <1>1, <1>2
  <2>2. IsInjective(rank)
    BY <1>2, <1>3 DEF IsInjective
  <2> QED BY <2>1, <2>2 DEF Injection
<1>5. rank \in Surjection(Retained, 1 .. n)
  <2>1. IsFiniteSet(1 .. n) /\ Cardinality(1 .. n) = n
    BY <1>1, FS_Interval
  <2> QED BY <1>4, <2>1, FS_Injection
<1>6. \A k \in 1 .. n : \E s \in Retained : rank[s] = k
  BY <1>5 DEF Surjection
<1>7. ASSUME NEW k \in 1 .. n
      PROVE  Recent[k] \in Retained /\ Cardinality(Newer(Recent[k])) = k - 1
  <2>1. \E s \in Retained : Cardinality(Newer(s)) = k - 1
    BY <1>1, <1>2, <1>6
  <2>2. Recent[k] = CHOOSE s \in Retained : Cardinality(Newer(s)) = k - 1
    BY DEF Recent
  <2> QED BY <2>1, <2>2
<1>8. Recent \in [1 .. n -> Retained]
  BY <1>7 DEF Recent
<1>9. ASSUME NEW s \in Retained
      PROVE  s = Recent[Cardinality(Newer(s)) + 1]
  <2>1. Cardinality(Newer(s)) + 1 \in 1 .. n
    BY <1>1, <1>2
  <2> QED BY <1>1, <1>2, <1>3, <1>7, <2>1
<1> QED BY <1>1, <1>7, <1>8, <1>9

-----------------------------------------------------------------------------
(* Pages and lists.                                                        *)

LEMMA ListSize ==
  ASSUME NEW S, NEW s \in Seq(S), IsInjective(s)
  PROVE  IsFiniteSet(ToSet(s)) /\ Cardinality(ToSet(s)) = Len(s)
<1>1. DOMAIN s = 1 .. Len(s) /\ Len(s) \in Nat
  OBVIOUS
<1>2. s \in [1 .. Len(s) -> ToSet(s)]
  BY <1>1 DEF ToSet
<1>3. s \in Bijection(1 .. Len(s), ToSet(s))
  BY <1>1, <1>2 DEF Bijection, Injection, Surjection, ToSet
<1>4. IsFiniteSet(1 .. Len(s)) /\ Cardinality(1 .. Len(s)) = Len(s)
  BY <1>1, FS_Interval
<1> QED BY <1>3, <1>4, FS_Bijection DEF ExistsBijection

LEMMA MinIs ==
  ASSUME NEW m \in Nat, NEW n \in Nat
  PROVE  Min({m, n}) = IF m <= n THEN m ELSE n
BY DEF Min

LEMMA PageFields ==
  ASSUME NEW page, NEW list, NEW more, page = [items |-> list, hasMore |-> more]
  PROVE  page.items = list /\ page.hasMore = more
OBVIOUS

\* A page is the part of the list that begins behind the offset.
LEMMA PageIs ==
  ASSUME ServerInv, NEW offset \in Nat
  PROVE  LET page == Page(offset)
             n == Cardinality(Retained)
         IN  /\ page \in [items : Seq(Retained), hasMore : BOOLEAN]
             /\ Len(page.items) <= Limit
             /\ offset + Len(page.items) <= n \/ Len(page.items) = 0
             /\ \A k \in 1 .. Len(page.items) : page.items[k] = Recent[offset + k]
             /\ ~page.hasMore => n <= offset + Len(page.items)
<1> DEFINE n == Cardinality(Retained)
           rest == SubSeq(Recent, offset + 1, Len(Recent))
           cut == Min({Limit, Len(rest)})
           more == Len(rest) > Limit
<1>1. n \in Nat /\ Recent \in Seq(Retained) /\ Len(Recent) = n
  BY RecentIs
<1>2. /\ rest \in Seq(Retained) /\ Len(rest) = IF offset < n THEN n - offset ELSE 0
      /\ \A k \in 1 .. Len(rest) : rest[k] = Recent[offset + k]
  BY <1>1
<1>3. Limit \in Nat /\ Limit > 0 /\ Len(rest) \in Nat
  BY <1>2, LimitAssumption
<1>4. cut = IF Limit <= Len(rest) THEN Limit ELSE Len(rest)
  BY <1>3, MinIs
<1>5. Page(offset) = [items |-> SubSeq(rest, 1, cut), hasMore |-> more]
  BY DEF Page
<1> HIDE DEF n, rest, cut
<1>6. /\ SubSeq(rest, 1, cut) \in Seq(Retained) /\ Len(SubSeq(rest, 1, cut)) = cut
      /\ \A k \in 1 .. cut : SubSeq(rest, 1, cut)[k] = rest[k]
  BY <1>2, <1>3, <1>4
<1>7. more \in BOOLEAN
  OBVIOUS
<1> HIDE DEF more
<1>8. Page(offset).items = SubSeq(rest, 1, cut) /\ Page(offset).hasMore = more
  BY <1>5, PageFields
<1>9. Page(offset) \in [items : Seq(Retained), hasMore : BOOLEAN]
  BY <1>3, <1>5, <1>6, <1>7
<1>10. \A k \in 1 .. cut : k \in 1 .. Len(rest)
  BY <1>3, <1>4
<1> QED BY <1>1, <1>2, <1>3, <1>4, <1>6, <1>8, <1>9, <1>10 DEF n, more

\* What a page leaves behind is older than what it brings.
LEMMA PageOrdered ==
  ASSUME ServerInv, NEW offset \in Nat
  PROVE  /\ IsInjective(Page(offset).items)
         /\ \A s \in Retained \ ToSet(Page(offset).items) :
              offset <= Cardinality(Newer(s)) =>
                /\ Page(offset).hasMore
                /\ \A t \in ToSet(Page(offset).items) : at[t] > at[s]
<1> DEFINE page == Page(offset)
           n == Cardinality(Retained)
<1>1. /\ n \in Nat /\ page.items \in Seq(Retained)
      /\ \A k \in 1 .. Len(page.items) : page.items[k] = Recent[offset + k]
      /\ offset + Len(page.items) <= n \/ Len(page.items) = 0
      /\ ~page.hasMore => n <= offset + Len(page.items)
      /\ page.hasMore \in BOOLEAN
  BY PageIs, RecentIs
<1> HIDE DEF page
<1>2. \A k \in 1 .. Len(page.items) :
        page.items[k] \in Retained /\ Cardinality(Newer(page.items[k])) = offset + k - 1
  <2> SUFFICES ASSUME NEW k \in 1 .. Len(page.items)
               PROVE  /\ Recent[offset + k] \in Retained
                      /\ Cardinality(Newer(Recent[offset + k])) = offset + k - 1
    BY <1>1
  <2>1. offset + k \in 1 .. n
    BY <1>1
  <2> QED BY <2>1, RecentIs
<1>3. IsInjective(page.items)
  <2> SUFFICES ASSUME NEW i \in 1 .. Len(page.items), NEW k \in 1 .. Len(page.items),
                      page.items[i] = page.items[k]
               PROVE  i = k
    BY <1>1 DEF IsInjective
  <2>1. offset + i - 1 = offset + k - 1
    BY <1>2
  <2>2. i \in Int /\ k \in Int
    OBVIOUS
  <2> QED BY <2>1, <2>2
<1>4. ASSUME NEW s \in Retained \ ToSet(page.items), offset <= Cardinality(Newer(s))
      PROVE  page.hasMore /\ \A t \in ToSet(page.items) : at[t] > at[s]
  <2>1. Cardinality(Newer(s)) \in 0 .. n - 1 /\ s = Recent[Cardinality(Newer(s)) + 1]
    BY NewerIs, RecentIs
  <2>2. Cardinality(Newer(s)) + 1 > offset + Len(page.items)
    <3> SUFFICES ASSUME Cardinality(Newer(s)) + 1 <= offset + Len(page.items)
                 PROVE  FALSE
      BY <1>1, <2>1
    <3> DEFINE k == Cardinality(Newer(s)) + 1 - offset
    <3>1. k \in 1 .. Len(page.items) /\ offset + k = Cardinality(Newer(s)) + 1
      BY <1>1, <1>4, <2>1
    <3>2. page.items[k] = s
      BY <1>1, <2>1, <3>1
    <3>3. s \in ToSet(page.items)
      BY <1>1, <3>1, <3>2 DEF ToSet
    <3> QED BY <1>4, <3>3
  <2>3. page.hasMore
    BY <1>1, <2>1, <2>2
  <2>4. ASSUME NEW t \in ToSet(page.items)
        PROVE  at[t] > at[s]
    <3>1. PICK k \in 1 .. Len(page.items) : t = page.items[k]
      BY <1>1 DEF ToSet
    <3>2. t \in Retained /\ Cardinality(Newer(t)) < Cardinality(Newer(s))
      BY <1>1, <1>2, <2>1, <2>2, <3>1
    <3>3. at[s] \in Nat /\ at[t] \in Nat
      BY <3>2 DEF ServerInv, Retained
    <3>4. at[s] # at[t]
      BY <2>1, <3>2 DEF ServerInv
    <3>5. ~(at[s] > at[t])
      BY <2>1, <3>2, NewerIs, NewerGrows
    <3> QED BY <3>3, <3>4, <3>5
  <2> QED BY <2>3, <2>4
<1> QED BY <1>3, <1>4 DEF page

\* What forEach leaves: everything listed before and everything on the page,
\* each session once.
LEMMA MergedIs ==
  ASSUME NEW page, page.items \in Seq(Sessions), items \in Seq(Sessions), IsInjective(items)
  PROVE  /\ Merged(page) \in Seq(Sessions) /\ IsInjective(Merged(page))
         /\ ToSet(Merged(page)) = Listed \cup ToSet(page.items)
<1> DEFINE new == page.items
           L == Len(new)
           Step(list, n) == IF new[n] \in ToSet(list) THEN list ELSE Append(list, new[n])
           Loop(f) == [n \in 0 .. L |-> IF n = 0 THEN items
                                        ELSE IF new[n] \in ToSet(f[n - 1]) THEN f[n - 1]
                                        ELSE Append(f[n - 1], new[n])]
           Runs(m) == {f \in [0 .. m -> Seq(Sessions)] :
                         f[0] = items /\ \A n \in 1 .. m : f[n] = Step(f[n - 1], n)}
<1>1. L \in Nat /\ new \in [1 .. L -> Sessions]
  OBVIOUS
<1>2. \A list \in Seq(Sessions), n \in 1 .. L : Step(list, n) \in Seq(Sessions)
  BY <1>1
<1>3. Runs(L) # {}
  <2> DEFINE S == {m \in 0 .. L : Runs(m) # {}}
  <2>1. 0 \in S
    <3>1. [n \in 0 .. 0 |-> items] \in Runs(0)
      OBVIOUS
    <3> HIDE DEF Runs
    <3> QED BY <1>1, <3>1
  <2>2. ASSUME NEW m \in 0 .. L - 1, m \in S
        PROVE  m + 1 \in S
    <3>1. PICK f \in Runs(m) : TRUE
      BY <2>2
    <3> DEFINE g == [n \in 0 .. m + 1 |-> IF n <= m THEN f[n] ELSE Step(f[m], m + 1)]
    <3>2. f \in [0 .. m -> Seq(Sessions)] /\ f[0] = items
          /\ \A n \in 1 .. m : f[n] = Step(f[n - 1], n)
      BY <3>1
    <3>3. Step(f[m], m + 1) \in Seq(Sessions)
      BY <1>1, <1>2, <3>2
    <3> HIDE DEF Step
    <3>4. g \in [0 .. m + 1 -> Seq(Sessions)] /\ g[0] = items
      BY <3>2, <3>3
    <3>5. ASSUME NEW n \in 1 .. m + 1
          PROVE  g[n] = Step(g[n - 1], n)
      <4>1. CASE n <= m
        BY <3>2, <4>1
      <4>2. CASE n = m + 1
        BY <3>2, <4>2
      <4> QED BY <4>1, <4>2
    <3> HIDE DEF g
    <3>6. g \in Runs(m + 1)
      BY <3>4, <3>5
    <3> HIDE DEF Runs
    <3> QED BY <1>1, <3>6
  <2> HIDE DEF S
  <2>3. 0 .. L \subseteq S
    BY <1>1, <2>1, <2>2, Upwards
  <2> HIDE DEF Runs
  <2> QED BY <1>1, <2>3 DEF S
<1> DEFINE list == CHOOSE f : f = Loop(f)
<1>4. list = Loop(list)
  <2>1. PICK f \in Runs(L) : TRUE
    BY <1>3
  <2>2. /\ f \in [0 .. L -> Seq(Sessions)] /\ f[0] = items
        /\ \A n \in 1 .. L : f[n] = Step(f[n - 1], n)
    BY <2>1
  <2>3. ASSUME NEW n \in 0 .. L
        PROVE  f[n] = Loop(f)[n]
    <3>1. CASE n = 0
      BY <2>2, <3>1
    <3>2. CASE n # 0
      BY <1>1, <2>2, <3>2
    <3> QED BY <3>1, <3>2
  <2>4. f = [n \in 0 .. L |-> f[n]] /\ Loop(f) = [n \in 0 .. L |-> Loop(f)[n]]
    BY <2>2
  <2> HIDE DEF Loop
  <2> QED BY <2>3, <2>4
<1>5. Merged(page) = list[L]
  BY DEF Merged
<1> HIDE DEF list
<1>6. list[0] = items /\ \A n \in 1 .. L : list[n] = Step(list[n - 1], n)
  <2>1. \A n \in 0 .. L : list[n] = Loop(list)[n]
    BY <1>4
  <2>2. Loop(list)[0] = items
    BY <1>1
  <2>3. ASSUME NEW n \in 1 .. L
        PROVE  Loop(list)[n] = Step(list[n - 1], n)
    BY <1>1
  <2> HIDE DEF Loop, Step
  <2> QED BY <1>1, <2>1, <2>2, <2>3
<1> DEFINE Good(n) == /\ list[n] \in Seq(Sessions) /\ IsInjective(list[n])
                      /\ ToSet(list[n]) = Listed \cup {new[k] : k \in 1 .. n}
<1>7. 0 .. L \subseteq {n \in 0 .. L : Good(n)}
  <2>1. Good(0)
    BY <1>6 DEF Listed
  <2>2. ASSUME NEW n \in 0 .. L - 1, Good(n)
        PROVE  Good(n + 1)
    <3> DEFINE s == list[n]
               x == new[n + 1]
    <3>1. /\ s \in Seq(Sessions) /\ IsInjective(s) /\ x \in Sessions
          /\ ToSet(s) = Listed \cup {new[k] : k \in 1 .. n}
          /\ list[n + 1] = IF x \in ToSet(s) THEN s ELSE Append(s, x)
      BY <1>1, <1>6, <2>2
    <3>2. {new[k] : k \in 1 .. n + 1} = {new[k] : k \in 1 .. n} \cup {x}
      BY <2>2
    <3> HIDE DEF s, x
    <3>3. CASE x \in ToSet(s)
      BY <3>1, <3>2, <3>3
    <3>4. CASE x \notin ToSet(s)
      <4>1. Append(s, x) \in Seq(Sessions) /\ DOMAIN Append(s, x) = DOMAIN s \cup {Len(s) + 1}
            /\ \A k \in DOMAIN s : Append(s, x)[k] = s[k]
            /\ Append(s, x)[Len(s) + 1] = x
        BY <3>1
      <4>2. IsInjective(Append(s, x))
        BY <3>1, <3>4, <4>1 DEF IsInjective, ToSet
      <4>3. ToSet(Append(s, x)) = ToSet(s) \cup {x}
        BY <3>1, <4>1 DEF ToSet
      <4> QED BY <3>1, <3>2, <3>4, <4>1, <4>2, <4>3
    <3> QED BY <3>3, <3>4
  <2> HIDE DEF Good
  <2> DEFINE S == {n \in 0 .. L : Good(n)}
  <2>3. 0 \in S /\ \A n \in 0 .. L - 1 : n \in S => n + 1 \in S
    BY <1>1, <2>1, <2>2
  <2> HIDE DEF S
  <2>4. 0 .. L \subseteq S
    BY <1>1, <2>3, Upwards
  <2> QED BY <2>4 DEF S
<1>8. Good(L)
  <2> HIDE DEF Good
  <2> QED BY <1>1, <1>7
<1>9. {new[k] : k \in 1 .. L} = ToSet(new)
  BY <1>1 DEF ToSet
<1> QED BY <1>5, <1>8, <1>9

-----------------------------------------------------------------------------
(* What an answer adds leaves the list complete.                           *)

LEMMA PageTyped ==
  ASSUME ServerInv, NEW offset \in Nat
  PROVE  Page(offset) \in Pages
<1> DEFINE page == Page(offset)
<1>1. page \in [items : Seq(Retained), hasMore : BOOLEAN] /\ Len(page.items) <= Limit
  BY PageIs
<1>2. Limit \in Nat /\ Retained \subseteq Sessions
  BY LimitAssumption DEF Retained
<1> HIDE DEF page
<1>3. page.items \in BoundedSeq(Sessions, Limit)
  <2>1. Len(page.items) \in 0 .. Limit /\ page.items \in [1 .. Len(page.items) -> Sessions]
    BY <1>1, <1>2
  <2> QED BY <2>1 DEF BoundedSeq, SeqOf
<1>4. page \in Pages
  BY <1>1, <1>3 DEF Pages
<1> QED BY <1>4 DEF page

LEMMA PageSequence ==
  ASSUME NEW page \in Pages
  PROVE  page.items \in Seq(Sessions) /\ page.hasMore \in BOOLEAN
<1>1. page.items \in BoundedSeq(Sessions, Limit) /\ page.hasMore \in BOOLEAN
  BY DEF Pages
<1>2. PICK m \in 0 .. Limit : page.items \in [1 .. m -> Sessions]
  BY <1>1 DEF BoundedSeq, SeqOf
<1>3. m \in Nat
  OBVIOUS
<1> QED BY <1>1, <1>2, <1>3

LEMMA FirstPage ==
  ASSUME ServerInv
  PROVE  Complete(ToSet(Page(0).items), Page(0).hasMore, now)
<1> DEFINE page == Page(0)
<1> SUFFICES ASSUME NEW s \in Sessions \ ToSet(page.items), at[s] \in cutoff + 1 .. now
             PROVE  page.hasMore /\ \A t \in ToSet(page.items) : at[t] > at[s]
  BY DEF Complete
<1>1. s \in Retained
  BY DEF Retained, ServerInv
<1>2. 0 <= Cardinality(Newer(s))
  BY <1>1, NewerIs
<1> QED BY <1>1, <1>2, PageOrdered

LEMMA NextPage ==
  ASSUME ServerInv, items \in Seq(Sessions), IsInjective(items),
         readAt \in Nat, readAt <= now, Complete(Listed, hasMore, readAt)
  PROVE  LET page == Page(Len(items))
         IN  Complete(Listed \cup ToSet(page.items), page.hasMore, readAt)
<1> DEFINE page == Page(Len(items))
<1> SUFFICES ASSUME NEW s \in Sessions \ (Listed \cup ToSet(page.items)),
                    at[s] \in cutoff + 1 .. readAt
             PROVE  /\ page.hasMore
                    /\ \A t \in Listed \cup ToSet(page.items) : at[t] > at[s]
  BY DEF Complete
<1>1. s \in Retained
  BY DEF Retained, ServerInv
<1>2. \A t \in Listed : at[t] > at[s]
  BY DEF Complete
<1>3. Listed \subseteq Newer(s)
  <2>1. Listed \subseteq Sessions
    BY DEF Listed, ToSet
  <2> QED BY <1>1, <1>2, <2>1 DEF Newer, Retained, ServerInv
<1>4. Len(items) <= Cardinality(Newer(s))
  BY <1>1, <1>3, NewerIs, ListSize, FS_Subset DEF Listed
<1>5. Len(items) \in Nat /\ s \in Retained \ ToSet(page.items)
  BY <1>1
<1>6. page.hasMore /\ \A t \in ToSet(page.items) : at[t] > at[s]
  BY <1>4, <1>5, PageOrdered
<1> QED BY <1>2, <1>6

\* Updates, the passing of time and retention leave a complete list complete.
LEMMA CompleteStays ==
  ASSUME ServerInv, Age \/ \E s \in Sessions : Touch(s) \/ Collect(s),
         NEW listed \in SUBSET Sessions, NEW more, NEW time \in Nat, time <= now,
         Complete(listed, more, time)
  PROVE  \A s \in Sessions \ listed :
           at'[s] \in cutoff' + 1 .. time => more /\ \A t \in listed : at'[t] > at'[s]
<1> SUFFICES ASSUME NEW s \in Sessions \ listed, at'[s] \in cutoff' + 1 .. time
             PROVE  more /\ \A t \in listed : at'[t] > at'[s]
  OBVIOUS
<1> DEFINE Kept == /\ at'[s] = at[s] /\ at[s] \in cutoff + 1 .. time
                   /\ \A t \in listed : at'[t] = at[t] \/ at'[t] > at[s] \/ at[t] <= cutoff
<1>1. Kept
  <2>1. CASE Age
    BY <2>1 DEF Age, ServerInv
  <2>2. ASSUME NEW x \in Sessions, Touch(x)
        PROVE  Kept
    BY <2>2 DEF Touch, ServerInv
  <2>3. ASSUME NEW x \in Sessions, Collect(x)
        PROVE  Kept
    BY <2>3 DEF Collect, Expired, ServerInv
  <2> QED BY <2>1, <2>2, <2>3
<1>2. more /\ \A t \in listed : at[t] > at[s]
  BY <1>1 DEF Complete
<1> QED BY <1>1, <1>2 DEF ServerInv

-----------------------------------------------------------------------------
(* Every step preserves the invariant.                                     *)

LEMMA CatalogInit == Init => CatalogInv
<1> SUFFICES ASSUME Init
             PROVE  CatalogInv
  OBVIOUS
<1>1. ServerInv
  BY BoundAssumption DEF Init, ServerInv
<1>2. Ids
  BY LoadInit DEF LoadInv
<1> DEFINE first == [id |-> 1, replace |-> TRUE, offset |-> 0, page |-> None, readAt |-> 0]
<1>3. requests = {first} /\ first \in RequestRecords
  BY DEF Init, Request, RequestRecords
<1>4. TypeOK
  <2>1. at \in [Sessions -> Nat]
    BY <1>1 DEF ServerInv
  <2>2. {now, cutoff, generation, readAt} \subseteq Nat /\ items \in Seq(Sessions)
    BY <1>1 DEF Init, ServerInv
  <2>3. {hasMore, loading, error} \subseteq BOOLEAN
    BY DEF Init
  <2> HIDE DEF first
  <2> QED BY <1>3, <2>1, <2>2, <2>3 DEF TypeOK
<1>5. ListInv
  <2>1. IsInjective(items) /\ Complete(Listed, hasMore, readAt) /\ readAt <= now
    BY <1>1 DEF Init, IsInjective, Complete, ServerInv
  <2>2. first.readAt <= now /\ Promised(first)
    BY <1>1 DEF Init, Promised, Pending, ServerInv
  <2> HIDE DEF first
  <2> QED BY <1>3, <2>1, <2>2 DEF ListInv
<1> QED BY <1>1, <1>2, <1>4, <1>5 DEF CatalogInv

LEMMA ServerStep ==
  ASSUME CatalogInv, Age \/ \E s \in Sessions : Touch(s) \/ Collect(s), Ids'
  PROVE  CatalogInv'
<1>1. UNCHANGED client
  BY DEF Age, Touch, Collect
<1>2. TypeOK'
  <2>1. at \in [Sessions -> Nat] /\ {now, cutoff} \subseteq Nat
    BY DEF CatalogInv, TypeOK, ServerInv
  <2>2. at' \in [Sessions -> Nat] /\ {now', cutoff'} \subseteq Nat
    <3>1. CASE Age
      BY <2>1, <3>1 DEF Age
    <3>2. ASSUME NEW x \in Sessions, Touch(x)
          PROVE  at' \in [Sessions -> Nat] /\ {now', cutoff'} \subseteq Nat
      BY <2>1, <3>2 DEF Touch
    <3>3. ASSUME NEW x \in Sessions, Collect(x)
          PROVE  at' \in [Sessions -> Nat] /\ {now', cutoff'} \subseteq Nat
      BY <2>1, <3>3 DEF Collect
    <3> QED BY <3>1, <3>2, <3>3
  <2>3. UNCHANGED <<items, hasMore, loading, error, generation, requests, readAt>>
    BY <1>1 DEF client
  <2> QED BY <2>2, <2>3 DEF TypeOK, CatalogInv
<1>3. ServerInv'
  <2> USE DEF CatalogInv, ServerInv, Retained
  <2>1. CASE Age
    BY <2>1 DEF Age
  <2>2. ASSUME NEW x \in Sessions, Touch(x)
        PROVE  ServerInv'
    BY <2>2 DEF Touch
  <2>3. ASSUME NEW x \in Sessions, Collect(x)
        PROVE  ServerInv'
    BY <2>3 DEF Collect, Expired
  <2> QED BY <2>1, <2>2, <2>3
<1>4. now \in Nat /\ now' \in Nat /\ now <= now' /\ readAt \in Nat /\ items \in Seq(Sessions)
  BY DEF Age, Touch, Collect, CatalogInv, ServerInv, TypeOK
<1>5. Complete(Listed, hasMore, readAt)'
  <2>1. Listed \in SUBSET Sessions /\ readAt <= now /\ Complete(Listed, hasMore, readAt)
    BY <1>4 DEF Listed, ToSet, CatalogInv, ListInv
  <2>2. \A s \in Sessions \ Listed : at'[s] \in cutoff' + 1 .. readAt =>
          hasMore /\ \A t \in Listed : at'[t] > at'[s]
    BY <1>4, <2>1, CompleteStays DEF CatalogInv
  <2> QED BY <1>1, <2>2 DEF Complete, Listed, client
<1>6. ASSUME NEW r \in requests
      PROVE  r.readAt <= now' /\ Promised(r)'
  <2>1. /\ r \in RequestRecords /\ r.readAt \in Nat /\ r.readAt <= now /\ Promised(r)
        /\ r.page \in Pages \cup {Failed, None}
    BY DEF CatalogInv, ListInv, TypeOK, RequestRecords
  <2>2. ASSUME Pending(r)
        PROVE  /\ IsInjective(r.page.items)
               /\ IF r.replace THEN Complete(ToSet(r.page.items), r.page.hasMore, r.readAt)'
                  ELSE Complete(Listed \cup ToSet(r.page.items), r.page.hasMore, readAt)'
    <3>1. r.page.items \in Seq(Sessions)
      BY <2>1, <2>2, PageSequence DEF Pending
    <3>2. ToSet(r.page.items) \in SUBSET Sessions /\ Listed \cup ToSet(r.page.items) \in SUBSET Sessions
      BY <1>4, <3>1 DEF Listed, ToSet
    <3>3. CASE r.replace
      <4>1. Complete(ToSet(r.page.items), r.page.hasMore, r.readAt)
        BY <2>1, <2>2, <3>3 DEF Promised
      <4>2. \A s \in Sessions \ ToSet(r.page.items) : at'[s] \in cutoff' + 1 .. r.readAt =>
              r.page.hasMore /\ \A t \in ToSet(r.page.items) : at'[t] > at'[s]
        BY <2>1, <3>2, <4>1, CompleteStays DEF CatalogInv
      <4> QED BY <2>1, <2>2, <3>3, <4>2 DEF Complete, Promised
    <3>4. CASE ~r.replace
      <4> DEFINE listed == Listed \cup ToSet(r.page.items)
      <4>1. Complete(listed, r.page.hasMore, readAt) /\ readAt <= now
        BY <2>1, <2>2, <3>4 DEF Promised, CatalogInv, ListInv
      <4>2. listed \in SUBSET Sessions
        BY <3>2
      <4>3. \A s \in Sessions \ listed : at'[s] \in cutoff' + 1 .. readAt =>
              r.page.hasMore /\ \A t \in listed : at'[t] > at'[s]
        <5> HIDE DEF listed
        <5> QED BY <1>4, <4>1, <4>2, CompleteStays DEF CatalogInv
      <4>4. Listed' = Listed /\ readAt' = readAt
        BY <1>1 DEF Listed, client
      <4> QED BY <2>1, <2>2, <3>4, <4>3, <4>4 DEF Complete, Promised
    <3> QED BY <3>3, <3>4
  <2>3. Promised(r)'
    BY <1>1, <2>1, <2>2 DEF Promised, Pending, client
  <2> QED BY <1>4, <2>1, <2>3
<1>7. ListInv'
  BY <1>1, <1>4, <1>5, <1>6 DEF ListInv, CatalogInv, client
<1> QED BY <1>2, <1>3, <1>7 DEF CatalogInv

LEMMA LoadPageStep ==
  ASSUME CatalogInv, NEW replace \in BOOLEAN, LoadPage(replace), Ids'
  PROVE  CatalogInv'
<1> DEFINE new == [id |-> generation + 1, replace |-> replace,
                   offset |-> IF replace THEN 0 ELSE Len(items), page |-> None, readAt |-> 0]
<1>1. /\ requests' = requests \cup {new} /\ generation' = generation + 1
      /\ loading' = TRUE /\ error' = (error /\ ~replace)
      /\ UNCHANGED <<at, now, cutoff, items, hasMore, readAt>>
  BY DEF LoadPage, Request, server
<1>2. /\ generation \in Nat /\ items \in Seq(Sessions) /\ now \in Nat
      /\ \A r \in requests : r \in RequestRecords /\ r.id <= generation /\ r.id # generation + 1
  <2>1. generation \in Nat /\ items \in Seq(Sessions) /\ now \in Nat /\ requests \subseteq RequestRecords
    BY DEF CatalogInv, TypeOK
  <2>2. \A r \in requests : r.id <= generation
    BY DEF CatalogInv, Ids
  <2> QED BY <2>1, <2>2 DEF RequestRecords
<1>3. new \in RequestRecords
  BY <1>2 DEF RequestRecords
<1>4. /\ new.id = generation + 1 /\ new.replace = replace /\ new.page = None /\ new.readAt = 0
      /\ new.offset = IF replace THEN 0 ELSE Len(items)
  OBVIOUS
<1> HIDE DEF new
<1>5. TypeOK'
  <2>1. requests' \subseteq RequestRecords
    BY <1>1, <1>3 DEF CatalogInv, TypeOK
  <2> QED BY <1>1, <1>2, <2>1 DEF CatalogInv, TypeOK
<1>6. ServerInv'
  BY <1>1 DEF CatalogInv, ServerInv, Retained
<1>7. Complete(Listed, hasMore, readAt)' /\ IsInjective(items)' /\ (readAt <= now)'
  BY <1>1 DEF CatalogInv, ListInv, Complete, Listed
<1>8. ASSUME NEW r \in requests'
      PROVE  r.readAt <= now' /\ Promised(r)'
  <2>1. CASE r \in requests
    BY <1>1, <1>2, <2>1 DEF Promised, Pending, CatalogInv, ListInv
  <2>2. CASE r = new
    BY <1>1, <1>2, <1>4, <2>2 DEF Promised, Pending
  <2> QED BY <1>1, <2>1, <2>2
<1>9. ListInv'
  BY <1>7, <1>8 DEF ListInv
<1> QED BY <1>5, <1>6, <1>9 DEF CatalogInv

LEMMA AnswerStep ==
  ASSUME CatalogInv, NEW r \in requests, Answer(r), Ids'
  PROVE  CatalogInv'
<1>1. PICK page \in {Page(r.offset), Failed} :
        requests' = (requests \ {r}) \cup {[r EXCEPT !.page = page, !.readAt = now]}
  BY DEF Answer
<1> DEFINE new == [r EXCEPT !.page = page, !.readAt = now]
<1>2. UNCHANGED <<at, now, cutoff, items, hasMore, loading, error, generation, readAt>>
  BY DEF Answer, server
<1>3. /\ r \in RequestRecords /\ Promised(r) /\ now \in Nat /\ readAt \in Nat
      /\ items \in Seq(Sessions) /\ IsInjective(items)
      /\ readAt <= now /\ Complete(Listed, hasMore, readAt) /\ ServerInv
  BY DEF CatalogInv, TypeOK, ListInv
<1>4. r.offset \in Nat /\ r.id \in Nat /\ r.replace \in BOOLEAN
  BY <1>3 DEF RequestRecords
<1>5. Page(r.offset) \in Pages
  BY <1>3, <1>4, PageTyped
<1>6. /\ new \in RequestRecords /\ new.id = r.id /\ new.replace = r.replace
      /\ new.offset = r.offset /\ new.page = page /\ new.readAt = now
  BY <1>3, <1>5 DEF RequestRecords
<1> HIDE DEF new
<1>7. ASSUME Pending(new)
      PROVE  /\ IsInjective(page.items)
             /\ IF r.replace THEN Complete(ToSet(page.items), page.hasMore, now)
                ELSE Complete(Listed \cup ToSet(page.items), page.hasMore, readAt)
  <2>1. /\ page = Page(r.offset)
        /\ r.offset = IF r.replace THEN 0 ELSE Len(items)
    BY <1>3, <1>6, <1>7 DEF Pending, Promised
  <2>2. IsInjective(page.items)
    BY <1>3, <1>4, <2>1, PageOrdered
  <2>3. CASE r.replace
    BY <1>3, <2>1, <2>2, <2>3, FirstPage
  <2>4. CASE ~r.replace
    BY <1>3, <2>1, <2>2, <2>4, NextPage
  <2> QED BY <2>3, <2>4
<1>8. TypeOK'
  <2>1. requests' \subseteq RequestRecords
    BY <1>1, <1>6 DEF new, CatalogInv, TypeOK
  <2> QED BY <1>2, <2>1 DEF CatalogInv, TypeOK
<1>9. ServerInv'
  BY <1>2 DEF CatalogInv, ServerInv, Retained
<1>10. Complete(Listed, hasMore, readAt)' /\ IsInjective(items)' /\ (readAt <= now)'
  BY <1>2 DEF CatalogInv, ListInv, Complete, Listed
<1>11. ASSUME NEW q \in requests'
       PROVE  q.readAt <= now' /\ Promised(q)'
  <2>1. CASE q \in requests
    BY <1>2, <2>1 DEF Promised, Pending, Complete, Listed, CatalogInv, ListInv
  <2>2. CASE q = new
    <3>1. q.readAt = now /\ now <= now'
      BY <1>2, <1>3, <1>6, <2>2
    <3>2. (r.id = generation => r.offset = IF r.replace THEN 0 ELSE Len(items))
      BY <1>3 DEF Promised
    <3>3. Promised(q)
      BY <1>6, <1>7, <2>2, <3>2 DEF Promised
    <3>4. Promised(q)'
      BY <1>2, <3>3 DEF Promised, Pending, Complete, Listed
    <3> QED BY <1>2, <1>3, <3>1, <3>4
  <2> QED BY <1>1, <2>1, <2>2 DEF new
<1>12. ListInv'
  BY <1>10, <1>11 DEF ListInv
<1> QED BY <1>8, <1>9, <1>12 DEF CatalogInv

LEMMA ArriveStep ==
  ASSUME CatalogInv, NEW r \in requests, Arrive(r), Ids'
  PROVE  CatalogInv'
<1>1. /\ r.page # None /\ r.id = generation /\ loading' = FALSE
      /\ requests' = requests \ {r}
      /\ UNCHANGED <<at, now, cutoff, generation>>
  BY DEF Arrive, Current, Ended, server
<1>2. /\ r \in RequestRecords /\ Promised(r) /\ r.readAt <= now
      /\ items \in Seq(Sessions) /\ IsInjective(items) /\ readAt \in Nat
      /\ readAt <= now /\ Complete(Listed, hasMore, readAt)
      /\ {hasMore, error} \subseteq BOOLEAN
  BY DEF CatalogInv, TypeOK, ListInv
<1>3. r.page \in Pages \cup {Failed, None} /\ r.readAt \in Nat /\ r.replace \in BOOLEAN
  BY <1>2 DEF RequestRecords
<1>4. /\ items' \in Seq(Sessions) /\ IsInjective(items') /\ readAt' \in Nat /\ readAt' <= now
      /\ Complete(ToSet(items'), hasMore', readAt')
      /\ hasMore' \in BOOLEAN /\ error' \in BOOLEAN
  <2>1. CASE r.page = Failed
    BY <1>2, <2>1 DEF Arrive, Listed
  <2>2. CASE r.page # Failed
    <3>1. /\ items' = IF r.replace THEN r.page.items ELSE Merged(r.page)
          /\ hasMore' = r.page.hasMore
          /\ readAt' = IF r.replace THEN r.readAt ELSE readAt
          /\ error' = FALSE
      BY <2>2 DEF Arrive, Filled
    <3>2. r.page \in Pages /\ Pending(r)
      BY <1>1, <1>3, <2>2 DEF Pending
    <3>3. r.page.items \in Seq(Sessions) /\ r.page.hasMore \in BOOLEAN
      BY <3>2, PageSequence
    <3>4. CASE r.replace
      BY <1>2, <1>3, <3>1, <3>2, <3>3, <3>4 DEF Promised
    <3>5. CASE ~r.replace
      <4>1. /\ Merged(r.page) \in Seq(Sessions) /\ IsInjective(Merged(r.page))
            /\ ToSet(Merged(r.page)) = Listed \cup ToSet(r.page.items)
        BY <1>2, <3>3, MergedIs
      <4>2. Complete(Listed \cup ToSet(r.page.items), r.page.hasMore, readAt)
        BY <1>2, <3>2, <3>5 DEF Promised
      <4> QED BY <1>2, <3>1, <3>3, <3>5, <4>1, <4>2
    <3> QED BY <3>4, <3>5
  <2> QED BY <2>1, <2>2
<1>5. TypeOK'
  <2>1. requests' \subseteq RequestRecords
    BY <1>1 DEF CatalogInv, TypeOK
  <2> QED BY <1>1, <1>4, <2>1 DEF CatalogInv, TypeOK
<1>6. ServerInv'
  BY <1>1 DEF CatalogInv, ServerInv, Retained
<1>7. ASSUME NEW q \in requests'
      PROVE  q.readAt <= now' /\ Promised(q)'
  <2>1. q \in requests /\ q.id # generation
    BY <1>1 DEF CatalogInv, Ids
  <2> QED BY <1>1, <2>1 DEF Promised, Pending, CatalogInv, ListInv
<1>8. ListInv'
  BY <1>1, <1>4, <1>7 DEF ListInv, Complete, Listed
<1> QED BY <1>5, <1>6, <1>8 DEF CatalogInv

LEMMA CatalogStep ==
  ASSUME CatalogInv, [Next]_vars, Ids'
  PROVE  CatalogInv'
<1>1. ASSUME NEW r \in requests, ArriveLate(r)
      PROVE  CatalogInv'
  <2>1. /\ requests' \subseteq requests
        /\ UNCHANGED <<at, now, cutoff, items, hasMore, loading, error, generation, readAt>>
    BY <1>1 DEF ArriveLate, server
  <2> QED BY <2>1 DEF CatalogInv, TypeOK, ServerInv, Retained, ListInv, Promised, Pending,
                      Complete, Listed
<1>2. ASSUME UNCHANGED vars
      PROVE  CatalogInv'
  <2>1. UNCHANGED <<at, now, cutoff, items, hasMore, loading, error, generation, requests, readAt>>
    BY <1>2 DEF vars, server, client
  <2> QED BY <2>1 DEF CatalogInv, TypeOK, ServerInv, Retained, ListInv, Promised, Pending,
                      Complete, Listed
<1>3. CASE Age \/ \E s \in Sessions : Touch(s) \/ Collect(s)
  BY <1>3, ServerStep
<1>4. CASE RefreshSessions \/ Retry \/ LoadMoreSessions
  BY <1>4, LoadPageStep DEF RefreshSessions, Retry, LoadMoreSessions
<1> QED BY <1>1, <1>2, <1>3, <1>4, AnswerStep, ArriveStep DEF Next

LEMMA CatalogInvariant == Spec => [](CatalogInv /\ LoadInv)
<1>1. CatalogInv /\ LoadInv /\ [Next]_vars => (CatalogInv /\ LoadInv)'
  BY LoadStep, CatalogStep DEF LoadInv
<1> QED BY CatalogInit, LoadInit, <1>1, PTL DEF Spec

\* Every variable has its type; no page exceeds the limit, whatever the number
\* of sessions and the page size (session_catalog.js).
THEOREM CatalogTyped == Spec => []TypeOK
<1>1. CatalogInv => TypeOK
  BY DEF CatalogInv
<1> QED BY CatalogInvariant, <1>1, PTL

\* Paging loses nothing and repeats nothing, for any number of sessions, any
\* page size and any number of updates, failures and retries between two
\* pages (session_catalog.js:25, :30, mergeCatalogPages in domain/state.js).
THEOREM NothingIsSkipped == Spec => []NothingSkipped
<1>1. CatalogInv => NothingSkipped
  <2> SUFFICES ASSUME CatalogInv
               PROVE  NothingSkipped
    OBVIOUS
  <2>1. at \in [Sessions -> Nat] /\ cutoff \in Nat /\ readAt \in Nat
    BY DEF CatalogInv, TypeOK
  <2>2. IsInjective(items) /\ Complete(Listed, hasMore, readAt)
    BY DEF CatalogInv, ListInv
  <2>3. ASSUME NEW s \in Unmoved, ~Expired(s), s \notin ToSet(items)
        PROVE  hasMore /\ \A t \in Unmoved : t \in ToSet(items) => at[t] > at[s]
    <3>1. s \in Sessions \ Listed /\ at[s] \in cutoff + 1 .. readAt
      BY <2>1, <2>3 DEF Unmoved, Retained, Expired, Listed
    <3> QED BY <2>2, <3>1 DEF Complete, Listed
  <2> QED BY <2>2, <2>3 DEF NothingSkipped
<1> QED BY CatalogInvariant, <1>1, PTL
=============================================================================
