--------------------------- MODULE SessionCatalog ---------------------------
(***************************************************************************)
(* The list of retained sessions: the server cuts pages by offset from a   *)
(* list ordered by update time, and useSessionCatalog puts them together.  *)
(* The list is reordered while the user pages through it: an update moves  *)
(* a session to its head, retention takes sessions from its tail.          *)
(* Answers may fail, and Retry may overtake a request under way.           *)
(***************************************************************************)
EXTENDS Naturals, SequencesExt

CONSTANTS
  Sessions,
  Limit,        \* DEFAULT_PAGE_SIZE
  Failed,       \* the request failed
  None,
  MaxTime,      \* bound: sessions at first and updates together
  MaxExpired,   \* bound: how far retention gets
  MaxLoads      \* bound: pages requested

ASSUME LimitAssumption == Limit \in Nat \ {0}
ASSUME BoundAssumption == MaxTime \in Nat

VARIABLES
  at,           \* server: session -> updated_at, 0 while it has no state
  now,          \* server: the last updated_at
  cutoff,       \* server: retention removes what was last updated until then
  items,        \* catalog.items
  hasMore,      \* catalog.hasMore
  loading,      \* catalogLoading
  error,        \* catalogError is set
  generation,   \* generationRef.current
  requests,     \* calls of loadPage under way
  readAt        \* auxiliary: when the server read the first page of the list

server == <<at, now, cutoff>>
client == <<items, hasMore, loading, error, generation, requests, readAt>>
vars == <<server, client>>

Pages == [items : BoundedSeq(Sessions, Limit), hasMore : BOOLEAN]

\* id: the requestId; readAt: when the server answered (auxiliary).
RequestRecords ==
  [id : Nat, replace : BOOLEAN, offset : Nat, page : Pages \cup {Failed, None}, readAt : Nat]

-----------------------------------------------------------------------------
(* The server.                                                             *)

Retained == {s \in Sessions : at[s] # 0}
Expired(s) == at[s] \in 1 .. cutoff

Newer(s) == {t \in Retained : at[t] > at[s]}

\* The sessions by update time, the most recent one first.
Recent ==
  [k \in 1 .. Cardinality(Retained) |-> CHOOSE s \in Retained : Cardinality(Newer(s)) = k - 1]

\* Mutant of Page: all the states that were read are returned.
Page_Overfull(offset) ==
  LET rest == SubSeq(Recent, offset + 1, Len(Recent))
  IN  [items |-> SubSeq(rest, 1, Min({Limit + 1, Len(rest)})), hasMore |-> Len(rest) > Limit]

\* One state more than the limit is read, to see whether there are more.
Page(offset) ==
  LET rest == SubSeq(Recent, offset + 1, Len(Recent))
  IN  [items |-> SubSeq(rest, 1, Min({Limit, Len(rest)})), hasMore |-> Len(rest) > Limit]

Touch(s) ==
  /\ now < MaxTime
  /\ now' = now + 1
  /\ at' = [at EXCEPT ![s] = now']
  /\ UNCHANGED <<cutoff, client>>

Age ==
  /\ cutoff < MaxExpired /\ cutoff < now
  /\ cutoff' = cutoff + 1
  /\ UNCHANGED <<at, now, client>>

\* Retention looks at one file after the other, in the order of their names.
Collect(s) ==
  /\ Expired(s)
  /\ at' = [at EXCEPT ![s] = 0]
  /\ UNCHANGED <<now, cutoff, client>>

Answer(r) ==
  /\ r.page = None
  /\ \E page \in {Page(r.offset), Failed} :
       requests' = (requests \ {r}) \cup {[r EXCEPT !.page = page, !.readAt = now]}
  /\ UNCHANGED <<server, items, hasMore, loading, error, generation, readAt>>

-----------------------------------------------------------------------------
(* The page.                                                               *)

Request(id, replace, offset) ==
  [id |-> id, replace |-> replace, offset |-> offset, page |-> None, readAt |-> 0]

\* The effect of the first render has asked for the first page.
Init ==
  /\ now \in 0 .. MaxTime
  /\ at \in [Sessions -> 0 .. now]
  /\ \A time \in 1 .. now : \E s \in Sessions : at[s] = time
  /\ \A s, t \in Retained : at[s] = at[t] => s = t
  /\ cutoff = 0
  /\ items = <<>> /\ hasMore = FALSE
  /\ loading = TRUE /\ error = FALSE
  /\ generation = 1
  /\ requests = {Request(1, TRUE, 0)}
  /\ readAt = 0

LoadPage(replace) ==
  /\ generation < MaxLoads
  /\ generation' = generation + 1
  /\ requests' = requests \cup
       {Request(generation', replace, IF replace THEN 0 ELSE Len(items))}
  /\ loading' = TRUE
  /\ error' = (error /\ ~replace)
  /\ UNCHANGED <<server, items, hasMore, readAt>>

RefreshSessions == ~loading /\ LoadPage(TRUE)

\* Unlike the other buttons, Retry is enabled while a page is loading.
Retry == error /\ LoadPage(TRUE)

LoadMoreSessions == hasMore /\ ~loading /\ LoadPage(FALSE)

\* mergeCatalogPages goes through the page and leaves out what is listed already.
Merged(page) ==
  LET list[n \in 0 .. Len(page.items)] ==
        IF n = 0 THEN items
        ELSE IF page.items[n] \in ToSet(list[n - 1]) THEN list[n - 1]
        ELSE Append(list[n - 1], page.items[n])
  IN list[Len(page.items)]

\* Mutant of Current: the answer to every request is taken.
Current_Always(r) == TRUE

Current(r) == r.id = generation

\* Mutant of Ended: only an answer that brings a page ends the loading.
Ended_WithPage(r) == loading' = (r.page = Failed)

Ended(r) == loading' = FALSE

Filled(r) ==
  /\ items' = IF r.replace THEN r.page.items ELSE Merged(r.page)
  /\ hasMore' = r.page.hasMore
  /\ readAt' = IF r.replace THEN r.readAt ELSE readAt
  /\ error' = FALSE

Arrive(r) ==
  /\ r.page # None /\ Current(r)
  /\ IF r.page = Failed
     THEN error' = TRUE /\ UNCHANGED <<items, hasMore, readAt>>
     ELSE Filled(r)
  /\ Ended(r)
  /\ requests' = requests \ {r}
  /\ UNCHANGED <<server, generation>>

\* The answer to a request that Retry has overtaken.
ArriveLate(r) ==
  /\ r.page # None /\ ~Current(r)
  /\ requests' = requests \ {r}
  /\ UNCHANGED <<server, items, hasMore, loading, error, generation, readAt>>

-----------------------------------------------------------------------------

Next ==
  \/ \E s \in Sessions : Touch(s) \/ Collect(s)
  \/ Age
  \/ RefreshSessions
  \/ Retry
  \/ LoadMoreSessions
  \/ \E r \in requests : Answer(r) \/ Arrive(r) \/ ArriveLate(r)

Spec == Init /\ [][Next]_vars

-----------------------------------------------------------------------------
(* Properties.                                                             *)

\* Every variable has its type, and no page exceeds the limit (session_catalog.js).
TypeOK ==
  /\ at \in [Sessions -> Nat]
  /\ {now, cutoff, generation, readAt} \subseteq Nat
  /\ items \in Seq(Sessions)
  /\ {hasMore, loading, error} \subseteq BOOLEAN
  /\ requests \subseteq RequestRecords

\* The sessions in the state they had when the first page was read.
Unmoved == {s \in Retained : at[s] <= readAt}

\* Paging loses nothing and repeats nothing: no session is listed twice; the
\* list has no gap, in that what nobody updated since the first page was read
\* is listed if anything behind it is; and once there is nothing more to load,
\* all of it is listed.  Updates between two pages, failures and answers that
\* Retry has overtaken change nothing in this (session_catalog.js:25, :30).
NothingSkipped ==
  /\ IsInjective(items)
  /\ \A s \in Unmoved : ~Expired(s) /\ s \notin ToSet(items) =>
       /\ hasMore
       /\ \A t \in Unmoved : t \in ToSet(items) => at[t] > at[s]

\* The buttons are disabled exactly while the answer that will enable them is
\* due, whichever request fails or is overtaken (session_catalog.js:41).
LoadingIsCurrent == loading <=> \E r \in requests : r.id = generation
=============================================================================
