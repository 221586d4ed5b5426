----------------------- MODULE DashboardPollingProofs -----------------------
(***************************************************************************)
(* Proofs about DashboardPolling, for any sessions, refreshes and bounds.  *)
(***************************************************************************)
EXTENDS DashboardPolling, FiniteSetTheorems, TLAPS

\* The request p with an answer.
Answered(p, answer) == [p EXCEPT !.answer = answer]

LEMMA AnsweredRequest ==
  ASSUME NEW p \in Requests, NEW answer \in Answers
  PROVE  /\ Answered(p, answer) \in Requests /\ Answered(p, answer).answer = answer
         /\ Answered(p, answer).n = p.n /\ Answered(p, answer).gen = p.gen
         /\ Answered(p, answer).sel = p.sel /\ Answered(p, answer).waiters = p.waiters
  BY DEF Answered, Requests

\* The record of a new request.
New(n, g, sel, waiters) ==
  [n |-> n, gen |-> g, sel |-> sel, answer |-> None, waiters |-> waiters]

LEMMA NewRequest ==
  ASSUME NEW n \in Nat, NEW g \in Nat, NEW sel \in Selections, NEW waiters \in SUBSET Refreshes
  PROVE  /\ New(n, g, sel, waiters) \in Requests /\ New(n, g, sel, waiters).answer = None
         /\ New(n, g, sel, waiters).n = n /\ New(n, g, sel, waiters).gen = g
         /\ New(n, g, sel, waiters).sel = sel /\ New(n, g, sel, waiters).waiters = waiters
  BY DEF New, Requests

-----------------------------------------------------------------------------
(* Types.                                                                  *)

\* The session updated last has a state.
TypeInv == TypeOK /\ (latest # None => revision[latest] \in Nat)

LEMMA TypeInitially == Init => TypeInv
<1> SUFFICES ASSUME Init PROVE TypeInv
  OBVIOUS
<1>1. /\ revision \in [Sessions -> Nat \cup {Missing}]
      /\ latest \in Sessions \cup {None}
      /\ (latest # None => revision[latest] \in Nat)
  BY DEF Init
<1>2. Read(Latest) \in Snapshots \cup {Unavailable}
  BY <1>1 DEF Read, Snapshots
<1>3. view \in Views
  BY <1>2 DEF Init, Views, Selections
<1> QED BY <1>1, <1>3 DEF Init, TypeInv, TypeOK, Selections

\* What a step of the page does to the requests.
LEMMA StartPollType ==
  ASSUME TypeInv, NEW others \in SUBSET Requests, NEW waiters \in SUBSET Refreshes,
         StartPoll(others, waiters)
  PROVE  polls' \in SUBSET Requests /\ sent' \in Nat /\ inFlight' \in BOOLEAN
<1>1. Request(waiters) = New(sent + 1, gen, effectSel, waiters)
  BY DEF Request, New
<1>2. Request(waiters) \in Requests
  BY <1>1, NewRequest DEF TypeInv, TypeOK
<1> QED BY <1>2 DEF StartPoll, TypeInv, TypeOK

LEMMA ReadType ==
  ASSUME TypeInv, NEW sel \in Selections
  PROVE  Read(sel) \in Answers
<1>1. /\ latest \in Sessions \cup {None}
      /\ revision \in [Sessions -> Nat \cup {Missing}]
      /\ (latest # None => revision[latest] \in Nat)
  BY DEF TypeInv, TypeOK
<1> QED BY <1>1 DEF Read, Snapshots, Selections, Answers

LEMMA ResolveType ==
  ASSUME TypeInv, NEW waiters, NEW n \in Nat, Resolve(waiters, n)
  PROVE  resolved' \in [Refreshes -> Nat \cup {None}]
  BY DEF Resolve, TypeInv, TypeOK

LEMMA TypeStep ==
  ASSUME TypeInv, [Next]_vars
  PROVE  TypeInv'
<1> USE DEF server, effect, ghosts
<1>1. ASSUME NEW s \in Sessions, Update(s)
      PROVE  TypeInv'
  <2>1. PICK bump \in {0, 1} : revision' = [revision EXCEPT ![s] = @ + bump]
    BY <1>1 DEF Update
  <2>2. revision[s] \in Nat /\ latest' = s
    BY <1>1 DEF Update, TypeInv, TypeOK
  <2>3. revision' \in [Sessions -> Nat \cup {Missing}] /\ revision'[latest'] \in Nat
    BY <2>1, <2>2 DEF TypeInv, TypeOK
  <2> QED BY <1>1, <2>2, <2>3 DEF Update, TypeInv, TypeOK
<1>12. ASSUME NEW s \in Sessions, Create(s)
       PROVE  TypeInv'
  <2>1. PICK start \in StartRevisions : revision' = [revision EXCEPT ![s] = start]
    BY <1>12 DEF Create
  <2>2. start \in Nat /\ latest' = s
    BY <1>12, StartRevisionsAssumption DEF Create
  <2>3. revision' \in [Sessions -> Nat \cup {Missing}] /\ revision'[latest'] \in Nat
    BY <2>1, <2>2 DEF TypeInv, TypeOK
  <2> QED BY <1>12, <2>2, <2>3 DEF Create, TypeInv, TypeOK
<1>2. ASSUME NEW s \in Sessions, Remove(s)
      PROVE  TypeInv'
  <2> DEFINE others == {o \in Sessions \ {s} : revision[o] # Missing}
  <2>1. /\ revision' = [revision EXCEPT ![s] = Missing]
        /\ latest' \in CASE s # latest -> {latest}
                         [] s = latest /\ others # {} -> others
                         [] OTHER -> {None}
    BY <1>2 DEF Remove
  <2>2. revision' \in [Sessions -> Nat \cup {Missing}]
    BY <2>1 DEF TypeInv, TypeOK
  <2>3. latest' \in Sessions \cup {None} /\ (latest' # None => revision'[latest'] \in Nat)
    <3>1. CASE s # latest
      BY <2>1, <3>1 DEF TypeInv, TypeOK
    <3>2. CASE s = latest /\ others # {}
      <4>1. latest' \in others
        BY <2>1, <3>2
      <4> QED BY <2>1, <4>1 DEF TypeInv, TypeOK
    <3>3. CASE s = latest /\ others = {}
      <4>1. latest' = None
        BY <2>1, <3>3
      <4> QED BY <4>1
    <3> QED BY <3>1, <3>2, <3>3
  <2> QED BY <1>2, <2>2, <2>3 DEF Remove, TypeInv, TypeOK
<1>3. ASSUME NEW p \in polls, Serve(p)
      PROVE  TypeInv'
  <2>1. p \in Requests
    BY DEF TypeInv, TypeOK
  <2>2. PICK a \in {Read(p.sel), Failed} : polls' = (polls \ {p}) \cup {Answered(p, a)}
    BY <1>3 DEF Serve, Answered
  <2>3. a \in Answers
    <3>1. p.sel \in Selections
      BY <2>1 DEF Requests
    <3> QED BY <3>1, ReadType DEF Answers
  <2>4. polls' \in SUBSET Requests
    BY <2>1, <2>2, <2>3, AnsweredRequest DEF TypeInv, TypeOK
  <2> QED BY <1>3, <2>4 DEF Serve, TypeInv, TypeOK
<1>4. CASE TimerFires
  <2>1. polls' \in SUBSET Requests /\ sent' \in Nat /\ inFlight' \in BOOLEAN
    BY <1>4, StartPollType DEF TimerFires, TypeInv, TypeOK
  <2> QED BY <1>4, <2>1 DEF TimerFires, TypeInv, TypeOK
<1>5. ASSUME NEW p \in polls, Settle(p)
      PROVE  TypeInv'
  <2>1. p \in Requests /\ p.answer \in Answers
    BY <1>5 DEF Settle, TypeInv, TypeOK, Requests
  <2>2. /\ p.n \in Nat /\ p.gen \in Nat /\ p.sel \in Selections /\ p.waiters \subseteq Refreshes
    BY <2>1 DEF Requests
  <2>3. view' \in Views
    <3>1. CASE p.answer = Failed
      BY <1>5, <2>2, <3>1 DEF Settle, Rejected, Views, TypeInv, TypeOK
    <3>2. CASE p.answer # Failed
      BY <1>5, <2>1, <2>2, <3>2 DEF Settle, Accepted, Views, Answers, TypeInv, TypeOK
    <3> QED BY <3>1, <3>2
  <2>4. fetched' \in Answers \cup {None}
    BY <1>5, <2>1 DEF Settle, TypeInv, TypeOK
  <2>5. resolved' \in [Refreshes -> Nat \cup {None}]
    BY <1>5, <2>2, ResolveType DEF Settle
  <2>6. polls' \in SUBSET Requests /\ sent' \in Nat /\ inFlight' \in BOOLEAN
    <3>1. CASE again /\ StartPoll(polls \ {p}, queue)
      BY <3>1, StartPollType DEF TypeInv, TypeOK
    <3>2. CASE ~again
      BY <1>5, <3>2 DEF Settle, AfterPoll, TypeInv, TypeOK
    <3> QED BY <1>5, <3>1, <3>2 DEF Settle, AfterPoll
  <2>7. again' \in BOOLEAN /\ queue' \in SUBSET Refreshes /\ timer' \in BOOLEAN
    BY <1>5 DEF Settle, AfterPoll, TypeInv, TypeOK
  <2> QED BY <1>5, <2>3, <2>4, <2>5, <2>6, <2>7 DEF Settle, TypeInv, TypeOK
<1>6. ASSUME NEW p \in polls, SettleStale(p)
      PROVE  TypeInv'
  <2>1. p.n \in Nat
    BY DEF TypeInv, TypeOK, Requests
  <2>2. resolved' \in [Refreshes -> Nat \cup {None}]
    BY <1>6, <2>1, ResolveType DEF SettleStale
  <2> QED BY <1>6, <2>2 DEF SettleStale, TypeInv, TypeOK
<1>7. CASE RunEffect
  <2>1. New(sent + 1, gen + 1, selection, {}) \in Requests
    <3>1. sent + 1 \in Nat /\ gen + 1 \in Nat /\ selection \in Selections
      BY DEF TypeInv, TypeOK
    <3> QED BY <3>1, NewRequest
  <2>2. polls' = polls \cup {New(sent + 1, gen + 1, selection, {})}
    BY <1>7 DEF RunEffect, New
  <2>3. view' \in Views
    BY <1>7 DEF RunEffect, Views, TypeInv, TypeOK
  <2>4. resolved' \in [Refreshes -> Nat \cup {None}]
    BY <1>7, ResolveType DEF RunEffect, Cleanup
  <2>5. polls' \in SUBSET Requests
    BY <2>1, <2>2 DEF TypeInv, TypeOK
  <2>6. /\ gen' = gen + 1 /\ effectSel' = selection /\ sent' = sent + 1
        /\ again' = FALSE /\ queue' = {} /\ timer' = FALSE /\ inFlight' = TRUE
        /\ fetched' = None
        /\ UNCHANGED <<server, selection, selects, mounted, asked>>
    BY <1>7 DEF RunEffect
  <2>7. gen' \in Nat /\ sent' \in Nat /\ selection' \in Selections /\ effectSel' \in Selections
    BY <2>6 DEF TypeInv, TypeOK
  <2>8. /\ again' \in BOOLEAN /\ inFlight' \in BOOLEAN /\ timer' \in BOOLEAN
        /\ queue' \in SUBSET Refreshes /\ fetched' \in Answers \cup {None}
    BY <2>6
  <2>9. /\ revision' \in [Sessions -> Nat \cup {Missing}] /\ latest' \in Sessions \cup {None}
        /\ (latest' # None => revision'[latest'] \in Nat)
        /\ updates' \in Nat /\ selects' \in Nat /\ mounted' \in BOOLEAN
        /\ asked' \in [Refreshes -> Nat \cup {None}]
    BY <2>6 DEF TypeInv, TypeOK
  <2> QED BY <2>3, <2>4, <2>5, <2>7, <2>8, <2>9 DEF TypeInv, TypeOK
<1>8. ASSUME NEW r \in Refreshes, Refresh(r)
      PROVE  TypeInv'
  <2>1. polls' \in SUBSET Requests /\ sent' \in Nat /\ inFlight' \in BOOLEAN
    <3>1. CASE inFlight
      BY <1>8, <3>1 DEF Refresh, TypeInv, TypeOK
    <3>2. CASE ~inFlight
      BY <1>8, <3>2, StartPollType DEF Refresh, TypeInv, TypeOK
    <3> QED BY <3>1, <3>2
  <2> QED BY <1>8, <2>1 DEF Refresh, TypeInv, TypeOK
<1>9. ASSUME NEW sel \in Selections, Select(sel)
      PROVE  TypeInv'
  BY <1>9 DEF Select, TypeInv, TypeOK
<1>10. CASE Unmount
  <2>1. resolved' \in [Refreshes -> Nat \cup {None}]
    BY <1>10, ResolveType DEF Unmount, Cleanup
  <2> QED BY <1>10, <2>1 DEF Unmount, TypeInv, TypeOK
<1>11. CASE UNCHANGED vars
  BY <1>11 DEF vars, TypeInv, TypeOK
<1> QED
  BY <1>1, <1>2, <1>3, <1>4, <1>5, <1>6, <1>7, <1>8, <1>9, <1>10, <1>11, <1>12
  DEF Next, Page

-----------------------------------------------------------------------------
(* Requests, and what they bring.                                          *)

\* Requests are numbered in the order in which they are sent; those of the
\* running effect are about its selection and younger than what is on display;
\* what they bring is about the session they asked for.
PollsInv ==
  /\ view.by <= sent
  /\ \A p \in polls : p.n <= sent /\ p.gen <= gen
  /\ \A p \in polls : p.gen = gen => p.sel = effectSel /\ view.by <= p.n
  /\ \A p, q \in polls : p.n = q.n => p = q
  /\ \A p \in polls : p.answer \in Snapshots /\ p.sel # Latest => p.answer.session = p.sel
  /\ view.response \in Snapshots /\ view.sel # Latest => view.response.session = view.sel

\* The running effect has one request under way, or waits for its timer.
FlightInv ==
  mounted =>
    /\ \A p, q \in polls : p.gen = gen /\ q.gen = gen => p = q
    /\ inFlight <=> \E p \in polls : p.gen = gen
    /\ inFlight => ~timer
    /\ again <=> queue # {}

LEMMA PollsInitially == Init => PollsInv /\ FlightInv
<1> SUFFICES ASSUME Init PROVE PollsInv /\ FlightInv
  OBVIOUS
<1>1. view.by = 0 /\ view.sel = Latest /\ polls = {} /\ sent = 0
  BY DEF Init
<1> QED BY <1>1 DEF Init, PollsInv, FlightInv

\* A new request is the last one.
LEMMA SentLast ==
  ASSUME TypeInv, PollsInv, NEW others \in SUBSET polls, NEW new \in Requests,
         new.n = sent + 1, new.gen = gen', new.sel = effectSel', new.answer = None,
         polls' = others \cup {new}, sent' = sent + 1,
         (gen' = gen /\ effectSel' = effectSel) \/ gen' = gen + 1,
         view'.by \in Nat, view'.by <= sent,
         \A p \in others : p.gen = gen' => view'.by <= p.n,
         view'.response \in Snapshots /\ view'.sel # Latest => view'.response.session = view'.sel
  PROVE  PollsInv'
<1>1. sent \in Nat /\ gen \in Nat /\ \A p \in polls : p.n \in Nat /\ p.gen \in Nat
  BY DEF TypeInv, TypeOK, Requests
<1>2. view'.by <= new.n /\ view'.by <= sent'
  BY <1>1
<1>3. \A p \in others : p.n <= sent' /\ p.gen <= gen' /\ p.n # new.n
  BY <1>1 DEF PollsInv
<1>4. \A p \in others : p.gen = gen' => p.sel = effectSel' /\ view'.by <= p.n
  BY <1>1 DEF PollsInv
<1> QED BY <1>1, <1>2, <1>3, <1>4, ValuesDiffer DEF PollsInv, Answers

\* Nothing is sent.
LEMMA SentNothing ==
  ASSUME PollsInv, polls' \subseteq polls, UNCHANGED <<sent, gen, effectSel>>,
         view'.by <= sent,
         \A p \in polls' : p.gen = gen => view'.by <= p.n,
         view'.response \in Snapshots /\ view'.sel # Latest => view'.response.session = view'.sel
  PROVE  PollsInv'
  BY DEF PollsInv

LEMMA PollsSame ==
  ASSUME TypeInv, PollsInv, polls' \subseteq polls, UNCHANGED <<sent, gen, effectSel, view>>
  PROVE  PollsInv'
  BY SentNothing DEF PollsInv

\* The display after an answer: younger than what is to come, and about the
\* session it was asked of.
LEMMA ShownAfter ==
  ASSUME TypeInv, PollsInv, NEW p \in polls, Settle(p)
  PROVE  /\ view'.by = view.by \/ view'.by = p.n
         /\ view'.by \in Nat
         /\ view'.response \in Snapshots /\ view'.sel # Latest => view'.response.session = view'.sel
<1>1. view \in Views /\ p \in Requests
  BY DEF TypeInv, TypeOK
<1>2. view.by \in Nat /\ p.n \in Nat
  BY <1>1 DEF Views, Requests
<1>3. CASE p.answer = Failed
  <2>1. view'.by = view.by /\ view'.response = view.response /\ view'.sel = view.sel
    BY <1>1, <1>3 DEF Settle, Rejected, Views
  <2> QED BY <1>2, <2>1 DEF PollsInv
<1>4. CASE p.answer # Failed /\ Outdated(p)
  BY <1>2, <1>4 DEF Settle, Accepted, PollsInv
<1>5. CASE p.answer # Failed /\ ~Outdated(p)
  <2>1. view'.by = p.n /\ view'.response = p.answer /\ view'.sel = p.sel
    BY <1>5 DEF Settle, Accepted
  <2> QED BY <1>2, <2>1 DEF PollsInv
<1> QED BY <1>3, <1>4, <1>5

LEMMA NewIs ==
  ASSUME TypeInv, NEW waiters \in SUBSET Refreshes
  PROVE  LET new == Request(waiters)
         IN  /\ new \in Requests /\ new.n = sent + 1 /\ new.gen = gen /\ new.sel = effectSel
             /\ new.answer = None /\ new.waiters = waiters
<1>1. Request(waiters) = New(sent + 1, gen, effectSel, waiters)
  BY DEF Request, New
<1> QED BY <1>1, NewRequest DEF TypeInv, TypeOK

LEMMA StartSame ==
  ASSUME TypeInv, PollsInv, NEW waiters \in SUBSET Refreshes, StartPoll(polls, waiters),
         UNCHANGED <<gen, effectSel, view>>
  PROVE  PollsInv'
<1> DEFINE new == Request(waiters)
<1>1. /\ new \in Requests /\ new.n = sent + 1 /\ new.gen = gen /\ new.sel = effectSel
      /\ new.answer = None
  BY NewIs
<1>2. polls' = polls \cup {new} /\ sent' = sent + 1
  BY DEF StartPoll
<1>3. view.by \in Nat
  BY DEF TypeInv, TypeOK, Views
<1> HIDE DEF new
<1> QED BY <1>1, <1>2, <1>3, SentLast DEF PollsInv

LEMMA PollsStep ==
  ASSUME TypeInv, PollsInv, FlightInv, [Next]_vars
  PROVE  PollsInv'
<1> USE DEF effect
<1>1. ASSUME NEW s \in Sessions, Update(s) \/ Create(s) \/ Remove(s)
      PROVE  PollsInv'
  BY <1>1, PollsSame DEF Update, Create, Remove
<1>2. ASSUME NEW p \in polls, Serve(p)
      PROVE  PollsInv'
  <2>1. p \in Requests
    BY DEF TypeInv, TypeOK
  <2>2. PICK a \in {Read(p.sel), Failed} : polls' = (polls \ {p}) \cup {Answered(p, a)}
    BY <1>2 DEF Serve, Answered
  <2>3. p.sel \in Selections
    BY <2>1 DEF Requests
  <2>4. a \in Answers
    BY <2>3, ReadType DEF Answers
  <2>5. a \in Snapshots /\ p.sel # Latest => a.session = p.sel
    BY <2>3, ValuesDiffer DEF Read, Selections
  <2> DEFINE q == Answered(p, a)
  <2>6. q.n = p.n /\ q.gen = p.gen /\ q.sel = p.sel /\ q.answer = a
    BY <2>1, <2>4, AnsweredRequest
  <2>7. polls' = (polls \ {p}) \cup {q} /\ UNCHANGED <<sent, gen, effectSel, view>>
    BY <1>2, <2>2 DEF Serve
  <2> HIDE DEF q
  <2> QED BY <2>5, <2>6, <2>7 DEF PollsInv
<1>3. CASE TimerFires
  BY <1>3, StartSame DEF TimerFires
<1>4. ASSUME NEW p \in polls, Settle(p)
      PROVE  PollsInv'
  <2>1. /\ view'.by = view.by \/ view'.by = p.n
        /\ view'.by \in Nat
        /\ view'.response \in Snapshots /\ view'.sel # Latest => view'.response.session = view'.sel
    BY <1>4, ShownAfter
  <2>2. view'.by <= sent
    BY <2>1 DEF PollsInv
  <2>3. p.gen = gen /\ \A q \in polls \ {p} : q.gen # gen
    BY <1>4 DEF Settle, Live, FlightInv
  <2>4. CASE again /\ StartPoll(polls \ {p}, queue)
    <3> DEFINE new == Request(queue)
    <3>1. /\ new \in Requests /\ new.n = sent + 1 /\ new.gen = gen /\ new.sel = effectSel
          /\ new.answer = None
      BY NewIs DEF TypeInv, TypeOK
    <3>2. /\ polls' = (polls \ {p}) \cup {new} /\ sent' = sent + 1
          /\ UNCHANGED <<gen, effectSel>>
      BY <1>4, <2>4 DEF StartPoll, Settle
    <3> HIDE DEF new
    <3> QED BY <2>1, <2>2, <2>3, <3>1, <3>2, SentLast
  <2>5. CASE ~again
    <3>1. polls' = polls \ {p} /\ UNCHANGED <<sent, gen, effectSel>>
      BY <1>4, <2>5 DEF Settle, AfterPoll
    <3> QED BY <2>1, <2>2, <2>3, <3>1, SentNothing
  <2> QED BY <1>4, <2>4, <2>5 DEF Settle, AfterPoll
<1>5. ASSUME NEW p \in polls, SettleStale(p)
      PROVE  PollsInv'
  BY <1>5, PollsSame DEF SettleStale
<1>6. CASE RunEffect
  <2> DEFINE new == New(sent + 1, gen + 1, selection, {})
  <2>1. /\ new \in Requests /\ new.n = sent + 1 /\ new.gen = gen + 1 /\ new.sel = selection
        /\ new.answer = None
    <3>1. sent + 1 \in Nat /\ gen + 1 \in Nat /\ selection \in Selections
      BY DEF TypeInv, TypeOK
    <3> QED BY <3>1, NewRequest
  <2>2. /\ polls' = polls \cup {new} /\ sent' = sent + 1
        /\ gen' = gen + 1 /\ effectSel' = selection
    BY <1>6 DEF RunEffect, New
  <2>3. view'.by = view.by /\ view'.response = view.response /\ view'.sel = view.sel
    BY <1>6 DEF RunEffect, Views, TypeInv, TypeOK
  <2>4. view.by \in Nat /\ gen \in Nat /\ \A p \in polls : p.gen \in Nat
    BY DEF TypeInv, TypeOK, Views, Requests
  <2>5. \A p \in polls : p.gen # gen'
    BY <2>2, <2>4 DEF PollsInv
  <2> HIDE DEF new
  <2> QED BY <2>1, <2>2, <2>3, <2>4, <2>5, SentLast DEF PollsInv
<1>7. ASSUME NEW r \in Refreshes, Refresh(r)
      PROVE  PollsInv'
  <2>1. CASE inFlight
    BY <1>7, <2>1, PollsSame DEF Refresh
  <2>2. CASE ~inFlight
    BY <1>7, <2>2, StartSame DEF Refresh
  <2> QED BY <2>1, <2>2
<1>8. ASSUME NEW sel \in Selections, Select(sel)
      PROVE  PollsInv'
  BY <1>8, PollsSame DEF Select
<1>9. CASE Unmount \/ UNCHANGED vars
  BY <1>9, PollsSame DEF Unmount, vars
<1> QED
  BY <1>1, <1>2, <1>3, <1>4, <1>5, <1>6, <1>7, <1>8, <1>9 DEF Next, Page

LEMMA FlightSame ==
  ASSUME FlightInv, UNCHANGED <<mounted, polls, gen, inFlight, timer, again, queue>>
  PROVE  FlightInv'
  BY DEF FlightInv

\* The only request of the running effect is sent.
LEMMA FlightStarts ==
  ASSUME NEW others \in SUBSET polls, NEW new, polls' = others \cup {new}, new.gen = gen',
         \A p \in others : p.gen # gen', inFlight' = TRUE, timer' = FALSE,
         again' <=> queue' # {}
  PROVE  FlightInv'
  BY DEF FlightInv

LEMMA FlightStep ==
  ASSUME TypeInv, PollsInv, FlightInv, [Next]_vars
  PROVE  FlightInv'
<1> USE DEF effect
<1>1. ASSUME NEW s \in Sessions, Update(s) \/ Create(s) \/ Remove(s)
      PROVE  FlightInv'
  BY <1>1, FlightSame DEF Update, Create, Remove
<1>2. ASSUME NEW p \in polls, Serve(p)
      PROVE  FlightInv'
  <2>1. p \in Requests /\ p.sel \in Selections
    BY DEF TypeInv, TypeOK, Requests
  <2>2. PICK a \in {Read(p.sel), Failed} : polls' = (polls \ {p}) \cup {Answered(p, a)}
    BY <1>2 DEF Serve, Answered
  <2>3. Answered(p, a).gen = p.gen
    BY <2>1, AnsweredRequest, ReadType DEF Answers
  <2> QED BY <1>2, <2>2, <2>3 DEF Serve, FlightInv
<1>3. CASE TimerFires
  <2>1. CASE mounted
    <3>1. /\ polls' = polls \cup {Request({})} /\ inFlight' = TRUE /\ timer' = FALSE
          /\ UNCHANGED <<gen, again, queue>>
      BY <1>3 DEF TimerFires, StartPoll
    <3>2. Request({}).gen = gen
      BY NewIs
    <3>3. \A p \in polls : p.gen # gen'
      BY <1>3, <2>1 DEF TimerFires, FlightInv
    <3>4. again' <=> queue' # {}
      BY <2>1, <3>1 DEF FlightInv
    <3> QED BY <3>1, <3>2, <3>3, <3>4, FlightStarts
  <2>2. CASE ~mounted
    BY <1>3, <2>2 DEF TimerFires, FlightInv
  <2> QED BY <2>1, <2>2
<1>4. ASSUME NEW p \in polls, Settle(p)
      PROVE  FlightInv'
  <2>1. /\ \A q \in polls \ {p} : q.gen # gen
        /\ UNCHANGED <<mounted, gen>>
    BY <1>4 DEF Settle, Live, FlightInv
  <2>2. CASE again /\ again' = FALSE /\ queue' = {} /\ timer' = FALSE /\ StartPoll(polls \ {p}, queue)
    <3>1. Request(queue).gen = gen
      BY NewIs DEF TypeInv, TypeOK
    <3>2. polls' = (polls \ {p}) \cup {Request(queue)} /\ inFlight' = TRUE
      BY <2>2 DEF StartPoll
    <3> QED BY <2>1, <2>2, <3>1, <3>2, FlightStarts
  <2>3. CASE ~again /\ timer' = TRUE /\ inFlight' = FALSE /\ polls' = polls \ {p} /\ UNCHANGED <<again, queue>>
    BY <2>1, <2>3 DEF FlightInv
  <2> QED BY <1>4, <2>2, <2>3 DEF Settle, AfterPoll
<1>5. ASSUME NEW p \in polls, SettleStale(p)
      PROVE  FlightInv'
  BY <1>5 DEF SettleStale, Live, FlightInv
<1>6. CASE RunEffect
  <2> DEFINE new == New(sent + 1, gen + 1, selection, {})
  <2>1. sent + 1 \in Nat /\ gen + 1 \in Nat /\ selection \in Selections /\ gen \in Nat
        /\ \A p \in polls : p.gen \in Nat
    BY DEF TypeInv, TypeOK, Requests
  <2>2. new.gen = gen + 1
    BY <2>1, NewRequest
  <2>3. /\ polls' = polls \cup {new} /\ gen' = gen + 1
        /\ inFlight' = TRUE /\ timer' = FALSE /\ again' = FALSE /\ queue' = {}
    BY <1>6 DEF RunEffect, New
  <2> HIDE DEF new
  <2>4. \A p \in polls : p.gen # gen'
    BY <2>1, <2>3 DEF PollsInv
  <2> QED BY <2>2, <2>3, <2>4, FlightStarts
<1>7. ASSUME NEW r \in Refreshes, Refresh(r)
      PROVE  FlightInv'
  <2>1. CASE inFlight
    BY <1>7, <2>1 DEF Refresh, FlightInv
  <2>2. CASE ~inFlight
    <3>1. Request({r}).gen = gen
      BY NewIs
    <3>2. /\ polls' = polls \cup {Request({r})} /\ inFlight' = TRUE /\ timer' = FALSE
          /\ UNCHANGED <<gen, again, queue>>
      BY <1>7, <2>2 DEF Refresh, StartPoll
    <3>3. (\A p \in polls : p.gen # gen') /\ (again' <=> queue' # {})
      BY <1>7, <2>2, <3>2 DEF Refresh, FlightInv
    <3> QED BY <3>1, <3>2, <3>3, FlightStarts
  <2> QED BY <2>1, <2>2
<1>8. ASSUME NEW sel \in Selections, Select(sel)
      PROVE  FlightInv'
  BY <1>8, FlightSame DEF Select
<1>9. CASE Unmount
  BY <1>9 DEF Unmount, FlightInv
<1>10. CASE UNCHANGED vars
  BY <1>10, FlightSame DEF vars
<1> QED
  BY <1>1, <1>2, <1>3, <1>4, <1>5, <1>6, <1>7, <1>8, <1>9, <1>10 DEF Next, Page

-----------------------------------------------------------------------------
(* Refreshes.                                                              *)

\* A refresh that was asked for and has not resolved waits for exactly one
\* request, or in the queue.
WaitInv ==
  /\ \A p \in polls : p.waiters \subseteq Waiting
  /\ queue \subseteq Waiting
  /\ \A p, q \in polls : p.waiters \cap q.waiters # {} => p = q
  /\ \A p \in polls : p.waiters \cap queue = {}
  /\ Waiting \subseteq queue \cup WaitersOf(polls)
  /\ \A r \in Refreshes : asked[r] = None => resolved[r] = None

LEMMA WaitInitially == Init => WaitInv
  BY DEF Init, WaitInv, Waiting, WaitersOf

LEMMA WaitSame ==
  ASSUME WaitInv, UNCHANGED <<polls, queue, asked, resolved>>
  PROVE  WaitInv'
  BY DEF WaitInv, Waiting, WaitersOf

\* The effect of resolving some refreshes.
LEMMA Resolving ==
  ASSUME TypeInv, NEW done \in SUBSET Refreshes, NEW n \in Nat, Resolve(done, n), UNCHANGED asked
  PROVE  /\ Waiting' = Waiting \ done
         /\ (\A r \in Refreshes : asked[r] = None => resolved[r] = None) /\ done \subseteq Waiting =>
              \A r \in Refreshes : asked'[r] = None => resolved'[r] = None
  BY ValuesDiffer DEF Resolve, Waiting

\* A request that ends takes the refreshes that wait for it along.
LEMMA WaitEnds ==
  ASSUME WaitInv, NEW p \in polls, Waiting' = Waiting \ p.waiters, polls' = polls \ {p},
         UNCHANGED queue,
         \A r \in Refreshes : asked'[r] = None => resolved'[r] = None
  PROVE  WaitInv'
<1>1. \A q \in polls' : q \in polls /\ q # p /\ q.waiters \cap p.waiters = {}
  BY DEF WaitInv
<1>2. \A r \in Waiting' : r \in queue \/ \E q \in polls' : r \in q.waiters
  BY DEF WaitInv, WaitersOf
<1>3. Waiting' \subseteq queue' \cup WaitersOf(polls')
  BY <1>2 DEF WaitersOf
<1> QED BY <1>1, <1>3 DEF WaitInv

\* The queue is handed to a new request, or resolved.
LEMMA WaitHandsOver ==
  ASSUME WaitInv, NEW others \in SUBSET polls, NEW new, polls' = others \cup {new},
         queue' = {}, new.waiters \subseteq queue, WaitersOf(polls) \cap Waiting' \subseteq WaitersOf(others),
         Waiting' \subseteq Waiting, Waiting' \subseteq new.waiters \cup WaitersOf(others),
         new.waiters \subseteq Waiting', \A p \in others : p.waiters \subseteq Waiting',
         \A r \in Refreshes : asked'[r] = None => resolved'[r] = None
  PROVE  WaitInv'
<1>1. \A p \in others : p.waiters \cap new.waiters = {}
  BY DEF WaitInv
<1>2. WaitersOf(polls') = new.waiters \cup WaitersOf(others)
  BY DEF WaitersOf
<1>3. \A p, q \in polls' : p.waiters \cap q.waiters # {} => p = q
  BY <1>1 DEF WaitInv
<1> QED BY <1>2, <1>3 DEF WaitInv

\* A request is sent for a refresh that has just been asked for, or for none.
LEMMA WaitSent ==
  ASSUME WaitInv, NEW new, polls' = polls \cup {new}, UNCHANGED queue,
         Waiting' = Waiting \cup new.waiters, new.waiters \cap Waiting = {},
         \A r \in Refreshes : asked'[r] = None => resolved'[r] = None
  PROVE  WaitInv'
<1>1. \A p \in polls : p.waiters \cap new.waiters = {}
  BY DEF WaitInv
<1>2. WaitersOf(polls') = new.waiters \cup WaitersOf(polls)
  BY DEF WaitersOf
<1>3. \A p, q \in polls' : p.waiters \cap q.waiters # {} => p = q
  BY <1>1 DEF WaitInv
<1> QED BY <1>2, <1>3 DEF WaitInv

LEMMA Asking ==
  ASSUME TypeInv, WaitInv, NEW r \in Refreshes, Refresh(r)
  PROVE  /\ Waiting' = Waiting \cup {r} /\ r \notin Waiting
         /\ \A x \in Refreshes : asked'[x] = None => resolved'[x] = None
<1>1. /\ asked[r] = None /\ asked' = [asked EXCEPT ![r] = sent] /\ UNCHANGED resolved
      /\ sent \in Nat /\ asked \in [Refreshes -> Nat \cup {None}]
  BY DEF Refresh, TypeInv, TypeOK
<1>2. resolved[r] = None
  BY <1>1 DEF WaitInv
<1> QED BY <1>1, <1>2, ValuesDiffer DEF WaitInv, Waiting

LEMMA WaitStep ==
  ASSUME TypeInv, WaitInv, [Next]_vars
  PROVE  WaitInv'
<1> USE DEF effect, ghosts
<1>0. \A p \in polls : p.n \in Nat /\ p.waiters \in SUBSET Refreshes
  BY DEF TypeInv, TypeOK, Requests
<1>1. ASSUME NEW s \in Sessions, Update(s) \/ Create(s) \/ Remove(s)
      PROVE  WaitInv'
  BY <1>1, WaitSame DEF Update, Create, Remove
<1>2. ASSUME NEW p \in polls, Serve(p)
      PROVE  WaitInv'
  <2>1. p \in Requests /\ p.sel \in Selections
    BY DEF TypeInv, TypeOK, Requests
  <2>2. PICK a \in {Read(p.sel), Failed} : polls' = (polls \ {p}) \cup {Answered(p, a)}
    BY <1>2 DEF Serve, Answered
  <2> DEFINE q == Answered(p, a)
  <2>3. q.waiters = p.waiters
    BY <2>1, AnsweredRequest, ReadType DEF Answers
  <2>4. polls' = (polls \ {p}) \cup {q} /\ UNCHANGED <<queue, asked, resolved>>
    BY <1>2, <2>2 DEF Serve
  <2> HIDE DEF q
  <2>5. WaitersOf(polls') = WaitersOf(polls)
    BY <2>3, <2>4 DEF WaitersOf
  <2>6. \A x, y \in polls' : x.waiters \cap y.waiters # {} => x = y
    BY <2>3, <2>4 DEF WaitInv
  <2>7. UNCHANGED Waiting
    BY <2>4 DEF Waiting
  <2> QED BY <2>3, <2>4, <2>5, <2>6, <2>7 DEF WaitInv
<1>3. CASE TimerFires
  <2>1. /\ polls' = polls \cup {Request({})} /\ UNCHANGED <<queue, asked, resolved>>
    BY <1>3 DEF TimerFires, StartPoll
  <2>2. Request({}).waiters = {}
    BY NewIs
  <2>3. UNCHANGED Waiting
    BY <2>1 DEF Waiting
  <2>4. \A x \in Refreshes : asked'[x] = None => resolved'[x] = None
    BY <2>1 DEF WaitInv
  <2> QED BY <2>1, <2>2, <2>3, <2>4, WaitSent
<1>4. ASSUME NEW p \in polls, Settle(p)
      PROVE  WaitInv'
  <2>1. /\ Waiting' = Waiting \ p.waiters
        /\ \A x \in Refreshes : asked'[x] = None => resolved'[x] = None
    BY <1>0, <1>4, Resolving DEF Settle, WaitInv
  <2>2. CASE again /\ again' = FALSE /\ queue' = {} /\ timer' = FALSE /\ StartPoll(polls \ {p}, queue)
    <3>1. Request(queue).waiters = queue
      BY NewIs DEF TypeInv, TypeOK
    <3>2. polls' = (polls \ {p}) \cup {Request(queue)}
      BY <2>2 DEF StartPoll
    <3>3. \A q \in polls \ {p} : q.waiters \cap p.waiters = {}
      BY DEF WaitInv
    <3>4. WaitersOf(polls) = p.waiters \cup WaitersOf(polls \ {p})
      BY DEF WaitersOf
    <3>5. queue \cap p.waiters = {} /\ queue \subseteq Waiting /\ Waiting \subseteq queue \cup WaitersOf(polls)
          /\ \A q \in polls : q.waiters \subseteq Waiting
      BY DEF WaitInv
    <3>6. \A q \in polls \ {p} : q.waiters \subseteq Waiting'
      BY <2>1, <3>3, <3>5
    <3>7. /\ WaitersOf(polls) \cap Waiting' \subseteq WaitersOf(polls \ {p})
          /\ Waiting' \subseteq queue \cup WaitersOf(polls \ {p})
          /\ Waiting' \subseteq Waiting /\ queue \subseteq Waiting'
      BY <2>1, <3>4, <3>5
    <3> QED BY <2>1, <2>2, <3>1, <3>2, <3>6, <3>7, WaitHandsOver
  <2>3. CASE ~again /\ polls' = polls \ {p} /\ UNCHANGED <<again, queue>>
    BY <2>1, <2>3, WaitEnds
  <2> QED BY <1>4, <2>2, <2>3 DEF Settle, AfterPoll
<1>5. ASSUME NEW p \in polls, SettleStale(p)
      PROVE  WaitInv'
  <2>1. /\ Waiting' = Waiting \ p.waiters
        /\ \A x \in Refreshes : asked'[x] = None => resolved'[x] = None
    BY <1>0, <1>5, Resolving DEF SettleStale, WaitInv
  <2> QED BY <1>5, <2>1, WaitEnds DEF SettleStale
<1>6. ASSUME Cleanup, queue' = {}, UNCHANGED asked
      PROVE  /\ Waiting' = Waiting \ queue
             /\ \A x \in Refreshes : asked'[x] = None => resolved'[x] = None
             /\ \A p \in polls : p.waiters \subseteq Waiting'
             /\ Waiting' \subseteq WaitersOf(polls)
  <2>1. queue \in SUBSET Refreshes /\ queue \subseteq Waiting
    BY DEF TypeInv, TypeOK, WaitInv
  <2>2. /\ Waiting' = Waiting \ queue
        /\ \A x \in Refreshes : asked'[x] = None => resolved'[x] = None
    BY <1>6, <2>1, Resolving DEF Cleanup, WaitInv
  <2> QED BY <2>2 DEF WaitInv
<1>7. CASE RunEffect
  <2> DEFINE new == New(sent + 1, gen + 1, selection, {})
  <2>1. sent + 1 \in Nat /\ gen + 1 \in Nat /\ selection \in Selections
    BY DEF TypeInv, TypeOK
  <2>2. new.waiters = {}
    BY <2>1, NewRequest
  <2>3. polls' = polls \cup {new} /\ queue' = {} /\ Cleanup /\ UNCHANGED asked
    BY <1>7 DEF RunEffect, New
  <2> HIDE DEF new
  <2> QED BY <1>6, <2>2, <2>3, WaitHandsOver
<1>8. CASE Unmount
  <2>1. UNCHANGED polls /\ queue' = {} /\ Cleanup /\ UNCHANGED asked
    BY <1>8 DEF Unmount
  <2> QED BY <1>6, <2>1 DEF WaitInv
<1>9. ASSUME NEW r \in Refreshes, Refresh(r)
      PROVE  WaitInv'
  <2>1. /\ Waiting' = Waiting \cup {r} /\ r \notin Waiting
        /\ \A x \in Refreshes : asked'[x] = None => resolved'[x] = None
    BY <1>9, Asking
  <2>2. CASE inFlight
    <3>1. UNCHANGED polls /\ queue' = queue \cup {r}
      BY <1>9, <2>2 DEF Refresh
    <3> QED BY <2>1, <3>1 DEF WaitInv
  <2>3. CASE ~inFlight
    <3>1. Request({r}).waiters = {r}
      BY NewIs
    <3>2. polls' = polls \cup {Request({r})} /\ UNCHANGED queue
      BY <1>9, <2>3 DEF Refresh, StartPoll
    <3> QED BY <2>1, <3>1, <3>2, WaitSent
  <2> QED BY <2>2, <2>3
<1>10. ASSUME NEW sel \in Selections, Select(sel)
       PROVE  WaitInv'
  BY <1>10, WaitSame DEF Select
<1>11. CASE UNCHANGED vars
  BY <1>11, WaitSame DEF vars
<1> QED
  BY <1>1, <1>2, <1>3, <1>4, <1>5, <1>7, <1>8, <1>9, <1>10, <1>11 DEF Next, Page

-----------------------------------------------------------------------------
(* The theorems.                                                           *)

PollingInv == TypeInv /\ PollsInv /\ FlightInv /\ WaitInv

\* The inductive invariant that the theorems of this module rest on: which
\* requests are under way, what they will bring and who waits for them
\* (state_polling.js).
THEOREM PollingInvariant == Spec => []PollingInv
<1>1. Init => PollingInv
  BY TypeInitially, PollsInitially, WaitInitially DEF PollingInv
<1>2. PollingInv /\ [Next]_vars => PollingInv'
  BY TypeStep, PollsStep, FlightStep, WaitStep DEF PollingInv
<1> QED BY <1>1, <1>2, PTL DEF Spec

\* Every variable of the poller keeps its type (state_polling.js).
THEOREM PollingTyped == Spec => []TypeOK
<1>1. PollingInv => TypeOK
  BY DEF PollingInv, TypeInv
<1> QED BY <1>1, PollingInvariant, PTL

\* The running effect never has two requests under way, and its flag, its timer
\* and its queue agree ("must not issue overlapping requests").
THEOREM RequestsDoNotOverlap == Spec => []NoOverlap
<1>1. PollingInv => NoOverlap
  <2> SUFFICES ASSUME PollingInv, mounted
               PROVE  Cardinality({p \in polls : p.gen = gen}) = (IF inFlight THEN 1 ELSE 0)
    BY DEF PollingInv, FlightInv, NoOverlap
  <2> DEFINE own == {p \in polls : p.gen = gen}
  <2>1. CASE inFlight
    <3>1. PICK p \in polls : p.gen = gen
      BY <2>1 DEF PollingInv, FlightInv
    <3>2. own = {p}
      BY <3>1 DEF PollingInv, FlightInv
    <3> QED BY <2>1, <3>2, FS_Singleton
  <2>2. CASE ~inFlight
    <3>1. own = {}
      BY <2>2 DEF PollingInv, FlightInv
    <3> QED BY <2>2, <3>1, FS_EmptySet
  <2>3. inFlight \in BOOLEAN
    BY DEF PollingInv, TypeInv, TypeOK
  <2> QED BY <2>1, <2>2, <2>3
<1> QED BY <1>1, PollingInvariant, PTL

\* A selected session is never shown another one's state (state_polling.js:94).
THEOREM SelectedIsShown == Spec => []ShownIsSelected
<1>1. PollingInv => ShownIsSelected
  BY DEF PollingInv, PollsInv, ShownIsSelected, HasMatchingResponse
<1> QED BY <1>1, PollingInvariant, PTL

\* Answers reach the display in the order in which they were requested.
THEOREM ShownInOrder == Spec => AnswersInOrder
<1>1. PollingInv /\ [Next]_vars => [view'.by >= view.by]_vars
  <2> SUFFICES ASSUME PollingInv, Next
               PROVE  view'.by >= view.by
    OBVIOUS
  <2>1. view \in Views /\ view.by \in Nat /\ \A p \in polls : p.n \in Nat
    BY DEF PollingInv, TypeInv, TypeOK, Views, Requests
  <2>2. view.by >= view.by
    BY <2>1
  <2>3. ASSUME NEW p \in polls, Settle(p)
        PROVE  view'.by >= view.by
    <3>1. view'.by = view.by \/ view'.by = p.n
      BY <2>3, ShownAfter DEF PollingInv
    <3>2. view.by <= p.n
      BY <2>3 DEF Settle, Live, PollingInv, PollsInv
    <3> QED BY <2>1, <3>1, <3>2
  <2>4. CASE RunEffect
    <3>1. view'.by = view.by
      BY <2>1, <2>4 DEF RunEffect, Views
    <3> QED BY <2>2, <3>1
  <2>5. CASE UNCHANGED view
    BY <2>2, <2>5
  <2> QED
    BY <2>3, <2>4, <2>5
       DEF Next, Page, Update, Create, Remove, Serve, TimerFires, SettleStale, Refresh, Select, Unmount
<1> QED BY <1>1, PollingInvariant, PTL DEF Spec, AnswersInOrder

-----------------------------------------------------------------------------
(* The poller implements the display that the edit controllers rely on.    *)

LEMMA OneAnswer ==
  ASSUME NEW ps, NEW p \in ps, \A q \in ps : q = p
  PROVE  AnswerOf(ps) = p.answer /\ WaitersOf(ps) = p.waiters
<1>1. ps = {p}
  OBVIOUS
<1> QED BY <1>1 DEF AnswerOf, WaitersOf

LEMMA NoAnswer == AnswerOf({}) = None /\ WaitersOf({}) = {}
  BY DEF AnswerOf, WaitersOf

\* What the display's module calls the poller's state.
mapped == <<OnDisplay, AnswerOf(Arriving), WaitersOf(Arriving), Waiting, WaitersOf(Stale)>>

LEMMA MappedSame ==
  ASSUME UNCHANGED <<mounted, gen, polls, view, asked, resolved>>
  PROVE  UNCHANGED mapped
<1>1. Arriving' = Arriving /\ Stale' = Stale
  BY DEF Arriving, Stale, Live
<1>2. AnswerOf(Arriving)' = AnswerOf(Arriving) /\ WaitersOf(Arriving)' = WaitersOf(Arriving)
      /\ WaitersOf(Stale)' = WaitersOf(Stale)
  BY <1>1 DEF AnswerOf, WaitersOf
<1> QED BY <1>2 DEF mapped, OnDisplay, Waiting

LEMMA SameRead ==
  ASSUME NEW sel
  PROVE  Display!Read(sel) = Read(sel)
  BY DEF Display!Read, Read

\* The display's view of a step, from what it does to the requests.
LEMMA MappedStep ==
  ASSUME NEW arriving, NEW stale, Arriving' = arriving, Stale' = stale
  PROVE  /\ AnswerOf(Arriving)' = AnswerOf(arriving)
         /\ WaitersOf(Arriving)' = WaitersOf(arriving)
         /\ WaitersOf(Stale)' = WaitersOf(stale)
  BY DEF AnswerOf, WaitersOf

\* A request is sent by the running effect, or by nobody.
LEMMA MappedSent ==
  ASSUME NEW new, new.answer = None, new.gen = gen, polls' = polls \cup {new},
         UNCHANGED <<mounted, gen>>, mounted \/ new.waiters = {}
  PROVE  /\ AnswerOf(Arriving)' = AnswerOf(Arriving)
         /\ WaitersOf(Arriving)' = WaitersOf(Arriving)
         /\ WaitersOf(Stale)' = WaitersOf(Stale)
<1>1. Arriving' = Arriving
  BY DEF Arriving, Live
<1>2. CASE mounted
  <2>1. Stale' = Stale
    BY <1>2 DEF Stale, Live
  <2> QED BY <1>1, <2>1, MappedStep
<1>3. CASE ~mounted
  <2>1. Stale' = Stale \cup {new}
    BY <1>3 DEF Stale, Live
  <2>2. WaitersOf(Stale \cup {new}) = WaitersOf(Stale)
    BY <1>3 DEF WaitersOf
  <2> QED BY <1>1, <2>1, <2>2, MappedStep
<1> QED BY <1>2, <1>3

\* The running effect has at most one answer to get.
LEMMA OneArrives ==
  ASSUME PollingInv, NEW p \in polls, Live(p)
  PROVE  /\ \A q \in polls : Live(q) => q = p
         /\ p.answer = None => Arriving = {}
         /\ p.answer # None => Arriving = {p}
  BY DEF PollingInv, FlightInv, Arriving, Live

LEMMA ServeImplements ==
  ASSUME PollingInv, NEW p \in polls, Serve(p)
  PROVE  \/ Display!Serve(p.waiters)
         \/ UNCHANGED mapped /\ UNCHANGED <<server, selection, selects, effectSel>>
<1> USE DEF effect
<1>1. p \in Requests /\ p.sel \in Selections /\ p.answer = None
  BY DEF PollingInv, TypeInv, TypeOK, Requests, Serve
<1>2. PICK a \in {Read(p.sel), Failed} : polls' = (polls \ {p}) \cup {Answered(p, a)}
  BY DEF Serve, Answered
<1>3. a \in Answers
  BY <1>1, ReadType DEF Answers, PollingInv
<1> DEFINE q == Answered(p, a)
<1>4. q.gen = p.gen /\ q.answer = a /\ q.waiters = p.waiters /\ a # None
  BY <1>1, <1>3, AnsweredRequest, ValuesDiffer
<1>5. /\ polls' = (polls \ {p}) \cup {q}
      /\ UNCHANGED <<server, selection, selects, effectSel, mounted, gen, view, asked, resolved>>
  BY <1>2 DEF Serve, ghosts
<1> HIDE DEF q
<1>6. UNCHANGED <<OnDisplay, Waiting>>
  BY <1>5 DEF OnDisplay, Waiting
<1>7. CASE Live(p)
  <2>1. Arriving = {} /\ \A x \in polls : Live(x) => x = p
    BY <1>1, <1>7, OneArrives
  <2>2. Arriving' = {q}
    BY <1>4, <1>5, <1>7, <2>1 DEF Arriving, Live
  <2>3. Stale' = Stale
    BY <1>4, <1>5, <1>7 DEF Stale, Live
  <2>4. /\ AnswerOf(Arriving) = None
        /\ AnswerOf(Arriving)' = a /\ WaitersOf(Arriving)' = p.waiters
        /\ WaitersOf(Stale)' = WaitersOf(Stale)
    BY <1>4, <2>1, <2>2, <2>3, MappedStep, NoAnswer, OneAnswer
  <2>5. p.waiters \subseteq Waiting \ WaitersOf(Stale)
    <3>1. \A x \in Stale : x.waiters \cap p.waiters = {}
      BY <1>7 DEF Stale, PollingInv, WaitInv
    <3> QED BY <3>1 DEF WaitersOf, PollingInv, WaitInv
  <2>6. a \in {Display!Read(effectSel), Failed}
    BY <1>2, <1>7, SameRead DEF Live, PollingInv, PollsInv
  <2>7. Display!Serve(p.waiters)
    BY <1>5, <1>6, <2>4, <2>5, <2>6 DEF Display!Serve, Display!server, Display!choice, server
  <2> QED BY <2>7
<1>8. CASE ~Live(p)
  <2>1. Arriving' = Arriving
    BY <1>4, <1>5, <1>8 DEF Arriving, Live
  <2>2. Stale' = (Stale \ {p}) \cup {q} /\ p \in Stale
    BY <1>4, <1>5, <1>8 DEF Stale, Live
  <2>3. WaitersOf((Stale \ {p}) \cup {q}) = WaitersOf(Stale)
    BY <1>4, <2>2 DEF WaitersOf
  <2> QED BY <1>5, <1>6, <2>1, <2>2, <2>3, MappedStep DEF mapped
<1> QED BY <1>7, <1>8

LEMMA SettleImplements ==
  ASSUME PollingInv, NEW p \in polls, Settle(p)
  PROVE  Display!Settle
<1> USE DEF effect
<1>1. /\ p \in Requests /\ p.answer # None /\ Live(p) /\ p.sel = effectSel
      /\ p.waiters \in SUBSET Refreshes /\ p.n \in Nat
  BY DEF PollingInv, TypeInv, TypeOK, PollsInv, Requests, Settle, Live
<1>2. Arriving = {p} /\ \A q \in polls : Live(q) => q = p
  BY <1>1, OneArrives
<1>3. /\ UNCHANGED <<server, selection, selects, effectSel, mounted, gen, asked>>
      /\ Resolve(p.waiters, p.n)
  BY DEF Settle
<1>4. Waiting' = Waiting \ p.waiters
  BY <1>1, <1>3, Resolving DEF PollingInv
<1>5. Arriving' = {} /\ Stale' = Stale
  <2>1. CASE polls' = polls \ {p}
    BY <1>1, <1>2, <1>3, <2>1 DEF Arriving, Stale, Live
  <2>2. CASE StartPoll(polls \ {p}, queue)
    <3>1. Request(queue).gen = gen /\ Request(queue).answer = None
      BY NewIs DEF PollingInv, TypeInv, TypeOK
    <3>2. polls' = (polls \ {p}) \cup {Request(queue)}
      BY <2>2 DEF StartPoll
    <3> QED BY <1>1, <1>2, <1>3, <3>1, <3>2 DEF Arriving, Stale, Live
  <2> QED BY <2>1, <2>2 DEF Settle, AfterPoll
<1>6. /\ AnswerOf(Arriving) = p.answer /\ WaitersOf(Arriving) = p.waiters
      /\ AnswerOf(Arriving)' = None /\ WaitersOf(Arriving)' = {}
      /\ WaitersOf(Stale)' = WaitersOf(Stale)
  BY <1>2, <1>5, MappedStep, NoAnswer, OneAnswer
<1>7. view \in Views
  BY DEF PollingInv, TypeInv, TypeOK
<1>8. OnDisplay' =
        CASE p.answer = Failed ->
               [OnDisplay EXCEPT !.errorSel = IF effectSel = Latest THEN None ELSE effectSel]
          [] p.answer # Failed /\ Display!Newer -> OnDisplay
          [] OTHER -> [response |-> p.answer, sel |-> effectSel, errorSel |-> None]
  <2>1. CASE p.answer = Failed
    BY <1>1, <1>7, <2>1 DEF Settle, Rejected, OnDisplay, Views
  <2>2. Display!Newer <=> Outdated(p)
    BY <1>1, <1>6 DEF Display!Newer, Outdated, OnDisplay, Display!Snapshots, Snapshots
  <2>3. CASE p.answer # Failed
    BY <1>1, <2>2, <2>3 DEF Settle, Accepted, OnDisplay
  <2> QED BY <2>1, <2>3
<1> QED BY <1>1, <1>3, <1>4, <1>6, <1>8 DEF Display!Settle, Display!server, Display!choice, server

LEMMA StaleImplements ==
  ASSUME PollingInv, NEW p \in polls, SettleStale(p)
  PROVE  \/ Display!Release(p.waiters)
         \/ UNCHANGED mapped /\ UNCHANGED <<server, selection, selects, effectSel>>
<1> USE DEF effect
<1>1. /\ ~Live(p) /\ polls' = polls \ {p} /\ Resolve(p.waiters, p.n)
      /\ UNCHANGED <<server, selection, selects, effectSel, mounted, gen, asked, view>>
      /\ p.waiters \in SUBSET Refreshes /\ p.n \in Nat
  BY DEF SettleStale, PollingInv, TypeInv, TypeOK, Requests
<1>2. Waiting' = Waiting \ p.waiters
  BY <1>1, Resolving DEF PollingInv
<1>3. Arriving' = Arriving /\ Stale' = Stale \ {p} /\ p \in Stale
  BY <1>1 DEF Arriving, Stale, Live
<1>4. WaitersOf(Stale \ {p}) = WaitersOf(Stale) \ p.waiters /\ p.waiters \subseteq WaitersOf(Stale)
  BY <1>3 DEF WaitersOf, Stale, PollingInv, WaitInv
<1>5. /\ UNCHANGED <<OnDisplay, AnswerOf(Arriving), WaitersOf(Arriving)>>
      /\ WaitersOf(Stale)' = WaitersOf(Stale) \ p.waiters
  BY <1>1, <1>3, <1>4, MappedStep DEF OnDisplay
<1>6. CASE p.waiters = {}
  BY <1>1, <1>2, <1>5, <1>6 DEF mapped
<1>7. CASE p.waiters # {}
  BY <1>1, <1>2, <1>4, <1>5, <1>7 DEF Display!Release, Display!server, Display!choice, server
<1> QED BY <1>6, <1>7

LEMMA RefreshImplements ==
  ASSUME PollingInv, NEW r \in Refreshes, Refresh(r)
  PROVE  Display!Ask(r)
<1> USE DEF effect
<1>1. Waiting' = Waiting \cup {r} /\ r \notin Waiting
  BY Asking DEF PollingInv
<1>2. UNCHANGED <<server, selection, selects, effectSel, mounted, gen, view>> /\ mounted
  BY DEF Refresh
<1>3. UNCHANGED <<AnswerOf(Arriving), WaitersOf(Arriving), WaitersOf(Stale)>>
  <2>1. CASE UNCHANGED polls
    <3>1. Arriving' = Arriving /\ Stale' = Stale
      BY <1>2, <2>1 DEF Arriving, Stale, Live
    <3> QED BY <3>1, MappedStep
  <2>2. CASE StartPoll(polls, {r})
    <3>1. Request({r}).answer = None /\ Request({r}).gen = gen
      BY NewIs DEF PollingInv
    <3>2. polls' = polls \cup {Request({r})}
      BY <2>2 DEF StartPoll
    <3> QED BY <1>2, <3>1, <3>2, MappedSent
  <2> QED BY <2>1, <2>2 DEF Refresh
<1>4. UNCHANGED OnDisplay
  BY <1>2 DEF OnDisplay
<1> QED BY <1>1, <1>2, <1>3, <1>4 DEF Display!Ask, Display!server, Display!choice, server

\* A cleanup leaves the refreshes of the requests under way, and only those.
LEMMA CleanupAbandons ==
  ASSUME PollingInv, Cleanup, UNCHANGED asked, Arriving' = {}, Stale' = polls
  PROVE  Display!Abandon
<1>1. queue \in SUBSET Refreshes /\ 0 \in Nat
  BY DEF PollingInv, TypeInv, TypeOK
<1>2. Waiting' = Waiting \ queue
  BY <1>1, Resolving DEF Cleanup, PollingInv
<1>3. WaitersOf(polls) = Waiting \ queue
  BY DEF WaitersOf, PollingInv, WaitInv
<1>4. WaitersOf(Stale) \subseteq WaitersOf(polls)
  BY DEF WaitersOf, Stale
<1>5. /\ AnswerOf(Arriving)' = None /\ WaitersOf(Arriving)' = {}
      /\ WaitersOf(Stale)' = WaitersOf(polls)
  BY MappedStep, NoAnswer
<1> QED BY <1>2, <1>3, <1>4, <1>5 DEF Display!Abandon

LEMMA RunEffectImplements ==
  ASSUME PollingInv, RunEffect
  PROVE  Display!Replace
<1> DEFINE new == New(sent + 1, gen + 1, selection, {})
<1>1. /\ sent + 1 \in Nat /\ gen + 1 \in Nat /\ selection \in Selections /\ gen \in Nat
      /\ view \in Views /\ \A p \in polls : p.gen \in Nat
  BY DEF PollingInv, TypeInv, TypeOK, Requests
<1>2. new.gen = gen + 1 /\ new.answer = None /\ new.waiters = {}
  BY <1>1, NewRequest
<1>3. /\ polls' = polls \cup {new} /\ gen' = gen + 1 /\ effectSel' = selection
      /\ selection # effectSel /\ mounted /\ Cleanup
      /\ UNCHANGED <<server, selection, selects, mounted, asked>>
  BY DEF RunEffect, New
<1>4. OnDisplay' = [OnDisplay EXCEPT !.errorSel = None]
  BY <1>1 DEF RunEffect, OnDisplay, Views
<1> HIDE DEF new
<1>5. Arriving' = {} /\ Stale' = polls
  <2>1. \A p \in polls : p.gen # gen + 1 /\ p # new
    BY <1>1, <1>2 DEF PollingInv, PollsInv
  <2> QED BY <1>2, <1>3, <2>1 DEF Arriving, Stale, Live
<1>6. Display!Abandon
  BY <1>3, <1>5, CleanupAbandons
<1> QED BY <1>3, <1>4, <1>6 DEF Display!Replace, Display!server, server

LEMMA UnmountImplements ==
  ASSUME PollingInv, Unmount
  PROVE  Display!Leave
<1> USE DEF effect
<1>1. /\ mounted' = FALSE /\ Cleanup
      /\ UNCHANGED <<server, selection, selects, effectSel, polls, view, asked>>
  BY DEF Unmount
<1>2. Arriving' = {} /\ Stale' = polls
  BY <1>1 DEF Arriving, Stale, Live
<1>3. Display!Abandon
  BY <1>1, <1>2, CleanupAbandons
<1>4. UNCHANGED OnDisplay
  BY <1>1 DEF OnDisplay
<1> QED BY <1>1, <1>3, <1>4 DEF Display!Leave, Display!server, Display!choice, server

\* The timer's request is invisible until it is answered.
LEMMA TimerImplements ==
  ASSUME PollingInv, TimerFires
  PROVE  UNCHANGED mapped /\ UNCHANGED <<server, selection, selects, effectSel>>
<1> USE DEF effect, ghosts
<1>1. /\ polls' = polls \cup {Request({})}
      /\ UNCHANGED <<server, selection, selects, effectSel, mounted, gen, view, asked, resolved>>
  BY DEF TimerFires, StartPoll
<1>2. Request({}).answer = None /\ Request({}).gen = gen /\ Request({}).waiters = {}
  BY NewIs DEF PollingInv
<1>3. UNCHANGED <<AnswerOf(Arriving), WaitersOf(Arriving), WaitersOf(Stale)>>
  BY <1>1, <1>2, MappedSent
<1> QED BY <1>1, <1>3 DEF mapped, OnDisplay, Waiting

\* The poller keeps what the edit controllers rely on: answers of cancelled
\* effects never reach the display, and a refresh is over only when an answer
\* read after it was asked for is shown, or its effect was cancelled.
THEOREM PollingImplementsDisplay == Spec => ImplementsDisplay
<1>1. Init => Display!DisplayInit
  <2> SUFFICES ASSUME Init PROVE Display!DisplayInit
    OBVIOUS
  <2>1. Arriving = {} /\ Stale = {} /\ Waiting = {}
    BY DEF Init, Arriving, Stale, Waiting
  <2>2. AnswerOf(Arriving) = None /\ WaitersOf(Arriving) = {} /\ WaitersOf(Stale) = {}
    BY <2>1, NoAnswer
  <2>3. OnDisplay = [response |-> Display!Read(Latest), sel |-> Latest, errorSel |-> None]
    BY SameRead DEF Init, OnDisplay
  <2> QED BY <2>1, <2>2, <2>3 DEF Init, Display!DisplayInit
<1>2. PollingInv /\ [Next]_vars => [Display!DisplayNext]_(Display!displayVars)
  <2> SUFFICES ASSUME PollingInv, [Next]_vars
               PROVE  Display!DisplayNext \/ UNCHANGED Display!displayVars
    OBVIOUS
  <2> USE DEF effect, ghosts
  <2> DEFINE Stutters == UNCHANGED mapped /\ UNCHANGED <<server, selection, selects, effectSel>>
  <2>0. Stutters => UNCHANGED Display!displayVars
    BY DEF mapped, server, Display!displayVars, Display!server, Display!choice, Display!refresh
  <2>1. ASSUME NEW s \in Sessions, Update(s)
        PROVE  Display!Update(s)
    <3>1. UNCHANGED mapped
      BY <2>1, MappedSame DEF Update
    <3> QED BY <2>1, <3>1
            DEF Update, mapped, Display!Update, Display!Written, Display!choice, Display!refresh
  <2>2. ASSUME NEW s \in Sessions, Remove(s)
        PROVE  Display!Remove(s)
    <3>1. UNCHANGED mapped
      BY <2>2, MappedSame DEF Remove
    <3> QED BY <2>2, <3>1
            DEF Remove, mapped, Display!Remove, Display!Others, Display!choice, Display!refresh
  <2>14. ASSUME NEW s \in Sessions, Create(s)
         PROVE  Display!Create(s)
    <3>1. UNCHANGED mapped
      BY <2>14, MappedSame DEF Create
    <3> QED BY <2>14, <3>1 DEF Create, mapped, Display!Create, Display!choice, Display!refresh
  <2>3. ASSUME NEW sel \in Selections, Select(sel)
        PROVE  Display!Select(sel)
    <3>1. UNCHANGED mapped
      BY <2>3, MappedSame DEF Select
    <3> QED BY <2>3, <3>1 DEF Select, mapped, server, Display!Select, Display!server, Display!refresh
  <2>4. CASE UNCHANGED vars
    <3>1. UNCHANGED mapped
      BY <2>4, MappedSame DEF vars
    <3> QED BY <2>0, <2>4, <3>1 DEF vars
  <2>5. ASSUME NEW p \in polls
        PROVE  p.waiters \in SUBSET Refreshes
    BY <2>5 DEF PollingInv, TypeInv, TypeOK, Requests
  <2>6. ASSUME NEW p \in polls, Serve(p)
        PROVE  Display!DisplayNext \/ Stutters
    BY <2>5, <2>6, ServeImplements DEF Display!DisplayNext
  <2>7. ASSUME NEW p \in polls, Settle(p)
        PROVE  Display!DisplayNext
    BY <2>7, SettleImplements DEF Display!DisplayNext
  <2>8. ASSUME NEW p \in polls, SettleStale(p)
        PROVE  Display!DisplayNext \/ Stutters
    BY <2>5, <2>8, StaleImplements DEF Display!DisplayNext
  <2>9. CASE TimerFires
    BY <2>0, <2>9, TimerImplements
  <2>10. CASE RunEffect \/ Unmount
    BY <2>10, RunEffectImplements, UnmountImplements DEF Display!DisplayNext
  <2>11. ASSUME NEW r \in Refreshes, Refresh(r)
         PROVE  Display!DisplayNext
    BY <2>11, RefreshImplements DEF Display!DisplayNext
  <2>12. ASSUME NEW s \in Sessions, Update(s) \/ Create(s) \/ Remove(s)
         PROVE  Display!DisplayNext
    BY <2>1, <2>2, <2>12, <2>14 DEF Display!DisplayNext
  <2>13. ASSUME NEW sel \in Selections, Select(sel)
         PROVE  Display!DisplayNext
    BY <2>3, <2>13 DEF Display!DisplayNext, Display!Selections, Selections
  <2> QED
    BY <2>0, <2>4, <2>6, <2>7, <2>8, <2>9, <2>10, <2>11, <2>12, <2>13 DEF Next, Page
<1> QED
  BY <1>1, <1>2, PollingInvariant, PTL DEF Spec, ImplementsDisplay, Display!DisplaySpec
=============================================================================
