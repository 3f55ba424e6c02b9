---------------------------- MODULE RateHistory -----------------------------
(***************************************************************************)
(* get_currency_rate_history: workflows/accounting/currency_rates.py over  *)
(* get_currency_rates of adapters/odoo/accounting.py.                      *)
(*                                                                         *)
(* Each call reads every rate up to the end of the period, in pages, and   *)
(* cuts the page asked for out of the history.  The client may come back   *)
(* with any cursor it was given, for the same request or another one.      *)
(* Users add and delete rates and may change the company's currency.       *)
(***************************************************************************)
EXTENDS IdPages, Sequences, FiniteSetsExt, Sorting

CONSTANTS
    Rate,        \* rate id -> [date, own]: own is a rate of the root company
    Requests,    \* [currency, start, end]
    Foreign,     \* the currency the rates are of
    Limit,       \* rows of a page of the history
    MaxChanges   \* bound on the steps of Odoo users

RateIds == DOMAIN Rate

\* Odoo numbers records from 1; a period does not end before it begins
\* (CurrencyRateHistoryInput of mcp/schemas.py).
RateHistoryAssumption ==
    /\ IsFiniteSet(RateIds) /\ RateIds \subseteq Nat \ {0}
    /\ \A r \in RateIds : Rate[r].date \in Int /\ Rate[r].own \in BOOLEAN
    /\ \A q \in Requests : q.start \in Int /\ q.end \in Int /\ q.start <= q.end
    /\ PageSize \in Nat \ {0} /\ Limit \in Nat \ {0}

NoCursor == [of |-> {}, offset |-> 0]

VARIABLES
    rates,      \* the rates there are
    lastRate,   \* the highest id given to one
    companyCurrency,
    changes,
    request, token,   \* what the client asks for, and the cursor it sends
    company,    \* the currency accounting_report read
    stage, cursor, seen,
    answer,     \* [effective, items, next]
    given,      \* cursors the client has
    follows,    \* history: the request that gave the cursor, and rows before it
    moments     \* history: the rates since this call began

odoo == <<rates, lastRate, companyCurrency, changes>>
vars == <<rates, lastRate, companyCurrency, changes, request, token, company, stage, cursor, seen,
          answer, given, follows, moments>>

NoAnswer == [effective |-> 0, items |-> <<>>, next |-> NoCursor]

----------------------------------------------------------------------------
\* A rate of the company beats a shared one of its day, then the later id does.
Rank(r) == <<IF Rate[r].own THEN 1 ELSE 0, r>>

Above(a, b) == a[1] > b[1] \/ (a[1] = b[1] /\ a[2] > b[2])

\* Mutant of ByDate: the rate that was read last is kept.
ByDateLatest(S) == {r \in S : \A q \in S : Rate[q].date = Rate[r].date => q <= r}

\* by_date: one rate per day.
ByDate(S) == {r \in S : \A q \in S \ {r} : Rate[q].date = Rate[r].date => Above(Rank(r), Rank(q))}

\* The newest first.
Ordered(S) == InOrder(S, LAMBDA a, b : Rate[a].date > Rate[b].date)

\* The rate in force when the period begins, 0 if there is none.
Prior(S, q) ==
    LET earlier == {r \in ByDate(S) : Rate[r].date <= q.start}
    IN  IF earlier = {} THEN 0 ELSE Head(Ordered(earlier))

AllItems(S, q) ==
    Ordered({r \in ByDate(S) : q.start <= Rate[r].date /\ Rate[r].date <= q.end})

\* get_currency_rates: the rates up to the end of the period.
Wanted(S) == {r \in S : request.currency = Foreign /\ Rate[r].date <= request.end}

\* Mutant of CursorFits: any cursor of this tool will do.
CursorFitsAny(t, q) == TRUE

\* _offset: the cursor carries the request it was made for.
CursorFits(t, q) == t = NoCursor \/ t.of = {q}

----------------------------------------------------------------------------
Init ==
    /\ rates \in SUBSET RateIds
    /\ lastRate = Max(rates \cup {0})
    /\ companyCurrency = 1
    /\ changes = 0
    /\ request \in Requests
    /\ token = NoCursor
    /\ company = 1
    /\ stage = "currency"
    /\ cursor = 0
    /\ seen = {}
    /\ answer = NoAnswer
    /\ given = {NoCursor}
    /\ follows = <<>>
    /\ moments = {rates}

\* A new call, with a cursor the client has got.
Ask(q, t) ==
    /\ stage \in {"done", "failed"}
    /\ t \in given
    /\ request' = q
    /\ token' = t
    /\ company' = companyCurrency
    /\ stage' = "currency"
    /\ cursor' = 0
    /\ seen' = {}
    /\ follows' = IF stage = "done" /\ t # NoCursor /\ t = answer.next /\ moments = {rates}
                  THEN follows ELSE <<>>
    /\ moments' = {rates}
    /\ UNCHANGED <<odoo, answer, given>>

\* The cursor is checked before anything is read; the company's own currency
\* needs no rates.
CheckCursor ==
    /\ stage = "currency"
    /\ stage' = IF ~CursorFits(token, request) THEN "failed"
                ELSE IF request.currency = company THEN "answer"
                ELSE "rates"
    /\ UNCHANGED <<odoo, request, token, company, cursor, seen, answer, given, follows, moments>>

\* A page of rates, and the company that every page names.
ReadRates ==
    /\ stage = "rates"
    /\ LET S == Wanted(rates)
           page == PageAfter(S, cursor)
       IN  IF companyCurrency # company \/ Unsafe(seen, page)
           THEN stage' = "failed" /\ UNCHANGED <<cursor, seen>>
           ELSE /\ seen' = seen \cup page
                /\ IF HasMore(S, cursor)
                   THEN cursor' = Max(page) /\ UNCHANGED stage
                   ELSE cursor' = 0 /\ stage' = "answer"
    /\ UNCHANGED <<odoo, request, token, company, answer, given, follows, moments>>

\* The page of the history.
Answer ==
    /\ stage = "answer"
    /\ LET items == IF request.currency = company THEN <<>> ELSE AllItems(seen, request)
           page == SubSeq(items, token.offset + 1, Min({token.offset + Limit, Len(items)}))
           after == token.offset + Len(page)
           next == IF after < Len(items) THEN [of |-> {request}, offset |-> after] ELSE NoCursor
       IN  IF token.offset > Len(items)
           THEN stage' = "failed" /\ UNCHANGED <<answer, given, follows>>
           ELSE /\ stage' = "done"
                /\ answer' = [effective |-> IF request.currency = company THEN 0
                                            ELSE Prior(seen, request),
                              items |-> page, next |-> next]
                /\ given' = given \cup {next}
                /\ follows' = follows \o page
    /\ UNCHANGED <<odoo, request, token, company, cursor, seen, moments>>

\* Odoo users.
Happens ==
    /\ changes < MaxChanges
    /\ changes' = changes + 1
    /\ UNCHANGED <<request, token, company, stage, cursor, seen, answer, given, follows>>

\* Ids are given in order, and none twice.
AddRate(r) ==
    /\ r > lastRate
    /\ rates' = rates \cup {r}
    /\ lastRate' = r
    /\ moments' = moments \cup {rates'}
    /\ UNCHANGED companyCurrency
    /\ Happens

DeleteRate(r) ==
    /\ r \in rates
    /\ rates' = rates \ {r}
    /\ moments' = moments \cup {rates'}
    /\ UNCHANGED <<lastRate, companyCurrency>>
    /\ Happens

ChangeCurrency ==
    /\ companyCurrency' = 3 - companyCurrency
    /\ UNCHANGED <<rates, lastRate, moments>>
    /\ Happens

Next ==
    \/ \E q \in Requests, t \in given : Ask(q, t)
    \/ CheckCursor \/ ReadRates \/ Answer
    \/ \E r \in RateIds : AddRate(r) \/ DeleteRate(r)
    \/ ChangeCurrency

Spec == Init /\ [][Next]_vars

----------------------------------------------------------------------------
\* The rate that holds on day d, by the rates M: the last day not after d, the
\* company's own before the shared, the newest of those.
Holds(M, d) ==
    LET days == {Rate[r].date : r \in {r \in M : Rate[r].date <= d}} IN
    IF days = {} THEN 0
    ELSE LET day == {r \in M : Rate[r].date = Max(days)}
             own == {r \in day : Rate[r].own}
         IN  Max(IF own # {} THEN own ELSE day)

\* The rates M tell the same story as the answer.
Tells(M) ==
    /\ answer.effective = Holds(M, request.start)
    /\ \A k \in 1..Len(answer.items) :
          answer.items[k] = Holds(M, Rate[answer.items[k]].date)

Answered == stage = "done" /\ request.currency = Foreign /\ company # Foreign

\* What is answered holds of one set of rates there was during the call, when
\* rates were only added while it was read: a company's own rate is never
\* hidden by a shared one of its day (get_currency_rate_history).
HistoryOfAMoment ==
    Answered /\ (\A M \in moments : M \subseteq rates) => \E M \in moments : Tells(M)

\* A client that follows the cursors while the rates stay as they are gets the
\* history of one request without a gap and without a repetition: a cursor of
\* another request is refused (_cursor, _offset).
PagesOfOneHistory ==
    Answered /\ moments = {rates} /\ follows # <<>> /\ token.offset + Len(answer.items) = Len(follows)
        => follows = SubSeq(AllItems(rates, request), 1, Len(follows))

----------------------------------------------------------------------------
\* The invariant behind both.

\* Nothing that was there since the call began is gone.
Grown == \A M \in moments : M \subseteq rates

HistoryTypeOK ==
    /\ rates \in moments /\ moments \subseteq SUBSET RateIds
    /\ lastRate \in Nat /\ \A M \in moments : \A r \in M : r <= lastRate
    /\ request \in Requests
    /\ token \in given /\ answer.next \in given
    /\ given \subseteq [of : SUBSET Requests, offset : Nat]
    /\ stage \in {"currency", "rates", "answer", "done", "failed"}
    /\ cursor \in Nat /\ cursor <= lastRate
    /\ seen \subseteq RateIds
    /\ answer.items \in Seq(RateIds) /\ follows \in Seq(RateIds)

\* The pages read so far are the rates up to the cursor, unless one is gone;
\* one that was added since has a higher id.
SeenInv ==
    /\ stage = "currency" => seen = {} /\ cursor = 0
    /\ request.currency # Foreign => seen = {}
    /\ stage = "rates" => request.currency # company
    /\ stage = "rates" /\ Grown => seen = {r \in Wanted(rates) : r <= cursor}
    /\ stage = "answer" /\ request.currency # company /\ Grown
           => \E M \in moments : seen = Wanted(M)

\* A cursor that carries on where the client is carries the request it is for.
FollowsInv ==
    /\ stage \in {"currency", "rates", "answer"} /\ moments = {rates}
           /\ follows # <<>> /\ token.offset = Len(follows)
       => \E q \in Requests : /\ token.of = {q} /\ q.currency = Foreign
                              /\ follows = SubSeq(AllItems(rates, q), 1, Len(follows))
    /\ stage \in {"rates", "answer"} => CursorFits(token, request)
    /\ stage = "done" /\ answer.next # NoCursor
       => /\ request.currency = Foreign /\ company # Foreign
          /\ answer.next = [of |-> {request}, offset |-> token.offset + Len(answer.items)]

HistoryInv == HistoryTypeOK /\ SeenInv /\ FollowsInv /\ HistoryOfAMoment /\ PagesOfOneHistory
=============================================================================
