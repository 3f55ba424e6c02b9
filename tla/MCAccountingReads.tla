------------------------- MODULE MCAccountingReads --------------------------
(***************************************************************************)
(* The accounting tools that read, for TLC.                                *)
(***************************************************************************)
EXTENDS AccountingReads, TLC

\* A ledger of four moves.  The lines of the moves are interleaved by id, as
\* those of drafts written at the same time are.
Entry(move, account, date, due, balance, share) ==
    [move |-> move, account |-> account, date |-> date, due |-> due, partner |-> 1 + (move % 2),
     invoice |-> move # 2, balance |-> balance, foreign |-> balance, share |-> share]

\* Accounts: 1 receivable, 2 income, 3 cash and stock, 4 expense, 5 equity.
MCAccountTypes == <<"asset_receivable", "income", "asset_cash", "expense", "equity">>

\* Move 1 is an invoice in a foreign currency, move 2 its payment, move 3 an
\* invoice with an expense, and move 4 one with the cost of the goods sold,
\* whose two halves balance; one unit of currency is 100.
MCLedgerLines ==
    <<[Entry(1, 1, 10, 40, 300, 100) EXCEPT !.foreign = 600],
      Entry(3, 1, 20, 70, 200, 0),
      Entry(4, 1, 25, 25, 100, 0), Entry(4, 2, 25, 25, -100, 0),
      Entry(2, 3, 30, 30, 300, 0),
      [Entry(1, 2, 10, 10, -300, 50) EXCEPT !.foreign = -600],
      Entry(3, 4, 20, 20, 100, 50), Entry(3, 2, 20, 20, -300, 50),
      Entry(4, 4, 25, 25, 200, 0), Entry(4, 3, 25, 25, -200, 0),
      Entry(2, 1, 30, 30, -300, 0)>>

\* The second settles the invoice in the company's currency, not in its own.
MCPartials ==
    <<[debit |-> 1, credit |-> 11, amount |-> 100, debitForeign |-> 200, creditForeign |-> 100,
       date |-> 100],
      [debit |-> 1, credit |-> 11, amount |-> 200, debitForeign |-> 300, creditForeign |-> 200,
       date |-> 101]>>

Report(kind, start, end) ==
    [kind |-> kind, start |-> start, end |-> end, accounts |-> {}, analytic |-> FALSE,
     states |-> {"draft", "posted"}, overdue |-> FALSE]

MCReportRequests ==
    {Report("trial_balance", 20, 30), [Report("trial_balance", 20, 30) EXCEPT !.accounts = {1, 5}],
     Report("profit_and_loss", 10, 30), [Report("profit_and_loss", 0, 30) EXCEPT !.analytic = TRUE],
     Report("balance_sheet", 0, 30), [Report("balance_sheet", 0, 30) EXCEPT !.analytic = TRUE],
     Report("aged_balance", 0, 100), Report("aged_balance", 0, 101), Report("aged_balance", 0, 130),
     Report("open_documents", 0, 100), Report("open_documents", 0, 101),
     [Report("open_documents", 0, 40) EXCEPT !.overdue = TRUE], Report("cashbook", 20, 30), Report("cashbook", 31, 40),
     [Report("journal_entries", 0, 30) EXCEPT !.states = {"draft"}],
     Report("journal_entries", 10, 20)}

----------------------------------------------------------------------------
\* Two statement lines and two or three candidates, with amounts on both
\* sides of the half unit at which they round.  0 is no partner, currency, move or journal.
Statement(journal, amount, partner, day) ==
    [journal |-> journal, amount |-> amount, partner |-> partner, reference |-> partner,
     day |-> day, foreign |-> 0, move |-> 0]

Item(currency, residual, foreign, partner, day) ==
    [currency |-> currency, residual |-> residual, foreign |-> foreign, partner |-> partner,
     reference |-> partner, day |-> day, move |-> 9]

\* Journal 3 is no bank journal; currency 3 is not loaded.
MCSomeStatements ==
    {Statement(1, 150, 1, 10), Statement(1, -150, 0, 10),
     [Statement(1, 150, 1, 10) EXCEPT !.move = 9],
     [Statement(1, 150, 2, 40) EXCEPT !.foreign = 2],
     Statement(2, 45, 1, 10), Statement(3, 150, 1, 10)}

MCSomeItems ==
    {Item(1, -150, -150, 1, 10), Item(1, -249, -249, 1, 25), Item(1, 150, 150, 2, 10),
     Item(1, -200, -45, 2, 41), Item(2, -150, -45, 1, 10), Item(3, -150, -150, 1, 10)}

Match(tool, journal, ids, dryRun) ==
    [tool |-> tool, journal |-> journal, ids |-> ids, threshold |-> 2550, dryRun |-> dryRun]

MCMatchRequests ==
    {Match("propose", 1, {1, 2}, TRUE), Match("propose", 2, {1}, TRUE),
     Match("propose", 3, {1}, TRUE),
     Match("flag", 0, {}, TRUE), Match("flag", 3, {}, TRUE),
     [Match("flag", 1, {}, TRUE) EXCEPT !.threshold = 1650]}

MCJournalCurrency == 1 :> 0 @@ 2 :> 2
MCIncrement == 1 :> 100 @@ 2 :> 10

MCRaceStatementData == {Statement(1, 150, 1, 10)}
MCRaceItemData == {Item(1, -150, -150, 1, 10), Item(1, -150, -150, 2, 10)}
MCRaceRequests == {Match("propose", 1, {1}, FALSE), Match("propose", 1, {1, 2}, FALSE)}

----------------------------------------------------------------------------
\* Five rates on three days; two of the days have a rate of either scope.
At(date, own) == [date |-> date, own |-> own]

MCRate == <<At(1, TRUE), At(2, TRUE), At(1, FALSE), At(2, FALSE), At(3, TRUE)>>

MCRateRequests ==
    {[currency |-> 2, start |-> 1, end |-> 3], [currency |-> 2, start |-> 1, end |-> 2],
     [currency |-> 1, start |-> 1, end |-> 3]}
=============================================================================
