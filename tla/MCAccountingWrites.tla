------------------------- MODULE MCAccountingWrites -------------------------
\* Instances of AccountingWrites: calls that create and post documents (the
\* constants of the cfg), that reverse one invoice, and that pay one.
EXTENDS AccountingWrites, TLC

VARIABLE scene   \* which of the three; it does not change

DocIn(currency, total, lineTotal, debit, credit) ==
    [total |-> total, currency |-> currency,
     lines |-> [debit |-> debit, credit |-> credit, total |-> lineTotal,
                currency |-> currency, sound |-> TRUE]]

Doc(total, debit, credit) == DocIn("home", total, total, debit, credit)

Posted(kind, doc) == [NewMove(kind, doc, 0) EXCEPT !.state = "posted"]

Ask(tool, move) ==
    [tool |-> tool, move |-> move, amount |-> 0, journal |-> NoJournal, refs |-> {},
     doc |-> Doc(0, 0, 0)]

\* A difference of 1 may or may not survive rounding.
MCIncrement == [home |-> 2, foreign |-> 3]

\* What a document in another currency debits says nothing of its total: one
\* adds up and debits something else, the other debits it and does not add up.
MCDrafts == {Doc(4, 5, 4), Doc(4, 4, 6), DocIn("foreign", 6, 7, 4, 4),
             DocIn("foreign", 6, 3, 6, 6)}

Draft(tool, doc, refs) == [Ask(tool, 0) EXCEPT !.doc = doc, !.refs = refs]

PostingMoves == 1 :> NewMove("invoice", DocIn("foreign", 6, 7, 4, 4), 0)
                  @@ 2 :> NewMove("entry", Doc(4, 5, 4), 0)

PostingRequests ==
    {Ask("validate_invoice", 1), Ask("post_entry", 2),
     Draft("create_invoice", Doc(4, 4, 4), Refs),
     Draft("create_entry", Doc(0, 3, 4), {"account"}),
     Draft("create_entry", Doc(0, 4, 6), {"account"})}

PostedInvoice == 1 :> Posted("invoice", Doc(2, 2, 2))

CreditRequests == {Ask("credit_note", 1)}

PaymentRequests ==
    {Ask("payment", 1), [Ask("payment", 1) EXCEPT !.amount = 1, !.journal = "bank"],
     [Ask("payment", 1) EXCEPT !.amount = 3]}

Reversing == INSTANCE AccountingWrites WITH
    Requests <- CreditRequests, FirstMoves <- PostedInvoice, Refs <- {"partner"}

Paying == INSTANCE AccountingWrites WITH
    Requests <- PaymentRequests, FirstMoves <- PostedInvoice, Refs <- {"partner"},
    MoveIds <- {1}, Journals <- {"bank", "cash"}

AllInit == \/ scene = "posting" /\ Init
           \/ scene = "reversing" /\ Reversing!Init
           \/ scene = "paying" /\ Paying!Init

AllNext == /\ \/ scene = "posting" /\ Next
              \/ scene = "reversing" /\ Reversing!Next
              \/ scene = "paying" /\ Paying!Next
           /\ UNCHANGED scene

AllSpec == AllInit /\ [][AllNext]_<<vars, scene>>

CallSymmetry == Permutations(Calls)
=============================================================================
