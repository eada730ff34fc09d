------------------------------- MODULE Ledger -------------------------------
(***************************************************************************)
(* LedgerService: journals are posted from payment events and reversed.    *)
(* The in-memory repository is asked for a journal by its id and by its    *)
(* source event, and refuses to replace a posted journal by anything but   *)
(* its reversal.                                                           *)
(***************************************************************************)
EXTENDS ServiceCalls

CONSTANTS
  Journal,        \* journalIds that may be drawn
  SourceEvent,    \* numbers of the events a journal may be posted from
  NoJournal       \* the null of reversesJournalId and reversedByJournalId

Source(e) == <<"source", e>>

Accounts == {"CASH_CLEARING", "REVENUE", "REFUNDS"}

JournalLine == [account : Accounts, direction : {"debit", "credit"}, amount : Nat]

\* A reversal has no event to be posted from and draws a source of its own.
JournalRecord ==
  [source : SourceEvent \union Journal, status : {"posted", "reversed"}, lines : Seq(JournalLine),
   reverses : Journal \union {NoJournal}, reversedBy : Journal \union {NoJournal}]

ASSUME LedgerAssumption ==
  /\ Journal \subseteq Key /\ NoJournal \notin Journal
  /\ \A e \in SourceEvent : Source(e) \in Key
  /\ NoRecord \notin JournalRecord \union Journal

-----------------------------------------------------------------------------
Line(account, direction, amount) ==
  [account |-> account, direction |-> direction, amount |-> amount]

\* Mutant of LinesFor: a refund is posted with the amount of the payment.
LinesForWholeAmount(event) ==
  IF event.type = "captured"
    THEN << Line("CASH_CLEARING", "debit", event.amount),
            Line("REVENUE", "credit", event.amount) >>
    ELSE << Line("REFUNDS", "debit", event.amount),
            Line("CASH_CLEARING", "credit", event.amount) >>

\* buildLinesForEvent under DEFAULT_POSTING_RULE_CONFIG.
LinesFor(event) ==
  IF event.type = "captured"
    THEN << Line("CASH_CLEARING", "debit", event.amount),
            Line("REVENUE", "credit", event.amount) >>
    ELSE << Line("REFUNDS", "debit", event.refund),
            Line("CASH_CLEARING", "credit", event.refund) >>

Opposite(direction) == IF direction = "debit" THEN "credit" ELSE "debit"

\* Mutant of ReverseLines: debits stay debits.
CopiedLines(lines) == lines

ReverseLines(lines) ==
  [i \in DOMAIN lines |-> [lines[i] EXCEPT !.direction = Opposite(@)]]

\* consumeFinancialEvent, for the event with number e: a second journal for one
\* source is not posted, the first is returned.
PostJournal(c, e, event) ==
  \E j \in Journal :
    LET reads == << {Source(e)} >>
        journal == [source |-> e, status |-> "posted", lines |-> LinesFor(event),
                    reverses |-> NoJournal, reversedBy |-> NoJournal]
    IN  /\ IsIdle(c)
        /\ event.type \in {"captured", "refunded"}
        /\ ~Exists(store[Source(e)])
        /\ j \in Fresh(Journal)
        /\ Stage(c, reads, << (j :> journal) @@ (Source(e) :> j) >>, j :> "posted")

\* reverseJournal: the repository asks once more, when the original is saved,
\* whether it is still posted. The reversal draws a source event id of its own.
ReverseJournal(c) ==
  \E j, r \in Journal :
    LET op == <<"reverseJournal", j>>
        reads == << {j}, {} >>
        original == Saw(c, reads)[j]
        reversal == [source |-> r, status |-> "posted",
                     lines |-> ReverseLines(original.lines),
                     reverses |-> j, reversedBy |-> NoJournal]
        reversed == [original EXCEPT !.status = "reversed", !.reversedBy = r]
    IN  \/ Exists(store[j]) /\ store[j].status = "posted" /\ Read(c, op, reads)
        \/ /\ LastRead(c, op, reads)
           /\ r \in Fresh(Journal)
           /\ store[j].status = "posted"
           /\ Stage(c, reads, << r :> reversal, j :> reversed >>,
                    (r :> "posted") @@ (j :> "reversed"))
=============================================================================
