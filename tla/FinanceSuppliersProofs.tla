----------------------- MODULE FinanceSuppliersProofs -----------------------
(***************************************************************************)
(* Proofs about Finance, for any payments, journals, amounts and           *)
(* overlapping calls, and, in the second half, about Suppliers, for any    *)
(* parties, items and overlapping calls.                                   *)
(***************************************************************************)
EXTENDS Finance, Suppliers, SumTheorems, ServiceCallsProofs

(***************************************************************************)
(* Payments: what a call is about to save of one, and what of it has been  *)
(* announced.                                                              *)
(***************************************************************************)
PaymentEvents ==
  [type : {"created", "authorized", "captured", "voided", "refunded"}, payment : Payment,
   amount : Nat, refund : Nat]

GoodPayment(x) ==
  /\ x \in PaymentRecord /\ x.refunded <= x.amount
  /\ x.refunded > 0 => x.status \in {"partially_refunded", "refunded"}

Creates(old, next, news, p) ==
  /\ old = NoRecord /\ GoodPayment(next)
  /\ next.status = "pending" /\ next.refunded = 0
  /\ news = PaymentEvent("created", p, next, 0)

MovesOn(old, next, news, p) ==
  \E to \in {"authorized", "captured", "voided", "failed"} :
    /\ GoodPayment(old) /\ CanTransition(old.status, to)
    /\ next = [old EXCEPT !.status = to]
    /\ news = IF to = "failed" THEN <<>> ELSE PaymentEvent(to, p, next, 0)

Refunds(old, next, news, p) ==
  \E part \in 1 .. old.amount :
    /\ GoodPayment(old) /\ old.status \in {"captured", "partially_refunded"}
    /\ old.refunded + part <= old.amount
    /\ next = [old EXCEPT !.status = RefundStatus(old, part), !.refunded = @ + part]
    /\ news = PaymentEvent("refunded", p, next, part)

Moves(old, next, news, p) ==
  Creates(old, next, news, p) \/ MovesOn(old, next, news, p) \/ Refunds(old, next, news, p)

Announces(news, p) ==
  /\ DOMAIN news \subseteq {p}
  /\ p \in DOMAIN news => news[p] \in PaymentEvents /\ news[p].payment = p

SavesPayment(call, p) ==
  LET next == call.writes[1][p]
  IN  /\ call.writes = << p :> next >> /\ p \in DOMAIN call.seen
      /\ Moves(call.seen[p], next, call.news, p)

Paying(call, p) ==
  /\ call.todo = <<>> /\ Announces(call.news, p)
  /\ call.writes = <<>> \/ SavesPayment(call, p)

IsCaptured(x) == x.status \in {"captured", "partially_refunded", "refunded"}

\* What an event says, and what a record amounts to, in the same terms.
Terms == {"captured", "closed", "refunded", "cash"}

Said(e) ==
  [captured |-> IF e.type = "captured" THEN 1 ELSE 0,
   closed   |-> IF e.type \in {"captured", "voided"} THEN 1 ELSE 0,
   refunded |-> IF e.type = "refunded" THEN e.refund ELSE 0,
   cash     |-> IF e.type = "captured" THEN e.amount
                ELSE IF e.type = "refunded" THEN -e.refund ELSE 0]

Worth(x) ==
  IF x = NoRecord
    THEN [captured |-> 0, closed |-> 0, refunded |-> 0, cash |-> 0]
    ELSE [captured |-> IF IsCaptured(x) THEN 1 ELSE 0,
          closed   |-> IF IsCaptured(x) \/ x.status = "voided" THEN 1 ELSE 0,
          refunded |-> x.refunded,
          cash     |-> (IF IsCaptured(x) THEN x.amount ELSE 0) - x.refunded]

\* Saved, and still to be announced.
Waiting(call, p) == call.writes = <<>> /\ p \in DOMAIN call.news

\* l is the log and w are the calls.
LogSays(l, p, term) == [i \in DOMAIN l |-> IF l[i].payment = p THEN Said(l[i])[term] ELSE 0]

CallsSay(w, p, term) ==
  [c \in Call |-> IF Waiting(w[c], p) THEN Said(w[c].news[p])[term] ELSE 0]

Announced(l, w, p, term) ==
  SumOver(LogSays(l, p, term), DOMAIN l) + SumOver(CallsSay(w, p, term), Call)

PaymentOK(s, l, w, rc, p) ==
  /\ Exists(s[p]) => GoodPayment(s[p])
  /\ p \notin rc => \A term \in Terms : Announced(l, w, p, term) = Worth(s[p])[term]

PaymentInv == \A p \in Payment : PaymentOK(store, log, work, raced, p)

-----------------------------------------------------------------------------
(***************************************************************************)
(* Journals: what a call is about to post or to reverse, and what is on    *)
(* file of it.                                                             *)
(***************************************************************************)
IsFinancial(l, e) == e \in DOMAIN l /\ l[e].type \in {"captured", "refunded"}

Entry(event, e) ==
  [source |-> e, status |-> "posted", lines |-> LinesFor(event),
   reverses |-> NoJournal, reversedBy |-> NoJournal]

Posting(call, l, j, e) ==
  /\ call.todo = <<>> /\ call.news = j :> "posted" /\ IsFinancial(l, e)
  /\ \/ call.writes = <<>>
     \/ /\ call.writes = << (j :> Entry(l[e], e)) @@ (Source(e) :> j) >>
        /\ Source(e) \in DOMAIN call.seen /\ call.seen[Source(e)] = NoRecord

\* Of a journal on file only the status changes, with the reversal that it names.
SameEntry(x, y) == x.source = y.source /\ x.lines = y.lines /\ x.reverses = y.reverses

\* The journal a call has read and may reverse; s are the repositories.
Original(call, s, j) ==
  /\ j \in DOMAIN call.seen /\ call.seen[j] \in JournalRecord /\ call.seen[j].status = "posted"
  /\ Exists(s[j]) /\ SameEntry(call.seen[j], s[j])

Reversal(original, j, r) ==
  [source |-> r, status |-> "posted", lines |-> ReverseLines(original.lines),
   reverses |-> j, reversedBy |-> NoJournal]

Reversed(original, r) == [original EXCEPT !.status = "reversed", !.reversedBy = r]

IsReversal(s, r, j) ==
  Exists(s[r]) /\ s[r].reverses = j /\ s[r].lines = ReverseLines(s[j].lines)

\* The reversal is still to be saved, and then the original.
ToReverse(call, s, j, r) ==
  /\ call.writes = << r :> Reversal(call.seen[j], j, r), j :> Reversed(call.seen[j], r) >>
  /\ Original(call, s, j)

HalfReversed(call, s, j, r) ==
  /\ call.writes = << j :> Reversed(call.seen[j], r) >>
  /\ Original(call, s, j) /\ IsReversal(s, r, j)

Reversing(call, s, j, r) ==
  /\ call.todo = <<>> /\ call.news = (r :> "posted") @@ (j :> "reversed") /\ r # j
  /\ Exists(s[j])
  /\ call.writes = <<>> \/ HalfReversed(call, s, j, r) \/ ToReverse(call, s, j, r)

\* A call that is free, or has read the journal it may reverse.
Starting(call, s) ==
  \/ call = Idle
  \/ /\ Len(call.todo) = 1 /\ call.todo # <<>> /\ call.writes = <<>> /\ call.news = <<>>
     /\ \E j \in Journal : call.op = <<"reverseJournal", j>> /\ Original(call, s, j)

CallInv(call, s, l) ==
  \/ Starting(call, s)
  \/ \E p \in Payment : Paying(call, p)
  \/ \E j \in Journal : \E e \in SourceEvent : Posting(call, l, j, e)
  \/ \E j, r \in Journal : Reversing(call, s, j, r)

\* Ids are drawn once.
Draws(call, k) == k \in DOMAIN call.news /\ call.news[k] = "posted"

DrawOK(w, s, c, k) ==
  Draws(w[c], k) =>
    /\ \A d \in Call \ {c} : ~Draws(w[d], k)
    /\ w[c].writes # <<>> /\ k \in DOMAIN w[c].writes[1] => ~Exists(s[k])

DrawsInv == \A c \in Call : \A k \in Journal : DrawOK(work, store, c, k)

\* What a journal on file was made from is on file; rc are the keys that have raced.
PostedOK(s, l, rc, j) ==
  s[j].source \in SourceEvent =>
    /\ IsFinancial(l, s[j].source) /\ s[j].lines = LinesFor(l[s[j].source])
    /\ Source(s[j].source) \notin rc => s[Source(s[j].source)] = j

JournalOK(s, l, rc, j) ==
  /\ s[j] \in JournalRecord /\ PostedOK(s, l, rc, j)
  /\ s[j].reverses \in Journal => Exists(s[s[j].reverses]) /\ IsReversal(s, j, s[j].reverses)
  /\ s[j].status = "reversed" => s[j].reversedBy \in Journal /\ IsReversal(s, s[j].reversedBy, j)

SourceOK(s, e) ==
  Exists(s[Source(e)]) =>
    /\ s[Source(e)] \in Journal /\ Exists(s[s[Source(e)]])
    /\ s[s[Source(e)]].source = e

\* A reversal of a journal that has not raced: it has been completed, or a call is
\* half way.
ReversalOK(s, w, j, r) ==
  \/ s[j].status = "reversed" /\ s[j].reversedBy = r
  \/ \E c \in Call : Reversing(w[c], s, j, r) /\ HalfReversed(w[c], s, j, r)

JournalInv ==
  /\ \A j \in Journal : Exists(store[j]) => JournalOK(store, log, raced, j)
  /\ \A e \in SourceEvent : SourceOK(store, e)
  /\ \A j \in Journal \ raced : \A r \in Journal :
       Exists(store[r]) /\ store[r].reverses = j => ReversalOK(store, work, j, r)

FinanceTypeOK ==
  /\ log \in Seq(PaymentEvents)
  /\ Len(log) + Cardinality(Announcing) <= MaxEvents

FinanceInv ==
  /\ CallsOK /\ FinanceTypeOK
  /\ \A c \in Call : CallInv(work[c], store, log)
  /\ DrawsInv /\ PaymentInv /\ JournalInv

-----------------------------------------------------------------------------
(***************************************************************************)
(* Keys, places of the log and records.                                    *)
(***************************************************************************)
LEMMA FinanceKeys ==
  /\ Payment \subseteq Key /\ Journal \subseteq Key /\ Payment \intersect Journal = {}
  /\ \A e \in SourceEvent : /\ Source(e) \in Key /\ Source(e) \notin Payment \union Journal
                            /\ e \notin Journal
                            /\ \A f \in SourceEvent : Source(e) = Source(f) => e = f
  /\ NoJournal \notin Journal /\ NoRecord \notin Journal
  /\ ~Exists(NoRecord) /\ \A x \in PaymentRecord \union JournalRecord \union Journal : Exists(x)
BY PaymentsAssumption, LedgerAssumption, FinanceAssumption DEF Source, Exists

LEMMA Places ==
  ASSUME FinanceTypeOK
  PROVE  /\ DOMAIN log = 1 .. Len(log) /\ Len(log) \in Nat /\ IsFiniteSet(DOMAIN log)
         /\ DOMAIN log \subseteq SourceEvent /\ IsFiniteSet(Announcing)
         /\ Cardinality(Announcing) \in Nat
         /\ \A i \in DOMAIN log : log[i] \in PaymentEvents
<1>1. log \in Seq(PaymentEvents) /\ Len(log) + Cardinality(Announcing) <= MaxEvents
  BY DEF FinanceTypeOK
<1>2. IsFiniteSet(Announcing) /\ Cardinality(Announcing) \in Nat
  <2>1. Announcing \subseteq Call
    BY DEF Announcing
  <2>2. QED
    BY <2>1, FinanceAssumption, FS_Subset, FS_CardinalityType
<1>3. DOMAIN log = 1 .. Len(log) /\ Len(log) \in Nat /\ \A i \in DOMAIN log : log[i] \in PaymentEvents
  BY <1>1
<1>4. 1 .. Len(log) \subseteq 1 .. MaxEvents
  BY <1>1, <1>2, <1>3, PaymentsAssumption
<1>5. IsFiniteSet(1 .. Len(log))
  BY <1>3, FS_Interval
<1>6. QED
  BY <1>2, <1>3, <1>4, <1>5, FinanceAssumption

IsNews(news, type, p, amount, refund) ==
  /\ DOMAIN news = {p}
  /\ news[p] = [type |-> type, payment |-> p, amount |-> amount, refund |-> refund]

LEMMA NewsOfPayment ==
  ASSUME NEW type, NEW p, NEW payment, NEW refund, NEW news,
         news = PaymentEvent(type, p, payment, refund)
  PROVE  IsNews(news, type, p, payment.amount, refund)
<1>1. PICK e : e = [type |-> type, payment |-> p, amount |-> payment.amount, refund |-> refund]
  OBVIOUS
<1>2. news = p :> e
  BY <1>1 DEF PaymentEvent
<1>3. DOMAIN (p :> e) = {p} /\ (p :> e)[p] = e
  BY OneKey
<1>4. QED
  BY <1>1, <1>2, <1>3 DEF IsNews

\* What a move of a payment makes of it, and what it says.
LEMMA MoveIsGood ==
  ASSUME NEW old, NEW next, NEW news, NEW p \in Payment, Moves(old, next, news, p)
  PROVE  GoodPayment(next) /\ Announces(news, p)
<1>1. CASE Creates(old, next, news, p)
  <2>1. GoodPayment(next) /\ news = PaymentEvent("created", p, next, 0)
    BY <1>1 DEF Creates
  <2>2. IsNews(news, "created", p, next.amount, 0)
    BY <2>1, NewsOfPayment
  <2>3. QED
    BY <2>1, <2>2 DEF IsNews, GoodPayment, Announces, PaymentEvents, PaymentRecord
<1>2. CASE MovesOn(old, next, news, p)
  <2>1. PICK to \in {"authorized", "captured", "voided", "failed"} :
          /\ GoodPayment(old) /\ CanTransition(old.status, to)
          /\ next = [old EXCEPT !.status = to]
          /\ news = IF to = "failed" THEN <<>> ELSE PaymentEvent(to, p, next, 0)
    BY <1>2 DEF MovesOn
  <2>2. next \in PaymentRecord /\ next.amount = old.amount /\ next.refunded = old.refunded
    BY <2>1 DEF GoodPayment, PaymentRecord
  <2>3. old.refunded = 0
    BY <2>1 DEF GoodPayment, PaymentRecord, CanTransition
  <2>4. GoodPayment(next)
    BY <2>1, <2>2, <2>3 DEF GoodPayment
  <2>5. Announces(<<>>, p)
    BY DEF Announces
  <2>6. CASE to # "failed"
    <3>1. news = PaymentEvent(to, p, next, 0)
      BY <2>1, <2>6
    <3>2. IsNews(news, to, p, next.amount, 0)
      BY <3>1, NewsOfPayment
    <3>3. Announces(news, p)
      BY <2>1, <2>2, <2>6, <3>2 DEF IsNews, Announces, PaymentEvents, PaymentRecord
    <3>4. QED
      BY <2>4, <3>3
  <2>7. QED
    BY <2>1, <2>4, <2>5, <2>6
<1>3. CASE Refunds(old, next, news, p)
  <2>1. PICK part \in 1 .. old.amount :
          /\ GoodPayment(old) /\ old.status \in {"captured", "partially_refunded"}
          /\ old.refunded + part <= old.amount
          /\ next = [old EXCEPT !.status = RefundStatus(old, part), !.refunded = @ + part]
          /\ news = PaymentEvent("refunded", p, next, part)
    BY <1>3 DEF Refunds
  <2>2. old \in PaymentRecord /\ part \in Nat
    BY <2>1 DEF GoodPayment, PaymentRecord
  <2>3. next \in PaymentRecord /\ next.amount = old.amount /\ next.refunded = old.refunded + part
        /\ next.status \in {"partially_refunded", "refunded"}
    <3>1. PICK to \in {"partially_refunded", "refunded"} : to = RefundStatus(old, part)
      BY DEF RefundStatus
    <3>2. PICK n \in Nat : n = old.refunded + part
      BY <2>2 DEF PaymentRecord
    <3>3. next = [old EXCEPT !.status = to, !.refunded = n]
      BY <2>1, <3>1, <3>2
    <3>4. QED
      BY <2>2, <3>1, <3>2, <3>3 DEF PaymentRecord
  <2>4. IsNews(news, "refunded", p, next.amount, part)
    BY <2>1, NewsOfPayment
  <2>5. Announces(news, p)
    BY <2>2, <2>3, <2>4 DEF IsNews, Announces, PaymentEvents, PaymentRecord
  <2>6. QED
    BY <2>1, <2>3, <2>5 DEF GoodPayment
<1>4. QED
  BY <1>1, <1>2, <1>3 DEF Moves

LEMMA TermsAre ==
  /\ \A x, term : GoodPayment(x) /\ term \in Terms => Worth(x)[term] \in Int
  /\ \A e \in PaymentEvents : \A term \in Terms : Said(e)[term] \in Int
<1>1. ASSUME NEW x, NEW term \in Terms, GoodPayment(x) PROVE Worth(x)[term] \in Int
  <2>1. x \in PaymentRecord /\ x # NoRecord
    BY <1>1, FinanceKeys DEF GoodPayment, Exists
  <2>2. x.amount \in Nat /\ x.refunded \in Nat
    BY <2>1 DEF PaymentRecord
  <2>3. QED
    BY <2>1, <2>2 DEF Worth, Terms
<1>2. ASSUME NEW e \in PaymentEvents, NEW term \in Terms PROVE Said(e)[term] \in Int
  BY DEF PaymentEvents, Said, Terms
<1>3. QED
  BY <1>1, <1>2

\* What a move adds to the worth of a payment is what it announces.
LEMMA MoveAddsUp ==
  ASSUME NEW old, NEW next, NEW news, NEW p \in Payment, Moves(old, next, news, p),
         NEW term \in Terms
  PROVE  /\ p \in DOMAIN news => Worth(next)[term] = Worth(old)[term] + Said(news[p])[term]
         /\ p \notin DOMAIN news => Worth(next)[term] = Worth(old)[term]
<1>0. GoodPayment(next) /\ next # NoRecord
  BY MoveIsGood, FinanceKeys DEF GoodPayment, Exists
<1>1. CASE Creates(old, next, news, p)
  <2>1. /\ old = NoRecord /\ next.status = "pending" /\ next.refunded = 0
        /\ news = PaymentEvent("created", p, next, 0)
    BY <1>1 DEF Creates
  <2>2. p \in DOMAIN news /\ news[p].type = "created"
    <3>1. IsNews(news, "created", p, next.amount, 0)
      BY <2>1, NewsOfPayment
    <3>2. QED
      BY <3>1 DEF IsNews
  <2>3. QED
    BY <1>0, <2>1, <2>2 DEF Worth, Said, Terms, IsCaptured
<1>2. CASE MovesOn(old, next, news, p)
  <2>1. PICK to \in {"authorized", "captured", "voided", "failed"} :
          /\ GoodPayment(old) /\ CanTransition(old.status, to)
          /\ next = [old EXCEPT !.status = to]
          /\ news = IF to = "failed" THEN <<>> ELSE PaymentEvent(to, p, next, 0)
    BY <1>2 DEF MovesOn
  <2>2. old # NoRecord /\ old.amount \in Nat /\ old.refunded = 0
    BY <2>1, FinanceKeys DEF GoodPayment, PaymentRecord, CanTransition, Exists
  <2>3. next.status = to /\ next.amount = old.amount /\ next.refunded = 0
    BY <2>1, <2>2 DEF GoodPayment, PaymentRecord
  <2>4. CASE to = "failed"
    <3>1. p \notin DOMAIN news
      BY <2>1, <2>4
    <3>2. ~IsCaptured(old) /\ old.status # "voided" /\ ~IsCaptured(next) /\ next.status # "voided"
      BY <2>1, <2>3, <2>4 DEF CanTransition, IsCaptured
    <3>3. QED
      BY <1>0, <2>2, <2>3, <3>1, <3>2 DEF Worth, Terms
  <2>5. CASE to # "failed"
    <3>1. p \in DOMAIN news /\ news[p].type = to /\ news[p].amount = old.amount
      <4>1. IsNews(news, to, p, next.amount, 0)
        BY <2>1, <2>5, NewsOfPayment
      <4>2. QED
        BY <2>3, <4>1 DEF IsNews
    <3>2. ~IsCaptured(old) /\ old.status # "voided"
      BY <2>1, <2>5 DEF CanTransition, IsCaptured
    <3>3. IsCaptured(next) <=> to = "captured"
      BY <2>1, <2>3 DEF IsCaptured
    <3>4. QED
      BY <1>0, <2>1, <2>2, <2>3, <2>5, <3>1, <3>2, <3>3 DEF Worth, Said, Terms
  <2>6. QED
    BY <2>4, <2>5
<1>3. CASE Refunds(old, next, news, p)
  <2>1. PICK part \in 1 .. old.amount :
          /\ GoodPayment(old) /\ old.status \in {"captured", "partially_refunded"}
          /\ old.refunded + part <= old.amount
          /\ next = [old EXCEPT !.status = RefundStatus(old, part), !.refunded = @ + part]
          /\ news = PaymentEvent("refunded", p, next, part)
    BY <1>3 DEF Refunds
  <2>2. old # NoRecord /\ old.amount \in Nat /\ old.refunded \in Nat /\ part \in Nat
    BY <2>1, FinanceKeys DEF GoodPayment, PaymentRecord, Exists
  <2>3. /\ next.status \in {"partially_refunded", "refunded"} /\ next.amount = old.amount
        /\ next.refunded = old.refunded + part
    BY <2>1, <2>2 DEF GoodPayment, PaymentRecord, RefundStatus
  <2>4. p \in DOMAIN news /\ news[p].type = "refunded" /\ news[p].refund = part
    <3>1. IsNews(news, "refunded", p, next.amount, part)
      BY <2>1, NewsOfPayment
    <3>2. QED
      BY <3>1 DEF IsNews
  <2>5. IsCaptured(old) /\ IsCaptured(next) /\ old.status # "voided" /\ next.status # "voided"
    BY <2>1, <2>3 DEF IsCaptured
  <2>6. QED
    BY <1>0, <2>2, <2>3, <2>4, <2>5 DEF Worth, Said, Terms
<1>4. QED
  BY <1>1, <1>2, <1>3 DEF Moves

-----------------------------------------------------------------------------
(***************************************************************************)
(* What a step that leaves other things alone keeps.                       *)
(***************************************************************************)
\* Journals stay on file, with their lines.
Grows(s, t) == \A j \in Journal : Exists(s[j]) => Exists(t[j]) /\ SameEntry(s[j], t[j])

Extends(l, m) == \A i \in DOMAIN l : i \in DOMAIN m /\ m[i] = l[i]

\* The same of payments, journals and the events they were posted from.
SameJournals(s, t) ==
  /\ \A j \in Journal : t[j] = s[j]
  /\ \A e \in SourceEvent : t[Source(e)] = s[Source(e)]

SamePayments(s, t) == \A p \in Payment : t[p] = s[p]

LEMMA SameGrows ==
  ASSUME NEW s, NEW t, SameJournals(s, t)
  PROVE  Grows(s, t)
BY DEF SameJournals, Grows, SameEntry

LEMMA GrowsKeeps ==
  ASSUME NEW s, NEW t, Grows(s, t), NEW j \in Journal, NEW r \in Journal
  PROVE  /\ \A call : Original(call, s, j) => Original(call, t, j)
         /\ Exists(s[j]) /\ IsReversal(s, r, j) => IsReversal(t, r, j)
<1>1. Exists(s[j]) => Exists(t[j]) /\ SameEntry(s[j], t[j])
  BY DEF Grows
<1>2. Exists(s[r]) => Exists(t[r]) /\ SameEntry(s[r], t[r])
  BY DEF Grows
<1>3. QED
  BY <1>1, <1>2 DEF Original, IsReversal, SameEntry

LEMMA CallKept ==
  ASSUME NEW s, NEW t, Grows(s, t), NEW l, NEW m, Extends(l, m),
         NEW call, CallInv(call, s, l)
  PROVE  CallInv(call, t, m)
<1>1. CASE Starting(call, s)
  <2>1. Starting(call, t)
    BY <1>1, GrowsKeeps DEF Starting
  <2>2. QED
    BY <2>1 DEF CallInv
<1>2. CASE \E p \in Payment : Paying(call, p)
  BY <1>2 DEF CallInv
<1>3. CASE \E j \in Journal : \E e \in SourceEvent : Posting(call, l, j, e)
  <2>1. PICK j \in Journal, e \in SourceEvent : Posting(call, l, j, e)
    BY <1>3
  <2>2. e \in DOMAIN m /\ m[e] = l[e]
    BY <2>1 DEF Posting, IsFinancial, Extends
  <2>3. Posting(call, m, j, e)
    BY <2>1, <2>2 DEF Posting, IsFinancial
  <2>4. QED
    BY <2>3 DEF CallInv
<1>4. CASE \E j, r \in Journal : Reversing(call, s, j, r)
  <2>1. PICK j \in Journal, r \in Journal : Reversing(call, s, j, r)
    BY <1>4
  <2>2. /\ Original(call, s, j) => Original(call, t, j)
        /\ Exists(s[j]) /\ IsReversal(s, r, j) => IsReversal(t, r, j)
        /\ Exists(s[j]) => Exists(t[j])
    BY GrowsKeeps DEF Grows
  <2>3. Exists(s[j])
    BY <2>1 DEF Reversing
  <2>4. Reversing(call, t, j, r)
    BY <2>1, <2>2, <2>3 DEF Reversing, HalfReversed, ToReverse
  <2>5. QED
    BY <2>4 DEF CallInv
<1>5. QED
  BY <1>1, <1>2, <1>3, <1>4 DEF CallInv

\* Calls that wait to announce something of p wait for the same.
SameWaiting(call, then, p) ==
  /\ Waiting(then, p) <=> Waiting(call, p)
  /\ Waiting(call, p) => then.news[p] = call.news[p]

LEMMA PaymentKept ==
  ASSUME NEW s, NEW t, NEW l, NEW w, NEW v, NEW rc, NEW rd, NEW p \in Payment,
         PaymentOK(s, l, w, rc, p), t[p] = s[p], rc \subseteq rd,
         \A c \in Call : SameWaiting(w[c], v[c], p)
  PROVE  PaymentOK(t, l, v, rd, p)
<1>1. ASSUME NEW term \in Terms
      PROVE  Announced(l, v, p, term) = Announced(l, w, p, term)
  <2>1. \A c \in Call : CallsSay(w, p, term)[c] = CallsSay(v, p, term)[c]
    BY DEF CallsSay, SameWaiting
  <2>2. SumOver(CallsSay(w, p, term), Call) = SumOver(CallsSay(v, p, term), Call)
    BY <2>1, FinanceAssumption, SumSame DEF Agree
  <2>3. QED
    BY <2>2 DEF Announced
<1>2. QED
  BY <1>1 DEF PaymentOK

LEMMA NotDrawn ==
  ASSUME NEW k \in Journal
  PROVE  \A p \in Payment : \A call : Paying(call, p) => ~Draws(call, k)
BY FinanceKeys DEF Paying, Announces, Draws

\* A journal that no call is about to post, and that has raced or not.
LEMMA JournalKept ==
  ASSUME NEW s, NEW t, NEW l, NEW m, NEW rc, NEW rd, Grows(s, t), Extends(l, m), rc \subseteq rd,
         NEW j \in Journal, Exists(s[j]), JournalOK(s, l, rc, j), t[j] = s[j],
         s[j].source \in SourceEvent /\ Source(s[j].source) \notin rd =>
           t[Source(s[j].source)] = s[Source(s[j].source)]
  PROVE  JournalOK(t, m, rd, j)
<1>1. /\ s[j] \in JournalRecord /\ PostedOK(s, l, rc, j)
      /\ s[j].reverses \in Journal => Exists(s[s[j].reverses]) /\ IsReversal(s, j, s[j].reverses)
      /\ s[j].status = "reversed" =>
           s[j].reversedBy \in Journal /\ IsReversal(s, s[j].reversedBy, j)
  BY DEF JournalOK
<1>2. PostedOK(t, m, rd, j)
  <2>1. SUFFICES ASSUME s[j].source \in SourceEvent
                 PROVE  PostedOK(t, m, rd, j)
    BY DEF PostedOK
  <2>2. IsFinancial(l, s[j].source) /\ s[j].lines = LinesFor(l[s[j].source])
    BY <1>1, <2>1 DEF PostedOK
  <2>3. IsFinancial(m, s[j].source) /\ m[s[j].source] = l[s[j].source]
    BY <2>2 DEF IsFinancial, Extends
  <2>4. Source(s[j].source) \notin rd => t[Source(s[j].source)] = j
    BY <1>1, <2>1 DEF PostedOK
  <2>5. QED
    BY <2>2, <2>3, <2>4 DEF PostedOK
<1>3. s[j].reverses \in Journal => Exists(t[s[j].reverses]) /\ IsReversal(t, j, s[j].reverses)
  BY <1>1, GrowsKeeps DEF Grows
<1>4. s[j].status = "reversed" => s[j].reversedBy \in Journal /\ IsReversal(t, s[j].reversedBy, j)
  BY <1>1, GrowsKeeps
<1>5. QED
  BY <1>1, <1>2, <1>3, <1>4 DEF JournalOK

LEMMA SourceKept ==
  ASSUME NEW s, NEW t, Grows(s, t), NEW e \in SourceEvent, SourceOK(s, e),
         t[Source(e)] = s[Source(e)]
  PROVE  SourceOK(t, e)
<1>1. PICK j : j = s[Source(e)]
  OBVIOUS
<1>2. Exists(j) => j \in Journal /\ Exists(s[j]) /\ s[j].source = e
  BY <1>1 DEF SourceOK
<1>3. Exists(j) => Exists(t[j]) /\ t[j].source = e
  BY <1>2 DEF Grows, SameEntry
<1>4. QED
  BY <1>1, <1>2, <1>3 DEF SourceOK

\* Other calls that are half way stay so.
LEMMA ReversalKept ==
  ASSUME NEW s, NEW t, Grows(s, t), NEW w, NEW v, NEW c \in Call,
         \A d \in Call \ {c} : v[d] = w[d],
         NEW j \in Journal, NEW r \in Journal, ~HalfReversed(w[c], s, j, r),
         ReversalOK(s, w, j, r), t[j] = s[j]
  PROVE  ReversalOK(t, v, j, r)
<1>1. CASE s[j].status = "reversed" /\ s[j].reversedBy = r
  BY <1>1 DEF ReversalOK
<1>2. CASE \E d \in Call : Reversing(w[d], s, j, r) /\ HalfReversed(w[d], s, j, r)
  <2>1. PICK d \in Call : Reversing(w[d], s, j, r) /\ HalfReversed(w[d], s, j, r)
    BY <1>2
  <2>2. v[d] = w[d]
    BY <2>1
  <2>3. Exists(t[j]) /\ HalfReversed(w[d], t, j, r)
    BY <2>1, GrowsKeeps DEF HalfReversed, Original, Grows
  <2>4. Reversing(w[d], t, j, r)
    BY <2>1, <2>3 DEF Reversing
  <2>5. QED
    BY <2>2, <2>3, <2>4 DEF ReversalOK
<1>3. QED
  BY <1>1, <1>2 DEF ReversalOK

LEMMA DrawsKept ==
  ASSUME NEW s, NEW t, NEW w, NEW v, NEW c \in Call, \A d \in Call \ {c} : v[d] = w[d],
         \A d \in Call : \A k \in Journal : DrawOK(w, s, d, k),
         \A k \in Journal : Exists(t[k]) => Exists(s[k]) \/ Draws(w[c], k),
         \A k \in Journal : Draws(v[c], k) =>
           /\ Draws(w[c], k) \/ (~Exists(s[k]) /\ \A d \in Call : ~Draws(w[d], k))
           /\ v[c].writes # <<>> /\ k \in DOMAIN v[c].writes[1] => ~Exists(t[k])
  PROVE  \A d \in Call : \A k \in Journal : DrawOK(v, t, d, k)
<1>1. ASSUME NEW d \in Call, NEW k \in Journal, Draws(v[d], k) PROVE DrawOK(v, t, d, k)
  <2>1. CASE d = c
    <3>1. \A e \in Call \ {c} : ~Draws(v[e], k)
      BY <1>1, <2>1 DEF DrawOK
    <3>2. QED
      BY <1>1, <2>1, <3>1 DEF DrawOK
  <2>2. CASE d # c
    <3>1. Draws(w[d], k) /\ DrawOK(w, s, d, k) /\ v[d] = w[d]
      BY <1>1, <2>2
    <3>2. ~Draws(w[c], k) /\ ~Draws(v[c], k)
      BY <2>2, <3>1 DEF DrawOK
    <3>3. \A e \in Call \ {d} : ~Draws(v[e], k)
      BY <3>1, <3>2 DEF DrawOK
    <3>4. v[d].writes # <<>> /\ k \in DOMAIN v[d].writes[1] => ~Exists(t[k])
      BY <3>1, <3>2 DEF DrawOK
    <3>5. QED
      BY <3>3, <3>4 DEF DrawOK
  <2>3. QED
    BY <2>1, <2>2
<1>2. QED
  BY <1>1 DEF DrawOK

LEMMA AnnouncingIs ==
  /\ Announcing = {c \in Call : DOMAIN work[c].news \intersect Payment # {}}
  /\ Announcing' = {c \in Call : DOMAIN work'[c].news \intersect Payment # {}}
<1>1. DOMAIN Idle.news = {}
  BY DEF Idle
<1>2. \A c \in Call : work[c] = Idle => DOMAIN work[c].news \intersect Payment = {}
  BY <1>1
<1>3. \A c \in Call : work'[c] = Idle => DOMAIN work'[c].news \intersect Payment = {}
  BY <1>1
<1>4. QED
  BY <1>2, <1>3 DEF Announcing, IsIdle

\* A call that has room may announce one event more.
LEMMA RoomKept ==
  ASSUME FinanceTypeOK, NEW c \in Call, OthersStay(c), log' = log,
         DOMAIN work'[c].news \intersect Payment # {} =>
           Room \/ DOMAIN work[c].news \intersect Payment # {}
  PROVE  FinanceTypeOK'
<1>1. IsFiniteSet(Announcing) /\ Cardinality(Announcing) \in Nat /\ Len(log) \in Nat
  BY Places
<1>2. Announcing' \subseteq Announcing \union {c}
  BY AnnouncingIs DEF OthersStay
<1>3. Cardinality(Announcing \union {c}) <= Cardinality(Announcing) + 1
      /\ IsFiniteSet(Announcing \union {c})
  <2>1. PICK S : S = Announcing
    OBVIOUS
  <2>2. /\ IsFiniteSet(S \union {c})
        /\ Cardinality(S \union {c}) = IF c \in S THEN Cardinality(S) ELSE Cardinality(S) + 1
    BY <1>1, <2>1, FS_AddElement
  <2>3. QED
    BY <1>1, <2>1, <2>2
<1>4. Cardinality(Announcing') <= Cardinality(Announcing) + 1 /\ Cardinality(Announcing') \in Nat
  BY <1>1, <1>2, <1>3, FS_Subset, FS_CardinalityType
<1>5. CASE Room
  <2>1. Len(log) + Cardinality(Announcing) < MaxEvents
    BY <1>5 DEF Room
  <2>2. Len(log) + Cardinality(Announcing') <= MaxEvents
    BY <1>1, <1>4, <2>1, PaymentsAssumption
  <2>3. QED
    BY <2>2 DEF FinanceTypeOK
<1>6. CASE DOMAIN work'[c].news \intersect Payment # {} => DOMAIN work[c].news \intersect Payment # {}
  <2>1. Announcing' \subseteq Announcing
    BY <1>6, AnnouncingIs DEF OthersStay
  <2>2. Cardinality(Announcing') <= Cardinality(Announcing)
    BY <1>1, <2>1, FS_Subset
  <2>3. Len(log) + Cardinality(Announcing') <= MaxEvents
    BY <1>1, <1>4, <2>2, PaymentsAssumption DEF FinanceTypeOK
  <2>4. QED
    BY <2>3 DEF FinanceTypeOK
<1>7. QED
  BY <1>5, <1>6

LEMMA StartOf ==
  ASSUME CallsOK, NEW c \in Call, IsIdle(c) \/ work[c].todo # <<>>
  PROVE  work[c].writes = <<>> /\ work[c].news = <<>>
BY IdleCall DEF CallsOK, IsCall, IsIdle

LEMMA NotAboutPayments ==
  ASSUME NEW call, call.news = <<>> \/ call.writes # <<>>
  PROVE  \A p \in Payment : ~Waiting(call, p)
BY DEF Waiting

\* A call that begins, reads on, stages or gives up.
Quiet(c) ==
  /\ CallsOK' /\ OthersStay(c) /\ store' = store /\ raced' = raced /\ log' = log
  /\ work[c].writes = <<>> /\ work[c].news = <<>>
  /\ CallInv(work'[c], store, log)
  /\ work'[c].news = <<>> \/ work'[c].writes # <<>>

LEMMA FreshDraw ==
  ASSUME NEW k \in Fresh(Journal)
  PROVE  k \in Journal /\ ~Exists(store[k]) /\ \A d \in Call : ~Draws(work[d], k)
BY DEF Fresh, Draws

LEMMA QuietKeeps ==
  ASSUME FinanceInv, NEW c \in Call, Quiet(c),
         \A k \in Journal : Draws(work'[c], k) => k \in Fresh(Journal),
         DOMAIN work'[c].news \intersect Payment # {} => Room
  PROVE  FinanceInv'
<1>1. CallsOK' /\ FinanceTypeOK'
  BY RoomKept DEF FinanceInv, Quiet
<1>2. Grows(store, store') /\ Extends(log, log') /\ SameJournals(store, store')
  BY DEF Grows, Extends, SameEntry, Quiet, SameJournals
<1>3. ASSUME NEW d \in Call PROVE CallInv(work'[d], store', log')
  <2>1. CASE d = c
    BY <2>1 DEF Quiet
  <2>2. CASE d # c
    BY <2>2 DEF Quiet, OthersStay, FinanceInv
  <2>3. QED
    BY <2>1, <2>2
<1>4. DrawsInv'
  <2>1. \A d \in Call : \A k \in Journal : DrawOK(work, store, d, k)
    BY DEF FinanceInv, DrawsInv
  <2>2. \A k \in Journal : Draws(work'[c], k) => ~Exists(store[k]) /\ \A d \in Call : ~Draws(work[d], k)
    BY FreshDraw
  <2>3. \A d \in Call \ {c} : work'[d] = work[d]
    BY DEF Quiet, OthersStay
  <2>4. \A d \in Call : \A k \in Journal : DrawOK(work', store, d, k)
    BY <2>1, <2>2, <2>3, DrawsKept
  <2>5. QED
    BY <2>4 DEF DrawsInv, Quiet
<1>5. PaymentInv'
  <2>1. \A p \in Payment : ~Waiting(work[c], p) /\ ~Waiting(work'[c], p)
    BY NotAboutPayments DEF Quiet
  <2>2. \A p \in Payment : \A d \in Call : SameWaiting(work[d], work'[d], p)
    BY <2>1 DEF SameWaiting, Quiet, OthersStay
  <2>3. ASSUME NEW p \in Payment PROVE PaymentOK(store', log, work', raced', p)
    BY <2>2, PaymentKept DEF Quiet, FinanceInv, PaymentInv
  <2>4. QED
    BY <2>3 DEF PaymentInv, Quiet
<1>6. JournalInv'
  <2>1. \A j, r \in Journal : ~HalfReversed(work[c], store, j, r)
    BY DEF Quiet, HalfReversed
  <2>2. \A d \in Call \ {c} : work'[d] = work[d]
    BY DEF Quiet, OthersStay
  <2>3. ASSUME NEW j \in Journal \ raced, NEW r \in Journal, Exists(store[r]), store[r].reverses = j
        PROVE  ReversalOK(store, work', j, r)
    <3>1. ReversalOK(store, work, j, r)
      BY <2>3 DEF FinanceInv, JournalInv
    <3>2. QED
      BY <1>2, <2>1, <2>2, <3>1, ReversalKept DEF Quiet
  <2>4. QED
    BY <2>3 DEF JournalInv, Quiet, FinanceInv
<1>7. QED
  BY <1>1, <1>3, <1>4, <1>5, <1>6 DEF FinanceInv

-----------------------------------------------------------------------------
(***************************************************************************)
(* Steps that save nothing.                                                *)
(***************************************************************************)
\* An idle call that reads the keys of one set and stages at once.
LEMMA StagedAtOnce ==
  ASSUME FinanceInv, NEW c \in Call, IsIdle(c), NEW keys, NEW writes, NEW news,
         writes # <<>>, log' = log, Stage(c, << keys >>, writes, news),
         work'[c].todo = <<>> /\ work'[c].writes = writes /\ work'[c].news = news /\
         (\A k \in keys : k \in DOMAIN work'[c].seen /\ work'[c].seen[k] = store[k])
           => CallInv(work'[c], store, log)
  PROVE  Quiet(c) /\ work'[c].news = news
<1>1. CallsOK /\ work[c].writes = <<>> /\ work[c].news = <<>>
  BY StartOf DEF FinanceInv
<1>2. PICK reads : reads = << keys >>
  OBVIOUS
<1>3. /\ CallsOK' /\ OthersStay(c) /\ store' = store /\ raced' = raced
      /\ work'[c].todo = <<>> /\ work'[c].seen = Saw(c, reads)
      /\ work'[c].writes = writes /\ work'[c].news = news
  BY <1>1, <1>2, StageEffect
<1>4. \A k \in keys : k \in DOMAIN Saw(c, reads) /\ Saw(c, reads)[k] = store[k]
  <2>1. reads[Len(reads)] = keys
    BY <1>2
  <2>2. QED
    BY <2>1, SawLast
<1>5. QED
  BY <1>1, <1>3, <1>4 DEF Quiet

LEMMA StagePayment ==
  ASSUME FinanceInv, NEW c \in Call, IsIdle(c), log' = log, Room, NEW p \in Payment,
         NEW next, NEW news, Moves(store[p], next, news, p),
         Stage(c, << {p} >>, << p :> next >>, news)
  PROVE  FinanceInv'
<1>1. PICK writes : writes = << p :> next >>
  OBVIOUS
<1>2. writes # <<>> /\ writes[1] = p :> next
  BY <1>1
<1>3. ASSUME work'[c].todo = <<>>, work'[c].writes = writes, work'[c].news = news,
             \A k \in {p} : k \in DOMAIN work'[c].seen /\ work'[c].seen[k] = store[k]
      PROVE  CallInv(work'[c], store, log)
  <2>1. (p :> next)[p] = next
    BY OneKey
  <2>2. SavesPayment(work'[c], p)
    BY <1>1, <1>2, <1>3, <2>1 DEF SavesPayment
  <2>3. Paying(work'[c], p)
    BY <1>3, <2>2, MoveIsGood DEF Paying
  <2>4. QED
    BY <2>3 DEF CallInv
<1>4. Quiet(c) /\ work'[c].news = news
  BY <1>1, <1>2, <1>3, StagedAtOnce
<1>5. \A k \in Journal : ~Draws(work'[c], k)
  BY <1>4, MoveIsGood, FinanceKeys DEF Announces, Draws
<1>6. QED
  BY <1>4, <1>5, QuietKeeps

LEMMA CreatePaymentKeeps ==
  ASSUME FinanceInv, NEW c \in Call, log' = log, Room, CreatePayment(c)
  PROVE  FinanceInv'
<1>1. PICK p \in Fresh(Payment), o \in DOMAIN OrderStatus, amount \in Amounts :
        /\ IsIdle(c)
        /\ Stage(c, << {p} >>,
                 << p :> [order |-> o, status |-> "pending", amount |-> amount, refunded |-> 0] >>,
                 PaymentEvent("created", p,
                              [order |-> o, status |-> "pending", amount |-> amount, refunded |-> 0], 0))
  BY DEF CreatePayment
<1>2. PICK payment :
        payment = [order |-> o, status |-> "pending", amount |-> amount, refunded |-> 0]
  OBVIOUS
<1>3. PICK news : news = PaymentEvent("created", p, payment, 0)
  OBVIOUS
<1>4. p \in Payment /\ store[p] = NoRecord
  BY DEF Fresh, Exists
<1>5. GoodPayment(payment) /\ payment.status = "pending" /\ payment.refunded = 0
  BY <1>2, PaymentsAssumption DEF GoodPayment, PaymentRecord
<1>6. Moves(store[p], payment, news, p)
  BY <1>3, <1>4, <1>5 DEF Moves, Creates
<1>7. Stage(c, << {p} >>, << p :> payment >>, news)
  BY <1>1, <1>2, <1>3
<1>8. QED
  BY <1>1, <1>4, <1>6, <1>7, StagePayment

LEMMA TransitionKeeps ==
  ASSUME FinanceInv, NEW c \in Call, log' = log, Room,
         NEW to \in {"authorized", "captured", "voided", "failed"}, Transition(c, to)
  PROVE  FinanceInv'
<1>1. PICK p \in Payment :
        /\ IsIdle(c) /\ Exists(store[p]) /\ CanTransition(store[p].status, to)
        /\ Stage(c, << {p} >>, << p :> [store[p] EXCEPT !.status = to] >>,
                 IF to = "failed" THEN <<>>
                 ELSE PaymentEvent(to, p, [store[p] EXCEPT !.status = to], 0))
  BY DEF Transition
<1>2. PICK next : next = [store[p] EXCEPT !.status = to]
  OBVIOUS
<1>3. PICK news : news = IF to = "failed" THEN <<>> ELSE PaymentEvent(to, p, next, 0)
  OBVIOUS
<1>4. GoodPayment(store[p])
  BY <1>1 DEF FinanceInv, PaymentInv, PaymentOK
<1>5. Moves(store[p], next, news, p)
  BY <1>1, <1>2, <1>3, <1>4 DEF Moves, MovesOn
<1>6. Stage(c, << {p} >>, << p :> next >>, news)
  BY <1>1, <1>2, <1>3
<1>7. QED
  BY <1>1, <1>5, <1>6, StagePayment

LEMMA RefundPaymentKeeps ==
  ASSUME FinanceInv, NEW c \in Call, log' = log, Room, RefundPayment(c)
  PROVE  FinanceInv'
<1>1. PICK p \in Payment, part \in Amounts :
        /\ IsIdle(c) /\ Exists(store[p]) /\ store[p].status \in {"captured", "partially_refunded"}
        /\ store[p].refunded + part <= store[p].amount
        /\ Stage(c, << {p} >>,
                 << p :> [store[p] EXCEPT !.status = RefundStatus(store[p], part),
                                          !.refunded = @ + part] >>,
                 PaymentEvent("refunded", p,
                              [store[p] EXCEPT !.status = RefundStatus(store[p], part),
                                               !.refunded = @ + part], part))
  BY DEF RefundPayment
<1>2. PICK next : next = [store[p] EXCEPT !.status = RefundStatus(store[p], part),
                                          !.refunded = @ + part]
  OBVIOUS
<1>3. PICK news : news = PaymentEvent("refunded", p, next, part)
  OBVIOUS
<1>4. GoodPayment(store[p])
  BY <1>1 DEF FinanceInv, PaymentInv, PaymentOK
<1>5. part \in 1 .. store[p].amount
  <2>1. store[p].amount \in Nat /\ store[p].refunded \in Nat
    BY <1>4 DEF GoodPayment, PaymentRecord
  <2>2. QED
    BY <1>1, <2>1, PaymentsAssumption
<1>6. Moves(store[p], next, news, p)
  BY <1>1, <1>2, <1>3, <1>4, <1>5 DEF Moves, Refunds
<1>7. Stage(c, << {p} >>, << p :> next >>, news)
  BY <1>1, <1>2, <1>3
<1>8. QED
  BY <1>1, <1>6, <1>7, StagePayment

LEMMA PaymentsStepKeeps ==
  ASSUME FinanceInv, NEW c \in Call, log' = log, Room, PaymentsStep(c)
  PROVE  FinanceInv'
BY CreatePaymentKeeps, TransitionKeeps, RefundPaymentKeeps
   DEF PaymentsStep, AuthorizePayment, CapturePayment, VoidPayment, FailPayment

LEMMA PostJournalKeeps ==
  ASSUME FinanceInv, NEW c \in Call, log' = log, NEW e \in DOMAIN log, PostJournal(c, e, log[e])
  PROVE  FinanceInv'
<1>1. PICK j \in Journal :
        /\ IsIdle(c) /\ log[e].type \in {"captured", "refunded"} /\ ~Exists(store[Source(e)])
        /\ j \in Fresh(Journal)
        /\ Stage(c, << {Source(e)} >>, << (j :> Entry(log[e], e)) @@ (Source(e) :> j) >>,
                 j :> "posted")
  BY DEF PostJournal, Entry
<1>2. PICK writes : writes = << (j :> Entry(log[e], e)) @@ (Source(e) :> j) >>
  OBVIOUS
<1>3. PICK news : news = j :> "posted"
  OBVIOUS
<1>4. writes # <<>>
  BY <1>2
<1>5. e \in SourceEvent
  BY Places DEF FinanceInv
<1>6. ASSUME work'[c].todo = <<>>, work'[c].writes = writes, work'[c].news = news,
             \A k \in {Source(e)} : k \in DOMAIN work'[c].seen /\ work'[c].seen[k] = store[k]
      PROVE  CallInv(work'[c], store, log)
  <2>1. Posting(work'[c], log, j, e)
    BY <1>1, <1>2, <1>3, <1>6 DEF Posting, IsFinancial, Exists
  <2>2. QED
    BY <1>5, <2>1 DEF CallInv
<1>7. Quiet(c) /\ work'[c].news = news
  BY <1>1, <1>2, <1>3, <1>4, <1>6, StagedAtOnce
<1>8. DOMAIN news = {j} /\ j \notin Payment
  BY <1>3, OneKey, FinanceKeys
<1>9. QED
  BY <1>1, <1>7, <1>8, QuietKeeps DEF Draws

LEMMA GiveUpKeeps ==
  ASSUME FinanceInv, NEW c \in Call, log' = log, GiveUp(c)
  PROVE  FinanceInv'
<1>1. CallsOK /\ CallInv(Idle, store, log)
  BY DEF FinanceInv, CallInv, Starting
<1>2. Quiet(c) /\ work'[c].news = <<>>
  BY <1>1, GiveUpEffect, IdleCall DEF Quiet
<1>3. \A k \in Journal : ~Draws(work'[c], k)
  BY <1>2 DEF Draws
<1>4. QED
  BY <1>2, <1>3, QuietKeeps

\* The answer a reversal starts from.
LEMMA ReadJournalKeeps ==
  ASSUME FinanceInv, NEW c \in Call, log' = log, NEW j \in Journal,
         Exists(store[j]), store[j].status = "posted",
         Read(c, <<"reverseJournal", j>>, << {j}, {} >>)
  PROVE  FinanceInv'
<1>1. PICK op, reads : op = <<"reverseJournal", j>> /\ reads = << {j}, {} >>
  OBVIOUS
<1>2. reads \in Seq(SUBSET Key) /\ Tail(reads) = << {} >> /\ reads[1] = {j} /\ Read(c, op, reads)
  BY <1>1, FinanceKeys
<1>3. CallsOK /\ CallInv(work[c], store, log)
  BY DEF FinanceInv
<1>4. /\ CallsOK' /\ OthersStay(c) /\ store' = store /\ raced' = raced
      /\ work'[c].op = op /\ work'[c].todo # <<>> /\ work'[c].writes = <<>> /\ work'[c].news = <<>>
  BY <1>2, <1>3, ReadEffect
<1>5. IsIdle(c) /\ work'[c].todo = Tail(reads) /\ work'[c].seen = Answers(reads[1])
  <2>1. \/ IsIdle(c) /\ work'[c].todo = Tail(reads) /\ work'[c].seen = Answers(reads[1])
        \/ Len(work[c].todo) > 1
    BY <1>2, <1>3, ReadAnswers
  <2>2. ~ Len(work[c].todo) > 1
    <3>1. work[c].todo = <<>> \/ Len(work[c].todo) = 1
      BY <1>3, IdleCall DEF CallInv, Starting, Paying, Posting, Reversing
    <3>2. PICK n : n = Len(work[c].todo)
      OBVIOUS
    <3>3. Len(<<>>) = 0
      OBVIOUS
    <3>4. n = 0 \/ n = 1
      BY <3>1, <3>2, <3>3, Zenon
    <3>5. ~ n > 1
      BY <3>4
    <3>6. QED
      BY <3>2, <3>5, Zenon
  <2>3. QED
    BY <2>1, <2>2
<1>6. Original(work'[c], store, j)
  <2>1. store[j] \in JournalRecord
    BY DEF FinanceInv, JournalInv, JournalOK
  <2>2. QED
    BY <1>2, <1>5, <2>1 DEF Original, Answers, SameEntry
<1>7. CallInv(work'[c], store, log)
  BY <1>1, <1>2, <1>4, <1>5, <1>6 DEF CallInv, Starting
<1>8. Quiet(c)
  BY <1>3, <1>4, <1>5, <1>7, StartOf DEF Quiet
<1>9. \A k \in Journal : ~Draws(work'[c], k)
  BY <1>4 DEF Draws
<1>10. QED
  BY <1>4, <1>8, <1>9, QuietKeeps

LEMMA StageReversalKeeps ==
  ASSUME FinanceInv, NEW c \in Call, log' = log, NEW j \in Journal, NEW r \in Fresh(Journal),
         LastRead(c, <<"reverseJournal", j>>, << {j}, {} >>), store[j].status = "posted",
         Stage(c, << {j}, {} >>,
               << r :> Reversal(Saw(c, << {j}, {} >>)[j], j, r),
                  j :> Reversed(Saw(c, << {j}, {} >>)[j], r) >>,
               (r :> "posted") @@ (j :> "reversed"))
  PROVE  FinanceInv'
<1>1. PICK op, reads : op = <<"reverseJournal", j>> /\ reads = << {j}, {} >>
  OBVIOUS
<1>2. Len(reads) # 1 /\ LastRead(c, op, reads) /\ reads[Len(reads)] = {}
  BY <1>1
<1>3. CallsOK /\ CallInv(work[c], store, log)
  BY DEF FinanceInv
<1>4. /\ work[c].op = op /\ work[c].todo # <<>> /\ work[c].writes = <<>> /\ work[c].news = <<>>
  BY <1>2, <1>3, AtLast
<1>5. Original(work[c], store, j)
  <2>1. Starting(work[c], store) /\ work[c] # Idle
    BY <1>3, <1>4, IdleCall DEF CallInv, Paying, Posting, Reversing
  <2>2. PICK k \in Journal : work[c].op = <<"reverseJournal", k>> /\ Original(work[c], store, k)
    BY <2>1 DEF Starting
  <2>3. k = j
    BY <1>1, <1>4, <2>2
  <2>4. QED
    BY <2>2, <2>3
<1>6. j \in DOMAIN Saw(c, reads) /\ Saw(c, reads)[j] = work[c].seen[j]
  BY <1>2, <1>5 DEF Saw, Answers, @@, Original
<1>7. PICK writes : writes = << r :> Reversal(Saw(c, reads)[j], j, r),
                                j :> Reversed(Saw(c, reads)[j], r) >>
  OBVIOUS
<1>8. PICK news : news = (r :> "posted") @@ (j :> "reversed")
  OBVIOUS
<1>9. Stage(c, reads, writes, news)
  BY <1>1, <1>7, <1>8
<1>10. /\ CallsOK' /\ OthersStay(c) /\ store' = store /\ raced' = raced
       /\ work'[c].todo = <<>> /\ work'[c].seen = Saw(c, reads)
       /\ work'[c].writes = writes /\ work'[c].news = news
  BY <1>3, <1>9, StageEffect
<1>11. Exists(store[j]) /\ r \in Journal /\ r # j
  BY <1>5 DEF Original, Fresh
<1>12. ToReverse(work'[c], store, j, r)
  <2>1. Original(work'[c], store, j)
    BY <1>5, <1>6, <1>10 DEF Original
  <2>2. QED
    BY <1>7, <1>10, <2>1 DEF ToReverse
<1>13. CallInv(work'[c], store, log)
  <2>1. Reversing(work'[c], store, j, r)
    BY <1>8, <1>10, <1>11, <1>12 DEF Reversing
  <2>2. QED
    BY <1>11, <2>1 DEF CallInv
<1>14. writes # <<>>
  BY <1>7
<1>15. Quiet(c)
  BY <1>4, <1>10, <1>13, <1>14 DEF Quiet
<1>16. DOMAIN news = {r, j} /\ news[r] = "posted" /\ news[j] = "reversed"
  <2>1. news = (r :> "posted") @@ (j :> "reversed") /\ r # j
    BY <1>8, <1>11
  <2>2. QED
    BY <2>1 DEF :>, @@
<1>17. QED
  BY <1>10, <1>11, <1>15, <1>16, FinanceKeys, QuietKeeps DEF Draws

LEMMA ReverseJournalKeeps ==
  ASSUME FinanceInv, NEW c \in Call, log' = log, ReverseJournal(c)
  PROVE  FinanceInv'
<1>1. PICK j \in Journal, r \in Journal :
        \/ /\ Exists(store[j]) /\ store[j].status = "posted"
           /\ Read(c, <<"reverseJournal", j>>, << {j}, {} >>)
        \/ /\ LastRead(c, <<"reverseJournal", j>>, << {j}, {} >>)
           /\ r \in Fresh(Journal) /\ store[j].status = "posted"
           /\ Stage(c, << {j}, {} >>,
                    << r :> Reversal(Saw(c, << {j}, {} >>)[j], j, r),
                       j :> Reversed(Saw(c, << {j}, {} >>)[j], r) >>,
                    (r :> "posted") @@ (j :> "reversed"))
  BY DEF ReverseJournal, Reversal, Reversed
<1>2. QED
  BY <1>1, ReadJournalKeeps, StageReversalKeeps

-----------------------------------------------------------------------------
(***************************************************************************)
(* Steps that save or announce something of a payment.                     *)
(***************************************************************************)
LEMMA NewsOfCall ==
  ASSUME NEW s, NEW l, NEW call, CallInv(call, s, l), NEW p \in Payment, p \in DOMAIN call.news
  PROVE  Paying(call, p) /\ call.news[p] \in PaymentEvents /\ call.news[p].payment = p
         /\ DOMAIN call.news = {p}
<1>1. CASE Starting(call, s)
  BY <1>1, IdleCall DEF Starting
<1>2. CASE \E q \in Payment : Paying(call, q)
  BY <1>2 DEF Paying, Announces
<1>3. CASE \E j \in Journal : \E e \in SourceEvent : Posting(call, l, j, e)
  BY <1>3, FinanceKeys DEF Posting, :>
<1>4. CASE \E j, r \in Journal : Reversing(call, s, j, r)
  <2>1. PICK j \in Journal, r \in Journal : Reversing(call, s, j, r)
    BY <1>4
  <2>2. call.news = (r :> "posted") @@ (j :> "reversed")
    BY <2>1 DEF Reversing
  <2>3. DOMAIN call.news = {r, j}
    BY <2>2 DEF :>, @@
  <2>4. QED
    BY <2>3, FinanceKeys
<1>5. QED
  BY <1>1, <1>2, <1>3, <1>4 DEF CallInv

LEMMA AnnouncedIsInt ==
  ASSUME FinanceTypeOK, \A c \in Call : CallInv(work[c], store, log), NEW p \in Payment,
         NEW term \in Terms
  PROVE  /\ IntOn(LogSays(log, p, term), DOMAIN log) /\ IntOn(CallsSay(work, p, term), Call)
         /\ SumOver(LogSays(log, p, term), DOMAIN log) \in Int
         /\ SumOver(CallsSay(work, p, term), Call) \in Int
<1>1. IntOn(LogSays(log, p, term), DOMAIN log)
  <2>1. \A i \in DOMAIN log : log[i] \in PaymentEvents
    BY Places
  <2>2. \A i \in DOMAIN log : Said(log[i])[term] \in Int
    BY <2>1, TermsAre
  <2>3. QED
    BY <2>2 DEF LogSays, IntOn
<1>2. IntOn(CallsSay(work, p, term), Call)
  <2>1. \A c \in Call : Waiting(work[c], p) => work[c].news[p] \in PaymentEvents
    BY NewsOfCall DEF Waiting
  <2>2. \A c \in Call : Waiting(work[c], p) => Said(work[c].news[p])[term] \in Int
    BY <2>1, TermsAre
  <2>3. QED
    BY <2>2 DEF CallsSay, IntOn
<1>3. IsFiniteSet(DOMAIN log) /\ IsFiniteSet(Call)
  BY Places, FinanceAssumption
<1>4. SumOver(LogSays(log, p, term), DOMAIN log) \in Int
  BY <1>1, <1>3, SumStep
<1>5. SumOver(CallsSay(work, p, term), Call) \in Int
  BY <1>2, <1>3, SumStep
<1>6. QED
  BY <1>1, <1>2, <1>4, <1>5

\* One call comes to wait, or has done with waiting.
LEMMA CallsSayMore ==
  ASSUME FinanceTypeOK, \A c \in Call : CallInv(work[c], store, log), NEW p \in Payment,
         NEW term \in Terms, NEW c \in Call, OthersStay(c), NEW d \in Int,
         CallsSay(work', p, term)[c] = CallsSay(work, p, term)[c] + d
  PROVE  SumOver(CallsSay(work', p, term), Call) = SumOver(CallsSay(work, p, term), Call) + d
<1>1. PICK g, h : g = CallsSay(work, p, term) /\ h = CallsSay(work', p, term)
  OBVIOUS
<1>2. \A e \in Call \ {c} : h[e] = g[e]
  BY <1>1 DEF CallsSay, OthersStay
<1>3. IntOn(g, Call) /\ IsFiniteSet(Call)
  BY <1>1, AnnouncedIsInt, FinanceAssumption
<1>4. h[c] = (IF c \in Call THEN g[c] ELSE 0) + d /\ Agree(g, h, Call \ {c})
  BY <1>1, <1>2 DEF Agree
<1>5. SumOver(h, Call \union {c}) = SumOver(g, Call) + d
  BY <1>3, <1>4, SumBump
<1>6. Call \union {c} = Call
  OBVIOUS
<1>7. QED
  BY <1>1, <1>5, <1>6

LEMMA JournalsKept ==
  ASSUME JournalInv, SameJournals(store, store'), Extends(log, log'), raced \subseteq raced',
         NEW c \in Call, OthersStay(c), \A j, r \in Journal : ~HalfReversed(work[c], store, j, r)
  PROVE  JournalInv'
<1>1. Grows(store, store')
  BY SameGrows
<1>2. /\ \A j \in Journal : store'[j] = store[j]
      /\ \A e \in SourceEvent : store'[Source(e)] = store[Source(e)]
  BY DEF SameJournals
<1>3. ASSUME NEW j \in Journal, Exists(store'[j]) PROVE JournalOK(store', log', raced', j)
  <2>1. Exists(store[j]) /\ JournalOK(store, log, raced, j)
    BY <1>2, <1>3 DEF JournalInv
  <2>2. QED
    BY <1>1, <1>2, <2>1, JournalKept
<1>4. ASSUME NEW e \in SourceEvent PROVE SourceOK(store', e)
  BY <1>1, <1>2, SourceKept DEF JournalInv
<1>5. ASSUME NEW j \in Journal \ raced', NEW r \in Journal, Exists(store'[r]), store'[r].reverses = j
      PROVE  ReversalOK(store', work', j, r)
  <2>1. ReversalOK(store, work, j, r)
    BY <1>2, <1>5 DEF JournalInv
  <2>2. \A d \in Call \ {c} : work'[d] = work[d]
    BY DEF OthersStay
  <2>3. QED
    BY <1>1, <1>2, <2>1, <2>2, ReversalKept
<1>6. QED
  BY <1>3, <1>4, <1>5 DEF JournalInv

\* What calls are about to do stays right.
LEMMA CallsInvKept ==
  ASSUME \A c \in Call : CallInv(work[c], store, log), Grows(store, store'), Extends(log, log'),
         NEW c \in Call, OthersStay(c), CallInv(work'[c], store', log')
  PROVE  \A d \in Call : CallInv(work'[d], store', log')
<1>1. ASSUME NEW d \in Call, d # c PROVE CallInv(work'[d], store', log')
  <2>1. CallInv(work[d], store', log')
    BY CallKept
  <2>2. QED
    BY <1>1, <2>1 DEF OthersStay
<1>2. QED
  BY <1>1

LEMMA SavePaymentKeeps ==
  ASSUME FinanceInv, NEW c \in Call, Save(c), log' = log, NEW p \in Payment, Paying(work[c], p)
  PROVE  FinanceInv'
<1>1. CallsOK
  BY DEF FinanceInv
<1>2. /\ CallsOK' /\ OthersStay(c) /\ work[c].writes # <<>>
      /\ store' = work[c].writes[1] @@ store /\ raced \subseteq raced'
      /\ \A k \in DOMAIN work[c].writes[1] : k \notin raced' =>
           \A s \in DOMAIN work[c].seen : work[c].seen[s] = store[s]
      /\ work'[c].todo = work[c].todo /\ work'[c].news = work[c].news
      /\ work'[c].writes = Tail(work[c].writes)
  BY <1>1, SaveEffect
<1>3. SavesPayment(work[c], p) /\ Announces(work[c].news, p) /\ work[c].todo = <<>>
  BY <1>2 DEF Paying
<1>4. PICK next : /\ work[c].writes = << p :> next >> /\ p \in DOMAIN work[c].seen
                  /\ Moves(work[c].seen[p], next, work[c].news, p)
  BY <1>3 DEF SavesPayment
<1>5. work[c].writes[1] = p :> next /\ work'[c].writes = <<>>
  BY <1>2, <1>4, Tails
<1>6. DOMAIN work[c].writes[1] = {p}
  BY <1>5, OneKey
<1>7. /\ store'[p] = next
      /\ \A k \in Key : k # p => store'[k] = store[k]
  <2>1. store' = (p :> next) @@ store /\ Key \subseteq DOMAIN store
    BY <1>1, <1>2, <1>5 DEF CallsOK
  <2>2. PICK s, t : s = store /\ t = (p :> next) @@ s
    OBVIOUS
  <2>3. /\ t[p] = next
        /\ \A k \in DOMAIN s : k # p => t[k] = s[k]
    BY <2>2 DEF :>, @@
  <2>4. QED
    BY <2>1, <2>2, <2>3
<1>8. SameJournals(store, store') /\ Grows(store, store') /\ Extends(log, log')
  <2>1. SameJournals(store, store')
    BY <1>7, FinanceKeys DEF SameJournals
  <2>2. QED
    BY <2>1, SameGrows DEF Extends
<1>9. GoodPayment(next)
  BY <1>4, MoveIsGood
<1>10. FinanceTypeOK'
  BY <1>2, RoomKept DEF FinanceInv
<1>11. Paying(work'[c], p) /\ CallInv(work'[c], store', log')
  BY <1>2, <1>3, <1>5 DEF Paying, CallInv
<1>12. \A d \in Call : CallInv(work'[d], store', log')
  BY <1>2, <1>8, <1>11, CallsInvKept DEF FinanceInv
<1>13. DrawsInv'
  <2>1. \A k \in Journal : ~Draws(work[c], k) /\ ~Draws(work'[c], k)
    BY <1>11, NotDrawn
  <2>2. \A k \in Journal : store'[k] = store[k]
    BY <1>8 DEF SameJournals
  <2>3. \A d \in Call : \A k \in Journal : DrawOK(work, store, d, k)
    BY DEF FinanceInv, DrawsInv
  <2>4. \A d \in Call \ {c} : work'[d] = work[d]
    BY <1>2 DEF OthersStay
  <2>5. /\ \A k \in Journal : Exists(store'[k]) => Exists(store[k]) \/ Draws(work[c], k)
        /\ \A k \in Journal : Draws(work'[c], k) =>
             /\ Draws(work[c], k) \/ (~Exists(store[k]) /\ \A d \in Call : ~Draws(work[d], k))
             /\ work'[c].writes # <<>> /\ k \in DOMAIN work'[c].writes[1] => ~Exists(store'[k])
    BY <2>1, <2>2
  <2>6. \A d \in Call : \A k \in Journal : DrawOK(work', store', d, k)
    BY <2>3, <2>4, <2>5, DrawsKept
  <2>7. QED
    BY <2>6 DEF DrawsInv
<1>14. ASSUME NEW q \in Payment, q # p PROVE PaymentOK(store', log', work', raced', q)
  <2>1. ~Waiting(work[c], q) /\ ~Waiting(work'[c], q)
    BY <1>2, <1>3, <1>14 DEF Waiting, Announces
  <2>2. \A d \in Call : SameWaiting(work[d], work'[d], q)
    BY <1>2, <2>1 DEF SameWaiting, OthersStay
  <2>3. store'[q] = store[q]
    BY <1>7, <1>14, FinanceKeys
  <2>4. QED
    BY <1>2, <2>2, <2>3, PaymentKept DEF FinanceInv, PaymentInv
<1>15. PaymentOK(store', log', work', raced', p)
  <2>1. SUFFICES ASSUME p \notin raced', NEW term \in Terms
                 PROVE  Announced(log, work', p, term) = Worth(next)[term]
    BY <1>7, <1>9 DEF PaymentOK
  <2>2. work[c].seen[p] = store[p] /\ p \notin raced
    BY <1>2, <1>4, <1>6, <2>1
  <2>3. Announced(log, work, p, term) = Worth(store[p])[term]
    BY <2>2 DEF FinanceInv, PaymentInv, PaymentOK
  <2>4. ~Waiting(work[c], p) /\ CallsSay(work, p, term)[c] = 0
    BY <1>2 DEF Waiting, CallsSay
  <2>5. PICK d \in Int : /\ CallsSay(work', p, term)[c] = d
                         /\ Worth(next)[term] = Worth(store[p])[term] + d
    <3>1. CASE p \in DOMAIN work[c].news
      <4>1. Said(work[c].news[p])[term] \in Int
        BY <1>3, <3>1, TermsAre DEF Announces
      <4>2. Waiting(work'[c], p)
        BY <1>2, <1>5, <3>1 DEF Waiting
      <4>3. CallsSay(work', p, term)[c] = Said(work[c].news[p])[term]
        BY <1>2, <4>2 DEF CallsSay
      <4>4. Worth(next)[term] = Worth(store[p])[term] + Said(work[c].news[p])[term]
        BY <1>4, <2>2, <3>1, MoveAddsUp
      <4>5. QED
        BY <4>1, <4>3, <4>4
    <3>2. CASE p \notin DOMAIN work[c].news
      <4>1. ~Waiting(work'[c], p)
        BY <1>2, <3>2 DEF Waiting
      <4>2. CallsSay(work', p, term)[c] = 0
        BY <4>1 DEF CallsSay
      <4>3. Worth(next)[term] = Worth(store[p])[term]
        BY <1>4, <2>2, <3>2, MoveAddsUp
      <4>4. Worth(next)[term] \in Int
        BY <1>9, TermsAre
      <4>5. QED
        BY <4>2, <4>3, <4>4
    <3>3. QED
      BY <3>1, <3>2
  <2>6. CallsSay(work', p, term)[c] = CallsSay(work, p, term)[c] + d
    BY <2>4, <2>5
  <2>7. SumOver(CallsSay(work', p, term), Call) = SumOver(CallsSay(work, p, term), Call) + d
    BY <1>2, <2>6, CallsSayMore DEF FinanceInv
  <2>8. /\ SumOver(LogSays(log, p, term), DOMAIN log) \in Int
        /\ SumOver(CallsSay(work, p, term), Call) \in Int
    BY AnnouncedIsInt DEF FinanceInv
  <2>9. QED
    BY <2>3, <2>5, <2>7, <2>8 DEF Announced
<1>16. JournalInv'
  <2>1. \A j, r \in Journal : ~HalfReversed(work[c], store, j, r)
    <3>1. \A j, r \in Journal : HalfReversed(work[c], store, j, r) => DOMAIN work[c].writes[1] = {j}
      BY DEF HalfReversed, :>
    <3>2. QED
      BY <1>6, <3>1, FinanceKeys
  <2>2. QED
    BY <1>2, <1>8, <2>1, JournalsKept DEF FinanceInv
<1>17. QED
  BY <1>2, <1>10, <1>12, <1>13, <1>14, <1>15, <1>16 DEF FinanceInv, PaymentInv

\* m is the log l with one event more, at x.
Adds(l, m, x, e) ==
  /\ DOMAIN m = DOMAIN l \union {x} /\ x \notin DOMAIN l /\ m[x] = e
  /\ \A i \in DOMAIN l : m[i] = l[i]

LEMMA LogSaysMore ==
  ASSUME NEW l, NEW m, NEW p, NEW term, NEW x, NEW e, Adds(l, m, x, e), NEW d \in Int,
         d = (IF e.payment = p THEN Said(e)[term] ELSE 0),
         IsFiniteSet(DOMAIN l), IntOn(LogSays(l, p, term), DOMAIN l)
  PROVE  SumOver(LogSays(m, p, term), DOMAIN m) = SumOver(LogSays(l, p, term), DOMAIN l) + d
<1>1. PICK g, h, S : g = LogSays(l, p, term) /\ h = LogSays(m, p, term) /\ S = DOMAIN l
  OBVIOUS
<1>2. DOMAIN m = S \union {x} /\ x \notin S /\ IntOn(g, S) /\ IsFiniteSet(S)
  BY <1>1 DEF Adds
<1>3. Agree(g, h, S)
  <2>1. \A i \in DOMAIN l : g[i] = h[i]
    BY <1>1 DEF LogSays, Adds
  <2>2. QED
    BY <1>1, <2>1 DEF Agree
<1>4. h[x] = d
  BY <1>1 DEF LogSays, Adds
<1>5. SumOver(h, S \union {x}) = SumOver(g, S) + d
  BY <1>2, <1>3, <1>4, SumMore
<1>6. QED
  BY <1>1, <1>2, <1>5

\* The event of a payment joins the log.
LEMMA AnnounceKeeps ==
  ASSUME FinanceInv, NEW c \in Call, Publish(c), NEW p \in Payment, p \in DOMAIN work[c].news,
         log' = Append(log, work[c].news[p])
  PROVE  FinanceTypeOK' /\ PaymentInv' /\ Extends(log, log')
<1>1. /\ OthersStay(c) /\ work'[c] = Idle /\ store' = store /\ raced \subseteq raced'
      /\ work[c].writes = <<>>
  BY PublishEffect DEF FinanceInv
<1>2. /\ DOMAIN log = 1 .. Len(log) /\ Len(log) \in Nat /\ log \in Seq(PaymentEvents)
      /\ IsFiniteSet(Announcing) /\ Cardinality(Announcing) \in Nat
      /\ Len(log) + Cardinality(Announcing) <= MaxEvents
  BY Places DEF FinanceInv, FinanceTypeOK
<1>3. /\ work[c].news[p] \in PaymentEvents /\ work[c].news[p].payment = p
      /\ DOMAIN work[c].news = {p}
  BY NewsOfCall DEF FinanceInv
<1>4. PICK e \in PaymentEvents : e = work[c].news[p]
  BY <1>3
<1>5. log' \in Seq(PaymentEvents) /\ Len(log') = Len(log) + 1 /\ Extends(log, log')
  BY <1>2, <1>4 DEF Extends
<1>6. FinanceTypeOK'
  <2>1. c \in Announcing /\ DOMAIN work'[c].news = {}
    BY <1>1, AnnouncingIs DEF Idle
  <2>2. Announcing' = Announcing \ {c}
    BY <1>1, <2>1, AnnouncingIs DEF OthersStay
  <2>3. PICK S : S = Announcing
    OBVIOUS
  <2>4. IsFiniteSet(S \ {c}) /\ Cardinality(S \ {c}) = Cardinality(S) - 1
    BY <1>2, <2>1, <2>3, FS_RemoveElement
  <2>5. Len(log') + Cardinality(Announcing') <= MaxEvents
    BY <1>2, <1>5, <2>2, <2>3, <2>4, PaymentsAssumption
  <2>6. QED
    BY <1>5, <2>5 DEF FinanceTypeOK
<1>7. \E x : Adds(log, log', x, e)
  <2>1. PICK x : x = Len(log) + 1
    OBVIOUS
  <2>2. Adds(log, log', x, e)
    BY <1>2, <1>4, <2>1 DEF Adds
  <2>3. QED
    BY <2>2
<1>8. ASSUME NEW q \in Payment PROVE PaymentOK(store, log', work', raced', q)
  <2>1. SUFFICES ASSUME q \notin raced', NEW term \in Terms
                 PROVE  Announced(log', work', q, term) = Worth(store[q])[term]
    BY DEF PaymentOK, FinanceInv, PaymentInv
  <2>2. Announced(log, work, q, term) = Worth(store[q])[term]
    BY <1>1, <2>1 DEF FinanceInv, PaymentInv, PaymentOK
  <2>3. PICK d : d = (IF q = p THEN Said(e)[term] ELSE 0)
    OBVIOUS
  <2>4. d \in Int
    BY <2>3, TermsAre
  <2>5. e.payment = p
    BY <1>3, <1>4
  <2>6. SumOver(LogSays(log', q, term), DOMAIN log') = SumOver(LogSays(log, q, term), DOMAIN log) + d
    <3>1. PICK x : Adds(log, log', x, e)
      BY <1>7
    <3>2. d = (IF e.payment = q THEN Said(e)[term] ELSE 0)
      BY <2>3, <2>5
    <3>3. IntOn(LogSays(log, q, term), DOMAIN log) /\ IsFiniteSet(DOMAIN log)
      BY AnnouncedIsInt, Places DEF FinanceInv
    <3>4. PICK l, m : l = log /\ m = log'
      OBVIOUS
    <3>5. /\ Adds(l, m, x, e) /\ IntOn(LogSays(l, q, term), DOMAIN l) /\ IsFiniteSet(DOMAIN l)
          /\ d \in Int
      BY <2>4, <3>1, <3>3, <3>4
    <3>6. SumOver(LogSays(m, q, term), DOMAIN m) = SumOver(LogSays(l, q, term), DOMAIN l) + d
      BY <3>2, <3>5, LogSaysMore
    <3>7. QED
      BY <3>4, <3>6
  <2>7. CallsSay(work, q, term)[c] = d /\ CallsSay(work', q, term)[c] = 0
    BY <1>1, <1>3, <1>4, <2>3 DEF CallsSay, Waiting, Idle
  <2>8. CallsSay(work', q, term)[c] = CallsSay(work, q, term)[c] + (-d) /\ -d \in Int
    BY <2>4, <2>7
  <2>9. SumOver(CallsSay(work', q, term), Call) = SumOver(CallsSay(work, q, term), Call) + (-d)
    BY <1>1, <2>8, CallsSayMore DEF FinanceInv
  <2>10. /\ SumOver(LogSays(log, q, term), DOMAIN log) \in Int
         /\ SumOver(CallsSay(work, q, term), Call) \in Int
    BY AnnouncedIsInt DEF FinanceInv
  <2>11. QED
    BY <2>2, <2>4, <2>6, <2>9, <2>10 DEF Announced
<1>9. QED
  BY <1>1, <1>5, <1>6, <1>8 DEF PaymentInv

LEMMA PublishKeeps ==
  ASSUME FinanceInv, NEW c \in Call, Publish(c), LogNews(c)
  PROVE  FinanceInv'
<1>1. /\ CallsOK' /\ OthersStay(c) /\ work'[c] = Idle /\ store' = store /\ raced \subseteq raced'
      /\ work[c].writes = <<>>
  BY PublishEffect DEF FinanceInv
<1>2. FinanceTypeOK' /\ PaymentInv' /\ Extends(log, log')
  <2>1. CASE c \in Announcing
    <3>1. DOMAIN work[c].news \intersect Payment # {}
      BY <2>1 DEF Announcing
    <3>2. PICK p : p = CHOOSE q \in Payment : q \in DOMAIN work[c].news
      OBVIOUS
    <3>3. p \in Payment /\ p \in DOMAIN work[c].news
      BY <3>1, <3>2
    <3>4. log' = Append(log, work[c].news[p])
      BY <2>1, <3>2 DEF LogNews
    <3>5. QED
      BY <3>3, <3>4, AnnounceKeeps
  <2>2. CASE c \notin Announcing
    <3>1. log' = log /\ DOMAIN work'[c].news = {} /\ DOMAIN work[c].news \intersect Payment = {}
      BY <1>1, <2>2, AnnouncingIs DEF LogNews, Idle
    <3>2. FinanceTypeOK'
      BY <1>1, <3>1, RoomKept DEF FinanceInv
    <3>3. \A p \in Payment : \A d \in Call : SameWaiting(work[d], work'[d], p)
      BY <1>1, <3>1 DEF SameWaiting, OthersStay, Waiting
    <3>4. ASSUME NEW p \in Payment PROVE PaymentOK(store', log', work', raced', p)
      BY <1>1, <3>1, <3>3, PaymentKept DEF FinanceInv, PaymentInv
    <3>5. QED
      BY <3>1, <3>2, <3>4 DEF PaymentInv, Extends
  <2>3. QED
    BY <2>1, <2>2
<1>3. SameJournals(store, store') /\ Grows(store, store')
  BY <1>1, SameGrows DEF SameJournals
<1>4. \A d \in Call : CallInv(work'[d], store', log')
  <2>1. CallInv(work'[c], store', log')
    BY <1>1 DEF CallInv, Starting
  <2>2. QED
    BY <1>1, <1>2, <1>3, <2>1, CallsInvKept DEF FinanceInv
<1>5. DrawsInv'
  <2>1. \A k \in Journal : ~Draws(work'[c], k)
    BY <1>1, IdleCall DEF Draws
  <2>2. \A d \in Call \ {c} : work'[d] = work[d]
    BY <1>1 DEF OthersStay
  <2>3. \A d \in Call : \A k \in Journal : DrawOK(work, store, d, k)
    BY DEF FinanceInv, DrawsInv
  <2>4. /\ \A k \in Journal : Exists(store[k]) => Exists(store[k]) \/ Draws(work[c], k)
        /\ \A k \in Journal : Draws(work'[c], k) =>
             /\ Draws(work[c], k) \/ (~Exists(store[k]) /\ \A d \in Call : ~Draws(work[d], k))
             /\ work'[c].writes # <<>> /\ k \in DOMAIN work'[c].writes[1] => ~Exists(store[k])
    BY <2>1
  <2>5. \A d \in Call : \A k \in Journal : DrawOK(work', store, d, k)
    BY <2>2, <2>3, <2>4, DrawsKept
  <2>6. QED
    BY <1>1, <2>5 DEF DrawsInv
<1>6. JournalInv'
  <2>1. \A j, r \in Journal : ~HalfReversed(work[c], store, j, r)
    BY <1>1 DEF HalfReversed
  <2>2. QED
    BY <1>1, <1>2, <1>3, <2>1, JournalsKept DEF FinanceInv
<1>7. QED
  BY <1>1, <1>2, <1>4, <1>5, <1>6 DEF FinanceInv

-----------------------------------------------------------------------------
(***************************************************************************)
(* Steps that save journals.                                               *)
(***************************************************************************)
LEMMA EntryIsRecord ==
  ASSUME NEW e \in SourceEvent, NEW event \in PaymentEvents
  PROVE  Entry(event, e) \in JournalRecord
<1>1. LinesFor(event) \in Seq(JournalLine)
  <2>1. \A account \in Accounts : \A direction \in {"debit", "credit"} : \A amount \in Nat :
          Line(account, direction, amount) \in JournalLine
    BY DEF Line, JournalLine
  <2>2. event.amount \in Nat /\ event.refund \in Nat
    BY DEF PaymentEvents
  <2>3. PICK a, b \in JournalLine : LinesFor(event) = << a, b >>
    BY <2>1, <2>2 DEF LinesFor, Accounts
  <2>4. QED
    BY <2>3
<1>2. PICK lines \in Seq(JournalLine) : lines = LinesFor(event)
  BY <1>1
<1>3. QED
  BY <1>2 DEF Entry, JournalRecord

LEMMA ReversalIsRecord ==
  ASSUME NEW original \in JournalRecord, NEW j \in Journal, NEW r \in Journal
  PROVE  Reversal(original, j, r) \in JournalRecord /\ Reversed(original, r) \in JournalRecord
<1>1. PICK lines \in Seq(JournalLine) : lines = original.lines
  BY DEF JournalRecord
<1>2. PICK opposite : opposite = ReverseLines(lines)
  OBVIOUS
<1>3. DOMAIN opposite = 1 .. Len(lines) /\ Len(lines) \in Nat
  BY <1>2 DEF ReverseLines
<1>4. ASSUME NEW i \in 1 .. Len(lines) PROVE opposite[i] \in JournalLine
  <2>1. lines[i] \in JournalLine
    BY <1>4
  <2>2. Opposite(lines[i].direction) \in {"debit", "credit"}
    BY DEF Opposite
  <2>3. opposite[i] = [lines[i] EXCEPT !.direction = Opposite(lines[i].direction)]
    <3>1. i \in DOMAIN lines
      BY <1>4
    <3>2. QED
      BY <1>2, <3>1 DEF ReverseLines
  <2>4. QED
    BY <2>1, <2>2, <2>3 DEF JournalLine
<1>5. opposite \in [1 .. Len(lines) -> JournalLine]
  BY <1>2, <1>3, <1>4 DEF ReverseLines
<1>6. opposite \in Seq(JournalLine)
  BY <1>3, <1>5
<1>7. Reversal(original, j, r) \in JournalRecord
  BY <1>1, <1>2, <1>6 DEF Reversal, JournalRecord
<1>8. Reversed(original, r) \in JournalRecord
  BY DEF Reversed, JournalRecord
<1>9. QED
  BY <1>7, <1>8

\* Of the payments nothing changes.
LEMMA PaymentsKept ==
  ASSUME FinanceInv, NEW c \in Call, Save(c), log' = log, SamePayments(store, store'),
         DOMAIN work[c].news \intersect Payment = {}
  PROVE  FinanceTypeOK' /\ PaymentInv'
<1>1. OthersStay(c) /\ raced \subseteq raced' /\ work'[c].news = work[c].news
  BY SaveEffect DEF FinanceInv
<1>2. FinanceTypeOK'
  BY <1>1, RoomKept DEF FinanceInv
<1>3. \A p \in Payment : \A d \in Call : SameWaiting(work[d], work'[d], p)
  BY <1>1 DEF SameWaiting, OthersStay, Waiting
<1>4. ASSUME NEW p \in Payment PROVE PaymentOK(store', log', work', raced', p)
  BY <1>1, <1>3, PaymentKept DEF FinanceInv, PaymentInv, SamePayments
<1>5. QED
  BY <1>2, <1>4 DEF PaymentInv

LEMMA PostingHas ==
  ASSUME FinanceInv, NEW c \in Call, NEW j \in Journal, NEW e \in SourceEvent,
         Posting(work[c], log, j, e), Save(c)
  PROVE  /\ CallsOK' /\ OthersStay(c) /\ raced \subseteq raced' /\ ~Exists(store[j])
         /\ DOMAIN work[c].writes[1] = {j, Source(e)} /\ IsFinancial(log, e)
         /\ store'[j] = Entry(log[e], e) /\ store'[Source(e)] = j
         /\ \A k \in Key : k # j /\ k # Source(e) => store'[k] = store[k]
         /\ Source(e) \notin raced' => store[Source(e)] = NoRecord
         /\ work[c].news = j :> "posted" /\ work'[c].news = work[c].news
         /\ work'[c].writes = <<>> /\ work'[c].todo = <<>>
<1>1. CallsOK /\ j # Source(e)
  BY FinanceKeys DEF FinanceInv
<1>2. /\ CallsOK' /\ OthersStay(c) /\ work[c].todo = <<>> /\ work[c].writes # <<>>
      /\ store' = work[c].writes[1] @@ store /\ raced \subseteq raced'
      /\ \A k \in DOMAIN work[c].writes[1] : k \notin raced' =>
           \A s \in DOMAIN work[c].seen : work[c].seen[s] = store[s]
      /\ work'[c].todo = work[c].todo /\ work'[c].news = work[c].news
      /\ work'[c].writes = Tail(work[c].writes)
  BY <1>1, SaveEffect
<1>3. PICK write : write = (j :> Entry(log[e], e)) @@ (Source(e) :> j)
  OBVIOUS
<1>4. /\ work[c].writes = << write >> /\ IsFinancial(log, e) /\ work[c].news = j :> "posted"
      /\ Source(e) \in DOMAIN work[c].seen /\ work[c].seen[Source(e)] = NoRecord
  BY <1>2, <1>3 DEF Posting
<1>5. work[c].writes[1] = write /\ work'[c].writes = <<>>
  BY <1>2, <1>4, Tails
<1>6. DOMAIN write = {j, Source(e)} /\ write[j] = Entry(log[e], e) /\ write[Source(e)] = j
  BY <1>1, <1>3 DEF :>, @@
<1>7. /\ \A k \in DOMAIN write : store'[k] = write[k]
      /\ \A k \in Key : k \notin DOMAIN write => store'[k] = store[k]
  BY <1>1, <1>2, <1>5 DEF @@, CallsOK
<1>8. ~Exists(store[j])
  <2>1. Draws(work[c], j)
    BY <1>4 DEF Draws, :>
  <2>2. DrawOK(work, store, c, j)
    BY DEF FinanceInv, DrawsInv
  <2>3. QED
    BY <1>2, <1>5, <1>6, <2>1, <2>2 DEF DrawOK
<1>9. QED
  BY <1>2, <1>4, <1>5, <1>6, <1>7, <1>8

LEMMA SavePostingKeeps ==
  ASSUME FinanceInv, NEW c \in Call, Save(c), log' = log, NEW j \in Journal, NEW e \in SourceEvent,
         Posting(work[c], log, j, e)
  PROVE  FinanceInv'
<1>1. /\ CallsOK' /\ OthersStay(c) /\ raced \subseteq raced' /\ ~Exists(store[j])
      /\ DOMAIN work[c].writes[1] = {j, Source(e)} /\ IsFinancial(log, e)
      /\ store'[j] = Entry(log[e], e) /\ store'[Source(e)] = j
      /\ \A k \in Key : k # j /\ k # Source(e) => store'[k] = store[k]
      /\ Source(e) \notin raced' => store[Source(e)] = NoRecord
      /\ work[c].news = j :> "posted" /\ work'[c].news = work[c].news
      /\ work'[c].writes = <<>> /\ work'[c].todo = <<>>
  BY PostingHas
<1>2. \A k \in Journal : k # j => store'[k] = store[k]
  BY <1>1, FinanceKeys
<1>3. Grows(store, store') /\ Extends(log, log')
  BY <1>1, <1>2 DEF Grows, Extends, SameEntry
<1>4. FinanceTypeOK' /\ PaymentInv'
  <2>1. SamePayments(store, store')
    BY <1>1, FinanceKeys DEF SamePayments
  <2>2. DOMAIN work[c].news \intersect Payment = {}
    BY <1>1, FinanceKeys DEF :>
  <2>3. QED
    BY <2>1, <2>2, PaymentsKept
<1>5. \A d \in Call : CallInv(work'[d], store', log')
  <2>1. Posting(work'[c], log', j, e)
    BY <1>1 DEF Posting
  <2>2. CallInv(work'[c], store', log')
    BY <2>1 DEF CallInv
  <2>3. QED
    BY <1>1, <1>3, <2>2, CallsInvKept DEF FinanceInv
<1>6. DrawsInv'
  <2>1. \A k \in Journal : (Draws(work'[c], k) <=> Draws(work[c], k))
    BY <1>1 DEF Draws
  <2>2. Draws(work[c], j)
    BY <1>1 DEF Draws, :>
  <2>3. \A d \in Call : \A k \in Journal : DrawOK(work, store, d, k)
    BY DEF FinanceInv, DrawsInv
  <2>4. \A d \in Call \ {c} : work'[d] = work[d]
    BY <1>1 DEF OthersStay
  <2>5. /\ \A k \in Journal : Exists(store'[k]) => Exists(store[k]) \/ Draws(work[c], k)
        /\ \A k \in Journal : Draws(work'[c], k) =>
             /\ Draws(work[c], k) \/ (~Exists(store[k]) /\ \A d \in Call : ~Draws(work[d], k))
             /\ work'[c].writes # <<>> /\ k \in DOMAIN work'[c].writes[1] => ~Exists(store'[k])
    BY <1>1, <1>2, <2>1, <2>2
  <2>6. \A d \in Call : \A k \in Journal : DrawOK(work', store', d, k)
    BY <2>3, <2>4, <2>5, DrawsKept
  <2>7. QED
    BY <2>6 DEF DrawsInv
<1>7. ASSUME NEW k \in Journal, Exists(store'[k]) PROVE JournalOK(store', log', raced', k)
  <2>1. CASE k = j
    <3>1. log[e] \in PaymentEvents
      BY <1>1, Places DEF IsFinancial, FinanceInv
    <3>2. store'[j] \in JournalRecord
      BY <1>1, <3>1, EntryIsRecord
    <3>3. /\ store'[j].source = e /\ store'[j].lines = LinesFor(log[e])
          /\ store'[j].reverses = NoJournal /\ store'[j].status = "posted"
      BY <1>1 DEF Entry
    <3>4. PostedOK(store', log', raced', j)
      BY <1>1, <3>3 DEF PostedOK
    <3>5. QED
      BY <2>1, <3>2, <3>3, <3>4, FinanceKeys DEF JournalOK
  <2>2. CASE k # j
    <3>1. Exists(store[k]) /\ JournalOK(store, log, raced, k) /\ store'[k] = store[k]
      BY <1>2, <1>7, <2>2 DEF FinanceInv, JournalInv
    <3>2. ASSUME store[k].source \in SourceEvent, Source(store[k].source) \notin raced'
          PROVE  store'[Source(store[k].source)] = store[Source(store[k].source)]
      <4>1. store[Source(store[k].source)] = k
        BY <1>1, <3>1, <3>2 DEF JournalOK, PostedOK
      <4>2. Source(store[k].source) # Source(e)
        BY <1>1, <3>2, <4>1, FinanceKeys
      <4>3. Source(store[k].source) \in Key /\ Source(store[k].source) # j
        BY <3>2, FinanceKeys
      <4>4. QED
        BY <1>1, <4>2, <4>3
    <3>3. QED
      BY <1>1, <1>3, <3>1, <3>2, JournalKept
  <2>3. QED
    BY <2>1, <2>2
<1>8. ASSUME NEW f \in SourceEvent PROVE SourceOK(store', f)
  <2>1. CASE f = e
    <3>1. Exists(store'[j]) /\ store'[j].source = e
      <4>1. Entry(log[e], e).source = e
        BY DEF Entry
      <4>2. log[e] \in PaymentEvents
        BY <1>1, Places DEF IsFinancial, FinanceInv
      <4>3. QED
        BY <1>1, <4>1, <4>2, EntryIsRecord, FinanceKeys
    <3>2. QED
      BY <1>1, <2>1, <3>1 DEF SourceOK
  <2>2. CASE f # e
    <3>1. store'[Source(f)] = store[Source(f)]
      BY <1>1, <2>2, FinanceKeys
    <3>2. QED
      BY <1>3, <3>1, SourceKept DEF FinanceInv, JournalInv
  <2>3. QED
    BY <2>1, <2>2
<1>9. ASSUME NEW k \in Journal \ raced', NEW r \in Journal, Exists(store'[r]), store'[r].reverses = k
      PROVE  ReversalOK(store', work', k, r)
  <2>1. r # j
    BY <1>1, <1>9, FinanceKeys DEF Entry
  <2>2. Exists(store[r]) /\ store[r].reverses = k /\ store'[r] = store[r]
    BY <1>2, <1>9, <2>1
  <2>3. ReversalOK(store, work, k, r)
    BY <1>1, <1>9, <2>2 DEF FinanceInv, JournalInv
  <2>4. k # j
    BY <1>1, <2>2 DEF FinanceInv, JournalInv, JournalOK
  <2>5. ~HalfReversed(work[c], store, k, r)
    <3>1. HalfReversed(work[c], store, k, r) => DOMAIN work[c].writes[1] = {k}
      BY DEF HalfReversed, :>
    <3>2. QED
      BY <1>1, <2>4, <3>1
  <2>6. \A d \in Call \ {c} : work'[d] = work[d]
    BY <1>1 DEF OthersStay
  <2>7. QED
    BY <1>2, <1>3, <2>3, <2>4, <2>5, <2>6, ReversalKept
<1>10. QED
  BY <1>1, <1>4, <1>5, <1>6, <1>7, <1>8, <1>9 DEF FinanceInv, JournalInv

\* A call that is half way stays so.
LEMMA HalfKept ==
  ASSUME NEW s, NEW t, Grows(s, t), NEW j \in Journal, NEW r \in Journal, NEW call,
         Reversing(call, s, j, r), HalfReversed(call, s, j, r)
  PROVE  Reversing(call, t, j, r) /\ HalfReversed(call, t, j, r)
<1>1. Exists(s[j]) /\ Original(call, s, j) /\ IsReversal(s, r, j)
  BY DEF HalfReversed, Original
<1>2. Exists(t[j]) /\ Original(call, t, j) /\ IsReversal(t, r, j)
  BY <1>1, GrowsKeeps DEF Grows
<1>3. HalfReversed(call, t, j, r)
  BY <1>2 DEF HalfReversed
<1>4. QED
  BY <1>2, <1>3 DEF Reversing

LEMMA ReversalHas ==
  ASSUME FinanceInv, NEW c \in Call, NEW j \in Journal, NEW r \in Journal, Save(c),
         Reversing(work[c], store, j, r), ToReverse(work[c], store, j, r)
  PROVE  /\ CallsOK' /\ OthersStay(c) /\ raced \subseteq raced' /\ ~Exists(store[r])
         /\ DOMAIN work[c].writes[1] = {r} /\ r # j
         /\ work[c].seen[j] \in JournalRecord /\ work[c].seen[j].status = "posted"
         /\ Exists(store[j]) /\ SameEntry(work[c].seen[j], store[j])
         /\ store'[r] = Reversal(work[c].seen[j], j, r)
         /\ \A k \in Key : k # r => store'[k] = store[k]
         /\ work[c].news = (r :> "posted") @@ (j :> "reversed") /\ work'[c].news = work[c].news
         /\ j \in DOMAIN work'[c].seen /\ work'[c].seen[j] = work[c].seen[j]
         /\ work'[c].writes = << j :> Reversed(work[c].seen[j], r) >> /\ work'[c].todo = <<>>
<1>1. CallsOK
  BY DEF FinanceInv
<1>2. /\ CallsOK' /\ OthersStay(c) /\ work[c].todo = <<>> /\ work[c].writes # <<>>
      /\ store' = work[c].writes[1] @@ store /\ raced \subseteq raced'
      /\ work'[c].todo = work[c].todo /\ work'[c].news = work[c].news
      /\ work'[c].writes = Tail(work[c].writes)
      /\ work'[c].seen = work[c].writes[1] @@ work[c].seen
  BY <1>1, SaveEffect
<1>3. PICK write, last : /\ write = r :> Reversal(work[c].seen[j], j, r)
                         /\ last = j :> Reversed(work[c].seen[j], r)
  OBVIOUS
<1>4. work[c].writes = << write, last >> /\ Original(work[c], store, j)
  BY <1>3 DEF ToReverse
<1>5. work[c].writes[1] = write /\ work'[c].writes = << last >>
  BY <1>2, <1>4, Tails
<1>6. DOMAIN write = {r} /\ write[r] = Reversal(work[c].seen[j], j, r)
  BY <1>3 DEF :>
<1>7. /\ store'[r] = write[r]
      /\ \A k \in Key : k # r => store'[k] = store[k]
  BY <1>1, <1>2, <1>5, <1>6 DEF @@, CallsOK
<1>8. r # j /\ Exists(store[j]) /\ work[c].news = (r :> "posted") @@ (j :> "reversed")
  BY DEF Reversing
<1>9. j \in DOMAIN work'[c].seen /\ work'[c].seen[j] = work[c].seen[j]
  BY <1>2, <1>4, <1>5, <1>6, <1>8 DEF @@, Original
<1>10. ~Exists(store[r])
  <2>1. Draws(work[c], r)
    BY <1>8 DEF Draws, :>, @@
  <2>2. DrawOK(work, store, c, r)
    BY DEF FinanceInv, DrawsInv
  <2>3. QED
    BY <1>2, <1>5, <1>6, <2>1, <2>2 DEF DrawOK
<1>11. QED
  BY <1>2, <1>3, <1>4, <1>5, <1>6, <1>7, <1>8, <1>9, <1>10 DEF Original

LEMMA SaveReversalKeeps ==
  ASSUME FinanceInv, NEW c \in Call, Save(c), log' = log, NEW j \in Journal, NEW r \in Journal,
         Reversing(work[c], store, j, r), ToReverse(work[c], store, j, r)
  PROVE  FinanceInv'
<1>1. /\ CallsOK' /\ OthersStay(c) /\ raced \subseteq raced' /\ ~Exists(store[r])
      /\ DOMAIN work[c].writes[1] = {r} /\ r # j
      /\ work[c].seen[j] \in JournalRecord /\ work[c].seen[j].status = "posted"
      /\ Exists(store[j]) /\ SameEntry(work[c].seen[j], store[j])
      /\ store'[r] = Reversal(work[c].seen[j], j, r)
      /\ \A k \in Key : k # r => store'[k] = store[k]
      /\ work[c].news = (r :> "posted") @@ (j :> "reversed") /\ work'[c].news = work[c].news
      /\ j \in DOMAIN work'[c].seen /\ work'[c].seen[j] = work[c].seen[j]
      /\ work'[c].writes = << j :> Reversed(work[c].seen[j], r) >> /\ work'[c].todo = <<>>
  BY ReversalHas
<1>2. \A k \in Journal : k # r => store'[k] = store[k]
  BY <1>1, FinanceKeys
<1>3. Grows(store, store') /\ Extends(log, log')
  BY <1>1, <1>2 DEF Grows, Extends, SameEntry
<1>4. FinanceTypeOK' /\ PaymentInv'
  <2>1. SamePayments(store, store')
    BY <1>1, FinanceKeys DEF SamePayments
  <2>2. DOMAIN work[c].news = {r, j}
    BY <1>1 DEF :>, @@
  <2>3. DOMAIN work[c].news \intersect Payment = {}
    BY <2>2, FinanceKeys
  <2>4. QED
    BY <2>1, <2>3, PaymentsKept
<1>5. \A e \in SourceEvent : store'[Source(e)] = store[Source(e)]
  BY <1>1, FinanceKeys
<1>6. /\ store'[r] \in JournalRecord /\ Exists(store'[r]) /\ store'[r].source = r
      /\ store'[r].status = "posted" /\ store'[r].reverses = j
      /\ store'[r].lines = ReverseLines(work[c].seen[j].lines)
  <2>1. store'[r] \in JournalRecord
    BY <1>1, ReversalIsRecord
  <2>2. QED
    BY <1>1, <2>1, FinanceKeys DEF Reversal
<1>7. IsReversal(store', r, j)
  BY <1>1, <1>2, <1>6 DEF IsReversal, SameEntry
<1>8. HalfReversed(work'[c], store', j, r) /\ Reversing(work'[c], store', j, r)
  <2>1. Original(work'[c], store', j)
    BY <1>1, <1>2 DEF Original
  <2>2. HalfReversed(work'[c], store', j, r)
    BY <1>1, <1>7, <2>1 DEF HalfReversed
  <2>3. QED
    BY <1>1, <1>2, <2>2 DEF Reversing
<1>9. \A d \in Call : CallInv(work'[d], store', log')
  <2>1. CallInv(work'[c], store', log')
    BY <1>8 DEF CallInv
  <2>2. QED
    BY <1>1, <1>3, <2>1, CallsInvKept DEF FinanceInv
<1>10. \A d \in Call \ {c} : work'[d] = work[d]
  BY <1>1 DEF OthersStay
<1>11. DrawsInv'
  <2>1. \A k \in Journal : (Draws(work'[c], k) <=> Draws(work[c], k))
    BY <1>1 DEF Draws
  <2>2. work[c].news[r] = "posted" /\ work[c].news[j] = "reversed" /\ r \in DOMAIN work[c].news
    BY <1>1 DEF :>, @@
  <2>3. Draws(work[c], r) /\ ~Draws(work[c], j)
    BY <2>2 DEF Draws
  <2>4. \A d \in Call : \A k \in Journal : DrawOK(work, store, d, k)
    BY DEF FinanceInv, DrawsInv
  <2>5. DOMAIN work'[c].writes[1] = {j}
    BY <1>1 DEF :>
  <2>6. /\ \A k \in Journal : Exists(store'[k]) => Exists(store[k]) \/ Draws(work[c], k)
        /\ \A k \in Journal : Draws(work'[c], k) =>
             /\ Draws(work[c], k) \/ (~Exists(store[k]) /\ \A d \in Call : ~Draws(work[d], k))
             /\ work'[c].writes # <<>> /\ k \in DOMAIN work'[c].writes[1] => ~Exists(store'[k])
    BY <1>2, <2>1, <2>3, <2>5
  <2>7. \A d \in Call : \A k \in Journal : DrawOK(work', store', d, k)
    BY <1>10, <2>4, <2>6, DrawsKept
  <2>8. QED
    BY <2>7 DEF DrawsInv
<1>12. ASSUME NEW k \in Journal, Exists(store'[k]) PROVE JournalOK(store', log', raced', k)
  <2>1. CASE k = r
    <3>1. PostedOK(store', log', raced', r)
      BY <1>6, FinanceKeys DEF PostedOK
    <3>2. QED
      BY <1>1, <1>2, <1>6, <1>7, <2>1, <3>1 DEF JournalOK
  <2>2. CASE k # r
    <3>1. Exists(store[k]) /\ JournalOK(store, log, raced, k) /\ store'[k] = store[k]
      BY <1>2, <1>12, <2>2 DEF FinanceInv, JournalInv
    <3>2. QED
      BY <1>1, <1>3, <1>5, <3>1, JournalKept
  <2>3. QED
    BY <2>1, <2>2
<1>13. ASSUME NEW e \in SourceEvent PROVE SourceOK(store', e)
  BY <1>3, <1>5, SourceKept DEF FinanceInv, JournalInv
<1>14. ASSUME NEW k \in Journal \ raced', NEW q \in Journal, Exists(store'[q]), store'[q].reverses = k
       PROVE  ReversalOK(store', work', k, q)
  <2>1. CASE q = r
    BY <1>6, <1>8, <1>14, <2>1 DEF ReversalOK
  <2>2. CASE q # r
    <3>1. Exists(store[q]) /\ store[q].reverses = k
      BY <1>2, <1>14, <2>2
    <3>2. ReversalOK(store, work, k, q)
      BY <1>1, <1>14, <3>1 DEF FinanceInv, JournalInv
    <3>3. k # r
      BY <1>1, <3>1 DEF FinanceInv, JournalInv, JournalOK
    <3>4. ~HalfReversed(work[c], store, k, q)
      <4>1. HalfReversed(work[c], store, k, q) => DOMAIN work[c].writes[1] = {k}
        BY DEF HalfReversed, :>
      <4>2. QED
        BY <1>1, <3>3, <4>1
    <3>5. QED
      BY <1>2, <1>3, <1>10, <3>2, <3>3, <3>4, ReversalKept
  <2>3. QED
    BY <2>1, <2>2
<1>15. QED
  BY <1>1, <1>4, <1>9, <1>11, <1>12, <1>13, <1>14 DEF FinanceInv, JournalInv

LEMMA ReversedHas ==
  ASSUME FinanceInv, NEW c \in Call, NEW j \in Journal, NEW r \in Journal, Save(c),
         Reversing(work[c], store, j, r), HalfReversed(work[c], store, j, r)
  PROVE  /\ CallsOK' /\ OthersStay(c) /\ raced \subseteq raced'
         /\ DOMAIN work[c].writes[1] = {j} /\ r # j /\ DOMAIN work[c].news = {r, j}
         /\ work[c].seen[j] \in JournalRecord /\ work[c].seen[j].status = "posted"
         /\ Exists(store[j]) /\ SameEntry(work[c].seen[j], store[j]) /\ IsReversal(store, r, j)
         /\ store'[j] = Reversed(work[c].seen[j], r)
         /\ \A k \in Key : k # j => store'[k] = store[k]
         /\ j \notin raced' => work[c].seen[j] = store[j]
         /\ work[c].news = (r :> "posted") @@ (j :> "reversed") /\ work'[c].news = work[c].news
         /\ work'[c].writes = <<>> /\ work'[c].todo = <<>>
<1>1. CallsOK
  BY DEF FinanceInv
<1>2. /\ CallsOK' /\ OthersStay(c) /\ work[c].todo = <<>> /\ work[c].writes # <<>>
      /\ store' = work[c].writes[1] @@ store /\ raced \subseteq raced'
      /\ \A k \in DOMAIN work[c].writes[1] : k \notin raced' =>
           \A s \in DOMAIN work[c].seen : work[c].seen[s] = store[s]
      /\ work'[c].todo = work[c].todo /\ work'[c].news = work[c].news
      /\ work'[c].writes = Tail(work[c].writes)
  BY <1>1, SaveEffect
<1>3. PICK write : write = j :> Reversed(work[c].seen[j], r)
  OBVIOUS
<1>4. work[c].writes = << write >> /\ Original(work[c], store, j) /\ IsReversal(store, r, j)
  BY <1>3 DEF HalfReversed
<1>5. work[c].writes[1] = write /\ work'[c].writes = <<>>
  BY <1>2, <1>4, Tails
<1>6. DOMAIN write = {j} /\ write[j] = Reversed(work[c].seen[j], r)
  BY <1>3 DEF :>
<1>7. /\ store'[j] = write[j]
      /\ \A k \in Key : k # j => store'[k] = store[k]
  BY <1>1, <1>2, <1>5, <1>6 DEF @@, CallsOK
<1>8. r # j /\ Exists(store[j]) /\ work[c].news = (r :> "posted") @@ (j :> "reversed")
  BY DEF Reversing
<1>9. DOMAIN work[c].news = {r, j}
  BY <1>8 DEF :>, @@
<1>10. QED
  BY <1>2, <1>4, <1>5, <1>6, <1>7, <1>8, <1>9 DEF Original

LEMMA SaveReversedKeeps ==
  ASSUME FinanceInv, NEW c \in Call, Save(c), log' = log, NEW j \in Journal, NEW r \in Journal,
         Reversing(work[c], store, j, r), HalfReversed(work[c], store, j, r)
  PROVE  FinanceInv'
<1>1. /\ CallsOK' /\ OthersStay(c) /\ raced \subseteq raced'
      /\ DOMAIN work[c].writes[1] = {j} /\ r # j /\ DOMAIN work[c].news = {r, j}
      /\ work[c].seen[j] \in JournalRecord /\ work[c].seen[j].status = "posted"
      /\ Exists(store[j]) /\ SameEntry(work[c].seen[j], store[j]) /\ IsReversal(store, r, j)
      /\ store'[j] = Reversed(work[c].seen[j], r)
      /\ \A k \in Key : k # j => store'[k] = store[k]
      /\ j \notin raced' => work[c].seen[j] = store[j]
      /\ work[c].news = (r :> "posted") @@ (j :> "reversed") /\ work'[c].news = work[c].news
      /\ work'[c].writes = <<>> /\ work'[c].todo = <<>>
  BY ReversedHas
<1>2. \A k \in Journal : k # j => store'[k] = store[k]
  BY <1>1, FinanceKeys
<1>3. /\ store'[j] \in JournalRecord /\ Exists(store'[j]) /\ SameEntry(store[j], store'[j])
      /\ store'[j].status = "reversed" /\ store'[j].reversedBy = r
  <2>1. store'[j] \in JournalRecord
    BY <1>1, ReversalIsRecord
  <2>2. SameEntry(work[c].seen[j], store'[j])
    BY <1>1 DEF Reversed, SameEntry, JournalRecord
  <2>3. store'[j].status = "reversed" /\ store'[j].reversedBy = r
    BY <1>1 DEF Reversed, JournalRecord
  <2>4. QED
    BY <1>1, <2>1, <2>2, <2>3, FinanceKeys DEF SameEntry
<1>4. Grows(store, store') /\ Extends(log, log')
  BY <1>2, <1>3 DEF Grows, Extends, SameEntry
<1>5. FinanceTypeOK' /\ PaymentInv'
  <2>1. SamePayments(store, store')
    BY <1>1, FinanceKeys DEF SamePayments
  <2>2. DOMAIN work[c].news \intersect Payment = {}
    BY <1>1, FinanceKeys
  <2>3. QED
    BY <2>1, <2>2, PaymentsKept
<1>6. \A e \in SourceEvent : store'[Source(e)] = store[Source(e)]
  BY <1>1, FinanceKeys
<1>7. \A d \in Call : CallInv(work'[d], store', log')
  <2>1. Reversing(work'[c], store', j, r)
    BY <1>1, <1>3 DEF Reversing
  <2>2. CallInv(work'[c], store', log')
    BY <2>1 DEF CallInv
  <2>3. QED
    BY <1>1, <1>4, <2>2, CallsInvKept DEF FinanceInv
<1>8. \A d \in Call \ {c} : work'[d] = work[d]
  BY <1>1 DEF OthersStay
<1>9. \A k \in Journal : Exists(store'[k]) => Exists(store[k])
  BY <1>1, <1>2
<1>10. DrawsInv'
  <2>1. \A k \in Journal : (Draws(work'[c], k) <=> Draws(work[c], k))
    BY <1>1 DEF Draws
  <2>2. \A d \in Call : \A k \in Journal : DrawOK(work, store, d, k)
    BY DEF FinanceInv, DrawsInv
  <2>3. /\ \A k \in Journal : Exists(store'[k]) => Exists(store[k]) \/ Draws(work[c], k)
        /\ \A k \in Journal : Draws(work'[c], k) =>
             /\ Draws(work[c], k) \/ (~Exists(store[k]) /\ \A d \in Call : ~Draws(work[d], k))
             /\ work'[c].writes # <<>> /\ k \in DOMAIN work'[c].writes[1] => ~Exists(store'[k])
    BY <1>1, <1>9, <2>1
  <2>4. \A d \in Call : \A k \in Journal : DrawOK(work', store', d, k)
    BY <1>8, <2>2, <2>3, DrawsKept
  <2>5. QED
    BY <2>4 DEF DrawsInv
<1>11. JournalOK(store', log', raced', j)
  <2>1. JournalOK(store, log, raced, j)
    BY <1>1 DEF FinanceInv, JournalInv
  <2>2. PostedOK(store', log', raced', j)
    BY <1>1, <1>3, <1>6, <2>1 DEF JournalOK, PostedOK, SameEntry
  <2>3. store'[j].reverses \in Journal =>
          Exists(store'[store'[j].reverses]) /\ IsReversal(store', j, store'[j].reverses)
    <3>1. SUFFICES ASSUME store[j].reverses \in Journal
                   PROVE  /\ Exists(store'[store[j].reverses])
                          /\ IsReversal(store', j, store[j].reverses)
      BY <1>3 DEF SameEntry
    <3>2. Exists(store[store[j].reverses]) /\ IsReversal(store, j, store[j].reverses)
      BY <2>1, <3>1 DEF JournalOK
    <3>3. QED
      BY <1>4, <3>1, <3>2, GrowsKeeps DEF Grows
  <2>4. IsReversal(store', r, j)
    BY <1>1, <1>4, GrowsKeeps
  <2>5. QED
    BY <1>3, <2>2, <2>3, <2>4 DEF JournalOK
<1>12. ASSUME NEW k \in Journal, Exists(store'[k]) PROVE JournalOK(store', log', raced', k)
  <2>1. CASE k = j
    BY <1>11, <2>1
  <2>2. CASE k # j
    <3>1. Exists(store[k]) /\ JournalOK(store, log, raced, k) /\ store'[k] = store[k]
      BY <1>2, <1>12, <2>2 DEF FinanceInv, JournalInv
    <3>2. QED
      BY <1>1, <1>4, <1>6, <3>1, JournalKept
  <2>3. QED
    BY <2>1, <2>2
<1>13. ASSUME NEW e \in SourceEvent PROVE SourceOK(store', e)
  BY <1>4, <1>6, SourceKept DEF FinanceInv, JournalInv
<1>14. ASSUME NEW k \in Journal \ raced', NEW q \in Journal, Exists(store'[q]), store'[q].reverses = k
       PROVE  ReversalOK(store', work', k, q)
  <2>1. Exists(store[q]) /\ store[q].reverses = k
    BY <1>2, <1>3, <1>9, <1>14 DEF SameEntry
  <2>2. ReversalOK(store, work, k, q)
    BY <1>1, <1>14, <2>1 DEF FinanceInv, JournalInv
  <2>3. CASE k # j
    <3>1. ~HalfReversed(work[c], store, k, q)
      <4>1. HalfReversed(work[c], store, k, q) => DOMAIN work[c].writes[1] = {k}
        BY DEF HalfReversed, :>
      <4>2. QED
        BY <1>1, <2>3, <4>1
    <3>2. QED
      BY <1>2, <1>4, <1>8, <2>2, <2>3, <3>1, ReversalKept
  <2>4. CASE k = j
    <3>1. store[j].status = "posted"
      BY <1>1, <1>14, <2>4
    <3>2. PICK d \in Call : Reversing(work[d], store, j, q) /\ HalfReversed(work[d], store, j, q)
      BY <2>2, <2>4, <3>1 DEF ReversalOK
    <3>3. CASE d = c
      <4>1. q # j /\ work[c].news = (q :> "posted") @@ (j :> "reversed")
        BY <3>2, <3>3 DEF Reversing
      <4>2. DOMAIN work[c].news = {q, j}
        BY <4>1 DEF :>, @@
      <4>3. q = r
        BY <1>1, <4>1, <4>2
      <4>4. QED
        BY <1>3, <2>4, <4>3 DEF ReversalOK
    <3>4. CASE d # c
      <4>1. Reversing(work[d], store', j, q) /\ HalfReversed(work[d], store', j, q)
        BY <1>4, <3>2, HalfKept
      <4>2. work'[d] = work[d]
        BY <1>8, <3>4
      <4>3. QED
        BY <2>4, <4>1, <4>2 DEF ReversalOK
    <3>5. QED
      BY <3>3, <3>4
  <2>5. QED
    BY <2>3, <2>4
<1>15. QED
  BY <1>1, <1>5, <1>7, <1>10, <1>12, <1>13, <1>14 DEF FinanceInv, JournalInv

LEMMA SaveKeeps ==
  ASSUME FinanceInv, NEW c \in Call, Save(c), log' = log
  PROVE  FinanceInv'
<1>1. CallInv(work[c], store, log) /\ work[c].writes # <<>>
  BY DEF FinanceInv, Save
<1>2. CASE Starting(work[c], store)
  BY <1>1, <1>2, IdleCall DEF Starting
<1>3. CASE \E p \in Payment : Paying(work[c], p)
  BY <1>3, SavePaymentKeeps
<1>4. CASE \E j \in Journal : \E e \in SourceEvent : Posting(work[c], log, j, e)
  BY <1>4, SavePostingKeeps
<1>5. CASE \E j, r \in Journal : Reversing(work[c], store, j, r)
  <2>1. PICK j \in Journal, r \in Journal : Reversing(work[c], store, j, r)
    BY <1>5
  <2>2. ToReverse(work[c], store, j, r) \/ HalfReversed(work[c], store, j, r)
    BY <1>1, <2>1 DEF Reversing
  <2>3. QED
    BY <2>1, <2>2, SaveReversalKeeps, SaveReversedKeeps
<1>6. QED
  BY <1>1, <1>2, <1>3, <1>4, <1>5 DEF CallInv

-----------------------------------------------------------------------------
(***************************************************************************)
(* The inductive invariant.                                                *)
(***************************************************************************)
LEMMA StepKeeps ==
  ASSUME FinanceInv, NEW c \in Call, Step(c)
  PROVE  FinanceInv'
<1>1. CASE Publish(c) /\ LogNews(c)
  BY <1>1, PublishKeeps
<1>2. CASE log' = log
  <2>1. CASE Room /\ PaymentsStep(c)
    BY <1>2, <2>1, PaymentsStepKeeps
  <2>2. CASE ConsumeFinancialEvent(c)
    BY <1>2, <2>2, PostJournalKeeps DEF ConsumeFinancialEvent
  <2>3. CASE ReverseJournal(c)
    BY <1>2, <2>3, ReverseJournalKeeps
  <2>4. CASE GiveUp(c)
    BY <1>2, <2>4, GiveUpKeeps
  <2>5. CASE Save(c)
    BY <1>2, <2>5, SaveKeeps
  <2>6. CASE Publish(c) /\ LogNews(c)
    BY <2>6, PublishKeeps
  <2>7. QED
    BY <2>1, <2>2, <2>3, <2>4, <2>5, <2>6 DEF Step
<1>3. QED
  BY <1>1, <1>2 DEF Step

LEMMA FinanceStarts ==
  ASSUME Init
  PROVE  FinanceInv
<1>1. CallsOK /\ log = <<>> /\ \A c \in Call : work[c] = Idle
  BY CallsStart DEF Init
<1>2. \A k \in Key : ~Exists(store[k])
  BY DEF Init, ServiceInit, Exists
<1>3. \A c \in Call : work[c].news = <<>> /\ DOMAIN work[c].news = {}
  <2>1. DOMAIN Idle.news = {}
    BY IdleCall
  <2>2. QED
    BY <1>1, <2>1, IdleCall
<1>4. FinanceTypeOK
  <2>1. Announcing = {}
    BY <1>3, AnnouncingIs
  <2>2. Cardinality({}) = 0
    BY FS_EmptySet
  <2>3. Len(log) = 0 /\ log \in Seq(PaymentEvents)
    BY <1>1
  <2>4. QED
    BY <2>1, <2>2, <2>3, PaymentsAssumption DEF FinanceTypeOK
<1>5. \A c \in Call : CallInv(work[c], store, log)
  BY <1>1 DEF CallInv, Starting
<1>6. DrawsInv
  BY <1>3 DEF DrawsInv, DrawOK, Draws
<1>7. ASSUME NEW p \in Payment PROVE PaymentOK(store, log, work, raced, p)
  <2>1. store[p] = NoRecord
    BY <1>2, FinanceKeys DEF Exists
  <2>2. ASSUME NEW term \in Terms PROVE Announced(log, work, p, term) = Worth(store[p])[term]
    <3>1. DOMAIN log = {}
      BY <1>1
    <3>2. SumOver(LogSays(log, p, term), DOMAIN log) = 0
      BY <3>1, SumEmpty
    <3>3. \A c \in Call : CallsSay(work, p, term)[c] = 0
      BY <1>3 DEF CallsSay, Waiting
    <3>4. SumOver(CallsSay(work, p, term), Call) = 0
      BY <3>3, FinanceAssumption, SumZero
    <3>5. Worth(store[p])[term] = 0
      BY <2>1 DEF Worth, Terms
    <3>6. QED
      BY <3>2, <3>4, <3>5 DEF Announced
  <2>3. QED
    BY <2>1, <2>2 DEF PaymentOK, Exists
<1>8. JournalInv
  BY <1>2, FinanceKeys DEF JournalInv, SourceOK
<1>9. QED
  BY <1>1, <1>4, <1>5, <1>6, <1>7, <1>8 DEF FinanceInv, PaymentInv

LEMMA FinanceStutters ==
  ASSUME FinanceInv, UNCHANGED vars
  PROVE  FinanceInv'
<1>1. store' = store /\ work' = work /\ raced' = raced /\ log' = log
  BY DEF vars, serviceVars
<1>2. CallsOK' /\ Announcing' = Announcing
  BY <1>1, AnnouncingIs DEF FinanceInv, CallsOK
<1>3. QED
  BY <1>1, <1>2 DEF FinanceInv, FinanceTypeOK, DrawsInv, PaymentInv, JournalInv

\* Payments, journals, what running calls are about to save of them and what has
\* been announced always fit together.
THEOREM FinanceInvariant == Spec => []FinanceInv
<1>1. FinanceInv /\ [Next]_vars => FinanceInv'
  BY StepKeeps, FinanceStutters DEF Next
<1>2. QED
  BY <1>1, FinanceStarts, PTL DEF Spec

-----------------------------------------------------------------------------
(***************************************************************************)
(* What has been announced of a payment adds up to it.                     *)
(***************************************************************************)
\* When no call runs the log says all there is to say.
LEMMA LogSaysAll ==
  ASSUME FinanceInv, AtRest, NEW p \in Payment \ raced, NEW term \in Terms
  PROVE  /\ IntOn(LogSays(log, p, term), DOMAIN log) /\ IsFiniteSet(DOMAIN log)
         /\ SumOver(LogSays(log, p, term), DOMAIN log) = Worth(store[p])[term]
<1>1. IntOn(LogSays(log, p, term), DOMAIN log) /\ IsFiniteSet(DOMAIN log)
      /\ SumOver(LogSays(log, p, term), DOMAIN log) \in Int
  BY AnnouncedIsInt, Places DEF FinanceInv
<1>2. SumOver(CallsSay(work, p, term), Call) = 0
  <2>1. DOMAIN Idle.news = {}
    BY IdleCall
  <2>2. \A c \in Call : ~Waiting(work[c], p)
    BY <2>1 DEF Waiting, AtRest, IsIdle
  <2>3. \A c \in Call : CallsSay(work, p, term)[c] = 0
    BY <2>2 DEF CallsSay
  <2>4. QED
    BY <2>3, FinanceAssumption, SumZero
<1>3. Announced(log, work, p, term) = Worth(store[p])[term]
  BY DEF FinanceInv, PaymentInv, PaymentOK
<1>4. QED
  BY <1>1, <1>2, <1>3 DEF Announced

\* Refunded, as a sum over the places of the log.
LEMMA RefundedSum ==
  ASSUME NEW p, NEW S, S = EventsOf(p, "refunded"), IsFiniteSet(S),
         NEW g, \A i \in S : g[i] = log[i].refund
  PROVE  Refunded(p) = SumOver(g, S)
<1> DEFINE G(f) == f = [t \in SUBSET S |-> IF t = {} THEN 0
                          ELSE log[Pick(t)].refund + f[t \ {Pick(t)}]]
<1>1. \A t \in SUBSET S : t # {} => g[Pick(t)] = log[Pick(t)].refund
  BY DEF Pick
<1>2. PICK e : e = (CHOOSE f : G(f))
  OBVIOUS
<1>3. Refunded(p) = e[S]
  BY <1>2 DEF Refunded, MapThenSumSet, MapThenFoldSet, Pick
<1>4. \A f : G(f) <=> Sums(f, g, SUBSET S)
  BY <1>1 DEF Sums
<1> HIDE DEF G
<1>5. Sums(e, g, SUBSET S)
  BY <1>2, <1>4, SumsExist
<1>6. Agree(g, g, S)
  BY DEF Agree
<1>7. QED
  BY <1>3, <1>5, <1>6, SumIs

LEMMA ClosedOnce ==
  ASSUME FinanceInv, AtRest, NEW p \in Payment \ raced, Exists(store[p])
  PROVE  Cardinality(EventsOf(p, "captured") \union EventsOf(p, "voided")) <= 1
<1>1. PICK g, S, C : /\ g = LogSays(log, p, "closed") /\ S = DOMAIN log
                     /\ C = EventsOf(p, "captured") \union EventsOf(p, "voided")
  OBVIOUS
<1>2. IntOn(g, S) /\ IsFiniteSet(S) /\ SumOver(g, S) = Worth(store[p]).closed
  BY <1>1, LogSaysAll DEF Terms
<1>3. SumOver(g, S) <= 1
  <2>1. store[p] # NoRecord
    BY DEF Exists
  <2>2. QED
    BY <1>2, <2>1 DEF Worth
<1>4. C \subseteq S /\ \A i \in S : g[i] = IF i \in C THEN 1 ELSE 0
  BY <1>1 DEF LogSays, Said, EventsOf
<1>5. SumOver(g, S) = SumOver(g, C)
  BY <1>2, <1>4, SumPad
<1>6. IsFiniteSet(C) /\ IntOn(g, C) /\ \A i \in C : g[i] >= 1
  BY <1>2, <1>4, FS_Subset DEF IntOn
<1>7. Cardinality(C) <= 1
  BY <1>3, <1>5, <1>6, SumAtMostOne
<1>8. QED
  BY <1>1, <1>7

LEMMA RefundsAddUp ==
  ASSUME FinanceInv, AtRest, NEW p \in Payment \ raced, Exists(store[p])
  PROVE  Refunded(p) = store[p].refunded
<1>1. PICK g, S, R : /\ g = LogSays(log, p, "refunded") /\ S = DOMAIN log
                     /\ R = EventsOf(p, "refunded")
  OBVIOUS
<1>2. IntOn(g, S) /\ IsFiniteSet(S) /\ SumOver(g, S) = Worth(store[p]).refunded
  BY <1>1, LogSaysAll DEF Terms
<1>3. store[p] # NoRecord
  BY DEF Exists
<1>4. /\ R \subseteq S /\ \A i \in S \ R : g[i] = 0
      /\ \A i \in R : g[i] = log[i].refund
  BY <1>1 DEF LogSays, Said, EventsOf
<1>5. SumOver(g, S) = SumOver(g, R) /\ IsFiniteSet(R)
  BY <1>2, <1>4, SumPad, FS_Subset
<1>6. Refunded(p) = SumOver(g, R)
  BY <1>1, <1>4, <1>5, RefundedSum
<1>7. QED
  BY <1>2, <1>3, <1>5, <1>6 DEF Worth

\* A payment has been captured when that has been said of it.
LEMMA CapturedWhenSaid ==
  ASSUME FinanceInv, AtRest, NEW p \in Payment \ raced, Exists(store[p])
  PROVE  EventsOf(p, "captured") # {} <=> IsCaptured(store[p])
<1>1. PICK g, S, C : /\ g = LogSays(log, p, "captured") /\ S = DOMAIN log
                     /\ C = EventsOf(p, "captured")
  OBVIOUS
<1>2. IsFiniteSet(S) /\ SumOver(g, S) = Worth(store[p]).captured
  BY <1>1, LogSaysAll DEF Terms
<1>3. Worth(store[p]).captured = IF IsCaptured(store[p]) THEN 1 ELSE 0
  BY DEF Worth, Exists
<1>4. C \subseteq S /\ \A i \in S : g[i] = IF i \in C THEN 1 ELSE 0
  BY <1>1 DEF LogSays, Said, EventsOf
<1>5. CASE C = {}
  <2>1. \A i \in S : g[i] = 0
    BY <1>4, <1>5
  <2>2. SumOver(g, S) = 0
    BY <1>2, <2>1, SumZero
  <2>3. QED
    BY <1>1, <1>2, <1>3, <1>5, <2>2
<1>6. CASE C # {}
  <2>1. PICK x \in C : x \in S /\ g[x] = 1
    BY <1>4, <1>6
  <2>2. PICK R : R = S \ {x}
    OBVIOUS
  <2>3. IntOn(g, S) /\ IntOn(g, R) /\ IsFiniteSet(R) /\ \A i \in R : g[i] >= 0
    BY <1>2, <1>4, <2>2, FS_Subset DEF IntOn
  <2>4. SumOver(g, S) = g[x] + SumOver(g, R)
    BY <1>2, <2>1, <2>2, <2>3, SumStep
  <2>5. SumOver(g, R) >= 0 /\ SumOver(g, R) \in Int
    BY <2>3, SumNat, SumStep
  <2>6. SumOver(g, S) # 0
    BY <2>1, <2>4, <2>5
  <2>7. QED
    BY <1>1, <1>2, <1>3, <1>6, <2>6
<1>7. QED
  BY <1>5, <1>6

\* What consumers have been told of a payment adds up to the payment on file, unless
\* one of its saves has raced.
THEOREM PaymentEventsAddUpAlways == Spec => []PaymentEventsAddUp
<1>1. FinanceInv => PaymentEventsAddUp
  <2>1. SUFFICES ASSUME FinanceInv, AtRest, NEW p \in Payment \ raced, Exists(store[p])
                 PROVE  /\ Cardinality(EventsOf(p, "captured") \union EventsOf(p, "voided")) <= 1
                        /\ Refunded(p) = store[p].refunded
                        /\ store[p].refunded <= store[p].amount
                        /\ store[p].refunded > 0 => EventsOf(p, "captured") # {}
    BY DEF PaymentEventsAddUp
  <2>2. /\ store[p].refunded <= store[p].amount
        /\ store[p].refunded > 0 => IsCaptured(store[p])
    BY <2>1 DEF FinanceInv, PaymentInv, PaymentOK, GoodPayment, IsCaptured
  <2>3. QED
    BY <2>1, <2>2, ClosedOnce, RefundsAddUp, CapturedWhenSaid
<1>2. QED
  BY <1>1, FinanceInvariant, PTL

-----------------------------------------------------------------------------
(***************************************************************************)
(* The books follow the payments.                                          *)
(***************************************************************************)
\* What a journal moves on an account, as a sum over its lines.
LEMMA MovedSum ==
  ASSUME NEW j, NEW account, NEW S, S = DOMAIN store[j].lines, IsFiniteSet(S),
         NEW g, \A i \in S : g[i] = IF store[j].lines[i].account = account
                                      THEN Signed(store[j].lines[i]) ELSE 0
  PROVE  Moved(j, account) = SumOver(g, S)
<1> DEFINE G(f) == f = [t \in SUBSET S |-> IF t = {} THEN 0
                          ELSE (IF store[j].lines[Pick(t)].account = account
                                  THEN Signed(store[j].lines[Pick(t)]) ELSE 0)
                               + f[t \ {Pick(t)}]]
<1>1. \A t \in SUBSET S : t # {} =>
        g[Pick(t)] = IF store[j].lines[Pick(t)].account = account
                       THEN Signed(store[j].lines[Pick(t)]) ELSE 0
  BY DEF Pick
<1>2. PICK e : e = (CHOOSE f : G(f))
  OBVIOUS
<1>3. Moved(j, account) = e[S]
  BY <1>2 DEF Moved, MapThenSumSet, MapThenFoldSet, Pick
<1>4. \A f : G(f) <=> Sums(f, g, SUBSET S)
  BY <1>1 DEF Sums
<1> HIDE DEF G
<1>5. Sums(e, g, SUBSET S)
  BY <1>2, <1>4, SumsExist
<1>6. Agree(g, g, S)
  BY DEF Agree
<1>7. QED
  BY <1>3, <1>5, <1>6, SumIs

\* What journals move together.
LEMMA TogetherSum ==
  ASSUME NEW S, IsFiniteSet(S), NEW account, NEW g, \A j \in S : g[j] = Moved(j, account)
  PROVE  MapThenSumSet(LAMBDA j : Moved(j, account), S) = SumOver(g, S)
<1> DEFINE G(f) == f = [t \in SUBSET S |-> IF t = {} THEN 0
                          ELSE Moved(Pick(t), account) + f[t \ {Pick(t)}]]
<1>1. \A t \in SUBSET S : t # {} => g[Pick(t)] = Moved(Pick(t), account)
  BY DEF Pick
<1>2. PICK e : e = (CHOOSE f : G(f))
  OBVIOUS
<1>3. MapThenSumSet(LAMBDA j : Moved(j, account), S) = e[S]
  BY <1>2 DEF MapThenSumSet, MapThenFoldSet, Pick
<1>4. \A f : G(f) <=> Sums(f, g, SUBSET S)
  BY <1>1 DEF Sums
<1> HIDE DEF G
<1>5. Sums(e, g, SUBSET S)
  BY <1>2, <1>4, SumsExist
<1>6. Agree(g, g, S)
  BY DEF Agree
<1>7. QED
  BY <1>3, <1>5, <1>6, SumIs

LEMMA CashMoved ==
  ASSUME NEW j, NEW event \in PaymentEvents, event.type \in {"captured", "refunded"},
         store[j].lines = LinesFor(event)
  PROVE  Moved(j, "CASH_CLEARING") = Said(event).cash
<1>1. PICK cash : cash = "CASH_CLEARING"
  OBVIOUS
<1>2. PICK g, a, b : /\ a = (IF event.type = "captured" THEN event.amount ELSE 0)
                     /\ b = (IF event.type = "captured" THEN 0 ELSE -event.refund)
                     /\ g = << a, b >>
  OBVIOUS
<1>3. a \in Int /\ b \in Int /\ g[1] = a /\ g[2] = b /\ (a = 0 \/ b = 0) /\ Said(event).cash = a + b
  BY <1>2 DEF PaymentEvents, Said
<1>4. PICK S : S = {1, 2}
  OBVIOUS
<1>5. /\ DOMAIN store[j].lines = S
      /\ \A i \in S : g[i] = IF store[j].lines[i].account = cash
                               THEN Signed(store[j].lines[i]) ELSE 0
  BY <1>1, <1>2, <1>4 DEF LinesFor, Line, Signed
<1>6. IsFiniteSet(S) /\ IntOn(g, S)
  <2>1. IsFiniteSet({1}) /\ S = {1} \union {2}
    BY <1>4, FS_Singleton
  <2>2. IsFiniteSet(S)
    BY <2>1, FS_AddElement
  <2>3. QED
    BY <1>3, <1>4, <2>2 DEF IntOn
<1>7. Moved(j, cash) = SumOver(g, S)
  BY <1>5, <1>6, MovedSum
<1>8. SumOver(g, S) = a + b
  <2>1. CASE b = 0
    <3>1. 1 \in S /\ \A y \in S \ {1} : g[y] = 0
      BY <1>3, <1>4, <2>1
    <3>2. SumOver(g, S) = g[1]
      BY <1>6, <3>1, SumOnly
    <3>3. QED
      BY <1>3, <2>1, <3>2
  <2>2. CASE a = 0
    <3>1. 2 \in S /\ \A y \in S \ {2} : g[y] = 0
      BY <1>3, <1>4, <2>2
    <3>2. SumOver(g, S) = g[2]
      BY <1>6, <3>1, SumOnly
    <3>3. QED
      BY <1>3, <2>2, <3>2
  <2>3. QED
    BY <1>3, <2>1, <2>2
<1>9. QED
  BY <1>1, <1>3, <1>7, <1>8

\* The events of a payment that are booked.
Financial(p) == EventsOf(p, "captured") \union EventsOf(p, "refunded")

\* Each of them has one journal, and every journal of the payment one of them.
LEMMA PostedOnceEach ==
  ASSUME FinanceInv, NEW p \in Payment \ (raced \union Booked),
         \A e \in Financial(p) : Exists(store[Source(e)])
  PROVE  /\ \A j \in Posted(p) : /\ store[j].source \in Financial(p)
                                 /\ store[Source(store[j].source)] = j
                                 /\ store[j].lines = LinesFor(log[store[j].source])
         /\ \A e \in Financial(p) : /\ store[Source(e)] \in Posted(p)
                                    /\ store[store[Source(e)]].source = e
<1>1. DOMAIN log \subseteq SourceEvent
  BY Places DEF FinanceInv
<1>2. \A e \in Financial(p) : Source(e) \notin raced
  <2>1. SUFFICES ASSUME NEW e \in Financial(p), Source(e) \in raced PROVE FALSE
    OBVIOUS
  <2>2. /\ e \in DOMAIN log /\ log[e].type \in {"captured", "refunded"} /\ log[e].payment = p
    BY DEF Financial, EventsOf
  <2>3. p \in Booked
    BY <2>1, <2>2 DEF Booked
  <2>4. QED
    BY <2>3
<1>3. ASSUME NEW j \in Posted(p)
      PROVE  /\ store[j].source \in Financial(p) /\ store[Source(store[j].source)] = j
             /\ store[j].lines = LinesFor(log[store[j].source])
  <2>1. PICK e : e = store[j].source
    OBVIOUS
  <2>2. j \in Journal /\ Exists(store[j]) /\ e \in DOMAIN log /\ log[e].payment = p
    BY <2>1 DEF Posted, Journals
  <2>3. PostedOK(store, log, raced, j) /\ e \in SourceEvent
    BY <1>1, <2>2 DEF FinanceInv, JournalInv, JournalOK
  <2>4. /\ IsFinancial(log, e) /\ store[j].lines = LinesFor(log[e])
        /\ Source(e) \notin raced => store[Source(e)] = j
    BY <2>1, <2>3 DEF PostedOK
  <2>5. e \in Financial(p)
    BY <2>2, <2>4 DEF IsFinancial, Financial, EventsOf
  <2>6. QED
    BY <1>2, <2>1, <2>4, <2>5
<1>4. ASSUME NEW e \in Financial(p)
      PROVE  store[Source(e)] \in Posted(p) /\ store[store[Source(e)]].source = e
  <2>1. e \in DOMAIN log /\ log[e].payment = p
    BY DEF Financial, EventsOf
  <2>2. SourceOK(store, e)
    BY <1>1, <2>1 DEF FinanceInv, JournalInv
  <2>3. QED
    BY <2>1, <2>2 DEF SourceOK, Posted, Journals
<1>5. QED
  BY <1>3, <1>4

LEMMA BooksAddUp ==
  ASSUME FinanceInv, AtRest, NEW p \in Payment \ (raced \union Booked), Exists(store[p]),
         \A e \in Financial(p) : Exists(store[Source(e)])
  PROVE  MapThenSumSet(LAMBDA j : Moved(j, "CASH_CLEARING"), Posted(p)) = Worth(store[p]).cash
<1>1. PICK g, S, F, P : /\ g = LogSays(log, p, "cash") /\ S = DOMAIN log
                        /\ F = Financial(p) /\ P = Posted(p)
  OBVIOUS
<1>2. IntOn(g, S) /\ IsFiniteSet(S) /\ SumOver(g, S) = Worth(store[p]).cash
  BY <1>1, LogSaysAll DEF Terms
<1>3. /\ F \subseteq S /\ \A i \in S \ F : g[i] = 0
      /\ \A i \in F : g[i] = Said(log[i]).cash
  BY <1>1 DEF LogSays, Said, EventsOf, Financial
<1>4. SumOver(g, S) = SumOver(g, F) /\ IsFiniteSet(F)
  BY <1>2, <1>3, SumPad, FS_Subset
<1>5. /\ \A j \in P : /\ store[j].source \in F /\ store[Source(store[j].source)] = j
                      /\ store[j].lines = LinesFor(log[store[j].source])
      /\ \A e \in F : store[Source(e)] \in P /\ store[store[Source(e)]].source = e
  BY <1>1, PostedOnceEach
<1>6. IsFiniteSet(P)
  <2>1. PICK k : k = [e \in F |-> store[Source(e)]]
    OBVIOUS
  <2>2. k \in Surjection(F, P)
    <3>1. k \in [F -> P]
      BY <1>5, <2>1
    <3>2. \A j \in P : \E e \in F : k[e] = j
      BY <1>5, <2>1
    <3>3. QED
      BY <3>1, <3>2 DEF Surjection
  <2>3. QED
    BY <1>4, <2>2, FS_Surjection
<1>7. PICK f, h : /\ f = [j \in P |-> store[j].source]
                  /\ h = [j \in P |-> Moved(j, "CASH_CLEARING")]
  OBVIOUS
<1>8. \A j \in P : h[j] = g[f[j]]
  <2>1. SUFFICES ASSUME NEW j \in P PROVE h[j] = g[f[j]]
    OBVIOUS
  <2>2. PICK e : e = store[j].source
    OBVIOUS
  <2>3. e \in F /\ f[j] = e /\ store[j].lines = LinesFor(log[e])
    BY <1>5, <1>7, <2>2
  <2>4. log[e] \in PaymentEvents /\ log[e].type \in {"captured", "refunded"}
    <3>1. e \in DOMAIN log /\ log[e].type \in {"captured", "refunded"}
      BY <1>1, <2>3 DEF Financial, EventsOf
    <3>2. QED
      BY <3>1, Places DEF FinanceInv
  <2>5. Moved(j, "CASH_CLEARING") = Said(log[e]).cash
    BY <2>3, <2>4, CashMoved
  <2>6. QED
    BY <1>3, <1>7, <2>3, <2>5
<1>9. Through(f, h, g, P)
  <2>1. \A i, j \in P : f[i] = f[j] => i = j
    <3>1. SUFFICES ASSUME NEW i \in P, NEW j \in P, f[i] = f[j] PROVE i = j
      OBVIOUS
    <3>2. store[i].source = store[j].source
      BY <1>7, <3>1
    <3>3. store[Source(store[i].source)] = i /\ store[Source(store[j].source)] = j
      BY <1>5
    <3>4. QED
      BY <3>2, <3>3
  <2>2. \A j \in P : f[j] \in F
    BY <1>5, <1>7
  <2>3. \A j \in P : g[f[j]] \in Int
    BY <1>2, <1>3, <2>2 DEF IntOn
  <2>4. QED
    BY <1>8, <2>1, <2>3 DEF Through
<1>10. F = {f[j] : j \in P}
  BY <1>5, <1>7
<1>11. SumOver(h, P) = SumOver(g, F)
  BY <1>6, <1>9, <1>10, SumMap
<1>12. PICK cash : cash = "CASH_CLEARING"
  OBVIOUS
<1>13. \A j \in P : h[j] = Moved(j, cash)
  BY <1>7, <1>12
<1>14. MapThenSumSet(LAMBDA j : Moved(j, cash), P) = SumOver(h, P)
  BY <1>6, <1>13, TogetherSum
<1>15. QED
  BY <1>1, <1>2, <1>4, <1>11, <1>12, <1>14

\* Once every event of a payment has been consumed, cash clearing has moved by what was
\* captured less what was refunded, unless a save of the payment or two postings of one
\* event have raced.
THEOREM BooksFollowPaymentsAlways == Spec => []BooksFollowPayments
<1>1. FinanceInv => BooksFollowPayments
  <2>1. SUFFICES ASSUME FinanceInv, AtRest, NEW p \in Payment \ (raced \union Booked),
                        Exists(store[p]), \A e \in Financial(p) : Exists(store[Source(e)])
                 PROVE  MapThenSumSet(LAMBDA j : Moved(j, "CASH_CLEARING"), Posted(p))
                          = (IF EventsOf(p, "captured") = {} THEN 0 ELSE store[p].amount)
                              - store[p].refunded
    BY DEF BooksFollowPayments, Financial
  <2>2. MapThenSumSet(LAMBDA j : Moved(j, "CASH_CLEARING"), Posted(p)) = Worth(store[p]).cash
    BY <2>1, BooksAddUp
  <2>3. Worth(store[p]).cash
          = (IF IsCaptured(store[p]) THEN store[p].amount ELSE 0) - store[p].refunded
    BY <2>1 DEF Worth, Exists
  <2>4. EventsOf(p, "captured") # {} <=> IsCaptured(store[p])
    BY <2>1, CapturedWhenSaid
  <2>5. QED
    BY <2>2, <2>3, <2>4
<1>2. QED
  BY <1>1, FinanceInvariant, PTL

-----------------------------------------------------------------------------
(***************************************************************************)
(* A reversed journal is cancelled.                                        *)
(***************************************************************************)
LEMMA ReversalCancels ==
  ASSUME NEW j, NEW r, store[j] \in JournalRecord, IsReversal(store, r, j), NEW account
  PROVE  Moved(r, account) = -Moved(j, account)
<1>1. PICK lines \in Seq(JournalLine) : lines = store[j].lines
  BY DEF JournalRecord
<1>2. PICK opposite : opposite = ReverseLines(lines)
  OBVIOUS
<1>3. store[r].lines = opposite
  BY <1>1, <1>2 DEF IsReversal
<1>4. PICK S : S = DOMAIN lines
  OBVIOUS
<1>5. DOMAIN opposite = S /\ IsFiniteSet(S) /\ \A i \in S : lines[i] \in JournalLine
  <2>1. Len(lines) \in Nat /\ DOMAIN lines = 1 .. Len(lines)
    OBVIOUS
  <2>2. IsFiniteSet(1 .. Len(lines))
    BY <2>1, FS_Interval
  <2>3. \A i \in S : lines[i] \in JournalLine
    BY <1>4
  <2>4. DOMAIN opposite = S
    BY <1>2, <1>4 DEF ReverseLines
  <2>5. QED
    BY <1>4, <2>1, <2>2, <2>3, <2>4
<1>6. PICK g, h : /\ g = [i \in S |-> IF lines[i].account = account THEN Signed(lines[i]) ELSE 0]
                  /\ h = [i \in S |-> IF opposite[i].account = account
                                        THEN Signed(opposite[i]) ELSE 0]
  OBVIOUS
<1>7. ASSUME NEW i \in S
      PROVE  /\ opposite[i].account = lines[i].account
             /\ Signed(lines[i]) \in Int /\ Signed(opposite[i]) = -Signed(lines[i])
  <2>1. PICK line \in JournalLine : line = lines[i]
    BY <1>5
  <2>2. opposite[i] = [line EXCEPT !.direction = Opposite(@)]
    BY <1>2, <1>4, <2>1 DEF ReverseLines
  <2>3. /\ opposite[i].account = line.account /\ opposite[i].amount = line.amount
        /\ opposite[i].direction = Opposite(line.direction)
    BY <2>1, <2>2 DEF JournalLine
  <2>4. line.amount \in Int /\ line.direction \in {"debit", "credit"}
    BY DEF JournalLine
  <2>5. QED
    BY <2>1, <2>3, <2>4 DEF Signed, Opposite
<1>8. IntOn(g, S) /\ \A i \in S : h[i] = -g[i]
  BY <1>6, <1>7 DEF IntOn
<1>9. SumOver(h, S) = -SumOver(g, S)
  BY <1>5, <1>8, SumMinus
<1>10. Moved(j, account) = SumOver(g, S)
  BY <1>1, <1>4, <1>5, <1>6, MovedSum
<1>11. Moved(r, account) = SumOver(h, S)
  BY <1>3, <1>5, <1>6, MovedSum
<1>12. QED
  BY <1>9, <1>10, <1>11

\* At rest no reversal is half way, so a journal that has not raced has the reversal it
\* names and no other.
LEMMA ReversalsAtRest ==
  ASSUME FinanceInv, AtRest, NEW j \in Journals \ raced
  PROVE  \A r \in ReversalsOf(j) : store[j].status = "reversed" /\ store[j].reversedBy = r
<1>1. ASSUME NEW r \in ReversalsOf(j)
      PROVE  store[j].status = "reversed" /\ store[j].reversedBy = r
  <2>1. ReversalOK(store, work, j, r)
    BY DEF FinanceInv, JournalInv, ReversalsOf, Journals
  <2>2. \A c \in Call : ~HalfReversed(work[c], store, j, r)
    <3>1. \A c \in Call : work[c] = Idle
      BY DEF AtRest, IsIdle
    <3>2. ~HalfReversed(Idle, store, j, r)
      BY IdleCall DEF HalfReversed
    <3>3. QED
      BY <3>1, <3>2
  <2>3. QED
    BY <2>1, <2>2 DEF ReversalOK
<1>2. QED
  BY <1>1

\* Whichever reversals overlap, a journal that counts as reversed is cancelled by a
\* journal on file; and by exactly one, unless two reversals have raced.
THEOREM ReversedIsCancelledAlways == Spec => []ReversedIsCancelled
<1>1. ASSUME FinanceInv, NEW j \in Journals, store[j].status = "reversed"
      PROVE  /\ store[j].reversedBy \in ReversalsOf(j)
             /\ \A account : Moved(store[j].reversedBy, account) = -Moved(j, account)
  <2>1. PICK r : r = store[j].reversedBy
    OBVIOUS
  <2>2. JournalOK(store, log, raced, j)
    BY <1>1 DEF FinanceInv, JournalInv, Journals
  <2>3. store[j] \in JournalRecord /\ r \in Journal /\ IsReversal(store, r, j)
    BY <1>1, <2>1, <2>2 DEF JournalOK
  <2>4. r \in ReversalsOf(j)
    BY <2>3 DEF ReversalsOf, Journals, IsReversal
  <2>5. \A account : Moved(r, account) = -Moved(j, account)
    BY <2>3, ReversalCancels
  <2>6. QED
    BY <2>1, <2>4, <2>5
<1>2. ASSUME FinanceInv, NEW j \in Journals, AtRest, j \notin raced
      PROVE  Cardinality(ReversalsOf(j)) = IF store[j].status = "reversed" THEN 1 ELSE 0
  <2>1. PICK S, r : S = ReversalsOf(j) /\ r = store[j].reversedBy
    OBVIOUS
  <2>2. \A q \in S : store[j].status = "reversed" /\ r = q
    BY <1>2, <2>1, ReversalsAtRest
  <2>3. CASE store[j].status = "reversed"
    <3>1. S = {r}
      BY <1>1, <1>2, <2>1, <2>2, <2>3
    <3>2. Cardinality({r}) = 1
      BY FS_Singleton
    <3>3. QED
      BY <2>1, <2>3, <3>1, <3>2
  <2>4. CASE store[j].status # "reversed"
    <3>1. S = {}
      BY <2>2, <2>4
    <3>2. Cardinality({}) = 0
      BY FS_EmptySet
    <3>3. QED
      BY <2>1, <2>4, <3>1, <3>2
  <2>5. QED
    BY <2>3, <2>4
<1>3. FinanceInv => ReversedIsCancelled
  <2>1. SUFFICES ASSUME FinanceInv PROVE ReversedIsCancelled
    OBVIOUS
  <2>2. \A j \in Journals : store[j].status = "reversed" =>
          /\ store[j].reversedBy \in ReversalsOf(j)
          /\ \A account : Moved(store[j].reversedBy, account) = -Moved(j, account)
    BY <1>1, <2>1
  <2>3. \A j \in Journals : AtRest /\ j \notin raced =>
          Cardinality(ReversalsOf(j)) = IF store[j].status = "reversed" THEN 1 ELSE 0
    BY <1>2, <2>1
  <2>4. QED
    BY <2>2, <2>3 DEF ReversedIsCancelled
<1>4. QED
  BY <1>3, FinanceInvariant, PTL

-----------------------------------------------------------------------------
(***************************************************************************)
(* Suppliers: what a call of Parties or Catalog has staged, given what it  *)
(* has seen.                                                               *)
(***************************************************************************)
Kept == Party \union Relationship \union Item

FollowsParty(old, next) ==
  /\ old \in PartyRecord /\ next \in PartyRecord
  /\ next.principal \in {old.principal, NoPrincipal}
  /\ IsTerminal(old) => IsTerminal(next)
  /\ next.status = "merged" => old.status = "merged" /\ next.into = old.into

\* A party that is new, or is given a principal that no other has.
ClaimsPrincipal(seen, p, next) ==
  /\ next \in PartyRecord /\ next.status # "merged"
  /\ \/ next.principal = NoPrincipal
     \/ \A q \in Party \ {p} :
          q \in DOMAIN seen /\ (IsSupplier(seen[q]) => seen[q].principal # next.principal)

MergesInto(seen, p, next) ==
  /\ next \in PartyRecord /\ next.status = "merged" /\ next.into \in Party \ {p}
  /\ next.into \in DOMAIN seen /\ IsSupplier(seen[next.into])

SavesParty(seen, p, next) ==
  \/ p \in DOMAIN seen /\ FollowsParty(seen[p], next)
  \/ ClaimsPrincipal(seen, p, next)
  \/ MergesInto(seen, p, next)

PartyWork(seen, writes, news) ==
  /\ DOMAIN news \subseteq Party \union Channel
  /\ \/ writes = <<>>
     \/ \E p \in Party, next \in PartyRecord :
          writes = << p :> next >> /\ SavesParty(seen, p, next)
     \/ \E s, a \in Party, x, y \in PartyRecord :
          /\ writes = << s :> x, a :> y >>
          /\ SavesParty(seen, s, x) /\ SavesParty((s :> x) @@ seen, a, y)

SavesRelationship(seen, next) ==
  \/ next.removed
  \/ \A t \in Relationship :
       /\ t \in DOMAIN seen
       /\ IsRelated(seen[t]) =>
            seen[t].from # next.from \/ seen[t].to # next.to \/ seen[t].type # next.type

RelationshipWork(seen, writes, news) ==
  /\ DOMAIN news \subseteq Relationship
  /\ \/ writes = <<>>
     \/ \E r \in Relationship, next \in RelationshipRecord :
          writes = << r :> next >> /\ SavesRelationship(seen, next)

\* The news is of this item only, and is true of it.
Tells(news, i, item) ==
  /\ DOMAIN news \subseteq {i} \union Variant
                            \union {PriceOf(i, v) : v \in Variant \union {NoVariant}}
  /\ i \in DOMAIN news => news[i] = item.status
  /\ \A v \in Variant \union {NoVariant} : PriceOf(i, v) \in DOMAIN news =>
       v \in DOMAIN item.prices /\ news[PriceOf(i, v)] = item.prices[v]

\* What is not told anew is as it was.
FollowsItem(old, next, news, i) ==
  /\ old \in ItemRecord /\ next.code = old.code /\ (IsItem(next) => IsItem(old))
  /\ i \notin DOMAIN news => next.status = old.status
  /\ \A v \in DOMAIN old.prices : PriceOf(i, v) \notin DOMAIN news =>
       v \in DOMAIN next.prices /\ next.prices[v] = old.prices[v]

\* A new item, of a code that no other has.
IsFree(seen, i, code) ==
  /\ seen[i] = NoRecord
  /\ \A j \in Item : j \in DOMAIN seen /\ (IsItem(seen[j]) => seen[j].code # code)

SavesItem(seen, news, i, next) ==
  /\ i \in DOMAIN seen /\ next \in ItemRecord /\ VariantsApart(next) /\ Tells(news, i, next)
  /\ \/ FollowsItem(seen[i], next, news, i)
     \/ IsFree(seen, i, next.code) /\ i \in DOMAIN news

ItemWork(seen, writes, news) ==
  \E i \in Item :
    \/ writes = <<>> /\ i \in DOMAIN seen /\ Exists(seen[i]) /\ Tells(news, i, seen[i])
    \/ \E next \in ItemRecord : writes = << i :> next >> /\ SavesItem(seen, news, i, next)

OfferWork(seen, writes, news) ==
  \/ PartyWork(seen, writes, news)
  \/ RelationshipWork(seen, writes, news)
  \/ ItemWork(seen, writes, news)

\* A call that waits for the answer to a read.
OfferReading(op, todo, seen) ==
  \/ \E i \in Item, s \in Party : \E code, status, orderable, money :
       /\ op = <<"createItem", i, code, status, orderable, s, money>> /\ todo = << {s} >>
       /\ IsFree(seen, i, code)
  \/ \E i \in Item, s \in Party :
       /\ op = <<"supplier", i, s>> /\ todo = << {s} >>
       /\ i \in DOMAIN seen /\ seen[i] \in ItemRecord /\ VariantsApart(seen[i])
  \/ \E p \in Party, x \in Principal :
       /\ op = <<"link", p, x>> /\ todo = << Party \ {p} >>
       /\ p \in DOMAIN seen /\ seen[p] \in PartyRecord /\ ~IsTerminal(seen[p])
  \/ \E r \in Relationship, from, to \in Party, type \in RelationshipType :
       /\ op = <<"relate", r, from, to, type>>
       /\ todo \in {<< {to}, Relationship >>, << Relationship >>}
  \/ \E s, a \in Party :
       /\ op = <<"merge", s, a>> /\ todo = << {a} >> /\ s # a
       /\ s \in DOMAIN seen /\ seen[s] \in PartyRecord

OfferCallInv(call) ==
  /\ DOMAIN call.seen \subseteq Kept
  /\ \/ call = Idle
     \/ call.todo # <<>> /\ OfferReading(call.op, call.todo, call.seen)
     \/ call.todo = <<>> /\ OfferWork(call.seen, call.writes, call.news)

-----------------------------------------------------------------------------
(***************************************************************************)
(* What is on file, and what of it has been told.                          *)
(***************************************************************************)
\* A call has saved what k tells of, and is still to tell it.
ToTell(w, k) == \E c \in Call : w[c].writes = <<>> /\ k \in DOMAIN w[c].news

StatusTold(s, t, w, rc) ==
  \A i \in Item \ rc : Exists(s[i]) /\ Exists(t[i]) => t[i] = s[i].status \/ ToTell(w, i)

PriceTold(item, v, price) == Exists(item) /\ v \in DOMAIN item.prices /\ price = item.prices[v]

PricesTold(s, t, w, rc) ==
  \A i \in Item \ rc, v \in Variant \union {NoVariant} :
    PriceOf(i, v) \notin rc /\ Exists(t[PriceOf(i, v)]) =>
      PriceTold(s[i], v, t[PriceOf(i, v)]) \/ ToTell(w, PriceOf(i, v))

MergesInOrder(s, rc) ==
  rc \intersect Party = {} => \E order \in [Party -> Nat] : InOrder(s, order)

SuppliersInv ==
  /\ CallsOK /\ Key \subseteq DOMAIN told
  /\ \A c \in Call : OfferCallInv(work[c])
  /\ Records(store) /\ Unique(store, raced) /\ MergesInOrder(store, raced)
  /\ StatusTold(store, told, work, raced) /\ PricesTold(store, told, work, raced)

-----------------------------------------------------------------------------
(***************************************************************************)
(* Keys and records.                                                       *)
(***************************************************************************)
LEMMA KindsApart ==
  /\ Party \intersect Relationship = {} /\ Party \intersect Item = {}
  /\ Relationship \intersect Item = {}
  /\ Channel \intersect Item = {} /\ Variant \intersect Item = {}
  /\ Prices \intersect (Kept \union Channel \union Variant) = {}
<1>1. DOMAIN Kinds = 1 .. 6
  BY DEF Kinds
<1>2. /\ Kinds[1] = Party /\ Kinds[2] = Channel /\ Kinds[3] = Relationship
      /\ Kinds[4] = Item /\ Kinds[5] = Variant /\ Kinds[6] = Prices
  BY DEF Kinds
<1>3. \A m, n \in 1 .. 6 : m # n => Kinds[m] \intersect Kinds[n] = {}
  BY <1>1, SuppliersAssumption
<1>4. /\ Party \intersect Relationship = {} /\ Party \intersect Item = {}
      /\ Relationship \intersect Item = {}
      /\ Channel \intersect Item = {} /\ Variant \intersect Item = {}
  BY <1>2, <1>3
<1>5. /\ Prices \intersect Party = {} /\ Prices \intersect Relationship = {}
      /\ Prices \intersect Item = {} /\ Prices \intersect Channel = {}
      /\ Prices \intersect Variant = {}
  BY <1>2, <1>3
<1>6. QED
  BY <1>4, <1>5 DEF Kept

LEMMA PricesAre ==
  ASSUME NEW i \in Item, NEW v \in Variant \union {NoVariant}
  PROVE  /\ PriceOf(i, v) \in Prices /\ PriceOf(i, v) \in Key
         /\ PriceOf(i, v) \notin Kept \union Channel \union Variant
         /\ \A j, u : PriceOf(i, v) = PriceOf(j, u) => i = j /\ v = u
<1>1. PriceOf(i, v) \in Prices
  BY DEF Prices
<1>2. PriceOf(i, v) \notin Kept \union Channel \union Variant
  BY <1>1, KindsApart
<1>3. QED
  BY <1>1, <1>2, CatalogAssumption DEF PriceOf

LEMMA RecordsExist ==
  /\ ~Exists(NoRecord)
  /\ \A x \in PartyRecord \union RelationshipRecord \union ItemRecord : Exists(x)
BY PartiesAssumption, CatalogAssumption DEF Exists

LEMMA KeptKeys == Kept \subseteq Key
BY PartiesAssumption, CatalogAssumption DEF Kept

LEMMA OnFile ==
  ASSUME Records(store)
  PROVE  /\ \A p \in Party : Exists(store[p]) => store[p] \in PartyRecord
         /\ \A r \in Relationship : Exists(store[r]) => store[r] \in RelationshipRecord
         /\ \A i \in Item : Exists(store[i]) => store[i] \in ItemRecord /\ VariantsApart(store[i])
BY DEF Records, Exists

-----------------------------------------------------------------------------
(***************************************************************************)
(* Steps that save and publish nothing.                                    *)
(***************************************************************************)
LEMMA ToTellKept ==
  ASSUME NEW c \in Call, OthersStay(c), NEW k, ToTell(work, k),
         k \notin DOMAIN work[c].news \/ work[c].writes # <<>>
  PROVE  ToTell(work', k)
<1>1. PICK d \in Call : work[d].writes = <<>> /\ k \in DOMAIN work[d].news
  BY DEF ToTell
<1>2. d # c
  BY <1>1
<1>3. QED
  BY <1>1, <1>2 DEF ToTell, OthersStay

SavesNothing(c) ==
  /\ CallsOK' /\ OthersStay(c) /\ store' = store /\ told' = told /\ raced' = raced
  /\ work[c].news = <<>> /\ OfferCallInv(work'[c])

LEMMA SavesNothingKeeps ==
  ASSUME SuppliersInv, NEW c \in Call, SavesNothing(c)
  PROVE  SuppliersInv'
<1>1. \A d \in Call : OfferCallInv(work'[d])
  BY DEF SuppliersInv, SavesNothing, OthersStay
<1>2. ASSUME NEW k, ToTell(work, k) PROVE ToTell(work', k)
  BY <1>2, ToTellKept DEF SavesNothing
<1>3. StatusTold(store', told', work', raced')
  BY <1>2 DEF SuppliersInv, SavesNothing, StatusTold
<1>4. PricesTold(store', told', work', raced')
  BY <1>2 DEF SuppliersInv, SavesNothing, PricesTold
<1>5. QED
  BY <1>1, <1>3, <1>4 DEF SuppliersInv, SavesNothing

\* A call that is free to stage has told nothing and seen only what is kept.
LEMMA FreeOfferCall ==
  ASSUME SuppliersInv, NEW c \in Call, ~Committing(c)
  PROVE  /\ CallsOK /\ work[c].writes = <<>> /\ work[c].news = <<>>
         /\ DOMAIN work[c].seen \subseteq Kept
         /\ IsIdle(c) \/ work[c].todo # <<>>
         /\ IsIdle(c) => work[c].seen = <<>>
         /\ ~IsIdle(c) => OfferReading(work[c].op, work[c].todo, work[c].seen)
BY IdleCall DEF SuppliersInv, Committing, IsIdle, OfferCallInv, CallsOK, IsCall

LEMMA StageSavesNothing ==
  ASSUME SuppliersInv, NEW c \in Call, ~Committing(c), NEW reads, NEW writes, NEW news,
         Stage(c, reads, writes, news), reads[Len(reads)] \subseteq Kept,
         OfferWork(Saw(c, reads), writes, news)
  PROVE  SavesNothing(c)
<1>1. /\ CallsOK' /\ OthersStay(c) /\ store' = store /\ told' = told /\ raced' = raced
      /\ work'[c].todo = <<>> /\ work'[c].seen = Saw(c, reads)
      /\ work'[c].writes = writes /\ work'[c].news = news
  BY FreeOfferCall, StageEffect
<1>2. DOMAIN Saw(c, reads) \subseteq Kept
  BY FreeOfferCall DEF Saw, Answers, @@
<1>3. QED
  BY <1>1, <1>2, FreeOfferCall DEF SavesNothing, OfferCallInv

\* What a call sees that stages after its first read.
LEMMA SawFirst ==
  ASSUME SuppliersInv, NEW c \in Call, IsIdle(c), NEW K
  PROVE  /\ << K >>[Len(<< K >>)] = K
         /\ Saw(c, << K >>) = Answers(K) /\ DOMAIN Answers(K) = K
         /\ \A k \in K : Answers(K)[k] = store[k]
<1>1. work[c].seen = <<>>
  BY FreeOfferCall, IdleCall DEF Committing, IsIdle
<1>2. << K >>[Len(<< K >>)] = K
  OBVIOUS
<1>3. DOMAIN Answers(K) = K /\ \A k \in K : Answers(K)[k] = store[k]
  BY DEF Answers
<1>4. Answers(K) @@ <<>> = Answers(K)
  BY <1>3 DEF @@, Answers
<1>5. QED
  BY <1>1, <1>2, <1>3, <1>4 DEF Saw

LEMMA NoNews == DOMAIN <<>> = {}
OBVIOUS

-----------------------------------------------------------------------------
(***************************************************************************)
(* Operations on parties.                                                  *)
(***************************************************************************)
LEMMA PartySaved ==
  ASSUME SuppliersInv, NEW c \in Call, IsIdle(c), NEW p \in Party, NEW next, NEW news,
         SaveParty(c, p, next, news), FollowsParty(store[p], next),
         DOMAIN news \subseteq Party \union Channel
  PROVE  SavesNothing(c)
<1>1. PICK writes : writes = << p :> next >>
  OBVIOUS
<1>2. PICK reads : reads = << {p} >>
  OBVIOUS
<1>3. Stage(c, reads, writes, news)
  BY <1>1, <1>2 DEF SaveParty
<1>4. /\ reads[Len(reads)] = {p} /\ DOMAIN Saw(c, reads) = {p}
      /\ Saw(c, reads)[p] = store[p]
  BY <1>2, SawFirst
<1>5. SavesParty(Saw(c, reads), p, next) /\ next \in PartyRecord
  BY <1>4 DEF SavesParty, FollowsParty
<1>6. OfferWork(Saw(c, reads), writes, news)
  BY <1>1, <1>5 DEF OfferWork, PartyWork
<1>7. ~Committing(c) /\ {p} \subseteq Kept
  BY DEF Committing, Kept
<1>8. QED
  BY <1>3, <1>4, <1>6, <1>7, StageSavesNothing

LEMMA CreatePartyQuiet ==
  ASSUME SuppliersInv, NEW c \in Call, CreateParty(c)
  PROVE  SavesNothing(c)
<1>1. PICK p \in Fresh(Party), status \in {"draft", "active"}, roles \in SUBSET RoleKey,
          x \in Principal \union {NoPrincipal}, channels \in SUBSET Fresh(Channel) :
        \E primaries \in SUBSET channels :
          /\ IsIdle(c)
          /\ x = NoPrincipal \/ FindByPrincipal(x) = {}
          /\ Stage(c, << IF x = NoPrincipal THEN {} ELSE Party >>,
                   << p :> NewParty(status, roles, x, primaries, channels \ primaries) >>,
                   (p :> status) @@ [ch \in channels |-> "added"])
  BY DEF CreateParty
<1>2. PICK primaries \in SUBSET channels :
          /\ IsIdle(c)
          /\ x = NoPrincipal \/ FindByPrincipal(x) = {}
          /\ Stage(c, << IF x = NoPrincipal THEN {} ELSE Party >>,
                   << p :> NewParty(status, roles, x, primaries, channels \ primaries) >>,
                   (p :> status) @@ [ch \in channels |-> "added"])
  BY <1>1
<1>3. p \in Party /\ channels \subseteq Channel
  BY DEF Fresh
<1>4. PICK next : next = NewParty(status, roles, x, primaries, channels \ primaries)
  OBVIOUS
<1>5. next \in PartyRecord /\ next.status # "merged" /\ next.principal = x
  BY <1>3, <1>4 DEF NewParty, PartyRecord
<1>6. PICK news : news = (p :> status) @@ [ch \in channels |-> "added"]
  OBVIOUS
<1>7. DOMAIN news \subseteq Party \union Channel
  BY <1>3, <1>6 DEF :>, @@
<1>8. PICK K : K = IF x = NoPrincipal THEN {} ELSE Party
  OBVIOUS
<1>9. PICK reads : reads = << K >>
  OBVIOUS
<1>10. PICK writes : writes = << p :> next >>
  OBVIOUS
<1>11. Stage(c, reads, writes, news)
  BY <1>2, <1>4, <1>6, <1>8, <1>9, <1>10
<1>12. /\ reads[Len(reads)] = K /\ DOMAIN Saw(c, reads) = K
       /\ \A k \in K : Saw(c, reads)[k] = store[k]
  BY <1>2, <1>9, SawFirst
<1>13. ClaimsPrincipal(Saw(c, reads), p, next)
  <2>1. CASE x = NoPrincipal
    BY <1>5, <2>1 DEF ClaimsPrincipal
  <2>2. CASE x # NoPrincipal
    <3>1. \A q \in Party : IsSupplier(store[q]) => store[q].principal # x
      BY <1>2, <2>2 DEF FindByPrincipal, IsSupplier
    <3>2. QED
      BY <1>5, <1>8, <1>12, <2>2, <3>1 DEF ClaimsPrincipal
  <2>3. QED
    BY <2>1, <2>2
<1>14. OfferWork(Saw(c, reads), writes, news)
  BY <1>3, <1>5, <1>7, <1>10, <1>13 DEF OfferWork, PartyWork, SavesParty
<1>15. ~Committing(c) /\ K \subseteq Kept
  BY <1>2, <1>8 DEF Committing, Kept
<1>16. QED
  BY <1>11, <1>12, <1>14, <1>15, StageSavesNothing

\* What the other operations that save one party make of it.
SameStanding(old, next) ==
  /\ next \in PartyRecord /\ next.principal = old.principal /\ next.status = old.status
  /\ next.into = old.into

LEMMA SameFollows ==
  ASSUME NEW old \in PartyRecord, NEW next, SameStanding(old, next)
  PROVE  FollowsParty(old, next)
BY DEF SameStanding, FollowsParty, IsTerminal

LEMMA MovedFollows ==
  ASSUME NEW old \in PartyRecord, NEW next, ~IsTerminal(old),
         NEW to \in {"active", "inactive", "deleted"}, next = [old EXCEPT !.status = to]
  PROVE  FollowsParty(old, next)
<1>1. next \in PartyRecord /\ next.principal = old.principal /\ next.status = to
  BY DEF PartyRecord
<1>2. QED
  BY <1>1 DEF FollowsParty

LEMMA UnlinkedFollows ==
  ASSUME NEW old \in PartyRecord, NEW next, next = [old EXCEPT !.principal = NoPrincipal]
  PROVE  FollowsParty(old, next)
<1>1. /\ next \in PartyRecord /\ next.principal = NoPrincipal /\ next.status = old.status
      /\ next.into = old.into
  BY DEF PartyRecord
<1>2. QED
  BY <1>1 DEF FollowsParty, IsTerminal

LEMMA TransitionStatusQuiet ==
  ASSUME SuppliersInv, NEW c \in Call, NEW from, NEW to \in {"active", "inactive", "deleted"},
         from \subseteq {"draft", "active", "inactive"}, TransitionStatus(c, from, to)
  PROVE  SavesNothing(c)
<1>1. PICK p \in Party :
        /\ IsIdle(c) /\ Exists(store[p]) /\ store[p].status \in from
        /\ SaveParty(c, p, [store[p] EXCEPT !.status = to], p :> to)
  BY DEF TransitionStatus
<1>2. store[p] \in PartyRecord /\ ~IsTerminal(store[p])
  BY <1>1, OnFile DEF SuppliersInv, IsTerminal
<1>3. PICK next : next = [store[p] EXCEPT !.status = to]
  OBVIOUS
<1>4. FollowsParty(store[p], next)
  BY <1>2, <1>3, MovedFollows
<1>5. PICK news : news = p :> to
  OBVIOUS
<1>6. DOMAIN news \subseteq Party \union Channel
  BY <1>5 DEF :>
<1>7. SaveParty(c, p, next, news)
  BY <1>1, <1>3, <1>5
<1>8. QED
  BY <1>1, <1>4, <1>6, <1>7, PartySaved

LEMMA SavesAsItWas ==
  ASSUME SuppliersInv, NEW c \in Call, AddContactPerson(c) \/ UpdatePartyProfile(c)
  PROVE  SavesNothing(c)
<1>1. PICK p \in Party : IsIdle(c) /\ Exists(store[p]) /\ SaveParty(c, p, store[p], <<>>)
  BY DEF AddContactPerson, UpdatePartyProfile
<1>2. FollowsParty(store[p], store[p])
  BY <1>1, OnFile, SameFollows DEF SuppliersInv, SameStanding
<1>3. PICK news : news = <<>>
  OBVIOUS
<1>4. DOMAIN news = {}
  BY <1>3
<1>5. QED
  BY <1>1, <1>2, <1>3, <1>4, PartySaved

LEMMA ClassificationQuiet ==
  ASSUME SuppliersInv, NEW c \in Call, GrantClassification(c) \/ RevokeClassification(c)
  PROVE  SavesNothing(c)
<1>1. PICK p \in Party, roles \in SUBSET RoleKey :
        /\ IsIdle(c) /\ Exists(store[p])
        /\ SaveParty(c, p, [store[p] EXCEPT !.roles = roles], <<>>)
  <2>1. CASE GrantClassification(c)
    <3>1. PICK p \in Party, role \in RoleKey :
            /\ IsIdle(c) /\ Exists(store[p])
            /\ SaveParty(c, p, [store[p] EXCEPT !.roles = @ \union {role}], <<>>)
      BY <2>1 DEF GrantClassification
    <3>2. store[p].roles \union {role} \in SUBSET RoleKey
      BY <3>1, OnFile DEF SuppliersInv, PartyRecord
    <3>3. QED
      BY <3>1, <3>2
  <2>2. CASE RevokeClassification(c)
    <3>1. PICK p \in Party, role \in RoleKey :
            /\ IsIdle(c) /\ Exists(store[p])
            /\ SaveParty(c, p, [store[p] EXCEPT !.roles = @ \ {role}], <<>>)
      BY <2>2 DEF RevokeClassification
    <3>2. store[p].roles \ {role} \in SUBSET RoleKey
      BY <3>1, OnFile DEF SuppliersInv, PartyRecord
    <3>3. QED
      BY <3>1, <3>2
  <2>3. QED
    BY <2>1, <2>2
<1>2. PICK next : next = [store[p] EXCEPT !.roles = roles]
  OBVIOUS
<1>3. FollowsParty(store[p], next)
  <2>1. store[p] \in PartyRecord
    BY <1>1, OnFile DEF SuppliersInv
  <2>2. SameStanding(store[p], next)
    BY <1>2, <2>1 DEF SameStanding, PartyRecord
  <2>3. QED
    BY <2>1, <2>2, SameFollows
<1>4. PICK news : news = <<>>
  OBVIOUS
<1>5. DOMAIN news = {}
  BY <1>4
<1>6. QED
  BY <1>1, <1>2, <1>3, <1>4, <1>5, PartySaved

LEMMA UnlinkPrincipalQuiet ==
  ASSUME SuppliersInv, NEW c \in Call, UnlinkPrincipal(c)
  PROVE  SavesNothing(c)
<1>1. PICK p \in Party :
        /\ IsIdle(c) /\ Exists(store[p])
        /\ SaveParty(c, p, [store[p] EXCEPT !.principal = NoPrincipal], <<>>)
  BY DEF UnlinkPrincipal
<1>2. PICK next : next = [store[p] EXCEPT !.principal = NoPrincipal]
  OBVIOUS
<1>3. FollowsParty(store[p], next)
  <2>1. store[p] \in PartyRecord
    BY <1>1, OnFile DEF SuppliersInv
  <2>2. QED
    BY <1>2, <2>1, UnlinkedFollows
<1>4. PICK news : news = <<>>
  OBVIOUS
<1>5. DOMAIN news = {}
  BY <1>4
<1>6. QED
  BY <1>1, <1>2, <1>3, <1>4, <1>5, PartySaved

LEMMA ContactChannelQuiet ==
  ASSUME SuppliersInv, NEW c \in Call, AddContactChannel(c) \/ RemoveContactChannel(c)
  PROVE  SavesNothing(c)
<1>1. PICK p \in Party, ch \in Channel : \E next, how :
        /\ IsIdle(c) /\ SaveParty(c, p, next, ch :> how) /\ FollowsParty(store[p], next)
  <2>1. CASE AddContactChannel(c)
    <3>1. PICK p \in Party, ch \in Fresh(Channel), primary \in BOOLEAN :
            LET party == store[p]
                next == IF primary
                          THEN [party EXCEPT !.primaries = {ch},
                                             !.others = @ \union party.primaries]
                          ELSE [party EXCEPT !.others = @ \union {ch}]
            IN  /\ IsIdle(c) /\ Exists(party) /\ ~IsTerminal(party)
                /\ SaveParty(c, p, next, ch :> "added")
      BY <2>1, Zenon DEF AddContactChannel
    <3>2. ch \in Channel /\ store[p] \in PartyRecord
      BY <3>1, OnFile DEF SuppliersInv, Fresh
    <3>3. PICK next : next = IF primary
                               THEN [store[p] EXCEPT !.primaries = {ch},
                                                     !.others = @ \union store[p].primaries]
                               ELSE [store[p] EXCEPT !.others = @ \union {ch}]
      OBVIOUS
    <3>4. SameStanding(store[p], next)
      <4>1. CASE primary
        BY <3>2, <3>3, <4>1 DEF SameStanding, PartyRecord
      <4>2. CASE ~primary
        BY <3>2, <3>3, <4>2 DEF SameStanding, PartyRecord
      <4>3. QED
        BY <4>1, <4>2
    <3>5. FollowsParty(store[p], next)
      BY <3>2, <3>4, SameFollows
    <3>6. QED
      BY <3>1, <3>2, <3>3, <3>5
  <2>2. CASE RemoveContactChannel(c)
    <3>1. PICK p \in Party, ch \in Channel :
            /\ IsIdle(c) /\ Exists(store[p]) /\ ch \in store[p].primaries \union store[p].others
            /\ SaveParty(c, p, [store[p] EXCEPT !.primaries = @ \ {ch}, !.others = @ \ {ch}],
                         ch :> "removed")
      BY <2>2, Zenon DEF RemoveContactChannel
    <3>2. store[p] \in PartyRecord
      BY <3>1, OnFile DEF SuppliersInv
    <3>3. PICK next : next = [store[p] EXCEPT !.primaries = @ \ {ch}, !.others = @ \ {ch}]
      OBVIOUS
    <3>4. SameStanding(store[p], next)
      BY <3>2, <3>3 DEF SameStanding, PartyRecord
    <3>5. FollowsParty(store[p], next)
      BY <3>2, <3>4, SameFollows
    <3>6. QED
      BY <3>1, <3>3, <3>5
  <2>3. QED
    BY <2>1, <2>2
<1>2. PICK next, how :
        /\ IsIdle(c) /\ SaveParty(c, p, next, ch :> how) /\ FollowsParty(store[p], next)
  BY <1>1
<1>3. PICK news : news = ch :> how
  OBVIOUS
<1>4. DOMAIN news \subseteq Party \union Channel
  BY <1>3 DEF :>
<1>5. SaveParty(c, p, next, news)
  BY <1>2, <1>3
<1>6. QED
  BY <1>2, <1>4, <1>5, PartySaved

-----------------------------------------------------------------------------
(***************************************************************************)
(* Operations that read more than once.                                    *)
(***************************************************************************)
LEMMA ReadSavesNothing ==
  ASSUME SuppliersInv, NEW c \in Call, ~Committing(c), NEW op, NEW reads \in Seq(SUBSET Key),
         Read(c, op, reads), DOMAIN work'[c].seen \subseteq Kept,
         OfferReading(op, work'[c].todo, work'[c].seen)
  PROVE  SavesNothing(c)
BY FreeOfferCall, ReadEffect DEF SavesNothing, OfferCallInv

Two(reads, K, L) == reads = << K, L >>

LEMMA Several ==
  ASSUME NEW S, NEW s \in Seq(S), Len(s) > 1
  PROVE  s # <<>> /\ Len(s) # 1
<1>1. s # <<>>
  BY TailKeeps
<1>2. PICK n \in Nat : n = Len(s)
  BY LenProperties
<1>3. n # 1
  BY <1>2
<1>4. QED
  BY <1>1, <1>2, <1>3

LEMMA FirstRead ==
  ASSUME SuppliersInv, NEW c \in Call, ~Committing(c), NEW op,
         NEW K \in SUBSET Kept, NEW L \in SUBSET Kept, NEW reads, Two(reads, K, L),
         Read(c, op, reads), OfferReading(op, << L >>, Answers(K)),
         work[c].op = op /\ work[c].todo # <<>> => Len(work[c].todo) = 1
  PROVE  SavesNothing(c)
<1>1. reads \in Seq(SUBSET Key) /\ Tail(reads) = << L >> /\ reads[1] = K
  BY KeptKeys DEF Two
<1>2. ~(work[c].op = op /\ Len(work[c].todo) > 1)
  <2>1. PICK todo : todo = work[c].todo
    OBVIOUS
  <2>2. todo \in Seq(SUBSET Key)
    BY <2>1, FreeOfferCall DEF CallsOK, IsCall
  <2>3. Len(todo) > 1 => todo # <<>> /\ Len(todo) # 1
    BY <2>2, Several
  <2>4. QED
    BY <2>1, <2>3
<1>3. work'[c].todo = << L >> /\ work'[c].seen = Answers(K)
  BY <1>1, <1>2, FreeOfferCall, ReadAnswers
<1>4. QED
  BY <1>1, <1>3, ReadSavesNothing DEF Answers

\* A call at the last of two reads.
LastOfTwo(c, op, reads, L) == LastRead(c, op, reads) /\ \E K : Two(reads, K, L)

SeenBoth(c, reads, L) ==
  /\ reads[Len(reads)] = L /\ DOMAIN Saw(c, reads) = L \union DOMAIN work[c].seen
  /\ \A k \in L : Saw(c, reads)[k] = store[k]
  /\ \A k \in DOMAIN work[c].seen \ L : Saw(c, reads)[k] = work[c].seen[k]

LEMMA SecondRead ==
  ASSUME SuppliersInv, NEW c \in Call, ~Committing(c), NEW op, NEW reads, NEW L,
         LastOfTwo(c, op, reads, L)
  PROVE  OfferReading(op, work[c].todo, work[c].seen) /\ SeenBoth(c, reads, L)
<1>1. LastRead(c, op, reads) /\ Len(reads) # 1 /\ reads[Len(reads)] = L
  BY DEF LastOfTwo, Two
<1>2. work[c].op = op /\ Len(work[c].todo) = 1 /\ work[c].todo # <<>>
  BY <1>1, FreeOfferCall, AtLast
<1>3. OfferReading(op, work[c].todo, work[c].seen)
  BY <1>2, FreeOfferCall, IdleCall DEF IsIdle
<1>4. Saw(c, reads) = Answers(L) @@ work[c].seen
  BY <1>1 DEF Saw
<1>5. DOMAIN Answers(L) = L /\ \A k \in L : Answers(L)[k] = store[k]
  BY DEF Answers
<1>6. QED
  BY <1>1, <1>2, <1>3, <1>4, <1>5 DEF @@, SeenBoth

LEMMA LinkReads ==
  ASSUME NEW p, NEW x, NEW todo, NEW seen, OfferReading(<<"link", p, x>>, todo, seen)
  PROVE  /\ todo = << Party \ {p} >>
         /\ p \in DOMAIN seen /\ seen[p] \in PartyRecord /\ ~IsTerminal(seen[p])
BY DEF OfferReading

LEMMA RelateReads ==
  ASSUME NEW r, NEW from, NEW to, NEW type, NEW todo, NEW seen,
         OfferReading(<<"relate", r, from, to, type>>, todo, seen)
  PROVE  todo = << {to}, Relationship >> \/ todo = << Relationship >>
BY DEF OfferReading

LEMMA MergeReads ==
  ASSUME NEW s, NEW a, NEW todo, NEW seen, OfferReading(<<"merge", s, a>>, todo, seen)
  PROVE  todo = << {a} >> /\ s # a /\ s \in DOMAIN seen /\ seen[s] \in PartyRecord
BY DEF OfferReading

LEMMA SupplierReads ==
  ASSUME NEW i, NEW s, NEW todo, NEW seen, OfferReading(<<"supplier", i, s>>, todo, seen)
  PROVE  /\ todo = << {s} >>
         /\ i \in DOMAIN seen /\ seen[i] \in ItemRecord /\ VariantsApart(seen[i])
BY DEF OfferReading

LEMMA CreateItemReads ==
  ASSUME NEW i, NEW code, NEW status, NEW orderable, NEW s, NEW money, NEW todo, NEW seen,
         OfferReading(<<"createItem", i, code, status, orderable, s, money>>, todo, seen)
  PROVE  todo = << {s} >> /\ IsFree(seen, i, code)
BY DEF OfferReading

LEMMA LinkPrincipalQuiet ==
  ASSUME SuppliersInv, NEW c \in Call, ~Committing(c), LinkPrincipal(c)
  PROVE  SavesNothing(c)
<1>1. PICK p \in Party, x \in Principal :
        \/ Exists(store[p]) /\ ~IsTerminal(store[p])
             /\ Read(c, <<"link", p, x>>, << {p}, Party \ {p} >>)
        \/ /\ LastRead(c, <<"link", p, x>>, << {p}, Party \ {p} >>)
           /\ FindByPrincipal(x) \subseteq {p}
           /\ Stage(c, << {p}, Party \ {p} >>,
                    << p :> [work[c].seen[p] EXCEPT !.principal = x] >>, <<>>)
  BY DEF LinkPrincipal
<1>2. PICK op : op = <<"link", p, x>>
  OBVIOUS
<1>3. PICK K \in SUBSET Kept, L \in SUBSET Kept : K = {p} /\ L = Party \ {p}
  BY DEF Kept
<1>4. PICK reads : Two(reads, K, L)
  BY DEF Two
<1>5. CASE Exists(store[p]) /\ ~IsTerminal(store[p]) /\ Read(c, op, reads)
  <2>1. store[p] \in PartyRecord
    BY <1>5, OnFile DEF SuppliersInv
  <2>2. OfferReading(op, << L >>, Answers(K))
    BY <1>2, <1>3, <1>5, <2>1 DEF OfferReading, Answers
  <2>3. work[c].op = op /\ work[c].todo # <<>> => Len(work[c].todo) = 1
    BY <1>2, FreeOfferCall, IdleCall, LinkReads DEF IsIdle
  <2>4. QED
    BY <1>4, <1>5, <2>2, <2>3, FirstRead
<1>6. CASE /\ LastRead(c, op, reads) /\ FindByPrincipal(x) \subseteq {p}
           /\ Stage(c, reads, << p :> [work[c].seen[p] EXCEPT !.principal = x] >>, <<>>)
  <2>1. /\ reads[Len(reads)] = L
        /\ OfferReading(op, work[c].todo, work[c].seen)
        /\ DOMAIN Saw(c, reads) = L \union DOMAIN work[c].seen
        /\ \A k \in L : Saw(c, reads)[k] = store[k]
    <3>1. LastOfTwo(c, op, reads, L)
      BY <1>4, <1>6 DEF LastOfTwo
    <3>2. OfferReading(op, work[c].todo, work[c].seen) /\ SeenBoth(c, reads, L)
      BY <3>1, SecondRead
    <3>3. QED
      BY <3>2 DEF SeenBoth
  <2>2. work[c].seen[p] \in PartyRecord /\ ~IsTerminal(work[c].seen[p])
    BY <1>2, <2>1, LinkReads
  <2>3. PICK next : next = [work[c].seen[p] EXCEPT !.principal = x]
    OBVIOUS
  <2>4. next \in PartyRecord /\ next.status = work[c].seen[p].status /\ next.principal = x
    BY <2>2, <2>3 DEF PartyRecord
  <2>5. \A q \in Party \ {p} :
          q \in DOMAIN Saw(c, reads) /\
          (IsSupplier(Saw(c, reads)[q]) => Saw(c, reads)[q].principal # x)
    BY <1>3, <1>6, <2>1 DEF FindByPrincipal, IsSupplier
  <2>6. ClaimsPrincipal(Saw(c, reads), p, next)
    BY <2>2, <2>4, <2>5 DEF ClaimsPrincipal, IsTerminal
  <2>7. PICK writes, news : writes = << p :> next >> /\ news = <<>>
    OBVIOUS
  <2>8. DOMAIN news = {}
    BY <2>7
  <2>9. OfferWork(Saw(c, reads), writes, news)
    BY <2>4, <2>6, <2>7, <2>8 DEF OfferWork, PartyWork, SavesParty
  <2>10. Stage(c, reads, writes, news)
    BY <1>6, <2>3, <2>7
  <2>11. QED
    BY <2>1, <2>9, <2>10, StageSavesNothing
<1>7. QED
  BY <1>1, <1>2, <1>3, <1>4, <1>5, <1>6 DEF Two

\* A call that reads once and makes one save with or without news.
LEMMA OneReadStages ==
  ASSUME SuppliersInv, NEW c \in Call, IsIdle(c), NEW k \in Kept, NEW next, NEW news,
         Stage(c, << {k} >>, << k :> next >>, news),
         \A seen : k \in DOMAIN seen /\ seen[k] = store[k] => OfferWork(seen, << k :> next >>, news)
  PROVE  SavesNothing(c)
<1>1. PICK K \in SUBSET Kept : K = {k}
  OBVIOUS
<1>2. PICK reads, writes : reads = << K >> /\ writes = << k :> next >>
  OBVIOUS
<1>3. reads[Len(reads)] = K /\ DOMAIN Saw(c, reads) = K /\ Saw(c, reads)[k] = store[k]
  BY <1>1, <1>2, SawFirst
<1>4. OfferWork(Saw(c, reads), writes, news)
  BY <1>1, <1>2, <1>3
<1>5. Stage(c, reads, writes, news) /\ ~Committing(c)
  BY <1>1, <1>2 DEF Committing
<1>6. QED
  BY <1>3, <1>4, <1>5, StageSavesNothing

LEMMA RemoveRelationshipQuiet ==
  ASSUME SuppliersInv, NEW c \in Call, RemoveRelationship(c)
  PROVE  SavesNothing(c)
<1>1. PICK r \in Relationship :
        /\ IsIdle(c) /\ Exists(store[r]) /\ ~store[r].removed
        /\ Stage(c, << {r} >>, << r :> [store[r] EXCEPT !.removed = TRUE] >>, r :> "removed")
  BY DEF RemoveRelationship
<1>2. PICK next : next = [store[r] EXCEPT !.removed = TRUE]
  OBVIOUS
<1>3. next \in RelationshipRecord /\ next.removed
  <2>1. store[r] \in RelationshipRecord
    BY <1>1, OnFile DEF SuppliersInv
  <2>2. QED
    BY <1>2, <2>1 DEF RelationshipRecord
<1>4. PICK news : news = r :> "removed"
  OBVIOUS
<1>5. DOMAIN news \subseteq Relationship
  BY <1>4 DEF :>
<1>6. ASSUME NEW seen PROVE OfferWork(seen, << r :> next >>, news)
  BY <1>3, <1>5 DEF OfferWork, RelationshipWork, SavesRelationship
<1>7. r \in Kept /\ Stage(c, << {r} >>, << r :> next >>, news)
  BY <1>1, <1>2, <1>4 DEF Kept
<1>8. QED
  BY <1>1, <1>6, <1>7, OneReadStages

LEMMA CreateRelationshipQuiet ==
  ASSUME SuppliersInv, NEW c \in Call, ~Committing(c), CreateRelationship(c)
  PROVE  SavesNothing(c)
<1>1. PICK r \in Fresh(Relationship), from \in Party, to \in Party, type \in RelationshipType :
        LET op == <<"relate", r, from, to, type>>
            reads == << {from}, {to}, Relationship >>
        IN  \/ /\ from # to
               /\ Nth(c, op, reads) = 1 => Exists(store[from])
               /\ Nth(c, op, reads) = 2 => Exists(store[to])
               /\ Read(c, op, reads)
            \/ /\ LastRead(c, op, reads)
               /\ CanReceiveNewBusiness(work[c].seen[from])
               /\ CanReceiveNewBusiness(work[c].seen[to])
               /\ FindActive(from, to, type) = {}
               /\ Stage(c, reads,
                        << r :> [from |-> from, to |-> to, type |-> type, removed |-> FALSE] >>,
                        r :> "created")
  BY DEF CreateRelationship
<1>2. PICK op : op = <<"relate", r, from, to, type>>
  OBVIOUS
<1>3. PICK reads : reads = << {from}, {to}, Relationship >>
  OBVIOUS
<1>4. /\ reads \in Seq(SUBSET Key) /\ Len(reads) # 1 /\ reads[1] = {from}
      /\ Tail(reads) = << {to}, Relationship >> /\ reads[Len(reads)] = Relationship
  BY <1>3, KeptKeys DEF Kept
<1>5. r \in Relationship
  BY DEF Fresh
<1>6. CASE Read(c, op, reads)
  <2>1. CASE work'[c].todo = Tail(reads) /\ work'[c].seen = Answers(reads[1])
    <3>1. OfferReading(op, work'[c].todo, work'[c].seen)
      BY <1>2, <1>4, <1>5, <2>1 DEF OfferReading
    <3>2. QED
      BY <1>4, <1>6, <2>1, <3>1, ReadSavesNothing DEF Answers, Kept
  <2>2. CASE /\ work[c].op = op /\ Len(work[c].todo) > 1
             /\ work'[c].todo = Tail(work[c].todo)
             /\ work'[c].seen = Answers(work[c].todo[1]) @@ work[c].seen
    <3>1. ~IsIdle(c)
      BY <1>2, <2>2, IdleCall DEF IsIdle
    <3>2. OfferReading(op, work[c].todo, work[c].seen)
      BY <2>2, <3>1, FreeOfferCall
    <3>3. work[c].todo = << {to}, Relationship >> \/ work[c].todo = << Relationship >>
      BY <1>2, <3>2, RelateReads
    <3>4. work[c].todo = << {to}, Relationship >>
      <4>1. ASSUME work[c].todo = << Relationship >> PROVE FALSE
        <5>1. Len(work[c].todo) = 1
          BY <4>1
        <5>2. Len(work[c].todo) > 1
          BY <2>2
        <5>3. QED
          BY <5>1, <5>2
      <4>2. QED
        BY <3>3, <4>1
    <3>5. work'[c].todo = << Relationship >> /\ work[c].todo[1] \subseteq Kept
      BY <2>2, <3>4 DEF Kept
    <3>6. OfferReading(op, work'[c].todo, work'[c].seen)
      BY <1>2, <1>5, <3>5 DEF OfferReading
    <3>7. DOMAIN work'[c].seen \subseteq Kept
      BY <2>2, <3>5, FreeOfferCall DEF Answers, @@
    <3>8. QED
      BY <1>4, <1>6, <3>6, <3>7, ReadSavesNothing
  <2>3. QED
    BY <1>6, <2>1, <2>2, FreeOfferCall, ReadAnswers
<1>7. CASE /\ LastRead(c, op, reads) /\ FindActive(from, to, type) = {}
           /\ Stage(c, reads,
                    << r :> [from |-> from, to |-> to, type |-> type, removed |-> FALSE] >>,
                    r :> "created")
  <2>1. PICK next : next = [from |-> from, to |-> to, type |-> type, removed |-> FALSE]
    OBVIOUS
  <2>2. next \in RelationshipRecord /\ next.from = from /\ next.to = to /\ next.type = type
    BY <2>1 DEF RelationshipRecord
  <2>3. PICK news : news = r :> "created"
    OBVIOUS
  <2>4. DOMAIN news \subseteq Relationship
    BY <1>5, <2>3 DEF :>
  <2>5. Relationship \subseteq DOMAIN Saw(c, reads) /\
        \A t \in Relationship : Saw(c, reads)[t] = store[t]
    BY <1>4, SawLast
  <2>6. SavesRelationship(Saw(c, reads), next)
    BY <1>7, <2>2, <2>5 DEF SavesRelationship, FindActive, IsRelated
  <2>7. PICK writes : writes = << r :> next >>
    OBVIOUS
  <2>8. OfferWork(Saw(c, reads), writes, news)
    BY <1>5, <2>2, <2>4, <2>6, <2>7 DEF OfferWork, RelationshipWork
  <2>9. Stage(c, reads, writes, news)
    BY <1>7, <2>1, <2>3, <2>7
  <2>10. QED
    BY <1>4, <2>8, <2>9, StageSavesNothing DEF Kept
<1>8. QED
  BY <1>1, <1>2, <1>3, <1>6, <1>7

LEMMA MergePartiesQuiet ==
  ASSUME SuppliersInv, NEW c \in Call, ~Committing(c), MergeParties(c)
  PROVE  SavesNothing(c)
<1>1. PICK s \in Party, a \in Party :
        LET op == <<"merge", s, a>>
            reads == << {s}, {a} >>
            surviving == Saw(c, reads)[s]
            absorbed == Saw(c, reads)[a]
        IN  \/ s # a /\ Exists(store[s]) /\ Read(c, op, reads)
            \/ /\ LastRead(c, op, reads)
               /\ Exists(absorbed) /\ ~IsTerminal(surviving) /\ ~IsTerminal(absorbed)
               /\ Stage(c, reads,
                        << s :> [surviving EXCEPT !.roles = @ \union absorbed.roles],
                           a :> [absorbed EXCEPT !.status = "merged", !.into = s] >>,
                        a :> "merged")
  BY Zenon DEF MergeParties
<1>2. PICK op : op = <<"merge", s, a>>
  OBVIOUS
<1>3. PICK K \in SUBSET Kept, L \in SUBSET Kept : K = {s} /\ L = {a}
  BY DEF Kept
<1>4. PICK reads : Two(reads, K, L)
  BY DEF Two
<1>5. CASE s # a /\ Exists(store[s]) /\ Read(c, op, reads)
  <2>1. store[s] \in PartyRecord
    BY <1>5, OnFile DEF SuppliersInv
  <2>2. OfferReading(op, << L >>, Answers(K))
    BY <1>2, <1>3, <1>5, <2>1 DEF OfferReading, Answers
  <2>3. work[c].op = op /\ work[c].todo # <<>> => Len(work[c].todo) = 1
    BY <1>2, FreeOfferCall, IdleCall, MergeReads DEF IsIdle
  <2>4. QED
    BY <1>4, <1>5, <2>2, <2>3, FirstRead
<1>6. ASSUME NEW surviving, surviving = Saw(c, reads)[s],
             NEW absorbed, absorbed = Saw(c, reads)[a],
             LastRead(c, op, reads),
             Exists(absorbed), ~IsTerminal(surviving), ~IsTerminal(absorbed),
             Stage(c, reads,
                   << s :> [surviving EXCEPT !.roles = @ \union absorbed.roles],
                      a :> [absorbed EXCEPT !.status = "merged", !.into = s] >>,
                   a :> "merged")
      PROVE  SavesNothing(c)
  <2>1. OfferReading(op, work[c].todo, work[c].seen) /\ SeenBoth(c, reads, L)
    <3>1. LastOfTwo(c, op, reads, L)
      BY <1>4, <1>6 DEF LastOfTwo
    <3>2. QED
      BY <3>1, SecondRead
  <2>2. s # a /\ s \in DOMAIN work[c].seen /\ work[c].seen[s] \in PartyRecord
    BY <1>2, <2>1, MergeReads
  <2>3. s \in DOMAIN work[c].seen \ L /\ a \in L
    BY <1>3, <2>2
  <2>4. /\ surviving = work[c].seen[s] /\ absorbed = store[a] /\ reads[Len(reads)] = L
        /\ s \in DOMAIN Saw(c, reads)
    BY <1>6, <2>1, <2>3 DEF SeenBoth
  <2>5. surviving \in PartyRecord /\ absorbed \in PartyRecord
    BY <1>6, <2>2, <2>4, OnFile DEF SuppliersInv
  <2>6. PICK x : x = [surviving EXCEPT !.roles = @ \union absorbed.roles]
    OBVIOUS
  <2>7. x \in PartyRecord /\ SameStanding(surviving, x)
    BY <2>5, <2>6 DEF PartyRecord, SameStanding
  <2>8. PICK y : y = [absorbed EXCEPT !.status = "merged", !.into = s]
    OBVIOUS
  <2>9. y \in PartyRecord /\ y.status = "merged" /\ y.into = s
    BY <2>5, <2>8 DEF PartyRecord
  <2>10. SavesParty(Saw(c, reads), s, x)
    BY <1>6, <2>4, <2>5, <2>7, SameFollows DEF SavesParty
  <2>11. SavesParty((s :> x) @@ Saw(c, reads), a, y)
    <3>1. PICK seen : seen = (s :> x) @@ Saw(c, reads)
      OBVIOUS
    <3>2. s \in DOMAIN seen /\ seen[s] = x
      BY <3>1 DEF :>, @@
    <3>3. IsSupplier(x)
      BY <1>6, <2>7, RecordsExist DEF IsSupplier, SameStanding, IsTerminal
    <3>4. MergesInto(seen, a, y)
      BY <2>2, <2>9, <3>2, <3>3 DEF MergesInto
    <3>5. QED
      BY <3>1, <3>4 DEF SavesParty
  <2>12. PICK writes, news : writes = << s :> x, a :> y >> /\ news = a :> "merged"
    OBVIOUS
  <2>13. DOMAIN news \subseteq Party \union Channel
    BY <2>12 DEF :>
  <2>14. OfferWork(Saw(c, reads), writes, news)
    <3>1. PartyWork(Saw(c, reads), writes, news)
      BY <2>7, <2>9, <2>10, <2>11, <2>12, <2>13 DEF PartyWork
    <3>2. QED
      BY <3>1 DEF OfferWork
  <2>15. Stage(c, reads, writes, news)
    BY <1>6, <2>6, <2>8, <2>12
  <2>16. QED
    BY <2>4, <2>14, <2>15, StageSavesNothing
<1>7. QED
  BY <1>1, <1>2, <1>3, <1>4, <1>5, <1>6 DEF Two

LEMMA PartiesStepQuiet ==
  ASSUME SuppliersInv, NEW c \in Call, ~Committing(c), PartiesStep(c)
  PROVE  SavesNothing(c)
<1>1. CASE ActivateParty(c) \/ InactivateParty(c) \/ DeleteParty(c)
  <2>1. PICK from \in SUBSET {"draft", "active", "inactive"},
             to \in {"active", "inactive", "deleted"} : TransitionStatus(c, from, to)
    BY <1>1 DEF ActivateParty, InactivateParty, DeleteParty
  <2>2. QED
    BY <2>1, TransitionStatusQuiet
<1>2. QED
  BY <1>1, CreatePartyQuiet, SavesAsItWas, ClassificationQuiet, ContactChannelQuiet,
     LinkPrincipalQuiet, UnlinkPrincipalQuiet, CreateRelationshipQuiet,
     RemoveRelationshipQuiet, MergePartiesQuiet DEF PartiesStep, AddPostalAddress

-----------------------------------------------------------------------------
(***************************************************************************)
(* Operations on items.                                                    *)
(***************************************************************************)
LEMMA SomeIs ==
  ASSUME NEW K, NEW V, NEW f
  PROVE  f \in Some(K, V) <=>
           f = [k \in DOMAIN f |-> f[k]] /\ DOMAIN f \subseteq K /\ \A k \in DOMAIN f : f[k] \in V
BY DEF Some

LEMMA SomeMore ==
  ASSUME NEW K, NEW V, NEW k \in K, NEW v \in V, NEW f \in Some(K, V)
  PROVE  (k :> v) @@ f \in Some(K, V)
<1>1. DOMAIN f \subseteq K /\ \A x \in DOMAIN f : f[x] \in V
  BY SomeIs
<1>2. PICK g : g = (k :> v) @@ f
  OBVIOUS
<1>3. /\ DOMAIN g = {k} \union DOMAIN f /\ g[k] = v
      /\ \A x \in DOMAIN f : x # k => g[x] = f[x]
      /\ g = [x \in DOMAIN g |-> g[x]]
  BY <1>2 DEF :>, @@
<1>4. \A x \in DOMAIN g : g[x] \in V
  BY <1>1, <1>3
<1>5. QED
  BY <1>1, <1>2, <1>3, <1>4, SomeIs

LEMMA ItemSaved ==
  ASSUME SuppliersInv, NEW c \in Call, NEW i \in Item, NEW next \in ItemRecord, NEW news,
         ChangeItem(c, i, next, news), VariantsApart(next), Tells(news, i, next),
         FollowsItem(store[i], next, news, i)
  PROVE  SavesNothing(c)
<1>1. IsIdle(c) /\ Stage(c, << {i} >>, << i :> next >>, news)
  BY DEF ChangeItem
<1>2. ASSUME NEW seen, i \in DOMAIN seen, seen[i] = store[i]
      PROVE  OfferWork(seen, << i :> next >>, news)
  <2>1. SavesItem(seen, news, i, next)
    BY <1>2 DEF SavesItem
  <2>2. QED
    BY <2>1 DEF OfferWork, ItemWork
<1>3. i \in Kept
  BY DEF Kept
<1>4. QED
  BY <1>1, <1>2, <1>3, OneReadStages

SameOffer(old, next) ==
  /\ next \in ItemRecord /\ next.code = old.code /\ next.status = old.status
  /\ next.variants = old.variants /\ next.prices = old.prices

LEMMA SameOfferFollows ==
  ASSUME NEW i \in Item, NEW old \in ItemRecord, NEW next, SameOffer(old, next),
         VariantsApart(old)
  PROVE  /\ next \in ItemRecord /\ VariantsApart(next) /\ Tells(<<>>, i, next)
         /\ FollowsItem(old, next, <<>>, i)
<1>1. VariantsApart(next)
  BY DEF SameOffer, VariantsApart
<1>2. Tells(<<>>, i, next)
  BY NoNews DEF Tells
<1>3. IsItem(next) => IsItem(old)
  BY RecordsExist DEF SameOffer, IsItem
<1>4. FollowsItem(old, next, <<>>, i)
  BY <1>3, NoNews DEF FollowsItem, SameOffer
<1>5. QED
  BY <1>1, <1>2, <1>4 DEF SameOffer

LEMMA SameOfferQuiet ==
  ASSUME SuppliersInv, NEW c \in Call,
         UpdateItem(c) \/ ChangeDetails(c) \/ UnlinkSupplierParty(c)
  PROVE  SavesNothing(c)
<1>1. PICK i \in Item : \E next :
        /\ Exists(store[i]) /\ ChangeItem(c, i, next, <<>>)
        /\ store[i] \in ItemRecord => SameOffer(store[i], next)
  <2>1. CASE UpdateItem(c)
    <3>1. PICK i \in Item, orderable \in BOOLEAN :
            /\ IsItem(store[i])
            /\ ChangeItem(c, i, [store[i] EXCEPT !.orderable = orderable], <<>>)
      BY <2>1 DEF UpdateItem
    <3>2. PICK next : next = [store[i] EXCEPT !.orderable = orderable]
      OBVIOUS
    <3>3. store[i] \in ItemRecord => SameOffer(store[i], next)
      BY <3>2 DEF SameOffer, ItemRecord
    <3>4. QED
      BY <3>1, <3>2, <3>3 DEF IsItem
  <2>2. CASE ChangeDetails(c)
    BY <2>2 DEF ChangeDetails, SameOffer, IsItem
  <2>3. CASE UnlinkSupplierParty(c)
    <3>1. PICK i \in Item :
            /\ IsItem(store[i])
            /\ ChangeItem(c, i, [store[i] EXCEPT !.supplier = NoParty], <<>>)
      BY <2>3 DEF UnlinkSupplierParty
    <3>2. PICK next : next = [store[i] EXCEPT !.supplier = NoParty]
      OBVIOUS
    <3>3. store[i] \in ItemRecord => SameOffer(store[i], next)
      BY <3>2 DEF SameOffer, ItemRecord
    <3>4. QED
      BY <3>1, <3>2, <3>3 DEF IsItem
  <2>4. QED
    BY <2>1, <2>2, <2>3
<1>2. PICK next :
        /\ Exists(store[i]) /\ ChangeItem(c, i, next, <<>>)
        /\ store[i] \in ItemRecord => SameOffer(store[i], next)
  BY <1>1
<1>3. store[i] \in ItemRecord /\ VariantsApart(store[i])
  BY <1>2, OnFile DEF SuppliersInv
<1>4. PICK old : old = store[i]
  OBVIOUS
<1>5. /\ next \in ItemRecord /\ VariantsApart(next) /\ Tells(<<>>, i, next)
      /\ FollowsItem(old, next, <<>>, i)
  BY <1>2, <1>3, <1>4, SameOfferFollows
<1>6. PICK news : news = <<>>
  OBVIOUS
<1>7. QED
  BY <1>2, <1>4, <1>5, <1>6, ItemSaved

LEMMA MoveItemQuiet ==
  ASSUME SuppliersInv, NEW c \in Call, NEW from \in SUBSET {"draft", "active", "inactive"},
         NEW to \in {"active", "inactive", "deleted"}, MoveItem(c, from, to)
  PROVE  SavesNothing(c)
<1>1. PICK i \in Item :
        /\ Exists(store[i]) /\ store[i].status \in from
        /\ ChangeItem(c, i, [store[i] EXCEPT !.status = to, !.orderable = (to = "active")],
                      i :> to)
  BY DEF MoveItem
<1>2. store[i] \in ItemRecord /\ VariantsApart(store[i])
  BY <1>1, OnFile DEF SuppliersInv
<1>3. PICK orderable \in BOOLEAN : orderable = (to = "active")
  OBVIOUS
<1>4. PICK next : next = [store[i] EXCEPT !.status = to, !.orderable = orderable]
  OBVIOUS
<1>5. /\ next \in ItemRecord /\ next.status = to /\ next.code = store[i].code
      /\ next.variants = store[i].variants /\ next.prices = store[i].prices
  BY <1>2, <1>4 DEF ItemRecord
<1>6. PICK news : news = i :> to
  OBVIOUS
<1>7. DOMAIN news = {i} /\ news[i] = to
  BY <1>6 DEF :>
<1>8. VariantsApart(next)
  BY <1>2, <1>5 DEF VariantsApart
<1>9. Tells(news, i, next)
  <2>1. \A v \in Variant \union {NoVariant} : PriceOf(i, v) \notin DOMAIN news
    BY <1>7, PricesAre DEF Kept
  <2>2. QED
    BY <1>5, <1>7, <2>1 DEF Tells
<1>10. FollowsItem(store[i], next, news, i)
  <2>1. IsItem(store[i])
    BY <1>1 DEF IsItem
  <2>2. QED
    BY <1>2, <1>5, <1>7, <2>1 DEF FollowsItem
<1>11. ChangeItem(c, i, next, news)
  BY <1>1, <1>3, <1>4, <1>6
<1>12. QED
  BY <1>5, <1>8, <1>9, <1>10, <1>11, ItemSaved

LEMMA SetListPriceQuiet ==
  ASSUME SuppliersInv, NEW c \in Call, SetListPrice(c)
  PROVE  SavesNothing(c)
<1>1. PICK i \in Item, v \in Variant \union {NoVariant}, money \in Money :
        /\ IsItem(store[i])
        /\ ChangeItem(c, i, [store[i] EXCEPT !.prices = (v :> money) @@ @],
                      PriceOf(i, v) :> money)
  BY DEF SetListPrice
<1>2. store[i] \in ItemRecord /\ VariantsApart(store[i])
  BY <1>1, OnFile DEF SuppliersInv, IsItem
<1>3. PICK prices : prices = (v :> money) @@ store[i].prices
  OBVIOUS
<1>4. store[i].prices \in Some(Variant \union {NoVariant}, Money)
  BY <1>2 DEF ItemRecord
<1>5. prices \in Some(Variant \union {NoVariant}, Money)
  BY <1>3, <1>4, SomeMore
<1>6. /\ DOMAIN prices = {v} \union DOMAIN store[i].prices /\ prices[v] = money
      /\ \A u \in DOMAIN store[i].prices : u # v => prices[u] = store[i].prices[u]
  BY <1>3 DEF :>, @@
<1>7. PICK next : next = [store[i] EXCEPT !.prices = prices]
  OBVIOUS
<1>8. /\ next \in ItemRecord /\ next.status = store[i].status /\ next.code = store[i].code
      /\ next.variants = store[i].variants /\ next.prices = prices
  BY <1>2, <1>5, <1>7 DEF ItemRecord
<1>9. PICK news : news = PriceOf(i, v) :> money
  OBVIOUS
<1>10. DOMAIN news = {PriceOf(i, v)} /\ news[PriceOf(i, v)] = money
  BY <1>9 DEF :>
<1>11. i \notin DOMAIN news
  BY <1>10, PricesAre DEF Kept
<1>12. VariantsApart(next)
  BY <1>2, <1>8 DEF VariantsApart
<1>13. \A u \in Variant \union {NoVariant} : PriceOf(i, u) \in DOMAIN news => u = v
  BY <1>10, PricesAre
<1>14. Tells(news, i, next)
  BY <1>6, <1>8, <1>10, <1>11, <1>13 DEF Tells
<1>15. FollowsItem(store[i], next, news, i)
  BY <1>1, <1>2, <1>6, <1>8, <1>10, <1>11, <1>13 DEF FollowsItem
<1>16. ChangeItem(c, i, next, news)
  BY <1>1, <1>3, <1>7, <1>9
<1>17. QED
  BY <1>8, <1>12, <1>14, <1>15, <1>16, ItemSaved

\* A price that may not have been given, and the news of it.
PricedAs(i, v, money, old, prices, news) ==
  /\ prices \in Some(Variant \union {NoVariant}, Money)
  /\ prices = Priced(v, money) @@ old /\ news = PriceNews(i, v, money)
  /\ DOMAIN news \subseteq {PriceOf(i, v)}
  /\ PriceOf(i, v) \in DOMAIN news => v \in DOMAIN prices /\ news[PriceOf(i, v)] = prices[v]
  /\ \A u \in DOMAIN old : u # v \/ PriceOf(i, v) \notin DOMAIN news =>
       u \in DOMAIN prices /\ prices[u] = old[u]

LEMMA PricedOrNot ==
  ASSUME NEW i \in Item, NEW v \in Variant \union {NoVariant}, NEW money \in Money \union {NoMoney},
         NEW old, old \in Some(Variant \union {NoVariant}, Money)
  PROVE  \E prices, news : PricedAs(i, v, money, old, prices, news)
<1>1. PICK prices : prices = Priced(v, money) @@ old
  OBVIOUS
<1>2. PICK news : news = PriceNews(i, v, money)
  OBVIOUS
<1>3. CASE money = NoMoney
  <2>1. Priced(v, money) = <<>> /\ news = <<>>
    BY <1>2, <1>3 DEF Priced, PriceNews
  <2>2. DOMAIN news = {}
    BY <2>1
  <2>3. old = [k \in DOMAIN old |-> old[k]]
    BY SomeIs
  <2>4. prices = old
    BY <1>1, <2>1, <2>3, NoNews DEF @@
  <2>5. PricedAs(i, v, money, old, prices, news)
    BY <1>1, <1>2, <2>2, <2>4 DEF PricedAs
  <2>6. QED
    BY <2>5
<1>4. CASE money \in Money
  <2>1. prices = (v :> money) @@ old /\ news = PriceOf(i, v) :> money
    BY <1>1, <1>2, <1>4, CatalogAssumption DEF Priced, PriceNews
  <2>2. prices \in Some(Variant \union {NoVariant}, Money)
    BY <1>4, <2>1, SomeMore
  <2>3. DOMAIN news = {PriceOf(i, v)} /\ news[PriceOf(i, v)] = money
    BY <2>1 DEF :>
  <2>4. /\ DOMAIN prices = {v} \union DOMAIN old /\ prices[v] = money
        /\ \A u \in DOMAIN old : u # v => prices[u] = old[u]
    BY <2>1 DEF :>, @@
  <2>5. PricedAs(i, v, money, old, prices, news)
    BY <1>1, <1>2, <2>2, <2>3, <2>4 DEF PricedAs
  <2>6. QED
    BY <2>5
<1>5. QED
  BY <1>3, <1>4

LEMMA AddVariantQuiet ==
  ASSUME SuppliersInv, NEW c \in Call, AddVariant(c)
  PROVE  SavesNothing(c)
<1>1. PICK i \in Item, v \in Fresh(Variant), code \in Code, money \in Money \union {NoMoney} :
        LET item == store[i]
            variant == [code |-> code, status |-> "active"]
        IN  /\ IsItem(item)
            /\ \A w \in DOMAIN item.variants :
                 item.variants[w].code = code => item.variants[w].status = "retired"
            /\ ChangeItem(c, i, [item EXCEPT !.variants = (v :> variant) @@ @,
                                             !.prices = Priced(v, money) @@ @],
                          (v :> "created") @@ PriceNews(i, v, money))
  BY Zenon DEF AddVariant
<1>2. PICK item : item = store[i]
  OBVIOUS
<1>3. item \in ItemRecord /\ VariantsApart(item) /\ IsItem(item)
  BY <1>1, <1>2, OnFile DEF SuppliersInv, IsItem
<1>4. v \in Variant
  BY DEF Fresh
<1>5. PICK variant : variant = [code |-> code, status |-> "active"]
  OBVIOUS
<1>6. variant \in VariantRecord /\ variant.code = code
  BY <1>5 DEF VariantRecord
<1>7. /\ item.variants \in Some(Variant, VariantRecord)
      /\ item.prices \in Some(Variant \union {NoVariant}, Money)
  BY <1>3 DEF ItemRecord
<1>8. PICK variants : variants = (v :> variant) @@ item.variants
  OBVIOUS
<1>9. variants \in Some(Variant, VariantRecord)
  BY <1>4, <1>6, <1>7, <1>8, SomeMore
<1>10. /\ DOMAIN variants = {v} \union DOMAIN item.variants /\ variants[v] = variant
       /\ \A u \in DOMAIN item.variants : u # v => variants[u] = item.variants[u]
  BY <1>8 DEF :>, @@
<1>11. PICK prices, priceNews : PricedAs(i, v, money, item.prices, prices, priceNews)
  BY <1>4, <1>7, PricedOrNot
<1>a. /\ prices \in Some(Variant \union {NoVariant}, Money)
      /\ prices = Priced(v, money) @@ item.prices /\ priceNews = PriceNews(i, v, money)
      /\ DOMAIN priceNews \subseteq {PriceOf(i, v)}
      /\ PriceOf(i, v) \in DOMAIN priceNews =>
           v \in DOMAIN prices /\ priceNews[PriceOf(i, v)] = prices[v]
      /\ \A u \in DOMAIN item.prices : u # v \/ PriceOf(i, v) \notin DOMAIN priceNews =>
           u \in DOMAIN prices /\ prices[u] = item.prices[u]
  BY <1>11 DEF PricedAs
<1>12. PICK next : next = [item EXCEPT !.variants = variants, !.prices = prices]
  OBVIOUS
<1>13. /\ next \in ItemRecord /\ next.status = item.status /\ next.code = item.code
       /\ next.variants = variants /\ next.prices = prices
  BY <1>3, <1>9, <1>a, <1>12 DEF ItemRecord
<1>14. VariantsApart(next)
  <2>1. \A w \in DOMAIN item.variants :
          item.variants[w].code = code => item.variants[w].status = "retired"
    BY <1>1, <1>2
  <2>2. QED
    BY <1>3, <1>6, <1>10, <1>13, <2>1 DEF VariantsApart
<1>15. PICK news : news = (v :> "created") @@ priceNews
  OBVIOUS
<1>16. PriceOf(i, v) # v /\ i # v /\ i # PriceOf(i, v)
  BY <1>4, PricesAre, KindsApart DEF Kept
<1>17. /\ DOMAIN news = {v} \union DOMAIN priceNews
       /\ PriceOf(i, v) \in DOMAIN priceNews =>
            news[PriceOf(i, v)] = priceNews[PriceOf(i, v)]
  BY <1>15, <1>16 DEF :>, @@
<1>18. i \notin DOMAIN news
  BY <1>a, <1>16, <1>17
<1>19. \A u \in Variant \union {NoVariant} : PriceOf(i, u) \in DOMAIN news =>
          u = v /\ PriceOf(i, v) \in DOMAIN priceNews
  BY <1>4, <1>a, <1>17, PricesAre
<1>20. DOMAIN news \subseteq {i} \union Variant
                               \union {PriceOf(i, u) : u \in Variant \union {NoVariant}}
  BY <1>4, <1>a, <1>17
<1>21. Tells(news, i, next)
  BY <1>a, <1>13, <1>17, <1>18, <1>19, <1>20 DEF Tells
<1>22. FollowsItem(item, next, news, i)
  <2>1. \A u \in DOMAIN item.prices : PriceOf(i, u) \notin DOMAIN news =>
          u \in DOMAIN prices /\ prices[u] = item.prices[u]
    BY <1>a, <1>17
  <2>2. QED
    BY <1>3, <1>13, <1>18, <2>1 DEF FollowsItem
<1>23. ChangeItem(c, i, next, news)
  BY <1>1, <1>2, <1>5, <1>8, <1>a, <1>12, <1>15
<1>24. FollowsItem(store[i], next, news, i)
  BY <1>2, <1>22
<1>25. QED
  BY <1>13, <1>14, <1>21, <1>23, <1>24, ItemSaved

LEMMA UpdateVariantQuiet ==
  ASSUME SuppliersInv, NEW c \in Call, UpdateVariant(c)
  PROVE  SavesNothing(c)
<1>1. PICK i \in Item, v \in Variant, to \in {"active", "inactive", "retired"} :
        /\ Exists(store[i]) /\ v \in DOMAIN store[i].variants
        /\ store[i].variants[v].status # "retired"
        /\ ChangeItem(c, i, [store[i] EXCEPT !.variants[v].status = to], <<>>)
  BY DEF UpdateVariant
<1>2. PICK item : item = store[i]
  OBVIOUS
<1>3. item \in ItemRecord /\ VariantsApart(item)
  BY <1>1, <1>2, OnFile DEF SuppliersInv
<1>4. PICK next : next = [item EXCEPT !.variants[v].status = to]
  OBVIOUS
<1>5. PICK variants : variants = [item.variants EXCEPT ![v].status = to]
  OBVIOUS
<1>6. /\ item.variants \in Some(Variant, VariantRecord)
      /\ DOMAIN item.variants \subseteq Variant
      /\ \A u \in DOMAIN item.variants : item.variants[u] \in VariantRecord
  <2>1. item.variants \in Some(Variant, VariantRecord)
    BY <1>3 DEF ItemRecord
  <2>2. QED
    BY <2>1, SomeIs
<1>7. v \in DOMAIN item.variants /\ item.variants[v].status # "retired"
  BY <1>1, <1>2
<1>8. /\ DOMAIN variants = DOMAIN item.variants
      /\ variants[v] = [item.variants[v] EXCEPT !.status = to]
      /\ \A u \in DOMAIN item.variants : u # v => variants[u] = item.variants[u]
  BY <1>5, <1>7
<1>9. variants[v] \in VariantRecord /\ variants[v].code = item.variants[v].code
  <2>1. item.variants[v] \in VariantRecord
    BY <1>6, <1>7
  <2>2. QED
    BY <1>8, <2>1 DEF VariantRecord
<1>10. variants \in Some(Variant, VariantRecord)
  <2>1. \A u \in DOMAIN variants : variants[u] \in VariantRecord
    BY <1>6, <1>8, <1>9
  <2>2. variants = [u \in DOMAIN variants |-> variants[u]]
    BY <1>5
  <2>3. QED
    BY <1>6, <1>8, <2>1, <2>2, SomeIs
<1>11. next = [item EXCEPT !.variants = variants]
  BY <1>4, <1>5
<1>12. /\ next \in ItemRecord /\ next.code = item.code /\ next.status = item.status
       /\ next.prices = item.prices /\ next.variants = variants
  BY <1>3, <1>10, <1>11 DEF ItemRecord
<1>13. VariantsApart(next)
  <2>1. \A u \in DOMAIN variants :
          /\ u \in DOMAIN item.variants /\ variants[u].code = item.variants[u].code
          /\ variants[u].status # "retired" => item.variants[u].status # "retired"
    BY <1>7, <1>8, <1>9
  <2>2. VariantsApart(item)
    BY <1>3
  <2>3. QED
    BY <1>12, <2>1, <2>2 DEF VariantsApart
<1>14. PICK news : news = <<>>
  OBVIOUS
<1>15. DOMAIN news = {}
  BY <1>14
<1>16. Tells(news, i, next)
  BY <1>15 DEF Tells
<1>17. IsItem(next) => IsItem(item)
  BY <1>3, <1>12, RecordsExist DEF IsItem
<1>18. FollowsItem(item, next, news, i)
  BY <1>3, <1>12, <1>15, <1>17 DEF FollowsItem
<1>19. ChangeItem(c, i, next, news) /\ FollowsItem(store[i], next, news, i)
  BY <1>1, <1>2, <1>4, <1>14, <1>18
<1>20. QED
  BY <1>12, <1>13, <1>16, <1>19, ItemSaved

LEMMA LinkSupplierPartyQuiet ==
  ASSUME SuppliersInv, NEW c \in Call, ~Committing(c), LinkSupplierParty(c)
  PROVE  SavesNothing(c)
<1>1. PICK i \in Item, s \in Party :
        \/ IsItem(store[i]) /\ Read(c, <<"supplier", i, s>>, << {i}, {s} >>)
        \/ /\ LastRead(c, <<"supplier", i, s>>, << {i}, {s} >>)
           /\ Stage(c, << {i}, {s} >>, << i :> [work[c].seen[i] EXCEPT !.supplier = s] >>, <<>>)
  BY DEF LinkSupplierParty
<1>2. PICK op : op = <<"supplier", i, s>>
  OBVIOUS
<1>3. PICK K \in SUBSET Kept, L \in SUBSET Kept : K = {i} /\ L = {s}
  BY DEF Kept
<1>4. PICK reads : Two(reads, K, L)
  BY DEF Two
<1>5. CASE IsItem(store[i]) /\ Read(c, op, reads)
  <2>1. store[i] \in ItemRecord /\ VariantsApart(store[i])
    BY <1>5, OnFile DEF SuppliersInv, IsItem
  <2>2. OfferReading(op, << L >>, Answers(K))
    BY <1>2, <1>3, <2>1 DEF OfferReading, Answers
  <2>3. work[c].op = op /\ work[c].todo # <<>> => Len(work[c].todo) = 1
    BY <1>2, FreeOfferCall, IdleCall, SupplierReads DEF IsIdle
  <2>4. QED
    BY <1>4, <1>5, <2>2, <2>3, FirstRead
<1>6. CASE /\ LastRead(c, op, reads)
           /\ Stage(c, reads, << i :> [work[c].seen[i] EXCEPT !.supplier = s] >>, <<>>)
  <2>1. OfferReading(op, work[c].todo, work[c].seen) /\ SeenBoth(c, reads, L)
    <3>1. LastOfTwo(c, op, reads, L)
      BY <1>4, <1>6 DEF LastOfTwo
    <3>2. QED
      BY <3>1, SecondRead
  <2>2. PICK old : old = work[c].seen[i]
    OBVIOUS
  <2>3. i \in DOMAIN work[c].seen /\ old \in ItemRecord /\ VariantsApart(old)
    BY <1>2, <2>1, <2>2, SupplierReads
  <2>4. i \in DOMAIN work[c].seen \ L
    BY <1>3, <2>3, KindsApart
  <2>5. i \in DOMAIN Saw(c, reads) /\ Saw(c, reads)[i] = old /\ reads[Len(reads)] = L
    BY <2>1, <2>2, <2>4 DEF SeenBoth
  <2>6. PICK next : next = [old EXCEPT !.supplier = s]
    OBVIOUS
  <2>7. SameOffer(old, next)
    BY <2>3, <2>6 DEF SameOffer, ItemRecord
  <2>8. /\ next \in ItemRecord /\ VariantsApart(next) /\ Tells(<<>>, i, next)
        /\ FollowsItem(old, next, <<>>, i)
    BY <2>3, <2>7, SameOfferFollows
  <2>9. PICK writes, news : writes = << i :> next >> /\ news = <<>>
    OBVIOUS
  <2>10. SavesItem(Saw(c, reads), news, i, next)
    BY <2>5, <2>8, <2>9 DEF SavesItem
  <2>11. OfferWork(Saw(c, reads), writes, news)
    BY <2>8, <2>9, <2>10 DEF OfferWork, ItemWork
  <2>12. Stage(c, reads, writes, news)
    BY <1>6, <2>2, <2>6, <2>9
  <2>13. QED
    BY <2>5, <2>11, <2>12, StageSavesNothing
<1>7. QED
  BY <1>1, <1>2, <1>3, <1>4, <1>5, <1>6 DEF Two

\* A new item and what is told of it.
LEMMA NewItemSaved ==
  ASSUME NEW i \in Item, NEW code \in Code, NEW status \in {"draft", "active"},
         NEW orderable \in BOOLEAN, NEW s \in Party \union {NoParty},
         NEW money \in Money \union {NoMoney}, NEW seen, IsFree(seen, i, code),
         NEW next, next = NewItem(code, status, orderable, s, Priced(NoVariant, money)),
         NEW news, news = (i :> status) @@ PriceNews(i, NoVariant, money)
  PROVE  next \in ItemRecord /\ SavesItem(seen, news, i, next)
<1>1. PICK none : none = <<>>
  OBVIOUS
<1>2. DOMAIN none = {} /\ none = [k \in DOMAIN none |-> none[k]]
  BY <1>1
<1>3. /\ none \in Some(Variant \union {NoVariant}, Money)
      /\ none \in Some(Variant, VariantRecord)
  BY <1>2, SomeIs
<1>4. PICK prices, priceNews : PricedAs(i, NoVariant, money, none, prices, priceNews)
  BY <1>3, PricedOrNot
<1>a. /\ prices \in Some(Variant \union {NoVariant}, Money)
      /\ prices = Priced(NoVariant, money) @@ none /\ priceNews = PriceNews(i, NoVariant, money)
      /\ DOMAIN priceNews \subseteq {PriceOf(i, NoVariant)}
      /\ PriceOf(i, NoVariant) \in DOMAIN priceNews =>
           NoVariant \in DOMAIN prices /\ priceNews[PriceOf(i, NoVariant)] = prices[NoVariant]
  BY <1>4 DEF PricedAs
<1>5. prices = Priced(NoVariant, money)
  <2>1. CASE money = NoMoney
    BY <1>1, <1>a, <2>1, NoNews DEF Priced, @@
  <2>2. CASE money # NoMoney
    <3>1. prices = (NoVariant :> money) @@ none
      BY <1>a, <2>2 DEF Priced
    <3>2. prices = NoVariant :> money
      BY <1>2, <3>1 DEF :>, @@
    <3>3. QED
      BY <2>2, <3>2 DEF Priced
  <2>3. QED
    BY <2>1, <2>2
<1>6. next = [code |-> code, status |-> status, orderable |-> orderable, supplier |-> s,
              variants |-> none, prices |-> prices]
  BY <1>1, <1>5 DEF NewItem
<1>7. /\ next \in ItemRecord /\ next.code = code /\ next.status = status
      /\ next.variants = none /\ next.prices = prices
  BY <1>3, <1>a, <1>6 DEF ItemRecord
<1>8. VariantsApart(next)
  BY <1>2, <1>7 DEF VariantsApart
<1>9. PriceOf(i, NoVariant) # i
  BY PricesAre DEF Kept
<1>10. /\ DOMAIN news = {i} \union DOMAIN priceNews /\ news[i] = status
       /\ PriceOf(i, NoVariant) \in DOMAIN priceNews =>
            news[PriceOf(i, NoVariant)] = priceNews[PriceOf(i, NoVariant)]
  BY <1>a, <1>9 DEF :>, @@
<1>11. \A u \in Variant \union {NoVariant} : PriceOf(i, u) \in DOMAIN news =>
          u = NoVariant /\ PriceOf(i, NoVariant) \in DOMAIN priceNews
  <2>1. \A u \in Variant \union {NoVariant} : PriceOf(i, u) # i
    BY PricesAre DEF Kept
  <2>2. \A u \in Variant \union {NoVariant} :
          PriceOf(i, u) = PriceOf(i, NoVariant) => u = NoVariant
    BY PricesAre
  <2>3. QED
    BY <1>a, <1>10, <2>1, <2>2
<1>12. DOMAIN news \subseteq {i} \union Variant
                               \union {PriceOf(i, u) : u \in Variant \union {NoVariant}}
  BY <1>a, <1>10
<1>13. Tells(news, i, next)
  BY <1>a, <1>7, <1>10, <1>11, <1>12 DEF Tells
<1>14. i \in DOMAIN seen /\ i \in DOMAIN news
  BY <1>10 DEF IsFree
<1>15. QED
  BY <1>7, <1>8, <1>13, <1>14 DEF SavesItem

LEMMA CreateItemQuiet ==
  ASSUME SuppliersInv, NEW c \in Call, ~Committing(c), CreateItem(c)
  PROVE  SavesNothing(c)
<1>1. PICK i \in Fresh(Item), code \in Code, status \in {"draft", "active"},
          orderable \in BOOLEAN, s \in Party \union {NoParty}, money \in Money \union {NoMoney} :
        LET op == <<"createItem", i, code, status, orderable, s, money>>
            reads == IF s = NoParty THEN << Item >> ELSE << Item, {s} >>
        IN  \/ FindByCode(code) = {} /\ Read(c, op, reads)
            \/ /\ LastRead(c, op, reads)
               /\ IF s = NoParty THEN FindByCode(code) = {} ELSE IsSupplier(store[s])
               /\ Stage(c, reads,
                        << i :> NewItem(code, status, orderable, s, Priced(NoVariant, money)) >>,
                        (i :> status) @@ PriceNews(i, NoVariant, money))
  BY Zenon DEF CreateItem
<1>2. PICK op : op = <<"createItem", i, code, status, orderable, s, money>>
  OBVIOUS
<1>3. PICK reads : reads = IF s = NoParty THEN << Item >> ELSE << Item, {s} >>
  OBVIOUS
<1>4. i \in Item /\ store[i] = NoRecord
  BY DEF Fresh, Exists
<1>5. ASSUME FindByCode(code) = {}, NEW seen, Item \subseteq DOMAIN seen,
             \A j \in Item : seen[j] = store[j]
      PROVE  IsFree(seen, i, code)
  BY <1>4, <1>5 DEF IsFree, FindByCode
<1>6. Item \subseteq Kept
  BY DEF Kept
<1>7. ASSUME Stage(c, reads,
                   << i :> NewItem(code, status, orderable, s, Priced(NoVariant, money)) >>,
                   (i :> status) @@ PriceNews(i, NoVariant, money)),
             reads[Len(reads)] \subseteq Kept, IsFree(Saw(c, reads), i, code)
      PROVE  SavesNothing(c)
  <2>1. PICK next : next = NewItem(code, status, orderable, s, Priced(NoVariant, money))
    OBVIOUS
  <2>2. PICK news : news = (i :> status) @@ PriceNews(i, NoVariant, money)
    OBVIOUS
  <2>3. PICK seen : seen = Saw(c, reads)
    OBVIOUS
  <2>4. next \in ItemRecord /\ SavesItem(seen, news, i, next)
    BY <1>4, <1>7, <2>1, <2>2, <2>3, NewItemSaved
  <2>5. PICK writes : writes = << i :> next >>
    OBVIOUS
  <2>6. OfferWork(Saw(c, reads), writes, news)
    BY <1>4, <2>3, <2>4, <2>5 DEF OfferWork, ItemWork
  <2>7. Stage(c, reads, writes, news)
    BY <1>7, <2>1, <2>2, <2>5
  <2>8. QED
    BY <1>7, <2>6, <2>7, StageSavesNothing
<1>8. CASE s = NoParty
  <2>1. reads = << Item >>
    BY <1>3, <1>8
  <2>2. Len(reads) = 1 /\ reads[Len(reads)] = Item
    BY <2>1
  <2>3. ~Read(c, op, reads)
    <3>1. ASSUME Read(c, op, reads) PROVE FALSE
      <4>1. work[c].op = op /\ Len(work[c].todo) > 1
        <5>1. ~(Len(reads) > 1)
          BY <2>2
        <5>2. QED
          BY <3>1, <5>1 DEF Read
      <4>2. OfferReading(op, work[c].todo, work[c].seen)
        BY <1>2, <4>1, FreeOfferCall, IdleCall DEF IsIdle
      <4>3. PICK t \in Party : op = <<"createItem", i, code, status, orderable, t, money>>
        BY <1>2, <4>2 DEF OfferReading
      <4>4. QED
        BY <1>2, <1>8, <4>3, PartiesAssumption
    <3>2. QED
      BY <3>1
  <2>4. CASE /\ LastRead(c, op, reads) /\ FindByCode(code) = {}
             /\ Stage(c, reads,
                      << i :> NewItem(code, status, orderable, s, Priced(NoVariant, money)) >>,
                      (i :> status) @@ PriceNews(i, NoVariant, money))
    <3>1. PICK seen : seen = Saw(c, reads)
      OBVIOUS
    <3>2. Item \subseteq DOMAIN seen /\ \A j \in Item : seen[j] = store[j]
      BY <2>2, <3>1, SawLast
    <3>3. IsFree(Saw(c, reads), i, code)
      BY <1>5, <2>4, <3>1, <3>2
    <3>4. QED
      BY <1>6, <1>7, <2>2, <2>4, <3>3
  <2>5. QED
    BY <1>1, <1>2, <1>3, <1>8, <2>3, <2>4
<1>9. CASE s \in Party
  <2>1. PICK K \in SUBSET Kept, L \in SUBSET Kept : K = Item /\ L = {s}
    BY <1>9 DEF Kept
  <2>2. Two(reads, K, L)
    BY <1>3, <1>9, <2>1, PartiesAssumption DEF Two
  <2>3. CASE FindByCode(code) = {} /\ Read(c, op, reads)
    <3>1. PICK seen : seen = Answers(K)
      OBVIOUS
    <3>2. Item \subseteq DOMAIN seen /\ \A j \in Item : seen[j] = store[j]
      BY <2>1, <3>1 DEF Answers
    <3>3. IsFree(seen, i, code)
      BY <1>5, <2>3, <3>2
    <3>4. OfferReading(op, << L >>, Answers(K))
      BY <1>2, <1>4, <1>9, <2>1, <3>1, <3>3 DEF OfferReading
    <3>5. work[c].op = op /\ work[c].todo # <<>> => Len(work[c].todo) = 1
      BY <1>2, FreeOfferCall, IdleCall, CreateItemReads DEF IsIdle
    <3>6. QED
      BY <2>2, <2>3, <3>4, <3>5, FirstRead
  <2>4. CASE /\ LastRead(c, op, reads)
             /\ Stage(c, reads,
                      << i :> NewItem(code, status, orderable, s, Priced(NoVariant, money)) >>,
                      (i :> status) @@ PriceNews(i, NoVariant, money))
    <3>1. OfferReading(op, work[c].todo, work[c].seen) /\ SeenBoth(c, reads, L)
      <4>1. LastOfTwo(c, op, reads, L)
        BY <2>2, <2>4 DEF LastOfTwo
      <4>2. QED
        BY <4>1, SecondRead
    <3>2. IsFree(work[c].seen, i, code)
      BY <1>2, <3>1, CreateItemReads
    <3>3. \A j \in Item : j \in DOMAIN work[c].seen \ L
      BY <1>9, <2>1, <3>2, KindsApart DEF IsFree
    <3>4. \A j \in Item : j \in DOMAIN Saw(c, reads) /\ Saw(c, reads)[j] = work[c].seen[j]
      BY <3>1, <3>3 DEF SeenBoth
    <3>5. IsFree(Saw(c, reads), i, code)
      BY <1>4, <3>2, <3>4 DEF IsFree
    <3>6. reads[Len(reads)] \subseteq Kept
      BY <3>1 DEF SeenBoth
    <3>7. QED
      BY <1>7, <2>4, <3>5, <3>6
  <2>5. QED
    BY <1>1, <1>2, <1>3, <1>9, <2>3, <2>4
<1>10. QED
  BY <1>8, <1>9

LEMMA CatalogStepQuiet ==
  ASSUME SuppliersInv, NEW c \in Call, ~Committing(c), CatalogStep(c)
  PROVE  SavesNothing(c)
<1>1. CASE ActivateItem(c) \/ InactivateItem(c) \/ DeleteItem(c)
  <2>1. PICK from \in SUBSET {"draft", "active", "inactive"},
             to \in {"active", "inactive", "deleted"} : MoveItem(c, from, to)
    BY <1>1 DEF ActivateItem, InactivateItem, DeleteItem
  <2>2. QED
    BY <2>1, MoveItemQuiet
<1>2. QED
  BY <1>1, CreateItemQuiet, SameOfferQuiet, AddVariantQuiet, UpdateVariantQuiet,
     SetListPriceQuiet, LinkSupplierPartyQuiet DEF CatalogStep

LEMMA GiveUpQuiet ==
  ASSUME SuppliersInv, NEW c \in Call, GiveUp(c)
  PROVE  SavesNothing(c)
<1>1. OfferCallInv(Idle)
  BY IdleCall, NoNews DEF OfferCallInv
<1>2. CallsOK
  BY DEF SuppliersInv
<1>3. QED
  BY <1>1, <1>2, GiveUpEffect DEF SavesNothing

-----------------------------------------------------------------------------
(***************************************************************************)
(* Saves.                                                                  *)
(***************************************************************************)
\* t is s but for one key, and k has raced unless the call saw all of s.
Saved(s, t, k, next) == t[k] = next /\ \A l \in Kept \ {k} : t[l] = s[l]

SawAll(seen, s) == \A k \in DOMAIN seen : seen[k] = s[k]

LEMMA PartyRecords ==
  ASSUME NEW s, NEW t, NEW p \in Party, NEW next \in PartyRecord, Records(s),
         Saved(s, t, p, next)
  PROVE  Records(t)
<1>1. /\ \A q \in Party : t[q] = IF q = p THEN next ELSE s[q]
      /\ \A r \in Relationship : t[r] = s[r]
      /\ \A i \in Item : t[i] = s[i]
  BY KindsApart DEF Saved, Kept
<1>2. QED
  BY <1>1 DEF Records

LEMMA PartyUnique ==
  ASSUME NEW s, NEW t, NEW rc, NEW rd, rc \subseteq rd, NEW seen,
         NEW p \in Party, NEW next \in PartyRecord,
         Records(s), Unique(s, rc), Saved(s, t, p, next), SavesParty(seen, p, next),
         p \notin rd => SawAll(seen, s)
  PROVE  Unique(t, rd)
<1>1. /\ \A q \in Party : q # p => t[q] = s[q]
      /\ t[p] = next
      /\ \A r \in Relationship : t[r] = s[r]
      /\ \A i \in Item : t[i] = s[i]
  BY KindsApart DEF Saved, Kept
<1>2. /\ \A r, x \in Relationship \ rd :
           /\ IsRelated(t[r]) /\ IsRelated(t[x])
           /\ t[r].from = t[x].from /\ t[r].to = t[x].to /\ t[r].type = t[x].type
           => r = x
      /\ \A i, j \in Item \ rd : IsItem(t[i]) /\ IsItem(t[j]) /\ t[i].code = t[j].code => i = j
  BY <1>1 DEF Unique
<1>3. ASSUME NEW q \in Party \ rd, q # p, p \notin rd, IsSupplier(next), IsSupplier(s[q]),
             next.principal = s[q].principal
      PROVE  next.principal = NoPrincipal
  <2>1. CASE p \in DOMAIN seen /\ FollowsParty(seen[p], next)
    <3>1. seen[p] = s[p] /\ FollowsParty(s[p], next)
      BY <1>3, <2>1 DEF SawAll
    <3>2. IsSupplier(s[p]) /\ next.principal \in {s[p].principal, NoPrincipal}
      BY <1>3, <3>1, RecordsExist DEF FollowsParty, IsSupplier
    <3>3. s[p].principal = s[q].principal => s[p].principal = NoPrincipal
      BY <1>3, <3>2 DEF Unique
    <3>4. QED
      BY <1>3, <3>2, <3>3
  <2>2. CASE ClaimsPrincipal(seen, p, next)
    <3>1. next.principal # NoPrincipal =>
            q \in DOMAIN seen /\ (IsSupplier(seen[q]) => seen[q].principal # next.principal)
      BY <1>3, <2>2 DEF ClaimsPrincipal
    <3>2. q \in DOMAIN seen => seen[q] = s[q]
      BY <1>3 DEF SawAll
    <3>3. QED
      BY <1>3, <3>1, <3>2
  <2>3. CASE MergesInto(seen, p, next)
    BY <1>3, <2>3 DEF MergesInto, IsSupplier, IsTerminal
  <2>4. QED
    BY <2>1, <2>2, <2>3 DEF SavesParty
<1>4. ASSUME NEW q \in Party \ rd, NEW x \in Party \ rd, IsSupplier(t[q]), IsSupplier(t[x]),
             t[q].principal = t[x].principal, q # x
      PROVE  t[q].principal = NoPrincipal
  <2>1. CASE q # p /\ x # p
    BY <1>1, <1>4, <2>1 DEF Unique
  <2>2. CASE q = p
    BY <1>1, <1>3, <1>4, <2>2
  <2>3. CASE x = p
    BY <1>1, <1>3, <1>4, <2>3
  <2>4. QED
    BY <2>1, <2>2, <2>3
<1>5. QED
  BY <1>2, <1>4 DEF Unique

LEMMA PartyMerges ==
  ASSUME NEW s, NEW t, NEW rc, NEW rd, rc \subseteq rd, NEW seen,
         NEW p \in Party, NEW next \in PartyRecord,
         MergesInOrder(s, rc), Saved(s, t, p, next), SavesParty(seen, p, next),
         p \notin rd => SawAll(seen, s)
  PROVE  MergesInOrder(t, rd)
<1> SUFFICES ASSUME rd \intersect Party = {}
             PROVE  \E order \in [Party -> Nat] : InOrder(t, order)
  BY DEF MergesInOrder
<1>1. PICK order \in [Party -> Nat] : InOrder(s, order)
  BY DEF MergesInOrder
<1>2. \A q \in Party : q # p => t[q] = s[q]
  BY DEF Saved, Kept
<1>3. t[p] = next /\ Exists(next) /\ SawAll(seen, s)
  BY RecordsExist DEF Saved
<1>4. CASE next.status = "merged" => Exists(s[p]) /\ s[p].status = "merged" /\ next.into = s[p].into
  <2>1. InOrder(t, order)
    <3>1. ASSUME NEW q \in Party, Exists(t[q]), t[q].status = "merged"
          PROVE  Exists(s[q]) /\ s[q].status = "merged" /\ t[q].into = s[q].into
      <4>1. CASE q = p
        BY <1>3, <1>4, <3>1, <4>1
      <4>2. CASE q # p
        BY <1>2, <3>1, <4>2
      <4>3. QED
        BY <4>1, <4>2
    <3>2. \A q \in Party : Exists(s[q]) => Exists(t[q])
      BY <1>2, <1>3
    <3>3. QED
      BY <1>1, <3>1, <3>2 DEF InOrder
  <2>2. QED
    BY <2>1
<1>5. CASE MergesInto(seen, p, next)
  <2>1. PICK v \in Party : v = next.into
    BY <1>5 DEF MergesInto
  <2>2. v # p /\ v \in DOMAIN seen /\ IsSupplier(seen[v]) /\ next.status = "merged"
    BY <1>5, <2>1 DEF MergesInto
  <2>3. IsSupplier(s[v]) /\ t[v] = s[v]
    BY <1>2, <1>3, <2>2 DEF SawAll
  <2>4. Exists(s[v]) /\ s[v].status # "merged"
    BY <2>3 DEF IsSupplier, IsTerminal
  <2>5. PICK later : later = [order EXCEPT ![v] = order[v] + order[p] + 1]
    OBVIOUS
  <2>6. order[v] \in Nat /\ order[p] \in Nat
    BY <1>1
  <2>7. /\ later \in [Party -> Nat] /\ later[v] = order[v] + order[p] + 1
        /\ \A q \in Party : q # v => later[q] = order[q]
    BY <1>1, <2>5, <2>6
  <2>8. order[p] < later[v] /\ \A n \in Nat : n < order[v] => n < later[v]
    BY <2>6, <2>7
  <2>9. ASSUME NEW q \in Party, Exists(t[q]), t[q].status = "merged"
        PROVE  t[q].into \in Party /\ Exists(t[t[q].into]) /\ later[q] < later[t[q].into]
    <3>1. q # v
      BY <2>3, <2>4, <2>9
    <3>2. CASE q = p
      <4>1. t[q].into = v
        BY <1>3, <2>1, <3>2
      <4>2. QED
        BY <2>3, <2>4, <2>7, <2>8, <3>1, <3>2, <4>1
    <3>3. CASE q # p
      <4>1. t[q] = s[q]
        BY <1>2, <3>3
      <4>2. PICK u \in Party : u = s[q].into /\ Exists(s[u]) /\ order[q] < order[u]
        BY <1>1, <2>9, <4>1 DEF InOrder
      <4>3. Exists(t[u])
        BY <1>2, <1>3, <4>2
      <4>4. later[q] = order[q] /\ order[q] \in Nat
        BY <1>1, <2>7, <3>1
      <4>5. later[q] < later[u]
        <5>1. CASE u = v
          BY <2>8, <4>2, <4>4, <5>1
        <5>2. CASE u # v
          BY <2>7, <4>2, <4>4, <5>2
        <5>3. QED
          BY <5>1, <5>2
      <4>6. QED
        BY <4>1, <4>2, <4>3, <4>5
    <3>4. QED
      BY <3>2, <3>3
  <2>10. InOrder(t, later)
    BY <2>9 DEF InOrder
  <2>11. QED
    BY <2>7, <2>10
<1>6. CASE p \in DOMAIN seen /\ FollowsParty(seen[p], next)
  <2>1. FollowsParty(s[p], next)
    BY <1>3, <1>6 DEF SawAll
  <2>2. next.status = "merged" => Exists(s[p]) /\ s[p].status = "merged" /\ next.into = s[p].into
    BY <2>1, RecordsExist DEF FollowsParty
  <2>3. QED
    BY <1>4, <2>2
<1>7. CASE ClaimsPrincipal(seen, p, next)
  <2>1. next.status # "merged"
    BY <1>7 DEF ClaimsPrincipal
  <2>2. QED
    BY <1>4, <2>1
<1>8. QED
  BY <1>5, <1>6, <1>7 DEF SavesParty

LEMMA PartiesSame ==
  ASSUME NEW s, NEW t, NEW rc, NEW rd, rc \subseteq rd, MergesInOrder(s, rc),
         \A p \in Party : t[p] = s[p]
  PROVE  MergesInOrder(t, rd)
<1>1. ASSUME NEW order, InOrder(s, order) PROVE InOrder(t, order)
  BY <1>1 DEF InOrder
<1>2. QED
  BY <1>1 DEF MergesInOrder

LEMMA RelationshipSaves ==
  ASSUME NEW s, NEW t, NEW rc, NEW rd, rc \subseteq rd, NEW seen,
         NEW r \in Relationship, NEW next \in RelationshipRecord,
         Records(s), Unique(s, rc), MergesInOrder(s, rc), Saved(s, t, r, next),
         SavesRelationship(seen, next), r \notin rd => SawAll(seen, s)
  PROVE  Records(t) /\ Unique(t, rd) /\ MergesInOrder(t, rd)
<1>1. /\ \A p \in Party : t[p] = s[p]
      /\ \A x \in Relationship : x # r => t[x] = s[x]
      /\ t[r] = next
      /\ \A i \in Item : t[i] = s[i]
  BY KindsApart DEF Saved, Kept
<1>2. Records(t)
  BY <1>1 DEF Records
<1>3. /\ \A p, q \in Party \ rd :
           IsSupplier(t[p]) /\ IsSupplier(t[q]) /\ t[p].principal = t[q].principal
             => p = q \/ t[p].principal = NoPrincipal
      /\ \A i, j \in Item \ rd : IsItem(t[i]) /\ IsItem(t[j]) /\ t[i].code = t[j].code => i = j
  BY <1>1 DEF Unique
<1>4. ASSUME r \notin rd, NEW x \in Relationship, IsRelated(s[x]), IsRelated(next)
      PROVE  s[x].from # next.from \/ s[x].to # next.to \/ s[x].type # next.type
  BY <1>4 DEF SavesRelationship, SawAll, IsRelated
<1>5. ASSUME NEW x \in Relationship \ rd, NEW y \in Relationship \ rd, x # y,
             IsRelated(t[x]), IsRelated(t[y]),
             t[x].from = t[y].from, t[x].to = t[y].to, t[x].type = t[y].type
      PROVE  FALSE
  <2>1. CASE x # r /\ y # r
    BY <1>1, <1>5, <2>1 DEF Unique
  <2>2. CASE x = r
    BY <1>1, <1>4, <1>5, <2>2
  <2>3. CASE y = r
    BY <1>1, <1>4, <1>5, <2>3
  <2>4. QED
    BY <2>1, <2>2, <2>3
<1>6. Unique(t, rd)
  BY <1>3, <1>5 DEF Unique
<1>7. QED
  BY <1>1, <1>2, <1>6, PartiesSame

LEMMA ItemSaves ==
  ASSUME NEW s, NEW t, NEW rc, NEW rd, rc \subseteq rd, NEW seen, NEW news,
         NEW i \in Item, NEW next \in ItemRecord,
         Records(s), Unique(s, rc), MergesInOrder(s, rc), Saved(s, t, i, next),
         SavesItem(seen, news, i, next), i \notin rd => SawAll(seen, s)
  PROVE  Records(t) /\ Unique(t, rd) /\ MergesInOrder(t, rd)
<1>1. /\ \A p \in Party : t[p] = s[p]
      /\ \A r \in Relationship : t[r] = s[r]
      /\ \A j \in Item : j # i => t[j] = s[j]
      /\ t[i] = next
  BY KindsApart DEF Saved, Kept
<1>2. VariantsApart(next)
  BY DEF SavesItem
<1>3. Records(t)
  BY <1>1, <1>2 DEF Records
<1>4. /\ \A p, q \in Party \ rd :
           IsSupplier(t[p]) /\ IsSupplier(t[q]) /\ t[p].principal = t[q].principal
             => p = q \/ t[p].principal = NoPrincipal
      /\ \A r, x \in Relationship \ rd :
           /\ IsRelated(t[r]) /\ IsRelated(t[x])
           /\ t[r].from = t[x].from /\ t[r].to = t[x].to /\ t[r].type = t[x].type
           => r = x
  BY <1>1 DEF Unique
<1>5. ASSUME i \notin rd, NEW j \in Item \ rd, j # i, IsItem(s[j]), IsItem(next)
      PROVE  s[j].code # next.code
  <2>1. CASE FollowsItem(seen[i], next, news, i)
    <3>1. seen[i] = s[i]
      BY <1>5 DEF SawAll, SavesItem
    <3>2. IsItem(s[i]) /\ next.code = s[i].code
      BY <1>5, <2>1, <3>1 DEF FollowsItem
    <3>3. QED
      BY <1>5, <3>2 DEF Unique
  <2>2. CASE IsFree(seen, i, next.code)
    BY <1>5, <2>2 DEF IsFree, SawAll
  <2>3. QED
    BY <2>1, <2>2 DEF SavesItem
<1>6. ASSUME NEW x \in Item \ rd, NEW y \in Item \ rd, x # y,
             IsItem(t[x]), IsItem(t[y]), t[x].code = t[y].code
      PROVE  FALSE
  <2>1. CASE x # i /\ y # i
    BY <1>1, <1>6, <2>1 DEF Unique
  <2>2. CASE x = i
    BY <1>1, <1>5, <1>6, <2>2
  <2>3. CASE y = i
    BY <1>1, <1>5, <1>6, <2>3
  <2>4. QED
    BY <2>1, <2>2, <2>3
<1>7. Unique(t, rd)
  BY <1>4, <1>6 DEF Unique
<1>8. QED
  BY <1>1, <1>3, <1>7, PartiesSame

\* What no save of this step touches is told as it was.
LEMMA ToldAsBefore ==
  ASSUME NEW s, NEW t, NEW told0, NEW w, NEW x, NEW rc, NEW rd, rc \subseteq rd,
         \A i \in Item : t[i] = s[i], \A k : ToTell(w, k) => ToTell(x, k),
         StatusTold(s, told0, w, rc), PricesTold(s, told0, w, rc)
  PROVE  StatusTold(t, told0, x, rd) /\ PricesTold(t, told0, x, rd)
<1>1. StatusTold(t, told0, x, rd)
  BY DEF StatusTold
<1>2. PricesTold(t, told0, x, rd)
  BY DEF PricesTold, PriceTold
<1>3. QED
  BY <1>1, <1>2

LEMMA ItemTold ==
  ASSUME NEW s, NEW t, NEW told0, NEW w, NEW x, NEW rc, NEW rd, rc \subseteq rd,
         NEW seen, NEW news, NEW i \in Item, NEW next \in ItemRecord,
         Saved(s, t, i, next), SavesItem(seen, news, i, next),
         i \notin rd => SawAll(seen, s),
         \A k : ToTell(w, k) \/ k \in DOMAIN news => ToTell(x, k),
         StatusTold(s, told0, w, rc), PricesTold(s, told0, w, rc)
  PROVE  StatusTold(t, told0, x, rd) /\ PricesTold(t, told0, x, rd)
<1>1. t[i] = next /\ \A j \in Item : j # i => t[j] = s[j]
  BY DEF Saved, Kept
<1>2. Exists(next)
  BY RecordsExist
<1>3. ASSUME i \notin rd
      PROVE  \/ FollowsItem(s[i], next, news, i)
             \/ s[i] = NoRecord /\ i \in DOMAIN news
  BY <1>3 DEF SavesItem, IsFree, SawAll
<1>4. ASSUME NEW j \in Item \ rd, Exists(t[j]), Exists(told0[j]), ~ToTell(x, j)
      PROVE  told0[j] = t[j].status
  <2>1. CASE j # i
    BY <1>1, <1>4, <2>1 DEF StatusTold
  <2>2. CASE j = i
    <3>1. FollowsItem(s[i], next, news, i) /\ i \notin DOMAIN news
      BY <1>3, <1>4, <2>2
    <3>2. Exists(s[i]) /\ next.status = s[i].status
      BY <3>1, RecordsExist DEF FollowsItem
    <3>3. told0[i] = s[i].status
      BY <1>4, <2>2, <3>2 DEF StatusTold
    <3>4. QED
      BY <1>1, <2>2, <3>2, <3>3
  <2>3. QED
    BY <2>1, <2>2
<1>5. ASSUME NEW j \in Item \ rd, NEW v \in Variant \union {NoVariant},
             NEW k, k = PriceOf(j, v), k \notin rd, Exists(told0[k]), ~ToTell(x, k)
      PROVE  PriceTold(t[j], v, told0[k])
  <2>1. PriceTold(s[j], v, told0[k])
    BY <1>5 DEF PricesTold
  <2>2. CASE j # i
    BY <1>1, <2>1, <2>2
  <2>3. CASE j = i
    <3>1. k \notin DOMAIN news /\ s[i] # NoRecord
      BY <1>5, <2>1, <2>3 DEF PriceTold, Exists
    <3>2. FollowsItem(s[i], next, news, i)
      BY <1>3, <1>5, <2>3, <3>1
    <3>3. v \in DOMAIN next.prices /\ next.prices[v] = s[i].prices[v]
      BY <1>5, <2>1, <2>3, <3>1, <3>2 DEF FollowsItem, PriceTold
    <3>4. QED
      BY <1>1, <1>2, <2>1, <2>3, <3>3 DEF PriceTold
  <2>4. QED
    BY <2>2, <2>3
<1>6. QED
  BY <1>4, <1>5 DEF StatusTold, PricesTold

LEMMA SaveEffects ==
  ASSUME SuppliersInv, NEW c \in Call, Save(c), NEW k \in Kept, NEW next,
         work[c].writes[1] = k :> next
  PROVE  /\ CallsOK' /\ OthersStay(c) /\ told' = told /\ raced \subseteq raced'
         /\ Saved(store, store', k, next)
         /\ k \notin raced' => SawAll(work[c].seen, store)
         /\ work'[c].todo = <<>> /\ work'[c].news = work[c].news
         /\ work'[c].writes = Tail(work[c].writes) /\ work'[c].seen = (k :> next) @@ work[c].seen
         /\ DOMAIN work'[c].seen \subseteq Kept
         /\ \A x : ToTell(work, x) => ToTell(work', x)
<1>1. PICK write : write = work[c].writes[1]
  OBVIOUS
<1>2. CallsOK /\ Kept \subseteq DOMAIN store
  BY KeptKeys DEF SuppliersInv, CallsOK
<1>3. /\ CallsOK' /\ OthersStay(c)
      /\ work[c].todo = <<>> /\ work[c].writes # <<>>
      /\ store' = write @@ store /\ told' = told
      /\ raced \subseteq raced'
      /\ \A x \in DOMAIN write : x \notin raced' =>
           \A s \in DOMAIN work[c].seen : work[c].seen[s] = store[s]
      /\ work'[c].todo = work[c].todo
      /\ work'[c].writes = Tail(work[c].writes) /\ work'[c].news = work[c].news
      /\ work'[c].seen = write @@ work[c].seen
  BY <1>1, <1>2, SaveEffect
<1>4. DOMAIN write = {k} /\ write[k] = next
  BY <1>1 DEF :>
<1>5. Saved(store, store', k, next)
  BY <1>2, <1>3, <1>4 DEF Saved, @@
<1>6. k \notin raced' => SawAll(work[c].seen, store)
  BY <1>3, <1>4 DEF SawAll
<1>7. DOMAIN work[c].seen \subseteq Kept
  BY DEF SuppliersInv, OfferCallInv
<1>8. DOMAIN work'[c].seen \subseteq Kept
  BY <1>3, <1>4, <1>7 DEF @@
<1>9. ASSUME NEW x, ToTell(work, x) PROVE ToTell(work', x)
  BY <1>3, <1>9, ToTellKept
<1>10. QED
  BY <1>1, <1>3, <1>5, <1>6, <1>8, <1>9

LEMMA PartySaveKeeps ==
  ASSUME SuppliersInv, NEW c \in Call, Save(c), NEW p \in Party, NEW next \in PartyRecord,
         work[c].writes[1] = p :> next, SavesParty(work[c].seen, p, next), OfferCallInv(work'[c])
  PROVE  SuppliersInv'
<1>1. PICK seen : seen = work[c].seen
  OBVIOUS
<1>2. PICK s : s = store
  OBVIOUS
<1>3. PICK t : t = store'
  OBVIOUS
<1>4. PICK rc, rd : rc = raced /\ rd = raced'
  OBVIOUS
<1>5. p \in Kept
  BY DEF Kept
<1>6. /\ CallsOK' /\ OthersStay(c) /\ told' = told /\ rc \subseteq rd
      /\ Saved(s, t, p, next)
      /\ p \notin rd => SawAll(seen, s)
      /\ \A x : ToTell(work, x) => ToTell(work', x)
  BY <1>1, <1>2, <1>3, <1>4, <1>5, SaveEffects
<1>7. /\ Records(s) /\ Unique(s, rc) /\ MergesInOrder(s, rc)
      /\ StatusTold(s, told, work, rc) /\ PricesTold(s, told, work, rc)
  BY <1>2, <1>4 DEF SuppliersInv
<1>8. SavesParty(seen, p, next)
  BY <1>1
<1>9. Records(t)
  BY <1>6, <1>7, PartyRecords
<1>10. Unique(t, rd)
  BY <1>6, <1>7, <1>8, PartyUnique
<1>11. MergesInOrder(t, rd)
  BY <1>6, <1>7, <1>8, PartyMerges
<1>12. \A i \in Item : t[i] = s[i]
  BY <1>6, KindsApart DEF Saved, Kept
<1>13. PICK w, x : w = work /\ x = work'
  OBVIOUS
<1>14. PICK told0 : told0 = told
  OBVIOUS
<1>15. StatusTold(t, told0, x, rd) /\ PricesTold(t, told0, x, rd)
  BY <1>6, <1>7, <1>12, <1>13, <1>14, ToldAsBefore
<1>16. \A d \in Call : OfferCallInv(work'[d])
  BY <1>6 DEF SuppliersInv, OthersStay
<1>17. QED
  BY <1>3, <1>4, <1>6, <1>9, <1>10, <1>11, <1>13, <1>14, <1>15, <1>16 DEF SuppliersInv

LEMMA RelationshipSaveKeeps ==
  ASSUME SuppliersInv, NEW c \in Call, Save(c),
         NEW r \in Relationship, NEW next \in RelationshipRecord,
         work[c].writes[1] = r :> next, SavesRelationship(work[c].seen, next),
         OfferCallInv(work'[c])
  PROVE  SuppliersInv'
<1>1. PICK seen : seen = work[c].seen
  OBVIOUS
<1>2. PICK s, t : s = store /\ t = store'
  OBVIOUS
<1>3. PICK rc, rd : rc = raced /\ rd = raced'
  OBVIOUS
<1>4. r \in Kept
  BY DEF Kept
<1>5. /\ CallsOK' /\ OthersStay(c) /\ told' = told /\ rc \subseteq rd
      /\ Saved(s, t, r, next)
      /\ r \notin rd => SawAll(seen, s)
      /\ \A x : ToTell(work, x) => ToTell(work', x)
  BY <1>1, <1>2, <1>3, <1>4, SaveEffects
<1>6. /\ Records(s) /\ Unique(s, rc) /\ MergesInOrder(s, rc)
      /\ StatusTold(s, told, work, rc) /\ PricesTold(s, told, work, rc)
  BY <1>2, <1>3 DEF SuppliersInv
<1>7. SavesRelationship(seen, next)
  BY <1>1
<1>8. Records(t) /\ Unique(t, rd) /\ MergesInOrder(t, rd)
  BY <1>5, <1>6, <1>7, RelationshipSaves
<1>9. \A i \in Item : t[i] = s[i]
  BY <1>5, KindsApart DEF Saved, Kept
<1>10. PICK w, x : w = work /\ x = work'
  OBVIOUS
<1>11. PICK told0 : told0 = told
  OBVIOUS
<1>12. StatusTold(t, told0, x, rd) /\ PricesTold(t, told0, x, rd)
  BY <1>5, <1>6, <1>9, <1>10, <1>11, ToldAsBefore
<1>13. \A d \in Call : OfferCallInv(work'[d])
  BY <1>5 DEF SuppliersInv, OthersStay
<1>14. QED
  BY <1>2, <1>3, <1>5, <1>8, <1>10, <1>11, <1>12, <1>13 DEF SuppliersInv

LEMMA ItemSaveKeeps ==
  ASSUME SuppliersInv, NEW c \in Call, Save(c), NEW i \in Item, NEW next \in ItemRecord,
         work[c].writes = << i :> next >>, SavesItem(work[c].seen, work[c].news, i, next),
         OfferCallInv(work'[c])
  PROVE  SuppliersInv'
<1>1. PICK seen, news : seen = work[c].seen /\ news = work[c].news
  OBVIOUS
<1>2. PICK s, t : s = store /\ t = store'
  OBVIOUS
<1>3. PICK rc, rd : rc = raced /\ rd = raced'
  OBVIOUS
<1>4. i \in Kept /\ work[c].writes[1] = i :> next /\ Tail(work[c].writes) = <<>>
  BY DEF Kept
<1>5. /\ CallsOK' /\ OthersStay(c) /\ told' = told /\ rc \subseteq rd
      /\ Saved(s, t, i, next)
      /\ i \notin rd => SawAll(seen, s)
      /\ \A x : ToTell(work, x) => ToTell(work', x)
      /\ work'[c].writes = <<>> /\ work'[c].news = news
  BY <1>1, <1>2, <1>3, <1>4, SaveEffects
<1>6. /\ Records(s) /\ Unique(s, rc) /\ MergesInOrder(s, rc)
      /\ StatusTold(s, told, work, rc) /\ PricesTold(s, told, work, rc)
  BY <1>2, <1>3 DEF SuppliersInv
<1>7. SavesItem(seen, news, i, next)
  BY <1>1
<1>8. Records(t) /\ Unique(t, rd) /\ MergesInOrder(t, rd)
  BY <1>5, <1>6, <1>7, ItemSaves
<1>9. PICK w, x : w = work /\ x = work'
  OBVIOUS
<1>10. \A k : ToTell(w, k) \/ k \in DOMAIN news => ToTell(x, k)
  BY <1>5, <1>9 DEF ToTell
<1>11. PICK told0 : told0 = told
  OBVIOUS
<1>12. StatusTold(s, told0, w, rc) /\ PricesTold(s, told0, w, rc)
  BY <1>6, <1>9, <1>11
<1>13. StatusTold(t, told0, x, rd) /\ PricesTold(t, told0, x, rd)
  BY <1>5, <1>7, <1>10, <1>12, ItemTold
<1>14. \A d \in Call : OfferCallInv(work'[d])
  BY <1>5 DEF SuppliersInv, OthersStay
<1>15. QED
  BY <1>2, <1>3, <1>5, <1>8, <1>9, <1>11, <1>13, <1>14 DEF SuppliersInv

LEMMA OfferSaveKeeps ==
  ASSUME SuppliersInv, NEW c \in Call, Save(c)
  PROVE  SuppliersInv'
<1>1. PICK seen, writes, news : /\ seen = work[c].seen /\ writes = work[c].writes
                                /\ news = work[c].news
  OBVIOUS
<1>2. OfferWork(seen, writes, news) /\ writes # <<>>
  BY <1>1 DEF SuppliersInv, OfferCallInv, Save, Committing, IsIdle
<1>3. ASSUME NEW k \in Kept, NEW next, work[c].writes[1] = k :> next
      PROVE  /\ work'[c].todo = <<>> /\ work'[c].news = news
             /\ work'[c].writes = Tail(writes) /\ work'[c].seen = (k :> next) @@ seen
             /\ DOMAIN work'[c].seen \subseteq Kept
  BY <1>1, <1>3, SaveEffects
<1>4. ASSUME NEW k \in Kept, NEW next, work[c].writes[1] = k :> next,
             OfferWork((k :> next) @@ seen, Tail(writes), news)
      PROVE  OfferCallInv(work'[c])
  BY <1>3, <1>4 DEF OfferCallInv
<1>5. CASE PartyWork(seen, writes, news)
  <2>1. CASE \E p \in Party, next \in PartyRecord :
               writes = << p :> next >> /\ SavesParty(seen, p, next)
    <3>1. PICK p \in Party, next \in PartyRecord :
            writes = << p :> next >> /\ SavesParty(seen, p, next)
      BY <2>1
    <3>2. p \in Kept /\ writes[1] = p :> next /\ Tail(writes) = <<>>
      BY <3>1 DEF Kept
    <3>3. OfferWork((p :> next) @@ seen, Tail(writes), news)
      BY <1>5, <3>2 DEF OfferWork, PartyWork
    <3>4. OfferCallInv(work'[c])
      BY <1>1, <1>4, <3>2, <3>3
    <3>5. QED
      BY <1>1, <3>1, <3>2, <3>4, PartySaveKeeps
  <2>2. CASE \E s, a \in Party, x, y \in PartyRecord :
               /\ writes = << s :> x, a :> y >>
               /\ SavesParty(seen, s, x) /\ SavesParty((s :> x) @@ seen, a, y)
    <3>1. PICK s \in Party, a \in Party, x \in PartyRecord, y \in PartyRecord :
            /\ writes = << s :> x, a :> y >>
            /\ SavesParty(seen, s, x) /\ SavesParty((s :> x) @@ seen, a, y)
      BY <2>2
    <3>2. s \in Kept /\ writes[1] = s :> x /\ Tail(writes) = << a :> y >>
      BY <3>1 DEF Kept
    <3>3. PICK later, rest : later = (s :> x) @@ seen /\ rest = Tail(writes)
      OBVIOUS
    <3>4. PartyWork(later, rest, news)
      BY <1>5, <3>1, <3>2, <3>3 DEF PartyWork
    <3>5. OfferWork((s :> x) @@ seen, Tail(writes), news)
      BY <3>3, <3>4 DEF OfferWork
    <3>6. OfferCallInv(work'[c])
      BY <1>1, <1>4, <3>2, <3>5
    <3>7. QED
      BY <1>1, <3>1, <3>2, <3>6, PartySaveKeeps
  <2>3. QED
    BY <1>2, <1>5, <2>1, <2>2 DEF PartyWork
<1>6. CASE RelationshipWork(seen, writes, news)
  <2>1. PICK r \in Relationship, next \in RelationshipRecord :
          writes = << r :> next >> /\ SavesRelationship(seen, next)
    BY <1>2, <1>6 DEF RelationshipWork
  <2>2. r \in Kept /\ writes[1] = r :> next /\ Tail(writes) = <<>>
    BY <2>1 DEF Kept
  <2>3. OfferWork((r :> next) @@ seen, Tail(writes), news)
    BY <1>6, <2>2 DEF OfferWork, RelationshipWork
  <2>4. OfferCallInv(work'[c])
    BY <1>1, <1>4, <2>2, <2>3
  <2>5. QED
    BY <1>1, <2>1, <2>2, <2>4, RelationshipSaveKeeps
<1>7. CASE ItemWork(seen, writes, news)
  <2>1. PICK i \in Item, next \in ItemRecord :
          writes = << i :> next >> /\ SavesItem(seen, news, i, next)
    BY <1>2, <1>7 DEF ItemWork
  <2>2. i \in Kept /\ writes[1] = i :> next /\ Tail(writes) = <<>>
    BY <2>1 DEF Kept
  <2>3. PICK later : later = (i :> next) @@ seen
    OBVIOUS
  <2>4. i \in DOMAIN later /\ later[i] = next
    BY <2>3 DEF :>, @@
  <2>5. Exists(next) /\ Tells(news, i, next)
    BY <2>1, RecordsExist DEF SavesItem
  <2>6. OfferWork((i :> next) @@ seen, Tail(writes), news)
    BY <2>2, <2>3, <2>4, <2>5 DEF OfferWork, ItemWork
  <2>7. OfferCallInv(work'[c])
    BY <1>1, <1>4, <2>2, <2>6
  <2>8. QED
    BY <1>1, <2>1, <2>7, ItemSaveKeeps
<1>8. QED
  BY <1>2, <1>5, <1>6, <1>7 DEF OfferWork

-----------------------------------------------------------------------------
(***************************************************************************)
(* What is published.                                                      *)
(***************************************************************************)
\* Of an item a call tells what it has seen of it last.
TellsSeen(seen, news) ==
  /\ \A i \in Item : i \in DOMAIN news =>
       i \in DOMAIN seen /\ Exists(seen[i]) /\ news[i] = seen[i].status
  /\ \A i \in Item, v \in Variant \union {NoVariant} : PriceOf(i, v) \in DOMAIN news =>
       i \in DOMAIN seen /\ PriceTold(seen[i], v, news[PriceOf(i, v)])

LEMMA WorkTells ==
  ASSUME NEW seen, NEW writes, writes = <<>>, NEW news, OfferWork(seen, writes, news)
  PROVE  TellsSeen(seen, news)
<1>1. ASSUME NEW i \in Item
      PROVE  /\ i \notin Party \union Channel /\ i \notin Relationship /\ i \notin Variant
             /\ \A v \in Variant \union {NoVariant} :
                  /\ PriceOf(i, v) \notin Party \union Channel
                  /\ PriceOf(i, v) \notin Relationship
  BY KindsApart, PricesAre DEF Kept
<1>2. CASE PartyWork(seen, writes, news)
  BY <1>1, <1>2 DEF PartyWork, TellsSeen
<1>3. CASE RelationshipWork(seen, writes, news)
  BY <1>1, <1>3 DEF RelationshipWork, TellsSeen
<1>4. CASE ItemWork(seen, writes, news)
  <2>1. PICK j \in Item : j \in DOMAIN seen /\ Exists(seen[j]) /\ Tells(news, j, seen[j])
    <3>1. \A k, next : << k :> next >> # writes
      OBVIOUS
    <3>2. QED
      BY <1>4, <3>1 DEF ItemWork
  <2>2. ASSUME NEW i \in Item, i \in DOMAIN news
        PROVE  i = j
    <3>1. \A v \in Variant \union {NoVariant} : i # PriceOf(j, v)
      BY PricesAre DEF Kept
    <3>2. QED
      BY <1>1, <2>1, <2>2, <3>1 DEF Tells
  <2>3. ASSUME NEW i \in Item, NEW v \in Variant \union {NoVariant}, PriceOf(i, v) \in DOMAIN news
        PROVE  i = j
    <3>1. PriceOf(i, v) \notin {j} \union Variant
      BY PricesAre DEF Kept
    <3>2. PICK u \in Variant \union {NoVariant} : PriceOf(i, v) = PriceOf(j, u)
      BY <2>1, <2>3, <3>1 DEF Tells
    <3>3. QED
      BY <3>2, PricesAre
  <2>4. \A i \in Item : i \in DOMAIN news =>
          i \in DOMAIN seen /\ Exists(seen[i]) /\ news[i] = seen[i].status
    BY <2>1, <2>2 DEF Tells
  <2>5. \A i \in Item, v \in Variant \union {NoVariant} : PriceOf(i, v) \in DOMAIN news =>
          i \in DOMAIN seen /\ PriceTold(seen[i], v, news[PriceOf(i, v)])
    BY <2>1, <2>3 DEF Tells, PriceTold
  <2>6. QED
    BY <2>4, <2>5 DEF TellsSeen
<1>5. QED
  BY <1>2, <1>3, <1>4 DEF OfferWork

LEMMA PublishEffects ==
  ASSUME SuppliersInv, NEW c \in Call, Publish(c)
  PROVE  /\ CallsOK' /\ OthersStay(c) /\ work'[c] = Idle /\ store' = store
         /\ told' = work[c].news @@ told /\ raced \subseteq raced'
         /\ TellsSeen(work[c].seen, work[c].news)
         /\ \A k \in DOMAIN work[c].news : k \notin raced' =>
              IF k \in DOMAIN work[c].seen THEN work[c].seen[k] = store[k]
              ELSE SawAll(work[c].seen, store)
<1>1. CallsOK
  BY DEF SuppliersInv
<1>2. /\ CallsOK' /\ OthersStay(c) /\ work'[c] = Idle
      /\ store' = store /\ told' = work[c].news @@ told /\ raced \subseteq raced'
      /\ work[c].todo = <<>> /\ work[c].writes = <<>>
  BY <1>1, PublishEffect
<1>3. work[c] # Idle
  BY DEF Publish, Reached, Committing, IsIdle
<1>4. OfferWork(work[c].seen, work[c].writes, work[c].news)
  BY <1>2, <1>3 DEF SuppliersInv, OfferCallInv
<1>5. TellsSeen(work[c].seen, work[c].news)
  BY <1>2, <1>4, WorkTells
<1>6. \A k \in DOMAIN work[c].news : k \notin raced' =>
        IF k \in DOMAIN work[c].seen THEN work[c].seen[k] = store[k]
        ELSE SawAll(work[c].seen, store)
  BY DEF Publish, Stale, SawAll
<1>7. QED
  BY <1>2, <1>5, <1>6

LEMMA OfferPublishKeeps ==
  ASSUME SuppliersInv, NEW c \in Call, Publish(c)
  PROVE  SuppliersInv'
<1>1. PICK seen, news : seen = work[c].seen /\ news = work[c].news
  OBVIOUS
<1>2. /\ CallsOK' /\ OthersStay(c) /\ work'[c] = Idle /\ store' = store
      /\ told' = news @@ told /\ raced \subseteq raced' /\ TellsSeen(seen, news)
      /\ \A k \in DOMAIN news : k \notin raced' =>
           IF k \in DOMAIN seen THEN seen[k] = store[k] ELSE SawAll(seen, store)
      /\ DOMAIN seen \subseteq Kept /\ Key \subseteq DOMAIN told
  BY <1>1, PublishEffects DEF SuppliersInv, OfferCallInv
<1>3. /\ Key \subseteq DOMAIN told'
      /\ \A k \in DOMAIN news : told'[k] = news[k]
      /\ \A k \in Key : k \notin DOMAIN news => told'[k] = told[k]
  BY <1>2 DEF @@
<1>4. ASSUME NEW k, ToTell(work, k), k \notin DOMAIN news PROVE ToTell(work', k)
  BY <1>1, <1>2, <1>4, ToTellKept
<1>5. \A d \in Call : OfferCallInv(work'[d])
  BY <1>2, IdleCall, NoNews DEF SuppliersInv, OfferCallInv, OthersStay
<1>6. Unique(store, raced') /\ MergesInOrder(store, raced')
  BY <1>2, PartiesSame DEF SuppliersInv, Unique
<1>7. ASSUME NEW i \in Item \ raced', Exists(store[i]), Exists(told'[i]), ~ToTell(work', i)
      PROVE  told'[i] = store[i].status
  <2>1. i \in Key
    BY CatalogAssumption
  <2>2. CASE i \in DOMAIN news
    BY <1>2, <1>3, <1>7, <2>2 DEF TellsSeen
  <2>3. CASE i \notin DOMAIN news
    BY <1>2, <1>3, <1>4, <1>7, <2>1, <2>3 DEF SuppliersInv, StatusTold
  <2>4. QED
    BY <2>2, <2>3
<1>8. ASSUME NEW i \in Item \ raced', NEW v \in Variant \union {NoVariant},
             NEW k, k = PriceOf(i, v), k \notin raced', Exists(told'[k]), ~ToTell(work', k)
      PROVE  PriceTold(store[i], v, told'[k])
  <2>1. k \in Key /\ k \notin Kept
    BY <1>8, PricesAre
  <2>2. CASE k \in DOMAIN news
    <3>1. SawAll(seen, store)
      BY <1>2, <1>8, <2>1, <2>2
    <3>2. i \in DOMAIN seen /\ PriceTold(seen[i], v, news[k])
      BY <1>2, <1>8, <2>2 DEF TellsSeen
    <3>3. QED
      BY <1>3, <2>2, <3>1, <3>2 DEF SawAll
  <2>3. CASE k \notin DOMAIN news
    <3>1. told'[k] = told[k] /\ ~ToTell(work, k) /\ k \notin raced /\ i \notin raced
      BY <1>2, <1>3, <1>4, <1>8, <2>1, <2>3
    <3>2. QED
      BY <1>8, <3>1 DEF SuppliersInv, PricesTold
  <2>4. QED
    BY <2>2, <2>3
<1>9. StatusTold(store, told', work', raced') /\ PricesTold(store, told', work', raced')
  BY <1>7, <1>8 DEF StatusTold, PricesTold
<1>10. Records(store)
  BY DEF SuppliersInv
<1>11. QED
  BY <1>2, <1>3, <1>5, <1>6, <1>9, <1>10 DEF SuppliersInv

-----------------------------------------------------------------------------
(***************************************************************************)
(* The invariant.                                                          *)
(***************************************************************************)
LEMMA SuppliersStart ==
  ASSUME SuppliersInit
  PROVE  SuppliersInv
<1>1. PICK opening \in Openings : ServiceInit(opening)
  BY DEF SuppliersInit
<1>2. CallsOK /\ \A c \in Call : work[c] = Idle
  BY <1>1, CallsStart
<1>3. /\ told = [k \in Key |-> NoRecord] /\ raced = {}
      /\ store = [k \in Key |-> IF k \in DOMAIN opening THEN opening[k] ELSE NoRecord]
  BY <1>1 DEF ServiceInit
<1>4. /\ Records(store) /\ Unique(store, {})
      /\ \E order \in [Party -> 0 .. Cardinality(Party)] : InOrder(store, order)
  BY <1>3, SuppliersAssumption
<1>5. MergesInOrder(store, raced)
  <2>1. PICK order \in [Party -> 0 .. Cardinality(Party)] : InOrder(store, order)
    BY <1>4
  <2>2. order \in [Party -> Nat]
    OBVIOUS
  <2>3. QED
    BY <2>1, <2>2 DEF MergesInOrder
<1>6. \A c \in Call : OfferCallInv(work[c])
  BY <1>2, IdleCall, NoNews DEF OfferCallInv
<1>7. \A k \in Key : ~Exists(told[k])
  BY <1>3 DEF Exists
<1>8. StatusTold(store, told, work, raced) /\ PricesTold(store, told, work, raced)
  <2>1. \A i \in Item : i \in Key
    BY CatalogAssumption
  <2>2. \A i \in Item, v \in Variant \union {NoVariant} : PriceOf(i, v) \in Key
    BY PricesAre
  <2>3. QED
    BY <1>7, <2>1, <2>2 DEF StatusTold, PricesTold
<1>9. QED
  BY <1>2, <1>3, <1>4, <1>5, <1>6, <1>8 DEF SuppliersInv

LEMMA SuppliersStepKeeps ==
  ASSUME SuppliersInv, SuppliersNext
  PROVE  SuppliersInv'
<1>1. PICK c \in Call : SuppliersStep(c)
  BY DEF SuppliersNext
<1>2. CASE ~Committing(c) /\ PartiesStep(c)
  BY <1>2, PartiesStepQuiet, SavesNothingKeeps
<1>3. CASE ~Committing(c) /\ CatalogStep(c)
  BY <1>3, CatalogStepQuiet, SavesNothingKeeps
<1>4. CASE GiveUp(c)
  BY <1>4, GiveUpQuiet, SavesNothingKeeps
<1>5. CASE Save(c)
  BY <1>5, OfferSaveKeeps
<1>6. CASE Publish(c)
  BY <1>6, OfferPublishKeeps
<1>7. QED
  BY <1>1, <1>2, <1>3, <1>4, <1>5, <1>6 DEF SuppliersStep, CallStep

LEMMA SuppliersStutters ==
  ASSUME SuppliersInv, UNCHANGED suppliersVars
  PROVE  SuppliersInv'
<1>1. store' = store /\ told' = told /\ work' = work /\ raced' = raced
  BY DEF suppliersVars, serviceVars
<1>2. CallsOK'
  BY <1>1 DEF SuppliersInv, CallsOK
<1>3. QED
  BY <1>1, <1>2 DEF SuppliersInv

\* What has been saved past no other call is one of each kind, merges go forward, and
\* what was told is on file, or is still to be told: PartiesService and CatalogService
\* with any number of calls that overlap.
THEOREM SuppliersInvariant == SuppliersSpec => []SuppliersInv
<1>1. SuppliersInit => SuppliersInv
  BY SuppliersStart
<1>2. SuppliersInv /\ [SuppliersNext]_suppliersVars => SuppliersInv'
  BY SuppliersStepKeeps, SuppliersStutters
<1>3. QED
  BY <1>1, <1>2, PTL DEF SuppliersSpec

-----------------------------------------------------------------------------
(***************************************************************************)
(* One of each.                                                            *)
(***************************************************************************)
LEMMA AtMostOne ==
  ASSUME NEW S, \A x, y \in S : x = y
  PROVE  Cardinality(S) <= 1
<1>1. CASE S = {}
  <2>1. Cardinality(S) = 0
    BY <1>1, FS_EmptySet
  <2>2. QED
    BY <2>1
<1>2. CASE S # {}
  <2>1. PICK x : x \in S
    BY <1>2
  <2>2. S = {x}
    BY <2>1
  <2>3. Cardinality(S) = 1
    BY <2>2, FS_Singleton
  <2>4. QED
    BY <2>3
<1>3. QED
  BY <1>1, <1>2

\* PartiesService and CatalogService, for any number of calls that overlap: saved past
\* no other call, a principal belongs to one party that is not terminal, a party has one
\* relationship of each type to another and a code names one item; the codes of the
\* variants of an item differ whatever overlaps.
THEOREM OneOfEachAlways == SuppliersSpec => []OneOfEach
<1>1. SuppliersInv => OneOfEach
  <2> SUFFICES ASSUME SuppliersInv PROVE OneOfEach
    OBVIOUS
  <2>1. Records(store) /\ Unique(store, raced)
    BY DEF SuppliersInv
  <2>2. ASSUME NEW p \in Party \ raced, NEW q \in Party \ raced,
               Exists(store[p]), Exists(store[q]),
               store[p].principal = store[q].principal, store[p].principal # NoPrincipal
        PROVE  p = q \/ IsTerminal(store[p]) \/ IsTerminal(store[q])
    BY <2>1, <2>2 DEF Unique, IsSupplier
  <2>3. ASSUME NEW p \in Party, NEW q \in Party, NEW type \in RelationshipType
        PROVE  Cardinality(FindActive(p, q, type) \ raced) <= 1
    <3>1. PICK S : S = FindActive(p, q, type) \ raced
      OBVIOUS
    <3>2. \A x, y \in S : x = y
      BY <2>1, <3>1 DEF Unique, FindActive, IsRelated
    <3>3. QED
      BY <3>1, <3>2, AtMostOne
  <2>4. ASSUME NEW code \in Code
        PROVE  Cardinality(FindByCode(code) \ raced) <= 1
    <3>1. PICK S : S = FindByCode(code) \ raced
      OBVIOUS
    <3>2. \A x, y \in S : x = y
      BY <2>1, <3>1 DEF Unique, FindByCode
    <3>3. QED
      BY <3>1, <3>2, AtMostOne
  <2>5. \A i \in Item : Exists(store[i]) => VariantsApart(store[i])
    BY <2>1 DEF Records
  <2>6. QED
    BY <2>2, <2>3, <2>4, <2>5 DEF OneOfEach
<1>2. QED
  BY <1>1, SuppliersInvariant, PTL

\* CatalogService: at rest the last status and the last prices announced of an item
\* are those on file, unless they were saved or announced past another call.
THEOREM OffersAreAnnouncedAlways == SuppliersSpec => []OffersAreAnnounced
<1>1. SuppliersInv => OffersAreAnnounced
  <2> SUFFICES ASSUME SuppliersInv, AtRest, NEW i \in Item \ raced, Exists(store[i])
               PROVE  /\ Exists(told[i]) => told[i] = store[i].status
                      /\ \A v \in DOMAIN store[i].variants \union {NoVariant} :
                           LET announced == told[PriceOf(i, v)]
                           IN  PriceOf(i, v) \notin raced /\ Exists(announced)
                                 => announced = ResolveListPrice(store[i], v)
    BY DEF OffersAreAnnounced
  <2>1. \A k : ~ToTell(work, k)
    BY IdleCall DEF AtRest, IsIdle, ToTell
  <2>2. StatusTold(store, told, work, raced) /\ PricesTold(store, told, work, raced)
    BY DEF SuppliersInv
  <2>3. Exists(told[i]) => told[i] = store[i].status
    BY <2>1, <2>2 DEF StatusTold
  <2>4. DOMAIN store[i].variants \subseteq Variant
    <3>1. PICK variants : variants = store[i].variants
      OBVIOUS
    <3>2. variants \in Some(Variant, VariantRecord)
      BY <3>1, OnFile DEF SuppliersInv, ItemRecord
    <3>3. QED
      BY <3>1, <3>2, SomeIs
  <2>5. ASSUME NEW v \in DOMAIN store[i].variants \union {NoVariant},
               PriceOf(i, v) \notin raced, Exists(told[PriceOf(i, v)])
        PROVE  told[PriceOf(i, v)] = ResolveListPrice(store[i], v)
    <3>1. v \in Variant \union {NoVariant}
      BY <2>4
    <3>2. PriceTold(store[i], v, told[PriceOf(i, v)])
      BY <2>1, <2>2, <2>5, <3>1 DEF PricesTold
    <3>3. v \in DOMAIN store[i].prices /\ told[PriceOf(i, v)] = store[i].prices[v]
      BY <3>2 DEF PriceTold
    <3>4. QED
      BY <3>3 DEF ResolveListPrice
  <2>6. QED
    BY <2>3, <2>5
<1>2. QED
  BY <1>1, SuppliersInvariant, PTL

-----------------------------------------------------------------------------
(***************************************************************************)
(* Merges.                                                                 *)
(***************************************************************************)
\* f is where p has come to after each number of merges up to m.
ComesTo(s, q) == IF s[q].status = "merged" THEN s[q].into ELSE q

FollowsMerges(f, s, p, m) == f = [n \in 0 .. m |-> IF n = 0 THEN p ELSE ComesTo(s, f[n - 1])]

LEMMA SurvivorUnfolds ==
  ASSUME NEW p
  PROVE  Survivor(p) =
           (CHOOSE f : FollowsMerges(f, store, p, Cardinality(Party)))[Cardinality(Party)]
BY DEF Survivor, FollowsMerges, ComesTo

LEMMA FollowsMergesExist ==
  ASSUME NEW s, NEW p, NEW m \in Nat
  PROVE  \E f : FollowsMerges(f, s, p, m)
<1> DEFINE Bad == {n \in Nat : ~ \E f : FollowsMerges(f, s, p, n)}
<1>1. ASSUME NEW n \in Nat, NEW f, FollowsMerges(f, s, p, n)
      PROVE  \E g : FollowsMerges(g, s, p, n + 1)
  <2> DEFINE g == [k \in 0 .. n + 1 |-> IF k = 0 THEN p ELSE ComesTo(s, f[k - 1])]
  <2>1. \A k \in 0 .. n : f[k] = IF k = 0 THEN p ELSE ComesTo(s, f[k - 1])
    BY <1>1 DEF FollowsMerges
  <2>2. \A k \in 0 .. n : g[k] = f[k]
    BY <2>1
  <2>3. \A k \in 0 .. n + 1 : k # 0 => k - 1 \in 0 .. n
    OBVIOUS
  <2>4. g = [k \in 0 .. n + 1 |-> IF k = 0 THEN p ELSE ComesTo(s, g[k - 1])]
    BY <2>2, <2>3
  <2> HIDE DEF g
  <2>5. QED
    BY <2>4 DEF FollowsMerges
<1>2. \E f : FollowsMerges(f, s, p, 0)
  <2> DEFINE g == [k \in 0 .. 0 |-> p]
  <2>1. g = [k \in 0 .. 0 |-> IF k = 0 THEN p ELSE ComesTo(s, g[k - 1])]
    OBVIOUS
  <2> HIDE DEF g
  <2>2. QED
    BY <2>1 DEF FollowsMerges
<1>3. ASSUME NEW k \in Nat, \A j \in Nat : j < k => j \notin Bad
      PROVE  k \notin Bad
  <2>1. CASE k = 0
    BY <1>2, <2>1
  <2>2. CASE k # 0
    <3>1. k - 1 \in Nat /\ k - 1 \notin Bad /\ (k - 1) + 1 = k
      BY <1>3, <2>2
    <3>2. PICK f : FollowsMerges(f, s, p, k - 1)
      BY <3>1
    <3>3. \E g : FollowsMerges(g, s, p, (k - 1) + 1)
      BY <1>1, <3>1, <3>2
    <3>4. QED
      BY <3>1, <3>3
  <2>3. QED
    BY <2>1, <2>2
<1> HIDE DEF Bad
<1>4. Bad = {}
  BY <1>3, LeastNumber DEF Bad
<1>5. QED
  BY <1>4 DEF Bad

\* As long as it comes to merged parties it comes to later and later ones.
Climbs(f, s, order, n) ==
  /\ \A j \in 0 .. n : f[j] \in Party
  /\ Exists(s[f[n]])
  /\ s[f[n]].status = "merged" =>
       \A j, k \in 0 .. n : j < k => order[f[j]] < order[f[k]]

LEMMA MergesClimb ==
  ASSUME NEW s, NEW order \in [Party -> Nat], InOrder(s, order),
         NEW p \in Party, Exists(s[p]), NEW m \in Nat, NEW f, FollowsMerges(f, s, p, m),
         NEW n \in 0 .. m
  PROVE  Climbs(f, s, order, n)
<1> DEFINE Bad == {k \in 0 .. m : ~Climbs(f, s, order, k)}
<1>1. \A k \in 0 .. m : f[k] = IF k = 0 THEN p ELSE ComesTo(s, f[k - 1])
  BY DEF FollowsMerges
<1>2. Climbs(f, s, order, 0)
  <2>1. f[0] = p
    BY <1>1
  <2>2. QED
    BY <2>1 DEF Climbs
<1>3. ASSUME NEW k \in 0 .. m, k # 0, Climbs(f, s, order, k - 1)
      PROVE  Climbs(f, s, order, k)
  <2>1. PICK i \in 0 .. m : i = k - 1
    BY <1>3
  <2>2. Climbs(f, s, order, i) /\ f[k] = ComesTo(s, f[i]) /\ f[i] \in Party /\ Exists(s[f[i]])
    BY <1>1, <1>3, <2>1 DEF Climbs
  <2>3. CASE s[f[i]].status # "merged"
    <3>1. f[k] = f[i]
      BY <2>2, <2>3 DEF ComesTo
    <3>2. \A j \in 0 .. k : j = k \/ j \in 0 .. i
      BY <2>1
    <3>3. \A j \in 0 .. i : f[j] \in Party
      BY <2>2 DEF Climbs
    <3>4. QED
      BY <2>2, <2>3, <3>1, <3>2, <3>3 DEF Climbs
  <2>4. CASE s[f[i]].status = "merged"
    <3>1. f[k] = s[f[i]].into
      BY <2>2, <2>4 DEF ComesTo
    <3>2. f[k] \in Party /\ Exists(s[f[k]]) /\ order[f[i]] < order[f[k]]
      BY <2>2, <2>4, <3>1 DEF InOrder
    <3>3. \A x, y \in 0 .. i : x < y => order[f[x]] < order[f[y]]
      BY <2>2, <2>4 DEF Climbs
    <3>4. \A x \in 0 .. i : f[x] \in Party /\ order[f[x]] \in Nat
      BY <2>2 DEF Climbs
    <3>5. ASSUME NEW x \in 0 .. k, NEW y \in 0 .. k, x < y
          PROVE  order[f[x]] < order[f[y]]
      <4>1. x \in 0 .. i
        BY <1>3, <2>1, <3>5
      <4>2. CASE y # k
        BY <1>3, <2>1, <3>3, <3>5, <4>1, <4>2
      <4>3. CASE y = k /\ x = i
        BY <3>2, <4>3
      <4>4. CASE y = k /\ x # i
        <5>1. order[f[x]] < order[f[i]]
          BY <2>1, <3>3, <4>1, <4>4
        <5>2. order[f[x]] \in Nat /\ order[f[i]] \in Nat /\ order[f[k]] \in Nat
          BY <2>1, <3>2, <3>4, <4>1
        <5>3. QED
          BY <3>2, <4>4, <5>1, <5>2
      <4>5. QED
        BY <4>2, <4>3, <4>4
    <3>6. \A x \in 0 .. k : f[x] \in Party
      BY <2>1, <3>2, <3>4
    <3>7. QED
      BY <3>2, <3>5, <3>6 DEF Climbs
  <2>5. QED
    BY <2>3, <2>4
<1>4. ASSUME NEW k \in Bad, \A j \in Nat : j < k => j \notin Bad
      PROVE  FALSE
  <2>1. CASE k = 0
    BY <1>2, <1>4, <2>1
  <2>2. CASE k # 0
    <3>1. k - 1 \in 0 .. m /\ k - 1 \in Nat /\ k - 1 < k
      BY <2>2
    <3>2. Climbs(f, s, order, k - 1)
      BY <1>4, <3>1
    <3>3. QED
      BY <1>3, <2>2, <3>2
  <2>3. QED
    BY <2>1, <2>2
<1>5. Bad \subseteq Nat /\ n \in Nat
  OBVIOUS
<1> HIDE DEF Bad
<1>6. Bad = {}
  BY <1>4, <1>5, LeastNumber
<1>7. QED
  BY <1>6 DEF Bad

\* There are as many parties as merges that are followed: the last one was not merged.
LEMMA MergesRunOut ==
  ASSUME NEW s, NEW order \in [Party -> Nat], InOrder(s, order),
         NEW p \in Party, Exists(s[p]), NEW m, m = Cardinality(Party),
         NEW f, FollowsMerges(f, s, p, m)
  PROVE  s[f[m]].status # "merged"
<1>1. IsFiniteSet(Party) /\ m \in Nat
  BY SuppliersAssumption, FS_CardinalityType
<1>2. Climbs(f, s, order, m)
  BY <1>1, MergesClimb
<1>3. ASSUME s[f[m]].status = "merged" PROVE FALSE
  <2>1. \A j, k \in 0 .. m : j < k => order[f[j]] < order[f[k]]
    BY <1>2, <1>3 DEF Climbs
  <2>2. PICK g : g = [k \in 0 .. m |-> f[k]]
    OBVIOUS
  <2>3. g \in [0 .. m -> Party]
    BY <1>2, <2>2 DEF Climbs
  <2>4. IsFiniteSet(0 .. m) /\ Cardinality(0 .. m) = m + 1
    BY <1>1, FS_Interval
  <2>5. Cardinality(Party) < Cardinality(0 .. m)
    BY <1>1, <2>4
  <2>6. PICK x, y \in 0 .. m : x # y /\ g[x] = g[y]
    BY <1>1, <2>3, <2>4, <2>5, FS_PigeonHole
  <2>7. f[x] = f[y] /\ f[x] \in Party /\ order[f[x]] \in Nat
    BY <1>2, <2>2, <2>6 DEF Climbs
  <2>8. order[f[x]] < order[f[x]]
    <3>1. x < y \/ y < x
      BY <1>1, <2>6
    <3>2. QED
      BY <2>1, <2>7, <3>1
  <2>9. QED
    BY <2>7, <2>8
<1>4. QED
  BY <1>3

\* PartiesService.mergeParties: whatever parties there are and however calls overlap, the
\* merges of a party lead to one that was not merged, unless a party was saved past
\* another call.
THEOREM MergesEndAlways == SuppliersSpec => []MergesEnd
<1>1. SuppliersInv => MergesEnd
  <2> SUFFICES ASSUME SuppliersInv, raced \intersect Party = {}, NEW p \in Party, Exists(store[p])
               PROVE  store[Survivor(p)].status # "merged"
    BY DEF MergesEnd
  <2>1. PICK order \in [Party -> Nat] : InOrder(store, order)
    BY DEF SuppliersInv, MergesInOrder
  <2>2. PICK m \in Nat : m = Cardinality(Party)
    BY SuppliersAssumption, FS_CardinalityType
  <2>3. PICK f : f = CHOOSE g : FollowsMerges(g, store, p, m)
    OBVIOUS
  <2>4. FollowsMerges(f, store, p, m)
    BY <2>3, FollowsMergesExist
  <2>5. Survivor(p) = f[m]
    BY <2>2, <2>3, SurvivorUnfolds
  <2>6. PICK s : s = store
    OBVIOUS
  <2>7. s[f[m]].status # "merged"
    BY <2>1, <2>2, <2>4, <2>6, MergesRunOut
  <2>8. QED
    BY <2>5, <2>6, <2>7
<1>2. QED
  BY <1>1, SuppliersInvariant, PTL
=============================================================================
