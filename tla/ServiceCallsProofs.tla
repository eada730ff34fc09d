------------------------- MODULE ServiceCallsProofs -------------------------
(***************************************************************************)
(* What every service needs of the steps that its calls are made of: what  *)
(* a step does to the call, to the other calls and to the repositories.    *)
(***************************************************************************)
EXTENDS ServiceCalls, SequenceTheorems, FiniteSetTheorems, TLAPS

(***************************************************************************)
(* Functions put together from single keys.                                *)
(***************************************************************************)
LEMMA OneKey ==
  ASSUME NEW k, NEW v
  PROVE  DOMAIN (k :> v) = {k} /\ (k :> v)[k] = v
BY DEF :>

LEMMA Merged ==
  ASSUME NEW f, NEW g
  PROVE  /\ DOMAIN (f @@ g) = DOMAIN f \union DOMAIN g
         /\ \A x \in DOMAIN f : (f @@ g)[x] = f[x]
         /\ \A x \in DOMAIN g : x \notin DOMAIN f => (f @@ g)[x] = g[x]
BY DEF @@

LEMMA OneMerged ==
  ASSUME NEW k, NEW v, NEW g
  PROVE  /\ DOMAIN ((k :> v) @@ g) = {k} \union DOMAIN g
         /\ ((k :> v) @@ g)[k] = v
         /\ \A x \in DOMAIN g : x # k => ((k :> v) @@ g)[x] = g[x]
BY DEF :>, @@

\* The writes of a call are taken from the front.
LEMMA Tails ==
  /\ \A a : Tail(<< a >>) = << >> /\ << a >> # << >> /\ << a >>[1] = a /\ Len(<< a >>) = 1
  /\ \A a, b : /\ Tail(<< a, b >>) = << b >> /\ << a, b >> # << >>
               /\ << a, b >>[1] = a /\ << a, b >>[2] = b /\ Len(<< a, b >>) = 2
OBVIOUS

LEMMA TailKeeps ==
  ASSUME NEW S, NEW s \in Seq(S), Len(s) > 1
  PROVE  Tail(s) # <<>> /\ Tail(s) \in Seq(S) /\ s # <<>>
<1>1. s # <<>>
  OBVIOUS
<1>2. Tail(s) \in Seq(S) /\ Len(Tail(s)) = Len(s) - 1
  BY <1>1, HeadTailProperties
<1>3. Len(Tail(s)) # 0
  BY <1>2
<1>4. QED
  BY <1>1, <1>2, <1>3, EmptySeq

LEMMA NotEmpty ==
  ASSUME NEW S, NEW s \in Seq(S), Len(s) > 0
  PROVE  s # <<>>
OBVIOUS

\* What is listed from a finite set is all of it.
LEMMA Listed ==
  ASSUME NEW S, IsFiniteSet(S)
  PROVE  /\ Cardinality(S) \in Nat
         /\ Seqs!SetToSeq(S) \in [1 .. Cardinality(S) -> S]
         /\ \A x \in S : \E i \in 1 .. Cardinality(S) : Seqs!SetToSeq(S)[i] = x
<1>1. Cardinality(S) \in Nat /\ ExistsBijection(1 .. Cardinality(S), S)
  BY FS_CardinalityType
<1>2. PICK g \in Bijection(1 .. Cardinality(S), S) : TRUE
  BY <1>1 DEF ExistsBijection
<1>3. g \in [1 .. Cardinality(S) -> S] /\ \A a, b \in DOMAIN g : g[a] = g[b] => a = b
  BY <1>2 DEF Bijection, Injection, IsInjective
<1>4. Seqs!Cardinality(S) = Cardinality(S)
  BY DEF Seqs!Cardinality, Cardinality
<1>5. Seqs!SetToSeq(S) \in [1 .. Cardinality(S) -> S]
  BY <1>3, <1>4 DEF Seqs!SetToSeq, Seqs!IsInjective
<1>6. \A a, b \in 1 .. Cardinality(S) : Seqs!SetToSeq(S)[a] = Seqs!SetToSeq(S)[b] => a = b
  BY <1>3, <1>4 DEF Seqs!SetToSeq, Seqs!IsInjective
<1> DEFINE f == Seqs!SetToSeq(S)
<1> HIDE DEF f
<1>7. f \in Injection(1 .. Cardinality(S), S)
  BY <1>5, <1>6 DEF f, Injection, IsInjective
<1>8. IsFiniteSet(1 .. Cardinality(S)) /\ Cardinality(1 .. Cardinality(S)) = Cardinality(S)
  BY <1>1, FS_Interval
<1>9. f \in Surjection(1 .. Cardinality(S), S)
  BY <1>7, <1>8, FS_Injection
<1>10. QED
  BY <1>1, <1>5, <1>9 DEF f, Surjection

-----------------------------------------------------------------------------
(***************************************************************************)
(* Calls.  One that is still reading has staged nothing.                   *)
(***************************************************************************)
IsCall(call) ==
  /\ DOMAIN call = {"op", "todo", "seen", "writes", "news"}
  /\ call.todo \in Seq(SUBSET Key)
  /\ call.todo # <<>> => call.writes = <<>> /\ call.news = <<>>

CallsOK ==
  /\ DOMAIN work = Call
  /\ \A c \in Call : IsCall(work[c])
  /\ Key \subseteq DOMAIN store

OthersStay(c) == \A d \in Call \ {c} : work'[d] = work[d]

LEMMA IdleCall ==
  /\ IsCall(Idle) /\ Idle.op = <<>> /\ Idle.todo = <<>> /\ Idle.seen = <<>>
  /\ Idle.writes = <<>> /\ Idle.news = <<>>
BY DEF Idle, IsCall

LEMMA CallsStart ==
  ASSUME NEW opening, ServiceInit(opening)
  PROVE  CallsOK /\ \A c \in Call : work[c] = Idle
BY IdleCall DEF ServiceInit, CallsOK

LEMMA CallsKept ==
  ASSUME CallsOK, NEW c \in Call, DOMAIN work' = Call, OthersStay(c), IsCall(work'[c]),
         DOMAIN store \subseteq DOMAIN store'
  PROVE  CallsOK'
BY DEF CallsOK, OthersStay

\* A call whose reads go on: it is in the operation and has staged nothing.
LEMMA ReadEffect ==
  ASSUME CallsOK, NEW c \in Call, NEW op, NEW reads \in Seq(SUBSET Key), Read(c, op, reads)
  PROVE  /\ CallsOK' /\ OthersStay(c)
         /\ store' = store /\ told' = told /\ raced' = raced
         /\ work'[c].op = op /\ work'[c].todo # <<>>
         /\ work'[c].writes = <<>> /\ work'[c].news = <<>>
<1>1. store' = store /\ told' = told /\ raced' = raced
  BY DEF Read
<1>2. CASE IsIdle(c) /\ Len(reads) > 1 /\
             work' = [work EXCEPT ![c] = [Idle EXCEPT !.op = op, !.todo = Tail(reads),
                                                      !.seen = Answers(reads[1])]]
  <2>1. Tail(reads) # <<>> /\ Tail(reads) \in Seq(SUBSET Key)
    BY <1>2, TailKeeps
  <2>2. /\ DOMAIN work' = Call /\ OthersStay(c)
        /\ DOMAIN work'[c] = {"op", "todo", "seen", "writes", "news"}
        /\ work'[c].op = op /\ work'[c].todo = Tail(reads)
        /\ work'[c].writes = <<>> /\ work'[c].news = <<>>
    BY <1>2 DEF CallsOK, Idle, OthersStay
  <2>3. QED
    BY <1>1, <2>1, <2>2, CallsKept DEF IsCall
<1>3. CASE /\ work[c].op = op /\ Len(work[c].todo) > 1
           /\ work' = [work EXCEPT ![c].todo = Tail(@),
                                   ![c].seen = Answers(work[c].todo[1]) @@ @]
  <2>1. IsCall(work[c])
    BY DEF CallsOK
  <2>2. /\ Tail(work[c].todo) # <<>> /\ Tail(work[c].todo) \in Seq(SUBSET Key)
        /\ work[c].todo # <<>>
    BY <1>3, <2>1, TailKeeps DEF IsCall
  <2>3. /\ DOMAIN work' = Call /\ OthersStay(c)
        /\ DOMAIN work'[c] = {"op", "todo", "seen", "writes", "news"}
        /\ work'[c].op = work[c].op /\ work'[c].todo = Tail(work[c].todo)
        /\ work'[c].writes = work[c].writes /\ work'[c].news = work[c].news
    BY <1>3, <2>1 DEF CallsOK, IsCall, OthersStay
  <2>4. QED
    BY <1>1, <1>3, <2>1, <2>2, <2>3, CallsKept DEF IsCall
<1>4. QED
  BY <1>2, <1>3 DEF Read

\* The answers it has then: those of its first read, or one more set of them.
LEMMA ReadAnswers ==
  ASSUME CallsOK, NEW c \in Call, NEW op, NEW reads, Read(c, op, reads)
  PROVE  \/ /\ IsIdle(c) /\ Len(reads) > 1
            /\ work'[c].todo = Tail(reads) /\ work'[c].seen = Answers(reads[1])
         \/ /\ work[c].op = op /\ Len(work[c].todo) > 1
            /\ work'[c].todo = Tail(work[c].todo)
            /\ work'[c].seen = Answers(work[c].todo[1]) @@ work[c].seen
BY DEF Read, CallsOK, IsCall, Idle

\* A call at the last of several reads has staged nothing.
LEMMA AtLast ==
  ASSUME CallsOK, NEW c \in Call, NEW op, NEW reads, Len(reads) # 1, LastRead(c, op, reads)
  PROVE  /\ work[c].op = op /\ Len(work[c].todo) = 1 /\ work[c].todo # <<>>
         /\ work[c].writes = <<>> /\ work[c].news = <<>>
<1>1. work[c].op = op /\ Len(work[c].todo) = 1
  BY DEF LastRead
<1>2. work[c].todo \in Seq(SUBSET Key)
  BY DEF CallsOK, IsCall
<1>3. work[c].todo # <<>>
  BY <1>1, <1>2, NotEmpty
<1>4. QED
  BY <1>1, <1>3 DEF CallsOK, IsCall

LEMMA GiveUpEffect ==
  ASSUME CallsOK, NEW c \in Call, GiveUp(c)
  PROVE  /\ CallsOK' /\ OthersStay(c) /\ work'[c] = Idle
         /\ store' = store /\ told' = told /\ raced' = raced
         /\ work[c].writes = <<>> /\ work[c].news = <<>>
<1>1. work'[c] = Idle /\ OthersStay(c) /\ DOMAIN work' = Call /\ store' = store
  BY DEF GiveUp, CallsOK, OthersStay
<1>2. QED
  BY <1>1, IdleCall, CallsKept DEF GiveUp, CallsOK, IsCall

\* What a call that stages has seen: the last answers are those of this moment.
LEMMA StageForEffect ==
  ASSUME CallsOK, NEW c \in Call, NEW next, NEW reads, NEW writes, NEW news,
         StageFor(c, next, reads, writes, news)
  PROVE  /\ CallsOK' /\ OthersStay(c)
         /\ store' = store /\ told' = told /\ raced' = raced
         /\ work'[c].op = next /\ work'[c].todo = <<>> /\ work'[c].seen = Saw(c, reads)
         /\ work'[c].writes = writes /\ work'[c].news = news
<1>1. /\ DOMAIN work' = Call /\ OthersStay(c)
      /\ work'[c] = [op |-> next, todo |-> <<>>, seen |-> Saw(c, reads),
                     writes |-> writes, news |-> news]
  BY DEF StageFor, CallsOK, OthersStay
<1>2. IsCall(work'[c])
  BY <1>1 DEF IsCall
<1>3. store' = store /\ told' = told /\ raced' = raced
  BY DEF StageFor
<1>4. QED
  BY <1>1, <1>2, <1>3, CallsKept

LEMMA StageEffect ==
  ASSUME CallsOK, NEW c \in Call, NEW reads, NEW writes, NEW news,
         Stage(c, reads, writes, news)
  PROVE  /\ CallsOK' /\ OthersStay(c)
         /\ store' = store /\ told' = told /\ raced' = raced
         /\ work'[c].op = <<"commit">> /\ work'[c].todo = <<>> /\ work'[c].seen = Saw(c, reads)
         /\ work'[c].writes = writes /\ work'[c].news = news
BY StageForEffect DEF Stage

LEMMA SawLast ==
  ASSUME NEW c, NEW reads
  PROVE  /\ reads[Len(reads)] \subseteq DOMAIN Saw(c, reads)
         /\ \A k \in reads[Len(reads)] : Saw(c, reads)[k] = store[k]
BY DEF Saw, Answers, @@

\* A save that is not stale writes over exactly what the call has seen.
LEMMA SaveEffect ==
  ASSUME CallsOK, NEW c \in Call, Save(c)
  PROVE  LET write == work[c].writes[1]
         IN  /\ CallsOK' /\ OthersStay(c)
             /\ work[c].todo = <<>> /\ work[c].writes # <<>>
             /\ store' = write @@ store /\ told' = told
             /\ raced \subseteq raced'
             /\ \A k \in DOMAIN write : k \notin raced' =>
                  \A s \in DOMAIN work[c].seen : work[c].seen[s] = store[s]
             /\ work'[c].op = work[c].op /\ work'[c].todo = work[c].todo
             /\ work'[c].writes = Tail(work[c].writes) /\ work'[c].news = work[c].news
             /\ work'[c].seen = write @@ work[c].seen
<1> DEFINE write == work[c].writes[1]
<1>1. work[c].todo = <<>> /\ work[c].writes # <<>>
  BY DEF Save, Committing
<1>2. store' = write @@ store /\ told' = told /\ raced \subseteq raced'
  BY DEF Save, Write
<1>3. \A k \in DOMAIN write : k \notin raced' =>
        \A s \in DOMAIN work[c].seen : work[c].seen[s] = store[s]
  BY DEF Save, Write, Stale
<1>4. /\ DOMAIN work' = Call /\ OthersStay(c)
      /\ DOMAIN work'[c] = {"op", "todo", "seen", "writes", "news"}
      /\ work'[c].op = work[c].op /\ work'[c].todo = work[c].todo
      /\ work'[c].writes = Tail(work[c].writes) /\ work'[c].news = work[c].news
      /\ work'[c].seen = write @@ work[c].seen
  BY DEF Save, CallsOK, IsCall, OthersStay
<1>5. DOMAIN store \subseteq DOMAIN store'
  BY <1>2, Merged
<1>6. IsCall(work'[c])
  BY <1>1, <1>4 DEF CallsOK, IsCall
<1>7. QED
  BY <1>1, <1>2, <1>3, <1>4, <1>5, <1>6, CallsKept

LEMMA PublishEffect ==
  ASSUME CallsOK, NEW c \in Call, Publish(c)
  PROVE  /\ CallsOK' /\ OthersStay(c) /\ work'[c] = Idle
         /\ store' = store /\ told' = work[c].news @@ told /\ raced \subseteq raced'
         /\ work[c].todo = <<>> /\ work[c].writes = <<>>
<1>1. /\ work'[c] = Idle /\ OthersStay(c) /\ DOMAIN work' = Call /\ store' = store
      /\ told' = work[c].news @@ told /\ raced \subseteq raced'
  BY DEF Publish, CallsOK, OthersStay
<1>2. work[c].todo = <<>> /\ work[c].writes = <<>>
  BY DEF Publish, Reached, Committing
<1>3. QED
  BY <1>1, <1>2, IdleCall, CallsKept
=============================================================================
