---------------------------- MODULE ServiceCalls ----------------------------
(***************************************************************************)
(* What the methods of the application services share: a call awaits one  *)
(* read after the other, decides, saves what it changed and commits.  An   *)
(* aggregate is saved whole, nothing is locked and no version is compared, *)
(* so calls overlap at every await.  Each module that EXTENDS this one     *)
(* lists the operations of a service.                                      *)
(***************************************************************************)
EXTENDS Naturals, Sequences, FiniteSets

Seqs == INSTANCE SequencesExt

CONSTANTS
  Call,           \* calls that may overlap
  Key,            \* what the repositories are asked for: ids and unique indexes
  NoRecord        \* answer for a key under which nothing is stored

VARIABLES
  store,          \* the repositories of the service
  told,           \* the outbox: the last event announced about a key
  work,           \* the running calls
  raced           \* history: keys a call has saved or announced past another call

serviceVars == <<store, told, work, raced>>

\* As in the module TLC, whose operators the proof system knows nothing of.
k :> v == [x \in {k} |-> v]

f @@ g == [x \in DOMAIN f \union DOMAIN g |-> IF x \in DOMAIN f THEN f[x] ELSE g[x]]

\* todo: what is still to be read; seen: answers so far; writes and news: what the
\* unit of work has staged.
Idle == [op |-> <<>>, todo |-> <<>>, seen |-> <<>>, writes |-> <<>>, news |-> <<>>]

IsIdle(c) == work[c] = Idle

AtRest == \A c \in Call : IsIdle(c)

ServiceInit(opening) ==
  /\ store = [k \in Key |-> IF k \in DOMAIN opening THEN opening[k] ELSE NoRecord]
  /\ told = [k \in Key |-> NoRecord]
  /\ work = [c \in Call |-> Idle]
  /\ raced = {}

Exists(record) == record # NoRecord

\* Ids are drawn once.
Fresh(ids) ==
  {k \in ids : ~Exists(store[k]) /\ ~Exists(told[k]) /\
     \A d \in Call : k \notin DOMAIN work[d].news
                       \union UNION {DOMAIN w : w \in Seqs!ToSet(work[d].writes)}}

Answers(keys) == [k \in keys |-> store[k]]

-----------------------------------------------------------------------------
(***************************************************************************)
(* reads is a sequence of sets of keys, one set for each await.  The code  *)
(* after the last of them runs to the next await without a break.          *)
(***************************************************************************)
Read(c, op, reads) ==
  /\ \/ /\ IsIdle(c) /\ Len(reads) > 1
        /\ work' = [work EXCEPT ![c] = [Idle EXCEPT !.op = op, !.todo = Tail(reads),
                                                    !.seen = Answers(reads[1])]]
     \/ /\ work[c].op = op /\ Len(work[c].todo) > 1
        /\ work' = [work EXCEPT ![c].todo = Tail(@),
                                ![c].seen = Answers(work[c].todo[1]) @@ @]
  /\ UNCHANGED <<store, told, raced>>

\* The call is free to begin an operation, or is in it.
May(c, name) == IsIdle(c) \/ (work[c].todo # <<>> /\ work[c].op[1] = name)

\* The read a call of this operation is at.
Nth(c, op, reads) ==
  CASE IsIdle(c) -> 1
    [] work[c].op = op -> Len(reads) - Len(work[c].todo) + 1
    [] OTHER -> 0

LastRead(c, op, reads) ==
  \/ IsIdle(c) /\ Len(reads) = 1
  \/ work[c].op = op /\ Len(work[c].todo) = 1

Saw(c, reads) == Answers(reads[Len(reads)]) @@ work[c].seen

\* A check fails or a port throws between two reads.
GiveUp(c) ==
  /\ work[c].todo # <<>>
  /\ work' = [work EXCEPT ![c] = Idle]
  /\ UNCHANGED <<store, told, raced>>

-----------------------------------------------------------------------------
Stale(seen) == \E k \in DOMAIN seen : seen[k] # store[k]

\* Each element of writes is the effect of one staged callback or one save. After the
\* last of them the call is at the point called next.
StageFor(c, next, reads, writes, news) ==
  /\ work' = [work EXCEPT ![c] = [op |-> next, todo |-> <<>>, seen |-> Saw(c, reads),
                                  writes |-> writes, news |-> news]]
  /\ UNCHANGED <<store, told, raced>>

Stage(c, reads, writes, news) == StageFor(c, <<"commit">>, reads, writes, news)

Write(seen, write) ==
  /\ store' = write @@ store
  /\ raced' = raced \union (IF Stale(seen) THEN DOMAIN write ELSE {})
  /\ UNCHANGED told

Committing(c) == ~IsIdle(c) /\ work[c].todo = <<>>

Save(c) ==
  /\ Committing(c) /\ work[c].writes # <<>>
  /\ Write(work[c].seen, work[c].writes[1])
  /\ work' = [work EXCEPT ![c].writes = Tail(@), ![c].seen = work[c].writes[1] @@ @]

\* The saves before the point next have been made.
Reached(c, next) == Committing(c) /\ work[c].op = next /\ work[c].writes = <<>>

\* From that point the call reads keys and stages more.
StageMore(c, next, keys, writes, news) ==
  /\ work' = [work EXCEPT ![c].op = next, ![c].seen = Answers(keys) @@ @,
                          ![c].writes = writes, ![c].news = news @@ @]
  /\ UNCHANGED <<store, told, raced>>

\* The rows are inserted and the call returns.
Publish(c) ==
  LET news == work[c].news
      seen == work[c].seen
      Late(k) == IF k \in DOMAIN seen THEN seen[k] # store[k] ELSE Stale(seen)
  IN  /\ Reached(c, <<"commit">>)
      /\ told' = news @@ told
      /\ raced' = raced \union {k \in DOMAIN news : Late(k)}
      /\ work' = [work EXCEPT ![c] = Idle]
      /\ UNCHANGED store

CallStep(c) == GiveUp(c) \/ Save(c) \/ Publish(c)
=============================================================================
