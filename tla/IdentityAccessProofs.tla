------------------------ MODULE IdentityAccessProofs ------------------------
(***************************************************************************)
(* Proofs about Identity and about Access: who the principals are and what *)
(* they may do, for any users, sessions, organizations, members, roles,    *)
(* assignments and overlapping calls.                                      *)
(***************************************************************************)
EXTENDS Identity, Access, ServiceCallsProofs

(***************************************************************************)
(* What is on file and what a call is about to save.                       *)
(***************************************************************************)
Sound(user) == user \in UserRecord /\ (user.failed >= MaxFailedLogins => user.locked)

InGoodStanding(user) == user.status \in {"pending_verification", "active"}

\* What is saved behind a user: revoked sessions and challenges.
Revocations == {s :> session : s \in Session, session \in {x \in SessionRecord : x.revoked}}

Challenges == {ch :> challenge : ch \in Challenge, challenge \in ChallengeRecord}

UserWrites == {u :> user : u \in User, user \in UserRecord}

SessionWrites == {s :> session : s \in Session, session \in SessionRecord}

Writes == UserWrites \union SessionWrites \union Challenges

Trailing == Revocations \union Challenges

Revokes(writes, s) == \E i \in DOMAIN writes : writes[i] \in Revocations /\ s \in DOMAIN writes[i]

\* No session is opened that the change of the user would have to end.
Keeps(user, old) ==
  user.password = old.password /\ (InGoodStanding(old) => InGoodStanding(user))

EndsSessions(seen, writes, u) ==
  \A s \in Session : /\ s \in DOMAIN seen
                     /\ Exists(seen[s]) /\ seen[s].user = u /\ ~seen[s].revoked => Revokes(writes, s)

Registers(seen, news, u, user) ==
  /\ User \subseteq DOMAIN seen /\ ~Exists(seen[u])
  /\ user.links = {} /\ u \in DOMAIN news
  /\ \A v \in User : IsUser(seen[v]) => seen[v].email # user.email

Changes(seen, writes, news, u, user) ==
  /\ u \in DOMAIN seen /\ Sound(seen[u]) /\ IsUser(seen[u]) /\ user.email = seen[u].email
  /\ u \notin DOMAIN news => user.status = seen[u].status
  /\ \/ user.links \subseteq seen[u].links
     \/ \E x : /\ user.links \subseteq seen[u].links \union {x}
               /\ \A v \in User \ {u} : v \in DOMAIN seen /\ (Exists(seen[v]) => x \notin seen[v].links)
  /\ Keeps(user, seen[u]) \/ EndsSessions(seen, writes, u)

SavesUser(seen, writes, news, u, user) ==
  /\ u \in User /\ Sound(user)
  /\ \A v \in User : v \in DOMAIN news => v = u /\ news[v] = user.status
  /\ Registers(seen, news, u, user) \/ Changes(seen, writes, news, u, user)

NewsSaid(seen, news) ==
  \A u \in User : u \in DOMAIN news => u \in DOMAIN seen /\ news[u] = seen[u].status

UserFirst(seen, writes, news) ==
  /\ writes \in Seq(Writes) /\ writes # <<>>
  /\ \E u, user : writes[1] = u :> user /\ SavesUser(seen, writes, news, u, user)
  /\ \A i \in 2 .. Len(writes) : writes[i] \in Trailing

Opening(u, user) == [user |-> u, revoked |-> FALSE, password |-> user.password]

LogsIn(seen, writes, news) ==
  \E u, user : \E s \in Session :
    /\ writes = << u :> user, s :> Opening(u, user) >>
    /\ SavesUser(seen, writes, news, u, user) /\ InGoodStanding(user) /\ u \notin DOMAIN news

Opens(seen, writes, news) ==
  \E u \in User, s \in Session :
    /\ writes = << s :> Opening(u, seen[u]) >>
    /\ u \in DOMAIN seen /\ Sound(seen[u]) /\ InGoodStanding(seen[u]) /\ Exists(store[u])
    /\ NewsSaid(seen, news)

Trails(seen, writes, news) == writes \in Seq(Trailing) /\ NewsSaid(seen, news)

UserStaged(seen, writes, news) ==
  \/ UserFirst(seen, writes, news)
  \/ LogsIn(seen, writes, news)
  \/ Opens(seen, writes, news)
  \/ Trails(seen, writes, news)

\* What a call has seen that is not at its last read, or at it.
UserReading(call) ==
  /\ \A name, u : call.op = <<name, u>> =>
       u \in DOMAIN call.seen /\ Sound(call.seen[u]) /\ IsUser(call.seen[u])
  /\ \A u, x : call.op = <<"link", u, x>> =>
       \A v \in User : v \in DOMAIN call.seen /\ (Exists(call.seen[v]) /\ x \in call.seen[v].links => v = u)
  /\ \A ch, u : call.op = <<"reset", ch, u>> =>
       /\ ch \in DOMAIN call.seen /\ call.seen[ch] \in ChallengeRecord
       /\ \/ call.todo = << {u}, Session >>
          \/ /\ call.todo = << Session >>
             /\ u \in DOMAIN call.seen /\ Sound(call.seen[u]) /\ IsUser(call.seen[u])

CallInv(c) ==
  IF work[c].todo # <<>> THEN UserReading(work[c])
                         ELSE UserStaged(work[c].seen, work[c].writes, work[c].news)

RecordsInv ==
  /\ \A u \in User : store[u] = NoRecord \/ Sound(store[u])
  /\ \A s \in Session : store[s] = NoRecord \/ store[s] \in SessionRecord
  /\ \A ch \in Challenge : store[ch] = NoRecord \/ store[ch] \in ChallengeRecord
  /\ \A s \in Session : Exists(store[s]) /\ ~store[s].revoked => Exists(store[store[s].user])

\* An active session is current or is about to be revoked.
SessionsInv ==
  \A s \in Session :
    Exists(store[s]) /\ ~store[s].revoked /\ {s, store[s].user} \intersect raced = {} =>
      \/ /\ InGoodStanding(store[store[s].user])
         /\ store[store[s].user].password = store[s].password
      \/ \E c \in Call : Revokes(work[c].writes, s)

\* The standing on file has been announced, or is about to be.
AnnouncedInv ==
  \A u \in User \ raced : Exists(store[u]) =>
    \/ told[u] = store[u].status
    \/ \E c \in Call : u \in DOMAIN work[c].news /\ work[c].news[u] = store[u].status

IdentityInv ==
  /\ CallsOK /\ Key \subseteq DOMAIN told
  /\ \A c \in Call : CallInv(c)
  /\ RecordsInv /\ IdentitiesAreUnique /\ SessionsInv /\ AnnouncedInv

-----------------------------------------------------------------------------
(***************************************************************************)
(* Keys and writes.                                                        *)
(***************************************************************************)
LEMMA IdentityKeys ==
  /\ User \subseteq Key /\ Session \subseteq Key /\ Challenge \subseteq Key
  /\ \A u \in User : u \notin Session /\ u \notin Challenge
  /\ \A s \in Session : s \notin Challenge
  /\ NoRecord \notin UserRecord /\ NoRecord \notin SessionRecord /\ NoRecord \notin ChallengeRecord
BY IdentityAssumption

LEMMA SoundExists ==
  ASSUME NEW user, Sound(user)
  PROVE  Exists(user)
BY IdentityKeys DEF Sound, Exists

LEMMA WriteShapes ==
  /\ \A u \in User, user \in UserRecord : u :> user \in Writes
  /\ \A s \in Session, session \in SessionRecord : s :> session \in Writes
  /\ \A s \in Session, session \in SessionRecord : session.revoked => s :> session \in Revocations
  /\ \A ch \in Challenge, challenge \in ChallengeRecord : ch :> challenge \in Challenges
  /\ Trailing \subseteq Writes /\ Revocations \subseteq Trailing /\ Challenges \subseteq Trailing
BY DEF Writes, UserWrites, SessionWrites, Challenges, Revocations, Trailing

LEMMA TrailingShapes ==
  ASSUME NEW w \in Trailing
  PROVE  \/ \E s \in Session, session \in SessionRecord :
              session.revoked /\ w = s :> session /\ DOMAIN w = {s} /\ w[s] = session
         \/ \E ch \in Challenge, challenge \in ChallengeRecord :
              w = ch :> challenge /\ DOMAIN w = {ch} /\ w[ch] = challenge
<1>1. CASE w \in Revocations
  <2>1. PICK s \in Session, session \in {x \in SessionRecord : x.revoked} : w = s :> session
    BY <1>1 DEF Revocations
  <2>2. DOMAIN w = {s} /\ w[s] = session
    BY <2>1 DEF :>
  <2>3. session \in SessionRecord /\ session.revoked
    OBVIOUS
  <2>4. QED
    BY <2>1, <2>2, <2>3
<1>2. CASE w \in Challenges
  <2>1. PICK ch \in Challenge, challenge \in ChallengeRecord : w = ch :> challenge
    BY <1>2 DEF Challenges
  <2>2. DOMAIN w = {ch} /\ w[ch] = challenge
    BY <2>1 DEF :>
  <2>3. QED
    BY <2>1, <2>2
<1>3. QED
  BY <1>1, <1>2 DEF Trailing

\* A list of writes goes on behind another one.
LEMMA WritesJoined ==
  ASSUME NEW first \in Seq(Writes), first # <<>>, NEW rest \in Seq(Trailing),
         \A i \in 2 .. Len(first) : first[i] \in Trailing
  PROVE  /\ first \o rest \in Seq(Writes) /\ first \o rest # <<>>
         /\ (first \o rest)[1] = first[1]
         /\ \A i \in 2 .. Len(first \o rest) : (first \o rest)[i] \in Trailing
         /\ \A s : Revokes(rest, s) => Revokes(first \o rest, s)
<1>1. rest \in Seq(Writes) /\ Len(rest) \in Nat /\ Len(first) \in Nat \ {0}
  BY WriteShapes, SeqMonotonic, EmptySeq, LenProperties
<1> DEFINE all == first \o rest
<1>2. /\ all \in Seq(Writes) /\ Len(all) = Len(first) + Len(rest)
      /\ \A i \in 1 .. Len(first) + Len(rest) :
           all[i] = IF i <= Len(first) THEN first[i] ELSE rest[i - Len(first)]
  BY <1>1, ConcatProperties
<1> HIDE DEF all
<1>3. all # <<>> /\ all[1] = first[1] /\ DOMAIN all = 1 .. Len(all)
  BY <1>1, <1>2
<1>4. ASSUME NEW i \in 2 .. Len(all) PROVE all[i] \in Trailing
  <2>1. CASE i <= Len(first)
    BY <1>1, <1>2, <2>1
  <2>2. CASE ~(i <= Len(first))
    <3>1. i - Len(first) \in 1 .. Len(rest) /\ all[i] = rest[i - Len(first)]
      BY <1>1, <1>2, <2>2
    <3>2. QED
      BY <3>1, ElementOfSeq
  <2>3. QED
    BY <2>1, <2>2
<1>5. ASSUME NEW s, Revokes(rest, s) PROVE Revokes(all, s)
  <2>1. PICK i \in DOMAIN rest : rest[i] \in Revocations /\ s \in DOMAIN rest[i]
    BY <1>5 DEF Revokes
  <2>2. i \in 1 .. Len(rest)
    BY LenProperties
  <2>3. i + Len(first) \in DOMAIN all /\ all[i + Len(first)] = rest[i]
    BY <1>1, <1>2, <1>3, <2>2
  <2>4. QED
    BY <2>1, <2>3 DEF Revokes
<1>6. QED
  BY <1>2, <1>3, <1>4, <1>5 DEF all

\* revokeAllSessionsInUow ends every session listed as active.
LEMMA RevokedInEnds ==
  ASSUME RecordsInv, NEW u \in User
  PROVE  LET rest == RevokedIn(Answers(Session), u)
         IN  /\ rest \in Seq(Revocations)
             /\ \A s \in Session : Exists(store[s]) /\ store[s].user = u /\ ~store[s].revoked =>
                  Revokes(rest, s)
<1> DEFINE sessions == Answers(Session)
           active == {s \in DOMAIN sessions :
                        Exists(sessions[s]) /\ sessions[s].user = u /\ ~sessions[s].revoked}
           order == Seqs!SetToSeq(active)
           Ended(s) == s :> [sessions[s] EXCEPT !.revoked = TRUE]
           rest == [i \in DOMAIN order |-> Ended(order[i])]
<1>1. DOMAIN sessions = Session /\ \A s \in Session : sessions[s] = store[s]
  BY DEF Answers
<1>2. active = {s \in Session : Exists(store[s]) /\ store[s].user = u /\ ~store[s].revoked}
  BY <1>1
<1>3. IsFiniteSet(active)
  BY <1>2, IdentityAssumption, FS_Subset
<1>4. rest = RevokedIn(Answers(Session), u)
  BY DEF RevokedIn
<1> HIDE DEF active
<1>5. /\ Cardinality(active) \in Nat
      /\ order \in [1 .. Cardinality(active) -> active]
      /\ \A s \in active : \E i \in 1 .. Cardinality(active) : order[i] = s
  BY <1>3, Listed
<1> HIDE DEF order
<1>6. ASSUME NEW s \in active
      PROVE  Ended(s) \in Revocations /\ s \in DOMAIN Ended(s)
  <2>1. s \in Session /\ store[s] \in SessionRecord
    BY <1>2, <1>6 DEF RecordsInv, Exists
  <2>2. [store[s] EXCEPT !.revoked = TRUE] \in SessionRecord
        /\ [store[s] EXCEPT !.revoked = TRUE].revoked
    BY <2>1 DEF SessionRecord
  <2>3. sessions[s] = store[s]
    BY <1>1, <2>1
  <2>4. QED
    BY <2>1, <2>2, <2>3, WriteShapes, OneKey
<1> HIDE DEF Ended
<1>7. rest \in Seq(Revocations)
  <2>1. DOMAIN rest = 1 .. Cardinality(active)
    BY <1>5
  <2>2. \A i \in 1 .. Cardinality(active) : rest[i] \in Revocations
    BY <1>5, <1>6
  <2>3. rest \in [1 .. Cardinality(active) -> Revocations]
    BY <2>1, <2>2
  <2>4. QED
    BY <1>5, <2>3, SeqDef
<1>8. ASSUME NEW s \in active PROVE Revokes(rest, s)
  <2>1. PICK i \in 1 .. Cardinality(active) : order[i] = s
    BY <1>5, <1>8
  <2>2. i \in DOMAIN rest /\ rest[i] = Ended(s)
    BY <1>5, <2>1
  <2>3. QED
    BY <1>6, <1>8, <2>2 DEF Revokes
<1>9. QED
  BY <1>2, <1>4, <1>7, <1>8

-----------------------------------------------------------------------------
(***************************************************************************)
(* Steps that leave the repositories alone.                                *)
(***************************************************************************)
UserMoves(c) ==
  /\ CallsOK' /\ OthersStay(c)
  /\ store' = store /\ told' = told /\ raced' = raced
  /\ work[c].writes = <<>> /\ work[c].news = <<>>
  /\ CallInv(c)'

LEMMA IdleIsFree ==
  ASSUME NEW c, IsIdle(c)
  PROVE  work[c].writes = <<>> /\ work[c].news = <<>>
BY IdleCall DEF IsIdle

LEMMA UserStageMoves ==
  ASSUME CallsOK, NEW c \in Call, NEW reads, NEW writes, NEW news, Stage(c, reads, writes, news),
         work[c].writes = <<>>, work[c].news = <<>>,
         UserStaged(Saw(c, reads), writes, news)
  PROVE  UserMoves(c)
<1>1. /\ CallsOK' /\ OthersStay(c)
      /\ store' = store /\ told' = told /\ raced' = raced
      /\ work'[c].todo = <<>> /\ work'[c].seen = Saw(c, reads)
      /\ work'[c].writes = writes /\ work'[c].news = news
  BY StageEffect
<1>2. QED
  BY <1>1 DEF UserMoves, CallInv, UserStaged, UserFirst, LogsIn, Opens, Trails

LEMMA OneWrite ==
  ASSUME NEW S, NEW w \in S
  PROVE  << w >> \in Seq(S) /\ << w >> # <<>> /\ << w >>[1] = w /\ Len(<< w >>) = 1
OBVIOUS

\* Operations that save a user and nothing behind it.
LEMMA UpdateMoves ==
  ASSUME CallsOK, RecordsInv, NEW c \in Call, NEW u \in User, NEW next, NEW news,
         IsIdle(c), IsUser(store[u]), Update(c, u, next, news),
         Sound(next), next.email = store[u].email, next.links \subseteq store[u].links,
         u \notin DOMAIN news => next.status = store[u].status,
         \A v \in User : v \in DOMAIN news => v = u /\ news[v] = next.status,
         Keeps(next, store[u])
  PROVE  UserMoves(c)
<1> DEFINE reads == << {u} >>
           writes == << u :> next >>
           seen == Saw(c, reads)
<1>1. Stage(c, reads, writes, news)
  BY DEF Update
<1>2. u \in DOMAIN seen /\ seen[u] = store[u]
  BY SawLast
<1>3. writes \in Seq(Writes) /\ writes # <<>> /\ writes[1] = u :> next /\ Len(writes) = 1
  BY WriteShapes, OneWrite DEF Sound
<1>4. Sound(store[u])
  BY DEF RecordsInv, IsUser, Exists
<1> HIDE DEF seen, writes, reads
<1>5. SavesUser(seen, writes, news, u, next)
  BY <1>2, <1>4 DEF SavesUser, Changes
<1>6. UserFirst(seen, writes, news)
  BY <1>3, <1>5 DEF UserFirst
<1>7. QED
  BY <1>1, <1>6, IdleIsFree, UserStageMoves DEF UserStaged, seen

LEMMA RegisterMoves ==
  ASSUME CallsOK, RecordsInv, NEW c \in Call, RegisterLocalUser(c)
  PROVE  UserMoves(c)
<1>1. PICK u \in Fresh(User), email \in Email :
        /\ IsIdle(c) /\ FindByEmail(email) = {}
        /\ Stage(c, << User >>, << u :> NewUser(email) >>, u :> "pending_verification")
  BY DEF RegisterLocalUser
<1> DEFINE reads == << User >>
           writes == << u :> NewUser(email) >>
           news == u :> "pending_verification"
           seen == Saw(c, reads)
<1>2. User \subseteq DOMAIN seen /\ \A v \in User : seen[v] = store[v]
  BY SawLast
<1>3. u \in User /\ ~Exists(store[u])
  BY DEF Fresh
<1>4. NewUser(email) \in UserRecord /\ Sound(NewUser(email))
  BY IdentityAssumption DEF NewUser, UserRecord, Standing, Sound
<1>5. writes \in Seq(Writes) /\ writes # <<>> /\ writes[1] = u :> NewUser(email) /\ Len(writes) = 1
  BY <1>3, <1>4, WriteShapes, OneWrite
<1>6. DOMAIN news = {u} /\ news[u] = "pending_verification"
  BY OneKey
<1>7. \A v \in User : IsUser(store[v]) => store[v].email # email
  BY <1>1 DEF FindByEmail
<1>8. /\ NewUser(email).email = email /\ NewUser(email).links = {}
      /\ NewUser(email).status = "pending_verification"
  BY DEF NewUser
<1>9. Stage(c, reads, writes, news)
  BY <1>1
<1> HIDE DEF seen, writes, reads, news
<1>10. SavesUser(seen, writes, news, u, NewUser(email))
  BY <1>2, <1>3, <1>4, <1>6, <1>7, <1>8 DEF SavesUser, Registers
<1>11. UserFirst(seen, writes, news)
  BY <1>5, <1>10 DEF UserFirst
<1>12. QED
  BY <1>1, <1>9, <1>11, IdleIsFree, UserStageMoves DEF UserStaged, seen

LEMMA VerifyMoves ==
  ASSUME CallsOK, RecordsInv, NEW c \in Call, VerifyEmail(c)
  PROVE  UserMoves(c)
<1>1. PICK u \in User :
        /\ IsIdle(c) /\ IsUser(store[u])
        /\ Update(c, u, [store[u] EXCEPT !.verified = TRUE, !.status = "active"], u :> "active")
  BY DEF VerifyEmail
<1> DEFINE next == [store[u] EXCEPT !.verified = TRUE, !.status = "active"]
           news == u :> "active"
<1>2. Sound(store[u])
  BY <1>1 DEF RecordsInv, IsUser, Exists
<1>3. /\ next \in UserRecord /\ next.status = "active" /\ next.email = store[u].email
      /\ next.links = store[u].links /\ next.password = store[u].password
      /\ next.failed = store[u].failed /\ next.locked = store[u].locked
  BY <1>2 DEF Sound, UserRecord, Standing
<1>4. DOMAIN news = {u} /\ news[u] = "active"
  BY OneKey
<1>5. Update(c, u, next, news)
  BY <1>1
<1> HIDE DEF next, news
<1>6. Sound(next) /\ Keeps(next, store[u])
  BY <1>2, <1>3 DEF Sound, Keeps, InGoodStanding
<1>7. QED
  BY <1>1, <1>3, <1>4, <1>5, <1>6, UpdateMoves

LEMMA ActivateMoves ==
  ASSUME CallsOK, RecordsInv, NEW c \in Call, ActivateUser(c)
  PROVE  UserMoves(c)
<1>1. PICK u \in User :
        /\ IsIdle(c) /\ IsUser(store[u])
        /\ Update(c, u, [store[u] EXCEPT !.status = "active"], u :> "active")
  BY DEF ActivateUser
<1> DEFINE next == [store[u] EXCEPT !.status = "active"]
           news == u :> "active"
<1>2. Sound(store[u])
  BY <1>1 DEF RecordsInv, IsUser, Exists
<1>3. /\ next \in UserRecord /\ next.status = "active" /\ next.email = store[u].email
      /\ next.links = store[u].links /\ next.password = store[u].password
      /\ next.failed = store[u].failed /\ next.locked = store[u].locked
  BY <1>2 DEF Sound, UserRecord, Standing
<1>4. DOMAIN news = {u} /\ news[u] = "active"
  BY OneKey
<1>5. Update(c, u, next, news)
  BY <1>1
<1> HIDE DEF next, news
<1>6. Sound(next) /\ Keeps(next, store[u])
  BY <1>2, <1>3 DEF Sound, Keeps, InGoodStanding
<1>7. QED
  BY <1>1, <1>3, <1>4, <1>5, <1>6, UpdateMoves

\* Updates that are not announced and touch only the count of failures, the lock and
\* the links.
LEMMA QuietUpdateMoves ==
  ASSUME CallsOK, RecordsInv, NEW c \in Call, NEW u \in User, NEW next,
         IsIdle(c), IsUser(store[u]), Update(c, u, next, <<>>),
         Sound(next), next.email = store[u].email, next.status = store[u].status,
         next.password = store[u].password, next.links \subseteq store[u].links
  PROVE  UserMoves(c)
<1> DEFINE news == <<>>
<1>1. DOMAIN news = {}
  OBVIOUS
<1>2. Update(c, u, next, news)
  OBVIOUS
<1>3. Keeps(next, store[u])
  BY DEF Keeps, InGoodStanding
<1> HIDE DEF news
<1>4. QED
  BY <1>1, <1>2, <1>3, UpdateMoves

LEMMA FailLoginMoves ==
  ASSUME CallsOK, RecordsInv, NEW c \in Call, FailLogin(c)
  PROVE  UserMoves(c)
<1>1. PICK email \in Email : \E u \in FindByEmail(email) :
        IsIdle(c) /\ Update(c, u, Counted(store[u]), <<>>)
  BY DEF FailLogin
<1>2. PICK u \in FindByEmail(email) : IsIdle(c) /\ Update(c, u, Counted(store[u]), <<>>)
  BY <1>1
<1>3. u \in User /\ IsUser(store[u])
  BY DEF FindByEmail
<1>4. Sound(store[u])
  BY <1>3 DEF RecordsInv, IsUser, Exists
<1> DEFINE next == Counted(store[u])
<1>5. /\ next \in UserRecord /\ next.status = store[u].status /\ next.email = store[u].email
      /\ next.links = store[u].links /\ next.password = store[u].password
      /\ next.failed >= MaxFailedLogins => next.locked
  <2>1. store[u] \in UserRecord /\ store[u].failed \in Nat /\ store[u].locked \in BOOLEAN
    BY <1>4 DEF Sound, UserRecord
  <2>2. /\ next.failed = store[u].failed + 1
        /\ next.locked = (store[u].locked \/ store[u].failed + 1 >= MaxFailedLogins)
        /\ next.status = store[u].status /\ next.email = store[u].email
        /\ next.links = store[u].links /\ next.password = store[u].password
    BY <2>1 DEF UserRecord, Counted
  <2>3. next \in UserRecord
    <3>1. \A user \in UserRecord, n \in Nat, b \in BOOLEAN :
            [user EXCEPT !.failed = n, !.locked = b] \in UserRecord
      BY DEF UserRecord
    <3>2. (store[u].locked \/ store[u].failed + 1 >= MaxFailedLogins) \in BOOLEAN
      OBVIOUS
    <3>3. store[u].failed + 1 \in Nat
      BY <2>1
    <3>4. QED
      BY <2>1, <3>1, <3>2, <3>3, Zenon DEF Counted
  <2>4. QED
    BY <2>2, <2>3
<1>6. Update(c, u, next, <<>>)
  BY <1>2
<1> HIDE DEF next
<1>7. QED
  BY <1>2, <1>3, <1>5, <1>6, QuietUpdateMoves DEF Sound

LEMMA LockMoves ==
  ASSUME CallsOK, RecordsInv, NEW c \in Call, LockUser(c)
  PROVE  UserMoves(c)
<1>1. PICK u \in User : /\ IsIdle(c) /\ IsUser(store[u])
                        /\ Update(c, u, [store[u] EXCEPT !.locked = TRUE], <<>>)
  BY DEF LockUser
<1>2. Sound(store[u])
  BY <1>1 DEF RecordsInv, IsUser, Exists
<1> DEFINE next == [store[u] EXCEPT !.locked = TRUE]
<1>3. /\ next \in UserRecord /\ next.status = store[u].status /\ next.email = store[u].email
      /\ next.links = store[u].links /\ next.password = store[u].password /\ next.locked
  BY <1>2 DEF Sound, UserRecord
<1>4. Update(c, u, next, <<>>)
  BY <1>1
<1> HIDE DEF next
<1>5. QED
  BY <1>1, <1>3, <1>4, QuietUpdateMoves DEF Sound

LEMMA UnlockMoves ==
  ASSUME CallsOK, RecordsInv, NEW c \in Call, UnlockUser(c)
  PROVE  UserMoves(c)
<1>1. PICK u \in User : /\ IsIdle(c) /\ IsUser(store[u])
                        /\ Update(c, u, [store[u] EXCEPT !.locked = FALSE, !.failed = 0], <<>>)
  BY DEF UnlockUser
<1>2. Sound(store[u])
  BY <1>1 DEF RecordsInv, IsUser, Exists
<1> DEFINE next == [store[u] EXCEPT !.locked = FALSE, !.failed = 0]
<1>3. /\ next \in UserRecord /\ next.status = store[u].status /\ next.email = store[u].email
      /\ next.links = store[u].links /\ next.password = store[u].password
      /\ ~(next.failed >= MaxFailedLogins)
  <2>1. /\ next \in UserRecord /\ next.status = store[u].status /\ next.email = store[u].email
        /\ next.links = store[u].links /\ next.password = store[u].password /\ next.failed = 0
    BY <1>2 DEF Sound, UserRecord
  <2>2. MaxFailedLogins \in Nat \ {0}
    BY IdentityAssumption
  <2>3. ~(0 >= MaxFailedLogins)
    BY <2>2
  <2>4. QED
    BY <2>1, <2>3
<1>4. Update(c, u, next, <<>>)
  BY <1>1
<1> HIDE DEF next
<1>5. QED
  BY <1>1, <1>3, <1>4, QuietUpdateMoves DEF Sound

LEMMA UnlinkMoves ==
  ASSUME CallsOK, RecordsInv, NEW c \in Call, UnlinkExternalIdentity(c)
  PROVE  UserMoves(c)
<1>1. PICK u \in User, x \in External :
        /\ IsIdle(c) /\ IsUser(store[u])
        /\ Update(c, u, [store[u] EXCEPT !.links = @ \ {x}], <<>>)
  BY DEF UnlinkExternalIdentity
<1>2. Sound(store[u])
  BY <1>1 DEF RecordsInv, IsUser, Exists
<1> DEFINE next == [store[u] EXCEPT !.links = @ \ {x}]
<1>3. /\ next \in UserRecord /\ next.status = store[u].status /\ next.email = store[u].email
      /\ next.links \subseteq store[u].links /\ next.password = store[u].password
      /\ next.failed = store[u].failed /\ next.locked = store[u].locked
  BY <1>2 DEF Sound, UserRecord
<1>4. Update(c, u, next, <<>>)
  BY <1>1
<1> HIDE DEF next
<1>5. QED
  BY <1>1, <1>2, <1>3, <1>4, QuietUpdateMoves DEF Sound

\* Operations that end the sessions of the user they save.
LEMMA EndsMoves ==
  ASSUME CallsOK, RecordsInv, NEW c \in Call, work[c].writes = <<>>, work[c].news = <<>>,
         NEW reads, reads[Len(reads)] = Session, NEW u \in User, NEW user, NEW news,
         NEW first \in Seq(Writes), first # <<>>, first[1] = u :> user,
         \A i \in 2 .. Len(first) : first[i] \in Trailing,
         Stage(c, reads, first \o RevokedIn(Answers(Session), u), news),
         u \in DOMAIN Saw(c, reads), Sound(Saw(c, reads)[u]), IsUser(Saw(c, reads)[u]),
         Sound(user), user.email = Saw(c, reads)[u].email,
         user.links \subseteq Saw(c, reads)[u].links,
         u \notin DOMAIN news => user.status = Saw(c, reads)[u].status,
         \A v \in User : v \in DOMAIN news => v = u /\ news[v] = user.status
  PROVE  UserMoves(c)
<1> DEFINE seen == Saw(c, reads)
           rest == RevokedIn(Answers(Session), u)
           writes == first \o rest
<1>1. Session \subseteq DOMAIN seen /\ \A s \in Session : seen[s] = store[s]
  BY SawLast
<1>2. /\ rest \in Seq(Revocations)
      /\ \A s \in Session : Exists(store[s]) /\ store[s].user = u /\ ~store[s].revoked =>
           Revokes(rest, s)
  BY RevokedInEnds
<1>3. u \in DOMAIN seen /\ Sound(seen[u]) /\ IsUser(seen[u]) /\ user.email = seen[u].email
      /\ user.links \subseteq seen[u].links
      /\ (u \notin DOMAIN news => user.status = seen[u].status)
  OBVIOUS
<1>4. Stage(c, reads, writes, news)
  OBVIOUS
<1> HIDE DEF seen, rest
<1>5. rest \in Seq(Trailing)
  BY <1>2, WriteShapes, SeqMonotonic
<1>6. /\ writes \in Seq(Writes) /\ writes # <<>> /\ writes[1] = first[1]
      /\ \A i \in 2 .. Len(writes) : writes[i] \in Trailing
      /\ \A s : Revokes(rest, s) => Revokes(writes, s)
  BY <1>5, WritesJoined
<1> HIDE DEF writes
<1>7. EndsSessions(seen, writes, u)
  BY <1>1, <1>2, <1>6 DEF EndsSessions
<1>8. SavesUser(seen, writes, news, u, user)
  BY <1>3, <1>7 DEF SavesUser, Changes
<1>9. UserFirst(seen, writes, news)
  BY <1>6, <1>8 DEF UserFirst
<1>10. QED
  BY <1>4, <1>9, UserStageMoves DEF UserStaged, seen

LEMMA OpsApart ==
  /\ \A a, b, d, e : << a, b >> = << d, e >> => a = d /\ b = e
  /\ \A a, b, d, e, f : << a, b >> # << d, e, f >>
  /\ \A a, b, d, e, f, g : << a, b, d >> = << e, f, g >> => a = e /\ b = f /\ d = g
  /\ \A a, b, d, e : << "link", a, b >> # << "reset", d, e >>
OBVIOUS

\* What an operation of one user has read.
LEMMA UserRead ==
  ASSUME CallsOK, RecordsInv, NEW c \in Call, CallInv(c), NEW name, NEW u \in User,
         IsUser(store[u]), Read(c, << name, u >>, << {u}, Session >>)
  PROVE  UserMoves(c)
<1> DEFINE op == << name, u >>
           reads == << {u}, Session >>
<1>1. reads \in Seq(SUBSET Key) /\ reads[1] = {u} /\ Tail(reads) = << Session >>
  BY IdentityKeys
<1>2. Read(c, op, reads)
  OBVIOUS
<1> HIDE DEF reads
<1>3. /\ CallsOK' /\ OthersStay(c)
      /\ store' = store /\ told' = told /\ raced' = raced
      /\ work'[c].op = op /\ work'[c].todo # <<>>
  BY <1>1, <1>2, ReadEffect
<1>4. work[c].writes = <<>> /\ work[c].news = <<>>
  <2>1. CASE IsIdle(c)
    BY <2>1, IdleIsFree
  <2>2. CASE Len(work[c].todo) > 1
    <3>1. work[c].todo # <<>>
      BY <2>2, NotEmpty DEF CallsOK, IsCall
    <3>2. QED
      BY <3>1 DEF CallsOK, IsCall
  <2>3. QED
    BY <1>2, <2>1, <2>2 DEF Read
<1>5. Sound(store[u])
  BY DEF RecordsInv, IsUser, Exists
<1>6. u \in DOMAIN work'[c].seen /\ Sound(work'[c].seen[u]) /\ IsUser(work'[c].seen[u])
  <2>1. CASE work'[c].seen = Answers(reads[1])
    BY <1>1, <1>5, <2>1 DEF Answers
  <2>2. CASE /\ work[c].op = op /\ Len(work[c].todo) > 1
             /\ work'[c].seen = Answers(work[c].todo[1]) @@ work[c].seen
    <3>1. work[c].todo # <<>>
      BY <2>2, NotEmpty DEF CallsOK, IsCall
    <3>2. u \in DOMAIN work[c].seen /\ Sound(work[c].seen[u]) /\ IsUser(work[c].seen[u])
      BY <2>2, <3>1 DEF CallInv, UserReading
    <3>3. work'[c].seen[u] = store[u] \/ work'[c].seen[u] = work[c].seen[u]
      BY <2>2, <3>2 DEF Answers, @@
    <3>4. u \in DOMAIN work'[c].seen
      BY <2>2, <3>2 DEF @@
    <3>5. QED
      BY <1>5, <3>2, <3>3, <3>4
  <2>3. QED
    BY <1>2, <2>1, <2>2, ReadAnswers
<1>7. UserReading(work'[c])
  BY <1>3, <1>6, OpsApart DEF UserReading
<1>8. QED
  BY <1>3, <1>4, <1>7 DEF UserMoves, CallInv, UserReading, Sound, IsUser, Exists

\* An operation of one user at its last read.
LEMMA UserAtLast ==
  ASSUME CallsOK, RecordsInv, NEW c \in Call, CallInv(c), NEW name, NEW u \in User,
         LastRead(c, << name, u >>, << {u}, Session >>)
  PROVE  LET seen == Saw(c, << {u}, Session >>)
         IN  /\ u \in DOMAIN seen /\ Sound(seen[u]) /\ IsUser(seen[u])
             /\ work[c].writes = <<>> /\ work[c].news = <<>>
<1>1. Len(<< {u}, Session >>) # 1
  OBVIOUS
<1>2. /\ work[c].op = << name, u >> /\ work[c].todo # <<>>
      /\ work[c].writes = <<>> /\ work[c].news = <<>>
  BY <1>1, AtLast
<1>3. u \in DOMAIN work[c].seen /\ Sound(work[c].seen[u]) /\ IsUser(work[c].seen[u])
  BY <1>2 DEF CallInv, UserReading
<1>4. Saw(c, << {u}, Session >>) = Answers(Session) @@ work[c].seen
  BY DEF Saw
<1>5. DOMAIN Answers(Session) = Session
  BY DEF Answers
<1>6. u \notin Session
  BY IdentityKeys
<1>7. u \in DOMAIN Saw(c, << {u}, Session >>) /\ Saw(c, << {u}, Session >>)[u] = work[c].seen[u]
  BY <1>3, <1>4, <1>5, <1>6 DEF @@
<1>8. QED
  BY <1>2, <1>3, <1>7 DEF CallsOK, IsCall

LEMMA WithdrawMoves ==
  ASSUME CallsOK, RecordsInv, NEW c \in Call, CallInv(c),
         NEW to \in {"suspended", "deactivated", "deleted"}, Withdraw(c, to)
  PROVE  UserMoves(c)
<1>1. PICK u \in User :
        \/ IsUser(store[u]) /\ Read(c, << to, u >>, << {u}, Session >>)
        \/ /\ LastRead(c, << to, u >>, << {u}, Session >>)
           /\ Stage(c, << {u}, Session >>,
                    << u :> [Saw(c, << {u}, Session >>)[u] EXCEPT !.status = to] >>
                      \o RevokedIn(Answers(Session), u),
                    u :> to)
  BY DEF Withdraw
<1>2. CASE IsUser(store[u]) /\ Read(c, << to, u >>, << {u}, Session >>)
  BY <1>2, UserRead
<1>3. CASE /\ LastRead(c, << to, u >>, << {u}, Session >>)
           /\ Stage(c, << {u}, Session >>,
                    << u :> [Saw(c, << {u}, Session >>)[u] EXCEPT !.status = to] >>
                      \o RevokedIn(Answers(Session), u),
                    u :> to)
  <2> DEFINE reads == << {u}, Session >>
             seen == Saw(c, reads)
             user == [seen[u] EXCEPT !.status = to]
             first == << u :> user >>
             news == u :> to
  <2>1. /\ u \in DOMAIN seen /\ Sound(seen[u]) /\ IsUser(seen[u])
        /\ work[c].writes = <<>> /\ work[c].news = <<>>
    BY <1>3, UserAtLast
  <2>2. /\ user \in UserRecord /\ user.status = to /\ user.email = seen[u].email
        /\ user.links = seen[u].links /\ user.failed = seen[u].failed
        /\ user.locked = seen[u].locked
    BY <2>1 DEF Sound, UserRecord, Standing
  <2>3. Sound(user)
    BY <2>1, <2>2 DEF Sound
  <2>4. first \in Seq(Writes) /\ first # <<>> /\ first[1] = u :> user /\ Len(first) = 1
    BY <2>2, WriteShapes, OneWrite
  <2>5. DOMAIN news = {u} /\ news[u] = to
    BY OneKey
  <2>6. reads[Len(reads)] = Session
    OBVIOUS
  <2>7. Stage(c, reads, first \o RevokedIn(Answers(Session), u), news)
    BY <1>3
  <2> HIDE DEF reads, user, first, news
  <2>8. QED
    BY <2>1, <2>2, <2>3, <2>4, <2>5, <2>6, <2>7, EndsMoves
<1>4. QED
  BY <1>1, <1>2, <1>3

LEMMA AnotherIsNumber ==
  ASSUME NEW password \in Nat
  PROVE  Another(password) \in Nat
BY DEF Another

LEMMA ChangePasswordMoves ==
  ASSUME CallsOK, RecordsInv, NEW c \in Call, CallInv(c), ChangePassword(c)
  PROVE  UserMoves(c)
<1>1. PICK u \in User :
        \/ IsUser(store[u]) /\ Read(c, << "changePassword", u >>, << {u}, Session >>)
        \/ /\ LastRead(c, << "changePassword", u >>, << {u}, Session >>)
           /\ Stage(c, << {u}, Session >>,
                    << u :> [Saw(c, << {u}, Session >>)[u] EXCEPT !.password = Another(@)] >>
                      \o RevokedIn(Answers(Session), u),
                    <<>>)
  BY DEF ChangePassword
<1>2. CASE IsUser(store[u]) /\ Read(c, << "changePassword", u >>, << {u}, Session >>)
  BY <1>2, UserRead
<1>3. CASE /\ LastRead(c, << "changePassword", u >>, << {u}, Session >>)
           /\ Stage(c, << {u}, Session >>,
                    << u :> [Saw(c, << {u}, Session >>)[u] EXCEPT !.password = Another(@)] >>
                      \o RevokedIn(Answers(Session), u),
                    <<>>)
  <2> DEFINE reads == << {u}, Session >>
             seen == Saw(c, reads)
             user == [seen[u] EXCEPT !.password = Another(@)]
             first == << u :> user >>
             news == <<>>
  <2>1. /\ u \in DOMAIN seen /\ Sound(seen[u]) /\ IsUser(seen[u])
        /\ work[c].writes = <<>> /\ work[c].news = <<>>
    BY <1>3, UserAtLast
  <2>2. Another(seen[u].password) \in Nat
    BY <2>1, AnotherIsNumber DEF Sound, UserRecord
  <2>3. /\ user \in UserRecord /\ user.status = seen[u].status /\ user.email = seen[u].email
        /\ user.links = seen[u].links /\ user.failed = seen[u].failed
        /\ user.locked = seen[u].locked
    BY <2>1, <2>2 DEF Sound, UserRecord
  <2>4. Sound(user)
    BY <2>1, <2>3 DEF Sound
  <2>5. first \in Seq(Writes) /\ first # <<>> /\ first[1] = u :> user /\ Len(first) = 1
    BY <2>3, WriteShapes, OneWrite
  <2>6. DOMAIN news = {}
    OBVIOUS
  <2>7. reads[Len(reads)] = Session
    OBVIOUS
  <2>8. Stage(c, reads, first \o RevokedIn(Answers(Session), u), news)
    BY <1>3
  <2> HIDE DEF reads, user, first, news
  <2>9. /\ \A v \in User : v \in DOMAIN news => v = u /\ news[v] = user.status
        /\ \A i \in 2 .. Len(first) : first[i] \in Trailing
    BY <2>5, <2>6
  <2>10. QED
    BY <2>1, <2>3, <2>4, <2>5, <2>7, <2>8, <2>9, EndsMoves
<1>4. QED
  BY <1>1, <1>2, <1>3

LEMMA AuthenticateMoves ==
  ASSUME CallsOK, RecordsInv, NEW c \in Call, Authenticate(c)
  PROVE  UserMoves(c)
<1>1. PICK email \in Email : \E u \in FindByEmail(email), s \in Fresh(Session) :
        /\ IsIdle(c) /\ CanAuthenticate(store[u])
        /\ Stage(c, << {u} >>,
             << u :> [store[u] EXCEPT !.failed = 0, !.locked = FALSE],
                s :> [user |-> u, revoked |-> FALSE, password |-> store[u].password] >>,
             s :> "issued")
  BY DEF Authenticate
<1>2. PICK u \in FindByEmail(email), s \in Fresh(Session) :
        /\ IsIdle(c) /\ CanAuthenticate(store[u])
        /\ Stage(c, << {u} >>,
             << u :> [store[u] EXCEPT !.failed = 0, !.locked = FALSE],
                s :> [user |-> u, revoked |-> FALSE, password |-> store[u].password] >>,
             s :> "issued")
  BY <1>1
<1> DEFINE reads == << {u} >>
           seen == Saw(c, reads)
           user == [store[u] EXCEPT !.failed = 0, !.locked = FALSE]
           news == s :> "issued"
           writes == << u :> user, s :> Opening(u, user) >>
<1>3. u \in User /\ IsUser(store[u]) /\ s \in Session
  BY DEF FindByEmail, Fresh
<1>4. Sound(store[u])
  BY <1>3 DEF RecordsInv, IsUser, Exists
<1>5. /\ user \in UserRecord /\ user.status = store[u].status /\ user.email = store[u].email
      /\ user.links = store[u].links /\ user.password = store[u].password /\ user.failed = 0
  BY <1>4 DEF Sound, UserRecord
<1>6. Sound(user)
  <2>1. MaxFailedLogins \in Nat \ {0}
    BY IdentityAssumption
  <2>2. ~(0 >= MaxFailedLogins)
    BY <2>1
  <2>3. QED
    BY <1>5, <2>2 DEF Sound
<1>7. InGoodStanding(user)
  BY <1>2, <1>4, <1>5 DEF InGoodStanding, CanAuthenticate, Sound, UserRecord, Standing
<1>8. u \in DOMAIN seen /\ seen[u] = store[u]
  BY SawLast
<1>9. DOMAIN news = {s}
  BY OneKey
<1>10. \A v \in User : v \notin DOMAIN news
  BY <1>3, <1>9, IdentityKeys
<1>11. Stage(c, reads, writes, news)
  BY <1>2, <1>5 DEF Opening
<1> HIDE DEF reads, seen, user, news
<1>12. SavesUser(seen, writes, news, u, user)
  BY <1>3, <1>4, <1>5, <1>6, <1>8, <1>10 DEF SavesUser, Changes, Keeps, InGoodStanding
<1>13. LogsIn(seen, writes, news)
  BY <1>3, <1>7, <1>10, <1>12 DEF LogsIn
<1> HIDE DEF writes
<1>14. QED
  BY <1>2, <1>11, <1>13, IdleIsFree, UserStageMoves DEF UserStaged, seen

\* Operations that save nothing but challenges and sessions they end.
LEMMA TrailsMoves ==
  ASSUME CallsOK, NEW c \in Call, IsIdle(c), NEW reads, NEW writes \in Seq(Trailing), NEW news,
         Stage(c, reads, writes, news), \A u \in User : u \notin DOMAIN news
  PROVE  UserMoves(c)
<1> DEFINE seen == Saw(c, reads)
<1> HIDE DEF seen
<1>1. Trails(seen, writes, news)
  BY DEF Trails, NewsSaid
<1>2. QED
  BY <1>1, IdleIsFree, UserStageMoves DEF UserStaged, seen

LEMMA RequestResetMoves ==
  ASSUME CallsOK, RecordsInv, NEW c \in Call, RequestPasswordReset(c)
  PROVE  UserMoves(c)
<1>1. PICK email \in Email : \E u \in FindByEmail(email), ch \in Fresh(Challenge) :
        /\ IsIdle(c)
        /\ Stage(c, << {u} >>, << ch :> [user |-> u, consumed |-> FALSE] >>, <<>>)
  BY DEF RequestPasswordReset
<1>2. PICK u \in FindByEmail(email), ch \in Fresh(Challenge) :
        /\ IsIdle(c)
        /\ Stage(c, << {u} >>, << ch :> [user |-> u, consumed |-> FALSE] >>, <<>>)
  BY <1>1
<1> DEFINE reads == << {u} >>
           writes == << ch :> [user |-> u, consumed |-> FALSE] >>
           news == <<>>
<1>3. ch :> [user |-> u, consumed |-> FALSE] \in Trailing
  <2>1. u \in User /\ ch \in Challenge
    BY DEF FindByEmail, Fresh
  <2>2. [user |-> u, consumed |-> FALSE] \in ChallengeRecord
    BY <2>1 DEF ChallengeRecord
  <2>3. QED
    BY <2>1, <2>2, WriteShapes
<1>4. writes \in Seq(Trailing)
  BY <1>3, OneWrite
<1>5. DOMAIN news = {} /\ Stage(c, reads, writes, news)
  BY <1>2
<1> HIDE DEF reads, writes, news
<1>6. QED
  BY <1>2, <1>4, <1>5, TrailsMoves

LEMMA SessionRevokeMoves ==
  ASSUME CallsOK, RecordsInv, NEW c \in Call, RevokeSession(c)
  PROVE  UserMoves(c)
<1>1. PICK s \in Session :
        /\ IsIdle(c) /\ Exists(store[s])
        /\ Stage(c, << {s} >>, << s :> [store[s] EXCEPT !.revoked = TRUE] >>, s :> "revoked")
  BY DEF RevokeSession
<1> DEFINE reads == << {s} >>
           writes == << s :> [store[s] EXCEPT !.revoked = TRUE] >>
           news == s :> "revoked"
<1>2. s :> [store[s] EXCEPT !.revoked = TRUE] \in Trailing
  <2>1. store[s] \in SessionRecord
    BY <1>1 DEF RecordsInv, Exists
  <2>2. /\ [store[s] EXCEPT !.revoked = TRUE] \in SessionRecord
        /\ [store[s] EXCEPT !.revoked = TRUE].revoked
    BY <2>1 DEF SessionRecord
  <2>3. QED
    BY <2>2, WriteShapes
<1>3. writes \in Seq(Trailing)
  BY <1>2, OneWrite
<1>4. DOMAIN news = {s}
  BY OneKey
<1>5. Stage(c, reads, writes, news) /\ \A u \in User : u \notin DOMAIN news
  BY <1>1, <1>4, IdentityKeys
<1> HIDE DEF reads, writes, news
<1>6. QED
  BY <1>1, <1>3, <1>5, TrailsMoves

LEMMA RevokeAllMoves ==
  ASSUME CallsOK, RecordsInv, NEW c \in Call, RevokeAllSessions(c)
  PROVE  UserMoves(c)
<1>1. PICK u \in User :
        IsIdle(c) /\ Stage(c, << Session >>, RevokedIn(Answers(Session), u), <<>>)
  BY DEF RevokeAllSessions
<1> DEFINE reads == << Session >>
           writes == RevokedIn(Answers(Session), u)
           news == <<>>
<1>2. writes \in Seq(Revocations)
  BY RevokedInEnds
<1>3. DOMAIN news = {} /\ Stage(c, reads, writes, news)
  BY <1>1
<1> HIDE DEF reads, writes, news
<1>4. writes \in Seq(Trailing)
  BY <1>2, WriteShapes, SeqMonotonic
<1>5. QED
  BY <1>1, <1>3, <1>4, TrailsMoves

\* A call whose reads go on was idle, or has staged nothing yet.
LEMMA ReadIsFree ==
  ASSUME CallsOK, NEW c \in Call, NEW op, NEW reads, Read(c, op, reads)
  PROVE  work[c].writes = <<>> /\ work[c].news = <<>>
<1>1. work[c].todo \in Seq(SUBSET Key)
  BY DEF CallsOK, IsCall
<1>2. IsIdle(c) \/ Len(work[c].todo) > 1
  BY DEF Read
<1>3. CASE Len(work[c].todo) > 1
  <2>1. work[c].todo # <<>>
    BY <1>1, <1>3, NotEmpty
  <2>2. QED
    BY <2>1 DEF CallsOK, IsCall
<1>4. QED
  BY <1>2, <1>3, IdleIsFree

LEMMA UserReadMoves ==
  ASSUME CallsOK, NEW c \in Call, NEW op, NEW reads \in Seq(SUBSET Key), Read(c, op, reads),
         work'[c].op = op => UserReading(work'[c])
  PROVE  UserMoves(c)
<1>1. /\ CallsOK' /\ OthersStay(c)
      /\ store' = store /\ told' = told /\ raced' = raced
      /\ work'[c].op = op /\ work'[c].todo # <<>>
  BY ReadEffect
<1>2. UserReading(work'[c])
  BY <1>1
<1>3. QED
  BY <1>1, <1>2, ReadIsFree DEF UserMoves, CallInv, UserReading, Sound, IsUser, Exists

LEMMA LinkMoves ==
  ASSUME CallsOK, RecordsInv, NEW c \in Call, CallInv(c), LinkExternalIdentity(c)
  PROVE  UserMoves(c)
<1>1. PICK u \in User, x \in External :
        \/ FindByExternalIdentity(x) \subseteq {u} /\ Read(c, << "link", u, x >>, << User, {u} >>)
        \/ /\ LastRead(c, << "link", u, x >>, << User, {u} >>)
           /\ IsUser(store[u]) /\ x \notin store[u].links
           /\ Stage(c, << User, {u} >>, << u :> [store[u] EXCEPT !.links = @ \union {x}] >>, <<>>)
  BY DEF LinkExternalIdentity
<1> DEFINE op == << "link", u, x >>
           reads == << User, {u} >>
           Only(seen) == \A v \in User :
             v \in DOMAIN seen /\ (Exists(seen[v]) /\ x \in seen[v].links => v = u)
<1>2. ASSUME work[c].op = op, work[c].todo # <<>> PROVE Only(work[c].seen)
  BY <1>2 DEF CallInv, UserReading
<1>3. CASE FindByExternalIdentity(x) \subseteq {u} /\ Read(c, op, reads)
  <2>1. \A v \in User : Exists(store[v]) /\ x \in store[v].links => v = u
    BY <1>3 DEF FindByExternalIdentity
  <2>2. reads \in Seq(SUBSET Key) /\ reads[1] = User
    BY IdentityKeys
  <2>3. Only(work'[c].seen)
    <3>1. CASE work'[c].seen = Answers(User)
      BY <2>1, <3>1 DEF Answers
    <3>2. CASE /\ work[c].op = op /\ Len(work[c].todo) > 1
               /\ work'[c].seen = Answers(work[c].todo[1]) @@ work[c].seen
      <4>1. work[c].todo \in Seq(SUBSET Key)
        BY DEF CallsOK, IsCall
      <4>2. Only(work[c].seen)
        BY <1>2, <3>2, <4>1, NotEmpty
      <4>3. \A v \in User : /\ v \in DOMAIN work'[c].seen
                            /\ \/ work'[c].seen[v] = store[v]
                               \/ work'[c].seen[v] = work[c].seen[v]
        BY <3>2, <4>2 DEF Answers, @@
      <4>4. QED
        BY <2>1, <4>2, <4>3
    <3>3. QED
      BY <1>3, <2>2, <3>1, <3>2, ReadAnswers
  <2>4. ASSUME work'[c].op = op PROVE UserReading(work'[c])
    <3>1. \A v, y : work'[c].op = << "link", v, y >> => v = u /\ y = x
      BY <2>4, OpsApart
    <3>2. /\ \A name, v : work'[c].op # << name, v >>
          /\ \A ch, v : work'[c].op # << "reset", ch, v >>
      BY <2>4, OpsApart
    <3>3. QED
      BY <2>3, <3>1, <3>2 DEF UserReading
  <2> HIDE DEF reads, op
  <2>5. QED
    BY <1>3, <2>2, <2>4, UserReadMoves
<1>4. CASE /\ LastRead(c, op, reads)
           /\ IsUser(store[u]) /\ x \notin store[u].links
           /\ Stage(c, reads, << u :> [store[u] EXCEPT !.links = @ \union {x}] >>, <<>>)
  <2> DEFINE seen == Saw(c, reads)
             user == [store[u] EXCEPT !.links = @ \union {x}]
             writes == << u :> user >>
             news == <<>>
  <2>1. work[c].op = op /\ work[c].todo # <<>> /\ work[c].writes = <<>> /\ work[c].news = <<>>
    <3>1. Len(reads) # 1
      OBVIOUS
    <3> HIDE DEF reads, op
    <3>2. QED
      BY <1>4, <3>1, AtLast
  <2>2. Only(work[c].seen)
    BY <1>2, <2>1
  <2>3. /\ u \in DOMAIN seen /\ seen[u] = store[u]
        /\ \A v \in User \ {u} : v \in DOMAIN seen /\ seen[v] = work[c].seen[v]
    BY <2>2 DEF Saw, Answers, @@
  <2>4. Sound(store[u])
    BY <1>4 DEF RecordsInv, IsUser, Exists
  <2>5. /\ user \in UserRecord /\ user.status = store[u].status /\ user.email = store[u].email
        /\ user.links = store[u].links \union {x} /\ user.password = store[u].password
        /\ user.failed = store[u].failed /\ user.locked = store[u].locked
    BY <2>4 DEF Sound, UserRecord
  <2>6. writes \in Seq(Writes) /\ writes # <<>> /\ writes[1] = u :> user /\ Len(writes) = 1
    BY <2>5, WriteShapes, OneWrite
  <2>7. DOMAIN news = {} /\ Stage(c, reads, writes, news)
    BY <1>4
  <2> HIDE DEF op, reads, seen, user, writes, news
  <2>8. SavesUser(seen, writes, news, u, user)
    BY <1>4, <2>2, <2>3, <2>4, <2>5, <2>7 DEF SavesUser, Changes, Sound, Keeps, InGoodStanding
  <2>9. UserFirst(seen, writes, news)
    BY <2>6, <2>8 DEF UserFirst
  <2>10. QED
    BY <2>1, <2>7, <2>9, UserStageMoves DEF UserStaged, seen
<1>5. QED
  BY <1>1, <1>3, <1>4

LEMMA ResetMoves ==
  ASSUME CallsOK, RecordsInv, NEW c \in Call, CallInv(c), ResetPassword(c)
  PROVE  UserMoves(c)
<1> DEFINE Op(ch, u) == << "reset", ch, u >>
           Reads(ch, u) == << {ch}, {u}, Session >>
           Reset(old) == [old EXCEPT !.password = Another(@), !.failed = 0, !.locked = FALSE]
<1>1. PICK ch \in Challenge, u \in User :
        \/ /\ Nth(c, Op(ch, u), Reads(ch, u)) = 1 => Exists(store[ch])
           /\ Nth(c, Op(ch, u), Reads(ch, u)) = 2 => IsUser(store[u])
           /\ Read(c, Op(ch, u), Reads(ch, u))
        \/ /\ LastRead(c, Op(ch, u), Reads(ch, u))
           /\ Stage(c, Reads(ch, u),
                << u :> Reset(Saw(c, Reads(ch, u))[u]),
                   ch :> [Saw(c, Reads(ch, u))[ch] EXCEPT !.consumed = TRUE] >>
                  \o RevokedIn(Answers(Session), u),
                <<>>)
  BY DEF ResetPassword
<1> DEFINE op == Op(ch, u)
           reads == Reads(ch, u)
<1>2. /\ reads \in Seq(SUBSET Key) /\ Len(reads) = 3 /\ reads[1] = {ch} /\ reads[3] = Session
      /\ Tail(reads) = << {u}, Session >>
  BY IdentityKeys
<1>3. ASSUME work[c].op = op, work[c].todo # <<>>
      PROVE  /\ ch \in DOMAIN work[c].seen /\ work[c].seen[ch] \in ChallengeRecord
             /\ \/ work[c].todo = << {u}, Session >>
                \/ /\ work[c].todo = << Session >>
                   /\ u \in DOMAIN work[c].seen /\ Sound(work[c].seen[u])
                   /\ IsUser(work[c].seen[u])
  BY <1>3 DEF CallInv, UserReading
<1>4. work[c].todo \in Seq(SUBSET Key)
  BY DEF CallsOK, IsCall
<1>5. CASE /\ Nth(c, op, reads) = 1 => Exists(store[ch])
           /\ Nth(c, op, reads) = 2 => IsUser(store[u])
           /\ Read(c, op, reads)
  <2> DEFINE ReadOn(call) ==
        /\ ch \in DOMAIN call.seen /\ call.seen[ch] \in ChallengeRecord
        /\ \/ call.todo = << {u}, Session >>
           \/ /\ call.todo = << Session >>
              /\ u \in DOMAIN call.seen /\ Sound(call.seen[u]) /\ IsUser(call.seen[u])
  <2>1. ReadOn(work'[c])
    <3>1. CASE /\ IsIdle(c) /\ work'[c].todo = Tail(reads)
               /\ work'[c].seen = Answers(reads[1])
      <4>1. Exists(store[ch])
        <5>1. work[c].op = <<>> /\ op # <<>>
          BY <3>1, IdleCall DEF IsIdle
        <5> HIDE DEF op
        <5>2. QED
          BY <1>5, <3>1, <5>1 DEF Nth
      <4>2. store[ch] \in ChallengeRecord
        BY <4>1 DEF RecordsInv, Exists
      <4>3. QED
        BY <1>2, <3>1, <4>2 DEF Answers
    <3>2. CASE /\ work[c].op = op /\ Len(work[c].todo) > 1
               /\ work'[c].todo = Tail(work[c].todo)
               /\ work'[c].seen = Answers(work[c].todo[1]) @@ work[c].seen
      <4>1. work[c].todo # <<>>
        BY <1>4, <3>2, NotEmpty
      <4>2. /\ ch \in DOMAIN work[c].seen /\ work[c].seen[ch] \in ChallengeRecord
            /\ work[c].todo = << {u}, Session >>
        <5>1. Len(work[c].todo) > 1
          BY <3>2
        <5>2. ASSUME work[c].todo = << Session >> PROVE FALSE
          <6>1. Len(work[c].todo) = 1
            BY <5>2
          <6>2. QED
            BY <5>1, <6>1
        <5> HIDE DEF op
        <5>3. QED
          BY <1>3, <3>2, <4>1, <5>2
      <4>3. /\ Tail(work[c].todo) = << Session >> /\ work[c].todo[1] = {u}
            /\ Len(work[c].todo) = 2
        BY <4>2
      <4>4. ~IsIdle(c)
        BY <4>1, IdleCall DEF IsIdle
      <4>5. IsUser(store[u])
        BY <1>2, <1>5, <3>2, <4>3, <4>4 DEF Nth
      <4>6. Sound(store[u])
        BY <4>5 DEF RecordsInv, IsUser, Exists
      <4>7. /\ u \in DOMAIN work'[c].seen /\ work'[c].seen[u] = store[u]
            /\ ch \in DOMAIN work'[c].seen /\ work'[c].seen[ch] = work[c].seen[ch]
        BY <3>2, <4>2, <4>3, IdentityKeys DEF Answers, @@
      <4>8. QED
        BY <3>2, <4>2, <4>3, <4>5, <4>6, <4>7
    <3>3. QED
      BY <1>5, <3>1, <3>2, ReadAnswers
  <2>2. ASSUME work'[c].op = op PROVE UserReading(work'[c])
    <3>1. \A k, v : work'[c].op = << "reset", k, v >> => k = ch /\ v = u
      BY <2>2, OpsApart
    <3>2. /\ \A name, v : work'[c].op # << name, v >>
          /\ \A v, x : work'[c].op # << "link", v, x >>
      BY <2>2, OpsApart
    <3>3. QED
      BY <2>1, <3>1, <3>2 DEF UserReading
  <2> HIDE DEF reads, op
  <2>3. QED
    BY <1>2, <1>5, <2>2, UserReadMoves
<1>6. CASE /\ LastRead(c, op, reads)
           /\ Stage(c, reads,
                << u :> Reset(Saw(c, reads)[u]),
                   ch :> [Saw(c, reads)[ch] EXCEPT !.consumed = TRUE] >>
                  \o RevokedIn(Answers(Session), u),
                <<>>)
  <2> DEFINE seen == Saw(c, reads)
             user == Reset(seen[u])
             challenge == [seen[ch] EXCEPT !.consumed = TRUE]
             first == << u :> user, ch :> challenge >>
             news == <<>>
  <2>1. work[c].op = op /\ work[c].todo # <<>> /\ Len(work[c].todo) = 1
        /\ work[c].writes = <<>> /\ work[c].news = <<>>
    <3>1. Len(reads) # 1
      BY <1>2
    <3> HIDE DEF reads, op
    <3>2. QED
      BY <1>6, <3>1, AtLast
  <2>2. work[c].todo # << {u}, Session >>
    <3>1. ASSUME work[c].todo = << {u}, Session >> PROVE Len(work[c].todo) = 2
      BY <3>1
    <3>2. QED
      BY <2>1, <3>1
  <2>3. /\ ch \in DOMAIN work[c].seen /\ work[c].seen[ch] \in ChallengeRecord
        /\ u \in DOMAIN work[c].seen /\ Sound(work[c].seen[u]) /\ IsUser(work[c].seen[u])
    BY <1>3, <2>1, <2>2
  <2>4. seen = Answers(Session) @@ work[c].seen
    BY <1>2 DEF Saw
  <2>5. u \notin Session /\ ch \notin Session
    BY IdentityKeys
  <2>6. /\ u \in DOMAIN seen /\ seen[u] = work[c].seen[u]
        /\ ch \in DOMAIN seen /\ seen[ch] = work[c].seen[ch]
    BY <2>3, <2>4, <2>5 DEF Answers, @@
  <2>7. u \in DOMAIN seen /\ Sound(seen[u]) /\ IsUser(seen[u]) /\ seen[ch] \in ChallengeRecord
    BY <2>3, <2>6
  <2>8. reads[Len(reads)] = Session
    BY <1>2
  <2> HIDE DEF seen
  <2>9. Another(seen[u].password) \in Nat
    BY <2>7, AnotherIsNumber DEF Sound, UserRecord
  <2>10. /\ user \in UserRecord /\ user.status = seen[u].status /\ user.email = seen[u].email
         /\ user.links = seen[u].links /\ user.failed = 0
    BY <2>7, <2>9 DEF Sound, UserRecord
  <2>11. Sound(user)
    <3>1. MaxFailedLogins \in Nat \ {0}
      BY IdentityAssumption
    <3>2. ~(0 >= MaxFailedLogins)
      BY <3>1
    <3>3. QED
      BY <2>10, <3>2 DEF Sound
  <2>12. challenge \in ChallengeRecord
    BY <2>7 DEF ChallengeRecord
  <2> HIDE DEF user, challenge
  <2>13. /\ u :> user \in Writes /\ ch :> challenge \in Trailing
         /\ ch :> challenge \in Writes
    BY <2>10, <2>12, WriteShapes
  <2>14. /\ first \in Seq(Writes) /\ first # <<>> /\ first[1] = u :> user
         /\ Len(first) = 2 /\ first[2] = ch :> challenge
    BY <2>13
  <2>15. DOMAIN news = {}
    OBVIOUS
  <2>16. Stage(c, reads, first \o RevokedIn(Answers(Session), u), news)
    BY <1>6 DEF seen, user, challenge
  <2> HIDE DEF first, news, reads
  <2>17. \A i \in 2 .. Len(first) : first[i] \in Trailing
    BY <2>13, <2>14
  <2>18. \A v \in User : v \in DOMAIN news => v = u /\ news[v] = user.status
    BY <2>15
  <2>19. QED
    BY <2>1, <2>7, <2>8, <2>10, <2>11, <2>14, <2>16, <2>17, <2>18, EndsMoves DEF seen
<1>7. QED
  BY <1>1, <1>5, <1>6

LEMMA UserGiveUpMoves ==
  ASSUME CallsOK, NEW c \in Call, GiveUp(c)
  PROVE  UserMoves(c)
<1>1. /\ CallsOK' /\ OthersStay(c) /\ work'[c] = Idle
      /\ store' = store /\ told' = told /\ raced' = raced
      /\ work[c].writes = <<>> /\ work[c].news = <<>>
  BY GiveUpEffect
<1>2. Idle.todo = <<>> /\ Idle.writes \in Seq(Trailing) /\ DOMAIN Idle.news = {}
  BY IdleCall, EmptySeq
<1>3. QED
  BY <1>1, <1>2 DEF UserMoves, CallInv, UserStaged, Trails, NewsSaid

LEMMA StepMoves ==
  ASSUME CallsOK, RecordsInv, NEW c \in Call, CallInv(c), IdentityStep(c)
  PROVE  UserMoves(c) \/ Save(c) \/ Publish(c)
BY RegisterMoves, VerifyMoves, AuthenticateMoves, FailLoginMoves, LockMoves, UnlockMoves,
   ActivateMoves, WithdrawMoves, LinkMoves, UnlinkMoves, RequestResetMoves, ResetMoves,
   ChangePasswordMoves, SessionRevokeMoves, RevokeAllMoves, UserGiveUpMoves
   DEF IdentityStep, CallStep, SuspendUser, DeactivateUser, DeleteUser

-----------------------------------------------------------------------------
(***************************************************************************)
(* Saves.                                                                  *)
(***************************************************************************)
LEMMA StagedWrites ==
  ASSUME NEW seen, NEW writes, NEW news, UserStaged(seen, writes, news)
  PROVE  writes \in Seq(Writes)
<1>1. CASE LogsIn(seen, writes, news)
  <2>1. PICK u, user :
          /\ \E s \in Session : writes = << u :> user, s :> Opening(u, user) >>
          /\ u \in User /\ user \in UserRecord
    BY <1>1 DEF LogsIn, SavesUser, Sound
  <2>2. PICK s \in Session : writes = << u :> user, s :> Opening(u, user) >>
    BY <2>1
  <2>3. Opening(u, user) \in SessionRecord
    BY <2>1 DEF Opening, SessionRecord, UserRecord
  <2>4. u :> user \in Writes /\ s :> Opening(u, user) \in Writes
    BY <2>1, <2>3, WriteShapes
  <2>5. QED
    BY <2>2, <2>4
<1>2. CASE Opens(seen, writes, news)
  <2>1. PICK u \in User, s \in Session :
          writes = << s :> Opening(u, seen[u]) >> /\ seen[u] \in UserRecord
    BY <1>2 DEF Opens, Sound
  <2>2. Opening(u, seen[u]) \in SessionRecord
    BY <2>1 DEF Opening, SessionRecord, UserRecord
  <2>3. s :> Opening(u, seen[u]) \in Writes
    BY <2>2, WriteShapes
  <2>4. QED
    BY <2>1, <2>3, OneWrite
<1>3. CASE Trails(seen, writes, news)
  BY <1>3, WriteShapes, SeqMonotonic DEF Trails
<1>4. QED
  BY <1>1, <1>2, <1>3 DEF UserStaged, UserFirst

\* What one save does to the repositories and to the call.
LEMMA Saved ==
  ASSUME CallsOK, NEW c \in Call, Save(c), NEW k, NEW v, work[c].writes[1] = k :> v
  PROVE  /\ store'[k] = v /\ \A x \in Key \ {k} : store'[x] = store[x]
         /\ k \notin raced' => \A x \in DOMAIN work[c].seen : work[c].seen[x] = store[x]
         /\ DOMAIN work'[c].seen = {k} \union DOMAIN work[c].seen
         /\ work'[c].seen[k] = v
         /\ \A x \in DOMAIN work[c].seen \ {k} : work'[c].seen[x] = work[c].seen[x]
<1> DEFINE w == work[c].writes[1]
<1>1. /\ store' = w @@ store
      /\ \A x \in DOMAIN w : x \notin raced' =>
           \A s \in DOMAIN work[c].seen : work[c].seen[s] = store[s]
      /\ work'[c].seen = w @@ work[c].seen
  BY SaveEffect
<1>2. DOMAIN w = {k} /\ w[k] = v
  BY OneKey
<1> HIDE DEF w
<1>3. Key \subseteq DOMAIN store
  BY DEF CallsOK
<1>4. store'[k] = v /\ \A x \in Key \ {k} : store'[x] = store[x]
  BY <1>1, <1>2, <1>3 DEF @@
<1>5. /\ DOMAIN work'[c].seen = {k} \union DOMAIN work[c].seen
      /\ work'[c].seen[k] = v
      /\ \A x \in DOMAIN work[c].seen \ {k} : work'[c].seen[x] = work[c].seen[x]
  BY <1>1, <1>2 DEF @@
<1>6. k \notin raced' => \A x \in DOMAIN work[c].seen : work[c].seen[x] = store[x]
  BY <1>1, <1>2
<1>7. QED
  BY <1>4, <1>5, <1>6

LEMMA TailRevokes ==
  ASSUME NEW writes \in Seq(Writes), writes # <<>>, NEW s, Revokes(writes, s),
         writes[1] \notin Revocations \/ s \notin DOMAIN writes[1]
  PROVE  Revokes(Tail(writes), s)
<1>1. PICK i \in DOMAIN writes : writes[i] \in Revocations /\ s \in DOMAIN writes[i]
  BY DEF Revokes
<1>2. DOMAIN writes = 1 .. Len(writes) /\ Len(writes) \in Nat
  BY LenProperties
<1>3. i # 1 /\ i \in 2 .. Len(writes)
  BY <1>1, <1>2
<1>4. /\ Len(Tail(writes)) = Len(writes) - 1
      /\ \A j \in 1 .. Len(Tail(writes)) : Tail(writes)[j] = writes[j + 1]
      /\ Tail(writes) \in Seq(Writes)
  BY HeadTailProperties
<1>5. DOMAIN Tail(writes) = 1 .. Len(Tail(writes))
  BY <1>4, LenProperties
<1>6. i - 1 \in DOMAIN Tail(writes) /\ Tail(writes)[i - 1] = writes[i]
  BY <1>2, <1>3, <1>4, <1>5
<1>7. QED
  BY <1>1, <1>6 DEF Revokes

LEMMA TailTrails ==
  ASSUME NEW writes \in Seq(Writes), writes # <<>>,
         \A i \in 2 .. Len(writes) : writes[i] \in Trailing
  PROVE  Tail(writes) \in Seq(Trailing)
<1>1. /\ Len(writes) \in Nat /\ Len(Tail(writes)) = Len(writes) - 1
      /\ \A j \in 1 .. Len(Tail(writes)) : Tail(writes)[j] = writes[j + 1]
      /\ Tail(writes) \in Seq(Writes)
  BY HeadTailProperties, LenProperties
<1>2. Tail(writes) \in [1 .. Len(Tail(writes)) -> Writes] /\ Len(Tail(writes)) \in Nat
  BY <1>1, LenProperties
<1>3. \A j \in 1 .. Len(Tail(writes)) : Tail(writes)[j] \in Trailing
  BY <1>1
<1>4. Tail(writes) \in [1 .. Len(Tail(writes)) -> Trailing]
  BY <1>2, <1>3
<1>5. QED
  BY <1>2, <1>4, SeqDef

LEMMA UserIsNoRevocation ==
  ASSUME NEW u \in User \union Challenge, NEW v
  PROVE  u :> v \notin Revocations
<1>1. SUFFICES ASSUME NEW s \in Session, NEW session, u :> v = s :> session PROVE FALSE
  BY DEF Revocations
<1>2. DOMAIN (u :> v) = {u} /\ DOMAIN (s :> session) = {s}
  BY DEF :>
<1>3. u = s
  BY <1>1, <1>2
<1>4. QED
  BY <1>3, IdentityKeys

\* The save of a user.
LEMMA UserSaved ==
  ASSUME IdentityInv, NEW c \in Call, Save(c), NEW u \in User, NEW user,
         work[c].writes \in Seq(Writes), work[c].writes[1] = u :> user,
         SavesUser(work[c].seen, work[c].writes, work[c].news, u, user)
  PROVE  RecordsInv' /\ IdentitiesAreUnique' /\ SessionsInv' /\ AnnouncedInv'
<1> DEFINE seen == work[c].seen
           writes == work[c].writes
           news == work[c].news
<1>1. /\ OthersStay(c) /\ told' = told /\ raced \subseteq raced'
      /\ writes # <<>> /\ work'[c].writes = Tail(writes) /\ work'[c].news = news
  BY SaveEffect DEF IdentityInv
<1>2. /\ store'[u] = user /\ \A x \in Key \ {u} : store'[x] = store[x]
      /\ u \notin raced' => \A x \in DOMAIN seen : seen[x] = store[x]
  BY Saved DEF IdentityInv
<1>3. \A s : Revokes(writes, s) => Revokes(Tail(writes), s)
  BY <1>1, UserIsNoRevocation, TailRevokes
<1>4. Registers(seen, news, u, user) \/ Changes(seen, writes, news, u, user)
  BY DEF SavesUser
<1>5. Sound(user) /\ Exists(user)
  BY SoundExists DEF SavesUser
<1>6. /\ \A v \in User \ {u} : store'[v] = store[v]
      /\ \A s \in Session : store'[s] = store[s]
      /\ \A ch \in Challenge : store'[ch] = store[ch]
  BY <1>2, IdentityKeys
<1>7. /\ \A s \in Session : \A d \in Call :
           Revokes(work[d].writes, s) => Revokes(work'[d].writes, s)
      /\ \A d \in Call : work'[d].news = work[d].news
  BY <1>1, <1>3 DEF OthersStay
<1>8. \A s \in Session : Exists(store[s]) => store[s].user \in User
  BY DEF IdentityInv, RecordsInv, Exists, SessionRecord
<1> HIDE DEF seen, writes, news
<1>9. RecordsInv'
  BY <1>2, <1>5, <1>6, <1>8 DEF IdentityInv, RecordsInv, Exists
<1>10. IdentitiesAreUnique'
  <2>1. SUFFICES ASSUME NEW v \in User, Exists(store'[v]), v # u, {u, v} \intersect raced' = {}
                 PROVE  /\ user.email = store[v].email => "deleted" \in {user.status, store[v].status}
                        /\ user.links \intersect store[v].links = {}
    <3>1. \A v, w \in {x \in User : Exists(store'[x])} :
            v # w /\ {v, w} \intersect raced' = {} =>
              /\ store'[v].email = store'[w].email =>
                   "deleted" \in {store'[v].status, store'[w].status}
              /\ store'[v].links \intersect store'[w].links = {}
      <4>1. SUFFICES ASSUME NEW v \in {x \in User : Exists(store'[x])},
                            NEW w \in {x \in User : Exists(store'[x])},
                            v # w, {v, w} \intersect raced' = {}
                     PROVE  /\ store'[v].email = store'[w].email =>
                                 "deleted" \in {store'[v].status, store'[w].status}
                            /\ store'[v].links \intersect store'[w].links = {}
        OBVIOUS
      <4>2. CASE v = u
        BY <1>2, <1>6, <2>1, <4>1, <4>2
      <4>3. CASE w = u
        BY <1>2, <1>6, <2>1, <4>1, <4>3
      <4>4. CASE v # u /\ w # u
        BY <1>1, <1>6, <4>1, <4>4 DEF IdentityInv, IdentitiesAreUnique
      <4>5. QED
        BY <4>2, <4>3, <4>4
    <3>2. QED
      BY <3>1 DEF IdentitiesAreUnique
  <2>2. store'[v] = store[v] /\ Exists(store[v]) /\ \A x \in DOMAIN seen : seen[x] = store[x]
    BY <1>2, <1>6, <2>1
  <2>3. CASE Registers(seen, news, u, user)
    BY <2>2, <2>3 DEF Registers, IsUser
  <2>4. CASE Changes(seen, writes, news, u, user)
    <3>1. /\ seen[u] = store[u] /\ Exists(store[u]) /\ store[u].status # "deleted"
          /\ user.email = store[u].email
      BY <2>2, <2>4 DEF Changes, IsUser
    <3>2. /\ store[u].email = store[v].email => "deleted" \in {store[u].status, store[v].status}
          /\ store[u].links \intersect store[v].links = {}
      BY <1>1, <2>1, <2>2, <3>1 DEF IdentityInv, IdentitiesAreUnique
    <3>3. user.links \intersect store[v].links = {}
      BY <2>1, <2>2, <2>4, <3>1, <3>2 DEF Changes
    <3>4. QED
      BY <3>1, <3>2, <3>3
  <2>5. QED
    BY <1>4, <2>3, <2>4
<1>11. SessionsInv'
  <2>1. SUFFICES ASSUME NEW s \in Session, Exists(store[s]), ~store[s].revoked,
                        {s, store[s].user} \intersect raced' = {}
                 PROVE  \/ /\ InGoodStanding(store'[store[s].user])
                           /\ store'[store[s].user].password = store[s].password
                        \/ \E d \in Call : Revokes(work'[d].writes, s)
    BY <1>6 DEF SessionsInv
  <2>2. store[s].user \in User
    BY <1>8, <2>1
  <2>3. \/ /\ InGoodStanding(store[store[s].user])
           /\ store[store[s].user].password = store[s].password
        \/ \E d \in Call : Revokes(work'[d].writes, s)
    BY <1>1, <1>7, <2>1 DEF IdentityInv, SessionsInv
  <2>4. CASE store[s].user # u
    BY <1>6, <2>2, <2>3, <2>4
  <2>5. CASE store[s].user = u
    <3>1. \A x \in DOMAIN seen : seen[x] = store[x]
      BY <1>2, <2>1, <2>5
    <3>2. Exists(store[u])
      BY <2>1, <2>5 DEF IdentityInv, RecordsInv
    <3>3. Changes(seen, writes, news, u, user)
      BY <1>4, <3>1, <3>2 DEF Registers
    <3>4. CASE Keeps(user, seen[u])
      BY <1>2, <2>3, <2>5, <3>1, <3>3, <3>4 DEF Keeps, Changes
    <3>5. CASE EndsSessions(seen, writes, u)
      <4>1. Revokes(writes, s)
        BY <2>1, <2>5, <3>1, <3>5 DEF EndsSessions
      <4>2. QED
        BY <1>1, <1>3, <4>1
    <3>6. QED
      BY <3>3, <3>4, <3>5 DEF Changes
  <2>6. QED
    BY <2>4, <2>5
<1>12. AnnouncedInv'
  <2>1. SUFFICES ASSUME NEW v \in User, v \notin raced', Exists(store'[v])
                 PROVE  \/ told[v] = store'[v].status
                        \/ \E d \in Call : v \in DOMAIN work[d].news /\ work[d].news[v] = store'[v].status
    BY <1>1, <1>7 DEF AnnouncedInv
  <2>2. CASE v # u
    BY <1>1, <1>6, <2>1, <2>2 DEF IdentityInv, AnnouncedInv
  <2>3. CASE v = u /\ u \in DOMAIN news
    BY <1>2, <2>3 DEF SavesUser, news
  <2>4. CASE v = u /\ u \notin DOMAIN news
    <3>1. \A x \in DOMAIN seen : seen[x] = store[x]
      BY <1>2, <2>1, <2>4
    <3>2. Changes(seen, writes, news, u, user)
      BY <1>4, <2>4 DEF Registers
    <3>3. seen[u] = store[u] /\ Exists(store[u]) /\ user.status = store[u].status
      BY <2>4, <3>1, <3>2 DEF Changes, IsUser
    <3>4. QED
      BY <1>1, <1>2, <2>1, <2>4, <3>3 DEF IdentityInv, AnnouncedInv
  <2>5. QED
    BY <2>2, <2>3, <2>4
<1>13. QED
  BY <1>9, <1>10, <1>11, <1>12

\* The save of anything else leaves the users as they are.
LEMMA OtherUserSaved ==
  ASSUME IdentityInv, NEW c \in Call, Save(c), NEW k \in Session \union Challenge, NEW v,
         work[c].writes \in Seq(Writes), work[c].writes[1] = k :> v
  PROVE  /\ IdentitiesAreUnique' /\ AnnouncedInv'
         /\ \A u \in User : store'[u] = store[u]
         /\ raced \subseteq raced'
<1>1. /\ OthersStay(c) /\ told' = told /\ raced \subseteq raced'
      /\ work'[c].news = work[c].news
  BY SaveEffect DEF IdentityInv
<1>2. \A u \in User : store'[u] = store[u]
  <2>1. \A x \in Key \ {k} : store'[x] = store[x]
    BY Saved DEF IdentityInv
  <2>2. QED
    BY <2>1, IdentityKeys
<1>3. \A d \in Call : work'[d].news = work[d].news
  BY <1>1 DEF OthersStay
<1>4. IdentitiesAreUnique'
  BY <1>1, <1>2 DEF IdentityInv, IdentitiesAreUnique
<1>5. AnnouncedInv'
  BY <1>1, <1>2, <1>3 DEF IdentityInv, AnnouncedInv
<1>6. QED
  BY <1>1, <1>2, <1>4, <1>5

\* The save of a session that is opened by itself.
LEMMA SessionOpened ==
  ASSUME IdentityInv, NEW c \in Call, Save(c), NEW u \in User, NEW s \in Session,
         work[c].writes = << s :> Opening(u, work[c].seen[u]) >>,
         u \in DOMAIN work[c].seen, Sound(work[c].seen[u]), InGoodStanding(work[c].seen[u]),
         Exists(store[u])
  PROVE  RecordsInv' /\ IdentitiesAreUnique' /\ SessionsInv' /\ AnnouncedInv'
<1> DEFINE opened == Opening(u, work[c].seen[u])
           seen == work[c].seen
<1>1. /\ opened \in SessionRecord /\ opened.user = u /\ opened.password = seen[u].password
      /\ ~opened.revoked
  BY DEF Opening, SessionRecord, UserRecord, Sound
<1>2. work[c].writes \in Seq(Writes) /\ work[c].writes[1] = s :> opened
      /\ Tail(work[c].writes) = <<>>
  <2>1. s :> opened \in Writes
    BY <1>1, WriteShapes
  <2>2. QED
    BY <2>1, OneWrite
<1>3. /\ store'[s] = opened /\ \A x \in Key \ {s} : store'[x] = store[x]
      /\ s \notin raced' => \A x \in DOMAIN seen : seen[x] = store[x]
  BY <1>2, Saved DEF IdentityInv
<1>4. /\ IdentitiesAreUnique' /\ AnnouncedInv'
      /\ \A x \in User : store'[x] = store[x]
      /\ raced \subseteq raced'
  BY <1>2, OtherUserSaved
<1> HIDE DEF opened, seen
<1>5. /\ \A x \in Session \ {s} : store'[x] = store[x]
      /\ \A ch \in Challenge : store'[ch] = store[ch]
  BY <1>3, IdentityKeys
<1>6. \A x \in Session : Exists(store[x]) => store[x].user \in User
  BY DEF IdentityInv, RecordsInv, Exists, SessionRecord
<1>7. RecordsInv'
  BY <1>1, <1>3, <1>4, <1>5, <1>6 DEF IdentityInv, RecordsInv
<1>8. SessionsInv'
  <2>1. SUFFICES ASSUME NEW x \in Session, Exists(store'[x]), ~store'[x].revoked,
                        {x, store'[x].user} \intersect raced' = {}
                 PROVE  \/ /\ InGoodStanding(store'[store'[x].user])
                           /\ store'[store'[x].user].password = store'[x].password
                        \/ \E d \in Call : Revokes(work'[d].writes, x)
    BY DEF SessionsInv
  <2>2. CASE x = s
    <3>1. seen[u] = store[u]
      BY <1>3, <2>1, <2>2 DEF seen
    <3>2. QED
      BY <1>1, <1>3, <1>4, <2>2, <3>1 DEF seen
  <2>3. CASE x # s
    <3>1. store'[x] = store[x] /\ store[x].user \in User
      BY <1>5, <1>6, <2>1, <2>3
    <3>2. store'[store[x].user] = store[store[x].user]
      BY <1>4, <3>1
    <3>3. \/ /\ InGoodStanding(store[store[x].user])
             /\ store[store[x].user].password = store[x].password
          \/ \E d \in Call : Revokes(work[d].writes, x)
      BY <1>4, <2>1, <3>1 DEF IdentityInv, SessionsInv
    <3>4. ASSUME NEW d \in Call, Revokes(work[d].writes, x)
          PROVE  Revokes(work'[d].writes, x)
      <4>1. CASE d # c
        BY <3>4, <4>1, SaveEffect DEF OthersStay, IdentityInv
      <4>2. CASE d = c
        <5>1. work[c].writes[1] = s :> opened /\ DOMAIN (s :> opened) = {s}
          BY <1>2, OneKey
        <5>2. work[c].writes # <<>> /\ work'[c].writes = Tail(work[c].writes)
          BY SaveEffect DEF IdentityInv
        <5>3. x \notin DOMAIN work[c].writes[1]
          BY <2>3, <5>1
        <5>4. QED
          BY <1>2, <3>4, <4>2, <5>2, <5>3, TailRevokes
      <4>3. QED
        BY <4>1, <4>2
    <3>5. QED
      BY <3>1, <3>2, <3>3, <3>4
  <2>4. QED
    BY <2>2, <2>3
<1>9. QED
  BY <1>4, <1>7, <1>8

\* The save of a session that ends or of a challenge.
LEMMA TrailSaved ==
  ASSUME IdentityInv, NEW c \in Call, Save(c), work[c].writes \in Seq(Writes),
         work[c].writes[1] \in Trailing
  PROVE  RecordsInv' /\ IdentitiesAreUnique' /\ SessionsInv' /\ AnnouncedInv'
<1>1. PICK k, v :
        /\ work[c].writes[1] = k :> v
        /\ \/ k \in Session /\ v \in SessionRecord /\ v.revoked
           \/ k \in Challenge /\ v \in ChallengeRecord
  BY TrailingShapes
<1>2. store'[k] = v /\ \A x \in Key \ {k} : store'[x] = store[x]
  BY <1>1, Saved DEF IdentityInv
<1>3. /\ IdentitiesAreUnique' /\ AnnouncedInv'
      /\ \A x \in User : store'[x] = store[x]
      /\ raced \subseteq raced'
  BY <1>1, OtherUserSaved
<1>4. /\ \A x \in Session \ {k} : store'[x] = store[x]
      /\ \A ch \in Challenge \ {k} : store'[ch] = store[ch]
  BY <1>2, IdentityKeys
<1>5. \A x \in Session : Exists(store[x]) => store[x].user \in User
  BY DEF IdentityInv, RecordsInv, Exists, SessionRecord
<1>6. RecordsInv'
  <2>1. \A x \in User : store'[x] = NoRecord \/ Sound(store'[x])
    BY <1>3 DEF IdentityInv, RecordsInv
  <2>2. \A x \in Session : store'[x] = NoRecord \/ store'[x] \in SessionRecord
    BY <1>1, <1>2, <1>4, IdentityKeys DEF IdentityInv, RecordsInv
  <2>3. \A x \in Challenge : store'[x] = NoRecord \/ store'[x] \in ChallengeRecord
    BY <1>1, <1>2, <1>4, IdentityKeys DEF IdentityInv, RecordsInv
  <2>4. \A x \in Session : Exists(store'[x]) /\ ~store'[x].revoked => Exists(store'[store'[x].user])
    BY <1>1, <1>2, <1>3, <1>4, <1>5, IdentityKeys DEF IdentityInv, RecordsInv
  <2>5. QED
    BY <2>1, <2>2, <2>3, <2>4 DEF RecordsInv
<1>7. SessionsInv'
  <2>1. SUFFICES ASSUME NEW x \in Session, Exists(store'[x]), ~store'[x].revoked,
                        {x, store'[x].user} \intersect raced' = {}
                 PROVE  \/ /\ InGoodStanding(store'[store'[x].user])
                           /\ store'[store'[x].user].password = store'[x].password
                        \/ \E d \in Call : Revokes(work'[d].writes, x)
    BY DEF SessionsInv
  <2>2. x # k
    BY <1>1, <1>2, <2>1, IdentityKeys
  <2>3. store'[x] = store[x] /\ store[x].user \in User
    BY <1>4, <1>5, <2>1, <2>2
  <2>4. store'[store[x].user] = store[store[x].user]
    BY <1>3, <2>3
  <2>5. \/ /\ InGoodStanding(store[store[x].user])
           /\ store[store[x].user].password = store[x].password
        \/ \E d \in Call : Revokes(work[d].writes, x)
    BY <1>3, <2>1, <2>3 DEF IdentityInv, SessionsInv
  <2>6. ASSUME NEW d \in Call, Revokes(work[d].writes, x)
        PROVE  Revokes(work'[d].writes, x)
    <3>1. CASE d # c
      BY <2>6, <3>1, SaveEffect DEF OthersStay, IdentityInv
    <3>2. CASE d = c
      <4>1. DOMAIN (k :> v) = {k}
        BY OneKey
      <4>2. work[c].writes # <<>> /\ work'[c].writes = Tail(work[c].writes)
        BY SaveEffect DEF IdentityInv
      <4>3. x \notin DOMAIN work[c].writes[1]
        BY <1>1, <2>2, <4>1
      <4>4. QED
        BY <2>6, <3>2, <4>2, <4>3, TailRevokes
    <3>3. QED
      BY <3>1, <3>2
  <2>7. QED
    BY <2>3, <2>4, <2>5, <2>6
<1>8. QED
  BY <1>3, <1>6, <1>7

\* What the call is at after a save.
LEMMA SaveGoesOn ==
  ASSUME IdentityInv, NEW c \in Call, Save(c)
  PROVE  UserStaged(work[c].seen, work[c].writes, work[c].news) /\ CallInv(c)'
<1> DEFINE seen == work[c].seen
           writes == work[c].writes
           news == work[c].news
<1>1. /\ writes # <<>> /\ work[c].todo = <<>> /\ work'[c].todo = <<>>
      /\ work'[c].writes = Tail(writes) /\ work'[c].news = news
  BY SaveEffect DEF IdentityInv
<1>2. UserStaged(seen, writes, news)
  BY <1>1 DEF IdentityInv, CallInv
<1>3. writes \in Seq(Writes)
  BY <1>2, StagedWrites
<1>4. SUFFICES \/ Trails(work'[c].seen, Tail(writes), news)
               \/ \E u \in User, s \in Session :
                    /\ Tail(writes) = << s :> Opening(u, work'[c].seen[u]) >>
                    /\ u \in DOMAIN work'[c].seen /\ Sound(work'[c].seen[u])
                    /\ InGoodStanding(work'[c].seen[u]) /\ Exists(store'[u])
                    /\ NewsSaid(work'[c].seen, news)
  BY <1>1, <1>2
     DEF CallInv, UserStaged, Opens, Trails, NewsSaid, Sound, InGoodStanding, Exists, Opening
<1>5. CASE UserFirst(seen, writes, news)
  <2>1. PICK u, user : writes[1] = u :> user /\ SavesUser(seen, writes, news, u, user)
    BY <1>5 DEF UserFirst
  <2>2. u \in DOMAIN work'[c].seen /\ work'[c].seen[u] = user
    BY <2>1, Saved DEF IdentityInv
  <2>3. \A v \in User : v \in DOMAIN news => v = u /\ news[v] = user.status
    BY <2>1 DEF SavesUser
  <2>4. Tail(writes) \in Seq(Trailing)
    BY <1>1, <1>3, <1>5, TailTrails DEF UserFirst
  <2> HIDE DEF news, writes
  <2>5. NewsSaid(work'[c].seen, news)
    BY <2>2, <2>3 DEF NewsSaid
  <2>6. QED
    BY <2>4, <2>5 DEF Trails
<1>6. CASE LogsIn(seen, writes, news)
  <2>1. PICK u, user : \E s \in Session :
          /\ writes = << u :> user, s :> Opening(u, user) >>
          /\ SavesUser(seen, writes, news, u, user) /\ InGoodStanding(user) /\ u \notin DOMAIN news
    BY <1>6 DEF LogsIn
  <2>2. PICK s \in Session :
          /\ writes = << u :> user, s :> Opening(u, user) >>
          /\ SavesUser(seen, writes, news, u, user) /\ InGoodStanding(user) /\ u \notin DOMAIN news
    BY <2>1
  <2>3. writes[1] = u :> user /\ Tail(writes) = << s :> Opening(u, user) >>
    BY <2>2, Tails
  <2>4. /\ u \in DOMAIN work'[c].seen /\ work'[c].seen[u] = user /\ store'[u] = user
    BY <2>3, Saved DEF IdentityInv
  <2>5. u \in User /\ Sound(user) /\ \A v \in User : v \notin DOMAIN news
    BY <2>2 DEF SavesUser
  <2>6. Exists(store'[u])
    BY <2>4, <2>5, SoundExists
  <2> HIDE DEF news, writes
  <2>7. NewsSaid(work'[c].seen, news)
    BY <2>5 DEF NewsSaid
  <2>8. QED
    BY <2>2, <2>3, <2>4, <2>5, <2>6, <2>7
<1>7. CASE Opens(seen, writes, news)
  <2>1. PICK u \in User, s \in Session :
          writes = << s :> Opening(u, seen[u]) >> /\ NewsSaid(seen, news)
    BY <1>7 DEF Opens
  <2>2. writes[1] = s :> Opening(u, seen[u]) /\ Tail(writes) = <<>>
    BY <2>1, Tails
  <2>3. /\ DOMAIN work'[c].seen = {s} \union DOMAIN seen
        /\ \A x \in DOMAIN seen \ {s} : work'[c].seen[x] = seen[x]
    BY <2>2, Saved DEF IdentityInv
  <2> HIDE DEF news, writes, seen
  <2>4. NewsSaid(work'[c].seen, news)
    BY <2>1, <2>3, IdentityKeys DEF NewsSaid
  <2>5. Tail(writes) \in Seq(Trailing)
    BY <2>2, EmptySeq
  <2>6. QED
    BY <2>4, <2>5 DEF Trails
<1>8. CASE Trails(seen, writes, news)
  <2>1. writes[1] \in Trailing /\ Tail(writes) \in Seq(Trailing)
    BY <1>1, <1>8, HeadTailProperties DEF Trails
  <2>2. PICK k, v : writes[1] = k :> v /\ k \in Session \union Challenge
    BY <2>1, TrailingShapes
  <2>3. /\ DOMAIN work'[c].seen = {k} \union DOMAIN seen
        /\ \A x \in DOMAIN seen \ {k} : work'[c].seen[x] = seen[x]
    BY <2>2, Saved DEF IdentityInv
  <2> HIDE DEF news, writes, seen
  <2>4. NewsSaid(work'[c].seen, news)
    BY <1>8, <2>2, <2>3, IdentityKeys DEF NewsSaid, Trails
  <2>5. QED
    BY <2>1, <2>4 DEF Trails
<1>9. QED
  BY <1>2, <1>5, <1>6, <1>7, <1>8 DEF UserStaged

-----------------------------------------------------------------------------
(***************************************************************************)
(* The invariant.                                                          *)
(***************************************************************************)
LEMMA SaveKeeps ==
  ASSUME IdentityInv, NEW c \in Call, Save(c)
  PROVE  IdentityInv'
<1> DEFINE seen == work[c].seen
           writes == work[c].writes
           news == work[c].news
<1>1. /\ CallsOK' /\ OthersStay(c) /\ told' = told /\ writes # <<>>
  BY SaveEffect DEF IdentityInv
<1>2. UserStaged(seen, writes, news) /\ CallInv(c)'
  BY SaveGoesOn
<1>3. writes \in Seq(Writes)
  BY <1>2, StagedWrites
<1>4. RecordsInv' /\ IdentitiesAreUnique' /\ SessionsInv' /\ AnnouncedInv'
  <2>1. CASE UserFirst(seen, writes, news)
    <3>1. PICK u, user : writes[1] = u :> user /\ SavesUser(seen, writes, news, u, user)
      BY <2>1 DEF UserFirst
    <3>2. u \in User
      BY <3>1 DEF SavesUser
    <3>3. QED
      BY <1>3, <3>1, <3>2, UserSaved
  <2>2. CASE LogsIn(seen, writes, news)
    <3>1. PICK u, user :
            /\ \E s \in Session : writes = << u :> user, s :> Opening(u, user) >>
            /\ SavesUser(seen, writes, news, u, user)
      BY <2>2 DEF LogsIn
    <3>2. u \in User
      BY <3>1 DEF SavesUser
    <3>3. writes[1] = u :> user
      BY <3>1, Tails
    <3>4. QED
      BY <1>3, <3>1, <3>2, <3>3, UserSaved
  <2>3. CASE Opens(seen, writes, news)
    <3>1. PICK u \in User, s \in Session :
            /\ writes = << s :> Opening(u, seen[u]) >>
            /\ u \in DOMAIN seen /\ Sound(seen[u]) /\ InGoodStanding(seen[u]) /\ Exists(store[u])
      BY <2>3 DEF Opens
    <3>2. QED
      BY <3>1, SessionOpened
  <2>4. CASE Trails(seen, writes, news)
    <3>1. writes[1] \in Trailing
      BY <1>1, <2>4, HeadTailProperties DEF Trails
    <3>2. QED
      BY <1>3, <3>1, TrailSaved
  <2>5. QED
    BY <1>2, <2>1, <2>2, <2>3, <2>4 DEF UserStaged
<1>5. \A u \in User : Exists(store[u]) => Exists(store'[u])
  <2>1. store' = writes[1] @@ store
    BY SaveEffect DEF IdentityInv
  <2>2. writes[1] \in Writes
    BY <1>1, <1>3, HeadTailProperties
  <2>3. ASSUME NEW u \in User, u \in DOMAIN writes[1] PROVE Exists(writes[1][u])
    <3>1. PICK v \in User, user \in UserRecord : writes[1] = v :> user
      <4>1. CASE writes[1] \in UserWrites
        BY <4>1 DEF UserWrites
      <4>2. CASE writes[1] \in SessionWrites
        <5>1. PICK s \in Session, session \in SessionRecord : writes[1] = s :> session
          BY <4>2 DEF SessionWrites
        <5>2. DOMAIN writes[1] = {s}
          BY <5>1, OneKey
        <5>3. QED
          BY <2>3, <5>2, IdentityKeys
      <4>3. CASE writes[1] \in Challenges
        <5>1. PICK ch \in Challenge, challenge \in ChallengeRecord : writes[1] = ch :> challenge
          BY <4>3 DEF Challenges
        <5>2. DOMAIN writes[1] = {ch}
          BY <5>1, OneKey
        <5>3. QED
          BY <2>3, <5>2, IdentityKeys
      <4>4. QED
        BY <2>2, <4>1, <4>2, <4>3 DEF Writes
    <3>2. DOMAIN writes[1] = {v} /\ writes[1][v] = user
      BY <3>1, OneKey
    <3>3. QED
      BY <2>3, <3>2, IdentityKeys DEF Exists
  <2>4. ASSUME NEW u \in User, Exists(store[u]) PROVE Exists(store'[u])
    <3>1. u \in DOMAIN store
      BY IdentityKeys DEF IdentityInv, CallsOK
    <3>2. store'[u] = IF u \in DOMAIN writes[1] THEN writes[1][u] ELSE store[u]
      BY <2>1, <3>1 DEF @@
    <3>3. QED
      BY <2>3, <2>4, <3>2
  <2>5. QED
    BY <2>4
<1>6. ASSUME NEW d \in Call PROVE CallInv(d)'
  <2>1. CASE d = c
    BY <1>2, <2>1
  <2>2. CASE d # c
    <3>1. work'[d] = work[d] /\ CallInv(d)
      BY <1>1, <2>2 DEF OthersStay, IdentityInv
    <3>2. QED
      BY <1>5, <3>1
         DEF CallInv, UserReading, UserStaged, UserFirst, LogsIn, Opens, Trails, NewsSaid, Sound,
             IsUser, Exists
  <2>3. QED
    BY <2>1, <2>2
<1>7. Key \subseteq DOMAIN told'
  BY <1>1 DEF IdentityInv
<1>8. QED
  BY <1>1, <1>4, <1>6, <1>7 DEF IdentityInv

LEMMA MoveKeeps ==
  ASSUME IdentityInv, NEW c \in Call, UserMoves(c)
  PROVE  IdentityInv'
<1>1. /\ CallsOK' /\ OthersStay(c) /\ store' = store /\ told' = told /\ raced' = raced
      /\ work[c].writes = <<>> /\ work[c].news = <<>> /\ CallInv(c)'
  BY DEF UserMoves
<1>2. RecordsInv' /\ IdentitiesAreUnique'
  BY <1>1 DEF IdentityInv, RecordsInv, IdentitiesAreUnique, Exists
<1>3. DOMAIN work[c].writes = {} /\ DOMAIN work[c].news = {}
  BY <1>1
<1>4. SessionsInv'
  BY <1>1, <1>3 DEF IdentityInv, SessionsInv, Revokes, OthersStay, Exists
<1>5. AnnouncedInv'
  BY <1>1, <1>3 DEF IdentityInv, AnnouncedInv, OthersStay, Exists
<1>6. ASSUME NEW d \in Call, d # c PROVE CallInv(d)'
  <2>1. work'[d] = work[d] /\ CallInv(d)
    BY <1>1, <1>6 DEF OthersStay, IdentityInv
  <2>2. QED
    BY <1>1, <2>1
       DEF CallInv, UserReading, UserStaged, UserFirst, LogsIn, Opens, Trails, NewsSaid, Sound,
           IsUser, Exists
<1>7. QED
  BY <1>1, <1>2, <1>4, <1>5, <1>6 DEF IdentityInv

LEMMA PublishKeeps ==
  ASSUME IdentityInv, NEW c \in Call, Publish(c)
  PROVE  IdentityInv'
<1> DEFINE news == work[c].news
           seen == work[c].seen
<1>1. /\ CallsOK' /\ OthersStay(c) /\ work'[c] = Idle
      /\ store' = store /\ told' = news @@ told /\ raced \subseteq raced'
      /\ work[c].todo = <<>> /\ work[c].writes = <<>>
  BY PublishEffect DEF IdentityInv
<1>2. RecordsInv' /\ IdentitiesAreUnique'
  BY <1>1 DEF IdentityInv, RecordsInv, IdentitiesAreUnique, Exists
<1>3. DOMAIN work[c].writes = {}
  BY <1>1
<1>4. SessionsInv'
  BY <1>1, <1>3 DEF IdentityInv, SessionsInv, Revokes, OthersStay, Exists
<1>5. NewsSaid(seen, news)
  <2>1. UserStaged(seen, <<>>, news)
    BY <1>1 DEF IdentityInv, CallInv
  <2>2. ~UserFirst(seen, <<>>, news)
    BY DEF UserFirst
  <2>3. ~LogsIn(seen, <<>>, news)
    BY Tails DEF LogsIn
  <2>4. ~Opens(seen, <<>>, news)
    BY Tails DEF Opens
  <2>5. QED
    BY <2>1, <2>2, <2>3, <2>4 DEF UserStaged, Trails
<1>6. \A k \in DOMAIN news : k \notin raced' /\ k \in DOMAIN seen => seen[k] = store[k]
  BY DEF Publish
<1>7. Key \subseteq DOMAIN told'
  BY <1>1 DEF IdentityInv, @@
<1>8. /\ \A u \in DOMAIN news : told'[u] = news[u]
      /\ \A u \in User : u \notin DOMAIN news => told'[u] = told[u]
  BY <1>1, IdentityKeys DEF IdentityInv, @@
<1> HIDE DEF news, seen
<1>9. AnnouncedInv'
  <2>1. SUFFICES ASSUME NEW u \in User, u \notin raced', Exists(store[u])
                 PROVE  \/ told'[u] = store[u].status
                        \/ \E d \in Call : u \in DOMAIN work'[d].news /\ work'[d].news[u] = store[u].status
    BY <1>1 DEF AnnouncedInv
  <2>2. CASE u \in DOMAIN news
    BY <1>5, <1>6, <1>8, <2>1, <2>2 DEF NewsSaid
  <2>3. CASE u \notin DOMAIN news
    BY <1>1, <1>8, <2>1, <2>3 DEF IdentityInv, AnnouncedInv, OthersStay, news
  <2>4. QED
    BY <2>2, <2>3
<1>10. CallInv(c)'
  <2>1. Idle.todo = <<>> /\ Idle.writes \in Seq(Trailing) /\ DOMAIN Idle.news = {}
    BY IdleCall, EmptySeq
  <2>2. QED
    BY <1>1, <2>1 DEF CallInv, UserStaged, Trails, NewsSaid
<1>11. ASSUME NEW d \in Call, d # c PROVE CallInv(d)'
  <2>1. work'[d] = work[d] /\ CallInv(d)
    BY <1>1, <1>11 DEF OthersStay, IdentityInv
  <2>2. QED
    BY <1>1, <2>1
       DEF CallInv, UserReading, UserStaged, UserFirst, LogsIn, Opens, Trails, NewsSaid, Sound,
           IsUser, Exists
<1>12. QED
  BY <1>1, <1>2, <1>4, <1>7, <1>9, <1>10, <1>11 DEF IdentityInv

LEMMA IdentityStarts ==
  ASSUME IdentityInit
  PROVE  IdentityInv
<1>1. DOMAIN work = Call /\ \A c \in Call : work[c] = Idle
  BY DEF IdentityInit
<1>2. /\ Idle.todo = <<>> /\ Idle.writes \in Seq(Trailing) /\ DOMAIN Idle.news = {}
      /\ IsCall(Idle)
  BY IdleCall, EmptySeq
<1>3. CallsOK
  BY <1>1, <1>2 DEF CallsOK, IdentityInit
<1>4. \A c \in Call : CallInv(c)
  BY <1>1, <1>2 DEF CallInv, UserStaged, Trails, NewsSaid
<1>5. /\ \A u \in DOMAIN Registered : store[u] = Registered[u] /\ told[u] = Registered[u].status
      /\ \A k \in Key : k \notin DOMAIN Registered => store[k] = NoRecord
      /\ DOMAIN told = Key
  BY IdentityKeys, IdentityAssumption DEF IdentityInit
<1>6. \A u \in DOMAIN Registered : u \in User /\ Sound(Registered[u])
  BY IdentityAssumption DEF Sound
<1>7. /\ \A s \in Session : store[s] = NoRecord
      /\ \A ch \in Challenge : store[ch] = NoRecord
  BY <1>5, <1>6, IdentityKeys
<1>8. RecordsInv
  BY <1>5, <1>6, <1>7, IdentityKeys DEF RecordsInv, Exists
<1>9. SessionsInv
  BY <1>7 DEF SessionsInv, Exists
<1>10. \A u \in User : Exists(store[u]) => u \in DOMAIN Registered
  BY <1>5, IdentityKeys DEF Exists
<1>11. IdentitiesAreUnique
  BY <1>5, <1>10, IdentityAssumption DEF IdentitiesAreUnique
<1>12. AnnouncedInv
  BY <1>5, <1>10 DEF AnnouncedInv
<1>13. QED
  BY <1>3, <1>4, <1>5, <1>8, <1>9, <1>11, <1>12 DEF IdentityInv

\* Every call is in one of the forms above, whatever the others have saved meanwhile, and
\* what is on file about a user goes with its sessions and with what has been announced.
THEOREM IdentityInvariant == IdentitySpec => []IdentityInv
<1>1. IdentityInit => IdentityInv
  BY IdentityStarts
<1>2. IdentityInv /\ [IdentityNext]_identityVars => IdentityInv'
  <2>1. SUFFICES ASSUME IdentityInv, [IdentityNext]_identityVars PROVE IdentityInv'
    OBVIOUS
  <2>2. CASE IdentityNext
    <3>1. PICK c \in Call : IdentityStep(c)
      BY <2>2 DEF IdentityNext
    <3>2. UserMoves(c) \/ Save(c) \/ Publish(c)
      BY <2>1, <3>1, StepMoves DEF IdentityInv
    <3>3. QED
      BY <2>1, <3>2, MoveKeeps, SaveKeeps, PublishKeeps
  <2>3. CASE UNCHANGED identityVars
    <3>1. store' = store /\ told' = told /\ work' = work /\ raced' = raced
      BY <2>3 DEF identityVars, serviceVars
    <3>2. CallsOK' /\ \A c \in Call : CallInv(c)'
      <4>1. CallsOK'
        BY <2>1, <3>1 DEF IdentityInv, CallsOK
      <4>2. ASSUME NEW c \in Call PROVE CallInv(c)'
        <5>1. CallInv(c)
          BY <2>1 DEF IdentityInv
        <5>2. work'[c] = work[c]
          BY <3>1
        <5>3. CASE work[c].todo # <<>>
          BY <5>1, <5>2, <5>3 DEF CallInv, UserReading, Sound, IsUser, Exists
        <5>4. CASE work[c].todo = <<>>
          <6>1. UserStaged(work[c].seen, work[c].writes, work[c].news)
            BY <5>1, <5>4 DEF CallInv
          <6>2. UserStaged(work[c].seen, work[c].writes, work[c].news)'
            BY <3>1, <5>2, <6>1 DEF UserStaged, UserFirst, LogsIn, Opens, Trails, NewsSaid, Exists
          <6>3. QED
            BY <5>2, <5>4, <6>2 DEF CallInv
        <5>5. QED
          BY <5>3, <5>4
      <4>3. QED
        BY <4>1, <4>2
    <3>3. RecordsInv' /\ IdentitiesAreUnique' /\ SessionsInv' /\ AnnouncedInv'
      BY <2>1, <3>1
         DEF IdentityInv, RecordsInv, IdentitiesAreUnique, SessionsInv, AnnouncedInv, Sound,
             Exists, InGoodStanding, Revokes
    <3>4. QED
      BY <2>1, <3>1, <3>2, <3>3 DEF IdentityInv
  <2>4. QED
    BY <2>1, <2>2, <2>3
<1>3. QED
  BY <1>1, <1>2, PTL DEF IdentitySpec

\* No two users share an address or an external identity, for any calls that overlap:
\* unless the later of them was saved past a change of the users, which the services do
\* not notice.
THEOREM IdentitiesAreUniqueAlways == IdentitySpec => []IdentitiesAreUnique
<1>1. IdentityInv => IdentitiesAreUnique
  BY DEF IdentityInv
<1>2. QED
  BY <1>1, IdentityInvariant, PTL

LEMMA RestingCalls ==
  ASSUME AtRest, NEW c \in Call
  PROVE  DOMAIN work[c].writes = {} /\ DOMAIN work[c].news = {}
<1>1. work[c].writes = <<>> /\ work[c].news = <<>>
  BY IdleIsFree DEF AtRest
<1>2. QED
  BY <1>1

\* Whatever calls there have been: when none runs, an active session belongs to a user in
\* good standing and was opened with the password on file, unless one of the two was
\* saved past another call.
THEOREM ActiveSessionsAreCurrentAlways == IdentitySpec => []ActiveSessionsAreCurrent
<1>1. ASSUME IdentityInv PROVE ActiveSessionsAreCurrent
  <2>1. SUFFICES ASSUME AtRest, NEW s \in Session, Exists(store[s]), ~store[s].revoked,
                        {s, store[s].user} \intersect raced = {}
                 PROVE  /\ store[store[s].user].status \in {"pending_verification", "active"}
                        /\ store[store[s].user].password = store[s].password
    BY DEF ActiveSessionsAreCurrent
  <2>2. \A c \in Call : ~Revokes(work[c].writes, s)
    BY <2>1, RestingCalls DEF Revokes
  <2>3. QED
    BY <1>1, <2>1, <2>2 DEF IdentityInv, SessionsInv, InGoodStanding
<1>2. QED
  BY <1>1, IdentityInvariant, PTL

\* Whatever calls there have been: when none runs, the last event about a user names the
\* status on file and too many failed logins have locked it, unless it was saved or
\* announced past another call.
THEOREM StandingIsAnnouncedAlways == IdentitySpec => []StandingIsAnnounced
<1>1. ASSUME IdentityInv PROVE StandingIsAnnounced
  <2>1. SUFFICES ASSUME AtRest, NEW u \in User \ raced, Exists(store[u])
                 PROVE  /\ told[u] = store[u].status
                        /\ store[u].failed >= MaxFailedLogins => store[u].locked
    BY DEF StandingIsAnnounced
  <2>2. \A c \in Call : u \notin DOMAIN work[c].news
    BY <2>1, RestingCalls
  <2>3. told[u] = store[u].status
    BY <1>1, <2>1, <2>2 DEF IdentityInv, AnnouncedInv
  <2>4. Sound(store[u])
    BY <1>1, <2>1 DEF IdentityInv, RecordsInv, Exists
  <2>5. QED
    BY <2>3, <2>4 DEF Sound
<1>2. QED
  BY <1>1, IdentityInvariant, PTL

-----------------------------------------------------------------------------
(***************************************************************************)
(* Records, and what a call knows.                                         *)
(***************************************************************************)
\* Whatever f holds of the repositories is as the repositories keep it.
Typed(f) ==
  /\ \A o \in Organization \intersect DOMAIN f : f[o] \in OrgRecord \union {NoRecord}
  /\ \A m \in Members \intersect DOMAIN f : f[m] \in MemberState \union {NoRecord}
  /\ \A i \in Invitation \intersect DOMAIN f : f[i] \in InvitationRecord \union {NoRecord}
  /\ \A k \in Permission \intersect DOMAIN f : f[k] \in PermissionRecord \union {NoRecord}
  /\ \A r \in RoleId \intersect DOMAIN f : f[r] \in RoleRecord \union {NoRecord}
  /\ \A a \in Assignment \intersect DOMAIN f : f[a] \in Grants \union {NoRecord}
  /\ \A x \in Scopes \intersect DOMAIN f : f[x] \in Assignment \union {NoRecord}

\* Records that are never taken away again.
Lasting == Organization \union Invitation

Known(seen, k) == k \in DOMAIN seen /\ Exists(seen[k])

Writing(writes, k) == \E n \in DOMAIN writes : k \in DOMAIN writes[n]

Pending(k, record) ==
  \E c \in Call : \E n \in DOMAIN work[c].writes : work[c].writes[n] = k :> record

AreRegistered(s, permissions) == \A k \in permissions : Exists(s[k])

-----------------------------------------------------------------------------
(***************************************************************************)
(* What a call is about to save.                                           *)
(***************************************************************************)
PlaceOf(grant, org) == grant.location = OrgWide \/ grant.location \in DOMAIN org.locations

\* A new organization comes with its owner; another one is as the call has read it,
\* except for one change.
SavesOrg(seen, writes, o, org) ==
  /\ \/ writes = << o :> org, Member(o, org.owner) :> "active" >> /\ ~Known(seen, o)
     \/ /\ writes = << o :> org >> /\ Known(seen, o) /\ IsOrg(seen[o])
        /\ DOMAIN seen[o].locations \subseteq DOMAIN org.locations
        /\ \/ org.owner = seen[o].owner
           \/ LET m == Member(o, org.owner) IN m \in DOMAIN seen /\ seen[m] = "active"
  /\ \/ org.slug = NoSlug
     \/ Known(seen, o) /\ org.slug = seen[o].slug
     \/ \A q \in Organization \ {o} :
          q \in DOMAIN seen /\ (IsOrg(seen[q]) => seen[q].slug # org.slug)

SavesMember(seen, o, p, state) ==
  \/ state \in {"active", "suspended"}
  \/ Known(seen, o) /\ seen[o].owner # p

SavesInvitation(seen, i) == Known(seen, i) => IsPending(seen[i])

SavesRole(s, op, r, role) ==
  /\ AreRegistered(s, role.permissions)
  /\ role.deleted => op = <<"deleteAssignments", r>>

SavesGrant(seen, a, grant) ==
  /\ \/ Known(seen, grant.role) /\ IsLive(seen[grant.role])
     \/ Known(seen, a) /\ seen[a].role = grant.role
  /\ \/ grant.location = OrgWide
     \/ Known(seen, grant.org) /\ PlaceOf(grant, seen[grant.org])
  /\ Scope(grant) \in DOMAIN seen
  /\ \A b \in Assignment \ {a} : seen[Scope(grant)] = b => b \in DOMAIN seen /\ ~Exists(seen[b])

PermissionWrites == {k :> record : k \in Permission, record \in PermissionRecord}

Removals == {a :> NoRecord : a \in Assignment}

Staged(s, op, seen, writes) ==
  \/ \E o \in Organization, org \in OrgRecord : SavesOrg(seen, writes, o, org)
  \/ \E o \in Organization, p \in Principal, state \in MemberState :
       writes = << Member(o, p) :> state >> /\ SavesMember(seen, o, p, state)
  \/ \E m \in Members, i \in Invitation, invitation \in InvitationRecord :
       /\ writes = << m :> "active", i :> invitation >>
       /\ Known(seen, i) /\ SavesInvitation(seen, i)
  \/ \E i \in Invitation, invitation \in InvitationRecord :
       writes = << i :> invitation >> /\ SavesInvitation(seen, i)
  \/ \E r \in RoleId, role \in RoleRecord :
       writes = << r :> role >> /\ SavesRole(s, op, r, role)
  \/ \E a \in Assignment, grant \in Grants :
       writes = << a :> grant >> /\ SavesGrant(seen, a, grant)
  \/ writes \in Seq(PermissionWrites)
  \/ writes \in Seq(Removals)

-----------------------------------------------------------------------------
(***************************************************************************)
(* What a call has read that is not at its last read, or at it.            *)
(***************************************************************************)
ReadsOrg(seen, o) == Known(seen, o) /\ IsOrg(seen[o])

Reading(s, call) ==
  LET op == call.op
      todo == call.todo
      seen == call.seen
  IN  /\ op[1] = "rename" => todo = << Organization \ {op[2]} >> /\ ReadsOrg(seen, op[2])
      /\ op[1] = "transfer" => todo = << {Member(op[2], op[3])} >> /\ ReadsOrg(seen, op[2])
      /\ op[1] \in {"left", "removed"} =>
           /\ todo = << {Member(op[2], op[3])} >>
           /\ ReadsOrg(seen, op[2]) /\ seen[op[2]].owner # op[3]
      /\ op[1] = "accept" =>
           /\ LET m == {Member(op[3], op[4])} IN todo \in {<< {op[3]}, m >>, << m >>}
           /\ Known(seen, op[2]) /\ IsPending(seen[op[2]])
      /\ op[1] = "createRole" => op[5] \subseteq Permission /\ AreRegistered(s, op[5])
      /\ op[1] = "updateRole" =>
           /\ todo = << op[3] >>
           /\ Known(seen, op[2]) /\ IsLive(seen[op[2]])
      /\ op[1] = "assign" =>
           LET grant == op[2]
               o == grant.org
               authorize == Asked(o, op[3]) \ {Member(o, grant.principal), grant.role}
               scope == Assignment \union {Scope(grant)}
           IN  /\ todo \in {<< {grant.role}, authorize, scope >>, << authorize, scope >>, << scope >>}
               /\ o \in DOMAIN seen /\ IsOpen(seen, o, grant.location)
               /\ todo # << {grant.role}, authorize, scope >> =>
                    Known(seen, grant.role) /\ IsLive(seen[grant.role])
      /\ op[1] = "bootstrap" =>
           LET grant == op[2]
               scope == Assignment \union {Scope(grant)}
               m == {Member(grant.org, grant.principal)}
               r == {grant.role}
           IN  /\ todo \in {<< scope, m, r, scope >>, << m, r, scope >>, << r, scope >>, << scope >>}
               /\ Known(seen, grant.role) /\ IsLive(seen[grant.role])
      /\ op[1] = "changeScope" =>
           LET a == op[2]
               grant == op[3]
               authorize == Asked(grant.org, op[4]) \ {a}
               scope == (Assignment \ {a}) \union {Scope(grant)}
           IN  /\ todo \in {<< authorize, {grant.org}, scope >>, << {grant.org}, scope >>, << scope >>}
               /\ Known(seen, a) /\ seen[a].role = grant.role
               /\ todo = << scope >> =>
                    grant.org \in DOMAIN seen /\ IsOpen(seen, grant.org, grant.location)

Fits(s, call) ==
  /\ Typed(call.seen)
  /\ IF call.todo # <<>>
       THEN Reading(s, call)
       ELSE Staged(s, call.op, call.seen, call.writes)

-----------------------------------------------------------------------------
(***************************************************************************)
(* The invariants.                                                         *)
(***************************************************************************)
\* An organization or an invitation that a call has read is there, and one that a call
\* creates is not there yet and is no other call's.
DraftsInv ==
  \A c \in Call : \A k \in Lasting :
    /\ Known(work[c].seen, k) => Exists(store[k])
    /\ Writing(work[c].writes, k) /\ ~Known(work[c].seen, k) =>
         ~Exists(store[k]) /\ \A d \in Call \ {c} : ~Writing(work[d].writes, k)

SlugsInv ==
  \A o, q \in Organization \ raced :
    IsOrg(store[o]) /\ IsOrg(store[q]) /\ o # q =>
      store[o].slug # store[q].slug \/ store[o].slug = NoSlug

\* The owner is a member, or its membership is about to be saved.
OwnersInv ==
  \A o \in Organization \ raced : IsOrg(store[o]) =>
    LET m == Member(o, store[o].owner)
    IN  m \in raced \/ store[m] \in {"active", "suspended"} \/ Pending(m, "active")

PlacesInv ==
  \A a \in Assignment : Exists(store[a]) /\ {a, store[a].org} \intersect raced = {} =>
    \/ store[a].location = OrgWide
    \/ Exists(store[store[a].org]) /\ PlaceOf(store[a], store[store[a].org])

IndexInv ==
  \A a \in Assignment : Exists(store[a]) /\ Scope(store[a]) \notin raced =>
    store[Scope(store[a])] = a

\* The assignments of a deleted role are yet to be listed, or about to be removed.
Ends(call, r) ==
  call # Idle /\ call.todo = <<>> /\ call.writes = <<>> /\ call.op = <<"deleteAssignments", r>>

Ending(r) == \E c \in Call : Ends(work[c], r)

RolesInv ==
  \A a \in Assignment : Exists(store[a]) /\ {a, store[a].role} \intersect raced = {} =>
    IsLive(store[store[a].role]) \/ Ending(store[a].role) \/ Pending(a, NoRecord)

AccessInv ==
  /\ CallsOK /\ Records(store)
  /\ \A c \in Call : Fits(store, work[c])
  /\ DraftsInv /\ SlugsInv /\ OwnersInv /\ PlacesInv /\ IndexInv /\ RolesInv

-----------------------------------------------------------------------------
(***************************************************************************)
(* Keys.                                                                   *)
(***************************************************************************)
LEMMA AccessKeys ==
  /\ Organization \subseteq Key /\ Invitation \subseteq Key /\ Members \subseteq Key
  /\ Permission \subseteq Key /\ RoleId \subseteq Key /\ Assignment \subseteq Key /\ Scopes \subseteq Key
  /\ \A o \in Organization : o \notin Invitation /\ o \notin Members
  /\ \A i \in Invitation : i \notin Members
  /\ \A k \in Permission \union RoleId \union Assignment \union Scopes :
       k \notin Organization /\ k \notin Invitation /\ k \notin Members
  /\ \A k \in Permission : k \notin RoleId /\ k \notin Assignment /\ k \notin Scopes
  /\ \A r \in RoleId : r \notin Assignment /\ r \notin Scopes
  /\ \A a \in Assignment : a \notin Scopes
BY TenancyAssumption, RbacAssumption

LEMMA NoRecords ==
  /\ NoRecord \notin OrgRecord /\ NoRecord \notin MemberState /\ NoRecord \notin InvitationRecord
  /\ NoRecord \notin PermissionRecord /\ NoRecord \notin RoleRecord /\ NoRecord \notin Grants
  /\ NoRecord \notin Assignment
BY TenancyAssumption, RbacAssumption

LEMMA MemberKeys ==
  /\ \A o \in Organization, p \in Principal : Member(o, p) \in Members
  /\ \A m \in Members : \E o \in Organization, p \in Principal : m = Member(o, p)
  /\ \A o, p, q, t : Member(o, p) = Member(q, t) => o = q /\ p = t
BY DEF Member, Members

LEMMA ScopeKeys ==
  /\ \A g \in Grants : Scope(g) \in Scopes
  /\ \A g, h \in Grants : Scope(g) = Scope(h) => g = h
<1>1. \A g \in Grants : Scope(g) \in Scopes
  BY DEF Scopes
<1>2. ASSUME NEW g \in Grants, NEW h \in Grants, Scope(g) = Scope(h) PROVE g = h
  BY <1>2 DEF Scope, Grants, Grant
<1>3. QED
  BY <1>1, <1>2

LEMMA GrantFields ==
  ASSUME NEW g \in Grants
  PROVE  /\ g.principal \in Principal /\ g.org \in Organization /\ g.role \in RoleId
         /\ g.location \in Location \union {OrgWide}
BY DEF Grants, Grant

-----------------------------------------------------------------------------
(***************************************************************************)
(* Answers.                                                                *)
(***************************************************************************)
LEMMA TypedMerged ==
  ASSUME NEW f, NEW g, Typed(f), Typed(g)
  PROVE  Typed(f @@ g)
<1>1. /\ DOMAIN (f @@ g) = DOMAIN f \union DOMAIN g
      /\ \A x \in DOMAIN f : (f @@ g)[x] = f[x]
      /\ \A x \in DOMAIN g : x \notin DOMAIN f => (f @@ g)[x] = g[x]
  BY Merged
<1> DEFINE h == f @@ g
<1> HIDE DEF h
<1>2. \A x \in DOMAIN h : (x \in DOMAIN f /\ h[x] = f[x]) \/ (x \in DOMAIN g /\ h[x] = g[x])
  BY <1>1 DEF h
<1>3. Typed(h)
  BY <1>2 DEF Typed
<1>4. QED
  BY <1>3 DEF h

LEMMA TypedAnswers ==
  ASSUME Records(store), NEW keys
  PROVE  Typed(Answers(keys))
BY DEF Records, Typed, Answers

LEMMA TypedStore ==
  ASSUME Key \subseteq DOMAIN store
  PROVE  Records(store) <=>
           /\ Typed(store)
           /\ \A r \in RoleId : Exists(store[r]) => AreRegistered(store, store[r].permissions)
BY AccessKeys DEF Records, Typed, AreRegistered

LEMMA SawTyped ==
  ASSUME Records(store), NEW c, Typed(work[c].seen), NEW reads
  PROVE  Typed(Saw(c, reads))
BY TypedAnswers, TypedMerged DEF Saw

\* An organization or an invitation that has been read is on file.
LEMMA SawKnown ==
  ASSUME DraftsInv, NEW c \in Call, NEW reads, NEW k \in Lasting, Known(Saw(c, reads), k)
  PROVE  Exists(store[k])
<1>1. CASE k \in reads[Len(reads)]
  BY <1>1, SawLast DEF Known
<1>2. CASE k \notin reads[Len(reads)]
  <2>1. Known(work[c].seen, k)
    BY <1>2 DEF Known, Saw, Answers, @@
  <2>2. QED
    BY <2>1 DEF DraftsInv
<1>3. QED
  BY <1>1, <1>2

-----------------------------------------------------------------------------
(***************************************************************************)
(* Steps that leave the repositories alone.                                *)
(***************************************************************************)
\* A call that has staged nothing, or has nothing left of it to save.
IsFree(c) == IsIdle(c) \/ work[c].todo # <<>>

\* What a call creates is no other call's.
Drafts(c, seen, writes) ==
  \A k \in Lasting : Writing(writes, k) /\ ~Known(seen, k) =>
    ~Exists(store[k]) /\ \A d \in Call \ {c} : ~Writing(work[d].writes, k)

Removes(writes, r) ==
  \A a \in Assignment : Exists(store[a]) /\ store[a].role = r =>
    \E n \in DOMAIN writes : writes[n] = a :> NoRecord

Moves(c) ==
  /\ CallsOK' /\ OthersStay(c) /\ store' = store /\ raced \subseteq raced'
  /\ work[c].writes = <<>>
  /\ Fits(store, work'[c])
  /\ \A k \in Lasting : Known(work'[c].seen, k) => Exists(store[k])
  /\ Drafts(c, work'[c].seen, work'[c].writes)
  /\ \A r : Ends(work[c], r) => Removes(work'[c].writes, r)

LEMMA FreeCalls ==
  ASSUME CallsOK, NEW c \in Call, IsFree(c)
  PROVE  work[c].writes = <<>> /\ \A r : ~Ends(work[c], r)
<1>1. CASE IsIdle(c)
  BY <1>1, IdleCall DEF IsIdle, Ends
<1>2. CASE work[c].todo # <<>>
  BY <1>2 DEF CallsOK, IsCall, Ends
<1>3. QED
  BY <1>1, <1>2 DEF IsFree

LEMMA FreshDrafts ==
  ASSUME NEW c \in Call, NEW k \in Fresh(Lasting)
  PROVE  ~Exists(store[k]) /\ \A d \in Call : ~Writing(work[d].writes, k)
BY DEF Fresh, Writing, Seqs!ToSet

LEMMA WritingOne ==
  ASSUME NEW k, NEW v
  PROVE  \A x : Writing(<< k :> v >>, x) <=> x = k
<1>1. DOMAIN << k :> v >> = {1} /\ << k :> v >>[1] = k :> v
  OBVIOUS
<1>2. DOMAIN (k :> v) = {k}
  BY OneKey
<1>3. QED
  BY <1>1, <1>2 DEF Writing

LEMMA WritingTwo ==
  ASSUME NEW k, NEW v, NEW l, NEW w
  PROVE  \A x : Writing(<< k :> v, l :> w >>, x) <=> x \in {k, l}
<1>1. /\ DOMAIN << k :> v, l :> w >> = {1, 2} /\ << k :> v, l :> w >>[1] = k :> v
      /\ << k :> v, l :> w >>[2] = l :> w
  OBVIOUS
<1>2. DOMAIN (k :> v) = {k} /\ DOMAIN (l :> w) = {l}
  BY OneKey
<1>3. QED
  BY <1>1, <1>2 DEF Writing

\* A call stages what is fit to be saved; what it creates has a fresh id.
LEMMA StageForMoves ==
  ASSUME CallsOK, Records(store), DraftsInv, NEW c \in Call, Fits(store, work[c]), IsFree(c),
         NEW next, NEW reads, NEW writes, NEW news, StageFor(c, next, reads, writes, news),
         Staged(store, next, Saw(c, reads), writes),
         \A k \in Lasting : Writing(writes, k) => Known(Saw(c, reads), k) \/ k \in Fresh(Lasting)
  PROVE  Moves(c)
<1>1. /\ CallsOK' /\ OthersStay(c) /\ store' = store /\ raced' = raced
      /\ work'[c].op = next /\ work'[c].todo = <<>> /\ work'[c].seen = Saw(c, reads)
      /\ work'[c].writes = writes
  BY StageForEffect
<1>2. Typed(Saw(c, reads))
  BY SawTyped DEF Fits
<1>3. Fits(store, work'[c])
  BY <1>1, <1>2 DEF Fits
<1>4. \A k \in Lasting : Known(Saw(c, reads), k) => Exists(store[k])
  BY SawKnown
<1>5. Drafts(c, Saw(c, reads), writes)
  BY FreshDrafts DEF Drafts
<1>6. QED
  BY <1>1, <1>3, <1>4, <1>5, FreeCalls DEF Moves

LEMMA StageMoves ==
  ASSUME CallsOK, Records(store), DraftsInv, NEW c \in Call, Fits(store, work[c]), IsFree(c),
         NEW reads, NEW writes, NEW news, Stage(c, reads, writes, news),
         Staged(store, <<"commit">>, Saw(c, reads), writes),
         \A k \in Lasting : Writing(writes, k) => Known(Saw(c, reads), k) \/ k \in Fresh(Lasting)
  PROVE  Moves(c)
BY StageForMoves DEF Stage

\* A call reads on.
LEMMA ReadMoves ==
  ASSUME CallsOK, Records(store), DraftsInv, NEW c \in Call, Fits(store, work[c]),
         NEW op, NEW reads \in Seq(SUBSET Key), Read(c, op, reads), Reading(store, work'[c])
  PROVE  Moves(c)
<1>1. /\ CallsOK' /\ OthersStay(c) /\ store' = store /\ raced' = raced
      /\ work'[c].todo # <<>> /\ work'[c].writes = <<>>
  BY ReadEffect
<1>2. IsFree(c)
  <2>1. CASE IsIdle(c)
    BY <2>1 DEF IsFree
  <2>2. CASE Len(work[c].todo) > 1
    BY <2>2, NotEmpty DEF IsFree, CallsOK, IsCall
  <2>3. QED
    BY <2>1, <2>2 DEF Read
<1>3. \/ work'[c].seen = Answers(reads[1])
      \/ work'[c].seen = Answers(work[c].todo[1]) @@ work[c].seen
  BY ReadAnswers
<1>4. Typed(work'[c].seen)
  BY <1>3, TypedAnswers, TypedMerged DEF Fits
<1>5. \A k \in Lasting : Known(work'[c].seen, k) => Exists(store[k])
  <2>1. CASE work'[c].seen = Answers(reads[1])
    BY <2>1 DEF Known, Answers
  <2>2. CASE work'[c].seen = Answers(work[c].todo[1]) @@ work[c].seen
    BY <2>2 DEF Known, Answers, @@, DraftsInv
  <2>3. QED
    BY <1>3, <2>1, <2>2
<1>6. Drafts(c, work'[c].seen, work'[c].writes)
  BY <1>1 DEF Drafts, Writing
<1>7. Fits(store, work'[c])
  BY <1>1, <1>4 DEF Fits
<1>8. QED
  BY <1>1, <1>2, <1>5, <1>6, <1>7, FreeCalls DEF Moves

LEMMA IdleFits ==
  ASSUME NEW s
  PROVE  Fits(s, Idle)
<1>1. <<>> \in Seq(Removals)
  OBVIOUS
<1>2. Typed(<<>>)
  BY DEF Typed
<1>3. QED
  BY <1>1, <1>2, IdleCall DEF Fits, Staged

LEMMA GiveUpMoves ==
  ASSUME CallsOK, NEW c \in Call, GiveUp(c)
  PROVE  Moves(c)
<1>1. /\ CallsOK' /\ OthersStay(c) /\ work'[c] = Idle /\ store' = store /\ raced' = raced
      /\ work[c].writes = <<>> /\ work[c].todo # <<>>
  BY GiveUpEffect DEF GiveUp
<1>2. Drafts(c, Idle.seen, Idle.writes) /\ \A k : ~Known(Idle.seen, k)
  BY IdleCall DEF Drafts, Known, Writing
<1>3. QED
  BY <1>1, <1>2, IdleFits DEF Moves, Ends

\* Such a step keeps what holds of the repositories.
LEMMA MovesKeep ==
  ASSUME AccessInv, NEW c \in Call, Moves(c)
  PROVE  AccessInv'
<1>1. /\ CallsOK' /\ OthersStay(c) /\ store' = store /\ raced \subseteq raced' /\ work[c].writes = <<>>
  BY DEF Moves
<1>2. Records(store)'
  BY <1>1 DEF AccessInv
<1>3. \A d \in Call : Fits(store', work'[d])
  BY <1>1 DEF Moves, AccessInv, OthersStay
<1>4. DraftsInv'
  <2>1. \A d \in Call \ {c} : work'[d] = work[d]
    BY <1>1 DEF OthersStay
  <2>2. SUFFICES ASSUME NEW d \in Call, NEW k \in Lasting
                 PROVE  /\ Known(work'[d].seen, k) => Exists(store[k])
                        /\ Writing(work'[d].writes, k) /\ ~Known(work'[d].seen, k) =>
                             ~Exists(store[k]) /\ \A e \in Call \ {d} : ~Writing(work'[e].writes, k)
    BY <1>1 DEF DraftsInv
  <2>3. CASE d = c
    BY <2>1, <2>3 DEF Moves, Drafts
  <2>4. CASE d # c
    <3>1. Known(work'[d].seen, k) => Exists(store[k])
      BY <2>1, <2>4 DEF AccessInv, DraftsInv
    <3>2. ASSUME Writing(work'[d].writes, k), ~Known(work'[d].seen, k)
          PROVE  ~Exists(store[k]) /\ \A e \in Call \ {d} : ~Writing(work'[e].writes, k)
      <4>1. work'[d] = work[d]
        BY <2>1, <2>4
      <4>2. ~Exists(store[k]) /\ \A e \in Call \ {d} : ~Writing(work[e].writes, k)
        BY <3>2, <4>1 DEF AccessInv, DraftsInv
      <4>3. ~Writing(work'[c].writes, k)
        BY <2>4, <3>2, <4>1, <4>2 DEF Moves, Drafts
      <4>4. QED
        BY <2>1, <4>2, <4>3
    <3>3. QED
      BY <3>1, <3>2
  <2>5. QED
    BY <2>3, <2>4
<1>5. \A k, record : Pending(k, record) => Pending(k, record)'
  BY <1>1 DEF Pending, OthersStay
<1>6. SlugsInv' /\ PlacesInv' /\ IndexInv'
  BY <1>1 DEF AccessInv, SlugsInv, PlacesInv, IndexInv
<1>7. OwnersInv'
  BY <1>1, <1>5 DEF AccessInv, OwnersInv
<1>8. RolesInv'
  <2>1. SUFFICES ASSUME NEW a \in Assignment, Exists(store[a]),
                        {a, store[a].role} \intersect raced' = {}
                 PROVE  IsLive(store[store[a].role]) \/ Ending(store[a].role)' \/ Pending(a, NoRecord)'
    BY <1>1 DEF RolesInv
  <2>2. CASE IsLive(store[store[a].role]) \/ Pending(a, NoRecord)
    BY <1>5, <2>2
  <2>3. CASE Ending(store[a].role)
    <3>1. PICK d \in Call : Ends(work[d], store[a].role)
      BY <2>3 DEF Ending
    <3>2. CASE d = c
      BY <2>1, <3>1, <3>2 DEF Moves, Removes, Pending
    <3>3. CASE d # c
      <4>1. work'[d] = work[d]
        BY <1>1, <3>3 DEF OthersStay
      <4>2. Ends(work'[d], store[a].role)
        BY <3>1, <4>1
      <4>3. Ending(store[a].role)'
        BY <1>1, <4>2 DEF Ending
      <4>4. QED
        BY <4>3
    <3>4. QED
      BY <3>2, <3>3
  <2>4. QED
    BY <1>1, <2>1, <2>2, <2>3 DEF AccessInv, RolesInv
<1>9. QED
  BY <1>1, <1>2, <1>3, <1>4, <1>6, <1>7, <1>8 DEF AccessInv

-----------------------------------------------------------------------------
(***************************************************************************)
(* Steps that save.                                                        *)
(***************************************************************************)
Unstale(c) == \A k \in DOMAIN work[c].seen : work[c].seen[k] = store[k]

Wrote(c, saved) ==
  /\ CallsOK' /\ OthersStay(c) /\ raced \subseteq raced' /\ store' = saved @@ store
  /\ \A k \in DOMAIN saved : k \notin raced' => Unstale(c)
  /\ work[c].todo = <<>> /\ work[c].writes # <<>>
  /\ work'[c].op = work[c].op /\ work'[c].todo = <<>>
  /\ work'[c].writes = Tail(work[c].writes) /\ work'[c].seen = saved @@ work[c].seen

LEMMA SaveWrote ==
  ASSUME CallsOK, NEW c \in Call, Save(c)
  PROVE  Wrote(c, work[c].writes[1])
BY SaveEffect DEF Wrote, Unstale

LEMMA StagedList ==
  ASSUME NEW s, NEW op, NEW seen, NEW writes, Staged(s, op, seen, writes)
  PROVE  \E S : writes \in Seq(S)
<1>1. ASSUME NEW a, writes = << a >> PROVE \E S : writes \in Seq(S)
  <2>1. << a >> \in Seq({a})
    OBVIOUS
  <2>2. QED
    BY <1>1, <2>1
<1>2. ASSUME NEW a, NEW b, writes = << a, b >> PROVE \E S : writes \in Seq(S)
  <2>1. << a, b >> \in Seq({a, b})
    OBVIOUS
  <2>2. QED
    BY <1>2, <2>1
<1>3. CASE \E o \in Organization, org \in OrgRecord : SavesOrg(seen, writes, o, org)
  <2>1. PICK o, org : \/ writes = << o :> org, Member(o, org.owner) :> "active" >>
                     \/ writes = << o :> org >>
    BY <1>3 DEF SavesOrg
  <2>2. QED
    BY <1>1, <1>2, <2>1
<1>4. CASE \E m \in Members, i \in Invitation, invitation \in InvitationRecord :
             writes = << m :> "active", i :> invitation >>
  <2>1. PICK m, i, invitation : writes = << m :> "active", i :> invitation >>
    BY <1>4
  <2>2. QED
    BY <1>2, <2>1
<1>5. CASE \E k, record : writes = << k :> record >>
  <2>1. PICK k, record : writes = << k :> record >>
    BY <1>5
  <2>2. QED
    BY <1>1, <2>1
<1>6. CASE writes \in Seq(PermissionWrites) \/ writes \in Seq(Removals)
  BY <1>6
<1>7. QED
  BY <1>3, <1>4, <1>5, <1>6 DEF Staged

LEMMA TailParts ==
  ASSUME NEW writes, writes # <<>>, \E S : writes \in Seq(S)
  PROVE  /\ \A n \in DOMAIN Tail(writes) : \E i \in DOMAIN writes : Tail(writes)[n] = writes[i]
         /\ \A i \in DOMAIN writes :
              i = 1 \/ \E n \in DOMAIN Tail(writes) : Tail(writes)[n] = writes[i]
         /\ 1 \in DOMAIN writes
<1>1. PICK S : writes \in Seq(S)
  OBVIOUS
<1>2. Len(writes) \in Nat /\ DOMAIN writes = 1 .. Len(writes) /\ Len(writes) # 0
  BY <1>1, LenProperties, EmptySeq
<1>3. /\ DOMAIN Tail(writes) = 1 .. Len(writes) - 1
      /\ \A n \in 1 .. Len(writes) - 1 : Tail(writes)[n] = writes[n + 1]
  BY <1>1, <1>2
<1>4. ASSUME NEW i \in DOMAIN writes, i # 1
      PROVE  \E n \in DOMAIN Tail(writes) : Tail(writes)[n] = writes[i]
  <2>1. i - 1 \in 1 .. Len(writes) - 1 /\ (i - 1) + 1 = i
    BY <1>2, <1>4
  <2>2. QED
    BY <1>3, <2>1
<1>5. \A n \in DOMAIN Tail(writes) : \E i \in DOMAIN writes : Tail(writes)[n] = writes[i]
  BY <1>2, <1>3
<1>6. QED
  BY <1>2, <1>4, <1>5

\* What a call that saves still has to save.
LEMMA WroteRest ==
  ASSUME NEW c \in Call, Fits(store, work[c]), NEW saved, Wrote(c, saved)
  PROVE  /\ \A k : Writing(work'[c].writes, k) => Writing(work[c].writes, k)
         /\ \A k : Writing(work[c].writes, k) =>
              Writing(work'[c].writes, k) \/ k \in DOMAIN work[c].writes[1]
         /\ \A k \in DOMAIN work[c].writes[1] : Writing(work[c].writes, k)
         /\ \A k, record : Pending(k, record) =>
              Pending(k, record)' \/ work[c].writes[1] = k :> record
<1>1. work'[c].writes = Tail(work[c].writes) /\ work[c].writes # <<>> /\ work[c].todo = <<>>
  BY DEF Wrote
<1>2. \E S : work[c].writes \in Seq(S)
  BY <1>1, StagedList DEF Fits
<1> DEFINE writes == work[c].writes
           rest == Tail(writes)
<1>3. /\ \A n \in DOMAIN rest : \E i \in DOMAIN writes : rest[n] = writes[i]
      /\ \A i \in DOMAIN writes : i = 1 \/ \E n \in DOMAIN rest : rest[n] = writes[i]
      /\ 1 \in DOMAIN writes
  BY <1>1, <1>2, TailParts
<1> HIDE DEF rest
<1>4. work'[c].writes = rest
  BY <1>1 DEF rest
<1>5. ASSUME NEW k, NEW record, Pending(k, record), writes[1] # k :> record
      PROVE  Pending(k, record)'
  <2>1. PICK d \in Call : \E n \in DOMAIN work[d].writes : work[d].writes[n] = k :> record
    BY <1>5 DEF Pending
  <2>2. CASE d = c
    BY <1>3, <1>4, <1>5, <2>1, <2>2 DEF Pending
  <2>3. CASE d # c
    BY <2>1, <2>3 DEF Wrote, OthersStay, Pending
  <2>4. QED
    BY <2>2, <2>3
<1>6. QED
  BY <1>3, <1>4, <1>5 DEF Writing

\* What is about to be saved stays fit: a registered permission stays registered.
LEMMA FitsLast ==
  ASSUME NEW s, NEW t, NEW call, Fits(s, call),
         \A k \in Permission : Exists(s[k]) => Exists(t[k])
  PROVE  Fits(t, call)
<1>1. \A permissions : permissions \subseteq Permission /\ AreRegistered(s, permissions) =>
        AreRegistered(t, permissions)
  BY DEF AreRegistered
<1>2. ASSUME Reading(s, call) PROVE Reading(t, call)
  BY <1>1, <1>2 DEF Reading
<1>3. \A r, role : role \in RoleRecord /\ SavesRole(s, call.op, r, role) =>
        SavesRole(t, call.op, r, role)
  BY <1>1 DEF SavesRole, RoleRecord
<1>4. ASSUME Staged(s, call.op, call.seen, call.writes)
      PROVE  Staged(t, call.op, call.seen, call.writes)
  BY <1>3, <1>4 DEF Staged
<1>5. QED
  BY <1>2, <1>4 DEF Fits

\* A save that fits keeps the records and the drafts.
LEMMA WroteKeeps ==
  ASSUME AccessInv, NEW c \in Call, NEW saved, Wrote(c, saved), Typed(saved),
         DOMAIN work[c].writes[1] \subseteq DOMAIN saved,
         \A k \in DOMAIN saved : k \in Lasting \union Permission =>
           Exists(saved[k]) /\ k \in DOMAIN work[c].writes[1],
         \A r \in DOMAIN saved : r \in RoleId /\ Exists(saved[r]) =>
           saved[r].permissions \subseteq Permission /\ AreRegistered(store, saved[r].permissions),
         Staged(store', work[c].op, work'[c].seen, work'[c].writes)
  PROVE  CallsOK' /\ Records(store)' /\ DraftsInv' /\ \A d \in Call : Fits(store', work'[d])
<1>1. /\ CallsOK' /\ store' = saved @@ store
      /\ work'[c].op = work[c].op /\ work'[c].todo = <<>> /\ work'[c].seen = saved @@ work[c].seen
      /\ \A d \in Call \ {c} : work'[d] = work[d]
  BY DEF Wrote, OthersStay
<1>2. /\ Key \subseteq DOMAIN store
      /\ \A k \in DOMAIN saved : store'[k] = saved[k]
      /\ \A k \in Key : k \notin DOMAIN saved => store'[k] = store[k]
  <2>1. /\ DOMAIN (saved @@ store) = DOMAIN saved \union DOMAIN store
        /\ \A k \in DOMAIN saved : (saved @@ store)[k] = saved[k]
        /\ \A k \in DOMAIN store : k \notin DOMAIN saved => (saved @@ store)[k] = store[k]
    BY Merged
  <2>2. Key \subseteq DOMAIN store
    BY DEF AccessInv, CallsOK
  <2>3. QED
    BY <1>1, <2>1, <2>2
<1>3. \A k \in Lasting \union Permission : Exists(store[k]) => Exists(store'[k])
  BY <1>2, AccessKeys DEF Lasting
<1>4. Records(store)'
  <2>1. Typed(store)
    BY <1>2, TypedStore DEF AccessInv
  <2>2. Typed(store')
    BY <1>1, <2>1, TypedMerged
  <2>3. ASSUME NEW r \in RoleId, Exists(store'[r])
        PROVE  store'[r].permissions \subseteq Permission /\ AreRegistered(store, store'[r].permissions)
    <3>1. CASE r \in DOMAIN saved
      BY <1>2, <2>3, <3>1
    <3>2. CASE r \notin DOMAIN saved
      <4>1. store'[r] = store[r]
        BY <1>2, <3>2, AccessKeys
      <4>2. store[r] \in RoleRecord
        BY <2>3, <4>1 DEF AccessInv, Records, Exists
      <4>3. AreRegistered(store, store[r].permissions)
        BY <2>3, <4>1, <1>2, TypedStore DEF AccessInv
      <4>4. QED
        BY <4>1, <4>2, <4>3 DEF RoleRecord
    <3>3. QED
      BY <3>1, <3>2
  <2>4. \A r \in RoleId : Exists(store'[r]) => AreRegistered(store', store'[r].permissions)
    BY <1>3, <2>3 DEF AreRegistered
  <2>5. Key \subseteq DOMAIN store'
    BY <1>1 DEF CallsOK
  <2>6. QED
    BY <2>2, <2>4, <2>5, AccessKeys DEF Records, Typed, AreRegistered
<1>5. \A d \in Call : Fits(store', work'[d])
  <2>1. Typed(work'[c].seen)
    BY <1>1, TypedMerged DEF AccessInv, Fits
  <2>2. Fits(store', work'[c])
    BY <1>1, <2>1 DEF Fits
  <2>3. ASSUME NEW d \in Call \ {c} PROVE Fits(store', work'[d])
    BY <1>1, <1>3, FitsLast DEF AccessInv
  <2>4. QED
    BY <2>2, <2>3
<1>6. DraftsInv'
  <2>1. /\ \A k : Writing(work'[c].writes, k) => Writing(work[c].writes, k)
        /\ \A k \in DOMAIN work[c].writes[1] : Writing(work[c].writes, k)
    BY WroteRest DEF AccessInv
  <2>2. SUFFICES ASSUME NEW d \in Call, NEW k \in Lasting
                 PROVE  /\ Known(work'[d].seen, k) => Exists(store'[k])
                        /\ Writing(work'[d].writes, k) /\ ~Known(work'[d].seen, k) =>
                             ~Exists(store'[k]) /\ \A e \in Call \ {d} : ~Writing(work'[e].writes, k)
    BY DEF DraftsInv
  <2>3. /\ Known(work[d].seen, k) => Exists(store[k])
        /\ Writing(work[d].writes, k) /\ ~Known(work[d].seen, k) =>
             ~Exists(store[k]) /\ \A e \in Call \ {d} : ~Writing(work[e].writes, k)
    BY DEF AccessInv, DraftsInv
  <2>4. Writing(work'[d].writes, k) => Writing(work[d].writes, k)
    BY <1>1, <2>1
  <2>5. \A e \in Call : Writing(work'[e].writes, k) => Writing(work[e].writes, k)
    BY <1>1, <2>1
  <2>6. k \in DOMAIN saved => Exists(store'[k]) /\ Writing(work[c].writes, k)
    BY <1>2, <2>1
  <2>7. k \notin DOMAIN saved => store'[k] = store[k]
    BY <1>2, AccessKeys DEF Lasting
  <2>8. CASE d = c
    <3>1. k \in DOMAIN saved => Known(work'[c].seen, k)
      BY <1>1, <2>6 DEF Known, @@
    <3>2. k \notin DOMAIN saved => (Known(work'[c].seen, k) <=> Known(work[c].seen, k))
      BY <1>1 DEF Known, @@
    <3>3. QED
      BY <2>3, <2>4, <2>5, <2>6, <2>7, <2>8, <3>1, <3>2
  <2>9. CASE d # c
    <3>1. work'[d] = work[d]
      BY <1>1, <2>9
    <3>2. QED
      BY <2>3, <2>4, <2>5, <2>6, <2>7, <2>9, <3>1
  <2>10. QED
    BY <2>8, <2>9
<1>7. QED
  BY <1>1, <1>4, <1>5, <1>6

LEMMA WroteStore ==
  ASSUME CallsOK, NEW c, NEW saved, Wrote(c, saved)
  PROVE  /\ \A k \in DOMAIN saved : store'[k] = saved[k]
         /\ \A k \in Key : k \notin DOMAIN saved => store'[k] = store[k]
         /\ raced \subseteq raced'
<1>1. /\ DOMAIN (saved @@ store) = DOMAIN saved \union DOMAIN store
      /\ \A k \in DOMAIN saved : (saved @@ store)[k] = saved[k]
      /\ \A k \in DOMAIN store : k \notin DOMAIN saved => (saved @@ store)[k] = store[k]
  BY Merged
<1>2. QED
  BY <1>1 DEF Wrote, CallsOK

\* What a save has no part in stays as it was.
LEMMA SlugsFrame ==
  ASSUME AccessInv, NEW c \in Call, NEW saved, Wrote(c, saved),
         DOMAIN saved \intersect Organization = {}
  PROVE  SlugsInv'
<1>1. \A o \in Organization : store'[o] = store[o]
  BY WroteStore, AccessKeys DEF AccessInv
<1>2. raced \subseteq raced'
  BY DEF Wrote
<1>3. QED
  BY <1>1, <1>2 DEF AccessInv, SlugsInv

LEMMA OwnersFrame ==
  ASSUME AccessInv, NEW c \in Call, NEW saved, Wrote(c, saved),
         DOMAIN work[c].writes[1] \subseteq DOMAIN saved,
         DOMAIN saved \intersect (Organization \union Members) = {}
  PROVE  OwnersInv'
<1>1. \A k \in Organization \union Members : store'[k] = store[k]
  BY WroteStore, AccessKeys DEF AccessInv
<1>2. raced \subseteq raced'
  BY DEF Wrote
<1>3. ASSUME NEW m \in Members, Pending(m, "active") PROVE Pending(m, "active")'
  <2>1. DOMAIN (m :> "active") = {m}
    BY OneKey
  <2>2. QED
    BY <1>3, <2>1, WroteRest DEF AccessInv
<1>4. SUFFICES ASSUME NEW o \in Organization, o \notin raced', IsOrg(store'[o]),
                      NEW m, m = Member(o, store'[o].owner)
               PROVE  \/ m \in raced' \/ store'[m] \in {"active", "suspended"}
                      \/ Pending(m, "active")'
  BY DEF OwnersInv
<1>5. store'[o] = store[o] /\ store[o].owner \in Principal
  BY <1>1, <1>4 DEF AccessInv, Records, OrgRecord, IsOrg, Exists
<1>6. m = Member(o, store[o].owner) /\ m \in Members
  BY <1>4, <1>5, MemberKeys
<1>7. m \in raced \/ store[m] \in {"active", "suspended"} \/ Pending(m, "active")
  BY <1>2, <1>4, <1>5, <1>6 DEF AccessInv, OwnersInv
<1>8. QED
  BY <1>1, <1>2, <1>3, <1>6, <1>7

LEMMA PlacesFrame ==
  ASSUME AccessInv, NEW c \in Call, NEW saved, Wrote(c, saved),
         DOMAIN saved \intersect (Organization \union Assignment) = {}
  PROVE  PlacesInv'
<1>1. \A k \in Organization \union Assignment : store'[k] = store[k]
  BY WroteStore, AccessKeys DEF AccessInv
<1>2. raced \subseteq raced'
  BY DEF Wrote
<1>3. \A a \in Assignment : Exists(store[a]) => store[a].org \in Organization
  BY GrantFields DEF AccessInv, Records, Exists
<1>4. QED
  BY <1>1, <1>2, <1>3 DEF AccessInv, PlacesInv

LEMMA IndexFrame ==
  ASSUME AccessInv, NEW c \in Call, NEW saved, Wrote(c, saved),
         DOMAIN saved \intersect (Scopes \union Assignment) = {}
  PROVE  IndexInv'
<1>1. \A k \in Scopes \union Assignment : store'[k] = store[k]
  BY WroteStore, AccessKeys DEF AccessInv
<1>2. raced \subseteq raced'
  BY DEF Wrote
<1>3. \A a \in Assignment : Exists(store[a]) => Scope(store[a]) \in Scopes
  BY ScopeKeys DEF AccessInv, Records, Exists
<1>4. QED
  BY <1>1, <1>2, <1>3 DEF AccessInv, IndexInv

\* A call that is about to list the assignments of a role does not save.
LEMMA EndingKept ==
  ASSUME NEW c \in Call, NEW saved, Wrote(c, saved), NEW r, Ending(r)
  PROVE  Ending(r)'
<1>1. PICK d \in Call : Ends(work[d], r)
  BY DEF Ending
<1>2. d # c
  BY <1>1 DEF Ends, Wrote
<1>3. Ends(work'[d], r)
  BY <1>1, <1>2 DEF Wrote, OthersStay
<1>4. QED
  BY <1>3 DEF Ending

LEMMA RolesFrame ==
  ASSUME AccessInv, NEW c \in Call, NEW saved, Wrote(c, saved),
         DOMAIN work[c].writes[1] \subseteq DOMAIN saved,
         DOMAIN saved \intersect (RoleId \union Assignment) = {}
  PROVE  RolesInv'
<1>1. \A k \in RoleId \union Assignment : store'[k] = store[k]
  BY WroteStore, AccessKeys DEF AccessInv
<1>2. raced \subseteq raced'
  BY DEF Wrote
<1>3. ASSUME NEW a \in Assignment, Pending(a, NoRecord) PROVE Pending(a, NoRecord)'
  <2>1. DOMAIN (a :> NoRecord) = {a}
    BY OneKey
  <2>2. QED
    BY <1>3, <2>1, WroteRest DEF AccessInv
<1>4. SUFFICES ASSUME NEW a \in Assignment, NEW r, r = store'[a].role, Exists(store'[a]),
                      {a, r} \intersect raced' = {}
               PROVE  IsLive(store'[r]) \/ Ending(r)' \/ Pending(a, NoRecord)'
  BY DEF RolesInv
<1>5. store'[a] = store[a] /\ store[a].role = r /\ r \in RoleId
  BY <1>1, <1>4, GrantFields DEF AccessInv, Records, Exists
<1>6. IsLive(store[r]) \/ Ending(r) \/ Pending(a, NoRecord)
  BY <1>2, <1>4, <1>5 DEF AccessInv, RolesInv
<1>7. QED
  BY <1>1, <1>3, <1>4, <1>5, <1>6, EndingKept

-----------------------------------------------------------------------------
(***************************************************************************)
(* The saves, one lemma for each kind of record.                           *)
(***************************************************************************)
LEMMA EmptyStaged ==
  ASSUME NEW s, NEW op, NEW seen
  PROVE  Staged(s, op, seen, <<>>)
<1>1. <<>> \in Seq(Removals)
  OBVIOUS
<1>2. QED
  BY <1>1 DEF Staged

LEMMA TypedOne ==
  ASSUME NEW k, NEW v,
         \/ k \in Organization /\ v \in OrgRecord
         \/ k \in Members /\ v \in MemberState
         \/ k \in Invitation /\ v \in InvitationRecord
         \/ k \in Permission /\ v \in PermissionRecord
         \/ k \in RoleId /\ v \in RoleRecord
  PROVE  Typed(k :> v) /\ Exists(v) /\ k \in Key /\ k \notin Assignment /\ k \notin Scopes
<1>1. DOMAIN (k :> v) = {k} /\ (k :> v)[k] = v
  BY OneKey
<1>2. Exists(v) /\ k \in Key /\ k \notin Assignment /\ k \notin Scopes
  BY AccessKeys, NoRecords DEF Exists
<1>3. Typed(k :> v)
  BY <1>1, AccessKeys DEF Typed
<1>4. QED
  BY <1>2, <1>3

\* One record is saved whole.
Replaces(c, k, v) ==
  /\ Wrote(c, k :> v) /\ DOMAIN (k :> v) = {k} /\ raced \subseteq raced'
  /\ CallsOK' /\ Records(store)' /\ DraftsInv' /\ \A d \in Call : Fits(store', work'[d])
  /\ store'[k] = v /\ \A x \in Key \ {k} : store'[x] = store[x]
  /\ k \notin raced' => Unstale(c)
  /\ \A x, record : Pending(x, record) => Pending(x, record)' \/ (x = k /\ record = v)

LEMMA OneSaved ==
  ASSUME AccessInv, NEW c \in Call, Save(c), NEW k, NEW v, work[c].writes[1] = k :> v,
         k \in Key, Typed(k :> v), Exists(v),
         k \in RoleId => v \in RoleRecord /\ AreRegistered(store, v.permissions),
         Staged(store', work[c].op, work'[c].seen, work'[c].writes)
  PROVE  Replaces(c, k, v)
<1>1. DOMAIN (k :> v) = {k} /\ (k :> v)[k] = v
  BY OneKey
<1> DEFINE saved == k :> v
<1> HIDE DEF saved
<1>2. DOMAIN saved = {k} /\ saved[k] = v /\ work[c].writes[1] = saved /\ Typed(saved)
  BY <1>1 DEF saved
<1>3. Wrote(c, saved)
  BY <1>2, SaveWrote DEF AccessInv
<1>4. k \in RoleId => v.permissions \subseteq Permission
  BY DEF RoleRecord
<1>5. CallsOK' /\ Records(store)' /\ DraftsInv' /\ \A d \in Call : Fits(store', work'[d])
  BY <1>2, <1>3, <1>4, WroteKeeps
<1>6. store'[k] = v /\ \A x \in Key \ {k} : store'[x] = store[x]
  BY <1>2, <1>3, WroteStore DEF AccessInv
<1>7. k \notin raced' => Unstale(c)
  BY <1>2, <1>3 DEF Wrote
<1>8. ASSUME NEW x, NEW record, Pending(x, record)
      PROVE  Pending(x, record)' \/ (x = k /\ record = v)
  <2>1. Pending(x, record)' \/ saved = x :> record
    BY <1>2, <1>3, <1>8, WroteRest DEF AccessInv
  <2>2. DOMAIN (x :> record) = {x} /\ (x :> record)[x] = record
    BY OneKey
  <2>3. QED
    BY <1>2, <2>1, <2>2
<1>9. raced \subseteq raced'
  BY <1>3 DEF Wrote
<1>10. QED
  BY <1>2, <1>3, <1>5, <1>6, <1>7, <1>8, <1>9 DEF saved, Replaces

LEMMA OrgSaved ==
  ASSUME AccessInv, NEW c \in Call, Save(c), NEW o \in Organization, NEW org \in OrgRecord,
         SavesOrg(work[c].seen, work[c].writes, o, org)
  PROVE  AccessInv'
<1> DEFINE seen == work[c].seen
           owner == Member(o, org.owner)
<1>1. /\ work'[c].writes = Tail(work[c].writes)
      /\ \/ work[c].writes = << o :> org, owner :> "active" >> /\ ~Known(seen, o)
         \/ /\ work[c].writes = << o :> org >> /\ Known(seen, o) /\ IsOrg(seen[o])
            /\ DOMAIN seen[o].locations \subseteq DOMAIN org.locations
            /\ org.owner = seen[o].owner \/ (owner \in DOMAIN seen /\ seen[owner] = "active")
  BY SaveEffect DEF SavesOrg, AccessInv
<1>2. /\ work[c].writes[1] = o :> org
      /\ ~Known(seen, o) => work'[c].writes = << owner :> "active" >>
      /\ Known(seen, o) => work'[c].writes = <<>>
  <2>1. CASE work[c].writes = << o :> org, owner :> "active" >> /\ ~Known(seen, o)
    BY <1>1, <2>1, Tails
  <2>2. CASE work[c].writes = << o :> org >> /\ Known(seen, o)
    BY <1>1, <2>2, Tails
  <2>3. QED
    BY <1>1, <2>1, <2>2
<1>3. Staged(store', work[c].op, work'[c].seen, work'[c].writes)
  <2>1. CASE Known(seen, o)
    BY <1>2, <2>1, EmptyStaged
  <2>2. CASE ~Known(seen, o)
    <3>1. org.owner \in Principal /\ "active" \in MemberState
      BY DEF OrgRecord, MemberState
    <3>2. SavesMember(work'[c].seen, o, org.owner, "active")
      BY DEF SavesMember
    <3>3. QED
      BY <1>2, <2>2, <3>1, <3>2 DEF Staged
  <2>3. QED
    BY <2>1, <2>2
<1>4. /\ Typed(o :> org) /\ Exists(org) /\ o \in Key
      /\ o \in RoleId => org \in RoleRecord /\ AreRegistered(store, org.permissions)
  BY TypedOne, AccessKeys
<1>5. /\ Wrote(c, o :> org) /\ DOMAIN (o :> org) = {o} /\ raced \subseteq raced'
      /\ CallsOK' /\ Records(store)' /\ DraftsInv' /\ \A d \in Call : Fits(store', work'[d])
      /\ store'[o] = org /\ \A x \in Key \ {o} : store'[x] = store[x]
      /\ o \notin raced' => Unstale(c)
      /\ \A x, record : Pending(x, record) => Pending(x, record)' \/ (x = o /\ record = org)
  <2>1. Replaces(c, o, org)
    BY <1>2, <1>3, <1>4, OneSaved
  <2>2. QED
    BY <2>1 DEF Replaces
<1>6. /\ \A q \in Organization \ {o} : store'[q] = store[q]
      /\ \A m \in Members : store'[m] = store[m]
      /\ \A a \in Assignment : store'[a] = store[a]
  BY <1>5, AccessKeys
<1>7. o \notin raced' /\ Known(seen, o) => store[o] = seen[o] /\ IsOrg(store[o])
  BY <1>1, <1>5 DEF Unstale, Known
<1>8. SlugsInv'
  <2>1. ASSUME NEW q \in Organization \ {o}, o \notin raced', q \notin raced', IsOrg(store[q])
        PROVE  org.slug # store[q].slug \/ org.slug = NoSlug
    <3>1. CASE Known(seen, o) /\ org.slug = seen[o].slug
      BY <1>5, <1>7, <2>1, <3>1 DEF AccessInv, SlugsInv
    <3>2. CASE \A x \in Organization \ {o} :
                 x \in DOMAIN seen /\ (IsOrg(seen[x]) => seen[x].slug # org.slug)
      BY <1>5, <2>1, <3>2 DEF Unstale
    <3>3. QED
      BY <3>1, <3>2 DEF SavesOrg
  <2>2. SUFFICES ASSUME NEW q \in Organization \ raced', NEW x \in Organization \ raced',
                        IsOrg(store'[q]), IsOrg(store'[x]), q # x
                 PROVE  store'[q].slug # store'[x].slug \/ store'[q].slug = NoSlug
    BY DEF SlugsInv
  <2>3. CASE q = o
    BY <1>5, <1>6, <2>1, <2>2, <2>3
  <2>4. CASE x = o
    BY <1>5, <1>6, <2>1, <2>2, <2>4
  <2>5. CASE q # o /\ x # o
    BY <1>5, <1>6, <2>2, <2>5 DEF AccessInv, SlugsInv
  <2>6. QED
    BY <2>3, <2>4, <2>5
<1>9. OwnersInv'
  <2>1. SUFFICES ASSUME NEW q \in Organization, q \notin raced', IsOrg(store'[q]),
                        NEW m, m = Member(q, store'[q].owner)
                 PROVE  \/ m \in raced' \/ store'[m] \in {"active", "suspended"}
                        \/ Pending(m, "active")'
    BY DEF OwnersInv
  <2>2. m \in Members /\ store'[m] = store[m] /\ m # o
    <3>1. store'[q].owner \in Principal
      BY <1>5, <2>1 DEF Records, OrgRecord, IsOrg, Exists
    <3>2. QED
      BY <1>6, <2>1, <3>1, MemberKeys, AccessKeys
  <2>3. ASSUME m \in raced \/ store[m] \in {"active", "suspended"} \/ Pending(m, "active")
        PROVE  m \in raced' \/ store'[m] \in {"active", "suspended"} \/ Pending(m, "active")'
    BY <1>5, <2>2, <2>3
  <2>4. CASE q # o
    BY <1>5, <1>6, <2>1, <2>3, <2>4 DEF AccessInv, OwnersInv
  <2>5. CASE q = o /\ ~Known(seen, o)
    <3>1. work'[c].writes = << m :> "active" >>
      BY <1>2, <1>5, <2>1, <2>5
    <3>2. 1 \in DOMAIN work'[c].writes /\ work'[c].writes[1] = m :> "active"
      BY <3>1
    <3>3. QED
      BY <3>2 DEF Pending
  <2>6. CASE q = o /\ Known(seen, o)
    <3>1. store[o] = seen[o] /\ IsOrg(store[o])
      BY <1>7, <2>1, <2>6
    <3>2. CASE org.owner = seen[o].owner
      BY <1>5, <2>1, <2>3, <2>6, <3>1, <3>2 DEF AccessInv, OwnersInv
    <3>3. CASE owner \in DOMAIN seen /\ seen[owner] = "active"
      BY <1>5, <2>1, <2>3, <2>6, <3>3 DEF Unstale
    <3>4. QED
      BY <1>1, <2>6, <3>2, <3>3
  <2>7. QED
    BY <2>4, <2>5, <2>6
<1>10. PlacesInv'
  <2>1. SUFFICES ASSUME NEW a \in Assignment, NEW q, q = store'[a].org, Exists(store'[a]),
                        {a, q} \intersect raced' = {}, store'[a].location # OrgWide
                 PROVE  Exists(store'[q]) /\ PlaceOf(store'[a], store'[q])
    BY DEF PlacesInv
  <2>2. store'[a] = store[a] /\ store[a].org = q /\ q \in Organization
    BY <1>6, <2>1, GrantFields DEF AccessInv, Records, Exists
  <2>3. Exists(store[q]) /\ PlaceOf(store[a], store[q])
    BY <1>5, <2>1, <2>2 DEF AccessInv, PlacesInv
  <2>4. CASE q # o
    BY <1>6, <2>2, <2>3, <2>4
  <2>5. CASE q = o
    <3>1. Known(seen, o)
      <4>1. Writing(work[c].writes, o)
        BY <1>2, <1>5, WroteRest DEF AccessInv
      <4>2. QED
        BY <2>3, <2>5, <4>1 DEF AccessInv, DraftsInv, Lasting
    <3>2. store[o] = seen[o] /\ DOMAIN seen[o].locations \subseteq DOMAIN org.locations
      BY <1>1, <1>7, <2>1, <2>5, <3>1
    <3>3. QED
      BY <1>4, <1>5, <2>1, <2>2, <2>3, <2>5, <3>2 DEF PlaceOf
  <2>6. QED
    BY <2>4, <2>5
<1>11. DOMAIN (o :> org) \intersect (Scopes \union Assignment) = {}
       /\ DOMAIN (o :> org) \intersect (RoleId \union Assignment) = {}
  BY <1>5, AccessKeys
<1>12. IndexInv' /\ RolesInv'
  BY <1>2, <1>5, <1>11, IndexFrame, RolesFrame
<1>13. QED
  BY <1>5, <1>8, <1>9, <1>10, <1>12 DEF AccessInv

LEMMA MemberSaved ==
  ASSUME AccessInv, NEW c \in Call, Save(c), NEW o \in Organization, NEW p \in Principal,
         NEW state \in MemberState, work[c].writes[1] = Member(o, p) :> state,
         SavesMember(work[c].seen, o, p, state),
         Staged(store', work[c].op, work'[c].seen, work'[c].writes)
  PROVE  AccessInv'
<1> DEFINE m == Member(o, p)
           seen == work[c].seen
<1>1. m \in Members
  BY MemberKeys
<1>2. /\ Typed(m :> state) /\ Exists(state) /\ m \in Key
      /\ m \in RoleId => state \in RoleRecord /\ AreRegistered(store, state.permissions)
  BY <1>1, TypedOne, AccessKeys
<1>3. Replaces(c, m, state)
  BY <1>2, OneSaved
<1> HIDE DEF m
<1>4. /\ Wrote(c, m :> state) /\ DOMAIN (m :> state) = {m} /\ raced \subseteq raced'
      /\ CallsOK' /\ Records(store)' /\ DraftsInv' /\ \A d \in Call : Fits(store', work'[d])
      /\ store'[m] = state /\ \A x \in Key \ {m} : store'[x] = store[x]
      /\ m \notin raced' => Unstale(c)
      /\ \A x, record : Pending(x, record) => Pending(x, record)' \/ (x = m /\ record = state)
  BY <1>3 DEF Replaces
<1>5. \A q \in Organization : store'[q] = store[q]
  BY <1>1, <1>4, AccessKeys
<1>6. OwnersInv'
  <2>1. SUFFICES ASSUME NEW q \in Organization, q \notin raced', IsOrg(store'[q]),
                        NEW n, n = Member(q, store'[q].owner)
                 PROVE  \/ n \in raced' \/ store'[n] \in {"active", "suspended"}
                        \/ Pending(n, "active")'
    BY DEF OwnersInv
  <2>2. store'[q] = store[q]
    BY <1>5
  <2>3. n \in Members
    <3>1. store'[q].owner \in Principal
      BY <1>4, <2>1 DEF Records, OrgRecord, IsOrg, Exists
    <3>2. QED
      BY <2>1, <3>1, MemberKeys
  <2>4. n \in raced \/ store[n] \in {"active", "suspended"} \/ Pending(n, "active")
    BY <1>4, <2>1, <2>2 DEF AccessInv, OwnersInv
  <2>5. CASE n # m
    BY <1>4, <2>3, <2>4, <2>5, AccessKeys
  <2>6. CASE n = m
    <3>1. q = o /\ store'[q].owner = p
      <4>1. Member(q, store'[q].owner) = Member(o, p)
        BY <2>1, <2>6 DEF m
      <4>2. QED
        BY <4>1 DEF Member
    <3>2. CASE state \in {"active", "suspended"}
      BY <1>4, <2>6, <3>2
    <3>3. CASE Known(seen, o) /\ seen[o].owner # p
      <4>1. ~Unstale(c)
        BY <2>2, <3>1, <3>3 DEF Unstale, Known
      <4>2. QED
        BY <1>4, <2>6, <4>1
    <3>4. QED
      BY <3>2, <3>3 DEF SavesMember
  <2>7. QED
    BY <2>5, <2>6
<1>7. /\ DOMAIN (m :> state) \intersect Organization = {}
      /\ DOMAIN (m :> state) \intersect (Organization \union Assignment) = {}
      /\ DOMAIN (m :> state) \intersect (Scopes \union Assignment) = {}
      /\ DOMAIN (m :> state) \intersect (RoleId \union Assignment) = {}
  BY <1>1, <1>4, AccessKeys
<1>8. DOMAIN work[c].writes[1] \subseteq DOMAIN (m :> state)
  BY DEF m
<1>9. SlugsInv' /\ PlacesInv' /\ IndexInv' /\ RolesInv'
  BY <1>4, <1>7, <1>8, SlugsFrame, PlacesFrame, IndexFrame, RolesFrame
<1>10. QED
  BY <1>4, <1>6, <1>9 DEF AccessInv

\* Records the other invariants do not speak of.
LEMMA PlainSaved ==
  ASSUME AccessInv, NEW c \in Call, Save(c), NEW k, NEW v, work[c].writes[1] = k :> v,
         \/ k \in Invitation /\ v \in InvitationRecord
         \/ k \in Permission /\ v \in PermissionRecord,
         Staged(store', work[c].op, work'[c].seen, work'[c].writes)
  PROVE  AccessInv'
<1>1. /\ Typed(k :> v) /\ Exists(v) /\ k \in Key
      /\ k \in RoleId => v \in RoleRecord /\ AreRegistered(store, v.permissions)
  BY TypedOne, AccessKeys
<1>2. Replaces(c, k, v)
  BY <1>1, OneSaved
<1>3. /\ DOMAIN (k :> v) \intersect Organization = {}
      /\ DOMAIN (k :> v) \intersect (Organization \union Members) = {}
      /\ DOMAIN (k :> v) \intersect (Organization \union Assignment) = {}
      /\ DOMAIN (k :> v) \intersect (Scopes \union Assignment) = {}
      /\ DOMAIN (k :> v) \intersect (RoleId \union Assignment) = {}
  BY <1>2, AccessKeys DEF Replaces
<1>4. Wrote(c, k :> v) /\ DOMAIN work[c].writes[1] \subseteq DOMAIN (k :> v)
  BY <1>2 DEF Replaces
<1>5. SlugsInv' /\ OwnersInv' /\ PlacesInv' /\ IndexInv' /\ RolesInv'
  BY <1>3, <1>4, SlugsFrame, OwnersFrame, PlacesFrame, IndexFrame, RolesFrame
<1>6. QED
  BY <1>2, <1>5 DEF AccessInv, Replaces

LEMMA RoleSaved ==
  ASSUME AccessInv, NEW c \in Call, Save(c), NEW r \in RoleId, NEW role \in RoleRecord,
         work[c].writes = << r :> role >>, SavesRole(store, work[c].op, r, role)
  PROVE  AccessInv'
<1>1. work[c].writes[1] = r :> role /\ work'[c].writes = <<>>
  <2>1. work'[c].writes = Tail(work[c].writes)
    BY SaveEffect DEF AccessInv
  <2>2. QED
    BY <2>1, Tails
<1>2. Staged(store', work[c].op, work'[c].seen, work'[c].writes)
  BY <1>1, EmptyStaged
<1>3. Typed(r :> role) /\ Exists(role) /\ r \in Key /\ AreRegistered(store, role.permissions)
  BY TypedOne DEF SavesRole
<1>4. Replaces(c, r, role)
  BY <1>1, <1>2, <1>3, OneSaved
<1>5. /\ Wrote(c, r :> role) /\ DOMAIN (r :> role) = {r} /\ raced \subseteq raced'
      /\ CallsOK' /\ Records(store)' /\ DraftsInv' /\ \A d \in Call : Fits(store', work'[d])
      /\ store'[r] = role /\ \A x \in Key \ {r} : store'[x] = store[x]
      /\ \A x, record : Pending(x, record) => Pending(x, record)' \/ (x = r /\ record = role)
  BY <1>4 DEF Replaces
<1>6. role.deleted => Ending(r)'
  <2>1. SUFFICES ASSUME role.deleted PROVE Ending(r)'
    OBVIOUS
  <2>2. /\ work[c].op = <<"deleteAssignments", r>> /\ work'[c].op = work[c].op
        /\ work'[c].todo = <<>> /\ work'[c].writes = <<>>
    BY <1>1, <1>5, <2>1 DEF SavesRole, Wrote
  <2>3. work'[c] # Idle
    <3>1. <<"deleteAssignments", r>> # <<>>
      OBVIOUS
    <3>2. QED
      BY <2>2, <3>1, IdleCall
  <2>4. Ends(work'[c], r)
    BY <2>2, <2>3 DEF Ends
  <2>5. QED
    BY <2>4 DEF Ending
<1>7. RolesInv'
  <2>1. SUFFICES ASSUME NEW a \in Assignment, NEW x, x = store'[a].role, Exists(store'[a]),
                        {a, x} \intersect raced' = {}
                 PROVE  IsLive(store'[x]) \/ Ending(x)' \/ Pending(a, NoRecord)'
    BY DEF RolesInv
  <2>2. store'[a] = store[a] /\ store[a].role = x /\ x \in RoleId /\ a # r
    BY <1>5, <2>1, AccessKeys, GrantFields DEF AccessInv, Records, Exists
  <2>3. IsLive(store[x]) \/ Ending(x) \/ Pending(a, NoRecord)
    BY <1>5, <2>1, <2>2 DEF AccessInv, RolesInv
  <2>4. CASE x = r
    BY <1>3, <1>5, <1>6, <2>4 DEF IsLive
  <2>5. CASE x # r
    <3>1. store'[x] = store[x]
      BY <1>5, <2>2, <2>5, AccessKeys
    <3>2. Ending(x) => Ending(x)'
      BY <1>5, EndingKept
    <3>3. Pending(a, NoRecord) => Pending(a, NoRecord)'
      BY <1>5, <2>2
    <3>4. QED
      BY <2>3, <3>1, <3>2, <3>3
  <2>6. QED
    BY <2>4, <2>5
<1>8. /\ DOMAIN (r :> role) \intersect Organization = {}
      /\ DOMAIN (r :> role) \intersect (Organization \union Members) = {}
      /\ DOMAIN (r :> role) \intersect (Organization \union Assignment) = {}
      /\ DOMAIN (r :> role) \intersect (Scopes \union Assignment) = {}
  BY <1>5, AccessKeys
<1>9. DOMAIN work[c].writes[1] \subseteq DOMAIN (r :> role)
  BY <1>1
<1>10. SlugsInv' /\ OwnersInv' /\ PlacesInv' /\ IndexInv'
  BY <1>5, <1>8, <1>9, SlugsFrame, OwnersFrame, PlacesFrame, IndexFrame
<1>11. QED
  BY <1>5, <1>7, <1>10 DEF AccessInv

LEMMA IndexedParts ==
  ASSUME NEW a \in Assignment, NEW old \in Grants \union {NoRecord},
         NEW new \in Grants \union {NoRecord}
  PROVE  LET saved == Indexed(a, old, new)
         IN  /\ a \in DOMAIN saved /\ saved[a] = new
             /\ Exists(new) => Scope(new) \in DOMAIN saved /\ saved[Scope(new)] = a
             /\ Exists(old) => Scope(old) \in DOMAIN saved
             /\ \A x \in DOMAIN saved :
                  \/ x = a
                  \/ x \in Scopes /\ Exists(new) /\ x = Scope(new)
                  \/ x \in Scopes /\ Exists(old) /\ x = Scope(old)
             /\ Typed(saved)
<1> DEFINE own == a :> new
           into == IF Exists(new) THEN Scope(new) :> a ELSE <<>>
           out == IF Exists(old) THEN Scope(old) :> NoRecord ELSE <<>>
           saved == (own @@ into) @@ out
<1>1. Indexed(a, old, new) = saved
  BY DEF Indexed
<1>2. /\ Exists(new) => new \in Grants /\ Scope(new) \in Scopes
      /\ Exists(old) => old \in Grants /\ Scope(old) \in Scopes
  BY ScopeKeys DEF Exists
<1>3. DOMAIN own = {a} /\ own[a] = new
  BY OneKey
<1>4. /\ Exists(new) => DOMAIN into = {Scope(new)} /\ into[Scope(new)] = a
      /\ ~Exists(new) => DOMAIN into = {}
  BY DEF :>
<1>5. /\ Exists(old) => DOMAIN out = {Scope(old)} /\ out[Scope(old)] = NoRecord
      /\ ~Exists(old) => DOMAIN out = {}
  BY DEF :>
<1> HIDE DEF own, into, out
<1>6. /\ DOMAIN saved = DOMAIN own \union DOMAIN into \union DOMAIN out
      /\ \A x \in DOMAIN own : saved[x] = own[x]
      /\ \A x \in DOMAIN into : x \notin DOMAIN own => saved[x] = into[x]
      /\ \A x \in DOMAIN out : x \notin DOMAIN own /\ x \notin DOMAIN into => saved[x] = out[x]
  BY DEF @@
<1> HIDE DEF saved
<1>7. a \in DOMAIN saved /\ saved[a] = new
  BY <1>3, <1>6
<1>8. Exists(new) => Scope(new) \in DOMAIN saved /\ saved[Scope(new)] = a
  BY <1>2, <1>3, <1>4, <1>6, AccessKeys
<1>9. Exists(old) => Scope(old) \in DOMAIN saved
  BY <1>5, <1>6
<1>10. \A x \in DOMAIN saved :
         \/ x = a
         \/ x \in Scopes /\ Exists(new) /\ x = Scope(new)
         \/ x \in Scopes /\ Exists(old) /\ x = Scope(old)
  BY <1>2, <1>3, <1>4, <1>5, <1>6
<1>11. \A x \in DOMAIN saved : x # a => saved[x] \in {a, NoRecord}
  BY <1>3, <1>4, <1>5, <1>6, <1>8, <1>10
<1>12. Typed(saved)
  BY <1>7, <1>10, <1>11, AccessKeys DEF Typed
<1>13. QED
  BY <1>1, <1>7, <1>8, <1>9, <1>10, <1>12

LEMMA AssignmentWrote ==
  ASSUME CallsOK, NEW c \in Call, SaveAssignment(c)
  PROVE  \E a \in Assignment :
           /\ DOMAIN work[c].writes[1] = {a}
           /\ Wrote(c, Indexed(a, store[a], work[c].writes[1][a]))
<1>1. PICK a \in Assignment :
        LET write == work[c].writes[1]
            saved == Indexed(a, store[a], write[a])
        IN  /\ IsAssignmentSave(c) /\ DOMAIN write = {a}
            /\ store' = saved @@ store
            /\ raced' = raced \union (IF Stale(work[c].seen) THEN DOMAIN saved ELSE {})
            /\ work' = [work EXCEPT ![c].writes = Tail(@), ![c].seen = saved @@ @]
  BY DEF SaveAssignment
<1> DEFINE saved == Indexed(a, store[a], work[c].writes[1][a])
<1> HIDE DEF saved
<1>2. /\ store' = saved @@ store
      /\ raced' = raced \union (IF Stale(work[c].seen) THEN DOMAIN saved ELSE {})
      /\ work' = [work EXCEPT ![c].writes = Tail(@), ![c].seen = saved @@ @]
      /\ work[c].todo = <<>> /\ work[c].writes # <<>> /\ DOMAIN work[c].writes[1] = {a}
  BY <1>1 DEF saved, IsAssignmentSave, Committing
<1>3. /\ DOMAIN work' = Call /\ OthersStay(c)
      /\ DOMAIN work'[c] = {"op", "todo", "seen", "writes", "news"}
      /\ work'[c].op = work[c].op /\ work'[c].todo = work[c].todo
      /\ work'[c].writes = Tail(work[c].writes) /\ work'[c].seen = saved @@ work[c].seen
  BY <1>2 DEF CallsOK, IsCall, OthersStay
<1>4. DOMAIN store \subseteq DOMAIN store'
  BY <1>2 DEF @@
<1>5. IsCall(work'[c])
  BY <1>2, <1>3 DEF CallsOK, IsCall
<1>6. CallsOK'
  BY <1>3, <1>4, <1>5, CallsKept
<1>7. /\ raced \subseteq raced'
      /\ \A k \in DOMAIN saved : k \notin raced' => Unstale(c)
  BY <1>2 DEF Stale, Unstale
<1>8. Wrote(c, saved)
  BY <1>2, <1>3, <1>6, <1>7 DEF Wrote
<1>9. QED
  BY <1>2, <1>8 DEF saved

\* An assignment is granted, moved or removed, and the index follows.
LEMMA AssignmentSaved ==
  ASSUME AccessInv, NEW c \in Call, NEW a \in Assignment, NEW new \in Grants \union {NoRecord},
         Wrote(c, Indexed(a, store[a], new)), work[c].writes[1] = a :> new,
         Staged(store', work[c].op, work'[c].seen, work'[c].writes),
         Exists(new) => SavesGrant(work[c].seen, a, new)
  PROVE  AccessInv'
<1> DEFINE old == store[a]
           saved == Indexed(a, old, new)
           seen == work[c].seen
<1>1. old \in Grants \union {NoRecord}
  BY DEF AccessInv, Records
<1>2. /\ a \in DOMAIN saved /\ saved[a] = new
      /\ Exists(new) => Scope(new) \in DOMAIN saved /\ saved[Scope(new)] = a
      /\ Exists(old) => Scope(old) \in DOMAIN saved
      /\ \A x \in DOMAIN saved :
           \/ x = a
           \/ x \in Scopes /\ Exists(new) /\ x = Scope(new)
           \/ x \in Scopes /\ Exists(old) /\ x = Scope(old)
      /\ Typed(saved)
  BY <1>1, IndexedParts
<1>3. Wrote(c, saved)
  OBVIOUS
<1> HIDE DEF saved, old
<1>4. DOMAIN work[c].writes[1] = {a} /\ DOMAIN work[c].writes[1] \subseteq DOMAIN saved
  <2>1. DOMAIN (a :> new) = {a}
    BY OneKey
  <2>2. QED
    BY <1>2, <2>1
<1>5. \A k \in DOMAIN saved : k \in Assignment \/ k \in Scopes
  BY <1>2
<1>6. CallsOK' /\ Records(store)' /\ DraftsInv' /\ \A d \in Call : Fits(store', work'[d])
  BY <1>2, <1>3, <1>4, <1>5, AccessKeys, WroteKeeps DEF Lasting
<1>7. /\ DOMAIN saved \intersect Organization = {}
      /\ DOMAIN saved \intersect (Organization \union Members) = {}
  BY <1>5, AccessKeys
<1>8. SlugsInv' /\ OwnersInv'
  BY <1>3, <1>4, <1>7, SlugsFrame, OwnersFrame
<1>9. /\ store'[a] = new /\ raced \subseteq raced'
      /\ \A x \in Key : x \notin DOMAIN saved => store'[x] = store[x]
      /\ \A x \in DOMAIN saved : x \notin raced' => Unstale(c)
      /\ Exists(new) => store'[Scope(new)] = a
  BY <1>2, <1>3, WroteStore DEF AccessInv, Wrote
<1>10. /\ \A b \in Assignment \ {a} : store'[b] = store[b]
       /\ \A o \in Organization : store'[o] = store[o]
       /\ \A r \in RoleId : store'[r] = store[r]
  BY <1>2, <1>5, <1>9, AccessKeys
<1>11. \A b \in Assignment : Exists(store[b]) => store[b] \in Grants
  BY DEF AccessInv, Records, Exists
<1>12. Exists(new) => new \in Grants
  BY DEF Exists
<1>13. PlacesInv'
  <2>1. SUFFICES ASSUME NEW b \in Assignment, NEW q, q = store'[b].org, Exists(store'[b]),
                        {b, q} \intersect raced' = {}, store'[b].location # OrgWide
                 PROVE  Exists(store'[q]) /\ PlaceOf(store'[b], store'[q])
    BY DEF PlacesInv
  <2>2. CASE b # a
    <3>1. store'[b] = store[b] /\ store[b].org = q /\ q \in Organization
      BY <1>10, <1>11, <2>1, <2>2, GrantFields
    <3>2. Exists(store[q]) /\ PlaceOf(store[b], store[q])
      BY <1>9, <2>1, <3>1 DEF AccessInv, PlacesInv
    <3>3. QED
      BY <1>10, <3>1, <3>2
  <2>3. CASE b = a
    <3>1. new \in Grants /\ Exists(new) /\ q = new.org /\ q \in Organization
      BY <1>9, <1>12, <2>1, <2>3, GrantFields
    <3>2. Unstale(c)
      BY <1>2, <1>9, <2>1, <2>3
    <3>3. Known(seen, q) /\ PlaceOf(new, seen[q])
      BY <1>9, <2>1, <2>3, <3>1 DEF SavesGrant
    <3>4. store'[q] = seen[q]
      BY <1>10, <3>1, <3>2, <3>3 DEF Known, Unstale
    <3>5. QED
      BY <1>9, <2>3, <3>3, <3>4 DEF Known
  <2>4. QED
    BY <2>2, <2>3
<1>14. IndexInv'
  <2>1. SUFFICES ASSUME NEW b \in Assignment, NEW x, x = Scope(store'[b]), Exists(store'[b]),
                        x \notin raced'
                 PROVE  store'[x] = b
    BY DEF IndexInv
  <2>2. CASE b = a
    BY <1>9, <2>1, <2>2
  <2>3. CASE b # a
    <3>1. store'[b] = store[b] /\ x = Scope(store[b]) /\ Exists(store[b])
      BY <1>10, <2>1, <2>3
    <3>2. x \in Scopes /\ store[x] = b
      BY <1>9, <1>11, <2>1, <3>1, ScopeKeys DEF AccessInv, IndexInv
    <3>3. CASE x \notin DOMAIN saved
      BY <1>9, <3>2, <3>3, AccessKeys
    <3>4. CASE x \in DOMAIN saved /\ Exists(new) /\ x = Scope(new)
      <4>1. Unstale(c)
        BY <1>9, <2>1, <3>4
      <4>2. x \in DOMAIN seen /\ (seen[x] = b => b \in DOMAIN seen /\ ~Exists(seen[b]))
        BY <2>3, <3>4 DEF SavesGrant
      <4>3. seen[x] = b
        BY <3>2, <4>1, <4>2 DEF Unstale
      <4>4. b \in DOMAIN seen /\ seen[b] = store[b]
        BY <4>1, <4>2, <4>3 DEF Unstale
      <4>5. QED
        BY <3>1, <4>2, <4>3, <4>4
    <3>5. CASE x \in DOMAIN saved /\ Exists(old) /\ x = Scope(old)
      <4>1. x \notin raced
        BY <1>9, <2>1
      <4>2. store[x] = a
        BY <3>5, <4>1 DEF old, AccessInv, IndexInv
      <4>3. QED
        BY <2>3, <3>2, <4>2
    <3>6. x # a
      BY <3>2, AccessKeys
    <3>7. QED
      BY <1>2, <3>3, <3>4, <3>5, <3>6
  <2>4. QED
    BY <2>2, <2>3
<1>15. RolesInv'
  <2>1. SUFFICES ASSUME NEW b \in Assignment, NEW r, r = store'[b].role, Exists(store'[b]),
                        {b, r} \intersect raced' = {}
                 PROVE  IsLive(store'[r]) \/ Ending(r)' \/ Pending(b, NoRecord)'
    BY DEF RolesInv
  <2>2. ASSUME Pending(b, NoRecord) PROVE Pending(b, NoRecord)'
    <3>1. Pending(b, NoRecord)' \/ work[c].writes[1] = b :> NoRecord
      BY <1>3, <2>2, WroteRest DEF AccessInv
    <3>2. ASSUME a :> new = b :> NoRecord PROVE FALSE
      <4>1. DOMAIN (a :> new) = {a} /\ (a :> new)[a] = new
        BY OneKey
      <4>2. DOMAIN (b :> NoRecord) = {b} /\ (b :> NoRecord)[b] = NoRecord
        BY OneKey
      <4>3. a = b /\ new = NoRecord
        BY <3>2, <4>1, <4>2
      <4>4. QED
        BY <1>9, <2>1, <4>3 DEF Exists
    <3>3. QED
      BY <3>1, <3>2
  <2>3. Ending(r) => Ending(r)'
    BY <1>3, EndingKept
  <2>4. CASE b # a
    <3>1. store'[b] = store[b] /\ store[b].role = r /\ r \in RoleId
      BY <1>10, <1>11, <2>1, <2>4, GrantFields
    <3>2. IsLive(store[r]) \/ Ending(r) \/ Pending(b, NoRecord)
      BY <1>9, <2>1, <3>1 DEF AccessInv, RolesInv
    <3>3. QED
      BY <1>10, <2>2, <2>3, <3>1, <3>2
  <2>5. CASE b = a
    <3>1. new \in Grants /\ Exists(new) /\ r = new.role /\ r \in RoleId
      BY <1>9, <1>12, <2>1, <2>5, GrantFields
    <3>2. Unstale(c)
      BY <1>2, <1>9, <2>1, <2>5
    <3>3. CASE Known(seen, r) /\ IsLive(seen[r])
      BY <1>10, <3>1, <3>2, <3>3 DEF Known, Unstale
    <3>4. CASE Known(seen, a) /\ seen[a].role = r
      <4>1. Exists(store[a]) /\ store[a].role = r
        BY <3>2, <3>4 DEF Known, Unstale
      <4>2. IsLive(store[r]) \/ Ending(r) \/ Pending(b, NoRecord)
        BY <1>9, <2>1, <2>5, <4>1 DEF AccessInv, RolesInv
      <4>3. QED
        BY <1>10, <2>2, <2>3, <3>1, <4>2
    <3>5. QED
      BY <3>1, <3>3, <3>4 DEF SavesGrant
  <2>6. QED
    BY <2>4, <2>5
<1>16. QED
  BY <1>6, <1>8, <1>13, <1>14, <1>15 DEF AccessInv

-----------------------------------------------------------------------------
(***************************************************************************)
(* What a call saves first is one record.                                  *)
(***************************************************************************)
LEMMA FirstOf ==
  ASSUME NEW S, NEW writes \in Seq(S), writes # <<>>
  PROVE  writes[1] \in S /\ Tail(writes) \in Seq(S)
<1>1. Len(writes) \in Nat /\ Len(writes) # 0 /\ DOMAIN writes = 1 .. Len(writes)
  BY LenProperties, EmptySeq
<1>2. 1 \in 1 .. Len(writes)
  BY <1>1
<1>3. writes[1] \in S
  BY <1>2, ElementOfSeq
<1>4. Tail(writes) \in Seq(S)
  BY HeadTailProperties
<1>5. QED
  BY <1>3, <1>4

LEMMA NotAssignment ==
  ASSUME NEW k, k \notin Assignment, NEW v, NEW write, write = k :> v
  PROVE  ~(DOMAIN write \subseteq Assignment)
<1>1. DOMAIN (k :> v) = {k}
  BY OneKey
<1>2. QED
  BY <1>1

LEMMA SavesKeep ==
  ASSUME AccessInv, NEW c \in Call, Save(c), ~IsAssignmentSave(c)
  PROVE  AccessInv'
<1> DEFINE seen == work[c].seen
           writes == work[c].writes
<1>1. /\ work[c].todo = <<>> /\ writes # <<>> /\ Committing(c)
      /\ work'[c].op = work[c].op /\ work'[c].writes = Tail(writes)
      /\ work'[c].seen = writes[1] @@ seen
  BY SaveEffect DEF AccessInv, Save
<1>2. Staged(store, work[c].op, seen, writes)
  BY <1>1 DEF AccessInv, Fits
<1>3. ~(DOMAIN writes[1] \subseteq Assignment)
  BY <1>1 DEF IsAssignmentSave
<1>4. CASE \E o \in Organization, org \in OrgRecord : SavesOrg(seen, writes, o, org)
  BY <1>4, OrgSaved
<1>5. CASE \E o \in Organization, p \in Principal, state \in MemberState :
             writes = << Member(o, p) :> state >> /\ SavesMember(seen, o, p, state)
  <2>1. PICK o \in Organization, p \in Principal, state \in MemberState :
          writes = << Member(o, p) :> state >> /\ SavesMember(seen, o, p, state)
    BY <1>5
  <2>2. writes[1] = Member(o, p) :> state /\ Tail(writes) = <<>>
    BY <2>1, Tails
  <2>3. Staged(store', work[c].op, work'[c].seen, work'[c].writes)
    BY <1>1, <2>2, EmptyStaged
  <2>4. QED
    BY <2>1, <2>2, <2>3, MemberSaved
<1>6. CASE \E m \in Members, i \in Invitation, invitation \in InvitationRecord :
             /\ writes = << m :> "active", i :> invitation >>
             /\ Known(seen, i) /\ SavesInvitation(seen, i)
  <2>1. PICK m \in Members, i \in Invitation, invitation \in InvitationRecord :
             /\ writes = << m :> "active", i :> invitation >>
             /\ Known(seen, i) /\ SavesInvitation(seen, i)
    BY <1>6
  <2>2. writes[1] = m :> "active" /\ Tail(writes) = << i :> invitation >>
    BY <2>1, Tails
  <2>3. PICK o \in Organization, p \in Principal : m = Member(o, p)
    BY MemberKeys
  <2>4. work'[c].seen = (m :> "active") @@ seen
    BY <1>1, <2>2
  <2>5. Known(work'[c].seen, i) => work'[c].seen[i] = seen[i]
    BY <2>1, <2>4, AccessKeys DEF Known, @@, :>
  <2>6. SavesInvitation(work'[c].seen, i)
    BY <2>1, <2>5 DEF SavesInvitation
  <2>7. Staged(store', work[c].op, work'[c].seen, work'[c].writes)
    BY <1>1, <2>2, <2>6 DEF Staged
  <2>8. SavesMember(seen, o, p, "active") /\ "active" \in MemberState
    BY DEF SavesMember, MemberState
  <2>9. writes[1] = Member(o, p) :> "active"
    BY <2>2, <2>3
  <2>10. QED
    BY <2>7, <2>8, <2>9, MemberSaved
<1>7. CASE \E i \in Invitation, invitation \in InvitationRecord :
             writes = << i :> invitation >> /\ SavesInvitation(seen, i)
  <2>1. PICK i \in Invitation, invitation \in InvitationRecord : writes = << i :> invitation >>
    BY <1>7
  <2>2. writes[1] = i :> invitation /\ Tail(writes) = <<>>
    BY <2>1, Tails
  <2>3. Staged(store', work[c].op, work'[c].seen, work'[c].writes)
    BY <1>1, <2>2, EmptyStaged
  <2>4. QED
    BY <2>2, <2>3, PlainSaved
<1>8. CASE \E r \in RoleId, role \in RoleRecord :
             writes = << r :> role >> /\ SavesRole(store, work[c].op, r, role)
  BY <1>8, RoleSaved
<1>9. CASE \E a \in Assignment, grant \in Grants : writes = << a :> grant >>
  <2>1. PICK a \in Assignment, grant \in Grants : writes = << a :> grant >>
    BY <1>9
  <2>2. writes[1] = a :> grant
    BY <2>1, Tails
  <2>3. DOMAIN (a :> grant) = {a}
    BY OneKey
  <2>4. QED
    BY <1>3, <2>2, <2>3
<1>10. CASE writes \in Seq(PermissionWrites)
  <2>1. writes[1] \in PermissionWrites /\ Tail(writes) \in Seq(PermissionWrites)
    BY <1>1, <1>10, FirstOf
  <2>2. PICK k \in Permission, record \in PermissionRecord : writes[1] = k :> record
    BY <2>1 DEF PermissionWrites
  <2>3. Staged(store', work[c].op, work'[c].seen, work'[c].writes)
    BY <1>1, <2>1 DEF Staged
  <2>4. QED
    BY <2>2, <2>3, PlainSaved
<1>11. CASE writes \in Seq(Removals)
  <2>1. writes[1] \in Removals
    BY <1>1, <1>11, FirstOf
  <2>2. PICK a \in Assignment : writes[1] = a :> NoRecord
    BY <2>1 DEF Removals
  <2>3. DOMAIN (a :> NoRecord) = {a}
    BY OneKey
  <2>4. QED
    BY <1>3, <2>2, <2>3
<1>12. QED
  BY <1>2, <1>4, <1>5, <1>6, <1>7, <1>8, <1>9, <1>10, <1>11 DEF Staged

LEMMA AssignmentStaged ==
  ASSUME AccessInv, NEW c \in Call, SaveAssignment(c)
  PROVE  \E a \in Assignment, new \in Grants \union {NoRecord} :
           /\ Wrote(c, Indexed(a, store[a], new)) /\ work[c].writes[1] = a :> new
           /\ Staged(store', work[c].op, work'[c].seen, work'[c].writes)
           /\ Exists(new) => SavesGrant(work[c].seen, a, new)
<1> DEFINE seen == work[c].seen
           writes == work[c].writes
<1>1. PICK a \in Assignment :
        DOMAIN writes[1] = {a} /\ Wrote(c, Indexed(a, store[a], writes[1][a]))
  BY AssignmentWrote DEF AccessInv
<1>2. /\ work[c].todo = <<>> /\ writes # <<>>
      /\ work'[c].op = work[c].op /\ work'[c].writes = Tail(writes)
  BY <1>1 DEF Wrote
<1>3. Staged(store, work[c].op, seen, writes)
  BY <1>2 DEF AccessInv, Fits
<1>4. DOMAIN writes[1] \subseteq Assignment
  BY <1>1
<1>5. CASE \E b \in Assignment, grant \in Grants :
             writes = << b :> grant >> /\ SavesGrant(seen, b, grant)
  <2>1. PICK b \in Assignment, grant \in Grants :
          writes = << b :> grant >> /\ SavesGrant(seen, b, grant)
    BY <1>5
  <2>2. writes[1] = b :> grant /\ Tail(writes) = <<>>
    BY <2>1, Tails
  <2>3. DOMAIN (b :> grant) = {b} /\ (b :> grant)[b] = grant
    BY OneKey
  <2>4. a = b /\ writes[1][a] = grant
    BY <1>1, <2>2, <2>3
  <2>5. Staged(store', work[c].op, work'[c].seen, work'[c].writes)
    BY <1>2, <2>2, EmptyStaged
  <2>6. QED
    BY <1>1, <2>1, <2>2, <2>4, <2>5
<1>6. CASE writes \in Seq(Removals)
  <2>1. writes[1] \in Removals /\ Tail(writes) \in Seq(Removals)
    BY <1>2, <1>6, FirstOf
  <2>2. PICK b \in Assignment : writes[1] = b :> NoRecord
    BY <2>1 DEF Removals
  <2>3. DOMAIN (b :> NoRecord) = {b} /\ (b :> NoRecord)[b] = NoRecord
    BY OneKey
  <2>4. a = b /\ writes[1][a] = NoRecord
    BY <1>1, <2>2, <2>3
  <2>5. Staged(store', work[c].op, work'[c].seen, work'[c].writes)
    BY <1>2, <2>1 DEF Staged
  <2>6. ~Exists(NoRecord)
    BY DEF Exists
  <2>7. QED
    BY <1>1, <2>2, <2>4, <2>5, <2>6
<1>7. ASSUME NEW k, NEW v, k \notin Assignment, writes[1] = k :> v PROVE FALSE
  BY <1>4, <1>7, NotAssignment
<1>8. CASE \E o \in Organization, org \in OrgRecord : SavesOrg(seen, writes, o, org)
  <2>1. PICK o \in Organization, org \in OrgRecord : SavesOrg(seen, writes, o, org)
    BY <1>8
  <2>2. \/ writes = << o :> org, Member(o, org.owner) :> "active" >>
        \/ writes = << o :> org >>
    BY <2>1 DEF SavesOrg
  <2>3. writes[1] = o :> org
    BY <2>2, Tails
  <2>4. QED
    BY <1>7, <2>3, AccessKeys
<1>9. CASE \E o \in Organization, p \in Principal, state \in MemberState :
             writes = << Member(o, p) :> state >>
  <2>1. PICK o \in Organization, p \in Principal, state \in MemberState :
          writes = << Member(o, p) :> state >>
    BY <1>9
  <2>2. writes[1] = Member(o, p) :> state /\ Member(o, p) \in Members
    BY <2>1, Tails, MemberKeys
  <2>3. QED
    BY <1>7, <2>2, AccessKeys
<1>10. CASE \E m \in Members, i \in Invitation, invitation \in InvitationRecord :
              writes = << m :> "active", i :> invitation >>
  <2>1. PICK m \in Members, i \in Invitation, invitation \in InvitationRecord :
          writes = << m :> "active", i :> invitation >>
    BY <1>10
  <2>2. writes[1] = m :> "active"
    BY <2>1, Tails
  <2>3. QED
    BY <1>7, <2>2, AccessKeys
<1>11. CASE \E k, v : k \in Invitation \union RoleId /\ writes = << k :> v >>
  <2>1. PICK k, v : k \in Invitation \union RoleId /\ writes = << k :> v >>
    BY <1>11
  <2>2. writes[1] = k :> v
    BY <2>1, Tails
  <2>3. QED
    BY <1>7, <2>1, <2>2, AccessKeys
<1>12. CASE writes \in Seq(PermissionWrites)
  <2>1. writes[1] \in PermissionWrites
    BY <1>2, <1>12, FirstOf
  <2>2. PICK k \in Permission, record \in PermissionRecord : writes[1] = k :> record
    BY <2>1 DEF PermissionWrites
  <2>3. QED
    BY <1>7, <2>2, AccessKeys
<1>13. QED
  BY <1>3, <1>5, <1>6, <1>8, <1>9, <1>10, <1>11, <1>12 DEF Staged

LEMMA AssignmentSavesKeep ==
  ASSUME AccessInv, NEW c \in Call, SaveAssignment(c)
  PROVE  AccessInv'
BY AssignmentStaged, AssignmentSaved

-----------------------------------------------------------------------------
(***************************************************************************)
(* Calls that have saved.                                                  *)
(***************************************************************************)
LEMMA PublishMoves ==
  ASSUME CallsOK, NEW c \in Call, Publish(c)
  PROVE  Moves(c)
<1>1. /\ CallsOK' /\ OthersStay(c) /\ work'[c] = Idle /\ store' = store /\ raced \subseteq raced'
      /\ work[c].writes = <<>>
  BY PublishEffect
<1>2. Drafts(c, Idle.seen, Idle.writes) /\ \A k : ~Known(Idle.seen, k)
  BY IdleCall DEF Drafts, Known, Writing
<1>3. \A r : ~Ends(work[c], r)
  <2>1. work[c].op = <<"commit">>
    BY DEF Publish, Reached
  <2>2. \A r : <<"commit">> # <<"deleteAssignments", r>>
    OBVIOUS
  <2>3. QED
    BY <2>1, <2>2 DEF Ends
<1>4. QED
  BY <1>1, <1>2, <1>3, IdleFits DEF Moves

\* A call that has saved reads once more and goes on to its commit.
LEMMA StageMoreMoves ==
  ASSUME CallsOK, Records(store), DraftsInv, NEW c \in Call, Fits(store, work[c]),
         work[c].todo = <<>>, work[c].writes = <<>>,
         NEW keys, NEW writes, NEW news, StageMore(c, <<"commit">>, keys, writes, news),
         Staged(store, <<"commit">>, Answers(keys) @@ work[c].seen, writes),
         \A k \in Lasting : ~Writing(writes, k),
         \A r : Ends(work[c], r) => Removes(writes, r)
  PROVE  Moves(c)
<1>1. /\ work' = [work EXCEPT ![c].op = <<"commit">>, ![c].seen = Answers(keys) @@ @,
                              ![c].writes = writes, ![c].news = news @@ @]
      /\ store' = store /\ raced' = raced
  BY DEF StageMore
<1>2. /\ DOMAIN work' = Call /\ OthersStay(c)
      /\ DOMAIN work'[c] = {"op", "todo", "seen", "writes", "news"}
      /\ work'[c].op = <<"commit">> /\ work'[c].todo = work[c].todo
      /\ work'[c].seen = Answers(keys) @@ work[c].seen /\ work'[c].writes = writes
  BY <1>1 DEF CallsOK, IsCall, OthersStay
<1>3. IsCall(work'[c])
  BY <1>2 DEF CallsOK, IsCall
<1>4. CallsOK'
  BY <1>1, <1>2, <1>3, CallsKept
<1>5. Typed(work'[c].seen)
  BY <1>2, TypedAnswers, TypedMerged DEF Fits
<1>6. Fits(store, work'[c])
  BY <1>2, <1>5 DEF Fits
<1>7. \A k \in Lasting : Known(work'[c].seen, k) => Exists(store[k])
  BY <1>2 DEF Known, Answers, @@, DraftsInv
<1>8. Drafts(c, work'[c].seen, work'[c].writes)
  BY <1>2 DEF Drafts
<1>9. QED
  BY <1>1, <1>2, <1>4, <1>6, <1>7, <1>8 DEF Moves

LEMMA SeedTemplateMoves ==
  ASSUME AccessInv, NEW c \in Call, SeedTemplate(c)
  PROVE  Moves(c)
<1>1. /\ work[c].op = <<"seedTemplate">> /\ work[c].writes = <<>> /\ work[c].todo = <<>>
  BY DEF SeedTemplate, Reached, Committing
<1>2. CallsOK /\ Records(store) /\ DraftsInv /\ Fits(store, work[c])
  BY DEF AccessInv
<1>3. \A r : ~Ends(work[c], r)
  <2>1. \A r : <<"seedTemplate">> # <<"deleteAssignments", r>>
    OBVIOUS
  <2>2. QED
    BY <1>1, <2>1 DEF Ends
<1>4. CASE StageMore(c, <<"commit">>, RoleId, <<>>, <<>>)
  <2>1. \A k : ~Writing(<<>>, k)
    BY DEF Writing
  <2>2. QED
    BY <1>1, <1>2, <1>3, <1>4, <2>1, EmptyStaged, StageMoreMoves
<1>5. CASE \E r \in Fresh(RoleId) :
             /\ AreGood(store, AdminPermissions)
             /\ StageMore(c, <<"commit">>, RoleId,
                          << r :> NewRole(Platform, Admin, AdminPermissions) >>, r :> "created")
  <2>1. PICK r \in Fresh(RoleId) :
          /\ AreGood(store, AdminPermissions)
          /\ StageMore(c, <<"commit">>, RoleId,
                       << r :> NewRole(Platform, Admin, AdminPermissions) >>, r :> "created")
    BY <1>5
  <2> DEFINE role == NewRole(Platform, Admin, AdminPermissions)
             writes == << r :> role >>
  <2>2. r \in RoleId
    BY DEF Fresh
  <2>3. /\ role \in RoleRecord /\ role.permissions = AdminPermissions /\ ~role.deleted
    BY RbacAssumption DEF NewRole, RoleRecord
  <2>4. AreRegistered(store, AdminPermissions)
    BY <2>1 DEF AreGood, AreRegistered
  <2>5. SavesRole(store, <<"commit">>, r, role)
    BY <2>3, <2>4 DEF SavesRole
  <2>6. Staged(store, <<"commit">>, Answers(RoleId) @@ work[c].seen, writes)
    BY <2>2, <2>3, <2>5 DEF Staged
  <2>7. \A k \in Lasting : ~Writing(writes, k)
    BY <2>2, WritingOne, AccessKeys DEF Lasting
  <2>8. StageMore(c, <<"commit">>, RoleId, writes, r :> "created")
    BY <2>1
  <2> HIDE DEF writes, role
  <2>9. QED
    BY <1>1, <1>2, <1>3, <2>6, <2>7, <2>8, StageMoreMoves
<1>6. CASE work' = [work EXCEPT ![c] = Idle] /\ UNCHANGED <<store, told, raced>>
  <2>1. CallsOK' /\ OthersStay(c) /\ work'[c] = Idle /\ store' = store /\ raced' = raced
    <3>1. DOMAIN work' = Call /\ OthersStay(c) /\ work'[c] = Idle
      BY <1>2, <1>6 DEF CallsOK, OthersStay
    <3>2. QED
      BY <1>2, <1>6, <3>1, IdleCall, CallsKept
  <2>2. Drafts(c, Idle.seen, Idle.writes) /\ \A k : ~Known(Idle.seen, k)
    BY IdleCall DEF Drafts, Known, Writing
  <2>3. QED
    BY <1>1, <1>3, <2>1, <2>2, IdleFits DEF Moves
<1>7. QED
  BY <1>4, <1>5, <1>6 DEF SeedTemplate

LEMMA DeleteAssignmentsMoves ==
  ASSUME AccessInv, NEW c \in Call, DeleteAssignments(c)
  PROVE  Moves(c)
<1>1. PICK r \in RoleId :
        LET order == Seqs!SetToSeq({a \in Assignment : Exists(store[a]) /\ store[a].role = r})
        IN  /\ Reached(c, <<"deleteAssignments", r>>)
            /\ StageMore(c, <<"commit">>, Assignment,
                         [i \in DOMAIN order |-> order[i] :> NoRecord],
                         [a \in Seqs!ToSet(order) |-> "revoked"])
  BY DEF DeleteAssignments
<1> DEFINE granted == {a \in Assignment : Exists(store[a]) /\ store[a].role = r}
           order == Seqs!SetToSeq(granted)
           writes == [i \in DOMAIN order |-> order[i] :> NoRecord]
           news == [a \in Seqs!ToSet(order) |-> "revoked"]
<1>2. /\ StageMore(c, <<"commit">>, Assignment, writes, news)
      /\ work[c].op = <<"deleteAssignments", r>> /\ work[c].writes = <<>> /\ work[c].todo = <<>>
  BY <1>1 DEF Reached, Committing
<1>3. IsFiniteSet(granted)
  BY RbacAssumption, FS_Subset
<1>4. granted = {a \in Assignment : Exists(store[a]) /\ store[a].role = r}
  OBVIOUS
<1> HIDE DEF granted
<1>5. /\ Cardinality(granted) \in Nat
      /\ order \in [1 .. Cardinality(granted) -> granted]
      /\ \A a \in granted : \E i \in 1 .. Cardinality(granted) : order[i] = a
  BY <1>3, Listed
<1> HIDE DEF order, news
<1>6. DOMAIN writes = 1 .. Cardinality(granted)
      /\ \A i \in 1 .. Cardinality(granted) : writes[i] = order[i] :> NoRecord /\ order[i] \in granted
  BY <1>5
<1>7. writes \in Seq(Removals)
  <2>1. \A i \in 1 .. Cardinality(granted) : writes[i] \in Removals
    BY <1>4, <1>6 DEF Removals
  <2>2. writes \in [1 .. Cardinality(granted) -> Removals]
    BY <1>6, <2>1
  <2>3. QED
    BY <1>5, <2>2, SeqDef
<1> HIDE DEF writes
<1>8. Staged(store, <<"commit">>, Answers(Assignment) @@ work[c].seen, writes)
  BY <1>7 DEF Staged
<1>9. \A k \in Lasting : ~Writing(writes, k)
  <2>1. SUFFICES ASSUME NEW k, NEW i \in DOMAIN writes, k \in DOMAIN writes[i]
                 PROVE  k \in Assignment
    BY AccessKeys DEF Lasting, Writing
  <2>2. k \in DOMAIN (order[i] :> NoRecord) /\ order[i] \in granted
    BY <1>6, <2>1
  <2>3. DOMAIN (order[i] :> NoRecord) = {order[i]}
    BY OneKey
  <2>4. QED
    BY <1>4, <2>2, <2>3
<1>10. Removes(writes, r)
  BY <1>4, <1>5, <1>6 DEF Removes
<1>11. ASSUME NEW x, Ends(work[c], x) PROVE Removes(writes, x)
  <2>1. << "deleteAssignments", r >> = << "deleteAssignments", x >>
    BY <1>2, <1>11 DEF Ends
  <2>2. x = r
    BY <2>1
  <2>3. QED
    BY <1>10, <2>2
<1>12. QED
  BY <1>2, <1>8, <1>9, <1>11, StageMoreMoves DEF AccessInv

-----------------------------------------------------------------------------
(***************************************************************************)
(* Organizations and their locations, in one read.                         *)
(***************************************************************************)
LEMMA AccessFacts ==
  ASSUME AccessInv, NEW c \in Call
  PROVE  CallsOK /\ Records(store) /\ DraftsInv /\ Fits(store, work[c])
BY DEF AccessInv

LEMMA FreshIn ==
  ASSUME NEW S, NEW k \in Fresh(S)
  PROVE  k \in S /\ ~Exists(store[k]) /\ (S \subseteq Lasting => k \in Fresh(Lasting))
BY DEF Fresh

\* What a call has seen after its last read.
LEMMA Sees ==
  ASSUME NEW c, NEW reads, NEW keys, reads[Len(reads)] = keys
  PROVE  /\ \A k \in keys : k \in DOMAIN Saw(c, reads) /\ Saw(c, reads)[k] = store[k]
         /\ \A k : k \notin keys /\ k \in DOMAIN work[c].seen =>
              k \in DOMAIN Saw(c, reads) /\ Saw(c, reads)[k] = work[c].seen[k]
BY DEF Saw, Answers, @@

LEMMA OneRead ==
  ASSUME NEW keys
  PROVE  << keys >>[Len(<< keys >>)] = keys
OBVIOUS

LEMMA OrgOnFile ==
  ASSUME Records(store), NEW o \in Organization, Exists(store[o])
  PROVE  /\ store[o] \in OrgRecord /\ store[o].owner \in Principal
         /\ store[o].slug \in Slug \union {NoSlug} /\ store[o].locations \in Locations
BY DEF Records, Exists, OrgRecord

LEMMA CreateOrganizationMoves ==
  ASSUME AccessInv, NEW c \in Call, CreateOrganization(c)
  PROVE  Moves(c)
<1>1. PICK o \in Fresh(Organization), p \in Principal, slug \in Slug \union {NoSlug} :
        /\ IsIdle(c)
        /\ FindBySlug(slug) = {} \/ slug = NoSlug
        /\ Stage(c, << IF slug = NoSlug THEN {} ELSE Organization >>,
                 << o :> NewOrganization(p, slug), Member(o, p) :> "active" >>,
                 (o :> "active") @@ (Member(o, p) :> "active"))
  BY DEF CreateOrganization
<1> DEFINE org == NewOrganization(p, slug)
           keys == IF slug = NoSlug THEN {} ELSE Organization
           writes == << o :> org, Member(o, p) :> "active" >>
           seen == Saw(c, << keys >>)
<1>2. o \in Organization /\ ~Exists(store[o]) /\ o \in Fresh(Lasting)
  BY FreshIn DEF Lasting
<1>3. org \in OrgRecord /\ org.owner = p /\ org.slug = slug
  <2>1. <<>> \in [{} -> [code : LocationCode, active : BOOLEAN]]
    OBVIOUS
  <2>2. <<>> \in Locations
    BY <2>1 DEF Locations
  <2>3. QED
    BY <2>2 DEF NewOrganization, OrgRecord
<1>4. ~Known(seen, o)
  BY <1>2, AccessFacts, SawKnown DEF Lasting
<1>5. slug # NoSlug => \A q \in Organization :
        q \in DOMAIN seen /\ (IsOrg(seen[q]) => seen[q].slug # slug)
  BY <1>1, Sees, OneRead DEF FindBySlug
<1>6. SavesOrg(seen, writes, o, org)
  BY <1>3, <1>4, <1>5 DEF SavesOrg
<1>7. Staged(store, <<"commit">>, seen, writes)
  BY <1>2, <1>3, <1>6 DEF Staged
<1>8. \A k \in Lasting : Writing(writes, k) => k = o
  <2>1. \A k : Writing(writes, k) <=> k \in {o, Member(o, p)}
    BY WritingTwo
  <2>2. Member(o, p) \notin Lasting
    BY <1>2, MemberKeys, AccessKeys DEF Lasting
  <2>3. QED
    BY <2>1, <2>2
<1>9. IsFree(c)
  BY <1>1 DEF IsFree
<1>10. Stage(c, << keys >>, writes, (o :> "active") @@ (Member(o, p) :> "active"))
  BY <1>1
<1> HIDE DEF org, keys, writes, seen
<1>11. QED
  BY <1>2, <1>7, <1>8, <1>9, <1>10, AccessFacts, StageMoves DEF seen

\* An organization is saved as it was read, except for one change.
LEMMA ChangeOrganizationMoves ==
  ASSUME AccessInv, NEW c \in Call, NEW o \in Organization, NEW org \in OrgRecord, NEW news,
         ChangeOrganization(c, o, org, news), org.owner = store[o].owner,
         org.slug \in {store[o].slug, NoSlug},
         DOMAIN store[o].locations \subseteq DOMAIN org.locations
  PROVE  Moves(c)
<1> DEFINE writes == << o :> org >>
           seen == Saw(c, << {o} >>)
<1>1. IsIdle(c) /\ IsOrg(store[o]) /\ Stage(c, << {o} >>, writes, news)
  BY DEF ChangeOrganization
<1>2. o \in DOMAIN seen /\ seen[o] = store[o] /\ Known(seen, o)
  BY <1>1, Sees, OneRead DEF Known, IsOrg
<1>3. SavesOrg(seen, writes, o, org)
  BY <1>1, <1>2 DEF SavesOrg
<1>4. Staged(store, <<"commit">>, seen, writes)
  BY <1>3 DEF Staged
<1>5. \A k : Writing(writes, k) <=> k = o
  BY WritingOne
<1>6. IsFree(c)
  BY <1>1 DEF IsFree
<1> HIDE DEF writes, seen
<1>7. QED
  BY <1>1, <1>2, <1>4, <1>5, <1>6, AccessFacts, StageMoves DEF seen

LEMMA SetStatusMoves ==
  ASSUME AccessInv, NEW c \in Call, NEW to \in {"active", "suspended", "archived", "deleted"},
         SetStatus(c, to)
  PROVE  Moves(c)
<1>1. PICK o \in Organization :
        ChangeOrganization(c, o, [store[o] EXCEPT !.status = to], o :> to)
  BY DEF SetStatus
<1>2. store[o] \in OrgRecord
  BY <1>1, AccessFacts, OrgOnFile DEF ChangeOrganization, IsOrg
<1> DEFINE org == [store[o] EXCEPT !.status = to]
<1>3. /\ org \in OrgRecord /\ org.owner = store[o].owner /\ org.slug = store[o].slug
      /\ org.locations = store[o].locations
  BY <1>2 DEF OrgRecord
<1> HIDE DEF org
<1>4. ChangeOrganization(c, o, org, o :> to)
  BY <1>1 DEF org
<1>5. QED
  BY <1>3, <1>4, ChangeOrganizationMoves

LEMMA DropSlugMoves ==
  ASSUME AccessInv, NEW c \in Call, DropSlug(c)
  PROVE  Moves(c)
<1>1. PICK o \in Organization :
        ChangeOrganization(c, o, [store[o] EXCEPT !.slug = NoSlug], <<>>)
  BY DEF DropSlug
<1>2. store[o] \in OrgRecord
  BY <1>1, AccessFacts, OrgOnFile DEF ChangeOrganization, IsOrg
<1> DEFINE org == [store[o] EXCEPT !.slug = NoSlug]
<1>3. /\ org \in OrgRecord /\ org.owner = store[o].owner /\ org.slug = NoSlug
      /\ org.locations = store[o].locations
  BY <1>2 DEF OrgRecord
<1> HIDE DEF org
<1>4. ChangeOrganization(c, o, org, <<>>)
  BY <1>1 DEF org
<1>5. QED
  BY <1>3, <1>4, ChangeOrganizationMoves

LEMMA ChangeNamesMoves ==
  ASSUME AccessInv, NEW c \in Call, ChangeNames(c)
  PROVE  Moves(c)
<1>1. PICK o \in Organization : ChangeOrganization(c, o, store[o], <<>>)
  BY DEF ChangeNames
<1>2. store[o] \in OrgRecord
  BY <1>1, AccessFacts, OrgOnFile DEF ChangeOrganization, IsOrg
<1>3. QED
  BY <1>1, <1>2, ChangeOrganizationMoves

LEMMA LocationAdded ==
  ASSUME NEW locations \in Locations, NEW l \in Location,
         NEW location \in [code : LocationCode, active : BOOLEAN]
  PROVE  /\ (l :> location) @@ locations \in Locations
         /\ DOMAIN locations \subseteq DOMAIN ((l :> location) @@ locations)
<1>1. PICK L \in SUBSET Location : locations \in [L -> [code : LocationCode, active : BOOLEAN]]
  BY DEF Locations
<1>2. (l :> location) @@ locations \in [L \union {l} -> [code : LocationCode, active : BOOLEAN]]
  BY <1>1 DEF :>, @@
<1>3. L \union {l} \in SUBSET Location
  BY <1>1
<1>4. QED
  BY <1>1, <1>2, <1>3 DEF Locations

LEMMA AddLocationMoves ==
  ASSUME AccessInv, NEW c \in Call, AddLocation(c)
  PROVE  Moves(c)
<1>1. PICK o \in Organization, l \in Fresh(Location), code \in LocationCode :
        ChangeOrganization(c, o,
          [store[o] EXCEPT !.locations = (l :> [code |-> code, active |-> TRUE]) @@ @],
          l :> "created")
  BY DEF AddLocation
<1>2. store[o] \in OrgRecord /\ store[o].locations \in Locations /\ l \in Location
  BY <1>1, AccessFacts, OrgOnFile, FreshIn DEF ChangeOrganization, IsOrg
<1> DEFINE locations == (l :> [code |-> code, active |-> TRUE]) @@ store[o].locations
           org == [store[o] EXCEPT !.locations = locations]
<1>3. locations \in Locations /\ DOMAIN store[o].locations \subseteq DOMAIN locations
  BY <1>2, LocationAdded
<1>4. ChangeOrganization(c, o, org, l :> "created")
  BY <1>1
<1> HIDE DEF locations
<1>5. /\ org \in OrgRecord /\ org.owner = store[o].owner /\ org.slug = store[o].slug
      /\ org.locations = locations
  BY <1>2, <1>3 DEF OrgRecord
<1> HIDE DEF org
<1>6. QED
  BY <1>3, <1>4, <1>5, ChangeOrganizationMoves

LEMMA DeactivateLocationMoves ==
  ASSUME AccessInv, NEW c \in Call, DeactivateLocation(c)
  PROVE  Moves(c)
<1>1. PICK o \in Organization, l \in Location :
        /\ l \in DOMAIN store[o].locations
        /\ ChangeOrganization(c, o, [store[o] EXCEPT !.locations[l].active = FALSE], <<>>)
  BY DEF DeactivateLocation
<1>2. store[o] \in OrgRecord /\ store[o].locations \in Locations
  BY <1>1, AccessFacts, OrgOnFile DEF ChangeOrganization, IsOrg
<1> DEFINE locations == [store[o].locations EXCEPT ![l].active = FALSE]
           org == [store[o] EXCEPT !.locations = locations]
<1>3. ChangeOrganization(c, o, org, <<>>)
  BY <1>1
<1>4. locations \in Locations /\ DOMAIN store[o].locations \subseteq DOMAIN locations
  <2>1. PICK L \in SUBSET Location :
          store[o].locations \in [L -> [code : LocationCode, active : BOOLEAN]]
    BY <1>2 DEF Locations
  <2>2. locations \in [L -> [code : LocationCode, active : BOOLEAN]]
    BY <1>1, <2>1
  <2>3. QED
    BY <2>1, <2>2 DEF Locations
<1> HIDE DEF locations
<1>5. /\ org \in OrgRecord /\ org.owner = store[o].owner /\ org.slug = store[o].slug
      /\ org.locations = locations
  BY <1>2, <1>4 DEF OrgRecord
<1> HIDE DEF org
<1>6. QED
  BY <1>3, <1>4, <1>5, ChangeOrganizationMoves

-----------------------------------------------------------------------------
(***************************************************************************)
(* Memberships, invitations and permissions, in one read.                  *)
(***************************************************************************)
LEMMA MembershipStaged ==
  ASSUME AccessInv, NEW c \in Call, IsFree(c), NEW o \in Organization, NEW p \in Principal,
         NEW to \in MemberState, NEW reads, NEW news,
         SavesMember(Saw(c, reads), o, p, to),
         Stage(c, reads, << Member(o, p) :> to >>, news)
  PROVE  Moves(c)
<1> DEFINE writes == << Member(o, p) :> to >>
<1>1. Staged(store, <<"commit">>, Saw(c, reads), writes)
  BY DEF Staged
<1>2. \A k \in Lasting : ~Writing(writes, k)
  <2>1. \A k : Writing(writes, k) <=> k = Member(o, p)
    BY WritingOne
  <2>2. QED
    BY <2>1, MemberKeys, AccessKeys DEF Lasting
<1> HIDE DEF writes
<1>3. Stage(c, reads, writes, news)
  BY DEF writes
<1>4. QED
  BY <1>1, <1>2, <1>3, AccessFacts, StageMoves

LEMMA SetMembershipStateMoves ==
  ASSUME AccessInv, NEW c \in Call, NEW to \in {"active", "suspended"}, SetMembershipState(c, to)
  PROVE  Moves(c)
<1>1. PICK o \in Organization, p \in Principal :
        IsIdle(c) /\ Stage(c, << {Member(o, p)} >>, << Member(o, p) :> to >>, Member(o, p) :> to)
  BY DEF SetMembershipState
<1>2. IsFree(c) /\ to \in MemberState
  BY <1>1 DEF IsFree, MemberState
<1>3. SavesMember(Saw(c, << {Member(o, p)} >>), o, p, to)
  BY DEF SavesMember
<1>4. QED
  BY <1>1, <1>2, <1>3, MembershipStaged

LEMMA CreateInvitationMoves ==
  ASSUME AccessInv, NEW c \in Call, CreateInvitation(c)
  PROVE  Moves(c)
<1>1. PICK o \in Organization, p \in Principal, i \in Fresh(Invitation) :
        /\ IsIdle(c)
        /\ Stage(c, << {o} >>, << i :> [org |-> o, to |-> p, state |-> "pending"] >>,
                 i :> "pending")
  BY DEF CreateInvitation
<1> DEFINE invitation == [org |-> o, to |-> p, state |-> "pending"]
           writes == << i :> invitation >>
           seen == Saw(c, << {o} >>)
<1>2. i \in Invitation /\ ~Exists(store[i]) /\ i \in Fresh(Lasting)
  BY FreshIn DEF Lasting
<1>3. ~Known(seen, i)
  BY <1>2, AccessFacts, SawKnown DEF Lasting
<1>4. invitation \in InvitationRecord
  BY DEF InvitationRecord
<1>5. Staged(store, <<"commit">>, seen, writes)
  BY <1>2, <1>3, <1>4 DEF Staged, SavesInvitation
<1>6. \A k : Writing(writes, k) <=> k = i
  BY WritingOne
<1>7. IsFree(c) /\ Stage(c, << {o} >>, writes, i :> "pending")
  BY <1>1 DEF IsFree
<1> HIDE DEF invitation, writes, seen
<1>8. QED
  BY <1>2, <1>5, <1>6, <1>7, AccessFacts, StageMoves DEF seen

LEMMA CloseInvitationMoves ==
  ASSUME AccessInv, NEW c \in Call, NEW to \in {"declined", "revoked"}, CloseInvitation(c, to)
  PROVE  Moves(c)
<1>1. PICK i \in Invitation :
        /\ IsIdle(c) /\ IsPending(store[i])
        /\ Stage(c, << {i} >>, << i :> [store[i] EXCEPT !.state = to] >>, i :> to)
  BY DEF CloseInvitation
<1> DEFINE invitation == [store[i] EXCEPT !.state = to]
           writes == << i :> invitation >>
           seen == Saw(c, << {i} >>)
<1>2. store[i] \in InvitationRecord
  BY <1>1, AccessFacts DEF Records, IsPending, Exists
<1>3. invitation \in InvitationRecord
  BY <1>2 DEF InvitationRecord
<1>4. i \in DOMAIN seen /\ seen[i] = store[i] /\ Known(seen, i)
  BY <1>1, Sees, OneRead DEF Known, IsPending
<1>5. SavesInvitation(seen, i)
  BY <1>1, <1>4 DEF SavesInvitation
<1>6. Staged(store, <<"commit">>, seen, writes)
  BY <1>3, <1>5 DEF Staged
<1>7. \A k : Writing(writes, k) <=> k = i
  BY WritingOne
<1>8. IsFree(c) /\ Stage(c, << {i} >>, writes, i :> to)
  BY <1>1 DEF IsFree
<1> HIDE DEF invitation, writes, seen
<1>9. QED
  BY <1>4, <1>6, <1>7, <1>8, AccessFacts, StageMoves DEF seen

LEMMA PermissionStaged ==
  ASSUME AccessInv, NEW c \in Call, IsIdle(c), NEW k \in Permission,
         NEW record \in PermissionRecord, NEW reads, NEW news,
         Stage(c, reads, << k :> record >>, news)
  PROVE  Moves(c)
<1> DEFINE writes == << k :> record >>
<1>1. writes \in Seq(PermissionWrites)
  BY DEF PermissionWrites
<1>2. Staged(store, <<"commit">>, Saw(c, reads), writes)
  BY <1>1 DEF Staged
<1>3. \A x \in Lasting : ~Writing(writes, x)
  BY WritingOne, AccessKeys DEF Lasting
<1>4. IsFree(c) /\ Stage(c, reads, writes, news)
  BY DEF IsFree
<1> HIDE DEF writes
<1>5. QED
  BY <1>2, <1>3, <1>4, AccessFacts, StageMoves

LEMMA PermissionMoves ==
  ASSUME AccessInv, NEW c \in Call, RegisterPermission(c) \/ DeprecatePermission(c)
  PROVE  Moves(c)
<1>1. [deprecated |-> FALSE] \in PermissionRecord /\ [deprecated |-> TRUE] \in PermissionRecord
  BY DEF PermissionRecord
<1>2. CASE RegisterPermission(c)
  <2>1. PICK k \in Permission :
          IsIdle(c) /\ Stage(c, << {k} >>, << k :> [deprecated |-> FALSE] >>, k :> "registered")
    BY <1>2 DEF RegisterPermission
  <2>2. QED
    BY <1>1, <2>1, PermissionStaged
<1>3. CASE DeprecatePermission(c)
  <2>1. PICK k \in Permission :
          IsIdle(c) /\ Stage(c, << {k} >>, << k :> [deprecated |-> TRUE] >>, k :> "deprecated")
    BY <1>3 DEF DeprecatePermission
  <2>2. QED
    BY <1>1, <2>1, PermissionStaged
<1>4. QED
  BY <1>2, <1>3

LEMMA SeedPermissionsMoves ==
  ASSUME AccessInv, NEW c \in Call, SeedPermissions(c)
  PROVE  Moves(c)
<1> DEFINE missing == {k \in AdminPermissions : ~Exists(store[k])}
           order == Seqs!SetToSeq(missing)
           writes == [i \in DOMAIN order |-> order[i] :> [deprecated |-> FALSE]]
           news == [k \in Seqs!ToSet(order) |-> "registered"]
<1>1. IsIdle(c) /\ StageFor(c, <<"seedTemplate">>, << AdminPermissions >>, writes, news)
  BY DEF SeedPermissions
<1>2. IsFiniteSet(missing)
  BY RbacAssumption, FS_Subset
<1>3. missing \subseteq Permission /\ \A k \in AdminPermissions : Exists(store[k]) \/ k \in missing
  BY RbacAssumption
<1> HIDE DEF missing
<1>4. /\ Cardinality(missing) \in Nat
      /\ order \in [1 .. Cardinality(missing) -> missing]
      /\ \A k \in missing : \E i \in 1 .. Cardinality(missing) : order[i] = k
  BY <1>2, Listed
<1> HIDE DEF order, news
<1>5. /\ DOMAIN writes = 1 .. Cardinality(missing)
      /\ \A i \in 1 .. Cardinality(missing) :
           writes[i] = order[i] :> [deprecated |-> FALSE] /\ order[i] \in missing
  BY <1>4
<1>6. \A i \in 1 .. Cardinality(missing) : DOMAIN writes[i] = {order[i]}
  BY <1>5, OneKey
<1>7. writes \in Seq(PermissionWrites)
  <2>1. [deprecated |-> FALSE] \in PermissionRecord
    BY DEF PermissionRecord
  <2>2. \A i \in 1 .. Cardinality(missing) : writes[i] \in PermissionWrites
    BY <1>3, <1>5, <2>1 DEF PermissionWrites
  <2>3. writes \in [1 .. Cardinality(missing) -> PermissionWrites]
    BY <1>5, <2>2
  <2>4. QED
    BY <1>4, <2>3, SeqDef
<1> HIDE DEF writes
<1>8. Staged(store, <<"seedTemplate">>, Saw(c, << AdminPermissions >>), writes)
  BY <1>7 DEF Staged
<1>9. \A k \in Lasting : ~Writing(writes, k)
  <2>1. \A k : Writing(writes, k) => k \in missing
    BY <1>5, <1>6 DEF Writing
  <2>2. QED
    BY <1>3, <2>1, AccessKeys DEF Lasting
<1>10. IsFree(c)
  BY <1>1 DEF IsFree
<1>11. QED
  BY <1>1, <1>8, <1>9, <1>10, AccessFacts, StageForMoves

LEMMA RoleOnFile ==
  ASSUME Records(store), NEW r \in RoleId, Exists(store[r])
  PROVE  store[r] \in RoleRecord /\ AreRegistered(store, store[r].permissions)
BY DEF Records, Exists, AreRegistered

LEMMA DeleteRoleMoves ==
  ASSUME AccessInv, NEW c \in Call, DeleteRole(c)
  PROVE  Moves(c)
<1>1. PICK r \in RoleId :
        /\ IsIdle(c) /\ IsLive(store[r])
        /\ StageFor(c, <<"deleteAssignments", r>>, << {r} >>,
                    << r :> [store[r] EXCEPT !.deleted = TRUE] >>, r :> "deleted")
  BY DEF DeleteRole
<1> DEFINE role == [store[r] EXCEPT !.deleted = TRUE]
           writes == << r :> role >>
<1>2. store[r] \in RoleRecord /\ AreRegistered(store, store[r].permissions)
  BY <1>1, AccessFacts, RoleOnFile DEF IsLive
<1>3. role \in RoleRecord /\ role.permissions = store[r].permissions
  BY <1>2 DEF RoleRecord
<1>4. Staged(store, <<"deleteAssignments", r>>, Saw(c, << {r} >>), writes)
  BY <1>2, <1>3 DEF Staged, SavesRole
<1>5. \A k \in Lasting : ~Writing(writes, k)
  BY WritingOne, AccessKeys DEF Lasting
<1>6. IsFree(c) /\ StageFor(c, <<"deleteAssignments", r>>, << {r} >>, writes, r :> "deleted")
  BY <1>1 DEF IsFree
<1> HIDE DEF role, writes
<1>7. QED
  BY <1>4, <1>5, <1>6, AccessFacts, StageForMoves

-----------------------------------------------------------------------------
(***************************************************************************)
(* Calls that read twice.                                                  *)
(***************************************************************************)
\* The first of two reads.
LEMMA FirstOfTwo ==
  ASSUME CallsOK, NEW c \in Call, NEW op, NEW first \in SUBSET Key, NEW last \in SUBSET Key,
         Read(c, op, << first, last >>),
         work[c].op = op /\ work[c].todo # <<>> => work[c].todo = << last >>
  PROVE  /\ work'[c].op = op /\ work'[c].todo = << last >> /\ work'[c].seen = Answers(first)
         /\ << first, last >> \in Seq(SUBSET Key)
<1> DEFINE reads == << first, last >>
<1>1. /\ reads \in Seq(SUBSET Key) /\ reads[1] = first /\ Tail(reads) = << last >>
      /\ Len(<< last >>) = 1
  OBVIOUS
<1>2. CASE work[c].op = op /\ Len(work[c].todo) > 1
  <2>1. work[c].todo # <<>>
    BY <1>2, NotEmpty DEF CallsOK, IsCall
  <2>2. QED
    BY <1>1, <1>2, <2>1
<1> HIDE DEF reads
<1>3. work'[c].op = op
  BY <1>1, ReadEffect DEF reads
<1>4. QED
  BY <1>1, <1>2, <1>3, ReadAnswers DEF reads

\* A call at the last of its reads.
LEMMA FreeAtLast ==
  ASSUME CallsOK, NEW c \in Call, NEW op, NEW reads, Len(reads) # 1, LastRead(c, op, reads)
  PROVE  work[c].op = op /\ Len(work[c].todo) = 1 /\ work[c].todo # <<>> /\ IsFree(c)
BY AtLast DEF IsFree

LEMMA SeesTwo ==
  ASSUME NEW c, NEW first, NEW last
  PROVE  LET seen == Saw(c, << first, last >>)
         IN  /\ \A k \in last : k \in DOMAIN seen /\ seen[k] = store[k]
             /\ \A k \in DOMAIN work[c].seen : k \notin last =>
                  k \in DOMAIN seen /\ seen[k] = work[c].seen[k]
<1> DEFINE reads == << first, last >>
<1>1. reads[Len(reads)] = last
  OBVIOUS
<1> HIDE DEF reads
<1>2. QED
  BY <1>1, Sees DEF reads

LEMMA AtLastOfTwo ==
  ASSUME CallsOK, NEW c \in Call, NEW op, NEW first, NEW last, LastRead(c, op, << first, last >>)
  PROVE  work[c].op = op /\ work[c].todo # <<>> /\ IsFree(c)
<1> DEFINE reads == << first, last >>
<1>1. Len(reads) # 1 /\ LastRead(c, op, reads)
  OBVIOUS
<1> HIDE DEF reads
<1>2. QED
  BY <1>1, FreeAtLast

\* A call that is still reading.
LEMMA StillReading ==
  ASSUME AccessInv, NEW c \in Call, work[c].todo # <<>>
  PROVE  Reading(store, work[c]) /\ Typed(work[c].seen)
BY DEF AccessInv, Fits

LEMMA OrgRead ==
  ASSUME NEW f, Typed(f), NEW o \in Organization, ReadsOrg(f, o)
  PROVE  f[o] \in OrgRecord
BY DEF Typed, ReadsOrg, Known, Exists

LEMMA RenameReading ==
  ASSUME NEW s, NEW call, NEW o, NEW slug, call.op = <<"rename", o, slug>>
  PROVE  Reading(s, call) <=> call.todo = << Organization \ {o} >> /\ ReadsOrg(call.seen, o)
BY DEF Reading

LEMMA RenameMoves ==
  ASSUME AccessInv, NEW c \in Call, RenameOrganization(c)
  PROVE  Moves(c)
<1>1. PICK o \in Organization, slug \in Slug :
        LET op == <<"rename", o, slug>>
            reads == << {o}, Organization \ {o} >>
        IN  \/ IsOrg(store[o]) /\ Read(c, op, reads)
            \/ /\ LastRead(c, op, reads)
               /\ FindBySlug(slug) \subseteq {o}
               /\ Stage(c, reads, << o :> [work[c].seen[o] EXCEPT !.slug = slug] >>, <<>>)
  BY DEF RenameOrganization
<1> DEFINE op == <<"rename", o, slug>>
           others == Organization \ {o}
           reads == << {o}, others >>
<1>2. CallsOK /\ {o} \in SUBSET Key /\ others \in SUBSET Key
  BY AccessFacts, AccessKeys
<1>3. work[c].todo # <<>> /\ work[c].op = op => work[c].todo = << others >> /\ ReadsOrg(work[c].seen, o)
  BY StillReading, RenameReading
<1>4. CASE IsOrg(store[o]) /\ Read(c, op, reads)
  <2>1. Read(c, op, << {o}, others >>)
    BY <1>4
  <2>2. work'[c].op = op /\ work'[c].todo = << others >> /\ work'[c].seen = Answers({o})
        /\ reads \in Seq(SUBSET Key)
    BY <1>2, <1>3, <2>1, FirstOfTwo
  <2>3. ReadsOrg(work'[c].seen, o)
    BY <1>4, <2>2 DEF ReadsOrg, Known, Answers, IsOrg
  <2>4. Reading(store, work'[c])
    BY <2>2, <2>3, RenameReading
  <2>5. QED
    BY <1>4, <2>2, <2>4, AccessFacts, ReadMoves
<1>5. CASE /\ LastRead(c, op, reads)
           /\ FindBySlug(slug) \subseteq {o}
           /\ Stage(c, reads, << o :> [work[c].seen[o] EXCEPT !.slug = slug] >>, <<>>)
  <2> DEFINE org == [work[c].seen[o] EXCEPT !.slug = slug]
             writes == << o :> org >>
             seen == Saw(c, reads)
  <2>1. work[c].op = op /\ work[c].todo # <<>> /\ IsFree(c)
    BY <1>2, <1>5, AtLastOfTwo
  <2>2. ReadsOrg(work[c].seen, o) /\ work[c].seen[o] \in OrgRecord
    BY <1>3, <2>1, StillReading, OrgRead
  <2>3. /\ \A q \in others : q \in DOMAIN seen /\ seen[q] = store[q]
        /\ o \in DOMAIN seen /\ seen[o] = work[c].seen[o]
    BY <2>2, SeesTwo DEF ReadsOrg, Known
  <2>4. /\ org \in OrgRecord /\ org.owner = work[c].seen[o].owner /\ org.slug = slug
        /\ org.locations = work[c].seen[o].locations
    BY <2>2 DEF OrgRecord
  <2>5. \A q \in others : IsOrg(store[q]) => store[q].slug # slug
    BY <1>5 DEF FindBySlug
  <2>6. Known(seen, o) /\ IsOrg(seen[o])
    BY <2>2, <2>3 DEF ReadsOrg, Known
  <2>7. Stage(c, reads, writes, <<>>)
    BY <1>5
  <2>8. \A k : Writing(writes, k) <=> k = o
    BY WritingOne
  <2>9. writes = << o :> org >>
    OBVIOUS
  <2> HIDE DEF org, writes, seen
  <2>10. SavesOrg(seen, writes, o, org)
    BY <2>3, <2>4, <2>5, <2>6, <2>9 DEF SavesOrg
  <2>11. Staged(store, <<"commit">>, seen, writes)
    BY <2>4, <2>10 DEF Staged
  <2>12. QED
    BY <2>1, <2>6, <2>7, <2>8, <2>11, AccessFacts, StageMoves DEF seen
<1>6. QED
  BY <1>1, <1>4, <1>5

LEMMA TransferReading ==
  ASSUME NEW s, NEW call, NEW o, NEW q, call.op = <<"transfer", o, q>>
  PROVE  Reading(s, call) <=> call.todo = << {Member(o, q)} >> /\ ReadsOrg(call.seen, o)
BY DEF Reading

LEMMA TransferMoves ==
  ASSUME AccessInv, NEW c \in Call, TransferOwnership(c)
  PROVE  Moves(c)
<1>1. PICK o \in Organization, q \in Principal :
        LET op == <<"transfer", o, q>>
            reads == << {o}, {Member(o, q)} >>
            seen == Saw(c, reads)
        IN  \/ IsOrg(store[o]) /\ Read(c, op, reads)
            \/ /\ LastRead(c, op, reads)
               /\ seen[Member(o, q)] = "active"
               /\ Stage(c, reads, << o :> [seen[o] EXCEPT !.owner = q] >>, <<>>)
  BY DEF TransferOwnership
<1> DEFINE op == <<"transfer", o, q>>
           m == Member(o, q)
           reads == << {o}, {m} >>
           seen == Saw(c, reads)
<1>2. CallsOK /\ {o} \in SUBSET Key /\ {m} \in SUBSET Key /\ o # m
  BY AccessFacts, AccessKeys, MemberKeys
<1>3. work[c].todo # <<>> /\ work[c].op = op => work[c].todo = << {m} >> /\ ReadsOrg(work[c].seen, o)
  BY StillReading, TransferReading
<1>4. CASE IsOrg(store[o]) /\ Read(c, op, reads)
  <2>1. work'[c].op = op /\ work'[c].todo = << {m} >> /\ work'[c].seen = Answers({o})
        /\ reads \in Seq(SUBSET Key)
    BY <1>2, <1>3, <1>4, FirstOfTwo
  <2>2. ReadsOrg(work'[c].seen, o)
    BY <1>4, <2>1 DEF ReadsOrg, Known, Answers, IsOrg
  <2>3. Reading(store, work'[c])
    BY <2>1, <2>2, TransferReading
  <2>4. QED
    BY <1>4, <2>1, <2>3, AccessFacts, ReadMoves
<1>5. CASE /\ LastRead(c, op, reads) /\ seen[m] = "active"
           /\ Stage(c, reads, << o :> [seen[o] EXCEPT !.owner = q] >>, <<>>)
  <2> DEFINE org == [seen[o] EXCEPT !.owner = q]
             writes == << o :> org >>
  <2>1. work[c].op = op /\ work[c].todo # <<>> /\ IsFree(c)
    BY <1>2, <1>5, AtLastOfTwo
  <2>2. ReadsOrg(work[c].seen, o) /\ work[c].seen[o] \in OrgRecord
    BY <1>3, <2>1, StillReading, OrgRead
  <2>3. /\ m \in DOMAIN seen /\ o \in DOMAIN seen /\ seen[o] = work[c].seen[o]
    <3>1. o \in DOMAIN work[c].seen /\ o \notin {m} /\ m \in {m}
      BY <1>2, <2>2 DEF ReadsOrg, Known
    <3>2. QED
      BY <3>1, SeesTwo
  <2>4. /\ org \in OrgRecord /\ org.owner = q /\ org.slug = seen[o].slug
        /\ org.locations = seen[o].locations
    BY <2>2, <2>3 DEF OrgRecord
  <2>5. Known(seen, o) /\ IsOrg(seen[o])
    BY <2>2, <2>3 DEF ReadsOrg, Known
  <2>6. Stage(c, reads, writes, <<>>)
    BY <1>5
  <2>7. \A k : Writing(writes, k) <=> k = o
    BY WritingOne
  <2>8. writes = << o :> org >>
    OBVIOUS
  <2>9. seen[m] = "active"
    BY <1>5
  <2> HIDE DEF org, writes, seen
  <2>10. SavesOrg(seen, writes, o, org)
    BY <2>3, <2>4, <2>5, <2>8, <2>9 DEF SavesOrg
  <2>11. Staged(store, <<"commit">>, seen, writes)
    BY <2>4, <2>10 DEF Staged
  <2>12. QED
    BY <2>1, <2>5, <2>6, <2>7, <2>11, AccessFacts, StageMoves DEF seen
<1>6. QED
  BY <1>1, <1>4, <1>5

\* A call whose operation says nothing about what it has read.
LEMMA PlainRead ==
  ASSUME AccessInv, NEW c \in Call, NEW op, NEW first \in SUBSET Key, NEW last \in SUBSET Key,
         Read(c, op, << first, last >>),
         \A call : call.op = op => Reading(store, call)
  PROVE  Moves(c)
<1> DEFINE reads == << first, last >>
<1>1. reads \in Seq(SUBSET Key) /\ Read(c, op, reads)
  OBVIOUS
<1> HIDE DEF reads
<1>2. work'[c].op = op
  BY <1>1, AccessFacts, ReadEffect
<1>3. Reading(store, work'[c])
  BY <1>2
<1>4. QED
  BY <1>1, <1>3, AccessFacts, ReadMoves

LEMMA AddMembershipMoves ==
  ASSUME AccessInv, NEW c \in Call, AddMembership(c)
  PROVE  Moves(c)
<1>1. PICK o \in Organization, p \in Principal :
        LET op == <<"add", o, p>>
            reads == << {o}, {Member(o, p)} >>
        IN  \/ Read(c, op, reads)
            \/ /\ LastRead(c, op, reads)
               /\ Stage(c, reads, << Member(o, p) :> "active" >>, Member(o, p) :> "active")
  BY DEF AddMembership
<1> DEFINE op == <<"add", o, p>>
           m == Member(o, p)
           reads == << {o}, {m} >>
<1>2. CallsOK /\ {o} \in SUBSET Key /\ {m} \in SUBSET Key
  BY AccessFacts, AccessKeys, MemberKeys
<1>3. CASE Read(c, op, reads)
  <2>1. \A call : call.op = op => Reading(store, call)
    BY DEF Reading
  <2>2. QED
    BY <1>2, <1>3, <2>1, PlainRead
<1>4. CASE LastRead(c, op, reads) /\ Stage(c, reads, << m :> "active" >>, m :> "active")
  <2>1. IsFree(c)
    BY <1>2, <1>4, AtLastOfTwo
  <2>2. "active" \in MemberState /\ SavesMember(Saw(c, reads), o, p, "active")
    BY DEF MemberState, SavesMember
  <2>3. QED
    BY <1>4, <2>1, <2>2, MembershipStaged
<1>5. QED
  BY <1>1, <1>3, <1>4

LEMMA EndReading ==
  ASSUME NEW s, NEW call, NEW to \in {"left", "removed"}, NEW o, NEW p, call.op = << to, o, p >>
  PROVE  Reading(s, call) <=>
           /\ call.todo = << {Member(o, p)} >>
           /\ ReadsOrg(call.seen, o) /\ call.seen[o].owner # p
BY DEF Reading

LEMMA EndMembershipMoves ==
  ASSUME AccessInv, NEW c \in Call, NEW to \in {"left", "removed"}, EndMembership(c, to)
  PROVE  Moves(c)
<1>1. PICK o \in Organization, p \in Principal :
        LET op == << to, o, p >>
            reads == << {o}, {Member(o, p)} >>
        IN  \/ IsOrg(store[o]) /\ store[o].owner # p /\ Read(c, op, reads)
            \/ /\ LastRead(c, op, reads)
               /\ Stage(c, reads, << Member(o, p) :> to >>, Member(o, p) :> to)
  BY DEF EndMembership
<1> DEFINE op == << to, o, p >>
           m == Member(o, p)
           reads == << {o}, {m} >>
<1>2. CallsOK /\ {o} \in SUBSET Key /\ {m} \in SUBSET Key /\ o # m
  BY AccessFacts, AccessKeys, MemberKeys
<1>3. work[c].todo # <<>> /\ work[c].op = op =>
        work[c].todo = << {m} >> /\ ReadsOrg(work[c].seen, o) /\ work[c].seen[o].owner # p
  <2>1. work[c].op = << to, o, p >> =>
          (Reading(store, work[c]) <=>
             /\ work[c].todo = << {Member(o, p)} >>
             /\ ReadsOrg(work[c].seen, o) /\ work[c].seen[o].owner # p)
    BY EndReading
  <2>2. QED
    BY <2>1, StillReading
<1>4. CASE IsOrg(store[o]) /\ store[o].owner # p /\ Read(c, op, reads)
  <2>1. work'[c].op = op /\ work'[c].todo = << {m} >> /\ work'[c].seen = Answers({o})
        /\ reads \in Seq(SUBSET Key)
    BY <1>2, <1>3, <1>4, FirstOfTwo
  <2>2. ReadsOrg(work'[c].seen, o) /\ work'[c].seen[o].owner # p
    BY <1>4, <2>1 DEF ReadsOrg, Known, Answers, IsOrg
  <2>3. Reading(store, work'[c])
    BY <2>1, <2>2, EndReading
  <2>4. QED
    BY <1>4, <2>1, <2>3, AccessFacts, ReadMoves
<1>5. CASE LastRead(c, op, reads) /\ Stage(c, reads, << m :> to >>, m :> to)
  <2>1. work[c].op = op /\ work[c].todo # <<>> /\ IsFree(c)
    BY <1>2, <1>5, AtLastOfTwo
  <2>2. ReadsOrg(work[c].seen, o) /\ work[c].seen[o].owner # p
    BY <1>3, <2>1
  <2>3. o \in DOMAIN work[c].seen /\ o \notin {m}
    BY <1>2, <2>2 DEF ReadsOrg, Known
  <2>4. o \in DOMAIN Saw(c, reads) /\ Saw(c, reads)[o] = work[c].seen[o]
    BY <2>3, SeesTwo
  <2>5. SavesMember(Saw(c, reads), o, p, to) /\ to \in MemberState
    BY <2>2, <2>4 DEF SavesMember, ReadsOrg, Known, MemberState
  <2>6. QED
    BY <1>5, <2>1, <2>5, MembershipStaged
<1>6. QED
  BY <1>1, <1>4, <1>5

-----------------------------------------------------------------------------
(***************************************************************************)
(* Roles.                                                                  *)
(***************************************************************************)
LEMMA RoleStaged ==
  ASSUME AccessInv, NEW c \in Call, IsFree(c), NEW r \in RoleId, NEW role \in RoleRecord,
         NEW reads, NEW news, AreRegistered(store, role.permissions), ~role.deleted,
         Stage(c, reads, << r :> role >>, news)
  PROVE  Moves(c)
<1> DEFINE writes == << r :> role >>
<1>1. Staged(store, <<"commit">>, Saw(c, reads), writes)
  BY DEF Staged, SavesRole
<1>2. \A k \in Lasting : ~Writing(writes, k)
  BY WritingOne, AccessKeys DEF Lasting
<1>3. Stage(c, reads, writes, news)
  OBVIOUS
<1> HIDE DEF writes
<1>4. QED
  BY <1>1, <1>2, <1>3, AccessFacts, StageMoves

LEMMA CreateRoleReading ==
  ASSUME NEW s, NEW call, NEW r, NEW o, NEW name, NEW permissions,
         call.op = <<"createRole", r, o, name, permissions>>
  PROVE  Reading(s, call) <=> permissions \subseteq Permission /\ AreRegistered(s, permissions)
BY DEF Reading

LEMMA CreateRoleMoves ==
  ASSUME AccessInv, NEW c \in Call, CreateRole(c)
  PROVE  Moves(c)
<1>1. PICK r \in Fresh(RoleId), o \in Organization, name \in RoleName,
           permissions \in SUBSET Permission :
        LET op == <<"createRole", r, o, name, permissions>>
            reads == << permissions, RoleId >>
        IN  \/ AreGood(store, permissions) /\ Read(c, op, reads)
            \/ /\ LastRead(c, op, reads)
               /\ Stage(c, reads, << r :> NewRole(o, name, permissions) >>, r :> "created")
  BY DEF CreateRole
<1> DEFINE op == <<"createRole", r, o, name, permissions>>
           reads == << permissions, RoleId >>
<1>2. CallsOK /\ permissions \in SUBSET Key /\ RoleId \in SUBSET Key
  BY AccessFacts, AccessKeys
<1>3. CASE AreGood(store, permissions) /\ Read(c, op, reads)
  <2>1. AreRegistered(store, permissions)
    BY <1>3 DEF AreGood, AreRegistered
  <2>2. \A call : call.op = op => Reading(store, call)
    BY <2>1, CreateRoleReading
  <2>3. QED
    BY <1>2, <1>3, <2>2, PlainRead
<1>4. CASE LastRead(c, op, reads) /\
           Stage(c, reads, << r :> NewRole(o, name, permissions) >>, r :> "created")
  <2>1. work[c].op = op /\ work[c].todo # <<>> /\ IsFree(c)
    BY <1>2, <1>4, AtLastOfTwo
  <2>2. AreRegistered(store, permissions)
    BY <2>1, StillReading, CreateRoleReading
  <2> DEFINE role == NewRole(o, name, permissions)
  <2>3. role \in RoleRecord /\ role.permissions = permissions /\ ~role.deleted
    BY DEF NewRole, RoleRecord
  <2>4. Stage(c, reads, << r :> role >>, r :> "created")
    BY <1>4
  <2> HIDE DEF role
  <2>5. r \in RoleId
    BY FreshIn
  <2>6. QED
    BY <2>1, <2>2, <2>3, <2>4, <2>5, RoleStaged
<1>5. QED
  BY <1>1, <1>3, <1>4

LEMMA UpdateRoleReading ==
  ASSUME NEW s, NEW call, NEW r, NEW permissions, call.op = <<"updateRole", r, permissions>>
  PROVE  Reading(s, call) <=>
           call.todo = << permissions >> /\ Known(call.seen, r) /\ IsLive(call.seen[r])
BY DEF Reading

LEMMA UpdateRoleMoves ==
  ASSUME AccessInv, NEW c \in Call, UpdateRolePermissions(c)
  PROVE  Moves(c)
<1>1. PICK r \in RoleId, permissions \in SUBSET Permission :
        LET op == <<"updateRole", r, permissions>>
            reads == << {r}, permissions >>
        IN  \/ IsLive(store[r]) /\ Read(c, op, reads)
            \/ /\ LastRead(c, op, reads)
               /\ AreGood(store, permissions)
               /\ Stage(c, reads, << r :> [work[c].seen[r] EXCEPT !.permissions = permissions] >>,
                        r :> "updated")
  BY DEF UpdateRolePermissions
<1> DEFINE op == <<"updateRole", r, permissions>>
           reads == << {r}, permissions >>
<1>2. CallsOK /\ {r} \in SUBSET Key /\ permissions \in SUBSET Key
  BY AccessFacts, AccessKeys
<1>3. work[c].todo # <<>> /\ work[c].op = op =>
        work[c].todo = << permissions >> /\ Known(work[c].seen, r) /\ IsLive(work[c].seen[r])
  BY StillReading, UpdateRoleReading
<1>4. CASE IsLive(store[r]) /\ Read(c, op, reads)
  <2>1. work'[c].op = op /\ work'[c].todo = << permissions >> /\ work'[c].seen = Answers({r})
        /\ reads \in Seq(SUBSET Key)
    BY <1>2, <1>3, <1>4, FirstOfTwo
  <2>2. Known(work'[c].seen, r) /\ IsLive(work'[c].seen[r])
    BY <1>4, <2>1 DEF Known, Answers, IsLive
  <2>3. Reading(store, work'[c])
    BY <2>1, <2>2, UpdateRoleReading
  <2>4. QED
    BY <1>4, <2>1, <2>3, AccessFacts, ReadMoves
<1>5. CASE /\ LastRead(c, op, reads)
           /\ AreGood(store, permissions)
           /\ Stage(c, reads, << r :> [work[c].seen[r] EXCEPT !.permissions = permissions] >>,
                    r :> "updated")
  <2> DEFINE role == [work[c].seen[r] EXCEPT !.permissions = permissions]
  <2>1. work[c].op = op /\ work[c].todo # <<>> /\ IsFree(c)
    BY <1>2, <1>5, AtLastOfTwo
  <2>2. IsLive(work[c].seen[r]) /\ work[c].seen[r] \in RoleRecord
    BY <1>3, <2>1, StillReading DEF Typed, Known, Exists
  <2>3. role \in RoleRecord /\ role.permissions = permissions /\ ~role.deleted
    BY <2>2 DEF RoleRecord, IsLive
  <2>4. AreRegistered(store, permissions)
    BY <1>5 DEF AreGood, AreRegistered
  <2>5. Stage(c, reads, << r :> role >>, r :> "updated")
    BY <1>5
  <2> HIDE DEF role
  <2>6. QED
    BY <2>1, <2>3, <2>4, <2>5, RoleStaged
<1>6. QED
  BY <1>1, <1>4, <1>5

-----------------------------------------------------------------------------
(***************************************************************************)
(* Assignments.                                                            *)
(***************************************************************************)
LEMMA AskedKeys ==
  ASSUME NEW o \in Organization, NEW actor \in Principal
  PROVE  Asked(o, actor) \in SUBSET Key /\ Organization \intersect Asked(o, actor) = {}
BY AccessKeys, MemberKeys, RbacAssumption DEF Asked

LEMMA ScopeIndexed ==
  ASSUME Records(store), NEW grant \in Grants
  PROVE  /\ Exists(store[Scope(grant)]) => store[Scope(grant)] \in Assignment
         /\ Exists(FindUnique(store, grant)) => Exists(store[Scope(grant)])
         /\ \A b \in Assignment :
              store[Scope(grant)] = b /\ ~Exists(FindUnique(store, grant)) => ~Exists(store[b])
BY ScopeKeys, NoRecords DEF Records, Exists, FindUnique

LEMMA RevokeMoves ==
  ASSUME AccessInv, NEW c \in Call, RevokeRole(c)
  PROVE  Moves(c)
<1>1. PICK grant \in Grants, actor \in Principal :
        LET op == <<"revoke", grant, actor>>
            reads == << Asked(grant.org, actor), Assignment \union {Scope(grant)} >>
            a == store[Scope(grant)]
        IN  \/ Read(c, op, reads)
            \/ /\ LastRead(c, op, reads)
               /\ Exists(FindUnique(store, grant))
               /\ Stage(c, reads, << a :> NoRecord >>, a :> "revoked")
  BY DEF RevokeRole
<1> DEFINE op == <<"revoke", grant, actor>>
           o == grant.org
           scope == Assignment \union {Scope(grant)}
           reads == << Asked(o, actor), scope >>
           a == store[Scope(grant)]
<1>2. CallsOK /\ Asked(o, actor) \in SUBSET Key /\ scope \in SUBSET Key
  BY AccessFacts, AccessKeys, ScopeKeys, GrantFields, AskedKeys
<1>3. CASE Read(c, op, reads)
  <2>1. \A call : call.op = op => Reading(store, call)
    BY DEF Reading
  <2>2. QED
    BY <1>2, <1>3, <2>1, PlainRead
<1>4. CASE /\ LastRead(c, op, reads)
           /\ Exists(FindUnique(store, grant))
           /\ Stage(c, reads, << a :> NoRecord >>, a :> "revoked")
  <2>1. IsFree(c)
    BY <1>2, <1>4, AtLastOfTwo
  <2>2. a \in Assignment
    BY <1>4, AccessFacts, ScopeIndexed
  <2> DEFINE writes == << a :> NoRecord >>
  <2>3. writes \in Seq(Removals)
    BY <2>2 DEF Removals
  <2>4. Staged(store, <<"commit">>, Saw(c, reads), writes)
    BY <2>3 DEF Staged
  <2>5. \A k \in Lasting : ~Writing(writes, k)
    BY <2>2, WritingOne, AccessKeys DEF Lasting
  <2>6. Stage(c, reads, writes, a :> "revoked")
    BY <1>4
  <2> HIDE DEF writes
  <2>7. QED
    BY <2>1, <2>4, <2>5, <2>6, AccessFacts, StageMoves
<1>5. QED
  BY <1>1, <1>3, <1>4

-----------------------------------------------------------------------------
(***************************************************************************)
(* Calls that read more often.                                             *)
(***************************************************************************)
\* The read a call is at, and what it has read after it.
LEMMA ReadOn ==
  ASSUME CallsOK, NEW c \in Call, NEW op, op # <<>>, NEW reads \in Seq(SUBSET Key),
         Read(c, op, reads)
  PROVE  /\ work'[c].op = op
         /\ \/ /\ IsIdle(c) /\ Nth(c, op, reads) = 1
               /\ work'[c].todo = Tail(reads) /\ work'[c].seen = Answers(reads[1])
            \/ /\ work[c].op = op /\ work[c].todo # <<>> /\ Len(work[c].todo) > 1
               /\ Nth(c, op, reads) = Len(reads) - Len(work[c].todo) + 1
               /\ work'[c].todo = Tail(work[c].todo)
               /\ work'[c].seen = Answers(work[c].todo[1]) @@ work[c].seen
<1>1. work'[c].op = op
  BY ReadEffect
<1>2. IsIdle(c) => Nth(c, op, reads) = 1 /\ work[c].op # op
  BY IdleCall DEF Nth, IsIdle
<1>3. work[c].op = op => Nth(c, op, reads) = Len(reads) - Len(work[c].todo) + 1
  BY <1>2 DEF Nth
<1>4. Len(work[c].todo) > 1 => work[c].todo # <<>>
  BY NotEmpty DEF CallsOK, IsCall
<1>5. QED
  BY <1>1, <1>2, <1>3, <1>4, ReadAnswers

\* What stays of what a call has seen, and what the last answers add.
LEMMA MoreSeen ==
  ASSUME NEW seen, NEW keys
  PROVE  /\ \A k \in keys : LET more == Answers(keys) @@ seen
                            IN  k \in DOMAIN more /\ more[k] = store[k]
         /\ \A k \in DOMAIN seen : LET more == Answers(keys) @@ seen
                                   IN  k \in DOMAIN more /\ (k \notin keys => more[k] = seen[k])
BY DEF Answers, @@

LEMMA AcceptReading ==
  ASSUME NEW s, NEW call, NEW i, NEW o, NEW p, call.op = <<"accept", i, o, p>>
  PROVE  Reading(s, call) <=>
           /\ call.todo \in {<< {o}, {Member(o, p)} >>, << {Member(o, p)} >>}
           /\ Known(call.seen, i) /\ IsPending(call.seen[i])
BY DEF Reading

LEMMA AcceptMoves ==
  ASSUME AccessInv, NEW c \in Call, AcceptInvitation(c)
  PROVE  Moves(c)
<1>1. PICK i \in Invitation, o \in Organization, p \in Principal :
        LET op == <<"accept", i, o, p>>
            m == Member(o, p)
            reads == << {i}, {o}, {m} >>
            seen == Saw(c, reads)
        IN  \/ /\ Nth(c, op, reads) = 1 =>
                    IsPending(store[i]) /\ store[i].org = o /\ store[i].to = p
               /\ Nth(c, op, reads) = 2 => store[o].status = "active"
               /\ Read(c, op, reads)
            \/ /\ LastRead(c, op, reads)
               /\ store[m] \notin {"active", "suspended"}
               /\ Stage(c, reads,
                        << m :> "active", i :> [seen[i] EXCEPT !.state = "accepted"] >>,
                        (i :> "accepted") @@ (m :> "active"))
  BY DEF AcceptInvitation
<1> DEFINE op == <<"accept", i, o, p>>
           m == Member(o, p)
           reads == << {i}, {o}, {m} >>
           seen == Saw(c, reads)
<1>2. /\ CallsOK /\ {i} \in SUBSET Key /\ {o} \in SUBSET Key /\ {m} \in SUBSET Key
      /\ m \in Members /\ i # m /\ i # o /\ op # <<>>
  BY AccessFacts, AccessKeys, MemberKeys
<1>3. work[c].todo # <<>> /\ work[c].op = op =>
        work[c].todo \in {<< {o}, {m} >>, << {m} >>} /\ Known(work[c].seen, i) /\ IsPending(work[c].seen[i])
  <2>1. work[c].op = op =>
          (Reading(store, work[c]) <=>
             /\ work[c].todo \in {<< {o}, {m} >>, << {m} >>}
             /\ Known(work[c].seen, i) /\ IsPending(work[c].seen[i]))
    BY AcceptReading
  <2>2. QED
    BY <2>1, StillReading
<1>4. CASE (Nth(c, op, reads) = 1 => IsPending(store[i])) /\ Read(c, op, reads)
  <2>1. /\ reads \in Seq(SUBSET Key) /\ work'[c].op = op
        /\ \/ /\ Nth(c, op, reads) = 1 /\ work'[c].todo = << {o}, {m} >>
              /\ work'[c].seen = Answers({i})
           \/ /\ work[c].op = op /\ work[c].todo = << {o}, {m} >>
              /\ work'[c].todo = << {m} >> /\ work'[c].seen = Answers({o}) @@ work[c].seen
    <3> DEFINE two == << {o}, {m} >>
               one == << {m} >>
    <3>1. work[c].op = op /\ work[c].todo # <<>> => work[c].todo = two \/ work[c].todo = one
      BY <1>3
    <3>2. CallsOK /\ Read(c, op, reads) /\ op # <<>> /\ reads \in Seq(SUBSET Key)
      BY <1>2, <1>4
    <3>3. Len(reads) = 3 /\ Len(two) = 2 /\ Len(one) = 1
      OBVIOUS
    <3>4. reads[1] = {i} /\ Tail(reads) = two /\ two[1] = {o} /\ Tail(two) = one
      OBVIOUS
    <3> HIDE DEF two, one, op, reads
    <3>5. /\ work'[c].op = op
          /\ \/ /\ IsIdle(c) /\ Nth(c, op, reads) = 1
                /\ work'[c].todo = Tail(reads) /\ work'[c].seen = Answers(reads[1])
             \/ /\ work[c].op = op /\ work[c].todo # <<>> /\ Len(work[c].todo) > 1
                /\ Nth(c, op, reads) = Len(reads) - Len(work[c].todo) + 1
                /\ work'[c].todo = Tail(work[c].todo)
                /\ work'[c].seen = Answers(work[c].todo[1]) @@ work[c].seen
      BY <3>2, ReadOn
    <3>6. ASSUME work[c].todo = one, Len(work[c].todo) > 1 PROVE FALSE
      <4>1. 1 > 1
        BY <3>3, <3>6
      <4>2. QED
        BY <4>1
    <3>7. /\ work'[c].op = op
          /\ \/ Nth(c, op, reads) = 1 /\ work'[c].todo = two /\ work'[c].seen = Answers({i})
             \/ /\ work[c].op = op /\ work[c].todo = two
                /\ work'[c].todo = one /\ work'[c].seen = Answers({o}) @@ work[c].seen
      BY <3>1, <3>4, <3>5, <3>6
    <3>8. QED
      BY <3>2, <3>7 DEF two, one
  <2>2. Known(work'[c].seen, i) /\ IsPending(work'[c].seen[i])
    <3>1. CASE Nth(c, op, reads) = 1 /\ work'[c].seen = Answers({i})
      BY <1>4, <3>1 DEF Known, Answers, IsPending
    <3>2. CASE /\ work[c].op = op /\ work[c].todo = << {o}, {m} >>
               /\ work'[c].seen = Answers({o}) @@ work[c].seen
      <4>1. Known(work[c].seen, i) /\ IsPending(work[c].seen[i])
        BY <1>3, <3>2
      <4>2. i \in DOMAIN work'[c].seen /\ work'[c].seen[i] = work[c].seen[i]
        BY <1>2, <3>2, <4>1, MoreSeen DEF Known
      <4>3. QED
        BY <4>1, <4>2 DEF Known
    <3>3. QED
      BY <2>1, <3>1, <3>2
  <2>3. Reading(store, work'[c])
    <3>1. work'[c].op = op =>
            (Reading(store, work'[c]) <=>
               /\ work'[c].todo \in {<< {o}, {m} >>, << {m} >>}
               /\ Known(work'[c].seen, i) /\ IsPending(work'[c].seen[i]))
      BY AcceptReading
    <3>2. QED
      BY <2>1, <2>2, <3>1
  <2>4. QED
    BY <1>4, <2>1, <2>3, AccessFacts, ReadMoves
<1>5. CASE /\ LastRead(c, op, reads)
           /\ Stage(c, reads,
                    << m :> "active", i :> [seen[i] EXCEPT !.state = "accepted"] >>,
                    (i :> "accepted") @@ (m :> "active"))
  <2> DEFINE invitation == [seen[i] EXCEPT !.state = "accepted"]
             writes == << m :> "active", i :> invitation >>
             news == (i :> "accepted") @@ (m :> "active")
  <2>1. Len(reads) # 1 /\ reads[Len(reads)] = {m}
    OBVIOUS
  <2>2. Stage(c, reads, writes, news) /\ LastRead(c, op, reads)
    BY <1>5
  <2>3. work[c].op = op /\ work[c].todo # <<>> /\ IsFree(c)
    <3> HIDE DEF reads
    <3>1. QED
      BY <1>2, <2>1, <2>2, FreeAtLast
  <2>4. /\ Known(work[c].seen, i) /\ IsPending(work[c].seen[i])
        /\ work[c].seen[i] \in InvitationRecord
    BY <1>3, <2>3, StillReading DEF Typed, Known, Exists
  <2>5. i \in DOMAIN work[c].seen /\ i \notin {m}
    BY <1>2, <2>4 DEF Known
  <2>6. i \in DOMAIN seen /\ seen[i] = work[c].seen[i]
    <3> HIDE DEF reads
    <3>1. QED
      BY <2>1, <2>5, Sees
  <2>7. invitation \in InvitationRecord
    BY <2>4, <2>6 DEF InvitationRecord
  <2>8. Known(seen, i) /\ SavesInvitation(seen, i)
    BY <2>4, <2>6 DEF Known, SavesInvitation
  <2>9. \A k : Writing(writes, k) <=> k \in {m, i}
    BY WritingTwo
  <2>10. \A k \in Lasting : Writing(writes, k) => Known(seen, k)
    BY <1>2, <2>8, <2>9, AccessKeys DEF Lasting
  <2> HIDE DEF invitation
  <2>11. writes = << m :> "active", i :> invitation >>
    OBVIOUS
  <2> HIDE DEF writes, seen, news
  <2>12. Staged(store, <<"commit">>, seen, writes)
    BY <1>2, <2>7, <2>8, <2>11 DEF Staged
  <2> HIDE DEF reads
  <2>13. QED
    BY <2>2, <2>3, <2>10, <2>12, AccessFacts, StageMoves DEF seen
<1>6. QED
  BY <1>1, <1>4, <1>5

\* What a call has seen of a place and of a role stays.
LEMMA OpenKept ==
  ASSUME NEW seen, NEW keys, NEW o, NEW l, o \in DOMAIN seen, o \notin keys, IsOpen(seen, o, l)
  PROVE  LET more == Answers(keys) @@ seen IN o \in DOMAIN more /\ IsOpen(more, o, l)
BY MoreSeen DEF IsOpen

LEMMA OpenRead ==
  ASSUME NEW keys, NEW o \in keys, NEW l, IsOpen(store, o, l)
  PROVE  o \in DOMAIN Answers(keys) /\ IsOpen(Answers(keys), o, l)
BY DEF IsOpen, Answers

LiveIn(seen, r) == Known(seen, r) /\ IsLive(seen[r])

LEMMA LiveKept ==
  ASSUME NEW seen, NEW keys, NEW r, LiveIn(seen, r), r \notin keys
  PROVE  LiveIn(Answers(keys) @@ seen, r)
BY MoreSeen DEF LiveIn, Known

LEMMA LiveRead ==
  ASSUME NEW seen, NEW keys, NEW r \in keys, IsLive(store[r])
  PROVE  LiveIn(Answers(keys) @@ seen, r) /\ LiveIn(Answers(keys), r)
BY MoreSeen DEF LiveIn, Known, Answers, IsLive

LEMMA GrantStaged ==
  ASSUME AccessInv, NEW c \in Call, IsFree(c), NEW a \in Assignment, NEW grant \in Grants,
         NEW reads, NEW news, SavesGrant(Saw(c, reads), a, grant),
         Stage(c, reads, << a :> grant >>, news)
  PROVE  Moves(c)
<1> DEFINE writes == << a :> grant >>
<1>1. Staged(store, <<"commit">>, Saw(c, reads), writes)
  BY DEF Staged
<1>2. \A k \in Lasting : ~Writing(writes, k)
  BY WritingOne, AccessKeys DEF Lasting
<1>3. Stage(c, reads, writes, news)
  OBVIOUS
<1> HIDE DEF writes
<1>4. QED
  BY <1>1, <1>2, <1>3, AccessFacts, StageMoves

LEMMA GrantKeys ==
  ASSUME NEW grant \in Grants, NEW actor \in Principal
  PROVE  LET o == grant.org
             m == Member(o, grant.principal)
         IN  /\ {o, m} \in SUBSET Key /\ {m} \in SUBSET Key /\ {grant.role} \in SUBSET Key
             /\ Asked(o, actor) \in SUBSET Key /\ {o} \in SUBSET Key
             /\ Assignment \union {Scope(grant)} \in SUBSET Key
             /\ (Assignment \union {Scope(grant)}) \intersect {o, m, grant.role} = {}
             /\ o \notin Asked(o, actor) /\ o # grant.role /\ m # grant.role
             /\ o \in Organization /\ grant.role \in RoleId
<1>1. /\ grant.org \in Organization /\ grant.principal \in Principal /\ grant.role \in RoleId
      /\ Scope(grant) \in Scopes
  BY GrantFields, ScopeKeys
<1>2. Member(grant.org, grant.principal) \in Members
  BY <1>1, MemberKeys
<1>3. /\ Asked(grant.org, actor) \in SUBSET Key
      /\ Organization \intersect Asked(grant.org, actor) = {}
  BY <1>1, AskedKeys
<1>4. QED
  BY <1>1, <1>2, <1>3, AccessKeys

-----------------------------------------------------------------------------
(***************************************************************************)
(* assignRole.                                                             *)
(***************************************************************************)
LEMMA AssignReading ==
  ASSUME NEW s, NEW call, NEW grant, NEW actor, NEW a, call.op = <<"assign", grant, actor, a>>
  PROVE  LET o == grant.org
             authorize == Asked(o, actor) \ {Member(o, grant.principal), grant.role}
             scope == Assignment \union {Scope(grant)}
         IN  Reading(s, call) <=>
               /\ call.todo \in {<< {grant.role}, authorize, scope >>, << authorize, scope >>, << scope >>}
               /\ o \in DOMAIN call.seen /\ IsOpen(call.seen, o, grant.location)
               /\ call.todo # << {grant.role}, authorize, scope >> => LiveIn(call.seen, grant.role)
BY DEF Reading, LiveIn

\* A call of assignRole that goes on reading.
LEMMA AssignReads ==
  ASSUME AccessInv, NEW c \in Call, NEW grant \in Grants, NEW actor \in Principal, NEW a,
         LET op == <<"assign", grant, actor, a>>
             o == grant.org
             m == Member(o, grant.principal)
             reads == << {o, m}, {grant.role}, Asked(o, actor) \ {m, grant.role},
                         Assignment \union {Scope(grant)} >>
         IN  /\ Nth(c, op, reads) = 1 => IsOpen(store, o, grant.location)
             /\ Nth(c, op, reads) = 2 => MayBeGiven(store[grant.role], o)
             /\ Read(c, op, reads)
  PROVE  Moves(c)
<1> DEFINE op == <<"assign", grant, actor, a>>
           o == grant.org
           l == grant.location
           m == Member(o, grant.principal)
           first == {o, m}
           role == {grant.role}
           authorize == Asked(o, actor) \ {m, grant.role}
           scope == Assignment \union {Scope(grant)}
           reads == << first, role, authorize, scope >>
           three == << role, authorize, scope >>
           two == << authorize, scope >>
           one == << scope >>
<1>1. /\ CallsOK /\ first \in SUBSET Key /\ role \in SUBSET Key
      /\ authorize \in SUBSET Key /\ scope \in SUBSET Key
      /\ Read(c, op, reads) /\ op # <<>>
  BY AccessFacts, GrantKeys
<1>2. /\ Nth(c, op, reads) = 1 => IsOpen(store, o, l)
      /\ Nth(c, op, reads) = 2 => MayBeGiven(store[grant.role], o)
  OBVIOUS
<1>3. /\ o \in first /\ o \notin role /\ o \notin authorize
      /\ grant.role \in role /\ grant.role \notin authorize
  BY GrantKeys
<1>4. three # two /\ three # one
  OBVIOUS
<1>5. work[c].op = op =>
        (Reading(store, work[c]) <=>
           /\ work[c].todo \in {three, two, one}
           /\ o \in DOMAIN work[c].seen /\ IsOpen(work[c].seen, o, l)
           /\ work[c].todo # three => LiveIn(work[c].seen, grant.role))
  BY AssignReading
<1>6. work'[c].op = op =>
        (Reading(store, work'[c]) <=>
           /\ work'[c].todo \in {three, two, one}
           /\ o \in DOMAIN work'[c].seen /\ IsOpen(work'[c].seen, o, l)
           /\ work'[c].todo # three => LiveIn(work'[c].seen, grant.role))
  BY AssignReading
<1> HIDE DEF o, l, first, role, authorize, scope
<1>7. work[c].todo # <<>> /\ work[c].op = op =>
        /\ work[c].todo \in {three, two, one}
        /\ o \in DOMAIN work[c].seen /\ IsOpen(work[c].seen, o, l)
        /\ work[c].todo # three => LiveIn(work[c].seen, grant.role)
  BY <1>5, StillReading
<1>8. /\ reads \in Seq(SUBSET Key) /\ work'[c].op = op
      /\ \/ Nth(c, op, reads) = 1 /\ work'[c].todo = three /\ work'[c].seen = Answers(first)
         \/ /\ work[c].op = op /\ work[c].todo # <<>> /\ work[c].todo = three
            /\ Nth(c, op, reads) = 2 /\ work'[c].todo = two
            /\ work'[c].seen = Answers(role) @@ work[c].seen
         \/ /\ work[c].op = op /\ work[c].todo # <<>> /\ work[c].todo = two
            /\ Nth(c, op, reads) = 3 /\ work'[c].todo = one
            /\ work'[c].seen = Answers(authorize) @@ work[c].seen
  <2>1. work[c].op = op /\ work[c].todo # <<>> => work[c].todo \in {three, two, one}
    BY <1>7
  <2>2. CallsOK /\ Read(c, op, reads) /\ op # <<>> /\ reads \in Seq(SUBSET Key)
    BY <1>1
  <2>3. Len(reads) = 4 /\ Len(three) = 3 /\ Len(two) = 2 /\ Len(one) = 1
    OBVIOUS
  <2>4. /\ reads[1] = first /\ Tail(reads) = three
        /\ three[1] = role /\ Tail(three) = two
        /\ two[1] = authorize /\ Tail(two) = one
    OBVIOUS
  <2> HIDE DEF three, two, one, op, reads
  <2>5. /\ work'[c].op = op
        /\ \/ /\ IsIdle(c) /\ Nth(c, op, reads) = 1
              /\ work'[c].todo = Tail(reads) /\ work'[c].seen = Answers(reads[1])
           \/ /\ work[c].op = op /\ work[c].todo # <<>> /\ Len(work[c].todo) > 1
              /\ Nth(c, op, reads) = Len(reads) - Len(work[c].todo) + 1
              /\ work'[c].todo = Tail(work[c].todo)
              /\ work'[c].seen = Answers(work[c].todo[1]) @@ work[c].seen
    BY <2>2, ReadOn
  <2>6. ASSUME work[c].todo = one, Len(work[c].todo) > 1 PROVE FALSE
    <3>1. 1 > 1
      BY <2>3, <2>6
    <3>2. QED
      BY <3>1
  <2>7. work[c].todo = three => Len(reads) - Len(work[c].todo) + 1 = 2
    <3>1. (4 - 3) + 1 = 2
      OBVIOUS
    <3>2. QED
      BY <2>3, <3>1
  <2>8. work[c].todo = two => Len(reads) - Len(work[c].todo) + 1 = 3
    <3>1. (4 - 2) + 1 = 3
      OBVIOUS
    <3>2. QED
      BY <2>3, <3>1
  <2>9. QED
    BY <2>1, <2>2, <2>4, <2>5, <2>6, <2>7, <2>8
<1> HIDE DEF op, reads, three, two, one
<1>9. /\ o \in DOMAIN work'[c].seen /\ IsOpen(work'[c].seen, o, l)
      /\ work'[c].todo # three => LiveIn(work'[c].seen, grant.role)
  <2>1. CASE Nth(c, op, reads) = 1 /\ work'[c].todo = three /\ work'[c].seen = Answers(first)
    BY <1>2, <1>3, <2>1, OpenRead
  <2>2. CASE /\ work[c].op = op /\ work[c].todo # <<>> /\ work[c].todo = three
             /\ Nth(c, op, reads) = 2 /\ work'[c].seen = Answers(role) @@ work[c].seen
    <3>1. o \in DOMAIN work[c].seen /\ IsOpen(work[c].seen, o, l) /\ IsLive(store[grant.role])
      BY <1>2, <1>7, <2>2 DEF MayBeGiven
    <3>2. LiveIn(Answers(role) @@ work[c].seen, grant.role)
      BY <1>3, <3>1, LiveRead
    <3>3. LET more == Answers(role) @@ work[c].seen IN o \in DOMAIN more /\ IsOpen(more, o, l)
      BY <1>3, <3>1, OpenKept
    <3>4. QED
      BY <2>2, <3>2, <3>3
  <2>3. CASE /\ work[c].op = op /\ work[c].todo # <<>> /\ work[c].todo = two
             /\ work'[c].seen = Answers(authorize) @@ work[c].seen
    <3>1. o \in DOMAIN work[c].seen /\ IsOpen(work[c].seen, o, l) /\ LiveIn(work[c].seen, grant.role)
      BY <1>4, <1>7, <2>3
    <3>2. QED
      BY <1>3, <2>3, <3>1, OpenKept, LiveKept
  <2>4. QED
    BY <1>8, <2>1, <2>2, <2>3
<1>10. Reading(store, work'[c])
  BY <1>6, <1>8, <1>9
<1>11. QED
  BY <1>1, <1>8, <1>10, AccessFacts, ReadMoves

\* What a call that grants has seen when it stages the assignment.
LEMMA GrantFits ==
  ASSUME AccessInv, NEW c \in Call, NEW a \in Assignment, NEW grant \in Grants, NEW reads,
         reads[Len(reads)] = Assignment \union {Scope(grant)},
         LiveIn(work[c].seen, grant.role), ~Exists(FindUnique(store, grant)),
         \/ grant.location = OrgWide
         \/ grant.org \in DOMAIN work[c].seen /\ IsOpen(work[c].seen, grant.org, grant.location)
  PROVE  SavesGrant(Saw(c, reads), a, grant)
<1> DEFINE seen == Saw(c, reads)
           scope == Assignment \union {Scope(grant)}
<1>1. /\ \A k \in scope : k \in DOMAIN seen /\ seen[k] = store[k]
      /\ \A k : k \notin scope /\ k \in DOMAIN work[c].seen =>
           k \in DOMAIN seen /\ seen[k] = work[c].seen[k]
  BY Sees
<1>2. grant.role \notin scope /\ grant.org \notin scope
  BY GrantFields, ScopeKeys, AccessKeys
<1>3. Scope(grant) \in scope /\ Assignment \subseteq scope
  OBVIOUS
<1>4. \A b \in Assignment : store[Scope(grant)] = b => ~Exists(store[b])
  BY AccessFacts, ScopeIndexed
<1> HIDE DEF seen, scope
<1>5. Known(seen, grant.role) /\ IsLive(seen[grant.role])
  BY <1>1, <1>2 DEF LiveIn, Known
<1>6. grant.location = OrgWide \/ (Known(seen, grant.org) /\ PlaceOf(grant, seen[grant.org]))
  <2>1. CASE /\ grant.location # OrgWide /\ grant.org \in DOMAIN work[c].seen
             /\ IsOpen(work[c].seen, grant.org, grant.location)
    <3>1. grant.org \in DOMAIN seen /\ seen[grant.org] = work[c].seen[grant.org]
      BY <1>1, <1>2, <2>1
    <3>2. QED
      BY <2>1, <3>1 DEF IsOpen, IsOrg, Known, PlaceOf
  <2>2. QED
    BY <2>1
<1>7. Scope(grant) \in DOMAIN seen /\ seen[Scope(grant)] = store[Scope(grant)]
  BY <1>1, <1>3
<1>8. \A b \in Assignment \ {a} : seen[Scope(grant)] = b => b \in DOMAIN seen /\ ~Exists(seen[b])
  BY <1>1, <1>3, <1>4, <1>7
<1>9. QED
  BY <1>5, <1>6, <1>7, <1>8 DEF SavesGrant, seen

LEMMA AssignMoves ==
  ASSUME AccessInv, NEW c \in Call, AssignRole(c)
  PROVE  Moves(c)
<1>1. PICK grant \in Grants, actor \in Principal, a \in Fresh(Assignment) :
        LET op == <<"assign", grant, actor, a>>
            o == grant.org
            m == Member(o, grant.principal)
            reads == << {o, m}, {grant.role}, Asked(o, actor) \ {m, grant.role},
                        Assignment \union {Scope(grant)} >>
        IN  \/ /\ Nth(c, op, reads) = 1 => store[m] = "active" /\ IsOpen(store, o, grant.location)
               /\ Nth(c, op, reads) = 2 => MayBeGiven(store[grant.role], o)
               /\ Nth(c, op, reads) = 3 => MayManage(store, o, actor)
               /\ Read(c, op, reads)
            \/ /\ LastRead(c, op, reads)
               /\ ~Exists(FindUnique(store, grant))
               /\ Stage(c, reads, << a :> grant >>, a :> "granted")
  BY DEF AssignRole
<1> DEFINE op == <<"assign", grant, actor, a>>
           o == grant.org
           m == Member(o, grant.principal)
           role == {grant.role}
           authorize == Asked(o, actor) \ {m, grant.role}
           scope == Assignment \union {Scope(grant)}
           reads == << {o, m}, role, authorize, scope >>
           three == << role, authorize, scope >>
           two == << authorize, scope >>
           one == << scope >>
<1>2. CASE /\ Nth(c, op, reads) = 1 => IsOpen(store, o, grant.location)
           /\ Nth(c, op, reads) = 2 => MayBeGiven(store[grant.role], o)
           /\ Read(c, op, reads)
  BY <1>2, AssignReads
<1>3. CASE /\ LastRead(c, op, reads)
           /\ ~Exists(FindUnique(store, grant))
           /\ Stage(c, reads, << a :> grant >>, a :> "granted")
  <2>1. Len(reads) # 1 /\ reads[Len(reads)] = scope
    OBVIOUS
  <2>2. Len(three) = 3
    OBVIOUS
  <2>3. work[c].op = op =>
          (Reading(store, work[c]) <=>
             /\ work[c].todo \in {three, two, one}
             /\ o \in DOMAIN work[c].seen /\ IsOpen(work[c].seen, o, grant.location)
             /\ work[c].todo # three => LiveIn(work[c].seen, grant.role))
    BY AssignReading
  <2>4. a \in Assignment
    BY FreshIn
  <2> HIDE DEF op, reads, three, two, one
  <2>5. work[c].op = op /\ Len(work[c].todo) = 1 /\ work[c].todo # <<>> /\ IsFree(c)
    BY <1>3, <2>1, AccessFacts, FreeAtLast
  <2>6. work[c].todo # three
    <3>1. SUFFICES ASSUME work[c].todo = three PROVE FALSE
      OBVIOUS
    <3>2. 1 = 3
      BY <2>2, <2>5, <3>1
    <3>3. QED
      BY <3>2
  <2>7. /\ o \in DOMAIN work[c].seen /\ IsOpen(work[c].seen, o, grant.location)
        /\ LiveIn(work[c].seen, grant.role)
    BY <2>3, <2>5, <2>6, StillReading
  <2>8. SavesGrant(Saw(c, reads), a, grant)
    BY <1>3, <2>1, <2>4, <2>7, GrantFits
  <2>9. QED
    BY <1>3, <2>4, <2>5, <2>8, GrantStaged
<1>4. QED
  BY <1>1, <1>2, <1>3

-----------------------------------------------------------------------------
(***************************************************************************)
(* bootstrapOrganizationAdministrator.                                     *)
(***************************************************************************)
LEMMA BootstrapReading ==
  ASSUME NEW s, NEW call, NEW grant, NEW a, call.op = <<"bootstrap", grant, a>>
  PROVE  LET scope == Assignment \union {Scope(grant)}
             m == {Member(grant.org, grant.principal)}
             r == {grant.role}
         IN  Reading(s, call) <=>
               /\ call.todo \in {<< scope, m, r, scope >>, << m, r, scope >>, << r, scope >>, << scope >>}
               /\ LiveIn(call.seen, grant.role)
BY DEF Reading, LiveIn

\* A call of bootstrapOrganizationAdministrator that goes on reading.
LEMMA BootstrapReads ==
  ASSUME AccessInv, NEW c \in Call, NEW grant \in Grants, NEW a,
         LET op == <<"bootstrap", grant, a>>
             scope == Assignment \union {Scope(grant)}
             reads == << RoleId, scope, {Member(grant.org, grant.principal)}, {grant.role}, scope >>
         IN  /\ Nth(c, op, reads) = 1 => IsLive(store[grant.role])
             /\ Nth(c, op, reads) = 4 => MayBeGiven(store[grant.role], grant.org)
             /\ Read(c, op, reads)
  PROVE  Moves(c)
<1> DEFINE op == <<"bootstrap", grant, a>>
           r == grant.role
           o == grant.org
           member == {Member(o, grant.principal)}
           role == {r}
           scope == Assignment \union {Scope(grant)}
           reads == << RoleId, scope, member, role, scope >>
           four == << scope, member, role, scope >>
           three == << member, role, scope >>
           two == << role, scope >>
           one == << scope >>
<1>1. /\ CallsOK /\ RoleId \in SUBSET Key /\ member \in SUBSET Key /\ role \in SUBSET Key
      /\ scope \in SUBSET Key /\ Read(c, op, reads) /\ op # <<>>
  <2>1. RoleId \in SUBSET Key /\ CallsOK
    BY AccessFacts, AccessKeys
  <2>2. member \in SUBSET Key /\ role \in SUBSET Key /\ scope \in SUBSET Key
    <3>1. Principal # {}
      BY GrantFields
    <3>2. PICK p \in Principal : TRUE
      BY <3>1
    <3>3. QED
      BY <3>2, GrantKeys
  <2>3. QED
    BY <2>1, <2>2
<1>2. /\ Nth(c, op, reads) = 1 => IsLive(store[r])
      /\ Nth(c, op, reads) = 4 => MayBeGiven(store[r], o)
  OBVIOUS
<1>3. r \in RoleId /\ r \notin member /\ r \notin scope /\ r \in role
  BY GrantFields, MemberKeys, ScopeKeys, AccessKeys
<1>4. work[c].op = op =>
        (Reading(store, work[c]) <=>
           work[c].todo \in {four, three, two, one} /\ LiveIn(work[c].seen, r))
  BY BootstrapReading
<1>5. work'[c].op = op =>
        (Reading(store, work'[c]) <=>
           work'[c].todo \in {four, three, two, one} /\ LiveIn(work'[c].seen, r))
  BY BootstrapReading
<1> HIDE DEF o, r, member, role, scope
<1>6. work[c].todo # <<>> /\ work[c].op = op =>
        work[c].todo \in {four, three, two, one} /\ LiveIn(work[c].seen, r)
  BY <1>4, StillReading
<1>7. /\ reads \in Seq(SUBSET Key) /\ work'[c].op = op
      /\ \/ Nth(c, op, reads) = 1 /\ work'[c].todo = four /\ work'[c].seen = Answers(RoleId)
         \/ /\ work[c].op = op /\ work[c].todo # <<>> /\ work[c].todo = four
            /\ Nth(c, op, reads) = 2 /\ work'[c].todo = three
            /\ work'[c].seen = Answers(scope) @@ work[c].seen
         \/ /\ work[c].op = op /\ work[c].todo # <<>> /\ work[c].todo = three
            /\ Nth(c, op, reads) = 3 /\ work'[c].todo = two
            /\ work'[c].seen = Answers(member) @@ work[c].seen
         \/ /\ work[c].op = op /\ work[c].todo # <<>> /\ work[c].todo = two
            /\ Nth(c, op, reads) = 4 /\ work'[c].todo = one
            /\ work'[c].seen = Answers(role) @@ work[c].seen
  <2>1. work[c].op = op /\ work[c].todo # <<>> => work[c].todo \in {four, three, two, one}
    BY <1>6
  <2>2. CallsOK /\ Read(c, op, reads) /\ op # <<>> /\ reads \in Seq(SUBSET Key)
    BY <1>1
  <2>3. Len(reads) = 5 /\ Len(four) = 4 /\ Len(three) = 3 /\ Len(two) = 2 /\ Len(one) = 1
    OBVIOUS
  <2>4. /\ reads[1] = RoleId /\ Tail(reads) = four
        /\ four[1] = scope /\ Tail(four) = three
        /\ three[1] = member /\ Tail(three) = two
        /\ two[1] = role /\ Tail(two) = one
    OBVIOUS
  <2> HIDE DEF four, three, two, one, op, reads
  <2>5. /\ work'[c].op = op
        /\ \/ /\ IsIdle(c) /\ Nth(c, op, reads) = 1
              /\ work'[c].todo = Tail(reads) /\ work'[c].seen = Answers(reads[1])
           \/ /\ work[c].op = op /\ work[c].todo # <<>> /\ Len(work[c].todo) > 1
              /\ Nth(c, op, reads) = Len(reads) - Len(work[c].todo) + 1
              /\ work'[c].todo = Tail(work[c].todo)
              /\ work'[c].seen = Answers(work[c].todo[1]) @@ work[c].seen
    BY <2>2, ReadOn
  <2>6. ASSUME work[c].todo = one, Len(work[c].todo) > 1 PROVE FALSE
    <3>1. 1 > 1
      BY <2>3, <2>6
    <3>2. QED
      BY <3>1
  <2>7. work[c].todo = four => Len(reads) - Len(work[c].todo) + 1 = 2
    <3>1. (5 - 4) + 1 = 2
      OBVIOUS
    <3>2. QED
      BY <2>3, <3>1
  <2>8. work[c].todo = three => Len(reads) - Len(work[c].todo) + 1 = 3
    <3>1. (5 - 3) + 1 = 3
      OBVIOUS
    <3>2. QED
      BY <2>3, <3>1
  <2>9. work[c].todo = two => Len(reads) - Len(work[c].todo) + 1 = 4
    <3>1. (5 - 2) + 1 = 4
      OBVIOUS
    <3>2. QED
      BY <2>3, <3>1
  <2>10. QED
    BY <2>1, <2>2, <2>4, <2>5, <2>6, <2>7, <2>8, <2>9
<1> HIDE DEF op, reads, four, three, two, one
<1>8. LiveIn(work'[c].seen, r)
  <2>1. CASE Nth(c, op, reads) = 1 /\ work'[c].seen = Answers(RoleId)
    BY <1>2, <1>3, <2>1, LiveRead
  <2>2. CASE /\ work[c].op = op /\ work[c].todo # <<>>
             /\ work'[c].seen = Answers(scope) @@ work[c].seen
    BY <1>3, <1>6, <2>2, LiveKept
  <2>3. CASE /\ work[c].op = op /\ work[c].todo # <<>>
             /\ work'[c].seen = Answers(member) @@ work[c].seen
    BY <1>3, <1>6, <2>3, LiveKept
  <2>4. CASE Nth(c, op, reads) = 4 /\ work'[c].seen = Answers(role) @@ work[c].seen
    BY <1>2, <1>3, <2>4, LiveRead DEF MayBeGiven
  <2>5. QED
    BY <1>7, <2>1, <2>2, <2>3, <2>4
<1>9. Reading(store, work'[c])
  BY <1>5, <1>7, <1>8
<1>10. QED
  BY <1>1, <1>7, <1>9, AccessFacts, ReadMoves

LEMMA BootstrapMoves ==
  ASSUME AccessInv, NEW c \in Call, BootstrapAdministrator(c)
  PROVE  Moves(c)
<1>1. PICK o \in Organization, p \in Principal, r \in RoleId, a \in Fresh(Assignment) :
        LET grant == Grant(p, o, r, OrgWide)
            op == <<"bootstrap", grant, a>>
            m == Member(o, p)
            scope == Assignment \union {Scope(grant)}
            reads == << RoleId, scope, {m}, {r}, scope >>
        IN  \/ /\ Nth(c, op, reads) = 1 => r \in RolesNamed(store, Admin, Platform)
               /\ Nth(c, op, reads) = 2 => ~Exists(FindUnique(store, grant))
               /\ Nth(c, op, reads) = 3 => store[m] = "active"
               /\ Nth(c, op, reads) = 4 => MayBeGiven(store[r], o)
               /\ Read(c, op, reads)
            \/ /\ LastRead(c, op, reads)
               /\ ~Exists(FindUnique(store, grant))
               /\ Stage(c, reads, << a :> grant >>, a :> "granted")
  BY DEF BootstrapAdministrator
<1> DEFINE grant == Grant(p, o, r, OrgWide)
<1>2. /\ grant \in Grants /\ grant.principal = p /\ grant.org = o /\ grant.role = r
      /\ grant.location = OrgWide
  BY DEF Grant, Grants
<1>3. grant = Grant(p, o, r, OrgWide)
  OBVIOUS
<1> HIDE DEF grant
<1> DEFINE op == <<"bootstrap", grant, a>>
           member == {Member(grant.org, grant.principal)}
           role == {grant.role}
           scope == Assignment \union {Scope(grant)}
           reads == << RoleId, scope, member, role, scope >>
           four == << scope, member, role, scope >>
           three == << member, role, scope >>
           two == << role, scope >>
           one == << scope >>
<1>4. \/ /\ Nth(c, op, reads) = 1 => r \in RolesNamed(store, Admin, Platform)
         /\ Nth(c, op, reads) = 4 => MayBeGiven(store[r], o)
         /\ Read(c, op, reads)
      \/ /\ LastRead(c, op, reads)
         /\ ~Exists(FindUnique(store, grant))
         /\ Stage(c, reads, << a :> grant >>, a :> "granted")
  BY <1>1, <1>2, <1>3
<1>5. CASE /\ Nth(c, op, reads) = 1 => r \in RolesNamed(store, Admin, Platform)
           /\ Nth(c, op, reads) = 4 => MayBeGiven(store[r], o)
           /\ Read(c, op, reads)
  <2>1. /\ Nth(c, op, reads) = 1 => IsLive(store[grant.role])
        /\ Nth(c, op, reads) = 4 => MayBeGiven(store[grant.role], grant.org)
        /\ Read(c, op, reads)
    BY <1>2, <1>5 DEF RolesNamed
  <2>2. QED
    BY <1>2, <2>1, BootstrapReads
<1>6. CASE /\ LastRead(c, op, reads)
           /\ ~Exists(FindUnique(store, grant))
           /\ Stage(c, reads, << a :> grant >>, a :> "granted")
  <2>1. Len(reads) # 1 /\ reads[Len(reads)] = scope
    OBVIOUS
  <2>2. work[c].op = op =>
          (Reading(store, work[c]) <=>
             work[c].todo \in {four, three, two, one} /\ LiveIn(work[c].seen, grant.role))
    BY BootstrapReading
  <2>3. a \in Assignment
    BY FreshIn
  <2> HIDE DEF op, reads, four, three, two, one
  <2>4. work[c].op = op /\ work[c].todo # <<>> /\ IsFree(c)
    BY <1>6, <2>1, AccessFacts, FreeAtLast
  <2>5. LiveIn(work[c].seen, grant.role)
    BY <2>2, <2>4, StillReading
  <2>6. SavesGrant(Saw(c, reads), a, grant)
    BY <1>2, <1>6, <2>1, <2>3, <2>5, GrantFits
  <2>7. QED
    BY <1>2, <1>6, <2>3, <2>4, <2>6, GrantStaged
<1>7. QED
  BY <1>4, <1>5, <1>6

-----------------------------------------------------------------------------
(***************************************************************************)
(* changeAssignmentScope.                                                  *)
(***************************************************************************)
RoleOf(seen, a, r) == Known(seen, a) /\ seen[a].role = r

LEMMA RoleOfKept ==
  ASSUME NEW seen, NEW keys, NEW a, NEW r, RoleOf(seen, a, r), a \notin keys
  PROVE  RoleOf(Answers(keys) @@ seen, a, r)
BY MoreSeen DEF RoleOf, Known

LEMMA ChangeScopeReading ==
  ASSUME NEW s, NEW call, NEW a, NEW grant, NEW actor,
         call.op = <<"changeScope", a, grant, actor>>
  PROVE  LET authorize == Asked(grant.org, actor) \ {a}
             scope == (Assignment \ {a}) \union {Scope(grant)}
         IN  Reading(s, call) <=>
               /\ call.todo \in {<< authorize, {grant.org}, scope >>, << {grant.org}, scope >>, << scope >>}
               /\ RoleOf(call.seen, a, grant.role)
               /\ call.todo = << scope >> =>
                    grant.org \in DOMAIN call.seen /\ IsOpen(call.seen, grant.org, grant.location)
BY DEF Reading, RoleOf

\* A call of changeAssignmentScope that goes on reading.
LEMMA ChangeScopeReads ==
  ASSUME AccessInv, NEW c \in Call, NEW a \in Assignment, NEW grant \in Grants,
         NEW actor \in Principal,
         LET op == <<"changeScope", a, grant, actor>>
             o == grant.org
             reads == << {a}, Asked(o, actor) \ {a}, {o}, (Assignment \ {a}) \union {Scope(grant)} >>
         IN  /\ Nth(c, op, reads) = 1 =>
                  Exists(store[a]) /\ [store[a] EXCEPT !.location = grant.location] = grant
             /\ Nth(c, op, reads) = 3 => IsOpen(store, o, grant.location)
             /\ Read(c, op, reads)
  PROVE  Moves(c)
<1> DEFINE op == <<"changeScope", a, grant, actor>>
           o == grant.org
           r == grant.role
           l == grant.location
           first == {a}
           authorize == Asked(o, actor) \ {a}
           org == {o}
           scope == (Assignment \ {a}) \union {Scope(grant)}
           reads == << first, authorize, org, scope >>
           three == << authorize, org, scope >>
           two == << org, scope >>
           one == << scope >>
<1>1. /\ CallsOK /\ first \in SUBSET Key /\ authorize \in SUBSET Key /\ org \in SUBSET Key
      /\ scope \in SUBSET Key /\ Read(c, op, reads) /\ op # <<>>
  BY AccessFacts, AccessKeys, GrantKeys
<1>2. /\ Nth(c, op, reads) = 1 => Exists(store[a]) /\ store[a].role = r
      /\ Nth(c, op, reads) = 3 => IsOpen(store, o, l)
  <2>1. Nth(c, op, reads) = 1 =>
          Exists(store[a]) /\ [store[a] EXCEPT !.location = grant.location] = grant
    OBVIOUS
  <2>2. Exists(store[a]) => store[a] \in Grants
    BY AccessFacts DEF Records, Exists
  <2>3. Exists(store[a]) /\ [store[a] EXCEPT !.location = grant.location] = grant =>
          store[a].role = r
    BY <2>2 DEF Grants, Grant
  <2>4. QED
    BY <2>1, <2>3
<1>3. a \in first /\ a \notin authorize /\ a \notin org /\ o \in org
  BY GrantFields, AccessKeys
<1>4. one # two /\ one # three
  OBVIOUS
<1>5. work[c].op = op =>
        (Reading(store, work[c]) <=>
           /\ work[c].todo \in {three, two, one} /\ RoleOf(work[c].seen, a, r)
           /\ work[c].todo = one => o \in DOMAIN work[c].seen /\ IsOpen(work[c].seen, o, l))
  BY ChangeScopeReading
<1>6. work'[c].op = op =>
        (Reading(store, work'[c]) <=>
           /\ work'[c].todo \in {three, two, one} /\ RoleOf(work'[c].seen, a, r)
           /\ work'[c].todo = one => o \in DOMAIN work'[c].seen /\ IsOpen(work'[c].seen, o, l))
  BY ChangeScopeReading
<1> HIDE DEF o, r, l, first, authorize, org, scope
<1>7. work[c].todo # <<>> /\ work[c].op = op =>
        work[c].todo \in {three, two, one} /\ RoleOf(work[c].seen, a, r)
  BY <1>5, StillReading
<1>8. /\ reads \in Seq(SUBSET Key) /\ work'[c].op = op
      /\ \/ Nth(c, op, reads) = 1 /\ work'[c].todo = three /\ work'[c].seen = Answers(first)
         \/ /\ work[c].op = op /\ work[c].todo # <<>> /\ work[c].todo = three
            /\ Nth(c, op, reads) = 2 /\ work'[c].todo = two
            /\ work'[c].seen = Answers(authorize) @@ work[c].seen
         \/ /\ work[c].op = op /\ work[c].todo # <<>> /\ work[c].todo = two
            /\ Nth(c, op, reads) = 3 /\ work'[c].todo = one
            /\ work'[c].seen = Answers(org) @@ work[c].seen
  <2>1. work[c].op = op /\ work[c].todo # <<>> => work[c].todo \in {three, two, one}
    BY <1>7
  <2>2. CallsOK /\ Read(c, op, reads) /\ op # <<>> /\ reads \in Seq(SUBSET Key)
    BY <1>1
  <2>3. Len(reads) = 4 /\ Len(three) = 3 /\ Len(two) = 2 /\ Len(one) = 1
    OBVIOUS
  <2>4. /\ reads[1] = first /\ Tail(reads) = three
        /\ three[1] = authorize /\ Tail(three) = two
        /\ two[1] = org /\ Tail(two) = one
    OBVIOUS
  <2> HIDE DEF three, two, one, op, reads
  <2>5. /\ work'[c].op = op
        /\ \/ /\ IsIdle(c) /\ Nth(c, op, reads) = 1
              /\ work'[c].todo = Tail(reads) /\ work'[c].seen = Answers(reads[1])
           \/ /\ work[c].op = op /\ work[c].todo # <<>> /\ Len(work[c].todo) > 1
              /\ Nth(c, op, reads) = Len(reads) - Len(work[c].todo) + 1
              /\ work'[c].todo = Tail(work[c].todo)
              /\ work'[c].seen = Answers(work[c].todo[1]) @@ work[c].seen
    BY <2>2, ReadOn
  <2>6. ASSUME work[c].todo = one, Len(work[c].todo) > 1 PROVE FALSE
    <3>1. 1 > 1
      BY <2>3, <2>6
    <3>2. QED
      BY <3>1
  <2>7. work[c].todo = three => Len(reads) - Len(work[c].todo) + 1 = 2
    <3>1. (4 - 3) + 1 = 2
      OBVIOUS
    <3>2. QED
      BY <2>3, <3>1
  <2>8. work[c].todo = two => Len(reads) - Len(work[c].todo) + 1 = 3
    <3>1. (4 - 2) + 1 = 3
      OBVIOUS
    <3>2. QED
      BY <2>3, <3>1
  <2>9. QED
    BY <2>1, <2>2, <2>4, <2>5, <2>6, <2>7, <2>8
<1> HIDE DEF op, reads, three, two, one
<1>9. /\ RoleOf(work'[c].seen, a, r)
      /\ work'[c].todo = one => o \in DOMAIN work'[c].seen /\ IsOpen(work'[c].seen, o, l)
  <2>1. CASE Nth(c, op, reads) = 1 /\ work'[c].todo = three /\ work'[c].seen = Answers(first)
    <3>1. RoleOf(Answers(first), a, r)
      BY <1>2, <1>3, <2>1 DEF RoleOf, Known, Answers
    <3>2. QED
      BY <1>4, <2>1, <3>1
  <2>2. CASE /\ work[c].op = op /\ work[c].todo # <<>> /\ work'[c].todo = two
             /\ work'[c].seen = Answers(authorize) @@ work[c].seen
    <3>1. RoleOf(Answers(authorize) @@ work[c].seen, a, r)
      BY <1>3, <1>7, <2>2, RoleOfKept
    <3>2. QED
      BY <1>4, <2>2, <3>1
  <2>3. CASE /\ work[c].op = op /\ work[c].todo # <<>> /\ Nth(c, op, reads) = 3
             /\ work'[c].seen = Answers(org) @@ work[c].seen
    <3>1. RoleOf(Answers(org) @@ work[c].seen, a, r)
      BY <1>3, <1>7, <2>3, RoleOfKept
    <3>2. LET more == Answers(org) @@ work[c].seen IN o \in DOMAIN more /\ more[o] = store[o]
      BY <1>3, MoreSeen
    <3>3. IsOpen(store, o, l)
      BY <1>2, <2>3
    <3>4. IsOpen(Answers(org) @@ work[c].seen, o, l)
      BY <3>2, <3>3 DEF IsOpen
    <3>5. QED
      BY <2>3, <3>1, <3>2, <3>4
  <2>4. QED
    BY <1>8, <2>1, <2>2, <2>3
<1>10. Reading(store, work'[c])
  BY <1>6, <1>8, <1>9
<1>11. QED
  BY <1>1, <1>8, <1>10, AccessFacts, ReadMoves

LEMMA ChangeScopeMoves ==
  ASSUME AccessInv, NEW c \in Call, ChangeAssignmentScope(c)
  PROVE  Moves(c)
<1>1. PICK a \in Assignment, grant \in Grants, actor \in Principal :
        LET op == <<"changeScope", a, grant, actor>>
            o == grant.org
            reads == << {a}, Asked(o, actor) \ {a}, {o}, (Assignment \ {a}) \union {Scope(grant)} >>
        IN  \/ /\ Nth(c, op, reads) = 1 =>
                    Exists(store[a]) /\ [store[a] EXCEPT !.location = grant.location] = grant
               /\ Nth(c, op, reads) = 2 => MayManage(store, o, actor)
               /\ Nth(c, op, reads) = 3 => IsOpen(store, o, grant.location)
               /\ Read(c, op, reads)
            \/ /\ LastRead(c, op, reads)
               /\ Exists(FindUnique(store, grant)) => store[Scope(grant)] = a
               /\ Stage(c, reads, << a :> grant >>, a :> "scopeChanged")
  BY DEF ChangeAssignmentScope
<1> DEFINE op == <<"changeScope", a, grant, actor>>
           o == grant.org
           r == grant.role
           l == grant.location
           authorize == Asked(o, actor) \ {a}
           org == {o}
           scope == (Assignment \ {a}) \union {Scope(grant)}
           reads == << {a}, authorize, org, scope >>
           three == << authorize, org, scope >>
           two == << org, scope >>
           one == << scope >>
<1>2. CASE /\ Nth(c, op, reads) = 1 =>
                Exists(store[a]) /\ [store[a] EXCEPT !.location = grant.location] = grant
           /\ Nth(c, op, reads) = 3 => IsOpen(store, o, grant.location)
           /\ Read(c, op, reads)
  BY <1>2, ChangeScopeReads
<1>3. CASE /\ LastRead(c, op, reads)
           /\ Exists(FindUnique(store, grant)) => store[Scope(grant)] = a
           /\ Stage(c, reads, << a :> grant >>, a :> "scopeChanged")
  <2> DEFINE seen == Saw(c, reads)
  <2>1. Len(reads) # 1 /\ reads[Len(reads)] = scope
    OBVIOUS
  <2>2. Len(three) = 3 /\ Len(two) = 2
    OBVIOUS
  <2>3. work[c].op = op =>
          (Reading(store, work[c]) <=>
             /\ work[c].todo \in {three, two, one} /\ RoleOf(work[c].seen, a, r)
             /\ work[c].todo = one => o \in DOMAIN work[c].seen /\ IsOpen(work[c].seen, o, l))
    BY ChangeScopeReading
  <2>4. /\ a \notin scope /\ o \notin scope /\ Scope(grant) \in scope
        /\ \A b \in Assignment \ {a} : b \in scope
    BY GrantFields, ScopeKeys, AccessKeys
  <2>5. \A b \in Assignment : store[Scope(grant)] = b /\ b # a => ~Exists(store[b])
    BY <1>3, AccessFacts, ScopeIndexed
  <2> HIDE DEF op, reads, three, two, one, scope
  <2>6. work[c].op = op /\ Len(work[c].todo) = 1 /\ work[c].todo # <<>> /\ IsFree(c)
    BY <1>3, <2>1, AccessFacts, FreeAtLast
  <2>7. work[c].todo # three
    <3>1. SUFFICES ASSUME work[c].todo = three PROVE FALSE
      OBVIOUS
    <3>2. 1 = 3
      BY <2>2, <2>6, <3>1
    <3>3. QED
      BY <3>2
  <2>8. work[c].todo # two
    <3>1. SUFFICES ASSUME work[c].todo = two PROVE FALSE
      OBVIOUS
    <3>2. 1 = 2
      BY <2>2, <2>6, <3>1
    <3>3. QED
      BY <3>2
  <2>9. /\ RoleOf(work[c].seen, a, r)
        /\ o \in DOMAIN work[c].seen /\ IsOpen(work[c].seen, o, l)
    BY <2>3, <2>6, <2>7, <2>8, StillReading
  <2>10. /\ \A k \in scope : k \in DOMAIN seen /\ seen[k] = store[k]
         /\ \A k : k \notin scope /\ k \in DOMAIN work[c].seen =>
              k \in DOMAIN seen /\ seen[k] = work[c].seen[k]
    BY <2>1, Sees
  <2>11. Known(seen, a) /\ seen[a].role = r
    BY <2>4, <2>9, <2>10 DEF RoleOf, Known
  <2>12. o \in DOMAIN seen /\ seen[o] = work[c].seen[o]
    BY <2>4, <2>9, <2>10
  <2>13. Scope(grant) \in DOMAIN seen /\ seen[Scope(grant)] = store[Scope(grant)]
    BY <2>4, <2>10
  <2>14. \A b \in Assignment \ {a} : b \in DOMAIN seen /\ seen[b] = store[b]
    BY <2>4, <2>10
  <2> HIDE DEF seen
  <2>15. grant.location = OrgWide \/ (Known(seen, grant.org) /\ PlaceOf(grant, seen[grant.org]))
    BY <2>9, <2>12 DEF IsOpen, IsOrg, Known, PlaceOf
  <2>16. SavesGrant(seen, a, grant)
    BY <2>5, <2>11, <2>13, <2>14, <2>15 DEF SavesGrant
  <2>17. QED
    BY <1>3, <2>6, <2>16, GrantStaged DEF seen
<1>4. QED
  BY <1>1, <1>2, <1>3

-----------------------------------------------------------------------------
(***************************************************************************)
(* Every step.                                                             *)
(***************************************************************************)
LEMMA TenancyMoves ==
  ASSUME AccessInv, NEW c \in Call, TenancyStep(c)
  PROVE  Moves(c)
<1>1. CASE \/ ActivateOrganization(c) \/ SuspendOrganization(c)
           \/ ArchiveOrganization(c) \/ DeleteOrganization(c)
  BY <1>1, SetStatusMoves
     DEF ActivateOrganization, SuspendOrganization, ArchiveOrganization, DeleteOrganization
<1>2. CASE \/ CreateOrganization(c) \/ RenameOrganization(c) \/ DropSlug(c) \/ ChangeNames(c)
           \/ TransferOwnership(c) \/ AddLocation(c) \/ DeactivateLocation(c)
  BY <1>2, CreateOrganizationMoves, RenameMoves, DropSlugMoves, ChangeNamesMoves, TransferMoves,
     AddLocationMoves, DeactivateLocationMoves
<1>3. CASE SuspendMembership(c) \/ ActivateMembership(c)
  BY <1>3, SetMembershipStateMoves DEF SuspendMembership, ActivateMembership
<1>4. CASE RemoveMembership(c) \/ LeaveOrganization(c)
  BY <1>4, EndMembershipMoves DEF RemoveMembership, LeaveOrganization
<1>5. CASE RevokeInvitation(c) \/ DeclineInvitation(c)
  BY <1>5, CloseInvitationMoves DEF RevokeInvitation, DeclineInvitation
<1>6. CASE AddMembership(c) \/ CreateInvitation(c) \/ AcceptInvitation(c)
  BY <1>6, AddMembershipMoves, CreateInvitationMoves, AcceptMoves
<1>7. QED
  BY <1>1, <1>2, <1>3, <1>4, <1>5, <1>6 DEF TenancyStep

LEMMA RbacMoves ==
  ASSUME AccessInv, NEW c \in Call, RbacStep(c)
  PROVE  Moves(c)
BY PermissionMoves, SeedPermissionsMoves, CreateRoleMoves, UpdateRoleMoves, DeleteRoleMoves,
   AssignMoves, BootstrapMoves, RevokeMoves, ChangeScopeMoves
   DEF RbacStep

\* A step saves a record or leaves the repositories alone.
LEMMA AccessSteps ==
  ASSUME AccessInv, Next
  PROVE  \E c \in Call : Moves(c) \/ (Save(c) /\ ~IsAssignmentSave(c)) \/ SaveAssignment(c)
<1>1. PICK c \in Call : Step(c)
  BY DEF Next
<1>2. CallsOK
  BY DEF AccessInv
<1>3. CASE TenancyStep(c) \/ RbacStep(c)
  BY <1>3, TenancyMoves, RbacMoves
<1>4. CASE GiveUp(c) \/ Publish(c)
  BY <1>2, <1>4, GiveUpMoves, PublishMoves
<1>5. CASE SeedTemplate(c) \/ DeleteAssignments(c)
  BY <1>5, SeedTemplateMoves, DeleteAssignmentsMoves
<1>6. CASE SaveAssignment(c) \/ (Save(c) /\ ~IsAssignmentSave(c))
  BY <1>6
<1>7. QED
  BY <1>1, <1>3, <1>4, <1>5, <1>6 DEF Step, RbacSave

-----------------------------------------------------------------------------
LEMMA AccessStarts ==
  ASSUME Init
  PROVE  AccessInv
<1>1. PICK opening \in Openings : ServiceInit(opening)
  BY DEF Init
<1>2. Records(store) /\ Consistent(store) /\ raced = {}
  BY <1>1, AccessAssumption DEF ServiceInit
<1>3. CallsOK /\ \A c \in Call : work[c] = Idle
  BY <1>1, CallsStart
<1>4. \A c \in Call : Fits(store, work[c])
  BY <1>3, IdleFits
<1>5. \A c \in Call : \A k : ~Known(work[c].seen, k) /\ ~Writing(work[c].writes, k)
  BY <1>3, IdleCall DEF Known, Writing
<1>6. DraftsInv
  BY <1>5 DEF DraftsInv
<1>7. SlugsInv
  BY <1>2 DEF SlugsInv, Consistent
<1>8. OwnersInv
  BY <1>2 DEF OwnersInv, Consistent
<1>9. PlacesInv
  BY <1>2 DEF PlacesInv, PlaceOf, Consistent
<1>10. IndexInv
  BY <1>2 DEF IndexInv, Consistent
<1>11. RolesInv
  BY <1>2 DEF RolesInv, Consistent
<1>12. QED
  BY <1>2, <1>3, <1>4, <1>6, <1>7, <1>8, <1>9, <1>10, <1>11 DEF AccessInv

LEMMA AccessStutters ==
  ASSUME AccessInv, UNCHANGED vars
  PROVE  AccessInv'
<1>1. store' = store /\ work' = work /\ raced' = raced
  BY DEF vars, serviceVars
<1>2. CallsOK' /\ Records(store)'
  BY <1>1 DEF AccessInv, CallsOK
<1>3. \A c \in Call : Fits(store', work'[c])
  BY <1>1 DEF AccessInv
<1>4. \A k, record : Pending(k, record)' <=> Pending(k, record)
  BY <1>1 DEF Pending
<1>5. \A r : Ending(r)' <=> Ending(r)
  BY <1>1 DEF Ending
<1>6. DraftsInv' /\ SlugsInv' /\ PlacesInv' /\ IndexInv'
  BY <1>1 DEF AccessInv, DraftsInv, SlugsInv, PlacesInv, IndexInv
<1>7. OwnersInv'
  BY <1>1, <1>4 DEF AccessInv, OwnersInv
<1>8. RolesInv'
  BY <1>1, <1>4, <1>5 DEF AccessInv, RolesInv
<1>9. QED
  BY <1>2, <1>3, <1>6, <1>7, <1>8 DEF AccessInv

\* Every call is in one of the forms above, whatever the others have saved meanwhile, and
\* the records on file go with one another and with what is about to be saved.
THEOREM AccessInvariant == Spec => []AccessInv
<1>1. Init => AccessInv
  BY AccessStarts
<1>2. AccessInv /\ [Next]_vars => AccessInv'
  BY AccessSteps, MovesKeep, SavesKeep, AssignmentSavesKeep, AccessStutters
<1>3. QED
  BY <1>1, <1>2, PTL DEF Spec

-----------------------------------------------------------------------------
(***************************************************************************)
(* What follows.                                                           *)
(***************************************************************************)
\* Whatever calls overlap, the permissions listed for a principal at a place are those
\* authorize grants there: a role in force is made of permissions that are registered.
THEOREM AnswersAgreeAlways == Spec => []AnswersAgree
<1>1. ASSUME AccessInv PROVE AnswersAgree
  <2>1. SUFFICES ASSUME NEW o \in Organization, IsOrg(store[o]), NEW p \in Principal,
                        NEW k \in Permission,
                        NEW l \in DOMAIN store[o].locations \union {OrgWide}
                 PROVE  Authorized(store, p, k, o, l) <=> k \in EffectivePermissions(store, p, o, l)
    BY DEF AnswersAgree
  <2>2. CASE store[Member(o, p)] # "active"
    BY <2>2 DEF Authorized, EffectivePermissions
  <2>3. CASE store[Member(o, p)] = "active"
    <3>1. k \in EffectivePermissions(store, p, o, l) <=>
            \E a \in Held(store, p, o) :
              /\ store[a].location \in {OrgWide, l} /\ IsLive(store[store[a].role])
              /\ k \in store[store[a].role].permissions
      BY <2>3 DEF EffectivePermissions
    <3>2. ASSUME NEW a \in Held(store, p, o), IsLive(store[store[a].role]),
                 k \in store[store[a].role].permissions
          PROVE  Exists(store[k])
      <4>1. a \in Assignment /\ Exists(store[a])
        BY DEF Held
      <4>2. store[a] \in Grants
        BY <1>1, <4>1 DEF AccessInv, Records, Exists
      <4>3. store[a].role \in RoleId
        BY <4>2, GrantFields
      <4>4. QED
        BY <1>1, <3>2, <4>3 DEF AccessInv, Records, IsLive
    <3>3. l # OrgWide => IsOrg(store[o]) /\ l \in DOMAIN store[o].locations
      BY <2>1
    <3>4. QED
      BY <2>3, <3>1, <3>2, <3>3 DEF Authorized
  <2>4. QED
    BY <2>2, <2>3
<1>2. QED
  BY <1>1, AccessInvariant, PTL

LEMMA RestingAccess ==
  ASSUME AtRest
  PROVE  (\A k, record : ~Pending(k, record)) /\ (\A r : ~Ending(r))
<1>1. \A c \in Call : work[c] = Idle
  BY DEF AtRest, IsIdle
<1>2. \A k, record : ~Pending(k, record)
  BY <1>1, IdleCall DEF Pending
<1>3. \A r : ~Ending(r)
  BY <1>1 DEF Ending, Ends
<1>4. QED
  BY <1>2, <1>3

\* Whatever calls there have been: when none runs, an organization is owned by one of its
\* members and alone has its slug, unless it or that membership was saved past another call.
THEOREM OrganizationsAreOwnedAlways == Spec => []OrganizationsAreOwned
<1>1. ASSUME AccessInv PROVE OrganizationsAreOwned
  <2>1. SUFFICES ASSUME AtRest, NEW o \in Organization, IsOrg(store[o]), o \notin raced
                 PROVE  /\ Member(o, store[o].owner) \in raced
                             \/ store[Member(o, store[o].owner)] \in {"active", "suspended"}
                        /\ store[o].slug # NoSlug => FindBySlug(store[o].slug) \ raced = {o}
    BY DEF OrganizationsAreOwned
  <2>2. \A k, record : ~Pending(k, record)
    BY <2>1, RestingAccess
  <2>3. \/ Member(o, store[o].owner) \in raced
        \/ store[Member(o, store[o].owner)] \in {"active", "suspended"}
    BY <1>1, <2>1, <2>2 DEF AccessInv, OwnersInv
  <2>4. ASSUME store[o].slug # NoSlug PROVE FindBySlug(store[o].slug) \ raced = {o}
    <3>1. \A q \in Organization \ raced : IsOrg(store[q]) /\ store[q].slug = store[o].slug => q = o
      BY <1>1, <2>1, <2>4 DEF AccessInv, SlugsInv
    <3>2. QED
      BY <2>1, <3>1 DEF FindBySlug
  <2>5. QED
    BY <2>3, <2>4
<1>2. QED
  BY <1>1, AccessInvariant, PTL

\* Whatever calls there have been: when none runs, an assignment gives a role in force at
\* a place of its organization, is the only one of its scope and is found under it, unless
\* what it depends on was saved past another call.
THEOREM GrantsHoldAlways == Spec => []GrantsHold
<1>1. ASSUME AccessInv PROVE GrantsHold
  <2>1. SUFFICES ASSUME AtRest, NEW a \in Assignment, Exists(store[a])
                 PROVE  LET grant == store[a]
                        IN  /\ {a, grant.role, grant.org} \intersect raced = {} =>
                                 /\ IsLive(store[grant.role])
                                 /\ \/ grant.location = OrgWide
                                    \/ grant.location \in DOMAIN store[grant.org].locations
                            /\ Scope(grant) \notin raced =>
                                 /\ {b \in Assignment : store[b] = grant} = {a}
                                 /\ store[Scope(grant)] = a
    BY DEF GrantsHold
  <2> DEFINE grant == store[a]
  <2>2. (\A k, record : ~Pending(k, record)) /\ (\A r : ~Ending(r))
    BY <2>1, RestingAccess
  <2>3. ASSUME {a, grant.role, grant.org} \intersect raced = {}
        PROVE  /\ IsLive(store[grant.role])
               /\ grant.location = OrgWide \/ grant.location \in DOMAIN store[grant.org].locations
    <3>1. IsLive(store[grant.role])
      BY <1>1, <2>1, <2>2, <2>3 DEF AccessInv, RolesInv
    <3>2. grant.location = OrgWide \/ grant.location \in DOMAIN store[grant.org].locations
      BY <1>1, <2>1, <2>3 DEF AccessInv, PlacesInv, PlaceOf
    <3>3. QED
      BY <3>1, <3>2
  <2>4. ASSUME Scope(grant) \notin raced
        PROVE  {b \in Assignment : store[b] = grant} = {a} /\ store[Scope(grant)] = a
    <3>1. \A b \in Assignment : store[b] = grant => store[Scope(grant)] = b
      BY <1>1, <2>1, <2>4 DEF AccessInv, IndexInv
    <3>2. QED
      BY <3>1
  <2>5. QED
    BY <2>3, <2>4
<1>2. QED
  BY <1>1, AccessInvariant, PTL

\* A save of a key other than an invitation's leaves the invitations alone.
LEMMA OtherSaved ==
  ASSUME CallsOK, NEW k \in Key \ Invitation, NEW v, NEW write, write = k :> v,
         store' = write @@ store, NEW i \in Invitation
  PROVE  store'[i] = store[i]
<1>1. i \in DOMAIN store /\ i # k
  BY AccessKeys DEF CallsOK
<1>2. QED
  BY <1>1 DEF @@, :>

\* An invitation is overwritten by a call that has read it pending, or has just made it.
LEMMA InvitationsSettle ==
  ASSUME AccessInv, NEW c \in Call, Save(c), ~IsAssignmentSave(c),
         NEW i \in Invitation, Exists(store[i]), store[i].state # "pending", store'[i] # store[i]
  PROVE  i \in raced'
<1> DEFINE seen == work[c].seen
           writes == work[c].writes
<1>1. CallsOK /\ Wrote(c, writes[1])
  BY SaveWrote DEF AccessInv
<1>2. writes # <<>> /\ store' = writes[1] @@ store /\ Staged(store, work[c].op, seen, writes)
  BY <1>1 DEF Wrote, AccessInv, Fits
<1>3. ASSUME NEW k \in Key \ Invitation, NEW v, writes[1] = k :> v PROVE FALSE
  BY <1>1, <1>2, <1>3, OtherSaved
<1>4. CASE \E o \in Organization, org \in OrgRecord : SavesOrg(seen, writes, o, org)
  <2>1. PICK o \in Organization, org \in OrgRecord : SavesOrg(seen, writes, o, org)
    BY <1>4
  <2>2. \/ writes = << o :> org, Member(o, org.owner) :> "active" >>
        \/ writes = << o :> org >>
    BY <2>1 DEF SavesOrg
  <2>3. writes[1] = o :> org
    BY <2>2, Tails
  <2>4. QED
    BY <1>3, <2>3, AccessKeys
<1>5. CASE \E m, v : m \in Members /\ writes[1] = m :> v
  BY <1>3, <1>5, AccessKeys
<1>6. CASE \E o \in Organization, p \in Principal, state \in MemberState :
             writes = << Member(o, p) :> state >>
  <2>1. PICK o \in Organization, p \in Principal, state \in MemberState :
          writes = << Member(o, p) :> state >>
    BY <1>6
  <2>2. writes[1] = Member(o, p) :> state /\ Member(o, p) \in Members
    BY <2>1, Tails, MemberKeys
  <2>3. QED
    BY <1>5, <2>2
<1>7. CASE \E m \in Members, j \in Invitation, invitation \in InvitationRecord :
             writes = << m :> "active", j :> invitation >>
  <2>1. PICK m \in Members, j \in Invitation, invitation \in InvitationRecord :
          writes = << m :> "active", j :> invitation >>
    BY <1>7
  <2>2. writes[1] = m :> "active"
    BY <2>1, Tails
  <2>3. QED
    BY <1>5, <2>2
<1>8. CASE \E j \in Invitation, invitation \in InvitationRecord :
             writes = << j :> invitation >> /\ SavesInvitation(seen, j)
  <2>1. PICK j \in Invitation, invitation \in InvitationRecord :
          writes = << j :> invitation >> /\ SavesInvitation(seen, j)
    BY <1>8
  <2>2. writes[1] = j :> invitation
    BY <2>1, Tails
  <2>3. j = i /\ DOMAIN writes[1] = {j}
    <3>1. i \in DOMAIN store
      BY <1>1, AccessKeys DEF CallsOK
    <3>2. QED
      BY <1>2, <2>2, <3>1 DEF @@, :>
  <2>4. Writing(writes, i)
    <3>1. writes = << i :> invitation >>
      BY <2>1, <2>3
    <3>2. QED
      BY <3>1, WritingOne
  <2>5. Known(seen, i)
    <3>1. i \in Lasting
      BY DEF Lasting
    <3>2. QED
      BY <2>4, <3>1 DEF AccessInv, DraftsInv
  <2>6. seen[i].state = "pending"
    BY <2>1, <2>3, <2>5 DEF SavesInvitation, IsPending
  <2>7. ~Unstale(c)
    BY <2>5, <2>6 DEF Unstale, Known
  <2>8. QED
    BY <1>1, <2>3, <2>7 DEF Wrote
<1>9. CASE \E r, v : r \in RoleId \union Assignment /\ writes = << r :> v >>
  <2>1. PICK r, v : r \in RoleId \union Assignment /\ writes = << r :> v >>
    BY <1>9
  <2>2. writes[1] = r :> v
    BY <2>1, Tails
  <2>3. QED
    BY <1>3, <2>1, <2>2, AccessKeys
<1>10. CASE writes \in Seq(PermissionWrites)
  <2>1. writes[1] \in PermissionWrites
    BY <1>2, <1>10, FirstOf
  <2>2. PICK k \in Permission, record \in PermissionRecord : writes[1] = k :> record
    BY <2>1 DEF PermissionWrites
  <2>3. QED
    BY <1>3, <2>2, AccessKeys
<1>11. CASE writes \in Seq(Removals)
  <2>1. writes[1] \in Removals
    BY <1>2, <1>11, FirstOf
  <2>2. PICK a \in Assignment : writes[1] = a :> NoRecord
    BY <2>1 DEF Removals
  <2>3. QED
    BY <1>3, <2>2, AccessKeys
<1>12. QED
  BY <1>2, <1>4, <1>6, <1>7, <1>8, <1>9, <1>10, <1>11 DEF Staged

\* The save of an assignment writes that assignment and entries of the index.
LEMMA AssignmentsLeaveInvitations ==
  ASSUME AccessInv, NEW c \in Call, SaveAssignment(c), NEW i \in Invitation
  PROVE  store'[i] = store[i]
<1>1. PICK a \in Assignment, new \in Grants \union {NoRecord} : Wrote(c, Indexed(a, store[a], new))
  BY AssignmentStaged
<1> DEFINE saved == Indexed(a, store[a], new)
<1>2. store[a] \in Grants \union {NoRecord}
  BY DEF AccessInv, Records
<1>3. \A x \in DOMAIN saved : x = a \/ x \in Scopes
  BY <1>2, IndexedParts
<1>4. store' = saved @@ store
  BY <1>1 DEF Wrote
<1> HIDE DEF saved
<1>5. i \notin DOMAIN saved /\ i \in DOMAIN store
  BY <1>3, AccessKeys DEF AccessInv, CallsOK
<1>6. QED
  BY <1>4, <1>5 DEF @@

\* A step that changes an invitation no longer pending was taken past another call.
THEOREM SettledOnceAlways == Spec => SettledOnce
<1>1. AccessInv /\ [Next]_vars =>
        [\A i \in Invitation :
           Exists(store[i]) /\ store[i].state # "pending" /\ store'[i] # store[i]
             => i \in raced']_vars
  <2>1. SUFFICES ASSUME AccessInv, Next, NEW i \in Invitation,
                        Exists(store[i]), store[i].state # "pending", store'[i] # store[i]
                 PROVE  i \in raced'
    OBVIOUS
  <2>2. PICK c \in Call : Moves(c) \/ (Save(c) /\ ~IsAssignmentSave(c)) \/ SaveAssignment(c)
    BY <2>1, AccessSteps
  <2>3. ~Moves(c)
    BY <2>1 DEF Moves
  <2>4. ~SaveAssignment(c)
    BY <2>1, AssignmentsLeaveInvitations
  <2>5. QED
    BY <2>1, <2>2, <2>3, <2>4, InvitationsSettle
<1>2. QED
  BY <1>1, AccessInvariant, PTL DEF Spec, SettledOnce
=============================================================================
