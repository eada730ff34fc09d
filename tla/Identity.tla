------------------------------ MODULE Identity ------------------------------
(***************************************************************************)
(* IdentityService over its in-memory repositories of users, sessions and  *)
(* password reset challenges.  Tokens, hashes and times are left out: a    *)
(* password is its number, a session or challenge does not expire and a    *)
(* lock holds until it is lifted.                                          *)
(***************************************************************************)
EXTENDS BoundedCalls

CONSTANTS
  User,           \* principalIds that may be drawn
  Email,          \* normalized addresses
  External,       \* issuer and subject pairs
  Session,        \* sessionIds that may be drawn
  Challenge,      \* challengeIds that may be drawn
  MaxFailedLogins,
  MaxPasswords,   \* bound: passwords a user may have had
  Registered     \* the users at the start, by principalId

Standing == {"pending_verification", "active", "suspended", "deactivated", "deleted"}

UserRecord ==
  [email : Email, status : Standing, verified : BOOLEAN, password : Nat, failed : Nat,
   locked : BOOLEAN, links : SUBSET External]

SessionRecord == [user : User, revoked : BOOLEAN, password : Nat]
ChallengeRecord == [user : User, consumed : BOOLEAN]

\* Ids are drawn apart; the users at the start are such as the service leaves them.
ASSUME IdentityAssumption ==
  /\ User \union Session \union Challenge \subseteq Key
  /\ User \intersect Session = {} /\ (User \union Session) \intersect Challenge = {}
  /\ IsFiniteSet(Session)
  /\ NoRecord \notin UserRecord \union SessionRecord \union ChallengeRecord
  /\ MaxFailedLogins \in Nat \ {0} /\ MaxPasswords \in Nat /\ MaxCalls \in Nat
  /\ DOMAIN Registered \subseteq User
  /\ \A u \in DOMAIN Registered :
       /\ Registered[u] \in UserRecord
       /\ Registered[u].failed >= MaxFailedLogins => Registered[u].locked
       /\ \A v \in DOMAIN Registered \ {u} :
            /\ Registered[u].email # Registered[v].email
            /\ Registered[u].links \intersect Registered[v].links = {}

identityVars == <<serviceVars, calls>>

NewUser(email) ==
  [email |-> email, status |-> "pending_verification", verified |-> FALSE, password |-> 1,
   failed |-> 0, locked |-> FALSE, links |-> {}]

\* The users at the start have been announced.
IdentityInit ==
  /\ store = [k \in Key |-> IF k \in DOMAIN Registered THEN Registered[k] ELSE NoRecord]
  /\ told = [k \in Key |-> IF k \in DOMAIN Registered THEN Registered[k].status ELSE NoRecord]
  /\ work = [c \in Call |-> Idle]
  /\ raced = {}
  /\ calls = 0

-----------------------------------------------------------------------------
IsUser(user) == Exists(user) /\ user.status # "deleted"

\* Mutant of CanAuthenticate: only deleted and locked users are turned away.
CanAuthenticateIfThere(user) == user.status # "deleted" /\ ~user.locked

CanAuthenticate(user) ==
  user.status \notin {"deleted", "suspended", "deactivated"} /\ ~user.locked

FindByEmail(email) == {u \in User : IsUser(store[u]) /\ store[u].email = email}

FindByExternalIdentity(x) == {u \in User : Exists(store[u]) /\ x \in store[u].links}

\* revokeAllSessionsInUow: one save for each session listed as active.
RevokedIn(sessions, u) ==
  LET active == {s \in DOMAIN sessions :
                   Exists(sessions[s]) /\ sessions[s].user = u /\ ~sessions[s].revoked}
      order == Seqs!SetToSeq(active)
  IN  [i \in DOMAIN order |-> order[i] :> [sessions[order[i]] EXCEPT !.revoked = TRUE]]

-----------------------------------------------------------------------------
(***************************************************************************)
(* Operations that read a user and save it.                                *)
(***************************************************************************)
Update(c, u, next, news) == Stage(c, << {u} >>, << u :> next >>, news)

\* Mutant of RegisterLocalUser: the address is not looked up.
RegisterAnyEmail(c) ==
  \E u \in Fresh(User), email \in Email :
    /\ IsIdle(c)
    /\ Stage(c, << User >>, << u :> NewUser(email) >>, u :> "pending_verification")

\* The lookup of the address goes through all users.
RegisterLocalUser(c) ==
  \E u \in Fresh(User), email \in Email :
    /\ IsIdle(c)
    /\ FindByEmail(email) = {}
    /\ Stage(c, << User >>, << u :> NewUser(email) >>, u :> "pending_verification")

\* The token is handed out when the registration returns. The status becomes active
\* whatever it was.
VerifyEmail(c) ==
  \E u \in User :
    /\ IsIdle(c)
    /\ IsUser(store[u]) /\ Exists(told[u]) /\ ~store[u].verified
    /\ Update(c, u, [store[u] EXCEPT !.verified = TRUE, !.status = "active"], u :> "active")

\* authenticateLocal with the right password.
Authenticate(c) ==
  \E email \in Email : \E u \in FindByEmail(email), s \in Fresh(Session) :
    /\ IsIdle(c)
    /\ CanAuthenticate(store[u])
    /\ Stage(c, << {u} >>,
             << u :> [store[u] EXCEPT !.failed = 0, !.locked = FALSE],
                s :> [user |-> u, revoked |-> FALSE, password |-> store[u].password] >>,
             s :> "issued")

\* Mutant of Counted: the lockout comes one failure late.
CountedLate(user) ==
  [user EXCEPT !.failed = @ + 1, !.locked = @ \/ user.failed >= MaxFailedLogins]

Counted(user) ==
  [user EXCEPT !.failed = @ + 1, !.locked = @ \/ user.failed + 1 >= MaxFailedLogins]

\* authenticateLocal with a wrong password: recordFailedLogin.
FailLogin(c) ==
  \E email \in Email : \E u \in FindByEmail(email) :
    /\ IsIdle(c)
    /\ CanAuthenticate(store[u])
    /\ Update(c, u, Counted(store[u]), <<>>)

LockUser(c) ==
  \E u \in User :
    /\ IsIdle(c) /\ IsUser(store[u])
    /\ Update(c, u, [store[u] EXCEPT !.locked = TRUE], <<>>)

UnlockUser(c) ==
  \E u \in User :
    /\ IsIdle(c) /\ IsUser(store[u])
    /\ Update(c, u, [store[u] EXCEPT !.locked = FALSE, !.failed = 0], <<>>)

ActivateUser(c) ==
  \E u \in User :
    /\ IsIdle(c) /\ IsUser(store[u])
    /\ Update(c, u, [store[u] EXCEPT !.status = "active"], u :> "active")

\* suspendUser, deactivateUser and deleteUser revoke the sessions as well: they are
\* listed after the user has been read.
Withdraw(c, to) ==
  \E u \in User :
    LET op == <<to, u>>
        reads == << {u}, Session >>
        user == Saw(c, reads)[u]
    IN  \/ IsUser(store[u]) /\ Read(c, op, reads)
        \/ /\ LastRead(c, op, reads)
           /\ Stage(c, reads,
                    << u :> [user EXCEPT !.status = to] >> \o RevokedIn(Answers(Session), u),
                    u :> to)

SuspendUser(c) == Withdraw(c, "suspended")
DeactivateUser(c) == Withdraw(c, "deactivated")
DeleteUser(c) == Withdraw(c, "deleted")

\* The identity is looked up among all users, deleted ones too.
LinkExternalIdentity(c) ==
  \E u \in User, x \in External :
    LET op == <<"link", u, x>>
        reads == << User, {u} >>
        user == store[u]
    IN  \/ FindByExternalIdentity(x) \subseteq {u} /\ Read(c, op, reads)
        \/ /\ LastRead(c, op, reads)
           /\ IsUser(user) /\ x \notin user.links
           /\ Stage(c, reads, << u :> [user EXCEPT !.links = @ \union {x}] >>, <<>>)

UnlinkExternalIdentity(c) ==
  \E u \in User, x \in External :
    /\ IsIdle(c) /\ IsUser(store[u])
    /\ Update(c, u, [store[u] EXCEPT !.links = @ \ {x}], <<>>)

-----------------------------------------------------------------------------
(***************************************************************************)
(* Passwords and sessions.                                                 *)
(***************************************************************************)
\* Whether or not the user may sign in.
RequestPasswordReset(c) ==
  \E email \in Email : \E u \in FindByEmail(email), ch \in Fresh(Challenge) :
    /\ IsIdle(c)
    /\ Stage(c, << {u} >>, << ch :> [user |-> u, consumed |-> FALSE] >>, <<>>)

Another(password) == IF password < MaxPasswords THEN password + 1 ELSE 1

\* resetPassword: challenge, user and sessions are read one after the other.
ResetPassword(c) ==
  \E ch \in Challenge, u \in User :
    LET op == <<"reset", ch, u>>
        reads == << {ch}, {u}, Session >>
        seen == Saw(c, reads)
        user == [seen[u] EXCEPT !.password = Another(@), !.failed = 0, !.locked = FALSE]
    IN  \/ /\ Nth(c, op, reads) = 1 =>
                Exists(store[ch]) /\ ~store[ch].consumed /\ store[ch].user = u
           /\ Nth(c, op, reads) = 2 => IsUser(store[u])
           /\ Read(c, op, reads)
        \/ /\ LastRead(c, op, reads)
           /\ Stage(c, reads,
                    << u :> user, ch :> [seen[ch] EXCEPT !.consumed = TRUE] >>
                      \o RevokedIn(Answers(Session), u),
                    <<>>)

ChangePassword(c) ==
  \E u \in User :
    LET op == <<"changePassword", u>>
        reads == << {u}, Session >>
        user == Saw(c, reads)[u]
    IN  \/ IsUser(store[u]) /\ Read(c, op, reads)
        \/ /\ LastRead(c, op, reads)
           /\ Stage(c, reads,
                    << u :> [user EXCEPT !.password = Another(@)] >>
                      \o RevokedIn(Answers(Session), u),
                    <<>>)

RevokeSession(c) ==
  \E s \in Session :
    /\ IsIdle(c)
    /\ Exists(store[s]) /\ ~store[s].revoked
    /\ Stage(c, << {s} >>, << s :> [store[s] EXCEPT !.revoked = TRUE] >>, s :> "revoked")

RevokeAllSessions(c) ==
  \E u \in User :
    /\ IsIdle(c)
    /\ Stage(c, << Session >>, RevokedIn(Answers(Session), u), <<>>)

-----------------------------------------------------------------------------
IdentityStep(c) ==
  \/ RegisterLocalUser(c)
  \/ VerifyEmail(c)
  \/ Authenticate(c)
  \/ FailLogin(c)
  \/ LockUser(c)
  \/ UnlockUser(c)
  \/ ActivateUser(c)
  \/ SuspendUser(c)
  \/ DeactivateUser(c)
  \/ DeleteUser(c)
  \/ LinkExternalIdentity(c)
  \/ UnlinkExternalIdentity(c)
  \/ RequestPasswordReset(c)
  \/ ResetPassword(c)
  \/ ChangePassword(c)
  \/ RevokeSession(c)
  \/ RevokeAllSessions(c)
  \/ CallStep(c)

IdentityNext == \E c \in Call : Bounded(c) /\ IdentityStep(c)

IdentitySpec == IdentityInit /\ [][IdentityNext]_identityVars
-----------------------------------------------------------------------------
(***************************************************************************)
(* Properties.                                                             *)
(***************************************************************************)
\* docs/modules/identity/design.md:98,119: whenever no call is running, an active
\* session belongs to a user in good standing and was opened with the password that
\* is valid now, unless a save of the session or the user has raced with another call.
ActiveSessionsAreCurrent ==
  AtRest => \A s \in Session :
    Exists(store[s]) /\ ~store[s].revoked /\ {s, store[s].user} \intersect raced = {} =>
      LET user == store[store[s].user]
      IN  user.status \in {"pending_verification", "active"} /\ user.password = store[s].password

\* An address belongs to one user that is not deleted and an external identity to
\* one user, unless the later one was saved past a change of the users.
IdentitiesAreUnique ==
  \A u, v \in {w \in User : Exists(store[w])} :
    u # v /\ {u, v} \intersect raced = {} =>
      /\ store[u].email = store[v].email => "deleted" \in {store[u].status, store[v].status}
      /\ store[u].links \intersect store[v].links = {}

\* Whenever no call is running the last event about the standing of a user names the
\* status on file, and a user with too many failed logins is locked, unless raced.
StandingIsAnnounced ==
  AtRest => \A u \in User \ raced : Exists(store[u]) =>
    /\ told[u] = store[u].status
    /\ store[u].failed >= MaxFailedLogins => store[u].locked
=============================================================================
