------------------------------ MODULE Account -------------------------------
(***************************************************************************)
(* One row of identity.users and everything that writes it: VerifyTotp and *)
(* AdminLogin, each a request that SELECTs the row and later UPDATEs it    *)
(* WHERE version = the version it read; and the two outbox handlers, which *)
(* lock an account after too many wrong codes and verify it after a signup *)
(* link, each in its own unit of work and delivered at least once.         *)
(*                                                                         *)
(* Time is abstracted: locked_until is absent, in the future or past.      *)
(***************************************************************************)
EXTENDS Naturals, FiniteSets

CONSTANTS
    Requests,       \* HTTP requests that can be in flight together
    Deliveries,     \* outbox dispatches that can be in flight together
    TotpThreshold,  \* TOTP_LOCKOUT_THRESHOLD
    PwThreshold,    \* ADMIN_PASSWORD_LOCKOUT_THRESHOLD
    MaxRetries,     \* _MAX_RETRIES of the lockout handler
    MaxVersion      \* bound: below this version requests start and windows elapse

ASSUME ThresholdAssumption == TotpThreshold \in Nat \ {0} /\ PwThreshold \in Nat \ {0}
ASSUME RetryAssumption     == MaxRetries \in Nat \ {0}
ASSUME VersionAssumption   == MaxVersion \in Nat
ASSUME DeliveriesAssumption == IsFiniteSet(Deliveries)
ASSUME RequestsAssumption   == IsFiniteSet(Requests)

VARIABLES
    actor,      \* users.actor_type of the row
    registered, \* whether the two handlers are subscribed on the worker's bus
    user,       \* the committed row
    req,        \* req[r]: what request r read and is about to write
    dlv,        \* dlv[d]: the same for a handler execution
    failEvents, \* unpublished TotpVerificationFailed rows
    signup,     \* the MagicLinkConsumed(SIGNUP) row
    login,      \* how far the client's login got: a live magic link of some
                \* mode, or a live pre-TOTP token
    wrongCodes, wrongPasswords, \* history: failures committed since last reset
    uncounted   \* history: wrong codes and passwords whose UPDATE missed

history == <<wrongCodes, wrongPasswords, uncounted>>
vars == <<actor, registered, user, req, dlv, failEvents, signup, login, history>>

Row == [status : {"unverified", "verified", "locked"}, version : Nat,
        totpFails : Nat, pwFails : Nat, window : {"none", "future", "past"}]

(* base: the version of the row as read; snap: the aggregate in memory, *)
(* healed if its lock had elapsed; healed: whether that heal is owed.   *)
Work == [pc : {"idle", "verify", "login"}, base : Nat, snap : Row, healed : BOOLEAN]
Job  == [pc : {"idle", "lock", "reread", "verify_email"}, base : Nat, snap : Row,
         tries : Nat]

IsAdmin == actor = "admin"

-----------------------------------------------------------------------------
(* The User aggregate: what each method does to the row in memory. *)

Bump(u)          == [u EXCEPT !.version = @ + 1]
IsLockedNow(u)   == u.window = "future"
LockElapsed(u)   == u.window = "past"
Unlocked(status) == IF status = "locked" THEN "verified" ELSE status

RecordTotpFailure(u) == Bump([u EXCEPT !.totpFails = @ + 1])

LockDueToTotpFailures(u) == Bump([u EXCEPT !.status = "locked", !.window = "future"])

ClearTotpFailures(u) ==
    IF u.totpFails = 0 /\ u.window = "none" THEN u
    ELSE Bump([u EXCEPT !.totpFails = 0, !.window = "none", !.status = Unlocked(@)])

\* record_password_failure, and the lock that shares its version bump.
RecordPasswordFailure(u) ==
    LET v == Bump([u EXCEPT !.pwFails = @ + 1])
    IN  IF v.pwFails >= PwThreshold /\ ~IsLockedNow(v)
        THEN [v EXCEPT !.status = "locked", !.window = "future"]
        ELSE v

ClearPasswordFailures(u) ==
    IF u.pwFails = 0 THEN u ELSE Bump([u EXCEPT !.pwFails = 0])

\* Faulty variant of ClearPasswordLockout: the status stays as it was.
ClearPasswordLockoutOnly(u) ==
    IF u.pwFails = 0 /\ u.window = "none" THEN u
    ELSE Bump([u EXCEPT !.pwFails = 0, !.window = "none"])

\* Leaves the TOTP counter as it is.
ClearPasswordLockout(u) ==
    IF u.pwFails = 0 /\ u.window = "none" THEN u
    ELSE Bump([u EXCEPT !.pwFails = 0, !.window = "none", !.status = Unlocked(@)])

VerifyEmail(u) == Bump([u EXCEPT !.status = "verified"])

\* Faulty variant of Fresh: no version in the WHERE clause.
Unversioned(base) == base \in Nat

\* UserRepository.update ... WHERE version = expected; a row lock makes it
\* and the COMMIT that follows one step.
Fresh(base) == user.version = base

-----------------------------------------------------------------------------

NewUser(s) == [status |-> s, version |-> 0, totpFails |-> 0, pwFails |-> 0,
               window |-> "none"]

NoWork(u) == [pc |-> "idle", base |-> 0, snap |-> u, healed |-> FALSE]
NoJob(u)  == [pc |-> "idle", base |-> 0, snap |-> u, tries |-> 0]
Blank     == NewUser("unverified")

\* User.signup for a user, User.seed_admin for an administrator.  _startup of
\* the worker registers no handler; the tests register both.
Init ==
    /\ actor \in {"user", "admin"}
    /\ registered \in BOOLEAN
    /\ user = NewUser(IF IsAdmin THEN "verified" ELSE "unverified")
    /\ req = [r \in Requests |-> NoWork(Blank)]
    /\ dlv = [d \in Deliveries |-> NoJob(Blank)]
    /\ failEvents = 0 /\ signup = "none"
    /\ login = "none"
    /\ wrongCodes = 0 /\ wrongPasswords = 0 /\ uncounted = 0

EndRequest(r)  == req' = [req EXCEPT ![r] = NoWork(Blank)]
EndDelivery(d) == dlv' = [dlv EXCEPT ![d] = NoJob(Blank)]

-----------------------------------------------------------------------------
(* Getting to the code prompt. *)

\* RequestMagicLink refuses by status alone; the window is not looked at.
RequestMagicLink(mode) ==
    /\ user.status # "locked"
    /\ login = "none"
    /\ login' = mode
    /\ UNCHANGED <<actor, registered, user, req, dlv, failEvents, signup, history>>

\* ConsumeMagicLink, then the route mints the pre-TOTP token.
ConsumeMagicLink ==
    /\ login \in {"signup", "login"}
    /\ login' = "token"
    /\ signup' = IF login = "signup" THEN "pending" ELSE signup
    /\ UNCHANGED <<actor, registered, user, req, dlv, failEvents, history>>

\* The link's or the token's time to live runs out.
LoginExpires ==
    /\ login # "none" /\ login' = "none"
    /\ UNCHANGED <<actor, registered, user, req, dlv, failEvents, signup, history>>

LockElapses ==
    /\ IsLockedNow(user) /\ user.version < MaxVersion
    /\ user' = [user EXCEPT !.window = "past"]
    /\ UNCHANGED <<actor, registered, req, dlv, failEvents, signup, login, history>>

-----------------------------------------------------------------------------
(* VerifyTotp.  While the window is open it raises UserLocked at once.      *)

\* The clock is read twice: a window that ends in between is neither refused
\* nor healed.
BeginVerify(r) ==
    /\ req[r].pc = "idle" /\ login = "token" /\ ~IsLockedNow(user)
    /\ user.version < MaxVersion
    /\ \E heal \in BOOLEAN :
          /\ heal => LockElapsed(user)
          /\ req' = [req EXCEPT ![r] =
                [pc |-> "verify", base |-> user.version, healed |-> heal,
                 snap |-> IF heal THEN ClearTotpFailures(user) ELSE user]]
    /\ UNCHANGED <<actor, registered, user, dlv, failEvents, signup, login, history>>

\* Wrong code: the failure and its event are committed together.
WrongCode(r) ==
    /\ req[r].pc = "verify" /\ Fresh(req[r].base)
    /\ user' = RecordTotpFailure(req[r].snap)
    /\ failEvents' = failEvents + 1
    /\ wrongCodes' = IF req[r].healed THEN 1 ELSE wrongCodes + 1
    /\ EndRequest(r)
    /\ UNCHANGED <<actor, registered, dlv, signup, login, wrongPasswords, uncounted>>

\* Right code or backup code.  The row is written, and its version compared,
\* only for a heal or a non-zero counter; the route then creates the session
\* and evicts the token.
NeedsUpdate(r) == req[r].healed \/ req[r].snap.totpFails # 0

RightCode(r) ==
    /\ req[r].pc = "verify"
    /\ IF NeedsUpdate(r)
       THEN /\ Fresh(req[r].base)
            /\ user' = IF req[r].snap.totpFails # 0 THEN ClearTotpFailures(req[r].snap)
                                                    ELSE req[r].snap
            /\ wrongCodes' = 0
       ELSE UNCHANGED <<user, wrongCodes>>
    /\ login' = "none"
    /\ EndRequest(r)
    /\ UNCHANGED <<actor, registered, dlv, failEvents, signup, wrongPasswords, uncounted>>

-----------------------------------------------------------------------------
(* AdminLogin. *)

BeginLogin(r) ==
    /\ req[r].pc = "idle" /\ IsAdmin /\ ~IsLockedNow(user)
    /\ user.version < MaxVersion
    /\ req' = [req EXCEPT ![r] =
          [pc |-> "login", base |-> user.version, healed |-> LockElapsed(user),
           snap |-> IF LockElapsed(user) THEN ClearPasswordLockout(user) ELSE user]]
    /\ UNCHANGED <<actor, registered, user, dlv, failEvents, signup, login, history>>

WrongPassword(r) ==
    /\ req[r].pc = "login" /\ Fresh(req[r].base)
    /\ user' = RecordPasswordFailure(req[r].snap)
    /\ wrongPasswords' = IF req[r].healed THEN 1 ELSE wrongPasswords + 1
    /\ EndRequest(r)
    /\ UNCHANGED <<actor, registered, dlv, failEvents, signup, login, wrongCodes,
                   uncounted>>

RightPassword(r) ==
    /\ req[r].pc = "login"
    /\ IF req[r].healed \/ req[r].snap.pwFails # 0
       THEN /\ Fresh(req[r].base)
            /\ user' = ClearPasswordFailures(req[r].snap)
            /\ wrongPasswords' = 0
       ELSE UNCHANGED <<user, wrongPasswords>>
    /\ login' = "token"
    /\ EndRequest(r)
    /\ UNCHANGED <<actor, registered, dlv, failEvents, signup, wrongCodes, uncounted>>

\* A wrong code or password whose UPDATE misses, because the row was written
\* since it was read: StaleAggregate is not retried, so the failure and its
\* event roll back.
MissFailure(r) ==
    /\ req[r].pc # "idle" /\ ~Fresh(req[r].base)
    /\ uncounted' = uncounted + 1
    /\ EndRequest(r)
    /\ UNCHANGED <<actor, registered, user, dlv, failEvents, signup, login, wrongCodes,
                   wrongPasswords>>

\* The right code on a row written since, a backup code that matches nothing, a
\* crash or a dropped connection: the unit of work rolls back.
AbandonRequest(r) ==
    /\ req[r].pc # "idle"
    /\ EndRequest(r)
    /\ UNCHANGED <<actor, registered, user, dlv, failEvents, signup, login, history>>

-----------------------------------------------------------------------------
(* The outbox dispatches a row to one handler execution at a time and takes *)
(* it back if the handler raises, or if its tick is lost after the handler  *)
(* committed: that row is dispatched again.                                 *)

FailedEventTaken(d) == registered /\ dlv[d].pc = "idle" /\ failEvents > 0
SignupEventTaken(d) == registered /\ dlv[d].pc = "idle" /\ signup = "pending"
Done(n) == failEvents' \in {n, n + 1}

(* increment_user_lockout_counter *)

\* Faulty variant of NothingToLock: off by one at the threshold.
NothingToLockAtThreshold(u) == IsLockedNow(u) \/ u.totpFails <= TotpThreshold

NothingToLock(u) == IsLockedNow(u) \/ u.totpFails < TotpThreshold

\* Faulty variant of SkipLock: a retried execution acknowledges its event twice.
SkipLockTwice(d) ==
    /\ NothingToLock(user)
    /\ FailedEventTaken(d) \/ dlv[d].pc = "reread"
    /\ failEvents' = failEvents - 1
    /\ EndDelivery(d)
    /\ UNCHANGED <<actor, registered, user, req, signup, login, history>>

SkipLock(d) ==
    /\ NothingToLock(user)
    /\ \/ FailedEventTaken(d) /\ Done(failEvents - 1)
       \/ dlv[d].pc = "reread" /\ Done(failEvents)
    /\ EndDelivery(d)
    /\ UNCHANGED <<actor, registered, user, req, signup, login, history>>

BeginLock(d) ==
    /\ ~NothingToLock(user)
    /\ \/ FailedEventTaken(d) /\ failEvents' = failEvents - 1
       \/ dlv[d].pc = "reread" /\ UNCHANGED failEvents
    /\ dlv' = [dlv EXCEPT ![d].pc = "lock", ![d].base = user.version,
                          ![d].snap = LockDueToTotpFailures(user)]
    /\ UNCHANGED <<actor, registered, user, req, signup, login, history>>

CommitLock(d) ==
    /\ dlv[d].pc = "lock" /\ Fresh(dlv[d].base)
    /\ user' = dlv[d].snap
    /\ Done(failEvents)
    /\ EndDelivery(d)
    /\ UNCHANGED <<actor, registered, req, signup, login, history>>

\* Faulty variant of StaleLock: the error is swallowed and the event counts
\* as handled.
StaleLockSwallowed(d) ==
    /\ dlv[d].pc = "lock" /\ ~Fresh(dlv[d].base)
    /\ EndDelivery(d)
    /\ UNCHANGED <<actor, registered, user, req, failEvents, signup, login, history>>

\* StaleAggregate: re-read and decide again, MaxRetries times in all.
StaleLock(d) ==
    /\ dlv[d].pc = "lock" /\ ~Fresh(dlv[d].base)
    /\ IF dlv[d].tries + 1 = MaxRetries
       THEN EndDelivery(d) /\ failEvents' = failEvents + 1
       ELSE /\ dlv' = [dlv EXCEPT ![d] = [NoJob(Blank) EXCEPT !.pc = "reread",
                                                              !.tries = dlv[d].tries + 1]]
            /\ UNCHANGED failEvents
    /\ UNCHANGED <<actor, registered, user, req, signup, login, history>>

(* mark_user_verified_on_signup_link *)

\* verify_email raises for a verified or locked user; that is swallowed.
SkipVerifyEmail(d) ==
    /\ SignupEventTaken(d)
    /\ user.status # "unverified"
    /\ signup' \in {"pending", "published"}
    /\ UNCHANGED <<actor, registered, user, req, dlv, failEvents, login,
                   history>>

BeginVerifyEmail(d) ==
    /\ SignupEventTaken(d)
    /\ user.status = "unverified"
    /\ signup' = "taken"
    /\ dlv' = [dlv EXCEPT ![d].pc = "verify_email", ![d].base = user.version,
                          ![d].snap = VerifyEmail(user)]
    /\ UNCHANGED <<actor, registered, user, req, failEvents, login, history>>

CommitVerifyEmail(d) ==
    /\ dlv[d].pc = "verify_email" /\ Fresh(dlv[d].base)
    /\ user' = dlv[d].snap
    /\ signup' \in {"pending", "published"}
    /\ EndDelivery(d)
    /\ UNCHANGED <<actor, registered, req, failEvents, login, history>>

\* Faulty variant of StaleVerifyEmail: the error is swallowed, as
\* InvalidStateTransition is, and the event counts as handled.
StaleVerifyEmailSwallowed(d) ==
    /\ dlv[d].pc = "verify_email" /\ ~Fresh(dlv[d].base)
    /\ signup' = "published"
    /\ EndDelivery(d)
    /\ UNCHANGED <<actor, registered, user, req, failEvents, login, history>>

\* StaleAggregate is not caught: the outbox retries the event.
StaleVerifyEmail(d) ==
    /\ dlv[d].pc = "verify_email" /\ ~Fresh(dlv[d].base)
    /\ signup' = "pending"
    /\ EndDelivery(d)
    /\ UNCHANGED <<actor, registered, user, req, failEvents, login, history>>

-----------------------------------------------------------------------------

(* An event without a subscriber is marked published and nothing runs. *)

PublishUnheard ==
    /\ ~registered
    /\ \/ failEvents > 0 /\ failEvents' = failEvents - 1 /\ UNCHANGED signup
       \/ signup = "pending" /\ signup' = "published" /\ UNCHANGED failEvents
    /\ UNCHANGED <<actor, registered, user, req, dlv, login, history>>

-----------------------------------------------------------------------------

Deliver(d) ==
    \/ SkipLock(d) \/ BeginLock(d) \/ CommitLock(d) \/ StaleLock(d)
    \/ SkipVerifyEmail(d) \/ BeginVerifyEmail(d) \/ CommitVerifyEmail(d)
    \/ StaleVerifyEmail(d)

Handle(r) ==
    \/ BeginVerify(r) \/ WrongCode(r) \/ RightCode(r)
    \/ BeginLogin(r) \/ WrongPassword(r) \/ RightPassword(r)
    \/ MissFailure(r) \/ AbandonRequest(r)

Next ==
    \/ \E mode \in {"signup", "login"} : RequestMagicLink(mode)
    \/ ConsumeMagicLink \/ LoginExpires \/ LockElapses
    \/ \E r \in Requests : Handle(r)
    \/ \E d \in Deliveries : Deliver(d)
    \/ PublishUnheard

Spec == Init /\ [][Next]_vars

\* The worker's cron job keeps taking pending rows, to the handlers if they are
\* registered.
DeliveryFairness ==
    /\ WF_vars(PublishUnheard)
    /\ \A d \in Deliveries :
          /\ WF_vars(BeginLock(d) \/ SkipLock(d) \/ CommitLock(d) \/ StaleLock(d))
          /\ WF_vars(BeginVerifyEmail(d) \/ SkipVerifyEmail(d)
                       \/ CommitVerifyEmail(d) \/ StaleVerifyEmail(d))

FairSpec == Spec /\ DeliveryFairness

\* A client who keeps trying: asks for links and uses them, enters the right
\* code whenever it is asked for one; windows elapse.
PersistentClient ==
    /\ WF_vars(LockElapses)
    /\ SF_vars(\E mode \in {"signup", "login"} : RequestMagicLink(mode))
    /\ SF_vars(ConsumeMagicLink)
    /\ \A r \in Requests :
          /\ SF_vars(BeginVerify(r)) /\ SF_vars(RightCode(r))
          /\ SF_vars(BeginLogin(r)) /\ SF_vars(RightPassword(r))

PersistentSpec == FairSpec /\ PersistentClient

-----------------------------------------------------------------------------
(* Properties. *)

TypeOK ==
    /\ actor \in {"user", "admin"}
    /\ user \in Row
    /\ req \in [Requests -> Work]
    /\ dlv \in [Deliveries -> Job]
    /\ failEvents \in Nat
    /\ signup \in {"none", "pending", "taken", "published"}
    /\ login \in {"none", "signup", "login", "token"}
    /\ registered \in BOOLEAN
    /\ wrongCodes \in Nat /\ wrongPasswords \in Nat /\ uncounted \in Nat

\* What the counters are worth.  Whichever requests race, they equal the
\* failures committed since they were last reset: none is overwritten by an
\* older snapshot, none counted twice.  But a wrong code or password whose UPDATE
\* missed is in neither counter: of the guesses in flight when the row is
\* written, each may go uncounted, and no more than these.
CountersExact ==
    /\ user.totpFails = wrongCodes /\ user.pwFails = wrongPasswords
    /\ uncounted <= Cardinality(Requests) * user.version

\* status and locked_until, two columns written by different paths, always
\* tell the same story, and no account is locked below both thresholds.
LockConsistent ==
    /\ user.status = "locked" <=> user.window # "none"
    /\ user.status = "locked" =>
          user.totpFails >= TotpThreshold \/ user.pwFails >= PwThreshold

\* While the window is open nothing that was already in flight clears the
\* lock, counts another failure or rewrites the row.
LockHoldsUntilItElapses ==
    [][IsLockedNow(user) => \/ user' = user
                            \/ user' = [user EXCEPT !.window = "past"]]_vars

\* A verified account never becomes unverified again: no stale snapshot of
\* the signup days is written back.
VerificationIsPermanent ==
    [][user.status # "unverified" => user'.status # "unverified"]_vars

\* An alarm is an unpublished failure event, or one that an execution holds
\* between its read and its commit.
Locking == {d \in Deliveries : dlv[d].pc \in {"lock", "reread"}}
Alarms  == failEvents + Cardinality(Locking)

\* Optimistic locking is not to be noticed: whichever requests and handler
\* executions overlap, fail halfway or are done again, the row and the open
\* events are those of a history in which each ran alone.
Contract == INSTANCE AccountContract WITH
    status    <- user.status,
    window    <- user.window,
    codeFails <- user.totpFails,
    pwFails   <- user.pwFails,
    alarms    <- Alarms,
    signupDue <- signup \in {"pending", "taken"},
    heard     <- registered

ImplementsContract == Contract!Spec

\* On a worker that registered the lockout handler, a failure event that meets
\* the counter at the threshold ends in a lock, unless a right code or a reset
\* got there first.
ThresholdLeadsToLock ==
    (registered /\ failEvents > 0 /\ user.totpFails >= TotpThreshold)
        ~> (user.status = "locked" \/ user.totpFails < TotpThreshold)

\* On a worker that registered the verification handler, a consumed signup link
\* eventually verifies the account, whatever its executions collide with.
SignupVerifiesIfHeard ==
    (registered /\ signup \in {"pending", "taken"}) ~> user.status # "unverified"

\* What consume_magic_link.py says of the outbox worker: a consumed signup link
\* eventually verifies the account.
SignupVerifies == signup \in {"pending", "taken"} ~> user.status # "unverified"

\* The lockout is self-healing: once the window has elapsed, a client who
\* keeps trying gets out of the locked state.
LockoutSelfHeals == LockElapsed(user) ~> user.status # "locked"
=============================================================================
