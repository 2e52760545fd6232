--------------------------- MODULE Account_proofs ---------------------------
(***************************************************************************)
(* Theorems about Account for every set of requests and handler executions *)
(* and every threshold.                                                    *)
(***************************************************************************)
EXTENDS Account, FiniteSetTheorems, TLAPS

\* What a request in flight knows: if the row still has the version it read,
\* its snapshot is that row, or that row healed because its lock has elapsed.
SnapshotOf(r) ==
    /\ req[r].pc # "idle" => req[r].base <= user.version
    /\ req[r].pc # "idle" /\ Fresh(req[r].base) =>
          /\ ~IsLockedNow(user)
          /\ req[r].healed => LockElapsed(user)
          /\ ~req[r].healed => req[r].snap = user
    /\ req[r].pc = "verify" /\ Fresh(req[r].base) /\ req[r].healed =>
          req[r].snap = ClearTotpFailures(user)
    /\ req[r].pc = "login" /\ Fresh(req[r].base) =>
          /\ LockElapsed(user) => req[r].healed
          /\ req[r].healed => req[r].snap = ClearPasswordLockout(user)

\* The same of a handler execution: a lock is due, or the account unverified.
JobOf(d) ==
    /\ dlv[d].pc \in {"lock", "verify_email"} => dlv[d].base <= user.version
    /\ dlv[d].pc = "lock" /\ Fresh(dlv[d].base) =>
          /\ ~IsLockedNow(user) /\ user.totpFails >= TotpThreshold
          /\ dlv[d].snap = LockDueToTotpFailures(user)
    /\ dlv[d].pc = "verify_email" /\ Fresh(dlv[d].base) =>
          /\ user.status = "unverified"
          /\ dlv[d].snap = VerifyEmail(user)

Snapshots ==
    /\ \A r \in Requests : SnapshotOf(r)
    /\ \A d \in Deliveries : JobOf(d)

\* The committed failures, which the counters must show.
FailuresExact == user.totpFails = wrongCodes /\ user.pwFails = wrongPasswords

\* The requests whose UPDATE would miss.  Each write of the row makes requests
\* stale, at most all of them; each uncounted failure was one.
Stale == {r \in Requests : req[r].pc # "idle" /\ ~Fresh(req[r].base)}
UncountedBounded ==
    uncounted + Cardinality(Stale) <= Cardinality(Requests) * user.version

AInv == TypeOK /\ Snapshots /\ FailuresExact /\ LockConsistent /\ UncountedBounded

-----------------------------------------------------------------------------

(* What the aggregate's methods return. *)

LEMMA BumpResult ==
    ASSUME NEW u \in Row, NEW v, v = Bump(u)
    PROVE  /\ v \in Row
           /\ v.version = u.version + 1 /\ v.totpFails = u.totpFails
           /\ v.pwFails = u.pwFails /\ v.window = u.window /\ v.status = u.status
  BY DEF Bump, Row

LEMMA ClearTotpFailuresResult ==
    ASSUME NEW u \in Row, u.totpFails # 0 \/ u.window # "none", NEW v, v = ClearTotpFailures(u)
    PROVE  /\ v \in Row
           /\ v.version = u.version + 1 /\ v.totpFails = 0 /\ v.pwFails = u.pwFails
           /\ v.window = "none" /\ v.status = Unlocked(u.status)
<1> DEFINE w == [u EXCEPT !.totpFails = 0, !.window = "none", !.status = Unlocked(@)]
<1>1. /\ w \in Row /\ w.version = u.version /\ w.totpFails = 0
      /\ w.pwFails = u.pwFails /\ w.window = "none" /\ w.status = Unlocked(u.status)
  BY DEF Row, Unlocked
<1>2. v = Bump(w)
  BY DEF ClearTotpFailures
<1> QED BY <1>1, <1>2, BumpResult

LEMMA ClearPasswordLockoutResult ==
    ASSUME NEW u \in Row, u.pwFails # 0 \/ u.window # "none", NEW v, v = ClearPasswordLockout(u)
    PROVE  /\ v \in Row
           /\ v.version = u.version + 1 /\ v.totpFails = u.totpFails /\ v.pwFails = 0
           /\ v.window = "none" /\ v.status = Unlocked(u.status)
<1> DEFINE w == [u EXCEPT !.pwFails = 0, !.window = "none", !.status = Unlocked(@)]
<1>1. /\ w \in Row /\ w.version = u.version /\ w.totpFails = u.totpFails
      /\ w.pwFails = 0 /\ w.window = "none" /\ w.status = Unlocked(u.status)
  BY DEF Row, Unlocked
<1>2. v = Bump(w)
  BY DEF ClearPasswordLockout
<1> QED BY <1>1, <1>2, BumpResult

LEMMA ClearPasswordFailuresResult ==
    ASSUME NEW u \in Row, NEW v, v = ClearPasswordFailures(u)
    PROVE  /\ v \in Row
           /\ v.version = (IF u.pwFails = 0 THEN u.version ELSE u.version + 1)
           /\ v.totpFails = u.totpFails /\ v.pwFails = 0
           /\ v.window = u.window /\ v.status = u.status
<1> DEFINE w == [u EXCEPT !.pwFails = 0]
<1>1. /\ w \in Row /\ w.version = u.version /\ w.totpFails = u.totpFails
      /\ w.pwFails = 0 /\ w.window = u.window /\ w.status = u.status
  BY DEF Row
<1>2. v = IF u.pwFails = 0 THEN u ELSE Bump(w)
  BY DEF ClearPasswordFailures
<1> HIDE DEF w
<1>3. CASE u.pwFails = 0
  BY <1>2, <1>3
<1>4. CASE u.pwFails # 0
  BY <1>1, <1>2, <1>4, BumpResult
<1> QED BY <1>3, <1>4

LEMMA RecordTotpFailureResult ==
    ASSUME NEW u \in Row, NEW v, v = RecordTotpFailure(u)
    PROVE  /\ v \in Row
           /\ v.version = u.version + 1 /\ v.totpFails = u.totpFails + 1 /\ v.pwFails = u.pwFails
           /\ v.window = u.window /\ v.status = u.status
<1> DEFINE w == [u EXCEPT !.totpFails = @ + 1]
<1>1. /\ w \in Row /\ w.version = u.version /\ w.totpFails = u.totpFails + 1
      /\ w.pwFails = u.pwFails /\ w.window = u.window /\ w.status = u.status
  BY DEF Row, Unlocked
<1>2. v = Bump(w)
  BY DEF RecordTotpFailure
<1> QED BY <1>1, <1>2, BumpResult

LEMMA RecordPasswordFailureResult ==
    ASSUME NEW u \in Row, u.window # "future", NEW v, v = RecordPasswordFailure(u)
    PROVE  /\ v \in Row
           /\ v.version = u.version + 1 /\ v.totpFails = u.totpFails
           /\ v.pwFails = u.pwFails + 1
           /\ IF u.pwFails + 1 >= PwThreshold
              THEN v.status = "locked" /\ v.window = "future"
              ELSE v.status = u.status /\ v.window = u.window
<1> DEFINE w == [u EXCEPT !.pwFails = @ + 1]
<1>1. /\ w \in Row /\ w.version = u.version /\ w.totpFails = u.totpFails
      /\ w.pwFails = u.pwFails + 1 /\ w.window = u.window /\ w.status = u.status
  BY DEF Row
<1>2. PICK b : b = Bump(w)
  OBVIOUS
<1>3. v = IF b.pwFails >= PwThreshold /\ ~IsLockedNow(b)
          THEN [b EXCEPT !.status = "locked", !.window = "future"] ELSE b
  BY <1>2 DEF RecordPasswordFailure
<1> HIDE DEF w
<1>4. /\ b \in Row /\ b.version = u.version + 1 /\ b.totpFails = u.totpFails
      /\ b.pwFails = u.pwFails + 1 /\ b.window = u.window /\ b.status = u.status
  BY <1>1, <1>2, BumpResult
<1> QED BY <1>3, <1>4 DEF IsLockedNow, Row

LEMMA LockDueToTotpFailuresResult ==
    ASSUME NEW u \in Row, NEW v, v = LockDueToTotpFailures(u)
    PROVE  /\ v \in Row
           /\ v.version = u.version + 1 /\ v.totpFails = u.totpFails /\ v.pwFails = u.pwFails
           /\ v.window = "future" /\ v.status = "locked"
<1> DEFINE w == [u EXCEPT !.status = "locked", !.window = "future"]
<1>1. /\ w \in Row /\ w.version = u.version /\ w.totpFails = u.totpFails
      /\ w.pwFails = u.pwFails /\ w.window = "future" /\ w.status = "locked"
  BY DEF Row, Unlocked
<1>2. v = Bump(w)
  BY DEF LockDueToTotpFailures
<1> QED BY <1>1, <1>2, BumpResult

LEMMA VerifyEmailResult ==
    ASSUME NEW u \in Row, NEW v, v = VerifyEmail(u)
    PROVE  /\ v \in Row
           /\ v.version = u.version + 1 /\ v.totpFails = u.totpFails /\ v.pwFails = u.pwFails
           /\ v.window = u.window /\ v.status = "verified"
<1> DEFINE w == [u EXCEPT !.status = "verified"]
<1>1. /\ w \in Row /\ w.version = u.version /\ w.totpFails = u.totpFails
      /\ w.pwFails = u.pwFails /\ w.window = u.window /\ w.status = "verified"
  BY DEF Row, Unlocked
<1>2. v = Bump(w)
  BY DEF VerifyEmail
<1> QED BY <1>1, <1>2, BumpResult

-----------------------------------------------------------------------------

\* What every UPDATE of the row does, whoever issues it.
Write ==
    /\ user' \in Row /\ user'.version > user.version
    /\ ~IsLockedNow(user)
    /\ user.status # "unverified" => user'.status # "unverified"
    /\ LockConsistent' /\ FailuresExact'

\* The aggregate a fresh request holds, field by field.
LEMMA FreshSnapshot ==
    ASSUME AInv, NEW r \in Requests, req[r].pc # "idle", Fresh(req[r].base)
    PROVE  LET s == req[r].snap IN
           /\ s \in Row /\ user \in Row /\ ~IsLockedNow(user)
           /\ ~req[r].healed => s = user
           /\ req[r].healed => /\ s.version = user.version + 1
                              /\ s.window = "none" /\ s.status = "verified"
           /\ req[r].pc = "verify" /\ req[r].healed =>
                 s.totpFails = 0 /\ s.pwFails = user.pwFails
           /\ req[r].pc = "login" /\ req[r].healed =>
                 s.pwFails = 0 /\ s.totpFails = user.totpFails
           /\ req[r].pc = "login" => s.window = "none" /\ s.status # "locked"
<1> DEFINE s == req[r].snap
<1>1. /\ s \in Row /\ user \in Row /\ ~IsLockedNow(user)
      /\ req[r].pc \in {"verify", "login"} /\ req[r].healed \in BOOLEAN
      /\ req[r].healed => LockElapsed(user)
      /\ LockConsistent
  BY DEF AInv, TypeOK, Work, Snapshots, SnapshotOf
<1>2. CASE req[r].healed
  <2>1. user.window = "past" /\ user.status = "locked"
    BY <1>1, <1>2 DEF LockElapsed, LockConsistent
  <2>2. CASE req[r].pc = "verify"
    <3>1. s = ClearTotpFailures(user)
      BY <1>2, <2>2 DEF AInv, Snapshots, SnapshotOf
    <3>2. /\ s.version = user.version + 1 /\ s.totpFails = 0 /\ s.pwFails = user.pwFails
          /\ s.window = "none" /\ s.status = Unlocked(user.status)
      BY <1>1, <2>1, <3>1, ClearTotpFailuresResult
    <3> QED BY <1>1, <1>2, <2>1, <2>2, <3>2 DEF Unlocked
  <2>3. CASE req[r].pc = "login"
    <3>1. s = ClearPasswordLockout(user)
      BY <1>2, <2>3 DEF AInv, Snapshots, SnapshotOf
    <3>2. /\ s.version = user.version + 1 /\ s.pwFails = 0 /\ s.totpFails = user.totpFails
          /\ s.window = "none" /\ s.status = Unlocked(user.status)
      BY <1>1, <2>1, <3>1, ClearPasswordLockoutResult
    <3> QED BY <1>1, <1>2, <2>1, <2>3, <3>2 DEF Unlocked
  <2> QED BY <1>1, <2>2, <2>3
<1>3. CASE ~req[r].healed
  <2>1. s = user /\ (req[r].pc = "login" => ~LockElapsed(user))
    BY <1>1, <1>3 DEF AInv, Snapshots, SnapshotOf
  <2>2. ~LockElapsed(user) => user.window = "none" /\ user.status # "locked"
    BY <1>1 DEF Row, LockElapsed, IsLockedNow, LockConsistent
  <2> QED BY <1>1, <1>3, <2>1, <2>2
<1> QED BY <1>1, <1>2, <1>3

LEMMA RequestWrites ==
    ASSUME AInv, NEW r \in Requests,
           WrongCode(r) \/ RightCode(r) \/ WrongPassword(r) \/ RightPassword(r)
    PROVE  Write \/ UNCHANGED <<user, wrongCodes, wrongPasswords>>
<1> DEFINE s == req[r].snap
<1>0. FailuresExact /\ LockConsistent
      /\ wrongCodes \in Nat /\ wrongPasswords \in Nat
  BY DEF AInv, TypeOK
<1>1. CASE WrongCode(r)
  <2>1. /\ req[r].pc = "verify" /\ Fresh(req[r].base)
        /\ user' = RecordTotpFailure(s)
        /\ wrongCodes' = IF req[r].healed THEN 1 ELSE wrongCodes + 1
        /\ UNCHANGED wrongPasswords
    BY <1>1 DEF WrongCode
  <2>2. /\ s \in Row /\ user \in Row /\ ~IsLockedNow(user)
        /\ req[r].healed \in BOOLEAN
    BY <2>1, FreshSnapshot DEF AInv, TypeOK, Work
  <2>3. /\ user' \in Row
        /\ user'.version = s.version + 1 /\ user'.totpFails = s.totpFails + 1
        /\ user'.pwFails = s.pwFails /\ user'.window = s.window
        /\ user'.status = s.status
    BY <2>1, <2>2, RecordTotpFailureResult
  <2>4. CASE req[r].healed
    <3>1. /\ s.version = user.version + 1 /\ s.totpFails = 0 /\ s.pwFails = user.pwFails
          /\ s.window = "none" /\ s.status = "verified"
      BY <2>1, <2>4, FreshSnapshot
    <3> QED BY <1>0, <2>1, <2>2, <2>3, <2>4, <3>1
            DEF Write, LockConsistent, FailuresExact, Row
  <2>5. CASE ~req[r].healed
    <3>1. s = user
      BY <2>1, <2>5, FreshSnapshot
    <3> QED BY <1>0, <2>1, <2>2, <2>3, <2>5, <3>1, ThresholdAssumption
            DEF Write, LockConsistent, FailuresExact, Row
  <2> QED BY <2>4, <2>5
<1>2. CASE RightCode(r)
  BY <1>0, <1>2, FreshSnapshot, ClearTotpFailuresResult
     DEF RightCode, NeedsUpdate, Write, LockConsistent, FailuresExact, Row, Unlocked
<1>3. CASE WrongPassword(r)
  BY <1>0, <1>3, FreshSnapshot, RecordPasswordFailureResult
     DEF WrongPassword, Write, LockConsistent, FailuresExact, Row
<1>4. CASE RightPassword(r)
  BY <1>0, <1>4, FreshSnapshot, ClearPasswordFailuresResult
     DEF RightPassword, Write, LockConsistent, FailuresExact, Row
<1> QED BY <1>1, <1>2, <1>3, <1>4

LEMMA DeliveryWrites ==
    ASSUME AInv, NEW d \in Deliveries, CommitLock(d) \/ CommitVerifyEmail(d)
    PROVE  Write
<1>0. /\ FailuresExact /\ LockConsistent /\ user \in Row
      /\ UNCHANGED <<wrongCodes, wrongPasswords>>
  BY DEF AInv, TypeOK, CommitLock, CommitVerifyEmail, history
<1>1. CASE CommitLock(d)
  <2>1. /\ ~IsLockedNow(user) /\ user.totpFails >= TotpThreshold
        /\ user' = LockDueToTotpFailures(user)
    BY <1>1 DEF CommitLock, AInv, Snapshots, JobOf
  <2> QED BY <1>0, <2>1, LockDueToTotpFailuresResult
          DEF Write, LockConsistent, FailuresExact, Row
<1>2. CASE CommitVerifyEmail(d)
  <2>1. user.status = "unverified" /\ user' = VerifyEmail(user)
    BY <1>2 DEF CommitVerifyEmail, AInv, Snapshots, JobOf
  <2>2. user.window = "none"
    BY <1>0, <2>1 DEF LockConsistent
  <2> QED BY <1>0, <2>1, <2>2, VerifyEmailResult
          DEF Write, LockConsistent, FailuresExact, Row, IsLockedNow
<1> QED BY <1>1, <1>2

\* A step leaves the row alone, lets its lock elapse, or writes it.
LEMMA StepWrites ==
    ASSUME AInv, [Next]_vars
    PROVE  \/ UNCHANGED <<user, wrongCodes, wrongPasswords>>
           \/ LockElapses
           \/ Write
<1>1. CASE \E r \in Requests : WrongCode(r) \/ RightCode(r) \/ WrongPassword(r)
                               \/ RightPassword(r)
  BY <1>1, RequestWrites
<1>2. CASE \E d \in Deliveries : CommitLock(d) \/ CommitVerifyEmail(d)
  BY <1>2, DeliveryWrites
<1>3. CASE UNCHANGED vars
  BY <1>3 DEF vars, history
<1>4. CASE \E mode \in {"signup", "login"} : RequestMagicLink(mode)
  BY <1>4 DEF RequestMagicLink, history
<1>5. CASE ConsumeMagicLink \/ LoginExpires
  BY <1>5 DEF ConsumeMagicLink, LoginExpires, history
<1>6. CASE \/ \E r \in Requests : \/ BeginVerify(r) \/ BeginLogin(r) \/ MissFailure(r)
                                  \/ AbandonRequest(r)
           \/ PublishUnheard
  BY <1>6 DEF BeginVerify, BeginLogin, MissFailure, AbandonRequest, PublishUnheard, history
<1>7. CASE \E d \in Deliveries : \/ SkipLock(d) \/ BeginLock(d) \/ StaleLock(d)
                                 \/ SkipVerifyEmail(d) \/ BeginVerifyEmail(d)
                                 \/ StaleVerifyEmail(d)
  BY <1>7 DEF SkipLock, BeginLock, StaleLock, SkipVerifyEmail, BeginVerifyEmail,
              StaleVerifyEmail, history
<1> QED BY <1>1, <1>2, <1>3, <1>4, <1>5, <1>6, <1>7 DEF Next, Handle, Deliver

\* What that means for the parts of the invariant about the row alone.
LEMMA StepUser ==
    ASSUME AInv, [Next]_vars
    PROVE  /\ user' \in Row /\ LockConsistent' /\ FailuresExact'
           /\ user.status # "unverified" => user'.status # "unverified"
           /\ IsLockedNow(user) => user' = user \/ user' = [user EXCEPT !.window = "past"]
           /\ user' = user \/ LockElapses \/ user'.version > user.version
<1>0. user \in Row /\ LockConsistent /\ FailuresExact
  BY DEF AInv, TypeOK
<1>1. CASE UNCHANGED <<user, wrongCodes, wrongPasswords>>
  BY <1>0, <1>1 DEF LockConsistent, FailuresExact
<1>2. CASE LockElapses
  BY <1>0, <1>2 DEF LockElapses, IsLockedNow, LockConsistent, FailuresExact, Row, history
<1>3. CASE Write
  BY <1>3 DEF Write
<1> QED BY <1>1, <1>2, <1>3, StepWrites

-----------------------------------------------------------------------------

\* The snapshots of requests and jobs that a step leaves in flight stay true,
\* because whatever writes the row makes them stale.
LEMMA SnapshotsStay ==
    ASSUME AInv, [Next]_vars
    PROVE  /\ \A r \in Requests : req'[r] = req[r] => SnapshotOf(r)'
           /\ \A d \in Deliveries : dlv'[d] = dlv[d] => JobOf(d)'
<1>0. /\ user \in Row /\ user' \in Row /\ LockConsistent
      /\ req \in [Requests -> Work] /\ dlv \in [Deliveries -> Job]
      /\ \A r \in Requests : SnapshotOf(r)
      /\ \A d \in Deliveries : JobOf(d)
      /\ user' = user \/ LockElapses \/ user'.version > user.version
  BY StepUser DEF AInv, TypeOK, Snapshots
<1>1. ASSUME NEW r \in Requests, req'[r] = req[r] PROVE SnapshotOf(r)'
  <2>0. req[r].base \in Nat /\ user.version \in Nat /\ user'.version \in Nat
    BY <1>0 DEF Work, Row
  <2>1. CASE user' = user
    BY <1>0, <1>1, <2>1 DEF SnapshotOf, Fresh
  <2>2. CASE LockElapses
    BY <1>0, <1>1, <2>2 DEF LockElapses, SnapshotOf, Fresh, Row
  <2>3. CASE user'.version > user.version
    BY <1>0, <1>1, <2>0, <2>3 DEF SnapshotOf, Fresh
  <2> QED BY <1>0, <2>1, <2>2, <2>3
<1>2. ASSUME NEW d \in Deliveries, dlv'[d] = dlv[d] PROVE JobOf(d)'
  <2>0. dlv[d].base \in Nat /\ user.version \in Nat /\ user'.version \in Nat
    BY <1>0 DEF Job, Row
  <2>1. CASE user' = user
    BY <1>0, <1>2, <2>1 DEF JobOf, Fresh
  <2>2. CASE LockElapses
    <3>1. user.status # "unverified" /\ user'.version = user.version /\ IsLockedNow(user)
      BY <1>0, <2>2 DEF LockElapses, LockConsistent, IsLockedNow, Row
    <3> QED BY <1>0, <1>2, <3>1 DEF JobOf, Fresh
  <2>3. CASE user'.version > user.version
    BY <1>0, <1>2, <2>0, <2>3 DEF JobOf, Fresh
  <2> QED BY <1>0, <2>1, <2>2, <2>3
<1> QED BY <1>1, <1>2

LEMMA RereadResult ==
    ASSUME NEW n \in Nat, NEW j,
           j = [NoJob(Blank) EXCEPT !.pc = "reread", !.tries = n]
    PROVE  j \in Job /\ j.pc = "reread"
<1>1. j = [pc |-> "reread", base |-> 0, snap |-> Blank, tries |-> n]
  BY DEF NoJob
<1>2. Blank \in Row
  BY DEF Blank, NewUser, Row
<1> QED BY <1>1, <1>2 DEF Job

LEMMA StepSnapshots ==
    ASSUME AInv, [Next]_vars
    PROVE  Snapshots'
<1>0. /\ user \in Row /\ req \in [Requests -> Work] /\ dlv \in [Deliveries -> Job]
      /\ \A r \in Requests : req'[r] = req[r] => SnapshotOf(r)'
      /\ \A d \in Deliveries : dlv'[d] = dlv[d] => JobOf(d)'
  BY SnapshotsStay DEF AInv, TypeOK
<1>1. CASE UNCHANGED <<req, dlv>>
  BY <1>0, <1>1 DEF Snapshots
<1>2. ASSUME NEW r \in Requests, Handle(r)
      PROVE  Snapshots'
  <2>1. UNCHANGED dlv /\ \A q \in Requests : q # r => req'[q] = req[q]
    BY <1>0, <1>2 DEF Handle, BeginVerify, WrongCode, RightCode, BeginLogin, WrongPassword,
                      RightPassword, MissFailure, AbandonRequest, EndRequest
  <2>2. SnapshotOf(r)'
    <3>1. CASE BeginVerify(r)
      BY <1>0, <3>1 DEF BeginVerify, SnapshotOf, Row
    <3>2. CASE BeginLogin(r)
      BY <1>0, <3>2 DEF BeginLogin, SnapshotOf, Row
    <3>3. CASE EndRequest(r)
      BY <1>0, <3>3 DEF EndRequest, NoWork, SnapshotOf
    <3> QED BY <1>2, <3>1, <3>2, <3>3 DEF Handle, WrongCode, RightCode, WrongPassword,
                                          RightPassword, MissFailure, AbandonRequest
  <2> QED BY <1>0, <2>1, <2>2 DEF Snapshots
<1>3. ASSUME NEW d \in Deliveries, Deliver(d)
      PROVE  Snapshots'
  <2>1. UNCHANGED req /\ \A c \in Deliveries : c # d => dlv'[c] = dlv[c]
    BY <1>0, <1>3 DEF Deliver, SkipLock, BeginLock, CommitLock, StaleLock, SkipVerifyEmail,
                      BeginVerifyEmail, CommitVerifyEmail, StaleVerifyEmail, EndDelivery
  <2>2. JobOf(d)'
    <3>1. CASE BeginLock(d)
      <4>1. ~IsLockedNow(user) /\ user.totpFails >= TotpThreshold
        BY <1>0, <3>1, ThresholdAssumption DEF BeginLock, NothingToLock, Row
      <4> QED BY <1>0, <3>1, <4>1 DEF BeginLock, JobOf, Row, Job
    <3>2. CASE BeginVerifyEmail(d)
      BY <1>0, <3>2 DEF BeginVerifyEmail, JobOf, Row, Job
    <3>3. CASE EndDelivery(d)
      BY <1>0, <3>3 DEF EndDelivery, NoJob, JobOf
    <3>4. CASE StaleLock(d)
      <4>1. CASE EndDelivery(d)
        BY <3>3, <4>1
      <4>2. CASE ~EndDelivery(d)
        <5>1. /\ dlv[d].tries + 1 \in Nat
              /\ dlv' = [dlv EXCEPT ![d] = [NoJob(Blank) EXCEPT !.pc = "reread",
                                                !.tries = dlv[d].tries + 1]]
          BY <1>0, <3>4, <4>2 DEF StaleLock, Job
        <5>2. dlv'[d].pc = "reread"
          BY <1>0, <5>1, RereadResult
        <5> QED BY <5>2 DEF JobOf
      <4> QED BY <4>1, <4>2
    <3>5. CASE UNCHANGED dlv
      BY <1>0, <3>5
    <3> QED BY <1>3, <3>1, <3>2, <3>3, <3>4, <3>5
            DEF Deliver, SkipLock, CommitLock, SkipVerifyEmail, CommitVerifyEmail,
                StaleVerifyEmail
  <2> QED BY <1>0, <2>1, <2>2 DEF Snapshots
<1> QED BY <1>1, <1>2, <1>3 DEF Next, vars, RequestMagicLink, ConsumeMagicLink,
                                LoginExpires, LockElapses, PublishUnheard

\* The parts of the type invariant other than the row.
LEMMA StepTypes ==
    ASSUME AInv, [Next]_vars
    PROVE  TypeOK'
<1>0. TypeOK /\ user' \in Row /\ (\A u \in Row : NoWork(u) \in Work /\ NoJob(u) \in Job)
      /\ Blank \in Row
  BY StepUser DEF AInv, NoWork, NoJob, Work, Job, Blank, NewUser, Row
<1> DEFINE Small ==
       /\ actor' \in {"user", "admin"} /\ registered' \in BOOLEAN
       /\ signup' \in {"none", "pending", "taken", "published"}
       /\ login' \in {"none", "signup", "login", "token"}
       /\ failEvents' \in Nat /\ wrongCodes' \in Nat /\ wrongPasswords' \in Nat
       /\ uncounted' \in Nat
<1>1. Small
  <2>0. /\ actor \in {"user", "admin"} /\ registered \in BOOLEAN
        /\ signup \in {"none", "pending", "taken", "published"}
        /\ login \in {"none", "signup", "login", "token"}
        /\ failEvents \in Nat /\ wrongCodes \in Nat /\ wrongPasswords \in Nat
        /\ uncounted \in Nat
    BY <1>0 DEF TypeOK
  <2>1. CASE UNCHANGED vars
    BY <2>0, <2>1 DEF vars, history
  <2>2. CASE \/ \E mode \in {"signup", "login"} : RequestMagicLink(mode)
             \/ ConsumeMagicLink \/ LoginExpires \/ LockElapses \/ PublishUnheard
    BY <2>0, <2>2 DEF RequestMagicLink, ConsumeMagicLink, LoginExpires, LockElapses,
                      PublishUnheard, history
  <2>3. CASE \E r \in Requests : BeginVerify(r) \/ WrongCode(r) \/ RightCode(r)
    BY <2>0, <2>3 DEF BeginVerify, WrongCode, RightCode, history
  <2>4. CASE \E r \in Requests : BeginLogin(r) \/ WrongPassword(r) \/ RightPassword(r)
                                \/ MissFailure(r) \/ AbandonRequest(r)
    BY <2>0, <2>4 DEF BeginLogin, WrongPassword, RightPassword, MissFailure, AbandonRequest,
                      history
  <2>5. CASE \E d \in Deliveries : SkipLock(d) \/ CommitLock(d)
    BY <2>0, <2>5 DEF SkipLock, CommitLock, Done, FailedEventTaken, history
  <2>6. CASE \E d \in Deliveries : BeginLock(d) \/ StaleLock(d)
    BY <2>0, <2>6 DEF BeginLock, StaleLock, FailedEventTaken, history
  <2>7. CASE \E d \in Deliveries : \/ SkipVerifyEmail(d) \/ BeginVerifyEmail(d)
                                   \/ CommitVerifyEmail(d) \/ StaleVerifyEmail(d)
    BY <2>0, <2>7 DEF SkipVerifyEmail, BeginVerifyEmail, CommitVerifyEmail,
                      StaleVerifyEmail, history
  <2> QED BY <2>1, <2>2, <2>3, <2>4, <2>5, <2>6, <2>7 DEF Next, Handle, Deliver
<1>3. req' \in [Requests -> Work]
  <2>1. ASSUME NEW r \in Requests, BeginVerify(r) PROVE req' \in [Requests -> Work]
    <3>1. LockElapsed(user) => ClearTotpFailures(user) \in Row
      BY <1>0, ClearTotpFailuresResult DEF TypeOK, LockElapsed
    <3> QED BY <1>0, <2>1, <3>1 DEF BeginVerify, TypeOK, Work, LockElapsed, Row
  <2>2. ASSUME NEW r \in Requests, BeginLogin(r) PROVE req' \in [Requests -> Work]
    <3>1. LockElapsed(user) => ClearPasswordLockout(user) \in Row
      BY <1>0, ClearPasswordLockoutResult DEF TypeOK, LockElapsed
    <3> QED BY <1>0, <2>2, <3>1 DEF BeginLogin, TypeOK, Work, LockElapsed, Row
  <2>3. ASSUME NEW r \in Requests, EndRequest(r) PROVE req' \in [Requests -> Work]
    BY <1>0, <2>3 DEF EndRequest, TypeOK
  <2>4. CASE UNCHANGED req
    BY <1>0, <2>4 DEF TypeOK
  <2> QED BY <2>1, <2>2, <2>3, <2>4
          DEF Next, vars, Handle, Deliver, RequestMagicLink, ConsumeMagicLink,
              LoginExpires, LockElapses, PublishUnheard, WrongCode, RightCode, WrongPassword,
              RightPassword, MissFailure, AbandonRequest, SkipLock, BeginLock, CommitLock, StaleLock,
              SkipVerifyEmail, BeginVerifyEmail, CommitVerifyEmail, StaleVerifyEmail
<1>4. dlv' \in [Deliveries -> Job]
  <2>1. ASSUME NEW d \in Deliveries, BeginLock(d) PROVE dlv' \in [Deliveries -> Job]
    <3>1. LockDueToTotpFailures(user) \in Row /\ user.version \in Nat
      BY <1>0, LockDueToTotpFailuresResult DEF TypeOK, Row
    <3>2. dlv \in [Deliveries -> Job] /\ dlv[d] \in Job
      BY <1>0 DEF TypeOK
    <3>3. PICK j : j = [dlv[d] EXCEPT !.pc = "lock", !.base = user.version,
                                      !.snap = LockDueToTotpFailures(user)]
      OBVIOUS
    <3>4. j \in Job
      BY <3>1, <3>2, <3>3 DEF Job
    <3> QED BY <2>1, <3>2, <3>3, <3>4 DEF BeginLock
  <2>2. ASSUME NEW d \in Deliveries, BeginVerifyEmail(d)
        PROVE  dlv' \in [Deliveries -> Job]
    <3>1. VerifyEmail(user) \in Row /\ user.version \in Nat
      BY <1>0, VerifyEmailResult DEF TypeOK, Row
    <3>2. dlv \in [Deliveries -> Job] /\ dlv[d] \in Job
      BY <1>0 DEF TypeOK
    <3>3. PICK j : j = [dlv[d] EXCEPT !.pc = "verify_email", !.base = user.version,
                                      !.snap = VerifyEmail(user)]
      OBVIOUS
    <3>4. j \in Job
      BY <3>1, <3>2, <3>3 DEF Job
    <3> QED BY <2>2, <3>2, <3>3, <3>4 DEF BeginVerifyEmail
  <2>3. ASSUME NEW d \in Deliveries, EndDelivery(d) PROVE dlv' \in [Deliveries -> Job]
    BY <1>0, <2>3 DEF EndDelivery, TypeOK
  <2>4. ASSUME NEW d \in Deliveries, StaleLock(d) PROVE dlv' \in [Deliveries -> Job]
    <3>1. dlv[d].tries \in Nat
      BY <1>0 DEF TypeOK, Job
    <3>2. PICK n \in Nat : n = dlv[d].tries + 1
      BY <3>1
    <3>3. PICK j : j = [NoJob(Blank) EXCEPT !.pc = "reread", !.tries = n]
      OBVIOUS
    <3>4. j \in Job
      BY <3>2, <3>3, RereadResult
    <3> QED BY <1>0, <2>3, <2>4, <3>2, <3>3, <3>4 DEF StaleLock, TypeOK
  <2>5. CASE UNCHANGED dlv
    BY <1>0, <2>5 DEF TypeOK
  <2> QED BY <2>1, <2>2, <2>3, <2>4, <2>5
          DEF Next, vars, Handle, Deliver, RequestMagicLink, ConsumeMagicLink,
              LoginExpires, LockElapses, PublishUnheard, BeginVerify, WrongCode, RightCode,
              BeginLogin,
              WrongPassword, RightPassword, MissFailure, AbandonRequest, SkipLock, CommitLock,
              SkipVerifyEmail, CommitVerifyEmail, StaleVerifyEmail
<1> QED BY <1>0, <1>1, <1>3, <1>4 DEF TypeOK

\* A write of the row raises the bound by a request's worth for every request.
LEMMA MoreVersions ==
    ASSUME NEW n \in Nat, NEW v \in Nat, NEW w \in Nat, v < w
    PROVE  n * v + n <= n * w
<1>1. PICK k \in Nat : w = v + 1 + k
  <2>1. w - v - 1 \in Nat /\ w = v + 1 + (w - v - 1)
    OBVIOUS
  <2> QED BY <2>1
<1>2. n * w = n * v + n + n * k
  BY <1>1
<1>3. n * k \in Nat /\ n * v \in Nat /\ n * w \in Nat
  BY <1>1
<1> QED BY <1>2, <1>3

LEMMA StaleIsFinite ==
    ASSUME NEW S, S \subseteq Requests
    PROVE  /\ IsFiniteSet(S) /\ Cardinality(S) \in Nat
           /\ Cardinality(Requests) \in Nat /\ Cardinality(S) <= Cardinality(Requests)
  BY FS_Subset, FS_CardinalityType, RequestsAssumption

LEMMA StepUncounted ==
    ASSUME AInv, [Next]_vars
    PROVE  UncountedBounded'
<1>0. /\ user \in Row /\ user' \in Row /\ req \in [Requests -> Work] /\ uncounted \in Nat
      /\ UncountedBounded
      /\ user' = user \/ LockElapses \/ user'.version > user.version
  BY StepUser DEF AInv, TypeOK
<1>1. PICK S, T : S = Stale /\ T = Stale'
  OBVIOUS
<1>2. S \subseteq Requests /\ T \subseteq Requests
  BY <1>1 DEF Stale
<1>3. PICK n, v, w, s, t \in Nat :
         /\ n = Cardinality(Requests) /\ v = user.version /\ w = user'.version
         /\ s = Cardinality(S) /\ t = Cardinality(T)
  BY <1>0, <1>2, StaleIsFinite DEF Row
<1>4. t <= n /\ n * v \in Nat /\ n * w \in Nat /\ uncounted + s <= n * v
  BY <1>0, <1>1, <1>2, <1>3, StaleIsFinite DEF UncountedBounded
<1>5. SUFFICES uncounted' + t <= n * w
  BY <1>1, <1>3 DEF UncountedBounded
<1>6. CASE \E r \in Requests : MissFailure(r)
  <2>1. PICK r \in Requests : MissFailure(r)
    BY <1>6
  <2>2. r \in S /\ T = S \ {r} /\ w = v /\ uncounted' = uncounted + 1
    BY <1>0, <1>1, <1>3, <2>1 DEF MissFailure, EndRequest, NoWork, Stale, Fresh
  <2>3. t = s - 1
    BY <1>2, <1>3, <2>2, StaleIsFinite, FS_RemoveElement
  <2> QED BY <1>0, <1>3, <1>4, <2>2, <2>3
<1>7. CASE ~\E r \in Requests : MissFailure(r)
  <2>1. UNCHANGED uncounted
    BY <1>7 DEF Next, vars, history, Handle, Deliver, RequestMagicLink, ConsumeMagicLink,
         LoginExpires, LockElapses, PublishUnheard, BeginVerify, WrongCode, RightCode,
         BeginLogin, WrongPassword, RightPassword, AbandonRequest, SkipLock, BeginLock,
         CommitLock, StaleLock, SkipVerifyEmail, BeginVerifyEmail, CommitVerifyEmail,
         StaleVerifyEmail
  <2>2. CASE v < w
    <3>1. n * v + n <= n * w
      BY <1>3, <2>2, MoreVersions
    <3> QED BY <1>0, <1>3, <1>4, <2>1, <3>1
  <2>3. CASE ~(v < w)
    <3>1. user'.version = user.version
      BY <1>0, <1>3, <2>3 DEF LockElapses, Row
    <3>2. T \subseteq S
      <4> SUFFICES ASSUME NEW r \in T PROVE r \in S
        OBVIOUS
      <4>1. r \in Requests /\ req'[r].pc # "idle" /\ req'[r].base # user.version
        BY <1>1, <1>2, <3>1 DEF Stale, Fresh
      <4>2. req'[r] = req[r] \/ req'[r].base = user.version \/ req'[r].pc = "idle"
        <5>1. CASE UNCHANGED req
          BY <5>1
        <5>2. CASE \E q \in Requests : EndRequest(q)
          BY <1>0, <1>2, <4>1, <5>2 DEF EndRequest, NoWork
        <5>3. CASE \E q \in Requests : BeginVerify(q) \/ BeginLogin(q)
          BY <1>0, <1>2, <4>1, <5>3 DEF BeginVerify, BeginLogin
        <5>4. UNCHANGED req \/ (\E q \in Requests :
                 EndRequest(q) \/ BeginVerify(q) \/ BeginLogin(q))
          BY DEF Next, vars, Handle, Deliver, RequestMagicLink, ConsumeMagicLink,
                 LoginExpires, LockElapses, PublishUnheard, WrongCode, RightCode,
                 WrongPassword, RightPassword, MissFailure, AbandonRequest,
                 SkipLock, BeginLock, CommitLock, StaleLock, SkipVerifyEmail,
                 BeginVerifyEmail, CommitVerifyEmail, StaleVerifyEmail
        <5> QED BY <5>1, <5>2, <5>3, <5>4
      <4> QED BY <1>1, <4>1, <4>2 DEF Stale, Fresh
    <3>3. t <= s
      BY <1>2, <1>3, <3>2, StaleIsFinite, FS_Subset
    <3>4. w = v
      BY <1>3, <3>1
    <3> QED BY <1>0, <1>3, <1>4, <2>1, <3>3, <3>4
  <2> QED BY <2>2, <2>3
<1> QED BY <1>6, <1>7

LEMMA InitAInv == Init => AInv
<1> SUFFICES ASSUME Init PROVE AInv
  OBVIOUS
<1>1. Blank \in Row /\ NewUser("verified") \in Row
  BY DEF Blank, NewUser, Row
<1>2. NoWork(Blank) \in Work /\ NoJob(Blank) \in Job
  BY <1>1 DEF NoWork, NoJob, Work, Job
<1>3. TypeOK
  BY <1>1, <1>2 DEF Init, TypeOK, Blank
<1>4. FailuresExact /\ LockConsistent
  BY ThresholdAssumption DEF Init, NewUser, FailuresExact, LockConsistent
<1>5. Snapshots
  BY DEF Init, NoWork, NoJob, Snapshots, SnapshotOf, JobOf
<1>6. UncountedBounded
  <2>1. Stale = {}
    BY DEF Init, NoWork, Stale
  <2>2. Cardinality(Requests) \in Nat
    BY StaleIsFinite
  <2> QED BY <2>1, <2>2, FS_EmptySet DEF Init, NewUser, UncountedBounded
<1> QED BY <1>3, <1>4, <1>5, <1>6 DEF AInv

LEMMA StepAInv == AInv /\ [Next]_vars => AInv'
  BY StepUser, StepSnapshots, StepTypes, StepUncounted DEF AInv

-----------------------------------------------------------------------------

(* The refinement of AccountContract. *)

LEMMA CommitResult ==
    ASSUME AInv, NEW d \in Deliveries
    PROVE  /\ CommitLock(d) =>
                /\ ~IsLockedNow(user) /\ user.totpFails >= TotpThreshold
                /\ user'.totpFails = user.totpFails /\ user'.pwFails = user.pwFails
                /\ user'.window = "future" /\ user'.status = "locked"
           /\ CommitVerifyEmail(d) =>
                /\ user.status = "unverified" /\ user'.status = "verified"
                /\ user'.totpFails = user.totpFails /\ user'.pwFails = user.pwFails
                /\ user'.window = user.window
<1>0. user \in Row
  BY DEF AInv, TypeOK
<1>1. CommitLock(d) => /\ ~IsLockedNow(user) /\ user.totpFails >= TotpThreshold
                       /\ user' = LockDueToTotpFailures(user)
  BY DEF CommitLock, AInv, Snapshots, JobOf
<1>2. CommitVerifyEmail(d) => user.status = "unverified" /\ user' = VerifyEmail(user)
  BY DEF CommitVerifyEmail, AInv, Snapshots, JobOf
<1> QED BY <1>0, <1>1, <1>2, LockDueToTotpFailuresResult, VerifyEmailResult

LEMMA StaleResult ==
    ASSUME AInv, NEW d \in Deliveries, StaleLock(d)
    PROVE  /\ \/ dlv'[d].pc = "idle" /\ failEvents' = failEvents + 1
              \/ dlv'[d].pc = "reread" /\ failEvents' = failEvents
           /\ \A c \in Deliveries : c # d => dlv'[c] = dlv[c]
<1>0. dlv \in [Deliveries -> Job] /\ dlv[d].tries + 1 \in Nat
  BY DEF AInv, TypeOK, Job
<1>1. CASE EndDelivery(d) /\ failEvents' = failEvents + 1
  BY <1>0, <1>1 DEF EndDelivery, NoJob
<1>2. CASE /\ dlv' = [dlv EXCEPT ![d] = [NoJob(Blank) EXCEPT !.pc = "reread",
                                                !.tries = dlv[d].tries + 1]]
           /\ UNCHANGED failEvents
  BY <1>0, <1>2, RereadResult
<1> QED BY <1>1, <1>2 DEF StaleLock

\* Handlers run only where they are registered; there a signup link is marked as
\* handled only after the account was verified.
SignupHeld ==
    /\ \A d \in Deliveries : dlv[d].pc # "idle" => registered
    /\ registered /\ signup = "published" => user.status # "unverified"
    /\ \A d \in Deliveries : dlv[d].pc = "verify_email" => signup # "none"

LEMMA InitSignupHeld == Init => SignupHeld
  BY DEF Init, NoJob, SignupHeld

LEMMA StepSignupHeld ==
    ASSUME AInv, SignupHeld, [Next]_vars
    PROVE  SignupHeld'
<1>0. /\ user.status # "unverified" => user'.status # "unverified"
      /\ dlv \in [Deliveries -> Job] /\ UNCHANGED registered
  <2>1. UNCHANGED registered
    BY DEF Next, vars, Handle, Deliver, RequestMagicLink, ConsumeMagicLink, LoginExpires,
         LockElapses, PublishUnheard, BeginVerify, WrongCode, RightCode, BeginLogin,
         WrongPassword, RightPassword, MissFailure, AbandonRequest, SkipLock, BeginLock,
         CommitLock, StaleLock, SkipVerifyEmail, BeginVerifyEmail, CommitVerifyEmail,
         StaleVerifyEmail
  <2> QED BY <2>1, StepUser DEF AInv, TypeOK
<1>1. signup # "none" => signup' # "none"
  BY DEF Next, vars, Handle, Deliver, RequestMagicLink, ConsumeMagicLink, LoginExpires,
         LockElapses, PublishUnheard, BeginVerify, WrongCode, RightCode, BeginLogin, WrongPassword,
         RightPassword, MissFailure, AbandonRequest, SkipLock, BeginLock, CommitLock, StaleLock,
         SkipVerifyEmail, BeginVerifyEmail, CommitVerifyEmail, StaleVerifyEmail
<1>2. ASSUME NEW d \in Deliveries, dlv'[d].pc = "verify_email"
      PROVE  signup' # "none"
  <2>1. CASE dlv[d].pc = "verify_email"
    BY <1>1, <2>1 DEF SignupHeld
  <2>2. CASE BeginVerifyEmail(d)
    BY <2>2 DEF BeginVerifyEmail
  <2>3. CASE dlv[d].pc # "verify_email" /\ ~BeginVerifyEmail(d)
    <3>1. CASE UNCHANGED dlv
      BY <1>2, <2>3, <3>1
    <3>2. ASSUME NEW c \in Deliveries, Deliver(c), c # d PROVE FALSE
      BY <1>0, <1>2, <2>3, <3>2
         DEF Deliver, SkipLock, BeginLock, CommitLock, StaleLock, SkipVerifyEmail,
             BeginVerifyEmail, CommitVerifyEmail, StaleVerifyEmail, EndDelivery
    <3>3. CASE EndDelivery(d)
      BY <1>0, <1>2, <3>3 DEF EndDelivery, NoJob
    <3>4. CASE BeginLock(d)
      BY <1>0, <1>2, <3>4 DEF BeginLock, Job
    <3>5. CASE StaleLock(d)
      BY <1>0, <1>2, <3>3, <3>5, StaleResult
    <3> QED BY <1>2, <2>3, <3>1, <3>2, <3>3, <3>4, <3>5
            DEF Next, vars, Handle, Deliver, RequestMagicLink, ConsumeMagicLink,
                LoginExpires, LockElapses, PublishUnheard, BeginVerify, WrongCode, RightCode,
              BeginLogin,
                WrongPassword, RightPassword, MissFailure, AbandonRequest, SkipLock, CommitLock,
                SkipVerifyEmail, CommitVerifyEmail, StaleVerifyEmail
  <2> QED BY <2>1, <2>2, <2>3
<1>3. registered' /\ signup' = "published" => user'.status # "unverified"
  <2>1. CASE \E d \in Deliveries : SkipVerifyEmail(d)
    BY <1>0, <2>1 DEF SkipVerifyEmail
  <2>2. ASSUME NEW d \in Deliveries, CommitVerifyEmail(d)
        PROVE  user'.status # "unverified"
    BY <2>2, CommitResult
  <2>3. CASE signup' # "published" \/ UNCHANGED signup \/ ~registered
    BY <1>0, <2>3 DEF SignupHeld
  <2> QED BY <1>0, <2>1, <2>2, <2>3
          DEF Next, vars, Handle, Deliver, RequestMagicLink, ConsumeMagicLink,
              LoginExpires, LockElapses, PublishUnheard, BeginVerify, WrongCode, RightCode,
              BeginLogin,
              WrongPassword, RightPassword, MissFailure, AbandonRequest, SkipLock, BeginLock, CommitLock,
              StaleLock, BeginVerifyEmail, StaleVerifyEmail
<1>4. ASSUME NEW d \in Deliveries, dlv'[d].pc # "idle"
      PROVE  registered'
  <2>1. CASE registered
    BY <1>0, <2>1
  <2>2. CASE ~registered
    <3>1. ASSUME NEW c \in Deliveries, Deliver(c) PROVE FALSE
      <4>1. dlv[c].pc = "idle"
        BY <2>2 DEF SignupHeld
      <4> QED BY <2>2, <3>1, <4>1
          DEF Deliver, SkipLock, BeginLock, CommitLock, StaleLock, SkipVerifyEmail,
              BeginVerifyEmail, CommitVerifyEmail, StaleVerifyEmail, FailedEventTaken,
              SignupEventTaken
    <3>2. UNCHANGED dlv
      BY <3>1 DEF Next, vars, Handle, RequestMagicLink, ConsumeMagicLink, LoginExpires,
         LockElapses, PublishUnheard, BeginVerify, WrongCode, RightCode, BeginLogin,
         WrongPassword, RightPassword, MissFailure, AbandonRequest
    <3> QED BY <1>4, <2>2, <3>2 DEF SignupHeld
  <2> QED BY <2>1, <2>2
<1> QED BY <1>2, <1>3, <1>4 DEF SignupHeld

-----------------------------------------------------------------------------

\* How the number of open alarms follows from what became of one execution.
LEMMA AlarmsAfter ==
    ASSUME AInv, [Next]_vars, NEW d \in Deliveries,
           \A c \in Deliveries : c # d => dlv'[c] = dlv[c]
    PROVE  /\ Alarms \in Nat
           /\ dlv[d].pc \in {"lock", "reread"} => Alarms > failEvents
           /\ (dlv'[d].pc \in {"lock", "reread"} <=> dlv[d].pc \in {"lock", "reread"})
                 => Alarms' = failEvents' + Alarms - failEvents
           /\ (dlv[d].pc \in {"lock", "reread"} /\ dlv'[d].pc \notin {"lock", "reread"})
                 => Alarms' = failEvents' + Alarms - failEvents - 1
           /\ (dlv[d].pc \notin {"lock", "reread"} /\ dlv'[d].pc \in {"lock", "reread"})
                 => Alarms' = failEvents' + Alarms - failEvents + 1
<1>0. PICK L : L = Locking
  OBVIOUS
<1>1. PICK M : M = Locking'
  OBVIOUS
<1>2. IsFiniteSet(L) /\ IsFiniteSet(M)
  <2>1. L \subseteq Deliveries /\ M \subseteq Deliveries
    BY <1>0, <1>1 DEF Locking
  <2> QED BY <2>1, FS_Subset, DeliveriesAssumption
<1>3. Cardinality(L) \in Nat /\ Cardinality(M) \in Nat
  BY <1>2, FS_CardinalityType
<1>4. failEvents \in Nat
  BY DEF AInv, TypeOK
<1>5. Alarms = failEvents + Cardinality(L) /\ Alarms' = failEvents' + Cardinality(M)
  BY <1>0, <1>1 DEF Alarms
<1>6. /\ d \in L <=> dlv[d].pc \in {"lock", "reread"}
      /\ d \in M <=> dlv'[d].pc \in {"lock", "reread"}
      /\ L \ {d} = M \ {d}
  BY <1>0, <1>1 DEF Locking
<1>7. d \in L => Cardinality(L \ {d}) = Cardinality(L) - 1
  BY <1>2, FS_RemoveElement
<1>8. d \in M => Cardinality(M \ {d}) = Cardinality(M) - 1
  BY <1>2, FS_RemoveElement
<1>9. d \notin L => L \ {d} = L
  OBVIOUS
<1>10. d \notin M => M \ {d} = M
  OBVIOUS
<1>11. PICK l, m \in Nat : l = Cardinality(L) /\ m = Cardinality(M)
  BY <1>3
<1>12. /\ (d \in M <=> d \in L) => m = l
       /\ d \in L /\ d \notin M => m = l - 1
       /\ d \notin L /\ d \in M => l = m - 1
  <2>1. PICK k : k = Cardinality(L \ {d}) /\ k = Cardinality(M \ {d})
    BY <1>6
  <2>2. (d \in L => k = l - 1) /\ (d \in M => k = m - 1)
    BY <1>7, <1>8, <1>11, <2>1
  <2>3. (d \notin L => k = l) /\ (d \notin M => k = m)
    BY <1>9, <1>10, <1>11, <2>1
  <2>4. d \in L /\ d \in M => m = l
    BY <1>11, <2>2
  <2> QED BY <2>2, <2>3, <2>4
<1>13. d \in L => Cardinality(L) > 0
  BY <1>2, <1>3, FS_EmptySet
<1>14. failEvents' \in Nat
  BY StepTypes DEF TypeOK
<1>15. Alarms = failEvents + l /\ Alarms' = failEvents' + m
  BY <1>5, <1>11
<1>16. Alarms \in Nat /\ (d \in L => Alarms > failEvents)
  BY <1>4, <1>11, <1>13, <1>15
<1>17. /\ (d \in M <=> d \in L) => Alarms' = failEvents' + Alarms - failEvents
       /\ d \in L /\ d \notin M => Alarms' = failEvents' + Alarms - failEvents - 1
       /\ d \notin L /\ d \in M => Alarms' = failEvents' + Alarms - failEvents + 1
  <2>1. CASE d \in M <=> d \in L
    BY <1>4, <1>12, <1>14, <1>15, <2>1
  <2>2. CASE d \in L /\ d \notin M
    BY <1>4, <1>12, <1>14, <1>15, <2>2
  <2>3. CASE d \notin L /\ d \in M
    BY <1>4, <1>12, <1>14, <1>15, <2>3
  <2> QED BY <2>1, <2>2, <2>3
<1> QED BY <1>6, <1>16, <1>17

\* Every unpublished failure event is an open alarm.
LEMMA FailedWithinAlarms ==
    ASSUME AInv
    PROVE  Alarms >= failEvents
<1>1. PICK L : L = Locking
  OBVIOUS
<1>2. L \subseteq Deliveries
  BY <1>1 DEF Locking
<1>3. Cardinality(L) \in Nat
  BY <1>2, FS_Subset, FS_CardinalityType, DeliveriesAssumption
<1> QED BY <1>1, <1>3 DEF Alarms, AInv, TypeOK

LEMMA InitContract == Init => Contract!Init
<1> SUFFICES ASSUME Init PROVE Contract!Init
  OBVIOUS
<1>1. Locking = {}
  BY DEF Init, NoJob, Locking
<1>2. Alarms = 0
  BY <1>1, FS_EmptySet DEF Init, Alarms
<1> QED BY <1>2 DEF Init, NewUser, Contract!Init

\* A write that passes its version check is the attempt made on the row as it
\* is.
LEMMA AttemptOfContract ==
    ASSUME AInv, [Next]_vars, NEW r \in Requests,
           WrongCode(r) \/ RightCode(r) \/ WrongPassword(r) \/ RightPassword(r)
    PROVE  Contract!Next \/ UNCHANGED Contract!contractVars
<1> DEFINE s == req[r].snap
<1>0. /\ user \in Row /\ user.status = "locked" <=> user.window # "none"
      /\ UNCHANGED <<dlv, signup, registered>>
  BY DEF AInv, TypeOK, LockConsistent, WrongCode, RightCode, WrongPassword, RightPassword
<1>1. Alarms \in Nat /\ (UNCHANGED failEvents => UNCHANGED Alarms)
      /\ (failEvents' = failEvents + 1 => Alarms' = Alarms + 1)
  <2>1. Locking' = Locking
    BY <1>0 DEF Locking
  <2>2. IsFiniteSet(Locking)
    BY FS_Subset, DeliveriesAssumption DEF Locking
  <2>3. Cardinality(Locking) \in Nat /\ failEvents \in Nat
    BY <2>2, FS_CardinalityType DEF AInv, TypeOK
  <2> QED BY <2>1, <2>3 DEF Alarms
<1>2. req[r].healed => LockElapsed(user) /\ user.status = "locked"
  BY <1>0 DEF AInv, Snapshots, SnapshotOf, LockElapsed, WrongCode, RightCode, NeedsUpdate,
              WrongPassword, RightPassword
<1>3. CASE WrongCode(r)
  <2>1. /\ req[r].pc = "verify" /\ Fresh(req[r].base)
        /\ user' = RecordTotpFailure(s) /\ failEvents' = failEvents + 1
    BY <1>3 DEF WrongCode
  <2>2. s \in Row /\ ~IsLockedNow(user)
    BY <2>1, FreshSnapshot
  <2>3. /\ user'.totpFails = s.totpFails + 1 /\ user'.pwFails = s.pwFails
        /\ user'.window = s.window /\ user'.status = s.status
    BY <2>1, <2>2, RecordTotpFailureResult
  <2>4. Contract!WrongCode
    <3>1. CASE req[r].healed
      <4>1. /\ s.totpFails = 0 /\ s.pwFails = user.pwFails
            /\ s.window = "none" /\ s.status = "verified"
        BY <2>1, <3>1, FreshSnapshot
      <4> QED BY <1>0, <1>1, <1>2, <2>1, <2>2, <2>3, <3>1, <4>1
              DEF Contract!WrongCode, Contract!Refused, Contract!Unlock, IsLockedNow, LockElapsed
    <3>2. CASE ~req[r].healed
      <4>1. s = user
        BY <2>1, <3>2, FreshSnapshot
      <4> QED BY <1>0, <1>1, <2>1, <2>2, <2>3, <4>1
              DEF Contract!WrongCode, Contract!Refused, IsLockedNow
    <3> QED BY <3>1, <3>2
  <2> QED BY <2>4 DEF Contract!Next
<1>4. CASE RightCode(r)
  <2>0. UNCHANGED failEvents
    BY <1>4 DEF RightCode
  <2>1. CASE ~NeedsUpdate(r)
    BY <1>0, <1>1, <1>4, <2>0, <2>1
       DEF RightCode, Contract!contractVars, Contract!account
  <2>2. CASE NeedsUpdate(r)
    <3>1. /\ req[r].pc = "verify" /\ Fresh(req[r].base)
          /\ user' = IF s.totpFails # 0 THEN ClearTotpFailures(s) ELSE s
      BY <1>4, <2>2 DEF RightCode
    <3>2. s \in Row /\ ~IsLockedNow(user)
      BY <3>1, FreshSnapshot
    <3>3. Contract!RightCode
      <4>1. CASE req[r].healed
        <5>1. /\ s.totpFails = 0 /\ s.pwFails = user.pwFails
              /\ s.window = "none" /\ s.status = "verified"
          BY <3>1, <4>1, FreshSnapshot
        <5> QED BY <1>0, <1>1, <1>2, <2>0, <3>1, <3>2, <4>1, <5>1
                DEF Contract!RightCode, Contract!Refused, Contract!Unlock, IsLockedNow
      <4>2. CASE ~req[r].healed
        <5>1. s = user /\ s.totpFails # 0
          BY <2>2, <3>1, <4>2, FreshSnapshot DEF NeedsUpdate
        <5>2. /\ user'.totpFails = 0 /\ user'.pwFails = user.pwFails
              /\ user'.window = "none" /\ user'.status = Unlocked(user.status)
          BY <3>1, <3>2, <5>1, ClearTotpFailuresResult
        <5> QED BY <1>0, <1>1, <2>0, <3>2, <5>2
                DEF Contract!RightCode, Contract!Refused, Contract!Unlock, IsLockedNow,
                    Unlocked
      <4> QED BY <4>1, <4>2
    <3> QED BY <3>3 DEF Contract!Next
  <2> QED BY <2>1, <2>2
<1>5. CASE WrongPassword(r)
  <2>1. /\ req[r].pc = "login" /\ Fresh(req[r].base)
        /\ user' = RecordPasswordFailure(s) /\ UNCHANGED failEvents
    BY <1>5 DEF WrongPassword
  <2>2. s \in Row /\ ~IsLockedNow(user) /\ s.window = "none" /\ s.status # "locked"
    BY <2>1, FreshSnapshot
  <2>3. /\ user'.totpFails = s.totpFails /\ user'.pwFails = s.pwFails + 1
        /\ IF s.pwFails + 1 >= PwThreshold
           THEN user'.status = "locked" /\ user'.window = "future"
           ELSE user'.status = s.status /\ user'.window = s.window
    BY <2>1, <2>2, RecordPasswordFailureResult
  <2>4. Contract!WrongPassword
    <3>1. CASE req[r].healed
      <4>1. s.pwFails = 0 /\ s.totpFails = user.totpFails /\ s.status = "verified"
        BY <2>1, <3>1, FreshSnapshot
      <4> QED BY <1>0, <1>1, <1>2, <2>1, <2>2, <2>3, <3>1, <4>1
              DEF Contract!WrongPassword, Contract!Refused, Contract!Unlock, Contract!Lock,
                  IsLockedNow, LockElapsed
    <3>2. CASE ~req[r].healed
      <4>1. s = user
        BY <2>1, <3>2, FreshSnapshot
      <4> QED BY <1>0, <1>1, <2>1, <2>2, <2>3, <4>1
              DEF Contract!WrongPassword, Contract!Refused, Contract!Unlock, Contract!Lock,
                  IsLockedNow
    <3> QED BY <3>1, <3>2
  <2> QED BY <2>4 DEF Contract!Next
<1>6. CASE RightPassword(r)
  <2>0. UNCHANGED failEvents
    BY <1>6 DEF RightPassword
  <2>1. CASE ~(req[r].healed \/ s.pwFails # 0)
    BY <1>0, <1>1, <1>6, <2>0, <2>1
       DEF RightPassword, Contract!contractVars, Contract!account
  <2>2. CASE req[r].healed \/ s.pwFails # 0
    <3>1. /\ req[r].pc = "login" /\ Fresh(req[r].base)
          /\ user' = ClearPasswordFailures(s)
      BY <1>6, <2>2 DEF RightPassword
    <3>2. s \in Row /\ ~IsLockedNow(user) /\ s.window = "none" /\ s.status # "locked"
      BY <3>1, FreshSnapshot
    <3>3. /\ user'.totpFails = s.totpFails /\ user'.pwFails = 0
          /\ user'.window = s.window /\ user'.status = s.status
      BY <3>1, <3>2, ClearPasswordFailuresResult
    <3>4. Contract!RightPassword
      <4>1. CASE req[r].healed
        <5>1. s.totpFails = user.totpFails /\ s.status = "verified"
          BY <3>1, <4>1, FreshSnapshot
        <5> QED BY <1>0, <1>1, <1>2, <2>0, <3>2, <3>3, <4>1, <5>1
                DEF Contract!RightPassword, Contract!Refused, Contract!Unlock, IsLockedNow
      <4>2. CASE ~req[r].healed
        <5>1. s = user
          BY <3>1, <4>2, FreshSnapshot
        <5> QED BY <1>0, <1>1, <2>0, <3>2, <3>3, <5>1
                DEF Contract!RightPassword, Contract!Refused, Contract!Unlock, IsLockedNow
      <4> QED BY <4>1, <4>2
    <3> QED BY <3>4 DEF Contract!Next
  <2> QED BY <2>1, <2>2
<1> QED BY <1>3, <1>4, <1>5, <1>6

\* An execution that read the account late or twice answers its alarm once,
\* on the account as it is when it commits.
LEMMA DeliveryOfContract ==
    ASSUME AInv, SignupHeld, [Next]_vars, NEW d \in Deliveries, Deliver(d)
    PROVE  Contract!Next \/ UNCHANGED Contract!contractVars
<1>a. registered /\ registered' = registered
  BY DEF SignupHeld, Deliver, SkipLock, BeginLock, CommitLock, StaleLock, SkipVerifyEmail,
         BeginVerifyEmail, CommitVerifyEmail, StaleVerifyEmail, FailedEventTaken,
         SignupEventTaken
<1>0. /\ user \in Row /\ dlv \in [Deliveries -> Job] /\ failEvents \in Nat
      /\ signup \in {"none", "pending", "taken", "published"}
      /\ registered /\ registered' = registered
  BY <1>a DEF AInv, TypeOK
<1>1. \A c \in Deliveries : c # d => dlv'[c] = dlv[c]
  BY <1>0 DEF Deliver, SkipLock, BeginLock, CommitLock, StaleLock, SkipVerifyEmail,
              BeginVerifyEmail, CommitVerifyEmail, StaleVerifyEmail, EndDelivery
<1>2. /\ Alarms \in Nat
      /\ dlv[d].pc \in {"lock", "reread"} => Alarms > failEvents
      /\ (dlv'[d].pc \in {"lock", "reread"} <=> dlv[d].pc \in {"lock", "reread"})
            => Alarms' = failEvents' + Alarms - failEvents
      /\ (dlv[d].pc \in {"lock", "reread"} /\ dlv'[d].pc \notin {"lock", "reread"})
            => Alarms' = failEvents' + Alarms - failEvents - 1
      /\ (dlv[d].pc \notin {"lock", "reread"} /\ dlv'[d].pc \in {"lock", "reread"})
            => Alarms' = failEvents' + Alarms - failEvents + 1
  BY <1>1, AlarmsAfter
<1>3. EndDelivery(d) => dlv'[d].pc = "idle"
  BY <1>0 DEF EndDelivery, NoJob
<1>4. CASE SkipLock(d)
  <2>1. Alarms > 0 /\ Alarms' \in {Alarms - 1, Alarms}
    <3>1. CASE FailedEventTaken(d) /\ Done(failEvents - 1)
      <4>1. failEvents > 0 /\ dlv[d].pc = "idle" /\ failEvents' \in {failEvents - 1, failEvents}
        BY <1>0, <3>1 DEF FailedEventTaken, Done
      <4>2. Alarms >= failEvents
        BY FailedWithinAlarms
      <4> QED BY <1>0, <1>2, <1>3, <1>4, <4>1, <4>2 DEF SkipLock
    <3>2. CASE dlv[d].pc = "reread" /\ Done(failEvents)
      <4>1. failEvents' \in {failEvents, failEvents + 1}
        BY <3>2 DEF Done
      <4> QED BY <1>0, <1>2, <1>3, <1>4, <3>2, <4>1 DEF SkipLock
    <3> QED BY <1>4, <3>1, <3>2 DEF SkipLock
  <2>2. Contract!AnswerAlarm
    BY <1>0, <1>4, <2>1 DEF SkipLock, NothingToLock, IsLockedNow, Contract!AnswerAlarm,
                      Contract!NothingToLock, Contract!Refused, Contract!account
  <2> QED BY <2>2 DEF Contract!Next
<1>5. CASE CommitLock(d)
  <2>1. /\ ~IsLockedNow(user) /\ user.totpFails >= TotpThreshold
        /\ user'.totpFails = user.totpFails /\ user'.pwFails = user.pwFails
        /\ user'.window = "future" /\ user'.status = "locked"
    BY <1>5, CommitResult
  <2>2. /\ dlv[d].pc = "lock" /\ failEvents' \in {failEvents, failEvents + 1}
        /\ dlv'[d].pc = "idle" /\ UNCHANGED signup
    BY <1>3, <1>5 DEF CommitLock, Done
  <2>3. Alarms > 0 /\ Alarms' \in {Alarms - 1, Alarms}
    <3>1. Alarms > failEvents /\ Alarms' = failEvents' + Alarms - failEvents - 1
      BY <1>2, <2>2
    <3>2. Alarms \in Nat /\ failEvents \in Nat
          /\ failEvents' \in {failEvents, failEvents + 1}
      BY <1>0, <1>2, <2>2
    <3>3. failEvents' = failEvents => Alarms' = Alarms - 1
      BY <3>1, <3>2
    <3>4. failEvents' = failEvents + 1 => Alarms' = Alarms
      BY <3>1, <3>2
    <3>5. Alarms > 0
      BY <3>1, <3>2
    <3> QED BY <3>2, <3>3, <3>4, <3>5
  <2>4. Contract!AnswerAlarm
    BY <1>0, <2>1, <2>2, <2>3, ThresholdAssumption
       DEF IsLockedNow, Row, Contract!AnswerAlarm, Contract!NothingToLock, Contract!Refused,
           Contract!Lock
  <2> QED BY <2>4 DEF Contract!Next
<1>6. CASE BeginLock(d)
  <2>1. dlv'[d].pc = "lock" /\ UNCHANGED <<user, signup>>
    BY <1>0, <1>6 DEF BeginLock, Job
  <2>2. \/ dlv[d].pc = "idle" /\ failEvents' = failEvents - 1
        \/ dlv[d].pc = "reread" /\ UNCHANGED failEvents
    BY <1>6 DEF BeginLock, FailedEventTaken
  <2>3. Alarms' = Alarms
    BY <1>0, <1>2, <2>1, <2>2
  <2> QED BY <1>0, <2>1, <2>3 DEF Contract!contractVars, Contract!account
<1>7. CASE StaleLock(d)
  <2>1. /\ dlv[d].pc = "lock" /\ UNCHANGED <<user, signup>>
        /\ \/ dlv'[d].pc = "idle" /\ failEvents' = failEvents + 1
           \/ dlv'[d].pc = "reread" /\ failEvents' = failEvents
    BY <1>7, StaleResult DEF StaleLock
  <2>2. Alarms' = Alarms
    BY <1>0, <1>2, <2>1
  <2> QED BY <1>0, <2>1, <2>2 DEF Contract!contractVars, Contract!account
<1>8. CASE SkipVerifyEmail(d)
  <2>1. /\ UNCHANGED <<user, dlv, failEvents>> /\ user.status # "unverified"
        /\ signup = "pending"
    BY <1>8 DEF SkipVerifyEmail, SignupEventTaken
  <2>2. Alarms' = Alarms
    BY <1>0, <1>2, <2>1
  <2>3. Contract!Verify
    BY <1>0, <2>1, <2>2 DEF Contract!Verify
  <2> QED BY <2>3 DEF Contract!Next
<1>9. CASE BeginVerifyEmail(d)
  <2>1. /\ dlv'[d].pc = "verify_email" /\ dlv[d].pc = "idle" /\ UNCHANGED <<user, failEvents>>
        /\ signup = "pending" /\ signup' = "taken"
    BY <1>0, <1>9 DEF BeginVerifyEmail, SignupEventTaken, Job
  <2>2. Alarms' = Alarms
    BY <1>0, <1>2, <2>1
  <2> QED BY <1>0, <2>1, <2>2 DEF Contract!contractVars, Contract!account
<1>10. CASE CommitVerifyEmail(d)
  <2>1. /\ user.status = "unverified" /\ user'.status = "verified"
        /\ user'.totpFails = user.totpFails /\ user'.pwFails = user.pwFails
        /\ user'.window = user.window
    BY <1>10, CommitResult
  <2>2. dlv[d].pc = "verify_email" /\ dlv'[d].pc = "idle" /\ UNCHANGED failEvents
    BY <1>3, <1>10 DEF CommitVerifyEmail
  <2>3. Alarms' = Alarms
    BY <1>0, <1>2, <2>2
  <2>4. signup \in {"pending", "taken"}
    BY <1>0, <2>1, <2>2 DEF SignupHeld
  <2>5. Contract!Verify
    BY <1>0, <2>1, <2>3, <2>4 DEF Contract!Verify
  <2> QED BY <2>5 DEF Contract!Next
<1>11. CASE StaleVerifyEmail(d)
  <2>1. /\ dlv[d].pc = "verify_email" /\ dlv'[d].pc = "idle" /\ UNCHANGED <<user, failEvents>>
        /\ signup' = "pending"
    BY <1>3, <1>11 DEF StaleVerifyEmail
  <2>2. Alarms' = Alarms
    BY <1>0, <1>2, <2>1
  <2>3. Contract!ConsumeSignup
    BY <1>0, <2>1, <2>2 DEF Contract!ConsumeSignup, Contract!account
  <2> QED BY <2>3 DEF Contract!Next
<1> QED BY <1>4, <1>5, <1>6, <1>7, <1>8, <1>9, <1>10, <1>11 DEF Deliver

LEMMA StepContract ==
    ASSUME AInv, SignupHeld, [Next]_vars
    PROVE  [Contract!Next]_(Contract!contractVars)
<1> SUFFICES Contract!Next \/ UNCHANGED Contract!contractVars
  OBVIOUS
<1>1. UNCHANGED <<failEvents, dlv>> => UNCHANGED Alarms
  BY DEF Alarms, Locking
<1>2. CASE UNCHANGED <<user, failEvents, dlv, signup, registered>>
  BY <1>1, <1>2 DEF Contract!contractVars, Contract!account
<1>3. CASE ConsumeMagicLink
  <2>1. /\ UNCHANGED <<user, failEvents, dlv, registered>>
        /\ signup' = "pending" \/ UNCHANGED signup
    BY <1>3 DEF ConsumeMagicLink
  <2>2. CASE UNCHANGED signup
    BY <1>2, <2>1, <2>2
  <2>3. CASE signup' = "pending"
    <3>1. Contract!ConsumeSignup
      BY <1>1, <2>1, <2>3 DEF Contract!ConsumeSignup, Contract!account
    <3> QED BY <3>1 DEF Contract!Next
  <2> QED BY <2>1, <2>2, <2>3
<1>4. CASE LockElapses
  <2>1. user \in Row
    BY DEF AInv, TypeOK
  <2>2. Contract!WindowEnds
    BY <1>1, <1>4, <2>1 DEF LockElapses, IsLockedNow, Row, Contract!WindowEnds,
                            Contract!Refused
  <2> QED BY <2>2 DEF Contract!Next
<1>5. CASE \E r \in Requests : WrongCode(r) \/ RightCode(r) \/ WrongPassword(r)
                               \/ RightPassword(r)
  BY <1>5, AttemptOfContract
<1>6. CASE \E d \in Deliveries : Deliver(d)
  BY <1>6, DeliveryOfContract
<1>7. CASE PublishUnheard
  <2>1. /\ ~registered /\ UNCHANGED <<user, dlv, registered>> /\ failEvents \in Nat
        /\ \/ failEvents > 0 /\ failEvents' = failEvents - 1 /\ UNCHANGED signup
           \/ signup = "pending" /\ signup' = "published" /\ UNCHANGED failEvents
    BY <1>7 DEF PublishUnheard, AInv, TypeOK
  <2>2. PICK L : L = Locking /\ L = Locking'
    BY <2>1 DEF Locking
  <2>3. Cardinality(L) \in Nat
    BY <2>2, FS_Subset, FS_CardinalityType, DeliveriesAssumption DEF Locking
  <2>4. failEvents > 0 /\ failEvents' = failEvents - 1 => Alarms > 0 /\ Alarms' = Alarms - 1
    BY <2>1, <2>2, <2>3 DEF Alarms
  <2>5. Contract!Drop
    BY <1>1, <2>1, <2>4 DEF Contract!Drop, Contract!account
  <2> QED BY <2>5 DEF Contract!Next
<1> QED BY <1>2, <1>3, <1>4, <1>5, <1>6, <1>7
        DEF Next, vars, Handle, RequestMagicLink, LoginExpires, BeginVerify, BeginLogin,
            MissFailure, AbandonRequest

-----------------------------------------------------------------------------

\* AInv, the strengthening the theorems below rest on, is an invariant of the
\* account: in words, a request whose version check will succeed still holds
\* the row as it is.
THEOREM Inductive == Spec => []AInv
<1>1. Init => AInv
  BY InitAInv
<1>2. AInv /\ [Next]_vars => AInv'
  BY StepAInv
<1> QED BY <1>1, <1>2, PTL DEF Spec

\* The row, the requests and the jobs keep their types: whatever is written
\* back is a well-formed user row.
THEOREM TypeCorrect == Spec => []TypeOK
<1>1. AInv => TypeOK
  BY DEF AInv
<1> QED BY <1>1, Inductive, PTL

\* The counters equal the failures that were committed since they were last
\* reset, and the wrong codes and passwords that were tried and not counted are
\* at most one per request and write of the row, however many requests of
\* VerifyTotp and AdminLogin race on it.
THEOREM CountersAreExact == Spec => []CountersExact
<1>1. AInv => CountersExact
  <2> SUFFICES ASSUME AInv PROVE CountersExact
    OBVIOUS
  <2>1. PICK S : S = Stale
    OBVIOUS
  <2>2. S \subseteq Requests
    BY <2>1 DEF Stale
  <2>3. PICK s, n, v \in Nat :
           s = Cardinality(S) /\ n = Cardinality(Requests) /\ v = user.version
    BY <2>2, StaleIsFinite DEF AInv, TypeOK, Row
  <2>4. uncounted \in Nat /\ n * v \in Nat /\ uncounted + s <= n * v
    BY <2>1, <2>3 DEF AInv, TypeOK, UncountedBounded
  <2>5. uncounted <= n * v
    BY <2>3, <2>4
  <2> QED BY <2>3, <2>5 DEF AInv, FailuresExact, CountersExact
<1> QED BY <1>1, Inductive, PTL

\* status and locked_until agree, and a lock has its threshold behind it.
THEOREM LockIsConsistent == Spec => []LockConsistent
<1>1. AInv => LockConsistent
  BY DEF AInv
<1> QED BY <1>1, Inductive, PTL

\* Nothing that was in flight when an account was locked clears or rewrites
\* the lock before its window has elapsed.
THEOREM LockHolds == Spec => LockHoldsUntilItElapses
<1>1. AInv /\ [Next]_vars =>
         [IsLockedNow(user) => \/ user' = user
                               \/ user' = [user EXCEPT !.window = "past"]]_vars
  BY StepUser
<1> QED BY <1>1, Inductive, PTL DEF Spec, LockHoldsUntilItElapses

\* No request or handler turns a verified account back into an unverified one.
THEOREM VerifiedForGood == Spec => VerificationIsPermanent
<1>1. AInv /\ [Next]_vars =>
         [user.status # "unverified" => user'.status # "unverified"]_vars
  BY StepUser
<1> QED BY <1>1, Inductive, PTL DEF Spec, VerificationIsPermanent

\* The account is serial: whatever its requests and handler executions do to
\* each other, the row and the open events change as if each had run alone.
THEOREM AccountIsSerial == Spec => ImplementsContract
<1>1. Init => Contract!Init /\ AInv /\ SignupHeld
  BY InitContract, InitAInv, InitSignupHeld
<1>2. AInv /\ SignupHeld /\ [Next]_vars => AInv' /\ SignupHeld'
  BY StepAInv, StepSignupHeld
<1>3. AInv /\ SignupHeld /\ [Next]_vars => [Contract!Next]_(Contract!contractVars)
  BY StepContract
<1> QED BY <1>1, <1>2, <1>3, PTL DEF Spec, ImplementsContract, Contract!Spec
=============================================================================
