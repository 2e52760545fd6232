----------------------------- MODULE LoginFlow ------------------------------
(***************************************************************************)
(* The login of one user: a magic link, or an administrator's password, is *)
(* exchanged for a pre-TOTP token, and the token for a session, by         *)
(* enrolling a TOTP secret and confirming it or by a TOTP or backup code.  *)
(* Links, tokens and codes are for one use, and each is tested in one step *)
(* and spent in a later one: the rows are written back without a version   *)
(* test, the token is evicted from Redis after the session exists.         *)
(*                                                                         *)
(* The counter and the lock of the user row are Account's, the session     *)
(* and its tokens Sessions'.                                               *)
(***************************************************************************)
EXTENDS Naturals

CONSTANTS
    Requests,   \* requests in progress at one time
    Links,
    Tokens,     \* pre-TOTP tokens
    Codes,      \* the backup codes of one generation
    None,
    MaxGen      \* bound: generations of backup codes

ASSUME NoneAssumption ==
    None \notin Links \cup Tokens \cup {"enroll", "challenge"} /\ Links \cap Tokens = {}
ASSUME BoundsAssumption == MaxGen \in Nat

VARIABLES
    link,       \* link[l]: the row of magic_links
    token,      \* token[t]: the intent Redis holds under pre_totp:<t>
    secret,     \* the user's row of totp_secrets, or None
    admin,      \* whether the user is an administrator
    op,         \* op[r]: what request slot r is doing
    gens,       \* generations of backup codes made so far
    held,       \* the secrets whose reply reached the user
    shown,      \* the generations of codes whose reply did
    sessions,   \* whether the user has a session
    latest,     \* history: the generation stored last
    spent,      \* history: codes of that generation accepted
    lost,       \* history: a write put an outdated list of codes back
    uses,       \* history: uses of a link or token by a request that had it to itself
    cut         \* history: live tokens of requests that died between session and eviction

row     == <<secret, latest, spent, lost>>
user    == <<held, shown, sessions>>
history == <<uses, cut>>
vars    == <<link, token, row, admin, op, gens, user, history>>

Gens == 1..MaxGen
Generation(g) == {g} \X Codes
Secret == [id : Gens, codes : SUBSET (Gens \X Codes)]
ASSUME SecretAssumption == None \notin Secret

(* x: the link or token to use; alone: nobody else had it then;            *)
(* snap: the list of codes it read; gen: the generation it made.           *)
Op == [pc : {"idle", "consume", "mint", "enroll", "insert", "read", "answer",
             "session", "evict", "regenerate", "reply"},
       x : Links \cup Tokens \cup {None}, alone : BOOLEAN,
       intent : {"enroll", "challenge", None},
       snap : SUBSET (Gens \X Codes), gen : 0..MaxGen]

NoOp == [pc |-> "idle", x |-> None, alone |-> FALSE, intent |-> None, snap |-> {}, gen |-> 0]

Init ==
    /\ link = [l \in Links |-> "none"]
    /\ token = [t \in Tokens |-> "none"]
    /\ secret = None /\ admin = FALSE
    /\ op = [r \in Requests |-> NoOp]
    /\ gens = 0 /\ held = {} /\ shown = {} /\ sessions = FALSE
    /\ latest = 0 /\ spent = {} /\ lost = FALSE
    /\ uses = [x \in Links \cup Tokens |-> 0]
    /\ cut = {}

Alone(x) == x # None /\ x \notin cut /\ \A q \in Requests : op[q].x # x
Begin(r, x, pc, intent) ==
    /\ op[r].pc = "idle"
    /\ op' = [op EXCEPT ![r] = [NoOp EXCEPT !.pc = pc, !.x = x, !.alone = Alone(x),
                                            !.intent = intent]]
\* The request goes on with the link or token alone, or is over.
Go(r, pc) == op' = [op EXCEPT ![r] = [NoOp EXCEPT !.pc = pc, !.x = op[r].x,
                                                  !.alone = op[r].alone]]
End(r)    == op' = [op EXCEPT ![r] = NoOp]
Use(r)    == uses' = IF op[r].alone THEN [uses EXCEPT ![op[r].x] = @ + 1] ELSE uses

-----------------------------------------------------------------------------
(* Magic links. *)

\* RequestMagicLink inserts a row; the email goes out after the commit.
RequestMagicLink(l) ==
    /\ link[l] = "none"
    /\ link' = [link EXCEPT ![l] = "sent"]
    /\ UNCHANGED <<token, row, admin, op, gens, user, history>>

\* Faulty variant of BeginConsume: consumed_at is not looked at.
BeginConsumeUsed(r, l) ==
    /\ link[l] \in {"sent", "consumed"}
    /\ Begin(r, l, "consume", None)
    /\ UNCHANGED <<link, token, row, admin, gens, user, history>>

\* ConsumeMagicLink: consume() tests the row it has read.  An expired link is
\* one for which this step is not taken any more.
BeginConsume(r, l) ==
    /\ link[l] = "sent"
    /\ Begin(r, l, "consume", None)
    /\ UNCHANGED <<link, token, row, admin, gens, user, history>>

\* The UPDATE has no guard; then the secret is looked for, and the commit.
CommitConsume(r) ==
    /\ op[r].pc = "consume"
    /\ link' = [link EXCEPT ![op[r].x] = "consumed"]
    /\ op' = [op EXCEPT ![r].pc = "mint",
                        ![r].intent = IF secret = None THEN "enroll" ELSE "challenge"]
    /\ UNCHANGED <<token, row, admin, gens, user, history>>

\* Faulty variant of MintToken: the mode of the link is stored as the intent.
MintTokenForMode(r, t) ==
    /\ op[r].pc = "mint" /\ token[t] = "none"
    /\ token' = [token EXCEPT ![t] = "login"]
    /\ Use(r)
    /\ End(r)
    /\ UNCHANGED <<link, row, admin, gens, user, cut>>

\* auth_verify: a new pre-TOTP token.
MintToken(r, t) ==
    /\ op[r].pc = "mint" /\ token[t] = "none"
    /\ token' = [token EXCEPT ![t] = op[r].intent]
    /\ Use(r)
    /\ End(r)
    /\ UNCHANGED <<link, row, admin, gens, user, cut>>

-----------------------------------------------------------------------------
(* Administrators. *)

\* The seed CLI refuses an address that has a row.  It prints the secret and
\* the codes after the commit, if it lives that long.
SeedAdmin ==
    /\ ~admin /\ secret = None /\ gens = 0 /\ MaxGen > 0
    /\ \A l \in Links : link[l] = "none"
    /\ admin' = TRUE
    /\ gens' = 1 /\ latest' = 1
    /\ secret' = [id |-> 1, codes |-> Generation(1)]
    /\ \E printed \in SUBSET {1} : held' = printed /\ shown' = printed
    /\ UNCHANGED <<link, token, op, sessions, spent, lost, history>>

\* admin_login, after a right password (Account has the row).
MintByPassword(t) ==
    /\ admin /\ token[t] = "none"
    /\ token' = [token EXCEPT ![t] = "challenge"]
    /\ UNCHANGED <<link, row, admin, op, gens, user, history>>

-----------------------------------------------------------------------------
(* Enrolment. *)

\* get_pre_totp_user, and admin_totp_verify with its cookie: each route wants
\* its intent, the admin's the same as /verify, and only reads the token;
\* /enroll does nothing with it.
Resolve(r, t) ==
    /\ \/ token[t] = "enroll" /\ Begin(r, None, "enroll", "enroll")
       \/ token[t] \in {"enroll", "challenge"} /\ Begin(r, t, "read", token[t])
    /\ UNCHANGED <<link, token, row, admin, gens, user, history>>

\* EnrollTotp finds no secret and makes one, with a generation of codes.
BeginEnroll(r) ==
    /\ op[r].pc = "enroll" /\ secret = None /\ gens < MaxGen
    /\ gens' = gens + 1
    /\ op' = [op EXCEPT ![r].pc = "insert", ![r].gen = gens + 1]
    /\ UNCHANGED <<link, token, row, admin, user, history>>

\* Faulty variant of InsertSecret: an upsert in place of UNIQUE (user_id).
UpsertSecret(r) ==
    /\ op[r].pc = "insert"
    /\ secret' = [id |-> op[r].gen, codes |-> Generation(op[r].gen)]
    /\ latest' = op[r].gen
    /\ op' = [op EXCEPT ![r].pc = "reply"]
    /\ UNCHANGED <<link, token, admin, gens, user, spent, lost, history>>

InsertSecret(r) ==
    /\ op[r].pc = "insert" /\ secret = None
    /\ secret' = [id |-> op[r].gen, codes |-> Generation(op[r].gen)]
    /\ latest' = op[r].gen
    /\ op' = [op EXCEPT ![r].pc = "reply"]
    /\ UNCHANGED <<link, token, admin, gens, user, spent, lost, history>>

\* Codes, and the secret of an enrolment, are shown this once.
Reply(r) ==
    /\ op[r].pc = "reply"
    /\ shown' = shown \cup {op[r].gen}
    /\ held' = IF op[r].intent = "enroll" THEN held \cup {op[r].gen} ELSE held
    /\ End(r)
    /\ UNCHANGED <<link, token, row, admin, gens, sessions, history>>

-----------------------------------------------------------------------------
(* Verification. *)

\* VerifyTotp reads the secret, for /enroll/confirm and for /verify.
ReadSecret(r) ==
    /\ op[r].pc = "read" /\ secret # None
    /\ op' = [op EXCEPT ![r].pc = "answer", ![r].snap = secret.codes]
    /\ UNCHANGED <<link, token, row, admin, gens, user, history>>

\* The UPDATE writes the whole list back, and has no version test.
WriteBack(r, codes) ==
    /\ secret' = [secret EXCEPT !.codes = codes]
    /\ lost' = (lost \/ op[r].snap # secret.codes)

\* The user types the right code.
CommitTotp(r) ==
    /\ op[r].pc = "answer" /\ secret.id \in held
    /\ WriteBack(r, op[r].snap)
    /\ Go(r, "session")
    /\ UNCHANGED <<link, token, admin, gens, user, latest, spent, history>>

\* AdminTotpVerify asks after the verification whether this is an
\* administrator; it refuses anybody else and leaves the token.
RefuseNonAdmin(r) ==
    /\ op[r].pc = "answer" /\ op[r].intent = "challenge" /\ secret.id \in held
    /\ ~admin
    /\ WriteBack(r, op[r].snap)
    /\ End(r)
    /\ UNCHANGED <<link, token, admin, gens, user, latest, spent, history>>

\* Faulty variant of CommitBackupCode: the code stays in the list.
KeepBackupCode(r, c) ==
    /\ op[r].pc = "answer" /\ op[r].intent = "challenge"
    /\ c \in op[r].snap /\ c[1] \in shown
    /\ WriteBack(r, op[r].snap)
    /\ spent' = IF c[1] = latest THEN spent \cup {c} ELSE spent
    /\ Go(r, "session")
    /\ UNCHANGED <<link, token, admin, gens, user, latest, history>>

\* Only /verify accepts a backup code.
CommitBackupCode(r, c) ==
    /\ op[r].pc = "answer" /\ op[r].intent = "challenge"
    /\ c \in op[r].snap /\ c[1] \in shown
    /\ WriteBack(r, op[r].snap \ {c})
    /\ spent' = IF c[1] = latest THEN spent \cup {c} ELSE spent
    /\ Go(r, "session")
    /\ UNCHANGED <<link, token, admin, gens, user, latest, history>>

\* A wrong code, a locked user, a lost race for the user row, no secret yet;
\* TotpAlreadyEnrolled, or the INSERT that meets UNIQUE (user_id).
Refuse(r) ==
    /\ \/ op[r].pc \in {"read", "answer"}
       \/ op[r].pc \in {"enroll", "insert"} /\ secret # None
    /\ End(r)
    /\ UNCHANGED <<link, token, row, admin, gens, user, history>>

\* CreateSession, the next step of the route.
CreateSession(r) ==
    /\ op[r].pc = "session"
    /\ sessions' = TRUE
    /\ Use(r)
    /\ Go(r, "evict")
    /\ UNCHANGED <<link, token, row, admin, gens, held, shown, cut>>

\* Faulty variant of EvictToken: the key is not the token's.
EvictNothing(r) ==
    /\ op[r].pc = "evict"
    /\ End(r)
    /\ UNCHANGED <<link, token, row, admin, gens, user, history>>

EvictToken(r) ==
    /\ op[r].pc = "evict"
    /\ token' = [token EXCEPT ![op[r].x] = "gone"]
    /\ cut' = cut \ {op[r].x}
    /\ End(r)
    /\ UNCHANGED <<link, row, admin, gens, user, uses>>

TokenExpires(t) ==
    /\ token[t] \in {"enroll", "challenge"}
    /\ token' = [token EXCEPT ![t] = "gone"]
    /\ cut' = cut \ {t}
    /\ UNCHANGED <<link, row, admin, op, gens, user, uses>>

-----------------------------------------------------------------------------
(* Backup codes. *)

\* RegenerateBackupCodes, for a user with a session, reads the secret.
BeginRegenerate(r) ==
    /\ op[r].pc = "idle" /\ sessions /\ secret # None /\ gens < MaxGen
    /\ gens' = gens + 1
    /\ op' = [op EXCEPT ![r] = [NoOp EXCEPT !.pc = "regenerate", !.gen = gens + 1]]
    /\ UNCHANGED <<link, token, row, admin, user, history>>

CommitRegenerate(r) ==
    /\ op[r].pc = "regenerate"
    /\ secret' = [secret EXCEPT !.codes = Generation(op[r].gen)]
    /\ latest' = op[r].gen
    /\ spent' = {} /\ lost' = FALSE
    /\ op' = [op EXCEPT ![r].pc = "reply"]
    /\ UNCHANGED <<link, token, admin, gens, user, history>>

\* The process dies, the client goes away, or a store refuses the next step.
Die(r) ==
    /\ op[r].pc # "idle"
    /\ cut' = IF op[r].pc = "evict" THEN cut \cup {op[r].x} ELSE cut
    /\ End(r)
    /\ UNCHANGED <<link, token, row, admin, gens, user, uses>>

-----------------------------------------------------------------------------

Step(r) ==
    \/ \E l \in Links : BeginConsume(r, l)
    \/ \E t \in Tokens : MintToken(r, t) \/ Resolve(r, t)
    \/ \E c \in Gens \X Codes : CommitBackupCode(r, c)
    \/ CommitConsume(r) \/ BeginEnroll(r) \/ InsertSecret(r) \/ Reply(r)
    \/ ReadSecret(r) \/ CommitTotp(r) \/ RefuseNonAdmin(r) \/ Refuse(r) \/ CreateSession(r) \/ EvictToken(r)
    \/ BeginRegenerate(r) \/ CommitRegenerate(r) \/ Die(r)

Next ==
    \/ \E l \in Links : RequestMagicLink(l)
    \/ SeedAdmin
    \/ \E t \in Tokens : TokenExpires(t) \/ MintByPassword(t)
    \/ \E r \in Requests : Step(r)

Spec == Init /\ [][Next]_vars

-----------------------------------------------------------------------------
(* Properties. *)

TypeOK ==
    /\ link \in [Links -> {"none", "sent", "consumed"}]
    /\ token \in [Tokens -> {"none", "enroll", "challenge", "gone"}]
    /\ secret \in Secret \cup {None}
    /\ op \in [Requests -> Op]
    /\ gens \in 0..MaxGen /\ latest \in 0..MaxGen
    /\ held \subseteq Gens /\ shown \subseteq Gens
    /\ spent \subseteq Gens \X Codes
    /\ admin \in BOOLEAN /\ sessions \in BOOLEAN /\ lost \in BOOLEAN
    /\ uses \in [Links \cup Tokens -> Nat]
    /\ cut \subseteq Tokens

\* Of the requests that nobody else shared a link or a token with when they
\* began, at most one got a token, or a session, for it; a token whose request
\* died between its session and the eviction counts as shared.
UsedOnce == \A x \in Links \cup Tokens : uses[x] <= 1

\* The list holds exactly the codes made last and not accepted since, unless a
\* verification that had read an older list has written it back.
BackupCodesExact ==
    secret # None /\ ~lost => secret.codes = Generation(latest) \ spent

\* A secret that was shown to the user is the one stored, whichever enrolments
\* raced: the loser of the race shows nothing.
ShownSecretIsStored == \A g \in held : secret # None /\ secret.id = g
=============================================================================
