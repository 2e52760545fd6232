# VaultChain: TLA+ models, model checking and proofs

TLA+ modules for the backend of VaultChain (`src/backend/src/vaultchain`), the
browser client it serves and the scripts that keep its briefs, the TLC
configurations that check them on small instances, and TLAPS proofs of their
main properties for every value of the constants. Paths below are
relative to the repository, as `src/...`; `PROJECT.json` maps each definition
to the lines it models.

## 1. The system

At this commit four things in the repository have state and concurrency of
their own: the shared infrastructure (unit of work, transactional outbox, event
bus, idempotency middleware), the identity context (accounts, login, sessions,
admins), the browser in front of it (cookies, idempotency keys), and the brief
pipeline, in which pull requests and a merge job change the same files. The
other bounded contexts (custody, ledger, transactions, wallet, chains, kyc, ...)
are empty packages.

| Component | State | Operations | Talks to |
|---|---|---|---|
| Transactional outbox: `shared/infra/unit_of_work.py`, `outbox_publisher.py`, `event_bus.py`, `shared/events/`, `worker.py` | `domain_events` (published_at, attempts), `event_handler_log` (unique per event and handler), the open transaction of each tick | `add_event`, `commit`, `rollback`; `tick_once`: poll, reconstruct, claim, dispatch, mark, commit | every use case records events through the unit of work; the event bus calls handlers, each in its own unit of work |
| User account: `identity/domain/aggregates.py`, `application/verify_totp.py`, `admin_login.py`, `handlers.py`, `signup_verification_handler.py`, `infra/repositories.py` | one row of `identity.users`: status, version, two failure counters, `locked_until` | wrong or right TOTP code, wrong or right password, lock after failures (event handler), verify after signup link (event handler), heal after the window | the outbox delivers `TotpVerificationFailed` and `MagicLinkConsumed` |
| Sessions and token cache: `application/create_session.py`, `refresh_session.py`, `revoke_session.py`, `infra/tokens/redis_cache.py`, `dependencies/current_user.py` | `identity.sessions` rows; Redis keys `at:<token>` and `session:<id>` | create, refresh, revoke one, revoke all, authenticate; expiry | the database commit first, Redis afterwards, one command at a time |
| Login flow: magic links, pre-TOTP tokens, TOTP secrets, backup codes | `magic_links`, `totp_secrets`, Redis `pre_totp:` keys | request and consume a link, enrol, verify, spend or regenerate backup codes | ends in account changes and a new session |
| Idempotency middleware: `shared/delivery/idempotency.py`, `shared/infra/idempotency.py` | Redis entry per key: in flight, or completed with the answer | `claim`, `get`, `complete` around each mutating request | the web client supplies the keys |
| Web client: `web/src/lib/idempotency.ts`, `api-fetch.ts` | IndexedDB key per form | get or create a key, drop it on an answer, retry | the middleware |
| Cookies and authentication dependencies: `identity/infra/tokens/cookies.py`, `identity/delivery/dependencies/`, `identity/delivery/routes/auth.py`, the two `apiFetch` | the browser's cookie jar; what a page has read of it | set and clear cookies, attach them, check CSRF and access token; answers that come late or never | sessions behind the routes; the pages of both realms |
| Brief pipeline: `scripts/validate_frontmatter.py`, `gen_manifest.py`, `transition_brief_state.py`, `retrofit_frontmatter.py`, `.github/workflows/` | the briefs' frontmatter and `manifest.yaml` on `main`, in every branch and in every job's checkout | retrofit, transition, regenerate, validate, merge, mark merged, push | git: each works on a copy of `main` and gives it back |
| Cryptography, email, application shell, migrations, reports, rendering | none of their own, or wiring | | |

What makes each hard, and what makes it correct:

* **Outbox.** A tick is one database transaction, but every handler it calls
  commits its own. A worker that dies, a handler that fails half-way down the
  list or after its own commit, a second worker polling at the same instant, a row
  its class can no longer decode: in all of them nothing may be lost, and nothing
  repeated but what no claim remembers. Correct when an event is captured with its
  aggregate's change, is published only after each of its handlers has
  committed, is never looked at again after that, and every healthy event gets
  there.
* **Account.** Two requests and the outbox's handlers read the same row, decide
  in memory and write it back `WHERE version = ...`; the decision is stale by the
  time it is written. The clock is read more than once. Two lockouts (code and
  password) share `status` and `locked_until` and heal through different methods.
  Correct when the counters hold every failure that was committed, none is missed
  but by a race, status and window agree, a lock holds until its window is over,
  and the handlers, where they are registered, have their effect in the end.
* **Sessions.** Redis is changed after the commit, key by key, with no
  transaction around it; what `get_current_user` believes is the cache. Correct
  when the cache never runs ahead of the database, a revoked session stays
  revoked, and its tokens stop working, at once if nothing raced, and at the end
  of their time to live whatever happened.
* **Login flow.** Single-use things (links, backup codes, pre-TOTP tokens) are
  tested and spent in separate steps, mostly without a version test.
* **Idempotency.** A claim, the handler's own commit and the recording of the
  answer are three steps in two stores; the client decides from an HTTP status
  whether to keep its key.
* **Cookies.** Three cookies per realm are written by one answer, but answers of
  overlapping calls arrive in any order. A page reads the CSRF cookie, awaits its
  idempotency key, and only then do the cookies of that moment go out. Correct
  when the cookies of a realm stay those of one session, a logout hits the
  session its page was about, and only a race leaves a logged-in user with an
  access token that is no longer there or, if the page can read its CSRF cookie at
  all, refused.
* **Briefs.** Every actor reads `main`, computes and writes it back later; the merge
  job's commits are marked `[skip ci]`, so no check looks at them. Correct when
  `main` is complete and acyclic with a current manifest, and no stale branch or job
  undoes the state another commit gave a brief. The search for cycles has to be
  right on every graph, and to end.

`PROJECT.json` lists every hazard at the line where it bites and the property
that watches it, or why none does yet.

## 2. The modules

| Module | Role |
|---|---|
| `OutboxContract` | what the outbox promises: capture, deliver at least once to each required handler, retire |
| `Outbox` | units of work, the poll query and `tick_once`; implements `OutboxContract` |
| `Outbox_proofs` | three inductive invariants and eight theorems about `Outbox` |
| `AccountContract` | the account as if every attempt, lock and verification ran alone |
| `Account` | one `identity.users` row, two kinds of request and two event handlers; implements `AccountContract` |
| `Account_proofs` | the inductive invariant and seven theorems about `Account` |
| `SessionsContract` | what sessions promise, without versions, Redis commands or requests: a token is minted by a commit on an active session and published at most once |
| `Sessions` | session rows, the Redis cache, requests on both; implements `SessionsContract` |
| `Sessions_proofs` | two inductive invariants and seven theorems about `Sessions` |
| `LoginFlow` | magic links, pre-TOTP tokens, the TOTP secret and backup codes of one user |
| `LoginFlow_proofs` | the inductive invariant and four theorems about `LoginFlow` |
| `Browser` | one browser's cookies, its open calls and the dependencies that judge them; its server implements `SessionsContract` |
| `Browser_proofs` | two inductive invariants and six theorems about `Browser` |
| `IdempotencyContract` | what the middleware promises to whoever sends a request with a key |
| `Idempotency` | the middleware and its Redis entries, for any client; implements `IdempotencyContract` |
| `IdempotencyClient` | the web client's key store and `apiFetch`, on top of `Idempotency` |
| `Idempotency_proofs` | the inductive invariant and four theorems about the middleware, for any client |
| `IdempotencyClient_proofs` | the web client is such a client; the theorems end to end; a second inductive invariant and the bound on repeats |
| `BriefGraph` | `_detect_cycles`, call by call, on any graph |
| `Briefs` | the pipeline: pull requests, checks (with `BriefGraph`'s search), merge jobs |
| `Briefs_proofs` | the search is right; main stays valid |
| `MCOutbox`, `MCAccount`, `MCSessions`, `MCLoginFlow`, `MCBrowser`, `MCIdempotency`, `MCBriefs` | constants and symmetry for TLC |

`Account` and `Outbox` compose by contract and not by a product of their state:
`Account` assumes of event delivery what `Outbox` is shown to do. A dispatched event
is `taken`; if the handler raises it is pending again; if it succeeds it is either
published or, its claim having been lost, dispatched once more (`Done`). That is the
meaning of at-least-once in `PublishedOnlyAfterHandlers` and `RepeatsAreUnclaimed`.
And an event of known type without a handler (`Count` 0, `SkipRow`) is published at
once, which is `PublishUnheard`. In the same way `Browser` stands on `Sessions` and
`LoginFlow`: it takes the end of a login, a refresh or a logout as one commit and
one step of the cache, whose parts are `Sessions`'. What the two have in common is
`SessionsContract`, which both are shown to implement: neither the browser's shorter
server nor the command-by-command one does to rows and tokens what the contract does
not allow. `IdempotencyClient` and `Briefs` compose by state: they extend
`Idempotency` and `BriefGraph`, share their variables, and are proved to implement
`ServerSpec` and `GraphSpec`.

### Outbox

* `row[e]` follows an event from nothing (`none`) through the unit of work's
  buffer (`buffered`: `AddEvent`) into `domain_events` (`pending`: `CommitUow`)
  to `published_at IS NOT NULL` (`published`). `RollbackUow` is every way out
  of the unit of work without a commit.
* `tx[w]` is the transaction of a tick: the locked rows it has not reached
  (`todo`), the row in hand, the next handler, the claims it holds (`ran`) and
  its verdicts. None of these is visible to others before `CommitTick`, except
  the row locks (`Locked`), which `FOR UPDATE SKIP LOCKED` in `Eligible` skips.
* `BeginTick` is the candidate query: `Eligible`, `IsBatch` (ORDER BY, LIMIT)
  and `QueryEvaluates` (the POWER in its WHERE clause). `TakeRow`, `SkipRow`,
  `ShortCircuit`, `Claim`, `HandlerSucceeds`, `HandlerFails`, `FinishRow` and
  `CommitTick` are the body of the loop, in the order of the code. A handler that
  raises has done nothing that lasts (`RaisesBeforeCommit`) or has committed its
  own unit of work before (`RaisesAfterCommit`: something after the commit failed,
  or the answer to the commit was lost); `tick_once` deletes its claim either way
  and runs it again.
* `LoseTick` is a crash, a cancelled job or a lost connection at any point of
  a tick, also between a handler's commit and the tick's. `RaiseOnRow` is the
  uncaught exception of `_reconstruct_event`.
* Time is one bit per row, `due[e]`. Since backoff counts from `occurred_at`,
  a row that has just failed may be due at once; `CommitTick` chooses.
* `runs`, `wasted` (executions whose claim was rolled back or deleted) and `lost`
  are history, read by no action except as bounds.

### Account

* `user` is the committed row. `req[r]` is a request between its SELECT and
  its UPDATE: `base`, the version it read; `snap`, the aggregate in memory,
  already healed if its window had elapsed; `healed`, whether that heal has to
  be written. `dlv[d]` is the same for an execution of a handler.
* The aggregate's methods are operators on rows, `Fresh` is the version test,
  and each writer has a `Begin`, a commit and, for handlers, a `Stale` action.
  A request whose UPDATE misses rolls back and is not retried: if what it brought
  was a wrong code or password, nobody counts it (`MissFailure`; every other end
  without a commit is `AbandonRequest`). The lockout handler re-reads up to
  `MaxRetries` times and then raises; the signup handler raises at once.
* `registered` says whether the worker's bus knows the two handlers. The code of
  the worker registers none, the tests register both, so that both are initial
  states. Where they are not, `PublishUnheard` is all that happens to an event.
* `BeginVerify` reads the clock twice, as the code does: a window that ends
  between the two reads is neither refused nor healed.
* `login` is how far the client has got: a live link, or a live pre-TOTP token.
  `RequestMagicLink` looks at `status` and not at the window.
* `wrongCodes`, `wrongPasswords` and `uncounted` are history: the failures committed
  since the last reset, and those whose UPDATE missed.
* `AccountContract` has neither versions, snapshots nor retries: its four
  attempts and its two answers to events read and write the row at once, and where
  nobody listens (`heard`) an event is dropped. `Account`
  implements it (`ImplementsContract`), a commit as the attempt it belongs to, a
  read, a stale UPDATE or a crash as nothing. An event an execution has taken is
  still an open alarm (`Alarms`), so that a retry does not answer it twice and an
  execution that gives up does not lose it.

### Sessions

* `row[s]` is the session's row; `hash` is the number of the refresh token whose
  hash is stored. `Updated` writes the columns that the repository's UPDATE
  writes, and no other.
* `live` is the set of `at:` keys, `index` the `session:` keys. `op[r]` walks
  through the commit and then one Redis command per step: `EvictGet`, `EvictDel`,
  `EvictUnindex`, `CacheSet`, `CacheIndex`.
* `Crash` cuts a request off anywhere: nothing repeats the rest.
* `raced` records the sessions whose cache two requests changed at once, or
  whose change was cut short: for those the code promises less.
* `Contract` maps this to `SessionsContract`: a token is *owed* from the commit
  that mints it until `CacheSet` (`Owes`), and *usable* while its `at:` key is there.
  `CreateSession`, `CommitRefresh` and `CommitRevoke` are `Create`, `Refresh` and
  `Revoke`, `CacheSet` is `Publish`, evictions, crashes and expiries are `Fade`, and
  the rest are stutters. The contract lets a token that is owed when its session is
  revoked be published afterwards, because the code does (finding 4).

### Idempotency and IdempotencyClient

* `entry[k]` is the Redis value of a key: none, `in_flight`, or `done` with its
  answer. `req[r]` is a request inside the middleware: it waits for `claim`, for
  `lookup`, for its handler, for `complete`. Each Redis command is a step, which
  may fail, and a write may have taken effect although it failed
  (`ClaimUnavailable`, `Complete`).
* A key stands for what `_build_cache_key` makes: actor, path and `Idempotency-Key`.
  The actor is always the client's address (section 4). A body stands for its hash.
  An answer is what tells answers apart: whose handler produced it, and whether it
  is a 5xx (`"final"` is every 2xx and 4xx, the client's test).
* `LookupFails` and `ClaimUnavailable` lead to `RunOpen`: the middleware fails
  open. `Complete` overwrites whatever the entry holds by now. A worker that dies
  needs no action: nothing obliges a request to take its next step, so that each
  prefix of it is a behaviour; its claim stays until `Expire`.
* `ServerSpec` lets requests come with any key and body. `IdempotencyClient`
  extends the module and restricts them to what a browser sends: `store[s]` is
  the IndexedDB record that a body's hash (`digest`) selects, `call[r]` a call
  of `apiFetch`. `SubmitFresh` and `SaveKey` are separate because the code
  awaits between reading and writing; `Evict` deletes whatever key is there. A
  fetch that rejects and a tab that is closed are calls that take no further step.
  `Send` chooses the address the request comes from, and the middleware's key is
  the client's UUID with that address (`CacheKey`): a retry from another network
  meets an entry of its own.
* `IdempotencyContract` has neither Redis nor the places a request can be in. A
  request is executed at most once, under protection only when its key is free,
  and is answered by its own execution, by an earlier one of the same key and
  body, or refused and then never executed. `Idempotency` implements it
  (`ImplementsContract`): `taken` is the keys that have an entry; `ClaimTaken` is
  nothing to it.
* `expired`, `overwritten` and the fields `ran`, `result`, `evicted` are history.

### LoginFlow

* `link`, `token`, `secret` are the stored things; `op[r]` is a request that has
  read one of them and not yet written. `BeginConsume` tests `consumed_at`,
  `CommitConsume` sets it with no guard and decides the intent, `MintToken`
  writes the token. `Resolve` only reads a token. `BeginEnroll` and
  `InsertSecret` are the SELECT and the INSERT of an enrolment; `ReadSecret` and
  `CommitTotp` or `CommitBackupCode` a verification; then `CreateSession` and,
  last, `EvictToken`. A link's expiry is `BeginConsume` not being taken any more.
* `SeedAdmin` and `MintByPassword` are an administrator's way in; from there the
  steps are those of `/verify`. `RefuseNonAdmin` is the admin route used by
  anybody else: refused only after the verification was committed.
* `WriteBack` is the UPDATE of `totp_secrets`: the whole list of codes from the
  snapshot, without a version test, also after a TOTP code. `lost` remembers that
  such a write put an outdated list back, until codes are regenerated.
* A right TOTP code needs a secret whose reply reached the user (`held`), a
  backup code one of a generation that did (`shown`).
* `Refuse` is every way a request ends without having changed anything here:
  wrong code, locked user, a lost race for the user row (`Account` has those),
  `TotpAlreadyEnrolled`, the second INSERT meeting `UNIQUE (user_id)`.
* `alone`, `uses` and `cut` are history: which request had its link or token to
  itself when it began.

### Browser

* `jar[k]` is the cookie *k* of the two `CookieConfig`s. A token `<<s, n>>` stands
  for the *n*-th access, refresh and CSRF token of session *s*, which are minted
  together; a cookie therefore says of which answer it is. `row`, `access` and
  `index` are the session's row and the two kinds of Redis keys.
* `call[c]` is an open call: `ready` when the page has read the cookies
  (`Prepare`: `apiFetch` before the key is there), `sent` with the cookies of a
  later moment (`Send`). `Attached` is the cookies' paths, `Used` what the route
  and its dependencies look at; the rest is not kept.
* `CsrfGuard`, `GetCurrentUser` and `GetCurrentAdmin` are the dependencies, by
  their names. `Login`, `Refresh`, `BeginLogout` and `CommitLogout` are the routes
  up to the commit, `Publish` the cache's part after it.
* `Deliver` is the answer's `Set-Cookie`, in any order among the open calls.
  `Lose` is a process that dies before or amid the cache's part, an answer that is
  lost, or one replayed from the idempotency store, which keeps no header.
* `muddled` is history: sessions refreshed while the answer of an earlier refresh
  was under way, or an answer of which was lost.
* `readable` is the realms whose pages can read their CSRF cookie: the user's, if
  page and API share a host as in development, or none, with the hosts of
  `src/Caddyfile:9,24,38` (the cookies name no domain, `cookies.py:126-134`). An
  administrator's never is, since its path hides it. Where it is not, `Prepare`
  sends no header and the guard refuses every call; there `ActsForItsPage` holds
  because no logout gets that far, and `CsrfRefusalsHaveReasons` counts it as a
  reason.
* `Contract` maps the server to `SessionsContract`: a login or refresh owes its
  token between the commit and `Publish`; `Lose` and `TokenExpires` are `Fade`, the
  page, the guards and the answers are stutters.

### BriefGraph and Briefs

* `color`, `path` and `cycle` are the variables of `_detect_cycles`; `rest[b]` is
  what the loop of `visit(b)` has still to look at. One step is one call, one
  return or one iteration without a call. The order of the loops is left open.
* A tree of files is a record of the briefs' frontmatter and of `manifest.yaml`;
  the scripts (`retrofit`, `transition`, `write_outputs`, `run_check`) are functions
  of a tree.
* `Propose` cuts a branch for a brief and leaves in it the retrofit, or the brief
  with any state of `Written` and any dependencies of `DependsOn` (`Edits`): the
  skills and people set states by hand, and no check looks at transitions; only the
  script refuses one (`MayBecome`). A branch remembers which states and
  dependencies it writes. `Open` starts the checks, `EndChecks` is stage 1 of the
  CI.
* `Merge` needs green checks on a branch that is up to date, which is the rule of
  `src/BOOTSTRAP-RUNBOOK.md:57`. A branch that is behind is brought up to date,
  keeping what it wrote (`Update`, `Rebased`), or closed and perhaps cut again
  (`Close`).
* `MarkMerged` and `Push` are a run of the merge job, with the time between
  checkout and push in between. `Push` may be refused although main has not moved:
  `src/docs/progress/phase1-log.md:5-14` records the branch protection doing so,
  and the fix-up pull requests that followed, which are `Propose` with the state
  written by hand.
* `Next` lets the checks of a pull request end before anything else happens: they
  read a checkout nobody else writes. This loses no behaviour that a property
  could tell apart.

## 3. Runs

Each run asks one question of the system.

| Run | Question | Instance | Result |
|---|---|---|---|
| `outbox_safety` | Is each event delivered at least once, repeated only where a claim was lost, is `OutboxContract` implemented, and does every committed event that no undecodable one blocks get published in the end? | 2 workers, 4 events of the kinds that matter, 2 handlers, batch 2 | holds |
| `outbox_overflow` | Does it still when a row's attempts reach the exponent where POWER overflows? | `PowerLimit` = `MaxFailures` = 2 | violated |
| `outbox_incompatible` | Does it when an older row's payload does not fit its class? | 2 events, the older incompatible | violated |
| `account` | Do counters and lock survive any race, how many failures go uncounted, is the account as if every request and handler ran alone, and do lock and verification happen in the end where the handlers are registered? | 2 requests, 1 handler execution, thresholds 2 | holds |
| `account_selfheal` | Does a persistent client get out of an elapsed lock? | 1 request, 1 handler execution | violated |
| `account_unwired` | Is the account of a consumed signup link verified by the worker as it is started? | 1 request, 1 handler execution | violated |
| `sessions_safety` | Is `SessionsContract` implemented (no token published that no commit minted, none twice, no revoked session revived), is a revocation that nothing raced complete, is logout-everywhere all or nothing, and do a revoked session's tokens stop working for good? | 2 sessions, 2 requests, a crash | holds |
| `sessions_advertised` | Is a refreshed token never left for a revoked session? | 1 session, 2 requests, no crash | violated |
| `idempotency` | Is `IdempotencyContract` implemented, and does a handler run again, or an answer differ, only for the reasons the code has, end to end? | 3 calls, 2 keys, 2 addresses, 2 bodies in one record | holds |
| `login` | Is what is for one use used once, as long as no two requests share it, do the stored codes match what the user was shown until an outdated list is written back, and does the secret always? | 2 requests, 2 links, 2 tokens, 2 generations of one code | holds |
| `browser` | Does the server keep `SessionsContract`, do the cookies of a realm stay together, does a logout hit what its page showed, is a user stranded only by a race, and refused by the CSRF guard only by one or for want of a readable cookie? | a user's session (3 tokens), an administrator's, 2 open calls | holds |
| `briefs` | Does the search for cycles end with the right verdict, and does main stay valid, its manifest current and every state as its own branch or job left it? | 3 briefs, 2 pull requests, 2 jobs, 2 commits when the last branch is cut | holds |

**Bounds, and why they are enough.**

* `BatchLimit` (100 in the code) is 2 with four rows: a tick that takes part of
  the backlog, and rows older and younger than a held one.
* `PowerLimit` (1024, the exponent at which doubles overflow with factor 2) is
  above `MaxFailures` where the overflow is not the question, equal to it where
  it is. Nothing depends on its size: no cap on attempts is reached before it.
* `MaxFailures` 1 or 2, `MaxLost` 1: a retry after a failure, after a lost tick and
  after one of each, and one after a handler that raised when it had committed. The
  theorems hold for all values of these bounds.
* `TotpThreshold` and `PwThreshold` (5 in the code) are 2: one failure below,
  at and above the threshold. `MaxRetries` (3) is 2: a retry that succeeds and
  one that is the last.
* `MaxVersion` bounds the row's version and with it the number of commits. With
  4, a lock, a heal and a failure after it fit. It stops new requests and
  the passing of a window, never a step of one already begun. In
  `account_selfheal` it is 20 and in `account_unwired` 3, beyond what the
  counterexamples need.
* `MaxMint`, `MaxCrashes`: a refresh after a creation, with a crash anywhere.
  Two requests suffice for the races of interest: all of them are pairs.
* `idempotency`: three calls are a first attempt, a retry and a competitor, and
  each may be any of them. Both bodies fall into one record, so a key meets its
  own body, the other one, and a second key after an eviction. `MaxExpiries` 1
  is one expiry in all, which lets a late `complete` meet the entry of a second
  claim; two addresses, so that a retry may come from where the first attempt did or
  not. 953,578 states, which leaves no room for a second expiry; the theorems hold
  for any number.
* `login`: two links and two tokens give one of each intent. `MaxGen` 2 is either
  two enrolments that race or an enrolment and a regeneration; one code per
  generation can be spent, put back by an outdated write, and replaced.
* `browser`: two calls are a page and its competitor, which may be a login, a
  refresh or a logout of either realm; all the races of interest are pairs.
  `MaxMint` 3 for the user's session gives a login and two refreshes, the second of
  which can start before the first is answered; an administrator is never
  refreshed. Both kinds of hosts are initial states. 907,384 states.
* `briefs`: two of the three briefs are one edit of `depends_on` away from half a
  cycle, so that two pull requests can each add a half; the third depends on both,
  so that one of these edits makes a diamond. One has a state, another an id that
  `retrofit_frontmatter.py` does not take as they are. `Written` is a state to go
  back to and `merged`: a branch can reopen a brief, and a stale branch or job could
  undo either. `MaxRev` 2 allows the retrofit, a merge, its job, a competing branch
  brought up to date and a second job. 973,116 states; what the search does on
  larger graphs is proved, not enumerated.
* Symmetry is used where only safety is checked: requests, keys, addresses and
  bodies of `idempotency`, requests, links, tokens and codes of `login`, calls of
  `browser`.
* Deadlock is checked in `browser`, where there is always a step left. In the other
  runs it is not: once every event is published, every request is over or the
  bounds are reached, the models come to rest, as the system does.

**Fairness, and why the code justifies it.**

* `Outbox`: arq fires `tick_once` every second, so a worker that can step does
  (`WF` per worker); windows elapse. Producers owe nothing: they may buffer an
  event for ever or roll back. Handlers may fail, and ticks be lost, up to the
  bounds, which is to say finitely often.
* `Account`: the worker keeps taking both kinds of rows, which is what
  `PublishedUnlessBlocked` shows in `outbox_safety`; whether that runs a handler
  depends on `registered`. `ThresholdLeadsToLock` and `SignupVerifiesIfHeard` speak
  of a worker that registered them, as the tests do; of the one `worker.py` starts
  they say nothing, and `account_unwired` says what becomes of it. Nothing is
  assumed about clients, except in `PersistentSpec`, where a client keeps trying
  (strong fairness on each of its steps) and still fails. The bound on versions
  means that requests are not for ever overtaking the handler; with endless
  conflicts it would be retried for ever.
* `Sessions`: requests run to their end unless they crash; keys expire.
* `Briefs`: a validation that has begun goes on (`WF` on `Validation`); it is one
  process that waits for nothing. Nobody owes a pull request or a merge.

**Mutants.** The modules hold faulty variants of some actions and operators
(each says so in its comment): a dropped `SKIP LOCKED`, an UPDATE without the
version, an off-by-one at the threshold. No specification uses them. Put in the
place of the original, each makes a property of a passing run fail;
`PROJECT.json` lists which.

## 4. What the runs found

Five places where the code does not do what its docs or comments say.

1. `outbox_overflow` (`outbox_publisher.py:65`): after enough failures of one
   event the poll query itself errors, for every row. There is no cap on
   attempts and no dead-letter state.
2. `outbox_incompatible` (`outbox_publisher.py:82`): a payload its class refuses
   raises out of the tick; the brief's no-op for what a version does not
   understand covers unknown types only. The tick rolls back without counting
   an attempt and meets the row again a second later.
3. `account_selfheal` (`request_magic_link.py:108`): the heal sits behind a token
   that a locked user cannot get.
4. `sessions_advertised` (`refresh_session.py:84`): the cache is written after
   the commit, but not atomically with it; a revocation fits in between.
5. `account_unwired` (`worker.py:56`): the worker's event bus has no subscription,
   neither the lockout handler nor the one that verifies an account after its signup
   link. Their events are published with nothing done, and no retry is left.

Seen while reading, without a run:

* `signup_verification_handler.py:12-13` speaks of at-most-once; the outbox
  gives at least once, and the handler is safe under that.
* `src/docker-compose-prod.yml:99` names a module path for the worker that is not
  `worker.py`'s.
* The UPDATE of `repositories.py:187` does not contain the new refresh-token hash
  (`Updated` in `Sessions`): a refresh hands out a token that the next refresh refuses
  and leaves the old one valid, against `refresh_session.py:3-5` and
  `src/phase1-briefs/phase1-identity-004.md:54,96`.
* Of wrong codes tried in parallel only one may count: the others' UPDATEs miss, and
  `StaleAggregate` answers 409, while `src/phase1-briefs/phase1-identity-003.md:54`
  has each attempt counted and answered by a result. `CountersExact` says how many can
  go uncounted.
* A password heal leaves `failed_totp_attempts` as it is, so an administrator
  can come out of a lock with the code counter at its threshold; `LockConsistent`
  allows it, and the next wrong code's event locks again.
* `RefreshSession` does not look at the user's lock and does not carry an
  administrator's scopes over.
* `RevokeAllSessions` and `User.lock` have no caller outside tests. The first is
  modelled, the second is not.
* Old backup codes do not always become invalid with new ones
  (`src/phase1-briefs/phase1-identity-003.md:58`), nor is a code always for one
  use (line 57 there): a verification that read the list before writes it back
  after (`verify_totp.py:117,139`, `repositories.py:308`). `BackupCodesExact` says
  what is left of the promise. For the same reason `totp.py:104-106`, "a replay
  can't mint a second session", holds only for requests that do not overlap and
  are not cut off before the eviction (`UsedOnce`).
* An enrolment whose answer is lost leaves a secret nobody knows; every later one
  is refused.
* `api-fetch.ts:173` drops its key on the 409 that invites a retry
  (`idempotency.py:291-301`), so the retry executes again under a new key;
  `RepeatsAreExcused` counts it. A 500, for which the browser keeps its key, is
  stored for 24 hours and replayed to every retry.
* `main.py:100-102` describes the middlewares in the order in which they are
  added; the last one added is the outermost. `_build_cache_key` looks the user
  up in a way that never finds one and falls back to the client's address
  (`idempotency.py:127-139`), so that a retry from another network executes again.
* `CsrfGuard` compares the header with the cookie `csrf`
  (`dependencies/csrf.py:44`), also for an administrator, whose cookie is
  `admin_csrf`: an administrator's logout is always answered 403, and the SPA
  swallows that (`AdminShellAuthed.tsx:43`). `test_admin_auth.py:3` says that it
  walks the logout, `src/phase1-briefs/phase1-admin-002b.md:106` that the header
  carries `admin_csrf`. In the model `BeginLogout` is never reached by an
  administrator.
* `admin_csrf` has the path `/admin/api/v1/`, where `document.cookie` of the SPA's
  pages does not see it; the cookies name no domain (`cookies.py:126-134`), so that
  in production, with the API on a host of its own (`src/Caddyfile:9,24,38`), no page
  sees a CSRF cookie at all and every call the guard guards is refused.
* No route answers at `admin_rt`'s path, and `hasAdminPreTotpCookie`
  (`apps/admin/src/auth/csrf.ts:22`) looks for an httpOnly cookie and is always
  false. `apiFetch.ts:67` there sends `X-Idempotency-Key`, which the middleware
  does not read.
* A login answer replayed by the middleware has no `Set-Cookie`
  (`shared/delivery/idempotency.py:34`): the client is told it is logged in and has
  no cookies. The web SPA calls neither refresh nor logout yet.
* `src/docs/superpowers/specs/2026-04-27-sdd-infrastructure-design.md:201` and
  `src/docs/briefs/phase_pointer.yaml:7` say that `gen_manifest.py` derives
  `phase_state: complete`; it copies the pointer. The same document lets every
  state become blocked; `transition_brief_state.py` refuses it for a merged brief.
* `gen_manifest.py --check` does not look at `dependency-graph.mmd`, and
  `retrofit_frontmatter.py:172` drops dependencies whose id ends in a letter, which
  the schema allows.
* `manifest-on-merge.yml` pushes without a rebase or a concurrency group: of two
  jobs at once the second fails and its brief stays in review. That main stays
  valid rests on branches having to be up to date, which only
  `src/BOOTSTRAP-RUNBOOK.md:57` says; `src/docs/progress/phase1-log.md:7,11` records
  merges that did not wait for stages 2 to 4 of the CI, though not for stage 1, which
  runs the two checks of this pipeline. The same log has every push of that job
  refused by the branch protection, and repaired by pull requests.
* The transitions of `transition_brief_state.py` are not what CI checks
  (`validate_frontmatter.py:67-107`), and people set states by hand
  (`src/docs/superpowers/specs/2026-04-27-sdd-infrastructure-design.md:193,241,294,320`):
  a pull request can reopen a merged brief. `NoStateUndone` says that nothing less
  does.

## 5. Proofs

TLAPS proves the following for every set of events, handlers, workers, requests,
every threshold and bound, under the `ASSUME`s of the module concerned (types of the
constants; no handler subscribed twice to one event type, which
`OutboxEventBus.subscribe` sees to; thresholds positive; `None` different from what
it stands in for; finitely many briefs, requests on an account and handler
executions). Each module of proofs has an inductive invariant, a lemma for every
action that says it is kept, and the theorems at its end.

* **`Outbox_proofs`.** `TypeOK` and `RowsHeldOnce` are not inductive. `IInv` is the
  conjunction of: types; every locked row is `pending` and held by one tick, in one
  of its roles; a tick that is past handler *i* of its row has seen it committed, by
  itself or in the log; every logged pair was executed; a published row has had all
  its executions. From it: `TypeCorrect`, `HeldOnce`, `AtLeastOnce`, the action
  property `PublishedForGood`, and `Implements`, which maps each step of `Outbox` to
  a step of `OutboxContract` or a stutter (`CommitTick` to `Retire`, `CommitUow` to
  `Capture`, `HandlerSucceeds` and a raise after the handler's commit to `Deliver`, or
  to a stutter when it is a repeat).
  For the bound on repeats, `RInv` adds to `IInv` that a claim a tick holds is not
  in the log nor held by another tick (`ClaimsAreNew`) and that the executions of a
  pair are exactly its wasted ones, plus one if it is logged or held (`Accounted`).
  `RepeatsBounded` follows: a handler that raises after its commit adds to both
  sides. `TickEnds` is the half of `PublishedUnlessBlocked` that needs no fairness:
  with `TInv`, `IInv` and that a tick holds no more rows than a batch and is at a
  handler of its row's list (`BatchBounded`, `NextInRange`), each step of a tick
  leaves fewer rows to reach or less to do for the row in hand (`TicksShrink`), and
  one of its steps is possible until it is over (`TicksGoOn`).
* **`Account_proofs`.** `AInv` is `TypeOK`, `LockConsistent`, the two counters
  (`FailuresExact`) and `UncountedBounded` with `Snapshots`: a request or handler
  execution whose version test would succeed holds the row as it is now, its heal
  applied. That is the argument for optimistic locking: the version only grows, and
  each write changes it, so a matching version means an unchanged row. A write
  leaves at most every request in flight with an outdated snapshot, and each
  uncounted failure is one of those (`UncountedBounded`). The one change without a
  version is the window's end, and `Snapshots` allows for it. From it:
  `TypeCorrect`, `CountersAreExact`, `LockIsConsistent` and the action properties
  `LockHolds` and `VerifiedForGood`. `AccountIsSerial` is the refinement of
  `AccountContract`: by `Snapshots` a commit writes what the attempt would write on
  the row as it is; the number of open alarms is followed through every move of an
  execution (`AlarmsAfter`); an event published unheard is the contract's `Drop`;
  and a signup link is marked as handled only once the account is verified
  (`SignupHeld`), so that a late commit still finds it due.
* **`Sessions_proofs`.** `SInv` says what a request in flight has in hand
  (`ShapeOf`), that a session whose row still has the version the request read is
  still active (`KnownOf`: hence `RevocationIsFinal` and `RevokesAllOrNothing`), and
  `EvictingOf`: a session whose cache nobody disturbed is either at rest, with at
  most the indexed token live and none if it is revoked, or in the hands of exactly
  one request, whose place in the eviction says what is still there (`Progress`).
  The last step of that request leaves the session at rest, which is
  `RevocationEvicts`. `CacheNeverAhead` is a conjunct.
  `SessionsImplement` is the refinement of `SessionsContract`, action by action. It
  takes one invariant more, that no token is in the hands of two requests
  (`OneOwner`): otherwise a publication would leave the token owed. `RevocationDrains`
  is the half of `RevocationTakesEffect` that needs no fairness: once a session is
  revoked it is owed no new token, one that becomes usable is owed no more
  (`Drains`, from the contract alone), and a request that owes one comes with each
  of its steps nearer to the publication (`PublishersAdvance`).
* **`LoginFlow_proofs`.** `LInv` has, for each link and token, at most one request
  that was alone with it (`AloneOnce`) and `UsesExact`: it was used by such a
  request never, or once, and is then `Exhausted`: consumed, or gone, or about to be
  evicted by that very request, or cut off before it was. A use needs what is
  exhausted to be there, so that there is no second one (`UnsharedAreUsedOnce`). Of
  requests that shared a link or a token nothing is claimed. `BackupCodesExact`,
  which holds until an outdated list is written back (`lost`), and
  `ShownSecretIsStored` are conjuncts, with the shape of the requests in between.
* **`Browser_proofs`.** `BInv` follows a token from the answer into the jar, from
  the jar into a call and from the call to the route. What a page read and what its
  call carried are each of one session of one realm (`ShapeOf`, from
  `OneSessionPerRealm`), so that the guard's comparison of two CSRF tokens decides
  about the access tokens too (`LogoutIsThePages`, and `CsrfRefusals` for pages that
  can read their cookie: theirs is the user's realm, `readable` never changes).
  Until a login is answered nobody else has a token of its session (`LoginAlone`);
  at most one refresh of a session that is not `muddled` is open (`OneOpen`); and so
  what an answer brings has not been evicted (`AnswerGood`), which with the jar's
  own state is `StrandedByRace`. `BrowserImplements` is the refinement of
  `SessionsContract`, with `OneOwner` as in `Sessions_proofs`: what a call comes to
  owe was not minted before. The second of two logouts of a session changes nothing
  there.
* **`Idempotency_proofs`.** `IInv` is `TypeOK` with `Phases` (a request that has
  not decided has run nothing, one that is not replied has no answer), `Stored`
  and `Answered` (what an entry or a reply says was *given* by a claimant with
  that key, body and result) and `Counted`: the claimants of a key number at most
  its expiries, plus one if it has an entry now. That last sum is why racing
  requests, deaths and late `complete`s do no harm: only a claim adds a claimant,
  it needs a key without an entry and leaves one, and an entry goes only by an
  expiry. From it: `HandlersRunOncePerClaim`, `AnswersComeFromTheirHandlers` and,
  since one key without expiries has at most one claimant, `OneHandlerAnswers`.
  `MiddlewareImplements` is the refinement of the contract, action by action: by
  `Stored` a replayed answer is that of an execution for the same key and body. It
  takes one invariant more, that a request has no key before it is sent and no
  outcome before its handler is over (`Undecided`).
  Assumed of `Requests`: it is finite, so that claimants can be counted.
* **`IdempotencyClient_proofs`.** `CInv` adds the client's types and that a call
  which has begun has a key and a body (`Began`), so that what it sends is a
  `Receive`. `ClientIsAClient` says that `Spec` implements `ServerSpec`, and
  `EndToEnd` and `EndToEndContract` carry the theorems over. `RepeatsHaveReasons`
  takes two counts. A handler that ran failed open or claimed, and the claimants of
  the keys sent from a record can be numbered, one to one, by key and number of
  expiries (`Counted`), so there are at most as many as keys sent and expiries of
  them. And of the UUIDs of those keys (a further address is an excuse of its own)
  all but the recorded one were replaced in the record by a racing call or dropped
  from it on an answer that was final (`KeysCounted`, which counts keys about to be
  sent as well, and `Dropped`). `EInv` adds to `CInv` what this takes: a call that
  has not been sent has no request (`Unsent`), an answer that arrived is an answer
  (`Replied`).
* **`Briefs_proofs`.** First the search, for every graph: the gray briefs are the
  path and the path is a walk; what the loops on the path have taken is black or is
  the next brief of the path; and the black briefs depend on black briefs only and
  hold no cycle (`SearchInv`). So a gray brief met again closes a cycle, and when
  all are black there is none (`SearchIsRight`; the two verdicts exclude each other,
  `CycleMeansCyclic`). `SearchEnds` is the part of `ValidationEnds` that needs no
  fairness: the briefs to enter, the dependencies to take and the briefs to leave
  grow never and one of them shrinks with each step (`WorkLeft`), and there is a
  step until the end (`CanGoOn`). Then the pipeline: a checkout that may become main
  is valid with a current manifest (`GreenIsGood`, `PushIsGood`) and, if main has
  not moved since it was made, differs from it in the states its branch writes
  (`BranchWrites`, of a branch brought up to date by `RebasedOfTree`) or in one
  brief that goes from review to merged (`JobMarks`). `Merge` and `Push` demand just
  that of main; the search's verdict is what makes a green pull request valid, and a
  job changes no dependency. From it: `BriefsTypeCorrect`, `MainStaysValid`,
  `ManifestStaysCurrent`, `StatesAreNotUndone` and `SearchRefined`, that a
  validation is a run of the search.

Only model-checked: the liveness properties (`PublishedUnlessBlocked`,
`ThresholdLeadsToLock`, `SignupVerifiesIfHeard`, `RevocationTakesEffect`,
`ValidationEnds`), since fairness and ENABLED are beyond the prover.

## 6. What is not modelled

* Cryptography, token generation, TOTP arithmetic: a code is right or wrong, a
  token is fresh.
* Email: an email that is not delivered is a link nobody uses (`LoginExpires`,
  and in `LoginFlow` a link that is never consumed).
* The error envelope, request ids and composition: wiring and formatting without
  state.
* Scripts that only report or generate from what is there (phase summaries,
  coverage, error and API references); of the manifest, titles, counts and the
  mermaid graph, which nothing reads back.
* Front-end rendering and navigation; migrations and deployment, whose
  constraints (unique log rows, `version` columns) are in the actions.
* Contexts that are empty at this commit.
* In `Account`, links, tokens, TOTP secrets and backup codes are reduced to one
  login at a time; their own races are in `LoginFlow`, which in turn leaves the
  counter and the lock to `Account` and the life of a session to `Sessions`.
* The scopes and audit events of an administrator's session, and requests
  without an `Idempotency-Key`.

## 7. Plan

Done: all modules of section 2, with their runs, and the proofs of section 5.
What is left:

1. **A credential for one use** as the abstract specification of `LoginFlow`, the
   last component without one.
2. **The halves of `ThresholdLeadsToLock` and `SignupVerifiesIfHeard` that need no
   fairness**, as `TickEnds`, `SearchEnds` and `RevocationDrains` have them: a measure
   that each step of a handler's execution brings down.
3. **Scopes** in `Sessions`: an administrator's tokens, the dependency that reads
   them, and the refresh that does not carry them over.
