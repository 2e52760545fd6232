------------------------------ MODULE Sessions ------------------------------
(***************************************************************************)
(* The sessions of one user: rows of identity.sessions, each written by    *)
(* UPDATE ... WHERE version = the version read, and the Redis access-token *)
(* cache, which CreateSession, RefreshSession, RevokeSession and           *)
(* RevokeAllSessions change after their database commit, one Redis command *)
(* at a time.  get_current_user looks only at the cache, so a token in it  *)
(* is a usable token.                                                      *)
(*                                                                         *)
(* The n-th access token and the n-th refresh token of a session are       *)
(* minted together and both called n.                                      *)
(***************************************************************************)
EXTENDS Naturals, FiniteSets

CONSTANTS
    Sessions,       \* session ids
    Requests,       \* HTTP requests that can be in flight together
    None,           \* no token, no session
    MaxMint,        \* bound: MaxMint[s] tokens are minted for session s
    MaxCrashes      \* bound: requests that die half-way

ASSUME SessionsAssumption == None \notin Sessions /\ None \notin Nat
ASSUME BoundsAssumption   == MaxMint \in [Sessions -> Nat] /\ MaxCrashes \in Nat

VARIABLES
    row,        \* row[s]: the committed row
    minted,     \* minted[s]: tokens minted for s
    live,       \* keys at:<token> present in Redis, as <<session, token>>
    index,      \* index[s]: value of the key session:<s>
    op,         \* op[r]: what request r is doing
    crashes,    \* requests lost half-way
    raced       \* history: sessions whose cache two requests changed at once,
                \* or whose change was cut short

vars == <<row, minted, live, index, op, crashes, raced>>

Tokens == Sessions \X Nat

(* pc: "authed" has passed get_current_user; "refresh" and "revoke" have    *)
(* read rows and will write them; "get", "del", "unindex" are the three     *)
(* commands of evict_by_session, and "set", "index" the two of cache.set.   *)
(* s: the session in hand; rest: the ones RevokeAllSessions has yet to do;  *)
(* base: versions as read; seen: the token the index named; mint: the token *)
(* to publish afterwards, None for a revocation.                            *)
WritePcs == {"refresh", "revoke"}
CachePcs == {"get", "del", "unindex", "set", "index"}
Op == [pc : {"idle", "authed"} \cup WritePcs \cup CachePcs,
       s : Sessions \cup {None}, rest : SUBSET Sessions, base : [Sessions -> Nat],
       seen : Nat \cup {None}, mint : Nat \cup {None}]

NoOp == [pc |-> "idle", s |-> None, rest |-> {}, base |-> [s \in Sessions |-> 0],
         seen |-> None, mint |-> None]

Versions(S) == [s \in Sessions |-> IF s \in S THEN row[s].version ELSE 0]
Targets(r) == op[r].rest \cup ({op[r].s} \ {None})
Active(s)  == row[s].state = "active" /\ ~row[s].expired

Init ==
    /\ row = [s \in Sessions |-> [state |-> "none", expired |-> FALSE, hash |-> 0,
                                  version |-> 0]]
    /\ minted = [s \in Sessions |-> 0]
    /\ live = {} /\ index = [s \in Sessions |-> None]
    /\ op = [r \in Requests |-> NoOp]
    /\ crashes = 0 /\ raced = {}

-----------------------------------------------------------------------------
(* The database half. *)

\* UPDATE ... SET last_used_at, revoked_at, version WHERE version = expected:
\* the refresh token's hash and the expiry are not among the columns written.
Updated(s, state) == [row[s] EXCEPT !.state = state, !.version = @ + 1]

\* Faulty variant of Fresh: no version in the WHERE clause.
Unversioned(r) == op[r].pc \in WritePcs

Fresh(r) == \A s \in Targets(r) : row[s].version = op[r].base[s]

InCache(r, s) == op[r].pc \in CachePcs /\ s \in Targets(r)
Overlaps(r)   == {s \in Targets(r) : \E q \in Requests \ {r} : InCache(q, s)}

\* Faulty variants of CreateSession: the token is published without waiting
\* for the insert, or before it is minted.
CreateSessionUncommitted(r) ==
    /\ op[r].pc = "idle"
    /\ \E s \in Sessions :
          /\ row[s].state = "none"
          /\ minted' = [minted EXCEPT ![s] = 1]
          /\ op' = [op EXCEPT ![r] = [NoOp EXCEPT !.pc = "set", !.s = s, !.mint = 0]]
    /\ UNCHANGED <<row, live, index, crashes, raced>>

CreateSessionUnminted(r) ==
    /\ op[r].pc = "idle"
    /\ \E s \in Sessions :
          /\ row[s].state = "none"
          /\ row' = [row EXCEPT ![s].state = "active"]
          /\ minted' = [minted EXCEPT ![s] = 1]
          /\ op' = [op EXCEPT ![r] = [NoOp EXCEPT !.pc = "set", !.s = s]]
    /\ UNCHANGED <<live, index, crashes, raced>>

\* Insert the row, commit, then publish the first access token.
CreateSession(r) ==
    /\ op[r].pc = "idle"
    /\ \E s \in Sessions :
          /\ row[s].state = "none"
          /\ row' = [row EXCEPT ![s].state = "active"]
          /\ minted' = [minted EXCEPT ![s] = 1]
          /\ op' = [op EXCEPT ![r] = [NoOp EXCEPT !.pc = "set", !.s = s, !.mint = 0]]
    /\ UNCHANGED <<live, index, crashes, raced>>

\* RefreshSession: the presented token must hash to the stored value of a
\* session neither revoked nor expired.
BeginRefresh(r) ==
    /\ op[r].pc = "idle"
    /\ \E s \in Sessions : \E n \in 0..MaxMint[s] :
          /\ n < minted[s] /\ minted[s] < MaxMint[s]
          /\ row[s].hash = n /\ Active(s)
          /\ op' = [op EXCEPT ![r] = [NoOp EXCEPT !.pc = "refresh", !.s = s,
                                                  !.base = Versions({s})]]
    /\ UNCHANGED <<row, minted, live, index, crashes, raced>>

CommitRefresh(r) ==
    /\ op[r].pc = "refresh" /\ Fresh(r)
    /\ LET s == op[r].s
       IN  /\ row' = [row EXCEPT ![s] = Updated(s, "active")]
           /\ minted' = [minted EXCEPT ![s] = @ + 1]
           /\ op' = [op EXCEPT ![r] = [NoOp EXCEPT !.pc = "get", !.s = s,
                                                  !.mint = minted[s]]]
    /\ raced' = raced \cup Overlaps(r)
    /\ UNCHANGED <<live, index, crashes>>

\* POST /auth/logout, authenticated by an access token the cache knows.
Authenticate(r) ==
    /\ op[r].pc = "idle"
    /\ \E t \in live :
          op' = [op EXCEPT ![r] = [NoOp EXCEPT !.pc = "authed", !.s = t[1]]]
    /\ UNCHANGED <<row, minted, live, index, crashes, raced>>

\* RevokeSession: a session already revoked is only evicted again.
BeginRevoke(r) ==
    /\ op[r].pc = "authed"
    /\ IF row[op[r].s].state = "revoked"
       THEN /\ op' = [op EXCEPT ![r].pc = "get"]
            /\ raced' = raced \cup Overlaps(r)
       ELSE /\ op' = [op EXCEPT ![r].pc = "revoke", ![r].base = Versions(Targets(r))]
            /\ UNCHANGED raced
    /\ UNCHANGED <<row, minted, live, index, crashes>>

BeginRevokeAll(r) ==
    /\ op[r].pc = "idle"
    /\ LET active == {s \in Sessions : Active(s)}
       IN  /\ active # {}
           /\ op' = [op EXCEPT ![r] = [NoOp EXCEPT !.pc = "revoke", !.rest = active,
                                                   !.base = Versions(active)]]
    /\ UNCHANGED <<row, minted, live, index, crashes, raced>>

\* Faulty variant: a session that changed is left alone and the rest revoked.
CommitRevokeFresh(r) ==
    /\ op[r].pc = "revoke"
    /\ LET fresh == {s \in Targets(r) : row[s].version = op[r].base[s]}
       IN  /\ row' = [s \in Sessions |-> IF s \in fresh THEN Updated(s, "revoked") ELSE row[s]]
           /\ \E s \in fresh :
                 op' = [op EXCEPT ![r] = [NoOp EXCEPT !.pc = "get", !.s = s,
                                                      !.rest = fresh \ {s}]]
    /\ raced' = raced \cup Overlaps(r)
    /\ UNCHANGED <<minted, live, index, crashes>>

CommitRevoke(r) ==
    /\ op[r].pc = "revoke" /\ Fresh(r)
    /\ row' = [s \in Sessions |-> IF s \in Targets(r) THEN Updated(s, "revoked") ELSE row[s]]
    /\ \E s \in Targets(r) :
          op' = [op EXCEPT ![r] = [NoOp EXCEPT !.pc = "get", !.s = s,
                                               !.rest = Targets(r) \ {s}]]
    /\ raced' = raced \cup Overlaps(r)
    /\ UNCHANGED <<minted, live, index, crashes>>

\* StaleAggregate: the unit of work rolls back and the request fails.
Stale(r) ==
    /\ op[r].pc \in WritePcs /\ ~Fresh(r)
    /\ op' = [op EXCEPT ![r] = NoOp]
    /\ UNCHANGED <<row, minted, live, index, crashes, raced>>

-----------------------------------------------------------------------------
(* The cache half. *)

\* Faulty variant of EvictGet: only the index is dropped, not the token.
EvictGetIndexOnly(r) ==
    /\ op[r].pc = "get"
    /\ op' = [op EXCEPT ![r].pc = "unindex"]
    /\ UNCHANGED <<row, minted, live, index, crashes, raced>>

EvictGet(r) ==
    /\ op[r].pc = "get"
    /\ LET seen == index[op[r].s]
       IN  op' = [op EXCEPT ![r].seen = seen, ![r].pc = IF seen = None THEN "unindex"
                                                                       ELSE "del"]
    /\ UNCHANGED <<row, minted, live, index, crashes, raced>>

EvictDel(r) ==
    /\ op[r].pc = "del"
    /\ live' = live \ {<<op[r].s, op[r].seen>>}
    /\ op' = [op EXCEPT ![r].pc = "unindex", ![r].seen = None]
    /\ UNCHANGED <<row, minted, index, crashes, raced>>

\* The last command of evict_by_session; then a refresh publishes its token,
\* and RevokeAllSessions goes on with the next session.
EvictUnindex(r) ==
    /\ op[r].pc = "unindex"
    /\ index' = [index EXCEPT ![op[r].s] = None]
    /\ \/ /\ op[r].mint # None
          /\ op' = [op EXCEPT ![r].pc = "set"]
       \/ /\ op[r].mint = None /\ op[r].rest = {}
          /\ op' = [op EXCEPT ![r] = NoOp]
       \/ /\ op[r].mint = None
          /\ \E s \in op[r].rest :
                op' = [op EXCEPT ![r].pc = "get", ![r].s = s, ![r].rest = @ \ {s}]
    /\ UNCHANGED <<row, minted, live, crashes, raced>>

CacheSet(r) ==
    /\ op[r].pc = "set"
    /\ live' = live \cup {<<op[r].s, op[r].mint>>}
    /\ op' = [op EXCEPT ![r].pc = "index"]
    /\ UNCHANGED <<row, minted, index, crashes, raced>>

CacheIndex(r) ==
    /\ op[r].pc = "index"
    /\ index' = [index EXCEPT ![op[r].s] = op[r].mint]
    /\ op' = [op EXCEPT ![r] = NoOp]
    /\ UNCHANGED <<row, minted, live, crashes, raced>>

\* The process dies, the client goes away, or Redis refuses the next command.
Crash(r) ==
    /\ op[r].pc # "idle" /\ crashes < MaxCrashes
    /\ crashes' = crashes + 1
    /\ op' = [op EXCEPT ![r] = NoOp]
    /\ raced' = raced \cup {s \in Sessions : InCache(r, s)}
    /\ UNCHANGED <<row, minted, live, index>>

-----------------------------------------------------------------------------
(* Time. *)

SessionExpires(s) ==
    /\ row[s].state # "none" /\ ~row[s].expired
    /\ row' = [row EXCEPT ![s].expired = TRUE]
    /\ UNCHANGED <<minted, live, index, op, crashes, raced>>

\* Faulty variant of TokenExpires: only the token the index names has a time
\* to live.
TokenExpiresIndexed(t) ==
    /\ t \in live /\ index[t[1]] = t[2]
    /\ live' = live \ {t}
    /\ UNCHANGED <<row, minted, index, op, crashes, raced>>

\* Redis drops at:<token> when its time to live is over.
TokenExpires(t) ==
    /\ t \in live
    /\ live' = live \ {t}
    /\ UNCHANGED <<row, minted, index, op, crashes, raced>>

\* The index is set after its token with the same time to live.
IndexExpires(s) ==
    /\ index[s] # None /\ <<s, index[s]>> \notin live
    /\ index' = [index EXCEPT ![s] = None]
    /\ UNCHANGED <<row, minted, live, op, crashes, raced>>

-----------------------------------------------------------------------------

\* What a request does once it has started.
Continue(r) ==
    \/ CommitRefresh(r) \/ BeginRevoke(r) \/ CommitRevoke(r) \/ Stale(r)
    \/ EvictGet(r) \/ EvictDel(r) \/ EvictUnindex(r) \/ CacheSet(r) \/ CacheIndex(r)

Start(r) ==
    \/ CreateSession(r) \/ BeginRefresh(r) \/ Authenticate(r) \/ BeginRevokeAll(r)

Next ==
    \/ \E r \in Requests : Start(r) \/ Continue(r) \/ Crash(r)
    \/ \E s \in Sessions : SessionExpires(s) \/ IndexExpires(s)
    \/ \E t \in live : TokenExpires(t)

Spec == Init /\ [][Next]_vars

\* Requests run to their end unless they crash, and times to live elapse.
Fairness ==
    /\ \A r \in Requests : WF_vars(Continue(r))
    /\ \A s \in Sessions : \A n \in 0..MaxMint[s] : WF_vars(TokenExpires(<<s, n>>))

FairSpec == Spec /\ Fairness

-----------------------------------------------------------------------------
(* Properties. *)

TypeOK ==
    /\ row \in [Sessions -> [state : {"none", "active", "revoked"}, expired : BOOLEAN,
                             hash : Nat, version : Nat]]
    /\ minted \in [Sessions -> Nat]
    /\ live \subseteq Tokens
    /\ index \in [Sessions -> Nat \cup {None}]
    /\ op \in [Requests -> Op]
    /\ crashes \in Nat
    /\ raced \subseteq Sessions

\* A revoked session never becomes active again: a refresh that read the row
\* before the revocation, and would write its old revoked_at back, loses.
RevokedIsFinal ==
    [][\A s \in Sessions : row[s].state = "revoked" =>
          row'[s].state = "revoked" /\ row'[s].version = row[s].version]_vars

\* The cache never holds, and its index never names, a token of a session
\* that is not in the database, nor a token that was never minted.
CacheFollowsDatabase ==
    /\ \A t \in live : row[t[1]].state # "none" /\ t[2] < minted[t[1]]
    /\ \A s \in Sessions : index[s] # None => index[s] < minted[s]

\* Once a session is revoked and its eviction is over, none of its access
\* tokens is usable, unless two requests changed its cache at the same time
\* or one was cut short half-way.
RevokedMeansEvicted ==
    \A s \in Sessions \ raced :
        row[s].state = "revoked" /\ (\A r \in Requests : ~InCache(r, s))
            => \A t \in live : t[1] # s

\* Logging out everywhere revokes every session it found or, when one of them
\* was refreshed or revoked in the meantime, changes none: it never stops in
\* between and reports a failure.
RevokedTogether ==
    [][\A r \in Requests :
          op[r].pc = "revoke" /\ op'[r].pc # "revoke" =>
              \/ \A s \in Targets(r) : row'[s].state = "revoked"
              \/ row' = row]_vars

\* Whatever raced, a revocation takes effect for good in the end: no refresh
\* revives the session and the last token's time to live runs out.
RevocationTakesEffect ==
    <>[](\A s \in Sessions : row[s].state = "revoked" => \A t \in live : t[1] # s)

\* Requests that have committed a creation or a refresh and not yet published
\* its token.
Owes(r)  == op[r].mint # None /\ op[r].pc \in CachePcs \ {"index"}
Token(r) == <<op[r].s, op[r].mint>>

\* Whatever races, is stale or dies: a session is revoked for good and with all
\* that were found with it, a token is minted by a commit on an active session
\* only, is published at most once, and is usable only if it was.
Contract == INSTANCE SessionsContract WITH
    state  <- [s \in Sessions |-> row[s].state],
    owed   <- {Token(r) : r \in {q \in Requests : Owes(q)}},
    usable <- live

ImplementsContract == Contract!Spec

(* What a comment and the brief say, and the code does not keep. *)

\* The token a refresh publishes never advertises a state the database does
\* not agree with: none is left for a revoked session once every request is
\* over.
RefreshAgreesWithDatabase ==
    (\A r \in Requests : op[r].pc = "idle") =>
        \A t \in live : t[2] > 0 => row[t[1]].state # "revoked"
=============================================================================
