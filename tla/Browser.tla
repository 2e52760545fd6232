------------------------------- MODULE Browser ------------------------------
(***************************************************************************)
(* One browser in front of the API: the cookies that set_session_cookies   *)
(* and clear_session_cookies put into and take out of its jar, the calls   *)
(* its pages have open at one time, and the dependencies that decide on a  *)
(* call by the cookies it carried (CsrfGuard, GetCurrentUser,              *)
(* GetCurrentAdmin).  A page reads the CSRF cookie, awaits its idempotency *)
(* key and only then calls fetch, which attaches the cookies of that       *)
(* moment; answers come back in any order, or not at all.                  *)
(*                                                                         *)
(* No cookie names a domain, so that all are of the API's host alone.  The *)
(* Caddyfile serves the pages from hosts of their own, and these read none *)
(* of them; the development servers share a host with the API, but the     *)
(* administrator's CSRF cookie has a path no page has.                     *)
(*                                                                         *)
(* The database and cache steps of a handler are Sessions'; here one step  *)
(* is the commit and one the cache's, and no session is 30 days old.  As   *)
(* there, the n-th access, refresh and CSRF token of session s are minted  *)
(* together, and are <<s, n>>.                                             *)
(***************************************************************************)
EXTENDS Naturals

CONSTANTS
    Sessions,
    Admins,     \* the sessions of an administrator
    Calls,      \* calls the browser can have open together
    None,
    MaxMint     \* bound: MaxMint[s] tokens are minted for session s

ASSUME SessionsAssumption == Admins \subseteq Sessions /\ None \notin Nat \cup (Sessions \X Nat)
ASSUME BoundsAssumption   == MaxMint \in [Sessions -> Nat]

VARIABLES
    readable,   \* the realms whose pages can read their CSRF cookie
    jar,        \* jar[k]: the token in cookie k, or None
    call,       \* call[c]: an open call
    row,        \* row[s]: the state of the row of identity.sessions
    minted,     \* minted[s]: tokens minted for s
    access,     \* access[t]: what became of the access token t in Redis
    index,      \* index[s]: the token published last
    muddled     \* history: sessions refreshed while the answer of an earlier
                \* refresh was on its way, or an answer of which was lost

server == <<row, minted, access, index>>
vars   == <<readable, jar, call, server, muddled>>

Tokens == UNION {{s} \X (0..(MaxMint[s] - 1)) : s \in Sessions}

\* CookieConfig: USER_COOKIE_CONFIG and ADMIN_COOKIE_CONFIG.
Realms  == {"user", "admin"}
Config  == [user  |-> [access |-> "vc_at", refresh |-> "vc_rt", csrf |-> "csrf"],
            admin |-> [access |-> "admin_at", refresh |-> "admin_rt", csrf |-> "admin_csrf"]]
Cookies == UNION {{Config[m].access, Config[m].refresh, Config[m].csrf} : m \in Realms}

Realm(s) == IF s \in Admins THEN "admin" ELSE "user"
Kinds    == {"login", "refresh", "logout"}

(* header: the CSRF token the page read, page: the access token the browser *)
(* had then; sent: the cookies the route looks at; token: what it acts on.      *)
Call == [pc : {"idle", "ready", "sent", "revoke", "publish", "answer"},
         kind : Kinds, realm : Realms, header : Tokens \cup {None}, page : Tokens \cup {None},
         sent : [Cookies -> Tokens \cup {None}], token : Tokens \cup {None}]

NoCookies == [k \in Cookies |-> None]
NoCall == [pc |-> "idle", kind |-> "login", realm |-> "user", header |-> None, page |-> None,
           sent |-> NoCookies, token |-> None]

\* Pages and API have hosts of their own, or share one.
Init ==
    /\ readable \in {{}, {"user"}}
    /\ jar = NoCookies
    /\ call = [c \in Calls |-> NoCall]
    /\ row = [s \in Sessions |-> "none"]
    /\ minted = [s \in Sessions |-> 0]
    /\ access = [t \in Tokens |-> "none"]
    /\ index = [s \in Sessions |-> None]
    /\ muddled = {}

\* What was sent has been looked at.
Goes(c, pc, t) == call' = [call EXCEPT ![c] = [NoCall EXCEPT !.pc = pc, !.kind = call[c].kind,
                                                             !.realm = call[c].realm, !.token = t]]

-----------------------------------------------------------------------------
(* The page. *)

\* apiFetch and adminApiFetch up to fetch, for the routes CsrfGuard guards: a
\* logout, or regenerate_backup_codes, which does nothing to a session.  The header
\* is left out if document.cookie does not show the token.
Prepare(c, realm) ==
    /\ call[c].pc = "idle"
    /\ call' = [call EXCEPT ![c] =
                  [NoCall EXCEPT !.pc = "ready", !.kind = "logout", !.realm = realm,
                                 !.header = IF realm \in readable THEN jar[Config[realm].csrf]
                                                                  ELSE None,
                                 !.page   = jar[Config[realm].access]]]
    /\ UNCHANGED <<jar, server, muddled>>

\* Faulty variant: the CSRF cookie has the path of the refresh cookie.
AttachedNarrowly(kind, realm) ==
    {"vc_at"} \cup (IF kind = "refresh" THEN {"vc_rt", "csrf"} ELSE {})
              \cup (IF realm = "admin" THEN {"admin_at", "admin_csrf"} ELSE {})

\* By the cookies' paths: the user's go everywhere except for vc_rt, the
\* administrator's only to /admin/api/v1, and admin_rt to a route there is not.
Attached(kind, realm) ==
    {"vc_at", "csrf"} \cup (IF kind = "refresh" THEN {"vc_rt"} ELSE {})
                      \cup (IF realm = "admin" THEN {"admin_at", "admin_csrf"} ELSE {})

\* The cookies the route and its dependencies look at.
Used(kind, realm) ==
    CASE kind = "login"   -> {}
      [] kind = "refresh" -> {"vc_rt"}
      [] OTHER            -> {"csrf", Config[realm].access}

\* fetch.  What the page read for a login or a refresh matters to nobody, so
\* these start here; and only a user's session is ever refreshed.
Send(c, kind, realm) ==
    /\ \/ call[c].pc = "ready" /\ call[c].kind = kind /\ call[c].realm = realm
       \/ call[c].pc = "idle" /\ <<kind, realm>> \in ({"login"} \X Realms) \cup {<<"refresh", "user">>}
    /\ LET seen == Attached(kind, realm) \cap Used(kind, realm)
       IN  call' = [call EXCEPT ![c] =
                      [@ EXCEPT !.pc = "sent", !.kind = kind, !.realm = realm,
                                !.sent = [k \in Cookies |-> IF k \in seen THEN jar[k] ELSE None]]]
    /\ UNCHANGED <<jar, server, muddled>>

-----------------------------------------------------------------------------
(* The dependencies. *)

\* Faulty variant of CsrfGuard: it is enough that both tokens are there.
CsrfGuardPresence(c) == call[c].sent["csrf"] # None /\ call[c].header # None

\* The guard looks at the user's cookie, also for an administrator.
CsrfGuard(c) ==
    /\ call[c].sent["csrf"] # None /\ call[c].header # None
    /\ call[c].sent["csrf"] = call[c].header

GetCurrentUser(c)  == LET t == call[c].sent["vc_at"] IN t # None /\ access[t] = "live"
\* The scope "admin" is in the token CreateSession publishes for an administrator.
GetCurrentAdmin(c) == LET t == call[c].sent["admin_at"]
                      IN  t # None /\ access[t] = "live" /\ t[1] \in Admins /\ t[2] = 0

Authenticated(c) == IF call[c].realm = "admin" THEN GetCurrentAdmin(c) ELSE GetCurrentUser(c)

-----------------------------------------------------------------------------
(* The routes. *)

Open(c, s) == call[c].kind = "refresh" /\ call[c].pc \in {"publish", "answer"} /\ call[c].token[1] = s

\* The last step of a login (LoginFlow has the others) inserts a session.
Login(c, s) ==
    /\ call[c].pc = "sent" /\ call[c].kind = "login" /\ call[c].realm = Realm(s)
    /\ row[s] = "none" /\ MaxMint[s] > 0
    /\ row' = [row EXCEPT ![s] = "active"]
    /\ minted' = [minted EXCEPT ![s] = 1]
    /\ Goes(c, "publish", <<s, 0>>)
    /\ UNCHANGED <<jar, access, index, muddled>>

\* Faulty variant of Refresh: the answer has a token nobody minted.
RefreshUnminted(c, s) ==
    /\ call[c].pc = "sent" /\ call[c].kind = "refresh"
    /\ call[c].sent["vc_rt"] = <<s, 0>> /\ row[s] = "active"
    /\ minted[s] < MaxMint[s]
    /\ Goes(c, "publish", <<s, minted[s]>>)
    /\ muddled' = IF \E d \in Calls : Open(d, s) THEN muddled \cup {s} ELSE muddled
    /\ UNCHANGED <<jar, server>>

\* Faulty variant of Refresh: revoked_at is not looked at.
RefreshRevoked(c, s) ==
    /\ call[c].pc = "sent" /\ call[c].kind = "refresh"
    /\ call[c].sent["vc_rt"] = <<s, 0>> /\ row[s] # "none"
    /\ minted[s] < MaxMint[s]
    /\ minted' = [minted EXCEPT ![s] = @ + 1]
    /\ Goes(c, "publish", <<s, minted[s]>>)
    /\ muddled' = IF \E d \in Calls : Open(d, s) THEN muddled \cup {s} ELSE muddled
    /\ UNCHANGED <<jar, row, access, index>>

\* auth_refresh up to the commit.  The row keeps the hash of the first refresh
\* token (Sessions!Updated), so that no other one is found.
Refresh(c, s) ==
    /\ call[c].pc = "sent" /\ call[c].kind = "refresh"
    /\ call[c].sent["vc_rt"] = <<s, 0>> /\ row[s] = "active"
    /\ minted[s] < MaxMint[s]
    /\ minted' = [minted EXCEPT ![s] = @ + 1]
    /\ Goes(c, "publish", <<s, minted[s]>>)
    /\ muddled' = IF \E d \in Calls : Open(d, s) THEN muddled \cup {s} ELSE muddled
    /\ UNCHANGED <<jar, row, access, index>>

\* auth_logout and admin_logout, up to RevokeSession's read.
BeginLogout(c) ==
    /\ call[c].pc = "sent" /\ call[c].kind = "logout"
    /\ CsrfGuard(c) /\ Authenticated(c)
    /\ Goes(c, "revoke", call[c].sent[Config[call[c].realm].access])
    /\ UNCHANGED <<jar, server, muddled>>

\* RevokeSession's UPDATE.  A refresh that committed since the read makes it
\* miss, which Refuse allows for.
CommitLogout(c) ==
    /\ call[c].pc = "revoke"
    /\ row' = [row EXCEPT ![call[c].token[1]] = "revoked"]
    /\ Goes(c, "publish", call[c].token)
    /\ UNCHANGED <<jar, minted, access, index, muddled>>

\* The guard comes first; then a wrong code, no such refresh token, no live
\* access token, a locked user, a row that changed meanwhile.  The answer, or
\* that of regenerate_backup_codes, changes no cookie and is not waited for.
RefuseCsrf(c) ==
    /\ call[c].pc = "sent" /\ call[c].kind = "logout" /\ ~CsrfGuard(c)
    /\ call' = [call EXCEPT ![c] = NoCall]
    /\ UNCHANGED <<jar, server, muddled>>

Refuse(c) ==
    /\ \/ call[c].pc = "sent" /\ (call[c].kind = "logout" => CsrfGuard(c))
       \/ call[c].pc = "revoke"
    /\ call' = [call EXCEPT ![c] = NoCall]
    /\ UNCHANGED <<jar, server, muddled>>

\* evict_by_session deletes the token the index names and the index; set then
\* stores the token t, if there is one, and names it.
Evict(s, t) ==
    /\ access' = [u \in Tokens |-> CASE u = t -> "live"
                                    [] u # t /\ u = <<s, index[s]>> /\ access[u] = "live" -> "evicted"
                                    [] OTHER -> access[u]]
    /\ index' = [index EXCEPT ![s] = IF t = None THEN None ELSE t[2]]

\* Faulty variant of Publish: the new token is set before the old one is evicted.
PublishThenEvict(c) ==
    /\ call[c].pc = "publish"
    /\ IF call[c].kind = "refresh"
       THEN /\ access' = [access EXCEPT ![call[c].token] = "evicted"]
            /\ index' = [index EXCEPT ![call[c].token[1]] = None]
       ELSE Evict(call[c].token[1], IF call[c].kind = "logout" THEN None ELSE call[c].token)
    /\ Goes(c, "answer", call[c].token)
    /\ UNCHANGED <<jar, row, minted, muddled>>

\* The cache's part: logout evicts, login sets, refresh does both.  Nothing is
\* there to evict at a login.
Publish(c) ==
    /\ call[c].pc = "publish"
    /\ Evict(call[c].token[1], IF call[c].kind = "logout" THEN None ELSE call[c].token)
    /\ Goes(c, "answer", call[c].token)
    /\ UNCHANGED <<jar, row, minted, muddled>>

-----------------------------------------------------------------------------
(* Answers. *)

\* Faulty variant: the route relies on the helpers' default config.
ConfigByDefault(c) == Config["user"]

ConfigOf(c) == Config[call[c].realm]

\* set_session_cookies and clear_session_cookies, with the route's config.
Put(g, t) == [jar EXCEPT ![g.access] = t, ![g.refresh] = t, ![g.csrf] = t]

Deliver(c) ==
    /\ call[c].pc = "answer"
    /\ jar' = Put(ConfigOf(c), IF call[c].kind = "logout" THEN None ELSE call[c].token)
    /\ call' = [call EXCEPT ![c] = NoCall]
    /\ UNCHANGED <<server, muddled>>

\* The process dies before the cache's part or after its eviction, or further
\* on, when the token it has set is known to nobody; or the answer is lost, or
\* comes back from the idempotency store, which keeps no Set-Cookie.
Lose(c) ==
    /\ call[c].pc \in {"publish", "answer"}
    /\ \/ UNCHANGED <<access, index>>
       \/ call[c].pc = "publish" /\ Evict(call[c].token[1], None)
    /\ muddled' = IF call[c].kind = "refresh" THEN muddled \cup {call[c].token[1]} ELSE muddled
    /\ call' = [call EXCEPT ![c] = NoCall]
    /\ UNCHANGED <<jar, row, minted>>

-----------------------------------------------------------------------------
(* Time. *)

TokenExpires(t) ==
    /\ access[t] = "live"
    /\ access' = [access EXCEPT ![t] = "none"]
    /\ UNCHANGED <<jar, call, row, minted, index, muddled>>

\* The access and the CSRF cookie have the token's time to live, counted from
\* the answer.
CookiesExpire(realm) ==
    /\ jar[Config[realm].access] # None /\ access[jar[Config[realm].access]] # "live"
    /\ jar' = [jar EXCEPT ![Config[realm].access] = None, ![Config[realm].csrf] = None]
    /\ UNCHANGED <<call, server, muddled>>

-----------------------------------------------------------------------------

Serve(c) ==
    \/ \E s \in Sessions : Login(c, s) \/ Refresh(c, s)
    \/ BeginLogout(c) \/ CommitLogout(c) \/ RefuseCsrf(c) \/ Refuse(c) \/ Publish(c)

Next ==
    /\ \/ \E c \in Calls :
             \/ \E realm \in Realms :
                   Prepare(c, realm) \/ \E kind \in Kinds : Send(c, kind, realm)
             \/ Serve(c) \/ Deliver(c) \/ Lose(c)
       \/ \E t \in Tokens : TokenExpires(t)
       \/ \E realm \in Realms : CookiesExpire(realm)
    /\ UNCHANGED readable

Spec == Init /\ [][Next]_vars

-----------------------------------------------------------------------------
(* Properties. *)

Minted == {t \in Tokens : t[2] < minted[t[1]]}

\* Every variable has its type, and no cookie or call names a token that was
\* not minted.
TypeOK ==
    /\ readable \subseteq {"user"}
    /\ jar \in [Cookies -> Minted \cup {None}]
    /\ call \in [Calls -> Call]
    /\ \A c \in Calls : call[c].token \in Minted \cup {None}
    /\ row \in [Sessions -> {"none", "active", "revoked"}]
    /\ minted \in [Sessions -> Nat] /\ \A s \in Sessions : minted[s] <= MaxMint[s]
    /\ index \in [Sessions -> Nat \cup {None}]
    /\ access \in [Tokens -> {"none", "live", "evicted"}]
    /\ muddled \subseteq Sessions

\* Whatever order the answers come in, the three cookies of a realm are those
\* of one refresh of one session of that realm, or have run out or been
\* cleared together: no call carries the CSRF token of one session and the
\* access token of another, and no administrator's token is in a user's cookie.
OneSessionPerRealm ==
    \A m \in Realms :
        LET at == jar[Config[m].access]
            rt == jar[Config[m].refresh]
        IN  /\ jar[Config[m].csrf] = at
            /\ at # None => rt = at
            /\ rt # None => Realm(rt[1]) = m

\* A logout revokes the session the page had when the user asked for it, though
\* another tab may have logged in or out, or refreshed, before it was sent.
ActsForItsPage ==
    [][\A c \in Calls :
          call[c].pc = "sent" /\ call'[c].pc = "revoke" => call'[c].token = call[c].page]_vars

\* The CSRF guard refuses a call of somebody who is logged in only because the page
\* cannot read its token, which is so of every page the Caddyfile serves and of every
\* administrator's; or because the cookies changed between the moment the page read
\* them and the moment the call was sent.
CsrfRefusalsHaveReasons ==
    [][\A c \in Calls :
          RefuseCsrf(c) /\ call[c].page # None /\ call[c].realm \in readable
              => call[c].sent["vc_at"] # call[c].page]_vars

\* The access cookie of a session that is neither revoked nor over is evicted
\* only if two refreshes of it overlapped or an answer of it was lost, or
\* while the answer that replaces it is on its way.
StrandedOnlyByRace ==
    LET t == jar["vc_at"]
    IN  /\ t # None /\ access[t] = "evicted" /\ row[t[1]] = "active"
        /\ \A c \in Calls : ~Open(c, t[1])
        => t[1] \in muddled

\* What Sessions does in detail the browser's server does in two steps, and both
\* keep the one contract: the tokens the cookies name are those of commits on
\* active sessions, each published at most once.
Owes(c) == call[c].pc = "publish" /\ call[c].kind # "logout"

Contract == INSTANCE SessionsContract WITH
    state  <- row,
    owed   <- {call[c].token : c \in {d \in Calls : Owes(d)}},
    usable <- {t \in Tokens : access[t] = "live"}

ImplementsContract == Contract!Spec
=============================================================================
