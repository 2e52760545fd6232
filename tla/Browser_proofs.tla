--------------------------- MODULE Browser_proofs ---------------------------
(***************************************************************************)
(* Theorems about Browser for every set of sessions and of calls and every *)
(* bound.                                                                  *)
(***************************************************************************)
EXTENDS Browser, TLAPS

OrNone(S) == S \cup {None}
Of(t, s)  == t # None /\ t[1] = s

\* What an open call carries, by where it is.
ShapeOf(c) ==
    /\ call[c].kind = "refresh" => call[c].realm = "user"
    /\ call[c].pc = "revoke" => call[c].kind = "logout"
    /\ IF call[c].pc \in {"revoke", "publish", "answer"}
       THEN call[c].token \in Minted
       ELSE call[c].token = None
    /\ call[c].pc \in {"publish", "answer"} =>
          IF call[c].kind = "logout" THEN row[call[c].token[1]] = "revoked"
                                     ELSE Realm(call[c].token[1]) = call[c].realm
    /\ \A k \in Cookies : call[c].sent[k] \in OrNone(Minted)
    /\ \A k \in {"vc_rt", "csrf"} :
          call[c].sent[k] # None => Realm(call[c].sent[k][1]) = "user"
    /\ call[c].kind = "logout" /\ call[c].pc \in {"ready", "sent"} =>
          /\ call[c].header = IF call[c].realm \in readable THEN call[c].page ELSE None
          /\ call[c].header # None => Realm(call[c].header[1]) = call[c].realm
          /\ call[c].pc = "sent" /\ call[c].realm = "user" =>
                call[c].sent["csrf"] = call[c].sent["vc_at"]

Unborn == \A s \in Sessions : row[s] = "none" => minted[s] = 0

\* Until the answer of its login, nobody else has a token of s.
Unheld(c, s) ==
    /\ \A k \in Cookies : ~Of(jar[k], s)
    /\ \A d \in Calls : \A k \in Cookies : ~Of(call[d].sent[k], s)
    /\ \A d \in Calls \ {c} : ~Of(call[d].token, s)

LoginAlone ==
    \A c \in Calls :
        call[c].kind = "login" /\ call[c].pc \in {"publish", "answer"} =>
            Unheld(c, call[c].token[1])

OneOpen ==
    \A s \in Sessions \ muddled : \A c, d \in Calls : Open(c, s) /\ Open(d, s) => c = d

\* What an answer hands out has not been evicted yet.
AnswerGood(c) ==
    call[c].pc = "answer" /\ call[c].kind # "logout" =>
        \/ call[c].token[1] \in muddled
        \/ row[call[c].token[1]] # "active"
        \/ access[call[c].token] # "evicted"

BInv ==
    /\ TypeOK
    /\ \A c \in Calls : ShapeOf(c)
    /\ OneSessionPerRealm
    /\ Unborn
    /\ LoginAlone
    /\ OneOpen
    /\ \A c \in Calls : AnswerGood(c)
    /\ StrandedOnlyByRace

-----------------------------------------------------------------------------

(* Tokens and cookies. *)

LEMMA TokenResult ==
    ASSUME NEW t \in Tokens
    PROVE  /\ t[1] \in Sessions /\ t[2] \in Nat /\ t[2] < MaxMint[t[1]]
           /\ t = <<t[1], t[2]>> /\ t # None
<1>1. PICK s \in Sessions : t \in {s} \X (0..(MaxMint[s] - 1))
  BY DEF Tokens
<1>2. MaxMint[s] \in Nat
  BY BoundsAssumption
<1>3. t[1] = s /\ t[2] \in 0..(MaxMint[s] - 1) /\ t = <<t[1], t[2]>>
  BY <1>1
<1>4. t[2] \in Nat /\ t[2] < MaxMint[s]
  BY <1>2, <1>3
<1>5. t \in Sessions \X Nat
  BY <1>3, <1>4
<1> QED BY <1>3, <1>4, <1>5, SessionsAssumption

LEMMA IsToken ==
    ASSUME NEW s \in Sessions, NEW n \in Nat, n < MaxMint[s]
    PROVE  <<s, n>> \in Tokens
<1>1. MaxMint[s] \in Nat
  BY BoundsAssumption
<1>2. n \in 0..(MaxMint[s] - 1)
  BY <1>1
<1>3. <<s, n>> \in {s} \X (0..(MaxMint[s] - 1))
  BY <1>2
<1> QED BY <1>3 DEF Tokens

LEMMA MintedResult ==
    ASSUME NEW t \in Minted
    PROVE  /\ t \in Tokens /\ t[1] \in Sessions /\ t # None /\ t[2] \in Nat
           /\ t[2] < minted[t[1]]
  BY TokenResult DEF Minted

LEMMA CookieNames ==
    /\ Config["user"] = [access |-> "vc_at", refresh |-> "vc_rt", csrf |-> "csrf"]
    /\ Config["admin"] = [access |-> "admin_at", refresh |-> "admin_rt", csrf |-> "admin_csrf"]
    /\ Cookies = {"vc_at", "vc_rt", "csrf", "admin_at", "admin_rt", "admin_csrf"}
    /\ Realms = {"user", "admin"}
<1>1. /\ Config["user"] = [access |-> "vc_at", refresh |-> "vc_rt", csrf |-> "csrf"]
      /\ Config["admin"] = [access |-> "admin_at", refresh |-> "admin_rt", csrf |-> "admin_csrf"]
  BY DEF Config
<1>2. Realms = {"user", "admin"}
  BY DEF Realms
<1>3. Cookies = UNION {{Config[m].access, Config[m].refresh, Config[m].csrf} : m \in {"user", "admin"}}
  BY <1>2 DEF Cookies
<1>4. \A k : k \in Cookies <=>
         \/ k \in {Config["user"].access, Config["user"].refresh, Config["user"].csrf}
         \/ k \in {Config["admin"].access, Config["admin"].refresh, Config["admin"].csrf}
  BY <1>3
<1> QED BY <1>1, <1>2, <1>4

\* The three cookies of a realm, of the jar.
LEMMA JarResult ==
    ASSUME OneSessionPerRealm
    PROVE  /\ jar["csrf"] = jar["vc_at"] /\ (jar["vc_at"] # None => jar["vc_rt"] = jar["vc_at"])
           /\ jar["vc_rt"] # None => Realm(jar["vc_rt"][1]) = "user"
           /\ jar["admin_csrf"] = jar["admin_at"]
           /\ jar["admin_at"] # None => jar["admin_rt"] = jar["admin_at"]
           /\ jar["admin_rt"] # None => Realm(jar["admin_rt"][1]) = "admin"
  BY CookieNames DEF OneSessionPerRealm

LEMMA NoCallResult ==
    /\ NoCall \in Call /\ NoCall.pc = "idle" /\ NoCall.kind = "login" /\ NoCall.realm = "user"
    /\ NoCall.header = None /\ NoCall.page = None /\ NoCall.token = None
    /\ NoCall.sent = NoCookies /\ \A k \in Cookies : NoCall.sent[k] = None
  BY DEF NoCall, NoCookies, Call, Kinds, Realms

\* What no step undoes.
Grows ==
    /\ UNCHANGED readable
    /\ \A s \in Sessions : minted'[s] >= minted[s]
    /\ \A s \in Sessions : row[s] = "revoked" => row'[s] = "revoked"

LEMMA MintedGrows ==
    ASSUME TypeOK, TypeOK', Grows
    PROVE  Minted \subseteq Minted'
<1>1. ASSUME NEW t \in Minted PROVE t \in Minted'
  <2>1. /\ t \in Tokens /\ t[1] \in Sessions /\ t[2] \in Nat /\ t[2] < minted[t[1]]
    BY MintedResult
  <2>2. minted[t[1]] \in Nat /\ minted'[t[1]] \in Nat /\ minted'[t[1]] >= minted[t[1]]
    BY <2>1, BoundsAssumption DEF TypeOK, Grows
  <2>3. t[2] < minted'[t[1]]
    BY <2>1, <2>2
  <2> QED BY <2>1, <2>3 DEF Minted
<1> QED BY <1>1

LEMMA OthersKeep ==
    ASSUME TypeOK, TypeOK', Grows, NEW d \in Calls, call'[d] = call[d], ShapeOf(d)
    PROVE  ShapeOf(d)'
<1>1. Minted \subseteq Minted'
  BY MintedGrows
<1>2. call[d].pc \in {"publish", "answer"} => call[d].token[1] \in Sessions
  BY MintedResult DEF ShapeOf
<1> QED BY <1>1, <1>2 DEF ShapeOf, Grows, OrNone, Realm

LEMMA Together ==
    ASSUME BInv, TypeOK', Grows, NEW c \in Calls,
           \A d \in Calls \ {c} : call'[d] = call[d],
           ShapeOf(c)', OneSessionPerRealm', Unborn', LoginAlone', OneOpen',
           \A d \in Calls : AnswerGood(d)', StrandedOnlyByRace'
    PROVE  BInv'
<1>1. \A d \in Calls \ {c} : ShapeOf(d)'
  BY OthersKeep DEF BInv
<1> QED BY <1>1 DEF BInv

LEMMA ServerRests ==
    ASSUME TypeOK, UNCHANGED <<readable, server>>, Unborn
    PROVE  Grows /\ Unborn' /\ Minted' = Minted
<1>1. \A s \in Sessions : minted[s] \in Nat
  BY BoundsAssumption DEF TypeOK
<1> QED BY <1>1 DEF Grows, Unborn, Minted, server

\* A step of c before the commit: what c has now comes from the jar or from
\* what it had.
LEMMA PageStep ==
    ASSUME BInv, UNCHANGED readable, NEW c \in Calls, NEW o \in Call, call' = [call EXCEPT ![c] = o],
           UNCHANGED <<jar, server, muddled>>,
           call[c].pc \notin {"publish", "answer"}, o.pc \notin {"publish", "answer"},
           o.token \in OrNone(Minted),
           \A s : (\E k \in Cookies : Of(o.sent[k], s)) \/ Of(o.token, s) =>
               \E k \in Cookies : Of(jar[k], s) \/ Of(call[c].sent[k], s),
           ShapeOf(c)'
    PROVE  BInv'
<1>1. call' \in [Calls -> Call] /\ call'[c] = o /\ \A d \in Calls \ {c} : call'[d] = call[d]
  BY DEF BInv, TypeOK
<1>2. Grows /\ Unborn' /\ Minted' = Minted
  BY ServerRests DEF BInv
<1>3. TypeOK'
  <2>1. \A d \in Calls : call'[d].token \in OrNone(Minted)
    BY <1>1 DEF BInv, TypeOK, OrNone
  <2> QED BY <1>1, <1>2, <2>1 DEF BInv, TypeOK, OrNone, server
<1>4. OneSessionPerRealm'
  BY DEF BInv, OneSessionPerRealm
<1>5. LoginAlone'
  <2> SUFFICES ASSUME NEW d \in Calls, call'[d].kind = "login", call'[d].pc \in {"publish", "answer"}
               PROVE  Unheld(d, call[d].token[1])'
    BY DEF LoginAlone
  <2>1. d # c /\ call'[d] = call[d]
    BY <1>1
  <2>2. PICK s : s = call[d].token[1]
    OBVIOUS
  <2>3. Unheld(d, s)
    BY <2>1, <2>2 DEF BInv, LoginAlone
  <2>4. /\ \A k \in Cookies : ~Of(call'[c].sent[k], s)
        /\ ~Of(call'[c].token, s)
    BY <1>1, <2>3 DEF Unheld
  <2>5. \A e \in Calls : \A k \in Cookies : ~Of(call'[e].sent[k], s)
    BY <1>1, <2>3, <2>4 DEF Unheld
  <2>6. \A e \in Calls \ {d} : ~Of(call'[e].token, s)
    BY <1>1, <2>3, <2>4 DEF Unheld
  <2>7. call'[d].token[1] = s
    BY <2>1, <2>2
  <2>8. Unheld(d, s)'
    BY <2>3, <2>5, <2>6 DEF Unheld
  <2> QED BY <2>7, <2>8
<1>6. OneOpen'
  BY <1>1 DEF BInv, OneOpen, Open
<1>7. \A d \in Calls : AnswerGood(d)'
  BY <1>1 DEF BInv, AnswerGood, server
<1>8. StrandedOnlyByRace'
  <2>1. \A d \in Calls, s \in Sessions : Open(d, s) => Open(d, s)'
    BY <1>1 DEF Open
  <2>2. jar["vc_at"] # None => jar["vc_at"][1] \in Sessions
    BY CookieNames, MintedResult DEF BInv, TypeOK
  <2> QED BY <2>1, <2>2 DEF BInv, StrandedOnlyByRace, server
<1> QED BY <1>1, <1>2, <1>3, <1>4, <1>5, <1>6, <1>7, <1>8, Together

\* Time, or nothing, passes: a token or a pair of cookies goes.
LEMMA TimeStep ==
    ASSUME BInv, TypeOK', UNCHANGED <<readable, call, row, minted, muddled>>,
           \A k \in Cookies : jar'[k] \in {jar[k], None},
           \A t \in Tokens : access'[t] = "evicted" => access[t] = "evicted",
           OneSessionPerRealm'
    PROVE  BInv'
<1>1. Grows /\ Unborn'
  <2>1. \A s \in Sessions : minted[s] \in Nat
    BY BoundsAssumption DEF BInv, TypeOK
  <2> QED BY <2>1 DEF BInv, Grows, Unborn
<1>2. \A d \in Calls : ShapeOf(d)'
  BY <1>1, OthersKeep DEF BInv
<1>3. LoginAlone'
  BY DEF BInv, LoginAlone, Unheld, Of
<1>4. OneOpen'
  BY DEF BInv, OneOpen, Open
<1>5. ASSUME NEW d \in Calls PROVE AnswerGood(d)'
  <2>1. call[d].pc = "answer" => call[d].token \in Tokens
    BY MintedResult DEF BInv, ShapeOf
  <2> QED BY <2>1 DEF BInv, AnswerGood
<1>6. StrandedOnlyByRace'
  <2>1. jar["vc_at"] # None => jar["vc_at"] \in Tokens
    BY CookieNames, MintedResult DEF BInv, TypeOK
  <2>2. jar'["vc_at"] \in {jar["vc_at"], None}
    BY CookieNames
  <2>3. \A s : \A d \in Calls : Open(d, s)' = Open(d, s)
    BY DEF Open
  <2> QED BY <2>1, <2>2, <2>3 DEF BInv, StrandedOnlyByRace
<1> QED BY <1>1, <1>2, <1>3, <1>4, <1>5, <1>6 DEF BInv

-----------------------------------------------------------------------------

(* The page. *)

LEMMA PrepareKeeps ==
    ASSUME BInv, UNCHANGED readable, NEW c \in Calls, NEW realm \in Realms, Prepare(c, realm)
    PROVE  BInv'
<1>1. PICK h, p : /\ h = IF realm \in readable THEN jar[Config[realm].csrf] ELSE None
                  /\ p = jar[Config[realm].access]
  OBVIOUS
<1>2. /\ call[c].pc = "idle" /\ UNCHANGED <<jar, server, muddled>>
      /\ call' = [call EXCEPT ![c] = [NoCall EXCEPT !.pc = "ready", !.kind = "logout",
                                        !.realm = realm, !.header = h, !.page = p]]
  BY <1>1 DEF Prepare
<1>3. /\ h = IF realm \in readable THEN p ELSE None
      /\ p \in OrNone(Minted) /\ (p # None => Realm(p[1]) = realm)
  <2>1. Config[realm].access \in Cookies
    BY CookieNames
  <2>2. jar[Config[realm].csrf] = p /\ (p # None => Realm(p[1]) = realm)
    BY <1>1, CookieNames, JarResult DEF BInv
  <2> QED BY <1>1, <2>1, <2>2 DEF BInv, TypeOK, OrNone
<1>4. h \in Tokens \cup {None} /\ p \in Tokens \cup {None}
  BY <1>3, MintedResult DEF OrNone
<1>5. PICK o : o = [NoCall EXCEPT !.pc = "ready", !.kind = "logout", !.realm = realm,
                                  !.header = h, !.page = p]
  OBVIOUS
<1>6. /\ o \in Call /\ o.pc = "ready" /\ o.kind = "logout" /\ o.realm = realm
      /\ o.header = h /\ o.page = p /\ o.token = None /\ o.sent = NoCookies
  BY <1>3, <1>4, <1>5, NoCallResult DEF Call, Kinds
<1>7. \A k \in Cookies : o.sent[k] = None
  BY <1>6 DEF NoCookies
<1>8. call'[c] = o
  BY <1>2, <1>5 DEF BInv, TypeOK
<1>9. ShapeOf(c)'
  BY <1>3, <1>6, <1>7, <1>8, CookieNames DEF ShapeOf, OrNone
<1> QED BY <1>2, <1>5, <1>6, <1>7, <1>9, PageStep DEF OrNone, Of

LEMMA SendKeeps ==
    ASSUME BInv, UNCHANGED readable,
           NEW c \in Calls, NEW kind \in Kinds, NEW realm \in Realms, Send(c, kind, realm)
    PROVE  BInv'
<1>1. PICK seen : seen = Attached(kind, realm) \cap Used(kind, realm)
  OBVIOUS
<1>2. PICK sent : sent = [k \in Cookies |-> IF k \in seen THEN jar[k] ELSE None]
  OBVIOUS
<1>3. /\ UNCHANGED <<jar, server, muddled>>
      /\ call' = [call EXCEPT ![c] = [@ EXCEPT !.pc = "sent", !.kind = kind, !.realm = realm,
                                               !.sent = sent]]
  BY <1>1, <1>2 DEF Send
<1>4. /\ \/ call[c].pc = "ready" /\ call[c].kind = kind /\ call[c].realm = realm
         \/ call[c].pc = "idle" /\ kind # "logout"
      /\ kind = "refresh" => realm = "user" \/ call[c].pc = "ready"
  BY DEF Send
<1>5. \A k \in Cookies : sent[k] \in OrNone(Minted) /\ sent[k] \in {jar[k], None}
  BY <1>2 DEF BInv, TypeOK, OrNone
<1>6. \A t \in OrNone(Minted) : t \in Tokens \cup {None}
  BY MintedResult DEF OrNone
<1>7. sent \in [Cookies -> Tokens \cup {None}]
  BY <1>2, <1>5, <1>6
<1>8. PICK o : o = [call[c] EXCEPT !.pc = "sent", !.kind = kind, !.realm = realm, !.sent = sent]
  OBVIOUS
<1>9. call[c] \in Call /\ call[c].token = None
  BY <1>4 DEF BInv, TypeOK, ShapeOf
<1>10. /\ o \in Call /\ o.pc = "sent" /\ o.kind = kind /\ o.realm = realm /\ o.sent = sent
       /\ o.header = call[c].header /\ o.page = call[c].page /\ o.token = None
  BY <1>7, <1>8, <1>9 DEF Call
<1>11. call' = [call EXCEPT ![c] = o] /\ call'[c] = o
  BY <1>3, <1>8 DEF BInv, TypeOK
<1>12. ShapeOf(c)'
  <2>1. kind = "refresh" => realm = "user"
    BY <1>4 DEF BInv, ShapeOf
  <2>2. \A k \in {"vc_rt", "csrf"} : sent[k] # None => Realm(sent[k][1]) = "user"
    <3>1. /\ jar["vc_rt"] # None => Realm(jar["vc_rt"][1]) = "user"
          /\ jar["csrf"] # None => jar["csrf"] = jar["vc_rt"]
      BY JarResult DEF BInv
    <3>2. sent["vc_rt"] \in {jar["vc_rt"], None} /\ sent["csrf"] \in {jar["csrf"], None}
      BY <1>5, CookieNames
    <3> QED BY <3>1, <3>2
  <2>3. kind = "logout" =>
            /\ call[c].header = IF realm \in readable THEN call[c].page ELSE None
            /\ call[c].header # None => Realm(call[c].header[1]) = realm
    BY <1>4 DEF BInv, ShapeOf
  <2>4. kind = "logout" /\ realm = "user" => sent["csrf"] = sent["vc_at"]
    <3> SUFFICES ASSUME kind = "logout", realm = "user" PROVE sent["csrf"] = sent["vc_at"]
      OBVIOUS
    <3>1. "csrf" \in seen /\ "vc_at" \in seen
      BY <1>1, CookieNames DEF Attached, Used
    <3> QED BY <1>2, <3>1, CookieNames, JarResult DEF BInv
  <2>5. Minted' = Minted
    BY <1>3, ServerRests DEF BInv
  <2> QED BY <1>5, <1>10, <1>11, <2>1, <2>2, <2>3, <2>4, <2>5 DEF ShapeOf, OrNone
<1>13. \A s : (\E k \in Cookies : Of(o.sent[k], s)) \/ Of(o.token, s) =>
           \E k \in Cookies : Of(jar[k], s) \/ Of(call[c].sent[k], s)
  BY <1>5, <1>10 DEF Of
<1>14. o.token \in OrNone(Minted)
  BY <1>10 DEF OrNone
<1> QED BY <1>3, <1>4, <1>10, <1>11, <1>12, <1>13, <1>14, PageStep

LEMMA RefuseKeeps ==
    ASSUME BInv, UNCHANGED readable, NEW c \in Calls, RefuseCsrf(c) \/ Refuse(c)
    PROVE  BInv'
<1>1. /\ call[c].pc \in {"sent", "revoke"} /\ call' = [call EXCEPT ![c] = NoCall]
      /\ UNCHANGED <<jar, server, muddled>>
  BY DEF RefuseCsrf, Refuse
<1>2. call'[c] = NoCall
  BY <1>1 DEF BInv, TypeOK
<1>3. ShapeOf(c)'
  BY <1>2, NoCallResult, CookieNames DEF ShapeOf, OrNone
<1> QED BY <1>1, <1>3, NoCallResult, PageStep DEF OrNone, Of

-----------------------------------------------------------------------------

(* The routes. *)

\* A call that goes on with a token and nothing else.
LEMMA GoesResult ==
    ASSUME TypeOK, NEW c \in Calls, NEW t \in Tokens, NEW pc \in {"revoke", "publish", "answer"},
           Goes(c, pc, t)
    PROVE  /\ call' \in [Calls -> Call] /\ \A d \in Calls \ {c} : call'[d] = call[d]
           /\ call'[c].pc = pc /\ call'[c].kind = call[c].kind /\ call'[c].realm = call[c].realm
           /\ call'[c].token = t /\ \A k \in Cookies : call'[c].sent[k] = None
<1>1. PICK o : o = [NoCall EXCEPT !.pc = pc, !.kind = call[c].kind, !.realm = call[c].realm,
                                  !.token = t]
  OBVIOUS
<1>2. call[c].kind \in Kinds /\ call[c].realm \in Realms
  BY DEF TypeOK, Call
<1>3. /\ o \in Call /\ o.pc = pc /\ o.kind = call[c].kind /\ o.realm = call[c].realm
      /\ o.token = t /\ o.sent = NoCookies
  BY <1>1, <1>2, NoCallResult DEF Call
<1>4. call' = [call EXCEPT ![c] = o]
  BY <1>1 DEF Goes
<1> QED BY <1>3, <1>4 DEF TypeOK, NoCookies

\* The guard lets no administrator's call pass, and a user's only with the
\* token its page had and could read.
LEMMA GuardResult ==
    ASSUME BInv, NEW c \in Calls, call[c].pc = "sent", call[c].kind = "logout", CsrfGuard(c)
    PROVE  call[c].realm = "user" /\ call[c].sent["vc_at"] = call[c].page
<1>1. call[c].realm \in {"user", "admin"}
  BY CookieNames DEF BInv, TypeOK, Call
<1>2. /\ call[c].sent["csrf"] # None /\ call[c].sent["csrf"] = call[c].header
      /\ call[c].header = call[c].page
  BY DEF CsrfGuard, BInv, ShapeOf
<1>3. Realm(call[c].header[1]) = call[c].realm /\ Realm(call[c].sent["csrf"][1]) = "user"
  BY <1>2 DEF BInv, ShapeOf
<1> QED BY <1>1, <1>2, <1>3 DEF BInv, ShapeOf

LEMMA BeginLogoutKeeps ==
    ASSUME BInv, UNCHANGED readable, NEW c \in Calls, BeginLogout(c)
    PROVE  BInv'
<1>1. PICK t : t = call[c].sent[Config[call[c].realm].access]
  OBVIOUS
<1>2. /\ call[c].pc = "sent" /\ call[c].kind = "logout" /\ Goes(c, "revoke", t)
      /\ UNCHANGED <<jar, server, muddled>>
  BY <1>1 DEF BeginLogout
<1>3. call[c].realm = "user" /\ t = call[c].sent["vc_at"] /\ t # None
  BY <1>1, <1>2, GuardResult, CookieNames DEF BeginLogout, Authenticated, GetCurrentUser
<1>4. t \in Minted /\ t \in Tokens
  BY <1>3, CookieNames, MintedResult DEF BInv, ShapeOf, OrNone
<1>5. /\ call' \in [Calls -> Call]
      /\ call'[c].pc = "revoke" /\ call'[c].kind = "logout" /\ call'[c].realm = call[c].realm
      /\ call'[c].token = t /\ \A k \in Cookies : call'[c].sent[k] = None
  BY <1>2, <1>4, GoesResult DEF BInv
<1>6. PICK o \in Call : o = call'[c] /\ call' = [call EXCEPT ![c] = o]
  BY <1>2, <1>5 DEF Goes, BInv, TypeOK
<1>7. ShapeOf(c)'
  <2>1. Minted' = Minted
    BY <1>2, ServerRests DEF BInv
  <2> QED BY <1>4, <1>5, <2>1, CookieNames DEF ShapeOf, OrNone
<1>8. \A s : (\E k \in Cookies : Of(o.sent[k], s)) \/ Of(o.token, s) =>
          \E k \in Cookies : Of(jar[k], s) \/ Of(call[c].sent[k], s)
  BY <1>3, <1>5, <1>6, CookieNames DEF Of
<1>9. o.token \in OrNone(Minted)
  BY <1>4, <1>5, <1>6 DEF OrNone
<1> QED BY <1>2, <1>5, <1>6, <1>7, <1>8, <1>9, PageStep

\* The commit of c's handler: only the row, the count of tokens and c change.
LEMMA CommitStep ==
    ASSUME BInv, UNCHANGED readable, TypeOK', Grows, Unborn', NEW c \in Calls, NEW t \in Tokens,
           UNCHANGED <<jar, access, index>>, muddled \subseteq muddled',
           \A d \in Calls \ {c} : call'[d] = call[d],
           call[c].pc \in {"sent", "revoke"}, call'[c].pc = "publish",
           call'[c].kind = call[c].kind, call'[c].token = t,
           \A k \in Cookies : call'[c].sent[k] = None,
           \A s \in Sessions : row'[s] = "active" => row[s] = "active" \/ minted[s] = 0,
           call[c].kind = "login" => minted[t[1]] = 0,
           call[c].kind = "login" \/ Of(call[c].token, t[1])
               \/ \E k \in Cookies : Of(call[c].sent[k], t[1]),
           call[c].kind = "refresh" /\ (\E d \in Calls : Open(d, t[1])) => t[1] \in muddled',
           ShapeOf(c)'
    PROVE  BInv'
<1>1. PICK s \in Sessions : s = t[1]
  BY TokenResult
<1>2. \A u \in Minted : u[1] \in Sessions /\ minted[u[1]] # 0
  <2>1. ASSUME NEW u \in Minted PROVE u[1] \in Sessions /\ minted[u[1]] # 0
    BY MintedResult
  <2> QED BY <2>1
<1>3. OneSessionPerRealm'
  BY DEF BInv, OneSessionPerRealm
<1>4. LoginAlone'
  <2> SUFFICES ASSUME NEW d \in Calls, call'[d].kind = "login", call'[d].pc \in {"publish", "answer"}
               PROVE  Unheld(d, call[d].token[1])' \/ (d = c /\ Unheld(c, s)')
    BY <1>1 DEF LoginAlone
  <2>1. CASE d = c
    <3>1. minted[s] = 0
      BY <1>1, <2>1
    <3>2. \A k \in Cookies : ~Of(jar[k], s)
      BY <1>2, <3>1 DEF BInv, TypeOK, Of, OrNone
    <3>3. \A e \in Calls : \A k \in Cookies : ~Of(call'[e].sent[k], s)
      BY <1>2, <3>1 DEF BInv, ShapeOf, Of, OrNone
    <3>4. \A e \in Calls \ {c} : ~Of(call'[e].token, s)
      BY <1>2, <3>1 DEF BInv, TypeOK, Of
    <3>5. Unheld(c, s)'
      BY <3>2, <3>3, <3>4 DEF Unheld
    <3> QED BY <2>1, <3>5
  <2>2. CASE d # c
    <3>1. PICK z : z = call[d].token[1]
      OBVIOUS
    <3>2. Unheld(d, z) /\ z \in Sessions /\ minted[z] # 0
      BY <1>2, <2>2, <3>1 DEF BInv, LoginAlone, ShapeOf
    <3>3. z # s
      BY <1>1, <2>2, <3>2 DEF Unheld
    <3>4. Unheld(d, z)'
      BY <1>1, <3>2, <3>3 DEF Unheld, Of
    <3>5. call'[d].token[1] = z
      BY <2>2, <3>1
    <3> QED BY <3>4, <3>5
  <2> QED BY <2>1, <2>2
<1>5. OneOpen'
  <2> SUFFICES ASSUME NEW z \in Sessions, z \notin muddled', NEW a \in Calls, NEW b \in Calls,
                      Open(a, z)', Open(b, z)'
               PROVE  a = b
    BY DEF OneOpen
  <2>1. \A d \in Calls \ {c} : Open(d, z)' => Open(d, z)
    BY DEF Open
  <2>2. Open(c, z)' => call[c].kind = "refresh" /\ z = s
    BY <1>1 DEF Open
  <2>3. CASE a # c /\ b # c
    BY <2>1, <2>3 DEF BInv, OneOpen
  <2>4. CASE a = c \/ b = c
    BY <1>1, <2>1, <2>2, <2>4
  <2> QED BY <2>3, <2>4
<1>6. ASSUME NEW d \in Calls PROVE AnswerGood(d)'
  <2>1. CASE d = c
    BY <2>1 DEF AnswerGood
  <2>2. CASE d # c
    <3>1. call[d].pc = "answer" => call[d].token \in Minted
      BY DEF BInv, ShapeOf
    <3> QED BY <1>2, <2>2, <3>1 DEF BInv, AnswerGood
  <2> QED BY <2>1, <2>2
<1>7. StrandedOnlyByRace'
  <2>1. jar["vc_at"] # None => jar["vc_at"] \in Minted
    BY CookieNames DEF BInv, TypeOK
  <2>2. \A z : \A d \in Calls : Open(d, z) => Open(d, z)'
    BY DEF Open
  <2> QED BY <1>2, <2>1, <2>2 DEF BInv, StrandedOnlyByRace
<1> QED BY <1>3, <1>4, <1>5, <1>6, <1>7, Together

LEMMA LoginKeeps ==
    ASSUME BInv, UNCHANGED readable, NEW c \in Calls, NEW s \in Sessions, Login(c, s)
    PROVE  BInv'
<1>1. /\ call[c].pc = "sent" /\ call[c].kind = "login" /\ call[c].realm = Realm(s)
      /\ row[s] = "none" /\ MaxMint[s] > 0
      /\ row' = [row EXCEPT ![s] = "active"] /\ minted' = [minted EXCEPT ![s] = 1]
      /\ Goes(c, "publish", <<s, 0>>) /\ UNCHANGED <<jar, access, index, muddled>>
  BY DEF Login
<1>2. PICK t \in Tokens : t = <<s, 0>> /\ t[1] = s /\ t[2] = 0
  BY <1>1, IsToken
<1>3. minted[s] = 0 /\ 1 <= MaxMint[s]
  BY <1>1, BoundsAssumption DEF BInv, Unborn
<1>4. /\ minted' \in [Sessions -> Nat] /\ \A z \in Sessions : minted'[z] <= MaxMint[z]
      /\ minted'[s] = 1 /\ \A z \in Sessions \ {s} : minted'[z] = minted[z]
      /\ row' \in [Sessions -> {"none", "active", "revoked"}]
      /\ row'[s] = "active" /\ \A z \in Sessions \ {s} : row'[z] = row[z]
  BY <1>1, <1>3, BoundsAssumption DEF BInv, TypeOK
<1>5. /\ call' \in [Calls -> Call] /\ \A d \in Calls \ {c} : call'[d] = call[d]
      /\ call'[c].pc = "publish" /\ call'[c].kind = call[c].kind
      /\ call'[c].realm = call[c].realm
      /\ call'[c].token = t /\ \A k \in Cookies : call'[c].sent[k] = None
  BY <1>1, <1>2, GoesResult DEF BInv
<1>6. Grows /\ Unborn'
  <2>1. \A z \in Sessions : minted[z] \in Nat
    BY BoundsAssumption DEF BInv, TypeOK
  <2> QED BY <1>1, <1>3, <1>4, <2>1 DEF BInv, Grows, Unborn
<1>7. Minted \subseteq Minted' /\ t \in Minted'
  <2>1. ASSUME NEW u \in Minted PROVE u \in Minted'
    <3>1. u \in Tokens /\ u[1] \in Sessions /\ u[2] \in Nat /\ u[2] < minted[u[1]]
      BY MintedResult
    <3>2. u[1] # s
      BY <1>3, <3>1
    <3> QED BY <1>4, <3>1, <3>2 DEF Minted
  <2> QED BY <1>2, <1>4, <2>1 DEF Minted
<1>8. TypeOK'
  <2>1. \A d \in Calls : call'[d].token \in OrNone(Minted')
    BY <1>5, <1>7 DEF BInv, TypeOK, OrNone
  <2> QED BY <1>1, <1>4, <1>5, <1>7, <2>1 DEF BInv, TypeOK, OrNone
<1>9. ShapeOf(c)'
  BY <1>1, <1>2, <1>5, <1>7, CookieNames DEF ShapeOf, OrNone, Realm
<1>10. \A z \in Sessions : row'[z] = "active" => row[z] = "active" \/ minted[z] = 0
  BY <1>3, <1>4
<1> QED BY <1>1, <1>2, <1>3, <1>5, <1>6, <1>8, <1>9, <1>10, CommitStep

LEMMA RefreshKeeps ==
    ASSUME BInv, UNCHANGED readable, NEW c \in Calls, NEW s \in Sessions, Refresh(c, s)
    PROVE  BInv'
<1>1. PICK n : n = minted[s]
  OBVIOUS
<1>2. /\ call[c].pc = "sent" /\ call[c].kind = "refresh"
      /\ call[c].sent["vc_rt"] = <<s, 0>> /\ row[s] = "active" /\ n < MaxMint[s]
      /\ minted' = [minted EXCEPT ![s] = n + 1]
      /\ Goes(c, "publish", <<s, n>>)
      /\ muddled' = IF \E d \in Calls : Open(d, s) THEN muddled \cup {s} ELSE muddled
      /\ UNCHANGED <<jar, row, access, index>>
  BY <1>1 DEF Refresh
<1>3. n \in Nat /\ MaxMint[s] \in Nat /\ n + 1 <= MaxMint[s]
  <2>1. n \in Nat
    BY <1>1 DEF BInv, TypeOK
  <2>2. MaxMint[s] \in Nat
    BY BoundsAssumption
  <2> QED BY <1>2, <2>1, <2>2
<1>4. PICK t \in Tokens : t = <<s, n>> /\ t[1] = s /\ t[2] = n
  BY <1>2, <1>3, IsToken
<1>5. /\ minted' \in [Sessions -> Nat] /\ \A z \in Sessions : minted'[z] <= MaxMint[z]
      /\ minted'[s] = n + 1 /\ \A z \in Sessions \ {s} : minted'[z] = minted[z]
  BY <1>2, <1>3, BoundsAssumption DEF BInv, TypeOK
<1>6. /\ call' \in [Calls -> Call] /\ \A d \in Calls \ {c} : call'[d] = call[d]
      /\ call'[c].pc = "publish" /\ call'[c].kind = call[c].kind
      /\ call'[c].realm = call[c].realm
      /\ call'[c].token = t /\ \A k \in Cookies : call'[c].sent[k] = None
  BY <1>2, <1>4, GoesResult DEF BInv
<1>7. Grows /\ Unborn'
  <2>1. \A z \in Sessions : minted[z] \in Nat
    BY BoundsAssumption DEF BInv, TypeOK
  <2> QED BY <1>1, <1>2, <1>5, <2>1 DEF BInv, Grows, Unborn
<1>8. Minted \subseteq Minted' /\ t \in Minted'
  <2>1. ASSUME NEW u \in Minted PROVE u \in Minted'
    <3>1. u \in Tokens /\ u[1] \in Sessions /\ u[2] \in Nat /\ u[2] < minted[u[1]]
      BY MintedResult
    <3>2. u[2] < minted'[u[1]]
      BY <1>1, <1>3, <1>5, <3>1
    <3> QED BY <3>1, <3>2 DEF Minted
  <2> QED BY <1>3, <1>4, <1>5, <2>1 DEF Minted
<1>9. TypeOK'
  <2>1. \A d \in Calls : call'[d].token \in OrNone(Minted')
    BY <1>6, <1>8 DEF BInv, TypeOK, OrNone
  <2> QED BY <1>2, <1>5, <1>6, <1>8, <2>1 DEF BInv, TypeOK, OrNone
<1>10. call[c].realm = "user" /\ Realm(s) = "user" /\ Of(call[c].sent["vc_rt"], s)
  <2>1. call[c].sent["vc_rt"] # None
    BY <1>2, SessionsAssumption
  <2> QED BY <1>2, <2>1 DEF BInv, ShapeOf, Of
<1>11. ShapeOf(c)'
  BY <1>2, <1>4, <1>6, <1>8, <1>10, CookieNames DEF ShapeOf, OrNone, Realm
<1> QED BY <1>2, <1>4, <1>6, <1>7, <1>9, <1>10, <1>11, CookieNames, CommitStep

LEMMA CommitLogoutKeeps ==
    ASSUME BInv, UNCHANGED readable, NEW c \in Calls, CommitLogout(c)
    PROVE  BInv'
<1>1. PICK t : t = call[c].token
  OBVIOUS
<1>2. /\ call[c].pc = "revoke" /\ row' = [row EXCEPT ![t[1]] = "revoked"]
      /\ Goes(c, "publish", t) /\ UNCHANGED <<jar, minted, access, index, muddled>>
  BY <1>1 DEF CommitLogout
<1>3. t \in Minted /\ t \in Tokens /\ t[1] \in Sessions /\ t # None /\ call[c].kind = "logout"
  <2>1. t \in Minted
    BY <1>1, <1>2 DEF BInv, ShapeOf
  <2>2. call[c].kind = "logout"
    BY <1>2 DEF BInv, ShapeOf
  <2> QED BY <2>1, <2>2, MintedResult
<1>4. /\ call' \in [Calls -> Call] /\ \A d \in Calls \ {c} : call'[d] = call[d]
      /\ call'[c].pc = "publish" /\ call'[c].kind = call[c].kind
      /\ call'[c].token = t /\ \A k \in Cookies : call'[c].sent[k] = None
  BY <1>2, <1>3, GoesResult DEF BInv
<1>5. /\ row' \in [Sessions -> {"none", "active", "revoked"}] /\ row'[t[1]] = "revoked"
      /\ \A z \in Sessions \ {t[1]} : row'[z] = row[z]
  BY <1>2, <1>3 DEF BInv, TypeOK
<1>6. Grows /\ Unborn' /\ Minted' = Minted
  <2>1. \A z \in Sessions : minted[z] \in Nat
    BY BoundsAssumption DEF BInv, TypeOK
  <2> QED BY <1>2, <1>5, <2>1 DEF BInv, Grows, Unborn, Minted
<1>7. TypeOK'
  <2>1. \A d \in Calls : call'[d].token \in OrNone(Minted)
    BY <1>3, <1>4 DEF BInv, TypeOK, OrNone
  <2> QED BY <1>2, <1>4, <1>5, <1>6, <2>1 DEF BInv, TypeOK, OrNone
<1>8. ShapeOf(c)'
  BY <1>3, <1>4, <1>5, <1>6, CookieNames DEF ShapeOf, OrNone
<1>9. \A z \in Sessions : row'[z] = "active" => row[z] = "active" \/ minted[z] = 0
  BY <1>5
<1> QED BY <1>1, <1>2, <1>3, <1>4, <1>6, <1>7, <1>8, <1>9, CommitStep DEF Of

-----------------------------------------------------------------------------

(* The cache and the answers. *)

LEMMA EvictResult ==
    ASSUME TypeOK, NEW s \in Sessions, NEW t \in Tokens \cup {None}, Evict(s, t)
    PROVE  /\ access' \in [Tokens -> {"none", "live", "evicted"}]
           /\ index' \in [Sessions -> Nat \cup {None}]
           /\ \A u \in Tokens : access'[u] = "evicted" => access[u] = "evicted" \/ u[1] = s
           /\ t \in Tokens => access'[t] = "live"
<1>1. access' \in [Tokens -> {"none", "live", "evicted"}]
  BY DEF Evict, TypeOK
<1>2. PICK n : n = IF t = None THEN None ELSE t[2]
  OBVIOUS
<1>3. n \in Nat \cup {None} /\ index' = [index EXCEPT ![s] = n]
  BY <1>2, TokenResult DEF Evict
<1>4. index' \in [Sessions -> Nat \cup {None}]
  BY <1>3 DEF TypeOK
<1>5. \A u \in Tokens : access'[u] = "evicted" => access[u] = "evicted" \/ u[1] = s
  <2> SUFFICES ASSUME NEW u \in Tokens, access'[u] = "evicted", access[u] # "evicted"
               PROVE  u[1] = s
    OBVIOUS
  <2>1. u = <<s, index[s]>>
    BY DEF Evict
  <2> QED BY <2>1
<1>6. t \in Tokens => access'[t] = "live"
  BY DEF Evict
<1> QED BY <1>1, <1>4, <1>5, <1>6

\* The cache's part of c's handler, or the loss of its answer: tokens are
\* evicted only of the session c is about.
LEMMA CacheStep ==
    ASSUME BInv, UNCHANGED readable, TypeOK', NEW c \in Calls, NEW s \in Sessions,
           call[c].pc \in {"publish", "answer"}, s = call[c].token[1],
           UNCHANGED <<jar, row, minted>>, muddled \subseteq muddled',
           \A d \in Calls \ {c} : call'[d] = call[d],
           \A u \in Tokens : access'[u] = "evicted" => access[u] = "evicted" \/ u[1] = s,
           \A z : Open(c, z)' => Open(c, z),
           Open(c, s) => s \in muddled' \/ Open(c, s)',
           \A k \in Cookies : call'[c].sent[k] = None,
           call'[c].token \in {None, call[c].token},
           call'[c].pc \in {"publish", "answer"} =>
               call'[c].kind = call[c].kind /\ call'[c].token = call[c].token,
           ShapeOf(c)', AnswerGood(c)'
    PROVE  BInv'
<1>1. Grows /\ Unborn'
  <2>1. \A z \in Sessions : minted[z] \in Nat
    BY DEF BInv, TypeOK
  <2> QED BY <2>1 DEF BInv, Grows, Unborn
<1>2. Of(call[c].token, s) /\ call[c].kind \in {"login", "refresh", "logout"}
  BY MintedResult DEF BInv, ShapeOf, TypeOK, Call, Kinds, Of
<1>3. OneSessionPerRealm'
  BY DEF BInv, OneSessionPerRealm
<1>4. LoginAlone'
  <2> SUFFICES ASSUME NEW d \in Calls, call'[d].kind = "login", call'[d].pc \in {"publish", "answer"}
               PROVE  Unheld(d, call[d].token[1])' \/ (d = c /\ Unheld(c, s)')
    BY DEF LoginAlone
  <2>1. PICK z : z = call[d].token[1]
    OBVIOUS
  <2>2. call'[d].token = call[d].token /\ Unheld(d, z)
    BY <2>1 DEF BInv, LoginAlone
  <2>3. \A e \in Calls : \A k \in Cookies : ~Of(call'[e].sent[k], z)
    BY <2>2 DEF Unheld, Of
  <2>4. \A e \in Calls \ {d} : ~Of(call'[e].token, z)
    BY <2>2 DEF Unheld, Of
  <2>5. Unheld(d, z)'
    BY <2>2, <2>3, <2>4 DEF Unheld
  <2>6. call'[d].token[1] = z
    BY <2>1, <2>2
  <2> QED BY <2>1, <2>5, <2>6
<1>5. OneOpen'
  <2>1. \A d \in Calls : \A z : Open(d, z)' => Open(d, z)
    BY DEF Open
  <2> QED BY <2>1 DEF BInv, OneOpen
<1>6. ASSUME NEW d \in Calls \ {c} PROVE AnswerGood(d)'
  <2> SUFFICES ASSUME call[d].pc = "answer", call[d].kind # "logout",
                      call[d].token[1] \notin muddled', row[call[d].token[1]] = "active",
                      access'[call[d].token] = "evicted"
               PROVE  FALSE
    BY DEF AnswerGood
  <2>1. call[d].token \in Tokens /\ call[d].token # None
    BY MintedResult DEF BInv, ShapeOf
  <2>2. access[call[d].token] # "evicted"
    BY DEF BInv, AnswerGood
  <2>3. Of(call[d].token, s) /\ s \notin muddled /\ row[s] = "active"
    BY <2>1, <2>2 DEF Of
  <2>4. call[d].kind \in {"login", "refresh"}
    BY DEF BInv, TypeOK, Call, Kinds
  <2>5. call[d].kind # "login"
    BY <1>2, <2>3 DEF BInv, LoginAlone, Unheld, Of
  <2>6. call[c].kind # "login"
    BY <2>3 DEF BInv, LoginAlone, Unheld, Of
  <2>7. call[c].kind # "logout"
    BY <2>3 DEF BInv, ShapeOf
  <2>8. Open(c, s) /\ Open(d, s)
    BY <1>2, <2>3, <2>4, <2>5, <2>6, <2>7 DEF Open, Of
  <2> QED BY <2>3, <2>8 DEF BInv, OneOpen
<1>7. StrandedOnlyByRace'
  <2> SUFFICES ASSUME jar["vc_at"] # None, access'[jar["vc_at"]] = "evicted",
                      row[jar["vc_at"][1]] = "active",
                      \A d \in Calls : ~Open(d, jar["vc_at"][1])',
                      jar["vc_at"][1] \notin muddled'
               PROVE  FALSE
    BY DEF StrandedOnlyByRace
  <2>1. PICK z : z = jar["vc_at"][1]
    OBVIOUS
  <2>2. jar["vc_at"] \in Tokens /\ z \in Sessions
    BY <2>1, CookieNames, MintedResult DEF BInv, TypeOK
  <2>3. \A d \in Calls : ~Open(d, z)
    <3>1. \A d \in Calls : ~Open(d, z)'
      BY <2>1 DEF Open
    <3>2. \A d \in Calls \ {c} : ~Open(d, z)
      BY <3>1 DEF Open
    <3>3. Open(c, z) => z = s
      BY DEF Open
    <3> QED BY <2>1, <3>1, <3>2, <3>3
  <2>4. access[jar["vc_at"]] # "evicted"
    BY <2>1, <2>3 DEF BInv, StrandedOnlyByRace
  <2>5. z = s
    BY <2>1, <2>2, <2>4
  <2>6. call[c].kind # "refresh"
    BY <2>3, <2>5 DEF Open
  <2>7. call[c].kind # "login"
    BY <2>1, <2>5, CookieNames DEF BInv, LoginAlone, Unheld, Of
  <2>8. call[c].kind # "logout"
    BY <2>1, <2>5 DEF BInv, ShapeOf
  <2> QED BY <1>2, <2>6, <2>7, <2>8
<1>8. \A d \in Calls : AnswerGood(d)'
  BY <1>6
<1> QED BY <1>1, <1>3, <1>4, <1>5, <1>7, <1>8, Together

LEMMA PublishKeeps ==
    ASSUME BInv, UNCHANGED readable, NEW c \in Calls, Publish(c)
    PROVE  BInv'
<1>1. PICK t, u : t = call[c].token /\ u = IF call[c].kind = "logout" THEN None ELSE t
  OBVIOUS
<1>2. /\ call[c].pc = "publish" /\ Evict(t[1], u) /\ Goes(c, "answer", t)
      /\ UNCHANGED <<jar, row, minted, muddled>>
  BY <1>1 DEF Publish
<1>3. t \in Minted /\ t \in Tokens /\ t[1] \in Sessions /\ u \in Tokens \cup {None}
  <2>1. t \in Minted
    BY <1>1, <1>2 DEF BInv, ShapeOf
  <2> QED BY <1>1, <2>1, MintedResult
<1>4. /\ access' \in [Tokens -> {"none", "live", "evicted"}]
      /\ index' \in [Sessions -> Nat \cup {None}]
      /\ \A v \in Tokens : access'[v] = "evicted" => access[v] = "evicted" \/ v[1] = t[1]
      /\ u \in Tokens => access'[u] = "live"
  BY <1>2, <1>3, EvictResult DEF BInv
<1>5. /\ call' \in [Calls -> Call] /\ \A d \in Calls \ {c} : call'[d] = call[d]
      /\ call'[c].pc = "answer" /\ call'[c].kind = call[c].kind
      /\ call'[c].realm = call[c].realm
      /\ call'[c].token = t /\ \A k \in Cookies : call'[c].sent[k] = None
  BY <1>2, <1>3, GoesResult DEF BInv
<1>6. Minted' = Minted
  BY <1>2 DEF Minted
<1>7. TypeOK'
  <2>1. \A d \in Calls : call'[d].token \in OrNone(Minted)
    BY <1>3, <1>5 DEF BInv, TypeOK, OrNone
  <2> QED BY <1>2, <1>4, <1>5, <1>6, <2>1 DEF BInv, TypeOK, OrNone
<1>8. ShapeOf(c)'
  <2>1. IF call[c].kind = "logout" THEN row[t[1]] = "revoked" ELSE Realm(t[1]) = call[c].realm
    BY <1>1, <1>2 DEF BInv, ShapeOf
  <2>2. call[c].kind = "refresh" => call[c].realm = "user"
    BY DEF BInv, ShapeOf
  <2> QED BY <1>2, <1>3, <1>5, <1>6, <2>1, <2>2, CookieNames DEF ShapeOf, OrNone, Realm
<1>9. AnswerGood(c)'
  BY <1>1, <1>3, <1>4, <1>5 DEF AnswerGood
<1>10. \A z : Open(c, z)' <=> Open(c, z)
  BY <1>1, <1>2, <1>5 DEF Open
<1> QED BY <1>1, <1>2, <1>3, <1>4, <1>5, <1>7, <1>8, <1>9, <1>10, CacheStep

LEMMA LoseKeeps ==
    ASSUME BInv, UNCHANGED readable, NEW c \in Calls, Lose(c)
    PROVE  BInv'
<1>1. PICK t : t = call[c].token
  OBVIOUS
<1>2. /\ call[c].pc \in {"publish", "answer"} /\ call' = [call EXCEPT ![c] = NoCall]
      /\ UNCHANGED <<access, index>> \/ Evict(t[1], None)
      /\ muddled' = IF call[c].kind = "refresh" THEN muddled \cup {t[1]} ELSE muddled
      /\ UNCHANGED <<jar, row, minted>>
  BY <1>1 DEF Lose
<1>3. t \in Minted /\ t[1] \in Sessions
  <2>1. t \in Minted
    BY <1>1, <1>2 DEF BInv, ShapeOf
  <2> QED BY <2>1, MintedResult
<1>4. /\ access' \in [Tokens -> {"none", "live", "evicted"}]
      /\ index' \in [Sessions -> Nat \cup {None}]
      /\ \A v \in Tokens : access'[v] = "evicted" => access[v] = "evicted" \/ v[1] = t[1]
  <2>1. CASE UNCHANGED <<access, index>>
    BY <2>1 DEF BInv, TypeOK
  <2>2. CASE Evict(t[1], None)
    BY <1>3, <2>2, EvictResult DEF BInv
  <2> QED BY <1>2, <2>1, <2>2
<1>5. /\ call' \in [Calls -> Call] /\ \A d \in Calls \ {c} : call'[d] = call[d]
      /\ call'[c] = NoCall
  BY <1>2, NoCallResult DEF BInv, TypeOK
<1>6. Minted' = Minted
  BY <1>2 DEF Minted
<1>7. TypeOK'
  <2>1. \A d \in Calls : call'[d].token \in OrNone(Minted)
    BY <1>5, NoCallResult DEF BInv, TypeOK, OrNone
  <2>2. muddled' \subseteq Sessions
    BY <1>2, <1>3 DEF BInv, TypeOK
  <2> QED BY <1>2, <1>4, <1>5, <1>6, <2>1, <2>2 DEF BInv, TypeOK, OrNone
<1>8. ShapeOf(c)' /\ AnswerGood(c)'
  BY <1>5, NoCallResult, CookieNames DEF ShapeOf, AnswerGood, OrNone
<1>9. \A z : ~Open(c, z)'
  BY <1>5, NoCallResult DEF Open
<1>10. muddled \subseteq muddled' /\ (Open(c, t[1]) => t[1] \in muddled')
  BY <1>2 DEF Open
<1>11. \A k \in Cookies : call'[c].sent[k] = None
  BY <1>5, NoCallResult
<1>12. call'[c].token = None /\ call'[c].pc = "idle"
  BY <1>5, NoCallResult
<1> QED BY <1>1, <1>2, <1>3, <1>4, <1>5, <1>7, <1>8, <1>9, <1>10, <1>11, <1>12, CacheStep

LEMMA DeliverKeeps ==
    ASSUME BInv, UNCHANGED readable, NEW c \in Calls, Deliver(c)
    PROVE  BInv'
<1>1. PICK t, v, m : /\ t = call[c].token /\ m = call[c].realm
                     /\ v = IF call[c].kind = "logout" THEN None ELSE t
  OBVIOUS
<1>2. /\ call[c].pc = "answer" /\ jar' = Put(Config[m], v)
      /\ call' = [call EXCEPT ![c] = NoCall] /\ UNCHANGED <<server, muddled>>
  BY <1>1 DEF Deliver, ConfigOf
<1>3. /\ t \in Minted /\ t # None /\ v \in OrNone(Minted) /\ m \in {"user", "admin"}
      /\ v # None => Realm(v[1]) = m /\ v = t /\ call[c].kind # "logout"
  <2>1. t \in Minted /\ (call[c].kind # "logout" => Realm(t[1]) = m)
    BY <1>1, <1>2 DEF BInv, ShapeOf
  <2>2. m \in {"user", "admin"}
    BY <1>1, CookieNames DEF BInv, TypeOK, Call
  <2> QED BY <1>1, <2>1, <2>2, MintedResult DEF OrNone
<1>4. /\ call' \in [Calls -> Call] /\ \A d \in Calls \ {c} : call'[d] = call[d]
      /\ call'[c] = NoCall
  BY <1>2, NoCallResult DEF BInv, TypeOK
<1>5. Grows /\ Unborn' /\ Minted' = Minted
  BY <1>2, ServerRests DEF BInv
<1>6. /\ jar' \in [Cookies -> OrNone(Minted)]
      /\ \A k \in Cookies : jar'[k] \in {jar[k], v}
      /\ m = "user" => /\ jar'["vc_at"] = v /\ jar'["vc_rt"] = v /\ jar'["csrf"] = v
                       /\ jar'["admin_at"] = jar["admin_at"] /\ jar'["admin_rt"] = jar["admin_rt"]
                       /\ jar'["admin_csrf"] = jar["admin_csrf"]
      /\ m = "admin" => /\ jar'["admin_at"] = v /\ jar'["admin_rt"] = v /\ jar'["admin_csrf"] = v
                        /\ jar'["vc_at"] = jar["vc_at"] /\ jar'["vc_rt"] = jar["vc_rt"]
                        /\ jar'["csrf"] = jar["csrf"]
  <2>1. jar \in [Cookies -> OrNone(Minted)]
    BY DEF BInv, TypeOK, OrNone
  <2>2. CASE m = "user"
    <3>1. jar' = [jar EXCEPT !["vc_at"] = v, !["vc_rt"] = v, !["csrf"] = v]
      BY <1>2, <2>2, CookieNames DEF Put
    <3> QED BY <1>3, <2>1, <2>2, <3>1, CookieNames
  <2>3. CASE m = "admin"
    <3>1. jar' = [jar EXCEPT !["admin_at"] = v, !["admin_rt"] = v, !["admin_csrf"] = v]
      BY <1>2, <2>3, CookieNames DEF Put
    <3> QED BY <1>3, <2>1, <2>3, <3>1, CookieNames
  <2> QED BY <1>3, <2>2, <2>3
<1>7. TypeOK'
  <2>1. \A d \in Calls : call'[d].token \in OrNone(Minted)
    BY <1>4, NoCallResult DEF BInv, TypeOK, OrNone
  <2> QED BY <1>2, <1>4, <1>5, <1>6, <2>1 DEF BInv, TypeOK, OrNone, server
<1>8. ShapeOf(c)' /\ AnswerGood(c)'
  BY <1>4, NoCallResult, CookieNames DEF ShapeOf, AnswerGood, OrNone
<1>9. OneSessionPerRealm'
  <2>1. /\ jar'["csrf"] = jar'["vc_at"] /\ (jar'["vc_at"] # None => jar'["vc_rt"] = jar'["vc_at"])
        /\ jar'["vc_rt"] # None => Realm(jar'["vc_rt"][1]) = "user"
    BY <1>3, <1>6, JarResult DEF BInv
  <2>2. /\ jar'["admin_csrf"] = jar'["admin_at"]
        /\ jar'["admin_at"] # None => jar'["admin_rt"] = jar'["admin_at"]
        /\ jar'["admin_rt"] # None => Realm(jar'["admin_rt"][1]) = "admin"
    BY <1>3, <1>6, JarResult DEF BInv
  <2> QED BY <2>1, <2>2, CookieNames DEF OneSessionPerRealm, Realm
<1>10. LoginAlone'
  <2> SUFFICES ASSUME NEW d \in Calls, call'[d].kind = "login", call'[d].pc \in {"publish", "answer"}
               PROVE  Unheld(d, call[d].token[1])'
    BY DEF LoginAlone
  <2>1. PICK z : z = call[d].token[1]
    OBVIOUS
  <2>2. d # c /\ call'[d] = call[d]
    BY <1>4, NoCallResult
  <2>3. Unheld(d, z)
    BY <2>1, <2>2 DEF BInv, LoginAlone
  <2>4. \A k \in Cookies : ~Of(jar'[k], z)
    <3>1. ~Of(t, z)
      BY <1>1, <2>2, <2>3 DEF Unheld
    <3> QED BY <1>3, <1>6, <2>3, <3>1 DEF Unheld, Of
  <2>5. \A e \in Calls : \A k \in Cookies : ~Of(call'[e].sent[k], z)
    BY <1>4, <2>3, NoCallResult DEF Unheld, Of
  <2>6. \A e \in Calls \ {d} : ~Of(call'[e].token, z)
    BY <1>4, <2>3, NoCallResult DEF Unheld, Of
  <2>7. Unheld(d, z)'
    BY <2>4, <2>5, <2>6 DEF Unheld
  <2>8. call'[d].token[1] = z
    BY <2>1, <2>2
  <2> QED BY <2>7, <2>8
<1>11. OneOpen'
  <2>1. \A d \in Calls : \A z : Open(d, z)' => Open(d, z)
    BY <1>4, NoCallResult DEF Open
  <2> QED BY <1>2, <2>1 DEF BInv, OneOpen
<1>12. \A d \in Calls : AnswerGood(d)'
  BY <1>2, <1>4, <1>8 DEF BInv, AnswerGood, server
<1>13. StrandedOnlyByRace'
  <2>1. CASE m = "user"
    <3>1. v # None => v[1] \in muddled \/ row[v[1]] # "active" \/ access[v] # "evicted"
      BY <1>1, <1>2, <1>3 DEF BInv, AnswerGood
    <3> QED BY <1>2, <1>6, <2>1, <3>1 DEF StrandedOnlyByRace, server
  <2>2. CASE m = "admin"
    <3>1. call[c].kind # "refresh"
      BY <1>1, <2>2 DEF BInv, ShapeOf
    <3>2. \A z : \A d \in Calls : Open(d, z) => Open(d, z)'
      BY <1>4, <3>1 DEF Open
    <3> QED BY <1>2, <1>6, <2>2, <3>2 DEF BInv, StrandedOnlyByRace, server
  <2> QED BY <1>3, <2>1, <2>2
<1> QED BY <1>4, <1>5, <1>7, <1>8, <1>9, <1>10, <1>11, <1>12, <1>13, Together

-----------------------------------------------------------------------------

(* Time. *)

LEMMA TokenExpiresKeeps ==
    ASSUME BInv, UNCHANGED readable, NEW t \in Tokens, TokenExpires(t)
    PROVE  BInv'
<1>1. /\ access' = [access EXCEPT ![t] = "none"]
      /\ UNCHANGED <<jar, call, row, minted, index, muddled>>
  BY DEF TokenExpires
<1>2. \A u \in Tokens : access'[u] = "evicted" => access[u] = "evicted"
  BY <1>1 DEF BInv, TypeOK
<1>3. TypeOK'
  <2>1. Minted' = Minted
    BY <1>1 DEF Minted
  <2> QED BY <1>1, <2>1 DEF BInv, TypeOK
<1>4. OneSessionPerRealm'
  BY <1>1 DEF BInv, OneSessionPerRealm
<1> QED BY <1>1, <1>2, <1>3, <1>4, TimeStep

LEMMA CookiesExpireKeeps ==
    ASSUME BInv, UNCHANGED readable, NEW m \in Realms, CookiesExpire(m)
    PROVE  BInv'
<1>1. /\ jar' = [jar EXCEPT ![Config[m].access] = None, ![Config[m].csrf] = None]
      /\ UNCHANGED <<call, server, muddled>>
  BY DEF CookiesExpire
<1>2. jar \in [Cookies -> OrNone(Minted)] /\ m \in {"user", "admin"}
  BY CookieNames DEF BInv, TypeOK, OrNone
<1>3. /\ jar' \in [Cookies -> OrNone(Minted)]
      /\ \A k \in Cookies : jar'[k] \in {jar[k], None}
      /\ m = "user" => /\ jar'["vc_at"] = None /\ jar'["csrf"] = None
                       /\ jar'["vc_rt"] = jar["vc_rt"]
                       /\ jar'["admin_at"] = jar["admin_at"] /\ jar'["admin_rt"] = jar["admin_rt"]
                       /\ jar'["admin_csrf"] = jar["admin_csrf"]
      /\ m = "admin" => /\ jar'["admin_at"] = None /\ jar'["admin_csrf"] = None
                        /\ jar'["admin_rt"] = jar["admin_rt"]
                        /\ jar'["vc_at"] = jar["vc_at"] /\ jar'["vc_rt"] = jar["vc_rt"]
                        /\ jar'["csrf"] = jar["csrf"]
  <2>1. CASE m = "user"
    <3>1. jar' = [jar EXCEPT !["vc_at"] = None, !["csrf"] = None]
      BY <1>1, <2>1, CookieNames
    <3> QED BY <1>2, <2>1, <3>1, CookieNames DEF OrNone
  <2>2. CASE m = "admin"
    <3>1. jar' = [jar EXCEPT !["admin_at"] = None, !["admin_csrf"] = None]
      BY <1>1, <2>2, CookieNames
    <3> QED BY <1>2, <2>2, <3>1, CookieNames DEF OrNone
  <2> QED BY <1>2, <2>1, <2>2
<1>4. OneSessionPerRealm'
  <2>1. /\ jar'["csrf"] = jar'["vc_at"] /\ (jar'["vc_at"] # None => jar'["vc_rt"] = jar'["vc_at"])
        /\ jar'["vc_rt"] # None => Realm(jar'["vc_rt"][1]) = "user"
        /\ jar'["admin_csrf"] = jar'["admin_at"]
        /\ jar'["admin_at"] # None => jar'["admin_rt"] = jar'["admin_at"]
        /\ jar'["admin_rt"] # None => Realm(jar'["admin_rt"][1]) = "admin"
    BY <1>2, <1>3, JarResult DEF BInv
  <2> QED BY <2>1, CookieNames DEF OneSessionPerRealm, Realm
<1>5. TypeOK'
  <2>1. Minted' = Minted
    BY <1>1 DEF Minted, server
  <2> QED BY <1>1, <1>3, <2>1 DEF BInv, TypeOK, OrNone, server
<1> QED BY <1>1, <1>3, <1>4, <1>5, TimeStep DEF server

-----------------------------------------------------------------------------

LEMMA InitHolds == Init => BInv
<1> SUFFICES ASSUME Init PROVE BInv
  OBVIOUS
<1>1. /\ \A k \in Cookies : jar[k] = None
      /\ \A c \in Calls : call[c] = NoCall
      /\ \A s \in Sessions : minted[s] = 0 /\ row[s] = "none"
  BY DEF Init, NoCookies
<1>2. TypeOK
  <2>1. \A s \in Sessions : MaxMint[s] \in Nat
    BY BoundsAssumption
  <2> QED BY <1>1, <2>1, NoCallResult DEF Init, TypeOK, NoCookies
<1>3. ASSUME NEW c \in Calls PROVE ShapeOf(c) /\ AnswerGood(c)
  BY <1>1, NoCallResult, CookieNames DEF ShapeOf, AnswerGood, OrNone
<1>4. OneSessionPerRealm
  BY <1>1, CookieNames DEF OneSessionPerRealm
<1>5. LoginAlone /\ OneOpen
  BY <1>1, NoCallResult DEF LoginAlone, OneOpen, Open
<1>6. StrandedOnlyByRace
  BY <1>1, CookieNames DEF StrandedOnlyByRace
<1> QED BY <1>1, <1>2, <1>3, <1>4, <1>5, <1>6 DEF BInv, Unborn

LEMMA NextKeeps == BInv /\ [Next]_vars => BInv'
<1> SUFFICES ASSUME BInv, [Next]_vars PROVE BInv'
  OBVIOUS
<1>0. UNCHANGED readable
  BY DEF Next, vars
<1> USE <1>0
<1>1. CASE UNCHANGED vars
  <2>1. TypeOK' /\ OneSessionPerRealm'
    BY <1>1 DEF BInv, TypeOK, OneSessionPerRealm, Minted, vars, server
  <2> QED BY <1>1, <2>1, TimeStep DEF vars, server
<1>2. ASSUME NEW c \in Calls, NEW realm \in Realms, Prepare(c, realm) PROVE BInv'
  BY <1>2, PrepareKeeps
<1>3. ASSUME NEW c \in Calls, NEW realm \in Realms, NEW kind \in Kinds, Send(c, kind, realm)
      PROVE BInv'
  BY <1>3, SendKeeps
<1>4. ASSUME NEW c \in Calls, Serve(c) PROVE BInv'
  <2>1. ASSUME NEW s \in Sessions, Login(c, s) PROVE BInv'
    BY <2>1, LoginKeeps
  <2>2. ASSUME NEW s \in Sessions, Refresh(c, s) PROVE BInv'
    BY <2>2, RefreshKeeps
  <2>3. CASE BeginLogout(c)
    BY <2>3, BeginLogoutKeeps
  <2>4. CASE CommitLogout(c)
    BY <2>4, CommitLogoutKeeps
  <2>5. CASE RefuseCsrf(c) \/ Refuse(c)
    BY <2>5, RefuseKeeps
  <2>6. CASE Publish(c)
    BY <2>6, PublishKeeps
  <2> QED BY <1>4, <2>1, <2>2, <2>3, <2>4, <2>5, <2>6 DEF Serve
<1>5. ASSUME NEW c \in Calls, Deliver(c) PROVE BInv'
  BY <1>5, DeliverKeeps
<1>6. ASSUME NEW c \in Calls, Lose(c) PROVE BInv'
  BY <1>6, LoseKeeps
<1>7. ASSUME NEW t \in Tokens, TokenExpires(t) PROVE BInv'
  BY <1>7, TokenExpiresKeeps
<1>8. ASSUME NEW m \in Realms, CookiesExpire(m) PROVE BInv'
  BY <1>8, CookiesExpireKeeps
<1> QED BY <1>1, <1>2, <1>3, <1>4, <1>5, <1>6, <1>7, <1>8 DEF Next

LEMMA Invariance == Spec => []BInv
<1> QED BY InitHolds, NextKeeps, PTL DEF Spec

-----------------------------------------------------------------------------

(* The theorems. *)

\* Cookies and calls name only tokens that CreateSession or RefreshSession
\* minted.
THEOREM BrowserTypeCorrect == Spec => []TypeOK
<1>1. BInv => TypeOK
  BY DEF BInv
<1> QED BY <1>1, Invariance, PTL

\* set_session_cookies and clear_session_cookies keep the cookies of a realm
\* together, in whatever order the answers come in.
THEOREM CookiesGoTogether == Spec => []OneSessionPerRealm
<1>1. BInv => OneSessionPerRealm
  BY DEF BInv
<1> QED BY <1>1, Invariance, PTL

\* A browser is left with an evicted access token of an active session only
\* when two refreshes of it overlapped or an answer was lost.
THEOREM StrandedByRace == Spec => []StrandedOnlyByRace
<1>1. BInv => StrandedOnlyByRace
  BY DEF BInv
<1> QED BY <1>1, Invariance, PTL

LEMMA LogoutIsOfThePage ==
    ASSUME BInv, [Next]_vars, NEW c \in Calls, call[c].pc = "sent", call'[c].pc = "revoke"
    PROVE  call'[c].token = call[c].page
<1>1. \A d \in Calls : \A o : call' = [call EXCEPT ![d] = o] /\ d # c => call'[c] = call[c]
  BY DEF BInv, TypeOK
<1>2. \A o : call' = [call EXCEPT ![c] = o] => call'[c] = o
  BY DEF BInv, TypeOK
<1>3. BeginLogout(c)
  <2>1. ~UNCHANGED call
    OBVIOUS
  <2>2. ASSUME NEW d \in Calls, NEW realm \in Realms, Prepare(d, realm) PROVE FALSE
    BY <1>1, <2>2 DEF Prepare
  <2>3. ASSUME NEW d \in Calls, NEW realm \in Realms, NEW kind \in Kinds, Send(d, kind, realm)
        PROVE FALSE
    BY <1>1, <2>3 DEF Send
  <2>4. ASSUME NEW d \in Calls, call' = [call EXCEPT ![d] = NoCall] PROVE FALSE
    BY <1>1, <1>2, <2>4, NoCallResult
  <2>5. ASSUME NEW d \in Calls, NEW pc \in {"publish", "answer"}, NEW t, Goes(d, pc, t)
        PROVE FALSE
    <3>1. PICK o : o = [NoCall EXCEPT !.pc = pc, !.kind = call[d].kind,
                                      !.realm = call[d].realm, !.token = t]
      OBVIOUS
    <3>2. call' = [call EXCEPT ![d] = o]
      BY <2>5, <3>1 DEF Goes
    <3>3. o.pc = pc
      BY <3>1 DEF NoCall
    <3> QED BY <1>1, <1>2, <3>2, <3>3
  <2>6. ASSUME NEW d \in Calls, NEW s \in Sessions, Login(d, s) \/ Refresh(d, s) PROVE FALSE
    BY <2>5, <2>6 DEF Login, Refresh
  <2>7. ASSUME NEW d \in Calls, CommitLogout(d) \/ Publish(d) PROVE FALSE
    BY <2>5, <2>7 DEF CommitLogout, Publish
  <2>8. ASSUME NEW d \in Calls, RefuseCsrf(d) \/ Refuse(d) \/ Deliver(d) \/ Lose(d) PROVE FALSE
    BY <2>4, <2>8 DEF RefuseCsrf, Refuse, Deliver, Lose
  <2>9. ASSUME NEW d \in Calls \ {c}, BeginLogout(d) PROVE FALSE
    BY <1>1, <2>9 DEF BeginLogout, Goes
  <2>10. ASSUME NEW t \in Tokens, TokenExpires(t) PROVE FALSE
    BY <2>1, <2>10 DEF TokenExpires
  <2>11. ASSUME NEW m \in Realms, CookiesExpire(m) PROVE FALSE
    BY <2>1, <2>11 DEF CookiesExpire
  <2>12. ~UNCHANGED vars
    BY <2>1 DEF vars
  <2> QED BY <2>2, <2>3, <2>6, <2>7, <2>8, <2>9, <2>10, <2>11, <2>12 DEF Next, Serve
<1>4. PICK t : t = call[c].sent[Config[call[c].realm].access]
  OBVIOUS
<1>5. /\ call[c].kind = "logout" /\ CsrfGuard(c) /\ Authenticated(c) /\ Goes(c, "revoke", t)
  BY <1>3, <1>4 DEF BeginLogout
<1>6. call[c].realm = "user" /\ t = call[c].page /\ t # None /\ t = call[c].sent["vc_at"]
  BY <1>4, <1>5, GuardResult, CookieNames DEF Authenticated, GetCurrentUser
<1>7. t \in Tokens
  BY <1>6, CookieNames, MintedResult DEF BInv, ShapeOf, OrNone
<1>8. call'[c].token = t
  BY <1>5, <1>7, GoesResult DEF BInv
<1> QED BY <1>6, <1>8

\* A logout revokes the session whose cookies the page had read.
THEOREM LogoutIsThePages == Spec => ActsForItsPage
<1>1. BInv /\ [Next]_vars =>
          [\A c \in Calls : call[c].pc = "sent" /\ call'[c].pc = "revoke"
               => call'[c].token = call[c].page]_vars
  BY LogoutIsOfThePage
<1> QED BY <1>1, Invariance, PTL DEF Spec, ActsForItsPage

\* CsrfGuard refuses somebody who is logged in only because the page cannot read its
\* CSRF cookie, or because the cookies changed under the page.
THEOREM CsrfRefusals == Spec => CsrfRefusalsHaveReasons
<1>1. ASSUME BInv, NEW c \in Calls, RefuseCsrf(c), call[c].page # None,
             call[c].realm \in readable
      PROVE  call[c].sent["vc_at"] # call[c].page
  <2> SUFFICES ASSUME call[c].sent["vc_at"] = call[c].page PROVE FALSE
    OBVIOUS
  <2>1. call[c].realm = "user"
    BY <1>1 DEF BInv, TypeOK
  <2>2. /\ call[c].sent["csrf"] = call[c].sent["vc_at"] /\ call[c].header = call[c].page
        /\ ~CsrfGuard(c)
    BY <1>1, <2>1 DEF RefuseCsrf, BInv, ShapeOf
  <2> QED BY <1>1, <2>2 DEF CsrfGuard
<1>2. BInv /\ [Next]_vars =>
          [\A c \in Calls : RefuseCsrf(c) /\ call[c].page # None /\ call[c].realm \in readable
               => call[c].sent["vc_at"] # call[c].page]_vars
  BY <1>1
<1> QED BY <1>2, Invariance, PTL DEF Spec, CsrfRefusalsHaveReasons

-----------------------------------------------------------------------------

(* The contract. *)

owedNow   == {call[c].token : c \in {d \in Calls : Owes(d)}}
usableNow == {t \in Tokens : access[t] = "live"}

\* No token is owed by two calls.
OneOwner ==
    \A c, d \in Calls : c # d /\ Owes(c) /\ Owes(d) => call[c].token # call[d].token

OInv == BInv /\ OneOwner

\* What a step of c does to what is owed.
LEMMA OwedAfter ==
    ASSUME NEW c \in Calls, \A d \in Calls \ {c} : call'[d] = call[d]
    PROVE  /\ ~Owes(c) /\ ~Owes(c)' => owedNow' = owedNow
           /\ ~Owes(c) /\ Owes(c)' => owedNow' = owedNow \cup {call'[c].token}
           /\ OneOwner /\ Owes(c) /\ ~Owes(c)' => owedNow' = owedNow \ {call[c].token}
<1>1. \A d \in Calls \ {c} : (Owes(d)' <=> Owes(d)) /\ call'[d].token = call[d].token
  BY DEF Owes
<1>2. /\ \A t : t \in owedNow <=> \E d \in Calls : Owes(d) /\ t = call[d].token
      /\ \A t : t \in owedNow' <=> \E d \in Calls : Owes(d)' /\ t = call'[d].token
  BY DEF owedNow
<1>3. ASSUME ~Owes(c), ~Owes(c)' PROVE owedNow' = owedNow
  <2>1. \A t : t \in owedNow' <=> t \in owedNow
    BY <1>1, <1>2, <1>3
  <2> QED BY <2>1
<1>4. ~Owes(c) /\ Owes(c)' => owedNow' = owedNow \cup {call'[c].token}
  BY <1>1, <1>2
<1>5. ASSUME OneOwner, Owes(c), ~Owes(c)' PROVE owedNow' = owedNow \ {call[c].token}
  <2>1. \A d \in Calls \ {c} : Owes(d) => call[d].token # call[c].token
    BY <1>5 DEF OneOwner
  <2> QED BY <1>1, <1>2, <1>5, <2>1
<1> QED BY <1>3, <1>4, <1>5

\* A call that comes to owe a token owes one that was not minted before.
LEMMA OwnerStep ==
    ASSUME OInv, NEW c \in Calls, \A d \in Calls \ {c} : call'[d] = call[d],
           Owes(c)' => call'[c].token \notin Minted
    PROVE  OneOwner'
<1>1. \A d \in Calls : Owes(d) => call[d].token \in Minted
  BY DEF OInv, BInv, ShapeOf, Owes
<1>2. \A d \in Calls \ {c} : (Owes(d)' <=> Owes(d)) /\ call'[d].token = call[d].token
  BY DEF Owes
<1>3. ASSUME NEW d \in Calls, NEW e \in Calls, d # e, Owes(d)', Owes(e)'
      PROVE  call'[d].token # call'[e].token
  <2>1. CASE d # c /\ e # c
    BY <1>2, <1>3, <2>1 DEF OInv, OneOwner
  <2>2. CASE d = c
    BY <1>1, <1>2, <1>3, <2>2
  <2>3. CASE e = c
    BY <1>1, <1>2, <1>3, <2>3
  <2> QED BY <2>1, <2>2, <2>3
<1> QED BY <1>3 DEF OneOwner

Keeps == OneOwner' /\ [Contract!Next]_(Contract!contractVars)

LEMMA Nothing ==
    ASSUME row' = row, minted' = minted, owedNow' = owedNow, access' = access
    PROVE  UNCHANGED Contract!contractVars
BY DEF Contract!contractVars, owedNow

LEMMA Fading ==
    ASSUME row' = row, minted' = minted, owedNow' \subseteq owedNow,
           \A t \in Tokens : access'[t] = "live" => access[t] = "live"
    PROVE  Contract!Next
<1>1. usableNow' \subseteq usableNow
  BY DEF usableNow
<1> QED BY <1>1 DEF Contract!Next, Contract!Fade, owedNow, usableNow

\* The page, the guards and the answers: nothing is owed before or after.
LEMMA QuietStep ==
    ASSUME OInv, NEW c \in Calls, \A d \in Calls \ {c} : call'[d] = call[d],
           UNCHANGED server, ~Owes(c), ~Owes(c)'
    PROVE  Keeps
<1>1. owedNow' = owedNow /\ OneOwner'
  BY OwedAfter, OwnerStep
<1> QED BY <1>1, Nothing DEF Keeps, server

LEMMA QuietContract ==
    ASSUME OInv, NEW c \in Calls,
           \/ \E realm \in Realms : Prepare(c, realm)
           \/ \E realm \in Realms, kind \in Kinds : Send(c, kind, realm)
           \/ RefuseCsrf(c) \/ Refuse(c) \/ Deliver(c)
    PROVE  Keeps
<1>0. call \in [Calls -> Call]
  BY DEF OInv, BInv, TypeOK
<1>1. UNCHANGED server /\ ~Owes(c)
  BY DEF Prepare, Send, RefuseCsrf, Refuse, Deliver, Owes
<1>2. /\ \A d \in Calls \ {c} : call'[d] = call[d]
      /\ call'[c].pc # "publish"
  <2>1. ASSUME NEW realm \in Realms, Prepare(c, realm)
        PROVE  \E o \in Call : o.pc = "ready" /\ call' = [call EXCEPT ![c] = o]
    <3>1. PICK h, p : /\ h = IF realm \in readable THEN jar[Config[realm].csrf] ELSE None
                      /\ p = jar[Config[realm].access]
      OBVIOUS
    <3>2. h \in Tokens \cup {None} /\ p \in Tokens \cup {None}
      <4>1. Config[realm].csrf \in Cookies /\ Config[realm].access \in Cookies
        BY CookieNames
      <4> QED BY <3>1, <4>1, MintedResult DEF OInv, BInv, TypeOK
    <3>3. PICK o : o = [NoCall EXCEPT !.pc = "ready", !.kind = "logout", !.realm = realm,
                                      !.header = h, !.page = p]
      OBVIOUS
    <3>4. o \in Call /\ o.pc = "ready"
      BY <3>2, <3>3, NoCallResult DEF Call, Kinds
    <3>5. call' = [call EXCEPT ![c] = o]
      BY <2>1, <3>1, <3>3 DEF Prepare
    <3> QED BY <3>4, <3>5
  <2>2. ASSUME NEW realm \in Realms, NEW kind \in Kinds, Send(c, kind, realm)
        PROVE  \E o : o.pc = "sent" /\ call' = [call EXCEPT ![c] = o]
    <3>1. PICK sent : call' = [call EXCEPT ![c] = [@ EXCEPT !.pc = "sent", !.kind = kind,
                                                      !.realm = realm, !.sent = sent]]
      BY <2>2 DEF Send
    <3>2. PICK o : o = [call[c] EXCEPT !.pc = "sent", !.kind = kind, !.realm = realm, !.sent = sent]
      OBVIOUS
    <3>3. o.pc = "sent"
      BY <1>0, <3>2 DEF Call
    <3> QED BY <3>1, <3>2, <3>3
  <2>3. CASE RefuseCsrf(c) \/ Refuse(c) \/ Deliver(c)
    <3>1. call' = [call EXCEPT ![c] = NoCall]
      BY <2>3 DEF RefuseCsrf, Refuse, Deliver
    <3> QED BY <3>1, <1>0, NoCallResult
  <2> QED BY <1>0, <2>1, <2>2, <2>3
<1>3. ~Owes(c)'
  BY <1>2 DEF Owes
<1> QED BY <1>1, <1>2, <1>3, QuietStep

LEMMA BeginLogoutContract ==
    ASSUME OInv, NEW c \in Calls, BeginLogout(c)
    PROVE  Keeps
<1>1. PICK t : t = call[c].sent[Config[call[c].realm].access]
  OBVIOUS
<1>2. /\ call[c].pc = "sent" /\ call[c].kind = "logout" /\ Goes(c, "revoke", t)
      /\ UNCHANGED server
  BY <1>1 DEF BeginLogout
<1>3. call[c].realm = "user" /\ t = call[c].sent["vc_at"] /\ t # None
  BY <1>1, <1>2, GuardResult, CookieNames
     DEF OInv, BeginLogout, Authenticated, GetCurrentUser
<1>4. t \in Tokens
  BY <1>3, CookieNames, MintedResult DEF OInv, BInv, ShapeOf, OrNone
<1>5. call'[c].pc = "revoke" /\ \A d \in Calls \ {c} : call'[d] = call[d]
  BY <1>2, <1>4, GoesResult DEF OInv, BInv
<1>6. ~Owes(c) /\ ~Owes(c)'
  BY <1>2, <1>5 DEF Owes
<1> QED BY <1>2, <1>5, <1>6, QuietStep

LEMMA LoginContract ==
    ASSUME OInv, NEW c \in Calls, NEW s \in Sessions, Login(c, s)
    PROVE  Keeps
<1>1. /\ call[c].pc = "sent" /\ call[c].kind = "login"
      /\ row[s] = "none" /\ MaxMint[s] > 0
      /\ row' = [row EXCEPT ![s] = "active"] /\ minted' = [minted EXCEPT ![s] = 1]
      /\ Goes(c, "publish", <<s, 0>>) /\ access' = access
  BY DEF Login
<1>2. PICK t \in Tokens : t = <<s, 0>> /\ t[1] = s /\ t[2] = 0
  BY <1>1, IsToken
<1>3. t \notin Minted
  BY <1>1, <1>2 DEF OInv, BInv, Unborn, Minted
<1>4. /\ \A d \in Calls \ {c} : call'[d] = call[d]
      /\ call'[c].pc = "publish" /\ call'[c].kind = "login" /\ call'[c].token = t
  BY <1>1, <1>2, GoesResult DEF OInv, BInv
<1>5. ~Owes(c) /\ Owes(c)'
  BY <1>1, <1>4 DEF Owes
<1>6. owedNow' = owedNow \cup {<<s, 0>>} /\ OneOwner'
  BY <1>2, <1>3, <1>4, <1>5, OwedAfter, OwnerStep
<1>7. Contract!Create(s)
  BY <1>1, <1>6 DEF Contract!Create, owedNow
<1> QED BY <1>6, <1>7 DEF Keeps, Contract!Next

LEMMA RefreshContract ==
    ASSUME OInv, NEW c \in Calls, NEW s \in Sessions, Refresh(c, s)
    PROVE  Keeps
<1>1. PICK n : n = minted[s]
  OBVIOUS
<1>2. /\ call[c].pc = "sent" /\ call[c].kind = "refresh"
      /\ row[s] = "active" /\ n < MaxMint[s]
      /\ minted' = [minted EXCEPT ![s] = @ + 1]
      /\ Goes(c, "publish", <<s, n>>) /\ UNCHANGED <<row, access>>
  BY <1>1 DEF Refresh
<1>3. n \in Nat
  BY <1>1 DEF OInv, BInv, TypeOK
<1>4. PICK t \in Tokens : t = <<s, n>> /\ t[1] = s /\ t[2] = n
  BY <1>2, <1>3, IsToken
<1>5. t \notin Minted
  BY <1>1, <1>3, <1>4 DEF Minted
<1>6. /\ \A d \in Calls \ {c} : call'[d] = call[d]
      /\ call'[c].pc = "publish" /\ call'[c].kind = "refresh" /\ call'[c].token = t
  BY <1>2, <1>4, GoesResult DEF OInv, BInv
<1>7. ~Owes(c) /\ Owes(c)'
  BY <1>2, <1>6 DEF Owes
<1>8. owedNow' = owedNow \cup {<<s, minted[s]>>} /\ OneOwner'
  BY <1>1, <1>4, <1>5, <1>6, <1>7, OwedAfter, OwnerStep
<1>9. Contract!Refresh(s)
  BY <1>2, <1>8 DEF Contract!Refresh, owedNow
<1> QED BY <1>8, <1>9 DEF Keeps, Contract!Next

\* The second of two logouts finds the session revoked, and changes nothing.
LEMMA CommitLogoutContract ==
    ASSUME OInv, NEW c \in Calls, CommitLogout(c)
    PROVE  Keeps
<1>1. PICK t : t = call[c].token
  OBVIOUS
<1>2. /\ call[c].pc = "revoke" /\ row' = [row EXCEPT ![t[1]] = "revoked"]
      /\ Goes(c, "publish", t) /\ UNCHANGED <<minted, access>>
  BY <1>1 DEF CommitLogout
<1>3. t \in Minted /\ call[c].kind = "logout"
  <2>1. t \in Minted
    BY <1>1, <1>2 DEF OInv, BInv, ShapeOf
  <2> QED BY <1>2, <2>1 DEF OInv, BInv, ShapeOf
<1>4. t \in Tokens /\ t[1] \in Sessions /\ t[2] \in Nat /\ t[2] < minted[t[1]]
  BY <1>3, MintedResult
<1>5. /\ \A d \in Calls \ {c} : call'[d] = call[d]
      /\ call'[c].kind = "logout"
  BY <1>2, <1>3, <1>4, GoesResult DEF OInv, BInv
<1>6. ~Owes(c) /\ ~Owes(c)'
  BY <1>3, <1>5 DEF Owes
<1>7. owedNow' = owedNow /\ OneOwner'
  BY <1>5, <1>6, OwedAfter, OwnerStep
<1>8. row \in [Sessions -> {"none", "active", "revoked"}] /\ row[t[1]] # "none"
  BY <1>4 DEF OInv, BInv, TypeOK, Unborn
<1>9. CASE row[t[1]] = "active"
  <2>1. row' = [z \in Sessions |-> IF z \in {t[1]} THEN "revoked" ELSE row[z]]
    BY <1>2, <1>8
  <2>2. Contract!Revoke({t[1]})
    BY <1>2, <1>7, <1>9, <2>1 DEF Contract!Revoke, owedNow
  <2> QED BY <1>4, <1>7, <2>2 DEF Keeps, Contract!Next
<1>10. CASE row[t[1]] = "revoked"
  <2>1. row' = row
    BY <1>2, <1>8, <1>10
  <2> QED BY <1>2, <1>7, <2>1, Nothing DEF Keeps
<1> QED BY <1>4, <1>8, <1>9, <1>10

\* Evict makes no token usable but the one it is given.
LEMMA EvictsOnly ==
    ASSUME NEW s, NEW t, Evict(s, t)
    PROVE  \A u \in Tokens : access'[u] = "live" => access[u] = "live" \/ u = t
BY DEF Evict

LEMMA PublishContract ==
    ASSUME OInv, NEW c \in Calls, Publish(c)
    PROVE  Keeps
<1>1. PICK t, u : t = call[c].token /\ u = IF call[c].kind = "logout" THEN None ELSE t
  OBVIOUS
<1>2. /\ call[c].pc = "publish" /\ Evict(t[1], u) /\ Goes(c, "answer", t)
      /\ UNCHANGED <<row, minted>>
  BY <1>1 DEF Publish
<1>3. t \in Tokens /\ t[1] \in Sessions /\ t # None
  <2>1. t \in Minted
    BY <1>1, <1>2 DEF OInv, BInv, ShapeOf
  <2> QED BY <2>1, MintedResult
<1>4. /\ \A d \in Calls \ {c} : call'[d] = call[d]
      /\ call'[c].pc = "answer"
  BY <1>2, <1>3, GoesResult DEF OInv, BInv
<1>5. ~Owes(c)' /\ OneOwner'
  BY <1>4, OwnerStep DEF Owes
<1>6. \A v \in Tokens : access'[v] = "live" => access[v] = "live" \/ v = u
  BY <1>2, EvictsOnly
<1>7. CASE call[c].kind = "logout"
  <2>1. ~Owes(c)
    BY <1>7 DEF Owes
  <2>2. owedNow' = owedNow
    BY <1>4, <1>5, <2>1, OwedAfter
  <2>3. \A v \in Tokens : access'[v] = "live" => access[v] = "live"
    BY <1>1, <1>6, <1>7, TokenResult
  <2> QED BY <1>2, <1>5, <2>2, <2>3, Fading DEF Keeps
<1>8. CASE call[c].kind # "logout"
  <2>1. Owes(c)
    BY <1>2, <1>8 DEF Owes
  <2>2. owedNow' = owedNow \ {t} /\ t \in owedNow
    BY <1>1, <1>4, <1>5, <2>1, OwedAfter DEF OInv, owedNow
  <2>3. access'[t] = "live"
    BY <1>1, <1>2, <1>3, <1>8 DEF Evict
  <2>4. t \in usableNow' /\ usableNow' \subseteq usableNow \cup {t}
    BY <1>1, <1>3, <1>6, <1>8, <2>3 DEF usableNow
  <2>5. Contract!Publish(t)
    BY <1>2, <2>2, <2>4 DEF Contract!Publish, owedNow, usableNow
  <2> QED BY <1>5, <2>2, <2>5 DEF Keeps, Contract!Next, owedNow
<1> QED BY <1>7, <1>8

LEMMA LoseContract ==
    ASSUME OInv, NEW c \in Calls, Lose(c)
    PROVE  Keeps
<1>1. PICK t : t = call[c].token
  OBVIOUS
<1>2. /\ call' = [call EXCEPT ![c] = NoCall] /\ UNCHANGED <<row, minted>>
      /\ UNCHANGED <<access, index>> \/ Evict(t[1], None)
  BY <1>1 DEF Lose
<1>3. call'[c] = NoCall /\ \A d \in Calls \ {c} : call'[d] = call[d]
  BY <1>2 DEF OInv, BInv, TypeOK
<1>4. ~Owes(c)' /\ OneOwner'
  BY <1>3, NoCallResult, OwnerStep DEF Owes
<1>5. owedNow' \subseteq owedNow
  BY <1>3, <1>4, OwedAfter DEF OInv
<1>6. \A v \in Tokens : access'[v] = "live" => access[v] = "live"
  <2>1. CASE Evict(t[1], None)
    BY <2>1, EvictsOnly, TokenResult
  <2> QED BY <1>2, <2>1
<1> QED BY <1>2, <1>4, <1>5, <1>6, Fading DEF Keeps

\* Time.
LEMMA TimeContract ==
    ASSUME OInv, UNCHANGED <<call, row, minted>>,
           \A t \in Tokens : access'[t] = "live" => access[t] = "live"
    PROVE  Keeps
<1>1. owedNow' = owedNow /\ OneOwner'
  BY DEF OInv, OneOwner, Owes, owedNow
<1> QED BY <1>1, Fading DEF Keeps

LEMMA StepOfContract == OInv /\ [Next]_vars => OInv' /\ [Contract!Next]_(Contract!contractVars)
<1> SUFFICES ASSUME OInv, [Next]_vars PROVE Keeps
  BY NextKeeps DEF OInv, Keeps
<1>1. ASSUME NEW c \in Calls, NEW realm \in Realms,
             Prepare(c, realm) \/ \E kind \in Kinds : Send(c, kind, realm)
      PROVE  Keeps
  BY <1>1, QuietContract
<1>2. ASSUME NEW c \in Calls, Serve(c) \/ Deliver(c) \/ Lose(c) PROVE Keeps
  BY <1>2, QuietContract, BeginLogoutContract, LoginContract, RefreshContract,
     CommitLogoutContract, PublishContract, LoseContract DEF Serve
<1>3. ASSUME NEW t \in Tokens, TokenExpires(t) PROVE Keeps
  <2>1. /\ UNCHANGED <<call, row, minted>>
        /\ \A u \in Tokens : access'[u] = "live" => access[u] = "live"
    BY <1>3 DEF TokenExpires, OInv, BInv, TypeOK
  <2> QED BY <2>1, TimeContract
<1>4. ASSUME NEW realm \in Realms, CookiesExpire(realm) PROVE Keeps
  BY <1>4, TimeContract DEF CookiesExpire, server
<1>5. CASE UNCHANGED vars
  BY <1>5, TimeContract DEF vars, server
<1> QED BY <1>1, <1>2, <1>3, <1>4, <1>5 DEF Next

LEMMA InitOfContract == Init => OInv /\ Contract!Init
<1> SUFFICES ASSUME Init PROVE OInv /\ Contract!Init
  OBVIOUS
<1>1. \A c \in Calls : ~Owes(c)
  BY NoCallResult DEF Init, Owes
<1>2. owedNow = {} /\ OneOwner
  BY <1>1 DEF owedNow, OneOwner
<1>3. usableNow = {}
  BY DEF Init, usableNow
<1>4. Contract!Init
  BY <1>2, <1>3 DEF Init, Contract!Init, owedNow, usableNow
<1> QED BY <1>2, <1>4, InitHolds DEF OInv

\* What the browser's server does in two steps keeps the contract that Sessions
\* keeps command by command.
THEOREM BrowserImplements == Spec => ImplementsContract
<1>1. Init => OInv /\ Contract!Init
  BY InitOfContract
<1>2. OInv /\ [Next]_vars => OInv' /\ [Contract!Next]_(Contract!contractVars)
  BY StepOfContract
<1> QED BY <1>1, <1>2, PTL DEF Spec, ImplementsContract, Contract!Spec
=============================================================================
