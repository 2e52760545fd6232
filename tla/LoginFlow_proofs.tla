-------------------------- MODULE LoginFlow_proofs --------------------------
(***************************************************************************)
(* Theorems about LoginFlow for every set of requests, links, tokens and   *)
(* codes and every number of generations.                                  *)
(***************************************************************************)
EXTENDS LoginFlow, TLAPS

\* What a request in progress has in hand.
ShapeOf(r) ==
    /\ op[r].pc \in {"consume", "mint"} => op[r].x \in Links
    /\ op[r].pc \in {"read", "answer", "session", "evict"} => op[r].x \in Tokens
    /\ op[r].alone => op[r].x # None
    /\ op[r].pc = "mint" =>
          op[r].intent \in {"enroll", "challenge"} /\ link[op[r].x] = "consumed"
    /\ op[r].pc = "enroll" => op[r].intent = "enroll"
    /\ op[r].pc = "regenerate" => op[r].intent # "enroll"
    /\ op[r].pc \in {"insert", "regenerate", "reply"} => op[r].gen \in Gens
    /\ op[r].pc \in {"answer", "regenerate"} => secret # None
    /\ op[r].pc = "reply" /\ op[r].intent = "enroll" =>
          secret # None /\ secret.id = op[r].gen

\* Before there is a secret no code was accepted.
Codeless == secret = None => spent = {}

\* Two requests that began alone never hold the same link or token.
AloneOnce ==
    \A r, q \in Requests :
        op[r].alone /\ op[q].alone /\ op[r].x = op[q].x => r = q

\* What can be used once more: nothing anybody used alone.
Exhausted(x) ==
    /\ \A r \in Requests : op[r].x = x /\ op[r].alone => op[r].pc = "evict"
    /\ x \in Links => link[x] = "consumed"
    /\ x \in Tokens => \/ token[x] = "gone"
                       \/ x \in cut
                       \/ \E r \in Requests : op[r].x = x /\ op[r].pc = "evict"

UsesExact == \A x \in Links \cup Tokens : \/ uses[x] = 0
                                          \/ uses[x] = 1 /\ Exhausted(x)

LInv ==
    /\ TypeOK
    /\ \A r \in Requests : ShapeOf(r)
    /\ BackupCodesExact /\ Codeless
    /\ ShownSecretIsStored
    /\ AloneOnce /\ UsesExact

\* What no step undoes: a link is consumed, a token gone, a secret stored.
Grows ==
    /\ \A l \in Links : link[l] = "consumed" => link'[l] = "consumed"
    /\ \A t \in Tokens : token[t] = "gone" \/ t \in cut => token'[t] = "gone" \/ t \in cut'
    /\ secret # None => secret' # None /\ secret'.id = secret.id

-----------------------------------------------------------------------------

LEMMA NoOpResult ==
    /\ NoOp \in Op /\ NoOp.pc = "idle" /\ NoOp.x = None /\ NoOp.alone = FALSE
    /\ NoOp.intent = None /\ NoOp.snap = {} /\ NoOp.gen = 0
<1>1. 0 \in 0..MaxGen
  BY BoundsAssumption
<1> QED BY <1>1 DEF NoOp, Op

LEMMA OthersKeep ==
    ASSUME TypeOK, Grows, NEW q \in Requests, op'[q] = op[q], ShapeOf(q)
    PROVE  ShapeOf(q)'
  BY DEF ShapeOf, Grows

LEMMA Together ==
    ASSUME LInv, TypeOK', Grows, NEW r \in Requests,
           \A q \in Requests \ {r} : op'[q] = op[q],
           ShapeOf(r)', BackupCodesExact', Codeless', ShownSecretIsStored',
           AloneOnce', UsesExact'
    PROVE  LInv'
<1>1. \A q \in Requests \ {r} : ShapeOf(q)'
  BY OthersKeep DEF LInv
<1> QED BY <1>1 DEF LInv

LEMMA RowRests ==
    ASSUME LInv, UNCHANGED row, UNCHANGED held
    PROVE  BackupCodesExact' /\ Codeless' /\ ShownSecretIsStored'
  BY DEF LInv, BackupCodesExact, Codeless, ShownSecretIsStored, row, Generation

\* A step of r that uses nothing: it ends, goes on with what it has, or begins
\* with something nobody has used.
LEMMA UsesRest ==
    ASSUME LInv, Grows, NEW r \in Requests, uses' = uses,
           \A q \in Requests \ {r} : op'[q] = op[q],
           op[r].pc = "evict" => token'[op[r].x] = "gone" \/ op[r].x \in cut',
           op'[r].alone =>
              \/ /\ op[r].alone /\ op'[r].x = op[r].x /\ op[r].pc # "evict"
              \/ /\ Alone(op'[r].x)
                 /\ op'[r].x \in Links => link[op'[r].x] # "consumed"
                 /\ op'[r].x \in Tokens => token[op'[r].x] # "gone"
    PROVE  AloneOnce' /\ UsesExact'
<1>1. AloneOnce'
  <2>1. ASSUME NEW q \in Requests \ {r}, op'[r].alone, op[q].alone, op'[r].x = op[q].x
        PROVE  FALSE
    BY <2>1 DEF LInv, AloneOnce, Alone
  <2>2. ASSUME NEW p \in Requests, NEW q \in Requests,
               op'[p].alone, op'[q].alone, op'[p].x = op'[q].x
        PROVE  p = q
    BY <2>1, <2>2 DEF LInv, AloneOnce
  <2> QED BY <2>2 DEF AloneOnce
<1>2. ASSUME NEW x \in Links \cup Tokens, Exhausted(x) PROVE Exhausted(x)'
  <2>1. x \in Links => link'[x] = "consumed"
    BY <1>2 DEF Exhausted, Grows
  <2>2. x \in Tokens => \/ token'[x] = "gone"
                        \/ x \in cut'
                        \/ \E q \in Requests : op'[q].x = x /\ op'[q].pc = "evict"
    <3> SUFFICES ASSUME x \in Tokens
                 PROVE  \/ token'[x] = "gone"
                        \/ x \in cut'
                        \/ \E q \in Requests : op'[q].x = x /\ op'[q].pc = "evict"
      OBVIOUS
    <3>1. CASE token[x] = "gone" \/ x \in cut
      BY <3>1 DEF Grows
    <3>2. CASE \E q \in Requests : op[q].x = x /\ op[q].pc = "evict"
      BY <3>2
    <3> QED BY <1>2, <3>1, <3>2 DEF Exhausted
  <2>3. ASSUME NEW q \in Requests, op'[q].x = x, op'[q].alone PROVE op'[q].pc = "evict"
    <3>1. CASE q # r
      BY <1>2, <2>3, <3>1 DEF Exhausted
    <3>2. CASE q = r
      BY <1>2, <2>3, <3>2 DEF Exhausted, Alone
    <3> QED BY <3>1, <3>2
  <2> QED BY <2>1, <2>2, <2>3 DEF Exhausted
<1>3. UsesExact'
  BY <1>2 DEF LInv, UsesExact
<1> QED BY <1>1, <1>3

\* A step of r that uses what it holds, and ends or goes on to the eviction.
LEMMA UsesOnce ==
    ASSUME LInv, Grows, NEW r \in Requests, Use(r), op[r].x \in Links \cup Tokens,
           op[r].pc # "evict",
           \A q \in Requests \ {r} : op'[q] = op[q],
           \/ ~op'[r].alone /\ op[r].x \in Links /\ link[op[r].x] = "consumed"
           \/ /\ op'[r].x = op[r].x /\ op'[r].alone = op[r].alone
              /\ op'[r].pc = "evict" /\ op[r].x \in Tokens
    PROVE  AloneOnce' /\ UsesExact'
<1>1. CASE ~op[r].alone
  <2>1. uses' = uses /\ ~op'[r].alone
    BY <1>1 DEF Use
  <2> QED BY <2>1, UsesRest
<1>2. CASE op[r].alone
  <2>1. PICK x : x = op[r].x
    OBVIOUS
  <2>2. uses' = [uses EXCEPT ![x] = @ + 1]
    BY <1>2, <2>1 DEF Use
  <2>3. uses[x] = 0
    BY <1>2, <2>1 DEF LInv, UsesExact, Exhausted
  <2>4. uses'[x] = 1 /\ \A y \in (Links \cup Tokens) \ {x} : uses'[y] = uses[y]
    BY <2>1, <2>2, <2>3 DEF LInv, TypeOK
  <2>5. AloneOnce'
    <3>1. op'[r].alone => op'[r].x = x
      BY <2>1
    <3> QED BY <1>2, <2>1, <3>1 DEF LInv, AloneOnce
  <2>6. Exhausted(x)'
    <3>1. \A q \in Requests : op'[q].x = x /\ op'[q].alone => op'[q].pc = "evict"
      BY <1>2, <2>1 DEF LInv, AloneOnce
    <3>2. x \in Links => link'[x] = "consumed"
      BY <2>1, NoneAssumption DEF Grows
    <3>3. x \in Tokens => \E q \in Requests : op'[q].x = x /\ op'[q].pc = "evict"
      BY <2>1, NoneAssumption
    <3> QED BY <3>1, <3>2, <3>3 DEF Exhausted
  <2>7. ASSUME NEW y \in (Links \cup Tokens) \ {x}, Exhausted(y) PROVE Exhausted(y)'
    <3>1. \A q \in Requests : op'[q].x = y /\ op'[q].alone => op'[q].pc = "evict"
      BY <2>1, <2>7 DEF Exhausted
    <3>2. y \in Links => link'[y] = "consumed"
      BY <2>7 DEF Exhausted, Grows
    <3>3. y \in Tokens => \/ token'[y] = "gone"
                          \/ y \in cut'
                          \/ \E q \in Requests : op'[q].x = y /\ op'[q].pc = "evict"
      BY <2>1, <2>7 DEF Exhausted, Grows
    <3> QED BY <3>1, <3>2, <3>3 DEF Exhausted
  <2>8. UsesExact'
    BY <2>4, <2>6, <2>7 DEF LInv, UsesExact
  <2> QED BY <2>5, <2>8
<1> QED BY <1>1, <1>2 DEF LInv, TypeOK, Op

\* Nothing of the request slots changes.
LEMMA SlotsRest ==
    ASSUME LInv, TypeOK', Grows, UNCHANGED <<op, uses>>,
           BackupCodesExact', Codeless', ShownSecretIsStored'
    PROVE  LInv'
<1>1. \A q \in Requests : ShapeOf(q)'
  BY OthersKeep DEF LInv
<1>2. AloneOnce'
  BY DEF LInv, AloneOnce
<1>3. ASSUME NEW x \in Links \cup Tokens, Exhausted(x) PROVE Exhausted(x)'
  <2>1. x \in Links => link'[x] = "consumed"
    BY <1>3 DEF Exhausted, Grows
  <2>2. x \in Tokens => \/ token'[x] = "gone"
                        \/ x \in cut'
                        \/ \E q \in Requests : op'[q].x = x /\ op'[q].pc = "evict"
    BY <1>3 DEF Exhausted, Grows
  <2>3. \A q \in Requests : op'[q].x = x /\ op'[q].alone => op'[q].pc = "evict"
    BY <1>3 DEF Exhausted
  <2> QED BY <2>1, <2>2, <2>3 DEF Exhausted
<1>4. UsesExact'
  BY <1>3 DEF LInv, UsesExact
<1> QED BY <1>1, <1>2, <1>4 DEF LInv

\* A request slot that is free again.
LEMMA EndResult ==
    ASSUME TypeOK, NEW r \in Requests, End(r)
    PROVE  /\ op' \in [Requests -> Op] /\ op'[r] = NoOp /\ ~op'[r].alone
           /\ \A q \in Requests \ {r} : op'[q] = op[q]
           /\ ShapeOf(r)'
<1>1. op' \in [Requests -> Op] /\ op'[r] = NoOp /\ \A q \in Requests \ {r} : op'[q] = op[q]
  BY NoOpResult DEF TypeOK, End
<1>2. ~op'[r].alone
  BY <1>1, NoOpResult
<1>3. ShapeOf(r)'
  BY <1>1, <1>2, NoOpResult DEF ShapeOf
<1> QED BY <1>1, <1>2, <1>3

\* A request that goes on to its next step, or is just beginning.
LEMMA SlotResult ==
    ASSUME TypeOK, NEW r \in Requests, NEW o \in Op, op' = [op EXCEPT ![r] = o]
    PROVE  /\ op' \in [Requests -> Op] /\ op'[r] = o
           /\ \A q \in Requests \ {r} : op'[q] = op[q]
  BY DEF TypeOK

LEMMA BeginResult ==
    ASSUME TypeOK, NEW r \in Requests, NEW x \in Links \cup Tokens \cup {None},
           NEW pc \in {"consume", "enroll", "read"},
           NEW intent \in {"enroll", "challenge", None}, Begin(r, x, pc, intent)
    PROVE  /\ op' \in [Requests -> Op] /\ op[r].pc = "idle"
           /\ op'[r].pc = pc /\ op'[r].x = x /\ op'[r].intent = intent
           /\ op'[r].alone => Alone(x)
           /\ \A q \in Requests \ {r} : op'[q] = op[q]
<1>1. PICK a \in BOOLEAN : a <=> Alone(x)
  OBVIOUS
<1>2. Alone(x) = a
  BY <1>1 DEF Alone
<1>3. PICK o : o = [NoOp EXCEPT !.pc = pc, !.x = x, !.alone = a, !.intent = intent]
  OBVIOUS
<1>4. o \in Op /\ o.pc = pc /\ o.x = x /\ o.intent = intent /\ o.alone = a
  BY <1>3, NoOpResult DEF Op
<1>5. op' = [op EXCEPT ![r] = o] /\ op[r].pc = "idle"
  BY <1>2, <1>3 DEF Begin
<1> QED BY <1>1, <1>4, <1>5, SlotResult

\* A request that goes on with its link or token and nothing else.
LEMMA GoResult ==
    ASSUME TypeOK, NEW r \in Requests, NEW pc \in {"session", "evict"}, Go(r, pc)
    PROVE  /\ op' \in [Requests -> Op]
           /\ op'[r].pc = pc /\ op'[r].x = op[r].x /\ op'[r].alone = op[r].alone
           /\ \A q \in Requests \ {r} : op'[q] = op[q]
<1>1. PICK o : o = [NoOp EXCEPT !.pc = pc, !.x = op[r].x, !.alone = op[r].alone]
  OBVIOUS
<1>2. /\ op[r].x \in Links \cup Tokens \cup {None} /\ op[r].alone \in BOOLEAN
  BY DEF TypeOK, Op
<1>3. o \in Op /\ o.pc = pc /\ o.x = op[r].x /\ o.alone = op[r].alone
  BY <1>1, <1>2, NoOpResult DEF Op
<1>4. op' = [op EXCEPT ![r] = o]
  BY <1>1 DEF Go
<1> QED BY <1>3, <1>4, SlotResult

-----------------------------------------------------------------------------

(* Magic links and administrators. *)

LEMMA RequestMagicLinkKeeps ==
    ASSUME LInv, NEW l \in Links, RequestMagicLink(l)
    PROVE  LInv'
<1>1. /\ link[l] = "none" /\ link' = [link EXCEPT ![l] = "sent"]
      /\ UNCHANGED <<token, row, admin, op, gens, user, history>>
  BY DEF RequestMagicLink
<1>2. TypeOK'
  BY <1>1 DEF LInv, TypeOK, row, user, history
<1>3. Grows
  BY <1>1 DEF LInv, TypeOK, Grows, row, history
<1>4. BackupCodesExact' /\ Codeless' /\ ShownSecretIsStored'
  BY <1>1, RowRests DEF user
<1> QED BY <1>1, <1>2, <1>3, <1>4, SlotsRest DEF history

LEMMA SeedAdminKeeps ==
    ASSUME LInv, SeedAdmin
    PROVE  LInv'
<1>1. /\ secret = None /\ MaxGen > 0
      /\ admin' = TRUE /\ gens' = 1 /\ latest' = 1
      /\ secret' = [id |-> 1, codes |-> Generation(1)]
      /\ UNCHANGED <<link, token, op, sessions, spent, lost, history>>
  BY DEF SeedAdmin
<1>2. PICK printed \in SUBSET {1} : held' = printed /\ shown' = printed
  BY DEF SeedAdmin
<1>3. 1 \in Gens /\ 1 \in 0..MaxGen
  BY <1>1, BoundsAssumption DEF Gens
<1>4. secret' \in Secret /\ secret'.id = 1 /\ secret'.codes = Generation(1) /\ spent = {}
  BY <1>1, <1>3 DEF Secret, Generation, LInv, Codeless
<1>5. TypeOK'
  BY <1>1, <1>2, <1>3, <1>4 DEF LInv, TypeOK, history
<1>6. Grows
  BY <1>1 DEF Grows, history
<1>7. BackupCodesExact' /\ Codeless'
  BY <1>1, <1>4 DEF BackupCodesExact, Codeless, Generation
<1>8. secret' # None
  BY <1>4, SecretAssumption
<1>9. ShownSecretIsStored'
  BY <1>2, <1>4, <1>8 DEF ShownSecretIsStored
<1> QED BY <1>1, <1>5, <1>6, <1>7, <1>9, SlotsRest DEF history

LEMMA MintByPasswordKeeps ==
    ASSUME LInv, NEW t \in Tokens, MintByPassword(t)
    PROVE  LInv'
<1>1. /\ token[t] = "none" /\ token' = [token EXCEPT ![t] = "challenge"]
      /\ UNCHANGED <<link, row, admin, op, gens, user, history>>
  BY DEF MintByPassword
<1>2. TypeOK'
  BY <1>1 DEF LInv, TypeOK, row, user, history
<1>3. Grows
  BY <1>1 DEF LInv, TypeOK, Grows, row, history
<1>4. BackupCodesExact' /\ Codeless' /\ ShownSecretIsStored'
  BY <1>1, RowRests DEF user
<1> QED BY <1>1, <1>2, <1>3, <1>4, SlotsRest DEF history

LEMMA TokenExpiresKeeps ==
    ASSUME LInv, NEW t \in Tokens, TokenExpires(t)
    PROVE  LInv'
<1>1. /\ token' = [token EXCEPT ![t] = "gone"] /\ cut' = cut \ {t}
      /\ UNCHANGED <<link, row, admin, op, gens, user, uses>>
  BY DEF TokenExpires
<1>2. TypeOK'
  BY <1>1 DEF LInv, TypeOK, row, user
<1>3. Grows
  BY <1>1 DEF LInv, TypeOK, Grows, row
<1>4. BackupCodesExact' /\ Codeless' /\ ShownSecretIsStored'
  BY <1>1, RowRests DEF user
<1> QED BY <1>1, <1>2, <1>3, <1>4, SlotsRest

LEMMA BeginConsumeKeeps ==
    ASSUME LInv, NEW r \in Requests, NEW l \in Links, BeginConsume(r, l)
    PROVE  LInv'
<1>1. /\ link[l] = "sent" /\ Begin(r, l, "consume", None)
      /\ UNCHANGED <<link, token, row, admin, gens, user, history>>
  BY DEF BeginConsume
<1>2. /\ op' \in [Requests -> Op] /\ op[r].pc = "idle"
      /\ op'[r].pc = "consume" /\ op'[r].x = l
      /\ op'[r].alone => Alone(l)
      /\ \A q \in Requests \ {r} : op'[q] = op[q]
  BY <1>1, BeginResult DEF LInv
<1>3. TypeOK'
  BY <1>1, <1>2 DEF LInv, TypeOK, row, user, history
<1>4. Grows
  BY <1>1 DEF Grows, row, history
<1>5. ShapeOf(r)'
  BY <1>2, NoneAssumption DEF ShapeOf
<1>6. BackupCodesExact' /\ Codeless' /\ ShownSecretIsStored'
  BY <1>1, RowRests DEF user
<1>7. AloneOnce' /\ UsesExact'
  BY <1>1, <1>2, <1>4, NoneAssumption, UsesRest DEF history
<1> QED BY <1>2, <1>3, <1>4, <1>5, <1>6, <1>7, Together

LEMMA CommitConsumeKeeps ==
    ASSUME LInv, NEW r \in Requests, CommitConsume(r)
    PROVE  LInv'
<1>1. PICK l, intent :
      /\ l = op[r].x /\ intent = IF secret = None THEN "enroll" ELSE "challenge"
      /\ op[r].pc = "consume" /\ link' = [link EXCEPT ![l] = "consumed"]
      /\ op' = [op EXCEPT ![r].pc = "mint", ![r].intent = intent]
      /\ UNCHANGED <<token, row, admin, gens, user, history>>
  BY DEF CommitConsume
<1>2. l \in Links /\ op[r] \in Op
  BY <1>1 DEF LInv, ShapeOf, TypeOK
<1>3. PICK o : o = [op[r] EXCEPT !.pc = "mint", !.intent = intent]
  OBVIOUS
<1>4. /\ o \in Op /\ o.pc = "mint" /\ o.x = l /\ o.alone = op[r].alone
      /\ o.intent = intent /\ intent \in {"enroll", "challenge"}
  BY <1>1, <1>2, <1>3 DEF Op
<1>5. op' = [op EXCEPT ![r] = o]
  BY <1>1, <1>3 DEF LInv, TypeOK
<1>6. /\ op' \in [Requests -> Op] /\ op'[r] = o
      /\ \A q \in Requests \ {r} : op'[q] = op[q]
  BY <1>4, <1>5, SlotResult DEF LInv
<1>7. /\ link' \in [Links -> {"none", "sent", "consumed"}] /\ link'[l] = "consumed"
      /\ \A k \in Links : link[k] = "consumed" => link'[k] = "consumed"
  BY <1>1, <1>2 DEF LInv, TypeOK
<1>8. TypeOK'
  BY <1>1, <1>6, <1>7 DEF LInv, TypeOK, row, user, history
<1>9. Grows
  BY <1>1, <1>7 DEF Grows, row, history
<1>10. ShapeOf(r)'
  BY <1>2, <1>4, <1>6, <1>7, NoneAssumption DEF ShapeOf
<1>11. BackupCodesExact' /\ Codeless' /\ ShownSecretIsStored'
  BY <1>1, RowRests DEF user
<1>12. AloneOnce' /\ UsesExact'
  BY <1>1, <1>4, <1>6, <1>9, UsesRest DEF history
<1> QED BY <1>6, <1>8, <1>9, <1>10, <1>11, <1>12, Together

LEMMA MintTokenKeeps ==
    ASSUME LInv, NEW r \in Requests, NEW t \in Tokens, MintToken(r, t)
    PROVE  LInv'
<1>1. /\ op[r].pc = "mint" /\ token[t] = "none"
      /\ token' = [token EXCEPT ![t] = op[r].intent]
      /\ Use(r) /\ End(r)
      /\ UNCHANGED <<link, row, admin, gens, user, cut>>
  BY DEF MintToken
<1>2. /\ op[r].x \in Links /\ link[op[r].x] = "consumed"
      /\ op[r].intent \in {"enroll", "challenge"}
  BY <1>1 DEF LInv, ShapeOf
<1>3. /\ op' \in [Requests -> Op] /\ op'[r] = NoOp /\ ~op'[r].alone
      /\ \A q \in Requests \ {r} : op'[q] = op[q]
      /\ ShapeOf(r)'
  BY <1>1, EndResult DEF LInv
<1>4. uses' \in [Links \cup Tokens -> Nat]
  BY <1>1, <1>2 DEF Use, LInv, TypeOK
<1>5. token' \in [Tokens -> {"none", "enroll", "challenge", "gone"}]
  BY <1>1, <1>2 DEF LInv, TypeOK
<1>6. TypeOK'
  BY <1>1, <1>3, <1>4, <1>5 DEF LInv, TypeOK, row, user
<1>7. Grows
  BY <1>1 DEF LInv, TypeOK, Grows, row
<1>8. BackupCodesExact' /\ Codeless' /\ ShownSecretIsStored'
  BY <1>1, RowRests DEF user
<1>9. AloneOnce' /\ UsesExact'
  BY <1>1, <1>2, <1>3, <1>7, UsesOnce
<1> QED BY <1>3, <1>6, <1>7, <1>8, <1>9, Together

-----------------------------------------------------------------------------

(* Enrolment. *)

LEMMA ResolveKeeps ==
    ASSUME LInv, NEW r \in Requests, NEW t \in Tokens, Resolve(r, t)
    PROVE  LInv'
<1>1. UNCHANGED <<link, token, row, admin, gens, user, history>>
  BY DEF Resolve
<1>2. token[t] \in {"enroll", "challenge"}
  BY DEF Resolve
<1>3. /\ op' \in [Requests -> Op] /\ op[r].pc = "idle"
      /\ \A q \in Requests \ {r} : op'[q] = op[q]
      /\ op'[r].alone => op'[r].x = t /\ Alone(t)
      /\ ShapeOf(r)'
  <2>1. CASE Begin(r, None, "enroll", "enroll")
    <3>1. /\ op' \in [Requests -> Op] /\ op[r].pc = "idle"
          /\ op'[r].pc = "enroll" /\ op'[r].intent = "enroll"
          /\ op'[r].alone => Alone(None)
          /\ \A q \in Requests \ {r} : op'[q] = op[q]
      BY <2>1, BeginResult DEF LInv
    <3>2. ~op'[r].alone
      BY <3>1 DEF Alone
    <3> QED BY <3>1, <3>2 DEF ShapeOf
  <2>2. CASE Begin(r, t, "read", token[t])
    <3>1. /\ op' \in [Requests -> Op] /\ op[r].pc = "idle"
          /\ op'[r].pc = "read" /\ op'[r].x = t
          /\ op'[r].alone => Alone(t)
          /\ \A q \in Requests \ {r} : op'[q] = op[q]
      BY <1>2, <2>2, BeginResult DEF LInv
    <3> QED BY <3>1, NoneAssumption DEF ShapeOf
  <2> QED BY <2>1, <2>2 DEF Resolve
<1>4. TypeOK'
  BY <1>1, <1>3 DEF LInv, TypeOK, row, user, history
<1>5. Grows
  BY <1>1 DEF Grows, row, history
<1>6. BackupCodesExact' /\ Codeless' /\ ShownSecretIsStored'
  BY <1>1, RowRests DEF user
<1>7. AloneOnce' /\ UsesExact'
  BY <1>1, <1>2, <1>3, <1>5, NoneAssumption, UsesRest DEF history
<1> QED BY <1>3, <1>4, <1>5, <1>6, <1>7, Together

LEMMA BeginEnrollKeeps ==
    ASSUME LInv, NEW r \in Requests, BeginEnroll(r)
    PROVE  LInv'
<1>1. PICK g : g = gens + 1
  OBVIOUS
<1>2. /\ op[r].pc = "enroll" /\ gens < MaxGen /\ gens' = g
      /\ op' = [op EXCEPT ![r].pc = "insert", ![r].gen = g]
      /\ UNCHANGED <<link, token, row, admin, user, history>>
  BY <1>1 DEF BeginEnroll
<1>3. g \in Gens /\ g \in 0..MaxGen
  BY <1>1, <1>2, BoundsAssumption DEF LInv, TypeOK, Gens
<1>4. PICK o : o = [op[r] EXCEPT !.pc = "insert", !.gen = g]
  OBVIOUS
<1>5. /\ o \in Op /\ o.pc = "insert" /\ o.gen = g /\ o.x = op[r].x /\ o.alone = op[r].alone
  BY <1>3, <1>4 DEF LInv, TypeOK, Op
<1>6. op' = [op EXCEPT ![r] = o]
  BY <1>2, <1>4 DEF LInv, TypeOK
<1>7. /\ op' \in [Requests -> Op] /\ op'[r] = o
      /\ \A q \in Requests \ {r} : op'[q] = op[q]
  BY <1>5, <1>6, SlotResult DEF LInv
<1>8. TypeOK'
  BY <1>2, <1>3, <1>7 DEF LInv, TypeOK, row, user, history
<1>9. Grows
  BY <1>2 DEF Grows, row, history
<1>10. ShapeOf(r)'
  BY <1>3, <1>5, <1>7 DEF LInv, ShapeOf
<1>11. BackupCodesExact' /\ Codeless' /\ ShownSecretIsStored'
  BY <1>2, RowRests DEF user
<1>12. AloneOnce' /\ UsesExact'
  BY <1>2, <1>5, <1>7, <1>9, UsesRest DEF history
<1> QED BY <1>7, <1>8, <1>9, <1>10, <1>11, <1>12, Together

LEMMA InsertSecretKeeps ==
    ASSUME LInv, NEW r \in Requests, InsertSecret(r)
    PROVE  LInv'
<1>1. PICK g : g = op[r].gen
  OBVIOUS
<1>2. /\ op[r].pc = "insert" /\ secret = None
      /\ secret' = [id |-> g, codes |-> Generation(g)] /\ latest' = g
      /\ op' = [op EXCEPT ![r].pc = "reply"]
      /\ UNCHANGED <<link, token, admin, gens, user, spent, lost, history>>
  BY <1>1 DEF InsertSecret
<1>3. g \in Gens /\ g \in 0..MaxGen
  BY <1>1, <1>2 DEF LInv, ShapeOf, TypeOK, Op
<1>4. /\ secret' \in Secret /\ secret' # None /\ secret'.id = g /\ secret'.codes = Generation(g)
      /\ spent = {}
  BY <1>2, <1>3, SecretAssumption DEF Secret, Generation, LInv, Codeless
<1>5. PICK o : o = [op[r] EXCEPT !.pc = "reply"]
  OBVIOUS
<1>6. /\ o \in Op /\ o.pc = "reply" /\ o.gen = g /\ o.x = op[r].x /\ o.alone = op[r].alone
  BY <1>1, <1>5 DEF LInv, TypeOK, Op
<1>7. op' = [op EXCEPT ![r] = o]
  BY <1>2, <1>5 DEF LInv, TypeOK
<1>8. /\ op' \in [Requests -> Op] /\ op'[r] = o
      /\ \A q \in Requests \ {r} : op'[q] = op[q]
  BY <1>6, <1>7, SlotResult DEF LInv
<1>9. TypeOK'
  BY <1>2, <1>3, <1>4, <1>8 DEF LInv, TypeOK, user, history
<1>10. Grows
  BY <1>2 DEF Grows, history
<1>11. ShapeOf(r)'
  BY <1>3, <1>4, <1>6, <1>8 DEF LInv, ShapeOf
<1>12. BackupCodesExact' /\ Codeless'
  BY <1>2, <1>4 DEF BackupCodesExact, Codeless, Generation
<1>13. ShownSecretIsStored'
  BY <1>2 DEF LInv, ShownSecretIsStored, user
<1>14. AloneOnce' /\ UsesExact'
  BY <1>2, <1>6, <1>8, <1>10, UsesRest DEF history
<1> QED BY <1>8, <1>9, <1>10, <1>11, <1>12, <1>13, <1>14, Together

LEMMA ReplyKeeps ==
    ASSUME LInv, NEW r \in Requests, Reply(r)
    PROVE  LInv'
<1>1. PICK g : g = op[r].gen
  OBVIOUS
<1>2. /\ op[r].pc = "reply" /\ End(r) /\ shown' = shown \cup {g}
      /\ held' = IF op[r].intent = "enroll" THEN held \cup {g} ELSE held
      /\ UNCHANGED <<link, token, row, admin, gens, sessions, history>>
  BY <1>1 DEF Reply
<1>3. g \in Gens
  BY <1>1, <1>2 DEF LInv, ShapeOf
<1>4. /\ op' \in [Requests -> Op] /\ ~op'[r].alone
      /\ \A q \in Requests \ {r} : op'[q] = op[q]
      /\ ShapeOf(r)'
  BY <1>2, EndResult DEF LInv
<1>5. TypeOK'
  BY <1>2, <1>3, <1>4 DEF LInv, TypeOK, row, history
<1>6. Grows
  BY <1>2 DEF Grows, row, history
<1>7. ShownSecretIsStored'
  BY <1>1, <1>2 DEF LInv, ShownSecretIsStored, ShapeOf, row
<1>8. BackupCodesExact' /\ Codeless'
  BY <1>2 DEF LInv, BackupCodesExact, Codeless, Generation, row
<1>9. AloneOnce' /\ UsesExact'
  BY <1>2, <1>4, <1>6, UsesRest DEF history
<1> QED BY <1>4, <1>5, <1>6, <1>7, <1>8, <1>9, Together

-----------------------------------------------------------------------------

(* Verification. *)

LEMMA ReadSecretKeeps ==
    ASSUME LInv, NEW r \in Requests, ReadSecret(r)
    PROVE  LInv'
<1>1. PICK codes : codes = secret.codes
  OBVIOUS
<1>2. /\ op[r].pc = "read" /\ secret # None
      /\ op' = [op EXCEPT ![r].pc = "answer", ![r].snap = codes]
      /\ UNCHANGED <<link, token, row, admin, gens, user, history>>
  BY <1>1 DEF ReadSecret
<1>3. codes \subseteq Gens \X Codes
  BY <1>1, <1>2 DEF LInv, TypeOK, Secret
<1>4. PICK o : o = [op[r] EXCEPT !.pc = "answer", !.snap = codes]
  OBVIOUS
<1>5. /\ o \in Op /\ o.pc = "answer" /\ o.x = op[r].x /\ o.alone = op[r].alone
  BY <1>3, <1>4 DEF LInv, TypeOK, Op
<1>6. op' = [op EXCEPT ![r] = o]
  BY <1>2, <1>4 DEF LInv, TypeOK
<1>7. /\ op' \in [Requests -> Op] /\ op'[r] = o
      /\ \A q \in Requests \ {r} : op'[q] = op[q]
  BY <1>5, <1>6, SlotResult DEF LInv
<1>8. TypeOK'
  BY <1>2, <1>7 DEF LInv, TypeOK, row, user, history
<1>9. Grows
  BY <1>2 DEF Grows, row, history
<1>10. ShapeOf(r)'
  BY <1>2, <1>5, <1>7 DEF LInv, ShapeOf, row
<1>11. BackupCodesExact' /\ Codeless' /\ ShownSecretIsStored'
  BY <1>2, RowRests DEF user
<1>12. AloneOnce' /\ UsesExact'
  BY <1>2, <1>5, <1>7, <1>9, UsesRest DEF history
<1> QED BY <1>7, <1>8, <1>9, <1>10, <1>11, <1>12, Together

\* What the UPDATE leaves in the row.
LEMMA WriteBackResult ==
    ASSUME LInv, NEW r \in Requests, op[r].pc = "answer",
           NEW codes \in SUBSET op[r].snap, WriteBack(r, codes)
    PROVE  /\ secret # None /\ secret' \in Secret /\ secret' # None
           /\ secret'.id = secret.id /\ secret'.codes = codes
           /\ lost' \in BOOLEAN
           /\ ~lost' => ~lost /\ op[r].snap = secret.codes
<1>1. secret # None /\ secret \in Secret /\ op[r].snap \subseteq Gens \X Codes
  BY DEF LInv, ShapeOf, TypeOK, Op
<1>2. secret' = [secret EXCEPT !.codes = codes]
  BY DEF WriteBack
<1>3. secret' \in Secret /\ secret'.id = secret.id /\ secret'.codes = codes
  BY <1>1, <1>2 DEF Secret
<1>4. lost' = (lost \/ op[r].snap # secret.codes)
  BY DEF WriteBack
<1>5. lost' \in BOOLEAN
  BY <1>4, Zenon
<1>6. ~lost' => ~lost /\ op[r].snap = secret.codes
  BY <1>4, Zenon
<1> QED BY <1>1, <1>3, <1>5, <1>6, SecretAssumption

\* An accepted code, TOTP or backup, of which the list loses the codes in gone.
LEMMA AcceptedKeeps ==
    ASSUME LInv, NEW r \in Requests, op[r].pc = "answer",
           NEW gone \in SUBSET op[r].snap, WriteBack(r, op[r].snap \ gone),
           spent' = spent \cup {c \in gone : c[1] = latest}, Go(r, "session") \/ End(r),
           UNCHANGED <<link, token, admin, gens, user, latest, history>>
    PROVE  LInv'
<1>1. PICK codes \in SUBSET op[r].snap : codes = op[r].snap \ gone
  OBVIOUS
<1>2. /\ secret # None /\ secret' \in Secret /\ secret' # None
      /\ secret'.id = secret.id /\ secret'.codes = codes
      /\ lost' \in BOOLEAN
      /\ ~lost' => ~lost /\ op[r].snap = secret.codes
  BY <1>1, WriteBackResult
<1>3. /\ op[r].x \in Tokens /\ op[r].snap \subseteq Gens \X Codes
  BY DEF LInv, ShapeOf, TypeOK, Op
<1>4. /\ op' \in [Requests -> Op]
      /\ \A q \in Requests \ {r} : op'[q] = op[q]
      /\ op'[r].alone => op'[r].x = op[r].x /\ op[r].alone
      /\ ShapeOf(r)'
  <2>1. CASE End(r)
    BY <2>1, EndResult DEF LInv
  <2>2. CASE Go(r, "session")
    <3>1. /\ op' \in [Requests -> Op]
          /\ op'[r].pc = "session" /\ op'[r].x = op[r].x /\ op'[r].alone = op[r].alone
          /\ \A q \in Requests \ {r} : op'[q] = op[q]
      BY <2>2, GoResult DEF LInv
    <3> QED BY <1>3, <3>1, NoneAssumption DEF ShapeOf
  <2> QED BY <2>1, <2>2
<1>5. spent' \subseteq Gens \X Codes
  BY <1>3 DEF LInv, TypeOK
<1>6. TypeOK'
  BY <1>2, <1>4, <1>5 DEF LInv, TypeOK, user, history
<1>7. Grows
  BY <1>2 DEF Grows, history
<1>8. BackupCodesExact'
  <2> SUFFICES ASSUME ~lost' PROVE secret'.codes = Generation(latest) \ spent'
    BY DEF BackupCodesExact, Generation
  <2>1. op[r].snap = Generation(latest) \ spent
    BY <1>2 DEF LInv, BackupCodesExact
  <2>2. \A c \in gone : c[1] = latest
    BY <2>1 DEF Generation
  <2> QED BY <1>1, <1>2, <2>1, <2>2
<1>9. Codeless' /\ ShownSecretIsStored'
  BY <1>2 DEF LInv, Codeless, ShownSecretIsStored, user
<1>10. AloneOnce' /\ UsesExact'
  BY <1>4, <1>7, UsesRest DEF history
<1> QED BY <1>4, <1>6, <1>7, <1>8, <1>9, <1>10, Together

LEMMA AcceptKeeps ==
    ASSUME LInv, NEW r \in Requests,
           \/ CommitTotp(r) \/ RefuseNonAdmin(r)
           \/ \E c \in Gens \X Codes : CommitBackupCode(r, c)
    PROVE  LInv'
<1>1. CASE CommitTotp(r) \/ RefuseNonAdmin(r)
  <2>1. /\ op[r].pc = "answer" /\ WriteBack(r, op[r].snap)
        /\ Go(r, "session") \/ End(r)
        /\ UNCHANGED <<link, token, admin, gens, user, latest, spent, history>>
    BY <1>1 DEF CommitTotp, RefuseNonAdmin
  <2>2. op[r].snap \ {} = op[r].snap /\ spent' = spent \cup {c \in {} : c[1] = latest}
    BY <2>1
  <2> QED BY <2>1, <2>2, AcceptedKeeps
<1>2. ASSUME NEW c \in Gens \X Codes, CommitBackupCode(r, c) PROVE LInv'
  <2>1. /\ op[r].pc = "answer" /\ c \in op[r].snap /\ WriteBack(r, op[r].snap \ {c})
        /\ Go(r, "session")
        /\ spent' = IF c[1] = latest THEN spent \cup {c} ELSE spent
        /\ UNCHANGED <<link, token, admin, gens, user, latest, history>>
    BY <1>2 DEF CommitBackupCode
  <2>2. spent' = spent \cup {d \in {c} : d[1] = latest}
    BY <2>1
  <2> QED BY <2>1, <2>2, AcceptedKeeps
<1> QED BY <1>1, <1>2

LEMMA RefuseKeeps ==
    ASSUME LInv, NEW r \in Requests, Refuse(r)
    PROVE  LInv'
<1>1. /\ End(r) /\ op[r].pc # "evict"
      /\ UNCHANGED <<link, token, row, admin, gens, user, history>>
  BY DEF Refuse
<1>2. /\ op' \in [Requests -> Op] /\ ~op'[r].alone
      /\ \A q \in Requests \ {r} : op'[q] = op[q]
      /\ ShapeOf(r)'
  BY <1>1, EndResult DEF LInv
<1>3. TypeOK'
  BY <1>1, <1>2 DEF LInv, TypeOK, row, user, history
<1>4. Grows
  BY <1>1 DEF Grows, row, history
<1>5. BackupCodesExact' /\ Codeless' /\ ShownSecretIsStored'
  BY <1>1, RowRests DEF user
<1>6. AloneOnce' /\ UsesExact'
  BY <1>1, <1>2, <1>4, UsesRest DEF history
<1> QED BY <1>2, <1>3, <1>4, <1>5, <1>6, Together

LEMMA CreateSessionKeeps ==
    ASSUME LInv, NEW r \in Requests, CreateSession(r)
    PROVE  LInv'
<1>1. /\ op[r].pc = "session" /\ sessions' = TRUE /\ Use(r) /\ Go(r, "evict")
      /\ UNCHANGED <<link, token, row, admin, gens, held, shown, cut>>
  BY DEF CreateSession
<1>2. op[r].x \in Tokens
  BY <1>1 DEF LInv, ShapeOf
<1>3. /\ op' \in [Requests -> Op]
      /\ op'[r].pc = "evict" /\ op'[r].x = op[r].x /\ op'[r].alone = op[r].alone
      /\ \A q \in Requests \ {r} : op'[q] = op[q]
  BY <1>1, GoResult DEF LInv
<1>4. uses' \in [Links \cup Tokens -> Nat]
  BY <1>1, <1>2 DEF Use, LInv, TypeOK
<1>5. TypeOK'
  BY <1>1, <1>3, <1>4 DEF LInv, TypeOK, row
<1>6. Grows
  BY <1>1 DEF Grows, row
<1>7. ShapeOf(r)'
  BY <1>2, <1>3, NoneAssumption DEF ShapeOf
<1>8. BackupCodesExact' /\ Codeless' /\ ShownSecretIsStored'
  BY <1>1, RowRests
<1>9. AloneOnce' /\ UsesExact'
  BY <1>1, <1>2, <1>3, <1>6, UsesOnce
<1> QED BY <1>3, <1>5, <1>6, <1>7, <1>8, <1>9, Together

LEMMA EvictTokenKeeps ==
    ASSUME LInv, NEW r \in Requests, EvictToken(r)
    PROVE  LInv'
<1>1. /\ op[r].pc = "evict" /\ End(r)
      /\ token' = [token EXCEPT ![op[r].x] = "gone"]
      /\ cut' = cut \ {op[r].x}
      /\ UNCHANGED <<link, row, admin, gens, user, uses>>
  BY DEF EvictToken
<1>2. op[r].x \in Tokens
  BY <1>1 DEF LInv, ShapeOf
<1>3. /\ op' \in [Requests -> Op] /\ ~op'[r].alone
      /\ \A q \in Requests \ {r} : op'[q] = op[q]
      /\ ShapeOf(r)'
  BY <1>1, EndResult DEF LInv
<1>4. TypeOK'
  BY <1>1, <1>3 DEF LInv, TypeOK, row, user
<1>5. Grows /\ token'[op[r].x] = "gone"
  BY <1>1, <1>2 DEF LInv, TypeOK, Grows, row
<1>6. BackupCodesExact' /\ Codeless' /\ ShownSecretIsStored'
  BY <1>1, RowRests DEF user
<1>7. AloneOnce' /\ UsesExact'
  BY <1>1, <1>3, <1>5, UsesRest
<1> QED BY <1>3, <1>4, <1>5, <1>6, <1>7, Together

-----------------------------------------------------------------------------

(* Backup codes, and a request cut off. *)

LEMMA BeginRegenerateKeeps ==
    ASSUME LInv, NEW r \in Requests, BeginRegenerate(r)
    PROVE  LInv'
<1>1. PICK g : g = gens + 1
  OBVIOUS
<1>2. /\ op[r].pc = "idle" /\ secret # None /\ gens < MaxGen /\ gens' = g
      /\ op' = [op EXCEPT ![r] = [NoOp EXCEPT !.pc = "regenerate", !.gen = g]]
      /\ UNCHANGED <<link, token, row, admin, user, history>>
  BY <1>1 DEF BeginRegenerate
<1>3. g \in Gens /\ g \in 0..MaxGen
  BY <1>1, <1>2, BoundsAssumption DEF LInv, TypeOK, Gens
<1>4. PICK o : o = [NoOp EXCEPT !.pc = "regenerate", !.gen = g]
  OBVIOUS
<1>5. o \in Op /\ o.pc = "regenerate" /\ o.gen = g /\ ~o.alone /\ o.intent = None
  BY <1>3, <1>4, NoOpResult DEF Op
<1>6. /\ op' \in [Requests -> Op] /\ op'[r] = o
      /\ \A q \in Requests \ {r} : op'[q] = op[q]
  BY <1>2, <1>4, <1>5, SlotResult DEF LInv
<1>7. TypeOK'
  BY <1>2, <1>3, <1>6 DEF LInv, TypeOK, row, user, history
<1>8. Grows
  BY <1>2 DEF Grows, row, history
<1>9. ShapeOf(r)'
  BY <1>2, <1>3, <1>5, <1>6, NoneAssumption DEF ShapeOf, row
<1>10. BackupCodesExact' /\ Codeless' /\ ShownSecretIsStored'
  BY <1>2, RowRests DEF user
<1>11. AloneOnce' /\ UsesExact'
  BY <1>2, <1>5, <1>6, <1>8, UsesRest DEF history
<1> QED BY <1>6, <1>7, <1>8, <1>9, <1>10, <1>11, Together

LEMMA CommitRegenerateKeeps ==
    ASSUME LInv, NEW r \in Requests, CommitRegenerate(r)
    PROVE  LInv'
<1>1. PICK g : g = op[r].gen
  OBVIOUS
<1>2. /\ op[r].pc = "regenerate"
      /\ secret' = [secret EXCEPT !.codes = Generation(g)]
      /\ latest' = g /\ spent' = {} /\ lost' = FALSE
      /\ op' = [op EXCEPT ![r].pc = "reply"]
      /\ UNCHANGED <<link, token, admin, gens, user, history>>
  BY <1>1 DEF CommitRegenerate
<1>3. g \in Gens /\ g \in 0..MaxGen /\ secret \in Secret
  BY <1>1, <1>2 DEF LInv, ShapeOf, TypeOK, Op
<1>4. PICK codes : codes = Generation(g) /\ codes \subseteq Gens \X Codes
  BY <1>3 DEF Generation
<1>5. /\ secret' \in Secret /\ secret'.id = secret.id /\ secret'.codes = codes
  BY <1>2, <1>3, <1>4 DEF Secret
<1>6. secret' # None
  BY <1>5, SecretAssumption
<1>7. PICK o : o = [op[r] EXCEPT !.pc = "reply"]
  OBVIOUS
<1>8. /\ o \in Op /\ o.pc = "reply" /\ o.gen = g /\ o.x = op[r].x
      /\ o.alone = op[r].alone /\ o.intent = op[r].intent
  BY <1>1, <1>7 DEF LInv, TypeOK, Op
<1>9. op' = [op EXCEPT ![r] = o]
  BY <1>2, <1>7 DEF LInv, TypeOK
<1>10. /\ op' \in [Requests -> Op] /\ op'[r] = o
       /\ \A q \in Requests \ {r} : op'[q] = op[q]
  BY <1>8, <1>9, SlotResult DEF LInv
<1>11. TypeOK'
  BY <1>2, <1>3, <1>5, <1>10 DEF LInv, TypeOK, user, history
<1>12. Grows
  BY <1>2, <1>5, <1>6 DEF Grows, history
<1>13. ShapeOf(r)'
  BY <1>2, <1>3, <1>8, <1>10 DEF LInv, ShapeOf
<1>14. BackupCodesExact' /\ Codeless'
  BY <1>2, <1>4, <1>5, <1>6 DEF BackupCodesExact, Codeless, Generation
<1>15. ShownSecretIsStored'
  BY <1>2, <1>5, <1>6 DEF LInv, ShownSecretIsStored, user
<1>16. AloneOnce' /\ UsesExact'
  BY <1>2, <1>8, <1>10, <1>12, UsesRest DEF history
<1> QED BY <1>10, <1>11, <1>12, <1>13, <1>14, <1>15, <1>16, Together

LEMMA DieKeeps ==
    ASSUME LInv, NEW r \in Requests, Die(r)
    PROVE  LInv'
<1>1. /\ End(r) /\ cut' = IF op[r].pc = "evict" THEN cut \cup {op[r].x} ELSE cut
      /\ UNCHANGED <<link, token, row, admin, gens, user, uses>>
  BY DEF Die
<1>2. op[r].pc = "evict" => op[r].x \in Tokens
  BY DEF LInv, ShapeOf
<1>3. /\ op' \in [Requests -> Op] /\ ~op'[r].alone
      /\ \A q \in Requests \ {r} : op'[q] = op[q]
      /\ ShapeOf(r)'
  BY <1>1, EndResult DEF LInv
<1>4. TypeOK'
  BY <1>1, <1>2, <1>3 DEF LInv, TypeOK, row, user
<1>5. Grows
  BY <1>1 DEF Grows, row
<1>6. BackupCodesExact' /\ Codeless' /\ ShownSecretIsStored'
  BY <1>1, RowRests DEF user
<1>7. AloneOnce' /\ UsesExact'
  BY <1>1, <1>3, <1>5, UsesRest
<1> QED BY <1>3, <1>4, <1>5, <1>6, <1>7, Together

-----------------------------------------------------------------------------

LEMMA InitHolds == Init => LInv
<1> SUFFICES ASSUME Init PROVE LInv
  OBVIOUS
<1>1. TypeOK
  <2>1. gens \in 0..MaxGen /\ latest \in 0..MaxGen
    BY BoundsAssumption DEF Init
  <2>2. op \in [Requests -> Op] /\ link \in [Links -> {"none", "sent", "consumed"}]
        /\ token \in [Tokens -> {"none", "enroll", "challenge", "gone"}]
        /\ uses \in [Links \cup Tokens -> Nat]
    BY NoOpResult DEF Init
  <2>3. admin \in BOOLEAN /\ sessions \in BOOLEAN /\ lost \in BOOLEAN
    BY DEF Init
  <2> QED BY <2>1, <2>2, <2>3 DEF Init, TypeOK
<1>2. \A r \in Requests : op[r] = NoOp /\ ~op[r].alone
  BY NoOpResult DEF Init
<1>3. \A r \in Requests : ShapeOf(r)
  BY <1>2, NoOpResult DEF ShapeOf
<1>4. BackupCodesExact /\ Codeless /\ ShownSecretIsStored
  BY DEF Init, BackupCodesExact, Codeless, ShownSecretIsStored
<1>5. AloneOnce /\ UsesExact
  BY <1>2 DEF Init, AloneOnce, UsesExact
<1> QED BY <1>1, <1>3, <1>4, <1>5 DEF LInv

LEMMA NextKeeps == LInv /\ [Next]_vars => LInv'
<1> SUFFICES ASSUME LInv, [Next]_vars PROVE LInv'
  OBVIOUS
<1>1. CASE SeedAdmin
  BY <1>1, SeedAdminKeeps
<1>2. ASSUME NEW l \in Links, RequestMagicLink(l) PROVE LInv'
  BY <1>2, RequestMagicLinkKeeps
<1>3. ASSUME NEW t \in Tokens, TokenExpires(t) \/ MintByPassword(t) PROVE LInv'
  BY <1>3, TokenExpiresKeeps, MintByPasswordKeeps
<1>4. ASSUME NEW r \in Requests, Step(r) PROVE LInv'
  <2>1. ASSUME NEW l \in Links, BeginConsume(r, l) PROVE LInv'
    BY <2>1, BeginConsumeKeeps
  <2>2. ASSUME NEW t \in Tokens, MintToken(r, t) \/ Resolve(r, t) PROVE LInv'
    BY <2>2, MintTokenKeeps, ResolveKeeps
  <2>3. ASSUME \/ CommitTotp(r) \/ RefuseNonAdmin(r)
               \/ \E c \in Gens \X Codes : CommitBackupCode(r, c)
        PROVE  LInv'
    BY <2>3, AcceptKeeps
  <2> QED BY <1>4, <2>1, <2>2, <2>3, CommitConsumeKeeps, BeginEnrollKeeps, InsertSecretKeeps,
             ReplyKeeps, ReadSecretKeeps, RefuseKeeps, CreateSessionKeeps, EvictTokenKeeps,
             BeginRegenerateKeeps, CommitRegenerateKeeps, DieKeeps
          DEF Step
<1>5. CASE UNCHANGED vars
  <2>1. TypeOK' /\ Grows
    BY <1>5 DEF LInv, TypeOK, Grows, vars, row, user, history
  <2>2. BackupCodesExact' /\ Codeless' /\ ShownSecretIsStored'
    BY <1>5, RowRests DEF vars, user
  <2> QED BY <1>5, <2>1, <2>2, SlotsRest DEF vars, history
<1> QED BY <1>1, <1>2, <1>3, <1>4, <1>5 DEF Next

LEMMA Invariance == Spec => []LInv
  BY InitHolds, NextKeeps, PTL DEF Spec

\* Types and bounds hold for every set of requests, links, tokens and codes.
THEOREM LoginTypeCorrect == Spec => []TypeOK
<1>1. LInv => TypeOK
  BY DEF LInv
<1> QED BY Invariance, <1>1, PTL

\* Of the requests that shared a link or a token with nobody when they began, at most
\* one is served for it, whatever races with them and whoever dies.  Requests that
\* overlap on one may each be served: neither the UPDATE of the link nor the token's
\* eviction tests what the other did.
THEOREM UnsharedAreUsedOnce == Spec => []UsedOnce
<1>1. LInv => UsedOnce
  BY DEF LInv, UsesExact, UsedOnce
<1> QED BY Invariance, <1>1, PTL

\* The stored list of backup codes is the last one made less the codes accepted,
\* until an outdated list is written back; from then on a code that was accepted may
\* be there again, and accepted again.
THEOREM BackupCodesExactUntilLost == Spec => []BackupCodesExact
<1>1. LInv => BackupCodesExact
  BY DEF LInv
<1> QED BY Invariance, <1>1, PTL

\* The secret a user was shown is the stored one.
THEOREM ShownSecretStays == Spec => []ShownSecretIsStored
<1>1. LInv => ShownSecretIsStored
  BY DEF LInv
<1> QED BY Invariance, <1>1, PTL
=============================================================================
