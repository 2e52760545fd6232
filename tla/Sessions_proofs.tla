--------------------------- MODULE Sessions_proofs --------------------------
(***************************************************************************)
(* Theorems about Sessions for every set of sessions and of requests and   *)
(* every bound.                                                            *)
(***************************************************************************)
EXTENDS Sessions, TLAPS

\* What a request in flight has in hand.
ShapeOf(r) ==
    /\ op[r].pc \in {"authed", "refresh"} \cup CachePcs => op[r].s \in Sessions
    /\ op[r].pc \in {"authed", "refresh"} => op[r].rest = {}
    /\ op[r].pc \in CachePcs => op[r].s \notin op[r].rest
    /\ op[r].pc = "del" => op[r].seen # None
    /\ op[r].pc \in {"set", "index"} => op[r].mint # None
    /\ op[r].mint # None => /\ op[r].pc \in CachePcs /\ op[r].rest = {}
                            /\ op[r].mint < minted[op[r].s]
    /\ \A s \in Targets(r) : row[s].state # "none"

\* If a row still has the version a request read, it is still active.
KnownOf(r) ==
    op[r].pc \in WritePcs => \A s \in Targets(r) :
        /\ op[r].base[s] <= row[s].version
        /\ op[r].base[s] = row[s].version => row[s].state = "active"

Unborn == \A s \in Sessions : row[s].state = "none" => minted[s] = 0

\* At most one token of s is usable, and it is n.
Only(s, n) == \A t \in live : t[1] = s => t[2] = n
Clean(s)   == \A t \in live : t[1] # s

\* What r, in the middle of the cache's part for s, has still to delete.
Progress(r, s) ==
    /\ s # op[r].s => Only(s, index[s])
    /\ s = op[r].s =>
          /\ op[r].pc = "get"              => Only(s, index[s])
          /\ op[r].pc = "del"              => Only(s, op[r].seen)
          /\ op[r].pc \in {"unindex", "set"} => Clean(s)
          /\ op[r].pc = "index"            => Only(s, op[r].mint)
    /\ op[r].mint # None => row[s].state # "revoked"

Nobody(s) == \A q \in Requests : ~InCache(q, s)
Quiet(s)  == Only(s, index[s]) /\ (row[s].state = "revoked" => Clean(s))

\* A session whose cache was never disturbed is at rest, or in the hands of
\* one request.
EvictingOf(s) ==
    \/ s \in raced
    \/ Nobody(s) /\ Quiet(s)
    \/ \E r \in Requests :
          /\ InCache(r, s) /\ Progress(r, s)
          /\ \A q \in Requests \ {r} : ~InCache(q, s)

SInv ==
    /\ TypeOK
    /\ \A r \in Requests : ShapeOf(r)
    /\ \A r \in Requests : KnownOf(r)
    /\ CacheFollowsDatabase /\ Unborn
    /\ \A s \in Sessions : EvictingOf(s)

\* What no step undoes: a row has come into being, its version has grown, a
\* revocation was made.
Grows ==
    \A s \in Sessions :
        /\ minted'[s] >= minted[s]
        /\ row[s].state # "none" => row'[s].state # "none"
        /\ row'[s].version >= row[s].version
        /\ row'[s].version = row[s].version =>
              row'[s].state = row[s].state \/ row[s].state = "none"
        /\ row[s].state = "revoked" =>
              row'[s].state = "revoked" /\ row'[s].version = row[s].version

Row == [state : {"none", "active", "revoked"}, expired : BOOLEAN, hash : Nat, version : Nat]

-----------------------------------------------------------------------------

(* Requests and sessions a step does not concern. *)

LEMMA NoOpResult ==
    /\ NoOp \in Op /\ NoOp.pc = "idle" /\ NoOp.s = None /\ NoOp.rest = {}
    /\ NoOp.seen = None /\ NoOp.mint = None
    /\ NoOp.base = [s \in Sessions |-> 0]
  BY DEF NoOp, Op

LEMMA TargetsResult ==
    ASSUME TypeOK, NEW r \in Requests
    PROVE  /\ Targets(r) \subseteq Sessions
           /\ \A s \in Sessions : s \in Targets(r) <=> s \in op[r].rest \/ s = op[r].s
<1>1. op[r].rest \subseteq Sessions /\ op[r].s \in Sessions \cup {None}
  BY DEF TypeOK, Op
<1> QED BY <1>1, SessionsAssumption DEF Targets

\* What the others know stays true.
LEMMA OthersKeep ==
    ASSUME TypeOK, TypeOK', Grows, NEW q \in Requests, op'[q] = op[q], ShapeOf(q), KnownOf(q)
    PROVE  ShapeOf(q)' /\ KnownOf(q)'
<1>1. Targets(q)' = Targets(q) /\ Targets(q) \subseteq Sessions
  BY TargetsResult DEF Targets
<1>2. ShapeOf(q)'
  <2>1. op[q].mint # None => op[q].mint < minted'[op[q].s]
    <3> SUFFICES ASSUME op[q].mint # None PROVE op[q].mint < minted'[op[q].s]
      OBVIOUS
    <3>1. op[q].mint \in Nat /\ op[q].s \in Sessions /\ op[q].mint < minted[op[q].s]
      BY DEF ShapeOf, TypeOK, Op
    <3>2. minted[op[q].s] \in Nat /\ minted'[op[q].s] \in Nat
      BY <3>1 DEF TypeOK
    <3> QED BY <3>1, <3>2 DEF Grows
  <2>2. \A s \in Targets(q)' : row'[s].state # "none"
    BY <1>1 DEF ShapeOf, Grows
  <2> QED BY <2>1, <2>2 DEF ShapeOf
<1>3. KnownOf(q)'
  <2> SUFFICES ASSUME op[q].pc \in WritePcs, NEW s \in Targets(q)
               PROVE  /\ op[q].base[s] <= row'[s].version
                      /\ op[q].base[s] = row'[s].version => row'[s].state = "active"
    BY <1>1 DEF KnownOf
  <2>1. /\ op[q].base[s] \in Nat /\ row[s].version \in Nat /\ row'[s].version \in Nat
        /\ s \in Sessions
    BY <1>1 DEF TypeOK, Op
  <2>2. /\ op[q].base[s] <= row[s].version
        /\ op[q].base[s] = row[s].version => row[s].state = "active"
    BY DEF KnownOf
  <2> QED BY <2>1, <2>2 DEF Grows
<1> QED BY <1>2, <1>3

\* A session r's step is not about.
LEMMA Undisturbed ==
    ASSUME TypeOK, NEW r \in Requests, NEW s \in Sessions,
           \A q \in Requests \ {r} : op'[q] = op[q],
           ~InCache(r, s), ~InCache(r, s)', raced \subseteq raced',
           row[s].state # "revoked" => row'[s].state # "revoked",
           \A t \in live' : t[1] = s => t \in live,
           index'[s] = index[s],
           EvictingOf(s)
    PROVE  EvictingOf(s)'
<1>1. \A q \in Requests \ {r} : InCache(q, s)' = InCache(q, s)
  BY DEF InCache, Targets
<1>2. \A n : Only(s, n) => Only(s, n)'
  BY DEF Only
<1>3. Clean(s) => Clean(s)'
  BY DEF Clean
<1>4. CASE s \in raced
  BY <1>4 DEF EvictingOf
<1>5. CASE Nobody(s) /\ Quiet(s)
  <2>1. Nobody(s)'
    BY <1>1, <1>5 DEF Nobody
  <2>2. Quiet(s)'
    BY <1>2, <1>3, <1>5 DEF Quiet, Only, Clean
  <2> QED BY <2>1, <2>2 DEF EvictingOf
<1>6. CASE \E w \in Requests : /\ InCache(w, s) /\ Progress(w, s)
                              /\ \A q \in Requests \ {w} : ~InCache(q, s)
  <2>1. PICK w \in Requests : /\ InCache(w, s) /\ Progress(w, s)
                              /\ \A q \in Requests \ {w} : ~InCache(q, s)
    BY <1>6
  <2>2. w # r /\ op'[w] = op[w]
    BY <2>1
  <2>3. InCache(w, s)' /\ \A q \in Requests \ {w} : ~InCache(q, s)'
    BY <1>1, <2>1, <2>2
  <2>4. Progress(w, s)'
    BY <2>1, <2>2 DEF Progress, Only, Clean
  <2> QED BY <2>3, <2>4 DEF EvictingOf
<1> QED BY <1>4, <1>5, <1>6 DEF EvictingOf

\* The session r is working on.
LEMMA Advances ==
    ASSUME NEW r \in Requests, NEW s \in Sessions,
           \A q \in Requests \ {r} : op'[q] = op[q],
           InCache(r, s), raced \subseteq raced', EvictingOf(s),
           s \notin raced /\ Progress(r, s) =>
               \/ InCache(r, s)' /\ Progress(r, s)'
               \/ ~InCache(r, s)' /\ Quiet(s)'
    PROVE  EvictingOf(s)'
<1>1. \A q \in Requests \ {r} : InCache(q, s)' = InCache(q, s)
  BY DEF InCache, Targets
<1>2. CASE s \in raced
  BY <1>2 DEF EvictingOf
<1>3. CASE s \notin raced
  <2>1. Progress(r, s) /\ \A q \in Requests \ {r} : ~InCache(q, s)
    <3>1. ~Nobody(s)
      BY DEF Nobody
    <3>2. PICK w \in Requests : /\ InCache(w, s) /\ Progress(w, s)
                                /\ \A q \in Requests \ {w} : ~InCache(q, s)
      BY <1>3, <3>1 DEF EvictingOf
    <3>3. w = r
      BY <3>2
    <3> QED BY <3>2, <3>3
  <2>2. CASE InCache(r, s)' /\ Progress(r, s)'
    BY <1>1, <2>1, <2>2 DEF EvictingOf
  <2>3. CASE ~InCache(r, s)' /\ Quiet(s)'
    <3>1. Nobody(s)'
      BY <1>1, <2>1, <2>3 DEF Nobody
    <3> QED BY <2>3, <3>1 DEF EvictingOf
  <2> QED BY <1>3, <2>1, <2>2, <2>3
<1> QED BY <1>2, <1>3

\* A session r begins to work on, found at rest or counted as raced.
LEMMA Enters ==
    ASSUME NEW r \in Requests, NEW s \in Sessions,
           \A q \in Requests \ {r} : op'[q] = op[q],
           ~InCache(r, s), raced \subseteq raced', EvictingOf(s),
           (\E q \in Requests \ {r} : InCache(q, s)) => s \in raced',
           InCache(r, s)', Quiet(s) => Progress(r, s)'
    PROVE  EvictingOf(s)'
<1>1. \A q \in Requests \ {r} : InCache(q, s)' = InCache(q, s)
  BY DEF InCache, Targets
<1>2. CASE s \in raced'
  BY <1>2 DEF EvictingOf
<1>3. CASE s \notin raced'
  <2>1. \A q \in Requests \ {r} : ~InCache(q, s)
    BY <1>3
  <2>2. Quiet(s)
    BY <1>3, <2>1 DEF EvictingOf, Nobody
  <2> QED BY <1>1, <2>1, <2>2 DEF EvictingOf
<1> QED BY <1>2, <1>3

\* The parts of the invariant, put together after a step of r.
LEMMA Together ==
    ASSUME SInv, TypeOK', Grows, NEW r \in Requests,
           \A q \in Requests \ {r} : op'[q] = op[q],
           ShapeOf(r)', KnownOf(r)', CacheFollowsDatabase', Unborn',
           \A s \in Sessions : EvictingOf(s)'
    PROVE  SInv'
<1>1. \A q \in Requests \ {r} : ShapeOf(q)' /\ KnownOf(q)'
  BY OthersKeep DEF SInv
<1> QED BY <1>1 DEF SInv

\* A step that leaves the database alone.
LEMMA DatabaseRests ==
    ASSUME TypeOK, Unborn, row' = row, minted' = minted
    PROVE  Grows /\ Unborn'
<1>1. \A s \in Sessions : minted[s] \in Nat /\ row[s].version \in Nat
  BY DEF TypeOK
<1> QED BY <1>1 DEF Grows, Unborn

\* Nothing but op[r] changes, and r does not touch the cache.
LEMMA OnlyPrepares ==
    ASSUME SInv, NEW r \in Requests, NEW o \in Op, op' = [op EXCEPT ![r] = o],
           UNCHANGED <<row, minted, live, index, crashes, raced>>,
           op[r].pc \notin CachePcs, o.pc \notin CachePcs,
           ShapeOf(r)', KnownOf(r)'
    PROVE  SInv' /\ Grows
<1>1. op'[r] = o /\ \A q \in Requests \ {r} : op'[q] = op[q]
  BY DEF SInv, TypeOK
<1>2. TypeOK'
  BY DEF SInv, TypeOK
<1>3. Grows /\ Unborn'
  BY DatabaseRests DEF SInv
<1>4. CacheFollowsDatabase'
  BY DEF SInv, CacheFollowsDatabase
<1>5. ASSUME NEW s \in Sessions PROVE EvictingOf(s)'
  <2>1. ~InCache(r, s) /\ ~InCache(r, s)'
    BY <1>1 DEF InCache
  <2> QED BY <1>1, <2>1, Undisturbed DEF SInv
<1> QED BY <1>1, <1>2, <1>3, <1>4, <1>5, Together

-----------------------------------------------------------------------------

(* The database half. *)

LEMMA CreateSessionKeeps ==
    ASSUME SInv, NEW r \in Requests, CreateSession(r)
    PROVE  SInv' /\ Grows
<1>1. PICK s \in Sessions :
         /\ row[s].state = "none" /\ op[r].pc = "idle"
         /\ row' = [row EXCEPT ![s].state = "active"]
         /\ minted' = [minted EXCEPT ![s] = 1]
         /\ op' = [op EXCEPT ![r] = [NoOp EXCEPT !.pc = "set", !.s = s, !.mint = 0]]
         /\ UNCHANGED <<live, index, crashes, raced>>
  BY DEF CreateSession
<1>2. PICK o : o = [NoOp EXCEPT !.pc = "set", !.s = s, !.mint = 0]
  OBVIOUS
<1>3. /\ o \in Op /\ o.pc = "set" /\ o.s = s /\ o.rest = {} /\ o.mint = 0
      /\ o.seen = None
  BY <1>2, NoOpResult DEF Op, CachePcs
<1>4. op'[r] = o /\ op' \in [Requests -> Op] /\ \A q \in Requests \ {r} : op'[q] = op[q]
  BY <1>1, <1>2, <1>3 DEF SInv, TypeOK
<1>5. /\ row' \in [Sessions -> Row]
      /\ row'[s].state = "active" /\ row'[s].version = row[s].version
      /\ \A z \in Sessions \ {s} : row'[z] = row[z]
  BY <1>1 DEF SInv, TypeOK, Row
<1>6. /\ minted' \in [Sessions -> Nat] /\ minted[s] = 0 /\ minted'[s] = 1
      /\ \A z \in Sessions \ {s} : minted'[z] = minted[z]
  BY <1>1 DEF SInv, TypeOK, Unborn
<1>7. TypeOK'
  BY <1>1, <1>4, <1>5, <1>6 DEF SInv, TypeOK, Row
<1>8. Grows
  <2>1. \A z \in Sessions : row[z].version \in Nat /\ minted[z] \in Nat
    BY DEF SInv, TypeOK
  <2> QED BY <1>1, <1>5, <1>6, <2>1 DEF Grows
<1>9. Targets(r)' = {s} /\ InCache(r, s)'
  BY <1>3, <1>4, SessionsAssumption DEF Targets, InCache, CachePcs
<1>10. ShapeOf(r)' /\ KnownOf(r)'
  BY <1>3, <1>4, <1>5, <1>6, <1>9, SessionsAssumption DEF ShapeOf, KnownOf, CachePcs, WritePcs
<1>11. Clean(s) /\ index[s] = None
  BY <1>1, <1>6 DEF SInv, CacheFollowsDatabase, Clean, TypeOK
<1>12. CacheFollowsDatabase' /\ Unborn'
  <2>1. \A t \in live : t[1] \in Sessions \ {s}
    BY <1>11 DEF Clean, SInv, TypeOK, Tokens
  <2> QED BY <1>1, <1>5, <1>6, <1>11, <2>1 DEF SInv, CacheFollowsDatabase, Unborn
<1>13. ASSUME NEW z \in Sessions PROVE EvictingOf(z)'
  <2>1. CASE z = s
    <3>1. \A q \in Requests : ~InCache(q, s)
      BY <1>1, TargetsResult DEF SInv, ShapeOf, InCache
    <3>2. Progress(r, s)'
      BY <1>1, <1>3, <1>4, <1>5, <1>11 DEF Progress, Clean
    <3> QED BY <1>1, <1>4, <1>9, <2>1, <3>1, <3>2, Enters DEF SInv
  <2>2. CASE z # s
    <3>1. ~InCache(r, z) /\ ~InCache(r, z)'
      BY <1>1, <1>9, <2>2 DEF InCache, CachePcs
    <3> QED BY <1>1, <1>4, <1>5, <2>2, <3>1, Undisturbed DEF SInv
  <2> QED BY <2>1, <2>2
<1> QED BY <1>4, <1>7, <1>8, <1>10, <1>12, <1>13, Together

LEMMA BeginRefreshKeeps ==
    ASSUME SInv, NEW r \in Requests, BeginRefresh(r)
    PROVE  SInv' /\ Grows
<1>1. PICK s \in Sessions :
         /\ row[s].state = "active" /\ op[r].pc = "idle"
         /\ op' = [op EXCEPT ![r] = [NoOp EXCEPT !.pc = "refresh", !.s = s,
                                                 !.base = Versions({s})]]
         /\ UNCHANGED <<row, minted, live, index, crashes, raced>>
  BY DEF BeginRefresh, Active
<1>2. PICK o : o = [NoOp EXCEPT !.pc = "refresh", !.s = s, !.base = Versions({s})]
  OBVIOUS
<1>3. Versions({s}) \in [Sessions -> Nat] /\ Versions({s})[s] = row[s].version
  BY DEF Versions, SInv, TypeOK
<1>4. /\ o \in Op /\ o.pc = "refresh" /\ o.s = s /\ o.rest = {} /\ o.mint = None
      /\ o.base[s] = row[s].version
  BY <1>2, <1>3, NoOpResult DEF Op, WritePcs
<1>5. op'[r] = o
  BY <1>1, <1>2 DEF SInv, TypeOK
<1>6. Targets(r)' = {s}
  BY <1>4, <1>5, SessionsAssumption DEF Targets
<1>7. ShapeOf(r)' /\ KnownOf(r)'
  <2>1. ShapeOf(r)'
    BY <1>1, <1>4, <1>5, <1>6 DEF ShapeOf, CachePcs
  <2>2. /\ op'[r].base[s] = row'[s].version /\ row'[s].state = "active"
        /\ row'[s].version \in Nat
    BY <1>1, <1>4, <1>5 DEF SInv, TypeOK
  <2>3. KnownOf(r)'
    BY <1>6, <2>2 DEF KnownOf
  <2> QED BY <2>1, <2>3
<1> QED BY <1>1, <1>2, <1>4, <1>7, OnlyPrepares DEF CachePcs

LEMMA AuthenticateKeeps ==
    ASSUME SInv, NEW r \in Requests, Authenticate(r)
    PROVE  SInv' /\ Grows
<1>1. PICK t \in live :
         /\ op[r].pc = "idle"
         /\ op' = [op EXCEPT ![r] = [NoOp EXCEPT !.pc = "authed", !.s = t[1]]]
         /\ UNCHANGED <<row, minted, live, index, crashes, raced>>
  BY DEF Authenticate
<1>2. t[1] \in Sessions /\ row[t[1]].state # "none"
  BY DEF SInv, TypeOK, Tokens, CacheFollowsDatabase
<1>3. PICK o : o = [NoOp EXCEPT !.pc = "authed", !.s = t[1]]
  OBVIOUS
<1>4. o \in Op /\ o.pc = "authed" /\ o.s = t[1] /\ o.rest = {} /\ o.mint = None
  BY <1>2, <1>3, NoOpResult DEF Op
<1>5. op'[r] = o
  BY <1>1, <1>3 DEF SInv, TypeOK
<1>6. Targets(r)' = {t[1]}
  BY <1>2, <1>4, <1>5, SessionsAssumption DEF Targets
<1>7. ShapeOf(r)' /\ KnownOf(r)'
  BY <1>1, <1>2, <1>4, <1>5, <1>6 DEF ShapeOf, KnownOf, CachePcs, WritePcs
<1> QED BY <1>1, <1>3, <1>4, <1>7, OnlyPrepares DEF CachePcs

LEMMA BeginRevokeAllKeeps ==
    ASSUME SInv, NEW r \in Requests, BeginRevokeAll(r)
    PROVE  SInv' /\ Grows
<1>1. PICK active \in SUBSET Sessions :
         /\ \A s \in active : row[s].state = "active"
         /\ op[r].pc = "idle"
         /\ op' = [op EXCEPT ![r] = [NoOp EXCEPT !.pc = "revoke", !.rest = active,
                                                 !.base = Versions(active)]]
         /\ UNCHANGED <<row, minted, live, index, crashes, raced>>
  BY DEF BeginRevokeAll, Active
<1>2. PICK o : o = [NoOp EXCEPT !.pc = "revoke", !.rest = active, !.base = Versions(active)]
  OBVIOUS
<1>3. /\ Versions(active) \in [Sessions -> Nat]
      /\ \A s \in active : Versions(active)[s] = row[s].version
  BY DEF Versions, SInv, TypeOK
<1>4. /\ o \in Op /\ o.pc = "revoke" /\ o.s = None /\ o.rest = active /\ o.mint = None
      /\ \A s \in active : o.base[s] = row[s].version
  BY <1>2, <1>3, NoOpResult DEF Op, WritePcs
<1>5. op'[r] = o
  BY <1>1, <1>2 DEF SInv, TypeOK
<1>6. Targets(r)' = active
  BY <1>4, <1>5 DEF Targets
<1>7. ShapeOf(r)' /\ KnownOf(r)'
  <2>1. ShapeOf(r)'
    BY <1>1, <1>4, <1>5, <1>6 DEF ShapeOf, CachePcs
  <2>2. ASSUME NEW s \in active
        PROVE  /\ op'[r].base[s] = row'[s].version /\ row'[s].state = "active"
               /\ row'[s].version \in Nat
    BY <1>1, <1>4, <1>5 DEF SInv, TypeOK
  <2>3. KnownOf(r)'
    BY <1>6, <2>2 DEF KnownOf
  <2> QED BY <2>1, <2>3
<1> QED BY <1>1, <1>2, <1>4, <1>7, OnlyPrepares DEF CachePcs

LEMMA StaleKeeps ==
    ASSUME SInv, NEW r \in Requests, Stale(r)
    PROVE  SInv' /\ Grows
<1>1. op' = [op EXCEPT ![r] = NoOp] /\ op[r].pc \in WritePcs
  BY DEF Stale
<1>2. op'[r] = NoOp
  BY <1>1 DEF SInv, TypeOK
<1>3. Targets(r)' = {}
  BY <1>2, NoOpResult DEF Targets
<1>4. ShapeOf(r)' /\ KnownOf(r)'
  BY <1>2, <1>3, NoOpResult DEF ShapeOf, KnownOf, CachePcs, WritePcs
<1> QED BY <1>1, <1>4, NoOpResult, OnlyPrepares DEF Stale, CachePcs, WritePcs

\* What an UPDATE leaves in the row.
LEMMA UpdatedResult ==
    ASSUME TypeOK, NEW s \in Sessions, NEW state \in {"none", "active", "revoked"},
           NEW v, v = Updated(s, state)
    PROVE  v \in Row /\ v.state = state /\ v.version = row[s].version + 1
<1>1. PICK u \in Row : u = row[s]
  BY DEF TypeOK, Row
<1>2. v = [u EXCEPT !.state = state, !.version = u.version + 1]
  BY <1>1 DEF Updated, Row
<1>3. PICK n \in Nat : n = u.version + 1
  BY DEF Row
<1> QED BY <1>1, <1>2, <1>3 DEF Row

LEMMA CommitRefreshKeeps ==
    ASSUME SInv, NEW r \in Requests, CommitRefresh(r)
    PROVE  SInv' /\ Grows
<1>1. PICK s : s = op[r].s
  OBVIOUS
<1>2. /\ op[r].pc = "refresh" /\ Fresh(r)
      /\ row' = [row EXCEPT ![s] = Updated(s, "active")]
      /\ minted' = [minted EXCEPT ![s] = @ + 1]
      /\ op' = [op EXCEPT ![r] = [NoOp EXCEPT !.pc = "get", !.s = s, !.mint = minted[s]]]
      /\ raced' = raced \cup Overlaps(r)
      /\ UNCHANGED <<live, index, crashes>>
  BY <1>1 DEF CommitRefresh
<1>3. s \in Sessions /\ Targets(r) = {s}
  BY <1>1, <1>2, SessionsAssumption DEF SInv, ShapeOf, Targets
<1>4. row[s].state = "active"
  BY <1>2, <1>3 DEF SInv, KnownOf, Fresh, WritePcs
<1>5. PICK o : o = [NoOp EXCEPT !.pc = "get", !.s = s, !.mint = minted[s]]
  OBVIOUS
<1>6. minted[s] \in Nat /\ minted[s] # None
  BY <1>3, SessionsAssumption DEF SInv, TypeOK
<1>7. /\ o \in Op /\ o.pc = "get" /\ o.s = s /\ o.rest = {} /\ o.mint = minted[s]
  BY <1>3, <1>5, <1>6, NoOpResult DEF Op, CachePcs
<1>8. op'[r] = o /\ op' \in [Requests -> Op] /\ \A q \in Requests \ {r} : op'[q] = op[q]
  BY <1>2, <1>5, <1>7 DEF SInv, TypeOK
<1>9. /\ Updated(s, "active") \in Row
      /\ Updated(s, "active").state = "active"
      /\ Updated(s, "active").version = row[s].version + 1
  BY <1>3, UpdatedResult DEF SInv
<1>10. /\ row' \in [Sessions -> Row]
       /\ row'[s].state = "active" /\ row'[s].version = row[s].version + 1
       /\ \A z \in Sessions \ {s} : row'[z] = row[z]
  BY <1>2, <1>3, <1>9 DEF SInv, TypeOK, Row
<1>11. /\ minted' \in [Sessions -> Nat] /\ minted'[s] = minted[s] + 1
       /\ \A z \in Sessions \ {s} : minted'[z] = minted[z]
  BY <1>2, <1>3 DEF SInv, TypeOK
<1>12. raced \subseteq raced' /\ raced' \subseteq Sessions
  BY <1>2, <1>3 DEF Overlaps, SInv, TypeOK
<1>13. TypeOK'
  BY <1>2, <1>8, <1>10, <1>11, <1>12 DEF SInv, TypeOK, Row
<1>14. Grows
  <2>1. \A z \in Sessions : row[z].version \in Nat /\ minted[z] \in Nat
    BY DEF SInv, TypeOK
  <2> QED BY <1>4, <1>10, <1>11, <2>1 DEF Grows
<1>15. Targets(r)' = {s} /\ InCache(r, s)'
  BY <1>3, <1>7, <1>8, SessionsAssumption DEF Targets, InCache, CachePcs
<1>16. ShapeOf(r)' /\ KnownOf(r)'
  BY <1>3, <1>6, <1>7, <1>8, <1>10, <1>11, <1>15 DEF ShapeOf, KnownOf, CachePcs, WritePcs
<1>17. CacheFollowsDatabase' /\ Unborn'
  <2>1. ASSUME NEW t \in live PROVE row'[t[1]].state # "none" /\ t[2] < minted'[t[1]]
    <3>1. t[1] \in Sessions /\ t[2] \in Nat /\ minted[t[1]] \in Nat
      BY DEF SInv, TypeOK, Tokens
    <3>2. row[t[1]].state # "none" /\ t[2] < minted[t[1]]
      BY DEF SInv, CacheFollowsDatabase
    <3> QED BY <1>10, <1>11, <3>1, <3>2
  <2>2. ASSUME NEW z \in Sessions, index[z] # None PROVE index[z] < minted'[z]
    <3>1. index[z] \in Nat /\ index[z] < minted[z] /\ minted[z] \in Nat
      BY <2>2 DEF SInv, TypeOK, CacheFollowsDatabase
    <3> QED BY <1>11, <3>1
  <2>3. Unborn'
    BY <1>10, <1>11 DEF SInv, Unborn
  <2> QED BY <1>2, <2>1, <2>2, <2>3 DEF CacheFollowsDatabase
<1>18. ASSUME NEW z \in Sessions PROVE EvictingOf(z)'
  <2>1. CASE z = s
    <3>1. ~InCache(r, s)
      BY <1>2 DEF InCache, CachePcs
    <3>2. (\E q \in Requests \ {r} : InCache(q, s)) => s \in raced'
      BY <1>2, <1>3 DEF Overlaps
    <3>3. Quiet(s) => Progress(r, s)'
      BY <1>2, <1>7, <1>8, <1>10 DEF Progress, Quiet, Only
    <3> QED BY <1>3, <1>8, <1>12, <1>15, <2>1, <3>1, <3>2, <3>3, Enters DEF SInv
  <2>2. CASE z # s
    <3>1. ~InCache(r, z) /\ ~InCache(r, z)'
      BY <1>2, <1>15, <2>2 DEF InCache, CachePcs
    <3> QED BY <1>2, <1>8, <1>10, <1>12, <2>2, <3>1, Undisturbed DEF SInv
  <2> QED BY <2>1, <2>2
<1> QED BY <1>8, <1>13, <1>14, <1>16, <1>17, <1>18, Together

LEMMA BeginRevokeKeeps ==
    ASSUME SInv, NEW r \in Requests, BeginRevoke(r)
    PROVE  SInv' /\ Grows
<1>1. PICK s : s = op[r].s
  OBVIOUS
<1>2. /\ op[r].pc = "authed" /\ op[r] \in Op /\ s \in Sessions
      /\ op[r].rest = {} /\ op[r].mint = None /\ row[s].state # "none"
      /\ Targets(r) = {s}
  <2>1. /\ op[r].pc = "authed" /\ op[r] \in Op /\ s \in Sessions /\ op[r].rest = {}
    BY <1>1 DEF BeginRevoke, SInv, TypeOK, ShapeOf
  <2>2. Targets(r) = {s}
    BY <1>1, <2>1, SessionsAssumption DEF Targets
  <2> QED BY <2>1, <2>2 DEF SInv, ShapeOf, CachePcs
<1>3. UNCHANGED <<row, minted, live, index, crashes>>
  BY DEF BeginRevoke
<1>4. CASE row[s].state = "revoked"
  <2>1. op' = [op EXCEPT ![r].pc = "get"] /\ raced' = raced \cup Overlaps(r)
    BY <1>1, <1>4 DEF BeginRevoke
  <2>2. /\ op'[r] \in Op /\ op'[r].pc = "get" /\ op'[r].s = s /\ op'[r].rest = {}
        /\ op'[r].mint = None
    BY <1>1, <1>2, <2>1 DEF SInv, TypeOK, Op, CachePcs
  <2>3. op' \in [Requests -> Op] /\ \A q \in Requests \ {r} : op'[q] = op[q]
    BY <2>1, <2>2 DEF SInv, TypeOK
  <2>4. raced \subseteq raced' /\ raced' \subseteq Sessions
    BY <1>2, <2>1 DEF Overlaps, SInv, TypeOK
  <2>5. TypeOK'
    BY <1>3, <2>3, <2>4 DEF SInv, TypeOK
  <2>6. Grows /\ Unborn'
    BY <1>3, DatabaseRests DEF SInv
  <2>7. CacheFollowsDatabase'
    BY <1>3 DEF SInv, CacheFollowsDatabase
  <2>8. Targets(r)' = {s} /\ InCache(r, s)'
    BY <1>2, <2>2, SessionsAssumption DEF Targets, InCache, CachePcs
  <2>9. ShapeOf(r)' /\ KnownOf(r)'
    BY <1>2, <1>3, <2>2, <2>8 DEF ShapeOf, KnownOf, CachePcs, WritePcs
  <2>10. ASSUME NEW z \in Sessions PROVE EvictingOf(z)'
    <3>1. CASE z = s
      <4>1. ~InCache(r, s)
        BY <1>2 DEF InCache, CachePcs
      <4>2. (\E q \in Requests \ {r} : InCache(q, s)) => s \in raced'
        BY <1>2, <2>1 DEF Overlaps
      <4>3. Quiet(s) => Progress(r, s)'
        BY <1>3, <2>2 DEF Progress, Quiet, Only
      <4> QED BY <1>2, <2>3, <2>4, <2>8, <3>1, <4>1, <4>2, <4>3, Enters DEF SInv
    <3>2. CASE z # s
      <4>1. ~InCache(r, z) /\ ~InCache(r, z)'
        BY <1>2, <2>8, <3>2 DEF InCache, CachePcs
      <4> QED BY <1>3, <2>3, <2>4, <4>1, Undisturbed DEF SInv
    <3> QED BY <3>1, <3>2
  <2> QED BY <2>3, <2>5, <2>6, <2>7, <2>9, <2>10, Together
<1>5. CASE row[s].state # "revoked"
  <2>1. /\ op' = [op EXCEPT ![r].pc = "revoke", ![r].base = Versions({s})]
        /\ raced' = raced
    BY <1>1, <1>2, <1>5 DEF BeginRevoke
  <2>2. PICK o : o = [op[r] EXCEPT !.pc = "revoke", !.base = Versions({s})]
    OBVIOUS
  <2>3. Versions({s}) \in [Sessions -> Nat] /\ Versions({s})[s] = row[s].version
    BY <1>2 DEF Versions, SInv, TypeOK
  <2>4. /\ o \in Op /\ o.pc = "revoke" /\ o.s = s /\ o.rest = {} /\ o.mint = None
        /\ o.base[s] = row[s].version
    BY <1>1, <1>2, <2>2, <2>3 DEF Op, WritePcs
  <2>5. op' = [op EXCEPT ![r] = o]
    BY <2>1, <2>2 DEF SInv, TypeOK
  <2>6. op'[r] = o
    BY <2>5 DEF SInv, TypeOK
  <2>7. Targets(r)' = {s}
    BY <1>2, <2>4, <2>6, SessionsAssumption DEF Targets
  <2>8. row[s].state = "active" /\ row[s].version \in Nat
    BY <1>2, <1>5 DEF SInv, TypeOK
  <2>9. ShapeOf(r)' /\ KnownOf(r)'
    BY <1>3, <2>4, <2>6, <2>7, <2>8 DEF ShapeOf, KnownOf, CachePcs
  <2> QED BY <1>2, <1>3, <2>1, <2>4, <2>5, <2>9, OnlyPrepares DEF CachePcs
<1> QED BY <1>4, <1>5

LEMMA CommitRevokeKeeps ==
    ASSUME SInv, NEW r \in Requests, CommitRevoke(r)
    PROVE  SInv' /\ Grows
<1> DEFINE all == Targets(r)
<1>1. /\ op[r].pc = "revoke" /\ Fresh(r)
      /\ row' = [s \in Sessions |-> IF s \in all THEN Updated(s, "revoked") ELSE row[s]]
      /\ raced' = raced \cup Overlaps(r)
      /\ UNCHANGED <<minted, live, index, crashes>>
  BY DEF CommitRevoke
<1>2. all \subseteq Sessions
  BY TargetsResult DEF SInv
<1>3. PICK s \in all :
         op' = [op EXCEPT ![r] = [NoOp EXCEPT !.pc = "get", !.s = s, !.rest = all \ {s}]]
  BY DEF CommitRevoke
<1>4. PICK o : o = [NoOp EXCEPT !.pc = "get", !.s = s, !.rest = all \ {s}]
  OBVIOUS
<1>5. o \in Op /\ o.pc = "get" /\ o.s = s /\ o.rest = all \ {s} /\ o.mint = None
  BY <1>2, <1>3, <1>4, NoOpResult DEF Op, CachePcs
<1>6. op'[r] = o /\ op' \in [Requests -> Op] /\ \A q \in Requests \ {r} : op'[q] = op[q]
  BY <1>3, <1>4, <1>5 DEF SInv, TypeOK
<1>7. ASSUME NEW z \in all
      PROVE  /\ row'[z] \in Row /\ row'[z].state = "revoked"
             /\ row'[z].version = row[z].version + 1 /\ row[z].state = "active"
  <2>1. /\ row'[z] = Updated(z, "revoked")
        /\ Updated(z, "revoked") \in Row /\ Updated(z, "revoked").state = "revoked"
        /\ Updated(z, "revoked").version = row[z].version + 1
    BY <1>1, <1>2, UpdatedResult DEF SInv
  <2>2. row[z].state = "active"
    BY <1>1 DEF SInv, KnownOf, Fresh, WritePcs
  <2> QED BY <2>1, <2>2
<1>8. \A z \in Sessions \ all : row'[z] = row[z]
  BY <1>1
<1>9. row' \in [Sessions -> Row]
  <2>1. ASSUME NEW z \in Sessions PROVE row'[z] \in Row
    BY <1>7, <1>8 DEF SInv, TypeOK, Row
  <2> QED BY <1>1, <2>1
<1>10. raced \subseteq raced' /\ raced' \subseteq Sessions
  BY <1>1, <1>2 DEF Overlaps, SInv, TypeOK
<1>11. TypeOK'
  BY <1>1, <1>6, <1>9, <1>10 DEF SInv, TypeOK, Row
<1>12. Grows
  <2>1. \A z \in Sessions : row[z].version \in Nat /\ minted[z] \in Nat
    BY DEF SInv, TypeOK
  <2>2. \A z \in Sessions : z \in all \/ row'[z] = row[z]
    BY <1>8
  <2> QED BY <1>1, <1>7, <2>1, <2>2 DEF Grows
<1>13. Targets(r)' = all /\ \A z \in Sessions : InCache(r, z)' <=> z \in all
  <2>1. Targets(r)' = all
    BY <1>2, <1>5, <1>6, SessionsAssumption DEF Targets
  <2> QED BY <1>5, <1>6, <2>1 DEF InCache, CachePcs
<1>14. ShapeOf(r)' /\ KnownOf(r)'
  BY <1>2, <1>5, <1>6, <1>7, <1>13 DEF ShapeOf, KnownOf, CachePcs, WritePcs
<1>15. CacheFollowsDatabase' /\ Unborn'
  <2>1. \A z \in Sessions : row'[z].state = "none" => row[z].state = "none"
    BY <1>7, <1>8
  <2>2. \A z \in Sessions : row[z].state # "none" => row'[z].state # "none"
    BY <2>1
  <2>3. \A t \in live : t[1] \in Sessions
    BY DEF SInv, TypeOK, Tokens
  <2> QED BY <1>1, <2>1, <2>2, <2>3 DEF SInv, CacheFollowsDatabase, Unborn
<1>16. ASSUME NEW z \in Sessions PROVE EvictingOf(z)'
  <2>1. ~InCache(r, z)
    BY <1>1 DEF InCache, CachePcs
  <2>2. CASE z \in all
    <3>1. (\E q \in Requests \ {r} : InCache(q, z)) => z \in raced'
      BY <1>1, <2>2 DEF Overlaps
    <3>2. Quiet(z) => Progress(r, z)'
      BY <1>1, <1>5, <1>6 DEF Progress, Quiet, Only
    <3>3. InCache(r, z)'
      BY <1>13, <2>2
    <3> QED BY <1>6, <1>10, <2>1, <3>1, <3>2, <3>3, Enters DEF SInv
  <2>3. CASE z \notin all
    <3>1. ~InCache(r, z)' /\ row'[z] = row[z]
      BY <1>8, <1>13, <2>3
    <3> QED BY <1>1, <1>6, <1>10, <2>1, <3>1, Undisturbed DEF SInv
  <2> QED BY <2>2, <2>3
<1> QED BY <1>6, <1>11, <1>12, <1>14, <1>15, <1>16, Together

-----------------------------------------------------------------------------

(* The cache half. *)

\* A Redis command of r, for the session it has in hand.
LEMMA CacheStep ==
    ASSUME SInv, NEW r \in Requests, NEW o \in Op, op' = [op EXCEPT ![r] = o],
           UNCHANGED <<row, minted, crashes, raced>>, op[r].pc \in CachePcs,
           live' \subseteq Tokens, index' \in [Sessions -> Nat \cup {None}],
           \A z \in Sessions \ {op[r].s} : index'[z] = index[z],
           \A t \in live' : t \in live \/ t[1] = op[r].s,
           ShapeOf(r)', KnownOf(r)', CacheFollowsDatabase',
           \A z \in Sessions : InCache(r, z)' => InCache(r, z),
           \A z \in Sessions : InCache(r, z) /\ Progress(r, z) =>
               (InCache(r, z)' /\ Progress(r, z)') \/ (~InCache(r, z)' /\ Quiet(z)')
    PROVE  SInv' /\ Grows
<1>1. op'[r] = o /\ \A q \in Requests \ {r} : op'[q] = op[q]
  BY DEF SInv, TypeOK
<1>2. TypeOK'
  BY DEF SInv, TypeOK
<1>3. Grows /\ Unborn'
  BY DatabaseRests DEF SInv
<1>4. ASSUME NEW z \in Sessions PROVE EvictingOf(z)'
  <2>1. CASE InCache(r, z)
    BY <1>1, <2>1, Advances DEF SInv
  <2>2. CASE ~InCache(r, z)
    <3>1. z # op[r].s
      BY <2>2, TargetsResult DEF InCache, SInv
    <3>2. ~InCache(r, z)'
      BY <2>2
    <3>3. index'[z] = index[z] /\ \A t \in live' : t[1] = z => t \in live
      BY <3>1
    <3> QED BY <1>1, <2>2, <3>2, <3>3, Undisturbed DEF SInv
  <2> QED BY <2>1, <2>2
<1> QED BY <1>1, <1>2, <1>3, <1>4, Together

\* What the invariant says of a request in the cache half.
LEMMA InHand ==
    ASSUME SInv, NEW r \in Requests, op[r].pc \in CachePcs
    PROVE  /\ op[r] \in Op /\ op[r].s \in Sessions /\ op[r].s \notin op[r].rest
           /\ op[r].rest \subseteq Sessions /\ Targets(r) = op[r].rest \cup {op[r].s}
           /\ \A z \in Sessions : InCache(r, z) <=> z \in op[r].rest \cup {op[r].s}
           /\ \A z \in Targets(r) : row[z].state # "none"
           /\ op[r].mint # None =>
                 op[r].rest = {} /\ op[r].mint \in Nat /\ op[r].mint < minted[op[r].s]
<1>1. /\ op[r] \in Op /\ op[r].s \in Sessions /\ op[r].s \notin op[r].rest
      /\ op[r].rest \subseteq Sessions
  BY DEF SInv, ShapeOf, TypeOK, Op
<1>2. Targets(r) = op[r].rest \cup {op[r].s}
  BY <1>1, SessionsAssumption DEF Targets
<1>3. op[r].mint # None =>
         op[r].rest = {} /\ op[r].mint \in Nat /\ op[r].mint < minted[op[r].s]
  BY <1>1 DEF SInv, ShapeOf, Op
<1> QED BY <1>1, <1>2, <1>3 DEF InCache, SInv, ShapeOf

LEMMA EvictGetKeeps ==
    ASSUME SInv, NEW r \in Requests, EvictGet(r)
    PROVE  SInv' /\ Grows
<1>1. PICK s, seen :
         /\ s = op[r].s /\ seen = index[s]
         /\ op[r].pc = "get" /\ op[r].pc \in CachePcs
         /\ UNCHANGED <<row, minted, live, index, crashes, raced>>
  BY DEF EvictGet, CachePcs
<1>2. PICK o : o = [op[r] EXCEPT !.seen = seen, !.pc = IF seen = None THEN "unindex" ELSE "del"]
  OBVIOUS
<1>3. op' = [op EXCEPT ![r] = o]
  BY <1>1, <1>2 DEF EvictGet, SInv, TypeOK
<1>4. seen \in Nat \cup {None}
  BY <1>1, InHand DEF SInv, TypeOK
<1>5. /\ o \in Op /\ o.s = s /\ o.rest = op[r].rest /\ o.mint = op[r].mint /\ o.seen = seen
      /\ o.pc = IF seen = None THEN "unindex" ELSE "del"
  BY <1>1, <1>2, <1>4, InHand DEF Op, CachePcs
<1>6. op'[r] = o
  BY <1>3 DEF SInv, TypeOK
<1>7. Targets(r)' = Targets(r)
  BY <1>1, <1>5, <1>6 DEF Targets
<1>8. ShapeOf(r)' /\ KnownOf(r)'
  BY <1>1, <1>5, <1>6, <1>7, InHand DEF ShapeOf, KnownOf, CachePcs, WritePcs
<1>9. CacheFollowsDatabase'
  BY <1>1 DEF SInv, CacheFollowsDatabase
<1>10. \A z \in Sessions : InCache(r, z)' <=> InCache(r, z)
  BY <1>1, <1>5, <1>6, <1>7 DEF InCache, CachePcs
<1>11. ASSUME NEW z \in Sessions, InCache(r, z), Progress(r, z) PROVE Progress(r, z)'
  <2>1. CASE z # s
    BY <1>1, <1>5, <1>6, <1>11, <2>1 DEF Progress, Only
  <2>2. CASE z = s /\ seen # None
    BY <1>1, <1>5, <1>6, <1>11, <2>2 DEF Progress, Only
  <2>3. CASE z = s /\ seen = None
    <3>1. Only(s, None)
      BY <1>1, <1>11, <2>3 DEF Progress
    <3>2. Clean(s)
      BY <3>1, SessionsAssumption DEF Only, Clean, SInv, TypeOK, Tokens
    <3> QED BY <1>1, <1>5, <1>6, <1>11, <2>3, <3>2 DEF Progress, Clean
  <2> QED BY <2>1, <2>2, <2>3
<1>12. live' \subseteq Tokens /\ index' \in [Sessions -> Nat \cup {None}]
  BY <1>1 DEF SInv, TypeOK
<1>13. /\ \A z \in Sessions \ {op[r].s} : index'[z] = index[z]
       /\ \A t \in live' : t \in live \/ t[1] = op[r].s
  BY <1>1
<1>14. \A z \in Sessions : InCache(r, z) /\ Progress(r, z) => InCache(r, z)' /\ Progress(r, z)'
  BY <1>10, <1>11
<1> QED BY <1>1, <1>3, <1>5, <1>8, <1>9, <1>10, <1>12, <1>13, <1>14, CacheStep

LEMMA EvictDelKeeps ==
    ASSUME SInv, NEW r \in Requests, EvictDel(r)
    PROVE  SInv' /\ Grows
<1>1. PICK s :
      /\ s = op[r].s /\ op[r].pc = "del" /\ op[r].pc \in CachePcs
      /\ live' = live \ {<<s, op[r].seen>>}
      /\ UNCHANGED <<row, minted, index, crashes, raced>>
  BY DEF EvictDel, CachePcs
<1>2. PICK o : o = [op[r] EXCEPT !.pc = "unindex", !.seen = None]
  OBVIOUS
<1>3. op' = [op EXCEPT ![r] = o]
  BY <1>2 DEF EvictDel, SInv, TypeOK
<1>4. /\ o \in Op /\ o.s = s /\ o.rest = op[r].rest /\ o.mint = op[r].mint
      /\ o.pc = "unindex"
  BY <1>1, <1>2, InHand DEF Op, CachePcs
<1>5. op'[r] = o
  BY <1>3 DEF SInv, TypeOK
<1>6. Targets(r)' = Targets(r)
  BY <1>1, <1>4, <1>5 DEF Targets
<1>7. ShapeOf(r)' /\ KnownOf(r)'
  BY <1>1, <1>4, <1>5, <1>6, InHand DEF ShapeOf, KnownOf, CachePcs, WritePcs
<1>8. CacheFollowsDatabase'
  BY <1>1 DEF SInv, CacheFollowsDatabase
<1>9. \A z \in Sessions : InCache(r, z)' <=> InCache(r, z)
  BY <1>1, <1>4, <1>5, <1>6 DEF InCache, CachePcs
<1>10. ASSUME NEW z \in Sessions, InCache(r, z), Progress(r, z) PROVE Progress(r, z)'
  <2>1. CASE z # s
    BY <1>1, <1>4, <1>5, <1>10, <2>1 DEF Progress, Only
  <2>2. CASE z = s
    <3>1. Only(s, op[r].seen)
      BY <1>1, <1>10, <2>2 DEF Progress
    <3>2. Clean(s)'
      BY <1>1, <3>1 DEF Only, Clean, SInv, TypeOK, Tokens
    <3>3. row'[s].state = row[s].state /\ op'[r].s = s /\ op'[r].pc = "unindex" /\ op'[r].mint = op[r].mint
      BY <1>1, <1>4, <1>5
    <3>4. op[r].mint # None => row[s].state # "revoked"
      BY <1>10, <2>2 DEF Progress
    <3> QED BY <2>2, <3>2, <3>3, <3>4 DEF Progress, Clean
  <2> QED BY <2>1, <2>2
<1>11. live' \subseteq Tokens /\ index' \in [Sessions -> Nat \cup {None}]
  BY <1>1 DEF SInv, TypeOK
<1>12. /\ \A z \in Sessions \ {op[r].s} : index'[z] = index[z]
       /\ \A t \in live' : t \in live \/ t[1] = op[r].s
  BY <1>1
<1>13. \A z \in Sessions : InCache(r, z) /\ Progress(r, z) => InCache(r, z)' /\ Progress(r, z)'
  BY <1>9, <1>10
<1> QED BY <1>1, <1>3, <1>4, <1>7, <1>8, <1>9, <1>11, <1>12, <1>13, CacheStep

LEMMA EvictUnindexKeeps ==
    ASSUME SInv, NEW r \in Requests, EvictUnindex(r)
    PROVE  SInv' /\ Grows
<1>1. PICK s :
      /\ s = op[r].s /\ op[r].pc = "unindex" /\ op[r].pc \in CachePcs
      /\ index' = [index EXCEPT ![s] = None]
      /\ UNCHANGED <<row, minted, live, crashes, raced>>
  BY DEF EvictUnindex, CachePcs
<1>2. s \in Sessions
  BY <1>1, InHand
<1>3. /\ index' \in [Sessions -> Nat \cup {None}] /\ index'[s] = None
      /\ \A z \in Sessions \ {s} : index'[z] = index[z]
  BY <1>1, <1>2 DEF SInv, TypeOK
<1>4. live' \subseteq Tokens
  BY <1>1 DEF SInv, TypeOK
<1>5. CacheFollowsDatabase'
  BY <1>1, <1>3 DEF SInv, CacheFollowsDatabase
<1>6. ASSUME Progress(r, s) PROVE Clean(s)' /\ Only(s, None)'
  <2>1. Clean(s)
    BY <1>1, <1>6 DEF Progress
  <2> QED BY <1>1, <2>1 DEF Clean, Only
<1>7. CASE op[r].mint # None /\ op' = [op EXCEPT ![r].pc = "set"]
  <2>1. PICK o : o = [op[r] EXCEPT !.pc = "set"]
    OBVIOUS
  <2>2. op' = [op EXCEPT ![r] = o] /\ op'[r] = o
    BY <1>7, <2>1 DEF SInv, TypeOK
  <2>3. o \in Op /\ o.s = s /\ o.rest = op[r].rest /\ o.mint = op[r].mint /\ o.pc = "set"
    BY <1>1, <2>1, InHand DEF Op, CachePcs
  <2>4. Targets(r)' = Targets(r)
    BY <1>1, <2>2, <2>3 DEF Targets
  <2>5. ShapeOf(r)' /\ KnownOf(r)'
    BY <1>1, <1>7, <2>2, <2>3, <2>4, InHand DEF ShapeOf, KnownOf, CachePcs, WritePcs
  <2>6. \A z \in Sessions : InCache(r, z)' <=> InCache(r, z)
    BY <1>1, <2>2, <2>3, <2>4 DEF InCache, CachePcs
  <2>7. ASSUME NEW z \in Sessions, InCache(r, z), Progress(r, z) PROVE Progress(r, z)'
    <3>1. z = s
      BY <1>1, <1>7, <2>7, InHand
    <3> QED BY <1>1, <1>6, <2>2, <2>3, <2>7, <3>1 DEF Progress
  <2>8. \A z \in Sessions : InCache(r, z) /\ Progress(r, z) => InCache(r, z)' /\ Progress(r, z)'
    BY <2>6, <2>7
  <2> QED BY <1>1, <1>3, <1>4, <1>5, <2>2, <2>3, <2>5, <2>6, <2>8, CacheStep
<1>8. CASE op[r].rest = {} /\ op' = [op EXCEPT ![r] = NoOp]
  <2>1. op'[r] = NoOp
    BY <1>8 DEF SInv, TypeOK
  <2>2. Targets(r)' = {} /\ \A z : ~InCache(r, z)'
    BY <2>1, NoOpResult DEF Targets, InCache
  <2>3. ShapeOf(r)' /\ KnownOf(r)'
    BY <2>1, <2>2, NoOpResult DEF ShapeOf, KnownOf, CachePcs, WritePcs
  <2>4. ASSUME NEW z \in Sessions, InCache(r, z), Progress(r, z) PROVE Quiet(z)'
    <3>1. z = s
      BY <1>1, <1>8, <2>4, InHand
    <3> QED BY <1>3, <1>6, <2>4, <3>1 DEF Quiet
  <2> QED BY <1>1, <1>3, <1>4, <1>5, <1>8, <2>2, <2>3, <2>4, NoOpResult, CacheStep
<1>9. ASSUME op[r].mint = None, NEW n \in op[r].rest,
             op' = [op EXCEPT ![r].pc = "get", ![r].s = n, ![r].rest = @ \ {n}]
      PROVE  SInv' /\ Grows
  <2>1. PICK o : o = [op[r] EXCEPT !.pc = "get", !.s = n, !.rest = @ \ {n}]
    OBVIOUS
  <2>2. op' = [op EXCEPT ![r] = o] /\ op'[r] = o
    BY <1>9, <2>1 DEF SInv, TypeOK
  <2>3. /\ o \in Op /\ o.s = n /\ o.rest = op[r].rest \ {n} /\ o.mint = None /\ o.pc = "get"
        /\ n \in Sessions /\ n # s
    BY <1>1, <1>9, <2>1, InHand DEF Op, CachePcs
  <2>4. Targets(r)' = op[r].rest /\ \A z : InCache(r, z)' <=> z \in op[r].rest
    <3>1. Targets(r)' = op[r].rest
      BY <1>9, <2>2, <2>3, SessionsAssumption DEF Targets
    <3> QED BY <2>2, <2>3, <3>1 DEF InCache, CachePcs
  <2>5. ShapeOf(r)' /\ KnownOf(r)'
    BY <1>1, <1>9, <2>2, <2>3, <2>4, InHand DEF ShapeOf, KnownOf, CachePcs, WritePcs
  <2>6. ASSUME NEW z \in Sessions, InCache(r, z), Progress(r, z)
        PROVE  (InCache(r, z)' /\ Progress(r, z)') \/ (~InCache(r, z)' /\ Quiet(z)')
    <3>1. CASE z = s
      <4>1. ~InCache(r, z)'
        BY <1>1, <2>4, <3>1, InHand
      <4> QED BY <1>3, <1>6, <2>6, <3>1, <4>1 DEF Quiet
    <3>2. CASE z # s
      <4>1. z \in op[r].rest
        BY <1>1, <2>6, <3>2, InHand
      <4>2. Only(z, index[z])
        BY <1>1, <2>6, <3>2 DEF Progress
      <4>3. Only(z, index[z])' 
        BY <1>1, <1>3, <3>2, <4>2 DEF Only
      <4>4. Progress(r, z)'
        BY <2>2, <2>3, <4>3 DEF Progress
      <4> QED BY <2>4, <4>1, <4>4
    <3> QED BY <3>1, <3>2
  <2>7. \A z \in Sessions : InCache(r, z)' => InCache(r, z)
    BY <1>1, <2>4, InHand
  <2> QED BY <1>1, <1>3, <1>4, <1>5, <2>2, <2>3, <2>5, <2>6, <2>7, CacheStep
<1> QED BY <1>7, <1>8, <1>9 DEF EvictUnindex

LEMMA CacheSetKeeps ==
    ASSUME SInv, NEW r \in Requests, CacheSet(r)
    PROVE  SInv' /\ Grows
<1>1. PICK s, n :
      /\ s = op[r].s /\ n = op[r].mint
      /\ op[r].pc = "set" /\ op[r].pc \in CachePcs
      /\ live' = live \cup {<<s, n>>}
      /\ UNCHANGED <<row, minted, index, crashes, raced>>
  BY DEF CacheSet, CachePcs
<1>2. /\ s \in Sessions /\ n \in Nat /\ n # None /\ n < minted[s]
      /\ op[r].rest = {} /\ row[s].state # "none"
  BY <1>1, InHand DEF SInv, ShapeOf
<1>3. PICK o : o = [op[r] EXCEPT !.pc = "index"]
  OBVIOUS
<1>4. op' = [op EXCEPT ![r] = o] /\ op'[r] = o
  BY <1>3 DEF CacheSet, SInv, TypeOK
<1>5. o \in Op /\ o.s = s /\ o.rest = {} /\ o.mint = n /\ o.pc = "index"
  BY <1>1, <1>2, <1>3, InHand DEF Op, CachePcs
<1>6. Targets(r)' = Targets(r)
  BY <1>1, <1>2, <1>4, <1>5 DEF Targets
<1>7. ShapeOf(r)' /\ KnownOf(r)'
  BY <1>1, <1>2, <1>4, <1>5, <1>6, InHand DEF ShapeOf, KnownOf, CachePcs, WritePcs
<1>8. CacheFollowsDatabase'
  BY <1>1, <1>2 DEF SInv, CacheFollowsDatabase
<1>9. \A z \in Sessions : InCache(r, z)' <=> InCache(r, z)
  BY <1>1, <1>4, <1>5, <1>6 DEF InCache, CachePcs
<1>10. ASSUME NEW z \in Sessions, InCache(r, z), Progress(r, z) PROVE Progress(r, z)'
  <2>1. z = s
    BY <1>1, <1>2, <1>10, InHand
  <2>2. Clean(s) /\ row[s].state # "revoked"
    BY <1>1, <1>2, <1>10, <2>1 DEF Progress
  <2>3. Only(s, n)'
    BY <1>1, <2>2 DEF Only, Clean
  <2> QED BY <1>1, <1>4, <1>5, <2>1, <2>2, <2>3 DEF Progress, Only
<1>11. live' \subseteq Tokens /\ index' \in [Sessions -> Nat \cup {None}]
  BY <1>1, <1>2 DEF SInv, TypeOK, Tokens
<1>12. /\ \A z \in Sessions \ {op[r].s} : index'[z] = index[z]
       /\ \A t \in live' : t \in live \/ t[1] = op[r].s
  BY <1>1
<1>13. \A z \in Sessions : InCache(r, z) /\ Progress(r, z) => InCache(r, z)' /\ Progress(r, z)'
  BY <1>9, <1>10
<1> QED BY <1>1, <1>4, <1>5, <1>7, <1>8, <1>9, <1>11, <1>12, <1>13, CacheStep

LEMMA CacheIndexKeeps ==
    ASSUME SInv, NEW r \in Requests, CacheIndex(r)
    PROVE  SInv' /\ Grows
<1>1. PICK s, n :
      /\ s = op[r].s /\ n = op[r].mint
      /\ op[r].pc = "index" /\ op[r].pc \in CachePcs
      /\ index' = [index EXCEPT ![s] = n]
      /\ op' = [op EXCEPT ![r] = NoOp]
      /\ UNCHANGED <<row, minted, live, crashes, raced>>
  BY DEF CacheIndex, CachePcs
<1>2. /\ s \in Sessions /\ n \in Nat /\ n # None /\ n < minted[s] /\ op[r].rest = {}
  BY <1>1, InHand DEF SInv, ShapeOf
<1>3. /\ index' \in [Sessions -> Nat \cup {None}] /\ index'[s] = n
      /\ \A z \in Sessions \ {s} : index'[z] = index[z]
  BY <1>1, <1>2 DEF SInv, TypeOK
<1>4. op'[r] = NoOp
  BY <1>1 DEF SInv, TypeOK
<1>5. Targets(r)' = {} /\ \A z : ~InCache(r, z)'
  BY <1>4, NoOpResult DEF Targets, InCache
<1>6. ShapeOf(r)' /\ KnownOf(r)'
  BY <1>4, <1>5, NoOpResult DEF ShapeOf, KnownOf, CachePcs, WritePcs
<1>7. CacheFollowsDatabase'
  BY <1>1, <1>2, <1>3 DEF SInv, CacheFollowsDatabase
<1>8. ASSUME NEW z \in Sessions, InCache(r, z), Progress(r, z) PROVE Quiet(z)'
  <2>1. z = s
    BY <1>1, <1>2, <1>8, InHand
  <2>2. Only(s, n) /\ row[s].state # "revoked"
    BY <1>1, <1>2, <1>8, <2>1 DEF Progress
  <2>3. Only(s, index[s])'
    BY <1>1, <1>3, <2>2 DEF Only
  <2> QED BY <1>1, <2>1, <2>2, <2>3 DEF Quiet
<1>9. live' \subseteq Tokens
  BY <1>1 DEF SInv, TypeOK
<1>10. /\ \A z \in Sessions \ {op[r].s} : index'[z] = index[z]
       /\ \A t \in live' : t \in live \/ t[1] = op[r].s
  BY <1>1, <1>3
<1>11. \A z \in Sessions : InCache(r, z) /\ Progress(r, z) => ~InCache(r, z)' /\ Quiet(z)'
  BY <1>5, <1>8
<1> QED BY <1>1, <1>3, <1>5, <1>6, <1>7, <1>9, <1>10, <1>11, NoOpResult, CacheStep

LEMMA CrashKeeps ==
    ASSUME SInv, NEW r \in Requests, Crash(r)
    PROVE  SInv' /\ Grows
<1>1. /\ crashes' = crashes + 1 /\ op' = [op EXCEPT ![r] = NoOp]
      /\ raced' = raced \cup {s \in Sessions : InCache(r, s)}
      /\ UNCHANGED <<row, minted, live, index>>
  BY DEF Crash
<1>2. /\ op' \in [Requests -> Op] /\ op'[r] = NoOp
      /\ \A q \in Requests \ {r} : op'[q] = op[q]
  BY <1>1, NoOpResult DEF SInv, TypeOK
<1>3. TypeOK'
  BY <1>1, <1>2 DEF SInv, TypeOK
<1>4. Grows /\ Unborn'
  BY <1>1, DatabaseRests DEF SInv
<1>5. CacheFollowsDatabase'
  BY <1>1 DEF SInv, CacheFollowsDatabase
<1>6. Targets(r)' = {} /\ \A z : ~InCache(r, z)'
  BY <1>2, NoOpResult DEF Targets, InCache
<1>7. ShapeOf(r)' /\ KnownOf(r)'
  BY <1>2, <1>6, NoOpResult DEF ShapeOf, KnownOf, CachePcs, WritePcs
<1>8. ASSUME NEW z \in Sessions PROVE EvictingOf(z)'
  <2>1. CASE InCache(r, z)
    BY <1>1, <2>1 DEF EvictingOf
  <2>2. CASE ~InCache(r, z)
    BY <1>1, <1>2, <1>6, <2>2, Undisturbed DEF SInv
  <2> QED BY <2>1, <2>2
<1> QED BY <1>2, <1>3, <1>4, <1>5, <1>7, <1>8, Together

-----------------------------------------------------------------------------

(* Time. *)

LEMMA TimePasses ==
    ASSUME SInv, TypeOK', Grows, UNCHANGED <<minted, op, raced>>,
           live' \subseteq live, CacheFollowsDatabase',
           \A s \in Sessions : row'[s].state = row[s].state,
           \A s \in Sessions : Only(s, index[s]) => Only(s, index[s])'
    PROVE  SInv'
<1>1. \A r \in Requests : ShapeOf(r)' /\ KnownOf(r)'
  BY OthersKeep DEF SInv
<1>2. Unborn'
  BY DEF SInv, Unborn
<1>3. ASSUME NEW s \in Sessions PROVE EvictingOf(s)'
  <2>1. \A q \in Requests : InCache(q, s)' <=> InCache(q, s)
    BY DEF InCache, Targets
  <2>2. Clean(s) => Clean(s)'
    BY DEF Clean
  <2>3. \A n : Only(s, n) => Only(s, n)'
    BY DEF Only
  <2>4. CASE s \in raced
    BY <2>4 DEF EvictingOf
  <2>5. CASE Nobody(s) /\ Quiet(s)
    <3>1. Nobody(s)'
      BY <2>1, <2>5 DEF Nobody
    <3>2. Quiet(s)'
      BY <2>2, <2>5 DEF Quiet
    <3> QED BY <3>1, <3>2 DEF EvictingOf
  <2>6. ASSUME NEW r \in Requests, InCache(r, s), Progress(r, s),
               \A q \in Requests \ {r} : ~InCache(q, s)
        PROVE  EvictingOf(s)'
    <3>1. PICK o : o = op[r] /\ o = op'[r]
      OBVIOUS
    <3>2. Progress(r, s)'
      BY <2>2, <2>3, <2>6, <3>1 DEF Progress
    <3> QED BY <2>1, <2>6, <3>2 DEF EvictingOf
  <2> QED BY <2>4, <2>5, <2>6 DEF SInv, EvictingOf
<1> QED BY <1>1, <1>2, <1>3 DEF SInv

LEMMA SessionExpiresKeeps ==
    ASSUME SInv, NEW s \in Sessions, SessionExpires(s)
    PROVE  SInv' /\ Grows
<1>1. /\ row' = [row EXCEPT ![s].expired = TRUE]
      /\ UNCHANGED <<minted, live, index, op, crashes, raced>>
  BY DEF SessionExpires
<1>2. /\ row' \in [Sessions -> Row]
      /\ \A z \in Sessions : row'[z].state = row[z].state /\ row'[z].version = row[z].version
  BY <1>1 DEF SInv, TypeOK, Row
<1>3. TypeOK'
  BY <1>1, <1>2 DEF SInv, TypeOK, Row
<1>4. Grows
  <2>1. \A z \in Sessions : row[z].version \in Nat /\ minted[z] \in Nat
    BY DEF SInv, TypeOK
  <2> QED BY <1>1, <1>2, <2>1 DEF Grows
<1>5. CacheFollowsDatabase'
  <2>1. \A t \in live : t[1] \in Sessions
    BY DEF SInv, TypeOK, Tokens
  <2> QED BY <1>1, <1>2, <2>1 DEF SInv, CacheFollowsDatabase
<1>6. \A z \in Sessions : Only(z, index[z]) => Only(z, index[z])'
  BY <1>1 DEF Only
<1> QED BY <1>1, <1>2, <1>3, <1>4, <1>5, <1>6, TimePasses

LEMMA TokenExpiresKeeps ==
    ASSUME SInv, NEW t \in live, TokenExpires(t)
    PROVE  SInv' /\ Grows
<1>1. live' = live \ {t} /\ UNCHANGED <<row, minted, index, op, crashes, raced>>
  BY DEF TokenExpires
<1>2. TypeOK'
  BY <1>1 DEF SInv, TypeOK
<1>3. Grows
  BY <1>1, DatabaseRests DEF SInv
<1>4. CacheFollowsDatabase'
  BY <1>1 DEF SInv, CacheFollowsDatabase
<1>5. \A z \in Sessions : Only(z, index[z]) => Only(z, index[z])'
  BY <1>1 DEF Only
<1> QED BY <1>1, <1>2, <1>3, <1>4, <1>5, TimePasses

LEMMA IndexExpiresKeeps ==
    ASSUME SInv, NEW s \in Sessions, IndexExpires(s)
    PROVE  SInv' /\ Grows
<1>1. /\ <<s, index[s]>> \notin live /\ index' = [index EXCEPT ![s] = None]
      /\ UNCHANGED <<row, minted, live, op, crashes, raced>>
  BY DEF IndexExpires
<1>2. /\ index' \in [Sessions -> Nat \cup {None}] /\ index'[s] = None
      /\ \A z \in Sessions \ {s} : index'[z] = index[z]
  BY <1>1 DEF SInv, TypeOK
<1>3. TypeOK'
  BY <1>1, <1>2 DEF SInv, TypeOK
<1>4. Grows
  BY <1>1, DatabaseRests DEF SInv
<1>5. CacheFollowsDatabase'
  BY <1>1, <1>2 DEF SInv, CacheFollowsDatabase
<1>6. ASSUME NEW z \in Sessions, Only(z, index[z]) PROVE Only(z, index[z])'
  <2>1. CASE z # s
    BY <1>1, <1>2, <1>6, <2>1 DEF Only
  <2>2. CASE z = s
    <3>1. \A t \in live : t[1] # s
      BY <1>1, <1>6, <2>2 DEF Only, SInv, TypeOK, Tokens
    <3> QED BY <1>1, <2>2, <3>1 DEF Only
  <2> QED BY <2>1, <2>2
<1> QED BY <1>1, <1>3, <1>4, <1>5, <1>6, TimePasses

-----------------------------------------------------------------------------

LEMMA InitHolds == Init => SInv
<1> SUFFICES ASSUME Init PROVE SInv
  OBVIOUS
<1>1. TypeOK
  BY NoOpResult DEF Init, TypeOK, Tokens
<1>2. \A r \in Requests : Targets(r) = {} /\ op[r] = NoOp
  BY NoOpResult DEF Init, Targets
<1>3. \A r \in Requests : ShapeOf(r) /\ KnownOf(r)
  BY <1>2, NoOpResult DEF ShapeOf, KnownOf, CachePcs, WritePcs
<1>4. CacheFollowsDatabase /\ Unborn
  BY DEF Init, CacheFollowsDatabase, Unborn
<1>5. ASSUME NEW s \in Sessions PROVE EvictingOf(s)
  <2>1. Nobody(s)
    BY <1>2 DEF Nobody, InCache
  <2>2. Quiet(s)
    BY DEF Init, Quiet, Only, Clean
  <2> QED BY <2>1, <2>2 DEF EvictingOf
<1> QED BY <1>1, <1>3, <1>4, <1>5 DEF SInv

LEMMA NextKeeps == SInv /\ [Next]_vars => SInv' /\ Grows
<1> SUFFICES ASSUME SInv, [Next]_vars PROVE SInv' /\ Grows
  OBVIOUS
<1>1. ASSUME NEW r \in Requests, Start(r) \/ Continue(r) \/ Crash(r)
      PROVE  SInv' /\ Grows
  BY <1>1, CreateSessionKeeps, BeginRefreshKeeps, AuthenticateKeeps, BeginRevokeAllKeeps,
     CommitRefreshKeeps, BeginRevokeKeeps, CommitRevokeKeeps, StaleKeeps, EvictGetKeeps,
     EvictDelKeeps, EvictUnindexKeeps, CacheSetKeeps, CacheIndexKeeps, CrashKeeps
  DEF Start, Continue
<1>2. ASSUME NEW s \in Sessions, SessionExpires(s) \/ IndexExpires(s)
      PROVE  SInv' /\ Grows
  BY <1>2, SessionExpiresKeeps, IndexExpiresKeeps
<1>3. ASSUME NEW t \in live, TokenExpires(t) PROVE SInv' /\ Grows
  BY <1>3, TokenExpiresKeeps
<1>4. CASE UNCHANGED vars
  <2>1. Grows
    BY <1>4, DatabaseRests DEF SInv, vars
  <2>2. \A s \in Sessions : Only(s, index[s]) => Only(s, index[s])'
    BY <1>4 DEF Only, vars
  <2>3. TypeOK' /\ CacheFollowsDatabase'
    BY <1>4 DEF SInv, TypeOK, CacheFollowsDatabase, vars
  <2> QED BY <1>4, <2>1, <2>2, <2>3, TimePasses DEF vars
<1> QED BY <1>1, <1>2, <1>3, <1>4 DEF Next

LEMMA Invariance == Spec => []SInv
<1>1. SInv /\ [Next]_vars => SInv'
  BY NextKeeps
<1> QED BY InitHolds, <1>1, PTL DEF Spec

\* Types and bounds hold for every set of sessions and requests.
THEOREM SessionsTypeCorrect == Spec => []TypeOK
<1>1. SInv => TypeOK
  BY DEF SInv
<1> QED BY Invariance, <1>1, PTL

\* The cache never runs ahead of the database, whatever the requests on it do
\* and wherever one dies.
THEOREM CacheNeverAhead == Spec => []CacheFollowsDatabase
<1>1. SInv => CacheFollowsDatabase
  BY DEF SInv
<1> QED BY Invariance, <1>1, PTL

\* A revocation nobody raced has deleted every token of its session.
THEOREM RevocationEvicts == Spec => []RevokedMeansEvicted
<1>1. ASSUME SInv PROVE RevokedMeansEvicted
  <2> SUFFICES ASSUME NEW s \in Sessions \ raced, row[s].state = "revoked",
                      \A r \in Requests : ~InCache(r, s)
               PROVE  Clean(s)
    BY DEF RevokedMeansEvicted, Clean
  <2> QED BY <1>1 DEF SInv, EvictingOf, Quiet
<1>2. SInv => RevokedMeansEvicted
  BY <1>1
<1> QED BY Invariance, <1>2, PTL

\* No step makes a revoked session active again.
THEOREM RevocationIsFinal == Spec => RevokedIsFinal
<1>1. SInv /\ [Next]_vars =>
         [\A s \in Sessions : row[s].state = "revoked" =>
             row'[s].state = "revoked" /\ row'[s].version = row[s].version]_vars
  BY NextKeeps DEF Grows
<1> QED BY Invariance, <1>1, PTL DEF Spec, RevokedIsFinal

\* Logging out everywhere revokes everything it found or nothing.
THEOREM RevokesAllOrNothing == Spec => RevokedTogether
<1> DEFINE P == \A r \in Requests :
                   op[r].pc = "revoke" /\ op'[r].pc # "revoke" =>
                       \/ \A s \in Targets(r) : row'[s].state = "revoked"
                       \/ row' = row
<1>1. SInv /\ [Next]_vars => [P]_vars
  <2> SUFFICES ASSUME SInv, Next, NEW r \in Requests, op[r].pc = "revoke", op'[r].pc # "revoke",
                      row' # row
               PROVE  \A s \in Targets(r) : row'[s].state = "revoked"
    OBVIOUS
  <2>1. Targets(r) \subseteq Sessions
    BY TargetsResult DEF SInv
  <2>2. CASE CommitRevoke(r)
    <3>1. ASSUME NEW s \in Targets(r) PROVE row'[s].state = "revoked"
      <4>1. row'[s] = Updated(s, "revoked")
        BY <2>1, <2>2 DEF CommitRevoke
      <4> QED BY <2>1, <4>1, UpdatedResult DEF SInv
    <3> QED BY <3>1
  <2>3. ASSUME NEW q \in Requests, q # r, Start(q) \/ Continue(q) \/ Crash(q)
        PROVE  FALSE
    <3>1. op'[r] = op[r]
      <4>1. op \in [Requests -> Op]
        BY DEF SInv, TypeOK
      <4>2. ASSUME Start(q) PROVE op'[r] = op[r]
        BY <2>3, <4>1, <4>2 DEF Start, CreateSession, BeginRefresh, Authenticate, BeginRevokeAll
      <4>3. ASSUME Crash(q) \/ Stale(q) \/ CommitRefresh(q) PROVE op'[r] = op[r]
        BY <2>3, <4>1, <4>3 DEF Crash, Stale, CommitRefresh
      <4>4. ASSUME BeginRevoke(q) \/ CommitRevoke(q) PROVE op'[r] = op[r]
        BY <2>3, <4>1, <4>4 DEF BeginRevoke, CommitRevoke
      <4>5. ASSUME EvictGet(q) \/ EvictDel(q) \/ EvictUnindex(q) PROVE op'[r] = op[r]
        BY <2>3, <4>1, <4>5 DEF EvictGet, EvictDel, EvictUnindex
      <4>6. ASSUME CacheSet(q) \/ CacheIndex(q) PROVE op'[r] = op[r]
        BY <2>3, <4>1, <4>6 DEF CacheSet, CacheIndex
      <4> QED BY <2>3, <4>2, <4>3, <4>4, <4>5, <4>6 DEF Continue
    <3> QED BY <3>1
  <2>4. ASSUME Start(r) \/ Continue(r) \/ Crash(r) PROVE CommitRevoke(r)
    <3>1. ~Start(r)
      BY DEF Start, CreateSession, BeginRefresh, Authenticate, BeginRevokeAll
    <3>2. ~Crash(r) /\ ~Stale(r) /\ ~BeginRevoke(r) /\ ~CommitRefresh(r)
      BY DEF Crash, Stale, BeginRevoke, CommitRefresh
    <3>3. /\ ~EvictGet(r) /\ ~EvictDel(r) /\ ~EvictUnindex(r)
          /\ ~CacheSet(r) /\ ~CacheIndex(r)
      BY DEF EvictGet, EvictDel, EvictUnindex, CacheSet, CacheIndex
    <3> QED BY <2>4, <3>1, <3>2, <3>3 DEF Continue
  <2>5. \E q \in Requests : Start(q) \/ Continue(q) \/ Crash(q)
    BY DEF Next, SessionExpires, IndexExpires, TokenExpires
  <2> QED BY <2>2, <2>3, <2>4, <2>5
<1> QED BY Invariance, <1>1, PTL DEF Spec, RevokedTogether

-----------------------------------------------------------------------------

(* The contract. *)

stateOf == [s \in Sessions |-> row[s].state]
owedNow == {Token(r) : r \in {q \in Requests : Owes(q)}}

\* No token is in the hands of two requests.
OneOwner ==
    \A r, q \in Requests :
        r # q /\ op[r].mint # None /\ op[q].mint # None => Token(r) # Token(q)

OInv == SInv /\ OneOwner

\* What a step of r does to what is owed.
LEMMA OwedAfter ==
    ASSUME NEW r \in Requests, \A q \in Requests \ {r} : op'[q] = op[q]
    PROVE  /\ ~Owes(r) /\ ~Owes(r)' => owedNow' = owedNow
           /\ Owes(r) /\ Owes(r)' /\ Token(r)' = Token(r) => owedNow' = owedNow
           /\ ~Owes(r) /\ Owes(r)' => owedNow' = owedNow \cup {Token(r)'}
           /\ OneOwner /\ Owes(r) /\ ~Owes(r)' => owedNow' = owedNow \ {Token(r)}
<1>1. \A q \in Requests \ {r} : (Owes(q)' <=> Owes(q)) /\ Token(q)' = Token(q)
  BY DEF Owes, Token
<1>2. /\ \A t : t \in owedNow <=> \E q \in Requests : Owes(q) /\ t = Token(q)
      /\ \A t : t \in owedNow' <=> \E q \in Requests : Owes(q)' /\ t = Token(q)'
  BY DEF owedNow
<1>3. ~Owes(r) /\ ~Owes(r)' => owedNow' = owedNow
  BY <1>1, <1>2
<1>4. Owes(r) /\ Owes(r)' /\ Token(r)' = Token(r) => owedNow' = owedNow
  BY <1>1, <1>2
<1>5. ~Owes(r) /\ Owes(r)' => owedNow' = owedNow \cup {Token(r)'}
  BY <1>1, <1>2
<1>6. ASSUME OneOwner, Owes(r), ~Owes(r)' PROVE owedNow' = owedNow \ {Token(r)}
  <2>1. \A q \in Requests \ {r} : Owes(q) => Token(q) # Token(r)
    BY <1>6 DEF OneOwner, Owes
  <2> QED BY <1>1, <1>2, <1>6, <2>1
<1> QED BY <1>3, <1>4, <1>5, <1>6

\* A token keeps its owner; a new one is newer than all others of its session.
LEMMA OwnerStep ==
    ASSUME OInv, NEW r \in Requests, \A q \in Requests \ {r} : op'[q] = op[q],
           \/ op'[r].mint = None
           \/ op'[r].mint = op[r].mint /\ op'[r].s = op[r].s
           \/ op'[r].s \in Sessions /\ op'[r].mint = minted[op'[r].s]
    PROVE  OneOwner'
<1>1. ASSUME NEW q \in Requests, q # r, op'[q].mint # None, op'[r].mint # None
      PROVE  op'[r].s # op'[q].s \/ op'[r].mint # op'[q].mint
  <2>1. op'[q] = op[q]
    BY <1>1
  <2>2. op[q].pc \in CachePcs /\ op[q].mint \in Nat /\ op[q].mint < minted[op[q].s]
    BY <1>1, <2>1 DEF OInv, SInv, ShapeOf, TypeOK, Op
  <2>3. CASE op'[r].mint = op[r].mint /\ op'[r].s = op[r].s
    BY <1>1, <2>1, <2>3 DEF OInv, OneOwner, Token
  <2>4. CASE op'[r].s \in Sessions /\ op'[r].mint = minted[op'[r].s]
    <3>1. minted[op'[r].s] \in Nat
      BY <2>4 DEF OInv, SInv, TypeOK
    <3>2. op[q].s = op'[r].s => op[q].mint # minted[op'[r].s]
      BY <2>2, <3>1
    <3> QED BY <2>1, <2>4, <3>2
  <2> QED BY <1>1, <2>3, <2>4
<1>2. ASSUME NEW p \in Requests, NEW q \in Requests, p # q, p # r, q # r,
             op'[p].mint # None, op'[q].mint # None
      PROVE  op'[p].s # op'[q].s \/ op'[p].mint # op'[q].mint
  <2>1. op'[p] = op[p] /\ op'[q] = op[q]
    BY <1>2
  <2> QED BY <1>2, <2>1 DEF OInv, OneOwner, Token
<1>3. \A p, q \in Requests :
         p # q /\ op'[p].mint # None /\ op'[q].mint # None =>
             op'[p].s # op'[q].s \/ op'[p].mint # op'[q].mint
  BY <1>1, <1>2
<1> QED BY <1>3 DEF OneOwner, Token

\* To the contract a step that changes neither rows nor mint is a publication,
\* the end of some tokens, or nothing.
Keeps == OneOwner' /\ [Contract!Next]_(Contract!contractVars)

LEMMA Nothing ==
    ASSUME stateOf' = stateOf, minted' = minted, owedNow' = owedNow, live' = live
    PROVE  UNCHANGED Contract!contractVars
BY DEF Contract!contractVars, stateOf, owedNow

LEMMA Fading ==
    ASSUME stateOf' = stateOf, minted' = minted, owedNow' \subseteq owedNow, live' \subseteq live
    PROVE  Contract!Next
BY DEF Contract!Next, Contract!Fade, stateOf, owedNow

LEMMA StateRests ==
    ASSUME \A s \in Sessions : row'[s].state = row[s].state
    PROVE  stateOf' = stateOf
BY DEF stateOf

LEMMA CreateSessionContract ==
    ASSUME OInv, NEW r \in Requests, CreateSession(r)
    PROVE  Keeps
<1>0. /\ row \in [Sessions -> Row] /\ minted \in [Sessions -> Nat] /\ op \in [Requests -> Op]
      /\ Unborn
  BY DEF OInv, SInv, TypeOK, Row
<1>1. PICK s \in Sessions :
         /\ row[s].state = "none" /\ op[r].pc = "idle"
         /\ row' = [row EXCEPT ![s].state = "active"]
         /\ minted' = [minted EXCEPT ![s] = 1]
         /\ op' = [op EXCEPT ![r] = [NoOp EXCEPT !.pc = "set", !.s = s, !.mint = 0]]
         /\ UNCHANGED <<live, index, crashes, raced>>
  BY DEF CreateSession
<1>2. PICK o : o = [NoOp EXCEPT !.pc = "set", !.s = s, !.mint = 0]
  OBVIOUS
<1>3. o.pc = "set" /\ o.s = s /\ o.mint = 0
  BY <1>2, NoOpResult DEF Op
<1>4. op'[r] = o /\ \A q \in Requests \ {r} : op'[q] = op[q]
  BY <1>0, <1>1, <1>2
<1>5. ~Owes(r) /\ Owes(r)' /\ Token(r)' = <<s, 0>>
  BY <1>1, <1>3, <1>4, SessionsAssumption DEF Owes, Token, CachePcs
<1>6. owedNow' = owedNow \cup {<<s, 0>>}
  BY <1>4, <1>5, OwedAfter
<1>7. OneOwner'
  <2>1. minted[s] = 0
    BY <1>0, <1>1 DEF Unborn
  <2> QED BY <1>3, <1>4, <2>1, OwnerStep
<1>8. stateOf' = [stateOf EXCEPT ![s] = "active"] /\ stateOf[s] = "none"
  BY <1>0, <1>1 DEF stateOf, Row
<1>9. Contract!Create(s)
  BY <1>1, <1>6, <1>8 DEF Contract!Create, stateOf, owedNow
<1> QED BY <1>7, <1>9 DEF Keeps, Contract!Next

LEMMA CommitRefreshContract ==
    ASSUME OInv, NEW r \in Requests, CommitRefresh(r)
    PROVE  Keeps
<1>0. /\ row \in [Sessions -> Row] /\ minted \in [Sessions -> Nat] /\ op \in [Requests -> Op]
      /\ SInv /\ TypeOK
  BY DEF OInv, SInv, TypeOK, Row
<1>1. PICK s : s = op[r].s
  OBVIOUS
<1>2. /\ op[r].pc = "refresh" /\ Fresh(r)
      /\ row' = [row EXCEPT ![s] = Updated(s, "active")]
      /\ minted' = [minted EXCEPT ![s] = @ + 1]
      /\ op' = [op EXCEPT ![r] = [NoOp EXCEPT !.pc = "get", !.s = s, !.mint = minted[s]]]
      /\ live' = live
  BY <1>1 DEF CommitRefresh
<1>3. s \in Sessions /\ Targets(r) = {s}
  BY <1>0, <1>1, <1>2, SessionsAssumption DEF SInv, ShapeOf, Targets
<1>4. row[s].state = "active"
  BY <1>0, <1>2, <1>3 DEF SInv, KnownOf, Fresh, WritePcs
<1>5. PICK o : o = [NoOp EXCEPT !.pc = "get", !.s = s, !.mint = minted[s]]
  OBVIOUS
<1>6. o.pc = "get" /\ o.s = s /\ o.mint = minted[s]
  BY <1>5, NoOpResult DEF Op
<1>7. op'[r] = o /\ \A q \in Requests \ {r} : op'[q] = op[q]
  BY <1>0, <1>2, <1>5
<1>8. ~Owes(r) /\ Owes(r)' /\ Token(r)' = <<s, minted[s]>>
  <2>1. minted[s] # None
    BY <1>0, <1>3, SessionsAssumption
  <2> QED BY <1>2, <1>6, <1>7, <2>1 DEF Owes, Token, CachePcs
<1>9. owedNow' = owedNow \cup {<<s, minted[s]>>}
  BY <1>7, <1>8, OwedAfter
<1>10. OneOwner'
  BY <1>3, <1>6, <1>7, OwnerStep
<1>11. stateOf' = stateOf /\ stateOf[s] = "active"
  <2>1. Updated(s, "active").state = "active"
    BY <1>0, <1>3, UpdatedResult
  <2>2. \A z \in Sessions : row'[z].state = row[z].state
    BY <1>0, <1>2, <1>3, <1>4, <2>1
  <2> QED BY <1>3, <1>4, <2>2, StateRests DEF stateOf
<1>12. Contract!Refresh(s)
  BY <1>2, <1>9, <1>11 DEF Contract!Refresh, stateOf, owedNow
<1> QED BY <1>3, <1>10, <1>12 DEF Keeps, Contract!Next

LEMMA CommitRevokeContract ==
    ASSUME OInv, NEW r \in Requests, CommitRevoke(r)
    PROVE  Keeps
<1>0. row \in [Sessions -> Row] /\ op \in [Requests -> Op] /\ SInv /\ TypeOK
  BY DEF OInv, SInv, TypeOK, Row
<1>1. PICK S : S = Targets(r)
  OBVIOUS
<1>2. PICK s \in S :
         /\ op[r].pc = "revoke" /\ Fresh(r)
         /\ row' = [z \in Sessions |-> IF z \in S THEN Updated(z, "revoked") ELSE row[z]]
         /\ op' = [op EXCEPT ![r] = [NoOp EXCEPT !.pc = "get", !.s = s, !.rest = S \ {s}]]
         /\ UNCHANGED <<minted, live>>
  BY <1>1 DEF CommitRevoke
<1>3. PICK o : o = [NoOp EXCEPT !.pc = "get", !.s = s, !.rest = S \ {s}]
  OBVIOUS
<1>4. o.pc = "get" /\ o.mint = None
  BY <1>3, NoOpResult DEF Op
<1>5. op'[r] = o /\ \A q \in Requests \ {r} : op'[q] = op[q]
  BY <1>0, <1>2, <1>3
<1>6. owedNow' = owedNow /\ OneOwner'
  <2>1. ~Owes(r) /\ ~Owes(r)'
    BY <1>2, <1>4, <1>5 DEF Owes, CachePcs
  <2> QED BY <1>4, <1>5, <2>1, OwedAfter, OwnerStep
<1>7. S \in SUBSET Sessions /\ \A z \in S : row[z].state = "active"
  <2>1. S \subseteq Sessions
    BY <1>0, <1>1, TargetsResult
  <2> QED BY <1>0, <1>1, <1>2, <2>1 DEF SInv, KnownOf, Fresh, WritePcs
<1>8. stateOf' = [z \in Sessions |-> IF z \in S THEN "revoked" ELSE stateOf[z]]
  <2>1. \A z \in Sessions : Updated(z, "revoked").state = "revoked"
    BY <1>0, UpdatedResult
  <2>2. \A z \in Sessions : row'[z].state = IF z \in S THEN "revoked" ELSE row[z].state
    BY <1>2, <2>1
  <2> QED BY <2>2 DEF stateOf
<1>9. \A z \in S : stateOf[z] = "active"
  BY <1>7 DEF stateOf
<1>10. Contract!Revoke(S)
  BY <1>2, <1>6, <1>8, <1>9 DEF Contract!Revoke, stateOf, owedNow
<1> QED BY <1>6, <1>7, <1>10 DEF Keeps, Contract!Next

LEMMA CacheSetContract ==
    ASSUME OInv, NEW r \in Requests, CacheSet(r)
    PROVE  Keeps
<1>0. op \in [Requests -> Op] /\ SInv /\ op[r] \in Op /\ op[r].pc \in CachePcs
  BY DEF OInv, SInv, TypeOK, CacheSet, CachePcs
<1>1. PICK t : t = Token(r)
  OBVIOUS
<1>2. /\ op[r].pc = "set" /\ live' = live \cup {t}
      /\ op' = [op EXCEPT ![r].pc = "index"] /\ UNCHANGED <<row, minted>>
  BY <1>1 DEF CacheSet, Token
<1>3. /\ op'[r].pc = "index" /\ op'[r].s = op[r].s /\ op'[r].mint = op[r].mint
      /\ \A q \in Requests \ {r} : op'[q] = op[q]
  BY <1>0, <1>2 DEF Op
<1>4. Owes(r) /\ ~Owes(r)'
  BY <1>0, <1>2, <1>3 DEF Owes, SInv, ShapeOf
<1>5. owedNow' = owedNow \ {t} /\ OneOwner'
  BY <1>1, <1>3, <1>4, OwedAfter, OwnerStep DEF OInv
<1>6. t \in owedNow
  BY <1>1, <1>4 DEF owedNow
<1>7. stateOf' = stateOf
  BY <1>2 DEF stateOf
<1>8. Contract!Publish(t)
  BY <1>2, <1>5, <1>6, <1>7 DEF Contract!Publish, stateOf, owedNow
<1> QED BY <1>5, <1>6, <1>8 DEF Keeps, Contract!Next, owedNow

\* The steps before the commit, and the one after the publication.
LEMMA IdleContract ==
    ASSUME OInv, NEW r \in Requests,
           \/ BeginRefresh(r) \/ Authenticate(r) \/ BeginRevokeAll(r) \/ BeginRevoke(r)
           \/ Stale(r) \/ CacheIndex(r)
    PROVE  Keeps
<1>0. op \in [Requests -> Op] /\ SInv
  BY DEF OInv, SInv, TypeOK
<1>1. UNCHANGED <<row, minted, live>>
  BY DEF BeginRefresh, Authenticate, BeginRevokeAll, BeginRevoke, Stale, CacheIndex
<1>2. op[r].pc \in {"idle", "authed", "index"} \cup WritePcs
  BY DEF BeginRefresh, Authenticate, BeginRevokeAll, BeginRevoke, Stale, CacheIndex
<1>3. op'[r].mint = None /\ \A q \in Requests \ {r} : op'[q] = op[q]
  <2>1. CASE BeginRefresh(r)
    <3>1. PICK s \in Sessions :
             op' = [op EXCEPT ![r] = [NoOp EXCEPT !.pc = "refresh", !.s = s,
                                                  !.base = Versions({s})]]
      BY <2>1 DEF BeginRefresh
    <3> QED BY <1>0, <3>1, NoOpResult DEF Op
  <2>2. CASE Authenticate(r)
    <3>1. PICK s : op' = [op EXCEPT ![r] = [NoOp EXCEPT !.pc = "authed", !.s = s]]
      BY <2>2 DEF Authenticate
    <3> QED BY <1>0, <3>1, NoOpResult DEF Op
  <2>3. CASE BeginRevokeAll(r)
    <3>1. PICK S, B : op' = [op EXCEPT ![r] = [NoOp EXCEPT !.pc = "revoke", !.rest = S,
                                                           !.base = B]]
      BY <2>3 DEF BeginRevokeAll
    <3> QED BY <1>0, <3>1, NoOpResult DEF Op
  <2>4. CASE BeginRevoke(r)
    <3>1. op[r].mint = None /\ op[r] \in Op
      BY <1>0, <2>4 DEF BeginRevoke, SInv, ShapeOf, CachePcs
    <3>2. \/ op' = [op EXCEPT ![r].pc = "get"]
          \/ op' = [op EXCEPT ![r].pc = "revoke", ![r].base = Versions(Targets(r))]
      BY <2>4 DEF BeginRevoke
    <3>3. CASE op' = [op EXCEPT ![r].pc = "get"]
      BY <1>0, <3>1, <3>3 DEF Op
    <3>4. CASE op' = [op EXCEPT ![r].pc = "revoke", ![r].base = Versions(Targets(r))]
      BY <1>0, <3>1, <3>4 DEF Op
    <3> QED BY <3>2, <3>3, <3>4
  <2>5. CASE Stale(r) \/ CacheIndex(r)
    <3>1. op' = [op EXCEPT ![r] = NoOp]
      BY <2>5 DEF Stale, CacheIndex
    <3> QED BY <1>0, <3>1, NoOpResult
  <2> QED BY <2>1, <2>2, <2>3, <2>4, <2>5
<1>4. ~Owes(r) /\ ~Owes(r)'
  BY <1>2, <1>3 DEF Owes, CachePcs, WritePcs
<1>5. owedNow' = owedNow /\ OneOwner'
  BY <1>3, <1>4, OwedAfter, OwnerStep
<1>6. stateOf' = stateOf
  BY <1>1 DEF stateOf
<1> QED BY <1>1, <1>5, <1>6, Nothing DEF Keeps

\* The commands of evict_by_session: what is owed stays owed.
LEMMA EvictContract ==
    ASSUME OInv, NEW r \in Requests, EvictGet(r) \/ EvictDel(r) \/ EvictUnindex(r)
    PROVE  Keeps
<1>0. op \in [Requests -> Op] /\ SInv /\ op[r] \in Op
  BY DEF OInv, SInv, TypeOK
<1>1. UNCHANGED <<row, minted>> /\ live' \subseteq live
  BY DEF EvictGet, EvictDel, EvictUnindex
<1>2. /\ op[r].pc \in {"get", "del", "unindex"}
      /\ \A q \in Requests \ {r} : op'[q] = op[q]
      /\ \/ op[r].mint = None /\ op'[r].mint = None
         \/ /\ op'[r].mint = op[r].mint /\ op'[r].s = op[r].s
            /\ op'[r].pc \in {"del", "unindex", "set"}
  <2>1. CASE EvictGet(r)
    <3>1. PICK seen, pc : /\ op' = [op EXCEPT ![r].seen = seen, ![r].pc = pc]
                          /\ pc \in {"unindex", "del"}
      BY <2>1 DEF EvictGet
    <3>2. op[r].pc = "get"
      BY <2>1 DEF EvictGet
    <3> QED BY <1>0, <3>1, <3>2 DEF Op
  <2>2. CASE EvictDel(r)
    BY <1>0, <2>2 DEF EvictDel, Op
  <2>3. CASE EvictUnindex(r)
    <3>1. CASE op[r].mint # None /\ op' = [op EXCEPT ![r].pc = "set"]
      BY <1>0, <2>3, <3>1 DEF EvictUnindex, Op
    <3>2. CASE op[r].mint = None /\ op' = [op EXCEPT ![r] = NoOp]
      BY <1>0, <2>3, <3>2, NoOpResult DEF EvictUnindex
    <3>3. CASE /\ op[r].mint = None
               /\ \E s \in op[r].rest :
                     op' = [op EXCEPT ![r].pc = "get", ![r].s = s, ![r].rest = @ \ {s}]
      <4>1. PICK s, R : op' = [op EXCEPT ![r].pc = "get", ![r].s = s, ![r].rest = R]
        BY <3>3
      <4> QED BY <1>0, <2>3, <3>3, <4>1 DEF EvictUnindex, Op
    <3> QED BY <2>3, <3>1, <3>2, <3>3 DEF EvictUnindex
  <2> QED BY <2>1, <2>2, <2>3
<1>3. owedNow' = owedNow
  <2>1. CASE op[r].mint = None /\ op'[r].mint = None
    <3>1. ~Owes(r) /\ ~Owes(r)'
      BY <2>1 DEF Owes
    <3> QED BY <1>2, <3>1, OwedAfter
  <2>2. CASE /\ op'[r].mint = op[r].mint /\ op'[r].s = op[r].s
             /\ op'[r].pc \in {"del", "unindex", "set"}
    <3>1. (Owes(r) <=> Owes(r)') /\ Token(r)' = Token(r)
      BY <1>2, <2>2 DEF Owes, Token, CachePcs
    <3> QED BY <1>2, <3>1, OwedAfter
  <2> QED BY <1>2, <2>1, <2>2
<1>4. OneOwner'
  BY <1>2, OwnerStep
<1>5. stateOf' = stateOf
  BY <1>1 DEF stateOf
<1> QED BY <1>1, <1>3, <1>4, <1>5, Fading DEF Keeps

LEMMA CrashContract ==
    ASSUME OInv, NEW r \in Requests, Crash(r)
    PROVE  Keeps
<1>1. op \in [Requests -> Op] /\ op' = [op EXCEPT ![r] = NoOp] /\ UNCHANGED <<row, minted, live>>
  BY DEF OInv, SInv, TypeOK, Crash
<1>2. op'[r].mint = None /\ \A q \in Requests \ {r} : op'[q] = op[q]
  BY <1>1, NoOpResult
<1>3. ~Owes(r)' /\ OneOwner'
  BY <1>2, OwnerStep DEF Owes
<1>4. owedNow' \subseteq owedNow
  BY <1>2, <1>3, OwedAfter DEF OInv
<1>5. stateOf' = stateOf
  BY <1>1 DEF stateOf
<1> QED BY <1>1, <1>3, <1>4, <1>5, Fading DEF Keeps

\* Time.
LEMMA TimeContract ==
    ASSUME OInv, UNCHANGED <<minted, op>>, live' \subseteq live,
           \A s \in Sessions : row'[s].state = row[s].state
    PROVE  Keeps
<1>1. OneOwner' /\ owedNow' = owedNow
  BY DEF OInv, OneOwner, Token, owedNow, Owes
<1> QED BY <1>1, StateRests, Fading DEF Keeps

LEMMA StepOfContract == OInv /\ [Next]_vars => OInv' /\ [Contract!Next]_(Contract!contractVars)
<1> SUFFICES ASSUME OInv, [Next]_vars PROVE Keeps
  BY NextKeeps DEF OInv, Keeps
<1>1. ASSUME NEW r \in Requests, Start(r) \/ Continue(r) \/ Crash(r) PROVE Keeps
  BY <1>1, CreateSessionContract, CommitRefreshContract, CommitRevokeContract, CacheSetContract,
     IdleContract, EvictContract, CrashContract DEF Start, Continue
<1>2. ASSUME NEW s \in Sessions, SessionExpires(s) PROVE Keeps
  <2>1. /\ UNCHANGED <<minted, op, live>>
        /\ \A z \in Sessions : row'[z].state = row[z].state
    BY <1>2 DEF SessionExpires, OInv, SInv, TypeOK
  <2> QED BY <2>1, TimeContract
<1>3. ASSUME NEW s \in Sessions, IndexExpires(s) PROVE Keeps
  BY <1>3, TimeContract DEF IndexExpires
<1>4. ASSUME NEW t \in live, TokenExpires(t) PROVE Keeps
  BY <1>4, TimeContract DEF TokenExpires
<1>5. CASE UNCHANGED vars
  BY <1>5, TimeContract DEF vars
<1> QED BY <1>1, <1>2, <1>3, <1>4, <1>5 DEF Next

LEMMA InitOfContract == Init => OInv /\ Contract!Init
<1> SUFFICES ASSUME Init PROVE OInv /\ Contract!Init
  OBVIOUS
<1>1. SInv
  BY InitHolds
<1>2. \A r \in Requests : op[r].mint = None
  BY NoOpResult DEF Init
<1>3. OneOwner
  BY <1>2 DEF OneOwner
<1>4. owedNow = {} /\ stateOf = [s \in Sessions |-> "none"]
  BY <1>2 DEF owedNow, Owes, stateOf, Init
<1>5. Contract!Init
  BY <1>4 DEF Init, Contract!Init, owedNow, stateOf
<1> QED BY <1>1, <1>3, <1>5 DEF OInv

\* The sessions implement their contract: versions, the order of commit and
\* cache, races, stale writes and crashes show in nothing but which owed tokens
\* get published and when tokens fade.
THEOREM SessionsImplement == Spec => ImplementsContract
<1>1. Init => OInv /\ Contract!Init
  BY InitOfContract
<1>2. OInv /\ [Next]_vars => OInv' /\ [Contract!Next]_(Contract!contractVars)
  BY StepOfContract
<1> QED BY <1>1, <1>2, PTL DEF Spec, ImplementsContract, Contract!Spec

-----------------------------------------------------------------------------

(* What the contract says of a session that is revoked. *)

OwedOf(s)   == {t \in owedNow : t[1] = s}
UsableOf(s) == {t \in live : t[1] = s}

\* A revoked session is owed nothing new, and a token of it that becomes usable
\* is one that was owed and is no more.
Drains ==
    \A s \in Sessions : row[s].state = "revoked" =>
        /\ row'[s].state = "revoked"
        /\ OwedOf(s)' \subseteq OwedOf(s)
        /\ UsableOf(s)' \ UsableOf(s) \subseteq OwedOf(s) \ OwedOf(s)'

\* The commands between a commit and its publication.
Stage(r) == [get |-> 3, del |-> 2, unindex |-> 1, set |-> 0][op[r].pc]

PublishersAdvance ==
    \A r \in Requests : Owes(r) /\ Owes(r)' /\ op'[r] # op[r] => Stage(r)' < Stage(r)

LEMMA ContractDrains ==
    ASSUME OInv, OInv', [Contract!Next]_(Contract!contractVars), Grows
    PROVE  Drains
<1> SUFFICES ASSUME NEW s \in Sessions, row[s].state = "revoked"
             PROVE  /\ OwedOf(s)' \subseteq OwedOf(s)
                    /\ UsableOf(s)' \ UsableOf(s) \subseteq OwedOf(s) \ OwedOf(s)'
  BY DEF Drains, Grows
<1>1. stateOf[s] = "revoked"
  BY DEF stateOf
<1>2. CASE \E z \in Sessions : Contract!Create(z) \/ Contract!Refresh(z)
  <2>1. PICK z \in Sessions : /\ stateOf[z] # "revoked" /\ live' = live
                              /\ \E n : owedNow' = owedNow \cup {<<z, n>>}
    <3>1. PICK z \in Sessions : Contract!Create(z) \/ Contract!Refresh(z)
      BY <1>2
    <3>2. CASE Contract!Create(z)
      BY <3>2 DEF Contract!Create, stateOf, owedNow
    <3>3. CASE Contract!Refresh(z)
      BY <3>3 DEF Contract!Refresh, stateOf, owedNow
    <3> QED BY <3>1, <3>2, <3>3
  <2>2. OwedOf(s)' = OwedOf(s) /\ UsableOf(s)' = UsableOf(s)
    BY <1>1, <2>1 DEF OwedOf, UsableOf
  <2> QED BY <2>2
<1>3. CASE \E S \in SUBSET Sessions : Contract!Revoke(S)
  <2>1. owedNow' = owedNow /\ live' = live
    BY <1>3 DEF Contract!Revoke, owedNow
  <2> QED BY <2>1 DEF OwedOf, UsableOf
<1>4. CASE \E t \in owedNow : Contract!Publish(t)
  <2>1. PICK t \in owedNow : owedNow' = owedNow \ {t} /\ live' \subseteq live \cup {t}
    BY <1>4 DEF Contract!Publish, owedNow
  <2> QED BY <2>1 DEF OwedOf, UsableOf
<1>5. CASE Contract!Fade
  <2>1. owedNow' \subseteq owedNow /\ live' \subseteq live
    BY <1>5 DEF Contract!Fade, owedNow
  <2> QED BY <2>1 DEF OwedOf, UsableOf
<1>6. CASE UNCHANGED Contract!contractVars
  <2>1. owedNow' = owedNow /\ live' = live
    BY <1>6 DEF Contract!contractVars, owedNow
  <2> QED BY <2>1 DEF OwedOf, UsableOf
<1> QED BY <1>2, <1>3, <1>4, <1>5, <1>6 DEF Contract!Next, owedNow

LEMMA StepAdvances ==
    ASSUME OInv, [Next]_vars
    PROVE  PublishersAdvance
<1>0. op \in [Requests -> Op] /\ SInv
  BY DEF OInv, SInv, TypeOK
<1> SUFFICES ASSUME NEW r \in Requests, Owes(r), Owes(r)', op'[r] # op[r]
             PROVE  Stage(r)' < Stage(r)
  BY DEF PublishersAdvance
<1>1. /\ op[r].pc \in {"get", "del", "unindex", "set"} /\ op[r].mint # None
      /\ op'[r].pc \in {"get", "del", "unindex", "set"} /\ op'[r].mint # None
  BY DEF Owes, CachePcs
<1>2. PICK q \in Requests : Start(q) \/ Continue(q) \/ Crash(q)
  BY DEF Next, SessionExpires, IndexExpires, TokenExpires, vars
<1>3. NoOp.mint = None
  BY NoOpResult
<1>4. CASE Start(q)
  <2>1. op[q].pc = "idle" /\ \E o : op' = [op EXCEPT ![q] = o]
    BY <1>4 DEF Start, CreateSession, BeginRefresh, Authenticate, BeginRevokeAll
  <2> QED BY <1>0, <1>1, <2>1
<1>5. CASE Crash(q) \/ Stale(q) \/ CacheIndex(q)
  <2>1. op' = [op EXCEPT ![q] = NoOp]
    BY <1>5 DEF Crash, Stale, CacheIndex
  <2> QED BY <1>0, <1>1, <1>3, <2>1
<1>6. CASE CommitRefresh(q) \/ BeginRevoke(q) \/ CommitRevoke(q)
  <2>1. /\ op[q].pc \in {"refresh", "authed", "revoke"}
        /\ \A z \in Requests \ {q} : op'[z] = op[z]
    <3>1. CASE CommitRefresh(q)
      BY <1>0, <3>1 DEF CommitRefresh
    <3>2. CASE BeginRevoke(q)
      BY <1>0, <3>2 DEF BeginRevoke
    <3>3. CASE CommitRevoke(q)
      BY <1>0, <3>3 DEF CommitRevoke
    <3> QED BY <1>6, <3>1, <3>2, <3>3
  <2> QED BY <1>1, <2>1
<1>7. CASE EvictGet(q)
  <2>1. PICK seen, pc : /\ op[q].pc = "get" /\ pc \in {"unindex", "del"}
                        /\ op' = [op EXCEPT ![q].seen = seen, ![q].pc = pc]
    BY <1>7 DEF EvictGet
  <2>2. q = r /\ op'[r].pc = pc
    BY <1>0, <2>1 DEF Op
  <2> QED BY <2>1, <2>2 DEF Stage
<1>8. CASE EvictDel(q)
  <2>1. q = r /\ op[r].pc = "del" /\ op'[r].pc = "unindex"
    BY <1>0, <1>8 DEF EvictDel, Op
  <2> QED BY <2>1 DEF Stage
<1>9. CASE EvictUnindex(q)
  <2>1. q = r
    <3>1. \E o : op' = [op EXCEPT ![q] = o]
      BY <1>9 DEF EvictUnindex
    <3> QED BY <1>0, <3>1
  <2>2. op[r].pc = "unindex" /\ op' = [op EXCEPT ![r].pc = "set"]
    BY <1>1, <1>9, <2>1 DEF EvictUnindex
  <2>3. op'[r].pc = "set"
    BY <1>0, <2>2 DEF Op
  <2> QED BY <2>2, <2>3 DEF Stage
<1>10. CASE CacheSet(q)
  <2>1. q = r /\ op'[r].pc = "index"
    BY <1>0, <1>10 DEF CacheSet, Op
  <2> QED BY <1>1, <2>1
<1> QED BY <1>2, <1>4, <1>5, <1>6, <1>7, <1>8, <1>9, <1>10 DEF Continue

\* The half of RevocationTakesEffect that needs no fairness: once a session is
\* revoked the tokens still owed to it only become fewer, each of them one that
\* a request is bringing nearer to its publication, and no other ever becomes
\* usable; the rest is their time to live.
THEOREM RevocationDrains == Spec => [][Drains /\ PublishersAdvance]_vars
<1>1. Init => OInv
  BY InitOfContract
<1>2. OInv /\ [Next]_vars => OInv'
  BY StepOfContract
<1>3. OInv /\ OInv' /\ [Next]_vars => [Drains /\ PublishersAdvance]_vars
  BY StepOfContract, NextKeeps, ContractDrains, StepAdvances DEF OInv
<1> QED BY <1>1, <1>2, <1>3, PTL DEF Spec
=============================================================================
