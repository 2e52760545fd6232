---------------------------- MODULE Briefs_proofs ----------------------------
(***************************************************************************)
(* The search of BriefGraph is right for every set of briefs and every     *)
(* depends_on among them.  The invariant is that of a depth-first search:  *)
(* the gray briefs are a walk, whatever was seen below them is finished,   *)
(* and the finished briefs depend on finished briefs and hold no cycle.    *)
(*                                                                         *)
(* Then what main holds, for any number of briefs, pull requests and       *)
(* commits.  A checkout that may become main is good, of a pull request    *)
(* only because its search was right, of a job because it changes no       *)
(* dependency; and if main has not moved since, it changes no state there  *)
(* but those it set out to write.                                          *)
(***************************************************************************)
EXTENDS Briefs, FiniteSetTheorems, TLAPS

(* The search. *)

GraphTypeOK ==
    /\ graph \in Graphs /\ searching \in BOOLEAN
    /\ color \in [DOMAIN graph -> Colors]
    /\ path \in Seq(DOMAIN graph)
    /\ rest \in [DOMAIN graph -> SUBSET DOMAIN graph]
    /\ cycle \in Seq(Ids)

\* The gray briefs are those on the path, each of them once.
PathIsGray == \A i \in 1..Len(path) : color[path[i]] = "gray"
GrayIsOnPath ==
    \A b \in DOMAIN graph : color[b] = "gray" => \E i \in 1..Len(path) : path[i] = b
PathIsSimple == \A i, j \in 1..Len(path) : path[i] = path[j] => i = j

PathIsWalk == \A i \in 1..(Len(path) - 1) : path[i + 1] \in Known(graph, path[i])

RestIsKnown == \A b \in DOMAIN graph : rest[b] \subseteq Known(graph, b)

\* What the loops on the path have taken is finished, or is next on the path.
SeenIsDone ==
    \A i \in 1..Len(path) : \A d \in Known(graph, path[i]) \ rest[path[i]] :
        color[d] = "black" \/ (i < Len(path) /\ d = path[i + 1])

BlackIsClosed ==
    \A b \in DOMAIN graph : color[b] = "black" =>
        \A d \in Known(graph, b) : color[d] = "black"

BlackIsAcyclic ==
    \A S \in SUBSET {b \in DOMAIN graph : color[b] = "black"} :
        S # {} => \E b \in S : graph[b] \cap S = {}

SearchInv ==
    searching => /\ PathIsGray /\ GrayIsOnPath /\ PathIsSimple /\ PathIsWalk
                 /\ RestIsKnown /\ SeenIsDone /\ BlackIsClosed /\ BlackIsAcyclic
                 /\ cycle = <<>>

GraphInv == GraphTypeOK /\ SearchInv /\ VerdictIsRight

-----------------------------------------------------------------------------

LEMMA GraphDomain == ASSUME NEW g \in Graphs
                     PROVE  DOMAIN g \subseteq Ids /\ g \in [DOMAIN g -> SUBSET Ids]
BY DEF Graphs

LEMMA NoGraphIsGraph == NoGraph \in Graphs /\ DOMAIN NoGraph = {}
<1>1. NoGraph \in [{} -> SUBSET Ids]
  BY DEF NoGraph
<1>2. {} \in SUBSET Ids
  OBVIOUS
<1> QED
  BY <1>1, <1>2 DEF Graphs, NoGraph

\* A search that is about to begin, or one that is forgotten.
LEMMA SetKeeps ==
    ASSUME NEW g \in Graphs, NEW on \in BOOLEAN, Set(g, on), on \/ g = NoGraph
    PROVE  GraphInv'
<1>1. GraphTypeOK'
  BY GraphDomain DEF Set, GraphTypeOK, White, Nothing, Colors
<1>2. SearchInv'
  <2>1. path' = <<>> /\ cycle' = <<>> /\ graph' = g /\ color' = White(g) /\ rest' = Nothing(g)
    BY DEF Set
  <2>2. \A b \in DOMAIN g : color'[b] = "white" /\ rest'[b] = {}
    BY <2>1 DEF White, Nothing
  <2>3. \A i \in 1..Len(path') : FALSE
    BY <2>1
  <2>4. \A i \in 1..(Len(path') - 1) : FALSE
    BY <2>1
  <2>5. /\ PathIsGray' /\ PathIsSimple' /\ SeenIsDone' /\ PathIsWalk'
    BY <2>3, <2>4 DEF PathIsGray, PathIsSimple, SeenIsDone, PathIsWalk
  <2>6. /\ GrayIsOnPath' /\ RestIsKnown' /\ BlackIsClosed' /\ BlackIsAcyclic'
    BY <2>1, <2>2 DEF GrayIsOnPath, RestIsKnown, BlackIsClosed, BlackIsAcyclic
  <2> QED
    BY <2>1, <2>5, <2>6 DEF SearchInv
<1>3. VerdictIsRight'
  <2>1. CASE on
    BY <2>1 DEF Set, VerdictIsRight
  <2>2. CASE g = NoGraph
    BY <2>2, NoGraphIsGraph DEF Set, VerdictIsRight, Acyclic
  <2> QED
    BY <2>1, <2>2
<1> QED
  BY <1>1, <1>2, <1>3 DEF GraphInv

LEMMA InitHolds == GraphInit => GraphInv
<1> SUFFICES ASSUME GraphInit PROVE GraphInv
  OBVIOUS
<1>1. DOMAIN graph = {} /\ graph \in Graphs /\ path = <<>> /\ cycle = <<>> /\ searching = FALSE
  BY NoGraphIsGraph DEF GraphInit
<1>2. color = White(graph) /\ rest = Nothing(graph)
  BY DEF GraphInit
<1>3. color \in [DOMAIN graph -> Colors] /\ rest \in [DOMAIN graph -> SUBSET DOMAIN graph]
  BY <1>2 DEF White, Nothing, Colors
<1>4. GraphTypeOK
  <2>1. searching \in BOOLEAN
    BY <1>1
  <2>2. path \in Seq(DOMAIN graph) /\ cycle \in Seq(Ids)
    BY <1>1
  <2> QED
    BY <1>1, <1>3, <2>1, <2>2 DEF GraphTypeOK
<1> QED
  BY <1>1, <1>4 DEF GraphInv, SearchInv, VerdictIsRight, Acyclic

-----------------------------------------------------------------------------

\* What the steps inside a search start from.
LEMMA Searching ==
    ASSUME GraphInv, searching
    PROVE  /\ GraphTypeOK /\ cycle = <<>>
           /\ PathIsGray /\ GrayIsOnPath /\ PathIsSimple /\ PathIsWalk
           /\ RestIsKnown /\ SeenIsDone /\ BlackIsClosed /\ BlackIsAcyclic
BY DEF GraphInv, SearchInv

LEMMA LastOfPath ==
    ASSUME GraphTypeOK, path # <<>>
    PROVE  /\ Len(path) \in 1..Len(path) /\ Last(path) = path[Len(path)]
           /\ Last(path) \in DOMAIN graph
BY DEF GraphTypeOK, Last

LEMMA Prefix ==
    ASSUME NEW S, NEW s \in Seq(S), NEW k \in Nat, k <= Len(s)
    PROVE  /\ SubSeq(s, 1, k) \in Seq(S) /\ Len(SubSeq(s, 1, k)) = k
           /\ \A i \in 1..k : SubSeq(s, 1, k)[i] = s[i]
OBVIOUS

\* visit enters b: from the outer loop, or as the dependency just taken.
LEMMA EnterKeeps ==
    ASSUME GraphInv, searching, NEW b \in DOMAIN graph,
           VisitRoot(b) \/ VisitDependency(b)
    PROVE  GraphInv'
<1> DEFINE n == Len(path)
           left == IF path = <<>> THEN rest ELSE Taken(b)
<1>1. /\ GraphTypeOK /\ cycle = <<>>
      /\ PathIsGray /\ GrayIsOnPath /\ PathIsSimple /\ PathIsWalk
      /\ RestIsKnown /\ SeenIsDone /\ BlackIsClosed /\ BlackIsAcyclic
  BY Searching
<1>2. Enter(b, left) /\ (path # <<>> => b \in rest[Last(path)])
  BY DEF VisitRoot, VisitDependency, Takes
<1>3. path # <<>> => /\ n \in 1..n /\ Last(path) = path[n] /\ path[n] \in DOMAIN graph
  BY <1>1, LastOfPath
<1>4. /\ path \in Seq(DOMAIN graph) /\ n \in Nat /\ \A i \in 1..n : path[i] \in DOMAIN graph
      /\ rest \in [DOMAIN graph -> SUBSET DOMAIN graph]
      /\ color \in [DOMAIN graph -> Colors]
  BY <1>1 DEF GraphTypeOK
<1>5. /\ left \in [DOMAIN graph -> SUBSET DOMAIN graph]
      /\ \A c \in DOMAIN graph : left[c] \subseteq rest[c]
      /\ \A c \in DOMAIN graph : \A d \in rest[c] \ left[c] :
            path # <<>> /\ c = path[n] /\ d = b
  BY <1>3, <1>4 DEF Taken
<1>6. /\ color[b] = "white" /\ color' = [color EXCEPT ![b] = "gray"]
      /\ path' = Append(path, b) /\ rest' = [left EXCEPT ![b] = Known(graph, b)]
      /\ graph' = graph /\ searching' = searching /\ cycle' = cycle
  BY <1>2 DEF Enter
<1>7. /\ path' \in Seq(DOMAIN graph) /\ Len(path') = n + 1 /\ path'[n + 1] = b
      /\ \A i \in 1..n : path'[i] = path[i]
  BY <1>4, <1>6
<1>8. \A i \in 1..n : path[i] # b
  BY <1>1, <1>4, <1>6 DEF PathIsGray
<1>9. \A c \in DOMAIN graph : (c # b => color'[c] = color[c] /\ rest'[c] = left[c])
                              /\ color'[b] = "gray" /\ rest'[b] = Known(graph, b)
  BY <1>4, <1>5, <1>6
<1>10. Known(graph, b) \subseteq DOMAIN graph
  BY DEF Known
<1>11. GraphTypeOK'
  <2>1. color' \in [DOMAIN graph -> Colors]
    BY <1>4, <1>6 DEF Colors
  <2>2. rest' \in [DOMAIN graph -> SUBSET DOMAIN graph]
    BY <1>5, <1>6, <1>10
  <2> QED
    BY <1>1, <1>6, <1>7, <2>1, <2>2 DEF GraphTypeOK
<1>12. PathIsGray' /\ GrayIsOnPath' /\ PathIsSimple'
  <2>1. PathIsGray'
    BY <1>1, <1>4, <1>7, <1>8, <1>9 DEF PathIsGray
  <2>2. GrayIsOnPath'
    <3> SUFFICES ASSUME NEW c \in DOMAIN graph, color'[c] = "gray"
                 PROVE  \E i \in 1..(n + 1) : path'[i] = c
      BY <1>6, <1>7 DEF GrayIsOnPath
    <3>1. CASE c = b
      BY <3>1, <1>4, <1>7
    <3>2. CASE c # b
      <4>1. PICK i \in 1..n : path[i] = c
        BY <3>2, <1>1, <1>9 DEF GrayIsOnPath
      <4> QED
        BY <4>1, <1>4, <1>7
    <3> QED
      BY <3>1, <3>2
  <2>3. PathIsSimple'
    <3> SUFFICES ASSUME NEW i \in 1..(n + 1), NEW j \in 1..(n + 1), path'[i] = path'[j]
                 PROVE  i = j
      BY <1>7 DEF PathIsSimple
    <3>1. CASE i \in 1..n /\ j \in 1..n
      BY <3>1, <1>1, <1>7 DEF PathIsSimple
    <3>2. CASE ~(i \in 1..n /\ j \in 1..n)
      <4>1. (i = n + 1 \/ i \in 1..n) /\ (j = n + 1 \/ j \in 1..n)
        BY <1>4
      <4> QED
        BY <3>2, <4>1, <1>7, <1>8
    <3> QED
      BY <3>1, <3>2
  <2> QED
    BY <2>1, <2>2, <2>3
<1>13. PathIsWalk'
  <2> SUFFICES ASSUME NEW i \in 1..n PROVE path'[i + 1] \in Known(graph, path'[i])
    BY <1>4, <1>6, <1>7 DEF PathIsWalk
  <2>1. CASE i = n
    <3>1. path # <<>> /\ b \in rest[path[n]] /\ path[n] \in DOMAIN graph
      BY <2>1, <1>2, <1>3, <1>4
    <3> QED
      BY <3>1, <2>1, <1>1, <1>7 DEF RestIsKnown
  <2>2. CASE i # n
    <3>1. i \in 1..(n - 1) /\ i + 1 \in 1..n
      BY <2>2, <1>4
    <3> QED
      BY <3>1, <1>1, <1>7 DEF PathIsWalk
  <2> QED
    BY <2>1, <2>2
<1>14. RestIsKnown'
  BY <1>1, <1>5, <1>6, <1>9 DEF RestIsKnown
<1>15. SeenIsDone'
  <2> SUFFICES ASSUME NEW i \in 1..(n + 1), NEW d \in Known(graph, path'[i]) \ rest'[path'[i]]
               PROVE  color'[d] = "black" \/ (i < n + 1 /\ d = path'[i + 1])
    BY <1>6, <1>7 DEF SeenIsDone
  <2>1. CASE i = n + 1
    BY <2>1, <1>7, <1>9
  <2>2. CASE i \in 1..n
    <3>1. path[i] \in DOMAIN graph /\ path[i] # b /\ path'[i] = path[i] /\ d \in DOMAIN graph
      BY <2>2, <1>4, <1>7, <1>8 DEF Known
    <3>2. rest'[path[i]] = left[path[i]]
      BY <3>1, <1>9
    <3>3. CASE d \in rest[path[i]]
      <4>1. path # <<>> /\ path[i] = path[n] /\ d = b
        BY <3>1, <3>2, <3>3, <1>5
      <4>2. i = n
        BY <4>1, <2>2, <1>1, <1>3 DEF PathIsSimple
      <4> QED
        BY <4>1, <4>2, <1>4, <1>7
    <3>4. CASE d \notin rest[path[i]]
      <4>1. color[d] = "black" \/ (i < n /\ d = path[i + 1])
        BY <3>1, <3>4, <2>2, <1>1 DEF SeenIsDone
      <4>2. CASE color[d] = "black"
        BY <4>2, <3>1, <1>6, <1>9
      <4>3. CASE i < n /\ d = path[i + 1]
        BY <4>3, <2>2, <1>4, <1>7
      <4> QED
        BY <4>1, <4>2, <4>3
    <3> QED
      BY <3>3, <3>4
  <2> QED
    BY <2>1, <2>2, <1>4
<1>16. \A c \in DOMAIN graph : color'[c] = "black" <=> color[c] = "black"
  BY <1>6, <1>9
<1>17. BlackIsClosed' /\ BlackIsAcyclic'
  BY <1>1, <1>6, <1>16 DEF BlackIsClosed, BlackIsAcyclic, Known
<1>18. VerdictIsRight'
  BY <1>6 DEF VerdictIsRight
<1> QED
  BY <1>1, <1>6, <1>11, <1>12, <1>13, <1>14, <1>15, <1>17, <1>18 DEF GraphInv, SearchInv

\* A dependency that is finished already.
LEMMA SkipKeeps ==
    ASSUME GraphInv, searching, NEW d \in DOMAIN graph, SkipFinished(d)
    PROVE  GraphInv'
<1>1. /\ GraphTypeOK /\ cycle = <<>>
      /\ PathIsGray /\ GrayIsOnPath /\ PathIsSimple /\ PathIsWalk
      /\ RestIsKnown /\ SeenIsDone /\ BlackIsClosed /\ BlackIsAcyclic
  BY Searching
<1>2. /\ path # <<>> /\ color[d] = "black" /\ rest' = Taken(d)
      /\ graph' = graph /\ searching' = searching /\ color' = color
      /\ path' = path /\ cycle' = cycle
  BY DEF SkipFinished, Takes
<1>3. rest \in [DOMAIN graph -> SUBSET DOMAIN graph] /\ \A i \in 1..Len(path) : path[i] \in DOMAIN graph
  BY <1>1 DEF GraphTypeOK
<1>4. /\ rest' \in [DOMAIN graph -> SUBSET DOMAIN graph]
      /\ \A b \in DOMAIN graph : rest'[b] \subseteq rest[b] /\ rest[b] \ {d} \subseteq rest'[b]
  BY <1>2, <1>3 DEF Taken
<1>5. GraphTypeOK'
  BY <1>1, <1>2, <1>4 DEF GraphTypeOK
<1>6. PathIsGray' /\ GrayIsOnPath' /\ PathIsSimple' /\ PathIsWalk' /\ BlackIsClosed'
      /\ BlackIsAcyclic'
  BY <1>1, <1>2 DEF PathIsGray, GrayIsOnPath, PathIsSimple, PathIsWalk, BlackIsClosed,
                    BlackIsAcyclic, Known
<1>7. RestIsKnown'
  BY <1>1, <1>2, <1>4 DEF RestIsKnown
<1>8. SeenIsDone'
  <2> SUFFICES ASSUME NEW i \in 1..Len(path), NEW e \in Known(graph, path[i]) \ rest'[path[i]]
               PROVE  color[e] = "black" \/ (i < Len(path) /\ e = path[i + 1])
    BY <1>2 DEF SeenIsDone
  <2>1. CASE e = d
    BY <2>1, <1>2
  <2>2. CASE e # d
    <3>1. e \notin rest[path[i]]
      BY <2>2, <1>3, <1>4
    <3> QED
      BY <3>1, <1>1 DEF SeenIsDone
  <2> QED
    BY <2>1, <2>2
<1>9. VerdictIsRight'
  BY <1>2 DEF VerdictIsRight
<1> QED
  BY <1>1, <1>2, <1>5, <1>6, <1>7, <1>8, <1>9 DEF GraphInv, SearchInv

\* The slice of the path that is reported is a cycle.
LEMMA ReportKeeps ==
    ASSUME GraphInv, searching, NEW d \in DOMAIN graph, ReportCycle(d)
    PROVE  GraphInv'
<1> DEFINE n == Len(path)
<1>1. GraphTypeOK /\ PathIsWalk /\ RestIsKnown
  BY Searching
<1>2. /\ path # <<>> /\ d \in rest[Last(path)]
      /\ searching' = FALSE /\ graph' = graph /\ color' = color
      /\ path' = path /\ rest' = rest
  BY DEF ReportCycle, Takes
<1>3. PICK i \in 1..n : path[i] = d /\ cycle' = SubSeq(path, i, n) \o <<d>>
  BY DEF ReportCycle
<1>4. /\ n \in Nat /\ i \in Nat /\ 1 <= i /\ i <= n /\ path \in Seq(DOMAIN graph)
      /\ DOMAIN graph \subseteq Ids
  BY <1>1, GraphDomain DEF GraphTypeOK
<1> DEFINE m == n - i + 1
           slice == SubSeq(path, i, n)
<1>5. /\ m \in Nat /\ m > 0 /\ i + m = n + 1 /\ slice \in Seq(DOMAIN graph) /\ Len(slice) = m
      /\ \A k \in 1..m : slice[k] = path[i + k - 1]
  BY <1>4
<1>6. /\ cycle' \in Seq(DOMAIN graph) /\ Len(cycle') = m + 1 /\ cycle'[m + 1] = d
      /\ \A k \in 1..m : cycle'[k] = path[i + k - 1]
  <2>1. cycle' = Append(slice, d)
    BY <1>3, <1>5
  <2>2. \A k \in 1..m : cycle'[k] = slice[k]
    BY <1>5, <2>1
  <2>3. cycle' \in Seq(DOMAIN graph) /\ Len(cycle') = m + 1 /\ cycle'[m + 1] = d
    BY <1>5, <2>1
  <2> QED BY <1>5, <2>2, <2>3
<1>7. cycle'[1] = d
  BY <1>3, <1>4, <1>5, <1>6
<1>8. \A k \in 1..m : /\ cycle'[k] \in DOMAIN graph
                      /\ cycle'[k + 1] \in graph[cycle'[k]] \cap DOMAIN graph
  <2> SUFFICES ASSUME NEW k \in 1..m
               PROVE  /\ cycle'[k] \in DOMAIN graph
                      /\ cycle'[k + 1] \in Known(graph, cycle'[k])
    BY DEF Known
  <2>1. i + k - 1 \in 1..n /\ cycle'[k] = path[i + k - 1] /\ path[i + k - 1] \in DOMAIN graph
    BY <1>4, <1>6
  <2>2. CASE k = m
    <3>1. i + k - 1 = n /\ path[n] = Last(path) /\ cycle'[k + 1] = d
      BY <2>2, <1>4, <1>6 DEF Last
    <3> QED
      BY <2>1, <3>1, <1>1, <1>2 DEF RestIsKnown
  <2>3. CASE k # m
    <3>1. k + 1 \in 1..m /\ i + k - 1 \in 1..(n - 1) /\ (i + k - 1) + 1 = i + k
      <4> HIDE DEF m
      <4> QED
        BY <2>3, <1>4, <1>5
    <3>2. cycle'[k + 1] = path[i + (k + 1) - 1] /\ i + (k + 1) - 1 = i + k
      BY <3>1, <1>4, <1>6
    <3> QED
      BY <2>1, <3>1, <3>2, <1>1 DEF PathIsWalk
  <2> QED
    BY <2>2, <2>3
<1>9. cycle' # <<>> /\ IsCycleOf(cycle', graph)
  <2>1. Len(cycle') > 1 /\ Len(cycle') - 1 = m /\ cycle' # <<>>
    <3> HIDE DEF m
    <3> QED
      BY <1>5, <1>6
  <2>2. cycle'[1] = cycle'[Len(cycle')]
    BY <1>6, <1>7
  <2> QED
    BY <2>1, <2>2, <1>8 DEF IsCycleOf
<1>10. VerdictIsRight'
  BY <1>2, <1>9 DEF VerdictIsRight
<1>11. GraphTypeOK'
  <2>1. searching' \in BOOLEAN
    BY <1>2
  <2>2. cycle' \in Seq(Ids)
    <3>1. \A k \in 1..Len(cycle') : cycle'[k] \in Ids
      BY <1>4, <1>6
    <3> QED
      BY <3>1, <1>6
  <2> QED
    BY <1>1, <1>2, <2>1, <2>2 DEF GraphTypeOK
<1> QED
  BY <1>2, <1>10, <1>11 DEF GraphInv, SearchInv

\* A brief whose dependencies are all finished is finished.  Any set of finished
\* briefs it joins has another member that depends on none of the set, as a
\* finished brief does not depend on one that was not.
LEMMA LeaveKeeps ==
    ASSUME GraphInv, searching, Leave
    PROVE  GraphInv'
<1> DEFINE n == Len(path)
           b == Last(path)
<1>1. /\ GraphTypeOK /\ cycle = <<>>
      /\ PathIsGray /\ GrayIsOnPath /\ PathIsSimple /\ PathIsWalk
      /\ RestIsKnown /\ SeenIsDone /\ BlackIsClosed /\ BlackIsAcyclic
  BY Searching
<1>2. /\ path # <<>> /\ rest[b] = {} /\ color' = [color EXCEPT ![b] = "black"]
      /\ path' = Front(path)
      /\ graph' = graph /\ searching' = searching /\ rest' = rest /\ cycle' = cycle
  BY DEF Leave
<1>3. n \in 1..n /\ n \in Nat /\ b = path[n] /\ b \in DOMAIN graph /\ path \in Seq(DOMAIN graph)
  BY <1>1, <1>2, LastOfPath DEF GraphTypeOK
<1>4. /\ path' \in Seq(DOMAIN graph) /\ Len(path') = n - 1
      /\ \A i \in 1..(n - 1) : path'[i] = path[i]
  <2>1. path' = SubSeq(path, 1, n - 1)
    BY <1>2 DEF Front
  <2>2. n - 1 \in Nat /\ n - 1 <= n
    BY <1>3
  <2> QED
    BY <2>1, <2>2, <1>3, Prefix
<1>5. /\ color \in [DOMAIN graph -> Colors] /\ color[b] = "gray"
      /\ color' \in [DOMAIN graph -> Colors] /\ color'[b] = "black"
      /\ \A c \in DOMAIN graph : c # b => color'[c] = color[c]
  BY <1>1, <1>2, <1>3 DEF GraphTypeOK, PathIsGray, Colors
<1>6. \A i \in 1..(n - 1) : i \in 1..n /\ path[i] # b /\ path[i] \in DOMAIN graph
  BY <1>1, <1>3 DEF PathIsSimple
<1>7. \A d \in Known(graph, b) : color[d] = "black" /\ d # b
  <2> SUFFICES ASSUME NEW d \in Known(graph, b) PROVE color[d] = "black"
    BY <1>5
  <2>1. d \in Known(graph, path[n]) \ rest[path[n]]
    BY <1>2, <1>3
  <2> QED
    BY <2>1, <1>1, <1>3 DEF SeenIsDone
<1>8. GraphTypeOK'
  BY <1>1, <1>2, <1>4, <1>5 DEF GraphTypeOK
<1>9. PathIsGray' /\ PathIsSimple'
  BY <1>1, <1>3, <1>4, <1>5, <1>6 DEF PathIsGray, PathIsSimple
<1>10. GrayIsOnPath'
  <2> SUFFICES ASSUME NEW c \in DOMAIN graph, color'[c] = "gray"
               PROVE  \E i \in 1..(n - 1) : path'[i] = c
    BY <1>2, <1>4 DEF GrayIsOnPath
  <2>1. c # b /\ color[c] = "gray"
    BY <1>5
  <2>2. PICK i \in 1..n : path[i] = c
    BY <2>1, <1>1 DEF GrayIsOnPath
  <2>3. i \in 1..(n - 1)
    BY <2>1, <2>2, <1>3
  <2> QED
    BY <2>2, <2>3, <1>4
<1>11. PathIsWalk' /\ RestIsKnown'
  <2>1. PathIsWalk'
    <3> SUFFICES ASSUME NEW i \in 1..(n - 2) PROVE path'[i + 1] \in Known(graph, path'[i])
      BY <1>2, <1>3, <1>4 DEF PathIsWalk
    <3>1. i \in 1..(n - 1) /\ i + 1 \in 1..(n - 1)
      BY <1>3
    <3> QED
      BY <3>1, <1>1, <1>4 DEF PathIsWalk
  <2> QED
    BY <2>1, <1>1, <1>2 DEF RestIsKnown
<1>12. SeenIsDone'
  <2> SUFFICES ASSUME NEW i \in 1..(n - 1), NEW d \in Known(graph, path[i]) \ rest[path[i]]
               PROVE  color'[d] = "black" \/ (i < n - 1 /\ d = path'[i + 1])
    BY <1>2, <1>4 DEF SeenIsDone
  <2>1. color[d] = "black" \/ (i < n /\ d = path[i + 1])
    BY <1>1, <1>6 DEF SeenIsDone
  <2>2. d \in DOMAIN graph
    BY DEF Known
  <2>3. CASE color[d] = "black"
    BY <2>2, <2>3, <1>5
  <2>4. CASE i = n - 1 /\ d = path[i + 1]
    BY <2>4, <1>3, <1>5
  <2>5. CASE i # n - 1 /\ d = path[i + 1]
    BY <2>5, <1>3, <1>4
  <2> QED
    BY <2>1, <2>3, <2>4, <2>5
<1>13. BlackIsClosed'
  <2> SUFFICES ASSUME NEW c \in DOMAIN graph, color'[c] = "black", NEW d \in Known(graph, c)
               PROVE  color'[d] = "black"
    BY <1>2 DEF BlackIsClosed
  <2>1. d \in DOMAIN graph
    BY DEF Known
  <2>2. color[d] = "black"
    BY <1>1, <1>5, <1>7 DEF BlackIsClosed
  <2> QED
    BY <2>1, <2>2, <1>5
<1>14. BlackIsAcyclic'
  <2> SUFFICES ASSUME NEW S \in SUBSET {c \in DOMAIN graph : color'[c] = "black"}, S # {}
               PROVE  \E c \in S : graph[c] \cap S = {}
    BY <1>2 DEF BlackIsAcyclic
  <2> DEFINE R == S \ {b}
  <2>1. R \in SUBSET {c \in DOMAIN graph : color[c] = "black"}
    BY <1>5
  <2>2. CASE R = {}
    <3>1. S = {b} /\ b \notin graph[b]
      BY <2>2, <1>3, <1>7 DEF Known
    <3> QED
      BY <3>1
  <2>3. CASE R # {}
    <3>1. PICK c \in R : graph[c] \cap R = {}
      BY <2>1, <2>3, <1>1 DEF BlackIsAcyclic
    <3>2. c \in DOMAIN graph /\ color[c] = "black"
      BY <2>1
    <3>3. b \notin graph[c]
      BY <3>2, <1>1, <1>3, <1>5 DEF BlackIsClosed, Known
    <3> QED
      BY <3>1, <3>3
  <2> QED
    BY <2>2, <2>3
<1>15. VerdictIsRight'
  BY <1>2 DEF VerdictIsRight
<1> QED
  BY <1>1, <1>2, <1>8, <1>9, <1>10, <1>11, <1>12, <1>13, <1>14, <1>15 DEF GraphInv, SearchInv

\* No brief is white and none is gray: all are finished.
LEMMA EndKeeps ==
    ASSUME GraphInv, searching, EndSearch
    PROVE  GraphInv'
<1>1. GraphTypeOK /\ cycle = <<>> /\ GrayIsOnPath /\ BlackIsAcyclic
  BY Searching
<1>2. /\ path = <<>> /\ \A b \in DOMAIN graph : color[b] # "white"
      /\ searching' = FALSE /\ graph' = graph /\ color' = color /\ path' = path
      /\ rest' = rest /\ cycle' = cycle
  BY DEF EndSearch
<1>3. \A b \in DOMAIN graph : color[b] = "black"
  BY <1>1, <1>2 DEF GraphTypeOK, Colors, GrayIsOnPath
<1>4. Acyclic(graph)
  BY <1>1, <1>3 DEF BlackIsAcyclic, Acyclic
<1>5. searching' \in BOOLEAN
  BY <1>2
<1> QED
  BY <1>1, <1>2, <1>4, <1>5 DEF GraphInv, GraphTypeOK, SearchInv, VerdictIsRight

LEMMA StepHolds == GraphInv /\ [GraphNext]_graphVars => GraphInv'
<1> SUFFICES ASSUME GraphInv, [GraphNext]_graphVars PROVE GraphInv'
  OBVIOUS
<1>1. CASE \E g \in Graphs : StartSearch(g)
  BY <1>1, SetKeeps DEF StartSearch
<1>2. CASE ForgetSearch
  BY <1>2, SetKeeps, NoGraphIsGraph DEF ForgetSearch
<1>3. CASE SearchStep
  <2>1. searching
    BY <1>3 DEF SearchStep, VisitRoot, VisitDependency, SkipFinished, ReportCycle, Leave,
                EndSearch, Takes
  <2>2. CASE \E b \in DOMAIN graph : VisitRoot(b) \/ VisitDependency(b)
    BY <2>1, <2>2, EnterKeeps
  <2>3. CASE \E b \in DOMAIN graph : SkipFinished(b)
    BY <2>1, <2>3, SkipKeeps
  <2>4. CASE \E b \in DOMAIN graph : ReportCycle(b)
    BY <2>1, <2>4, ReportKeeps
  <2>5. CASE Leave
    BY <2>1, <2>5, LeaveKeeps
  <2>6. CASE EndSearch
    BY <2>1, <2>6, EndKeeps
  <2> QED
    BY <1>3, <2>2, <2>3, <2>4, <2>5, <2>6 DEF SearchStep
<1>4. CASE UNCHANGED graphVars
  BY <1>4 DEF graphVars, GraphInv, GraphTypeOK, SearchInv, VerdictIsRight, PathIsGray,
              GrayIsOnPath, PathIsSimple, PathIsWalk, RestIsKnown, SeenIsDone, BlackIsClosed,
              BlackIsAcyclic
<1> QED
  BY <1>1, <1>2, <1>3, <1>4 DEF GraphNext

\* The search of validate_frontmatter.py reports a cycle exactly if the briefs'
\* depends_on lists have one, and what it reports is one.
THEOREM SearchIsRight == GraphSpec => []VerdictIsRight
<1>1. GraphInv => VerdictIsRight
  BY DEF GraphInv
<1> QED
  BY InitHolds, StepHolds, <1>1, PTL DEF GraphSpec

\* A walk that ends where it began is a set of briefs that wait for each other, so
\* that the two verdicts exclude each other.
THEOREM CycleMeansCyclic ==
    ASSUME NEW g \in Graphs, NEW c, c \in Seq(Ids), IsCycleOf(c, g)
    PROVE  ~Acyclic(g)
<1> DEFINE n == Len(c)
           S == {c[i] : i \in 1..(n - 1)}
<1>1. n \in Nat /\ n > 1 /\ c[1] = c[n]
      /\ \A i \in 1..(n - 1) : c[i] \in DOMAIN g /\ c[i + 1] \in g[c[i]] \cap DOMAIN g
  BY DEF IsCycleOf
<1>2. S \in SUBSET DOMAIN g /\ c[1] \in S
  BY <1>1
<1>3. \A i \in 1..(n - 1) : c[i + 1] \in S
  BY <1>1
<1>4. \A b \in S : g[b] \cap S # {}
  BY <1>1, <1>3
<1> QED
  BY <1>2, <1>4 DEF Acyclic

-----------------------------------------------------------------------------

(* The search ends: what is left to do shrinks with every step, and until   *)
(* the end there is a step to take.                                         *)

ToEnter == {b \in DOMAIN graph : color[b] = "white"}
ToLeave == {b \in DOMAIN graph : color[b] # "black"}
Owed(b) == IF color[b] = "white" THEN Known(graph, b) ELSE rest[b]
ToTake  == {e \in (DOMAIN graph) \X (DOMAIN graph) : e[2] \in Owed(e[1])}

WorkLeft == Cardinality(ToEnter) + Cardinality(ToTake) + Cardinality(ToLeave)

LEMMA OwedLess ==
    ASSUME graph' = graph, \A b \in DOMAIN graph : Owed(b)' \subseteq Owed(b)
    PROVE  ToTake' \subseteq ToTake
<1>1. ASSUME NEW e \in (DOMAIN graph) \X (DOMAIN graph), e[2] \in Owed(e[1])'
      PROVE  e[2] \in Owed(e[1])
  <2>1. e[1] \in DOMAIN graph
    OBVIOUS
  <2> QED
    BY <1>1, <2>1
<1> QED
  BY <1>1 DEF ToTake

LEMMA WorkIsFinite ==
    ASSUME GraphTypeOK
    PROVE  IsFiniteSet(ToEnter) /\ IsFiniteSet(ToTake) /\ IsFiniteSet(ToLeave)
<1>1. PICK D : D = DOMAIN graph
  OBVIOUS
<1>2. IsFiniteSet(D)
  BY <1>1, GraphDomain, IdsAssumption, FS_Subset DEF GraphTypeOK
<1>3. PICK P : P = D \X D /\ IsFiniteSet(P)
  BY <1>2, FS_Product
<1>4. ToEnter \subseteq D /\ ToLeave \subseteq D
  BY <1>1 DEF ToEnter, ToLeave
<1>5. ToTake \subseteq P
  <2>1. ToTake \subseteq (DOMAIN graph) \X (DOMAIN graph)
    BY DEF ToTake
  <2>2. P = (DOMAIN graph) \X (DOMAIN graph)
    BY <1>1, <1>3, Zenon
  <2> QED
    BY <2>1, <2>2, Zenon
<1> QED
  <2>1. IsFiniteSet(ToEnter)
    BY <1>2, <1>4, FS_Subset
  <2>2. IsFiniteSet(ToLeave)
    BY <1>2, <1>4, FS_Subset
  <2>3. IsFiniteSet(ToTake)
    BY <1>3, <1>5, FS_Subset
  <2> QED
    BY <2>1, <2>2, <2>3

\* Cardinalities of finite sets of which none grows and one shrinks.
LEMMA ShrinkingSum ==
    ASSUME NEW A, NEW B, NEW C, IsFiniteSet(A), IsFiniteSet(B), IsFiniteSet(C),
           NEW S, NEW T, NEW U, S \subseteq A, T \subseteq B, U \subseteq C,
           S # A \/ T # B \/ U # C
    PROVE  Cardinality(S) + Cardinality(T) + Cardinality(U)
               < Cardinality(A) + Cardinality(B) + Cardinality(C)
<1>1. /\ Cardinality(A) \in Nat /\ Cardinality(B) \in Nat /\ Cardinality(C) \in Nat
  BY FS_CardinalityType
<1>2. /\ IsFiniteSet(S) /\ Cardinality(S) <= Cardinality(A)
      /\ Cardinality(A) = Cardinality(S) => S = A
  BY FS_Subset
<1>3. /\ IsFiniteSet(T) /\ Cardinality(T) <= Cardinality(B)
      /\ Cardinality(B) = Cardinality(T) => T = B
  BY FS_Subset
<1>4. /\ IsFiniteSet(U) /\ Cardinality(U) <= Cardinality(C)
      /\ Cardinality(C) = Cardinality(U) => U = C
  BY FS_Subset
<1>5. Cardinality(S) \in Nat /\ Cardinality(T) \in Nat /\ Cardinality(U) \in Nat
  BY <1>2, <1>3, <1>4, FS_CardinalityType
<1> QED
  BY <1>1, <1>2, <1>3, <1>4, <1>5

LEMMA StepShrinks ==
    ASSUME GraphInv, SearchStep, searching'
    PROVE  WorkLeft' < WorkLeft
<1>0. searching
  BY DEF SearchStep, VisitRoot, VisitDependency, Takes, SkipFinished, ReportCycle, Leave,
         EndSearch
<1>1. GraphTypeOK /\ PathIsGray
  BY <1>0, Searching
<1>2. PICK D : D = DOMAIN graph
  OBVIOUS
<1>3. /\ color \in [D -> Colors] /\ rest \in [D -> SUBSET D]
  BY <1>1, <1>2 DEF GraphTypeOK
<1>4. path # <<>> => Last(path) \in D /\ color[Last(path)] = "gray"
  BY <1>1, <1>2, LastOfPath DEF PathIsGray
<1> DEFINE Shrink == /\ ToEnter' \subseteq ToEnter /\ ToTake' \subseteq ToTake
                     /\ ToLeave' \subseteq ToLeave
                     /\ ToEnter' # ToEnter \/ ToTake' # ToTake \/ ToLeave' # ToLeave
<1>5. ASSUME NEW b \in D, VisitRoot(b) \/ VisitDependency(b)
      PROVE  Shrink
  <2>1. PICK left : /\ left \in [D -> SUBSET D] /\ \A c \in D : left[c] \subseteq rest[c]
                    /\ Enter(b, left)
    <3>1. CASE VisitRoot(b)
      BY <1>3, <3>1 DEF VisitRoot
    <3>2. CASE VisitDependency(b)
      BY <1>3, <3>2 DEF VisitDependency, Taken
    <3> QED
      BY <1>5, <3>1, <3>2
  <2>2. /\ color[b] = "white" /\ color' = [color EXCEPT ![b] = "gray"]
        /\ rest' = [left EXCEPT ![b] = Known(graph, b)] /\ graph' = graph
    BY <2>1 DEF Enter
  <2>3. \A c \in D : /\ c = b => color'[c] = "gray" /\ rest'[c] = Known(graph, b)
                     /\ c # b => color'[c] = color[c] /\ rest'[c] \subseteq rest[c]
    BY <1>3, <2>1, <2>2
  <2>4. b \in ToEnter /\ b \notin ToEnter' /\ ToEnter' \subseteq ToEnter
    BY <1>2, <2>2, <2>3 DEF ToEnter
  <2>5. ToLeave' \subseteq ToLeave
    BY <1>2, <2>2, <2>3 DEF ToLeave
  <2>6. ToTake' \subseteq ToTake
    <3>1. \A c \in D : Owed(c)' \subseteq Owed(c)
      BY <2>2, <2>3 DEF Owed, Known
    <3> QED
      BY <1>2, <3>1, <2>2, OwedLess
  <2> QED
    BY <2>4, <2>5, <2>6
<1>6. ASSUME NEW d \in D, SkipFinished(d)
      PROVE  Shrink
  <2>1. /\ path # <<>> /\ d \in rest[Last(path)] /\ rest' = [rest EXCEPT ![Last(path)] = @ \ {d}]
        /\ color' = color /\ graph' = graph
    BY <1>6 DEF SkipFinished, Takes, Taken
  <2>2. \A c \in D : rest'[c] \subseteq rest[c]
    BY <1>3, <1>4, <2>1
  <2>3. ToEnter' = ToEnter /\ ToLeave' = ToLeave
    BY <2>1 DEF ToEnter, ToLeave
  <2>4. ToTake' \subseteq ToTake
    <3>1. \A c \in D : Owed(c)' \subseteq Owed(c)
      BY <2>1, <2>2 DEF Owed, Known
    <3> QED
      BY <1>2, <3>1, <2>1, OwedLess
  <2>5. ToTake' # ToTake
    <3>1. PICK c \in D : c = Last(path) /\ c = Last(path')
      <4>1. path' = path
        BY <1>6 DEF SkipFinished
      <4> QED
        BY <1>4, <2>1, <4>1
    <3>2. d \in Owed(c)
      BY <1>4, <2>1, <3>1 DEF Owed
    <3>3. d \notin Owed(c)'
      BY <1>3, <1>4, <2>1, <3>1 DEF Owed
    <3>4. <<c, d>> \in ToTake
      <4>1. <<c, d>> \in (DOMAIN graph) \X (DOMAIN graph)
        BY <1>2
      <4> QED
        BY <3>2, <4>1 DEF ToTake
    <3>5. <<c, d>> \notin ToTake'
      BY <3>3 DEF ToTake
    <3> QED
      BY <3>1, <3>4, <3>5
  <2> QED
    BY <2>3, <2>4, <2>5
<1>7. ASSUME Leave
      PROVE  Shrink
  <2>1. /\ path # <<>> /\ color' = [color EXCEPT ![Last(path)] = "black"]
        /\ rest' = rest /\ graph' = graph
    BY <1>7 DEF Leave
  <2>2. \A c \in D : /\ c = Last(path) => color'[c] = "black"
                     /\ c # Last(path) => color'[c] = color[c]
    BY <1>3, <1>4, <2>1
  <2>3. ToEnter' = ToEnter
    BY <1>2, <1>4, <2>1, <2>2 DEF ToEnter
  <2>4. ToTake' \subseteq ToTake
    <3>1. \A c \in D : Owed(c)' \subseteq Owed(c)
      BY <1>4, <2>1, <2>2 DEF Owed, Known
    <3> QED
      BY <1>2, <3>1, <2>1, OwedLess
  <2>5. Last(path) \in ToLeave /\ Last(path) \notin ToLeave' /\ ToLeave' \subseteq ToLeave
    BY <1>2, <1>4, <2>1, <2>2 DEF ToLeave
  <2> QED
    BY <2>3, <2>4, <2>5
<1>8. Shrink
  BY <1>2, <1>5, <1>6, <1>7 DEF SearchStep, ReportCycle, EndSearch
<1> HIDE DEF Shrink
<1>9. PICK A, B, C, S, T, U : /\ A = ToEnter /\ B = ToTake /\ C = ToLeave
                              /\ S = ToEnter' /\ T = ToTake' /\ U = ToLeave'
  OBVIOUS
<1>10. /\ IsFiniteSet(A) /\ IsFiniteSet(B) /\ IsFiniteSet(C)
       /\ S \subseteq A /\ T \subseteq B /\ U \subseteq C /\ (S # A \/ T # B \/ U # C)
  BY <1>1, <1>8, <1>9, WorkIsFinite DEF Shrink
<1>11. Cardinality(S) + Cardinality(T) + Cardinality(U)
               < Cardinality(A) + Cardinality(B) + Cardinality(C)
  BY <1>10, ShrinkingSum
<1> QED
  BY <1>9, <1>11 DEF WorkLeft

\* Until the search is over visit has a step to take: the outer loop a brief to
\* enter, or the innermost visit a dependency to look at or nothing left; and a
\* dependency that is gray is found on the path, so that path.index never fails.
CanGoOn ==
    /\ path # <<>> /\ rest[Last(path)] # {} => \E d \in DOMAIN graph : Takes(d)
    /\ \A d \in DOMAIN graph : Takes(d) =>
          \/ color[d] \in {"white", "black"}
          \/ color[d] = "gray" /\ \E i \in 1..Len(path) : path[i] = d

\* The search of validate_frontmatter.py goes on until it ends, and ends: each
\* step of visit leaves less to do, whatever the briefs depend on.
THEOREM SearchEnds ==
    GraphSpec => /\ [](searching => WorkLeft \in Nat /\ CanGoOn)
                 /\ [][searching /\ searching' => WorkLeft' < WorkLeft]_graphVars
<1>1. GraphInv => (searching => WorkLeft \in Nat /\ CanGoOn)
  <2> SUFFICES ASSUME GraphInv, searching PROVE WorkLeft \in Nat /\ CanGoOn
    OBVIOUS
  <2>1. GraphTypeOK /\ GrayIsOnPath
    BY Searching
  <2>2. PICK A, B, C : A = ToEnter /\ B = ToTake /\ C = ToLeave
    OBVIOUS
  <2>3. IsFiniteSet(A) /\ IsFiniteSet(B) /\ IsFiniteSet(C)
    BY <2>1, <2>2, WorkIsFinite
  <2>4. Cardinality(A) \in Nat /\ Cardinality(B) \in Nat /\ Cardinality(C) \in Nat
    BY <2>3, FS_CardinalityType
  <2>5. WorkLeft \in Nat
    BY <2>2, <2>4 DEF WorkLeft
  <2>6. path # <<>> /\ rest[Last(path)] # {} => \E d \in DOMAIN graph : Takes(d)
    <3> SUFFICES ASSUME path # <<>>, NEW d \in rest[Last(path)] PROVE d \in DOMAIN graph
      BY DEF Takes
    <3>1. Last(path) \in DOMAIN graph
      BY <2>1, LastOfPath
    <3> QED
      BY <2>1, <3>1 DEF GraphTypeOK
  <2>7. \A d \in DOMAIN graph : \/ color[d] \in {"white", "black"}
                                \/ color[d] = "gray" /\ \E i \in 1..Len(path) : path[i] = d
    BY <2>1 DEF GraphTypeOK, GrayIsOnPath, Colors
  <2> QED
    BY <2>5, <2>6, <2>7 DEF CanGoOn
<1>2. GraphInv /\ [GraphNext]_graphVars =>
          [searching /\ searching' => WorkLeft' < WorkLeft]_graphVars
  BY StepShrinks DEF GraphNext, ForgetSearch, StartSearch
<1> QED
  BY InitHolds, StepHolds, <1>1, <1>2, PTL DEF GraphSpec

-----------------------------------------------------------------------------

(* The briefs on main. *)

Good(t) == Complete(t) /\ Acyclic(GraphOf(t)) /\ run_check(t)

\* From t to u the state of no other brief than those of S changes.
ChangesOnly(t, u, S) == \A b \in Briefs \ S : u.file[b].state = t.file[b].state

\* From t to u brief b is marked merged, and no state changes beside it.
Marks(t, u, b) ==
    /\ ChangesOnly(t, u, {b})
    /\ t.file[b].state = "review" /\ u.file[b].state = "merged"

SearchesItsTree ==
    \A p \in Changes : pr[p].pc = "ci" =>
        /\ graph = GraphOf(pr[p].tree)
        /\ \A q \in Changes : pr[q].pc = "ci" => q = p

GreenIsGood == \A p \in Changes : pr[p].pc = "green" => Good(pr[p].tree)
PushIsGood  == \A j \in Jobs : job[j].pc = "push" => Good(job[j].tree)
JobFollows  == \A j \in Jobs : job[j].pc \in {"queued", "push"} => rev > 0
MainIsGood  == rev > 0 => Good(main)

\* What a checkout of the head of main would change there, and no checkout is of a
\* commit that main has not seen.
BranchWrites ==
    \A p \in Changes : pr[p].pc \in {"ci", "green"} =>
        /\ pr[p].base <= rev
        /\ pr[p].base = rev => ChangesOnly(main, pr[p].tree, pr[p].states)
JobMarks ==
    \A j \in Jobs : job[j].pc = "push" =>
        /\ job[j].base <= rev
        /\ job[j].base = rev => Marks(main, job[j].tree, job[j].brief)

IInv == /\ TypeOK /\ GraphInv
        /\ SearchesItsTree /\ GreenIsGood /\ PushIsGood /\ JobFollows /\ MainIsGood
        /\ BranchWrites /\ JobMarks

\* What a step may do to main.
Justified ==
    \A b \in Briefs : main'.file[b].state # main.file[b].state => StateIsWritten(b)

-----------------------------------------------------------------------------
(* Trees. *)

LEMMA NoCheckoutType == NoCheckout \in Checkout /\ NoCheckout.pc = "none" /\ Empty \in Tree
<1>1. (CHOOSE b \in Briefs : TRUE) \in Briefs
  BY BriefsAssumption
<1>2. Empty \in Tree
  BY DEF Empty, Tree, Entry, RawFile
<1> QED
  BY <1>1, <1>2 DEF NoCheckout, Checkout

LEMMA GraphOfTree == ASSUME NEW t \in Tree PROVE GraphOf(t) \in Graphs
<1>1. Parsed(t) \in SUBSET Ids
  BY BriefsAssumption DEF Parsed
<1>2. GraphOf(t) \in [Parsed(t) -> SUBSET Ids]
  BY DEF GraphOf, Parsed, Tree, Entry
<1> QED
  BY <1>1, <1>2 DEF Graphs

LEMMA OutputsOfTree ==
    ASSUME NEW t \in Tree
    PROVE  /\ write_outputs(t) \in Tree /\ write_outputs(t).file = t.file
           /\ run_check(write_outputs(t))
           /\ GraphOf(write_outputs(t)) = GraphOf(t)
           /\ Complete(write_outputs(t)) <=> Complete(t)
BY DEF write_outputs, GeneratedManifest, run_check, Tree, GraphOf, Parsed, Complete

\* A job's transition leaves the dependencies and the frontmatter where they were, and
\* VALID_TRANSITIONS leads to "merged" from "review" only.
LEMMA TransitionOfTree ==
    ASSUME NEW t \in Tree, NEW b \in Briefs, MayBecome(t, b, "merged")
    PROVE  /\ transition(t, b, "merged") \in Tree /\ Marks(t, transition(t, b, "merged"), b)
           /\ GraphOf(transition(t, b, "merged")) = GraphOf(t)
           /\ Complete(transition(t, b, "merged")) <=> Complete(t)
<1> DEFINE u == transition(t, b, "merged")
<1>1. u = [t EXCEPT !.file = [t.file EXCEPT ![b] = [@ EXCEPT !.state = "merged"]]]
  BY DEF transition
<1>2. /\ t.file \in [Briefs -> Entry]
      /\ u.file = [t.file EXCEPT ![b] = [@ EXCEPT !.state = "merged"]]
      /\ u.manifest = t.manifest
  BY <1>1 DEF Tree
<1>3. /\ t.file[b] \in Entry /\ u.file[b] = [t.file[b] EXCEPT !.state = "merged"]
      /\ u.file[b] \in Entry /\ u.file[b].state = "merged" /\ u.file[b].deps = t.file[b].deps
  BY <1>2 DEF Entry, States
<1>4. u \in Tree
  BY <1>1, <1>2, <1>3 DEF Tree
<1>5. \A c \in Briefs : u.file[c].deps = t.file[c].deps
  BY <1>2, <1>3
<1>6. Parsed(u) = Parsed(t)
  BY <1>2, <1>3 DEF Parsed, MayBecome, States
<1>7. GraphOf(u) = GraphOf(t) /\ (Complete(u) <=> Complete(t))
  <2>1. Parsed(t) \subseteq Briefs
    BY DEF Parsed
  <2> QED
    BY <1>5, <1>6, <2>1 DEF GraphOf, Complete
<1>8. t.file[b].state = "review"
  BY DEF MayBecome, VALID_TRANSITIONS, States
<1>9. \A c \in Briefs \ {b} : u.file[c] = t.file[c]
  BY <1>2
<1> QED
  BY <1>3, <1>4, <1>7, <1>8, <1>9 DEF Marks, ChangesOnly

LEMMA EditsOfTree ==
    ASSUME NEW t \in Tree, NEW b \in Briefs, NEW u \in Edits(t, b)
    PROVE  u \in Tree
<1>1. CASE u = retrofit(t)
  <2>1. \A c \in Briefs : Retrofitted(c) \in Entry
    <3> SUFFICES ASSUME NEW c \in Briefs PROVE Retrofitted(c) \in Entry
      OBVIOUS
    <3>1. Status[c].deps \in SUBSET Ids
      BY StatusAssumption
    <3>2. NormalizeState(Status[c].state) \in States
      BY DEF NormalizeState, States
    <3> QED
      BY <3>1, <3>2 DEF Retrofitted, FilterBriefIds, Entry
  <2>2. u = [t EXCEPT !.file = [c \in Briefs |-> IF t.file[c].state = "raw" THEN Retrofitted(c)
                                                                           ELSE t.file[c]]]
    BY <1>1 DEF retrofit
  <2> QED
    BY <2>1, <2>2 DEF Tree
<1>2. ASSUME NEW s \in Written \cup {t.file[b].state}, NEW D \in DependsOn \cup {t.file[b].deps},
             u = [t EXCEPT !.file[b] = [state |-> s, deps |-> D]]
      PROVE  u \in Tree
  <2>1. [state |-> s, deps |-> D] \in Entry
    BY <1>2, BoundsAssumption DEF Tree, Entry
  <2>2. u = [t EXCEPT !.file = [t.file EXCEPT ![b] = [state |-> s, deps |-> D]]]
    BY <1>2
  <2>3. [t.file EXCEPT ![b] = [state |-> s, deps |-> D]] \in [Briefs -> Entry]
    BY <2>1 DEF Tree
  <2> QED
    BY <2>2, <2>3 DEF Tree
<1> QED
  BY <1>1, <1>2 DEF Edits

\* What a branch brought up to date would change on main is what it wrote.
LEMMA RebasedOfTree ==
    ASSUME NEW c \in Checkout, main \in Tree
    PROVE  Rebased(c) \in Tree /\ ChangesOnly(main, Rebased(c), c.states)
<1> DEFINE F == [b \in Briefs |->
                   [state |-> IF b \in c.states THEN c.tree.file[b].state
                                                ELSE main.file[b].state,
                    deps  |-> IF b \in c.links THEN c.tree.file[b].deps
                                               ELSE main.file[b].deps]]
<1>1. Rebased(c) = [main EXCEPT !.file = F]
  BY DEF Rebased
<1>2. \A b \in Briefs : c.tree.file[b] \in Entry /\ main.file[b] \in Entry
  BY DEF Checkout, Tree
<1>3. F \in [Briefs -> Entry]
  BY <1>2 DEF Entry
<1>4. \A b \in Briefs \ c.states : F[b].state = main.file[b].state
  OBVIOUS
<1> HIDE DEF F
<1>5. Rebased(c) \in Tree /\ Rebased(c).file = F
  BY <1>1, <1>3 DEF Tree
<1> QED
  BY <1>4, <1>5 DEF ChangesOnly

-----------------------------------------------------------------------------
(* The invariant. *)

LEMMA BriefsInitHolds == Init => IInv
<1> SUFFICES ASSUME Init PROVE IInv
  OBVIOUS
<1>1. TypeOK
  BY NoCheckoutType DEF Init, TypeOK
<1>2. GraphInv
  BY InitHolds DEF Init
<1>3. \A p \in Changes : pr[p].pc = "none"
  BY NoCheckoutType DEF Init
<1>4. \A j \in Jobs : job[j].pc = "none"
  BY NoCheckoutType DEF Init
<1>5. rev = 0
  BY DEF Init
<1> QED
  BY <1>1, <1>2, <1>3, <1>4, <1>5 DEF IInv, SearchesItsTree, GreenIsGood, PushIsGood,
     JobFollows, MainIsGood, BranchWrites, JobMarks

\* What a step that leaves the tools' memory alone keeps of the search.
LEMMA GraphUnchanged == GraphInv /\ UNCHANGED graphVars => GraphInv'
BY StepHolds

\* A branch that stands on the head and says which states it writes may be opened.
LEMMA OpenKeeps ==
    ASSUME IInv, ~Checking, NEW p \in Changes, NEW b \in Briefs, NEW t \in Tree,
           NEW S \in SUBSET Briefs, NEW L \in SUBSET Briefs, NEW hooked \in BOOLEAN,
           ChangesOnly(main, t, S), Open(p, b, t, S, L, hooked)
    PROVE  IInv'
<1>1. TypeOK /\ rev \in Nat /\ main \in Tree
  BY DEF IInv, TypeOK
<1> DEFINE u == IF hooked THEN write_outputs(t) ELSE t
           c == [pc |-> "ci", brief |-> b, base |-> rev, tree |-> u, states |-> S, links |-> L]
<1>2. /\ pr' = [pr EXCEPT ![p] = c] /\ StartSearch(GraphOf(t))
      /\ main' = main /\ rev' = rev /\ job' = job
  BY DEF Open
<1>3. u \in Tree /\ u.file = t.file /\ GraphOf(u) = GraphOf(t)
  BY OutputsOfTree
<1> HIDE DEF u
<1>4. ChangesOnly(main, u, S) /\ GraphOf(t) \in Graphs
  BY <1>3, GraphOfTree DEF ChangesOnly
<1>5. /\ c \in Checkout /\ c.pc = "ci" /\ c.base = rev /\ c.tree = u /\ c.states = S
      /\ pr \in [Changes -> Checkout]
  BY <1>1, <1>3 DEF Checkout, TypeOK
<1> HIDE DEF c
<1>6. /\ pr' \in [Changes -> Checkout] /\ pr'[p] = c
      /\ \A q \in Changes \ {p} : pr'[q] = pr[q] /\ pr[q].pc # "ci"
  BY <1>2, <1>5 DEF Checking
<1>7. TypeOK'
  BY <1>1, <1>2, <1>6 DEF TypeOK
<1>8. GraphInv' /\ graph' = GraphOf(u)
  BY <1>2, <1>3, <1>4, StepHolds DEF IInv, GraphNext, StartSearch, Set
<1>9. SearchesItsTree'
  BY <1>5, <1>6, <1>8 DEF SearchesItsTree
<1>10. GreenIsGood' /\ PushIsGood' /\ JobFollows' /\ MainIsGood' /\ JobMarks'
  BY <1>2, <1>5, <1>6 DEF IInv, GreenIsGood, PushIsGood, JobFollows, MainIsGood, JobMarks
<1>11. BranchWrites'
  BY <1>1, <1>2, <1>4, <1>5, <1>6 DEF IInv, BranchWrites
<1> QED
  BY <1>7, <1>8, <1>9, <1>10, <1>11 DEF IInv

LEMMA ProposeKeeps ==
    ASSUME IInv, ~Checking, NEW p \in Changes, NEW b \in Briefs, NEW hooked \in BOOLEAN,
           Propose(p, b, hooked)
    PROVE  IInv'
<1> DEFINE S(t) == {c \in Briefs : t.file[c].state # main.file[c].state}
           L(t) == {c \in Briefs : t.file[c].deps # main.file[c].deps}
<1>1. PICK t \in Edits(main, b) : Open(p, b, t, S(t), L(t), hooked)
  BY DEF Propose
<1>2. t \in Tree
  BY EditsOfTree DEF IInv, TypeOK
<1>3. ChangesOnly(main, t, S(t)) /\ S(t) \in SUBSET Briefs /\ L(t) \in SUBSET Briefs
  BY DEF ChangesOnly
<1> HIDE DEF S, L
<1> QED
  BY <1>1, <1>2, <1>3, OpenKeeps

LEMMA UpdateKeeps ==
    ASSUME IInv, ~Checking, NEW p \in Changes, NEW hooked \in BOOLEAN, Update(p, hooked)
    PROVE  IInv'
<1>1. pr[p] \in Checkout /\ main \in Tree
  BY DEF IInv, TypeOK
<1>2. /\ Rebased(pr[p]) \in Tree /\ ChangesOnly(main, Rebased(pr[p]), pr[p].states)
      /\ pr[p].brief \in Briefs /\ pr[p].states \in SUBSET Briefs /\ pr[p].links \in SUBSET Briefs
  BY <1>1, RebasedOfTree DEF Checkout
<1> QED
  BY <1>2, OpenKeeps DEF Update

LEMMA EndChecksKeeps ==
    ASSUME IInv, NEW p \in Changes, EndChecks(p)
    PROVE  IInv'
<1>1. /\ pr \in [Changes -> Checkout] /\ pr[p].pc = "ci" /\ ~searching /\ ForgetSearch
      /\ main' = main /\ rev' = rev /\ job' = job
  BY DEF EndChecks, IInv, TypeOK
<1>2. GraphInv /\ VerdictIsRight /\ GraphInv'
  BY <1>1, StepHolds DEF IInv, GraphInv, GraphNext
<1> DEFINE c == IF ChecksPass(pr[p].tree) THEN [pr[p] EXCEPT !.pc = "green"] ELSE NoCheckout
<1>3. pr' = [pr EXCEPT ![p] = c]
  BY DEF EndChecks
<1>4. /\ c \in Checkout /\ c.pc # "ci"
      /\ c.pc = "green" => /\ c.base = pr[p].base /\ c.tree = pr[p].tree
                           /\ c.states = pr[p].states /\ ChecksPass(pr[p].tree)
  BY <1>1, NoCheckoutType DEF Checkout
<1> HIDE DEF c
<1>5. pr' \in [Changes -> Checkout] /\ pr'[p] = c /\ \A q \in Changes \ {p} : pr'[q] = pr[q]
  BY <1>1, <1>3, <1>4
<1>6. \A q \in Changes : pr'[q].pc # "ci"
  BY <1>1, <1>4, <1>5 DEF IInv, SearchesItsTree
<1>7. c.pc = "green" => Good(c.tree)
  <2> SUFFICES ASSUME c.pc = "green" PROVE Good(c.tree)
    OBVIOUS
  <2>1. graph = GraphOf(c.tree) /\ ChecksPass(c.tree)
    BY <1>1, <1>4 DEF IInv, SearchesItsTree
  <2> QED
    BY <2>1, <1>1, <1>2 DEF VerdictIsRight, ChecksPass, Good
<1>8. TypeOK'
  BY <1>1, <1>5 DEF IInv, TypeOK
<1>9. /\ SearchesItsTree' /\ GreenIsGood' /\ PushIsGood' /\ JobFollows' /\ MainIsGood'
      /\ JobMarks'
  BY <1>1, <1>5, <1>6, <1>7 DEF IInv, SearchesItsTree, GreenIsGood, PushIsGood, JobFollows,
                                MainIsGood, JobMarks
<1>10. BranchWrites'
  <2> SUFFICES ASSUME NEW q \in Changes, pr'[q].pc \in {"ci", "green"}
               PROVE  /\ pr'[q].base <= rev
                      /\ pr'[q].base = rev => ChangesOnly(main, pr'[q].tree, pr'[q].states)
    BY <1>1 DEF BranchWrites
  <2>1. /\ pr'[q].base = pr[q].base /\ pr'[q].tree = pr[q].tree /\ pr'[q].states = pr[q].states
        /\ pr[q].pc \in {"ci", "green"}
    BY <1>1, <1>4, <1>5, <1>6
  <2> QED
    BY <2>1 DEF IInv, BranchWrites
<1> QED
  BY <1>2, <1>8, <1>9, <1>10 DEF IInv

\* A commit leaves every checkout behind main.
LEMMA CommitLeavesBehind ==
    ASSUME IInv, rev' = rev + 1,
           \A p \in Changes : pr'[p] = pr[p] \/ pr'[p].pc = "none",
           \A j \in Jobs : job'[j] = job[j] \/ job'[j].pc \in {"none", "queued"}
    PROVE  BranchWrites' /\ JobMarks'
<1>1. rev \in Nat /\ pr \in [Changes -> Checkout] /\ job \in [Jobs -> Checkout]
  BY DEF IInv, TypeOK
<1>2. ASSUME NEW p \in Changes, pr'[p].pc \in {"ci", "green"}
      PROVE  pr'[p].base <= rev' /\ pr'[p].base # rev'
  <2>1. pr'[p] = pr[p] /\ pr[p].base \in Nat
    BY <1>1, <1>2 DEF Checkout
  <2>2. pr[p].base <= rev
    BY <1>2, <2>1 DEF IInv, BranchWrites
  <2> QED
    BY <1>1, <2>1, <2>2
<1>3. ASSUME NEW j \in Jobs, job'[j].pc = "push"
      PROVE  job'[j].base <= rev' /\ job'[j].base # rev'
  <2>1. job'[j] = job[j] /\ job[j].base \in Nat
    BY <1>1, <1>3 DEF Checkout
  <2>2. job[j].base <= rev
    BY <1>3, <2>1 DEF IInv, JobMarks
  <2> QED
    BY <1>1, <2>1, <2>2
<1> QED
  BY <1>2, <1>3 DEF BranchWrites, JobMarks

LEMMA MergeKeeps ==
    ASSUME IInv, ~Checking, NEW p \in Changes, Merge(p)
    PROVE  IInv' /\ Justified
<1>1. /\ TypeOK /\ rev \in Nat /\ pr[p].pc = "green" /\ pr[p].base = rev
      /\ pr \in [Changes -> Checkout] /\ job \in [Jobs -> Checkout]
      /\ main' = pr[p].tree /\ rev' = rev + 1 /\ pr' = [pr EXCEPT ![p] = NoCheckout]
  BY DEF Merge, IInv, TypeOK
<1>2. GraphInv'
  BY GraphUnchanged DEF Merge, IInv
<1> DEFINE q == [NoCheckout EXCEPT !.pc = "queued", !.brief = pr[p].brief]
<1>3. q \in Checkout /\ q.pc = "queued" /\ pr[p].brief \in Briefs
  BY <1>1, NoCheckoutType DEF Checkout
<1>4. job' = job \/ \E j \in Jobs : job' = [job EXCEPT ![j] = q]
  BY DEF Merge
<1> HIDE DEF q
<1>5. /\ job' \in [Jobs -> Checkout]
      /\ \A j \in Jobs : job'[j] = job[j] \/ job'[j].pc = "queued"
  BY <1>1, <1>3, <1>4
<1>6. /\ pr' \in [Changes -> Checkout] /\ pr'[p].pc = "none"
      /\ \A r \in Changes \ {p} : pr'[r] = pr[r]
  BY <1>1, NoCheckoutType
<1>7. TypeOK'
  BY <1>1, <1>5, <1>6 DEF TypeOK, Checkout
<1>8. Good(main') /\ ChangesOnly(main, main', pr[p].states)
  BY <1>1 DEF IInv, GreenIsGood, BranchWrites
<1>9. \A r \in Changes : pr'[r].pc # "ci"
  BY <1>6 DEF Checking
<1>10. SearchesItsTree' /\ GreenIsGood'
  BY <1>6, <1>9 DEF IInv, SearchesItsTree, GreenIsGood
<1>11. PushIsGood' /\ JobFollows' /\ MainIsGood'
  BY <1>1, <1>5, <1>8 DEF IInv, PushIsGood, JobFollows, MainIsGood
<1>12. BranchWrites' /\ JobMarks'
  BY <1>1, <1>5, <1>6, CommitLeavesBehind
<1>13. Justified
  BY <1>1, <1>6, <1>8 DEF Justified, StateIsWritten, ChangesOnly
<1> QED
  BY <1>2, <1>7, <1>10, <1>11, <1>12, <1>13 DEF IInv

LEMMA CloseKeeps ==
    ASSUME IInv, NEW p \in Changes, Close(p)
    PROVE  IInv'
<1>1. /\ TypeOK /\ pr \in [Changes -> Checkout] /\ pr' = [pr EXCEPT ![p] = NoCheckout]
      /\ main' = main /\ rev' = rev /\ job' = job /\ graph' = graph
  BY DEF Close, IInv, TypeOK, graphVars
<1>2. GraphInv'
  BY GraphUnchanged DEF Close, IInv
<1>3. /\ pr' \in [Changes -> Checkout] /\ pr'[p].pc = "none"
      /\ \A q \in Changes \ {p} : pr'[q] = pr[q]
  BY <1>1, NoCheckoutType
<1>4. TypeOK'
  BY <1>1, <1>3 DEF TypeOK
<1> QED
  BY <1>1, <1>2, <1>3, <1>4 DEF IInv, SearchesItsTree, GreenIsGood, PushIsGood, JobFollows,
                                MainIsGood, BranchWrites, JobMarks

LEMMA MarkMergedKeeps ==
    ASSUME IInv, NEW j \in Jobs, MarkMerged(j)
    PROVE  IInv'
<1>1. /\ TypeOK /\ rev \in Nat /\ main \in Tree /\ job \in [Jobs -> Checkout]
      /\ job[j].pc = "queued" /\ rev > 0 /\ Good(main)
      /\ main' = main /\ rev' = rev /\ pr' = pr /\ graph' = graph
  BY DEF MarkMerged, IInv, TypeOK, JobFollows, MainIsGood, graphVars
<1>2. GraphInv'
  BY GraphUnchanged DEF MarkMerged, IInv
<1> DEFINE b == job[j].brief
           t == transition(main, b, "merged")
           c == IF MayBecome(main, b, "merged")
                THEN [job[j] EXCEPT !.pc = "push", !.base = rev, !.tree = write_outputs(t)]
                ELSE NoCheckout
<1>3. job' = [job EXCEPT ![j] = c] /\ b \in Briefs /\ job[j] \in Checkout
  BY <1>1 DEF MarkMerged, Checkout
<1>4. MayBecome(main, b, "merged") =>
          /\ write_outputs(t) \in Tree /\ Marks(main, write_outputs(t), b)
          /\ Good(write_outputs(t))
  <2> SUFFICES ASSUME MayBecome(main, b, "merged")
               PROVE  /\ write_outputs(t) \in Tree /\ Marks(main, write_outputs(t), b)
                      /\ Good(write_outputs(t))
    OBVIOUS
  <2>1. /\ t \in Tree /\ Marks(main, t, b) /\ GraphOf(t) = GraphOf(main)
        /\ Complete(t) <=> Complete(main)
    BY <1>1, <1>3, TransitionOfTree
  <2> HIDE DEF t, b
  <2> QED
    BY <2>1, <1>1, OutputsOfTree DEF Good, Marks, ChangesOnly
<1>5. /\ c \in Checkout /\ c.pc \in {"none", "push"}
      /\ c.pc = "push" => c.base = rev /\ Marks(main, c.tree, c.brief) /\ Good(c.tree)
  <2>1. CASE MayBecome(main, b, "merged")
    <3> HIDE DEF t
    <3>1. c = [job[j] EXCEPT !.pc = "push", !.base = rev, !.tree = write_outputs(t)]
      BY <2>1
    <3>2. write_outputs(t) \in Tree /\ Marks(main, write_outputs(t), b) /\ Good(write_outputs(t))
      BY <2>1, <1>4
    <3> HIDE DEF c
    <3>3. /\ c \in Checkout /\ c.pc = "push" /\ c.base = rev /\ c.tree = write_outputs(t)
          /\ c.brief = b
      BY <3>1, <3>2, <1>1, <1>3 DEF Checkout
    <3> QED
      BY <3>2, <3>3
  <2>2. CASE ~MayBecome(main, b, "merged")
    BY <2>2, NoCheckoutType
  <2> QED
    BY <2>1, <2>2
<1> HIDE DEF c
<1>6. job' \in [Jobs -> Checkout] /\ job'[j] = c /\ \A i \in Jobs \ {j} : job'[i] = job[i]
  BY <1>1, <1>3, <1>5
<1>7. TypeOK'
  BY <1>1, <1>6 DEF TypeOK
<1>8. /\ SearchesItsTree' /\ GreenIsGood' /\ PushIsGood' /\ JobFollows' /\ MainIsGood'
      /\ BranchWrites'
  BY <1>1, <1>5, <1>6 DEF IInv, SearchesItsTree, GreenIsGood, PushIsGood, JobFollows,
                          MainIsGood, BranchWrites
<1>9. JobMarks'
  BY <1>1, <1>5, <1>6 DEF IInv, JobMarks
<1> QED
  BY <1>2, <1>7, <1>8, <1>9 DEF IInv

LEMMA PushKeeps ==
    ASSUME IInv, ~Checking, NEW j \in Jobs, Push(j)
    PROVE  IInv' /\ Justified
<1>1. /\ TypeOK /\ rev \in Nat /\ job \in [Jobs -> Checkout] /\ job[j].pc = "push"
      /\ pr \in [Changes -> Checkout] /\ main \in Tree
      /\ job' = [job EXCEPT ![j] = NoCheckout] /\ pr' = pr
      /\ \/ job[j].base = rev /\ main' = job[j].tree /\ rev' = rev + 1
         \/ main' = main /\ rev' = rev
  BY DEF Push, IInv, TypeOK
<1>2. GraphInv' /\ graph' = graph
  BY GraphUnchanged DEF Push, IInv, graphVars
<1>3. /\ job' \in [Jobs -> Checkout] /\ job'[j].pc = "none"
      /\ \A i \in Jobs \ {j} : job'[i] = job[i]
  BY <1>1, NoCheckoutType
<1>4. \A p \in Changes : pr[p].pc # "ci"
  BY DEF Checking
<1>5. Good(job[j].tree) /\ rev > 0 /\ Good(main)
  BY <1>1 DEF IInv, PushIsGood, JobFollows, MainIsGood
<1>6. CASE job[j].base = rev /\ main' = job[j].tree /\ rev' = rev + 1
  <2>1. Marks(main, main', job[j].brief) /\ main' \in Tree
    BY <1>1, <1>6 DEF IInv, JobMarks, Checkout
  <2>2. TypeOK'
    BY <2>1, <1>1, <1>3, <1>6 DEF TypeOK
  <2>3. SearchesItsTree' /\ GreenIsGood' /\ PushIsGood' /\ JobFollows' /\ MainIsGood'
    BY <1>1, <1>3, <1>4, <1>5, <1>6 DEF IInv, SearchesItsTree, GreenIsGood, PushIsGood,
                                        JobFollows, MainIsGood
  <2>4. BranchWrites' /\ JobMarks'
    BY <1>1, <1>3, <1>6, CommitLeavesBehind
  <2>5. Justified
    BY <2>1, <1>1, <1>3 DEF Justified, StateIsWritten, Marks, ChangesOnly
  <2> QED
    BY <2>2, <2>3, <2>4, <2>5, <1>2 DEF IInv
<1>7. CASE main' = main /\ rev' = rev
  <2>1. TypeOK'
    BY <1>1, <1>3, <1>7 DEF TypeOK
  <2>2. /\ SearchesItsTree' /\ GreenIsGood' /\ PushIsGood' /\ JobFollows' /\ MainIsGood'
        /\ BranchWrites' /\ JobMarks'
    BY <1>1, <1>2, <1>3, <1>7 DEF IInv, SearchesItsTree, GreenIsGood, PushIsGood, JobFollows,
                                  MainIsGood, BranchWrites, JobMarks
  <2> QED
    BY <2>1, <2>2, <1>2, <1>7 DEF IInv, Justified
<1> QED
  BY <1>1, <1>6, <1>7

\* A step of the search changes nothing of the trees, and not the graph either.
LEMMA ValidationKeeps ==
    ASSUME IInv, Validation
    PROVE  IInv'
<1>1. main' = main /\ rev' = rev /\ pr' = pr /\ job' = job
  BY DEF Validation
<1>2. graph' = graph
  BY DEF Validation, SearchStep, VisitRoot, VisitDependency, Enter, SkipFinished, ReportCycle,
         Leave, EndSearch
<1>3. GraphInv'
  BY StepHolds DEF Validation, IInv, GraphNext
<1> QED
  BY <1>1, <1>2, <1>3 DEF IInv, TypeOK, SearchesItsTree, GreenIsGood, PushIsGood, JobFollows,
                          MainIsGood, BranchWrites, JobMarks

LEMMA BriefsStepHolds ==
    ASSUME IInv, [Next]_vars
    PROVE  IInv' /\ (main' = main \/ Justified)
<1>1. CASE ~Checking /\ \E p \in Changes : PullRequest(p)
  <2>1. PICK p \in Changes : PullRequest(p)
    BY <1>1
  <2>2. CASE \E b \in Briefs, hooked \in BOOLEAN : Propose(p, b, hooked)
    BY <1>1, <2>2, ProposeKeeps DEF Propose, Open
  <2>3. CASE \E hooked \in BOOLEAN : Update(p, hooked)
    BY <1>1, <2>3, UpdateKeeps DEF Update, Open
  <2>4. CASE Merge(p)
    BY <1>1, <2>4, MergeKeeps
  <2>5. CASE Close(p)
    BY <2>5, CloseKeeps DEF Close
  <2> QED
    BY <2>1, <2>2, <2>3, <2>4, <2>5 DEF PullRequest
<1>2. CASE ~Checking /\ \E j \in Jobs : MarkMerged(j) \/ Push(j)
  BY <1>2, MarkMergedKeeps, PushKeeps DEF MarkMerged
<1>3. CASE Validation
  BY <1>3, ValidationKeeps DEF Validation
<1>4. CASE \E p \in Changes : EndChecks(p)
  BY <1>4, EndChecksKeeps DEF EndChecks
<1>5. CASE UNCHANGED vars
  <2>1. GraphInv'
    BY <1>5, GraphUnchanged DEF vars, IInv
  <2> QED
    BY <2>1, <1>5 DEF vars, graphVars, IInv, TypeOK, SearchesItsTree, GreenIsGood, PushIsGood,
                      JobFollows, MainIsGood, BranchWrites, JobMarks
<1> QED
  BY <1>1, <1>2, <1>3, <1>4, <1>5 DEF Next

-----------------------------------------------------------------------------

\* The variables keep their types.
THEOREM BriefsTypeCorrect == Spec => []TypeOK
<1>1. IInv => TypeOK
  BY DEF IInv
<1> QED
  BY BriefsInitHolds, BriefsStepHolds, <1>1, PTL DEF Spec

\* Whatever is merged and in whatever order the jobs push, the briefs of main are
\* complete and none of them waits for itself.
THEOREM MainStaysValid == Spec => []MainIsValid
<1>1. IInv => MainIsValid
  BY DEF IInv, MainIsGood, Good, MainIsValid
<1> QED
  BY BriefsInitHolds, BriefsStepHolds, <1>1, PTL DEF Spec

\* Whoever committed last, a pull request or a job that no check looks at, the
\* manifest of main lists what its briefs say.
THEOREM ManifestStaysCurrent == Spec => []ManifestIsCurrent
<1>1. IInv => ManifestIsCurrent
  BY DEF IInv, MainIsGood, Good, ManifestIsCurrent
<1> QED
  BY BriefsInitHolds, BriefsStepHolds, <1>1, PTL DEF Spec

\* Whatever states branches write and however often they are brought up to date, a
\* commit changes the state of a brief only on purpose: its own branch wrote it, or its
\* own job took it from review to merged.
THEOREM StatesAreNotUndone == Spec => NoStateUndone
<1>1. IInv /\ [Next]_vars =>
          [\A b \in Briefs :
              main'.file[b].state # main.file[b].state => StateIsWritten(b)]_main
  BY BriefsStepHolds DEF Justified
<1> QED
  BY BriefsInitHolds, BriefsStepHolds, <1>1, PTL DEF Spec, NoStateUndone

\* The pipeline uses the search as it is meant to be used, so that it inherits
\* what the search promises.
THEOREM SearchRefined == Spec => GraphSpec
<1>1. Init => GraphInit
  BY DEF Init
<1>2. IInv /\ [Next]_vars => [GraphNext]_graphVars
  <2> SUFFICES ASSUME IInv, [Next]_vars PROVE [GraphNext]_graphVars
    OBVIOUS
  <2>1. CASE \E p \in Changes, b \in Briefs, hooked \in BOOLEAN : Propose(p, b, hooked)
    <3>1. PICK b \in Briefs : \E t \in Edits(main, b) : StartSearch(GraphOf(t))
      BY <2>1 DEF Propose, Open
    <3>2. PICK t \in Edits(main, b) : StartSearch(GraphOf(t))
      BY <3>1
    <3>3. GraphOf(t) \in Graphs
      BY EditsOfTree, GraphOfTree DEF IInv, TypeOK
    <3> QED
      BY <3>2, <3>3 DEF GraphNext
  <2>2. CASE \E p \in Changes, hooked \in BOOLEAN : Update(p, hooked)
    <3>1. PICK p \in Changes : StartSearch(GraphOf(Rebased(pr[p])))
      BY <2>2 DEF Update, Open
    <3>2. GraphOf(Rebased(pr[p])) \in Graphs
      BY RebasedOfTree, GraphOfTree DEF IInv, TypeOK
    <3> QED
      BY <3>1, <3>2 DEF GraphNext
  <2>3. CASE Validation
    BY <2>3 DEF Validation, GraphNext
  <2>4. CASE \E p \in Changes : EndChecks(p)
    BY <2>4 DEF EndChecks, GraphNext
  <2>5. CASE UNCHANGED graphVars
    BY <2>5
  <2> QED
    BY <2>1, <2>2, <2>3, <2>4, <2>5 DEF Next, vars, PullRequest, Merge, Close, MarkMerged, Push
<1> QED
  BY BriefsInitHolds, BriefsStepHolds, <1>1, <1>2, PTL DEF Spec, GraphSpec
=============================================================================
