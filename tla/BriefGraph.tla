----------------------------- MODULE BriefGraph -----------------------------
(***************************************************************************)
(* _detect_cycles of scripts/validate_frontmatter.py: a depth-first search *)
(* in three colours over the depends_on lists of the briefs, which stops   *)
(* at the first cycle.  One call of visit is one node of path; the for     *)
(* loops' order is the files', so any order is allowed here.               *)
(***************************************************************************)
EXTENDS Naturals, Sequences, FiniteSets, SequencesExt

CONSTANT Ids        \* brief ids, of existing briefs and of others

ASSUME IdsAssumption == IsFiniteSet(Ids)

VARIABLES
    graph,      \* graph[b]: the depends_on of brief b
    searching,  \* the search is running
    color,      \* color[b], as in the code
    path,       \* the briefs being visited, outermost first
    rest,       \* rest[b]: dependencies of b the loop in visit(b) has yet to see
    cycle       \* the cycle found, or <<>>

graphVars == <<graph, searching, color, path, rest, cycle>>

Graphs == UNION {[S -> SUBSET Ids] : S \in SUBSET Ids}
Colors == {"white", "gray", "black"}

\* "if dep in graph": a dependency on no brief is another check's business.
Known(g, b) == g[b] \cap DOMAIN g

White(g) == [b \in DOMAIN g |-> "white"]
Nothing(g) == [b \in DOMAIN g |-> {}]

NoGraph == [b \in {} |-> {}]

GraphInit ==
    /\ graph = NoGraph /\ searching = FALSE
    /\ color = White(NoGraph) /\ path = <<>> /\ rest = Nothing(NoGraph) /\ cycle = <<>>

-----------------------------------------------------------------------------

Set(g, on) ==
    /\ graph' = g /\ searching' = on
    /\ color' = White(g) /\ path' = <<>> /\ rest' = Nothing(g) /\ cycle' = <<>>

StartSearch(g) == ~searching /\ Set(g, TRUE)

\* Nothing is left of a search once its caller has returned.
ForgetSearch == ~searching /\ Set(NoGraph, FALSE)

\* A call of visit on a node not seen before.
Enter(b, left) ==
    /\ color[b] = "white"
    /\ color' = [color EXCEPT ![b] = "gray"]
    /\ path' = Append(path, b)
    /\ rest' = [left EXCEPT ![b] = Known(graph, b)]
    /\ UNCHANGED <<graph, searching, cycle>>

\* The outer loop reaches a white brief.
VisitRoot(b) == searching /\ path = <<>> /\ Enter(b, rest)

\* The loop of the innermost visit takes a dependency d.
Takes(d) == searching /\ path # <<>> /\ d \in rest[Last(path)]
Taken(d) == [rest EXCEPT ![Last(path)] = @ \ {d}]

VisitDependency(d) == Takes(d) /\ Enter(d, Taken(d))

\* Faulty variant: a brief still being visited counts as finished.
SkipSeen(d) ==
    /\ Takes(d) /\ color[d] # "white"
    /\ rest' = Taken(d)
    /\ UNCHANGED <<graph, searching, color, path, cycle>>

SkipFinished(d) ==
    /\ Takes(d) /\ color[d] = "black"
    /\ rest' = Taken(d)
    /\ UNCHANGED <<graph, searching, color, path, cycle>>

\* path.index(d) and the slice from there; every visit then returns.
ReportCycle(d) ==
    /\ Takes(d) /\ color[d] = "gray"
    /\ \E i \in 1..Len(path) :
          /\ path[i] = d
          /\ cycle' = SubSeq(path, i, Len(path)) \o <<d>>
    /\ searching' = FALSE
    /\ UNCHANGED <<graph, color, path, rest>>

\* Faulty variant: backtracking forgets that the brief was visited.
LeaveUnvisited ==
    /\ searching /\ path # <<>> /\ rest[Last(path)] = {}
    /\ color' = [color EXCEPT ![Last(path)] = "white"]
    /\ path' = Front(path)
    /\ UNCHANGED <<graph, searching, rest, cycle>>

Leave ==
    /\ searching /\ path # <<>> /\ rest[Last(path)] = {}
    /\ color' = [color EXCEPT ![Last(path)] = "black"]
    /\ path' = Front(path)
    /\ UNCHANGED <<graph, searching, rest, cycle>>

EndSearch ==
    /\ searching /\ path = <<>> /\ \A b \in DOMAIN graph : color[b] # "white"
    /\ searching' = FALSE
    /\ UNCHANGED <<graph, color, path, rest, cycle>>

SearchStep ==
    \/ \E b \in DOMAIN graph : \/ VisitRoot(b)
                               \/ VisitDependency(b)
                               \/ SkipFinished(b)
                               \/ ReportCycle(b)
    \/ Leave
    \/ EndSearch

GraphNext == SearchStep \/ ForgetSearch \/ \E g \in Graphs : StartSearch(g)

GraphSpec == GraphInit /\ [][GraphNext]_graphVars

-----------------------------------------------------------------------------
(* Properties. *)

\* No set of briefs in which each one depends on another of the set.
Acyclic(g) ==
    \A S \in SUBSET DOMAIN g :
        S # {} => \E b \in S : g[b] \cap S = {}

\* A walk along depends_on that ends where it began.
IsCycleOf(c, g) ==
    /\ Len(c) > 1 /\ c[1] = c[Len(c)]
    /\ \A i \in 1..(Len(c) - 1) :
          c[i] \in DOMAIN g /\ c[i + 1] \in g[c[i]] \cap DOMAIN g

(* When the search is over, it has found a cycle exactly if there is one,  *)
(* and what it reports is one: _detect_cycles neither blames briefs that   *)
(* form no cycle nor lets one pass, in whatever order it meets them.       *)
VerdictIsRight ==
    ~searching => IF cycle = <<>> THEN Acyclic(graph) ELSE IsCycleOf(cycle, graph)
=============================================================================
