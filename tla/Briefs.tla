------------------------------- MODULE Briefs -------------------------------
(***************************************************************************)
(* The brief pipeline of scripts/: every brief carries its state and its   *)
(* dependencies in its own file, manifest.yaml lists them all, and the     *)
(* same tree of files is changed by pull requests, which CI checks, and by *)
(* the jobs of manifest-on-merge.yml, which CI does not.  Each works on a  *)
(* checkout of its own and gives it back as the next commit of main.       *)
(*                                                                         *)
(* validate_frontmatter searches the graph it has read into memory, and    *)
(* touches nothing else; BriefGraph's variables are those of the one       *)
(* validation in progress, and a pull request waits for it to end.         *)
(***************************************************************************)
EXTENDS BriefGraph

CONSTANTS
    Briefs,     \* the briefs there are
    Suffixed,   \* those whose number ends in a letter, as phase1-admin-002a
    Changes,    \* pull requests that can be open together
    Jobs,       \* runs of manifest-on-merge that can be under way together
    Status,     \* Status[b]: what the "## Status" section of b says at first
    Written,    \* bound: the states somebody may write into a brief
    DependsOn,  \* bound: the depends_on lists somebody may write
    MaxRev      \* bound: commits to main when the last branch is cut

ASSUME BriefsAssumption == Briefs # {} /\ Briefs \subseteq Ids /\ Suffixed \subseteq Ids

States == {"ready", "in_progress", "review", "merged", "blocked", "obsolete"}

ASSUME BoundsAssumption ==
    Written \subseteq States /\ DependsOn \subseteq SUBSET Ids /\ MaxRev \in Nat
ASSUME StatusAssumption == Status \in [Briefs -> [state : STRING, deps : SUBSET Ids]]

VALID_TRANSITIONS ==
    [ready       |-> {"in_progress", "blocked", "obsolete"},
     in_progress |-> {"review", "blocked", "obsolete"},
     review      |-> {"merged", "blocked", "in_progress", "obsolete"},
     merged      |-> {"obsolete"},
     blocked     |-> {"ready", "obsolete"},
     obsolete    |-> {}]

VARIABLES
    main,       \* the tree at the head of main
    rev,        \* number of commits to main
    pr,         \* pr[p]: an open pull request and its checkout
    job         \* job[j]: a run of manifest-on-merge and its checkout

vars == <<main, rev, pr, job, graphVars>>

\* A file without frontmatter is "raw".  manifest is manifest.yaml.
Entry == [state : States \cup {"raw"}, deps : SUBSET Ids]
Tree  == [file : [Briefs -> Entry], manifest : [Briefs -> Entry]]

\* brief: whose branch or job this is; base: the commit of main it stands on;
\* states, links: the briefs whose state, whose depends_on the branch writes.
Checkout == [pc : {"none", "ci", "green", "queued", "push"}, brief : Briefs, base : Nat,
             tree : Tree, states : SUBSET Briefs, links : SUBSET Briefs]

RawFile == [state |-> "raw", deps |-> {}]
Empty   == [file |-> [b \in Briefs |-> RawFile], manifest |-> [b \in Briefs |-> RawFile]]

NoCheckout == [pc |-> "none", brief |-> CHOOSE b \in Briefs : TRUE, base |-> 0,
               tree |-> Empty, states |-> {}, links |-> {}]

Init ==
    /\ main = Empty /\ rev = 0
    /\ pr = [p \in Changes |-> NoCheckout]
    /\ job = [j \in Jobs |-> NoCheckout]
    /\ GraphInit

-----------------------------------------------------------------------------
(* The scripts, each one a function of a tree. *)

\* generate_manifest: a file without frontmatter is passed over, and stays raw.
GeneratedManifest(t) == t.file

write_outputs(t) == [t EXCEPT !.manifest = GeneratedManifest(t)]

run_check(t) == t.manifest = GeneratedManifest(t)

\* Faulty variant: the state is copied as it stands.
CopyState(raw) == raw

NormalizeState(raw) == IF raw \in States THEN raw ELSE "ready"

\* _BRIEF_ID_RE matches no id that ends in a letter.
FilterBriefIds(items) == items \ Suffixed

\* parse_status_section.
Retrofitted(b) == [state |-> NormalizeState(Status[b].state), deps |-> FilterBriefIds(Status[b].deps)]

\* retrofit_frontmatter.
retrofit(t) == [t EXCEPT !.file = [b \in Briefs |-> IF @[b].state = "raw" THEN Retrofitted(b)
                                                                         ELSE @[b]]]

MayBecome(t, b, s) == t.file[b].state \in States /\ s \in VALID_TRANSITIONS[t.file[b].state]

transition(t, b, s) == [t EXCEPT !.file[b].state = s]

\* validate_repo: the briefs dict holds the files with frontmatter.
Parsed(t)    == {b \in Briefs : t.file[b].state # "raw"}
GraphOf(t)   == [b \in Parsed(t) |-> t.file[b].deps]
Complete(t)  == Parsed(t) = Briefs /\ \A b \in Briefs : t.file[b].deps \subseteq Parsed(t)

-----------------------------------------------------------------------------
(* A pull request. *)

\* What a branch leaves in its checkout: the retrofitted briefs, or one brief with
\* any state and any depends_on.  States are set by the skills, by hand or by the
\* script; only the script refuses a transition, and no check looks for one.
Edits(t, b) ==
    {retrofit(t)} \cup
    {[t EXCEPT !.file[b] = [state |-> s, deps |-> D]] :
        s \in {s \in Written \cup {t.file[b].state} : b \in Parsed(t)},
        D \in DependsOn \cup {t.file[b].deps}}

\* The push that opens or updates the pull request, committed with the
\* gen-manifest hook installed or without.  Its stage 1 of ci-backend.yml runs
\* validate_frontmatter and then gen_manifest --check.
Open(p, b, t, states, links, hooked) ==
    /\ pr' = [pr EXCEPT ![p] = [pc |-> "ci", brief |-> b, base |-> rev,
                                tree |-> IF hooked THEN write_outputs(t) ELSE t,
                                states |-> states, links |-> links]]
    /\ StartSearch(GraphOf(t))
    /\ UNCHANGED <<main, rev, job>>

\* Cut a branch for brief b from the head of main and edit.
Propose(p, b, hooked) ==
    /\ pr[p].pc = "none" /\ rev < MaxRev
    /\ \E t \in Edits(main, b) :
          Open(p, b, t, {c \in Briefs : t.file[c].state # main.file[c].state},
                        {c \in Briefs : t.file[c].deps # main.file[c].deps}, hooked)

ChecksPass(t) == cycle = <<>> /\ Complete(t) /\ run_check(t)

\* A pull request that fails is closed: its branch may be cut again.
EndChecks(p) ==
    /\ pr[p].pc = "ci" /\ ~searching
    /\ pr' = [pr EXCEPT ![p] = IF ChecksPass(@.tree) THEN [@ EXCEPT !.pc = "green"]
                                                     ELSE NoCheckout]
    /\ ForgetSearch
    /\ UNCHANGED <<main, rev, job>>

\* Faulty variant: the branch need not be up to date, and git merges the file
\* and the manifest entry it changed into main.
MergeBehind(p) ==
    /\ pr[p].pc = "green"
    /\ LET b == pr[p].brief
       IN  main' = [file     |-> [main.file EXCEPT ![b] = pr[p].tree.file[b]],
                    manifest |-> [main.manifest EXCEPT ![b] = pr[p].tree.manifest[b]]]
    /\ rev' = rev + 1
    /\ pr' = [pr EXCEPT ![p] = NoCheckout]
    /\ UNCHANGED <<job, graphVars>>

\* The branch protection asks for green checks on a branch that is up to date.
\* A branch named feature/... starts a run of manifest-on-merge.
Merge(p) ==
    /\ pr[p].pc = "green" /\ pr[p].base = rev
    /\ main' = pr[p].tree /\ rev' = rev + 1
    /\ pr' = [pr EXCEPT ![p] = NoCheckout]
    /\ \/ UNCHANGED job
       \/ \E j \in Jobs :
             /\ job[j].pc = "none"
             /\ job' = [job EXCEPT ![j] = [NoCheckout EXCEPT !.pc = "queued",
                                                             !.brief = pr[p].brief]]
    /\ UNCHANGED graphVars

\* main merged into a branch that keeps what it wrote: its side of a conflict.
Rebased(c) ==
    [main EXCEPT !.file = [b \in Briefs |->
        [state |-> IF b \in c.states THEN c.tree.file[b].state ELSE @[b].state,
         deps  |-> IF b \in c.links THEN c.tree.file[b].deps ELSE @[b].deps]]]

\* A branch behind main is brought up to date and checked again.
Update(p, hooked) ==
    /\ pr[p].pc = "green" /\ pr[p].base # rev
    /\ Open(p, pr[p].brief, Rebased(pr[p]), pr[p].states, pr[p].links, hooked)

\* Or it is given up, and perhaps done again on top of main.
Close(p) ==
    /\ pr[p].pc = "green"
    /\ pr' = [pr EXCEPT ![p] = NoCheckout]
    /\ UNCHANGED <<main, rev, job, graphVars>>

-----------------------------------------------------------------------------
(* manifest-on-merge.yml, for a merged branch feature/b. *)

\* Faulty variant: the manifest is left as it was checked out.
MarkMergedOnly(j) ==
    /\ job[j].pc = "queued" /\ MayBecome(main, job[j].brief, "merged")
    /\ job' = [job EXCEPT ![j] = [@ EXCEPT !.pc = "push", !.base = rev,
                                           !.tree = transition(main, job[j].brief, "merged")]]
    /\ UNCHANGED <<main, rev, pr, graphVars>>

\* Check main out, transition b to merged, regenerate: the step fails if the
\* transition is refused.
MarkMerged(j) ==
    /\ job[j].pc = "queued"
    /\ job' = [job EXCEPT ![j] =
                 IF MayBecome(main, @.brief, "merged")
                 THEN [@ EXCEPT !.pc = "push", !.base = rev,
                                !.tree = write_outputs(transition(main, job[j].brief, "merged"))]
                 ELSE NoCheckout]
    /\ UNCHANGED <<main, rev, pr, graphVars>>

\* Faulty variant: git push --force.
PushForced(j) ==
    /\ job[j].pc = "push"
    /\ job' = [job EXCEPT ![j] = NoCheckout]
    /\ main' = job[j].tree /\ rev' = rev + 1
    /\ UNCHANGED <<pr, graphVars>>

\* git push, without a rebase: refused if main has moved, and by a branch
\* protection that lets no bot push.  The run ends either way.
Push(j) ==
    /\ job[j].pc = "push"
    /\ job' = [job EXCEPT ![j] = NoCheckout]
    /\ \/ job[j].base = rev /\ main' = job[j].tree /\ rev' = rev + 1
       \/ UNCHANGED <<main, rev>>
    /\ UNCHANGED <<pr, graphVars>>

-----------------------------------------------------------------------------

PullRequest(p) ==
    \/ \E b \in Briefs, hooked \in BOOLEAN : Propose(p, b, hooked)
    \/ \E hooked \in BOOLEAN : Update(p, hooked)
    \/ Merge(p)
    \/ Close(p)

Validation == SearchStep /\ UNCHANGED <<main, rev, pr, job>>

Checking == \E p \in Changes : pr[p].pc = "ci"

\* The checks read and write nothing that another step does, so that they are
\* taken as a block.
Next ==
    \/ ~Checking /\ \E p \in Changes : PullRequest(p)
    \/ ~Checking /\ \E j \in Jobs : MarkMerged(j) \/ Push(j)
    \/ Validation
    \/ \E p \in Changes : EndChecks(p)

Spec == Init /\ [][Next]_vars

\* A validation that runs goes on.
FairSpec == Spec /\ WF_vars(Validation)

-----------------------------------------------------------------------------
(* Properties. *)

TypeOK ==
    /\ main \in Tree /\ rev \in Nat
    /\ pr \in [Changes -> Checkout] /\ job \in [Jobs -> Checkout]

(* From the first commit on, the briefs of main are complete and no brief  *)
(* waits for itself, though two open pull requests may each add half of a  *)
(* cycle and CI never looks at a commit of manifest-on-merge.              *)
MainIsValid == rev > 0 => Complete(main) /\ Acyclic(GraphOf(main))

(* From the first commit on, the manifest of main lists what its briefs    *)
(* say, whoever committed last.                                            *)
ManifestIsCurrent == rev > 0 => run_check(main)

\* The step ends a branch that writes the state of b, or a job that marks b merged.
StateIsWritten(b) ==
    \/ \E p \in Changes : pr[p].pc = "green" /\ pr'[p].pc = "none" /\ b \in pr[p].states
    \/ /\ \E j \in Jobs : job[j].pc = "push" /\ job'[j].pc = "none" /\ job[j].brief = b
       /\ main.file[b].state = "review" /\ main'.file[b].state = "merged"

(* No commit undoes the state another one gave a brief: the state of a     *)
(* brief on main changes only by a pull request that writes it, or from    *)
(* review to merged by a job for that brief.  So a merged brief is taken   *)
(* up again, if ever, by a branch that says so, and by no stale checkout.  *)
NoStateUndone ==
    [][\A b \in Briefs :
          main'.file[b].state # main.file[b].state => StateIsWritten(b)]_main

(* Every validation ends, whatever the briefs depend on.                   *)
ValidationEnds == searching ~> ~searching
=============================================================================
