-------------------------- MODULE MCGraphProposals --------------------------
(***************************************************************************)
(* TLC instance of GraphProposals: two graphs that validate, one that does *)
(* not and can be repaired; what that means is checked on graph files.     *)
(***************************************************************************)
EXTENDS GraphProposals, TLC

CONSTANTS ask, build, broken, Blank, Garbled

MCBody == {ask, build, broken}
MCValid == {ask, build}
MCRepairable == {broken}

\* By hand somebody says that the first proposal was applied.
MCHandLine == {[Event("applied", 1, NoFile) EXCEPT !.by = "user"]}

Symmetry == Permutations({ask, build})

-----------------------------------------------------------------------------
(* Graph files *)

Rules == INSTANCE GraphDiff

Phases == <<[id |-> "ask", required |-> TRUE],
            [id |-> "build", required |-> FALSE, title |-> "Build",
             evidence |-> <<"log", "report">>]>>
Exists == [type |-> "artifact.exists", path |-> "log"]
Finished == [type |-> "phase.status", phase |-> "ask", status |-> "complete"]
Gate == [id |-> "gate", requires |-> <<"ask", "build">>,
         final_required |-> TRUE, checks |-> <<Exists, Finished>>]
Sample ==
  [version |-> "workflow-graph/v1", graph_id |-> "graph",
   metadata |-> [project |-> "project", created_by |-> "khs",
                 managed_by |-> "kah"],
   phases |-> Phases, edges |-> <<[from |-> "ask", to |-> "build"]>>,
   gates |-> <<Gate>>,
   approvals |-> <<[scope |-> "graph", required_role |-> "owner"]>>,
   proposals |-> [policy |-> "proposal-first"],
   feedback_intake |-> {Rules!Canonical}]

Turned(seq) == Rules!Reverse(seq)
Variants ==
  {Sample} \cup
  {[Sample EXCEPT !.phases = p] :
     p \in {<<>>, <<Phases[1]>>, Turned(Phases), Phases \o Phases,
            <<Phases[1], [id |-> "build", required |-> TRUE]>>,
            <<Phases[1], [Phases[2] EXCEPT !.evidence = Turned(@)]>>,
            <<Phases[1], [id |-> "build"]>>}} \cup
  {[Sample EXCEPT !.edges = e] :
     e \in {<<>>, Sample.edges \o Sample.edges,
            <<[from |-> "build", to |-> "ask"]>>,
            Append(Sample.edges, [from |-> "build", to |-> "ask"])}} \cup
  {[Sample EXCEPT !.gates = g] :
     g \in {<<>>, <<[Gate EXCEPT !.requires = Turned(@)]>>,
            <<[Gate EXCEPT !.checks = Turned(@)]>>,
            <<[Gate EXCEPT !.checks = <<Finished>>]>>,
            <<[Gate EXCEPT !.final_required = FALSE]>>,
            <<[Gate EXCEPT !.checks = <<[type |-> "text.contains"]>>]>>}} \cup
  {[Sample EXCEPT !.approvals = <<>>], [Sample EXCEPT !.graph_id = "other"],
   [Sample EXCEPT !.proposals.policy = Blank],
   [Sample EXCEPT !.metadata.managed_by = "somebody"],
   [Sample EXCEPT !.metadata.created_by = "owner"]} \cup
  {[Sample EXCEPT !.feedback_intake = f] :
     f \in {{}, {Rules!Stale @@ Rules!Canonical},
            {[Rules!Canonical EXCEPT !.max_rounds = 4]}}}
ValidVariants == {g \in Variants : Rules!GraphIssues(g) = {}}

\* A graph with its defaults filled in.
Normal(g) ==
  <<g.version, g.graph_id, Rules!Whole(Rules!Order.metadata, g.metadata),
    [s \in Rules!ListSections |->
       [i \in DOMAIN g[s] |-> Rules!CanonicalRow(s, g[s][i])]],
    Rules!Field(g.proposals, "policy"),
    {Rules!Whole(Rules!Order.feedback_intake, row) :
       row \in g.feedback_intake}>>

\* A graph that validates is read back as it was written.
ASSUME GraphsAreReadBack ==
  \A g \in ValidVariants :
    LET read == Rules!Parsed(Rules!Encoded(g))
    IN  ~read.bad /\ Normal(read.graph) = Normal(g)

\* No line of a file is without effect: a file with a line less, or with a
\* line written twice, does not validate or is another graph.  Only the line
\* `checks:' may be missing, as deep items of a gate are its checks anyway.
ASSUME GraphLinesCount ==
  \A g \in ValidVariants :
    LET lines == Rules!Encoded(g)
        counts == {i \in DOMAIN lines : lines[i].key # "checks"}
        changed == {Rules!RemoveAt(lines, i) : i \in counts} \cup
                   {Rules!InsertAt(lines, i, lines[i]) : i \in DOMAIN lines}
    IN  \A file \in changed :
          ~Rules!Passes(file) \/ Normal(Rules!Graph(file)) # Normal(g)

\* The search finds a cycle exactly if there is one, and what it finds is
\* one, whatever the edges between three phases are.
Three == <<"ask", "build", "check">>
Nine == [i \in 1 .. 9 |-> [from |-> Three[((i - 1) \div 3) + 1],
                           to   |-> Three[((i - 1) % 3) + 1]]]
ASSUME CyclesAreFound ==
  \A edges \in SUBSET Rules!ToSet(Nine) :
    LET g == [Sample EXCEPT
                !.phases = [i \in DOMAIN Three |->
                              [id |-> Three[i], required |-> TRUE]],
                !.edges = SelectSeq(Nine, LAMBDA e : e \in edges)]
        next == Rules!Successors(g)
        path == Rules!GraphCycle(g)
    IN  IF Rules!IsCyclic(DOMAIN next, next) THEN Rules!IsCycle(path, next)
                                       ELSE path = <<>>

\* Feedback rounds validate exactly if they are the canonical ones.
ASSUME OneFeedbackIntakeIsValid ==
  \A min \in 0 .. 2, max \in {0, 1, 3, 5}, missing \in DOMAIN Rules!Canonical,
     required \in {<<>>, <<1>>, <<1, 2>>}, some \in BOOLEAN,
     optional \in {<<2, 3>>, <<2, 3, 4, 5>>, <<1, 2, 3, 4, 5>>, <<2, 2, 6>>} :
    LET row == [Rules!Canonical EXCEPT
                  !.min_rounds = min, !.max_rounds = max,
                  !.required_rounds = required, !.optional_rounds = optional]
        kept == DOMAIN row \ IF some THEN {missing} ELSE {}
    IN  (Rules!FeedbackIssues([k \in kept |-> row[k]]) = {}) =
          (~some /\ row = Rules!Canonical)

\* A change that raises no flag only adds phases, reorders, or concerns
\* titles, owners, evidence and the proposals policy.
Unflagged(from, to) ==
  /\ Rules!Keys("phases", from.phases) \subseteq Rules!Keys("phases", to.phases)
  /\ \A s \in Rules!ListSections \ {"phases"} :
       {Rules!CanonicalRow(s, row) : row \in Rules!ToSet(from[s])} =
       {Rules!CanonicalRow(s, row) : row \in Rules!ToSet(to[s])}
  /\ \A i \in {1, 2, 3, 6} : Normal(from)[i] = Normal(to)[i]
ASSUME RiskIsFlagged ==
  \A g, h \in ValidVariants :
    /\ ~Rules!RequiresApproval(g, h) => Unflagged(g, h)
    /\ \A s \in Rules!ListSections :
         Rules!Changes(s, g, h).added = Rules!Changes(s, h, g).removed

\* What this instance takes for granted: a candidate that validates may be
\* proposed and then applied over any graph, missing, valid or not, no other
\* may; and what is applied validates and differs in its stamp alone.
Files == {Rules!Encoded(g) : g \in Variants}
ASSUME ProposalsCanBeApplied ==
  \A base \in Files \cup {NoFile}, new \in Files :
    LET kind == Rules!ProposalKind(base, new)
    IN  /\ (kind # "refused") = Rules!Passes(new)
        /\ (kind # "refused") = Rules!MayApply(kind, base, new)
ASSUME EveryKindIsProposed ==
  LET sample == Rules!Encoded(Sample)
      stale  == Rules!Encoded([Sample EXCEPT !.feedback_intake =
                                 {Rules!Stale @@ Rules!Canonical}])
  IN  {Rules!ProposalKind(base, new) :
         base \in {NoFile, sample, stale}, new \in {sample, stale}}
        = {"refused", "change", "migration", "replacement"}
ASSUME AppliedIsTheCandidate ==
  \A new \in {Rules!Encoded(g) : g \in ValidVariants} :
    LET file == Rules!Applied(new, "evt")
        read == Rules!Graph(file)
    IN  /\ Rules!Passes(file)
        /\ read.metadata["last_applied_event_id"] = "evt"
        /\ Rules!RiskFlags(Rules!Graph(new), read) =
             {"metadata_changed"}
=============================================================================
