----------------------------- MODULE GateRules -----------------------------
(***************************************************************************)
(* What the built-in gates ask of a run and its artifacts (artifact.go,    *)
(* artifact_validate.go, gate.go, impl_gate.go, backend_gate.go).  files   *)
(* has the artifacts that are regular files and not empty.  A Markdown one *)
(* is a sequence of lines, a JSON one a function from its fields; a field  *)
(* of the wrong type counts as missing.  Letter case is left out.          *)
(***************************************************************************)
EXTENDS Naturals, SequencesExt

CONSTANTS
  Blank,       \* the empty string
  Placeholder  \* the sentence artifact init leaves in an artifact

-----------------------------------------------------------------------------
(* Artifacts *)

\* `key: value', or a text if the key is Blank, and whether it is a heading.
Text(heading, key, value) ==
  [heading |-> heading, key |-> key, value |-> value]
Entry(key, value) == Text(FALSE, key, value)

\* parseMarkdownFields: the last line with a key counts.
FieldOf(lines, key) ==
  LET given == SelectSeq(lines, LAMBDA l : ~l.heading /\ l.key = key)
  IN  IF given = <<>> THEN Blank ELSE Last(given).value
Mentions(lines, word) == \E l \in ToSet(lines) : word \in {l.key, l.value}

\* markdownArtifactContentWithStatus: every line with the key is replaced,
\* headings too; if there is none the line comes first.
SetStatus(lines, status, reason) ==
  LET new == IF status = "not_applicable"
             THEN <<Entry("status", status), Entry("reason", reason)>>
             ELSE <<Entry("status", status)>>
      replaced(l) == SelectSeq(new, LAMBDA n : n.key = l.key) \o <<l>>
  IN  SelectSeq(new, LAMBDA n : \A l \in ToSet(lines) : l.key # n.key)
        \o [i \in DOMAIN lines |-> Head(replaced(lines[i]))]

Backend == {"selected-cli.json", "capability-check.md",
            "bridge-session-snapshot.json", "bridge-events.md"}
Redteam == {"redteam/plan-review.md", "redteam/impl-review.md",
            "redteam/test-review.md", "redteam/qa-review.md",
            "redteam/shaping-review.md", "redteam/final-gate-review.md"}
Discovery ==
  {"discovery/existing-docs-review.md", "discovery/problem-framing.md",
   "discovery/research-notes.md", "discovery/strategy-options.md",
   "discovery/selected-strategy.md", "discovery/task-breakdown.md",
   "discovery/implementation-readiness.md",
   "discovery/handoff-to-development.md"}
Safety == {"intake-classification.md", "acceptance-criteria.md",
           "test-log.md", "verification.md", "docs-update.md",
           "final-report.md"}
Schemas == {"token-economy-evidence.json", "multi-agent-review/status.json",
            "policy-promotion-evidence.json", "design-evidence.json"}
Json == Schemas \cup {"selected-cli.json", "bridge-session-snapshot.json"}
Canonical ==
  Backend \cup Redteam \cup Discovery \cup Safety \cup Schemas \cup
  {"sot-basis.md", "task-brief.md", "plan.md", "checklist.md", "prompt.md",
   "context-pack.md", "cli-output.md", "diff.patch", "impl-log.md",
   "review.md", "sot-update.md", "roadmap-update.md", "improvement-note.md",
   "feedback-request.md", "feedback-1.md", "feedback-triage-1.md",
   "handle-feedback-1.md"}

\* artifactBaselineContent, and artifact init: what is there is kept.
BaselineOf(a) ==
  IF a \in Json
  THEN [version |-> "0.1", status |-> "pending", run_id |-> "run",
        artifact |-> a]
  ELSE <<Text(TRUE, Blank, a)>> \o
       (IF a = "diff.patch" THEN <<>>
        ELSE <<Entry("status", "pending"), Entry("run", "run")>>) \o
       <<Entry(Blank, Placeholder)>>
InitArtifacts(files) ==
  [a \in Canonical |-> IF a \in DOMAIN files THEN files[a] ELSE BaselineOf(a)]

-----------------------------------------------------------------------------
(* ArtifactManifest: the artifacts a run requires *)

ByWorkPath ==
  [A_development_execution |->
     {"sot-basis.md", "roadmap-update.md", "plan.md", "checklist.md"},
   B_discovery_shaping |->
     Discovery \cup {"sot-update.md", "roadmap-update.md"}]
ByExecutionMode ==
  LET write == {"diff.patch", "impl-log.md", "review.md",
                "redteam/impl-review.md", "redteam/test-review.md",
                "redteam/final-gate-review.md"}
  IN  [production_write |-> write, readiness_hardening |-> write,
       adapter_qa |-> Backend \cup {"cli-output.md", "redteam/qa-review.md"},
       research |-> {"discovery/research-notes.md",
                     "discovery/strategy-options.md",
                     "discovery/selected-strategy.md"},
       docs_only |-> {"sot-update.md", "roadmap-update.md"},
       verification |-> {"review.md"}]

\* task: which of the schema-owned evidence files its task asks for.
Manifest(m) ==
  Safety \cup m.task \cup ByWorkPath[m.work_path]
  \cup ByExecutionMode[m.execution_mode]
  \cup (IF m.work_mode = "standard"
        THEN {"task-brief.md", "prompt.md", "context-pack.md"} ELSE {})
  \cup (IF m.backend_evidence = "required" THEN Backend ELSE {})
  \cup (IF m.redteam THEN {"redteam/plan-review.md", "redteam/shaping-review.md",
                           "redteam/final-gate-review.md"} ELSE {})

-----------------------------------------------------------------------------
(* The gates *)

BackendRequired(m) ==
  \/ m.backend_evidence = "required"
  \/ Backend \cap m.required_artifacts # {}

\* The artifacts a gate evaluates.
Asked(gate, m) ==
  CASE gate = "intake" -> {"intake-classification.md"}
    [] gate = "sot" -> IF m.work_path = "A_development_execution"
                       THEN {"sot-basis.md"} ELSE {"sot-update.md"}
    [] gate = "roadmap" -> IF m.task_id # Blank THEN {}
                           ELSE {"roadmap-update.md"}
    [] gate = "plan" -> {"acceptance-criteria.md", "plan.md", "checklist.md"}
    [] gate = "backend" -> IF BackendRequired(m) THEN Backend ELSE {}
    [] gate = "implementation" ->
         {"diff.patch", "impl-log.md"} \cup
         ({"cli-output.md"} \cap m.required_artifacts)
    [] gate = "review" -> {"review.md"} \cup (Redteam \cap m.required_artifacts)
    [] gate = "verification" -> {"test-log.md", "verification.md"}
    [] gate = "docs" -> {"docs-update.md"}

\* What a gate asks of the metadata of the run.
MetadataHolds(gate, m) ==
  /\ gate = "intake" =>
       /\ m.required_artifacts = Manifest(m)
       /\ (m.work_path = "A_development_execution")
            = (m.sot_policy = "existing_sot_basis")
       /\ Safety \subseteq m.required_artifacts
  /\ gate = "backend" /\ BackendRequired(m) =>
       Backend \subseteq m.required_artifacts

\* validateMarkdownGateArtifact: only the roadmap may be not applicable.
MarkdownHolds(a, lines) ==
  \/ FieldOf(lines, "status") = "complete"
  \/ /\ a = "roadmap-update.md"
     /\ FieldOf(lines, "status") = "not_applicable"
     /\ FieldOf(lines, "reason") # Blank

IntakeHolds(m, lines) ==
  /\ \A key \in {"work_path", "work_mode", "sot_policy", "urgency"} :
       FieldOf(lines, key) = m[key]
  /\ m.work_mode = "light" => FieldOf(lines, "light_mode_reason") # Blank

\* hasMarkdownEvidenceBody
HasBody(lines) ==
  \E l \in ToSet(lines) : /\ ~l.heading
                          /\ l.key \notin {"status", "run", "reason"}
                          /\ l.value # Placeholder

Has(object, fields) ==
  fields \subseteq DOMAIN object /\ \A f \in fields : object[f] # Blank
Who == {"backend_type", "adapter_type"}

\* The backend the run selected, for the artifacts that have to name it.
Identity(files, f) ==
  IF "selected-cli.json" \in DOMAIN files /\ Has(files["selected-cli.json"], {f})
  THEN files["selected-cli.json"][f] ELSE Blank

SelectedHolds(object) ==
  /\ Has(object, {"version", "status", "source_ledger_ref", "caveats"} \cup Who)
  /\ object.status \in {"supported", "degraded"}
SnapshotHolds(files, object) ==
  /\ Has(object, {"session_id", "state", "lifecycle_class",
                  "open_pendings"} \cup Who)
  /\ \A f \in Who : object[f] = Identity(files, f)
  /\ object.open_pendings = 0

CapabilityHolds(files, lines) ==
  \A f \in Who : /\ Identity(files, f) # Blank
                 /\ Mentions(lines, Identity(files, f))

ArtifactHolds(files, m, a) ==
  CASE a = "diff.patch" -> TRUE  \* whatever is in it
    [] a = "selected-cli.json" -> SelectedHolds(files[a])
    [] a = "bridge-session-snapshot.json" -> SnapshotHolds(files, files[a])
    [] OTHER ->
         /\ MarkdownHolds(a, files[a])
         /\ a = "intake-classification.md" => IntakeHolds(m, files[a])
         /\ a = "verification.md" =>
              FieldOf(files[a], "verdict") \in {"pass", "fail"}
         /\ a = "docs-update.md" =>
              \E key \in {"changed_docs", "no_change_reason"} :
                FieldOf(files[a], key) # Blank
         /\ a = "capability-check.md" => CapabilityHolds(files, files[a])
         /\ a = "bridge-events.md" => HasBody(files[a])

Passing(files, m, gate) ==
  {a \in Asked(gate, m) \cap DOMAIN files : ArtifactHolds(files, m, a)}
Passes(files, m, gate) ==
  MetadataHolds(gate, m) /\ Passing(files, m, gate) = Asked(gate, m)

\* checkFinalGate: the built-in gates that have to have passed (those of
\* Schemas and of the workflow graph come on top).
FinalRequires(m) ==
  {"intake", "sot", "roadmap", "plan", "implementation", "review",
   "verification", "docs"} \cup (IF BackendRequired(m) THEN {"backend"} ELSE {})
=============================================================================
