--------------------------- MODULE MCGateEvidence ---------------------------
(***************************************************************************)
(* Instances of GateEvidence for TLC, with the three ways a gate may       *)
(* depend on artifact init: intake fails before it, review evaluates more  *)
(* after it, and the final gate asks for backend only after it.  What the  *)
(* built-in gates ask of artifacts is checked on the rules themselves.     *)
(***************************************************************************)
EXTENDS GateEvidence, TLC

CONSTANTS intake, review, backend, intake_md, review_md, redteam, bridge,
          good, pending, Blank

AskedAlways ==
  [g \in AnyGate |-> IF g = intake THEN {intake_md} \cap Artifact
                     ELSE IF g = review THEN {review_md} ELSE {}]
AskedIfRequired ==
  [g \in AnyGate |-> IF g = review THEN {redteam}
                     ELSE IF g = backend THEN {bridge} ELSE {}]
Pending == [a \in Artifact |-> pending]

\* People append whatever they like, such as the pass of a gate.
ByHand == {Line("user", g, "pass") : g \in Gate \ {intake}}

-----------------------------------------------------------------------------
(* The rules of the built-in gates *)

Rules == INSTANCE GateRules WITH Placeholder <- "placeholder"

\* Runs as run create leaves them, and their artifacts as artifact init does.
Created ==
  {[work_path |-> IF a THEN "A_development_execution" ELSE "B_discovery_shaping",
    sot_policy |-> IF a THEN "existing_sot_basis" ELSE "minimal_sot_before_code",
    work_mode |-> w, urgency |-> "normal", execution_mode |-> e, task |-> t,
    task_id |-> IF t = {} /\ e # "research" THEN Blank ELSE "task",
    backend_evidence |-> b, redteam |-> r, required_artifacts |-> {}] :
     a \in BOOLEAN, w \in {"standard", "light"},
     e \in DOMAIN Rules!ByExecutionMode,
     t \in {{}, {"design-evidence.json"}},
     b \in {"required", "not_applicable"}, r \in BOOLEAN}
Prepared(m) == [m EXCEPT !.required_artifacts = Rules!Manifest(m)]
Runs == {Prepared(m) : m \in Created}
Baselines == Rules!InitArtifacts([a \in {} |-> <<>>])

\* Everything a gate may ask of an artifact, written into one.
Values(m) ==
  [work_path |-> m.work_path, work_mode |-> m.work_mode,
   sot_policy |-> m.sot_policy, urgency |-> m.urgency,
   light_mode_reason |-> "small", verdict |-> "fail", changed_docs |-> "docs",
   observed |-> "codex", through |-> "cli"]
Keys == <<"work_path", "work_mode", "sot_policy", "urgency",
          "light_mode_reason", "verdict", "changed_docs", "observed",
          "through">>
Object(a) ==
  [version |-> "1", status |-> "supported", source_ledger_ref |-> "ledger",
   caveats |-> "none", backend_type |-> "codex", adapter_type |-> "cli",
   session_id |-> "session", state |-> "closed", lifecycle_class |-> "short",
   open_pendings |-> 0]
Finished(m) ==
  [a \in Rules!Canonical |->
     IF a \in Rules!Json THEN Object(a)
     ELSE Rules!SetStatus(
            Baselines[a] \o [i \in DOMAIN Keys |->
                               Rules!Entry(Keys[i], Values(m)[Keys[i]])],
            "complete", Blank)]
Without(files, a) == [b \in DOMAIN files \ {a} |-> files[b]]

\* Whatever artifact init leaves satisfies no gate, only the patch is taken
\* for one; a gate that passes all the same evaluates no artifact.
ASSUME BaselinesAreNoEvidence ==
  \A m \in Runs : \A gate \in Rules!FinalRequires(m) :
    /\ Rules!Passing(Baselines, m, gate) \subseteq {"diff.patch"}
    /\ Rules!Passes(Baselines, m, gate) =>
         gate = "roadmap" /\ Rules!Asked(gate, m) = {}

\* A gate is as good as its artifacts, as GateEvidence has it: it passes when
\* all that is required is written, no longer if one of its artifacts is
\* gone, pending or not applicable (but the roadmap), and not a bit of any
\* other artifact counts.
Undone(m, files, a) ==
  {Without(files, a)} \cup
  (IF a = "diff.patch" THEN {}
   ELSE IF a \in Rules!Json THEN {[files EXCEPT ![a] = Baselines[a]]}
   ELSE {[files EXCEPT ![a] = Rules!SetStatus(@, "pending", Blank)],
         [files EXCEPT ![a] = Rules!SetStatus(@, "not_applicable", Blank)]})
ASSUME EveryArtifactCounts ==
  \A m \in Runs : \A gate \in Rules!FinalRequires(m) :
    LET files == Finished(m)
    IN  /\ Rules!Passes(files, m, gate)
        /\ Rules!Passes([a \in Rules!Asked(gate, m) |-> files[a]], m, gate)
        /\ \A a \in Rules!Asked(gate, m) :
             \A worse \in Undone(m, files, a) : ~Rules!Passes(worse, m, gate)

\* artifact set-status is read back whatever lines the artifact has, headings
\* with a colon among them, and leaves every other field alone.
Lines == {Rules!Text(h, k, v) : h \in BOOLEAN, k \in {Blank, "status", "reason",
                                                      "verdict"},
                                v \in {"complete", "none"}}
ASSUME SetStatusIsReadBack ==
  \A lines \in UNION {[1 .. n -> Lines] : n \in 0 .. 3},
     status \in {"pending", "complete", "not_applicable"} :
    LET set == Rules!SetStatus(lines, status, "because")
        kept == {"verdict"} \cup
                (IF status = "not_applicable" THEN {} ELSE {"reason"})
    IN  /\ Rules!FieldOf(set, "status") = status
        /\ status = "not_applicable" => Rules!FieldOf(set, "reason") = "because"
        /\ \A k \in kept : Rules!FieldOf(set, k) = Rules!FieldOf(lines, k)
        /\ Rules!SetStatus(set, status, "because") = set

\* artifact init only ever adds to what a gate evaluates, artifacts the run
\* requires from then on, and only for the gates it is modelled for.
ASSUME ArtifactInitAsksForMore ==
  \A m \in Created :
    LET files == Finished(m)
        added(g) == Rules!Asked(g, Prepared(m)) \ Rules!Asked(g, m)
        needed == Rules!FinalRequires(Prepared(m)) \ Rules!FinalRequires(m)
    IN  /\ ~Rules!Passes(files, m, "intake")
        /\ \A g \in Rules!FinalRequires(Prepared(m)) :
             /\ Rules!Asked(g, m) \subseteq Rules!Asked(g, Prepared(m))
             /\ added(g) \subseteq Rules!Manifest(m)
             /\ added(g) # {} => g \in {"implementation", "review", "backend"}
        /\ needed = IF added("backend") = {} THEN {} ELSE {"backend"}

\* Every artifact a run requires exists.  The final gate asks for artifacts
\* the run does not require, unless it writes production code on path A.
ASSUME RequiredArtifactsAreCanonical ==
  \A m \in Runs :
    LET asked == UNION {Rules!Asked(g, m) : g \in Rules!FinalRequires(m)}
    IN  /\ m.required_artifacts \subseteq Rules!Canonical
        /\ (asked \subseteq m.required_artifacts) =
             /\ m.work_path = "A_development_execution"
             /\ m.execution_mode \in {"production_write", "readiness_hardening"}
=============================================================================
