---------------------------- MODULE GateEvidence ----------------------------
(***************************************************************************)
(* The gates of one run (internal/project/gate.go, gate_report.go and      *)
(* impl_gate.go): a gate check evaluates artifacts, and what it found is   *)
(* stored in four places one after the other (the log, the gate report     *)
(* with fingerprints of the evidence, run-metadata.json, status.json).     *)
(* The final gate trusts the stored passes if the evidence still has the   *)
(* fingerprints.  Artifacts change through the helper, and, being files in *)
(* the checkout, directly.  What a gate evaluates depends on the artifacts *)
(* the run requires: none at first, its manifest after artifact init.      *)
(* Commands run one at a time (OneWriter of HelperState); one may stop     *)
(* before any of its writes.                                               *)
(***************************************************************************)
EXTENDS Naturals, Sequences

CONSTANTS
  Artifact,         \* the canonical artifact files
  RunManifest,      \* those that artifact init makes the run require
  Baseline,         \* artifact -> what artifact init writes into it
  Gate,             \* the gates the final gate may require
  Conditional,      \* those it requires if any of IfRequired is required
  NeedsManifest,    \* those that fail before artifact init
  Final,            \* the final gate
  Always,           \* gate -> the artifacts it always evaluates
  IfRequired,       \* gate -> those it evaluates if the run requires them
  Content,          \* what an artifact file may hold
  Complete,         \* the contents that satisfy a gate's rules
  Missing, Empty,   \* the file does not exist, or has no bytes
  HandLine,         \* the events people append with event append
  MaxEventId        \* the last event id: evt-999999 in the code

AnyGate == Gate \cup {Final}
NoGate == "none"

\* An event: of a gate and its status, or of something else.
EventStatus == {"pass", "fail", "init", "recorded"}
Line(by, g, status) == [by |-> by, gate |-> g, status |-> status]

\* Gates are told apart from each other and from "none", a missing or an
\* empty file passes no gate, and people append events under their own name.
ASSUME GateEvidenceAssumption ==
  /\ Final \notin Gate
  /\ NoGate \notin AnyGate
  /\ RunManifest \subseteq Artifact
  /\ Conditional \subseteq Gate /\ NeedsManifest \subseteq Gate
  /\ Always \in [AnyGate -> SUBSET Artifact]
  /\ IfRequired \in [AnyGate -> SUBSET Artifact]
  /\ Complete \subseteq Content
  /\ {Missing, Empty} \subseteq Content \ Complete
  /\ Baseline \in [Artifact -> Content \ {Missing}]
  /\ HandLine \subseteq [by : {"user"}, gate : AnyGate \cup {NoGate},
                          status : EventStatus]
  /\ MaxEventId \in Nat \ {0}

VARIABLES
  file,       \* artifact -> its content
  required,   \* required_artifacts of run-metadata.json
  report,     \* gate -> gate-reports/<gate>.json
  gateState,  \* gate -> its entry in the gate_state of run-metadata.json
  summary,    \* gate -> its entry in the gate_summary of status.json
  last,       \* last_event_id in status.json
  log,        \* events.jsonl: by whom, the gate and status of each event
  op,         \* the command in flight, with all it read
  step        \* its next file write, or "idle"

vars == <<file, required, report, gateState, summary, last, log, op, step>>

(***************************************************************************)
(* A gate result: the event that reports it, and its status.  A report     *)
(* adds the fingerprints of the artifacts that passed: the content stands  *)
(* for its SHA-256.  "edited" remembers, for the properties only, that an  *)
(* artifact changed between the evaluation and the fingerprints.           *)
(***************************************************************************)
Result(id, status) == [event |-> id, status |-> status]
Unchecked == Result(0, "unchecked")
NoPrints == [a \in {} |-> Missing]
Report(result, prints, edited) ==
  [result |-> result, prints |-> prints, edited |-> edited]

\* A command in flight: a gate check (result, the artifacts that passed), an
\* artifact write (the content to be stored), artifact init (the files it is
\* to write and has not yet, with what it saw there) or event append.
NoOp == [kind |-> "none"]
CheckOp(g, result, passed) ==
  [kind |-> "check", gate |-> g, result |-> result, passed |-> passed,
   edited |-> FALSE]
WriteOp(a, c) == [kind |-> "write", artifact |-> a, content |-> c]
InitOp(planned) == [kind |-> "init", planned |-> planned]
EventOp(line) == [kind |-> "event", line |-> line]

Init ==
  /\ file      = [a \in Artifact |-> Missing]
  /\ required  = {}
  /\ report    = [g \in AnyGate |-> Report(Unchecked, NoPrints, FALSE)]
  /\ gateState = [g \in AnyGate |-> Unchecked]
  /\ summary   = [g \in AnyGate |-> Unchecked]
  /\ last      = 1
  /\ log       = <<Line("helper", NoGate, "recorded")>>
  /\ op        = NoOp
  /\ step      = "idle"

Coherent == Len(log) = last

\* (Mutant of Begin: one event too many.)
BeginOnceMore(o) ==
  /\ step = "idle" /\ Coherent /\ last <= MaxEventId
  /\ op' = o /\ step' = "append"
  /\ UNCHANGED <<file, required, report, gateState, summary, last, log>>

\* A command that passed its checks goes on to the append.
Begin(o) ==
  /\ step = "idle"
  /\ Coherent
  /\ last < MaxEventId
  /\ op' = o
  /\ step' = "append"
  /\ UNCHANGED <<file, required, report, gateState, summary, last, log>>

\* (Mutant of Evidence: what the run requires is not looked at.)
EvidenceAnyway(g) == Always[g]

\* The artifacts a gate evaluates.
Evidence(g) == Always[g] \cup (IfRequired[g] \cap required)

\* Those of them that pass.
Passing(g) == {a \in Evidence(g) : file[a] \in Complete}

\* The gates the final gate asks for.
RequiredGates ==
  {g \in Gate : g \in Conditional => IfRequired[g] \cap required # {}}

\* (Mutant of RequiredGateHolds: the fingerprints are not compared.)
StoredPass(g) ==
  gateState[g].status = "pass" /\ report[g].result.status = "pass"

\* checkRequiredGatePass, then checkRequiredGateFreshness: a stored pass, a
\* report of a pass, and every artifact the report fingerprints unchanged;
\* what the gate would evaluate by now is not asked.
RequiredGateHolds(g) ==
  /\ gateState[g].status = "pass"
  /\ report[g].result.status = "pass"
  /\ \A a \in DOMAIN report[g].prints : file[a] = report[g].prints[a]

\* gateResultFromChecks
Evaluate(g) ==
  IF /\ Passing(g) = Evidence(g)
     /\ g \in NeedsManifest => required = RunManifest
     /\ g = Final => \A h \in RequiredGates : RequiredGateHolds(h)
  THEN "pass" ELSE "fail"

\* (Mutant of CheckGate: the result carries the id of the event before.)
CheckGateWithLastId(g) ==
  Begin(CheckOp(g, Result(Len(log), Evaluate(g)), Passing(g)))

\* gate check <run> <gate>: evaluates, then allocates the event id.
CheckGate(g) ==
  Begin(CheckOp(g, Result(Len(log) + 1, Evaluate(g)), Passing(g)))

\* artifact write, append and set-status
MutateArtifact(a) ==
  \E c \in Content \ {Missing} : Begin(WriteOp(a, c))

\* artifact init: plans to write the artifacts that have nothing in them.
InitArtifacts ==
  Begin(InitOp([a \in {b \in Artifact : file[b] \in {Missing, Empty}}
                  |-> file[a]]))

\* event append: any type and payload, that of a gate check included.
AppendEvent == \E line \in HandLine : Begin(EventOp(line))

\* A person or another program changes or deletes the file itself.
EditArtifact(a) ==
  /\ \E c \in Content \ {file[a]} : file' = [file EXCEPT ![a] = c]
  /\ op' = IF op.kind = "check" THEN [op EXCEPT !.edited = TRUE] ELSE op
  /\ UNCHANGED <<required, report, gateState, summary, last, log, step>>

-----------------------------------------------------------------------------
LineOf(o) ==
  CASE o.kind = "check" -> Line("helper", o.gate, o.result.status)
    [] o.kind = "write" -> Line("helper", NoGate, "recorded")
    [] o.kind = "init"  -> Line("helper", NoGate, "init")
    [] o.kind = "event" -> o.line

FirstWrite == [check |-> "report", write |-> "artifact", init |-> "baselines",
               event |-> "status"]

AppendLine ==
  /\ step = "append"
  /\ log' = Append(log, LineOf(op))
  /\ step' = FirstWrite[op.kind]
  /\ UNCHANGED <<file, required, report, gateState, summary, last, op>>

WriteArtifact ==
  /\ step = "artifact"
  /\ file' = [file EXCEPT ![op.artifact] = op.content]
  /\ step' = "status"
  /\ UNCHANGED <<required, report, gateState, summary, last, log, op>>

\* The next file of artifact init.  One that was missing is created, which
\* fails if it is there by now; an empty one is replaced whatever it holds.
WriteBaseline(a) ==
  /\ step = "baselines"
  /\ a \in DOMAIN op.planned
  /\ op.planned[a] = Missing => file[a] = Missing
  /\ file' = [file EXCEPT ![a] = Baseline[a]]
  /\ op' = InitOp([b \in DOMAIN op.planned \ {a} |-> op.planned[b]])
  /\ UNCHANGED <<required, report, gateState, summary, last, log, step>>

\* All files are there: the metadata that requires them.
WriteRequired ==
  /\ step = "baselines"
  /\ DOMAIN op.planned = {}
  /\ required' = RunManifest
  /\ step' = "status"
  /\ UNCHANGED <<file, report, gateState, summary, last, log, op>>

\* writeGateReport fingerprints the evidence as it is by now, and cannot
\* when a file it found is gone.
WriteReport ==
  /\ step = "report"
  /\ \A a \in op.passed : file[a] # Missing
  /\ report' = [report EXCEPT ![op.gate] =
                  Report(op.result, [a \in op.passed |-> file[a]], op.edited)]
  /\ step' = "metadata"
  /\ UNCHANGED <<file, required, gateState, summary, last, log, op>>

WriteMetadata ==
  /\ step = "metadata"
  /\ gateState' = [gateState EXCEPT ![op.gate] = op.result]
  /\ step' = "status"
  /\ UNCHANGED <<file, required, report, summary, last, log, op>>

ReplaceStatus ==
  /\ step = "status"
  /\ summary' = IF op.kind = "check"
                THEN [summary EXCEPT ![op.gate] = op.result] ELSE summary
  /\ last' = Len(log)
  /\ step' = "idle"
  /\ op' = NoOp
  /\ UNCHANGED <<file, required, report, gateState, log>>

\* The next write fails, or the process is killed before it.
Stop ==
  /\ step # "idle"
  /\ step' = "idle"
  /\ op' = NoOp
  /\ UNCHANGED <<file, required, report, gateState, summary, last, log>>

Next ==
  \/ \E g \in AnyGate : CheckGate(g)
  \/ \E a \in Artifact :
       MutateArtifact(a) \/ EditArtifact(a) \/ WriteBaseline(a)
  \/ InitArtifacts \/ AppendEvent
  \/ AppendLine \/ WriteArtifact \/ WriteRequired \/ WriteReport
  \/ WriteMetadata \/ ReplaceStatus \/ Stop

Spec == Init /\ [][Next]_vars

-----------------------------------------------------------------------------
(* Properties *)

ResultType ==
  [event : 0 .. MaxEventId, status : {"pass", "fail", "unchecked"}]
Prints == UNION {[S -> Content] : S \in SUBSET Artifact}
OpType ==
  {NoOp}
    \cup [kind : {"check"}, gate : AnyGate, result : ResultType,
          passed : SUBSET Artifact, edited : BOOLEAN]
    \cup [kind : {"write"}, artifact : Artifact, content : Content]
    \cup [kind : {"init"}, planned : Prints]
    \cup [kind : {"event"}, line : HandLine]

\* Every variable stays within its type.
TypeOK ==
  /\ file \in [Artifact -> Content]
  /\ required \in SUBSET Artifact
  /\ report \in [AnyGate -> [result : ResultType, prints : Prints,
                           edited : BOOLEAN]]
  /\ gateState \in [AnyGate -> ResultType]
  /\ summary \in [AnyGate -> ResultType]
  /\ last \in 1 .. MaxEventId
  /\ log \in Seq([by : {"helper", "user"}, gate : AnyGate \cup {NoGate},
                  status : EventStatus])
  /\ op \in OpType
  /\ step \in {"idle", "append", "report", "artifact", "baselines",
              "metadata", "status"}

\* What the run required, and gate g evaluated, in the command of event n:
\* the manifest, once an artifact init is in the log before it.
RequiredAt(n) ==
  IF \E i \in 1 .. Len(log) : i < n /\ log[i] = Line("helper", NoGate, "init")
  THEN RunManifest ELSE {}
EvidenceAt(g, n) == Always[g] \cup (IfRequired[g] \cap RequiredAt(n))

\* A passing report fingerprints exactly what the gate evaluated then, and
\* only contents that passed, unless somebody edited artifacts between the
\* evaluation and the fingerprints.
EvidenceWasEvaluated ==
  \A g \in AnyGate :
     report[g].result.status = "pass" /\ ~report[g].edited =>
       /\ DOMAIN report[g].prints = EvidenceAt(g, report[g].result.event)
       /\ \A a \in DOMAIN report[g].prints : report[g].prints[a] \in Complete

FinalPasses ==
  /\ step = "idle" /\ op'.kind = "check"
  /\ op'.gate = Final /\ op'.result.status = "pass"
Satisfied(artifacts) == \A a \in artifacts : file[a] \in Complete

\* The final gate passes only when every artifact that a required gate had
\* to evaluate when it was checked satisfies that gate's rules still, however
\* long ago that was and whatever was rewritten, initialised, rechecked or
\* interrupted since; only a report with an edit before its fingerprints may
\* deceive it.  Its own evidence is that of the run as it is now.  Of what a
\* gate would evaluate only since a later artifact init it promises nothing:
\* that may be pending, see the README.
FinalPassIsSound ==
  [][FinalPasses =>
       /\ Satisfied(Evidence(Final))
       /\ \A g \in RequiredGates :
            \/ Satisfied(EvidenceAt(g, report[g].result.event))
            \/ report[g].edited]_op

\* The last check of gate g among the first n events.
Reports(line, g) == line.by = "helper" /\ line.gate = g
ByLog(g, n) ==
  LET at == {i \in 1 .. n : Reports(log[i], g)}
  IN  IF at = {} THEN Unchecked
      ELSE LET i == CHOOSE i \in at : \A j \in at : j <= i
           IN  Result(i, log[i].status)

\* The report, the run metadata and status.json hold the outcome of the
\* latest check the helper recorded of each gate; only the gate of an event
\* status.json has not caught up with may lag, and then in write order.
GateStateExplained ==
  \A g \in AnyGate :
     LET now == ByLog(g, Len(log))
         was == ByLog(g, Len(log) - 1)
     IN  IF Coherent \/ ~Reports(log[Len(log)], g)
         THEN report[g].result = now /\ gateState[g] = now /\ summary[g] = now
         ELSE /\ summary[g] = was
              /\ <<report[g].result, gateState[g]>>
                    \in {<<was, was>>, <<now, was>>, <<now, now>>}
=============================================================================
