------------------------- MODULE GateEvidenceProofs -------------------------
(***************************************************************************)
(* Proofs about GateEvidence, for any artifacts, gates, contents and any   *)
(* bound on events: types, what a report vouches for, what a final pass    *)
(* means, that the stored outcomes follow the log, and that the log and    *)
(* status.json implement EventLedger.                                      *)
(***************************************************************************)
EXTENDS GateEvidence, SequenceTheorems, TLAPS

LineType == [by : {"helper", "user"}, gate : AnyGate \cup {NoGate},
             status : EventStatus]
ReportType == [result : ResultType, prints : Prints, edited : BOOLEAN]

Writing == {"report", "artifact", "baselines", "metadata", "status"}
Kinds == {"check", "write", "init", "event"}

\* The command in flight, what it evaluated, and the event of its own.
OpInv ==
  /\ step = "idle" => op = NoOp
  /\ step \in {"report", "metadata"} => op.kind = "check"
  /\ step = "artifact" => op.kind = "write"
  /\ step = "baselines" => op.kind = "init"
  /\ step # "idle" => op.kind \in Kinds
  /\ op.kind = "check" =>
       /\ op.result.status \in {"pass", "fail"}
       /\ step = "append" => op.result.event = Len(log) + 1
       /\ step \in Writing => op.result.event = Len(log)

LogInv ==
  /\ last <= Len(log) /\ Len(log) <= MaxEventId
  /\ step = "append" => Len(log) = last /\ last < MaxEventId
  /\ step \in Writing => Len(log) = last + 1

TypeInv == TypeOK /\ LogInv /\ OpInv

LEMMA PassingIsEvidence ==
  ASSUME NEW g \in AnyGate
  PROVE  Passing(g) \subseteq Evidence(g) /\ Evidence(g) \subseteq Artifact
BY GateEvidenceAssumption DEF Passing, Evidence

\* The line of a command: what it is of each kind.
LEMMA LineIsTyped ==
  ASSUME op \in OpType, op.kind \in Kinds,
         op.kind = "check" => op.result.status \in {"pass", "fail"}
  PROVE  /\ LineOf(op) \in LineType
         /\ op.kind = "check" =>
              LineOf(op) = Line("helper", op.gate, op.result.status)
         /\ op.kind = "write" => LineOf(op) = Line("helper", NoGate, "recorded")
         /\ op.kind = "init" => LineOf(op) = Line("helper", NoGate, "init")
         /\ op.kind = "event" => LineOf(op).by = "user"
<1>1. CASE op.kind = "check"
  BY <1>1 DEF LineOf, Line, LineType, OpType, NoOp, EventStatus
<1>2. CASE op.kind = "write"
  BY <1>2 DEF LineOf, Line, LineType, EventStatus
<1>3. CASE op.kind = "init"
  BY <1>3 DEF LineOf, Line, LineType, EventStatus
<1>4. CASE op.kind = "event"
  <2>1. op.line \in HandLine
    BY <1>4 DEF OpType, NoOp
  <2>2. LineOf(op) = op.line
    BY <1>4 DEF LineOf
  <2> QED
    BY <1>4, <2>1, <2>2, GateEvidenceAssumption DEF LineType
<1> QED
  BY <1>1, <1>2, <1>3, <1>4 DEF Kinds

LEMMA BeginKeepsTypes ==
  ASSUME TypeInv, NEW o, Begin(o), o \in OpType,
         o.kind \in Kinds,
         o.kind = "check" => /\ o.result.status \in {"pass", "fail"}
                             /\ o.result.event = Len(log) + 1
  PROVE  TypeInv'
<1>1. TypeOK'
  BY DEF TypeInv, TypeOK, Begin
<1>2. LogInv'
  BY DEF TypeInv, TypeOK, LogInv, Begin, Coherent, Writing
<1>3. OpInv'
  BY DEF Begin, OpInv, Writing, Kinds
<1> QED
  BY <1>1, <1>2, <1>3 DEF TypeInv

LEMMA TypesHold == Spec => []TypeInv
<1>1. Init => TypeInv
  <2> SUFFICES ASSUME Init PROVE TypeInv
    OBVIOUS
  <2>1. NoPrints \in Prints
    BY DEF NoPrints, Prints
  <2>2. Unchecked \in ResultType
    BY GateEvidenceAssumption DEF Unchecked, Result, ResultType
  <2>3. Line("helper", NoGate, "recorded") \in LineType
    BY DEF Line, LineType, EventStatus
  <2>4. file \in [Artifact -> Content]
    BY GateEvidenceAssumption DEF Init
  <2>5. TypeOK
    BY <2>1, <2>2, <2>3, <2>4, GateEvidenceAssumption
       DEF Init, TypeOK, Report, LineType, OpType
  <2>6. LogInv /\ OpInv
    BY GateEvidenceAssumption DEF Init, LogInv, OpInv, NoOp, Writing, Kinds
  <2> QED
    BY <2>5, <2>6 DEF TypeInv
<1>2. TypeInv /\ [Next]_vars => TypeInv'
  <2> SUFFICES ASSUME TypeInv, [Next]_vars PROVE TypeInv'
    OBVIOUS
  <2> USE DEF TypeInv
  <2>0. last \in Nat /\ Len(log) \in Nat /\ log \in Seq(LineType)
        /\ MaxEventId \in Nat
    BY GateEvidenceAssumption DEF TypeOK, LineType
  <2>1. ASSUME NEW g \in AnyGate, CheckGate(g)
        PROVE  TypeInv'
    <3> DEFINE r == Result(Len(log) + 1, Evaluate(g))
               o == CheckOp(g, r, Passing(g))
    <3>1. Begin(o)
      BY <2>1 DEF CheckGate
    <3>2. Len(log) + 1 \in 0 .. MaxEventId
      BY <2>0, <3>1 DEF Begin, Coherent
    <3>3. r \in ResultType /\ r.event = Len(log) + 1
          /\ r.status \in {"pass", "fail"}
      BY <3>2 DEF Result, ResultType, Evaluate
    <3> HIDE DEF r
    <3>4. Passing(g) \in SUBSET Artifact
      BY PassingIsEvidence
    <3>5. o \in OpType /\ o.kind = "check" /\ o.result = r
      BY <3>3, <3>4 DEF CheckOp, OpType
    <3> HIDE DEF o
    <3> QED
      BY <3>1, <3>3, <3>5, BeginKeepsTypes DEF Kinds
  <2>2. ASSUME NEW a \in Artifact, MutateArtifact(a)
        PROVE  TypeInv'
    <3>1. PICK c \in Content : Begin(WriteOp(a, c))
      BY <2>2 DEF MutateArtifact
    <3>2. WriteOp(a, c) \in OpType /\ WriteOp(a, c).kind = "write"
      BY DEF WriteOp, OpType
    <3> QED
      BY <3>1, <3>2, BeginKeepsTypes DEF Kinds
  <2>2a. CASE InitArtifacts
    <3> DEFINE S == {b \in Artifact : file[b] \in {Missing, Empty}}
               f == [a \in S |-> file[a]]
    <3>1. f \in [S -> Content] /\ S \in SUBSET Artifact
      BY DEF TypeOK
    <3>2. Begin(InitOp(f))
      BY <2>2a DEF InitArtifacts
    <3> HIDE DEF f, S
    <3>3. f \in Prints
      BY <3>1 DEF Prints
    <3>4. InitOp(f) \in OpType /\ InitOp(f).kind = "init"
      BY <3>3 DEF InitOp, OpType
    <3> QED
      BY <3>2, <3>4, BeginKeepsTypes DEF Kinds
  <2>2b. CASE AppendEvent
    <3>1. PICK line \in HandLine : Begin(EventOp(line))
      BY <2>2b DEF AppendEvent
    <3>2. EventOp(line) \in OpType /\ EventOp(line).kind = "event"
      BY DEF EventOp, OpType
    <3> QED
      BY <3>1, <3>2, BeginKeepsTypes DEF Kinds
  <2>3. ASSUME NEW a \in Artifact, EditArtifact(a)
        PROVE  TypeInv'
    <3>1. file' \in [Artifact -> Content]
      BY <2>3 DEF EditArtifact, TypeOK
    <3>2. /\ op' \in OpType /\ op'.kind = op.kind
          /\ op.kind = "check" => op'.result = op.result
          /\ op = NoOp => op' = NoOp
      BY <2>3 DEF EditArtifact, TypeOK, OpType, NoOp
    <3>3. TypeOK'
      BY <2>3, <3>1, <3>2 DEF EditArtifact, TypeOK
    <3>4. LogInv' /\ OpInv'
      BY <2>3, <3>2 DEF EditArtifact, LogInv, OpInv
    <3> QED
      BY <3>3, <3>4
  <2>4. CASE AppendLine
    <3>1. /\ log' = Append(log, LineOf(op)) /\ LineOf(op) \in LineType
          /\ step' = FirstWrite[op.kind] /\ op.kind \in Kinds
          /\ step' \in Writing /\ step = "append"
          /\ step' \in {"report", "metadata"} => op.kind = "check"
          /\ step' = "artifact" => op.kind = "write"
          /\ step' = "baselines" => op.kind = "init"
      BY <2>4, LineIsTyped DEF AppendLine, TypeOK, OpInv, FirstWrite, Kinds,
         Writing
    <3>2. log' \in Seq(LineType) /\ Len(log') = Len(log) + 1
      BY <2>0, <3>1
    <3>3. TypeOK'
      BY <2>4, <3>1, <3>2 DEF AppendLine, TypeOK, LineType, Writing
    <3>4. LogInv'
      BY <2>0, <2>4, <3>1, <3>2 DEF AppendLine, LogInv, Writing
    <3>5. OpInv'
      BY <2>4, <3>1, <3>2 DEF AppendLine, OpInv, Writing
    <3> QED
      BY <3>3, <3>4, <3>5
  <2>5. CASE WriteArtifact
    <3>1. file' \in [Artifact -> Content]
      BY <2>5 DEF WriteArtifact, OpInv, TypeOK, OpType, NoOp
    <3>2. TypeOK'
      BY <2>5, <3>1 DEF WriteArtifact, TypeOK
    <3>3. LogInv' /\ OpInv'
      BY <2>5 DEF WriteArtifact, LogInv, OpInv, Writing
    <3> QED
      BY <3>2, <3>3
  <2>5a. ASSUME NEW a \in Artifact, WriteBaseline(a)
         PROVE  TypeInv'
    <3> DEFINE S == DOMAIN op.planned \ {a}
               f == [b \in S |-> op.planned[b]]
    <3>1. PICK D \in SUBSET Artifact : op.planned \in [D -> Content]
      <4>1. op.planned \in Prints
        BY <2>5a DEF WriteBaseline, OpInv, TypeOK, OpType, NoOp
      <4> QED
        BY <4>1 DEF Prints
    <3>2. f \in [S -> Content] /\ S \in SUBSET Artifact
      BY <3>1
    <3>3. op' = InitOp(f)
      BY <2>5a DEF WriteBaseline
    <3>4. f \in Prints
      <4> HIDE DEF f, S
      <4> QED
        BY <3>2 DEF Prints
    <3> HIDE DEF f, S
    <3>5. op' \in OpType /\ op'.kind = "init" /\ op.kind = "init"
      BY <2>5a, <3>3, <3>4 DEF InitOp, OpType, WriteBaseline, OpInv
    <3>6. file' \in [Artifact -> Content]
      BY <2>5a, GateEvidenceAssumption DEF WriteBaseline, TypeOK
    <3>7. TypeOK'
      BY <2>5a, <3>5, <3>6 DEF WriteBaseline, TypeOK
    <3>8. LogInv' /\ OpInv'
      BY <2>5a, <3>5 DEF WriteBaseline, LogInv, OpInv, Writing, Kinds
    <3> QED
      BY <3>7, <3>8
  <2>5b. CASE WriteRequired
    <3>1. TypeOK'
      BY <2>5b, GateEvidenceAssumption DEF WriteRequired, TypeOK
    <3>2. LogInv' /\ OpInv'
      BY <2>5b DEF WriteRequired, LogInv, OpInv, Writing
    <3> QED
      BY <3>1, <3>2
  <2>6. CASE WriteReport
    <3> DEFINE prints == [a \in op.passed |-> file[a]]
    <3>1. /\ op.gate \in AnyGate /\ op.result \in ResultType
          /\ op.passed \in SUBSET Artifact /\ op.edited \in BOOLEAN
      BY <2>6 DEF WriteReport, OpInv, TypeOK, OpType, NoOp
    <3>2. prints \in [op.passed -> Content]
      BY <3>1 DEF TypeOK
    <3>3. prints \in Prints
      BY <3>1, <3>2 DEF Prints
    <3> HIDE DEF prints
    <3>4. Report(op.result, prints, op.edited) \in ReportType
      BY <3>1, <3>3 DEF Report, ReportType
    <3>5. report' = [report EXCEPT ![op.gate] =
                       Report(op.result, prints, op.edited)]
      BY <2>6 DEF WriteReport, prints
    <3>6. report' \in [AnyGate -> ReportType]
      BY <3>4, <3>5 DEF TypeOK, ReportType
    <3>7. TypeOK'
      BY <2>6, <3>6 DEF WriteReport, TypeOK, ReportType
    <3>8. LogInv' /\ OpInv'
      BY <2>6 DEF WriteReport, LogInv, OpInv, Writing
    <3> QED
      BY <3>7, <3>8
  <2>7. CASE WriteMetadata
    <3>1. gateState' \in [AnyGate -> ResultType]
      BY <2>7 DEF WriteMetadata, OpInv, TypeOK, OpType, NoOp
    <3>2. TypeOK'
      BY <2>7, <3>1 DEF WriteMetadata, TypeOK
    <3>3. LogInv' /\ OpInv'
      BY <2>7 DEF WriteMetadata, LogInv, OpInv, Writing
    <3> QED
      BY <3>2, <3>3
  <2>8. CASE ReplaceStatus
    <3>1. summary' \in [AnyGate -> ResultType]
      BY <2>8 DEF ReplaceStatus, OpInv, TypeOK, OpType, NoOp
    <3>2. last' \in 1 .. MaxEventId
      BY <2>0, <2>8 DEF ReplaceStatus, LogInv, TypeOK
    <3>3. TypeOK'
      BY <2>8, <3>1, <3>2 DEF ReplaceStatus, TypeOK, OpType
    <3>4. LogInv' /\ OpInv'
      BY <2>0, <2>8 DEF ReplaceStatus, LogInv, OpInv, Writing, NoOp
    <3> QED
      BY <3>3, <3>4
  <2>9. CASE Stop
    <3>1. TypeOK'
      BY <2>9 DEF Stop, TypeOK, OpType
    <3>2. LogInv' /\ OpInv'
      BY <2>9 DEF Stop, LogInv, OpInv, Writing, NoOp
    <3> QED
      BY <3>1, <3>2
  <2>10. CASE UNCHANGED vars
    BY <2>10 DEF vars, TypeOK, LogInv, OpInv
  <2> QED
    BY <2>1, <2>2, <2>2a, <2>2b, <2>3, <2>4, <2>5, <2>5a, <2>5b, <2>6, <2>7,
       <2>8, <2>9, <2>10 DEF Next
<1> QED
  BY <1>1, <1>2, PTL DEF Spec

\* Every variable stays within its type.
THEOREM TypeCorrect == Spec => []TypeOK
BY TypesHold, PTL DEF TypeInv

-----------------------------------------------------------------------------
(***************************************************************************)
(* What the run requires, by the log.                                      *)
(***************************************************************************)

InitLine == Line("helper", NoGate, "init")

\* RequiredAt, of the log or of the log as it will be.
RequiredIn(lines, n) ==
  IF \E i \in 1 .. Len(lines) : i < n /\ lines[i] = InitLine
  THEN RunManifest ELSE {}

\* The last line, of a command that is writing, is its own; and what the run
\* requires follows the log, once the artifact init in flight wrote it.
RequiredInv ==
  /\ step \in Writing =>
       /\ log[Len(log)] = InitLine <=> op.kind = "init"
       /\ required = IF op.kind = "init" /\ step = "status"
                     THEN RunManifest ELSE RequiredIn(log, Len(log))
  /\ step \notin Writing /\ Coherent =>
       required = RequiredIn(log, Len(log) + 1)

\* The past does not change as the log grows.
LEMMA RequiredInIsStable ==
  ASSUME NEW lines \in Seq(LineType), NEW e \in LineType,
         NEW n \in Nat, n <= Len(lines) + 1
  PROVE  RequiredIn(Append(lines, e), n) = RequiredIn(lines, n)
<1> DEFINE more == Append(lines, e)
<1>1. /\ Len(lines) \in Nat /\ Len(more) = Len(lines) + 1
      /\ \A i \in 1 .. Len(lines) : more[i] = lines[i]
  OBVIOUS
<1> HIDE DEF more
<1>2. (\E i \in 1 .. Len(more) : i < n /\ more[i] = InitLine) <=>
      (\E i \in 1 .. Len(lines) : i < n /\ lines[i] = InitLine)
  BY <1>1
<1> QED
  BY <1>2 DEF RequiredIn, more

\* The next command sees what the last line adds.
LEMMA RequiredInNext ==
  ASSUME NEW lines, Len(lines) \in Nat \ {0}
  PROVE  RequiredIn(lines, Len(lines) + 1) =
           IF lines[Len(lines)] = InitLine
           THEN RunManifest ELSE RequiredIn(lines, Len(lines))
<1>1. /\ Len(lines) \in 1 .. Len(lines) /\ Len(lines) < Len(lines) + 1
      /\ \A i \in 1 .. Len(lines) :
           i < Len(lines) + 1 /\ (i < Len(lines) <=> i # Len(lines))
  OBVIOUS
<1> QED
  BY <1>1 DEF RequiredIn

LEMMA RequiredHolds == Spec => []RequiredInv
<1>1. Init => RequiredInv
  BY GateEvidenceAssumption
     DEF Init, RequiredInv, RequiredIn, InitLine, Writing, Coherent, Line
<1>2. TypeInv /\ RequiredInv /\ [Next]_vars => RequiredInv'
  <2> SUFFICES ASSUME TypeInv, RequiredInv, [Next]_vars PROVE RequiredInv'
    OBVIOUS
  <2>0. /\ log \in Seq(LineType) /\ Len(log) \in Nat \ {0} /\ last \in Nat \ {0}
        /\ last <= Len(log)
    BY GateEvidenceAssumption DEF TypeInv, TypeOK, LogInv, LineType
  <2>1. ASSUME NEW o, Begin(o)
        PROVE  RequiredInv'
    BY <2>1 DEF Begin, RequiredInv, Coherent, Writing
  <2>2. CASE AppendLine
    <3> DEFINE e == LineOf(op)
    <3>1. /\ log' = Append(log, e) /\ e \in LineType /\ op' = op
          /\ op.kind \in Kinds /\ required' = required
          /\ step = "append" /\ step' = FirstWrite[op.kind]
      BY <2>2, LineIsTyped DEF AppendLine, TypeInv, TypeOK, OpInv
    <3>2. /\ step' \in Writing /\ step \notin Writing /\ Coherent
          /\ step' = "status" => op.kind = "event"
      BY <2>0, <3>1 DEF FirstWrite, Writing, Kinds, TypeInv, LogInv, Coherent
    <3>3. e = InitLine <=> op.kind = "init"
      <4>1. \/ /\ op.kind = "check"
               /\ e = Line("helper", op.gate, op.result.status)
               /\ op.result.status \in {"pass", "fail"}
            \/ op.kind = "write" /\ e = Line("helper", NoGate, "recorded")
            \/ op.kind = "init" /\ e = Line("helper", NoGate, "init")
            \/ op.kind = "event" /\ e.by = "user"
        BY <3>1, LineIsTyped DEF Kinds, TypeInv, TypeOK, OpInv
      <4> QED
        BY <4>1 DEF InitLine, Line
    <3>4. RequiredIn(Append(log, e), Len(log) + 1) =
            RequiredIn(log, Len(log) + 1)
      BY <2>0, <3>1, RequiredInIsStable
    <3> HIDE DEF e
    <3>5. Len(log') = Len(log) + 1 /\ log'[Len(log')] = e
      BY <2>0, <3>1
    <3>6. required' = RequiredIn(log', Len(log'))
      BY <3>1, <3>2, <3>4, <3>5 DEF RequiredInv
    <3> QED
      BY <3>1, <3>2, <3>3, <3>5, <3>6 DEF RequiredInv
  <2>3. CASE WriteRequired
    <3>1. op.kind = "init"
      BY <2>3 DEF WriteRequired, TypeInv, OpInv
    <3> QED
      BY <2>3, <3>1 DEF WriteRequired, RequiredInv, Writing
  <2>4. CASE ReplaceStatus
    <3>1. /\ log' = log /\ required' = required /\ Coherent'
          /\ step = "status" /\ step' = "idle"
      BY <2>4 DEF ReplaceStatus, Coherent
    <3>2. required = RequiredIn(log, Len(log) + 1)
      BY <2>0, <3>1, RequiredInNext DEF RequiredInv, Writing
    <3> QED
      BY <3>1, <3>2 DEF RequiredInv, Writing
  <2>5. ASSUME NEW a \in Artifact, WriteBaseline(a)
        PROVE  RequiredInv'
    <3>1. op.kind = "init" /\ op'.kind = "init"
      BY <2>5 DEF WriteBaseline, InitOp, TypeInv, OpInv
    <3> QED
      BY <2>5, <3>1 DEF WriteBaseline, RequiredInv, Writing, Coherent
  <2>6. ASSUME NEW a \in Artifact, EditArtifact(a)
        PROVE  RequiredInv'
    <3>1. op'.kind = op.kind
      BY <2>6 DEF EditArtifact, TypeInv, TypeOK, OpType, NoOp
    <3> QED
      BY <2>6, <3>1 DEF EditArtifact, RequiredInv, Writing, Coherent
  <2>7. CASE WriteArtifact
    <3>1. op.kind = "write"
      BY <2>7 DEF WriteArtifact, TypeInv, OpInv
    <3> QED
      BY <2>7, <3>1 DEF WriteArtifact, RequiredInv, Writing, Coherent
  <2>8. CASE WriteReport \/ WriteMetadata
    <3>1. op.kind = "check"
      BY <2>8 DEF WriteReport, WriteMetadata, TypeInv, OpInv
    <3> QED
      BY <2>8, <3>1
         DEF WriteReport, WriteMetadata, RequiredInv, Writing, Coherent
  <2>9. CASE Stop
    <3>1. CASE step \in Writing
      BY <2>0, <2>9, <3>1
         DEF Stop, RequiredInv, Writing, Coherent, TypeInv, LogInv
    <3>2. CASE step \notin Writing
      BY <2>9, <3>2 DEF Stop, RequiredInv, Writing, Coherent
    <3> QED
      BY <3>1, <3>2
  <2>10. CASE UNCHANGED vars
    BY <2>10 DEF vars, RequiredInv, Coherent
  <2> QED
    BY <2>1, <2>2, <2>3, <2>4, <2>5, <2>6, <2>7, <2>8, <2>9, <2>10
       DEF Next, CheckGate, MutateArtifact, InitArtifacts, AppendEvent
<1> QED
  BY <1>1, <1>2, TypesHold, PTL DEF Spec

-----------------------------------------------------------------------------
(***************************************************************************)
(* What a passing report vouches for.                                      *)
(***************************************************************************)

\* EvidenceAt, of the log or of the log as it will be.
EvidenceIn(lines, g, n) ==
  Always[g] \cup (IfRequired[g] \cap RequiredIn(lines, n))

\* No report is of an event to come, and a check in flight that found a pass
\* has seen all evidence of its event complete, and it still is unless
\* somebody edited it.
PassInv ==
  /\ \A g \in AnyGate : report[g].result.event <= Len(log)
  /\ op.kind = "check" /\ op.result.status = "pass" =>
       /\ op.passed = EvidenceIn(log, op.gate, op.result.event)
       /\ step \in {"append", "report"} /\ ~op.edited =>
            \A a \in op.passed : file[a] \in Complete

\* What a passing report fingerprints.
ReportInv ==
  \A g \in AnyGate :
     report[g].result.status = "pass" /\ ~report[g].edited =>
       /\ DOMAIN report[g].prints = EvidenceIn(log, g, report[g].result.event)
       /\ \A a \in DOMAIN report[g].prints : report[g].prints[a] \in Complete

EvidenceInv == PassInv /\ ReportInv

LEMMA EvidenceIsOfLog ==
  ASSUME NEW g, NEW n
  PROVE  EvidenceAt(g, n) = EvidenceIn(log, g, n)
BY DEF EvidenceAt, EvidenceIn, RequiredAt, RequiredIn, InitLine

LEMMA EvidenceHolds == Spec => []EvidenceInv
<1>1. Init => EvidenceInv
  BY DEF Init, EvidenceInv, PassInv, ReportInv, NoOp, Report, Unchecked, Result
<1>2. TypeInv /\ RequiredInv /\ EvidenceInv /\ [Next]_vars => EvidenceInv'
  <2> SUFFICES ASSUME TypeInv, RequiredInv, EvidenceInv, [Next]_vars
               PROVE  EvidenceInv'
    OBVIOUS
  <2>0. /\ log \in Seq(LineType) /\ Len(log) \in Nat
        /\ \A g \in AnyGate : report[g].result.event \in Nat
    BY DEF TypeInv, TypeOK, LineType, ResultType
  <2>1. ASSUME NEW g \in AnyGate, CheckGate(g)
        PROVE  EvidenceInv'
    <3> DEFINE o == CheckOp(g, Result(Len(log) + 1, Evaluate(g)), Passing(g))
    <3>1. /\ o.kind = "check" /\ o.gate = g /\ o.passed = Passing(g)
          /\ o.result.status = Evaluate(g) /\ o.result.event = Len(log) + 1
      BY DEF CheckOp, Result
    <3>2. Evaluate(g) = "pass" => Passing(g) = Evidence(g)
      BY DEF Evaluate
    <3>3. \A a \in Passing(g) : file[a] \in Complete
      BY DEF Passing
    <3>4. op' = o /\ UNCHANGED <<file, report, log>>
      BY <2>1 DEF CheckGate, Begin
    <3>5. Evidence(g) = EvidenceIn(log, g, Len(log) + 1)
      BY <2>1 DEF CheckGate, Begin, RequiredInv, Writing, Evidence, EvidenceIn
    <3> HIDE DEF o
    <3> QED
      BY <3>1, <3>2, <3>3, <3>4, <3>5 DEF EvidenceInv, PassInv, ReportInv
  <2>2. CASE \/ InitArtifacts \/ AppendEvent
             \/ \E a \in Artifact : MutateArtifact(a)
    BY <2>2 DEF InitArtifacts, AppendEvent, MutateArtifact, Begin, WriteOp,
       InitOp, EventOp, EvidenceInv, PassInv, ReportInv
  <2>3. ASSUME NEW a \in Artifact, EditArtifact(a)
        PROVE  EvidenceInv'
    <3>1. op.kind = "check" => /\ op'.kind = "check" /\ op'.edited
                               /\ op'.passed = op.passed /\ op'.gate = op.gate
                               /\ op'.result = op.result
      BY <2>3 DEF EditArtifact, TypeInv, TypeOK, OpType, NoOp
    <3>2. op.kind # "check" => op' = op
      BY <2>3 DEF EditArtifact
    <3> QED
      BY <2>3, <3>1, <3>2 DEF EditArtifact, EvidenceInv, PassInv, ReportInv
  <2>4. CASE AppendLine
    <3>1. /\ log' = Append(log, LineOf(op)) /\ LineOf(op) \in LineType
          /\ step = "append" /\ UNCHANGED <<file, report, op>>
      BY <2>4, LineIsTyped DEF AppendLine, TypeInv, TypeOK, OpInv
    <3>2. \A n \in Nat : n <= Len(log) + 1 =>
            \A g : EvidenceIn(log', g, n) = EvidenceIn(log, g, n)
      BY <2>0, <3>1, RequiredInIsStable DEF EvidenceIn
    <3>3. Len(log') = Len(log) + 1
      BY <2>0, <3>1
    <3>4. op.kind = "check" => op.result.event = Len(log) + 1
      BY <3>1 DEF TypeInv, OpInv
    <3>5. \A g \in AnyGate : /\ report[g].result.event <= Len(log) + 1
                             /\ report[g].result.event <= Len(log)
      BY <2>0 DEF EvidenceInv, PassInv
    <3>6. PassInv'
      BY <2>0, <3>1, <3>2, <3>3, <3>4, <3>5 DEF EvidenceInv, PassInv
    <3>7. ReportInv'
      BY <2>0, <3>1, <3>2, <3>5 DEF EvidenceInv, ReportInv
    <3> QED
      BY <3>6, <3>7 DEF EvidenceInv
  <2>5. CASE WriteArtifact
    <3>1. op.kind = "write"
      BY <2>5 DEF WriteArtifact, TypeInv, OpInv
    <3> QED
      BY <2>5, <3>1 DEF WriteArtifact, EvidenceInv, PassInv, ReportInv
  <2>5a. CASE WriteRequired \/ \E a \in Artifact : WriteBaseline(a)
    <3>1. op.kind = "init" /\ UNCHANGED <<report, log>>
      BY <2>5a DEF WriteRequired, WriteBaseline, TypeInv, OpInv
    <3>2. op'.kind = "init"
      <4>1. CASE WriteRequired
        BY <3>1, <4>1 DEF WriteRequired
      <4>2. CASE \E a \in Artifact : WriteBaseline(a)
        BY <4>2 DEF WriteBaseline, InitOp
      <4> QED
        BY <2>5a, <4>1, <4>2
    <3> QED
      BY <3>1, <3>2 DEF EvidenceInv, PassInv, ReportInv
  <2>6. CASE WriteReport
    <3> DEFINE prints == [a \in op.passed |-> file[a]]
               r == Report(op.result, prints, op.edited)
    <3>1. /\ op.kind = "check" /\ op.gate \in AnyGate
          /\ report \in [AnyGate -> ReportType] /\ op.result.event = Len(log)
      BY <2>6 DEF WriteReport, TypeInv, TypeOK, OpInv, OpType, NoOp, ReportType,
         Writing
    <3>2. /\ report' = [report EXCEPT ![op.gate] = r]
          /\ UNCHANGED <<file, op, log>>
      BY <2>6 DEF WriteReport
    <3>3. /\ r.result = op.result /\ r.edited = op.edited
          /\ DOMAIN r.prints = op.passed
          /\ \A a \in op.passed : r.prints[a] = file[a]
      BY DEF Report
    <3>4. r.result.status = "pass" /\ ~r.edited =>
            /\ DOMAIN r.prints = EvidenceIn(log, op.gate, r.result.event)
            /\ \A a \in DOMAIN r.prints : r.prints[a] \in Complete
      BY <2>6, <3>1, <3>3 DEF WriteReport, EvidenceInv, PassInv
    <3> HIDE DEF r
    <3>5. ReportInv'
      BY <3>1, <3>2, <3>4 DEF EvidenceInv, ReportInv
    <3>6. \A g \in AnyGate : report'[g].result.event <= Len(log)
      BY <2>0, <3>1, <3>2, <3>3 DEF EvidenceInv, PassInv
    <3> QED
      BY <2>6, <3>2, <3>5, <3>6 DEF WriteReport, EvidenceInv, PassInv
  <2>7. CASE WriteMetadata
    BY <2>7 DEF WriteMetadata, EvidenceInv, PassInv, ReportInv
  <2>8. CASE ReplaceStatus
    BY <2>8 DEF ReplaceStatus, EvidenceInv, PassInv, ReportInv, NoOp
  <2>9. CASE Stop
    BY <2>9 DEF Stop, EvidenceInv, PassInv, ReportInv, NoOp
  <2>10. CASE UNCHANGED vars
    BY <2>10 DEF vars, EvidenceInv, PassInv, ReportInv
  <2> QED
    BY <2>1, <2>2, <2>3, <2>4, <2>5, <2>5a, <2>6, <2>7, <2>8, <2>9, <2>10
       DEF Next
<1> QED
  BY <1>1, <1>2, TypesHold, RequiredHolds, PTL DEF Spec

\* A passing report fingerprints exactly what the gate evaluated then, by
\* what the log says the run required, and only contents that passed, unless
\* artifacts were edited between the evaluation and the fingerprints.
THEOREM ReportsAreOfEvidence == Spec => []EvidenceWasEvaluated
<1>1. EvidenceInv => EvidenceWasEvaluated
  BY EvidenceIsOfLog DEF EvidenceInv, ReportInv, EvidenceWasEvaluated
<1> QED
  BY <1>1, EvidenceHolds, PTL

\* When the final gate passes, all a required gate had to evaluate as it was
\* checked is complete at that moment, whatever happened since, except where
\* a report was taken during an edit.  What artifact init made the run
\* require after the check of a gate is not covered.
THEOREM FinalPassIsOfEvidence == Spec => FinalPassIsSound
<1> DEFINE A == FinalPasses =>
                  /\ Satisfied(Evidence(Final))
                  /\ \A g \in RequiredGates :
                       \/ Satisfied(EvidenceAt(g, report[g].result.event))
                       \/ report[g].edited
<1>1. TypeInv /\ EvidenceInv /\ [Next]_vars => [A]_op
  <2> SUFFICES ASSUME TypeInv, EvidenceInv, Next, op' # op, FinalPasses
               PROVE  A
    BY DEF vars
  <2>1. op = NoOp /\ step = "idle"
    BY DEF TypeInv, OpInv, FinalPasses
  <2>2. PICK f \in AnyGate : CheckGate(f)
    <3>1. op'.kind = "check"
      BY DEF FinalPasses
    <3>2. ~\E a \in Artifact :
             MutateArtifact(a) \/ EditArtifact(a) \/ WriteBaseline(a)
      BY <2>1, <3>1 DEF MutateArtifact, Begin, WriteOp, EditArtifact, NoOp,
         WriteBaseline
    <3>3. ~InitArtifacts /\ ~AppendEvent
      BY <3>1 DEF InitArtifacts, AppendEvent, Begin, InitOp, EventOp
    <3> QED
      BY <2>1, <3>2, <3>3 DEF Next, AppendLine, WriteArtifact, WriteRequired,
         WriteReport, WriteMetadata, ReplaceStatus, Stop
  <2>3. f = Final /\ Evaluate(f) = "pass"
    BY <2>2 DEF FinalPasses, CheckGate, Begin, CheckOp, Result
  <2>4. /\ Passing(Final) = Evidence(Final)
        /\ \A h \in RequiredGates : RequiredGateHolds(h)
    BY <2>3 DEF Evaluate
  <2>5. Satisfied(Evidence(Final))
    BY <2>4 DEF Passing, Satisfied
  <2>6. ASSUME NEW g \in RequiredGates, ~report[g].edited
        PROVE  Satisfied(EvidenceAt(g, report[g].result.event))
    <3>1. RequiredGateHolds(g) /\ g \in AnyGate
      BY <2>4, <2>6 DEF RequiredGates, AnyGate
    <3>2. /\ DOMAIN report[g].prints = EvidenceAt(g, report[g].result.event)
          /\ \A a \in DOMAIN report[g].prints : report[g].prints[a] \in Complete
      BY <2>6, <3>1, EvidenceIsOfLog
         DEF RequiredGateHolds, EvidenceInv, ReportInv
    <3> QED
      BY <3>1, <3>2 DEF RequiredGateHolds, Satisfied
  <2> QED
    BY <2>5, <2>6
<1>2. [][A]_op <=> FinalPassIsSound
  BY DEF FinalPassIsSound
<1> HIDE DEF A
<1> QED
  BY <1>1, <1>2, TypesHold, EvidenceHolds, PTL DEF Spec

-----------------------------------------------------------------------------
(***************************************************************************)
(* The stored outcomes and the log.                                        *)
(***************************************************************************)

\* x is the outcome of the latest check of gate g in the first n lines.
Latest(lines, n, g, x) ==
  \/ (\A j \in 1 .. n : ~Reports(lines[j], g)) /\ x = Unchecked
  \/ \E i \in 1 .. n :
       /\ Reports(lines[i], g) /\ x = Result(i, lines[i].status)
       /\ \A j \in 1 .. n : Reports(lines[j], g) => j <= i

\* The three places have the latest outcome, except those a check of the
\* gate in flight, or one that stopped, has not yet written.
ExplainInv ==
  \A g \in AnyGate :
    \/ /\ Latest(log, Len(log), g, report[g].result)
       /\ Latest(log, Len(log), g, gateState[g])
       /\ Latest(log, Len(log), g, summary[g])
       /\ Coherent \/ ~Reports(log[Len(log)], g)
    \/ /\ ~Coherent /\ Reports(log[Len(log)], g)
       /\ Latest(log, Len(log) - 1, g, summary[g])
       /\ \/ /\ Latest(log, Len(log) - 1, g, report[g].result)
             /\ Latest(log, Len(log) - 1, g, gateState[g])
          \/ /\ Latest(log, Len(log), g, report[g].result)
             /\ Latest(log, Len(log) - 1, g, gateState[g])
          \/ /\ Latest(log, Len(log), g, report[g].result)
             /\ Latest(log, Len(log), g, gateState[g])

\* Where the check in flight stands with its own gate.
WriteInv ==
  /\ op.kind = "check" /\ step \in Writing =>
       /\ Reports(log[Len(log)], op.gate)
       /\ log[Len(log)].status = op.result.status
       /\ step = "report" =>
            Latest(log, Len(log) - 1, op.gate, gateState[op.gate])
       /\ step \in {"metadata", "status"} => report[op.gate].result = op.result
       /\ step = "status" => gateState[op.gate] = op.result
  /\ op.kind # "check" /\ step \in Writing =>
       \A g \in AnyGate : ~Reports(log[Len(log)], g)

StoredInv == ExplainInv /\ WriteInv

LEMMA LatestIsUnique ==
  ASSUME NEW lines, NEW n \in Nat, NEW g, NEW x, NEW y,
         Latest(lines, n, g, x), Latest(lines, n, g, y)
  PROVE  x = y
<1>1. ASSUME NEW i \in 1 .. n, NEW j \in 1 .. n,
             Reports(lines[i], g), Reports(lines[j], g),
             \A k \in 1 .. n : Reports(lines[k], g) => k <= i,
             \A k \in 1 .. n : Reports(lines[k], g) => k <= j
      PROVE  i = j
  <2>1. i <= j /\ j <= i
    BY <1>1
  <2> QED
    BY <2>1
<1> QED
  BY <1>1 DEF Latest

\* A line of another gate changes nothing; one of the gate is its outcome.
LEMMA LatestAfterAppend ==
  ASSUME NEW lines \in Seq(LineType), NEW e \in LineType, NEW g, NEW x,
         Latest(lines, Len(lines), g, x)
  PROVE  /\ Latest(Append(lines, e), Len(lines), g, x)
         /\ ~Reports(e, g) => Latest(Append(lines, e), Len(lines) + 1, g, x)
<1> DEFINE n == Len(lines)
           more == Append(lines, e)
<1>1. /\ n \in Nat /\ \A i \in 1 .. n : more[i] = lines[i]
      /\ more[n + 1] = e /\ 1 .. n + 1 = 1 .. n \cup {n + 1}
  OBVIOUS
<1> HIDE DEF more, n
<1>2. Latest(lines, n, g, x)
  BY DEF n
<1>3. Latest(more, n, g, x)
  BY <1>1, <1>2 DEF Latest
<1>4. ~Reports(e, g) => Latest(more, n + 1, g, x)
  BY <1>1, <1>3 DEF Latest
<1> QED
  BY <1>3, <1>4 DEF more, n

LEMMA LatestIsLast ==
  ASSUME NEW lines, NEW n \in Nat, n > 0
  PROVE  \A g : Reports(lines[n], g) =>
                 Latest(lines, n, g, Result(n, lines[n].status))
<1>1. n \in 1 .. n /\ \A j \in 1 .. n : j <= n
  OBVIOUS
<1> QED
  BY <1>1 DEF Latest

LEMMA ByLogIsLatest ==
  ASSUME NEW n \in Nat, NEW g, NEW x, Latest(log, n, g, x)
  PROVE  ByLog(g, n) = x
<1> DEFINE at == {i \in 1 .. n : Reports(log[i], g)}
           i == CHOOSE i \in at : \A j \in at : j <= i
<1>1. CASE at = {}
  <2>1. x = Unchecked
    BY <1>1 DEF Latest
  <2> QED
    BY <1>1, <2>1 DEF ByLog
<1>2. CASE at # {}
  <2>1. PICK k \in at : /\ x = Result(k, log[k].status)
                        /\ \A j \in at : j <= k
    BY <1>2 DEF Latest
  <2>2. i \in at /\ \A j \in at : j <= i
    BY <2>1
  <2>3. i <= k /\ k <= i /\ i \in Nat /\ k \in Nat
    BY <2>1, <2>2
  <2>4. i = k
    BY <2>3
  <2>5. ByLog(g, n) = Result(i, log[i].status)
    BY <1>2 DEF ByLog
  <2> QED
    BY <2>1, <2>4, <2>5
<1> QED
  BY <1>1, <1>2

LEMMA StoredHolds == Spec => []StoredInv
<1>1. Init => StoredInv
  <2> SUFFICES ASSUME Init PROVE StoredInv
    OBVIOUS
  <2>1. /\ Len(log) = 1 /\ log[1].gate = NoGate /\ op.kind = "none" /\ last = 1
    BY DEF Init, Line, NoOp
  <2>2. \A g \in AnyGate : Latest(log, 1, g, Unchecked)
    BY <2>1, GateEvidenceAssumption DEF Latest, Reports
  <2>3. \A g \in AnyGate : /\ report[g].result = Unchecked
                           /\ gateState[g] = Unchecked
                           /\ summary[g] = Unchecked
    BY DEF Init, Report
  <2> QED
    BY <2>1, <2>2, <2>3, GateEvidenceAssumption
       DEF StoredInv, ExplainInv, WriteInv, Coherent, Writing, Init
<1>2. TypeInv /\ StoredInv /\ [Next]_vars => StoredInv'
  <2> SUFFICES ASSUME TypeInv, StoredInv, [Next]_vars PROVE StoredInv'
    OBVIOUS
  <2>0. /\ last \in Nat \ {0} /\ Len(log) \in Nat \ {0} /\ log \in Seq(LineType)
        /\ last <= Len(log)
    BY GateEvidenceAssumption DEF TypeInv, TypeOK, LogInv, LineType
  <2>1. ASSUME NEW g \in AnyGate, CheckGate(g)
        PROVE  StoredInv'
    BY <2>1 DEF CheckGate, Begin, Coherent, Writing, StoredInv, ExplainInv,
       WriteInv
  <2>2. CASE \/ InitArtifacts \/ AppendEvent
             \/ \E a \in Artifact : MutateArtifact(a)
    BY <2>2 DEF InitArtifacts, AppendEvent, MutateArtifact, Begin, Coherent,
       Writing, StoredInv, ExplainInv, WriteInv
  <2>3. ASSUME NEW a \in Artifact, EditArtifact(a)
        PROVE  StoredInv'
    <3>1. /\ op'.kind = op.kind
          /\ op.kind = "check" => op'.gate = op.gate /\ op'.result = op.result
      BY <2>3 DEF EditArtifact, TypeInv, TypeOK, OpType, NoOp
    <3>2. UNCHANGED <<report, gateState, summary, last, log, step>>
      BY <2>3 DEF EditArtifact
    <3> QED
      BY <3>1, <3>2 DEF Coherent, Writing, StoredInv, ExplainInv, WriteInv
  <2>4. CASE AppendLine
    <3>1. Coherent /\ UNCHANGED <<report, gateState, summary, last, op>>
      BY <2>4 DEF AppendLine, TypeInv, LogInv, Coherent
    <3>2. \A g \in AnyGate : /\ Latest(log, Len(log), g, report[g].result)
                             /\ Latest(log, Len(log), g, gateState[g])
                             /\ Latest(log, Len(log), g, summary[g])
      BY <3>1 DEF StoredInv, ExplainInv
    <3>3. PICK e \in LineType :
            /\ log' = Append(log, e)
            /\ op.kind = "check" => /\ Reports(e, op.gate)
                                    /\ e.status = op.result.status
                                    /\ op.gate \in AnyGate
                                    /\ step' = "report"
                                    /\ \A g : Reports(e, g) => g = op.gate
            /\ op.kind # "check" => \A g \in AnyGate : ~Reports(e, g)
      <4>1. /\ log' = Append(log, LineOf(op)) /\ LineOf(op) \in LineType
            /\ op.kind = "check" => op.gate \in AnyGate /\ step' = "report"
        BY <2>4, LineIsTyped
           DEF AppendLine, FirstWrite, TypeInv, TypeOK, OpType, NoOp, OpInv
      <4>2. CASE op.kind = "check"
        <5>1. LineOf(op) = Line("helper", op.gate, op.result.status)
          BY <2>4, <4>2, LineIsTyped DEF AppendLine, TypeInv, TypeOK, OpInv
        <5> QED
          BY <4>1, <4>2, <5>1 DEF Line, Reports
      <4>3. CASE op.kind # "check"
        <5>1. \/ LineOf(op).by = "user"
              \/ \E status : LineOf(op) = Line("helper", NoGate, status)
          BY <2>4, <4>3, LineIsTyped
             DEF AppendLine, TypeInv, TypeOK, OpInv, Kinds
        <5>2. \A g \in AnyGate : ~Reports(LineOf(op), g)
          BY <5>1, GateEvidenceAssumption DEF Line, Reports
        <5> QED
          BY <4>1, <4>3, <5>2
      <4> QED
        BY <4>2, <4>3
    <3>4. /\ Len(log') = Len(log) + 1 /\ log'[Len(log) + 1] = e
          /\ Len(log') - 1 = Len(log)
      BY <2>0, <3>3
    <3>5. ~Coherent'
      BY <2>0, <3>1, <3>4 DEF Coherent
    <3>6. ASSUME NEW g \in AnyGate, NEW x, Latest(log, Len(log), g, x)
          PROVE  /\ Latest(log', Len(log') - 1, g, x)
                 /\ ~Reports(e, g) => Latest(log', Len(log'), g, x)
      BY <2>0, <3>3, <3>4, <3>6, LatestAfterAppend
    <3>7. ExplainInv'
      BY <3>1, <3>2, <3>4, <3>5, <3>6 DEF ExplainInv
    <3>8. WriteInv'
      BY <3>1, <3>2, <3>3, <3>4, <3>6 DEF WriteInv
    <3> QED
      BY <3>7, <3>8 DEF StoredInv
  <2>5. CASE WriteArtifact
    BY <2>5 DEF WriteArtifact, TypeInv, OpInv, Coherent, Writing, StoredInv,
       ExplainInv, WriteInv
  <2>5a. CASE WriteRequired \/ \E a \in Artifact : WriteBaseline(a)
    <3>1. op.kind = "init"
      BY <2>5a DEF WriteRequired, WriteBaseline, TypeInv, OpInv
    <3>2. op'.kind = "init"
      <4>1. CASE WriteRequired
        BY <3>1, <4>1 DEF WriteRequired
      <4>2. CASE \E a \in Artifact : WriteBaseline(a)
        BY <4>2 DEF WriteBaseline, InitOp
      <4> QED
        BY <2>5a, <4>1, <4>2
    <3> QED
      BY <2>5a, <3>1, <3>2 DEF WriteRequired, WriteBaseline, Coherent, Writing,
         StoredInv, ExplainInv, WriteInv
  <2>6. ASSUME op.kind = "check", step \in Writing
        PROVE  /\ ~Coherent
               /\ op.gate \in AnyGate /\ op.result \in ResultType
               /\ \A g \in AnyGate : Reports(log[Len(log)], g) <=> g = op.gate
               /\ Latest(log, Len(log), op.gate, op.result)
               /\ Latest(log, Len(log) - 1, op.gate, summary[op.gate])
    <3>1. ~Coherent
      BY <2>0, <2>6 DEF TypeInv, LogInv, Coherent
    <3>2. op.gate \in AnyGate /\ op.result \in ResultType
      BY <2>6 DEF TypeInv, TypeOK, OpType, NoOp
    <3>3. /\ Reports(log[Len(log)], op.gate)
          /\ log[Len(log)].status = op.result.status
          /\ op.result.event = Len(log)
      BY <2>6 DEF StoredInv, WriteInv, TypeInv, OpInv
    <3>4. op.result = Result(Len(log), log[Len(log)].status)
      BY <3>2, <3>3 DEF Result, ResultType
    <3>5. Latest(log, Len(log), op.gate, op.result)
      BY <2>0, <3>3, <3>4, LatestIsLast
    <3> QED
      BY <3>1, <3>2, <3>3, <3>5 DEF StoredInv, ExplainInv, Reports
  <2>7. CASE WriteReport
    <3>1. op.kind = "check" /\ step \in Writing /\ step = "report"
      BY <2>7 DEF WriteReport, TypeInv, OpInv, Writing
    <3>2. /\ UNCHANGED <<gateState, summary, last, log, op>>
          /\ step' = "metadata"
      BY <2>7 DEF WriteReport
    <3>3. /\ report'[op.gate].result = op.result
          /\ \A g \in AnyGate : g # op.gate => report'[g] = report[g]
      BY <2>6, <2>7, <3>1 DEF WriteReport, Report, TypeInv, TypeOK
    <3>4. Latest(log, Len(log) - 1, op.gate, gateState[op.gate])
      BY <3>1 DEF StoredInv, WriteInv
    <3>5. ExplainInv'
      BY <2>6, <3>1, <3>2, <3>3, <3>4 DEF Coherent, StoredInv, ExplainInv
    <3>6. WriteInv'
      BY <3>1, <3>2, <3>3 DEF StoredInv, WriteInv
    <3> QED
      BY <3>5, <3>6 DEF StoredInv
  <2>8. CASE WriteMetadata
    <3>1. op.kind = "check" /\ step \in Writing /\ step = "metadata"
      BY <2>8 DEF WriteMetadata, TypeInv, OpInv, Writing
    <3>2. /\ UNCHANGED <<report, summary, last, log, op>>
          /\ step' = "status"
      BY <2>8 DEF WriteMetadata
    <3>3. /\ gateState'[op.gate] = op.result
          /\ \A g \in AnyGate : g # op.gate => gateState'[g] = gateState[g]
      BY <2>6, <2>8, <3>1 DEF WriteMetadata, TypeInv, TypeOK
    <3>4. report[op.gate].result = op.result
      BY <3>1 DEF StoredInv, WriteInv
    <3>5. ExplainInv'
      BY <2>6, <3>1, <3>2, <3>3, <3>4 DEF Coherent, StoredInv, ExplainInv
    <3>6. WriteInv'
      BY <3>1, <3>2, <3>3, <3>4 DEF StoredInv, WriteInv
    <3> QED
      BY <3>5, <3>6 DEF StoredInv
  <2>9. CASE ReplaceStatus
    <3>1. /\ step \in Writing /\ step = "status"
          /\ UNCHANGED <<report, gateState, log>>
          /\ last' = Len(log) /\ step' = "idle"
      BY <2>9 DEF ReplaceStatus, Writing
    <3>2. Coherent' /\ WriteInv'
      BY <3>1 DEF Coherent, WriteInv, Writing
    <3>3. CASE op.kind = "check"
      <4>1. /\ summary'[op.gate] = op.result
            /\ \A g \in AnyGate : g # op.gate => summary'[g] = summary[g]
        BY <2>6, <2>9, <3>1, <3>3 DEF ReplaceStatus, TypeInv, TypeOK
      <4>2. report[op.gate].result = op.result /\ gateState[op.gate] = op.result
        BY <3>1, <3>3 DEF StoredInv, WriteInv
      <4>3. ExplainInv'
        BY <2>6, <3>1, <3>2, <3>3, <4>1, <4>2 DEF StoredInv, ExplainInv
      <4> QED
        BY <3>2, <4>3 DEF StoredInv
    <3>4. CASE op.kind # "check"
      <4>1. summary' = summary
        BY <2>9, <3>4 DEF ReplaceStatus
      <4>2. \A g \in AnyGate : ~Reports(log[Len(log)], g)
        BY <3>1, <3>4 DEF StoredInv, WriteInv
      <4>3. ExplainInv'
        BY <3>1, <3>2, <4>1, <4>2 DEF StoredInv, ExplainInv
      <4> QED
        BY <3>2, <4>3 DEF StoredInv
    <3> QED
      BY <3>3, <3>4
  <2>10. CASE Stop
    BY <2>10 DEF Stop, Coherent, Writing, StoredInv, ExplainInv, WriteInv
  <2>11. CASE UNCHANGED vars
    BY <2>11 DEF vars, Coherent, Writing, StoredInv, ExplainInv, WriteInv
  <2> QED
    BY <2>1, <2>2, <2>3, <2>4, <2>5, <2>5a, <2>7, <2>8, <2>9, <2>10, <2>11
       DEF Next
<1> QED
  BY <1>1, <1>2, TypesHold, PTL DEF Spec

\* The report, the run metadata and status.json hold the outcome of the
\* latest check the log records; only the gate of an event status.json has
\* not caught up with may lag, in write order.
THEOREM StoredFollowsLog == Spec => []GateStateExplained
<1>1. TypeInv /\ StoredInv => GateStateExplained
  <2> SUFFICES ASSUME TypeInv, StoredInv, NEW g \in AnyGate
               PROVE  LET now == ByLog(g, Len(log))
                          was == ByLog(g, Len(log) - 1)
                      IN  IF Coherent \/ ~Reports(log[Len(log)], g)
                          THEN /\ report[g].result = now /\ gateState[g] = now
                               /\ summary[g] = now
                          ELSE /\ summary[g] = was
                               /\ <<report[g].result, gateState[g]>>
                                     \in {<<was, was>>, <<now, was>>,
                                     <<now, now>>}
    BY DEF GateStateExplained
  <2>1. Len(log) \in Nat /\ Len(log) - 1 \in Nat
    BY GateEvidenceAssumption DEF TypeInv, TypeOK, LogInv
  <2>2. \A x : /\ Latest(log, Len(log), g, x) => x = ByLog(g, Len(log))
               /\ Latest(log, Len(log) - 1, g, x) => x = ByLog(g, Len(log) - 1)
    BY <2>1, ByLogIsLatest
  <2> QED
    BY <2>2 DEF StoredInv, ExplainInv
<1> QED
  BY <1>1, TypesHold, StoredHolds, PTL
-----------------------------------------------------------------------------
(***************************************************************************)
(* The event log and status.json implement EventLedger, with two files     *)
(* written between the append and the status write.                        *)
(***************************************************************************)

\* The events status.json has caught up with.
Committed == SubSeq(log, 1, last)

\* The log is ahead of status.json and no command in flight will mend that.
Frozen == ~Coherent /\ step \notin Writing

Ledger == INSTANCE EventLedger WITH
            Writer <- LineType, committed <- Committed, frozen <- Frozen

\* The beginning of a log grows by the line after it.
LEMMA PrefixGrows ==
  ASSUME NEW S, NEW lines \in Seq(S), NEW n \in Nat, Len(lines) = n + 1
  PROVE  SubSeq(lines, 1, n + 1) = Append(SubSeq(lines, 1, n), lines[n + 1])
<1>1. /\ 1 \in 1 .. Len(lines) /\ n + 1 \in 1 .. Len(lines)
      /\ (n + 1) - 1 = n
  OBVIOUS
<1>2. SubSeq(lines, 1, n + 1) = SubSeq(lines, 1, n) \o <<lines[n + 1]>>
  <2>1. SubSeq(lines, 1, n + 1) =
          SubSeq(lines, 1, (n + 1) - 1) \o <<lines[n + 1]>>
    BY <1>1, SubSeqRecursiveSecond
  <2> QED
    BY <1>1, <2>1
<1>3. SubSeq(lines, 1, n) \in Seq(S) /\ lines[n + 1] \in S
  OBVIOUS
<1> QED
  BY <1>2, <1>3, AppendIsConcat

\* A gate check commits one event or none: the report and the run metadata
\* it writes on the way are no commitment, and if it stops among them the
\* ledger is frozen.
THEOREM ImplementsLedger == Spec => Ledger!Spec
<1> USE GateEvidenceAssumption
<1>1. Init => Ledger!Init
  <2> SUFFICES ASSUME Init PROVE Ledger!Init
    OBVIOUS
  <2>1. Len(log) = 1 /\ last = 1 /\ log = SubSeq(log, 1, 1)
    BY DEF Init
  <2> QED
    BY <2>1 DEF Init, Ledger!Init, Committed, Frozen, Coherent
<1>3. TypeInv /\ [Next]_vars => [Ledger!Next]_(Ledger!vars)
  <2> SUFFICES ASSUME TypeInv, [Next]_vars
               PROVE  [Ledger!Next]_(Ledger!vars)
    OBVIOUS
  <2>1. /\ log \in Seq(LineType) /\ Len(log) \in Nat /\ last \in Nat
        /\ last <= Len(log) /\ Len(log) <= MaxEventId
    BY DEF TypeInv, TypeOK, LogInv, LineType
  <2>2. CASE AppendLine
    <3>1. PICK e : log' = Append(log, e)
      BY <2>2 DEF AppendLine
    <3>2. Committed' = Committed
      BY <2>1, <2>2, <3>1 DEF Committed, AppendLine
    <3>3. ~Frozen /\ ~Frozen'
      <4>1. step = "append" /\ Coherent
        BY <2>2 DEF AppendLine, TypeInv, LogInv, Coherent
      <4>2. step' \in Writing
        BY <2>2 DEF AppendLine, FirstWrite, TypeInv, OpInv, Kinds, Writing
      <4> QED
        BY <4>1, <4>2 DEF Frozen
    <3> QED
      BY <3>2, <3>3 DEF Ledger!vars, Frozen
  <2>3. CASE ReplaceStatus
    <3>1. Len(log) = last + 1 /\ last' = last + 1 /\ log' = log
      BY <2>3 DEF ReplaceStatus, TypeInv, TypeOK, LogInv, LineType, Writing
    <3>2. Len(Committed) = last /\ log[last + 1] \in LineType
      BY <2>1, <3>1 DEF Committed
    <3>3. Committed' = Append(Committed, log[last + 1])
      BY <2>1, <3>1, PrefixGrows DEF Committed
    <3>4. ~Frozen /\ ~Frozen'
      BY <2>3, <3>1 DEF Frozen, ReplaceStatus, Coherent, Writing
    <3> QED
      BY <2>1, <3>1, <3>2, <3>3, <3>4
      DEF Ledger!Next, Ledger!Commit, Frozen
  <2>4. CASE log' = log /\ last' = last /\ (Frozen => Frozen')
    BY <2>4 DEF Committed, Frozen, Ledger!Next, Ledger!Freeze, Ledger!vars
  <2>5. CASE ~AppendLine /\ ~ReplaceStatus
    <3>1. log' = log /\ last' = last
      BY <2>5 DEF Next, vars,
       CheckGate, MutateArtifact, EditArtifact, InitArtifacts, AppendEvent,
       Begin, WriteArtifact, WriteBaseline, WriteRequired, WriteReport,
       WriteMetadata, Stop
    <3>2. Frozen => Frozen'
      BY <2>5, <3>1 DEF Frozen, Coherent, Writing, Next, vars,
       CheckGate, MutateArtifact, EditArtifact, InitArtifacts, AppendEvent,
       Begin, WriteArtifact, WriteBaseline, WriteRequired, WriteReport,
       WriteMetadata, Stop
    <3> QED
      BY <2>4, <3>1, <3>2
  <2> QED
    BY <2>2, <2>3, <2>5
<1> QED
  BY <1>1, <1>3, TypesHold, PTL DEF Spec, Ledger!Spec
=============================================================================
