------------------------ MODULE GraphProposalsProofs ------------------------
(***************************************************************************)
(* Proofs about GraphProposals, for any graphs and any bounds.             *)
(***************************************************************************)
EXTENDS GraphProposals, FiniteSetTheorems, WellFoundedInduction,
  SequenceTheorems, TLAPS

\* A bounded set of numbers has a largest one, which is what Max chooses.
LEMMA MaxIsLargest ==
  ASSUME NEW n \in Nat, NEW S \in SUBSET (0 .. n), S # {}
  PROVE  Max(S) \in S /\ \A x \in S : x <= Max(S)
<1> DEFINE Above(x) == {y \in S : y > x}
           T == {Above(x) : x \in S}
<1>1. IsFiniteSet(S)
  <2>1. S \in SUBSET Nat /\ \A x \in S : x <= n
    OBVIOUS
  <2> QED
    BY <2>1, FS_BoundedSetOfNaturals
<1>2. T \subseteq FiniteSubsetsOf(S)
  BY <1>1, FS_Subset DEF FiniteSubsetsOf
<1>3. T # {}
  OBVIOUS
<1>4. PICK t \in T : \A u \in T : <<u, t>> \notin StrictSubsetOrdering(S)
  BY <1>2, <1>3, FS_StrictSubsetOrderingWellFounded, WFMin, Zenon
<1>5. PICK x \in S : t = Above(x)
  OBVIOUS
<1>6. ASSUME NEW y \in S, y > x
      PROVE  FALSE
  <2>1. /\ Above(y) \in T /\ Above(y) \subseteq Above(x)
        /\ y \in Above(x) /\ y \notin Above(y)
    <3>1. S \subseteq Nat /\ x \in Nat /\ y \in Nat
      OBVIOUS
    <3>2. Above(y) \in T
      OBVIOUS
    <3>3. ASSUME NEW z \in Above(y) PROVE z \in Above(x)
      BY <1>6, <3>1
    <3>4. y \in Above(x) /\ y \notin Above(y)
      BY <1>6, <3>1
    <3>5. Above(y) \subseteq Above(x)
      BY <3>3, Zenon
    <3> HIDE DEF T, Above
    <3> QED
      BY <3>2, <3>4, <3>5
  <2>2. <<Above(y), Above(x)>> \in StrictSubsetOrdering(S)
    BY <2>1 DEF StrictSubsetOrdering
  <2> QED
    BY <1>4, <1>5, <2>1, <2>2
<1>7. \A y \in S : x >= y
  BY <1>6
<1> QED
  BY <1>7 DEF Max

-----------------------------------------------------------------------------
(***************************************************************************)
(* Types, the position of a command, and what it has in flight.            *)
(***************************************************************************)

\* What the helper recorded is the type of its event; a line of event append
\* counts as some other event, whatever type it was given.
LEMMA HelperLine ==
  ASSUME NEW type, NEW p, NEW body
  PROVE  Recorded(Event(type, p, body)) = type
  BY DEF Recorded, Event

LEMMA UserLine ==
  ASSUME NEW line \in HandLine
  PROVE  Recorded(line) = "other"
  BY GraphProposalsAssumption DEF Recorded

\* What a command o that stands before write s in a log of n lines carries.
OpInv(o, s, n) ==
  /\ s = "idle"   => o = NoOp
  /\ s = "backup" => o.kind = "apply"
  /\ s = "graph"  => o.kind \in {"init", "apply"}
  /\ s = "append" => o.kind # "none"
  /\ s = "record" => o.kind = "propose"
  /\ o.kind = "other" => Recorded(o.event) = "other"
  /\ o.kind = "init"  => Recorded(o.event) = "initialized"
  /\ o.kind = "apply" =>
       Recorded(o.event) = "applied" /\ o.event.proposal # NoProposal
  /\ o.kind = "propose" =>
       /\ Recorded(o.event) = "proposed" /\ o.event.proposal # NoProposal
       /\ o.event.body = o.record.candidate
  /\ o.kind \in {"init", "apply"} =>
       /\ o.event.body \in Valid
       /\ s \in {"backup", "graph", "append"} =>
            o.graph = File(o.event.body, n + 1)

LogInv ==
  /\ last <= Len(log) /\ Len(log) <= MaxEventId
  /\ step \in {"backup", "graph", "append"} =>
       Len(log) = last /\ last < MaxEventId
  /\ step \in {"record", "status"} => Len(log) = last + 1

TypeInv == TypeOK /\ LogInv /\ OpInv(op, step, Len(log))

LEMMA FileIsFile ==
  ASSUME NEW b \in Body, NEW n \in Nat, n <= MaxEventId
  PROVE  /\ File(b, n) \in FileType \ {NoFile}
         /\ File(b, n).body = b /\ File(b, n).stamp = n
BY GraphProposalsAssumption DEF File, FileType

LEMMA BeginKeepsTypes ==
  ASSUME TypeInv, NEW first, NEW o, Begin(first, o),
         o \in OpType, first \in {"backup", "graph", "append"},
         OpInv(o, first, Len(log))
  PROVE  TypeInv'
<1>1. TypeOK'
  BY DEF TypeInv, TypeOK, Begin
<1>2. LogInv'
  BY DEF TypeInv, TypeOK, LogInv, Begin, Coherent
<1>3. OpInv(op, step, Len(log))'
  BY DEF Begin
<1> QED
  BY <1>1, <1>2, <1>3 DEF TypeInv

LEMMA NextProposalIsNew ==
  ASSUME TypeInv, NextProposal <= MaxProposal
  PROVE  NextProposal \in 1 .. MaxProposal \ DOMAIN record
<1> DEFINE S == DOMAIN record \cup {0}
<1>1. MaxProposal \in Nat /\ S \in SUBSET (0 .. MaxProposal) /\ S # {}
  BY GraphProposalsAssumption DEF TypeInv, TypeOK
<1>2. Max(S) \in S /\ \A x \in S : x <= Max(S)
  BY <1>1, MaxIsLargest
<1>3. Max(S) \in 0 .. MaxProposal /\ NextProposal = Max(S) + 1
  BY <1>1, <1>2 DEF NextProposal
<1>4. NextProposal \notin S
  <2> SUFFICES ASSUME NextProposal \in S PROVE FALSE
    OBVIOUS
  <2>1. NextProposal <= Max(S)
    BY <1>2
  <2> HIDE DEF S
  <2> QED
    BY <1>3, <2>1
<1> QED
  BY <1>1, <1>3, <1>4

LEMMA TypesHold == Spec => []TypeInv
<1> USE GraphProposalsAssumption
<1>1. Init => TypeInv
  <2> SUFFICES ASSUME Init PROVE TypeInv
    OBVIOUS
  <2>1. TypeOK
    BY DEF Init, TypeOK, FileType, LineType, EventType, Event, NoProposal,
           OpType
  <2>2. LogInv /\ OpInv(op, step, Len(log))
    BY DEF Init, LogInv, OpInv, NoOp
  <2> QED
    BY <2>1, <2>2 DEF TypeInv
<1>2. TypeInv /\ [Next]_vars => TypeInv'
  <2> SUFFICES ASSUME TypeInv, [Next]_vars PROVE TypeInv'
    OBVIOUS
  <2> USE DEF TypeInv
  <2>0. last \in Nat /\ Len(log) \in Nat /\ log \in Seq(LineType)
        /\ MaxEventId \in Nat /\ MaxProposal \in Nat
    BY DEF TypeOK
  <2>1. ASSUME NEW b \in Body, InitWorkflowGraph(b)
        PROVE  TypeInv'
    <3> DEFINE e == Event("initialized", NoProposal, b)
               o == [kind |-> "init", graph |-> Stamped(b), event |-> e]
    <3>1. Begin("graph", o) /\ b \in Valid
      BY <2>1 DEF InitWorkflowGraph, Validates
    <3>2. NextId \in Nat /\ NextId <= MaxEventId
      BY <2>0, <3>1 DEF Begin, Coherent, NextId
    <3>3. e \in EventType /\ Stamped(b) \in FileType
      BY <2>0, <3>1, <3>2, FileIsFile DEF EventType, Event, NoProposal, Stamped
    <3>4. o \in OpType
      BY <3>3 DEF OpType
    <3>5. OpInv(o, "graph", Len(log))
      BY <3>1, HelperLine DEF OpInv, Event, Stamped, NextId, NoOp
    <3> QED
      BY <3>1, <3>4, <3>5, BeginKeepsTypes
  <2>2. ASSUME ProposeWorkflowGraph
        PROVE  TypeInv'
    <3> DEFINE e == Event("proposed", NextProposal, candidate)
               o == [kind |-> "propose", record |-> Record(graph, candidate),
                     event |-> e]
    <3>1. Begin("append", o) /\ candidate \in Valid
          /\ NextProposal \in 1 .. MaxProposal
      BY <2>2, NextProposalIsNew DEF ProposeWorkflowGraph, Validates
    <3>2. e \in EventType /\ Record(graph, candidate) \in RecordType
      BY <2>0, <3>1 DEF EventType, Event, RecordType, Record, TypeOK
    <3>3. o \in OpType
      BY <3>2 DEF OpType
    <3>4. OpInv(o, "append", Len(log))
      BY <3>1, HelperLine DEF OpInv, Event, Record, NoProposal, NoOp
    <3> QED
      BY <3>1, <3>3, <3>4, BeginKeepsTypes
  <2>3. ASSUME NEW p \in 1 .. MaxProposal, ApplyWorkflowGraph(p)
        PROVE  TypeInv'
    <3> DEFINE e == Event("applied", p, candidate)
               o == [kind |-> "apply", graph |-> Stamped(candidate),
                     event |-> e]
               first == IF NeedsBackup THEN "backup" ELSE "graph"
    <3>1. Begin(first, o) /\ candidate \in Valid
      BY <2>3 DEF ApplyWorkflowGraph, CandidateMatches, Validates
    <3>2. NextId \in Nat /\ NextId <= MaxEventId
      BY <2>0, <3>1 DEF Begin, Coherent, NextId
    <3>3. e \in EventType /\ Stamped(candidate) \in FileType
      BY <2>0, <3>1, <3>2, FileIsFile DEF EventType, Event, Stamped
    <3>4. o \in OpType
      BY <3>3 DEF OpType
    <3>5. OpInv(o, first, Len(log))
      BY <3>1, HelperLine
      DEF OpInv, Event, Stamped, NextId, NoProposal, NoOp
    <3> QED
      BY <3>1, <3>4, <3>5, BeginKeepsTypes
  <2>4. ASSUME NEW line \in HandLine, AppendEvent(line)
        PROVE  TypeInv'
    <3> DEFINE o == [kind |-> "other", event |-> line]
    <3>1. Begin("append", o) /\ o \in OpType
      BY <2>4 DEF AppendEvent, OpType
    <3>2. OpInv(o, "append", Len(log))
      BY UserLine DEF OpInv, NoOp
    <3> QED
      BY <3>1, <3>2, BeginKeepsTypes
  <2>5. CASE WriteBackup
    <3>1. op.event.proposal \in 1 .. MaxProposal /\ NextId \in 1 .. MaxEventId
      BY <2>0, <2>5 DEF WriteBackup, LogInv, OpInv, TypeOK, OpType, NoOp,
         EventType, NoProposal, NextId
    <3>2. /\ DOMAIN backup' \subseteq (1 .. MaxProposal) \X (1 .. MaxEventId)
          /\ \A q \in DOMAIN backup' : backup'[q] \in FileType \ {NoFile}
      <4>1. CASE graph = NoFile
        BY <2>5, <4>1 DEF WriteBackup, TypeOK
      <4>2. CASE graph # NoFile
        <5> DEFINE path == <<op.event.proposal, NextId>>
        <5>1. backup' = [q \in DOMAIN backup \cup {path} |->
                            IF q = path THEN graph ELSE backup[q]]
          BY <2>5, <4>2 DEF WriteBackup
        <5>2. path \in (1 .. MaxProposal) \X (1 .. MaxEventId)
          BY <3>1
        <5> HIDE DEF path
        <5> QED
          BY <4>2, <5>1, <5>2 DEF TypeOK
      <4> QED
        BY <4>1, <4>2
    <3>4. TypeOK'
      BY <2>5, <3>2 DEF WriteBackup, TypeOK
    <3>3. LogInv' /\ OpInv(op, step, Len(log))'
      BY <2>5 DEF WriteBackup, LogInv, OpInv
    <3> QED
      BY <3>3, <3>4
  <2>6. CASE WriteGraph
    <3>1. op.graph \in FileType
      BY <2>6 DEF WriteGraph, OpInv, TypeOK, OpType, NoOp
    <3>2. TypeOK'
      BY <2>6, <3>1 DEF WriteGraph, TypeOK
    <3>3. LogInv' /\ OpInv(op, step, Len(log))'
      BY <2>6 DEF WriteGraph, LogInv, OpInv
    <3> QED
      BY <3>2, <3>3
  <2>7. CASE AppendLine
    <3>1. op.event \in LineType
      BY <2>7 DEF AppendLine, OpInv, TypeOK, OpType, NoOp, LineType
    <3>2. log' \in Seq(LineType) /\ Len(log') = Len(log) + 1
      BY <2>0, <2>7, <3>1 DEF AppendLine
    <3>3. TypeOK'
      BY <2>7, <3>2 DEF AppendLine, TypeOK
    <3>4. LogInv'
      BY <2>0, <2>7, <3>2 DEF AppendLine, LogInv
    <3>5. OpInv(op, step, Len(log))'
      BY <2>7 DEF AppendLine, OpInv
    <3> QED
      BY <3>3, <3>4, <3>5
  <2>8. CASE WriteRecord
    <3>1. op.event.proposal \in 1 .. MaxProposal /\ op.record \in RecordType
      BY <2>0, <2>8 DEF WriteRecord, OpInv, TypeOK, OpType, NoOp, EventType,
         NoProposal
    <3>2. TypeOK'
      BY <2>8, <3>1 DEF WriteRecord, TypeOK
    <3>3. LogInv' /\ OpInv(op, step, Len(log))'
      BY <2>8 DEF WriteRecord, LogInv, OpInv
    <3> QED
      BY <3>2, <3>3
  <2>9. CASE ReplaceStatus
    <3>1. Len(log) \in 1 .. MaxEventId
      BY <2>0 DEF LogInv, TypeOK
    <3>2. TypeOK'
      BY <2>9, <3>1 DEF ReplaceStatus, TypeOK, OpType
    <3>3. LogInv' /\ OpInv(op, step, Len(log))'
      BY <2>0, <2>9 DEF ReplaceStatus, LogInv, OpInv, NoOp
    <3> QED
      BY <3>2, <3>3
  <2>10. CASE Stop
    <3>1. TypeOK'
      BY <2>10 DEF Stop, TypeOK, OpType
    <3>2. LogInv' /\ OpInv(op, step, Len(log))'
      BY <2>10 DEF Stop, LogInv, OpInv, NoOp
    <3> QED
      BY <3>1, <3>2
  <2>11. CASE EditGraph
    <3>1. graph' \in FileType
      <4>1. CASE graph' = NoFile
        BY <4>1 DEF FileType
      <4>2. CASE \E p \in DOMAIN backup : graph' = backup[p]
        BY <4>2 DEF TypeOK
      <4>3. ASSUME NEW b \in Body, graph' =
              File(b, IF graph = NoFile THEN Unstamped ELSE graph.stamp)
            PROVE  graph' \in FileType
        BY <2>0, <4>3 DEF TypeOK, FileType, File, Unstamped
      <4> QED
        BY <2>11, <4>1, <4>2, <4>3 DEF EditGraph
    <3>2. touched' \in 0 .. MaxEventId + 1 /\ edits' \in 0 .. MaxEdits
      BY <2>0, <2>11 DEF EditGraph, TypeOK, LogInv, NextId
    <3>3. TypeOK'
      BY <2>11, <3>1, <3>2 DEF EditGraph, TypeOK
    <3>4. LogInv' /\ OpInv(op, step, Len(log))'
      BY <2>11 DEF EditGraph, LogInv
    <3> QED
      BY <3>3, <3>4
  <2>12. CASE EditCandidate
    <3>1. TypeOK'
      BY <2>12 DEF EditCandidate, TypeOK
    <3>2. LogInv' /\ OpInv(op, step, Len(log))'
      BY <2>12 DEF EditCandidate, LogInv
    <3> QED
      BY <3>1, <3>2
  <2>13. CASE UNCHANGED vars
    BY <2>13 DEF vars, TypeOK, LogInv
  <2> QED
    BY <2>1, <2>2, <2>3, <2>4, <2>5, <2>6, <2>7, <2>8, <2>9, <2>10, <2>11,
       <2>12, <2>13 DEF Next
<1> QED
  BY <1>1, <1>2, PTL DEF Spec

\* Every variable of the graph store stays within its type: in particular
\* event and proposal ids never exceed their bounds.
THEOREM TypeCorrect == Spec => []TypeOK
BY TypesHold, PTL DEF TypeInv

-----------------------------------------------------------------------------
(***************************************************************************)
(* Proposals in the log, in the directory and in flight.                   *)
(***************************************************************************)

Proposed(lines, p, body) ==
  \E j \in 1 .. Len(lines) :
    /\ Recorded(lines[j]) = "proposed"
    /\ lines[j].proposal = p /\ lines[j].body = body

HasRecord(r, e) == e.proposal \in DOMAIN r /\ r[e.proposal].candidate = e.body

ProposedOnce ==
  \A i, j \in 1 .. Len(log) :
    /\ Recorded(log[i]) = "proposed" /\ Recorded(log[j]) = "proposed"
    /\ log[i].proposal = log[j].proposal
    => i = j

AllRecorded(but) ==
  \A i \in 1 .. Len(log) :
    Recorded(log[i]) = "proposed" => i \in but \/ HasRecord(record, log[i])

\* A proposal in flight has an id of its own until its record is there; an
\* apply in flight, and every record, has its event.
ProposalInv ==
  /\ \A p \in DOMAIN record : Proposed(log, p, record[p].candidate)
  /\ op.kind = "apply" /\ step \in {"backup", "graph", "append"} =>
       Proposed(log, op.event.proposal, op.event.body)
  /\ step = "record" => log[Len(log)] = op.event
  /\ op.kind = "propose" /\ step \in {"append", "record"} =>
       op.event.proposal \notin DOMAIN record
  /\ ProposedOnce
  /\ AllRecorded(IF Coherent \/ step = "status" THEN {} ELSE {Len(log)})
  /\ AppliesWhatWasProposed

LEMMA ProposedStays ==
  ASSUME NEW lines \in Seq(LineType), NEW e \in LineType, NEW p, NEW body,
         Proposed(lines, p, body)
  PROVE  Proposed(Append(lines, e), p, body)
BY DEF Proposed

LEMMA BeginKeepsProposals ==
  ASSUME TypeInv, ProposalInv, NEW first, NEW o, Begin(first, o),
         first \in {"backup", "graph", "append"},
         o.kind = "apply" => Proposed(log, o.event.proposal, o.event.body),
         o.kind = "propose" => o.event.proposal \notin DOMAIN record
  PROVE  ProposalInv'
BY DEF ProposalInv, Begin, ProposedOnce, AllRecorded, Coherent,
       AppliesWhatWasProposed

LEMMA ProposalsHold == Spec => []ProposalInv
<1>1. Init => ProposalInv
  BY HelperLine DEF Init, ProposalInv, ProposedOnce, AllRecorded, NoOp,
         AppliesWhatWasProposed
<1>2. TypeInv /\ ProposalInv /\ [Next]_vars => ProposalInv'
  <2> SUFFICES ASSUME TypeInv, ProposalInv, [Next]_vars PROVE ProposalInv'
    OBVIOUS
  <2>0. last \in Nat /\ Len(log) \in Nat /\ log \in Seq(LineType)
    BY DEF TypeInv, TypeOK
  <2>1. ASSUME NEW b \in Body, InitWorkflowGraph(b)
        PROVE  ProposalInv'
    BY <2>1, BeginKeepsProposals DEF InitWorkflowGraph
  <2>2. CASE ProposeWorkflowGraph
    <3>1. NextProposal \notin DOMAIN record
      BY <2>2, NextProposalIsNew DEF ProposeWorkflowGraph
    <3> QED
      BY <2>2, <3>1, BeginKeepsProposals DEF ProposeWorkflowGraph, Event
  <2>3. ASSUME NEW p \in 1 .. MaxProposal, ApplyWorkflowGraph(p)
        PROVE  ProposalInv'
    <3>1. Proposed(log, p, candidate)
      BY <2>3 DEF ApplyWorkflowGraph, CandidateMatches, ProposalInv
    <3> QED
      BY <2>3, <3>1, BeginKeepsProposals DEF ApplyWorkflowGraph, Event
  <2>4. CASE \E line \in HandLine : AppendEvent(line)
    BY <2>4, BeginKeepsProposals DEF AppendEvent
  <2>5. CASE WriteBackup
    BY <2>5 DEF WriteBackup, ProposalInv, ProposedOnce, AllRecorded, Coherent,
       AppliesWhatWasProposed
  <2>6. CASE WriteGraph
    BY <2>6 DEF WriteGraph, TypeInv, OpInv, ProposalInv, ProposedOnce, AllRecorded, Coherent,
       AppliesWhatWasProposed
  <2>7. CASE AppendLine
    <3> DEFINE n == Len(log) + 1
    <3>1. /\ op.event \in LineType /\ Len(log) = last
          /\ op.kind = "propose" => Recorded(op.event) = "proposed"
          /\ Recorded(op.event) = "proposed" => op.kind = "propose"
          /\ Recorded(op.event) = "applied" => op.kind = "apply"
      BY <2>7
      DEF AppendLine, TypeInv, OpInv, LogInv, TypeOK, OpType, NoOp, LineType
    <3>2. /\ log' = Append(log, op.event) /\ Len(log') = n
          /\ log'[n] = op.event
          /\ \A i \in 1 .. Len(log) : log'[i] = log[i]
          /\ 1 .. n = 1 .. Len(log) \cup {n}
      BY <2>0, <2>7, <3>1 DEF AppendLine
    <3>3. /\ \A p \in DOMAIN record' : Proposed(log', p, record'[p].candidate)
      BY <2>0, <2>7, <3>1, <3>2, ProposedStays DEF AppendLine, ProposalInv
    <3>4. /\ step' \in {"record", "status"}
          /\ step' = "record" <=> op.kind = "propose"
          /\ op' = op /\ record' = record /\ last' = last
      BY <2>7 DEF AppendLine
    <3>5. op.kind = "propose" => op.event.proposal \notin DOMAIN record
      BY <2>7 DEF AppendLine, ProposalInv
    <3>6. AllRecorded({})
      BY <3>1 DEF ProposalInv, Coherent
    <3>7. ProposedOnce'
      <4>1. \A i \in 1 .. Len(log) :
              (Recorded(log[i]) = "proposed"
               /\ Recorded(op.event) = "proposed") =>
                log[i].proposal # op.event.proposal
        BY <3>1, <3>5, <3>6 DEF AllRecorded, HasRecord
      <4> QED
        BY <3>2, <4>1 DEF ProposedOnce, ProposalInv
    <3>8. AllRecorded(IF Coherent \/ step = "status" THEN {} ELSE {Len(log)})'
      BY <2>0, <3>1, <3>2, <3>4, <3>6 DEF AllRecorded, Coherent
    <3>9. AppliesWhatWasProposed'
      <4>1. Recorded(op.event) = "applied" =>
              Proposed(log, op.event.proposal, op.event.body)
        BY <2>7, <3>1 DEF AppendLine, ProposalInv
      <4> SUFFICES ASSUME NEW i \in 1 .. n, Recorded(log'[i]) = "applied"
                   PROVE  \E j \in 1 .. i - 1 :
                            /\ Recorded(log'[j]) = "proposed"
                            /\ log'[j].proposal = log'[i].proposal
                            /\ log'[j].body = log'[i].body
        BY <3>2 DEF AppliesWhatWasProposed
      <4>2. CASE i = n
        BY <2>0, <3>2, <4>1, <4>2 DEF Proposed
      <4>3. CASE i \in 1 .. Len(log)
        BY <2>0, <3>2, <4>3 DEF ProposalInv, AppliesWhatWasProposed
      <4> QED
        BY <3>2, <4>2, <4>3
    <3> QED
      BY <3>2, <3>3, <3>4, <3>5, <3>7, <3>8, <3>9 DEF ProposalInv
  <2>8. CASE WriteRecord
    <3> DEFINE p == op.event.proposal
    <3>1. /\ op.kind = "propose" /\ op.event.body = op.record.candidate
          /\ Recorded(op.event) = "proposed"
          /\ Len(log) # last /\ Len(log) > 0
      BY <2>0, <2>8 DEF WriteRecord, TypeInv, OpInv, LogInv, TypeOK
    <3>2. /\ p \notin DOMAIN record /\ DOMAIN record' = DOMAIN record \cup {p}
          /\ record'[p] = op.record
          /\ \A q \in DOMAIN record : record'[q] = record[q]
          /\ log' = log /\ step' = "status"
      BY <2>8 DEF WriteRecord
    <3>3. log[Len(log)] = op.event
      BY <2>8 DEF WriteRecord, ProposalInv
    <3>4. Proposed(log, p, op.record.candidate)
      BY <2>0, <3>1, <3>3 DEF Proposed
    <3>5. \A q \in DOMAIN record' : Proposed(log, q, record'[q].candidate)
      BY <3>2, <3>4 DEF ProposalInv
    <3>6. AllRecorded({})'
      BY <2>8, <3>1, <3>2, <3>3
         DEF WriteRecord, ProposalInv, AllRecorded, HasRecord, Coherent
    <3>7. ProposedOnce' /\ AppliesWhatWasProposed'
      BY <3>2 DEF ProposalInv, ProposedOnce, AppliesWhatWasProposed
    <3>8. AllRecorded(IF Coherent \/ step = "status" THEN {} ELSE {Len(log)})'
      BY <3>2, <3>6 DEF AllRecorded
    <3> QED
      BY <3>2, <3>5, <3>7, <3>8 DEF ProposalInv
  <2>9. CASE ReplaceStatus
    BY <2>9 DEF ReplaceStatus, ProposalInv, ProposedOnce, AllRecorded,
       Coherent, AppliesWhatWasProposed, NoOp
  <2>10. CASE Stop
    BY <2>10 DEF Stop, ProposalInv, ProposedOnce, AllRecorded, Coherent,
       AppliesWhatWasProposed, NoOp
  <2>11. CASE EditGraph
    BY <2>11 DEF EditGraph, ProposalInv, ProposedOnce, AllRecorded, Coherent,
       AppliesWhatWasProposed
  <2>12. CASE EditCandidate
    BY <2>12 DEF EditCandidate, ProposalInv, ProposedOnce, AllRecorded,
       Coherent, AppliesWhatWasProposed
  <2>13. CASE UNCHANGED vars
    BY <2>13 DEF vars, ProposalInv, ProposedOnce, AllRecorded, Coherent,
       AppliesWhatWasProposed
  <2> QED
    BY <2>1, <2>2, <2>3, <2>4, <2>5, <2>6, <2>7, <2>8, <2>9, <2>10, <2>11,
       <2>12, <2>13 DEF Next
<1> QED
  BY <1>1, <1>2, TypesHold, PTL DEF Spec

\* What is applied was proposed under that id earlier on, whatever happens
\* to the candidate file in between.
THEOREM OnlyProposalsAreApplied == Spec => []AppliesWhatWasProposed
BY ProposalsHold, PTL DEF ProposalInv

\* A proposal id stands for one event, and its record for that event's
\* candidate; only the record of the last event may be missing, in a store
\* that refuses to go on.
THEOREM RecordsFollowLedger == Spec => []ProposalsAreRecorded
<1>1. ProposalInv => ProposalsAreRecorded
  BY DEF ProposalInv, ProposalsAreRecorded, ProposedOnce, AllRecorded,
         HasRecord, Coherent
<1> QED
  BY <1>1, ProposalsHold, PTL

-----------------------------------------------------------------------------
(***************************************************************************)
(* Stamps: nothing bears the id of an event that is still to come, but for *)
(* the next one.                                                           *)
(***************************************************************************)

StampBelow(file, n) == file # NoFile => file.stamp < n

StampInv ==
  /\ touched <= Len(log) + 1
  /\ StampBelow(graph, Len(log) + 2)
  /\ \A q \in DOMAIN backup : StampBelow(backup[q], Len(log) + 2)
  /\ \A p \in DOMAIN record : StampBelow(record[p].base, Len(log) + 1)
  /\ op.kind = "propose" =>
       /\ step = "append" => StampBelow(op.record.base, Len(log) + 2)
       /\ step = "record" => StampBelow(op.record.base, Len(log) + 1)
  /\ op.kind = "apply" /\ step \in {"backup", "graph", "append"} =>
       op.event.proposal \in DOMAIN record
  /\ \A i \in 1 .. Len(log) :
       Recorded(log[i]) = "applied" =>
         /\ log[i].proposal \in DOMAIN record
         /\ StampBelow(record[log[i].proposal].base, i)

LEMMA StampsAreNumbers ==
  ASSUME TypeInv
  PROVE  /\ \A n \in Nat : StampBelow(graph, n) => StampBelow(graph, n + 1)
         /\ \A q \in DOMAIN backup, n \in Nat :
              StampBelow(backup[q], n) => StampBelow(backup[q], n + 1)
         /\ \A p \in DOMAIN record, n \in Nat :
              StampBelow(record[p].base, n) => StampBelow(record[p].base, n + 1)
<1>1. \A f \in FileType : f # NoFile => f.stamp \in Nat
  BY GraphProposalsAssumption DEF FileType
<1> QED
  BY <1>1 DEF TypeInv, TypeOK, RecordType, StampBelow

LEMMA BeginKeepsStamps ==
  ASSUME TypeInv, StampInv, NEW first, NEW o, Begin(first, o),
         first \in {"backup", "graph", "append"},
         o.kind = "apply" => o.event.proposal \in DOMAIN record,
         o.kind = "propose" => o.record.base = graph
  PROVE  StampInv'
BY DEF StampInv, Begin

LEMMA StampsHold == Spec => []StampInv
<1>1. Init => StampInv
  BY HelperLine DEF Init, StampInv, NoOp, StampBelow
<1>2. TypeInv /\ StampInv /\ [Next]_vars => StampInv'
  <2> SUFFICES ASSUME TypeInv, StampInv, [Next]_vars PROVE StampInv'
    OBVIOUS
  <2>0. /\ Len(log) \in Nat /\ log \in Seq(LineType) /\ touched \in Nat
        /\ MaxEventId \in Nat
    BY GraphProposalsAssumption DEF TypeInv, TypeOK
  <2>1. ASSUME NEW b \in Body, InitWorkflowGraph(b)
        PROVE  StampInv'
    BY <2>1, BeginKeepsStamps DEF InitWorkflowGraph
  <2>2. CASE ProposeWorkflowGraph
    BY <2>2, BeginKeepsStamps DEF ProposeWorkflowGraph, Record
  <2>3. ASSUME NEW p \in 1 .. MaxProposal, ApplyWorkflowGraph(p)
        PROVE  StampInv'
    BY <2>3, BeginKeepsStamps DEF ApplyWorkflowGraph, Event
  <2>4. CASE \E line \in HandLine : AppendEvent(line)
    BY <2>4, BeginKeepsStamps DEF AppendEvent
  <2>5. CASE WriteBackup
    <3>1. \A q \in DOMAIN backup' : StampBelow(backup'[q], Len(log) + 2)
      <4>1. CASE graph = NoFile
        BY <2>5, <4>1 DEF WriteBackup, StampInv
      <4>2. CASE graph # NoFile
        <5> DEFINE path == <<op.event.proposal, NextId>>
        <5>1. backup' = [q \in DOMAIN backup \cup {path} |->
                            IF q = path THEN graph ELSE backup[q]]
          BY <2>5, <4>2 DEF WriteBackup
        <5> HIDE DEF path
        <5> QED
          BY <5>1 DEF StampInv
      <4> QED
        BY <4>1, <4>2
    <3> QED
      BY <2>5, <3>1 DEF WriteBackup, StampInv
  <2>6. CASE WriteGraph
    <3>1. /\ op.graph = File(op.event.body, Len(log) + 1)
          /\ op.kind \in {"init", "apply"}
      BY <2>6 DEF WriteGraph, TypeInv, OpInv
    <3>2. StampBelow(graph', Len(log) + 2)
      BY <2>0, <2>6, <3>1 DEF WriteGraph, StampBelow, File
    <3> QED
      BY <2>6, <3>1, <3>2 DEF WriteGraph, StampInv
  <2>7. CASE AppendLine
    <3> DEFINE n == Len(log) + 1
    <3>1. /\ op.event \in LineType
          /\ Recorded(op.event) = "applied" => op.kind = "apply"
      BY <2>7 DEF AppendLine, TypeInv, OpInv, TypeOK, OpType, NoOp, LineType
    <3>2. /\ Len(log') = n /\ log'[n] = op.event
          /\ \A i \in 1 .. Len(log) : log'[i] = log[i]
          /\ 1 .. n = 1 .. Len(log) \cup {n}
      BY <2>0, <2>7, <3>1 DEF AppendLine
    <3>3. /\ touched <= n + 1
          /\ StampBelow(graph, n + 2)
          /\ \A q \in DOMAIN backup : StampBelow(backup[q], n + 2)
          /\ \A p \in DOMAIN record : StampBelow(record[p].base, n + 1)
      BY <2>0, StampsAreNumbers DEF StampInv
    <3>4. op.kind = "propose" => StampBelow(op.record.base, n + 1)
      BY <2>0, <2>7 DEF AppendLine, StampInv
    <3>5. \A i \in 1 .. n :
            Recorded(log'[i]) = "applied" =>
              /\ log'[i].proposal \in DOMAIN record
              /\ StampBelow(record[log'[i].proposal].base, i)
      BY <2>7, <3>1, <3>2 DEF AppendLine, StampInv
    <3>6. /\ step' \in {"record", "status"}
          /\ UNCHANGED <<op, graph, record, backup, touched>>
      BY <2>7 DEF AppendLine
    <3> QED
      BY <3>2, <3>3, <3>4, <3>5, <3>6 DEF StampInv
  <2>8. CASE WriteRecord
    <3> DEFINE p == op.event.proposal
    <3>1. /\ p \notin DOMAIN record /\ DOMAIN record' = DOMAIN record \cup {p}
          /\ record'[p] = op.record
          /\ \A q \in DOMAIN record : record'[q] = record[q]
          /\ op.kind = "propose" /\ StampBelow(op.record.base, Len(log) + 1)
      BY <2>8 DEF WriteRecord, StampInv, TypeInv, OpInv
    <3> QED
      BY <2>8, <3>1 DEF WriteRecord, StampInv
  <2>9. CASE ReplaceStatus
    BY <2>9 DEF ReplaceStatus, StampInv, NoOp
  <2>10. CASE Stop
    BY <2>10 DEF Stop, StampInv, NoOp
  <2>11. CASE EditGraph
    <3>1. StampBelow(graph', Len(log) + 2)
      <4>1. ASSUME NEW b \in Body, graph' =
              File(b, IF graph = NoFile THEN Unstamped ELSE graph.stamp)
            PROVE  StampBelow(graph', Len(log) + 2)
        BY <2>0, <4>1 DEF StampInv, StampBelow, File, Unstamped
      <4> QED
        BY <2>11, <4>1 DEF EditGraph, StampInv, StampBelow
    <3>2. touched' = Len(log) + 1
      BY <2>11 DEF EditGraph, NextId
    <3> QED
      BY <2>0, <2>11, <3>1, <3>2 DEF EditGraph, StampInv
  <2>12. CASE EditCandidate
    BY <2>12 DEF EditCandidate, StampInv
  <2>13. CASE UNCHANGED vars
    BY <2>13 DEF vars, StampInv
  <2> QED
    BY <2>1, <2>2, <2>3, <2>4, <2>5, <2>6, <2>7, <2>8, <2>9, <2>10, <2>11,
       <2>12, <2>13 DEF Next
<1> QED
  BY <1>1, <1>2, TypesHold, PTL DEF Spec

-----------------------------------------------------------------------------
(***************************************************************************)
(* The graph, the log and the backups.                                     *)
(***************************************************************************)

IsGraphEvent(e) == Recorded(e) \in {"initialized", "applied"}

\* The graph bears the stamp of the last graph event or a later one, unless
\* a hand changed it since that event.
GraphSince(i) ==
  touched < i =>
    /\ graph # NoFile
    /\ graph.stamp >= i
    /\ graph.stamp = i => graph = File(log[i].body, i)

AppliedByHand(p) ==
  \A i \in 1 .. Len(log) :
    Recorded(log[i]) = "applied" /\ log[i].proposal = p => touched >= i

BackedUp(path) == path \in DOMAIN backup /\ backup[path] = graph

GraphInv ==
  /\ \A i \in 1 .. Len(log) : IsGraphEvent(log[i]) => GraphSince(i)
  /\ step = "append" /\ op.kind \in {"init", "apply"} =>
       touched = NextId \/ graph = op.graph
  /\ op.kind = "apply" /\ step \in {"backup", "graph", "append"} =>
       AppliedByHand(op.event.proposal)
  /\ step = "graph" /\ op.kind = "apply" /\ graph # NoFile =>
       touched = NextId \/ BackedUp(<<op.event.proposal, NextId>>)

LEMMA BeginKeepsGraph ==
  ASSUME TypeInv, GraphInv, NEW first, NEW o, Begin(first, o),
         o.kind = "apply" => AppliedByHand(o.event.proposal),
         first = "append" => o.kind \notin {"init", "apply"},
         first = "graph" => o.kind # "apply" \/ graph = NoFile
  PROVE  GraphInv'
BY DEF GraphInv, Begin, AppliedByHand, GraphSince, BackedUp, NextId

\* The graph an init or an apply is about to write is a graph.
LEMMA GraphInFlight ==
  ASSUME TypeInv, step \in {"backup", "graph", "append"},
         op.kind \in {"init", "apply"}
  PROVE  op.graph = File(op.event.body, Len(log) + 1) /\ op.graph # NoFile
<1>1. /\ op.graph = File(op.event.body, Len(log) + 1)
      /\ op.event.body \in Body
      /\ Len(log) + 1 \in Nat /\ Len(log) + 1 <= MaxEventId
  BY GraphProposalsAssumption DEF TypeInv, TypeOK, OpInv, LogInv
<1> QED
  BY <1>1, FileIsFile

LEMMA GraphHolds == Spec => []GraphInv
<1>1. Init => GraphInv
  BY HelperLine DEF Init, GraphInv, NoOp, IsGraphEvent
<1>2. TypeInv /\ StampInv /\ GraphInv /\ [Next]_vars => GraphInv'
  <2> SUFFICES ASSUME TypeInv, StampInv, GraphInv, [Next]_vars PROVE GraphInv'
    OBVIOUS
  <2>0. /\ Len(log) \in Nat /\ log \in Seq(LineType) /\ touched \in Nat
        /\ \A f \in FileType : f # NoFile => f.stamp \in Nat
    BY GraphProposalsAssumption DEF TypeInv, TypeOK, FileType
  <2>1. ASSUME NEW b \in Body, InitWorkflowGraph(b)
        PROVE  GraphInv'
    BY <2>1, BeginKeepsGraph DEF InitWorkflowGraph
  <2>2. CASE ProposeWorkflowGraph
    BY <2>2, BeginKeepsGraph DEF ProposeWorkflowGraph
  <2>3. ASSUME NEW p \in 1 .. MaxProposal, ApplyWorkflowGraph(p)
        PROVE  GraphInv'
    <3>1. AppliedByHand(p)
      <4> SUFFICES ASSUME NEW i \in 1 .. Len(log), Recorded(log[i]) = "applied",
                          log[i].proposal = p, touched < i
                   PROVE  FALSE
        BY <2>0 DEF AppliedByHand
      <4>1. graph # NoFile /\ graph.stamp >= i
        BY DEF GraphInv, IsGraphEvent, GraphSince
      <4>2. StampBelow(record[p].base, i) /\ graph = record[p].base
        BY <2>3 DEF StampInv, ApplyWorkflowGraph, BaseMatches
      <4>3. graph.stamp \in Nat
        BY <2>0, <4>1 DEF TypeInv, TypeOK
      <4> QED
        BY <4>1, <4>2, <4>3 DEF StampBelow
    <3> DEFINE o == [kind |-> "apply", graph |-> Stamped(candidate),
                     event |-> Event("applied", p, candidate)]
    <3>2. /\ Begin(IF NeedsBackup THEN "backup" ELSE "graph", o)
          /\ o.event.proposal = p
      BY <2>3 DEF ApplyWorkflowGraph, Event
    <3> HIDE DEF o
    <3> QED
      BY <3>1, <3>2, BeginKeepsGraph DEF NeedsBackup
  <2>4. CASE \E line \in HandLine : AppendEvent(line)
    BY <2>4, BeginKeepsGraph DEF AppendEvent
  <2>5. CASE WriteBackup
    <3> DEFINE path == <<op.event.proposal, NextId>>
    <3>1. graph # NoFile => BackedUp(path)'
      BY <2>5 DEF WriteBackup, BackedUp, NextId
    <3>2. step' = "graph" /\ UNCHANGED <<graph, log, op, touched>>
          /\ op.kind = "apply" /\ step = "backup"
      BY <2>5 DEF WriteBackup, TypeInv, OpInv
    <3> QED
      BY <3>1, <3>2 DEF GraphInv, AppliedByHand, GraphSince, NextId
  <2>6. CASE WriteGraph
    <3>1. /\ op.graph = File(op.event.body, Len(log) + 1)
          /\ op.kind \in {"init", "apply"} /\ op.graph # NoFile
      BY <2>6, GraphInFlight DEF WriteGraph, TypeInv, OpInv
    <3>2. \A i \in 1 .. Len(log) : GraphSince(i)'
      BY <2>0, <2>6, <3>1 DEF WriteGraph, GraphSince, File
    <3> QED
      BY <2>6, <3>1, <3>2 DEF WriteGraph, GraphInv, AppliedByHand
  <2>7. CASE AppendLine
    <3>0. PICK n \in Nat : n = Len(log) + 1
      BY <2>0
    <3>1. /\ op.event \in LineType
          /\ IsGraphEvent(op.event) => /\ op.kind \in {"init", "apply"}
                                      /\ op.graph = File(op.event.body, n)
                                      /\ op.graph # NoFile
      BY <2>7, <3>0, GraphInFlight
         DEF AppendLine, TypeInv, OpInv, TypeOK, OpType, NoOp, IsGraphEvent,
             LineType
    <3>2. /\ Len(log') = n /\ log'[n] = op.event
          /\ \A i \in 1 .. Len(log) : log'[i] = log[i]
          /\ 1 .. n = 1 .. Len(log) \cup {n}
      BY <2>0, <2>7, <3>0, <3>1 DEF AppendLine
    <3>3. IsGraphEvent(op.event) => touched >= n \/ graph = op.graph
      BY <2>0, <2>7, <3>0, <3>1 DEF AppendLine, GraphInv, NextId
    <3>4. IsGraphEvent(op.event) => GraphSince(n)'
      BY <2>0, <2>7, <3>1, <3>2, <3>3 DEF AppendLine, GraphSince, File
    <3>5. \A i \in 1 .. Len(log) : IsGraphEvent(log[i]) => GraphSince(i)'
      BY <2>7, <3>2 DEF AppendLine, GraphInv, GraphSince
    <3> QED
      BY <2>7, <3>2, <3>4, <3>5 DEF AppendLine, GraphInv
  <2>8. CASE WriteRecord
    BY <2>8 DEF WriteRecord, GraphInv, GraphSince
  <2>9. CASE ReplaceStatus
    BY <2>9 DEF ReplaceStatus, GraphInv, GraphSince, NoOp
  <2>10. CASE Stop
    BY <2>10 DEF Stop, GraphInv, GraphSince, NoOp
  <2>11. CASE EditGraph
    BY <2>0, <2>11 DEF EditGraph, GraphInv, GraphSince, AppliedByHand, NextId
  <2>12. CASE EditCandidate
    BY <2>12 DEF EditCandidate, GraphInv, GraphSince, AppliedByHand, BackedUp,
       NextId
  <2>13. CASE UNCHANGED vars
    BY <2>13 DEF vars, GraphInv, GraphSince, AppliedByHand, BackedUp, NextId
  <2> QED
    BY <2>1, <2>2, <2>3, <2>4, <2>5, <2>6, <2>7, <2>8, <2>9, <2>10, <2>11,
       <2>12, <2>13 DEF Next
<1> QED
  BY <1>1, <1>2, TypesHold, StampsHold, PTL DEF Spec

\* Since the last graph event the graph is what that event says, unless it
\* was changed by hand or a later command stopped short of its own event.
THEOREM GraphIsAsRecorded == Spec => []GraphFollowsLedger
<1>1. TypeInv /\ GraphInv => GraphFollowsLedger
  <2> SUFFICES ASSUME TypeInv, GraphInv, GraphEvents # {},
                      touched < Max(GraphEvents)
               PROVE  /\ graph # NoFile
                      /\ \/ graph = File(log[Max(GraphEvents)].body,
                                         Max(GraphEvents))
                         \/ graph.stamp > Max(GraphEvents)
    BY DEF GraphFollowsLedger
  <2>1. Len(log) \in Nat /\ GraphEvents \in SUBSET (0 .. Len(log))
    BY DEF TypeInv, TypeOK, GraphEvents
  <2>2. PICK e \in GraphEvents : e = Max(GraphEvents)
    BY <2>1, MaxIsLargest
  <2>3. GraphSince(e)
    BY DEF GraphInv, GraphEvents, IsGraphEvent
  <2>4. e \in Nat /\ \A f \in FileType : f # NoFile => f.stamp \in Nat
    BY <2>1, GraphProposalsAssumption DEF FileType
  <2> QED
    BY <2>2, <2>3, <2>4 DEF GraphSince, TypeInv, TypeOK
<1> QED
  BY <1>1, TypesHold, GraphHolds, PTL

\* An approved proposal is applied once: never again unless the graph was
\* changed by hand after it was.
THEOREM ApprovalCountsOnce == Spec => AppliedOnce
<1> DEFINE A == \A i \in 1 .. Len(log) :
                  /\ Recorded(log[i]) = "applied"
                  /\ Recorded(log'[Len(log')]) = "applied"
                  /\ log'[Len(log')].proposal = log[i].proposal
                  => touched >= i
<1>1. TypeInv /\ GraphInv /\ [Next]_vars => [A]_log
  <2> SUFFICES ASSUME TypeInv, GraphInv, Next, log' # log PROVE A
    BY DEF vars
  <2>1. AppendLine
    BY DEF Next, InitWorkflowGraph, ProposeWorkflowGraph, ApplyWorkflowGraph,
       AppendEvent, Begin, WriteBackup, WriteGraph, WriteRecord,
       ReplaceStatus, Stop, EditGraph, EditCandidate
  <2>2. /\ op.event \in LineType /\ log \in Seq(LineType)
        /\ Recorded(op.event) = "applied" => op.kind = "apply"
    BY <2>1 DEF AppendLine, TypeInv, OpInv, TypeOK, OpType, NoOp, LineType
  <2>3. log'[Len(log')] = op.event
    BY <2>1, <2>2 DEF AppendLine
  <2> QED
    BY <2>1, <2>2, <2>3 DEF AppendLine, GraphInv, AppliedByHand
<1> QED
  BY <1>1, TypesHold, GraphHolds, PTL DEF Spec, AppliedOnce

\* The graph an apply replaces is in the backup of that apply, unless a hand
\* changed it while the command ran.
THEOREM ReplacedGraphIsKept == Spec => OverwriteIsBackedUp
<1> DEFINE A == step = "graph" /\ op.kind = "apply" /\ graph # NoFile =>
                  \/ touched = NextId
                  \/ /\ <<op.event.proposal, NextId>> \in DOMAIN backup
                     /\ backup[<<op.event.proposal, NextId>>] = graph
<1>1. GraphInv => A
  BY DEF GraphInv, BackedUp
<1>2. [][A]_graph <=> OverwriteIsBackedUp
  BY DEF OverwriteIsBackedUp
<1> HIDE DEF A
<1>3. GraphInv => [A]_graph
  BY <1>1
<1> QED
  BY <1>2, <1>3, GraphHolds, PTL
-----------------------------------------------------------------------------
(***************************************************************************)
(* The event log and status.json implement EventLedger, with files written *)
(* before the append as well as after it.                                  *)
(***************************************************************************)

\* The events status.json has caught up with.
Committed == SubSeq(log, 1, last)

\* The log is ahead of status.json and no command in flight will mend that.
Frozen == ~Coherent /\ step \notin {"record", "status"}

Ledger == INSTANCE EventLedger WITH
            Writer <- LineType, committed <- Committed, frozen <- Frozen

\* The beginning of a log grows by the line after it.
LEMMA PrefixGrows ==
  ASSUME NEW S, NEW lines \in Seq(S), NEW n \in Nat, Len(lines) = n + 1
  PROVE  SubSeq(lines, 1, n + 1) = Append(SubSeq(lines, 1, n), lines[n + 1])
<1>1. /\ 1 \in 1 .. Len(lines) /\ n + 1 \in 1 .. Len(lines)
      /\ (n + 1) - 1 = n
  OBVIOUS
<1>2. SubSeq(lines, 1, n + 1) = SubSeq(lines, 1, n) \o <<lines[n + 1]>>
  <2>1. SubSeq(lines, 1, n + 1) =
          SubSeq(lines, 1, (n + 1) - 1) \o <<lines[n + 1]>>
    BY <1>1, SubSeqRecursiveSecond
  <2> QED
    BY <1>1, <2>1
<1>3. SubSeq(lines, 1, n) \in Seq(S) /\ lines[n + 1] \in S
  OBVIOUS
<1> QED
  BY <1>2, <1>3, AppendIsConcat

\* A graph command commits one event or none.  The backup and the graph it
\* writes before the append freeze nothing when it stops there; the record
\* it writes after the append does.
THEOREM ImplementsLedger == Spec => Ledger!Spec
<1> USE GraphProposalsAssumption
<1>1. Init => Ledger!Init
  <2> SUFFICES ASSUME Init PROVE Ledger!Init
    OBVIOUS
  <2>1. Len(log) = 1 /\ last = 1 /\ log = SubSeq(log, 1, 1)
    BY DEF Init
  <2> QED
    BY <2>1 DEF Init, Ledger!Init, Committed, Frozen, Coherent
<1>3. TypeInv /\ [Next]_vars => [Ledger!Next]_(Ledger!vars)
  <2> SUFFICES ASSUME TypeInv, [Next]_vars
               PROVE  [Ledger!Next]_(Ledger!vars)
    OBVIOUS
  <2>1. /\ log \in Seq(LineType) /\ Len(log) \in Nat /\ last \in Nat
        /\ last <= Len(log) /\ Len(log) <= MaxEventId
    BY DEF TypeInv, TypeOK, LogInv
  <2>2. CASE AppendLine
    <3>1. PICK e : log' = Append(log, e)
      BY <2>2 DEF AppendLine
    <3>2. Committed' = Committed
      BY <2>1, <2>2, <3>1 DEF Committed, AppendLine
    <3>3. ~Frozen /\ ~Frozen'
      BY <2>2 DEF Frozen, AppendLine, TypeInv, TypeOK, LogInv,
         Coherent
    <3> QED
      BY <3>2, <3>3 DEF Ledger!vars, Frozen
  <2>3. CASE ReplaceStatus
    <3>1. Len(log) = last + 1 /\ last' = last + 1 /\ log' = log
      BY <2>3 DEF ReplaceStatus, TypeInv, TypeOK, LogInv
    <3>2. Len(Committed) = last /\ log[last + 1] \in LineType
      BY <2>1, <3>1 DEF Committed
    <3>3. Committed' = Append(Committed, log[last + 1])
      BY <2>1, <3>1, PrefixGrows DEF Committed
    <3>4. ~Frozen /\ ~Frozen'
      BY <2>3, <3>1 DEF Frozen, ReplaceStatus, Coherent
    <3> QED
      BY <2>1, <3>1, <3>2, <3>3, <3>4
      DEF Ledger!Next, Ledger!Commit, Frozen
  <2>4. CASE log' = log /\ last' = last /\ (Frozen => Frozen')
    BY <2>4 DEF Committed, Frozen, Ledger!Next, Ledger!Freeze, Ledger!vars
  <2>5. CASE ~AppendLine /\ ~ReplaceStatus
    <3>1. log' = log /\ last' = last
      BY <2>5 DEF Next, vars,
       InitWorkflowGraph, ProposeWorkflowGraph, ApplyWorkflowGraph,
       AppendEvent, Begin, WriteBackup, WriteGraph, WriteRecord, EditGraph,
       EditCandidate, Stop
    <3>2. Frozen => Frozen'
      BY <2>5, <3>1 DEF Frozen, Coherent, Next, vars,
       InitWorkflowGraph, ProposeWorkflowGraph, ApplyWorkflowGraph,
       AppendEvent, Begin, WriteBackup, WriteGraph, WriteRecord, EditGraph,
       EditCandidate, Stop
    <3> QED
      BY <2>4, <3>1, <3>2
  <2> QED
    BY <2>2, <2>3, <2>5
<1> QED
  BY <1>1, <1>3, TypesHold, PTL DEF Spec, Ledger!Spec
=============================================================================
