--------------------------- MODULE GraphProposals ---------------------------
(***************************************************************************)
(* The workflow graph of a project (internal/project/graph.go).  init      *)
(* writes .kkachi-workflow.yaml; a change is proposed, which records the   *)
(* base and candidate checksums, and applied later if neither moved since. *)
(* The graph and a backup of its predecessor are written before the event, *)
(* a proposal record after it.  People may edit, delete and restore the    *)
(* graph and edit the candidate at any time.  Commands run one at a time   *)
(* (OneWriter of HelperState); one may stop before any of its writes.      *)
(***************************************************************************)
EXTENDS Naturals, Sequences, FiniteSets, FiniteSetsExt

CONSTANTS
  Body,          \* what a graph file may hold besides the id of its event
  Valid,         \* the bodies that validate
  Repairable,    \* those that do not, and a complete candidate may replace
  NoFile,        \* there is no such file
  HandLine,      \* the events people append with event append
  MaxEdits,      \* how often a person changes the graph or the candidate
  MaxProposal,   \* the last proposal id: gprop-999999 in the code
  MaxEventId     \* the last event id: evt-999999 in the code

ASSUME GraphProposalsAssumption ==
  /\ Valid \subseteq Body
  /\ Repairable \subseteq Body \ Valid
  /\ NoFile \notin Body \cup [body : Body, stamp : Nat]
  /\ HandLine \subseteq [by : {"user"}, type : STRING, proposal : Nat,
                          body : Body \cup {NoFile}]
  /\ {MaxEdits, MaxProposal} \subseteq Nat
  /\ MaxEventId \in Nat \ {0}

VARIABLES
  graph,      \* .kkachi-workflow.yaml
  candidate,  \* the body of the candidate file
  record,     \* proposal id -> its record under .kkachi/graph/proposals
  backup,     \* <<proposal, event>> -> the file under backups/graph-repairs
  log,        \* events.jsonl
  last,       \* last_event_id in status.json
  op,         \* the command in flight: the files and event it will write
  step,       \* its next file write, or "idle"
  touched,    \* the event id next in line when the graph last changed by
              \* hand, 0 if it never did (for the properties only)
  edits       \* how many edits by hand there were

vars ==
  <<graph, candidate, record, backup, log, last, op, step, touched, edits>>

\* A graph file: its body and metadata.last_applied_event_id.
Unstamped == 0
File(body, stamp) == [body |-> body, stamp |-> stamp]
Record(base, body) == [base |-> base, candidate |-> body]

\* validateWorkflowGraph finds no issue; when it does, a complete candidate
\* may take the place of the graph unless the source itself is forbidden.
Validates(body) == body \in Valid
CanBeReplaced(body) == body \in Repairable

NoProposal == 0
Event(type, proposal, body) ==
  [by |-> "helper", type |-> type, proposal |-> proposal, body |-> body]

\* What the helper recorded: a line that was appended with event append looks
\* like its own, and only the properties tell them apart.
Recorded(line) == IF line.by = "helper" THEN line.type ELSE "other"

NextId == Len(log) + 1
NoOp == [kind |-> "none"]

Init ==
  /\ graph     = NoFile
  /\ candidate \in Valid
  /\ record    = [p \in {} |-> NoFile]
  /\ backup    = [p \in {} |-> NoFile]
  /\ log       = <<Event("other", NoProposal, NoFile)>>
  /\ last      = 1
  /\ op        = NoOp
  /\ step      = "idle"
  /\ touched   = 0
  /\ edits     = 0

Coherent == Len(log) = last

\* (Mutant of Begin: one event too many.)
BeginOnceMore(first, o) ==
  /\ step = "idle" /\ Coherent /\ last <= MaxEventId
  /\ op' = o /\ step' = first
  /\ UNCHANGED <<graph, candidate, record, backup, log, last, touched,
                 edits>>

\* A command that passed its checks goes on to its first write.
Begin(first, o) ==
  /\ step = "idle"
  /\ Coherent
  /\ last < MaxEventId
  /\ op' = o
  /\ step' = first
  /\ UNCHANGED <<graph, candidate, record, backup, log, last, touched,
                 edits>>

\* (Mutants of Stamped: the stamp is forgotten, or names the event before.)
NotStamped(body) == File(body, Unstamped)
StampedBehind(body) == File(body, Len(log))

\* What init and apply write: the body and the id of their own event.
Stamped(body) == File(body, NextId)

InitWorkflowGraph(body) ==
  /\ graph = NoFile
  /\ Validates(body)
  /\ Begin("graph", [kind |-> "init", graph |-> Stamped(body),
                     event |-> Event("initialized", NoProposal, body)])

\* (Mutant of NextProposal: the comparison with the ids in use is strict.)
NextProposalStrict ==
  IF \E p \in DOMAIN record : p > 1 THEN Max(DOMAIN record) + 1 ELSE 1

\* nextGraphProposalPath: one more than the largest id in the directory
NextProposal == Max(DOMAIN record \cup {0}) + 1

\* A base that validates, is missing, or can be repaired by replacement.
UsableBase ==
  graph # NoFile => Validates(graph.body) \/ CanBeReplaced(graph.body)

ProposeWorkflowGraph ==
  /\ UsableBase
  /\ Validates(candidate)
  /\ NextProposal <= MaxProposal
  /\ Begin("append", [kind |-> "propose",
                      record |-> Record(graph, candidate),
                      event |-> Event("proposed", NextProposal, candidate)])

\* (Mutant of CandidateMatches: a candidate that validates will do.)
CandidateValid(p) == Validates(candidate)

\* The candidate validates and is the one the proposal recorded.
CandidateMatches(p) ==
  Validates(candidate) /\ candidate = record[p].candidate

\* graphProposalBaseMatchesCurrent: the checksum tells stamps apart too.
BaseMatches(p) == graph = record[p].base

\* (Mutant of NeedsBackup: only a graph that does not validate is kept.)
NeedsBackupForRepair == graph # NoFile /\ ~Validates(graph.body)

NeedsBackup == graph # NoFile

ApplyWorkflowGraph(p) ==
  /\ p \in DOMAIN record
  /\ UsableBase
  /\ BaseMatches(p)
  /\ CandidateMatches(p)
  /\ Begin(IF NeedsBackup THEN "backup" ELSE "graph",
           [kind |-> "apply", graph |-> Stamped(candidate),
            event |-> Event("applied", p, candidate)])

\* event append, of any type; other commands of the helper are like it.
AppendEvent(line) == Begin("append", [kind |-> "other", event |-> line])

-----------------------------------------------------------------------------
\* writeGraphRepairBackup copies the graph as it is by now, if it is still
\* there, and never replaces a backup: a second try under the same event id
\* finds the backup of the first and fails.
WriteBackup ==
  /\ step = "backup"
  /\ LET path == <<op.event.proposal, NextId>>
     IN  \/ /\ graph # NoFile
            /\ path \notin DOMAIN backup
            /\ backup' = [q \in DOMAIN backup \cup {path} |->
                            IF q = path THEN graph ELSE backup[q]]
         \/ graph = NoFile /\ UNCHANGED backup
  /\ step' = "graph"
  /\ UNCHANGED <<graph, candidate, record, log, last, op, touched,
                 edits>>

\* init creates the file, apply replaces whatever is there by now.
WriteGraph ==
  /\ step = "graph"
  /\ op.kind = "init" => graph = NoFile
  /\ graph' = op.graph
  /\ step' = "append"
  /\ UNCHANGED <<candidate, record, backup, log, last, op, touched,
                 edits>>

AppendLine ==
  /\ step = "append"
  /\ log' = Append(log, op.event)
  /\ step' = IF op.kind = "propose" THEN "record" ELSE "status"
  /\ UNCHANGED <<graph, candidate, record, backup, last, op, touched,
                 edits>>

\* The proposal record is written by the status hook and never replaced.
WriteRecord ==
  /\ step = "record"
  /\ op.event.proposal \notin DOMAIN record
  /\ record' = [p \in DOMAIN record \cup {op.event.proposal} |->
                  IF p = op.event.proposal THEN op.record ELSE record[p]]
  /\ step' = "status"
  /\ UNCHANGED <<graph, candidate, backup, log, last, op, touched,
                 edits>>

ReplaceStatus ==
  /\ step = "status"
  /\ last' = Len(log)
  /\ step' = "idle"
  /\ op' = NoOp
  /\ UNCHANGED <<graph, candidate, record, backup, log, touched,
                 edits>>

\* The next write fails, or the process is killed before it.
Stop ==
  /\ step # "idle"
  /\ step' = "idle"
  /\ op' = NoOp
  /\ UNCHANGED <<graph, candidate, record, backup, log, last, touched,
                 edits>>

-----------------------------------------------------------------------------
\* A person deletes the graph, restores a backup, writes a new file, or
\* edits the body and leaves the stamp as it is.
EditGraph ==
  /\ \/ graph' = NoFile
     \/ \E p \in DOMAIN backup : graph' = backup[p]
     \/ \E b \in Body :
          graph' = File(b, IF graph = NoFile THEN Unstamped ELSE graph.stamp)
  /\ graph' # graph
  /\ edits < MaxEdits
  /\ touched' = NextId
  /\ edits' = edits + 1
  /\ UNCHANGED <<candidate, record, backup, log, last, op, step>>

\* Somebody edits or deletes the candidate file.
EditCandidate ==
  /\ edits < MaxEdits
  /\ edits' = edits + 1
  /\ candidate' \in (Body \cup {NoFile}) \ {candidate}
  /\ UNCHANGED <<graph, record, backup, log, last, op, step, touched>>

Next ==
  \/ \E b \in Body : InitWorkflowGraph(b)
  \/ ProposeWorkflowGraph
  \/ \E p \in 1 .. MaxProposal : ApplyWorkflowGraph(p)
  \/ \E line \in HandLine : AppendEvent(line)
  \/ WriteBackup \/ WriteGraph \/ AppendLine \/ WriteRecord
  \/ ReplaceStatus \/ Stop
  \/ EditGraph \/ EditCandidate

Spec == Init /\ [][Next]_vars

-----------------------------------------------------------------------------
(* Properties *)

FileType == [body : Body, stamp : 0 .. MaxEventId] \cup {NoFile}
RecordType == [base : FileType, candidate : Valid]
EventType ==
  [by : {"helper"}, type : {"other", "initialized", "proposed", "applied"},
   proposal : 0 .. MaxProposal, body : Valid \cup {NoFile}]
LineType == EventType \cup HandLine
OpType ==
  {NoOp} \cup [kind : {"other"}, event : HandLine]
    \cup [kind : {"init", "apply"}, graph : FileType, event : EventType]
    \cup [kind : {"propose"}, record : RecordType, event : EventType]

\* Every variable stays within its type.
TypeOK ==
  /\ graph \in FileType
  /\ candidate \in Body \cup {NoFile}
  /\ DOMAIN record \subseteq 1 .. MaxProposal
  /\ \A p \in DOMAIN record : record[p] \in RecordType
  /\ DOMAIN backup \subseteq (1 .. MaxProposal) \X (1 .. MaxEventId)
  /\ \A p \in DOMAIN backup : backup[p] \in FileType \ {NoFile}
  /\ log \in Seq(LineType)
  /\ last \in 1 .. MaxEventId
  /\ op \in OpType
  /\ step \in {"idle", "backup", "graph", "append", "record", "status"}
  /\ touched \in 0 .. MaxEventId + 1
  /\ edits \in 0 .. MaxEdits

\* The helper's events that say what the graph is.
GraphEvents ==
  {i \in 1 .. Len(log) : Recorded(log[i]) \in {"initialized", "applied"}}

\* Since the last graph event, unless somebody changed it by hand, the graph
\* is what that event says under its stamp; or a later command stopped short
\* of its event, and then the stamp is one that no graph event will ever have
\* (it lies beyond the last one).
GraphFollowsLedger ==
  LET e == Max(GraphEvents)
  IN  GraphEvents # {} /\ touched < e =>
        /\ graph # NoFile
        /\ graph = File(log[e].body, e) \/ graph.stamp > e

\* Every proposal id stands in one event, and the record under that id holds
\* the candidate of the event; only the record of the last event may still be
\* missing, in a store that refuses to go on.
ProposalsAreRecorded ==
  LET proposed == {i \in 1 .. Len(log) : Recorded(log[i]) = "proposed"}
  IN  /\ \A i, j \in proposed : log[i].proposal = log[j].proposal => i = j
      /\ \A i \in proposed :
           \/ /\ log[i].proposal \in DOMAIN record
              /\ record[log[i].proposal].candidate = log[i].body
           \/ i = Len(log) /\ ~Coherent

\* What is applied is what was proposed under that id earlier on, although
\* the candidate is an ordinary file that anybody may change in between.
AppliesWhatWasProposed ==
  \A i \in 1 .. Len(log) :
     Recorded(log[i]) = "applied" =>
       \E j \in 1 .. i - 1 :
         /\ Recorded(log[j]) = "proposed"
         /\ log[j].proposal = log[i].proposal
         /\ log[j].body = log[i].body

\* One approval, one application: unless somebody changed the graph by hand
\* since, a proposal is never applied again, not even when later proposals
\* have brought the graph back to the body the proposal was made against.
AppliedOnce ==
  [][\A i \in 1 .. Len(log) :
       /\ Recorded(log[i]) = "applied"
       /\ Recorded(log'[Len(log')]) = "applied"
       /\ log'[Len(log')].proposal = log[i].proposal
       => touched >= i]_log

\* The graph an apply replaces is kept under the id of the apply's event,
\* unless a hand changed it while the command ran.
OverwriteIsBackedUp ==
  [][step = "graph" /\ op.kind = "apply" /\ graph # NoFile =>
       \/ touched = NextId
       \/ /\ <<op.event.proposal, NextId>> \in DOMAIN backup
          /\ backup[<<op.event.proposal, NextId>>] = graph]_graph
=============================================================================
