-------------------------- MODULE CatalogPromotion --------------------------
(***************************************************************************)
(* Promotion of workflow catalogs (workflow_catalog_promotion.go).  KAS,   *)
(* another program, supplies the complete content of several target files  *)
(* and the checksums it saw; propose records both, apply writes the        *)
(* targets if none has changed since.  All backups come before the first   *)
(* target and all targets before the one event, so an apply may stop after *)
(* any of them; unlike a workflow graph, a target carries no stamp.        *)
(* People may edit the targets.  Commands run one at a time (OneWriter of  *)
(* HelperState).                                                           *)
(***************************************************************************)
EXTENDS Naturals, Sequences, FiniteSets, FiniteSetsExt

CONSTANTS
  Targets,      \* how many target paths there are
  BaseName,     \* target -> its name without the directories
  Text,         \* what a target may hold
  Missing,      \* there is no such file
  Bundle,       \* the candidates KAS may supply: functions target -> text
  Valid,        \* the bundles whose catalog, DAG and registry validate
  HandLine,     \* the events people append with event append
  MaxEdits,     \* how often a person changes a target
  MaxProposal,  \* the last proposal id: wcat-prop-999999 in the code
  MaxEventId    \* the last event id: evt-999999 in the code

\* The paths in alphabetic order, which is the order they are written in.
Target == 1 .. Targets

ASSUME CatalogPromotionAssumption ==
  /\ Targets \in Nat
  /\ Missing \notin Text
  /\ Bundle \subseteq UNION {[S -> Text] : S \in SUBSET Target}
  /\ Valid \subseteq Bundle
  /\ HandLine \subseteq [by : {"user"}, type : STRING, proposal : Nat]
  /\ {MaxEdits, MaxProposal} \subseteq Nat
  /\ MaxEventId \in Nat \ {0}

VARIABLES
  target,  \* path -> the content of the file
  record,  \* proposal id -> its record under workflow-catalog/proposals
  backup,  \* <<proposal, event, base name>> -> the file under backups
  log,     \* events.jsonl
  last,    \* last_event_id in status.json
  op,      \* the command in flight, with the files it has still to write
  step,    \* its next file write, or "idle"
  edited,  \* the targets ever changed by hand (for the properties only)
  halved,  \* those ever written by an apply that left no event (likewise)
  edits    \* how many edits by hand there were

vars == <<target, record, backup, log, last, op, step, edited, halved, edits>>

Record(base, candidates) == [base |-> base, candidates |-> candidates]
NoProposal == 0
Event(type, proposal) ==
  [by |-> "helper", type |-> type, proposal |-> proposal]

\* What the helper recorded: a line that was appended with event append looks
\* like its own, and only the properties tell them apart.
Recorded(line) == IF line.by = "helper" THEN line.type ELSE "other"

NextId == Len(log) + 1
NoOp == [kind |-> "none"]

Init ==
  /\ target = [t \in Target |-> Missing]
  /\ record = [p \in {} |-> Missing]
  /\ backup = [b \in {} |-> Missing]
  /\ log    = <<Event("other", NoProposal)>>
  /\ last   = 1
  /\ op     = NoOp
  /\ step   = "idle"
  /\ edited = {}
  /\ halved = {}
  /\ edits  = 0

Coherent == Len(log) = last

\* (Mutant of Begin: one event too many.)
BeginOnceMore(first, o) ==
  /\ step = "idle" /\ Coherent /\ last <= MaxEventId
  /\ op' = o /\ step' = first
  /\ UNCHANGED <<target, record, backup, log, last, edited, halved, edits>>

\* A command that passed its checks goes on to its first write.
Begin(first, o) ==
  /\ step = "idle"
  /\ Coherent
  /\ last < MaxEventId
  /\ op' = o
  /\ step' = first
  /\ UNCHANGED <<target, record, backup, log, last, edited, halved, edits>>

-----------------------------------------------------------------------------
\* nextWorkflowCatalogProposalPath: one more than the largest id in use
NextProposal == Max(DOMAIN record \cup {0}) + 1

\* The candidates are complete, of distinct kinds and permitted paths, and
\* what their checksums say; the packet reports no conflict, error or write
\* of its own; and the DAG, the catalog and the registry validate.
Validates(candidates) == candidates \in Valid

\* (Mutant of BaseMatches: a target that was missing is not compared.)
BaseMatchesExisting(base) ==
  \A t \in DOMAIN base : base[t] # Missing => target[t] = base[t]

\* Every target still has its checksum, or is still missing.
BaseMatches(base) == \A t \in DOMAIN base : target[t] = base[t]

\* A packet: the candidates of KAS and the targets as KAS saw them.
ProposePromotion(candidates, base) ==
  /\ Validates(candidates)
  /\ BaseMatches(base)
  /\ NextProposal <= MaxProposal
  /\ Begin("append", [kind |-> "propose",
                      record |-> Record(base, candidates),
                      event |-> Event("proposed", NextProposal)])

\* The existing ones among the targets are backed up, missing ones are not.
Existing(ts) == {t \in ts : target[t] # Missing}

\* The hash and the approval that quotes it come from the caller.  Nothing
\* tells that a proposal was applied before.
ApplyPromotion(p) ==
  /\ p \in DOMAIN record
  /\ BaseMatches(record[p].base)
  /\ Validates(record[p].candidates)
  /\ LET ts == DOMAIN record[p].candidates
     IN  Begin("backup", [kind |-> "apply", backups |-> Existing(ts),
                          writes |-> ts, event |-> Event("applied", p)])

\* event append, of any type; other commands of the helper are like it.
AppendEvent(line) == Begin("append", [kind |-> "other", event |-> line])

-----------------------------------------------------------------------------
\* Two targets may have the same base name: every trigger is a SKILL.md.
BackupPath(t) == <<op.event.proposal, NextId, BaseName[t]>>

Store(path, content) ==
  backup' = [b \in DOMAIN backup \cup {path} |->
               IF b = path THEN content ELSE backup[b]]

\* (Mutant of Keep: a backup that is there already will do.)
KeepFirst(path, content) ==
  IF path \in DOMAIN backup THEN UNCHANGED backup ELSE Store(path, content)

\* A backup is never replaced: when the path is taken the apply fails.
Keep(path, content) == path \notin DOMAIN backup /\ Store(path, content)

\* The target is copied as it is by now, if it is still there.
WriteBackup ==
  /\ step = "backup"
  /\ op.backups # {}
  /\ LET t == Min(op.backups)
     IN  /\ \/ target[t] # Missing /\ Keep(BackupPath(t), target[t])
            \/ target[t] = Missing /\ UNCHANGED backup
         /\ op' = [op EXCEPT !.backups = @ \ {t}]
  /\ UNCHANGED <<target, record, log, last, step, edited, halved, edits>>

\* An existing target is replaced, a missing one created.
WriteTarget ==
  /\ step = "backup" /\ op.backups = {}
  /\ op.writes # {}
  /\ LET t == Min(op.writes)
     IN  /\ target' =
              [target EXCEPT ![t] = record[op.event.proposal].candidates[t]]
         /\ op' = [op EXCEPT !.writes = @ \ {t}]
         /\ step' = IF op.writes = {t} THEN "append" ELSE step
  /\ UNCHANGED <<record, backup, log, last, edited, halved, edits>>

AppendLine ==
  /\ step = "append"
  /\ log' = Append(log, op.event)
  /\ step' = IF op.kind = "propose" THEN "record" ELSE "status"
  /\ UNCHANGED <<target, record, backup, last, op, edited, halved, edits>>

\* The proposal record is written by the status hook and never replaced.
WriteRecord ==
  /\ step = "record"
  /\ op.event.proposal \notin DOMAIN record
  /\ record' = [p \in DOMAIN record \cup {op.event.proposal} |->
                  IF p = op.event.proposal THEN op.record ELSE record[p]]
  /\ step' = "status"
  /\ UNCHANGED <<target, backup, log, last, op, edited, halved, edits>>

ReplaceStatus ==
  /\ step = "status"
  /\ last' = Len(log)
  /\ step' = "idle"
  /\ op' = NoOp
  /\ UNCHANGED <<target, record, backup, log, edited, halved, edits>>

\* The targets the command in flight has written without an event so far.
Written ==
  IF op.kind = "apply" /\ step \in {"backup", "append"}
  THEN DOMAIN record[op.event.proposal].candidates \ op.writes
  ELSE {}

\* The next write fails, or the process is killed before it.
Stop ==
  /\ step # "idle"
  /\ step' = "idle"
  /\ op' = NoOp
  /\ halved' = halved \cup Written
  /\ UNCHANGED <<target, record, backup, log, last, edited, edits>>

\* A person changes, creates or deletes a target.
EditTarget(t) ==
  /\ edits < MaxEdits
  /\ edits' = edits + 1
  /\ \E c \in (Text \cup {Missing}) \ {target[t]} :
       target' = [target EXCEPT ![t] = c]
  /\ edited' = edited \cup {t}
  /\ UNCHANGED <<record, backup, log, last, op, step, halved>>

Next ==
  \/ \E c \in Bundle :
       \E base \in [DOMAIN c -> Text \cup {Missing}] :
         ProposePromotion(c, base)
  \/ \E p \in 1 .. MaxProposal : ApplyPromotion(p)
  \/ \E line \in HandLine : AppendEvent(line)
  \/ WriteBackup \/ WriteTarget \/ AppendLine \/ WriteRecord
  \/ ReplaceStatus \/ Stop
  \/ \E t \in Target : EditTarget(t)

Spec == Init /\ [][Next]_vars

-----------------------------------------------------------------------------
(* Properties *)

Base == UNION {[S -> Text \cup {Missing}] : S \in SUBSET Target}
RecordType == [base : Base, candidates : Valid]
EventType ==
  [by : {"helper"}, type : {"other", "proposed", "applied"},
   proposal : 0 .. MaxProposal]
LineType == EventType \cup HandLine
IsOp(o) ==
  \/ o = NoOp
  \/ o.kind = "other" /\ o.event \in HandLine
  \/ o.kind = "propose" /\ o.event \in EventType /\ o.record \in RecordType
  \/ /\ o.kind = "apply"
     /\ o.event \in EventType /\ o.event.proposal \in DOMAIN record
     /\ o.backups \cup o.writes \subseteq
          DOMAIN record[o.event.proposal].candidates

\* Every variable stays within its type.
TypeOK ==
  /\ target \in [Target -> Text \cup {Missing}]
  /\ DOMAIN record \subseteq 1 .. MaxProposal
  /\ \A p \in DOMAIN record : record[p] \in RecordType
  /\ \A b \in DOMAIN backup : /\ b[1] \in 1 .. MaxProposal
                              /\ b[2] \in 1 .. MaxEventId
                              /\ backup[b] \in Text
  /\ log \in Seq(LineType)
  /\ last \in 1 .. MaxEventId
  /\ IsOp(op)
  /\ step \in {"idle", "backup", "append", "record", "status"}
  /\ edited \subseteq Target
  /\ halved \subseteq Target
  /\ edits \in 0 .. MaxEdits

\* The helper's events that put a content under a target, and that content.
Applied(t) ==
  {i \in 1 .. Len(log) :
     /\ Recorded(log[i]) = "applied"
     /\ t \in DOMAIN record[log[i].proposal].candidates}
ContentOf(i, t) == record[log[i].proposal].candidates[t]

\* Whatever was promoted is still in place, or in a backup made under the id
\* of a later event, for every target no hand has touched: however many
\* applies stop between two of their files or are tried again, and although
\* two targets may share the name of their backup.
PromotedIsNeverLost ==
  \A t \in Target \ edited : \A i \in Applied(t) :
     \/ target[t] = ContentOf(i, t)
     \/ \E b \in DOMAIN backup : /\ b[2] > i
                                 /\ b[3] = BaseName[t]
                                 /\ backup[b] = ContentOf(i, t)

\* Of two proposals made side by side only one is applied, as the other one's
\* base is gone: a promotion was made against exactly what the promotion
\* before it left, target by target (or against a missing file), where
\* neither a hand nor an apply that stopped half-way got in between.
PromotionsBuildOnEachOther ==
  \A t \in Target \ (edited \cup halved) : \A j \in Applied(t) :
     LET before == {i \in Applied(t) : i < j}
     IN  record[log[j].proposal].base[t] =
           IF before = {} THEN Missing ELSE ContentOf(Max(before), t)
=============================================================================
