----------------------------- MODULE GjcSession -----------------------------
(***************************************************************************)
(* The GJC session of one run (internal/project/gjc.go, gjc_pilot.go).  A  *)
(* start command runs the external gjc, collects what it produced and      *)
(* stores a status ledger; callbacks, plan locks and KAT evidence update   *)
(* the ledger later, each against the status hash it was made for.  The    *)
(* ledger refers to files by their hashes and is refused when one of them  *)
(* changed.  Callbacks are delivered late, twice and out of order; people  *)
(* and other programs edit the files; a command may stop before any of its *)
(* writes.  Commands run one at a time (OneWriter of HelperState).         *)
(***************************************************************************)
EXTENDS Naturals, Sequences

CONSTANTS
  Content,      \* what a packet, a plan or another artifact may hold
  NativeInput,  \* command -> the packets with its native input block
  Produces,     \* command -> what gjc may produce for it
  Key,          \* the idempotency keys of callbacks
  None,         \* no such file, reference or section
  MaxEdits,     \* how often files are changed from outside
  HandLine,     \* the events people append with event append
  MaxStatus,    \* how many status hashes there are
  MaxEventId    \* the last event id: evt-999999 in the code

Command == {"deep-interview", "ralplan", "ultragoal"}

\* An event: the status hash in it and the one a callback answers, if any.
Event(by, type, hash, source) ==
  [by |-> by, type |-> type, hash |-> hash, source |-> source]
EventTypes == {"gjc.failed", "gjc.started", "gjc.callback_recorded",
               "gjc.plan_locked", "gjc.kat_attached", "other"}

\* A status ledger, with what it refers to: KAT's report, a snapshot of a
\* status and a callback.
Hash == 0 .. MaxStatus
KatType == [source : Hash, factual : BOOLEAN]
SnapshotType == [hash : Hash, kat : BOOLEAN]
KatRefType == [report : KatType, snapshot : SnapshotType, source : Hash]
CallbackType == [key : Key, source : Hash]
StatusType ==
  [hash : Hash, command : Command, process : {"ready", "blocked", "failed"},
   pid : Hash, packet : Content, brief : Content \cup {None},
   output : Content \cup {None}, accepted : Content \cup {None},
   kat : KatRefType \cup {None}, callback : CallbackType \cup {None}]

\* Inputs and products are contents; None is none of what it is told from;
\* people append events under their own name; bounds are numbers.
ASSUME GjcSessionAssumption ==
  /\ {NativeInput, Produces} \subseteq [Command -> SUBSET Content]
  /\ None \notin Content \cup SnapshotType \cup CallbackType \cup StatusType
  /\ {MaxEdits, MaxStatus} \subseteq Nat
  /\ HandLine \subseteq [by : {"user"}, type : EventTypes,
                          hash : 0 .. MaxStatus, source : 0 .. MaxStatus]
  /\ MaxEventId \in Nat \ {0}

VARIABLES
  file,      \* run-local files: packet, brief, output of a command, receipt
  session,   \* session.json
  kat,       \* the status file of the tester, KAT
  snapshot,  \* kat-source-status.json
  ledger,    \* artifacts/gjc/status.json
  made,      \* the ledgers hashed so far: the number of one stands for its hash
  log,       \* events.jsonl
  last,      \* last_event_id in status.json
  op,        \* the command in flight, with all it read
  step,      \* its next file write, or "idle"
  drift,     \* what happened since the last start that may make the ledger
             \* differ from the files it names (for the properties only)
  edits      \* how often files were changed from outside

evidence == <<file, session, kat, snapshot>>
vars == <<evidence, ledger, made, log, last, op, step, drift, edits>>

\* Where the output of a command goes.
Output ==
  [c \in Command |-> CASE c = "deep-interview" -> "interview"
                       [] c = "ralplan"        -> "plan"
                       [] c = "ultragoal"      -> "goals"]
Path == {"packet", "brief", "receipt"} \cup {Output[c] : c \in Command}

(***************************************************************************)
(* A status ledger.  A reference is the content it names: that stands for  *)
(* the SHA-256.  The hash of a ledger is taken without the hash in it, of  *)
(* updated_at too, which has whole seconds, and of the pid: that of a gjc  *)
(* process is its own, and it is 0 of a gjc that could not be started.  So *)
(* ledgers that agree in the rest share a hash when made in one second.    *)
(***************************************************************************)
Status(command, process, packet, brief, output) ==
  [hash |-> 0, command |-> command, process |-> process, pid |-> 0,
   packet |-> packet, brief |-> brief, output |-> output, accepted |-> None,
   kat |-> None, callback |-> None]
Hashless(s) == [s EXCEPT !.hash = 0]

NoOp == [kind |-> "none"]

Init ==
  /\ \E c \in Content :
       file = [[p \in Path |-> None] EXCEPT !["packet"] = c]
  /\ session  = "absent"
  /\ kat      = None
  /\ snapshot = None
  /\ ledger   = None
  /\ made     = <<>>
  /\ log      = <<Event("helper", "other", 0, 0)>>
  /\ last     = 1
  /\ op       = NoOp
  /\ step     = "idle"
  /\ drift    = "none"
  /\ edits    = 0

-----------------------------------------------------------------------------
(* Is the ledger still what the files say? *)

\* The files a status names are there and have the hashes it names: its
\* packet, the brief, the receipt and the output of the command.
PacketHolds(s) == file["packet"] = s.packet
BriefHolds(s)  == s.brief # None => file["brief"] = s.brief
OutputHolds(s) ==
  s.output # None =>
    file["receipt"] = s.output /\ file[Output[s.command]] = s.output

HasPlan(s) == s.command = "ralplan" /\ s.process = "ready"

\* A locked plan is the accepted one, byte for byte.
LockHolds(s) ==
  HasPlan(s) /\ s.accepted # None => file["plan"] = s.accepted

\* The snapshot is that of a ready ultragoal status without KAT evidence,
\* under the hash the evidence was attached to.
SnapshotHolds(k) ==
  /\ snapshot = k.snapshot
  /\ snapshot # None
  /\ ~snapshot.kat
  /\ snapshot.hash = k.source

\* Passed, failed and error reports of known shape that claim no approval.
KatIsFactual(k) == k # None /\ k.factual

\* KAT saw this status; a v0.1.0 report names no status (0) and takes any.
KatSawStatus(k, hash) == k.source \in {0, hash}

KatHolds(s) ==
  s.kat # None =>
    /\ SnapshotHolds(s.kat)
    /\ kat = s.kat.report
    /\ KatIsFactual(kat)
    /\ KatSawStatus(kat, s.kat.source)

\* validatePersistedGJCStatus
Readable(s) ==
  /\ session = "valid"
  /\ PacketHolds(s) /\ BriefHolds(s) /\ LockHolds(s)
  /\ OutputHolds(s) /\ KatHolds(s)

\* What callback-kanban, lock-plan and attach-kat-evidence begin with.
StatusShown == ledger # None /\ Readable(ledger)

Begin(first, o) ==
  /\ step = "idle"
  /\ step' = first
  /\ op' = o

-----------------------------------------------------------------------------
(* start-deep-interview, start-ralplan, start-ultragoal *)

\* A ralplan packet names its stage and an artifact, once, at the top level;
\* an ultragoal packet its brief.
RalplanInput(c)   == c \in NativeInput["ralplan"]
UltragoalInput(c) == c \in NativeInput["ultragoal"]

StartGJC(command) ==
  LET packet == file["packet"]
  IN  /\ packet # None
      /\ Len(made) < MaxStatus
      /\ command = "ralplan" => RalplanInput(packet)
      /\ command = "ultragoal" => UltragoalInput(packet)
      /\ Begin(IF command = "ultragoal" THEN "brief" ELSE "session",
               [kind |-> "start",
                status |-> Status(command, "failed", packet,
                   IF command = "ultragoal" THEN packet ELSE None, None)])
      /\ drift' = "none"
      /\ UNCHANGED <<evidence, ledger, made, log, last, edits>>

\* The brief of the packet becomes a file of its own.
WriteBrief ==
  /\ step = "brief"
  /\ file' = [file EXCEPT !["brief"] = op.status.brief]
  /\ step' = "session"
  /\ UNCHANGED <<session, kat, snapshot, ledger, made, log,
                 last, op, drift, edits>>

\* The first start creates the session, later ones reuse it.
LoadOrCreateSession ==
  /\ step = "session"
  /\ session # "damaged"
  /\ session' = "valid"
  /\ step' = "run"
  /\ UNCHANGED <<file, kat, snapshot, ledger, made, log,
                 last, op, drift, edits>>

\* A process that is started has a pid no ledger has had.
NewPid == Len(made) + 1

\* gjc is not installed or cannot be started.
GJCMissing ==
  /\ step = "run"
  /\ step' = "ledger"
  /\ UNCHANGED <<evidence, ledger, made, log, last, op, drift, edits>>

\* gjc exits non-zero, its receipt is no JSON, or its native output is not of
\* this session, not a regular file without symbolic links on its way, or not
\* what its checksum says.
RunFails ==
  /\ step = "run"
  /\ op' = [op EXCEPT !.status.pid = NewPid]
  /\ step' = "ledger"
  /\ UNCHANGED <<evidence, ledger, made, log, last, drift, edits>>

\* (Mutant of Failed: the status is cleared along with the output.)
FailedUnnamed(o) ==
  [o EXCEPT !.status.output = None, !.status.process = None]

\* A failed run has no output.
Failed(o) ==
  [o EXCEPT !.status.output = None, !.status.process = "failed"]

\* The output of the command is in the run now, and a receipt names it.
Produced(command, process) ==
  /\ step = "run"
  /\ op.status.command = command
  /\ \E c \in Produces[command] :
       /\ file' = [file EXCEPT ![Output[command]] = c]
       /\ op' = [op EXCEPT !.status.output = c, !.status.process = process,
                           !.status.pid = NewPid]
  /\ step' = "receipt"
  /\ UNCHANGED <<session, kat, snapshot, ledger, made, log, last, drift,
                 edits>>

\* gjc left its output in the run and emitted a receipt, ready or not.
RunGJC ==
  \E command \in Command, p \in {"ready", "blocked"} : Produced(command, p)

\* Or it emitted the state of its own session, and the native plan, or goals
\* and their ledger, replace those of the run.
CopyNativePlan  == Produced("ralplan", "ready")
CopyNativeGoals == Produced("ultragoal", "ready")

\* The receipt names a status or an actor it may not, no artifact, or one
\* that is gone or has another hash.
RefuseReceipt ==
  /\ step = "receipt"
  /\ op' = Failed(op)
  /\ step' = "ledger"
  /\ UNCHANGED <<evidence, ledger, made, log, last, drift, edits>>

WriteReceipt ==
  /\ step = "receipt"
  /\ file[Output[op.status.command]] = op.status.output
  /\ file' = [file EXCEPT !["receipt"] = op.status.output]
  /\ step' = "ledger"
  /\ UNCHANGED <<session, kat, snapshot, ledger, made, log,
                 last, op, drift, edits>>

-----------------------------------------------------------------------------
(* callback-kanban, lock-plan, attach-kat-evidence *)

\* A callback answers a status there has been; it arrives late, more than
\* once, or never.
Callback == [key : Key, source : 1 .. Len(made)]

\* (Mutant of Accepts: a key that is not the last one is enough.)
AcceptsNewKey(m) ==
  ledger.callback # None => ledger.callback.key # m.key

\* The last callback again changes nothing, another one under its key is a
\* conflict; any other must be about the current status.
Accepts(m) ==
  /\ ledger.callback # None => ledger.callback.key # m.key
  /\ m.source = ledger.hash

RecordGJCCallback(m) ==
  /\ StatusShown
  /\ Accepts(m)
  /\ Begin("ledger",
           [kind |-> "callback", status |-> [ledger EXCEPT !.callback = m]])
  /\ UNCHANGED <<evidence, ledger, made, log, last, drift, edits>>

\* The accepted hash and the approval come from outside.
LockGJCPlan(accepted) ==
  /\ StatusShown
  /\ HasPlan(ledger)
  /\ file["plan"] = accepted
  /\ Begin("ledger",
           [kind |-> "lock", status |-> [ledger EXCEPT !.accepted = accepted]])
  /\ UNCHANGED <<evidence, ledger, made, log, last, drift, edits>>

AttachGJCKATEvidence ==
  /\ StatusShown
  /\ ledger.command = "ultragoal" /\ ledger.process = "ready"
  /\ Begin("snapshot", [kind |-> "attach", status |-> ledger])
  /\ UNCHANGED <<evidence, ledger, made, log, last, drift, edits>>

\* (Mutant of Snapshot: taken of the status with the evidence attached.)
SnapshotAfter(s) == [hash |-> s.hash, kat |-> TRUE]

Snapshot(s) == [hash |-> s.hash, kat |-> s.kat # None]

\* The snapshot is written, and replaced, before KAT's report is looked at.
WriteSourceStatusSnapshot ==
  /\ step = "snapshot"
  /\ snapshot' = Snapshot(op.status)
  /\ step' = "evidence"
  /\ drift' = IF op.status.kat # None THEN "reattached" ELSE drift
  /\ UNCHANGED <<file, session, kat, ledger, made, log, last,
                 op, edits>>

\* KAT's report is accepted and goes to the ledger with the snapshot.
AttachEvidence ==
  /\ step = "evidence"
  /\ KatIsFactual(kat)
  /\ KatSawStatus(kat, op.status.hash)
  /\ op' = [op EXCEPT !.status.kat =
              [report |-> kat, snapshot |-> Snapshot(op.status),
               source |-> op.status.hash]]
  /\ step' = "ledger"
  /\ UNCHANGED <<evidence, ledger, made, log, last, drift, edits>>

\* Or it is missing, claims an approval, or is about another status.
RefuseEvidence ==
  /\ step = "evidence"
  /\ ~(KatIsFactual(kat) /\ KatSawStatus(kat, op.status.hash))
  /\ step' = "idle"
  /\ op' = NoOp
  /\ UNCHANGED <<evidence, ledger, made, log, last, drift, edits>>

-----------------------------------------------------------------------------
(* The ledger, the event and status.json, for all four commands *)

Coherent == Len(log) = last

\* There is no preflight: a start has run gjc before the log is looked at.
MayAppend == Coherent /\ last < MaxEventId

\* The hash is that of a ledger that differs in nothing but the second, if
\* it was made in this one, or else a new one.
WriteLedger ==
  /\ step = "ledger"
  /\ MayAppend
  /\ \/ /\ \E h \in 1 .. Len(made) :
             /\ made[h] = Hashless(op.status)
             /\ ledger' = [op.status EXCEPT !.hash = h]
        /\ made' = made
     \/ /\ Len(made) < MaxStatus
        /\ made' = Append(made, Hashless(op.status))
        /\ ledger' = [op.status EXCEPT !.hash = Len(made')]
  /\ step' = "append"
  /\ UNCHANGED <<evidence, log, last, op, drift, edits>>

\* event append: any type and payload, those of gjc included.
AppendEvent ==
  /\ MayAppend
  /\ \E line \in HandLine : Begin("append", [kind |-> "event", line |-> line])
  /\ UNCHANGED <<evidence, ledger, made, log, last, drift, edits>>

EventType(o) ==
  CASE o.kind = "start" ->
         IF o.status.process = "failed" THEN "gjc.failed" ELSE "gjc.started"
    [] o.kind = "callback" -> "gjc.callback_recorded"
    [] o.kind = "lock"     -> "gjc.plan_locked"
    [] o.kind = "attach"   -> "gjc.kat_attached"

\* The event carries the new status hash, and the callback with its source.
AppendLine ==
  /\ step = "append"
  /\ log' = Append(log,
       IF op.kind = "event" THEN op.line
       ELSE Event("helper", EventType(op), ledger.hash,
              IF op.kind = "callback" THEN op.status.callback.source ELSE 0))
  /\ step' = "status"
  /\ UNCHANGED <<evidence, ledger, made, last, op, drift, edits>>

ReplaceStatus ==
  /\ step = "status"
  /\ last' = Len(log)
  /\ step' = "idle"
  /\ op' = NoOp
  /\ UNCHANGED <<evidence, ledger, made, log, drift, edits>>

\* The next write fails, or the process is killed before it.
Stop ==
  /\ step # "idle"
  /\ step' = "idle"
  /\ op' = NoOp
  /\ drift' = IF op.kind = "start" THEN "stopped" ELSE drift
  /\ UNCHANGED <<evidence, ledger, made, log, last, edits>>

-----------------------------------------------------------------------------
(* What happens outside the helper *)

Edited(matters) ==
  /\ edits < MaxEdits
  /\ edits' = edits + 1
  /\ drift' = IF matters THEN "edited" ELSE drift
  /\ UNCHANGED <<snapshot, ledger, made, log, last, op, step>>

\* Somebody changes or deletes a file of the run, or the session.
EditFile ==
  /\ Edited(TRUE)
  /\ \/ /\ \E p \in {"packet", "plan"}, c \in Content \cup {None} :
             c # file[p] /\ file' = [file EXCEPT ![p] = c]
        /\ UNCHANGED <<session, kat>>
     \/ /\ session = "valid" /\ session' = "damaged"
        /\ UNCHANGED <<file, kat>>

\* KAT reports on the current status, or a v0.1.0 one on whatever is there;
\* a report that is attached, or about to be, is not to be replaced.
RunKAT ==
  /\ Edited(step # "idle" \/ (ledger # None /\ ledger.kat # None))
  /\ \E source \in {0, IF ledger = None THEN 0 ELSE ledger.hash},
       factual \in BOOLEAN : kat' = [source |-> source, factual |-> factual]
  /\ kat' # kat
  /\ UNCHANGED <<file, session>>

Next ==
  \/ \E c \in Command : StartGJC(c)
  \/ WriteBrief \/ LoadOrCreateSession \/ GJCMissing \/ RunFails \/ RunGJC
  \/ CopyNativePlan \/ CopyNativeGoals
  \/ RefuseReceipt \/ WriteReceipt
  \/ \E m \in Callback : RecordGJCCallback(m)
  \/ \E c \in Content : LockGJCPlan(c)
  \/ AttachGJCKATEvidence \/ WriteSourceStatusSnapshot
  \/ AttachEvidence \/ RefuseEvidence
  \/ WriteLedger \/ AppendLine \/ ReplaceStatus \/ Stop
  \/ AppendEvent \/ EditFile \/ RunKAT

Spec == Init /\ [][Next]_vars

-----------------------------------------------------------------------------
(* Properties *)

\* Every variable stays within its type.
TypeOK ==
  /\ file \in [Path -> Content \cup {None}]
  /\ session \in {"absent", "valid", "damaged"}
  /\ kat \in KatType \cup {None}
  /\ snapshot \in SnapshotType \cup {None}
  /\ ledger \in StatusType \cup {None}
  /\ Len(made) \in Hash /\ \A h \in 1 .. Len(made) : made[h] \in StatusType
  /\ \A i \in 1 .. Len(log) : log[i].hash \in Hash /\ log[i].source \in Hash
  /\ last \in 1 .. MaxEventId
  /\ op.kind \notin {"none", "event"} => op.status \in StatusType
  /\ step \in {"idle", "brief", "session", "run", "receipt",
               "snapshot", "evidence", "ledger", "append", "status"}
  /\ drift \in {"none", "edited", "stopped", "reattached"}
  /\ edits \in 0 .. MaxEdits

\* The gjc events of the helper; those that record a status of a process, and
\* those that answer one.
IsGJC(line) == line.by = "helper" /\ line.type # "other"
IsCallback(line) ==
  line.by = "helper" /\ line.type = "gjc.callback_recorded"
Records(line, p) == IsGJC(line) /\ made[line.hash].pid = p
Answers(line, p) == IsCallback(line) /\ made[line.source].pid = p

\* However often and however late callbacks arrive, a status of a gjc that
\* was started is answered by at most one event, and by none once the session
\* has moved on: between the first event of its process and its callback are
\* only events of that process.
CallbacksAreInOrder ==
  \A p \in 1 .. Len(made), j \in 1 .. Len(log) :
     Answers(log[j], p) =>
       \A i \in 1 .. j - 1 :
         /\ Answers(log[i], p) => log[i].source # log[j].source
         /\ Records(log[i], p) =>
              \A k \in i .. j : IsGJC(log[k]) => Records(log[k], p)

\* Between commands the ledger the helper wrote is one it accepts, unless a
\* file was changed from outside, a start stopped half-way, or KAT evidence
\* was attached on top of KAT evidence; failing and interrupted callbacks,
\* locks and first attachments leave it readable.
OnlyDriftMakesUnreadable ==
  step = "idle" /\ ledger # None /\ drift = "none" => Readable(ledger)
=============================================================================
