---------------------------- MODULE HelperState ----------------------------
(***************************************************************************)
(* The helper state every mutating kkachi-agent-helper command shares: the *)
(* two lock files, the append-only event log (.kkachi/events.jsonl) and    *)
(* the status summary (.kkachi/status.json), changed one file-system call  *)
(* at a time by concurrent operating-system processes that may fail at any *)
(* call and may be killed between any two (internal/project/lock.go and    *)
(* state.go).                                                              *)
(*                                                                         *)
(* A member of Proc is one OS process, which runs one command: its process *)
(* id and creation time are the identity written into a lock file.         *)
(***************************************************************************)
EXTENDS Naturals, Sequences

CONSTANTS
  Proc,           \* the processes, one command each
  HostOf,         \* the host a process runs on: pids are only checked locally
  NoProc,         \* no process (a JSON null, an unset variable)
  NoFile,         \* the lock file does not exist
  Recoveries,     \* the lock recover commands the operators use
  SlowOwners,     \* processes that may be alive 30 minutes after locking
  SerialRecovery, \* operators take turns at recovering without a lock
  MaxEventId      \* the last event id: evt-999999 in the code

ASSUME HelperStateAssumption ==
  /\ NoProc \notin Proc
  /\ SlowOwners \subseteq Proc
  /\ Recoveries \subseteq
       {"recover active-run", "recover project-write", "recover all"}
  /\ SerialRecovery \in BOOLEAN
  /\ MaxEventId \in Nat \ {0}

ASSUME NoFileAssumption == NoFile \notin [owner : Proc, written : BOOLEAN]

VARIABLES
  lock,     \* lock name -> the lock file: who created it, metadata written?
  aged,     \* the processes whose locks are more than 30 minutes old
  log,      \* events.jsonl, oldest line first
  status,   \* status.json: its last_event_id
  ahead,    \* the file a BeforeAppend hook writes: the event it stamps
  behind,   \* the file a MutateStatus hook writes: the event it belongs to
  pc,       \* process -> the next step of its command
  cmd,      \* process -> its command
  held,     \* process -> how many locks of LockOrder it holds
  outcome,  \* process -> what its command will report
  copy,     \* process -> last_event_id as it read it from status.json
  next,     \* process -> the event id it allocated
  todo,     \* process -> the locks its recovery has not inspected yet
  seen      \* process -> lock -> the stale owner its recovery will unlock

files  == <<lock, aged, log, status, ahead, behind>>
locals == <<pc, cmd, held, outcome, copy, next, todo, seen>>
vars   == <<files, locals>>

-----------------------------------------------------------------------------
LockName == {"active_run", "project_write"}

\* (Mutant of LockOrder: the active-run lock first.)
ActiveRunFirst == <<"active_run", "project_write">>

\* withRunLifecycleLocks takes the project lock first and releases it last.
LockOrder == <<"project_write", "active_run">>

PlainCommand == {"event append", "write then append", "append then write"}
RecoverCommand ==
  {"recover active-run", "recover project-write", "recover all"}
Command == PlainCommand \cup {"run transition"} \cup RecoverCommand

\* Recovering project_write.lock cannot hold it: these two run unlocked.
UnlockedCommand == {"recover project-write", "recover all"}

LocksNeeded(c) ==
  IF c \in UnlockedCommand THEN 0 ELSE IF c = "run transition" THEN 2 ELSE 1

LockTargets(c) ==
  CASE c = "recover active-run"    -> {"active_run"}
    [] c = "recover project-write" -> {"project_write"}
    [] c = "recover all"           -> LockName
    [] OTHER                       -> {}

\* lockTargetNames lists active_run before project_write.
FirstLock(S) == IF "active_run" \in S THEN "active_run" ELSE "project_write"

WritesBefore(c) == c = "write then append"
WritesAfter(c)  == c \in {"append then write", "run transition"}

Alive(p) == pc[p] \notin {"idle", "exited", "crashed"}
Held(p)  == {LockOrder[i] : i \in 1 .. held[p]}

\* The locks recovery has verified stale and not removed yet.
Found(p) == {n \in LockName : seen[p][n] # NoProc}

File(p, written) == [owner |-> p, written |-> written]

\* (Mutant of LockIsStale: pids of other hosts are looked up on this one.)
RemoteLockIsStale(n, observer) ==
  LET o == lock[n].owner IN HostOf[o] # HostOf[observer] \/ ~Alive(o)

\* lockIsStale: a local owner that is gone, or more than 30 minutes old.
LockIsStale(n, observer) ==
  LET o == lock[n].owner
  IN  (HostOf[o] = HostOf[observer] /\ ~Alive(o)) \/ o \in aged

(* Lines of the log.  A torn line (a short write) is not JSON: no id.       *)
Torn == 0
Event(id, p, n, o) == [id |-> id, by |-> p, freed |-> n, owner |-> o]
NoLock == "none"
TornLine(p) == Event(Torn, p, NoLock, NoProc)

Tail_(s) == s[Len(s)].id
Readable(s) == s # <<>> /\ \A i \in 1 .. Len(s) : s[i].id # Torn

-----------------------------------------------------------------------------
Init ==
  /\ lock    = [n \in LockName |-> NoFile]
  /\ aged    = {}
  /\ log     = <<Event(1, NoProc, NoLock, NoProc)>>   \* project.initialized
  /\ status  = 1
  /\ ahead   = Event(1, NoProc, NoLock, NoProc)
  /\ behind  = Event(1, NoProc, NoLock, NoProc)
  /\ pc      = [p \in Proc |-> "idle"]
  /\ cmd     = [p \in Proc |-> "none"]
  /\ held    = [p \in Proc |-> 0]
  /\ outcome = [p \in Proc |-> "ok"]
  /\ copy    = [p \in Proc |-> 0]
  /\ next    = [p \in Proc |-> 0]
  /\ todo    = [p \in Proc |-> {}]
  /\ seen    = [p \in Proc |-> [n \in LockName |-> NoProc]]

Goto(p, step) == pc' = [pc EXCEPT ![p] = step]

\* (Mutants of Return: a missing deferred release, a swallowed error.)
ReturnKeepingLocks(p, result) ==
  Goto(p, "exited") /\ outcome' = [outcome EXCEPT ![p] = result]
ReturnOk(p, result) ==
  /\ outcome' = [outcome EXCEPT ![p] = "ok"]
  /\ Goto(p, IF held[p] > 0 THEN "verify_own" ELSE "exited")

\* Returning from the command body: the deferred releases, then exit.
Return(p, result) ==
  /\ outcome' = [outcome EXCEPT ![p] = result]
  /\ Goto(p, IF held[p] > 0 THEN "verify_own" ELSE "exited")

\* What fn does once the command holds the locks it needs.
Body(c) == IF c \in RecoverCommand THEN "inspect" ELSE "read_status"

\* A command starts; serial operators wait for the unlocked recovery of a
\* colleague to end before starting another.
Start(p) ==
  /\ pc[p] = "idle"
  /\ \E c \in PlainCommand \cup {"run transition"} \cup Recoveries :
       /\ (SerialRecovery /\ c \in UnlockedCommand) =>
             \A q \in Proc : ~(Alive(q) /\ cmd[q] \in UnlockedCommand)
       /\ cmd'  = [cmd EXCEPT ![p] = c]
       /\ todo' = [todo EXCEPT ![p] = LockTargets(c)]
       /\ Goto(p, IF LocksNeeded(c) > 0 THEN "create" ELSE Body(c))
  /\ UNCHANGED <<files, held, outcome, copy, next, seen>>

\* (Mutant of CreateLock: it waits for the lock file to go away.)
CreateLockOrWait(p) ==
  /\ pc[p] = "create"
  /\ lock[LockOrder[held[p] + 1]] = NoFile
  /\ lock' = [lock EXCEPT ![LockOrder[held[p] + 1]] = File(p, FALSE)]
  /\ Goto(p, "metadata")
  /\ UNCHANGED <<aged, log, status, ahead, behind, cmd, held, outcome, copy,
                 next, todo, seen>>

(***************************************************************************)
(* acquireLock: the O_EXCL create makes an empty file, the metadata is     *)
(* written afterwards.  A file that exists, whatever it holds, is an error *)
(* (conflict, stale, or invalid metadata) and is never touched.            *)
(***************************************************************************)
CreateLock(p) ==
  /\ pc[p] = "create"
  /\ LET n == LockOrder[held[p] + 1]
     IN  \/ /\ lock[n] = NoFile
            /\ lock' = [lock EXCEPT ![n] = File(p, FALSE)]
            /\ Goto(p, "metadata")
            /\ UNCHANGED outcome
         \/ /\ lock[n] # NoFile
            /\ Return(p, "error")
            /\ UNCHANGED lock
  /\ UNCHANGED <<aged, log, status, ahead, behind, cmd, held, copy, next,
                 todo, seen>>

\* The write goes to the file this process created, if it is still linked.
WriteMetadata(p) ==
  /\ pc[p] = "metadata"
  /\ LET n == LockOrder[held[p] + 1]
     IN  lock' = IF lock[n] = File(p, FALSE)
                 THEN [lock EXCEPT ![n] = File(p, TRUE)] ELSE lock
  /\ held' = [held EXCEPT ![p] = @ + 1]
  /\ Goto(p, IF held'[p] < LocksNeeded(cmd[p]) THEN "create"
             ELSE Body(cmd[p]))
  /\ UNCHANGED <<aged, log, status, ahead, behind, cmd, outcome, copy, next,
                 todo, seen>>

\* A failed write cannot clean up: the empty file names nobody as its owner.
WriteMetadataFails(p) ==
  /\ pc[p] = "metadata"
  /\ Return(p, "error")
  /\ UNCHANGED <<files, cmd, held, copy, next, todo, seen>>

\* After a failed sync, close or directory sync the lock just written is
\* removed; an error of that removal is ignored and the lock stays.
SyncMetadataFails(p) ==
  /\ pc[p] = "metadata"
  /\ LET n == LockOrder[held[p] + 1]
         Leave(file) == lock' = IF lock[n] = File(p, FALSE)
                                THEN [lock EXCEPT ![n] = file] ELSE lock
     IN  \/ Leave(NoFile) /\ Return(p, "error")
         \/ Leave(File(p, TRUE)) /\ Return(p, "unreleased")
  /\ UNCHANGED <<aged, log, status, ahead, behind, cmd, held, copy, next,
                 todo, seen>>

(***************************************************************************)
(* appendEventWithPreparedStatusMutation: read both files, refuse to go on *)
(* unless they agree, run the hooks around the append, replace status.json *)
(* with the copy read at the start.                                        *)
(***************************************************************************)
ReadStatus(p) ==
  /\ pc[p] = "read_status"
  /\ copy' = [copy EXCEPT ![p] = status]
  /\ Goto(p, "scan_log")
  /\ UNCHANGED <<files, cmd, held, outcome, next, todo, seen>>

\* (Mutant of Coherent: only the readability of the log is checked.)
ReadableOnly(last) == Readable(log)

\* The log is readable and its last line is the one status.json names.
Coherent(last) == Readable(log) /\ Tail_(log) = last

\* (Mutant of Exhausted: one id too many.)
ExhaustedTooLate(last) == last > MaxEventId

\* nextEventID refuses to count past the last six-digit id.
Exhausted(last) == last >= MaxEventId

ScanLog(p) ==
  /\ pc[p] = "scan_log"
  /\ \/ /\ Coherent(copy[p])
        /\ ~Exhausted(copy[p])
        /\ next' = [next EXCEPT ![p] = copy[p] + 1]
        /\ Goto(p, IF WritesBefore(cmd[p]) THEN "before" ELSE "append")
        /\ UNCHANGED outcome
     \/ /\ ~Coherent(copy[p]) \/ Exhausted(copy[p])
        /\ Return(p, "error")
        /\ UNCHANGED next
  /\ UNCHANGED <<files, cmd, held, copy, todo, seen>>

\* (Mutant of EventOf: a recovery that names no lock.)
EventWithoutLock(p) == Event(next[p], p, NoLock, NoProc)

\* The event of a recovery names the lock and the owner it will unlock.
EventOf(p) ==
  IF Found(p) = {} THEN Event(next[p], p, NoLock, NoProc)
  ELSE Event(next[p], p, FirstLock(Found(p)), seen[p][FirstLock(Found(p))])

BeforeAppend(p) ==
  /\ pc[p] = "before"
  /\ ahead' = EventOf(p)
  /\ Goto(p, "append")
  /\ UNCHANGED <<lock, aged, log, status, behind, cmd, held, outcome, copy,
                 next, todo, seen>>

AppendEventLine(p) ==
  /\ pc[p] = "append"
  /\ log' = Append(log, EventOf(p))
  /\ Goto(p, IF WritesAfter(cmd[p]) THEN "after" ELSE "status")
  /\ UNCHANGED <<lock, aged, status, ahead, behind, cmd, held, outcome, copy,
                 next, todo, seen>>

\* A short write leaves part of a line behind and the command stops.
AppendEventLineTorn(p) ==
  /\ pc[p] = "append"
  /\ log' = Append(log, TornLine(p))
  /\ Return(p, "error")
  /\ UNCHANGED <<lock, aged, status, ahead, behind, cmd, held, copy, next,
                 todo, seen>>

MutateStatus(p) ==
  /\ pc[p] = "after"
  /\ behind' = EventOf(p)
  /\ Goto(p, "status")
  /\ UNCHANGED <<lock, aged, log, status, ahead, cmd, held, outcome, copy,
                 next, todo, seen>>

ReplaceStatus(p) ==
  /\ pc[p] = "status"
  /\ status' = next[p]
  /\ IF cmd[p] \in RecoverCommand
     THEN Goto(p, "verify_target") /\ UNCHANGED outcome
     ELSE Return(p, "ok")
  /\ UNCHANGED <<lock, aged, log, ahead, behind, cmd, held, copy, next, todo,
                 seen>>

\* Any file operation may return an error without effect; an error after the
\* effect (a directory sync) is the next step's failure.
OperationFails(p) ==
  /\ pc[p] \in {"create", "inspect", "read_status", "scan_log", "before",
                "append", "after", "status", "verify_target"}
  /\ Return(p, "error")
  /\ UNCHANGED <<files, cmd, held, copy, next, todo, seen>>

(***************************************************************************)
(* recoverLocksUnlocked: inspect every target, then for each stale one     *)
(* append lock.recovered and remove the file if it is still the one seen.  *)
(***************************************************************************)
Inspect(p) ==
  /\ pc[p] = "inspect"
  /\ LET n == FirstLock(todo[p])
     IN  \/ /\ lock[n] # NoFile
            /\ lock[n].written
            /\ LockIsStale(n, p)
            /\ seen' = [seen EXCEPT ![p][n] = lock[n].owner]
            /\ todo' = [todo EXCEPT ![p] = @ \ {n}]
            /\ Goto(p, IF todo'[p] = {} THEN "read_status" ELSE "inspect")
            /\ UNCHANGED outcome
         \/ /\ lock[n] = NoFile
            /\ cmd[p] = "recover all"
            /\ todo' = [todo EXCEPT ![p] = @ \ {n}]
            /\ IF todo'[p] # {} THEN Goto(p, "inspect") /\ UNCHANGED outcome
               ELSE IF Found(p) # {}
                    THEN Goto(p, "read_status") /\ UNCHANGED outcome
                    ELSE Return(p, "error")
            /\ UNCHANGED seen
         \/ /\ IF lock[n] = NoFile THEN cmd[p] # "recover all"
               ELSE lock[n].written => ~LockIsStale(n, p)
            /\ Return(p, "error")
            /\ UNCHANGED <<seen, todo>>
  /\ UNCHANGED <<files, cmd, held, copy, next>>

\* removeLockIfIdentityMatches reads and compares first ...
VerifyTarget(p) ==
  /\ pc[p] = "verify_target"
  /\ LET n == FirstLock(Found(p))
     IN  \/ /\ lock[n] = File(seen[p][n], TRUE)
            /\ Goto(p, "remove_target")
            /\ UNCHANGED outcome
         \/ /\ lock[n] # File(seen[p][n], TRUE)
            /\ Return(p, "error")
  /\ UNCHANGED <<files, cmd, held, copy, next, todo, seen>>

\* ... and then removes whatever file the path names by then.
RemoveTarget(p) ==
  /\ pc[p] = "remove_target"
  /\ LET n == FirstLock(Found(p))
     IN  \/ /\ lock[n] # NoFile
            /\ lock' = [lock EXCEPT ![n] = NoFile]
            /\ seen' = [seen EXCEPT ![p][n] = NoProc]
            /\ IF Found(p) = {n} THEN Return(p, "ok")
               ELSE Goto(p, "read_status") /\ UNCHANGED outcome
         \/ Return(p, "error") /\ UNCHANGED <<lock, seen>>
  /\ UNCHANGED <<aged, log, status, ahead, behind, cmd, held, copy, next,
                 todo>>

(***************************************************************************)
(* release, last lock first; an error (the file changed, or cannot be      *)
(* removed) does not stop the release of the other lock.                   *)
(***************************************************************************)
Released(p, result) ==
  /\ held' = [held EXCEPT ![p] = @ - 1]
  /\ outcome' = [outcome EXCEPT ![p] = result]
  /\ Goto(p, IF held[p] > 1 THEN "verify_own" ELSE "exited")

VerifyOwn(p) ==
  /\ pc[p] = "verify_own"
  /\ \/ /\ lock[LockOrder[held[p]]] = File(p, TRUE)
        /\ Goto(p, "remove_own")
        /\ UNCHANGED <<held, outcome>>
     \/ /\ lock[LockOrder[held[p]]] # File(p, TRUE)
        /\ Released(p, "unreleased")
  /\ UNCHANGED <<files, cmd, copy, next, todo, seen>>

RemoveOwn(p) ==
  /\ pc[p] = "remove_own"
  /\ LET n == LockOrder[held[p]]
     IN  /\ lock' = [lock EXCEPT ![n] = NoFile]
         /\ Released(p, IF lock[n] = NoFile THEN "unreleased" ELSE outcome[p])
  /\ UNCHANGED <<aged, log, status, ahead, behind, cmd, copy, next, todo,
                 seen>>

RemoveOwnFails(p) ==
  /\ pc[p] \in {"verify_own", "remove_own"}
  /\ Released(p, "unreleased")
  /\ UNCHANGED <<files, cmd, copy, next, todo, seen>>

-----------------------------------------------------------------------------
\* The process is killed, or its host stops, between two file operations.
Crash(p) ==
  /\ Alive(p)
  /\ Goto(p, "crashed")
  /\ UNCHANGED <<files, cmd, held, outcome, copy, next, todo, seen>>

\* Thirty minutes pass since the process created a lock that still exists.
LockAges(p) ==
  /\ p \notin aged
  /\ \E n \in LockName : lock[n] = File(p, TRUE)
  /\ ~Alive(p) \/ p \in SlowOwners
  /\ aged' = aged \cup {p}
  /\ UNCHANGED <<lock, log, status, ahead, behind, locals>>

Step(p) ==
  \/ CreateLock(p) \/ WriteMetadata(p)
  \/ ReadStatus(p) \/ ScanLog(p) \/ BeforeAppend(p) \/ AppendEventLine(p)
  \/ MutateStatus(p) \/ ReplaceStatus(p)
  \/ Inspect(p) \/ VerifyTarget(p) \/ RemoveTarget(p)
  \/ VerifyOwn(p) \/ RemoveOwn(p)

Fault(p) ==
  \/ WriteMetadataFails(p) \/ SyncMetadataFails(p)
  \/ OperationFails(p) \/ AppendEventLineTorn(p)
  \/ RemoveOwnFails(p)
  \/ Crash(p)

Next == \E p \in Proc : Start(p) \/ Step(p) \/ Fault(p) \/ LockAges(p)

Spec == Init /\ [][Next]_vars

\* The operating system schedules every process that is still there.
FairSpec == Spec /\ \A p \in Proc : WF_vars(Step(p))

-----------------------------------------------------------------------------
(* Properties *)

EventRecord ==
  [id : 0 .. MaxEventId, by : Proc \cup {NoProc},
   freed : LockName \cup {NoLock}, owner : Proc \cup {NoProc}]

LockFile == [owner : Proc, written : BOOLEAN] \cup {NoFile}

PcValue ==
  {"idle", "create", "metadata", "inspect", "read_status", "scan_log",
   "before", "append", "after", "status", "verify_target", "remove_target",
   "verify_own", "remove_own", "exited", "crashed"}

\* Every variable stays within its type.
TypeOK ==
  /\ lock \in [LockName -> LockFile]
  /\ aged \subseteq Proc
  /\ log \in Seq(EventRecord)
  /\ status \in 1 .. MaxEventId
  /\ ahead \in EventRecord
  /\ behind \in EventRecord
  /\ pc \in [Proc -> PcValue]
  /\ cmd \in [Proc -> Command \cup {"none"}]
  /\ held \in [Proc -> 0 .. 2]
  /\ outcome \in [Proc -> {"ok", "error", "unreleased"}]
  /\ copy \in [Proc -> 0 .. MaxEventId]
  /\ next \in [Proc -> 0 .. MaxEventId]
  /\ todo \in [Proc -> SUBSET LockName]
  /\ seen \in [Proc -> [LockName -> Proc \cup {NoProc}]]

\* Between reading status.json and replacing it.
Mutating(p) ==
  pc[p] \in {"scan_log", "before", "append", "after", "status"}

\* One active write lane per project: no two processes are at once between
\* the read of status.json and its replacement (specs.md section 11).
OneWriter ==
  \A p, q \in Proc : Mutating(p) /\ Mutating(q) => p = q

\* Event ids count up from evt-000001 without gap or duplicate; a torn line
\* can only be the last one (doctor's and nextEventID's reading of the log).
EventIdsSequential ==
  \A i \in 1 .. Len(log) :
     log[i].id = i \/ (log[i].id = Torn /\ i = Len(log))

\* An incoherent store stays frozen: no line is ever appended to the log
\* while status.json does not name its last line, whatever happened since
\* the appending process compared the two.
AppendOnlyWhenCoherent ==
  [][log' # log => Readable(log) /\ Tail_(log) = status]_log

\* The events status.json has caught up with; a process still on its way
\* from the append to the status write will catch up.
Committed == [i \in 1 .. status |-> log[i].by]
Frozen ==
  /\ Len(log) > status
  /\ \A p \in Proc : pc[p] \notin {"after", "status"}

Ledger == INSTANCE EventLedger WITH
  Writer <- Proc, committed <- Committed, frozen <- Frozen

\* The two files together implement the atomic ledger: an event and the
\* status naming it take effect at once, and a store a fault has split
\* commits nothing any more.
LedgerIsAtomic == Ledger!Spec

\* A lock that disappears was removed by the process that created it, or an
\* event in the log records its recovery: no forced unlock without an event.
UnlockRecorded ==
  [][\A n \in LockName :
       LET o == lock[n].owner
       IN  (lock[n] # NoFile /\ lock'[n] # lock[n] /\ lock'[n] # File(o, TRUE))
             => \/ pc'[o] # pc[o]
                \/ \E i \in 1 .. Len(log) :
                     log[i].freed = n /\ log[i].owner = o]_lock

\* A command that returns without having failed to release, on whatever
\* error path, leaves no usable lock of its own behind.
LocksReturned ==
  \A p \in Proc, n \in LockName :
     pc[p] = "exited" /\ outcome[p] # "unreleased" => lock[n] # File(p, TRUE)

\* A live run transition that holds active_run.lock holds project_write.lock
\* too, so the fixed order cannot be bypassed by a recovery.
ActiveLockNested ==
  \A p \in Proc :
     /\ lock["active_run"] # NoFile
     /\ lock["active_run"].owner = p
     /\ Alive(p)
     => lock["project_write"] = File(p, TRUE)

\* A mutation that reports success is recorded: its event stands in the log
\* under the id it allocated and status.json has caught up with it, so the
\* file it wrote around the append is covered by the audit trail.
SuccessIsRecorded ==
  \A p \in Proc :
     pc[p] = "exited" /\ outcome[p] = "ok" =>
       /\ next[p] \in 1 .. status
       /\ log[next[p]].by = p
       /\ WritesBefore(cmd[p]) => ahead.id >= next[p]
       /\ WritesAfter(cmd[p]) => behind.id >= next[p]

\* No command waits for another: each one ends, whatever the others do.
EveryCommandEnds ==
  \A p \in Proc : (pc[p] # "idle") ~> (pc[p] \in {"exited", "crashed"})
=============================================================================
