------------------------- MODULE HelperStateProofs -------------------------
(***************************************************************************)
(* Proofs about HelperState for every set of processes, every placement on *)
(* hosts and every number of events: the types, that locks are given back, *)
(* and that commands come to an end, always; mutual exclusion, the         *)
(* integrity of the event log and its implementation of EventLedger when   *)
(* the project is operated with discipline.                                *)
(***************************************************************************)
EXTENDS HelperState, TLAPS

\* No lock outlives 30 minutes while its owner runs, nobody uses lock recover
\* all, and recoveries of project_write.lock do not overlap.  The violation
\* runs of HelperState show that none of the three can be dropped.
Disciplined ==
  /\ SlowOwners = {}
  /\ SerialRecovery
  /\ "recover all" \notin Recoveries

-----------------------------------------------------------------------------
(* The inductive invariant *)

BodyPc ==
  {"inspect", "read_status", "scan_log", "before", "append", "after",
   "status", "verify_target", "remove_target"}

\* How many locks a process holds at each step.
HeldOK(s, c, h) ==
  /\ s = "idle" => h = 0
  /\ s # "idle" => c \in Command
  /\ s \in {"create", "metadata"} => h < LocksNeeded(c)
  /\ s \in BodyPc => h = LocksNeeded(c)
  /\ s \in {"verify_own", "remove_own"} => h > 0
HeldInv == \A p \in Proc : HeldOK(pc[p], cmd[p], held[p])

\* An id has been allocated before anything is written.
NextInv ==
  \A p \in Proc :
     pc[p] \in {"before", "append", "after", "status"} => next[p] > 0

LocalInv == TypeOK /\ HeldInv /\ NextInv

\* The command is one of the disciplined ones; what it has inspected so far.
SeenInv ==
  \A p \in Proc :
    /\ cmd[p] # "recover all"
    /\ pc[p] \in {"inspect", "verify_target", "remove_target"} =>
         cmd[p] \in RecoverCommand
    /\ pc[p] \in {"create", "metadata", "inspect"} =>
         todo[p] = LockTargets(cmd[p])
    /\ pc[p] \in {"idle", "create", "metadata", "inspect"} =>
         \A n \in LockName : seen[p][n] = NoProc
    /\ \A n \in LockName :
         n \notin LockTargets(cmd[p]) => seen[p][n] = NoProc
    /\ pc[p] \in BodyPc \ {"inspect"} =>
         \A n \in LockTargets(cmd[p]) : seen[p][n] # NoProc

\* A lock file was created by a process that has started; an old one, by a
\* process that is gone.
OwnerInv ==
  /\ \A n \in LockName : lock[n] # NoFile => pc[lock[n].owner] # "idle"
  /\ \A p \in aged : ~Alive(p) /\ pc[p] # "idle"

\* A live process that thinks it holds the project lock does.
HolderInv ==
  \A p \in Proc :
    /\ Alive(p) /\ held[p] > 0 => lock["project_write"] = File(p, TRUE)
    /\ pc[p] = "metadata" /\ held[p] = 0 =>
         lock["project_write"] = File(p, FALSE)

\* The project lock an unlocked recovery found stale stays where it is, and
\* its owner stays dead, until that recovery removes it.
RecoveryInv ==
  \A p \in Proc :
    LET o == seen[p]["project_write"]
    IN  Alive(p) /\ cmd[p] = "recover project-write" /\ o # NoProc =>
          /\ lock["project_write"] = File(o, TRUE)
          /\ ~Alive(o) /\ pc[o] # "idle"

OneRecoveryInv ==
  \A p, q \in Proc :
    /\ Alive(p) /\ cmd[p] \in UnlockedCommand
    /\ Alive(q) /\ cmd[q] \in UnlockedCommand
    => p = q

LockInv ==
  LocalInv /\ SeenInv /\ OwnerInv /\ HolderInv /\ RecoveryInv /\ OneRecoveryInv

\* The log is at most one line ahead of status.json.
LogInv ==
  /\ Len(log) \in {status, status + 1}
  /\ EventIdsSequential
  /\ Len(log) = status => log[status].id = status

\* What the one writer read and allocated fits the files.
WriterInv ==
  \A p \in Proc :
    /\ pc[p] = "scan_log" => copy[p] = status
    /\ pc[p] \in {"before", "append"} =>
         Len(log) = status /\ next[p] = status + 1
    /\ pc[p] \in {"after", "status"} =>
         Len(log) = status + 1 /\ next[p] = Len(log)
                               /\ log[Len(log)].id = Len(log)

LedgerInv == LogInv /\ WriterInv

-----------------------------------------------------------------------------
(* Types *)

\* There is at least one event id (evt-000001).
LEMMA MaxEventIdType == MaxEventId \in Nat /\ 1 <= MaxEventId
  <1>1. MaxEventId \in Nat \ {0}
    BY HelperStateAssumption
  <1> QED
    BY <1>1

\* FirstLock always names one of the two lock files.
LEMMA FirstLockType == \A S : FirstLock(S) \in LockName
  BY DEF FirstLock, LockName

\* The line a command appends is a well-formed event and carries the id the
\* command allocated.
LEMMA EventOfType ==
  ASSUME TypeOK, NEW p \in Proc
  PROVE  EventOf(p) \in EventRecord /\ EventOf(p).id = next[p]
  <1>1. next[p] \in 0 .. MaxEventId
    BY DEF TypeOK
  <1>2. seen[p][FirstLock(Found(p))] \in Proc \cup {NoProc}
    BY FirstLockType DEF TypeOK
  <1> QED
    BY <1>1, <1>2, FirstLockType DEF EventOf, Event, EventRecord

\* An event that frees no lock is well formed.
LEMMA NewEventType ==
  ASSUME NEW i \in 0 .. MaxEventId, NEW p \in Proc \cup {NoProc}
  PROVE  Event(i, p, NoLock, NoProc) \in EventRecord
  BY DEF Event, EventRecord

\* Types, lock counts and allocated ids are right at the start.
LEMMA LocalInvInit == Init => LocalInv
  <1> SUFFICES ASSUME Init PROVE LocalInv
    OBVIOUS
  <1>1. 1 \in 1 .. MaxEventId /\ 0 \in 0 .. MaxEventId
    BY MaxEventIdType
  <1>2. Event(1, NoProc, NoLock, NoProc) \in EventRecord
    BY <1>1, NewEventType
  <1>3. lock \in [LockName -> LockFile]
    BY DEF Init, LockFile
  <1>4. TypeOK
    BY <1>1, <1>2, <1>3 DEF Init, TypeOK, PcValue
  <1>5. HeldInv /\ NextInv
    BY DEF Init, HeldInv, HeldOK, NextInv, BodyPc
  <1> QED
    BY <1>4, <1>5 DEF LocalInv

\* What a step of another process leaves alone.
Same(q) ==
  /\ pc'[q] = pc[q] /\ cmd'[q] = cmd[q] /\ held'[q] = held[q]
  /\ copy'[q] = copy[q] /\ next'[q] = next[q]
  /\ todo'[q] = todo[q] /\ seen'[q] = seen[q]

\* One process moves.
ProcStep(p) == Start(p) \/ Step(p) \/ Fault(p) \/ LockAges(p)

\* A step of one process touches no local variable of another.
LEMMA Frame ==
  ASSUME TypeOK, NEW p \in Proc, ProcStep(p), NEW q \in Proc \ {p}
  PROVE  Same(q)
  <1> USE DEF TypeOK, Same, Goto
  <1>1. CASE Start(p)
    BY <1>1 DEF Start, files
  <1>2. CASE CreateLock(p)
    BY <1>2 DEF CreateLock, Return, files
  <1>3. CASE WriteMetadata(p)
    BY <1>3 DEF WriteMetadata, files
  <1>4. CASE WriteMetadataFails(p)
    BY <1>4 DEF WriteMetadataFails, Return, files
  <1>5. CASE SyncMetadataFails(p)
    BY <1>5 DEF SyncMetadataFails, Return, files
  <1>6. CASE ReadStatus(p)
    BY <1>6 DEF ReadStatus, files
  <1>7. CASE ScanLog(p)
    BY <1>7 DEF ScanLog, Return, files
  <1>8. CASE BeforeAppend(p)
    BY <1>8 DEF BeforeAppend, files
  <1>9. CASE AppendEventLine(p)
    BY <1>9 DEF AppendEventLine, files
  <1>10. CASE AppendEventLineTorn(p)
    BY <1>10 DEF AppendEventLineTorn, Return, files
  <1>11. CASE MutateStatus(p)
    BY <1>11 DEF MutateStatus, files
  <1>12. CASE ReplaceStatus(p)
    BY <1>12 DEF ReplaceStatus, Return, files
  <1>13. CASE OperationFails(p)
    BY <1>13 DEF OperationFails, Return, files
  <1>14. CASE Inspect(p)
    BY <1>14 DEF Inspect, Return, files
  <1>15. CASE VerifyTarget(p)
    BY <1>15 DEF VerifyTarget, Return, files
  <1>16. CASE RemoveTarget(p)
    BY <1>16 DEF RemoveTarget, Return, files
  <1>17. CASE VerifyOwn(p)
    BY <1>17 DEF VerifyOwn, Released, files
  <1>18. CASE RemoveOwn(p)
    BY <1>18 DEF RemoveOwn, Released, files
  <1>19. CASE RemoveOwnFails(p)
    BY <1>19 DEF RemoveOwnFails, Released, files
  <1>20. CASE Crash(p)
    BY <1>20 DEF Crash, files
  <1>21. CASE LockAges(p)
    BY <1>21 DEF LockAges, files, locals
  <1> QED
    BY <1>1, <1>2, <1>3, <1>4, <1>5, <1>6, <1>7, <1>8, <1>9, <1>10, <1>11,
       <1>12, <1>13, <1>14, <1>15, <1>16, <1>17, <1>18, <1>19, <1>20, <1>21
       DEF ProcStep, Step, Fault

\* LockOrder names the project lock and then the active-run lock; no command
\* needs more than those two.
LEMMA LockOrderType ==
  /\ \A c : LocksNeeded(c) \in 0 .. 2
  /\ LockOrder[1] = "project_write" /\ LockOrder[2] = "active_run"
  /\ \A i \in 1 .. 2 : LockOrder[i] \in LockName
  BY DEF LocksNeeded, LockOrder, LockName

\* Holding no lock is not holding some.
LEMMA NoneIsNotSome == \A h : h = 0 => ~(h > 0)
  OBVIOUS

\* Exactly the two unlocked recoveries need no lock.
LEMMA LocksNeededValue ==
  \A c : /\ c \in UnlockedCommand => LocksNeeded(c) = 0
         /\ c \notin UnlockedCommand => LocksNeeded(c) > 0
  BY DEF LocksNeeded

\* A process still acquiring locks has a next lock in LockOrder.
LEMMA MoreLocks ==
  ASSUME LocalInv, NEW p \in Proc, pc[p] \in {"create", "metadata"}
  PROVE  /\ held[p] + 1 \in 1 .. 2
         /\ LockOrder[held[p] + 1] \in LockName
  <1>1. held[p] \in 0 .. 2 /\ held[p] < LocksNeeded(cmd[p])
    BY DEF LocalInv, TypeOK, HeldInv, HeldOK
  <1>2. LocksNeeded(cmd[p]) \in 0 .. 2
    BY LockOrderType
  <1> QED
    BY <1>1, <1>2, LockOrderType

\* A lock file that exists has the owner and the state it was written with.
LEMMA FileType ==
  \A p \in Proc, w \in BOOLEAN :
    /\ File(p, w) \in LockFile
    /\ NoFile \in LockFile
    /\ File(p, w) # NoFile
    /\ File(p, w).owner = p /\ File(p, w).written = w
  BY NoFileAssumption DEF File, LockFile

\* The two variables Goto and Return write.
PcType == pc' \in [Proc -> PcValue]
ResultType == outcome' \in [Proc -> {"ok", "error", "unreleased"}]

\* Goto keeps the program counters within their type.
LEMMA GotoType ==
  ASSUME TypeOK, NEW p \in Proc, NEW s \in PcValue, Goto(p, s)
  PROVE  PcType
  BY DEF TypeOK, Goto, PcType

\* Return keeps program counters and outcomes within their types.
LEMMA ReturnType ==
  ASSUME TypeOK, NEW p \in Proc,
         NEW r \in {"ok", "error", "unreleased"}, Return(p, r)
  PROVE  PcType /\ ResultType
  BY DEF TypeOK, Goto, Return, PcType, ResultType, PcValue

\* Releasing a lock never takes the count below zero.
LEMMA ReleasedType ==
  ASSUME LocalInv, NEW p \in Proc, NEW r, Released(p, r),
         r \in {"ok", "error", "unreleased"},
         pc[p] \in {"verify_own", "remove_own"}
  PROVE  PcType /\ ResultType /\ held' \in [Proc -> 0 .. 2]
  BY DEF LocalInv, TypeOK, HeldInv, HeldOK, Goto, Released, PcType, ResultType,
         PcValue

\* Every step of every command keeps every variable within its type.
LEMMA TypeStep ==
  ASSUME LocalInv, NEW p \in Proc, ProcStep(p)
  PROVE  TypeOK'
  <1> USE LockOrderType, FileType DEF LocalInv, TypeOK, PcType, ResultType
  <1>1. CASE Start(p)
    <2>1. PICK c \in Command :
            /\ cmd' = [cmd EXCEPT ![p] = c]
            /\ todo' = [todo EXCEPT ![p] = LockTargets(c)]
            /\ Goto(p, IF LocksNeeded(c) > 0 THEN "create" ELSE Body(c))
      BY <1>1, HelperStateAssumption DEF Start, Command, RecoverCommand
    <2>2. LockTargets(c) \subseteq LockName
      BY DEF LockTargets, LockName
    <2>3. PcType
      BY <2>1, GotoType DEF Body, PcValue
    <2> QED
      BY <1>1, <2>1, <2>2, <2>3 DEF Start, files
  <1>2. CASE CreateLock(p)
    <2>1. held[p] + 1 \in 1 .. 2 /\ LockOrder[held[p] + 1] \in LockName
      BY <1>2, MoreLocks DEF CreateLock
    <2>2. PcType /\ ResultType
      BY <1>2, ReturnType, GotoType DEF CreateLock, PcValue
    <2>3. lock' \in [LockName -> LockFile]
      BY <1>2, <2>1 DEF CreateLock
    <2> QED
      BY <1>2, <2>2, <2>3 DEF CreateLock
  <1>3. CASE WriteMetadata(p)
    <2>1. held[p] + 1 \in 1 .. 2 /\ LockOrder[held[p] + 1] \in LockName
      BY <1>3, MoreLocks DEF WriteMetadata
    <2>2. PcType
      BY <1>3, GotoType DEF WriteMetadata, PcValue, Body
    <2>3. lock' \in [LockName -> LockFile]
      BY <1>3, <2>1 DEF WriteMetadata
    <2>4. held' \in [Proc -> 0 .. 2]
      BY <1>3, <2>1 DEF WriteMetadata
    <2> QED
      BY <1>3, <2>2, <2>3, <2>4 DEF WriteMetadata
  <1>4. CASE WriteMetadataFails(p)
    BY <1>4, ReturnType DEF WriteMetadataFails, files, PcValue
  <1>5. CASE SyncMetadataFails(p)
    <2>1. PcType /\ ResultType
      BY <1>5, ReturnType DEF SyncMetadataFails
    <2>2. lock' \in [LockName -> LockFile]
      BY <1>5 DEF SyncMetadataFails
    <2> QED
      BY <1>5, <2>1, <2>2 DEF SyncMetadataFails
  <1>6. CASE ReadStatus(p)
    BY <1>6, GotoType DEF ReadStatus, files, PcValue
  <1>7. CASE ScanLog(p)
    <2>1. PcType /\ ResultType
      BY <1>7, ReturnType, GotoType DEF ScanLog, PcValue
    <2>2. ~Exhausted(copy[p]) => copy[p] + 1 \in 0 .. MaxEventId
      BY MaxEventIdType DEF Exhausted
    <2>3. next' \in [Proc -> 0 .. MaxEventId]
      BY <1>7, <2>2 DEF ScanLog
    <2> QED
      BY <1>7, <2>1, <2>3 DEF ScanLog, files
  <1>8. CASE BeforeAppend(p)
    BY <1>8, GotoType, EventOfType DEF BeforeAppend, files, PcValue
  <1>9. CASE AppendEventLine(p)
    BY <1>9, GotoType, EventOfType DEF AppendEventLine, files, PcValue
  <1>10. CASE AppendEventLineTorn(p)
    <2>1. TornLine(p) \in EventRecord
      BY MaxEventIdType, NewEventType DEF TornLine, Torn
    <2> QED
      BY <1>10, <2>1, ReturnType DEF AppendEventLineTorn
  <1>11. CASE MutateStatus(p)
    BY <1>11, GotoType, EventOfType DEF MutateStatus, files, PcValue
  <1>12. CASE ReplaceStatus(p)
    BY <1>12, ReturnType, GotoType DEF ReplaceStatus, files, NextInv, PcValue
  <1>13. CASE OperationFails(p)
    BY <1>13, ReturnType DEF OperationFails, files, PcValue
  <1>14. CASE Inspect(p)
    <2>1. PcType /\ ResultType
      BY <1>14, ReturnType, GotoType DEF Inspect, PcValue
    <2>2. FirstLock(todo[p]) \in LockName
      BY FirstLockType
    <2>3. \/ todo' = todo
          \/ todo' = [todo EXCEPT ![p] = todo[p] \ {FirstLock(todo[p])}]
      BY <1>14 DEF Inspect
    <2>6. todo' \in [Proc -> SUBSET LockName]
      <3>1. todo[p] \ {FirstLock(todo[p])} \in SUBSET LockName
        OBVIOUS
      <3> QED
        BY <2>3, <3>1
    <2>7. \/ seen' = seen
          \/ /\ lock[FirstLock(todo[p])] # NoFile
             /\ seen' = [seen EXCEPT ![p][FirstLock(todo[p])] =
                                      lock[FirstLock(todo[p])].owner]
      BY <1>14 DEF Inspect
    <2>4. lock[FirstLock(todo[p])] # NoFile =>
            lock[FirstLock(todo[p])].owner \in Proc
      BY <2>2 DEF LockFile
    <2>5. seen' \in [Proc -> [LockName -> Proc \cup {NoProc}]]
      <3>1. lock[FirstLock(todo[p])] # NoFile =>
              [seen[p] EXCEPT ![FirstLock(todo[p])] =
                                lock[FirstLock(todo[p])].owner]
                \in [LockName -> Proc \cup {NoProc}]
        BY <2>2, <2>4
      <3> QED
        BY <2>7, <3>1
    <2> QED
      BY <1>14, <2>1, <2>5, <2>6 DEF Inspect, files
  <1>15. CASE VerifyTarget(p)
    BY <1>15, ReturnType, GotoType DEF VerifyTarget, files, PcValue
  <1>16. CASE RemoveTarget(p)
    <2>1. PcType /\ ResultType
      BY <1>16, ReturnType, GotoType DEF RemoveTarget, PcValue
    <2>2. FirstLock(Found(p)) \in LockName
      BY FirstLockType
    <2>3. lock' \in [LockName -> LockFile]
      BY <1>16, <2>2 DEF RemoveTarget
    <2>4. seen' \in [Proc -> [LockName -> Proc \cup {NoProc}]]
      <3>1. \/ seen' = seen
            \/ seen' = [seen EXCEPT ![p][FirstLock(Found(p))] = NoProc]
        BY <1>16 DEF RemoveTarget
      <3>2. [seen[p] EXCEPT ![FirstLock(Found(p))] = NoProc]
              \in [LockName -> Proc \cup {NoProc}]
        BY <2>2
      <3> QED
        BY <3>1, <3>2
    <2> QED
      BY <1>16, <2>1, <2>3, <2>4 DEF RemoveTarget
  <1>17. CASE VerifyOwn(p)
    BY <1>17, ReleasedType, GotoType DEF VerifyOwn, files, PcValue
  <1>18. CASE RemoveOwn(p)
    BY <1>18, ReleasedType, GotoType
       DEF RemoveOwn, files, PcValue, HeldInv, HeldOK
  <1>19. CASE RemoveOwnFails(p)
    BY <1>19, ReleasedType DEF RemoveOwnFails, files, PcValue
  <1>20. CASE Crash(p)
    BY <1>20, GotoType DEF Crash, files, PcValue
  <1>21. CASE LockAges(p)
    BY <1>21 DEF LockAges, files, locals, PcValue
  <1> QED
    BY <1>1, <1>2, <1>3, <1>4, <1>5, <1>6, <1>7, <1>8, <1>9, <1>10, <1>11,
       <1>12, <1>13, <1>14, <1>15, <1>16, <1>17, <1>18, <1>19, <1>20, <1>21
       DEF ProcStep, Step, Fault

-----------------------------------------------------------------------------
(* The locks a process holds *)

\* Goto moves its process to the step it names.
LEMMA GotoValue ==
  ASSUME TypeOK, NEW p \in Proc, NEW s, Goto(p, s)
  PROVE  pc'[p] = s
  BY DEF TypeOK, Goto

\* Return goes on to the deferred releases exactly when a lock is held.
LEMMA ReturnValue ==
  ASSUME TypeOK, NEW p \in Proc, NEW r, Return(p, r)
  PROVE  /\ held[p] > 0 => pc'[p] = "verify_own"
         /\ ~(held[p] > 0) => pc'[p] = "exited"
         /\ outcome'[p] = r
  BY DEF TypeOK, Return, Goto

\* A release goes on to the next lock exactly when one is left.
LEMMA ReleasedValue ==
  ASSUME TypeOK, NEW p \in Proc, NEW r, Released(p, r)
  PROVE  /\ held[p] > 1 => pc'[p] = "verify_own"
         /\ ~(held[p] > 1) => pc'[p] = "exited"
         /\ held'[p] = held[p] - 1
         /\ outcome'[p] = r
  BY DEF TypeOK, Released, Goto

\* At every step a process holds exactly the locks its command has reached:
\* none while idle, all it needs in its body, at least one while releasing.
LEMMA HeldStep ==
  ASSUME LocalInv, NEW p \in Proc, ProcStep(p)
  PROVE  HeldInv'
  <1>1. TypeOK /\ HeldOK(pc[p], cmd[p], held[p])
    BY DEF LocalInv, HeldInv
  <1>2. held[p] \in 0 .. 2 /\ LocksNeeded(cmd[p]) \in 0 .. 2
    BY <1>1, LockOrderType DEF TypeOK
  <1>3. ASSUME NEW q \in Proc \ {p}
        PROVE  HeldOK(pc'[q], cmd'[q], held'[q])
    BY <1>1, <1>3, Frame DEF Same, LocalInv, HeldInv
  <1>4. HeldOK(pc'[p], cmd'[p], held'[p])
    <2> USE <1>1, <1>2, GotoValue, ReturnValue DEF HeldOK, BodyPc
    <2>1. CASE Start(p)
      <3>1. PICK c \in Command :
              /\ cmd' = [cmd EXCEPT ![p] = c]
              /\ Goto(p, IF LocksNeeded(c) > 0 THEN "create" ELSE Body(c))
        BY <2>1, HelperStateAssumption DEF Start, Command, RecoverCommand
      <3>2. cmd'[p] = c
        BY <3>1 DEF TypeOK
      <3>3. held'[p] = 0 /\ LocksNeeded(c) \in 0 .. 2
        BY <2>1, LockOrderType DEF Start
      <3> QED
        BY <3>1, <3>2, <3>3 DEF Body
    <2>2. CASE CreateLock(p)
      BY <2>2 DEF CreateLock
    <2>3. CASE WriteMetadata(p)
      <3>1. held'[p] = held[p] + 1 /\ cmd'[p] = cmd[p]
        BY <2>3 DEF WriteMetadata, TypeOK
      <3>2. pc'[p] = IF held'[p] < LocksNeeded(cmd[p]) THEN "create"
                     ELSE Body(cmd[p])
        BY <2>3 DEF WriteMetadata
      <3>3. held[p] < LocksNeeded(cmd[p]) /\ cmd[p] \in Command
        BY <2>3 DEF WriteMetadata
      <3> QED
        BY <3>1, <3>2, <3>3 DEF Body
    <2>4. CASE WriteMetadataFails(p)
      BY <2>4 DEF WriteMetadataFails
    <2>5. CASE SyncMetadataFails(p)
      BY <2>5 DEF SyncMetadataFails
    <2>6. CASE ReadStatus(p)
      BY <2>6 DEF ReadStatus
    <2>7. CASE ScanLog(p)
      BY <2>7 DEF ScanLog
    <2>8. CASE BeforeAppend(p)
      BY <2>8 DEF BeforeAppend
    <2>9. CASE AppendEventLine(p)
      BY <2>9 DEF AppendEventLine
    <2>10. CASE AppendEventLineTorn(p)
      BY <2>10 DEF AppendEventLineTorn
    <2>11. CASE MutateStatus(p)
      BY <2>11 DEF MutateStatus
    <2>12. CASE ReplaceStatus(p)
      BY <2>12 DEF ReplaceStatus
    <2>13. CASE OperationFails(p)
      BY <2>13 DEF OperationFails
    <2>14. CASE Inspect(p)
      BY <2>14 DEF Inspect
    <2>15. CASE VerifyTarget(p)
      BY <2>15 DEF VerifyTarget
    <2>16. CASE RemoveTarget(p)
      BY <2>16 DEF RemoveTarget
    <2>17. CASE VerifyOwn(p)
      <3>1. CASE Goto(p, "remove_own") /\ held' = held
        BY <2>17, <3>1 DEF VerifyOwn
      <3>2. CASE Released(p, "unreleased")
        BY <2>17, <3>2, ReleasedValue DEF VerifyOwn
      <3> QED
        BY <2>17, <3>1, <3>2 DEF VerifyOwn
    <2>18. CASE RemoveOwn(p)
      <3>1. PICK r : Released(p, r)
        BY <2>18 DEF RemoveOwn
      <3> QED
        BY <2>18, <3>1, ReleasedValue DEF RemoveOwn
    <2>19. CASE RemoveOwnFails(p)
      BY <2>19, ReleasedValue DEF RemoveOwnFails
    <2>20. CASE Crash(p)
      BY <2>20 DEF Crash, Alive
    <2>21. CASE LockAges(p)
      BY <2>21 DEF LockAges, locals
    <2> QED
      BY <2>1, <2>2, <2>3, <2>4, <2>5, <2>6, <2>7, <2>8, <2>9, <2>10, <2>11,
         <2>12, <2>13, <2>14, <2>15, <2>16, <2>17, <2>18, <2>19, <2>20, <2>21
         DEF ProcStep, Step, Fault
  <1> QED
    BY <1>3, <1>4 DEF HeldInv

\* Every step keeps an id allocated from the coherence check to the end of
\* the mutation.
LEMMA NextStep ==
  ASSUME LocalInv, NEW p \in Proc, ProcStep(p)
  PROVE  NextInv'
  <1> DEFINE Allocated(q) ==
        pc[q] \in {"before", "append", "after", "status"} => next[q] > 0
  <1>1. TypeOK /\ Allocated(p)
    BY DEF LocalInv, NextInv
  <1>2. ASSUME NEW q \in Proc \ {p}
        PROVE  Allocated(q)'
    BY <1>1, <1>2, Frame DEF Same, LocalInv, NextInv
  <1>3. Allocated(p)'
    <2> USE <1>1, GotoValue, ReturnValue, ReleasedValue
    <2>1. CASE pc'[p] = pc[p] /\ next' = next
      BY <2>1
    <2>2. CASE ScanLog(p)
      <3>1. copy[p] + 1 > 0 /\ next \in [Proc -> 0 .. MaxEventId]
        BY MaxEventIdType DEF TypeOK
      <3>2. CASE next' = [next EXCEPT ![p] = copy[p] + 1]
        BY <3>1, <3>2
      <3>3. CASE \E r : Return(p, r)
        BY <3>3
      <3> QED
        BY <2>2, <3>2, <3>3 DEF ScanLog
    <2>3. CASE pc'[p] \notin {"before", "append", "after", "status"}
      BY <2>3
    <2>4. CASE /\ pc[p] \in {"before", "append", "after"}
               /\ next' = next
      BY <2>4
    <2> QED
      BY <2>1, <2>2, <2>3, <2>4 DEF ProcStep, Step, Fault, Start, Body,
         CreateLock, WriteMetadata, WriteMetadataFails, SyncMetadataFails,
         ReadStatus, BeforeAppend, AppendEventLine, AppendEventLineTorn,
         MutateStatus, ReplaceStatus, OperationFails, Inspect, VerifyTarget,
         RemoveTarget, VerifyOwn, RemoveOwn, RemoveOwnFails, Crash, LockAges,
         locals
  <1> QED
    BY <1>2, <1>3 DEF NextInv

\* LocalInv is inductive.
LEMMA LocalInvStep ==
  ASSUME LocalInv, [Next]_vars
  PROVE  LocalInv'
  <1>1. CASE \E p \in Proc : ProcStep(p)
    BY <1>1, TypeStep, HeldStep, NextStep DEF LocalInv
  <1>2. CASE UNCHANGED vars
    BY <1>2 DEF vars, files, locals, LocalInv, TypeOK, HeldInv, NextInv
  <1> QED
    BY <1>1, <1>2 DEF Next, ProcStep

(***************************************************************************)
(* Whatever is slow, overlapping or killed, and on whatever hosts, every   *)
(* variable keeps its type: no id beyond the last one is ever allocated, a *)
(* process never counts fewer than none or more than two locks, and every  *)
(* lock file names a process (lock.go, state.go).                          *)
(***************************************************************************)
THEOREM TypeCorrect == Spec => []TypeOK
  <1>1. LocalInv => TypeOK
    BY DEF LocalInv
  <1> QED
    BY <1>1, LocalInvInit, LocalInvStep, PTL DEF Spec

-----------------------------------------------------------------------------
(* The locks *)

\* A running command takes a step of its own, or fails, or is killed.
Running(p) ==
  Alive(p) /\ cmd' = cmd /\ aged' = aged /\ pc'[p] # "idle"

\* A step starts a command, ages a lock, or is taken by a running command.
LEMMA StepKind ==
  ASSUME LocalInv, NEW p \in Proc, ProcStep(p)
  PROVE  Start(p) \/ LockAges(p) \/ Running(p)
  <1> USE GotoValue, ReturnValue, ReleasedValue DEF Running, Alive
  <1>1. TypeOK
    BY DEF LocalInv
  <1>2. CASE CreateLock(p) \/ WriteMetadata(p) \/ WriteMetadataFails(p)
             \/ SyncMetadataFails(p)
    BY <1>1, <1>2 DEF CreateLock, WriteMetadata, WriteMetadataFails,
       SyncMetadataFails, Body, files
  <1>3. CASE ReadStatus(p) \/ ScanLog(p) \/ BeforeAppend(p)
             \/ AppendEventLine(p) \/ AppendEventLineTorn(p)
    BY <1>1, <1>3 DEF ReadStatus, ScanLog, BeforeAppend, AppendEventLine,
       AppendEventLineTorn, files
  <1>4. CASE MutateStatus(p) \/ ReplaceStatus(p) \/ OperationFails(p)
    BY <1>1, <1>4 DEF MutateStatus, ReplaceStatus, OperationFails, files
  <1>5. CASE Inspect(p) \/ VerifyTarget(p) \/ RemoveTarget(p)
    BY <1>1, <1>5 DEF Inspect, VerifyTarget, RemoveTarget, files
  <1>6. CASE VerifyOwn(p) \/ RemoveOwn(p) \/ RemoveOwnFails(p) \/ Crash(p)
    BY <1>1, <1>6 DEF VerifyOwn, RemoveOwn, RemoveOwnFails, Crash, files
  <1> QED
    BY <1>2, <1>3, <1>4, <1>5, <1>6 DEF ProcStep, Step, Fault

\* Nobody comes back: the dead stay dead and keep their command.
\* The dead stay dead, and a command never turns into another.
LEMMA Course ==
  ASSUME LocalInv, NEW p \in Proc, ProcStep(p), NEW q \in Proc,
         pc[q] # "idle"
  PROVE  /\ pc'[q] # "idle"
         /\ cmd'[q] = cmd[q]
         /\ Alive(q)' => Alive(q)
  <1>1. CASE q # p
    BY <1>1, Frame DEF LocalInv, Same, Alive
  <1>2. CASE q = p
    BY <1>2, StepKind DEF Start, LockAges, Running, locals, Alive
  <1> QED
    BY <1>1, <1>2

\* The lock every command but the unlocked recoveries holds.
PW == "project_write"

\* What a step does to the project lock.
ProjectKept(p) ==
  /\ lock'[PW] = lock[PW]
  /\ Alive(p)' /\ held'[p] > 0 => Alive(p) /\ held[p] > 0
  /\ pc'[p] = "metadata" /\ held'[p] = 0 =>
       pc[p] = "metadata" /\ held[p] = 0
ProjectCreated(p) ==
  /\ pc[p] = "create" /\ lock[PW] = NoFile
  /\ lock'[PW] = File(p, FALSE) /\ held'[p] = 0
ProjectLocked(p) ==
  /\ pc[p] = "metadata" /\ held[p] = 0
  /\ lock'[PW] = File(p, TRUE) /\ pc'[p] # "metadata"
ProjectGivenUp(p) ==
  /\ pc[p] = "metadata" /\ held[p] = 0
  /\ lock'[PW] \in {NoFile, File(p, TRUE)} /\ ~Alive(p)'
ProjectReleased(p) ==
  /\ pc[p] = "remove_own" /\ held[p] > 0
  /\ lock'[PW] = NoFile /\ ~Alive(p)'
ProjectRecovered(p) ==
  /\ pc[p] = "remove_target" /\ cmd[p] = "recover project-write"
  /\ lock'[PW] = NoFile /\ ~Alive(p)'

\* FirstLock of a single lock is that lock.
LEMMA FirstOfOne == \A n \in LockName : FirstLock({n}) = n
  BY DEF FirstLock, LockName

\* Past its inspection a disciplined recovery has found all its targets.
LEMMA FoundTargets ==
  ASSUME SeenInv, NEW p \in Proc, pc[p] \in BodyPc \ {"inspect"}
  PROVE  Found(p) = LockTargets(cmd[p])
  BY DEF SeenInv, Found, LockTargets, LockName

\* The six things a step can do to project_write.lock, each with what the
\* process knew before it.
LEMMA ProjectStep ==
  ASSUME LockInv, NEW p \in Proc, ProcStep(p)
  PROVE  \/ ProjectKept(p) \/ ProjectCreated(p) \/ ProjectLocked(p)
         \/ ProjectGivenUp(p) \/ ProjectReleased(p) \/ ProjectRecovered(p)
  <1>1. TypeOK /\ LocalInv /\ HeldOK(pc[p], cmd[p], held[p]) /\ SeenInv
    BY DEF LockInv, LocalInv, HeldInv
  <1>2. held[p] \in 0 .. 2 /\ lock \in [LockName -> LockFile]
        /\ PW \in LockName
    BY <1>1 DEF TypeOK, LockName, PW
  <1>3. pc[p] \in {"create", "metadata"} =>
          \/ held[p] = 0 /\ LockOrder[held[p] + 1] = PW
          \/ held[p] = 1 /\ LockOrder[held[p] + 1] = "active_run"
    <2>1. pc[p] \in {"create", "metadata"} => held[p] + 1 \in 1 .. 2
      BY <1>1, MoreLocks
    <2>2. held[p] + 1 \in 1 .. 2 => held[p] = 0 \/ held[p] = 1
      BY <1>2
    <2>3. held[p] = 0 => LockOrder[held[p] + 1] = PW
      BY LockOrderType DEF PW
    <2>4. held[p] = 1 => LockOrder[held[p] + 1] = "active_run"
      BY LockOrderType
    <2> QED
      BY <2>1, <2>2, <2>3, <2>4
  <1> USE GotoValue, ReturnValue, ReleasedValue
  <1>4. CASE Start(p)
    <2>1. held'[p] = 0 /\ lock' = lock /\ pc'[p] # "metadata"
      BY <1>1, <1>4, HelperStateAssumption DEF Start, files, HeldOK, Body
    <2> QED
      BY <2>1 DEF ProjectKept
  <1>5. CASE LockAges(p)
    BY <1>5 DEF LockAges, locals, ProjectKept, Alive
  <1>6. CASE CreateLock(p)
    <2>1. CASE lock' = lock /\ held' = held /\ pc'[p] # "metadata"
      BY <2>1, <1>6 DEF ProjectKept, Alive, CreateLock
    <2>2. CASE /\ held[p] = 0 /\ lock[PW] = NoFile
               /\ lock' = [lock EXCEPT ![PW] = File(p, FALSE)]
      BY <2>2, <1>2, <1>6 DEF ProjectCreated, CreateLock
    <2>3. CASE /\ held[p] = 1 /\ held' = held
               /\ lock' = [lock EXCEPT !["active_run"] = File(p, FALSE)]
      BY <2>3, <1>2, <1>6 DEF ProjectKept, CreateLock, Alive, PW
    <2> QED
      BY <1>1, <1>3, <1>6, <2>1, <2>2, <2>3 DEF CreateLock
  <1>7. CASE WriteMetadata(p)
    <2>1. CASE held[p] = 0
      <3>1. lock[PW] = File(p, FALSE)
        BY <1>7, <2>1 DEF LockInv, HolderInv, WriteMetadata, PW
      <3>2. lock'[PW] = File(p, TRUE)
        <4>1. LockOrder[held[p] + 1] = PW
          BY <1>3, <1>7, <2>1 DEF WriteMetadata
        <4>2. lock' = [lock EXCEPT ![PW] = File(p, TRUE)]
          BY <1>7, <3>1, <4>1 DEF WriteMetadata
        <4> QED
          BY <1>2, <4>2
      <3> QED
        BY <1>1, <1>7, <2>1, <3>2 DEF WriteMetadata, ProjectLocked, Body
    <2>2. CASE held[p] = 1
      <3>1. lock'[PW] = lock[PW]
        <4>1. LockOrder[held[p] + 1] = "active_run"
          BY <1>3, <1>7, <2>2 DEF WriteMetadata
        <4>2. \/ lock' = lock
              \/ lock' = [lock EXCEPT !["active_run"] = File(p, TRUE)]
          BY <1>7, <4>1 DEF WriteMetadata
        <4> QED
          BY <1>2, <4>2 DEF PW
      <3>2. pc'[p] # "metadata"
        BY <1>1, <1>7 DEF WriteMetadata, Body
      <3>3. Alive(p) /\ held[p] > 0
        BY <1>7, <2>2 DEF WriteMetadata, Alive
      <3> QED
        BY <3>1, <3>2, <3>3 DEF ProjectKept
    <2> QED
      BY <1>3, <1>7, <2>1, <2>2 DEF WriteMetadata
  <1>8. CASE SyncMetadataFails(p)
    <2>1. CASE held[p] = 0
      <3>1. lock[PW] = File(p, FALSE)
        BY <1>8, <2>1 DEF LockInv, HolderInv, SyncMetadataFails, PW
      <3>2. lock'[PW] \in {NoFile, File(p, TRUE)}
        <4>1. LockOrder[held[p] + 1] = PW
          BY <1>3, <1>8, <2>1 DEF SyncMetadataFails
        <4>2. \/ lock' = [lock EXCEPT ![PW] = NoFile]
              \/ lock' = [lock EXCEPT ![PW] = File(p, TRUE)]
          BY <1>8, <3>1, <4>1 DEF SyncMetadataFails
        <4> QED
          BY <1>2, <4>2
      <3>3. pc[p] = "metadata" /\ pc'[p] = "exited"
        <4>1. PICK result : Return(p, result)
          BY <1>8 DEF SyncMetadataFails
        <4> QED
          BY <1>1, <1>8, <2>1, <4>1 DEF SyncMetadataFails
      <3> QED
        BY <2>1, <3>2, <3>3 DEF ProjectGivenUp, Alive
    <2>2. CASE held[p] = 1
      <3>1. lock'[PW] = lock[PW]
        <4>1. LockOrder[held[p] + 1] = "active_run"
          BY <1>3, <1>8, <2>2 DEF SyncMetadataFails
        <4>2. \/ lock' = lock
              \/ lock' = [lock EXCEPT !["active_run"] = NoFile]
              \/ lock' = [lock EXCEPT !["active_run"] = File(p, TRUE)]
          BY <1>8, <4>1 DEF SyncMetadataFails
        <4> QED
          BY <1>2, <4>2 DEF PW
      <3>2. pc'[p] # "metadata"
        BY <1>1, <1>8 DEF SyncMetadataFails
      <3> QED
        BY <1>8, <2>2, <3>1, <3>2 DEF SyncMetadataFails, ProjectKept, Alive
    <2> QED
      BY <1>3, <1>8, <2>1, <2>2 DEF SyncMetadataFails
  <1>9. CASE RemoveTarget(p)
    <2>1. Found(p) = LockTargets(cmd[p]) /\ cmd[p] \in RecoverCommand
          /\ cmd[p] # "recover all"
      BY <1>1, <1>9, FoundTargets DEF RemoveTarget, SeenInv, BodyPc
    <2>2. CASE cmd[p] = "recover project-write"
      <3>1. Found(p) = {PW} /\ FirstLock(Found(p)) = PW
        BY <2>1, <2>2, FirstOfOne, <1>2 DEF LockTargets, PW
      <3>2. held[p] = 0
        BY <1>1, <1>9, <2>2
           DEF RemoveTarget, HeldOK, BodyPc, LocksNeeded, UnlockedCommand
      <3>3. CASE lock' = [lock EXCEPT ![PW] = NoFile]
        <4>1. ~Alive(p)'
          <5>1. PICK r \in {"ok", "error"} : Return(p, r)
            BY <1>9, <3>1 DEF RemoveTarget
          <5>2. pc'[p] = "exited"
            BY <1>1, <3>2, <5>1, ReturnValue
          <5> QED
            BY <5>2 DEF Alive
        <4> QED
          BY <1>2, <1>9, <2>2, <3>3, <4>1 DEF RemoveTarget, ProjectRecovered
      <3>4. CASE Return(p, "error") /\ lock' = lock
        BY <1>1, <1>9, <3>2, <3>4 DEF RemoveTarget, ProjectKept
      <3> QED
        BY <1>9, <3>1, <3>3, <3>4 DEF RemoveTarget
    <2>3. CASE cmd[p] = "recover active-run"
      <3>1. FirstLock(Found(p)) = "active_run"
        BY <2>1, <2>3, FirstOfOne DEF LockTargets, LockName
      <3>2. lock'[PW] = lock[PW]
        BY <1>2, <1>9, <3>1 DEF RemoveTarget, PW
      <3>3. held' = held /\ pc'[p] # "metadata" /\ Alive(p)
        BY <1>1, <1>9 DEF RemoveTarget, Alive
      <3> QED
        BY <3>2, <3>3 DEF ProjectKept
    <2> QED
      BY <2>1, <2>2, <2>3 DEF RecoverCommand
  <1>10. CASE RemoveOwn(p)
    <2>1. held[p] > 0 /\ Alive(p)
      BY <1>1, <1>10 DEF RemoveOwn, HeldOK, Alive
    <2>2. PICK r : Released(p, r)
      BY <1>10 DEF RemoveOwn
    <2>3. CASE held[p] = 1
      <3>1. lock'[PW] = NoFile
        BY <1>2, <1>10, <2>3, LockOrderType DEF RemoveOwn, PW
      <3>2. ~Alive(p)'
        BY <1>1, <2>2, <2>3 DEF Alive
      <3> QED
        BY <1>10, <2>3, <3>1, <3>2 DEF RemoveOwn, ProjectReleased
    <2>4. CASE held[p] = 2
      <3>1. lock'[PW] = lock[PW]
        BY <1>2, <1>10, <2>4, LockOrderType DEF RemoveOwn, PW
      <3>2. pc'[p] # "metadata"
        BY <1>1, <2>2
      <3> QED
        BY <2>1, <3>1, <3>2 DEF ProjectKept
    <2> QED
      BY <1>2, <2>1, <2>3, <2>4
  <1>11. CASE VerifyOwn(p) \/ RemoveOwnFails(p)
    <2>1. lock' = lock /\ Alive(p) /\ pc'[p] # "metadata" /\ held[p] > 0
      BY <1>1, <1>11 DEF VerifyOwn, RemoveOwnFails, files, Alive, HeldOK
    <2> QED
      BY <2>1 DEF ProjectKept
  <1>12. CASE Crash(p)
    BY <1>1, <1>12 DEF Crash, files, ProjectKept, Alive
  <1>13. CASE WriteMetadataFails(p)
    BY <1>1, <1>13 DEF WriteMetadataFails, files, ProjectKept, Alive
  <1>14. CASE lock' = lock /\ held' = held /\ Alive(p) /\ pc'[p] # "metadata"
    BY <1>14 DEF ProjectKept
  <1>15. CASE ReadStatus(p) \/ ScanLog(p) \/ BeforeAppend(p)
              \/ AppendEventLine(p) \/ AppendEventLineTorn(p)
    BY <1>1, <1>14, <1>15 DEF ReadStatus, ScanLog, BeforeAppend, Alive,
       AppendEventLine, AppendEventLineTorn, files
  <1>16. CASE MutateStatus(p) \/ ReplaceStatus(p) \/ OperationFails(p)
              \/ Inspect(p) \/ VerifyTarget(p)
    BY <1>1, <1>14, <1>16 DEF MutateStatus, ReplaceStatus, OperationFails,
       Alive, Inspect, VerifyTarget, files
  <1> QED
    BY <1>4, <1>5, <1>6, <1>7, <1>8, <1>9, <1>10, <1>11, <1>12, <1>13, <1>15,
       <1>16 DEF ProcStep, Step, Fault

\* Lock files of different owners, or in different states, differ.
LEMMA FileDistinct ==
  ASSUME NEW p \in Proc, NEW q \in Proc
  PROVE  /\ File(p, TRUE) # NoFile /\ File(p, FALSE) # NoFile
         /\ File(p, TRUE) # File(q, FALSE)
         /\ File(p, TRUE) = File(q, TRUE) => p = q
         /\ File(p, FALSE) = File(q, FALSE) => p = q
  BY FileType

\* No step takes the project lock from a live process that holds it.
LEMMA HolderStep ==
  ASSUME LockInv, NEW p \in Proc, ProcStep(p)
  PROVE  HolderInv'
  <1> DEFINE Holder(q) == Alive(q) /\ held[q] > 0
             Creator(q) == pc[q] = "metadata" /\ held[q] = 0
  <1> USE DEF PW
  <1>1. LocalInv /\ TypeOK
    BY DEF LockInv, LocalInv
  <1>2. \A q \in Proc : /\ Holder(q) => lock[PW] = File(q, TRUE)
                        /\ Creator(q) => lock[PW] = File(q, FALSE)
    BY DEF LockInv, HolderInv
  <1>3. \A q \in Proc \ {p} : /\ Holder(q)' <=> Holder(q)
                              /\ Creator(q)' <=> Creator(q)
    BY <1>1, Frame DEF Same, Alive
  <1> SUFFICES ASSUME NEW q \in Proc
               PROVE  /\ Holder(q)' => lock'[PW] = File(q, TRUE)
                      /\ Creator(q)' => lock'[PW] = File(q, FALSE)
    BY DEF HolderInv, File
  <1>4. q # p => (Holder(q)' <=> Holder(q)) /\ (Creator(q)' <=> Creator(q))
    BY <1>3
  <1>5. CASE ProjectKept(p)
    BY <1>2, <1>4, <1>5 DEF ProjectKept
  <1>6. CASE ProjectCreated(p)
    <2>1. ~Holder(q) /\ ~Creator(q)
      BY <1>2, <1>6, FileDistinct DEF ProjectCreated
    <2>2. CASE q = p
      <3>1. ~Holder(p)'
        BY <1>6 DEF ProjectCreated
      <3>2. lock'[PW] = File(p, FALSE)
        BY <1>6 DEF ProjectCreated
      <3> QED
        BY <2>2, <3>1, <3>2
    <2> QED
      BY <1>4, <2>1, <2>2
  <1>7. CASE ProjectLocked(p)
    <2>1. lock[PW] = File(p, FALSE)
      BY <1>2, <1>7 DEF ProjectLocked
    <2>2. q # p => ~Holder(q) /\ ~Creator(q)
      BY <1>2, <2>1, FileDistinct
    <2> QED
      BY <1>4, <1>7, <2>2 DEF ProjectLocked
  <1>8. CASE ProjectGivenUp(p)
    <2>1. lock[PW] = File(p, FALSE)
      BY <1>2, <1>8 DEF ProjectGivenUp
    <2>2. q # p => ~Holder(q) /\ ~Creator(q)
      BY <1>2, <2>1, FileDistinct
    <2> QED
      BY <1>4, <1>8, <2>2 DEF ProjectGivenUp, Alive
  <1>9. CASE ProjectReleased(p)
    <2>1. lock[PW] = File(p, TRUE)
      BY <1>2, <1>9 DEF ProjectReleased, Alive
    <2>2. q # p => ~Holder(q) /\ ~Creator(q)
      BY <1>2, <2>1, FileDistinct
    <2> QED
      BY <1>4, <1>9, <2>2 DEF ProjectReleased, Alive
  <1>10. CASE ProjectRecovered(p)
    <2> DEFINE o == seen[p][PW]
    <2>1. pc[p] \in BodyPc \ {"inspect"} /\ Alive(p)
      BY <1>10 DEF ProjectRecovered, BodyPc, Alive
    <2>2. PW \in LockTargets(cmd[p]) /\ PW \in LockName
      BY <1>10 DEF ProjectRecovered, LockTargets, LockName
    <2>3. o # NoProc
      BY <2>1, <2>2 DEF LockInv, SeenInv
    <2>4. o \in Proc
      BY <1>1, <2>2, <2>3 DEF TypeOK
    <2>5. lock[PW] = File(o, TRUE) /\ ~Alive(o)
      BY <1>10, <2>1, <2>3 DEF LockInv, RecoveryInv, ProjectRecovered
    <2>6. ~Holder(q) /\ ~Creator(q)
      <3>1. File(o, TRUE) # File(q, FALSE)
        BY <2>4, FileDistinct
      <3>4. ~Creator(q)
        BY <1>2, <2>5, <3>1
      <3>2. Holder(q) => q = o
        BY <1>2, <2>4, <2>5, FileDistinct
      <3>3. q = o => ~Holder(q)
        BY <2>5
      <3> QED
        BY <3>2, <3>3, <3>4
    <2> QED
      BY <1>4, <1>10, <2>6 DEF ProjectRecovered, Alive
  <1> QED
    BY <1>5, <1>6, <1>7, <1>8, <1>9, <1>10, ProjectStep

\* Recoveries of project_write.lock take turns.
LEMMA OneRecoveryStep ==
  ASSUME Disciplined, LockInv, NEW p \in Proc, ProcStep(p)
  PROVE  OneRecoveryInv'
  <1> DEFINE Recovering(q) == Alive(q) /\ cmd[q] \in UnlockedCommand
  <1>1. LocalInv /\ TypeOK
    BY DEF LockInv, LocalInv
  <1>2. \A q, r \in Proc : Recovering(q) /\ Recovering(r) => q = r
    BY DEF LockInv, OneRecoveryInv
  <1>3. \A q \in Proc \ {p} : Recovering(q)' => Recovering(q)
    BY <1>1, Frame DEF Same, Alive
  <1>4. CASE ~Start(p)
    <2>1. Recovering(p)' => Recovering(p)
      BY <1>1, <1>4, StepKind DEF LockAges, Running, locals, Alive
    <2> QED
      BY <1>2, <1>3, <2>1 DEF OneRecoveryInv
  <1>5. CASE Start(p)
    <2>1. Recovering(p)' => \A q \in Proc : ~Recovering(q)
      BY <1>1, <1>5 DEF Start, Disciplined, TypeOK
    <2> QED
      BY <1>2, <1>3, <2>1 DEF OneRecoveryInv
  <1> QED
    BY <1>4, <1>5

\* Every lock names a process that has started; only locks of the dead age.
LEMMA OwnerStep ==
  ASSUME Disciplined, LockInv, NEW p \in Proc, ProcStep(p)
  PROVE  OwnerInv'
  <1>1. LocalInv /\ TypeOK
    BY DEF LockInv, LocalInv
  <1>2. \A n \in LockName :
          lock'[n] = lock[n] \/ lock'[n] = NoFile
            \/ (pc'[p] # "idle" /\ lock'[n].owner = p)
    <2> USE FileType DEF TypeOK
    <2>1. CASE lock' = lock
      BY <2>1
    <2>2. CASE CreateLock(p) \/ WriteMetadata(p) \/ SyncMetadataFails(p)
      <3>1. pc'[p] # "idle"
        BY <1>1, <2>2, StepKind DEF CreateLock, WriteMetadata,
           SyncMetadataFails, Start, LockAges, Running, Alive, locals
      <3>2. held[p] + 1 \in 1 .. 2 /\ LockOrder[held[p] + 1] \in LockName
        BY <1>1, <2>2, MoreLocks
           DEF CreateLock, WriteMetadata, SyncMetadataFails
      <3>3. \/ lock' = lock
            \/ lock' = [lock EXCEPT ![LockOrder[held[p] + 1]] = File(p, TRUE)]
            \/ lock' = [lock EXCEPT ![LockOrder[held[p] + 1]] = File(p, FALSE)]
            \/ lock' = [lock EXCEPT ![LockOrder[held[p] + 1]] = NoFile]
        BY <2>2 DEF CreateLock, WriteMetadata, SyncMetadataFails
      <3> QED
        BY <1>1, <3>1, <3>2, <3>3
    <2>3. CASE \E m : lock' = [lock EXCEPT ![m] = NoFile]
      BY <1>1, <2>3
    <2> QED
      BY <2>1, <2>2, <2>3 DEF ProcStep, Step, Fault, Start,
         WriteMetadataFails, SyncMetadataFails, files,
         ReadStatus, ScanLog, BeforeAppend, AppendEventLine,
         AppendEventLineTorn, MutateStatus, ReplaceStatus, OperationFails,
         Inspect, VerifyTarget, RemoveTarget, VerifyOwn, RemoveOwn,
         RemoveOwnFails, Crash, LockAges
  <1>3. \A n \in LockName : lock[n] # NoFile => lock[n].owner \in Proc
    BY <1>1 DEF TypeOK, LockFile
  <1>4. \A n \in LockName : lock'[n] # NoFile => pc'[lock'[n].owner] # "idle"
    BY <1>1, <1>2, <1>3, Course DEF LockInv, OwnerInv
  <1>5. \A q \in aged' : q \in Proc /\ ~Alive(q) /\ pc[q] # "idle"
    <2>1. \A q \in aged : q \in Proc /\ ~Alive(q) /\ pc[q] # "idle"
      BY <1>1 DEF LockInv, OwnerInv, TypeOK
    <2>2. CASE aged' = aged
      BY <2>1, <2>2
    <2>3. CASE LockAges(p)
      <3>1. ~Alive(p)
        BY <2>3 DEF LockAges, Disciplined
      <3>2. PICK n \in LockName : lock[n] = File(p, TRUE)
        BY <2>3 DEF LockAges
      <3>3. pc[p] # "idle"
        <4>1. lock[n] # NoFile /\ lock[n].owner = p
          BY <3>2, FileType
        <4> QED
          BY <4>1 DEF LockInv, OwnerInv
      <3> QED
        BY <2>1, <2>3, <3>1, <3>3 DEF LockAges
    <2> QED
      BY <1>1, <2>2, <2>3, StepKind DEF Start, Running, files
  <1> QED
    BY <1>1, <1>4, <1>5, Course DEF OwnerInv

\* What an inspection finds stale is the lock of a dead process.
LEMMA InspectStale ==
  ASSUME LockInv, NEW p \in Proc, NEW n \in LockName,
         lock[n] # NoFile, lock[n].written, LockIsStale(n, p)
  PROVE  \E o \in Proc : /\ o # NoProc /\ lock[n].owner = o
                         /\ lock[n] = File(o, TRUE)
                         /\ ~Alive(o) /\ pc[o] # "idle"
  <1>1. lock[n] \in [owner : Proc, written : BOOLEAN]
    BY DEF LockInv, LocalInv, TypeOK, LockFile
  <1>2. PICK o \in Proc : lock[n].owner = o
    BY <1>1
  <1>3. lock[n] = File(o, TRUE)
    BY <1>1, <1>2 DEF File
  <1>4. ~Alive(o) /\ pc[o] # "idle"
    BY <1>2 DEF LockIsStale, LockInv, OwnerInv
  <1> QED
    BY <1>2, <1>3, <1>4, HelperStateAssumption

\* Only an inspection adds to what a recovery has seen.
\* Only an inspection or a removal changes what a recovery has seen.
LEMMA SeenStep ==
  ASSUME LockInv, NEW p \in Proc, ProcStep(p), seen' # seen
  PROVE  Inspect(p) \/ RemoveTarget(p)
  BY DEF ProcStep, Step, Fault, Start, CreateLock, WriteMetadata, files,
     WriteMetadataFails, SyncMetadataFails, ReadStatus, ScanLog, BeforeAppend,
     AppendEventLine, AppendEventLineTorn, MutateStatus, ReplaceStatus,
     OperationFails, VerifyTarget, VerifyOwn, RemoveOwn, RemoveOwnFails, Crash,
     LockAges, locals

\* What a recovery has verified stale stays as it is until it is removed.
LEMMA RecoveryStep ==
  ASSUME Disciplined, LockInv, NEW p \in Proc, ProcStep(p)
  PROVE  RecoveryInv'
  <1> DEFINE Rec(q) == Alive(q) /\ cmd[q] = "recover project-write"
                         /\ seen[q][PW] # NoProc
             Sure(q) == /\ lock[PW] = File(seen[q][PW], TRUE)
                        /\ seen[q][PW] \in Proc
                        /\ ~Alive(seen[q][PW]) /\ pc[seen[q][PW]] # "idle"
  <1>1. LocalInv /\ TypeOK /\ HeldOK(pc[p], cmd[p], held[p])
    BY DEF LockInv, LocalInv, HeldInv
  <1>2. \A q \in Proc : Rec(q) => Sure(q)
    <2> SUFFICES ASSUME NEW q \in Proc, Rec(q) PROVE Sure(q)
      OBVIOUS
    <2>1. seen[q][PW] \in Proc
      <3>1. seen[q] \in [LockName -> Proc \cup {NoProc}]
        BY <1>1 DEF TypeOK
      <3>2. PW \in LockName
        BY DEF PW, LockName
      <3> QED
        BY <3>1, <3>2
    <2> QED
      BY <2>1 DEF LockInv, RecoveryInv, PW
  <1> SUFFICES ASSUME NEW q \in Proc, Rec(q)'
               PROVE  Sure(q)'
    BY DEF RecoveryInv, File, PW
  <1>3. CASE Rec(q) /\ seen'[q] = seen[q] /\ lock'[PW] = lock[PW]
    BY <1>1, <1>2, <1>3, Course
  <1>4. CASE Rec(q) /\ seen'[q] = seen[q] /\ lock'[PW] # lock[PW]
    <2>1. Sure(q) /\ seen[q][PW] # p
      BY <1>1, <1>2, <1>4, StepKind DEF Start, LockAges, Running, files
    <2>2. lock[PW] # NoFile /\ lock[PW] # File(p, FALSE)
          /\ lock[PW] # File(p, TRUE)
      BY <2>1, FileDistinct
    <2>3. ProjectRecovered(p)
      BY <1>4, <2>2, ProjectStep DEF ProjectKept, ProjectCreated,
         ProjectLocked, ProjectGivenUp, ProjectReleased, LockInv, HolderInv,
         Alive, PW
    <2>4. q = p
      BY <1>4, <2>3 DEF ProjectRecovered, LockInv, OneRecoveryInv,
         UnlockedCommand, Alive
    <2> QED
      BY <2>3, <2>4 DEF ProjectRecovered
  <1>5. CASE q # p
    <2>1. Rec(q) /\ seen'[q] = seen[q]
      BY <1>1, <1>5, Frame DEF Same, Alive
    <2> QED
      BY <1>3, <1>4, <2>1
  <1>6. CASE q = p /\ seen' = seen
    <2>1. ~Start(p)
      BY <1>1, <1>6 DEF Start, LockInv, SeenInv, LockName, PW
    <2>2. Rec(p)
      BY <1>1, <1>6, <2>1, StepKind DEF LockAges, Running, locals, Alive
    <2> QED
      BY <1>3, <1>4, <1>6, <2>2
  <1>7. CASE q = p /\ Inspect(p)
    <2>1. cmd[p] = "recover project-write" /\ lock' = lock
      BY <1>7 DEF Inspect, files
    <2>2. todo[p] = {PW} /\ FirstLock(todo[p]) = PW /\ PW \in LockName
      BY <1>7, <2>1, FirstOfOne
         DEF Inspect, LockInv, SeenInv, LockTargets, LockName, PW
    <2>3. CASE seen' = seen
      BY <1>6, <1>7, <2>3
    <2>4. CASE /\ lock[PW] # NoFile /\ lock[PW].written /\ LockIsStale(PW, p)
               /\ seen' = [seen EXCEPT ![p][PW] = lock[PW].owner]
      <3>1. PICK o \in Proc : /\ o # NoProc /\ lock[PW].owner = o
                              /\ lock[PW] = File(o, TRUE)
                              /\ ~Alive(o) /\ pc[o] # "idle"
        BY <2>2, <2>4, InspectStale
      <3>2. seen'[p][PW] = o
        BY <1>1, <2>2, <2>4, <3>1 DEF TypeOK
      <3> QED
        BY <1>1, <1>7, <2>1, <3>1, <3>2, Course
    <2> QED
      BY <1>7, <2>2, <2>3, <2>4 DEF Inspect
  <1>8. CASE q = p /\ RemoveTarget(p) /\ seen' # seen
    <2>1. cmd[p] = "recover project-write" /\ held[p] = 0
      BY <1>1, <1>8
         DEF RemoveTarget, HeldOK, BodyPc, LocksNeeded, UnlockedCommand
    <2>2. Found(p) = {PW} /\ FirstLock(Found(p)) = PW
      BY <1>8, <2>1, FoundTargets, FirstOfOne
         DEF RemoveTarget, LockInv, BodyPc, LockTargets, LockName, PW
    <2>3. ~Alive(p)'
      <3>2. ~(held[p] > 0)
        BY <2>1, NoneIsNotSome
      <3>1. PICK r : Return(p, r)
        BY <1>8, <2>2 DEF RemoveTarget
      <3>3. pc'[p] = "exited"
        BY <1>1, <3>1, <3>2, ReturnValue
      <3> QED
        BY <3>3 DEF Alive
    <2> QED
      BY <1>8, <2>3
  <1> QED
    BY <1>5, <1>6, <1>7, <1>8, SeenStep

\* SeenInv of one process, as a predicate of its local variables.
SeenOK(s, c, t, S) ==
  /\ c # "recover all"
  /\ s \in {"inspect", "verify_target", "remove_target"} =>
       c \in RecoverCommand
  /\ s \in {"create", "metadata", "inspect"} => t = LockTargets(c)
  /\ s \in {"idle", "create", "metadata", "inspect"} =>
       \A n \in LockName : S[n] = NoProc
  /\ \A n \in LockName : n \notin LockTargets(c) => S[n] = NoProc
  /\ s \in BodyPc \ {"inspect"} =>
       \A n \in LockTargets(c) : S[n] # NoProc

\* A recovery past its inspection has a stale owner for each of its targets.
LEMMA SeenInvStep ==
  ASSUME Disciplined, LockInv, NEW p \in Proc, ProcStep(p)
  PROVE  SeenInv'
  <1>1. LocalInv /\ TypeOK /\ HeldOK(pc[p], cmd[p], held[p])
        /\ SeenOK(pc[p], cmd[p], todo[p], seen[p])
    BY DEF LockInv, LocalInv, HeldInv, SeenInv, SeenOK
  <1>2. ASSUME NEW q \in Proc \ {p}
        PROVE  SeenOK(pc'[q], cmd'[q], todo'[q], seen'[q])
    <2>1. SeenOK(pc[q], cmd[q], todo[q], seen[q])
      BY DEF LockInv, SeenInv, SeenOK
    <2> QED
      BY <1>1, <1>2, <2>1, Frame DEF Same
  <1>3. SeenOK(pc'[p], cmd'[p], todo'[p], seen'[p])
    <2> USE <1>1, GotoValue, ReturnValue, ReleasedValue
    <2>1. CASE Start(p)
      <3>1. PICK c \in Command \ {"recover all"} :
              /\ cmd' = [cmd EXCEPT ![p] = c]
              /\ todo' = [todo EXCEPT ![p] = LockTargets(c)]
              /\ Goto(p, IF LocksNeeded(c) > 0 THEN "create" ELSE Body(c))
        BY <2>1, HelperStateAssumption DEF Start, Disciplined, Command,
           RecoverCommand, PlainCommand
      <3>2. cmd'[p] = c /\ todo'[p] = LockTargets(c)
        BY <3>1 DEF TypeOK
      <3>3. c \notin RecoverCommand => LocksNeeded(c) > 0
        BY LocksNeededValue DEF UnlockedCommand, RecoverCommand
      <3>4. pc'[p] \in {"create", "inspect"}
            /\ (pc'[p] = "inspect" => c \in RecoverCommand)
        BY <3>1, <3>3 DEF Body
      <3>5. \A n \in LockName : seen'[p][n] = NoProc
        BY <2>1 DEF Start, SeenOK
      <3> QED
        BY <3>1, <3>2, <3>4, <3>5 DEF SeenOK, BodyPc
    <2>2. CASE /\ cmd' = cmd /\ todo' = todo /\ seen' = seen
               /\ pc'[p] \notin BodyPc \cup {"idle", "create", "metadata"}
      BY <2>2 DEF SeenOK, BodyPc
    <2>3. CASE /\ cmd' = cmd /\ todo' = todo /\ seen' = seen
               /\ pc[p] \in BodyPc \ {"inspect"}
               /\ pc'[p] \in BodyPc \ {"inspect"}
               /\ pc'[p] \in {"verify_target", "remove_target"} =>
                    cmd[p] \in RecoverCommand
      BY <2>3 DEF SeenOK, BodyPc
    <2>4. CASE /\ cmd' = cmd /\ todo' = todo /\ seen' = seen
               /\ pc[p] \in {"create", "metadata"}
               /\ pc'[p] \in {"create", "metadata", Body(cmd[p])}
      <3>1. cmd[p] \notin RecoverCommand => LockTargets(cmd[p]) = {}
        BY DEF LockTargets, RecoverCommand
      <3> QED
        BY <2>4, <3>1 DEF SeenOK, BodyPc, Body
    <2>5. CASE CreateLock(p) \/ WriteMetadata(p) \/ WriteMetadataFails(p)
               \/ SyncMetadataFails(p)
      BY <2>2, <2>4, <2>5 DEF CreateLock, WriteMetadata, WriteMetadataFails,
         SyncMetadataFails, BodyPc
    <2>6. CASE ReadStatus(p) \/ ScanLog(p) \/ BeforeAppend(p)
               \/ AppendEventLine(p) \/ AppendEventLineTorn(p)
      BY <2>2, <2>3, <2>6 DEF ReadStatus, ScanLog, BeforeAppend,
         AppendEventLine, AppendEventLineTorn, BodyPc
    <2>7. CASE MutateStatus(p) \/ ReplaceStatus(p) \/ OperationFails(p)
      BY <2>2, <2>3, <2>7
         DEF MutateStatus, ReplaceStatus, OperationFails, BodyPc
    <2>8. CASE VerifyTarget(p)
      BY <2>2, <2>3, <2>8 DEF VerifyTarget, BodyPc, SeenOK
    <2>9. CASE VerifyOwn(p) \/ RemoveOwn(p) \/ RemoveOwnFails(p) \/ Crash(p)
      BY <2>2, <2>9 DEF VerifyOwn, RemoveOwn, RemoveOwnFails, Crash, BodyPc
    <2>10. CASE LockAges(p)
      BY <2>10 DEF LockAges, locals
    <2>11. CASE Inspect(p)
      <3> DEFINE n == FirstLock(todo[p])
      <3>1. /\ cmd[p] \in RecoverCommand /\ cmd[p] # "recover all"
            /\ todo[p] = LockTargets(cmd[p])
            /\ \A m \in LockName : seen[p][m] = NoProc
        BY <2>11 DEF Inspect, SeenOK
      <3>2. todo[p] = {n} /\ n \in LockName
        BY <3>1, FirstOfOne, FirstLockType
           DEF LockTargets, RecoverCommand, LockName
      <3>3. CASE \E r : Return(p, r) /\ todo' = todo /\ seen' = seen
        BY <2>2, <2>11, <3>3 DEF Inspect, BodyPc
      <3>4. CASE /\ lock[n] # NoFile /\ lock[n].written /\ LockIsStale(n, p)
                 /\ seen' = [seen EXCEPT ![p][n] = lock[n].owner]
                 /\ todo' = [todo EXCEPT ![p] = @ \ {n}]
                 /\ Goto(p, IF todo'[p] = {} THEN "read_status"
                            ELSE "inspect")
        <4>1. lock[n].owner # NoProc
          BY <3>2, <3>4, InspectStale
        <4>2. seen'[p][n] # NoProc
              /\ \A m \in LockName \ {n} : seen'[p][m] = NoProc
          BY <3>1, <3>2, <3>4, <4>1 DEF TypeOK
        <4>3. pc'[p] = "read_status" /\ cmd'[p] = cmd[p]
          BY <2>11, <3>2, <3>4 DEF TypeOK, Inspect
        <4>4. LockTargets(cmd'[p]) = {n}
          BY <3>1, <3>2, <4>3
        <4> QED
          BY <3>1, <3>2, <4>2, <4>3, <4>4 DEF SeenOK, BodyPc
      <3> QED
        BY <2>11, <3>1, <3>3, <3>4 DEF Inspect
    <2>12. CASE RemoveTarget(p)
      <3> DEFINE n == FirstLock(Found(p))
      <3>1. /\ cmd[p] \in RecoverCommand /\ cmd[p] # "recover all"
            /\ Found(p) = LockTargets(cmd[p])
        BY <2>12, FoundTargets DEF RemoveTarget, SeenOK, BodyPc, LockInv
      <3>2. Found(p) = {n} /\ n \in LockName
        BY <3>1, FirstOfOne, FirstLockType
           DEF LockTargets, RecoverCommand, LockName
      <3>3. PICK r : Return(p, r)
        BY <2>12, <3>2 DEF RemoveTarget
      <3>4. pc'[p] \in {"verify_own", "exited"}
        BY <3>3
      <3>5. \/ seen' = seen
            \/ seen' = [seen EXCEPT ![p][n] = NoProc]
        BY <2>12 DEF RemoveTarget
      <3>6. \A m \in LockName : m \notin LockTargets(cmd[p]) =>
                                  seen'[p][m] = NoProc
        <4>1. \A m \in LockName : m \notin LockTargets(cmd[p]) =>
                                    seen[p][m] = NoProc
          BY DEF SeenOK
        <4>2. \A m \in LockName : seen'[p][m] = seen[p][m]
                                  \/ seen'[p][m] = NoProc
          BY <3>2, <3>5 DEF TypeOK
        <4> QED
          BY <4>1, <4>2
      <3> QED
        BY <2>12, <3>1, <3>4, <3>6 DEF RemoveTarget, SeenOK, BodyPc
    <2> QED
      BY <2>1, <2>5, <2>6, <2>7, <2>8, <2>9, <2>10, <2>11, <2>12
         DEF ProcStep, Step, Fault
  <1> QED
    BY <1>2, <1>3 DEF SeenInv, SeenOK, BodyPc, RecoverCommand, LockTargets,
       LockName

\* LockInv holds at the start.
LEMMA LockInvInit ==
  ASSUME Init PROVE LockInv
  <1>1. LocalInv
    BY LocalInvInit
  <1>2. SeenInv
    BY DEF Init, SeenInv, LockTargets, LockName, BodyPc
  <1>3. OwnerInv /\ HolderInv /\ OneRecoveryInv
    BY DEF Init, OwnerInv, HolderInv, OneRecoveryInv, Alive, LockName
  <1>4. RecoveryInv
    BY DEF Init, RecoveryInv, Alive
  <1> QED
    BY <1>1, <1>2, <1>3, <1>4 DEF LockInv

\* LockInv is inductive under the discipline.
LEMMA LockInvStep ==
  ASSUME Disciplined, LockInv, [Next]_vars
  PROVE  LockInv'
  <1>1. CASE \E p \in Proc : ProcStep(p)
    <2>1. LocalInv'
      BY LocalInvStep DEF LockInv
    <2> QED
      BY <1>1, <2>1, SeenInvStep, OwnerStep, HolderStep, RecoveryStep,
         OneRecoveryStep DEF LockInv
  <1>2. CASE UNCHANGED vars
    <2>1. LocalInv'
      BY LocalInvStep DEF LockInv
    <2>2. (SeenInv /\ OwnerInv)'
      BY <1>2 DEF vars, files, locals, LockInv, SeenInv, OwnerInv, Alive
    <2>3. (HolderInv /\ RecoveryInv /\ OneRecoveryInv)'
      BY <1>2 DEF vars, files, locals, LockInv, HolderInv, RecoveryInv,
         OneRecoveryInv, Alive
    <2> QED
      BY <2>1, <2>2, <2>3 DEF LockInv
  <1> QED
    BY <1>1, <1>2 DEF Next, ProcStep

\* LockInv leaves room for one writer only.
LEMMA Exclusive ==
  ASSUME LockInv PROVE OneWriter
  <1> SUFFICES ASSUME NEW p \in Proc, NEW q \in Proc,
                      Mutating(p), Mutating(q)
               PROVE  p = q
    BY DEF OneWriter
  <1> USE DEF PW
  <1> DEFINE W(r) == Alive(r) /\ held[r] > 0
             U(r) == /\ Alive(r) /\ cmd[r] = "recover project-write"
                     /\ seen[r][PW] # NoProc
  <1>1. ASSUME NEW r \in Proc, Mutating(r)
        PROVE  W(r) \/ U(r)
    <2>1. /\ pc[r] \in BodyPc \ {"inspect"} /\ Alive(r)
          /\ HeldOK(pc[r], cmd[r], held[r])
      BY <1>1 DEF Mutating, BodyPc, Alive, LockInv, LocalInv, HeldInv
    <2>2. CASE LocksNeeded(cmd[r]) > 0
      BY <2>1, <2>2 DEF HeldOK
    <2>3. CASE ~(LocksNeeded(cmd[r]) > 0)
      <3>1. cmd[r] = "recover project-write"
        <4>1. cmd[r] \in UnlockedCommand
          BY <2>3, LocksNeededValue
        <4>2. cmd[r] # "recover all"
          BY DEF LockInv, SeenInv
        <4> QED
          BY <4>1, <4>2 DEF UnlockedCommand
      <3> QED
        BY <2>1, <3>1 DEF LockInv, SeenInv, LockTargets
    <2> QED
      BY <2>2, <2>3
  <1>2. ASSUME NEW r \in Proc, W(r)
        PROVE  lock[PW] = File(r, TRUE)
    BY <1>2 DEF LockInv, HolderInv
  <1>3. ASSUME NEW r \in Proc, NEW s \in Proc, U(r), W(s)
        PROVE  FALSE
    <2> DEFINE o == seen[r][PW]
    <2>1. lock[PW] = File(o, TRUE) /\ ~Alive(o)
      BY <1>3 DEF LockInv, RecoveryInv
    <2>2. o \in Proc
      <3>1. seen[r] \in [LockName -> Proc \cup {NoProc}]
        BY DEF LockInv, LocalInv, TypeOK
      <3>2. PW \in LockName
        BY DEF LockName
      <3> QED
        BY <1>3, <3>1, <3>2
    <2>3. o = s
      BY <1>2, <1>3, <2>1, <2>2, FileDistinct
    <2> QED
      BY <1>3, <2>1, <2>3
  <1>4. CASE W(p) /\ W(q)
    BY <1>2, <1>4, FileDistinct
  <1>5. CASE U(p) /\ U(q)
    BY <1>5 DEF LockInv, OneRecoveryInv, UnlockedCommand
  <1> QED
    BY <1>1, <1>3, <1>4, <1>5

(***************************************************************************)
(* One active write lane per project: when no lock outlives 30 minutes     *)
(* with its owner running, lock recover all is not used and recoveries of  *)
(* project_write.lock take turns, two commands are never both between the  *)
(* read of status.json and its replacement, however many processes there   *)
(* are, whatever is killed, and whichever host they run on.                *)
(***************************************************************************)
THEOREM MutualExclusion == ASSUME Disciplined PROVE Spec => []OneWriter
  <1>1. Init => LockInv
    BY LockInvInit
  <1>2. LockInv /\ [Next]_vars => LockInv'
    BY LockInvStep
  <1>3. LockInv => OneWriter
    BY Exclusive
  <1> QED
    BY <1>1, <1>2, <1>3, PTL DEF Spec

-----------------------------------------------------------------------------
(* The event log *)

\* The number of the last line.
Last == Len(log)

\* A log as long as status.json says is coherent and numbered without a gap.
LEMMA LogFacts ==
  ASSUME LockInv, LogInv
  PROVE  /\ status \in Nat /\ status >= 1
         /\ log \in Seq(EventRecord)
         /\ Last \in Nat /\ Last >= status
         /\ \A i \in 1 .. Last : log[i].id = i \/ (log[i].id = 0 /\ i = Last)
         /\ Last = status =>
              /\ \A i \in 1 .. Last : log[i].id = i
              /\ Coherent(status)
  <1>1. status \in Nat /\ status >= 1 /\ log \in Seq(EventRecord)
    BY MaxEventIdType DEF LockInv, LocalInv, TypeOK
  <1>2. Last \in Nat /\ Last >= status
    BY <1>1 DEF LogInv, Last
  <1>3. \A i \in 1 .. Last : log[i].id = i \/ (log[i].id = 0 /\ i = Last)
    BY DEF LogInv, EventIdsSequential, Torn, Last
  <1>4. ASSUME Last = status
        PROVE  /\ \A i \in 1 .. Last : log[i].id = i
               /\ Coherent(status)
    <2>1. log[Last].id = Last
      BY <1>4 DEF LogInv, Last
    <2>2. \A i \in 1 .. Last : log[i].id = i
      BY <1>3, <2>1
    <2>3. log # <<>> /\ Tail_(log) = status
      BY <1>1, <1>4, <2>1 DEF Last, Tail_
    <2>4. \A i \in 1 .. Last : log[i].id # 0
      BY <1>2, <2>2
    <2> QED
      BY <2>2, <2>3, <2>4 DEF Coherent, Readable, Torn, Last
  <1> QED
    BY <1>1, <1>2, <1>3, <1>4

\* Three actions write events.jsonl or status.json.
LEMMA FilesStep ==
  ASSUME NEW p \in Proc, ProcStep(p)
  PROVE  \/ log' = log /\ status' = status
         \/ AppendEventLine(p) \/ AppendEventLineTorn(p) \/ ReplaceStatus(p)
  BY DEF ProcStep, Step, Fault, Start, CreateLock, WriteMetadata, files,
     WriteMetadataFails, SyncMetadataFails, ReadStatus, ScanLog, BeforeAppend,
     MutateStatus, OperationFails, Inspect, VerifyTarget, RemoveTarget,
     VerifyOwn, RemoveOwn, RemoveOwnFails, Crash, LockAges, locals

\* Appending a line adds it at the end and changes no other.
LEMMA AppendFacts ==
  ASSUME LockInv, LogInv, NEW e \in EventRecord, log' = Append(log, e)
  PROVE  /\ Len(log') = Last + 1
         /\ log'[Last + 1] = e
         /\ \A i \in 1 .. Last : log'[i] = log[i]
  <1>1. log \in Seq(EventRecord)
    BY LogFacts
  <1> QED
    BY <1>1 DEF Last

\* The log stays numbered and at most one line ahead of status.json.
LEMMA LogStep ==
  ASSUME LockInv, LedgerInv, NEW p \in Proc, ProcStep(p)
  PROVE  LogInv'
  <1>1. LogInv /\ TypeOK
    BY DEF LedgerInv, LockInv, LocalInv
  <1>2. CASE log' = log /\ status' = status
    BY <1>1, <1>2 DEF LogInv, EventIdsSequential
  <1>3. CASE AppendEventLine(p) \/ AppendEventLineTorn(p)
    <2>1. status' = status /\ pc[p] = "append"
      BY <1>3 DEF AppendEventLine, AppendEventLineTorn
    <2>2. Last = status /\ next[p] = status + 1
      BY <2>1 DEF LedgerInv, WriterInv, Last
    <2>3. PICK e \in EventRecord :
            log' = Append(log, e) /\ e.id \in {0, Last + 1}
      <3>1. CASE AppendEventLine(p)
        BY <1>1, <2>2, <3>1, EventOfType DEF AppendEventLine
      <3>2. CASE AppendEventLineTorn(p)
        <4>1. TornLine(p) \in EventRecord /\ TornLine(p).id = 0
          BY MaxEventIdType, NewEventType DEF TornLine, Torn, Event
        <4> QED
          BY <3>2, <4>1 DEF AppendEventLineTorn
      <3> QED
        BY <1>3, <3>1, <3>2
    <2>4. /\ Len(log') = Last + 1 /\ log'[Last + 1] = e
          /\ \A i \in 1 .. Last : log'[i] = log[i]
      BY <1>1, <2>3, AppendFacts
    <2>5. \A i \in 1 .. Last : log[i].id = i
      BY <1>1, <2>2, LogFacts
    <2>6. \A i \in 1 .. Len(log') :
            log'[i].id = i \/ (log'[i].id = 0 /\ i = Len(log'))
      <3>1. Last \in Nat
        BY <1>1, LogFacts
      <3> QED
        BY <2>3, <2>4, <2>5, <3>1
    <2>7. Len(log') = status' + 1 /\ status \in Nat
      BY <1>1, <2>1, <2>2, <2>4, LogFacts
    <2> QED
      BY <2>1, <2>6, <2>7 DEF LogInv, EventIdsSequential, Torn
  <1>4. CASE ReplaceStatus(p)
    <2>1. log' = log /\ status' = Last /\ log[Last].id = Last
      BY <1>4 DEF ReplaceStatus, LedgerInv, WriterInv, Last
    <2> QED
      BY <1>1, <2>1 DEF LogInv, EventIdsSequential, Last
  <1> QED
    BY <1>2, <1>3, <1>4, FilesStep

\* WriterInv of one process.
WriterOK(q) ==
  /\ pc[q] = "scan_log" => copy[q] = status
  /\ pc[q] \in {"before", "append"} =>
       Len(log) = status /\ next[q] = status + 1
  /\ pc[q] \in {"after", "status"} =>
       Len(log) = status + 1 /\ next[q] = Len(log)
                             /\ log[Len(log)].id = Len(log)

\* What the one writer has read and allocated stays true of the files.
LEMMA WriterStep ==
  ASSUME LockInv, LedgerInv, NEW p \in Proc, ProcStep(p)
  PROVE  WriterInv'
  <1>1. LogInv /\ TypeOK /\ OneWriter /\ LocalInv
    BY Exclusive DEF LedgerInv, LockInv, LocalInv
  <1>2. \A q \in Proc : WriterOK(q)
    BY DEF LedgerInv, WriterInv, WriterOK
  <1>3. ASSUME NEW q \in Proc, q # p
        PROVE  WriterOK(q)'
    <2>1. Same(q)
      BY <1>1, <1>3, Frame
    <2>2. CASE log' = log /\ status' = status
      BY <1>2, <2>1, <2>2 DEF Same, WriterOK
    <2>3. CASE Mutating(p)
      <3>1. ~Mutating(q)
        BY <1>1, <1>3, <2>3 DEF OneWriter
      <3> QED
        BY <2>1, <3>1 DEF Same, WriterOK, Mutating
    <2> QED
      BY <2>2, <2>3, FilesStep DEF AppendEventLine, AppendEventLineTorn,
         ReplaceStatus, Mutating
  <1>4. WriterOK(p)'
    <2> USE <1>1, GotoValue, ReturnValue, ReleasedValue
    <2>1. CASE ReadStatus(p)
      <3>1. copy'[p] = status /\ status' = status /\ pc'[p] = "scan_log"
        BY <2>1 DEF ReadStatus, files, TypeOK
      <3> QED
        BY <3>1 DEF WriterOK
    <2>2. CASE ScanLog(p)
      <3>1. copy[p] = status
        BY <1>2, <2>2 DEF ScanLog, WriterOK
      <3>2. CASE /\ Coherent(copy[p])
                 /\ next' = [next EXCEPT ![p] = copy[p] + 1]
                 /\ pc'[p] \in {"before", "append"}
        <4>1. Last = status
          <5>1. log # <<>> /\ log[Last].id # 0 /\ log[Last].id = status
            BY <3>1, <3>2, LogFacts DEF Coherent, Readable, Tail_, Torn, Last
          <5>2. Last \in 1 .. Last
            BY LogFacts
          <5> QED
            BY <5>1, <5>2, LogFacts
        <4>2. next'[p] = status + 1
          BY <3>1, <3>2 DEF TypeOK
        <4> QED
          BY <2>2, <3>2, <4>1, <4>2 DEF ScanLog, files, WriterOK, Last
      <3>3. CASE \E r : Return(p, r)
        BY <3>3 DEF WriterOK
      <3> QED
        BY <2>2, <3>2, <3>3 DEF ScanLog
    <2>3. CASE BeforeAppend(p)
      BY <1>2, <2>3 DEF BeforeAppend, WriterOK
    <2>4. CASE AppendEventLine(p)
      <3>1. Last = status /\ next[p] = status + 1
        BY <1>2, <2>4 DEF AppendEventLine, WriterOK, Last
      <3>2. /\ Len(log') = Last + 1 /\ log'[Last + 1] = EventOf(p)
            /\ EventOf(p).id = next[p]
        BY <2>4, AppendFacts, EventOfType DEF AppendEventLine
      <3>3. pc'[p] \in {"after", "status"} /\ next' = next /\ status' = status
        BY <2>4 DEF AppendEventLine
      <3> QED
        BY <3>1, <3>2, <3>3 DEF WriterOK
    <2>5. CASE MutateStatus(p)
      BY <1>2, <2>5 DEF MutateStatus, WriterOK
    <2>6. CASE ~Mutating(p)'
      BY <2>6 DEF Mutating, WriterOK
    <2>7. CASE Start(p) \/ CreateLock(p) \/ WriteMetadata(p)
               \/ WriteMetadataFails(p) \/ SyncMetadataFails(p)
      BY <2>6, <2>7 DEF Start, CreateLock, WriteMetadata, WriteMetadataFails,
         SyncMetadataFails, Body, Mutating
    <2>8. CASE AppendEventLineTorn(p) \/ ReplaceStatus(p) \/ OperationFails(p)
      BY <2>6, <2>8 DEF AppendEventLineTorn, ReplaceStatus, OperationFails,
         Mutating
    <2>9. CASE Inspect(p) \/ VerifyTarget(p) \/ RemoveTarget(p)
      BY <2>6, <2>9 DEF Inspect, VerifyTarget, RemoveTarget, Mutating
    <2>10. CASE VerifyOwn(p) \/ RemoveOwn(p) \/ RemoveOwnFails(p) \/ Crash(p)
      BY <2>6, <2>10 DEF VerifyOwn, RemoveOwn, RemoveOwnFails, Crash, Mutating
    <2>11. CASE LockAges(p)
      BY <1>2, <2>11 DEF LockAges, locals, WriterOK
    <2> QED
      BY <2>1, <2>2, <2>3, <2>4, <2>5, <2>7, <2>8, <2>9, <2>10, <2>11
         DEF ProcStep, Step, Fault
  <1> QED
    BY <1>3, <1>4 DEF WriterInv, WriterOK

\* Everything the proofs about the log need.
FullInv == LockInv /\ LedgerInv

\* FullInv holds at the start.
LEMMA FullInvInit ==
  ASSUME Init PROVE FullInv
  <1>1. LockInv
    BY LockInvInit
  <1>2. Len(log) = 1 /\ log[1].id = 1 /\ status = 1
    BY DEF Init, Event
  <1>3. LogInv
    BY <1>2 DEF LogInv, EventIdsSequential
  <1>4. WriterInv
    BY DEF Init, WriterInv
  <1> QED
    BY <1>1, <1>3, <1>4 DEF FullInv, LedgerInv

\* FullInv is inductive under the discipline.
LEMMA FullInvStep ==
  ASSUME Disciplined, FullInv, [Next]_vars
  PROVE  FullInv'
  <1>1. LockInv'
    BY LockInvStep DEF FullInv
  <1>2. CASE \E p \in Proc : ProcStep(p)
    BY <1>1, <1>2, LogStep, WriterStep DEF FullInv, LedgerInv
  <1>3. CASE UNCHANGED vars
    <2>1. LogInv'
      BY <1>3 DEF vars, files, FullInv, LedgerInv, LogInv, EventIdsSequential
    <2>2. WriterInv'
      BY <1>3 DEF vars, files, locals, FullInv, LedgerInv, WriterInv
    <2> QED
      BY <1>1, <2>1, <2>2 DEF FullInv, LedgerInv
  <1> QED
    BY <1>2, <1>3 DEF Next, ProcStep

(***************************************************************************)
(* The event ids of events.jsonl count up from evt-000001 without gap or   *)
(* duplicate, and only the last line can be torn: nextEventID never hands  *)
(* out an id twice, whatever fails or is killed between the append and the *)
(* replacement of status.json.  Same discipline as MutualExclusion.        *)
(***************************************************************************)
THEOREM SequentialIds == ASSUME Disciplined PROVE Spec => []EventIdsSequential
  <1>1. Init => FullInv
    BY FullInvInit
  <1>2. FullInv /\ [Next]_vars => FullInv'
    BY FullInvStep
  <1>3. FullInv => EventIdsSequential
    BY DEF FullInv, LedgerInv, LogInv
  <1> QED
    BY <1>1, <1>2, <1>3, PTL DEF Spec

(***************************************************************************)
(* No line is ever appended to a log that status.json does not describe:   *)
(* what the coherence check of appendEventWithPreparedStatusMutation saw   *)
(* still holds when the line is written, so a store split by a fault stays *)
(* frozen until somebody repairs it.  Same discipline as MutualExclusion.  *)
(***************************************************************************)
THEOREM CoherentAppends ==
  ASSUME Disciplined PROVE Spec => AppendOnlyWhenCoherent
  <1>1. Init => FullInv
    BY FullInvInit
  <1>2. FullInv /\ [Next]_vars => FullInv'
    BY FullInvStep
  <1>3. FullInv /\ [Next]_vars =>
          [log' # log => Readable(log) /\ Tail_(log) = status]_log
    <2> SUFFICES ASSUME FullInv, Next, log' # log
                 PROVE  Coherent(status)
      BY DEF vars, files, Coherent
    <2>1. PICK p \in Proc : ProcStep(p)
      BY DEF Next, ProcStep
    <2>2. pc[p] = "append"
      BY <2>1, FilesStep DEF AppendEventLine, AppendEventLineTorn,
         ReplaceStatus
    <2>3. Last = status
      BY <2>2 DEF FullInv, LedgerInv, WriterInv, Last
    <2> QED
      BY <2>3, LogFacts DEF FullInv, LedgerInv
  <1> QED
    BY <1>1, <1>2, <1>3, PTL DEF Spec, AppendOnlyWhenCoherent

-----------------------------------------------------------------------------
(* What a command has recorded *)

\* The event of a command stands in the log, status.json has caught up with
\* it, and the file its hook wrote bears its id or a later one.
Recorded(p) ==
  /\ next[p] \in 1 .. status
  /\ log[next[p]].by = p
  /\ WritesBefore(cmd[p]) => ahead.id >= next[p]
  /\ WritesAfter(cmd[p]) => behind.id >= next[p]

\* On its way to success a command leaves its trace in each file in turn.
RecordingOK(p) ==
  /\ pc[p] \in {"after", "status"} => log[Len(log)].by = p
  /\ pc[p] \in {"append", "after", "status"} /\ WritesBefore(cmd[p]) =>
       ahead.id = next[p]
  /\ pc[p] = "status" /\ WritesAfter(cmd[p]) => behind.id = next[p]
  /\ pc[p] \in {"verify_target", "remove_target"} => Recorded(p)
  /\ pc[p] \in {"verify_own", "remove_own", "exited"} /\ outcome[p] = "ok" =>
       Recorded(p)
RecordingInv == \A p \in Proc : RecordingOK(p)

\* A process decides about its own outcome only.
LEMMA FrameOutcome ==
  ASSUME TypeOK, NEW p \in Proc, ProcStep(p), NEW q \in Proc \ {p}
  PROVE  outcome'[q] = outcome[q]
  <1> USE DEF TypeOK
  <1>1. \/ outcome' = outcome
        \/ \E r : outcome' = [outcome EXCEPT ![p] = r]
    <2>1. CASE Start(p) \/ LockAges(p) \/ Crash(p) \/ WriteMetadata(p)
      BY <2>1 DEF Start, LockAges, locals, Crash, WriteMetadata
    <2>2. CASE CreateLock(p) \/ WriteMetadataFails(p) \/ SyncMetadataFails(p)
      BY <2>2 DEF CreateLock, WriteMetadataFails, SyncMetadataFails, Return
    <2>3. CASE ReadStatus(p) \/ ScanLog(p) \/ BeforeAppend(p)
               \/ AppendEventLine(p) \/ AppendEventLineTorn(p)
      BY <2>3 DEF ReadStatus, ScanLog, BeforeAppend, AppendEventLine,
         AppendEventLineTorn, Return
    <2>4. CASE MutateStatus(p) \/ ReplaceStatus(p) \/ OperationFails(p)
      BY <2>4 DEF MutateStatus, ReplaceStatus, OperationFails, Return
    <2>5. CASE Inspect(p) \/ VerifyTarget(p) \/ RemoveTarget(p)
      BY <2>5 DEF Inspect, VerifyTarget, RemoveTarget, Return
    <2>6. CASE VerifyOwn(p) \/ RemoveOwn(p) \/ RemoveOwnFails(p)
      BY <2>6 DEF VerifyOwn, RemoveOwn, RemoveOwnFails, Released
    <2> QED
      BY <2>1, <2>2, <2>3, <2>4, <2>5, <2>6 DEF ProcStep, Step, Fault
  <1> QED
    BY <1>1

\* Five actions write one of the four files beside the locks.
LEMMA StoreStep ==
  ASSUME NEW p \in Proc, ProcStep(p)
  PROVE  \/ /\ log' = log /\ status' = status
            /\ ahead' = ahead /\ behind' = behind
         \/ BeforeAppend(p) \/ AppendEventLine(p) \/ AppendEventLineTorn(p)
         \/ MutateStatus(p) \/ ReplaceStatus(p)
  BY DEF ProcStep, Step, Fault, Start, CreateLock, WriteMetadata, files,
     WriteMetadataFails, SyncMetadataFails, ReadStatus, ScanLog,
     OperationFails, Inspect, VerifyTarget, RemoveTarget,
     VerifyOwn, RemoveOwn, RemoveOwnFails, Crash, LockAges, locals

\* The lines of the log stay, and what is written belongs to a later event
\* than all that is recorded.
LEMMA StoreGrows ==
  ASSUME FullInv, NEW p \in Proc, ProcStep(p)
  PROVE  /\ status' \in Nat /\ status <= status'
         /\ \A i \in 1 .. status : log'[i] = log[i]
         /\ ahead' = ahead \/ (ahead'.id \in Nat /\ ahead'.id > status)
         /\ behind' = behind \/ (behind'.id \in Nat /\ behind'.id > status)
         /\ ~Mutating(p) => /\ log' = log /\ status' = status
                            /\ ahead' = ahead /\ behind' = behind
  <1>1. /\ LockInv /\ LogInv /\ TypeOK /\ EventOf(p).id = next[p]
        /\ status \in Nat /\ Last \in Nat /\ Last >= status
    BY LogFacts, EventOfType DEF FullInv, LedgerInv, LockInv, LocalInv
  <1>2. CASE /\ log' = log /\ status' = status
             /\ ahead' = ahead /\ behind' = behind
    BY <1>1, <1>2
  <1>3. CASE BeforeAppend(p) \/ MutateStatus(p)
    <2>1. next[p] = status + 1
      BY <1>3 DEF BeforeAppend, MutateStatus, FullInv, LedgerInv, WriterInv
    <2> QED
      BY <1>1, <1>3, <2>1 DEF BeforeAppend, MutateStatus, Mutating
  <1>4. CASE AppendEventLine(p) \/ AppendEventLineTorn(p)
    <2>1. PICK e \in EventRecord : log' = Append(log, e)
      <3>1. TornLine(p) \in EventRecord
        BY MaxEventIdType, NewEventType DEF TornLine, Torn
      <3> QED
        BY <1>1, <1>4, <3>1, EventOfType
           DEF AppendEventLine, AppendEventLineTorn
    <2>2. \A i \in 1 .. Last : log'[i] = log[i]
      BY <1>1, <2>1, AppendFacts
    <2> QED
      BY <1>1, <1>4, <2>2 DEF AppendEventLine, AppendEventLineTorn, Mutating
  <1>5. CASE ReplaceStatus(p)
    <2>1. next[p] = status + 1
      BY <1>5 DEF ReplaceStatus, FullInv, LedgerInv, WriterInv
    <2> QED
      BY <1>1, <1>5, <2>1 DEF ReplaceStatus, Mutating
  <1> QED
    BY <1>2, <1>3, <1>4, <1>5, StoreStep

\* What is recorded stays recorded.
LEMMA RecordedStays ==
  ASSUME FullInv, NEW p \in Proc, ProcStep(p), NEW q \in Proc, Recorded(q),
         next'[q] = next[q], cmd'[q] = cmd[q]
  PROVE  Recorded(q)'
  <1>1. status \in Nat /\ next[q] \in Nat /\ ahead.id \in Nat /\ behind.id \in Nat
    BY MaxEventIdType DEF FullInv, LockInv, LocalInv, TypeOK, EventRecord
  <1>2. next'[q] \in 1 .. status' /\ log'[next'[q]].by = q
    BY <1>1, StoreGrows DEF Recorded
  <1>3. WritesBefore(cmd[q]) => ahead'.id >= next[q]
    <2>1. CASE ahead' = ahead
      BY <2>1 DEF Recorded
    <2>2. CASE ahead'.id \in Nat /\ ahead'.id > status
      BY <1>1, <2>2 DEF Recorded
    <2> QED
      BY <2>1, <2>2, StoreGrows
  <1>4. WritesAfter(cmd[q]) => behind'.id >= next[q]
    <2>1. CASE behind' = behind
      BY <2>1 DEF Recorded
    <2>2. CASE behind'.id \in Nat /\ behind'.id > status
      BY <1>1, <2>2 DEF Recorded
    <2> QED
      BY <2>1, <2>2, StoreGrows
  <1> QED
    BY <1>2, <1>3, <1>4 DEF Recorded, WritesBefore, WritesAfter

\* Each step of a command leaves the trace the next one relies on.
LEMMA RecordingStep ==
  ASSUME FullInv, RecordingInv, NEW p \in Proc, ProcStep(p)
  PROVE  RecordingInv'
  <1>1. /\ LockInv /\ LogInv /\ TypeOK /\ OneWriter /\ LocalInv
        /\ status \in Nat /\ Last \in Nat
    BY Exclusive, LogFacts DEF FullInv, LedgerInv, LockInv, LocalInv
  <1>2. ASSUME NEW q \in Proc, q # p
        PROVE  RecordingOK(q)'
    <2>1. Same(q) /\ outcome'[q] = outcome[q] /\ RecordingOK(q)
      BY <1>1, <1>2, Frame, FrameOutcome DEF RecordingInv
    <2>2. Recorded(q) => Recorded(q)'
      BY <2>1, RecordedStays DEF Same
    <2>3. Mutating(q) => /\ log' = log /\ status' = status
                         /\ ahead' = ahead /\ behind' = behind
      BY <1>1, <1>2, StoreGrows DEF OneWriter
    <2> QED
      BY <2>1, <2>2, <2>3
         DEF Same, RecordingOK, Mutating, WritesBefore, WritesAfter
  <1>3. RecordingOK(p)'
    <2> USE <1>1, GotoValue, ReturnValue, ReleasedValue
    <2>1. RecordingOK(p)
      BY DEF RecordingInv
    <2>2. CASE Start(p) \/ CreateLock(p) \/ WriteMetadata(p) \/ ReadStatus(p)
               \/ WriteMetadataFails(p) \/ SyncMetadataFails(p) \/ Inspect(p)
      <3>1. \/ pc'[p] \in {"create", "metadata", "inspect", "read_status",
                           "scan_log"}
            \/ outcome'[p] # "ok" /\ pc'[p] \in {"verify_own", "exited"}
        <4>1. CASE Start(p) \/ WriteMetadata(p) \/ ReadStatus(p)
          BY <4>1 DEF Start, WriteMetadata, ReadStatus, Body
        <4>2. CASE CreateLock(p)
          <5>1. Goto(p, "metadata") \/ Return(p, "error")
            BY <4>2 DEF CreateLock
          <5> QED
            BY <5>1
        <4>3. CASE WriteMetadataFails(p)
          BY <4>3 DEF WriteMetadataFails
        <4>4. CASE SyncMetadataFails(p)
          <5>1. PICK r \in {"error", "unreleased"} : Return(p, r)
            BY <4>4 DEF SyncMetadataFails
          <5> QED
            BY <5>1
        <4>5. CASE Inspect(p)
          <5>1. \/ Goto(p, "read_status") \/ Goto(p, "inspect")
                \/ Return(p, "error")
            BY <4>5 DEF Inspect
          <5> QED
            BY <5>1
        <4> QED
          BY <2>2, <4>1, <4>2, <4>3, <4>4, <4>5
      <3> QED
        BY <3>1 DEF RecordingOK
    <2>3. CASE ScanLog(p)
      <3>1. CASE Goto(p, IF WritesBefore(cmd[p]) THEN "before" ELSE "append")
        BY <2>3, <3>1 DEF ScanLog, RecordingOK
      <3>2. CASE Return(p, "error")
        BY <3>2 DEF RecordingOK
      <3> QED
        BY <2>3, <3>1, <3>2 DEF ScanLog
    <2>4. CASE BeforeAppend(p)
      <3>1. pc'[p] = "append" /\ ahead'.id = next'[p]
        BY <2>4, EventOfType DEF BeforeAppend
      <3> QED
        BY <3>1 DEF RecordingOK
    <2>5. CASE AppendEventLine(p)
      <3>1. log'[Len(log')] = EventOf(p)
        BY <2>5, AppendFacts, EventOfType DEF AppendEventLine
      <3>2. EventOf(p).by = p
        BY DEF EventOf, Event
      <3>3. /\ pc'[p] = IF WritesAfter(cmd[p]) THEN "after" ELSE "status"
            /\ ahead' = ahead /\ next' = next /\ cmd' = cmd
        BY <2>5 DEF AppendEventLine
      <3> QED
        BY <2>1, <2>5, <3>1, <3>2, <3>3
           DEF AppendEventLine, RecordingOK, WritesBefore, WritesAfter
    <2>6. CASE AppendEventLineTorn(p) \/ OperationFails(p) \/ RemoveOwnFails(p)
               \/ Crash(p)
      <3>1. \/ pc'[p] = "crashed"
            \/ outcome'[p] # "ok" /\ pc'[p] \in {"verify_own", "exited"}
        BY <2>6 DEF AppendEventLineTorn, OperationFails, RemoveOwnFails, Crash
      <3> QED
        BY <3>1 DEF RecordingOK
    <2>7. CASE MutateStatus(p)
      <3>1. /\ pc'[p] = "status" /\ behind'.id = next'[p]
            /\ log' = log /\ ahead' = ahead /\ cmd' = cmd /\ next' = next
        BY <2>7, EventOfType DEF MutateStatus
      <3> QED
        BY <2>1, <2>7, <3>1 DEF MutateStatus, RecordingOK, WritesBefore
    <2>8. CASE ReplaceStatus(p)
      <3>1. next[p] = status + 1 /\ next[p] = Len(log)
        BY <2>8 DEF ReplaceStatus, FullInv, LedgerInv, WriterInv
      <3>2. /\ log' = log /\ ahead' = ahead /\ behind' = behind
            /\ cmd' = cmd /\ next' = next /\ status' = next[p]
        BY <2>8 DEF ReplaceStatus
      <3>3. Recorded(p)'
        <4>1. /\ log[next[p]].by = p
              /\ WritesBefore(cmd[p]) => ahead.id = next[p]
              /\ WritesAfter(cmd[p]) => behind.id = next[p]
          BY <2>1, <2>8, <3>1 DEF ReplaceStatus, RecordingOK
        <4>2. next[p] \in Nat /\ next[p] \in 1 .. next[p] /\ next[p] >= next[p]
          BY <3>1
        <4> QED
          BY <3>2, <4>1, <4>2 DEF Recorded, WritesBefore, WritesAfter
      <3>4. pc'[p] \in {"verify_target", "verify_own", "exited"}
        BY <2>8 DEF ReplaceStatus
      <3> QED
        BY <3>3, <3>4 DEF RecordingOK
    <2>9. CASE VerifyTarget(p) \/ RemoveTarget(p)
      <3>1. Recorded(p)'
        BY <2>1, <2>9, RecordedStays DEF VerifyTarget, RemoveTarget, RecordingOK
      <3>2. pc'[p] \in {"read_status", "remove_target", "verify_own", "exited"}
        BY <2>9 DEF VerifyTarget, RemoveTarget
      <3> QED
        BY <3>1, <3>2 DEF RecordingOK
    <2>10. CASE VerifyOwn(p) \/ RemoveOwn(p)
      <3>1. \/ outcome'[p] = "unreleased"
            \/ outcome'[p] = outcome[p]
        BY <2>10 DEF VerifyOwn, RemoveOwn
      <3>2. pc'[p] \in {"remove_own", "verify_own", "exited"}
        BY <2>10 DEF VerifyOwn, RemoveOwn
      <3>3. outcome[p] = "ok" => Recorded(p)'
        BY <2>1, <2>10, RecordedStays DEF VerifyOwn, RemoveOwn, RecordingOK
      <3> QED
        BY <3>1, <3>2, <3>3 DEF RecordingOK
    <2>11. CASE LockAges(p)
      BY <2>1, <2>11, RecordedStays DEF LockAges, locals, RecordingOK
    <2> QED
      BY <2>2, <2>3, <2>4, <2>5, <2>6, <2>7, <2>8, <2>9, <2>10, <2>11
         DEF ProcStep, Step, Fault
  <1> QED
    BY <1>2, <1>3 DEF RecordingInv

\* Everything the proofs about what is recorded need.
RecordInv == FullInv /\ RecordingInv

\* RecordInv holds at the start.
LEMMA RecordInvInit ==
  ASSUME Init PROVE RecordInv
  BY FullInvInit DEF Init, RecordInv, RecordingInv, RecordingOK

\* RecordInv is inductive under the discipline.
LEMMA RecordInvStep ==
  ASSUME Disciplined, RecordInv, [Next]_vars
  PROVE  RecordInv'
  <1>1. FullInv'
    BY FullInvStep DEF RecordInv
  <1>2. CASE \E p \in Proc : ProcStep(p)
    BY <1>1, <1>2, RecordingStep DEF RecordInv
  <1>3. CASE UNCHANGED vars
    <2>1. RecordingInv'
      BY <1>3 DEF vars, files, locals, RecordInv, RecordingInv, RecordingOK,
         Recorded, WritesBefore, WritesAfter
    <2> QED
      BY <1>1, <2>1 DEF RecordInv
  <1> QED
    BY <1>2, <1>3 DEF Next, ProcStep

(***************************************************************************)
(* A command that reports success has its event in the log, under the id   *)
(* it allocated and in its name, status.json has caught up with it, and    *)
(* the file its hook wrote bears that event or a later one.  Same          *)
(* discipline as MutualExclusion.                                          *)
(***************************************************************************)
THEOREM SuccessRecorded == ASSUME Disciplined PROVE Spec => []SuccessIsRecorded
  <1>1. Init => RecordInv
    BY RecordInvInit
  <1>2. RecordInv /\ [Next]_vars => RecordInv'
    BY RecordInvStep
  <1>3. RecordInv => SuccessIsRecorded
    BY DEF RecordInv, RecordingInv, RecordingOK, Recorded, SuccessIsRecorded
  <1> QED
    BY <1>1, <1>2, <1>3, PTL DEF Spec

-----------------------------------------------------------------------------
(* The abstract ledger *)

\* A process is past its append.
Committing(p) == pc[p] \in {"after", "status"}

\* Only the append of a whole line leads past the append.
LEMMA CommittingStep ==
  ASSUME TypeOK, NEW p \in Proc, ProcStep(p), NEW q \in Proc, Committing(q)'
  PROVE  Committing(q) \/ (q = p /\ AppendEventLine(p))
  <1>1. CASE q # p
    BY <1>1, Frame DEF Same, Committing
  <1>2. CASE q = p
    <2> USE GotoValue, ReturnValue, ReleasedValue DEF Committing
    <2>1. CASE Start(p) \/ CreateLock(p) \/ WriteMetadata(p)
               \/ WriteMetadataFails(p) \/ SyncMetadataFails(p)
      BY <1>2, <2>1 DEF Start, CreateLock, WriteMetadata, WriteMetadataFails,
         SyncMetadataFails, Body
    <2>2. CASE ReadStatus(p) \/ ScanLog(p) \/ BeforeAppend(p)
               \/ AppendEventLineTorn(p)
      BY <1>2, <2>2 DEF ReadStatus, ScanLog, BeforeAppend, AppendEventLineTorn
    <2>3. CASE MutateStatus(p) \/ ReplaceStatus(p) \/ OperationFails(p)
      BY <1>2, <2>3 DEF MutateStatus, ReplaceStatus, OperationFails
    <2>4. CASE Inspect(p) \/ VerifyTarget(p) \/ RemoveTarget(p)
      BY <1>2, <2>4 DEF Inspect, VerifyTarget, RemoveTarget
    <2>5. CASE VerifyOwn(p) \/ RemoveOwn(p) \/ RemoveOwnFails(p) \/ Crash(p)
      BY <1>2, <2>5 DEF VerifyOwn, RemoveOwn, RemoveOwnFails, Crash
    <2>6. CASE LockAges(p)
      BY <1>2, <2>6 DEF LockAges, locals
    <2> QED
      BY <1>2, <2>1, <2>2, <2>3, <2>4, <2>5, <2>6 DEF ProcStep, Step, Fault
  <1> QED
    BY <1>1, <1>2

\* The first event is project.initialized, and nothing is frozen.
LEMMA LedgerInit ==
  ASSUME Init PROVE Ledger!Init
  <1>1. status = 1 /\ Len(log) = 1
    BY DEF Init
  <1>2. Len(Committed) = 1
    BY <1>1 DEF Committed
  <1>3. ~Frozen
    BY <1>1 DEF Frozen
  <1> QED
    BY <1>2, <1>3 DEF Ledger!Init

\* A step that leaves log and status alone may freeze the ledger at most.
LEMMA LedgerLeftAlone ==
  ASSUME TypeOK, NEW p \in Proc, ProcStep(p), log' = log, status' = status
  PROVE  [Ledger!Next]_(Ledger!vars)
  <1>1. Committed' = Committed
    BY DEF Committed
  <1>2. ~AppendEventLine(p)
    <2> SUFFICES ASSUME AppendEventLine(p) PROVE FALSE
      OBVIOUS
    <2>1. log \in Seq(EventRecord) /\ EventOf(p) \in EventRecord
      BY EventOfType DEF TypeOK
    <2> QED
      BY <2>1 DEF AppendEventLine
  <1>3. Frozen => Frozen'
    BY <1>2, CommittingStep DEF Frozen, Committing
  <1>4. Frozen \in BOOLEAN /\ Frozen' \in BOOLEAN
    BY DEF Frozen
  <1> QED
    BY <1>1, <1>3, <1>4 DEF Ledger!Next, Ledger!vars, Ledger!Freeze

\* An append changes nothing yet, or is torn and freezes the ledger.
LEMMA LedgerAppended ==
  ASSUME FullInv, NEW p \in Proc, ProcStep(p),
         AppendEventLine(p) \/ AppendEventLineTorn(p)
  PROVE  [Ledger!Next]_(Ledger!vars)
  <1>1. /\ LockInv /\ LogInv /\ TypeOK /\ OneWriter
        /\ status \in Nat /\ Len(log) = status
    BY Exclusive, LogFacts DEF FullInv, LedgerInv, LockInv, LocalInv,
       WriterInv, AppendEventLine, AppendEventLineTorn
  <1>2. status' = status /\ \A i \in 1 .. status : log'[i] = log[i]
    BY StoreGrows DEF AppendEventLine, AppendEventLineTorn
  <1>3. Committed' = Committed
    BY <1>2 DEF Committed
  <1>4. ~Frozen
    BY <1>1 DEF Frozen
  <1>5. CASE AppendEventLine(p)
    <2>1. pc'[p] \in {"after", "status"}
      BY <1>1, <1>5, GotoValue DEF AppendEventLine
    <2>2. ~Frozen'
      BY <2>1 DEF Frozen
    <2> QED
      BY <1>3, <1>4, <2>2 DEF Ledger!vars, Frozen
  <1>6. CASE AppendEventLineTorn(p)
    <2>1. TornLine(p) \in EventRecord
      BY MaxEventIdType, NewEventType DEF TornLine, Torn
    <2>2. Len(log') = status' + 1
      BY <1>1, <1>2, <1>6, <2>1, AppendFacts DEF AppendEventLineTorn, Last
    <2>3. \A q \in Proc : ~Committing(q)'
      <3>1. ~AppendEventLine(p)
        <4>1. pc'[p] \in {"verify_own", "exited"}
          BY <1>1, <1>6, ReturnValue DEF AppendEventLineTorn
        <4> QED
          BY <1>1, <4>1, GotoValue DEF AppendEventLine
      <3>2. \A q \in Proc : ~Committing(q)
        BY <1>1, <1>6 DEF OneWriter, Mutating, Committing, AppendEventLineTorn
      <3> QED
        BY <1>1, <3>1, <3>2, CommittingStep
    <2>4. Frozen' = TRUE
      BY <1>1, <1>2, <2>2, <2>3 DEF Frozen, Committing
    <2> QED
      BY <1>3, <2>4 DEF Ledger!Next, Ledger!Freeze
  <1> QED
    BY <1>5, <1>6

\* The replacement of status.json commits the event.
LEMMA LedgerCommitted ==
  ASSUME RecordInv, NEW p \in Proc, ReplaceStatus(p)
  PROVE  Ledger!Commit(p)
  <1>1. /\ TypeOK /\ status \in Nat /\ log' = log
        /\ status' = status + 1 /\ Len(log) = status + 1 /\ next[p] = status + 1
    BY LogFacts DEF RecordInv, FullInv, LedgerInv, LockInv, LocalInv,
       WriterInv, ReplaceStatus
  <1>2. log[status + 1].by = p
    BY <1>1 DEF RecordInv, RecordingInv, RecordingOK, ReplaceStatus
  <1>3. status < MaxEventId
    BY <1>1, MaxEventIdType DEF TypeOK
  <1>4. Committed \in Seq(Proc \cup {NoProc})
    <2>1. \A i \in 1 .. status : log[i].by \in Proc \cup {NoProc}
      <3>1. \A i \in 1 .. Len(log) : log[i] \in EventRecord
        BY <1>1 DEF TypeOK
      <3>2. \A i \in 1 .. status : i \in 1 .. Len(log)
        BY <1>1
      <3> QED
        BY <3>1, <3>2 DEF EventRecord
    <2> QED
      BY <1>1, <2>1 DEF Committed
  <1>5. Len(Committed) = status
    BY <1>1 DEF Committed
  <1>6. Committed' = Append(Committed, p)
    <2>1. Committed' = [i \in 1 .. status + 1 |-> log[i].by]
      BY <1>1 DEF Committed
    <2>2. Append(Committed, p) =
            [i \in 1 .. status + 1 |->
               IF i = status + 1 THEN p ELSE Committed[i]]
      <3> DEFINE S == Proc \cup {NoProc}
      <3>1. Append(Committed, p) \in Seq(S)
            /\ Len(Append(Committed, p)) = status + 1
        BY <1>1, <1>4, <1>5
      <3>2. \A i \in 1 .. status + 1 : Append(Committed, p)[i] =
              IF i = status + 1 THEN p ELSE Committed[i]
        BY <1>1, <1>4, <1>5
      <3>3. \A s \in Seq(S) : s = [i \in 1 .. Len(s) |-> s[i]]
        OBVIOUS
      <3>4. Append(Committed, p) =
              [i \in 1 .. status + 1 |-> Append(Committed, p)[i]]
        BY <3>1, <3>3
      <3> QED
        BY <3>2, <3>4
    <2>3. \A i \in 1 .. status + 1 : i # status + 1 => Committed[i] = log[i].by
      BY <1>1 DEF Committed
    <2> QED
      BY <1>2, <2>1, <2>2, <2>3
  <1>7. ~Frozen /\ ~Frozen'
    BY <1>1 DEF Frozen, ReplaceStatus
  <1> QED
    BY <1>3, <1>5, <1>6, <1>7 DEF Ledger!Commit, Frozen

(***************************************************************************)
(* events.jsonl and status.json together implement EventLedger: each step  *)
(* of each process maps to a commit (the replacement of status.json), to a *)
(* freeze (whatever stops a command between its append and that            *)
(* replacement), or to nothing.  Same discipline as MutualExclusion.       *)
(***************************************************************************)
THEOREM ImplementsLedger == ASSUME Disciplined PROVE Spec => LedgerIsAtomic
  <1>1. Init => Ledger!Init
    BY LedgerInit
  <1>2. Init => RecordInv
    BY RecordInvInit
  <1>3. RecordInv /\ [Next]_vars => RecordInv'
    BY RecordInvStep
  <1>4. RecordInv /\ [Next]_vars => [Ledger!Next]_(Ledger!vars)
    <2> SUFFICES ASSUME RecordInv, [Next]_vars
                 PROVE  [Ledger!Next]_(Ledger!vars)
      OBVIOUS
    <2>1. ASSUME NEW p \in Proc, ProcStep(p)
          PROVE  [Ledger!Next]_(Ledger!vars)
      <3>1. CASE log' = log /\ status' = status
        BY <2>1, <3>1, LedgerLeftAlone DEF RecordInv, FullInv, LockInv, LocalInv
      <3>2. CASE AppendEventLine(p) \/ AppendEventLineTorn(p)
        BY <2>1, <3>2, LedgerAppended DEF RecordInv
      <3>3. CASE ReplaceStatus(p)
        BY <3>3, LedgerCommitted DEF Ledger!Next
      <3> QED
        BY <2>1, <3>1, <3>2, <3>3, FilesStep
    <2>2. CASE UNCHANGED vars
      BY <2>2 DEF vars, files, locals, Ledger!vars, Committed, Frozen
    <2> QED
      BY <2>1, <2>2 DEF Next, ProcStep
  <1> QED
    BY <1>1, <1>2, <1>3, <1>4, PTL DEF Spec, LedgerIsAtomic, Ledger!Spec

-----------------------------------------------------------------------------
(* Locks given back *)

\* What a process that did not fail to release holds is what it counts, and
\* it has released all when it exits.
ReturnedOK(p) ==
  /\ pc[p] = "exited" => held[p] = 0
  /\ outcome[p] = "unreleased" =>
       pc[p] \in {"verify_own", "remove_own", "exited", "crashed"}
  /\ pc[p] # "crashed" /\ outcome[p] # "unreleased" =>
       \A n \in LockName : lock[n] = File(p, TRUE) => n \in Held(p)
ReturnedInv == \A p \in Proc : ReturnedOK(p)

\* The locks of LockOrder, by their number.
LEMMA HeldValue ==
  ASSUME NEW p \in Proc
  PROVE  /\ held[p] = 0 => Held(p) = {}
         /\ held[p] = 1 => Held(p) = {"project_write"}
         /\ held[p] = 2 => Held(p) = LockName
  BY LockOrderType DEF Held, LockName

\* A step removes a lock file or makes it one of the process that moves.
LEMMA LockWrites ==
  ASSUME LocalInv, NEW p \in Proc, ProcStep(p), NEW n \in LockName
  PROVE  lock'[n] \in {lock[n], NoFile, File(p, FALSE), File(p, TRUE)}
  <1>1. TypeOK
    BY DEF LocalInv
  <1>2. CASE lock' = lock
    BY <1>2
  <1>3. CASE CreateLock(p) \/ WriteMetadata(p) \/ SyncMetadataFails(p)
    <2>1. LockOrder[held[p] + 1] \in LockName
      BY <1>3, MoreLocks DEF CreateLock, WriteMetadata, SyncMetadataFails
    <2>2. \/ lock' = lock
          \/ lock' = [lock EXCEPT ![LockOrder[held[p] + 1]] = File(p, TRUE)]
          \/ lock' = [lock EXCEPT ![LockOrder[held[p] + 1]] = File(p, FALSE)]
          \/ lock' = [lock EXCEPT ![LockOrder[held[p] + 1]] = NoFile]
      BY <1>3 DEF CreateLock, WriteMetadata, SyncMetadataFails
    <2> QED
      BY <1>1, <2>1, <2>2 DEF TypeOK
  <1>4. CASE \E m : lock' = [lock EXCEPT ![m] = NoFile]
    BY <1>1, <1>4 DEF TypeOK
  <1> QED
    BY <1>2, <1>3, <1>4 DEF ProcStep, Step, Fault, Start, files,
       WriteMetadataFails, ReadStatus, ScanLog, BeforeAppend, AppendEventLine,
       AppendEventLineTorn, MutateStatus, ReplaceStatus, OperationFails,
       Inspect, VerifyTarget, RemoveTarget, VerifyOwn, RemoveOwn,
       RemoveOwnFails, Crash, LockAges

\* Whatever a command does next, it keeps count of the locks it has to give
\* back.
LEMMA ReturnedStep ==
  ASSUME LocalInv, ReturnedInv, NEW p \in Proc, ProcStep(p)
  PROVE  ReturnedInv'
  <1>1. /\ TypeOK /\ HeldOK(pc[p], cmd[p], held[p]) /\ held[p] \in 0 .. 2
        /\ lock \in [LockName -> LockFile]
    BY DEF LocalInv, HeldInv, TypeOK
  <1>2. ASSUME NEW q \in Proc, q # p
        PROVE  ReturnedOK(q)'
    <2>1. Same(q) /\ outcome'[q] = outcome[q] /\ ReturnedOK(q)
      BY <1>1, <1>2, Frame, FrameOutcome DEF ReturnedInv
    <2>2. \A n \in LockName :
            lock'[n] = File(q, TRUE) => lock[n] = File(q, TRUE)
      BY <1>2, LockWrites, FileDistinct
    <2>3. Held(q)' = Held(q)
      BY <2>1 DEF Same, Held
    <2> QED
      BY <2>1, <2>2, <2>3 DEF Same, ReturnedOK, File
  <1>3. ReturnedOK(p)'
    <2> USE <1>1, GotoValue, ReturnValue, ReleasedValue
    <2>1. ReturnedOK(p)
      BY DEF ReturnedInv
    \* Steps that release nothing: the count stays, and so do the locks.
    <2>2. CASE /\ held' = held
               /\ \A n \in LockName :
                    lock'[n] = File(p, TRUE) => lock[n] = File(p, TRUE)
               /\ \/ pc'[p] \notin {"exited", "crashed"} /\ outcome' = outcome
                     /\ (pc[p] \in {"verify_own", "remove_own"} =>
                           pc'[p] \in {"verify_own", "remove_own"})
                     /\ pc[p] \notin {"exited", "crashed"}
                  \/ /\ pc[p] \notin {"verify_own", "remove_own", "exited",
                                      "crashed"}
                     /\ \E r \in {"ok", "error", "unreleased"} : Return(p, r)
      <3>1. Held(p)' = Held(p)
        BY <2>2 DEF Held
      <3>2. CASE /\ pc'[p] \notin {"exited", "crashed"} /\ outcome' = outcome
                 /\ pc[p] \in {"verify_own", "remove_own"} =>
                      pc'[p] \in {"verify_own", "remove_own"}
                 /\ pc[p] \notin {"exited", "crashed"}
        BY <2>1, <2>2, <3>1, <3>2 DEF ReturnedOK
      <3>3. ASSUME NEW r \in {"ok", "error", "unreleased"}, Return(p, r),
                   pc[p] \notin {"verify_own", "remove_own", "exited",
                                 "crashed"}
            PROVE  ReturnedOK(p)'
        <4>1. pc'[p] \in {"verify_own", "exited"}
          BY <3>3
        <4>2. pc'[p] = "exited" => held'[p] = 0
          BY <2>2, <3>3
        <4>3. \A n \in LockName : lock'[n] = File(p, TRUE) => n \in Held(p)'
          BY <2>1, <2>2, <3>1, <3>3 DEF ReturnedOK
        <4> QED
          BY <4>1, <4>2, <4>3 DEF ReturnedOK
      <3> QED
        BY <2>2, <3>2, <3>3
    <2>3. CASE Start(p)
      <3>1. \A n \in LockName : lock'[n] = lock[n]
        BY <2>3 DEF Start, files
      <3>2. pc'[p] \in {"create", "inspect", "read_status"} /\ pc[p] = "idle"
        BY <2>3 DEF Start, Body
      <3> QED
        BY <2>2, <2>3, <3>1, <3>2 DEF Start
    <2>4. CASE CreateLock(p)
      <3>1. LockOrder[held[p] + 1] \in LockName
        BY <2>4, MoreLocks DEF CreateLock
      <3>2. \A n \in LockName :
              lock'[n] = File(p, TRUE) => lock[n] = File(p, TRUE)
        <4>1. \/ lock' = lock
              \/ lock' = [lock EXCEPT ![LockOrder[held[p] + 1]] =
                                        File(p, FALSE)]
          BY <2>4 DEF CreateLock
        <4> QED
          BY <3>1, <4>1, FileDistinct
      <3>3. \/ Goto(p, "metadata") /\ outcome' = outcome
            \/ Return(p, "error")
        BY <2>4 DEF CreateLock
      <3> QED
        BY <2>2, <2>4, <3>2, <3>3 DEF CreateLock
    <2>5. CASE WriteMetadata(p)
      <3>1. /\ held[p] + 1 \in 1 .. 2
            /\ LockOrder[held[p] + 1] \in LockName
        BY <2>5, MoreLocks DEF WriteMetadata
      <3>2. held'[p] = held[p] + 1 /\ outcome' = outcome
        BY <2>5 DEF WriteMetadata, TypeOK
      <3>3. pc'[p] \in {"create", "inspect", "read_status"}
        BY <2>5 DEF WriteMetadata, Body
      <3>4. Held(p)' = Held(p) \cup {LockOrder[held[p] + 1]}
        BY <3>1, <3>2 DEF Held
      <3>5. \A n \in LockName : lock'[n] = File(p, TRUE) =>
              lock[n] = File(p, TRUE) \/ n = LockOrder[held[p] + 1]
        BY <2>5, <3>1 DEF WriteMetadata
      <3> QED
        BY <2>1, <2>5, <3>2, <3>3, <3>4, <3>5
           DEF WriteMetadata, ReturnedOK, File
    <2>6. CASE SyncMetadataFails(p)
      <3>1. LockOrder[held[p] + 1] \in LockName /\ pc[p] = "metadata"
        BY <2>6, MoreLocks DEF SyncMetadataFails
      <3>2. CASE Return(p, "unreleased")
        <4>1. held' = held
          BY <2>6 DEF SyncMetadataFails
        <4>2. /\ outcome'[p] = "unreleased"
              /\ pc'[p] \in {"verify_own", "exited"}
              /\ pc'[p] = "exited" => held'[p] = 0
          BY <3>2, <4>1
        <4> QED
          BY <4>2 DEF ReturnedOK
      <3>3. CASE /\ Return(p, "error")
                 /\ \/ lock' = lock
                    \/ lock' = [lock EXCEPT ![LockOrder[held[p] + 1]] = NoFile]
        <4>1. \A n \in LockName :
                lock'[n] = File(p, TRUE) => lock[n] = File(p, TRUE)
          BY <3>1, <3>3, FileDistinct
        <4> QED
          BY <2>2, <2>6, <3>1, <3>3, <4>1 DEF SyncMetadataFails
      <3> QED
        BY <2>6, <3>2, <3>3 DEF SyncMetadataFails
    <2>7. CASE WriteMetadataFails(p) \/ OperationFails(p)
               \/ AppendEventLineTorn(p)
      <3>1. lock' = lock /\ held' = held /\ Return(p, "error")
        BY <2>7 DEF WriteMetadataFails, OperationFails, AppendEventLineTorn,
           files
      <3>2. pc[p] \notin {"verify_own", "remove_own", "exited", "crashed"}
        BY <2>7 DEF WriteMetadataFails, OperationFails, AppendEventLineTorn
      <3> QED
        BY <2>2, <3>1, <3>2
    <2>8. CASE ReadStatus(p) \/ BeforeAppend(p) \/ AppendEventLine(p)
               \/ MutateStatus(p)
      <3>1. lock' = lock /\ held' = held /\ outcome' = outcome
        BY <2>8 DEF ReadStatus, BeforeAppend, AppendEventLine, MutateStatus,
           files
      <3>2. /\ pc[p] \in {"read_status", "before", "append", "after"}
            /\ pc'[p] \in {"scan_log", "append", "after", "status"}
        BY <2>8 DEF ReadStatus, BeforeAppend, AppendEventLine, MutateStatus
      <3> QED
        BY <2>2, <3>1, <3>2
    <2>9. CASE ScanLog(p) \/ ReplaceStatus(p) \/ VerifyTarget(p)
      <3>1. /\ lock' = lock /\ held' = held
            /\ pc[p] \in {"scan_log", "status", "verify_target"}
        BY <2>9 DEF ScanLog, ReplaceStatus, VerifyTarget, files
      <3>2. \/ /\ outcome' = outcome
               /\ \E s \in {"before", "append", "verify_target",
                            "remove_target"} : Goto(p, s)
            \/ \E r \in {"ok", "error"} : Return(p, r)
        BY <2>9 DEF ScanLog, ReplaceStatus, VerifyTarget
      <3> QED
        BY <2>2, <3>1, <3>2
    <2>10. CASE Inspect(p) \/ RemoveTarget(p)
      <3>1. /\ held' = held /\ pc[p] \in {"inspect", "remove_target"}
            /\ lock' = lock
               \/ lock' = [lock EXCEPT ![FirstLock(Found(p))] = NoFile]
        BY <2>10 DEF Inspect, RemoveTarget, files
      <3>2. \/ /\ outcome' = outcome
               /\ \E s \in {"inspect", "read_status"} : Goto(p, s)
            \/ \E r \in {"ok", "error"} : Return(p, r)
        BY <2>10 DEF Inspect, RemoveTarget
      <3>3. \A n \in LockName :
              lock'[n] = File(p, TRUE) => lock[n] = File(p, TRUE)
        BY <3>1, FileDistinct, FirstLockType
      <3> QED
        BY <2>2, <3>1, <3>2, <3>3
    <2>11. CASE Crash(p)
      BY <2>11 DEF Crash, ReturnedOK
    <2>12. CASE LockAges(p)
      BY <2>1, <2>12 DEF LockAges, locals, ReturnedOK, File, Held
    \* The deferred releases.
    <2>13. CASE VerifyOwn(p) \/ RemoveOwn(p) \/ RemoveOwnFails(p)
      <3>1. pc[p] \in {"verify_own", "remove_own"} /\ held[p] > 0
        BY <2>13 DEF VerifyOwn, RemoveOwn, RemoveOwnFails, HeldOK
      <3>2. CASE Goto(p, "remove_own") /\ VerifyOwn(p) /\ outcome' = outcome
                 /\ held' = held
        BY <2>2, <2>13, <3>1, <3>2 DEF VerifyOwn, files
      <3>3. CASE Released(p, "unreleased")
        <4>1. /\ outcome'[p] = "unreleased"
              /\ pc'[p] \in {"verify_own", "exited"}
              /\ pc'[p] = "exited" => held'[p] = 0
          BY <3>1, <3>3
        <4> QED
          BY <4>1 DEF ReturnedOK
      <3>4. CASE Released(p, outcome[p]) /\ RemoveOwn(p)
        <4>1. LockOrder[held[p]] \in LockName
          BY <3>1, LockOrderType
        <4>2. \A n \in LockName : lock'[n] = File(p, TRUE) =>
                lock[n] = File(p, TRUE) /\ n # LockOrder[held[p]]
          BY <3>4, <4>1, FileDistinct DEF RemoveOwn
        <4>3. Held(p) \subseteq Held(p)' \cup {LockOrder[held[p]]}
          <5>1. held'[p] = held[p] - 1
            BY <3>4
          <5> QED
            BY <3>1, <5>1 DEF Held
        <4>4. /\ outcome'[p] = outcome[p]
              /\ pc'[p] \in {"verify_own", "exited"}
              /\ pc'[p] = "exited" => held'[p] = 0
          BY <3>1, <3>4
        <4>5. outcome'[p] # "unreleased" =>
                \A n \in LockName :
                  lock'[n] = File(p, TRUE) => n \in Held(p)'
          <5>1. outcome[p] # "unreleased" =>
                  \A n \in LockName : lock[n] = File(p, TRUE) => n \in Held(p)
            BY <2>1, <3>1 DEF ReturnedOK
          <5>2. ASSUME outcome'[p] # "unreleased", NEW n \in LockName,
                       lock'[n] = File(p, TRUE)
                PROVE  n \in Held(p)'
            <6>1. lock[n] = File(p, TRUE) /\ n # LockOrder[held[p]]
              BY <4>2, <5>2
            <6>2. n \in Held(p)
              BY <4>4, <5>1, <5>2, <6>1
            <6> QED
              BY <4>3, <6>1, <6>2
          <5> QED
            BY <5>2
        <4> QED
          BY <4>4, <4>5 DEF ReturnedOK
      <3> QED
        BY <2>13, <3>2, <3>3, <3>4 DEF VerifyOwn, RemoveOwn, RemoveOwnFails
    <2> QED
      BY <2>3, <2>4, <2>5, <2>6, <2>7, <2>8, <2>9, <2>10, <2>11, <2>12, <2>13
         DEF ProcStep, Step, Fault
  <1> QED
    BY <1>2, <1>3 DEF ReturnedInv

(***************************************************************************)
(* A command that has returned without an error of its deferred releases   *)
(* leaves no usable lock file of its own, on whatever path it returned and *)
(* whatever the others did, with recoveries of any kind at any time and    *)
(* owners alive beyond 30 minutes.                                         *)
(***************************************************************************)
THEOREM LocksGivenBack == Spec => []LocksReturned
  <1>1. Init => LocalInv /\ ReturnedInv
    <2>1. Init => ReturnedInv
      <3> SUFFICES ASSUME Init, NEW p \in Proc PROVE ReturnedOK(p)
        BY DEF ReturnedInv
      <3>1. /\ pc[p] = "idle" /\ outcome[p] = "ok"
            /\ \A n \in LockName : lock[n] # File(p, TRUE)
        BY FileDistinct DEF Init
      <3> QED
        BY <3>1 DEF ReturnedOK
    <2> QED
      BY <2>1, LocalInvInit
  <1>2. LocalInv /\ ReturnedInv /\ [Next]_vars => (LocalInv /\ ReturnedInv)'
    <2> SUFFICES ASSUME LocalInv, ReturnedInv, [Next]_vars
                 PROVE  LocalInv' /\ ReturnedInv'
      OBVIOUS
    <2>1. LocalInv'
      BY LocalInvStep
    <2>2. CASE \E p \in Proc : ProcStep(p)
      BY <2>1, <2>2, ReturnedStep
    <2>3. CASE UNCHANGED vars
      BY <2>1, <2>3 DEF vars, files, locals, ReturnedInv, ReturnedOK, File, Held
    <2> QED
      BY <2>2, <2>3 DEF Next, ProcStep
  <1>3. LocalInv /\ ReturnedInv => LocksReturned
    <2> SUFFICES ASSUME ReturnedInv, NEW p \in Proc, NEW n \in LockName,
                        pc[p] = "exited", outcome[p] # "unreleased",
                        lock[n] = File(p, TRUE)
                 PROVE  FALSE
      BY DEF LocksReturned
    <2>1. held[p] = 0 /\ n \in Held(p)
      BY DEF ReturnedInv, ReturnedOK
    <2> QED
      BY <2>1, HeldValue
  <1> QED
    BY <1>1, <1>2, <1>3, PTL DEF Spec

-----------------------------------------------------------------------------
(* The active-run lock *)

AW == "active_run"

\* What a step does to the active-run lock.  Whoever touches it is a live
\* process that holds the project lock.
ActiveCreated(p) ==
  /\ pc[p] = "create" /\ lock[AW] = NoFile /\ lock'[AW] = File(p, FALSE)
ActiveWritten(p) ==
  /\ pc[p] = "metadata" /\ lock[AW] = File(p, FALSE)
  /\ lock'[AW] \in {File(p, TRUE), NoFile} /\ pc'[p] # "metadata"
ActiveReleased(p) ==
  /\ pc[p] = "remove_own" /\ held[p] = 2
  /\ lock'[AW] = NoFile /\ pc'[p] # "remove_own"
ActiveRecovered(p) ==
  /\ pc[p] = "remove_target" /\ cmd[p] = "recover active-run"
  /\ lock'[AW] = NoFile
ActiveStepKind(p) ==
  \/ lock'[AW] = lock[AW]
  \/ /\ held[p] > 0 /\ Alive(p)
     /\ ActiveCreated(p) \/ ActiveWritten(p) \/ ActiveReleased(p)
          \/ ActiveRecovered(p)

\* The four things a step can do to active_run.lock.
LEMMA ActiveStep ==
  ASSUME LockInv, NEW p \in Proc, ProcStep(p)
  PROVE  ActiveStepKind(p)
  <1>1. TypeOK /\ LocalInv /\ HeldOK(pc[p], cmd[p], held[p]) /\ SeenInv
    BY DEF LockInv, LocalInv, HeldInv
  <1>2. held[p] \in 0 .. 2 /\ lock \in [LockName -> LockFile]
        /\ AW \in LockName /\ PW \in LockName /\ AW # PW
    BY <1>1 DEF TypeOK, LockName, AW, PW
  <1>3. pc[p] \in {"create", "metadata"} =>
          \/ held[p] = 0 /\ LockOrder[held[p] + 1] = PW
          \/ held[p] = 1 /\ LockOrder[held[p] + 1] = AW
    <2>1. pc[p] \in {"create", "metadata"} => held[p] + 1 \in 1 .. 2
      BY <1>1, MoreLocks
    <2>2. held[p] + 1 \in 1 .. 2 => held[p] = 0 \/ held[p] = 1
      BY <1>2
    <2>3. held[p] = 0 => LockOrder[held[p] + 1] = PW
      BY LockOrderType DEF PW
    <2>4. held[p] = 1 => LockOrder[held[p] + 1] = AW
      BY LockOrderType DEF AW
    <2> QED
      BY <2>1, <2>2, <2>3, <2>4
  <1>4. CASE lock' = lock
    BY <1>4 DEF ActiveStepKind
  <1>5. CASE CreateLock(p)
    <2>1. Alive(p) /\ pc[p] = "create"
      BY <1>5 DEF CreateLock, Alive
    <2>2. CASE /\ lock[LockOrder[held[p] + 1]] = NoFile
               /\ lock' = [lock EXCEPT ![LockOrder[held[p] + 1]] =
                                         File(p, FALSE)]
      <3>1. CASE LockOrder[held[p] + 1] = PW
        BY <1>2, <2>2, <3>1 DEF ActiveStepKind
      <3>2. CASE LockOrder[held[p] + 1] = AW /\ held[p] = 1
        <4>1. lock[AW] = NoFile /\ lock'[AW] = File(p, FALSE) /\ held[p] > 0
          BY <1>2, <2>2, <3>2
        <4> QED
          BY <2>1, <4>1 DEF ActiveStepKind, ActiveCreated
      <3> QED
        BY <1>3, <2>1, <3>1, <3>2
    <2> QED
      BY <1>4, <1>5, <2>2 DEF CreateLock
  <1>6. CASE WriteMetadata(p) \/ SyncMetadataFails(p)
    <2>1. Alive(p) /\ pc[p] = "metadata"
      BY <1>6 DEF WriteMetadata, SyncMetadataFails, Alive
    <2>2. pc'[p] # "metadata"
      <3>1. CASE WriteMetadata(p)
        BY <1>1, <3>1, GotoValue DEF WriteMetadata, Body
      <3>2. CASE SyncMetadataFails(p)
        <4>1. PICK r : Return(p, r)
          BY <3>2 DEF SyncMetadataFails
        <4> QED
          BY <1>1, <4>1, ReturnValue
      <3> QED
        BY <1>6, <3>1, <3>2
    <2>3. \/ lock' = lock
          \/ /\ lock[LockOrder[held[p] + 1]] = File(p, FALSE)
             /\ \/ lock' = [lock EXCEPT ![LockOrder[held[p] + 1]] = NoFile]
                \/ lock' = [lock EXCEPT ![LockOrder[held[p] + 1]] =
                                          File(p, TRUE)]
      BY <1>6 DEF WriteMetadata, SyncMetadataFails
    <2>4. CASE LockOrder[held[p] + 1] = PW
      BY <1>2, <2>3, <2>4 DEF ActiveStepKind
    <2>5. CASE LockOrder[held[p] + 1] = AW /\ held[p] = 1 /\ lock' # lock
      <3>2. lock[AW] = File(p, FALSE)
            /\ \/ lock' = [lock EXCEPT ![AW] = NoFile]
               \/ lock' = [lock EXCEPT ![AW] = File(p, TRUE)]
        BY <2>3, <2>5, Zenon
      <3>1. /\ lock[AW] = File(p, FALSE) /\ held[p] > 0
            /\ lock'[AW] \in {File(p, TRUE), NoFile}
        <4>1. lock'[AW] \in {File(p, TRUE), NoFile}
          BY <1>2, <3>2
        <4>2. held[p] > 0
          BY <2>5
        <4> QED
          BY <3>2, <4>1, <4>2
      <3> QED
        BY <2>1, <2>2, <3>1 DEF ActiveStepKind, ActiveWritten
    <2> QED
      BY <1>3, <1>4, <2>1, <2>4, <2>5
  <1>7. CASE RemoveTarget(p)
    <2>1. Found(p) = LockTargets(cmd[p]) /\ cmd[p] \in RecoverCommand
          /\ cmd[p] # "recover all" /\ Alive(p) /\ pc[p] = "remove_target"
      BY <1>1, <1>7, FoundTargets DEF RemoveTarget, SeenInv, BodyPc, Alive
    <2>2. CASE cmd[p] = "recover project-write"
      <3>1. FirstLock(Found(p)) = PW
        BY <2>1, <2>2, FirstOfOne, <1>2 DEF LockTargets, PW
      <3> QED
        BY <1>2, <1>7, <3>1 DEF RemoveTarget, ActiveStepKind
    <2>3. CASE cmd[p] = "recover active-run"
      <3>1. FirstLock(Found(p)) = AW
        BY <2>1, <2>3, FirstOfOne, <1>2 DEF LockTargets, AW
      <3>2. held[p] = 1
        BY <1>1, <1>7, <2>3
           DEF RemoveTarget, HeldOK, BodyPc, LocksNeeded, UnlockedCommand
      <3>3. \/ lock' = lock
            \/ lock' = [lock EXCEPT ![AW] = NoFile]
        BY <1>7, <3>1 DEF RemoveTarget
      <3> QED
        <4>1. held[p] > 0
          BY <3>2
        <4>2. lock'[AW] = lock[AW] \/ lock'[AW] = NoFile
          BY <1>2, <3>3
        <4> QED
          BY <2>1, <2>3, <4>1, <4>2 DEF ActiveStepKind, ActiveRecovered
    <2> QED
      BY <2>1, <2>2, <2>3 DEF RecoverCommand
  <1>8. CASE RemoveOwn(p)
    <2>1. held[p] > 0 /\ Alive(p) /\ pc[p] = "remove_own"
      BY <1>1, <1>8 DEF RemoveOwn, HeldOK, Alive
    <2>2. CASE held[p] = 1
      BY <1>2, <1>8, <2>2, LockOrderType DEF RemoveOwn, PW, ActiveStepKind
    <2>3. CASE held[p] = 2
      <3>1. lock'[AW] = NoFile
        BY <1>2, <1>8, <2>3, LockOrderType DEF RemoveOwn, AW
      <3>2. pc'[p] # "remove_own"
        <4>1. PICK r : Released(p, r)
          BY <1>8 DEF RemoveOwn
        <4> QED
          BY <1>1, <4>1, ReleasedValue
      <3> QED
        BY <2>1, <2>3, <3>1, <3>2 DEF ActiveStepKind, ActiveReleased
    <2> QED
      BY <1>2, <2>1, <2>2, <2>3
  <1> QED
    BY <1>4, <1>5, <1>6, <1>7, <1>8 DEF ProcStep, Step, Fault, Start, files,
       WriteMetadataFails, ReadStatus, ScanLog, BeforeAppend, AppendEventLine,
       AppendEventLineTorn, MutateStatus, ReplaceStatus, OperationFails,
       Inspect, VerifyTarget, VerifyOwn, RemoveOwnFails, Crash, LockAges

\* While one live process holds a lock, no other does.
LEMMA OneHolder ==
  ASSUME LockInv, NEW p \in Proc, Alive(p), held[p] > 0,
         NEW q \in Proc, Alive(q), held[q] > 0
  PROVE  p = q
  <1>1. lock[PW] = File(p, TRUE) /\ lock[PW] = File(q, TRUE)
    BY DEF LockInv, HolderInv, PW
  <1> QED
    BY <1>1, FileDistinct

\* A live process gives back the project lock last: as long as it lives it
\* keeps at least one of the locks it holds.
LEMMA KeepsOne ==
  ASSUME LocalInv, NEW p \in Proc, ProcStep(p), held[p] > 0, Alive(p)'
  PROVE  held'[p] > 0
  <1>1. /\ TypeOK /\ HeldOK(pc[p], cmd[p], held[p]) /\ held[p] \in 0 .. 2
    BY DEF LocalInv, HeldInv, TypeOK
  <1>2. CASE held' = held
    BY <1>2
  <1>3. CASE WriteMetadata(p)
    <2>1. held'[p] = held[p] + 1
      BY <1>1, <1>3 DEF WriteMetadata, TypeOK
    <2> QED
      BY <1>1, <2>1
  <1>4. CASE \E r : Released(p, r)
    <2>1. held[p] > 1
      BY <1>1, <1>4, ReleasedValue DEF Alive
    <2>2. held'[p] = held[p] - 1
      BY <1>1, <1>4, ReleasedValue
    <2> QED
      BY <1>1, <2>1, <2>2
  <1> QED
    BY <1>2, <1>3, <1>4 DEF ProcStep, Step, Fault, Start, CreateLock,
       WriteMetadataFails, SyncMetadataFails,
       ReadStatus, ScanLog, BeforeAppend, AppendEventLine, files,
       AppendEventLineTorn, MutateStatus, ReplaceStatus, OperationFails,
       Inspect, VerifyTarget, RemoveTarget, VerifyOwn, RemoveOwn,
       RemoveOwnFails, Crash, LockAges, locals

\* A live process that created active_run.lock still holds a lock, which is
\* the project lock.
NestedOK(p) ==
  lock[AW] # NoFile /\ lock[AW].owner = p /\ Alive(p) => held[p] > 0
NestedInv == \A p \in Proc : NestedOK(p)

\* Only a holder of the project lock creates active_run.lock.
LEMMA NestedStep ==
  ASSUME LockInv, NestedInv, NEW p \in Proc, ProcStep(p)
  PROVE  NestedInv'
  <1>1. LocalInv /\ TypeOK /\ AW \in LockName
    BY DEF LockInv, LocalInv, AW, LockName
  <1> SUFFICES ASSUME NEW q \in Proc, lock'[AW] # NoFile,
                      lock'[AW].owner = q, Alive(q)'
               PROVE  held'[q] > 0
    BY DEF NestedInv, NestedOK
  <1>2. CASE lock'[AW] = lock[AW]
    <2>1. pc[q] # "idle"
      BY <1>1, <1>2 DEF LockInv, OwnerInv
    <2>2. held[q] > 0
      BY <1>1, <1>2, <2>1, Course DEF NestedInv, NestedOK
    <2>3. CASE q = p
      BY <1>1, <2>2, <2>3, KeepsOne
    <2>4. CASE q # p
      BY <1>1, <2>2, <2>4, Frame DEF Same
    <2> QED
      BY <2>3, <2>4
  <1>3. CASE lock'[AW] # lock[AW]
    <2>1. held[p] > 0 /\ lock'[AW] \in {File(p, FALSE), File(p, TRUE)}
      BY <1>3, ActiveStep DEF ActiveStepKind, ActiveCreated, ActiveWritten,
         ActiveReleased, ActiveRecovered
    <2>2. q = p
      BY <2>1, FileType
    <2> QED
      BY <1>1, <2>1, <2>2, KeepsOne
  <1> QED
    BY <1>2, <1>3

(***************************************************************************)
(* A live run transition that has created active_run.lock has              *)
(* project_write.lock, written and in its name: the order in which the two *)
(* locks are taken and given back cannot be bypassed, not by a recovery of *)
(* one of them.  Same discipline as MutualExclusion.                       *)
(***************************************************************************)
THEOREM LocksAreNested == ASSUME Disciplined PROVE Spec => []ActiveLockNested
  <1>1. Init => LockInv /\ NestedInv
    BY LockInvInit DEF Init, NestedInv, NestedOK, AW, LockName
  <1>2. LockInv /\ NestedInv /\ [Next]_vars => (LockInv /\ NestedInv)'
    <2> SUFFICES ASSUME LockInv, NestedInv, [Next]_vars
                 PROVE  LockInv' /\ NestedInv'
      OBVIOUS
    <2>1. LockInv'
      BY LockInvStep
    <2>2. CASE \E p \in Proc : ProcStep(p)
      BY <2>1, <2>2, NestedStep
    <2>3. CASE UNCHANGED vars
      BY <2>1, <2>3 DEF vars, files, locals, NestedInv, NestedOK, Alive
    <2> QED
      BY <2>2, <2>3 DEF Next, ProcStep
  <1>3. LockInv /\ NestedInv => ActiveLockNested
    BY DEF LockInv, HolderInv, NestedInv, NestedOK, ActiveLockNested, AW
  <1> QED
    BY <1>1, <1>2, <1>3, PTL DEF Spec

-----------------------------------------------------------------------------
(* Recorded recoveries *)

\* The log tells that the lock n was taken from o.
Freed(n, o) ==
  \E i \in 1 .. Len(log) : log[i].freed = n /\ log[i].owner = o

\* What a process has verified before it removes active_run.lock, and what a
\* recovery has recorded before it removes either.
RemovalOK(p) ==
  /\ pc[p] = "remove_own" /\ held[p] = 2 => lock[AW] = File(p, TRUE)
  /\ pc[p] = "remove_target" /\ cmd[p] = "recover active-run" =>
       lock[AW] = File(seen[p][AW], TRUE)
  /\ pc[p] \in {"status", "verify_target", "remove_target"} =>
       \A n \in LockTargets(cmd[p]) : Freed(n, seen[p][n])
  /\ pc[p] = "after" => LockTargets(cmd[p]) = {}
RemovalInv == \A p \in Proc : RemovalOK(p)

\* The last line is one of the lines.
LEMMA LastIsLine == \A m \in Nat : m + 1 \in 1 .. m + 1
  OBVIOUS

\* Nothing is ever removed from the log.
LEMMA LogGrows ==
  ASSUME FullInv, NEW p \in Proc, ProcStep(p)
  PROVE  \A n, o : Freed(n, o) => Freed(n, o)'
  <1>1. LockInv /\ LogInv /\ TypeOK /\ Last \in Nat
    BY LogFacts DEF FullInv, LedgerInv, LockInv, LocalInv
  <1>2. CASE log' = log
    BY <1>2 DEF Freed
  <1>3. CASE AppendEventLine(p) \/ AppendEventLineTorn(p)
    <2>1. TornLine(p) \in EventRecord
      BY MaxEventIdType, NewEventType DEF TornLine, Torn
    <2>2. PICK e \in EventRecord : log' = Append(log, e)
      BY <1>1, <1>3, <2>1, EventOfType
         DEF AppendEventLine, AppendEventLineTorn
    <2>3. /\ Len(log') = Last + 1
          /\ \A i \in 1 .. Last : log'[i] = log[i]
      BY <1>1, <2>2, AppendFacts
    <2> QED
      BY <1>1, <2>3 DEF Freed, Last
  <1> QED
    BY <1>2, <1>3, FilesStep DEF ReplaceStatus

\* What has been verified and recorded stays so until the removal.
LEMMA RemovalStep ==
  ASSUME FullInv, RemovalInv, NEW p \in Proc, ProcStep(p)
  PROVE  RemovalInv'
  <1>1. /\ LockInv /\ LogInv /\ TypeOK /\ LocalInv /\ SeenInv
        /\ AW \in LockName /\ LockTargets("recover active-run") = {AW}
        /\ LocksNeeded("recover active-run") > 0
    <2>1. LocksNeeded("recover active-run") > 0
      <3>1. "recover active-run" \notin UnlockedCommand
        BY DEF UnlockedCommand
      <3> QED
        BY <3>1, LocksNeededValue
    <2> QED
      BY <2>1 DEF FullInv, LedgerInv, LockInv, LocalInv, AW, LockName,
         LockTargets
  <1>2. ASSUME NEW q \in Proc,
               \/ pc[q] = "remove_own" /\ held[q] = 2
               \/ pc[q] \in {"verify_own", "verify_target", "remove_target"}
                    /\ LocksNeeded(cmd[q]) > 0
        PROVE  Alive(q) /\ held[q] > 0
    BY <1>1, <1>2 DEF Alive, LocalInv, HeldInv, HeldOK, BodyPc
  <1>3. ASSUME NEW q \in Proc, q # p
        PROVE  RemovalOK(q)'
    <2>1. Same(q) /\ RemovalOK(q)
      BY <1>1, <1>3, Frame DEF RemovalInv
    <2>2. Alive(q) /\ held[q] > 0 => lock'[AW] = lock[AW]
      BY <1>1, <1>3, OneHolder, ActiveStep DEF ActiveStepKind
    <2>3. pc[q] = "remove_own" /\ held[q] = 2 => lock'[AW] = File(q, TRUE)
      BY <1>2, <2>1, <2>2 DEF RemovalOK
    <2>4. pc[q] = "remove_target" /\ cmd[q] = "recover active-run" =>
            lock'[AW] = File(seen[q][AW], TRUE)
      BY <1>1, <1>2, <2>1, <2>2 DEF RemovalOK
    <2>5. \A n, o : Freed(n, o) => Freed(n, o)'
      BY LogGrows
    <2> QED
      BY <2>1, <2>3, <2>4, <2>5 DEF Same, RemovalOK, File
  <1>4. RemovalOK(p)'
    <2> USE <1>1, GotoValue, ReturnValue, ReleasedValue
    <2>1. RemovalOK(p)
      BY DEF RemovalInv
    <2>2. CASE pc'[p] \notin {"remove_own", "after", "status",
                              "verify_target", "remove_target"}
      BY <2>2 DEF RemovalOK
    <2>3. CASE Start(p) \/ CreateLock(p) \/ WriteMetadata(p)
               \/ WriteMetadataFails(p) \/ OperationFails(p)
      BY <2>2, <2>3 DEF Start, CreateLock, WriteMetadata, WriteMetadataFails,
         OperationFails, Body
    <2>4. CASE SyncMetadataFails(p)
      <3>1. PICK r : Return(p, r)
        BY <2>4 DEF SyncMetadataFails
      <3> QED
        BY <2>2, <3>1
    <2>5. CASE ReadStatus(p) \/ ScanLog(p) \/ BeforeAppend(p)
               \/ AppendEventLineTorn(p) \/ Inspect(p)
      BY <2>2, <2>5 DEF ReadStatus, ScanLog, BeforeAppend,
         AppendEventLineTorn, Inspect
    <2>6. CASE AppendEventLine(p)
      <3>1. CASE WritesAfter(cmd[p])
        <4>1. pc'[p] = "after" /\ cmd' = cmd
          BY <2>6, <3>1 DEF AppendEventLine
        <4>2. LockTargets(cmd[p]) = {}
          BY <3>1 DEF WritesAfter, LockTargets
        <4> QED
          BY <4>1, <4>2 DEF RemovalOK
      <3>2. CASE ~WritesAfter(cmd[p])
        <4>1. pc'[p] = "status" /\ cmd' = cmd /\ seen' = seen
          BY <2>6, <3>2 DEF AppendEventLine
        <4>2. log' = Append(log, EventOf(p)) /\ EventOf(p) \in EventRecord
          BY <2>6, EventOfType DEF AppendEventLine
        <4>3. Len(log') = Last + 1 /\ log'[Last + 1] = EventOf(p)
              /\ Last \in Nat
          BY <4>2, AppendFacts, LogFacts
        <4>4. ASSUME NEW n \in LockTargets(cmd[p])
              PROVE  EventOf(p).freed = n /\ EventOf(p).owner = seen[p][n]
          <5>1. /\ Found(p) = LockTargets(cmd[p])
                /\ cmd[p] # "recover all"
            BY <2>6, FoundTargets DEF AppendEventLine, BodyPc, SeenInv
          <5>2. LockTargets(cmd[p]) = {n} /\ n \in LockName
            BY <4>4, <5>1 DEF LockTargets, LockName
          <5>3. FirstLock(Found(p)) = n /\ Found(p) # {}
            BY <5>1, <5>2, FirstOfOne
          <5> QED
            BY <5>3 DEF EventOf, Event
        <4>5. \A n \in LockTargets(cmd[p]) : Freed(n, seen[p][n])'
          <5> SUFFICES ASSUME NEW n \in LockTargets(cmd[p])
                       PROVE  Freed(n, seen[p][n])'
            OBVIOUS
          <5>1. Last + 1 \in 1 .. Len(log')
            BY <4>3, LastIsLine, Zenon
          <5>2. /\ log'[Last + 1].freed = n
                /\ log'[Last + 1].owner = seen'[p][n]
            BY <4>1, <4>3, <4>4
          <5> QED
            BY <5>1, <5>2 DEF Freed
        <4> QED
          BY <4>1, <4>5 DEF RemovalOK
      <3> QED
        BY <3>1, <3>2
    <2>7. CASE MutateStatus(p)
      <3>1. pc'[p] = "status" /\ cmd' = cmd
        BY <2>7 DEF MutateStatus
      <3>2. LockTargets(cmd[p]) = {}
        BY <2>1, <2>7 DEF MutateStatus, RemovalOK
      <3> QED
        BY <3>1, <3>2 DEF RemovalOK
    <2>8. CASE ReplaceStatus(p)
      <3>1. /\ pc'[p] \in {"verify_target", "verify_own", "exited"}
            /\ log' = log /\ cmd' = cmd /\ seen' = seen
        BY <2>8 DEF ReplaceStatus
      <3>2. \A n \in LockTargets(cmd[p]) : Freed(n, seen[p][n])
        BY <2>1, <2>8 DEF ReplaceStatus, RemovalOK
      <3> QED
        BY <3>1, <3>2 DEF RemovalOK, Freed
    <2>9. CASE VerifyTarget(p)
      <3>1. CASE Return(p, "error")
        BY <2>2, <3>1
      <3>2. CASE /\ lock[FirstLock(Found(p))] =
                      File(seen[p][FirstLock(Found(p))], TRUE)
                 /\ Goto(p, "remove_target")
        <4>1. /\ pc'[p] = "remove_target" /\ lock' = lock /\ log' = log
              /\ cmd' = cmd /\ seen' = seen
          BY <2>9, <3>2 DEF VerifyTarget, files
        <4>2. \A n \in LockTargets(cmd[p]) : Freed(n, seen[p][n])
          BY <2>1, <2>9 DEF VerifyTarget, RemovalOK
        <4>3. cmd[p] = "recover active-run" => FirstLock(Found(p)) = AW
          BY <2>9, FoundTargets, FirstOfOne DEF VerifyTarget, BodyPc
        <4>4. cmd[p] = "recover active-run" => lock[AW] = File(seen[p][AW], TRUE)
          BY <3>2, <4>3
        <4>5. \A n \in LockTargets(cmd[p]) : Freed(n, seen[p][n])'
          BY <4>1, <4>2 DEF Freed
        <4> QED
          BY <4>1, <4>4, <4>5 DEF RemovalOK, File
      <3> QED
        BY <2>9, <3>1, <3>2 DEF VerifyTarget
    <2>10. CASE RemoveTarget(p)
      <3>1. /\ Found(p) = LockTargets(cmd[p]) /\ cmd[p] # "recover all"
            /\ cmd[p] \in RecoverCommand
        BY <2>10, FoundTargets DEF RemoveTarget, BodyPc, SeenInv
      <3>2. Found(p) = {FirstLock(Found(p))}
        BY <3>1, FirstOfOne DEF LockTargets, RecoverCommand, LockName
      <3>3. PICK r : Return(p, r)
        BY <2>10, <3>2 DEF RemoveTarget
      <3> QED
        BY <2>2, <3>3
    <2>11. CASE VerifyOwn(p)
      <3>1. CASE Released(p, "unreleased")
        BY <2>2, <3>1
      <3>2. CASE /\ lock[LockOrder[held[p]]] = File(p, TRUE)
                 /\ Goto(p, "remove_own") /\ held' = held
        <4>1. pc'[p] = "remove_own" /\ lock' = lock
          BY <2>11, <3>2 DEF VerifyOwn, files
        <4>2. held[p] = 2 => LockOrder[held[p]] = AW
          BY LockOrderType DEF AW
        <4> QED
          BY <3>2, <4>1, <4>2 DEF RemovalOK
      <3> QED
        BY <2>11, <3>1, <3>2 DEF VerifyOwn
    <2>12. CASE RemoveOwn(p) \/ RemoveOwnFails(p) \/ Crash(p)
      BY <2>2, <2>12 DEF RemoveOwn, RemoveOwnFails, Crash
    <2>13. CASE LockAges(p)
      BY <2>1, <2>13 DEF LockAges, locals, RemovalOK, File, Freed
    <2> QED
      BY <2>3, <2>4, <2>5, <2>6, <2>7, <2>8, <2>9, <2>10, <2>11, <2>12, <2>13
         DEF ProcStep, Step, Fault
  <1> QED
    BY <1>3, <1>4 DEF RemovalInv

\* Whoever takes a lock file away created it, or recorded whose it was.
LEMMA UnlockedByOwner ==
  ASSUME LockInv, RemovalInv, NEW p \in Proc, ProcStep(p), NEW n \in LockName,
         lock[n] # NoFile, lock'[n] # lock[n],
         lock'[n] # File(lock[n].owner, TRUE)
  PROVE  pc'[lock[n].owner] # pc[lock[n].owner] \/ Freed(n, lock[n].owner)
  <1>1. LocalInv /\ TypeOK /\ RemovalOK(p) /\ lock[n].owner \in Proc
    BY DEF LockInv, LocalInv, RemovalInv, TypeOK, LockFile
  <1>2. CASE n = PW
    <2>1. CASE ProjectKept(p) \/ ProjectCreated(p)
      BY <1>2, <2>1 DEF ProjectKept, ProjectCreated
    <2>2. CASE ProjectLocked(p)
      <3>1. lock[PW] = File(p, FALSE) /\ lock'[PW] = File(p, TRUE)
        BY <2>2 DEF ProjectLocked, LockInv, HolderInv, PW
      <3> QED
        BY <1>2, <3>1, FileType
    <2>3. CASE ProjectGivenUp(p)
      <3>1. lock[PW] = File(p, FALSE) /\ pc'[p] # pc[p]
        BY <2>3 DEF ProjectGivenUp, LockInv, HolderInv, PW, Alive
      <3> QED
        BY <1>2, <3>1, FileType
    <2>4. CASE ProjectReleased(p)
      <3>1. lock[PW] = File(p, TRUE) /\ pc'[p] # pc[p]
        BY <2>4 DEF ProjectReleased, LockInv, HolderInv, PW, Alive
      <3> QED
        BY <1>2, <3>1, FileType
    <2>5. CASE ProjectRecovered(p)
      <3>1. /\ pc[p] \in BodyPc \ {"inspect"} /\ Alive(p)
            /\ PW \in LockTargets(cmd[p]) /\ PW \in LockName
        BY <2>5 DEF ProjectRecovered, BodyPc, Alive, LockTargets, LockName, PW
      <3>2. seen[p][PW] # NoProc
        BY <3>1 DEF LockInv, SeenInv
      <3>3. seen[p][PW] \in Proc
        BY <1>1, <3>1, <3>2 DEF TypeOK
      <3>4. lock[PW] = File(seen[p][PW], TRUE)
        BY <2>5, <3>1, <3>2 DEF ProjectRecovered, LockInv, RecoveryInv, PW
      <3>5. Freed(PW, seen[p][PW])
        BY <1>1, <2>5, <3>1 DEF ProjectRecovered, RemovalOK
      <3> QED
        BY <1>2, <3>3, <3>4, <3>5, FileType
    <2> QED
      BY <2>1, <2>2, <2>3, <2>4, <2>5, ProjectStep
  <1>3. CASE n = AW
    <2>1. CASE ActiveCreated(p)
      BY <1>3, <2>1 DEF ActiveCreated
    <2>2. CASE ActiveWritten(p)
      <3>1. lock[AW] = File(p, FALSE) /\ pc'[p] # pc[p]
        BY <2>2 DEF ActiveWritten
      <3> QED
        BY <1>3, <3>1, FileType
    <2>3. CASE ActiveReleased(p)
      <3>1. lock[AW] = File(p, TRUE) /\ pc'[p] # pc[p]
        BY <1>1, <2>3 DEF ActiveReleased, RemovalOK
      <3> QED
        BY <1>3, <3>1, FileType
    <2>4. CASE ActiveRecovered(p)
      <3>1. /\ pc[p] \in BodyPc \ {"inspect"}
            /\ AW \in LockTargets(cmd[p]) /\ AW \in LockName
        BY <2>4 DEF ActiveRecovered, BodyPc, LockTargets, LockName, AW
      <3>2. seen[p][AW] # NoProc
        BY <3>1 DEF LockInv, SeenInv
      <3>3. seen[p][AW] \in Proc
        BY <1>1, <3>1, <3>2 DEF TypeOK
      <3>4. lock[AW] = File(seen[p][AW], TRUE) /\ Freed(AW, seen[p][AW])
        BY <1>1, <2>4, <3>1 DEF ActiveRecovered, RemovalOK
      <3> QED
        BY <1>3, <3>3, <3>4, FileType
    <2> QED
      BY <1>3, <2>1, <2>2, <2>3, <2>4, ActiveStep DEF ActiveStepKind
  <1> QED
    BY <1>2, <1>3 DEF LockName, PW, AW

(***************************************************************************)
(* A lock file disappears only in a step of the process that created it,   *)
(* or after an event in the log that names it and that process: recovery   *)
(* never unlocks what it did not record.  Same discipline as               *)
(* MutualExclusion; without it, the next writer's lock is removed under    *)
(* the name of the last one's (run slow_writer).                           *)
(***************************************************************************)
THEOREM UnlocksAreRecorded == ASSUME Disciplined PROVE Spec => UnlockRecorded
  <1>1. Init => FullInv /\ RemovalInv
    <2>1. Init => RemovalInv
      BY DEF Init, RemovalInv, RemovalOK
    <2> QED
      BY <2>1, FullInvInit
  <1>2. FullInv /\ RemovalInv /\ [Next]_vars => (FullInv /\ RemovalInv)'
    <2> SUFFICES ASSUME FullInv, RemovalInv, [Next]_vars
                 PROVE  FullInv' /\ RemovalInv'
      OBVIOUS
    <2>1. FullInv'
      BY FullInvStep
    <2>2. CASE \E p \in Proc : ProcStep(p)
      BY <2>1, <2>2, RemovalStep
    <2>3. CASE UNCHANGED vars
      BY <2>1, <2>3 DEF vars, files, locals, RemovalInv, RemovalOK, Freed, File
    <2> QED
      BY <2>2, <2>3 DEF Next, ProcStep
  <1>3. FullInv /\ RemovalInv /\ [Next]_vars =>
          [\A n \in LockName :
             LET o == lock[n].owner
             IN  (lock[n] # NoFile /\ lock'[n] # lock[n]
                    /\ lock'[n] # File(o, TRUE))
                   => \/ pc'[o] # pc[o]
                      \/ \E i \in 1 .. Len(log) :
                           log[i].freed = n /\ log[i].owner = o]_lock
    <2> SUFFICES ASSUME FullInv, RemovalInv, [Next]_vars, lock' # lock,
                        NEW n \in LockName, lock[n] # NoFile,
                        lock'[n] # lock[n], lock'[n] # File(lock[n].owner, TRUE)
                 PROVE  \/ pc'[lock[n].owner] # pc[lock[n].owner]
                        \/ Freed(n, lock[n].owner)
      BY DEF Freed
    <2>1. PICK p \in Proc : ProcStep(p)
      BY DEF Next, ProcStep, vars, files
    <2> QED
      BY <2>1, UnlockedByOwner DEF FullInv
  <1> QED
    BY <1>1, <1>2, <1>3, PTL DEF Spec, UnlockRecorded

-----------------------------------------------------------------------------
(* Every command comes to its end *)

\* How many of the two locks are in a set.
Bit(b) == IF b THEN 1 ELSE 0
Targets(S) == Bit("active_run" \in S) + Bit("project_write" \in S)

\* An upper bound of the steps a command has left: h locks held, t targets to
\* inspect, f stale locks found.  Recovering a lock takes a round of its own.
StepsFrom(s, h, t, f) ==
  CASE s = "idle"          -> 100
    [] s = "create"        -> 85 - 2 * h
    [] s = "metadata"      -> 84 - 2 * h
    [] s = "inspect"       -> 14 + 20 * t + 10 * f
    [] s = "read_status"   -> 12 + 10 * f
    [] s = "scan_log"      -> 11 + 10 * f
    [] s = "before"        -> 10 + 10 * f
    [] s = "append"        -> 9 + 10 * f
    [] s = "after"         -> 8 + 10 * f
    [] s = "status"        -> 7 + 10 * f
    [] s = "verify_target" -> 6 + 10 * f
    [] s = "remove_target" -> 5 + 10 * f
    [] s = "verify_own"    -> 2 * h
    [] s = "remove_own"    -> 2 * h - 1
    [] OTHER               -> 0
StepsLeft(p) == StepsFrom(pc[p], held[p], Targets(todo[p]), Targets(Found(p)))

\* A recovery inspects a target it has not inspected yet, and removes a lock
\* it has found.
TargetOK(s, c, t, f) ==
  /\ t \subseteq LockTargets(c)
  /\ s \in {"create", "metadata"} => t = LockTargets(c)
  /\ s = "inspect" => t # {} /\ c \in RecoverCommand
  /\ c \in RecoverCommand /\ s \in BodyPc \ {"inspect"} => f # {}
  /\ s \in {"verify_target", "remove_target"} => c \in RecoverCommand
TargetInv == \A p \in Proc : TargetOK(pc[p], cmd[p], todo[p], Found(p))

\* Every step of a command, a failure or a kill too, leaves it fewer steps to
\* take, and no step of another process leaves it more: there is no wait, no
\* retry and no loop in lock.go and state.go but the ones that end.
EveryStepLeadsOn ==
  [][\A p \in Proc :
       /\ Start(p) \/ Step(p) \/ Fault(p) => StepsLeft(p)' < StepsLeft(p)
       /\ StepsLeft(p)' <= StepsLeft(p)]_vars

\* Targets counts: one less without a member, one more with a new one.
LEMMA TargetsValue ==
  ASSUME NEW S, NEW n \in LockName
  PROVE  /\ Targets(S) \in 0 .. 2
         /\ n \in S => Targets(S \ {n}) = Targets(S) - 1
         /\ n \notin S => Targets(S \cup {n}) = Targets(S) + 1
         /\ n \in S => Targets(S \cup {n}) = Targets(S)
  BY DEF Targets, Bit, LockName

\* The first of some locks is one of them.
LEMMA FirstLockIsOne ==
  ASSUME NEW S \in SUBSET LockName, S # {}
  PROVE  FirstLock(S) \in S
  BY DEF FirstLock, LockName

\* An inspection takes one target off the list; it finds it stale or not.
LEMMA InspectTargets ==
  ASSUME LocalInv, TargetInv, NEW p \in Proc, Inspect(p)
  PROVE  \/ pc'[p] = "exited" \/ (pc'[p] = "verify_own" /\ held[p] > 0)
         \/ \E n \in todo[p] :
              /\ todo'[p] = todo[p] \ {n}
              /\ \/ Found(p)' = Found(p) \cup {n}
                 \/ Found(p)' = Found(p)
              /\ pc'[p] = IF todo'[p] = {} THEN "read_status" ELSE "inspect"
              /\ todo'[p] = {} => Found(p)' # {}
  <1>1. TypeOK /\ todo[p] # {} /\ todo[p] \in SUBSET LockName
    BY DEF LocalInv, TypeOK, TargetInv, TargetOK, Inspect
  <1> DEFINE n == FirstLock(todo[p])
  <1>2. n \in todo[p] /\ n \in LockName
    BY <1>1, FirstLockIsOne
  <1> HIDE DEF n
  <1>3. CASE \E r : Return(p, r)
    BY <1>1, <1>3, ReturnValue
  <1>4. CASE /\ lock[n] # NoFile
             /\ seen' = [seen EXCEPT ![p][n] = lock[n].owner]
             /\ todo' = [todo EXCEPT ![p] = @ \ {n}]
             /\ Goto(p, IF todo'[p] = {} THEN "read_status" ELSE "inspect")
    <2>1. lock[n].owner \in Proc /\ lock[n].owner # NoProc
      BY <1>1, <1>2, <1>4, HelperStateAssumption DEF TypeOK, LockFile
    <2>2. seen'[p] = [seen[p] EXCEPT ![n] = lock[n].owner]
      BY <1>1, <1>4 DEF TypeOK
    <2>3. Found(p)' = Found(p) \cup {n}
      BY <1>1, <1>2, <2>1, <2>2 DEF Found, TypeOK
    <2>4. todo'[p] = todo[p] \ {n}
      BY <1>1, <1>4 DEF TypeOK
    <2> QED
      BY <1>1, <1>2, <1>4, <2>3, <2>4, GotoValue
  <1>5. CASE /\ todo' = [todo EXCEPT ![p] = @ \ {n}]
             /\ seen' = seen
             /\ Goto(p, IF todo'[p] # {} THEN "inspect" ELSE "read_status")
             /\ todo'[p] = {} => Found(p) # {}
    <2>1. todo'[p] = todo[p] \ {n}
      BY <1>1, <1>5 DEF TypeOK
    <2>2. Found(p)' = Found(p)
      BY <1>5 DEF Found
    <2> QED
      BY <1>1, <1>2, <1>5, <2>1, <2>2, GotoValue
  <1> QED
    BY <1>3, <1>4, <1>5 DEF Inspect, n

\* Removing a lock it found takes it off the locks found.
LEMMA RemoveTargets ==
  ASSUME LocalInv, TargetInv, NEW p \in Proc, RemoveTarget(p)
  PROVE  \/ pc'[p] = "exited" \/ (pc'[p] = "verify_own" /\ held[p] > 0)
         \/ \E n \in Found(p) :
              /\ Found(p)' = Found(p) \ {n}
              /\ Found(p)' # {}
              /\ pc'[p] = "read_status"
  <1>1. TypeOK /\ Found(p) # {} /\ Found(p) \in SUBSET LockName
    BY DEF LocalInv, TypeOK, TargetInv, TargetOK, RemoveTarget, Found, BodyPc
  <1> DEFINE n == FirstLock(Found(p))
  <1>2. n \in Found(p) /\ n \in LockName
    BY <1>1, FirstLockIsOne
  <1> HIDE DEF n
  <1>3. CASE \E r : Return(p, r)
    BY <1>1, <1>3, ReturnValue
  <1>4. CASE /\ seen' = [seen EXCEPT ![p][n] = NoProc]
             /\ Found(p) # {n}
             /\ Goto(p, "read_status")
    <2>1. seen'[p] = [seen[p] EXCEPT ![n] = NoProc]
      BY <1>1, <1>4 DEF TypeOK
    <2>2. Found(p)' = Found(p) \ {n}
      BY <1>1, <1>2, <2>1 DEF Found, TypeOK
    <2> QED
      BY <1>1, <1>2, <1>4, <2>2, GotoValue
  <1> QED
    BY <1>3, <1>4 DEF RemoveTarget, n

\* The bound, from the values it is made of.
StepsAfter(p) ==
  StepsFrom(pc'[p], held'[p], Targets(todo'[p]), Targets(Found(p)'))

\* Every step of a command brings it nearer to its end.
LEMMA LeadsOn ==
  ASSUME LocalInv, TargetInv, NEW p \in Proc,
         Start(p) \/ Step(p) \/ Fault(p)
  PROVE  StepsAfter(p) < StepsLeft(p)
  <1> DEFINE h == held[p]
             t == Targets(todo[p])
             f == Targets(Found(p))
             tt == Targets(todo'[p])
             ff == Targets(Found(p)')
  <1>1. TypeOK /\ HeldOK(pc[p], cmd[p], h)
    BY DEF LocalInv, HeldInv
  <1>2. h \in 0 .. 2 /\ t \in 0 .. 2 /\ f \in 0 .. 2
                     /\ tt \in 0 .. 2 /\ ff \in 0 .. 2
    BY <1>1, TargetsValue DEF TypeOK, LockName
  <1>3. seen' = seen => ff = f
    BY DEF Found
  <1>4. todo' = todo => tt = t
    OBVIOUS
  <1> HIDE DEF h, t, f, tt, ff
  <1>5. h = held[p] /\ StepsLeft(p) = StepsFrom(pc[p], h, t, f)
        /\ StepsAfter(p) = StepsFrom(pc'[p], held'[p], tt, ff)
    BY DEF h, t, f, tt, ff, StepsLeft, StepsAfter
  <1> USE <1>1, <1>2, <1>3, <1>4, <1>5, GotoValue, ReturnValue DEF StepsFrom
  <1>6. CASE Start(p)
    <2>1. PICK c : Goto(p, IF LocksNeeded(c) > 0 THEN "create" ELSE Body(c))
      BY <1>6 DEF Start
    <2>2. pc'[p] \in {"create", "inspect", "read_status"} /\ held' = held
      BY <1>6, <2>1 DEF Start, Body
    <2>3. pc[p] = "idle" /\ seen' = seen
      BY <1>6 DEF Start
    <2> QED
      BY <2>2, <2>3
  <1>7. CASE CreateLock(p)
    <2>1. pc[p] = "create" /\ held' = held /\ seen' = seen /\ todo' = todo
      BY <1>7 DEF CreateLock
    <2>2. CASE Goto(p, "metadata")
      BY <2>1, <2>2
    <2>3. CASE Return(p, "error")
      BY <2>1, <2>3
    <2> QED
      BY <1>7, <2>2, <2>3 DEF CreateLock
  <1>8. CASE WriteMetadata(p)
    <2>1. held'[p] = h + 1 /\ pc'[p] \in {"create", "inspect", "read_status"}
      BY <1>8 DEF WriteMetadata, TypeOK, Body
    <2>2. pc[p] = "metadata" /\ seen' = seen /\ todo' = todo
      BY <1>8 DEF WriteMetadata
    <2> QED
      BY <2>1, <2>2
  <1>9. CASE WriteMetadataFails(p) \/ SyncMetadataFails(p)
    <2>1. pc[p] = "metadata" /\ held' = held /\ seen' = seen /\ todo' = todo
      BY <1>9 DEF WriteMetadataFails, SyncMetadataFails
    <2>2. PICK r : Return(p, r)
      BY <1>9 DEF WriteMetadataFails, SyncMetadataFails
    <2> QED
      BY <2>1, <2>2
  <1>10. CASE ReadStatus(p) \/ ScanLog(p)
    BY <1>10 DEF ReadStatus, ScanLog
  <1>11. CASE BeforeAppend(p) \/ AppendEventLine(p) \/ AppendEventLineTorn(p)
    BY <1>11 DEF BeforeAppend, AppendEventLine, AppendEventLineTorn
  <1>12. CASE MutateStatus(p) \/ ReplaceStatus(p)
    BY <1>12 DEF MutateStatus, ReplaceStatus
  <1>13. CASE OperationFails(p)
    BY <1>13 DEF OperationFails
  <1>14. CASE Inspect(p)
    <2>1. pc[p] = "inspect" /\ held' = held /\ cmd' = cmd
      BY <1>14 DEF Inspect
    <2>2. CASE pc'[p] = "exited" \/ (pc'[p] = "verify_own" /\ held[p] > 0)
      BY <2>1, <2>2
    <2>3. CASE \E n \in todo[p] :
                 /\ todo'[p] = todo[p] \ {n}
                 /\ Found(p)' = Found(p) \cup {n} \/ Found(p)' = Found(p)
                 /\ pc'[p] = IF todo'[p] = {} THEN "read_status"
                             ELSE "inspect"
      <3>1. PICK n \in todo[p] :
                 /\ todo'[p] = todo[p] \ {n}
                 /\ Found(p)' = Found(p) \cup {n} \/ Found(p)' = Found(p)
                 /\ pc'[p] = IF todo'[p] = {} THEN "read_status"
                             ELSE "inspect"
        BY <2>3
      <3>2. n \in LockName
        BY DEF TypeOK
      <3>3. tt = t - 1
        BY <3>1, <3>2, TargetsValue DEF t, tt
      <3>4. Targets(Found(p) \cup {n}) \in {f, f + 1}
        BY <3>2, TargetsValue DEF f
      <3>5. ff \in {f, f + 1}
        BY <3>1, <3>4 DEF f, ff
      <3> QED
        BY <2>1, <3>1, <3>3, <3>5
    <2> QED
      BY <1>14, <2>2, <2>3, InspectTargets
  <1>15. CASE VerifyTarget(p)
    <2>1. /\ pc[p] = "verify_target"
          /\ held' = held /\ seen' = seen /\ todo' = todo
      BY <1>15 DEF VerifyTarget
    <2>2. CASE Goto(p, "remove_target")
      BY <2>1, <2>2
    <2>3. CASE Return(p, "error")
      BY <2>1, <2>3
    <2> QED
      BY <1>15, <2>2, <2>3 DEF VerifyTarget
  <1>16. CASE RemoveTarget(p)
    <2>1. pc[p] = "remove_target" /\ held' = held
      BY <1>16 DEF RemoveTarget
    <2>2. CASE pc'[p] = "exited" \/ (pc'[p] = "verify_own" /\ held[p] > 0)
      BY <2>1, <2>2
    <2>3. CASE \E n \in Found(p) :
                 /\ Found(p)' = Found(p) \ {n}
                 /\ pc'[p] = "read_status"
      <3>1. PICK n \in Found(p) :
                 /\ Found(p)' = Found(p) \ {n}
                 /\ pc'[p] = "read_status"
        BY <2>3
      <3>2. n \in LockName
        BY DEF Found
      <3>3. ff = f - 1
        BY <3>1, <3>2, TargetsValue DEF f, ff
      <3> QED
        BY <2>1, <3>1, <3>3
    <2> QED
      BY <1>16, <2>2, <2>3, RemoveTargets
  <1>17. CASE VerifyOwn(p)
    <2>1. pc[p] = "verify_own" /\ h > 0
      BY <1>17 DEF VerifyOwn, HeldOK
    <2>2. CASE Goto(p, "remove_own") /\ held' = held
      BY <2>1, <2>2
    <2>3. CASE Released(p, "unreleased")
      BY <2>1, <2>3, ReleasedValue
    <2> QED
      BY <1>17, <2>2, <2>3 DEF VerifyOwn
  <1>18. CASE RemoveOwn(p)
    <2>1. PICK r : Released(p, r)
      BY <1>18 DEF RemoveOwn
    <2> QED
      BY <1>18, <2>1, ReleasedValue DEF RemoveOwn, HeldOK
  <1>19. CASE RemoveOwnFails(p)
    BY <1>19, ReleasedValue DEF RemoveOwnFails, HeldOK
  <1>20. CASE Crash(p)
    <2>1. pc'[p] = "crashed"
      BY <1>20 DEF Crash
    <2>2. pc[p] \in PcValue \ {"idle", "exited", "crashed"}
      BY <1>20 DEF Crash, Alive, TypeOK
    <2>3. pc[p] \in {"verify_own", "remove_own"} => h > 0
      BY DEF HeldOK
    <2>4. StepsLeft(p) > 0
      BY <2>2, <2>3 DEF PcValue
    <2> QED
      BY <2>1, <2>4
  <1> QED
    BY <1>6, <1>7, <1>8, <1>9, <1>10, <1>11, <1>12, <1>13, <1>14, <1>15,
       <1>16, <1>17, <1>18, <1>19, <1>20 DEF Step, Fault

\* A step of one process leaves alone what another has left to do.
LEMMA TargetFrame ==
  ASSUME TypeOK, NEW p \in Proc, ProcStep(p), NEW q \in Proc \ {p}
  PROVE  /\ pc'[q] = pc[q] /\ held'[q] = held[q] /\ cmd'[q] = cmd[q]
         /\ todo'[q] = todo[q] /\ Found(q)' = Found(q)
  BY Frame DEF Same, Found

\* Every step keeps what a recovery knows of its targets.
LEMMA TargetStep ==
  ASSUME LocalInv, TargetInv, NEW p \in Proc, ProcStep(p)
  PROVE  TargetInv'
  <1>1. TypeOK /\ HeldOK(pc[p], cmd[p], held[p])
    BY DEF LocalInv, HeldInv
  <1>2. TargetOK(pc[p], cmd[p], todo[p], Found(p))
    BY DEF TargetInv
  <1>3. ASSUME NEW q \in Proc \ {p}
        PROVE  TargetOK(pc[q], cmd[q], todo[q], Found(q))'
    <2>1. TargetOK(pc[q], cmd[q], todo[q], Found(q))
      BY DEF TargetInv
    <2> QED
      BY <1>1, <1>3, <2>1, TargetFrame
  <1>4. TargetOK(pc'[p], cmd'[p], todo'[p], Found(p)')
    <2> USE <1>1, <1>2, GotoValue, ReturnValue DEF TargetOK, BodyPc
    <2>1. CASE Start(p)
      <3>1. PICK c \in Command :
              /\ cmd' = [cmd EXCEPT ![p] = c]
              /\ todo' = [todo EXCEPT ![p] = LockTargets(c)]
              /\ Goto(p, IF LocksNeeded(c) > 0 THEN "create" ELSE Body(c))
        BY <2>1, HelperStateAssumption DEF Start, Command, RecoverCommand
      <3>2. cmd'[p] = c /\ todo'[p] = LockTargets(c)
        BY <3>1 DEF TypeOK
      <3>3. pc'[p] \in {"create", "inspect"}
        BY <3>1, LocksNeededValue
           DEF Body, UnlockedCommand, RecoverCommand
      <3>4. pc'[p] = "inspect" => c \in RecoverCommand
        BY <3>1 DEF Body
      <3>5. c \in RecoverCommand => LockTargets(c) # {}
        BY DEF LockTargets, RecoverCommand, LockName
      <3> QED
        BY <3>2, <3>3, <3>4, <3>5
    <2>2. CASE WriteMetadata(p)
      <3>1. cmd'[p] = cmd[p] /\ todo'[p] = todo[p]
        BY <2>2 DEF WriteMetadata
      <3>2. pc'[p] \in {"create", "read_status", "inspect"}
        BY <2>2 DEF WriteMetadata, Body
      <3>3. pc'[p] = "inspect" => cmd[p] \in RecoverCommand
        BY <2>2 DEF WriteMetadata, Body
      <3>4. pc'[p] = "read_status" => cmd[p] \notin RecoverCommand
        BY <2>2 DEF WriteMetadata, Body
      <3>5. pc[p] = "metadata" /\ Found(p)' = Found(p)
        BY <2>2 DEF WriteMetadata, Found
      <3>6. cmd[p] \in RecoverCommand => LockTargets(cmd[p]) # {}
        BY DEF LockTargets, RecoverCommand, LockName
      <3> QED
        BY <3>1, <3>2, <3>3, <3>4, <3>5, <3>6
    <2>3. CASE Inspect(p)
      <3>1. cmd'[p] = cmd[p] /\ pc[p] = "inspect"
        BY <2>3 DEF Inspect
      <3>2. CASE pc'[p] \in {"exited", "verify_own"}
        <4>1. todo'[p] \subseteq todo[p]
          BY <2>3 DEF Inspect, TypeOK
        <4> QED
          BY <3>1, <3>2, <4>1
      <3>3. CASE /\ todo'[p] \subseteq todo[p]
                 /\ pc'[p] = IF todo'[p] = {} THEN "read_status"
                             ELSE "inspect"
                 /\ todo'[p] = {} => Found(p)' # {}
        BY <3>1, <3>3
      <3> QED
        BY <2>3, <3>2, <3>3, InspectTargets
    <2>4. CASE RemoveTarget(p)
      <3>1. cmd'[p] = cmd[p] /\ todo'[p] = todo[p]
        BY <2>4 DEF RemoveTarget
      <3>2. CASE pc'[p] \in {"exited", "verify_own"}
        BY <3>1, <3>2
      <3>3. CASE pc'[p] = "read_status" /\ Found(p)' # {}
        BY <3>1, <3>3
      <3> QED
        BY <2>4, <3>2, <3>3, RemoveTargets
    <2>5. CASE /\ cmd' = cmd /\ todo' = todo /\ seen' = seen
               /\ \/ /\ pc'[p] \in {"metadata", "verify_own", "remove_own",
                                    "exited", "crashed"}
                     /\ pc'[p] = "metadata" => pc[p] = "create"
                  \/ pc' = pc
                  \/ /\ pc[p] \in BodyPc \ {"inspect"}
                     /\ pc'[p] \in BodyPc \ {"inspect", "verify_target"}
                     /\ pc'[p] = "remove_target" => pc[p] = "verify_target"
                  \/ /\ pc[p] = "status" /\ cmd[p] \in RecoverCommand
                     /\ pc'[p] = "verify_target"
      <3>1. Found(p)' = Found(p) /\ cmd'[p] = cmd[p] /\ todo'[p] = todo[p]
        BY <2>5 DEF Found
      <3>2. CASE pc' = pc
        BY <3>1, <3>2
      <3>3. CASE /\ pc'[p] \in {"metadata", "verify_own", "remove_own",
                                "exited", "crashed"}
                 /\ pc'[p] = "metadata" => pc[p] = "create"
        BY <3>1, <3>3
      <3>4. CASE /\ pc[p] \in BodyPc \ {"inspect"}
                 /\ pc'[p] \in BodyPc \ {"inspect", "verify_target"}
                 /\ pc'[p] = "remove_target" => pc[p] = "verify_target"
        BY <3>1, <3>4
      <3>5. CASE /\ pc[p] = "status" /\ cmd[p] \in RecoverCommand
                 /\ pc'[p] = "verify_target"
        BY <3>1, <3>5
      <3> QED
        BY <2>5, <3>2, <3>3, <3>4, <3>5
    <2> HIDE DEF TargetOK
    <2>6. CASE CreateLock(p) \/ WriteMetadataFails(p) \/ SyncMetadataFails(p)
      BY <2>5, <2>6 DEF CreateLock, WriteMetadataFails, SyncMetadataFails
    <2>7. CASE ReadStatus(p) \/ ScanLog(p) \/ BeforeAppend(p)
      BY <2>5, <2>7 DEF ReadStatus, ScanLog, BeforeAppend
    <2>8. CASE AppendEventLine(p) \/ AppendEventLineTorn(p)
               \/ MutateStatus(p)
      BY <2>5, <2>8 DEF AppendEventLine, AppendEventLineTorn, MutateStatus
    <2>9. CASE ReplaceStatus(p)
      BY <2>5, <2>9 DEF ReplaceStatus
    <2>10. CASE OperationFails(p) \/ VerifyTarget(p)
      BY <2>5, <2>10 DEF OperationFails, VerifyTarget
    <2>11. CASE VerifyOwn(p)
      BY <2>5, <2>11, ReleasedValue DEF VerifyOwn
    <2>12. CASE RemoveOwn(p) \/ RemoveOwnFails(p)
      BY <2>5, <2>12, ReleasedValue DEF RemoveOwn, RemoveOwnFails
    <2>13. CASE Crash(p)
      BY <2>5, <2>13 DEF Crash, Alive
    <2>14. CASE LockAges(p)
      BY <2>5, <2>14 DEF LockAges, locals
    <2> QED
      BY <2>1, <2>2, <2>3, <2>4, <2>6, <2>7, <2>8, <2>9, <2>10, <2>11,
         <2>12, <2>13, <2>14 DEF ProcStep, Step, Fault
  <1> QED
    BY <1>3, <1>4 DEF TargetInv

\* The same holds of every step of the system.
LEMMA TargetInvStep ==
  ASSUME LocalInv, TargetInv, [Next]_vars
  PROVE  TargetInv'
  <1>1. CASE \E p \in Proc : ProcStep(p)
    BY <1>1, TargetStep
  <1>2. CASE UNCHANGED vars
    BY <1>2 DEF vars, locals, TargetInv, Found
  <1> QED
    BY <1>1, <1>2 DEF Next, ProcStep

\* Whoever holds a lock when it removes one has between 0 and 100 steps left.
LEMMA StepsType ==
  ASSUME NEW s, NEW h \in 0 .. 2, NEW T, NEW F, s = "remove_own" => h > 0
  PROVE  StepsFrom(s, h, Targets(T), Targets(F)) \in 0 .. 100
  <1>1. Targets(T) \in 0 .. 2 /\ Targets(F) \in 0 .. 2
    BY TargetsValue DEF LockName
  <1> DEFINE t == Targets(T)
             f == Targets(F)
  <1> HIDE DEF t, f
  <1>2. t \in 0 .. 2 /\ f \in 0 .. 2
    BY <1>1 DEF t, f
  <1>3. StepsFrom(s, h, t, f) \in 0 .. 100
    BY <1>2 DEF StepsFrom
  <1> QED
    BY <1>3 DEF t, f

\* No step of the system takes a command further away from its end.
LEMMA NeverFurther ==
  ASSUME LocalInv, TargetInv, [Next]_vars, NEW p \in Proc
  PROVE  /\ Start(p) \/ Step(p) \/ Fault(p) => StepsLeft(p)' < StepsLeft(p)
         /\ StepsLeft(p)' <= StepsLeft(p)
  <1>1. StepsLeft(p)' = StepsAfter(p)
    BY DEF StepsLeft, StepsAfter
  <1>2. StepsLeft(p) \in 0 .. 100
    BY StepsType DEF LocalInv, TypeOK, HeldInv, HeldOK, StepsLeft
  <1>3. StepsAfter(p) \in 0 .. 100
    <2>1. held'[p] \in 0 .. 2 /\ HeldOK(pc'[p], cmd'[p], held'[p])
      BY LocalInvStep DEF LocalInv, TypeOK, HeldInv
    <2> QED
      BY <2>1, StepsType DEF HeldOK, StepsAfter
  <1>4. Start(p) \/ Step(p) \/ Fault(p) => StepsAfter(p) < StepsLeft(p)
    BY LeadsOn
  <1>5. CASE \E q \in Proc \ {p} : ProcStep(q)
    <2>1. StepsAfter(p) = StepsLeft(p)
      BY <1>5, TargetFrame DEF StepsAfter, StepsLeft, LocalInv
    <2> QED
      BY <1>1, <1>2, <1>3, <1>4, <2>1
  <1>6. CASE UNCHANGED locals
    <2>1. StepsAfter(p) = StepsLeft(p)
      BY <1>6 DEF locals, StepsAfter, StepsLeft, Found
    <2> QED
      BY <1>1, <1>2, <1>3, <1>4, <2>1
  <1>7. CASE Start(p) \/ Step(p) \/ Fault(p)
    BY <1>1, <1>2, <1>3, <1>4, <1>7
  <1> QED
    BY <1>5, <1>6, <1>7 DEF Next, ProcStep, LockAges, vars

(***************************************************************************)
(* No command waits for another or goes round in circles: whatever the     *)
(* other processes do, each step of its own, failures and kills included,  *)
(* brings a command nearer to its end, and no step of another takes it     *)
(* further away.  A command has at most 100 steps (lock.go, state.go).     *)
(***************************************************************************)
THEOREM StepsAreBounded ==
  Spec => EveryStepLeadsOn /\ [](\A p \in Proc : StepsLeft(p) \in 0 .. 100)
  <1>1. Init => TargetInv
    BY DEF Init, TargetInv, TargetOK, BodyPc, Found, RecoverCommand
  <1>2. LocalInv /\ TargetInv /\ [Next]_vars =>
          [\A p \in Proc :
             /\ Start(p) \/ Step(p) \/ Fault(p)
                  => StepsLeft(p)' < StepsLeft(p)
             /\ StepsLeft(p)' <= StepsLeft(p)]_vars
    BY NeverFurther
  <1>3. LocalInv => \A p \in Proc : StepsLeft(p) \in 0 .. 100
    BY StepsType DEF LocalInv, TypeOK, HeldInv, HeldOK, StepsLeft
  <1> QED
    BY <1>1, <1>2, <1>3, LocalInvInit, LocalInvStep, TargetInvStep, PTL
       DEF Spec, EveryStepLeadsOn

=============================================================================
