-------------------------- MODULE GjcSessionProofs --------------------------
(***************************************************************************)
(* Proofs about GjcSession, for any packets, plans, callback keys and any  *)
(* bounds: types, the order of callbacks, what may make the ledger         *)
(* unreadable, and that the event log and status.json implement            *)
(* EventLedger.                                                            *)
(***************************************************************************)
EXTENDS GjcSession, SequenceTheorems, TLAPS

OpType == [kind : {"start", "callback", "lock", "attach"}, status : StatusType]
LineType ==
  [by : {"helper", "user"}, type : EventTypes, hash : Hash, source : Hash]
EventOpType == [kind : {"event"}, line : HandLine]

\* Which command stands before which write.
OpInv ==
  /\ step = "idle" => op = NoOp
  /\ step # "idle" =>
       op \in OpType \/ (op \in EventOpType /\ step \in {"append", "status"})
  /\ step # "idle" /\ op.kind = "callback" =>
     op.status.callback \in CallbackType
  /\ step \in {"brief", "session", "run", "receipt"} => op.kind = "start"
  /\ step \in {"snapshot", "evidence"} => op.kind = "attach"
  /\ step \in {"brief", "session", "run"} => Len(made) < MaxStatus
  /\ step = "append" /\ op.kind # "event" => ledger \in StatusType

TypeInv ==
  /\ file \in [Path -> Content \cup {None}]
  /\ session \in {"absent", "valid", "damaged"}
  /\ kat \in KatType \cup {None}
  /\ snapshot \in SnapshotType \cup {None}
  /\ ledger \in StatusType \cup {None}
  /\ made \in Seq(StatusType) /\ Len(made) <= MaxStatus
  /\ log \in Seq(LineType)
  /\ last \in 1 .. MaxEventId
  /\ OpInv
  /\ step \in {"idle", "brief", "session", "run", "receipt",
               "snapshot", "evidence", "ledger", "append", "status"}
  /\ drift \in {"none", "edited", "stopped", "reattached"}
  /\ edits \in 0 .. MaxEdits
  /\ last <= Len(log) /\ Len(log) <= MaxEventId
  /\ step = "append" => Len(log) < MaxEventId

LEMMA Constants ==
  /\ MaxStatus \in Nat /\ MaxEdits \in Nat /\ MaxEventId \in Nat \ {0}
  /\ None \notin Content
  /\ \A c \in Command : Produces[c] \subseteq Content
  /\ HandLine \subseteq LineType /\ \A line \in HandLine : line.by = "user"
<1>1. HandLine \subseteq [by : {"user"}, type : EventTypes, hash : Hash,
                          source : Hash]
  BY GjcSessionAssumption DEF Hash
<1> QED
  BY <1>1, GjcSessionAssumption DEF LineType

LEMMA Paths ==
  /\ Path = {"packet", "brief", "receipt", "interview", "plan", "goals"}
  /\ \A c \in Command : Output[c] \in {"interview", "plan", "goals"}
  /\ Output["ralplan"] = "plan"
BY DEF Path, Output, Command

LEMMA BeginKeepsTypes ==
  ASSUME TypeInv, NEW first, NEW o, Begin(first, o), o \in OpType,
         UNCHANGED <<evidence, ledger, made, log, last, edits>>,
         drift' \in {"none", drift},
         o.kind = "callback" => o.status.callback \in CallbackType,
         \/ first \in {"brief", "session"} /\ o.kind = "start"
            /\ Len(made) < MaxStatus
         \/ first = "snapshot" /\ o.kind = "attach"
         \/ first = "ledger"
  PROVE  TypeInv'
BY DEF TypeInv, OpInv, Begin, evidence

\* A ledger is written under a hash it shares, or under a new one.
LEMMA WrittenLedger ==
  ASSUME TypeInv, WriteLedger
  PROVE  /\ \E h \in 1 .. Len(made') :
              /\ h \in Hash
              /\ ledger' = [op.status EXCEPT !.hash = h]
              /\ made'[h] = Hashless(op.status)
         /\ \/ made' = made
            \/ made' = Append(made, Hashless(op.status))
               /\ ledger'.hash = Len(made') /\ Len(made') = Len(made) + 1
         /\ ledger' \in StatusType
         /\ made' \in Seq(StatusType) /\ Len(made') <= MaxStatus
<1> USE Constants
<1>1. op \in OpType /\ op.status \in StatusType
  BY DEF WriteLedger, TypeInv, OpInv, OpType
<1>2. \A h \in Hash : [op.status EXCEPT !.hash = h] \in StatusType
                     /\ [op.status EXCEPT !.hash = h].hash = h
  BY <1>1 DEF StatusType
<1>3. Hashless(op.status) \in StatusType
  BY <1>2 DEF Hashless, Hash
<1>4. made \in Seq(StatusType) /\ Len(made) \in Nat /\ Len(made) <= MaxStatus
  BY DEF TypeInv
<1>5. CASE made' = made
  <2>1. PICK h \in 1 .. Len(made) : /\ made[h] = Hashless(op.status)
                                   /\ ledger' = [op.status EXCEPT !.hash = h]
    BY <1>4, <1>5, <1>3 DEF WriteLedger
  <2>2. h \in Hash
    BY <1>4 DEF Hash
  <2> QED
    BY <1>2, <1>4, <1>5, <2>1, <2>2
<1>6. CASE /\ Len(made) < MaxStatus
           /\ made' = Append(made, Hashless(op.status))
           /\ ledger' = [op.status EXCEPT !.hash = Len(made')]
  <2> DEFINE h == Len(made) + 1
  <2>1. /\ Len(made') = h /\ h \in Hash /\ h \in 1 .. Len(made')
        /\ made'[h] = Hashless(op.status) /\ made' \in Seq(StatusType)
    BY <1>3, <1>4, <1>6 DEF Hash
  <2>2. /\ ledger' = [op.status EXCEPT !.hash = h]
        /\ made' = Append(made, Hashless(op.status))
    BY <1>6, <2>1
  <2>3. ledger' \in StatusType /\ ledger'.hash = h
    BY <1>2, <2>1, <2>2
  <2>4. \E g \in 1 .. Len(made') :
          /\ g \in Hash
          /\ ledger' = [op.status EXCEPT !.hash = g]
          /\ made'[g] = Hashless(op.status)
    BY <2>1, <2>2
  <2>5. Len(made') = Len(made) + 1 /\ Len(made') <= MaxStatus
    BY <1>4, <1>6, <2>1 DEF h
  <2> QED
    BY <2>1, <2>2, <2>3, <2>4, <2>5
<1> QED
  BY <1>5, <1>6 DEF WriteLedger

LEMMA ProducedKeepsTypes ==
  ASSUME TypeInv, NEW command \in Command, NEW process \in {"ready", "blocked"},
         Produced(command, process)
  PROVE  TypeInv'
<1>1. PICK c \in Content :
        /\ file' = [file EXCEPT ![Output[command]] = c]
        /\ op' = [op EXCEPT !.status.output = c, !.status.process = process,
                            !.status.pid = NewPid]
  BY Constants DEF Produced
<1>2. op \in OpType /\ op.kind = "start"
  BY DEF Produced, TypeInv, OpInv
<1>3. op' \in OpType /\ op'.kind = "start"
  <2>1. NewPid \in Hash
    BY <1>2, Constants DEF Produced, TypeInv, OpInv, Hash, NewPid
  <2> QED
    BY <1>1, <1>2, <2>1 DEF OpType, StatusType
<1>4. file' \in [Path -> Content \cup {None}]
  BY <1>1 DEF TypeInv
<1>5. OpInv'
  BY <1>3 DEF Produced, OpInv
<1> QED
  BY <1>4, <1>5 DEF Produced, TypeInv

LEMMA TypesHold == Spec => []TypeInv
<1> USE Constants
<1>1. Init => TypeInv
  <2> SUFFICES ASSUME Init PROVE TypeInv
    OBVIOUS
  <2>1. log \in Seq(LineType) /\ Len(log) = 1
    BY DEF Init, LineType, EventTypes, Event, Hash
  <2>3. made \in Seq(StatusType) /\ Len(made) = 0
    BY DEF Init
  <2>2. file \in [Path -> Content \cup {None}]
    BY DEF Init
  <2> QED
    BY <2>1, <2>2, <2>3 DEF Init, TypeInv, OpInv, Hash
<1>2. TypeInv /\ [Next]_vars => TypeInv'
  <2> SUFFICES ASSUME TypeInv, [Next]_vars PROVE TypeInv'
    OBVIOUS
  <2>1. ASSUME NEW c \in Command, StartGJC(c)
        PROVE  TypeInv'
    <3> DEFINE packet == file["packet"]
               s == Status(c, "failed", packet,
                           IF c = "ultragoal" THEN packet ELSE None, None)
               first == IF c = "ultragoal" THEN "brief" ELSE "session"
    <3>1. /\ Begin(first, [kind |-> "start", status |-> s])
          /\ packet # None /\ drift' = "none" /\ Len(made) < MaxStatus
          /\ UNCHANGED <<evidence, ledger, made, log, last, edits>>
      BY <2>1 DEF StartGJC
    <3>2. packet \in Content
      BY <3>1, Paths DEF TypeInv
    <3>3. s \in StatusType
      BY <3>2, Constants DEF Status, StatusType, Hash
    <3>4. [kind |-> "start", status |-> s] \in OpType
      BY <3>3 DEF OpType
    <3> QED
      BY <3>1, <3>4, BeginKeepsTypes
  <2>2. ASSUME NEW m \in Callback, RecordGJCCallback(m)
        PROVE  TypeInv'
    <3> DEFINE o == [kind |-> "callback",
                     status |-> [ledger EXCEPT !.callback = m]]
    <3>1. ledger \in StatusType /\ m \in CallbackType
      BY <2>2, Constants DEF RecordGJCCallback, StatusShown, TypeInv,
         Callback, CallbackType, Hash
    <3>2. o \in OpType /\ o.status.callback = m
      BY <3>1 DEF OpType, StatusType
    <3>3. Begin("ledger", o)
      BY <2>2 DEF RecordGJCCallback
    <3> HIDE DEF o
    <3> QED
      BY <2>2, <3>1, <3>2, <3>3, BeginKeepsTypes DEF RecordGJCCallback
  <2>3. ASSUME NEW c \in Content, LockGJCPlan(c)
        PROVE  TypeInv'
    <3> DEFINE o == [kind |-> "lock",
                     status |-> [ledger EXCEPT !.accepted = c]]
    <3>1. ledger \in StatusType
      BY <2>3 DEF LockGJCPlan, StatusShown, TypeInv
    <3>2. o \in OpType
      BY <3>1 DEF OpType, StatusType
    <3> QED
      BY <2>3, <3>2, BeginKeepsTypes DEF LockGJCPlan
  <2>4. CASE AttachGJCKATEvidence
    <3> DEFINE o == [kind |-> "attach", status |-> ledger]
    <3>1. o \in OpType
      BY <2>4 DEF AttachGJCKATEvidence, StatusShown, TypeInv, OpType
    <3> QED
      BY <2>4, <3>1, BeginKeepsTypes DEF AttachGJCKATEvidence
  <2>5. CASE WriteBrief
    <3>1. op \in OpType
      BY <2>5 DEF WriteBrief, TypeInv, OpInv
    <3>2. file' \in [Path -> Content \cup {None}]
      BY <2>5, <3>1 DEF WriteBrief, TypeInv, OpType, StatusType
    <3> QED
      BY <2>5, <3>2 DEF WriteBrief, TypeInv, OpInv
  <2>6. CASE LoadOrCreateSession
    BY <2>6 DEF LoadOrCreateSession, TypeInv, OpInv
  <2>7. CASE RunFails
    <3>1. op \in OpType /\ op.kind = "start" /\ NewPid \in Hash
      BY <2>7 DEF RunFails, TypeInv, OpInv, NewPid, Hash
    <3>2. op' \in OpType /\ op'.kind = "start"
      BY <2>7, <3>1 DEF RunFails, OpType, StatusType
    <3> QED
      BY <2>7, <3>2 DEF RunFails, TypeInv, OpInv, evidence
  <2>21. CASE GJCMissing
    BY <2>21 DEF GJCMissing, TypeInv, OpInv, evidence
  <2>22. CASE AppendEvent
    <3>1. PICK line \in HandLine :
            op' = [kind |-> "event", line |-> line] /\ step' = "append"
      BY <2>22 DEF AppendEvent, Begin
    <3>2. op' \in EventOpType /\ op'.kind = "event"
      BY <3>1 DEF EventOpType
    <3> QED
      BY <2>22, <3>1, <3>2
         DEF AppendEvent, MayAppend, Coherent, TypeInv, OpInv, evidence
  <2>8. ASSUME NEW c \in Command, NEW p \in {"ready", "blocked"}, Produced(c, p)
        PROVE  TypeInv'
    BY <2>8, ProducedKeepsTypes
  <2>9. CASE RefuseReceipt
    <3>1. op \in OpType
      BY <2>9 DEF RefuseReceipt, TypeInv, OpInv
    <3>2. op' \in OpType /\ op'.kind = op.kind
      BY <2>9, <3>1 DEF RefuseReceipt, Failed, OpType, StatusType
    <3>3. op.kind = "start"
      BY <2>9 DEF RefuseReceipt, TypeInv, OpInv
    <3> QED
      BY <2>9, <3>2, <3>3 DEF RefuseReceipt, TypeInv, OpInv, evidence
  <2>10. CASE WriteReceipt
    <3>1. op \in OpType
      BY <2>10 DEF WriteReceipt, TypeInv, OpInv
    <3>2. file' \in [Path -> Content \cup {None}]
      BY <2>10, <3>1 DEF WriteReceipt, TypeInv, OpType, StatusType
    <3> QED
      BY <2>10, <3>2 DEF WriteReceipt, TypeInv, OpInv
  <2>11. CASE WriteSourceStatusSnapshot
    <3>1. op \in OpType
      BY <2>11 DEF WriteSourceStatusSnapshot, TypeInv, OpInv
    <3>2. snapshot' \in SnapshotType
      BY <2>11, <3>1 DEF WriteSourceStatusSnapshot, Snapshot, SnapshotType,
         OpType, StatusType
    <3> QED
      BY <2>11, <3>2 DEF WriteSourceStatusSnapshot, TypeInv, OpInv
  <2>12. CASE AttachEvidence
    <3> DEFINE k == [report |-> kat, snapshot |-> Snapshot(op.status),
                     source |-> op.status.hash]
    <3>1. op \in OpType /\ kat \in KatType
      BY <2>12 DEF AttachEvidence, TypeInv, OpInv, KatIsFactual
    <3>2. k \in KatRefType
      BY <3>1 DEF KatRefType, Snapshot, SnapshotType, OpType, StatusType
    <3>3. op' = [op EXCEPT !.status.kat = k]
      BY <2>12 DEF AttachEvidence
    <3> HIDE DEF k
    <3>4. op' \in OpType
      BY <3>1, <3>2, <3>3 DEF OpType, StatusType
    <3> QED
      BY <2>12, <3>4 DEF AttachEvidence, TypeInv, OpInv, evidence
  <2>13. CASE RefuseEvidence
    BY <2>13 DEF RefuseEvidence, TypeInv, OpInv, evidence
  <2>14. CASE WriteLedger
    <3>1. op \in OpType
      BY <2>14 DEF WriteLedger, TypeInv, OpInv
    <3>2. ledger' \in StatusType /\ made' \in Seq(StatusType)
          /\ Len(made') <= MaxStatus
      BY <2>14, <3>1, WrittenLedger
    <3>3. Len(log) < MaxEventId /\ step' = "append"
      BY <2>14 DEF WriteLedger, MayAppend, Coherent, TypeInv
    <3>4. OpInv'
      BY <2>14, <3>1, <3>2, <3>3 DEF WriteLedger, TypeInv, OpInv
    <3> QED
      BY <2>14, <3>2, <3>3, <3>4 DEF WriteLedger, TypeInv, evidence
  <2>15. CASE AppendLine
    <3> DEFINE e == IF op.kind = "event" THEN op.line
                    ELSE Event("helper", EventType(op), ledger.hash,
                           IF op.kind = "callback"
                           THEN op.status.callback.source ELSE 0)
    <3>1. e \in LineType
      <4>1. CASE op \in EventOpType
        BY <4>1 DEF EventOpType
      <4>2. CASE op \in OpType
        <5>1. ledger.hash \in Hash /\ 0 \in Hash
          BY <2>15, <4>2 DEF AppendLine, TypeInv, OpInv, StatusType, Hash,
             OpType
        <5>2. op.kind = "callback" => op.status.callback.source \in Hash
          BY <2>15 DEF AppendLine, TypeInv, OpInv, CallbackType
        <5>3. EventType(op) \in EventTypes /\ op.kind # "event"
          BY <4>2 DEF EventType, EventTypes, OpType
        <5> QED
          BY <5>1, <5>2, <5>3 DEF LineType, Event
      <4> QED
        BY <2>15, <4>1, <4>2 DEF AppendLine, TypeInv, OpInv
    <3>2. log' = Append(log, e)
      BY <2>15 DEF AppendLine
    <3> HIDE DEF e
    <3>3. log' \in Seq(LineType) /\ Len(log') = Len(log) + 1
      BY <3>1, <3>2 DEF TypeInv
    <3> QED
      BY <2>15, <3>3 DEF AppendLine, TypeInv, OpInv, evidence
  <2>16. CASE ReplaceStatus
    BY <2>16 DEF ReplaceStatus, TypeInv, OpInv, evidence
  <2>17. CASE Stop
    BY <2>17 DEF Stop, TypeInv, OpInv, evidence
  <2>18. CASE EditFile
    <3>1. file' \in [Path -> Content \cup {None}]
      BY <2>18 DEF EditFile, TypeInv
    <3>2. edits' \in 0 .. MaxEdits /\ drift' \in {"edited", drift}
      BY <2>18 DEF EditFile, Edited, TypeInv
    <3> QED
      BY <2>18, <3>1, <3>2 DEF EditFile, Edited, TypeInv, OpInv
  <2>19. CASE RunKAT
    <3>1. kat' \in KatType
      <4>1. 0 \in Hash /\ (ledger # None => ledger.hash \in Hash)
        BY Constants DEF TypeInv, StatusType, Hash
      <4> QED
        BY <2>19, <4>1 DEF RunKAT, KatType
    <3>2. edits' \in 0 .. MaxEdits /\ drift' \in {"edited", drift}
      BY <2>19 DEF RunKAT, Edited, TypeInv
    <3> QED
      BY <2>19, <3>1, <3>2 DEF RunKAT, Edited, TypeInv, OpInv
  <2>20. CASE UNCHANGED vars
    BY <2>20 DEF vars, evidence, TypeInv, OpInv
  <2> QED
    BY <2>1, <2>2, <2>3, <2>4, <2>5, <2>6, <2>7, <2>8, <2>9, <2>10, <2>11,
       <2>12, <2>13, <2>14, <2>15, <2>16, <2>17, <2>18, <2>19, <2>20, <2>21,
       <2>22
       DEF Next, RunGJC, CopyNativePlan, CopyNativeGoals, Command
<1> QED
  BY <1>1, <1>2, PTL DEF Spec

\* Every variable of a session stays within its type: no hash and no event
\* id beyond its bound, and no status without all of its fields.
THEOREM TypeCorrect == Spec => []TypeOK
<1>1. TypeInv => TypeOK
  <2> SUFFICES ASSUME TypeInv PROVE TypeOK
    OBVIOUS
  <2>1. op.kind \notin {"none", "event"} => op.status \in StatusType
    BY DEF TypeInv, OpInv, OpType, EventOpType, NoOp
  <2>2. \A i \in 1 .. Len(log) : log[i] \in LineType
    BY DEF TypeInv
  <2>3. \A h \in 1 .. Len(made) : made[h] \in StatusType
    BY DEF TypeInv
  <2>4. Len(made) \in Hash
    BY Constants DEF TypeInv, Hash
  <2> QED
    BY <2>1, <2>2, <2>3, <2>4 DEF TypeInv, TypeOK, LineType
<1> QED
  BY <1>1, TypesHold, PTL

-----------------------------------------------------------------------------
-----------------------------------------------------------------------------
(***************************************************************************)
(* Hashes and processes: the hash of the ledger is that of what is in it;  *)
(* a callback answers an earlier ledger; a start in flight has a process   *)
(* of its own or none, and any other command keeps that of the ledger.     *)
(***************************************************************************)
HashInv ==
  /\ \A h \in 1 .. Len(made) :
       /\ made[h].pid <= h
       /\ made[h].callback # None => made[h].callback.source < h
  /\ ledger \in StatusType =>
       ledger.hash \in 1 .. Len(made) /\ made[ledger.hash] = Hashless(ledger)
  /\ step \in {"brief", "session", "run", "receipt", "ledger"}
       /\ op.kind = "start" =>
         op.status.pid \in {0, Len(made) + 1} /\ op.status.callback = None
  /\ step \in {"snapshot", "evidence", "ledger"} /\ op.kind # "start" =>
       /\ ledger \in StatusType /\ op.status.pid = ledger.pid
       /\ op.kind # "callback" => op.status.callback = ledger.callback
       /\ op.kind = "callback" => op.status.callback.source = ledger.hash
  /\ step = "append" /\ op.kind = "callback" =>
       /\ op.status.callback = ledger.callback
       /\ ledger.callback.source \in 1 .. Len(made)
       /\ made[ledger.callback.source].pid = ledger.pid

\* The process whose status a line records, and whose status it answers.
PidOf(ledgers, line) == ledgers[line.hash].pid
SourcePid(ledgers, line) == ledgers[line.source].pid

(***************************************************************************)
(* The events of a process follow one another, and their callbacks answer  *)
(* one ledger each; those of the ledger's own process are the last ones,   *)
(* and answer ledgers up to the one its last callback does.                *)
(***************************************************************************)
LineInv ==
  /\ \A i \in 1 .. Len(log) : IsGJC(log[i]) => log[i].hash \in 1 .. Len(made)
  /\ \A j \in 1 .. Len(log) : IsCallback(log[j]) =>
       log[j].source \in 1 .. Len(made)
       /\ SourcePid(made, log[j]) = PidOf(made, log[j])
  /\ \A i, k, j \in 1 .. Len(log) :
       /\ i <= k /\ k <= j /\ IsGJC(log[i]) /\ IsGJC(log[k]) /\ IsGJC(log[j])
       /\ PidOf(made, log[i]) = PidOf(made, log[j]) /\ PidOf(made, log[i]) # 0
       => PidOf(made, log[k]) = PidOf(made, log[i])
  /\ \A i, j \in 1 .. Len(log) :
       /\ i < j /\ IsCallback(log[i]) /\ IsCallback(log[j])
       /\ SourcePid(made, log[i]) = SourcePid(made, log[j])
          /\ SourcePid(made, log[i]) # 0
       => log[i].source # log[j].source
LastInv ==
  ledger \in StatusType /\ ledger.pid # 0 =>
    /\ \A i, k \in 1 .. Len(log) :
         i <= k /\ IsGJC(log[i]) /\ IsGJC(log[k])
         /\ PidOf(made, log[i]) = ledger.pid =>
           PidOf(made, log[k]) = ledger.pid
    /\ \A j \in 1 .. Len(log) : IsCallback(log[j])
                                /\ SourcePid(made, log[j]) = ledger.pid =>
         /\ ledger.callback # None
         /\ log[j].source <= ledger.callback.source
         /\ step = "append" /\ op.kind = "callback" =>
              log[j].source < ledger.callback.source

LEMMA StatusNumbers ==
  ASSUME NEW s \in StatusType
  PROVE  /\ s.pid \in Nat /\ s.hash \in Nat
         /\ s.callback # None => s.callback.source \in Nat
<1>1. s.pid \in Hash /\ s.hash \in Hash
      /\ s.callback \in CallbackType \cup {None}
  BY DEF StatusType
<1>2. \A m \in CallbackType : m.source \in Hash
  BY DEF CallbackType
<1>3. Hash \subseteq Nat
  BY Constants DEF Hash
<1> QED
  BY <1>1, <1>2, <1>3

LEMMA MadeHere ==
  ASSUME TypeInv
  PROVE  /\ made \in Seq(StatusType) /\ Len(made) \in Nat
         /\ log \in Seq(LineType) /\ Len(log) \in Nat
         /\ \A h \in 1 .. Len(made) : made[h] \in StatusType
BY DEF TypeInv

\* What is forgotten for the hash is the hash only.
LEMMA HashlessKeeps ==
  ASSUME NEW s \in StatusType
  PROVE  /\ Hashless(s).pid = s.pid /\ Hashless(s).callback = s.callback
         /\ \A h : /\ Hashless([s EXCEPT !.hash = h]) = Hashless(s)
                   /\ [s EXCEPT !.hash = h].pid = s.pid
                   /\ [s EXCEPT !.hash = h].callback = s.callback
                   /\ [s EXCEPT !.hash = h].hash = h
BY DEF Hashless, StatusType

\* What the step that writes the ledger leaves, in the terms of HashInv.
LEMMA LedgerStep ==
  ASSUME TypeInv, HashInv, WriteLedger
  PROVE  /\ Len(made) <= Len(made') /\ Len(made') \in Nat
         /\ \A h \in 1 .. Len(made) : h \in 1 .. Len(made')
                                      /\ made'[h] = made[h]
         /\ HashInv'
         /\ ledger' \in StatusType
         /\ ledger'.pid = op.status.pid
         /\ ledger'.callback = op.status.callback
         /\ op.kind = "start" /\ ledger'.pid # 0 =>
              \A h \in 1 .. Len(made) : made[h].pid # ledger'.pid
<1>0. /\ made \in Seq(StatusType) /\ Len(made) \in Nat
      /\ \A h \in 1 .. Len(made) : made[h] \in StatusType
      /\ op \in OpType /\ op.status \in StatusType
  BY MadeHere DEF WriteLedger, TypeInv, OpInv, OpType
<1>1. PICK h \in 1 .. Len(made') :
        /\ ledger' = [op.status EXCEPT !.hash = h]
        /\ made'[h] = Hashless(op.status)
  BY WrittenLedger
<1>2. /\ ledger' \in StatusType /\ made' \in Seq(StatusType)
      /\ ledger'.pid = op.status.pid /\ ledger'.callback = op.status.callback
      /\ ledger'.hash = h /\ made'[h] = Hashless(ledger')
  BY <1>0, <1>1, HashlessKeeps, WrittenLedger
<1>3. /\ Len(made) <= Len(made') /\ Len(made') \in Nat
      /\ \A g \in 1 .. Len(made) : g \in 1 .. Len(made') /\ made'[g] = made[g]
      /\ made' = made \/ /\ Len(made') = Len(made) + 1
                         /\ made'[Len(made')] = Hashless(op.status)
  <2>1. CASE made' = made
    BY <1>0, <2>1
  <2>2. CASE made' = Append(made, Hashless(op.status))
    BY <1>0, <1>2, <2>2
  <2> QED
    BY <2>1, <2>2, WrittenLedger
<1>4. /\ op.status.pid \in Nat
      /\ op.status.callback # None => op.status.callback.source \in Nat
      /\ ledger \in StatusType => ledger.pid \in Nat /\ ledger.hash \in Nat
      /\ \A g \in 1 .. Len(made) : made[g].pid \in Nat
  BY <1>0, StatusNumbers
<1>5. ASSUME op.kind # "start"
      PROVE  /\ ledger \in StatusType /\ op.status.pid = ledger.pid
             /\ ledger.hash \in 1 .. Len(made)
                /\ made[ledger.hash].pid = ledger.pid
             /\ op.kind = "callback" => op.status.callback.source = ledger.hash
             /\ op.kind # "callback" =>
                  /\ op.status.callback = ledger.callback
                  /\ made[ledger.hash].callback = ledger.callback
  BY <1>5, HashlessKeeps DEF HashInv, WriteLedger
<1>6. op.kind = "start" =>
        op.status.pid \in {0, Len(made) + 1} /\ op.status.callback = None
  BY DEF HashInv, WriteLedger
<1>7. /\ op.status.pid <= Len(made) + 1
      /\ op.status.callback # None => op.status.callback.source < Len(made) + 1
  <2>1. CASE op.kind = "start"
    BY <1>0, <1>6, <2>1
  <2>2. CASE op.kind # "start"
    <3>1. /\ made[ledger.hash].pid <= ledger.hash
          /\ made[ledger.hash].callback # None =>
               made[ledger.hash].callback.source < ledger.hash
      BY <1>5, <2>2 DEF HashInv
    <3> QED
      BY <1>0, <1>4, <1>5, <2>2, <3>1
  <2> QED
    BY <2>1, <2>2
<1>8. \A g \in 1 .. Len(made') :
        /\ made'[g].pid <= g
        /\ made'[g].callback # None => made'[g].callback.source < g
  <2>1. /\ Hashless(op.status).pid = op.status.pid
        /\ Hashless(op.status).callback = op.status.callback
    BY <1>0, HashlessKeeps
  <2>2. \A g \in 1 .. Len(made) :
          /\ made'[g].pid <= g
          /\ made'[g].callback # None => made'[g].callback.source < g
    BY <1>3 DEF HashInv
  <2>3. CASE made' = made
    BY <2>2, <2>3
  <2>4. CASE Len(made') = Len(made) + 1
             /\ made'[Len(made')] = Hashless(op.status)
    <3>1. 1 .. Len(made') = 1 .. Len(made) \cup {Len(made')}
      BY <1>0, <2>4
    <3>2. /\ made'[Len(made')].pid <= Len(made')
          /\ made'[Len(made')].callback # None =>
               made'[Len(made')].callback.source < Len(made')
      BY <1>7, <2>1, <2>4
    <3> QED
      BY <2>2, <3>1, <3>2
  <2> QED
    BY <1>3, <2>3, <2>4
<1>9. HashInv'
  <2>1. step' = "append" /\ op' = op
    BY DEF WriteLedger
  <2>2. ASSUME op.kind = "callback"
        PROVE  /\ op.status.callback = ledger'.callback
               /\ ledger'.callback.source \in 1 .. Len(made')
               /\ made'[ledger'.callback.source].pid = ledger'.pid
    BY <1>2, <1>3, <1>5, <2>2
  <2> QED
    BY <1>1, <1>2, <1>8, <2>1, <2>2 DEF HashInv
<1>10. op.kind = "start" /\ ledger'.pid # 0 =>
         \A g \in 1 .. Len(made) : made[g].pid # ledger'.pid
  BY <1>0, <1>2, <1>4, <1>6 DEF HashInv
<1> QED
  BY <1>2, <1>3, <1>9, <1>10

\* A callback is not None, which is in no type of what a status refers to.
LEMMA NoCallback ==
  ASSUME NEW m \in CallbackType
  PROVE  m # None
BY GjcSessionAssumption

\* The step that writes the ledger keeps what is known of the events.
LEMMA LinesKeepHashes ==
  ASSUME TypeInv, HashInv, LineInv, LastInv, WriteLedger
  PROVE  LineInv' /\ LastInv'
<1>0. /\ made \in Seq(StatusType) /\ Len(made) \in Nat /\ Len(log) \in Nat
      /\ log' = log /\ op' = op /\ step = "ledger" /\ step' = "append"
  BY MadeHere DEF WriteLedger
<1>1. /\ Len(made) <= Len(made') /\ Len(made') \in Nat
      /\ \A h \in 1 .. Len(made) : h \in 1 .. Len(made') /\ made'[h] = made[h]
      /\ ledger' \in StatusType
      /\ ledger'.pid = op.status.pid /\ ledger'.callback = op.status.callback
      /\ op.kind = "start" /\ ledger'.pid # 0 =>
           \A h \in 1 .. Len(made) : made[h].pid # ledger'.pid
  BY LedgerStep
<1>2. /\ \A i \in 1 .. Len(log) : /\ IsGJC(log'[i]) <=> IsGJC(log[i])
                                  /\ IsCallback(log'[i]) <=> IsCallback(log[i])
                                  /\ IsCallback(log[i]) => IsGJC(log[i])
      /\ \A i \in 1 .. Len(log) : IsGJC(log[i]) =>
           log[i].hash \in 1 .. Len(made)
           /\ PidOf(made', log'[i]) = PidOf(made, log[i])
      /\ \A i \in 1 .. Len(log) : IsCallback(log[i]) =>
           log[i].source \in 1 .. Len(made)
           /\ SourcePid(made', log'[i]) = SourcePid(made, log[i])
  BY <1>0, <1>1 DEF LineInv, IsGJC, IsCallback, PidOf, SourcePid
<1>3. LineInv'
  BY <1>0, <1>1, <1>2 DEF LineInv
<1>4. CASE op.kind = "start"
  <2>1. ASSUME ledger'.pid # 0
        PROVE  /\ \A i \in 1 .. Len(log) : IsGJC(log[i]) =>
                    PidOf(made', log[i]) # ledger'.pid
               /\ \A i \in 1 .. Len(log) : IsCallback(log[i]) =>
                    SourcePid(made', log[i]) # ledger'.pid
    BY <1>0, <1>1, <1>2, <1>4, <2>1 DEF PidOf, SourcePid
  <2> QED
    BY <1>0, <1>3, <2>1 DEF LastInv, PidOf, SourcePid
<1>5. CASE op.kind # "start"
  <2>1. /\ ledger \in StatusType /\ op.status.pid = ledger.pid
        /\ op.kind # "callback" => op.status.callback = ledger.callback
        /\ op.kind = "callback" => op.status.callback.source = ledger.hash
        /\ op.kind = "callback" => op.status.callback # None
        /\ ledger.hash \in 1 .. Len(made)
        /\ ledger.callback # None => ledger.callback.source < ledger.hash
    <3>1. /\ ledger \in StatusType /\ op.status.pid = ledger.pid
          /\ op.kind # "callback" => op.status.callback = ledger.callback
          /\ op.kind = "callback" => op.status.callback.source = ledger.hash
          /\ ledger.hash \in 1 .. Len(made)
          /\ made[ledger.hash] = Hashless(ledger)
      BY <1>0, <1>5 DEF HashInv
    <3>2. ledger.callback # None => ledger.callback.source < ledger.hash
      BY <3>1, HashlessKeeps DEF HashInv
    <3>3. op.kind = "callback" => op.status.callback # None
      BY <1>0, NoCallback DEF TypeInv, OpInv
    <3> QED
      BY <3>1, <3>2, <3>3
  <2>2. \A j \in 1 .. Len(log) : IsCallback(log[j]) => log[j].source \in Nat
    BY <1>2
  <2>3. ledger.hash \in Nat
        /\ ledger.callback # None => ledger.callback.source \in Nat
    BY <2>1, StatusNumbers
  <2>4. ASSUME ledger.pid # 0, NEW j \in 1 .. Len(log), IsCallback(log[j]),
               SourcePid(made, log[j]) = ledger.pid
        PROVE  /\ ledger'.callback # None
               /\ log[j].source <= ledger'.callback.source
               /\ op.kind = "callback" =>
                  log[j].source < ledger'.callback.source
    <3>1. ledger.callback # None /\ log[j].source <= ledger.callback.source
      BY <2>1, <2>4 DEF LastInv
    <3> QED
      BY <1>1, <2>1, <2>2, <2>3, <2>4, <3>1
  <2>5. ledger'.pid = ledger.pid
    BY <1>1, <2>1
  <2>6. ASSUME ledger.pid # 0, NEW i \in 1 .. Len(log), NEW k \in 1 .. Len(log),
               i <= k, IsGJC(log[i]), IsGJC(log[k]),
               PidOf(made', log[i]) = ledger.pid
        PROVE  PidOf(made', log[k]) = ledger.pid
    <3>1. PidOf(made, log[i]) = ledger.pid
      BY <1>0, <1>2, <2>6
    <3>2. PidOf(made, log[k]) = ledger.pid
      BY <2>1, <2>6, <3>1 DEF LastInv
    <3> QED
      BY <1>0, <1>2, <2>6, <3>2
  <2>7. ASSUME ledger.pid # 0, NEW j \in 1 .. Len(log), IsCallback(log[j]),
               SourcePid(made', log[j]) = ledger.pid
        PROVE  /\ ledger'.callback # None
               /\ log[j].source <= ledger'.callback.source
               /\ op.kind = "callback" =>
                  log[j].source < ledger'.callback.source
    BY <1>0, <1>2, <2>4, <2>7
  <2> QED
    BY <1>0, <1>3, <2>5, <2>6, <2>7 DEF LastInv, PidOf, SourcePid
<1> QED
  BY <1>3, <1>4, <1>5

\* The new line is of the ledger's process, and after all others of it.
LEMMA LineStep ==
  ASSUME TypeInv, HashInv, LineInv, LastInv, AppendLine
  PROVE  LineInv' /\ LastInv'
<1>0. /\ made \in Seq(StatusType) /\ Len(made) \in Nat /\ Len(log) \in Nat
      /\ log \in Seq(LineType)
      /\ UNCHANGED <<ledger, made, op>> /\ step = "append" /\ step' = "status"
  BY MadeHere DEF AppendLine
<1> DEFINE e == IF op.kind = "event" THEN op.line
                ELSE Event("helper", EventType(op), ledger.hash,
                       IF op.kind = "callback"
                       THEN op.status.callback.source ELSE 0)
<1>n. PICK n \in Nat : n = Len(log) + 1
  BY <1>0
<1>1. /\ log' = Append(log, e) /\ n \in Nat
      /\ Len(log') = n /\ log'[n] = e /\ 1 .. n = 1 .. Len(log) \cup {n}
      /\ \A i \in 1 .. Len(log) : log'[i] = log[i] /\ i < n
  BY <1>0, <1>n DEF AppendLine
<1>2. /\ \A i \in 1 .. Len(log) :
           /\ IsGJC(log'[i]) <=> IsGJC(log[i])
           /\ IsCallback(log'[i]) <=> IsCallback(log[i])
           /\ IsCallback(log[i]) => IsGJC(log[i])
           /\ PidOf(made', log'[i]) = PidOf(made, log[i])
           /\ SourcePid(made', log'[i]) = SourcePid(made, log[i])
      /\ IsCallback(log'[n]) => IsGJC(log'[n])
  BY <1>0, <1>1 DEF IsGJC, IsCallback, PidOf, SourcePid
<1>3. ASSUME IsGJC(log'[n])
      PROVE  /\ ledger \in StatusType /\ op.kind # "event"
             /\ e.hash = ledger.hash /\ ledger.hash \in 1 .. Len(made)
             /\ PidOf(made', log'[n]) = ledger.pid
  <2>1. op.kind # "event"
    BY <1>0, <1>1, <1>3, Constants DEF IsGJC, TypeInv, OpInv, EventOpType,
       OpType, NoOp
  <2>2. ledger \in StatusType
    BY <1>0, <2>1 DEF TypeInv, OpInv
  <2>3. /\ ledger.hash \in 1 .. Len(made) /\ made[ledger.hash].pid = ledger.pid
    BY <2>2, HashlessKeeps DEF HashInv
  <2>4. e.hash = ledger.hash
    BY <2>1 DEF Event
  <2> QED
    BY <1>0, <1>1, <2>1, <2>2, <2>3, <2>4 DEF PidOf
<1>4. ASSUME IsCallback(log'[n])
      PROVE  /\ op.kind = "callback" /\ e.source = ledger.callback.source
             /\ e.source \in 1 .. Len(made)
                /\ SourcePid(made', log'[n]) = ledger.pid
             /\ ledger.callback # None
  <2>1. op.kind # "event"
    BY <1>2, <1>3, <1>4
  <2>2. op.kind = "callback"
    BY <1>0, <1>1, <1>4, <2>1
       DEF IsCallback, Event, EventType, TypeInv, OpInv, OpType, EventOpType
  <2>3. e.source = op.status.callback.source
    BY <2>2 DEF Event
  <2>4. ledger.callback # None
    BY <1>0, <2>2, NoCallback DEF HashInv, TypeInv, OpInv
  <2> QED
    BY <1>0, <1>1, <2>2, <2>3, <2>4 DEF HashInv, SourcePid
<1> HIDE DEF e
<1>5. \A i \in 1 .. Len(log) : IsGJC(log[i]) => PidOf(made, log[i]) \in Nat
  BY <1>0, MadeHere, StatusNumbers DEF LineInv, PidOf
<1>6. \A i \in 1 .. n : IsGJC(log'[i]) => log'[i].hash \in 1 .. Len(made')
  BY <1>0, <1>1, <1>2, <1>3 DEF LineInv
<1>7. \A j \in 1 .. n : IsCallback(log'[j]) =>
        log'[j].source \in 1 .. Len(made')
        /\ SourcePid(made', log'[j]) = PidOf(made', log'[j])
  BY <1>0, <1>1, <1>2, <1>3, <1>4 DEF LineInv
<1>8. ASSUME NEW i \in 1 .. n, NEW k \in 1 .. n, NEW j \in 1 .. n,
             i <= k, k <= j, IsGJC(log'[i]), IsGJC(log'[k]), IsGJC(log'[j]),
             PidOf(made', log'[i]) = PidOf(made', log'[j]),
             PidOf(made', log'[i]) # 0
      PROVE  PidOf(made', log'[k]) = PidOf(made', log'[i])
  <2>1. CASE j # n
    <3>1. i \in 1 .. Len(log) /\ k \in 1 .. Len(log) /\ j \in 1 .. Len(log)
      BY <1>0, <1>1, <1>8, <2>1
    <3> QED
      BY <1>2, <1>8, <3>1 DEF LineInv
  <2>2. CASE j = n /\ i # n /\ k # n
    <3>1. i \in 1 .. Len(log) /\ k \in 1 .. Len(log)
      BY <1>0, <1>1, <2>2
    <3>2. ledger \in StatusType /\ PidOf(made, log[i]) = ledger.pid
          /\ ledger.pid # 0
      BY <1>2, <1>3, <1>8, <2>2, <3>1
    <3> QED
      BY <1>2, <1>8, <3>1, <3>2 DEF LastInv
  <2>3. CASE j = n /\ (i = n \/ k = n)
    <3>1. i = n => k = n
      BY <1>0, <1>1, <1>8
    <3> QED
      BY <1>8, <2>3, <3>1
  <2> QED
    BY <2>1, <2>2, <2>3
<1>9. ASSUME NEW i \in 1 .. n, NEW j \in 1 .. n, i < j,
             IsCallback(log'[i]), IsCallback(log'[j]),
             SourcePid(made', log'[i]) = SourcePid(made', log'[j]),
             SourcePid(made', log'[i]) # 0
      PROVE  log'[i].source # log'[j].source
  <2>0. i \in 1 .. Len(log)
    BY <1>0, <1>1, <1>9
  <2>1. CASE j # n
    <3>1. j \in 1 .. Len(log)
      BY <1>1, <2>1
    <3> QED
      BY <1>1, <1>2, <1>9, <2>0, <3>1 DEF LineInv
  <2>2. CASE j = n
    <3>1. /\ ledger \in StatusType /\ SourcePid(made, log[i]) = ledger.pid
          /\ ledger.pid # 0 /\ op.kind = "callback"
      BY <1>2, <1>3, <1>4, <1>9, <2>0, <2>2
    <3>2. log[i].source < ledger.callback.source /\ log[i].source \in Nat
      BY <1>0, <1>2, <1>9, <2>0, <3>1 DEF LastInv, LineInv
    <3> QED
      BY <1>1, <1>4, <1>9, <2>0, <2>2, <3>2
  <2> QED
    BY <2>1, <2>2
<1>10. LineInv'
  <2>1. \A i, k, j \in 1 .. n :
          /\ i <= k /\ k <= j
          /\ IsGJC(log'[i]) /\ IsGJC(log'[k]) /\ IsGJC(log'[j])
          /\ PidOf(made', log'[i]) = PidOf(made', log'[j])
          /\ PidOf(made', log'[i]) # 0
          => PidOf(made', log'[k]) = PidOf(made', log'[i])
    BY <1>8
  <2>2. \A i, j \in 1 .. n :
          /\ i < j /\ IsCallback(log'[i]) /\ IsCallback(log'[j])
          /\ SourcePid(made', log'[i]) = SourcePid(made', log'[j])
          /\ SourcePid(made', log'[i]) # 0
          => log'[i].source # log'[j].source
    BY <1>9
  <2>3. n = Len(log')
    BY <1>1
  <2> QED
    BY <1>6, <1>7, <2>1, <2>2, <2>3, Zenon DEF LineInv
<1>11. LastInv'
  <2> SUFFICES ASSUME ledger \in StatusType, ledger.pid # 0
               PROVE  /\ \A i, k \in 1 .. n :
                           i <= k /\ IsGJC(log'[i]) /\ IsGJC(log'[k])
                             /\ PidOf(made', log'[i]) = ledger.pid =>
                               PidOf(made', log'[k]) = ledger.pid
                      /\ \A j \in 1 .. n :
                           IsCallback(log'[j])
                           /\ SourcePid(made', log'[j]) = ledger.pid =>
                             /\ ledger.callback # None
                             /\ log'[j].source <= ledger.callback.source
    BY <1>0, <1>1 DEF LastInv
  <2>1. \A i, k \in 1 .. n :
          i <= k /\ IsGJC(log'[i]) /\ IsGJC(log'[k])
          /\ PidOf(made', log'[i]) = ledger.pid =>
            PidOf(made', log'[k]) = ledger.pid
    <3> SUFFICES ASSUME NEW i \in 1 .. n, NEW k \in 1 .. n, k # n, i <= k,
                        IsGJC(log'[i]), IsGJC(log'[k]),
                        PidOf(made', log'[i]) = ledger.pid
                 PROVE  PidOf(made', log'[k]) = ledger.pid
      BY <1>3
    <3>1. i \in 1 .. Len(log) /\ k \in 1 .. Len(log)
      BY <1>0, <1>1
    <3> QED
      BY <1>2, <3>1 DEF LastInv
  <2>2. ASSUME NEW j \in 1 .. n, IsCallback(log'[j]),
               SourcePid(made', log'[j]) = ledger.pid
        PROVE  /\ ledger.callback # None
               /\ log'[j].source <= ledger.callback.source
    <3>1. CASE j = n
      BY <1>1, <1>4, <2>2, <3>1
    <3>2. CASE j # n
      <4>1. j \in 1 .. Len(log)
        BY <1>1, <3>2
      <4> QED
        BY <1>1, <1>2, <2>2, <4>1 DEF LastInv
    <3> QED
      BY <3>1, <3>2
  <2> QED
    BY <2>1, <2>2
<1> QED
  BY <1>10, <1>11

LEMMA OrderHolds == Spec => [](HashInv /\ LineInv /\ LastInv)
<1>1. Init => HashInv /\ LineInv /\ LastInv
  <2> SUFFICES ASSUME Init PROVE HashInv /\ LineInv /\ LastInv
    OBVIOUS
  <2>1. /\ ledger = None /\ Len(made) = 0 /\ step = "idle" /\ op = NoOp
        /\ Len(log) = 1 /\ ~IsGJC(log[1]) /\ ~IsCallback(log[1])
    BY DEF Init, Event, IsGJC, IsCallback
  <2>2. None \notin StatusType
    BY GjcSessionAssumption
  <2> QED
    BY <2>1, <2>2 DEF HashInv, LineInv, LastInv
<1>2. TypeInv /\ HashInv /\ LineInv /\ LastInv /\ [Next]_vars
        => (HashInv /\ LineInv /\ LastInv)'
  <2> SUFFICES ASSUME TypeInv, HashInv, LineInv, LastInv, [Next]_vars
               PROVE  HashInv' /\ LineInv' /\ LastInv'
    OBVIOUS
  <2>0. ASSUME UNCHANGED <<made, ledger, log>>,
               step' # "append" \/ op'.kind = "event"
        PROVE  LineInv' /\ LastInv'
    BY <2>0 DEF LineInv, LastInv
  <2>1. ASSUME NEW c \in Command, StartGJC(c)
        PROVE  HashInv' /\ LineInv' /\ LastInv'
    <3> DEFINE s == Status(c, "failed", file["packet"],
                      IF c = "ultragoal" THEN file["packet"] ELSE None, None)
    <3>1. /\ op' = [kind |-> "start", status |-> s]
          /\ step' \in {"brief", "session"}
          /\ UNCHANGED <<made, ledger, log>>
      BY <2>1 DEF StartGJC, Begin
    <3>2. s.pid = 0 /\ s.callback = None
      BY DEF Status
    <3> HIDE DEF s
    <3> QED
      BY <2>0, <3>1, <3>2 DEF HashInv
  <2>2. ASSUME NEW m \in Callback, RecordGJCCallback(m)
        PROVE  HashInv' /\ LineInv' /\ LastInv'
    <3> DEFINE s == [ledger EXCEPT !.callback = m]
    <3>1. ledger \in StatusType /\ m.source = ledger.hash
      BY <2>2 DEF RecordGJCCallback, StatusShown, Accepts, TypeInv
    <3>2. s.callback = m /\ s.pid = ledger.pid
      BY <3>1 DEF StatusType
    <3>3. /\ step' = "ledger" /\ op' = [kind |-> "callback", status |-> s]
          /\ UNCHANGED <<made, ledger, log>>
      BY <2>2 DEF RecordGJCCallback, Begin
    <3> HIDE DEF s
    <3> QED
      BY <2>0, <3>1, <3>2, <3>3 DEF HashInv
  <2>3. ASSUME NEW c \in Content, LockGJCPlan(c)
        PROVE  HashInv' /\ LineInv' /\ LastInv'
    <3> DEFINE s == [ledger EXCEPT !.accepted = c]
    <3>1. ledger \in StatusType
      BY <2>3 DEF LockGJCPlan, StatusShown, TypeInv
    <3>2. s.callback = ledger.callback /\ s.pid = ledger.pid
      BY <3>1 DEF StatusType
    <3>3. /\ step' = "ledger" /\ op' = [kind |-> "lock", status |-> s]
          /\ UNCHANGED <<made, ledger, log>>
      BY <2>3 DEF LockGJCPlan, Begin
    <3> HIDE DEF s
    <3> QED
      BY <2>0, <3>1, <3>2, <3>3 DEF HashInv
  <2>4. CASE AttachGJCKATEvidence
    <3>1. ledger \in StatusType
      BY <2>4 DEF AttachGJCKATEvidence, StatusShown, TypeInv
    <3>2. /\ step' = "snapshot" /\ op' = [kind |-> "attach", status |-> ledger]
          /\ UNCHANGED <<made, ledger, log>>
      BY <2>4 DEF AttachGJCKATEvidence, Begin
    <3> QED
      BY <2>0, <3>1, <3>2 DEF HashInv
  <2>5. CASE WriteBrief
    BY <2>0, <2>5 DEF WriteBrief, HashInv
  <2>6. CASE LoadOrCreateSession
    BY <2>0, <2>6 DEF LoadOrCreateSession, HashInv
  <2>7. CASE RunFails
    <3>1. op \in OpType /\ op.kind = "start"
      BY <2>7 DEF RunFails, TypeInv, OpInv
    <3>2. /\ op'.kind = "start" /\ op'.status.pid = Len(made) + 1
          /\ op'.status.callback = op.status.callback
      BY <2>7, <3>1 DEF RunFails, OpType, StatusType, NewPid
    <3> QED
      BY <2>0, <2>7, <3>1, <3>2 DEF RunFails, HashInv
  <2>8. ASSUME NEW c \in Command, NEW p \in {"ready", "blocked"}, Produced(c, p)
        PROVE  HashInv' /\ LineInv' /\ LastInv'
    <3>1. op \in OpType /\ op.kind = "start"
      BY <2>8 DEF Produced, TypeInv, OpInv
    <3>2. PICK d \in Content :
            op' = [op EXCEPT !.status.output = d, !.status.process = p,
                             !.status.pid = Len(made) + 1]
      BY <2>8, Constants DEF Produced, NewPid
    <3>3. /\ op'.kind = "start" /\ op'.status.pid = Len(made) + 1
          /\ op'.status.callback = op.status.callback
      BY <3>1, <3>2 DEF OpType, StatusType
    <3> QED
      BY <2>0, <2>8, <3>1, <3>3 DEF Produced, HashInv
  <2>9. CASE RefuseReceipt
    <3>1. op \in OpType /\ op.kind = "start"
      BY <2>9 DEF RefuseReceipt, TypeInv, OpInv
    <3>2. /\ op'.kind = "start" /\ op'.status.pid = op.status.pid
          /\ op'.status.callback = op.status.callback
      BY <2>9, <3>1 DEF RefuseReceipt, Failed, OpType, StatusType
    <3> QED
      BY <2>0, <2>9, <3>1, <3>2 DEF RefuseReceipt, HashInv
  <2>10. CASE WriteReceipt
    BY <2>0, <2>10 DEF WriteReceipt, HashInv, TypeInv, OpInv
  <2>11. CASE WriteSourceStatusSnapshot
    BY <2>0, <2>11 DEF WriteSourceStatusSnapshot, HashInv
  <2>12. CASE AttachEvidence
    <3> DEFINE k == [report |-> kat, snapshot |-> Snapshot(op.status),
                     source |-> op.status.hash]
    <3>1. op \in OpType /\ op.kind = "attach"
      BY <2>12 DEF AttachEvidence, TypeInv, OpInv
    <3>2. op' = [op EXCEPT !.status.kat = k]
      BY <2>12 DEF AttachEvidence
    <3> HIDE DEF k
    <3>3. /\ op'.kind = "attach" /\ op'.status.pid = op.status.pid
          /\ op'.status.callback = op.status.callback
      BY <3>1, <3>2 DEF OpType, StatusType
    <3> QED
      BY <2>0, <2>12, <3>1, <3>3 DEF AttachEvidence, HashInv
  <2>13. CASE RefuseEvidence
    BY <2>0, <2>13 DEF RefuseEvidence, HashInv
  <2>14. CASE WriteLedger
    BY <2>14, LedgerStep, LinesKeepHashes
  <2>15. CASE AppendLine
    BY <2>15, LineStep DEF AppendLine, HashInv
  <2>16. CASE ReplaceStatus
    BY <2>0, <2>16 DEF ReplaceStatus, HashInv
  <2>17. CASE Stop
    BY <2>0, <2>17 DEF Stop, HashInv
  <2>18. CASE EditFile
    BY <2>18 DEF EditFile, Edited, HashInv, LineInv, LastInv
  <2>19. CASE RunKAT
    BY <2>19 DEF RunKAT, Edited, HashInv, LineInv, LastInv
  <2>20. CASE UNCHANGED vars
    BY <2>20 DEF vars, HashInv, LineInv, LastInv
  <2>21. CASE GJCMissing
    BY <2>0, <2>21 DEF GJCMissing, HashInv, TypeInv, OpInv
  <2>22. CASE AppendEvent
    <3>1. op'.kind = "event" /\ step' = "append"
      BY <2>22 DEF AppendEvent, Begin
    <3> QED
      BY <2>0, <2>22, <3>1 DEF AppendEvent, HashInv
  <2> QED
    BY <2>1, <2>2, <2>3, <2>4, <2>5, <2>6, <2>7, <2>8, <2>9, <2>10, <2>11,
       <2>12, <2>13, <2>14, <2>15, <2>16, <2>17, <2>18, <2>19, <2>20, <2>21,
       <2>22
       DEF Next, RunGJC, CopyNativePlan, CopyNativeGoals, Command
<1> QED
  BY <1>1, <1>2, TypesHold, PTL DEF Spec

\* However late and often callbacks arrive, and although two ledgers of one
\* second may share a hash: a status of a gjc that was started is answered by
\* at most one event, and by none once the session has moved on.
THEOREM CallbacksAnswerOnce == Spec => []CallbacksAreInOrder
<1>1. TypeInv /\ LineInv => CallbacksAreInOrder
  <2> SUFFICES ASSUME TypeInv, LineInv,
                      NEW p \in 1 .. Len(made), NEW j \in 1 .. Len(log),
                      Answers(log[j], p), NEW i \in 1 .. j - 1
               PROVE  /\ Answers(log[i], p) => log[i].source # log[j].source
                      /\ Records(log[i], p) =>
                           \A k \in i .. j : IsGJC(log[k]) => Records(log[k], p)
    BY DEF CallbacksAreInOrder
  <2>1. /\ i \in 1 .. Len(log) /\ i < j /\ p # 0
        /\ \A k \in i .. j : k \in 1 .. Len(log) /\ i <= k /\ k <= j
    BY DEF TypeInv
  <2>2. /\ IsCallback(log[j]) /\ SourcePid(made, log[j]) = p
        /\ IsGJC(log[j]) /\ PidOf(made, log[j]) = p
    BY DEF LineInv, Answers, SourcePid, IsCallback, IsGJC
  <2>3. Answers(log[i], p) => log[i].source # log[j].source
    BY <2>1, <2>2 DEF LineInv, Answers, SourcePid
  <2>4. ASSUME Records(log[i], p), NEW k \in i .. j, IsGJC(log[k])
        PROVE  Records(log[k], p)
    <3>1. PidOf(made, log[i]) = p /\ IsGJC(log[i])
      BY <2>4 DEF Records, PidOf
    <3>2. PidOf(made, log[k]) = p
      BY <2>1, <2>2, <2>4, <3>1 DEF LineInv
    <3> QED
      BY <2>4, <3>2 DEF Records, PidOf
  <2> QED
    BY <2>3, <2>4
<1> QED
  BY <1>1, TypesHold, OrderHolds, PTL

-----------------------------------------------------------------------------
(***************************************************************************)
(* Readability: while nothing drifted, the ledger agrees with its files    *)
(* except during a start, and the status in flight will.                   *)
(***************************************************************************)

\* Readable, of any state of the files a ledger refers to.
ReadableIn(files, sess, report, snap, s) ==
  /\ sess = "valid"
  /\ files["packet"] = s.packet
  /\ s.brief # None => files["brief"] = s.brief
  /\ HasPlan(s) /\ s.accepted # None => files["plan"] = s.accepted
  /\ s.output # None =>
       files["receipt"] = s.output /\ files[Output[s.command]] = s.output
  /\ s.kat # None =>
       /\ snap = s.kat.snapshot /\ snap # None
       /\ ~snap.kat /\ snap.hash = s.kat.source
       /\ report = s.kat.report
       /\ KatIsFactual(report)
       /\ KatSawStatus(report, s.kat.source)

LEMMA ReadableHere ==
  ASSUME NEW s
  PROVE  Readable(s) <=> ReadableIn(file, session, kat, snapshot, s)
BY DEF Readable, ReadableIn, PacketHolds, BriefHolds, LockHolds, OutputHolds,
       KatHolds, SnapshotHolds

\* What a start has established before its ledger is written.
StartInv ==
  /\ op.status.accepted = None /\ op.status.kat = None
  /\ PacketHolds(op.status)
  /\ step # "brief" => BriefHolds(op.status)
  /\ step \in {"run", "receipt", "ledger"} => session = "valid"
  /\ step \in {"brief", "session", "run"} => op.status.output = None
  /\ step = "ledger" => OutputHolds(op.status)

DriftInv ==
  drift = "none" =>
    /\ op.kind # "start" \/ step \in {"append", "status"} =>
         (ledger # None => ReadableIn(file, session, kat, snapshot, ledger))
    /\ op.kind = "start" /\ step \notin {"idle", "append", "status"} => StartInv
    /\ step = "ledger" /\ op.kind # "start" =>
         ReadableIn(file, session, kat, snapshot, op.status)
    /\ step \in {"snapshot", "evidence"} => op.status = ledger /\ ledger # None
    /\ step = "evidence" =>
         snapshot = Snapshot(op.status) /\ op.status.kat = None

\* Nothing a ledger refers to depends on its own hash or its callback.
LEMMA ReadableIgnores ==
  ASSUME NEW files, NEW sess, NEW report, NEW snap, NEW s \in StatusType,
         ReadableIn(files, sess, report, snap, s)
  PROVE  /\ \A h : ReadableIn(files, sess, report, snap, [s EXCEPT !.hash = h])
         /\ \A m : ReadableIn(files, sess, report, snap,
                             [s EXCEPT !.callback = m])
BY DEF ReadableIn, HasPlan, StatusType

LEMMA DriftHolds == Spec => []DriftInv
<1> USE DEF PacketHolds, BriefHolds, OutputHolds
<1> DEFINE Rd(s) == ReadableIn(file, session, kat, snapshot, s)
<1>1. Init => DriftInv
  BY DEF Init, DriftInv, NoOp
<1>2. TypeInv /\ DriftInv /\ [Next]_vars => DriftInv'
  <2> SUFFICES ASSUME TypeInv, DriftInv, [Next]_vars, drift' = "none"
               PROVE  DriftInv'
    BY DEF DriftInv
  <2>1. ASSUME NEW c \in Command, StartGJC(c)
        PROVE  DriftInv'
    <3> DEFINE packet == file["packet"]
               s == Status(c, "failed", packet,
                           IF c = "ultragoal" THEN packet ELSE None, None)
    <3>1. /\ step' = IF c = "ultragoal" THEN "brief" ELSE "session"
          /\ op' = [kind |-> "start", status |-> s]
          /\ file' = file
      BY <2>1 DEF StartGJC, Begin, evidence
    <3>2. /\ s.accepted = None /\ s.kat = None /\ s.output = None
          /\ s.packet = packet
          /\ c # "ultragoal" => s.brief = None
      BY DEF Status
    <3> HIDE DEF s
    <3> QED
      BY <3>1, <3>2 DEF DriftInv, StartInv
  <2>2. ASSUME NEW m \in Callback, RecordGJCCallback(m)
        PROVE  DriftInv'
    <3> DEFINE s == [ledger EXCEPT !.callback = m]
    <3>1. ledger \in StatusType /\ Rd(ledger)
      BY <2>2, ReadableHere DEF RecordGJCCallback, StatusShown, TypeInv
    <3>2. Rd(s)
      BY <3>1, ReadableIgnores
    <3>3. /\ step' = "ledger" /\ op' = [kind |-> "callback", status |-> s]
          /\ UNCHANGED <<file, session, kat, snapshot, ledger>>
      BY <2>2 DEF RecordGJCCallback, Begin, evidence
    <3> HIDE DEF s
    <3> QED
      BY <3>1, <3>2, <3>3 DEF DriftInv
  <2>3. ASSUME NEW c \in Content, LockGJCPlan(c)
        PROVE  DriftInv'
    <3> DEFINE s == [ledger EXCEPT !.accepted = c]
    <3>1. /\ ledger \in StatusType /\ Rd(ledger)
          /\ file["plan"] = c
      BY <2>3, ReadableHere DEF LockGJCPlan, StatusShown, TypeInv
    <3>2. Rd(s)
      BY <3>1 DEF StatusType, HasPlan, ReadableIn
    <3>3. /\ step' = "ledger" /\ op' = [kind |-> "lock", status |-> s]
          /\ UNCHANGED <<file, session, kat, snapshot, ledger>>
      BY <2>3 DEF LockGJCPlan, Begin, evidence
    <3> HIDE DEF s
    <3> QED
      BY <3>1, <3>2, <3>3 DEF DriftInv
  <2>4. CASE AttachGJCKATEvidence
    BY <2>4, ReadableHere DEF AttachGJCKATEvidence, StatusShown,
       Begin, evidence, DriftInv
  <2>5. CASE WriteBrief
    <3>1. /\ op.kind = "start"
          /\ file' = [file EXCEPT !["brief"] = op.status.brief]
      BY <2>5 DEF WriteBrief, TypeInv, OpInv
    <3>2. file'["brief"] = op.status.brief /\ file'["packet"] = file["packet"]
      BY <3>1, Paths DEF TypeInv
    <3> QED
      BY <2>5, <3>1, <3>2 DEF WriteBrief, DriftInv, StartInv
  <2>6. CASE LoadOrCreateSession
    <3>1. op.kind = "start"
      BY <2>6 DEF LoadOrCreateSession, TypeInv, OpInv
    <3> QED
      BY <2>6, <3>1 DEF LoadOrCreateSession, DriftInv, StartInv
  <2>7. CASE RunFails
    <3>1. op \in OpType /\ op.kind = "start"
      BY <2>7 DEF RunFails, TypeInv, OpInv
    <3>2. /\ op'.kind = "start" /\ op'.status.accepted = op.status.accepted
          /\ op'.status.kat = op.status.kat
          /\ op'.status.packet = op.status.packet
          /\ op'.status.brief = op.status.brief
          /\ op'.status.output = op.status.output
      BY <2>7, <3>1 DEF RunFails, OpType, StatusType
    <3> QED
      BY <2>7, <3>1, <3>2 DEF RunFails, evidence, DriftInv, StartInv
  <2>21. CASE GJCMissing
    <3>1. op.kind = "start"
      BY <2>21 DEF GJCMissing, TypeInv, OpInv
    <3> QED
      BY <2>21, <3>1 DEF GJCMissing, evidence, DriftInv, StartInv
  <2>22. CASE AppendEvent
    BY <2>22 DEF AppendEvent, Begin, evidence, DriftInv, TypeInv, OpInv, NoOp
  <2>8. ASSUME NEW c \in Command, NEW p \in {"ready", "blocked"}, Produced(c, p)
        PROVE  DriftInv'
    <3>1. op \in OpType /\ op.kind = "start"
      BY <2>8 DEF Produced, TypeInv, OpInv
    <3>2. PICK d \in Content :
            /\ file' = [file EXCEPT ![Output[c]] = d]
            /\ op' = [op EXCEPT !.status.output = d, !.status.process = p,
                                !.status.pid = NewPid]
      BY <2>8, Constants DEF Produced
    <3>3. /\ op'.kind = "start" /\ op'.status.accepted = op.status.accepted
          /\ op'.status.kat = op.status.kat
          /\ op'.status.packet = op.status.packet
          /\ op'.status.brief = op.status.brief
      BY <3>1, <3>2 DEF OpType, StatusType
    <3>4. file'["packet"] = file["packet"] /\ file'["brief"] = file["brief"]
      BY <3>2, Paths DEF TypeInv
    <3> QED
      BY <2>8, <3>1, <3>3, <3>4 DEF Produced, DriftInv, StartInv
  <2>9. CASE RefuseReceipt
    <3>1. op \in OpType /\ op.kind = "start"
      BY <2>9 DEF RefuseReceipt, TypeInv, OpInv
    <3>2. /\ op'.kind = "start" /\ op'.status.accepted = op.status.accepted
          /\ op'.status.kat = op.status.kat
          /\ op'.status.packet = op.status.packet
          /\ op'.status.brief = op.status.brief
          /\ op'.status.output = None
      BY <2>9, <3>1 DEF RefuseReceipt, Failed, OpType, StatusType
    <3> QED
      BY <2>9, <3>1, <3>2 DEF RefuseReceipt, evidence, DriftInv, StartInv
  <2>10. CASE WriteReceipt
    <3>1. op \in OpType /\ op.kind = "start"
      BY <2>10 DEF WriteReceipt, TypeInv, OpInv
    <3>2. Output[op.status.command] \in {"interview", "plan", "goals"}
      BY <3>1, Paths DEF OpType, StatusType
    <3>3. /\ file'["packet"] = file["packet"] /\ file'["brief"] = file["brief"]
          /\ file'["receipt"] = op.status.output
          /\ file'[Output[op.status.command]] = op.status.output
      BY <2>10, <3>2, Paths DEF WriteReceipt, TypeInv
    <3> QED
      BY <2>10, <3>1, <3>3 DEF WriteReceipt, DriftInv, StartInv
  <2>11. CASE WriteSourceStatusSnapshot
    <3>1. op.kind = "attach" /\ op.status.kat = None /\ drift = "none"
      BY <2>11 DEF WriteSourceStatusSnapshot, TypeInv, OpInv
    <3> QED
      BY <2>11, <3>1 DEF WriteSourceStatusSnapshot, DriftInv, ReadableIn
  <2>12. CASE AttachEvidence
    <3> DEFINE k == [report |-> kat, snapshot |-> Snapshot(op.status),
                     source |-> op.status.hash]
               s == [op.status EXCEPT !.kat = k]
    <3>1. op \in OpType /\ op.kind = "attach" /\ drift = "none"
      BY <2>12 DEF AttachEvidence, TypeInv, OpInv
    <3>2. /\ op.status = ledger /\ Rd(ledger) /\ op.status.kat = None
          /\ snapshot = Snapshot(op.status)
      BY <2>12, <3>1 DEF AttachEvidence, DriftInv
    <3>3. op' = [kind |-> "attach", status |-> s]
      BY <2>12, <3>1 DEF AttachEvidence, OpType
    <3>4. snapshot # None /\ ~snapshot.kat /\ snapshot.hash = op.status.hash
      <4>1. op.status.hash \in Hash
        BY <3>1 DEF OpType, StatusType
      <4>2. snapshot = [hash |-> op.status.hash, kat |-> FALSE]
        BY <3>2 DEF Snapshot
      <4>3. snapshot \in SnapshotType
        BY <4>1, <4>2 DEF SnapshotType
      <4>4. None \notin SnapshotType
        BY GjcSessionAssumption
      <4> QED
        BY <4>2, <4>3, <4>4
    <3>5. /\ s.kat = k /\ s.packet = ledger.packet /\ s.brief = ledger.brief
          /\ s.process = ledger.process /\ s.command = ledger.command
          /\ s.output = ledger.output /\ s.accepted = ledger.accepted
      BY <3>1, <3>2 DEF OpType, StatusType
    <3>6. KatIsFactual(kat) /\ KatSawStatus(kat, op.status.hash)
      BY <2>12 DEF AttachEvidence
    <3>7. Rd(s)
      BY <3>2, <3>4, <3>5, <3>6 DEF HasPlan, ReadableIn
    <3> HIDE DEF s, k
    <3>8. UNCHANGED <<file, session, kat, snapshot, ledger>> /\ step' = "ledger"
      BY <2>12 DEF AttachEvidence, evidence
    <3> QED
      BY <3>2, <3>3, <3>7, <3>8 DEF DriftInv
  <2>13. CASE RefuseEvidence
    <3>1. op.kind = "attach"
      BY <2>13 DEF RefuseEvidence, TypeInv, OpInv
    <3> QED
      BY <2>13, <3>1 DEF RefuseEvidence, evidence, DriftInv, NoOp
  <2>14. CASE WriteLedger
    <3>1. op \in OpType /\ drift = "none"
      BY <2>14, Constants DEF WriteLedger, TypeInv, OpInv, Hash
    <3>2. Rd(op.status)
      BY <2>14 DEF WriteLedger, DriftInv, StartInv, ReadableIn
    <3>3. /\ \E h : ledger' = [op.status EXCEPT !.hash = h]
          /\ UNCHANGED <<file, session, kat, snapshot>> /\ step' = "append"
      BY <2>14, WrittenLedger DEF WriteLedger, evidence
    <3>4. \A h : Rd([op.status EXCEPT !.hash = h])
      BY <3>1, <3>2, ReadableIgnores DEF OpType
    <3>5. Rd(ledger')
      BY <3>3, <3>4
    <3> QED
      BY <3>3, <3>5 DEF DriftInv
  <2>15. CASE AppendLine
    BY <2>15 DEF AppendLine, evidence, DriftInv
  <2>16. CASE ReplaceStatus
    BY <2>16 DEF ReplaceStatus, evidence, DriftInv
  <2>17. CASE Stop
    BY <2>17 DEF Stop, evidence, DriftInv
  <2>18. CASE EditFile
    BY <2>18 DEF EditFile, Edited
  <2>19. CASE RunKAT
    BY <2>19 DEF RunKAT, Edited, DriftInv, TypeInv, OpInv, ReadableIn
  <2>20. CASE UNCHANGED vars
    BY <2>20 DEF vars, evidence, DriftInv, StartInv
  <2> QED
    BY <2>1, <2>2, <2>3, <2>4, <2>5, <2>6, <2>7, <2>8, <2>9, <2>10, <2>11,
       <2>12, <2>13, <2>14, <2>15, <2>16, <2>17, <2>18, <2>19, <2>20, <2>21,
       <2>22
       DEF Next, RunGJC, CopyNativePlan, CopyNativeGoals, Command
<1> QED
  BY <1>1, <1>2, TypesHold, PTL DEF Spec

\* Between commands the helper accepts the ledger it wrote, unless a file
\* was changed from outside, a start stopped, or KAT evidence was replaced.
THEOREM ReadableUnlessDrifted == Spec => []OnlyDriftMakesUnreadable
<1>1. TypeInv /\ DriftInv => OnlyDriftMakesUnreadable
  BY ReadableHere DEF TypeInv, OpInv, NoOp, DriftInv, OnlyDriftMakesUnreadable
<1> QED
  BY <1>1, TypesHold, DriftHolds, PTL
-----------------------------------------------------------------------------
(***************************************************************************)
(* The event log and status.json implement EventLedger, although a GJC     *)
(* command runs gjc and writes most of its files before it looks at them.  *)
(***************************************************************************)

\* The events status.json has caught up with.
Committed == SubSeq(log, 1, last)

\* The log is ahead of status.json and no command in flight will mend that.
Frozen == ~Coherent /\ step # "status"

Ledger == INSTANCE EventLedger WITH
            Writer <- LineType, committed <- Committed, frozen <- Frozen

\* The beginning of a log grows by the line after it.
LEMMA PrefixGrows ==
  ASSUME NEW S, NEW lines \in Seq(S), NEW n \in Nat, Len(lines) = n + 1
  PROVE  SubSeq(lines, 1, n + 1) = Append(SubSeq(lines, 1, n), lines[n + 1])
<1>1. /\ 1 \in 1 .. Len(lines) /\ n + 1 \in 1 .. Len(lines)
      /\ (n + 1) - 1 = n
  OBVIOUS
<1>2. SubSeq(lines, 1, n + 1) = SubSeq(lines, 1, n) \o <<lines[n + 1]>>
  <2>1. SubSeq(lines, 1, n + 1) =
          SubSeq(lines, 1, (n + 1) - 1) \o <<lines[n + 1]>>
    BY <1>1, SubSeqRecursiveSecond
  <2> QED
    BY <1>1, <2>1
<1>3. SubSeq(lines, 1, n) \in Seq(S) /\ lines[n + 1] \in S
  OBVIOUS
<1> QED
  BY <1>2, <1>3, AppendIsConcat

\* Only the step before the append looks at the log.
PaceInv ==
  /\ step = "append" => Len(log) = last /\ last < MaxEventId
  /\ step = "status" => Len(log) = last + 1

\* A GJC command commits one event or none, and none once the ledger is
\* frozen, however far a start gets before it finds that out.
THEOREM ImplementsLedger == Spec => Ledger!Spec
<1> USE Constants
<1>1. Init => Ledger!Init /\ PaceInv
  <2> SUFFICES ASSUME Init PROVE Ledger!Init /\ PaceInv
    OBVIOUS
  <2>1. Len(log) = 1 /\ last = 1 /\ log = SubSeq(log, 1, 1)
    BY DEF Init
  <2> QED
    BY <2>1 DEF Init, Ledger!Init, Committed, Frozen, Coherent, PaceInv
<1>2. TypeInv /\ PaceInv /\ [Next]_vars => PaceInv'
  <2> SUFFICES ASSUME TypeInv, PaceInv, [Next]_vars
               PROVE  PaceInv'
    OBVIOUS
  <2>0. Len(log) \in Nat
    BY DEF TypeInv
  <2>1. CASE AppendLine
    <3>1. PICK e : log' = Append(log, e)
      BY <2>1 DEF AppendLine
    <3> QED
      BY <2>0, <2>1, <3>1 DEF AppendLine, PaceInv, TypeInv
  <2>2. CASE ~AppendLine
    BY <2>2 DEF PaceInv, TypeInv, Coherent, Next, vars, evidence,
       StartGJC, WriteBrief, LoadOrCreateSession, GJCMissing, RunFails,
       AppendEvent, RunGJC,
       CopyNativePlan, CopyNativeGoals, Produced, RefuseReceipt,
       WriteReceipt, RecordGJCCallback, LockGJCPlan, AttachGJCKATEvidence,
       WriteSourceStatusSnapshot, AttachEvidence, RefuseEvidence, Begin,
       WriteLedger, EditFile, RunKAT, Edited, Stop, ReplaceStatus, MayAppend
  <2> QED
    BY <2>1, <2>2
<1>3. TypeInv /\ PaceInv /\ [Next]_vars => [Ledger!Next]_(Ledger!vars)
  <2> SUFFICES ASSUME TypeInv, PaceInv, [Next]_vars
               PROVE  [Ledger!Next]_(Ledger!vars)
    OBVIOUS
  <2>1. /\ log \in Seq(LineType) /\ Len(log) \in Nat /\ last \in Nat
        /\ last <= Len(log) /\ Len(log) <= MaxEventId
    BY DEF TypeInv, PaceInv
  <2>2. CASE AppendLine
    <3>1. PICK e : log' = Append(log, e)
      BY <2>2 DEF AppendLine
    <3>2. Committed' = Committed
      BY <2>1, <2>2, <3>1 DEF Committed, AppendLine
    <3>3. ~Frozen /\ ~Frozen'
      BY <2>2 DEF Frozen, AppendLine, TypeInv, PaceInv,
         Coherent
    <3> QED
      BY <3>2, <3>3 DEF Ledger!vars, Frozen
  <2>3. CASE ReplaceStatus
    <3>1. Len(log) = last + 1 /\ last' = last + 1 /\ log' = log
      BY <2>3 DEF ReplaceStatus, TypeInv, PaceInv
    <3>2. Len(Committed) = last /\ log[last + 1] \in LineType
      BY <2>1, <3>1 DEF Committed
    <3>3. Committed' = Append(Committed, log[last + 1])
      BY <2>1, <3>1, PrefixGrows DEF Committed
    <3>4. ~Frozen /\ ~Frozen'
      BY <2>3, <3>1 DEF Frozen, ReplaceStatus, Coherent
    <3> QED
      BY <2>1, <3>1, <3>2, <3>3, <3>4
      DEF Ledger!Next, Ledger!Commit, Frozen
  <2>4. CASE log' = log /\ last' = last /\ (Frozen => Frozen')
    BY <2>4 DEF Committed, Frozen, Ledger!Next, Ledger!Freeze, Ledger!vars
  <2>5. CASE ~AppendLine /\ ~ReplaceStatus
    <3>1. log' = log /\ last' = last
      BY <2>5 DEF Next, vars, evidence,
       StartGJC, WriteBrief, LoadOrCreateSession, GJCMissing, RunFails,
       AppendEvent, RunGJC,
       CopyNativePlan, CopyNativeGoals, Produced, RefuseReceipt,
       WriteReceipt, RecordGJCCallback, LockGJCPlan, AttachGJCKATEvidence,
       WriteSourceStatusSnapshot, AttachEvidence, RefuseEvidence, Begin,
       WriteLedger, EditFile, RunKAT, Edited, Stop
    <3>2. Frozen => Frozen'
      BY <2>5, <3>1 DEF Frozen, Coherent, Next, vars, evidence,
       StartGJC, WriteBrief, LoadOrCreateSession, GJCMissing, RunFails,
       AppendEvent, RunGJC,
       CopyNativePlan, CopyNativeGoals, Produced, RefuseReceipt,
       WriteReceipt, RecordGJCCallback, LockGJCPlan, AttachGJCKATEvidence,
       WriteSourceStatusSnapshot, AttachEvidence, RefuseEvidence, Begin,
       WriteLedger, EditFile, RunKAT, Edited, Stop, MayAppend
    <3> QED
      BY <2>4, <3>1, <3>2
  <2> QED
    BY <2>2, <2>3, <2>5
<1> QED
  BY <1>1, <1>2, <1>3, TypesHold, PTL DEF Spec, Ledger!Spec
=============================================================================
