----------------------- MODULE CatalogPromotionProofs -----------------------
(***************************************************************************)
(* Proofs about CatalogPromotion for any targets, contents, candidates and *)
(* bounds: the types, that promoted content is in place or backed up, that *)
(* promotions build on each other, and that the log and status.json        *)
(* implement EventLedger.                                                  *)
(***************************************************************************)
EXTENDS CatalogPromotion, FiniteSetTheorems, WellFoundedInduction,
  SequenceTheorems, TLAPS

\* The largest of a bounded set of numbers is what Max chooses.
LEMMA MaxIsLargest ==
  ASSUME NEW n \in Nat, NEW S \in SUBSET (0 .. n), S # {}
  PROVE  Max(S) \in S /\ \A x \in S : x <= Max(S)
<1> DEFINE Above(x) == {y \in S : y > x}
           T == {Above(x) : x \in S}
<1>1. IsFiniteSet(S)
  <2>1. S \in SUBSET Nat /\ \A x \in S : x <= n
    OBVIOUS
  <2> QED
    BY <2>1, FS_BoundedSetOfNaturals
<1>2. T \subseteq FiniteSubsetsOf(S)
  BY <1>1, FS_Subset DEF FiniteSubsetsOf
<1>3. T # {}
  OBVIOUS
<1>4. PICK t \in T : \A u \in T : <<u, t>> \notin StrictSubsetOrdering(S)
  BY <1>2, <1>3, FS_StrictSubsetOrderingWellFounded, WFMin, Zenon
<1>5. PICK x \in S : t = Above(x)
  OBVIOUS
<1>6. ASSUME NEW y \in S, y > x
      PROVE  FALSE
  <2>1. /\ Above(y) \in T /\ Above(y) \subseteq Above(x)
        /\ y \in Above(x) /\ y \notin Above(y)
    <3>1. S \subseteq Nat /\ x \in Nat /\ y \in Nat
      OBVIOUS
    <3>2. Above(y) \in T
      OBVIOUS
    <3>3. ASSUME NEW z \in Above(y) PROVE z \in Above(x)
      BY <1>6, <3>1
    <3>4. y \in Above(x) /\ y \notin Above(y)
      BY <1>6, <3>1
    <3>5. Above(y) \subseteq Above(x)
      BY <3>3, Zenon
    <3> HIDE DEF T, Above
    <3> QED
      BY <3>2, <3>4, <3>5
  <2>2. <<Above(y), Above(x)>> \in StrictSubsetOrdering(S)
    BY <2>1 DEF StrictSubsetOrdering
  <2> QED
    BY <1>4, <1>5, <2>1, <2>2
<1>7. \A y \in S : x >= y
  BY <1>6
<1> QED
  BY <1>7 DEF Max

\* The least target of a set of targets is what Min chooses.
LEMMA MinIsMember ==
  ASSUME NEW n \in Nat, NEW S \in SUBSET (1 .. n), S # {}
  PROVE  Min(S) \in S
<1> DEFINE M == {n - x : x \in S}
<1>1. M \in SUBSET (0 .. n) /\ M # {}
  <2>1. \A x \in S : x \in 1 .. n
    OBVIOUS
  <2>2. \A x \in S : n - x \in 0 .. n
    BY <2>1
  <2>3. M \subseteq 0 .. n
    BY <2>2
  <2>4. PICK x \in S : TRUE
    OBVIOUS
  <2>5. n - x \in M
    OBVIOUS
  <2> HIDE DEF M
  <2> QED
    BY <2>3, <2>5
<1>2. Max(M) \in M /\ \A y \in M : y <= Max(M)
  BY <1>1, MaxIsLargest
<1>3. PICK x \in S : Max(M) = n - x
  BY <1>2
<1>4. \A y \in S : x <= y
  <2> SUFFICES ASSUME NEW y \in S PROVE x <= y
    OBVIOUS
  <2>1. n - y \in M
    OBVIOUS
  <2>2. n - y <= n - x
    BY <1>2, <1>3, <2>1
  <2>3. x \in Nat /\ y \in Nat
    OBVIOUS
  <2> HIDE DEF M
  <2> QED
    BY <2>2, <2>3
<1> QED
  BY <1>4 DEF Min

-----------------------------------------------------------------------------
(***************************************************************************)
(* Types, the position of a command, and what it has in flight.            *)
(***************************************************************************)

\* What the helper writes is recorded, what others append is not.
LEMMA HelperLine ==
  ASSUME NEW type, NEW p
  PROVE  Recorded(Event(type, p)) = type
  BY DEF Recorded, Event

LEMMA UserLine ==
  ASSUME NEW line \in HandLine
  PROVE  Recorded(line) = "other"
  BY CatalogPromotionAssumption DEF Recorded

ApplyOp(backups, writes, event) ==
  [kind |-> "apply", backups |-> backups, writes |-> writes, event |-> event]

\* A base names the targets that the candidates are for.
SameTargets(r) == DOMAIN r.base = DOMAIN r.candidates

\* What a command o that stands before write s carries.
OpInv(o, s) ==
  /\ s = "idle"   => o = NoOp
  /\ s = "backup" => o.kind = "apply"
  /\ s = "append" => o.kind # "none"
  /\ s = "record" => o.kind = "propose"
  /\ o.kind = "other" => Recorded(o.event) = "other"
  /\ o.kind = "propose" =>
       /\ Recorded(o.event) = "proposed"
       /\ o.event.proposal \in 1 .. MaxProposal
       /\ SameTargets(o.record)
  /\ o.kind = "apply" =>
       /\ o = ApplyOp(o.backups, o.writes, o.event)
       /\ Recorded(o.event) = "applied"
       /\ s = "append" => o.writes = {}

LogInv ==
  /\ last <= Len(log) /\ Len(log) <= MaxEventId
  /\ step \in {"backup", "append"} => Len(log) = last /\ last < MaxEventId
  /\ step \in {"record", "status"} => Len(log) = last + 1

\* What the log says was applied is on record.
RecordInv ==
  /\ \A p \in DOMAIN record : SameTargets(record[p])
  /\ \A i \in 1 .. Len(log) :
       Recorded(log[i]) = "applied" => log[i].proposal \in DOMAIN record

TypeInv == TypeOK /\ LogInv /\ OpInv(op, step) /\ RecordInv

\* The bounds are natural numbers.
LEMMA Bounds ==
  MaxProposal \in Nat /\ MaxEdits \in Nat /\ MaxEventId \in Nat
    /\ MaxEventId > 0 /\ Targets \in Nat
<1>1. MaxProposal \in {MaxEdits, MaxProposal} /\ MaxEdits \in {MaxEdits,
      MaxProposal}
  OBVIOUS
<1> QED
  BY <1>1, CatalogPromotionAssumption

\* Candidates are texts for some of the targets.
LEMMA Candidates ==
  ASSUME NEW c \in Bundle
  PROVE  DOMAIN c \in SUBSET Target /\ \A t \in DOMAIN c : c[t] \in Text
<1>1. PICK S \in SUBSET Target : c \in [S -> Text]
  BY CatalogPromotionAssumption
<1> QED
  BY <1>1

\* What an apply in flight carries.
LEMMA InApply ==
  ASSUME TypeInv, op.kind = "apply"
  PROVE  /\ op = ApplyOp(op.backups, op.writes, op.event)
         /\ op.event \in EventType /\ Recorded(op.event) = "applied"
         /\ op.event.proposal \in DOMAIN record
         /\ op.event.proposal \in 1 .. MaxProposal
         /\ record[op.event.proposal].candidates \in Bundle
         /\ op.backups \cup op.writes \subseteq
              DOMAIN record[op.event.proposal].candidates
<1>1. op # NoOp
  BY DEF NoOp
<1>2. IsOp(op) /\ OpInv(op, step)
  BY DEF TypeInv, TypeOK
<1>3. /\ op.event \in EventType /\ op.event.proposal \in DOMAIN record
      /\ op.backups \cup op.writes \subseteq
           DOMAIN record[op.event.proposal].candidates
  BY <1>1, <1>2 DEF IsOp
<1>4. /\ op.event.proposal \in 1 .. MaxProposal
      /\ record[op.event.proposal] \in RecordType
  BY <1>3 DEF TypeInv, TypeOK
<1>5. record[op.event.proposal].candidates \in Bundle
  BY <1>4, CatalogPromotionAssumption DEF RecordType
<1> QED
  BY <1>2, <1>3, <1>4, <1>5 DEF OpInv

\* A command that begins leaves the files alone.
LEMMA BeginKeepsTypes ==
  ASSUME TypeInv, NEW first \in {"backup", "append"}, NEW o, Begin(first, o),
         IsOp(o), OpInv(o, first)
  PROVE  TypeInv'
<1>1. IsOp(op)'
  BY DEF Begin, IsOp
<1>2. TypeOK'
  BY <1>1 DEF TypeInv, TypeOK, Begin
<1>3. LogInv'
  BY DEF TypeInv, TypeOK, LogInv, Begin, Coherent
<1>4. OpInv(op, step)' /\ RecordInv'
  BY DEF Begin, TypeInv, RecordInv
<1> QED
  BY <1>2, <1>3, <1>4 DEF TypeInv

\* The next proposal id is not in use.
LEMMA NextProposalIsNew ==
  ASSUME TypeInv, NextProposal <= MaxProposal
  PROVE  NextProposal \in 1 .. MaxProposal
<1> DEFINE S == DOMAIN record \cup {0}
<1>1. MaxProposal \in Nat /\ S \in SUBSET (0 .. MaxProposal) /\ S # {}
  BY Bounds DEF TypeInv, TypeOK
<1>2. Max(S) \in S
  BY <1>1, MaxIsLargest
<1>3. Max(S) \in 0 .. MaxProposal /\ NextProposal = Max(S) + 1
  BY <1>1, <1>2 DEF NextProposal
<1> QED
  BY <1>1, <1>3

\* The next target to back up or to write is one of those left.
LEMMA NextTarget ==
  ASSUME TypeInv, op.kind = "apply"
  PROVE  /\ op.backups # {} => Min(op.backups) \in op.backups
         /\ op.writes # {} => Min(op.writes) \in op.writes
         /\ op.backups \cup op.writes \subseteq Target
<1>1. op.backups \cup op.writes \subseteq Target
  BY InApply, Candidates
<1>2. op.backups \in SUBSET (1 .. Targets)
      /\ op.writes \in SUBSET (1 .. Targets)
  BY <1>1 DEF Target
<1> QED
  BY <1>1, <1>2, Bounds, MinIsMember

\* A record, once written, stays as it is.
LEMMA RecordsStay ==
  ASSUME TypeInv, [Next]_vars, NEW p \in DOMAIN record
  PROVE  p \in DOMAIN record' /\ record'[p] = record[p]
<1>1. CASE WriteRecord
  BY <1>1 DEF WriteRecord
<1>2. CASE record' = record
  BY <1>2
<1> QED
  BY <1>1, <1>2 DEF Next, vars, ProposePromotion, ApplyPromotion, AppendEvent,
     Begin, WriteBackup, WriteTarget, AppendLine, ReplaceStatus, Stop,
     EditTarget

LEMMA TypesHold == Spec => []TypeInv
<1>1. Init => TypeInv
  <2> SUFFICES ASSUME Init PROVE TypeInv
    OBVIOUS
  <2>1. log = <<Event("other", NoProposal)>>
        /\ Event("other", NoProposal) \in EventType
    BY Bounds DEF Init, Event, NoProposal, EventType
  <2>2. log \in Seq(LineType) /\ Len(log) = 1 /\ Recorded(log[1]) = "other"
    BY <2>1, HelperLine DEF LineType
  <2>3. TypeOK
    BY <2>2, Bounds DEF Init, TypeOK, IsOp
  <2>4. LogInv /\ OpInv(op, step) /\ RecordInv
    BY <2>2, Bounds DEF Init, LogInv, OpInv, NoOp, RecordInv
  <2> QED
    BY <2>3, <2>4 DEF TypeInv
<1>2. TypeInv /\ [Next]_vars => TypeInv'
  <2> SUFFICES ASSUME TypeInv, [Next]_vars PROVE TypeInv'
    OBVIOUS
  <2>0. /\ last \in Nat /\ Len(log) \in Nat /\ log \in Seq(LineType)
        /\ NextId = Len(log) + 1 /\ LogInv /\ TypeOK /\ RecordInv
        /\ OpInv(op, step)
    BY Bounds DEF TypeInv, TypeOK, NextId
  <2>1. ASSUME NEW c \in Bundle, NEW base \in [DOMAIN c -> Text \cup {Missing}],
               ProposePromotion(c, base)
        PROVE  TypeInv'
    <3> DEFINE o == [kind |-> "propose", record |-> Record(base, c),
                     event |-> Event("proposed", NextProposal)]
    <3>1. Begin("append", o) /\ c \in Valid /\ NextProposal \in 1 .. MaxProposal
      BY <2>1, NextProposalIsNew DEF ProposePromotion, Validates
    <3>2. base \in Base
      BY Candidates DEF Base
    <3>3. Record(base, c) \in RecordType /\ SameTargets(Record(base, c))
      BY <3>1, <3>2 DEF RecordType, Record, SameTargets
    <3>4. Event("proposed", NextProposal) \in EventType
      BY <3>1, Bounds DEF Event, EventType
    <3>5. IsOp(o)
      BY <3>3, <3>4 DEF IsOp
    <3>6. OpInv(o, "append")
      BY <3>1, <3>3, HelperLine DEF OpInv, Event
    <3> QED
      BY <3>1, <3>5, <3>6, BeginKeepsTypes
  <2>2. ASSUME NEW p \in 1 .. MaxProposal, ApplyPromotion(p)
        PROVE  TypeInv'
    <3> DEFINE ts == DOMAIN record[p].candidates
               e == Event("applied", p)
    <3>1. p \in DOMAIN record
          /\ Begin("backup", [kind |-> "apply", backups |-> Existing(ts),
                              writes |-> ts, event |-> e])
      BY <2>2 DEF ApplyPromotion
    <3>2. e \in EventType /\ e.proposal = p /\ Recorded(e) = "applied"
      <4>1. e \in EventType /\ e.proposal = p
        BY Bounds DEF Event, EventType
      <4> QED
        BY <4>1, HelperLine
    <3>3. Existing(ts) \subseteq ts
      BY DEF Existing
    <3> DEFINE o == ApplyOp(Existing(ts), ts, e)
    <3>4. Begin("backup", o)
      BY <3>1 DEF ApplyOp
    <3> HIDE DEF e
    <3>5. o.kind = "apply" /\ o.backups = Existing(ts) /\ o.writes = ts
          /\ o.event = e
      BY DEF ApplyOp
    <3> HIDE DEF o
    <3>6. IsOp(o)
      BY <3>1, <3>2, <3>3, <3>5 DEF IsOp
    <3>7. OpInv(o, "backup")
      BY <3>2, <3>5 DEF OpInv, o
    <3> QED
      BY <3>4, <3>6, <3>7, BeginKeepsTypes
  <2>3. ASSUME NEW line \in HandLine, AppendEvent(line)
        PROVE  TypeInv'
    <3> DEFINE o == [kind |-> "other", event |-> line]
    <3>1. Begin("append", o)
      BY <2>3 DEF AppendEvent
    <3>2. IsOp(o)
      BY DEF IsOp
    <3>3. OpInv(o, "append")
      BY UserLine DEF OpInv
    <3> QED
      BY <3>1, <3>2, <3>3, BeginKeepsTypes
  <2>4. CASE WriteBackup
    <3> DEFINE t == Min(op.backups)
    <3>1. op.kind = "apply" /\ t \in op.backups /\ t \in Target
      BY <2>0, <2>4, NextTarget DEF WriteBackup, OpInv
    <3>2. NextId \in 1 .. MaxEventId /\ op.event.proposal \in 1 .. MaxProposal
      BY <2>0, <2>4, <3>1, InApply, Bounds DEF WriteBackup, LogInv
    <3>3. op' = ApplyOp(op.backups \ {t}, op.writes, op.event)
      BY <2>4, <3>1, InApply DEF WriteBackup, ApplyOp
    <3>4. \A b \in DOMAIN backup' : /\ b[1] \in 1 .. MaxProposal
                                    /\ b[2] \in 1 .. MaxEventId
                                    /\ backup'[b] \in Text
      <4>1. CASE backup' = backup
        BY <2>0, <4>1 DEF TypeOK
      <4>2. CASE target[t] # Missing /\ Keep(BackupPath(t), target[t])
        <5>1. BackupPath(t)[1] \in 1 .. MaxProposal
              /\ BackupPath(t)[2] \in 1 .. MaxEventId
          BY <3>2 DEF BackupPath
        <5>2. target[t] \in Text
          BY <2>0, <3>1, <4>2 DEF TypeOK
        <5>3. backup' = [b \in DOMAIN backup \cup {BackupPath(t)} |->
                           IF b = BackupPath(t) THEN target[t] ELSE backup[b]]
          BY <4>2 DEF Keep, Store
        <5>4. \A b \in DOMAIN backup : /\ b[1] \in 1 .. MaxProposal
                                       /\ b[2] \in 1 .. MaxEventId
                                       /\ backup[b] \in Text
          BY <2>0 DEF TypeOK
        <5> QED
          BY <5>1, <5>2, <5>3, <5>4
      <4> QED
        BY <2>4, <4>1, <4>2 DEF WriteBackup
    <3>5. /\ op'.kind = "apply" /\ op'.event = op.event
          /\ op'.backups = op.backups \ {t} /\ op'.writes = op.writes
      BY <3>3 DEF ApplyOp
    <3>6. IsOp(op)'
      <4>1. record' = record
        BY <2>4 DEF WriteBackup
      <4>2. op'.backups \cup op'.writes \subseteq op.backups \cup op.writes
        BY <3>5
      <4> QED
        BY <3>1, <3>5, <4>1, <4>2, InApply DEF IsOp
    <3>7. TypeOK'
      BY <2>0, <2>4, <3>4, <3>6 DEF WriteBackup, TypeOK
    <3>8. LogInv' /\ RecordInv'
      BY <2>0, <2>4 DEF WriteBackup, LogInv, RecordInv
    <3>9. OpInv(op, step)'
      BY <2>4, <3>1, <3>3, <3>5, InApply DEF WriteBackup, OpInv
    <3> QED
      BY <3>7, <3>8, <3>9 DEF TypeInv
  <2>5. CASE WriteTarget
    <3> DEFINE t == Min(op.writes)
               c == record[op.event.proposal].candidates
    <3>1. op.kind = "apply" /\ t \in op.writes /\ t \in Target
      BY <2>0, <2>5, NextTarget DEF WriteTarget, OpInv
    <3>2. c[t] \in Text
      BY <3>1, InApply, Candidates
    <3>3. op' = ApplyOp(op.backups, op.writes \ {t}, op.event)
      BY <2>5, <3>1, InApply DEF WriteTarget, ApplyOp
    <3>4. /\ op'.kind = "apply" /\ op'.event = op.event
          /\ op'.backups = op.backups /\ op'.writes = op.writes \ {t}
      BY <3>3 DEF ApplyOp
    <3>5. IsOp(op)'
      <4>1. record' = record
        BY <2>5 DEF WriteTarget
      <4>2. op'.backups \cup op'.writes \subseteq op.backups \cup op.writes
        BY <3>4
      <4> QED
        BY <3>1, <3>4, <4>1, <4>2, InApply DEF IsOp
    <3>6. target' = [target EXCEPT ![t] = c[t]]
      BY <2>5 DEF WriteTarget
    <3>7. step' \in {"backup", "append"}
          /\ (step' = "append" => op.writes = {t})
      BY <2>5 DEF WriteTarget
    <3>8. TypeOK'
      <4> HIDE DEF t, c
      <4> QED
        BY <2>0, <2>5, <3>2, <3>5, <3>6, <3>7 DEF WriteTarget, TypeOK
    <3>9. LogInv' /\ RecordInv'
      BY <2>0, <2>5, <3>7 DEF WriteTarget, LogInv, RecordInv
    <3>10. OpInv(op, step)'
      BY <2>5, <3>1, <3>3, <3>4, <3>7, InApply DEF OpInv
    <3> QED
      BY <3>8, <3>9, <3>10 DEF TypeInv
  <2>6. CASE AppendLine
    <3>1. op.event \in LineType /\ op.kind # "none"
          /\ (Recorded(op.event) = "applied" =>
                op.event.proposal \in DOMAIN record)
      BY <2>0, <2>6 DEF AppendLine, OpInv, TypeOK, IsOp, NoOp, LineType
    <3>2. /\ log' \in Seq(LineType) /\ Len(log') = Len(log) + 1
          /\ \A i \in 1 .. Len(log) : log'[i] = log[i]
          /\ log'[Len(log) + 1] = op.event
      BY <2>0, <2>6, <3>1 DEF AppendLine
    <3>3. TypeOK'
      <4>1. IsOp(op)'
        BY <2>0, <2>6 DEF AppendLine, TypeOK, IsOp
      <4> QED
        BY <2>0, <2>6, <3>2, <4>1 DEF AppendLine, TypeOK
    <3>4. LogInv'
      <4>1. Len(log) = last /\ last < MaxEventId /\ last' = last
        BY <2>0, <2>6 DEF AppendLine, LogInv
      <4>2. step' \in {"record", "status"}
        BY <2>6 DEF AppendLine
      <4>3. Len(log') = last + 1
        BY <3>2, <4>1
      <4> QED
        BY <2>0, <4>1, <4>2, <4>3, Bounds DEF LogInv
    <3>5. OpInv(op, step)'
      BY <2>0, <2>6 DEF AppendLine, OpInv
    <3>6. RecordInv'
      <4>1. record' = record
        BY <2>6 DEF AppendLine
      <4>2. \A i \in 1 .. Len(log) + 1 : i \in 1 .. Len(log) \/ i = Len(log) + 1
        BY <2>0
      <4> QED
        BY <2>0, <3>1, <3>2, <4>1, <4>2 DEF RecordInv
    <3> QED
      BY <3>3, <3>4, <3>5, <3>6 DEF TypeInv
  <2>7. CASE WriteRecord
    <3>1. /\ op.kind = "propose" /\ op.event.proposal \in 1 .. MaxProposal
          /\ op.record \in RecordType /\ SameTargets(op.record)
      BY <2>0, <2>7 DEF WriteRecord, OpInv, TypeOK, IsOp, NoOp
    <3>2. /\ DOMAIN record' = DOMAIN record \cup {op.event.proposal}
          /\ record'[op.event.proposal] = op.record
          /\ \A p \in DOMAIN record : record'[p] = record[p]
      BY <2>7 DEF WriteRecord
    <3>3. IsOp(op)'
      BY <2>0, <2>7, <3>1 DEF WriteRecord, TypeOK, IsOp, NoOp
    <3>4. TypeOK'
      <4>1. /\ DOMAIN record' \subseteq 1 .. MaxProposal
            /\ \A p \in DOMAIN record' : record'[p] \in RecordType
        BY <2>0, <3>1, <3>2 DEF TypeOK
      <4> QED
        BY <2>0, <2>7, <3>3, <4>1 DEF WriteRecord, TypeOK
    <3>5. LogInv' /\ OpInv(op, step)'
      BY <2>0, <2>7, <3>1 DEF WriteRecord, LogInv, OpInv
    <3>6. RecordInv'
      BY <2>0, <2>7, <3>1, <3>2 DEF WriteRecord, RecordInv
    <3> QED
      BY <3>4, <3>5, <3>6 DEF TypeInv
  <2>8. CASE ReplaceStatus
    <3>1. Len(log) \in 1 .. MaxEventId
      BY <2>0, Bounds DEF LogInv, TypeOK
    <3>2. TypeOK'
      BY <2>0, <2>8, <3>1 DEF ReplaceStatus, TypeOK, IsOp
    <3>3. LogInv' /\ OpInv(op, step)' /\ RecordInv'
      BY <2>0, <2>8 DEF ReplaceStatus, LogInv, OpInv, NoOp, RecordInv
    <3> QED
      BY <3>2, <3>3 DEF TypeInv
  <2>9. CASE Stop
    <3>1. Written \subseteq Target
      <4>1. CASE op.kind = "apply"
        BY <4>1, InApply, Candidates DEF Written
      <4> QED
        BY <4>1 DEF Written
    <3>2. TypeOK'
      BY <2>0, <2>9, <3>1 DEF Stop, TypeOK, IsOp
    <3>3. LogInv' /\ OpInv(op, step)' /\ RecordInv'
      BY <2>0, <2>9 DEF Stop, LogInv, OpInv, NoOp, RecordInv
    <3> QED
      BY <3>2, <3>3 DEF TypeInv
  <2>10. ASSUME NEW t \in Target, EditTarget(t)
         PROVE  TypeInv'
    <3>1. edits' \in 0 .. MaxEdits
      BY <2>0, <2>10, Bounds DEF EditTarget, TypeOK
    <3>2. target' \in [Target -> Text \cup {Missing}]
      BY <2>0, <2>10 DEF EditTarget, TypeOK
    <3>3. IsOp(op)'
      BY <2>0, <2>10 DEF EditTarget, TypeOK, IsOp
    <3>4. TypeOK'
      BY <2>0, <2>10, <3>1, <3>2, <3>3 DEF EditTarget, TypeOK
    <3>5. LogInv' /\ OpInv(op, step)' /\ RecordInv'
      BY <2>0, <2>10 DEF EditTarget, LogInv, OpInv, RecordInv
    <3> QED
      BY <3>4, <3>5 DEF TypeInv
  <2>11. CASE UNCHANGED vars
    <3>1. IsOp(op)'
      BY <2>0, <2>11 DEF vars, TypeOK, IsOp
    <3> QED
      BY <2>0, <2>11, <3>1 DEF vars, TypeInv, TypeOK, LogInv, OpInv, RecordInv
  <2> QED
    BY <2>1, <2>2, <2>3, <2>4, <2>5, <2>6, <2>7, <2>8, <2>9, <2>10, <2>11
       DEF Next
<1> QED
  BY <1>1, <1>2, PTL DEF Spec

\* Every variable of the promotion store stays within its type, and what an
\* apply has in flight are targets of the proposal it applies.
THEOREM TypeCorrect == Spec => []TypeOK
BY TypesHold, PTL DEF TypeInv

-----------------------------------------------------------------------------
(***************************************************************************)
(* What was promoted is in place or backed up.                             *)
(***************************************************************************)

\* An apply in flight that has not appended its event yet.
Applying == op.kind = "apply" /\ step \in {"backup", "append"}
InFlight == record[op.event.proposal]

\* What it wrote is in place.
WrittenInv ==
  Applying =>
    \A t \in (DOMAIN InFlight.candidates \ op.writes) \ edited :
       target[t] = InFlight.candidates[t]

\* The target is in a backup made for the event to come.
Saved(t) ==
  \E b \in DOMAIN backup :
     b[2] = NextId /\ b[3] = BaseName[t] /\ backup[b] = target[t]

\* What it is about to replace is backed up.
BackedInv ==
  step = "backup" =>
    \A t \in (op.writes \ op.backups) \ edited :
       target[t] = Missing \/ Saved(t)

InPlaceOrSaved(t, i) ==
  \/ target[t] = ContentOf(i, t)
  \/ \E b \in DOMAIN backup :
        b[2] > i /\ b[3] = BaseName[t] /\ backup[b] = ContentOf(i, t)

KeptInv == \A t \in Target \ edited : \A i \in Applied(t) : InPlaceOrSaved(t, i)

\* What was applied stays on record, whatever the step but the event itself.
LEMMA HistoryStays ==
  ASSUME TypeInv, [Next]_vars, log' = log, NEW t
  PROVE  /\ Applied(t)' = Applied(t)
         /\ \A i \in Applied(t) :
              /\ ContentOf(i, t)' = ContentOf(i, t)
              /\ record'[log'[i].proposal] = record[log[i].proposal]
<1>1. \A i \in 1 .. Len(log) : Recorded(log[i]) = "applied" =>
        /\ log[i].proposal \in DOMAIN record
        /\ record'[log[i].proposal] = record[log[i].proposal]
  BY RecordsStay DEF TypeInv, RecordInv
<1> QED
  BY <1>1 DEF Applied, ContentOf

\* The line an apply appends is one more for each of its targets.
LEMMA HistoryGrows ==
  ASSUME TypeInv, AppendLine, NEW t
  PROVE  /\ Len(log) \in Nat /\ log'[Len(log) + 1] = op.event
         /\ Applied(t)' =
              Applied(t) \cup
                {i \in {Len(log) + 1} :
                   op.kind = "apply" /\ t \in DOMAIN InFlight.candidates}
         /\ \A i \in Applied(t) :
              /\ ContentOf(i, t)' = ContentOf(i, t)
              /\ record'[log'[i].proposal] = record[log[i].proposal]
         /\ Applied(t) \subseteq 1 .. Len(log)
<1>1. /\ log \in Seq(LineType) /\ op.event \in LineType
      /\ Recorded(op.event) = "applied" <=> op.kind = "apply"
  BY DEF AppendLine, TypeInv, TypeOK, OpInv, IsOp, NoOp, LineType
<1>2. /\ log' = Append(log, op.event) /\ Len(log) \in Nat
      /\ Len(log') = Len(log) + 1 /\ log'[Len(log) + 1] = op.event
      /\ \A i \in 1 .. Len(log) : log'[i] = log[i]
      /\ record' = record
  BY <1>1 DEF AppendLine
<1>3. \A i \in 1 .. Len(log) + 1 : i \in 1 .. Len(log) \/ i = Len(log) + 1
  BY <1>2
<1>4. Applied(t)' =
        {i \in 1 .. Len(log) + 1 :
           /\ Recorded(log'[i]) = "applied"
           /\ t \in DOMAIN record[log'[i].proposal].candidates}
  BY <1>2 DEF Applied
<1>5. Len(log) + 1 \in Applied(t)' <=>
        op.kind = "apply" /\ t \in DOMAIN InFlight.candidates
  BY <1>1, <1>2, <1>4 DEF InFlight
<1>6. \A i \in 1 .. Len(log) : i \in Applied(t)' <=> i \in Applied(t)
  BY <1>2, <1>4 DEF Applied
<1>7. Applied(t) \subseteq 1 .. Len(log)
      /\ Applied(t)' \subseteq 1 .. Len(log) + 1
  BY <1>4 DEF Applied
<1>8. \A i \in Applied(t) :
        /\ ContentOf(i, t)' = ContentOf(i, t)
        /\ record'[log'[i].proposal] = record[log[i].proposal]
  BY <1>2, <1>7 DEF ContentOf
<1>9. Applied(t)' = Applied(t) \cup
                {i \in {Len(log) + 1} :
                   op.kind = "apply" /\ t \in DOMAIN InFlight.candidates}
  BY <1>3, <1>5, <1>6, <1>7, <1>2
<1> QED
  BY <1>2, <1>7, <1>8, <1>9

\* A backup is never replaced.
LEMMA BackupsStay ==
  ASSUME [Next]_vars, NEW b \in DOMAIN backup
  PROVE  b \in DOMAIN backup' /\ backup'[b] = backup[b]
<1>1. CASE WriteBackup
  BY <1>1 DEF WriteBackup, Keep, Store
<1>2. CASE backup' = backup
  BY <1>2
<1> QED
  BY <1>1, <1>2 DEF Next, vars, ProposePromotion, ApplyPromotion, AppendEvent,
     Begin, WriteTarget, AppendLine, WriteRecord, ReplaceStatus, Stop,
     EditTarget

\* What an applied promotion wrote is a text.
LEMMA ContentIsText ==
  ASSUME TypeInv, NEW t, NEW i \in Applied(t)
  PROVE  ContentOf(i, t) \in Text /\ i \in 1 .. Len(log)
<1>1. /\ i \in 1 .. Len(log) /\ log[i].proposal \in DOMAIN record
      /\ t \in DOMAIN record[log[i].proposal].candidates
  BY DEF Applied, TypeInv, RecordInv
<1>2. record[log[i].proposal].candidates \in Bundle
  BY <1>1, CatalogPromotionAssumption DEF TypeInv, TypeOK, RecordType
<1> QED
  BY <1>1, <1>2, Candidates DEF ContentOf

\* What a promotion put under a target no hand has touched is found there,
\* or in a backup made for a later event.
LEMMA KeptStep ==
  ASSUME TypeInv, KeptInv, WrittenInv, BackedInv, [Next]_vars
  PROVE  KeptInv'
<1> SUFFICES ASSUME NEW t \in Target \ edited', NEW i \in Applied(t)'
             PROVE  InPlaceOrSaved(t, i)'
  BY DEF KeptInv
<1>1. t \in Target \ edited
  BY DEF Next, vars, ProposePromotion, ApplyPromotion, AppendEvent, Begin,
     WriteBackup, WriteTarget, AppendLine, WriteRecord, ReplaceStatus, Stop,
     EditTarget
<1>2. ASSUME i \in Applied(t), ContentOf(i, t)' = ContentOf(i, t),
             target'[t] = target[t]
      PROVE  InPlaceOrSaved(t, i)'
  <2>1. InPlaceOrSaved(t, i)
    BY <1>1, <1>2 DEF KeptInv
  <2> QED
    BY <1>2, <2>1, BackupsStay DEF InPlaceOrSaved
<1>3. CASE AppendLine
  <2>1. CASE i \in Applied(t)
    BY <1>2, <1>3, <2>1, HistoryGrows DEF AppendLine
  <2>2. CASE i \notin Applied(t)
    <3>1. i = Len(log) + 1 /\ op.kind = "apply"
          /\ t \in DOMAIN InFlight.candidates
      BY <1>3, <2>2, HistoryGrows
    <3>2. target[t] = InFlight.candidates[t]
      BY <1>1, <1>3, <3>1
         DEF AppendLine, WrittenInv, Applying, TypeInv, OpInv
    <3>3. ContentOf(i, t)' = InFlight.candidates[t]
      BY <1>3, <3>1, HistoryGrows DEF ContentOf, AppendLine, InFlight
    <3> QED
      BY <1>3, <3>2, <3>3 DEF AppendLine, InPlaceOrSaved
  <2> QED
    BY <2>1, <2>2
<1>4. CASE WriteTarget
  <2>1. log' = log /\ backup' = backup
    BY <1>4 DEF WriteTarget
  <2>2. i \in Applied(t) /\ ContentOf(i, t)' = ContentOf(i, t)
    BY <2>1, HistoryStays
  <2>3. CASE t # Min(op.writes)
    BY <1>2, <1>4, <2>2, <2>3 DEF WriteTarget
  <2>4. CASE t = Min(op.writes) /\ target[t] = ContentOf(i, t)
    <3>1. step = "backup" /\ op.kind = "apply"
      BY <1>4 DEF WriteTarget, TypeInv, OpInv
    <3>2. t \in (op.writes \ op.backups) \ edited
      BY <1>1, <1>4, <2>4, <3>1, NextTarget DEF WriteTarget
    <3>3. target[t] # Missing
      BY <2>2, <2>4, ContentIsText, CatalogPromotionAssumption
    <3>4. PICK b \in DOMAIN backup :
            b[2] = NextId /\ b[3] = BaseName[t] /\ backup[b] = target[t]
      BY <3>1, <3>2, <3>3 DEF BackedInv, Saved
    <3>5. b[2] > i
      <4>1. i \in 1 .. Len(log) /\ Len(log) \in Nat
        BY <2>2, ContentIsText DEF TypeInv, TypeOK
      <4> QED
        BY <3>4, <4>1 DEF NextId
    <3> QED
      BY <2>1, <2>2, <2>4, <3>4, <3>5 DEF InPlaceOrSaved
  <2>5. CASE target[t] # ContentOf(i, t)
    BY <1>1, <2>1, <2>2, <2>5 DEF KeptInv, InPlaceOrSaved
  <2> QED
    BY <2>3, <2>4, <2>5
<1>5. CASE log' = log /\ target'[t] = target[t]
  BY <1>2, <1>5, HistoryStays
<1>6. ASSUME NEW u \in Target, EditTarget(u)
      PROVE  log' = log /\ target'[t] = target[t]
  <2>1. t # u /\ log' = log
    BY <1>6 DEF EditTarget
  <2> QED
    BY <1>6, <2>1 DEF EditTarget
<1> QED
  BY <1>3, <1>4, <1>5, <1>6
     DEF Next, vars, ProposePromotion, ApplyPromotion, AppendEvent, Begin,
         WriteBackup, WriteRecord, ReplaceStatus, Stop

\* An apply writes a target after it has written down what it replaces, and
\* nothing but a hand changes what it wrote before its event is appended.
LEMMA InFlightStep ==
  ASSUME TypeInv, WrittenInv, BackedInv, [Next]_vars
  PROVE  WrittenInv' /\ BackedInv'
<1>0. edited \subseteq edited'
  BY DEF Next, vars, ProposePromotion, ApplyPromotion, AppendEvent, Begin,
     WriteBackup, WriteTarget, AppendLine, WriteRecord, ReplaceStatus, Stop,
     EditTarget
<1>1. ASSUME NEW p \in 1 .. MaxProposal, ApplyPromotion(p)
      PROVE  WrittenInv' /\ BackedInv'
  <2>1. /\ op'.writes = DOMAIN record[p].candidates
        /\ op'.backups = Existing(DOMAIN record[p].candidates)
        /\ op'.event.proposal = p
        /\ record' = record /\ target' = target
    BY <1>1 DEF ApplyPromotion, Begin, Event
  <2>2. DOMAIN record[p].candidates \subseteq Target
    <3>1. record[p].candidates \in Bundle
      BY <1>1, CatalogPromotionAssumption
         DEF ApplyPromotion, TypeInv, TypeOK, RecordType
    <3> QED
      BY <3>1, Candidates
  <2>3. WrittenInv'
    BY <2>1 DEF WrittenInv, InFlight
  <2>4. BackedInv'
    BY <2>1 DEF BackedInv, Existing
  <2> QED
    BY <2>3, <2>4
<1>2. CASE WriteBackup
  <2> DEFINE t == Min(op.backups)
  <2>1. /\ step = "backup" /\ step' = "backup" /\ op.kind = "apply"
        /\ t \in op.backups /\ target' = target /\ record' = record
        /\ log' = log /\ edited' = edited
    BY <1>2, NextTarget DEF WriteBackup, TypeInv, OpInv
  <2>2. op' = ApplyOp(op.backups \ {t}, op.writes, op.event)
    BY <1>2, <2>1, InApply DEF WriteBackup, ApplyOp
  <2>3. /\ op'.writes = op.writes /\ op'.backups = op.backups \ {t}
        /\ op'.event = op.event /\ op'.kind = "apply"
    BY <2>2 DEF ApplyOp
  <2>4. WrittenInv'
    BY <2>1, <2>3 DEF WrittenInv, Applying, InFlight
  <2>5. ASSUME NEW u \in (op.writes \ op'.backups) \ edited
        PROVE  target[u] = Missing \/ Saved(u)'
    <3>1. CASE u = t
      <4>1. CASE target[t] # Missing /\ Keep(BackupPath(t), target[t])
        <5>1. /\ BackupPath(t) \in DOMAIN backup'
              /\ backup'[BackupPath(t)] = target[t]
          BY <4>1 DEF Keep, Store
        <5>2. BackupPath(t)[2] = NextId /\ BackupPath(t)[3] = BaseName[t]
          BY DEF BackupPath
        <5> QED
          BY <2>1, <3>1, <5>1, <5>2 DEF Saved, NextId
      <4> QED
        BY <1>2, <3>1, <4>1 DEF WriteBackup
    <3>2. CASE u # t
      <4>1. target[u] = Missing \/ Saved(u)
        BY <2>1, <2>3, <2>5, <3>2 DEF BackedInv
      <4> QED
        BY <2>1, <4>1, BackupsStay DEF Saved, NextId
    <3> QED
      BY <3>1, <3>2
  <2>6. BackedInv'
    BY <2>1, <2>3, <2>5 DEF BackedInv
  <2> QED
    BY <2>4, <2>6
<1>3. CASE WriteTarget
  <2> DEFINE t == Min(op.writes)
  <2>1. /\ step = "backup" /\ op.kind = "apply" /\ t \in op.writes
        /\ t \in Target /\ record' = record /\ edited' = edited
        /\ log' = log /\ backup' = backup
        /\ target' = [target EXCEPT ![t] = InFlight.candidates[t]]
    BY <1>3, NextTarget DEF WriteTarget, TypeInv, OpInv, InFlight
  <2>2. op' = ApplyOp(op.backups, op.writes \ {t}, op.event)
    BY <1>3, <2>1, InApply DEF WriteTarget, ApplyOp
  <2>3. /\ op'.writes = op.writes \ {t} /\ op'.backups = op.backups
        /\ op'.event = op.event /\ op'.kind = "apply"
    BY <2>2 DEF ApplyOp
  <2>4. /\ target'[t] = InFlight.candidates[t]
        /\ \A u \in Target \ {t} : target'[u] = target[u]
    BY <2>1 DEF TypeInv, TypeOK
  <2>5. InFlight' = InFlight /\ DOMAIN InFlight.candidates \subseteq Target
    BY <2>1, <2>3, InApply, Candidates DEF InFlight
  <2>6. WrittenInv'
    <3>1. \A u \in (DOMAIN InFlight.candidates \ op.writes) \ edited :
             target[u] = InFlight.candidates[u]
      BY <2>1 DEF WrittenInv, Applying
    <3> HIDE DEF t
    <3> QED
      BY <2>1, <2>3, <2>4, <2>5, <3>1 DEF WrittenInv
  <2>7. BackedInv'
    <3>1. \A u \in op'.writes : u \in op.writes /\ u # t /\ u \in Target
      BY <2>1, <2>3, NextTarget
    <3>2. \A u \in (op'.writes \ op'.backups) \ edited :
             target[u] = Missing \/ Saved(u)
      BY <2>1, <2>3, <3>1 DEF BackedInv
    <3> HIDE DEF t
    <3> QED
      BY <2>1, <2>4, <3>1, <3>2 DEF BackedInv, Saved, NextId
  <2> QED
    BY <2>6, <2>7
<1>4. ASSUME NEW u \in Target, EditTarget(u)
      PROVE  WrittenInv' /\ BackedInv'
  <2>1. /\ op' = op /\ step' = step /\ record' = record /\ log' = log
        /\ backup' = backup
        /\ \A t \in Target \ edited' : t \notin edited /\ target'[t] = target[t]
    BY <1>4 DEF EditTarget
  <2>2. op.kind = "apply" =>
          DOMAIN InFlight.candidates \subseteq Target
          /\ op.writes \subseteq Target
    BY InApply, Candidates, NextTarget DEF InFlight
  <2>3. WrittenInv'
    BY <2>1, <2>2 DEF WrittenInv, Applying, InFlight
  <2>4. step = "backup" => op.kind = "apply"
    BY DEF TypeInv, OpInv
  <2>5. BackedInv'
    BY <2>1, <2>2, <2>4 DEF BackedInv, Saved, NextId
  <2> QED
    BY <2>3, <2>5
<1>5. CASE step' # "backup" /\ ~ Applying'
  BY <1>5 DEF WrittenInv, BackedInv
<1>6. CASE UNCHANGED vars
  BY <1>6 DEF vars, WrittenInv, BackedInv, Applying, InFlight, Saved, NextId
<1>7. ASSUME NEW c \in Bundle, NEW base \in [DOMAIN c -> Text \cup {Missing}],
             ProposePromotion(c, base)
      PROVE  step' # "backup" /\ ~ Applying'
  BY <1>7 DEF ProposePromotion, Begin, Applying
<1>8. CASE \/ \E line \in HandLine : AppendEvent(line)
           \/ AppendLine \/ WriteRecord \/ ReplaceStatus \/ Stop
  <2>1. step' # "backup" /\ ~ Applying'
    BY <1>8 DEF AppendEvent, AppendLine, WriteRecord, ReplaceStatus, Stop,
       Begin, Applying
  <2> QED
    BY <1>5, <2>1
<1> QED
  BY <1>1, <1>2, <1>3, <1>4, <1>5, <1>6, <1>7, <1>8 DEF Next

\* At the start nothing was promoted and nothing is in flight.
LEMMA KeptInit == Init => KeptInv /\ WrittenInv /\ BackedInv
<1> SUFFICES ASSUME Init PROVE KeptInv /\ WrittenInv /\ BackedInv
  OBVIOUS
<1>1. Len(log) = 1 /\ Recorded(log[1]) = "other"
  BY HelperLine DEF Init
<1>2. \A t : Applied(t) = {}
  BY <1>1 DEF Applied
<1> QED
  BY <1>2 DEF Init, KeptInv, WrittenInv, BackedInv, Applying

LEMMA KeptHolds == Spec => [](TypeInv /\ KeptInv /\ WrittenInv /\ BackedInv)
<1> DEFINE I == KeptInv /\ WrittenInv /\ BackedInv
<1>1. Init => I
  BY KeptInit
<1>2. TypeInv /\ I /\ [Next]_vars => I'
  BY KeptStep, InFlightStep
<1> QED
  BY <1>1, <1>2, TypesHold, PTL DEF Spec

\* Whatever an apply recorded as promoted is under its target or in a backup
\* made under the id of a later event, for every target no hand has touched,
\* wherever applies stop, whatever is applied twice, and whichever targets
\* share the name of their backup.
THEOREM NothingPromotedIsLost == Spec => []PromotedIsNeverLost
<1>1. KeptInv => PromotedIsNeverLost
  BY DEF KeptInv, InPlaceOrSaved, PromotedIsNeverLost
<1> QED
  BY <1>1, KeptHolds, PTL

-----------------------------------------------------------------------------
(***************************************************************************)
(* Every promotion was made against what the promotion before it left.     *)
(***************************************************************************)

\* What the last promotion of a target put there.
Latest(t) ==
  IF Applied(t) = {} THEN Missing ELSE ContentOf(Max(Applied(t)), t)

\* A target that no hand and no unrecorded apply wrote holds just that.
CurrentInv ==
  \A t \in Target \ (edited \cup halved \cup Written) : target[t] = Latest(t)

\* So does, while an apply is in flight, the base of what it applies.
BaseInv ==
  Applying =>
    \A t \in DOMAIN InFlight.candidates \ (edited \cup halved) :
       InFlight.base[t] = Latest(t)

Built(t, j) ==
  LET before == {i \in Applied(t) : i < j}
  IN  record[log[j].proposal].base[t] =
        IF before = {} THEN Missing ELSE ContentOf(Max(before), t)

BuiltInv ==
  \A t \in Target \ (edited \cup halved) : \A j \in Applied(t) : Built(t, j)

\* Applied events have positions in the log, so the last one is among them.
LEMMA LatestIsApplied ==
  ASSUME TypeInv, NEW t, NEW S \in SUBSET Applied(t), S # {}
  PROVE  Max(S) \in S
<1>1. Len(log) \in Nat /\ S \in SUBSET (0 .. Len(log))
  BY DEF TypeInv, TypeOK, Applied
<1> QED
  BY <1>1, MaxIsLargest

\* What was promoted last does not change without another event.
LEMMA LatestStays ==
  ASSUME TypeInv, [Next]_vars, log' = log, NEW t
  PROVE  Latest(t)' = Latest(t)
<1>1. Applied(t)' = Applied(t)
  BY HistoryStays
<1>2. CASE Applied(t) = {}
  BY <1>1, <1>2 DEF Latest
<1>3. CASE Applied(t) # {}
  <2>1. Max(Applied(t)) \in Applied(t)
    BY <1>3, LatestIsApplied
  <2>2. ContentOf(Max(Applied(t)), t)' = ContentOf(Max(Applied(t)), t)
    <3>1. ContentOf(Max(Applied(t)), t)' =
            record'[log'[Max(Applied(t)')].proposal].candidates[t]
      BY DEF ContentOf
    <3> QED
      BY <1>1, <2>1, <3>1, HistoryStays DEF ContentOf
  <2> QED
    BY <1>1, <1>3, <2>2 DEF Latest
<1> QED
  BY <1>2, <1>3

\* After a promotion of the target it is what that promotion wrote.
LEMMA LatestIsNew ==
  ASSUME TypeInv, AppendLine, NEW t, op.kind = "apply",
         t \in DOMAIN InFlight.candidates
  PROVE  Latest(t)' = InFlight.candidates[t]
<1> DEFINE n == Len(log) + 1
<1>1. /\ Len(log) \in Nat /\ log'[n] = op.event
      /\ Applied(t)' = Applied(t) \cup {n} /\ Applied(t) \subseteq 1 .. Len(log)
  BY HistoryGrows
<1>2. Applied(t)' \in SUBSET (0 .. n) /\ n \in Applied(t)' /\ n \in Nat
  BY <1>1
<1>3. Max(Applied(t)') \in Applied(t)' /\ n <= Max(Applied(t)')
  BY <1>2, MaxIsLargest
<1>4. Max(Applied(t)') = n
  BY <1>2, <1>3
<1>5. Latest(t)' = record'[log'[Max(Applied(t)')].proposal].candidates[t]
  BY <1>2 DEF Latest, ContentOf
<1> QED
  BY <1>1, <1>4, <1>5 DEF AppendLine, InFlight

\* The content of other targets than those of the event stays the latest.
LEMMA LatestOfOthers ==
  ASSUME TypeInv, AppendLine, NEW t,
         ~ (op.kind = "apply" /\ t \in DOMAIN InFlight.candidates)
  PROVE  Latest(t)' = Latest(t)
<1>1. /\ Applied(t)' = Applied(t)
      /\ \A i \in Applied(t) : log'[i] = log[i]
      /\ record' = record
  <2>1. Applied(t)' = Applied(t) /\ Applied(t) \subseteq 1 .. Len(log)
    BY HistoryGrows
  <2>2. log \in Seq(LineType) /\ op.event \in LineType
    BY DEF AppendLine, TypeInv, TypeOK, OpInv, IsOp, NoOp, LineType
  <2> QED
    BY <2>1, <2>2 DEF AppendLine
<1>2. CASE Applied(t) = {}
  BY <1>1, <1>2 DEF Latest
<1>3. CASE Applied(t) # {}
  <2>1. Max(Applied(t)) \in Applied(t)
    BY <1>3, LatestIsApplied
  <2>2. Latest(t)' = record'[log'[Max(Applied(t)')].proposal].candidates[t]
    BY <1>1, <1>3 DEF Latest, ContentOf
  <2>3. Latest(t) = record[log[Max(Applied(t))].proposal].candidates[t]
    BY <1>3 DEF Latest, ContentOf
  <2> QED
    BY <1>1, <2>1, <2>2, <2>3
<1> QED
  BY <1>2, <1>3

\* Targets of an apply that are not its own any more were edited, or left
\* half-way, and stay so.
LEMMA MarksGrow ==
  ASSUME [Next]_vars
  PROVE  edited \subseteq edited' /\ halved \subseteq halved'
BY DEF Next, vars, ProposePromotion, ApplyPromotion, AppendEvent, Begin,
   WriteBackup, WriteTarget, AppendLine, WriteRecord, ReplaceStatus, Stop,
   EditTarget

\* A step that appends nothing leaves the contents of the untouched targets
\* and the base of the apply in flight up to date.
LEMMA CurrentStep ==
  ASSUME TypeInv, CurrentInv, BaseInv, WrittenInv, [Next]_vars
  PROVE  CurrentInv' /\ BaseInv'
<1>1. ASSUME NEW p \in 1 .. MaxProposal, ApplyPromotion(p)
      PROVE  CurrentInv' /\ BaseInv'
  <2>1. /\ op'.writes = DOMAIN record[p].candidates
        /\ op'.event.proposal = p /\ op'.kind = "apply" /\ step' = "backup"
        /\ p \in DOMAIN record /\ BaseMatches(record[p].base) /\ step = "idle"
        /\ record' = record /\ target' = target /\ log' = log
        /\ edited' = edited /\ halved' = halved
    BY <1>1 DEF ApplyPromotion, Begin, Event
  <2>2. Written = {} /\ Written' = {}
    BY <2>1 DEF Written
  <2>3. record[p].candidates \in Bundle /\ SameTargets(record[p])
    BY <2>1, CatalogPromotionAssumption
       DEF TypeInv, TypeOK, RecordType, RecordInv
  <2>4. /\ DOMAIN record[p].candidates \subseteq Target
        /\ \A t \in DOMAIN record[p].candidates : record[p].base[t] = target[t]
    BY <2>1, <2>3, Candidates DEF BaseMatches, SameTargets
  <2>5. \A t : Latest(t)' = Latest(t)
    BY <2>1, LatestStays
  <2>6. CurrentInv'
    BY <2>1, <2>2, <2>5 DEF CurrentInv
  <2>7. BaseInv'
    BY <2>1, <2>2, <2>4, <2>5 DEF CurrentInv, BaseInv, InFlight
  <2> QED
    BY <2>6, <2>7
<1>2. CASE WriteBackup
  <2> DEFINE t == Min(op.backups)
  <2>1. /\ step = "backup" /\ step' = "backup" /\ op.kind = "apply"
        /\ target' = target /\ record' = record
        /\ log' = log /\ edited' = edited /\ halved' = halved
    BY <1>2 DEF WriteBackup, TypeInv, OpInv
  <2>2. op' = ApplyOp(op.backups \ {t}, op.writes, op.event)
    BY <1>2, <2>1, InApply DEF WriteBackup, ApplyOp
  <2>3. op'.writes = op.writes /\ op'.event = op.event /\ op'.kind = "apply"
    BY <2>2 DEF ApplyOp
  <2>4. Written' = Written /\ InFlight' = InFlight
    BY <2>1, <2>3 DEF Written, InFlight
  <2>5. \A u : Latest(u)' = Latest(u)
    BY <2>1, LatestStays
  <2> QED
    BY <2>1, <2>4, <2>5 DEF CurrentInv, BaseInv, Applying
<1>3. CASE WriteTarget
  <2> DEFINE t == Min(op.writes)
  <2>1. /\ step = "backup" /\ step' \in {"backup", "append"}
           /\ op.kind = "apply"
        /\ t \in op.writes /\ t \in Target /\ record' = record
        /\ log' = log /\ edited' = edited /\ halved' = halved
        /\ target' = [target EXCEPT ![t] = InFlight.candidates[t]]
    BY <1>3, NextTarget DEF WriteTarget, TypeInv, OpInv, InFlight
  <2>2. op' = ApplyOp(op.backups, op.writes \ {t}, op.event)
    BY <1>3, <2>1, InApply DEF WriteTarget, ApplyOp
  <2>3. op'.writes = op.writes \ {t} /\ op'.event = op.event
        /\ op'.kind = "apply"
    BY <2>2 DEF ApplyOp
  <2>4. t \in DOMAIN InFlight.candidates
    BY <2>1, InApply DEF InFlight
  <2>5. Written' = Written \cup {t} /\ InFlight' = InFlight
    BY <2>1, <2>3, <2>4 DEF Written, InFlight
  <2>6. \A u : Latest(u)' = Latest(u)
    BY <2>1, LatestStays
  <2>7. \A u \in Target \ {t} : target'[u] = target[u]
    BY <2>1 DEF TypeInv, TypeOK
  <2> HIDE DEF t
  <2>8. CurrentInv'
    BY <2>1, <2>5, <2>6, <2>7 DEF CurrentInv
  <2>9. BaseInv'
    BY <2>1, <2>5, <2>6 DEF BaseInv, Applying
  <2> QED
    BY <2>8, <2>9
<1>4. CASE AppendLine
  <2>1. /\ step = "append" /\ ~ Applying' /\ Written' = {} /\ target' = target
        /\ edited' = edited /\ halved' = halved
    BY <1>4 DEF AppendLine, Applying, Written
  <2>2. ASSUME NEW t \in Target \ (edited \cup halved)
        PROVE  target[t] = Latest(t)'
    <3>1. CASE op.kind = "apply" /\ t \in DOMAIN InFlight.candidates
      <4>1. op.writes = {}
        BY <2>1, <3>1 DEF TypeInv, OpInv
      <4>2. target[t] = InFlight.candidates[t]
        BY <2>1, <2>2, <3>1, <4>1 DEF WrittenInv, Applying
      <4> QED
        BY <1>4, <3>1, <4>2, LatestIsNew
    <3>2. CASE ~ (op.kind = "apply" /\ t \in DOMAIN InFlight.candidates)
      <4>1. t \notin Written
        BY <3>2 DEF Written, InFlight
      <4>2. target[t] = Latest(t)
        BY <2>2, <4>1 DEF CurrentInv
      <4> QED
        BY <1>4, <3>2, <4>2, LatestOfOthers
    <3> QED
      BY <3>1, <3>2
  <2> QED
    BY <2>1, <2>2 DEF CurrentInv, BaseInv
<1>5. CASE Stop
  <2>1. /\ ~ Applying' /\ Written' = {} /\ target' = target
        /\ edited' = edited /\ halved' = halved \cup Written /\ log' = log
    BY <1>5 DEF Stop, Applying, Written
  <2>2. \A u : Latest(u)' = Latest(u)
    BY <2>1, LatestStays
  <2> QED
    BY <2>1, <2>2 DEF CurrentInv, BaseInv
<1>6. ASSUME NEW u \in Target, EditTarget(u)
      PROVE  CurrentInv' /\ BaseInv'
  <2>1. /\ op' = op /\ step' = step /\ record' = record /\ log' = log
        /\ halved' = halved
        /\ \A t \in Target \ edited' : t \notin edited /\ target'[t] = target[t]
    BY <1>6 DEF EditTarget
  <2>2. Written' = Written /\ InFlight' = InFlight
    BY <2>1 DEF Written, InFlight
  <2>3. \A t : Latest(t)' = Latest(t)
    BY <2>1, LatestStays
  <2>4. Applying => DOMAIN InFlight.candidates \subseteq Target
    BY InApply, Candidates DEF Applying, InFlight
  <2> QED
    BY <2>1, <2>2, <2>3, <2>4 DEF CurrentInv, BaseInv, Applying
<1>7. CASE /\ ~ Applying /\ ~ Applying' /\ log' = log /\ target' = target
           /\ edited' = edited /\ halved' = halved
  <2>1. Written = {} /\ Written' = {}
    BY <1>7 DEF Written, Applying
  <2>2. \A t : Latest(t)' = Latest(t)
    BY <1>7, LatestStays
  <2> QED
    BY <1>7, <2>1, <2>2 DEF CurrentInv, BaseInv
<1>8. CASE UNCHANGED vars
  <2>1. \A t : Latest(t)' = Latest(t)
    BY <1>8, LatestStays DEF vars
  <2> QED
    BY <1>8, <2>1 DEF vars, CurrentInv, BaseInv, Applying, Written, InFlight
<1>9. ASSUME NEW c \in Bundle, NEW base \in [DOMAIN c -> Text \cup {Missing}],
             ProposePromotion(c, base)
      PROVE  CurrentInv' /\ BaseInv'
  <2>1. /\ ~ Applying /\ ~ Applying' /\ log' = log /\ target' = target
        /\ edited' = edited /\ halved' = halved
    BY <1>9 DEF ProposePromotion, Begin, Applying
  <2> QED
    BY <1>7, <2>1
<1>10. CASE \/ \E line \in HandLine : AppendEvent(line)
            \/ WriteRecord \/ ReplaceStatus
  <2>1. /\ ~ Applying /\ ~ Applying' /\ log' = log /\ target' = target
        /\ edited' = edited /\ halved' = halved
    BY <1>10 DEF AppendEvent, WriteRecord, ReplaceStatus, Begin, Applying
  <2> QED
    BY <1>7, <2>1
<1> QED
  BY <1>1, <1>2, <1>3, <1>4, <1>5, <1>6, <1>8, <1>9, <1>10 DEF Next

\* A promotion is made against the latest content of each of its targets.
LEMMA BuiltStep ==
  ASSUME TypeInv, BuiltInv, BaseInv, [Next]_vars
  PROVE  BuiltInv'
<1> SUFFICES ASSUME NEW t \in Target \ (edited \cup halved),
NEW j \in Applied(t)'
             PROVE  Built(t, j)'
  BY MarksGrow DEF BuiltInv
<1> DEFINE before == {i \in Applied(t) : i < j}
           before1 == {i \in Applied(t)' : i < j}
<1>1. ASSUME j \in Applied(t), before1 = before,
             \A i \in Applied(t) :
               /\ ContentOf(i, t)' = ContentOf(i, t)
               /\ record'[log'[i].proposal] = record[log[i].proposal]
      PROVE  Built(t, j)'
  <2>1. Built(t, j)
    BY <1>1 DEF BuiltInv
  <2>2. CASE before = {}
    BY <1>1, <2>1, <2>2 DEF Built
  <2>3. CASE before # {}
    <3>1. Max(before) \in Applied(t)
      <4>1. before \in SUBSET Applied(t)
        OBVIOUS
      <4>2. Max(before) \in before
        BY <2>3, <4>1, LatestIsApplied
      <4> QED
        BY <4>1, <4>2
    <3>2. record'[log'[Max(before)].proposal].candidates[t] =
            record[log[Max(before)].proposal].candidates[t]
      BY <1>1, <3>1
    <3>3. record[log[j].proposal].base[t] =
            record[log[Max(before)].proposal].candidates[t]
      BY <2>1, <2>3 DEF Built, ContentOf
    <3>4. record'[log'[j].proposal].base[t] =
            record'[log'[Max(before1)].proposal].candidates[t]
      BY <1>1, <3>2, <3>3
    <3>5. before1 # {}
      BY <1>1, <2>3
    <3> QED
      BY <3>4, <3>5 DEF Built, ContentOf
  <2> QED
    BY <2>2, <2>3
<1>2. CASE log' = log
  <2>1. /\ Applied(t)' = Applied(t)
        /\ \A i \in Applied(t) :
              /\ ContentOf(i, t)' = ContentOf(i, t)
              /\ record'[log'[i].proposal] = record[log[i].proposal]
    BY <1>2, HistoryStays
  <2>2. before1 = before /\ j \in Applied(t)
    BY <2>1
  <2> QED
    BY <1>1, <2>1, <2>2
<1>3. CASE AppendLine
  <2>1. /\ Len(log) \in Nat /\ log'[Len(log) + 1] = op.event
        /\ Applied(t) \subseteq 1 .. Len(log)
        /\ Applied(t)' \subseteq Applied(t) \cup {Len(log) + 1}
        /\ Applied(t) \subseteq Applied(t)'
        /\ \A i \in Applied(t) :
              /\ ContentOf(i, t)' = ContentOf(i, t)
              /\ record'[log'[i].proposal] = record[log[i].proposal]
    BY <1>3, HistoryGrows
  <2>2. before1 = before
    <3>1. j \in 1 .. Len(log) + 1
      BY <2>1
    <3>2. ~ (Len(log) + 1 < j)
      BY <2>1, <3>1
    <3> QED
      BY <2>1, <3>2
  <2>3. CASE j \in Applied(t)
    BY <1>1, <2>1, <2>2, <2>3
  <2>4. CASE j \notin Applied(t)
    <3>1. /\ j = Len(log) + 1 /\ op.kind = "apply"
          /\ t \in DOMAIN InFlight.candidates
      BY <1>3, <2>4, HistoryGrows
    <3>2. InFlight.base[t] = Latest(t)
      BY <1>3, <3>1 DEF AppendLine, BaseInv, Applying
    <3>3. record'[log'[j].proposal].base[t] = Latest(t)
      BY <1>3, <2>1, <3>1, <3>2 DEF AppendLine, InFlight
    <3>4. before = Applied(t)
      <4>1. \A i \in Applied(t) : i < j
        BY <2>1, <3>1
      <4> QED
        BY <4>1
    <3>5. CASE Applied(t) = {}
      BY <2>2, <3>3, <3>4, <3>5 DEF Built, Latest
    <3>6. CASE Applied(t) # {}
      <4>1. Max(Applied(t)) \in Applied(t)
        BY <3>6, LatestIsApplied
      <4>2. Latest(t) = record'[log'[Max(before1)].proposal].candidates[t]
        BY <2>1, <2>2, <3>4, <3>6, <4>1 DEF Latest, ContentOf
      <4>3. before1 # {}
        BY <2>2, <3>4, <3>6
      <4> QED
        BY <3>3, <4>2, <4>3 DEF Built, ContentOf
    <3> QED
      BY <3>5, <3>6
  <2> QED
    BY <2>3, <2>4
<1> QED
  BY <1>2, <1>3
     DEF Next, vars, ProposePromotion, ApplyPromotion, AppendEvent, Begin,
         WriteBackup, WriteTarget, WriteRecord, ReplaceStatus, Stop, EditTarget

\* At the start every target is missing and nothing was promoted.
LEMMA BuiltInit == Init => CurrentInv /\ BaseInv /\ BuiltInv
<1> SUFFICES ASSUME Init PROVE CurrentInv /\ BaseInv /\ BuiltInv
  OBVIOUS
<1>1. Len(log) = 1 /\ Recorded(log[1]) = "other"
  BY HelperLine DEF Init
<1>2. \A t : Applied(t) = {}
  BY <1>1 DEF Applied
<1> QED
  BY <1>2 DEF Init, CurrentInv, BaseInv, BuiltInv, Applying, Latest

\* Of proposals made side by side at most one is applied: every promotion was
\* made against exactly what the promotion before it left, for every target
\* that neither a hand nor an apply stopped half-way has changed.
THEOREM PromotionsFollowEachOther == Spec => []PromotionsBuildOnEachOther
<1> DEFINE I == TypeInv /\ KeptInv /\ WrittenInv /\ BackedInv
           J == CurrentInv /\ BaseInv /\ BuiltInv
<1>1. Init => J
  BY BuiltInit
<1>2. I /\ J /\ [Next]_vars => J'
  BY CurrentStep, BuiltStep
<1>3. J => PromotionsBuildOnEachOther
  BY DEF BuiltInv, Built, PromotionsBuildOnEachOther
<1>4. Spec => []I
  BY KeptHolds
<1> QED
  BY <1>1, <1>2, <1>3, <1>4, PTL DEF Spec

-----------------------------------------------------------------------------
(***************************************************************************)
(* The event log and status.json implement EventLedger, with files written *)
(* before the append as well as after it.                                  *)
(***************************************************************************)

\* The events status.json has caught up with.
Committed == SubSeq(log, 1, last)

\* The log is ahead of status.json and no command in flight will mend that.
Frozen == ~Coherent /\ step \notin {"record", "status"}

Ledger == INSTANCE EventLedger WITH
            Writer <- LineType, committed <- Committed, frozen <- Frozen

\* The beginning of a log grows by the line after it.
LEMMA PrefixGrows ==
  ASSUME NEW S, NEW lines \in Seq(S), NEW n \in Nat, Len(lines) = n + 1
  PROVE  SubSeq(lines, 1, n + 1) = Append(SubSeq(lines, 1, n), lines[n + 1])
<1>1. /\ 1 \in 1 .. Len(lines) /\ n + 1 \in 1 .. Len(lines)
      /\ (n + 1) - 1 = n
  OBVIOUS
<1>2. SubSeq(lines, 1, n + 1) = SubSeq(lines, 1, n) \o <<lines[n + 1]>>
  <2>1. SubSeq(lines, 1, n + 1) =
          SubSeq(lines, 1, (n + 1) - 1) \o <<lines[n + 1]>>
    BY <1>1, SubSeqRecursiveSecond
  <2> QED
    BY <1>1, <2>1
<1>3. SubSeq(lines, 1, n) \in Seq(S) /\ lines[n + 1] \in S
  OBVIOUS
<1> QED
  BY <1>2, <1>3, AppendIsConcat

\* A promotion command commits one event or none.  An apply that stops among
\* its targets leaves the ledger open: the next command goes on from there.
THEOREM ImplementsLedger == Spec => Ledger!Spec
<1> USE Bounds
<1>1. Init => Ledger!Init
  <2> SUFFICES ASSUME Init PROVE Ledger!Init
    OBVIOUS
  <2>1. Len(log) = 1 /\ last = 1 /\ log = SubSeq(log, 1, 1)
    BY DEF Init
  <2> QED
    BY <2>1 DEF Init, Ledger!Init, Committed, Frozen, Coherent
<1>3. TypeInv /\ [Next]_vars => [Ledger!Next]_(Ledger!vars)
  <2> SUFFICES ASSUME TypeInv, [Next]_vars
               PROVE  [Ledger!Next]_(Ledger!vars)
    OBVIOUS
  <2>1. /\ log \in Seq(LineType) /\ Len(log) \in Nat /\ last \in Nat
        /\ last <= Len(log) /\ Len(log) <= MaxEventId
    BY DEF TypeInv, TypeOK, LogInv
  <2>2. CASE AppendLine
    <3>1. PICK e : log' = Append(log, e)
      BY <2>2 DEF AppendLine
    <3>2. Committed' = Committed
      BY <2>1, <2>2, <3>1 DEF Committed, AppendLine
    <3>3. ~Frozen /\ ~Frozen'
      BY <2>2 DEF Frozen, AppendLine, TypeInv, TypeOK, LogInv,
         Coherent
    <3> QED
      BY <3>2, <3>3 DEF Ledger!vars, Frozen
  <2>3. CASE ReplaceStatus
    <3>1. Len(log) = last + 1 /\ last' = last + 1 /\ log' = log
      BY <2>3 DEF ReplaceStatus, TypeInv, TypeOK, LogInv
    <3>2. Len(Committed) = last /\ log[last + 1] \in LineType
      BY <2>1, <3>1 DEF Committed
    <3>3. Committed' = Append(Committed, log[last + 1])
      BY <2>1, <3>1, PrefixGrows DEF Committed
    <3>4. ~Frozen /\ ~Frozen'
      BY <2>3, <3>1 DEF Frozen, ReplaceStatus, Coherent
    <3> QED
      BY <2>1, <3>1, <3>2, <3>3, <3>4
      DEF Ledger!Next, Ledger!Commit, Frozen
  <2>4. CASE log' = log /\ last' = last /\ (Frozen => Frozen')
    BY <2>4 DEF Committed, Frozen, Ledger!Next, Ledger!Freeze, Ledger!vars
  <2>5. CASE ~AppendLine /\ ~ReplaceStatus
    <3>1. log' = log /\ last' = last
      BY <2>5 DEF Next, vars,
       ProposePromotion, ApplyPromotion, AppendEvent, Begin, WriteBackup,
       WriteTarget, WriteRecord, EditTarget, Stop
    <3>2. Frozen => Frozen'
      BY <2>5, <3>1 DEF Frozen, Coherent, Next, vars,
       ProposePromotion, ApplyPromotion, AppendEvent, Begin, WriteBackup,
       WriteTarget, WriteRecord, EditTarget, Stop
    <3> QED
      BY <2>4, <3>1, <3>2
  <2> QED
    BY <2>2, <2>3, <2>5
<1> QED
  BY <1>1, <1>3, TypesHold, PTL DEF Spec, Ledger!Spec
=============================================================================
