# kkachi-agent-helper: specifications, model checks and proofs

`kkachi-agent-helper` is a command-line helper for agents that work in a Git
checkout. It keeps the state of a project under `.kkachi/`: an append-only event
log, a status summary, one directory per *run*, artifacts, gate reports, workflow
instances and graphs. Every command is a short-lived operating-system process; all
that processes share is the file system, and there is no daemon and no database.
What makes the helper correct is therefore how its file operations interleave
and what they leave behind when one of them fails.

This directory holds TLA+ modules translated from the Go code, the TLC
configurations that check them on small instances, and proofs of the most
important results for every size of instance. `PROJECT.json` lists the runs, the
source lines behind every definition, the hazards and the findings.

## 1. Inventory

| Component | State it keeps | Operations | What is hard |
|---|---|---|---|
| Locks (`lock.go`) | `.kkachi/project_write.lock`, `.kkachi/active_run.lock` | acquire, release, `lock recover project-write / active-run / all` | unlocked recovery, compare-then-remove, age and pid staleness, two-lock order, leaks on error paths |
| Log and status (`state.go`) | `.kkachi/events.jsonl`, `.kkachi/status.json` | append with a before-append hook and a status hook | read-check-append-replace is not atomic, torn lines, crashes between the writes, the last id |
| Runs (`run.go`) | `run-metadata.json` per run, active-run fields of `status.json` | create, activate, close, abort | sequences of legal commands, retries after a failure |
| Gates (`gate.go`, `gate_report.go`, `impl_gate.go`) | `gate-reports/<gate>.json`, `gate_state` of the metadata, `gate_summary` of the status | `gate check` | three writes per event, fingerprints taken after the evaluation, stale passes |
| Artifacts (`artifact.go`, `artifact_validate.go`) | artifact files of a run | init, write, append, set-status, validate | direct edits by people and agents |
| Workflow instance (`workflow_instance.go`, `workflow_transition_order.go`, `task_dag.go`) | `workflow-instance.json` | create, node start / complete / block, verify | written before its event, stale clients, joins, hand-written events |
| Init (`init.go`) | all of `.kkachi/` | `project init`, `--force` | many exclusive creates without a lock |
| Approvals (`approval.go`) | events only | request, record, show | the latest decision wins |
| Phase plan (`phase_plan.go`, `workflow_phase_projection.go`) | `phase-plan.yaml` | init, set, validate | stored after its event; validated without a lock |
| Workflow graph (`graph.go`) | graph and proposal files | init, propose, apply, queries | base digests, replaced before its event |
| Catalog (`workflow_catalog.go`, `workflow_catalog_promotion.go`) | targets (catalog, DAGs, registry, triggers), proposal records, backups | select, propose, apply | several files per event, no stamp in them |
| GJC (`gjc.go`, `gjc_pilot.go`) | `artifacts/gjc/status.json`, the files it refers to by hash, session, receipt, KAT snapshot | start, callback, plan lock, KAT attachment | repeated and late callbacks; files written before anything is checked |
| Extension gates | none | validators of evidence files | none beyond what the gates have |
| Migration, schemas, doctor, paths, redaction, probe, CLI | none shared | read, copy, report | readers take no lock |

Interactions. Every mutating command takes `project_write.lock`; run transitions
take `active_run.lock` inside it. Everything recorded goes through one function,
`appendEventWithPreparedStatusMutation`, which checks that `status.json` names the
last event of the log, runs an optional hook (workflow instance, graph), appends,
runs an optional hook (metadata, artifacts, reports, phase plan), and replaces
`status.json`. A crash anywhere leaves the two files in disagreement, and the next
command refuses to go on ("frozen" below): the code never repairs this by itself.

## 2. Modules

| Module | Models | Runs |
|---|---|---|
| `HelperState` | locks, recovery, and the append protocol, one file-system call per step, concurrent processes | `helper_state`, `helper_state_liveness`, `concurrent_recovery`, `slow_writer` |
| `EventLedger` | abstract: an atomic ledger that a fault can freeze | implemented by `HelperState` (`LedgerIsAtomic`) and, by proof, by each of the seven modules of whole commands |
| `HelperStateProofs` | proofs about `HelperState` | |
| `RunLifecycle` | runs, their metadata and the active run | `run_lifecycle`, `run_create_while_active` |
| `GateEvidence` | gates, reports, fingerprints, artifacts and what a run requires of them | `gate_evidence` |
| `WorkflowInstance` | instances, their transitions, and the transition-order verifier | `workflow_instance` |
| `TaskDag` | abstract: tasks run in dependency order | implemented by `WorkflowInstance` (`FollowsTaskDag`) |
| `GraphProposals` | the workflow graph, proposals, backups | `graph_proposals` |
| `GjcSession` | the status ledger of a GJC session and the files it names | `gjc_session` |
| `CatalogPromotion` | promotions of several target files with one event | `catalog_promotion` |
| `PhasePlan` | the phase plan, approvals, the projection onto the workflow instance, and the final validation | `phase_plan` |
| `RunLifecycleProofs`, `GateEvidenceProofs`, `WorkflowInstanceProofs`, `GraphProposalsProofs`, `GjcSessionProofs`, `CatalogPromotionProofs`, `PhasePlanProofs` | proofs about the module each is named after | |
| `CycleSearch` | the depth-first cycle search of task DAGs and graphs | assumptions of `MCWorkflowInstance`; proofs in `WorkflowInstanceProofs` |
| `TaskDagFile` | the lines of a task DAG file: parse, validation | assumptions of `MCWorkflowInstance` |
| `GraphFile`, `GraphDiff` | the lines of a workflow graph file: parse, validation; the comparison of two graphs | assumptions of `MCGraphProposals` |
| `GateRules` | which artifacts a gate asks for and what makes them complete | assumptions of `MCGateEvidence` |
| `MC*` | instances for TLC: hosts, symmetry, gates, DAGs, graphs | |

`HelperState` is the only module with concurrent processes. It establishes
`OneWriter`; the other modules rely on it and interleave whole commands, each of
which still consists of one step per file write and may stop before any of them
(`Stop`: an error or a kill; nothing is undone).

### HelperState and the code

`pc[p]` is where process `p` stands: `create`/`metadata` in `acquireLock`,
`inspect`, `verify_target`, `remove_target` in `recoverLocksUnlocked`, `read_status`
to `status` in `appendEventWithPreparedStatusMutation`, `verify_own`/`remove_own`
in the deferred releases. A lock file is `NoFile` or who created it and whether its
metadata has been written: an empty file is invalid to every reader. A process is
one command, so its pid and creation time, which the code compares in
`sameLockIdentity`, are the process itself. `aged` holds the processes whose locks
are more than 30 minutes old; only members of `SlowOwners` may still be alive then.
`ahead` and `behind` stand for the files the two hooks write: each remembers the
event stamped into it. A line of the log is its id, who wrote it and, for
`lock.recovered`, the lock and owner it names; a torn line has id `Torn`.
Commands are classes: those that only append, those that write a file before the
append, those that write one after it, run transitions (two locks), and the three
recoveries.

### The other modules

`RunLifecycle`, `GateEvidence`, `WorkflowInstance` and `GraphProposals` keep a
command in flight in `op` (all it read and computed) and `step` (its next write).
`Begin` is the checks up to the append; the code's `preflightEventCoherence` is the
guard `Coherent`. In `GateEvidence` the content of a file stands for its SHA-256, so
that equal fingerprints mean equal contents; the flag `edited` remembers, for the
properties only, that somebody edited an artifact between evaluation and
fingerprint. `required` is what the run requires, nothing before `artifact init`: what
a gate evaluates (`Evidence`) and which gates the final gate asks for
(`RequiredGates`) change with it, while a stored report keeps the artifacts it was
taken of. `InitArtifacts` plans its files before the event and writes them one by one
after it, and the metadata last. `WorkflowInstance` keeps every field the verifier compares: revisions,
states, and the event ids stored per node; nodes join all of their dependencies.
In `GraphProposals` a graph file is its body and the event id stamped into it, which
together stand for its checksum. People may edit, delete or restore the graph at any
moment; `touched` remembers, for the properties only, when they last did. A body
validates or not, and if not may be replaceable: the narrower path of the
feedback-bounds migration leads to the same files as the general repair and is part
of it.

In `GjcSession` a reference is the content it names, which stands for its SHA-256, and
a status hash is the number of the ledger it was taken of in `made`. The hash covers
everything in a ledger but itself, the pid of `gjc` among it, and a time of whole
seconds: a ledger that differs from an earlier one in nothing but the second may get
that one's hash or a new one (`WriteLedger`). A `gjc` that was started has a pid of its
own; one that could not be started has none, so two such failures can share a hash.
We assume that the operating system does not give one pid to two processes within a
second. The external `gjc` is what `RunGJC`, `CopyNativePlan`
and `CopyNativeGoals` may leave behind, or `RunFails`. There is no preflight: a start
writes the brief, the session, the outputs and the receipt before `WriteLedger` looks at
the event log. `drift` remembers, for the properties only, why the ledger may no
longer agree with its files. In `CatalogPromotion` the targets are numbered in the
order in which they are written; `op` holds the backups and targets still to come.
`edited` and `halved` remember which targets a hand or an interrupted apply changed.
`PhasePlan` keeps the plan that `set` computed before its event in `op`, as the code
does, and gives `validate` two steps: it reads the plan, and later everything else, with
any commands in between. The graph and the instance belong to other modules and are
read as whatever they may be.

`event append` takes any type and payload and records the helper as the actor, whatever
the state of the run. Every module therefore has an action `AppendEvent`, which appends
the lines of the constant `HandLine` (types only in `RunLifecycle`, transitions that
continue the history in `WorkflowInstance`). No definition that models the code looks
at who wrote a line; the field `by` is there for the properties, most of which are
about what the helper itself recorded (`Recorded`). Where the code reads the log back,
hands count: approvals in `PhasePlan`, transitions in `WorkflowInstance`.

### The file formats

Five modules hold pure operators and no state. They are translated from the parsers and
validators and checked by TLC as assumptions of the MC modules, over every small input:

- `CycleSearch`: the search, with the stack of the recursive `visit` spelled out, finds
  a cycle exactly if the transitive closure has one, for all edges among three nodes.
  For every finite graph this is proved, in `WorkflowInstanceProofs`.
- `TaskDagFile`: a file written out is read back as it was; no line of it is without
  effect, except an empty `depends_on`; and what validates is acyclic with known
  dependencies.
- `GraphFile`: the same for graphs (here the line `checks:` has no effect of its own),
  and of the feedback bounds only the canonical ones validate.
- `GraphDiff`: changes that are not flagged for approval only add or reorder phases,
  change titles, owners and evidence, or the policy of proposals, which the comparison
  does not report at all; every valid candidate can be proposed and applied over any
  base; the graph that is applied differs from the candidate only in its stamp.
- `GateRules`: an artifact as the helper created it satisfies no gate, except that the
  baseline of `diff.patch` counts as a patch; every artifact a gate asks for counts;
  `set-status` is read back as set, also under headings that contain a colon; the final
  gate asks for artifacts that are not in the manifest of the run, except for runs in
  production-write and readiness-hardening mode on path A.

A line is a record of what it is, not characters: indentation and keys are kept,
quoting and comments within a scalar are not.

## 3. Runs, properties and bounds

| Run | Shows |
|---|---|
| `helper_state` | three processes, two on one host and one remote, every crash and failed call, and operators who recover stale locks one at a time and never with `recover all`: one writer, gapless ids, `active_run.lock` nested in `project_write.lock`, success only if recorded, no append to an incoherent store, atomic ledger, unlock recorded |
| `helper_state_liveness` | any recovery by anyone at any time, owners alive beyond 30 minutes: types, every lock given back, and every command ends |
| `concurrent_recovery`, `slow_writer` | findings, see below |
| `run_lifecycle` | three runs: metadata follows the log, lifecycles are recorded once and in order, finished is final, and only a run created beside an active one splits the lane |
| `run_create_while_active` | finding, see below |
| `gate_evidence` | the stored outcomes of a gate agree with the log under every interruption and edit, and a final pass means that what every required gate had to evaluate when it was checked was complete when the final check began, unless a report was taken during an edit |
| `workflow_instance` | refinement of `TaskDag`, an expected revision wins once, the verifier accepts exactly the histories whose every change has its event, and transitions written with `event append` are detected |
| `graph_proposals` | what is applied is what was proposed, once per approval, with its predecessor backed up; the graph follows the log |
| `gjc_session` | starts, callbacks, plan lock and KAT evidence with edits and interruptions: a status of a `gjc` that was started is answered at most once and never after the session moved on; between commands the helper accepts the ledger it wrote unless a file was changed from outside, a start stopped, or KAT evidence was attached again |
| `catalog_promotion` | promoted content is in place or in a backup although two targets share the name of theirs; of two proposals side by side one is applied |
| `phase_plan` | every row has the status and the approval flag the helper's events say; a final validation, which locks nothing, passes only if the default phases were finished, the flagged phases stood approved, and complete phases of a managed run stood for nodes that were done |

Bounds. Two processes are enough for a race, a third lets a recovery meet both an
owner and a newcomer (the `slow_writer` counterexample needs all three); 3 event
ids allow two appends after `project.initialized`, so that a stale copy of
`status.json` can meet a newer log and the last id is reached (the ids run to 999999
in the code; `MaxEventId` is that bound). Two runs suffice for a conflict, a third
for a conflict after one has finished; `RunLifecycle.cfg` has 7 events, a full life of
two runs and more. `GateEvidence.cfg` has a gate that fails before `artifact init` and one
the final gate asks for only after it, each with an artifact of its own; artifacts can be
edited without an event, so that 5 event ids hold the init, both gates, and the final
one. Three nodes with a join, 5 event ids and 4 revisions let both
dependencies start and one succeed, and leave room for a command between an
instance write without event and the check that finds it. Of the transitions written
by hand (`MaxManual`) the model takes those that continue the recorded history: any
other is already refused by the replay. `MaxRevision` bounds revisions, which
the code does not. `GraphProposals.cfg` has 7 event ids, enough to initialise, to
propose and apply A to B and B to A, and to try the first approval again; `MaxEdits`
is the one edit by hand, of the graph or of the candidate, at any of those moments.
`GjcSession.cfg` has three ledgers, so that a callback for the first can arrive after
the third, two callback keys, 4 event ids and one edit; a start, an attachment and a
second attachment fit. Its `VIEW` leaves out what neither a later step nor a property can
see, such as a file that nothing names and the next step that touches it replaces.
`CatalogPromotion.cfg` has three targets, two of them of one base
name, two proposals and 6 event ids: both can be proposed on the same base, applied, and
the first tried again; a hand claims once that one was applied. `PhasePlan.cfg` has a default phase that projects to a node
under its second name and a round of feedback that only the graph requires, whose two
phases are one model value (its request is its handling); a hand approves the phase or
claims that it was set; 5 event ids hold an init, two sets or decisions and the end of the run, beside one validation and one edit. A set completes
a row and flags it, or reopens it and leaves the flag; the proofs cover all the others. Its
`VIEW` takes for equal the events that neither a step nor a property of the run tells
apart: requests, the end of the run (which `run` has), and what hands append beside
decisions.

Deadlock is not checked, as every command terminates: processes exit, and a store
that is frozen, or at its last id, refuses all commands.

Fairness. Only `helper_state_liveness` assumes any: weak fairness of each process's
own steps, that is, the operating system keeps scheduling a process that has not
exited. No fairness is assumed of faults, of recoveries or of starting commands.

Each property is accompanied by a mutant of a mapped definition (the operators
commented "Mutant of ...") under which TLC finds it violated.

### Findings

| Run | What happens |
|---|---|
| `concurrent_recovery` | two recoveries of `project_write.lock` append the same event id |
| `slow_writer` | the lock of a live writer expires after 30 minutes; compare-then-remove then removes the next writer's fresh lock, and no event names it |
| `run_create_while_active` | `run create` clears the active run in `status.json`; a second run can be activated |

Further limits of the code are stated in the properties rather than by runs of their
own. `lock recover all` that finds only `active_run.lock` stale runs unlocked beside a
writer: `OneWriter` needs `Recoveries` without it. A gate report whose fingerprints
were taken after an edit may vouch for content nobody evaluated: `EvidenceWasEvaluated`
and `FinalPassIsSound` except reports marked `edited`. `FinalPassIsSound` says what the
stored reports can vouch for, the evidence of the time of each check (`EvidenceAt`).
`docs/specs.md:936` and `:940` say more, that the review gate covers the red-team artifacts
the run requires and that the final gate needs every gate to pass. The code does not
give that: nothing keeps `gate check review` (or `implementation`, or `backend`) from
running before `artifact init`, which then makes the run require more and leaves the
stored pass alone; `checkRequiredGateFreshness` (`impl_gate.go:257-276`) compares only the
artifacts in that report, so the final gate passes while the red-team review required
since is pending, though `gate check review` would fail by then. The steps of that
behaviour are in the model (`CheckGate` with `Evidence`, `WriteRequired`,
`RequiredGateHolds`), with `backend` in the instance of `GateEvidence.cfg`. A workflow node change whose
event was lost stays in a store that looks coherent, and fails verification from
then on: `HelperHistoryVerifies` says exactly when. A second `graph apply` under the
same event id finds the backup of the interrupted first one and fails until any
other event is recorded: `WriteBackup`.

The same holds of the later modules. In `GjcSession`: attaching KAT evidence to a status
that has some replaces the snapshot before anything is checked and leaves a ledger that
is refused until the next start (`drift = "reattached"`); a start refused because the
log is incoherent has already replaced outputs and receipt (`drift = "stopped"`); a
callback whose event was lost is afterwards answered as a repetition, with success
and without an event; a callback under the key of the last one is only compared with
that one; and the callback of a start of a missing `gjc` can be recorded again after an
equal start in the same second, as their hashes are equal (`CallbacksAreInOrder` is about
processes that have a pid). In `CatalogPromotion`: a promotion that stopped between two targets can never
be applied, as its base is gone; one whose targets include two existing triggers
always fails, as both are backed up under one name; a retry under the same event id
finds the backups of the first try; and, as targets bear no stamp, an old proposal can
be applied again once the targets are back at its base. In `PhasePlan`: `set` works on
finished runs, `event append` records approvals for them, which count
(`OnlyHandsDecideAfterFinish`), `validate --final` looks at no coherence (`FinalPassIsBacked` asks for it),
and a phase that the graph comes to require after `init` cannot be added by the helper.

## 4. Proofs

Every property of every passing run is proved, except the one liveness property
(`EveryCommandEnds`): for all values of the constants that meet the module's `ASSUME`,
which TLC evaluates on the instances, and in `HelperStateProofs` partly under
`Disciplined`, see below.

`HelperStateProofs` proves about `HelperState`, for any set of processes, hosts
and any `MaxEventId`, without further assumptions:

- `TypeCorrect`: `Spec => []TypeOK`,
- `LocksGivenBack`: `Spec => []LocksReturned`,
- `StepsAreBounded`: `Spec => EveryStepLeadsOn /\ [](\A p \in Proc : StepsLeft(p) \in 0 .. 100)`;

and assuming `Disciplined`:

- `MutualExclusion`: `Spec => []OneWriter`,
- `SequentialIds`: `Spec => []EventIdsSequential`,
- `CoherentAppends`: `Spec => AppendOnlyWhenCoherent`,
- `SuccessRecorded`: `Spec => []SuccessIsRecorded`,
- `LocksAreNested`: `Spec => []ActiveLockNested`,
- `UnlocksAreRecorded`: `Spec => UnlockRecorded`,
- `ImplementsLedger`: `Spec => LedgerIsAtomic`, the refinement of `EventLedger`.

`Disciplined` says that no live owner's lock ages (`SlowOwners = {}`), operators take
turns (`SerialRecovery`), and nobody uses `recover all`. TLC finds `OneWriter` violated
as soon as any of the three is dropped; `concurrent_recovery` and `slow_writer` keep the
counterexamples of two of them.

Argument. `LocalInv` relates a process's `pc`, `cmd`, `held` and recovery sets, and
no other process. `LockInv` says who owns the lock files: `HolderInv`, a live process
that holds a lock is its written owner; `OwnerInv`, and conversely the owner of a
file is at the point of its program where it should be; `SeenInv` and `RecoveryInv`,
what a recovery has found stale belongs to a process that is dead, and stays dead,
so that compare-then-remove cannot meet another's lock; `OneRecoveryInv`, at most one
unlocked recovery is alive. `OneWriter` follows: a mutating process either holds
`project_write.lock`, or recovers it and knows its owner dead. `LedgerInv` adds that
a mutating process's copy and allocated id agree with the two files (`LogInv`,
`WriterInv`). Neither `OneWriter` nor `EventIdsSequential` is inductive alone: a
process in the middle of its command must be known to hold what it checked earlier.

The other theorems add one strengthening each. `RecordingInv`: what a command has left in
each file by the time it stands at a given point, and that nobody takes it back. For the
refinement, `ReplaceStatus` maps to `Commit`, whatever ends a command between its append
and `ReplaceStatus` to `Freeze`, and every other step to a stutter. `ReturnedInv`: unless
a release failed, `held` counts exactly the files a process still has to give back; this
needs no discipline, as nobody but the process itself makes a file its own. `NestedInv`:
a live process that created `active_run.lock` still holds a lock, and the first lock of
every process is `project_write.lock`. `RemovalInv`: what a process verified before a removal
still holds when it removes, and a recovery has its event in the log by then.

`StepsAreBounded` is what `EveryCommandEnds` rests on besides fairness. `StepsLeft` gives
each point of a command a number, which a recovery's targets still to inspect and to
remove add to; every step of a process, a failed call or a kill included, lowers its own
number, and no step raises another's. `TargetInv` bounds the targets. So no command waits
for another, retries or loops.

Each of the other proof modules has a theorem `ImplementsLedger`: its store implements
`EventLedger`, the abstraction that `HelperState` implements call by call. `Committed` is
the log up to the id in `status.json`, and the ledger is `Frozen` when the log is ahead of
that id and no command stands between its append and the status. Replacing
`status.json` maps to `Commit`, stopping after the append to `Freeze`, and all else, the
files a command writes before its append among them, to stutters: whatever else a
command stores, it commits one event or none, and what is committed never changes.

`RunLifecycleProofs` proves every property of the run `run_lifecycle` for any runs and
any bound, with no further assumption. `TypeInv` adds to the types how far the log is
ahead of `status.json` at each step. `HistoryInv` ranks the events of a run (created,
activated, finished): the log never has an event beyond what the metadata says or the
command in flight is about to store, and a command in flight takes a run a step forward
or stores what it read; `LedgerIsLifecycle` and `FinishedIsFinal` follow. `LaneInv`: metadata and
`status.json` agree before a command, and will again after its two writes, until a run is
created beside an active one; `OnlyCreateSplitsTheLane` and `StatusNamesActiveRun` follow.
`ExplainInv`: the metadata is explained by a prefix of the log that ends at the last
event or just before it.

`GraphProposalsProofs` proves every property of the run `graph_proposals`. `TypeInv` says
which command may stand before which write and what it carries. `ProposalInv`: every
record and every apply in flight has its event, and a proposal in flight an id of its
own. `StampInv`: no graph, backup or base bears the stamp of an event beyond the next
one, and the base of an applied proposal a stamp below the event that applied it.
`GraphInv`: the graph bears the stamp of the last graph event or a later one unless it was
touched since, so that a base of before can only match a graph that was touched; and a
graph about to be replaced is in its backup.

`GjcSessionProofs` proves every property of the run `gjc_session`. `HashInv`: a ledger's
hash is that of its own content, a callback answers an earlier hash, and a start in flight has
a pid of its own or none. So a hash that is shared belongs to the same process and the same
callback, or to no process. `LineInv`: the events of a process follow one another, and
each of its callbacks answers another ledger. `LastInv`: those of the ledger's process are the
last ones, and answer nothing later than its own callback does. `DriftInv`: while nothing drifted the ledger agrees with
its files outside of a start, and the status in flight agrees with them by the time it
is written.

`GateEvidenceProofs` proves every property of the run `gate_evidence`. `OpInv` and `LogInv`
tie the command in flight to the log, `RequiredInv` what the run requires: the manifest, once
the log has an `artifact init` that did not stop. `PassInv`: a check in flight that found a pass
has seen complete all evidence that was its gate's at its event, and it still is unless somebody
edited it; the fingerprints it then stores are of that (`ReportInv`, from which
`EvidenceWasEvaluated` and `FinalPassIsSound`). `Latest` is the
outcome of the last check of a gate in a part of the log: `ExplainInv` says that report,
metadata and summary each have it, up to the last event or the one before, in the order in
which they are written, and `WriteInv` where the check in flight stands with that
(`GateStateExplained`).

`WorkflowInstanceProofs` proves every property of the run `workflow_instance`, the
refinement of `TaskDag` among them, the cycle search, and what the two make of a
workflow. The difficulty is the verifier, which replays the log
by a recursive function: what such a function computes for every log would need
induction over logs. Instead `IsVerdict` says what any solution of the recursion's
equations arrives at, and the existence of a solution is carried as an invariant while
the log grows line by line (`ReplayInv`, `CountedBy` for counts). `History` is the log
with the event about to be appended; over it `HistoryInv` states: a revision has at most one
event (`CountInv`); if no event was lost, the instance is the outcome of its events and the
replay agrees with it (`OutcomeInv`); an expected revision belongs to one command
(`ExpectInv`); and a node runs only after its dependencies (`DagInv`).

The cycle search is proved for every finite graph, given as the successors of each node
in some order, and an order to start from. `SearchInv`: the stack is a path of different
nodes (`StackInv`), no successor of theirs is forgotten (`AccountInv`), and the visited
nodes can be numbered so that each points to lower ones only (`Ranked`). So a cycle that is
reported is one (`CycleFoundIsCycle`), and a search that began with every node and reports
none has ranked them all, which no graph with a cycle allows (`NoCycleIsMissed`). `Work`
counts the visits and returns to come; it falls with each step, so the search has ended
after `MaxSteps`.
The induction this takes is over sets of numbers
(`LeastNumber`, `AllNumbers`), from the well-foundedness of the order on numbers, and the
function that repeats a step is shown to exist (`Repetition`).

`WorkflowIsNeverStuck` assumes of the task DAG what its validation checks, that the search
finds no cycle in it (`SearchedDag`). Then an instance whose nodes have not all succeeded
has a blocked node, which waits for `unblock`, or one that can be started or completed: of
the unfinished nodes the lowest has only finished dependencies. `WorkIsInOrder` carries
the refinement of `TaskDag` along paths: what runs or has succeeded has everything
behind it done, though `mutateWorkflowNode` looks at direct dependencies only.

`CatalogPromotionProofs` proves every property of the run `catalog_promotion`. `BackedInv`:
what an apply is about to replace is missing or in a backup under the id of the event to
come. `WrittenInv`: what it has written is in place until its event is appended. With both,
`KeptInv` is inductive (`NothingPromotedIsLost`), whichever targets share the name of their
backup: a backup under a taken path fails the apply before it replaces anything.
`CurrentInv` and `BaseInv`: a target that no hand and no interrupted apply has changed has the
content its last event gave it, and so does the base of the apply in flight, up to the
moment the event is appended (`PromotionsFollowEachOther`).

`PhasePlanProofs` proves every property of the run `phase_plan`. `FinishInv`: once the helper
recorded the end of the run, the run is stored as finished or its command stopped and
nothing is appended any more (`AfterFinishOnlyHandsDecide`). What the log says of a
row is an operator of the log's lines, with lemmas on what one more line changes
(`OtherLineSays`, `InitSays`, `SetSays`). `PlanInv`: the plan agrees with the log up to the
last event or the one before; `PlannedInv`: the plan in flight, computed before its event,
is what the log will say with it, for every row that no hand touches meanwhile, and an edit
marks its row beyond any event the log has (`EditAgrees`). `ReaderInv`: what a validation
has read stays what the log said then, as the log only grows.

That the largest of a bounded set of numbers is what `Max` chooses is proved, in each
module that needs it, from the well-foundedness of strict inclusion (`MaxIsLargest`).

Only model-checked:

- `EveryCommandEnds`. The bound on the steps is proved (`StepsAreBounded`); that fairness
  makes a process take them involves `ENABLED`, which the prover does not handle.
- The violations of the findings, which need only their counterexamples.
- `GateRules`, `GraphFile`, `GraphDiff` and `TaskDagFile`. They select lines with
  `SelectSeq`, whose definition the prover cannot expand, and fold over them with operators
  as arguments, which its theorems cannot be instantiated with. Induction itself is no
  obstacle where it is over numbers, as in the cycle search.

## 5. Plan

Order of the work: locks and log first, as everything rests on them; then the state
each command keeps beside the log, by weight; then what is sequential.

1. Done: `HelperState` with `EventLedger`, `RunLifecycle`, `GateEvidence` with
   `GateRules`, `WorkflowInstance` with `TaskDag`, `TaskDagFile` and `CycleSearch`,
   `GraphProposals` with `GraphFile` and `GraphDiff`, `CatalogPromotion`, `PhasePlan` with
   approvals, `GjcSession`; proofs about each of these eight.
2. Left: initialisation (`init.go`) as a sequence of exclusive creates, with `--force`,
   and two of them at once.
3. Left: the rules of the workflow gate and the validators of catalog, registry and
   triggers as pure operators like `GraphFile`.

Theorems left: none of a property of a passing run but `EveryCommandEnds`. Worth proving
next: what of `Disciplined` each theorem of `HelperStateProofs` really needs; that an
instance which nobody edits and every event of which is kept reaches the end of its task
DAG after a bounded number of transitions; and that `GraphFile` and `TaskDagFile` read
back what they write, which would first need their folds and `SelectSeq` written as
recursive functions.

## 6. Not modelled, and why

The extension gates (design evidence, multi-agent review, policy promotion, token
economy, workflow gate), the schemas and the validators of catalog documents are pure
functions of large files, field by field; what the gates find is stored as in
`GateEvidence`. Of `init.go` only what it leaves behind is modelled, as initial
states; of two plain inits at once the first exclusive create of the configuration
decides, and `init --force` rewrites files before its event without looking at the
coherence of the log. Doctor, diagnostics, listing and show commands only read; they take no lock and
may see a store between two writes. Migration copies files into a fresh directory.
Path handling, redaction, output and flag parsing do not change state. `gjc`, KAS and
KAT are other programs: the models let them leave behind anything the helper can tell
apart. The effect of `fsync` on power loss is not modelled: a crash is that of a
process.
