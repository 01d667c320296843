# A verification development for devsy

devsy is a command line program (Go) with an Electron desktop application that
creates development workspaces from devcontainer definitions, on the local
machine, on a remote machine or in a cluster. Much of it is plumbing around
Docker, Kubernetes, SSH and provider commands. What it implements itself, and
what is hard to test, are a handful of coordination protocols between
processes, goroutines, files and signals. This directory models those
protocols in TLA+, checks the models with TLC and proves their main safety
properties with TLAPS.

Paths below are relative to `src/`.

## 1. Inventory

| Component | State it keeps | Operations | What is hard |
|---|---|---|---|
| **Detached `up` task** (`pkg/task`, `cmd/workspace/up/detach.go`, `cmd/workspace/task.go`, `pkg/workspace/quiesce.go`) | one JSON record per task, a worker lock, a launcher lock and a launch lease on disk | create, publish, acknowledge, commit, report, succeed, fail, cancel, reconcile, clean up, delete | several processes, none of them in charge; any may die between two file operations; the worker is killed by signals |
| **Process supervision** (`pkg/command`) | process identities, inherited lease descriptor | start, terminate, clean up after exit | a process that outlives the one that started it |
| **SSH port forwarding** (`pkg/ssh`) | connection counter, idle timer, listener, context | accept, add, dec, time out, close | a timer that fires while a connection comes or goes |
| **Container lifecycle owner** (`pkg/daemon/agent`, `cmd/internal/agentcontainer/lifecycle.go`) | protected clients, idle timer, sessions, admission counters | connect, setup, ready, failed, activity, release, prune, expire, close | shutdown racing registrations; retried records; dead clients with open connections; limits |
| **Setup-log mirroring** (`pkg/agent/tunnel/setup_log_sender.go`, `pkg/workspacelogs`, `pkg/agent/tunnelserver`) | a spool per host, an acknowledgement file per sender and per sink, the sender's position, calls in flight | record, append, send, acknowledge, gap, flush, stop, resume | at-least-once delivery with calls that outlive their caller, torn writes, full stores, restart of a sender |
| **Context deletion intent** (`pkg/config/context_deletion.go`, `cmd/context`) | intent file, `config.yaml`, `env.yaml`, `secrets.yaml`, `secrets.enc`, the context directory, the config lock | snapshot, write intent, delete, roll back, resume, clear intent; the commands it fences off, and those that take no lock | no write covers two files; a failed sync; a crash or power loss between any two; a directory that others make meanwhile |
| **Secret store rekey** (`pkg/secrets`) | `secrets.enc`, `secrets.yaml`, staged copies and backups, a journal, the keyring | set, delete, set/change/remove passphrase, reset, remember, forget, recover | an interruption in the change or in its recovery |
| Workspace event journal (`pkg/workspacejournal`) | append-only file | append, prune, read | concurrent processes, lock wait bound |
| Client locks (`pkg/client/clientimplementation/locks.go`) | workspace and machine lock files | lock, unlock | two locks, always taken in one order |
| Prepared provider update (`pkg/workspace/provider_update_prepared.go`) | staged and backup directories | prepare, commit, undo after an error | a crash between two renames, after which nothing recovers |
| GitHub credentials session (`pkg/ghcredentials`) | owner journal, user configuration | install, restore | crash of the owner |
| Managed transport (`pkg/transport`) | goroutines of a tunnel | run, join | join with a timeout |
| Provider process cancellation (`provider_cancel.go`, `pkg/shell`) | provider process | cancel, escalate | signal racing exit |
| Feature dependency graph (`pkg/devcontainer/graph`) | graph | add, sort | a pure algorithm |
| Options resolver, devcontainer build, drivers, platform client, desktop application, sites, e2e | configuration and remote state | | I/O around other systems; not modelled |

How they interact: `up --detach` creates a task and starts a worker through
process supervision; the worker runs the devcontainer code, which connects to
the container by SSH (port forwarding) and, in a managed container, registers
with the lifecycle owner. `task`, `workspace stop` and `workspace delete` act on
the same task record from other processes. What the container logs during setup
is mirrored over the provider host to the caller. The commands that change
environment values, secrets or contexts share the config lock with
`context delete`, whose deletions of single secrets go through the secret store;
the commands for workspaces, machines and providers make files in the directory
of their context without that lock.

### What makes the modelled components correct

* *Detached task*: work begins only if the launch was committed; one outcome,
  never rewritten; an accepted cancellation is the outcome; "abandoned" and
  "cleaned up" are said only of processes that are gone; a record is deleted only
  when nothing of it runs; launches end, dead workers are noticed and
  cancellations complete.
* *Port forward*: the counter is exact; an idle timeout cuts no connection, is
  never lost, and is due to the current idle period.
* *Lifecycle owner*: acknowledged work keeps the container alive and its
  connection open; the container stops only after a whole idle interval, and
  then does; the dead are released; the admission counters are exact.
* *Setup logs*: every host stores a producer's records from the first on, each
  once and in order; no acknowledgement, no successful `Flush` and no terminal
  state claims more than is stored, unless a gap is on record; what is recorded
  arrives unless a sender gave up.
* *Context deletion*: a context that is deleted in part is named by an intent,
  after a power loss too; what the command reports is true; a pending deletion
  can be completed.
* *Secret store*: a change of the protection takes effect at once or not at all,
  and leaves nothing behind that the old key opens.

`PROJECT.json` lists the hazards, each with its source line and the properties
that cover it.

## 2. Modules

| Module | Content |
|---|---|
| `TaskRecord` | the task record and the updates `Store.updateIf` applies to it |
| `DetachedTask` | the whole protocol around one record; properties; refinement mapping |
| `TaskContract` | abstract specification: what a task promises its user |
| `MCDetachedTask` | symmetry of the callers, for TLC |
| `DetachedTaskProof` | inductive invariant and safety theorems |
| `DetachedTaskRefinement` | `DetachedTask` implements `TaskContract` |
| `PortForward` | accept loop, relays, connection counter and timers |
| `PortForwardProof` | inductive invariant and safety theorems |
| `ContainerLifecycle` | owner, monitor, loop, sessions and clients |
| `MCContainerLifecycle` | clients, users and processes, for TLC |
| `ContainerLifecycleProof` | inductive invariant and safety theorems |
| `LogDelivery` | abstract specification: what a reader of the hosts' logs sees |
| `SetupLogMirror` | recorder, spools, senders, acknowledgement files and sinks of a chain of hosts |
| `MCSetupLogMirror` | symmetry of the calls, for TLC |
| `SetupLogMirrorProof` | inductive invariant, safety theorems, refinement of `LogDelivery` |
| `ContextDeletion` | files, config lock, commands and deletions |
| `ContextDeletionProof` | inductive invariant and safety theorems |
| `SecretStore` | abstract specification: the secret file as its users see it |
| `SecretRekey` | the files of the secret store, the change of its protection and the recovery |
| `SecretRekeyProof` | inductive invariant, safety theorem and refinement of `SecretStore` |

Operators whose comment begins with "Mutant" are wrong variants of the
definition that follows; `PROJECT.json` pairs each with the property that
detects it. They are used by nothing else.

### DetachedTask

The record's fields that matter are kept (`TaskRecord`): status, class of the
error, `ref` (PID, process and tree identity, which are always written
together), `owned`, `ready`, `launchPending`, `cancelRequested` and
`ProcessCleanupComplete` (`cleanup`). Every update is one step because
`Store.updateIf` reads, changes and atomically replaces the file under the
state lock. Each caller has a program counter named after the function whose
next file operation or signal it is about to perform, and keeps what it read
before (`saw`). `workerLock` and `launcherLock` tell a lock file that was never
created (`Absent`) from one nobody holds, because `claimDeadWorkerLock`
does.

* Launcher: `CreateLaunch`, `PrepareProcessOwnership`, `StartWorker`,
  `PublishProcess`, `CommitLaunch`, `ReleaseLauncherLock`, and the failure path
  of `FailLaunch` with `reconcileLaunch`.
* Worker: waits for its launch (`WaitForTaskLaunch`, `CheckWorkerLauncher`,
  `AcknowledgeWorkerLaunch`), takes its lock, works and reports, finishes,
  fails, is killed or crashes.
* Callers: `task cancel`, `task rm`, `task rm --force`, `task status`,
  a `task logs -f` follower, and the quiesce of a workspace stop or delete.
* Faults: a failed start, capture, signal, update or lock, a crash of the worker
  or of a process holding locks, and the expiry of a caller's context. Their
  number is bounded by `MaxFaults`; the deadlines of launcher and worker are
  not counted as faults and may expire at any time.

The last update of a worker and the release of its lock as it exits are one step
(`WorkerFinishes`); a terminal record beside a worker that still runs comes about by
`WorkerReports`. A killed worker becomes `doomed` and loses its locks and its lease
only when it is gone (`WorkerDies`): between the two, other processes still see the
locks held.

### PortForward

A method of `connectionCounter` is one step, as it runs under the mutex. A timer
is armed, then fired (its goroutine exists and waits for the mutex; `Stop` is
too late), then over. `handleTimeout` decides under the mutex and calls
`onTimeout` after the unlock: the two are `HandleTimeout` and `OnTimeout`, with
`pending` between them. `Tokens` is what `new(connectionTimerToken)` may
return. As the type has size zero, Go leaves open whether two such pointers are
equal, so a new token is chosen freely; `TokensDistinct` says that no two timers
of a behaviour so far got the same. The compiler in use gives equal ones once there
are two timers, which is the case `port_forward_stale` shows; `DistinctTokensStayIdle`
is about what the check against the token is worth where the language keeps its
two values apart.

### ContainerLifecycle

One step per critical section of the owner's or the monitor's mutex. A session
scans and validates (`Receive`), applies (`ApplyOperation`), acknowledges
(`WriteAck`), and is removed in two steps because `removeClient` uses the two
mutexes one after the other. The loop prunes dead clients (`Observe`) and then
decides (`CommitExpiry`). Clients repeat a record until it is acknowledged;
acknowledgements may be lost and, in a full queue, are dropped from the oldest.
A process may die at any time, and a child may keep its connection open.

Time is the integer `age` since `armedAt`, saturating at the longest timeout;
`quiet` is a history variable, the time since any client was protected. An
observation takes no time: the code reads the clock once, before it prunes,
and a later reading would only make it more eager. `Apply` reads the clock together
with its critical section; the code does so just before (`lifecycle_server.go:251`),
by less than the tick of the model.

### SetupLogMirror

One producer and a chain of hosts: the container records, link `l` carries the
records from host `l - 1` to host `l`. With two links these are the container, the
provider host (`SetupLogHop`: a sink, and a forwarder with a sender of its own)
and the caller.

* Store: `lines` are the committed lines of the producer's segments, a sequence
  number each, or `Malformed`; `torn` is a line without its newline; `tails` is the
  cache that `cachedTail` trusts as long as the size agrees. `AppendOutcomes` are
  the results `Store.Append` may have: everything, a prefix and a full store, a
  prefix and a write that fails half way, a gap, nothing, or everything but the
  manifest.
* Sender: `drain` is who holds the drain lock, `inflight` the call it waits for.
  A call that is canceled or times out stays in `calls`: the sink may still
  process it, next to its retry. `acked`, `incomplete` and `disabled` are the
  fields of the same names, `upstream` the acknowledgement file.
* Sink: a call is received, appended and answered in three steps, because `Sink`
  holds no lock across them. `old` is a peer without the method.
* `history` holds what properties compare with: a gap whose record in the file
  failed (`apply` ignores that error), what a successful `Flush` found in the
  source, and what the `Flush` of the link before had promised.

`LogDelivery` is what readers may rely on: the producer records until it closes, a
host's log grows by further records of the host before it, and a host takes the
producer for finished only together with the record `Close` wrote. The mapping takes
the container's log to be the records it wrote, damaged or not, and a sink's log to
be its lines as they are; positions, calls, files and flushes are hidden.

Text, its truncation, the split into segment files, the conditions and child
producers of the manifest, retention and requests that `decode` rejects are left
out. The file of a sender is read only when a new one is created.

### ContextDeletion

The files in the configuration directory are one record, `Files`; `journal` is the
sequence of their states since the last sync of that directory that succeeded, so
that a power loss can bring back any of them (`PowerLoss`). A crash leaves the last
one. Every write of the
deletion, its rollback and its resumption is a step of its own; a command that
changes a context is one step, since it holds the config lock to its end, with
the outcomes that an error or its death in the middle leaves. `kept` is a history
variable: the values that the user's commands left, against which `Whole` compares
those in the files. Only what the catalog lists counts (`Visible`), as a value
without an entry cannot be read.

The directory of a context, `contexts/<name>` under the data directory, is a variable
of its own, `dir`, because neither the config lock nor a sync covers it:

* `context create` does not make it. The commands for workspaces, machines and
  providers do (`clientLocks.ensureOpen`, `saveJSON`), for any `--context`, registered
  or not. They look for an intent once, at startup (`StartCommand`), and may then make
  the directory at any time (`MakeDirectory`), so also while a deletion removes it, in
  which case `RemoveAll` can fail, and afterwards.
* Nothing syncs `contexts/`. After a power loss a directory may be gone although its
  making was long ago, and one that was removed may be there again, each without
  regard to what is left of the files (`AfterPowerLoss`).

So an unregistered context can have a directory that no intent names, and no property
says otherwise. What the code does promise is that it does not forget a removal it
has not made: `owed` marks a directory that was there when its context was
unregistered and that `RemoveAll` has not removed since. `PartialIsPending` says that
an intent names such a context and `ReportIsTrue` that a success leaves none; a
directory made, or brought back, after the removal is excused by both. What is in
the directory is left out.

Secrets are those of the file backend; names of secrets and of environment values
are distinct sets; the fingerprint of a context is its set of bound secrets; the
journal of a rekey, which the same lock call recovers, is `SecretRekey`'s.

### SecretRekey

One step per file operation of `rekey`, `reset`, `RecoverRekey` and of a set or
delete, under `secrets.yaml.lock`. An error and the end of the process are the same
step, `Interrupt`: neither runs any cleanup, and the next command recovers. It can
leave a temporary file of the write it hit. A file that was replaced stays
replaced: the loss of a synced rename is not modelled. `SecretStore` has
the key, its source, the values, the entries and the keyring as its only state and
changes key and source in one step; the refinement mapping reads them from the
files as the recovery would leave them (`Recovered`, `Source`, `Entries`).

Every secret is sensitive and owned by the file backend; the list that confirms a
reset and the repair of entries without an owner are left out.

## 3. Runs

| Run | Configuration | Shows |
|---|---|---|
| `detached_task` | 2 callers with any of 6 operations each, repeatedly; 1 fault; symmetry | `TypeOK`, `WorkNeedsCommit`, `CleanupMeansGone`, `CancellationWins`, `AbandonedMeansDead`, `DeletedIsFinished`, `ClaimFindsLockFile`, `OutcomeIsFinal`, refinement of `TaskContract` (1.2 million states) |
| `detached_task_live` | 1 cancelling caller and 1 follower, 1 fault | `LaunchResolves`, `DeadWorkerIsReported`, `CancelCompletes` |
| `detached_task_torn_down` | as `detached_task` | **violation** of `TerminalIsTornDown` |
| `port_forward` | 3 connections, 3 tokens that may repeat | `TypeOK`, `CountIsExact`, `IdleCutsNothing`, `TimeoutOnce`, `IdleHasTimer`, `DistinctTokensStayIdle`, `IdleForwardEnds` |
| `port_forward_stale` | 2 connections, one token | **violation** of `StayedIdle` |
| `container_lifecycle` | a setup command and an activity writer, 2 faults, timer armed | `TypeOK`, `AcknowledgedIsProtected`, `StopsOnlyWhenIdle`, `ProtectionHasSession` (2 million states) |
| `container_slots` | 3 activity writers, two of them of one privileged process; 2 connections, 1 shared slot, 1 fault | `SlotsAreExact` |
| `container_lifecycle_live` | a setup command, timeouts 0 and 1, 3 faults | `DeadIsReleased`, `IdleStops`, `ShutdownCompletes` |
| `setup_log_mirror` | 1 link, 2 records, 2 calls at a time, 2 faults, symmetry | `StoredOnce`, `AckedIsHeldOrGap`, `FlushIsHonest`, `TerminalHasAll`, refinement of `LogDelivery` (`ImplementsDelivery`; 300,179 states) |
| `setup_log_chain` | 2 links, the last record of the producer, 1 call at a time per link, 1 fault | `EndToEnd`, `Delivered` |
| `context_deletion` | 2 processes, 1 context, 1 secret, 1 environment value, 3 faults | `TypeOK`, `PartialIsPending`, `ReportIsTrue`, `PendingResolves` (123,947 states) |
| `secret_rekey` | 2 secrets, 2 passphrases, both automatic key sources, 2 faults | `OldKeyIsGone`, refinement of `SecretStore` (`ChangesAtOnce`; 1.2 million states) |

Bounds. Two callers suffice for the races of the task protocol: every lock has
one holder and one contender, and the launcher and worker are there besides;
the theorems hold for any number. One fault per behaviour is what lets each
recovery path run against intact peers; callers may return and start again
without limit. Three connections give a counter that goes to zero twice between
two expiries of one timer. Two lifecycle clients, of which either can be
released or die while the other registers, give every pair of operations of the
monitor; the limits of 128, 96, 32 and 16 clients become 2, 1, 1 and 1, where
each is reached. Two records and two calls give a retry whose batch begins
before, inside and after what the abandoned call wrote, and two faults let a
second call be lost, or the sender resume, while that call is still at the sink;
the theorems hold for any chain of hosts and any number of records, calls and
faults. Two faults let an
interrupted rekey or recovery be interrupted again, and three a deletion that was
cut short, resumed and cut short again lose power besides; the theorems about the
rekey and the deletion hold for any number. One context is what a deletion and the
commands it races with share: an intent for another one only turns them away. The
theorems about deletions hold for any contexts.

Deadlock is not checked in `DetachedTask`, `PortForward`, `ContainerLifecycle` and
`SetupLogMirror`: a task that is over, a forward or a loop that has returned, and a
producer that has been mirrored are meant to stop. It is checked in
`SecretRekey`, where a command can always be given.

Fairness. Processes and goroutines that can run do (weak fairness of their
steps), timers expire and time passes. Nothing external has to happen: no
connection need arrive, no client need act, no caller need start. In
`DetachedTask` a follower polls, as `followTask` does, and the worker's work ends.
In `ContainerLifecycle` the loop's `select` is strongly fair to its context and
time passes between observations, because the loop waits for a timer between
any two of them. In `SetupLogMirror` senders and sinks run; nobody has to
record, flush or give up. In `ContextDeletion` a command that has begun goes on, with or
without taking the lock, nobody has to make a directory, and some process retries a pending deletion if it can take the lock again and again,
which is what every other command tells the user to do. Fault actions are never
fair.

## 4. Findings

* `detached_task_torn_down`: `needsQuiesce` (`pkg/workspace/quiesce.go:109`) says
  that a terminal task is skipped "once its worker and launch cleanup are done".
  `taskReporter.Report` makes the record terminal on a failed event while the
  worker is still running, and quiesce then skips it: a workspace stop or delete
  can proceed beside a live worker.
* `port_forward_stale`: `connectionTimerToken` (`pkg/ssh/connection_counter.go:44`)
  is an empty struct. With the compilers in use all heap-allocated pointers to
  it are equal, so `handleTimeout` does not recognise a stale timer: a timer of
  an earlier idle period, whose goroutine waited for the mutex while a connection
  came and went, stops the forward at the start of a new idle period.
  `DistinctTokensStayIdle` and its theorem show that distinct tokens are enough to
  prevent it; `IdleCutsNothing` shows that no connection is cut either way.

Observations that no run states, because nothing in the repository says otherwise:

* The caller's view of a producer can be complete although the container's
  recorder dropped output for which its own store had no room.
* When everything of a batch is written but the manifest, the retry finds only
  duplicates and does not update it: `TerminalHasAll` is an implication and not an
  equivalence.
* A rollback of a context deletion that restores the value of a secret and dies
  before it saves the catalog leaves a value that the resumed deletion skips, as
  the catalog does not list it (`cmd/context/deletion_intent.go:214-229`). This is
  why `PartialIsPending` compares only what is visible.
* The directory of a context that was deleted can be there again, without an intent:
  a command that had passed the startup check makes it, or a power loss brings it
  back, as the removal in `contexts/` is not synced (`cmd/context/delete.go:94`).
* A first secret set under an automatic key by a process that dies between
  `secrets.enc` and `secrets.yaml` leaves a file whose key source nothing names:
  neither another set nor a change of the passphrase opens it, only a reset
  removes it. The backup of the catalog is written and never read.

## 5. Proofs

All theorems are about `Spec` of the module with arbitrary constants, under the
named assumptions of the module.

*DetachedTaskProof* proves the inductive invariant
`IndInv == TypeOK /\ LockInv /\ LaunchInv /\ OutcomeInv /\ CleanupInv /\ CancelInv`.
None of the checked properties is inductive. `LockInv` says which program
counters hold which lock; `LaunchInv` what the phases of the launch imply for the
record, so that a worker at work was committed; `OutcomeInv` what a caller that is
about to record an outcome still knows; `CleanupInv` that a caller about to set
the cleanup flag holds a lock that keeps the worker from running, or has seen it
gone; `CancelInv` the same for cancellations. The proof has one lemma per group
of actions and conjunct. The invariants and `OutcomeIsFinal` follow from it.

*DetachedTaskRefinement* uses `IndInv` to map every step of `DetachedTask` to a
step of `TaskContract` or a stutter.

*PortForwardProof* proves
`IndInv == TypeOK /\ CountIsExact /\ RoomInv /\ TimerInv /\ IdleHasTimer /\ FireInv /\ DistinctTokensStayIdle`.
`RoomInv` bounds the timers created by the connections that were accepted,
`TimerInv` relates the counter's timer to its token and state, `FireInv` says that
after a timeout was dispatched the counter stays timing out and empty.
`DistinctTokensStayIdle` (theorem `StaleTimerIsHarmless`) needs no strengthening of
its own: where tokens are distinct, the one the counter holds identifies its timer.

*ContainerLifecycleProof* proves
`IndInv == Types /\ TimerInv /\ ExpiryInv /\ \A c : ClientInv(c) /\ SessionInv(c) /\ FirstInv(c)`,
for any finite set of clients and any bounded set of timeouts. `Types` is
`TypeOK` with integer counters and the fact that only a setup command sends a
policy. `TimerInv` says that the timer is armed exactly when the timeout is
positive and that its interval is never older than the last protection.
`ExpiryInv` says that a decision to stop remains justified, since `Apply` refuses
every record after it. `ClientInv` is the order of what a client sends and
receives, `SessionInv` what the owner, the connection and the monitor each know
of a session, and `FirstInv` is the part that makes acknowledged work safe:
whatever is under way for a client before it sends a second record (sent, scanned, applied,
acknowledged, repeated) is its first record, and once that is applied the
session stays protected. `AcknowledgedIsProtected`, `StopsOnlyWhenIdle` and
`ProtectionHasSession` follow. `SlotsAreExact` is inductive on top of `IndInv`; its proof
rests on lemmas about the cardinality of a set of sessions that gains or loses
one. That no counter is negative, which `TypeOK` says, follows from it last.

*SecretRekeyProof* proves
`IndInv == TypeOK /\ JournalInv /\ RollbackInv /\ UndoInv /\ PrepareInv /\ SwapInv /\ ResetInv /\ CommitInv /\ SecretInv`,
for any secrets, passphrases and number of faults. `JournalInv` says at which steps
a journal exists and in which form; `RollbackInv` and `UndoInv` that, as long as it
is not committed, everything a rollback needs is there, also half way through one;
`PrepareInv`, `SwapInv`, `ResetInv` and `CommitInv` what each stretch of a
transaction has prepared, replaced and cleaned; `SecretInv` what a set or delete
that is between its two files knows. `OldKeyIsGone` is its instance at the end of a
transaction, and the refinement theorem `StoreChangesAtOnce` goes through the
actions one by one: only `Commit` maps to a change of key.

*ContextDeletionProof* proves `IndInv == CoreInv /\ DirInv`, with
`CoreInv == Types /\ (\A i : FileInv(journal[i])) /\ LockInv /\ CheckedInv`, for any
processes, contexts, names and number of faults. `CoreInv` is about the files and the
processes and needs nothing of the directories. A power loss can bring back every
state of the files since the last directory sync, so `FileInv` is about each of
them: an intent in it is true of it (`Pending`), that is, its context is registered
and lacks at most values that the intent lists, or it is not registered and they
are gone. `PartialIsPending` alone is not inductive: removing the intent is safe only
because of what the process that does so has deleted or restored, which is what
`LockInv` keeps for every step (`Active`: `Deleting`, `Restoring`, `Settled`). There is
one lemma per action; `LockedStep` is the part they share, and the commands that
change a context are safe because each of their writes leaves what the user asked
for (`Kept`). `DirInv` says that only a context that an intent on disk names is owed
the removal of its directory, and none at all at the steps from which the intent is
cleared without `RemoveAll` (`Clears`: before the intent is written, in a first
deletion until the context is unregistered, in a rollback, and once `RemoveAll` has
returned). It is proved on top of `CoreInv`, with no assumption about who makes
directories and when. `ReportIsTrue` is `IndInv` at the step that reports.

*SetupLogMirrorProof* proves
`IndInv == TypeOK /\ RecorderInv /\ StoreInv /\ TerminalHasAll /\ \A l : LinkInv(l)`,
for any number of links, records, calls at a sink and faults.

* `StoredOnce` is kept because `loadTail` is exact at a sink: the cache, when its
  size agrees, knows the last sequence (`StoreOK`), and otherwise the scan finds
  it, since the lines are 1, 2, ... So every outcome of an append continues the
  records (`ExactAppend`) or changes nothing (`GapAppend`). At the container lines
  may be damaged; there `RecorderInv` says that until `Close` the recorder and the
  cache know the number of lines, and that a torn line has disabled the recorder.
* `LinkInv` has six parts. `CallsOK`: a call at a sink has been accepted up to what
  is stored, carries only what its source holds, and met a gap only where it begins
  after the next record. `WaitsOK`: the call a sender waits for begins right after
  its position, so an answer that moves the sender accepted part of it. `AckOK` is
  `AckedIsHeldOrGap` of one link. `HeldOK` and `OwedOK` bound what a `Flush` found and
  what it owes by the stores. `TellsNext` is what the end-to-end property needs: a
  sink whose sender moved without a gap has told its own sender, so a `Flush` with
  no sender to drain owes nothing.
* `LinkStep` and `GrowStep` are what the lemmas for the actions share: a step of one
  link leaves the others alone but for telling the next, and stores that grow keep
  every bound. `ReplyStep` is the core: all answers of a sink go through it.
* `StoredOnce`, `AckedIsHeldOrGap`, `FlushIsHonest`, `EndToEnd` and `TerminalHasAll` follow
  from `IndInv`. `MirrorDelivers` is the refinement: only `Emit`, `CloseRecorder` and a
  `SinkAppend` that writes map to steps of `LogDelivery`, everything else stutters. It
  needs that no host holds more than the one before it (`StoreInv`), which in turn
  needs that a call carries only what its source held. The theorem
  `TerminalIsSettled` is an action property that no run states: no step shortens a
  store, and a store whose producer is terminal stays so and gets no more lines.

That a bounded set of numbers has a greatest element, which the scan needs, comes
from the well-foundedness of the naturals (`MaxOfBounded`).

Only model-checked: the liveness properties `LaunchResolves`, `DeadWorkerIsReported`,
`CancelCompletes`, `IdleForwardEnds`, `DeadIsReleased`, `IdleStops`, `ShutdownCompletes`,
`Delivered` and `PendingResolves`, because fairness and `ENABLED` are out of the
prover's reach. Every other property of a passing run is a theorem; `TypeOK` of
`SetupLogMirror` and `SecretRekey` is a theorem only.

## 6. Not modelled

Of the task component: the workspace label by which quiesce finds tasks, records
of launch protocol 0, and functions only tests use. Of process supervision: PID
reuse beyond what the strong process identity excludes, and Windows. Of port
forwarding: the bytes. Of the lifecycle owner: the loop of unmanaged daemons with
its activity file, the readiness directory of hook workers, and file permission
checks. Of the setup logs, the context deletion and the secret store: what section
2 names. The components of the lower half of the inventory's table are not
modelled yet or, for the last row, not at all: the devcontainer build, the
drivers, the platform client and the desktop application drive Docker,
Kubernetes, remote services and other commands, whose state is not in this
program; they are most of the repository's lines.

## 7. Plan

1. Extend `ContainerLifecycle` with the loop without an owner and with the handover from
   setup to the hook workers; an abstract specification (work holds a lease,
   the container stops only without leases) and the refinement.
2. `ProviderUpdate`: an error in any step of the commit is undone, and what a crash
   between two renames leaves.
3. `WorkspaceJournal`: append and prune under the lock.
4. `FeatureGraph`: the sort as a recursive function against the definition of a
   topological order.
