---------------------------- MODULE ContextDeletion ----------------------------
(***************************************************************************)
(* Deletion of a context and its managed values (cmd/context/cleanup.go,   *)
(* cmd/context/deletion_intent.go, pkg/config/context_deletion.go), with   *)
(* the config lock that fences the commands that change a context          *)
(* (pkg/config/config.go, cmd/root.go).                                    *)
(*                                                                         *)
(* The values live in several files, which no single write can replace: a  *)
(* durable intent tells the next command of a deletion that was cut short. *)
(* A process can die at every step, a write or a directory sync can fail,  *)
(* and the machine can lose power.                                         *)
(***************************************************************************)
EXTENDS Integers, Sequences, Functions

CONSTANTS
  Procs,      \* devsy processes
  Contexts,   \* contexts other than the default one
  Secrets,    \* names of secrets
  Envs,       \* names of environment values
  None,       \* no process, no intent
  MaxFaults   \* bound on failed writes and syncs, crashes and power losses

ASSUME FaultsAssumption == MaxFaults \in Nat

VARIABLES
  journal,  \* states of the files since the last sync of their directory, in order
  dir,      \* directories of the contexts
  lock,     \* holder of config.yaml.lock
  proc,     \* the processes
  faults    \* faults so far

vars == <<journal, dir, lock, proc, faults>>

Values == [env : SUBSET Envs, index : SUBSET Secrets, blob : SUBSET Secrets]

Intent == [context : Contexts, envs : SUBSET Envs, secrets : SUBSET Secrets,
           fingerprint : SUBSET Secrets]

ASSUME NoneAssumption ==
  None \notin Procs \cup Contexts \cup Secrets \cup Intent

\* known, bound: Contexts[c] of config.yaml and its Secrets; vals: env.yaml,
\* secrets.yaml and secrets.enc.  kept is not in the files: what the user's
\* commands left of the values.
Files == [intent : Intent \cup {None},
          known : [Contexts -> BOOLEAN],
          bound : [Contexts -> SUBSET Secrets],
          vals : [Contexts -> Values],
          kept : [Contexts -> Values]]

\* contexts/<c> under the data directory, which no code syncs.  owed is not on
\* disk: it is there, and a deletion that unregistered the context has still to
\* remove it.  What was removed may come back.
Dirs == {"none", "there", "owed", "removed"}

PCs == {"idle", "checked", "mutate", "snapshot", "install", "installed",
        "secret", "index", "config", "dir", "remove", "removed",
        "rewrite", "restoreEnv", "restore", "restoreIndex", "report"}

\* intent: what the process snapshot or read; todo: secrets still to delete or to
\* restore, of those tried; cur, had: the one at hand, and whether its value was
\* there; failed: a restoration failed; result: what is reported once the intent
\* is gone, or at the end.
Proc == [pc : PCs, context : Contexts \cup {None}, resuming : BOOLEAN,
         intent : Intent \cup {None},
         tried : SUBSET Secrets, todo : SUBSET Secrets,
         cur : Secrets \cup {None}, had : BOOLEAN, failed : BOOLEAN,
         result : {"none", "ok", "preserved", "pending"}]

Idle == [pc |-> "idle", context |-> None, resuming |-> FALSE, intent |-> None,
         tried |-> {}, todo |-> {}, cur |-> None, had |-> FALSE,
         failed |-> FALSE, result |-> "none"]

Disk == journal[Len(journal)]

Fault == faults < MaxFaults /\ faults' = faults + 1
NoFault == faults' = faults

\* A file is replaced, and the directory synced.  Most callers ignore an error of
\* that sync.
Write(f) ==
  \/ journal' = <<f>> /\ NoFault
  \/ journal' = Append(journal, f) /\ Fault

\* The values of c are replaced.
Hold(f, c, v) == [f EXCEPT !.vals[c] = v]

\* The operation fails and leaves the files alone.
Fails == Fault /\ UNCHANGED journal

Becomes(p, r) == proc' = [proc EXCEPT ![p] = r]

Reports(p, result) ==
  Becomes(p, [proc[p] EXCEPT !.pc = "report", !.result = result])

-----------------------------------------------------------------------------
(* Commands that change a context                                          *)

\* checkPendingContextDeletion: once, at startup and without the lock.
StartCommand(p, c) ==
  /\ proc[p].pc = "idle" /\ Disk.intent = None
  /\ Becomes(p, [proc[p] EXCEPT !.pc = "checked", !.context = c])
  /\ UNCHANGED <<journal, dir, lock, faults>>

\* Mutant: the check at startup is taken to be good enough.
LockConfigUnchecked(p) ==
  /\ proc[p].pc = "checked" /\ lock = None
  /\ lock' = p /\ Becomes(p, [proc[p] EXCEPT !.pc = "mutate"])
  /\ UNCHANGED <<journal, dir, faults>>

\* The intent is read again once the lock is held.
LockConfig(p) ==
  /\ proc[p].pc = "checked" /\ lock = None
  /\ IF Disk.intent = None
       THEN lock' = p /\ Becomes(p, [proc[p] EXCEPT !.pc = "mutate"])
       ELSE UNCHANGED lock /\ Becomes(p, Idle)
  /\ UNCHANGED <<journal, dir, faults>>

\* A command leaves the values of c as v.
Keep(f, c, v) == [f EXCEPT !.vals[c] = v, !.kept[c] = v]

Bind(f, c, b) == [f EXCEPT !.bound[c] = b]

\* --context may name a context that is not registered: loading the config makes
\* an entry for it, which is there to stay once the config is saved.
Register(f, c) == [f EXCEPT !.known[c] = TRUE]

CreateContext(f, c) ==
  {<<Register(f, c)>> : k \in {f.known[c]} \ {TRUE}}

AttachSecret(f, c) ==
  {<<Register(Bind(f, c, f.bound[c] \cup {s}), c)>> :
     s \in (f.vals[c].index \cap f.vals[c].blob) \ f.bound[c]}

DetachSecret(f, c) ==
  {<<Bind(f, c, f.bound[c] \ {s})>> : s \in f.bound[c]}

SetEnv(f, c) ==
  {<<Keep(f, c, [f.vals[c] EXCEPT !.env = @ \cup {e}])>> : e \in Envs}

DeleteEnv(f, c) ==
  {<<Keep(f, c, [f.vals[c] EXCEPT !.env = @ \ {e}])>> : e \in f.vals[c].env}

SetSecret(f, c) ==
  {LET stored == Keep(f, c, [f.vals[c] EXCEPT !.blob = @ \cup {s}])
   IN <<stored, Keep(stored, c, [stored.vals[c] EXCEPT !.index = @ \cup {s}])>> :
     s \in Secrets}

\* The binding goes first.
DeleteSecret(f, c) ==
  {LET unbound == Bind(f, c, f.bound[c] \ {s})
       gone == Keep(unbound, c, [f.vals[c] EXCEPT !.blob = @ \ {s}])
   IN <<unbound, gone, Keep(gone, c, [gone.vals[c] EXCEPT !.index = @ \ {s}])>> :
     s \in f.vals[c].index}

Commands(f, c) ==
  CreateContext(f, c) \cup AttachSecret(f, c) \cup DetachSecret(f, c)
    \cup SetEnv(f, c) \cup DeleteEnv(f, c)
    \cup SetSecret(f, c) \cup DeleteSecret(f, c)

\* A command holds the lock until its last write, so that nobody sees it half
\* done; an error or the end of the process leaves what was written before.
Mutate(p) ==
  /\ proc[p].pc = "mutate"
  /\ \E cmd \in Commands(Disk, proc[p].context) :
       \/ Write(cmd[Len(cmd)])
       \/ \E i \in 1 .. Len(cmd) - 1 : journal' = <<cmd[i]>> /\ Fault
       \/ Fails
  /\ Becomes(p, Idle)
  /\ lock' = None /\ UNCHANGED dir

\* Commands for workspaces, machines and providers make the directory of their
\* context for lock files and for what they save.  They look for an intent at
\* startup only, and hold no lock that a deletion takes.
MakeDirectory(p) ==
  LET c == proc[p].context IN
  /\ proc[p].pc = "checked" /\ dir[c] \in {"none", "removed"}
  /\ dir' = [dir EXCEPT ![c] = "there"]
  /\ UNCHANGED <<journal, lock, proc, faults>>

\* Not every command takes the config lock.
CommandEnds(p) ==
  /\ proc[p].pc = "checked"
  /\ Becomes(p, Idle)
  /\ UNCHANGED <<journal, dir, lock, faults>>

-----------------------------------------------------------------------------
(* context delete                                                          *)

\* Mutant: a deletion is resumed only while its context is registered.
DeleteBeginsRegistered(p, c) ==
  /\ proc[p].pc = "idle" /\ lock = None
  /\ LET i == Disk.intent
     IN \/ /\ i # None /\ i.context = c
           /\ Disk.known[c] /\ Disk.bound[c] = i.fingerprint
           /\ Becomes(p, [Idle EXCEPT !.pc = "secret", !.context = c,
                            !.resuming = TRUE, !.intent = i,
                            !.todo = i.secrets, !.result = "ok"])
        \/ /\ i = None /\ Disk.known[c]
           /\ Becomes(p, [Idle EXCEPT !.pc = "snapshot", !.context = c])
  /\ lock' = p
  /\ UNCHANGED <<journal, dir, faults>>

\* LockConfigForContextDeletion, LoadConfig, and the choice between resuming a
\* deletion and beginning one.
DeleteBegins(p, c) ==
  /\ proc[p].pc = "idle" /\ lock = None
  /\ LET i == Disk.intent
     IN \/ /\ i # None /\ i.context = c
           /\ Disk.known[c] => Disk.bound[c] = i.fingerprint
           /\ Becomes(p, [Idle EXCEPT !.pc = "secret", !.context = c,
                            !.resuming = TRUE, !.intent = i,
                            !.todo = i.secrets, !.result = "ok"])
        \/ /\ i = None /\ Disk.known[c]
           /\ Becomes(p, [Idle EXCEPT !.pc = "snapshot", !.context = c])
  /\ lock' = p
  /\ UNCHANGED <<journal, dir, faults>>

\* Mutant: the intent is written without a fingerprint.
SnapshotNoFingerprint(p) ==
  LET c == proc[p].context
      v == Disk.vals[c]
      owned == Disk.bound[c] \cap v.index
  IN
  /\ proc[p].pc = "snapshot"
  /\ Becomes(p, [proc[p] EXCEPT !.pc = "install", !.todo = owned,
       !.intent = [context |-> c, envs |-> v.env, secrets |-> owned]])
  /\ UNCHANGED <<journal, dir, lock, faults>>

\* Every environment value, and the bound secrets that exist.  Each of these has
\* to be readable.
Snapshot(p) ==
  LET c == proc[p].context
      v == Disk.vals[c]
      owned == Disk.bound[c] \cap v.index
  IN
  /\ proc[p].pc = "snapshot"
  /\ IF owned \subseteq v.blob
       THEN Becomes(p, [proc[p] EXCEPT !.pc = "install", !.todo = owned,
              !.intent = [context |-> c, envs |-> v.env, secrets |-> owned,
                          fingerprint |-> Disk.bound[c]]])
       ELSE Reports(p, "preserved")
  /\ UNCHANGED <<journal, dir, lock, faults>>

\* The intent is renamed into place.
Install(p) ==
  LET r == proc[p] IN
  /\ r.pc = "install"
  /\ \/ /\ journal' = Append(journal, [Disk EXCEPT !.intent = r.intent])
        /\ NoFault
        /\ Becomes(p, [r EXCEPT !.pc = "installed"])
     \/ Fails /\ Reports(p, "preserved")
  /\ UNCHANGED <<dir, lock>>

\* Nothing is deleted before the intent is durable.  A failed sync cancels it.
SyncIntent(p) ==
  LET r == proc[p] IN
  /\ r.pc = "installed"
  /\ \/ /\ journal' = <<Disk>> /\ NoFault
        /\ Becomes(p, [r EXCEPT !.pc = "secret", !.result = "ok"])
     \/ /\ Fails
        /\ Becomes(p, [r EXCEPT !.pc = "remove", !.result = "preserved"])
  /\ UNCHANGED <<dir, lock>>

\* What follows a failed deletion: a resumed one keeps its intent, a first one
\* restores what it tried to delete.
Rollback(p, r) ==
  Becomes(p, IF r.resuming
               THEN [r EXCEPT !.pc = "report", !.result = "pending"]
               ELSE [r EXCEPT !.pc = "restore", !.todo = r.tried,
                              !.result = "preserved"])

\* Store.Delete: the value first, and then its entry in the index.
DeleteSecretValue(p) ==
  LET r == proc[p]
      c == r.context
  IN
  /\ r.pc = "secret"
  /\ UNCHANGED <<dir, lock>>
  /\ \E s \in r.todo :
       LET t == [r EXCEPT !.todo = @ \ {s}, !.tried = @ \cup {s}] IN
       \/ /\ s \notin Disk.vals[c].index
          /\ Becomes(p, t) /\ UNCHANGED <<journal, faults>>
       \/ /\ s \in Disk.vals[c].index \ Disk.vals[c].blob
          /\ Becomes(p, [t EXCEPT !.pc = "index", !.cur = s, !.had = FALSE])
          /\ UNCHANGED <<journal, faults>>
       \/ /\ s \in Disk.vals[c].index \cap Disk.vals[c].blob
          /\ \/ /\ Write(Hold(Disk, c, [Disk.vals[c] EXCEPT !.blob = @ \ {s}]))
                /\ Becomes(p,
                           [t EXCEPT !.pc = "index", !.cur = s, !.had = TRUE])
             \/ Fails /\ Rollback(p, t)

\* An index that cannot be saved puts the value back, or fails at that too.
DeleteSecretEntry(p) ==
  LET r == proc[p]
      c == r.context
  IN
  /\ r.pc = "index"
  /\ UNCHANGED <<dir, lock>>
  /\ \/ /\ Write(Hold(Disk, c, [Disk.vals[c] EXCEPT !.index = @ \ {r.cur}]))
        /\ Becomes(p, [r EXCEPT !.pc = "secret"])
     \/ /\ Fault
        /\ \/ /\ r.had
              /\ journal' = <<Hold(Disk, c,
                                [Disk.vals[c] EXCEPT !.blob = @ \cup {r.cur}])>>
           \/ UNCHANGED journal
        /\ Rollback(p, r)

\* DeleteValues replaces env.yaml once; without names there is nothing to do.
DeleteEnvValues(p) ==
  LET r == proc[p]
      c == r.context
  IN
  /\ r.pc = "secret" /\ r.todo = {}
  /\ UNCHANGED <<dir, lock>>
  /\ \/ /\ IF r.intent.envs = {}
             THEN UNCHANGED <<journal, faults>>
             ELSE Write(Hold(Disk, c,
                          [Disk.vals[c] EXCEPT !.env = @ \ r.intent.envs]))
        /\ Becomes(p, [r EXCEPT !.pc = "config"])
     \/ r.intent.envs # {} /\ Fails /\ Rollback(p, r)

\* The directory of c, if there is one, is to be removed.
Owes(c) == dir' = [dir EXCEPT ![c] = IF @ = "there" THEN "owed" ELSE @]

\* The context is unregistered: its values are no longer the user's.
SaveConfig(p) ==
  LET r == proc[p]
      c == r.context
      was == Disk.kept[c]
      now == [was EXCEPT !.env = @ \ r.intent.envs,
                         !.index = @ \ r.intent.secrets,
                         !.blob = @ \ r.intent.secrets]
  IN
  /\ r.pc = "config"
  /\ UNCHANGED lock
  /\ \/ /\ IF Disk.known[c]
             THEN /\ Write([Bind(Disk, c, {}) EXCEPT !.known[c] = FALSE,
                                                     !.kept[c] = now])
                  /\ Owes(c)
             ELSE UNCHANGED <<journal, dir, faults>>
        /\ Becomes(p, [r EXCEPT !.pc = "dir"])
     \/ /\ Disk.known[c] /\ Fails /\ UNCHANGED dir
        /\ IF r.resuming THEN Rollback(p, r)
           ELSE Becomes(p, [r EXCEPT !.pc = "restoreEnv",
                                     !.result = "preserved"])

\* RemoveAll also fails when a command makes something in the directory meanwhile.
RemoveContextDir(p) ==
  LET r == proc[p]
      c == r.context
      busy == \E q \in Procs : proc[q].pc = "checked" /\ proc[q].context = c
  IN
  /\ r.pc = "dir"
  /\ UNCHANGED <<journal, lock>>
  /\ \/ /\ dir' = [dir EXCEPT ![c] = IF @ = "none" THEN @ ELSE "removed"]
        /\ NoFault
        /\ Becomes(p, [r EXCEPT !.pc = "remove"])
     \/ /\ Fault \/ (busy /\ dir[c] \in {"there", "owed"} /\ NoFault)
        /\ UNCHANGED dir
        /\ Reports(p, "pending")

\* ClearContextDeletionIntent and cancelContextDeletionIntent.
RemoveIntent(p) ==
  LET r == proc[p] IN
  /\ r.pc = "remove"
  /\ UNCHANGED <<dir, lock>>
  /\ \/ /\ journal' = Append(journal, [Disk EXCEPT !.intent = None]) /\ NoFault
        /\ Becomes(p, [r EXCEPT !.pc = "removed"])
     \/ Fails /\ Reports(p, "pending")

SyncRemoval(p) ==
  LET r == proc[p] IN
  /\ r.pc = "removed"
  /\ UNCHANGED <<dir, lock>>
  /\ \/ journal' = <<Disk>> /\ NoFault /\ Reports(p, r.result)
     \/ Fails /\ Becomes(p, [r EXCEPT !.pc = "rewrite"])

\* The removal may not be durable: the intent is put back, if that works.
RewriteIntent(p) ==
  LET r == proc[p] IN
  /\ r.pc = "rewrite"
  /\ UNCHANGED <<dir, lock>>
  /\ Write([Disk EXCEPT !.intent = r.intent]) \/ Fails
  /\ Reports(p, "pending")

-----------------------------------------------------------------------------
(* rollbackContextValues                                                   *)

RestoreEnv(p) ==
  LET r == proc[p]
      c == r.context
  IN
  /\ r.pc = "restoreEnv"
  /\ UNCHANGED <<dir, lock>>
  /\ \/ /\ IF r.intent.envs = {}
             THEN UNCHANGED <<journal, faults>>
             ELSE Write(Hold(Disk, c,
                          [Disk.vals[c] EXCEPT !.env = @ \cup r.intent.envs]))
        /\ Becomes(p, [r EXCEPT !.pc = "restore", !.todo = r.tried])
     \/ /\ r.intent.envs # {} /\ Fails
        /\ Becomes(p, [r EXCEPT !.pc = "restore", !.todo = r.tried,
                                !.failed = TRUE])

RestoreSecretValue(p) ==
  LET r == proc[p]
      c == r.context
  IN
  /\ r.pc = "restore"
  /\ UNCHANGED <<dir, lock>>
  /\ \E s \in r.todo :
       LET t == [r EXCEPT !.todo = @ \ {s}] IN
       \/ /\ Write(Hold(Disk, c, [Disk.vals[c] EXCEPT !.blob = @ \cup {s}]))
          /\ Becomes(p, [t EXCEPT !.pc = "restoreIndex", !.cur = s])
       \/ Fails /\ Becomes(p, [t EXCEPT !.failed = TRUE])

RestoreSecretEntry(p) ==
  LET r == proc[p]
      c == r.context
  IN
  /\ r.pc = "restoreIndex"
  /\ UNCHANGED <<dir, lock>>
  /\ \/ /\ Write(Hold(Disk, c, [Disk.vals[c] EXCEPT !.index = @ \cup {r.cur}]))
        /\ Becomes(p, [r EXCEPT !.pc = "restore"])
     \/ Fails /\ Becomes(p, [r EXCEPT !.pc = "restore", !.failed = TRUE])

\* Mutant: the intent is cleared whether or not everything was restored.
RolledBackAnyway(p) ==
  LET r == proc[p] IN
  /\ r.pc = "restore" /\ r.todo = {}
  /\ Becomes(p, [r EXCEPT !.pc = "remove"])
  /\ UNCHANGED <<journal, dir, lock, faults>>

\* The intent is cleared only when everything was restored.
RolledBack(p) ==
  LET r == proc[p] IN
  /\ r.pc = "restore" /\ r.todo = {}
  /\ IF r.failed THEN Reports(p, "pending")
                 ELSE Becomes(p, [r EXCEPT !.pc = "remove"])
  /\ UNCHANGED <<journal, dir, lock, faults>>

\* The command reports and ends.
Ends(p) ==
  /\ proc[p].pc = "report"
  /\ Becomes(p, Idle)
  /\ lock' = None
  /\ UNCHANGED <<journal, dir, faults>>

-----------------------------------------------------------------------------
(* Crashes                                                                 *)

Crash(p) ==
  /\ proc[p].pc # "idle"
  /\ Fault
  /\ Becomes(p, Idle)
  /\ lock' = IF lock = p THEN None ELSE lock
  /\ UNCHANGED <<journal, dir>>

Names(f, c) == f.intent # None /\ f.intent.context = c

\* What may become of the directory of c if the files become f: it is lost if its
\* making was not synced, and comes back if its removal was not.  It is owed as
\* long as the deletion is pending.
AfterPowerLoss(f, c) ==
  CASE dir[c] = "none" -> {"none"}
    [] dir[c] \in {"there", "removed"} -> {"none", "there"}
    [] dir[c] = "owed" -> {"none", IF Names(f, c) THEN "owed" ELSE "there"}

\* What was not synced may be lost: of the files, the later first; the directories
\* are elsewhere and go their own way.
PowerLoss ==
  /\ Fault
  /\ \E i \in DOMAIN journal :
       /\ journal' = <<journal[i]>>
       /\ dir' \in [Contexts -> Dirs]
       /\ \A c \in Contexts : dir'[c] \in AfterPowerLoss(journal[i], c)
  /\ proc' = [p \in Procs |-> Idle]
  /\ lock' = None

-----------------------------------------------------------------------------
NoValues == [env |-> {}, index |-> {}, blob |-> {}]

Init ==
  /\ journal = <<[intent |-> None, known |-> [c \in Contexts |-> FALSE],
                  bound |-> [c \in Contexts |-> {}],
                  vals |-> [c \in Contexts |-> NoValues],
                  kept |-> [c \in Contexts |-> NoValues]]>>
  /\ dir = [c \in Contexts |-> "none"]
  /\ lock = None
  /\ proc = [p \in Procs |-> Idle]
  /\ faults = 0

Deletes(p) ==
  \/ Snapshot(p) \/ Install(p) \/ SyncIntent(p)
  \/ DeleteSecretValue(p) \/ DeleteSecretEntry(p) \/ DeleteEnvValues(p)
  \/ SaveConfig(p) \/ RemoveContextDir(p)
  \/ RemoveIntent(p) \/ SyncRemoval(p) \/ RewriteIntent(p)
  \/ RestoreEnv(p) \/ RestoreSecretValue(p) \/ RestoreSecretEntry(p)
  \/ RolledBack(p) \/ Ends(p)

Next ==
  \/ \E p \in Procs :
       \/ LockConfig(p) \/ Mutate(p) \/ MakeDirectory(p) \/ CommandEnds(p)
       \/ Deletes(p) \/ Crash(p)
       \/ \E c \in Contexts : StartCommand(p, c) \/ DeleteBegins(p, c)
  \/ PowerLoss

Spec == Init /\ [][Next]_vars

\* The user retries a deletion that is pending, as every command asks for.
Resumes(p) == Disk.intent # None /\ DeleteBegins(p, Disk.intent.context)

\* Processes run, and a retry that can take the lock again and again does.
FairSpec ==
  /\ Spec
  /\ \A p \in Procs :
       WF_vars(LockConfig(p) \/ Mutate(p) \/ CommandEnds(p) \/ Deletes(p))
  /\ SF_vars(\E p \in Procs : Resumes(p))

-----------------------------------------------------------------------------
(* Properties                                                              *)

TypeOK ==
  /\ journal \in Seq(Files) /\ journal # << >>
  /\ dir \in [Contexts -> Dirs]
  /\ lock \in Procs \cup {None}
  /\ proc \in [Procs -> Proc]
  /\ faults \in 0 .. MaxFaults

\* A value without an entry in the index cannot be reached.
Visible(v) == [env |-> v.env, index |-> v.index, blob |-> v.blob \cap v.index]

\* The values of c are what the user's commands left.
Whole(f, c) == Visible(f.vals[c]) = Visible(f.kept[c])

\* A context that is deleted in part is one that an intent names: one whose values
\* are gone in part, in the files or in any state of them that a power loss may
\* bring back, and one that is unregistered and has kept its directory.  A
\* directory that a command made later, or that a power loss brought back after
\* its removal, is not part of that.
PartialIsPending ==
  \A c \in Contexts :
    /\ \A f \in Range(journal) : Whole(f, c) \/ Names(f, c)
    /\ dir[c] = "owed" => Names(Disk, c)

\* A deletion that reports success left nothing of the context that was bound to
\* it, in files that no power loss takes back, and no directory but one that was
\* made after the removal; one that says that the values were preserved left the
\* context registered, with no intent.
ReportIsTrue ==
  \A p \in Procs :
    LET r == proc[p]
        c == r.context
    IN r.pc = "report" =>
         /\ r.result = "ok" =>
              /\ journal = <<Disk>> /\ Disk.intent = None
              /\ ~Disk.known[c] /\ dir[c] # "owed"
              /\ Disk.vals[c].env = {}
              /\ Disk.vals[c].index \cap r.intent.fingerprint = {}
         /\ r.result = "preserved" =>
              Disk.intent = None /\ Disk.known[c] /\ Whole(Disk, c)

\* A pending deletion ends: no state of the files keeps the retry from finishing.
PendingResolves == Disk.intent # None ~> Disk.intent = None
=============================================================================
