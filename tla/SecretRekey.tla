----------------------------- MODULE SecretRekey -----------------------------
(***************************************************************************)
(* The encrypted secret file and the change of its protection              *)
(* (pkg/secrets: rekey.go, protection_rekey.go, protection_reset.go,       *)
(* protection.go, local_store.go, backend_registry.go).                    *)
(*                                                                         *)
(* secrets.enc and its catalog secrets.yaml are two files, and a new key   *)
(* needs both replaced.  A journal and backups let the next command that   *)
(* takes secrets.yaml.lock undo or complete a change that was cut short,   *)
(* by an error or by the end of the process: neither runs any cleanup, and *)
(* Interrupt stands for both.                                              *)
(*                                                                         *)
(* Every secret is sensitive and owned by the file backend.  An absent     *)
(* secrets.yaml is an empty one.  A replaced file is durable.              *)
(***************************************************************************)
EXTENDS Integers

CONSTANTS
  Names,        \* names of secrets
  Passphrases,  \* passphrases the user may choose
  AutoSources,  \* key sources without one: "keyring", "file"
  None,         \* no file, no key
  MaxFaults     \* bound on interruptions and failures of the keyring

ASSUME FaultsAssumption == MaxFaults \in Nat

ASSUME SecretsAssumption ==
  /\ Passphrases \cap AutoSources = {}
  /\ {"", "passphrase"} \cap AutoSources = {}

VARIABLES
  blob,         \* secrets.enc
  next,         \* secrets.enc.next
  backup,       \* secrets.enc.rekey-backup
  indexBackup,  \* secrets.yaml.rekey-backup
  quarantine,   \* the quarantine file of the last reset
  temps,        \* the keys that open temporary files of interrupted writes
  index,        \* secrets.yaml
  journal,      \* secrets.rekey.json
  remembered,   \* the passphrase in the OS keyring
  unread,       \* history: the keyring could not be read to forget it
  op,           \* the command that holds secrets.yaml.lock
  faults        \* faults so far

ciphertexts == <<blob, next, backup, quarantine, temps>>
keyring == <<remembered, unread>>
vars == <<ciphertexts, indexBackup, index, journal, keyring, op, faults>>

Keys == Passphrases \cup AutoSources

\* The key of an automatic source is kept with that source, and stays.
SourceOf(k) == IF k \in Passphrases THEN "passphrase" ELSE k

Sources == {"", "passphrase"} \cup AutoSources

Blob == [key : Keys, vals : SUBSET Names]

\* legacy: an environment value that was not migrated to env.yaml.
Index == [source : Sources, entries : SUBSET Names, legacy : BOOLEAN]

\* hadBlob, old, entries: what a rollback restores.
Journal == [reset : BOOLEAN, committed : BOOLEAN, hadBlob : BOOLEAN,
            old : Sources, entries : SUBSET Names]

PCs == {"idle", "recover", "orphans", "restoreIndex", "finalize", "cleanup",
        "ready", "setEntry", "deleteEntry", "backup", "backupIndex", "journal",
        "swap", "metadata", "verify", "quarantine", "resetMetadata", "forget",
        "commit", "done"}

ASSUME NoneAssumption ==
  /\ None \notin Keys
  /\ None \notin Blob /\ None \notin Index /\ None \notin Journal

\* own: past the recovery, in its own transaction; key: the new one; name: of
\* the secret; had: its value was there.
Op == [pc : PCs, own : BOOLEAN, key : Keys \cup {None},
       name : Names \cup {None}, had : BOOLEAN]

Idle == [pc |-> "idle", own |-> FALSE, key |-> None, name |-> None,
         had |-> FALSE]

At(pc) == op.pc = pc
Goes(pc) == op' = [op EXCEPT !.pc = pc]
Ends == op' = Idle
NoFault == UNCHANGED faults
Fault == faults < MaxFaults /\ faults' = faults + 1

-----------------------------------------------------------------------------
(* RecoverRekey, by every command that takes the lock                      *)

Lock ==
  /\ At("idle")
  /\ Goes(IF journal = None THEN "orphans"
          ELSE IF journal.committed THEN "cleanup" ELSE "recover")
  /\ NoFault /\ UNCHANGED <<ciphertexts, indexBackup, index, journal, keyring>>

\* rollbackRekey puts secrets.enc back; a store that had none gets none.
RestoreBlob ==
  /\ At("recover") /\ ~journal.reset
  /\ IF journal.hadBlob THEN backup # None /\ blob' = backup ELSE blob' = None
  /\ Goes("restoreIndex")
  /\ NoFault
  /\ UNCHANGED <<next, backup, quarantine, temps, indexBackup, index, journal,
                 keyring>>

\* The rename of a reset may have happened or not.
RestoreResetBlob ==
  /\ At("recover") /\ journal.reset
  /\ IF journal.hadBlob /\ quarantine # None
       THEN blob' = quarantine /\ quarantine' = None
       ELSE /\ journal.hadBlob => blob # None
            /\ UNCHANGED <<blob, quarantine>>
  /\ Goes("restoreIndex")
  /\ NoFault
  /\ UNCHANGED <<next, backup, temps, indexBackup, index, journal, keyring>>

\* Mutant: the whole catalog comes back from its backup.
RestoreIndexWhole ==
  /\ At("restoreIndex")
  /\ index' = IF indexBackup # None THEN indexBackup
              ELSE [index EXCEPT !.source = journal.old,
                                 !.entries = @ \cup journal.entries]
  /\ Goes("finalize")
  /\ NoFault
  /\ UNCHANGED <<ciphertexts, indexBackup, journal, keyring>>

\* Only what the transaction changed: entries may have been migrated since.
RestoreIndex ==
  /\ At("restoreIndex")
  /\ index' = [index EXCEPT !.source = journal.old,
                            !.entries = @ \cup journal.entries]
  /\ Goes("finalize")
  /\ NoFault
  /\ UNCHANGED <<ciphertexts, indexBackup, journal, keyring>>

MarkFinalized ==
  /\ At("finalize")
  /\ journal' = [journal EXCEPT !.committed = TRUE]
  /\ Goes("cleanup")
  /\ NoFault /\ UNCHANGED <<ciphertexts, indexBackup, index, keyring>>

\* One of the files of a transaction, or a temporary file.
RemoveArtifact ==
  /\ op.pc \in {"orphans", "cleanup"}
  /\ \/ /\ backup # None /\ backup' = None
        /\ UNCHANGED <<indexBackup, next, temps>>
     \/ /\ indexBackup # None /\ indexBackup' = None
        /\ UNCHANGED <<backup, next, temps>>
     \/ /\ next # None /\ next' = None
        /\ UNCHANGED <<backup, indexBackup, temps>>
     \/ /\ \E k \in temps : temps' = temps \ {k}
        /\ UNCHANGED <<backup, indexBackup, next>>
  /\ NoFault
  /\ UNCHANGED <<blob, quarantine, index, journal, keyring, op>>

Clean == backup = None /\ indexBackup = None /\ next = None /\ temps = {}

OrphansRemoved ==
  /\ At("orphans") /\ Clean
  /\ Goes("ready")
  /\ NoFault /\ UNCHANGED <<ciphertexts, indexBackup, index, journal, keyring>>

\* Mutant: the journal goes before the backups.
RemoveJournalFirst ==
  /\ At("cleanup")
  /\ journal' = None
  /\ Goes(IF op.own THEN "done" ELSE "ready")
  /\ NoFault /\ UNCHANGED <<ciphertexts, indexBackup, index, keyring>>

\* Last, so that an interrupted cleanup is repeated.
RemoveJournal ==
  /\ At("cleanup") /\ Clean
  /\ journal' = None
  /\ Goes(IF op.own THEN "done" ELSE "ready")
  /\ NoFault /\ UNCHANGED <<ciphertexts, indexBackup, index, keyring>>

-----------------------------------------------------------------------------
(* Commands on secrets                                                     *)

Stored == IF blob = None THEN {} ELSE blob.vals

\* openExistingFileKey: k is the passphrase at hand, or the source's own key.
Opens(k) ==
  /\ k \in Keys /\ index.source = SourceOf(k)
  /\ blob # None => blob.key = k

\* openFileKey for Set: without protection metadata, the first secret chooses
\* the key, and a file that is there must open with a passphrase.
OpensForNew(n, k) ==
  \/ index.source # "" /\ Opens(k)
  \/ /\ index.source = "" /\ n \notin index.entries
     /\ blob # None => k \in Passphrases /\ blob.key = k

SetValue(n, k) ==
  /\ At("ready") /\ OpensForNew(n, k)
  /\ blob' = [key |-> k, vals |-> Stored \cup {n}]
  /\ op' = [op EXCEPT !.pc = "setEntry", !.name = n, !.key = k]
  /\ NoFault
  /\ UNCHANGED <<next, backup, quarantine, temps, indexBackup, index, journal,
                 keyring>>

SetEntry ==
  /\ At("setEntry")
  /\ index' = [index EXCEPT !.source = SourceOf(op.key),
                            !.entries = @ \cup {op.name}]
  /\ Ends
  /\ NoFault /\ UNCHANGED <<ciphertexts, indexBackup, journal, keyring>>

DeleteValue(n, k) ==
  /\ At("ready") /\ n \in index.entries /\ Opens(k)
  /\ \/ /\ n \in Stored
        /\ blob' = [blob EXCEPT !.vals = @ \ {n}]
        /\ op' = [op EXCEPT !.pc = "deleteEntry", !.name = n, !.had = TRUE]
     \/ /\ n \notin Stored
        /\ UNCHANGED blob
        /\ op' = [op EXCEPT !.pc = "deleteEntry", !.name = n, !.had = FALSE]
  /\ NoFault
  /\ UNCHANGED <<next, backup, quarantine, temps, indexBackup, index, journal,
                 keyring>>

DeleteEntry ==
  /\ At("deleteEntry")
  /\ index' = [index EXCEPT !.entries = @ \ {op.name}]
  /\ Ends
  /\ NoFault /\ UNCHANGED <<ciphertexts, indexBackup, journal, keyring>>

\* compensateDelete, when the index cannot be saved.
CompensateDelete ==
  /\ At("deleteEntry") /\ op.had
  /\ blob' = [blob EXCEPT !.vals = @ \cup {op.name}]
  /\ Ends
  /\ Fault
  /\ UNCHANGED <<next, backup, quarantine, temps, indexBackup, index, journal,
                 keyring>>

\* A command that only reads, or that refuses to go on.
Release ==
  /\ op.pc \in {"ready", "done"}
  /\ Ends
  /\ NoFault /\ UNCHANGED <<ciphertexts, indexBackup, index, journal, keyring>>

\* The store of environment values takes the lock and does not recover.
Migrate ==
  /\ At("idle") /\ index.legacy
  /\ index' = [index EXCEPT !.legacy = FALSE]
  /\ NoFault
  /\ UNCHANGED <<ciphertexts, indexBackup, journal, keyring, op>>

Remember ==
  /\ At("ready") /\ index.source = "passphrase"
  /\ blob # None /\ blob.key \in Passphrases
  /\ remembered' = blob.key /\ unread' = FALSE
  /\ Ends
  /\ NoFault /\ UNCHANGED <<ciphertexts, indexBackup, index, journal>>

Forget ==
  /\ At("ready")
  /\ remembered' = None /\ unread' = FALSE
  /\ Ends
  /\ NoFault /\ UNCHANGED <<ciphertexts, indexBackup, index, journal>>

-----------------------------------------------------------------------------
(* set-passphrase, change-passphrase and remove-passphrase                 *)

\* validateProtectionChange and currentValues; the values are encrypted anew.
Encrypt(k) ==
  /\ At("ready")
  /\ k \in Passphrases \/ index.source = "passphrase"
  /\ IF index.source = "" THEN blob = None ELSE blob # None /\ Opens(blob.key)
  /\ next' = [key |-> k, vals |-> Stored]
  /\ op' = [op EXCEPT !.pc = "backup", !.own = TRUE, !.key = k]
  /\ NoFault
  /\ UNCHANGED <<blob, backup, quarantine, temps, indexBackup, index, journal,
                 keyring>>

BackupBlob ==
  /\ At("backup")
  /\ backup' = blob
  /\ Goes("backupIndex")
  /\ NoFault
  /\ UNCHANGED <<blob, next, quarantine, temps, indexBackup, index, journal,
                 keyring>>

BackupIndex ==
  /\ At("backupIndex")
  /\ indexBackup' = index
  /\ Goes("journal")
  /\ NoFault /\ UNCHANGED <<ciphertexts, index, journal, keyring>>

WriteJournal ==
  /\ At("journal")
  /\ journal' = [reset |-> FALSE, committed |-> FALSE, hadBlob |-> blob # None,
                 old |-> index.source, entries |-> {}]
  /\ Goes("swap")
  /\ NoFault /\ UNCHANGED <<ciphertexts, indexBackup, index, keyring>>

SwapBlob ==
  /\ At("swap")
  /\ blob' = next /\ next' = None
  /\ Goes("metadata")
  /\ NoFault
  /\ UNCHANGED <<backup, quarantine, temps, indexBackup, index, journal, keyring>>

SaveProtectionMetadata ==
  /\ At("metadata")
  /\ index' = [index EXCEPT !.source = SourceOf(op.key)]
  /\ Goes("verify")
  /\ NoFault /\ UNCHANGED <<ciphertexts, indexBackup, journal, keyring>>

Verify ==
  /\ At("verify") /\ blob.key = op.key
  /\ Goes("forget")
  /\ NoFault /\ UNCHANGED <<ciphertexts, indexBackup, index, journal, keyring>>

\* An error of the keyring when it is read is ignored.
ForgetExistingRemembered ==
  /\ At("forget")
  /\ \/ remembered' = None /\ unread' = FALSE /\ NoFault
     \/ unread' = TRUE /\ UNCHANGED remembered /\ Fault
  /\ Goes("commit")
  /\ UNCHANGED <<ciphertexts, indexBackup, index, journal>>

Commit ==
  /\ At("commit")
  /\ journal' = [journal EXCEPT !.committed = TRUE]
  /\ Goes("cleanup")
  /\ NoFault /\ UNCHANGED <<ciphertexts, indexBackup, index, keyring>>

-----------------------------------------------------------------------------
(* reset                                                                   *)

\* The quarantine file gets a name of its own; older ones stay where they are.
WriteResetJournal ==
  /\ At("ready")
  /\ journal' = [reset |-> TRUE, committed |-> FALSE, hadBlob |-> blob # None,
                 old |-> index.source, entries |-> index.entries]
  /\ quarantine' = None
  /\ op' = [op EXCEPT !.pc = "quarantine", !.own = TRUE]
  /\ NoFault
  /\ UNCHANGED <<blob, next, backup, temps, indexBackup, index, keyring>>

Quarantine ==
  /\ At("quarantine")
  /\ quarantine' = blob /\ blob' = None
  /\ Goes("resetMetadata")
  /\ NoFault
  /\ UNCHANGED <<next, backup, temps, indexBackup, index, journal, keyring>>

SaveResetMetadata ==
  /\ At("resetMetadata")
  /\ index' = [index EXCEPT !.source = "", !.entries = @ \ journal.entries]
  /\ Goes("forget")
  /\ NoFault /\ UNCHANGED <<ciphertexts, indexBackup, journal, keyring>>

-----------------------------------------------------------------------------
\* The keys with which atomicWriteFile may be writing.
Writing ==
  {k \in Keys : \/ At("ready")
                \/ At("backup") /\ blob # None /\ blob.key = k
                \/ At("recover") /\ backup # None /\ backup.key = k
                \/ At("deleteEntry") /\ op.had /\ blob.key = k}

\* A step fails or the process ends: before the step, or while it writes.
Interrupt ==
  /\ ~At("idle")
  /\ \E left \in {{}} \cup {{k} : k \in Writing} : temps' = temps \cup left
  /\ Ends
  /\ Fault
  /\ UNCHANGED <<blob, next, backup, quarantine, indexBackup, index, journal,
                 keyring>>

-----------------------------------------------------------------------------
Init ==
  /\ blob = None /\ next = None /\ backup = None /\ indexBackup = None
  /\ quarantine = None /\ temps = {}
  /\ \E old \in BOOLEAN :
       index = [source |-> "", entries |-> {}, legacy |-> old]
  /\ journal = None
  /\ remembered = None /\ unread = FALSE
  /\ op = Idle
  /\ faults = 0

Recoveries ==
  \/ RestoreBlob \/ RestoreResetBlob \/ RestoreIndex \/ MarkFinalized
  \/ RemoveArtifact \/ OrphansRemoved \/ RemoveJournal

Rekeys ==
  \/ BackupBlob \/ BackupIndex \/ WriteJournal \/ SwapBlob
  \/ SaveProtectionMetadata \/ Verify \/ ForgetExistingRemembered \/ Commit
  \/ Quarantine \/ SaveResetMetadata

Next ==
  \/ Lock \/ Recoveries \/ Release \/ Migrate \/ Remember \/ Forget
  \/ \E k \in Keys :
       Encrypt(k) \/ \E n \in Names : SetValue(n, k) \/ DeleteValue(n, k)
  \/ SetEntry \/ DeleteEntry \/ CompensateDelete
  \/ WriteResetJournal \/ Rekeys
  \/ Interrupt

Spec == Init /\ [][Next]_vars

-----------------------------------------------------------------------------
(* Properties                                                              *)

TypeOK ==
  /\ blob \in Blob \cup {None}
  /\ next \in Blob \cup {None}
  /\ backup \in Blob \cup {None}
  /\ quarantine \in Blob \cup {None}
  /\ temps \subseteq Keys
  /\ index \in Index
  /\ indexBackup \in Index \cup {None}
  /\ journal \in Journal \cup {None}
  /\ remembered \in Passphrases \cup {None}
  /\ unread \in BOOLEAN
  /\ op \in Op
  /\ faults \in 0 .. MaxFaults

\* What the next command finds once it has recovered: the files in place, or
\* what an open transaction has to restore.
RollsBack == journal # None /\ ~journal.committed

Recovered ==
  IF ~RollsBack THEN blob
  ELSE IF ~journal.hadBlob THEN None
  ELSE IF ~journal.reset THEN backup
  ELSE IF quarantine # None THEN quarantine ELSE blob

Key == IF Recovered = None THEN None ELSE Recovered.key
Vals == IF Recovered = None THEN {} ELSE Recovered.vals
Source == IF RollsBack THEN journal.old ELSE index.source
Entries == IF RollsBack THEN index.entries \cup journal.entries ELSE index.entries

Store == INSTANCE SecretStore WITH
  key <- Key, vals <- Vals, source <- Source, entries <- Entries,
  legacy <- index.legacy

\* A change of the protection takes effect at its commit, with both files and
\* every value, and an interruption anywhere, in the recovery too, changes
\* nothing that a later command sees.
ChangesAtOnce == Store!Spec

\* A change that reports success left no file and no passphrase that opens what
\* was there before it, but for the quarantine file of a reset: no backup, no
\* temporary file of a writer that was interrupted earlier, no journal to go
\* back, and no remembered passphrase unless the keyring failed.
OldKeyIsGone ==
  At("done") =>
    /\ Clean /\ journal = None
    /\ blob # None => blob.key = op.key
    /\ remembered = None \/ unread
=============================================================================
