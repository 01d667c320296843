-------------------------- MODULE SecretRekeyProof --------------------------
(***************************************************************************)
(* Proofs about SecretRekey: the journal, the backups and the files in     *)
(* place agree at every step of a change of the protection and of its      *)
(* recovery, so that the change happens at once or not at all.             *)
(***************************************************************************)
EXTENDS SecretRekey, TLAPS

\* Before a command has changed anything, and after its transaction.
Settled == {"orphans", "ready", "setEntry", "deleteEntry", "backup",
            "backupIndex", "journal", "done"}

Undoing == {"recover", "restoreIndex", "finalize"}
Rekeying == {"swap", "metadata", "verify"}
Resetting == {"quarantine", "resetMetadata"}
Closing == {"forget", "commit"}

\* What the journal says at each step.
JournalInv ==
  /\ op.pc \in Settled => journal = None
  /\ op.pc \in Undoing \cup Rekeying \cup Resetting \cup Closing => RollsBack
  /\ op.pc = "cleanup" => journal # None /\ journal.committed
  /\ op.pc \in Rekeying => ~journal.reset
  /\ op.pc \in Resetting => journal.reset

\* A rollback finds what it restores.
RollbackInv ==
  RollsBack =>
    /\ ~journal.reset => journal.entries = {}
    /\ ~journal.reset /\ journal.hadBlob => backup # None
    /\ journal.reset /\ ~journal.hadBlob => blob = None
    /\ journal.reset /\ journal.hadBlob => quarantine # None \/ blob # None

\* How far a recovery has come.
UndoInv ==
  /\ op.pc \in {"restoreIndex", "finalize"} => blob = Recovered
  /\ op.pc = "finalize" =>
       index.source = journal.old /\ journal.entries \subseteq index.entries

\* A store without secret file has no source, and another the source of its key.
Matches(f, s) == IF f = None THEN s = "" ELSE s = SourceOf(f.key)

ValsOf(f) == IF f = None THEN {} ELSE f.vals

\* The new file is ready and the old one still in place.
PrepareInv ==
  /\ op.pc \in {"backup", "backupIndex", "journal", "swap"} =>
       /\ op.key \in Keys
       /\ next = [key |-> op.key, vals |-> ValsOf(blob)]
       /\ Matches(blob, index.source)
  /\ op.pc \in {"backupIndex", "journal", "swap"} => backup = blob
  /\ op.pc = "swap" =>
       journal.old = index.source /\ journal.hadBlob = (blob # None)

\* The new file is in place, with the values of the old one, its backup.
SwapInv ==
  /\ op.pc \in {"metadata", "verify"} \cup Closing /\ ~journal.reset =>
       /\ op.key \in Keys
       /\ blob = [key |-> op.key, vals |-> ValsOf(backup)]
       /\ journal.hadBlob = (backup # None)
       /\ Matches(backup, journal.old)
  /\ op.pc \in {"verify"} \cup Closing /\ ~journal.reset =>
       index.source = SourceOf(op.key)

\* A reset moves the file away and empties the catalog.
ResetInv ==
  /\ op.pc = "quarantine" =>
       /\ quarantine = None
       /\ journal.hadBlob = (blob # None)
       /\ journal.old = index.source
  /\ op.pc \in Resetting => journal.entries = index.entries
  /\ op.pc = "resetMetadata" \/ (op.pc \in Closing /\ journal.reset) =>
       blob = None /\ journal.hadBlob = (quarantine # None)
  /\ op.pc \in Closing /\ journal.reset =>
       index.source = "" /\ index.entries = {}

\* What holds from the commit to the report.
CommitInv ==
  /\ op.pc = "commit" => remembered = None \/ unread
  /\ (op.pc = "cleanup" /\ op.own) \/ op.pc = "done" =>
       /\ remembered = None \/ unread
       /\ blob # None => blob.key = op.key
  /\ op.pc = "done" => Clean
  /\ op.pc \in {"idle"} \cup Undoing => ~op.own

\* The value at hand of a Set or a Delete.
SecretInv ==
  /\ op.pc = "setEntry" =>
       /\ blob # None /\ blob.key = op.key
       /\ op.name \in Names /\ op.name \in blob.vals
  /\ op.pc = "deleteEntry" =>
       /\ op.name \in Names /\ op.name \notin Stored
       /\ op.had => blob # None

IndInv ==
  /\ TypeOK /\ JournalInv /\ RollbackInv /\ UndoInv
  /\ PrepareInv /\ SwapInv /\ ResetInv /\ CommitInv /\ SecretInv

\* The bound on faults holds after one more of them.
LEMMA FaultsBounded ==
  ASSUME faults \in 0 .. MaxFaults, Fault
  PROVE  faults' \in 0 .. MaxFaults
BY FaultsAssumption DEF Fault

\* Taking the lock changes no file.
LEMMA LockKeeps ==
  ASSUME IndInv, Lock
  PROVE  IndInv'
<1> USE SecretsAssumption, NoneAssumption
    DEF At, Goes, Ends, NoFault, Fault, ciphertexts, keyring
<1>1. TypeOK'
  <2>1. op' \in Op
    BY DEF Lock, IndInv, TypeOK, Op, Idle, PCs
  <2> QED BY <2>1 DEF Lock, IndInv, TypeOK
<1> USE DEF IndInv, TypeOK, JournalInv, Settled, Undoing, Rekeying, Resetting,
    Closing, RollsBack, Op, Idle, Blob, Index, Journal
<1>2. JournalInv' /\ RollbackInv' /\ UndoInv'
  BY <1>1 DEF Lock, RollbackInv, UndoInv, PrepareInv, SwapInv, ResetInv,
         Recovered
<1>3. PrepareInv' /\ SwapInv' /\ ResetInv'
  BY <1>1 DEF Lock, PrepareInv, SwapInv, ResetInv, Matches, ValsOf, Stored,
         SourceOf
<1>4. CommitInv' /\ SecretInv'
  BY <1>1 DEF Lock, SwapInv, ResetInv, CommitInv, SecretInv, Clean, Stored
<1> QED BY <1>1, <1>2, <1>3, <1>4

\* A rollback finds the backup that the journal says there is.
LEMMA RestoreBlobKeeps ==
  ASSUME IndInv, RestoreBlob
  PROVE  IndInv'
<1> USE SecretsAssumption, NoneAssumption
    DEF At, Goes, Ends, NoFault, Fault, ciphertexts, keyring
<1>1. TypeOK'
  <2>1. op' \in Op
    BY DEF RestoreBlob, IndInv, TypeOK, Op, Idle, PCs
  <2>2. blob' \in Blob \cup {None}
    BY DEF RestoreBlob, IndInv, TypeOK, JournalInv, RollbackInv, RollsBack,
           Undoing
  <2> QED BY <2>1, <2>2 DEF RestoreBlob, IndInv, TypeOK
<1> USE DEF IndInv, TypeOK, JournalInv, Settled, Undoing, Rekeying, Resetting,
    Closing, RollsBack, Op, Idle, Blob, Index, Journal
<1>2. JournalInv' /\ RollbackInv' /\ UndoInv'
  BY <1>1 DEF RestoreBlob, RollbackInv, UndoInv, PrepareInv, SwapInv,
         ResetInv, Recovered
<1>3. PrepareInv' /\ SwapInv' /\ ResetInv'
  BY <1>1 DEF RestoreBlob, PrepareInv, SwapInv, ResetInv, Matches, ValsOf,
         Stored, SourceOf
<1>4. CommitInv' /\ SecretInv'
  BY <1>1 DEF RestoreBlob, SwapInv, ResetInv, CommitInv, SecretInv, Clean,
         Stored
<1> QED BY <1>1, <1>2, <1>3, <1>4

\* A reset is undone whether or not its rename took place.
LEMMA RestoreResetBlobKeeps ==
  ASSUME IndInv, RestoreResetBlob
  PROVE  IndInv'
<1> USE SecretsAssumption, NoneAssumption
    DEF At, Goes, Ends, NoFault, Fault, ciphertexts, keyring
<1>1. TypeOK'
  <2>1. op' \in Op
    BY DEF RestoreResetBlob, IndInv, TypeOK, Op, Idle, PCs
  <2>2. blob' \in Blob \cup {None}
    BY DEF RestoreResetBlob, IndInv, TypeOK, JournalInv, RollbackInv,
           RollsBack, Undoing
  <2>3. quarantine' \in Blob \cup {None}
    BY DEF RestoreResetBlob, IndInv, TypeOK, RollsBack
  <2> QED BY <2>1, <2>2, <2>3 DEF RestoreResetBlob, IndInv, TypeOK
<1> USE DEF IndInv, TypeOK, JournalInv, Settled, Undoing, Rekeying, Resetting,
    Closing, RollsBack, Op, Idle, Blob, Index, Journal
<1>2. JournalInv' /\ RollbackInv' /\ UndoInv'
  BY <1>1 DEF RestoreResetBlob, RollbackInv, UndoInv, PrepareInv, SwapInv,
         ResetInv, Recovered
<1>3. PrepareInv' /\ SwapInv' /\ ResetInv'
  BY <1>1 DEF RestoreResetBlob, PrepareInv, SwapInv, ResetInv, Matches,
         ValsOf, Stored, SourceOf
<1>4. CommitInv' /\ SecretInv'
  BY <1>1 DEF RestoreResetBlob, SwapInv, ResetInv, CommitInv, SecretInv,
         Clean, Stored
<1> QED BY <1>1, <1>2, <1>3, <1>4

\* The catalog gets back its source and the entries that a reset removed.
LEMMA RestoreIndexKeeps ==
  ASSUME IndInv, RestoreIndex
  PROVE  IndInv'
<1> USE SecretsAssumption, NoneAssumption
    DEF At, Goes, Ends, NoFault, Fault, ciphertexts, keyring
<1>1. TypeOK'
  <2>1. op' \in Op
    BY DEF RestoreIndex, IndInv, TypeOK, Op, Idle, PCs
  <2>2. index' \in Index
    BY DEF RestoreIndex, IndInv, TypeOK, JournalInv, RollsBack, Undoing,
           Index, Journal
  <2> QED BY <2>1, <2>2 DEF RestoreIndex, IndInv, TypeOK
<1> USE DEF IndInv, TypeOK, JournalInv, Settled, Undoing, Rekeying, Resetting,
    Closing, RollsBack, Op, Idle, Blob, Index, Journal
<1>2. JournalInv' /\ RollbackInv' /\ UndoInv'
  BY <1>1 DEF RestoreIndex, RollbackInv, UndoInv, PrepareInv, SwapInv,
         ResetInv, Recovered
<1>3. PrepareInv' /\ SwapInv' /\ ResetInv'
  BY <1>1 DEF RestoreIndex, PrepareInv, SwapInv, ResetInv, Matches, ValsOf,
         Stored, SourceOf
<1>4. CommitInv' /\ SecretInv'
  BY <1>1 DEF RestoreIndex, SwapInv, ResetInv, CommitInv, SecretInv, Clean,
         Stored
<1> QED BY <1>1, <1>2, <1>3, <1>4

\* A rollback that is complete is marked in the journal.
LEMMA MarkFinalizedKeeps ==
  ASSUME IndInv, MarkFinalized
  PROVE  IndInv'
<1> USE SecretsAssumption, NoneAssumption
    DEF At, Goes, Ends, NoFault, Fault, ciphertexts, keyring
<1>1. TypeOK'
  <2>1. op' \in Op
    BY DEF MarkFinalized, IndInv, TypeOK, Op, Idle, PCs
  <2>2. journal' \in Journal \cup {None}
    BY DEF MarkFinalized, IndInv, TypeOK, JournalInv, RollsBack, Undoing,
           Journal
  <2> QED BY <2>1, <2>2 DEF MarkFinalized, IndInv, TypeOK
<1> USE DEF IndInv, TypeOK, JournalInv, Settled, Undoing, Rekeying, Resetting,
    Closing, RollsBack, Op, Idle, Blob, Index, Journal
<1>2. JournalInv' /\ RollbackInv' /\ UndoInv'
  BY <1>1 DEF MarkFinalized, RollbackInv, UndoInv, PrepareInv, SwapInv,
         ResetInv, Recovered
<1>3. PrepareInv' /\ SwapInv' /\ ResetInv'
  BY <1>1 DEF MarkFinalized, PrepareInv, SwapInv, ResetInv, Matches, ValsOf,
         Stored, SourceOf
<1>4. CommitInv' /\ SecretInv'
  BY <1>1 DEF MarkFinalized, SwapInv, ResetInv, CommitInv, SecretInv, Clean,
         Stored
<1> QED BY <1>1, <1>2, <1>3, <1>4

\* No step reads a backup once no rollback can need it.
LEMMA RemoveArtifactKeeps ==
  ASSUME IndInv, RemoveArtifact
  PROVE  IndInv'
<1> USE SecretsAssumption, NoneAssumption
    DEF At, Goes, Ends, NoFault, Fault, ciphertexts, keyring
<1>1. TypeOK'
  <2>1. op' \in Op
    BY DEF RemoveArtifact, IndInv, TypeOK, Op, Idle, PCs
  <2>2. temps' \subseteq Keys
    BY DEF RemoveArtifact, IndInv, TypeOK, RollsBack
  <2> QED BY <2>1, <2>2 DEF RemoveArtifact, IndInv, TypeOK
<1> USE DEF IndInv, TypeOK, JournalInv, Settled, Undoing, Rekeying, Resetting,
    Closing, RollsBack, Op, Idle, Blob, Index, Journal
<1>2. JournalInv' /\ RollbackInv' /\ UndoInv'
  BY <1>1 DEF RemoveArtifact, RollbackInv, UndoInv, PrepareInv, SwapInv,
         ResetInv, Recovered
<1>3. PrepareInv' /\ SwapInv' /\ ResetInv'
  BY <1>1 DEF RemoveArtifact, PrepareInv, SwapInv, ResetInv, Matches, ValsOf,
         Stored, SourceOf
<1>4. CommitInv' /\ SecretInv'
  BY <1>1 DEF RemoveArtifact, SwapInv, ResetInv, CommitInv, SecretInv, Clean,
         Stored
<1> QED BY <1>1, <1>2, <1>3, <1>4

\* Without a journal there is nothing to recover.
LEMMA OrphansRemovedKeeps ==
  ASSUME IndInv, OrphansRemoved
  PROVE  IndInv'
<1> USE SecretsAssumption, NoneAssumption
    DEF At, Goes, Ends, NoFault, Fault, ciphertexts, keyring
<1>1. TypeOK'
  <2>1. op' \in Op
    BY DEF OrphansRemoved, IndInv, TypeOK, Op, Idle, PCs
  <2> QED BY <2>1 DEF OrphansRemoved, IndInv, TypeOK
<1> USE DEF IndInv, TypeOK, JournalInv, Settled, Undoing, Rekeying, Resetting,
    Closing, RollsBack, Op, Idle, Blob, Index, Journal
<1>2. JournalInv' /\ RollbackInv' /\ UndoInv'
  BY <1>1 DEF OrphansRemoved, RollbackInv, UndoInv, PrepareInv, SwapInv,
         ResetInv, Recovered
<1>3. PrepareInv' /\ SwapInv' /\ ResetInv'
  BY <1>1 DEF OrphansRemoved, PrepareInv, SwapInv, ResetInv, Matches, ValsOf,
         Stored, SourceOf
<1>4. CommitInv' /\ SecretInv'
  BY <1>1 DEF OrphansRemoved, SwapInv, ResetInv, CommitInv, SecretInv, Clean,
         Stored
<1> QED BY <1>1, <1>2, <1>3, <1>4

\* The files in place stay what they are when the journal goes.
LEMMA RemoveJournalKeeps ==
  ASSUME IndInv, RemoveJournal
  PROVE  IndInv'
<1> USE SecretsAssumption, NoneAssumption
    DEF At, Goes, Ends, NoFault, Fault, ciphertexts, keyring
<1>1. TypeOK'
  <2>1. op' \in Op
    BY DEF RemoveJournal, IndInv, TypeOK, Op, Idle, PCs
  <2> QED BY <2>1 DEF RemoveJournal, IndInv, TypeOK
<1> USE DEF IndInv, TypeOK, JournalInv, Settled, Undoing, Rekeying, Resetting,
    Closing, RollsBack, Op, Idle, Blob, Index, Journal
<1>2. JournalInv' /\ RollbackInv' /\ UndoInv'
  BY <1>1 DEF RemoveJournal, RollbackInv, UndoInv, PrepareInv, SwapInv,
         ResetInv, Recovered
<1>3. PrepareInv' /\ SwapInv' /\ ResetInv'
  BY <1>1 DEF RemoveJournal, PrepareInv, SwapInv, ResetInv, Matches, ValsOf,
         Stored, SourceOf
<1>4. CommitInv' /\ SecretInv'
  BY <1>1 DEF RemoveJournal, SwapInv, ResetInv, CommitInv, SecretInv, Clean,
         Stored
<1> QED BY <1>1, <1>2, <1>3, <1>4

\* Set names the value that it stored.
LEMMA SetEntryKeeps ==
  ASSUME IndInv, SetEntry
  PROVE  IndInv'
<1> USE SecretsAssumption, NoneAssumption
    DEF At, Goes, Ends, NoFault, Fault, ciphertexts, keyring
<1>1. TypeOK'
  <2>1. op' \in Op
    BY DEF SetEntry, IndInv, TypeOK, Op, Idle, PCs
  <2>2. index' \in Index
    BY DEF SetEntry, IndInv, TypeOK, SecretInv, Index, Sources, SourceOf,
           Keys, Blob
  <2> QED BY <2>1, <2>2 DEF SetEntry, IndInv, TypeOK
<1> USE DEF IndInv, TypeOK, JournalInv, Settled, Undoing, Rekeying, Resetting,
    Closing, RollsBack, Op, Idle, Blob, Index, Journal
<1>2. JournalInv' /\ RollbackInv' /\ UndoInv'
  BY <1>1 DEF SetEntry, RollbackInv, UndoInv, PrepareInv, SwapInv, ResetInv,
         Recovered
<1>3. PrepareInv' /\ SwapInv' /\ ResetInv'
  BY <1>1 DEF SetEntry, PrepareInv, SwapInv, ResetInv, Matches, ValsOf,
         Stored, SourceOf
<1>4. CommitInv' /\ SecretInv'
  BY <1>1 DEF SetEntry, SwapInv, ResetInv, CommitInv, SecretInv, Clean, Stored
<1> QED BY <1>1, <1>2, <1>3, <1>4

\* Delete removes the entry of a value that is gone.
LEMMA DeleteEntryKeeps ==
  ASSUME IndInv, DeleteEntry
  PROVE  IndInv'
<1> USE SecretsAssumption, NoneAssumption
    DEF At, Goes, Ends, NoFault, Fault, ciphertexts, keyring
<1>1. TypeOK'
  <2>1. op' \in Op
    BY DEF DeleteEntry, IndInv, TypeOK, Op, Idle, PCs
  <2>2. index' \in Index
    BY DEF DeleteEntry, IndInv, TypeOK, Index
  <2> QED BY <2>1, <2>2 DEF DeleteEntry, IndInv, TypeOK
<1> USE DEF IndInv, TypeOK, JournalInv, Settled, Undoing, Rekeying, Resetting,
    Closing, RollsBack, Op, Idle, Blob, Index, Journal
<1>2. JournalInv' /\ RollbackInv' /\ UndoInv'
  BY <1>1 DEF DeleteEntry, RollbackInv, UndoInv, PrepareInv, SwapInv,
         ResetInv, Recovered
<1>3. PrepareInv' /\ SwapInv' /\ ResetInv'
  BY <1>1 DEF DeleteEntry, PrepareInv, SwapInv, ResetInv, Matches, ValsOf,
         Stored, SourceOf
<1>4. CommitInv' /\ SecretInv'
  BY <1>1 DEF DeleteEntry, SwapInv, ResetInv, CommitInv, SecretInv, Clean,
         Stored
<1> QED BY <1>1, <1>2, <1>3, <1>4

\* A failed Delete stores the value again, with the same key.
LEMMA CompensateDeleteKeeps ==
  ASSUME IndInv, CompensateDelete
  PROVE  IndInv'
<1> USE SecretsAssumption, NoneAssumption
    DEF At, Goes, Ends, NoFault, Fault, ciphertexts, keyring
<1>1. TypeOK'
  <2>1. op' \in Op
    BY DEF CompensateDelete, IndInv, TypeOK, Op, Idle, PCs
  <2>2. blob' \in Blob \cup {None}
    BY DEF CompensateDelete, IndInv, TypeOK, SecretInv, Blob
  <2>3. faults' \in 0 .. MaxFaults
    BY FaultsBounded DEF CompensateDelete, IndInv, TypeOK
  <2> QED BY <2>1, <2>2, <2>3 DEF CompensateDelete, IndInv, TypeOK
<1> USE DEF IndInv, TypeOK, JournalInv, Settled, Undoing, Rekeying, Resetting,
    Closing, RollsBack, Op, Idle, Blob, Index, Journal
<1>2. JournalInv' /\ RollbackInv' /\ UndoInv'
  BY <1>1 DEF CompensateDelete, RollbackInv, UndoInv, PrepareInv, SwapInv,
         ResetInv, Recovered
<1>3. PrepareInv' /\ SwapInv' /\ ResetInv'
  BY <1>1 DEF CompensateDelete, PrepareInv, SwapInv, ResetInv, Matches,
         ValsOf, Stored, SourceOf
<1>4. CommitInv' /\ SecretInv'
  BY <1>1 DEF CompensateDelete, SwapInv, ResetInv, CommitInv, SecretInv,
         Clean, Stored
<1> QED BY <1>1, <1>2, <1>3, <1>4

\* A command that ends changes no file.
LEMMA ReleaseKeeps ==
  ASSUME IndInv, Release
  PROVE  IndInv'
<1> USE SecretsAssumption, NoneAssumption
    DEF At, Goes, Ends, NoFault, Fault, ciphertexts, keyring
<1>1. TypeOK'
  <2>1. op' \in Op
    BY DEF Release, IndInv, TypeOK, Op, Idle, PCs
  <2> QED BY <2>1 DEF Release, IndInv, TypeOK
<1> USE DEF IndInv, TypeOK, JournalInv, Settled, Undoing, Rekeying, Resetting,
    Closing, RollsBack, Op, Idle, Blob, Index, Journal
<1>2. JournalInv' /\ RollbackInv' /\ UndoInv'
  BY <1>1 DEF Release, RollbackInv, UndoInv, PrepareInv, SwapInv, ResetInv,
         Recovered
<1>3. PrepareInv' /\ SwapInv' /\ ResetInv'
  BY <1>1 DEF Release, PrepareInv, SwapInv, ResetInv, Matches, ValsOf, Stored,
         SourceOf
<1>4. CommitInv' /\ SecretInv'
  BY <1>1 DEF Release, SwapInv, ResetInv, CommitInv, SecretInv, Clean, Stored
<1> QED BY <1>1, <1>2, <1>3, <1>4

\* A migration keeps the source and the entries that a rollback will correct.
LEMMA MigrateKeeps ==
  ASSUME IndInv, Migrate
  PROVE  IndInv'
<1> USE SecretsAssumption, NoneAssumption
    DEF At, Goes, Ends, NoFault, Fault, ciphertexts, keyring
<1>1. TypeOK'
  <2>1. op' \in Op
    BY DEF Migrate, IndInv, TypeOK, Op, Idle, PCs
  <2>2. index' \in Index
    BY DEF Migrate, IndInv, TypeOK, Index
  <2> QED BY <2>1, <2>2 DEF Migrate, IndInv, TypeOK
<1> USE DEF IndInv, TypeOK, JournalInv, Settled, Undoing, Rekeying, Resetting,
    Closing, RollsBack, Op, Idle, Blob, Index, Journal
<1>2. JournalInv' /\ RollbackInv' /\ UndoInv'
  BY <1>1 DEF Migrate, RollbackInv, UndoInv, PrepareInv, SwapInv, ResetInv,
         Recovered
<1>3. PrepareInv' /\ SwapInv' /\ ResetInv'
  BY <1>1 DEF Migrate, PrepareInv, SwapInv, ResetInv, Matches, ValsOf, Stored,
         SourceOf
<1>4. CommitInv' /\ SecretInv'
  BY <1>1 DEF Migrate, SwapInv, ResetInv, CommitInv, SecretInv, Clean, Stored
<1> QED BY <1>1, <1>2, <1>3, <1>4

\* A remembered passphrase opens the store.
LEMMA RememberKeeps ==
  ASSUME IndInv, Remember
  PROVE  IndInv'
<1> USE SecretsAssumption, NoneAssumption
    DEF At, Goes, Ends, NoFault, Fault, ciphertexts, keyring
<1>1. TypeOK'
  <2>1. op' \in Op
    BY DEF Remember, IndInv, TypeOK, Op, Idle, PCs
  <2> QED BY <2>1 DEF Remember, IndInv, TypeOK
<1> USE DEF IndInv, TypeOK, JournalInv, Settled, Undoing, Rekeying, Resetting,
    Closing, RollsBack, Op, Idle, Blob, Index, Journal
<1>2. JournalInv' /\ RollbackInv' /\ UndoInv'
  BY <1>1 DEF Remember, RollbackInv, UndoInv, PrepareInv, SwapInv, ResetInv,
         Recovered
<1>3. PrepareInv' /\ SwapInv' /\ ResetInv'
  BY <1>1 DEF Remember, PrepareInv, SwapInv, ResetInv, Matches, ValsOf,
         Stored, SourceOf
<1>4. CommitInv' /\ SecretInv'
  BY <1>1 DEF Remember, SwapInv, ResetInv, CommitInv, SecretInv, Clean, Stored
<1> QED BY <1>1, <1>2, <1>3, <1>4

\* Forget changes the keyring only.
LEMMA ForgetKeeps ==
  ASSUME IndInv, Forget
  PROVE  IndInv'
<1> USE SecretsAssumption, NoneAssumption
    DEF At, Goes, Ends, NoFault, Fault, ciphertexts, keyring
<1>1. TypeOK'
  <2>1. op' \in Op
    BY DEF Forget, IndInv, TypeOK, Op, Idle, PCs
  <2> QED BY <2>1 DEF Forget, IndInv, TypeOK
<1> USE DEF IndInv, TypeOK, JournalInv, Settled, Undoing, Rekeying, Resetting,
    Closing, RollsBack, Op, Idle, Blob, Index, Journal
<1>2. JournalInv' /\ RollbackInv' /\ UndoInv'
  BY <1>1 DEF Forget, RollbackInv, UndoInv, PrepareInv, SwapInv, ResetInv,
         Recovered
<1>3. PrepareInv' /\ SwapInv' /\ ResetInv'
  BY <1>1 DEF Forget, PrepareInv, SwapInv, ResetInv, Matches, ValsOf, Stored,
         SourceOf
<1>4. CommitInv' /\ SecretInv'
  BY <1>1 DEF Forget, SwapInv, ResetInv, CommitInv, SecretInv, Clean, Stored
<1> QED BY <1>1, <1>2, <1>3, <1>4

\* The backup is a copy of the secret file.
LEMMA BackupBlobKeeps ==
  ASSUME IndInv, BackupBlob
  PROVE  IndInv'
<1> USE SecretsAssumption, NoneAssumption
    DEF At, Goes, Ends, NoFault, Fault, ciphertexts, keyring
<1>1. TypeOK'
  <2>1. op' \in Op
    BY DEF BackupBlob, IndInv, TypeOK, Op, Idle, PCs
  <2> QED BY <2>1 DEF BackupBlob, IndInv, TypeOK
<1> USE DEF IndInv, TypeOK, JournalInv, Settled, Undoing, Rekeying, Resetting,
    Closing, RollsBack, Op, Idle, Blob, Index, Journal
<1>2. JournalInv' /\ RollbackInv' /\ UndoInv'
  BY <1>1 DEF BackupBlob, RollbackInv, UndoInv, PrepareInv, SwapInv, ResetInv,
         Recovered
<1>3. PrepareInv' /\ SwapInv' /\ ResetInv'
  BY <1>1 DEF BackupBlob, PrepareInv, SwapInv, ResetInv, Matches, ValsOf,
         Stored, SourceOf
<1>4. CommitInv' /\ SecretInv'
  BY <1>1 DEF BackupBlob, SwapInv, ResetInv, CommitInv, SecretInv, Clean,
         Stored
<1> QED BY <1>1, <1>2, <1>3, <1>4

\* The copy of the catalog is never read again.
LEMMA BackupIndexKeeps ==
  ASSUME IndInv, BackupIndex
  PROVE  IndInv'
<1> USE SecretsAssumption, NoneAssumption
    DEF At, Goes, Ends, NoFault, Fault, ciphertexts, keyring
<1>1. TypeOK'
  <2>1. op' \in Op
    BY DEF BackupIndex, IndInv, TypeOK, Op, Idle, PCs
  <2> QED BY <2>1 DEF BackupIndex, IndInv, TypeOK
<1> USE DEF IndInv, TypeOK, JournalInv, Settled, Undoing, Rekeying, Resetting,
    Closing, RollsBack, Op, Idle, Blob, Index, Journal
<1>2. JournalInv' /\ RollbackInv' /\ UndoInv'
  BY <1>1 DEF BackupIndex, RollbackInv, UndoInv, PrepareInv, SwapInv,
         ResetInv, Recovered
<1>3. PrepareInv' /\ SwapInv' /\ ResetInv'
  BY <1>1 DEF BackupIndex, PrepareInv, SwapInv, ResetInv, Matches, ValsOf,
         Stored, SourceOf
<1>4. CommitInv' /\ SecretInv'
  BY <1>1 DEF BackupIndex, SwapInv, ResetInv, CommitInv, SecretInv, Clean,
         Stored
<1> QED BY <1>1, <1>2, <1>3, <1>4

\* From the journal on, the backup counts.
LEMMA WriteJournalKeeps ==
  ASSUME IndInv, WriteJournal
  PROVE  IndInv'
<1> USE SecretsAssumption, NoneAssumption
    DEF At, Goes, Ends, NoFault, Fault, ciphertexts, keyring
<1>1. TypeOK'
  <2>1. op' \in Op
    BY DEF WriteJournal, IndInv, TypeOK, Op, Idle, PCs
  <2>2. journal' \in Journal \cup {None}
    BY DEF WriteJournal, IndInv, TypeOK, JournalInv, Journal, Index
  <2> QED BY <2>1, <2>2 DEF WriteJournal, IndInv, TypeOK
<1>5. journal' # None
  <2>1. journal' \in Journal
    BY DEF WriteJournal, IndInv, TypeOK, Journal, Index
  <2> QED BY <2>1
<1> USE DEF IndInv, TypeOK, JournalInv, Settled, Undoing, Rekeying, Resetting,
    Closing, RollsBack, Op, Idle, Blob, Index, Journal
<1>2. JournalInv' /\ RollbackInv' /\ UndoInv'
  BY <1>1, <1>5 DEF WriteJournal, RollbackInv, UndoInv, PrepareInv, SwapInv,
         ResetInv, Recovered
<1>3. PrepareInv' /\ SwapInv' /\ ResetInv'
  BY <1>1, <1>5 DEF WriteJournal, PrepareInv, SwapInv, ResetInv, Matches,
         ValsOf, Stored, SourceOf
<1>4. CommitInv' /\ SecretInv'
  BY <1>1, <1>5 DEF WriteJournal, SwapInv, ResetInv, CommitInv, SecretInv,
         Clean, Stored
<1> QED BY <1>1, <1>2, <1>3, <1>4

\* The new file is in place while a rollback still brings the old one.
LEMMA SwapBlobKeeps ==
  ASSUME IndInv, SwapBlob
  PROVE  IndInv'
<1> USE SecretsAssumption, NoneAssumption
    DEF At, Goes, Ends, NoFault, Fault, ciphertexts, keyring
<1>1. TypeOK'
  <2>1. op' \in Op
    BY DEF SwapBlob, IndInv, TypeOK, Op, Idle, PCs
  <2> QED BY <2>1 DEF SwapBlob, IndInv, TypeOK
<1> USE DEF IndInv, TypeOK, JournalInv, Settled, Undoing, Rekeying, Resetting,
    Closing, RollsBack, Op, Idle, Blob, Index, Journal
<1>2. JournalInv' /\ RollbackInv' /\ UndoInv'
  BY <1>1 DEF SwapBlob, RollbackInv, UndoInv, PrepareInv, SwapInv, ResetInv,
         Recovered
<1>3. PrepareInv' /\ SwapInv' /\ ResetInv'
  BY <1>1 DEF SwapBlob, PrepareInv, SwapInv, ResetInv, Matches, ValsOf,
         Stored, SourceOf
<1>4. CommitInv' /\ SecretInv'
  BY <1>1 DEF SwapBlob, SwapInv, ResetInv, CommitInv, SecretInv, Clean, Stored
<1> QED BY <1>1, <1>2, <1>3, <1>4

\* The new source is in place while a rollback still brings the old one.
LEMMA SaveProtectionMetadataKeeps ==
  ASSUME IndInv, SaveProtectionMetadata
  PROVE  IndInv'
<1> USE SecretsAssumption, NoneAssumption
    DEF At, Goes, Ends, NoFault, Fault, ciphertexts, keyring
<1>1. TypeOK'
  <2>1. op' \in Op
    BY DEF SaveProtectionMetadata, IndInv, TypeOK, Op, Idle, PCs
  <2>2. index' \in Index
    BY DEF SaveProtectionMetadata, IndInv, TypeOK, SwapInv, JournalInv,
           RollsBack, Rekeying, Closing, Index, Sources, SourceOf, Keys
  <2> QED BY <2>1, <2>2 DEF SaveProtectionMetadata, IndInv, TypeOK
<1> USE DEF IndInv, TypeOK, JournalInv, Settled, Undoing, Rekeying, Resetting,
    Closing, RollsBack, Op, Idle, Blob, Index, Journal
<1>2. JournalInv' /\ RollbackInv' /\ UndoInv'
  BY <1>1 DEF SaveProtectionMetadata, RollbackInv, UndoInv, PrepareInv,
         SwapInv, ResetInv, Recovered
<1>3. PrepareInv' /\ SwapInv' /\ ResetInv'
  BY <1>1 DEF SaveProtectionMetadata, PrepareInv, SwapInv, ResetInv, Matches,
         ValsOf, Stored, SourceOf
<1>4. CommitInv' /\ SecretInv'
  BY <1>1 DEF SaveProtectionMetadata, SwapInv, ResetInv, CommitInv, SecretInv,
         Clean, Stored
<1> QED BY <1>1, <1>2, <1>3, <1>4

\* Reading the new file changes nothing.
LEMMA VerifyKeeps ==
  ASSUME IndInv, Verify
  PROVE  IndInv'
<1> USE SecretsAssumption, NoneAssumption
    DEF At, Goes, Ends, NoFault, Fault, ciphertexts, keyring
<1>1. TypeOK'
  <2>1. op' \in Op
    BY DEF Verify, IndInv, TypeOK, Op, Idle, PCs
  <2> QED BY <2>1 DEF Verify, IndInv, TypeOK
<1> USE DEF IndInv, TypeOK, JournalInv, Settled, Undoing, Rekeying, Resetting,
    Closing, RollsBack, Op, Idle, Blob, Index, Journal
<1>2. JournalInv' /\ RollbackInv' /\ UndoInv'
  BY <1>1 DEF Verify, RollbackInv, UndoInv, PrepareInv, SwapInv, ResetInv,
         Recovered
<1>3. PrepareInv' /\ SwapInv' /\ ResetInv'
  BY <1>1 DEF Verify, PrepareInv, SwapInv, ResetInv, Matches, ValsOf, Stored,
         SourceOf
<1>4. CommitInv' /\ SecretInv'
  BY <1>1 DEF Verify, SwapInv, ResetInv, CommitInv, SecretInv, Clean, Stored
<1> QED BY <1>1, <1>2, <1>3, <1>4

\* The remembered passphrase goes before the commit.
LEMMA ForgetExistingRememberedKeeps ==
  ASSUME IndInv, ForgetExistingRemembered
  PROVE  IndInv'
<1> USE SecretsAssumption, NoneAssumption
    DEF At, Goes, Ends, NoFault, Fault, ciphertexts, keyring
<1>1. TypeOK'
  <2>1. op' \in Op
    BY DEF ForgetExistingRemembered, IndInv, TypeOK, Op, Idle, PCs
  <2>2. faults' \in 0 .. MaxFaults
    BY FaultsBounded DEF ForgetExistingRemembered, IndInv, TypeOK
  <2> QED BY <2>1, <2>2 DEF ForgetExistingRemembered, IndInv, TypeOK
<1> USE DEF IndInv, TypeOK, JournalInv, Settled, Undoing, Rekeying, Resetting,
    Closing, RollsBack, Op, Idle, Blob, Index, Journal
<1>2. JournalInv' /\ RollbackInv' /\ UndoInv'
  BY <1>1 DEF ForgetExistingRemembered, RollbackInv, UndoInv, PrepareInv,
         SwapInv, ResetInv, Recovered
<1>3. PrepareInv' /\ SwapInv' /\ ResetInv'
  BY <1>1 DEF ForgetExistingRemembered, PrepareInv, SwapInv, ResetInv,
         Matches, ValsOf, Stored, SourceOf
<1>4. CommitInv' /\ SecretInv'
  BY <1>1 DEF ForgetExistingRemembered, SwapInv, ResetInv, CommitInv,
         SecretInv, Clean, Stored
<1> QED BY <1>1, <1>2, <1>3, <1>4

\* The commit is the step at which a change takes effect.
LEMMA CommitKeeps ==
  ASSUME IndInv, Commit
  PROVE  IndInv'
<1> USE SecretsAssumption, NoneAssumption
    DEF At, Goes, Ends, NoFault, Fault, ciphertexts, keyring
<1>1. TypeOK'
  <2>1. op' \in Op
    BY DEF Commit, IndInv, TypeOK, Op, Idle, PCs
  <2>2. journal' \in Journal \cup {None}
    BY DEF Commit, IndInv, TypeOK, JournalInv, RollsBack, Closing, Journal
  <2> QED BY <2>1, <2>2 DEF Commit, IndInv, TypeOK
<1> USE DEF IndInv, TypeOK, JournalInv, Settled, Undoing, Rekeying, Resetting,
    Closing, RollsBack, Op, Idle, Blob, Index, Journal
<1>2. JournalInv' /\ RollbackInv' /\ UndoInv'
  BY <1>1 DEF Commit, RollbackInv, UndoInv, PrepareInv, SwapInv, ResetInv,
         Recovered
<1>3. PrepareInv' /\ SwapInv' /\ ResetInv'
  BY <1>1 DEF Commit, PrepareInv, SwapInv, ResetInv, Matches, ValsOf, Stored,
         SourceOf
<1>4. CommitInv' /\ SecretInv'
  <2>1. blob # None => blob.key = op.key
    <3>1. op.pc = "commit"
      BY DEF Commit
    <3>2. CASE journal.reset
      BY <3>1, <3>2 DEF IndInv, ResetInv, Closing
    <3>3. CASE ~journal.reset
      <4>1. blob = [key |-> op.key, vals |-> ValsOf(backup)]
        BY <3>1, <3>3 DEF IndInv, SwapInv, Closing
      <4> QED BY <4>1
    <3> QED BY <3>2, <3>3
  <2>2. op' = [op EXCEPT !.pc = "cleanup"] /\ op \in Op
    BY DEF Commit, IndInv, TypeOK
  <2>3. remembered = None \/ unread
    BY DEF Commit, IndInv, CommitInv
  <2> QED BY <2>1, <2>2, <2>3 DEF Commit, CommitInv, SecretInv, Undoing, Op
<1> QED BY <1>1, <1>2, <1>3, <1>4

\* From its journal on, a reset is open.
LEMMA WriteResetJournalKeeps ==
  ASSUME IndInv, WriteResetJournal
  PROVE  IndInv'
<1> USE SecretsAssumption, NoneAssumption
    DEF At, Goes, Ends, NoFault, Fault, ciphertexts, keyring
<1>1. TypeOK'
  <2>1. op' \in Op
    BY DEF WriteResetJournal, IndInv, TypeOK, Op, Idle, PCs
  <2>2. journal' \in Journal \cup {None}
    BY DEF WriteResetJournal, IndInv, TypeOK, JournalInv, Journal, Index
  <2> QED BY <2>1, <2>2 DEF WriteResetJournal, IndInv, TypeOK
<1>5. journal' # None
  <2>1. journal' \in Journal
    BY DEF WriteResetJournal, IndInv, TypeOK, Journal, Index
  <2> QED BY <2>1
<1> USE DEF IndInv, TypeOK, JournalInv, Settled, Undoing, Rekeying, Resetting,
    Closing, RollsBack, Op, Idle, Blob, Index, Journal
<1>2. JournalInv' /\ RollbackInv' /\ UndoInv'
  BY <1>1, <1>5 DEF WriteResetJournal, RollbackInv, UndoInv, PrepareInv,
         SwapInv, ResetInv, Recovered
<1>3. PrepareInv' /\ SwapInv' /\ ResetInv'
  BY <1>1, <1>5 DEF WriteResetJournal, PrepareInv, SwapInv, ResetInv, Matches,
         ValsOf, Stored, SourceOf
<1>4. CommitInv' /\ SecretInv'
  BY <1>1, <1>5 DEF WriteResetJournal, SwapInv, ResetInv, CommitInv,
         SecretInv, Clean, Stored
<1> QED BY <1>1, <1>2, <1>3, <1>4

\* The file is found under its new name.
LEMMA QuarantineKeeps ==
  ASSUME IndInv, Quarantine
  PROVE  IndInv'
<1> USE SecretsAssumption, NoneAssumption
    DEF At, Goes, Ends, NoFault, Fault, ciphertexts, keyring
<1>1. TypeOK'
  <2>1. op' \in Op
    BY DEF Quarantine, IndInv, TypeOK, Op, Idle, PCs
  <2> QED BY <2>1 DEF Quarantine, IndInv, TypeOK
<1> USE DEF IndInv, TypeOK, JournalInv, Settled, Undoing, Rekeying, Resetting,
    Closing, RollsBack, Op, Idle, Blob, Index, Journal
<1>2. JournalInv' /\ RollbackInv' /\ UndoInv'
  BY <1>1 DEF Quarantine, RollbackInv, UndoInv, PrepareInv, SwapInv, ResetInv,
         Recovered
<1>3. PrepareInv' /\ SwapInv' /\ ResetInv'
  BY <1>1 DEF Quarantine, PrepareInv, SwapInv, ResetInv, Matches, ValsOf,
         Stored, SourceOf
<1>4. CommitInv' /\ SecretInv'
  BY <1>1 DEF Quarantine, SwapInv, ResetInv, CommitInv, SecretInv, Clean,
         Stored
<1> QED BY <1>1, <1>2, <1>3, <1>4

\* The journal knows the entries that a reset removes.
LEMMA SaveResetMetadataKeeps ==
  ASSUME IndInv, SaveResetMetadata
  PROVE  IndInv'
<1> USE SecretsAssumption, NoneAssumption
    DEF At, Goes, Ends, NoFault, Fault, ciphertexts, keyring
<1>1. TypeOK'
  <2>1. op' \in Op
    BY DEF SaveResetMetadata, IndInv, TypeOK, Op, Idle, PCs
  <2>2. index' \in Index
    BY DEF SaveResetMetadata, IndInv, TypeOK, Index, Journal, Sources
  <2> QED BY <2>1, <2>2 DEF SaveResetMetadata, IndInv, TypeOK
<1> USE DEF IndInv, TypeOK, JournalInv, Settled, Undoing, Rekeying, Resetting,
    Closing, RollsBack, Op, Idle, Blob, Index, Journal
<1>2. JournalInv' /\ RollbackInv' /\ UndoInv'
  BY <1>1 DEF SaveResetMetadata, RollbackInv, UndoInv, PrepareInv, SwapInv,
         ResetInv, Recovered
<1>3. PrepareInv' /\ SwapInv' /\ ResetInv'
  BY <1>1 DEF SaveResetMetadata, PrepareInv, SwapInv, ResetInv, Matches,
         ValsOf, Stored, SourceOf
<1>4. CommitInv' /\ SecretInv'
  BY <1>1 DEF SaveResetMetadata, SwapInv, ResetInv, CommitInv, SecretInv,
         Clean, Stored
<1> QED BY <1>1, <1>2, <1>3, <1>4

\* An interruption leaves temporary files at most.
LEMMA InterruptKeeps ==
  ASSUME IndInv, Interrupt
  PROVE  IndInv'
<1> USE SecretsAssumption, NoneAssumption
    DEF At, Goes, Ends, NoFault, Fault, ciphertexts, keyring
<1>1. TypeOK'
  <2>1. op' \in Op
    BY DEF Interrupt, IndInv, TypeOK, Op, Idle, PCs
  <2>2. temps' \subseteq Keys
    BY DEF Interrupt, IndInv, TypeOK, Writing, Blob, Keys
  <2>3. faults' \in 0 .. MaxFaults
    BY FaultsBounded DEF Interrupt, IndInv, TypeOK
  <2> QED BY <2>1, <2>2, <2>3 DEF Interrupt, IndInv, TypeOK
<1> USE DEF IndInv, TypeOK, JournalInv, Settled, Undoing, Rekeying, Resetting,
    Closing, RollsBack, Op, Idle, Blob, Index, Journal
<1>2. JournalInv' /\ RollbackInv' /\ UndoInv'
  BY <1>1 DEF Interrupt, RollbackInv, UndoInv, PrepareInv, SwapInv, ResetInv,
         Recovered
<1>3. PrepareInv' /\ SwapInv' /\ ResetInv'
  BY <1>1 DEF Interrupt, PrepareInv, SwapInv, ResetInv, Matches, ValsOf,
         Stored, SourceOf
<1>4. CommitInv' /\ SecretInv'
  BY <1>1 DEF Interrupt, SwapInv, ResetInv, CommitInv, SecretInv, Clean,
         Stored
<1> QED BY <1>1, <1>2, <1>3, <1>4

\* The new file is written beside the one in place.
LEMMA EncryptKeeps ==
  ASSUME NEW k \in Keys, IndInv, Encrypt(k)
  PROVE  IndInv'
<1> USE SecretsAssumption, NoneAssumption
    DEF At, Goes, Ends, NoFault, Fault, ciphertexts, keyring
<1>1. TypeOK'
  <2>1. op' \in Op
    BY DEF Encrypt, IndInv, TypeOK, Op, Idle, PCs
  <2>2. next' \in Blob \cup {None}
    BY DEF Encrypt, IndInv, TypeOK, Blob, Stored, OpensForNew, Opens
  <2> QED BY <2>1, <2>2 DEF Encrypt, IndInv, TypeOK
<1> USE DEF IndInv, TypeOK, JournalInv, Settled, Undoing, Rekeying, Resetting,
    Closing, RollsBack, Op, Idle, Blob, Index, Journal
<1>2. JournalInv' /\ RollbackInv' /\ UndoInv'
  BY <1>1 DEF Encrypt, RollbackInv, UndoInv, PrepareInv, SwapInv, ResetInv,
         Recovered, OpensForNew, Opens
<1>3. PrepareInv' /\ SwapInv' /\ ResetInv'
  BY <1>1 DEF Encrypt, PrepareInv, SwapInv, ResetInv, Matches, ValsOf, Stored,
         SourceOf, OpensForNew, Opens
<1>4. CommitInv' /\ SecretInv'
  BY <1>1 DEF Encrypt, SwapInv, ResetInv, CommitInv, SecretInv, Clean, Stored,
         OpensForNew, Opens
<1> QED BY <1>1, <1>2, <1>3, <1>4

\* Set stores a value with the key of the others.
LEMMA SetValueKeeps ==
  ASSUME NEW n \in Names, NEW k \in Keys, IndInv, SetValue(n, k)
  PROVE  IndInv'
<1> USE SecretsAssumption, NoneAssumption
    DEF At, Goes, Ends, NoFault, Fault, ciphertexts, keyring
<1>1. TypeOK'
  <2>1. op' \in Op
    BY DEF SetValue, IndInv, TypeOK, Op, Idle, PCs
  <2>2. blob' \in Blob \cup {None}
    BY DEF SetValue, IndInv, TypeOK, Blob, Stored, OpensForNew, Opens
  <2> QED BY <2>1, <2>2 DEF SetValue, IndInv, TypeOK
<1>5. blob' # None
  <2>1. blob' \in Blob
    BY DEF SetValue, IndInv, TypeOK, Blob, Stored
  <2> QED BY <2>1
<1> USE DEF IndInv, TypeOK, JournalInv, Settled, Undoing, Rekeying, Resetting,
    Closing, RollsBack, Op, Idle, Blob, Index, Journal
<1>2. JournalInv' /\ RollbackInv' /\ UndoInv'
  BY <1>1, <1>5 DEF SetValue, RollbackInv, UndoInv, PrepareInv, SwapInv,
         ResetInv, Recovered, OpensForNew, Opens
<1>3. PrepareInv' /\ SwapInv' /\ ResetInv'
  BY <1>1, <1>5 DEF SetValue, PrepareInv, SwapInv, ResetInv, Matches, ValsOf,
         Stored, SourceOf, OpensForNew, Opens
<1>4. CommitInv' /\ SecretInv'
  BY <1>1, <1>5 DEF SetValue, SwapInv, ResetInv, CommitInv, SecretInv, Clean,
         Stored, OpensForNew, Opens
<1> QED BY <1>1, <1>2, <1>3, <1>4

\* Delete removes the value of an entry.
LEMMA DeleteValueKeeps ==
  ASSUME NEW n \in Names, NEW k \in Keys, IndInv, DeleteValue(n, k)
  PROVE  IndInv'
<1> USE NoneAssumption DEF At, NoFault, ciphertexts, keyring
<1>1. PICK had \in BOOLEAN :
        op' = [op EXCEPT !.pc = "deleteEntry", !.name = n, !.had = had]
  BY DEF DeleteValue
<1>2. /\ op' \in Op
      /\ op'.pc = "deleteEntry" /\ op'.name = n
  BY <1>1 DEF IndInv, TypeOK, Op, PCs
<1>3. CASE n \in Stored
  <2>1. blob \in Blob /\ blob' = [blob EXCEPT !.vals = @ \ {n}]
    BY <1>3 DEF DeleteValue, Stored, IndInv, TypeOK
  <2>2. blob' \in Blob /\ blob'.vals = blob.vals \ {n}
    BY <2>1 DEF Blob
  <2>3. TypeOK'
    BY <1>2, <2>2 DEF DeleteValue, IndInv, TypeOK
  <2>4. JournalInv' /\ RollbackInv' /\ UndoInv'
    BY <1>2 DEF DeleteValue, IndInv, JournalInv, RollbackInv, UndoInv,
       RollsBack, Settled, Undoing, Rekeying, Resetting, Closing
  <2>5. PrepareInv' /\ SwapInv' /\ ResetInv' /\ CommitInv'
    BY <1>2 DEF PrepareInv, SwapInv, ResetInv, CommitInv, Undoing, Resetting,
       Closing
  <2>6. SecretInv'
    BY <1>2, <2>2 DEF SecretInv, Stored
  <2> QED BY <2>3, <2>4, <2>5, <2>6 DEF IndInv
<1>4. CASE n \notin Stored
  <2>1. /\ blob' = blob
        /\ op' = [op EXCEPT !.pc = "deleteEntry", !.name = n, !.had = FALSE]
    BY <1>4 DEF DeleteValue
  <2>2. ~op'.had
    BY <2>1 DEF IndInv, TypeOK, Op
  <2>3. TypeOK'
    BY <1>2, <2>1 DEF DeleteValue, IndInv, TypeOK
  <2>4. JournalInv' /\ RollbackInv' /\ UndoInv'
    BY <1>2 DEF DeleteValue, IndInv, JournalInv, RollbackInv, UndoInv,
       RollsBack, Settled, Undoing, Rekeying, Resetting, Closing
  <2>5. PrepareInv' /\ SwapInv' /\ ResetInv' /\ CommitInv'
    BY <1>2 DEF PrepareInv, SwapInv, ResetInv, CommitInv, Undoing, Resetting,
       Closing
  <2>6. SecretInv'
    BY <1>2, <1>4, <2>1, <2>2 DEF SecretInv, Stored
  <2> QED BY <2>3, <2>4, <2>5, <2>6 DEF IndInv
<1> QED BY <1>3, <1>4

\* A step that changes nothing keeps the invariant.
LEMMA StutterKeeps == IndInv /\ UNCHANGED vars => IndInv'
<1> SUFFICES ASSUME IndInv, UNCHANGED vars PROVE IndInv'
  OBVIOUS
<1> USE DEF vars, ciphertexts, keyring, IndInv
<1>1. TypeOK' /\ JournalInv' /\ RollbackInv' /\ UndoInv'
  BY DEF TypeOK, JournalInv, RollbackInv, UndoInv, RollsBack, Recovered
<1>2. PrepareInv' /\ SwapInv' /\ ResetInv'
  BY DEF PrepareInv, SwapInv, ResetInv, Matches, ValsOf
<1>3. CommitInv' /\ SecretInv'
  BY DEF CommitInv, SecretInv, Clean, Stored
<1> QED BY <1>1, <1>2, <1>3

\* The empty store satisfies the invariant.
LEMMA InitKeeps == Init => IndInv
<1> SUFFICES ASSUME Init PROVE IndInv
  OBVIOUS
<1>1. TypeOK
  <2>1. op \in Op
    BY DEF Init, Idle, Op, PCs
  <2>2. index \in Index
    <3>1. PICK old \in BOOLEAN :
            index = [source |-> "", entries |-> {}, legacy |-> old]
      BY DEF Init
    <3> QED BY <3>1 DEF Index, Sources
  <2>3. faults \in 0 .. MaxFaults
    <3>1. faults = 0
      BY DEF Init
    <3> QED BY <3>1, FaultsAssumption
  <2> QED BY <2>1, <2>2, <2>3 DEF Init, TypeOK
<1>2. op.pc = "idle" /\ ~op.own /\ journal = None
  BY DEF Init, Idle
<1> QED BY <1>1, <1>2
   DEF IndInv, JournalInv, RollbackInv, UndoInv, PrepareInv, SwapInv, ResetInv,
       CommitInv, SecretInv, RollsBack, Settled, Undoing, Rekeying, Resetting,
       Closing

\* Every step keeps the invariant.
LEMMA NextKeeps == IndInv /\ [Next]_vars => IndInv'
<1> SUFFICES ASSUME IndInv, [Next]_vars PROVE IndInv'
  OBVIOUS
<1>1. CASE Recoveries
  BY <1>1, RestoreBlobKeeps, RestoreResetBlobKeeps, RestoreIndexKeeps,
     MarkFinalizedKeeps, RemoveArtifactKeeps, OrphansRemovedKeeps,
     RemoveJournalKeeps DEF Recoveries
<1>2. CASE Rekeys
  BY <1>2, BackupBlobKeeps, BackupIndexKeeps, WriteJournalKeeps, SwapBlobKeeps,
     SaveProtectionMetadataKeeps, VerifyKeeps, ForgetExistingRememberedKeeps,
     CommitKeeps, QuarantineKeeps, SaveResetMetadataKeeps DEF Rekeys
<1>3. ASSUME NEW k \in Keys,
             Encrypt(k) \/ \E n \in Names : SetValue(n, k) \/ DeleteValue(n, k)
      PROVE  IndInv'
  BY <1>3, EncryptKeeps, SetValueKeeps, DeleteValueKeeps
<1> QED BY <1>1, <1>2, <1>3, LockKeeps, ReleaseKeeps, MigrateKeeps,
   RememberKeeps, ForgetKeeps, SetEntryKeeps, DeleteEntryKeeps,
   CompensateDeleteKeeps, WriteResetJournalKeeps, InterruptKeeps, StutterKeeps
   DEF Next

\* The journal, the backups and the files in place always agree.
THEOREM Invariance == Spec => []IndInv
BY InitKeeps, NextKeeps, PTL DEF Spec

\* The files, the journal and the command keep their types.
THEOREM TypeCorrect == Spec => []TypeOK
<1>1. IndInv => TypeOK
  BY DEF IndInv
<1> QED BY <1>1, Invariance, PTL

\* A change that reports success left nothing that opens the store with the key
\* from before it.
THEOREM NoOldKeyRemains == Spec => []OldKeyIsGone
<1>1. IndInv => OldKeyIsGone
  BY DEF IndInv, OldKeyIsGone, At, CommitInv, JournalInv, Settled
<1> QED BY <1>1, Invariance, PTL

-----------------------------------------------------------------------------
(* Refinement: what the next command finds changes at the commit only.     *)

Implements == [Store!Next]_(Store!svars)

\* A step that keeps what the next command will find.
LEMMA Hidden ==
  ASSUME UNCHANGED <<Key, Vals, Source, Entries>>, UNCHANGED index.legacy,
         UNCHANGED keyring
  PROVE  Implements
BY DEF Implements, Store!svars, keyring

\* If neither the file to be found nor the catalog changes, nothing is visible.
LEMMA SameFile ==
  ASSUME Recovered' = Recovered
  PROVE  Key' = Key /\ Vals' = Vals
BY DEF Key, Vals

\* Taking the lock is not seen.
LEMMA LockHidden ==
  ASSUME IndInv, Lock
  PROVE  Implements
<1> USE NoneAssumption DEF At, NoFault, ciphertexts, keyring
<1>1. Recovered' = Recovered
  BY DEF Lock, Recovered, RollsBack, IndInv, JournalInv, RollbackInv, UndoInv,
         PrepareInv, SwapInv, ResetInv, Settled, Undoing, Rekeying, Resetting,
         Closing, TypeOK, Journal
<1>2. Source' = Source /\ Entries' = Entries
  BY DEF Lock, Source, Entries, RollsBack, IndInv, JournalInv, RollbackInv,
         UndoInv, PrepareInv, SwapInv, ResetInv, Settled, Undoing, Rekeying,
         Resetting, Closing, TypeOK, Journal, Index
<1>3. index'.legacy = index.legacy /\ UNCHANGED keyring
  BY DEF Lock, IndInv, TypeOK, Index
<1> QED BY <1>1, <1>2, <1>3, SameFile, Hidden

\* A rollback puts in place what was to be found.
LEMMA RestoreBlobHidden ==
  ASSUME IndInv, RestoreBlob
  PROVE  Implements
<1> USE NoneAssumption DEF At, NoFault, ciphertexts, keyring
<1>1. Recovered' = Recovered
  BY DEF RestoreBlob, Recovered, RollsBack, IndInv, JournalInv, RollbackInv, UndoInv,
         PrepareInv, SwapInv, ResetInv, Settled, Undoing, Rekeying, Resetting,
         Closing, TypeOK, Journal
<1>2. Source' = Source /\ Entries' = Entries
  BY DEF RestoreBlob, Source, Entries, RollsBack, IndInv, JournalInv, RollbackInv,
         UndoInv, PrepareInv, SwapInv, ResetInv, Settled, Undoing, Rekeying,
         Resetting, Closing, TypeOK, Journal, Index
<1>3. index'.legacy = index.legacy /\ UNCHANGED keyring
  BY DEF RestoreBlob, IndInv, TypeOK, Index
<1> QED BY <1>1, <1>2, <1>3, SameFile, Hidden

\* So does the rollback of a reset.
LEMMA RestoreResetBlobHidden ==
  ASSUME IndInv, RestoreResetBlob
  PROVE  Implements
<1> USE NoneAssumption DEF At, NoFault, ciphertexts, keyring
<1>1. Recovered' = Recovered
  BY DEF RestoreResetBlob, Recovered, RollsBack, IndInv, JournalInv, RollbackInv, UndoInv,
         PrepareInv, SwapInv, ResetInv, Settled, Undoing, Rekeying, Resetting,
         Closing, TypeOK, Journal
<1>2. Source' = Source /\ Entries' = Entries
  BY DEF RestoreResetBlob, Source, Entries, RollsBack, IndInv, JournalInv, RollbackInv,
         UndoInv, PrepareInv, SwapInv, ResetInv, Settled, Undoing, Rekeying,
         Resetting, Closing, TypeOK, Journal, Index
<1>3. index'.legacy = index.legacy /\ UNCHANGED keyring
  BY DEF RestoreResetBlob, IndInv, TypeOK, Index
<1> QED BY <1>1, <1>2, <1>3, SameFile, Hidden

\* The catalog in place becomes the one to be found.
LEMMA RestoreIndexHidden ==
  ASSUME IndInv, RestoreIndex
  PROVE  Implements
<1> USE NoneAssumption DEF At, NoFault, ciphertexts, keyring
<1>1. Recovered' = Recovered
  BY DEF RestoreIndex, Recovered, RollsBack, IndInv, JournalInv, RollbackInv, UndoInv,
         PrepareInv, SwapInv, ResetInv, Settled, Undoing, Rekeying, Resetting,
         Closing, TypeOK, Journal
<1>2. Source' = Source /\ Entries' = Entries
  BY DEF RestoreIndex, Source, Entries, RollsBack, IndInv, JournalInv, RollbackInv,
         UndoInv, PrepareInv, SwapInv, ResetInv, Settled, Undoing, Rekeying,
         Resetting, Closing, TypeOK, Journal, Index
<1>3. index'.legacy = index.legacy /\ UNCHANGED keyring
  BY DEF RestoreIndex, IndInv, TypeOK, Index
<1> QED BY <1>1, <1>2, <1>3, SameFile, Hidden

\* Once all is restored the journal is not needed to find it.
LEMMA MarkFinalizedHidden ==
  ASSUME IndInv, MarkFinalized
  PROVE  Implements
<1> USE NoneAssumption DEF At, NoFault, ciphertexts, keyring
<1>1. Recovered' = Recovered
  BY DEF MarkFinalized, Recovered, RollsBack, IndInv, JournalInv, RollbackInv, UndoInv,
         PrepareInv, SwapInv, ResetInv, Settled, Undoing, Rekeying, Resetting,
         Closing, TypeOK, Journal
<1>2. Source' = Source /\ Entries' = Entries
  BY DEF MarkFinalized, Source, Entries, RollsBack, IndInv, JournalInv, RollbackInv,
         UndoInv, PrepareInv, SwapInv, ResetInv, Settled, Undoing, Rekeying,
         Resetting, Closing, TypeOK, Journal, Index
<1>3. index'.legacy = index.legacy /\ UNCHANGED keyring
  BY DEF MarkFinalized, IndInv, TypeOK, Index
<1> QED BY <1>1, <1>2, <1>3, SameFile, Hidden

\* No file to be found is among those that are removed.
LEMMA RemoveArtifactHidden ==
  ASSUME IndInv, RemoveArtifact
  PROVE  Implements
<1> USE NoneAssumption DEF At, NoFault, ciphertexts, keyring
<1>1. Recovered' = Recovered
  BY DEF RemoveArtifact, Recovered, RollsBack, IndInv, JournalInv, RollbackInv, UndoInv,
         PrepareInv, SwapInv, ResetInv, Settled, Undoing, Rekeying, Resetting,
         Closing, TypeOK, Journal
<1>2. Source' = Source /\ Entries' = Entries
  BY DEF RemoveArtifact, Source, Entries, RollsBack, IndInv, JournalInv, RollbackInv,
         UndoInv, PrepareInv, SwapInv, ResetInv, Settled, Undoing, Rekeying,
         Resetting, Closing, TypeOK, Journal, Index
<1>3. index'.legacy = index.legacy /\ UNCHANGED keyring
  BY DEF RemoveArtifact, IndInv, TypeOK, Index
<1> QED BY <1>1, <1>2, <1>3, SameFile, Hidden

\* The end of the cleanup is not seen.
LEMMA OrphansRemovedHidden ==
  ASSUME IndInv, OrphansRemoved
  PROVE  Implements
<1> USE NoneAssumption DEF At, NoFault, ciphertexts, keyring
<1>1. Recovered' = Recovered
  BY DEF OrphansRemoved, Recovered, RollsBack, IndInv, JournalInv, RollbackInv, UndoInv,
         PrepareInv, SwapInv, ResetInv, Settled, Undoing, Rekeying, Resetting,
         Closing, TypeOK, Journal
<1>2. Source' = Source /\ Entries' = Entries
  BY DEF OrphansRemoved, Source, Entries, RollsBack, IndInv, JournalInv, RollbackInv,
         UndoInv, PrepareInv, SwapInv, ResetInv, Settled, Undoing, Rekeying,
         Resetting, Closing, TypeOK, Journal, Index
<1>3. index'.legacy = index.legacy /\ UNCHANGED keyring
  BY DEF OrphansRemoved, IndInv, TypeOK, Index
<1> QED BY <1>1, <1>2, <1>3, SameFile, Hidden

\* Neither is the removal of a finished journal.
LEMMA RemoveJournalHidden ==
  ASSUME IndInv, RemoveJournal
  PROVE  Implements
<1> USE NoneAssumption DEF At, NoFault, ciphertexts, keyring
<1>1. Recovered' = Recovered
  BY DEF RemoveJournal, Recovered, RollsBack, IndInv, JournalInv, RollbackInv, UndoInv,
         PrepareInv, SwapInv, ResetInv, Settled, Undoing, Rekeying, Resetting,
         Closing, TypeOK, Journal
<1>2. Source' = Source /\ Entries' = Entries
  BY DEF RemoveJournal, Source, Entries, RollsBack, IndInv, JournalInv, RollbackInv,
         UndoInv, PrepareInv, SwapInv, ResetInv, Settled, Undoing, Rekeying,
         Resetting, Closing, TypeOK, Journal, Index
<1>3. index'.legacy = index.legacy /\ UNCHANGED keyring
  BY DEF RemoveJournal, IndInv, TypeOK, Index
<1> QED BY <1>1, <1>2, <1>3, SameFile, Hidden

\* Nor the end of a command.
LEMMA ReleaseHidden ==
  ASSUME IndInv, Release
  PROVE  Implements
<1> USE NoneAssumption DEF At, NoFault, ciphertexts, keyring
<1>1. Recovered' = Recovered
  BY DEF Release, Recovered, RollsBack, IndInv, JournalInv, RollbackInv, UndoInv,
         PrepareInv, SwapInv, ResetInv, Settled, Undoing, Rekeying, Resetting,
         Closing, TypeOK, Journal
<1>2. Source' = Source /\ Entries' = Entries
  BY DEF Release, Source, Entries, RollsBack, IndInv, JournalInv, RollbackInv,
         UndoInv, PrepareInv, SwapInv, ResetInv, Settled, Undoing, Rekeying,
         Resetting, Closing, TypeOK, Journal, Index
<1>3. index'.legacy = index.legacy /\ UNCHANGED keyring
  BY DEF Release, IndInv, TypeOK, Index
<1> QED BY <1>1, <1>2, <1>3, SameFile, Hidden

\* Nothing looks for the backup before there is a journal.
LEMMA BackupBlobHidden ==
  ASSUME IndInv, BackupBlob
  PROVE  Implements
<1> USE NoneAssumption DEF At, NoFault, ciphertexts, keyring
<1>1. Recovered' = Recovered
  BY DEF BackupBlob, Recovered, RollsBack, IndInv, JournalInv, RollbackInv, UndoInv,
         PrepareInv, SwapInv, ResetInv, Settled, Undoing, Rekeying, Resetting,
         Closing, TypeOK, Journal
<1>2. Source' = Source /\ Entries' = Entries
  BY DEF BackupBlob, Source, Entries, RollsBack, IndInv, JournalInv, RollbackInv,
         UndoInv, PrepareInv, SwapInv, ResetInv, Settled, Undoing, Rekeying,
         Resetting, Closing, TypeOK, Journal, Index
<1>3. index'.legacy = index.legacy /\ UNCHANGED keyring
  BY DEF BackupBlob, IndInv, TypeOK, Index
<1> QED BY <1>1, <1>2, <1>3, SameFile, Hidden

\* Nothing looks for the copy of the catalog.
LEMMA BackupIndexHidden ==
  ASSUME IndInv, BackupIndex
  PROVE  Implements
<1> USE NoneAssumption DEF At, NoFault, ciphertexts, keyring
<1>1. Recovered' = Recovered
  BY DEF BackupIndex, Recovered, RollsBack, IndInv, JournalInv, RollbackInv, UndoInv,
         PrepareInv, SwapInv, ResetInv, Settled, Undoing, Rekeying, Resetting,
         Closing, TypeOK, Journal
<1>2. Source' = Source /\ Entries' = Entries
  BY DEF BackupIndex, Source, Entries, RollsBack, IndInv, JournalInv, RollbackInv,
         UndoInv, PrepareInv, SwapInv, ResetInv, Settled, Undoing, Rekeying,
         Resetting, Closing, TypeOK, Journal, Index
<1>3. index'.legacy = index.legacy /\ UNCHANGED keyring
  BY DEF BackupIndex, IndInv, TypeOK, Index
<1> QED BY <1>1, <1>2, <1>3, SameFile, Hidden

\* The backup that is to be found now equals the file in place.
LEMMA WriteJournalHidden ==
  ASSUME IndInv, WriteJournal
  PROVE  Implements
<1> USE NoneAssumption DEF At, NoFault, ciphertexts, keyring
<1>1. Recovered' = Recovered
  BY DEF WriteJournal, Recovered, RollsBack, IndInv, JournalInv, RollbackInv, UndoInv,
         PrepareInv, SwapInv, ResetInv, Settled, Undoing, Rekeying, Resetting,
         Closing, TypeOK, Journal
<1>2. Source' = Source /\ Entries' = Entries
  BY DEF WriteJournal, Source, Entries, RollsBack, IndInv, JournalInv, RollbackInv,
         UndoInv, PrepareInv, SwapInv, ResetInv, Settled, Undoing, Rekeying,
         Resetting, Closing, TypeOK, Journal, Index
<1>3. index'.legacy = index.legacy /\ UNCHANGED keyring
  BY DEF WriteJournal, IndInv, TypeOK, Index
<1> QED BY <1>1, <1>2, <1>3, SameFile, Hidden

\* The new file is not found while the backup is.
LEMMA SwapBlobHidden ==
  ASSUME IndInv, SwapBlob
  PROVE  Implements
<1> USE NoneAssumption DEF At, NoFault, ciphertexts, keyring
<1>1. Recovered' = Recovered
  BY DEF SwapBlob, Recovered, RollsBack, IndInv, JournalInv, RollbackInv, UndoInv,
         PrepareInv, SwapInv, ResetInv, Settled, Undoing, Rekeying, Resetting,
         Closing, TypeOK, Journal
<1>2. Source' = Source /\ Entries' = Entries
  BY DEF SwapBlob, Source, Entries, RollsBack, IndInv, JournalInv, RollbackInv,
         UndoInv, PrepareInv, SwapInv, ResetInv, Settled, Undoing, Rekeying,
         Resetting, Closing, TypeOK, Journal, Index
<1>3. index'.legacy = index.legacy /\ UNCHANGED keyring
  BY DEF SwapBlob, IndInv, TypeOK, Index
<1> QED BY <1>1, <1>2, <1>3, SameFile, Hidden

\* The new source is not found while the journal has the old one.
LEMMA SaveProtectionMetadataHidden ==
  ASSUME IndInv, SaveProtectionMetadata
  PROVE  Implements
<1> USE NoneAssumption DEF At, NoFault, ciphertexts, keyring
<1>1. Recovered' = Recovered
  BY DEF SaveProtectionMetadata, Recovered, RollsBack, IndInv, JournalInv, RollbackInv, UndoInv,
         PrepareInv, SwapInv, ResetInv, Settled, Undoing, Rekeying, Resetting,
         Closing, TypeOK, Journal
<1>2. Source' = Source /\ Entries' = Entries
  BY DEF SaveProtectionMetadata, Source, Entries, RollsBack, IndInv, JournalInv, RollbackInv,
         UndoInv, PrepareInv, SwapInv, ResetInv, Settled, Undoing, Rekeying,
         Resetting, Closing, TypeOK, Journal, Index
<1>3. index'.legacy = index.legacy /\ UNCHANGED keyring
  BY DEF SaveProtectionMetadata, IndInv, TypeOK, Index
<1> QED BY <1>1, <1>2, <1>3, SameFile, Hidden

\* Reading the new file is not seen.
LEMMA VerifyHidden ==
  ASSUME IndInv, Verify
  PROVE  Implements
<1> USE NoneAssumption DEF At, NoFault, ciphertexts, keyring
<1>1. Recovered' = Recovered
  BY DEF Verify, Recovered, RollsBack, IndInv, JournalInv, RollbackInv, UndoInv,
         PrepareInv, SwapInv, ResetInv, Settled, Undoing, Rekeying, Resetting,
         Closing, TypeOK, Journal
<1>2. Source' = Source /\ Entries' = Entries
  BY DEF Verify, Source, Entries, RollsBack, IndInv, JournalInv, RollbackInv,
         UndoInv, PrepareInv, SwapInv, ResetInv, Settled, Undoing, Rekeying,
         Resetting, Closing, TypeOK, Journal, Index
<1>3. index'.legacy = index.legacy /\ UNCHANGED keyring
  BY DEF Verify, IndInv, TypeOK, Index
<1> QED BY <1>1, <1>2, <1>3, SameFile, Hidden

\* A reset that has only begun is not seen.
LEMMA WriteResetJournalHidden ==
  ASSUME IndInv, WriteResetJournal
  PROVE  Implements
<1> USE NoneAssumption DEF At, NoFault, ciphertexts, keyring
<1>1. Recovered' = Recovered
  BY DEF WriteResetJournal, Recovered, RollsBack, IndInv, JournalInv, RollbackInv, UndoInv,
         PrepareInv, SwapInv, ResetInv, Settled, Undoing, Rekeying, Resetting,
         Closing, TypeOK, Journal
<1>2. Source' = Source /\ Entries' = Entries
  BY DEF WriteResetJournal, Source, Entries, RollsBack, IndInv, JournalInv, RollbackInv,
         UndoInv, PrepareInv, SwapInv, ResetInv, Settled, Undoing, Rekeying,
         Resetting, Closing, TypeOK, Journal, Index
<1>3. index'.legacy = index.legacy /\ UNCHANGED keyring
  BY DEF WriteResetJournal, IndInv, TypeOK, Index
<1> QED BY <1>1, <1>2, <1>3, SameFile, Hidden

\* The file is found in the quarantine.
LEMMA QuarantineHidden ==
  ASSUME IndInv, Quarantine
  PROVE  Implements
<1> USE NoneAssumption DEF At, NoFault, ciphertexts, keyring
<1>1. Recovered' = Recovered
  BY DEF Quarantine, Recovered, RollsBack, IndInv, JournalInv, RollbackInv, UndoInv,
         PrepareInv, SwapInv, ResetInv, Settled, Undoing, Rekeying, Resetting,
         Closing, TypeOK, Journal
<1>2. Source' = Source /\ Entries' = Entries
  BY DEF Quarantine, Source, Entries, RollsBack, IndInv, JournalInv, RollbackInv,
         UndoInv, PrepareInv, SwapInv, ResetInv, Settled, Undoing, Rekeying,
         Resetting, Closing, TypeOK, Journal, Index
<1>3. index'.legacy = index.legacy /\ UNCHANGED keyring
  BY DEF Quarantine, IndInv, TypeOK, Index
<1> QED BY <1>1, <1>2, <1>3, SameFile, Hidden

\* The entries are found in the journal.
LEMMA SaveResetMetadataHidden ==
  ASSUME IndInv, SaveResetMetadata
  PROVE  Implements
<1> USE NoneAssumption DEF At, NoFault, ciphertexts, keyring
<1>1. Recovered' = Recovered
  BY DEF SaveResetMetadata, Recovered, RollsBack, IndInv, JournalInv, RollbackInv, UndoInv,
         PrepareInv, SwapInv, ResetInv, Settled, Undoing, Rekeying, Resetting,
         Closing, TypeOK, Journal
<1>2. Source' = Source /\ Entries' = Entries
  BY DEF SaveResetMetadata, Source, Entries, RollsBack, IndInv, JournalInv, RollbackInv,
         UndoInv, PrepareInv, SwapInv, ResetInv, Settled, Undoing, Rekeying,
         Resetting, Closing, TypeOK, Journal, Index
<1>3. index'.legacy = index.legacy /\ UNCHANGED keyring
  BY DEF SaveResetMetadata, IndInv, TypeOK, Index
<1> QED BY <1>1, <1>2, <1>3, SameFile, Hidden

\* An interruption is not seen.
LEMMA InterruptHidden ==
  ASSUME IndInv, Interrupt
  PROVE  Implements
<1> USE NoneAssumption DEF At, NoFault, ciphertexts, keyring
<1>1. Recovered' = Recovered
  BY DEF Interrupt, Recovered, RollsBack, IndInv, JournalInv, RollbackInv, UndoInv,
         PrepareInv, SwapInv, ResetInv, Settled, Undoing, Rekeying, Resetting,
         Closing, TypeOK, Journal
<1>2. Source' = Source /\ Entries' = Entries
  BY DEF Interrupt, Source, Entries, RollsBack, IndInv, JournalInv, RollbackInv,
         UndoInv, PrepareInv, SwapInv, ResetInv, Settled, Undoing, Rekeying,
         Resetting, Closing, TypeOK, Journal, Index
<1>3. index'.legacy = index.legacy /\ UNCHANGED keyring
  BY DEF Interrupt, IndInv, TypeOK, Index
<1> QED BY <1>1, <1>2, <1>3, SameFile, Hidden

\* The next file is not looked for.
LEMMA EncryptHidden ==
  ASSUME NEW k \in Keys, IndInv, Encrypt(k)
  PROVE  Implements
<1> USE NoneAssumption DEF At, NoFault, ciphertexts, keyring
<1>1. Recovered' = Recovered
  BY DEF Encrypt, Recovered, RollsBack, IndInv, JournalInv, RollbackInv, UndoInv,
         PrepareInv, SwapInv, ResetInv, Settled, Undoing, Rekeying, Resetting,
         Closing, TypeOK, Journal
<1>2. Source' = Source /\ Entries' = Entries
  BY DEF Encrypt, Source, Entries, RollsBack, IndInv, JournalInv, RollbackInv,
         UndoInv, PrepareInv, SwapInv, ResetInv, Settled, Undoing, Rekeying,
         Resetting, Closing, TypeOK, Journal, Index
<1>3. index'.legacy = index.legacy /\ UNCHANGED keyring
  BY DEF Encrypt, IndInv, TypeOK, Index
<1> QED BY <1>1, <1>2, <1>3, SameFile, Hidden

\* Without a journal the files in place are the ones to be found.
LEMMA Plain ==
  ASSUME journal = None
  PROVE  Recovered = blob /\ Source = index.source /\ Entries = index.entries
BY DEF RollsBack, Recovered, Source, Entries

\* The same after a step.
LEMMA PlainNext ==
  ASSUME journal' = None
  PROVE  /\ Recovered' = blob'
         /\ Source' = index'.source /\ Entries' = index'.entries
BY DEF RollsBack, Recovered, Source, Entries

\* Set stores a value under the key of the others, or under the first one.
LEMMA SetValueImplements ==
  ASSUME NEW n \in Names, NEW k \in Keys, IndInv, SetValue(n, k)
  PROVE  Implements
<1> USE NoneAssumption DEF At, NoFault, keyring
<1>1. journal = None /\ journal' = None
  BY DEF SetValue, IndInv, JournalInv, Settled
<1>2. blob' \in Blob /\ blob'.key = k /\ blob'.vals = Stored \cup {n}
  BY DEF SetValue, IndInv, TypeOK, Blob, Stored
<1>3. Key \in {None, k} /\ Vals = Stored
  BY <1>1, Plain DEF SetValue, OpensForNew, Opens, Key, Vals, Stored
<1>4. Key' = k /\ Vals' = Vals \cup {n}
  BY <1>1, <1>2, <1>3, PlainNext DEF Key, Vals
<1>5. UNCHANGED <<Source, Entries, index.legacy, remembered, unread>>
  BY <1>1, Plain, PlainNext DEF SetValue
<1>6. Store!SetValue(n, k)
  BY <1>3, <1>4, <1>5 DEF Store!SetValue
<1> QED BY <1>6 DEF Implements, Store!Next, Store!Keys, Keys

\* Set names a value that is stored, and the source of its key.
LEMMA SetEntryImplements ==
  ASSUME IndInv, SetEntry
  PROVE  Implements
<1> USE NoneAssumption DEF At, NoFault, ciphertexts, keyring
<1>1. journal = None /\ journal' = None /\ blob' = blob
  BY DEF SetEntry, IndInv, JournalInv, Settled
<1>2. /\ blob # None /\ blob.key = op.key
      /\ op.name \in Names /\ op.name \in blob.vals
  BY DEF SetEntry, IndInv, SecretInv
<1>3. Key = op.key /\ Vals = blob.vals /\ Key' = Key /\ Vals' = Vals
  BY <1>1, <1>2, Plain, PlainNext DEF Key, Vals
<1>4. /\ index'.source = SourceOf(op.key)
      /\ index'.entries = index.entries \cup {op.name}
      /\ index'.legacy = index.legacy
      /\ UNCHANGED <<remembered, unread>>
  BY DEF SetEntry, IndInv, TypeOK, Index
<1>5. Store!SetEntry(op.name)
  BY <1>1, <1>2, <1>3, <1>4, Plain, PlainNext
     DEF Store!SetEntry, Store!SourceOf, SourceOf
<1> QED BY <1>2, <1>5 DEF Implements, Store!Next

\* Delete removes the value of an entry.
LEMMA DeleteValueImplements ==
  ASSUME NEW n \in Names, NEW k \in Keys, IndInv, DeleteValue(n, k)
  PROVE  Implements
<1> USE NoneAssumption DEF At, NoFault, keyring
<1>1. journal = None /\ journal' = None
  BY DEF DeleteValue, IndInv, JournalInv, Settled
<1>2. CASE n \in Stored
  <2>1. blob \in Blob /\ blob' = [blob EXCEPT !.vals = @ \ {n}]
    BY <1>2 DEF DeleteValue, Stored, IndInv, TypeOK
  <2>2. /\ blob' \in Blob
        /\ blob'.key = blob.key /\ blob'.vals = blob.vals \ {n}
    BY <2>1 DEF Blob
  <2>3. Key' = Key /\ Vals' = Vals \ {n}
    BY <1>1, <2>1, <2>2, Plain, PlainNext DEF Key, Vals
  <2> QED BY <1>1, <2>3, Plain, PlainNext
     DEF DeleteValue, Implements, Store!Next, Store!DeleteValue
<1>3. CASE n \notin Stored
  <2>1. blob' = blob
    BY <1>3 DEF DeleteValue
  <2>2. Key' = Key /\ Vals' = Vals
    BY <1>1, <2>1, Plain, PlainNext, SameFile
  <2> QED BY <1>1, <2>2, Plain, PlainNext, Hidden DEF DeleteValue
<1> QED BY <1>2, <1>3

\* Delete removes the entry of a value that is gone.
LEMMA DeleteEntryImplements ==
  ASSUME IndInv, DeleteEntry
  PROVE  Implements
<1> USE NoneAssumption DEF At, NoFault, ciphertexts, keyring
<1>1. journal = None /\ journal' = None /\ blob' = blob
  BY DEF DeleteEntry, IndInv, JournalInv, Settled
<1>2. op.name \in Names /\ op.name \notin Stored
  BY DEF DeleteEntry, IndInv, SecretInv
<1>3. Vals = Stored /\ Key' = Key /\ Vals' = Vals
  BY <1>1, Plain, PlainNext DEF Key, Vals, Stored
<1>4. /\ index'.source = index.source
      /\ index'.entries = index.entries \ {op.name}
      /\ index'.legacy = index.legacy
      /\ UNCHANGED <<remembered, unread>>
  BY DEF DeleteEntry, IndInv, TypeOK, Index
<1>5. Store!DeleteEntry(op.name)
  BY <1>1, <1>2, <1>3, <1>4, Plain, PlainNext DEF Store!DeleteEntry
<1> QED BY <1>2, <1>5 DEF Implements, Store!Next

\* A Delete that failed stores the value again.
LEMMA CompensateDeleteImplements ==
  ASSUME IndInv, CompensateDelete
  PROVE  Implements
<1> USE NoneAssumption DEF At, keyring
<1>1. journal = None /\ journal' = None
  BY DEF CompensateDelete, IndInv, JournalInv, Settled
<1>2. op.name \in Names /\ blob \in Blob
  BY DEF CompensateDelete, IndInv, SecretInv, TypeOK
<1>3. /\ blob' \in Blob
      /\ blob'.key = blob.key /\ blob'.vals = blob.vals \cup {op.name}
  BY <1>2 DEF CompensateDelete, Blob
<1>4. Key = blob.key /\ Key' = Key /\ Vals' = Vals \cup {op.name}
  BY <1>1, <1>2, <1>3, Plain, PlainNext DEF Key, Vals
<1>5. Store!SetValue(op.name, blob.key)
  BY <1>1, <1>4, Plain, PlainNext DEF CompensateDelete, Store!SetValue
<1>6. blob.key \in Keys
  BY <1>2 DEF Blob
<1> QED BY <1>2, <1>5, <1>6 DEF Implements, Store!Next, Store!Keys, Keys

\* A migration keeps the source and the entries, those to be restored too.
LEMMA MigrateImplements ==
  ASSUME IndInv, Migrate
  PROVE  Implements
<1> USE DEF At, NoFault, ciphertexts, keyring
<1>1. /\ index'.source = index.source /\ index'.entries = index.entries
      /\ index.legacy /\ index'.legacy = FALSE
  BY DEF Migrate, IndInv, TypeOK, Index
<1>2. Recovered' = Recovered /\ Source' = Source /\ Entries' = Entries
  BY <1>1 DEF Migrate, Recovered, RollsBack, Source, Entries
<1>3. Store!Migrate
  BY <1>1, <1>2, SameFile DEF Migrate, Store!Migrate
<1> QED BY <1>3 DEF Implements, Store!Next

\* A remembered passphrase is the one that opens the store.
LEMMA RememberImplements ==
  ASSUME IndInv, Remember
  PROVE  Implements
<1> USE DEF At, NoFault, ciphertexts
<1>1. journal = None /\ journal' = None /\ blob' = blob /\ index' = index
  BY DEF Remember, IndInv, JournalInv, Settled
<1>2. Key = blob.key
  BY <1>1, Plain DEF Remember, Key
<1>3. UNCHANGED <<Key, Vals, Source, Entries>>
  BY <1>1, Plain, PlainNext, SameFile
<1>4. Store!Remember
  BY <1>1, <1>2, <1>3, Plain DEF Remember, Store!Remember
<1> QED BY <1>4 DEF Implements, Store!Next

\* Forget changes the keyring only.
LEMMA ForgetImplements ==
  ASSUME IndInv, Forget
  PROVE  Implements
<1> USE DEF At, NoFault, ciphertexts
<1>1. UNCHANGED <<Key, Vals, Source, Entries>> /\ index' = index
  BY DEF Forget, Key, Vals, Source, Entries, Recovered, RollsBack
<1>2. Store!Forget
  BY <1>1 DEF Forget, Store!Forget
<1> QED BY <1>2 DEF Implements, Store!Next

\* So does the step of a change that forgets the passphrase, or fails to.
LEMMA ForgetExistingRememberedImplements ==
  ASSUME IndInv, ForgetExistingRemembered
  PROVE  Implements
<1> USE DEF At, ciphertexts
<1>1. UNCHANGED <<Key, Vals, Source, Entries>> /\ index' = index
  BY DEF ForgetExistingRemembered, Key, Vals, Source, Entries, Recovered,
     RollsBack
<1>2. Store!Forget \/ Store!KeyringFails
  BY <1>1
     DEF ForgetExistingRemembered, Store!Forget, Store!KeyringFails
<1> QED BY <1>2 DEF Implements, Store!Next

\* The commit is a rekey or a reset of the store.
LEMMA CommitImplements ==
  ASSUME IndInv, Commit
  PROVE  Implements
<1> USE NoneAssumption DEF At, NoFault, ciphertexts, keyring
<1>1. /\ op.pc = "commit" /\ RollsBack /\ journal \in Journal
      /\ remembered = None \/ unread
  BY DEF Commit, IndInv, JournalInv, CommitInv, Closing, RollsBack, TypeOK
<1>2. journal'.committed
  BY <1>1 DEF Commit, Journal
<1>3. /\ Recovered' = blob /\ Source' = index.source /\ Entries' = index.entries
      /\ index'.legacy = index.legacy /\ UNCHANGED <<remembered, unread>>
  BY <1>2 DEF Commit, Recovered, RollsBack, Source, Entries
<1>4. CASE journal.reset
  <2>1. blob = None /\ index.source = "" /\ index.entries = {}
    BY <1>1, <1>4 DEF IndInv, ResetInv, Closing
  <2>2. Store!Reset
    BY <1>1, <1>3, <2>1 DEF Store!Reset, Key, Vals
  <2> QED BY <2>2 DEF Implements, Store!Next
<1>5. CASE ~journal.reset
  <2>1. /\ op.key \in Keys
        /\ blob = [key |-> op.key, vals |-> ValsOf(backup)]
        /\ journal.hadBlob = (backup # None)
        /\ Matches(backup, journal.old)
        /\ index.source = SourceOf(op.key)
        /\ journal.entries = {}
    BY <1>1, <1>5 DEF IndInv, SwapInv, RollbackInv, Closing
  <2>2. Recovered = backup
    BY <1>1, <1>5, <2>1 DEF Recovered
  <2>3. blob # None
    <3>1. blob \in Blob \cup {None} /\ backup \in Blob \cup {None}
      BY DEF IndInv, TypeOK
    <3>2. ValsOf(backup) \in SUBSET Names
      BY <3>1 DEF ValsOf, Blob
    <3>3. blob \in Blob
      BY <2>1, <3>2 DEF Blob
    <3> QED BY <3>3
  <2>4. Key' = op.key /\ Vals' = ValsOf(backup)
    BY <1>3, <2>1, <2>3 DEF Key, Vals
  <2>5. Vals = ValsOf(backup) /\ Source = journal.old /\ Entries = index.entries
    BY <1>1, <2>1, <2>2 DEF Vals, ValsOf, Source, Entries
  <2>6. IF Key = None THEN Source = "" ELSE Source = SourceOf(Key)
    <3>1. CASE backup = None
      BY <2>1, <2>2, <2>5, <3>1 DEF Key, Matches
    <3>2. CASE backup # None
      <4>1. backup \in Blob
        BY <3>2 DEF IndInv, TypeOK
      <4>2. backup.key # None
        BY <4>1 DEF Blob
      <4> QED BY <2>1, <2>2, <2>5, <3>2, <4>2 DEF Key, Matches
    <3> QED BY <3>1, <3>2
  <2>7. Store!Rekey(op.key)
    BY <1>1, <1>3, <2>1, <2>4, <2>5, <2>6
       DEF Store!Rekey, Store!SourceOf, SourceOf
  <2> QED BY <2>1, <2>7 DEF Implements, Store!Next, Store!Keys, Keys
<1> QED BY <1>4, <1>5

\* Whatever interrupts it, a change of the protection happens at once or not at
\* all: the encrypted file, its catalog and the keyring implement SecretStore.
THEOREM StoreChangesAtOnce == Spec => ChangesAtOnce
<1>1. Init => Store!Init
  <2> SUFFICES ASSUME Init PROVE Store!Init
    OBVIOUS
  <2>1. journal = None /\ blob = None
    BY DEF Init
  <2>2. PICK old \in BOOLEAN :
          index = [source |-> "", entries |-> {}, legacy |-> old]
    BY DEF Init
  <2>3. Key = None /\ Vals = {} /\ Source = "" /\ Entries = {}
    BY <2>1, <2>2, Plain DEF Key, Vals
  <2> QED BY <2>2, <2>3 DEF Init, Store!Init
<1>2. ASSUME IndInv, [Next]_vars
      PROVE  Implements
  <2>1. CASE Recoveries
    BY <1>2, <2>1, RestoreBlobHidden, RestoreResetBlobHidden,
       RestoreIndexHidden, MarkFinalizedHidden, RemoveArtifactHidden,
       OrphansRemovedHidden, RemoveJournalHidden DEF Recoveries
  <2>2. CASE Rekeys
    BY <1>2, <2>2, BackupBlobHidden, BackupIndexHidden, WriteJournalHidden,
       SwapBlobHidden, SaveProtectionMetadataHidden, VerifyHidden,
       ForgetExistingRememberedImplements, CommitImplements, QuarantineHidden,
       SaveResetMetadataHidden DEF Rekeys
  <2>3. ASSUME NEW k \in Keys,
               \/ Encrypt(k)
               \/ \E n \in Names : SetValue(n, k) \/ DeleteValue(n, k)
        PROVE  Implements
    BY <1>2, <2>3, EncryptHidden, SetValueImplements, DeleteValueImplements
  <2>4. CASE UNCHANGED vars
    BY <2>4, Hidden
       DEF vars, ciphertexts, keyring, Key, Vals, Source, Entries, Recovered,
           RollsBack
  <2> QED BY <1>2, <2>1, <2>2, <2>3, <2>4, LockHidden, ReleaseHidden,
     MigrateImplements, RememberImplements, ForgetImplements,
     SetEntryImplements, DeleteEntryImplements, CompensateDeleteImplements,
     WriteResetJournalHidden, InterruptHidden DEF Next
<1>3. IndInv /\ [Next]_vars => [Store!Next]_(Store!svars)
  BY <1>2 DEF Implements
<1> QED BY <1>1, <1>3, Invariance, PTL DEF Spec, ChangesAtOnce, Store!Spec

=============================================================================
