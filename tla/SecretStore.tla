----------------------------- MODULE SecretStore -----------------------------
(***************************************************************************)
(* What the commands on the encrypted secret file promise: a change of the *)
(* protection happens at once or not at all, whatever interrupts it.       *)
(* SecretRekey says how pkg/secrets achieves it with several files.        *)
(***************************************************************************)
EXTENDS Integers

CONSTANTS
  Names,        \* names of secrets
  Passphrases,  \* passphrases the user may choose
  AutoSources,  \* key sources without one: "keyring", "file"
  None          \* no file, no key

\* A passphrase, or the key that an automatic source keeps.
Keys == Passphrases \cup AutoSources

Sources == {"", "passphrase"} \cup AutoSources

SourceOf(k) == IF k \in Passphrases THEN "passphrase" ELSE k

VARIABLES
  key,         \* what the values are encrypted with
  source,      \* the key source the catalog names
  vals,        \* names whose value is stored
  entries,     \* names in the catalog
  legacy,      \* the catalog holds an environment value of the old format
  remembered,  \* passphrase in the OS keyring
  unread       \* the keyring did not answer when it was to forget it

svars == <<key, source, vals, entries, legacy, remembered, unread>>

\* A value is stored with the key that opens the others, or with the first one.
SetValue(n, k) ==
  /\ key \in {None, k}
  /\ key' = k
  /\ vals' = vals \cup {n}
  /\ UNCHANGED <<source, entries, legacy, remembered, unread>>

SetEntry(n) ==
  /\ n \in vals
  /\ source' = SourceOf(key)
  /\ entries' = entries \cup {n}
  /\ UNCHANGED <<key, vals, legacy, remembered, unread>>

DeleteValue(n) ==
  /\ vals' = vals \ {n}
  /\ UNCHANGED <<key, source, entries, legacy, remembered, unread>>

DeleteEntry(n) ==
  /\ n \notin vals
  /\ entries' = entries \ {n}
  /\ UNCHANGED <<key, source, vals, legacy, remembered, unread>>

\* The key and its source change together, and no value or entry does.  The
\* keyring must not go on to offer a passphrase that opens nothing.
Rekey(k) ==
  /\ IF key = None THEN source = "" ELSE source = SourceOf(key)
  /\ remembered = None \/ unread
  /\ key' = k
  /\ source' = SourceOf(k)
  /\ UNCHANGED <<vals, entries, legacy, remembered, unread>>

Reset ==
  /\ remembered = None \/ unread
  /\ key' = None
  /\ source' = ""
  /\ vals' = {}
  /\ entries' = {}
  /\ UNCHANGED <<legacy, remembered, unread>>

Remember ==
  /\ key \in Passphrases /\ source = "passphrase"
  /\ remembered' = key
  /\ unread' = FALSE
  /\ UNCHANGED <<key, source, vals, entries, legacy>>

Forget ==
  /\ remembered' = None
  /\ unread' = FALSE
  /\ UNCHANGED <<key, source, vals, entries, legacy>>

KeyringFails ==
  /\ unread' = TRUE
  /\ UNCHANGED <<key, source, vals, entries, legacy, remembered>>

Migrate ==
  /\ legacy /\ legacy' = FALSE
  /\ UNCHANGED <<key, source, vals, entries, remembered, unread>>

Init ==
  /\ key = None /\ source = "" /\ vals = {} /\ entries = {}
  /\ legacy \in BOOLEAN
  /\ remembered = None /\ unread = FALSE

Next ==
  \/ \E n \in Names : SetEntry(n) \/ DeleteValue(n) \/ DeleteEntry(n)
  \/ \E k \in Keys : Rekey(k) \/ \E n \in Names : SetValue(n, k)
  \/ Reset \/ Remember \/ Forget \/ KeyringFails \/ Migrate

Spec == Init /\ [][Next]_svars
=============================================================================
