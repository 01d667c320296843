------------------------- MODULE ContextDeletionProof -------------------------
(***************************************************************************)
(* Safety of the deletion of contexts, for any processes, contexts, names  *)
(* and number of faults.                                                   *)
(***************************************************************************)
EXTENDS ContextDeletion, TLAPS

\* What an intent i says of the values v of its context, of which the user left
\* k.  As long as the context is registered, values of the intent may be missing
\* and nothing else is; once it is not, they are gone.
PendingOf(known, bound, v, k, i) ==
  /\ i.secrets \subseteq i.fingerprint
  /\ known =>
       /\ bound = i.fingerprint
       /\ i.envs = k.env /\ v.env \subseteq k.env
       /\ i.secrets = i.fingerprint \cap k.index /\ i.secrets \subseteq k.blob
       /\ v.index \subseteq k.index /\ k.index \ v.index \subseteq i.secrets
       /\ \A s \in Secrets \ i.secrets :
            s \in v.blob \cap v.index <=> s \in k.blob \cap k.index
  /\ ~known =>
       /\ v.env = {} /\ v.index \cap i.fingerprint = {}
       /\ Visible(v) = Visible(k)

Pending(f, i) ==
  PendingOf(f.known[i.context], f.bound[i.context], f.vals[i.context],
            f.kept[i.context], i)

\* The files, in a state that is or was or may come back.
FileInv(f) ==
  /\ \A c \in Contexts :
       Whole(f, c) \/ Names(f, c)
  /\ f.intent # None => Pending(f, f.intent)

\* The deletion is under way: `gone` are the secrets whose entries are removed.
Deleting(r, known, v, gone) ==
  /\ r.result = "ok"
  /\ r.tried \cup r.todo = r.intent.secrets
  /\ gone \cap v.index = {}
  /\ ~r.resuming => /\ known /\ v.env = r.intent.envs
                    /\ r.intent.secrets \ r.tried \subseteq v.blob \cap v.index

\* The rollback is under way: `owed` are the secrets still to restore.
Restoring(r, known, v, owed) ==
  /\ r.result = "preserved" /\ known
  /\ r.todo \subseteq r.intent.secrets
  /\ ~r.failed => /\ v.env = r.intent.envs
                  /\ r.intent.secrets \ owed \subseteq v.blob \cap v.index

\* The intent may go: the context is deleted, or whole.
Settled(f, r) ==
  /\ r.result \in {"ok", "preserved"}
  /\ r.result = "ok" => ~f.known[r.context]
  /\ r.result = "preserved" => f.known[r.context] /\ Whole(f, r.context)

Named(r) ==
  /\ r.context \in Contexts
  /\ r.intent \in Intent /\ r.intent.context = r.context

Owned(f, r) == Named(r) /\ f.intent = r.intent

\* What a process that holds the lock knows of the files.
Active(f, r) ==
  LET c == r.context
      v == f.vals[c]
      known == f.known[c]
  IN
  /\ c \in Contexts
  /\ r.pc = "mutate" => f.intent = None
  /\ r.pc = "snapshot" => f.intent = None /\ known /\ ~r.resuming /\ r.tried = {}
  /\ r.pc = "install" =>
       /\ Named(r) /\ f.intent = None /\ known /\ Pending(f, r.intent)
       /\ ~r.resuming /\ r.tried = {} /\ r.todo = r.intent.secrets
  /\ r.pc = "installed" =>
       /\ Owned(f, r) /\ known /\ Whole(f, c)
       /\ ~r.resuming /\ r.tried = {} /\ r.todo = r.intent.secrets
  /\ r.pc = "secret" => Owned(f, r) /\ Deleting(r, known, v, r.tried)
  /\ r.pc = "index" => /\ Owned(f, r) /\ r.cur \in r.tried
                       /\ Deleting(r, known, v, r.tried \ {r.cur})
  /\ r.pc = "config" =>
       /\ Owned(f, r) /\ r.tried = r.intent.secrets /\ r.result = "ok"
       /\ v.env = {} /\ r.intent.secrets \cap v.index = {}
       /\ ~r.resuming => known
  /\ r.pc = "restoreEnv" =>
       /\ Owned(f, r) /\ known /\ r.tried = r.intent.secrets
       /\ r.result = "preserved"
  /\ r.pc = "restore" => Owned(f, r) /\ Restoring(r, known, v, r.todo)
  /\ r.pc = "restoreIndex" =>
       /\ Owned(f, r) /\ r.cur \in r.intent.secrets /\ r.cur \in v.blob
       /\ Restoring(r, known, v, r.todo \cup {r.cur})
  /\ r.pc = "dir" => Owned(f, r) /\ ~known /\ r.result = "ok"
  /\ r.pc = "remove" => Owned(f, r) /\ Settled(f, r)
  /\ r.pc \in {"removed", "rewrite"} =>
       Named(r) /\ f.intent = None /\ Pending(f, r.intent) /\ Settled(f, r)
  /\ r.pc = "report" /\ r.result \in {"ok", "preserved"} =>
       /\ f.intent = None /\ Settled(f, r)
       /\ r.result = "ok" => Named(r) /\ Pending(f, r.intent)

\* Only the holder of the lock is past the startup check, and a success it
\* reports is durable.
LockInv ==
  \A p \in Procs :
    \/ proc[p].pc \in {"idle", "checked"}
    \/ /\ lock = p /\ Active(Disk, proc[p])
       /\ proc[p].pc = "report" /\ proc[p].result = "ok" => journal = <<Disk>>

CheckedInv ==
  \A p \in Procs : proc[p].pc = "checked" => proc[p].context \in Contexts

Types ==
  /\ journal \in Seq(Files) /\ journal # << >>
  /\ lock \in Procs \cup {None}
  /\ proc \in [Procs -> Proc]
  /\ faults \in 0 .. MaxFaults

\* All but the directories.
CoreInv ==
  /\ Types
  /\ \A i \in DOMAIN journal : FileInv(journal[i])
  /\ LockInv
  /\ CheckedInv

\* The process may clear the intent without removing the directory, or after it.
Clears(r) ==
  \/ r.pc \in {"snapshot", "install", "installed", "restoreEnv", "restore",
               "restoreIndex", "remove", "removed", "rewrite"}
  \/ r.pc \in {"secret", "index", "config"} /\ ~r.resuming

\* Only the directory of a context whose deletion is pending is owed, and none
\* where the intent may be cleared.
DirInv ==
  /\ dir \in [Contexts -> Dirs]
  /\ \A c \in Contexts : dir[c] = "owed" => Names(Disk, c)
  /\ \A p \in Procs : Clears(proc[p]) => \A c \in Contexts : dir[c] # "owed"

IndInv == CoreInv /\ DirInv

-----------------------------------------------------------------------------
(* The files and the processes                                             *)

LEMMA FileTypes ==
  ASSUME NEW f \in Files, NEW c \in Contexts
  PROVE  /\ f.vals[c] \in Values /\ f.kept[c] \in Values
         /\ f.known[c] \in BOOLEAN
         /\ f.bound[c] \in SUBSET Secrets
         /\ f.intent \in Intent \cup {None}
  BY DEF Files

LEMMA ValueTypes ==
  ASSUME NEW v \in Values
  PROVE  v.env \subseteq Envs /\ v.index \subseteq Secrets /\ v.blob \subseteq Secrets
  BY DEF Values

LEMMA DiskType ==
  ASSUME Types
  PROVE  /\ Len(journal) \in Nat /\ Len(journal) \in DOMAIN journal
         /\ DOMAIN journal = 1 .. Len(journal)
         /\ Disk \in Files
  <1>1. journal \in Seq(Files) /\ journal # << >>
    BY DEF Types
  <1>2. Len(journal) \in Nat /\ Len(journal) # 0 /\ DOMAIN journal = 1 .. Len(journal)
    BY <1>1
  <1>3. Len(journal) \in 1 .. Len(journal)
    BY <1>2
  <1>4. journal[Len(journal)] \in Files
    BY <1>1, <1>2, <1>3
  <1> QED
    BY <1>2, <1>3, <1>4 DEF Disk

\* A write leaves the last state of the files on disk.
LEMMA WriteJournal ==
  ASSUME Types, \A i \in DOMAIN journal : FileInv(journal[i]),
         NEW f \in Files, FileInv(f),
         \/ journal' = <<f>>
         \/ journal' = Append(journal, f)
         \/ journal' = journal /\ f = Disk
  PROVE  /\ journal' \in Seq(Files) /\ journal' # << >>
         /\ Disk' = f
         /\ \A i \in DOMAIN journal' : FileInv(journal'[i])
  <1>1. journal \in Seq(Files) /\ journal # << >>
    BY DEF Types
  <1>2. CASE journal' = <<f>>
    <2>1. Len(journal') = 1 /\ DOMAIN journal' = 1 .. 1 /\ journal'[1] = f
      BY <1>2
    <2>2. journal' \in Seq(Files) /\ journal' # << >>
      BY <1>2
    <2> QED
      BY <2>1, <2>2 DEF Disk
  <1>3. CASE journal' = Append(journal, f)
    <2>1. /\ journal' \in Seq(Files)
          /\ Len(journal') = Len(journal) + 1
          /\ DOMAIN journal' = 1 .. Len(journal) + 1
          /\ journal'[Len(journal) + 1] = f
          /\ \A i \in 1 .. Len(journal) : journal'[i] = journal[i]
      BY <1>1, <1>3
    <2>2. Len(journal) \in Nat /\ DOMAIN journal = 1 .. Len(journal)
      BY <1>1
    <2>3. Disk' = f
      BY <2>1 DEF Disk
    <2>4. ASSUME NEW i \in DOMAIN journal' PROVE FileInv(journal'[i])
      <3>1. CASE i = Len(journal) + 1
        BY <3>1, <2>1
      <3>2. CASE i # Len(journal) + 1
        <4>1. i \in 1 .. Len(journal)
          BY <3>2, <2>1, <2>2
        <4> QED
          BY <4>1, <2>1, <2>2
      <3> QED
        BY <3>1, <3>2
    <2>5. journal' # << >>
      BY <2>1, <2>2
    <2> QED
      BY <2>1, <2>3, <2>4, <2>5
  <1>4. CASE journal' = journal /\ f = Disk
    BY <1>1, <1>4 DEF Disk
  <1> QED
    BY <1>2, <1>3, <1>4

LEMMA FaultType ==
  ASSUME Types, Fault \/ NoFault
  PROVE  faults' \in 0 .. MaxFaults
  BY FaultsAssumption DEF Types, Fault, NoFault

\* A step of the process that holds the lock or takes it.
LEMMA LockedStep ==
  ASSUME CoreInv, NEW p \in Procs, lock \in {p, None},
         NEW f \in Files, FileInv(f),
         \/ journal' = <<f>>
         \/ journal' = Append(journal, f)
         \/ journal' = journal /\ f = Disk,
         NEW r \in Proc, Becomes(p, r),
         Fault \/ NoFault,
         \/ lock' = None /\ r.pc = "idle"
         \/ /\ lock' = p /\ Active(f, r)
            /\ r.pc = "report" /\ r.result = "ok" => journal' = <<f>>
  PROVE  CoreInv'
  <1>1. Types /\ LockInv /\ \A i \in DOMAIN journal : FileInv(journal[i])
    BY DEF CoreInv
  <1>2. /\ journal' \in Seq(Files) /\ journal' # << >>
        /\ Disk' = f
        /\ \A i \in DOMAIN journal' : FileInv(journal'[i])
    BY <1>1, WriteJournal
  <1>3. /\ proc' \in [Procs -> Proc] /\ proc'[p] = r
        /\ \A q \in Procs \ {p} : proc'[q] = proc[q]
    BY <1>1 DEF Becomes, Types
  <1>4. faults' \in 0 .. MaxFaults
    BY <1>1, FaultType
  <1>5. lock' \in Procs \cup {None}
    OBVIOUS
  <1>6. Types'
    BY <1>2, <1>3, <1>4, <1>5 DEF Types
  <1>7. LockInv'
    <2> SUFFICES ASSUME NEW q \in Procs,
                        proc'[q].pc \notin {"idle", "checked"}
                 PROVE  /\ lock' = q /\ Active(Disk', proc'[q])
                        /\ proc'[q].pc = "report" /\ proc'[q].result = "ok"
                             => journal' = <<Disk'>>
      BY DEF LockInv
    <2>1. q = p
      <3> SUFFICES ASSUME q # p PROVE FALSE
        OBVIOUS
      <3>1. proc[q].pc \notin {"idle", "checked"}
        BY <1>3
      <3>2. lock = q
        BY <1>1, <3>1 DEF LockInv
      <3>3. None \notin Procs
        BY NoneAssumption
      <3> QED
        BY <3>2, <3>3
    <2> QED
      BY <2>1, <1>2, <1>3
  <1>8. CheckedInv'
    <2> SUFFICES ASSUME NEW q \in Procs, proc'[q].pc = "checked"
                 PROVE  proc'[q].context \in Contexts
      BY DEF CheckedInv
    <2>1. CASE q = p
      BY <2>1, <1>3 DEF Active
    <2>2. CASE q # p
      BY <2>2, <1>3 DEF CoreInv, CheckedInv
    <2> QED
      BY <2>1, <2>2
  <1> QED
    BY <1>2, <1>6, <1>7, <1>8 DEF CoreInv

\* What the holder of the lock starts from.
LEMMA Holder ==
  ASSUME CoreInv, NEW p \in Procs, proc[p].pc \notin {"idle", "checked"}
  PROVE  /\ lock = p /\ proc[p] \in Proc /\ proc[p].context \in Contexts
         /\ Active(Disk, proc[p])
         /\ Disk \in Files /\ FileInv(Disk)
  <1>1. Types /\ LockInv /\ \A i \in DOMAIN journal : FileInv(journal[i])
    BY DEF CoreInv
  <1>2. lock = p /\ Active(Disk, proc[p])
    BY <1>1 DEF LockInv
  <1>3. proc[p] \in Proc
    BY <1>1 DEF Types
  <1>4. Disk \in Files /\ FileInv(Disk)
    BY <1>1, DiskType DEF Disk
  <1>5. proc[p].context \in Contexts
    BY <1>2 DEF Active
  <1> QED
    BY <1>2, <1>3, <1>4, <1>5

LEMMA HoldIs ==
  ASSUME NEW f \in Files, NEW c \in Contexts, NEW v \in Values
  PROVE  LET g == Hold(f, c, v) IN
         /\ g \in Files /\ g.vals[c] = v
         /\ \A d \in Contexts \ {c} : g.vals[d] = f.vals[d]
         /\ g.intent = f.intent /\ g.known = f.known /\ g.bound = f.bound
         /\ g.kept = f.kept
  BY DEF Hold, Files

\* The values of the context that an intent names change as it allows.
LEMMA HoldInv ==
  ASSUME NEW f \in Files, FileInv(f), NEW i \in Intent, f.intent = i,
         NEW v \in Values,
         PendingOf(f.known[i.context], f.bound[i.context], v,
                   f.kept[i.context], i)
  PROVE  Hold(f, i.context, v) \in Files /\ FileInv(Hold(f, i.context, v))
  <1> DEFINE c == i.context
             g == Hold(f, c, v)
  <1>1. c \in Contexts /\ i # None
    BY NoneAssumption DEF Intent
  <1>2. /\ g \in Files /\ g.vals[c] = v
        /\ \A d \in Contexts \ {c} : g.vals[d] = f.vals[d]
        /\ g.intent = f.intent /\ g.known = f.known /\ g.bound = f.bound
        /\ g.kept = f.kept
    BY <1>1, HoldIs
  <1> HIDE DEF g
  <1>3. Pending(g, g.intent)
    BY <1>2 DEF Pending
  <1>4. ASSUME NEW d \in Contexts, d # c PROVE Whole(g, d)
    <2>1. Whole(f, d)
      BY <1>4, <1>1 DEF FileInv, Names
    <2> QED
      BY <2>1, <1>2, <1>4 DEF Whole
  <1>5. FileInv(g)
    BY <1>1, <1>2, <1>3, <1>4 DEF FileInv, Names
  <1> QED
    BY <1>2, <1>5 DEF g

LEMMA IntentFields ==
  ASSUME NEW i \in Intent
  PROVE  /\ i.context \in Contexts /\ i.envs \subseteq Envs
         /\ i.secrets \subseteq Secrets /\ i.fingerprint \subseteq Secrets
         /\ i # None
  BY NoneAssumption DEF Intent

\* The value of a secret of the intent comes or goes.
LEMMA PendingBlob ==
  ASSUME NEW i \in Intent, NEW known \in BOOLEAN, NEW bound,
         NEW v \in Values, NEW k \in Values, PendingOf(known, bound, v, k, i),
         NEW s \in i.secrets
  PROVE  /\ [v EXCEPT !.blob = @ \ {s}] \in Values
         /\ [v EXCEPT !.blob = @ \cup {s}] \in Values
         /\ PendingOf(known, bound, [v EXCEPT !.blob = @ \ {s}], k, i)
         /\ PendingOf(known, bound, [v EXCEPT !.blob = @ \cup {s}], k, i)
  <1> DEFINE a == [v EXCEPT !.blob = @ \ {s}]
             b == [v EXCEPT !.blob = @ \cup {s}]
  <1>1. s \in Secrets /\ s \in i.fingerprint
    BY IntentFields DEF PendingOf
  <1>2. /\ a \in Values /\ a.env = v.env /\ a.index = v.index
        /\ a.blob = v.blob \ {s}
    BY DEF Values
  <1>3. /\ b \in Values /\ b.env = v.env /\ b.index = v.index
        /\ b.blob = v.blob \cup {s}
    BY <1>1 DEF Values
  <1> HIDE DEF a, b
  <1>4. ~known => s \notin v.index
    BY <1>1 DEF PendingOf
  <1>5. ~known => Visible(a) = Visible(k) /\ Visible(b) = Visible(k)
    <2>1. a.index \cap a.blob = v.index \cap v.blob \/ known
      BY <1>4, <1>2
    <2>2. b.index \cap b.blob = v.index \cap v.blob \/ known
      BY <1>4, <1>3
    <2>3. ~known => a.blob \cap a.index = v.blob \cap v.index
      BY <2>1
    <2>4. ~known => b.blob \cap b.index = v.blob \cap v.index
      BY <2>2
    <2>5. ~known => Visible(v) = Visible(k)
      BY DEF PendingOf
    <2> QED
      BY <1>2, <1>3, <2>3, <2>4, <2>5 DEF Visible
  <1>6. PendingOf(known, bound, a, k, i)
    BY <1>2, <1>5 DEF PendingOf
  <1>7. PendingOf(known, bound, b, k, i)
    BY <1>3, <1>5 DEF PendingOf
  <1> QED
    BY <1>2, <1>3, <1>6, <1>7 DEF a, b

\* Its entry goes, or comes back to a context that is registered.
LEMMA PendingEntry ==
  ASSUME NEW i \in Intent, NEW known \in BOOLEAN, NEW bound,
         NEW v \in Values, NEW k \in Values, PendingOf(known, bound, v, k, i),
         NEW s \in i.secrets
  PROVE  /\ [v EXCEPT !.index = @ \ {s}] \in Values
         /\ [v EXCEPT !.index = @ \cup {s}] \in Values
         /\ PendingOf(known, bound, [v EXCEPT !.index = @ \ {s}], k, i)
         /\ known => PendingOf(known, bound, [v EXCEPT !.index = @ \cup {s}], k, i)
  <1> DEFINE a == [v EXCEPT !.index = @ \ {s}]
             b == [v EXCEPT !.index = @ \cup {s}]
  <1>1. s \in Secrets /\ s \in i.fingerprint
    BY IntentFields DEF PendingOf
  <1>2. /\ a \in Values /\ a.env = v.env /\ a.blob = v.blob
        /\ a.index = v.index \ {s}
    BY DEF Values
  <1>3. /\ b \in Values /\ b.env = v.env /\ b.blob = v.blob
        /\ b.index = v.index \cup {s}
    BY <1>1 DEF Values
  <1> HIDE DEF a, b
  <1>4. CASE known
    <2>1. PendingOf(known, bound, a, k, i)
      BY <1>2, <1>4 DEF PendingOf
    <2>2. PendingOf(known, bound, b, k, i)
      BY <1>3, <1>4 DEF PendingOf
    <2> QED
      BY <1>2, <1>3, <2>1, <2>2 DEF a, b
  <1>5. CASE ~known
    <2>1. s \notin v.index /\ Visible(v) = Visible(k)
      BY <1>1, <1>5 DEF PendingOf
    <2>2. a.index = v.index
      BY <2>1, <1>2
    <2>3. Visible(a) = Visible(k)
      BY <2>1, <2>2, <1>2 DEF Visible
    <2>4. PendingOf(known, bound, a, k, i)
      BY <1>2, <2>2, <2>3, <1>5 DEF PendingOf
    <2> QED
      BY <1>2, <1>3, <1>5, <2>4 DEF a, b
  <1> QED
    BY <1>4, <1>5

\* So do the environment values.
LEMMA PendingEnv ==
  ASSUME NEW i \in Intent, NEW known \in BOOLEAN, NEW bound,
         NEW v \in Values, NEW k \in Values, PendingOf(known, bound, v, k, i)
  PROVE  /\ [v EXCEPT !.env = @ \ i.envs] \in Values
         /\ [v EXCEPT !.env = @ \cup i.envs] \in Values
         /\ PendingOf(known, bound, [v EXCEPT !.env = @ \ i.envs], k, i)
         /\ known =>
              PendingOf(known, bound, [v EXCEPT !.env = @ \cup i.envs], k, i)
  <1> DEFINE a == [v EXCEPT !.env = @ \ i.envs]
             b == [v EXCEPT !.env = @ \cup i.envs]
  <1>1. i.envs \subseteq Envs
    BY IntentFields
  <1>2. /\ a \in Values /\ a.index = v.index /\ a.blob = v.blob
        /\ a.env = v.env \ i.envs
    BY DEF Values
  <1>3. /\ b \in Values /\ b.index = v.index /\ b.blob = v.blob
        /\ b.env = v.env \cup i.envs
    BY <1>1 DEF Values
  <1> HIDE DEF a, b
  <1>4. CASE known
    <2>1. PendingOf(known, bound, a, k, i)
      BY <1>2, <1>4 DEF PendingOf
    <2>2. PendingOf(known, bound, b, k, i)
      BY <1>3, <1>4 DEF PendingOf
    <2> QED
      BY <1>2, <1>3, <2>1, <2>2 DEF a, b
  <1>5. CASE ~known
    <2>1. v.env = {} /\ Visible(v) = Visible(k)
      BY <1>5 DEF PendingOf
    <2>2. a.env = v.env
      BY <2>1, <1>2
    <2>3. Visible(a) = Visible(k)
      BY <2>1, <2>2, <1>2 DEF Visible
    <2>4. PendingOf(known, bound, a, k, i)
      BY <1>2, <2>2, <2>3, <1>5 DEF PendingOf
    <2> QED
      BY <1>2, <1>3, <1>5, <2>4 DEF a, b
  <1> QED
    BY <1>4, <1>5

-----------------------------------------------------------------------------
(* Before the deletion                                                     *)

LEMMA NoIntentWhole ==
  ASSUME NEW f \in Files, FileInv(f), f.intent = None
  PROVE  \A c \in Contexts : Whole(f, c)
  BY DEF FileInv, Names

\* An intent is put in place or removed.
LEMMA IntentIs ==
  ASSUME NEW f \in Files, NEW i \in Intent \cup {None}
  PROVE  LET g == [f EXCEPT !.intent = i] IN
         /\ g \in Files /\ g.intent = i
         /\ g.known = f.known /\ g.bound = f.bound /\ g.vals = f.vals
         /\ g.kept = f.kept
         /\ \A c : Whole(g, c) <=> Whole(f, c)
         /\ \A j : Pending(g, j) <=> Pending(f, j)
  <1> DEFINE g == [f EXCEPT !.intent = i]
  <1>1. /\ g \in Files /\ g.intent = i
        /\ g.known = f.known /\ g.bound = f.bound /\ g.vals = f.vals
        /\ g.kept = f.kept
    BY DEF Files
  <1> HIDE DEF g
  <1>2. \A c : Whole(g, c) <=> Whole(f, c)
    BY <1>1 DEF Whole
  <1>3. \A j : Pending(g, j) <=> Pending(f, j)
    BY <1>1 DEF Pending
  <1> QED
    BY <1>1, <1>2, <1>3 DEF g

\* Putting it in place is safe where it is true.
LEMMA InstallInv ==
  ASSUME NEW f \in Files, FileInv(f), f.intent = None, NEW i \in Intent,
         Pending(f, i)
  PROVE  FileInv([f EXCEPT !.intent = i])
  <1> DEFINE g == [f EXCEPT !.intent = i]
  <1>1. /\ g.intent = i
        /\ \A c : Whole(g, c) <=> Whole(f, c)
        /\ \A j : Pending(g, j) <=> Pending(f, j)
    BY IntentIs
  <1>2. \A c \in Contexts : Whole(f, c)
    BY NoIntentWhole
  <1> HIDE DEF g
  <1>3. FileInv(g)
    BY <1>1, <1>2 DEF FileInv, Names
  <1> QED
    BY <1>3 DEF g

LEMMA SnapshotStep ==
  ASSUME CoreInv, NEW p \in Procs, Snapshot(p)
  PROVE  CoreInv'
  <1> DEFINE r == proc[p]
             c == r.context
             f == Disk
             v == f.vals[c]
             owned == f.bound[c] \cap v.index
             i == [context |-> c, envs |-> v.env, secrets |-> owned,
                   fingerprint |-> f.bound[c]]
  <1>1. r.pc = "snapshot" /\ lock' = lock /\ journal' = journal /\ NoFault
    BY DEF Snapshot, NoFault
  <1>2. /\ lock = p /\ r \in Proc /\ c \in Contexts /\ Active(f, r)
        /\ f \in Files /\ FileInv(f)
    BY <1>1, Holder
  <1>3. f.intent = None /\ f.known[c] /\ ~r.resuming /\ r.tried = {}
    BY <1>1, <1>2 DEF Active
  <1>4. Whole(f, c)
    BY <1>2, <1>3, NoIntentWhole
  <1>5. CASE owned \subseteq v.blob
    <2> DEFINE t == [r EXCEPT !.pc = "install", !.todo = owned, !.intent = i]
    <2>1. Becomes(p, t)
      BY <1>1, <1>5 DEF Snapshot
    <2>2. v \in Values /\ f.kept[c] \in Values /\ f.bound[c] \subseteq Secrets
          /\ f.known[c] \in BOOLEAN
      BY <1>2, FileTypes
    <2>3. v.env \subseteq Envs /\ v.index \subseteq Secrets
      BY <2>2, ValueTypes
    <2>4. i \in Intent
      BY <1>2, <2>2, <2>3 DEF Intent
    <2>5. /\ i.context = c /\ i.envs = v.env /\ i.secrets = owned
          /\ i.fingerprint = f.bound[c]
      OBVIOUS
    <2> HIDE DEF i
    <2>6. Pending(f, i)
      <3> DEFINE k == f.kept[c]
      <3>1. v.env = k.env /\ v.index = k.index
            /\ v.blob \cap v.index = k.blob \cap k.index
        BY <1>4 DEF Whole, Visible
      <3>2. i.secrets \subseteq i.fingerprint
        BY <2>5
      <3>3. i.secrets = i.fingerprint \cap k.index /\ i.secrets \subseteq k.blob
        BY <2>5, <3>1, <1>5
      <3> HIDE DEF k
      <3>4. PendingOf(f.known[c], f.bound[c], v, k, i)
        BY <1>3, <2>5, <3>1, <3>2, <3>3 DEF PendingOf
      <3> QED
        BY <3>4, <2>5 DEF Pending, k
    <2>7. t \in Proc
      BY <1>2, <2>3, <2>4 DEF Proc, PCs
    <2>8. /\ t.pc = "install" /\ t.context = c /\ t.intent = i
          /\ t.todo = owned /\ t.tried = r.tried /\ t.resuming = r.resuming
      BY <1>2 DEF Proc
    <2> HIDE DEF t
    <2>9. Active(f, t)
      BY <1>2, <1>3, <2>4, <2>5, <2>6, <2>8 DEF Active, Named
    <2> QED
      BY <1>1, <1>2, <2>1, <2>7, <2>8, <2>9, LockedStep
  <1>6. CASE ~(owned \subseteq v.blob)
    <2> DEFINE t == [r EXCEPT !.pc = "report", !.result = "preserved"]
    <2>1. Becomes(p, t)
      BY <1>1, <1>6 DEF Snapshot, Reports
    <2>2. t \in Proc /\ t.pc = "report" /\ t.result = "preserved" /\ t.context = c
      BY <1>2 DEF Proc, PCs
    <2> HIDE DEF t
    <2>3. Active(f, t)
      BY <1>2, <1>3, <1>4, <2>2 DEF Active, Settled
    <2> QED
      BY <1>1, <1>2, <2>1, <2>2, <2>3, LockedStep
  <1> QED
    BY <1>5, <1>6

LEMMA InstallStep ==
  ASSUME CoreInv, NEW p \in Procs, Install(p)
  PROVE  CoreInv'
  <1> DEFINE r == proc[p]
             c == r.context
             f == Disk
             i == r.intent
             g == [f EXCEPT !.intent = i]
  <1>1. r.pc = "install" /\ lock' = lock
    BY DEF Install
  <1>2. /\ lock = p /\ r \in Proc /\ c \in Contexts /\ Active(f, r)
        /\ f \in Files /\ FileInv(f)
    BY <1>1, Holder
  <1>3. /\ i \in Intent /\ i.context = c /\ f.intent = None /\ f.known[c]
        /\ Pending(f, i) /\ ~r.resuming /\ r.tried = {} /\ r.todo = i.secrets
    BY <1>1, <1>2 DEF Active, Named
  <1>4. Whole(f, c)
    BY <1>2, <1>3, NoIntentWhole
  <1>5. CASE journal' = Append(journal, g) /\ NoFault
             /\ Becomes(p, [r EXCEPT !.pc = "installed"])
    <2> DEFINE t == [r EXCEPT !.pc = "installed"]
    <2>1. /\ g \in Files /\ g.intent = i /\ g.known = f.known
          /\ \A d : Whole(g, d) <=> Whole(f, d)
      BY <1>2, <1>3, IntentIs
    <2>2. FileInv(g)
      BY <1>2, <1>3, InstallInv
    <2>3. /\ t \in Proc /\ t.pc = "installed" /\ t.context = c /\ t.intent = i
          /\ t.todo = r.todo /\ t.tried = r.tried /\ t.resuming = r.resuming
      BY <1>2 DEF Proc, PCs
    <2> HIDE DEF t, g
    <2>4. Active(g, t)
      BY <1>2, <1>3, <1>4, <2>1, <2>3 DEF Active, Named, Owned
    <2>5. Becomes(p, t) /\ journal' = Append(journal, g)
      BY <1>5 DEF t, g
    <2> QED
      BY <1>1, <1>2, <1>5, <2>1, <2>2, <2>3, <2>4, <2>5, LockedStep
  <1>6. CASE Fails /\ Reports(p, "preserved")
    <2> DEFINE t == [r EXCEPT !.pc = "report", !.result = "preserved"]
    <2>1. Becomes(p, t) /\ journal' = journal /\ Fault
      BY <1>6 DEF Reports, Fails
    <2>2. t \in Proc /\ t.pc = "report" /\ t.result = "preserved" /\ t.context = c
      BY <1>2 DEF Proc, PCs
    <2> HIDE DEF t
    <2>3. Active(f, t)
      BY <1>2, <1>3, <1>4, <2>2 DEF Active, Settled
    <2> QED
      BY <1>1, <1>2, <2>1, <2>2, <2>3, LockedStep
  <1> QED
    BY <1>5, <1>6 DEF Install

LEMMA SyncIntentStep ==
  ASSUME CoreInv, NEW p \in Procs, SyncIntent(p)
  PROVE  CoreInv'
  <1> DEFINE r == proc[p]
             c == r.context
             f == Disk
             i == r.intent
  <1>1. r.pc = "installed" /\ lock' = lock
    BY DEF SyncIntent
  <1>2. /\ lock = p /\ r \in Proc /\ c \in Contexts /\ Active(f, r)
        /\ f \in Files /\ FileInv(f)
    BY <1>1, Holder
  <1>3. /\ Owned(f, r) /\ f.known[c] /\ Whole(f, c)
        /\ ~r.resuming /\ r.tried = {} /\ r.todo = i.secrets
    BY <1>1, <1>2 DEF Active
  <1>4. CASE journal' = <<f>> /\ NoFault
             /\ Becomes(p, [r EXCEPT !.pc = "secret", !.result = "ok"])
    <2> DEFINE t == [r EXCEPT !.pc = "secret", !.result = "ok"]
               v == f.vals[c]
               k == f.kept[c]
    <2>1. /\ t \in Proc /\ t.pc = "secret" /\ t.context = c /\ t.intent = i
          /\ t.todo = r.todo /\ t.tried = r.tried /\ t.resuming = r.resuming
          /\ t.result = "ok"
      BY <1>2 DEF Proc, PCs
    <2>2. v.env = k.env /\ v.index = k.index
          /\ v.blob \cap v.index = k.blob \cap k.index
      BY <1>3 DEF Whole, Visible
    <2>3. i.envs = k.env /\ i.secrets = i.fingerprint \cap k.index
          /\ i.secrets \subseteq k.blob
      <3>1. Pending(f, i) /\ i.context = c
        BY <1>2, <1>3, NoneAssumption DEF Owned, Named, FileInv, Names
      <3> QED
        BY <3>1, <1>3 DEF Pending, PendingOf
    <2>4. i.secrets \subseteq v.blob \cap v.index
      BY <2>2, <2>3
    <2> HIDE DEF t
    <2>5. Deleting(t, f.known[c], v, t.tried)
      BY <1>3, <2>1, <2>2, <2>3, <2>4 DEF Deleting
    <2>6. Active(f, t)
      BY <1>2, <1>3, <2>1, <2>5 DEF Active, Owned, Named
    <2>7. Becomes(p, t)
      BY <1>4 DEF t
    <2> QED
      BY <1>1, <1>2, <1>4, <2>1, <2>6, <2>7, LockedStep
  <1>5. CASE Fails /\ Becomes(p, [r EXCEPT !.pc = "remove", !.result = "preserved"])
    <2> DEFINE t == [r EXCEPT !.pc = "remove", !.result = "preserved"]
    <2>1. /\ t \in Proc /\ t.pc = "remove" /\ t.context = c /\ t.intent = i
          /\ t.result = "preserved"
      BY <1>2 DEF Proc, PCs
    <2>2. Becomes(p, t) /\ journal' = journal /\ Fault
      BY <1>5 DEF Fails
    <2> HIDE DEF t
    <2>3. Active(f, t)
      BY <1>2, <1>3, <2>1 DEF Active, Owned, Named, Settled
    <2> QED
      BY <1>1, <1>2, <2>1, <2>2, <2>3, LockedStep
  <1> QED
    BY <1>4, <1>5 DEF SyncIntent

-----------------------------------------------------------------------------
(* The deletion                                                            *)

LEMMA OwnedPending ==
  ASSUME NEW f \in Files, FileInv(f), NEW r, Owned(f, r)
  PROVE  LET c == r.context
             i == r.intent
         IN /\ i \in Intent /\ i.context = c /\ f.intent = i
            /\ f.vals[c] \in Values /\ f.kept[c] \in Values
            /\ f.known[c] \in BOOLEAN
            /\ PendingOf(f.known[c], f.bound[c], f.vals[c], f.kept[c], i)
  <1> DEFINE c == r.context
             i == r.intent
  <1>1. i \in Intent /\ i.context = c /\ c \in Contexts /\ f.intent = i /\ i # None
    BY NoneAssumption DEF Owned, Named
  <1>2. Pending(f, i)
    BY <1>1 DEF FileInv, Names
  <1>3. /\ f.vals[c] \in Values /\ f.kept[c] \in Values
        /\ f.known[c] \in BOOLEAN
    BY <1>1, FileTypes
  <1> QED
    BY <1>1, <1>2, <1>3 DEF Pending

\* The same, and what a change of the values leaves.
LEMMA OwnedHold ==
  ASSUME NEW f \in Files, FileInv(f), NEW r, Owned(f, r), NEW w \in Values,
         PendingOf(f.known[r.context], f.bound[r.context], w,
                   f.kept[r.context], r.intent)
  PROVE  LET c == r.context
             g == Hold(f, c, w)
         IN /\ g \in Files /\ FileInv(g)
            /\ g.vals[c] = w /\ g.intent = f.intent /\ g.known = f.known
  <1>1. /\ r.intent \in Intent /\ r.intent.context = r.context
        /\ r.context \in Contexts /\ f.intent = r.intent
    BY DEF Owned, Named
  <1>2. /\ Hold(f, r.context, w).vals[r.context] = w
        /\ Hold(f, r.context, w).intent = f.intent
        /\ Hold(f, r.context, w).known = f.known
    BY <1>1, HoldIs
  <1>3. Hold(f, r.context, w) \in Files /\ FileInv(Hold(f, r.context, w))
    BY <1>1, HoldInv
  <1> QED
    BY <1>2, <1>3

\* A deletion that fails goes on with its rollback, or leaves its intent.
RollsTo(r) ==
  IF r.resuming
    THEN [r EXCEPT !.pc = "report", !.result = "pending"]
    ELSE [r EXCEPT !.pc = "restore", !.todo = r.tried, !.result = "preserved"]

LEMMA RollbackActive ==
  ASSUME NEW f \in Files, NEW r \in Proc, Owned(f, r),
         r.tried \subseteq r.intent.secrets,
         ~r.resuming =>
           /\ f.known[r.context] /\ f.vals[r.context].env = r.intent.envs
           /\ r.intent.secrets \ r.tried
                \subseteq f.vals[r.context].blob \cap f.vals[r.context].index
  PROVE  /\ RollsTo(r) \in Proc /\ Active(f, RollsTo(r))
         /\ RollsTo(r).result # "ok"
  <1> DEFINE a == [r EXCEPT !.pc = "report", !.result = "pending"]
             b == [r EXCEPT !.pc = "restore", !.todo = r.tried,
                            !.result = "preserved"]
  <1>1. r.context \in Contexts
    BY DEF Owned, Named
  <1>2. CASE r.resuming
    <2>1. a \in Proc /\ a.pc = "report" /\ a.result = "pending"
          /\ a.context = r.context
      BY DEF Proc, PCs
    <2> HIDE DEF a
    <2>2. Active(f, a)
      BY <1>1, <2>1 DEF Active
    <2>3. RollsTo(r) = a
      BY <1>2 DEF RollsTo, a
    <2> QED
      BY <2>1, <2>2, <2>3
  <1>3. CASE ~r.resuming
    <2>1. /\ b \in Proc /\ b.pc = "restore" /\ b.result = "preserved"
          /\ b.context = r.context /\ b.intent = r.intent /\ b.todo = r.tried
      BY DEF Proc, PCs
    <2> HIDE DEF b
    <2>2. Active(f, b)
      BY <1>1, <1>3, <2>1 DEF Active, Restoring, Owned, Named
    <2>3. RollsTo(r) = b
      BY <1>3 DEF RollsTo, b
    <2> QED
      BY <2>1, <2>2, <2>3
  <1> QED
    BY <1>2, <1>3

\* A command that ends with its intent pending knows nothing of the files.
LEMMA ReportsPending ==
  ASSUME CoreInv, NEW p \in Procs, lock = p, proc[p] \in Proc,
         proc[p].context \in Contexts,
         NEW f \in Files, FileInv(f),
         \/ journal' = <<f>>
         \/ journal' = Append(journal, f)
         \/ journal' = journal /\ f = Disk,
         Reports(p, "pending"), Fault \/ NoFault, lock' = p
  PROVE  CoreInv'
  <1> DEFINE u == [proc[p] EXCEPT !.pc = "report", !.result = "pending"]
  <1>1. /\ u \in Proc /\ u.pc = "report" /\ u.result = "pending"
        /\ u.context = proc[p].context
    BY DEF Proc, PCs
  <1>2. Becomes(p, u)
    BY DEF Reports
  <1> HIDE DEF u
  <1>3. Active(f, u)
    BY <1>1 DEF Active
  <1> QED
    BY <1>1, <1>2, <1>3, LockedStep

LEMMA DeleteSecretValueStep ==
  ASSUME CoreInv, NEW p \in Procs, DeleteSecretValue(p)
  PROVE  CoreInv'
  <1> DEFINE r == proc[p]
             c == r.context
             f == Disk
             i == r.intent
             v == f.vals[c]
  <1>1. r.pc = "secret"
    BY DEF DeleteSecretValue
  <1>2. /\ lock = p /\ r \in Proc /\ c \in Contexts /\ Active(f, r)
        /\ f \in Files /\ FileInv(f)
    BY <1>1, Holder
  <1>3. Owned(f, r) /\ Deleting(r, f.known[c], v, r.tried)
    BY <1>1, <1>2 DEF Active
  <1>4. /\ i \in Intent /\ i.context = c /\ f.intent = i
        /\ v \in Values /\ f.kept[c] \in Values /\ f.known[c] \in BOOLEAN
        /\ PendingOf(f.known[c], f.bound[c], v, f.kept[c], i)
    BY <1>2, <1>3, OwnedPending
  <1>5. PICK s \in r.todo :
          LET t == [r EXCEPT !.todo = @ \ {s}, !.tried = @ \cup {s}] IN
          \/ /\ s \notin v.index
             /\ Becomes(p, t) /\ UNCHANGED <<journal, faults>>
          \/ /\ s \in v.index \ v.blob
             /\ Becomes(p, [t EXCEPT !.pc = "index", !.cur = s, !.had = FALSE])
             /\ UNCHANGED <<journal, faults>>
          \/ /\ s \in v.index \cap v.blob
             /\ \/ /\ Write(Hold(f, c, [v EXCEPT !.blob = @ \ {s}]))
                   /\ Becomes(p, [t EXCEPT !.pc = "index", !.cur = s,
                                            !.had = TRUE])
                \/ Fails /\ Rollback(p, t)
    BY DEF DeleteSecretValue
  <1>6. lock' = p
    BY <1>2 DEF DeleteSecretValue
  <1> DEFINE t == [r EXCEPT !.todo = @ \ {s}, !.tried = @ \cup {s}]
  <1>7. s \in Secrets /\ s \in i.secrets
    BY <1>2, <1>3, <1>5 DEF Proc, Deleting
  <1>8. /\ t \in Proc /\ t.pc = "secret" /\ t.context = c /\ t.intent = i
        /\ t.todo = r.todo \ {s} /\ t.tried = r.tried \cup {s}
        /\ t.resuming = r.resuming /\ t.result = r.result
    BY <1>1, <1>2, <1>7 DEF Proc, PCs
  <1>9. \A had \in BOOLEAN :
          LET u == [t EXCEPT !.pc = "index", !.cur = s, !.had = had] IN
          /\ u \in Proc /\ u.pc = "index" /\ u.context = c /\ u.intent = i
          /\ u.cur = s /\ u.todo = t.todo /\ u.tried = t.tried
          /\ u.resuming = r.resuming /\ u.result = r.result
    BY <1>7, <1>8 DEF Proc, PCs
  <1>10. /\ r.result = "ok" /\ r.tried \cup r.todo = i.secrets
         /\ r.tried \cap v.index = {}
         /\ ~r.resuming => /\ f.known[c] /\ v.env = i.envs
                           /\ i.secrets \ r.tried \subseteq v.blob \cap v.index
    BY <1>3 DEF Deleting
  <1>11. Owned(f, t)
    BY <1>3, <1>8 DEF Owned, Named
  <1>12. t.tried \cup t.todo = i.secrets /\ t.tried \ {s} \subseteq r.tried
    BY <1>5, <1>8, <1>10
  <1>13. ~t.resuming => /\ f.known[c] /\ v.env = i.envs
                        /\ i.secrets \ t.tried \subseteq v.blob \cap v.index
    BY <1>8, <1>10
  <1> HIDE DEF t
  <1>14. CASE s \notin v.index /\ Becomes(p, t) /\ UNCHANGED <<journal, faults>>
    <2>1. t.tried \cap v.index = {}
      BY <1>14, <1>8, <1>10
    <2>2. Deleting(t, f.known[c], v, t.tried)
      BY <1>8, <1>10, <1>12, <1>13, <2>1 DEF Deleting
    <2>3. Active(f, t)
      BY <1>2, <1>8, <1>11, <2>2 DEF Active
    <2> QED
      BY <1>2, <1>6, <1>8, <1>14, <2>3, LockedStep DEF NoFault
  <1>15. CASE /\ s \in v.index \ v.blob
             /\ Becomes(p, [t EXCEPT !.pc = "index", !.cur = s, !.had = FALSE])
             /\ UNCHANGED <<journal, faults>>
    <2> DEFINE u == [t EXCEPT !.pc = "index", !.cur = s, !.had = FALSE]
    <2>1. /\ u \in Proc /\ u.pc = "index" /\ u.context = c /\ u.intent = i
          /\ u.cur = s /\ u.todo = t.todo /\ u.tried = t.tried
          /\ u.resuming = r.resuming /\ u.result = r.result
      BY <1>9
    <2>2. Becomes(p, u)
      BY <1>15
    <2> HIDE DEF u
    <2>3. Deleting(u, f.known[c], v, u.tried \ {s})
      BY <1>8, <1>10, <1>12, <1>13, <2>1 DEF Deleting
    <2>4. Owned(f, u) /\ u.cur \in u.tried
      BY <1>3, <1>8, <2>1 DEF Owned, Named
    <2>5. Active(f, u)
      BY <1>2, <2>1, <2>3, <2>4 DEF Active
    <2> QED
      BY <1>2, <1>6, <1>15, <2>1, <2>2, <2>5, LockedStep DEF NoFault
  <1>16. CASE /\ s \in v.index \cap v.blob
             /\ Write(Hold(f, c, [v EXCEPT !.blob = @ \ {s}]))
             /\ Becomes(p, [t EXCEPT !.pc = "index", !.cur = s, !.had = TRUE])
    <2> DEFINE u == [t EXCEPT !.pc = "index", !.cur = s, !.had = TRUE]
               w == [v EXCEPT !.blob = @ \ {s}]
               g == Hold(f, c, w)
    <2>1. /\ u \in Proc /\ u.pc = "index" /\ u.context = c /\ u.intent = i
          /\ u.cur = s /\ u.todo = t.todo /\ u.tried = t.tried
          /\ u.resuming = r.resuming /\ u.result = r.result
      BY <1>9
    <2>2. Becomes(p, u)
      BY <1>16
    <2>3. w \in Values /\ PendingOf(f.known[c], f.bound[c], w, f.kept[c], i)
      BY <1>4, <1>7, PendingBlob
    <2>4. w.env = v.env /\ w.index = v.index /\ w.blob = v.blob \ {s}
      BY <1>4 DEF Values
    <2>5. Write(g)
      BY <1>16
    <2> HIDE DEF w
    <2>6. /\ g \in Files /\ FileInv(g)
          /\ g.vals[c] = w /\ g.intent = f.intent /\ g.known = f.known
      BY <1>2, <1>3, <2>3, OwnedHold
    <2> HIDE DEF u, g
    <2>7. ~u.resuming => i.secrets \ u.tried \subseteq w.blob \cap w.index
      BY <1>8, <1>13, <2>1, <2>4
    <2>8. Deleting(u, g.known[c], w, u.tried \ {s})
      BY <1>8, <1>10, <1>12, <1>13, <2>1, <2>4, <2>6, <2>7 DEF Deleting
    <2>9. Owned(g, u) /\ u.cur \in u.tried
      BY <1>3, <1>8, <2>1, <2>6 DEF Owned, Named
    <2>10. Active(g, u)
      BY <1>2, <2>1, <2>6, <2>8, <2>9 DEF Active
    <2> QED
      BY <1>2, <1>6, <2>1, <2>2, <2>5, <2>6, <2>10, LockedStep DEF Write
  <1>17. CASE Fails /\ Rollback(p, t)
    <2>1. RollsTo(t) \in Proc /\ Active(f, RollsTo(t)) /\ RollsTo(t).result # "ok"
      BY <1>2, <1>8, <1>11, <1>12, <1>13, RollbackActive
    <2>2. Becomes(p, RollsTo(t)) /\ Fault /\ journal' = journal
      BY <1>17 DEF Rollback, RollsTo, Fails
    <2> QED
      BY <1>2, <1>6, <2>1, <2>2, LockedStep
  <1> QED
    BY <1>5, <1>14, <1>15, <1>16, <1>17 DEF t

LEMMA DeleteSecretEntryStep ==
  ASSUME CoreInv, NEW p \in Procs, DeleteSecretEntry(p)
  PROVE  CoreInv'
  <1> DEFINE r == proc[p]
             c == r.context
             f == Disk
             i == r.intent
             v == f.vals[c]
  <1>1. r.pc = "index"
    BY DEF DeleteSecretEntry
  <1>2. /\ lock = p /\ r \in Proc /\ c \in Contexts /\ Active(f, r)
        /\ f \in Files /\ FileInv(f)
    BY <1>1, Holder
  <1>3. Owned(f, r) /\ r.cur \in r.tried /\ Deleting(r, f.known[c], v, r.tried \ {r.cur})
    BY <1>1, <1>2 DEF Active
  <1>4. /\ i \in Intent /\ i.context = c /\ f.intent = i
        /\ v \in Values /\ f.kept[c] \in Values /\ f.known[c] \in BOOLEAN
        /\ PendingOf(f.known[c], f.bound[c], v, f.kept[c], i)
    BY <1>2, <1>3, OwnedPending
  <1>5. /\ r.result = "ok" /\ r.tried \cup r.todo = i.secrets
        /\ (r.tried \ {r.cur}) \cap v.index = {}
        /\ ~r.resuming => /\ f.known[c] /\ v.env = i.envs
                          /\ i.secrets \ r.tried \subseteq v.blob \cap v.index
    BY <1>3 DEF Deleting
  <1>6. lock' = p
    BY <1>2 DEF DeleteSecretEntry
  <1>7. r.cur \in i.secrets /\ r.tried \subseteq i.secrets
    BY <1>3, <1>5
  <1>8. CASE /\ Write(Hold(f, c, [v EXCEPT !.index = @ \ {r.cur}]))
             /\ Becomes(p, [r EXCEPT !.pc = "secret"])
    <2> DEFINE u == [r EXCEPT !.pc = "secret"]
               w == [v EXCEPT !.index = @ \ {r.cur}]
               g == Hold(f, c, w)
    <2>1. /\ u \in Proc /\ u.pc = "secret" /\ u.context = c /\ u.intent = i
          /\ u.todo = r.todo /\ u.tried = r.tried
          /\ u.resuming = r.resuming /\ u.result = r.result
      BY <1>2 DEF Proc, PCs
    <2>2. Becomes(p, u) /\ Write(g)
      BY <1>8
    <2>3. w \in Values /\ PendingOf(f.known[c], f.bound[c], w, f.kept[c], i)
      BY <1>4, <1>7, PendingEntry
    <2>4. w.env = v.env /\ w.blob = v.blob /\ w.index = v.index \ {r.cur}
      BY <1>4 DEF Values
    <2> HIDE DEF w
    <2>5. /\ g \in Files /\ FileInv(g)
          /\ g.vals[c] = w /\ g.intent = f.intent /\ g.known = f.known
      BY <1>2, <1>3, <2>3, OwnedHold
    <2> HIDE DEF u, g
    <2>6. ~u.resuming => i.secrets \ u.tried \subseteq w.blob \cap w.index
      BY <1>3, <1>5, <2>1, <2>4
    <2>7. u.tried \cap w.index = {}
      BY <1>5, <2>1, <2>4
    <2>8. Deleting(u, g.known[c], w, u.tried)
      BY <1>5, <2>1, <2>4, <2>5, <2>6, <2>7 DEF Deleting
    <2>9. Active(g, u)
      BY <1>2, <1>3, <2>1, <2>5, <2>8 DEF Active, Owned, Named
    <2> QED
      BY <1>2, <1>6, <2>1, <2>2, <2>5, <2>9, LockedStep DEF Write
  <1>9. CASE /\ Fault /\ Rollback(p, r)
             /\ journal' = <<Hold(f, c, [v EXCEPT !.blob = @ \cup {r.cur}])>>
    <2> DEFINE w == [v EXCEPT !.blob = @ \cup {r.cur}]
               g == Hold(f, c, w)
    <2>1. journal' = <<g>>
      BY <1>9
    <2>2. w \in Values /\ PendingOf(f.known[c], f.bound[c], w, f.kept[c], i)
      BY <1>4, <1>7, PendingBlob
    <2>3. w.env = v.env /\ w.index = v.index /\ w.blob = v.blob \cup {r.cur}
      BY <1>4 DEF Values
    <2> HIDE DEF w
    <2>4. /\ g \in Files /\ FileInv(g)
          /\ g.vals[c] = w /\ g.intent = f.intent /\ g.known = f.known
      BY <1>2, <1>3, <2>2, OwnedHold
    <2> HIDE DEF g
    <2>5. ~r.resuming => i.secrets \ r.tried \subseteq w.blob \cap w.index
      BY <1>5, <2>3
    <2>6. Owned(g, r)
      BY <1>3, <2>4 DEF Owned
    <2>7. RollsTo(r) \in Proc /\ Active(g, RollsTo(r)) /\ RollsTo(r).result # "ok"
      BY <1>2, <1>5, <1>7, <2>3, <2>4, <2>5, <2>6, RollbackActive
    <2>8. Becomes(p, RollsTo(r))
      BY <1>9 DEF Rollback, RollsTo
    <2> QED
      BY <1>2, <1>6, <1>9, <2>1, <2>4, <2>7, <2>8, LockedStep
  <1>10. CASE Fault /\ Rollback(p, r) /\ UNCHANGED journal
    <2>1. RollsTo(r) \in Proc /\ Active(f, RollsTo(r)) /\ RollsTo(r).result # "ok"
      BY <1>2, <1>3, <1>5, <1>7, RollbackActive
    <2>2. Becomes(p, RollsTo(r))
      BY <1>10 DEF Rollback, RollsTo
    <2> QED
      BY <1>2, <1>6, <1>10, <2>1, <2>2, LockedStep
  <1> QED
    BY <1>8, <1>9, <1>10 DEF DeleteSecretEntry

LEMMA DeleteEnvValuesStep ==
  ASSUME CoreInv, NEW p \in Procs, DeleteEnvValues(p)
  PROVE  CoreInv'
  <1> DEFINE r == proc[p]
             c == r.context
             f == Disk
             i == r.intent
             v == f.vals[c]
  <1>1. r.pc = "secret"
    BY DEF DeleteEnvValues
  <1>2. /\ lock = p /\ r \in Proc /\ c \in Contexts /\ Active(f, r)
        /\ f \in Files /\ FileInv(f)
    BY <1>1, Holder
  <1>3. Owned(f, r) /\ Deleting(r, f.known[c], v, r.tried)
    BY <1>1, <1>2 DEF Active
  <1>4. /\ i \in Intent /\ i.context = c /\ f.intent = i
        /\ v \in Values /\ f.kept[c] \in Values /\ f.known[c] \in BOOLEAN
        /\ PendingOf(f.known[c], f.bound[c], v, f.kept[c], i)
    BY <1>2, <1>3, OwnedPending
  <1>5. /\ r.result = "ok" /\ r.tried = i.secrets /\ i.secrets \cap v.index = {}
        /\ ~r.resuming => /\ f.known[c] /\ v.env = i.envs
                          /\ i.secrets \ r.tried \subseteq v.blob \cap v.index
    BY <1>3 DEF Deleting, DeleteEnvValues
  <1>6. lock' = p
    BY <1>2 DEF DeleteEnvValues
  <1>7. v.env \subseteq i.envs
    BY <1>4 DEF PendingOf
  <1> DEFINE u == [r EXCEPT !.pc = "config"]
  <1>8. /\ u \in Proc /\ u.pc = "config" /\ u.context = c /\ u.intent = i
        /\ u.tried = r.tried /\ u.resuming = r.resuming /\ u.result = r.result
    BY <1>2 DEF Proc, PCs
  <1>9. CASE i.envs = {} /\ UNCHANGED <<journal, faults>> /\ Becomes(p, u)
    <2>1. v.env = {}
      BY <1>7, <1>9
    <2> HIDE DEF u
    <2>2. Active(f, u)
      BY <1>2, <1>3, <1>5, <1>8, <2>1 DEF Active, Owned, Named
    <2> QED
      BY <1>2, <1>6, <1>8, <1>9, <2>2, LockedStep DEF NoFault
  <1>10. CASE /\ Write(Hold(f, c, [v EXCEPT !.env = @ \ i.envs]))
              /\ Becomes(p, u)
    <2> DEFINE w == [v EXCEPT !.env = @ \ i.envs]
               g == Hold(f, c, w)
    <2>1. Write(g)
      BY <1>10
    <2>2. w \in Values /\ PendingOf(f.known[c], f.bound[c], w, f.kept[c], i)
      BY <1>4, PendingEnv
    <2>3. w.env = v.env \ i.envs /\ w.index = v.index /\ w.blob = v.blob
      BY <1>4 DEF Values
    <2> HIDE DEF w
    <2>4. /\ g \in Files /\ FileInv(g)
          /\ g.vals[c] = w /\ g.intent = f.intent /\ g.known = f.known
      BY <1>2, <1>3, <2>2, OwnedHold
    <2>5. w.env = {}
      BY <1>7, <2>3
    <2> HIDE DEF u, g
    <2>6. Active(g, u)
      BY <1>2, <1>3, <1>5, <1>8, <2>3, <2>4, <2>5 DEF Active, Owned, Named
    <2> QED
      BY <1>2, <1>6, <1>8, <1>10, <2>1, <2>4, <2>6, LockedStep DEF Write
  <1>11. CASE Fails /\ Rollback(p, r)
    <2>1. RollsTo(r) \in Proc /\ Active(f, RollsTo(r)) /\ RollsTo(r).result # "ok"
      BY <1>2, <1>3, <1>5, RollbackActive
    <2>2. Becomes(p, RollsTo(r)) /\ Fault /\ journal' = journal
      BY <1>11 DEF Rollback, RollsTo, Fails
    <2> QED
      BY <1>2, <1>6, <2>1, <2>2, LockedStep
  <1> QED
    BY <1>9, <1>10, <1>11 DEF DeleteEnvValues

LEMMA SaveConfigStep ==
  ASSUME CoreInv, NEW p \in Procs, SaveConfig(p)
  PROVE  CoreInv'
  <1> DEFINE r == proc[p]
             c == r.context
             f == Disk
             i == r.intent
             v == f.vals[c]
  <1>1. r.pc = "config"
    BY DEF SaveConfig
  <1>2. /\ lock = p /\ r \in Proc /\ c \in Contexts /\ Active(f, r)
        /\ f \in Files /\ FileInv(f)
    BY <1>1, Holder
  <1>3. /\ Owned(f, r)
        /\ r.tried = i.secrets /\ r.result = "ok" /\ v.env = {}
        /\ i.secrets \cap v.index = {} /\ (~r.resuming => f.known[c])
    BY <1>1, <1>2 DEF Active
  <1>4. /\ i \in Intent /\ i.context = c /\ f.intent = i
        /\ v \in Values /\ f.kept[c] \in Values /\ f.known[c] \in BOOLEAN
        /\ PendingOf(f.known[c], f.bound[c], v, f.kept[c], i)
    BY <1>2, <1>3, OwnedPending
  <1>5. lock' = p
    BY <1>2 DEF SaveConfig
  <1> DEFINE k == f.kept[c]
             now == [k EXCEPT !.env = @ \ i.envs, !.index = @ \ i.secrets,
                              !.blob = @ \ i.secrets]
             g == [Bind(f, c, {}) EXCEPT !.known[c] = FALSE, !.kept[c] = now]
             u == [r EXCEPT !.pc = "dir"]
  <1>6. /\ u \in Proc /\ u.pc = "dir" /\ u.context = c /\ u.intent = i
        /\ u.result = r.result
    BY <1>2 DEF Proc, PCs
  <1>7. CASE f.known[c] /\ Write(g) /\ Becomes(p, u)
    <2>1. /\ now \in Values /\ now.env = k.env \ i.envs
          /\ now.index = k.index \ i.secrets /\ now.blob = k.blob \ i.secrets
      BY <1>4 DEF Values
    <2> HIDE DEF now
    <2>2. /\ g \in Files /\ g.intent = f.intent /\ g.vals = f.vals
          /\ g.known[c] = FALSE /\ g.kept[c] = now
          /\ g.bound[c] = {}
          /\ \A d \in Contexts \ {c} :
               g.known[d] = f.known[d] /\ g.kept[d] = f.kept[d]
      BY <1>2, <2>1 DEF Bind, Files
    <2> HIDE DEF g
    <2>3. /\ i.envs = k.env
          /\ i.secrets = i.fingerprint \cap k.index /\ i.secrets \subseteq k.blob
          /\ v.index \subseteq k.index /\ k.index \ v.index \subseteq i.secrets
          /\ i.secrets \subseteq i.fingerprint
          /\ \A s \in Secrets \ i.secrets :
               s \in v.blob \cap v.index <=> s \in k.blob \cap k.index
      BY <1>4, <1>7 DEF PendingOf
    <2>4. v.index \subseteq Secrets /\ k.index \subseteq Secrets
          /\ v.blob \subseteq Secrets /\ k.blob \subseteq Secrets
      BY <1>4, ValueTypes
    <2>5. v.env = now.env
      BY <1>3, <2>1, <2>3
    <2>6. v.index = now.index /\ v.index \cap i.fingerprint = {}
      BY <1>3, <2>1, <2>3
    <2>7. v.blob \cap v.index = now.blob \cap now.index
      <3>1. ASSUME NEW s \in v.blob \cap v.index PROVE s \in now.blob \cap now.index
        <4>1. s \in Secrets \ i.secrets
          BY <3>1, <1>3, <2>4
        <4> QED
          BY <3>1, <4>1, <2>1, <2>3
      <3>2. ASSUME NEW s \in now.blob \cap now.index PROVE s \in v.blob \cap v.index
        <4>1. s \in Secrets \ i.secrets /\ s \in k.blob \cap k.index
          BY <3>2, <2>1, <2>4
        <4> QED
          BY <4>1, <2>3
      <3> QED
        BY <3>1, <3>2
    <2>8. Visible(v) = Visible(now)
      BY <2>5, <2>6, <2>7 DEF Visible
    <2>9. PendingOf(g.known[c], g.bound[c], g.vals[c], g.kept[c], i)
      BY <1>3, <2>2, <2>3, <2>6, <2>8 DEF PendingOf
    <2>10. Pending(g, i)
      BY <1>4, <2>9 DEF Pending
    <2>11. ASSUME NEW d \in Contexts, d # c PROVE Whole(g, d)
      <3>1. Whole(f, d)
        BY <1>2, <1>4, <2>11 DEF FileInv, Names
      <3> QED
        BY <3>1, <2>2, <2>11 DEF Whole
    <2>12. FileInv(g)
      BY <1>4, <2>2, <2>10, <2>11, IntentFields DEF FileInv, Names
    <2> HIDE DEF u
    <2>13. Active(g, u)
      BY <1>2, <1>3, <1>6, <2>2 DEF Active, Owned, Named
    <2> QED
      BY <1>2, <1>5, <1>6, <1>7, <2>2, <2>12, <2>13, LockedStep DEF Write
  <1>8. CASE ~f.known[c] /\ UNCHANGED <<journal, faults>> /\ Becomes(p, u)
    <2> HIDE DEF u
    <2>1. Active(f, u)
      BY <1>2, <1>3, <1>6, <1>8 DEF Active, Owned, Named
    <2> QED
      BY <1>2, <1>5, <1>6, <1>8, <2>1, LockedStep DEF NoFault
  <1>9. CASE f.known[c] /\ Fails /\ r.resuming /\ Rollback(p, r)
    <2>1. RollsTo(r) \in Proc /\ Active(f, RollsTo(r)) /\ RollsTo(r).result # "ok"
      BY <1>2, <1>3, <1>9, RollbackActive
    <2>2. Becomes(p, RollsTo(r)) /\ Fault /\ journal' = journal
      BY <1>9 DEF Rollback, RollsTo, Fails
    <2> QED
      BY <1>2, <1>5, <2>1, <2>2, LockedStep
  <1>10. CASE /\ f.known[c] /\ Fails
              /\ Becomes(p, [r EXCEPT !.pc = "restoreEnv",
                                       !.result = "preserved"])
    <2> DEFINE t == [r EXCEPT !.pc = "restoreEnv", !.result = "preserved"]
    <2>1. /\ t \in Proc /\ t.pc = "restoreEnv" /\ t.context = c /\ t.intent = i
          /\ t.tried = r.tried /\ t.result = "preserved"
      BY <1>2 DEF Proc, PCs
    <2>2. Becomes(p, t) /\ Fault /\ journal' = journal
      BY <1>10 DEF Fails
    <2> HIDE DEF t
    <2>3. Active(f, t)
      BY <1>2, <1>3, <1>10, <2>1 DEF Active, Owned, Named
    <2> QED
      BY <1>2, <1>5, <2>1, <2>2, <2>3, LockedStep
  <1> QED
    BY <1>7, <1>8, <1>9, <1>10 DEF SaveConfig

LEMMA RemoveContextDirStep ==
  ASSUME CoreInv, NEW p \in Procs, RemoveContextDir(p)
  PROVE  CoreInv'
  <1> DEFINE r == proc[p]
             c == r.context
             f == Disk
             i == r.intent
             v == f.vals[c]
  <1>1. r.pc = "dir"
    BY DEF RemoveContextDir
  <1>2. /\ lock = p /\ r \in Proc /\ c \in Contexts /\ Active(f, r)
        /\ f \in Files /\ FileInv(f)
    BY <1>1, Holder
  <1>3. Owned(f, r) /\ ~f.known[c] /\ r.result = "ok"
    BY <1>1, <1>2 DEF Active
  <1>4. /\ i \in Intent /\ i.context = c /\ f.intent = i
        /\ v \in Values /\ f.kept[c] \in Values /\ f.known[c] \in BOOLEAN
        /\ PendingOf(f.known[c], f.bound[c], v, f.kept[c], i)
    BY <1>2, <1>3, OwnedPending
  <1>5. lock' = p
    BY <1>2 DEF RemoveContextDir
  <1>6. CASE NoFault /\ Becomes(p, [r EXCEPT !.pc = "remove"])
    <2> DEFINE u == [r EXCEPT !.pc = "remove"]
    <2>1. /\ u \in Proc /\ u.pc = "remove" /\ u.context = c /\ u.intent = i
          /\ u.result = r.result
      BY <1>2 DEF Proc, PCs
    <2>2. Becomes(p, u) /\ journal' = journal
      BY <1>6 DEF RemoveContextDir
    <2> HIDE DEF u
    <2>3. Active(f, u)
      BY <1>2, <1>3, <2>1 DEF Active, Owned, Named, Settled
    <2> QED
      BY <1>2, <1>5, <1>6, <2>1, <2>2, <2>3, LockedStep
  <1>7. CASE (Fault \/ NoFault) /\ Reports(p, "pending")
    <2>1. journal' = journal
      BY DEF RemoveContextDir
    <2> QED
      BY <1>2, <1>5, <1>7, <2>1, ReportsPending
  <1> QED
    BY <1>6, <1>7 DEF RemoveContextDir

LEMMA RemoveIntentStep ==
  ASSUME CoreInv, NEW p \in Procs, RemoveIntent(p)
  PROVE  CoreInv'
  <1> DEFINE r == proc[p]
             c == r.context
             f == Disk
             i == r.intent
             v == f.vals[c]
  <1>1. r.pc = "remove"
    BY DEF RemoveIntent
  <1>2. /\ lock = p /\ r \in Proc /\ c \in Contexts /\ Active(f, r)
        /\ f \in Files /\ FileInv(f)
    BY <1>1, Holder
  <1>3. Owned(f, r) /\ Settled(f, r)
    BY <1>1, <1>2 DEF Active
  <1>4. /\ i \in Intent /\ i.context = c /\ f.intent = i
        /\ v \in Values /\ f.kept[c] \in Values /\ f.known[c] \in BOOLEAN
        /\ PendingOf(f.known[c], f.bound[c], v, f.kept[c], i)
    BY <1>2, <1>3, OwnedPending
  <1>5. lock' = p
    BY <1>2 DEF RemoveIntent
  <1>6. CASE /\ journal' = Append(journal, [f EXCEPT !.intent = None])
             /\ NoFault /\ Becomes(p, [r EXCEPT !.pc = "removed"])
    <2> DEFINE g == [f EXCEPT !.intent = None]
               u == [r EXCEPT !.pc = "removed"]
    <2>1. /\ u \in Proc /\ u.pc = "removed" /\ u.context = c /\ u.intent = i
          /\ u.result = r.result
      BY <1>2 DEF Proc, PCs
    <2>2. /\ g \in Files /\ g.intent = None
          /\ g.known = f.known
          /\ \A d : Whole(g, d) <=> Whole(f, d)
          /\ \A j : Pending(g, j) <=> Pending(f, j)
      BY <1>2, IntentIs
    <2>3. Becomes(p, u) /\ journal' = Append(journal, g)
      BY <1>6
    <2> HIDE DEF u, g
    <2>4. Pending(f, i)
      BY <1>4 DEF Pending
    <2>5. Whole(f, c)
      <3>1. CASE r.result = "ok"
        BY <3>1, <1>3, <1>4 DEF Settled, PendingOf, Whole
      <3>2. CASE r.result = "preserved"
        BY <3>2, <1>3 DEF Settled
      <3> QED
        BY <3>1, <3>2, <1>3 DEF Settled
    <2>6. \A d \in Contexts : Whole(f, d)
      BY <1>2, <1>4, <2>5 DEF FileInv, Names
    <2>7. FileInv(g)
      BY <2>2, <2>6 DEF FileInv, Names
    <2>8. Settled(g, u)
      BY <1>3, <2>1, <2>2 DEF Settled
    <2>9. Active(g, u)
      BY <1>2, <1>3, <2>1, <2>2, <2>4, <2>8 DEF Active, Owned, Named
    <2> QED
      BY <1>2, <1>5, <1>6, <2>1, <2>2, <2>3, <2>7, <2>9, LockedStep
  <1>7. CASE Fails /\ Reports(p, "pending")
    BY <1>2, <1>5, <1>7, ReportsPending DEF Fails
  <1> QED
    BY <1>6, <1>7 DEF RemoveIntent

LEMMA SyncRemovalStep ==
  ASSUME CoreInv, NEW p \in Procs, SyncRemoval(p)
  PROVE  CoreInv'
  <1> DEFINE r == proc[p]
             c == r.context
             f == Disk
             i == r.intent
             v == f.vals[c]
  <1>1. r.pc = "removed"
    BY DEF SyncRemoval
  <1>2. /\ lock = p /\ r \in Proc /\ c \in Contexts /\ Active(f, r)
        /\ f \in Files /\ FileInv(f)
    BY <1>1, Holder
  <1>3. /\ Named(r) /\ f.intent = None /\ Pending(f, i) /\ Settled(f, r)
    BY <1>1, <1>2 DEF Active
  <1>4. lock' = p
    BY <1>2 DEF SyncRemoval
  <1>5. CASE journal' = <<f>> /\ NoFault /\ Reports(p, r.result)
    <2> DEFINE u == [r EXCEPT !.pc = "report", !.result = r.result]
    <2>1. /\ u \in Proc /\ u.pc = "report" /\ u.context = c /\ u.intent = i
          /\ u.result = r.result
      BY <1>2 DEF Proc, PCs
    <2>2. Becomes(p, u)
      BY <1>5 DEF Reports
    <2> HIDE DEF u
    <2>3. Settled(f, u) /\ Named(u)
      BY <1>3, <2>1 DEF Settled, Named
    <2>4. Active(f, u)
      BY <1>2, <1>3, <2>1, <2>3 DEF Active
    <2> QED
      BY <1>2, <1>4, <1>5, <2>1, <2>2, <2>4, LockedStep
  <1>6. CASE Fails /\ Becomes(p, [r EXCEPT !.pc = "rewrite"])
    <2> DEFINE u == [r EXCEPT !.pc = "rewrite"]
    <2>1. /\ u \in Proc /\ u.pc = "rewrite" /\ u.context = c /\ u.intent = i
          /\ u.result = r.result
      BY <1>2 DEF Proc, PCs
    <2>2. Becomes(p, u) /\ Fault /\ journal' = journal
      BY <1>6 DEF Fails
    <2> HIDE DEF u
    <2>3. Settled(f, u) /\ Named(u)
      BY <1>3, <2>1 DEF Settled, Named
    <2>4. Active(f, u)
      BY <1>2, <1>3, <2>1, <2>3 DEF Active
    <2> QED
      BY <1>2, <1>4, <2>1, <2>2, <2>4, LockedStep
  <1> QED
    BY <1>5, <1>6 DEF SyncRemoval

LEMMA RewriteIntentStep ==
  ASSUME CoreInv, NEW p \in Procs, RewriteIntent(p)
  PROVE  CoreInv'
  <1> DEFINE r == proc[p]
             c == r.context
             f == Disk
             i == r.intent
             v == f.vals[c]
  <1>1. r.pc = "rewrite"
    BY DEF RewriteIntent
  <1>2. /\ lock = p /\ r \in Proc /\ c \in Contexts /\ Active(f, r)
        /\ f \in Files /\ FileInv(f)
    BY <1>1, Holder
  <1>3. /\ Named(r) /\ f.intent = None /\ Pending(f, i) /\ Settled(f, r)
    BY <1>1, <1>2 DEF Active
  <1>4. lock' = p /\ Reports(p, "pending")
    BY <1>2 DEF RewriteIntent
  <1> DEFINE g == [f EXCEPT !.intent = i]
  <1>5. CASE Write(g)
    <2>1. i \in Intent
      BY <1>3 DEF Named
    <2>2. g \in Files /\ FileInv(g)
      BY <1>2, <1>3, <2>1, IntentIs, InstallInv
    <2> HIDE DEF g
    <2> QED
      BY <1>2, <1>4, <1>5, <2>2, ReportsPending DEF Write
  <1>6. CASE Fails
    BY <1>2, <1>4, <1>6, ReportsPending DEF Fails
  <1> QED
    BY <1>5, <1>6 DEF RewriteIntent

-----------------------------------------------------------------------------
(* The rollback                                                            *)

LEMMA RestoreEnvStep ==
  ASSUME CoreInv, NEW p \in Procs, RestoreEnv(p)
  PROVE  CoreInv'
  <1> DEFINE r == proc[p]
             c == r.context
             f == Disk
             i == r.intent
             v == f.vals[c]
  <1>1. r.pc = "restoreEnv"
    BY DEF RestoreEnv
  <1>2. /\ lock = p /\ r \in Proc /\ c \in Contexts /\ Active(f, r)
        /\ f \in Files /\ FileInv(f)
    BY <1>1, Holder
  <1>3. /\ Owned(f, r)
        /\ f.known[c] /\ r.tried = i.secrets /\ r.result = "preserved"
    BY <1>1, <1>2 DEF Active
  <1>4. /\ i \in Intent /\ i.context = c /\ f.intent = i
        /\ v \in Values /\ f.kept[c] \in Values /\ f.known[c] \in BOOLEAN
        /\ PendingOf(f.known[c], f.bound[c], v, f.kept[c], i)
    BY <1>2, <1>3, OwnedPending
  <1>5. lock' = p
    BY <1>2 DEF RestoreEnv
  <1>6. v.env \subseteq i.envs
    BY <1>3, <1>4 DEF PendingOf
  <1> DEFINE t == [r EXCEPT !.pc = "restore", !.todo = r.tried]
             u == [r EXCEPT !.pc = "restore", !.todo = r.tried, !.failed = TRUE]
  <1>7. /\ t \in Proc /\ t.pc = "restore" /\ t.context = c /\ t.intent = i
        /\ t.todo = r.tried /\ t.result = r.result
    BY <1>2 DEF Proc, PCs
  <1>8. CASE i.envs = {} /\ UNCHANGED <<journal, faults>> /\ Becomes(p, t)
    <2> HIDE DEF t
    <2>1. v.env = i.envs /\ i.secrets \ t.todo = {}
      BY <1>3, <1>6, <1>7, <1>8
    <2>2. Restoring(t, f.known[c], v, t.todo)
      BY <1>3, <1>7, <2>1 DEF Restoring
    <2>3. Active(f, t)
      BY <1>2, <1>3, <1>7, <2>2 DEF Active, Owned, Named
    <2> QED
      BY <1>2, <1>5, <1>7, <1>8, <2>3, LockedStep DEF NoFault
  <1>9. CASE /\ Write(Hold(f, c, [v EXCEPT !.env = @ \cup i.envs]))
             /\ Becomes(p, t)
    <2> DEFINE w == [v EXCEPT !.env = @ \cup i.envs]
               g == Hold(f, c, w)
    <2>1. Write(g)
      BY <1>9
    <2>2. w \in Values /\ PendingOf(f.known[c], f.bound[c], w, f.kept[c], i)
      BY <1>3, <1>4, PendingEnv
    <2>3. w.env = v.env \cup i.envs
      BY <1>4 DEF Values
    <2> HIDE DEF w
    <2>4. /\ g \in Files /\ FileInv(g)
          /\ g.vals[c] = w /\ g.intent = f.intent /\ g.known = f.known
      BY <1>2, <1>3, <2>2, OwnedHold
    <2> HIDE DEF t, g
    <2>5. w.env = i.envs /\ i.secrets \ t.todo = {}
      BY <1>3, <1>6, <1>7, <2>3
    <2>6. Restoring(t, g.known[c], w, t.todo)
      BY <1>3, <1>7, <2>4, <2>5 DEF Restoring
    <2>7. Active(g, t)
      BY <1>2, <1>3, <1>7, <2>4, <2>6 DEF Active, Owned, Named
    <2> QED
      BY <1>2, <1>5, <1>7, <1>9, <2>1, <2>4, <2>7, LockedStep DEF Write
  <1>10. CASE Fails /\ Becomes(p, u)
    <2>1. /\ u \in Proc /\ u.pc = "restore" /\ u.context = c /\ u.intent = i
          /\ u.todo = r.tried /\ u.result = r.result /\ u.failed
      BY <1>2 DEF Proc, PCs
    <2> HIDE DEF u
    <2>2. Restoring(u, f.known[c], v, u.todo)
      BY <1>3, <2>1 DEF Restoring
    <2>3. Active(f, u)
      BY <1>2, <1>3, <2>1, <2>2 DEF Active, Owned, Named
    <2> QED
      BY <1>2, <1>5, <1>10, <2>1, <2>3, LockedStep DEF Fails
  <1> QED
    BY <1>8, <1>9, <1>10 DEF RestoreEnv

LEMMA RestoreSecretValueStep ==
  ASSUME CoreInv, NEW p \in Procs, RestoreSecretValue(p)
  PROVE  CoreInv'
  <1> DEFINE r == proc[p]
             c == r.context
             f == Disk
             i == r.intent
             v == f.vals[c]
  <1>1. r.pc = "restore"
    BY DEF RestoreSecretValue
  <1>2. /\ lock = p /\ r \in Proc /\ c \in Contexts /\ Active(f, r)
        /\ f \in Files /\ FileInv(f)
    BY <1>1, Holder
  <1>3. Owned(f, r) /\ Restoring(r, f.known[c], v, r.todo)
    BY <1>1, <1>2 DEF Active
  <1>4. /\ i \in Intent /\ i.context = c /\ f.intent = i
        /\ v \in Values /\ f.kept[c] \in Values /\ f.known[c] \in BOOLEAN
        /\ PendingOf(f.known[c], f.bound[c], v, f.kept[c], i)
    BY <1>2, <1>3, OwnedPending
  <1>5. PICK s \in r.todo :
          LET t == [r EXCEPT !.todo = @ \ {s}] IN
          \/ /\ Write(Hold(f, c, [v EXCEPT !.blob = @ \cup {s}]))
             /\ Becomes(p, [t EXCEPT !.pc = "restoreIndex", !.cur = s])
          \/ Fails /\ Becomes(p, [t EXCEPT !.failed = TRUE])
    BY DEF RestoreSecretValue
  <1>6. lock' = p
    BY <1>2 DEF RestoreSecretValue
  <1>7. /\ r.result = "preserved" /\ f.known[c] /\ r.todo \subseteq i.secrets
        /\ ~r.failed => /\ v.env = i.envs
                        /\ i.secrets \ r.todo \subseteq v.blob \cap v.index
    BY <1>3 DEF Restoring
  <1>8. s \in i.secrets /\ s \in Secrets
    BY <1>2, <1>5, <1>7 DEF Proc
  <1> DEFINE t == [r EXCEPT !.todo = @ \ {s}]
  <1>9. /\ t \in Proc /\ t.pc = "restore" /\ t.context = c /\ t.intent = i
        /\ t.todo = r.todo \ {s} /\ t.result = r.result /\ t.failed = r.failed
    BY <1>1, <1>2 DEF Proc, PCs
  <1> HIDE DEF t
  <1>10. CASE /\ Write(Hold(f, c, [v EXCEPT !.blob = @ \cup {s}]))
              /\ Becomes(p, [t EXCEPT !.pc = "restoreIndex", !.cur = s])
    <2> DEFINE u == [t EXCEPT !.pc = "restoreIndex", !.cur = s]
               w == [v EXCEPT !.blob = @ \cup {s}]
               g == Hold(f, c, w)
    <2>1. /\ u \in Proc /\ u.pc = "restoreIndex" /\ u.context = c /\ u.intent = i
          /\ u.todo = t.todo /\ u.result = r.result /\ u.failed = r.failed
          /\ u.cur = s
      BY <1>8, <1>9 DEF Proc, PCs
    <2>2. Write(g) /\ Becomes(p, u)
      BY <1>10
    <2>3. w \in Values /\ PendingOf(f.known[c], f.bound[c], w, f.kept[c], i)
      BY <1>4, <1>8, PendingBlob
    <2>4. w.env = v.env /\ w.index = v.index /\ w.blob = v.blob \cup {s}
      BY <1>4 DEF Values
    <2> HIDE DEF w
    <2>5. /\ g \in Files /\ FileInv(g)
          /\ g.vals[c] = w /\ g.intent = f.intent /\ g.known = f.known
      BY <1>2, <1>3, <2>3, OwnedHold
    <2> HIDE DEF u, g
    <2>6. u.todo \subseteq i.secrets /\ u.todo \cup {s} = r.todo /\ s \in w.blob
      BY <1>5, <1>7, <1>9, <2>1, <2>4
    <2>7. ~u.failed => i.secrets \ (u.todo \cup {s}) \subseteq w.blob \cap w.index
      BY <1>7, <2>1, <2>4, <2>6
    <2>8. Restoring(u, g.known[c], w, u.todo \cup {s})
      BY <1>7, <2>1, <2>4, <2>5, <2>6, <2>7 DEF Restoring
    <2>9. Active(g, u)
      BY <1>2, <1>3, <1>8, <2>1, <2>5, <2>6, <2>8 DEF Active, Owned, Named
    <2> QED
      BY <1>2, <1>6, <2>1, <2>2, <2>5, <2>9, LockedStep DEF Write
  <1>11. CASE Fails /\ Becomes(p, [t EXCEPT !.failed = TRUE])
    <2> DEFINE u == [t EXCEPT !.failed = TRUE]
    <2>1. /\ u \in Proc /\ u.pc = "restore" /\ u.context = c /\ u.intent = i
          /\ u.todo = t.todo /\ u.result = r.result /\ u.failed
      BY <1>9 DEF Proc, PCs
    <2>2. Becomes(p, u)
      BY <1>11
    <2> HIDE DEF u
    <2>3. Restoring(u, f.known[c], v, u.todo)
      BY <1>7, <1>9, <2>1 DEF Restoring
    <2>4. Active(f, u)
      BY <1>2, <1>3, <2>1, <2>3 DEF Active, Owned, Named
    <2> QED
      BY <1>2, <1>6, <1>11, <2>1, <2>2, <2>4, LockedStep DEF Fails
  <1> QED
    BY <1>5, <1>10, <1>11 DEF t

LEMMA RestoreSecretEntryStep ==
  ASSUME CoreInv, NEW p \in Procs, RestoreSecretEntry(p)
  PROVE  CoreInv'
  <1> DEFINE r == proc[p]
             c == r.context
             f == Disk
             i == r.intent
             v == f.vals[c]
  <1>1. r.pc = "restoreIndex"
    BY DEF RestoreSecretEntry
  <1>2. /\ lock = p /\ r \in Proc /\ c \in Contexts /\ Active(f, r)
        /\ f \in Files /\ FileInv(f)
    BY <1>1, Holder
  <1>3. /\ Owned(f, r)
        /\ r.cur \in i.secrets /\ r.cur \in v.blob
        /\ Restoring(r, f.known[c], v, r.todo \cup {r.cur})
    BY <1>1, <1>2 DEF Active
  <1>4. /\ i \in Intent /\ i.context = c /\ f.intent = i
        /\ v \in Values /\ f.kept[c] \in Values /\ f.known[c] \in BOOLEAN
        /\ PendingOf(f.known[c], f.bound[c], v, f.kept[c], i)
    BY <1>2, <1>3, OwnedPending
  <1>5. lock' = p
    BY <1>2 DEF RestoreSecretEntry
  <1>6. /\ r.result = "preserved" /\ f.known[c] /\ r.todo \subseteq i.secrets
        /\ ~r.failed =>
             /\ v.env = i.envs
             /\ i.secrets \ (r.todo \cup {r.cur}) \subseteq v.blob \cap v.index
    BY <1>3 DEF Restoring
  <1>7. CASE /\ Write(Hold(f, c, [v EXCEPT !.index = @ \cup {r.cur}]))
             /\ Becomes(p, [r EXCEPT !.pc = "restore"])
    <2> DEFINE u == [r EXCEPT !.pc = "restore"]
               w == [v EXCEPT !.index = @ \cup {r.cur}]
               g == Hold(f, c, w)
    <2>1. /\ u \in Proc /\ u.pc = "restore" /\ u.context = c /\ u.intent = i
          /\ u.todo = r.todo /\ u.result = r.result /\ u.failed = r.failed
      BY <1>2 DEF Proc, PCs
    <2>2. Write(g) /\ Becomes(p, u)
      BY <1>7
    <2>3. w \in Values /\ PendingOf(f.known[c], f.bound[c], w, f.kept[c], i)
      <3>1. r.cur \in i.secrets /\ f.known[c]
        BY <1>3, <1>6
      <3> QED
        BY <1>4, <3>1, PendingEntry
    <2>4. w.env = v.env /\ w.blob = v.blob /\ w.index = v.index \cup {r.cur}
      BY <1>4 DEF Values
    <2> HIDE DEF w
    <2>5. /\ g \in Files /\ FileInv(g)
          /\ g.vals[c] = w /\ g.intent = f.intent /\ g.known = f.known
      BY <1>2, <1>3, <2>3, OwnedHold
    <2> HIDE DEF u, g
    <2>6. ~u.failed => i.secrets \ u.todo \subseteq w.blob \cap w.index
      BY <1>3, <1>6, <2>1, <2>4
    <2>7. Restoring(u, g.known[c], w, u.todo)
      BY <1>6, <2>1, <2>4, <2>5, <2>6 DEF Restoring
    <2>8. Active(g, u)
      BY <1>2, <1>3, <2>1, <2>5, <2>7 DEF Active, Owned, Named
    <2> QED
      BY <1>2, <1>5, <2>1, <2>2, <2>5, <2>8, LockedStep DEF Write
  <1>8. CASE Fails /\ Becomes(p, [r EXCEPT !.pc = "restore", !.failed = TRUE])
    <2> DEFINE u == [r EXCEPT !.pc = "restore", !.failed = TRUE]
    <2>1. /\ u \in Proc /\ u.pc = "restore" /\ u.context = c /\ u.intent = i
          /\ u.todo = r.todo /\ u.result = r.result /\ u.failed
      BY <1>2 DEF Proc, PCs
    <2>2. Becomes(p, u)
      BY <1>8
    <2> HIDE DEF u
    <2>3. Restoring(u, f.known[c], v, u.todo)
      BY <1>6, <2>1 DEF Restoring
    <2>4. Active(f, u)
      BY <1>2, <1>3, <2>1, <2>3 DEF Active, Owned, Named
    <2> QED
      BY <1>2, <1>5, <1>8, <2>1, <2>2, <2>4, LockedStep DEF Fails
  <1> QED
    BY <1>7, <1>8 DEF RestoreSecretEntry

LEMMA RolledBackStep ==
  ASSUME CoreInv, NEW p \in Procs, RolledBack(p)
  PROVE  CoreInv'
  <1> DEFINE r == proc[p]
             c == r.context
             f == Disk
             i == r.intent
             v == f.vals[c]
  <1>1. r.pc = "restore"
    BY DEF RolledBack
  <1>2. /\ lock = p /\ r \in Proc /\ c \in Contexts /\ Active(f, r)
        /\ f \in Files /\ FileInv(f)
    BY <1>1, Holder
  <1>3. Owned(f, r) /\ Restoring(r, f.known[c], v, r.todo)
    BY <1>1, <1>2 DEF Active
  <1>4. /\ i \in Intent /\ i.context = c /\ f.intent = i
        /\ v \in Values /\ f.kept[c] \in Values /\ f.known[c] \in BOOLEAN
        /\ PendingOf(f.known[c], f.bound[c], v, f.kept[c], i)
    BY <1>2, <1>3, OwnedPending
  <1>5. lock' = p /\ r.todo = {} /\ journal' = journal /\ NoFault
    BY <1>2 DEF RolledBack, NoFault
  <1>6. CASE r.failed /\ Reports(p, "pending")
    BY <1>2, <1>5, <1>6, ReportsPending
  <1>7. CASE ~r.failed /\ Becomes(p, [r EXCEPT !.pc = "remove"])
    <2> DEFINE u == [r EXCEPT !.pc = "remove"]
               k == f.kept[c]
    <2>1. /\ u \in Proc /\ u.pc = "remove" /\ u.context = c /\ u.intent = i
          /\ u.result = r.result
      BY <1>2 DEF Proc, PCs
    <2>2. Becomes(p, u)
      BY <1>7
    <2> HIDE DEF u
    <2>3. /\ r.result = "preserved" /\ f.known[c] /\ v.env = i.envs
          /\ i.secrets \subseteq v.blob \cap v.index
      BY <1>3, <1>5, <1>7 DEF Restoring
    <2>4. /\ i.envs = k.env
          /\ i.secrets = i.fingerprint \cap k.index /\ i.secrets \subseteq k.blob
          /\ v.index \subseteq k.index /\ k.index \ v.index \subseteq i.secrets
          /\ \A s \in Secrets \ i.secrets :
               s \in v.blob \cap v.index <=> s \in k.blob \cap k.index
      BY <1>4, <2>3 DEF PendingOf
    <2>5. v.index \subseteq Secrets /\ k.index \subseteq Secrets
      BY <1>4, ValueTypes
    <2>6. v.index = k.index
      BY <2>3, <2>4
    <2>7. \A s \in Secrets : s \in v.blob \cap v.index <=> s \in k.blob \cap k.index
      <3>1. ASSUME NEW s \in i.secrets
            PROVE  s \in v.blob \cap v.index /\ s \in k.blob \cap k.index
        BY <2>3, <2>4
      <3> QED
        BY <3>1, <2>4
    <2>8. v.blob \cap v.index = k.blob \cap k.index
      BY <2>5, <2>7
    <2>9. Whole(f, c)
      BY <2>3, <2>4, <2>6, <2>8 DEF Whole, Visible
    <2>10. Active(f, u)
      BY <1>2, <1>3, <2>1, <2>3, <2>9 DEF Active, Owned, Named, Settled
    <2> QED
      BY <1>2, <1>5, <2>1, <2>2, <2>10, LockedStep
  <1> QED
    BY <1>6, <1>7 DEF RolledBack

LEMMA IdleType == Idle \in Proc /\ Idle.pc = "idle"
  BY DEF Idle, Proc, PCs

LEMMA EndsStep ==
  ASSUME CoreInv, NEW p \in Procs, Ends(p)
  PROVE  CoreInv'
  <1>1. proc[p].pc = "report"
    BY DEF Ends
  <1>2. lock = p /\ Disk \in Files /\ FileInv(Disk)
    BY <1>1, Holder
  <1>3. lock' = None /\ journal' = journal /\ NoFault /\ Becomes(p, Idle)
    BY DEF Ends, NoFault
  <1> QED
    BY <1>2, <1>3, IdleType, LockedStep

-----------------------------------------------------------------------------
(* Steps without the lock                                                  *)

\* The files stay, and a process leaves the others alone.
LEMMA OtherStep ==
  ASSUME CoreInv, NEW p \in Procs, journal' = journal, Fault \/ NoFault,
         NEW r \in Proc, Becomes(p, r),
         \/ r.pc = "idle"
         \/ r.pc = "checked" /\ r.context \in Contexts,
         lock' \in {lock, None}, lock' = lock \/ lock = p
  PROVE  CoreInv'
  <1>1. Types /\ LockInv /\ CheckedInv
        /\ \A i \in DOMAIN journal : FileInv(journal[i])
    BY DEF CoreInv
  <1>2. /\ proc' \in [Procs -> Proc] /\ proc'[p] = r
        /\ \A q \in Procs \ {p} : proc'[q] = proc[q]
    BY <1>1 DEF Becomes, Types
  <1>3. faults' \in 0 .. MaxFaults
    BY <1>1, FaultType
  <1>4. Disk' = Disk
    BY DEF Disk
  <1>5. Types'
    BY <1>1, <1>2, <1>3 DEF Types
  <1>6. LockInv'
    <2> SUFFICES ASSUME NEW q \in Procs,
                        proc'[q].pc \notin {"idle", "checked"}
                 PROVE  /\ lock' = q /\ Active(Disk', proc'[q])
                        /\ proc'[q].pc = "report" /\ proc'[q].result = "ok"
                             => journal' = <<Disk'>>
      BY DEF LockInv
    <2>1. q # p
      BY <1>2
    <2>2. proc'[q] = proc[q]
      BY <2>1, <1>2
    <2>3. /\ lock = q /\ Active(Disk, proc[q])
          /\ proc[q].pc = "report" /\ proc[q].result = "ok" => journal = <<Disk>>
      BY <2>2, <1>1 DEF LockInv
    <2>4. lock' = q
      BY <2>1, <2>3
    <2> QED
      BY <2>2, <2>3, <2>4, <1>4
  <1>7. CheckedInv'
    BY <1>1, <1>2 DEF CheckedInv
  <1> QED
    BY <1>1, <1>5, <1>6, <1>7 DEF CoreInv

LEMMA StartCommandStep ==
  ASSUME CoreInv, NEW p \in Procs, NEW c \in Contexts, StartCommand(p, c)
  PROVE  CoreInv'
  <1> DEFINE u == [proc[p] EXCEPT !.pc = "checked", !.context = c]
  <1>1. proc[p] \in Proc
    BY DEF CoreInv, Types
  <1>2. u \in Proc /\ u.pc = "checked" /\ u.context = c
    BY <1>1 DEF Proc, PCs
  <1>3. Becomes(p, u) /\ journal' = journal /\ lock' = lock /\ NoFault
    BY DEF StartCommand, NoFault
  <1> HIDE DEF u
  <1> QED
    BY <1>2, <1>3, OtherStep

LEMMA MakeDirectoryStep ==
  ASSUME CoreInv, NEW p \in Procs, MakeDirectory(p)
  PROVE  CoreInv'
  BY DEF MakeDirectory, CoreInv, Types, LockInv, CheckedInv, Disk

LEMMA CommandEndsStep ==
  ASSUME CoreInv, NEW p \in Procs, CommandEnds(p)
  PROVE  CoreInv'
  <1>1. Becomes(p, Idle) /\ journal' = journal /\ NoFault /\ lock' = lock
    BY DEF CommandEnds, NoFault
  <1> QED
    BY <1>1, IdleType, OtherStep

LEMMA CrashStep ==
  ASSUME CoreInv, NEW p \in Procs, Crash(p)
  PROVE  CoreInv'
  <1>1. /\ Becomes(p, Idle) /\ journal' = journal /\ Fault
        /\ lock' \in {lock, None} /\ (lock' = lock \/ lock = p)
    BY DEF Crash
  <1> QED
    BY <1>1, IdleType, OtherStep

LEMMA PowerLossStep ==
  ASSUME CoreInv, PowerLoss
  PROVE  CoreInv'
  <1>1. Types /\ \A i \in DOMAIN journal : FileInv(journal[i])
    BY DEF CoreInv
  <1>2. PICK i \in DOMAIN journal : journal' = <<journal[i]>>
    BY DEF PowerLoss
  <1>3. journal[i] \in Files /\ FileInv(journal[i])
    BY <1>1 DEF Types
  <1>4. /\ journal' \in Seq(Files) /\ journal' # << >>
        /\ \A j \in DOMAIN journal' : FileInv(journal'[j])
    BY <1>1, <1>2, <1>3, WriteJournal
  <1>5. faults' \in 0 .. MaxFaults
    BY <1>1, FaultType DEF PowerLoss
  <1>6. proc' \in [Procs -> Proc] /\ \A q \in Procs : proc'[q].pc = "idle"
    BY IdleType DEF PowerLoss
  <1>7. Types'
    BY <1>4, <1>5, <1>6 DEF Types, PowerLoss
  <1> QED
    BY <1>4, <1>6, <1>7 DEF CoreInv, LockInv, CheckedInv

LEMMA LockConfigStep ==
  ASSUME CoreInv, NEW p \in Procs, LockConfig(p)
  PROVE  CoreInv'
  <1> DEFINE u == [proc[p] EXCEPT !.pc = "mutate"]
  <1>1. Types /\ proc[p] \in Proc /\ lock = None
    BY DEF CoreInv, Types, LockConfig
  <1>2. Disk \in Files /\ FileInv(Disk)
    BY <1>1, DiskType DEF CoreInv, Disk
  <1>3. journal' = journal /\ NoFault
    BY DEF LockConfig, NoFault
  <1>4. CASE Disk.intent = None /\ lock' = p /\ Becomes(p, u)
    <2>1. u \in Proc /\ u.pc = "mutate" /\ u.context = proc[p].context
      BY <1>1 DEF Proc, PCs
    <2>2. u.context \in Contexts
      BY <2>1 DEF CoreInv, CheckedInv, LockConfig
    <2> HIDE DEF u
    <2>3. Active(Disk, u)
      BY <1>4, <2>1, <2>2 DEF Active
    <2> QED
      BY <1>1, <1>2, <1>3, <1>4, <2>1, <2>3, LockedStep
  <1>5. CASE lock' = lock /\ Becomes(p, Idle)
    BY <1>3, <1>5, IdleType, OtherStep
  <1> QED
    BY <1>4, <1>5 DEF LockConfig

LEMMA DeleteBeginsStep ==
  ASSUME CoreInv, NEW p \in Procs, NEW c \in Contexts, DeleteBegins(p, c)
  PROVE  CoreInv'
  <1> DEFINE f == Disk
             i == f.intent
             t == [Idle EXCEPT !.pc = "secret", !.context = c,
                     !.resuming = TRUE, !.intent = i,
                     !.todo = i.secrets, !.result = "ok"]
             u == [Idle EXCEPT !.pc = "snapshot", !.context = c]
  <1>1. Types /\ lock = None /\ lock' = p /\ journal' = journal /\ NoFault
    BY DEF CoreInv, DeleteBegins, NoFault
  <1>2. f \in Files /\ FileInv(f)
    BY <1>1, DiskType DEF CoreInv, Disk
  <1>3. CASE i # None /\ i.context = c /\ Becomes(p, t)
    <2>1. i \in Intent /\ i.secrets \subseteq Secrets
      BY <1>2, <1>3, FileTypes, IntentFields
    <2>2. /\ t \in Proc /\ t.pc = "secret" /\ t.context = c /\ t.resuming
          /\ t.intent = i /\ t.tried = {} /\ t.todo = i.secrets
          /\ t.result = "ok"
      BY <2>1 DEF Idle, Proc, PCs
    <2> HIDE DEF t, f, i
    <2>3. Owned(f, t)
      BY <1>3, <2>1, <2>2 DEF Owned, Named, i
    <2>4. Deleting(t, f.known[c], f.vals[c], t.tried)
      BY <2>2 DEF Deleting
    <2>5. Active(f, t)
      BY <2>2, <2>3, <2>4 DEF Active
    <2> QED
      BY <1>1, <1>2, <1>3, <2>2, <2>5, LockedStep DEF f
  <1>4. CASE i = None /\ f.known[c] /\ Becomes(p, u)
    <2>1. /\ u \in Proc /\ u.pc = "snapshot" /\ u.context = c /\ ~u.resuming
          /\ u.tried = {}
      BY DEF Idle, Proc, PCs
    <2> HIDE DEF u
    <2>2. Active(f, u)
      BY <1>4, <2>1 DEF Active
    <2> QED
      BY <1>1, <1>2, <1>4, <2>1, <2>2, LockedStep
  <1> QED
    BY <1>3, <1>4 DEF DeleteBegins

-----------------------------------------------------------------------------
(* Commands that change a context                                          *)

\* A command that is no deletion may leave the files as f.
Kept(f) == f \in Files /\ f.intent = None /\ \A d \in Contexts : Whole(f, d)

LEMMA KeptInv ==
  ASSUME NEW f, Kept(f)
  PROVE  f \in Files /\ FileInv(f)
  BY DEF Kept, FileInv, Names

LEMMA KeepKept ==
  ASSUME NEW f, Kept(f), NEW c \in Contexts, NEW v \in Values
  PROVE  /\ Kept(Keep(f, c, v)) /\ Keep(f, c, v).vals[c] = v
         /\ Keep(f, c, v).bound = f.bound
  <1> DEFINE g == Keep(f, c, v)
  <1>1. /\ g \in Files /\ g.intent = f.intent /\ g.known = f.known
        /\ g.bound = f.bound
        /\ g.vals[c] = v /\ g.kept[c] = v
        /\ \A d \in Contexts \ {c} :
             g.vals[d] = f.vals[d] /\ g.kept[d] = f.kept[d]
    BY DEF Kept, Keep, Files
  <1> HIDE DEF g
  <1>2. ASSUME NEW d \in Contexts PROVE Whole(g, d)
    <2>1. CASE d = c
      BY <2>1, <1>1 DEF Whole
    <2>2. CASE d # c
      BY <2>2, <1>1 DEF Kept, Whole
    <2> QED
      BY <2>1, <2>2
  <1>3. Kept(g)
    BY <1>1, <1>2 DEF Kept
  <1> QED
    BY <1>1, <1>3 DEF g

LEMMA BindKept ==
  ASSUME NEW f, Kept(f), NEW c \in Contexts, NEW b \in SUBSET Secrets
  PROVE  Kept(Bind(f, c, b)) /\ Bind(f, c, b).vals = f.vals
  <1> DEFINE g == Bind(f, c, b)
  <1>1. /\ g \in Files /\ g.intent = f.intent /\ g.known = f.known
        /\ g.vals = f.vals /\ g.kept = f.kept
    BY DEF Kept, Bind, Files
  <1> HIDE DEF g
  <1>2. Kept(g)
    BY <1>1 DEF Kept, Whole
  <1> QED
    BY <1>1, <1>2 DEF g

\* So may every one of its writes.
Safe(cmd) ==
  Len(cmd) \in Nat \ {0} /\ \A j \in 1 .. Len(cmd) : Kept(cmd[j])

LEMMA SafeOne ==
  ASSUME NEW f, Kept(f)
  PROVE  Safe(<<f>>)
  <1>1. Len(<<f>>) = 1 /\ <<f>>[1] = f
    OBVIOUS
  <1>2. \A j \in 1 .. 1 : j = 1
    OBVIOUS
  <1> QED
    BY <1>1, <1>2 DEF Safe

LEMMA RegisterKept ==
  ASSUME NEW f, Kept(f), NEW c \in Contexts
  PROVE  Kept(Register(f, c))
  <1> DEFINE g == Register(f, c)
  <1>1. /\ g \in Files /\ g.intent = f.intent
        /\ g.vals = f.vals /\ g.kept = f.kept
    BY DEF Kept, Files, Register
  <1> HIDE DEF g
  <1>2. Kept(g)
    BY <1>1 DEF Kept, Whole
  <1> QED
    BY <1>2 DEF g

LEMMA CreateContextSafe ==
  ASSUME NEW f, Kept(f), NEW c \in Contexts, NEW cmd \in CreateContext(f, c)
  PROVE  Safe(cmd)
  <1>1. cmd = <<Register(f, c)>>
    BY DEF CreateContext
  <1> QED
    BY <1>1, RegisterKept, SafeOne

LEMMA BindSafe ==
  ASSUME NEW f, Kept(f), NEW c \in Contexts,
         NEW cmd \in AttachSecret(f, c) \cup DetachSecret(f, c)
  PROVE  Safe(cmd)
  <1>1. /\ f.vals[c].index \subseteq Secrets
        /\ f.bound[c] \in SUBSET Secrets
    BY FileTypes, ValueTypes DEF Kept
  <1>2. CASE cmd \in AttachSecret(f, c)
    <2>1. PICK s \in f.vals[c].index :
            cmd = <<Register(Bind(f, c, f.bound[c] \cup {s}), c)>>
      BY <1>2 DEF AttachSecret
    <2>2. Kept(Bind(f, c, f.bound[c] \cup {s}))
      BY <1>1, BindKept
    <2> QED
      BY <2>1, <2>2, RegisterKept, SafeOne
  <1>3. CASE cmd \in DetachSecret(f, c)
    <2>1. PICK s \in f.bound[c] : cmd = <<Bind(f, c, f.bound[c] \ {s})>>
      BY <1>3 DEF DetachSecret
    <2> QED
      BY <1>1, <2>1, BindKept, SafeOne
  <1> QED
    BY <1>2, <1>3

LEMMA EnvSafe ==
  ASSUME NEW f, Kept(f), NEW c \in Contexts,
         NEW cmd \in SetEnv(f, c) \cup DeleteEnv(f, c)
  PROVE  Safe(cmd)
  <1>1. f.vals[c] \in Values
    BY FileTypes DEF Kept
  <1>2. PICK v \in Values : cmd = <<Keep(f, c, v)>>
    <2>1. CASE cmd \in SetEnv(f, c)
      <3>1. PICK e \in Envs :
              cmd = <<Keep(f, c, [f.vals[c] EXCEPT !.env = @ \cup {e}])>>
        BY <2>1 DEF SetEnv
      <3>2. [f.vals[c] EXCEPT !.env = @ \cup {e}] \in Values
        BY <1>1 DEF Values
      <3> QED
        BY <3>1, <3>2
    <2>2. CASE cmd \in DeleteEnv(f, c)
      <3>1. PICK e \in f.vals[c].env :
              cmd = <<Keep(f, c, [f.vals[c] EXCEPT !.env = @ \ {e}])>>
        BY <2>2 DEF DeleteEnv
      <3>2. [f.vals[c] EXCEPT !.env = @ \ {e}] \in Values
        BY <1>1 DEF Values
      <3> QED
        BY <3>1, <3>2
    <2> QED
      BY <2>1, <2>2
  <1> QED
    BY <1>2, KeepKept, SafeOne

LEMMA SetSecretSafe ==
  ASSUME NEW f, Kept(f), NEW c \in Contexts, NEW cmd \in SetSecret(f, c)
  PROVE  Safe(cmd)
  <1>1. f.vals[c] \in Values
    BY FileTypes DEF Kept
  <1>2. PICK s \in Secrets :
          cmd = LET stored == Keep(f, c, [f.vals[c] EXCEPT !.blob = @ \cup {s}])
                IN <<stored,
                     Keep(stored, c, [stored.vals[c] EXCEPT !.index = @ \cup {s}])>>
    BY DEF SetSecret
  <1> DEFINE v == [f.vals[c] EXCEPT !.blob = @ \cup {s}]
             stored == Keep(f, c, v)
             w == [stored.vals[c] EXCEPT !.index = @ \cup {s}]
             done == Keep(stored, c, w)
  <1>3. v \in Values
    BY <1>1 DEF Values
  <1> HIDE DEF v
  <1>4. Kept(stored) /\ stored.vals[c] = v
    BY <1>3, KeepKept
  <1>5. w \in Values
    BY <1>3, <1>4 DEF Values
  <1> HIDE DEF stored, w
  <1>6. Kept(done)
    BY <1>4, <1>5, KeepKept
  <1>7. cmd = <<stored, done>>
    BY <1>2 DEF stored, done, v, w
  <1> HIDE DEF done
  <1>8. Len(cmd) = 2 /\ cmd[1] = stored /\ cmd[2] = done
    BY <1>7
  <1>9. \A j \in 1 .. 2 : j = 1 \/ j = 2
    OBVIOUS
  <1> QED
    BY <1>4, <1>6, <1>8, <1>9 DEF Safe

LEMMA DeleteSecretSafe ==
  ASSUME NEW f, Kept(f), NEW c \in Contexts, NEW cmd \in DeleteSecret(f, c)
  PROVE  Safe(cmd)
  <1>1. f.vals[c] \in Values /\ f.bound[c] \in SUBSET Secrets
    BY FileTypes DEF Kept
  <1>2. PICK s \in f.vals[c].index :
          cmd = LET unbound == Bind(f, c, f.bound[c] \ {s})
                    gone == Keep(unbound, c, [f.vals[c] EXCEPT !.blob = @ \ {s}])
                IN <<unbound, gone,
                     Keep(gone, c, [gone.vals[c] EXCEPT !.index = @ \ {s}])>>
    BY DEF DeleteSecret
  <1> DEFINE unbound == Bind(f, c, f.bound[c] \ {s})
             v == [f.vals[c] EXCEPT !.blob = @ \ {s}]
             gone == Keep(unbound, c, v)
             w == [gone.vals[c] EXCEPT !.index = @ \ {s}]
             done == Keep(gone, c, w)
  <1>3. v \in Values /\ f.bound[c] \ {s} \in SUBSET Secrets
    BY <1>1 DEF Values
  <1>4. Kept(unbound)
    BY <1>3, BindKept
  <1> HIDE DEF v, unbound
  <1>5. Kept(gone) /\ gone.vals[c] = v
    BY <1>3, <1>4, KeepKept
  <1>6. w \in Values
    BY <1>3, <1>5 DEF Values
  <1> HIDE DEF gone, w
  <1>7. Kept(done)
    BY <1>5, <1>6, KeepKept
  <1>8. cmd = <<unbound, gone, done>>
    BY <1>2 DEF unbound, gone, done, v, w
  <1> HIDE DEF done
  <1>9. Len(cmd) = 3 /\ cmd[1] = unbound /\ cmd[2] = gone /\ cmd[3] = done
    BY <1>8
  <1>10. \A j \in 1 .. 3 : j = 1 \/ j = 2 \/ j = 3
    OBVIOUS
  <1> QED
    BY <1>4, <1>5, <1>7, <1>9, <1>10 DEF Safe

LEMMA CommandsSafe ==
  ASSUME NEW f, Kept(f), NEW c \in Contexts, NEW cmd \in Commands(f, c)
  PROVE  Safe(cmd)
  BY CreateContextSafe, BindSafe, EnvSafe, SetSecretSafe, DeleteSecretSafe
     DEF Commands

LEMMA MutateStep ==
  ASSUME CoreInv, NEW p \in Procs, Mutate(p)
  PROVE  CoreInv'
  <1> DEFINE c == proc[p].context
  <1>1. proc[p].pc = "mutate"
    BY DEF Mutate
  <1>2. /\ lock = p /\ c \in Contexts /\ Active(Disk, proc[p])
        /\ Disk \in Files /\ FileInv(Disk)
    BY <1>1, Holder
  <1>3. Kept(Disk)
    <2>1. Disk.intent = None
      BY <1>1, <1>2 DEF Active
    <2> QED
      BY <1>2, <2>1, NoIntentWhole DEF Kept
  <1>4. PICK cmd \in Commands(Disk, c) :
          \/ Write(cmd[Len(cmd)])
          \/ \E i \in 1 .. Len(cmd) - 1 : journal' = <<cmd[i]>> /\ Fault
          \/ Fails
    BY DEF Mutate
  <1>5. Safe(cmd)
    BY <1>2, <1>3, CommandsSafe
  <1>6. PICK f : /\ Kept(f) /\ (Fault \/ NoFault)
                 /\ \/ journal' = <<f>>
                    \/ journal' = Append(journal, f)
                    \/ journal' = journal /\ f = Disk
    <2>1. CASE Write(cmd[Len(cmd)])
      <3>1. Kept(cmd[Len(cmd)])
        BY <1>5 DEF Safe
      <3> QED
        BY <2>1, <3>1 DEF Write
    <2>2. CASE \E i \in 1 .. Len(cmd) - 1 : journal' = <<cmd[i]>> /\ Fault
      <3>1. PICK i \in 1 .. Len(cmd) - 1 : journal' = <<cmd[i]>> /\ Fault
        BY <2>2
      <3>2. Kept(cmd[i])
        BY <1>5 DEF Safe
      <3> QED
        BY <3>1, <3>2
    <2>3. CASE Fails
      BY <2>3, <1>3 DEF Fails
    <2> QED
      BY <1>4, <2>1, <2>2, <2>3
  <1>7. f \in Files /\ FileInv(f)
    BY <1>6, KeptInv
  <1>8. lock' = None /\ Becomes(p, Idle)
    BY DEF Mutate
  <1> QED
    BY <1>2, <1>6, <1>7, <1>8, IdleType, LockedStep

-----------------------------------------------------------------------------
(* All actions                                                             *)

LEMMA InitInv == Init => CoreInv
  <1> SUFFICES ASSUME Init PROVE CoreInv
    OBVIOUS
  <1> DEFINE f == [intent |-> None, known |-> [c \in Contexts |-> FALSE],
                   bound |-> [c \in Contexts |-> {}],
                   vals |-> [c \in Contexts |-> NoValues],
                   kept |-> [c \in Contexts |-> NoValues]]
  <1>1. journal = <<f>>
    BY DEF Init
  <1>2. NoValues \in Values
    BY DEF NoValues, Values
  <1>3. /\ f \in Files /\ f.intent = None
        /\ \A d \in Contexts : f.vals[d] = f.kept[d]
    BY <1>2 DEF Files
  <1> HIDE DEF f
  <1>4. FileInv(f)
    BY <1>3 DEF FileInv, Names, Whole
  <1>5. journal \in Seq(Files) /\ journal # << >> /\ DOMAIN journal = 1 .. 1
        /\ journal[1] = f
    BY <1>1, <1>3
  <1>6. Types
    BY <1>5, IdleType, FaultsAssumption DEF Init, Types
  <1>7. \A p \in Procs : proc[p].pc = "idle"
    BY IdleType DEF Init
  <1>8. \A i \in DOMAIN journal : FileInv(journal[i])
    BY <1>4, <1>5
  <1> QED
    BY <1>6, <1>7, <1>8 DEF CoreInv, LockInv, CheckedInv

LEMMA DeletesStep ==
  ASSUME CoreInv, NEW p \in Procs, Deletes(p)
  PROVE  CoreInv'
  BY SnapshotStep, InstallStep, SyncIntentStep, DeleteSecretValueStep,
     DeleteSecretEntryStep, DeleteEnvValuesStep, SaveConfigStep,
     RemoveContextDirStep, RemoveIntentStep, SyncRemovalStep,
     RewriteIntentStep, RestoreEnvStep, RestoreSecretValueStep,
     RestoreSecretEntryStep, RolledBackStep, EndsStep DEF Deletes

LEMMA CoreStep ==
  ASSUME CoreInv, [Next]_vars
  PROVE  CoreInv'
  <1>1. ASSUME NEW p \in Procs,
               \/ LockConfig(p) \/ Mutate(p) \/ MakeDirectory(p)
               \/ CommandEnds(p) \/ Deletes(p) \/ Crash(p)
        PROVE  CoreInv'
    BY <1>1, LockConfigStep, MutateStep, MakeDirectoryStep, CommandEndsStep,
       DeletesStep, CrashStep
  <1>2. ASSUME NEW p \in Procs, NEW c \in Contexts,
               StartCommand(p, c) \/ DeleteBegins(p, c)
        PROVE  CoreInv'
    BY <1>2, StartCommandStep, DeleteBeginsStep
  <1>3. CASE PowerLoss
    BY <1>3, PowerLossStep
  <1>4. CASE UNCHANGED vars
    BY <1>4 DEF vars, CoreInv, Types, LockInv, CheckedInv, Disk
  <1> QED
    BY <1>1, <1>2, <1>3, <1>4 DEF Next

-----------------------------------------------------------------------------
(* The directories                                                         *)

\* What a write leaves on disk.
LEMMA DiskIs ==
  ASSUME Types, NEW g \in Files,
         \/ journal' = <<g>>
         \/ journal' = Append(journal, g)
         \/ journal' = journal /\ g = Disk
  PROVE  Disk' = g
  <1>1. journal \in Seq(Files)
    BY DEF Types
  <1>2. CASE journal' = <<g>>
    BY <1>2 DEF Disk
  <1>3. CASE journal' = Append(journal, g)
    <2>1. Len(journal') = Len(journal) + 1 /\ journal'[Len(journal) + 1] = g
      BY <1>1, <1>3
    <2> QED
      BY <2>1 DEF Disk
  <1>4. CASE journal' = journal /\ g = Disk
    BY <1>4 DEF Disk
  <1> QED
    BY <1>2, <1>3, <1>4

\* The step is one of process p.
Only(p) == \A q \in Procs \ {p} : proc'[q] = proc[q]

LEMMA OnlyBecomes ==
  ASSUME CoreInv, NEW p \in Procs, NEW r, Becomes(p, r)
  PROVE  Only(p) /\ proc'[p] = r
  BY DEF CoreInv, Types, Becomes, Only

\* A step where nothing is owed.
LEMMA DirFree ==
  ASSUME DirInv, dir' = dir, \A c \in Contexts : dir[c] # "owed"
  PROVE  DirInv'
  BY DEF DirInv

\* A step that leaves the intent alone and does not begin to clear it.
LEMMA DirSame ==
  ASSUME DirInv, NEW p \in Procs, Only(p), dir' = dir,
         Disk'.intent = Disk.intent, ~Clears(proc'[p])
  PROVE  DirInv'
  <1>1. ASSUME NEW q \in Procs, Clears(proc'[q])
        PROVE  \A c \in Contexts : dir'[c] # "owed"
    <2>1. q # p
      BY <1>1
    <2> QED
      BY <1>1, <2>1 DEF DirInv, Only
  <1>2. \A c \in Contexts : dir'[c] = "owed" => Names(Disk', c)
    BY DEF DirInv, Names
  <1> QED
    BY <1>1, <1>2 DEF DirInv

\* Without an intent nothing is owed.
LEMMA NoIntentFree ==
  ASSUME DirInv, Disk.intent = None
  PROVE  \A c \in Contexts : dir[c] # "owed"
  BY DEF DirInv, Names

\* The steps of a process that may clear the intent.
LEMMA ClearingDir ==
  ASSUME DirInv, NEW p \in Procs,
         \/ Snapshot(p) \/ Install(p) \/ SyncIntent(p)
         \/ RemoveIntent(p) \/ SyncRemoval(p) \/ RewriteIntent(p)
         \/ RestoreEnv(p) \/ RestoreSecretValue(p) \/ RestoreSecretEntry(p)
         \/ RolledBack(p)
  PROVE  DirInv'
  <1>1. dir' = dir /\ Clears(proc[p])
    <2>1. CASE Snapshot(p)
      BY <2>1 DEF Snapshot, Clears
    <2>2. CASE Install(p)
      BY <2>2 DEF Install, Clears
    <2>3. CASE SyncIntent(p)
      BY <2>3 DEF SyncIntent, Clears
    <2>4. CASE RemoveIntent(p)
      BY <2>4 DEF RemoveIntent, Clears
    <2>5. CASE SyncRemoval(p)
      BY <2>5 DEF SyncRemoval, Clears
    <2>6. CASE RewriteIntent(p)
      BY <2>6 DEF RewriteIntent, Clears
    <2>7. CASE RestoreEnv(p)
      BY <2>7 DEF RestoreEnv, Clears
    <2>8. CASE RestoreSecretValue(p)
      <3>1. proc[p].pc = "restore" /\ dir' = dir
        BY <2>8 DEF RestoreSecretValue
      <3> QED
        BY <3>1 DEF Clears
    <2>9. CASE RestoreSecretEntry(p)
      BY <2>9 DEF RestoreSecretEntry, Clears
    <2>10. CASE RolledBack(p)
      BY <2>10 DEF RolledBack, Clears
    <2> QED
      BY <2>1, <2>2, <2>3, <2>4, <2>5, <2>6, <2>7, <2>8, <2>9, <2>10
  <1>2. \A c \in Contexts : dir[c] # "owed"
    BY <1>1 DEF DirInv
  <1> QED
    BY <1>1, <1>2, DirFree

\* A step of the deletion of the values: a first deletion owes nothing, and one
\* that is resumed stays so or ends.
LEMMA ValuesDir ==
  ASSUME CoreInv, DirInv, NEW p \in Procs,
         proc[p].pc \in {"secret", "index", "config"}, dir' = dir,
         NEW r, Becomes(p, r),
         proc[p].resuming => Disk'.intent = Disk.intent /\ ~Clears(r)
  PROVE  DirInv'
  <1>1. Only(p) /\ proc'[p] = r
    BY OnlyBecomes
  <1>2. CASE ~proc[p].resuming
    BY <1>2, DirFree DEF DirInv, Clears
  <1>3. CASE proc[p].resuming
    BY <1>1, <1>3, DirSame
  <1> QED
    BY <1>2, <1>3

LEMMA RollbackDir ==
  ASSUME CoreInv, DirInv, NEW p \in Procs, NEW r \in Proc, Rollback(p, r),
         proc[p].pc \in {"secret", "index", "config"}, dir' = dir,
         Disk'.intent = Disk.intent, r.resuming = proc[p].resuming
  PROVE  DirInv'
  <1>1. CASE ~r.resuming
    BY <1>1, DirFree DEF DirInv, Clears
  <1>2. CASE r.resuming
    <2> DEFINE t == [r EXCEPT !.pc = "report", !.result = "pending"]
    <2>1. Becomes(p, t) /\ t.pc = "report"
      BY <1>2 DEF Rollback, Proc
    <2> HIDE DEF t
    <2>2. ~Clears(t)
      BY <2>1 DEF Clears
    <2> QED
      BY <2>1, <2>2, ValuesDir
  <1> QED
    BY <1>1, <1>2

\* What the holder of the lock writes with the intent left alone.
LEMMA SameIntent ==
  ASSUME Types,
         \/ journal' = journal
         \/ \E g \in Files : /\ g.intent = Disk.intent
                             /\ journal' = <<g>> \/ journal' = Append(journal, g)
  PROVE  Disk'.intent = Disk.intent
  <1>1. CASE journal' = journal
    BY <1>1 DEF Disk
  <1>2. CASE journal' # journal
    BY <1>2, DiskIs
  <1> QED
    BY <1>1, <1>2

LEMMA DeleteSecretValueDir ==
  ASSUME CoreInv, DirInv, NEW p \in Procs, DeleteSecretValue(p)
  PROVE  DirInv'
  <1> DEFINE r == proc[p]
             c == r.context
             f == Disk
             v == f.vals[c]
  <1>1. r.pc = "secret" /\ dir' = dir
    BY DEF DeleteSecretValue
  <1>2. /\ r \in Proc /\ c \in Contexts /\ f \in Files /\ Types
        /\ v \in Values
    BY <1>1, Holder, FileTypes DEF CoreInv
  <1>3. PICK s \in r.todo :
          LET t == [r EXCEPT !.todo = @ \ {s}, !.tried = @ \cup {s}] IN
          \/ /\ s \notin v.index
             /\ Becomes(p, t) /\ UNCHANGED <<journal, faults>>
          \/ /\ s \in v.index \ v.blob
             /\ Becomes(p, [t EXCEPT !.pc = "index", !.cur = s, !.had = FALSE])
             /\ UNCHANGED <<journal, faults>>
          \/ /\ s \in v.index \cap v.blob
             /\ \/ /\ Write(Hold(f, c, [v EXCEPT !.blob = @ \ {s}]))
                   /\ Becomes(p, [t EXCEPT !.pc = "index", !.cur = s,
                                            !.had = TRUE])
                \/ Fails /\ Rollback(p, t)
    BY DEF DeleteSecretValue
  <1> DEFINE t == [r EXCEPT !.todo = @ \ {s}, !.tried = @ \cup {s}]
             w == [v EXCEPT !.blob = @ \ {s}]
             g == Hold(f, c, w)
             a == [t EXCEPT !.pc = "index", !.cur = s, !.had = FALSE]
             b == [t EXCEPT !.pc = "index", !.cur = s, !.had = TRUE]
  <1>4. /\ t \in Proc /\ t.pc = "secret" /\ t.resuming = r.resuming
        /\ s \in Secrets
    BY <1>1, <1>2 DEF Proc
  <1>5. w \in Values
    BY <1>2 DEF Values
  <1>6. g \in Files /\ g.intent = f.intent
    BY <1>2, <1>5, HoldIs
  <1>7. \/ Becomes(p, t) /\ UNCHANGED journal
        \/ Becomes(p, a) /\ UNCHANGED journal
        \/ Becomes(p, b) /\ Write(g)
        \/ Fails /\ Rollback(p, t)
    BY <1>3
  <1> HIDE DEF t, w, g
  <1>8. /\ a.pc = "index" /\ a.resuming = r.resuming
        /\ b.pc = "index" /\ b.resuming = r.resuming
    BY <1>4 DEF Proc
  <1> HIDE DEF a, b
  <1>9. Disk'.intent = Disk.intent
    BY <1>2, <1>6, <1>7, SameIntent DEF Write, Fails
  <1>10. CASE Fails /\ Rollback(p, t)
    BY <1>1, <1>4, <1>9, <1>10, RollbackDir
  <1>11. CASE Becomes(p, t)
    BY <1>1, <1>4, <1>9, <1>11, ValuesDir DEF Clears
  <1>12. CASE Becomes(p, a)
    BY <1>1, <1>8, <1>9, <1>12, ValuesDir DEF Clears
  <1>13. CASE Becomes(p, b)
    BY <1>1, <1>8, <1>9, <1>13, ValuesDir DEF Clears
  <1> QED
    BY <1>7, <1>10, <1>11, <1>12, <1>13

LEMMA DeleteSecretEntryDir ==
  ASSUME CoreInv, DirInv, NEW p \in Procs, DeleteSecretEntry(p)
  PROVE  DirInv'
  <1> DEFINE r == proc[p]
             c == r.context
             v == Disk.vals[c]
             w == [v EXCEPT !.index = @ \ {r.cur}]
             b == [v EXCEPT !.blob = @ \cup {r.cur}]
             t == [r EXCEPT !.pc = "secret"]
  <1>1. r.pc = "index" /\ dir' = dir
    BY DEF DeleteSecretEntry
  <1>2. /\ r \in Proc /\ c \in Contexts /\ Disk \in Files /\ Types
        /\ v \in Values /\ r.cur \in Secrets
    <2>1. /\ r \in Proc /\ c \in Contexts /\ Disk \in Files /\ Types
          /\ Active(Disk, r)
      BY <1>1, Holder DEF CoreInv
    <2>2. r.cur \in Secrets
      BY <1>1, <2>1 DEF Active, Proc
    <2> QED
      BY <2>1, <2>2, FileTypes
  <1>3. w \in Values /\ b \in Values
    BY <1>2 DEF Values
  <1>4. \/ Write(Hold(Disk, c, w)) /\ Becomes(p, t)
        \/ /\ journal' = <<Hold(Disk, c, b)>> \/ UNCHANGED journal
           /\ Rollback(p, r)
    BY DEF DeleteSecretEntry
  <1> HIDE DEF w, b
  <1>5. /\ Hold(Disk, c, w) \in Files /\ Hold(Disk, c, w).intent = Disk.intent
        /\ Hold(Disk, c, b) \in Files /\ Hold(Disk, c, b).intent = Disk.intent
    BY <1>2, <1>3, HoldIs
  <1>6. Disk'.intent = Disk.intent
    BY <1>2, <1>4, <1>5, SameIntent DEF Write
  <1>7. CASE Becomes(p, t)
    <2>1. t.pc = "secret" /\ t.resuming = r.resuming
      BY <1>2 DEF Proc
    <2> HIDE DEF t
    <2> QED
      BY <1>1, <1>6, <1>7, <2>1, ValuesDir DEF Clears
  <1>8. CASE Rollback(p, r)
    BY <1>1, <1>2, <1>6, <1>8, RollbackDir
  <1> QED
    BY <1>4, <1>7, <1>8

LEMMA DeleteEnvValuesDir ==
  ASSUME CoreInv, DirInv, NEW p \in Procs, DeleteEnvValues(p)
  PROVE  DirInv'
  <1> DEFINE r == proc[p]
             c == r.context
             v == Disk.vals[c]
             w == [v EXCEPT !.env = @ \ r.intent.envs]
             t == [r EXCEPT !.pc = "config"]
  <1>1. r.pc = "secret" /\ dir' = dir
    BY DEF DeleteEnvValues
  <1>2. /\ r \in Proc /\ c \in Contexts /\ Disk \in Files /\ Types
        /\ v \in Values
    BY <1>1, Holder, FileTypes DEF CoreInv
  <1>3. w \in Values
    BY <1>2 DEF Values
  <1>4. /\ Write(Hold(Disk, c, w)) \/ UNCHANGED journal
        /\ Becomes(p, t) \/ Rollback(p, r)
    BY DEF DeleteEnvValues, Fails
  <1> HIDE DEF w
  <1>5. Hold(Disk, c, w) \in Files /\ Hold(Disk, c, w).intent = Disk.intent
    BY <1>2, <1>3, HoldIs
  <1>6. Disk'.intent = Disk.intent
    BY <1>2, <1>4, <1>5, SameIntent DEF Write
  <1>7. CASE Becomes(p, t)
    <2>1. t.pc = "config" /\ t.resuming = r.resuming
      BY <1>2 DEF Proc
    <2> HIDE DEF t
    <2> QED
      BY <1>1, <1>6, <1>7, <2>1, ValuesDir DEF Clears
  <1>8. CASE Rollback(p, r)
    BY <1>1, <1>2, <1>6, <1>8, RollbackDir
  <1> QED
    BY <1>4, <1>7, <1>8

\* The directory becomes owed when its context is unregistered, and the intent on
\* disk names that context.
LEMMA SaveConfigDir ==
  ASSUME CoreInv, DirInv, NEW p \in Procs, SaveConfig(p)
  PROVE  DirInv'
  <1> DEFINE r == proc[p]
             c == r.context
             was == Disk.kept[c]
             now == [was EXCEPT !.env = @ \ r.intent.envs,
                                !.index = @ \ r.intent.secrets,
                                !.blob = @ \ r.intent.secrets]
             g == [Bind(Disk, c, {}) EXCEPT !.known[c] = FALSE, !.kept[c] = now]
             t == [r EXCEPT !.pc = "dir"]
             u == [r EXCEPT !.pc = "restoreEnv", !.result = "preserved"]
  <1>1. r.pc = "config"
    BY DEF SaveConfig
  <1>2. /\ r \in Proc /\ c \in Contexts /\ Disk \in Files /\ Types
        /\ lock = p /\ Active(Disk, r) /\ was \in Values
    BY <1>1, Holder, FileTypes DEF CoreInv
  <1>3. Disk.intent # None /\ Disk.intent.context = c
    BY <1>1, <1>2, IntentFields DEF Active, Owned, Named
  <1>4. now \in Values
    BY <1>2 DEF Values
  <1>5. \/ Write(g) /\ Owes(c) /\ Becomes(p, t)
        \/ UNCHANGED <<journal, dir>> /\ Becomes(p, t)
        \/ /\ UNCHANGED <<journal, dir>>
           /\ IF r.resuming THEN Rollback(p, r) ELSE Becomes(p, u)
    BY DEF SaveConfig, Fails
  <1> HIDE DEF now
  <1>6. g \in Files /\ g.intent = Disk.intent
    BY <1>2, <1>4 DEF Bind, Files
  <1>7. t.pc = "dir"
    BY <1>2 DEF Proc
  <1> HIDE DEF g, t, u
  <1>8. Disk'.intent = Disk.intent
    BY <1>2, <1>5, <1>6, SameIntent DEF Write
  <1>9. CASE Owes(c) /\ Becomes(p, t)
    <2>1. \A q \in Procs \ {p} : proc[q].pc \in {"idle", "checked"}
      BY <1>2, NoneAssumption DEF CoreInv, LockInv
    <2>2. Only(p) /\ proc'[p] = t
      BY <1>9, OnlyBecomes
    <2>3. \A q \in Procs : ~Clears(proc'[q])
      BY <1>7, <2>1, <2>2 DEF Only, Clears
    <2>4. dir' \in [Contexts -> Dirs]
      BY <1>2, <1>9 DEF DirInv, Owes, Dirs
    <2>5. ASSUME NEW d \in Contexts, dir'[d] = "owed" PROVE Names(Disk', d)
      <3>1. CASE d = c
        BY <1>3, <1>8, <3>1 DEF Names
      <3>2. CASE d # c
        <4>1. dir[d] = "owed"
          BY <1>9, <2>5, <3>2 DEF DirInv, Owes
        <4> QED
          BY <1>8, <4>1 DEF DirInv, Names
      <3> QED
        BY <3>1, <3>2
    <2> QED
      BY <2>3, <2>4, <2>5 DEF DirInv
  <1>10. CASE UNCHANGED dir /\ Becomes(p, t)
    BY <1>1, <1>7, <1>8, <1>10, ValuesDir DEF Clears
  <1>11. CASE UNCHANGED dir /\ r.resuming /\ Rollback(p, r)
    BY <1>1, <1>2, <1>8, <1>11, RollbackDir
  <1>12. CASE UNCHANGED dir /\ ~r.resuming /\ Becomes(p, u)
    BY <1>1, <1>12, DirFree DEF DirInv, Clears
  <1> QED
    BY <1>5, <1>9, <1>10, <1>11, <1>12

\* The intent is cleared only after the directory is gone.
LEMMA RemoveContextDirDir ==
  ASSUME CoreInv, DirInv, NEW p \in Procs, RemoveContextDir(p)
  PROVE  DirInv'
  <1> DEFINE r == proc[p]
             c == r.context
             u == [r EXCEPT !.pc = "report", !.result = "pending"]
  <1>1. r.pc = "dir" /\ journal' = journal
    BY DEF RemoveContextDir
  <1>2. r \in Proc /\ c \in Contexts /\ Active(Disk, r)
    BY <1>1, Holder
  <1>3. Disk.intent.context = c
    BY <1>1, <1>2 DEF Active, Owned, Named
  <1>4. CASE dir' = [dir EXCEPT ![c] = IF @ = "none" THEN @ ELSE "removed"]
    <2>1. dir' \in [Contexts -> Dirs] /\ dir'[c] # "owed"
      BY <1>2, <1>4 DEF DirInv, Dirs
    <2>2. \A d \in Contexts \ {c} : dir'[d] = dir[d] /\ dir[d] # "owed"
      BY <1>3, <1>4 DEF DirInv, Names
    <2>3. \A d \in Contexts : dir'[d] # "owed"
      BY <2>1, <2>2
    <2> QED
      BY <2>1, <2>3 DEF DirInv
  <1>5. CASE dir' = dir /\ Reports(p, "pending")
    <2>1. Becomes(p, u) /\ u.pc = "report"
      BY <1>2, <1>5 DEF Reports, Proc
    <2> HIDE DEF u
    <2>2. Disk'.intent = Disk.intent
      BY <1>1 DEF Disk
    <2> QED
      BY <1>5, <2>1, <2>2, OnlyBecomes, DirSame DEF Clears
  <1> QED
    BY <1>4, <1>5 DEF RemoveContextDir

\* The steps that change no file, and begin or end a command.
LEMMA CommandDir ==
  ASSUME CoreInv, DirInv, NEW p \in Procs,
         \/ LockConfig(p) \/ CommandEnds(p) \/ Ends(p) \/ Crash(p)
         \/ \E c \in Contexts : StartCommand(p, c) \/ DeleteBegins(p, c)
  PROVE  DirInv'
  <1>1. proc[p] \in Proc
    BY DEF CoreInv, Types
  <1>2. UNCHANGED <<journal, dir>>
    <2>1. CASE LockConfig(p) \/ CommandEnds(p) \/ Ends(p) \/ Crash(p)
      BY <2>1 DEF LockConfig, CommandEnds, Ends, Crash
    <2>2. ASSUME NEW c \in Contexts, StartCommand(p, c)
          PROVE  UNCHANGED <<journal, dir>>
      BY <2>2 DEF StartCommand
    <2>3. ASSUME NEW c \in Contexts, DeleteBegins(p, c)
          PROVE  UNCHANGED <<journal, dir>>
      BY <2>3 DEF DeleteBegins
    <2> QED
      BY <2>1, <2>2, <2>3
  <1>3. Disk'.intent = Disk.intent
    BY <1>2 DEF Disk
  <1>4. ASSUME NEW r, Becomes(p, r), ~Clears(r) PROVE DirInv'
    BY <1>2, <1>3, <1>4, OnlyBecomes, DirSame
  <1>5. CASE Becomes(p, Idle)
    BY <1>4, <1>5 DEF Idle, Clears
  <1>6. CASE Becomes(p, [proc[p] EXCEPT !.pc = "mutate"])
    <2>1. ~Clears([proc[p] EXCEPT !.pc = "mutate"])
      BY <1>1 DEF Proc, Clears
    <2> QED
      BY <1>4, <1>6, <2>1
  <1>7. ASSUME NEW c \in Contexts, StartCommand(p, c) PROVE DirInv'
    <2> DEFINE t == [proc[p] EXCEPT !.pc = "checked", !.context = c]
    <2>1. Becomes(p, t)
      BY <1>7 DEF StartCommand
    <2>2. ~Clears(t)
      BY <1>1 DEF Proc, Clears
    <2> HIDE DEF t
    <2> QED
      BY <1>4, <2>1, <2>2
  <1>8. ASSUME NEW c \in Contexts, DeleteBegins(p, c) PROVE DirInv'
    <2> DEFINE i == Disk.intent
               t == [Idle EXCEPT !.pc = "secret", !.context = c,
                       !.resuming = TRUE, !.intent = i,
                       !.todo = i.secrets, !.result = "ok"]
    <2>1. CASE i = None
      BY <1>2, <2>1, NoIntentFree, DirFree
    <2>2. CASE Becomes(p, t)
      <3>1. ~Clears(t)
        BY DEF Idle, Clears
      <3> QED
        BY <1>4, <2>2, <3>1
    <2> QED
      BY <1>8, <2>1, <2>2 DEF DeleteBegins
  <1> QED
    BY <1>5, <1>6, <1>7, <1>8 DEF LockConfig, CommandEnds, Ends, Crash

LEMMA MutateDir ==
  ASSUME CoreInv, DirInv, NEW p \in Procs, Mutate(p)
  PROVE  DirInv'
  <1>1. proc[p].pc = "mutate" /\ dir' = dir
    BY DEF Mutate
  <1>2. Disk.intent = None
    BY <1>1, Holder DEF Active
  <1> QED
    BY <1>1, <1>2, NoIntentFree, DirFree

LEMMA MakeDirectoryDir ==
  ASSUME CoreInv, DirInv, NEW p \in Procs, MakeDirectory(p)
  PROVE  DirInv'
  <1> DEFINE c == proc[p].context
  <1>1. c \in Contexts
    BY DEF MakeDirectory, CoreInv, CheckedInv
  <1>2. /\ dir' = [dir EXCEPT ![c] = "there"]
        /\ UNCHANGED <<journal, proc>>
    BY DEF MakeDirectory
  <1>3. /\ dir' \in [Contexts -> Dirs]
        /\ \A d \in Contexts : dir'[d] = "owed" => dir[d] = "owed"
    BY <1>1, <1>2 DEF DirInv, Dirs
  <1>4. Disk' = Disk /\ \A q : Clears(proc'[q]) <=> Clears(proc[q])
    BY <1>2 DEF Disk, Clears
  <1> QED
    BY <1>3, <1>4 DEF DirInv

\* What a power loss leaves of a deletion is owed only if its intent is left too.
LEMMA PowerLossDir ==
  ASSUME CoreInv, DirInv, PowerLoss
  PROVE  DirInv'
  <1>1. PICK i \in DOMAIN journal :
          /\ journal' = <<journal[i]>> /\ dir' \in [Contexts -> Dirs]
          /\ \A c \in Contexts : dir'[c] \in AfterPowerLoss(journal[i], c)
    BY DEF PowerLoss
  <1>2. Disk' = journal[i]
    BY <1>1 DEF Disk
  <1>3. ASSUME NEW c \in Contexts, dir'[c] = "owed" PROVE Names(Disk', c)
    <2>1. dir'[c] \in AfterPowerLoss(journal[i], c) /\ dir[c] \in Dirs
      BY <1>1 DEF DirInv
    <2> QED
      BY <1>2, <1>3, <2>1 DEF AfterPowerLoss, Dirs
  <1>4. \A q \in Procs : ~Clears(proc'[q])
    BY DEF PowerLoss, Idle, Clears
  <1> QED
    BY <1>1, <1>3, <1>4 DEF DirInv

LEMMA DirStep ==
  ASSUME CoreInv, DirInv, [Next]_vars
  PROVE  DirInv'
  <1>1. ASSUME NEW p \in Procs, Deletes(p) PROVE DirInv'
    BY <1>1, ClearingDir, DeleteSecretValueDir, DeleteSecretEntryDir,
       DeleteEnvValuesDir, SaveConfigDir, RemoveContextDirDir, CommandDir
       DEF Deletes
  <1>2. ASSUME NEW p \in Procs,
               \/ LockConfig(p) \/ Mutate(p) \/ MakeDirectory(p)
               \/ CommandEnds(p) \/ Crash(p)
               \/ \E c \in Contexts : StartCommand(p, c) \/ DeleteBegins(p, c)
        PROVE  DirInv'
    BY <1>2, MutateDir, MakeDirectoryDir, CommandDir
  <1>3. CASE PowerLoss
    BY <1>3, PowerLossDir
  <1>4. CASE UNCHANGED vars
    BY <1>4 DEF vars, DirInv, Disk, Names, Clears
  <1> QED
    BY <1>1, <1>2, <1>3, <1>4 DEF Next

-----------------------------------------------------------------------------
(* The theorems                                                            *)

LEMMA InitAll == Init => IndInv
  <1>1. Init => DirInv
    BY DEF Init, DirInv, Dirs, Idle, Clears
  <1> QED
    BY <1>1, InitInv DEF IndInv

LEMMA NextInv == IndInv /\ [Next]_vars => IndInv'
  BY CoreStep, DirStep DEF IndInv

\* Every step of a deletion, of another command, of a crash and of a power loss
\* keeps the inductive invariant: what the holder of the config lock knows of the
\* files, what an intent on disk says of its context, and that the intent is on
\* disk while a directory is still to be removed.
THEOREM Invariance == Spec => []IndInv
  BY InitAll, NextInv, PTL DEF Spec

\* The files, the lock, the processes and the count of faults keep their types.
THEOREM TypeCorrect == Spec => []TypeOK
  <1>1. IndInv => TypeOK
    BY DEF IndInv, CoreInv, Types, DirInv, TypeOK
  <1> QED
    BY <1>1, Invariance, PTL

\* However many writes fail, processes die and machines lose power, a context
\* whose values deleteContext has deleted in part is named by the intent that is
\* on disk, or that comes back with the files; and so is one that it unregistered
\* without removing the directory, whatever other commands make in there.
THEOREM PartialPending == Spec => []PartialIsPending
  <1>1. IndInv => PartialIsPending
    BY DEF IndInv, CoreInv, DirInv, FileInv, PartialIsPending, Range
  <1> QED
    BY <1>1, Invariance, PTL

\* What deleteContext tells the user is true: after "deleted" no value is left, in
\* files that a power loss does not take back, and no directory that is still to
\* be removed; "preserved" leaves the context as it was.
THEOREM ReportTrue == Spec => []ReportIsTrue
  <1>1. ASSUME IndInv PROVE ReportIsTrue
    <2> SUFFICES ASSUME NEW p \in Procs, proc[p].pc = "report"
                 PROVE
                   LET r == proc[p]
                       c == r.context
                   IN /\ r.result = "ok" =>
                           /\ journal = <<Disk>> /\ Disk.intent = None
                           /\ ~Disk.known[c] /\ dir[c] # "owed"
                           /\ Disk.vals[c].env = {}
                           /\ Disk.vals[c].index \cap r.intent.fingerprint = {}
                      /\ r.result = "preserved" =>
                           Disk.intent = None /\ Disk.known[c] /\ Whole(Disk, c)
      BY DEF ReportIsTrue
    <2> DEFINE r == proc[p]
               c == r.context
               f == Disk
    <2>1. Active(f, r) /\ (r.result = "ok" => journal = <<f>>)
      BY <1>1 DEF IndInv, CoreInv, LockInv
    <2> HIDE DEF f
    <2>2. CASE r.result = "ok"
      <3>1. /\ f.intent = None /\ Settled(f, r) /\ Named(r)
            /\ Pending(f, r.intent)
        BY <2>1, <2>2 DEF Active
      <3>2. ~f.known[c] /\ r.intent.context = c /\ c \in Contexts
        BY <3>1, <2>2 DEF Settled, Named
      <3>3. /\ f.vals[c].env = {}
            /\ f.vals[c].index \cap r.intent.fingerprint = {}
        BY <3>1, <3>2 DEF Pending, PendingOf
      <3>4. dir[c] # "owed"
        BY <1>1, <3>1, <3>2 DEF IndInv, DirInv, Names, f
      <3> QED
        BY <2>1, <2>2, <3>1, <3>2, <3>3, <3>4 DEF f
    <2>3. CASE r.result = "preserved"
      BY <2>1, <2>3 DEF Active, Settled, f
    <2> QED
      BY <2>2, <2>3
  <1> QED
    BY <1>1, Invariance, PTL
=============================================================================
