----------------------- MODULE ContainerLifecycleProof ------------------------
(***************************************************************************)
(* Proofs about ContainerLifecycle, for every set of clients, every policy *)
(* and every bound.                                                        *)
(***************************************************************************)
EXTENDS ContainerLifecycle, FiniteSetTheorems, TLAPS

-----------------------------------------------------------------------------
(* The inductive invariant.                                                *)

\* Records the commands build: only a setup command sends a policy.
Sendable ==
  {r \in Record : r.state \in Policies => r.timeout \in Timeouts \cup {Invalid}}

MonitorTypes ==
  [timeout : Timeouts, armed : BOOLEAN,
   protected : SUBSET Clients, stopping : BOOLEAN]

OwnerTypes ==
  [closed : BOOLEAN, clients : SUBSET Clients, other : Int,
   byUID : [Uids -> Int], byPID : [Pids -> Int]]

SessionTypes ==
  [pc : {"none", "scan", "apply", "ack", "remove", "release", "done"},
   rec : Sendable, shared : BOOLEAN, protected : BOOLEAN,
   applied : Sendable, err : BOOLEAN]

ClientTypes ==
  [pc : {"idle", "connected", "sending", "work", "settled", "gone"},
   rec : Sendable]

LoopTypes ==
  [pc : {"check", "commit", "leave", "join", "returned"},
   ctx : {"live", "canceled", "failed"},
   serve : {"serving", "failed"},
   result : {"none", "nil", "error", "ErrInactivityExpired"}]

\* TypeOK with what Apply relies on, and without the signs of the counters,
\* which depend on SlotsAreExact.
Types ==
  /\ monitor \in MonitorTypes
  /\ age \in 0 .. LongestTimeout
  /\ quiet \in 0 .. LongestTimeout
  /\ owner \in OwnerTypes
  /\ session \in [Clients -> SessionTypes]
  /\ conn \in [Clients -> {"none", "backlog", "open", "closed"}]
  /\ inbox \in [Clients -> Seq(Sendable)]
  /\ acks \in [Clients -> Seq([seq : Nat, err : BOOLEAN])]
  /\ client \in [Clients -> ClientTypes]
  /\ faults \in 0 .. MaxFaults
  /\ alive \in [Pids -> BOOLEAN]
  /\ loop \in LoopTypes

\* The idle interval never started before the container became idle.
TimerInv ==
  /\ monitor.armed <=> monitor.timeout > 0
  /\ monitor.armed /\ monitor.protected = {} => age <= quiet

\* The expiry that ended the loop stays true: Apply is rejected from then on.
ExpiryInv ==
  loop.result = "ErrInactivityExpired" =>
    /\ loop.pc \notin {"check", "commit"}
    /\ monitor.stopping
    /\ monitor.protected = {}
    /\ quiet >= monitor.timeout /\ monitor.timeout > 0

\* What the client has sent: setup or activity first, then what ends it.
ClientInv(c) ==
  /\ client[c].pc \notin {"idle", "gone"} =>
       /\ alive[PidOf[c]]
       /\ c \in Setups => client[c].rec.timeout \in Timeouts \cup {Invalid}
  /\ client[c].rec.state \in Policies => c \in Setups
  /\ client[c].pc \in {"idle", "connected"} => client[c].rec.seq = 0
  /\ client[c].pc \in {"sending", "work"} /\ client[c].rec.seq <= 1 =>
       client[c].rec.seq = 1 /\ client[c].rec.state \in {"setup", "activity"}
  /\ client[c].pc = "sending" /\ client[c].rec.seq > 1 =>
       client[c].rec.state \in {"ready", "failed", "release"}
  /\ client[c].pc = "work" => client[c].rec.seq = 1
  /\ client[c].pc = "settled" => client[c].rec.seq > 1 /\ c \in Setups

\* What the owner knows of a session, and where it has nothing to know yet.
SessionInv(c) ==
  /\ c \in owner.clients =>
       /\ session[c].pc \in {"scan", "apply", "ack", "remove"}
       /\ conn[c] \in {"open", "closed"}
  /\ conn[c] \in {"none", "backlog"} => session[c] = NoSession
  /\ client[c].pc = "idle" => conn[c] = "none"
  /\ client[c].pc \in {"idle", "connected"} =>
       /\ inbox[c] = <<>> /\ acks[c] = <<>>
       /\ session[c].pc \notin {"apply", "ack"}
       /\ session[c].applied = NoRecord
  /\ /\ ~owner.closed /\ client[c].pc \notin {"idle", "gone"}
     /\ session[c].pc \in {"scan", "apply", "ack"}
     => c \in owner.clients /\ conn[c] = "open"
  /\ c \in monitor.protected => session[c].pc \notin {"none", "done"}

\* The client waits for its first acknowledgement or works under it.
First(c) ==
  /\ ~owner.closed
  /\ client[c].pc \in {"sending", "work"} /\ client[c].rec.seq = 1

\* All that is under way for such a client is its first record, and once that
\* was applied its session is protected and nothing removes it.
FirstInv(c) ==
  First(c) =>
    /\ \A i \in 1 .. Len(inbox[c]) : inbox[c][i] = client[c].rec
    /\ session[c].pc = "apply" => session[c].rec = client[c].rec
    /\ session[c].applied \in {NoRecord, client[c].rec}
    /\ session[c].pc = "apply" \/ session[c].applied # NoRecord =>
         /\ Authorized(c, client[c].rec)
         /\ ~NeedsSlot(c, client[c].rec)
    /\ session[c].applied # NoRecord /\ ~session[c].err =>
         /\ session[c].pc \in {"scan", "apply", "ack"}
         /\ session[c].protected
         /\ c \in monitor.protected
         /\ ~monitor.stopping
    /\ \A i \in 1 .. Len(acks[c]) :
         acks[c][i].seq = 1 /\ ~acks[c][i].err =>
           session[c].applied # NoRecord /\ ~session[c].err
    /\ client[c].pc = "work" =>
         session[c].applied # NoRecord /\ ~session[c].err

IndInv ==
  /\ Types
  /\ TimerInv /\ ExpiryInv
  /\ \A c \in Clients : ClientInv(c) /\ SessionInv(c) /\ FirstInv(c)

-----------------------------------------------------------------------------
(* Facts about the constants and the records.                              *)

\* LongestTimeout is the largest of the timeouts.
LEMMA LongestFacts ==
  /\ LongestTimeout \in Timeouts
  /\ LongestTimeout \in Nat
  /\ \A t \in Timeouts : t <= LongestTimeout
BY TimeoutsAssumption DEF LongestTimeout

\* Fault stays within its bound.
LEMMA FaultBound ==
  ASSUME faults \in 0 .. MaxFaults, Fault
  PROVE  faults' \in 0 .. MaxFaults
BY BoundsAssumption DEF Fault

\* The absent record has the type of the others.
LEMMA NoRecordSendable == NoRecord \in Sendable
BY DEF NoRecord, Sendable, Record, States, Policies

\* Release and Apply keep the types of the monitor and the clocks.
LEMMA ProtectTypes ==
  ASSUME Types, NEW m, NEW clients, NEW reset \in BOOLEAN,
         m \in MonitorTypes,
         clients \subseteq Clients, Protect(m, clients, reset)
  PROVE  /\ monitor' \in MonitorTypes
         /\ age' \in 0 .. LongestTimeout
         /\ quiet' \in 0 .. LongestTimeout
         /\ monitor'.protected = clients
         /\ monitor'.timeout = m.timeout
         /\ monitor'.armed = m.armed
         /\ monitor'.stopping = m.stopping
         /\ age' = IF reset THEN 0 ELSE age
         /\ quiet' = IF clients # {} THEN 0 ELSE quiet
<1>1. age \in 0 .. LongestTimeout /\ quiet \in 0 .. LongestTimeout
  BY DEF Types
<1>2. /\ monitor' = [m EXCEPT !.protected = clients]
      /\ age' = IF reset THEN 0 ELSE age
      /\ quiet' = IF clients # {} THEN 0 ELSE quiet
  BY DEF Protect
<1>3. age' \in 0 .. LongestTimeout /\ quiet' \in 0 .. LongestTimeout
  BY <1>1, <1>2, LongestFacts
<1> QED BY <1>2, <1>3 DEF MonitorTypes

\* LifecycleMonitor.Release forgets the clients and restarts the idle interval
\* if one of them was protected.
LEMMA ReleaseFacts ==
  ASSUME Types, NEW S, S \subseteq Clients, Release(S)
  PROVE  /\ monitor' \in MonitorTypes
         /\ age' \in 0 .. LongestTimeout
         /\ quiet' \in 0 .. LongestTimeout
         /\ monitor'.protected = monitor.protected \ S
         /\ monitor'.timeout = monitor.timeout
         /\ monitor'.armed = monitor.armed
         /\ monitor'.stopping = monitor.stopping
         /\ age' = IF S \cap monitor.protected # {} THEN 0 ELSE age
         /\ quiet' = IF monitor'.protected # {} THEN 0 ELSE quiet
<1> DEFINE reset == S \cap monitor.protected # {}
<1>1. reset \in BOOLEAN
  OBVIOUS
<1>2. Protect(monitor, monitor.protected \ S, reset)
  BY DEF Release
<1>3. /\ monitor \in MonitorTypes
      /\ monitor.protected \ S \subseteq Clients
  BY DEF Types, MonitorTypes
<1> HIDE DEF reset
<1>4. /\ monitor' \in MonitorTypes
      /\ age' \in 0 .. LongestTimeout
      /\ quiet' \in 0 .. LongestTimeout
      /\ monitor'.protected = monitor.protected \ S
      /\ monitor'.timeout = monitor.timeout
      /\ monitor'.armed = monitor.armed
      /\ monitor'.stopping = monitor.stopping
      /\ age' = IF reset THEN 0 ELSE age
      /\ quiet' = IF monitor.protected \ S # {} THEN 0 ELSE quiet
  BY <1>1, <1>2, <1>3, ProtectTypes
<1> QED BY <1>4 DEF reset

\* A policy that is not rejected arms the timer exactly if it is positive.
LEMMA PolicyFacts ==
  ASSUME Types, TimerInv, NEW rec \in Sendable, ~Rejects(rec), NEW m,
         m = Policy(rec)
  PROVE  /\ m \in MonitorTypes
         /\ m.protected = monitor.protected
         /\ m.stopping = monitor.stopping
         /\ m.armed <=> m.timeout > 0
         /\ rec.state \notin Policies => m = monitor
<1>1. monitor \in MonitorTypes
  BY DEF Types
<1>2. CASE rec.state \in Policies
  <2>1. rec.timeout \in Timeouts
    BY <1>2 DEF Sendable, Rejects
  <2>2. m = [monitor EXCEPT !.timeout = rec.timeout, !.armed = rec.timeout > 0]
    BY <1>2 DEF Policy
  <2>3. m.timeout = rec.timeout /\ m.armed = (rec.timeout > 0)
    BY <1>1, <2>2
  <2>4. (rec.timeout > 0) \in BOOLEAN
    OBVIOUS
  <2> HIDE DEF Policy
  <2>5. /\ m \in MonitorTypes
        /\ m.protected = monitor.protected
        /\ m.stopping = monitor.stopping
    BY <1>1, <2>1, <2>2, <2>4 DEF MonitorTypes
  <2> QED BY <1>2, <2>3, <2>5
<1>3. CASE rec.state \notin Policies
  BY <1>1, <1>3 DEF Policy, TimerInv
<1> QED BY <1>2, <1>3

\* LifecycleMonitor.Apply changes the protection of its own client only.
LEMMA ApplyFacts ==
  ASSUME Types, TimerInv, NEW c \in Clients, NEW rec \in Sendable,
         Apply(c, rec)
  PROVE  /\ monitor' \in MonitorTypes
         /\ age' \in 0 .. LongestTimeout
         /\ quiet' \in 0 .. LongestTimeout
         /\ TimerInv'
         /\ monitor'.stopping = monitor.stopping
         /\ Rejects(rec) => UNCHANGED <<monitor, age, quiet>>
         /\ ~Rejects(rec) => 
              monitor'.protected =
                IF rec.state \in {"setup", "activity"}
                  THEN monitor.protected \cup {c} ELSE monitor.protected \ {c}
<1>1. /\ monitor \in MonitorTypes
      /\ age \in 0 .. LongestTimeout
      /\ quiet \in 0 .. LongestTimeout
  BY DEF Types
<1>2. CASE Rejects(rec)
  BY <1>1, <1>2 DEF Apply, time, TimerInv
<1>3. CASE ~Rejects(rec)
  <2> DEFINE m == Policy(rec)
  <2>1. /\ m \in MonitorTypes
        /\ m.protected = monitor.protected
        /\ m.stopping = monitor.stopping
        /\ m.armed <=> m.timeout > 0
        /\ rec.state \notin Policies => m = monitor
    BY <1>3, PolicyFacts
  <2>2. CASE rec.state \in {"setup", "activity"}
    <3>1. Protect(m, monitor.protected \cup {c}, FALSE)
      BY <1>3, <2>2 DEF Apply
    <3>2. monitor.protected \cup {c} \subseteq Clients
      BY <1>1 DEF MonitorTypes
    <3> HIDE DEF m
    <3>3. /\ monitor' \in MonitorTypes
          /\ age' \in 0 .. LongestTimeout
          /\ quiet' \in 0 .. LongestTimeout
          /\ monitor'.protected = monitor.protected \cup {c}
          /\ monitor'.timeout = m.timeout
          /\ monitor'.armed = m.armed
          /\ monitor'.stopping = m.stopping
      BY <2>1, <3>1, <3>2, ProtectTypes
    <3> QED BY <1>3, <2>1, <2>2, <3>3 DEF TimerInv
  <2>3. CASE rec.state = "release"
    <3>1. Release({c})
      BY <1>3, <2>3 DEF Apply
    <3>2. /\ monitor' \in MonitorTypes
          /\ age' \in 0 .. LongestTimeout
          /\ quiet' \in 0 .. LongestTimeout
          /\ monitor'.protected = monitor.protected \ {c}
          /\ monitor'.timeout = monitor.timeout
          /\ monitor'.armed = monitor.armed
          /\ monitor'.stopping = monitor.stopping
          /\ age' = IF {c} \cap monitor.protected # {} THEN 0 ELSE age
          /\ quiet' = IF monitor'.protected # {} THEN 0 ELSE quiet
      BY <3>1, ReleaseFacts
    <3>3. TimerInv'
      BY <1>1, <3>2 DEF TimerInv, MonitorTypes
    <3> QED BY <1>3, <2>3, <3>2, <3>3
  <2>4. CASE rec.state \notin {"setup", "activity", "release"}
    <3>1. Protect(m, monitor.protected \ {c}, TRUE)
      BY <1>3, <2>4 DEF Apply
    <3>2. monitor.protected \ {c} \subseteq Clients
      BY <1>1 DEF MonitorTypes
    <3> HIDE DEF m
    <3>3. /\ monitor' \in MonitorTypes
          /\ age' \in 0 .. LongestTimeout
          /\ quiet' \in 0 .. LongestTimeout
          /\ monitor'.protected = monitor.protected \ {c}
          /\ monitor'.timeout = m.timeout
          /\ monitor'.armed = m.armed
          /\ monitor'.stopping = m.stopping
          /\ age' = 0
      BY <2>1, <3>1, <3>2, ProtectTypes
    <3> QED BY <1>3, <2>1, <2>4, <3>3, LongestFacts DEF TimerInv
  <2> QED BY <2>2, <2>3, <2>4
<1> QED BY <1>2, <1>3

-----------------------------------------------------------------------------
(* The counters of the owner.                                              *)

\* Sets of clients have a cardinality.
LEMMA CountIsInt ==
  ASSUME NEW S, S \subseteq Clients
  PROVE  IsFiniteSet(S) /\ Cardinality(S) \in Nat
BY ClientsAssumption, FS_Subset, FS_CardinalityType

\* countClient adds the client to the counters it belongs to.
LEMMA CountedFacts ==
  ASSUME Types, NEW c \in Clients, NEW shared, shared \subseteq {c},
         owner' = Counted({c}, shared)
  PROVE  /\ owner' \in OwnerTypes
         /\ owner'.closed = owner.closed
         /\ owner'.clients = owner.clients \cup {c}
         /\ owner'.other = owner.other + Cardinality(shared)
         /\ \A u \in Uids : owner'.byUID[u] = owner.byUID[u] +
              Cardinality({d \in {c} \ Privileged : UidOf[d] = u})
         /\ \A p \in Pids : owner'.byPID[p] = owner.byPID[p] +
              Cardinality({d \in {c} \ Privileged : PidOf[d] = p})
<1>1. owner \in OwnerTypes
  BY DEF Types
<1>2. Cardinality(shared) \in Int
  BY CountIsInt
<1> DEFINE U(u) == Cardinality({d \in {c} \ Privileged : UidOf[d] = u})
           P(p) == Cardinality({d \in {c} \ Privileged : PidOf[d] = p})
<1>3. \A u \in Uids : U(u) \in Int
  BY CountIsInt
<1>4. \A p \in Pids : P(p) \in Int
  BY CountIsInt
<1>5. owner' = [owner EXCEPT !.clients = owner.clients \cup {c},
             !.other = owner.other + Cardinality(shared),
             !.byUID = [u \in Uids |-> owner.byUID[u] + U(u)],
             !.byPID = [p \in Pids |-> owner.byPID[p] + P(p)]]
  BY DEF Counted
<1> HIDE DEF U, P
<1> DEFINE n == owner.other + Cardinality(shared)
           f == [u \in Uids |-> owner.byUID[u] + U(u)]
           g == [p \in Pids |-> owner.byPID[p] + P(p)]
<1>6. n \in Int /\ f \in [Uids -> Int] /\ g \in [Pids -> Int]
  BY <1>1, <1>2, <1>3, <1>4 DEF OwnerTypes
<1>7. /\ owner' \in OwnerTypes
      /\ owner'.closed = owner.closed
      /\ owner'.clients = owner.clients \cup {c}
      /\ owner'.other = n /\ owner'.byUID = f /\ owner'.byPID = g
  <2>1. owner' = [owner EXCEPT !.clients = owner.clients \cup {c},
                    !.other = n, !.byUID = f, !.byPID = g]
    BY <1>5
  <2>2. owner.clients \cup {c} \subseteq Clients
    BY <1>1 DEF OwnerTypes
  <2> HIDE DEF n, f, g
  <2> QED BY <1>1, <1>6, <2>1, <2>2 DEF OwnerTypes
<1> QED BY <1>7 DEF U, P

\* removeClientLocked subtracts exactly the clients that were present.
LEMMA UncountedFacts ==
  ASSUME Types, NEW S, S \subseteq Clients, NEW o, o = Uncounted(S)
  PROVE  /\ o \in OwnerTypes
         /\ o.closed = owner.closed
         /\ o.clients = owner.clients \ S
         /\ o.other = owner.other -
              Cardinality({c \in S \cap owner.clients : session[c].shared})
         /\ \A u \in Uids : o.byUID[u] = owner.byUID[u] -
              Cardinality({d \in (S \cap owner.clients) \ Privileged :
                             UidOf[d] = u})
         /\ \A p \in Pids : o.byPID[p] = owner.byPID[p] -
              Cardinality({d \in (S \cap owner.clients) \ Privileged :
                             PidOf[d] = p})
<1>1. owner \in OwnerTypes
  BY DEF Types
<1> DEFINE N == Cardinality({c \in S \cap owner.clients : session[c].shared})
           U(u) == Cardinality({d \in (S \cap owner.clients) \ Privileged :
                                  UidOf[d] = u})
           P(p) == Cardinality({d \in (S \cap owner.clients) \ Privileged :
                                  PidOf[d] = p})
<1>2. N \in Int
  BY CountIsInt
<1>3. \A u \in Uids : U(u) \in Int
  BY CountIsInt
<1>4. \A p \in Pids : P(p) \in Int
  BY CountIsInt
<1>5. o = [owner EXCEPT !.clients = owner.clients \ (S \cap owner.clients),
             !.other = owner.other - N,
             !.byUID = [u \in Uids |-> owner.byUID[u] - U(u)],
             !.byPID = [p \in Pids |-> owner.byPID[p] - P(p)]]
  BY DEF Uncounted
<1> HIDE DEF N, U, P
<1>6. /\ [u \in Uids |-> owner.byUID[u] - U(u)] \in [Uids -> Int]
      /\ [p \in Pids |-> owner.byPID[p] - P(p)] \in [Pids -> Int]
      /\ owner.other - N \in Int
  BY <1>1, <1>2, <1>3, <1>4 DEF OwnerTypes
<1>7. /\ o \in OwnerTypes
      /\ o.closed = owner.closed
      /\ o.clients = owner.clients \ S
      /\ o.other = owner.other - N
      /\ o.byUID = [u \in Uids |-> owner.byUID[u] - U(u)]
      /\ o.byPID = [p \in Pids |-> owner.byPID[p] - P(p)]
  BY <1>1, <1>5, <1>6 DEF OwnerTypes
<1> QED BY <1>7 DEF N, U, P

\* Owner.Close touches the connections and not the counters.
LEMMA CloseFacts ==
  ASSUME Types, CloseOwner
  PROVE  /\ owner' \in OwnerTypes
         /\ owner'.closed
         /\ owner'.clients = owner.clients
         /\ owner'.other = owner.other
         /\ owner'.byUID = owner.byUID
         /\ owner'.byPID = owner.byPID
         /\ conn' \in [Clients -> {"none", "backlog", "open", "closed"}]
         /\ \A c \in Clients : conn'[c] =
              IF c \in owner.clients \/ conn[c] = "backlog" THEN "closed"
              ELSE conn[c]
BY DEF CloseOwner, Types, OwnerTypes

\* A session that only moves on.
LEMMA SessionMoves ==
  ASSUME Types, NEW c \in Clients,
         NEW l \in {"scan", "apply", "ack", "remove", "release"},
         session' = [session EXCEPT ![c].pc = l]
  PROVE  session' \in [Clients -> SessionTypes]
<1>1. session \in [Clients -> SessionTypes] /\ session[c] \in SessionTypes
  BY DEF Types
<1>2. session' = [session EXCEPT ![c] = [session[c] EXCEPT !.pc = l]]
  BY <1>1
<1>3. [session[c] EXCEPT !.pc = l] \in SessionTypes
  BY <1>1 DEF SessionTypes
<1> QED BY <1>1, <1>2, <1>3

\* LifecycleClient.Close keeps the types.
LEMMA HangupFacts ==
  ASSUME Types, NEW c \in Clients, Hangup(c)
  PROVE  /\ client' \in [Clients -> ClientTypes]
         /\ acks' \in [Clients -> Seq([seq : Nat, err : BOOLEAN])]
         /\ conn' \in [Clients -> {"none", "backlog", "open", "closed"}]
<1>1. Gone \in ClientTypes
  BY NoRecordSendable DEF Gone, NoClient, ClientTypes
<1> QED BY <1>1 DEF Hangup, Types

-----------------------------------------------------------------------------
(* Every step keeps the types.                                             *)

\* Every step keeps the types.
LEMMA TypesStep ==
  ASSUME Types, TimerInv, \A c \in Clients : ClientInv(c), Next
  PROVE  Types'
<1> USE DEF daemon, time
<1>1. ASSUME NEW c \in Clients, AddClient(c)
      PROVE  Types'
  <2>1. CASE CanAdmit(c) /\ alive[PidOf[c]]
    <3> DEFINE shared == IF c \notin Privileged THEN {c} ELSE {}
    <3>1. owner' = Counted({c}, shared)
      BY <1>1, <2>1 DEF AddClient
    <3>2. owner' \in OwnerTypes
      <4> HIDE DEF shared
      <4>1. shared \subseteq {c} BY DEF shared
      <4> QED BY <3>1, <4>1, CountedFacts
    <3>3. /\ session' = [session EXCEPT ![c] =
                [NoSession EXCEPT !.pc = "scan", !.shared = c \notin Privileged]]
          /\ conn' = [conn EXCEPT ![c] = "open"]
          /\ UNCHANGED <<monitor, age, quiet, inbox, acks, client, alive, loop, faults>>
      BY <1>1, <2>1 DEF AddClient
    <3>4. session' \in [Clients -> SessionTypes]
      BY <3>3, NoRecordSendable DEF Types, SessionTypes, NoSession
    <3> QED BY <3>2, <3>3, <3>4 DEF Types
  <2>2. CASE ~(CanAdmit(c) /\ alive[PidOf[c]])
    BY <1>1, <2>2 DEF AddClient, Types
  <2> QED BY <2>1, <2>2
<1>2. ASSUME NEW c \in Clients, Receive(c)
      PROVE  Types'
  <2> DEFINE rec == Head(inbox[c])
  <2>1. rec \in Sendable /\ Tail(inbox[c]) \in Seq(Sendable)
    BY <1>2 DEF Receive, Types
  <2>2. session' \in [Clients -> SessionTypes]
    <3> HIDE DEF rec
    <3>1. NeedsSlot(c, rec) \in BOOLEAN
      BY DEF NeedsSlot
    <3>2. CASE Accepts(c, rec)
      <4> DEFINE b == session[c].shared \/ NeedsSlot(c, rec)
      <4>1. session' = [session EXCEPT ![c].pc = "apply", ![c].rec = rec,
                          ![c].shared = b]
        BY <1>2, <3>2 DEF Receive, rec
      <4>2. b \in BOOLEAN
        BY <3>1 DEF Types, SessionTypes
      <4> HIDE DEF b
      <4>3. session \in [Clients -> SessionTypes] /\ session[c] \in SessionTypes
        BY DEF Types
      <4>4. session' = [session EXCEPT ![c] =
                [session[c] EXCEPT !.pc = "apply", !.rec = rec, !.shared = b]]
        BY <4>1, <4>3
      <4>5. [session[c] EXCEPT !.pc = "apply", !.rec = rec, !.shared = b]
              \in SessionTypes
        BY <2>1, <4>2, <4>3 DEF SessionTypes
      <4> QED BY <4>3, <4>4, <4>5
    <3>3. CASE ~Accepts(c, rec)
      <4>1. session' = [session EXCEPT ![c].pc = "remove"]
        BY <1>2, <3>3 DEF Receive, rec
      <4> QED BY <4>1, SessionMoves
    <3> QED BY <3>2, <3>3
  <2>3. owner' \in OwnerTypes
    <3> HIDE DEF rec
    <3>1. owner \in OwnerTypes
      BY DEF Types
    <3>2. \/ owner' = [owner EXCEPT !.other = owner.other + 1]
          \/ owner' = [owner EXCEPT !.other = owner.other]
          \/ owner' = owner
      BY <1>2 DEF Receive, rec
    <3> QED BY <3>1, <3>2 DEF OwnerTypes
  <2>4. inbox' \in [Clients -> Seq(Sendable)]
    BY <1>2, <2>1 DEF Receive, Types
  <2> QED BY <1>2, <2>2, <2>3, <2>4 DEF Receive, Types
<1>3. ASSUME NEW c \in Clients, ApplyOperation(c)
      PROVE  Types'
  <2> DEFINE rec == session[c].rec
  <2>1. rec \in Sendable
    BY DEF Types, SessionTypes
  <2>2. /\ monitor' \in MonitorTypes
        /\ age' \in 0 .. LongestTimeout
        /\ quiet' \in 0 .. LongestTimeout
    <3>1. UNCHANGED <<monitor, age, quiet>> \/ Apply(c, rec)
      BY <1>3 DEF ApplyOperation
    <3> HIDE DEF rec
    <3>2. CASE UNCHANGED <<monitor, age, quiet>>
      BY <3>2 DEF Types
    <3>3. CASE Apply(c, rec)
      BY <2>1, <3>3, ApplyFacts
    <3> QED BY <3>1, <3>2, <3>3
  <2>3. session' \in [Clients -> SessionTypes]
    <3>1. session[c].protected \in BOOLEAN /\ session \in [Clients -> SessionTypes]
      BY DEF Types, SessionTypes
    <3>2. CASE Repeated(c)
      <4>1. session' = [session EXCEPT ![c].pc = "ack", ![c].rec = NoRecord]
        BY <1>3, <3>2 DEF ApplyOperation
      <4>2. session' = [session EXCEPT ![c] =
                [session[c] EXCEPT !.pc = "ack", !.rec = NoRecord]]
        BY <3>1, <4>1
      <4>3. [session[c] EXCEPT !.pc = "ack", !.rec = NoRecord] \in SessionTypes
        BY <3>1, NoRecordSendable DEF SessionTypes
      <4> QED BY <3>1, <4>2, <4>3
    <3>3. CASE ~Repeated(c) /\ rec.seq # session[c].applied.seq + 1
      <4>1. session' = [session EXCEPT ![c].pc = "remove"]
        BY <1>3, <3>3 DEF ApplyOperation
      <4> QED BY <4>1, SessionMoves
    <3>4. CASE ~Repeated(c) /\ rec.seq = session[c].applied.seq + 1
      <4> DEFINE ok == ~Rejects(rec)
                 e == ~ok
                 b == IF ok THEN rec.state \in {"setup", "activity"}
                      ELSE session[c].protected
      <4>1. session' = [session EXCEPT
                  ![c].pc = "ack", ![c].rec = NoRecord,
                  ![c].applied = rec, ![c].err = e,
                  ![c].protected = b]
        BY <1>3, <3>4 DEF ApplyOperation
      <4>2. e \in BOOLEAN
        OBVIOUS
      <4>3. b \in BOOLEAN
        <5>1. (rec.state \in {"setup", "activity"}) \in BOOLEAN
          OBVIOUS
        <5> HIDE DEF ok, rec
        <5>2. CASE ok
          BY <5>1, <5>2
        <5>3. CASE ~ok
          BY <3>1, <5>3
        <5> QED BY <5>2, <5>3
      <4> HIDE DEF e, b, ok, rec
      <4>4. session[c] \in SessionTypes
        BY <3>1
      <4>5. session' = [session EXCEPT ![c] =
                [session[c] EXCEPT !.pc = "ack", !.rec = NoRecord,
                   !.applied = rec, !.err = e, !.protected = b]]
        BY <3>1, <4>1
      <4>6. [session[c] EXCEPT !.pc = "ack", !.rec = NoRecord,
               !.applied = rec, !.err = e, !.protected = b] \in SessionTypes
        BY <2>1, <4>2, <4>3, <4>4, NoRecordSendable DEF SessionTypes
      <4> QED BY <3>1, <4>5, <4>6
    <3> QED BY <3>2, <3>3, <3>4
  <2> QED BY <1>3, <2>2, <2>3 DEF ApplyOperation, Types
<1>4. ASSUME NEW c \in Clients, WriteAck(c)
      PROVE  Types'
  <2>1. session' \in [Clients -> SessionTypes]
    BY <1>4, SessionMoves DEF WriteAck
  <2>2. faults' \in 0 .. MaxFaults
    BY <1>4, FaultBound DEF WriteAck, Types
  <2>3. acks' \in [Clients -> Seq([seq : Nat, err : BOOLEAN])]
    <3> DEFINE a == [seq |-> session[c].applied.seq, err |-> session[c].err]
               T == [seq : Nat, err : BOOLEAN]
    <3>1. a \in T
      BY DEF Types, SessionTypes, Sendable, Record
    <3>2. acks' = acks \/ acks' = [acks EXCEPT ![c] = Newest(Append(acks[c], a))]
      BY <1>4 DEF WriteAck
    <3> HIDE DEF a, T
    <3>3. acks \in [Clients -> Seq(T)]
      BY DEF Types, T
    <3>4. Append(acks[c], a) \in Seq(T) /\ Append(acks[c], a) # <<>>
      BY <3>1, <3>3
    <3>5. Newest(Append(acks[c], a)) \in Seq(T)
      BY <3>4 DEF Newest
    <3> QED BY <3>2, <3>3, <3>5 DEF T
  <2> QED BY <1>4, <2>1, <2>2, <2>3 DEF WriteAck, Types
<1>5. ASSUME NEW c \in Clients, ScanEnds(c)
      PROVE  Types'
  <2>1. session' \in [Clients -> SessionTypes]
    BY <1>5, SessionMoves DEF ScanEnds
  <2> QED BY <1>5, <2>1 DEF ScanEnds, Types
<1>6. ASSUME NEW c \in Clients, RemoveClient(c)
      PROVE  Types'
  <2>1. owner' \in OwnerTypes
    BY <1>6, UncountedFacts DEF RemoveClient
  <2>2. session' \in [Clients -> SessionTypes]
    BY <1>6, SessionMoves DEF RemoveClient
  <2> QED BY <1>6, <2>1, <2>2 DEF RemoveClient, Types
<1>7. ASSUME NEW c \in Clients, ReleaseClient(c)
      PROVE  Types'
  <2>1. /\ monitor' \in MonitorTypes
        /\ age' \in 0 .. LongestTimeout
        /\ quiet' \in 0 .. LongestTimeout
    BY <1>7, ReleaseFacts DEF ReleaseClient
  <2>2. session' \in [Clients -> SessionTypes]
    BY <1>7, NoRecordSendable
    DEF ReleaseClient, Types, SessionTypes, Over, NoSession
  <2> QED BY <1>7, <2>1, <2>2 DEF ReleaseClient, Types
<1>8. ASSUME NEW c \in Clients, Connect(c)
      PROVE  Types'
  <2>1. PICK t \in Timeouts \cup {Invalid, 0} :
          /\ client' = [client EXCEPT ![c].pc = "connected", ![c].rec.timeout = t]
          /\ c \in Setups => t \in Timeouts \cup {Invalid}
    BY <1>8 DEF Connect
  <2>2. [client[c].rec EXCEPT !.timeout = t] \in Sendable
    <3>1. client[c].rec \in Sendable /\ client[c].rec \in Record
      BY DEF Types, ClientTypes, Sendable
    <3>2. client[c].rec.state \in Policies => c \in Setups
      BY DEF ClientInv
    <3> DEFINE r == [client[c].rec EXCEPT !.timeout = t]
    <3>3. r \in Record /\ r.state = client[c].rec.state /\ r.timeout = t
      BY <3>1 DEF Record
    <3> HIDE DEF r
    <3>4. r \in Sendable
      BY <2>1, <3>2, <3>3 DEF Sendable
    <3> QED BY <3>4 DEF r
  <2>3. client' \in [Clients -> ClientTypes]
    BY <2>1, <2>2 DEF Types, ClientTypes
  <2> QED BY <1>8, <2>3 DEF Connect, Types
<1>9. ASSUME NEW c \in Clients, Send(c)
      PROVE  Types'
  <2>1. PICK state \in NextStates(c) :
         LET rec == [client[c].rec EXCEPT !.seq = @ + 1, !.state = state]
         IN /\ client' = [client EXCEPT ![c] = [pc |-> "sending", rec |-> rec]]
            /\ inbox' = [inbox EXCEPT ![c] = Append(@, rec)]
            /\ UNCHANGED <<monitor, age, quiet, owner, session, loop, conn, acks, alive, faults>>
    BY <1>9 DEF Send
  <2> DEFINE rec == [client[c].rec EXCEPT !.seq = @ + 1, !.state = state]
  <2>2. rec \in Sendable
    <3>1. /\ state \in States
          /\ state \in Policies => c \in Setups
          /\ client[c].pc \notin {"idle", "gone"}
      BY <2>1 DEF NextStates, States, Policies, ClientInv
    <3>2. client[c].rec \in Sendable
      BY DEF Types, ClientTypes
    <3>3. c \in Setups => client[c].rec.timeout \in Timeouts \cup {Invalid}
      BY <3>1 DEF ClientInv
    <3>4. /\ rec.seq = client[c].rec.seq + 1 /\ rec.state = state
          /\ rec.timeout = client[c].rec.timeout
          /\ rec \in Record
      <4>1. client[c].rec \in Record /\ client[c].rec.seq \in Nat
        BY <3>2 DEF Sendable, Record
      <4> DEFINE r == client[c].rec
                 n == r.seq + 1
      <4>2. rec = [r EXCEPT !.seq = n, !.state = state]
        OBVIOUS
      <4>3. r \in Record /\ n \in Nat
        BY <4>1
      <4> HIDE DEF r, n, rec
      <4>4. rec.seq = n /\ rec.state = state /\ rec.timeout = r.timeout
        BY <4>2, <4>3 DEF Record
      <4>5. rec \in Record
        BY <3>1, <4>2, <4>3 DEF Record
      <4> QED BY <4>4, <4>5 DEF r, n
    <3> HIDE DEF rec
    <3> QED BY <3>1, <3>3, <3>4 DEF Sendable
  <2>3. /\ client' = [client EXCEPT ![c] = [pc |-> "sending", rec |-> rec]]
        /\ inbox' = [inbox EXCEPT ![c] = Append(inbox[c], rec)]
    BY <2>1
  <2> HIDE DEF rec
  <2>4. client' \in [Clients -> ClientTypes]
    BY <2>2, <2>3 DEF Types, ClientTypes
  <2>5. inbox' \in [Clients -> Seq(Sendable)]
    BY <2>2, <2>3 DEF Types
  <2> QED BY <2>1, <2>4, <2>5 DEF Types
<1>10. ASSUME NEW c \in Clients, Resend(c)
       PROVE  Types'
  <2>1. faults' \in 0 .. MaxFaults
    BY <1>10, FaultBound DEF Resend, Types
  <2>2. client[c].rec \in Sendable
    BY DEF Types, ClientTypes
  <2> QED BY <1>10, <2>1, <2>2 DEF Resend, Types
<1>11. ASSUME NEW c \in Clients, AwaitAck(c)
       PROVE  Types'
  <2>1. CASE Hangup(c)
    BY <1>11, <2>1, HangupFacts DEF AwaitAck, Types
  <2>2. CASE ~Hangup(c)
    <3>1. /\ client' = client \/ client' = Acknowledged(c)
          /\ acks' = [acks EXCEPT ![c] = Tail(acks[c])]
          /\ acks[c] # <<>>
          /\ UNCHANGED <<monitor, age, quiet, owner, session, loop, conn, inbox, alive, faults>>
      BY <1>11, <2>2 DEF AwaitAck
    <3>2. client' \in [Clients -> ClientTypes]
      <4>1. client \in [Clients -> ClientTypes]
        BY DEF Types
      <4>2. \/ client' = client
            \/ client' = [client EXCEPT ![c].pc = "settled"]
            \/ client' = [client EXCEPT ![c].pc = "work"]
        BY <3>1 DEF Acknowledged
      <4> QED BY <4>1, <4>2 DEF ClientTypes
    <3>3. acks' \in [Clients -> Seq([seq : Nat, err : BOOLEAN])]
      BY <3>1 DEF Types
    <3> QED BY <3>1, <3>2, <3>3 DEF Types
  <2> QED BY <2>1, <2>2
<1>12. ASSUME NEW c \in Clients, GiveUp(c)
       PROVE  Types'
  BY <1>12, HangupFacts DEF GiveUp, Types
<1>13. ASSUME NEW p \in Pids, NEW inherited \in BOOLEAN, ProcessDies(p, inherited)
       PROVE  Types'
  <2>1. faults' \in 0 .. MaxFaults
    BY <1>13, FaultBound DEF ProcessDies, Types
  <2>2. Gone \in ClientTypes
    BY NoRecordSendable DEF Gone, NoClient, ClientTypes
  <2>3. client' \in [Clients -> ClientTypes]
    BY <1>13, <2>2 DEF ProcessDies, Types
  <2>4. acks' \in [Clients -> Seq([seq : Nat, err : BOOLEAN])]
    BY <1>13 DEF ProcessDies, Types
  <2>5. conn' \in [Clients -> {"none", "backlog", "open", "closed"}]
    BY <1>13 DEF ProcessDies, Types
  <2>6. alive' \in [Pids -> BOOLEAN]
    BY <1>13 DEF ProcessDies, Types
  <2> QED BY <1>13, <2>1, <2>3, <2>4, <2>5, <2>6 DEF ProcessDies, Types
<1>14. ASSUME NEW why \in {"canceled", "failed"}, ContextEnds(why)
       PROVE  Types'
  <2>1. faults' \in 0 .. MaxFaults
    BY <1>14, FaultBound DEF ContextEnds, Types
  <2>2. loop' \in LoopTypes
    BY <1>14 DEF ContextEnds, Types, LoopTypes
  <2> QED BY <1>14, <2>1, <2>2 DEF ContextEnds, Types
<1>15. CASE Observe
  <2>1. Dead \subseteq Clients
    BY DEF Dead, Types, OwnerTypes
  <2>2. owner' \in OwnerTypes
    BY <1>15, <2>1, UncountedFacts DEF Observe
  <2>3. /\ monitor' \in MonitorTypes
        /\ age' \in 0 .. LongestTimeout
        /\ quiet' \in 0 .. LongestTimeout
    BY <1>15, <2>1, ReleaseFacts DEF Observe
  <2>4. loop' \in LoopTypes
    BY <1>15 DEF Observe, Types, LoopTypes
  <2>5. conn' \in [Clients -> {"none", "backlog", "open", "closed"}]
    BY <1>15 DEF Observe, Types
  <2> QED BY <1>15, <2>2, <2>3, <2>4, <2>5 DEF Observe, Types
<1>16. CASE CommitExpiry
  <2>1. monitor' \in MonitorTypes
    <3>1. Expired \in BOOLEAN
      BY DEF Expired, Types, MonitorTypes
    <3> QED BY <1>16, <3>1 DEF CommitExpiry, Types, MonitorTypes
  <2>2. loop' \in LoopTypes
    BY <1>16 DEF CommitExpiry, Types, LoopTypes
  <2> QED BY <1>16, <2>1, <2>2 DEF CommitExpiry, Types
<1>17. CASE CloseAfterContext
  BY <1>17, CloseFacts DEF CloseAfterContext, Types
<1>18. CASE AcceptFails
  <2>1. faults' \in 0 .. MaxFaults
    BY <1>18, FaultBound DEF AcceptFails, Types
  <2>2. loop' \in LoopTypes
    BY <1>18 DEF AcceptFails, Types, LoopTypes
  <2> QED BY <1>18, <2>1, <2>2, CloseFacts DEF AcceptFails, Types
<1>19. CASE ServeReturns
  BY <1>19 DEF ServeReturns, Types, LoopTypes
<1>20. CASE LoopSeesContext
  BY <1>20 DEF LoopSeesContext, Types, LoopTypes
<1>21. CASE StopOwner
  <2>1. loop' \in LoopTypes
    BY <1>21 DEF StopOwner, Types, LoopTypes
  <2> QED BY <1>21, <2>1, CloseFacts DEF StopOwner, Types
<1>22. CASE Join
  BY <1>22 DEF Join, Types, LoopTypes
<1>23. CASE Tick
  <2>1. \A t \in 0 .. LongestTimeout : Older(t) \in 0 .. LongestTimeout
    BY LongestFacts DEF Older
  <2>2. 0 \in 0 .. LongestTimeout
    BY LongestFacts
  <2> QED BY <1>23, <2>1, <2>2 DEF Tick, Types
<1> QED BY <1>1, <1>2, <1>3, <1>4, <1>5, <1>6, <1>7, <1>8, <1>9, <1>10, <1>11,
           <1>12, <1>13, <1>14, <1>15, <1>16, <1>17, <1>18, <1>19, <1>20,
           <1>21, <1>22, <1>23 DEF Next

-----------------------------------------------------------------------------
(* Every step keeps the timer and what the loop concluded from it.         *)

\* A release keeps the timer and an expiry.
LEMMA ReleaseKeepsTimer ==
  ASSUME Types, TimerInv, ExpiryInv, NEW S, S \subseteq Clients, Release(S)
  PROVE  /\ TimerInv'
         /\ loop' = loop => ExpiryInv'
<1>1. /\ monitor'.protected = monitor.protected \ S
      /\ monitor'.timeout = monitor.timeout
      /\ monitor'.armed = monitor.armed
      /\ monitor'.stopping = monitor.stopping
      /\ age' = IF S \cap monitor.protected # {} THEN 0 ELSE age
      /\ quiet' = IF monitor'.protected # {} THEN 0 ELSE quiet
  BY ReleaseFacts
<1>2. age \in Nat /\ quiet \in Nat
  BY LongestFacts DEF Types
<1>3. TimerInv'
  <2>1. CASE S \cap monitor.protected = {}
    <3>1. monitor'.protected = monitor.protected /\ age' = age
      BY <1>1, <2>1
    <3> QED BY <1>1, <3>1 DEF TimerInv
  <2>2. CASE S \cap monitor.protected # {}
    <3>1. age' = 0 /\ quiet' \in Nat
      BY <1>1, <1>2, <2>2
    <3>2. age' <= quiet'
      BY <3>1
    <3>3. monitor'.timeout = monitor.timeout /\ monitor'.armed = monitor.armed
      BY <1>1
    <3> QED BY <3>2, <3>3 DEF TimerInv
  <2> QED BY <2>1, <2>2
<1>4. loop' = loop => ExpiryInv'
  BY <1>1 DEF ExpiryInv
<1> QED BY <1>3, <1>4

\* Every step keeps the timer and an expiry.
LEMMA TimerStep ==
  ASSUME Types, TimerInv, ExpiryInv, Next
  PROVE  TimerInv' /\ ExpiryInv'
<1> USE DEF daemon, time
<1>1. ASSUME UNCHANGED time, loop'.pc = loop.pc, loop'.result = loop.result
      PROVE  TimerInv' /\ ExpiryInv'
  BY <1>1 DEF TimerInv, ExpiryInv
<1>2. ASSUME NEW c \in Clients, ApplyOperation(c)
      PROVE  TimerInv' /\ ExpiryInv'
  <2> DEFINE rec == session[c].rec
  <2>1. CASE UNCHANGED time
    BY <1>1, <1>2, <2>1 DEF ApplyOperation
  <2>2. CASE ~UNCHANGED time
    <3>1. Apply(c, rec) /\ loop' = loop
      BY <1>2, <2>2 DEF ApplyOperation
    <3>2. rec \in Sendable
      BY DEF Types, SessionTypes
    <3> HIDE DEF rec
    <3>3. TimerInv' /\ ~Rejects(rec)
      BY <2>2, <3>1, <3>2, ApplyFacts
    <3>4. loop.result # "ErrInactivityExpired"
      BY <3>3 DEF Rejects, ExpiryInv
    <3> QED BY <3>1, <3>3, <3>4 DEF ExpiryInv
  <2> QED BY <2>1, <2>2
<1>3. ASSUME NEW c \in Clients, ReleaseClient(c)
      PROVE  TimerInv' /\ ExpiryInv'
  BY <1>3, ReleaseKeepsTimer DEF ReleaseClient
<1>4. CASE Observe
  <2>1. Dead \subseteq Clients
    BY DEF Dead, Types, OwnerTypes
  <2>2. TimerInv'
    BY <1>4, <2>1, ReleaseKeepsTimer DEF Observe
  <2>3. loop.result # "ErrInactivityExpired" /\ loop'.result = loop.result
    BY <1>4 DEF Observe, ExpiryInv, Types, LoopTypes
  <2> QED BY <2>2, <2>3 DEF ExpiryInv
<1>5. CASE CommitExpiry
  <2>1. /\ monitor'.protected = monitor.protected
        /\ monitor'.timeout = monitor.timeout
        /\ monitor'.armed = monitor.armed
        /\ UNCHANGED <<age, quiet>>
    BY <1>5 DEF CommitExpiry, Types, MonitorTypes
  <2>2. TimerInv'
    BY <2>1 DEF TimerInv
  <2>3. ExpiryInv'
    <3>1. loop.result # "ErrInactivityExpired"
      BY <1>5 DEF CommitExpiry, ExpiryInv
    <3>2. CASE Expired
      <4>1. monitor'.stopping /\ loop'.pc = "leave"
        BY <1>5, <3>2 DEF CommitExpiry, Types, MonitorTypes, LoopTypes
      <4>2. /\ monitor.armed /\ monitor.protected = {}
            /\ age >= monitor.timeout /\ age <= quiet /\ monitor.timeout > 0
        BY <3>2 DEF Expired, TimerInv
      <4>3. age \in Nat /\ quiet \in Nat
        BY LongestFacts DEF Types
      <4>4. monitor.timeout \in Nat
        BY TimeoutsAssumption DEF Types, MonitorTypes
      <4> QED BY <2>1, <4>1, <4>2, <4>3, <4>4 DEF ExpiryInv
    <3>3. CASE ~Expired
      <4>1. loop'.result = loop.result
        BY <1>5, <3>3 DEF CommitExpiry, Types, LoopTypes
      <4> QED BY <3>1, <4>1 DEF ExpiryInv
    <3> QED BY <3>2, <3>3
  <2> QED BY <2>2, <2>3
<1>6. CASE LoopSeesContext
  <2>1. UNCHANGED time /\ loop'.result # "ErrInactivityExpired"
    BY <1>6 DEF LoopSeesContext, Types, LoopTypes
  <2> QED BY <2>1 DEF TimerInv, ExpiryInv
<1>7. CASE StopOwner \/ Join
  <2>1. /\ UNCHANGED time
        /\ loop'.result = loop.result
        /\ loop'.pc \in {"join", "returned"}
    BY <1>7 DEF StopOwner, Join, Types, LoopTypes
  <2> QED BY <2>1 DEF TimerInv, ExpiryInv
<1>8. CASE Tick
  <2>1. age \in Nat /\ quiet \in Nat /\ LongestTimeout \in Nat
    BY LongestFacts DEF Types
  <2>2. monitor.protected = {} /\ age <= quiet => age' <= quiet'
    BY <1>8, <2>1 DEF Tick, Older
  <2>3. UNCHANGED <<monitor, loop>> /\ loop.pc = "check"
    BY <1>8 DEF Tick
  <2> QED BY <2>2, <2>3 DEF TimerInv, ExpiryInv
<1>9. ASSUME NEW why \in {"canceled", "failed"}, ContextEnds(why)
      PROVE  TimerInv' /\ ExpiryInv'
  BY <1>1, <1>9 DEF ContextEnds, Types, LoopTypes
<1>10. CASE AcceptFails \/ ServeReturns
  BY <1>1, <1>10 DEF AcceptFails, ServeReturns, Types, LoopTypes
<1>11. CASE \/ CloseAfterContext
            \/ \E p \in Pids, inherited \in BOOLEAN : ProcessDies(p, inherited)
  BY <1>1, <1>11 DEF CloseAfterContext, ProcessDies
<1>12. ASSUME NEW c \in Clients,
              \/ AddClient(c) \/ Receive(c) \/ WriteAck(c)
              \/ ScanEnds(c) \/ RemoveClient(c)
              \/ Connect(c) \/ Send(c) \/ Resend(c) \/ AwaitAck(c) \/ GiveUp(c)
       PROVE  TimerInv' /\ ExpiryInv'
  <2>1. UNCHANGED <<monitor, age, quiet, loop>>
    BY <1>12 DEF AddClient, Receive, WriteAck, ScanEnds, RemoveClient,
       Connect, Send, Resend, AwaitAck, GiveUp
  <2> QED BY <1>1, <2>1
<1> QED BY <1>2, <1>3, <1>4, <1>5, <1>6, <1>7, <1>8, <1>9, <1>10, <1>11, <1>12
        DEF Next

-----------------------------------------------------------------------------
(* Every step keeps the order of what a client sends.                      *)

\* What is left of a client that is gone.
LEMMA GoneFacts ==
  /\ Gone.pc = "gone" /\ Gone.rec = NoRecord
  /\ Gone.rec.state = "none" /\ Gone.rec.seq = 0
BY DEF Gone, NoClient, NoRecord

\* The command of c ends, whatever else happens.
LEMMA GoneClientInv ==
  ASSUME NEW c \in Clients, client'[c] = Gone
  PROVE  ClientInv(c)'
BY GoneFacts DEF ClientInv, Policies

\* Every step keeps the order of what c sends.
LEMMA ClientStep ==
  ASSUME Types, NEW c \in Clients, ClientInv(c), Next
  PROVE  ClientInv(c)'
<1> USE DEF daemon, time
<1>1. ASSUME client'[c] = client[c], alive'[PidOf[c]] = alive[PidOf[c]]
      PROVE  ClientInv(c)'
  BY <1>1 DEF ClientInv
<1>2. client[c] \in ClientTypes /\ client[c].rec \in Record
  BY DEF Types, ClientTypes, Sendable
<1>3. ASSUME NEW d \in Clients, d # c,
             \/ Connect(d) \/ Send(d) \/ AwaitAck(d) \/ GiveUp(d)
      PROVE  ClientInv(c)'
  <2>1. client'[c] = client[c] /\ alive' = alive
    BY <1>3 DEF Connect, Send, AwaitAck, GiveUp, Hangup, Acknowledged, Types
  <2> QED BY <1>1, <2>1
<1>4. CASE Connect(c)
  <2>1. PICK t \in Timeouts \cup {Invalid, 0} :
          /\ client' = [client EXCEPT ![c].pc = "connected", ![c].rec.timeout = t]
          /\ c \in Setups => t \in Timeouts \cup {Invalid}
          /\ alive' = alive /\ alive[PidOf[c]]
          /\ client[c].pc = "idle"
    BY <1>4 DEF Connect
  <2>2. /\ client'[c].pc = "connected"
        /\ client'[c].rec.timeout = t
        /\ client'[c].rec.seq = client[c].rec.seq
        /\ client'[c].rec.state = client[c].rec.state
    BY <1>2, <2>1 DEF Types, ClientTypes, Record
  <2>3. client[c].rec.seq = 0
    BY <2>1 DEF ClientInv
  <2> QED BY <2>1, <2>2, <2>3 DEF ClientInv
<1>5. CASE Send(c)
  <2>1. PICK state \in NextStates(c) :
         LET rec == [client[c].rec EXCEPT !.seq = @ + 1, !.state = state]
         IN /\ client' = [client EXCEPT ![c] = [pc |-> "sending", rec |-> rec]]
            /\ alive' = alive
    BY <1>5 DEF Send
  <2>2. /\ client'[c].pc = "sending"
        /\ client'[c].rec.timeout = client[c].rec.timeout
        /\ client'[c].rec.seq = client[c].rec.seq + 1
        /\ client'[c].rec.state = state
    BY <1>2, <2>1 DEF Types, ClientTypes, Record
  <2>3. client[c].rec.seq \in Nat
    BY <1>2 DEF Record
  <2>4. CASE client[c].pc = "connected"
    <3>1. client[c].rec.seq = 0 /\ alive[PidOf[c]]
      BY <2>4 DEF ClientInv
    <3>2. state = IF c \in Setups THEN "setup" ELSE "activity"
      BY <2>1, <2>4 DEF NextStates
    <3>3. c \in Setups => client[c].rec.timeout \in Timeouts \cup {Invalid}
      BY <2>4 DEF ClientInv
    <3> QED BY <2>1, <2>2, <3>1, <3>2, <3>3 DEF ClientInv, Policies
  <2>5. CASE client[c].pc \in {"work", "settled"}
    <3>1. client[c].rec.seq >= 1 /\ alive[PidOf[c]]
      BY <2>3, <2>5 DEF ClientInv
    <3>2. /\ state \in {"ready", "failed", "release"}
          /\ state # "release" => c \in Setups
      BY <2>1, <2>5 DEF NextStates, ClientInv
    <3>3. c \in Setups => client[c].rec.timeout \in Timeouts \cup {Invalid}
      BY <2>5 DEF ClientInv
    <3> QED BY <2>1, <2>2, <2>3, <3>1, <3>2, <3>3 DEF ClientInv, Policies
  <2> QED BY <2>1, <2>4, <2>5 DEF NextStates
<1>6. CASE AwaitAck(c)
  <2>1. CASE Hangup(c)
    BY <2>1, GoneClientInv DEF Hangup, Types
  <2>2. CASE ~Hangup(c)
    <3>1. /\ alive' = alive /\ client[c].pc = "sending"
          /\ \/ client' = client
             \/ /\ client' = Acknowledged(c)
                /\ client[c].rec.state \notin {"release", "failed"}
      BY <1>6, <2>2 DEF AwaitAck
    <3>2. CASE client' = client
      BY <1>1, <3>1, <3>2
    <3>3. CASE client' = Acknowledged(c) /\ client[c].rec.state = "ready"
      <4>1. client'[c].rec = client[c].rec /\ client'[c].pc = "settled"
        BY <1>2, <3>3 DEF Acknowledged, Types, ClientTypes
      <4>2. client[c].rec.seq \in Nat
        BY <1>2 DEF Record
      <4> QED BY <3>1, <3>3, <4>1, <4>2 DEF ClientInv, Policies
    <3>4. CASE /\ client' = Acknowledged(c)
               /\ client[c].rec.state \notin {"ready", "release", "failed"}
      <4>1. client'[c].rec = client[c].rec /\ client'[c].pc = "work"
        BY <1>2, <3>4 DEF Acknowledged, Types, ClientTypes
      <4>2. client[c].rec.seq \in Nat
        BY <1>2 DEF Record
      <4>3. client[c].rec.seq = 1
        BY <3>1, <3>4, <4>2 DEF ClientInv
      <4> QED BY <3>1, <4>1, <4>3 DEF ClientInv
    <3> QED BY <3>1, <3>2, <3>3, <3>4
  <2> QED BY <2>1, <2>2
<1>7. CASE GiveUp(c)
  BY <1>7, GoneClientInv DEF GiveUp, Hangup, Types
<1>8. ASSUME NEW p \in Pids, NEW inherited \in BOOLEAN, ProcessDies(p, inherited)
      PROVE  ClientInv(c)'
  <2>1. CASE PidOf[c] = p /\ client[c].pc \notin {"idle", "gone"}
    BY <1>8, <2>1, GoneClientInv DEF ProcessDies
  <2>2. CASE ~(PidOf[c] = p /\ client[c].pc \notin {"idle", "gone"})
    <3>1. client'[c] = client[c]
      BY <1>8, <2>2 DEF ProcessDies
    <3>2. PidOf[c] = p \/ alive'[PidOf[c]] = alive[PidOf[c]]
      BY <1>8 DEF ProcessDies, Types, Pids
    <3> QED BY <2>2, <3>1, <3>2 DEF ClientInv
  <2> QED BY <2>1, <2>2
<1>9. ASSUME NEW d \in Clients,
             \/ AddClient(d) \/ Receive(d) \/ ApplyOperation(d) \/ WriteAck(d)
             \/ ScanEnds(d) \/ RemoveClient(d) \/ ReleaseClient(d) \/ Resend(d)
      PROVE  ClientInv(c)'
  <2>1. client' = client /\ alive' = alive
    BY <1>9 DEF AddClient, Receive, ApplyOperation, WriteAck, ScanEnds,
       RemoveClient, ReleaseClient, Resend
  <2> QED BY <1>1, <2>1
<1>10. CASE \/ \E why \in {"canceled", "failed"} : ContextEnds(why)
            \/ Observe \/ CommitExpiry \/ CloseAfterContext
            \/ AcceptFails \/ ServeReturns \/ LoopSeesContext \/ StopOwner
            \/ Join \/ Tick
  <2>1. client' = client /\ alive' = alive
    BY <1>10 DEF ContextEnds, Observe, CommitExpiry, CloseAfterContext,
       AcceptFails, ServeReturns, LoopSeesContext, StopOwner, Join, Tick
  <2> QED BY <1>1, <2>1
<1> QED BY <1>3, <1>4, <1>5, <1>6, <1>7, <1>8, <1>9, <1>10 DEF Next

-----------------------------------------------------------------------------
(* Every step keeps what is known of sessions.                             *)

\* A step that does not concern c.
Same(c) ==
  /\ session'[c] = session[c] /\ conn'[c] = conn[c] /\ client'[c] = client[c]
  /\ inbox'[c] = inbox[c] /\ acks'[c] = acks[c]
  /\ c \in owner'.clients <=> c \in owner.clients
  /\ c \in monitor'.protected <=> c \in monitor.protected
  /\ owner'.closed = owner.closed
  /\ c \in monitor.protected => monitor'.stopping = monitor.stopping

\* Such a step keeps what is known of c.
LEMMA SameKeeps ==
  ASSUME NEW c \in Clients, SessionInv(c), FirstInv(c), Same(c)
  PROVE  SessionInv(c)' /\ FirstInv(c)'
<1>1. SessionInv(c)'
  BY DEF SessionInv, Same
<1>2. FirstInv(c)'
  BY DEF FirstInv, First, Same, Authorized, NeedsSlot
<1> QED BY <1>1, <1>2

\* No step of another client concerns c.
LEMMA OthersAreSame ==
  ASSUME Types, TimerInv, NEW c \in Clients, NEW d \in Clients, c # d,
         \/ AddClient(d) \/ Receive(d) \/ ApplyOperation(d) \/ WriteAck(d)
         \/ ScanEnds(d) \/ RemoveClient(d) \/ ReleaseClient(d)
         \/ Connect(d) \/ Send(d) \/ Resend(d) \/ AwaitAck(d) \/ GiveUp(d)
  PROVE  Same(c)
<1> USE DEF daemon, time, Types
<1>1. CASE AddClient(d)
  <2>1. owner' # owner => \E shared : shared \subseteq {d} /\ owner' = Counted({d}, shared)
    BY <1>1 DEF AddClient
  <2>2. /\ c \in owner'.clients <=> c \in owner.clients
        /\ owner'.closed = owner.closed
    <3>1. CASE owner' = owner
      BY <3>1
    <3>2. CASE owner' # owner
      <4>1. PICK shared : shared \subseteq {d} /\ owner' = Counted({d}, shared)
        BY <2>1, <3>2
      <4> HIDE DEF Types
      <4>2. owner'.clients = owner.clients \cup {d} /\ owner'.closed = owner.closed
        BY <4>1, CountedFacts
      <4> QED BY <4>2
    <3> QED BY <3>1, <3>2
  <2> QED BY <1>1, <2>2 DEF AddClient, Same
<1>2. CASE Receive(d)
  <2>1. owner'.clients = owner.clients /\ owner'.closed = owner.closed
    BY <1>2 DEF Receive, OwnerTypes
  <2> QED BY <1>2, <2>1 DEF Receive, Same
<1>3. CASE ApplyOperation(d)
  <2> DEFINE rec == session[d].rec
  <2>1. \/ UNCHANGED <<monitor, age, quiet>>
        \/ Apply(d, rec)
    BY <1>3 DEF ApplyOperation
  <2>2. rec \in Sendable
    BY DEF SessionTypes
  <2>3. /\ c \in monitor'.protected <=> c \in monitor.protected
        /\ monitor'.stopping = monitor.stopping
    <3> HIDE DEF Types, rec
    <3> QED BY <2>1, <2>2, ApplyFacts
  <2> QED BY <1>3, <2>3 DEF ApplyOperation, Same
<1>4. CASE WriteAck(d)
  BY <1>4 DEF WriteAck, Same
<1>5. CASE ScanEnds(d)
  BY <1>5 DEF ScanEnds, Same
<1>6. CASE RemoveClient(d)
  <2>1. owner'.clients = owner.clients \ {d} /\ owner'.closed = owner.closed
    <3> HIDE DEF Types
    <3> QED BY <1>6, UncountedFacts DEF RemoveClient
  <2> QED BY <1>6, <2>1 DEF RemoveClient, Same
<1>7. CASE ReleaseClient(d)
  <2>1. /\ monitor'.protected = monitor.protected \ {d}
        /\ monitor'.stopping = monitor.stopping
    <3> HIDE DEF Types
    <3> QED BY <1>7, ReleaseFacts DEF ReleaseClient
  <2> QED BY <1>7, <2>1 DEF ReleaseClient, Same
<1>8. CASE Connect(d)
  BY <1>8 DEF Connect, Same
<1>9. CASE Send(d)
  BY <1>9 DEF Send, Same
<1>10. CASE Resend(d)
  BY <1>10 DEF Resend, Same
<1>11. CASE AwaitAck(d)
  BY <1>11 DEF AwaitAck, Acknowledged, Hangup, Same
<1>12. CASE GiveUp(d)
  BY <1>12 DEF GiveUp, Hangup, Same
<1> QED BY <1>1, <1>2, <1>3, <1>4, <1>5, <1>6, <1>7, <1>8, <1>9, <1>10, <1>11,
           <1>12

\* The steps of c's own session.
LEMMA SessionStep ==
  ASSUME Types, TimerInv, NEW c \in Clients,
         ClientInv(c), SessionInv(c), FirstInv(c),
         \/ AddClient(c) \/ Receive(c) \/ ApplyOperation(c) \/ WriteAck(c)
         \/ ScanEnds(c) \/ RemoveClient(c) \/ ReleaseClient(c)
  PROVE  SessionInv(c)' /\ FirstInv(c)'
<1> USE DEF daemon, time
<1> DEFINE t == session[c]
<1>1. t \in SessionTypes /\ session \in [Clients -> SessionTypes]
  BY DEF Types
<1>2. CASE AddClient(c)
  <2>1. CASE CanAdmit(c) /\ alive[PidOf[c]]
    <3>1. /\ session'[c] = [NoSession EXCEPT !.pc = "scan",
                               !.shared = c \notin Privileged]
          /\ conn'[c] = "open" /\ conn[c] = "backlog"
          /\ UNCHANGED <<monitor, inbox, acks, client>>
      BY <1>2, <2>1 DEF AddClient, Types
    <3>2. session'[c].pc = "scan" /\ session'[c].applied = NoRecord
      BY <3>1 DEF NoSession
    <3>3. session[c].applied = NoRecord
      BY <3>1 DEF SessionInv, NoSession
    <3>4. owner'.closed = owner.closed /\ c \in owner'.clients
      <4> DEFINE shared == IF c \notin Privileged THEN {c} ELSE {}
      <4>1. owner' = Counted({c}, shared)
        BY <1>2, <2>1 DEF AddClient
      <4>2. shared \subseteq {c}
        OBVIOUS
      <4> HIDE DEF shared
      <4>3. owner'.closed = owner.closed /\ owner'.clients = owner.clients \cup {c}
        BY <4>1, <4>2, CountedFacts
      <4> QED BY <4>3
    <3>5. SessionInv(c)'
      BY <3>1, <3>2, <3>3, <3>4 DEF SessionInv, NoSession
    <3>6. FirstInv(c)'
      BY <3>1, <3>2, <3>3, <3>4 DEF FirstInv, First
    <3> QED BY <3>5, <3>6
  <2>2. CASE ~(CanAdmit(c) /\ alive[PidOf[c]])
    <3>1. /\ conn'[c] = "closed" /\ conn[c] = "backlog"
          /\ UNCHANGED <<monitor, owner, session, inbox, acks, client>>
      BY <1>2, <2>2 DEF AddClient, Types
    <3>2. t.pc = "none" /\ t.applied = NoRecord
      BY <3>1 DEF SessionInv, NoSession
    <3>3. client[c].pc # "idle"
      BY <3>1 DEF SessionInv
    <3>4. SessionInv(c)'
      BY <3>1, <3>2, <3>3 DEF SessionInv
    <3>5. FirstInv(c)'
      BY <3>1, <3>2 DEF FirstInv, First, Authorized, NeedsSlot
    <3> QED BY <3>4, <3>5
  <2> QED BY <2>1, <2>2
<1>3. CASE Receive(c)
  <2> DEFINE rec == Head(inbox[c])
  <2>1. /\ t.pc = "scan" /\ inbox[c] # <<>>
        /\ inbox'[c] = Tail(inbox[c])
        /\ UNCHANGED <<monitor, conn, acks, client>>
    BY <1>3 DEF Receive, Types
  <2>2. owner'.clients = owner.clients /\ owner'.closed = owner.closed
    BY <1>3 DEF Receive, Types, OwnerTypes
  <2>3. client[c].pc \notin {"idle", "connected"}
        /\ conn[c] \notin {"none", "backlog"}
    BY <2>1 DEF SessionInv, NoSession
  <2>4. inbox[c] \in Seq(Sendable)
    BY DEF Types
  <2>5. CASE Accepts(c, rec)
    <3>1. session' = [session EXCEPT ![c] = [session[c] EXCEPT
               !.pc = "apply", !.rec = rec, !.shared = @ \/ NeedsSlot(c, rec)]]
      BY <1>1, <1>3, <2>5 DEF Receive
    <3>2. /\ session'[c].pc = "apply" /\ session'[c].rec = rec
          /\ session'[c].shared = (t.shared \/ NeedsSlot(c, rec))
          /\ session'[c].applied = t.applied /\ session'[c].err = t.err
          /\ session'[c].protected = t.protected
      BY <1>1, <3>1 DEF SessionTypes
    <3>3. SessionInv(c)'
      BY <2>1, <2>2, <2>3, <3>2 DEF SessionInv
    <3>4. FirstInv(c)'
      <4> SUFFICES ASSUME First(c)' PROVE FirstInv(c)'
        BY DEF FirstInv
      <4>1. First(c)
        BY <2>1, <2>2 DEF First
      <4>2. rec = client[c].rec
        BY <2>1, <2>4, <4>1 DEF FirstInv
      <4>3. \A i \in 1 .. Len(inbox'[c]) : inbox'[c][i] = client'[c].rec
        BY <2>1, <2>4, <4>1 DEF FirstInv
      <4>4. Authorized(c, client[c].rec)
        BY <2>5, <4>2 DEF Accepts
      <4>5. ~NeedsSlot(c, client[c].rec)'
        BY <2>1, <3>2, <4>2 DEF NeedsSlot
      <4> HIDE DEF rec
      <4> QED BY <2>1, <2>2, <3>2, <4>1, <4>2, <4>3, <4>4, <4>5
              DEF FirstInv, Authorized
    <3> QED BY <3>3, <3>4
  <2>6. CASE ~Accepts(c, rec)
    <3>1. session' = [session EXCEPT ![c].pc = "remove"] /\ owner' = owner
      BY <1>3, <2>6 DEF Receive
    <3>2. /\ session'[c].pc = "remove" /\ session'[c].rec = t.rec
          /\ session'[c].shared = t.shared
          /\ session'[c].applied = t.applied /\ session'[c].err = t.err
          /\ session'[c].protected = t.protected
      BY <1>1, <3>1 DEF SessionTypes
    <3>3. SessionInv(c)'
      BY <2>1, <2>2, <2>3, <3>2 DEF SessionInv
    <3>4. FirstInv(c)'
      <4> SUFFICES ASSUME First(c)' PROVE FirstInv(c)'
        BY DEF FirstInv
      <4>1. First(c)
        BY <2>1, <2>2 DEF First
      <4>2. rec = client[c].rec
        BY <2>1, <2>4, <4>1 DEF FirstInv
      <4>3. \A i \in 1 .. Len(inbox'[c]) : inbox'[c][i] = client'[c].rec
        BY <2>1, <2>4, <4>1 DEF FirstInv
      <4>4. c \in owner.clients /\ ~owner.closed
        BY <2>1, <4>1 DEF SessionInv, First
      <4>5. t.applied = NoRecord
        BY <2>6, <4>1, <4>2, <4>4 DEF FirstInv, Accepts
      <4> HIDE DEF rec
      <4> QED BY <2>1, <2>2, <3>2, <4>1, <4>3, <4>5 DEF FirstInv
    <3> QED BY <3>3, <3>4
  <2> QED BY <2>5, <2>6
<1>4. CASE ApplyOperation(c)
  <2> DEFINE rec == session[c].rec
             ok == ~Rejects(rec)
  <2>1. /\ t.pc = "apply"
        /\ UNCHANGED <<owner, conn, inbox, acks, client>>
    BY <1>4 DEF ApplyOperation
  <2>2. /\ client[c].pc # "idle" /\ conn[c] \notin {"none", "backlog"}
        /\ rec \in Sendable
    BY <1>1, <2>1 DEF SessionInv, NoSession, SessionTypes
  <2>3. CASE Repeated(c)
    <3>1. /\ session' = [session EXCEPT ![c].pc = "ack", ![c].rec = NoRecord]
          /\ monitor' = monitor
      BY <1>4, <2>3 DEF ApplyOperation
    <3>2. /\ session'[c].pc = "ack" /\ session'[c].rec = NoRecord
          /\ session'[c].shared = t.shared
          /\ session'[c].applied = t.applied /\ session'[c].err = t.err
          /\ session'[c].protected = t.protected
      BY <1>1, <3>1 DEF SessionTypes
    <3>3. SessionInv(c)'
      BY <2>1, <2>2, <3>1, <3>2 DEF SessionInv
    <3>4. FirstInv(c)'
      BY <2>1, <3>1, <3>2 DEF FirstInv, First, Authorized, NeedsSlot
    <3> QED BY <3>3, <3>4
  <2>4. CASE ~Repeated(c) /\ rec.seq # t.applied.seq + 1
    <3>1. /\ session' = [session EXCEPT ![c].pc = "remove"]
          /\ monitor' = monitor
      BY <1>4, <2>4 DEF ApplyOperation
    <3>2. /\ session'[c].pc = "remove" /\ session'[c].rec = t.rec
          /\ session'[c].shared = t.shared
          /\ session'[c].applied = t.applied /\ session'[c].err = t.err
          /\ session'[c].protected = t.protected
      BY <1>1, <3>1 DEF SessionTypes
    <3>3. SessionInv(c)'
      BY <2>1, <2>2, <3>1, <3>2 DEF SessionInv
    <3>4. First(c) => t.applied = NoRecord
      <4> SUFFICES ASSUME First(c), t.applied # NoRecord PROVE FALSE
        OBVIOUS
      <4>1. t.applied = client[c].rec /\ rec = client[c].rec
        BY <2>1 DEF FirstInv
      <4> QED BY <2>4, <4>1 DEF Repeated
    <3>5. FirstInv(c)'
      BY <2>1, <3>1, <3>2, <3>4 DEF FirstInv, First, Authorized, NeedsSlot
    <3> QED BY <3>3, <3>5
  <2>5. CASE ~Repeated(c) /\ rec.seq = t.applied.seq + 1
    <3> DEFINE b == IF ok THEN rec.state \in {"setup", "activity"}
                    ELSE t.protected
    <3>1. /\ session' = [session EXCEPT
                 ![c].pc = "ack", ![c].rec = NoRecord, ![c].applied = rec,
                 ![c].err = ~ok, ![c].protected = b]
          /\ Apply(c, rec)
      BY <1>4, <2>5 DEF ApplyOperation
    <3>2. /\ session'[c].pc = "ack" /\ session'[c].rec = NoRecord
          /\ session'[c].shared = t.shared
          /\ session'[c].applied = rec /\ session'[c].err = ~ok
          /\ session'[c].protected = b
      <4> HIDE DEF rec, ok, b
      <4> QED BY <1>1, <3>1 DEF SessionTypes
    <3>3. /\ monitor'.stopping = monitor.stopping
          /\ ~ok => monitor' = monitor
          /\ ok => monitor'.protected =
                IF rec.state \in {"setup", "activity"}
                  THEN monitor.protected \cup {c} ELSE monitor.protected \ {c}
      <4> HIDE DEF rec
      <4> QED BY <2>2, <3>1, ApplyFacts
    <3>4. ok => ~monitor.stopping
      BY DEF Rejects
    <3>5. client[c].pc # "connected"
      BY <2>1 DEF SessionInv
    <3> HIDE DEF ok
    <3>6. SessionInv(c)'
      BY <2>1, <2>2, <3>2, <3>5 DEF SessionInv
    <3>7. FirstInv(c)'
      <4> SUFFICES ASSUME First(c)' PROVE FirstInv(c)'
        BY DEF FirstInv
      <4>1. First(c)
        BY <2>1 DEF First
      <4>2. rec = client[c].rec /\ t.applied = NoRecord
        BY <2>1, <2>5, <4>1 DEF FirstInv, Repeated
      <4>3. client[c].rec.state \in {"setup", "activity"}
        BY <4>1 DEF First, ClientInv
      <4>4. client[c].rec # NoRecord
        BY <4>1 DEF First, NoRecord
      <4>5. Authorized(c, client[c].rec) /\ ~NeedsSlot(c, client[c].rec)
        BY <2>1, <4>1 DEF FirstInv
      <4>6. ~NeedsSlot(c, client[c].rec)'
        BY <2>1, <3>2, <4>5 DEF NeedsSlot
      <4>7. \A i \in 1 .. Len(acks'[c]) :
              acks'[c][i].seq = 1 /\ ~acks'[c][i].err =>
                session'[c].applied # NoRecord /\ ~session'[c].err
        BY <2>1, <4>1, <4>2 DEF FirstInv
      <4>8. client'[c].pc = "work" =>
              session'[c].applied # NoRecord /\ ~session'[c].err
        BY <2>1, <4>1, <4>2 DEF FirstInv
      <4> HIDE DEF rec
      <4> QED BY <2>1, <3>2, <3>3, <3>4, <4>1, <4>2, <4>3, <4>4, <4>5, <4>6,
                 <4>7, <4>8 DEF FirstInv, Authorized
    <3> QED BY <3>6, <3>7
  <2> QED BY <2>3, <2>4, <2>5
<1>5. CASE WriteAck(c)
  <2>1. /\ t.pc = "ack" /\ session' = [session EXCEPT ![c].pc = "scan"]
        /\ UNCHANGED <<monitor, owner, conn, inbox, client>>
    BY <1>5 DEF WriteAck
  <2>2. /\ session'[c].pc = "scan" /\ session'[c].rec = t.rec
        /\ session'[c].shared = t.shared
        /\ session'[c].applied = t.applied /\ session'[c].err = t.err
        /\ session'[c].protected = t.protected
    BY <1>1, <2>1 DEF SessionTypes
  <2>3. /\ client[c].pc \notin {"idle", "connected"}
        /\ conn[c] \notin {"none", "backlog"}
    BY <2>1 DEF SessionInv, NoSession
  <2>4. SessionInv(c)'
    BY <2>1, <2>2, <2>3 DEF SessionInv
  <2>5. First(c) =>
          \A i \in 1 .. Len(acks'[c]) :
            acks'[c][i].seq = 1 /\ ~acks'[c][i].err =>
              t.applied # NoRecord /\ ~t.err
    <3> SUFFICES ASSUME First(c), NEW i \in 1 .. Len(acks'[c]),
                        acks'[c][i].seq = 1, ~acks'[c][i].err
                 PROVE  t.applied # NoRecord /\ ~t.err
      OBVIOUS
    <3> DEFINE a == [seq |-> t.applied.seq, err |-> t.err]
               T == [seq : Nat, err : BOOLEAN]
               s == acks[c]
    <3>1. s \in Seq(T) /\ a \in T
      BY <1>1 DEF Types, SessionTypes, Sendable, Record
    <3>2. acks'[c] = s \/ acks'[c] = Newest(Append(s, a))
      BY <1>5 DEF WriteAck, Types
    <3>3. a.seq = 1 /\ ~a.err => t.applied # NoRecord /\ ~t.err
      BY DEF NoRecord
    <3>4. \A j \in 1 .. Len(s) :
            s[j].seq = 1 /\ ~s[j].err => t.applied # NoRecord /\ ~t.err
      BY DEF FirstInv
    <3> HIDE DEF a, T, s, t
    <3>5. \A j \in 1 .. Len(Append(s, a)) :
            \/ Append(s, a)[j] = a
            \/ j \in 1 .. Len(s) /\ Append(s, a)[j] = s[j]
      BY <3>1
    <3>6. \A j \in 1 .. Len(Newest(Append(s, a))) :
            \E k \in 1 .. Len(Append(s, a)) :
              Newest(Append(s, a))[j] = Append(s, a)[k]
      <4>1. Append(s, a) \in Seq(T) /\ Append(s, a) # <<>>
        BY <3>1
      <4> QED BY <4>1 DEF Newest
    <3> QED BY <3>2, <3>3, <3>4, <3>5, <3>6
  <2>6. FirstInv(c)'
    BY <2>1, <2>2, <2>5 DEF FirstInv, First, Authorized, NeedsSlot
  <2> QED BY <2>4, <2>6
<1>6. CASE ScanEnds(c)
  <2>1. /\ t.pc = "scan" /\ session' = [session EXCEPT ![c].pc = "remove"]
        /\ conn[c] = "closed" \/ ~t.protected
        /\ UNCHANGED <<monitor, owner, conn, inbox, acks, client>>
    BY <1>6 DEF ScanEnds
  <2>2. /\ session'[c].pc = "remove" /\ session'[c].rec = t.rec
        /\ session'[c].shared = t.shared
        /\ session'[c].applied = t.applied /\ session'[c].err = t.err
        /\ session'[c].protected = t.protected
    BY <1>1, <2>1 DEF SessionTypes
  <2>3. SessionInv(c)'
    BY <2>1, <2>2 DEF SessionInv, NoSession
  <2>4. FirstInv(c)'
    BY <2>1, <2>2 DEF SessionInv, FirstInv, First, Authorized, NeedsSlot
  <2> QED BY <2>3, <2>4
<1>7. CASE RemoveClient(c)
  <2>1. /\ t.pc = "remove" /\ session' = [session EXCEPT ![c].pc = "release"]
        /\ conn'[c] = "closed"
        /\ UNCHANGED <<monitor, inbox, acks, client>>
    BY <1>7 DEF RemoveClient, Types
  <2>2. /\ session'[c].pc = "release" /\ session'[c].rec = t.rec
        /\ session'[c].shared = t.shared
        /\ session'[c].applied = t.applied /\ session'[c].err = t.err
        /\ session'[c].protected = t.protected
    BY <1>1, <2>1 DEF SessionTypes
  <2>3. c \notin owner'.clients /\ owner'.closed = owner.closed
    <3>1. owner'.clients = owner.clients \ {c} /\ owner'.closed = owner.closed
      BY <1>7, UncountedFacts DEF RemoveClient
    <3> QED BY <3>1
  <2>4. SessionInv(c)'
    BY <2>1, <2>2, <2>3 DEF SessionInv, NoSession
  <2>5. FirstInv(c)'
    BY <2>1, <2>2, <2>3 DEF FirstInv, First, Authorized, NeedsSlot
  <2> QED BY <2>4, <2>5
<1>8. CASE ReleaseClient(c)
  <2>1. /\ t.pc = "release" /\ session'[c] = Over /\ inbox'[c] = <<>>
        /\ UNCHANGED <<owner, conn, acks, client>>
    BY <1>8 DEF ReleaseClient, Types
  <2>2. session'[c].pc = "done" /\ session'[c].applied = NoRecord
    BY <2>1 DEF Over, NoSession
  <2>3. c \notin monitor'.protected
    BY <1>8, ReleaseFacts DEF ReleaseClient
  <2>4. SessionInv(c)'
    BY <2>1, <2>2, <2>3 DEF SessionInv, NoSession
  <2>5. FirstInv(c)'
    BY <2>1, <2>2, <2>3 DEF FirstInv, First
  <2> QED BY <2>4, <2>5
<1> QED BY <1>2, <1>3, <1>4, <1>5, <1>6, <1>7, <1>8

\* The command of c is over: its connection is closed or, inherited, as it was.
LEMMA GoneKeeps ==
  ASSUME NEW c \in Clients, SessionInv(c), client[c].pc # "idle",
         client'[c] = Gone, conn'[c] \in {conn[c], "closed"},
         UNCHANGED <<session, inbox, owner, monitor>>
  PROVE  SessionInv(c)' /\ FirstInv(c)'
BY GoneFacts DEF SessionInv, FirstInv, First

\* The steps of c's own client.
LEMMA CommandStep ==
  ASSUME Types, NEW c \in Clients,
         ClientInv(c), SessionInv(c), FirstInv(c),
         Connect(c) \/ Send(c) \/ Resend(c) \/ AwaitAck(c) \/ GiveUp(c)
  PROVE  SessionInv(c)' /\ FirstInv(c)'
<1> USE DEF daemon, time
<1> DEFINE r == client[c].rec
<1>1. client[c] \in ClientTypes /\ r \in Sendable /\ r \in Record
  BY DEF Types, ClientTypes, Sendable
<1>2. CASE Connect(c)
  <2>1. /\ client'[c].pc = "connected" /\ client[c].pc = "idle"
        /\ conn'[c] = "backlog"
        /\ UNCHANGED <<monitor, owner, session, inbox, acks>>
    <3>1. PICK u : client' = [client EXCEPT ![c].pc = "connected",
                                           ![c].rec.timeout = u]
      BY <1>2 DEF Connect
    <3>2. client'[c].pc = "connected"
      BY <1>1, <3>1 DEF Types, ClientTypes
    <3> QED BY <1>2, <3>2 DEF Connect, Types
  <2>2. session[c] = NoSession /\ inbox[c] = <<>> /\ acks[c] = <<>>
        /\ c \notin owner.clients /\ session[c].pc = "none"
    BY <2>1 DEF SessionInv, NoSession
  <2>3. SessionInv(c)'
    BY <2>1, <2>2 DEF SessionInv, NoSession
  <2>4. FirstInv(c)'
    BY <2>1 DEF FirstInv, First
  <2> QED BY <2>3, <2>4
<1>3. CASE Send(c)
  <2>1. PICK state \in NextStates(c) :
         LET rec == [client[c].rec EXCEPT !.seq = @ + 1, !.state = state]
         IN /\ client' = [client EXCEPT ![c] = [pc |-> "sending", rec |-> rec]]
            /\ inbox' = [inbox EXCEPT ![c] = Append(@, rec)]
            /\ conn[c] \in {"backlog", "open"}
            /\ UNCHANGED <<monitor, owner, session, conn, acks>>
    BY <1>3 DEF Send
  <2> DEFINE rec == [client[c].rec EXCEPT !.seq = @ + 1, !.state = state]
  <2>2. /\ client'[c].pc = "sending" /\ client'[c].rec = rec
        /\ inbox'[c] = Append(inbox[c], rec)
    BY <2>1 DEF Types
  <2>3. client[c].pc \in {"connected", "work", "settled"}
    BY <2>1 DEF NextStates
  <2>4. rec.seq = r.seq + 1 /\ r.seq \in Nat
    BY <1>1 DEF Record
  <2>5. SessionInv(c)'
    BY <2>1, <2>2, <2>3 DEF SessionInv
  <2>6. FirstInv(c)'
    <3>1. CASE client[c].pc = "connected"
      <4>1. /\ inbox[c] = <<>> /\ acks[c] = <<>>
            /\ session[c].pc \notin {"apply", "ack"}
            /\ session[c].applied = NoRecord
        BY <3>1 DEF SessionInv
      <4>2. \A i \in 1 .. Len(inbox'[c]) : inbox'[c][i] = client'[c].rec
        <5> HIDE DEF rec
        <5> QED BY <2>2, <4>1
      <4> HIDE DEF rec
      <4> QED BY <2>1, <2>2, <4>1, <4>2 DEF FirstInv, First
    <3>2. CASE client[c].pc # "connected"
      <4>1. r.seq >= 1
        BY <2>3, <2>4, <3>2 DEF ClientInv
      <4> QED BY <2>2, <2>4, <4>1 DEF FirstInv, First
    <3> QED BY <3>1, <3>2
  <2> QED BY <2>5, <2>6
<1>4. CASE Resend(c)
  <2>1. /\ client[c].pc = "sending"
        /\ inbox'[c] = Append(inbox[c], r)
        /\ UNCHANGED <<monitor, owner, session, conn, acks, client>>
    BY <1>4 DEF Resend, Types
  <2>2. inbox[c] \in Seq(Sendable)
    BY DEF Types
  <2>3. First(c) => \A i \in 1 .. Len(inbox'[c]) : inbox'[c][i] = r
    <3>1. First(c) => \A i \in 1 .. Len(inbox[c]) : inbox[c][i] = r
      BY DEF FirstInv
    <3> HIDE DEF r
    <3> QED BY <1>1, <2>1, <2>2, <3>1
  <2>4. SessionInv(c)'
    BY <2>1 DEF SessionInv
  <2>5. FirstInv(c)'
    BY <2>1, <2>3 DEF FirstInv, First, Authorized, NeedsSlot
  <2> QED BY <2>4, <2>5
<1>5. CASE AwaitAck(c)
  <2>1. CASE Hangup(c)
    BY <1>5, <2>1, GoneKeeps DEF AwaitAck, Hangup, Types
  <2>2. CASE ~Hangup(c)
    <3> DEFINE ack == Head(acks[c])
    <3>1. /\ client[c].pc = "sending" /\ acks[c] # <<>>
          /\ \/ client' = client
             \/ client' = Acknowledged(c) /\ ack.seq = r.seq /\ ~ack.err
          /\ acks'[c] = Tail(acks[c])
          /\ UNCHANGED <<monitor, owner, session, conn, inbox>>
      BY <1>5, <2>2 DEF AwaitAck, Types
    <3>2. /\ client'[c].rec = r
          /\ client'[c].pc \in {"sending", "work", "settled"}
          /\ client'[c].pc # "sending" => ack.seq = r.seq /\ ~ack.err
      <4>1. \/ client' = client
            \/ client' = [client EXCEPT ![c].pc = "settled"]
            \/ client' = [client EXCEPT ![c].pc = "work"]
        BY <3>1 DEF Acknowledged
      <4>2. client \in [Clients -> ClientTypes]
        BY DEF Types
      <4> HIDE DEF ack
      <4>3. /\ client'[c].rec = r
            /\ client'[c].pc \in {"sending", "work", "settled"}
        BY <1>1, <3>1, <4>1, <4>2 DEF ClientTypes
      <4>4. client' = client => client'[c].pc = "sending"
        BY <3>1
      <4>5. client' # client => ack.seq = r.seq /\ ~ack.err
        BY <3>1
      <4> QED BY <4>3, <4>4, <4>5
    <3>3. acks[c] \in Seq([seq : Nat, err : BOOLEAN])
      BY DEF Types
    <3>4. SessionInv(c)'
      BY <3>1, <3>2 DEF SessionInv
    <3>5. FirstInv(c)'
      <4> SUFFICES ASSUME First(c)' PROVE FirstInv(c)'
        BY DEF FirstInv
      <4>1. First(c) /\ r.seq = 1
        BY <3>1, <3>2 DEF First
      <4>2. client'[c].pc = "work" =>
              session[c].applied # NoRecord /\ ~session[c].err
        <5>1. ack = acks[c][1] /\ 1 \in 1 .. Len(acks[c])
          BY <3>1, <3>3
        <5> HIDE DEF ack
        <5> QED BY <3>2, <4>1, <5>1 DEF FirstInv
      <4>3. \A i \in 1 .. Len(acks'[c]) :
              acks'[c][i].seq = 1 /\ ~acks'[c][i].err =>
                session[c].applied # NoRecord /\ ~session[c].err
        <5>1. \A i \in 1 .. Len(Tail(acks[c])) :
                i + 1 \in 1 .. Len(acks[c]) /\ Tail(acks[c])[i] = acks[c][i + 1]
          BY <3>1, <3>3
        <5> QED BY <3>1, <4>1, <5>1 DEF FirstInv
      <4> HIDE DEF ack
      <4> QED BY <3>1, <3>2, <4>1, <4>2, <4>3
              DEF FirstInv, Authorized, NeedsSlot
    <3> QED BY <3>4, <3>5
  <2> QED BY <2>1, <2>2
<1>6. CASE GiveUp(c)
  BY <1>6, GoneKeeps DEF GiveUp, Hangup, Types
<1> QED BY <1>2, <1>3, <1>4, <1>5, <1>6

\* The steps of the loop and the deaths of processes.
LoopNext ==
  \/ \E p \in Pids, inherited \in BOOLEAN : ProcessDies(p, inherited)
  \/ \E why \in {"canceled", "failed"} : ContextEnds(why)
  \/ Observe \/ CommitExpiry \/ CloseAfterContext
  \/ AcceptFails \/ ServeReturns \/ LoopSeesContext \/ StopOwner \/ Join
  \/ Tick

\* Those steps keep what is known of c.
LEMMA LoopStep ==
  ASSUME Types, NEW c \in Clients,
         ClientInv(c), SessionInv(c), FirstInv(c), LoopNext
  PROVE  SessionInv(c)' /\ FirstInv(c)'
<1> USE DEF daemon, time
<1>1. ASSUME NEW p \in Pids, NEW inherited \in BOOLEAN, ProcessDies(p, inherited)
      PROVE  SessionInv(c)' /\ FirstInv(c)'
  <2>1. CASE PidOf[c] = p /\ client[c].pc \notin {"idle", "gone"}
    BY <1>1, <2>1, GoneKeeps DEF ProcessDies
  <2>2. CASE ~(PidOf[c] = p /\ client[c].pc \notin {"idle", "gone"})
    BY <1>1, <2>2, SameKeeps DEF ProcessDies, Same
  <2> QED BY <2>1, <2>2
<1>2. CASE Observe
  <2>1. Dead \subseteq Clients
    BY DEF Dead, Types, OwnerTypes
  <2>2. owner'.clients = owner.clients \ Dead /\ owner'.closed = owner.closed
    BY <1>2, <2>1, UncountedFacts DEF Observe
  <2>3. /\ monitor'.protected = monitor.protected \ Dead
        /\ monitor'.stopping = monitor.stopping
    BY <1>2, <2>1, ReleaseFacts DEF Observe
  <2>4. /\ conn'[c] = IF c \in Dead THEN "closed" ELSE conn[c]
        /\ UNCHANGED <<session, inbox, acks, client>>
    BY <1>2 DEF Observe
  <2>5. CASE c \in Dead
    <3>1. client[c].pc \in {"idle", "gone"} /\ c \in owner.clients
      BY <2>5 DEF Dead, ClientInv, Types, OwnerTypes
    <3>2. client[c].pc = "gone"
      BY <3>1 DEF SessionInv
    <3>3. SessionInv(c)'
      BY <2>2, <2>3, <2>4, <2>5, <3>2 DEF SessionInv
    <3>4. FirstInv(c)'
      BY <2>4, <3>2 DEF FirstInv, First
    <3> QED BY <3>3, <3>4
  <2>6. CASE c \notin Dead
    BY <2>2, <2>3, <2>4, <2>6, SameKeeps DEF Same
  <2> QED BY <2>5, <2>6
<1>3. CASE CommitExpiry
  <2>1. /\ monitor'.protected = monitor.protected
        /\ c \in monitor.protected => monitor'.stopping = monitor.stopping
    BY <1>3 DEF CommitExpiry, Expired, Types, MonitorTypes
  <2> QED BY <1>3, <2>1, SameKeeps DEF CommitExpiry, Same
<1>4. CASE CloseAfterContext \/ AcceptFails \/ StopOwner
  <2>1. /\ CloseOwner
        /\ UNCHANGED <<monitor, session, inbox, acks, client>>
    BY <1>4 DEF CloseAfterContext, AcceptFails, StopOwner
  <2>2. /\ owner'.closed
        /\ owner'.clients = owner.clients
        /\ conn'[c] = IF c \in owner.clients \/ conn[c] = "backlog"
                         THEN "closed" ELSE conn[c]
    BY <2>1, CloseFacts
  <2>3. SessionInv(c)'
    BY <2>1, <2>2 DEF SessionInv
  <2>4. FirstInv(c)'
    BY <2>2 DEF FirstInv, First
  <2> QED BY <2>3, <2>4
<1>5. CASE \/ \E why \in {"canceled", "failed"} : ContextEnds(why)
           \/ ServeReturns \/ LoopSeesContext \/ Join \/ Tick
  <2>1. UNCHANGED <<monitor, owner, session, conn, inbox, acks, client>>
    BY <1>5 DEF ContextEnds, ServeReturns, LoopSeesContext, Join, Tick
  <2> QED BY <2>1, SameKeeps DEF Same
<1> QED BY <1>1, <1>2, <1>3, <1>4, <1>5 DEF LoopNext

-----------------------------------------------------------------------------
(* Every step keeps the counters exact.                                    *)

\* Disjoint sets of clients add up.
LEMMA CountUnion ==
  ASSUME NEW A, NEW B, A \subseteq Clients, B \subseteq Clients, A \cap B = {}
  PROVE  Cardinality(A \cup B) = Cardinality(A) + Cardinality(B)
<1>1. /\ IsFiniteSet(A) /\ Cardinality(A) \in Nat
      /\ IsFiniteSet(B) /\ Cardinality(B) \in Nat
  BY CountIsInt
<1>2. Cardinality(A \cup B) =
        Cardinality(A) + Cardinality(B) - Cardinality(A \cap B)
  BY <1>1, FS_Union
<1>3. Cardinality(A \cap B) = 0
  BY FS_EmptySet
<1> QED BY <1>1, <1>2, <1>3

\* What is left of a set of clients is the difference.
LEMMA CountRest ==
  ASSUME NEW A, NEW B, A \subseteq Clients, B \subseteq A
  PROVE  Cardinality(A \ B) = Cardinality(A) - Cardinality(B)
<1>1. A \cap B = B /\ IsFiniteSet(A)
  BY CountIsInt
<1> QED BY <1>1, FS_Difference

\* The clients each counter counts.
SharedClients == {c \in owner.clients : session[c].shared}
OfUID(u) == {c \in owner.clients \ Privileged : UidOf[c] = u}
OfPID(p) == {c \in owner.clients \ Privileged : PidOf[c] = p}

\* A step that changes neither the clients nor their slots.
LEMMA SlotsUnchanged ==
  ASSUME SlotsAreExact,
         owner'.clients = owner.clients, owner'.other = owner.other,
         owner'.byUID = owner.byUID, owner'.byPID = owner.byPID,
         \A c \in owner.clients : session'[c].shared = session[c].shared
  PROVE  SlotsAreExact'
<1>1. SharedClients' = SharedClients
  BY DEF SharedClients
<1> QED BY <1>1 DEF SlotsAreExact, SharedClients

\* A client that comes.
LEMMA SlotsAdded ==
  ASSUME Types, SlotsAreExact, NEW c \in Clients, SessionInv(c), AddClient(c),
         CanAdmit(c), alive[PidOf[c]]
  PROVE  SlotsAreExact'
<1> DEFINE shared == IF c \notin Privileged THEN {c} ELSE {}
           U(u) == {d \in {c} \ Privileged : UidOf[d] = u}
           P(p) == {d \in {c} \ Privileged : PidOf[d] = p}
<1>1. owner.clients \subseteq Clients /\ owner.other \in Int
  BY DEF Types, OwnerTypes
<1>2. c \notin owner.clients
  BY DEF AddClient, SessionInv
<1>3. /\ owner'.clients = owner.clients \cup {c}
      /\ owner'.other = owner.other + Cardinality(shared)
      /\ \A u \in Uids : owner'.byUID[u] = owner.byUID[u] + Cardinality(U(u))
      /\ \A p \in Pids : owner'.byPID[p] = owner.byPID[p] + Cardinality(P(p))
  <2>1. owner' = Counted({c}, shared)
    BY DEF AddClient
  <2>2. shared \subseteq {c}
    OBVIOUS
  <2> HIDE DEF shared
  <2> QED BY <2>1, <2>2, CountedFacts
<1>4. SharedClients' = SharedClients \cup shared
  <2>1. session'[c].shared = (c \notin Privileged)
    <3>1. session'[c] = [NoSession EXCEPT !.pc = "scan",
                                          !.shared = c \notin Privileged]
      BY DEF AddClient, Types
    <3>2. (c \notin Privileged) \in BOOLEAN
      OBVIOUS
    <3> QED BY <3>1, <3>2 DEF NoSession
  <2>2. \A d \in owner.clients : session'[d] = session[d]
    BY <1>1, <1>2 DEF AddClient, Types
  <2> QED BY <1>2, <1>3, <2>1, <2>2 DEF SharedClients
<1>5. /\ Cardinality(SharedClients') = Cardinality(SharedClients) + Cardinality(shared)
      /\ Cardinality(shared) = IF c \in Privileged THEN 0 ELSE 1
  <2>1. SharedClients \subseteq Clients /\ shared \subseteq Clients
        /\ SharedClients \cap shared = {}
    BY <1>1, <1>2 DEF SharedClients
  <2>2. Cardinality(SharedClients \cup shared) =
          Cardinality(SharedClients) + Cardinality(shared)
    <3> HIDE DEF shared
    <3> QED BY <2>1, CountUnion
  <2>3. Cardinality(shared) = IF c \in Privileged THEN 0 ELSE 1
    BY FS_EmptySet, FS_Singleton
  <2> QED BY <1>4, <2>2, <2>3
<1>6. owner'.other = Cardinality(SharedClients') /\ owner'.other <= MaxOther
  <2>1. owner.other = Cardinality(SharedClients) /\ owner.other <= MaxOther
    BY DEF SlotsAreExact, SharedClients
  <2>2. c \notin Privileged => owner.other < MaxOther
    BY DEF CanAdmit
  <2> HIDE DEF shared
  <2> QED BY <1>1, <1>3, <1>5, <2>1, <2>2, BoundsAssumption
<1>7. Cardinality(owner'.clients) <= MaxClients
  <2>1. Cardinality(owner.clients) \in Nat /\ IsFiniteSet(owner.clients)
    BY <1>1, CountIsInt
  <2>2. Cardinality(owner.clients \cup {c}) = Cardinality(owner.clients) + 1
    BY <1>2, <2>1, FS_AddElement
  <2>3. Cardinality(owner.clients) < MaxClients
    BY DEF CanAdmit
  <2> QED BY <1>3, <2>1, <2>2, <2>3, BoundsAssumption
<1>8. ASSUME NEW u \in Uids
      PROVE  owner'.byUID[u] = Cardinality(OfUID(u)')
  <2>1. OfUID(u)' = OfUID(u) \cup U(u) /\ OfUID(u) \cap U(u) = {}
        /\ OfUID(u) \subseteq Clients /\ U(u) \subseteq Clients
    BY <1>1, <1>2, <1>3 DEF OfUID
  <2>2. owner.byUID[u] = Cardinality(OfUID(u))
    BY DEF SlotsAreExact, OfUID
  <2> HIDE DEF U
  <2>3. Cardinality(OfUID(u) \cup U(u)) = Cardinality(OfUID(u)) + Cardinality(U(u))
    BY <2>1, CountUnion
  <2> QED BY <1>3, <2>1, <2>2, <2>3
<1>9. ASSUME NEW p \in Pids
      PROVE  owner'.byPID[p] = Cardinality(OfPID(p)')
  <2>1. OfPID(p)' = OfPID(p) \cup P(p) /\ OfPID(p) \cap P(p) = {}
        /\ OfPID(p) \subseteq Clients /\ P(p) \subseteq Clients
    BY <1>1, <1>2, <1>3 DEF OfPID
  <2>2. owner.byPID[p] = Cardinality(OfPID(p))
    BY DEF SlotsAreExact, OfPID
  <2> HIDE DEF P
  <2>3. Cardinality(OfPID(p) \cup P(p)) = Cardinality(OfPID(p)) + Cardinality(P(p))
    BY <2>1, CountUnion
  <2> QED BY <1>3, <2>1, <2>2, <2>3
<1> QED BY <1>6, <1>7, <1>8, <1>9 DEF SlotsAreExact, SharedClients, OfUID, OfPID

\* Clients that go, the pruned ones with the goroutine's own removal.
LEMMA SlotsRemoved ==
  ASSUME Types, SlotsAreExact, NEW S, S \subseteq Clients,
         owner' = Uncounted(S),
         \A c \in owner.clients : session'[c].shared = session[c].shared
  PROVE  SlotsAreExact'
<1> DEFINE N == {c \in S \cap owner.clients : session[c].shared}
           U(u) == {d \in (S \cap owner.clients) \ Privileged : UidOf[d] = u}
           P(p) == {d \in (S \cap owner.clients) \ Privileged : PidOf[d] = p}
<1>1. owner.clients \subseteq Clients /\ owner.other \in Int
  BY DEF Types, OwnerTypes
<1>2. /\ owner'.clients = owner.clients \ S
      /\ owner'.other = owner.other - Cardinality(N)
      /\ \A u \in Uids : owner'.byUID[u] = owner.byUID[u] - Cardinality(U(u))
      /\ \A p \in Pids : owner'.byPID[p] = owner.byPID[p] - Cardinality(P(p))
  BY UncountedFacts
<1>3. owner'.other = Cardinality(SharedClients') /\ owner'.other <= MaxOther
  <2>1. SharedClients' = SharedClients \ N /\ N \subseteq SharedClients
        /\ SharedClients \subseteq Clients
    BY <1>1, <1>2 DEF SharedClients
  <2>2. owner.other = Cardinality(SharedClients) /\ owner.other <= MaxOther
    BY DEF SlotsAreExact, SharedClients
  <2> HIDE DEF N
  <2>3. Cardinality(SharedClients \ N) = Cardinality(SharedClients) - Cardinality(N)
    BY <2>1, CountRest
  <2>4. Cardinality(N) \in Nat
    BY <2>1, CountIsInt
  <2> QED BY <1>1, <1>2, <2>1, <2>2, <2>3, <2>4, BoundsAssumption
<1>4. Cardinality(owner'.clients) <= MaxClients
  <2>1. Cardinality(owner.clients) \in Nat /\ IsFiniteSet(owner.clients)
    BY <1>1, CountIsInt
  <2>2. Cardinality(owner.clients \ S) <= Cardinality(owner.clients)
        /\ Cardinality(owner.clients \ S) \in Nat
    <3>1. owner.clients \ S \subseteq owner.clients
          /\ owner.clients \ S \subseteq Clients
      BY <1>1
    <3> QED BY <2>1, <3>1, FS_Subset, CountIsInt
  <2>3. Cardinality(owner.clients) <= MaxClients
    BY DEF SlotsAreExact
  <2> QED BY <1>2, <2>1, <2>2, <2>3, BoundsAssumption
<1>5. ASSUME NEW u \in Uids
      PROVE  owner'.byUID[u] = Cardinality(OfUID(u)')
  <2>1. OfUID(u)' = OfUID(u) \ U(u) /\ U(u) \subseteq OfUID(u)
        /\ OfUID(u) \subseteq Clients
    BY <1>1, <1>2 DEF OfUID
  <2>2. owner.byUID[u] = Cardinality(OfUID(u))
    BY DEF SlotsAreExact, OfUID
  <2> HIDE DEF U
  <2>3. Cardinality(OfUID(u) \ U(u)) = Cardinality(OfUID(u)) - Cardinality(U(u))
    BY <2>1, CountRest
  <2> QED BY <1>2, <2>1, <2>2, <2>3
<1>6. ASSUME NEW p \in Pids
      PROVE  owner'.byPID[p] = Cardinality(OfPID(p)')
  <2>1. OfPID(p)' = OfPID(p) \ P(p) /\ P(p) \subseteq OfPID(p)
        /\ OfPID(p) \subseteq Clients
    BY <1>1, <1>2 DEF OfPID
  <2>2. owner.byPID[p] = Cardinality(OfPID(p))
    BY DEF SlotsAreExact, OfPID
  <2> HIDE DEF P
  <2>3. Cardinality(OfPID(p) \ P(p)) = Cardinality(OfPID(p)) - Cardinality(P(p))
    BY <2>1, CountRest
  <2> QED BY <1>2, <2>1, <2>2, <2>3
<1> QED BY <1>3, <1>4, <1>5, <1>6 DEF SlotsAreExact, SharedClients, OfUID, OfPID

\* Every step keeps the counters exact.
LEMMA SlotsStep ==
  ASSUME Types, SlotsAreExact, \A c \in Clients : SessionInv(c), Next
  PROVE  SlotsAreExact'
<1> USE DEF daemon, time
<1>1. owner.clients \subseteq Clients /\ session \in [Clients -> SessionTypes]
  BY DEF Types, OwnerTypes
<1>2. ASSUME NEW c \in Clients, AddClient(c)
      PROVE  SlotsAreExact'
  <2>1. CASE CanAdmit(c) /\ alive[PidOf[c]]
    BY <1>2, <2>1, SlotsAdded
  <2>2. CASE ~(CanAdmit(c) /\ alive[PidOf[c]])
    BY <1>2, <2>2, SlotsUnchanged DEF AddClient
  <2> QED BY <2>1, <2>2
<1>3. ASSUME NEW c \in Clients, Receive(c)
      PROVE  SlotsAreExact'
  <2> DEFINE rec == Head(inbox[c])
  <2>1. \A d \in Clients \ {c} : session'[d] = session[d]
    BY <1>1, <1>3 DEF Receive
  <2>2. /\ owner'.clients = owner.clients
        /\ owner'.byUID = owner.byUID /\ owner'.byPID = owner.byPID
    BY <1>3 DEF Receive, Types, OwnerTypes
  <2>3. CASE Accepts(c, rec) /\ NeedsSlot(c, rec)
    <3>1. /\ ~session[c].shared /\ c \in owner.clients
          /\ owner.other < MaxOther
      BY <2>3 DEF Accepts, NeedsSlot
    <3>2. session' = [session EXCEPT ![c] = [session[c] EXCEPT
               !.pc = "apply", !.rec = rec, !.shared = @ \/ NeedsSlot(c, rec)]]
      BY <1>1, <1>3, <2>3 DEF Receive
    <3>3. session'[c].shared
      BY <1>1, <2>3, <3>2 DEF SessionTypes
    <3>4. owner'.other = owner.other + 1 /\ owner.other \in Int
      BY <1>3, <2>3 DEF Receive, Types, OwnerTypes
    <3> HIDE DEF rec
    <3>5. SharedClients' = SharedClients \cup {c} /\ c \notin SharedClients
          /\ SharedClients \subseteq Clients
      BY <1>1, <2>1, <2>2, <3>1, <3>3 DEF SharedClients
    <3>6. Cardinality(SharedClients \cup {c}) = Cardinality(SharedClients) + 1
      BY <3>5, CountIsInt, FS_AddElement
    <3>7. owner.other = Cardinality(SharedClients)
      BY DEF SlotsAreExact, SharedClients
    <3>8. owner'.other = Cardinality(SharedClients') /\ owner'.other <= MaxOther
      BY <3>1, <3>4, <3>5, <3>6, <3>7, BoundsAssumption
    <3> QED BY <2>2, <3>8 DEF SlotsAreExact, SharedClients
  <2>4. CASE ~(Accepts(c, rec) /\ NeedsSlot(c, rec))
    <3>1. owner'.other = owner.other
      BY <1>3, <2>4 DEF Receive, Types, OwnerTypes
    <3>2. session'[c].shared = session[c].shared
      <4>1. CASE Accepts(c, rec)
        <5>1. session' = [session EXCEPT ![c] = [session[c] EXCEPT
                 !.pc = "apply", !.rec = rec,
                 !.shared = @ \/ NeedsSlot(c, rec)]]
          BY <1>1, <1>3, <4>1 DEF Receive
        <5>2. session'[c].shared = (session[c].shared \/ NeedsSlot(c, rec))
          BY <1>1, <5>1 DEF SessionTypes
        <5>3. session[c].shared \in BOOLEAN
          BY <1>1 DEF SessionTypes
        <5> QED BY <2>4, <4>1, <5>2, <5>3
      <4>2. CASE ~Accepts(c, rec)
        <5>1. session' = [session EXCEPT ![c].pc = "remove"]
          BY <1>3, <4>2 DEF Receive
        <5> QED BY <1>1, <5>1 DEF SessionTypes
      <4> QED BY <4>1, <4>2
    <3>3. \A d \in owner.clients : session'[d].shared = session[d].shared
      BY <1>1, <2>1, <3>2
    <3> QED BY <2>2, <3>1, <3>3, SlotsUnchanged
  <2> QED BY <2>3, <2>4
<1>4. ASSUME NEW c \in Clients,
             ApplyOperation(c) \/ WriteAck(c) \/ ScanEnds(c)
      PROVE  SlotsAreExact'
  <2>1. /\ owner' = owner
        /\ \A d \in Clients : session'[d].shared = session[d].shared
    BY <1>1, <1>4 DEF ApplyOperation, WriteAck, ScanEnds, SessionTypes
  <2> QED BY <1>1, <2>1, SlotsUnchanged
<1>5. ASSUME NEW c \in Clients, RemoveClient(c)
      PROVE  SlotsAreExact'
  <2>1. /\ owner' = Uncounted({c})
        /\ \A d \in owner.clients : session'[d].shared = session[d].shared
    BY <1>1, <1>5 DEF RemoveClient, SessionTypes
  <2> QED BY <2>1, SlotsRemoved
<1>6. ASSUME NEW c \in Clients, ReleaseClient(c)
      PROVE  SlotsAreExact'
  <2>1. c \notin owner.clients
    BY <1>6 DEF ReleaseClient, SessionInv
  <2>2. /\ owner' = owner
        /\ \A d \in owner.clients : session'[d].shared = session[d].shared
    BY <1>1, <1>6, <2>1 DEF ReleaseClient
  <2> QED BY <2>2, SlotsUnchanged
<1>7. CASE Observe
  <2>1. Dead \subseteq Clients
    BY <1>1 DEF Dead
  <2>2. owner' = Uncounted(Dead) /\ session' = session
    BY <1>7 DEF Observe
  <2> QED BY <2>1, <2>2, SlotsRemoved
<1>8. CASE CloseAfterContext \/ AcceptFails \/ StopOwner
  <2>1. CloseOwner /\ session' = session
    BY <1>8 DEF CloseAfterContext, AcceptFails, StopOwner
  <2> QED BY <2>1, CloseFacts, SlotsUnchanged
<1>9. ASSUME NEW c \in Clients,
             Connect(c) \/ Send(c) \/ Resend(c) \/ AwaitAck(c) \/ GiveUp(c)
      PROVE  SlotsAreExact'
  <2>1. UNCHANGED <<owner, session>>
    BY <1>9 DEF Connect, Send, Resend, AwaitAck, GiveUp
  <2> QED BY <2>1, SlotsUnchanged
<1>10. CASE \/ \E p \in Pids, inherited \in BOOLEAN : ProcessDies(p, inherited)
            \/ \E why \in {"canceled", "failed"} : ContextEnds(why)
            \/ CommitExpiry \/ ServeReturns \/ LoopSeesContext \/ Join \/ Tick
  <2>1. UNCHANGED <<owner, session>>
    BY <1>10 DEF ProcessDies, ContextEnds, CommitExpiry, ServeReturns,
       LoopSeesContext, Join, Tick
  <2> QED BY <2>1, SlotsUnchanged
<1> QED BY <1>2, <1>3, <1>4, <1>5, <1>6, <1>7, <1>8, <1>9, <1>10 DEF Next

-----------------------------------------------------------------------------
(* The invariants.                                                         *)

\* Every step keeps the invariant.
LEMMA NextPreserves ==
  ASSUME IndInv, Next
  PROVE  IndInv'
<1>1. Types /\ TimerInv /\ ExpiryInv
  BY DEF IndInv
<1>2. \A c \in Clients : ClientInv(c) /\ SessionInv(c) /\ FirstInv(c)
  BY DEF IndInv
<1>3. Types'
  BY <1>1, <1>2, TypesStep
<1>4. TimerInv' /\ ExpiryInv'
  BY <1>1, TimerStep
<1>5. ASSUME NEW c \in Clients
      PROVE  ClientInv(c)' /\ SessionInv(c)' /\ FirstInv(c)'
  <2>1. ClientInv(c)'
    BY <1>1, <1>2, ClientStep
  <2>2. ASSUME NEW d \in Clients,
         \/ AddClient(d) \/ Receive(d) \/ ApplyOperation(d) \/ WriteAck(d)
         \/ ScanEnds(d) \/ RemoveClient(d) \/ ReleaseClient(d)
         \/ Connect(d) \/ Send(d) \/ Resend(d) \/ AwaitAck(d) \/ GiveUp(d)
        PROVE  SessionInv(c)' /\ FirstInv(c)'
    <3>1. CASE d # c
      <4>1. Same(c)
        BY <1>1, <2>2, <3>1, OthersAreSame
      <4> QED BY <1>2, <4>1, SameKeeps
    <3>2. CASE d = c
      BY <1>1, <1>2, <2>2, <3>2, SessionStep, CommandStep
    <3> QED BY <3>1, <3>2
  <2>3. CASE LoopNext
    <3>1. Types /\ ClientInv(c) /\ SessionInv(c) /\ FirstInv(c)
      BY <1>1, <1>2
    <3> QED BY <2>1, <2>3, <3>1, LoopStep
  <2> QED BY <2>1, <2>2, <2>3 DEF Next, LoopNext
<1> QED BY <1>3, <1>4, <1>5 DEF IndInv

\* So does a stuttering step.
LEMMA StutterPreserves ==
  ASSUME IndInv, UNCHANGED vars
  PROVE  IndInv'
BY DEF IndInv, vars, Types, TimerInv, ExpiryInv, ClientInv, SessionInv,
       FirstInv, First, Authorized, NeedsSlot

\* It holds initially.
LEMMA InitEstablishes ==
  ASSUME Init
  PROVE  IndInv
<1>1. PICK t \in Timeouts :
        /\ monitor = [timeout |-> t, armed |-> t > 0, protected |-> {},
                      stopping |-> FALSE]
        /\ age = IF t > 0 THEN 0 ELSE LongestTimeout
  BY DEF Init
<1>2. Types
  <2>1. monitor \in MonitorTypes
    <3>1. (t > 0) \in BOOLEAN
      OBVIOUS
    <3> QED BY <1>1, <3>1 DEF MonitorTypes
  <2>2. age \in 0 .. LongestTimeout /\ quiet \in 0 .. LongestTimeout
    BY <1>1, LongestFacts DEF Init
  <2>3. owner \in OwnerTypes
    BY DEF Init, OwnerTypes
  <2>4. session \in [Clients -> SessionTypes]
    BY NoRecordSendable DEF Init, NoSession, SessionTypes
  <2>5. client \in [Clients -> ClientTypes]
    BY NoRecordSendable DEF Init, NoClient, ClientTypes
  <2>6. faults \in 0 .. MaxFaults
    BY BoundsAssumption DEF Init
  <2>7. loop \in LoopTypes
    BY DEF Init, LoopTypes
  <2> QED BY <2>1, <2>2, <2>3, <2>4, <2>5, <2>6, <2>7 DEF Init, Types
<1>3. TimerInv
  <2>1. monitor.timeout = t /\ monitor.armed = (t > 0) /\ quiet = 0
    BY <1>1 DEF Init
  <2>2. t > 0 => age = 0
    BY <1>1
  <2>3. monitor.armed <=> monitor.timeout > 0
    BY <2>1
  <2> QED BY <2>1, <2>2, <2>3 DEF TimerInv
<1>4. ExpiryInv
  BY DEF Init, ExpiryInv
<1>5. ASSUME NEW c \in Clients
      PROVE  ClientInv(c) /\ SessionInv(c) /\ FirstInv(c)
  <2>1. /\ client[c].pc = "idle" /\ client[c].rec.seq = 0
        /\ client[c].rec.state = "none"
        /\ session[c] = NoSession /\ session[c].pc = "none"
        /\ session[c].applied = NoRecord
        /\ conn[c] = "none" /\ inbox[c] = <<>> /\ acks[c] = <<>>
        /\ owner.clients = {} /\ monitor.protected = {}
    BY <1>1 DEF Init, NoClient, NoRecord, NoSession
  <2>2. ClientInv(c)
    BY <2>1 DEF ClientInv, Policies
  <2>3. SessionInv(c)
    BY <2>1 DEF SessionInv
  <2>4. FirstInv(c)
    BY <2>1 DEF FirstInv, First
  <2> QED BY <2>2, <2>3, <2>4
<1> QED BY <1>2, <1>3, <1>4, <1>5 DEF IndInv

\* The strengthening holds in every reachable state.
THEOREM Invariance == Spec => []IndInv
<1>1. IndInv /\ [Next]_vars => IndInv'
  BY NextPreserves, StutterPreserves
<1> QED BY InitEstablishes, <1>1, PTL DEF Spec

\* Acknowledged work is protected until it ends: the container does not stop
\* under it and its connection is cut only when the owner is closed (Apply,
\* commitExpiry, pruneDeadClients, validateSession against repeated records).
THEOREM WorkIsProtected == Spec => []AcknowledgedIsProtected
<1>1. IndInv => AcknowledgedIsProtected
  BY DEF IndInv, ClientInv, SessionInv, FirstInv, First,
         AcknowledgedIsProtected
<1> QED BY Invariance, <1>1, PTL

\* The loop returns ErrInactivityExpired only after a whole idle timeout
\* (commitExpiry against the arming and resetting in LifecycleMonitor.Apply).
THEOREM StopIsIdle == Spec => []StopsOnlyWhenIdle
<1>1. IndInv => StopsOnlyWhenIdle
  BY DEF IndInv, ExpiryInv, StopsOnlyWhenIdle
<1> QED BY Invariance, <1>1, PTL

\* No protection outlives its session's goroutine (removeClient and
\* pruneDeadClients against a record that is being applied).
THEOREM ProtectionEnds == Spec => []ProtectionHasSession
<1>1. IndInv => ProtectionHasSession
  <2> SUFFICES ASSUME IndInv, NEW c \in monitor.protected
               PROVE  session[c].pc \notin {"none", "done"}
    BY DEF ProtectionHasSession
  <2>1. c \in Clients
    BY DEF IndInv, Types, MonitorTypes
  <2> QED BY <2>1 DEF IndInv, SessionInv
<1> QED BY Invariance, <1>1, PTL

\* The counters behind canAdmit are those of the clients present, and the
\* limits hold: no double removal by pruneDeadClients and removeClient.
THEOREM SlotsExact == Spec => []SlotsAreExact
<1>1. Init => SlotsAreExact
  <2> SUFFICES ASSUME Init PROVE SlotsAreExact
    OBVIOUS
  <2>1. /\ owner.clients = {} /\ owner.other = 0
        /\ \A u \in Uids : owner.byUID[u] = 0
        /\ \A p \in Pids : owner.byPID[p] = 0
    BY DEF Init
  <2>2. /\ SharedClients = {}
        /\ \A u \in Uids : OfUID(u) = {}
        /\ \A p \in Pids : OfPID(p) = {}
    BY <2>1 DEF SharedClients, OfUID, OfPID
  <2>3. Cardinality({}) = 0
    BY FS_EmptySet
  <2>4. \A u \in Uids : owner.byUID[u] = Cardinality(OfUID(u))
    BY <2>1, <2>2, <2>3
  <2>5. \A p \in Pids : owner.byPID[p] = Cardinality(OfPID(p))
    BY <2>1, <2>2, <2>3
  <2>6. /\ owner.other = Cardinality(SharedClients)
        /\ owner.other <= MaxOther /\ Cardinality(owner.clients) <= MaxClients
    BY <2>1, <2>2, <2>3, BoundsAssumption
  <2> QED BY <2>4, <2>5, <2>6 DEF SlotsAreExact, SharedClients, OfUID, OfPID
<1>2. SlotsAreExact /\ IndInv /\ [Next]_vars => SlotsAreExact'
  <2>1. ASSUME SlotsAreExact, IndInv, Next PROVE SlotsAreExact'
    BY <2>1, SlotsStep DEF IndInv
  <2>2. ASSUME SlotsAreExact, UNCHANGED vars PROVE SlotsAreExact'
    BY <2>2, SlotsUnchanged DEF vars
  <2> QED BY <2>1, <2>2
<1> QED BY Invariance, <1>1, <1>2, PTL DEF Spec

\* Every variable keeps its type; no counter of the owner becomes negative.
THEOREM TypeCorrect == Spec => []TypeOK
<1>1. IndInv /\ SlotsAreExact => TypeOK
  <2> SUFFICES ASSUME IndInv, SlotsAreExact PROVE TypeOK
    OBVIOUS
  <2>1. Types
    BY DEF IndInv
  <2>2. Sendable \subseteq Record
    BY DEF Sendable
  <2>3. owner \in [closed : BOOLEAN, clients : SUBSET Clients, other : Nat,
                   byUID : [Uids -> Nat], byPID : [Pids -> Nat]]
    <3>1. owner \in OwnerTypes /\ owner.clients \subseteq Clients
      BY <2>1 DEF Types, OwnerTypes
    <3>2. owner.other \in Nat
      <4>1. SharedClients \subseteq Clients
        BY <3>1 DEF SharedClients
      <4> QED BY <4>1, CountIsInt DEF SlotsAreExact, SharedClients
    <3>3. \A u \in Uids : owner.byUID[u] \in Nat
      <4>1. \A u \in Uids : OfUID(u) \subseteq Clients
        BY <3>1 DEF OfUID
      <4>2. \A u \in Uids : owner.byUID[u] = Cardinality(OfUID(u))
        BY DEF SlotsAreExact, OfUID
      <4> QED BY <4>1, <4>2, CountIsInt
    <3>4. \A p \in Pids : owner.byPID[p] \in Nat
      <4>1. \A p \in Pids : OfPID(p) \subseteq Clients
        BY <3>1 DEF OfPID
      <4>2. \A p \in Pids : owner.byPID[p] = Cardinality(OfPID(p))
        BY DEF SlotsAreExact, OfPID
      <4> QED BY <4>1, <4>2, CountIsInt
    <3>5. owner.byUID \in [Uids -> Nat] /\ owner.byPID \in [Pids -> Nat]
      BY <3>1, <3>3, <3>4 DEF OwnerTypes
    <3> QED BY <3>1, <3>2, <3>5 DEF OwnerTypes
  <2>4. session \in [Clients ->
         [pc : {"none", "scan", "apply", "ack", "remove", "release", "done"},
          rec : Record, shared : BOOLEAN, protected : BOOLEAN,
          applied : Record, err : BOOLEAN]]
    BY <2>1, <2>2 DEF Types, SessionTypes
  <2>5. client \in [Clients ->
         [pc : {"idle", "connected", "sending", "work", "settled", "gone"},
          rec : Record]]
    BY <2>1, <2>2 DEF Types, ClientTypes
  <2>6. inbox \in [Clients -> Seq(Record)]
    <3>1. \A q \in Seq(Sendable) : q \in Seq(Record)
      BY <2>2
    <3> QED BY <2>1, <3>1 DEF Types
  <2> QED BY <2>1, <2>3, <2>4, <2>5, <2>6 DEF TypeOK, Types, MonitorTypes,
             LoopTypes
<1> QED BY Invariance, SlotsExact, <1>1, PTL

=============================================================================
