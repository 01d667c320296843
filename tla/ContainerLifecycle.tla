-------------------------- MODULE ContainerLifecycle --------------------------
(***************************************************************************)
(* The owner of a managed container's inactivity shutdown: LifecycleLoop,  *)
(* LifecycleMonitor and LifecycleOwner in the container's daemon, and the  *)
(* clients that keep the container alive over a Unix socket, setup commands*)
(* and activity writers (pkg/daemon/agent,                                 *)
(* cmd/internal/agentcontainer/lifecycle.go).                              *)
(*                                                                         *)
(* A critical section of the owner's or the monitor's mutex is one step.   *)
(* What interleaves is the rest: a session's goroutine between validate,   *)
(* Apply, the acknowledgement and its removal, the loop between            *)
(* pruneDeadClients and commitExpiry, and the clients, which repeat a      *)
(* record until it is acknowledged.                                        *)
(***************************************************************************)
EXTENDS Naturals, Sequences, FiniteSets

CONSTANTS
  Clients,     \* LifecycleClient connections
  Setups,      \* those of a setup command; the others are activity writers
  Privileged,  \* those of root or of the daemon's user
  UidOf,       \* user of each client
  PidOf,       \* process of each client
  Timeouts,    \* inactivity timeouts a policy may set; 0 disables the timer
  Invalid,     \* a timeout that does not parse
  MaxClients,  \* maxLifecycleClients
  MaxOther,    \* maxOtherLifecycleClients
  MaxUID,      \* maxLifecycleUIDClients
  MaxPID,      \* maxLifecyclePIDClients
  MaxFaults,   \* bound on repeated records, lost acknowledgements, deaths of
               \* processes, failures of Accept and ends of the context
  AckBuffer    \* capacity of LifecycleClient.acks

Uids == {UidOf[c] : c \in Clients}
Pids == {PidOf[c] : c \in Clients}
LongestTimeout == CHOOSE t \in Timeouts : \A u \in Timeouts : u <= t

ASSUME ClientsAssumption ==
  /\ IsFiniteSet(Clients)
  /\ Setups \subseteq Clients
  /\ Privileged \subseteq Clients
  /\ UidOf \in [Clients -> Uids]
  /\ PidOf \in [Clients -> Pids]

ASSUME TimeoutsAssumption ==
  /\ Timeouts \subseteq Nat
  /\ \E t \in Timeouts : \A u \in Timeouts : u <= t
  /\ Invalid \notin Nat

ASSUME BoundsAssumption ==
  /\ {MaxClients, MaxOther, MaxUID, MaxPID, MaxFaults} \subseteq Nat
  /\ MaxOther <= MaxClients
  /\ AckBuffer \in Nat \ {0}

VARIABLES
  monitor,  \* LifecycleMonitor; protected holds clients for protection IDs
  age,      \* time since monitor.armedAt
  owner,    \* LifecycleOwner
  session,  \* per client: its lifecycleSession and serveClient goroutine
  conn,     \* per client: its connection
  inbox,    \* per client: records written and not yet scanned
  acks,     \* per client: acknowledgements not yet received
  client,   \* per client: the LifecycleClient and the command using it
  alive,    \* per process: it runs
  loop,     \* LifecycleLoop.Run, its context and its result
  quiet,    \* history: time since a client was last protected
  faults    \* faults so far

daemon == <<monitor, age, quiet, owner, session, loop>>
time == <<monitor, age, quiet>>
vars == <<monitor, age, owner, session, conn, inbox, acks, client, alive,
          loop, quiet, faults>>

Policies == {"setup", "ready", "failed"}
States == Policies \cup {"activity", "release"}
NoRecord == [seq |-> 0, state |-> "none", timeout |-> 0]
NoSession == [pc |-> "none", rec |-> NoRecord, shared |-> FALSE,
              protected |-> FALSE, applied |-> NoRecord, err |-> FALSE]
Over == [NoSession EXCEPT !.pc = "done"]
NoClient == [pc |-> "idle", rec |-> NoRecord]
Gone == [NoClient EXCEPT !.pc = "gone"]

Fault == faults < MaxFaults /\ faults' = faults + 1

-----------------------------------------------------------------------------
(* LifecycleMonitor                                                        *)

\* m with these clients protected; a fresh idle interval if reset.
Protect(m, clients, reset) ==
  /\ monitor' = [m EXCEPT !.protected = clients]
  /\ age' = IF reset THEN 0 ELSE age
  /\ quiet' = IF clients # {} THEN 0 ELSE quiet

\* Mutant: the idle interval of an earlier client goes on.
ReleaseKeepsClock(clients) == Protect(monitor, monitor.protected \ clients, FALSE)

Release(clients) ==
  Protect(monitor, monitor.protected \ clients,
          clients \cap monitor.protected # {})

Policy(rec) ==
  IF rec.state \in Policies
    THEN [monitor EXCEPT !.timeout = rec.timeout, !.armed = rec.timeout > 0]
    ELSE monitor

Rejects(rec) ==
  monitor.stopping \/ (rec.state \in Policies /\ rec.timeout = Invalid)

Apply(c, rec) ==
  IF Rejects(rec) THEN UNCHANGED time
  ELSE IF rec.state \in {"setup", "activity"}
  THEN Protect(Policy(rec), monitor.protected \cup {c}, FALSE)
  ELSE IF rec.state = "release" THEN Release({c})
  ELSE Protect(Policy(rec), monitor.protected \ {c}, TRUE)

\* Mutant: any connection keeps the container alive, not only protected work.
ExpiredWithoutClients ==
  /\ monitor.armed /\ monitor.protected = {} /\ age >= monitor.timeout
  /\ owner.clients = {}

Expired ==
  monitor.armed /\ monitor.protected = {} /\ age >= monitor.timeout

-----------------------------------------------------------------------------
(* LifecycleOwner                                                          *)

CanAdmit(c) ==
  /\ Cardinality(owner.clients) < MaxClients
  /\ \/ c \in Privileged
     \/ /\ owner.other < MaxOther
        /\ owner.byUID[UidOf[c]] < MaxUID
        /\ owner.byPID[PidOf[c]] < MaxPID

\* countClient and removeClientLocked: the counts after the clients in S, and
\* those of them with a shared slot, have come or gone.
Counted(S, shared) ==
  [owner EXCEPT
     !.clients = @ \cup S,
     !.other = @ + Cardinality(shared),
     !.byUID = [u \in Uids |->
                  @[u] + Cardinality({c \in S \ Privileged : UidOf[c] = u})],
     !.byPID = [p \in Pids |->
                  @[p] + Cardinality({c \in S \ Privileged : PidOf[c] = p})]]

\* Mutant: a session that was pruned is subtracted again by its goroutine.
UncountedAgain(S) ==
  [owner EXCEPT
     !.clients = @ \ S,
     !.other = @ - Cardinality({c \in S : session[c].shared}),
     !.byUID = [u \in Uids |->
        @[u] - Cardinality({c \in S \ Privileged : UidOf[c] = u})],
     !.byPID = [p \in Pids |->
        @[p] - Cardinality({c \in S \ Privileged : PidOf[c] = p})]]

Uncounted(S) ==
  LET gone == S \cap owner.clients
  IN [owner EXCEPT
        !.clients = @ \ gone,
        !.other = @ - Cardinality({c \in gone : session[c].shared}),
        !.byUID = [u \in Uids |->
           @[u] - Cardinality({c \in gone \ Privileged : UidOf[c] = u})],
        !.byPID = [p \in Pids |->
           @[p] - Cardinality({c \in gone \ Privileged : PidOf[c] = p})]]

\* Serve accepts the connection and addClient admits it or it is closed.
AddClient(c) ==
  /\ conn[c] = "backlog"
  /\ ~owner.closed
  /\ IF CanAdmit(c) /\ alive[PidOf[c]]
       THEN LET shared == c \notin Privileged
            IN /\ owner' = Counted({c}, IF shared THEN {c} ELSE {})
               /\ session' = [session EXCEPT ![c] =
                    [NoSession EXCEPT !.pc = "scan", !.shared = shared]]
               /\ conn' = [conn EXCEPT ![c] = "open"]
       ELSE /\ conn' = [conn EXCEPT ![c] = "closed"]
            /\ UNCHANGED <<owner, session>>
  /\ UNCHANGED <<time, inbox, acks, client, alive, loop, faults>>

Authorized(c, rec) ==
  rec.state \in {"activity", "release"} \/ c \in Privileged

\* classifyActivity: activity of a privileged client takes a shared slot too.
NeedsSlot(c, rec) ==
  ~session[c].shared /\ rec.state \in {"activity", "release"}

\* Mutant: validateSession does not look for the session.
AcceptsPruned(c, rec) ==
  /\ Authorized(c, rec)
  /\ ~owner.closed
  /\ NeedsSlot(c, rec) => owner.other < MaxOther

Accepts(c, rec) ==
  /\ Authorized(c, rec)
  /\ ~owner.closed /\ c \in owner.clients
  /\ NeedsSlot(c, rec) => owner.other < MaxOther

\* One turn of serveClient's loop up to applyOperation: scan and validate.
Receive(c) ==
  /\ session[c].pc = "scan"
  /\ inbox[c] # <<>>
  /\ LET rec == Head(inbox[c])
     IN IF Accepts(c, rec)
          THEN /\ session' = [session EXCEPT
                    ![c].pc = "apply", ![c].rec = rec,
                    ![c].shared = @ \/ NeedsSlot(c, rec)]
               /\ owner' = [owner EXCEPT
                    !.other = IF NeedsSlot(c, rec) THEN @ + 1 ELSE @]
          ELSE /\ session' = [session EXCEPT ![c].pc = "remove"]
               /\ UNCHANGED owner
  /\ inbox' = [inbox EXCEPT ![c] = Tail(@)]
  /\ UNCHANGED <<time, conn, acks, client, alive, loop, faults>>

\* Mutant: a repeated record is not recognised.
RepeatedNever(c) == FALSE

Repeated(c) == session[c].rec = session[c].applied

\* applyOperation with transitionProtection.
ApplyOperation(c) ==
  LET rec == session[c].rec
      ok == ~Rejects(rec)
  IN /\ session[c].pc = "apply"
     /\ IF Repeated(c)
          THEN /\ session' = [session EXCEPT ![c].pc = "ack", ![c].rec = NoRecord]
               /\ UNCHANGED time
        ELSE IF rec.seq # session[c].applied.seq + 1
          THEN session' = [session EXCEPT ![c].pc = "remove"] /\ UNCHANGED time
        ELSE /\ Apply(c, rec)
             /\ session' = [session EXCEPT
                  ![c].pc = "ack", ![c].rec = NoRecord,
                  ![c].applied = rec, ![c].err = ~ok,
                  ![c].protected = IF ok THEN rec.state \in {"setup", "activity"}
                                   ELSE @]
     /\ UNCHANGED <<owner, conn, inbox, acks, client, alive, loop, faults>>

Newest(s) == IF Len(s) > AckBuffer THEN Tail(s) ELSE s

\* writeSocketAck, and deliverAck in the client: a full queue drops its oldest.
\* A write that fails leaves the result to a repetition of the record.
WriteAck(c) ==
  /\ session[c].pc = "ack"
  /\ session' = [session EXCEPT ![c].pc = "scan"]
  /\ \/ /\ conn[c] = "open"
        /\ acks' = [acks EXCEPT ![c] =
             Newest(Append(@, [seq |-> session[c].applied.seq,
                               err |-> session[c].err]))]
        /\ UNCHANGED faults
     \/ /\ conn[c] = "closed"
        /\ UNCHANGED <<acks, faults>>
     \/ /\ conn[c] = "open"
        /\ Fault
        /\ UNCHANGED acks
  /\ UNCHANGED <<time, owner, conn, inbox, client, alive, loop>>

\* The connection is closed, or it is not protected and the read deadline
\* passes.
ScanEnds(c) ==
  /\ session[c].pc = "scan"
  /\ conn[c] = "closed" \/ ~session[c].protected
  /\ session' = [session EXCEPT ![c].pc = "remove"]
  /\ UNCHANGED <<time, owner, conn, inbox, acks, client, alive, loop, faults>>

\* removeClient: first the session, then, under the other mutex, its protection.
RemoveClient(c) ==
  /\ session[c].pc = "remove"
  /\ session' = [session EXCEPT ![c].pc = "release"]
  /\ owner' = Uncounted({c})
  /\ conn' = [conn EXCEPT ![c] = "closed"]
  /\ UNCHANGED <<time, inbox, acks, client, alive, loop, faults>>

\* Mutant: removeClient leaves the protection to pruneDeadClients.
ReleaseClientForgets(c) ==
  /\ session[c].pc = "release"
  /\ session' = [session EXCEPT ![c] = Over]
  /\ inbox' = [inbox EXCEPT ![c] = <<>>]
  /\ UNCHANGED <<time, owner, conn, acks, client, alive, loop, faults>>

ReleaseClient(c) ==
  /\ session[c].pc = "release"
  /\ Release({c})
  /\ session' = [session EXCEPT ![c] = Over]
  /\ inbox' = [inbox EXCEPT ![c] = <<>>]
  /\ UNCHANGED <<owner, conn, acks, client, alive, loop, faults>>

\* Mutant: Close leaves the connections it has accepted.
CloseListenerOnly ==
  /\ owner' = [owner EXCEPT !.closed = TRUE]
  /\ conn' = [c \in Clients |->
       IF conn[c] = "backlog" THEN "closed" ELSE conn[c]]

\* Owner.Close, which also resets what the listener has not accepted.
CloseOwner ==
  /\ owner' = [owner EXCEPT !.closed = TRUE]
  /\ conn' = [c \in Clients |->
       IF c \in owner.clients \/ conn[c] = "backlog" THEN "closed" ELSE conn[c]]

SessionsDone == \A c \in Clients : session[c].pc \in {"none", "done"}

-----------------------------------------------------------------------------
(* LifecycleLoop.Run                                                       *)

\* Mutant: only the end of a connection removes its client.
DeadNever == {}

Dead == {c \in owner.clients : ~alive[PidOf[c]]}

\* pruneDeadClients.  It holds the owner's mutex throughout; the releases of
\* different clients commute with every Apply.
Observe ==
  /\ loop.pc = "check"
  /\ loop' = [loop EXCEPT !.pc = "commit"]
  /\ owner' = Uncounted(Dead)
  /\ Release(Dead)
  /\ conn' = [c \in Clients |-> IF c \in Dead THEN "closed" ELSE conn[c]]
  /\ UNCHANGED <<session, inbox, acks, client, alive, faults>>

CommitExpiry ==
  /\ loop.pc = "commit"
  /\ monitor' = [monitor EXCEPT !.stopping = @ \/ Expired]
  /\ loop' = IF Expired
               THEN [loop EXCEPT !.pc = "leave", !.result = "ErrInactivityExpired"]
               ELSE [loop EXCEPT !.pc = "check"]
  /\ UNCHANGED <<age, quiet, owner, session, conn, inbox, acks, client, alive, faults>>

\* A signal cancels the daemon's context, or the failure of another task.
ContextEnds(why) ==
  /\ loop.ctx = "live" /\ loop.pc # "returned"
  /\ Fault
  /\ loop' = [loop EXCEPT !.ctx = why]
  /\ UNCHANGED <<time, owner, session, conn, inbox, acks, client, alive>>

\* Serve's context.AfterFunc.
CloseAfterContext ==
  /\ loop.ctx # "live"
  /\ ~owner.closed
  /\ CloseOwner
  /\ UNCHANGED <<time, session, inbox, acks, client, alive, loop, faults>>

\* Accept fails: Serve closes the owner, waits for the sessions and cancels
\* the loop's context with the error.
AcceptFails ==
  /\ ~owner.closed
  /\ Fault
  /\ loop' = [loop EXCEPT !.serve = "failed"]
  /\ CloseOwner
  /\ UNCHANGED <<time, session, inbox, acks, client, alive>>

ServeReturns ==
  /\ loop.serve = "failed" /\ SessionsDone /\ loop.ctx = "live"
  /\ loop' = [loop EXCEPT !.ctx = "failed"]
  /\ UNCHANGED <<time, owner, session, conn, inbox, acks, client, alive, faults>>

LoopSeesContext ==
  /\ loop.pc = "check" /\ loop.ctx # "live"
  /\ loop' = [loop EXCEPT !.pc = "leave",
                !.result = IF loop.ctx = "canceled" THEN "nil" ELSE "error"]
  /\ UNCHANGED <<time, owner, session, conn, inbox, acks, client, alive, faults>>

\* The deferred stopOwner: cancel, Close, and the wait for Serve.
StopOwner ==
  /\ loop.pc = "leave"
  /\ loop' = [loop EXCEPT !.pc = "join",
                          !.ctx = IF @ = "live" THEN "canceled" ELSE @]
  /\ CloseOwner
  /\ UNCHANGED <<time, session, inbox, acks, client, alive, faults>>

Join ==
  /\ loop.pc = "join" /\ SessionsDone
  /\ loop' = [loop EXCEPT !.pc = "returned"]
  /\ UNCHANGED <<time, owner, session, conn, inbox, acks, client, alive, faults>>

Older(t) == IF t < LongestTimeout THEN t + 1 ELSE t

\* One observation takes no time: it ends before the clock goes on.
Tick ==
  /\ loop.pc = "check"
  /\ age' = Older(age)
  /\ quiet' = IF monitor.protected # {} THEN 0 ELSE Older(quiet)
  /\ UNCHANGED <<monitor, owner, session, conn, inbox, acks, client, alive, loop, faults>>

-----------------------------------------------------------------------------
(* LifecycleClient and the commands that use it                            *)

\* connectOwner; a setup command also reads its policy.
Connect(c) ==
  /\ client[c].pc = "idle" /\ alive[PidOf[c]] /\ ~owner.closed
  /\ \E t \in IF c \in Setups THEN Timeouts \cup {Invalid} ELSE {0} :
       client' = [client EXCEPT ![c].pc = "connected", ![c].rec.timeout = t]
  /\ conn' = [conn EXCEPT ![c] = "backlog"]
  /\ UNCHANGED <<daemon, inbox, acks, alive, faults>>

\* What the command sends next.  It works from the first acknowledgement until
\* it sends its release, or, a setup command, until it is ready or has failed.
\* A setup whose result cannot be reported fails after it was ready.
NextStates(c) ==
  CASE client[c].pc = "connected" -> {IF c \in Setups THEN "setup" ELSE "activity"}
    [] client[c].pc = "work" -> IF c \in Setups THEN {"ready", "failed"} ELSE {"release"}
    [] client[c].pc = "settled" -> {"failed"}
    [] OTHER -> {}

\* A write to a connection that the owner has closed fails: GiveUp.
Send(c) ==
  \E state \in NextStates(c) :
    LET rec == [client[c].rec EXCEPT !.seq = @ + 1, !.state = state]
    IN /\ conn[c] \in {"backlog", "open"}
       /\ client' = [client EXCEPT ![c] = [pc |-> "sending", rec |-> rec]]
       /\ inbox' = [inbox EXCEPT ![c] = Append(@, rec)]
       /\ UNCHANGED <<daemon, conn, acks, alive, faults>>

\* awaitAck returns without an acknowledgement: the same record again.
Resend(c) ==
  /\ client[c].pc = "sending"
  /\ conn[c] \in {"backlog", "open"}
  /\ Fault
  /\ inbox' = [inbox EXCEPT ![c] = Append(@, client[c].rec)]
  /\ UNCHANGED <<daemon, conn, acks, client, alive>>

\* LifecycleClient.Close.  ProtectedContext cancels the work.
Hangup(c) ==
  /\ client' = [client EXCEPT ![c] = Gone]
  /\ acks' = [acks EXCEPT ![c] = <<>>]
  /\ conn' = [conn EXCEPT ![c] = "closed"]

Acknowledged(c) ==
  [client EXCEPT ![c].pc =
     IF client[c].rec.state = "ready" THEN "settled" ELSE "work"]

\* awaitAck: acknowledgements of earlier records are skipped.
AwaitAck(c) ==
  LET ack == Head(acks[c])
      rec == client[c].rec
  IN /\ client[c].pc = "sending" /\ acks[c] # <<>>
     /\ IF ack.seq = rec.seq /\ (ack.err \/ rec.state \in {"release", "failed"})
          THEN Hangup(c)
          ELSE /\ client' = IF ack.seq = rec.seq THEN Acknowledged(c) ELSE client
               /\ acks' = [acks EXCEPT ![c] = Tail(@)]
               /\ UNCHANGED conn
     /\ UNCHANGED <<daemon, inbox, alive, faults>>

\* The acknowledgement deadline passes, the connection is lost, the context of
\* the command ends, or a setup command is done.
GiveUp(c) ==
  /\ client[c].pc \notin {"idle", "gone"}
  /\ Hangup(c)
  /\ UNCHANGED <<daemon, inbox, alive, faults>>

\* A process dies; a child may have inherited its sockets and keep them open.
ProcessDies(p, inherited) ==
  LET mine == {c \in Clients : PidOf[c] = p /\ client[c].pc \notin {"idle", "gone"}}
  IN /\ alive[p]
     /\ Fault
     /\ alive' = [alive EXCEPT ![p] = FALSE]
     /\ client' = [c \in Clients |->
          IF c \in mine THEN Gone ELSE client[c]]
     /\ conn' = [c \in Clients |->
          IF c \in mine /\ ~inherited THEN "closed" ELSE conn[c]]
     /\ acks' = [c \in Clients |-> IF c \in mine THEN <<>> ELSE acks[c]]
     /\ UNCHANGED <<daemon, inbox>>

-----------------------------------------------------------------------------

\* newLifecycleLoop: setup arms the timer, or the daemon does at its start.
Init ==
  /\ \E t \in Timeouts :
       /\ monitor = [timeout |-> t, armed |-> t > 0, protected |-> {},
                     stopping |-> FALSE]
       /\ age = IF t > 0 THEN 0 ELSE LongestTimeout
  /\ quiet = 0
  /\ faults = 0
  /\ owner = [closed |-> FALSE, clients |-> {}, other |-> 0,
              byUID |-> [u \in Uids |-> 0], byPID |-> [p \in Pids |-> 0]]
  /\ session = [c \in Clients |-> NoSession]
  /\ conn = [c \in Clients |-> "none"]
  /\ inbox = [c \in Clients |-> <<>>]
  /\ acks = [c \in Clients |-> <<>>]
  /\ client = [c \in Clients |-> NoClient]
  /\ alive = [p \in Pids |-> TRUE]
  /\ loop = [pc |-> "check", ctx |-> "live", serve |-> "serving", result |-> "none"]

\* A step that serveClient's goroutine takes without waiting for the client.
Session(c) ==
  \/ Receive(c) \/ ApplyOperation(c) \/ WriteAck(c)
  \/ conn[c] = "closed" /\ ScanEnds(c)
  \/ RemoveClient(c) \/ ReleaseClient(c)

Next ==
  \/ \E c \in Clients :
       \/ AddClient(c) \/ Receive(c) \/ ApplyOperation(c) \/ WriteAck(c)
       \/ ScanEnds(c) \/ RemoveClient(c) \/ ReleaseClient(c)
       \/ Connect(c) \/ Send(c) \/ Resend(c) \/ AwaitAck(c) \/ GiveUp(c)
  \/ \E p \in Pids, inherited \in BOOLEAN : ProcessDies(p, inherited)
  \/ \E why \in {"canceled", "failed"} : ContextEnds(why)
  \/ Observe \/ CommitExpiry \/ CloseAfterContext
  \/ AcceptFails \/ ServeReturns \/ LoopSeesContext \/ StopOwner \/ Join
  \/ Tick

Spec == Init /\ [][Next]_vars

\* Goroutines of the daemon that can run do, and time passes.  Between two
\* observations the loop waits for a timer that is not due, so a context that
\* has ended wins its select.  Clients need not do anything, not even notice
\* that they lost their connection.
Fairness ==
  /\ \A c \in Clients : WF_vars(Session(c))
  /\ WF_vars(Observe \/ CommitExpiry \/ StopOwner \/ Join)
  /\ WF_vars(CloseAfterContext \/ ServeReturns)
  /\ SF_vars(LoopSeesContext)
  /\ SF_vars(Tick)

FairSpec == Spec /\ Fairness

-----------------------------------------------------------------------------
(* Properties                                                              *)

Record == [seq : Nat, state : States \cup {"none"},
           timeout : Timeouts \cup {Invalid, 0}]

\* Every variable keeps its type.
TypeOK ==
  /\ monitor \in [timeout : Timeouts, armed : BOOLEAN,
                  protected : SUBSET Clients, stopping : BOOLEAN]
  /\ age \in 0 .. LongestTimeout
  /\ quiet \in 0 .. LongestTimeout
  /\ owner \in [closed : BOOLEAN, clients : SUBSET Clients, other : Nat,
                byUID : [Uids -> Nat], byPID : [Pids -> Nat]]
  /\ session \in [Clients ->
       [pc : {"none", "scan", "apply", "ack", "remove", "release", "done"},
        rec : Record, shared : BOOLEAN, protected : BOOLEAN,
        applied : Record, err : BOOLEAN]]
  /\ conn \in [Clients -> {"none", "backlog", "open", "closed"}]
  /\ inbox \in [Clients -> Seq(Record)]
  /\ acks \in [Clients -> Seq([seq : Nat, err : BOOLEAN])]
  /\ client \in [Clients ->
       [pc : {"idle", "connected", "sending", "work", "settled", "gone"},
        rec : Record]]
  /\ faults \in 0 .. MaxFaults
  /\ alive \in [Pids -> BOOLEAN]
  /\ loop \in [pc : {"check", "commit", "leave", "join", "returned"},
               ctx : {"live", "canceled", "failed"},
               serve : {"serving", "failed"},
               result : {"none", "nil", "error", "ErrInactivityExpired"}]

\* Work that was acknowledged is protected until it ends: the container does
\* not stop under it, and its connection is cut only when the whole owner is
\* closed, whatever records are repeated, acknowledgements lost and other
\* clients pruned or refused.
AcknowledgedIsProtected ==
  \A c \in Clients :
    client[c].pc = "work" /\ ~owner.closed =>
      /\ c \in monitor.protected
      /\ ~monitor.stopping
      /\ conn[c] = "open"

\* The loop returns ErrInactivityExpired only after the whole timeout passed
\* without any protected client, although the timer was armed, disarmed and
\* restarted by several clients.
StopsOnlyWhenIdle ==
  loop.result = "ErrInactivityExpired" =>
    /\ monitor.protected = {}
    /\ quiet >= monitor.timeout /\ monitor.timeout > 0

\* Protection does not outlive the goroutine of its session, also when a record
\* was applied after pruneDeadClients had released the client.
ProtectionHasSession ==
  \A c \in monitor.protected : session[c].pc \notin {"none", "done"}

\* The counters that admit clients are those of the clients present: nothing is
\* counted for a session that was pruned, or uncounted twice; and activity
\* never takes the slots reserved for setup.
SlotsAreExact ==
  /\ owner.other = Cardinality({c \in owner.clients : session[c].shared})
  /\ owner.other <= MaxOther
  /\ Cardinality(owner.clients) <= MaxClients
  /\ \A u \in Uids : owner.byUID[u] =
       Cardinality({c \in owner.clients \ Privileged : UidOf[c] = u})
  /\ \A p \in Pids : owner.byPID[p] =
       Cardinality({c \in owner.clients \ Privileged : PidOf[c] = p})

\* A process that died does not keep the container alive, even if a child holds
\* its connection open and its last record is being applied.
DeadIsReleased ==
  \A c \in Clients : ~alive[PidOf[c]] ~> [](c \notin monitor.protected)

\* An armed container does not stay idle for ever: clients are protected again
\* and again, the timer is disarmed, or the loop ends.
IdleStops ==
  []<>(~monitor.armed \/ monitor.protected # {} \/ loop.pc = "returned")

\* Shutdown completes: no session keeps stopOwner waiting.
ShutdownCompletes == monitor.stopping ~> loop.pc = "returned"

=============================================================================
