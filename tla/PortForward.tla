----------------------------- MODULE PortForward -----------------------------
(***************************************************************************)
(* One SSH port forward: the accept loop of portForwarding, the goroutines *)
(* that relay the accepted connections, and the connectionCounter whose    *)
(* idle timer stops the forward (pkg/ssh/forward.go,                       *)
(* pkg/ssh/connection_counter.go).                                         *)
(*                                                                         *)
(* Every method of the counter runs under its mutex and is one step.  A    *)
(* time.AfterFunc timer that expires starts a goroutine, which waits for   *)
(* that mutex: Stop comes too late for it, and only the comparison of the  *)
(* timer tokens in handleTimeout tells it from the current timer.  A token *)
(* is a pointer to a zero-size struct, and Go leaves open whether two such *)
(* pointers are equal.                                                     *)
(***************************************************************************)
EXTENDS Naturals

CONSTANTS
  MaxConns,  \* bound on accepted connections
  Tokens,    \* what new(connectionTimerToken) may return
  Nil        \* no timer, no token

ASSUME ConnsAssumption == MaxConns \in Nat

\* Every accepted connection arms at most one timer after the first one.
Timers == 0 .. MaxConns

ASSUME NilAssumption == Nil \notin Tokens \cup Timers

VARIABLES
  counter,    \* the fields of connectionCounter; timeout: it is positive
  timers,     \* each timer: not created, armed, its goroutine started, over
  arms,       \* timers created so far
  loop,       \* what portForwarding does next
  listening,  \* the listener is open
  cause,      \* context.Cause(fwdCtx)
  result,     \* what portForwarding returns
  accepted,   \* connections accepted so far
  open,       \* goroutines that relay a connection
  leaving,    \* goroutines whose relay ended and whose Dec is to come
  pending,    \* timeout goroutines that have unlocked and not yet cancelled
  firedBy     \* history: the timers that stopped the forward

vars == <<counter, timers, arms, loop, listening, cause, result, accepted,
          open, leaving, pending, firedBy>>

Counter == [connections : Nat, timer : Timers \cup {Nil},
            timerToken : Tokens \cup {Nil}, closed : BOOLEAN,
            timingOut : BOOLEAN, timeout : BOOLEAN]

-----------------------------------------------------------------------------
(* connectionCounter                                                       *)

CanArm(c) ==
  ~c.closed /\ ~c.timingOut /\ c.connections = 0 /\ c.timeout
  /\ cause = "none"

\* timer.Stop: without effect on a timer whose goroutine has started.
StopTimer(c) ==
  IF c.timer # Nil /\ timers[c.timer].state = "armed"
    THEN [timers EXCEPT ![c.timer].state = "over"] ELSE timers

ArmTimeout(c) ==
  IF CanArm(c)
    THEN \E tok \in Tokens :
           /\ counter' = [c EXCEPT !.timer = arms, !.timerToken = tok]
           /\ timers' = [StopTimer(c) EXCEPT
                           ![arms] = [state |-> "armed", token |-> tok]]
           /\ arms' = arms + 1
    ELSE counter' = c /\ UNCHANGED <<timers, arms>>

NewConnectionCounterUnarmed ==
  /\ loop = "start"
  /\ loop' = "accept"
  /\ UNCHANGED <<counter, timers, arms, listening, cause, result, accepted,
                 open, leaving, pending, firedBy>>

NewConnectionCounter ==
  /\ loop = "start"
  /\ ArmTimeout(counter)
  /\ loop' = "accept"
  /\ UNCHANGED <<listening, cause, result, accepted, open, leaving, pending,
                 firedBy>>

AddCountsRejected ==
  /\ loop = "add"
  /\ loop' = "accept"
  /\ counter' = [counter EXCEPT !.connections = @ + 1,
                                !.timer = Nil, !.timerToken = Nil]
  /\ timers' = StopTimer(counter)
  /\ open' = IF counter.closed \/ counter.timingOut THEN open ELSE open + 1
  /\ UNCHANGED <<arms, listening, cause, result, accepted, leaving, pending,
                 firedBy>>

AddWhileTimingOut ==
  /\ loop = "add"
  /\ loop' = "accept"
  /\ counter' = [counter EXCEPT !.connections = @ + 1,
                                !.timer = Nil, !.timerToken = Nil]
  /\ timers' = StopTimer(counter)
  /\ open' = open + 1
  /\ UNCHANGED <<arms, listening, cause, result, accepted, leaving, pending,
                 firedBy>>

\* A rejected connection is closed at once, an admitted one gets a goroutine.
Add ==
  /\ loop = "add"
  /\ loop' = "accept"
  /\ IF counter.closed \/ counter.timingOut
       THEN UNCHANGED <<counter, timers, open>>
       ELSE /\ counter' = [counter EXCEPT !.connections = @ + 1,
                                          !.timer = Nil, !.timerToken = Nil]
            /\ timers' = StopTimer(counter)
            /\ open' = open + 1
  /\ UNCHANGED <<arms, listening, cause, result, accepted, leaving, pending,
                 firedBy>>

Dec ==
  /\ leaving > 0
  /\ leaving' = leaving - 1
  /\ IF counter.closed
       THEN UNCHANGED <<counter, timers, arms>>
       ELSE ArmTimeout([counter EXCEPT !.connections =
                          IF @ <= 0 THEN 0 ELSE @ - 1])
  /\ UNCHANGED <<loop, listening, cause, result, accepted, open, pending,
                 firedBy>>

Close ==
  /\ loop = "closing"
  /\ loop' = "cancel"
  /\ counter' = [counter EXCEPT !.closed = TRUE, !.timer = Nil,
                                !.timerToken = Nil]
  /\ timers' = StopTimer(counter)
  /\ UNCHANGED <<arms, listening, cause, result, accepted, open, leaving,
                 pending, firedBy>>

TimerExpires(k) ==
  /\ timers[k].state = "armed"
  /\ timers' = [timers EXCEPT ![k].state = "fired"]
  /\ UNCHANGED <<counter, arms, loop, listening, cause, result, accepted,
                 open, leaving, pending, firedBy>>

\* What handleTimeout does once it has decided to stop the forward.
Dispatch(k) ==
  /\ counter' = [counter EXCEPT !.timingOut = TRUE, !.timer = Nil,
                                !.timerToken = Nil]
  /\ pending' = pending + 1
  /\ firedBy' = firedBy \cup {k}

HandleTimeoutNoMark(k) ==
  /\ timers[k].state = "fired"
  /\ timers' = [timers EXCEPT ![k].state = "over"]
  /\ IF counter.timerToken = timers[k].token /\ CanArm(counter)
       THEN /\ counter' = [counter EXCEPT !.timer = Nil, !.timerToken = Nil]
            /\ pending' = pending + 1
            /\ firedBy' = firedBy \cup {k}
       ELSE UNCHANGED <<counter, pending, firedBy>>
  /\ UNCHANGED <<arms, loop, listening, cause, result, accepted, open, leaving>>

HandleTimeoutClearsFirst(k) ==
  /\ timers[k].state = "fired"
  /\ timers' = [timers EXCEPT ![k].state = "over"]
  /\ IF counter.timerToken = timers[k].token /\ CanArm(counter)
       THEN Dispatch(k)
       ELSE /\ counter' = [counter EXCEPT !.timer = Nil, !.timerToken = Nil]
            /\ UNCHANGED <<pending, firedBy>>
  /\ UNCHANGED <<arms, loop, listening, cause, result, accepted, open, leaving>>

HandleTimeoutAnyToken(k) ==
  /\ timers[k].state = "fired"
  /\ timers' = [timers EXCEPT ![k].state = "over"]
  /\ IF CanArm(counter) THEN Dispatch(k) ELSE UNCHANGED <<counter, pending, firedBy>>
  /\ UNCHANGED <<arms, loop, listening, cause, result, accepted, open, leaving>>

HandleTimeout(k) ==
  /\ timers[k].state = "fired"
  /\ timers' = [timers EXCEPT ![k].state = "over"]
  /\ IF counter.timerToken = timers[k].token /\ CanArm(counter)
       THEN Dispatch(k)
       ELSE UNCHANGED <<counter, pending, firedBy>>
  /\ UNCHANGED <<arms, loop, listening, cause, result, accepted, open, leaving>>

-----------------------------------------------------------------------------
(* portForwarding                                                          *)

\* The callback, after the unlock: cancel(ErrIdleTimeout).  The first cause of
\* a context stays.
OnTimeout ==
  /\ pending > 0
  /\ pending' = pending - 1
  /\ cause' = IF cause = "none" THEN "idle" ELSE cause
  /\ UNCHANGED <<counter, timers, arms, loop, listening, result, accepted,
                 open, leaving, firedBy>>

\* The caller cancels its context or the SSH transport closes.
ContextEnds(why) ==
  /\ cause = "none"
  /\ cause' = why
  /\ UNCHANGED <<counter, timers, arms, loop, listening, result, accepted,
                 open, leaving, pending, firedBy>>

\* The goroutine that waits for fwdCtx.
CloseListener ==
  /\ listening
  /\ cause # "none"
  /\ listening' = FALSE
  /\ UNCHANGED <<counter, timers, arms, loop, cause, result, accepted, open,
                 leaving, pending, firedBy>>

Accept ==
  /\ loop = "accept"
  /\ listening
  /\ accepted < MaxConns
  /\ accepted' = accepted + 1
  /\ loop' = "add"
  /\ UNCHANGED <<counter, timers, arms, listening, cause, result, open,
                 leaving, pending, firedBy>>

AcceptFailsWithCause ==
  /\ loop = "accept"
  /\ loop' = "closing"
  /\ result' = cause
  /\ UNCHANGED <<counter, timers, arms, listening, cause, accepted, open,
                 leaving, pending, firedBy>>

\* listener.Accept fails, because the listener was closed or by itself.
AcceptFails ==
  /\ loop = "accept"
  /\ loop' = "closing"
  /\ result' = CASE cause = "idle"      -> "ErrIdleTimeout"
                 [] cause = "transport" -> "ErrTransportClosed"
                 [] OTHER               -> "err"
  /\ UNCHANGED <<counter, timers, arms, listening, cause, accepted, open,
                 leaving, pending, firedBy>>

\* The deferred close(done) and cancel(nil), after counter.Close; the caller
\* closes the listener.
Finish ==
  /\ loop = "cancel"
  /\ loop' = "returned"
  /\ listening' = FALSE
  /\ cause' = IF cause = "none" THEN "returned" ELSE cause
  /\ UNCHANGED <<counter, timers, arms, result, accepted, open, leaving,
                 pending, firedBy>>

\* forward or reverseForward returns: the peers closed, a dial or copy failed,
\* or fwdCtx was cancelled and relayDuplex closed both connections.
ForwardEnds ==
  /\ open > 0
  /\ open' = open - 1
  /\ leaving' = leaving + 1
  /\ UNCHANGED <<counter, timers, arms, loop, listening, cause, result,
                 accepted, pending, firedBy>>

Next ==
  \/ NewConnectionCounter \/ Accept \/ Add \/ AcceptFails \/ Close \/ Finish
  \/ ForwardEnds \/ Dec
  \/ \E k \in Timers : TimerExpires(k) \/ HandleTimeout(k)
  \/ OnTimeout \/ CloseListener
  \/ \E why \in {"transport", "parent"} : ContextEnds(why)

Init ==
  /\ counter \in {[connections |-> 0, timer |-> Nil, timerToken |-> Nil,
                   closed |-> FALSE, timingOut |-> FALSE, timeout |-> on] :
                  on \in BOOLEAN}
  /\ timers = [k \in Timers |-> [state |-> "none", token |-> Nil]]
  /\ arms = 0
  /\ loop = "start"
  /\ listening = TRUE
  /\ cause = "none"
  /\ result = "none"
  /\ accepted = 0
  /\ open = 0
  /\ leaving = 0
  /\ pending = 0
  /\ firedBy = {}

Spec == Init /\ [][Next]_vars

\* Goroutines that can run do, and time passes.  No connection need arrive,
\* and one that is relayed may stay open for ever.
Fairness ==
  /\ WF_vars(NewConnectionCounter \/ Add \/ Close \/ Finish)
  /\ WF_vars(~listening /\ AcceptFails)
  /\ WF_vars(Dec)
  /\ WF_vars(OnTimeout)
  /\ WF_vars(CloseListener)
  /\ \A k \in Timers : WF_vars(TimerExpires(k)) /\ WF_vars(HandleTimeout(k))

FairSpec == Spec /\ Fairness

-----------------------------------------------------------------------------
(* Properties.                                                             *)

\* Every variable keeps its type; there are never more timers than one for
\* each accepted connection and one for the start.
TypeOK ==
  /\ counter \in Counter
  /\ timers \in [Timers -> [state : {"none", "armed", "fired", "over"},
                            token : Tokens \cup {Nil}]]
  /\ arms \in 0 .. MaxConns + 1
  /\ loop \in {"start", "accept", "add", "closing", "cancel", "returned"}
  /\ listening \in BOOLEAN
  /\ cause \in {"none", "idle", "transport", "parent", "returned"}
  /\ result \in {"none", "ErrIdleTimeout", "ErrTransportClosed", "err"}
  /\ accepted \in 0 .. MaxConns
  /\ open \in Nat
  /\ leaving \in Nat
  /\ pending \in Nat
  /\ firedBy \subseteq Timers

\* The counter counts the goroutines that will call Dec, however Add, Dec and
\* the rejections of a timing-out counter interleave, until it is closed.
CountIsExact == ~counter.closed => counter.connections = open + leaving

\* The idle timeout cuts no connection: from the moment handleTimeout decides,
\* while its callback has yet to cancel the context, to the return of
\* ErrIdleTimeout, no accepted connection is being relayed.
IdleCutsNothing ==
  counter.timingOut \/ cause = "idle" \/ result = "ErrIdleTimeout" =>
    open = 0 /\ leaving = 0

\* onTimeout runs at most once for a forward, whatever timers are under way
\* when the first one is dispatched.
TimeoutOnce == \A j, k \in firedBy : j = k

\* No lost wakeup: an idle forward that may time out has a timer that is armed
\* or already waits for the mutex, and whose token handleTimeout will accept.
IdleHasTimer ==
  loop # "start" /\ CanArm(counter) =>
    /\ counter.timer # Nil
    /\ timers[counter.timer].state \in {"armed", "fired"}
    /\ timers[counter.timer].token = counter.timerToken

\* ErrIdleTimeout is for a forwarder that "stayed idle longer than the
\* configured EXIT_AFTER_TIMEOUT": only the timer of the current idle period,
\* the last one armed, may stop the forward.
StayedIdle == \A k \in firedBy : k + 1 = arms

\* No two timers of this forward were given the same token.
TokensDistinct ==
  \A j, k \in Timers :
    j < arms /\ k < arms /\ timers[j].token = timers[k].token => j = k

\* As long as new gave every timer of the forward a token of its own, a timer
\* that expired before a connection came never ends the idle period after it.
DistinctTokensStayIdle == TokensDistinct => StayedIdle

\* A forward with an idle timeout does not stay idle for ever: connections are
\* relayed again and again, or portForwarding returns.
IdleForwardEnds ==
  []<>(~counter.timeout \/ open + leaving > 0 \/ loop = "returned")

=============================================================================
