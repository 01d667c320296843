---------------------------- MODULE SetupLogMirror ----------------------------
(***************************************************************************)
(* Mirroring of the records of one setup producer from the container, over *)
(* the provider host, to the caller (pkg/agent/tunnel/setup_log_sender.go, *)
(* pkg/workspacelogs, pkg/agent/tunnelserver/setup_log_hop.go).            *)
(*                                                                         *)
(* Host 0 records.  Link l sends from the store of host l - 1 to the sink  *)
(* of host l: the container's own sender on link 1, a sender that the      *)
(* provider's SetupLogForwarder creates on link 2.  A sender has at most   *)
(* one call under way, but a call it gave up on goes on at the sink, next  *)
(* to its retry.                                                           *)
(*                                                                         *)
(* A reply reaches the sender in the step that produces it.  A reply that  *)
(* is lost or late is a call the sender gave up on before.                 *)
(***************************************************************************)
EXTENDS Integers, Sequences, FiniteSetsExt, Functions

CONSTANTS
  Hops,        \* number of links
  MaxRecords,  \* bound on what the producer records, its last record included
  Slots,       \* calls that may be at a sink at one time
  None,        \* no call
  MaxFaults    \* bound on I/O errors, lost calls, damage and resumptions

ASSUME HopsAssumption == Hops \in Nat \ {0}

ASSUME BoundsAssumption == MaxRecords \in Nat /\ MaxFaults \in Nat

ASSUME NoneAssumption == None \notin Slots

Hosts == 0 .. Hops
Links == 1 .. Hops

VARIABLES
  lines,     \* committed lines of the producer's segments at each host: a
             \* sequence number, or Malformed
  torn,      \* the last segment ends in a line without a newline
  tails,     \* Store.tails: size and last sequence after the last good append
  terminal,  \* RunManifest: the producer is terminal
  recorder,  \* Recorder; closing: sequence of the record Close wrote
  sender,    \* SetupLogSender of each link
  upstream,  \* its acknowledgement file
  inbound,   \* acknowledgement file of the sink
  known,     \* Sink.known: the producer is registered
  old,       \* the peer does not implement AppendSetupLogs
  calls,     \* calls at each sink
  inflight,  \* the call the sender waits for
  faults,    \* faults so far
  history    \* see History

storeVars == <<lines, torn, tails, terminal>>
linkVars == <<sender, upstream, inbound, known, old, calls, inflight>>
vars == <<storeVars, recorder, linkVars, faults, history>>

Malformed == 0

Call == [pc : {"free", "sent", "append", "outcome"}, first : Nat, last : Nat,
         accepted : Nat, err : {"nil", "gap", "capacity", "io"}]

Free == [pc |-> "free", first |-> 0, last |-> 0, accepted |-> 0, err |-> "nil"]

AckState == [acked : Nat, gapped : BOOLEAN]

Sender == [exists : BOOLEAN, mode : {"running", "stopped"},
           drain : {"none", "worker", "flush"},
           flush : {"no", "waiting", "true", "false"},
           acked : Nat, incomplete : BOOLEAN, disabled : BOOLEAN]

\* unrecorded: the sender could not write a gap to its file; held: what the
\* source held when a Flush that succeeded looked last; owed: what the Flush of
\* the link before had promised when a Flush began.
History == [unrecorded : [Links -> BOOLEAN],
            held : [Links -> Nat], owed : [Links -> Nat]]

Fault == faults < MaxFaults /\ faults' = faults + 1
NoFault == faults' = faults

-----------------------------------------------------------------------------
(* Store                                                                   *)

\* Malformed lines have no sequence.
RescanTail(ls) == Max(Range(ls) \cup {0})

\* Mutant: the size of the file is not compared.
CacheHitIgnoresSize(h) == tails[h].size > 0

\* The cache is good as long as the file has the size it was left with.
CacheHit(h) == ~torn[h] /\ tails[h].size = Len(lines[h])

LoadTail(h) == IF CacheHit(h) THEN tails[h].last ELSE RescanTail(lines[h])

\* Mutant: a batch that begins after the next sequence is written too.
AppendOutcomesAhead(h, first, last) ==
  LET t == LoadTail(h) IN
  {[to |-> IF last > t THEN last ELSE t, err |-> "nil"]}
    \cup [to : t .. last - 1, err : {"capacity", "io"}]

\* What the records first..last may come to: those up to `to` are held.
AppendOutcomes(h, first, last) ==
  LET t == LoadTail(h) IN
  IF first > t + 1
    THEN {[to |-> t, err |-> "gap"]}
    ELSE {[to |-> IF last > t THEN last ELSE t, err |-> "nil"]}
           \cup [to : t .. last - 1, err : {"capacity", "io"}]

\* The records of the batch from first on, without duplicates.  A line written
\* after a torn one, which loadTail would have cut off, becomes part of it.
NewLines(h, first, to) ==
  LET from == IF first > LoadTail(h) THEN first ELSE LoadTail(h) + 1 IN
  [i \in 1 .. IF to >= from THEN to - from + 1 ELSE 0 |->
     IF i = 1 /\ torn[h] /\ CacheHit(h) THEN Malformed ELSE from + i - 1]

\* An outcome "io" is a write that failed half way.
AppendLocked(h, first, o) ==
  LET ls == lines[h] \o NewLines(h, first, o.to) IN
  /\ lines' = [lines EXCEPT ![h] = ls]
  /\ torn' = [torn EXCEPT ![h] = o.err = "io"]
  /\ tails' = IF o.err = "nil"
                THEN [tails EXCEPT ![h] = [size |-> Len(ls), last |-> o.to]]
                ELSE tails

\* Mutant: a batch with the last record closes even when it is cut short.
ClosesEarly(h, o, closing) == closing > LoadTail(h)

\* The producer's last record is written.
Closes(h, o, closing) == closing > LoadTail(h) /\ closing <= o.to

\* Store.Append with outcome o, when the producer's last record is `closing`.
StoreAppend(h, first, last, closing, o) ==
  \/ /\ o \in AppendOutcomes(h, first, last)
     /\ IF o.err = "io" THEN Fault ELSE NoFault
     /\ AppendLocked(h, first, o)
     /\ terminal' = [terminal EXCEPT ![h] = @ \/ Closes(h, o, closing)]
  \/ \* The directory, the lock or the tail could not be used.
     /\ o = [to |-> 0, err |-> "io"]
     /\ Fault
     /\ UNCHANGED storeVars
  \/ \* Everything was written, but the manifest was not.
     \E p \in AppendOutcomes(h, first, last) :
       /\ p.err = "nil" /\ Closes(h, p, closing)
       /\ o = [p EXCEPT !.err = "io"]
       /\ Fault
       /\ AppendLocked(h, first, p)
       /\ UNCHANGED terminal

-----------------------------------------------------------------------------
(* Recorder                                                                *)

\* A line of output: emit, appendLocked and failLocked.  Output the store has
\* no room for is dropped; any other error disables the recorder.
Emit ==
  LET n == recorder.seq + 1 IN
  /\ ~recorder.closed /\ ~recorder.disabled /\ n < MaxRecords
  /\ \E to \in 0 .. MaxRecords, err \in {"nil", "gap", "capacity", "io"} :
       LET o == [to |-> to, err |-> err] IN
       /\ StoreAppend(0, n, n, 0, o)
       /\ recorder' = [recorder EXCEPT
            !.seq = IF o.err = "nil" THEN n ELSE IF o.to > @ THEN o.to ELSE @,
            !.disabled = o.err \in {"gap", "io"}]
  /\ UNCHANGED <<linkVars, history>>

\* Close makes one attempt even when the recorder is disabled.
CloseRecorder ==
  LET n == recorder.seq + 1 IN
  /\ ~recorder.closed /\ n <= MaxRecords
  /\ \E to \in 0 .. MaxRecords, err \in {"nil", "gap", "capacity", "io"} :
       LET o == [to |-> to, err |-> err] IN
       /\ StoreAppend(0, n, n, n, o)
       /\ recorder' = [recorder EXCEPT !.closed = TRUE,
                         !.closing = IF o.to >= n THEN n ELSE 0]
  /\ UNCHANGED <<linkVars, history>>

\* A committed line of the container's spool becomes unreadable.
Damage ==
  /\ Fault
  /\ \E i \in DOMAIN lines[0] : lines' = [lines EXCEPT ![0][i] = Malformed]
  /\ UNCHANGED <<torn, tails, terminal, recorder, linkVars, history>>

-----------------------------------------------------------------------------
(* SetupLogSender                                                          *)

\* The worker's drain ends with an error or because the peer is lost; so does
\* the Flush of a sender without a peer.
Stopped(s, failed) ==
  CASE s.disabled /\ s.drain = "flush" ->
         [s EXCEPT !.drain = "none", !.flush = "false"]
    [] (s.disabled \/ failed) /\ s.drain = "worker" ->
         [s EXCEPT !.drain = "none"]
    [] OTHER -> s

Becomes(l, s) == sender' = [sender EXCEPT ![l] = s]

WorkerWakes(l) ==
  LET s == sender[l] IN
  /\ s.exists /\ s.mode = "running" /\ ~s.disabled /\ s.drain = "none"
  /\ sender' = [sender EXCEPT ![l].drain = "worker"]
  /\ UNCHANGED <<storeVars, recorder, upstream, inbound, known, old,
                 calls, inflight, faults, history>>

Draining(l) == sender[l].drain # "none" /\ inflight[l] = None

\* ReadAfter: the next line, if the source holds one.
HasNext(l) == sender[l].acked < Len(lines[l - 1])
NextReadable(l) ==
  HasNext(l) /\ lines[l - 1][sender[l].acked + 1] = sender[l].acked + 1

\* A page holds at least one record, and as many as fit.
Send(l) ==
  LET from == sender[l].acked + 1 IN
  /\ Draining(l) /\ NextReadable(l)
  /\ \E c \in Slots, last \in from .. Len(lines[l - 1]) :
       /\ calls[l][c] = Free
       /\ \A i \in from .. last : lines[l - 1][i] = i
       /\ calls' = [calls EXCEPT ![l][c] =
            [pc |-> "sent", first |-> from, last |-> last,
             accepted |-> 0, err |-> "nil"]]
       /\ inflight' = [inflight EXCEPT ![l] = c]
  /\ UNCHANGED <<storeVars, recorder, sender, upstream, inbound,
                 known, old, faults, history>>

SourceGap(l) ==
  /\ Draining(l) /\ HasNext(l) /\ ~NextReadable(l)
  /\ Becomes(l, Stopped([sender[l] EXCEPT !.incomplete = TRUE,
                                            !.disabled = TRUE], FALSE))
  /\ UNCHANGED <<storeVars, recorder, upstream, inbound, known, old, calls,
                 inflight, faults, history>>

\* Mutant: a final drain that caught up succeeded.
CaughtUpSucceeds(l) ==
  LET s == sender[l] IN
  /\ Draining(l) /\ ~HasNext(l)
  /\ Becomes(l, [s EXCEPT !.drain = "none",
       !.flush = IF s.drain # "flush" THEN @ ELSE "true"])
  /\ history' = IF s.drain = "flush"
                  THEN [history EXCEPT !.held[l] = Len(lines[l - 1])]
                  ELSE history
  /\ UNCHANGED <<storeVars, recorder, upstream, inbound, known, old, calls,
                 inflight, faults>>

\* Nothing after the acknowledged position: the end of a drain.
CaughtUp(l) ==
  LET s == sender[l]
      good == s.drain = "flush" /\ ~s.incomplete /\ ~s.disabled
  IN
  /\ Draining(l) /\ ~HasNext(l)
  /\ Becomes(l, [s EXCEPT !.drain = "none",
       !.flush = IF s.drain # "flush" THEN @
                 ELSE IF good THEN "true" ELSE "false"])
  /\ history' = IF good THEN [history EXCEPT !.held[l] = Len(lines[l - 1])]
                        ELSE history
  /\ UNCHANGED <<storeVars, recorder, upstream, inbound, known, old, calls,
                 inflight, faults>>

\* The sender gives its call up.  The request may still be on its way, or lost.
Abandon(l) ==
  LET c == inflight[l] IN
  /\ inflight' = [inflight EXCEPT ![l] = None]
  /\ \/ UNCHANGED calls
     \/ /\ c # None /\ calls[l][c].pc = "sent"
        /\ calls' = [calls EXCEPT ![l][c] = Free]

\* The call times out, or its connection breaks.
CallFails(l) ==
  /\ inflight[l] # None
  /\ Fault
  /\ Abandon(l)
  /\ Becomes(l, Stopped(sender[l], TRUE))
  /\ UNCHANGED <<storeVars, recorder, upstream, inbound, known, old, history>>

\* Flush begins: it cancels the worker's call and waits for the drain lock.
FlushBegins(l) ==
  LET s == sender[l] IN
  /\ s.flush = "no"
  /\ l = 1 => recorder.closed
  /\ history' = [history EXCEPT !.owed[l] =
       IF l > 1 /\ sender[l - 1].flush = "true" THEN history.held[l - 1] ELSE 0]
  /\ CASE ~s.exists -> /\ Becomes(l, [s EXCEPT !.flush = "true"])
                       /\ UNCHANGED <<calls, inflight>>
       [] s.exists /\ s.disabled ->
                       /\ Becomes(l, [s EXCEPT !.flush = "false"])
                       /\ UNCHANGED <<calls, inflight>>
       [] OTHER -> /\ Becomes(l, [Stopped(s, inflight[l] # None)
                                      EXCEPT !.flush = "waiting"])
                   /\ Abandon(l)
  /\ UNCHANGED <<storeVars, recorder, upstream, inbound, known, old, faults>>

FlushLocks(l) ==
  LET s == sender[l] IN
  /\ s.flush = "waiting" /\ s.drain = "none"
  /\ Becomes(l, Stopped([s EXCEPT !.drain = "flush"], FALSE))
  /\ UNCHANGED <<storeVars, recorder, upstream, inbound, known, old, calls,
                 inflight, faults, history>>

\* The cleanup deadline passes.
FlushTimesOut(l) ==
  LET s == sender[l] IN
  /\ s.flush = "waiting"
  /\ IF s.drain = "flush"
       THEN /\ Becomes(l, [s EXCEPT !.flush = "false", !.drain = "none"])
            /\ Abandon(l)
       ELSE /\ Becomes(l, [s EXCEPT !.flush = "false"])
            /\ UNCHANGED <<calls, inflight>>
  /\ UNCHANGED <<storeVars, recorder, upstream, inbound, known, old, faults,
                 history>>

\* The command's context ends, or Close: the worker stops.  Flush still works.
StopWorker(l) ==
  LET s == sender[l] IN
  /\ s.mode = "running"
  /\ sender' = [sender EXCEPT ![l].mode = "stopped",
                  ![l].drain = IF @ = "worker" THEN "none" ELSE @]
  /\ IF s.drain = "worker" THEN Abandon(l) ELSE UNCHANGED <<calls, inflight>>
  /\ UNCHANGED <<storeVars, recorder, upstream, inbound, known, old,
                 faults, history>>

\* A new sender over the acknowledgement file of a closed one.  A damaged file
\* restarts from zero.
NewSender(l) ==
  /\ sender[l].mode = "stopped" /\ sender[l].exists
  /\ sender[l].flush # "waiting"
  /\ Fault
  /\ \E st \in {upstream[l], [acked |-> 0, gapped |-> FALSE]} :
       /\ sender' = [sender EXCEPT ![l] =
            [exists |-> TRUE, mode |-> "running", drain |-> "none",
             flush |-> "no", acked |-> st.acked, incomplete |-> st.gapped,
             disabled |-> FALSE]]
       /\ upstream' = [upstream EXCEPT ![l] = st]
  /\ UNCHANGED <<storeVars, recorder, inbound, known, old, calls,
                 inflight, history>>

-----------------------------------------------------------------------------
(* Sink, and what the sender does with its answer                          *)

\* Mutant: the forwarder is not told.
NotifyNobody(s) == s

\* The forwarder creates its sender with the first records it is told of.
Notify(s) == [s EXCEPT !.exists = TRUE]

AdvanceAck(st, n) == [st EXCEPT !.acked = IF n > @ THEN n ELSE @]
RecordGap(st, n) == [AdvanceAck(st, n) EXCEPT !.gapped = TRUE]

\* The position the answer stands for, never past what the request carried.
Answered(call, reply) ==
  IF reply.result = "gap" \/ reply.accepted > call.last
    THEN call.last ELSE reply.accepted

\* Mutant: a retention gap leaves the sender complete.
SenderAfterForgets(s, call, reply, failed) ==
  IF reply.result \in {"accepted", "gap"}
    THEN Stopped([s EXCEPT !.acked = Answered(call, reply)],
                 ~(Answered(call, reply) > s.acked))
    ELSE Stopped([s EXCEPT !.disabled = reply.result # "error"],
                 reply.result = "error")

\* apply and advance.
SenderAfter(s, call, reply, failed) ==
  LET n == Answered(call, reply)
      moved == n > s.acked
  IN CASE reply.result \in {"accepted", "gap"} ->
            Stopped([s EXCEPT
                       !.acked = IF moved THEN n ELSE @,
                       !.incomplete = @ \/ reply.result = "gap"],
                    ~moved \/ "advance" \in failed)
       [] reply.result = "rejected" ->
            Stopped([s EXCEPT !.incomplete = TRUE, !.disabled = TRUE], FALSE)
       [] reply.result = "unimplemented" ->
            Stopped([s EXCEPT !.disabled = TRUE], FALSE)
       [] reply.result = "error" -> Stopped(s, TRUE)

\* The acknowledgement file: RecordGap, whose error is ignored, then Advance.
UpstreamAfter(l, call, reply, failed) ==
  LET n == Answered(call, reply)
      gapped == IF reply.result = "gap" /\ "gap" \notin failed
                  THEN RecordGap(upstream[l], n) ELSE upstream[l]
  IN IF /\ reply.result \in {"accepted", "gap"}
        /\ n > sender[l].acked /\ "advance" \notin failed
       THEN AdvanceAck(gapped, n) ELSE gapped

\* The call c of link l ends with a reply.  persisted: records of the call are
\* in the sink's store; failed: writes of acknowledgement files that failed.
Reply(l, c, reply, persisted, failed) ==
  LET call == calls[l][c]
      waits == inflight[l] = c
      s == IF waits THEN SenderAfter(sender[l], call, reply, failed)
                    ELSE sender[l]
  IN /\ calls' = [calls EXCEPT ![l][c] = Free]
     /\ inflight' = IF waits THEN [inflight EXCEPT ![l] = None] ELSE inflight
     /\ sender' = [k \in Links |->
                     IF k = l THEN s
                     ELSE IF k = l + 1 /\ persisted THEN Notify(sender[k])
                     ELSE sender[k]]
     /\ upstream' = IF waits
          THEN [upstream EXCEPT ![l] = UpstreamAfter(l, call, reply, failed)]
          ELSE upstream
     /\ history' = IF waits /\ reply.result = "gap" /\ "gap" \in failed
          THEN [history EXCEPT !.unrecorded[l] = TRUE] ELSE history

\* One fault makes any of the writes of a step fail.
SomeFail(failed) == IF failed = {} THEN NoFault ELSE Fault

\* AppendSetupLogs of a peer without a sink, decode, and excluded: a producer
\* the store gave up on gets a gap for everything.
SinkReceive(l, c) ==
  LET call == calls[l][c] IN
  /\ call.pc = "sent"
  /\ \/ /\ ~old[l] /\ ~inbound[l].gapped
        /\ calls' = [calls EXCEPT ![l][c].pc = "append"]
        /\ NoFault
        /\ UNCHANGED <<sender, upstream, inflight, history>>
     \/ /\ ~old[l] /\ inbound[l].gapped
        /\ \E failed \in SUBSET {"gap", "advance"} :
             /\ SomeFail(failed)
             /\ Reply(l, c, [result |-> "gap", accepted |-> call.last],
                      FALSE, failed)
     \/ /\ old[l]
        /\ NoFault
        /\ Reply(l, c, [result |-> "unimplemented", accepted |-> 0], FALSE, {})
  /\ UNCHANGED <<storeVars, recorder, inbound, known, old>>

\* register fails: discovery is sealed, or the manifest cannot be written.
SinkRefuses(l, c) ==
  /\ calls[l][c].pc = "append" /\ ~known[l]
  /\ Fault
  /\ \E result \in {"rejected", "error"} :
       Reply(l, c, [result |-> result, accepted |-> 0], FALSE, {})
  /\ UNCHANGED <<storeVars, recorder, inbound, known, old>>

\* register fails: the run has too many producers.
SinkProducerCap(l, c) ==
  /\ calls[l][c].pc = "append" /\ ~known[l]
  /\ Fault
  /\ calls' = [calls EXCEPT ![l][c].pc = "outcome", ![l][c].err = "capacity"]
  /\ UNCHANGED <<storeVars, recorder, sender, upstream, inbound,
                 known, old, inflight, history>>

SinkAppend(l, c) ==
  LET call == calls[l][c] IN
  /\ call.pc = "append"
  /\ known' = [known EXCEPT ![l] = TRUE]
  /\ \E to \in 0 .. MaxRecords, err \in {"nil", "gap", "capacity", "io"} :
       /\ StoreAppend(l, call.first, call.last, recorder.closing,
                      [to |-> to, err |-> err])
       /\ calls' = [calls EXCEPT ![l][c].pc = "outcome",
                                 ![l][c].accepted = to, ![l][c].err = err]
  /\ UNCHANGED <<recorder, sender, upstream, inbound, old, inflight,
                 history>>

\* Records of the call are known to be in the store: persisted.
Persisted(call) == call.err # "gap" /\ call.accepted > 0

\* Mutant: a batch the store could not take is acknowledged as accepted.
AnswerAccepted(call) ==
  [result |-> IF call.err = "io" THEN "error" ELSE "accepted",
   accepted |-> IF call.err = "capacity" THEN call.last ELSE call.accepted]

Answer(call) ==
  [result |-> CASE call.err = "io" -> "error"
                [] call.err = "capacity" -> "gap"
                [] OTHER -> "accepted",
   accepted |-> IF call.err = "capacity" THEN call.last ELSE call.accepted]

\* outcome, persisted and gap.
SinkOutcome(l, c) ==
  LET call == calls[l][c]
      st == IF Persisted(call) THEN AdvanceAck(inbound[l], call.accepted)
                               ELSE inbound[l]
  IN
  /\ call.pc = "outcome"
  /\ \E failed \in SUBSET {"inbound", "gap", "advance"} :
       /\ SomeFail(failed)
       /\ inbound' = [inbound EXCEPT ![l] =
            IF "inbound" \in failed THEN @
            ELSE IF call.err = "capacity" THEN RecordGap(st, call.last) ELSE st]
       /\ Reply(l, c, Answer(call), Persisted(call), failed)
  /\ UNCHANGED <<storeVars, recorder, known, old>>

-----------------------------------------------------------------------------
Init ==
  /\ lines = [h \in Hosts |-> << >>]
  /\ torn = [h \in Hosts |-> FALSE]
  /\ tails = [h \in Hosts |-> [size |-> 0, last |-> 0]]
  /\ terminal = [h \in Hosts |-> FALSE]
  /\ recorder = [seq |-> 0, disabled |-> FALSE, closed |-> FALSE, closing |-> 0]
  /\ sender = [l \in Links |->
       [exists |-> l = 1, mode |-> "running", drain |-> "none", flush |-> "no",
        acked |-> 0, incomplete |-> FALSE, disabled |-> FALSE]]
  /\ upstream = [l \in Links |-> [acked |-> 0, gapped |-> FALSE]]
  /\ inbound = [l \in Links |-> [acked |-> 0, gapped |-> FALSE]]
  /\ known = [l \in Links |-> FALSE]
  /\ old \in [Links -> BOOLEAN]
  /\ calls = [l \in Links |-> [c \in Slots |-> Free]]
  /\ inflight = [l \in Links |-> None]
  /\ faults = 0
  /\ history = [unrecorded |-> [l \in Links |-> FALSE],
                held |-> [l \in Links |-> 0], owed |-> [l \in Links |-> 0]]

SenderStep(l) ==
  WorkerWakes(l) \/ Send(l) \/ SourceGap(l) \/ CaughtUp(l) \/ FlushLocks(l)

SinkStep(l, c) ==
  SinkReceive(l, c) \/ SinkAppend(l, c) \/ SinkOutcome(l, c)

Next ==
  \/ Emit \/ CloseRecorder \/ Damage
  \/ \E l \in Links :
       \/ SenderStep(l)
       \/ CallFails(l) \/ FlushBegins(l) \/ FlushTimesOut(l)
       \/ StopWorker(l) \/ NewSender(l)
       \/ \E c \in Slots :
            SinkStep(l, c) \/ SinkRefuses(l, c) \/ SinkProducerCap(l, c)

Spec == Init /\ [][Next]_vars

\* Goroutines that can run do.  Nobody has to record, flush, or give up.
FairSpec ==
  /\ Spec
  /\ \A l \in Links :
       /\ WF_vars(SenderStep(l))
       /\ \A c \in Slots : WF_vars(SinkStep(l, c))

-----------------------------------------------------------------------------
(* Properties                                                              *)

TypeOK ==
  /\ lines \in [Hosts -> Seq(Nat)]
  /\ torn \in [Hosts -> BOOLEAN]
  /\ tails \in [Hosts -> [size : Nat, last : Nat]]
  /\ terminal \in [Hosts -> BOOLEAN]
  /\ recorder \in [seq : Nat, disabled : BOOLEAN, closed : BOOLEAN,
                   closing : Nat]
  /\ sender \in [Links -> Sender]
  /\ upstream \in [Links -> AckState]
  /\ inbound \in [Links -> AckState]
  /\ known \in [Links -> BOOLEAN]
  /\ old \in [Links -> BOOLEAN]
  /\ calls \in [Links -> [Slots -> Call]]
  /\ inflight \in [Links -> Slots \cup {None}]
  /\ faults \in 0 .. MaxFaults
  /\ history \in History

\* What a sink stores is the producer's records from the first on, each once
\* and in order, however batches are repeated, cut short, torn or reordered.
StoredOnce ==
  \A l \in Links : \A i \in DOMAIN lines[l] : lines[l][i] = i

\* A sender's position passes the peer's store only after the peer declared a
\* gap, and the sender knows it; the same holds of what its file says, unless
\* the gap could not be written to it.
AckedIsHeldOrGap ==
  \A l \in Links :
    /\ sender[l].acked > Len(lines[l])
         => sender[l].incomplete \/ history.unrecorded[l]
    /\ upstream[l].acked > Len(lines[l])
         => upstream[l].gapped \/ history.unrecorded[l]
    /\ inbound[l].acked > Len(lines[l]) => inbound[l].gapped

\* A Flush that reports success left the peer with everything that the source
\* held when it looked last.
FlushIsHonest ==
  \A l \in Links :
    sender[l].flush = "true" /\ ~history.unrecorded[l]
      => Len(lines[l]) >= history.held[l]

\* A Flush that reports success after the one of the link before it did leaves
\* the peer with everything that one had promised.
EndToEnd ==
  \A l \in Links :
    sender[l].flush = "true" /\ (\A k \in Links : ~history.unrecorded[k])
      => Len(lines[l]) >= history.owed[l]

\* A host takes the producer for finished only with all of its records.
TerminalHasAll ==
  \A h \in Hosts : terminal[h] => /\ recorder.closing > 0
                                  /\ Len(lines[h]) = recorder.closing

\* The container's records, damaged lines included, and those of the sinks.
Log == [h \in Hosts |->
          IF h = 0 THEN [i \in 1 .. Len(lines[0]) |-> i] ELSE lines[h]]

Delivery == INSTANCE LogDelivery WITH
  log <- Log, open <- ~recorder.closed, final <- recorder.closing,
  finished <- terminal

\* Every append gives a host further records of the host before it, without
\* gap, repetition or damage, and finishes only with the last one; repeated
\* calls, crashed writes, gaps and flushes change nothing that a reader sees.
ImplementsDelivery == Delivery!Spec

\* Every record the container holds reaches the last host, unless a sender gave
\* up, was told of a gap, or was stopped.
Delivered ==
  \A n \in 1 .. MaxRecords :
    Len(lines[0]) >= n
      ~> \/ Len(lines[Hops]) >= n
         \/ \E l \in Links : \/ sender[l].incomplete \/ sender[l].disabled
                             \/ sender[l].mode # "running"
=============================================================================
