----------------------------- MODULE LogDelivery -----------------------------
(***************************************************************************)
(* What the mirroring of setup logs promises of one producer: each host    *)
(* holds the first records of the host before it, and takes the producer   *)
(* for finished only with the record that Close wrote.  SetupLogMirror     *)
(* says how senders, sinks and their files achieve it.                     *)
(***************************************************************************)
EXTENDS Integers, Sequences

CONSTANT Hops  \* number of links; host 0 records

VARIABLES
  log,       \* the records of each host
  open,      \* the producer may still record
  final,     \* its last record, or 0
  finished   \* the host takes the producer for finished

dvars == <<log, open, final, finished>>

\* The producer's first n records.
Records(n) == [i \in 1 .. n |-> i]

Record ==
  /\ open
  /\ log' = [log EXCEPT ![0] = Records(Len(log[0]) + 1)]
  /\ UNCHANGED <<open, final, finished>>

\* The last record may fail to be written, and so may the note that it is.
Close ==
  /\ open /\ open' = FALSE
  /\ \/ UNCHANGED <<log, final, finished>>
     \/ LET n == Len(log[0]) + 1 IN
        /\ log' = [log EXCEPT ![0] = Records(n)]
        /\ final' = n
        /\ finished' \in {finished, [finished EXCEPT ![0] = TRUE]}

\* Host l gets more of what the host before it holds.
Deliver(l) ==
  /\ \E n \in Len(log[l]) + 1 .. Len(log[l - 1]) :
       /\ log' = [log EXCEPT ![l] = Records(n)]
       /\ \/ UNCHANGED finished
          \/ n = final /\ finished' = [finished EXCEPT ![l] = TRUE]
  /\ UNCHANGED <<open, final>>

Init ==
  /\ log = [h \in 0 .. Hops |-> << >>]
  /\ open = TRUE
  /\ final = 0
  /\ finished = [h \in 0 .. Hops |-> FALSE]

Next == Record \/ Close \/ \E l \in 1 .. Hops : Deliver(l)

Spec == Init /\ [][Next]_dvars
=============================================================================
