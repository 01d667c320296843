-------------------------- MODULE SetupLogMirrorProof --------------------------
(***************************************************************************)
(* Safety of the mirroring of setup logs, for any number of links, of      *)
(* records, of calls at a sink and of faults.                              *)
(***************************************************************************)
EXTENDS SetupLogMirror, SequenceTheorems, WellFoundedInduction, TLAPS

\* The store of a sink holds the records 1, 2, ..., and its cache knows the last.
StoreOK(ls, tail) ==
  /\ \A i \in 1 .. Len(ls) : ls[i] = i
  /\ tail.last = tail.size

\* The container's spool.  Lines may be damaged, but until Close the recorder and
\* the cache know how many there are; a torn line has disabled the recorder.
RecorderInv ==
  /\ \A i \in 1 .. Len(lines[0]) : lines[0][i] \in {i, Malformed}
  /\ ~recorder.closed =>
       /\ recorder.closing = 0
       /\ recorder.seq = Len(lines[0])
       /\ tails[0] = [size |-> recorder.seq, last |-> recorder.seq]
       /\ torn[0] => recorder.disabled
  /\ recorder.closing \in {0, Len(lines[0])}

\* No host holds more than the one before it, or than the container.
StoreInv ==
  \A l \in Links : /\ StoreOK(lines[l], tails[l])
                   /\ Len(lines[l]) <= Len(lines[l - 1])
                   /\ Len(lines[l]) <= Len(lines[0])

\* A call at a sink that holds `held` records, from a source with `sent` ones.
CallOK(call, held, sent) ==
  /\ call.accepted <= held
  /\ call.pc # "free" => call.last <= sent
  /\ call.pc = "outcome" /\ call.err = "gap" => call.accepted + 1 < call.first

CallsOK(l) ==
  \A c \in Slots : CallOK(calls[l][c], Len(lines[l]), Len(lines[l - 1]))

\* A drain belongs to a worker that runs or to a Flush that waits, and the call it
\* waits for begins after the sender's position.
WaitOK(s, f, cs) ==
  /\ s.drain = "worker" => s.mode = "running"
  /\ s.drain = "flush" => s.flush = "waiting"
  /\ f # None => /\ s.drain # "none"
                 /\ cs[f].pc # "free" /\ cs[f].first = s.acked + 1

WaitsOK(l) == WaitOK(sender[l], inflight[l], calls[l])

AckOK(l) ==
  /\ sender[l].acked > Len(lines[l])
       => sender[l].incomplete \/ history.unrecorded[l]
  /\ upstream[l].acked > Len(lines[l])
       => upstream[l].gapped \/ history.unrecorded[l]
  /\ inbound[l].acked > Len(lines[l]) => inbound[l].gapped

\* A sender that moved without a gap, or promised something, has told the next.
TellsNext(l) ==
  l + 1 \in Links =>
    \/ sender[l + 1].exists \/ history.unrecorded[l]
    \/ /\ sender[l].acked > 0 => sender[l].incomplete
       /\ upstream[l].acked > 0 => upstream[l].gapped
       /\ history.held[l] = 0

HeldOK(l) == history.unrecorded[l] \/ history.held[l] <= Len(lines[l])

\* What a Flush owes is at its source; once it reported success, at its peer.
OwedOK(l) ==
  \/ history.owed[l] = 0
  \/ l > 1 /\ history.unrecorded[l - 1]
  \/ /\ l > 1 /\ history.owed[l] <= Len(lines[l - 1])
     /\ sender[l].flush = "true" =>
          history.unrecorded[l] \/ history.owed[l] <= Len(lines[l])

LinkInv(l) ==
  CallsOK(l) /\ WaitsOK(l) /\ AckOK(l) /\ TellsNext(l) /\ HeldOK(l) /\ OwedOK(l)

IndInv ==
  /\ TypeOK /\ RecorderInv /\ StoreInv /\ TerminalHasAll
  /\ \A l \in Links : LinkInv(l)

-----------------------------------------------------------------------------
(* The store                                                               *)

\* A bounded set of naturals has a greatest element.
LEMMA MaxOfBounded ==
  ASSUME NEW S \in SUBSET Nat, S # {}, NEW b \in Nat, \A x \in S : x <= b
  PROVE  Max(S) \in S /\ \A y \in S : y <= Max(S)
  <1> DEFINE R == OpToRel(<, Nat)
             T == {u \in Nat : \A x \in S : x <= u}
  <1>1. IsWellFoundedOn(R, Nat)
    BY NatLessThanWellFounded
  <1>2. T \subseteq Nat /\ T # {}
    OBVIOUS
  <1>3. \A x, y \in Nat : x < y => <<x, y>> \in R
    BY DEF OpToRel
  <1> HIDE DEF R
  <1>4. PICK u \in T : \A y \in T : ~(<<y, u>> \in R)
    BY <1>1, <1>2, WFMin
  <1>5. \A y \in T : ~(y < u)
    BY <1>2, <1>3, <1>4
  <1>6. u \in S
    <2> SUFFICES ASSUME u \notin S PROVE FALSE
      OBVIOUS
    <2>1. u \in Nat /\ \A x \in S : x \in Nat /\ x <= u /\ x # u
      BY <1>4
    <2>2. PICK x \in S : TRUE
      OBVIOUS
    <2>3. u # 0
      BY <2>1, <2>2
    <2>4. u - 1 \in T
      BY <2>1, <2>3
    <2> QED
      BY <2>1, <2>4, <1>5
  <1>7. \A y \in S : y <= u
    BY <1>4
  <1>8. \A x \in S : (\A y \in S : x >= y) => x = u
    BY <1>6, <1>7
  <1>9. Max(S) = u
    BY <1>6, <1>7, <1>8 DEF Max
  <1> QED
    BY <1>6, <1>7, <1>9

\* A rescan finds at most the last line, and exactly it where no line is
\* damaged.
LEMMA RescanTailBound ==
  ASSUME NEW ls \in Seq(Nat), \A i \in 1 .. Len(ls) : ls[i] \in {i, Malformed}
  PROVE  /\ RescanTail(ls) \in 0 .. Len(ls)
         /\ (\A i \in 1 .. Len(ls) : ls[i] = i) => RescanTail(ls) = Len(ls)
  <1> DEFINE S == Range(ls) \cup {0}
  <1>1. Len(ls) \in Nat /\ DOMAIN ls = 1 .. Len(ls)
    OBVIOUS
  <1>2. \A x \in S : x \in Nat /\ x <= Len(ls)
    BY <1>1 DEF Range, Malformed
  <1>3. S \in SUBSET Nat /\ S # {}
    BY <1>2
  <1>4. Max(S) \in S /\ \A y \in S : y <= Max(S)
    BY <1>1, <1>2, <1>3, MaxOfBounded
  <1>5. (\A i \in 1 .. Len(ls) : ls[i] = i) => Len(ls) \in S
    BY <1>1 DEF Range
  <1> HIDE DEF S
  <1>6. Max(S) \in Nat /\ Max(S) <= Len(ls) /\ 0 <= Max(S)
    BY <1>2, <1>4
  <1>7. (\A i \in 1 .. Len(ls) : ls[i] = i) => Max(S) = Len(ls)
    BY <1>1, <1>4, <1>5, <1>6
  <1> QED
    BY <1>1, <1>6, <1>7 DEF RescanTail, S

\* Types of what a host keeps.
LEMMA HostTypes ==
  ASSUME TypeOK, NEW h \in Hosts
  PROVE  /\ lines[h] \in Seq(Nat) /\ Len(lines[h]) \in Nat
         /\ DOMAIN lines[h] = 1 .. Len(lines[h])
         /\ tails[h] \in [size : Nat, last : Nat]
         /\ torn[h] \in BOOLEAN /\ terminal[h] \in BOOLEAN
  BY DEF TypeOK

\* A sequence of numbers is continued up to a number.
LEMMA ContinueSeq ==
  ASSUME NEW s \in Seq(Nat), NEW to \in Nat, to >= Len(s)
  PROVE  LET e == s \o [i \in 1 .. to - Len(s) |-> Len(s) + i] IN
         /\ e \in Seq(Nat) /\ Len(e) = to
         /\ \A i \in 1 .. Len(s) : e[i] = s[i]
         /\ \A i \in Len(s) + 1 .. to : e[i] = i
  <1> DEFINE t == Len(s)
             n == to - t
             new == [i \in 1 .. n |-> t + i]
  <1>1. t \in Nat /\ n \in Nat /\ t + n = to
    OBVIOUS
  <1> HIDE DEF n, t
  <1>2. new \in Seq(Nat) /\ Len(new) = n /\ \A i \in 1 .. n : new[i] = t + i
    BY <1>1
  <1> HIDE DEF new
  <1>3. /\ s \o new \in Seq(Nat) /\ Len(s \o new) = t + n
        /\ \A i \in 1 .. t + n :
             (s \o new)[i] = IF i <= t THEN s[i] ELSE new[i - t]
    BY <1>2, ConcatProperties DEF t
  <1>4. \A i \in 1 .. t : (s \o new)[i] = s[i]
    BY <1>1, <1>3
  <1>5. ASSUME NEW i \in t + 1 .. to PROVE (s \o new)[i] = i
    <2>1. i \in 1 .. t + n /\ ~(i <= t) /\ i - t \in 1 .. n /\ t + (i - t) = i
      BY <1>1
    <2> QED
      BY <2>1, <1>2, <1>3
  <1> QED
    BY <1>1, <1>3, <1>4, <1>5 DEF new, n, t

\* A batch that begins after the next record leaves the lines alone.
LEMMA GapAppend ==
  ASSUME TypeOK, NEW h \in Hosts, LoadTail(h) \in Nat,
         NEW first \in Nat, NEW last \in Nat, first > LoadTail(h) + 1,
         NEW o \in AppendOutcomes(h, first, last), AppendLocked(h, first, o)
  PROVE  /\ o = [to |-> LoadTail(h), err |-> "gap"]
         /\ lines' = lines /\ tails' = tails
         /\ torn' = [torn EXCEPT ![h] = FALSE]
  <1>1. o = [to |-> LoadTail(h), err |-> "gap"]
    BY DEF AppendOutcomes
  <1>2. NewLines(h, first, o.to) = << >>
    <2>1. first > LoadTail(h) /\ ~(o.to >= first) /\ o.to = LoadTail(h)
      BY <1>1
    <2> QED
      BY <2>1 DEF NewLines
  <1>3. lines[h] \o NewLines(h, first, o.to) = lines[h]
    BY <1>2, HostTypes
  <1>4. lines' = [lines EXCEPT ![h] = lines[h]]
    BY <1>3 DEF AppendLocked
  <1>5. lines' = lines
    BY <1>4 DEF TypeOK
  <1> QED
    BY <1>1, <1>5 DEF AppendLocked

\* A batch continues the records of a store.
Continued(h, first, last, o) ==
  /\ o.to \in Nat /\ o.err \in {"nil", "gap", "capacity", "io"}
  /\ lines' = [lines EXCEPT ![h] = lines'[h]]
  /\ lines'[h] \in Seq(Nat) /\ Len(lines'[h]) = o.to
  /\ o.to >= Len(lines[h])
  /\ o.to > Len(lines[h]) => o.to <= last
  /\ \A i \in 1 .. Len(lines[h]) : lines'[h][i] = lines[h][i]
  /\ \A i \in Len(lines[h]) + 1 .. o.to : lines'[h][i] = i
  /\ tails' = [tails EXCEPT ![h] = tails'[h]]
  /\ tails'[h] \in {tails[h], [size |-> o.to, last |-> o.to]}
  /\ o.err = "nil" => /\ tails'[h] = [size |-> o.to, last |-> o.to]
                      /\ o.to >= last
  /\ o.err = "gap" => o.to + 1 < first
  /\ o.err \in {"capacity", "io"} => o.to < last /\ tails'[h] = tails[h]

\* With an exact tail, every outcome of appendLocked continues the records.
LEMMA ExactAppend ==
  ASSUME TypeOK, NEW h \in Hosts, LoadTail(h) = Len(lines[h]),
         NEW first \in Nat, NEW last \in Nat,
         NEW o \in AppendOutcomes(h, first, last), AppendLocked(h, first, o)
  PROVE  Continued(h, first, last, o)
  <1> DEFINE t == Len(lines[h])
             ls == lines[h]
             new == NewLines(h, first, o.to)
  <1>0. /\ ls \in Seq(Nat) /\ t \in Nat /\ DOMAIN ls = 1 .. t
        /\ tails[h] \in [size : Nat, last : Nat]
    BY HostTypes
  <1>1. CASE first > t + 1
    <2>1. o = [to |-> t, err |-> "gap"] /\ lines' = lines /\ tails' = tails
      BY <1>0, <1>1, GapAppend
    <2>2. tails = [tails EXCEPT ![h] = tails[h]] /\ lines = [lines EXCEPT ![h] = ls]
      BY DEF TypeOK
    <2>3. o.to = t /\ o.err = "gap"
      BY <2>1
    <2> QED
      BY <1>0, <1>1, <2>1, <2>2, <2>3 DEF Continued
  <1>2. CASE first <= t + 1
    <2>1. \/ o.err = "nil" /\ o.to = IF last > t THEN last ELSE t
          \/ o.err \in {"capacity", "io"} /\ o.to \in t .. last - 1
      BY <1>0, <1>2 DEF AppendOutcomes
    <2>2. o.to \in Nat /\ o.to >= t /\ (o.to > t => o.to <= last)
          /\ (o.err = "nil" => o.to >= last)
          /\ (o.err \in {"capacity", "io"} => o.to < last)
      BY <2>1, <1>0
    <2>3. new = [i \in 1 .. o.to - t |-> t + i]
      <3>1. ~(torn[h] /\ CacheHit(h))
        BY DEF CacheHit
      <3>2. (IF first > t THEN first ELSE t + 1) = t + 1
        BY <1>0, <1>2
      <3>3. (IF o.to >= t + 1 THEN o.to - (t + 1) + 1 ELSE 0) = o.to - t
        BY <1>0, <2>2
      <3>4. \A i \in 1 .. o.to - t : t + 1 + i - 1 = t + i
        BY <1>0
      <3>5. new = [i \in 1 .. o.to - t |-> t + 1 + i - 1]
        BY <3>1, <3>2, <3>3 DEF NewLines
      <3> QED
        BY <3>4, <3>5
    <2> HIDE DEF new
    <2>4. /\ ls \o new \in Seq(Nat) /\ Len(ls \o new) = o.to
          /\ \A i \in 1 .. t : (ls \o new)[i] = ls[i]
          /\ \A i \in t + 1 .. o.to : (ls \o new)[i] = i
      <3> DEFINE e == ls \o [i \in 1 .. o.to - t |-> t + i]
      <3>1. /\ e \in Seq(Nat) /\ Len(e) = o.to
            /\ \A i \in 1 .. t : e[i] = ls[i]
            /\ \A i \in t + 1 .. o.to : e[i] = i
        BY <1>0, <2>2, ContinueSeq
      <3>2. e = ls \o new
        BY <2>3
      <3> HIDE DEF e
      <3> QED
        BY <3>1, <3>2
    <2>5. lines' = [lines EXCEPT ![h] = ls \o new] /\ lines'[h] = ls \o new
      BY DEF AppendLocked, TypeOK, new
    <2>6. CASE o.err = "nil"
      <3>1. tails' = [tails EXCEPT ![h] = [size |-> o.to, last |-> o.to]]
        BY <2>4, <2>6 DEF AppendLocked, new
      <3>2. tails'[h] = [size |-> o.to, last |-> o.to]
        BY <3>1 DEF TypeOK
      <3> QED
        BY <1>2, <2>1, <2>2, <2>4, <2>5, <2>6, <3>1, <3>2 DEF Continued
    <2>7. CASE o.err # "nil"
      <3>1. tails' = tails /\ tails = [tails EXCEPT ![h] = tails[h]]
        BY <2>7 DEF AppendLocked, TypeOK
      <3> QED
        BY <1>2, <2>1, <2>2, <2>4, <2>5, <2>7, <3>1 DEF Continued
    <2> QED
      BY <2>6, <2>7
  <1> QED
    BY <1>0, <1>1, <1>2

\* loadTail is exact at a sink, whether it hits its cache or scans.
LEMMA SinkTail ==
  ASSUME TypeOK, NEW l \in Links, StoreOK(lines[l], tails[l])
  PROVE  l \in Hosts /\ LoadTail(l) = Len(lines[l])
  <1>1. l \in Hosts
    BY HopsAssumption DEF Links, Hosts
  <1>2. lines[l] \in Seq(Nat)
    BY <1>1, HostTypes
  <1>3. RescanTail(lines[l]) = Len(lines[l])
    BY <1>2, RescanTailBound DEF StoreOK
  <1> QED
    BY <1>1, <1>3 DEF LoadTail, CacheHit, StoreOK

\* What Store.Append does to the store of a sink, whatever comes of it.
SinkAppended(l, first, last, closing, to, err) ==
  /\ lines' = [lines EXCEPT ![l] = lines'[l]] /\ lines'[l] \in Seq(Nat)
  /\ Len(lines'[l]) >= Len(lines[l])
  /\ Len(lines'[l]) > Len(lines[l]) => Len(lines'[l]) <= last
  /\ StoreOK(lines'[l], tails'[l])
  /\ tails' = [tails EXCEPT ![l] = tails'[l]]
  /\ tails'[l] \in [size : Nat, last : Nat]
  /\ torn' \in [Hosts -> BOOLEAN]
  /\ to <= Len(lines'[l])
  /\ err = "gap" => to + 1 < first
  /\ terminal' = [terminal EXCEPT ![l] = terminal'[l]]
  /\ terminal'[l] \in BOOLEAN
  /\ terminal'[l] => \/ terminal[l]
                     \/ closing > Len(lines[l]) /\ closing <= Len(lines'[l])

\* appendLocked at a sink.
LEMMA SinkExtends ==
  ASSUME TypeOK, NEW l \in Links, StoreOK(lines[l], tails[l]),
         NEW first \in Nat, NEW last \in Nat,
         NEW o \in AppendOutcomes(l, first, last), AppendLocked(l, first, o)
  PROVE  /\ lines' = [lines EXCEPT ![l] = lines'[l]] /\ lines'[l] \in Seq(Nat)
         /\ Len(lines'[l]) >= Len(lines[l])
         /\ Len(lines'[l]) > Len(lines[l]) => Len(lines'[l]) <= last
         /\ StoreOK(lines'[l], tails'[l])
         /\ tails' = [tails EXCEPT ![l] = tails'[l]]
         /\ tails'[l] \in [size : Nat, last : Nat]
         /\ torn' \in [Hosts -> BOOLEAN]
         /\ o.to = Len(lines'[l]) /\ (o.err = "gap" => o.to + 1 < first)
  <1>1. l \in Hosts /\ LoadTail(l) = Len(lines[l])
    BY SinkTail
  <1>2. lines[l] \in Seq(Nat) /\ Len(lines[l]) \in Nat
        /\ tails[l] \in [size : Nat, last : Nat]
    BY <1>1, HostTypes
  <1>0. Continued(l, first, last, o)
    BY <1>1, ExactAppend
  <1>3. /\ o.to \in Nat
        /\ lines' = [lines EXCEPT ![l] = lines'[l]]
        /\ lines'[l] \in Seq(Nat) /\ Len(lines'[l]) = o.to
        /\ o.to >= Len(lines[l])
        /\ o.to > Len(lines[l]) => o.to <= last
        /\ \A i \in 1 .. Len(lines[l]) : lines'[l][i] = lines[l][i]
        /\ \A i \in Len(lines[l]) + 1 .. o.to : lines'[l][i] = i
        /\ tails' = [tails EXCEPT ![l] = tails'[l]]
        /\ tails'[l] \in {tails[l], [size |-> o.to, last |-> o.to]}
        /\ o.err = "gap" => o.to + 1 < first
    BY <1>0 DEF Continued
  <1>4. \A i \in 1 .. Len(lines'[l]) : lines'[l][i] = i
    <2> TAKE i \in 1 .. Len(lines'[l])
    <2>1. CASE i <= Len(lines[l])
      <3>1. i \in 1 .. Len(lines[l])
        BY <2>1, <1>2, <1>3
      <3> QED
        BY <3>1, <1>3 DEF StoreOK
    <2>2. CASE i > Len(lines[l])
      BY <2>2, <1>2, <1>3
    <2> QED
      BY <2>1, <2>2, <1>2, <1>3
  <1>5. /\ tails'[l] \in [size : Nat, last : Nat]
        /\ tails'[l].last = tails'[l].size
    BY <1>2, <1>3 DEF StoreOK
  <1>6. torn' \in [Hosts -> BOOLEAN]
    BY DEF AppendLocked, TypeOK
  <1> QED
    BY <1>3, <1>4, <1>5, <1>6 DEF StoreOK

\* Store.Append at a sink, failures before and after the write included.
LEMMA SinkAppends ==
  ASSUME TypeOK, NEW l \in Links, StoreOK(lines[l], tails[l]),
         NEW first \in Nat, NEW last \in Nat, NEW closing \in Nat,
         NEW to \in Nat, NEW err,
         StoreAppend(l, first, last, closing, [to |-> to, err |-> err])
  PROVE  SinkAppended(l, first, last, closing, to, err) /\ (Fault \/ NoFault)
  <1> DEFINE o == [to |-> to, err |-> err]
  <1>1. l \in Hosts /\ LoadTail(l) = Len(lines[l])
    BY SinkTail
  <1>2. /\ lines[l] \in Seq(Nat) /\ Len(lines[l]) \in Nat
        /\ tails[l] \in [size : Nat, last : Nat] /\ terminal[l] \in BOOLEAN
    BY <1>1, HostTypes
  <1>3. o.to = to /\ o.err = err
    OBVIOUS
  <1>4. terminal' = terminal =>
          terminal' = [terminal EXCEPT ![l] = terminal'[l]]
    BY DEF TypeOK
  <1>5. CASE /\ o \in AppendOutcomes(l, first, last)
             /\ IF o.err = "io" THEN Fault ELSE NoFault
             /\ AppendLocked(l, first, o)
             /\ terminal' = [terminal EXCEPT ![l] = @ \/ Closes(l, o, closing)]
    <2> HIDE DEF o
    <2>1. terminal'[l] = (terminal[l] \/ Closes(l, o, closing))
      BY <1>1, <1>5 DEF TypeOK
    <2>2. /\ terminal' = [terminal EXCEPT ![l] = terminal'[l]]
          /\ terminal'[l] \in BOOLEAN
      BY <1>5, <2>1, <1>2 DEF Closes
    <2> QED
      BY <1>1, <1>2, <1>3, <1>5, <2>1, <2>2, SinkExtends DEF SinkAppended, Closes
  <1>6. CASE o = [to |-> 0, err |-> "io"] /\ Fault /\ UNCHANGED storeVars
    <2>1. /\ lines' = lines /\ torn' = torn /\ tails' = tails
          /\ terminal' = terminal /\ to = 0 /\ err = "io"
      BY <1>6 DEF storeVars
    <2>2. /\ lines = [lines EXCEPT ![l] = lines[l]]
          /\ tails = [tails EXCEPT ![l] = tails[l]] /\ torn \in [Hosts -> BOOLEAN]
      BY DEF TypeOK
    <2> QED
      BY <1>2, <1>4, <1>6, <2>1, <2>2 DEF SinkAppended
  <1>7. CASE \E p \in AppendOutcomes(l, first, last) :
               /\ p.err = "nil" /\ Closes(l, p, closing)
               /\ o = [p EXCEPT !.err = "io"]
               /\ Fault
               /\ AppendLocked(l, first, p)
               /\ UNCHANGED terminal
    <2>1. PICK p \in AppendOutcomes(l, first, last) :
               /\ p.err = "nil" /\ Closes(l, p, closing)
               /\ o = [p EXCEPT !.err = "io"]
               /\ Fault
               /\ AppendLocked(l, first, p)
               /\ UNCHANGED terminal
      BY <1>7
    <2>2. p \in [to : Nat, err : {"nil"}]
      <3>1. p.to \in Nat
        BY <1>1, <2>1, ExactAppend DEF Continued
      <3>2. p = [to |-> p.to, err |-> p.err]
        BY <1>1, <1>2 DEF AppendOutcomes
      <3> QED
        BY <2>1, <3>1, <3>2
    <2>3. to = p.to /\ err = "io"
      BY <2>1, <2>2
    <2> QED
      BY <1>1, <1>2, <1>4, <2>1, <2>3, SinkExtends DEF SinkAppended
  <1> QED
    BY <1>5, <1>6, <1>7 DEF StoreAppend

\* What Store.Append does to the container's spool, for the next record.
RecorderAppended(closing, to, err) ==
  LET n == recorder.seq + 1 IN
  /\ lines' = [lines EXCEPT ![0] = lines'[0]] /\ lines'[0] \in Seq(Nat)
  /\ \A i \in 1 .. Len(lines'[0]) : lines'[0][i] \in {i, Malformed}
  /\ tails' = [tails EXCEPT ![0] = tails'[0]]
  /\ torn' = [torn EXCEPT ![0] = torn'[0]] /\ torn'[0] \in BOOLEAN
  /\ terminal' = [terminal EXCEPT ![0] = terminal'[0]]
  /\ terminal'[0] \in BOOLEAN
  /\ \/ /\ Len(lines'[0]) = n /\ to = n
        /\ tails'[0] = [size |-> n, last |-> n] /\ ~torn'[0]
        /\ err = "nil" \/ closing = n
        /\ terminal'[0] => terminal[0] \/ closing = n
     \/ /\ Len(lines'[0]) = recorder.seq /\ to <= recorder.seq
        /\ tails'[0] = tails[0] /\ err # "nil"
        /\ torn'[0] => torn[0] \/ err = "io"
        /\ terminal'[0] = terminal[0]

\* appendLocked for the next record of the container's spool; a damaged tail is
\* a gap.
LEMMA RecorderExtends ==
  ASSUME TypeOK, RecorderInv, ~recorder.closed,
         NEW o \in AppendOutcomes(0, recorder.seq + 1, recorder.seq + 1),
         AppendLocked(0, recorder.seq + 1, o)
  PROVE  LET n == recorder.seq + 1 IN
         /\ o.to \in Nat /\ o = [to |-> o.to, err |-> o.err]
         /\ LoadTail(0) \in Nat /\ LoadTail(0) <= recorder.seq
         /\ lines' = [lines EXCEPT ![0] = lines'[0]] /\ lines'[0] \in Seq(Nat)
         /\ \A i \in 1 .. Len(lines'[0]) : lines'[0][i] \in {i, Malformed}
         /\ tails' = [tails EXCEPT ![0] = tails'[0]]
         /\ torn' = [torn EXCEPT ![0] = torn'[0]] /\ torn'[0] = (o.err = "io")
         /\ \/ /\ Len(lines'[0]) = n /\ o.to = n /\ o.err = "nil"
               /\ tails'[0] = [size |-> n, last |-> n]
            \/ /\ Len(lines'[0]) = recorder.seq /\ o.to <= recorder.seq
               /\ tails'[0] = tails[0] /\ o.err # "nil"
  <1> DEFINE n == recorder.seq + 1
             t == LoadTail(0)
             ls == lines[0]
  <1>1. 0 \in Hosts
    BY HopsAssumption DEF Hosts
  <1>2. /\ ls \in Seq(Nat) /\ Len(ls) \in Nat
        /\ tails[0] = [size |-> Len(ls), last |-> Len(ls)]
        /\ recorder.seq = Len(ls) /\ n \in Nat /\ n = Len(ls) + 1
    BY <1>1, HostTypes DEF RecorderInv
  <1>3. t \in Nat /\ t <= Len(ls)
    <2>1. RescanTail(ls) \in 0 .. Len(ls)
      BY <1>2, RescanTailBound DEF RecorderInv
    <2> QED
      BY <1>2, <2>1 DEF LoadTail, CacheHit
  <1>4. torn' = [torn EXCEPT ![0] = o.err = "io"]
    BY DEF AppendLocked
  <1>5. torn'[0] = (o.err = "io") /\ torn' = [torn EXCEPT ![0] = torn'[0]]
    BY <1>1, <1>4 DEF TypeOK
  <1>6. CASE t = Len(ls)
    <2>1. /\ o.to \in Nat /\ o.err \in {"nil", "gap", "capacity", "io"}
          /\ lines' = [lines EXCEPT ![0] = lines'[0]]
          /\ lines'[0] \in Seq(Nat) /\ Len(lines'[0]) = o.to
          /\ o.to >= Len(ls) /\ (o.to > Len(ls) => o.to <= n)
          /\ \A i \in 1 .. Len(ls) : lines'[0][i] = ls[i]
          /\ \A i \in Len(ls) + 1 .. o.to : lines'[0][i] = i
          /\ tails' = [tails EXCEPT ![0] = tails'[0]]
          /\ o.err = "nil" => /\ tails'[0] = [size |-> o.to, last |-> o.to]
                              /\ o.to >= n
          /\ o.err = "gap" => o.to + 1 < n
          /\ o.err \in {"capacity", "io"} => o.to < n /\ tails'[0] = tails[0]
      <3>1. Continued(0, n, n, o)
        BY <1>1, <1>2, <1>6, ExactAppend
      <3> QED
        BY <3>1 DEF Continued
    <2>2. \A i \in 1 .. Len(lines'[0]) : lines'[0][i] \in {i, Malformed}
      <3> TAKE i \in 1 .. Len(lines'[0])
      <3>1. CASE i <= Len(ls)
        <4>1. i \in 1 .. Len(ls)
          BY <3>1, <2>1, <1>2
        <4> QED
          BY <4>1, <2>1 DEF RecorderInv
      <3>2. CASE i > Len(ls)
        BY <3>2, <2>1, <1>2
      <3> QED
        BY <3>1, <3>2, <2>1, <1>2
    <2>3. o.err # "gap"
      BY <2>1, <1>2
    <2>4. o = [to |-> o.to, err |-> o.err]
      BY <1>2, <1>3 DEF AppendOutcomes
    <2> HIDE DEF n, t
    <2>5. \/ Len(lines'[0]) = n /\ o.to = n /\ o.err = "nil"
             /\ tails'[0] = [size |-> n, last |-> n]
          \/ Len(lines'[0]) = Len(ls) /\ o.to <= Len(ls)
             /\ tails'[0] = tails[0] /\ o.err # "nil"
      BY <2>1, <2>3, <1>2
    <2> QED
      BY <1>2, <1>3, <1>5, <2>1, <2>2, <2>4, <2>5 DEF n, t
  <1>7. CASE t # Len(ls)
    <2>1. n > t + 1
      BY <1>2, <1>3, <1>7
    <2>2. o = [to |-> t, err |-> "gap"] /\ lines' = lines /\ tails' = tails
      BY <1>1, <1>2, <1>3, <2>1, GapAppend
    <2>3. tails = [tails EXCEPT ![0] = tails[0]] /\ lines = [lines EXCEPT ![0] = ls]
      BY DEF TypeOK
    <2>4. \A i \in 1 .. Len(ls) : ls[i] \in {i, Malformed}
      BY DEF RecorderInv
    <2>5. o.to = t /\ o.err = "gap" /\ o = [to |-> o.to, err |-> o.err]
      BY <2>2
    <2> QED
      BY <1>2, <1>3, <1>5, <2>2, <2>3, <2>4, <2>5
  <1> QED
    BY <1>6, <1>7

\* Store.Append for the next record of the container's spool.
LEMMA RecorderAppends ==
  ASSUME TypeOK, RecorderInv, ~recorder.closed,
         NEW closing \in {0, recorder.seq + 1}, NEW to \in Nat, NEW err,
         StoreAppend(0, recorder.seq + 1, recorder.seq + 1, closing,
                     [to |-> to, err |-> err])
  PROVE  RecorderAppended(closing, to, err) /\ (Fault \/ NoFault)
  <1> DEFINE o == [to |-> to, err |-> err]
             n == recorder.seq + 1
  <1>1. 0 \in Hosts
    BY HopsAssumption DEF Hosts
  <1>2. /\ lines[0] \in Seq(Nat) /\ Len(lines[0]) \in Nat
        /\ terminal[0] \in BOOLEAN /\ torn[0] \in BOOLEAN
        /\ recorder.seq = Len(lines[0])
    BY <1>1, HostTypes DEF RecorderInv
  <1>3. o.to = to /\ o.err = err
    OBVIOUS
  <1>4. terminal' = terminal =>
          terminal' = [terminal EXCEPT ![0] = terminal'[0]]
    BY DEF TypeOK
  <1>5. CASE /\ o \in AppendOutcomes(0, n, n)
             /\ IF o.err = "io" THEN Fault ELSE NoFault
             /\ AppendLocked(0, n, o)
             /\ terminal' = [terminal EXCEPT ![0] = @ \/ Closes(0, o, closing)]
    <2> HIDE DEF o
    <2>1. terminal'[0] = (terminal[0] \/ Closes(0, o, closing))
      BY <1>1, <1>5 DEF TypeOK
    <2>2. /\ terminal' = [terminal EXCEPT ![0] = terminal'[0]]
          /\ terminal'[0] \in BOOLEAN
      BY <1>5, <2>1, <1>2 DEF Closes
    <2>3. LoadTail(0) \in Nat /\ LoadTail(0) <= recorder.seq
      BY <1>5, RecorderExtends
    <2>4. Closes(0, o, closing) => closing = n /\ closing <= to
      BY <1>2, <1>3, <2>3 DEF Closes
    <2>5. /\ lines' = [lines EXCEPT ![0] = lines'[0]] /\ lines'[0] \in Seq(Nat)
          /\ \A i \in 1 .. Len(lines'[0]) : lines'[0][i] \in {i, Malformed}
          /\ tails' = [tails EXCEPT ![0] = tails'[0]]
          /\ torn' = [torn EXCEPT ![0] = torn'[0]] /\ torn'[0] = (err = "io")
      BY <1>5, <1>3, RecorderExtends
    <2>6. \/ /\ Len(lines'[0]) = n /\ to = n /\ err = "nil"
             /\ tails'[0] = [size |-> n, last |-> n]
          \/ /\ Len(lines'[0]) = recorder.seq /\ to <= recorder.seq
             /\ tails'[0] = tails[0] /\ err # "nil"
      BY <1>5, <1>3, RecorderExtends
    <2>7. to <= recorder.seq => ~Closes(0, o, closing)
      BY <1>2, <2>4
    <2> QED
      BY <1>2, <1>5, <2>1, <2>2, <2>4, <2>5, <2>6, <2>7 DEF RecorderAppended
  <1>6. CASE o = [to |-> 0, err |-> "io"] /\ Fault /\ UNCHANGED storeVars
    <2>1. /\ lines' = lines /\ torn' = torn /\ tails' = tails
          /\ terminal' = terminal /\ to = 0 /\ err = "io"
      BY <1>6 DEF storeVars
    <2>2. /\ lines = [lines EXCEPT ![0] = lines[0]]
          /\ tails = [tails EXCEPT ![0] = tails[0]]
          /\ torn = [torn EXCEPT ![0] = torn[0]]
      BY DEF TypeOK
    <2>3. \A i \in 1 .. Len(lines[0]) : lines[0][i] \in {i, Malformed}
      BY DEF RecorderInv
    <2> QED
      BY <1>2, <1>4, <1>6, <2>1, <2>2, <2>3 DEF RecorderAppended
  <1>7. CASE \E p \in AppendOutcomes(0, n, n) :
               /\ p.err = "nil" /\ Closes(0, p, closing)
               /\ o = [p EXCEPT !.err = "io"]
               /\ Fault
               /\ AppendLocked(0, n, p)
               /\ UNCHANGED terminal
    <2>1. PICK p \in AppendOutcomes(0, n, n) :
               /\ p.err = "nil" /\ Closes(0, p, closing)
               /\ o = [p EXCEPT !.err = "io"]
               /\ Fault
               /\ AppendLocked(0, n, p)
               /\ UNCHANGED terminal
      BY <1>7
    <2>2. p.to \in Nat /\ p = [to |-> p.to, err |-> p.err]
          /\ LoadTail(0) \in Nat
      BY <2>1, RecorderExtends
    <2>3. to = p.to /\ err = "io"
      BY <2>1, <2>2
    <2>4. closing = n
      BY <2>1, <2>2 DEF Closes
    <2>5. /\ lines' = [lines EXCEPT ![0] = lines'[0]] /\ lines'[0] \in Seq(Nat)
          /\ \A i \in 1 .. Len(lines'[0]) : lines'[0][i] \in {i, Malformed}
          /\ tails' = [tails EXCEPT ![0] = tails'[0]]
          /\ torn' = [torn EXCEPT ![0] = torn'[0]] /\ torn'[0] = FALSE
          /\ Len(lines'[0]) = n /\ p.to = n
          /\ tails'[0] = [size |-> n, last |-> n]
      BY <2>1, RecorderExtends
    <2> QED
      BY <1>2, <1>4, <2>1, <2>3, <2>4, <2>5 DEF RecorderAppended
  <1> QED
    BY <1>5, <1>6, <1>7 DEF StoreAppend

-----------------------------------------------------------------------------
(* Steps of one link                                                       *)

\* Types of what a link keeps.
LEMMA LinkTypes ==
  ASSUME TypeOK, NEW l \in Links
  PROVE  /\ sender[l] \in Sender /\ upstream[l] \in AckState
         /\ inbound[l] \in AckState /\ inflight[l] \in Slots \cup {None}
         /\ calls[l] \in [Slots -> Call]
         /\ history.unrecorded[l] \in BOOLEAN /\ history.held[l] \in Nat
         /\ history.owed[l] \in Nat
         /\ l \in Nat /\ l >= 1 /\ l \in Hosts /\ l - 1 \in Hosts
         /\ Len(lines[l]) \in Nat /\ Len(lines[l - 1]) \in Nat
  <1>1. l \in Nat /\ l >= 1 /\ l \in Hosts /\ l - 1 \in Hosts
    BY HopsAssumption DEF Links, Hosts
  <1>2. Len(lines[l]) \in Nat /\ Len(lines[l - 1]) \in Nat
    BY <1>1, HostTypes
  <1> QED
    BY <1>1, <1>2 DEF TypeOK, History

\* The step leaves the other links alone, but for telling one of new records.
OthersStay(l) ==
  \A k \in Links \ {l} :
    /\ sender'[k] \in {sender[k], Notify(sender[k])}
    /\ upstream'[k] = upstream[k] /\ inbound'[k] = inbound[k]
    /\ calls'[k] = calls[k] /\ inflight'[k] = inflight[k]
    /\ history'.unrecorded[k] = history.unrecorded[k]
    /\ history'.held[k] = history.held[k] /\ history'.owed[k] = history.owed[k]

\* Telling a sender of new records creates it and changes nothing else.
LEMMA NotifyIs ==
  ASSUME NEW s \in Sender
  PROVE  /\ Notify(s) \in Sender /\ Notify(s).exists
         /\ Notify(s).mode = s.mode /\ Notify(s).drain = s.drain
         /\ Notify(s).flush = s.flush /\ Notify(s).acked = s.acked
         /\ Notify(s).incomplete = s.incomplete
         /\ Notify(s).disabled = s.disabled
  BY DEF Notify, Sender

\* A step of one link that leaves the stores alone keeps the invariant if it
\* keeps the part about its link.
LEMMA LinkStep ==
  ASSUME IndInv, TypeOK', lines' = lines, tails' = tails, torn' = torn,
         terminal' = terminal, recorder' = recorder,
         NEW l \in Links, OthersStay(l),
         sender[l].exists => sender'[l].exists,
         history.unrecorded[l] => history'.unrecorded[l],
         LinkInv(l)'
  PROVE  IndInv'
  <1>1. TypeOK /\ RecorderInv /\ StoreInv /\ TerminalHasAll
    BY DEF IndInv
  <1>2. RecorderInv' /\ StoreInv' /\ TerminalHasAll'
    BY <1>1 DEF RecorderInv, StoreInv, TerminalHasAll
  <1>3. ASSUME NEW k \in Links, k # l PROVE LinkInv(k)'
    <2>1. LinkInv(k)
      BY DEF IndInv
    <2>2. /\ sender'[k] \in {sender[k], Notify(sender[k])}
          /\ upstream'[k] = upstream[k] /\ inbound'[k] = inbound[k]
          /\ calls'[k] = calls[k] /\ inflight'[k] = inflight[k]
          /\ history'.unrecorded[k] = history.unrecorded[k]
          /\ history'.held[k] = history.held[k]
          /\ history'.owed[k] = history.owed[k]
      BY <1>3 DEF OthersStay
    <2>3. /\ sender'[k].mode = sender[k].mode /\ sender'[k].drain = sender[k].drain
          /\ sender'[k].flush = sender[k].flush /\ sender'[k].acked = sender[k].acked
          /\ sender'[k].incomplete = sender[k].incomplete
      BY <1>1, <2>2, LinkTypes, NotifyIs
    <2>4. \A j \in Links : history.unrecorded[j] => history'.unrecorded[j]
      BY DEF OthersStay
    <2>5. \A j \in Links : sender[j].exists => sender'[j].exists
      <3> TAKE j \in Links
      <3>1. CASE j = l
        BY <3>1
      <3>2. CASE j # l
        <4>1. sender'[j] \in {sender[j], Notify(sender[j])}
          BY <3>2 DEF OthersStay
        <4> QED
          BY <4>1, <1>1, LinkTypes, NotifyIs
      <3> QED
        BY <3>1, <3>2
    <2>6. CallsOK(k)'
      BY <2>1, <2>2 DEF LinkInv, CallsOK
    <2>7. WaitsOK(k)'
      BY <2>1, <2>2, <2>3 DEF LinkInv, WaitsOK, WaitOK
    <2>8. AckOK(k)'
      BY <2>1, <2>2, <2>3 DEF LinkInv, AckOK
    <2>9. TellsNext(k)'
      BY <2>1, <2>2, <2>3, <2>4, <2>5 DEF LinkInv, TellsNext
    <2>10. HeldOK(k)'
      BY <2>1, <2>2 DEF LinkInv, HeldOK
    <2>11. OwedOK(k)'
      <3>1. k > 1 => k - 1 \in Links
        BY HopsAssumption DEF Links
      <3> QED
        BY <2>1, <2>2, <2>3, <2>4, <3>1 DEF LinkInv, OwedOK
    <2> QED
      BY <2>6, <2>7, <2>8, <2>9, <2>10, <2>11 DEF LinkInv
  <1>4. \A k \in Links : LinkInv(k)'
    BY <1>3
  <1> QED
    BY <1>2, <1>4 DEF IndInv

\* The number of faults stays in its bound.
LEMMA FaultType ==
  ASSUME TypeOK, Fault \/ NoFault
  PROVE  faults' \in 0 .. MaxFaults
  BY BoundsAssumption DEF TypeOK, Fault, NoFault

\* The end of a drain changes at most who drains and what Flush reports.
LEMMA StoppedIs ==
  ASSUME NEW s \in Sender, NEW failed
  PROVE  LET t == Stopped(s, failed) IN
         /\ t \in Sender
         /\ t.exists = s.exists /\ t.mode = s.mode /\ t.acked = s.acked
         /\ t.incomplete = s.incomplete /\ t.disabled = s.disabled
         /\ t.drain \in {s.drain, "none"}
         /\ t.flush = s.flush \/ (t.flush = "false" /\ t.drain = "none")
  <1> DEFINE u == [s EXCEPT !.drain = "none", !.flush = "false"]
             v == [s EXCEPT !.drain = "none"]
  <1>1. Stopped(s, failed) \in {u, v, s}
    BY DEF Stopped
  <1>2. /\ u \in Sender
        /\ u.exists = s.exists /\ u.mode = s.mode /\ u.acked = s.acked
        /\ u.incomplete = s.incomplete /\ u.disabled = s.disabled
        /\ u.drain = "none" /\ u.flush = "false"
    BY DEF Sender
  <1>3. /\ v \in Sender
        /\ v.exists = s.exists /\ v.mode = s.mode /\ v.acked = s.acked
        /\ v.incomplete = s.incomplete /\ v.disabled = s.disabled
        /\ v.drain = "none" /\ v.flush = s.flush
    BY DEF Sender
  <1> HIDE DEF u, v
  <1> QED
    BY <1>1, <1>2, <1>3

\* A free slot.
LEMMA FreeIs == Free \in Call /\ Free.pc = "free" /\ Free.accepted = 0
  BY DEF Free, Call

\* A call that is given up leaves the other calls, and at most vanishes itself.
LEMMA AbandonIs ==
  ASSUME TypeOK, NEW l \in Links, CallsOK(l), lines' = lines, Abandon(l)
  PROVE  /\ inflight' = [inflight EXCEPT ![l] = None] /\ inflight'[l] = None
         /\ calls' \in [Links -> [Slots -> Call]]
         /\ \A k \in Links \ {l} : calls'[k] = calls[k]
         /\ CallsOK(l)'
  <1>1. inflight' = [inflight EXCEPT ![l] = None] /\ inflight'[l] = None
    BY DEF Abandon, TypeOK
  <1>2. calls \in [Links -> [Slots -> Call]] /\ Len(lines[l]) \in Nat
    BY LinkTypes DEF TypeOK
  <1>3. CASE calls' = calls
    BY <1>1, <1>2, <1>3 DEF CallsOK
  <1>4. CASE calls' = [calls EXCEPT ![l][inflight[l]] = Free]
    <2>1. /\ calls' \in [Links -> [Slots -> Call]]
          /\ \A k \in Links \ {l} : calls'[k] = calls[k]
          /\ \A c \in Slots : calls'[l][c] \in {calls[l][c], Free}
      BY <1>2, <1>4, FreeIs
    <2>2. ASSUME NEW c \in Slots
          PROVE  CallOK(calls'[l][c], Len(lines[l]), Len(lines[l - 1]))
      <3>1. CASE calls'[l][c] = calls[l][c]
        BY <3>1 DEF CallsOK
      <3>2. CASE calls'[l][c] = Free
        BY <3>2, <1>2, FreeIs DEF CallOK
      <3> QED
        BY <2>1, <3>1, <3>2
    <2> QED
      BY <1>1, <2>1, <2>2 DEF CallsOK
  <1> QED
    BY <1>3, <1>4 DEF Abandon

\* The sender changes, and nothing of its position.
LEMMA SenderMoves ==
  ASSUME IndInv, NEW l \in Links,
         UNCHANGED <<storeVars, recorder, upstream, inbound, known, old, history>>,
         Fault \/ NoFault,
         NEW s \in Sender, Becomes(l, s),
         s.exists = sender[l].exists, s.acked = sender[l].acked,
         sender[l].incomplete => s.incomplete,
         s.flush = "true" => sender[l].flush = "true",
         s.drain = "worker" => s.mode = "running",
         s.drain = "flush" => s.flush = "waiting",
         \/ Abandon(l)
         \/ /\ calls' = calls /\ inflight' = inflight
            /\ inflight[l] # None => s.drain # "none"
  PROVE  IndInv'
  <1>1. TypeOK /\ LinkInv(l)
    BY DEF IndInv
  <1>2. /\ lines' = lines /\ tails' = tails /\ torn' = torn
        /\ terminal' = terminal /\ recorder' = recorder
        /\ upstream' = upstream /\ inbound' = inbound /\ known' = known
        /\ old' = old /\ history' = history
    BY DEF storeVars
  <1>3. /\ sender' \in [Links -> Sender] /\ sender'[l] = s
        /\ \A k \in Links \ {l} : sender'[k] = sender[k]
    BY <1>1 DEF Becomes, TypeOK
  <1>4. /\ inflight' \in [Links -> Slots \cup {None}]
        /\ calls' \in [Links -> [Slots -> Call]]
        /\ \A k \in Links \ {l} : calls'[k] = calls[k] /\ inflight'[k] = inflight[k]
        /\ CallsOK(l)'
        /\ \/ inflight'[l] = None
           \/ calls' = calls /\ inflight' = inflight /\ s.drain # "none"
    <2>1. inflight \in [Links -> Slots \cup {None}]
          /\ calls \in [Links -> [Slots -> Call]] /\ CallsOK(l)
      BY <1>1 DEF TypeOK, LinkInv
    <2>2. CASE Abandon(l)
      <3>1. /\ inflight' = [inflight EXCEPT ![l] = None] /\ inflight'[l] = None
            /\ calls' \in [Links -> [Slots -> Call]]
            /\ \A k \in Links \ {l} : calls'[k] = calls[k]
            /\ CallsOK(l)'
        BY <1>1, <1>2, <2>1, <2>2, AbandonIs
      <3> QED
        BY <2>1, <3>1
    <2>3. CASE /\ calls' = calls /\ inflight' = inflight
               /\ inflight[l] # None => s.drain # "none"
      BY <1>2, <2>1, <2>3 DEF CallsOK
    <2> QED
      BY <2>2, <2>3
  <1>5. TypeOK'
    <2>1. faults' \in 0 .. MaxFaults
      BY <1>1, FaultType
    <2> QED
      BY <1>1, <1>2, <1>3, <1>4, <2>1 DEF TypeOK
  <1>6. WaitsOK(l)'
    <2>1. inflight'[l] # None =>
            /\ s.drain # "none" /\ calls'[l][inflight'[l]].pc # "free"
            /\ calls'[l][inflight'[l]].first = s.acked + 1
      BY <1>1, <1>4 DEF LinkInv, WaitsOK, WaitOK
    <2> QED
      BY <1>3, <2>1 DEF WaitsOK, WaitOK
  <1>7. AckOK(l)' /\ HeldOK(l)' /\ OwedOK(l)'
    BY <1>1, <1>2, <1>3 DEF LinkInv, AckOK, HeldOK, OwedOK
  <1>8. TellsNext(l)'
    <2>1. l + 1 # l
      BY <1>1, LinkTypes
    <2> QED
      BY <1>1, <1>2, <1>3, <2>1 DEF LinkInv, TellsNext
  <1>9. OthersStay(l)
    BY <1>2, <1>3, <1>4 DEF OthersStay
  <1> QED
    BY <1>2, <1>3, <1>4, <1>5, <1>6, <1>7, <1>8, <1>9, LinkStep DEF LinkInv

\* What a step of link l starts from.
LEMMA LinkFacts ==
  ASSUME IndInv, NEW l \in Links
  PROVE  /\ TypeOK /\ LinkInv(l) /\ sender[l] \in Sender
         /\ sender[l].drain = "worker" => sender[l].mode = "running"
         /\ sender[l].drain = "flush" => sender[l].flush = "waiting"
         /\ inflight[l] # None => sender[l].drain # "none"
  BY LinkTypes DEF IndInv, LinkInv, WaitsOK, WaitOK

\* The worker takes the drain lock.
LEMMA WorkerWakesStep ==
  ASSUME IndInv, NEW l \in Links, WorkerWakes(l)
  PROVE  IndInv'
  <1> DEFINE s == [sender[l] EXCEPT !.drain = "worker"]
  <1>1. /\ sender[l] \in Sender
        /\ inflight[l] # None => sender[l].drain # "none"
    BY LinkFacts
  <1>2. /\ s \in Sender /\ s.exists = sender[l].exists
        /\ s.acked = sender[l].acked /\ s.incomplete = sender[l].incomplete
        /\ s.flush = sender[l].flush /\ s.mode = sender[l].mode
        /\ s.drain = "worker"
    BY <1>1 DEF Sender
  <1>3. /\ UNCHANGED <<storeVars, recorder, upstream, inbound, known, old, history>>
        /\ NoFault /\ calls' = calls /\ inflight' = inflight
        /\ s.mode = "running"
    BY <1>2 DEF WorkerWakes, NoFault
  <1>4. Becomes(l, s)
    BY DEF WorkerWakes, Becomes
  <1> HIDE DEF s
  <1> QED
    BY <1>2, <1>3, <1>4, SenderMoves

\* A drain meets a damaged line.
LEMMA SourceGapStep ==
  ASSUME IndInv, NEW l \in Links, SourceGap(l)
  PROVE  IndInv'
  <1> DEFINE t == [sender[l] EXCEPT !.incomplete = TRUE, !.disabled = TRUE]
             s == Stopped(t, FALSE)
  <1>1. /\ sender[l] \in Sender
        /\ sender[l].drain = "worker" => sender[l].mode = "running"
        /\ sender[l].drain = "flush" => sender[l].flush = "waiting"
    BY LinkFacts
  <1>2. /\ t \in Sender /\ t.exists = sender[l].exists
        /\ t.acked = sender[l].acked /\ t.incomplete
        /\ t.flush = sender[l].flush /\ t.mode = sender[l].mode
        /\ t.drain = sender[l].drain
    BY <1>1 DEF Sender
  <1>3. Becomes(l, s)
    BY DEF SourceGap
  <1> HIDE DEF t
  <1>4. /\ s \in Sender /\ s.exists = t.exists /\ s.mode = t.mode
        /\ s.acked = t.acked /\ s.incomplete = t.incomplete
        /\ s.drain \in {t.drain, "none"}
        /\ s.flush = t.flush \/ (s.flush = "false" /\ s.drain = "none")
    BY <1>2, StoppedIs
  <1>5. /\ UNCHANGED <<storeVars, recorder, upstream, inbound, known, old, history>>
        /\ NoFault /\ calls' = calls /\ inflight' = inflight /\ inflight[l] = None
    BY DEF SourceGap, NoFault, Draining
  <1> HIDE DEF s
  <1> QED
    BY <1>1, <1>2, <1>3, <1>4, <1>5, SenderMoves

\* A call times out or its connection breaks.
LEMMA CallFailsStep ==
  ASSUME IndInv, NEW l \in Links, CallFails(l)
  PROVE  IndInv'
  <1> DEFINE t == sender[l]
             s == Stopped(t, TRUE)
  <1>1. /\ t \in Sender
        /\ t.drain = "worker" => t.mode = "running"
        /\ t.drain = "flush" => t.flush = "waiting"
    BY LinkFacts
  <1>2. /\ s \in Sender /\ s.exists = t.exists /\ s.mode = t.mode
        /\ s.acked = t.acked /\ s.incomplete = t.incomplete
        /\ s.drain \in {t.drain, "none"}
        /\ s.flush = t.flush \/ (s.flush = "false" /\ s.drain = "none")
    BY <1>1, StoppedIs
  <1>3. /\ UNCHANGED <<storeVars, recorder, upstream, inbound, known, old, history>>
        /\ Fault /\ Abandon(l) /\ Becomes(l, s)
    BY DEF CallFails
  <1> HIDE DEF s
  <1> QED
    BY <1>1, <1>2, <1>3, SenderMoves

\* Flush takes the drain lock.
LEMMA FlushLocksStep ==
  ASSUME IndInv, NEW l \in Links, FlushLocks(l)
  PROVE  IndInv'
  <1> DEFINE t == [sender[l] EXCEPT !.drain = "flush"]
             s == Stopped(t, FALSE)
  <1>1. /\ sender[l] \in Sender
        /\ sender[l].flush = "waiting" /\ sender[l].drain = "none"
        /\ inflight[l] # None => sender[l].drain # "none"
    BY LinkFacts DEF FlushLocks
  <1>2. /\ t \in Sender /\ t.exists = sender[l].exists
        /\ t.acked = sender[l].acked /\ t.incomplete = sender[l].incomplete
        /\ t.flush = "waiting" /\ t.drain = "flush"
    BY <1>1 DEF Sender
  <1>3. Becomes(l, s)
    BY DEF FlushLocks
  <1> HIDE DEF t
  <1>4. /\ s \in Sender /\ s.exists = t.exists
        /\ s.acked = t.acked /\ s.incomplete = t.incomplete
        /\ s.drain \in {t.drain, "none"}
        /\ s.flush = t.flush \/ (s.flush = "false" /\ s.drain = "none")
    BY <1>2, StoppedIs
  <1>5. /\ UNCHANGED <<storeVars, recorder, upstream, inbound, known, old, history>>
        /\ NoFault /\ calls' = calls /\ inflight' = inflight /\ inflight[l] = None
    BY <1>1 DEF FlushLocks, NoFault
  <1> HIDE DEF s
  <1> QED
    BY <1>2, <1>3, <1>4, <1>5, SenderMoves

\* The deadline of Flush passes.
LEMMA FlushTimesOutStep ==
  ASSUME IndInv, NEW l \in Links, FlushTimesOut(l)
  PROVE  IndInv'
  <1> DEFINE r == sender[l]
             s == [r EXCEPT !.flush = "false", !.drain = "none"]
             t == [r EXCEPT !.flush = "false"]
  <1>1. /\ r \in Sender
        /\ r.drain = "worker" => r.mode = "running"
        /\ inflight[l] # None => r.drain # "none"
    BY LinkFacts
  <1>2. /\ UNCHANGED <<storeVars, recorder, upstream, inbound, known, old, history>>
        /\ NoFault
    BY DEF FlushTimesOut, NoFault
  <1>3. /\ s \in Sender /\ s.exists = r.exists /\ s.acked = r.acked
        /\ s.incomplete = r.incomplete /\ s.flush = "false" /\ s.drain = "none"
    BY <1>1 DEF Sender
  <1>4. /\ t \in Sender /\ t.exists = r.exists /\ t.acked = r.acked
        /\ t.incomplete = r.incomplete /\ t.flush = "false"
        /\ t.drain = r.drain /\ t.mode = r.mode
    BY <1>1 DEF Sender
  <1>5. CASE Becomes(l, s) /\ Abandon(l)
    <2> HIDE DEF s
    <2> QED
      BY <1>2, <1>3, <1>5, SenderMoves
  <1>6. CASE r.drain # "flush" /\ Becomes(l, t) /\ UNCHANGED <<calls, inflight>>
    <2> HIDE DEF t
    <2> QED
      BY <1>1, <1>2, <1>4, <1>6, SenderMoves
  <1> QED
    BY <1>5, <1>6 DEF FlushTimesOut

\* The worker stops.
LEMMA StopWorkerStep ==
  ASSUME IndInv, NEW l \in Links, StopWorker(l)
  PROVE  IndInv'
  <1> DEFINE r == sender[l]
             s == [r EXCEPT !.mode = "stopped",
                            !.drain = IF @ = "worker" THEN "none" ELSE @]
  <1>1. /\ r \in Sender /\ sender \in [Links -> Sender]
        /\ r.drain = "flush" => r.flush = "waiting"
        /\ inflight[l] # None => r.drain # "none"
    BY LinkFacts DEF TypeOK
  <1>2. /\ s \in Sender /\ s.exists = r.exists /\ s.acked = r.acked
        /\ s.incomplete = r.incomplete /\ s.flush = r.flush
        /\ s.drain = IF r.drain = "worker" THEN "none" ELSE r.drain
    BY <1>1 DEF Sender
  <1>3. /\ UNCHANGED <<storeVars, recorder, upstream, inbound, known, old, history>>
        /\ NoFault
        /\ IF r.drain = "worker" THEN Abandon(l) ELSE UNCHANGED <<calls, inflight>>
    BY DEF StopWorker, NoFault
  <1>4. Becomes(l, s)
    BY <1>1 DEF StopWorker, Becomes
  <1> HIDE DEF s
  <1>5. s.drain # "worker" /\ (s.drain = "flush" => s.flush = "waiting")
    BY <1>1, <1>2
  <1>6. CASE r.drain = "worker"
    BY <1>2, <1>3, <1>4, <1>5, <1>6, SenderMoves
  <1>7. CASE r.drain # "worker"
    BY <1>1, <1>2, <1>3, <1>4, <1>5, <1>7, SenderMoves
  <1> QED
    BY <1>6, <1>7

\* No source holds more than the container.
LEMMA SourceBound ==
  ASSUME IndInv, NEW l \in Links
  PROVE  Len(lines[l - 1]) <= Len(lines[0])
  <1>1. l - 1 = 0 \/ l - 1 \in Links
    BY HopsAssumption DEF Links
  <1>2. Len(lines[0]) \in Nat
    BY HostTypes, HopsAssumption DEF IndInv, Hosts
  <1> QED
    BY <1>1, <1>2 DEF IndInv, StoreInv

\* A page is sent: it begins after the position and ends within what the source
\* holds.
LEMMA SendStep ==
  ASSUME IndInv, NEW l \in Links, Send(l)
  PROVE  IndInv'
  <1> DEFINE from == sender[l].acked + 1
  <1>1. TypeOK /\ LinkInv(l)
    BY DEF IndInv
  <1>2. /\ sender[l] \in Sender /\ sender[l].acked \in Nat
        /\ Len(lines[l]) \in Nat /\ Len(lines[l - 1]) \in Nat
        /\ Len(lines[0]) \in Nat
    BY <1>1, LinkTypes, HostTypes, HopsAssumption DEF Hosts, Sender
  <1>3. PICK c \in Slots, last \in from .. Len(lines[l - 1]) :
          /\ calls' = [calls EXCEPT ![l][c] =
               [pc |-> "sent", first |-> from, last |-> last,
                accepted |-> 0, err |-> "nil"]]
          /\ inflight' = [inflight EXCEPT ![l] = c]
    BY DEF Send
  <1> DEFINE call == [pc |-> "sent", first |-> from, last |-> last,
                      accepted |-> 0, err |-> "nil"]
  <1>4. /\ call \in Call /\ call.pc = "sent" /\ call.first = from
        /\ call.last = last /\ call.accepted = 0
    BY <1>2, <1>3 DEF Call
  <1>5. calls' = [calls EXCEPT ![l][c] = call]
    BY <1>3
  <1> HIDE DEF call
  <1>6. /\ calls' \in [Links -> [Slots -> Call]] /\ calls'[l][c] = call
        /\ \A d \in Slots \ {c} : calls'[l][d] = calls[l][d]
        /\ \A k \in Links \ {l} : calls'[k] = calls[k]
    BY <1>1, <1>4, <1>5 DEF TypeOK
  <1>7. /\ inflight' \in [Links -> Slots \cup {None}] /\ inflight'[l] = c
        /\ \A k \in Links \ {l} : inflight'[k] = inflight[k]
    BY <1>1, <1>3 DEF TypeOK
  <1>8. /\ lines' = lines /\ tails' = tails /\ torn' = torn
        /\ terminal' = terminal /\ recorder' = recorder /\ sender' = sender
        /\ upstream' = upstream /\ inbound' = inbound /\ known' = known
        /\ old' = old /\ history' = history /\ faults' = faults
        /\ sender[l].drain # "none"
    BY DEF Send, storeVars, Draining
  <1>9. TypeOK'
    BY <1>1, <1>6, <1>7, <1>8 DEF TypeOK
  <1>10. CallsOK(l)'
    <2>1. last <= Len(lines[l - 1])
      BY <1>2, <1>3
    <2>2. CallOK(call, Len(lines[l]), Len(lines[l - 1]))
      BY <1>2, <1>4, <2>1 DEF CallOK
    <2> QED
      BY <1>1, <1>6, <1>8, <2>2 DEF LinkInv, CallsOK
  <1>11. WaitsOK(l)'
    BY <1>1, <1>4, <1>6, <1>7, <1>8 DEF LinkInv, WaitsOK, WaitOK
  <1>12. AckOK(l)' /\ TellsNext(l)' /\ HeldOK(l)' /\ OwedOK(l)'
    BY <1>1, <1>8 DEF LinkInv, AckOK, TellsNext, HeldOK, OwedOK
  <1>13. OthersStay(l)
    BY <1>6, <1>7, <1>8 DEF OthersStay
  <1> QED
    BY <1>8, <1>9, <1>10, <1>11, <1>12, <1>13, LinkStep DEF LinkInv

\* A drain ends; a Flush without gaps has moved everything of its source.
LEMMA CaughtUpStep ==
  ASSUME IndInv, NEW l \in Links, CaughtUp(l)
  PROVE  IndInv'
  <1> DEFINE r == sender[l]
             good == r.drain = "flush" /\ ~r.incomplete /\ ~r.disabled
             s == [r EXCEPT !.drain = "none",
                     !.flush = IF r.drain # "flush" THEN @
                               ELSE IF good THEN "true" ELSE "false"]
             n == Len(lines[l - 1])
  <1>1. /\ TypeOK /\ LinkInv(l) /\ r \in Sender
        /\ r.drain = "flush" => r.flush = "waiting"
    BY LinkFacts
  <1>2. /\ r.acked \in Nat /\ n \in Nat /\ Len(lines[l]) \in Nat
        /\ history \in History /\ history.held[l] \in Nat
        /\ history.owed[l] \in Nat /\ history.unrecorded[l] \in BOOLEAN
    BY <1>1, LinkTypes DEF Sender, TypeOK
  <1>3. /\ lines' = lines /\ tails' = tails /\ torn' = torn
        /\ terminal' = terminal /\ recorder' = recorder
        /\ upstream' = upstream /\ inbound' = inbound /\ known' = known
        /\ old' = old /\ calls' = calls /\ inflight' = inflight
        /\ faults' = faults /\ inflight[l] = None /\ ~(r.acked < n)
    BY DEF CaughtUp, storeVars, Draining, HasNext
  <1>4. /\ s \in Sender /\ s.exists = r.exists /\ s.acked = r.acked
        /\ s.incomplete = r.incomplete /\ s.drain = "none"
        /\ r.drain # "flush" => s.flush = r.flush
        /\ s.flush = "true" => r.flush = "true" \/ good
    BY <1>1 DEF Sender
  <1>5. Becomes(l, s)
    BY DEF CaughtUp
  <1> HIDE DEF s
  <1>6. /\ sender' \in [Links -> Sender] /\ sender'[l] = s
        /\ \A k \in Links \ {l} : sender'[k] = sender[k]
    BY <1>1, <1>4, <1>5 DEF Becomes, TypeOK
  <1>7. /\ history' \in History /\ history'.unrecorded = history.unrecorded
        /\ history'.owed = history.owed
        /\ \A k \in Links \ {l} : history'.held[k] = history.held[k]
        /\ history'.held[l] = IF good THEN n ELSE history.held[l]
    <2>1. CASE good
      <3>1. history' = [history EXCEPT !.held[l] = n]
        BY <2>1 DEF CaughtUp
      <3> QED
        BY <1>2, <2>1, <3>1 DEF History
    <2>2. CASE ~good
      <3>1. history' = history
        BY <2>2 DEF CaughtUp
      <3> QED
        BY <1>2, <2>2, <3>1
    <2> QED
      BY <2>1, <2>2
  <1>8. TypeOK'
    BY <1>1, <1>3, <1>6, <1>7 DEF TypeOK
  <1>9. CallsOK(l)' /\ WaitsOK(l)' /\ AckOK(l)'
    BY <1>1, <1>3, <1>4, <1>6, <1>7 DEF LinkInv, CallsOK, WaitsOK, WaitOK, AckOK
  <1>10. good => history.unrecorded[l] \/ n <= Len(lines[l])
    BY <1>1, <1>2, <1>3 DEF LinkInv, AckOK
  <1>11. HeldOK(l)'
    BY <1>1, <1>3, <1>7, <1>10 DEF LinkInv, HeldOK
  <1>12. TellsNext(l)'
    <2> SUFFICES ASSUME l + 1 \in Links, ~sender'[l + 1].exists,
                        ~history'.unrecorded[l]
                 PROVE  /\ sender'[l].acked > 0 => sender'[l].incomplete
                        /\ upstream'[l].acked > 0 => upstream'[l].gapped
                        /\ history'.held[l] = 0
      BY DEF TellsNext
    <2>1. l + 1 # l
      BY <1>1, LinkTypes
    <2>2. /\ r.acked > 0 => r.incomplete
          /\ upstream[l].acked > 0 => upstream[l].gapped
          /\ history.held[l] = 0
      BY <1>1, <1>6, <1>7, <2>1 DEF LinkInv, TellsNext
    <2>3. good => n = 0
      BY <1>2, <1>3, <2>2
    <2> QED
      BY <1>3, <1>4, <1>6, <1>7, <2>2, <2>3
  <1>13. OwedOK(l)'
    <2>1. OwedOK(l)
      BY <1>1 DEF LinkInv
    <2>2. /\ s.flush = "true" => r.flush = "true" \/ good
          /\ history'.unrecorded = history.unrecorded
          /\ history'.owed = history.owed /\ lines' = lines
          /\ sender'[l].flush = s.flush
      BY <1>3, <1>4, <1>6, <1>7
    <2>3. good /\ history.owed[l] <= n
            => history.unrecorded[l] \/ history.owed[l] <= Len(lines[l])
      BY <1>2, <1>10
    <2> QED
      BY <2>1, <2>2, <2>3 DEF OwedOK
  <1>14. OthersStay(l)
    BY <1>3, <1>6, <1>7 DEF OthersStay
  <1> QED
    BY <1>3, <1>4, <1>6, <1>7, <1>8, <1>9, <1>11, <1>12, <1>13, <1>14, LinkStep
       DEF LinkInv

\* Flush begins: a sender that does not exist owes nothing, because the link
\* before would have told it.
LEMMA FlushBeginsStep ==
  ASSUME IndInv, NEW l \in Links, FlushBegins(l)
  PROVE  IndInv'
  <1> DEFINE r == sender[l]
             n == IF l > 1 /\ sender[l - 1].flush = "true"
                    THEN history.held[l - 1] ELSE 0
  <1>1. /\ TypeOK /\ LinkInv(l) /\ r \in Sender
        /\ r.drain = "worker" => r.mode = "running"
        /\ r.drain = "flush" => r.flush = "waiting"
        /\ inflight[l] # None => r.drain # "none"
    BY LinkFacts
  <1>2. /\ lines' = lines /\ tails' = tails /\ torn' = torn
        /\ terminal' = terminal /\ recorder' = recorder
        /\ upstream' = upstream /\ inbound' = inbound /\ known' = known
        /\ old' = old /\ faults' = faults /\ r.flush = "no"
        /\ history' = [history EXCEPT !.owed[l] = n]
    BY DEF FlushBegins, storeVars
  <1>3. l > 1 => l - 1 \in Links /\ LinkInv(l - 1)
    <2>1. l > 1 => l - 1 \in Links
      BY HopsAssumption DEF Links
    <2> QED
      BY <2>1 DEF IndInv
  <1>4. n \in Nat /\ history \in History
    BY <1>1, <1>3, LinkTypes DEF TypeOK
  <1>5. \/ n = 0
        \/ l > 1 /\ history.unrecorded[l - 1]
        \/ l > 1 /\ n <= Len(lines[l - 1])
    BY <1>3 DEF LinkInv, HeldOK
  <1>6. \/ n = 0
        \/ l > 1 /\ history.unrecorded[l - 1]
        \/ r.exists
    <2>1. l - 1 + 1 = l
      BY <1>1, LinkTypes
    <2> QED
      BY <1>3, <2>1 DEF LinkInv, TellsNext
  <1> HIDE DEF n
  <1>7. /\ history' \in History /\ history'.unrecorded = history.unrecorded
        /\ history'.held = history.held /\ history'.owed[l] = n
        /\ \A k \in Links \ {l} : history'.owed[k] = history.owed[k]
    BY <1>2, <1>4 DEF History
  <1>8. PICK s \in Sender :
          /\ Becomes(l, s) /\ s.exists = r.exists /\ s.acked = r.acked
          /\ s.incomplete = r.incomplete
          /\ s.flush = "true" => ~r.exists
          /\ s.drain = "worker" => s.mode = "running"
          /\ s.drain = "flush" => s.flush = "waiting"
          /\ \/ Abandon(l)
             \/ /\ calls' = calls /\ inflight' = inflight
                /\ inflight[l] # None => s.drain # "none"
    <2>1. CASE ~r.exists /\ Becomes(l, [r EXCEPT !.flush = "true"])
               /\ UNCHANGED <<calls, inflight>>
      <3> DEFINE s == [r EXCEPT !.flush = "true"]
      <3>1. /\ s \in Sender /\ s.exists = r.exists /\ s.acked = r.acked
            /\ s.incomplete = r.incomplete /\ s.flush = "true"
            /\ s.drain = r.drain /\ s.mode = r.mode
        BY <1>1 DEF Sender
      <3>2. Becomes(l, s)
        BY <2>1
      <3> HIDE DEF s
      <3> QED
        BY <1>1, <1>2, <2>1, <3>1, <3>2
    <2>2. CASE Becomes(l, [r EXCEPT !.flush = "false"])
               /\ UNCHANGED <<calls, inflight>>
      <3> DEFINE s == [r EXCEPT !.flush = "false"]
      <3>1. /\ s \in Sender /\ s.exists = r.exists /\ s.acked = r.acked
            /\ s.incomplete = r.incomplete /\ s.flush = "false"
            /\ s.drain = r.drain /\ s.mode = r.mode
        BY <1>1 DEF Sender
      <3>2. Becomes(l, s)
        BY <2>2
      <3> HIDE DEF s
      <3> QED
        BY <1>1, <1>2, <2>2, <3>1, <3>2
    <2>3. CASE /\ Becomes(l, [Stopped(r, inflight[l] # None)
                                EXCEPT !.flush = "waiting"])
               /\ Abandon(l)
      <3> DEFINE t == Stopped(r, inflight[l] # None)
                 s == [t EXCEPT !.flush = "waiting"]
      <3>1. /\ t \in Sender /\ t.exists = r.exists /\ t.mode = r.mode
            /\ t.acked = r.acked /\ t.incomplete = r.incomplete
            /\ t.drain \in {r.drain, "none"}
        BY <1>1, StoppedIs
      <3>2. Becomes(l, s)
        BY <2>3
      <3> HIDE DEF t
      <3>3. /\ s \in Sender /\ s.exists = r.exists /\ s.acked = r.acked
            /\ s.incomplete = r.incomplete /\ s.flush = "waiting"
            /\ s.drain = t.drain /\ s.mode = r.mode
        BY <3>1 DEF Sender
      <3> HIDE DEF s
      <3> QED
        BY <1>1, <2>3, <3>1, <3>2, <3>3
    <2> QED
      BY <1>1, <2>1, <2>2, <2>3 DEF FlushBegins, Sender
  <1>9. /\ sender' \in [Links -> Sender] /\ sender'[l] = s
        /\ \A k \in Links \ {l} : sender'[k] = sender[k]
    BY <1>1, <1>8 DEF Becomes, TypeOK
  <1>10. /\ inflight' \in [Links -> Slots \cup {None}]
         /\ calls' \in [Links -> [Slots -> Call]]
         /\ \A k \in Links \ {l} : calls'[k] = calls[k] /\ inflight'[k] = inflight[k]
         /\ CallsOK(l)'
         /\ \/ inflight'[l] = None
            \/ calls' = calls /\ inflight' = inflight /\ s.drain # "none"
    <2>1. inflight \in [Links -> Slots \cup {None}]
          /\ calls \in [Links -> [Slots -> Call]] /\ CallsOK(l)
      BY <1>1 DEF TypeOK, LinkInv
    <2>2. CASE Abandon(l)
      <3>1. /\ inflight' = [inflight EXCEPT ![l] = None] /\ inflight'[l] = None
            /\ calls' \in [Links -> [Slots -> Call]]
            /\ \A k \in Links \ {l} : calls'[k] = calls[k]
            /\ CallsOK(l)'
        BY <1>1, <1>2, <2>1, <2>2, AbandonIs
      <3> QED
        BY <2>1, <3>1
    <2>3. CASE /\ calls' = calls /\ inflight' = inflight
               /\ inflight[l] # None => s.drain # "none"
      BY <1>2, <2>1, <2>3 DEF CallsOK
    <2> QED
      BY <1>8, <2>2, <2>3
  <1>11. TypeOK'
    BY <1>1, <1>2, <1>7, <1>9, <1>10 DEF TypeOK
  <1>12. WaitsOK(l)'
    <2>1. inflight'[l] # None =>
            /\ s.drain # "none" /\ calls'[l][inflight'[l]].pc # "free"
            /\ calls'[l][inflight'[l]].first = s.acked + 1
      BY <1>1, <1>8, <1>10 DEF LinkInv, WaitsOK, WaitOK
    <2> QED
      BY <1>8, <1>9, <2>1 DEF WaitsOK, WaitOK
  <1>13. AckOK(l)' /\ HeldOK(l)'
    BY <1>1, <1>2, <1>7, <1>8, <1>9 DEF LinkInv, AckOK, HeldOK
  <1>14. TellsNext(l)'
    <2>1. l + 1 # l
      BY <1>1, LinkTypes
    <2> QED
      BY <1>1, <1>2, <1>7, <1>8, <1>9, <2>1 DEF LinkInv, TellsNext
  <1>15. OwedOK(l)'
    BY <1>2, <1>5, <1>6, <1>7, <1>8, <1>9 DEF OwedOK
  <1>16. OthersStay(l)
    BY <1>2, <1>7, <1>9, <1>10 DEF OthersStay
  <1> QED
    BY <1>2, <1>7, <1>8, <1>9, <1>10, <1>11, <1>12, <1>13, <1>14, <1>15, <1>16,
       LinkStep DEF LinkInv

\* A new sender takes the position and the gap from its file.
LEMMA NewSenderStep ==
  ASSUME IndInv, NEW l \in Links, NewSender(l)
  PROVE  IndInv'
  <1>1. /\ TypeOK /\ LinkInv(l) /\ sender[l] \in Sender
        /\ inflight[l] = None
    <2>1. sender[l].drain = "none"
      BY LinkFacts DEF NewSender, Sender
    <2> QED
      BY <2>1, LinkFacts
  <1>2. PICK st \in {upstream[l], [acked |-> 0, gapped |-> FALSE]} :
          /\ sender' = [sender EXCEPT ![l] =
               [exists |-> TRUE, mode |-> "running", drain |-> "none",
                flush |-> "no", acked |-> st.acked, incomplete |-> st.gapped,
                disabled |-> FALSE]]
          /\ upstream' = [upstream EXCEPT ![l] = st]
    BY DEF NewSender
  <1>3. /\ st \in AckState
        /\ st.acked = 0 \/ st = upstream[l]
    <2>1. upstream[l] \in AckState
      BY <1>1, LinkTypes
    <2>2. [acked |-> 0, gapped |-> FALSE] \in AckState
      BY DEF AckState
    <2>3. CASE st = upstream[l]
      BY <2>1, <2>3
    <2>4. CASE st = [acked |-> 0, gapped |-> FALSE]
      BY <2>2, <2>4
    <2> QED
      BY <2>3, <2>4
  <1> DEFINE s == [exists |-> TRUE, mode |-> "running", drain |-> "none",
                   flush |-> "no", acked |-> st.acked, incomplete |-> st.gapped,
                   disabled |-> FALSE]
  <1>4. /\ s \in Sender /\ s.exists /\ s.drain = "none" /\ s.flush = "no"
        /\ s.acked = st.acked /\ s.incomplete = st.gapped
    BY <1>3 DEF Sender, AckState
  <1>5. sender' = [sender EXCEPT ![l] = s]
    BY <1>2
  <1> HIDE DEF s
  <1>6. /\ sender' \in [Links -> Sender] /\ sender'[l] = s
        /\ \A k \in Links \ {l} : sender'[k] = sender[k]
    BY <1>1, <1>4, <1>5 DEF TypeOK
  <1>7. /\ upstream' \in [Links -> AckState] /\ upstream'[l] = st
        /\ \A k \in Links \ {l} : upstream'[k] = upstream[k]
    BY <1>1, <1>2, <1>3 DEF TypeOK
  <1>8. /\ lines' = lines /\ tails' = tails /\ torn' = torn
        /\ terminal' = terminal /\ recorder' = recorder
        /\ inbound' = inbound /\ known' = known /\ old' = old
        /\ calls' = calls /\ inflight' = inflight /\ history' = history /\ Fault
    BY DEF NewSender, storeVars
  <1>9. TypeOK'
    <2>1. faults' \in 0 .. MaxFaults
      BY <1>1, <1>8, FaultType
    <2> QED
      BY <1>1, <1>6, <1>7, <1>8, <2>1 DEF TypeOK
  <1>10. CallsOK(l)' /\ WaitsOK(l)' /\ HeldOK(l)' /\ OwedOK(l)'
    BY <1>1, <1>4, <1>6, <1>8
       DEF LinkInv, CallsOK, WaitsOK, WaitOK, HeldOK, OwedOK
  <1>11. AckOK(l)'
    <2>1. Len(lines[l]) \in Nat
      BY <1>1, LinkTypes
    <2> QED
      BY <1>1, <1>3, <1>4, <1>6, <1>7, <1>8, <2>1 DEF LinkInv, AckOK
  <1>12. TellsNext(l)'
    <2>1. l + 1 # l
      BY <1>1, LinkTypes
    <2> QED
      BY <1>1, <1>3, <1>4, <1>6, <1>7, <1>8, <2>1 DEF LinkInv, TellsNext
  <1>13. OthersStay(l)
    BY <1>6, <1>7, <1>8 DEF OthersStay
  <1> QED
    BY <1>4, <1>6, <1>8, <1>9, <1>10, <1>11, <1>12, <1>13, LinkStep DEF LinkInv

-----------------------------------------------------------------------------
(* Answers of a sink                                                       *)

Results == {"accepted", "gap", "rejected", "unimplemented", "error"}

\* The position an answer stands for is within what the sink accepted.
LEMMA AnsweredIs ==
  ASSUME NEW call \in Call, NEW reply \in [result : Results, accepted : Nat]
  PROVE  /\ Answered(call, reply) \in Nat
         /\ reply.result = "accepted" => Answered(call, reply) <= reply.accepted
  BY DEF Answered, Call

\* What an answer does to the sender.
LEMMA SenderAfterIs ==
  ASSUME NEW s \in Sender, NEW call \in Call,
         NEW reply \in [result : Results, accepted : Nat], NEW failed
  PROVE  LET t == SenderAfter(s, call, reply, failed)
             n == Answered(call, reply)
         IN /\ t \in Sender /\ t.exists = s.exists /\ t.mode = s.mode
            /\ \/ t.acked = s.acked
               \/ /\ reply.result \in {"accepted", "gap"}
                  /\ t.acked = n /\ n > s.acked
            /\ s.incomplete => t.incomplete
            /\ reply.result = "gap" => t.incomplete
            /\ t.drain \in {s.drain, "none"}
            /\ t.flush = s.flush \/ (t.flush = "false" /\ t.drain = "none")
  <1> DEFINE n == Answered(call, reply)
             moved == n > s.acked
             t == SenderAfter(s, call, reply, failed)
             u == [s EXCEPT !.acked = IF moved THEN n ELSE @,
                            !.incomplete = @ \/ reply.result = "gap"]
             v == [s EXCEPT !.incomplete = TRUE, !.disabled = TRUE]
             w == [s EXCEPT !.disabled = TRUE]
  <1>1. n \in Nat /\ s.acked \in Nat /\ s.incomplete \in BOOLEAN
    BY AnsweredIs DEF Sender
  <1> HIDE DEF n
  <1>2. /\ u \in Sender /\ u.exists = s.exists /\ u.mode = s.mode
        /\ u.acked = (IF moved THEN n ELSE s.acked)
        /\ u.incomplete = (s.incomplete \/ reply.result = "gap")
        /\ u.drain = s.drain /\ u.flush = s.flush
    BY <1>1 DEF Sender
  <1>3. /\ v \in Sender /\ v.exists = s.exists /\ v.mode = s.mode
        /\ v.acked = s.acked /\ v.incomplete
        /\ v.drain = s.drain /\ v.flush = s.flush
    BY DEF Sender
  <1>4. /\ w \in Sender /\ w.exists = s.exists /\ w.mode = s.mode
        /\ w.acked = s.acked /\ w.incomplete = s.incomplete
        /\ w.drain = s.drain /\ w.flush = s.flush
    BY DEF Sender
  <1>5. CASE reply.result \in {"accepted", "gap"}
    <2>1. t = Stopped(u, ~moved \/ "advance" \in failed)
      BY <1>5 DEF SenderAfter, n
    <2> HIDE DEF u, t
    <2>2. /\ t \in Sender /\ t.exists = u.exists /\ t.mode = u.mode
          /\ t.acked = u.acked /\ t.incomplete = u.incomplete
          /\ t.drain \in {u.drain, "none"}
          /\ t.flush = u.flush \/ (t.flush = "false" /\ t.drain = "none")
      BY <1>2, <2>1, StoppedIs
    <2> QED
      BY <1>2, <1>5, <2>2 DEF n, t
  <1>6. CASE reply.result = "rejected"
    <2>1. t = Stopped(v, FALSE)
      BY <1>6 DEF SenderAfter
    <2> HIDE DEF v, t
    <2>2. /\ t \in Sender /\ t.exists = v.exists /\ t.mode = v.mode
          /\ t.acked = v.acked /\ t.incomplete = v.incomplete
          /\ t.drain \in {v.drain, "none"}
          /\ t.flush = v.flush \/ (t.flush = "false" /\ t.drain = "none")
      BY <1>3, <2>1, StoppedIs
    <2> QED
      BY <1>3, <1>6, <2>2 DEF n, t
  <1>7. CASE reply.result = "unimplemented"
    <2>1. t = Stopped(w, FALSE)
      BY <1>7 DEF SenderAfter
    <2> HIDE DEF w, t
    <2>2. /\ t \in Sender /\ t.exists = w.exists /\ t.mode = w.mode
          /\ t.acked = w.acked /\ t.incomplete = w.incomplete
          /\ t.drain \in {w.drain, "none"}
          /\ t.flush = w.flush \/ (t.flush = "false" /\ t.drain = "none")
      BY <1>4, <2>1, StoppedIs
    <2> QED
      BY <1>4, <1>7, <2>2 DEF n, t
  <1>8. CASE reply.result = "error"
    <2>1. t = Stopped(s, TRUE)
      BY <1>8 DEF SenderAfter
    <2> HIDE DEF t
    <2>2. /\ t \in Sender /\ t.exists = s.exists /\ t.mode = s.mode
          /\ t.acked = s.acked /\ t.incomplete = s.incomplete
          /\ t.drain \in {s.drain, "none"}
          /\ t.flush = s.flush \/ (t.flush = "false" /\ t.drain = "none")
      BY <2>1, StoppedIs
    <2> QED
      BY <1>8, <2>2 DEF n, t
  <1> QED
    BY <1>5, <1>6, <1>7, <1>8 DEF Results

\* What the updates of an acknowledgement file do.
LEMMA AckIs ==
  ASSUME NEW st \in AckState, NEW n \in Nat
  PROVE  /\ AdvanceAck(st, n) \in AckState
         /\ AdvanceAck(st, n).acked \in {st.acked, n}
         /\ AdvanceAck(st, n).gapped = st.gapped
         /\ RecordGap(st, n) \in AckState
         /\ RecordGap(st, n).acked \in {st.acked, n}
         /\ RecordGap(st, n).gapped
  <1> DEFINE a == AdvanceAck(st, n)
  <1>1. a \in AckState /\ a.acked \in {st.acked, n} /\ a.gapped = st.gapped
    BY DEF AdvanceAck, AckState
  <1> HIDE DEF a
  <1>2. LET g == [a EXCEPT !.gapped = TRUE]
        IN g \in AckState /\ g.acked = a.acked /\ g.gapped
    BY <1>1 DEF AckState
  <1>3. RecordGap(st, n) = [a EXCEPT !.gapped = TRUE]
    BY DEF RecordGap, a
  <1> QED
    BY <1>1, <1>2, <1>3 DEF a

\* What an answer does to the sender's file.
LEMMA UpstreamAfterIs ==
  ASSUME NEW l \in Links, upstream[l] \in AckState, NEW call \in Call,
         NEW reply \in [result : Results, accepted : Nat], NEW failed
  PROVE  LET up == UpstreamAfter(l, call, reply, failed)
             n == Answered(call, reply)
         IN /\ up \in AckState
            /\ upstream[l].gapped => up.gapped
            /\ reply.result = "gap" => up.gapped \/ "gap" \in failed
            /\ \/ up.acked = upstream[l].acked
               \/ reply.result = "gap" /\ up.acked = n
               \/ /\ reply.result = "accepted"
                  /\ up.acked = n /\ n > sender[l].acked
  <1> DEFINE n == Answered(call, reply)
             st == upstream[l]
             g == IF reply.result = "gap" /\ "gap" \notin failed
                    THEN RecordGap(st, n) ELSE st
             up == UpstreamAfter(l, call, reply, failed)
  <1>1. n \in Nat
    BY AnsweredIs
  <1> HIDE DEF n
  <1>2. /\ g \in AckState /\ (st.gapped => g.gapped)
        /\ reply.result = "gap" => g.gapped \/ "gap" \in failed
        /\ g.acked = st.acked \/ (reply.result = "gap" /\ g.acked = n)
    BY <1>1, AckIs
  <1> HIDE DEF g
  <1>3. \/ up = g
        \/ /\ up = AdvanceAck(g, n) /\ reply.result \in {"accepted", "gap"}
           /\ n > sender[l].acked
    BY DEF UpstreamAfter, n, g
  <1> HIDE DEF up
  <1>4. CASE up = g
    BY <1>2, <1>4 DEF n, up
  <1>5. CASE /\ up = AdvanceAck(g, n) /\ reply.result \in {"accepted", "gap"}
             /\ n > sender[l].acked
    <2>1. up \in AckState /\ up.acked \in {g.acked, n} /\ up.gapped = g.gapped
      BY <1>1, <1>2, <1>5, AckIs
    <2> QED
      BY <1>2, <1>5, <2>1 DEF n, up
  <1> QED
    BY <1>3, <1>4, <1>5

\* A call ends with a reply.  What the sink took is in its store, and if the
\* reply moves the sender, the sink has told its own sender.
LEMMA ReplyStep ==
  ASSUME IndInv, NEW l \in Links, NEW c \in Slots,
         NEW reply \in [result : Results, accepted : Nat],
         NEW persisted \in BOOLEAN, NEW failed,
         Reply(l, c, reply, persisted, failed),
         UNCHANGED <<storeVars, recorder, known, old>>, Fault \/ NoFault,
         NEW inb \in AckState, inbound' = [inbound EXCEPT ![l] = inb],
         inb.acked > Len(lines[l]) => inb.gapped,
         reply.result = "accepted" => reply.accepted <= Len(lines[l]),
         (/\ reply.result = "accepted" /\ reply.accepted > 0
          /\ reply.accepted >= calls[l][c].first)
           => persisted
  PROVE  IndInv'
  <1> DEFINE call == calls[l][c]
             waits == inflight[l] = c
             r == sender[l]
             n == Answered(call, reply)
             s == IF waits THEN SenderAfter(r, call, reply, failed) ELSE r
             up == IF waits THEN UpstreamAfter(l, call, reply, failed)
                            ELSE upstream[l]
             lost == waits /\ reply.result = "gap" /\ "gap" \in failed
  <1>1. /\ TypeOK /\ LinkInv(l) /\ r \in Sender
        /\ r.drain = "worker" => r.mode = "running"
        /\ r.drain = "flush" => r.flush = "waiting"
    BY LinkFacts
  <1>2. /\ upstream[l] \in AckState /\ call \in Call /\ call.first \in Nat
        /\ r.acked \in Nat /\ Len(lines[l]) \in Nat /\ history \in History
        /\ l \in Nat /\ l + 1 # l
        /\ history.unrecorded[l] \in BOOLEAN
    BY <1>1, LinkTypes DEF Sender, TypeOK, Call
  <1>3. n \in Nat /\ (reply.result = "accepted" => n <= reply.accepted)
    BY <1>2, AnsweredIs
  <1>4. /\ s \in Sender /\ s.exists = r.exists /\ s.mode = r.mode
        /\ \/ s.acked = r.acked
           \/ /\ waits /\ reply.result \in {"accepted", "gap"}
              /\ s.acked = n /\ n > r.acked
        /\ r.incomplete => s.incomplete
        /\ waits /\ reply.result = "gap" => s.incomplete
        /\ s.drain \in {r.drain, "none"}
        /\ s.flush = r.flush \/ (s.flush = "false" /\ s.drain = "none")
    <2>1. CASE waits
      <3>1. s = SenderAfter(r, call, reply, failed)
        BY <2>1
      <3> QED
        BY <1>1, <1>2, <2>1, <3>1, SenderAfterIs
    <2>2. CASE ~waits
      BY <1>1, <2>2
    <2> QED
      BY <2>1, <2>2
  <1>5. /\ up \in AckState
        /\ upstream[l].gapped => up.gapped
        /\ waits /\ reply.result = "gap" => up.gapped \/ lost
        /\ \/ up.acked = upstream[l].acked
           \/ waits /\ reply.result = "gap" /\ up.acked = n
           \/ /\ waits /\ reply.result = "accepted"
              /\ up.acked = n /\ n > r.acked
    <2>1. CASE waits
      <3>1. up = UpstreamAfter(l, call, reply, failed)
        BY <2>1
      <3> QED
        BY <1>1, <1>2, <2>1, <3>1, UpstreamAfterIs
    <2>2. CASE ~waits
      BY <1>2, <2>2
    <2> QED
      BY <2>1, <2>2
  <1>6. /\ lines' = lines /\ tails' = tails /\ torn' = torn
        /\ terminal' = terminal /\ recorder' = recorder
        /\ known' = known /\ old' = old
    BY DEF storeVars
  <1>7. sender' = [k \in Links |->
                     IF k = l THEN s
                     ELSE IF k = l + 1 /\ persisted THEN Notify(sender[k])
                     ELSE sender[k]]
    BY DEF Reply
  <1>8. /\ calls' = [calls EXCEPT ![l][c] = Free]
        /\ inflight' = IF waits THEN [inflight EXCEPT ![l] = None] ELSE inflight
        /\ upstream' = IF waits THEN [upstream EXCEPT ![l] = up] ELSE upstream
        /\ history' = IF lost THEN [history EXCEPT !.unrecorded[l] = TRUE]
                              ELSE history
    BY DEF Reply
  <1> HIDE DEF s, up, n
  <1>9. /\ sender' \in [Links -> Sender] /\ sender'[l] = s
        /\ \A k \in Links \ {l} : sender'[k] \in {sender[k], Notify(sender[k])}
        /\ l + 1 \in Links /\ persisted => sender'[l + 1].exists
        /\ l + 1 \in Links /\ sender[l + 1].exists => sender'[l + 1].exists
    <2>1. \A k \in Links : sender[k] \in Sender /\ Notify(sender[k]) \in Sender
                             /\ Notify(sender[k]).exists
      BY <1>1, LinkTypes, NotifyIs
    <2> QED
      BY <1>2, <1>4, <1>7, <2>1
  <1>10. /\ upstream' \in [Links -> AckState] /\ upstream'[l] = up
         /\ \A k \in Links \ {l} : upstream'[k] = upstream[k]
    <2>1. CASE waits
      BY <1>1, <1>5, <1>8, <2>1 DEF TypeOK
    <2>2. CASE ~waits
      BY <1>1, <1>8, <2>2 DEF TypeOK, up
    <2> QED
      BY <2>1, <2>2
  <1>11. /\ calls' \in [Links -> [Slots -> Call]] /\ calls'[l][c] = Free
         /\ \A d \in Slots \ {c} : calls'[l][d] = calls[l][d]
         /\ \A k \in Links \ {l} : calls'[k] = calls[k]
    BY <1>1, <1>8, FreeIs DEF TypeOK
  <1>12. /\ inflight' \in [Links -> Slots \cup {None}]
         /\ waits => inflight'[l] = None
         /\ ~waits => inflight' = inflight
         /\ \A k \in Links \ {l} : inflight'[k] = inflight[k]
    BY <1>1, <1>8 DEF TypeOK
  <1>13. /\ inbound' \in [Links -> AckState] /\ inbound'[l] = inb
         /\ \A k \in Links \ {l} : inbound'[k] = inbound[k]
    BY <1>1 DEF TypeOK
  <1>14. /\ history' \in History /\ history'.held = history.held
         /\ history'.owed = history.owed
         /\ \A k \in Links \ {l} : history'.unrecorded[k] = history.unrecorded[k]
         /\ history.unrecorded[l] => history'.unrecorded[l]
         /\ lost => history'.unrecorded[l]
    <2>1. CASE lost
      <3>1. history' = [history EXCEPT !.unrecorded[l] = TRUE]
        BY <1>8, <2>1
      <3> HIDE DEF lost
      <3> QED
        BY <1>2, <3>1 DEF History
    <2>2. CASE ~lost
      BY <1>2, <1>8, <2>2
    <2> QED
      BY <2>1, <2>2
  <1>15. TypeOK'
    <2>1. faults' \in 0 .. MaxFaults
      BY <1>1, FaultType
    <2> QED
      BY <1>1, <1>6, <1>9, <1>10, <1>11, <1>12, <1>13, <1>14, <2>1 DEF TypeOK
  <1>16. CallsOK(l)'
    <2>1. CallOK(Free, Len(lines[l]), Len(lines[l - 1]))
      BY <1>2, FreeIs DEF CallOK
    <2> QED
      BY <1>1, <1>6, <1>11, <2>1 DEF LinkInv, CallsOK
  <1>17. WaitsOK(l)'
    <2>1. inflight'[l] # None =>
            /\ s.drain # "none" /\ calls'[l][inflight'[l]].pc # "free"
            /\ calls'[l][inflight'[l]].first = s.acked + 1
      <3> SUFFICES ASSUME inflight'[l] # None
                   PROVE  /\ s.drain # "none"
                          /\ calls'[l][inflight'[l]].pc # "free"
                          /\ calls'[l][inflight'[l]].first = s.acked + 1
        OBVIOUS
      <3>1. ~waits /\ inflight'[l] = inflight[l] /\ s = r
        BY <1>12 DEF s
      <3>2. inflight[l] \in Slots \ {c}
        BY <1>1, <3>1, LinkTypes
      <3>3. calls'[l][inflight[l]] = calls[l][inflight[l]]
        BY <1>11, <3>2
      <3> QED
        BY <1>1, <3>1, <3>3 DEF LinkInv, WaitsOK, WaitOK
    <2>2. /\ s.drain = "worker" => s.mode = "running"
          /\ s.drain = "flush" => s.flush = "waiting"
      BY <1>1, <1>4
    <2> QED
      BY <1>9, <2>1, <2>2 DEF WaitsOK, WaitOK
  <1>18. waits /\ n > r.acked /\ reply.result = "accepted"
           => n <= Len(lines[l]) /\ persisted
    <2> SUFFICES ASSUME waits, n > r.acked, reply.result = "accepted"
                 PROVE  n <= Len(lines[l]) /\ persisted
      OBVIOUS
    <2>1. call.first = r.acked + 1
      <3>1. inflight[l] # None
        BY NoneAssumption
      <3> QED
        BY <1>1, <3>1 DEF LinkInv, WaitsOK, WaitOK
    <2>2. reply.accepted \in Nat
      OBVIOUS
    <2>3. reply.accepted > 0 /\ reply.accepted >= call.first
      BY <1>2, <1>3, <2>1, <2>2
    <2>4. reply.accepted <= Len(lines[l])
      OBVIOUS
    <2> QED
      BY <1>2, <1>3, <2>2, <2>3, <2>4
  <1>19. AckOK(l)'
    <2>1. s.acked > Len(lines[l]) => s.incomplete \/ history'.unrecorded[l]
      BY <1>1, <1>2, <1>3, <1>4, <1>14, <1>18 DEF LinkInv, AckOK
    <2>2. up.acked > Len(lines[l]) => up.gapped \/ history'.unrecorded[l]
      BY <1>1, <1>2, <1>3, <1>5, <1>14, <1>18 DEF LinkInv, AckOK
    <2> QED
      BY <1>6, <1>9, <1>10, <1>13, <2>1, <2>2 DEF AckOK
  <1>20. TellsNext(l)'
    <2> SUFFICES ASSUME l + 1 \in Links, ~sender'[l + 1].exists,
                        ~history'.unrecorded[l]
                 PROVE  /\ sender'[l].acked > 0 => sender'[l].incomplete
                        /\ upstream'[l].acked > 0 => upstream'[l].gapped
                        /\ history'.held[l] = 0
      BY DEF TellsNext
    <2>1. ~persisted /\ ~sender[l + 1].exists /\ ~history.unrecorded[l] /\ ~lost
      BY <1>9, <1>14
    <2>2. /\ r.acked > 0 => r.incomplete
          /\ upstream[l].acked > 0 => upstream[l].gapped
          /\ history.held[l] = 0
      BY <1>1, <2>1 DEF LinkInv, TellsNext
    <2>3. s.acked > 0 => s.incomplete
      BY <1>4, <1>18, <2>1, <2>2
    <2>4. up.acked > 0 => up.gapped
      BY <1>5, <1>18, <2>1, <2>2
    <2> QED
      BY <1>9, <1>10, <1>14, <2>2, <2>3, <2>4
  <1>21. HeldOK(l)'
    BY <1>1, <1>6, <1>14 DEF LinkInv, HeldOK
  <1>22. OwedOK(l)'
    <2>1. OwedOK(l)
      BY <1>1 DEF LinkInv
    <2>2. sender'[l].flush = "true" => sender[l].flush = "true"
      BY <1>4, <1>9
    <2>3. l > 1 => l - 1 \in Links /\ l - 1 # l
      BY HopsAssumption DEF Links
    <2> QED
      BY <1>6, <1>14, <2>1, <2>2, <2>3 DEF OwedOK
  <1>23. OthersStay(l)
    BY <1>9, <1>10, <1>11, <1>12, <1>13, <1>14 DEF OthersStay
  <1>24. LinkInv(l)'
    BY <1>16, <1>17, <1>19, <1>20, <1>21, <1>22 DEF LinkInv
  <1> QED
    BY <1>4, <1>6, <1>9, <1>14, <1>15, <1>23, <1>24, LinkStep

\* A sink that answers without touching its own acknowledgement file.
LEMMA RefusalStep ==
  ASSUME IndInv, NEW l \in Links, NEW c \in Slots,
         NEW reply \in [result : Results, accepted : Nat],
         reply.result # "accepted", NEW failed,
         Reply(l, c, reply, FALSE, failed),
         UNCHANGED <<storeVars, recorder, inbound, known, old>>, Fault \/ NoFault
  PROVE  IndInv'
  <1> DEFINE inb == inbound[l]
  <1>1. TypeOK /\ LinkInv(l)
    BY DEF IndInv
  <1>2. inb \in AckState /\ inbound' = [inbound EXCEPT ![l] = inb]
    BY <1>1, LinkTypes DEF TypeOK
  <1>3. inb.acked > Len(lines[l]) => inb.gapped
    BY <1>1 DEF LinkInv, AckOK
  <1>4. UNCHANGED <<storeVars, recorder, known, old>>
    OBVIOUS
  <1> HIDE DEF inb
  <1> QED
    BY <1>2, <1>3, <1>4, ReplyStep

\* A call goes on at its sink, with nothing more accepted than is stored.
LEMMA CallMovesStep ==
  ASSUME IndInv, NEW l \in Links, NEW c \in Slots, NEW call \in Call,
         calls' = [calls EXCEPT ![l][c] = call],
         calls[l][c].pc # "free", call.pc # "free",
         call.first = calls[l][c].first, call.last = calls[l][c].last,
         call.accepted = calls[l][c].accepted, call.err # "gap" \/ call.pc # "outcome",
         UNCHANGED <<storeVars, recorder, sender, upstream, inbound, known, old,
                     inflight, history>>,
         Fault \/ NoFault
  PROVE  IndInv'
  <1>1. TypeOK /\ LinkInv(l)
    BY DEF IndInv
  <1>2. /\ lines' = lines /\ tails' = tails /\ torn' = torn
        /\ terminal' = terminal /\ recorder' = recorder /\ sender' = sender
        /\ upstream' = upstream /\ inbound' = inbound /\ known' = known
        /\ old' = old /\ history' = history /\ inflight' = inflight
    BY DEF storeVars
  <1>3. /\ calls' \in [Links -> [Slots -> Call]] /\ calls'[l][c] = call
        /\ \A d \in Slots \ {c} : calls'[l][d] = calls[l][d]
        /\ \A k \in Links \ {l} : calls'[k] = calls[k]
    BY <1>1 DEF TypeOK
  <1>4. TypeOK'
    <2>1. faults' \in 0 .. MaxFaults
      BY <1>1, FaultType
    <2> QED
      BY <1>1, <1>2, <1>3, <2>1 DEF TypeOK
  <1>5. CallsOK(l)'
    <2>1. CallOK(call, Len(lines[l]), Len(lines[l - 1]))
      BY <1>1 DEF LinkInv, CallsOK, CallOK
    <2> QED
      BY <1>1, <1>2, <1>3, <2>1 DEF LinkInv, CallsOK
  <1>6. WaitsOK(l)'
    <2>1. inflight[l] \in Slots \cup {None}
      BY <1>1, LinkTypes
    <2> QED
      BY <1>1, <1>2, <1>3, <2>1 DEF LinkInv, WaitsOK, WaitOK
  <1>7. AckOK(l)' /\ TellsNext(l)' /\ HeldOK(l)' /\ OwedOK(l)'
    BY <1>1, <1>2 DEF LinkInv, AckOK, TellsNext, HeldOK, OwedOK
  <1>8. OthersStay(l)
    BY <1>2, <1>3 DEF OthersStay
  <1>9. LinkInv(l)'
    BY <1>5, <1>6, <1>7 DEF LinkInv
  <1> QED
    BY <1>2, <1>4, <1>8, <1>9, LinkStep

\* Failing writes cost one fault.
LEMMA SomeFailIs ==
  ASSUME NEW failed, SomeFail(failed)
  PROVE  Fault \/ NoFault
  BY DEF SomeFail

\* A request arrives at a sink.
LEMMA SinkReceiveStep ==
  ASSUME IndInv, NEW l \in Links, NEW c \in Slots, SinkReceive(l, c)
  PROVE  IndInv'
  <1> DEFINE call == calls[l][c]
  <1>1. /\ calls \in [Links -> [Slots -> Call]] /\ call \in Call
        /\ call.last \in Nat /\ call.pc = "sent"
    BY DEF IndInv, TypeOK, Call, SinkReceive
  <1>2. UNCHANGED <<storeVars, recorder, inbound, known, old>>
    BY DEF SinkReceive
  <1>3. CASE /\ calls' = [calls EXCEPT ![l][c].pc = "append"]
             /\ NoFault /\ UNCHANGED <<sender, upstream, inflight, history>>
    <2> DEFINE d == [call EXCEPT !.pc = "append"]
    <2>1. /\ d \in Call /\ d.pc = "append" /\ d.first = call.first
          /\ d.last = call.last /\ d.accepted = call.accepted
      BY <1>1 DEF Call
    <2>2. calls' = [calls EXCEPT ![l][c] = d]
      BY <1>1, <1>3
    <2>3. UNCHANGED <<storeVars, recorder, sender, upstream, inbound, known, old,
                      inflight, history>>
      BY <1>2, <1>3
    <2> HIDE DEF d
    <2> QED
      BY <1>1, <1>3, <2>1, <2>2, <2>3, CallMovesStep
  <1>4. CASE \E failed \in SUBSET {"gap", "advance"} :
               /\ SomeFail(failed)
               /\ Reply(l, c, [result |-> "gap", accepted |-> call.last],
                        FALSE, failed)
    <2>1. PICK failed \in SUBSET {"gap", "advance"} :
               /\ SomeFail(failed)
               /\ Reply(l, c, [result |-> "gap", accepted |-> call.last],
                        FALSE, failed)
      BY <1>4
    <2> DEFINE reply == [result |-> "gap", accepted |-> call.last]
    <2>2. /\ reply \in [result : Results, accepted : Nat]
          /\ reply.result # "accepted"
      BY <1>1 DEF Results
    <2>3. Reply(l, c, reply, FALSE, failed)
      BY <2>1
    <2>4. Fault \/ NoFault
      BY <2>1, SomeFailIs
    <2> HIDE DEF reply
    <2> QED
      BY <1>2, <2>2, <2>3, <2>4, RefusalStep
  <1>5. CASE /\ NoFault
             /\ Reply(l, c, [result |-> "unimplemented", accepted |-> 0], FALSE, {})
    <2> DEFINE reply == [result |-> "unimplemented", accepted |-> 0]
    <2>1. /\ reply \in [result : Results, accepted : Nat]
          /\ reply.result # "accepted"
      BY DEF Results
    <2>2. Reply(l, c, reply, FALSE, {})
      BY <1>5
    <2> HIDE DEF reply
    <2> QED
      BY <1>2, <1>5, <2>1, <2>2, RefusalStep
  <1> QED
    BY <1>3, <1>4, <1>5 DEF SinkReceive

\* A sink cannot register the producer.
LEMMA SinkRefusesStep ==
  ASSUME IndInv, NEW l \in Links, NEW c \in Slots, SinkRefuses(l, c)
  PROVE  IndInv'
  <1>1. PICK result \in {"rejected", "error"} :
          Reply(l, c, [result |-> result, accepted |-> 0], FALSE, {})
    BY DEF SinkRefuses
  <1> DEFINE reply == [result |-> result, accepted |-> 0]
  <1>2. /\ reply \in [result : Results, accepted : Nat]
        /\ reply.result # "accepted"
    BY <1>1 DEF Results
  <1>3. Reply(l, c, reply, FALSE, {})
    BY <1>1
  <1>4. Fault /\ UNCHANGED <<storeVars, recorder, inbound, known, old>>
    BY DEF SinkRefuses
  <1> HIDE DEF reply
  <1> QED
    BY <1>2, <1>3, <1>4, RefusalStep

\* A sink has too many producers.
LEMMA SinkProducerCapStep ==
  ASSUME IndInv, NEW l \in Links, NEW c \in Slots, SinkProducerCap(l, c)
  PROVE  IndInv'
  <1> DEFINE call == calls[l][c]
             d == [call EXCEPT !.pc = "outcome", !.err = "capacity"]
  <1>1. /\ calls \in [Links -> [Slots -> Call]] /\ call \in Call
        /\ call.pc = "append"
    BY DEF IndInv, TypeOK, SinkProducerCap
  <1>2. /\ d \in Call /\ d.pc = "outcome" /\ d.first = call.first
        /\ d.last = call.last /\ d.accepted = call.accepted
        /\ d.err = "capacity"
    BY <1>1 DEF Call
  <1>3. calls' = [calls EXCEPT ![l][c] = d]
    BY <1>1 DEF SinkProducerCap
  <1>4. /\ UNCHANGED <<storeVars, recorder, sender, upstream, inbound, known, old,
                       inflight, history>>
        /\ Fault
    BY DEF SinkProducerCap
  <1> HIDE DEF d
  <1> QED
    BY <1>1, <1>2, <1>3, <1>4, CallMovesStep

\* A sink answers what came of the append.
LEMMA SinkOutcomeStep ==
  ASSUME IndInv, NEW l \in Links, NEW c \in Slots, SinkOutcome(l, c)
  PROVE  IndInv'
  <1> DEFINE call == calls[l][c]
             reply == Answer(call)
             persisted == Persisted(call)
             st == IF persisted THEN AdvanceAck(inbound[l], call.accepted)
                                ELSE inbound[l]
  <1>1. TypeOK /\ LinkInv(l)
    BY DEF IndInv
  <1>2. /\ call \in Call /\ call.pc = "outcome" /\ Len(lines[l]) \in Nat
        /\ call.accepted \in Nat /\ call.last \in Nat /\ call.first \in Nat
        /\ inbound[l] \in AckState
        /\ call.err \in {"nil", "gap", "capacity", "io"}
    BY <1>1, LinkTypes DEF Call, SinkOutcome
  <1>3. /\ call.accepted <= Len(lines[l])
        /\ call.err = "gap" => call.accepted + 1 < call.first
        /\ inbound[l].acked > Len(lines[l]) => inbound[l].gapped
    BY <1>1, <1>2 DEF LinkInv, CallsOK, CallOK, AckOK
  <1>4. PICK failed \in SUBSET {"inbound", "gap", "advance"} :
          /\ SomeFail(failed)
          /\ inbound' = [inbound EXCEPT ![l] =
               IF "inbound" \in failed THEN @
               ELSE IF call.err = "capacity" THEN RecordGap(st, call.last) ELSE st]
          /\ Reply(l, c, reply, persisted, failed)
    BY DEF SinkOutcome
  <1> DEFINE inb == IF "inbound" \in failed THEN inbound[l]
                    ELSE IF call.err = "capacity" THEN RecordGap(st, call.last)
                    ELSE st
  <1>5. inbound' = [inbound EXCEPT ![l] = inb]
    BY <1>4
  <1>6. st \in AckState /\ (st.acked > Len(lines[l]) => st.gapped)
    <2>1. CASE persisted
      <3> DEFINE a == AdvanceAck(inbound[l], call.accepted)
      <3>1. /\ a \in AckState /\ a.acked \in {inbound[l].acked, call.accepted}
            /\ a.gapped = inbound[l].gapped
        BY <1>2, AckIs
      <3>2. st = a
        BY <2>1
      <3> HIDE DEF a, st
      <3> QED
        BY <1>2, <1>3, <3>1, <3>2
    <2>2. CASE ~persisted
      BY <1>2, <1>3, <2>2
    <2> QED
      BY <2>1, <2>2
  <1> HIDE DEF st
  <1>7. inb \in AckState /\ (inb.acked > Len(lines[l]) => inb.gapped)
    <2>1. RecordGap(st, call.last) \in AckState /\ RecordGap(st, call.last).gapped
      BY <1>2, <1>6, AckIs
    <2> QED
      BY <1>2, <1>3, <1>6, <2>1
  <1>8. persisted \in BOOLEAN
    BY <1>2 DEF Persisted
  <1>9. /\ reply \in [result : Results, accepted : Nat]
        /\ reply.result = "accepted" =>
             call.err \in {"nil", "gap"} /\ reply.accepted = call.accepted
    BY <1>2 DEF Answer, Results
  <1>10. persisted <=> call.err # "gap" /\ call.accepted > 0
    BY DEF Persisted
  <1>11. Reply(l, c, reply, persisted, failed) /\ (Fault \/ NoFault)
    BY <1>4, SomeFailIs
  <1> HIDE DEF reply, persisted, inb
  <1>12. /\ reply.result = "accepted" => reply.accepted <= Len(lines[l])
         /\ (/\ reply.result = "accepted" /\ reply.accepted > 0
             /\ reply.accepted >= calls[l][c].first)
              => persisted
    BY <1>2, <1>3, <1>9, <1>10
  <1>13. UNCHANGED <<storeVars, recorder, known, old>>
    BY DEF SinkOutcome
  <1> HIDE DEF call
  <1>14. CASE persisted
    <2>1. Reply(l, c, reply, TRUE, failed)
      BY <1>8, <1>11, <1>14
    <2>2. TRUE \in BOOLEAN
      OBVIOUS
    <2> QED
      BY <1>5, <1>7, <1>9, <1>11, <1>12, <1>13, <2>1, <2>2, ReplyStep
  <1>15. CASE ~persisted
    <2>1. Reply(l, c, reply, FALSE, failed)
      BY <1>8, <1>11, <1>15
    <2>2. /\ reply.result = "accepted" => reply.accepted <= Len(lines[l])
          /\ (/\ reply.result = "accepted" /\ reply.accepted > 0
              /\ reply.accepted >= calls[l][c].first)
               => FALSE
      BY <1>12, <1>15
    <2> QED
      BY <1>5, <1>7, <1>9, <1>11, <1>13, <2>1, <2>2, ReplyStep
  <1> QED
    BY <1>8, <1>14, <1>15

-----------------------------------------------------------------------------
(* Steps of the stores                                                     *)

\* Stores grow, and senders stay where they are.
LEMMA GrowStep ==
  ASSUME IndInv, TypeOK', RecorderInv', StoreInv', TerminalHasAll',
         \A h \in Hosts : Len(lines'[h]) >= Len(lines[h]),
         \A k \in Links : CallsOK(k)',
         \A k \in Links, c \in Slots :
           /\ calls'[k][c].first = calls[k][c].first
           /\ calls[k][c].pc # "free" => calls'[k][c].pc # "free",
         UNCHANGED <<sender, upstream, inbound, inflight, history>>
  PROVE  IndInv'
  <1>1. ASSUME NEW k \in Links PROVE LinkInv(k)'
    <2>1. TypeOK /\ LinkInv(k) /\ CallsOK(k)'
      BY DEF IndInv
    <2>2. /\ sender[k] \in Sender /\ upstream[k] \in AckState
          /\ inbound[k] \in AckState /\ inflight[k] \in Slots \cup {None}
          /\ history.held[k] \in Nat /\ history.owed[k] \in Nat
          /\ Len(lines[k]) \in Nat /\ Len(lines[k - 1]) \in Nat
          /\ k \in Hosts /\ k - 1 \in Hosts
      BY <2>1, LinkTypes
    <2>3. /\ sender[k].acked \in Nat /\ upstream[k].acked \in Nat
          /\ inbound[k].acked \in Nat
      BY <2>2 DEF Sender, AckState
    <2>4. /\ lines'[k] \in Seq(Nat) /\ lines'[k - 1] \in Seq(Nat)
          /\ Len(lines'[k]) \in Nat /\ Len(lines'[k - 1]) \in Nat
      BY <2>2 DEF TypeOK
    <2>5. Len(lines'[k]) >= Len(lines[k]) /\ Len(lines'[k - 1]) >= Len(lines[k - 1])
      BY <2>2
    <2>6. WaitsOK(k)'
      BY <2>1, <2>2 DEF LinkInv, WaitsOK, WaitOK
    <2>7. AckOK(k)'
      BY <2>1, <2>2, <2>3, <2>4, <2>5 DEF LinkInv, AckOK
    <2>8. TellsNext(k)'
      BY <2>1 DEF LinkInv, TellsNext
    <2>9. HeldOK(k)'
      BY <2>1, <2>2, <2>4, <2>5 DEF LinkInv, HeldOK
    <2>10. OwedOK(k)'
      BY <2>1, <2>2, <2>4, <2>5 DEF LinkInv, OwedOK
    <2> QED
      BY <2>1, <2>6, <2>7, <2>8, <2>9, <2>10 DEF LinkInv
  <1> QED
    BY <1>1 DEF IndInv

\* A sink appends a batch; the only step in which its store grows.
LEMMA SinkAppendStep ==
  ASSUME IndInv, NEW l \in Links, NEW c \in Slots, SinkAppend(l, c)
  PROVE  IndInv'
  <1> DEFINE call == calls[l][c]
  <1>1. TypeOK /\ RecorderInv /\ StoreInv /\ TerminalHasAll /\ LinkInv(l)
    BY DEF IndInv
  <1>2. /\ calls \in [Links -> [Slots -> Call]] /\ call \in Call
        /\ call.first \in Nat /\ call.last \in Nat /\ call.pc = "append"
        /\ recorder.closing \in Nat /\ StoreOK(lines[l], tails[l])
        /\ l \in Hosts /\ l # 0 /\ 0 \in Hosts
        /\ Len(lines[l]) \in Nat /\ Len(lines[0]) \in Nat
    <2>1. 0 \in Hosts /\ Len(lines[0]) \in Nat
      BY <1>1, HopsAssumption, HostTypes DEF Hosts
    <2>2. l \in Hosts /\ l # 0 /\ Len(lines[l]) \in Nat
      BY <1>1, LinkTypes
    <2>3. /\ calls \in [Links -> [Slots -> Call]] /\ call \in Call
          /\ call.first \in Nat /\ call.last \in Nat
      BY <1>1 DEF TypeOK, Call
    <2>4. recorder.closing \in Nat
      BY <1>1 DEF TypeOK
    <2> QED
      BY <1>1, <2>1, <2>2, <2>3, <2>4 DEF SinkAppend, StoreInv
  <1>3. /\ call.last <= Len(lines[l - 1]) /\ call.last <= Len(lines[0])
        /\ l - 1 \in Hosts \ {l} /\ Len(lines[l - 1]) \in Nat
    <2>1. call.last <= Len(lines[l - 1])
      BY <1>1, <1>2 DEF LinkInv, CallsOK, CallOK
    <2>2. Len(lines[l - 1]) <= Len(lines[0])
      BY SourceBound
    <2>3. l - 1 \in Hosts \ {l} /\ Len(lines[l - 1]) \in Nat
      BY <1>1, LinkTypes
    <2> QED
      BY <1>2, <2>1, <2>2, <2>3
  <1>4. PICK to \in 0 .. MaxRecords, err \in {"nil", "gap", "capacity", "io"} :
          /\ StoreAppend(l, call.first, call.last, recorder.closing,
                         [to |-> to, err |-> err])
          /\ calls' = [calls EXCEPT ![l][c].pc = "outcome",
                         ![l][c].accepted = to, ![l][c].err = err]
    BY DEF SinkAppend
  <1>5. to \in Nat
    BY <1>4, BoundsAssumption
  <1> DEFINE d == [call EXCEPT !.pc = "outcome", !.accepted = to, !.err = err]
  <1>6. /\ d \in Call /\ d.pc = "outcome" /\ d.first = call.first
        /\ d.last = call.last /\ d.accepted = to /\ d.err = err
    BY <1>2, <1>4, <1>5 DEF Call
  <1>7. calls' = [calls EXCEPT ![l][c] = d]
    BY <1>2, <1>4
  <1> HIDE DEF d
  <1>8. /\ calls' \in [Links -> [Slots -> Call]] /\ calls'[l][c] = d
        /\ \A e \in Slots \ {c} : calls'[l][e] = calls[l][e]
        /\ \A k \in Links \ {l} : calls'[k] = calls[k]
    BY <1>2, <1>6, <1>7
  <1>9. /\ SinkAppended(l, call.first, call.last, recorder.closing, to, err)
        /\ Fault \/ NoFault
    BY <1>1, <1>2, <1>4, <1>5, SinkAppends
  <1> HIDE DEF call
  <1>10. /\ lines' = [lines EXCEPT ![l] = lines'[l]] /\ lines'[l] \in Seq(Nat)
         /\ Len(lines'[l]) >= Len(lines[l])
         /\ Len(lines'[l]) > Len(lines[l]) => Len(lines'[l]) <= call.last
         /\ StoreOK(lines'[l], tails'[l])
         /\ tails' = [tails EXCEPT ![l] = tails'[l]]
         /\ tails'[l] \in [size : Nat, last : Nat]
         /\ torn' \in [Hosts -> BOOLEAN]
         /\ to <= Len(lines'[l])
         /\ err = "gap" => to + 1 < call.first
         /\ terminal' = [terminal EXCEPT ![l] = terminal'[l]]
         /\ terminal'[l] \in BOOLEAN
         /\ terminal'[l] =>
              \/ terminal[l]
              \/ recorder.closing > Len(lines[l])
                 /\ recorder.closing <= Len(lines'[l])
    BY <1>9 DEF SinkAppended
  <1>11. /\ lines' \in [Hosts -> Seq(Nat)]
         /\ \A h \in Hosts \ {l} : lines'[h] = lines[h]
         /\ Len(lines'[l]) \in Nat
    <2>1. lines \in [Hosts -> Seq(Nat)]
      BY <1>1 DEF TypeOK
    <2>2. Len(lines'[l]) \in Nat
      BY <1>10
    <2> DEFINE ls == lines'[l]
    <2>3. lines' = [lines EXCEPT ![l] = ls] /\ ls \in Seq(Nat)
      BY <1>10
    <2> HIDE DEF ls
    <2>4. /\ lines' \in [Hosts -> Seq(Nat)]
          /\ \A h \in Hosts \ {l} : lines'[h] = lines[h]
      BY <1>2, <2>1, <2>3
    <2> QED
      BY <2>2, <2>4
  <1>12. /\ tails' \in [Hosts -> [size : Nat, last : Nat]]
         /\ \A h \in Hosts \ {l} : tails'[h] = tails[h]
    BY <1>1, <1>2, <1>10 DEF TypeOK
  <1>13. /\ terminal' \in [Hosts -> BOOLEAN]
         /\ \A h \in Hosts \ {l} : terminal'[h] = terminal[h]
    BY <1>1, <1>2, <1>10 DEF TypeOK
  <1>14. /\ recorder' = recorder /\ sender' = sender /\ upstream' = upstream
         /\ inbound' = inbound /\ old' = old /\ inflight' = inflight
         /\ history' = history /\ known' = [known EXCEPT ![l] = TRUE]
    BY DEF SinkAppend
  <1>15. TypeOK'
    <2>1. faults' \in 0 .. MaxFaults
      BY <1>1, <1>9, FaultType
    <2>2. known' \in [Links -> BOOLEAN]
      BY <1>1, <1>14 DEF TypeOK
    <2> QED
      BY <1>1, <1>8, <1>10, <1>11, <1>12, <1>13, <1>14, <2>1, <2>2 DEF TypeOK
  <1>16. /\ Len(lines'[l]) <= Len(lines[0]) /\ lines'[0] = lines[0]
         /\ Len(lines'[l]) <= Len(lines[l - 1]) /\ lines'[l - 1] = lines[l - 1]
    BY <1>1, <1>2, <1>3, <1>10, <1>11 DEF StoreInv, call
  <1>17. ASSUME NEW k \in Links
         PROVE  /\ k \in Hosts /\ Len(lines[k]) \in Nat /\ Len(lines[k - 1]) \in Nat
                /\ Len(lines'[k - 1]) \in Nat
                /\ Len(lines'[k - 1]) >= Len(lines[k - 1])
    <2>1. /\ k \in Hosts /\ k - 1 \in Hosts
          /\ Len(lines[k]) \in Nat /\ Len(lines[k - 1]) \in Nat
      BY <1>1, LinkTypes
    <2>2. CASE k - 1 = l
      BY <1>10, <1>11, <2>1, <2>2
    <2>3. CASE k - 1 # l
      <3>1. lines'[k - 1] = lines[k - 1]
        BY <1>11, <2>1, <2>3
      <3> QED
        BY <2>1, <3>1
    <2> QED
      BY <2>2, <2>3
  <1>18. RecorderInv'
    <2>1. torn'[0] = torn[0]
      <3>1. \/ torn' = torn
            \/ \E p : AppendLocked(l, call.first, p)
        BY <1>4 DEF StoreAppend, storeVars, call
      <3>2. ASSUME NEW p, AppendLocked(l, call.first, p)
            PROVE  torn'[0] = torn[0]
        BY <1>1, <1>2, <3>2 DEF AppendLocked, TypeOK
      <3> QED
        BY <3>1, <3>2
    <2>2. tails'[0] = tails[0]
      BY <1>2, <1>12
    <2> QED
      BY <1>1, <1>14, <1>16, <2>1, <2>2 DEF RecorderInv
  <1>19. StoreInv'
    <2> SUFFICES ASSUME NEW k \in Links
                 PROVE  /\ StoreOK(lines'[k], tails'[k])
                        /\ Len(lines'[k]) <= Len(lines'[k - 1])
                        /\ Len(lines'[k]) <= Len(lines'[0])
      BY DEF StoreInv
    <2>1. CASE k = l
      BY <2>1, <1>10, <1>16
    <2>2. CASE k # l
      <3>1. lines'[k] = lines[k] /\ tails'[k] = tails[k]
        BY <1>11, <1>12, <1>17, <2>2
      <3>2. /\ StoreOK(lines[k], tails[k]) /\ Len(lines[k]) <= Len(lines[k - 1])
            /\ Len(lines[k]) <= Len(lines[0])
        BY <1>1 DEF StoreInv
      <3>3. Len(lines'[k]) <= Len(lines'[k - 1])
        BY <1>17, <3>1, <3>2
      <3> QED
        BY <1>16, <3>1, <3>2, <3>3
    <2> QED
      BY <2>1, <2>2
  <1>20. TerminalHasAll'
    <2> SUFFICES ASSUME NEW h \in Hosts, terminal'[h]
                 PROVE  recorder.closing > 0 /\ Len(lines'[h]) = recorder.closing
      BY <1>14 DEF TerminalHasAll
    <2>1. recorder.closing \in {0, Len(lines[0])}
      BY <1>1 DEF RecorderInv
    <2>2. CASE h = l
      <3>1. CASE terminal[l]
        <4>1. recorder.closing > 0 /\ Len(lines[l]) = recorder.closing
          BY <1>1, <1>2, <3>1 DEF TerminalHasAll
        <4> QED
          BY <1>2, <1>10, <1>11, <1>16, <2>1, <2>2, <4>1
      <3>2. CASE recorder.closing > Len(lines[l])
                 /\ recorder.closing <= Len(lines'[l])
        BY <1>2, <1>11, <1>16, <2>1, <2>2, <3>2
      <3> QED
        BY <1>10, <2>2, <3>1, <3>2
    <2>3. CASE h # l
      BY <1>1, <1>11, <1>13, <2>3 DEF TerminalHasAll
    <2> QED
      BY <2>2, <2>3
  <1>21. ASSUME NEW k \in Links PROVE CallsOK(k)'
    <2>1. CallsOK(k)
      BY DEF IndInv, LinkInv
    <2>2. CASE k = l
      <3>1. CallOK(d, Len(lines'[l]), Len(lines[l - 1]))
        BY <1>3, <1>6, <1>10 DEF CallOK, call
      <3>2. ASSUME NEW e \in Slots, e # c
            PROVE  CallOK(calls'[l][e], Len(lines'[l]), Len(lines[l - 1]))
        <4>1. calls'[l][e] = calls[l][e] /\ calls[l][e].accepted \in Nat
          BY <1>2, <1>8, <3>2 DEF Call
        <4> QED
          BY <1>2, <1>10, <1>11, <2>1, <2>2, <4>1 DEF CallsOK, CallOK
      <3> QED
        BY <1>8, <1>16, <2>2, <3>1, <3>2 DEF CallsOK
    <2>3. CASE k # l
      <3>1. k \in Hosts \ {l}
        BY <1>17, <2>3
      <3>3. ASSUME NEW e \in Slots
            PROVE  CallOK(calls[k][e], Len(lines[k]), Len(lines'[k - 1]))
        <4>1. calls[k][e].last \in Nat
          BY <1>2 DEF Call
        <4> QED
          BY <1>17, <2>1, <4>1 DEF CallsOK, CallOK
      <3> QED
        BY <1>8, <1>11, <2>3, <3>1, <3>3 DEF CallsOK
    <2> QED
      BY <2>2, <2>3
  <1>22. \A k \in Links, e \in Slots :
           /\ calls'[k][e].first = calls[k][e].first
           /\ calls[k][e].pc # "free" => calls'[k][e].pc # "free"
    BY <1>6, <1>8 DEF call
  <1>23. \A h \in Hosts : Len(lines'[h]) >= Len(lines[h])
    <2> TAKE h \in Hosts
    <2>1. Len(lines[h]) \in Nat
      BY <1>1, HostTypes
    <2> QED
      BY <1>10, <1>11, <2>1
  <1> QED
    BY <1>14, <1>15, <1>18, <1>19, <1>20, <1>21, <1>22, <1>23, GrowStep

\* The variables of the links, one by one.
LEMMA LinkVarsStay ==
  ASSUME UNCHANGED <<linkVars, history>>
  PROVE  /\ sender' = sender /\ upstream' = upstream /\ inbound' = inbound
         /\ known' = known /\ old' = old /\ calls' = calls
         /\ inflight' = inflight /\ history' = history
  BY DEF linkVars

\* Nothing is terminal while the recorder is open.
LEMMA OpenIsNotTerminal ==
  ASSUME IndInv, ~recorder.closed
  PROVE  \A h \in Hosts : ~terminal[h]
  BY DEF IndInv, RecorderInv, TerminalHasAll

\* The container's spool grows, or keeps its length.
LEMMA SpoolStep ==
  ASSUME IndInv, UNCHANGED <<linkVars, history>>, Fault \/ NoFault,
         recorder' \in [seq : Nat, disabled : BOOLEAN, closed : BOOLEAN,
                        closing : Nat],
         torn' \in [Hosts -> BOOLEAN], terminal' \in [Hosts -> BOOLEAN],
         tails' \in [Hosts -> [size : Nat, last : Nat]],
         NEW ls \in Seq(Nat), lines' = [lines EXCEPT ![0] = ls],
         Len(ls) >= Len(lines[0]),
         \A l \in Links : tails'[l] = tails[l],
         RecorderInv', TerminalHasAll'
  PROVE  IndInv'
  <1>1. TypeOK /\ StoreInv
    BY DEF IndInv
  <1>2. /\ 0 \in Hosts /\ Len(lines[0]) \in Nat
        /\ \A l \in Links : l \in Hosts \ {0} /\ Len(lines[l]) \in Nat
    <2>1. 0 \in Hosts /\ Len(lines[0]) \in Nat
      BY <1>1, HopsAssumption, HostTypes DEF Hosts
    <2>2. ASSUME NEW l \in Links
          PROVE  l \in Hosts \ {0} /\ Len(lines[l]) \in Nat
      BY <1>1, LinkTypes
    <2> QED
      BY <2>1, <2>2
  <1>3. /\ lines' \in [Hosts -> Seq(Nat)] /\ lines'[0] = ls
        /\ \A h \in Hosts \ {0} : lines'[h] = lines[h]
    BY <1>1, <1>2 DEF TypeOK
  <1>4. Len(ls) \in Nat
    OBVIOUS
  <1>5. TypeOK'
    <2>1. faults' \in 0 .. MaxFaults
      BY <1>1, FaultType
    <2> QED
      BY <1>1, <1>3, <2>1, LinkVarsStay DEF TypeOK
  <1>6. ASSUME NEW k \in Links
        PROVE  /\ k - 1 \in Hosts /\ Len(lines[k - 1]) \in Nat
               /\ Len(lines'[k - 1]) \in Nat
               /\ Len(lines'[k - 1]) >= Len(lines[k - 1])
    <2>1. k - 1 \in Hosts /\ Len(lines[k - 1]) \in Nat
      BY <1>1, LinkTypes
    <2> QED
      BY <1>3, <1>4, <2>1
  <1>10. StoreInv'
    BY <1>1, <1>2, <1>3, <1>4, <1>6 DEF StoreInv
  <1>7. ASSUME NEW k \in Links PROVE CallsOK(k)'
    <2>1. CallsOK(k) /\ calls' = calls
      BY LinkVarsStay DEF IndInv, LinkInv
    <2>2. ASSUME NEW c \in Slots
          PROVE  CallOK(calls[k][c], Len(lines[k]), Len(lines'[k - 1]))
      <3>1. calls[k][c].last \in Nat
        BY <1>1 DEF TypeOK, Call
      <3> QED
        BY <1>2, <1>6, <2>1, <3>1 DEF CallsOK, CallOK
    <2> QED
      BY <1>2, <1>3, <2>1, <2>2 DEF CallsOK
  <1>8. \A h \in Hosts : Len(lines'[h]) >= Len(lines[h])
    <2> TAKE h \in Hosts
    <2>1. Len(lines[h]) \in Nat
      BY <1>1, HostTypes
    <2> QED
      BY <1>3, <2>1
  <1>9. /\ UNCHANGED <<sender, upstream, inbound, inflight, history>>
        /\ calls' = calls
    BY LinkVarsStay
  <1> QED
    BY <1>5, <1>7, <1>8, <1>9, <1>10, GrowStep

\* What the two operations of the recorder need of its store.
LEMMA SpoolAppended ==
  ASSUME IndInv, ~recorder.closed, NEW closing \in {0, recorder.seq + 1},
         NEW to \in Nat, NEW err, RecorderAppended(closing, to, err)
  PROVE  LET n == recorder.seq + 1 IN
         /\ lines' = [lines EXCEPT ![0] = lines'[0]] /\ lines'[0] \in Seq(Nat)
         /\ \A i \in 1 .. Len(lines'[0]) : lines'[0][i] \in {i, Malformed}
         /\ Len(lines'[0]) >= Len(lines[0])
         /\ torn' \in [Hosts -> BOOLEAN] /\ terminal' \in [Hosts -> BOOLEAN]
         /\ tails' \in [Hosts -> [size : Nat, last : Nat]]
         /\ \A l \in Links : tails'[l] = tails[l]
         /\ \A h \in Hosts \ {0} : ~terminal'[h]
         /\ terminal'[0] => closing = n /\ Len(lines'[0]) = n
         /\ \/ /\ Len(lines'[0]) = n /\ to = n /\ ~torn'[0]
               /\ tails'[0] = [size |-> n, last |-> n]
               /\ err = "nil" \/ closing = n
            \/ /\ Len(lines'[0]) = recorder.seq /\ to <= recorder.seq
               /\ tails'[0] = [size |-> recorder.seq, last |-> recorder.seq]
               /\ err # "nil" /\ (torn'[0] => recorder.disabled \/ err = "io")
  <1> DEFINE n == recorder.seq + 1
  <1>1. TypeOK /\ RecorderInv
    BY DEF IndInv
  <1>2. /\ 0 \in Hosts /\ recorder.seq \in Nat /\ recorder.seq = Len(lines[0])
        /\ tails[0] = [size |-> recorder.seq, last |-> recorder.seq]
        /\ torn[0] => recorder.disabled
    <2>1. 0 \in Hosts
      BY HopsAssumption DEF Hosts
    <2> QED
      BY <1>1, <2>1, HostTypes DEF RecorderInv, TypeOK
  <1>3. \A h \in Hosts : ~terminal[h]
    BY OpenIsNotTerminal
  <1>4. /\ lines' = [lines EXCEPT ![0] = lines'[0]] /\ lines'[0] \in Seq(Nat)
        /\ \A i \in 1 .. Len(lines'[0]) : lines'[0][i] \in {i, Malformed}
        /\ tails' = [tails EXCEPT ![0] = tails'[0]]
        /\ torn' = [torn EXCEPT ![0] = torn'[0]] /\ torn'[0] \in BOOLEAN
        /\ terminal' = [terminal EXCEPT ![0] = terminal'[0]]
        /\ terminal'[0] \in BOOLEAN
    BY DEF RecorderAppended
  <1>5. \/ /\ Len(lines'[0]) = n /\ to = n
           /\ tails'[0] = [size |-> n, last |-> n] /\ ~torn'[0]
           /\ err = "nil" \/ closing = n
           /\ terminal'[0] => terminal[0] \/ closing = n
        \/ /\ Len(lines'[0]) = recorder.seq /\ to <= recorder.seq
           /\ tails'[0] = tails[0] /\ err # "nil"
           /\ torn'[0] => torn[0] \/ err = "io"
           /\ terminal'[0] = terminal[0]
    BY DEF RecorderAppended
  <1>6. tails'[0] \in [size : Nat, last : Nat]
    BY <1>2, <1>5
  <1>7. /\ tails' \in [Hosts -> [size : Nat, last : Nat]]
        /\ \A h \in Hosts \ {0} : tails'[h] = tails[h]
    <2> DEFINE tl == tails'[0]
    <2>1. tails' = [tails EXCEPT ![0] = tl] /\ tl \in [size : Nat, last : Nat]
      BY <1>4, <1>6
    <2> HIDE DEF tl
    <2> QED
      BY <1>1, <1>2, <2>1 DEF TypeOK
  <1>8. torn' \in [Hosts -> BOOLEAN]
    <2> DEFINE tl == torn'[0]
    <2>1. torn' = [torn EXCEPT ![0] = tl] /\ tl \in BOOLEAN
      BY <1>4
    <2> HIDE DEF tl
    <2> QED
      BY <1>1, <1>2, <2>1 DEF TypeOK
  <1>9. /\ terminal' \in [Hosts -> BOOLEAN]
        /\ \A h \in Hosts \ {0} : terminal'[h] = terminal[h]
    <2> DEFINE tl == terminal'[0]
    <2>1. terminal' = [terminal EXCEPT ![0] = tl] /\ tl \in BOOLEAN
      BY <1>4
    <2> HIDE DEF tl
    <2> QED
      BY <1>1, <1>2, <2>1 DEF TypeOK
  <1>10. \A l \in Links : l \in Hosts \ {0}
    BY HopsAssumption DEF Links, Hosts
  <1>11. Len(lines'[0]) >= Len(lines[0])
    BY <1>2, <1>5
  <1>12. terminal'[0] => closing = n /\ Len(lines'[0]) = n
    BY <1>2, <1>3, <1>5
  <1>13. \/ /\ Len(lines'[0]) = n /\ to = n /\ ~torn'[0]
            /\ tails'[0] = [size |-> n, last |-> n]
            /\ err = "nil" \/ closing = n
         \/ /\ Len(lines'[0]) = recorder.seq /\ to <= recorder.seq
            /\ tails'[0] = [size |-> recorder.seq, last |-> recorder.seq]
            /\ err # "nil" /\ (torn'[0] => recorder.disabled \/ err = "io")
    BY <1>2, <1>5
  <1> QED
    BY <1>3, <1>4, <1>7, <1>8, <1>9, <1>10, <1>11, <1>12, <1>13

\* The recorder writes a line of output.
LEMMA EmitStep ==
  ASSUME IndInv, Emit
  PROVE  IndInv'
  <1> DEFINE n == recorder.seq + 1
             Record == [seq : Nat, disabled : BOOLEAN, closed : BOOLEAN,
                        closing : Nat]
  <1>1. TypeOK /\ RecorderInv /\ ~recorder.closed /\ ~recorder.disabled
    BY DEF IndInv, Emit
  <1>2. /\ recorder \in Record /\ recorder.seq \in Nat /\ n \in Nat /\ n > 0
        /\ recorder.closing = 0 /\ recorder.seq = Len(lines[0])
    BY <1>1 DEF TypeOK, RecorderInv
  <1>3. PICK to \in 0 .. MaxRecords, err \in {"nil", "gap", "capacity", "io"} :
          /\ StoreAppend(0, n, n, 0, [to |-> to, err |-> err])
          /\ recorder' = [recorder EXCEPT
               !.seq = IF err = "nil" THEN n ELSE IF to > @ THEN to ELSE @,
               !.disabled = err \in {"gap", "io"}]
    BY DEF Emit
  <1>4. to \in Nat /\ 0 \in {0, n}
    BY <1>3, BoundsAssumption
  <1>5. RecorderAppended(0, to, err) /\ (Fault \/ NoFault)
    BY <1>1, <1>3, <1>4, RecorderAppends
  <1>6. /\ recorder' \in Record /\ recorder'.closed = recorder.closed
        /\ recorder'.closing = recorder.closing
        /\ recorder'.seq = IF err = "nil" THEN n
                           ELSE IF to > recorder.seq THEN to ELSE recorder.seq
        /\ recorder'.disabled = (err \in {"gap", "io"})
    <2> DEFINE q == IF err = "nil" THEN n
                    ELSE IF to > recorder.seq THEN to ELSE recorder.seq
               b == err \in {"gap", "io"}
    <2>1. q \in Nat /\ b \in BOOLEAN
      BY <1>2, <1>4
    <2>2. recorder' = [recorder EXCEPT !.seq = q, !.disabled = b]
      BY <1>3
    <2> HIDE DEF q, b
    <2>3. /\ recorder' \in Record /\ recorder'.closed = recorder.closed
          /\ recorder'.closing = recorder.closing
          /\ recorder'.seq = q /\ recorder'.disabled = b
      BY <1>2, <2>1, <2>2
    <2> QED
      BY <2>3 DEF q, b
  <1>7. /\ lines' = [lines EXCEPT ![0] = lines'[0]] /\ lines'[0] \in Seq(Nat)
        /\ \A i \in 1 .. Len(lines'[0]) : lines'[0][i] \in {i, Malformed}
        /\ Len(lines'[0]) >= Len(lines[0])
        /\ torn' \in [Hosts -> BOOLEAN] /\ terminal' \in [Hosts -> BOOLEAN]
        /\ tails' \in [Hosts -> [size : Nat, last : Nat]]
        /\ \A l \in Links : tails'[l] = tails[l]
        /\ \A h \in Hosts \ {0} : ~terminal'[h]
        /\ terminal'[0] => 0 = n
        /\ \/ /\ Len(lines'[0]) = n /\ to = n /\ ~torn'[0]
              /\ tails'[0] = [size |-> n, last |-> n]
              /\ err = "nil" \/ 0 = n
           \/ /\ Len(lines'[0]) = recorder.seq /\ to <= recorder.seq
              /\ tails'[0] = [size |-> recorder.seq, last |-> recorder.seq]
              /\ err # "nil" /\ (torn'[0] => recorder.disabled \/ err = "io")
    BY <1>1, <1>4, <1>5, SpoolAppended
  <1>8. /\ recorder'.seq = Len(lines'[0])
        /\ tails'[0] = [size |-> recorder'.seq, last |-> recorder'.seq]
        /\ torn'[0] => recorder'.disabled
    BY <1>1, <1>2, <1>6, <1>7
  <1>9. RecorderInv'
    BY <1>2, <1>6, <1>7, <1>8 DEF RecorderInv
  <1>10. TerminalHasAll'
    BY <1>2, <1>7 DEF TerminalHasAll
  <1>11. UNCHANGED <<linkVars, history>>
    BY DEF Emit
  <1> QED
    BY <1>5, <1>6, <1>7, <1>9, <1>10, <1>11, SpoolStep

\* The recorder writes its last record, or fails to.
LEMMA CloseRecorderStep ==
  ASSUME IndInv, CloseRecorder
  PROVE  IndInv'
  <1> DEFINE n == recorder.seq + 1
             Record == [seq : Nat, disabled : BOOLEAN, closed : BOOLEAN,
                        closing : Nat]
  <1>1. TypeOK /\ RecorderInv /\ ~recorder.closed
    BY DEF IndInv, CloseRecorder
  <1>2. /\ recorder \in Record /\ recorder.seq \in Nat /\ n \in Nat /\ n > 0
    BY <1>1 DEF TypeOK, RecorderInv
  <1>3. PICK to \in 0 .. MaxRecords, err \in {"nil", "gap", "capacity", "io"} :
          /\ StoreAppend(0, n, n, n, [to |-> to, err |-> err])
          /\ recorder' = [recorder EXCEPT !.closed = TRUE,
                            !.closing = IF to >= n THEN n ELSE 0]
    BY DEF CloseRecorder
  <1>4. to \in Nat /\ n \in {0, n}
    BY <1>3, BoundsAssumption
  <1>5. RecorderAppended(n, to, err) /\ (Fault \/ NoFault)
    BY <1>1, <1>3, <1>4, RecorderAppends
  <1>6. /\ recorder' \in Record /\ recorder'.closed
        /\ recorder'.closing = IF to >= n THEN n ELSE 0
    BY <1>2, <1>3, <1>4
  <1>7. /\ lines' = [lines EXCEPT ![0] = lines'[0]] /\ lines'[0] \in Seq(Nat)
        /\ \A i \in 1 .. Len(lines'[0]) : lines'[0][i] \in {i, Malformed}
        /\ Len(lines'[0]) >= Len(lines[0])
        /\ torn' \in [Hosts -> BOOLEAN] /\ terminal' \in [Hosts -> BOOLEAN]
        /\ tails' \in [Hosts -> [size : Nat, last : Nat]]
        /\ \A l \in Links : tails'[l] = tails[l]
        /\ \A h \in Hosts \ {0} : ~terminal'[h]
        /\ terminal'[0] => Len(lines'[0]) = n
        /\ \/ Len(lines'[0]) = n /\ to = n
           \/ Len(lines'[0]) = recorder.seq /\ to <= recorder.seq
    BY <1>1, <1>4, <1>5, SpoolAppended
  <1>8. /\ recorder'.closing \in {0, Len(lines'[0])}
        /\ Len(lines'[0]) = n => recorder'.closing = n
    BY <1>2, <1>6, <1>7
  <1>9. RecorderInv'
    BY <1>6, <1>7, <1>8 DEF RecorderInv
  <1>10. TerminalHasAll'
    BY <1>2, <1>7, <1>8 DEF TerminalHasAll
  <1>11. UNCHANGED <<linkVars, history>>
    BY DEF CloseRecorder
  <1> QED
    BY <1>5, <1>6, <1>7, <1>9, <1>10, <1>11, SpoolStep

\* A line of the container's spool becomes unreadable.
LEMMA DamageStep ==
  ASSUME IndInv, Damage
  PROVE  IndInv'
  <1>1. TypeOK /\ RecorderInv /\ TerminalHasAll
    BY DEF IndInv
  <1>2. 0 \in Hosts
    BY HopsAssumption DEF Hosts
  <1>3. lines[0] \in Seq(Nat) /\ DOMAIN lines[0] = 1 .. Len(lines[0])
        /\ Len(lines[0]) \in Nat
    BY <1>1, <1>2, HostTypes
  <1>4. PICK i \in DOMAIN lines[0] : lines' = [lines EXCEPT ![0][i] = Malformed]
    BY DEF Damage
  <1> DEFINE ls == [lines[0] EXCEPT ![i] = Malformed]
  <1>5. /\ ls \in Seq(Nat) /\ Len(ls) = Len(lines[0])
        /\ \A j \in 1 .. Len(lines[0]) : ls[j] \in {lines[0][j], Malformed}
    BY <1>3, <1>4 DEF Malformed
  <1>6. lines' = [lines EXCEPT ![0] = ls]
    BY <1>1, <1>2, <1>4 DEF TypeOK
  <1> HIDE DEF ls
  <1>7. lines'[0] = ls /\ \A h \in Hosts \ {0} : lines'[h] = lines[h]
    BY <1>1, <1>2, <1>6 DEF TypeOK
  <1>8. /\ torn' = torn /\ tails' = tails /\ terminal' = terminal
        /\ recorder' = recorder /\ UNCHANGED <<linkVars, history>> /\ Fault
    BY DEF Damage
  <1>9. RecorderInv'
    <2>1. \A j \in 1 .. Len(ls) : ls[j] \in {j, Malformed}
      BY <1>1, <1>5 DEF RecorderInv
    <2> QED
      BY <1>1, <1>5, <1>7, <1>8, <2>1 DEF RecorderInv
  <1>10. TerminalHasAll'
    BY <1>1, <1>5, <1>7, <1>8 DEF TerminalHasAll
  <1>11. /\ recorder' \in [seq : Nat, disabled : BOOLEAN, closed : BOOLEAN,
                           closing : Nat]
         /\ torn' \in [Hosts -> BOOLEAN] /\ terminal' \in [Hosts -> BOOLEAN]
         /\ tails' \in [Hosts -> [size : Nat, last : Nat]]
    BY <1>1, <1>8 DEF TypeOK
  <1>12. Len(ls) >= Len(lines[0])
    BY <1>3, <1>5
  <1> QED
    BY <1>5, <1>6, <1>8, <1>9, <1>10, <1>11, <1>12, SpoolStep

-----------------------------------------------------------------------------
(* The invariant                                                           *)

\* The invariant holds at the start.
LEMMA InitInv ==
  ASSUME Init
  PROVE  IndInv
  <1>1. /\ lines = [h \in Hosts |-> << >>]
        /\ tails = [h \in Hosts |-> [size |-> 0, last |-> 0]]
        /\ torn = [h \in Hosts |-> FALSE]
        /\ terminal = [h \in Hosts |-> FALSE]
        /\ recorder = [seq |-> 0, disabled |-> FALSE, closed |-> FALSE,
                       closing |-> 0]
    BY DEF Init
  <1>2. 0 \in Hosts /\ \A l \in Links : l \in Hosts /\ l - 1 \in Hosts
    BY HopsAssumption DEF Hosts, Links
  <1>3. /\ lines \in [Hosts -> Seq(Nat)]
        /\ \A h \in Hosts : lines[h] = << >> /\ Len(lines[h]) = 0
    BY <1>1
  <1>4. TypeOK
    <2>1. /\ tails \in [Hosts -> [size : Nat, last : Nat]]
          /\ torn \in [Hosts -> BOOLEAN] /\ terminal \in [Hosts -> BOOLEAN]
          /\ recorder \in [seq : Nat, disabled : BOOLEAN, closed : BOOLEAN,
                           closing : Nat]
      BY <1>1
    <2>2. sender \in [Links -> Sender]
      <3>1. \A l \in Links : [exists |-> l = 1, mode |-> "running",
               drain |-> "none", flush |-> "no", acked |-> 0,
               incomplete |-> FALSE, disabled |-> FALSE] \in Sender
        BY DEF Sender
      <3> QED
        BY <3>1 DEF Init
    <2>3. /\ upstream \in [Links -> AckState] /\ inbound \in [Links -> AckState]
          /\ known \in [Links -> BOOLEAN] /\ old \in [Links -> BOOLEAN]
      BY DEF Init, AckState
    <2>4. /\ calls \in [Links -> [Slots -> Call]]
          /\ inflight \in [Links -> Slots \cup {None}]
      BY FreeIs DEF Init
    <2>5. faults \in 0 .. MaxFaults /\ history \in History
      BY BoundsAssumption DEF Init, History
    <2> QED
      BY <1>3, <2>1, <2>2, <2>3, <2>4, <2>5 DEF TypeOK
  <1>5. RecorderInv
    BY <1>1, <1>2, <1>3 DEF RecorderInv
  <1>6. StoreInv /\ TerminalHasAll
    BY <1>1, <1>2, <1>3 DEF StoreInv, StoreOK, TerminalHasAll
  <1>7. ASSUME NEW l \in Links PROVE LinkInv(l)
    <2>1. /\ sender[l].acked = 0 /\ sender[l].drain = "none"
          /\ upstream[l].acked = 0 /\ inbound[l].acked = 0 /\ inflight[l] = None
          /\ history.held[l] = 0 /\ history.owed[l] = 0
          /\ \A c \in Slots : calls[l][c] = Free
      BY DEF Init
    <2>2. CallsOK(l)
      BY <1>2, <1>3, <2>1, FreeIs DEF CallsOK, CallOK
    <2>3. WaitsOK(l) /\ AckOK(l) /\ TellsNext(l) /\ HeldOK(l) /\ OwedOK(l)
      BY <1>2, <1>3, <2>1 DEF WaitsOK, WaitOK, AckOK, TellsNext, HeldOK, OwedOK
    <2> QED
      BY <2>2, <2>3 DEF LinkInv
  <1> QED
    BY <1>4, <1>5, <1>6, <1>7 DEF IndInv

\* Every step keeps the invariant.
LEMMA NextInv ==
  ASSUME IndInv, [Next]_vars
  PROVE  IndInv'
  <1>1. CASE Emit
    BY <1>1, EmitStep
  <1>2. CASE CloseRecorder
    BY <1>2, CloseRecorderStep
  <1>3. CASE Damage
    BY <1>3, DamageStep
  <1>4. ASSUME NEW l \in Links, SenderStep(l) PROVE IndInv'
    BY <1>4, WorkerWakesStep, SendStep, SourceGapStep, CaughtUpStep, FlushLocksStep
       DEF SenderStep
  <1>5. ASSUME NEW l \in Links,
               \/ CallFails(l) \/ FlushBegins(l) \/ FlushTimesOut(l)
               \/ StopWorker(l) \/ NewSender(l)
        PROVE  IndInv'
    BY <1>5, CallFailsStep, FlushBeginsStep, FlushTimesOutStep, StopWorkerStep,
       NewSenderStep
  <1>6. ASSUME NEW l \in Links, NEW c \in Slots,
               SinkStep(l, c) \/ SinkRefuses(l, c) \/ SinkProducerCap(l, c)
        PROVE  IndInv'
    BY <1>6, SinkReceiveStep, SinkAppendStep, SinkOutcomeStep, SinkRefusesStep,
       SinkProducerCapStep DEF SinkStep
  <1>7. CASE UNCHANGED vars
    <2>1. /\ lines' = lines /\ tails' = tails /\ torn' = torn
          /\ terminal' = terminal /\ recorder' = recorder /\ sender' = sender
          /\ upstream' = upstream /\ inbound' = inbound /\ known' = known
          /\ old' = old /\ history' = history /\ inflight' = inflight
          /\ calls' = calls /\ faults' = faults
      BY <1>7 DEF vars, storeVars, linkVars
    <2>2. TypeOK' /\ RecorderInv' /\ StoreInv' /\ TerminalHasAll'
      BY <2>1 DEF IndInv, TypeOK, RecorderInv, StoreInv, TerminalHasAll
    <2>3. ASSUME NEW l \in Links PROVE LinkInv(l)'
      <3>1. LinkInv(l)
        BY DEF IndInv
      <3> QED
        BY <2>1, <3>1 DEF LinkInv, CallsOK, WaitsOK, WaitOK, AckOK, TellsNext,
                          HeldOK, OwedOK
    <2> QED
      BY <2>2, <2>3 DEF IndInv
  <1> QED
    BY <1>1, <1>2, <1>3, <1>4, <1>5, <1>6, <1>7 DEF Next

\* The invariant holds in every state that recorder, senders and sinks reach, with
\* any number of hosts in the chain, of calls at a sink and of faults.
THEOREM Invariance == Spec => []IndInv
  <1>1. Init => IndInv
    BY InitInv
  <1>2. IndInv /\ [Next]_vars => IndInv'
    BY NextInv
  <1> QED
    BY <1>1, <1>2, PTL DEF Spec

-----------------------------------------------------------------------------
(* What it gives                                                           *)

\* Type correctness; in particular no call is ever at a sink with a position or an
\* error that the store does not return, and no sender waits for an unknown call.
THEOREM TypeCorrect == Spec => []TypeOK
  <1>1. IndInv => TypeOK
    BY DEF IndInv
  <1> QED
    BY <1>1, Invariance, PTL

\* Store.Append at a sink: whatever batches a sender repeats after a lost reply, a
\* restart or a damaged acknowledgement file, and whichever of them are cut short
\* or torn, the segment holds the producer's records from the first on, each once
\* and in order.
THEOREM StoredExactlyOnce == Spec => []StoredOnce
  <1>1. IndInv => StoredOnce
    <2> SUFFICES ASSUME IndInv, NEW l \in Links, NEW i \in DOMAIN lines[l]
                 PROVE  lines[l][i] = i
      BY DEF StoredOnce
    <2>1. l \in Hosts
      BY LinkTypes DEF IndInv
    <2>2. DOMAIN lines[l] = 1 .. Len(lines[l])
      BY <2>1, HostTypes DEF IndInv
    <2> QED
      BY <2>2 DEF IndInv, StoreInv, StoreOK
  <1> QED
    BY <1>1, Invariance, PTL

\* AckStore and SetupLogSender.advance: a position passes what the peer's store
\* holds only together with a gap, at the sender, in its file and in the file of the
\* sink, unless the gap itself could not be written.
THEOREM AckedHeldOrGap == Spec => []AckedIsHeldOrGap
  <1>1. IndInv => AckedIsHeldOrGap
    BY DEF IndInv, LinkInv, AckOK, AckedIsHeldOrGap
  <1> QED
    BY <1>1, Invariance, PTL

\* SetupLogSender.Flush: when it reports success, the peer holds everything that
\* the source held when the final drain looked last.
THEOREM FlushHonest == Spec => []FlushIsHonest
  <1>1. IndInv => FlushIsHonest
    <2> SUFFICES ASSUME IndInv, NEW l \in Links, ~history.unrecorded[l]
                 PROVE  Len(lines[l]) >= history.held[l]
      BY DEF FlushIsHonest
    <2>1. TypeOK /\ HeldOK(l)
      BY DEF IndInv, LinkInv
    <2>2. Len(lines[l]) \in Nat /\ history.held[l] \in Nat
      BY <2>1, LinkTypes
    <2> QED
      BY <2>1, <2>2 DEF HeldOK
  <1> QED
    BY <1>1, Invariance, PTL

\* The flushes of the chain in order: one that reports success after the one
\* before it did leaves its peer with all that one had promised, the case included
\* in which the forwarder never created a sender and Flush has nothing to do.
THEOREM FlushEndToEnd == Spec => []EndToEnd
  <1>1. IndInv => EndToEnd
    <2> SUFFICES ASSUME IndInv, NEW l \in Links, sender[l].flush = "true",
                        \A k \in Links : ~history.unrecorded[k]
                 PROVE  Len(lines[l]) >= history.owed[l]
      BY DEF EndToEnd
    <2>1. TypeOK /\ OwedOK(l)
      BY DEF IndInv, LinkInv
    <2>2. Len(lines[l]) \in Nat /\ history.owed[l] \in Nat
      BY <2>1, LinkTypes
    <2>3. l > 1 => l - 1 \in Links
      BY HopsAssumption DEF Links
    <2> QED
      BY <2>1, <2>2, <2>3 DEF OwedOK
  <1> QED
    BY <1>1, Invariance, PTL

\* Store.Append marks a producer terminal in a host's manifest only when the host
\* holds every record up to the one that Close wrote.
THEOREM TerminalComplete == Spec => []TerminalHasAll
  <1>1. IndInv => TerminalHasAll
    BY DEF IndInv
  <1> QED
    BY <1>1, Invariance, PTL

-----------------------------------------------------------------------------
(* What a step never does                                                  *)

\* Store.Append and the manifest: a store loses no line, and one whose producer is
\* terminal stays so and gets no more lines.
Settled ==
  \A h \in Hosts :
    /\ Len(lines'[h]) >= Len(lines[h])
    /\ terminal[h] => terminal'[h] /\ Len(lines'[h]) = Len(lines[h])

\* A step that leaves the stores alone.
LEMMA StayIsSettled ==
  ASSUME TypeOK, UNCHANGED storeVars
  PROVE  Settled
  BY HostTypes DEF storeVars, Settled

\* A batch that reaches a terminal store has nothing new.
LEMMA SinkAppendSettles ==
  ASSUME IndInv, NEW l \in Links, NEW c \in Slots, SinkAppend(l, c)
  PROVE  Settled
  <1> DEFINE call == calls[l][c]
  <1>1. TypeOK /\ StoreInv /\ l \in Hosts /\ IndInv'
    BY SinkAppendStep, LinkTypes DEF IndInv
  <1>2. call.first \in Nat /\ call.last \in Nat /\ recorder.closing \in Nat
    BY <1>1 DEF TypeOK, Call
  <1>3. PICK to \in 0 .. MaxRecords, err \in {"nil", "gap", "capacity", "io"} :
          StoreAppend(l, call.first, call.last, recorder.closing,
                      [to |-> to, err |-> err])
    BY DEF SinkAppend
  <1>4. to \in Nat /\ StoreOK(lines[l], tails[l])
    BY <1>1, <1>3, BoundsAssumption DEF StoreInv
  <1>5. SinkAppended(l, call.first, call.last, recorder.closing, to, err)
    BY <1>1, <1>2, <1>3, <1>4, SinkAppends
  <1>6. terminal[l] => terminal'[l]
    BY <1>1, <1>3 DEF StoreAppend, storeVars, TypeOK
  <1>7. /\ Len(lines'[l]) >= Len(lines[l])
        /\ \A h \in Hosts \ {l} : lines'[h] = lines[h] /\ terminal'[h] = terminal[h]
    BY <1>1, <1>5 DEF SinkAppended, TypeOK
  <1>8. recorder' = recorder
    BY DEF SinkAppend
  <1>9. terminal[l] => Len(lines'[l]) = Len(lines[l])
    BY <1>1, <1>6, <1>8 DEF IndInv, TerminalHasAll
  <1> SUFFICES ASSUME NEW h \in Hosts
               PROVE  /\ Len(lines'[h]) >= Len(lines[h])
                      /\ terminal[h] => /\ terminal'[h]
                                        /\ Len(lines'[h]) = Len(lines[h])
    BY DEF Settled
  <1>10. Len(lines[h]) \in Nat
    BY <1>1, HostTypes
  <1> QED
    BY <1>6, <1>7, <1>9, <1>10

\* Nothing is terminal when the recorder writes.
LEMMA SpoolSettles ==
  ASSUME IndInv, Emit \/ CloseRecorder
  PROVE  Settled
  <1> DEFINE n == recorder.seq + 1
  <1>1. TypeOK /\ RecorderInv /\ ~recorder.closed
    BY DEF IndInv, Emit, CloseRecorder
  <1>2. PICK closing \in {0, n}, to \in 0 .. MaxRecords,
             err \in {"nil", "gap", "capacity", "io"} :
          StoreAppend(0, n, n, closing, [to |-> to, err |-> err])
    BY DEF Emit, CloseRecorder
  <1>3. to \in Nat
    BY BoundsAssumption
  <1>4. RecorderAppended(closing, to, err)
    BY <1>1, <1>2, <1>3, RecorderAppends
  <1>5. /\ lines' = [lines EXCEPT ![0] = lines'[0]]
        /\ Len(lines'[0]) >= Len(lines[0])
    BY <1>1, <1>3, <1>4, SpoolAppended
  <1>6. \A h \in Hosts : ~terminal[h]
    BY <1>1, OpenIsNotTerminal
  <1> SUFFICES ASSUME NEW h \in Hosts
               PROVE  Len(lines'[h]) >= Len(lines[h])
    BY <1>6 DEF Settled
  <1>7. CASE h = 0
    BY <1>5, <1>7
  <1>8. CASE h # 0
    <2>1. lines'[h] = lines[h]
      BY <1>1, <1>5, <1>8 DEF TypeOK
    <2> QED
      BY <1>1, <2>1, HostTypes
  <1> QED
    BY <1>7, <1>8

\* Damage keeps the number of lines.
LEMMA DamageSettles ==
  ASSUME IndInv, Damage
  PROVE  Settled
  <1>1. TypeOK
    BY DEF IndInv
  <1>2. PICK i \in DOMAIN lines[0] : lines' = [lines EXCEPT ![0][i] = Malformed]
    BY DEF Damage
  <1>3. terminal' = terminal
    BY DEF Damage
  <1> SUFFICES ASSUME NEW h \in Hosts
               PROVE  Len(lines'[h]) = Len(lines[h]) /\ Len(lines[h]) \in Nat
    BY <1>3 DEF Settled
  <1>4. lines[h] \in Seq(Nat) /\ Len(lines[h]) \in Nat
    BY <1>1, HostTypes
  <1>5. CASE h = 0
    <2>1. lines'[h] = [lines[h] EXCEPT ![i] = Malformed]
      BY <1>1, <1>2, <1>5 DEF TypeOK
    <2> QED
      BY <1>4, <2>1
  <1>6. CASE h # 0
    BY <1>1, <1>2, <1>4, <1>6 DEF TypeOK
  <1> QED
    BY <1>5, <1>6

\* No step shortens a host's segments, and once the manifest calls the producer
\* terminal it stays so and nothing is appended, not even by the retry of a batch
\* whose reply was lost or by a sender that begins again from the first record.
THEOREM TerminalIsSettled == Spec => [][Settled]_vars
  <1>1. ASSUME IndInv, [Next]_vars PROVE [Settled]_vars
    <2>1. TypeOK
      BY <1>1 DEF IndInv
    <2>2. CASE Emit \/ CloseRecorder
      BY <1>1, <2>2, SpoolSettles
    <2>3. CASE Damage
      BY <1>1, <2>3, DamageSettles
    <2>4. ASSUME NEW l \in Links, SenderStep(l) PROVE Settled
      <3>1. UNCHANGED storeVars
        BY <2>4 DEF SenderStep, WorkerWakes, Send, SourceGap, CaughtUp, FlushLocks
      <3> QED
        BY <2>1, <3>1, StayIsSettled
    <2>5. ASSUME NEW l \in Links,
                 \/ CallFails(l) \/ FlushBegins(l) \/ FlushTimesOut(l)
                 \/ StopWorker(l) \/ NewSender(l)
          PROVE  Settled
      <3>1. UNCHANGED storeVars
        BY <2>5 DEF CallFails, FlushBegins, FlushTimesOut, StopWorker, NewSender
      <3> QED
        BY <2>1, <3>1, StayIsSettled
    <2>6. ASSUME NEW l \in Links, NEW c \in Slots, SinkAppend(l, c)
          PROVE  Settled
      BY <1>1, <2>6, SinkAppendSettles
    <2>7. ASSUME NEW l \in Links, NEW c \in Slots,
                 \/ SinkReceive(l, c) \/ SinkOutcome(l, c)
                 \/ SinkRefuses(l, c) \/ SinkProducerCap(l, c)
          PROVE  Settled
      <3>1. UNCHANGED storeVars
        BY <2>7 DEF SinkReceive, SinkOutcome, SinkRefuses, SinkProducerCap
      <3> QED
        BY <2>1, <3>1, StayIsSettled
    <2> QED
      BY <1>1, <2>2, <2>3, <2>4, <2>5, <2>6, <2>7 DEF Next, SinkStep
  <1> QED
    BY <1>1, Invariance, PTL DEF Spec

-----------------------------------------------------------------------------
(* Refinement of LogDelivery                                               *)

Implements == [Delivery!Next]_(Delivery!dvars)

\* The mapped logs, before and after a step.
LEMMA LogIs ==
  ASSUME TypeOK, TypeOK'
  PROVE  /\ DOMAIN Log = Hosts /\ DOMAIN Log' = Hosts
         /\ Log = [h \in Hosts |-> Log[h]] /\ Log' = [h \in Hosts |-> Log'[h]]
         /\ 0 \in Hosts
         /\ Log[0] = Delivery!Records(Len(lines[0]))
         /\ Log'[0] = Delivery!Records(Len(lines'[0]))
         /\ Len(Log[0]) = Len(lines[0])
         /\ \A l \in Links : /\ Log[l] = lines[l] /\ Log'[l] = lines'[l]
                             /\ Len(Log[l - 1]) = Len(lines[l - 1])
  <1>1. 0 \in Hosts /\ \A l \in Links : l \in Hosts /\ l # 0
    BY HopsAssumption DEF Hosts, Links
  <1>2. Len(lines[0]) \in Nat
    BY <1>1, HostTypes
  <1>3. /\ Log[0] = [i \in 1 .. Len(lines[0]) |-> i]
        /\ Log'[0] = [i \in 1 .. Len(lines'[0]) |-> i]
    BY <1>1 DEF Log
  <1>4. Len(Log[0]) = Len(lines[0])
    BY <1>2, <1>3
  <1>5. \A h \in Hosts \ {0} : Log[h] = lines[h] /\ Log'[h] = lines'[h]
    BY DEF Log
  <1>6. \A l \in Links : Len(Log[l - 1]) = Len(lines[l - 1])
    <2> TAKE l \in Links
    <2>1. l - 1 \in Hosts
      BY LinkTypes
    <2> QED
      BY <1>4, <1>5, <2>1
  <1>7. /\ DOMAIN Log = Hosts /\ DOMAIN Log' = Hosts
        /\ Log = [h \in Hosts |-> Log[h]] /\ Log' = [h \in Hosts |-> Log'[h]]
    BY DEF Log
  <1> QED
    BY <1>1, <1>3, <1>4, <1>5, <1>6, <1>7 DEF Delivery!Records

\* A step that leaves the stores and the recorder alone.
LEMMA StayIsStutter ==
  ASSUME UNCHANGED storeVars, recorder' = recorder
  PROVE  Implements
  <1>1. lines' = lines /\ terminal' = terminal
    BY DEF storeVars
  <1>2. Log' = Log
    BY <1>1 DEF Log
  <1> QED
    BY <1>1, <1>2 DEF Implements, Delivery!dvars

\* The records of a sink, as a function of their number.
LEMMA StoredRecords ==
  ASSUME NEW ls \in Seq(Nat), \A i \in 1 .. Len(ls) : ls[i] = i
  PROVE  ls = Delivery!Records(Len(ls))
  <1>1. DOMAIN ls = 1 .. Len(ls) /\ ls = [i \in DOMAIN ls |-> ls[i]]
    OBVIOUS
  <1>2. [i \in DOMAIN ls |-> ls[i]] = [i \in 1 .. Len(ls) |-> i]
    BY <1>1
  <1> QED
    BY <1>1, <1>2 DEF Delivery!Records

\* A batch that brings a sink new records is a delivery; any other changes nothing.
LEMMA SinkAppendImplements ==
  ASSUME IndInv, NEW l \in Links, NEW c \in Slots, SinkAppend(l, c)
  PROVE  Implements
  <1> DEFINE call == calls[l][c]
             n == Len(lines'[l])
  <1>1. /\ TypeOK /\ StoreInv /\ l \in Hosts /\ l # 0 /\ l - 1 \in Hosts \ {l}
        /\ IndInv' /\ TypeOK' /\ StoreInv' /\ TerminalHasAll'
    BY SinkAppendStep, LinkTypes DEF IndInv
  <1>2. call.first \in Nat /\ call.last \in Nat /\ recorder.closing \in Nat
    <2>1. TypeOK
      BY <1>1
    <2> QED
      BY <2>1 DEF TypeOK, Call
  <1>3. PICK to \in 0 .. MaxRecords, err \in {"nil", "gap", "capacity", "io"} :
          StoreAppend(l, call.first, call.last, recorder.closing,
                      [to |-> to, err |-> err])
    BY DEF SinkAppend
  <1>4. to \in Nat /\ StoreOK(lines[l], tails[l]) /\ StoreOK(lines'[l], tails'[l])
    BY <1>1, <1>3, BoundsAssumption DEF StoreInv
  <1>5. SinkAppended(l, call.first, call.last, recorder.closing, to, err)
    BY <1>1, <1>2, <1>3, <1>4, SinkAppends
  <1>6. terminal[l] => terminal'[l]
    BY <1>1, SinkAppendSettles DEF Settled
  <1> HIDE DEF call
  <1>7. /\ lines' = [lines EXCEPT ![l] = lines'[l]] /\ lines'[l] \in Seq(Nat)
        /\ n >= Len(lines[l])
        /\ terminal' = [terminal EXCEPT ![l] = terminal'[l]]
        /\ terminal'[l] \in BOOLEAN
        /\ terminal'[l] => \/ terminal[l]
                           \/ /\ recorder.closing > Len(lines[l])
                              /\ recorder.closing <= n
    BY <1>5 DEF SinkAppended
  <1>8. \A h \in Hosts \ {l} : lines'[h] = lines[h]
    BY <1>1, <1>7 DEF TypeOK
  <1>9. /\ lines[l] \in Seq(Nat) /\ Len(lines[l]) \in Nat /\ n \in Nat
        /\ terminal[l] \in BOOLEAN
    BY <1>1, <1>7, HostTypes
  <1>10. /\ lines[l] = Delivery!Records(Len(lines[l]))
         /\ lines'[l] = Delivery!Records(n)
    BY <1>4, <1>7, <1>9, StoredRecords DEF StoreOK
  <1>11. recorder' = recorder
    BY DEF SinkAppend
  <1>12. terminal'[l] = terminal[l] => terminal' = terminal
    BY <1>1, <1>7 DEF TypeOK
  <1>13. CASE n = Len(lines[l])
    <2>1. lines'[l] = lines[l]
      BY <1>10, <1>13
    <2>2. Log' = Log
      BY <1>8, <2>1 DEF Log
    <2>3. terminal'[l] = terminal[l]
      BY <1>2, <1>6, <1>7, <1>9, <1>13
    <2> QED
      BY <1>11, <1>12, <2>2, <2>3 DEF Implements, Delivery!dvars
  <1>14. CASE n # Len(lines[l])
    <2>1. n <= Len(lines[l - 1])
      <3>1. n <= Len(lines'[l - 1])
        BY <1>1 DEF StoreInv
      <3> QED
        BY <1>1, <1>8, <3>1
    <2>2. n \in Len(lines[l]) + 1 .. Len(lines[l - 1])
      <3>1. Len(lines[l - 1]) \in Nat
        BY <1>1, HostTypes
      <3> QED
        BY <1>7, <1>9, <1>14, <2>1, <3>1
    <2>3. n \in Len(Log[l]) + 1 .. Len(Log[l - 1])
      BY <1>1, <2>2, LogIs
    <2>4. Log' = [Log EXCEPT ![l] = Delivery!Records(n)]
      <3>1. \A h \in Hosts \ {l} : Log'[h] = Log[h]
        BY <1>1, <1>8 DEF Log
      <3>2. Log'[l] = Delivery!Records(n)
        BY <1>1, <1>10, LogIs
      <3>3. /\ DOMAIN Log = Hosts /\ DOMAIN Log' = Hosts
            /\ Log = [h \in Hosts |-> Log[h]] /\ Log' = [h \in Hosts |-> Log'[h]]
        BY <1>1, LogIs
      <3> QED
        BY <1>1, <3>1, <3>2, <3>3
    <2>5. \/ terminal' = terminal
          \/ n = recorder.closing /\ terminal' = [terminal EXCEPT ![l] = TRUE]
      <3>1. CASE terminal'[l]
        <4>1. n = recorder.closing
          BY <1>1, <1>11, <3>1 DEF TerminalHasAll
        <4> QED
          BY <1>7, <3>1, <4>1
      <3>2. CASE ~terminal'[l]
        <4>1. terminal'[l] = terminal[l]
          BY <1>6, <1>7, <1>9, <3>2
        <4> QED
          BY <1>12, <4>1
      <3> QED
        BY <3>1, <3>2
    <2> HIDE DEF n
    <2>6. Delivery!Deliver(l)
      BY <1>11, <2>3, <2>4, <2>5 DEF Delivery!Deliver
    <2> QED
      BY <2>6 DEF Implements, Delivery!Next, Links
  <1> QED
    BY <1>13, <1>14

\* The spool of the container as it is mapped.
LEMMA SpoolLog ==
  ASSUME TypeOK, TypeOK', lines' = [lines EXCEPT ![0] = lines'[0]]
  PROVE  /\ Len(lines'[0]) = Len(lines[0]) => Log' = Log
         /\ Log' = [Log EXCEPT ![0] = Delivery!Records(Len(lines'[0]))]
  <1>1. 0 \in Hosts
    BY HopsAssumption DEF Hosts
  <1>2. \A h \in Hosts \ {0} : lines'[h] = lines[h]
    BY <1>1 DEF TypeOK
  <1>3. \A h \in Hosts \ {0} : Log'[h] = Log[h]
    BY <1>2 DEF Log
  <1>4. /\ DOMAIN Log = Hosts /\ DOMAIN Log' = Hosts
        /\ Log = [h \in Hosts |-> Log[h]] /\ Log' = [h \in Hosts |-> Log'[h]]
        /\ Log[0] = Delivery!Records(Len(lines[0]))
        /\ Log'[0] = Delivery!Records(Len(lines'[0]))
    BY LogIs
  <1>5. Len(lines'[0]) = Len(lines[0]) => \A h \in Hosts : Log'[h] = Log[h]
    BY <1>3, <1>4
  <1> QED
    BY <1>1, <1>3, <1>4, <1>5

\* No manifest says terminal yet.
LEMMA OpenTerminal ==
  ASSUME TypeOK, TypeOK', \A h \in Hosts : ~terminal[h],
         \A h \in Hosts \ {0} : ~terminal'[h]
  PROVE  /\ ~terminal'[0] => terminal' = terminal
         /\ terminal'[0] => terminal' = [terminal EXCEPT ![0] = TRUE]
  <1>1. 0 \in Hosts
    BY HopsAssumption DEF Hosts
  <1>2. terminal \in [Hosts -> BOOLEAN] /\ terminal' \in [Hosts -> BOOLEAN]
    BY DEF TypeOK
  <1>3. ASSUME ~terminal'[0] PROVE terminal' = terminal
    BY <1>2, <1>3
  <1>4. ASSUME terminal'[0] PROVE terminal' = [terminal EXCEPT ![0] = TRUE]
    <2>1. terminal'[0] = TRUE
      BY <1>1, <1>2, <1>4
    <2>2. \A h \in Hosts \ {0} : terminal'[h] = FALSE /\ terminal[h] = FALSE
      BY <1>2
    <2> QED
      BY <1>1, <1>2, <2>1, <2>2
  <1> QED
    BY <1>3, <1>4

\* The recorder's appends are records of the producer.
LEMMA EmitImplements ==
  ASSUME IndInv, Emit
  PROVE  Implements
  <1> DEFINE n == recorder.seq + 1
  <1>1. TypeOK /\ RecorderInv /\ ~recorder.closed /\ IndInv' /\ TypeOK'
    BY EmitStep DEF IndInv, Emit
  <1>2. recorder.seq \in Nat /\ recorder.seq = Len(lines[0]) /\ n # 0
    BY <1>1 DEF TypeOK, RecorderInv
  <1>3. PICK to \in 0 .. MaxRecords, err \in {"nil", "gap", "capacity", "io"} :
          /\ StoreAppend(0, n, n, 0, [to |-> to, err |-> err])
          /\ recorder'.closed = recorder.closed
          /\ recorder'.closing = recorder.closing
    <2>1. recorder \in [seq : Nat, disabled : BOOLEAN, closed : BOOLEAN,
                        closing : Nat]
      BY <1>1 DEF TypeOK
    <2> QED
      BY <2>1 DEF Emit
  <1>4. to \in Nat /\ 0 \in {0, n}
    BY <1>3, BoundsAssumption
  <1>5. RecorderAppended(0, to, err)
    BY <1>1, <1>3, <1>4, RecorderAppends
  <1>6. /\ lines' = [lines EXCEPT ![0] = lines'[0]]
        /\ \A h \in Hosts \ {0} : ~terminal'[h]
        /\ terminal'[0] => 0 = n
        /\ Len(lines'[0]) = n \/ Len(lines'[0]) = recorder.seq
    BY <1>1, <1>4, <1>5, SpoolAppended
  <1>7. terminal' = terminal
    BY <1>1, <1>2, <1>6, OpenIsNotTerminal, OpenTerminal
  <1>8. Len(Log[0]) = Len(lines[0])
    BY <1>1, LogIs
  <1>9. CASE Len(lines'[0]) = recorder.seq
    <2>1. Log' = Log
      BY <1>1, <1>2, <1>6, <1>9, SpoolLog
    <2> QED
      BY <1>3, <1>7, <2>1 DEF Implements, Delivery!dvars
  <1>10. CASE Len(lines'[0]) = n
    <2>1. Log' = [Log EXCEPT ![0] = Delivery!Records(n)]
      BY <1>1, <1>6, <1>10, SpoolLog
    <2>2. n = Len(Log[0]) + 1
      BY <1>2, <1>8
    <2>3. Delivery!Record
      BY <1>1, <1>3, <1>7, <2>1, <2>2 DEF Delivery!Record
    <2> QED
      BY <2>3 DEF Implements, Delivery!Next
  <1> QED
    BY <1>6, <1>9, <1>10

\* Close writes the last record, or nothing.
LEMMA CloseRecorderImplements ==
  ASSUME IndInv, CloseRecorder
  PROVE  Implements
  <1> DEFINE n == recorder.seq + 1
  <1>1. TypeOK /\ RecorderInv /\ ~recorder.closed /\ IndInv' /\ TypeOK'
    BY CloseRecorderStep DEF IndInv, CloseRecorder
  <1>2. /\ recorder.seq \in Nat /\ recorder.seq = Len(lines[0])
        /\ recorder.closing = 0
    BY <1>1 DEF TypeOK, RecorderInv
  <1>3. PICK to \in 0 .. MaxRecords, err \in {"nil", "gap", "capacity", "io"} :
          /\ StoreAppend(0, n, n, n, [to |-> to, err |-> err])
          /\ recorder'.closed
          /\ recorder'.closing = IF to >= n THEN n ELSE 0
    <2>1. recorder \in [seq : Nat, disabled : BOOLEAN, closed : BOOLEAN,
                        closing : Nat]
      BY <1>1 DEF TypeOK
    <2> QED
      BY <2>1 DEF CloseRecorder
  <1>4. to \in Nat /\ n \in {0, n}
    BY <1>3, BoundsAssumption
  <1>5. RecorderAppended(n, to, err)
    BY <1>1, <1>3, <1>4, RecorderAppends
  <1>6. /\ lines' = [lines EXCEPT ![0] = lines'[0]]
        /\ \A h \in Hosts \ {0} : ~terminal'[h]
        /\ terminal'[0] => Len(lines'[0]) = n
        /\ \/ Len(lines'[0]) = n /\ to = n
           \/ Len(lines'[0]) = recorder.seq /\ to <= recorder.seq
    BY <1>1, <1>4, <1>5, SpoolAppended
  <1>7. /\ ~terminal'[0] => terminal' = terminal
        /\ terminal'[0] => terminal' = [terminal EXCEPT ![0] = TRUE]
    BY <1>1, <1>6, OpenIsNotTerminal, OpenTerminal
  <1>8. Len(Log[0]) = Len(lines[0])
    BY <1>1, LogIs
  <1>9. (~recorder.closed) = TRUE /\ (~recorder'.closed) = FALSE
    BY <1>1, <1>3
  <1>10. CASE Len(lines'[0]) = recorder.seq /\ to <= recorder.seq
    <2>1. Log' = Log
      BY <1>1, <1>2, <1>6, <1>10, SpoolLog
    <2>2. recorder'.closing = recorder.closing
      BY <1>2, <1>3, <1>4, <1>10
    <2>3. terminal' = terminal
      BY <1>2, <1>6, <1>7, <1>10
    <2>4. Delivery!Close
      BY <1>9, <2>1, <2>2, <2>3 DEF Delivery!Close
    <2> QED
      BY <2>4 DEF Implements, Delivery!Next
  <1>11. CASE Len(lines'[0]) = n /\ to = n
    <2>1. Log' = [Log EXCEPT ![0] = Delivery!Records(n)]
      BY <1>1, <1>6, <1>11, SpoolLog
    <2>2. n = Len(Log[0]) + 1 /\ recorder'.closing = n
      BY <1>2, <1>3, <1>8, <1>11
    <2>3. terminal' \in {terminal, [terminal EXCEPT ![0] = TRUE]}
      BY <1>7
    <2>4. Delivery!Close
      BY <1>9, <2>1, <2>2, <2>3 DEF Delivery!Close
    <2> QED
      BY <2>4 DEF Implements, Delivery!Next
  <1> QED
    BY <1>6, <1>10, <1>11

\* Damage is invisible: what counts is that the record was written.
LEMMA DamageImplements ==
  ASSUME IndInv, Damage
  PROVE  Implements
  <1>1. TypeOK /\ TypeOK' /\ 0 \in Hosts
    BY DamageStep, HopsAssumption DEF IndInv, Hosts
  <1>2. PICK i \in DOMAIN lines[0] : lines' = [lines EXCEPT ![0][i] = Malformed]
    BY DEF Damage
  <1>3. lines'[0] = [lines[0] EXCEPT ![i] = Malformed]
    BY <1>1, <1>2 DEF TypeOK
  <1>4. lines' = [lines EXCEPT ![0] = lines'[0]]
    BY <1>1, <1>2, <1>3 DEF TypeOK
  <1>5. Len(lines'[0]) = Len(lines[0])
    <2>1. lines[0] \in Seq(Nat)
      BY <1>1, HostTypes
    <2> QED
      BY <1>3, <2>1
  <1>6. Log' = Log
    BY <1>1, <1>4, <1>5, SpoolLog
  <1>7. terminal' = terminal /\ recorder' = recorder
    BY DEF Damage
  <1> QED
    BY <1>6, <1>7 DEF Implements, Delivery!dvars

\* Senders, sinks, their files and their retries together are a delivery of the
\* producer's records: whatever is repeated, lost, cut short or resumed, a reader
\* of any host sees its log grow by further records of the host before it, and
\* finish with the last one.
THEOREM MirrorDelivers == Spec => ImplementsDelivery
  <1>1. Init => Delivery!Init
    <2> SUFFICES ASSUME Init PROVE Delivery!Init
      OBVIOUS
    <2>1. /\ lines = [h \in Hosts |-> << >>] /\ 0 \in Hosts
          /\ terminal = [h \in Hosts |-> FALSE]
          /\ (~recorder.closed) = TRUE /\ recorder.closing = 0
      BY HopsAssumption DEF Init, Hosts
    <2>2. [i \in 1 .. Len(lines[0]) |-> i] = << >>
      BY <2>1
    <2>3. Log = [h \in Hosts |-> << >>]
      BY <2>1, <2>2 DEF Log
    <2> QED
      BY <2>1, <2>3 DEF Delivery!Init, Hosts
  <1>2. ASSUME IndInv, [Next]_vars PROVE Implements
    <2>1. CASE Emit \/ CloseRecorder \/ Damage
      BY <1>2, <2>1, EmitImplements, CloseRecorderImplements, DamageImplements
    <2>2. ASSUME NEW l \in Links, SenderStep(l) PROVE Implements
      <3>1. UNCHANGED storeVars /\ recorder' = recorder
        BY <2>2 DEF SenderStep, WorkerWakes, Send, SourceGap, CaughtUp, FlushLocks
      <3> QED
        BY <3>1, StayIsStutter
    <2>3. ASSUME NEW l \in Links,
                 \/ CallFails(l) \/ FlushBegins(l) \/ FlushTimesOut(l)
                 \/ StopWorker(l) \/ NewSender(l)
          PROVE  Implements
      <3>1. UNCHANGED storeVars /\ recorder' = recorder
        BY <2>3 DEF CallFails, FlushBegins, FlushTimesOut, StopWorker, NewSender
      <3> QED
        BY <3>1, StayIsStutter
    <2>4. ASSUME NEW l \in Links, NEW c \in Slots, SinkAppend(l, c)
          PROVE  Implements
      BY <1>2, <2>4, SinkAppendImplements
    <2>5. ASSUME NEW l \in Links, NEW c \in Slots,
                 \/ SinkReceive(l, c) \/ SinkOutcome(l, c)
                 \/ SinkRefuses(l, c) \/ SinkProducerCap(l, c)
          PROVE  Implements
      <3>1. UNCHANGED storeVars /\ recorder' = recorder
        BY <2>5 DEF SinkReceive, SinkOutcome, SinkRefuses, SinkProducerCap
      <3> QED
        BY <3>1, StayIsStutter
    <2>6. CASE UNCHANGED vars
      <3>1. UNCHANGED storeVars /\ recorder' = recorder
        BY <2>6 DEF vars
      <3> QED
        BY <3>1, StayIsStutter
    <2> QED
      BY <1>2, <2>1, <2>2, <2>3, <2>4, <2>5, <2>6 DEF Next, SinkStep
  <1>3. IndInv /\ [Next]_vars => [Delivery!Next]_(Delivery!dvars)
    BY <1>2 DEF Implements
  <1> QED
    BY <1>1, <1>3, Invariance, PTL DEF Spec, ImplementsDelivery, Delivery!Spec
=============================================================================
