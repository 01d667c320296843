-------------------------- MODULE PortForwardProof ---------------------------
(***************************************************************************)
(* Proofs about PortForward for every number of connections and every set  *)
(* of tokens.                                                              *)
(*                                                                         *)
(* The counter alone does not tell why a timeout finds nobody: that takes  *)
(* the link between the counter's timer and the goroutines (TimerInv), the *)
(* room left for timers (RoomInv) and what a dispatched timeout fixes      *)
(* (FireInv).                                                              *)
(***************************************************************************)
EXTENDS PortForward, TLAPS

\* There is room for the timer of every Dec still to come.
RoomInv ==
  /\ arms + open + leaving <= accepted + 1
  /\ loop = "add" => arms + open + leaving <= accepted
  /\ loop = "start" => arms + open + leaving <= accepted

\* The counter's timer is the last one armed, and only an idle counter has it.
TimerInv ==
  /\ counter.timer = Nil <=> counter.timerToken = Nil
  /\ counter.timer # Nil =>
       /\ counter.timer + 1 = arms
       /\ timers[counter.timer].token = counter.timerToken
       /\ counter.connections = 0
       /\ ~counter.closed /\ ~counter.timingOut /\ counter.timeout
       /\ cause = "none" =>
            timers[counter.timer].state \in {"armed", "fired"}
  /\ \A k \in Timers :
       IF k < arms THEN timers[k].token # Nil ELSE timers[k].state = "none"

\* A dispatched timeout is the only one and nothing is relayed any more.
FireInv ==
  /\ firedBy # {} \/ pending > 0 \/ cause = "idle"
     \/ result = "ErrIdleTimeout" => counter.timingOut
  /\ counter.timingOut => open = 0 /\ leaving = 0
  /\ TimeoutOnce

IndInv ==
  /\ TypeOK
  /\ CountIsExact
  /\ RoomInv
  /\ TimerInv
  /\ IdleHasTimer
  /\ FireInv
  /\ DistinctTokensStayIdle

\* newConnectionCounter arms an idle counter's first timer: IndInv holds
\* initially.
LEMMA InitInd == Init => IndInv
<1> SUFFICES ASSUME Init PROVE IndInv
  OBVIOUS
<1>1. PICK on \in BOOLEAN :
        counter = [connections |-> 0, timer |-> Nil, timerToken |-> Nil,
                   closed |-> FALSE, timingOut |-> FALSE, timeout |-> on]
  BY DEF Init
<1>2. TypeOK
  <2>1. counter \in Counter
    BY <1>1 DEF Counter
  <2> QED BY <2>1, ConnsAssumption DEF Init, TypeOK
<1>3. CountIsExact /\ RoomInv /\ FireInv
  BY <1>1 DEF Init, CountIsExact, RoomInv, FireInv, TimeoutOnce
<1>4. TimerInv
  BY <1>1 DEF Init, TimerInv, Timers
<1>5. IdleHasTimer /\ DistinctTokensStayIdle
  BY DEF Init, IdleHasTimer, DistinctTokensStayIdle, TokensDistinct, StayedIdle, Timers
<1> QED BY <1>2, <1>3, <1>4, <1>5 DEF IndInv

\* What armTimeoutLocked does to a counter that fulfils its part of IndInv,
\* whichever token it gets: the new timer is armed and becomes the counter's.
LEMMA ArmKeeps ==
  ASSUME NEW c, c \in Counter, TypeOK, TimerInv, DistinctTokensStayIdle,
         arms <= MaxConns \/ ~CanArm(c),
         c.timer = counter.timer, c.timerToken = counter.timerToken,
         c.closed = counter.closed, c.timingOut = counter.timingOut,
         c.timeout = counter.timeout,
         c.connections # 0 => c.timer = Nil,
         firedBy # {} => c.timingOut,
         ArmTimeout(c), UNCHANGED <<cause, firedBy>>
  PROVE  /\ counter' \in Counter
         /\ timers' \in [Timers -> [state : {"none", "armed", "fired", "over"},
                                    token : Tokens \cup {Nil}]]
         /\ arms' \in 0 .. MaxConns + 1
         /\ arms' \in {arms, arms + 1}
         /\ counter'.connections = c.connections
         /\ counter'.closed = c.closed
         /\ counter'.timingOut = c.timingOut
         /\ counter'.timeout = c.timeout
         /\ TimerInv'
         /\ DistinctTokensStayIdle'
         /\ CanArm(c) => counter'.timer # Nil
<1>1. CASE ~CanArm(c)
  <2>1. counter' = c /\ timers' = timers /\ arms' = arms
    BY <1>1 DEF ArmTimeout
  <2>2. TimerInv'
    BY <2>1 DEF TimerInv, Counter
  <2>3. DistinctTokensStayIdle'
    BY <2>1 DEF DistinctTokensStayIdle, TokensDistinct, StayedIdle
  <2> QED BY <1>1, <2>1, <2>2, <2>3 DEF TypeOK
<1>2. CASE CanArm(c)
  <2>1. PICK tok \in Tokens :
          /\ counter' = [c EXCEPT !.timer = arms, !.timerToken = tok]
          /\ timers' = [StopTimer(c) EXCEPT
                          ![arms] = [state |-> "armed", token |-> tok]]
          /\ arms' = arms + 1
    BY <1>2 DEF ArmTimeout
  <2>2. arms \in Timers /\ arms \in Nat
    BY <1>2, ConnsAssumption DEF TypeOK, Timers
  <2>3. counter' \in Counter /\ arms' \in 0 .. MaxConns + 1
    <3>1. counter' \in Counter
      BY <2>1, <2>2 DEF Counter
    <3> QED BY <3>1, <2>1, <2>2, ConnsAssumption DEF Timers
  <2>4. /\ StopTimer(c) \in [Timers -> [state : {"none", "armed", "fired", "over"},
                                        token : Tokens \cup {Nil}]]
        /\ \A k \in Timers : StopTimer(c)[k].token = timers[k].token
        /\ \A k \in Timers : k >= arms => StopTimer(c)[k] = timers[k]
    <3>1. CASE c.timer # Nil /\ timers[c.timer].state = "armed"
      <4>1. c.timer \in Timers /\ c.timer + 1 = arms
        BY <3>1 DEF TimerInv, Counter
      <4> QED BY <3>1, <4>1, <2>2 DEF StopTimer, TypeOK, Timers
    <3>2. CASE ~(c.timer # Nil /\ timers[c.timer].state = "armed")
      BY <3>2 DEF StopTimer, TypeOK
    <3> QED BY <3>1, <3>2
  <2>5. /\ timers' \in [Timers -> [state : {"none", "armed", "fired", "over"},
                                   token : Tokens \cup {Nil}]]
        /\ timers'[arms] = [state |-> "armed", token |-> tok]
        /\ \A k \in Timers : k # arms => timers'[k] = StopTimer(c)[k]
    BY <2>1, <2>2, <2>4
  <2>6. /\ counter'.timer = arms
        /\ counter'.timerToken = tok
        /\ counter'.connections = c.connections
        /\ counter'.closed = c.closed
        /\ counter'.timingOut = c.timingOut
        /\ counter'.timeout = c.timeout
    BY <2>1 DEF Counter
  <2>7. arms # Nil /\ tok # Nil
    BY <2>2, NilAssumption
  <2>8. TimerInv'
    <3>1. \A k \in Timers :
            IF k < arms' THEN timers'[k].token # Nil
                         ELSE timers'[k].state = "none"
      <4> SUFFICES ASSUME NEW k \in Timers
                   PROVE  IF k < arms' THEN timers'[k].token # Nil
                                       ELSE timers'[k].state = "none"
        OBVIOUS
      <4>1. CASE k = arms
        BY <4>1, <2>1, <2>2, <2>5, <2>7
      <4>2. CASE k < arms
        BY <4>2, <2>1, <2>2, <2>4, <2>5 DEF TimerInv, Timers
      <4>3. CASE k > arms
        BY <4>3, <2>1, <2>2, <2>4, <2>5 DEF TimerInv, Timers
      <4> QED BY <4>1, <4>2, <4>3, <2>2 DEF Timers
    <3>2. c.connections = 0 /\ ~c.closed /\ ~c.timingOut /\ c.timeout
      BY <1>2 DEF CanArm
    <3> QED BY <3>1, <3>2, <2>1, <2>5, <2>6, <2>7 DEF TimerInv
  <2>9. DistinctTokensStayIdle'
    BY <1>2, <2>1 DEF CanArm, DistinctTokensStayIdle, TokensDistinct, StayedIdle
  <2> QED BY <2>1, <2>3, <2>5, <2>6, <2>7, <2>8, <2>9
<1> QED BY <1>1, <1>2

\* timer.Stop keeps every token and every timer but the counter's own.
LEMMA StopKeeps ==
  ASSUME TypeOK, TimerInv, DistinctTokensStayIdle, timers' = StopTimer(counter),
         arms' = arms, firedBy' = firedBy,
         counter'.timer = Nil, counter'.timerToken = Nil
  PROVE  /\ timers' \in [Timers -> [state : {"none", "armed", "fired", "over"},
                                    token : Tokens \cup {Nil}]]
         /\ TimerInv'
         /\ DistinctTokensStayIdle'
<1>1. CASE counter.timer # Nil /\ timers[counter.timer].state = "armed"
  <2>1. counter.timer \in Timers /\ counter.timer + 1 = arms
    BY <1>1 DEF TimerInv, TypeOK, Counter
  <2>2. timers' = [timers EXCEPT ![counter.timer].state = "over"]
    BY <1>1 DEF StopTimer
  <2>3. /\ timers' \in [Timers -> [state : {"none", "armed", "fired", "over"},
                                   token : Tokens \cup {Nil}]]
        /\ \A k \in Timers : timers'[k].token = timers[k].token
        /\ \A k \in Timers : k # counter.timer => timers'[k] = timers[k]
    BY <2>1, <2>2 DEF TypeOK
  <2>4. counter.timer < arms
    BY <2>1 DEF Timers
  <2> QED BY <2>3, <2>4 DEF TimerInv, DistinctTokensStayIdle, TokensDistinct, StayedIdle
<1>2. CASE ~(counter.timer # Nil /\ timers[counter.timer].state = "armed")
  <2>1. timers' = timers
    BY <1>2 DEF StopTimer
  <2> QED BY <2>1 DEF TypeOK, TimerInv, DistinctTokensStayIdle, TokensDistinct, StayedIdle
<1> QED BY <1>1, <1>2

-----------------------------------------------------------------------------
(* Every step keeps IndInv.                                                *)

\* One more timer uses up the room of one goroutine.
LEMMA RoomArithmetic ==
  ASSUME NEW a \in Nat, NEW b \in Nat, NEW o \in Nat, NEW l \in Nat,
         NEW m \in Nat, NEW n \in Nat, b <= a + 1
  PROVE  /\ a + o + l <= n => b + o + l <= n + 1
         /\ l = m + 1 => b + o + m <= a + o + l
         /\ b + o + m \in Nat
OBVIOUS

\* newConnectionCounter and every Dec arm a timer while there is room for it.
LEMMA ArmingSteps ==
  ASSUME IndInv, NewConnectionCounter \/ Dec
  PROVE  IndInv'
<1> USE DEF IndInv
<1>1. CASE NewConnectionCounter
  <2>1. ArmTimeout(counter) /\ loop' = "accept"
        /\ UNCHANGED <<listening, cause, result, accepted, open, leaving,
                       pending, firedBy>>
    BY <1>1 DEF NewConnectionCounter
  <2>2. arms + open + leaving <= accepted
    BY <1>1 DEF NewConnectionCounter, RoomInv
  <2>3. arms <= MaxConns
    BY <2>2, ConnsAssumption DEF TypeOK
  <2>4. /\ counter \in Counter
        /\ counter.connections # 0 => counter.timer = Nil
        /\ firedBy # {} => counter.timingOut
    BY DEF TypeOK, TimerInv, FireInv
  <2>5. /\ counter' \in Counter
        /\ timers' \in [Timers -> [state : {"none", "armed", "fired", "over"},
                                   token : Tokens \cup {Nil}]]
        /\ arms' \in 0 .. MaxConns + 1
        /\ arms' \in {arms, arms + 1}
        /\ counter'.connections = counter.connections
        /\ counter'.closed = counter.closed
        /\ counter'.timingOut = counter.timingOut
        /\ counter'.timeout = counter.timeout
        /\ TimerInv'
        /\ DistinctTokensStayIdle'
        /\ CanArm(counter) => counter'.timer # Nil
    BY <2>1, <2>3, <2>4, ArmKeeps
  <2>6. TypeOK'
    BY <2>1, <2>5 DEF TypeOK
  <2>7. CountIsExact'
    BY <2>1, <2>5 DEF CountIsExact
  <2>8. RoomInv'
    <3>1. arms \in Nat /\ open \in Nat /\ leaving \in Nat /\ accepted \in Nat
      BY ConnsAssumption DEF TypeOK
    <3>2. arms' \in Nat /\ arms' <= arms + 1
      BY <2>5, <3>1
    <3>3. arms' + open + leaving <= accepted + 1
      BY <2>2, <3>1, <3>2, RoomArithmetic
    <3> QED BY <2>1, <3>3 DEF RoomInv
  <2>9. IdleHasTimer'
    BY <2>1, <2>5 DEF IdleHasTimer, CanArm, TimerInv
  <2>10. FireInv'
    BY <2>1, <2>5 DEF FireInv, TimeoutOnce
  <2> QED BY <2>5, <2>6, <2>7, <2>8, <2>9, <2>10
<1>2. CASE Dec /\ counter.closed
  <2>1. /\ leaving > 0 /\ leaving' = leaving - 1
        /\ UNCHANGED <<counter, timers, arms, loop, listening, cause, result,
                       accepted, open, pending, firedBy>>
    BY <1>2 DEF Dec
  <2>2. TypeOK'
    BY <2>1 DEF TypeOK
  <2>3. CountIsExact' /\ RoomInv'
    BY <1>2, <2>1 DEF CountIsExact, RoomInv, TypeOK
  <2>4. TimerInv' /\ IdleHasTimer' /\ DistinctTokensStayIdle'
    BY <2>1 DEF TimerInv, IdleHasTimer, CanArm, DistinctTokensStayIdle, TokensDistinct, StayedIdle
  <2>5. FireInv'
    BY <2>1 DEF FireInv, TimeoutOnce, TypeOK
  <2> QED BY <2>2, <2>3, <2>4, <2>5
<1>3. CASE Dec /\ ~counter.closed
  <2> DEFINE c == [counter EXCEPT !.connections =
                     IF @ <= 0 THEN 0 ELSE @ - 1]
  <2>1. /\ ArmTimeout(c)
        /\ leaving > 0 /\ leaving' = leaving - 1
        /\ UNCHANGED <<loop, listening, cause, result, accepted, open,
                       pending, firedBy>>
    BY <1>3 DEF Dec
  <2>2. counter \in Counter /\ counter.connections = open + leaving
        /\ open \in Nat /\ leaving \in Nat
    BY <1>3 DEF TypeOK, CountIsExact
  <2>3. /\ c \in Counter
        /\ c.connections = open + leaving - 1
        /\ c.timer = counter.timer /\ c.timerToken = counter.timerToken
        /\ c.closed = counter.closed /\ c.timingOut = counter.timingOut
        /\ c.timeout = counter.timeout
    BY <2>1, <2>2 DEF Counter
  <2>4. arms + open + leaving - 1 <= accepted /\ arms <= MaxConns
    BY <2>1, <2>2, ConnsAssumption DEF TypeOK, RoomInv
  <2>5. counter.timer = Nil
    BY <2>1, <2>2 DEF TimerInv
  <2>6. firedBy # {} => c.timingOut
    BY <2>3 DEF FireInv
  <2> HIDE DEF c
  <2>7. /\ counter' \in Counter
        /\ timers' \in [Timers -> [state : {"none", "armed", "fired", "over"},
                                   token : Tokens \cup {Nil}]]
        /\ arms' \in 0 .. MaxConns + 1
        /\ arms' \in {arms, arms + 1}
        /\ counter'.connections = c.connections
        /\ counter'.closed = c.closed
        /\ counter'.timingOut = c.timingOut
        /\ counter'.timeout = c.timeout
        /\ TimerInv'
        /\ DistinctTokensStayIdle'
        /\ CanArm(c) => counter'.timer # Nil
    BY <2>1, <2>3, <2>4, <2>5, <2>6, ArmKeeps
  <2>8. TypeOK'
    BY <2>1, <2>2, <2>7 DEF TypeOK
  <2>9. CountIsExact'
    BY <2>1, <2>2, <2>3, <2>7 DEF CountIsExact
  <2>10. RoomInv'
    <3>1. arms \in Nat /\ accepted \in Nat
      BY ConnsAssumption DEF TypeOK
    <3>2. arms' \in Nat /\ arms' <= arms + 1
      BY <2>7, <3>1
    <3>3. leaving' \in Nat /\ leaving = leaving' + 1
      BY <2>1, <2>2
    <3>4. /\ arms + open + leaving <= accepted
               => arms' + open + leaving' <= accepted
          /\ arms + open + leaving <= accepted + 1
               => arms' + open + leaving' <= accepted + 1
      <4>1. open \in Nat /\ leaving \in Nat
        BY <2>2
      <4>2. arms' + open + leaving' <= arms + open + leaving
        BY <3>1, <3>2, <3>3, <4>1, RoomArithmetic
      <4>3. arms' + open + leaving' \in Nat
        BY <3>1, <3>2, <3>3, <4>1, RoomArithmetic
      <4>4. arms + open + leaving \in Nat
        BY <3>1, <4>1
      <4> QED BY <3>1, <4>2, <4>3, <4>4
    <3> QED BY <2>1, <3>4 DEF RoomInv
  <2>11. IdleHasTimer'
    BY <2>1, <2>7 DEF IdleHasTimer, CanArm, TimerInv
  <2>12. FireInv'
    BY <2>1, <2>2, <2>3, <2>7 DEF FireInv, TimeoutOnce
  <2> QED BY <2>7, <2>8, <2>9, <2>10, <2>11, <2>12
<1> QED BY <1>1, <1>2, <1>3

\* Add admits nothing once a timeout is dispatched; Close ends the counter.
LEMMA StoppingSteps ==
  ASSUME IndInv, Add \/ Close
  PROVE  IndInv'
<1> USE DEF IndInv
<1>1. CASE Add /\ (counter.closed \/ counter.timingOut)
  <2>1. /\ loop = "add" /\ loop' = "accept"
        /\ UNCHANGED <<counter, timers, open, arms, listening, cause, result,
                       accepted, leaving, pending, firedBy>>
    BY <1>1 DEF Add
  <2>2. TypeOK' /\ CountIsExact' /\ RoomInv'
    BY <2>1 DEF TypeOK, CountIsExact, RoomInv
  <2>3. TimerInv' /\ IdleHasTimer'
    BY <1>1, <2>1 DEF TimerInv, IdleHasTimer, CanArm
  <2>4. DistinctTokensStayIdle' /\ FireInv'
    BY <2>1 DEF DistinctTokensStayIdle, TokensDistinct, StayedIdle, FireInv, TimeoutOnce
  <2> QED BY <2>2, <2>3, <2>4
<1>2. CASE Add /\ ~(counter.closed \/ counter.timingOut)
  <2>1. /\ loop = "add" /\ loop' = "accept" /\ open' = open + 1
        /\ counter' = [counter EXCEPT !.connections = @ + 1,
                                      !.timer = Nil, !.timerToken = Nil]
        /\ timers' = StopTimer(counter)
        /\ UNCHANGED <<arms, listening, cause, result, accepted, leaving,
                       pending, firedBy>>
    BY <1>2 DEF Add
  <2>2. /\ counter' \in Counter
        /\ counter'.timer = Nil /\ counter'.timerToken = Nil
        /\ counter'.connections = counter.connections + 1
        /\ counter'.closed = counter.closed
        /\ counter'.timingOut = counter.timingOut
    <3>1. counter \in Counter
      BY DEF TypeOK
    <3>2. counter.connections + 1 \in Nat
      BY <3>1 DEF Counter
    <3> QED BY <2>1, <3>1, <3>2 DEF Counter
  <2>3. /\ timers' \in [Timers -> [state : {"none", "armed", "fired", "over"},
                                   token : Tokens \cup {Nil}]]
        /\ TimerInv' /\ DistinctTokensStayIdle'
    BY <2>1, <2>2, StopKeeps
  <2>4. TypeOK'
    BY <2>1, <2>2, <2>3 DEF TypeOK
  <2>5. CountIsExact' /\ RoomInv'
    BY <1>2, <2>1, <2>2 DEF CountIsExact, RoomInv, TypeOK
  <2>6. IdleHasTimer'
    BY <2>2 DEF IdleHasTimer, CanArm, TypeOK, Counter
  <2>7. FireInv'
    BY <1>2, <2>1, <2>2 DEF FireInv, TimeoutOnce
  <2> QED BY <2>3, <2>4, <2>5, <2>6, <2>7
<1>3. CASE Close
  <2>1. /\ loop = "closing" /\ loop' = "cancel"
        /\ counter' = [counter EXCEPT !.closed = TRUE, !.timer = Nil,
                                      !.timerToken = Nil]
        /\ timers' = StopTimer(counter)
        /\ UNCHANGED <<arms, listening, cause, result, accepted, open, leaving,
                       pending, firedBy>>
    BY <1>3 DEF Close
  <2>2. /\ counter' \in Counter
        /\ counter'.timer = Nil /\ counter'.timerToken = Nil
        /\ counter'.closed
        /\ counter'.timingOut = counter.timingOut
    BY <2>1 DEF TypeOK, Counter
  <2>3. /\ timers' \in [Timers -> [state : {"none", "armed", "fired", "over"},
                                   token : Tokens \cup {Nil}]]
        /\ TimerInv' /\ DistinctTokensStayIdle'
    BY <2>1, <2>2, StopKeeps
  <2>4. TypeOK'
    BY <2>1, <2>2, <2>3 DEF TypeOK
  <2>5. CountIsExact' /\ RoomInv' /\ IdleHasTimer'
    BY <2>1, <2>2 DEF CountIsExact, RoomInv, IdleHasTimer, CanArm
  <2>6. FireInv'
    BY <2>1, <2>2 DEF FireInv, TimeoutOnce
  <2> QED BY <2>3, <2>4, <2>5, <2>6
<1> QED BY <1>1, <1>2, <1>3

\* An expiring timer stays the counter's timer; the goroutine of a timer that
\* was stopped too late finds another token or an idle counter.
LEMMA TimerSteps ==
  ASSUME IndInv, NEW k \in Timers, TimerExpires(k) \/ HandleTimeout(k)
  PROVE  IndInv'
<1> USE DEF IndInv
<1>1. timers[k].state \in {"armed", "fired"}
  BY DEF TimerExpires, HandleTimeout
<1>2. k < arms /\ timers[k].token # Nil
  BY <1>1 DEF TimerInv
<1>3. /\ \E s \in {"fired", "over"} :
           timers' = [timers EXCEPT ![k].state = s]
      /\ UNCHANGED <<arms, loop, listening, cause, result, accepted, open,
                     leaving>>
  BY DEF TimerExpires, HandleTimeout
<1>4. /\ timers' \in [Timers -> [state : {"none", "armed", "fired", "over"},
                                 token : Tokens \cup {Nil}]]
      /\ \A j \in Timers : timers'[j].token = timers[j].token
      /\ \A j \in Timers : j # k => timers'[j] = timers[j]
  BY <1>3 DEF TypeOK
<1>5. \A j \in Timers :
        IF j < arms' THEN timers'[j].token # Nil ELSE timers'[j].state = "none"
  BY <1>2, <1>3, <1>4 DEF TimerInv
<1>6. RoomInv'
  BY <1>3 DEF RoomInv
<1>7. CASE /\ TimerExpires(k) \/ counter.timerToken # timers[k].token
           /\ UNCHANGED <<counter, pending, firedBy>>
  <2>1. TypeOK' /\ CountIsExact' /\ FireInv'
    BY <1>3, <1>4, <1>7 DEF TypeOK, CountIsExact, FireInv, TimeoutOnce
  <2>2. counter.timer \in Timers \cup {Nil}
    BY DEF TypeOK, Counter
  <2>3. counter.timer # Nil /\ timers[counter.timer].state \in {"armed", "fired"}
          => timers'[counter.timer].state \in {"armed", "fired"}
    <3>1. CASE counter.timer # k
      BY <1>4, <2>2, <3>1
    <3>2. CASE counter.timer = k
      <4>1. TimerExpires(k)
        BY <1>7, <3>2, <1>2, NilAssumption DEF TimerInv
      <4> QED BY <4>1, <3>2 DEF TimerExpires, TypeOK
    <3> QED BY <3>1, <3>2
  <2>4. TimerInv'
    BY <1>3, <1>4, <1>5, <1>7, <2>2, <2>3 DEF TimerInv
  <2>5. IdleHasTimer'
    BY <1>3, <1>4, <1>7, <2>2, <2>3 DEF IdleHasTimer, CanArm
  <2>6. DistinctTokensStayIdle'
    BY <1>3, <1>4, <1>7 DEF DistinctTokensStayIdle, TokensDistinct, StayedIdle
  <2> QED BY <1>6, <2>1, <2>4, <2>5, <2>6
<1>8. CASE /\ ~CanArm(counter)
           /\ UNCHANGED <<counter, pending, firedBy>>
  <2>1. TypeOK' /\ CountIsExact' /\ FireInv'
    BY <1>3, <1>4, <1>8 DEF TypeOK, CountIsExact, FireInv, TimeoutOnce
  <2>2. counter.timer \in Timers \cup {Nil}
    BY DEF TypeOK, Counter
  <2>3. counter.timer # Nil => cause # "none"
    BY <1>8 DEF CanArm, TimerInv
  <2>4. TimerInv'
    BY <1>3, <1>4, <1>5, <1>8, <2>2, <2>3 DEF TimerInv
  <2>5. IdleHasTimer'
    BY <1>3, <1>8 DEF IdleHasTimer, CanArm
  <2>6. DistinctTokensStayIdle'
    BY <1>3, <1>4, <1>8 DEF DistinctTokensStayIdle, TokensDistinct, StayedIdle
  <2> QED BY <1>6, <2>1, <2>4, <2>5, <2>6
<1>9. CASE /\ HandleTimeout(k)
           /\ counter.timerToken = timers[k].token /\ CanArm(counter)
  <2>1. /\ counter' = [counter EXCEPT !.timingOut = TRUE, !.timer = Nil,
                                      !.timerToken = Nil]
        /\ pending' = pending + 1
        /\ firedBy' = firedBy \cup {k}
    BY <1>9 DEF HandleTimeout, Dispatch
  <2>2. /\ counter' \in Counter
        /\ counter'.timer = Nil /\ counter'.timerToken = Nil
        /\ counter'.timingOut
        /\ counter'.connections = counter.connections
        /\ counter'.closed = counter.closed
    BY <2>1 DEF TypeOK, Counter
  <2>3. firedBy = {} /\ firedBy' = {k}
    BY <1>9, <2>1 DEF CanArm, FireInv
  <2>4. open = 0 /\ leaving = 0
    BY <1>9 DEF CanArm, CountIsExact, TypeOK
  <2>5. TypeOK' /\ CountIsExact'
    BY <1>3, <1>4, <2>1, <2>2, <2>3 DEF TypeOK, CountIsExact
  <2>6. TimerInv' /\ IdleHasTimer'
    BY <1>5, <2>2 DEF TimerInv, IdleHasTimer, CanArm
  <2>7. FireInv'
    BY <1>3, <2>2, <2>3, <2>4 DEF FireInv, TimeoutOnce
  <2>8. DistinctTokensStayIdle'
    <3> SUFFICES ASSUME TokensDistinct'
                 PROVE  StayedIdle'
      BY DEF DistinctTokensStayIdle
    <3>1. /\ counter.timer \in Timers
          /\ counter.timer + 1 = arms
          /\ timers[counter.timer].token = timers[k].token
      BY <1>2, <1>9 DEF TimerInv, TypeOK, Counter
    <3>2. counter.timer = k
      BY <1>2, <1>3, <1>4, <3>1 DEF TokensDistinct, Timers
    <3> QED BY <1>3, <2>3, <3>1, <3>2 DEF StayedIdle
  <2> QED BY <1>6, <2>5, <2>6, <2>7, <2>8
<1> QED BY <1>7, <1>8, <1>9 DEF TimerExpires, HandleTimeout

\* The steps of portForwarding itself leave the counter alone.
LEMMA LoopSteps ==
  ASSUME IndInv,
         \/ Accept \/ AcceptFails \/ Finish \/ ForwardEnds \/ OnTimeout
         \/ CloseListener \/ \E why \in {"transport", "parent"} : ContextEnds(why)
  PROVE  IndInv'
<1> USE DEF IndInv
<1>1. UNCHANGED <<counter, timers, arms, firedBy>>
  BY DEF Accept, AcceptFails, Finish, ForwardEnds, OnTimeout, CloseListener,
         ContextEnds
<1>2. /\ cause' = "none" => cause = "none"
      /\ loop = "start" <=> loop' = "start"
  BY DEF Accept, AcceptFails, Finish, ForwardEnds, OnTimeout, CloseListener,
         ContextEnds
<1>3. TimerInv' /\ IdleHasTimer' /\ DistinctTokensStayIdle'
  BY <1>1, <1>2 DEF TimerInv, IdleHasTimer, CanArm, DistinctTokensStayIdle, TokensDistinct, StayedIdle
<1>4. TypeOK'
  <2>1. accepted' \in 0 .. MaxConns
    BY ConnsAssumption
       DEF TypeOK, Accept, AcceptFails, Finish, ForwardEnds, OnTimeout,
           CloseListener, ContextEnds
  <2>2. open' \in Nat /\ leaving' \in Nat /\ pending' \in Nat
    BY DEF TypeOK, Accept, AcceptFails, Finish, ForwardEnds, OnTimeout,
           CloseListener, ContextEnds
  <2>3. /\ loop' \in {"start", "accept", "add", "closing", "cancel", "returned"}
        /\ listening' \in BOOLEAN
        /\ cause' \in {"none", "idle", "transport", "parent", "returned"}
        /\ result' \in {"none", "ErrIdleTimeout", "ErrTransportClosed", "err"}
    BY DEF TypeOK, Accept, AcceptFails, Finish, ForwardEnds, OnTimeout,
           CloseListener, ContextEnds
  <2> QED BY <1>1, <2>1, <2>2, <2>3 DEF TypeOK
<1>5. CountIsExact' /\ RoomInv'
  BY <1>1, ConnsAssumption
     DEF CountIsExact, RoomInv, TypeOK, Accept, AcceptFails, Finish,
         ForwardEnds, OnTimeout, CloseListener, ContextEnds
<1>6. FireInv'
  BY <1>1
     DEF FireInv, TimeoutOnce, TypeOK, Accept, AcceptFails, Finish,
         ForwardEnds, OnTimeout, CloseListener, ContextEnds
<1> QED BY <1>3, <1>4, <1>5, <1>6

\* A stuttering step changes nothing IndInv speaks of.
LEMMA Stutter == IndInv /\ UNCHANGED vars => IndInv'
BY DEF vars, IndInv, TypeOK, CountIsExact, RoomInv, TimerInv, IdleHasTimer,
       CanArm, FireInv, TimeoutOnce, DistinctTokensStayIdle, TokensDistinct, StayedIdle

\* IndInv is an invariant of the forward.
THEOREM Invariance == Spec => []IndInv
<1>1. IndInv /\ [Next]_vars => IndInv'
  BY ArmingSteps, StoppingSteps, TimerSteps, LoopSteps, Stutter DEF Next
<1> QED BY <1>1, InitInd, PTL DEF Spec

\* Every variable keeps its type, the number of timers included.
THEOREM TypeCorrect == Spec => []TypeOK
<1>1. IndInv => TypeOK
  BY DEF IndInv
<1> QED BY <1>1, Invariance, PTL

\* The counter counts the goroutines that will call Dec, until it is closed.
THEOREM CountStaysExact == Spec => []CountIsExact
<1>1. IndInv => CountIsExact
  BY DEF IndInv
<1> QED BY <1>1, Invariance, PTL

\* An idle timeout, from handleTimeout's decision to the return of
\* ErrIdleTimeout, cuts no relayed connection.
THEOREM IdleTimeoutCutsNothing == Spec => []IdleCutsNothing
<1>1. IndInv => IdleCutsNothing
  BY DEF IndInv, FireInv, IdleCutsNothing
<1> QED BY <1>1, Invariance, PTL

\* handleTimeout dispatches onTimeout at most once.
THEOREM OneTimeout == Spec => []TimeoutOnce
<1>1. IndInv => TimeoutOnce
  BY DEF IndInv, FireInv
<1> QED BY <1>1, Invariance, PTL

\* An idle forward that may time out never lacks a timer that will do so.
THEOREM NoLostTimer == Spec => []IdleHasTimer
<1>1. IndInv => IdleHasTimer
  BY DEF IndInv
<1> QED BY <1>1, Invariance, PTL

\* While the tokens of a forward are distinct, only the timer of the current
\* idle period can stop it.
THEOREM StaleTimerIsHarmless == Spec => []DistinctTokensStayIdle
<1>1. IndInv => DistinctTokensStayIdle
  BY DEF IndInv
<1> QED BY <1>1, Invariance, PTL

=============================================================================
