--------------------------- MODULE ProcessorProofs ---------------------------
(***************************************************************************)
(* What holds of Pit::Sleep and of the APIC timer's calibration for every   *)
(* count, span and frequency.                                              *)
(***************************************************************************)
EXTENDS Processor, TLAPS

\* The inductive invariant.  Between StartTimerArm and StartTimerStart the timer is masked,
\* and what it has lost is at least what passed in the poll.
Calibrating == pc \in {"prepare", "arm", "mask", "start"} \/ (pc \in Sleeping /\ then = "mask")
MaskedMeanwhile == Calibrating => apic.timer = "masked"
TicksLost == apic.current + during <= TimerMax

\* As long as nobody else programs counter 2, Sleep's two bytes are its count, and every
\* tick it has lost since has been counted.
Programmed ==
  configured =>
    /\ counter.mode = 0
    /\ counter.half <=> pc = "high"
    /\ pc = "high" => counter.low = divisor % 256 /\ ~counter.counting /\ ~counter.out
    /\ pc \in {"gateOff", "gateOn", "poll"} =>
         /\ counter.count + counted >= Count
         /\ counter.out => counter.count = 0

\* The quotient of PrepareSleep, for every span.
SmallDivisor == divisor \in 0..1

IInv ==
  /\ TypeOK
  /\ SmallDivisor
  /\ MaskedMeanwhile
  /\ TicksLost
  /\ Calibrated
  /\ Programmed

-----------------------------------------------------------------------------
(* Numbers: what PrepareSleep divides, and the two bytes of a count.       *)

LEMMA QuotientIsSmall ==
  ASSUME NEW s \in Nat \ {0}
  PROVE  (PIT_FREQ \div 1000000) \div s \in 0..1
BY DEF PIT_FREQ

\* The two bytes of 0 and of 1.
LEMMA TwoBytes ==
  /\ 0 % 256 = 0 /\ 1 % 256 = 1
  /\ (0 \div 256) % 256 = 0 /\ (1 \div 256) % 256 = 0
OBVIOUS

LEMMA TenthIsTyped ==
  ASSUME NEW n \in 0..TimerMax
  PROVE  Tenth(n) \in 0..(TimerMax \div 10)
BY ProcessorAssumption DEF Tenth

LEMMA TenthIsMonotone ==
  ASSUME NEW m \in Nat, NEW n \in Nat, m <= n
  PROVE  m \div 10 <= Tenth(n)
BY DEF Tenth

-----------------------------------------------------------------------------
(* Counter 2.                                                              *)

LEMMA SentTyped ==
  ASSUME NEW c \in Counters, NEW b \in 0..255
  PROVE  Sent(c, b) \in Counters
<1> DEFINE n == IF b * 256 + c.low = 0 THEN FullCount ELSE b * 256 + c.low
<1>1. n \in Nat
  <2>1. c.low \in 0..255
    BY DEF Counters
  <2> QED BY <2>1, ProcessorAssumption
<1>2. Sent(c, b) = IF ~c.half
                   THEN [c EXCEPT !.half = TRUE, !.low = b, !.counting = FALSE, !.out = FALSE]
                   ELSE [c EXCEPT !.half = FALSE, !.counting = TRUE, !.count = n]
  BY DEF Sent
<1> HIDE DEF n
<1>3. CASE ~c.half
  <2>1. [c EXCEPT !.half = TRUE, !.low = b, !.counting = FALSE, !.out = FALSE] \in Counters
    BY DEF Counters
  <2> QED BY <1>2, <1>3, <2>1
<1>4. CASE c.half
  <2>1. [c EXCEPT !.half = FALSE, !.counting = TRUE, !.count = n] \in Counters
    BY <1>1 DEF Counters
  <2> QED BY <1>2, <1>4, <2>1
<1> QED BY <1>3, <1>4

LEMMA CommandedTyped ==
  ASSUME NEW c \in Counters, NEW mode \in Modes \cup {0}
  PROVE  Commanded(c, mode) \in Counters /\ ~Commanded(c, mode).half
         /\ Commanded(c, mode).mode = mode
BY DEF Commanded, Counters

LEMMA FirstByte ==
  ASSUME NEW c \in Counters, ~c.half, NEW b \in 0..255
  PROVE  LET s == Sent(c, b)
         IN  s.mode = c.mode /\ s.half /\ s.low = b /\ ~s.counting /\ ~s.out
BY DEF Sent, Counters

\* The high byte is 0.
LEMMA SecondByte ==
  ASSUME NEW c \in Counters, c.half
  PROVE  LET s == Sent(c, 0)
         IN  /\ s.mode = c.mode /\ ~s.half
             /\ s.count = IF c.low = 0 THEN FullCount ELSE c.low
             /\ s.out = c.out
<1>1. c.low \in Nat
  BY DEF Counters
<1>2. 0 * 256 + c.low = c.low
  BY <1>1
<1>3. Sent(c, 0) = [c EXCEPT !.half = FALSE, !.counting = TRUE,
                             !.count = IF c.low = 0 THEN FullCount ELSE c.low]
  BY <1>2 DEF Sent
<1> QED BY <1>3 DEF Counters

-----------------------------------------------------------------------------
(* Types.                                                                  *)

\* The fields of the timer, for leaves that need no records.
LEMMA ApicFields ==
  ASSUME NEW a \in Apics
  PROVE  /\ a.base \in 0..MaxWindows /\ a.timer \in {"masked", "periodic"}
         /\ a.initial \in 0..(TimerMax \div 10) /\ a.current \in 0..TimerMax
BY DEF Apics

-----------------------------------------------------------------------------
(* The calls that touch neither counter 2 nor the timer.                   *)

Quiet ==
  \/ SetTickCount \/ LocalApicPrepare \/ WriteRegister
  \/ ProcessorAdd \/ ProcessorGetNumberOfProcessors \/ ProcessorApicIdCreateMappingTable

LEMMA QuietFrame ==
  ASSUME TypeOK, Quiet
  PROVE  /\ UNCHANGED <<pc, then, divisor, counter, gate, configured, counted, during>>
         /\ ticks' \in Nat /\ stopped' \in {"no", "fault", "panic"}
         /\ \/ apic' = apic
            \/ apic.base < MaxWindows /\ apic' = [apic EXCEPT !.base = @ + 1]
<1> DEFINE Frame == UNCHANGED <<pc, then, divisor, counter, gate, configured, counted, during>>
<1>1. ticks \in Nat /\ stopped \in {"no", "fault", "panic"}
  BY DEF TypeOK, Counting, Located
<1>2. CASE SetTickCount
  <2>1. Frame /\ apic' = apic /\ stopped' = stopped
    BY <1>2 DEF SetTickCount
  <2>2. ticks' \in Nat
    BY <1>2 DEF SetTickCount
  <2> QED BY <1>1, <2>1, <2>2
<1>3. CASE LocalApicPrepare
  BY <1>1, <1>3 DEF LocalApicPrepare, pitVars
<1>4. CASE WriteRegister \/ ProcessorGetNumberOfProcessors
  BY <1>1, <1>4 DEF WriteRegister, ProcessorGetNumberOfProcessors, Fault, pitVars
<1>5. CASE ProcessorAdd
  <2>1. Frame /\ UNCHANGED <<ticks, apic, stopped>>
    BY <1>5 DEF ProcessorAdd, pitVars
  <2> QED BY <1>1, <2>1
<1>6. CASE ProcessorApicIdCreateMappingTable
  BY <1>1, <1>6 DEF ProcessorApicIdCreateMappingTable, Fault, pitVars
<1> QED BY <1>2, <1>3, <1>4, <1>5, <1>6 DEF Quiet

LEMMA QuietKeepsIInv == ASSUME IInv, Quiet PROVE IInv'
<1>1. TypeOK
  BY DEF IInv
<1>2. apic' \in Apics /\ apic'.timer = apic.timer /\ apic'.current = apic.current
      /\ apic'.initial = apic.initial
  <2>1. apic \in Apics
    BY <1>1 DEF TypeOK
  <2>2. CASE apic' = apic
    BY <2>1, <2>2
  <2>3. CASE apic.base < MaxWindows /\ apic' = [apic EXCEPT !.base = @ + 1]
    <3>1. apic.base + 1 \in 0..MaxWindows
      BY <2>1, <2>3, ApicFields, ProcessorAssumption
    <3>2. ASSUME NEW n \in 0..MaxWindows
          PROVE  LET a == [apic EXCEPT !.base = n]
                 IN  /\ a \in Apics /\ a.timer = apic.timer /\ a.current = apic.current
                     /\ a.initial = apic.initial
      BY <2>1 DEF Apics
    <3>3. apic' = [apic EXCEPT !.base = apic.base + 1]
      BY <2>3
    <3> QED BY <3>1, <3>2, <3>3
  <2> QED BY <1>1, <2>2, <2>3, QuietFrame
<1>3. TypeOK'
  <2>1. /\ UNCHANGED <<pc, then, divisor, counter, gate, configured, counted, during>>
        /\ ticks' \in Nat /\ stopped' \in {"no", "fault", "panic"}
    BY <1>1, QuietFrame
  <2>2. apic' \in Apics
    BY <1>2
  <2>3. Located'
    BY <1>1, <2>1 DEF TypeOK, Located
  <2>4. Counting'
    <3>1. Counting /\ UNCHANGED <<divisor, counted, during>> /\ ticks' \in Nat
      BY <1>1, <2>1 DEF TypeOK
    <3> QED BY <3>1 DEF Counting
  <2>5. Flags'
    BY <1>1, <2>1 DEF TypeOK, Flags
  <2> QED BY <1>1, <2>1, <2>2, <2>3, <2>4, <2>5 DEF TypeOK
<1>4. SmallDivisor' /\ MaskedMeanwhile' /\ TicksLost' /\ Calibrated'
  BY <1>2, QuietFrame DEF IInv, SmallDivisor, MaskedMeanwhile, Calibrating, TicksLost, Calibrated
<1>5. Programmed'
  BY QuietFrame DEF IInv, Programmed, Count
<1> QED BY <1>3, <1>4, <1>5 DEF IInv

-----------------------------------------------------------------------------
(* Programming counter 2.                                                  *)

Timed == MaskedMeanwhile /\ TicksLost /\ Calibrated

\* A step that leaves the timer alone, and starts no calibration.
LEMMA TimerLeftAlone ==
  ASSUME Timed, apic' = apic, during' = during, Calibrating' => Calibrating
  PROVE  Timed'
BY DEF Timed, MaskedMeanwhile, TicksLost, Calibrated

\* A mode command: mode 0 and no half count.
LEMMA PreparedKeeps ==
  ASSUME TypeOK, SmallDivisor, NEW span \in Nat, Prepared(span)
  PROVE  /\ counter' \in Counters /\ ~counter'.half /\ counter'.mode = 0
         /\ divisor' \in 0..1 /\ configured' \in BOOLEAN
         /\ stopped' \in {stopped, "fault"} /\ (span # 0 => stopped' = stopped)
<1> DEFINE s == IF span > 54000 THEN 54000 ELSE span
<1>1. counter' \in Counters /\ ~counter'.half /\ counter'.mode = 0
  <2>1. counter \in Counters
    BY DEF TypeOK, Counting
  <2>2. counter' = Commanded(counter, 0)
    BY DEF Prepared
  <2> QED BY <2>1, <2>2, CommandedTyped
<1>2. CASE s = 0
  <2>1. span = 0 /\ stopped' = "fault" /\ divisor' = divisor /\ configured' = configured
    BY <1>2 DEF Prepared
  <2>2. configured' \in BOOLEAN /\ divisor' \in 0..1
    BY <2>1 DEF SmallDivisor, TypeOK, Flags
  <2> QED BY <1>1, <2>1, <2>2
<1>3. CASE s # 0
  <2>1. s \in Nat \ {0}
    BY <1>3
  <2>2. divisor' = (PIT_FREQ \div 1000000) \div s /\ configured' = TRUE /\ stopped' = stopped
    BY <1>3 DEF Prepared
  <2>3. divisor' \in 0..1
    BY <2>1, <2>2, QuotientIsSmall
  <2>4. configured' \in BOOLEAN
    BY <2>2
  <2> QED BY <1>1, <2>2, <2>3, <2>4
<1> QED BY <1>2, <1>3

LEMMA PrepareSleepKeepsIInv == ASSUME IInv, PrepareSleep PROVE IInv'
<1>1. PICK span \in Spans : Prepared(span)
  BY DEF PrepareSleep
<1>2. span \in Nat
  BY <1>1, ProcessorAssumption
<1>3. UNCHANGED <<pc, then, gate, ticks, counted, apic, during>> /\ pc = "idle"
  BY DEF PrepareSleep, Idle, listVars
<1>4. TypeOK' /\ SmallDivisor'
  <2>1. /\ counter' \in Counters /\ divisor' \in 0..1 /\ stopped' \in {stopped, "fault"}
    BY <1>1, <1>2, PreparedKeeps DEF IInv
  <2>2. TypeOK
    BY DEF IInv
  <2>3. Located'
    BY <1>3, <2>1, <2>2 DEF TypeOK, Located
  <2>4. Counting'
    <3>1. divisor' \in Words
      <4>1. divisor' \in 0..1
        BY <2>1, Zenon
      <4> QED BY <4>1 DEF Words
    <3>2. ticks' \in Nat /\ counted' \in Nat /\ during' \in Nat
      <4>1. ticks' = ticks /\ counted' = counted /\ during' = during
        BY <1>3
      <4>2. Counting
        BY <2>2 DEF TypeOK
      <4> QED BY <4>1, <4>2 DEF Counting
    <3> QED BY <3>1, <3>2 DEF Counting
  <2>5. Flags'
    <3>1. configured' \in BOOLEAN
      BY <1>1, <1>2, <2>2, PreparedKeeps DEF IInv
    <3> QED BY <1>3, <2>2, <3>1 DEF TypeOK, Flags
  <2>6. apic' \in Apics
    BY <1>3, <2>2 DEF TypeOK
  <2> QED BY <2>1, <2>3, <2>4, <2>5, <2>6 DEF TypeOK, SmallDivisor
<1>5. Timed'
  BY <1>3, TimerLeftAlone DEF IInv, Timed, Calibrating
<1>6. Programmed'
  BY <1>1, <1>2, <1>3, PreparedKeeps DEF IInv, Programmed
<1> QED BY <1>4, <1>5, <1>6 DEF IInv, Timed

LEMMA StartTimerPrepareKeepsIInv == ASSUME IInv, StartTimerPrepare PROVE IInv'
<1>1. Prepared(10000)
  BY DEF StartTimerPrepare
<1>2. UNCHANGED <<then, gate, ticks, counted, apic, during>> /\ pc = "prepare" /\ pc' = "arm"
  BY DEF StartTimerPrepare, Step, listVars
<1>3. TypeOK' /\ SmallDivisor'
  <2>1. /\ counter' \in Counters /\ divisor' \in 0..1 /\ stopped' \in {stopped, "fault"}
    BY <1>1, PreparedKeeps DEF IInv
  <2>2. TypeOK
    BY DEF IInv
  <2>3. Located'
    BY <1>2, <2>1, <2>2 DEF TypeOK, Located
  <2>4. Counting'
    <3>1. divisor' \in Words
      <4>1. divisor' \in 0..1
        BY <2>1, Zenon
      <4> QED BY <4>1 DEF Words
    <3>2. ticks' \in Nat /\ counted' \in Nat /\ during' \in Nat
      <4>1. ticks' = ticks /\ counted' = counted /\ during' = during
        BY <1>2
      <4>2. Counting
        BY <2>2 DEF TypeOK
      <4> QED BY <4>1, <4>2 DEF Counting
    <3> QED BY <3>1, <3>2 DEF Counting
  <2>5. Flags'
    <3>1. configured' \in BOOLEAN
      BY <1>1, <2>2, PreparedKeeps DEF IInv
    <3> QED BY <1>2, <2>2, <3>1 DEF TypeOK, Flags
  <2>6. apic' \in Apics
    BY <1>2, <2>2 DEF TypeOK
  <2> QED BY <2>1, <2>3, <2>4, <2>5, <2>6 DEF TypeOK, SmallDivisor
<1>4. Timed'
  BY <1>2, TimerLeftAlone DEF IInv, Timed, Calibrating
<1>5. Programmed'
  BY <1>1, <1>2, PreparedKeeps DEF IInv, Programmed
<1> QED BY <1>3, <1>4, <1>5 DEF IInv, Timed

\* StartCounter either leaves counter 2 as it was or takes "configured" back.
LEMMA StartCounterKeepsIInv == ASSUME IInv, StartCounter PROVE IInv'
<1>1. UNCHANGED <<pc, then, divisor, gate, counted, apic, during>> /\ pc = "idle"
  BY DEF StartCounter, Idle, listVars
<1>2. counter \in Counters
  BY DEF IInv, TypeOK, Counting
<1>3. ASSUME NEW freq, NEW target, NEW mode \in Modes
      PROVE  /\ Started(counter, freq, target, mode) \in Counters
             /\ target # 2 /\ ~StrayByte(freq) => Started(counter, freq, target, mode) = counter
  <2> DEFINE commanded == IF target = 2 THEN Commanded(counter, mode) ELSE counter
  <2>1. commanded \in Counters
    BY <1>2, CommandedTyped
  <2>2. Sent(commanded, 0) \in Counters
    BY <2>1, SentTyped
  <2> QED BY <2>1, <2>2 DEF Started
<1>4. /\ counter' \in Counters /\ configured' \in BOOLEAN /\ ticks' \in Nat
      /\ stopped' \in {stopped, "fault"}
      /\ configured' => configured /\ counter' = counter
  <2>1. PICK freq \in Freqs \ {0}, target \in 0..2, mode \in Modes :
          \/ stopped' = "fault" /\ UNCHANGED <<counter, ticks, configured>>
          \/ /\ counter' = Started(counter, freq, target, mode)
             /\ configured' = (configured /\ target # 2 /\ ~StrayByte(freq))
             /\ ticks' = 0
             /\ UNCHANGED stopped
    BY DEF StartCounter
  <2>2. Started(counter, freq, target, mode) \in Counters
    BY <1>3
  <2>3. counter' \in Counters /\ stopped' \in {stopped, "fault"}
    BY <1>2, <2>1, <2>2
  <2>4. ticks' \in Nat
    BY <2>1 DEF IInv, TypeOK, Counting
  <2>5. CASE stopped' = "fault" /\ UNCHANGED <<counter, ticks, configured>>
    BY <2>3, <2>4, <2>5 DEF IInv, TypeOK, Flags
  <2>6. CASE /\ counter' = Started(counter, freq, target, mode)
             /\ configured' = (configured /\ target # 2 /\ ~StrayByte(freq))
    <3>1. configured' \in BOOLEAN /\ (configured' => configured /\ target # 2 /\ ~StrayByte(freq))
      BY <2>6
    <3> QED BY <1>3, <2>3, <2>4, <2>6, <3>1
  <2> QED BY <2>1, <2>5, <2>6
<1>5. TypeOK' /\ SmallDivisor'
  <2>1. TypeOK /\ SmallDivisor
    BY DEF IInv
  <2>2. Located'
    BY <1>1, <1>4, <2>1 DEF TypeOK, Located
  <2>3. Counting'
    <3>1. Counting /\ UNCHANGED <<divisor, counted, during>> /\ ticks' \in Nat
      BY <1>1, <1>4, <2>1 DEF TypeOK
    <3> QED BY <3>1 DEF Counting
  <2>4. Flags'
    BY <1>1, <1>4, <2>1 DEF TypeOK, Flags
  <2>5. apic' \in Apics
    BY <1>1, <2>1 DEF TypeOK
  <2>6. SmallDivisor'
    BY <1>1, <2>1 DEF SmallDivisor
  <2> QED BY <1>4, <2>2, <2>3, <2>4, <2>5, <2>6 DEF TypeOK
<1>6. Timed'
  BY <1>1, TimerLeftAlone DEF IInv, Timed, Calibrating
<1>7. Programmed'
  BY <1>1, <1>4 DEF IInv, Programmed
<1> QED BY <1>5, <1>6, <1>7 DEF IInv, Timed

-----------------------------------------------------------------------------
(* Sleep.                                                                  *)

\* A step that leaves the timer and the divisor alone, with the rest of the types at hand.
LEMMA StepTyped ==
  ASSUME TypeOK, SmallDivisor, Located', counter' \in Counters, gate' \in BOOLEAN,
         counted' \in Nat, UNCHANGED <<divisor, ticks, configured, apic, during>>
  PROVE  TypeOK' /\ SmallDivisor'
<1>1. divisor' = divisor /\ ticks' = ticks /\ during' = during
  OBVIOUS
<1>2. Counting' /\ SmallDivisor'
  <2>1. Counting
    BY DEF TypeOK
  <2>2. Counting'
    BY <1>1, <2>1 DEF Counting
  <2>3. SmallDivisor'
    BY <1>1 DEF SmallDivisor
  <2> QED BY <2>2, <2>3
<1>3. Flags'
  BY DEF TypeOK, Flags
<1>4. apic' \in Apics
  BY DEF TypeOK
<1> QED BY <1>2, <1>3, <1>4 DEF TypeOK

LEMMA SleepKeepsIInv == ASSUME IInv, Sleep PROVE IInv'
<1>1. /\ pc = "idle" /\ pc' = "low" /\ then' = "idle" /\ counted' = 0
      /\ UNCHANGED <<divisor, counter, gate, ticks, configured, apic, stopped, during>>
  BY DEF Sleep, Idle
<1>2. TypeOK' /\ SmallDivisor'
  <2>1. TypeOK /\ SmallDivisor
    BY DEF IInv
  <2>2. Located'
    BY <1>1, <2>1 DEF TypeOK, Located, Sleeping
  <2>3. counter' \in Counters
    BY <1>1, <2>1 DEF TypeOK
  <2>4. gate' \in BOOLEAN
    BY <1>1, <2>1 DEF TypeOK, Flags
  <2>5. counted' \in Nat
    BY <1>1
  <2> QED BY <1>1, <2>1, <2>2, <2>3, <2>4, <2>5, StepTyped
<1>3. Timed'
  BY <1>1, TimerLeftAlone DEF IInv, Timed, Calibrating
<1>4. Programmed'
  BY <1>1 DEF IInv, Programmed
<1> QED BY <1>2, <1>3, <1>4 DEF IInv, Timed

\* What the steps of Sleep but the last leave alone.
LEMMA SleepStep ==
  ASSUME IInv, pc \in Sleeping, pc' \in Sleeping, SleepUnchanged,
         counter' \in Counters, gate' \in BOOLEAN, counted' = counted
  PROVE  TypeOK' /\ SmallDivisor' /\ Timed'
<1>1. UNCHANGED <<then, divisor, ticks, apic, stopped, configured, during>>
  BY DEF SleepUnchanged
<1>2. TypeOK /\ SmallDivisor
  BY DEF IInv
<1>3. Located'
  BY <1>1, <1>2 DEF TypeOK, Located
<1>4. counted' \in Nat
  BY <1>2 DEF TypeOK, Counting
<1>5. TypeOK' /\ SmallDivisor'
  BY <1>1, <1>2, <1>3, <1>4, StepTyped
<1>6. Timed'
  <2>1. Timed
    BY DEF IInv, Timed
  <2>2. Calibrating' => Calibrating
    BY <1>1 DEF Calibrating, Sleeping
  <2>3. apic' = apic /\ during' = during
    BY <1>1
  <2> QED BY <2>1, <2>2, <2>3, TimerLeftAlone
<1> QED BY <1>5, <1>6

\* The bytes that Sleep sends.
LEMMA SleepBytes ==
  ASSUME IInv
  PROVE  /\ divisor % 256 = divisor /\ divisor % 256 \in 0..255
         /\ (divisor \div 256) % 256 = 0
<1>1. divisor = 0 \/ divisor = 1
  BY DEF IInv, SmallDivisor
<1>2. CASE divisor = 0
  BY <1>2, TwoBytes
<1>3. CASE divisor = 1
  BY <1>3, TwoBytes
<1> QED BY <1>1, <1>2, <1>3

LEMMA SendLowKeepsIInv == ASSUME IInv, SendLow PROVE IInv'
<1>1. /\ pc = "low" /\ pc' = "high" /\ counter' = Sent(counter, divisor % 256)
      /\ gate' = gate /\ counted' = counted /\ SleepUnchanged
  BY DEF SendLow, Step
<1>2. counter \in Counters /\ gate \in BOOLEAN
  BY DEF IInv, TypeOK, Flags
<1>3. divisor % 256 \in 0..255
  BY SleepBytes
<1>4. counter' \in Counters
  BY <1>1, <1>2, <1>3, SentTyped
<1>5. TypeOK' /\ SmallDivisor' /\ Timed'
  BY <1>1, <1>2, <1>4, SleepStep DEF Sleeping
<1>6. Programmed'
  <2>1. configured' = configured /\ divisor' = divisor
    BY <1>1 DEF SleepUnchanged
  <2>2. CASE ~configured
    BY <2>1, <2>2 DEF Programmed
  <2>3. CASE configured
    <3>1. ~counter.half /\ counter.mode = 0
      BY <1>1, <2>3 DEF IInv, Programmed
    <3>2. /\ counter'.mode = 0 /\ counter'.half /\ counter'.low = divisor % 256
          /\ ~counter'.counting /\ ~counter'.out
      <4> DEFINE b == divisor % 256
      <4>1. b \in 0..255 /\ counter' = Sent(counter, b)
        BY <1>1, <1>3
      <4> HIDE DEF b
      <4>2. counter' = Sent(counter, b) /\ counter'.mode = 0 /\ counter'.half /\ counter'.low = b
            /\ ~counter'.counting /\ ~counter'.out
        BY <1>2, <3>1, <4>1, FirstByte
      <4> QED BY <4>2 DEF b
    <3> QED BY <1>1, <2>1, <3>2 DEF Programmed
  <2> QED BY <2>2, <2>3
<1> QED BY <1>5, <1>6 DEF IInv, Timed

LEMMA SendHighKeepsIInv == ASSUME IInv, SendHigh PROVE IInv'
<1>1. /\ pc = "high" /\ pc' = "gateOff" /\ counter' = Sent(counter, (divisor \div 256) % 256)
      /\ gate' = gate /\ counted' = counted /\ SleepUnchanged
  BY DEF SendHigh, Step
<1>2. counter \in Counters /\ gate \in BOOLEAN
  BY DEF IInv, TypeOK, Flags
<1>3. counter' = Sent(counter, 0) /\ 0 \in 0..255
  BY <1>1, SleepBytes
<1>4. counter' \in Counters
  BY <1>2, <1>3, SentTyped
<1>5. TypeOK' /\ SmallDivisor' /\ Timed'
  BY <1>1, <1>2, <1>4, SleepStep DEF Sleeping
<1>6. Programmed'
  <2>1. configured' = configured /\ divisor' = divisor
    BY <1>1 DEF SleepUnchanged
  <2>2. CASE ~configured
    BY <2>1, <2>2 DEF Programmed
  <2>3. CASE configured
    <3>1. counter.half /\ counter.mode = 0 /\ counter.low = divisor % 256 /\ ~counter.out
      BY <1>1, <2>3 DEF IInv, Programmed
    <3>2. /\ counter'.mode = counter.mode /\ ~counter'.half
          /\ counter'.count = IF counter.low = 0 THEN FullCount ELSE counter.low
          /\ counter'.out = counter.out
      BY <1>2, <1>3, <3>1, SecondByte
    <3>3. counter.low = divisor /\ divisor \in Nat /\ counted \in Nat
      <4>1. divisor % 256 = divisor
        BY SleepBytes
      <4>2. Counting
        BY DEF IInv, TypeOK
      <4>3. divisor \in Nat /\ counted \in Nat
        BY <4>2 DEF Counting, Words
      <4> QED BY <3>1, <4>1, <4>3
    <3>4. counter'.count = Count /\ Count \in Nat
      BY <3>2, <3>3, ProcessorAssumption DEF Count
    <3>5. counter'.count + counted' >= Count
      BY <1>1, <3>3, <3>4
    <3>6. Count' = Count
      BY <2>1 DEF Count
    <3> QED BY <1>1, <3>1, <3>2, <3>5, <3>6 DEF Programmed
  <2> QED BY <2>2, <2>3
<1> QED BY <1>5, <1>6 DEF IInv, Timed

\* The two writes of the gate.
LEMMA GateKeepsIInv == ASSUME IInv, GateOff \/ GateOn PROVE IInv'
<1>1. /\ pc \in {"gateOff", "gateOn"} /\ pc' \in {"gateOn", "poll"} /\ gate' \in BOOLEAN
      /\ counter' = counter /\ counted' = counted /\ SleepUnchanged
  BY DEF GateOff, GateOn, Step, GateUp
<1>2. counter' \in Counters
  BY <1>1 DEF IInv, TypeOK
<1>3. pc \in Sleeping /\ pc' \in Sleeping
  BY <1>1 DEF Sleeping
<1>4. TypeOK' /\ SmallDivisor' /\ Timed'
  BY <1>1, <1>2, <1>3, SleepStep
<1>5. Programmed'
  <2>1. configured' = configured /\ divisor' = divisor
    BY <1>1 DEF SleepUnchanged
  <2>2. Count' = Count
    BY <2>1 DEF Count
  <2>3. pc # "high" /\ pc' # "high"
    BY <1>1
  <2> QED BY <1>1, <2>1, <2>2, <2>3 DEF IInv, Programmed
<1> QED BY <1>4, <1>5 DEF IInv, Timed

LEMMA PollKeepsIInv == ASSUME IInv, Poll PROVE IInv'
<1>1. /\ pc = "poll" /\ pc' = then /\ counted' = 0 /\ gate' = gate /\ counter' = counter
      /\ UNCHANGED <<then, divisor, ticks, apic, stopped, configured, during>>
  BY DEF Poll, SleepUnchanged
<1>2. then \in {"idle", "mask"}
  BY DEF IInv, TypeOK, Located
<1>3. TypeOK' /\ SmallDivisor'
  <2>1. TypeOK /\ SmallDivisor
    BY DEF IInv
  <2>2. Located'
    BY <1>1, <2>1 DEF TypeOK, Located
  <2>3. counter' \in Counters /\ gate' \in BOOLEAN
    BY <1>1, <2>1 DEF TypeOK, Flags
  <2>4. counted' \in Nat
    BY <1>1
  <2> QED BY <1>1, <2>1, <2>2, <2>3, <2>4, StepTyped
<1>4. Timed'
  <2>1. Calibrating' => Calibrating
    BY <1>1, <1>2 DEF Calibrating, Sleeping
  <2> QED BY <1>1, <2>1, TimerLeftAlone DEF IInv, Timed
<1>5. Programmed'
  BY <1>1, <1>2 DEF IInv, Programmed
<1> QED BY <1>3, <1>4, <1>5 DEF IInv, Timed

-----------------------------------------------------------------------------
(* The timer.                                                              *)

\* A step that leaves counter 2, the divisor and the two counts of Sleep alone.
LEMMA TimerTyped ==
  ASSUME TypeOK, SmallDivisor, Located', apic' \in Apics, during' \in Nat, counted' \in Nat,
         UNCHANGED <<divisor, counter, gate, ticks, configured>>
  PROVE  TypeOK' /\ SmallDivisor'
<1>1. divisor' = divisor /\ ticks' = ticks
  OBVIOUS
<1>2. Counting'
  <2>1. Counting
    BY DEF TypeOK
  <2> QED BY <1>1, <2>1 DEF Counting
<1>3. SmallDivisor'
  BY <1>1 DEF SmallDivisor
<1>4. Flags'
  BY DEF TypeOK, Flags
<1>5. counter' \in Counters
  BY DEF TypeOK
<1> QED BY <1>2, <1>3, <1>4, <1>5 DEF TypeOK

\* A step outside Sleep, or to its beginning, that leaves counter 2 alone.
LEMMA ProgrammedStill ==
  ASSUME Programmed, UNCHANGED <<divisor, counter, configured>>,
         pc # "high", pc' \notin {"high", "gateOff", "gateOn", "poll"}
  PROVE  Programmed'
BY DEF Programmed

LEMMA LocalApicInitializeKeepsIInv == ASSUME IInv, LocalApicInitialize PROVE IInv'
<1>1. TypeOK /\ SmallDivisor /\ Timed /\ Programmed
  BY DEF IInv, Timed
<1>2. /\ UNCHANGED <<divisor, counter, gate, ticks, configured, then, during, counted>>
      /\ pc = "idle" /\ pc' \in {"idle", "prepare"} /\ stopped' \in {stopped, "fault"}
      /\ apic' \in {apic, [apic EXCEPT !.timer = "masked", !.enabled = TRUE]}
      /\ pc' = "prepare" => apic' = [apic EXCEPT !.timer = "masked", !.enabled = TRUE]
  BY DEF LocalApicInitialize, Idle, Fault, pitVars
<1>3. /\ apic' \in Apics /\ apic'.current = apic.current /\ apic'.initial = apic.initial
      /\ apic'.timer \in {"masked", apic.timer} /\ (pc' = "prepare" => apic'.timer = "masked")
  <2>1. apic \in Apics
    BY <1>1 DEF TypeOK
  <2>2. [apic EXCEPT !.timer = "masked", !.enabled = TRUE] \in Apics
    BY <2>1 DEF Apics
  <2> QED BY <1>2, <2>1, <2>2 DEF Apics
<1>4. Located'
  BY <1>1, <1>2 DEF TypeOK, Located
<1>5. during' \in Nat /\ counted' \in Nat
  BY <1>1, <1>2 DEF TypeOK, Counting
<1>6. TypeOK' /\ SmallDivisor'
  BY <1>1, <1>2, <1>3, <1>4, <1>5, TimerTyped
<1>7. Timed'
  <2>1. MaskedMeanwhile'
    BY <1>2, <1>3 DEF MaskedMeanwhile, Calibrating, Sleeping
  <2>2. during' = during
    BY <1>2
  <2>3. TicksLost' /\ Calibrated'
    BY <1>1, <1>3, <2>2 DEF Timed, TicksLost, Calibrated
  <2> QED BY <2>1, <2>3 DEF Timed
<1>8. Programmed'
  BY <1>1, <1>2, ProgrammedStill
<1> QED BY <1>6, <1>7, <1>8 DEF IInv, Timed

LEMMA StartTimerArmKeepsIInv == ASSUME IInv, StartTimerArm PROVE IInv'
<1>1. TypeOK /\ SmallDivisor /\ Timed /\ Programmed
  BY DEF IInv, Timed
<1>2. /\ UNCHANGED <<divisor, counter, gate, ticks, configured, stopped>>
      /\ pc = "arm" /\ pc' = "low" /\ then' = "mask" /\ counted' = 0 /\ during' = 0
      /\ apic' = [apic EXCEPT !.current = TimerMax]
  BY DEF StartTimerArm, Step
<1>3. apic' \in Apics /\ apic'.current = TimerMax /\ apic'.timer = "masked"
  <2>1. apic \in Apics
    BY <1>1 DEF TypeOK
  <2>2. apic.timer = "masked"
    BY <1>1, <1>2 DEF Timed, MaskedMeanwhile, Calibrating
  <2>3. TimerMax \in 0..TimerMax
    BY ProcessorAssumption
  <2>4. apic' \in Apics
    BY <1>2, <2>1, <2>3 DEF Apics
  <2> QED BY <1>2, <2>1, <2>2, <2>4 DEF Apics
<1>4. Located'
  BY <1>1, <1>2 DEF TypeOK, Located, Sleeping
<1>5. during' \in Nat /\ counted' \in Nat
  BY <1>2
<1>6. TypeOK' /\ SmallDivisor'
  BY <1>1, <1>2, <1>3, <1>4, <1>5, TimerTyped
<1>7. Timed'
  <2>1. TicksLost'
    BY <1>2, <1>3, ProcessorAssumption DEF TicksLost
  <2> QED BY <1>3, <2>1 DEF Timed, MaskedMeanwhile, Calibrated
<1>8. Programmed'
  BY <1>1, <1>2, ProgrammedStill
<1> QED BY <1>6, <1>7, <1>8 DEF IInv, Timed

LEMMA StartTimerMaskKeepsIInv == ASSUME IInv, StartTimerMask PROVE IInv'
<1>1. TypeOK /\ SmallDivisor /\ Timed /\ Programmed
  BY DEF IInv, Timed
<1>2. /\ UNCHANGED <<divisor, counter, gate, ticks, configured, stopped, then, counted, during>>
      /\ pc = "mask" /\ pc' = "start" /\ apic' = [apic EXCEPT !.timer = "masked"]
  BY DEF StartTimerMask, Step, pitVars
<1>3. apic' \in Apics /\ apic'.current = apic.current /\ apic'.timer = "masked"
  <2>1. apic \in Apics
    BY <1>1 DEF TypeOK
  <2> QED BY <1>2, <2>1 DEF Apics
<1>4. Located'
  BY <1>1, <1>2 DEF TypeOK, Located
<1>5. during' \in Nat /\ counted' \in Nat
  BY <1>1, <1>2 DEF TypeOK, Counting
<1>6. TypeOK' /\ SmallDivisor'
  BY <1>1, <1>2, <1>3, <1>4, <1>5, TimerTyped
<1>7. Timed'
  <2>1. during' = during
    BY <1>2
  <2>2. TicksLost'
    BY <1>1, <1>3, <2>1 DEF Timed, TicksLost
  <2> QED BY <1>3, <2>2 DEF Timed, MaskedMeanwhile, Calibrated
<1>8. Programmed'
  BY <1>1, <1>2, ProgrammedStill
<1> QED BY <1>6, <1>7, <1>8 DEF IInv, Timed

\* The count that the timer has lost is at least what passed in the poll.
LEMMA StartTimerStartKeepsIInv == ASSUME IInv, StartTimerStart PROVE IInv'
<1>1. TypeOK /\ SmallDivisor /\ Timed /\ Programmed
  BY DEF IInv, Timed
<1>2. /\ UNCHANGED <<divisor, counter, gate, ticks, configured, stopped, then, counted, during>>
      /\ pc = "start" /\ pc' = "idle"
      /\ apic' = [apic EXCEPT !.timer = "periodic", !.initial = Tenth(TicksSeen)]
  BY DEF StartTimerStart, Step, pitVars
<1>3. apic \in Apics /\ apic.current \in 0..TimerMax
  BY <1>1, ApicFields DEF TypeOK
<1>4. during \in Nat /\ counted \in Nat
  BY <1>1 DEF TypeOK, Counting
<1>5. TicksSeen \in 0..TimerMax /\ during <= TicksSeen
  <2>1. apic.current + during <= TimerMax
    BY <1>1 DEF Timed, TicksLost
  <2> QED BY <1>3, <1>4, <2>1, ProcessorAssumption DEF TicksSeen
<1>6. Tenth(TicksSeen) \in 0..(TimerMax \div 10) /\ during \div 10 <= Tenth(TicksSeen)
  <2>1. TicksSeen \in Nat
    BY <1>5
  <2> QED BY <1>4, <1>5, <2>1, TenthIsTyped, TenthIsMonotone
<1>7. /\ apic' \in Apics /\ apic'.current = apic.current
      /\ apic'.timer = "periodic" /\ apic'.initial = Tenth(TicksSeen)
  <2>1. ASSUME NEW n \in 0..(TimerMax \div 10)
        PROVE  LET a == [apic EXCEPT !.timer = "periodic", !.initial = n]
               IN  a \in Apics /\ a.current = apic.current /\ a.timer = "periodic" /\ a.initial = n
    <3> DEFINE m == TimerMax \div 10
    <3>1. n \in 0..m /\ Apics = [base : 0..MaxWindows, enabled : BOOLEAN,
             timer : {"masked", "periodic"}, initial : 0..m, current : 0..TimerMax]
      BY DEF Apics
    <3> HIDE DEF m
    <3> QED BY <1>3, <3>1
  <2> QED BY <1>2, <1>6, <2>1, Zenon
<1>8. Located'
  BY <1>1, <1>2 DEF TypeOK, Located
<1>9. during' = during /\ during' \in Nat /\ counted' \in Nat
  BY <1>2, <1>4
<1>10. TypeOK' /\ SmallDivisor'
  BY <1>1, <1>2, <1>7, <1>8, <1>9, TimerTyped
<1>11. Timed'
  <2>1. ~Calibrating'
    BY <1>2 DEF Calibrating, Sleeping
  <2>2. TicksLost'
    BY <1>1, <1>7, <1>9 DEF Timed, TicksLost
  <2>3. Calibrated'
    BY <1>6, <1>7, <1>9 DEF Calibrated
  <2> QED BY <2>1, <2>2, <2>3 DEF Timed, MaskedMeanwhile
<1>12. Programmed'
  BY <1>1, <1>2, ProgrammedStill
<1> QED BY <1>10, <1>11, <1>12 DEF IInv, Timed

-----------------------------------------------------------------------------
(* The clocks.                                                             *)

LEMMA PitClockKeepsIInv == ASSUME IInv, PitClock PROVE IInv'
<1>1. TypeOK /\ SmallDivisor /\ Timed /\ Programmed
  BY DEF IInv, Timed
<1>2. /\ UNCHANGED <<pc, then, divisor, gate, ticks, configured, apic, stopped, during>>
      /\ counter.counting /\ counter.count > 0
      /\ counter' = [counter EXCEPT !.count = @ - 1, !.out = (counter.count = 1)]
      /\ counted' = IF pc \in Sleeping THEN counted + 1 ELSE 0
  BY DEF PitClock, Sleeping
<1>3. counter.count \in Nat \ {0} /\ counted \in Nat
  <2>1. counter \in Counters /\ Counting
    BY <1>1 DEF TypeOK
  <2>2. counter.count \in Nat
    BY <2>1 DEF Counters
  <2>3. counted \in Nat
    BY <2>1 DEF Counting
  <2> QED BY <1>2, <2>2, <2>3
<1>4. /\ counter' \in Counters /\ counter'.mode = counter.mode /\ counter'.half = counter.half
      /\ counter'.count = counter.count - 1 /\ (counter'.out => counter.count = 1)
  <2>1. counter \in Counters
    BY <1>1 DEF TypeOK
  <2>2. counter.count - 1 \in Nat
    BY <1>3
  <2>3. ASSUME NEW n \in Nat, NEW o \in BOOLEAN
        PROVE  LET c == [counter EXCEPT !.count = n, !.out = o]
               IN  /\ c \in Counters /\ c.mode = counter.mode /\ c.half = counter.half
                   /\ c.count = n /\ c.out = o
    BY <2>1 DEF Counters
  <2>4. (counter.count = 1) \in BOOLEAN
    OBVIOUS
  <2>5. counter' = [counter EXCEPT !.count = counter.count - 1, !.out = (counter.count = 1)]
    BY <1>2
  <2>6. /\ counter' \in Counters /\ counter'.mode = counter.mode /\ counter'.half = counter.half
        /\ counter'.count = counter.count - 1 /\ counter'.out = (counter.count = 1)
    BY <2>2, <2>3, <2>4, <2>5, Zenon
  <2> QED BY <2>6
<1>5. counted' \in Nat /\ (pc \in Sleeping => counted' = counted + 1)
  BY <1>2, <1>3
<1>6. TypeOK' /\ SmallDivisor'
  <2>1. Located'
    BY <1>1, <1>2 DEF TypeOK, Located
  <2>2. gate' \in BOOLEAN
    BY <1>1, <1>2 DEF TypeOK, Flags
  <2> QED BY <1>1, <1>2, <1>4, <1>5, <2>1, <2>2, StepTyped
<1>7. Timed'
  <2>1. Calibrating' => Calibrating
    BY <1>2 DEF Calibrating
  <2> QED BY <1>1, <1>2, <2>1, TimerLeftAlone
<1>8. Programmed'
  <2>1. configured' = configured /\ pc' = pc /\ Count' = Count
    BY <1>2 DEF Count
  <2>2. CASE ~configured
    BY <2>1, <2>2 DEF Programmed
  <2>3. CASE configured
    <3>1. pc # "high" /\ counter'.mode = 0 /\ ~counter'.half
      BY <1>1, <1>2, <1>4, <2>3 DEF Programmed
    <3>2. pc \in {"gateOff", "gateOn", "poll"} => counter'.count + counted' >= Count
      <4>1. ASSUME pc \in {"gateOff", "gateOn", "poll"}
            PROVE  counter'.count + counted' >= Count
        <5>1. counter.count + counted >= Count
          BY <1>1, <2>3, <4>1 DEF Programmed
        <5>2. counted' = counted + 1 /\ counter'.count = counter.count - 1
          BY <1>4, <1>5, <4>1 DEF Sleeping
        <5>3. counter'.count + counted' = counter.count + counted
          BY <1>3, <5>2
        <5> QED BY <5>1, <5>3
      <4> QED BY <4>1
    <3>3. counter'.out => counter'.count = 0
      BY <1>3, <1>4
    <3> QED BY <2>1, <3>1, <3>2, <3>3 DEF Programmed
  <2> QED BY <2>2, <2>3
<1> QED BY <1>6, <1>7, <1>8 DEF IInv, Timed

LEMMA ApicClockKeepsIInv == ASSUME IInv, ApicClock PROVE IInv'
<1>1. TypeOK /\ SmallDivisor /\ Timed /\ Programmed
  BY DEF IInv, Timed
<1>2. /\ UNCHANGED <<pc, then, divisor, counter, gate, ticks, configured, counted, stopped>>
      /\ apic.current > 0 /\ apic' = [apic EXCEPT !.current = @ - 1]
      /\ during' = IF pc = "poll" /\ then = "mask" THEN during + 1 ELSE during
  BY DEF ApicClock, pitVars
<1>3. apic \in Apics /\ apic.current \in 0..TimerMax
  BY <1>1, ApicFields DEF TypeOK
<1>4. during \in Nat /\ counted \in Nat
  BY <1>1 DEF TypeOK, Counting
<1>5. /\ apic' \in Apics /\ apic'.current = apic.current - 1
      /\ apic'.timer = apic.timer /\ apic'.initial = apic.initial
  <2>1. apic.current - 1 \in 0..TimerMax
    BY <1>2, <1>3, ProcessorAssumption
  <2>2. ASSUME NEW n \in 0..TimerMax
        PROVE  LET a == [apic EXCEPT !.current = n]
               IN  /\ a \in Apics /\ a.current = n
                   /\ a.timer = apic.timer /\ a.initial = apic.initial
    BY <1>3 DEF Apics
  <2>3. apic' = [apic EXCEPT !.current = apic.current - 1]
    BY <1>2
  <2> QED BY <2>1, <2>2, <2>3
<1>6. during' \in Nat /\ counted' \in Nat /\ during' <= during + 1
  BY <1>2, <1>4
<1>7. TypeOK' /\ SmallDivisor'
  <2>1. Located'
    BY <1>1, <1>2 DEF TypeOK, Located
  <2> QED BY <1>1, <1>2, <1>5, <1>6, <2>1, TimerTyped
<1>8. Timed'
  <2>1. MaskedMeanwhile'
    BY <1>1, <1>2, <1>5 DEF Timed, MaskedMeanwhile, Calibrating
  <2>2. TicksLost'
    <3>1. apic.current + during <= TimerMax
      BY <1>1 DEF Timed, TicksLost
    <3>2. apic'.current + during' <= TimerMax
      BY <1>3, <1>4, <1>5, <1>6, <3>1, ProcessorAssumption
    <3> QED BY <3>2 DEF TicksLost
  <2>3. Calibrated'
    <3>1. CASE apic.timer = "periodic"
      <4>1. ~(pc = "poll" /\ then = "mask")
        BY <1>1, <3>1 DEF Timed, MaskedMeanwhile, Calibrating, Sleeping
      <4>2. during' = during
        BY <1>2, <4>1
      <4> QED BY <1>1, <1>5, <4>2 DEF Timed, Calibrated
    <3>2. CASE apic.timer # "periodic"
      BY <1>5, <3>2 DEF Calibrated
    <3> QED BY <3>1, <3>2
  <2> QED BY <2>1, <2>2, <2>3 DEF Timed
<1>9. Programmed'
  <2>1. Count' = Count
    BY <1>2 DEF Count
  <2> QED BY <1>1, <1>2, <2>1 DEF Programmed
<1> QED BY <1>7, <1>8, <1>9 DEF IInv, Timed

-----------------------------------------------------------------------------
(* The invariant and what follows from it.                                 *)

LEMMA InitIInv == Init => IInv
<1> SUFFICES ASSUME Init PROVE IInv
  OBVIOUS
<1>1. Located /\ Flags
  BY DEF Init, Located, Flags
<1>2. Counting
  <2>1. divisor = 0 /\ ticks = 0 /\ counted = 0 /\ during = 0
    BY DEF Init
  <2> QED BY <2>1 DEF Counting, Words
<1>3. counter \in Counters
  <2> DEFINE Fresh == [mode : Modes, half : {FALSE}, low : {0}, counting : {FALSE}, count : {0},
                       out : BOOLEAN]
  <2>1. counter \in Fresh
    BY DEF Init
  <2>2. ASSUME NEW c \in Fresh
        PROVE  c \in Counters
    <3>1. ASSUME NEW m \in Modes, NEW o \in BOOLEAN
          PROVE  [mode |-> m, half |-> FALSE, low |-> 0, counting |-> FALSE, count |-> 0,
                  out |-> o] \in Counters
      BY DEF Counters
    <3>2. PICK m \in Modes, o \in BOOLEAN :
            c = [mode |-> m, half |-> FALSE, low |-> 0, counting |-> FALSE, count |-> 0, out |-> o]
      <4>1. c.mode \in Modes /\ c.out \in BOOLEAN
        OBVIOUS
      <4>2. c = [mode |-> c.mode, half |-> FALSE, low |-> 0, counting |-> FALSE, count |-> 0,
                 out |-> c.out]
        OBVIOUS
      <4> QED BY <4>1, <4>2
    <3> QED BY <3>1, <3>2
  <2> QED BY <2>1, <2>2
<1>4. TimerMax \div 10 \in Nat /\ TimerMax \in Nat /\ MaxWindows \in Nat
  BY ProcessorAssumption
<1>5. apic \in Apics /\ apic.timer = "masked" /\ apic.current = 0
  <2> DEFINE m == TimerMax \div 10
  <2>1. Apics = [base : 0..MaxWindows, enabled : BOOLEAN, timer : {"masked", "periodic"},
                 initial : 0..m, current : 0..TimerMax]
    BY DEF Apics
  <2>2. 0 \in 0..MaxWindows /\ 0 \in 0..m /\ 0 \in 0..TimerMax
    BY <1>4
  <2>3. apic = [base |-> 0, enabled |-> FALSE, timer |-> "masked", initial |-> 0, current |-> 0]
    BY DEF Init
  <2> HIDE DEF m
  <2> QED BY <2>1, <2>2, <2>3
<1>6. SmallDivisor
  BY DEF Init, SmallDivisor
<1>7. MaskedMeanwhile /\ Calibrated
  BY <1>5 DEF MaskedMeanwhile, Calibrated
<1>8. TicksLost
  <2>1. during = 0
    BY DEF Init
  <2> QED BY <1>4, <1>5, <2>1 DEF TicksLost
<1>9. Programmed
  BY DEF Init, Programmed
<1> QED BY <1>1, <1>2, <1>3, <1>5, <1>6, <1>7, <1>8, <1>9 DEF IInv, TypeOK

LEMMA StepIInv == IInv /\ [Next]_vars => IInv'
<1> SUFFICES ASSUME IInv, [Next]_vars PROVE IInv'
  OBVIOUS
<1>1. CASE Calls
  <2>1. CASE Quiet
    BY <2>1, QuietKeepsIInv
  <2>2. CASE StartCounter
    BY <2>2, StartCounterKeepsIInv
  <2>3. CASE PrepareSleep
    BY <2>3, PrepareSleepKeepsIInv
  <2>4. CASE Sleep
    BY <2>4, SleepKeepsIInv
  <2>5. CASE LocalApicInitialize
    BY <2>5, LocalApicInitializeKeepsIInv
  <2> QED BY <1>1, <2>1, <2>2, <2>3, <2>4, <2>5 DEF Calls, Quiet
<1>2. CASE Steps
  <2>1. CASE SendLow
    BY <2>1, SendLowKeepsIInv
  <2>2. CASE SendHigh
    BY <2>2, SendHighKeepsIInv
  <2>3. CASE GateOff \/ GateOn
    BY <2>3, GateKeepsIInv
  <2>4. CASE Poll
    BY <2>4, PollKeepsIInv
  <2>5. CASE StartTimerPrepare
    BY <2>5, StartTimerPrepareKeepsIInv
  <2>6. CASE StartTimerArm
    BY <2>6, StartTimerArmKeepsIInv
  <2>7. CASE StartTimerMask
    BY <2>7, StartTimerMaskKeepsIInv
  <2>8. CASE StartTimerStart
    BY <2>8, StartTimerStartKeepsIInv
  <2> QED BY <1>2, <2>1, <2>2, <2>3, <2>4, <2>5, <2>6, <2>7, <2>8 DEF Steps
<1>3. CASE PitClock
  BY <1>3, PitClockKeepsIInv
<1>4. CASE ApicClock
  BY <1>4, ApicClockKeepsIInv
<1>5. CASE UNCHANGED vars
  <2>1. UNCHANGED <<pc, then, divisor, counter, gate, ticks, configured, counted, apic,
                    stopped, during>>
    BY <1>5 DEF vars, pitVars
  <2>2. pc' = pc /\ then' = then /\ stopped' = stopped /\ apic' = apic /\ during' = during
        /\ counted' = counted /\ counter' = counter /\ gate' = gate
    BY <2>1
  <2>3. TypeOK /\ SmallDivisor /\ Timed /\ Programmed
    BY DEF IInv, Timed
  <2>4. Located' /\ counter' \in Counters /\ gate' \in BOOLEAN
    BY <2>2, <2>3 DEF TypeOK, Located, Flags
  <2>5. counted' \in Nat
    BY <2>2, <2>3 DEF TypeOK, Counting
  <2>6. TypeOK' /\ SmallDivisor'
    BY <2>1, <2>3, <2>4, <2>5, StepTyped
  <2>7. Timed'
    BY <2>2, <2>3, TimerLeftAlone DEF Calibrating
  <2>8. Programmed'
    BY <2>1, <2>3 DEF Programmed, Count
  <2> QED BY <2>6, <2>7, <2>8 DEF IInv, Timed
<1> QED BY <1>1, <1>2, <1>3, <1>4, <1>5 DEF Next

LEMMA Invariance == Spec => []IInv
BY InitIInv, StepIInv, PTL DEF Spec

\* Whatever the spans, frequencies and counts, the state stays typed: a byte sent is a byte,
\* the divisor fits its word, and the initial count its register.
THEOREM ProcessorTypeCorrect == Spec => []TypeOK
<1>1. IInv => TypeOK
  BY DEF IInv
<1> QED BY <1>1, Invariance, PTL

\* The period of the APIC timer is at least a tenth of the ticks that passed while the
\* calibrating Sleep waited.
THEOREM CalibrationHolds == Spec => []Calibrated
<1>1. IInv => Calibrated
  BY DEF IInv
<1> QED BY <1>1, Invariance, PTL

\* A Sleep whose counter nobody else has programmed since PrepareSleep returns after a whole
\* span, whichever the longest count is.
THEOREM SleepsAreFull == Spec => SleptFull
<1>1. IInv /\ [Next]_vars => [Poll /\ configured => counted >= Count]_vars
  <2> SUFFICES ASSUME IInv, Poll, configured PROVE counted >= Count
    OBVIOUS
  <2>1. pc = "poll" /\ (counter.out \/ counter.mode # 0)
    BY DEF Poll, Risen
  <2>2. counter.count + counted >= Count /\ counter.count = 0
    BY <2>1 DEF IInv, Programmed
  <2>3. counted \in Nat
    <3>1. Counting
      BY DEF IInv, TypeOK
    <3> QED BY <3>1 DEF Counting
  <2> QED BY <2>2, <2>3
<1> QED BY <1>1, Invariance, PTL DEF Spec, SleptFull

=============================================================================
