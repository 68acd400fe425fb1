----------------------------- MODULE Processor -----------------------------
(***************************************************************************)
(* The processor support nothing calls yet: the processor list and APIC id *)
(* table of Processor.cpp, the local APIC and its timer (LocalApic.cpp),   *)
(* and the PIT's second counter, which the timer is calibrated with        *)
(* (Pit.cpp).                                                              *)
(*                                                                         *)
(* One processor runs the code; the two counters run by themselves.  The   *)
(* PIT's counter is used in mode 0: a command or a first byte of a count   *)
(* stops it and takes its output down, the second byte loads it, it counts *)
(* while its gate is up, and its output rises at 0.  A count of 0 is the   *)
(* longest.  In another mode the output may be anything.                   *)
(*                                                                         *)
(* Left out: the warnings of PrepareSleep, ProcessorAdd and                *)
(* LocalApicPrepare, whose formats vsprintf does not understand ("%d," and *)
(* "%x%x,"; ProcessorAdd's '%d' is read on behind its end).  Where the     *)
(* logger prints warnings such a call may not come back (modules Format    *)
(* and Logger); here it goes on.                                           *)
(***************************************************************************)
EXTENDS Integers, FiniteSetsExt, SequencesExt

CONSTANTS FullCount,    \* what a count of 0 stands for, 65536
          TimerMax,     \* 0xFFFFFFFF, the APIC timer's largest count
          Spans,        \* microseconds passed to PrepareSleep by other callers
          Freqs,        \* frequencies passed to StartCounter
          Modes,        \* modes passed to StartCounter, 0 PIT_OCW_MODE_TERMINALCOUNT
          ApicIds,      \* local APIC ids passed to ProcessorAdd
          MaxWindows    \* bound on the calls of LocalApicPrepare

ASSUME ProcessorAssumption ==
  /\ {FullCount, TimerMax} \subseteq Nat \ {0}
  /\ Spans \cup Freqs \cup Modes \cup ApicIds \subseteq Nat
  /\ MaxWindows \in Nat

VARIABLES pc,         \* "idle", or the step of Sleep or LocalApicStartTimer
          then,       \* where Sleep returns to: "idle" or LocalApicStartTimer's "mask"
          divisor,    \* s_SleepDivisor
          counter,    \* the PIT's counter 2
          gate,       \* bit 0 of port 0x61
          ticks,      \* s_pit_ticks
          apic,       \* s_virtBase and the registers
          list,       \* s_Processors: <<>> is nullptr, <<s>> the list s
          idMap,      \* s_IdMap, <<>> for nullptr
          stopped,    \* "no", "fault" or "panic"
          configured, \* PrepareSleep was the last to program counter 2 (history)
          counted,    \* counts of counter 2 since Sleep began (history)
          during      \* APIC ticks while the calibrating Sleep counted (history)

pitVars == <<divisor, counter, gate, ticks, configured, counted>>
listVars == <<list, idMap>>
vars == <<pc, then, pitVars, apic, listVars, stopped, during>>

PIT_FREQ == 1193180
Running == stopped = "no"
Idle == Running /\ pc = "idle"

-----------------------------------------------------------------------------
(* The PIT: a byte sent to counter 2, and a command.                       *)

\* SendData(PIT_OCW_COUNTER_2, b)
Sent(c, b) ==
  IF ~c.half THEN [c EXCEPT !.half = TRUE, !.low = b, !.counting = FALSE, !.out = FALSE]
  ELSE [c EXCEPT !.half = FALSE, !.counting = TRUE,
                 !.count = IF b * 256 + c.low = 0 THEN FullCount ELSE b * 256 + c.low]

Commanded(c, mode) ==
  [c EXCEPT !.mode = mode, !.half = FALSE, !.counting = FALSE, !.out = FALSE]

\* Which counter SendData takes its first argument for.
CounterOf(w) == CASE w = 0 -> 0 [] w = 64 -> 1 [] OTHER -> 2

\* StartCounter passes the divisor for the counter and 0 for the byte; the divisor has lost
\* its high byte, so that the second byte goes to counter 0.
StrayByte(freq) == CounterOf((PIT_FREQ \div (freq % 65536)) % 256) = 2

Started(c, freq, target, mode) ==
  LET commanded == IF target = 2 THEN Commanded(c, mode) ELSE c
  IN  IF StrayByte(freq) THEN Sent(commanded, 0) ELSE commanded

StartCounter ==
  /\ Idle
  /\ \E freq \in Freqs \ {0}, target \in 0..2, mode \in Modes :
       \/ /\ freq % 65536 = 0
          /\ stopped' = "fault"
          /\ UNCHANGED <<counter, ticks, configured>>
       \/ /\ freq % 65536 # 0
          /\ counter' = Started(counter, freq, target, mode)
          /\ configured' = (configured /\ target # 2 /\ ~StrayByte(freq))
          /\ ticks' = 0
          /\ UNCHANGED stopped
  /\ UNCHANGED <<pc, then, divisor, gate, counted, apic, listVars, during>>

SetTickCount ==
  /\ Idle
  /\ \E n \in 0..1 : ticks' = n
  /\ UNCHANGED <<pc, then, divisor, counter, gate, configured, counted, apic, listVars, stopped, during>>

\* PrepareSleep: at most 54 ms, the longer span only warned of (see above).  The quotient is 0 but for one microsecond, and a span of 0
\* divides by it.
Prepared(span) ==
  LET s == IF span > 54000 THEN 54000 ELSE span
  IN /\ counter' = Commanded(counter, 0)
     /\ IF s = 0 THEN stopped' = "fault" /\ UNCHANGED <<divisor, configured>>
        ELSE /\ divisor' = (PIT_FREQ \div 1000000) \div s
             /\ configured' = TRUE /\ UNCHANGED stopped

PrepareSleep ==
  /\ Idle
  /\ \E span \in Spans : Prepared(span)
  /\ UNCHANGED <<pc, then, gate, ticks, counted, apic, listVars, during>>

-----------------------------------------------------------------------------
(* Pit::Sleep, called by anyone and by LocalApicStartTimer.                *)

Step(from, to) == Running /\ pc = from /\ pc' = to
SleepUnchanged == UNCHANGED <<then, divisor, ticks, apic, listVars, stopped, configured, during>>

Sleep ==
  /\ Idle
  /\ pc' = "low" /\ then' = "idle" /\ counted' = 0
  /\ UNCHANGED <<divisor, counter, gate, ticks, configured, apic, listVars, stopped, during>>

SendLow ==
  /\ Step("low", "high")
  /\ counter' = Sent(counter, divisor % 256)
  /\ UNCHANGED <<gate, counted>> /\ SleepUnchanged

SendHigh ==
  /\ Step("high", "gateOff")
  /\ counter' = Sent(counter, (divisor \div 256) % 256)
  /\ UNCHANGED <<gate, counted>> /\ SleepUnchanged

GateOff ==
  /\ Step("gateOff", "gateOn")
  /\ gate' = FALSE
  /\ UNCHANGED <<counter, counted>> /\ SleepUnchanged

\* Mutant: the gate keeps the bit read before.
GateUpUnset == gate' = gate

GateUp == gate' = TRUE

GateOn ==
  /\ Step("gateOn", "poll")
  /\ GateUp
  /\ UNCHANGED <<counter, counted>> /\ SleepUnchanged

\* Mutant: the poll stops while the output is down.
RisenNot == ~counter.out \/ counter.mode # 0

\* Bit 5 of port 0x61.
Risen == counter.out \/ counter.mode # 0

Poll ==
  /\ Running /\ pc = "poll"
  /\ Risen
  /\ pc' = then /\ counted' = 0
  /\ UNCHANGED <<gate, counter>> /\ SleepUnchanged

-----------------------------------------------------------------------------
(* The local APIC.  Before LocalApicPrepare its registers are on the null  *)
(* page.                                                                   *)

Fault ==
  /\ stopped' = "fault"
  /\ UNCHANGED <<pc, then, pitVars, apic, listVars, during>>

\* LocalApicCreateMapping: every call takes a new address, and one that is not the default
\* is only warned of (see above).
LocalApicPrepare ==
  /\ Idle /\ apic.base < MaxWindows
  /\ apic' = [apic EXCEPT !.base = @ + 1]
  /\ UNCHANGED <<pc, then, pitVars, listVars, stopped, during>>

\* LocalApicInitialize up to the timer.
LocalApicInitialize ==
  /\ Idle
  /\ IF apic.base = 0 THEN Fault
     ELSE /\ pc' = "prepare"
          /\ apic' = [apic EXCEPT !.timer = "masked", !.enabled = TRUE]
          /\ UNCHANGED <<then, pitVars, listVars, stopped, during>>

\* LocalApicSendEndOfInt; LocalApicWaitForIcrSend reads a bit that is never set.
WriteRegister ==
  /\ Idle /\ apic.base = 0 /\ Fault

StartTimerPrepare ==
  /\ Step("prepare", "arm")
  /\ Prepared(10000)
  /\ UNCHANGED <<then, gate, ticks, counted, apic, listVars, during>>

\* The initial count, which starts the timer.
StartTimerArm ==
  /\ Step("arm", "low")
  /\ then' = "mask"
  /\ apic' = [apic EXCEPT !.current = TimerMax]
  /\ counted' = 0 /\ during' = 0
  /\ UNCHANGED <<divisor, counter, gate, ticks, configured, listVars, stopped>>

StartTimerMask ==
  /\ Step("mask", "start")
  /\ apic' = [apic EXCEPT !.timer = "masked"]
  /\ UNCHANGED <<then, pitVars, listVars, stopped, during>>

\* Mutants: the counter is taken for the ticks; the period is ten of them.
TicksSeenLeft == apic.current
TenthNot(n) == n

TicksSeen == TimerMax - apic.current
Tenth(n) == n \div 10

\* Read the counter, then a periodic timer of a tenth of the ticks.
StartTimerStart ==
  /\ Step("start", "idle")
  /\ apic' = [apic EXCEPT !.timer = "periodic", !.initial = Tenth(TicksSeen)]
  /\ UNCHANGED <<then, pitVars, listVars, stopped, during>>

-----------------------------------------------------------------------------
(* The processors.                                                         *)

\* LinkedList::Find
Found(s, id) == \E i \in 1..Len(s) : s[i].apicId = id

\* What LinkedList holds; ProcessorAdd creates it.
Processors == IF list = <<>> THEN <<>> ELSE list[1]

\* ProcessorAdd turns away the processors Find does not find, with a warning (see above).
WithProcessor(s, id) == IF ~Found(s, id) THEN s ELSE Append(s, [id |-> id, apicId |-> id])

ProcessorAdd ==
  /\ Idle
  /\ \E id \in ApicIds : list' = << WithProcessor(Processors, id) >>
  /\ UNCHANGED <<pc, then, pitVars, apic, idMap, stopped, during>>

\* ProcessorGetNumberOfProcessors reads the count of a list that may not be there.
ProcessorGetNumberOfProcessors == Idle /\ list = <<>> /\ Fault

TopApicId(s) == Max({0} \cup {s[i].apicId : i \in 1..Len(s)})
MappingTable(s) ==
  [k \in 1..(TopApicId(s) + 1) |->
     FoldLeft(LAMBDA n, p : IF p.apicId = k - 1 THEN p.id ELSE n, 0, s)]

ProcessorApicIdCreateMappingTable ==
  /\ Idle
  /\ IF list = <<>> THEN Fault
     ELSE IF TopApicId(Processors) > 1024
     THEN stopped' = "panic" /\ UNCHANGED <<pc, then, pitVars, apic, listVars, during>>
     ELSE /\ idMap' = MappingTable(Processors)
          /\ UNCHANGED <<pc, then, pitVars, apic, list, stopped, during>>

-----------------------------------------------------------------------------
(* The counters.                                                           *)

PitClock ==
  /\ Running
  /\ gate /\ counter.counting /\ counter.mode = 0 /\ counter.count > 0
  /\ counter' = [counter EXCEPT !.count = @ - 1, !.out = (counter.count = 1)]
  /\ counted' = IF pc \in {"low", "high", "gateOff", "gateOn", "poll"} THEN counted + 1 ELSE 0
  /\ UNCHANGED <<pc, then, divisor, gate, ticks, configured, apic, listVars, stopped, during>>

ApicClock ==
  /\ Running
  /\ apic.current > 0
  /\ apic' = [apic EXCEPT !.current = @ - 1]
  /\ during' = IF pc = "poll" /\ then = "mask" THEN during + 1 ELSE during
  /\ UNCHANGED <<pc, then, pitVars, listVars, stopped>>

-----------------------------------------------------------------------------

Init ==
  /\ pc = "idle" /\ then = "idle"
  /\ divisor = 0 /\ gate = FALSE /\ ticks = 0 /\ configured = FALSE /\ counted = 0
  /\ counter \in [mode : Modes, half : {FALSE}, low : {0}, counting : {FALSE}, count : {0},
                  out : BOOLEAN]
  /\ apic = [base |-> 0, enabled |-> FALSE, timer |-> "masked", initial |-> 0, current |-> 0]
  /\ list = <<>> /\ idMap = <<>>
  /\ stopped = "no" /\ during = 0

Steps ==
  \/ SendLow \/ SendHigh \/ GateOff \/ GateOn \/ Poll
  \/ StartTimerPrepare \/ StartTimerArm \/ StartTimerMask \/ StartTimerStart

Calls ==
  \/ StartCounter \/ SetTickCount \/ PrepareSleep \/ Sleep
  \/ LocalApicPrepare \/ LocalApicInitialize \/ WriteRegister
  \/ ProcessorAdd \/ ProcessorGetNumberOfProcessors \/ ProcessorApicIdCreateMappingTable

Next == Steps \/ Calls \/ PitClock \/ ApicClock

Spec == Init /\ [][Next]_vars

\* The processor goes on, and the PIT's clock ticks.
FairSpec == Spec /\ WF_vars(Steps) /\ WF_vars(PitClock)

-----------------------------------------------------------------------------
(* Properties.                                                             *)

Counters == [mode : Modes \cup {0}, half : BOOLEAN, low : 0..255, counting : BOOLEAN,
             count : Nat, out : BOOLEAN]

Apics == [base : 0..MaxWindows, enabled : BOOLEAN, timer : {"masked", "periodic"},
          initial : 0..(TimerMax \div 10), current : 0..TimerMax]

Sleeping == {"low", "high", "gateOff", "gateOn", "poll"}

Located ==
  /\ pc \in Sleeping \cup {"idle", "prepare", "arm", "mask", "start"}
  /\ then \in {"idle", "mask"}
  /\ stopped \in {"no", "fault", "panic"}

Words == 0..65535

Counting == divisor \in Words /\ ticks \in Nat /\ counted \in Nat /\ during \in Nat

Flags == gate \in BOOLEAN /\ configured \in BOOLEAN

TypeOK == Located /\ Counting /\ Flags /\ counter \in Counters /\ apic \in Apics

\* The count of the span that PrepareSleep was given.
Count == IF divisor = 0 THEN FullCount ELSE divisor

\* Sleep returns when counter 2 has counted a whole span since the call, not at once because
\* the span before it has passed, however often Sleep is called after one PrepareSleep.
SleptFull == [][Poll /\ configured => counted >= Count]_vars

\* The period the APIC timer is started with is at least a tenth of the ticks that passed
\* while the calibrating Sleep waited.
Calibrated == apic.timer = "periodic" => apic.initial >= during \div 10

\* Sleep returns, unless StartCounter's stray byte or command has reached counter 2 since
\* PrepareSleep.
SleepEnds == (pc = "poll" /\ configured /\ Running) ~> (pc # "poll")
=============================================================================
