---------------------------- MODULE LoggerProofs ----------------------------
(***************************************************************************)
(* What holds of the logger and its port for every number of processors,   *)
(* every length of message and every FIFO with a place for each processor. *)
(***************************************************************************)
EXTENDS Logger, FiniteSetTheorems, TLAPS

\* The inductive invariant.  The ports' mutex counts the processors inside Write and
\* Read; a processor about to send has a byte left to send.
Seated == {c \in CPUs : pc[c] \in {"poll", "out", "faulted", "readByte", "readLeave"}}
SeatsCounted == portDepth = Cardinality(Seated)
ByteLeft == \A c \in CPUs : pc[c] = "out" => left[c] > 0

\* Those who have seen the FIFO empty and not yet written find a place each.
Sending == {c \in CPUs : pc[c] = "out"}
RoomForAll == port = "live" => fifo + Cardinality(Sending) <= Cardinality(CPUs)

\* Whoever is inside Lock will call Unlock; while m_bAcquired is set, somebody will.
Printing == {"lock", "acquire", "mark", "sink", "write", "poll", "out", "faulted"}
LockersOwe ==
  \A c \in CPUs :
    /\ pc[c] \in {"lock", "acquire", "mark"} => c \in holds \cup locking
    /\ c \in locking => pc[c] \in Printing
AcquiredIsOwed ==
  acquired =>
    \E c \in CPUs : c \in holds \cup locking \/ pc[c] \in {"unlock", "release", "clear"}

\* Without a crowd one processor at most is between the flag and the mutex, and where it
\* is says what both are.
OneInLock ==
  ~crowded =>
    /\ \A c, d \in CPUs : pc[c] \in InLock /\ pc[d] \in InLock => c = d
    /\ \A c \in CPUs :
         /\ pc[c] = "acquire" => ~acquired /\ depth = 0
         /\ pc[c] = "mark"    => ~acquired /\ depth = 1
         /\ pc[c] = "release" => acquired /\ depth = 1
         /\ pc[c] = "clear"   => acquired /\ depth = 0

IInv ==
  /\ TypeOK
  /\ SeatsCounted
  /\ ByteLeft
  /\ RoomForAll
  /\ LockersOwe
  /\ AcquiredIsOwed
  /\ OneInLock
  /\ LockAgrees

-----------------------------------------------------------------------------
(* Types.                                                                  *)

\* The types of everything but portDepth, which SeatsCounted bounds.
Typed ==
  /\ depth \in Nat /\ portDepth \in Int /\ fifo \in Nat /\ received \in {0, 1}
  /\ acquired \in BOOLEAN /\ serial \in BOOLEAN /\ console \in BOOLEAN
  /\ crowded \in BOOLEAN
  /\ level \in Levels /\ port \in {"live", "freed"}
  /\ pc \in [CPUs -> Labels]
  /\ message \in [CPUs -> Messages] /\ left \in [CPUs -> Nat]
  /\ locking \subseteq CPUs /\ holds \subseteq CPUs

\* Calls set flags and start; only c's own entries change.
LEMMA CallTyped == ASSUME Typed, NEW c \in CPUs, Call(c) PROVE Typed'
<1> USE DEF Typed, Labels, InLock, InRead, Goto, lockVars, flags, uart
<1>1. CASE \E l \in Levels, m \in Messages : Log(c, l, m)
  BY <1>1 DEF Log
<1>2. CASE Lock(c) \/ Unlock(c) \/ Read(c)
  BY <1>2 DEF Lock, Unlock, Read
<1>3. CASE \E on \in BOOLEAN : SetConsoleEnabled(c, on) \/ SetSerialPortEnabled(c, on)
  BY <1>3 DEF SetConsoleEnabled, SetSerialPortEnabled
<1>4. CASE \E l \in LevelsSet : SetLoggingLevel(c, l)
  BY <1>4, LevelsAssumption DEF SetLoggingLevel
<1> QED BY <1>1, <1>2, <1>3, <1>4 DEF Call

\* Steps inside a call; those of Lock and Unlock, of printing, and of the port.
LEMMA StepTyped == ASSUME Typed, ByteLeft, NEW c \in CPUs, Step(c) PROVE Typed'
<1> USE LoggerAssumption DEF Typed, Labels, InLock, InRead, Goto, lockVars, flags, uart, job
<1>0. Broken \in Messages
  BY DEF Messages
<1>1. CASE LockTest(c) \/ UnlockTest(c)
  BY <1>1 DEF LockTest, UnlockTest, Crowds, AfterLock
<1>2. CASE LockAcquire(c)
  BY <1>2 DEF LockAcquire
<1>3. CASE LockMark(c)
  <2>1. AfterLock(c) \in Labels
    BY DEF AfterLock
  <2> QED BY <1>3, <2>1 DEF LockMark
<1>4. CASE UnlockRelease(c) \/ UnlockClear(c)
  <2>1. (IF depth > 0 THEN depth - 1 ELSE 0) \in Nat
    OBVIOUS
  <2> QED BY <1>4, <2>1 DEF UnlockRelease, UnlockClear
<1>5. CASE PrintConsoleOnly(c) \/ PrintSerial(c) \/ DeletePort(c)
  BY <1>0, <1>5 DEF PrintConsoleOnly, PrintSerial, DeletePort, AfterPrint
<1>6. CASE WriteEnter(c)
  <2>1. (IF message[c] = Broken THEN MappedBytes ELSE message[c]) \in Nat
    BY DEF Messages
  <2> QED BY <1>6, <2>1 DEF WriteEnter
<1>7. CASE Out(c)
  <2>1. Pushed \in Nat
    BY DEF Pushed
  <2> QED BY <1>7, <2>1 DEF Out, ByteLeft
<1>8. CASE Poll(c) \/ WriteLeave(c) \/ WriteFaults(c)
  BY <1>0, <1>8 DEF Poll, WriteLeave, WriteFaults, AfterPrint
<1>9. CASE ReadEnter(c) \/ ReadByte(c) \/ ReadLeave(c)
  BY <1>9 DEF ReadEnter, ReadByte, ReadLeave
<1> QED BY <1>1, <1>2, <1>3, <1>4, <1>5, <1>6, <1>7, <1>8, <1>9 DEF Step

-----------------------------------------------------------------------------
(* What the steps leave alone.                                             *)

\* A call starts from "idle", takes and gives what it owes, and touches neither mutex, nor
\* the port, nor what others owe.
LEMMA CallFrame ==
  ASSUME Typed, NEW c \in CPUs, Call(c)
  PROVE  /\ UNCHANGED <<lockVars, uart, left, port>>
         /\ pc[c] = "idle"
         /\ \A d \in CPUs \ {c} : (d \in holds' <=> d \in holds) /\ (d \in locking' <=> d \in locking)
         /\ \E l \in {"idle", "lock", "sink", "unlock", "delete", "read"} :
              /\ Goto(c, l)
              /\ l = "lock" => c \in holds' \cup locking'
              /\ c \in locking' => c \in locking \/ l = "lock"
              /\ c \in locking => c \in locking'
              /\ c \in holds => c \in holds' \/ l = "unlock"
<1> USE DEF Typed, Goto, lockVars, flags, uart
<1>1. CASE \E l \in Levels, m \in Messages : Log(c, l, m)
  BY <1>1 DEF Log
<1>2. CASE Lock(c) \/ Read(c)
  BY <1>2 DEF Lock, Read
<1>3. CASE Unlock(c)
  BY <1>3 DEF Unlock
<1>4. CASE \E on \in BOOLEAN : SetConsoleEnabled(c, on)
  <2>1. pc' = [pc EXCEPT ![c] = "idle"]
    BY <1>4 DEF SetConsoleEnabled
  <2> QED BY <1>4, <2>1 DEF SetConsoleEnabled
<1>5. CASE \E on \in BOOLEAN : SetSerialPortEnabled(c, on)
  BY <1>5 DEF SetSerialPortEnabled
<1>6. CASE \E l \in LevelsSet : SetLoggingLevel(c, l)
  <2>1. pc' = [pc EXCEPT ![c] = "idle"]
    BY <1>6 DEF SetLoggingLevel
  <2> QED BY <1>6, <2>1 DEF SetLoggingLevel
<1> QED BY <1>1, <1>2, <1>3, <1>4, <1>5, <1>6 DEF Call

LockStep(c) ==
  \/ LockTest(c) \/ LockAcquire(c) \/ LockMark(c)
  \/ UnlockTest(c) \/ UnlockRelease(c) \/ UnlockClear(c)

PortStep(c) ==
  \/ PrintConsoleOnly(c) \/ PrintSerial(c) \/ DeletePort(c)
  \/ WriteEnter(c) \/ Poll(c) \/ Out(c) \/ WriteLeave(c) \/ WriteFaults(c)
  \/ ReadEnter(c) \/ ReadByte(c) \/ ReadLeave(c)

\* Steps of Lock and Unlock leave the port and what is owed alone.
LEMMA LockFrame ==
  ASSUME Typed, NEW c \in CPUs, LockStep(c)
  PROVE  /\ UNCHANGED <<flags, uart, job>>
         /\ pc[c] \in {"lock", "unlock"} \cup InLock
         /\ \E l \in {"idle", "sink"} \cup InLock : Goto(c, l) /\ (l = "sink" => c \in locking)
BY DEF LockStep, LockTest, LockAcquire, LockMark, UnlockTest, UnlockRelease, UnlockClear,
       AfterLock, InLock

\* Steps that print or read leave the flag and its mutex alone; a processor that prints
\* with the lock goes on printing or turns to Unlock.
LEMMA PortFrame ==
  ASSUME Typed, NEW c \in CPUs, PortStep(c)
  PROVE  /\ UNCHANGED <<lockVars, holds>>
         /\ pc[c] \in {"sink", "delete", "write", "poll", "out"} \cup InRead
         /\ \A d \in CPUs \ {c} : d \in locking' <=> d \in locking
         /\ \E l \in {"idle", "write", "poll", "out", "faulted", "unlock"} \cup InRead :
              /\ Goto(c, l)
              /\ \/ locking' = locking /\ (pc[c] \in Printing => l \in Printing)
                 \/ c \notin locking' /\ (c \in locking => l = "unlock")
<1> USE DEF Goto, InRead, Printing, AfterPrint, flags, job
<1>1. CASE PrintConsoleOnly(c) \/ PrintSerial(c) \/ DeletePort(c)
  BY <1>1 DEF PrintConsoleOnly, PrintSerial, DeletePort
<1>2. CASE WriteEnter(c) \/ Poll(c) \/ Out(c) \/ WriteLeave(c) \/ WriteFaults(c)
  BY <1>2 DEF WriteEnter, Poll, Out, WriteLeave, WriteFaults
<1>3. CASE ReadEnter(c) \/ ReadByte(c) \/ ReadLeave(c)
  BY <1>3 DEF ReadEnter, ReadByte, ReadLeave
<1> QED BY <1>1, <1>2, <1>3 DEF PortStep

-----------------------------------------------------------------------------
(* Who owes an Unlock.                                                     *)

LEMMA OwedByCalls ==
  ASSUME Typed, LockersOwe, AcquiredIsOwed, NEW c \in CPUs, Call(c)
  PROVE  LockersOwe' /\ AcquiredIsOwed'
BY CallFrame DEF Typed, LockersOwe, AcquiredIsOwed, Goto, Printing, lockVars

LEMMA OwedByLockSteps ==
  ASSUME Typed, LockersOwe, AcquiredIsOwed, NEW c \in CPUs, LockStep(c)
  PROVE  LockersOwe' /\ AcquiredIsOwed'
<1> USE DEF Typed, LockersOwe, AcquiredIsOwed, Goto, Printing, job, AfterLock
<1>1. CASE LockTest(c)
  BY <1>1 DEF LockTest
<1>2. CASE LockAcquire(c) \/ LockMark(c)
  BY <1>2 DEF LockAcquire, LockMark
<1>3. CASE UnlockTest(c)
  BY <1>3 DEF UnlockTest
<1>4. CASE UnlockRelease(c) \/ UnlockClear(c)
  BY <1>4 DEF UnlockRelease, UnlockClear
<1> QED BY <1>1, <1>2, <1>3, <1>4 DEF LockStep

LEMMA OwedByPortSteps ==
  ASSUME Typed, LockersOwe, AcquiredIsOwed, NEW c \in CPUs, PortStep(c)
  PROVE  LockersOwe' /\ AcquiredIsOwed'
BY PortFrame DEF Typed, LockersOwe, AcquiredIsOwed, Goto, Printing, InRead, lockVars

-----------------------------------------------------------------------------
(* The flag and the mutex.                                                 *)

\* A processor that is outside Lock and Unlock before and after disturbs nothing.
LEMMA AgreementKept ==
  ASSUME Typed, OneInLock, LockAgrees, NEW c \in CPUs, NEW l, l \notin InLock,
         Goto(c, l), pc[c] \notin InLock, UNCHANGED lockVars
  PROVE  OneInLock' /\ LockAgrees'
BY DEF Typed, OneInLock, LockAgrees, InLock, Goto, lockVars

LEMMA AgreementOfCalls ==
  ASSUME Typed, OneInLock, LockAgrees, NEW c \in CPUs, Call(c)
  PROVE  OneInLock' /\ LockAgrees'
<1>1. PICK l \in {"idle", "lock", "sink", "unlock", "delete", "read"} : Goto(c, l)
  BY CallFrame
<1>2. l \notin InLock
  BY DEF InLock
<1>3. pc[c] \notin InLock /\ UNCHANGED lockVars
  BY CallFrame DEF InLock
<1> QED BY <1>1, <1>2, <1>3, AgreementKept

LEMMA AgreementOfPortSteps ==
  ASSUME Typed, OneInLock, LockAgrees, NEW c \in CPUs, PortStep(c)
  PROVE  OneInLock' /\ LockAgrees'
<1>1. PICK l \in {"idle", "write", "poll", "out", "faulted", "unlock"} \cup InRead : Goto(c, l)
  BY PortFrame
<1>2. l \notin InLock
  BY DEF InLock, InRead
<1>3. pc[c] \notin InLock /\ UNCHANGED lockVars
  BY PortFrame DEF InLock, InRead
<1> QED BY <1>1, <1>2, <1>3, AgreementKept

\* Entering alone, the processor finds what the one before left; what it does next is as
\* its place says.
LEMMA AgreementOfLockSteps ==
  ASSUME Typed, OneInLock, LockAgrees, NEW c \in CPUs, LockStep(c)
  PROVE  OneInLock' /\ LockAgrees'
<1> USE DEF Typed, OneInLock, LockAgrees, InLock, Goto
<1>1. CASE LockTest(c)
  BY <1>1 DEF LockTest, Crowds, AfterLock
<1>2. CASE LockAcquire(c)
  BY <1>2 DEF LockAcquire
<1>3. CASE LockMark(c)
  BY <1>3 DEF LockMark, AfterLock
<1>4. CASE UnlockTest(c)
  BY <1>4 DEF UnlockTest, Crowds
<1>5. CASE UnlockRelease(c)
  BY <1>5 DEF UnlockRelease
<1>6. CASE UnlockClear(c)
  BY <1>6 DEF UnlockClear
<1> QED BY <1>1, <1>2, <1>3, <1>4, <1>5, <1>6 DEF LockStep

-----------------------------------------------------------------------------
(* The ports' mutex, and room in the FIFO.                                 *)

LEMMA Finite == IsFiniteSet(Seated) /\ IsFiniteSet(Sending) /\ Cardinality(CPUs) \in Nat
<1>1. Seated \subseteq CPUs /\ Sending \subseteq CPUs
  BY DEF Seated, Sending
<1> QED BY <1>1, LoggerAssumption, FS_Subset, FS_CardinalityType

\* A processor that goes from outside Write and Read to outside changes neither set.
LEMMA OutsideKeepsSets ==
  ASSUME Typed, NEW c \in CPUs, NEW l, Goto(c, l), c \notin Seated,
         l \notin {"poll", "out", "faulted", "readByte", "readLeave"}
  PROVE  Seated' = Seated /\ Sending' = Sending
BY DEF Typed, Goto, Seated, Sending

LEMMA SeatsOutside ==
  ASSUME Typed, SeatsCounted, ByteLeft, RoomForAll, NEW c \in CPUs, NEW l, Goto(c, l),
         c \notin Seated, l \notin {"poll", "out", "faulted", "readByte", "readLeave"},
         UNCHANGED <<portDepth, fifo, left>>, port' \in {port, "freed"}
  PROVE  SeatsCounted' /\ ByteLeft' /\ RoomForAll'
<1>1. Seated' = Seated /\ Sending' = Sending
  BY OutsideKeepsSets
<1> QED BY <1>1 DEF Typed, SeatsCounted, ByteLeft, RoomForAll, Goto

LEMMA SeatsOfCalls ==
  ASSUME Typed, SeatsCounted, ByteLeft, RoomForAll, NEW c \in CPUs, Call(c)
  PROVE  SeatsCounted' /\ ByteLeft' /\ RoomForAll'
<1>1. PICK l \in {"idle", "lock", "sink", "unlock", "delete", "read"} : Goto(c, l)
  BY CallFrame
<1>2. c \notin Seated /\ UNCHANGED <<portDepth, fifo, left, port>>
  BY CallFrame DEF Seated, uart
<1> QED BY <1>1, <1>2, SeatsOutside

LEMMA SeatsOfLockSteps ==
  ASSUME Typed, SeatsCounted, ByteLeft, RoomForAll, NEW c \in CPUs, LockStep(c)
  PROVE  SeatsCounted' /\ ByteLeft' /\ RoomForAll'
<1>1. PICK l \in {"idle", "sink"} \cup InLock : Goto(c, l)
  BY LockFrame
<1>2. c \notin Seated /\ UNCHANGED <<portDepth, fifo, left, port>>
  BY LockFrame DEF Seated, uart, flags, job, InLock
<1>3. l \notin {"poll", "out", "faulted", "readByte", "readLeave"}
  BY DEF InLock
<1> QED BY <1>1, <1>2, <1>3, SeatsOutside

\* Entering Write or Read takes a seat, leaving gives one back.
LEMMA SeatTaken ==
  ASSUME Typed, SeatsCounted, NEW c \in CPUs, NEW l \in {"poll", "readByte"}, Goto(c, l),
         c \notin Seated, portDepth' = portDepth + 1
  PROVE  SeatsCounted' /\ Sending' = Sending
<1>1. Seated' = Seated \cup {c} /\ Sending' = Sending
  BY DEF Typed, Goto, Seated, Sending
<1>2. Cardinality(Seated \cup {c}) = Cardinality(Seated) + 1
  BY Finite, FS_AddElement
<1> QED BY <1>1, <1>2 DEF SeatsCounted

LEMMA SeatGivenBack ==
  ASSUME Typed, SeatsCounted, NEW c \in CPUs, NEW l \in {"unlock", "idle"}, Goto(c, l),
         c \in Seated, pc[c] # "out", portDepth' = portDepth - 1
  PROVE  SeatsCounted' /\ Sending' = Sending
<1>1. Seated' = Seated \ {c} /\ Sending' = Sending
  BY DEF Typed, Goto, Seated, Sending
<1>2. Cardinality(Seated \ {c}) = Cardinality(Seated) - 1
  BY Finite, FS_RemoveElement
<1> QED BY <1>1, <1>2 DEF SeatsCounted

\* Who sees the FIFO empty adds itself to those that see it so; there is one place each.
LEMMA SeatsOfPoll ==
  ASSUME Typed, SeatsCounted, ByteLeft, RoomForAll, NEW c \in CPUs, Poll(c)
  PROVE  SeatsCounted' /\ ByteLeft' /\ RoomForAll'
<1>1. Seated' = Seated /\ Sending' \subseteq CPUs /\ ByteLeft'
  BY DEF Typed, Poll, Goto, Seated, Sending, ByteLeft, job
<1>2. Cardinality(Sending') <= Cardinality(CPUs)
  BY <1>1, LoggerAssumption, FS_Subset
<1>3. Cardinality(Sending') \in Nat
  BY <1>1, LoggerAssumption, FS_Subset, FS_CardinalityType
<1>4. RoomForAll'
  BY <1>2, <1>3, Finite DEF RoomForAll, Poll, flags, uart
<1> QED BY <1>1, <1>4 DEF SeatsCounted, Poll, uart

\* Its byte takes the place.
LEMMA SeatsOfOut ==
  ASSUME Typed, SeatsCounted, ByteLeft, RoomForAll, NEW c \in CPUs, Out(c)
  PROVE  SeatsCounted' /\ ByteLeft' /\ RoomForAll'
<1>1. Seated' = Seated /\ Sending' = Sending \ {c} /\ c \in Sending /\ ByteLeft'
  BY DEF Typed, Out, Goto, Seated, Sending, ByteLeft
<1>2. Cardinality(Sending \ {c}) = Cardinality(Sending) - 1
  BY <1>1, Finite, FS_RemoveElement
<1>3. Cardinality(Sending) \in Nat
  BY Finite, FS_CardinalityType
<1>4. RoomForAll'
  <2>1. fifo' <= fifo + 1 /\ fifo' \in Nat /\ fifo \in Nat
    BY LoggerAssumption DEF Out, Pushed, Typed
  <2>2. port' = port
    BY DEF Out, flags
  <2> QED BY <1>1, <1>2, <1>3, <2>1, <2>2, Finite DEF RoomForAll
<1> QED BY <1>1, <1>4 DEF SeatsCounted, Out

LEMMA SeatsOfPortSteps ==
  ASSUME Typed, SeatsCounted, ByteLeft, RoomForAll, NEW c \in CPUs, PortStep(c)
  PROVE  SeatsCounted' /\ ByteLeft' /\ RoomForAll'
<1> USE DEF Typed, Goto, flags, uart, job
<1>1. CASE PrintConsoleOnly(c) \/ PrintSerial(c) \/ DeletePort(c)
  <2>1. PICK l \in {"idle", "unlock", "write"} : Goto(c, l)
    BY <1>1 DEF PrintConsoleOnly, PrintSerial, DeletePort, AfterPrint
  <2>2. c \notin Seated /\ UNCHANGED <<portDepth, fifo, left>> /\ port' \in {port, "freed"}
    BY <1>1 DEF PrintConsoleOnly, PrintSerial, DeletePort, Seated
  <2> QED BY <2>1, <2>2, SeatsOutside
<1>2. CASE WriteEnter(c)
  <2>1. SeatsCounted' /\ Sending' = Sending
    BY <1>2, SeatTaken DEF WriteEnter, Seated
  <2> QED BY <1>2, <2>1 DEF WriteEnter, ByteLeft, RoomForAll
<1>3. CASE WriteFaults(c)
  <2>1. Seated' = Seated /\ Sending' = Sending
    BY <1>3 DEF WriteFaults, Seated, Sending
  <2> QED BY <1>3, <2>1 DEF WriteFaults, ByteLeft, RoomForAll, SeatsCounted
<1>4. CASE WriteLeave(c) \/ ReadLeave(c)
  <2>1. PICK l \in {"unlock", "idle"} : Goto(c, l)
    BY <1>4 DEF WriteLeave, ReadLeave, AfterPrint
  <2>2. c \in Seated /\ pc[c] # "out" /\ portDepth' = portDepth - 1
    BY <1>4 DEF WriteLeave, ReadLeave, Seated
  <2>3. SeatsCounted' /\ Sending' = Sending
    BY <2>1, <2>2, SeatGivenBack
  <2> QED BY <1>4, <2>1, <2>3 DEF WriteLeave, ReadLeave, ByteLeft, RoomForAll
<1>5. CASE ReadEnter(c)
  <2>1. SeatsCounted' /\ Sending' = Sending
    BY <1>5, SeatTaken DEF ReadEnter, Seated
  <2> QED BY <1>5, <2>1 DEF ReadEnter, ByteLeft, RoomForAll
<1>6. CASE ReadByte(c)
  <2>1. Seated' = Seated /\ Sending' = Sending
    BY <1>6 DEF ReadByte, Seated, Sending
  <2> QED BY <1>6, <2>1 DEF ReadByte, ByteLeft, RoomForAll, SeatsCounted
<1> QED BY <1>1, <1>2, <1>3, <1>4, <1>5, <1>6, SeatsOfPoll, SeatsOfOut DEF PortStep

-----------------------------------------------------------------------------
LEMMA InitIInv == Init => IInv
<1> SUFFICES ASSUME Init PROVE IInv
  OBVIOUS
<1>1. Seated = {} /\ Sending = {}
  BY DEF Init, Seated, Sending
<1>2. SeatsCounted /\ RoomForAll
  BY <1>1, Finite, FS_EmptySet, FS_CardinalityType, LoggerAssumption
     DEF Init, SeatsCounted, RoomForAll
<1>3. TypeOK
  BY DEF Init, TypeOK, Labels, Levels, Severity, Messages
<1>4. ByteLeft /\ LockersOwe /\ AcquiredIsOwed
  BY DEF Init, ByteLeft, LockersOwe, AcquiredIsOwed
<1>5. OneInLock /\ LockAgrees
  BY DEF Init, OneInLock, LockAgrees, InLock
<1> QED BY <1>2, <1>3, <1>4, <1>5 DEF IInv

\* The UART takes from the FIFO and gives to the reader.
LEMMA DeviceKeepsIInv == IInv /\ (Transmit \/ Receive) => IInv'
<1> SUFFICES ASSUME IInv, Transmit \/ Receive PROVE IInv'
  OBVIOUS
<1> USE DEF Transmit, Receive, lockVars, flags, job
<1>1. TypeOK'
  BY DEF IInv, TypeOK
<1>2. Seated' = Seated /\ Sending' = Sending /\ fifo' <= fifo
  BY DEF IInv, TypeOK, Seated, Sending
<1>3. Cardinality(Sending) \in Nat
  BY Finite, FS_CardinalityType
<1>4. RoomForAll'
  BY <1>1, <1>2, <1>3, Finite DEF IInv, RoomForAll, TypeOK
<1>5. SeatsCounted' /\ ByteLeft' /\ LockersOwe' /\ AcquiredIsOwed'
  BY <1>2 DEF IInv, SeatsCounted, ByteLeft, LockersOwe, AcquiredIsOwed
<1>6. OneInLock' /\ LockAgrees'
  BY DEF IInv, OneInLock, LockAgrees
<1> QED BY <1>1, <1>4, <1>5, <1>6 DEF IInv

LEMMA StepIInv == IInv /\ [Next]_vars => IInv'
<1> SUFFICES ASSUME IInv, [Next]_vars PROVE IInv'
  OBVIOUS
<1>1. Typed
  BY DEF IInv, TypeOK, Typed
<1> USE <1>1 DEF IInv
<1>2. ASSUME NEW c \in CPUs, Call(c) \/ LockStep(c) \/ PortStep(c)
      PROVE  /\ Typed' /\ SeatsCounted' /\ ByteLeft' /\ RoomForAll'
             /\ LockersOwe' /\ AcquiredIsOwed' /\ OneInLock' /\ LockAgrees'
  <2>1. CASE Call(c)
    BY <2>1, CallTyped, SeatsOfCalls, OwedByCalls, AgreementOfCalls
  <2>2. CASE LockStep(c)
    <3>1. Typed'
      BY <2>2, StepTyped DEF LockStep, Step
    <3> QED BY <2>2, <3>1, SeatsOfLockSteps, OwedByLockSteps, AgreementOfLockSteps
  <2>3. CASE PortStep(c)
    <3>1. Typed'
      BY <2>3, StepTyped DEF PortStep, Step
    <3> QED BY <2>3, <3>1, SeatsOfPortSteps, OwedByPortSteps, AgreementOfPortSteps
  <2> QED BY <1>2, <2>1, <2>2, <2>3
<1>3. Typed' /\ SeatsCounted' => TypeOK'
  <2>1. (IsFiniteSet(Seated))'
    <3>1. Seated' \subseteq CPUs
      BY DEF Seated
    <3> QED BY <3>1, LoggerAssumption, FS_Subset
  <2>2. Cardinality(Seated') \in Nat
    BY <2>1, FS_CardinalityType
  <2> QED BY <2>2 DEF Typed, SeatsCounted, TypeOK
<1>4. CASE \E c \in CPUs : Call(c) \/ Step(c)
  BY <1>2, <1>3, <1>4 DEF Step, LockStep, PortStep
<1>5. CASE Transmit \/ Receive
  BY <1>5, DeviceKeepsIInv
<1>6. CASE UNCHANGED vars
  BY <1>6 DEF vars, lockVars, flags, uart, job, TypeOK, SeatsCounted, Seated, ByteLeft,
     RoomForAll, Sending, LockersOwe, AcquiredIsOwed, OneInLock, LockAgrees
<1> QED BY <1>4, <1>5, <1>6 DEF Next

\* Everything that holds in every reachable state, for any number of processors.
LEMMA Invariance == Spec => []IInv
BY InitIInv, StepIInv, PTL DEF Spec

-----------------------------------------------------------------------------
\* The logger's fields, its port and the UART keep their types; neither mutex is released
\* more often than it is acquired.
THEOREM LoggerTypeCorrect == Spec => []TypeOK
<1>1. IInv => TypeOK
  BY DEF IInv
<1> QED BY Invariance, <1>1, PTL

\* Lock, Unlock and the calls that print with the lock: once all have returned, m_bAcquired is
\* clear and the ports' mutex free, however they interleaved; s_Mutex is free, and the flag
\* right about it at every moment outside Lock and Unlock, if no two of them overlapped.
THEOREM LockIsSound == Spec => []LockSound
<1>1. IInv => LockSound
  <2>1. ASSUME IInv, Quiet PROVE ~acquired /\ portDepth = 0
    <3>1. Seated = {}
      BY <2>1 DEF Seated, Quiet
    <3>2. \A c \in CPUs : c \notin locking
      BY <2>1 DEF IInv, LockersOwe, Printing, Quiet
    <3>3. ~acquired
      BY <2>1, <3>2 DEF IInv, AcquiredIsOwed, Quiet
    <3> QED BY <2>1, <3>1, <3>3, FS_EmptySet DEF IInv, SeatsCounted
  <2>2. ASSUME IInv, Quiet, ~crowded PROVE depth = 0
    <3>1. \A c \in CPUs : pc[c] \notin InLock
      BY <2>2 DEF Quiet, InLock
    <3>2. ~acquired
      BY <2>1, <2>2
    <3> QED BY <2>2, <3>1, <3>2 DEF IInv, LockAgrees
  <2> QED BY <2>1, <2>2 DEF IInv, LockSound, QuietUnlocked
<1> QED BY Invariance, <1>1, PTL

\* SerialPort::Write: whatever the number of processors that see the FIFO empty at once, as
\* long as it has a place for each it is not overrun.
THEOREM FifoNotOverrun == Spec => []NoOverrun
<1>1. IInv => NoOverrun
  <2>1. Cardinality(Sending) \in Nat
    BY Finite, FS_CardinalityType
  <2> QED BY <2>1, Finite, LoggerAssumption DEF IInv, TypeOK, RoomForAll, NoOverrun
<1> QED BY Invariance, <1>1, PTL

=============================================================================
