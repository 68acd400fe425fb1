------------------------------- MODULE Logger -------------------------------
(***************************************************************************)
(* Logger (src/kernel/Logger.cpp) and the SerialPort it writes to          *)
(* (system/SerialPort.cpp), used by several processors: one step per       *)
(* access of what they share.                                              *)
(*                                                                         *)
(* The two mutexes, s_Mutex of the logger and s_mutex of the ports, are    *)
(* their depths: module Mutex shows that Acquire never waits.  A message   *)
(* is the number of bytes vsprintf returns; Broken stands for the -2 it    *)
(* returns when it does not understand the format.                         *)
(***************************************************************************)
EXTENDS Integers, FiniteSets

CONSTANTS CPUs,
          FifoDepth,     \* 16: bytes the UART's transmitter holds
          Lengths,       \* lengths of messages vsprintf can print
          MappedBytes,   \* bytes from the message buffer to the end of mapped memory
          LevelsSet,     \* the levels clients set
          MaxDepth       \* bound: no call finds s_Mutex left at this depth

\* The driver never asks whether there is room, only whether the FIFO is empty.
ASSUME LoggerAssumption ==
  /\ IsFiniteSet(CPUs) /\ FifoDepth \in Nat /\ Cardinality(CPUs) <= FifoDepth
  /\ Lengths \subseteq Nat \ {0} /\ MappedBytes \in Nat /\ MaxDepth \in Nat

Broken == -2
Messages == Lengths \cup {Broken}

\* LogLevel, and the calls that use PrintWithLock.
Severity == [Information |-> 1, Warning |-> 2, Error |-> 4, Debug |-> 8]
Levels == DOMAIN Severity
LockedLevels == {"Debug", "Warning", "Error"}
ASSUME LevelsAssumption == LevelsSet \subseteq Levels

VARIABLES
  depth,      \* m_nDepth of s_Mutex
  acquired,   \* m_bAcquired
  serial,     \* m_bSerialEnabled
  console,    \* m_bConsoleEnabled
  level,      \* m_eLevel
  port,       \* what m_pCom points to: "live" or "freed"; never null
  portDepth,  \* m_nDepth of SerialPort's s_mutex
  fifo,       \* UART: bytes waiting to be sent
  received,   \* UART: bytes waiting to be read
  pc, message, left,   \* per processor: where it is, what it prints, bytes to go
  locking,    \* processors inside PrintWithLock
  holds,      \* processors that called Lock and not yet Unlock
  crowded     \* history: a processor entered Lock or Unlock while another was in it

lockVars == <<depth, acquired, crowded>>
flags == <<serial, console, level, port>>
uart == <<portDepth, fifo, received>>
job == <<message, left, locking, holds>>
vars == <<lockVars, flags, uart, pc, job>>

InLock == {"acquire", "mark", "release", "clear"}
InRead == {"read", "readByte", "readLeave"}
Labels == {"idle", "lock", "sink", "write", "poll", "out", "unlock", "delete",
           "faulted"} \cup InLock \cup InRead

Goto(c, l) == pc' = [pc EXCEPT ![c] = l]

-----------------------------------------------------------------------------
(* SetupLogging has constructed the logger and its port (COM1).            *)

Init ==
  /\ depth = 0 /\ acquired = FALSE /\ crowded = FALSE
  /\ serial = TRUE /\ console = TRUE /\ level = "Error" /\ port = "live"
  /\ portDepth = 0 /\ fifo = 0 /\ received = 0
  /\ pc = [c \in CPUs |-> "idle"]
  /\ message = [c \in CPUs |-> Broken]
  /\ left = [c \in CPUs |-> 0]
  /\ locking = {} /\ holds = {}

-----------------------------------------------------------------------------
(* The calls of a client.                                                  *)

\* Overlapping calls can leave s_Mutex deeper each time; while the flag is set, calls that
\* follow leave it as it is.
BelowBound == acquired \/ depth < MaxDepth

\* A level prints when it is BELOW the logger's: at level Error, errors do not.
Enabled(l) == Severity[l] < Severity[level]

\* Debug, Info, Warn and Error; one that is not enabled returns at once.  Only Info
\* prints without the lock.
Log(c, l, m) ==
  /\ pc[c] = "idle"
  /\ Enabled(l)
  /\ l \in LockedLevels => BelowBound
  /\ Goto(c, IF l \in LockedLevels THEN "lock" ELSE "sink")
  /\ message' = [message EXCEPT ![c] = m]
  /\ locking' = IF l \in LockedLevels THEN locking \cup {c} ELSE locking
  /\ UNCHANGED <<lockVars, flags, uart, left, holds>>

Lock(c) ==
  /\ pc[c] = "idle"
  /\ c \notin holds
  /\ BelowBound
  /\ holds' = holds \cup {c}
  /\ Goto(c, "lock")
  /\ UNCHANGED <<lockVars, flags, uart, message, left, locking>>

Unlock(c) ==
  /\ pc[c] = "idle"
  /\ c \in holds
  /\ holds' = holds \ {c}
  /\ Goto(c, "unlock")
  /\ UNCHANGED <<lockVars, flags, uart, message, left, locking>>

SetConsoleEnabled(c, on) ==
  /\ pc[c] = "idle"
  /\ console' = on
  /\ UNCHANGED <<lockVars, serial, level, port, uart, pc, message, left, locking, holds>>

SetLoggingLevel(c, l) ==
  /\ pc[c] = "idle"
  /\ level' = l
  /\ UNCHANGED <<lockVars, serial, console, port, uart, pc, message, left, locking, holds>>

\* The flag first, then the port: deleted, but m_pCom keeps pointing to it, so
\* that enabling the port again finds a pointer and creates nothing.
SetSerialPortEnabled(c, on) ==
  /\ pc[c] = "idle"
  /\ serial' = on
  /\ Goto(c, IF on THEN "idle" ELSE "delete")
  /\ UNCHANGED <<lockVars, console, level, port, uart, message, left, locking, holds>>

DeletePort(c) ==
  /\ pc[c] = "delete"
  /\ port' = "freed"
  /\ Goto(c, "idle")
  /\ UNCHANGED <<lockVars, serial, console, level, uart, job>>

-----------------------------------------------------------------------------
(* Logger::Lock and Logger::Unlock: m_bAcquired is read and written outside *)
(* the mutex and does not say who acquired it.                              *)

Crowds(c) == crowded' = (crowded \/ \E d \in CPUs \ {c} : pc[d] \in InLock)

AfterLock(c) == IF c \in locking THEN "sink" ELSE "idle"

LockTest(c) ==
  /\ pc[c] = "lock"
  /\ Goto(c, IF acquired THEN AfterLock(c) ELSE "acquire")
  /\ Crowds(c)
  /\ UNCHANGED <<depth, acquired, flags, uart, job>>

LockAcquire(c) ==
  /\ pc[c] = "acquire"
  /\ depth' = depth + 1
  /\ Goto(c, "mark")
  /\ UNCHANGED <<acquired, crowded, flags, uart, job>>

LockMark(c) ==
  /\ pc[c] = "mark"
  /\ acquired' = TRUE
  /\ Goto(c, AfterLock(c))
  /\ UNCHANGED <<depth, crowded, flags, uart, job>>

UnlockTest(c) ==
  /\ pc[c] = "unlock"
  /\ Goto(c, IF acquired THEN "release" ELSE "idle")
  /\ Crowds(c)
  /\ UNCHANGED <<depth, acquired, flags, uart, job>>

\* Mutant: Release of a mutex nobody holds counts below zero.
UnlockReleaseAnyway(c) ==
  /\ pc[c] = "release"
  /\ depth' = depth - 1
  /\ Goto(c, "clear")
  /\ UNCHANGED <<acquired, crowded, flags, uart, job>>

UnlockRelease(c) ==
  /\ pc[c] = "release"
  /\ depth' = IF depth > 0 THEN depth - 1 ELSE 0
  /\ Goto(c, "clear")
  /\ UNCHANGED <<acquired, crowded, flags, uart, job>>

\* Mutant: the flag stays set.
UnlockKeepingFlag(c) ==
  /\ pc[c] = "clear"
  /\ Goto(c, "idle")
  /\ UNCHANGED <<lockVars, flags, uart, job>>

UnlockClear(c) ==
  /\ pc[c] = "clear"
  /\ acquired' = FALSE
  /\ Goto(c, "idle")
  /\ UNCHANGED <<depth, crowded, flags, uart, job>>

-----------------------------------------------------------------------------
(* Logger::Print and SerialPort::Write.  The text has been formatted into a *)
(* local buffer and shown on the console (module KTextMode) when "sink" asks *)
(* for the serial port.                                                     *)

\* PrintWithLock ends in Unlock, Info returns; the message goes with the call's locals.
AfterPrint(c) ==
  /\ Goto(c, IF c \in locking THEN "unlock" ELSE "idle")
  /\ locking' = locking \ {c}
  /\ message' = [message EXCEPT ![c] = Broken]

PrintConsoleOnly(c) ==
  /\ pc[c] = "sink"
  /\ ~serial
  /\ AfterPrint(c)
  /\ UNCHANGED <<lockVars, flags, uart, left, holds>>

PrintSerial(c) ==
  /\ pc[c] = "sink"
  /\ serial
  /\ Goto(c, "write")
  /\ UNCHANGED <<lockVars, flags, uart, job>>

\* Mutant: the mutex of the ports keeps others out.
WriteEnterAlone(c) ==
  /\ pc[c] = "write"
  /\ portDepth = 0
  /\ portDepth' = 1
  /\ left' = [left EXCEPT ![c] = IF message[c] = Broken THEN MappedBytes ELSE message[c]]
  /\ Goto(c, "poll")
  /\ UNCHANGED <<lockVars, flags, fifo, received, message, locking, holds>>

\* A length of -2 is a huge size_t: the loop reads on behind the buffer.
WriteEnter(c) ==
  /\ pc[c] = "write"
  /\ portDepth' = portDepth + 1
  /\ left' = [left EXCEPT ![c] = IF message[c] = Broken THEN MappedBytes ELSE message[c]]
  /\ Goto(c, "poll")
  /\ UNCHANGED <<lockVars, flags, fifo, received, message, locking, holds>>

\* Mutant: the status bit is read and not waited for.
PollOnce(c) ==
  /\ pc[c] = "poll"
  /\ left[c] > 0
  /\ Goto(c, "out")
  /\ UNCHANGED <<lockVars, flags, uart, job>>

\* QueueIsEmpty: bit 5 of the line status.  A deleted port may name any register.
Poll(c) ==
  /\ pc[c] = "poll"
  /\ left[c] > 0
  /\ fifo = 0 \/ port = "freed"
  /\ Goto(c, "out")
  /\ UNCHANGED <<lockVars, flags, uart, job>>

\* One byte more; from the second on those that find no place are not told apart.
Pushed == IF fifo > FifoDepth THEN fifo ELSE fifo + 1

Out(c) ==
  /\ pc[c] = "out"
  /\ fifo' \in {Pushed} \cup (IF port = "freed" THEN {fifo} ELSE {})
  /\ left' = [left EXCEPT ![c] = @ - 1]
  /\ Goto(c, "poll")
  /\ UNCHANGED <<lockVars, flags, portDepth, received, message, locking, holds>>

WriteLeave(c) ==
  /\ pc[c] = "poll"
  /\ left[c] = 0 /\ message[c] # Broken
  /\ portDepth' = portDepth - 1
  /\ AfterPrint(c)
  /\ UNCHANGED <<lockVars, flags, fifo, received, left, holds>>

\* Behind the last mapped byte: a page fault nobody handles.
WriteFaults(c) ==
  /\ pc[c] = "poll"
  /\ left[c] = 0 /\ message[c] = Broken
  /\ Goto(c, "faulted")
  /\ UNCHANGED <<lockVars, flags, uart, job>>

-----------------------------------------------------------------------------
(* SerialPort::Read of one byte, with the mutex held while it waits.        *)

Read(c) ==
  /\ pc[c] = "idle"
  /\ Goto(c, "read")
  /\ UNCHANGED <<lockVars, flags, uart, message, left, locking, holds>>

ReadEnter(c) ==
  /\ pc[c] = "read"
  /\ portDepth' = portDepth + 1
  /\ Goto(c, "readByte")
  /\ UNCHANGED <<lockVars, flags, fifo, received, job>>

\* Two readers that both saw the byte may both take it: the second gets nothing new.
ReadByte(c) ==
  /\ pc[c] = "readByte"
  /\ received > 0
  /\ received' = received - 1
  /\ Goto(c, "readLeave")
  /\ UNCHANGED <<lockVars, flags, portDepth, fifo, job>>

ReadLeave(c) ==
  /\ pc[c] = "readLeave"
  /\ portDepth' = portDepth - 1
  /\ Goto(c, "idle")
  /\ UNCHANGED <<lockVars, flags, fifo, received, job>>

-----------------------------------------------------------------------------
(* The UART (external): it sends what is in the FIFO; a byte may come in.   *)

Transmit ==
  /\ fifo > 0
  /\ fifo' = fifo - 1
  /\ UNCHANGED <<lockVars, flags, portDepth, received, pc, job>>

Receive ==
  /\ received = 0
  /\ received' = 1
  /\ UNCHANGED <<lockVars, flags, portDepth, fifo, pc, job>>

Call(c) ==
  \/ \E l \in Levels, m \in Messages : Log(c, l, m)
  \/ Lock(c)
  \/ Unlock(c)
  \/ \E on \in BOOLEAN : SetConsoleEnabled(c, on) \/ SetSerialPortEnabled(c, on)
  \/ \E l \in LevelsSet : SetLoggingLevel(c, l)
  \/ Read(c)

Step(c) ==
  \/ LockTest(c) \/ LockAcquire(c) \/ LockMark(c)
  \/ UnlockTest(c) \/ UnlockRelease(c) \/ UnlockClear(c)
  \/ PrintConsoleOnly(c) \/ PrintSerial(c)
  \/ WriteEnter(c) \/ Poll(c) \/ Out(c) \/ WriteLeave(c) \/ WriteFaults(c)
  \/ DeletePort(c)
  \/ ReadEnter(c) \/ ReadByte(c) \/ ReadLeave(c)

Next == (\E c \in CPUs : Call(c) \/ Step(c)) \/ Transmit \/ Receive

Spec == Init /\ [][Next]_vars

\* Inside a call a processor keeps executing, and the UART keeps sending; nobody
\* promises that a byte is ever received.
FairSpec == Spec /\ WF_vars(Transmit) /\ \A c \in CPUs : WF_vars(Step(c))

-----------------------------------------------------------------------------
TypeOK ==
  /\ depth \in Nat /\ portDepth \in Nat /\ fifo \in Nat /\ received \in {0, 1}
  /\ acquired \in BOOLEAN /\ serial \in BOOLEAN /\ console \in BOOLEAN
  /\ crowded \in BOOLEAN
  /\ level \in Levels /\ port \in {"live", "freed"}
  /\ pc \in [CPUs -> Labels]
  /\ message \in [CPUs -> Messages] /\ left \in [CPUs -> Nat]
  /\ locking \subseteq CPUs /\ holds \subseteq CPUs

Quiet == (\A c \in CPUs : pc[c] = "idle") /\ holds = {}

\* Between calls, when no client holds the lock: however the calls were interleaved,
\* m_bAcquired is clear and the ports' mutex free; s_Mutex is free unless calls of Lock and
\* Unlock overlapped, for then it may stay acquired (NothingLeftLocked).
QuietUnlocked == Quiet => ~acquired /\ portDepth = 0 /\ (~crowded => depth = 0)

\* As long as no processor entered Lock or Unlock while another was inside, m_bAcquired
\* says exactly whether s_Mutex is held, and it is held at most once.
LockAgrees ==
  ~crowded /\ (\A c \in CPUs : pc[c] \notin InLock) => depth = (IF acquired THEN 1 ELSE 0)

\* Lock and Unlock come in pairs, although the flag that guards them does not say whose
\* the mutex is: what one call took is given back by the time all have returned, but for
\* what the first property excepts.
LockSound == QuietUnlocked /\ LockAgrees

\* Although every processor writes as soon as it has seen the FIFO empty, and the mutex
\* keeps nobody out, the FIFO never gets more bytes than it holds.
NoOverrun == port = "live" => fifo <= FifoDepth

\* From some point on the other processors start no calls; those they are in go on.
OthersStop(c) == <>[][\A d \in CPUs \ {c} : ~Call(d)]_vars

\* A call that prints, locks or unlocks ends once the others stop calling, also while one
\* of them waits in Read with the ports' mutex held for ever, and whatever prints at the
\* same time; excepted are a port that was deleted and a message that runs through memory.
CallsEnd ==
  \A c \in CPUs : OthersStop(c) =>
    (pc[c] \notin InRead \cup {"idle", "faulted"} ~>
       pc[c] \in {"idle", "faulted"} \/ port = "freed")

-----------------------------------------------------------------------------
(* Claims that do not hold; the README says which cfg refutes which.        *)

\* s_Mutex is free when all calls have returned.
NothingLeftLocked == Quiet => depth = 0

\* Between its Lock and its Unlock a processor has the mutex.
LockKept ==
  \A c \in CPUs :
    (c \in holds /\ pc[c] = "idle") \/ (c \in locking /\ pc[c] \in {"sink", "write", "poll"}) =>
      depth > 0

\* "Block until buffer is not full": a processor that waits for ever waits for a buffer
\* that stays full.
WaitsWhileFull ==
  \A c \in CPUs :
    <>[](pc[c] = "poll" /\ left[c] > 0 /\ port = "live") => <>[](fifo >= FifoDepth)

=============================================================================
