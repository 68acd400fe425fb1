------------------------------- MODULE Mutex -------------------------------
(***************************************************************************)
(* The recursive spin mutex of klib (src/klib/Mutex/mutex.cpp).  Every     *)
(* access to shared memory is a step of its own, so that the calls of      *)
(* several processors interleave as they do on the machine.                *)
(*                                                                         *)
(* The mutex guards its own fields with an "edit lock", m_nLock, taken by  *)
(* a compare-and-swap.  Its owner is recorded as processor 0 whoever takes *)
(* it ("TODO: Get current processor id"), and that is what is modelled.    *)
(***************************************************************************)
EXTENDS Integers, FiniteSets

CONSTANTS CPUs,      \* the processors that share the mutex
          MaxHolds   \* bound: how deep one processor nests its Acquires

ASSUME CPUsAssumption == IsFiniteSet(CPUs)
ASSUME MaxHoldsAssumption == MaxHolds \in Nat \ {0}

VARIABLES initLock,     \* s_nInitLock, shared by the constructors of all mutexes
          initialized,  \* m_nInitialized
          lock,         \* m_nLock
          depth,        \* m_nDepth
          owner,        \* m_dwOwner
          pc,           \* where each processor is
          op,           \* the operation it is in
          seen,         \* m_nDepth as it loaded it inside the edit section
          result,       \* what its TryAcquire will return
          holds         \* successful Acquires it has not yet released (history)

vars == <<initLock, initialized, lock, depth, owner, pc, op, seen, result, holds>>
fields == <<initialized, depth, owner>>

Blank == "blank"               \* zero-filled storage, no constructor has run
Constructing == "1"            \* the value the mem-initialiser stores
INITIALIZED == "0xDEAD"        \* MUTEX_INITIALIZED
NoOwner == -1
CurrentProcessor == 0          \* what the code stores and compares for "current processor"

Ops == {"Acquire", "TryAcquire", "Release"}
Labels == {"idle", "ctorSpin", "ctorBody", "ctorLeave", "otherCtor",
           "spin", "edit", "update", "unlock", "halted"}
EditLabels == {"edit", "update", "unlock"}

Init ==
  /\ initLock = 0
  /\ initialized = Blank
  /\ lock = 0
  /\ depth = 0
  /\ owner = 0
  /\ pc = [c \in CPUs |-> "idle"]
  /\ op = [c \in CPUs |-> "Acquire"]
  /\ seen = [c \in CPUs |-> 0]
  /\ result = [c \in CPUs |-> FALSE]
  /\ holds = [c \in CPUs |-> 0]

Goto(c, label) == pc' = [pc EXCEPT ![c] = label]

-----------------------------------------------------------------------------
(* Construction.  The object is constructed once; constructors of other    *)
(* mutexes contend for the same s_nInitLock.  The mem-initialisers make    *)
(* the early return for an initialised object unreachable.                 *)

CtorEnter(c) ==
  /\ pc[c] = "idle"
  /\ initialized = Blank
  /\ initialized' = Constructing
  /\ lock' = 0
  /\ depth' = 0
  /\ owner' = NoOwner
  /\ Goto(c, "ctorSpin")
  /\ UNCHANGED <<initLock, op, seen, result, holds>>

CtorTakeInitLock(c) ==
  /\ pc[c] = "ctorSpin"
  /\ initLock = 0
  /\ initLock' = 1
  /\ Goto(c, "ctorBody")
  /\ UNCHANGED <<fields, lock, op, seen, result, holds>>

CtorBody(c) ==
  /\ pc[c] = "ctorBody"
  /\ lock' = 0
  /\ depth' = 0
  /\ owner' = NoOwner
  /\ initialized' = INITIALIZED
  /\ Goto(c, "ctorLeave")
  /\ UNCHANGED <<initLock, op, seen, result, holds>>

CtorLeave(c) ==
  /\ pc[c] = "ctorLeave"
  /\ initLock' = 0
  /\ Goto(c, "idle")
  /\ UNCHANGED <<fields, lock, op, seen, result, holds>>

OtherCtorEnter(c) ==
  /\ pc[c] = "idle"
  /\ initLock = 0
  /\ initLock' = 1
  /\ Goto(c, "otherCtor")
  /\ UNCHANGED <<fields, lock, op, seen, result, holds>>

OtherCtorLeave(c) ==
  /\ pc[c] = "otherCtor"
  /\ initLock' = 0
  /\ Goto(c, "idle")
  /\ UNCHANGED <<fields, lock, op, seen, result, holds>>

-----------------------------------------------------------------------------
(* Operations.  A client releases only what it acquired, as every user of  *)
(* the class in the kernel does; the bound MaxHolds stops endless nesting. *)

Call(c, o) ==
  /\ pc[c] = "idle"
  /\ o = "Release" => holds[c] > 0
  /\ o # "Release" => holds[c] < MaxHolds
  /\ op' = [op EXCEPT ![c] = o]
  /\ Goto(c, IF initialized = INITIALIZED THEN "spin" ELSE "halted")
  /\ UNCHANGED <<initLock, fields, lock, seen, result, holds>>

\* Mutant: the edit lock is taken without looking.
EditLockUntested(c) ==
  /\ pc[c] = "spin"
  /\ lock' = 1
  /\ Goto(c, "edit")
  /\ UNCHANGED <<initLock, fields, op, seen, result, holds>>

EditLock(c) ==
  /\ pc[c] = "spin"
  /\ lock = 0
  /\ lock' = 1
  /\ Goto(c, "edit")
  /\ UNCHANGED <<initLock, fields, op, seen, result, holds>>

ReadDepth(c) ==
  /\ pc[c] = "edit"
  /\ seen' = [seen EXCEPT ![c] = depth]
  /\ Goto(c, "update")
  /\ UNCHANGED <<initLock, fields, lock, op, result, holds>>

Granted(c) == seen[c] = 0 \/ owner = CurrentProcessor

\* Mutant: the depth is decremented.
UpdateDecrementing(c) ==
  /\ pc[c] = "update"
  /\ op[c] # "Release"
  /\ depth' = seen[c] - 1
  /\ holds' = [holds EXCEPT ![c] = @ + 1]
  /\ Goto(c, "unlock")
  /\ UNCHANGED <<initLock, initialized, lock, owner, op, seen, result>>

UpdateTryAcquire(c) ==
  /\ pc[c] = "update"
  /\ op[c] # "Release"
  /\ owner' = IF seen[c] = 0 THEN CurrentProcessor ELSE owner
  /\ depth' = IF Granted(c) THEN seen[c] + 1 ELSE depth
  /\ result' = [result EXCEPT ![c] = Granted(c)]
  /\ holds' = [holds EXCEPT ![c] = IF Granted(c) THEN @ + 1 ELSE @]
  /\ Goto(c, "unlock")
  /\ UNCHANGED <<initLock, initialized, lock, op, seen>>

\* Mutant: every Release clears the owner.
ReleaseClearingOwner(c) ==
  /\ pc[c] = "update"
  /\ op[c] = "Release"
  /\ depth' = IF seen[c] > 0 THEN seen[c] - 1 ELSE depth
  /\ owner' = NoOwner
  /\ holds' = [holds EXCEPT ![c] = @ - 1]
  /\ Goto(c, "unlock")
  /\ UNCHANGED <<initLock, initialized, lock, op, seen, result>>

UpdateRelease(c) ==
  /\ pc[c] = "update"
  /\ op[c] = "Release"
  /\ depth' = IF seen[c] > 0 THEN seen[c] - 1 ELSE depth
  /\ owner' = IF seen[c] = 1 THEN NoOwner ELSE owner
  /\ holds' = [holds EXCEPT ![c] = @ - 1]
  /\ Goto(c, "unlock")
  /\ UNCHANGED <<initLock, initialized, lock, op, seen, result>>

\* Mutant: the edit lock stays taken.
EditNeverUnlocked(c) ==
  /\ pc[c] = "unlock"
  /\ Goto(c, "idle")
  /\ UNCHANGED <<initLock, fields, lock, op, seen, result, holds>>

\* m_nLock = 0 and return; Acquire's loop tries again when it was refused.
EditUnlock(c) ==
  /\ pc[c] = "unlock"
  /\ lock' = 0
  /\ Goto(c, IF op[c] = "Acquire" /\ ~result[c] THEN "spin" ELSE "idle")
  /\ UNCHANGED <<initLock, fields, op, seen, result, holds>>

Step(c) ==
  \/ EditLock(c)
  \/ ReadDepth(c)
  \/ UpdateTryAcquire(c)
  \/ UpdateRelease(c)
  \/ EditUnlock(c)

Next ==
  \E c \in CPUs :
    \/ CtorEnter(c)
    \/ CtorTakeInitLock(c)
    \/ CtorBody(c)
    \/ CtorLeave(c)
    \/ OtherCtorEnter(c)
    \/ OtherCtorLeave(c)
    \/ \E o \in Ops : Call(c, o)
    \/ Step(c)

Spec == Init /\ [][Next]_vars

\* A processor inside an operation keeps executing: nothing preempts it.  Only
\* weak fairness: a spinning processor may lose every race for the edit lock.
FairSpec == Spec /\ \A c \in CPUs : WF_vars(Step(c))

-----------------------------------------------------------------------------
TypeOK ==
  /\ initLock \in {0, 1}
  /\ initialized \in {Blank, Constructing, INITIALIZED}
  /\ lock \in {0, 1}
  /\ depth \in Nat
  /\ owner \in {NoOwner, CurrentProcessor}
  /\ pc \in [CPUs -> Labels]
  /\ op \in [CPUs -> Ops]
  /\ seen \in [CPUs -> Nat]
  /\ result \in [CPUs -> BOOLEAN]
  /\ holds \in [CPUs -> 0..MaxHolds]

InEdit(c) == pc[c] \in EditLabels

\* One token for every Acquire that has succeeded and was not yet released.
HoldTokens == {t \in CPUs \X (1..MaxHolds) : t[2] <= holds[t[1]]}

\* At most one processor is between the compare-and-swap on m_nLock and the
\* store that clears it, and m_nLock says exactly whether one is there.
EditExclusion ==
  /\ \A c, d \in CPUs : InEdit(c) /\ InEdit(d) => c = d
  /\ lock = 1 <=> \E c \in CPUs : InEdit(c)

\* m_nDepth is the number of Acquires not yet released, over all processors: no
\* increment or decrement of two racing calls is lost.
DepthCountsHolds == depth = Cardinality(HoldTokens)

\* Whenever an owner is recorded somebody holds the mutex, and conversely, so that
\* Release clears the owner exactly with the last hold.
OwnerIffHeld ==
  initialized = INITIALIZED => (owner = NoOwner <=> HoldTokens = {})

\* The mutex's three fields agree with what its callers have done, whatever the steps of
\* their calls interleave with: lock with who edits, depth with the Acquires outstanding,
\* owner with whether there is one.
MutexSound == EditExclusion /\ DepthCountsHolds /\ OwnerIffHeld

\* TryAcquire never returns false and Acquire never waits for a holder: the
\* owner test compares a constant with itself.
NeverRefused ==
  \A c \in CPUs : pc[c] = "unlock" /\ op[c] # "Release" => result[c]

\* Whoever holds the edit lock gives it back: no path leaves m_nLock set.
EditLockReleased == lock = 1 ~> lock = 0

=============================================================================
