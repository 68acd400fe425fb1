---------------------------- MODULE MutexProofs ----------------------------
(***************************************************************************)
(* What holds of the mutex for every number of processors and every depth  *)
(* of nesting.                                                             *)
(***************************************************************************)
EXTENDS Mutex, FiniteSetTheorems, TLAPS

Busy(c) == pc[c] \in {"spin", "edit", "update"}

\* The inductive invariant.  What a processor loaded inside the edit section is
\* still the depth, the client discipline is remembered until the update, and
\* nobody enters the mutex before its constructor is done.
SeenIsCurrent == \A c \in CPUs : pc[c] = "update" => seen[c] = depth
Discipline ==
  \A c \in CPUs :
    Busy(c) => IF op[c] = "Release" THEN holds[c] > 0 ELSE holds[c] < MaxHolds
OwnerIffDepth == initialized = INITIALIZED => (owner = NoOwner <=> depth = 0)
BeforeConstruction ==
  initialized # INITIALIZED =>
    /\ depth = 0
    /\ \A c \in CPUs : holds[c] = 0 /\ ~Busy(c) /\ pc[c] # "unlock"
OneConstructor ==
  \A c \in CPUs :
    pc[c] \in {"ctorSpin", "ctorBody"} =>
      /\ initialized = Constructing
      /\ \A d \in CPUs \ {c} : pc[d] \notin {"ctorSpin", "ctorBody"}

IInv ==
  /\ TypeOK
  /\ EditExclusion
  /\ DepthCountsHolds
  /\ SeenIsCurrent
  /\ Discipline
  /\ OwnerIffDepth
  /\ BeforeConstruction
  /\ OneConstructor
  /\ NeverRefused

-----------------------------------------------------------------------------
\* The hold tokens are finitely many, and none when nobody holds.
LEMMA TokensFinite == ASSUME TypeOK PROVE IsFiniteSet(HoldTokens)
<1>1. IsFiniteSet(1..MaxHolds)
  BY MaxHoldsAssumption, FS_Interval
<1>2. IsFiniteSet(CPUs \X (1..MaxHolds))
  BY <1>1, CPUsAssumption, FS_Product
<1>3. HoldTokens \subseteq CPUs \X (1..MaxHolds)
  BY DEF HoldTokens
<1> QED BY <1>2, <1>3, FS_Subset

\* Nobody holds the mutex exactly when its depth is 0.
LEMMA EmptyTokens ==
  ASSUME TypeOK, DepthCountsHolds
  PROVE  depth = 0 <=> HoldTokens = {}
BY TokensFinite, FS_EmptySet DEF DepthCountsHolds

\* A grant adds one token.
LEMMA GrantAddsToken ==
  ASSUME TypeOK, NEW c \in CPUs, holds[c] < MaxHolds,
         holds' = [holds EXCEPT ![c] = @ + 1]
  PROVE  Cardinality(HoldTokens)' = Cardinality(HoldTokens) + 1
<1>1. HoldTokens' = HoldTokens \cup {<<c, holds[c] + 1>>}
  BY MaxHoldsAssumption DEF HoldTokens, TypeOK
<1>2. <<c, holds[c] + 1>> \notin HoldTokens
  BY DEF HoldTokens, TypeOK
<1> QED BY <1>1, <1>2, TokensFinite, FS_AddElement

\* A release takes one token away.
LEMMA ReleaseTakesToken ==
  ASSUME TypeOK, NEW c \in CPUs, holds[c] > 0,
         holds' = [holds EXCEPT ![c] = @ - 1]
  PROVE  /\ Cardinality(HoldTokens)' = Cardinality(HoldTokens) - 1
         /\ Cardinality(HoldTokens) > 0
<1>1. HoldTokens' = HoldTokens \ {<<c, holds[c]>>}
  BY MaxHoldsAssumption DEF HoldTokens, TypeOK
<1>2. <<c, holds[c]>> \in HoldTokens
  BY DEF HoldTokens, TypeOK
<1>3. Cardinality(HoldTokens) # 0
  BY <1>2, TokensFinite, FS_EmptySet
<1>4. Cardinality(HoldTokens) \in Nat
  BY TokensFinite, FS_CardinalityType
<1>5. Cardinality(HoldTokens \ {<<c, holds[c]>>}) = Cardinality(HoldTokens) - 1
  BY <1>2, TokensFinite, FS_RemoveElement
<1> QED BY <1>1, <1>3, <1>4, <1>5

-----------------------------------------------------------------------------
LEMMA InitIInv == Init => IInv
<1> SUFFICES ASSUME Init PROVE IInv
  OBVIOUS
<1>1. TypeOK
  BY MaxHoldsAssumption DEF Init, TypeOK, Labels, Ops, Blank, CurrentProcessor, NoOwner
<1>2. DepthCountsHolds
  <2>1. HoldTokens = {}
    BY MaxHoldsAssumption DEF HoldTokens, Init
  <2> QED BY <2>1, FS_EmptySet DEF DepthCountsHolds, Init
<1> QED
  BY <1>1, <1>2 DEF Init, IInv, EditExclusion, InEdit, EditLabels, SeenIsCurrent,
     Discipline, Busy, OwnerIffDepth, BeforeConstruction, OneConstructor,
     NeverRefused, Blank, INITIALIZED

\* Steps that leave every hold alone keep the count of holds.
LEMMA SameHolds ==
  ASSUME DepthCountsHolds, UNCHANGED <<depth, holds>>
  PROVE  DepthCountsHolds'
BY DEF DepthCountsHolds, HoldTokens

LEMMA StepIInv == IInv /\ [Next]_vars => IInv'
<1> SUFFICES ASSUME IInv, [Next]_vars PROVE IInv'
  OBVIOUS
<1> USE MaxHoldsAssumption
        DEF IInv, TypeOK, Labels, Ops, fields, Goto, EditExclusion, InEdit, EditLabels,
            SeenIsCurrent, Discipline, Busy, OwnerIffDepth, BeforeConstruction,
            OneConstructor, NeverRefused, Blank, Constructing, INITIALIZED,
            NoOwner, CurrentProcessor
<1>1. ASSUME NEW c \in CPUs, CtorEnter(c) PROVE IInv'
  <2>1. DepthCountsHolds'
    BY <1>1, SameHolds DEF CtorEnter
  <2> QED BY <1>1, <2>1 DEF CtorEnter
<1>2. ASSUME NEW c \in CPUs, CtorTakeInitLock(c) PROVE IInv'
  BY <1>2, SameHolds DEF CtorTakeInitLock
<1>3. ASSUME NEW c \in CPUs, CtorBody(c) PROVE IInv'
  <2>1. DepthCountsHolds'
    BY <1>3, SameHolds DEF CtorBody
  <2> QED BY <1>3, <2>1 DEF CtorBody
<1>4. ASSUME NEW c \in CPUs, CtorLeave(c) PROVE IInv'
  BY <1>4, SameHolds DEF CtorLeave
<1>5. ASSUME NEW c \in CPUs, OtherCtorEnter(c) PROVE IInv'
  BY <1>5, SameHolds DEF OtherCtorEnter
<1>6. ASSUME NEW c \in CPUs, OtherCtorLeave(c) PROVE IInv'
  BY <1>6, SameHolds DEF OtherCtorLeave
<1>7. ASSUME NEW c \in CPUs, NEW o \in Ops, Call(c, o) PROVE IInv'
  BY <1>7, SameHolds DEF Call
<1>8. ASSUME NEW c \in CPUs, EditLock(c) PROVE IInv'
  BY <1>8, SameHolds DEF EditLock
<1>9. ASSUME NEW c \in CPUs, ReadDepth(c) PROVE IInv'
  BY <1>9, SameHolds DEF ReadDepth
<1>10. ASSUME NEW c \in CPUs, UpdateTryAcquire(c) PROVE IInv'
  <2> USE <1>10 DEF UpdateTryAcquire
  <2>1. initialized = INITIALIZED /\ seen[c] = depth /\ holds[c] < MaxHolds
    OBVIOUS
  <2>2. Granted(c)
    BY <2>1 DEF Granted
  <2>3. depth' = depth + 1 /\ holds' = [holds EXCEPT ![c] = @ + 1]
    BY <2>1, <2>2
  <2>4. DepthCountsHolds'
    BY <2>1, <2>3, GrantAddsToken DEF DepthCountsHolds
  <2> QED BY <2>1, <2>2, <2>3, <2>4
<1>11. ASSUME NEW c \in CPUs, UpdateRelease(c) PROVE IInv'
  <2> USE <1>11 DEF UpdateRelease
  <2>1. initialized = INITIALIZED /\ seen[c] = depth /\ holds[c] > 0
    OBVIOUS
  <2>2. /\ Cardinality(HoldTokens)' = Cardinality(HoldTokens) - 1
        /\ Cardinality(HoldTokens) > 0
    BY <2>1, ReleaseTakesToken
  <2>3. depth > 0 /\ depth' = depth - 1 /\ DepthCountsHolds'
    BY <2>1, <2>2 DEF DepthCountsHolds
  <2> QED BY <2>1, <2>3
<1>12. ASSUME NEW c \in CPUs, EditUnlock(c) PROVE IInv'
  BY <1>12, SameHolds DEF EditUnlock
<1>13. CASE UNCHANGED vars
  BY <1>13, SameHolds DEF vars
<1> QED
  BY <1>1, <1>2, <1>3, <1>4, <1>5, <1>6, <1>7, <1>8, <1>9, <1>10, <1>11, <1>12, <1>13
     DEF Next, Step

\* The inductive invariant holds of every behaviour of the mutex.
THEOREM Inductive == Spec => []IInv
BY InitIInv, StepIInv, PTL DEF Spec

\* Every field keeps its type, the nesting of each processor within its bound.
THEOREM TypeCorrect == Spec => []TypeOK
BY Inductive, PTL DEF IInv

\* The edit section of Acquire, TryAcquire and Release is exclusive.
THEOREM EditExclusionHolds == Spec => []EditExclusion
BY Inductive, PTL DEF IInv

\* m_nDepth never loses or invents a hold, however the calls interleave.
THEOREM DepthIsExact == Spec => []DepthCountsHolds
BY Inductive, PTL DEF IInv

\* The owner is cleared with the last hold and with no other.
THEOREM OwnerIsExact == Spec => []OwnerIffHeld
<1>1. IInv => OwnerIffHeld
  BY EmptyTokens DEF IInv, OwnerIffHeld, OwnerIffDepth
<1> QED BY <1>1, Inductive, PTL

\* The fields of the mutex agree with what its callers have done.
THEOREM FieldsAreSound == Spec => []MutexSound
BY EditExclusionHolds, DepthIsExact, OwnerIsExact, PTL DEF MutexSound

\* TryAcquire is never refused: with a constant processor id the mutex keeps
\* nobody out.
THEOREM NobodyIsRefused == Spec => []NeverRefused
BY Inductive, PTL DEF IInv
=============================================================================
