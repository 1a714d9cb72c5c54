--------------------------- MODULE SpinLockProofs ---------------------------
(* Mutual exclusion, the absence of failed asserts, the interrupt stack and the
   refinement of LockSpec, for every number of harts and locks and every use of
   them: the proofs need neither the order Rank nor the bound MaxOff. *)
EXTENDS SpinLock, FiniteSetTheorems, TLAPS

(* Only the running context has anything pushed.  A handler is entered between
   two calls or at a point of one that has not masked anything yet. *)
Frames ==
  \A c \in CPU :
    /\ \A x \in Ctx : IsFiniteSet(pushed[c][x])
    /\ \A x \in Ctx : x # run[c] => pushed[c][x] = {} /\ offs[c][x] = 0
    /\ run[c] = "task" => pc[c]["irq"] = "run"
    /\ run[c] = "irq" => /\ opened[c]
                         /\ pc[c]["task"] \in {"run", "off", "hold_cpuid", "nested"}

(* The value push_off saves, or has saved, is the state the thread runs in. *)
Saved ==
  \A c \in CPU :
    /\ noff[c] > 0 => (origin[c] <=> run[c] = "task" /\ opened[c])
    /\ \A x \in Ctx : 
         pc[c][x] = "off" /\ pushed[c][x] = {} /\ offs[c][x] = 0
           => (old[c][x] <=> x = "task" /\ opened[c])

InCall == {"chk_locked", "chk_cpuid", "tas", "own", "rel_cpuid", "clr", "unl"}

(* What the lock of a context's current call is to the context. *)
Calls ==
  \A c \in CPU, x \in Ctx :
    /\ pc[c][x] \in InCall => op[c][x] \in pushed[c][x]
    /\ pc[c][x] = "off" => op[c][x] \notin pushed[c][x]
    /\ pc[c][x] = "pop" => IF op[c][x] = NoLock THEN offs[c][x] > 0
                                                ELSE op[c][x] \in pushed[c][x]
    /\ pc[c][x] \in {"hold_cpuid", "nested"} => op[c][x] \in Lock

(* lk->locked is set exactly while a context owns the lock. *)
LockState ==
  \A l \in Lock : locked[l] <=> \E c \in CPU, x \in Ctx : Owns(c, x, l)

(* Between the stores to the two fields of l. *)
Between(c, x, l) == op[c][x] = l /\ pc[c][x] \in {"own", "unl"}

(* lk->cpuid names a hart exactly while one of its contexts owns the lock and
   is not between the two stores. *)
OwnerState ==
  \A l \in Lock, c \in CPU :
    cpuid[l] = c <=> \E x \in Ctx : /\ Owns(c, x, l)
                                    /\ ~Between(c, x, l)

IInv == /\ TypeOK /\ Frames /\ IntrStack /\ Saved /\ Calls
        /\ LockState /\ OwnerState /\ MutualExclusion /\ NoPanic /\ NestedHolds
-----------------------------------------------------------------------------
(* A step leaves the owners of the locks as they are, or makes <<c, x>> an
   owner of a lock that was free, or ends its ownership. *)
SameOwners ==
  /\ UNCHANGED locked
  /\ \A d \in CPU, y \in Ctx, l \in Lock : Owns(d, y, l)' <=> Owns(d, y, l)

Takes(c, x, k) ==
  /\ ~locked[k] /\ locked' = [locked EXCEPT ![k] = TRUE]
  /\ \A d \in CPU, y \in Ctx, l \in Lock :
        Owns(d, y, l)' <=> Owns(d, y, l) \/ (d = c /\ y = x /\ l = k)

Gives(c, x, k) ==
  /\ Owns(c, x, k) /\ locked' = [locked EXCEPT ![k] = FALSE]
  /\ \A d \in CPU, y \in Ctx, l \in Lock :
        Owns(d, y, l)' <=> Owns(d, y, l) /\ ~(d = c /\ y = x /\ l = k)

(* The initial state satisfies the inductive invariant. *)
LEMMA InitInv == Init => IInv
<1> SUFFICES ASSUME Init PROVE IInv
  OBVIOUS
<1>1. TypeOK
  BY DEF Init, TypeOK, PC, Ctx
<1>2. Frames /\ IntrStack
  BY FS_EmptySet DEF Init, Frames, IntrStack, Ctx
<1>3. Saved /\ Calls
  BY DEF Init, Saved, Calls, InCall, Ctx
<1>4. \A c \in CPU, x \in Ctx, l \in Lock : ~Owns(c, x, l)
  BY DEF Init, Owns
<1>5. LockState /\ OwnerState /\ MutualExclusion
  BY <1>4, CPUAssumption DEF Init, LockState, OwnerState, MutualExclusion
<1>6. NoPanic /\ NestedHolds
  BY DEF Init, NoPanic, NestedHolds
<1> QED
  BY <1>1, <1>2, <1>3, <1>5, <1>6 DEF IInv

(* A step that leaves the fields of the locks and every context's ownership as
   they are keeps the three facts that relate them. *)
LEMMA QuietOwners ==
  ASSUME IInv, UNCHANGED lockVars,
         \A d \in CPU, y \in Ctx, l \in Lock :
            /\ Owns(d, y, l)' <=> Owns(d, y, l)
            /\ Between(d, y, l)' <=> Between(d, y, l)
  PROVE  LockState' /\ OwnerState' /\ MutualExclusion'
<1>1. LockState' /\ MutualExclusion'
  BY DEF IInv, lockVars, LockState, MutualExclusion
<1>2. OwnerState'
  BY DEF IInv, lockVars, OwnerState
<1> QED
  BY <1>1, <1>2

(* The count is zero exactly when the running context has nothing pushed. *)
LEMMA NothingPushed ==
  ASSUME IInv, NEW c \in CPU
  PROVE  noff[c] = 0 <=> pushed[c][run[c]] = {} /\ offs[c][run[c]] = 0
<1>1. /\ IsFiniteSet(pushed[c][run[c]])
      /\ offs[c][run[c]] \in Nat
      /\ noff[c] = Cardinality(pushed[c][run[c]]) + offs[c][run[c]]
  BY DEF IInv, TypeOK, Frames, IntrStack
<1>2. /\ Cardinality(pushed[c][run[c]]) \in Nat
      /\ Cardinality(pushed[c][run[c]]) = 0 <=> pushed[c][run[c]] = {}
  BY <1>1, FS_CardinalityType, FS_EmptySet
<1> QED
  BY <1>1, <1>2

(* push_off saves the state it is called in. *)
LEMMA CallAcquireInv ==
  ASSUME IInv, NEW c \in CPU, NEW x \in Ctx, NEW l \in Lock, CallAcquire(c, x, l)
  PROVE  IInv' /\ SameOwners
<1> USE DEF CallAcquire, At, Goto, lockVars, cpuVars, openVars, About, MayTake
<1>0. TypeOK /\ Calls /\ Frames
  BY DEF IInv
<1>1. TypeOK'
  BY <1>0 DEF TypeOK, PC, Ctx
<1>2. Frames'
  BY <1>0 DEF IInv, TypeOK, Frames, Ctx
<1>2a. IntrStack'
  BY <1>0 DEF IInv, TypeOK, Frames, IntrStack, Ctx
<1>2b. Saved'
  BY <1>0, NothingPushed DEF IInv, TypeOK, Frames, IntrStack, Saved, Ctx
<1>3. Calls'
  BY <1>0 DEF IInv, TypeOK, Calls, InCall
<1>4. \A d \in CPU, y \in Ctx, k \in Lock :
        /\ Owns(d, y, k)' <=> Owns(d, y, k)
        /\ Between(d, y, k)' <=> Between(d, y, k)
  BY <1>0 DEF IInv, TypeOK, Calls, InCall, Owns, Between
<1>5. LockState' /\ OwnerState' /\ MutualExclusion'
  BY <1>4, QuietOwners
<1>6. NoPanic' /\ NestedHolds'
  BY <1>0, <1>4 DEF IInv, TypeOK, NoPanic, NestedHolds, Calls, InCall
<1> QED
  BY <1>1, <1>2, <1>2a, <1>2b, <1>3, <1>4, <1>5, <1>6 DEF IInv, SameOwners

(* The same for a bare push_off. *)
LEMMA CallPushOffInv ==
  ASSUME IInv, NEW c \in CPU, NEW x \in Ctx, CallPushOff(c, x)
  PROVE  IInv' /\ SameOwners
<1> USE DEF CallPushOff, At, Goto, lockVars, cpuVars, openVars, About
<1>0. TypeOK /\ Calls /\ Frames
  BY DEF IInv
<1>1. TypeOK'
  BY <1>0, LockAssumption DEF TypeOK, PC, Ctx
<1>2. Frames'
  BY <1>0 DEF IInv, TypeOK, Frames, Ctx
<1>2a. IntrStack'
  BY <1>0 DEF IInv, TypeOK, Frames, IntrStack, Ctx
<1>2b. Saved'
  BY <1>0, NothingPushed DEF IInv, TypeOK, Frames, IntrStack, Saved, Ctx
<1>3. Calls'
  BY <1>0, LockAssumption DEF IInv, TypeOK, Calls, InCall
<1>4. \A d \in CPU, y \in Ctx, l \in Lock :
        /\ Owns(d, y, l)' <=> Owns(d, y, l)
        /\ Between(d, y, l)' <=> Between(d, y, l)
  BY <1>0, LockAssumption DEF IInv, TypeOK, Calls, InCall, Owns, Between
<1>5. LockState' /\ OwnerState' /\ MutualExclusion'
  BY <1>4, QuietOwners
<1>6. NoPanic' /\ NestedHolds'
  BY <1>0, <1>4 DEF IInv, TypeOK, NoPanic, NestedHolds, Calls, InCall
<1> QED
  BY <1>1, <1>2, <1>2a, <1>2b, <1>3, <1>4, <1>5, <1>6 DEF IInv, SameOwners

(* printf's first read: a lock that is not set is not held by the caller. *)
LEMMA CallPrintfInv ==
  ASSUME IInv, NEW c \in CPU, NEW x \in Ctx, NEW l \in Lock, CallPrintf(c, x, l)
  PROVE  IInv' /\ SameOwners
<1> USE DEF CallPrintf, At, Goto, lockVars, cpuVars, openVars, About, MayTake
<1>0. TypeOK /\ Calls /\ Frames
  BY DEF IInv
<1>1. TypeOK'
  BY <1>0 DEF TypeOK, PC, Ctx
<1>2. Frames'
  BY <1>0 DEF IInv, TypeOK, Frames, Ctx
<1>2a. IntrStack'
  BY <1>0 DEF IInv, TypeOK, Frames, IntrStack, Ctx
<1>2b. Saved'
  BY <1>0, NothingPushed DEF IInv, TypeOK, Frames, IntrStack, Saved, Ctx
<1>3. Calls'
  BY <1>0 DEF IInv, TypeOK, Calls, InCall, LockState, Owns
<1>4. \A d \in CPU, y \in Ctx, k \in Lock :
        /\ Owns(d, y, k)' <=> Owns(d, y, k)
        /\ Between(d, y, k)' <=> Between(d, y, k)
  BY <1>0 DEF IInv, TypeOK, Calls, InCall, Owns, Between
<1>5. LockState' /\ OwnerState' /\ MutualExclusion'
  BY <1>4, QuietOwners
<1>6. NoPanic' /\ NestedHolds'
  BY <1>0, <1>4 DEF IInv, TypeOK, NoPanic, NestedHolds, Calls, InCall, LockState, Owns
<1> QED
  BY <1>1, <1>2, <1>2a, <1>2b, <1>3, <1>4, <1>5, <1>6 DEF IInv, SameOwners

(* printf's second read decides exactly whether the caller holds the lock:
   lk->cpuid is this hart only if the running context owns the lock. *)
LEMMA HoldingCpuidInv ==
  ASSUME IInv, NEW c \in CPU, NEW x \in Ctx, HoldingCpuid(c, x)
  PROVE  IInv' /\ SameOwners
<1> USE DEF HoldingCpuid, At, Goto, lockVars, cpuVars, openVars
<1>0. TypeOK /\ Calls /\ Frames
  BY DEF IInv
<1>1. TypeOK'
  BY <1>0 DEF TypeOK, PC, Ctx
<1>2. Frames'
  BY <1>0 DEF IInv, TypeOK, Frames, Ctx
<1>2a. IntrStack'
  BY <1>0 DEF IInv, TypeOK, Frames, IntrStack, Ctx
<1>2b. Saved'
  BY <1>0, NothingPushed DEF IInv, TypeOK, Frames, IntrStack, Saved, Ctx
<1>3. Calls'
  BY <1>0 DEF IInv, TypeOK, Calls, InCall, OwnerState, Owns, Between, Frames
<1>4. \A d \in CPU, y \in Ctx, l \in Lock :
        /\ Owns(d, y, l)' <=> Owns(d, y, l)
        /\ Between(d, y, l)' <=> Between(d, y, l)
  BY <1>0 DEF IInv, TypeOK, Calls, InCall, Owns, Between
<1>5. LockState' /\ OwnerState' /\ MutualExclusion'
  BY <1>4, QuietOwners
<1>6. cpuid[op[c][x]] = c => Owns(c, x, op[c][x])
  <2>1. op[c][x] \in Lock /\ x = run[c]
    BY <1>0 DEF Calls
  <2>2. SUFFICES ASSUME NEW y \in Ctx, Owns(c, y, op[c][x]) PROVE y = x
    BY <2>1 DEF IInv, OwnerState
  <2> QED
    BY <1>0, <2>1, <2>2 DEF Frames, Owns
<1>7. NoPanic' /\ NestedHolds'
  BY <1>0, <1>4, <1>6 DEF IInv, TypeOK, NoPanic, NestedHolds, Calls, InCall
<1> QED
  BY <1>1, <1>2, <1>2a, <1>2b, <1>3, <1>4, <1>5, <1>7 DEF IInv, SameOwners

(* The body of a nested printf touches no lock. *)
LEMMA NestedPrintfInv ==
  ASSUME IInv, NEW c \in CPU, NEW x \in Ctx, NestedPrintf(c, x)
  PROVE  IInv' /\ SameOwners
<1> USE DEF NestedPrintf, At, Goto, lockVars, cpuVars, openVars
<1>0. TypeOK /\ Calls /\ Frames
  BY DEF IInv
<1>1. TypeOK'
  BY <1>0 DEF TypeOK, PC, Ctx
<1>2. Frames'
  BY <1>0 DEF IInv, TypeOK, Frames, Ctx
<1>2a. IntrStack'
  BY <1>0 DEF IInv, TypeOK, Frames, IntrStack, Ctx
<1>2b. Saved'
  BY <1>0 DEF IInv, TypeOK, Frames, IntrStack, Saved, Ctx
<1>3. Calls'
  BY <1>0 DEF IInv, TypeOK, Calls, InCall
<1>4. \A d \in CPU, y \in Ctx, l \in Lock :
        /\ Owns(d, y, l)' <=> Owns(d, y, l)
        /\ Between(d, y, l)' <=> Between(d, y, l)
  BY <1>0 DEF IInv, TypeOK, Calls, InCall, Owns, Between
<1>5. LockState' /\ OwnerState' /\ MutualExclusion'
  BY <1>4, QuietOwners
<1>6. NoPanic' /\ NestedHolds'
  BY <1>0, <1>4 DEF IInv, TypeOK, NoPanic, NestedHolds, Calls, InCall
<1> QED
  BY <1>1, <1>2, <1>2a, <1>2b, <1>3, <1>4, <1>5, <1>6 DEF IInv, SameOwners

(* push_off masks the interrupts and counts itself. *)
LEMMA PushOffInv ==
  ASSUME IInv, NEW c \in CPU, NEW x \in Ctx, PushOff(c, x)
  PROVE  IInv' /\ SameOwners
<1> USE DEF PushOff, At, Goto, lockVars, cpuVars, openVars
<1>0. TypeOK /\ Calls /\ Frames
  BY DEF IInv
<1>a. PICK P : P = IF op[c][x] = NoLock THEN pushed[c][x]
                                        ELSE pushed[c][x] \cup {op[c][x]}
  OBVIOUS
<1>b. /\ sie' = [sie EXCEPT ![c] = FALSE]
      /\ origin' = [origin EXCEPT ![c] = IF noff[c] = 0 THEN old[c][x] ELSE @]
      /\ noff' = [noff EXCEPT ![c] = @ + 1]
      /\ offs' = [offs EXCEPT ![c][x] = IF op[c][x] = NoLock THEN @ + 1 ELSE @]
      /\ pc' = [pc EXCEPT ![c][x] = IF op[c][x] = NoLock THEN "run" ELSE "chk_locked"]
      /\ UNCHANGED <<locked, cpuid, run, opened, op, old>>
  OBVIOUS
<1>c. pushed' = [pushed EXCEPT ![c][x] = P]
  <2>1. pushed[c][x] \cup ({op[c][x]} \ {NoLock}) = P
    BY <1>a
  <2> QED
    BY <1>0, <2>1 DEF TypeOK
<1>d. /\ P \in SUBSET Lock /\ IsFiniteSet(P)
      /\ Cardinality(pushed[c][x]) \in Nat
      /\ Cardinality(P) = IF op[c][x] = NoLock THEN Cardinality(pushed[c][x])
                                              ELSE Cardinality(pushed[c][x]) + 1
  <2>1. IsFiniteSet(pushed[c][x]) /\ pushed[c][x] \in SUBSET Lock
    BY <1>0 DEF TypeOK, Frames
  <2>2. op[c][x] \notin pushed[c][x] /\ op[c][x] \in Lock \cup {NoLock}
    BY <1>0 DEF TypeOK, Calls
  <2> QED
    BY <1>a, <2>1, <2>2, FS_AddElement, FS_CardinalityType
<1>e. x = run[c] /\ pc[c][x] = "off"
  OBVIOUS
<1> HIDE DEF PushOff
<1>1. TypeOK'
  BY <1>0, <1>b, <1>c, <1>d DEF TypeOK, PC, Ctx
<1>2. Frames'
  BY <1>0, <1>b, <1>c, <1>d, <1>e DEF IInv, TypeOK, Frames, Ctx
<1>2a. IntrStack'
  BY <1>0, <1>b, <1>c, <1>d, <1>e DEF IInv, TypeOK, Frames, IntrStack, Ctx
<1>2b. Saved'
  BY <1>0, <1>b, <1>c, <1>e, NothingPushed DEF IInv, TypeOK, Frames, IntrStack, Saved, Ctx
<1>3. Calls'
  BY <1>0, <1>a, <1>b, <1>c, <1>e, LockAssumption DEF IInv, TypeOK, Calls, InCall
<1>4. \A d \in CPU, y \in Ctx, l \in Lock :
        /\ Owns(d, y, l)' <=> Owns(d, y, l)
        /\ Between(d, y, l)' <=> Between(d, y, l)
  BY <1>0, <1>a, <1>b, <1>c, <1>e DEF IInv, TypeOK, Calls, InCall, Owns, Between
<1>5. LockState' /\ OwnerState' /\ MutualExclusion'
  BY <1>4, <1>b, QuietOwners
<1>6. NoPanic' /\ NestedHolds'
  BY <1>0, <1>4, <1>b, <1>e DEF IInv, TypeOK, NoPanic, NestedHolds, Calls, InCall
<1> QED
  BY <1>b, <1>1, <1>2, <1>2a, <1>2b, <1>3, <1>4, <1>5, <1>6 DEF IInv, SameOwners

(* The first read of the assert of spinlock_acquire. *)
LEMMA AssertFreeLockedInv ==
  ASSUME IInv, NEW c \in CPU, NEW x \in Ctx, AssertFreeLocked(c, x)
  PROVE  IInv' /\ SameOwners
<1> USE DEF AssertFreeLocked, At, Goto, lockVars, cpuVars, openVars
<1>0. TypeOK /\ Calls /\ Frames
  BY DEF IInv
<1>1. TypeOK'
  BY <1>0 DEF TypeOK, PC, Ctx
<1>2. Frames'
  BY <1>0 DEF IInv, TypeOK, Frames, Ctx
<1>2a. IntrStack'
  BY <1>0 DEF IInv, TypeOK, Frames, IntrStack, Ctx
<1>2b. Saved'
  BY <1>0 DEF IInv, TypeOK, Frames, IntrStack, Saved, Ctx
<1>3. Calls'
  BY <1>0 DEF IInv, TypeOK, Calls, InCall
<1>4. \A d \in CPU, y \in Ctx, l \in Lock :
        /\ Owns(d, y, l)' <=> Owns(d, y, l)
        /\ Between(d, y, l)' <=> Between(d, y, l)
  BY <1>0 DEF IInv, TypeOK, Calls, InCall, Owns, Between
<1>5. LockState' /\ OwnerState' /\ MutualExclusion'
  BY <1>4, QuietOwners
<1>6. NoPanic' /\ NestedHolds'
  BY <1>0, <1>4 DEF IInv, TypeOK, NoPanic, NestedHolds, Calls, InCall, OwnerState, Owns, Frames
<1> QED
  BY <1>1, <1>2, <1>2a, <1>2b, <1>3, <1>4, <1>5, <1>6 DEF IInv, SameOwners

(* The assert of spinlock_acquire holds: no context of this hart owns the lock. *)
LEMMA AssertFreeCpuidInv ==
  ASSUME IInv, NEW c \in CPU, NEW x \in Ctx, AssertFreeCpuid(c, x)
  PROVE  IInv' /\ SameOwners
<1> USE DEF AssertFreeCpuid, At, Goto, lockVars, cpuVars, openVars
<1>0. TypeOK /\ Calls /\ Frames
  BY DEF IInv
<1>1. TypeOK'
  BY <1>0 DEF TypeOK, PC, Ctx
<1>2. Frames'
  BY <1>0 DEF IInv, TypeOK, Frames, Ctx
<1>2a. IntrStack'
  BY <1>0 DEF IInv, TypeOK, Frames, IntrStack, Ctx
<1>2b. Saved'
  BY <1>0 DEF IInv, TypeOK, Frames, IntrStack, Saved, Ctx
<1>3. Calls'
  BY <1>0 DEF IInv, TypeOK, Calls, InCall
<1>4. \A d \in CPU, y \in Ctx, l \in Lock :
        /\ Owns(d, y, l)' <=> Owns(d, y, l)
        /\ Between(d, y, l)' <=> Between(d, y, l)
  BY <1>0 DEF IInv, TypeOK, Calls, InCall, Owns, Between, Frames, OwnerState
<1>5. LockState' /\ OwnerState' /\ MutualExclusion'
  BY <1>4, QuietOwners
<1>6. NoPanic' /\ NestedHolds'
  BY <1>0, <1>4 DEF IInv, TypeOK, NoPanic, NestedHolds, Calls, InCall, OwnerState, Owns, Frames
<1> QED
  BY <1>1, <1>2, <1>2a, <1>2b, <1>3, <1>4, <1>5, <1>6 DEF IInv, SameOwners

(* The lock a context releases is set. *)
LEMMA CallReleaseInv ==
  ASSUME IInv, NEW c \in CPU, NEW x \in Ctx, NEW l \in Lock, CallRelease(c, x, l)
  PROVE  IInv' /\ SameOwners
<1> USE DEF CallRelease, At, Goto, lockVars, cpuVars, openVars, About
<1>0. TypeOK /\ Calls /\ Frames
  BY DEF IInv
<1>1. TypeOK'
  BY <1>0 DEF TypeOK, PC, Ctx
<1>2. Frames'
  BY <1>0 DEF IInv, TypeOK, Frames, Ctx
<1>2a. IntrStack'
  BY <1>0 DEF IInv, TypeOK, Frames, IntrStack, Ctx
<1>2b. Saved'
  BY <1>0 DEF IInv, TypeOK, Frames, IntrStack, Saved, Ctx
<1>3. Calls'
  BY <1>0 DEF IInv, TypeOK, Calls, InCall
<1>4. \A d \in CPU, y \in Ctx, k \in Lock :
        /\ Owns(d, y, k)' <=> Owns(d, y, k)
        /\ Between(d, y, k)' <=> Between(d, y, k)
  BY <1>0 DEF IInv, TypeOK, Calls, InCall, Owns, Between
<1>5. LockState' /\ OwnerState' /\ MutualExclusion'
  BY <1>4, QuietOwners
<1>6. NoPanic' /\ NestedHolds'
  BY <1>0, <1>4 DEF IInv, TypeOK, NoPanic, NestedHolds, Calls, InCall, LockState, Owns
<1> QED
  BY <1>1, <1>2, <1>2a, <1>2b, <1>3, <1>4, <1>5, <1>6 DEF IInv, SameOwners

(* The assert of spinlock_release holds: lk->cpuid is the releasing hart. *)
LEMMA AssertHeldCpuidInv ==
  ASSUME IInv, NEW c \in CPU, NEW x \in Ctx, AssertHeldCpuid(c, x)
  PROVE  IInv' /\ SameOwners
<1> USE DEF AssertHeldCpuid, At, Goto, lockVars, cpuVars, openVars
<1>0. TypeOK /\ Calls /\ Frames
  BY DEF IInv
<1>1. TypeOK'
  BY <1>0 DEF TypeOK, PC, Ctx
<1>2. Frames'
  BY <1>0 DEF IInv, TypeOK, Frames, Ctx
<1>2a. IntrStack'
  BY <1>0 DEF IInv, TypeOK, Frames, IntrStack, Ctx
<1>2b. Saved'
  BY <1>0 DEF IInv, TypeOK, Frames, IntrStack, Saved, Ctx
<1>3. Calls'
  BY <1>0 DEF IInv, TypeOK, Calls, InCall
<1>4. \A d \in CPU, y \in Ctx, l \in Lock :
        /\ Owns(d, y, l)' <=> Owns(d, y, l)
        /\ Between(d, y, l)' <=> Between(d, y, l)
  BY <1>0 DEF IInv, TypeOK, Calls, InCall, Owns, Between
<1>5. LockState' /\ OwnerState' /\ MutualExclusion'
  BY <1>4, QuietOwners
<1>6. NoPanic' /\ NestedHolds'
  BY <1>0, <1>4 DEF IInv, TypeOK, NoPanic, NestedHolds, Calls, InCall, OwnerState, Owns, Between
<1> QED
  BY <1>1, <1>2, <1>2a, <1>2b, <1>3, <1>4, <1>5, <1>6 DEF IInv, SameOwners

(* A bare pop_off answers a bare push_off. *)
LEMMA CallPopOffInv ==
  ASSUME IInv, NEW c \in CPU, NEW x \in Ctx, CallPopOff(c, x)
  PROVE  IInv' /\ SameOwners
<1> USE DEF CallPopOff, At, Goto, lockVars, cpuVars, openVars, About
<1>0. TypeOK /\ Calls /\ Frames
  BY DEF IInv
<1>1. TypeOK'
  BY <1>0, LockAssumption DEF TypeOK, PC, Ctx
<1>2. Frames'
  BY <1>0 DEF IInv, TypeOK, Frames, Ctx
<1>2a. IntrStack'
  BY <1>0 DEF IInv, TypeOK, Frames, IntrStack, Ctx
<1>2b. Saved'
  BY <1>0 DEF IInv, TypeOK, Frames, IntrStack, Saved, Ctx
<1>3. Calls'
  BY <1>0, LockAssumption DEF IInv, TypeOK, Calls, InCall
<1>4. \A d \in CPU, y \in Ctx, l \in Lock :
        /\ Owns(d, y, l)' <=> Owns(d, y, l)
        /\ Between(d, y, l)' <=> Between(d, y, l)
  BY <1>0, LockAssumption DEF IInv, TypeOK, Calls, InCall, Owns, Between
<1>5. LockState' /\ OwnerState' /\ MutualExclusion'
  BY <1>4, QuietOwners
<1>6. NoPanic' /\ NestedHolds'
  BY <1>0, <1>4 DEF IInv, TypeOK, NoPanic, NestedHolds, Calls, InCall
<1> QED
  BY <1>1, <1>2, <1>2a, <1>2b, <1>3, <1>4, <1>5, <1>6 DEF IInv, SameOwners

(* pop_off: both asserts hold, and the last one restores the saved state. *)
LEMMA PopOffInv ==
  ASSUME IInv, NEW c \in CPU, NEW x \in Ctx, PopOff(c, x)
  PROVE  IInv' /\ SameOwners
<1> USE DEF PopOff, At, Goto, lockVars, cpuVars, openVars
<1>0. TypeOK /\ Calls /\ Frames
  BY DEF IInv
<1>a. x = run[c] /\ noff[c] > 0 /\ ~sie[c]
  BY <1>0, NothingPushed DEF IInv, TypeOK, Calls, IntrStack
<1>b. PICK P : P = pushed[c][x] \ {op[c][x]}
  OBVIOUS
<1>c. /\ noff' = [noff EXCEPT ![c] = @ - 1]
      /\ sie' = [sie EXCEPT ![c] = noff[c] = 1 /\ origin[c]]
      /\ offs' = [offs EXCEPT ![c][x] = IF op[c][x] = NoLock THEN @ - 1 ELSE @]
      /\ pushed' = [pushed EXCEPT ![c][x] = P]
      /\ pc' = [pc EXCEPT ![c][x] = "run"]
      /\ UNCHANGED <<locked, cpuid, origin, run, opened, op, old>>
  BY <1>0, <1>a, <1>b DEF TypeOK
<1>d. /\ P \in SUBSET Lock /\ IsFiniteSet(P)
      /\ Cardinality(pushed[c][x]) \in Nat
      /\ Cardinality(P) = IF op[c][x] = NoLock THEN Cardinality(pushed[c][x])
                                              ELSE Cardinality(pushed[c][x]) - 1
  <2>1. IsFiniteSet(pushed[c][x]) /\ pushed[c][x] \in SUBSET Lock
    BY <1>0 DEF TypeOK, Frames
  <2>2. op[c][x] \in pushed[c][x] <=> op[c][x] # NoLock
    BY <1>0, <2>1, LockAssumption DEF Calls
  <2> QED
    BY <1>b, <2>1, <2>2, FS_RemoveElement, FS_CardinalityType
<1>e. x = run[c] /\ pc[c][x] = "pop"
  OBVIOUS
<1> HIDE DEF PopOff
<1>1. TypeOK'
  <2>1. op[c][x] = NoLock => offs[c][x] - 1 \in Nat
    BY <1>0, <1>e DEF TypeOK, Calls
  <2>2. noff[c] - 1 \in Nat
    BY <1>0, <1>a DEF TypeOK
  <2> QED
    BY <1>0, <1>c, <1>d, <2>1, <2>2 DEF TypeOK, PC, Ctx
<1>2. Frames'
  BY <1>0, <1>a, <1>c, <1>d, <1>e DEF IInv, TypeOK, Frames, Ctx
<1>2a. IntrStack'
  <2>1. noff[c] = Cardinality(pushed[c][x]) + offs[c][x] /\ offs[c][x] \in Nat
    BY <1>0, <1>e DEF IInv, TypeOK, IntrStack
  <2>2. noff'[c] = Cardinality(P) + offs'[c][x]
    BY <1>0, <1>a, <1>c, <1>d, <2>1 DEF TypeOK
  <2>3. sie'[c] <=> run[c] = "task" /\ noff'[c] = 0 /\ opened[c]
    BY <1>0, <1>a, <1>c DEF IInv, TypeOK, Saved
  <2> QED
    BY <1>0, <1>c, <1>e, <2>2, <2>3 DEF IInv, TypeOK, IntrStack
<1>2b. Saved'
  BY <1>0, <1>a, <1>b, <1>c, <1>e DEF IInv, TypeOK, Frames, IntrStack, Saved, Ctx
<1>3. Calls'
  BY <1>0, <1>a, <1>b, <1>c, <1>e DEF IInv, TypeOK, Calls, InCall
<1>4. \A d \in CPU, y \in Ctx, l \in Lock :
        /\ Owns(d, y, l)' <=> Owns(d, y, l)
        /\ Between(d, y, l)' <=> Between(d, y, l)
  BY <1>0, <1>b, <1>c, <1>e DEF IInv, TypeOK, Calls, InCall, Owns, Between
<1>5. LockState' /\ OwnerState' /\ MutualExclusion'
  BY <1>4, <1>c, QuietOwners
<1>6. NoPanic' /\ NestedHolds'
  BY <1>0, <1>4, <1>c, <1>e DEF IInv, TypeOK, NoPanic, NestedHolds, Calls, InCall
<1> QED
  BY <1>c, <1>1, <1>2, <1>2a, <1>2b, <1>3, <1>4, <1>5, <1>6 DEF IInv, SameOwners

(* The thread turns interrupts on with nothing pushed. *)
LEMMA IntrOnInv ==
  ASSUME IInv, NEW c \in CPU, IntrOn(c)
  PROVE  IInv' /\ SameOwners
<1> USE DEF IntrOn, At, Goto, lockVars, cpuVars, openVars
<1>0. TypeOK /\ Calls /\ Frames
  BY DEF IInv
<1>1. TypeOK'
  BY <1>0 DEF TypeOK, PC, Ctx
<1>2. Frames'
  BY <1>0 DEF IInv, TypeOK, Frames, Ctx
<1>a. noff[c] = 0
  BY <1>0, NothingPushed
<1>2a. IntrStack'
  BY <1>0, NothingPushed DEF IInv, TypeOK, Frames, IntrStack, Ctx
<1>2b. Saved'
  BY <1>0, <1>a DEF IInv, TypeOK, Frames, IntrStack, Saved, Ctx
<1>3. Calls'
  BY <1>0 DEF IInv, TypeOK, Calls, InCall
<1>4. \A d \in CPU, y \in Ctx, l \in Lock :
        /\ Owns(d, y, l)' <=> Owns(d, y, l)
        /\ Between(d, y, l)' <=> Between(d, y, l)
  BY <1>0 DEF IInv, TypeOK, Calls, InCall, Owns, Between
<1>5. LockState' /\ OwnerState' /\ MutualExclusion'
  BY <1>4, QuietOwners
<1>6. NoPanic' /\ NestedHolds'
  BY <1>0, <1>4 DEF IInv, TypeOK, NoPanic, NestedHolds, Calls, InCall
<1> QED
  BY <1>1, <1>2, <1>2a, <1>2b, <1>3, <1>4, <1>5, <1>6 DEF IInv, SameOwners

(* An interrupt finds nothing pushed, since what is pushed masks it. *)
LEMMA InterruptInv ==
  ASSUME IInv, NEW c \in CPU, Interrupt(c)
  PROVE  IInv' /\ SameOwners
<1> USE DEF Interrupt, At, Goto, lockVars, cpuVars, openVars
<1>0. TypeOK /\ Calls /\ Frames
  BY DEF IInv
<1>1. TypeOK'
  BY <1>0 DEF TypeOK, PC, Ctx
<1>a. noff[c] = 0 /\ pushed[c]["task"] = {} /\ offs[c]["task"] = 0 /\ opened[c]
  BY <1>0, NothingPushed DEF IInv, IntrStack
<1>b. pc[c]["task"] \in {"run", "off", "hold_cpuid", "nested"}
  BY <1>0, <1>a DEF IInv, TypeOK, Calls, InCall, NoPanic, PC, Ctx
<1>2. Frames'
  BY <1>0, <1>a, <1>b DEF IInv, TypeOK, Frames, Ctx
<1>2a. IntrStack'
  BY <1>0, <1>a, FS_EmptySet DEF IInv, TypeOK, Frames, IntrStack, Ctx
<1>2b. Saved'
  BY <1>0 DEF IInv, TypeOK, Frames, IntrStack, Saved, Ctx
<1>3. Calls'
  BY <1>0 DEF IInv, TypeOK, Calls, InCall
<1>4. \A d \in CPU, y \in Ctx, l \in Lock :
        /\ Owns(d, y, l)' <=> Owns(d, y, l)
        /\ Between(d, y, l)' <=> Between(d, y, l)
  BY <1>0 DEF IInv, TypeOK, Calls, InCall, Owns, Between
<1>5. LockState' /\ OwnerState' /\ MutualExclusion'
  BY <1>4, QuietOwners
<1>6. NoPanic' /\ NestedHolds'
  BY <1>0, <1>4 DEF IInv, TypeOK, NoPanic, NestedHolds, Calls, InCall
<1> QED
  BY <1>1, <1>2, <1>2a, <1>2b, <1>3, <1>4, <1>5, <1>6 DEF IInv, SameOwners

(* A handler returns with nothing pushed, to a thread that has nothing pushed. *)
LEMMA SretInv ==
  ASSUME IInv, NEW c \in CPU, Sret(c)
  PROVE  IInv' /\ SameOwners
<1> USE DEF Sret, At, Goto, lockVars, cpuVars, openVars
<1>0. TypeOK /\ Calls /\ Frames
  BY DEF IInv
<1>1. TypeOK'
  BY <1>0 DEF TypeOK, PC, Ctx
<1>2. Frames'
  BY <1>0 DEF IInv, TypeOK, Frames, Ctx
<1>a. noff[c] = 0 /\ opened[c]
  BY <1>0, NothingPushed DEF Frames
<1>b. pushed[c]["task"] = {} /\ offs[c]["task"] = 0 /\ Cardinality({}) = 0
  BY <1>0, FS_EmptySet DEF Frames, Ctx
<1>2a. IntrStack'
  <2>1. ASSUME NEW d \in CPU \ {c} PROVE UNCHANGED <<noff[d], sie[d], run[d], opened[d]>>
    BY <1>0 DEF TypeOK
  <2>2. run'[c] = "task" /\ sie'[c] = TRUE /\ noff'[c] = 0 /\ opened'[c]
    BY <1>0, <1>a DEF TypeOK
  <2>3. noff'[c] = Cardinality(pushed'[c]["task"]) + offs'[c]["task"]
    BY <1>b, <2>2
  <2>4. UNCHANGED <<pushed, offs>>
    OBVIOUS
  <2> HIDE DEF Sret
  <2> QED
    BY <2>1, <2>2, <2>3, <2>4 DEF IInv, IntrStack
<1>2b. Saved'
  BY <1>0, <1>a DEF IInv, TypeOK, Frames, IntrStack, Saved, Ctx
<1>3. Calls'
  BY <1>0 DEF IInv, TypeOK, Calls, InCall
<1>4. \A d \in CPU, y \in Ctx, l \in Lock :
        /\ Owns(d, y, l)' <=> Owns(d, y, l)
        /\ Between(d, y, l)' <=> Between(d, y, l)
  BY <1>0 DEF IInv, TypeOK, Calls, InCall, Owns, Between
<1>5. LockState' /\ OwnerState' /\ MutualExclusion'
  BY <1>4, QuietOwners
<1>6. NoPanic' /\ NestedHolds'
  BY <1>0, <1>4 DEF IInv, TypeOK, NoPanic, NestedHolds, Calls, InCall
<1> QED
  BY <1>1, <1>2, <1>2a, <1>2b, <1>3, <1>4, <1>5, <1>6 DEF IInv, SameOwners

(* Taking the lock: the owner is the context whose test-and-set read 0. *)
LEMMA TestAndSetInv ==
  ASSUME IInv, NEW c \in CPU, NEW x \in Ctx, TestAndSet(c, x)
  PROVE  IInv' /\ op[c][x] \in Lock /\ Takes(c, x, op[c][x])
<1> USE DEF TestAndSet, At, Goto, lockVars, cpuVars, openVars
<1> DEFINE k == op[c][x]
<1>0. TypeOK /\ Calls /\ Frames
  BY DEF IInv
<1>1. TypeOK'
  BY <1>0 DEF TypeOK, PC
<1>2. Frames' /\ IntrStack' /\ Saved'
  BY <1>0 DEF IInv, TypeOK, Frames, IntrStack, Saved, Ctx
<1>3. Calls'
  BY <1>0 DEF TypeOK, Calls, InCall
<1>4. \A d \in CPU, y \in Ctx, l \in Lock :
        Owns(d, y, l)' <=> Owns(d, y, l) \/ (d = c /\ y = x /\ l = k)
  BY <1>0 DEF TypeOK, Calls, InCall, Owns
<1>5. k \in Lock /\ \A d \in CPU, y \in Ctx : ~Owns(d, y, k)
  BY <1>0 DEF IInv, TypeOK, Calls, InCall, LockState
<1>6. LockState' /\ MutualExclusion'
  BY <1>0, <1>4, <1>5, SMTT(30) DEF IInv, TypeOK, LockState, MutualExclusion
<1>7. OwnerState'
  BY <1>0, <1>4, <1>5 DEF IInv, TypeOK, OwnerState, Between
<1>8. NoPanic' /\ NestedHolds'
  BY <1>0, <1>4 DEF IInv, TypeOK, NoPanic, NestedHolds, Calls
<1> QED
  BY <1>1, <1>2, <1>3, <1>4, <1>5, <1>6, <1>7, <1>8 DEF IInv, Takes

(* The owner writes its number: from then on both fields name it. *)
LEMMA SetOwnerInv ==
  ASSUME IInv, NEW c \in CPU, NEW x \in Ctx, SetOwner(c, x)
  PROVE  IInv' /\ SameOwners
<1> USE DEF SetOwner, At, Goto, lockVars, cpuVars, openVars
<1> DEFINE k == op[c][x]
<1>0. TypeOK /\ Calls /\ Frames
  BY DEF IInv
<1>1. TypeOK'
  BY <1>0 DEF TypeOK, PC
<1>2. Frames' /\ IntrStack' /\ Saved'
  BY <1>0 DEF IInv, TypeOK, Frames, IntrStack, Saved, Ctx
<1>3. Calls'
  BY <1>0 DEF TypeOK, Calls, InCall
<1>4. /\ k \in Lock /\ Owns(c, x, k) /\ Between(c, x, k)
      /\ \A l \in Lock : Between(c, x, l) => l = k
      /\ \A d \in CPU, y \in Ctx, l \in Lock :
           /\ Owns(d, y, l)' <=> Owns(d, y, l)
           /\ Between(d, y, l)' <=> Between(d, y, l) /\ ~(d = c /\ y = x)
  BY <1>0 DEF TypeOK, Calls, InCall, Owns, Between
<1>5. LockState' /\ MutualExclusion'
  BY <1>4 DEF IInv, LockState, MutualExclusion
<1>6. OwnerState'
  BY <1>0, <1>4, CPUAssumption DEF IInv, TypeOK, OwnerState, MutualExclusion
<1>7. NoPanic' /\ NestedHolds'
  BY <1>0, <1>4 DEF IInv, TypeOK, NoPanic, NestedHolds, Calls
<1> QED
  BY <1>1, <1>2, <1>3, <1>4, <1>5, <1>6, <1>7 DEF IInv, SameOwners

(* The owner erases its number before it unlocks. *)
LEMMA ClearOwnerInv ==
  ASSUME IInv, NEW c \in CPU, NEW x \in Ctx, ClearOwner(c, x)
  PROVE  IInv' /\ SameOwners
<1> USE DEF ClearOwner, At, Goto, lockVars, cpuVars, openVars
<1> DEFINE k == op[c][x]
<1>0. TypeOK /\ Calls /\ Frames
  BY DEF IInv
<1>1. TypeOK'
  BY <1>0 DEF TypeOK, PC
<1>2. Frames' /\ IntrStack' /\ Saved'
  BY <1>0 DEF IInv, TypeOK, Frames, IntrStack, Saved, Ctx
<1>3. Calls'
  BY <1>0 DEF TypeOK, Calls, InCall
<1>4. /\ k \in Lock /\ Owns(c, x, k)
      /\ \A d \in CPU, y \in Ctx, l \in Lock :
           /\ Owns(d, y, l)' <=> Owns(d, y, l)
           /\ Between(d, y, l)' <=> Between(d, y, l) \/ (d = c /\ y = x /\ l = k)
  BY <1>0 DEF TypeOK, Calls, InCall, Owns, Between
<1>5. LockState' /\ MutualExclusion'
  BY <1>4 DEF IInv, LockState, MutualExclusion
<1>6. OwnerState'
  BY <1>0, <1>4, CPUAssumption DEF IInv, TypeOK, OwnerState, MutualExclusion
<1>7. NoPanic' /\ NestedHolds'
  BY <1>0, <1>4 DEF IInv, TypeOK, NoPanic, NestedHolds, Calls
<1> QED
  BY <1>1, <1>2, <1>3, <1>4, <1>5, <1>6, <1>7 DEF IInv, SameOwners

(* The store that unlocks ends the ownership; lk->cpuid is -1 by then. *)
LEMMA UnlockInv ==
  ASSUME IInv, NEW c \in CPU, NEW x \in Ctx, Unlock(c, x)
  PROVE  IInv' /\ op[c][x] \in Lock /\ Gives(c, x, op[c][x])
<1> USE DEF Unlock, At, Goto, lockVars, cpuVars, openVars
<1> DEFINE k == op[c][x]
<1>0. TypeOK /\ Calls /\ Frames
  BY DEF IInv
<1>1. TypeOK'
  BY <1>0 DEF TypeOK, PC
<1>2. Frames' /\ IntrStack' /\ Saved'
  BY <1>0 DEF IInv, TypeOK, Frames, IntrStack, Saved, Ctx
<1>3. Calls'
  BY <1>0, LockAssumption DEF TypeOK, Calls, InCall
<1>4. /\ k \in Lock /\ Owns(c, x, k) /\ Between(c, x, k)
      /\ \A l \in Lock : Between(c, x, l) => l = k
      /\ \A d \in CPU, y \in Ctx, l \in Lock :
           /\ Owns(d, y, l)' <=> Owns(d, y, l) /\ ~(d = c /\ y = x /\ l = k)
           /\ Between(d, y, l)' <=> Between(d, y, l) /\ ~(d = c /\ y = x)
  BY <1>0 DEF TypeOK, Calls, InCall, Owns, Between
<1>5. LockState' /\ MutualExclusion'
  BY <1>0, <1>4 DEF IInv, TypeOK, LockState, MutualExclusion
<1>6. OwnerState'
  BY <1>0, <1>4 DEF IInv, TypeOK, OwnerState, MutualExclusion
<1>7. NoPanic' /\ NestedHolds'
  BY <1>0, <1>4 DEF IInv, TypeOK, NoPanic, NestedHolds, Calls
<1> QED
  BY <1>1, <1>2, <1>3, <1>4, <1>5, <1>6, <1>7 DEF IInv, Gives

-----------------------------------------------------------------------------
(* Every step preserves the inductive invariant and takes or gives back at
   most one lock. *)
LEMMA NextInv ==
  ASSUME IInv, [Next]_vars
  PROVE  /\ IInv'
         /\ \/ SameOwners
            \/ \E c \in CPU, x \in Ctx, l \in Lock : Takes(c, x, l) \/ Gives(c, x, l)
<1> DEFINE Moves == \/ SameOwners
                    \/ \E c \in CPU, x \in Ctx, l \in Lock :
                          Takes(c, x, l) \/ Gives(c, x, l)
<1>1. CASE UNCHANGED vars
  <2>1. IInv'
    BY <1>1 DEF vars, IInv, TypeOK, Frames, IntrStack, Saved, Calls, LockState,
                OwnerState, MutualExclusion, NoPanic, NestedHolds, Owns, Between
  <2>2. SameOwners
    BY <1>1 DEF vars, SameOwners, Owns
  <2> QED
    BY <2>1, <2>2
<1>2. ASSUME NEW c \in CPU, IntrOn(c) \/ Interrupt(c) \/ Sret(c)
      PROVE  IInv' /\ Moves
  BY <1>2, IntrOnInv, InterruptInv, SretInv
<1>3. ASSUME NEW c \in CPU, NEW x \in Ctx, Step(c, x) PROVE IInv' /\ Moves
  <2>1. CASE TestAndSet(c, x)
    BY <2>1, TestAndSetInv
  <2>2. CASE Unlock(c, x)
    BY <2>2, UnlockInv
  <2>3. CASE ~TestAndSet(c, x) /\ ~Unlock(c, x)
    BY <1>3, <2>3, HoldingCpuidInv, NestedPrintfInv, PushOffInv,
       AssertFreeLockedInv, AssertFreeCpuidInv, SetOwnerInv, AssertHeldCpuidInv,
       ClearOwnerInv, PopOffInv DEF Step
  <2> QED
    BY <2>1, <2>2, <2>3
<1>4. ASSUME NEW c \in CPU, NEW x \in Ctx, Call(c, x) PROVE IInv' /\ Moves
  BY <1>4, CallAcquireInv, CallPrintfInv, CallReleaseInv, CallPushOffInv,
     CallPopOffInv DEF Call
<1> QED
  BY <1>1, <1>2, <1>3, <1>4 DEF Next

(* Spinlock and interrupt stack work for every number of harts and locks: the
   inductive invariant holds in every reachable state. *)
THEOREM Invariance == Spec => []IInv
  <1>1. IInv /\ [Next]_vars => IInv'
  BY NextInv
<1> QED
  BY <1>1, InitInv, PTL DEF Spec

(* The fields of locks and harts keep their types. *)
THEOREM TypeCorrect == Spec => []TypeOK
  BY Invariance, PTL DEF IInv

(* No two contexts are inside the critical section of one lock
   (spinlock_acquire and spinlock_release). *)
THEOREM MutexCorrect == Spec => []MutualExclusion
  BY Invariance, PTL DEF IInv

(* The asserts of spinlock_acquire, spinlock_release and pop_off never fail. *)
THEOREM AssertsHold == Spec => []NoPanic
  BY Invariance, PTL DEF IInv

(* printf leaves out spinlock_acquire only when its own context holds the lock. *)
THEOREM NestedCorrect == Spec => []NestedHolds
  BY Invariance, PTL DEF IInv

(* push_off and pop_off count exactly what is pushed, and mask interrupts
   exactly while something is. *)
THEOREM IntrStackCorrect == Spec => []IntrStack
  BY Invariance, PTL DEF IInv

-----------------------------------------------------------------------------
(* The holder that the refinement mapping names is the owner of the lock. *)
LEMMA HolderIs ==
  ASSUME NEW l \in Lock, NEW c \in CPU, NEW x \in Ctx, Owns(c, x, l),
         locked[l], MutualExclusion
  PROVE  Holder(l) = <<c, x>>
<1>1. Owners(l) = {<<c, x>>}
  BY DEF Owners, MutualExclusion
<1> QED
  BY <1>1 DEF Holder, Member

(* The spinlock implements the lock of LockSpec: a test-and-set that reads 0
   takes the lock, the store of spinlock_release gives it back, and no other
   step of any hart, handler or interrupt changes who holds it. *)
THEOREM LockRefinement == Spec => ImplementsLock
<1> DEFINE H == [l \in Lock |-> Holder(l)]
<1>1. Init => LS!Init
  BY DEF Init, LS!Init, Holder
<1>2. ASSUME IInv, [Next]_vars PROVE [LS!Next]_H
  <2>1. IInv'
    BY <1>2, NextInv
  <2>2. CASE SameOwners
    <3>1. \A l \in Lock : Owners(l)' = Owners(l)
      BY <2>2 DEF SameOwners, Owners
    <3> QED
      BY <2>2, <3>1 DEF SameOwners, Holder
  <2>3. ASSUME NEW c \in CPU, NEW x \in Ctx, NEW k \in Lock, Takes(c, x, k)
        PROVE  LS!Acquire(<<c, x>>, k)
    <3>1. \A l \in Lock \ {k} : Owners(l)' = Owners(l) /\ locked'[l] = locked[l]
      BY <1>2, <2>3 DEF IInv, TypeOK, Takes, Owners
    <3>2. \A l \in Lock \ {k} : Holder(l)' = Holder(l)
      BY <3>1 DEF Holder
    <3>3. Owners(k)' = {<<c, x>>} /\ locked'[k]
      BY <1>2, <2>3 DEF IInv, TypeOK, LockState, Takes, Owners
    <3>4. Holder(k)' = <<c, x>>
      BY <3>3 DEF Holder, Member
    <3>5. Holder(k) = NoCPU
      BY <2>3 DEF Takes, Holder
    <3> QED
      BY <3>2, <3>4, <3>5 DEF LS!Acquire
  <2>4. ASSUME NEW c \in CPU, NEW x \in Ctx, NEW k \in Lock, Gives(c, x, k)
        PROVE  LS!Release(<<c, x>>, k)
    <3>1. \A l \in Lock \ {k} : Owners(l)' = Owners(l) /\ locked'[l] = locked[l]
      BY <1>2, <2>4 DEF IInv, TypeOK, Gives, Owners
    <3>2. \A l \in Lock \ {k} : Holder(l)' = Holder(l)
      BY <3>1 DEF Holder
    <3>3. Holder(k) = <<c, x>>
      BY <1>2, <2>4, HolderIs DEF IInv, LockState, Gives
    <3>4. Holder(k)' = NoCPU
      BY <1>2, <2>4 DEF IInv, TypeOK, Gives, Holder
    <3> QED
      BY <3>2, <3>3, <3>4 DEF LS!Release
  <2> QED
    BY <1>2, <2>2, <2>3, <2>4, NextInv DEF LS!Next
<1> QED
  BY <1>1, <1>2, Invariance, PTL DEF Spec, ImplementsLock, LS!Spec
=============================================================================
