------------------------------ MODULE SpinLock ------------------------------
(* The spinlock of the kernel (lock/spinlock.c) on the CPUs that share it,
   under the interrupts that preempt its callers.

   A CPU runs its thread ("task") until an interrupt, possible only while its
   sstatus.SIE bit is set, makes it run the handler ("irq") to the end.  Both
   contexts call push_off, pop_off, spinlock_acquire, spinlock_release, and
   printf's `if (!spinlock_holding) acquire'.  Every read or write of a lock's
   fields is a step of its own; what a CPU does to its private cpu_t while its
   interrupts are masked is one step, since nobody can observe the inside.

   `pushed' and `offs' record what a context has pushed and not yet popped:
   the locks, and the bare push_off of uart_putc_sync. *)
EXTENDS Integers, FiniteSets

CONSTANTS CPU,       \* the harts (NCPU of them)
          Lock,      \* the spinlocks
          TaskLocks, \* the locks that thread code takes
          IrqLocks,  \* the locks that an interrupt handler takes
          Rank,      \* the order in which nested locks are taken
          MaxOff,    \* bound: nested bare push_off calls of one context
          NoCPU,     \* the value -1 of lk->cpuid
          NoLock     \* no lock: a bare push_off or pop_off

ASSUME CPUAssumption == NoCPU \notin CPU
ASSUME LockAssumption == /\ NoLock \notin Lock
                         /\ TaskLocks \subseteq Lock
                         /\ IrqLocks \subseteq Lock
                         /\ Rank \in [Lock -> Nat]
                         /\ MaxOff \in Nat

VARIABLES locked,    \* lk->locked
          cpuid,     \* lk->cpuid
          sie,       \* sstatus.SIE of each hart: interrupts are enabled
          noff,      \* cpu->noff
          origin,    \* cpu->origin
          run,       \* which context each hart executes
          opened,    \* trap_kernel_inithart has turned interrupts on
          pc,        \* where each context is
          op,        \* the lock a context's current call is about
          old,       \* the local `old' of push_off
          pushed,    \* the locks whose push_off a context has not undone
          offs       \* the bare push_off calls it has not undone

lockVars == <<locked, cpuid>>
cpuVars  == <<sie, noff, origin>>
openVars == <<pushed, offs>>
vars == <<locked, cpuid, sie, noff, origin, run, opened, pc, op, old,
          pushed, offs>>

Ctx == {"task", "irq"}
PC  == {"run", "hold_cpuid", "nested", "off", "chk_locked", "chk_cpuid",
        "tas", "own", "rel_cpuid", "clr", "unl", "pop", "panic"}

LocksOf(x) == IF x = "task" THEN TaskLocks ELSE IrqLocks

Init == /\ locked = [l \in Lock |-> FALSE]
        /\ cpuid  = [l \in Lock |-> NoCPU]
        /\ sie    = [c \in CPU |-> FALSE]
        /\ noff   = [c \in CPU |-> 0]
        /\ origin = [c \in CPU |-> FALSE]
        /\ run    = [c \in CPU |-> "task"]
        /\ opened = [c \in CPU |-> FALSE]
        /\ pc     = [c \in CPU |-> [x \in Ctx |-> "run"]]
        /\ op     = [c \in CPU |-> [x \in Ctx |-> NoLock]]
        /\ old    = [c \in CPU |-> [x \in Ctx |-> FALSE]]
        /\ pushed = [c \in CPU |-> [x \in Ctx |-> {}]]
        /\ offs   = [c \in CPU |-> [x \in Ctx |-> 0]]

-----------------------------------------------------------------------------
At(c, x, p)   == run[c] = x /\ pc[c][x] = p
Goto(c, x, p) == pc' = [pc EXCEPT ![c][x] = p]
About(c, x, l) == op' = [op EXCEPT ![c][x] = l]

(* The order among locks that the callers keep: list_lk is held while printf
   takes print_lk, nothing is taken under print_lk. *)
MayTake(c, x, l) == /\ l \in LocksOf(x) \ pushed[c][x]
                    /\ offs[c][x] = 0
                    /\ \A m \in pushed[c][x] : Rank[m] < Rank[l]

(* push_off up to its first line: int old = intr_get(). *)
CallAcquire(c, x, l) == /\ At(c, x, "run")
                        /\ MayTake(c, x, l)
                        /\ About(c, x, l)
                        /\ old' = [old EXCEPT ![c][x] = sie[c]]
                        /\ Goto(c, x, "off")
                        /\ UNCHANGED <<lockVars, cpuVars, run, opened, openVars>>

CallPushOff(c, x) == /\ At(c, x, "run")
                     /\ offs[c][x] < MaxOff
                     /\ About(c, x, NoLock)
                     /\ old' = [old EXCEPT ![c][x] = sie[c]]
                     /\ Goto(c, x, "off")
                     /\ UNCHANGED <<lockVars, cpuVars, run, opened, openVars>>

(* printf: lk->locked is read first, lk->cpuid only if it was set. *)
CallPrintf(c, x, l) == /\ At(c, x, "run")
                       /\ l \in pushed[c][x] \/ MayTake(c, x, l)
                       /\ About(c, x, l)
                       /\ Goto(c, x, IF locked[l] THEN "hold_cpuid" ELSE "off")
                       /\ old' = [old EXCEPT ![c][x] = IF locked[l] THEN @ ELSE sie[c]]
                       /\ UNCHANGED <<lockVars, cpuVars, run, opened, openVars>>

HoldingCpuid(c, x) ==
  LET holding == cpuid[op[c][x]] = c
  IN  /\ At(c, x, "hold_cpuid")
      /\ Goto(c, x, IF holding THEN "nested" ELSE "off")
      /\ old' = [old EXCEPT ![c][x] = IF holding THEN @ ELSE sie[c]]
      /\ UNCHANGED <<lockVars, cpuVars, run, opened, op, openVars>>

(* printf's body without taking the lock: need_unlock stayed 0. *)
NestedPrintf(c, x) == /\ At(c, x, "nested")
                      /\ Goto(c, x, "run")
                      /\ UNCHANGED <<lockVars, cpuVars, run, opened, op, old,
                                     openVars>>

(* Mutant: every push_off saves the state, not the first one only. *)
PushOffSavesAlways(c, x) ==
  /\ At(c, x, "off")
  /\ sie' = [sie EXCEPT ![c] = FALSE]
  /\ origin' = [origin EXCEPT ![c] = old[c][x]]
  /\ noff' = [noff EXCEPT ![c] = @ + 1]
  /\ offs' = [offs EXCEPT ![c][x] = IF op[c][x] = NoLock THEN @ + 1 ELSE @]
  /\ pushed' = [pushed EXCEPT ![c][x] = @ \cup ({op[c][x]} \ {NoLock})]
  /\ Goto(c, x, IF op[c][x] = NoLock THEN "run" ELSE "chk_locked")
  /\ UNCHANGED <<lockVars, run, opened, op, old>>

(* Mutant: intr_off() left out. *)
PushOffUnmasked(c, x) ==
  /\ At(c, x, "off")
  /\ origin' = [origin EXCEPT ![c] = IF noff[c] = 0 THEN old[c][x] ELSE @]
  /\ noff' = [noff EXCEPT ![c] = @ + 1]
  /\ offs' = [offs EXCEPT ![c][x] = IF op[c][x] = NoLock THEN @ + 1 ELSE @]
  /\ pushed' = [pushed EXCEPT ![c][x] = @ \cup ({op[c][x]} \ {NoLock})]
  /\ Goto(c, x, IF op[c][x] = NoLock THEN "run" ELSE "chk_locked")
  /\ UNCHANGED <<sie, lockVars, run, opened, op, old>>

(* intr_off() and the bookkeeping after it. *)
PushOff(c, x) ==
  /\ At(c, x, "off")
  /\ sie' = [sie EXCEPT ![c] = FALSE]
  /\ origin' = [origin EXCEPT ![c] = IF noff[c] = 0 THEN old[c][x] ELSE @]
  /\ noff' = [noff EXCEPT ![c] = @ + 1]
  /\ offs' = [offs EXCEPT ![c][x] = IF op[c][x] = NoLock THEN @ + 1 ELSE @]
  /\ pushed' = [pushed EXCEPT ![c][x] = @ \cup ({op[c][x]} \ {NoLock})]
  /\ Goto(c, x, IF op[c][x] = NoLock THEN "run" ELSE "chk_locked")
  /\ UNCHANGED <<lockVars, run, opened, op, old>>

(* assert(!spinlock_holding(lk)): two reads, the second if the first is set. *)
AssertFreeLocked(c, x) ==
  /\ At(c, x, "chk_locked")
  /\ Goto(c, x, IF locked[op[c][x]] THEN "chk_cpuid" ELSE "tas")
  /\ UNCHANGED <<lockVars, cpuVars, run, opened, op, old, openVars>>

AssertFreeCpuid(c, x) ==
  /\ At(c, x, "chk_cpuid")
  /\ Goto(c, x, IF cpuid[op[c][x]] = c THEN "panic" ELSE "tas")
  /\ UNCHANGED <<lockVars, cpuVars, run, opened, op, old, openVars>>

(* Mutant: a store of 1 whose old value is not looked at. *)
SetWithoutTest(c, x) == /\ At(c, x, "tas")
                        /\ locked' = [locked EXCEPT ![op[c][x]] = TRUE]
                        /\ Goto(c, x, "own")
                        /\ UNCHANGED <<cpuid, cpuVars, run, opened, op, old, openVars>>

(* The test-and-set that reads 0; one that reads 1 changes nothing. *)
TestAndSet(c, x) == /\ At(c, x, "tas")
                    /\ ~locked[op[c][x]]
                    /\ locked' = [locked EXCEPT ![op[c][x]] = TRUE]
                    /\ Goto(c, x, "own")
                    /\ UNCHANGED <<cpuid, cpuVars, run, opened, op, old, openVars>>

SetOwner(c, x) == /\ At(c, x, "own")
                  /\ cpuid' = [cpuid EXCEPT ![op[c][x]] = c]
                  /\ Goto(c, x, "run")
                  /\ UNCHANGED <<locked, cpuVars, run, opened, op, old, openVars>>

-----------------------------------------------------------------------------
(* assert(spinlock_holding(lk)) of release, from its first read. *)
CallRelease(c, x, l) ==
  /\ At(c, x, "run")
  /\ offs[c][x] = 0
  /\ l \in pushed[c][x]
  /\ About(c, x, l)
  /\ Goto(c, x, IF locked[l] THEN "rel_cpuid" ELSE "panic")
  /\ UNCHANGED <<lockVars, cpuVars, run, opened, old, openVars>>

AssertHeldCpuid(c, x) ==
  /\ At(c, x, "rel_cpuid")
  /\ Goto(c, x, IF cpuid[op[c][x]] = c THEN "clr" ELSE "panic")
  /\ UNCHANGED <<lockVars, cpuVars, run, opened, op, old, openVars>>

(* Mutant: release without lk->cpuid = -1. *)
KeepOwner(c, x) == /\ At(c, x, "clr")
                   /\ Goto(c, x, "unl")
                   /\ UNCHANGED <<lockVars, cpuVars, run, opened, op, old, openVars>>

ClearOwner(c, x) == /\ At(c, x, "clr")
                    /\ cpuid' = [cpuid EXCEPT ![op[c][x]] = NoCPU]
                    /\ Goto(c, x, "unl")
                    /\ UNCHANGED <<locked, cpuVars, run, opened, op, old, openVars>>

Unlock(c, x) == /\ At(c, x, "unl")
                /\ locked' = [locked EXCEPT ![op[c][x]] = FALSE]
                /\ Goto(c, x, "pop")
                /\ UNCHANGED <<cpuid, cpuVars, run, opened, op, old, openVars>>

CallPopOff(c, x) == /\ At(c, x, "run")
                    /\ offs[c][x] > 0
                    /\ About(c, x, NoLock)
                    /\ Goto(c, x, "pop")
                    /\ UNCHANGED <<lockVars, cpuVars, run, opened, old, openVars>>

(* pop_off: its two asserts, then the count and the saved interrupt state. *)
PopOff(c, x) ==
  /\ At(c, x, "pop")
  /\ IF sie[c] \/ noff[c] < 1
       THEN /\ Goto(c, x, "panic")
            /\ UNCHANGED <<sie, noff, openVars>>
       ELSE /\ noff' = [noff EXCEPT ![c] = @ - 1]
            /\ sie' = [sie EXCEPT ![c] = noff[c] = 1 /\ origin[c]]
            /\ offs' = [offs EXCEPT ![c][x] = IF op[c][x] = NoLock THEN @ - 1 ELSE @]
            /\ pushed' = [pushed EXCEPT ![c][x] = @ \ {op[c][x]}]
            /\ Goto(c, x, "run")
  /\ UNCHANGED <<lockVars, origin, run, opened, op, old>>

-----------------------------------------------------------------------------
(* intr_on() of trap_kernel_inithart. *)
IntrOn(c) == /\ At(c, "task", "run")
             /\ ~opened[c]
             /\ pushed[c]["task"] = {} /\ offs[c]["task"] = 0
             /\ sie' = [sie EXCEPT ![c] = TRUE]
             /\ opened' = [opened EXCEPT ![c] = TRUE]
             /\ UNCHANGED <<lockVars, noff, origin, run, pc, op, old, openVars>>

(* The hart takes an interrupt: SIE is saved in SPIE and cleared. *)
Interrupt(c) == /\ run[c] = "task"
                /\ sie[c]
                /\ run' = [run EXCEPT ![c] = "irq"]
                /\ sie' = [sie EXCEPT ![c] = FALSE]
                /\ UNCHANGED <<lockVars, noff, origin, opened, pc, op, old, openVars>>

(* sret of kernel_vector: SIE is SPIE, which is 1. *)
Sret(c) == /\ At(c, "irq", "run")
           /\ pushed[c]["irq"] = {} /\ offs[c]["irq"] = 0
           /\ run' = [run EXCEPT ![c] = "task"]
           /\ sie' = [sie EXCEPT ![c] = TRUE]
           /\ UNCHANGED <<lockVars, noff, origin, opened, pc, op, old, openVars>>

(* What a context does without choosing to: the inside of a call. *)
Step(c, x) == \/ HoldingCpuid(c, x) \/ NestedPrintf(c, x) \/ PushOff(c, x)
              \/ AssertFreeLocked(c, x) \/ AssertFreeCpuid(c, x)
              \/ TestAndSet(c, x) \/ SetOwner(c, x)
              \/ AssertHeldCpuid(c, x) \/ ClearOwner(c, x) \/ Unlock(c, x)
              \/ PopOff(c, x)

Call(c, x) == \/ \E l \in Lock : \/ CallAcquire(c, x, l)
                                 \/ CallPrintf(c, x, l)
                                 \/ CallRelease(c, x, l)
              \/ CallPushOff(c, x)
              \/ CallPopOff(c, x)

Next == \E c \in CPU : \/ IntrOn(c) \/ Interrupt(c) \/ Sret(c)
                       \/ \E x \in Ctx : Step(c, x) \/ Call(c, x)

Spec == Init /\ [][Next]_vars

(* A hart keeps executing; a critical section of the kernel is finite, so the
   hart comes to the release or the pop_off it has open.  Nothing is assumed of
   new calls, of interrupts, or of who wins a test-and-set. *)
Fairness ==
  \A c \in CPU :
    /\ WF_vars(\E x \in Ctx : Step(c, x))
    /\ SF_vars(\E x \in Ctx, l \in Lock : CallRelease(c, x, l))
    /\ SF_vars(\E x \in Ctx : CallPopOff(c, x))

FairSpec == Spec /\ Fairness

-----------------------------------------------------------------------------
TypeOK == /\ locked \in [Lock -> BOOLEAN]
          /\ cpuid  \in [Lock -> CPU \cup {NoCPU}]
          /\ sie    \in [CPU -> BOOLEAN]
          /\ noff   \in [CPU -> Nat]
          /\ origin \in [CPU -> BOOLEAN]
          /\ run    \in [CPU -> Ctx]
          /\ opened \in [CPU -> BOOLEAN]
          /\ pc     \in [CPU -> [Ctx -> PC]]
          /\ op     \in [CPU -> [Ctx -> Lock \cup {NoLock}]]
          /\ old    \in [CPU -> [Ctx -> BOOLEAN]]
          /\ pushed \in [CPU -> [Ctx -> SUBSET Lock]]
          /\ offs   \in [CPU -> [Ctx -> Nat]]

(* A context holds l from its test-and-set to the store that unlocks it. *)
Owns(c, x, l) ==
  /\ l \in pushed[c][x]
  /\ ~(/\ op[c][x] = l
       /\ pc[c][x] \in {"chk_locked", "chk_cpuid", "tas", "pop"})

(* No two contexts, of two harts or of one hart and its handler, are inside
   the section of one lock. *)
MutualExclusion ==
  \A l \in Lock, c, d \in CPU, x, y \in Ctx :
     Owns(c, x, l) /\ Owns(d, y, l) => c = d /\ x = y

(* None of the four asserts of spinlock.c fails, although spinlock_holding
   reads two fields that other harts are writing. *)
NoPanic == \A c \in CPU, x \in Ctx : pc[c][x] # "panic"

(* printf skips spinlock_acquire only when its own context holds the lock. *)
NestedHolds ==
  \A c \in CPU, x \in Ctx : pc[c][x] = "nested" => Owns(c, x, op[c][x])

(* The stack of push_off: interrupts are masked as long as anything is pushed
   and throughout a handler, and are back as the thread left them when it is
   empty; the count is exactly what the running context has pushed. *)
IntrStack ==
  \A c \in CPU :
    /\ noff[c] = Cardinality(pushed[c][run[c]]) + offs[c][run[c]]
    /\ (sie[c] <=> run[c] = "task" /\ noff[c] = 0 /\ opened[c])

Owners(l) == {a \in CPU \X Ctx : Owns(a[1], a[2], l)}
Member(S) == CHOOSE a \in S : TRUE
Holder(l) == IF locked[l] THEN Member(Owners(l)) ELSE NoCPU

LS == INSTANCE LockSpec WITH Agent <- CPU \X Ctx, NoAgent <- NoCPU,
                             holder <- [l \in Lock |-> Holder(l)]

(* The machine of locked, cpuid and push_off is a lock: refinement. *)
ImplementsLock == LS!Spec

(* A lock under which no other lock is taken is always given back. *)
Leaf(l) == \A m \in Lock : Rank[m] <= Rank[l]
LeafReleased == \A l \in Lock : Leaf(l) => (locked[l] ~> ~locked[l])
=============================================================================
