------------------------------- MODULE Harts -------------------------------
(* The harts from main() on: hart Boot initialises the kernel and then lets the
   others in (main.c), every hart takes timer and UART interrupts as soon as it
   has turned them on (trap/trap_kernel.c, timer.c, plic.c, lib/uart.c), all of
   them print (lib/print.c), and hart Boot may panic while the others run.

   The two locks are those of LockSpec.  A hart that waits for a lock, holds it
   or runs a handler has its interrupts masked, which is what SpinLock is about:
   here a hart takes an interrupt only between two statements of its thread.
   Boot ends in trap_user_return, where module UserTrap begins. *)
EXTENDS Devices, FiniteSets, SequencesExt

CONSTANTS Boot,        \* hart 0
          NoCPU,       \* the holder of a free lock
          Period,      \* every so many ticks a line is printed (100)
          MsgLen       \* the characters of a line

ASSUME HartAssumption == /\ IsFiniteSet(CPU) /\ Boot \in CPU /\ NoCPU \notin CPU
                         /\ Period \in Nat \ {0} /\ MsgLen \in Nat \ {0}

VARIABLES todo,      \* todo[h]: the statements of main() that are left
          inited,    \* the parts of the kernel that have been initialised
          started,   \* main.c's flag
          intr,      \* the harts that have turned interrupts on
          irq,       \* irq[h]: the next statement of the handler, or "none"
          seen,      \* seen[h]: `ticks' of timer_interrupt_handler
          ticks,     \* sys_timer.ticks
          holder,    \* who holds print_lk and sys_timer.lk
          say,       \* say[h]: a printf that waits for print_lk or has it
          send,      \* send[h]: the characters still to be sent
          put,       \* put[h]: uart_putc_sync has passed its test of panicked
          panicked,
          echoed,    \* ghost: the characters that uart_intr has sent
          late       \* ghost: how many characters were sent after the panic

printing == <<say, send, put, echoed, late>>
boot == <<todo, inited, started, intr, panicked>>
handling == <<irq, seen, ticks>>
vars == <<timers, uart, boot, handling, holder, printing>>

LK == INSTANCE LockSpec WITH Agent <- CPU, NoAgent <- NoCPU,
                             Lock <- {"print_lk", "sys_timer"}

(* Mutant: the other harts are let in before the traps are initialised. *)
BootScriptEarly == <<"print_init", "hello", "pmem_init", "kvm_init", "kvm_inithart",
                     "start", "trap_init", "trap_inithart", "mmap_init", "proc">>

BootScript == <<"print_init", "hello", "pmem_init", "kvm_init", "kvm_inithart",
                "trap_init", "trap_inithart", "mmap_init", "start", "proc">>
OtherScript == <<"wait", "hello", "kvm_inithart", "trap_inithart">>

(* What a byte is echoed as. *)
Echo(k) == CASE k = "nl" -> <<"cr", "lf">>
             [] k = "del" -> <<"bs", "sp", "bs">>
             [] k = "key" -> <<"key">>
             [] OTHER -> <<>>

Init == /\ DeviceInit
        /\ todo = [h \in CPU |-> IF h = Boot THEN BootScript ELSE OtherScript]
        /\ inited = {} /\ started = FALSE /\ intr = {}
        /\ irq = [h \in CPU |-> "none"]
        /\ seen = [h \in CPU |-> 0] /\ ticks = 0
        /\ LK!Init
        /\ say = [h \in CPU |-> "no"]
        /\ send = [h \in CPU |-> <<>>]
        /\ put = [h \in CPU |-> FALSE]
        /\ panicked = FALSE
        /\ echoed = <<>> /\ late = 0

Left(h) == h = Boot /\ todo[h] = <<>>            \* in trap_user_return
Quiet(h) == say[h] = "no" /\ send[h] = <<>>      \* no output call is running
InThread(h) == irq[h] = "none" /\ Quiet(h)

-----------------------------------------------------------------------------
(* printf: the lock, a line, the lock.  uart_putc_sync spins with interrupts off
   once `panicked' is set; the test and the store are two steps. *)
Say(h) == say' = [say EXCEPT ![h] = "wait"]

PrintfAcquire(h) == /\ say[h] = "wait"
                    /\ LK!Acquire(h, "print_lk")
                    /\ say' = [say EXCEPT ![h] = "open"]
                    /\ send' = [send EXCEPT ![h] = [i \in 1 .. MsgLen |-> "c"]]
                    /\ UNCHANGED <<timers, uart, boot, handling, put, echoed, late>>

(* Mutant: a line that has begun is finished, panicked or not. *)
PutTestFirst(h) ==
  /\ send[h] # <<>> /\ ~ put[h]
  /\ panicked => say[h] = "open" /\ Len(send[h]) < MsgLen
  /\ put' = [put EXCEPT ![h] = TRUE]
  /\ UNCHANGED <<timers, uart, boot, handling, holder, say, send, echoed, late>>

PutTest(h) == /\ send[h] # <<>> /\ ~ put[h] /\ ~ panicked
              /\ put' = [put EXCEPT ![h] = TRUE]
              /\ UNCHANGED <<timers, uart, boot, handling, holder, say, send, echoed, late>>

PutStore(h) == /\ put[h]
               /\ put' = [put EXCEPT ![h] = FALSE]
               /\ send' = [send EXCEPT ![h] = Tail(@)]
               /\ echoed' = IF say[h] = "open" THEN echoed ELSE Append(echoed, Head(send[h]))
               /\ late' = IF panicked THEN late + 1 ELSE late
               /\ tx' = TRUE
               /\ UNCHANGED <<timers, rx, received, claimed, boot, handling, holder, say>>

(* Mutant: the lock is kept. *)
PrintfKeepsLock(h) == /\ say[h] = "open" /\ send[h] = <<>>
                      /\ say' = [say EXCEPT ![h] = "no"]
                      /\ UNCHANGED <<timers, uart, boot, handling, holder, send, put, echoed, late>>

PrintfRelease(h) == /\ say[h] = "open" /\ send[h] = <<>>
                    /\ LK!Release(h, "print_lk")
                    /\ say' = [say EXCEPT ![h] = "no"]
                    /\ UNCHANGED <<timers, uart, boot, handling, send, put, echoed, late>>

Output(h) == PrintfAcquire(h) \/ PutTest(h) \/ PutStore(h) \/ PrintfRelease(h)

-----------------------------------------------------------------------------
(* main() *)
At(h, s) == InThread(h) /\ todo[h] # <<>> /\ Head(todo[h]) = s
Done(h) == todo' = [todo EXCEPT ![h] = Tail(@)]

InitStep(h, s) == /\ At(h, s)
                  /\ s \in {"print_init", "pmem_init", "kvm_init", "trap_init", "mmap_init"}
                  /\ Done(h)
                  /\ inited' = inited \cup {s}
                  /\ UNCHANGED <<timers, uart, started, intr, panicked, handling, holder, printing>>

Hello(h) == /\ At(h, "hello")
            /\ Done(h) /\ Say(h)
            /\ UNCHANGED <<timers, uart, inited, started, intr, panicked, handling, holder,
                           send, put, echoed, late>>

Start(h) == /\ At(h, "start")
            /\ Done(h)
            /\ started' = TRUE
            /\ UNCHANGED <<timers, uart, inited, intr, panicked, handling, holder, printing>>

Wait(h) == /\ At(h, "wait") /\ started
           /\ Done(h)
           /\ UNCHANGED <<timers, uart, inited, started, intr, panicked, handling, holder, printing>>

KvmInithart(h) == /\ At(h, "kvm_inithart")
                  /\ Done(h)
                  /\ UNCHANGED <<timers, uart, inited, started, intr, panicked, handling, holder, printing>>

TrapInithart(h) == /\ At(h, "trap_inithart")
                   /\ Done(h)
                   /\ intr' = intr \cup {h}
                   /\ UNCHANGED <<timers, uart, inited, started, panicked, handling, holder, printing>>

(* proc_make_first, up to the point where the hart leaves the kernel's vector *)
Proc(h) == /\ At(h, "proc")
           /\ Done(h)
           /\ intr' = intr \ {h}
           /\ UNCHANGED <<timers, uart, inited, started, panicked, handling, holder, printing>>

(* pmem_alloc panics when it has no page; panic prints, then sets the flag, then
   spins: with interrupts on, if they were on. *)
Panic(h) == /\ At(h, "kvm_init") \/ At(h, "proc")
            /\ todo' = [todo EXCEPT ![h] = <<"panicked", "halt">>]
            /\ Say(h)
            /\ UNCHANGED <<timers, uart, inited, started, intr, panicked, handling, holder,
                           send, put, echoed, late>>

SetPanicked(h) == /\ At(h, "panicked")
                  /\ Done(h)
                  /\ panicked' = TRUE
                  /\ UNCHANGED <<timers, uart, inited, started, intr, handling, holder, printing>>

Thread(h) == \/ \E s \in {todo[h][i] : i \in DOMAIN todo[h]} : InitStep(h, s)
             \/ Hello(h) \/ Start(h) \/ Wait(h) \/ KvmInithart(h) \/ TrapInithart(h)
             \/ Proc(h) \/ Panic(h) \/ SetPanicked(h)

-----------------------------------------------------------------------------
(* trap_kernel_handler *)
Goto(h, l) == irq' = [irq EXCEPT ![h] = l]
Interruptible(h) == h \in intr /\ InThread(h)

(* Mutant: every hart counts the tick. *)
TakeTimerCounts(h) == /\ Interruptible(h) /\ ssip[h]
                      /\ Goto(h, "update")
                      /\ UNCHANGED <<timers, uart, boot, seen, ticks, holder, printing>>

TakeTimer(h) == /\ Interruptible(h) /\ ssip[h]
                /\ Goto(h, IF h = Boot THEN "update" ELSE "get")
                /\ UNCHANGED <<timers, uart, boot, seen, ticks, holder, printing>>

TakeUart(h) == /\ Interruptible(h) /\ UartPending
               /\ Goto(h, "claim")
               /\ UNCHANGED <<timers, uart, boot, seen, ticks, holder, printing>>

(* timer_update *)
UpdateAcquire(h) == /\ irq[h] = "update" /\ Goto(h, "add")
                    /\ LK!Acquire(h, "sys_timer")
                    /\ UNCHANGED <<timers, uart, boot, seen, ticks, printing>>

UpdateAdd(h) == /\ irq[h] = "add" /\ Goto(h, "added")
                /\ ticks' = ticks + 1
                /\ UNCHANGED <<timers, uart, boot, seen, holder, printing>>

UpdateRelease(h) == /\ irq[h] = "added" /\ Goto(h, "get")
                    /\ LK!Release(h, "sys_timer")
                    /\ UNCHANGED <<timers, uart, boot, seen, ticks, printing>>

(* timer_get_ticks *)
GetAcquire(h) == /\ irq[h] = "get" /\ Goto(h, "read")
                 /\ LK!Acquire(h, "sys_timer")
                 /\ UNCHANGED <<timers, uart, boot, seen, ticks, printing>>

GetRead(h) == /\ irq[h] = "read" /\ Goto(h, "got")
              /\ seen' = [seen EXCEPT ![h] = ticks]
              /\ UNCHANGED <<timers, uart, boot, ticks, holder, printing>>

GetRelease(h) == /\ irq[h] = "got" /\ Goto(h, "report")
                 /\ LK!Release(h, "sys_timer")
                 /\ UNCHANGED <<timers, uart, boot, seen, ticks, printing>>

(* Every hart reports the number it has read, 0 included. *)
Report(h) == /\ irq[h] = "report" /\ Goto(h, "clear")
             /\ IF seen[h] % Period = 0 THEN Say(h) ELSE UNCHANGED say
             /\ seen' = [seen EXCEPT ![h] = 0]
             /\ UNCHANGED <<timers, uart, boot, ticks, holder, send, put, echoed, late>>

(* Mutant: the hart returns without clearing the pending bit. *)
ClearForgotten(h) == /\ irq[h] = "clear" /\ Quiet(h) /\ Goto(h, "none")
                     /\ UNCHANGED <<timers, uart, boot, seen, ticks, holder, printing>>

(* The bit is cleared last: a timer that has fired since is cleared with it. *)
ClearPending(h) == /\ irq[h] = "clear" /\ Quiet(h) /\ Goto(h, "none")
                   /\ ssip' = [ssip EXCEPT ![h] = FALSE]
                   /\ UNCHANGED <<fired, merged, uart, boot, seen, ticks, holder, printing>>

-----------------------------------------------------------------------------
(* external_interrupt_handler *)

(* Mutant: the interrupt is completed before the bytes are read. *)
ClaimCompletes(h) == /\ irq[h] = "claim"
                     /\ tx' = FALSE
                     /\ Goto(h, "poll")
                     /\ UNCHANGED <<timers, rx, received, claimed, boot, seen, ticks, holder, printing>>

(* Another hart may have been faster: then the claim answers 0. *)
Claim(h) == /\ irq[h] = "claim"
            /\ IF UartPending
               THEN claimed' = TRUE /\ tx' = FALSE /\ Goto(h, "poll")
               ELSE Goto(h, "none") /\ UNCHANGED <<claimed, tx>>
            /\ UNCHANGED <<timers, rx, received, boot, seen, ticks, holder, printing>>

(* uart_intr: a byte, its echo, the next byte. *)
Poll(h) == /\ irq[h] = "poll" /\ Quiet(h)
           /\ IF rx = <<>> THEN Goto(h, "complete") /\ UNCHANGED <<rx, send>>
              ELSE /\ rx' = Tail(rx)
                   /\ send' = [send EXCEPT ![h] = Echo(Head(rx))]
                   /\ UNCHANGED irq
           /\ UNCHANGED <<timers, received, tx, claimed, boot, seen, ticks, holder, say, put, echoed, late>>

(* Mutant: the handler reads one byte an interrupt and does not complete it. *)
CompleteForgotten(h) == /\ irq[h] = "complete" /\ Goto(h, "none")
                        /\ UNCHANGED <<timers, uart, boot, seen, ticks, holder, printing>>

Complete(h) == /\ irq[h] = "complete" /\ Goto(h, "none")
               /\ claimed' = FALSE
               /\ UNCHANGED <<timers, rx, received, tx, boot, seen, ticks, holder, printing>>

Take(h) == TakeTimer(h) \/ TakeUart(h)

Handler(h) == \/ UpdateAcquire(h) \/ UpdateAdd(h) \/ UpdateRelease(h)
              \/ GetAcquire(h) \/ GetRead(h) \/ GetRelease(h) \/ Report(h) \/ ClearPending(h)
              \/ Claim(h) \/ Poll(h) \/ Complete(h)

Device == /\ \/ \E h \in CPU : TimerFires(h) /\ UNCHANGED uart
             \/ "print_init" \in inited /\ Receive /\ UNCHANGED <<timers, tx, claimed>>
          /\ UNCHANGED <<boot, handling, holder, printing>>

Next == Device \/ \E h \in CPU : Thread(h) \/ Take(h) \/ Handler(h) \/ Output(h)

Spec == Init /\ [][Next]_vars

(* A hart keeps executing what it is in, and a hart with its interrupts on takes
   one that stays pending. *)
FairSpec == Spec /\ \A h \in CPU : /\ WF_vars(Thread(h)) /\ WF_vars(Take(h))
                                   /\ WF_vars(Handler(h)) /\ WF_vars(Output(h))

-----------------------------------------------------------------------------
TimerPart == {"update", "add", "added", "get", "read", "got", "report", "clear"}
UartPart == {"claim", "poll", "complete"}

TypeOK == /\ DeviceTypeOK
          /\ todo \in [CPU -> Seq({BootScript[i] : i \in DOMAIN BootScript} \cup
                                  {"wait", "panicked", "halt"})]
          /\ inited \subseteq {BootScript[i] : i \in DOMAIN BootScript}
          /\ {started, panicked} \subseteq BOOLEAN /\ intr \subseteq CPU
          /\ irq \in [CPU -> TimerPart \cup UartPart \cup {"none"}]
          /\ seen \in [CPU -> Nat] /\ ticks \in Nat
          /\ holder \in [{"print_lk", "sys_timer"} -> CPU \cup {NoCPU}]
          /\ say \in [CPU -> {"no", "wait", "open"}]
          /\ \A h \in CPU : send[h] \in Seq({"c", "cr", "lf", "bs", "sp", "key"})
          /\ put \in [CPU -> BOOLEAN] /\ late \in Nat

(* What the next statement of a hart needs to have been initialised. *)
Needs(h) ==
  (IF todo[h] = <<>> THEN {}
   ELSE CASE Head(todo[h]) = "hello" -> {"print_init"}
          [] Head(todo[h]) = "kvm_init" -> {"pmem_init"}
          [] Head(todo[h]) = "kvm_inithart" -> {"kvm_init"}
          [] Head(todo[h]) = "trap_inithart" -> {"trap_init"}
          [] Head(todo[h]) = "proc" -> {"pmem_init", "kvm_init", "mmap_init"}
          [] OTHER -> {})
  \cup (IF say[h] # "no" \/ irq[h] # "none" THEN {"print_init"} ELSE {})
  \cup (IF irq[h] # "none" THEN {"trap_init"} ELSE {})

(* Whatever the other harts and their interrupts do, no hart comes to a statement
   before what it uses has been initialised. *)
InitBeforeUse == /\ TypeOK
                 /\ \A h \in CPU : Needs(h) \subseteq inited

(* trap/type.h:29, ticks++ on each timer interrupt: ticks are the interrupts of the
   boot hart's timer, of no other hart's, except those that found the one before
   them pending, and the one that is pending and not yet counted. *)
TicksExact ==
  fired[Boot] = ticks + merged[Boot]
                + (IF ssip[Boot] /\ irq[Boot] \notin TimerPart \ {"update", "add"} THEN 1 ELSE 0)

(* The echo is what was typed, in its order, none of it twice, whichever harts
   take the interrupts; and once all has been read nothing is missing. *)
EchoExact ==
  LET expected == FlattenSeq([i \in 1 .. received |-> Echo(Typed[i])])
  IN  /\ IsPrefix(echoed, expected)
      /\ rx = <<>> /\ ~ claimed => echoed = expected

(* After a panic each of the other harts sends at most the character that it was
   about to send: the last line on the screen is the message, or is cut short. *)
Silence == late <= Cardinality(CPU) - 1

(* Every interrupt that becomes pending is served, by a hart that has not left
   the kernel, and every byte is read; a panic stops that. *)
Served == /\ \A h \in CPU : ssip[h] ~> (~ ssip[h] \/ panicked \/ Left(h))
          /\ (rx # <<>> \/ claimed) ~> ((rx = <<>> /\ ~ claimed) \/ panicked)

(* A hart that panics gets its message out and stops the others, although it has
   to wait for print_lk and its interrupts stay on. *)
PanicHeard == \A h \in CPU :
                (todo[h] # <<>> /\ Head(todo[h]) = "panicked") ~> panicked
=============================================================================
