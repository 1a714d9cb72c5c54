------------------------------ MODULE UserTrap ------------------------------
(* Hart 0 at the end of proc_make_first: the way from the kernel to user mode and
   back (trap/trap_user.c, trap/trampoline.S, proc/proc.c), one access to memory
   or one control register at a time.

   An address is the mapping that translates it: "TRAPFRAME" is the page that the
   user's table maps to the trapframe, "frame" the same page under its physical
   address, which only the kernel's table maps, "data" another address of the
   kernel, and "none" is in neither. *)

CONSTANT Interrupts    \* may one come?

VARIABLES mode,              \* "U" or "S"
          pc,                \* the next step; "panic"; or "lost", anywhere
          satp,              \* whose table is in use: "kernel" or "user"
          a0, sscratch,      \* the two registers that carry the trapframe
          stvec,             \* "kernel_vector" or "user_vector"
          sepc,              \* where the last trap came from
          epc,               \* the trapframe's user_to_kern_epc
          intr               \* sstatus.SIE

regs == <<a0, sscratch>>
traps == <<stvec, sepc, epc, intr>>
vars == <<mode, pc, satp, regs, traps>>

(* The user's table holds the trampoline, the trapframe and pages of the user; the
   trampoline, where the code below runs, is in both. *)
Maps(table, a) == a \in IF table = "user" THEN {"TRAPFRAME"} ELSE {"frame", "data"}

(* proc_make_first has written epc; sscratch is as the reset left it. *)
Init == /\ mode = "S" /\ pc = "trap_user_return" /\ satp = "kernel"
        /\ a0 = "data" /\ sscratch = "none"
        /\ stvec = "kernel_vector" /\ sepc = "kernel" /\ epc = "entry"
        /\ intr = TRUE

(* A trap masks the interrupts and goes to stvec, from whatever mode. *)
Trap == /\ mode' = "S" /\ intr' = FALSE
        /\ sepc' = (IF mode = "U" THEN "user" ELSE "kernel")
        /\ pc' = stvec
        /\ UNCHANGED <<satp, regs, stvec, epc>>

(* A load or store through a0, and a page fault if a0 is not mapped. *)
Access(done) == IF Maps(satp, a0) THEN done ELSE Trap

-----------------------------------------------------------------------------
(* trap_user_return, with the interrupts as its caller left them *)
SetStvec == /\ pc = "trap_user_return"
            /\ pc' = "call" /\ stvec' = "user_vector"
            /\ UNCHANGED <<mode, satp, regs, sepc, epc, intr>>

CallUserReturn == /\ pc = "call"
                  /\ pc' = "user_return" /\ a0' = "frame"
                  /\ UNCHANGED <<mode, satp, sscratch, traps>>

(* user_return: the user's table, then the registers out of the trapframe. *)
SwitchTable == /\ pc = "user_return"
               /\ pc' = "restore" /\ satp' = "user"
               /\ UNCHANGED <<mode, regs, traps>>

RestoreFrame == /\ pc = "restore"
                /\ Access(/\ pc' = "sret"
                          /\ a0' = "data" /\ sscratch' = a0
                          /\ UNCHANGED <<mode, satp, traps>>)

(* sret goes to sepc, which no code sets from epc. *)
Sret == /\ pc = "sret"
        /\ mode' = "U" /\ pc' = sepc /\ intr' = TRUE
        /\ UNCHANGED <<satp, regs, stvec, sepc, epc>>

-----------------------------------------------------------------------------
(* user_vector *)
Swap == /\ pc = "user_vector"
        /\ pc' = "save" /\ a0' = sscratch /\ sscratch' = a0
        /\ UNCHANGED <<mode, satp, traps>>

(* The registers are stored; the kernel's table, its stack and the address to jump
   to are read from the same page. *)
SaveFrame ==
  /\ pc = "save"
  /\ Access(IF a0 = "data" THEN pc' = "lost" /\ UNCHANGED <<mode, satp, regs, traps>>
            ELSE /\ pc' = "trap_user_handler" /\ satp' = "kernel"
                 /\ UNCHANGED <<mode, regs, traps>>)

(* trap_user_handler: a system call or a fault of the user's that the stack
   answers; anything else is the end of proczero, which is a panic. *)
Handler == /\ pc = "trap_user_handler"
           /\ epc' = sepc /\ stvec' = "kernel_vector"
           /\ pc' \in (IF sepc = "user" THEN {"trap_user_return"} ELSE {}) \cup {"panic"}
           /\ UNCHANGED <<mode, satp, regs, sepc, intr>>

(* The program makes a system call or faults. *)
UserTraps == mode = "U" /\ Trap

(* An interrupt of user mode, or of the kernel while SIE is set.  kernel_vector
   returns to where it came from, with the registers as they were. *)
Interrupt == /\ Interrupts
             /\ mode = "U" \/ intr
             /\ IF stvec = "user_vector" THEN Trap ELSE UNCHANGED vars

Step == \/ SetStvec \/ CallUserReturn \/ SwitchTable \/ RestoreFrame \/ Sret
        \/ Swap \/ SaveFrame \/ Handler \/ UserTraps

Next == Step \/ Interrupt

Spec == Init /\ [][Next]_vars

(* The hart executes. *)
FairSpec == Spec /\ WF_vars(Step)

-----------------------------------------------------------------------------
(* proc/proc.c:114 and trap/trap_user.c:92: the CPU is bound to the process and
   goes back to user mode; user_return restores the registers and executes sret. *)
UserReached == <>(mode = "U")
=============================================================================
