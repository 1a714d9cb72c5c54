---------------------------- MODULE HartsProofs ----------------------------
(* What Harts promises, for every number of harts, timer interrupts and typed
   bytes: nothing is used before it is initialised, ticks and echo are exact,
   and a panic is followed by silence. *)
EXTENDS Harts, FiniteSetTheorems, SequenceTheorems, WellFoundedInduction, TLAPS

Char == {"c", "cr", "lf", "bs", "sp", "key"}
Part == {"print_init", "pmem_init", "kvm_init", "trap_init", "mmap_init"}
Stmt == {BootScript[i] : i \in DOMAIN BootScript} \cup {"wait", "panicked", "halt"}

(* A hart that is about to store a character has one. *)
Sending == \A h \in CPU : put[h] => send[h] # <<>>

Types == TypeOK /\ send \in [CPU -> Seq(Char)] /\ echoed \in Seq(Char)

-----------------------------------------------------------------------------
LEMMA ScriptTypes ==
  /\ Part \subseteq {BootScript[i] : i \in DOMAIN BootScript}
  /\ Part \subseteq Stmt /\ {"panicked", "halt"} \subseteq Stmt
  /\ BootScript \in Seq(Stmt) /\ OtherScript \in Seq(Stmt)
<1> DEFINE S == {BootScript[i] : i \in DOMAIN BootScript}
<1>1. {"print_init", "hello", "pmem_init", "kvm_init", "kvm_inithart",
       "trap_init", "trap_inithart", "mmap_init", "start", "proc"} \subseteq S
  BY DEF BootScript
<1> HIDE DEF S
<1>2. Stmt = S \cup {"wait", "panicked", "halt"}
  BY DEF Stmt, S
<1>3. BootScript \in Seq(Stmt) /\ OtherScript \in Seq(Stmt)
  BY <1>1, <1>2 DEF BootScript, OtherScript
<1> QED
  BY <1>1, <1>2, <1>3 DEF Part, S

LEMMA TailType ==
  ASSUME NEW S, NEW s \in Seq(S), s # <<>>
  PROVE  /\ Tail(s) \in Seq(S) /\ Head(s) \in S /\ Len(Tail(s)) = Len(s) - 1 /\ Len(s) \in Nat \ {0}
         /\ Head(s) = s[1] /\ \A i \in 1 .. Len(s) - 1 : Tail(s)[i] = s[i + 1]
  OBVIOUS

LEMMA SeqGrows ==
  ASSUME NEW S, NEW T, S \subseteq T, NEW s \in Seq(S)
  PROVE  s \in Seq(T)
  OBVIOUS

LEMMA EchoType == ASSUME NEW k PROVE Echo(k) \in Seq(Char)
<1>1. /\ <<"cr", "lf">> \in Seq(Char) /\ <<"bs", "sp", "bs">> \in Seq(Char)
      /\ <<"key">> \in Seq(Char) /\ <<>> \in Seq(Char)
  BY DEF Char
<1>2. \/ Echo(k) = <<"cr", "lf">> \/ Echo(k) = <<"bs", "sp", "bs">>
      \/ Echo(k) = <<"key">> \/ Echo(k) = <<>>
  <2>1. k = "nl" \/ k = "del" \/ k = "key" \/ (k # "nl" /\ k # "del" /\ k # "key")
    OBVIOUS
  <2> QED
    BY <2>1 DEF Echo
<1> QED
  BY <1>1, <1>2

LEMMA InitTypes == Init => Types
<1> SUFFICES ASSUME Init PROVE Types
  OBVIOUS
<1> USE DEF Init
<1>1. DeviceTypeOK
  <2>1. Len(Typed) \in Nat
    BY DeviceAssumption
  <2>2. \A h \in CPU : MaxFired[h] \in Nat
    BY DeviceAssumption
  <2>3. /\ ssip \in [CPU -> BOOLEAN] /\ fired \in [CPU -> Nat] /\ merged \in [CPU -> Nat]
        /\ \A h \in CPU : merged[h] <= fired[h] /\ fired[h] <= MaxFired[h]
    BY <2>2 DEF DeviceInit
  <2>4. received \in 0 .. Len(Typed) /\ rx \in Seq({Typed[i] : i \in 1 .. received})
    BY <2>1 DEF DeviceInit
  <2>5. tx \in BOOLEAN /\ claimed \in BOOLEAN
    BY DEF DeviceInit
  <2> QED
    BY <2>3, <2>4, <2>5 DEF DeviceTypeOK
<1>2. todo \in [CPU -> Seq(Stmt)]
  BY ScriptTypes
<1>3. send \in [CPU -> Seq(Char)] /\ \A h \in CPU : send[h] \in Seq(Char)
  OBVIOUS
<1>4. holder \in [{"print_lk", "sys_timer"} -> CPU \cup {NoCPU}]
  BY DEF LK!Init
<1>5. started \in BOOLEAN /\ panicked \in BOOLEAN /\ put \in [CPU -> BOOLEAN]
  OBVIOUS
<1>6. irq \in [CPU -> TimerPart \cup UartPart \cup {"none"}] /\ say \in [CPU -> {"no", "wait", "open"}]
  OBVIOUS
<1>7. seen \in [CPU -> Nat] /\ ticks \in Nat /\ late \in Nat /\ echoed \in Seq(Char)
  OBVIOUS
<1>8. inited \subseteq {BootScript[i] : i \in DOMAIN BootScript} /\ intr \subseteq CPU
  OBVIOUS
<1> QED
  BY <1>1, <1>2, <1>3, <1>4, <1>5, <1>6, <1>7, <1>8 DEF TypeOK, Types, Stmt, Char

(* What the parts of a hart leave alone. *)
LEMMA OutputFrame ==
  ASSUME NEW h, Output(h)
  PROVE  UNCHANGED <<ssip, fired, merged, rx, received, claimed,
                     todo, inited, started, intr, panicked, irq, seen, ticks>>
BY DEF Output, PrintfAcquire, PutTest, PutStore, PrintfRelease, timers, uart, boot, handling

LEMMA ThreadFrame ==
  ASSUME NEW h, Thread(h)
  PROVE  UNCHANGED <<ssip, fired, merged, rx, received, tx, claimed, irq, seen, ticks,
                     holder, send, put, echoed, late>>
BY DEF Thread, InitStep, Hello, Start, Wait, KvmInithart, TrapInithart, Proc, Panic,
       SetPanicked, timers, uart, handling, printing

LEMMA TakeFrame ==
  ASSUME NEW h, Take(h)
  PROVE  UNCHANGED <<ssip, fired, merged, rx, received, tx, claimed, todo, inited, started, intr,
                     panicked, seen, ticks, holder, say, send, put, echoed, late>>
BY DEF Take, TakeTimer, TakeUart, timers, uart, boot, printing

LEMMA HandlerFrame ==
  ASSUME NEW h, Handler(h)
  PROVE  UNCHANGED <<fired, merged, received, todo, inited, started, intr, panicked,
                     put, echoed, late>>
BY DEF Handler, UpdateAcquire, UpdateAdd, UpdateRelease, GetAcquire, GetRead, GetRelease,
       Report, ClearPending, Claim, Poll, Complete, timers, uart, boot, printing

LEMMA DeviceFrame ==
  ASSUME Device
  PROVE  UNCHANGED <<tx, claimed, todo, inited, started, intr, panicked, irq, seen, ticks,
                     holder, say, send, put, echoed, late>>
BY DEF Device, TimerFires, Receive, timers, uart, boot, handling, printing

LEMMA Stuttering ==
  ASSUME UNCHANGED vars
  PROVE  UNCHANGED <<ssip, fired, merged, rx, received, tx, claimed, todo, inited, started, intr,
                     panicked, irq, seen, ticks, holder, say, send, put, echoed, late>>
BY DEF vars, timers, uart, boot, handling, printing

-----------------------------------------------------------------------------
(* Types, a part at a time. *)
DeviceTypes == DeviceTypeOK
BootTypes == /\ todo \in [CPU -> Seq(Stmt)]
             /\ inited \subseteq {BootScript[i] : i \in DOMAIN BootScript}
             /\ started \in BOOLEAN /\ panicked \in BOOLEAN /\ intr \subseteq CPU
IrqTypes == /\ irq \in [CPU -> TimerPart \cup UartPart \cup {"none"}]
            /\ seen \in [CPU -> Nat] /\ ticks \in Nat
            /\ holder \in [{"print_lk", "sys_timer"} -> CPU \cup {NoCPU}]
PrintTypes == /\ say \in [CPU -> {"no", "wait", "open"}]
              /\ send \in [CPU -> Seq(Char)] /\ echoed \in Seq(Char)
              /\ put \in [CPU -> BOOLEAN] /\ late \in Nat

LEMMA TypeParts == /\ Types <=> DeviceTypes /\ BootTypes /\ IrqTypes /\ PrintTypes
                   /\ Types' <=> DeviceTypes' /\ BootTypes' /\ IrqTypes' /\ PrintTypes'
BY DEF Types, TypeOK, DeviceTypes, BootTypes, IrqTypes, PrintTypes, Stmt, Char

LEMMA DeviceTypesStep ==
  ASSUME Types, [Next]_vars
  PROVE  DeviceTypes'
<1>1. DeviceTypeOK /\ Len(Typed) \in Nat
  BY TypeParts, DeviceAssumption DEF DeviceTypes
<1>2. ASSUME UNCHANGED <<ssip, fired, merged, rx, received, claimed>>, tx' \in BOOLEAN
      PROVE  DeviceTypes'
  BY <1>1, <1>2 DEF DeviceTypes, DeviceTypeOK
<1>3. CASE UNCHANGED vars
  BY <1>1, <1>2, <1>3, Stuttering DEF DeviceTypeOK
<1>4. ASSUME NEW h \in CPU, Thread(h) \/ Take(h) PROVE DeviceTypes'
  BY <1>1, <1>2, <1>4, ThreadFrame, TakeFrame DEF DeviceTypeOK
<1>5. ASSUME NEW h \in CPU, Output(h) PROVE DeviceTypes'
  <2>1. tx' \in BOOLEAN
    BY <1>1, <1>5 DEF Output, PrintfAcquire, PutTest, PutStore, PrintfRelease, uart, DeviceTypeOK
  <2> QED
    BY <1>2, <1>5, <2>1, OutputFrame
<1>6. ASSUME NEW h \in CPU, Handler(h) PROVE DeviceTypes'
  <2>1. fired' = fired /\ merged' = merged /\ received' = received
    BY <1>6, HandlerFrame
  <2>2. ssip' \in [CPU -> BOOLEAN]
    BY <1>1, <1>6 DEF Handler, UpdateAcquire, UpdateAdd, UpdateRelease, GetAcquire, GetRead,
       GetRelease, Report, ClearPending, Claim, Poll, Complete, timers, DeviceTypeOK
  <2>3. tx' \in BOOLEAN /\ claimed' \in BOOLEAN
    BY <1>1, <1>6 DEF Handler, UpdateAcquire, UpdateAdd, UpdateRelease, GetAcquire, GetRead,
       GetRelease, Report, ClearPending, Claim, Poll, Complete, uart, DeviceTypeOK
  <2>4. rx' = rx \/ (rx # <<>> /\ rx' = Tail(rx))
    BY <1>6 DEF Handler, UpdateAcquire, UpdateAdd, UpdateRelease, GetAcquire, GetRead,
       GetRelease, Report, ClearPending, Claim, Poll, Complete, uart
  <2>5. rx' \in Seq({Typed[i] : i \in 1 .. received})
    BY <1>1, <2>4, TailType DEF DeviceTypeOK
  <2> QED
    BY <1>1, <2>1, <2>2, <2>3, <2>5 DEF DeviceTypes, DeviceTypeOK
<1>7. ASSUME NEW h \in CPU, TimerFires(h), UNCHANGED <<rx, received, tx, claimed>> PROVE DeviceTypes'
  <2>1. MaxFired[h] \in Nat
    BY DeviceAssumption
  <2>2. /\ ssip' \in [CPU -> BOOLEAN] /\ fired' \in [CPU -> Nat] /\ merged' \in [CPU -> Nat]
    BY <1>1, <1>7 DEF TimerFires, DeviceTypeOK
  <2>3. ASSUME NEW d \in CPU PROVE merged'[d] <= fired'[d] /\ fired'[d] <= MaxFired[d]
    BY <1>1, <1>7, <2>1, DeviceAssumption DEF TimerFires, DeviceTypeOK
  <2> QED
    BY <1>1, <1>7, <2>2, <2>3 DEF DeviceTypes, DeviceTypeOK
<1>8. ASSUME Receive, UNCHANGED <<ssip, fired, merged, tx, claimed>> PROVE DeviceTypes'
  <2>1. received \in Nat /\ received' = received + 1 /\ received' \in 0 .. Len(Typed)
    BY <1>1, <1>8 DEF Receive, DeviceTypeOK
  <2>2. {Typed[i] : i \in 1 .. received} \subseteq {Typed[i] : i \in 1 .. received'}
    BY <2>1
  <2>3. Typed[received + 1] \in {Typed[i] : i \in 1 .. received'}
    BY <2>1
  <2>4. rx \in Seq({Typed[i] : i \in 1 .. received'})
    BY <1>1, <2>2, SeqGrows DEF DeviceTypeOK
  <2>5. rx' \in Seq({Typed[i] : i \in 1 .. received'})
    BY <1>8, <2>3, <2>4 DEF Receive
  <2> QED
    BY <1>1, <1>8, <2>1, <2>5 DEF DeviceTypes, DeviceTypeOK
<1> QED
  BY <1>3, <1>4, <1>5, <1>6, <1>7, <1>8 DEF Next, Device, timers, uart

LEMMA BootTypesStep ==
  ASSUME Types, [Next]_vars
  PROVE  BootTypes'
<1>1. BootTypes
  BY TypeParts
<1>2. ASSUME UNCHANGED <<todo, inited, started, intr, panicked>> PROVE BootTypes'
  BY <1>1, <1>2 DEF BootTypes
<1>3. ASSUME NEW h \in CPU, Thread(h) PROVE BootTypes'
  <2>1. ASSUME At(h, Head(todo[h])), Done(h) PROVE todo' \in [CPU -> Seq(Stmt)]
    BY <1>1, <2>1, TailType DEF BootTypes, At, Done
  <2>2. ASSUME NEW s, InitStep(h, s) PROVE BootTypes'
    BY <1>1, <2>1, <2>2, ScriptTypes DEF InitStep, At, BootTypes, boot, Part
  <2>3. ASSUME Hello(h) \/ Start(h) \/ Wait(h) \/ KvmInithart(h) \/ TrapInithart(h) \/ Proc(h)
               \/ SetPanicked(h)
        PROVE  BootTypes'
    BY <1>1, <2>1, <2>3 DEF Hello, Start, Wait, KvmInithart, TrapInithart, Proc, SetPanicked,
       At, BootTypes
  <2>4. ASSUME Panic(h) PROVE BootTypes'
    <3>1. <<"panicked", "halt">> \in Seq(Stmt)
      BY ScriptTypes
    <3> QED
      BY <1>1, <2>4, <3>1 DEF Panic, BootTypes
  <2> QED
    BY <1>3, <2>2, <2>3, <2>4 DEF Thread
<1> QED
  BY <1>2, <1>3, Stuttering, DeviceFrame, OutputFrame, TakeFrame, HandlerFrame DEF Next

LEMMA IrqTypesStep ==
  ASSUME Types, [Next]_vars
  PROVE  IrqTypes'
<1>1. IrqTypes
  BY TypeParts
<1> USE DEF IrqTypes, TimerPart, UartPart
<1>2. ASSUME UNCHANGED <<irq, seen, ticks, holder>> PROVE IrqTypes'
  BY <1>1, <1>2
<1>3. ASSUME NEW h \in CPU, Output(h) PROVE IrqTypes'
  <2>1. holder' \in [{"print_lk", "sys_timer"} -> CPU \cup {NoCPU}]
    BY <1>1, <1>3 DEF Output, PrintfAcquire, PutTest, PutStore, PrintfRelease, LK!Acquire, LK!Release
  <2> QED
    BY <1>1, <1>3, <2>1, OutputFrame
<1>4. ASSUME NEW h \in CPU, Take(h) PROVE IrqTypes'
  <2>1. irq' \in [CPU -> TimerPart \cup UartPart \cup {"none"}]
    BY <1>1, <1>4 DEF Take, TakeTimer, TakeUart, Goto
  <2> QED
    BY <1>1, <1>4, <2>1, TakeFrame
<1>5. ASSUME NEW h \in CPU, Handler(h) PROVE IrqTypes'
  <2>1. CASE UpdateAcquire(h) \/ GetAcquire(h) \/ UpdateRelease(h) \/ GetRelease(h)
    BY <1>1, <2>1 DEF UpdateAcquire, GetAcquire, UpdateRelease, GetRelease, Goto, LK!Acquire, LK!Release
  <2>2. CASE UpdateAdd(h) \/ GetRead(h) \/ Report(h)
    BY <1>1, <2>2 DEF UpdateAdd, GetRead, Report, Goto
  <2>3. CASE ClearPending(h) \/ Claim(h) \/ Poll(h) \/ Complete(h)
    BY <1>1, <2>3 DEF ClearPending, Claim, Poll, Complete, Goto
  <2> QED
    BY <1>5, <2>1, <2>2, <2>3 DEF Handler
<1> QED
  BY <1>2, <1>3, <1>4, <1>5, Stuttering, DeviceFrame, ThreadFrame DEF Next

LEMMA PrintTypesStep ==
  ASSUME Types, Sending, [Next]_vars
  PROVE  PrintTypes'
<1>1. PrintTypes
  BY TypeParts
<1> USE DEF PrintTypes
<1>2. ASSUME UNCHANGED <<say, send, put, echoed, late>> PROVE PrintTypes'
  BY <1>1, <1>2
<1>3. ASSUME NEW h \in CPU, Output(h) PROVE PrintTypes'
  <2>1. CASE PrintfAcquire(h)
    <3>1. [i \in 1 .. MsgLen |-> "c"] \in Seq(Char)
      BY HartAssumption DEF Char
    <3> QED
      BY <1>1, <2>1, <3>1 DEF PrintfAcquire
  <2>2. CASE PutTest(h) \/ PrintfRelease(h)
    BY <1>1, <2>2 DEF PutTest, PrintfRelease
  <2>3. CASE PutStore(h)
    <3>1. send[h] \in Seq(Char) /\ send[h] # <<>>
      BY <1>1, <2>3 DEF PutStore, Sending
    <3>2. Tail(send[h]) \in Seq(Char) /\ Head(send[h]) \in Char
      BY <3>1, TailType
    <3>3. echoed' \in Seq(Char) /\ late' \in Nat
      BY <1>1, <2>3, <3>2 DEF PutStore
    <3>4. put' \in [CPU -> BOOLEAN] /\ send' \in [CPU -> Seq(Char)] /\ say' = say
      BY <1>1, <2>3, <3>2 DEF PutStore
    <3> QED
      BY <1>1, <3>3, <3>4
  <2> QED
    BY <1>3, <2>1, <2>2, <2>3 DEF Output
<1>4. ASSUME NEW h \in CPU, Thread(h) PROVE PrintTypes'
  <2>1. say' \in [CPU -> {"no", "wait", "open"}]
    BY <1>1, <1>4 DEF Thread, InitStep, Hello, Start, Wait, KvmInithart, TrapInithart, Proc, Panic,
       SetPanicked, Say, printing
  <2> QED
    BY <1>1, <1>4, <2>1, ThreadFrame
<1>5. ASSUME NEW h \in CPU, Handler(h) PROVE PrintTypes'
  <2>1. say' \in [CPU -> {"no", "wait", "open"}]
    BY <1>1, <1>5 DEF Handler, UpdateAcquire, UpdateAdd, UpdateRelease, GetAcquire, GetRead,
       GetRelease, Report, ClearPending, Claim, Poll, Complete, Say, printing
  <2>2. send' \in [CPU -> Seq(Char)]
    BY <1>1, <1>5, EchoType DEF Handler, UpdateAcquire, UpdateAdd, UpdateRelease, GetAcquire, GetRead,
       GetRelease, Report, ClearPending, Claim, Poll, Complete, printing
  <2> QED
    BY <1>1, <1>5, <2>1, <2>2, HandlerFrame
<1> QED
  BY <1>2, <1>3, <1>4, <1>5, Stuttering, DeviceFrame, TakeFrame DEF Next

LEMMA SendingStep ==
  ASSUME Types, Sending, [Next]_vars
  PROVE  Sending'
<1>1. PrintTypes
  BY TypeParts
<1> USE DEF Sending, PrintTypes
<1>2. ASSUME UNCHANGED <<send, put>> PROVE Sending'
  BY <1>2
<1>3. ASSUME NEW h \in CPU, Output(h) PROVE Sending'
  <2>1. CASE PrintfAcquire(h)
    <3>1. [i \in 1 .. MsgLen |-> "c"] # <<>>
      <4>1. 1 \in 1 .. MsgLen
        BY HartAssumption
      <4> QED
        BY <4>1
    <3> QED
      BY <1>1, <2>1, <3>1 DEF PrintfAcquire
  <2>2. CASE PutTest(h) \/ PrintfRelease(h)
    BY <1>1, <2>2 DEF PutTest, PrintfRelease
  <2>3. CASE PutStore(h)
    BY <1>1, <2>3 DEF PutStore
  <2> QED
    BY <1>3, <2>1, <2>2, <2>3 DEF Output
<1>4. ASSUME NEW h \in CPU, Handler(h) PROVE Sending'
  <2>1. send' = send \/ Poll(h)
    BY <1>4 DEF Handler, UpdateAcquire, UpdateAdd, UpdateRelease, GetAcquire, GetRead,
       GetRelease, Report, ClearPending, Claim, Complete, printing
  <2>2. CASE Poll(h)
    BY <1>1, <2>2 DEF Poll, Quiet
  <2> QED
    BY <1>2, <1>4, <2>1, <2>2, HandlerFrame
<1> QED
  BY <1>2, <1>3, <1>4, Stuttering, DeviceFrame, ThreadFrame, TakeFrame DEF Next

-----------------------------------------------------------------------------
(* Ticks *)

(* The handler of the timer runs while the bit is set, and on hart Boot alone
   it counts. *)
Timing == \A h \in CPU : /\ irq[h] \in TimerPart => ssip[h]
                         /\ irq[h] \in {"update", "add", "added"} => h = Boot

LEMMA TimingStep ==
  ASSUME Types, Timing, TicksExact, [Next]_vars
  PROVE  Timing' /\ TicksExact'
<1>1. IrqTypes /\ DeviceTypeOK /\ Boot \in CPU
  BY TypeParts, HartAssumption DEF DeviceTypes
<1> USE DEF Timing, TicksExact, TimerPart, UartPart
<1>2. ASSUME UNCHANGED <<ssip, fired, merged, irq, ticks>> PROVE Timing' /\ TicksExact'
  BY <1>2
<1>3. ASSUME NEW h \in CPU, TimerFires(h), UNCHANGED <<irq, ticks>> PROVE Timing' /\ TicksExact'
  <2>1. Timing'
    BY <1>1, <1>3 DEF TimerFires, DeviceTypeOK
  <2>2. CASE h # Boot
    <3>1. ssip'[Boot] = ssip[Boot] /\ fired'[Boot] = fired[Boot] /\ merged'[Boot] = merged[Boot]
      BY <1>1, <1>3, <2>2 DEF TimerFires, DeviceTypeOK
    <3> QED
      BY <1>3, <2>1, <3>1
  <2>3. CASE h = Boot
    <3>1. /\ ssip'[Boot] /\ fired'[Boot] = fired[Boot] + 1
          /\ merged'[Boot] = IF ssip[Boot] THEN merged[Boot] + 1 ELSE merged[Boot]
      BY <1>1, <1>3, <2>3 DEF TimerFires, DeviceTypeOK
    <3>2. fired[Boot] \in Nat /\ merged[Boot] \in Nat /\ ticks \in Nat
      BY <1>1 DEF DeviceTypeOK, IrqTypes
    <3> QED
      BY <1>1, <1>3, <2>1, <3>1, <3>2
  <2> QED
    BY <2>2, <2>3
<1>4. ASSUME NEW h \in CPU, Take(h) PROVE Timing' /\ TicksExact'
  <2>1. /\ irq[h] = "none" /\ UNCHANGED <<ssip, fired, merged, ticks>>
        /\ \/ irq' = [irq EXCEPT ![h] = "claim"]
           \/ ssip[h] /\ irq' = [irq EXCEPT ![h] = IF h = Boot THEN "update" ELSE "get"]
    BY <1>4, TakeFrame DEF Take, TakeTimer, TakeUart, Goto, Interruptible, InThread
  <2> QED
    BY <1>1, <2>1 DEF IrqTypes
<1>5. ASSUME NEW h \in CPU, Handler(h) PROVE Timing' /\ TicksExact'
  <2>0. fired' = fired /\ merged' = merged
    BY <1>5, HandlerFrame
  <2>1. CASE UpdateAdd(h)
    <3>1. fired[Boot] \in Nat /\ merged[Boot] \in Nat /\ ticks \in Nat /\ h = Boot /\ ssip[Boot]
      BY <1>1, <2>1 DEF DeviceTypeOK, IrqTypes, UpdateAdd
    <3>2. irq[Boot] = "add" /\ irq'[Boot] = "added" /\ ticks' = ticks + 1 /\ ssip' = ssip
      BY <1>1, <2>1, <3>1 DEF UpdateAdd, Goto, IrqTypes, timers
    <3>3. TicksExact'
      BY <2>0, <3>1, <3>2
    <3> QED
      BY <1>1, <2>1, <3>1, <3>2, <3>3 DEF UpdateAdd, Goto, IrqTypes
  <2>2. CASE ClearPending(h)
    BY <1>1, <2>0, <2>2 DEF ClearPending, Goto, IrqTypes, DeviceTypeOK
  <2>3. CASE UpdateAcquire(h) \/ UpdateRelease(h) \/ GetAcquire(h) \/ GetRead(h) \/ GetRelease(h)
             \/ Report(h)
    BY <1>1, <2>0, <2>3 DEF UpdateAcquire, UpdateRelease, GetAcquire, GetRead, GetRelease,
       Report, Goto, IrqTypes, timers
  <2>4. CASE Claim(h) \/ Poll(h) \/ Complete(h)
    BY <1>1, <2>0, <2>4 DEF Claim, Poll, Complete, Goto, IrqTypes, timers
  <2> QED
    BY <1>5, <2>1, <2>2, <2>3, <2>4 DEF Handler
<1>6. ASSUME Device PROVE Timing' /\ TicksExact'
  BY <1>2, <1>3, <1>6, DeviceFrame DEF Device, Receive, timers, uart
<1> QED
  BY <1>2, <1>4, <1>5, <1>6, Stuttering, OutputFrame, ThreadFrame DEF Next

-----------------------------------------------------------------------------
(* The order of the initialisation *)

(* What is left of a script. *)
PanicScript == <<"panicked", "halt">>
EndOf(s, script) == /\ Len(s) <= Len(script)
                    /\ \A i \in 1 .. Len(s) : s[i] = script[Len(script) - Len(s) + i]

(* What hart Boot has initialised when n statements are left. *)
InitedBefore(n) == /\ n < 10 => "print_init" \in inited
                   /\ n < 8 => "pmem_init" \in inited
                   /\ n < 7 => "kvm_init" \in inited
                   /\ n < 5 => "trap_init" \in inited
                   /\ n < 3 => "mmap_init" \in inited

BootOrder == \/ EndOf(todo[Boot], BootScript) /\ InitedBefore(Len(todo[Boot]))
             \/ EndOf(todo[Boot], PanicScript) /\ "print_init" \in inited

Order == /\ BootOrder
         /\ started => Part \subseteq inited
         /\ \A h \in CPU \ {Boot} : /\ EndOf(todo[h], OtherScript)
                                    /\ Len(todo[h]) < 4 => started
         /\ \A h \in CPU : h \in intr \/ irq[h] # "none" => {"print_init", "trap_init"} \subseteq inited
         /\ \A h \in CPU : say[h] # "no" => "print_init" \in inited

LEMMA EndOfTail ==
  ASSUME NEW S, NEW s \in Seq(S), s # <<>>, NEW t \in Seq(S), EndOf(s, t)
  PROVE  EndOf(Tail(s), t) /\ Head(s) = t[Len(t) - Len(s) + 1]
         /\ Len(s) \in Nat \ {0} /\ Len(s) <= Len(t) /\ Len(Tail(s)) = Len(s) - 1
<1>1. /\ Len(s) \in Nat \ {0} /\ Len(Tail(s)) = Len(s) - 1 /\ Head(s) = s[1]
      /\ \A i \in 1 .. Len(s) - 1 : Tail(s)[i] = s[i + 1]
      /\ Len(t) \in Nat /\ Len(s) <= Len(t)
  BY TailType DEF EndOf
<1>2. \A i \in 1 .. Len(s) - 1 : i + 1 \in 1 .. Len(s)
        /\ Len(t) - Len(s) + (i + 1) = Len(t) - (Len(s) - 1) + i
  BY <1>1
<1>3. \A i \in 1 .. Len(s) - 1 : Tail(s)[i] = t[Len(t) - (Len(s) - 1) + i]
  BY <1>1, <1>2 DEF EndOf
<1>4. Head(s) = t[Len(t) - Len(s) + 1]
  BY <1>1 DEF EndOf
<1> QED
  BY <1>1, <1>3, <1>4 DEF EndOf

LEMMA BootEnd ==
  ASSUME NEW s \in Seq(Stmt), s # <<>>, EndOf(s, BootScript)
  PROVE  /\ EndOf(Tail(s), BootScript) /\ Len(s) \in Nat /\ Len(Tail(s)) = Len(s) - 1
         /\ \/ Len(s) = 10 /\ Head(s) = "print_init"
            \/ Len(s) = 9 /\ Head(s) = "hello"
            \/ Len(s) = 8 /\ Head(s) = "pmem_init"
            \/ Len(s) = 7 /\ Head(s) = "kvm_init"
            \/ Len(s) = 6 /\ Head(s) = "kvm_inithart"
            \/ Len(s) = 5 /\ Head(s) = "trap_init"
            \/ Len(s) = 4 /\ Head(s) = "trap_inithart"
            \/ Len(s) = 3 /\ Head(s) = "mmap_init"
            \/ Len(s) = 2 /\ Head(s) = "start"
            \/ Len(s) = 1 /\ Head(s) = "proc"
<1>1. Len(BootScript) = 10
  BY DEF BootScript
<1>2. /\ EndOf(Tail(s), BootScript) /\ Head(s) = BootScript[10 - Len(s) + 1]
      /\ Len(s) \in Nat \ {0} /\ Len(s) <= 10 /\ Len(Tail(s)) = Len(s) - 1
  BY <1>1, EndOfTail, ScriptTypes, ZenonT(30)
<1>3. /\ BootScript[1] = "print_init" /\ BootScript[2] = "hello" /\ BootScript[3] = "pmem_init"
      /\ BootScript[4] = "kvm_init" /\ BootScript[5] = "kvm_inithart" /\ BootScript[6] = "trap_init"
      /\ BootScript[7] = "trap_inithart" /\ BootScript[8] = "mmap_init" /\ BootScript[9] = "start"
      /\ BootScript[10] = "proc"
  BY DEF BootScript
<1>4. \A n \in Nat : n # 0 /\ n <= 10 =>
        n = 1 \/ n = 2 \/ n = 3 \/ n = 4 \/ n = 5 \/ n = 6 \/ n = 7 \/ n = 8 \/ n = 9 \/ n = 10
  OBVIOUS
<1>5. \/ Len(s) = 1 \/ Len(s) = 2 \/ Len(s) = 3 \/ Len(s) = 4 \/ Len(s) = 5
      \/ Len(s) = 6 \/ Len(s) = 7 \/ Len(s) = 8 \/ Len(s) = 9 \/ Len(s) = 10
  BY <1>2, <1>4
<1> QED
  BY <1>2, <1>3, <1>5, SMTT(30)

LEMMA PanicEnd ==
  ASSUME NEW s \in Seq(Stmt), s # <<>>, EndOf(s, PanicScript)
  PROVE  EndOf(Tail(s), PanicScript) /\ Head(s) \in {"panicked", "halt"}
<1>1. PanicScript \in Seq(Stmt) /\ Len(PanicScript) = 2
  BY ScriptTypes DEF PanicScript
<1>2. /\ EndOf(Tail(s), PanicScript) /\ Head(s) = PanicScript[2 - Len(s) + 1]
      /\ Len(s) \in Nat \ {0} /\ Len(s) <= 2
  BY <1>1, EndOfTail
<1> QED
  BY <1>2 DEF PanicScript

LEMMA OtherEnd ==
  ASSUME NEW s \in Seq(Stmt), s # <<>>, EndOf(s, OtherScript)
  PROVE  /\ EndOf(Tail(s), OtherScript) /\ Len(s) \in Nat /\ Len(Tail(s)) = Len(s) - 1
         /\ \/ Len(s) = 4 /\ Head(s) = "wait"
            \/ Len(s) = 3 /\ Head(s) = "hello"
            \/ Len(s) = 2 /\ Head(s) = "kvm_inithart"
            \/ Len(s) = 1 /\ Head(s) = "trap_inithart"
<1>1. Len(OtherScript) = 4
  BY DEF OtherScript
<1>2. /\ EndOf(Tail(s), OtherScript) /\ Head(s) = OtherScript[4 - Len(s) + 1]
      /\ Len(s) \in Nat \ {0} /\ Len(s) <= 4 /\ Len(Tail(s)) = Len(s) - 1
  BY <1>1, EndOfTail, ScriptTypes, ZenonT(30)
<1>3. /\ OtherScript[1] = "wait" /\ OtherScript[2] = "hello"
      /\ OtherScript[3] = "kvm_inithart" /\ OtherScript[4] = "trap_inithart"
  BY DEF OtherScript
<1>4. \A n \in Nat : n # 0 /\ n <= 4 => n = 1 \/ n = 2 \/ n = 3 \/ n = 4
  OBVIOUS
<1>5. Len(s) = 1 \/ Len(s) = 2 \/ Len(s) = 3 \/ Len(s) = 4
  BY <1>2, <1>4
<1> QED
  BY <1>2, <1>3, <1>5

LEMMA InitOrder == Init => Order
<1> SUFFICES ASSUME Init PROVE Order
  OBVIOUS
<1> USE DEF Init
<1>1. Len(BootScript) = 10 /\ Len(OtherScript) = 4
  BY DEF BootScript, OtherScript
<1>2. EndOf(BootScript, BootScript) /\ EndOf(OtherScript, OtherScript)
  <2>1. ASSUME NEW s, Len(s) \in Nat PROVE EndOf(s, s)
    <3>1. \A i \in 1 .. Len(s) : Len(s) - Len(s) + i = i
      BY <2>1
    <3> QED
      BY <2>1, <3>1 DEF EndOf
  <2> QED
    BY <1>1, <2>1
<1>3. todo[Boot] = BootScript /\ \A h \in CPU \ {Boot} : todo[h] = OtherScript
  BY HartAssumption
<1>4. BootOrder
  <2>1. InitedBefore(10)
    BY DEF InitedBefore
  <2> QED
    BY <1>1, <1>2, <1>3, <2>1 DEF BootOrder
<1>5. \A h \in CPU \ {Boot} : EndOf(todo[h], OtherScript) /\ ~ (Len(todo[h]) < 4)
  <2>1. ~ (4 < 4)
    OBVIOUS
  <2> QED
    BY <1>1, <1>2, <1>3, <2>1
<1> QED
  BY <1>4, <1>5 DEF Order

(* What the statement that comes next needs. *)
UsesOf(s) == CASE s = "hello" -> {"print_init"}
               [] s = "kvm_init" -> {"pmem_init"}
               [] s = "kvm_inithart" -> {"kvm_init"}
               [] s = "trap_inithart" -> {"trap_init"}
               [] s = "proc" -> {"pmem_init", "kvm_init", "mmap_init"}
               [] OTHER -> {}

LEMMA BootUse ==
  ASSUME NEW n \in Nat, NEW s, InitedBefore(n),
         \/ n = 10 /\ s = "print_init"
         \/ n = 9 /\ s = "hello"
         \/ n = 8 /\ s = "pmem_init"
         \/ n = 7 /\ s = "kvm_init"
         \/ n = 6 /\ s = "kvm_inithart"
         \/ n = 5 /\ s = "trap_init"
         \/ n = 4 /\ s = "trap_inithart"
         \/ n = 3 /\ s = "mmap_init"
         \/ n = 2 /\ s = "start"
         \/ n = 1 /\ s = "proc"
  PROVE  UsesOf(s) \subseteq inited
BY DEF InitedBefore, UsesOf

LEMMA OtherUse ==
  ASSUME NEW n \in Nat, NEW s, n < 4 => Part \subseteq inited,
         \/ n = 4 /\ s = "wait"
         \/ n = 3 /\ s = "hello"
         \/ n = 2 /\ s = "kvm_inithart"
         \/ n = 1 /\ s = "trap_inithart"
  PROVE  UsesOf(s) \subseteq inited
BY DEF Part, UsesOf

LEMMA OrderMeansUse == ASSUME Types, Order PROVE InitBeforeUse
<1>1. BootTypes /\ TypeOK
  BY TypeParts DEF Types
<1>2. ASSUME NEW h \in CPU
      PROVE  Needs(h) \subseteq inited
  <2>1. (IF say[h] # "no" \/ irq[h] # "none" THEN {"print_init"} ELSE {}) \subseteq inited
    BY DEF Order
  <2>2. (IF irq[h] # "none" THEN {"trap_init"} ELSE {}) \subseteq inited
    BY DEF Order
  <2>3. CASE todo[h] = <<>>
    BY <2>1, <2>2, <2>3 DEF Needs
  <2>4. CASE todo[h] # <<>>
    <3> DEFINE s == todo[h]
    <3>1. s \in Seq(Stmt)
      BY <1>1 DEF BootTypes
    <3>2. UsesOf(Head(s)) \subseteq inited
      <4>1. CASE h = Boot /\ EndOf(s, BootScript) /\ InitedBefore(Len(s))
        BY <2>4, <3>1, <4>1, BootEnd, BootUse
      <4>2. CASE h = Boot /\ EndOf(s, PanicScript)
        BY <2>4, <3>1, <4>2, PanicEnd DEF UsesOf
      <4>3. CASE h # Boot
        <5>1. EndOf(s, OtherScript) /\ (Len(s) < 4 => Part \subseteq inited)
          BY <4>3 DEF Order
        <5> QED
          BY <2>4, <3>1, <5>1, OtherEnd, OtherUse
      <4> QED
        BY <4>1, <4>2, <4>3 DEF Order, BootOrder
    <3>3. Needs(h) = UsesOf(Head(s))
                     \cup (IF say[h] # "no" \/ irq[h] # "none" THEN {"print_init"} ELSE {})
                     \cup (IF irq[h] # "none" THEN {"trap_init"} ELSE {})
      BY <2>4 DEF Needs, UsesOf
    <3> QED
      BY <2>1, <2>2, <3>2, <3>3
  <2> QED
    BY <2>3, <2>4
<1> QED
  BY <1>1, <1>2 DEF InitBeforeUse

(* Hart Boot has executed one more statement. *)
LEMMA InitedStep ==
  ASSUME NEW n \in Nat, NEW s, InitedBefore(n), inited \cup ({s} \cap Part) \subseteq inited',
         \/ n = 10 /\ s = "print_init"
         \/ n = 9 /\ s = "hello"
         \/ n = 8 /\ s = "pmem_init"
         \/ n = 7 /\ s = "kvm_init"
         \/ n = 6 /\ s = "kvm_inithart"
         \/ n = 5 /\ s = "trap_init"
         \/ n = 4 /\ s = "trap_inithart"
         \/ n = 3 /\ s = "mmap_init"
         \/ n = 2 /\ s = "start"
         \/ n = 1 /\ s = "proc"
  PROVE  /\ InitedBefore(n - 1)'
         /\ s = "start" => Part \subseteq inited
         /\ s = "hello" \/ s = "kvm_init" \/ s = "proc" => "print_init" \in inited
         /\ s = "trap_inithart" => {"print_init", "trap_init"} \subseteq inited
<1>1. /\ s \in Part => s \in inited'
      /\ \A x \in inited : x \in inited'
  OBVIOUS
<1>2. InitedBefore(n - 1)'
  BY <1>1 DEF InitedBefore, Part
<1>3. s = "start" => n = 2
  OBVIOUS
<1>4. s = "hello" \/ s = "kvm_init" \/ s = "proc" => n < 10
  OBVIOUS
<1>5. s = "trap_inithart" => n = 4
  OBVIOUS
<1> QED
  BY <1>2, <1>3, <1>4, <1>5 DEF InitedBefore, Part

LEMMA OrderMono ==
  ASSUME Order, inited \subseteq inited', started' = started, todo' = todo, intr' = intr,
         \A d \in CPU : irq'[d] # "none" => irq[d] # "none" \/ d \in intr,
         \A d \in CPU : say'[d] # "no" => "print_init" \in inited
  PROVE  Order'
BY DEF Order, BootOrder, InitedBefore

(* The statements that only move on. *)
Moves(h) == At(h, Head(todo[h])) /\ Done(h) /\ inited \cup ({Head(todo[h])} \cap Part) \subseteq inited'

LEMMA ThreadKinds ==
  ASSUME NEW h \in CPU, Thread(h), Types
  PROVE  /\ UNCHANGED irq /\ todo[h] # <<>>
         /\ \/ Moves(h) /\ started' = started /\ intr' \subseteq intr /\ say' = say
            \/ Moves(h) /\ started' = started /\ intr' = intr /\ Head(todo[h]) = "hello" /\ Say(h)
            \/ Moves(h) /\ started' = TRUE /\ intr' = intr /\ say' = say /\ Head(todo[h]) = "start"
            \/ /\ Moves(h) /\ started' = started /\ intr' = intr \cup {h} /\ say' = say
               /\ Head(todo[h]) = "trap_inithart"
            \/ /\ todo' = [todo EXCEPT ![h] = PanicScript] /\ inited' = inited
               /\ started' = started /\ intr' = intr /\ Say(h)
               /\ Head(todo[h]) \in {"kvm_init", "proc"}
         /\ Moves(h) /\ Head(todo[h]) = "wait" => started
<1> DEFINE s == Head(todo[h])
<1>0. UNCHANGED irq
  BY ThreadFrame
<1> USE DEF Moves, Say, printing, boot
<1>1. ASSUME NEW t, InitStep(h, t)
      PROVE  /\ Moves(h) /\ started' = started /\ intr' = intr /\ say' = say /\ todo[h] # <<>>
             /\ Head(todo[h]) # "wait"
  BY <1>1 DEF InitStep, At, Part
<1>2. CASE Hello(h)
  BY <1>0, <1>2 DEF Hello, At, Part
<1>3. CASE Start(h)
  BY <1>0, <1>3 DEF Start, At, Part
<1>4. CASE Wait(h) \/ KvmInithart(h)
  BY <1>0, <1>4 DEF Wait, KvmInithart, At, Part
<1>5. CASE TrapInithart(h)
  BY <1>0, <1>5 DEF TrapInithart, At, Part
<1>6. CASE Proc(h) \/ SetPanicked(h)
  BY <1>0, <1>6 DEF Proc, SetPanicked, At, Part
<1>7. CASE Panic(h)
  BY <1>0, <1>7 DEF Panic, At, PanicScript
<1> QED
  BY <1>0, <1>1, <1>2, <1>3, <1>4, <1>5, <1>6, <1>7 DEF Thread

LEMMA ThreadOrder ==
  ASSUME Types, Order, NEW h \in CPU, Thread(h)
  PROVE  Order'
<1> DEFINE s == Head(todo[h])
<1>1. /\ todo \in [CPU -> Seq(Stmt)] /\ intr \subseteq CPU /\ say \in [CPU -> {"no", "wait", "open"}]
      /\ irq' = irq /\ todo[h] # <<>> /\ todo[h] \in Seq(Stmt) /\ Boot \in CPU
  BY TypeParts, ThreadKinds, HartAssumption DEF BootTypes, PrintTypes
<1>2. \/ Moves(h)
      \/ /\ todo' = [todo EXCEPT ![h] = PanicScript] /\ inited' = inited
         /\ started' = started /\ intr' = intr /\ Say(h) /\ s \in {"kvm_init", "proc"}
  BY ThreadKinds
<1>3. inited \subseteq inited'
  BY <1>2 DEF Moves
<1>4. Moves(h) => todo' = [todo EXCEPT ![h] = Tail(@)] /\ todo'[h] = Tail(todo[h])
  BY <1>1 DEF Moves, Done
<1>5. ASSUME h = Boot
      PROVE  /\ BootOrder'
             /\ s = "start" => Part \subseteq inited
             /\ s = "hello" \/ s = "kvm_init" \/ s = "proc" => "print_init" \in inited
             /\ s = "trap_inithart" => {"print_init", "trap_init"} \subseteq inited
  <2>1. CASE EndOf(todo[h], BootScript) /\ InitedBefore(Len(todo[h])) /\ Moves(h)
    <3>1. PICK n \in Nat : n = Len(todo[h])
      BY <1>1, <2>1, BootEnd
    <3>2. /\ InitedBefore(n) /\ inited \cup ({s} \cap Part) \subseteq inited'
          /\ EndOf(Tail(todo[h]), BootScript) /\ Len(Tail(todo[h])) = n - 1
      BY <1>1, <2>1, <3>1, BootEnd DEF Moves
    <3>3. /\ InitedBefore(n - 1)'
          /\ s = "start" => Part \subseteq inited
          /\ s = "hello" \/ s = "kvm_init" \/ s = "proc" => "print_init" \in inited
          /\ s = "trap_inithart" => {"print_init", "trap_init"} \subseteq inited
      BY <1>1, <2>1, <3>1, <3>2, BootEnd, InitedStep
    <3>4. EndOf(todo[h], BootScript)' /\ Len(todo[h])' = n - 1
      BY <1>4, <2>1, <3>2 DEF EndOf
    <3>5. InitedBefore(Len(todo[h]))'
      BY <3>3, <3>4 DEF InitedBefore
    <3> QED
      BY <1>5, <3>3, <3>4, <3>5 DEF BootOrder
  <2>2. CASE EndOf(todo[h], BootScript) /\ InitedBefore(Len(todo[h])) /\ ~ Moves(h)
    <3>1. PICK n \in Nat : n = Len(todo[h])
      BY <1>1, <2>2, BootEnd
    <3>2. (n = 7 /\ s = "kvm_init") \/ (n = 1 /\ s = "proc")
      BY <1>1, <1>2, <2>2, <3>1, BootEnd
    <3>3. InitedBefore(n)
      BY <2>2, <3>1
    <3>4. "print_init" \in inited
      BY <3>2, <3>3 DEF InitedBefore
    <3>5. todo'[h] = PanicScript
      BY <1>1, <1>2, <2>2
    <3>6. EndOf(PanicScript, PanicScript)
      BY DEF EndOf, PanicScript
    <3>7. EndOf(todo[h], PanicScript)'
      BY <3>5, <3>6 DEF EndOf, PanicScript
    <3> QED
      BY <1>3, <1>5, <3>2, <3>4, <3>7 DEF BootOrder
  <2>3. CASE EndOf(todo[h], PanicScript) /\ "print_init" \in inited
    <3>1. EndOf(Tail(todo[h]), PanicScript) /\ s \in {"panicked", "halt"}
      BY <1>1, <2>3, PanicEnd
    <3>2. Moves(h)
      BY <1>2, <3>1
    <3>3. EndOf(todo[h], PanicScript)'
      BY <1>4, <3>1, <3>2 DEF EndOf, PanicScript
    <3> QED
      BY <1>3, <1>5, <2>3, <3>1, <3>3 DEF BootOrder
  <2> QED
    BY <1>5, <2>1, <2>2, <2>3 DEF Order, BootOrder
<1>6. ASSUME h # Boot
      PROVE  /\ Moves(h)
             /\ EndOf(todo[h], OtherScript)' /\ (Len(todo[h])' < 4 => started)
             /\ s # "start"
             /\ s = "hello" => "print_init" \in inited
             /\ s = "trap_inithart" => {"print_init", "trap_init"} \subseteq inited
  <2>1. EndOf(todo[h], OtherScript) /\ (Len(todo[h]) < 4 => started)
    BY <1>6 DEF Order
  <2>2. PICK n \in Nat : n = Len(todo[h])
    BY <1>1, <2>1, OtherEnd
  <2>3. /\ EndOf(Tail(todo[h]), OtherScript) /\ Len(Tail(todo[h])) = n - 1
        /\ \/ n = 4 /\ s = "wait"
           \/ n = 3 /\ s = "hello"
           \/ n = 2 /\ s = "kvm_inithart"
           \/ n = 1 /\ s = "trap_inithart"
    BY <1>1, <2>1, <2>2, OtherEnd
  <2>4. Moves(h)
    BY <1>2, <2>3
  <2>5. (n < 4 => started) /\ (n = 4 => started)
    <3>1. n < 4 => started
      BY <2>1, <2>2
    <3>2. n = 4 => s = "wait"
      BY <2>3
    <3> QED
      BY <2>4, <3>1, <3>2, ThreadKinds
  <2>6. started /\ Part \subseteq inited
    BY <2>3, <2>5 DEF Order
  <2>7. EndOf(todo[h], OtherScript)'
    BY <1>4, <2>3, <2>4 DEF EndOf
  <2> QED
    BY <2>3, <2>4, <2>6, <2>7 DEF Part
<1>7. BootOrder'
  <2>1. CASE h # Boot
    <3>1. todo'[Boot] = todo[Boot]
      BY <1>1, <1>4, <1>6, <2>1
    <3> QED
      BY <1>3, <3>1 DEF Order, BootOrder, InitedBefore, EndOf
  <2> QED
    BY <1>5, <2>1
<1>8. (started' => Part \subseteq inited') /\ (started => started')
  <2>1. started' = started \/ (started' = TRUE /\ s = "start")
    BY ThreadKinds
  <2> QED
    BY <1>3, <1>5, <1>6, <2>1 DEF Order
<1>9. ASSUME NEW d \in CPU \ {Boot}
      PROVE  EndOf(todo[d], OtherScript)' /\ (Len(todo[d])' < 4 => started')
  <2>1. CASE d = h
    BY <1>6, <1>8, <2>1
  <2>2. CASE d # h
    <3>1. todo'[d] = todo[d]
      BY <1>1, <1>2, <1>4, <2>2
    <3> QED
      BY <1>8, <3>1 DEF Order, EndOf
  <2> QED
    BY <2>1, <2>2
<1>10. ASSUME NEW d \in CPU, d \in intr' \/ irq'[d] # "none"
       PROVE  {"print_init", "trap_init"} \subseteq inited'
  <2>1. intr' \subseteq intr \/ (intr' = intr \cup {h} /\ s = "trap_inithart")
    BY ThreadKinds
  <2> QED
    BY <1>1, <1>3, <1>5, <1>6, <1>10, <2>1 DEF Order
<1>11. ASSUME NEW d \in CPU, say'[d] # "no"
       PROVE  "print_init" \in inited'
  <2>1. say' = say \/ (s \in {"hello", "kvm_init", "proc"} /\ Say(h))
    BY ThreadKinds
  <2>2. s \in {"kvm_init", "proc"} /\ h # Boot => s # "kvm_init" /\ s # "proc"
    <3>1. h # Boot => EndOf(todo[h], OtherScript)
      BY DEF Order
    <3> QED
      BY <1>1, <3>1, OtherEnd
  <2> QED
    BY <1>1, <1>3, <1>5, <1>6, <1>11, <2>1, <2>2 DEF Order, Say
<1> QED
  BY <1>7, <1>8, <1>9, <1>10, <1>11 DEF Order

LEMMA OrderStep ==
  ASSUME Types, Order, [Next]_vars
  PROVE  Order'
<1>1. IrqTypes /\ PrintTypes
  BY TypeParts
<1>2. ASSUME UNCHANGED <<todo, inited, started, intr, irq, say>> PROVE Order'
  BY <1>2 DEF Order, BootOrder, InitedBefore
<1>3. ASSUME NEW h \in CPU, Output(h) PROVE Order'
  <2>1. \A d \in CPU : say'[d] # "no" => say[d] # "no"
    BY <1>1, <1>3 DEF Output, PrintfAcquire, PutTest, PutStore, PrintfRelease, PrintTypes
  <2> QED
    BY <1>3, <2>1, OutputFrame, OrderMono DEF Order
<1>4. ASSUME NEW h \in CPU, Take(h) PROVE Order'
  <2>1. \A d \in CPU : irq'[d] # "none" => irq[d] # "none" \/ d \in intr
    BY <1>1, <1>4 DEF Take, TakeTimer, TakeUart, Goto, Interruptible, IrqTypes
  <2> QED
    BY <1>4, <2>1, TakeFrame, OrderMono DEF Order
<1>5. ASSUME NEW h \in CPU, Handler(h) PROVE Order'
  <2>1. /\ irq[h] # "none"
        /\ \A d \in CPU \ {h} : irq'[d] = irq[d] /\ say'[d] = say[d]
    BY <1>1, <1>5 DEF Handler, UpdateAcquire, UpdateAdd, UpdateRelease, GetAcquire, GetRead,
       GetRelease, Report, ClearPending, Claim, Poll, Complete, Goto, Say, IrqTypes, PrintTypes, printing
  <2> QED
    BY <1>5, <2>1, HandlerFrame, OrderMono DEF Order
<1> QED
  BY <1>2, <1>3, <1>4, <1>5, ThreadOrder, Stuttering, DeviceFrame DEF Next

-----------------------------------------------------------------------------
(* Silence: a hart that passed the test before the panic sends one character. *)
Putting == {h \in CPU : put[h]}
Late == /\ ~ panicked => late = 0
        /\ panicked => late + Cardinality(Putting) <= Cardinality(CPU) - 1

LEMMA PuttingFinite == /\ IsFiniteSet(Putting) /\ Cardinality(Putting) \in Nat
                       /\ Cardinality(CPU) \in Nat
<1>1. IsFiniteSet(CPU) /\ Putting \subseteq CPU
  BY HartAssumption DEF Putting
<1> QED
  BY <1>1, FS_Subset, FS_CardinalityType

LEMMA LateStep ==
  ASSUME Types, Sending, Late, [Next]_vars
  PROVE  Late'
<1>1. PrintTypes /\ BootTypes
  BY TypeParts
<1>2. ASSUME UNCHANGED <<panicked, put, late>> PROVE Late'
  BY <1>2 DEF Late, Putting
<1>3. ASSUME NEW h \in CPU, Output(h) PROVE Late'
  <2>0. panicked' = panicked
    BY <1>3, OutputFrame
  <2>1. CASE PrintfAcquire(h) \/ PrintfRelease(h)
    BY <1>2, <2>0, <2>1 DEF PrintfAcquire, PrintfRelease
  <2>2. CASE PutTest(h)
    BY <2>0, <2>2 DEF PutTest, Late
  <2>3. CASE PutStore(h)
    <3>1. Putting' = Putting \ {h} /\ h \in Putting
      BY <1>1, <2>3 DEF PutStore, Putting, PrintTypes
    <3>2. Cardinality(Putting') = Cardinality(Putting) - 1
      BY <3>1, PuttingFinite, FS_RemoveElement
    <3>3. late' = (IF panicked THEN late + 1 ELSE late) /\ late \in Nat
      BY <1>1, <2>3 DEF PutStore, PrintTypes
    <3> QED
      BY <2>0, <3>2, <3>3, PuttingFinite DEF Late
  <2> QED
    BY <1>3, <2>1, <2>2, <2>3 DEF Output
<1>4. ASSUME NEW h \in CPU, Thread(h) PROVE Late'
  <2>1. put' = put /\ late' = late
    BY <1>4, ThreadFrame
  <2>2. CASE panicked' = panicked
    BY <1>2, <2>1, <2>2
  <2>3. CASE SetPanicked(h)
    <3>1. ~ put[h] /\ panicked' = TRUE
      BY <2>3 DEF SetPanicked, At, InThread, Quiet, Sending
    <3>2. Putting \subseteq CPU \ {h} /\ Putting' = Putting
      BY <2>1, <3>1 DEF Putting
    <3>3. IsFiniteSet(CPU \ {h}) /\ Cardinality(CPU \ {h}) = Cardinality(CPU) - 1
      BY HartAssumption, FS_RemoveElement
    <3>4. Cardinality(Putting) <= Cardinality(CPU) - 1
      BY <3>2, <3>3, FS_Subset
    <3>5. panicked \/ late = 0
      BY DEF Late
    <3> QED
      BY <1>1, <2>1, <2>2, <3>1, <3>2, <3>4, <3>5, PuttingFinite DEF Late, BootTypes
  <2> QED
    BY <1>4, <2>2, <2>3 DEF Thread, InitStep, Hello, Start, Wait, KvmInithart, TrapInithart, Proc, Panic
<1> QED
  BY <1>2, <1>3, <1>4, Stuttering, DeviceFrame, TakeFrame, HandlerFrame DEF Next

LEMMA LateMeansSilence == ASSUME Types, Late PROVE Silence
<1>1. late \in Nat /\ panicked \in BOOLEAN
  BY TypeParts DEF PrintTypes, BootTypes
<1>2. Cardinality(CPU) >= 1
  <2>1. CPU # {} /\ IsFiniteSet(CPU)
    BY HartAssumption
  <2> QED
    BY <2>1, PuttingFinite, FS_EmptySet
<1> QED
  BY <1>1, <1>2, PuttingFinite DEF Late, Silence

-----------------------------------------------------------------------------
(* Induction over the naturals, as statements about sets. *)

-----------------------------------------------------------------------------
(* Induction, in the form that takes a set: a set of naturals has a least element. *)
LEMMA Least ==
  ASSUME NEW T, T \subseteq Nat, T # {}
  PROVE  \E n \in T : \A m \in T : n <= m
<1> DEFINE F == {0 .. n : n \in T}
<1>1. F \subseteq FiniteSubsetsOf(Nat) /\ F # {}
  <2>1. \A n \in Nat : IsFiniteSet(0 .. n) /\ 0 .. n \subseteq Nat
    BY FS_Interval
  <2> QED
    BY <2>1 DEF FiniteSubsetsOf
<1>2. PICK U \in F : \A V \in F : ~ (<<V, U>> \in StrictSubsetOrdering(Nat))
  <2> HIDE DEF F
  <2> QED
    BY <1>1, FS_StrictSubsetOrderingWellFounded, WFMin
<1>3. PICK n \in T : U = 0 .. n
  OBVIOUS
<1>4. ASSUME NEW m \in T, m < n PROVE FALSE
  <2>1. /\ 0 .. m \in F /\ 0 .. m \subseteq 0 .. n /\ n \in 0 .. n /\ n \notin 0 .. m
        /\ 0 .. n \subseteq Nat
    BY <1>4
  <2>2. <<0 .. m, 0 .. n>> \in StrictSubsetOrdering(Nat)
    BY <2>1 DEF StrictSubsetOrdering
  <2> QED
    BY <1>2, <1>3, <2>1, <2>2
<1> QED
  BY <1>4

(* A set that holds 0 and the successor of each of its naturals holds them all. *)
LEMMA Induction ==
  ASSUME NEW T, 0 \in T, \A n \in Nat : n \in T => n + 1 \in T
  PROVE  Nat \subseteq T
<1> DEFINE U == Nat \ T
<1> SUFFICES ASSUME U # {} PROVE FALSE
  OBVIOUS
<1>1. PICK n \in U : \A m \in U : n <= m
  <2>1. U \subseteq Nat
    OBVIOUS
  <2> HIDE DEF U
  <2> QED
    BY <2>1, Least
<1>2. n # 0 /\ n - 1 \in Nat /\ n - 1 \notin U
  BY <1>1
<1> QED
  BY <1>2

-----------------------------------------------------------------------------
(* The echo *)

(* What n bytes are echoed as. *)
Echoes(n) == FlattenSeq([i \in 1 .. n |-> Echo(Typed[i])])

(* f[i] is the echo of the first i bytes, for i up to n. *)
Joined(f, n) == f = [i \in 1 .. n |-> IF i = 1 THEN Echo(Typed[i]) ELSE f[i - 1] \o Echo(Typed[i])]

LEMMA JoinedExists == \A n \in Nat : \E f : Joined(f, n)
<1> DEFINE T == {n \in Nat : \E f : Joined(f, n)}
<1>1. 0 \in T
  <2> DEFINE f == [i \in 1 .. 0 |-> <<>>]
  <2>1. f = [i \in 1 .. 0 |-> IF i = 1 THEN Echo(Typed[i]) ELSE f[i - 1] \o Echo(Typed[i])]
    OBVIOUS
  <2> HIDE DEF f
  <2> QED
    BY <2>1 DEF Joined
<1>2. ASSUME NEW n \in Nat, n \in T PROVE n + 1 \in T
  <2>1. PICK f : Joined(f, n)
    BY <1>2
  <2> DEFINE g == [i \in 1 .. n + 1 |-> IF i \in 1 .. n THEN f[i]
                     ELSE IF i = 1 THEN Echo(Typed[i]) ELSE f[i - 1] \o Echo(Typed[i])]
  <2>2. \A i \in 1 .. n : g[i] = f[i]
    OBVIOUS
  <2>3. ASSUME NEW i \in 1 .. n + 1
        PROVE  g[i] = IF i = 1 THEN Echo(Typed[i]) ELSE g[i - 1] \o Echo(Typed[i])
    <3>1. i # 1 => i - 1 \in 1 .. n /\ g[i - 1] = f[i - 1]
      BY <2>2
    <3>2. CASE i \in 1 .. n
      <4>1. f[i] = IF i = 1 THEN Echo(Typed[i]) ELSE f[i - 1] \o Echo(Typed[i])
        BY <2>1, <3>2 DEF Joined
      <4> QED
        BY <2>2, <3>1, <3>2, <4>1
    <3>3. CASE i \notin 1 .. n
      <4>1. g[i] = IF i = 1 THEN Echo(Typed[i]) ELSE f[i - 1] \o Echo(Typed[i])
        BY <3>3
      <4> QED
        BY <3>1, <4>1
    <3> QED
      BY <3>2, <3>3
  <2>4. g = [i \in 1 .. n + 1 |-> IF i = 1 THEN Echo(Typed[i]) ELSE g[i - 1] \o Echo(Typed[i])]
    BY <2>3
  <2> HIDE DEF g
  <2>5. Joined(g, n + 1)
    BY <2>4 DEF Joined
  <2>6. n + 1 \in Nat
    OBVIOUS
  <2> QED
    BY <2>5, <2>6
<1> HIDE DEF T
<1>3. Nat \subseteq T
  BY <1>1, <1>2, Induction
<1> QED
  BY <1>3 DEF T

LEMMA JoinedUnique ==
  ASSUME NEW f, NEW g, NEW m \in Nat, NEW n \in Nat, Joined(f, m), Joined(g, n)
  PROVE  \A i \in Nat : i \in 1 .. m /\ i \in 1 .. n => f[i] = g[i]
<1> DEFINE T == {i \in Nat : i \in 1 .. m /\ i \in 1 .. n => f[i] = g[i]}
<1>1. 0 \in T
  OBVIOUS
<1>2. ASSUME NEW k \in Nat, k \in T PROVE k + 1 \in T
  <2>1. SUFFICES ASSUME k + 1 \in 1 .. m, k + 1 \in 1 .. n PROVE f[k + 1] = g[k + 1]
    OBVIOUS
  <2>2. /\ f[k + 1] = IF k + 1 = 1 THEN Echo(Typed[k + 1]) ELSE f[(k + 1) - 1] \o Echo(Typed[k + 1])
        /\ g[k + 1] = IF k + 1 = 1 THEN Echo(Typed[k + 1]) ELSE g[(k + 1) - 1] \o Echo(Typed[k + 1])
    BY <2>1 DEF Joined
  <2>3. k # 0 => f[k] = g[k]
    BY <1>2, <2>1
  <2>4. (k + 1) - 1 = k
    OBVIOUS
  <2> QED
    BY <2>2, <2>3, <2>4
<1> HIDE DEF T
<1>3. Nat \subseteq T
  BY <1>1, <1>2, Induction
<1> QED
  BY <1>3 DEF T

LEMMA JoinedIsEchoes ==
  ASSUME NEW n \in Nat \ {0}, NEW f, Joined(f, n)
  PROVE  Echoes(n) = f[n]
<1> DEFINE seqs == [i \in 1 .. n |-> Echo(Typed[i])]
           fl == CHOOSE g : g = [i \in 1 .. Len(seqs) |->
                                   IF i = 1 THEN seqs[i] ELSE g[i - 1] \o seqs[i]]
<1>1. Len(seqs) = n /\ n # 0
  OBVIOUS
<1>2. f = [i \in 1 .. Len(seqs) |-> IF i = 1 THEN seqs[i] ELSE f[i - 1] \o seqs[i]]
  <2>1. f = [i \in 1 .. n |-> IF i = 1 THEN Echo(Typed[i]) ELSE f[i - 1] \o Echo(Typed[i])]
    BY DEF Joined
  <2>2. \A i \in 1 .. n : seqs[i] = Echo(Typed[i])
    OBVIOUS
  <2> QED
    BY <1>1, <2>1, <2>2
<1>3. fl = [i \in 1 .. Len(seqs) |-> IF i = 1 THEN seqs[i] ELSE fl[i - 1] \o seqs[i]]
  <2> HIDE DEF seqs
  <2> QED
    BY <1>2
<1>4. Joined(fl, n)
  <2> HIDE DEF fl
  <2>2. \A i \in 1 .. n : seqs[i] = Echo(Typed[i])
    OBVIOUS
  <2> QED
    BY <1>1, <1>3, <2>2 DEF Joined
<1>5. fl[n] = f[n]
  <2> HIDE DEF fl
  <2> QED
    BY <1>4, JoinedUnique
<1>6. Echoes(n) = fl[Len(seqs)]
  BY <1>1 DEF Echoes, FlattenSeq
<1> QED
  BY <1>1, <1>5, <1>6

LEMMA EchoesStep ==
  /\ Echoes(0) = <<>>
  /\ \A n \in Nat : Echoes(n + 1) = Echoes(n) \o Echo(Typed[n + 1])
<1>1. Echoes(0) = <<>>
  BY DEF Echoes, FlattenSeq
<1>2. ASSUME NEW n \in Nat PROVE Echoes(n + 1) = Echoes(n) \o Echo(Typed[n + 1])
  <2>1. PICK g : Joined(g, n + 1)
    BY JoinedExists
  <2>2. Echoes(n + 1) = g[n + 1]
    BY <2>1, JoinedIsEchoes
  <2>3. g[n + 1] = IF n + 1 = 1 THEN Echo(Typed[n + 1]) ELSE g[(n + 1) - 1] \o Echo(Typed[n + 1])
    <3>1. n + 1 \in 1 .. n + 1
      OBVIOUS
    <3> QED
      BY <2>1, <3>1 DEF Joined
  <2>4. CASE n = 0
    <3>1. Echo(Typed[1]) \in Seq(Char)
      BY EchoType
    <3>2. <<>> \o Echo(Typed[1]) = Echo(Typed[1])
      BY <3>1
    <3>3. Echoes(1) = g[1] /\ g[1] = Echo(Typed[1])
      BY <2>2, <2>3, <2>4
    <3>4. Echoes(1) = Echoes(0) \o Echo(Typed[1])
      BY <1>1, <3>2, <3>3
    <3>5. n + 1 = 1
      BY <2>4
    <3> QED
      BY <2>4, <3>4, <3>5
  <2>5. CASE n # 0
    <3>1. PICK f : Joined(f, n)
      BY JoinedExists
    <3>2. Echoes(n) = f[n] /\ f[n] = g[n]
      BY <2>1, <2>5, <3>1, JoinedIsEchoes, JoinedUnique
    <3>3. n + 1 # 1 /\ (n + 1) - 1 = n
      BY <2>5
    <3>4. g[n + 1] = g[n] \o Echo(Typed[n + 1])
      BY <2>3, <3>3
    <3>5. g[n] = Echoes(n)
      BY <3>2
    <3> QED
      BY <2>2, <3>4, <3>5
  <2> QED
    BY <2>4, <2>5
<1> QED
  BY <1>1, <1>2

LEMMA EchoesType == \A n \in Nat : Echoes(n) \in Seq(Char)
<1> DEFINE T == {n \in Nat : Echoes(n) \in Seq(Char)}
<1>1. 0 \in T
  <2>1. <<>> \in Seq(Char)
    OBVIOUS
  <2> QED
    BY <2>1, EchoesStep
<1>2. ASSUME NEW n \in Nat, n \in T PROVE n + 1 \in T
  <2>1. Echo(Typed[n + 1]) \in Seq(Char) /\ Echoes(n) \in Seq(Char)
    BY <1>2, EchoType
  <2>2. Echoes(n) \o Echo(Typed[n + 1]) \in Seq(Char)
    BY <2>1
  <2>3. Echoes(n + 1) = Echoes(n) \o Echo(Typed[n + 1])
    BY EchoesStep
  <2>4. Echoes(n + 1) \in Seq(Char)
    BY <2>2, <2>3
  <2>5. n + 1 \in Nat
    OBVIOUS
  <2> QED
    BY <2>4, <2>5
<1> HIDE DEF T
<1>3. Nat \subseteq T
  BY <1>1, <1>2, Induction
<1> QED
  BY <1>3 DEF T

(* More bytes make the echo longer and leave its beginning as it was. *)
LEMMA EchoesGrow ==
  ASSUME NEW m \in Nat
  PROVE  \A n \in Nat : m <= n => \E t \in Seq(Char) : Echoes(n) = Echoes(m) \o t
<1> DEFINE T == {n \in Nat : m <= n => \E t \in Seq(Char) : Echoes(n) = Echoes(m) \o t}
<1>0. Echoes(m) = Echoes(m) \o <<>> /\ <<>> \in Seq(Char)
  BY EchoesType
<1>1. 0 \in T
  <2>1. m <= 0 => m = 0
    OBVIOUS
  <2> QED
    BY <1>0, <2>1
<1>2. ASSUME NEW n \in Nat, n \in T PROVE n + 1 \in T
  <2>1. CASE m <= n
    <3>1. PICK t \in Seq(Char) : Echoes(n) = Echoes(m) \o t
      BY <1>2, <2>1
    <3>2. Echo(Typed[n + 1]) \in Seq(Char) /\ Echoes(m) \in Seq(Char)
      BY EchoType, EchoesType
    <3>3. t \o Echo(Typed[n + 1]) \in Seq(Char)
      BY <3>2
    <3>4. (Echoes(m) \o t) \o Echo(Typed[n + 1]) = Echoes(m) \o (t \o Echo(Typed[n + 1]))
      BY <3>2, ConcatAssociative, SMTT(30)
    <3>5. Echoes(n + 1) = Echoes(n) \o Echo(Typed[n + 1])
      BY EchoesStep
    <3>6. n + 1 \in Nat
      OBVIOUS
    <3> QED
      BY <3>1, <3>3, <3>4, <3>5, <3>6
  <2>2. CASE m = n + 1
    BY <1>0, <2>2
  <2>3. CASE ~ (m <= n + 1)
    BY <2>3
  <2> QED
    BY <2>1, <2>2, <2>3
<1> HIDE DEF T
<1>3. Nat \subseteq T
  BY <1>1, <1>2, Induction
<1> QED
  BY <1>3 DEF T

LEMMA PrefixOfConcat ==
  ASSUME NEW S, NEW s \in Seq(S), NEW t \in Seq(S)
  PROVE  IsPrefix(s, s \o t)
<1>1. Len(s) <= Len(s \o t)
  OBVIOUS
<1>2. SubSeq(s, 1, Len(s)) = SubSeq(s \o t, 1, Len(s))
  <2> DEFINE u == SubSeq(s \o t, 1, Len(s))
  <2>1. /\ s \o t \in Seq(S) /\ Len(s) \in Nat /\ SubSeq(s, 1, Len(s)) = s
        /\ u \in Seq(S) /\ Len(u) = Len(s)
    OBVIOUS
  <2>2. ASSUME NEW i \in 1 .. Len(s) PROVE u[i] = s[i]
    OBVIOUS
  <2> QED
    BY <2>1, <2>2
<1> QED
  BY <1>1, <1>2 DEF IsPrefix

(* Moving the first element of t to the end of s. *)
LEMMA MoveOne ==
  ASSUME NEW S, NEW s \in Seq(S), NEW t \in Seq(S), t # <<>>
  PROVE  Append(s, Head(t)) \o Tail(t) = s \o t
<1> DEFINE a == Append(s, Head(t)) \o Tail(t)
           b == s \o t
<1>1. /\ Head(t) \in S /\ Tail(t) \in Seq(S) /\ Len(Tail(t)) = Len(t) - 1 /\ Head(t) = t[1]
      /\ Len(s) \in Nat /\ Len(t) \in Nat \ {0}
  BY TailType
<1>2. a \in Seq(S) /\ b \in Seq(S) /\ Len(a) = Len(s) + Len(t) /\ Len(b) = Len(s) + Len(t)
  BY <1>1
<1>3. ASSUME NEW i \in 1 .. Len(s) + Len(t) PROVE a[i] = b[i]
  BY <1>1
<1> QED
  BY <1>2, <1>3

(* How far the input has been read. *)
Read == received - Len(rx)

(* The hart that serves the UART, and what it has still to send. *)
Serving(h) == irq[h] \in {"poll", "complete"}
Serve == /\ \A g, h \in CPU : Serving(g) /\ Serving(h) => g = h
         /\ claimed <=> \E h \in CPU : Serving(h)

(* A hart that has characters to send is inside printf or is echoing. *)
Talk == \A h \in CPU : /\ irq[h] # "none" /\ irq[h] # "clear" => say[h] = "no"
                       /\ send[h] # <<>> => say[h] = "open" \/ irq[h] = "poll"

Fifo == \A i \in 1 .. Len(rx) : rx[i] = Typed[Read + i]

Echoed == /\ \A h \in CPU : irq[h] = "poll" => echoed \o send[h] = Echoes(Read)
          /\ (\A h \in CPU : irq[h] # "poll") => echoed = Echoes(Read)

EchoInv == Serve /\ Talk /\ Fifo /\ Echoed /\ Read \in Nat

LEMMA EchoMeansExact ==
  ASSUME Types, EchoInv
  PROVE  EchoExact
<1>1. /\ echoed \in Seq(Char) /\ send \in [CPU -> Seq(Char)]
      /\ received \in Nat /\ Len(rx) \in Nat /\ Read <= received
      /\ rx = <<>> => Read = received
  BY TypeParts, DeviceAssumption DEF DeviceTypes, DeviceTypeOK, PrintTypes, Read
<1>2. rx = <<>> /\ ~ claimed => echoed = Echoes(received)
  BY <1>1 DEF EchoInv, Serve, Serving, Echoed
<1>3. PICK s \in Seq(Char) : echoed \o s = Echoes(Read)
  <2>1. CASE \E h \in CPU : irq[h] = "poll"
    BY <1>1, <2>1 DEF EchoInv, Echoed
  <2>2. CASE \A h \in CPU : irq[h] # "poll"
    <3>1. echoed = Echoes(Read) /\ echoed \o <<>> = echoed /\ <<>> \in Seq(Char)
      BY <1>1, <2>2 DEF EchoInv, Echoed
    <3> QED
      BY <3>1
  <2> QED
    BY <2>1, <2>2
<1>4. PICK t \in Seq(Char) : Echoes(received) = Echoes(Read) \o t
  BY <1>1, EchoesGrow DEF EchoInv
<1>5. Echoes(received) = echoed \o (s \o t) /\ s \o t \in Seq(Char)
  <2>1. (echoed \o s) \o t = echoed \o (s \o t)
    BY <1>1, ConcatAssociative
  <2>2. s \o t \in Seq(Char)
    OBVIOUS
  <2> QED
    BY <1>3, <1>4, <2>1, <2>2
<1>6. IsPrefix(echoed, Echoes(received))
  BY <1>1, <1>5, PrefixOfConcat
<1> QED
  BY <1>2, <1>6 DEF EchoExact, Echoes

(* The actions of a handler that leave the UART, the printing and a serving hart alone. *)
LEMMA TimerHandler ==
  ASSUME NEW h \in CPU, Types, Handler(h), ~ Claim(h), ~ Poll(h), ~ Complete(h)
  PROVE  /\ UNCHANGED <<rx, claimed, send>>
         /\ irq[h] \in TimerPart /\ irq'[h] \in TimerPart \cup {"none"}
         /\ \A d \in CPU \ {h} : irq'[d] = irq[d] /\ say'[d] = say[d]
         /\ irq'[h] \in {"clear", "none"} \/ say'[h] = say[h]
<1>1. IrqTypes /\ PrintTypes
  BY TypeParts
<1>2. CASE UpdateAcquire(h) \/ UpdateAdd(h) \/ UpdateRelease(h) \/ GetAcquire(h)
           \/ GetRead(h) \/ GetRelease(h) \/ ClearPending(h)
  BY <1>1, <1>2 DEF UpdateAcquire, UpdateAdd, UpdateRelease, GetAcquire, GetRead, GetRelease,
     ClearPending, Goto, uart, printing, IrqTypes, TimerPart
<1>3. CASE Report(h)
  BY <1>1, <1>3 DEF Report, Goto, Say, uart, IrqTypes, PrintTypes, TimerPart
<1> QED
  BY <1>2, <1>3 DEF Handler

LEMMA ServeStep ==
  ASSUME Types, Serve, [Next]_vars
  PROVE  Serve'
<1>1. IrqTypes /\ claimed \in BOOLEAN
  BY TypeParts DEF DeviceTypes, DeviceTypeOK
<1> USE DEF Serve, Serving
<1>2. ASSUME claimed' = claimed, \A d \in CPU : Serving(d)' <=> Serving(d) PROVE Serve'
  BY <1>2
<1>3. ASSUME NEW h \in CPU, Take(h) PROVE Serve'
  <2>1. /\ irq[h] = "none" /\ claimed' = claimed /\ irq'[h] \notin {"poll", "complete"}
        /\ \A d \in CPU \ {h} : irq'[d] = irq[d]
    BY <1>1, <1>3, TakeFrame DEF Take, TakeTimer, TakeUart, Goto, Interruptible, InThread, IrqTypes
  <2> QED
    BY <1>2, <2>1
<1>4. ASSUME NEW h \in CPU, Handler(h) PROVE Serve'
  <2>1. CASE Claim(h)
    BY <1>1, <2>1 DEF Claim, Goto, UartPending, IrqTypes
  <2>2. CASE Poll(h)
    BY <1>1, <2>2 DEF Poll, Goto, IrqTypes
  <2>3. CASE Complete(h)
    BY <1>1, <2>3 DEF Complete, Goto, IrqTypes
  <2>4. CASE ~ Claim(h) /\ ~ Poll(h) /\ ~ Complete(h)
    BY <1>2, <1>4, <2>4, TimerHandler DEF TimerPart
  <2> QED
    BY <2>1, <2>2, <2>3, <2>4
<1>5. ASSUME UNCHANGED <<irq, claimed>> PROVE Serve'
  BY <1>5
<1> QED
  BY <1>3, <1>4, <1>5, Stuttering, DeviceFrame, OutputFrame, ThreadFrame DEF Next

LEMMA TalkStep ==
  ASSUME Types, Talk, [Next]_vars
  PROVE  Talk'
<1>1. IrqTypes /\ PrintTypes
  BY TypeParts
<1> USE DEF Talk
<1>2. ASSUME UNCHANGED <<irq, say, send>> PROVE Talk'
  BY <1>2
<1>3. ASSUME NEW h \in CPU, Take(h) PROVE Talk'
  <2>1. /\ irq[h] = "none" /\ say[h] = "no" /\ send[h] = <<>>
        /\ say' = say /\ send' = send
        /\ \A d \in CPU \ {h} : irq'[d] = irq[d]
    BY <1>1, <1>3, TakeFrame DEF Take, TakeTimer, TakeUart, Goto, Interruptible, InThread, Quiet, IrqTypes
  <2> QED
    BY <2>1
<1>4. ASSUME NEW h \in CPU, Handler(h) PROVE Talk'
  <2>1. CASE Claim(h)
    BY <1>1, <2>1 DEF Claim, Goto, IrqTypes, printing
  <2>2. CASE Poll(h)
    BY <1>1, <2>2 DEF Poll, Quiet, Goto, IrqTypes, PrintTypes
  <2>3. CASE Complete(h)
    BY <1>1, <2>3 DEF Complete, Goto, IrqTypes, printing
  <2>4. CASE ~ Claim(h) /\ ~ Poll(h) /\ ~ Complete(h)
    <3>1. irq[h] # "poll" /\ irq[h] # "none" /\ send' = send
      BY <1>4, <2>4, TimerHandler DEF TimerPart
    <3>2. \A d \in CPU \ {h} : irq'[d] = irq[d] /\ say'[d] = say[d]
      BY <1>4, <2>4, TimerHandler
    <3>3. irq'[h] \in {"clear", "none"} \/ say'[h] = say[h]
      BY <1>4, <2>4, TimerHandler
    <3>4. irq[h] = "clear" => irq'[h] = "none" /\ say' = say
      BY <1>1, <1>4, <2>4 DEF Handler, UpdateAcquire, UpdateAdd, UpdateRelease, GetAcquire, GetRead,
         GetRelease, Report, ClearPending, Goto, IrqTypes, printing
    <3>5. irq[h] # "clear" => say[h] = "no" /\ send[h] = <<>>
      BY <3>1
    <3> QED
      BY <1>1, <3>1, <3>2, <3>3, <3>4, <3>5
  <2> QED
    BY <2>1, <2>2, <2>3, <2>4
<1>5. ASSUME NEW h \in CPU, Thread(h) PROVE Talk'
  <2>1. irq' = irq /\ send' = send /\ irq[h] = "none" /\ send[h] = <<>>
        /\ \A d \in CPU \ {h} : say'[d] = say[d]
    BY <1>1, <1>5, ThreadFrame DEF Thread, InitStep, Hello, Start, Wait, KvmInithart, TrapInithart, Proc,
       Panic, SetPanicked, Say, At, InThread, Quiet, PrintTypes, printing
  <2> QED
    BY <2>1
<1>6. ASSUME NEW h \in CPU, Output(h) PROVE Talk'
  <2>0. irq' = irq
    BY <1>6, OutputFrame
  <2>1. CASE PrintfAcquire(h)
    BY <1>1, <2>0, <2>1 DEF PrintfAcquire, PrintTypes
  <2>2. CASE PutTest(h)
    BY <2>0, <2>2 DEF PutTest
  <2>3. CASE PutStore(h)
    <3>1. /\ say' = say /\ \A d \in CPU \ {h} : send'[d] = send[d]
          /\ put[h]
      BY <1>1, <2>3 DEF PutStore, PrintTypes
    <3>2. send'[h] # <<>> => send[h] # <<>>
      <4>1. send[h] \in Seq(Char) /\ send'[h] = Tail(send[h])
        BY <1>1, <2>3 DEF PutStore, PrintTypes
      <4>2. send[h] = <<>> => Tail(send[h]) = <<>>
        BY <4>1
      <4> QED
        BY <4>1, <4>2
    <3> QED
      BY <2>0, <3>1, <3>2
  <2>4. CASE PrintfRelease(h)
    BY <1>1, <2>0, <2>4 DEF PrintfRelease, PrintTypes
  <2> QED
    BY <1>6, <2>1, <2>2, <2>3, <2>4 DEF Output
<1> QED
  BY <1>2, <1>3, <1>4, <1>5, <1>6, Stuttering, DeviceFrame DEF Next

(* A step reads a byte, or receives one, or leaves the FIFO alone. *)
LEMMA FifoStep ==
  ASSUME Types, EchoInv, [Next]_vars
  PROVE  /\ Fifo' /\ Read' \in Nat
         /\ Read' = Read \/ \E h \in CPU : Poll(h) /\ rx # <<>>
         /\ rx # <<>> => Head(rx) = Typed[Read + 1]
         /\ \A h \in CPU : Poll(h) /\ rx # <<>> => Read' = Read + 1
         /\ Receive => Read' = Read
<1>1. /\ rx \in Seq({Typed[i] : i \in 1 .. received}) /\ Len(rx) \in Nat /\ received \in Nat
      /\ Read \in Nat /\ Read = received - Len(rx) /\ Fifo
  BY TypeParts, DeviceAssumption DEF DeviceTypes, DeviceTypeOK, EchoInv, Read
<1>2. ASSUME UNCHANGED <<rx, received>> PROVE Fifo' /\ Read' = Read
  BY <1>1, <1>2 DEF Fifo, Read
<1>3. rx # <<>> => Head(rx) = Typed[Read + 1]
  <2>1. rx # <<>> => Head(rx) = rx[1] /\ 1 \in 1 .. Len(rx)
    BY <1>1, TailType
  <2> QED
    BY <1>1, <2>1 DEF Fifo
<1>4. ASSUME NEW h \in CPU, Poll(h), rx # <<>> PROVE Fifo' /\ Read' = Read + 1
  <2>1. /\ rx' = Tail(rx) /\ received' = received /\ Len(rx') = Len(rx) - 1
        /\ \A i \in 1 .. Len(rx) - 1 : rx'[i] = rx[i + 1]
    BY <1>1, <1>4, TailType DEF Poll
  <2>2. Read' = Read + 1
    <3>1. Read' = received - (Len(rx) - 1)
      BY <2>1 DEF Read
    <3> QED
      BY <1>1, <3>1
  <2>3. ASSUME NEW i \in 1 .. Len(rx) - 1 PROVE rx'[i] = Typed[(Read + 1) + i]
    <3>1. i + 1 \in 1 .. Len(rx) /\ Read + (i + 1) = (Read + 1) + i
      BY <1>1
    <3> QED
      BY <1>1, <2>1, <3>1 DEF Fifo
  <2> QED
    BY <2>1, <2>2, <2>3 DEF Fifo
<1>5. ASSUME Receive PROVE Fifo' /\ Read' = Read
  <2> DEFINE b == Typed[received + 1]
  <2>1. rx' = Append(rx, b) /\ received' = received + 1
    BY <1>5 DEF Receive
  <2>2. Len(rx') = Len(rx) + 1 /\ \A i \in 1 .. Len(rx) + 1 :
           rx'[i] = IF i = Len(rx) + 1 THEN b ELSE rx[i]
    BY <1>1, <2>1
  <2>3. Read' = Read
    BY <1>1, <2>1, <2>2 DEF Read
  <2>4. ASSUME NEW i \in 1 .. Len(rx) + 1 PROVE rx'[i] = Typed[Read + i]
    <3>1. i = Len(rx) + 1 => Read + i = received + 1
      BY <1>1
    <3>2. i # Len(rx) + 1 => i \in 1 .. Len(rx)
      BY <1>1
    <3> QED
      BY <1>1, <2>2, <3>1, <3>2 DEF Fifo
  <2> QED
    BY <2>2, <2>3, <2>4 DEF Fifo
<1>6. ASSUME NEW h \in CPU, Handler(h) PROVE UNCHANGED <<rx, received>> \/ (Poll(h) /\ rx # <<>>)
  <2>1. CASE Claim(h) \/ Complete(h)
    BY <2>1 DEF Claim, Complete
  <2>2. CASE Poll(h) /\ rx = <<>>
    BY <2>2 DEF Poll
  <2>3. CASE ~ Claim(h) /\ ~ Poll(h) /\ ~ Complete(h)
    BY <1>6, <2>3, TimerHandler, HandlerFrame
  <2> QED
    BY <2>1, <2>2, <2>3
<1>7. \/ UNCHANGED <<rx, received>> \/ Receive
      \/ \E h \in CPU : Poll(h) /\ rx # <<>>
  BY <1>6, Stuttering, OutputFrame, ThreadFrame, TakeFrame DEF Next, Device, uart
<1> QED
  BY <1>1, <1>2, <1>3, <1>4, <1>5, <1>7

LEMMA EchoedStep ==
  ASSUME Types, Sending, EchoInv, [Next]_vars
  PROVE  Echoed'
<1>1. /\ IrqTypes /\ PrintTypes /\ echoed \in Seq(Char) /\ Serve /\ Talk /\ Echoed
      /\ Read \in Nat
  BY TypeParts DEF PrintTypes, EchoInv
<1>2. ASSUME UNCHANGED <<irq, send, echoed>>, Read' = Read PROVE Echoed'
  BY <1>1, <1>2 DEF Echoed
<1>3. \A h \in CPU : irq[h] = "poll" => \A d \in CPU \ {h} : irq[d] # "poll"
  BY <1>1 DEF Serve, Serving
<1>4. ASSUME NEW h \in CPU, Poll(h) PROVE Echoed'
  <2>1. /\ irq[h] = "poll" /\ send[h] = <<>> /\ echoed' = echoed
    BY <1>4 DEF Poll, Quiet
  <2>2. echoed = Echoes(Read)
    <3>1. echoed \o <<>> = echoed
      BY <1>1
    <3> QED
      BY <1>1, <2>1, <3>1 DEF Echoed
  <2>3. CASE rx = <<>>
    <3>1. Read' = Read
      BY <1>4, <2>3 DEF Poll, Read
    <3>2. \A d \in CPU : irq'[d] # "poll"
      BY <1>1, <1>3, <2>1, <2>3, <1>4 DEF Poll, Goto, IrqTypes
    <3> QED
      BY <2>1, <2>2, <3>1, <3>2 DEF Echoed
  <2>4. CASE rx # <<>>
    <3>1. Read' = Read + 1 /\ Head(rx) = Typed[Read + 1]
      BY <1>4, <2>4, FifoStep
    <3>2. irq' = irq /\ send'[h] = Echo(Head(rx))
      BY <1>1, <1>4, <2>4 DEF Poll, PrintTypes
    <3>3. echoed' \o send'[h] = Echoes(Read)'
      <4>1. Echoes(Read + 1) = Echoes(Read) \o Echo(Typed[Read + 1])
        BY <1>1, EchoesStep
      <4> QED
        BY <2>1, <2>2, <3>1, <3>2, <4>1 DEF Echoes
    <3> QED
      BY <1>3, <2>1, <3>2, <3>3 DEF Echoed
  <2> QED
    BY <2>3, <2>4
<1>5. ASSUME ~ \E h \in CPU : Poll(h) PROVE Read' = Read
  BY <1>5, FifoStep
<1>6. ASSUME NEW h \in CPU, Handler(h), ~ Poll(h) PROVE Echoed'
  <2>0. irq[h] # "poll" /\ echoed' = echoed
    BY <1>6, HandlerFrame DEF Handler, UpdateAcquire, UpdateAdd, UpdateRelease, GetAcquire, GetRead,
       GetRelease, Report, ClearPending, Claim, Complete
  <2>1. Read' = Read /\ send' = send
    BY <1>6 DEF Read, Handler, UpdateAcquire, UpdateAdd, UpdateRelease, GetAcquire, GetRead,
       GetRelease, Report, ClearPending, Claim, Complete, uart, printing
  <2>2. CASE Claim(h) /\ UartPending
    <3>1. \A d \in CPU : irq[d] # "poll"
      BY <1>1, <2>2 DEF UartPending, Serve, Serving
    <3>2. send[h] = <<>> /\ echoed = Echoes(Read)
      BY <1>1, <2>2, <3>1 DEF Claim, Talk, Echoed
    <3>3. irq' = [irq EXCEPT ![h] = "poll"]
      BY <2>2 DEF Claim, Goto
    <3>4. echoed \o <<>> = echoed
      BY <1>1
    <3> QED
      BY <1>1, <2>0, <2>1, <3>1, <3>2, <3>3, <3>4 DEF Echoed, IrqTypes
  <2>3. CASE ~ (Claim(h) /\ UartPending)
    <3>1. /\ irq'[h] # "poll"
          /\ \A d \in CPU \ {h} : irq'[d] = irq[d]
      BY <1>1, <1>6, <2>3 DEF Handler, UpdateAcquire, UpdateAdd, UpdateRelease, GetAcquire, GetRead,
         GetRelease, Report, ClearPending, Claim, Complete, Goto, IrqTypes
    <3> QED
      BY <1>1, <2>0, <2>1, <3>1 DEF Echoed
  <2> QED
    BY <2>2, <2>3
<1>7. ASSUME NEW h \in CPU, Take(h) PROVE Echoed'
  <2>1. /\ irq[h] = "none" /\ irq'[h] # "poll" /\ \A d \in CPU \ {h} : irq'[d] = irq[d]
        /\ send' = send /\ echoed' = echoed /\ Read' = Read
    BY <1>1, <1>7, TakeFrame DEF Take, TakeTimer, TakeUart, Goto, Interruptible, InThread, IrqTypes, Read
  <2> QED
    BY <1>1, <2>1 DEF Echoed
<1>8. ASSUME NEW h \in CPU, Output(h) PROVE Echoed'
  <2>0. irq' = irq /\ Read' = Read
    BY <1>8, OutputFrame DEF Read
  <2>1. CASE PrintfAcquire(h)
    <3>1. irq[h] # "poll"
      BY <1>1, <2>1 DEF PrintfAcquire, Talk
    <3>2. echoed' = echoed /\ \A d \in CPU \ {h} : send'[d] = send[d]
      BY <1>1, <2>1 DEF PrintfAcquire, PrintTypes
    <3> QED
      BY <1>1, <2>0, <3>1, <3>2 DEF Echoed
  <2>2. CASE PutTest(h) \/ PrintfRelease(h)
    BY <1>2, <2>0, <2>2 DEF PutTest, PrintfRelease
  <2>3. CASE PutStore(h) /\ say[h] = "open"
    <3>1. irq[h] # "poll" /\ echoed' = echoed /\ \A d \in CPU \ {h} : send'[d] = send[d]
      BY <1>1, <2>3 DEF PutStore, Talk, PrintTypes
    <3> QED
      BY <1>1, <2>0, <3>1 DEF Echoed
  <2>4. CASE PutStore(h) /\ say[h] # "open"
    <3>1. /\ send[h] \in Seq(Char) /\ send[h] # <<>> /\ irq[h] = "poll"
          /\ echoed' = Append(echoed, Head(send[h])) /\ send'[h] = Tail(send[h])
      BY <1>1, <2>4 DEF PutStore, Sending, Talk, PrintTypes
    <3>2. echoed' \o send'[h] = Echoes(Read)
      BY <1>1, <3>1, MoveOne DEF Echoed
    <3>3. Echoes(Read)' = Echoes(Read)
      BY <2>0 DEF Echoes
    <3> QED
      BY <1>3, <2>0, <3>1, <3>2, <3>3 DEF Echoed
  <2> QED
    BY <1>8, <2>1, <2>2, <2>3, <2>4 DEF Output
<1>9. ASSUME Device PROVE Echoed'
  <2>1. Read' = Read
    <3>1. Receive \/ UNCHANGED uart
      BY <1>9 DEF Device
    <3> QED
      BY <3>1, FifoStep DEF uart, Read
  <2> QED
    BY <1>2, <1>9, <2>1, DeviceFrame
<1>10. ASSUME NEW h \in CPU, Thread(h) PROVE Echoed'
  BY <1>2, <1>10, ThreadFrame DEF Read
<1>11. CASE UNCHANGED vars
  BY <1>2, <1>11, Stuttering DEF Read
<1> QED
  BY <1>4, <1>6, <1>7, <1>8, <1>9, <1>10, <1>11 DEF Next

-----------------------------------------------------------------------------
(* The parts hold together. *)
IInv == /\ Types /\ Sending /\ Order
        /\ Timing /\ TicksExact
        /\ EchoInv
        /\ Late

LEMMA InitEcho == Init => EchoInv
<1> SUFFICES ASSUME Init PROVE EchoInv
  OBVIOUS
<1> USE DEF Init, DeviceInit
<1>1. Serve /\ Talk
  BY DEF Serve, Serving, Talk
<1>2. Len(rx) = 0 /\ Read = 0
  <2>1. Len(rx) = 0 /\ received = 0
    OBVIOUS
  <2>2. Read = 0 - 0
    BY <2>1 DEF Read
  <2> QED
    BY <2>1, <2>2
<1>3. Fifo
  BY <1>2 DEF Fifo
<1>4. Echoed
  BY <1>2, EchoesStep DEF Echoed
<1> QED
  BY <1>1, <1>2, <1>3, <1>4 DEF EchoInv

LEMMA InitInv == Init => IInv
<1> SUFFICES ASSUME Init PROVE IInv
  OBVIOUS
<1>1. Sending /\ Late
  BY DEF Init, Sending, Late
<1>2. Timing /\ TicksExact
  BY HartAssumption DEF Init, DeviceInit, Timing, TicksExact, TimerPart
<1> QED
  BY <1>1, <1>2, InitTypes, InitOrder, InitEcho DEF IInv

LEMMA NextInv ==
  ASSUME IInv, [Next]_vars
  PROVE  IInv'
<1> USE DEF IInv
<1>1. Types' /\ Sending'
  BY TypeParts, DeviceTypesStep, BootTypesStep, IrqTypesStep, PrintTypesStep, SendingStep
<1>2. EchoInv'
  BY ServeStep, TalkStep, FifoStep, EchoedStep DEF EchoInv
<1> QED
  BY <1>1, <1>2, OrderStep, TimingStep, LateStep

(* The parts hold in every state, for every set of harts and every input. *)
THEOREM Invariance == Spec => []IInv
  BY InitInv, NextInv, PTL DEF Spec

(* main.c starts the other harts early enough, and every hart turns its interrupts
   on late enough: no statement, printf or handler uses what is not initialised. *)
THEOREM UseCorrect == Spec => []InitBeforeUse
<1>1. IInv => InitBeforeUse
  BY OrderMeansUse DEF IInv
<1> QED
  BY <1>1, Invariance, PTL

(* timer_update runs on hart Boot alone, once for each of its interrupts that
   was not merged with the one before it. *)
THEOREM TicksCorrect == Spec => []TicksExact
  BY Invariance, PTL DEF IInv

(* Whichever harts claim the UART's interrupts, and whatever they print besides,
   uart_intr echoes each byte once and in order. *)
THEOREM EchoCorrect == Spec => []EchoExact
<1>1. IInv => EchoExact
  BY EchoMeansExact DEF IInv
<1> QED
  BY <1>1, Invariance, PTL

(* After panicked is set, uart_putc_sync lets each other hart send one character
   at most. *)
THEOREM SilenceCorrect == Spec => []Silence
<1>1. IInv => Silence
  BY LateMeansSilence DEF IInv
<1> QED
  BY <1>1, Invariance, PTL
=============================================================================
