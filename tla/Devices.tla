------------------------------ MODULE Devices ------------------------------
(* What the trap handlers see of the hardware: for each hart the machine timer,
   which timer_vector forwards as a pending software interrupt; one UART with
   its receive FIFO; one PLIC that hands its interrupt to the hart that claims
   it first.  Interrupts stay pending until they are cleared or claimed; two of
   one kind that are pending at once are one. *)
EXTENDS Integers, Sequences

CONSTANTS CPU,          \* the harts
          Typed,        \* the bytes that come in, by kind, in their order
          FifoSize,     \* of the UART
          MaxFired      \* bound: MaxFired[h] interrupts of the timer of h

ASSUME DeviceAssumption == /\ Typed \in Seq({"nl", "del", "ctl", "key"})
                           /\ FifoSize \in Nat /\ MaxFired \in [CPU -> Nat]

VARIABLES ssip,      \* ssip[h]: the S-mode software interrupt of h is pending
          fired,     \* fired[h]: how often the timer of h has fired
          merged,    \* ghost: how often it found ssip[h] still set
          rx,        \* the bytes in the receive FIFO
          received,  \* how many of the bytes of Typed have come in
          tx,        \* the UART has announced that it can send again
          claimed    \* a hart has claimed the UART's interrupt, not completed it

timers == <<ssip, fired, merged>>
uart == <<rx, received, tx, claimed>>

DeviceInit == /\ ssip = [h \in CPU |-> FALSE]
              /\ fired = [h \in CPU |-> 0]
              /\ merged = [h \in CPU |-> 0]
              /\ rx = <<>> /\ received = 0
              /\ tx = FALSE /\ claimed = FALSE

(* timer_vector, in M-mode: it comes whatever the S-mode masks are. *)
TimerFires(h) == /\ fired[h] < MaxFired[h]
                 /\ fired' = [fired EXCEPT ![h] = @ + 1]
                 /\ merged' = [merged EXCEPT ![h] = IF ssip[h] THEN @ + 1 ELSE @]
                 /\ ssip' = [ssip EXCEPT ![h] = TRUE]

(* A byte for which the FIFO has no room is lost before the kernel knows of it. *)
Receive == /\ received < Len(Typed) /\ Len(rx) < FifoSize
           /\ received' = received + 1
           /\ rx' = Append(rx, Typed[received + 1])

UartPending == (rx # <<>> \/ tx) /\ ~ claimed

DeviceTypeOK == /\ ssip \in [CPU -> BOOLEAN]
                /\ fired \in [CPU -> Nat] /\ merged \in [CPU -> Nat]
                /\ \A h \in CPU : merged[h] <= fired[h] /\ fired[h] <= MaxFired[h]
                /\ received \in 0 .. Len(Typed)
                /\ rx \in Seq({Typed[i] : i \in 1 .. received})
                /\ {tx, claimed} \subseteq BOOLEAN
=============================================================================
