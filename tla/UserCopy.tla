------------------------------ MODULE UserCopy ------------------------------
(* uvm_copyin, uvm_copyout and uvm_copyin_str (mem/uvm.c, 16-77): bytes carried
   between a kernel buffer and user memory, through the user page table.  A step
   is one pass of the loop.

   User addresses are bytes; page v of the table has the access pte[v].  A byte
   of user memory holds its address plus one, or 0 where a string ends; a byte
   of the kernel buffer holds minus its index minus one: so the model tells
   where every byte that arrives came from.  Unsigned 64-bit arithmetic wraps at
   Wrap.  Which frame a page is mapped to is of no consequence here. *)
EXTENDS Integers, FiniteSets

CONSTANTS PGSIZE,
          NPages,        \* user pages; above them vm_getpte finds nothing
          Wrap,          \* 2^64
          Lengths        \* the lengths that are asked for

ASSUME SizeAssumption == /\ {PGSIZE, NPages} \subseteq Nat \ {0}
                         /\ Lengths \subseteq 0 .. Wrap - 1
                         /\ Wrap \in Nat /\ Wrap > (NPages + 1) * PGSIZE
                         /\ Wrap % PGSIZE = 0

Addr == 0 .. NPages * PGSIZE - 1
Kernel == 0 .. (NPages + 1) * PGSIZE - 1      \* the kernel buffer and what is behind it
Access == {"none", "kernel", "read", "write"}  \* no PTE_V; no PTE_U; no PTE_W; all
Wrapped(x) == x % Wrap

VARIABLES pte, user, kern,    \* the page table, user memory, kernel memory
          op, start, len,     \* which call, its user address and its length
          src, dst, n,        \* its locals: user address, kernel index, n or count
          pc, ret

vars == <<pte, user, kern, op, start, len, src, dst, n, pc, ret>>
call == <<pte, op, start, len>>

(* nul = the address of a NUL, if there is one. *)
Init == /\ pte \in [0 .. NPages - 1 -> Access]
        /\ \E nul \in Addr \cup {NPages * PGSIZE} :
             user = [a \in Addr |-> IF a = nul THEN 0 ELSE a + 1]
        /\ kern = [k \in Kernel |-> - k - 1]
        /\ op \in {"copyin", "copyout", "copyin_str"}
        /\ start \in Addr /\ len \in Lengths
        /\ src = start /\ dst = 0
        /\ n = (IF op = "copyin_str" THEN 0 ELSE len)
        /\ pc = "loop" /\ ret = 0

(* The access that a page's PTE gives, as vm_getpte and the tests of it see it. *)
PageOf(a) == a \div PGSIZE
AccessAt(a) == IF PageOf(a) < NPages THEN pte[PageOf(a)] ELSE "none"
MayRead(a) == AccessAt(a) \in {"read", "write"}
MayWrite(a) == AccessAt(a) = "write"

Offset == src % PGSIZE
CopyLen == IF n < PGSIZE - Offset THEN n ELSE PGSIZE - Offset

Return(v) == pc' = "done" /\ ret' = v
(* Mutant: the addresses stay where they are. *)
AdvanceStuck == /\ n' = Wrapped(n - PGSIZE)
                /\ UNCHANGED <<src, dst>>

Advance == /\ n' = Wrapped(n - PGSIZE)
           /\ src' = Wrapped(src + PGSIZE)
           /\ dst' = Wrapped(dst + PGSIZE)

-----------------------------------------------------------------------------
(* Mutant: PTE_U is not asked for. *)
CopyinKernelToo ==
  /\ pc = "loop" /\ op = "copyin" /\ n > 0
  /\ IF AccessAt(src) = "none"
     THEN Return(-1) /\ UNCHANGED <<kern, n, src, dst>>
     ELSE /\ kern' = [k \in Kernel |->
                        IF k \in dst .. dst + CopyLen - 1 THEN user[src + k - dst] ELSE kern[k]]
          /\ Advance /\ UNCHANGED <<pc, ret>>
  /\ UNCHANGED <<call, user>>

CopyinPage ==
  /\ pc = "loop" /\ op = "copyin" /\ n > 0
  /\ IF ~ MayRead(src)
     THEN Return(-1) /\ UNCHANGED <<kern, n, src, dst>>
     ELSE /\ kern' = [k \in Kernel |->
                        IF k \in dst .. dst + CopyLen - 1 THEN user[src + k - dst] ELSE kern[k]]
          /\ Advance /\ UNCHANGED <<pc, ret>>
  /\ UNCHANGED <<call, user>>

(* Mutant: PTE_W is not asked for. *)
CopyoutReadable ==
  /\ pc = "loop" /\ op = "copyout" /\ n > 0
  /\ IF ~ MayRead(src)
     THEN Return(-1) /\ UNCHANGED <<user, n, src, dst>>
     ELSE /\ user' = [a \in Addr |->
                        IF a \in src .. src + CopyLen - 1 THEN kern[dst + a - src] ELSE user[a]]
          /\ Advance /\ UNCHANGED <<pc, ret>>
  /\ UNCHANGED <<call, kern>>

CopyoutPage ==
  /\ pc = "loop" /\ op = "copyout" /\ n > 0
  /\ IF ~ MayWrite(src)
     THEN Return(-1) /\ UNCHANGED <<user, n, src, dst>>
     ELSE /\ user' = [a \in Addr |->
                        IF a \in src .. src + CopyLen - 1 THEN kern[dst + a - src] ELSE user[a]]
          /\ Advance /\ UNCHANGED <<pc, ret>>
  /\ UNCHANGED <<call, kern>>

CopyDone ==
  /\ pc = "loop" /\ op # "copyin_str" /\ n = 0
  /\ Return(0)
  /\ UNCHANGED <<call, user, kern, n, src, dst>>

-----------------------------------------------------------------------------
(* Mutant: `count <= max_len'. *)
StrBytePast ==
  /\ pc = "loop" /\ op = "copyin_str" /\ n <= len
  /\ IF ~ MayRead(src)
     THEN Return(-1) /\ UNCHANGED <<kern, n, src, dst>>
     ELSE /\ kern' = [kern EXCEPT ![dst] = user[src]]
          /\ IF user[src] = 0
             THEN Return(n + 1) /\ UNCHANGED <<n, src, dst>>
             ELSE /\ n' = n + 1 /\ src' = Wrapped(src + 1) /\ dst' = dst + 1
                  /\ UNCHANGED <<pc, ret>>
  /\ UNCHANGED <<call, user>>

StrByte ==
  /\ pc = "loop" /\ op = "copyin_str" /\ n < len
  /\ IF ~ MayRead(src)
     THEN Return(-1) /\ UNCHANGED <<kern, n, src, dst>>
     ELSE /\ kern' = [kern EXCEPT ![dst] = user[src]]
          /\ IF user[src] = 0
             THEN Return(n + 1) /\ UNCHANGED <<n, src, dst>>
             ELSE /\ n' = n + 1 /\ src' = Wrapped(src + 1) /\ dst' = dst + 1
                  /\ UNCHANGED <<pc, ret>>
  /\ UNCHANGED <<call, user>>

StrDone ==
  /\ pc = "loop" /\ op = "copyin_str" /\ n = len
  /\ Return(-1)
  /\ UNCHANGED <<call, user, kern, n, src, dst>>

Next == CopyinPage \/ CopyoutPage \/ CopyDone \/ StrByte \/ StrDone

Spec == Init /\ [][Next]_vars
FairSpec == Spec /\ WF_vars(Next)

-----------------------------------------------------------------------------
TypeOK == /\ pte \in [0 .. NPages - 1 -> Access]
          /\ user \in [Addr -> Int] /\ kern \in [Kernel -> Int]
          /\ {src, dst, n} \subseteq 0 .. Wrap - 1
          /\ pc \in {"loop", "done"} /\ ret \in Int

Block == start .. start + len - 1
FromUser(k) == kern[k] >= 0        \* this byte of the kernel has come from user memory
FromKernel(a) == user[a] < 0
Readable == \A a \in Block : MayRead(a)
Writable == \A a \in Block : MayWrite(a)

(* The requests that uvm_copyin and uvm_copyout get right. *)
WholePages == start % PGSIZE = 0 /\ len % PGSIZE = 0

(* Of whole pages, copyin answers 0 exactly when the user may read the block, and
   then the buffer holds it, byte for byte, and nothing behind it has changed. *)
CopyinExact ==
  pc = "done" /\ op = "copyin" /\ WholePages =>
    /\ ret = 0 <=> Readable
    /\ ret = 0 => \A k \in Kernel : IF k < len THEN kern[k] = user[start + k] ELSE ~ FromUser(k)

(* Of whole pages, copyout answers 0 exactly when the user may write the block, and
   then the block holds the buffer and no other byte of the user has changed. *)
CopyoutExact ==
  pc = "done" /\ op = "copyout" /\ WholePages =>
    /\ ret = 0 <=> Writable
    /\ ret = 0 => \A a \in Addr : IF a \in Block THEN user[a] = kern[a - start]
                                                 ELSE ~ FromKernel(a)

(* Whatever a call answers, and however it was asked, no byte of the user that he
   may not read has come into the kernel and none that he may not write has
   changed. *)
Guarded == /\ TypeOK
           /\ \A a \in Addr : FromKernel(a) => MayWrite(a)
           /\ \A k \in Kernel : kern[k] > 0 => MayRead(kern[k] - 1)

(* copyin_str answers the length of the string with its NUL exactly when there is
   one within max_len and the user may read up to it; otherwise -1; and it never
   writes behind the end of the buffer. *)
StrExact ==
  /\ op = "copyin_str" => \A k \in Kernel : FromUser(k) => k < len
  /\ pc = "done" /\ op = "copyin_str" =>
       LET Ends(i) == /\ i < len /\ \A j \in 0 .. i : MayRead(start + j)
                      /\ user[start + i] = 0
       IN  IF ret = -1 THEN \A i \in Kernel : ~ Ends(i)
           ELSE Ends(ret - 1) /\ \A k \in 0 .. ret - 1 : kern[k] = user[start + k]

(* Every call returns. *)
Returns == <>(pc = "done")

(* README.md:150, test 1: the kernel receives the array that the user hands over;
   its five ints are less than a page, in pages that the user may read. *)
SmallCopyReceived == pc = "done" /\ op = "copyin" /\ Readable => ret = 0
=============================================================================
