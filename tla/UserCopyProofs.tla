--------------------------- MODULE UserCopyProofs ---------------------------
(* The user copies respect the access rights of every page table, and the copies
   of whole pages and of strings are exact, for every page size, every number of
   pages, every address and every length. *)
EXTENDS UserCopy, TLAPS

-----------------------------------------------------------------------------
(* Division *)

LEMMA DivMod ==
  ASSUME NEW P \in Nat \ {0}, NEW a \in Nat
  PROVE  a \div P \in Nat /\ (a % P) \in 0 .. P - 1 /\ a = P * (a \div P) + (a % P)
  OBVIOUS

LEMMA DivUnique ==
  ASSUME NEW P \in Nat \ {0}, NEW q \in Int, NEW r \in 0 .. P - 1
  PROVE  (P * q + r) \div P = q /\ (P * q + r) % P = r
  OBVIOUS

LEMMA DivLess ==
  ASSUME NEW P \in Nat \ {0}, NEW a \in Nat, NEW N \in Nat
  PROVE  a \div P < N <=> a < N * P
  OBVIOUS

LEMMA SamePage ==
  ASSUME NEW P \in Nat \ {0}, NEW a \in Nat, NEW b \in Nat, a - (a % P) <= b, b < a - (a % P) + P
  PROVE  b \div P = a \div P
  OBVIOUS

LEMMA NextPage ==
  ASSUME NEW P \in Nat \ {0}, NEW a \in Nat
  PROVE  (a + P) % P = a % P
<1> DEFINE q == a \div P
           r == a % P
<1>1. q \in Nat /\ r \in 0 .. P - 1 /\ a = P * q + r
  BY DivMod
<1> HIDE DEF q, r
<1>2. a + P = P * (q + 1) + r
  BY <1>1
<1>3. (P * (q + 1) + r) % P = r
  BY <1>1, DivUnique
<1>4. (a + P) % P = r
  BY <1>2, <1>3
<1> QED
  BY <1>4 DEF r

LEMMA SmallMod ==
  ASSUME NEW P \in Nat \ {0}, NEW a \in Nat, a < P
  PROVE  a % P = a
  OBVIOUS

LEMMA MultipleDifference ==
  ASSUME NEW P \in Nat \ {0}, NEW a \in Nat, NEW b \in Nat, a % P = 0, b % P = 0, a >= b
  PROVE  (a - b) % P = 0 /\ (a > b => a - b >= P)
<1> DEFINE p == a \div P
           q == b \div P
<1>1. p \in Nat /\ q \in Nat /\ a = P * p /\ b = P * q
  BY DivMod
<1> HIDE DEF p, q
<1>2. a - b = P * (p - q) + 0
  BY <1>1
<1>3. (a - b) % P = 0
  BY <1>1, <1>2, DivUnique
<1>4. a > b => a - b >= P
  BY <1>1, <1>3, SmallMod
<1> QED
  BY <1>3, <1>4

LEMMA MultipleSum ==
  ASSUME NEW P \in Nat \ {0}, NEW a \in Nat, NEW b \in Nat, a % P = 0, b % P = 0
  PROVE  (a + b) % P = 0
<1> DEFINE p == a \div P
           q == b \div P
<1>1. p \in Nat /\ q \in Nat /\ a = P * p /\ b = P * q
  BY DivMod
<1> HIDE DEF p, q
<1>2. a + b = P * (p + q) + 0
  BY <1>1
<1> QED
  BY <1>1, <1>2, DivUnique

-----------------------------------------------------------------------------
(* What a call knows of its addresses. *)
Call == /\ start \in Addr /\ len \in 0 .. Wrap - 1
        /\ op \in {"copyin", "copyout", "copyin_str"}
        /\ src = start + dst /\ src < (NPages + 1) * PGSIZE

(* The bytes of the user and of the kernel that the call has not touched say
   where they are from; the others respect the access rights. *)
Own(a) == user[a] = 0 \/ user[a] = a + 1
Rights == /\ op # "copyout" => /\ \A a \in Addr : Own(a)
                               /\ \A k \in Kernel : \/ kern[k] = - k - 1 \/ kern[k] = 0
                                                    \/ kern[k] > 0 /\ MayRead(kern[k] - 1)
          /\ op = "copyout" => /\ \A k \in Kernel : kern[k] = - k - 1
                               /\ \A a \in Addr : Own(a) \/ (user[a] < 0 /\ MayWrite(a))

(* A copy of whole pages has copied dst bytes. *)
Copyin == pc = "loop" /\ op = "copyin" /\ WholePages =>
            /\ dst % PGSIZE = 0 /\ dst <= len /\ n = len - dst
            /\ \A k \in Kernel : kern[k] = IF k < dst THEN user[start + k] ELSE - k - 1
            /\ \A a \in start .. src - 1 : MayRead(a)
Copyout == pc = "loop" /\ op = "copyout" /\ WholePages =>
             /\ dst % PGSIZE = 0 /\ dst <= len /\ n = len - dst
             /\ \A a \in Addr : IF a \in start .. src - 1 THEN user[a] = kern[a - start] ELSE Own(a)
             /\ \A a \in start .. src - 1 : MayWrite(a)

(* A string copy has copied n bytes, none of them a NUL. *)
Str == pc = "loop" /\ op = "copyin_str" =>
         /\ n = dst /\ n <= len
         /\ \A k \in Kernel : IF k < n THEN /\ kern[k] = user[start + k] /\ user[start + k] # 0
                                            /\ MayRead(start + k)
                                       ELSE kern[k] = - k - 1

IInv == /\ TypeOK /\ Call /\ Rights
        /\ Copyin /\ Copyout /\ Str
        /\ CopyinExact /\ CopyoutExact /\ StrExact

-----------------------------------------------------------------------------
LEMMA Sizes == /\ PGSIZE \in Nat \ {0} /\ NPages \in Nat \ {0} /\ Wrap \in Nat
               /\ NPages * PGSIZE \in Nat \ {0}
               /\ (NPages + 1) * PGSIZE = NPages * PGSIZE + PGSIZE
               /\ NPages * PGSIZE + PGSIZE < Wrap
               /\ Addr = 0 .. NPages * PGSIZE - 1
               /\ Kernel = 0 .. NPages * PGSIZE + PGSIZE - 1
<1>1. PGSIZE \in Nat \ {0} /\ NPages \in Nat \ {0} /\ Wrap \in Nat
  BY SizeAssumption
<1>2. NPages * PGSIZE \in Nat \ {0}
  BY <1>1
<1>3. (NPages + 1) * PGSIZE = NPages * PGSIZE + PGSIZE
  BY <1>1
<1>4. NPages * PGSIZE + PGSIZE < Wrap
  BY <1>1, <1>3, SizeAssumption
<1> QED
  BY <1>1, <1>2, <1>3, <1>4 DEF Addr, Kernel

(* A page of the user memory ends below where addresses wrap, and what is copied
   to has moved no further than what is copied from. *)
LEMMA Room ==
  ASSUME NEW P \in Nat \ {0}, NEW T \in Nat, NEW W \in Nat, T < W,
         NEW s \in Nat, NEW d \in Nat, NEW f \in Nat, s = f + d, s + P < T
  PROVE  s + P < W /\ d + P <= s + P
OBVIOUS

(* The bytes of one page have the same access. *)
LEMMA PageAccess ==
  ASSUME NEW a \in Nat, AccessAt(a) # "none", NEW b \in Nat,
         a - (a % PGSIZE) <= b, b < a - (a % PGSIZE) + PGSIZE
  PROVE  b \in Addr /\ AccessAt(b) = AccessAt(a)
<1>1. a \div PGSIZE < NPages
  BY DEF AccessAt, PageOf
<1>2. b \div PGSIZE = a \div PGSIZE
  BY Sizes, SamePage
<1>3. b < NPages * PGSIZE
  BY <1>1, <1>2, Sizes, DivLess
<1> QED
  BY <1>2, <1>3, Sizes DEF AccessAt, PageOf

(* A pass of a copy stays in the page of src. *)
LEMMA Pass ==
  ASSUME TypeOK, Call, AccessAt(src) # "none"
  PROVE  /\ CopyLen \in 0 .. PGSIZE /\ src + PGSIZE < (NPages + 1) * PGSIZE
         /\ dst + CopyLen <= NPages * PGSIZE
         /\ Wrapped(src + PGSIZE) = src + PGSIZE /\ Wrapped(dst + PGSIZE) = dst + PGSIZE
         /\ \A b \in src .. src + CopyLen - 1 : b \in Addr /\ AccessAt(b) = AccessAt(src)
<1>1. /\ src \in Nat /\ dst \in Nat /\ n \in Nat /\ start \in Nat /\ src = start + dst
  BY Sizes DEF TypeOK, Call
<1>2. Offset \in 0 .. PGSIZE - 1 /\ Offset <= src
  <2>1. /\ src \div PGSIZE \in Nat /\ Offset \in 0 .. PGSIZE - 1
        /\ src = PGSIZE * (src \div PGSIZE) + Offset
    BY <1>1, Sizes, DivMod DEF Offset
  <2>2. PGSIZE * (src \div PGSIZE) \in Nat
    BY <2>1, Sizes
  <2> QED
    BY <1>1, <2>1, <2>2
<1>3. CopyLen \in 0 .. PGSIZE - Offset
  BY <1>1, <1>2, Sizes DEF CopyLen
<1>4. src \in Addr
  BY <1>1, <1>2, PageAccess, Sizes DEF Offset
<1>5. src - Offset + PGSIZE - 1 \in Addr
  <2> DEFINE b == src - Offset + PGSIZE - 1
  <2>1. b \in Nat /\ src - Offset <= b /\ b < src - Offset + PGSIZE
    BY <1>1, <1>2, Sizes
  <2> HIDE DEF b
  <2>2. b \in Addr
    BY <1>1, <2>1, PageAccess DEF Offset
  <2> QED
    BY <2>2 DEF b
<1>6. ASSUME NEW b \in src .. src + CopyLen - 1 PROVE b \in Addr /\ AccessAt(b) = AccessAt(src)
  <2>1. b \in Nat /\ src - Offset <= b /\ b < src - Offset + PGSIZE
    BY <1>1, <1>2, <1>3, Sizes
  <2> QED
    BY <1>1, <2>1, PageAccess DEF Offset
<1>7. src + PGSIZE < Wrap /\ dst + PGSIZE < Wrap
  BY <1>1, <1>4, Sizes
<1>8. Wrapped(src + PGSIZE) = src + PGSIZE /\ Wrapped(dst + PGSIZE) = dst + PGSIZE
  <2>1. ASSUME NEW x \in Nat, x < Wrap PROVE Wrapped(x) = x
    BY <2>1, Sizes, SmallMod DEF Wrapped
  <2>2. src + PGSIZE \in Nat /\ dst + PGSIZE \in Nat
    BY <1>1, Sizes
  <2> QED
    BY <1>7, <2>1, <2>2
<1> QED
  BY <1>1, <1>2, <1>3, <1>4, <1>5, <1>6, <1>8, Sizes

LEMMA InitInv == Init => IInv
<1> SUFFICES ASSUME Init PROVE IInv
  OBVIOUS
<1> USE DEF Init
<1>1. TypeOK /\ Call
  BY Sizes, SizeAssumption DEF TypeOK, Call
<1>2. \A a \in Addr : Own(a)
  BY DEF Own
<1>3. Rights
  BY <1>2 DEF Rights
<1>4. start \in Nat /\ len \in Nat /\ 0 % PGSIZE = 0 /\ start .. src - 1 = {}
  BY <1>1, Sizes, SmallMod DEF Call
<1>5. \A k \in Kernel : ~ (k < 0)
  BY Sizes
<1>6. Copyin /\ Copyout /\ Str
  BY <1>2, <1>4, <1>5 DEF Copyin, Copyout, Str
<1>7. \A k \in Kernel : ~ FromUser(k)
  BY Sizes DEF FromUser
<1> QED
  BY <1>1, <1>3, <1>6, <1>7 DEF IInv, CopyinExact, CopyoutExact, StrExact

-----------------------------------------------------------------------------
(* What every step keeps: the table and the arguments. *)
LEMMA SameTable ==
  ASSUME UNCHANGED call
  PROVE  \A a : /\ AccessAt(a)' = AccessAt(a) /\ MayRead(a)' = MayRead(a)
                /\ MayWrite(a)' = MayWrite(a)
BY DEF call, AccessAt, MayRead, MayWrite, PageOf

(* A copy of whole pages copies a page at a time, and stops at the end. *)
LEMMA WholePass ==
  ASSUME TypeOK, Call, n > 0, WholePages, dst % PGSIZE = 0, dst <= len, n = len - dst
  PROVE  /\ Offset = 0 /\ CopyLen = PGSIZE /\ src \in Block
         /\ Wrapped(n - PGSIZE) = n - PGSIZE /\ dst + PGSIZE <= len
         /\ (dst + PGSIZE) % PGSIZE = 0
<1>1. /\ src \in Nat /\ dst \in Nat /\ n \in Nat /\ start \in Nat /\ len \in Nat
      /\ src = start + dst /\ n < Wrap
  BY Sizes DEF TypeOK, Call
<1>2. PGSIZE \in Nat \ {0} /\ start % PGSIZE = 0 /\ len % PGSIZE = 0
  BY Sizes DEF WholePages
<1>3. src % PGSIZE = 0 /\ n >= PGSIZE
  <2>1. (start + dst) % PGSIZE = 0
    BY <1>1, <1>2, MultipleSum
  <2>2. len > dst /\ len >= dst
    BY <1>1
  <2>3. len - dst >= PGSIZE
    BY <1>1, <1>2, <2>2, MultipleDifference
  <2> QED
    BY <1>1, <2>1, <2>3
<1>4. Wrapped(n - PGSIZE) = n - PGSIZE
  <2>1. n - PGSIZE \in Nat /\ n - PGSIZE < Wrap
    BY <1>1, <1>3, Sizes
  <2> QED
    BY <2>1, Sizes, SmallMod DEF Wrapped
<1>5. Offset = 0 /\ CopyLen = PGSIZE
  BY <1>1, <1>3, Sizes DEF Offset, CopyLen
<1>6. (dst + PGSIZE) % PGSIZE = 0
  BY <1>1, Sizes, NextPage
<1>7. src \in Block /\ dst + PGSIZE <= len
  BY <1>1, <1>3, Sizes DEF Block
<1> QED
  BY <1>4, <1>5, <1>6, <1>7

(* A pass of uvm_copyin. *)
LEMMA CopyinPageInv ==
  ASSUME IInv, CopyinPage
  PROVE  IInv'
<1>1. /\ TypeOK /\ Call /\ Rights /\ pc = "loop" /\ op = "copyin" /\ n > 0 /\ op' = op
      /\ user' = user /\ UNCHANGED call
  BY DEF IInv, CopyinPage, call
<1>2. CASE ~ MayRead(src)
  <2>1. /\ UNCHANGED <<kern, n, src, dst>> /\ pc' = "done" /\ ret' = -1
    BY <1>2 DEF CopyinPage, Return
  <2>2. TypeOK' /\ Call'
    BY <1>1, <2>1 DEF TypeOK, Call, call
  <2>3. Rights'
    BY <1>1, <2>1, SameTable DEF Rights, Own
  <2>4. CopyinExact'
    <3>1. WholePages => ~ Readable
      BY <1>1, <1>2, WholePass DEF IInv, Copyin, Readable
    <3>2. (Readable' <=> Readable) /\ (WholePages' <=> WholePages)
      BY <1>1, SameTable DEF WholePages, Readable, Block, call
    <3>3. ~ (ret' = 0)
      BY <2>1
    <3>4. WholePages' => ~ Readable'
      BY <3>1, <3>2
    <3> QED
      BY <3>3, <3>4 DEF CopyinExact
  <2> QED
    BY <1>1, <2>1, <2>2, <2>3, <2>4 DEF IInv, Copyin, Copyout, Str, CopyoutExact, StrExact
<1>3. CASE MayRead(src)
  <2> DEFINE c == CopyLen
  <2>0. AccessAt(src) # "none"
    BY <1>3 DEF MayRead
  <2>1. /\ src \in Nat /\ dst \in Nat /\ n \in Nat /\ start \in Nat /\ len \in Nat
        /\ src = start + dst
    BY <1>1, Sizes DEF TypeOK, Call
  <2>2. /\ c \in 0 .. PGSIZE /\ src + PGSIZE < (NPages + 1) * PGSIZE
        /\ dst + c <= NPages * PGSIZE
        /\ src' = src + PGSIZE /\ dst' = dst + PGSIZE /\ n' = Wrapped(n - PGSIZE)
        /\ \A b \in src .. src + c - 1 : b \in Addr /\ MayRead(b)
        /\ kern' = [k \in Kernel |->
                      IF k \in dst .. dst + c - 1 THEN user[src + k - dst] ELSE kern[k]]
        /\ pc' = pc /\ ret' = ret
    BY <1>1, <1>3, <2>0, Pass DEF CopyinPage, Advance, MayRead
  <2> HIDE DEF c
  <2>3. ASSUME NEW k \in Kernel, k \in dst .. dst + c - 1
        PROVE  /\ src + k - dst \in Addr /\ MayRead(src + k - dst)
               /\ src + k - dst = start + k
    <3>1. src + k - dst \in src .. src + c - 1
      BY <2>1, <2>2, <2>3
    <3>2. src + k - dst \in Addr /\ MayRead(src + k - dst)
      BY <2>2, <3>1
    <3>3. src + k - dst = start + k
      BY <2>1, <2>3, Sizes
    <3> QED
      BY <3>2, <3>3
  <2>4. TypeOK'
    <3>1. n' \in 0 .. Wrap - 1
      BY <2>1, <2>2, Sizes DEF Wrapped
    <3>2. src' \in 0 .. Wrap - 1 /\ dst' \in 0 .. Wrap - 1
      <4>1. src + PGSIZE < Wrap /\ dst + PGSIZE <= src + PGSIZE
        BY <2>1, <2>2, Sizes, Room
      <4>2. src + PGSIZE \in Nat /\ dst + PGSIZE \in Nat /\ Wrap \in Nat
        BY <2>1, Sizes
      <4> QED
        BY <2>2, <4>1, <4>2
    <3>3. kern' \in [Kernel -> Int]
      BY <1>1, <2>2, <2>3 DEF TypeOK
    <3> QED
      BY <1>1, <2>2, <3>1, <3>2, <3>3 DEF TypeOK, call
  <2>5. Call'
    BY <1>1, <2>1, <2>2, Sizes DEF Call, call
  <2>6. Rights'
    <3>1. ASSUME NEW k \in Kernel
          PROVE  kern'[k] = - k - 1 \/ kern'[k] = 0 \/ (kern'[k] > 0 /\ MayRead(kern'[k] - 1))
      <4>1. CASE k \in dst .. dst + c - 1
        <5>1. PICK a \in Addr : a = src + k - dst /\ MayRead(a)
          BY <2>3, <4>1
        <5>2. kern'[k] = user[a] /\ (user[a] = 0 \/ user[a] = a + 1)
          BY <1>1, <2>2, <4>1, <5>1 DEF Rights, Own
        <5>3. a + 1 > 0 /\ (a + 1) - 1 = a
          BY <5>1, Sizes
        <5> QED
          BY <5>1, <5>2, <5>3
      <4>2. CASE k \notin dst .. dst + c - 1
        BY <1>1, <2>2, <4>2 DEF Rights
      <4> QED
        BY <4>1, <4>2
    <3> QED
      BY <1>1, <3>1, SameTable DEF Rights, Own
  <2>7. Copyin'
    <3>1. SUFFICES ASSUME WholePages PROVE Copyin'
      BY <1>1 DEF Copyin, WholePages, call
    <3>2. /\ dst % PGSIZE = 0 /\ dst <= len /\ n = len - dst
          /\ \A k \in Kernel : kern[k] = IF k < dst THEN user[start + k] ELSE - k - 1
          /\ \A a \in start .. src - 1 : MayRead(a)
      BY <1>1, <3>1 DEF IInv, Copyin
    <3>3. /\ c = PGSIZE /\ Wrapped(n - PGSIZE) = n - PGSIZE /\ dst + PGSIZE <= len
          /\ (dst + PGSIZE) % PGSIZE = 0
      BY <1>1, <3>1, <3>2, WholePass DEF c
    <3>4. dst' % PGSIZE = 0 /\ dst' <= len /\ n' = len - dst'
      BY <2>1, <2>2, <3>2, <3>3, Sizes
    <3>5. ASSUME NEW k \in Kernel
          PROVE  kern'[k] = IF k < dst' THEN user[start + k] ELSE - k - 1
      <4>1. k \in Nat
        BY Sizes
      <4>2. CASE k \in dst .. dst + c - 1
        BY <2>1, <2>2, <2>3, <3>3, <4>1, <4>2
      <4>3. CASE k \notin dst .. dst + c - 1
        BY <2>1, <2>2, <3>2, <3>3, <4>1, <4>3, Sizes
      <4> QED
        BY <4>2, <4>3
    <3>6. ASSUME NEW a \in start .. src' - 1 PROVE MayRead(a)
      <4>1. a \in start .. src - 1 \/ a \in src .. src + c - 1
        BY <2>1, <2>2, <3>3, <3>6
      <4> QED
        BY <2>2, <3>2, <4>1
    <3> QED
      BY <1>1, <3>4, <3>5, <3>6, SameTable DEF Copyin, call
  <2> QED
    BY <1>1, <2>2, <2>4, <2>5, <2>6, <2>7 DEF IInv, Copyout, Str, CopyinExact, CopyoutExact, StrExact
<1> QED
  BY <1>2, <1>3

(* A pass of uvm_copyout. *)
LEMMA CopyoutPageInv ==
  ASSUME IInv, CopyoutPage
  PROVE  IInv'
<1>1. /\ TypeOK /\ Call /\ Rights /\ pc = "loop" /\ op = "copyout" /\ n > 0 /\ op' = op
      /\ kern' = kern /\ UNCHANGED call
  BY DEF IInv, CopyoutPage, call
<1>2. CASE ~ MayWrite(src)
  <2>1. /\ UNCHANGED <<user, n, src, dst>> /\ pc' = "done" /\ ret' = -1
    BY <1>2 DEF CopyoutPage, Return
  <2>2. TypeOK' /\ Call'
    BY <1>1, <2>1 DEF TypeOK, Call, call
  <2>3. Rights'
    BY <1>1, <2>1, SameTable DEF Rights, Own
  <2>4. CopyoutExact'
    <3>1. WholePages => ~ Writable
      BY <1>1, <1>2, WholePass DEF IInv, Copyout, Writable
    <3>2. (Writable' <=> Writable) /\ (WholePages' <=> WholePages)
      BY <1>1, SameTable DEF WholePages, Writable, Block, call
    <3>3. ~ (ret' = 0)
      BY <2>1
    <3>4. WholePages' => ~ Writable'
      BY <3>1, <3>2
    <3> QED
      BY <3>3, <3>4 DEF CopyoutExact
  <2> QED
    BY <1>1, <2>1, <2>2, <2>3, <2>4 DEF IInv, Copyin, Copyout, Str, CopyinExact, StrExact
<1>3. CASE MayWrite(src)
  <2> DEFINE c == CopyLen
  <2>0. AccessAt(src) # "none"
    BY <1>3 DEF MayWrite
  <2>1. /\ src \in Nat /\ dst \in Nat /\ n \in Nat /\ start \in Nat /\ len \in Nat
        /\ src = start + dst
    BY <1>1, Sizes DEF TypeOK, Call
  <2>2. /\ c \in 0 .. PGSIZE /\ src + PGSIZE < (NPages + 1) * PGSIZE
        /\ dst + c <= NPages * PGSIZE
        /\ src' = src + PGSIZE /\ dst' = dst + PGSIZE /\ n' = Wrapped(n - PGSIZE)
        /\ \A b \in src .. src + c - 1 : b \in Addr /\ MayWrite(b)
        /\ user' = [a \in Addr |->
                      IF a \in src .. src + c - 1 THEN kern[dst + a - src] ELSE user[a]]
        /\ pc' = pc /\ ret' = ret
    BY <1>1, <1>3, <2>0, Pass DEF CopyoutPage, Advance, MayWrite
  <2> HIDE DEF c
  <2>3. ASSUME NEW a \in Addr, a \in src .. src + c - 1
        PROVE  /\ dst + a - src \in Kernel /\ dst + a - src = a - start
    BY <2>1, <2>2, <2>3, Sizes, SMTT(30)
  <2>4. TypeOK'
    <3>1. n' \in 0 .. Wrap - 1
      BY <2>1, <2>2, Sizes DEF Wrapped
    <3>2. src' \in 0 .. Wrap - 1 /\ dst' \in 0 .. Wrap - 1
      <4>1. src + PGSIZE < Wrap /\ dst + PGSIZE <= src + PGSIZE
        BY <2>1, <2>2, Sizes
      <4>2. src + PGSIZE \in Nat /\ dst + PGSIZE \in Nat /\ Wrap \in Nat
        BY <2>1, Sizes
      <4> QED
        BY <2>2, <4>1, <4>2
    <3>3. user' \in [Addr -> Int]
      BY <1>1, <2>2, <2>3 DEF TypeOK
    <3> QED
      BY <1>1, <2>2, <3>1, <3>2, <3>3 DEF TypeOK, call
  <2>5. Call'
    BY <1>1, <2>1, <2>2, Sizes DEF Call, call
  <2>6. Rights'
    <3>1. ASSUME NEW a \in Addr
          PROVE  (user'[a] = 0 \/ user'[a] = a + 1) \/ (user'[a] < 0 /\ MayWrite(a))
      <4>1. CASE a \in src .. src + c - 1
        <5>1. PICK k \in Kernel : k = dst + a - src
          BY <2>3, <4>1
        <5>2. user'[a] = - k - 1 /\ MayWrite(a)
          BY <1>1, <2>2, <4>1, <5>1 DEF Rights
        <5> QED
          BY <5>2, <5>1, Sizes
      <4>2. CASE a \notin src .. src + c - 1
        BY <1>1, <2>2, <4>2 DEF Rights, Own
      <4> QED
        BY <4>1, <4>2
    <3> QED
      BY <1>1, <3>1, SameTable DEF Rights, Own
  <2>7. Copyout'
    <3>1. SUFFICES ASSUME WholePages PROVE Copyout'
      BY <1>1 DEF Copyout, WholePages, call
    <3>2. /\ dst % PGSIZE = 0 /\ dst <= len /\ n = len - dst
          /\ \A a \in Addr : IF a \in start .. src - 1 THEN user[a] = kern[a - start] ELSE Own(a)
          /\ \A a \in start .. src - 1 : MayWrite(a)
      BY <1>1, <3>1 DEF IInv, Copyout
    <3>3. /\ c = PGSIZE /\ Wrapped(n - PGSIZE) = n - PGSIZE /\ dst + PGSIZE <= len
          /\ (dst + PGSIZE) % PGSIZE = 0
      BY <1>1, <3>1, <3>2, WholePass DEF c
    <3>4. dst' % PGSIZE = 0 /\ dst' <= len /\ n' = len - dst'
      BY <2>1, <2>2, <3>2, <3>3, Sizes
    <3>5. ASSUME NEW a \in Addr
          PROVE  IF a \in start .. src' - 1 THEN user'[a] = kern[a - start]
                                            ELSE user'[a] = 0 \/ user'[a] = a + 1
      <4>1. a \in Nat
        BY Sizes
      <4>2. CASE a \in src .. src + c - 1
        <5>1. user'[a] = kern[a - start]
          BY <2>2, <2>3, <4>2
        <5>2. a \in start .. src' - 1
          BY <2>1, <2>2, <3>3, <4>1, <4>2
        <5> QED
          BY <5>1, <5>2
      <4>3. CASE a \notin src .. src + c - 1
        <5>1. user'[a] = user[a]
          BY <2>2, <4>3
        <5>2. a \in start .. src' - 1 <=> a \in start .. src - 1
          BY <2>1, <2>2, <3>3, <4>1, <4>3, Sizes
        <5> QED
          BY <3>2, <5>1, <5>2 DEF Own
      <4> QED
        BY <4>2, <4>3
    <3>6. ASSUME NEW a \in start .. src' - 1 PROVE MayWrite(a)
      <4>1. a \in start .. src - 1 \/ a \in src .. src + c - 1
        BY <2>1, <2>2, <3>3, <3>6
      <4> QED
        BY <2>2, <3>2, <4>1
    <3> QED
      BY <1>1, <3>4, <3>5, <3>6, SameTable DEF Copyout, Own, call
  <2> QED
    BY <1>1, <2>2, <2>4, <2>5, <2>6, <2>7 DEF IInv, Copyin, Str, CopyinExact, CopyoutExact, StrExact
<1> QED
  BY <1>2, <1>3

(* The end of a copy. *)
LEMMA CopyDoneInv ==
  ASSUME IInv, CopyDone
  PROVE  IInv'
<1>1. /\ TypeOK /\ Call /\ Rights /\ pc = "loop" /\ op # "copyin_str" /\ n = 0 /\ op' = op
      /\ UNCHANGED <<call, user, kern, n, src, dst>> /\ pc' = "done" /\ ret' = 0
  BY DEF IInv, CopyDone, Return, call
<1>2. TypeOK' /\ Call'
  BY <1>1 DEF TypeOK, Call, call
<1>3. Rights'
  BY <1>1, SameTable DEF Rights, Own
<1>4. start \in Nat /\ len \in Nat /\ src \in Nat /\ dst \in Nat /\ src = start + dst
  BY <1>1, Sizes DEF TypeOK, Call
<1>5. (Readable' <=> Readable) /\ (Writable' <=> Writable) /\ (WholePages' <=> WholePages)
      /\ Block' = Block
  BY <1>1, SameTable DEF WholePages, Readable, Writable, Block, call
<1>6. CopyinExact'
  <2>1. SUFFICES ASSUME op = "copyin", WholePages PROVE CopyinExact'
    BY <1>1, <1>5 DEF CopyinExact
  <2>2. /\ n = len - dst /\ \A a \in start .. src - 1 : MayRead(a)
        /\ \A k \in Kernel : kern[k] = IF k < dst THEN user[start + k] ELSE - k - 1
    BY <1>1, <2>1 DEF IInv, Copyin
  <2>3. dst = len /\ src - 1 = start + len - 1
    BY <1>1, <1>4, <2>2
  <2>4. Readable
    BY <2>2, <2>3 DEF Readable, Block
  <2>5. ASSUME NEW k \in Kernel
        PROVE  IF k < len THEN kern[k] = user[start + k] ELSE ~ (kern[k] >= 0)
    BY <2>2, <2>3, Sizes
  <2> QED
    BY <1>1, <1>5, <2>4, <2>5 DEF CopyinExact, FromUser, call
<1>7. CopyoutExact'
  <2>1. SUFFICES ASSUME op = "copyout", WholePages PROVE CopyoutExact'
    BY <1>1, <1>5 DEF CopyoutExact
  <2>2. /\ n = len - dst /\ \A a \in start .. src - 1 : MayWrite(a)
        /\ \A a \in Addr : IF a \in start .. src - 1 THEN user[a] = kern[a - start] ELSE Own(a)
    BY <1>1, <2>1 DEF IInv, Copyout
  <2>3. dst = len /\ src - 1 = start + len - 1
    BY <1>1, <1>4, <2>2
  <2>4. Writable
    BY <2>2, <2>3 DEF Writable, Block
  <2>5. ASSUME NEW a \in Addr
        PROVE  IF a \in Block THEN user[a] = kern[a - start] ELSE ~ (user[a] < 0)
    <3>1. a \in Nat /\ start .. src - 1 = Block
      BY <2>3, Sizes DEF Block
    <3>2. Own(a) => ~ (user[a] < 0)
      BY <3>1 DEF Own
    <3> QED
      BY <2>2, <3>1, <3>2
  <2> QED
    BY <1>1, <1>5, <2>4, <2>5 DEF CopyoutExact, FromKernel, call
<1> QED
  BY <1>1, <1>2, <1>3, <1>6, <1>7 DEF IInv, Copyin, Copyout, Str, StrExact

(* One byte of a string. *)
LEMMA StrByteInv ==
  ASSUME IInv, StrByte
  PROVE  IInv'
<1>1. /\ TypeOK /\ Call /\ Rights /\ pc = "loop" /\ op = "copyin_str" /\ n < len /\ op' = op
      /\ user' = user /\ len' = len /\ start' = start /\ UNCHANGED call
  BY DEF IInv, StrByte, call
<1>2. /\ n = dst /\ n <= len
      /\ \A k \in Kernel : IF k < n THEN /\ kern[k] = user[start + k] /\ user[start + k] # 0
                                         /\ MayRead(start + k)
                                    ELSE kern[k] = - k - 1
  BY <1>1 DEF IInv, Str
<1>3. /\ src \in Nat /\ dst \in Nat /\ n \in Nat /\ start \in Nat /\ len \in Nat
      /\ src = start + n /\ len < Wrap
  BY <1>1, <1>2, Sizes DEF TypeOK, Call
<1>4. ASSUME NEW k \in Kernel PROVE ~ (- k - 1 >= 0)
  BY Sizes
<1>5. StrExact => \A k \in Kernel : FromUser(k) => k < len
  BY <1>1 DEF StrExact
<1>6. CASE ~ MayRead(src)
  <2>1. /\ UNCHANGED <<kern, n, src, dst>> /\ pc' = "done" /\ ret' = -1
    BY <1>6 DEF StrByte, Return
  <2>2. TypeOK' /\ Call'
    BY <1>1, <2>1 DEF TypeOK, Call, call
  <2>3. Rights'
    BY <1>1, <2>1, SameTable DEF Rights, Own
  <2>4. \A k \in Kernel : (kern'[k] >= 0) => k < len'
    BY <1>1, <1>5, <2>1 DEF IInv, FromUser
  <2>5. ASSUME NEW i \in Kernel, i < len, \A j \in 0 .. i : MayRead(start + j),
               user[start + i] = 0
        PROVE  FALSE
    <3>1. i \in Nat /\ ~ (i < n)
      BY <1>2, <2>5, Sizes
    <3>2. n \in 0 .. i
      BY <1>3, <3>1
    <3>3. MayRead(start + n)
      BY <2>5, <3>2
    <3> QED
      BY <1>3, <1>6, <3>3
  <2>6. StrExact'
    BY <1>1, <2>1, <2>4, <2>5 DEF StrExact, FromUser, MayRead, AccessAt, PageOf, call
  <2> QED
    BY <1>1, <2>1, <2>2, <2>3, <2>6 DEF IInv, Copyin, Copyout, Str, CopyinExact, CopyoutExact
<1>7. CASE MayRead(src)
  <2>1. src \in Addr /\ src < NPages * PGSIZE
    <3>1. AccessAt(src) # "none"
      BY <1>7 DEF MayRead
    <3>2. src - (src % PGSIZE) <= src /\ src < src - (src % PGSIZE) + PGSIZE
      <4>1. (src % PGSIZE) \in 0 .. PGSIZE - 1
        BY <1>3, Sizes, DivMod
      <4> QED
        BY <1>3, <4>1, Sizes
    <3>3. src \in Addr
      BY <1>3, <3>1, <3>2, PageAccess
    <3> QED
      BY <3>3, Sizes
  <2>2. dst \in Kernel
    BY <1>2, <1>3, <2>1, Sizes
  <2>3. /\ kern' = [kern EXCEPT ![n] = user[src]]
        /\ \A k \in Kernel : kern'[k] = IF k = n THEN user[src] ELSE kern[k]
    BY <1>1, <1>2, <1>7, <2>2 DEF StrByte, TypeOK
  <2>4. kern' \in [Kernel -> Int]
    BY <1>1, <2>1, <2>3 DEF TypeOK
  <2>5. Rights'
    <3>1. ASSUME NEW k \in Kernel
          PROVE  kern'[k] = - k - 1 \/ kern'[k] = 0 \/ (kern'[k] > 0 /\ MayRead(kern'[k] - 1))
      <4>1. CASE k = n
        <5>1. user[src] = 0 \/ user[src] = src + 1
          BY <1>1, <2>1 DEF Rights, Own
        <5>2. src + 1 > 0 /\ (src + 1) - 1 = src
          BY <1>3
        <5> QED
          BY <1>7, <2>3, <4>1, <5>1, <5>2
      <4>2. CASE k # n
        BY <1>1, <2>3, <4>2 DEF Rights
      <4> QED
        BY <4>1, <4>2
    <3> QED
      BY <1>1, <3>1, SameTable DEF Rights, Own
  <2>6. ASSUME NEW k \in Kernel, kern'[k] >= 0 PROVE k < len'
    BY <1>1, <1>2, <1>3, <1>4, <2>3, <2>6, Sizes
  <2>7. \A k \in Kernel : k < n => /\ kern'[k] = user[start + k] /\ user[start + k] # 0
                                   /\ MayRead(start + k)
    BY <1>2, <1>3, <2>3, Sizes
  <2>8. CASE user[src] = 0
    <3>1. UNCHANGED <<n, src, dst>> /\ pc' = "done" /\ ret' = n + 1
      BY <1>7, <2>8 DEF StrByte, Return
    <3>2. TypeOK'
      BY <1>1, <1>3, <2>4, <3>1 DEF TypeOK, call
    <3>3. Call'
      BY <1>1, <3>1 DEF Call, call
    <3>4. ret' - 1 = n /\ ret' # -1
      BY <1>3, <3>1
    <3>5. /\ n < len /\ \A j \in 0 .. n : MayRead(start + j)
          /\ user[start + n] = 0
      <4>1. ASSUME NEW j \in 0 .. n PROVE MayRead(start + j)
        <5>1. j \in Kernel /\ j \in Nat
          BY <1>2, <1>3, <2>2, Sizes
        <5>2. CASE j < n
          BY <2>7, <5>1, <5>2
        <5>3. CASE j = n
          BY <1>3, <1>7, <5>3
        <5> QED
          BY <1>3, <5>1, <5>2, <5>3
      <4> QED
        BY <1>1, <1>3, <2>8, <4>1
    <3>6. ASSUME NEW k \in 0 .. n PROVE kern'[k] = user'[start' + k]
      <4>1. k \in Kernel /\ k \in Nat
        BY <1>2, <1>3, <2>2, Sizes
      <4>2. CASE k < n
        BY <1>1, <2>7, <4>1, <4>2
      <4>3. CASE k = n
        BY <1>1, <1>3, <2>3, <4>1, <4>3
      <4> QED
        BY <1>3, <4>1, <4>2, <4>3
    <3>7. StrExact'
      BY <1>1, <2>6, <3>4, <3>5, <3>6 DEF StrExact, FromUser, MayRead, AccessAt, PageOf, call
    <3> QED
      BY <1>1, <2>5, <3>1, <3>2, <3>3, <3>7 DEF IInv, Copyin, Copyout, Str, CopyinExact, CopyoutExact
  <2>9. CASE user[src] # 0
    <3>1. /\ n' = n + 1 /\ src' = Wrapped(src + 1) /\ dst' = dst + 1 /\ pc' = pc /\ ret' = ret
      BY <1>7, <2>9 DEF StrByte
    <3>2. src + 1 < Wrap /\ src + 1 < (NPages + 1) * PGSIZE /\ src + 1 \in Nat
      BY <1>3, <2>1, Sizes
    <3>3. src' = src + 1
      BY <3>1, <3>2, Sizes, SmallMod DEF Wrapped
    <3>4. src' \in 0 .. Wrap - 1 /\ dst' \in 0 .. Wrap - 1 /\ n' \in 0 .. Wrap - 1
      BY <1>1, <1>2, <1>3, <3>1, <3>2, <3>3, Sizes
    <3>5. TypeOK'
      BY <1>1, <2>4, <3>1, <3>4 DEF TypeOK, call
    <3>6. src' = start' + dst' /\ src' < (NPages + 1) * PGSIZE
      BY <1>1, <1>2, <1>3, <3>1, <3>2, <3>3
    <3>7. Call'
      BY <1>1, <3>6 DEF Call, call
    <3>8. n' = dst' /\ n' <= len
      BY <1>1, <1>2, <1>3, <3>1
    <3>9. ASSUME NEW k \in Kernel
          PROVE  IF k < n' THEN /\ kern'[k] = user[start + k] /\ user[start + k] # 0
                                /\ MayRead(start + k)
                           ELSE kern'[k] = - k - 1
      <4>1. k \in Nat
        BY Sizes
      <4>2. CASE k < n
        BY <1>3, <2>7, <3>1, <4>1, <4>2
      <4>3. CASE k = n
        BY <1>3, <1>7, <2>3, <2>9, <3>1, <4>1, <4>3
      <4>4. CASE k > n
        BY <1>2, <1>3, <2>3, <3>1, <4>1, <4>4
      <4> QED
        BY <1>3, <4>1, <4>2, <4>3, <4>4
    <3>10. Str'
      BY <1>1, <3>8, <3>9, SameTable DEF Str
    <3>11. StrExact'
      BY <1>1, <2>6, <3>1 DEF StrExact, FromUser
    <3> QED
      BY <1>1, <2>5, <3>1, <3>5, <3>7, <3>10, <3>11 DEF IInv, Copyin, Copyout, CopyinExact, CopyoutExact
  <2> QED
    BY <2>8, <2>9
<1> QED
  BY <1>6, <1>7

(* A string without a NUL in its first len bytes. *)
LEMMA StrDoneInv ==
  ASSUME IInv, StrDone
  PROVE  IInv'
<1>1. /\ TypeOK /\ Call /\ Rights /\ pc = "loop" /\ op = "copyin_str" /\ n = len /\ op' = op
      /\ UNCHANGED <<call, user, kern, n, src, dst>> /\ pc' = "done" /\ ret' = -1
  BY DEF IInv, StrDone, Return, call
<1>2. TypeOK' /\ Call'
  BY <1>1 DEF TypeOK, Call, call
<1>3. Rights'
  BY <1>1, SameTable DEF Rights, Own
<1>4. \A k \in Kernel : k < len => user[start + k] # 0
  BY <1>1 DEF IInv, Str
<1>5. \A k \in Kernel : (kern[k] >= 0) => k < len
  BY <1>1 DEF IInv, StrExact, FromUser
<1>6. StrExact'
  BY <1>1, <1>4, <1>5 DEF StrExact, FromUser, call
<1> QED
  BY <1>1, <1>2, <1>3, <1>6 DEF IInv, Copyin, Copyout, Str, CopyinExact, CopyoutExact

LEMMA NextInv == IInv /\ [Next]_vars => IInv'
<1> SUFFICES ASSUME IInv, [Next]_vars PROVE IInv'
  OBVIOUS
<1>1. CASE UNCHANGED vars
  <2>1. UNCHANGED call
    BY <1>1 DEF vars, call
  <2>2. (Readable' <=> Readable) /\ (Writable' <=> Writable) /\ (WholePages' <=> WholePages)
        /\ Block' = Block
    BY <1>1, <2>1, SameTable DEF WholePages, Readable, Writable, Block, vars
  <2>3. TypeOK' /\ Call'
    BY <1>1 DEF IInv, TypeOK, Call, vars
  <2>4. Rights' /\ Str'
    BY <1>1, <2>1, SameTable DEF IInv, Rights, Own, Str, vars
  <2>5. Copyin' /\ Copyout'
    BY <1>1, <2>1, <2>2, SameTable DEF IInv, Copyin, Copyout, Own, vars
  <2>6. CopyinExact' /\ CopyoutExact'
    BY <1>1, <2>2 DEF IInv, CopyinExact, CopyoutExact, FromUser, FromKernel, vars
  <2>7. StrExact'
    BY <1>1, <2>1, SameTable DEF IInv, StrExact, FromUser, vars
  <2> QED
    BY <2>3, <2>4, <2>5, <2>6, <2>7 DEF IInv
<1> QED
  BY <1>1, CopyinPageInv, CopyoutPageInv, CopyDoneInv, StrByteInv, StrDoneInv DEF Next

-----------------------------------------------------------------------------
(* The inductive invariant holds in every state of the specification. *)
THEOREM Invariance == Spec => []IInv
<1> QED
  BY InitInv, NextInv, PTL DEF Spec

(* Whatever uvm_copyin, uvm_copyout and uvm_copyin_str (mem/uvm.c) are asked, a
   byte comes from a page that the user may read, or goes to one that he may
   write. *)
THEOREM GuardedCorrect == Spec => []Guarded
<1>1. ASSUME IInv PROVE Guarded
  <2>1. TypeOK /\ Rights /\ op \in {"copyin", "copyout", "copyin_str"}
    BY <1>1 DEF IInv, Call
  <2>2. ASSUME NEW a \in Addr, user[a] < 0 PROVE MayWrite(a)
    <3>1. a \in Nat
      BY Sizes
    <3>2. ~ Own(a)
      BY <2>2, <3>1 DEF Own
    <3> QED
      BY <2>1, <2>2, <3>2 DEF Rights
  <2>3. ASSUME NEW k \in Kernel, kern[k] > 0 PROVE MayRead(kern[k] - 1)
    <3>1. ~ (- k - 1 > 0)
      BY Sizes
    <3> QED
      BY <2>1, <2>3, <3>1 DEF Rights
  <2> QED
    BY <2>1, <2>2, <2>3 DEF Guarded, FromKernel
<1> QED
  BY <1>1, Invariance, PTL

(* uvm_copyin of whole pages answers 0 exactly when the user may read the block,
   and then the kernel holds it and nothing else. *)
THEOREM CopyinCorrect == Spec => []CopyinExact
<1>1. IInv => CopyinExact
  BY DEF IInv
<1> QED
  BY <1>1, Invariance, PTL

(* uvm_copyout of whole pages answers 0 exactly when the user may write the
   block, and then the block holds the buffer and no other byte has changed. *)
THEOREM CopyoutCorrect == Spec => []CopyoutExact
<1>1. IInv => CopyoutExact
  BY DEF IInv
<1> QED
  BY <1>1, Invariance, PTL

(* uvm_copyin_str answers the length of the string when there is one that the
   user may read within max_len, else -1, and stays within the buffer. *)
THEOREM StrCorrect == Spec => []StrExact
<1>1. IInv => StrExact
  BY DEF IInv
<1> QED
  BY <1>1, Invariance, PTL
=============================================================================
