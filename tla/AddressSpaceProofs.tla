------------------------- MODULE AddressSpaceProofs -------------------------
(* The parts of the user address space stay apart, say exactly what is mapped and
   lose no frame, and a fault that is answered is served, for every layout, page
   size and number of frames, as long as the process keeps the one rule that
   sys_brk does not check. *)
EXTENDS AddressSpace, FiniteSetTheorems, TLAPS

(* The tops that may be asked for: none below the heap, whose pages sys_brk would
   unmap from under the code, and none in the last page of the 64-bit space, of
   which PGROUNDUP is 0, so that every check of uvm_heap_grow is passed. *)
HeapRequests == Tops \subseteq {0} \cup UHEAP_START .. Wrap - PGSIZE

-----------------------------------------------------------------------------
(* First bytes of pages *)

PageStart(a) == a \in Nat /\ a % PGSIZE = 0

LEMMA DivMod ==
  ASSUME NEW P \in Nat \ {0}, NEW a \in Nat
  PROVE  a \div P \in Nat /\ (a % P) \in 0 .. P - 1 /\ a = P * (a \div P) + (a % P)
  OBVIOUS

LEMMA DivUnique ==
  ASSUME NEW P \in Nat \ {0}, NEW q \in Int, NEW r \in 0 .. P - 1
  PROVE  (P * q + r) \div P = q /\ (P * q + r) % P = r
  OBVIOUS

LEMMA SmallMod ==
  ASSUME NEW P \in Nat \ {0}, NEW a \in Nat, a < P
  PROVE  a % P = a
  OBVIOUS

(* A page starts at its number times PGSIZE. *)
LEMMA Number ==
  /\ \A a : PageStart(a) => a \div PGSIZE \in Nat /\ a = (a \div PGSIZE) * PGSIZE
  /\ \A p \in Nat : PageStart(p * PGSIZE) /\ (p * PGSIZE) \div PGSIZE = p
<1>1. PGSIZE \in Nat \ {0}
  BY LayoutAssumption
<1>2. ASSUME NEW a, PageStart(a)
      PROVE  a \div PGSIZE \in Nat /\ a = (a \div PGSIZE) * PGSIZE
  BY <1>1, <1>2, DivMod DEF PageStart
<1>3. ASSUME NEW p \in Nat
      PROVE  PageStart(p * PGSIZE) /\ (p * PGSIZE) \div PGSIZE = p
  <2>1. (PGSIZE * p + 0) \div PGSIZE = p /\ (PGSIZE * p + 0) % PGSIZE = 0
    BY <1>1, DivUnique
  <2>2. PGSIZE * p + 0 = p * PGSIZE /\ p * PGSIZE \in Nat
    BY <1>1
  <2> QED
    BY <2>1, <2>2 DEF PageStart
<1> QED
  BY <1>2, <1>3

LEMMA TimesMonotone ==
  ASSUME NEW P \in Nat \ {0}, NEW p \in Int, NEW q \in Int
  PROVE  /\ p < q <=> p * P < q * P
         /\ p < q => p * P + P <= q * P
         /\ p * P + q * P = (p + q) * P /\ q * P - p * P = (q - p) * P
         /\ (q + 2) * P = q * P + 2 * P /\ q * P + P = (q + 1) * P
  OBVIOUS

(* The starts of pages are apart by pages, and closed under sum and difference. *)
LEMMA Gaps ==
  ASSUME NEW a, NEW b, PageStart(a), PageStart(b)
  PROVE  /\ a < b => a + PGSIZE <= b
         /\ a < b <=> a \div PGSIZE < b \div PGSIZE
         /\ PageStart(a + b) /\ PageStart(a + PGSIZE)
         /\ b <= a => PageStart(a - b)
<1> DEFINE p == a \div PGSIZE
           q == b \div PGSIZE
<1>1. PGSIZE \in Nat \ {0}
  BY LayoutAssumption
<1>2. p \in Nat /\ q \in Nat /\ a = p * PGSIZE /\ b = q * PGSIZE
  BY Number
<1> HIDE DEF p, q
<1>3. a < b => a + PGSIZE <= b
  BY <1>1, <1>2, TimesMonotone
<1>4. a < b <=> p < q
  BY <1>1, <1>2, TimesMonotone
<1>5. PageStart(a + b)
  <2>1. a + b = (p + q) * PGSIZE /\ p + q \in Nat
    BY <1>1, <1>2, TimesMonotone
  <2> QED
    BY <2>1, Number
<1>6. PageStart(a + PGSIZE)
  <2>1. a + PGSIZE = (p + 1) * PGSIZE /\ p + 1 \in Nat
    BY <1>1, <1>2, TimesMonotone
  <2> QED
    BY <2>1, Number
<1>7. b <= a => PageStart(a - b)
  <2>1. SUFFICES ASSUME b <= a PROVE PageStart(a - b)
    OBVIOUS
  <2>2. ~ (p < q)
    BY <1>1, <1>2, <2>1, TimesMonotone
  <2>3. a - b = (p - q) * PGSIZE /\ p - q \in Nat
    BY <1>1, <1>2, <2>2, TimesMonotone
  <2> QED
    BY <2>3, Number
<1> QED
  BY <1>3, <1>4, <1>5, <1>6, <1>7 DEF p, q

LEMMA Layout ==
  /\ PGSIZE \in Nat \ {0} /\ Frames \in Nat /\ Frames >= 2
  /\ \A a \in {VA_MAX, Wrap, MMAP_BEGIN, MMAP_END, TRAPFRAME, USER_BASE, UHEAP_START} :
       PageStart(a)
  /\ USER_BASE = PGSIZE /\ UHEAP_START = PGSIZE + PGSIZE /\ TRAPFRAME = VA_MAX - PGSIZE - PGSIZE
  /\ UHEAP_START <= MMAP_BEGIN /\ MMAP_BEGIN < MMAP_END /\ MMAP_END + PGSIZE <= TRAPFRAME
  /\ MMAP_BEGIN + PGSIZE <= MMAP_END /\ VA_MAX + PGSIZE <= Wrap
<1>1. /\ PGSIZE \in Nat \ {0} /\ Frames \in Nat /\ Frames >= 2
      /\ PageStart(VA_MAX) /\ PageStart(Wrap) /\ PageStart(MMAP_BEGIN) /\ PageStart(MMAP_END)
      /\ UHEAP_START <= MMAP_BEGIN /\ MMAP_BEGIN < MMAP_END /\ MMAP_END < TRAPFRAME
      /\ VA_MAX < Wrap
  <2>1. \A a \in {VA_MAX, Wrap, MMAP_BEGIN, MMAP_END} : PageStart(a)
    BY LayoutAssumption DEF PageStart
  <2>2. PGSIZE \in Nat \ {0} /\ Frames \in Nat /\ Frames >= 2
    BY LayoutAssumption
  <2> QED
    BY <2>1, <2>2, LayoutAssumption
<1>2. VA_MAX \in Nat /\ MMAP_END \in Nat
  BY <1>1 DEF PageStart
<1>3. PageStart(0)
  BY <1>1, SmallMod DEF PageStart
<1>4. PageStart(USER_BASE) /\ USER_BASE = PGSIZE
  <2>1. 0 + PGSIZE = PGSIZE
    BY <1>1
  <2> QED
    BY <1>3, <2>1, Gaps DEF USER_BASE
<1>5. PageStart(UHEAP_START) /\ UHEAP_START = PGSIZE + PGSIZE
  BY <1>4, Gaps DEF UHEAP_START
<1>6. TRAPFRAME = VA_MAX - UHEAP_START /\ TRAPFRAME = VA_MAX - PGSIZE - PGSIZE
  BY <1>1, <1>2, <1>5 DEF TRAPFRAME, TRAMPOLINE
<1>7. UHEAP_START <= VA_MAX
  BY <1>1, <1>2, <1>5, <1>6
<1>8. PageStart(TRAPFRAME)
  BY <1>1, <1>5, <1>6, <1>7, Gaps
<1> QED
  BY <1>1, <1>4, <1>5, <1>6, <1>8, Gaps

(* The pages of an interval, and the pages of a set of page numbers. *)
LEMMA InPages ==
  ASSUME NEW from, NEW to, PageStart(from), PageStart(to)
  PROVE  \A a : a \in Pages(from, to) <=> PageStart(a) /\ from <= a /\ a < to
<1>1. ASSUME NEW a, a \in Pages(from, to) PROVE PageStart(a) /\ from <= a /\ a < to
  <2>1. PICK p \in from \div PGSIZE .. (to \div PGSIZE) - 1 : a = p * PGSIZE
    BY <1>1 DEF Pages
  <2>2. from \div PGSIZE \in Nat /\ to \div PGSIZE \in Nat
    BY Number
  <2>3. p \in Nat /\ p < to \div PGSIZE /\ ~ (p < from \div PGSIZE)
    BY <2>1, <2>2
  <2>4. PageStart(a) /\ a \div PGSIZE = p
    BY <2>1, <2>3, Number
  <2>5. a < to /\ ~ (a < from)
    BY <2>3, <2>4, Gaps
  <2> QED
    BY <2>4, <2>5 DEF PageStart
<1>2. ASSUME NEW a, PageStart(a), from <= a, a < to PROVE a \in Pages(from, to)
  <2> DEFINE p == a \div PGSIZE
  <2>1. p \in Nat /\ a = p * PGSIZE
    BY <1>2, Number
  <2>2. from \div PGSIZE \in Nat /\ to \div PGSIZE \in Nat
    BY Number
  <2>3. ~ (a < from)
    BY <1>2 DEF PageStart
  <2>4. p < to \div PGSIZE /\ ~ (p < from \div PGSIZE)
    BY <1>2, <2>3, Gaps
  <2>5. p \in from \div PGSIZE .. (to \div PGSIZE) - 1
    BY <2>1, <2>2, <2>4
  <2> QED
    BY <2>1, <2>5 DEF Pages
<1> QED
  BY <1>1, <1>2

LEMMA InNumbers ==
  ASSUME NEW A \in SUBSET Nat
  PROVE  \A a : a \in {p * PGSIZE : p \in A} <=> PageStart(a) /\ a \div PGSIZE \in A
BY Number

LEMMA RoundUp ==
  ASSUME NEW a \in Nat, a <= Wrap - PGSIZE
  PROVE  PageStart(PGROUNDUP(a)) /\ a <= PGROUNDUP(a) /\ PGROUNDUP(a) < a + PGSIZE
<1> DEFINE w == a + PGSIZE - 1
           r == w % PGSIZE
           q == w \div PGSIZE
<1>1. PGSIZE \in Nat \ {0} /\ Wrap \in Nat \ {0} /\ PGSIZE <= Wrap
  BY Layout DEF PageStart
<1>2. w \in Nat /\ w < Wrap
  BY <1>1
<1>3. w % Wrap = w
  BY <1>1, <1>2, SmallMod
<1>4. q \in Nat /\ r \in 0 .. PGSIZE - 1 /\ w = PGSIZE * q + r
  BY <1>1, <1>2, DivMod
<1>5. PGROUNDUP(a) = w - r
  BY <1>3 DEF PGROUNDUP
<1>6. w = a + PGSIZE - 1
  OBVIOUS
<1> HIDE DEF w, r, q
<1>7. w - r = q * PGSIZE
  BY <1>1, <1>4
<1>8. PageStart(w - r)
  BY <1>4, <1>7, Number
<1> QED
  BY <1>1, <1>4, <1>5, <1>6, <1>8

LEMMA RoundDown ==
  ASSUME NEW a \in Nat
  PROVE  PageStart(PGROUNDDOWN(a)) /\ PGROUNDDOWN(a) <= a /\ a < PGROUNDDOWN(a) + PGSIZE
<1> DEFINE r == a % PGSIZE
           q == a \div PGSIZE
<1>1. PGSIZE \in Nat \ {0}
  BY Layout
<1>2. q \in Nat /\ r \in 0 .. PGSIZE - 1 /\ a = PGSIZE * q + r
  BY <1>1, DivMod
<1>3. PGROUNDDOWN(a) = a - r
  BY DEF PGROUNDDOWN
<1> HIDE DEF r, q
<1>4. a - r = q * PGSIZE
  BY <1>1, <1>2
<1>5. PageStart(a - r)
  BY <1>2, <1>4, Number
<1> QED
  BY <1>1, <1>2, <1>3, <1>5

-----------------------------------------------------------------------------
(* The parts of the space: the code page, the heap up to u, the pages of mmap and
   the stack from s. *)
InParts(a, u, A, s) == /\ PageStart(a)
                       /\ \/ a = USER_BASE
                          \/ UHEAP_START <= a /\ a < u
                          \/ a \div PGSIZE \in A
                          \/ s <= a /\ a < TRAPFRAME

Space(u, A, s) == {USER_BASE} \cup Pages(UHEAP_START, u) \cup {p * PGSIZE : p \in A}
                              \cup Pages(s, TRAPFRAME)

LEMMA Parts ==
  ASSUME NEW u, NEW s, PageStart(u), PageStart(s), NEW A \in SUBSET Nat, NEW M
  PROVE  M = Space(u, A, s) <=> \A a : a \in M <=> InParts(a, u, A, s)
<1> DEFINE S == Space(u, A, s)
<1>1. PageStart(USER_BASE) /\ PageStart(UHEAP_START) /\ PageStart(TRAPFRAME)
  BY Layout
<1>2. ASSUME NEW a PROVE a \in S <=> InParts(a, u, A, s)
  BY <1>1, InPages, InNumbers DEF InParts, Space
<1> HIDE DEF S
<1>3. M = S <=> \A a : a \in M <=> InParts(a, u, A, s)
  BY <1>2
<1> QED
  BY <1>3 DEF S

(* The pages of mmap lie in its area. *)
Area == MMAP_BEGIN \div PGSIZE .. MMAP_END \div PGSIZE - 1

LEMMA InArea ==
  /\ Area \subseteq Nat
  /\ \A a : PageStart(a) /\ a \div PGSIZE \in Area => MMAP_BEGIN <= a /\ a < MMAP_END
<1>1. PageStart(MMAP_BEGIN) /\ PageStart(MMAP_END)
  BY Layout
<1>2. MMAP_BEGIN \div PGSIZE \in Nat /\ MMAP_END \div PGSIZE \in Nat
  BY <1>1, Number
<1>3. ASSUME NEW a, PageStart(a), a \div PGSIZE \in Area
      PROVE  MMAP_BEGIN <= a /\ a < MMAP_END
  <2>1. a \div PGSIZE < MMAP_END \div PGSIZE /\ ~ (a \div PGSIZE < MMAP_BEGIN \div PGSIZE)
    BY <1>2, <1>3 DEF Area
  <2>2. a < MMAP_END /\ ~ (a < MMAP_BEGIN)
    BY <1>1, <1>3, <2>1, Gaps
  <2> QED
    BY <1>1, <1>3, <2>2 DEF PageStart
<1> QED
  BY <1>2, <1>3 DEF Area

LEMMA HeapEnd ==
  ASSUME NEW h \in UHEAP_START .. MMAP_BEGIN
  PROVE  /\ PageStart(PGROUNDUP(h)) /\ h <= PGROUNDUP(h) /\ PGROUNDUP(h) < h + PGSIZE
         /\ PGROUNDUP(h) <= MMAP_BEGIN
<1>1. PageStart(MMAP_BEGIN) /\ PageStart(UHEAP_START) /\ PageStart(Wrap)
  BY Layout
<1>2. h \in Nat /\ h <= Wrap - PGSIZE /\ h <= MMAP_BEGIN /\ PGSIZE \in Nat /\ MMAP_BEGIN \in Nat
  <2>1. \A a \in {VA_MAX, Wrap, MMAP_BEGIN, MMAP_END, TRAPFRAME, UHEAP_START} : a \in Nat
    BY Layout DEF PageStart
  <2>2. PGSIZE \in Nat /\ MMAP_BEGIN < MMAP_END /\ MMAP_END + PGSIZE <= TRAPFRAME
        /\ TRAPFRAME = VA_MAX - PGSIZE - PGSIZE /\ VA_MAX + PGSIZE <= Wrap
    BY Layout
  <2> QED
    BY <2>1, <2>2
<1>3. PageStart(PGROUNDUP(h)) /\ h <= PGROUNDUP(h) /\ PGROUNDUP(h) < h + PGSIZE
  BY <1>2, RoundUp
<1>4. PGROUNDUP(h) \in Nat
  BY <1>3 DEF PageStart
<1>5. MMAP_BEGIN < PGROUNDUP(h) => MMAP_BEGIN + PGSIZE <= PGROUNDUP(h)
  BY <1>1, <1>3, Gaps
<1> QED
  BY <1>2, <1>3, <1>4, <1>5

-----------------------------------------------------------------------------
(* The invariant, in every state: after the panic of uvm_destroy_pgtbl the space
   is no longer exact, but its parts are still apart and its frames counted. *)
IInv == /\ TypeOK
        /\ heap_top \in UHEAP_START .. MMAP_BEGIN
        /\ PageStart(UstackTop) /\ MMAP_END <= UstackTop
        /\ SpaceExact /\ FramesExact

LEMMA Bounds ==
  ASSUME IInv
  PROVE  /\ UstackTop <= TRAPFRAME /\ UstackTop = TRAPFRAME - ustack_npage * PGSIZE
         /\ alloc \subseteq Area /\ alloc \subseteq Nat
         /\ \A S \in SUBSET Pages(0, TRAPFRAME) : IsFiniteSet(S)
         /\ PageStart(0)
         /\ state = "run" => \A a : a \in mapped <=>
                               InParts(a, PGROUNDUP(heap_top), alloc, UstackTop)
<1>1. PGSIZE \in Nat \ {0} /\ ustack_npage \in Nat /\ VA_MAX \in Nat /\ TRAPFRAME \in Nat
      /\ TRAPFRAME = VA_MAX - PGSIZE - PGSIZE /\ PageStart(TRAPFRAME)
  BY Layout DEF IInv, TypeOK, PageStart
<1>2. UstackTop = TRAPFRAME - ustack_npage * PGSIZE /\ ustack_npage * PGSIZE \in Nat
  BY <1>1, TimesMonotone DEF UstackTop
<1>3. UstackTop <= TRAPFRAME
  BY <1>1, <1>2
<1>4. alloc \subseteq Area /\ alloc \subseteq Nat
  BY InArea DEF IInv, TypeOK, Area
<1>5. PageStart(0)
  BY <1>1, SmallMod DEF PageStart
<1>6. Pages(0, TRAPFRAME) \subseteq 0 .. TRAPFRAME
  BY <1>1, <1>5, InPages DEF PageStart
<1>7. ASSUME NEW S \in SUBSET Pages(0, TRAPFRAME) PROVE IsFiniteSet(S)
  <2>1. IsFiniteSet(0 .. TRAPFRAME)
    BY <1>1, FS_Interval
  <2>2. S \in SUBSET (0 .. TRAPFRAME)
    BY <1>6
  <2> QED
    BY <2>1, <2>2, FS_Subset
<1>8. ASSUME state = "run"
      PROVE  \A a : a \in mapped <=> InParts(a, PGROUNDUP(heap_top), alloc, UstackTop)
  <2>1. PageStart(PGROUNDUP(heap_top)) /\ PageStart(UstackTop)
    BY HeapEnd DEF IInv
  <2>2. mapped = Space(PGROUNDUP(heap_top), alloc, UstackTop)
    BY <1>8 DEF IInv, SpaceExact, AllocPages, Space
  <2> QED
    BY <1>4, <2>1, <2>2, Parts
<1> QED
  BY <1>2, <1>3, <1>4, <1>5, <1>7, <1>8

(* Where a part lies among the others. *)
LEMMA Order ==
  ASSUME IInv, NEW a, InParts(a, PGROUNDUP(heap_top), alloc, UstackTop)
  PROVE  /\ a \in Nat /\ 0 <= a /\ a < TRAPFRAME
         /\ \/ a < PGROUNDUP(heap_top)
            \/ MMAP_BEGIN <= a /\ a < MMAP_END /\ a \div PGSIZE \in alloc
            \/ UstackTop <= a
<1>1. /\ PageStart(MMAP_BEGIN) /\ PageStart(MMAP_END) /\ PageStart(TRAPFRAME)
      /\ USER_BASE = PGSIZE /\ UHEAP_START = PGSIZE + PGSIZE /\ PGSIZE \in Nat \ {0}
      /\ UHEAP_START <= MMAP_BEGIN /\ MMAP_BEGIN < MMAP_END /\ MMAP_END + PGSIZE <= TRAPFRAME
  BY Layout
<1>2. /\ UHEAP_START <= PGROUNDUP(heap_top) /\ PGROUNDUP(heap_top) <= MMAP_BEGIN
      /\ PGROUNDUP(heap_top) \in Nat
  <2>1. PGROUNDUP(heap_top) \in Nat /\ heap_top <= PGROUNDUP(heap_top)
        /\ PGROUNDUP(heap_top) <= MMAP_BEGIN
    BY HeapEnd DEF IInv, PageStart
  <2>2. heap_top \in Int /\ UHEAP_START <= heap_top
    BY DEF IInv
  <2> QED
    BY <1>1, <2>1, <2>2
<1>3. a \div PGSIZE \in alloc => MMAP_BEGIN <= a /\ a < MMAP_END
  BY Bounds, InArea DEF InParts
<1>4. a \in Nat /\ MMAP_BEGIN \in Nat /\ MMAP_END \in Nat /\ TRAPFRAME \in Nat
  BY <1>1 DEF InParts, PageStart
<1>5. \/ a = USER_BASE
      \/ UHEAP_START <= a /\ a < PGROUNDUP(heap_top)
      \/ a \div PGSIZE \in alloc
      \/ UstackTop <= a /\ a < TRAPFRAME
  BY DEF InParts
<1> QED
  BY <1>1, <1>2, <1>3, <1>4, <1>5

-----------------------------------------------------------------------------
(* Frames *)

LEMMA MapCounts ==
  ASSUME IInv, NEW S \in SUBSET Pages(0, TRAPFRAME), S \cap mapped = {}, MapPages(S)
  PROVE  /\ mapped' = mapped \cup S /\ mapped' \subseteq Pages(0, TRAPFRAME)
         /\ FramesExact' /\ frames' \in 0 .. Frames
<1>1. IsFiniteSet(S) /\ IsFiniteSet(mapped) /\ mapped \subseteq Pages(0, TRAPFRAME)
  BY Bounds DEF IInv, TypeOK
<1>2. mapped' = mapped \cup S /\ frames' = frames + Cardinality(S)
      /\ frames + Cardinality(S) <= Frames
  BY DEF MapPages
<1>3. Cardinality(mapped \cup S) = Cardinality(mapped) + Cardinality(S)
  <2>1. mapped \cap S = {}
    OBVIOUS
  <2>2. Cardinality(mapped \cap S) = 0
    BY <2>1, FS_EmptySet
  <2>3. Cardinality(mapped) \in Nat /\ Cardinality(S) \in Nat
    BY <1>1, FS_CardinalityType
  <2>4. Cardinality(mapped \cup S)
          = Cardinality(mapped) + Cardinality(S) - Cardinality(mapped \cap S)
    BY <1>1, FS_Union
  <2> QED
    BY <2>2, <2>3, <2>4
<1>4. FramesExact'
  BY <1>2, <1>3 DEF IInv, FramesExact
<1>5. frames' \in 0 .. Frames
  <2>1. Cardinality(S) \in Nat /\ frames \in Nat /\ Frames \in Nat
    BY <1>1, FS_CardinalityType, Layout DEF IInv, TypeOK
  <2> QED
    BY <1>2, <2>1
<1> QED
  BY <1>1, <1>2, <1>4, <1>5

LEMMA UnmapCounts ==
  ASSUME IInv, NEW S, UnmapPages(S)
  PROVE  /\ mapped' = mapped \ S /\ mapped' \subseteq Pages(0, TRAPFRAME)
         /\ FramesExact' /\ frames' \in 0 .. Frames
<1>1. IsFiniteSet(mapped) /\ mapped \subseteq Pages(0, TRAPFRAME)
  BY Bounds DEF IInv, TypeOK
<1>2. mapped' = mapped \ S /\ frames' = frames - Cardinality(mapped \cap S)
  BY DEF UnmapPages
<1>3. /\ IsFiniteSet(mapped \ S) /\ IsFiniteSet(mapped \cap S)
      /\ Cardinality(mapped \ S) = Cardinality(mapped) - Cardinality(mapped \cap S)
  <2>1. IsFiniteSet(mapped \cap S) /\ IsFiniteSet(mapped \ S)
    BY <1>1, FS_Subset
  <2> QED
    BY <1>1, <2>1, FS_Difference
<1>4. FramesExact'
  BY <1>2, <1>3 DEF IInv, FramesExact
<1>5. frames' \in 0 .. Frames
  <2>1. /\ frames \in Nat /\ frames <= Frames /\ Frames \in Nat /\ frames' \in Nat
        /\ Cardinality(mapped \cap S) \in Nat
    BY <1>2, <1>3, FS_CardinalityType, Layout DEF IInv, TypeOK, FramesExact
  <2> QED
    BY <1>2, <2>1
<1> QED
  BY <1>1, <1>2, <1>4, <1>5

-----------------------------------------------------------------------------
(* Steps *)

LEMMA InitInv == Init => IInv
<1> SUFFICES ASSUME Init PROVE IInv
  OBVIOUS
<1>1. /\ PGSIZE \in Nat \ {0} /\ Frames \in Nat /\ Frames >= 2 /\ USER_BASE = PGSIZE
      /\ UHEAP_START = PGSIZE + PGSIZE /\ TRAPFRAME = VA_MAX - PGSIZE - PGSIZE
      /\ UHEAP_START <= MMAP_BEGIN /\ MMAP_BEGIN < MMAP_END /\ MMAP_END + PGSIZE <= TRAPFRAME
      /\ VA_MAX + PGSIZE <= Wrap
  BY Layout
<1>2. \A a \in {VA_MAX, Wrap, MMAP_BEGIN, MMAP_END, TRAPFRAME, USER_BASE, UHEAP_START} :
        PageStart(a) /\ a \in Nat
  BY Layout DEF PageStart
<1>3. heap_top \in UHEAP_START .. MMAP_BEGIN /\ heap_top \in 0 .. Wrap - 1
  BY <1>1, <1>2 DEF Init
<1>4. UstackTop = TRAPFRAME - PGSIZE
  <2>1. ustack_npage = 1 /\ (1 + 2) * PGSIZE = PGSIZE + PGSIZE + PGSIZE
    BY <1>1 DEF Init
  <2> QED
    BY <1>1, <1>2, <2>1 DEF UstackTop
<1>5. /\ PageStart(TRAPFRAME) /\ PageStart(USER_BASE) /\ MMAP_BEGIN \in Nat
      /\ MMAP_END \in Nat /\ TRAPFRAME \in Nat /\ PGSIZE \in Nat
      /\ PGSIZE + PGSIZE <= TRAPFRAME - PGSIZE /\ MMAP_END <= TRAPFRAME - PGSIZE
  <2>1. PageStart(TRAPFRAME) /\ PageStart(USER_BASE) /\ MMAP_BEGIN \in Nat
        /\ MMAP_END \in Nat /\ TRAPFRAME \in Nat
    BY <1>2
  <2> QED
    BY <1>1, <2>1
<1>6. PageStart(UstackTop) /\ MMAP_END <= UstackTop
  <2>1. PGSIZE <= TRAPFRAME
    BY <1>1, <1>5
  <2>2. PageStart(TRAPFRAME - PGSIZE)
    BY <1>1, <1>5, <2>1, Gaps
  <2> QED
    BY <1>4, <1>5, <2>2
<1>7. mapped = {USER_BASE, UstackTop} /\ USER_BASE # UstackTop
  <2>1. USER_BASE # UstackTop
    BY <1>1, <1>4, <1>5
  <2> QED
    BY <1>4, <2>1 DEF Init
<1>8. PGROUNDUP(heap_top) = UHEAP_START
  <2>1. /\ PageStart(PGROUNDUP(heap_top)) /\ heap_top <= PGROUNDUP(heap_top)
        /\ PGROUNDUP(heap_top) < heap_top + PGSIZE
    BY <1>3, HeapEnd
  <2>2. heap_top = UHEAP_START /\ PGROUNDUP(heap_top) \in Nat
    BY <2>1 DEF Init, PageStart
  <2>3. UHEAP_START < PGROUNDUP(heap_top) => UHEAP_START + PGSIZE <= PGROUNDUP(heap_top)
    BY <1>2, <2>1, Gaps
  <2> QED
    BY <1>1, <1>2, <2>1, <2>2, <2>3
<1>9. alloc = {}
  BY DEF Init, PS!Init
<1>10. ASSUME NEW a PROVE a \in mapped <=> InParts(a, UHEAP_START, {}, UstackTop)
  <2>1. InParts(a, UHEAP_START, {}, UstackTop) <=>
          /\ PageStart(a)
          /\ a = USER_BASE \/ (UstackTop <= a /\ a < TRAPFRAME)
    <3>1. PageStart(a) => ~ (UHEAP_START <= a /\ a < UHEAP_START)
      BY <1>2 DEF PageStart
    <3> QED
      BY <3>1 DEF InParts
  <2>2. PageStart(a) /\ UstackTop <= a /\ a < TRAPFRAME => a = UstackTop
    <3>1. PageStart(a) /\ UstackTop < a => UstackTop + PGSIZE <= a
      BY <1>6, Gaps
    <3>2. UstackTop \in Nat /\ (PageStart(a) => a \in Nat)
      BY <1>6 DEF PageStart
    <3> QED
      BY <1>1, <1>2, <1>4, <3>1, <3>2
  <2>3. UstackTop <= UstackTop /\ UstackTop < TRAPFRAME
    BY <1>1, <1>2, <1>4
  <2> QED
    BY <1>2, <1>6, <1>7, <2>1, <2>2, <2>3
<1>11. SpaceExact
  <2>1. mapped = Space(UHEAP_START, {}, UstackTop)
    BY <1>2, <1>6, <1>10, Parts
  <2> QED
    BY <1>8, <1>9, <2>1 DEF SpaceExact, AllocPages, Space
<1>12. FramesExact
  <2>1. IsFiniteSet({USER_BASE}) /\ Cardinality({USER_BASE}) = 1
    BY FS_Singleton
  <2>2. Cardinality({USER_BASE} \cup {UstackTop}) = 1 + 1
    BY <1>7, <2>1, FS_AddElement
  <2>3. mapped = {USER_BASE} \cup {UstackTop}
    BY <1>7
  <2> QED
    BY <2>2, <2>3 DEF Init, FramesExact
<1>13. TypeOK
  <2>1. mapped \subseteq Pages(0, TRAPFRAME)
    <3>1. PageStart(0)
      BY <1>1, SmallMod DEF PageStart
    <3>2. ASSUME NEW a \in mapped PROVE PageStart(a) /\ 0 <= a /\ a < TRAPFRAME
      <4>1. UstackTop \in Nat /\ USER_BASE \in Nat
        BY <1>5, <1>6 DEF PageStart
      <4>2. USER_BASE < TRAPFRAME /\ UstackTop < TRAPFRAME
        BY <1>1, <1>4, <1>5
      <4> QED
        BY <1>5, <1>6, <1>7, <3>2, <4>1, <4>2
    <3> QED
      BY <1>2, <3>1, <3>2, InPages
  <2>2. frames \in 0 .. Frames
    BY <1>1 DEF Init
  <2> QED
    BY <1>3, <1>9, <2>1, <2>2 DEF Init, TypeOK
<1> QED
  BY <1>3, <1>6, <1>11, <1>12, <1>13 DEF IInv

(* What is left to show of a step that keeps the counts of the frames. *)
LEMMA SpaceStep ==
  ASSUME heap_top' \in UHEAP_START .. MMAP_BEGIN, PageStart(UstackTop'), alloc' \subseteq Area,
         state' = "run" =>
           \A a : a \in mapped' <=> InParts(a, PGROUNDUP(heap_top'), alloc', UstackTop')
  PROVE  SpaceExact'
<1> SUFFICES ASSUME state' = "run" PROVE SpaceExact'
  BY DEF SpaceExact
<1>1. PageStart(PGROUNDUP(heap_top'))
  BY HeapEnd
<1>2. alloc' \in SUBSET Nat
  BY InArea
<1>3. mapped' = Space(PGROUNDUP(heap_top'), alloc', UstackTop')
  BY <1>1, <1>2, Parts
<1> QED
  BY <1>3 DEF SpaceExact, AllocPages, Space

LEMMA PanicInv ==
  ASSUME IInv, Panic
  PROVE  IInv'
BY DEF IInv, Panic, TypeOK, SpaceExact, FramesExact, UstackTop

LEMMA HeapTyped ==
  ASSUME NEW h \in UHEAP_START .. MMAP_BEGIN
  PROVE  h \in 0 .. Wrap - 1
<1>1. \A a \in {VA_MAX, Wrap, MMAP_BEGIN, MMAP_END, TRAPFRAME, UHEAP_START} : a \in Nat
  BY Layout DEF PageStart
<1>2. /\ PGSIZE \in Nat \ {0} /\ MMAP_BEGIN < MMAP_END /\ MMAP_END + PGSIZE <= TRAPFRAME
      /\ TRAPFRAME = VA_MAX - PGSIZE - PGSIZE /\ VA_MAX + PGSIZE <= Wrap
  BY Layout
<1> QED
  BY <1>1, <1>2

(* PGROUNDUP of the top that is asked for. *)
LEMMA RequestEnd ==
  ASSUME HeapRequests, NEW t \in Tops, t > 0
  PROVE  /\ t \in Nat /\ UHEAP_START <= t
         /\ PageStart(PGROUNDUP(t)) /\ t <= PGROUNDUP(t) /\ PGROUNDUP(t) < t + PGSIZE
<1>1. Wrap \in Nat /\ UHEAP_START \in Nat /\ PGSIZE \in Nat
  BY Layout DEF PageStart
<1>2. t \in UHEAP_START .. Wrap - PGSIZE
  BY DEF HeapRequests
<1>3. t \in Nat /\ UHEAP_START <= t /\ t <= Wrap - PGSIZE
  BY <1>1, <1>2
<1> QED
  BY <1>3, RoundUp

(* Rounding up keeps the order. *)
LEMMA RoundUpMonotone ==
  ASSUME NEW x \in Nat, NEW y \in Nat, x <= y,
         PageStart(PGROUNDUP(x)), PGROUNDUP(x) < x + PGSIZE,
         PageStart(PGROUNDUP(y)), y <= PGROUNDUP(y)
  PROVE  PGROUNDUP(x) <= PGROUNDUP(y)
<1>1. PGROUNDUP(x) \in Nat /\ PGROUNDUP(y) \in Nat /\ PGSIZE \in Nat
  BY Layout DEF PageStart
<1>2. PGROUNDUP(y) < PGROUNDUP(x) => PGROUNDUP(y) + PGSIZE <= PGROUNDUP(x)
  BY Gaps
<1> QED
  BY <1>1, <1>2

LEMMA HeapGrowInv ==
  ASSUME HeapRequests, IInv, NEW t \in Tops, HeapGrow(t)
  PROVE  IInv'
<1> DEFINE o == PGROUNDUP(heap_top)
           w == PGROUNDUP(t)
<1>1. CASE Panic
  BY <1>1, PanicInv
<1>2. CASE ~ Panic
  <2>1. /\ state = "run" /\ t > heap_top /\ (w <= o \/ w <= MMAP_BEGIN)
        /\ MapPages(Pages(o, w)) /\ heap_top' = t /\ UNCHANGED <<ustack_npage, alloc, state>>
    BY <1>2 DEF HeapGrow, GrowTo
  <2>2. heap_top \in Nat /\ UHEAP_START <= heap_top /\ t \in Nat /\ t > 0 /\ UHEAP_START \in Nat
    <3>1. UHEAP_START \in Nat
      BY Layout DEF PageStart
    <3>2. heap_top \in Nat /\ UHEAP_START <= heap_top
      BY <3>1 DEF IInv
    <3>3. t \in Nat
      BY Layout, LayoutAssumption DEF PageStart
    <3> QED
      BY <2>1, <3>1, <3>2, <3>3
  <2>3. /\ PageStart(o) /\ heap_top <= o /\ o < heap_top + PGSIZE /\ o <= MMAP_BEGIN
    BY HeapEnd DEF IInv
  <2>4. PageStart(w) /\ t <= w
    BY <2>2, RequestEnd
  <2>5. o <= w
    BY <2>1, <2>2, <2>3, <2>4, RoundUpMonotone
  <2>6. o \in Nat /\ w \in Nat /\ MMAP_BEGIN \in Nat /\ TRAPFRAME \in Nat /\ PGSIZE \in Nat
        /\ MMAP_END \in Nat /\ MMAP_BEGIN < MMAP_END /\ MMAP_END + PGSIZE <= TRAPFRAME
    BY <2>3, <2>4, Layout DEF PageStart
  <2>7. w <= MMAP_BEGIN /\ t <= MMAP_BEGIN /\ UHEAP_START <= t
    BY <2>1, <2>2, <2>3, <2>4, <2>5, <2>6
  <2>8. \A a : a \in mapped <=> InParts(a, o, alloc, UstackTop)
    BY <2>1, Bounds
  <2>9. \A a : a \in Pages(o, w) <=> PageStart(a) /\ o <= a /\ a < w
    BY <2>3, <2>4, InPages
  <2>10. UstackTop \in Nat /\ MMAP_END <= UstackTop /\ PageStart(0) /\ PageStart(TRAPFRAME)
    BY Bounds, Layout DEF IInv, PageStart
  <2> HIDE DEF o, w
  <2>11. Pages(o, w) \subseteq Pages(0, TRAPFRAME)
    <3>1. ASSUME NEW a, PageStart(a), o <= a, a < w PROVE 0 <= a /\ a < TRAPFRAME
      BY <2>6, <2>7, <3>1 DEF PageStart
    <3> QED
      BY <2>9, <2>10, <3>1, InPages
  <2>12. Pages(o, w) \cap mapped = {}
    <3>1. ASSUME NEW a, PageStart(a), o <= a, a < w, InParts(a, o, alloc, UstackTop)
          PROVE  FALSE
      <4>1. \/ a < o
            \/ MMAP_BEGIN <= a /\ a < MMAP_END /\ a \div PGSIZE \in alloc
            \/ UstackTop <= a
        BY <3>1, Order DEF o
      <4> QED
        BY <2>6, <2>7, <2>10, <3>1, <4>1 DEF PageStart
    <3> QED
      BY <2>8, <2>9, <3>1
  <2>13. /\ mapped' = mapped \cup Pages(o, w) /\ mapped' \subseteq Pages(0, TRAPFRAME)
         /\ FramesExact' /\ frames' \in 0 .. Frames
    BY <2>1, <2>11, <2>12, MapCounts
  <2>14. heap_top' \in UHEAP_START .. MMAP_BEGIN
    BY <2>1, <2>2, <2>6, <2>7
  <2>15. UstackTop' = UstackTop /\ alloc' = alloc
    BY <2>1 DEF UstackTop
  <2>16. ASSUME NEW a PROVE a \in mapped' <=> InParts(a, PGROUNDUP(heap_top'), alloc', UstackTop')
    <3>1. a \in mapped' <=> InParts(a, o, alloc, UstackTop) \/ (PageStart(a) /\ o <= a /\ a < w)
      BY <2>8, <2>9, <2>13
    <3>2. PageStart(a) => ((UHEAP_START <= a /\ a < w) <=>
                             (UHEAP_START <= a /\ a < o) \/ (o <= a /\ a < w))
      BY <2>2, <2>3, <2>5, <2>6 DEF PageStart
    <3>3. a \in mapped' <=> InParts(a, w, alloc, UstackTop)
      BY <3>1, <3>2 DEF InParts
    <3> QED
      BY <2>1, <2>15, <3>3 DEF w
  <2>17. PageStart(UstackTop') /\ MMAP_END <= UstackTop' /\ alloc' \subseteq Area
    BY <2>15, Bounds DEF IInv
  <2>18. SpaceExact'
    BY <2>14, <2>16, <2>17, SpaceStep
  <2>19. TypeOK'
    BY <2>1, <2>13, <2>14, HeapTyped DEF IInv, TypeOK
  <2> QED
    BY <2>13, <2>14, <2>17, <2>18, <2>19 DEF IInv
<1> QED
  BY <1>1, <1>2

LEMMA HeapUngrowInv ==
  ASSUME HeapRequests, IInv, NEW t \in Tops, HeapUngrow(t)
  PROVE  IInv'
<1> DEFINE o == PGROUNDUP(heap_top)
           w == PGROUNDUP(t)
<1>1. CASE Panic
  BY <1>1, PanicInv
<1>2. CASE ~ Panic
  <2>1. /\ state = "run" /\ 0 < t /\ t < heap_top
        /\ UnmapPages(Pages(w, o)) /\ heap_top' = t /\ UNCHANGED <<ustack_npage, alloc, state>>
    BY <1>2 DEF HeapUngrow
  <2>2. /\ t \in Nat /\ UHEAP_START <= t /\ PageStart(w) /\ t <= w /\ w < t + PGSIZE
    BY <2>1, RequestEnd
  <2>3. /\ PageStart(o) /\ heap_top <= o /\ o <= MMAP_BEGIN
    BY HeapEnd DEF IInv
  <2>4. /\ o \in Nat /\ w \in Nat /\ PGSIZE \in Nat \ {0}
        /\ UHEAP_START = PGSIZE + PGSIZE /\ USER_BASE = PGSIZE
        /\ UstackTop \in Nat /\ MMAP_END <= UstackTop /\ MMAP_BEGIN < MMAP_END
    BY <2>2, <2>3, Layout DEF IInv, PageStart
  <2>5. MMAP_BEGIN \in Nat /\ MMAP_END \in Nat
    BY Layout DEF PageStart
  <2>6. heap_top \in Nat /\ heap_top <= MMAP_BEGIN
    BY <2>4, <2>5 DEF IInv
  <2>7. w <= o
    BY <2>1, <2>2, <2>3, <2>6, RoundUpMonotone
  <2>8. \A a : a \in mapped <=> InParts(a, o, alloc, UstackTop)
    BY <2>1, Bounds
  <2>9. \A a : a \in Pages(w, o) <=> PageStart(a) /\ w <= a /\ a < o
    BY <2>2, <2>3, InPages
  <2>10. \A a : PageStart(a) /\ a \div PGSIZE \in alloc => MMAP_BEGIN <= a /\ a < MMAP_END
    BY Bounds, InArea
  <2> HIDE DEF o, w
  <2>11. /\ mapped' = mapped \ Pages(w, o) /\ mapped' \subseteq Pages(0, TRAPFRAME)
         /\ FramesExact' /\ frames' \in 0 .. Frames
    BY <2>1, UnmapCounts
  <2>12. heap_top' \in UHEAP_START .. MMAP_BEGIN
    BY <2>1, <2>2, <2>4, <2>5, <2>6
  <2>13. UstackTop' = UstackTop /\ alloc' = alloc
    BY <2>1 DEF UstackTop
  <2>14. ASSUME NEW a PROVE a \in mapped' <=> InParts(a, PGROUNDUP(heap_top'), alloc', UstackTop')
    <3>1. a \in mapped' <=> InParts(a, o, alloc, UstackTop) /\ ~ (PageStart(a) /\ w <= a /\ a < o)
      BY <2>8, <2>9, <2>11
    <3>2. PageStart(a) => a \in Nat
      BY DEF PageStart
    <3>3. PageStart(a) => /\ UHEAP_START <= a /\ a < o /\ ~ (w <= a /\ a < o)
                             <=> UHEAP_START <= a /\ a < w
      BY <2>2, <2>4, <2>7, <3>2
    <3>4. PageStart(a) => /\ a = USER_BASE => ~ (w <= a /\ a < o)
                          /\ UstackTop <= a => ~ (w <= a /\ a < o)
      BY <2>2, <2>3, <2>4, <2>5, <3>2
    <3>5. PageStart(a) /\ a \div PGSIZE \in alloc => ~ (w <= a /\ a < o)
      <4>1. PageStart(a) /\ a \div PGSIZE \in alloc => MMAP_BEGIN <= a
        BY <2>10
      <4> QED
        BY <2>3, <2>4, <2>5, <3>2, <4>1
    <3>6. a \in mapped' <=> InParts(a, w, alloc, UstackTop)
      BY <3>1, <3>3, <3>4, <3>5 DEF InParts
    <3> QED
      BY <2>1, <2>13, <3>6 DEF w
  <2>15. PageStart(UstackTop') /\ MMAP_END <= UstackTop' /\ alloc' \subseteq Area
    BY <2>13, Bounds DEF IInv
  <2>16. SpaceExact'
    BY <2>12, <2>14, <2>15, SpaceStep
  <2>17. TypeOK'
    BY <2>1, <2>11, <2>12, HeapTyped DEF IInv, TypeOK
  <2> QED
    BY <2>11, <2>12, <2>15, <2>16, <2>17 DEF IInv
<1> QED
  BY <1>1, <1>2

(* The page of a fault on the stack, and the size of the stack that reaches it. *)
LEMMA StackPage ==
  ASSUME IInv, NEW va \in Faults, OnStack(va)
  PROVE  LET np == PGROUNDDOWN(va)
             k  == (VA_MAX - 2 * PGSIZE - np) \div PGSIZE
         IN  /\ PageStart(np) /\ MMAP_END <= np /\ np < UstackTop
             /\ k \in Nat /\ k > ustack_npage /\ VA_MAX - (k + 2) * PGSIZE = np
<1> DEFINE np == PGROUNDDOWN(va)
           d == VA_MAX - 2 * PGSIZE - np
           k == d \div PGSIZE
<1>1. /\ PGSIZE \in Nat \ {0} /\ VA_MAX \in Nat /\ TRAPFRAME \in Nat /\ MMAP_END \in Nat
      /\ TRAPFRAME = VA_MAX - PGSIZE - PGSIZE /\ PageStart(TRAPFRAME) /\ PageStart(MMAP_END)
  BY Layout DEF PageStart
<1>2. /\ PageStart(UstackTop) /\ UstackTop \in Nat /\ UstackTop <= TRAPFRAME
      /\ UstackTop = TRAPFRAME - ustack_npage * PGSIZE /\ ustack_npage \in Nat
  BY Bounds DEF IInv, TypeOK, PageStart
<1>3. va \in Nat /\ MMAP_END <= va /\ va < UstackTop
  BY LayoutAssumption DEF OnStack
<1>4. PageStart(np) /\ np \in Nat /\ np <= va /\ va < np + PGSIZE
  BY <1>3, RoundDown DEF PageStart
<1>5. d = TRAPFRAME - np
  BY <1>1, <1>4
<1> HIDE DEF np, d
<1>6. MMAP_END <= np /\ np < UstackTop
  <2>1. np < MMAP_END => np + PGSIZE <= MMAP_END
    BY <1>1, <1>4, Gaps
  <2> QED
    BY <1>1, <1>2, <1>3, <1>4, <2>1
<1>7. PageStart(d)
  <2>1. np <= TRAPFRAME
    BY <1>1, <1>2, <1>4, <1>6
  <2> QED
    BY <1>1, <1>4, <1>5, <2>1, Gaps
<1>8. k \in Nat /\ d = k * PGSIZE
  BY <1>7, Number
<1>9. ustack_npage < k
  <2>1. /\ PageStart(ustack_npage * PGSIZE)
        /\ (ustack_npage * PGSIZE) \div PGSIZE = ustack_npage
    BY <1>2, Number
  <2>2. ustack_npage * PGSIZE \in Nat
    BY <1>1, <1>2
  <2>3. ustack_npage * PGSIZE < d
    BY <1>1, <1>2, <1>4, <1>5, <1>6, <2>2
  <2> QED
    BY <1>7, <2>1, <2>3, Gaps
<1> HIDE DEF k
<1>10. VA_MAX - (k + 2) * PGSIZE = np
  <2>1. (k + 2) * PGSIZE = d + 2 * PGSIZE
    BY <1>1, <1>8, TimesMonotone
  <2> QED
    BY <1>1, <1>4, <1>5, <2>1
<1>11. k > ustack_npage
  BY <1>2, <1>8, <1>9
<1> QED
  BY <1>4, <1>6, <1>8, <1>10, <1>11 DEF np, d, k

LEMMA StackGrowInv ==
  ASSUME IInv, NEW va \in Faults, StackGrow(va)
  PROVE  IInv'
<1> DEFINE np == PGROUNDDOWN(va)
<1>1. CASE Panic
  BY <1>1, PanicInv
<1>2. CASE ~ Panic
  <2>1. /\ state = "run" /\ OnStack(va) /\ MapPages(Pages(np, UstackTop))
        /\ ustack_npage' = (VA_MAX - 2 * PGSIZE - np) \div PGSIZE
        /\ UNCHANGED <<heap_top, alloc, state>>
    BY <1>2 DEF StackGrow
  <2>2. /\ PageStart(np) /\ MMAP_END <= np /\ np < UstackTop
        /\ ustack_npage' \in Nat /\ UstackTop' = np
    BY <2>1, StackPage DEF UstackTop
  <2> HIDE DEF np
  <2>3. /\ PageStart(UstackTop) /\ UstackTop \in Nat /\ np \in Nat /\ UstackTop <= TRAPFRAME
        /\ TRAPFRAME \in Nat /\ PageStart(TRAPFRAME) /\ MMAP_BEGIN \in Nat /\ MMAP_END \in Nat
        /\ MMAP_BEGIN < MMAP_END /\ PageStart(0)
    BY <2>2, Bounds, Layout DEF IInv, PageStart
  <2>4. \A a : a \in mapped <=> InParts(a, PGROUNDUP(heap_top), alloc, UstackTop)
    BY <2>1, Bounds
  <2>5. \A a : a \in Pages(np, UstackTop) <=> PageStart(a) /\ np <= a /\ a < UstackTop
    BY <2>2, <2>3, InPages
  <2>6. Pages(np, UstackTop) \subseteq Pages(0, TRAPFRAME)
    <3>1. ASSUME NEW a, PageStart(a), np <= a, a < UstackTop PROVE 0 <= a /\ a < TRAPFRAME
      BY <2>3, <3>1 DEF PageStart
    <3> QED
      BY <2>3, <2>5, <3>1, InPages
  <2>7. PGROUNDUP(heap_top) \in Nat /\ PGROUNDUP(heap_top) <= MMAP_BEGIN
    BY HeapEnd DEF IInv, PageStart
  <2>8. Pages(np, UstackTop) \cap mapped = {}
    <3>1. ASSUME NEW a, PageStart(a), np <= a, a < UstackTop,
                 InParts(a, PGROUNDUP(heap_top), alloc, UstackTop)
          PROVE  FALSE
      <4>1. \/ a < PGROUNDUP(heap_top)
            \/ a < MMAP_END
            \/ UstackTop <= a
        BY <3>1, Order
      <4> QED
        BY <2>2, <2>3, <2>7, <3>1, <4>1 DEF PageStart
    <3> QED
      BY <2>4, <2>5, <3>1
  <2>9. /\ mapped' = mapped \cup Pages(np, UstackTop) /\ mapped' \subseteq Pages(0, TRAPFRAME)
        /\ FramesExact' /\ frames' \in 0 .. Frames
    BY <2>1, <2>6, <2>8, MapCounts
  <2>10. ASSUME NEW a PROVE a \in mapped' <=> InParts(a, PGROUNDUP(heap_top'), alloc', UstackTop')
    <3>1. a \in mapped' <=> \/ InParts(a, PGROUNDUP(heap_top), alloc, UstackTop)
                            \/ PageStart(a) /\ np <= a /\ a < UstackTop
      BY <2>4, <2>5, <2>9
    <3>2. PageStart(a) => ((np <= a /\ a < TRAPFRAME) <=>
                             (np <= a /\ a < UstackTop) \/ (UstackTop <= a /\ a < TRAPFRAME))
      BY <2>2, <2>3 DEF PageStart
    <3>3. a \in mapped' <=> InParts(a, PGROUNDUP(heap_top), alloc, np)
      BY <3>1, <3>2 DEF InParts
    <3> QED
      BY <2>1, <2>2, <3>3
  <2>11. /\ PageStart(UstackTop') /\ MMAP_END <= UstackTop' /\ alloc' \subseteq Area
         /\ heap_top' \in UHEAP_START .. MMAP_BEGIN
    BY <2>1, <2>2, Bounds DEF IInv
  <2>12. SpaceExact'
    BY <2>10, <2>11, SpaceStep
  <2>13. TypeOK'
    BY <2>1, <2>2, <2>9 DEF IInv, TypeOK
  <2> QED
    BY <2>9, <2>11, <2>12, <2>13 DEF IInv
<1> QED
  BY <1>1, <1>2

LEMMA MmapInv ==
  ASSUME IInv, Mmap
  PROVE  IInv'
<1> DEFINE added == {p * PGSIZE : p \in alloc' \ alloc}
           gone == {p * PGSIZE : p \in alloc \ alloc'}
<1>1. /\ state = "run" /\ PS!Next /\ frames + Cardinality(added) <= Frames
      /\ mapped' = (mapped \ gone) \cup added
      /\ frames' = frames + Cardinality(added) - Cardinality(gone)
      /\ UNCHANGED <<heap_top, ustack_npage, state>>
  BY DEF Mmap
<1>2. alloc \subseteq Area /\ alloc' \subseteq Area /\ Area \subseteq Nat
  BY <1>1, Bounds, InArea DEF PS!Next, PS!Map, PS!Unmap, Area
<1>3. /\ \A a : a \in added <=> PageStart(a) /\ a \div PGSIZE \in alloc' \ alloc
      /\ \A a : a \in gone <=> PageStart(a) /\ a \div PGSIZE \in alloc \ alloc'
  <2>1. alloc' \ alloc \in SUBSET Nat /\ alloc \ alloc' \in SUBSET Nat
    BY <1>2
  <2> QED
    BY <2>1, InNumbers
<1>4. \A a : a \in mapped <=> InParts(a, PGROUNDUP(heap_top), alloc, UstackTop)
  BY <1>1, Bounds
<1> HIDE DEF added, gone
<1>5. \A a : PageStart(a) /\ a \div PGSIZE \in Area => MMAP_BEGIN <= a /\ a < MMAP_END
  BY InArea
<1>6. /\ PageStart(UstackTop) /\ UstackTop \in Nat /\ MMAP_END <= UstackTop
      /\ PageStart(PGROUNDUP(heap_top)) /\ PGROUNDUP(heap_top) <= MMAP_BEGIN
      /\ PGROUNDUP(heap_top) \in Nat /\ MMAP_BEGIN \in Nat /\ MMAP_END \in Nat
      /\ TRAPFRAME \in Nat /\ PageStart(TRAPFRAME) /\ PageStart(0) /\ MMAP_END + PGSIZE <= TRAPFRAME
      /\ PGSIZE \in Nat
  BY Bounds, HeapEnd, Layout DEF IInv, PageStart
<1>7. gone \subseteq mapped
  BY <1>3, <1>4 DEF InParts
<1>8. added \cap mapped = {}
  <2>1. ASSUME NEW a, PageStart(a), a \div PGSIZE \in alloc' \ alloc, 
               InParts(a, PGROUNDUP(heap_top), alloc, UstackTop)
        PROVE  FALSE
    <3>1. MMAP_BEGIN <= a /\ a < MMAP_END /\ a \in Nat
      BY <1>2, <1>5, <2>1 DEF PageStart
    <3>2. a < PGROUNDUP(heap_top) \/ UstackTop <= a
      BY <2>1, Order
    <3> QED
      BY <1>6, <3>1, <3>2
  <2> QED
    BY <1>3, <1>4, <2>1
<1>9. added \subseteq Pages(0, TRAPFRAME)
  <2>1. ASSUME NEW a, PageStart(a), a \div PGSIZE \in alloc' PROVE 0 <= a /\ a < TRAPFRAME
    <3>1. a < MMAP_END /\ a \in Nat
      BY <1>2, <1>5, <2>1 DEF PageStart
    <3> QED
      BY <1>6, <3>1
  <2> QED
    BY <1>3, <1>6, <2>1, InPages
<1>10. mapped' \subseteq Pages(0, TRAPFRAME)
  BY <1>1, <1>9 DEF IInv, TypeOK
<1>11. /\ IsFiniteSet(mapped) /\ IsFiniteSet(added) /\ IsFiniteSet(gone) /\ IsFiniteSet(mapped \ gone)
       /\ IsFiniteSet(mapped')
  BY <1>7, <1>9, <1>10, Bounds DEF IInv, TypeOK
<1>12. /\ Cardinality(mapped) \in Nat /\ Cardinality(added) \in Nat /\ Cardinality(gone) \in Nat
       /\ Cardinality(mapped \ gone) \in Nat /\ Cardinality(mapped') \in Nat
  BY <1>11, FS_CardinalityType
<1>13. Cardinality(mapped \ gone) = Cardinality(mapped) - Cardinality(gone)
  <2>1. mapped \cap gone = gone
    BY <1>7
  <2> QED
    BY <1>11, <2>1, FS_Difference
<1>14. Cardinality(mapped') = Cardinality(mapped \ gone) + Cardinality(added)
  <2>1. (mapped \ gone) \cap added = {}
    BY <1>8
  <2>2. Cardinality((mapped \ gone) \cap added) = 0
    BY <2>1, FS_EmptySet
  <2>3. Cardinality((mapped \ gone) \cup added)
          = Cardinality(mapped \ gone) + Cardinality(added) - Cardinality((mapped \ gone) \cap added)
    BY <1>11, FS_Union
  <2> QED
    BY <1>1, <1>12, <2>2, <2>3
<1>15. frames = Cardinality(mapped)
  BY DEF IInv, FramesExact
<1>16. FramesExact'
  <2>1. frames' = Cardinality(mapped')
    BY <1>1, <1>12, <1>13, <1>14, <1>15
  <2> QED
    BY <2>1 DEF FramesExact
<1>17. frames' \in 0 .. Frames
  <2>1. frames' = Cardinality(mapped') /\ Frames \in Nat
    BY <1>16, Layout DEF FramesExact
  <2> QED
    BY <1>1, <1>12, <1>15, <2>1
<1>18. UstackTop' = UstackTop
  BY <1>1 DEF UstackTop
<1>19. ASSUME NEW a PROVE a \in mapped' <=> InParts(a, PGROUNDUP(heap_top'), alloc', UstackTop')
  <2>1. a \in mapped' <=> \/ InParts(a, PGROUNDUP(heap_top), alloc, UstackTop)
                               /\ ~ (PageStart(a) /\ a \div PGSIZE \in alloc \ alloc')
                          \/ PageStart(a) /\ a \div PGSIZE \in alloc' \ alloc
    BY <1>1, <1>3, <1>4
  <2>2. ASSUME PageStart(a), a \div PGSIZE \in alloc
        PROVE  /\ a # USER_BASE /\ ~ (UHEAP_START <= a /\ a < PGROUNDUP(heap_top))
               /\ ~ (UstackTop <= a)
    <3>1. MMAP_BEGIN <= a /\ a < MMAP_END /\ a \in Nat
      BY <1>2, <1>5, <2>2 DEF PageStart
    <3>2. USER_BASE = PGSIZE /\ UHEAP_START = PGSIZE + PGSIZE /\ UHEAP_START <= MMAP_BEGIN
          /\ PGSIZE \in Nat \ {0}
      BY Layout
    <3> QED
      BY <1>6, <3>1, <3>2
  <2>3. a \in mapped' <=> InParts(a, PGROUNDUP(heap_top), alloc', UstackTop)
    BY <2>1, <2>2 DEF InParts
  <2> QED
    BY <1>1, <1>18, <2>3
<1>20. /\ PageStart(UstackTop') /\ MMAP_END <= UstackTop'
       /\ heap_top' \in UHEAP_START .. MMAP_BEGIN
  BY <1>1, <1>18 DEF IInv
<1>21. SpaceExact'
  BY <1>2, <1>19, <1>20, SpaceStep
<1>22. TypeOK'
  BY <1>1, <1>2, <1>10, <1>17 DEF IInv, TypeOK, Area
<1> QED
  BY <1>16, <1>20, <1>21, <1>22 DEF IInv

LEMMA DestroyInv ==
  ASSUME IInv, Destroy
  PROVE  IInv'
<1>1. PICK S : UnmapPages(S)
  BY DEF Destroy
<1>2. /\ mapped' \subseteq Pages(0, TRAPFRAME) /\ FramesExact' /\ frames' \in 0 .. Frames
  BY <1>1, UnmapCounts
<1>3. alloc' = {} /\ heap_top' = UHEAP_START /\ state' = "panic" /\ UNCHANGED ustack_npage
  BY DEF Destroy
<1>4. heap_top' \in UHEAP_START .. MMAP_BEGIN
  BY <1>3, Layout DEF PageStart
<1>5. PageStart(UstackTop') /\ MMAP_END <= UstackTop' /\ SpaceExact'
  BY <1>3 DEF IInv, UstackTop, SpaceExact
<1>6. TypeOK'
  BY <1>2, <1>3, <1>4, HeapTyped DEF IInv, TypeOK
<1> QED
  BY <1>2, <1>4, <1>5, <1>6 DEF IInv

LEMMA NextInv ==
  ASSUME HeapRequests
  PROVE  IInv /\ [Next]_vars => IInv'
<1> SUFFICES ASSUME IInv, [Next]_vars PROVE IInv'
  OBVIOUS
<1>1. CASE UNCHANGED vars
  BY <1>1 DEF vars, IInv, TypeOK, SpaceExact, FramesExact, UstackTop, AllocPages
<1>2. ASSUME NEW t \in Tops, Brk(t) PROVE IInv'
  BY <1>2, HeapGrowInv, HeapUngrowInv DEF Brk
<1>3. ASSUME NEW va \in Faults, Fault(va) PROVE IInv'
  BY <1>3, StackGrowInv, PanicInv DEF Fault, FaultKills
<1> QED
  BY <1>1, <1>2, <1>3, MmapInv, DestroyInv DEF Next

-----------------------------------------------------------------------------
(* The inductive invariant holds in every state of the specification. *)
THEOREM Invariance ==
  ASSUME HeapRequests
  PROVE  Spec => []IInv
<1>1. Init => IInv
  BY InitInv
<1>2. IInv /\ [Next]_vars => IInv'
  BY NextInv
<1> QED
  BY <1>1, <1>2, PTL DEF Spec

(* Neither sys_brk nor a fault on the stack takes the heap or the stack into the
   area of mmap (uvm_heap_grow, uvm_ustack_grow). *)
THEOREM ApartCorrect ==
  ASSUME HeapRequests
  PROVE  Spec => []Apart
<1>1. IInv => Apart
  <2> SUFFICES ASSUME IInv PROVE Apart
    OBVIOUS
  <2>1. TypeOK /\ StackAboveMmap
    BY DEF IInv, StackAboveMmap
  <2>2. heap_top <= MMAP_BEGIN
    BY Layout DEF IInv, PageStart
  <2>3. PGROUNDUP(heap_top) <= MMAP_BEGIN
    BY HeapEnd DEF IInv
  <2> QED
    BY <2>1, <2>2, <2>3 DEF Apart, HeapBelowMmap
<1> QED
  BY <1>1, Invariance, PTL

(* heap_top, ustack_npage and the regions of mmap say exactly what is mapped,
   until the address space is destroyed. *)
THEOREM SpaceCorrect ==
  ASSUME HeapRequests
  PROVE  Spec => []SpaceExact
<1>1. IInv => SpaceExact
  BY DEF IInv
<1> QED
  BY <1>1, Invariance, PTL

(* No call maps over a page that is mapped, or unmaps one twice: the process has
   one frame for each of its pages. *)
THEOREM FramesCorrect ==
  ASSUME HeapRequests
  PROVE  Spec => []FramesExact
<1>1. IInv => FramesExact
  BY DEF IInv
<1> QED
  BY <1>1, Invariance, PTL

(* A page fault that uvm_ustack_grow answers has its page mapped afterwards, and
   the stack has grown. *)
THEOREM FaultCorrect ==
  ASSUME HeapRequests
  PROVE  Spec => FaultServed
<1> DEFINE Served == \A va \in Faults : Fault(va) =>
                       \/ state' = "panic"
                       \/ /\ PGROUNDDOWN(va) \in mapped'
                          /\ ustack_npage' > ustack_npage
<1>1. ASSUME IInv, NEW va \in Faults, Fault(va), state' # "panic"
      PROVE  PGROUNDDOWN(va) \in mapped' /\ ustack_npage' > ustack_npage
  <2> DEFINE np == PGROUNDDOWN(va)
  <2>1. /\ OnStack(va) /\ MapPages(Pages(np, UstackTop))
        /\ ustack_npage' = (VA_MAX - 2 * PGSIZE - np) \div PGSIZE
    BY <1>1 DEF Fault, FaultKills, StackGrow, Panic
  <2>2. /\ PageStart(np) /\ np < UstackTop /\ ustack_npage' > ustack_npage
    BY <1>1, <2>1, StackPage
  <2>3. PageStart(UstackTop) /\ np <= np
    BY <1>1, <2>2 DEF IInv, PageStart
  <2>4. np \in Pages(np, UstackTop)
    BY <2>2, <2>3, InPages
  <2> QED
    BY <2>1, <2>2, <2>4 DEF MapPages
<1>2. IInv => Served
  BY <1>1
<1>3. IInv => [Served]_vars
  BY <1>2
<1>4. Spec => []IInv
  BY Invariance
<1>5. Spec => [][Served]_vars
  BY <1>3, <1>4, PTL
<1> QED
  BY <1>5 DEF FaultServed
=============================================================================
