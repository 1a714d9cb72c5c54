------------------------- MODULE MmapRegionsProofs -------------------------
(* The region list stays sorted and apart through every call, covers exactly the
   pages that are mapped, and loses no node; each call does what it answers, and
   the calls implement PageSet, for every area, number of nodes and number of
   frames, as long as the requests stay clear of the two defects. *)
EXTENDS MmapRegions, FiniteSetTheorems, WellFoundedInduction, TLAPS

(* The requests that may be made: none that hits a defect of mmap_merge or of a
   split with an empty store, and none whose size or end wraps. *)
Requests == /\ ~ NextOnlyMerge /\ ~ FullStoreSplit
            /\ \A n \in Lengths : n < SpanWrap
            /\ \A b \in Begins, n \in Lengths : b + n < AddrWrap

-----------------------------------------------------------------------------
(* The list as a set of regions: m is the first of the regions R that begin
   behind y; the links lead from the head, and from each region, to the next. *)
First(R, b, y, m) == /\ m \in R \cup {Null}
                     /\ m # Null => y < b[m]
                     /\ \A s \in R : y < b[s] => m # Null /\ b[m] <= b[s]

Linked(R, h, b, x) == /\ R \subseteq Node
                      /\ \A r \in R : b[r] \in Nat \ {0}
                      /\ \A r, s \in R : b[r] = b[s] => r = s
                      /\ First(R, b, 0, h)
                      /\ \A r \in R : First(R, b, b[r], x[r])

(* The regions are in the area, have pages, and do not touch. *)
Apart(R, b, n) == /\ \A r \in R : /\ b[r] \in Nat /\ n[r] \in Nat \ {0}
                                  /\ MMAP_BEGIN <= b[r] /\ b[r] + n[r] <= MMAP_END
                  /\ \A r, s \in R : r = s \/ b[r] + n[r] < b[s] \/ b[s] + n[s] < b[r]

Cov(R, b, n) == UNION {b[r] .. b[r] + n[r] - 1 : r \in R}

-----------------------------------------------------------------------------
(* The invariant *)
Held == OnList(ListHead)
Stored == {store[i] : i \in DOMAIN store}
Allocated == Cov(Held, begin, npages)
Shape == Linked(Held, ListHead, begin, next) /\ Apart(Held, begin, npages)

Taking == {"m_search", "m_overlap", "m_bounds", "m_place", "m_merge"}
Nodes == /\ Conservation
         /\ pc # "m_last"
         /\ pc \in Taking => new \in Node /\ new \notin Held /\ new \notin Stored

Block == want .. want + len - 1
Pages == pc # "panic" =>
           /\ mapped = Allocated \ (IF pc = "m_map" THEN va .. want + len - 1 ELSE {})
           /\ frames = Cardinality(mapped)

(* Of the running call *)
Gap(a) == a .. a + len - 1 \subseteq Area \ before
LowestGap(a) == Gap(a) /\ \A c \in Area : Gap(c) => a <= c
Clear(r) == begin[r] + npages[r] <= want \/ want + len <= begin[r]
Passed(r) == cur = Null \/ begin[r] < begin[cur]
NextOnly(a) == /\ \E r \in Held : begin[r] = a + len
               /\ \A r \in Held : begin[r] + npages[r] # a

Mmap == pc \in {"m_alloc"} \cup Taking =>
  /\ op \in {"mmap", "mmap_any"} /\ before = Allocated
  /\ len \in 1 .. SpanWrap - 1 /\ want + len < AddrWrap
  /\ op = "mmap" => want # 0
  /\ pc = "m_alloc" /\ op = "mmap_any" => want = 0
  /\ want = 0 => \A a \in Area : LowestGap(a) => ~ NextOnly(a)
  /\ want # 0 => ~ NextOnly(want)
  /\ pc # "m_alloc" => npages[new] = len

Search == pc = "m_search" =>
  /\ op = "mmap_any" /\ want = 0 /\ va \in MMAP_BEGIN .. MMAP_END /\ cur \in Held \cup {Null}
  /\ \A r \in Held : IF Passed(r) THEN begin[r] + npages[r] <= va ELSE va <= begin[r]
  /\ \A a \in Area : Gap(a) => va <= a

Overlap == pc = "m_overlap" =>
  /\ op = "mmap" /\ cur \in Held \cup {Null}
  /\ \A r \in Held : Passed(r) => Clear(r)

Found == pc \in {"m_bounds", "m_place", "m_merge"} =>
  /\ want # 0 /\ \A r \in Held : Clear(r)
  /\ op = "mmap_any" => LowestGap(want)

Place == pc \in {"m_place", "m_merge"} =>
  /\ MMAP_BEGIN <= want /\ want + len <= MMAP_END /\ begin[new] = want
  /\ next[Dummy] = list /\ begin[Dummy] = 0 /\ npages[Dummy] = 0
  /\ pre \in Held \cup {Dummy} /\ begin[pre] < want
  /\ pc = "m_merge" /\ next[pre] # Null => want <= begin[next[pre]]

Done == pc \in {"m_map", "show"} =>
  IF op = "munmap" THEN pc = "show" /\ Allocated = before \ Block
  ELSE /\ len \in Nat \ {0} /\ want + len <= MMAP_END /\ va <= want + len
       /\ Block \subseteq Area \ before /\ Allocated = before \cup Block
       /\ op = "mmap_any" => LowestGap(want)
       /\ pc = "m_map" => want <= va

Munmap == pc = "u_walk" =>
  /\ op = "munmap" /\ len \in 1 .. SpanWrap - 1 /\ want + len < AddrWrap
  /\ begin[Dummy] = 0 /\ pre \in Held \cup {Dummy} /\ next[pre] = cur
  /\ \A r \in Held : Passed(r) => Clear(r)
  /\ Allocated \subseteq before /\ before \ Allocated \subseteq Block
  /\ store = <<>> => \A r \in Held : ~ (begin[r] < want /\ want + len < begin[r] + npages[r])

Running == Mmap /\ Search /\ Overlap /\ Found /\ Place /\ Done /\ Munmap
IInv == TypeOK /\ Shape /\ Nodes /\ Pages /\ Running /\ CallExact /\ FirstFit

-----------------------------------------------------------------------------
(* Induction, through the least member of a set of numbers. *)
LEMMA Least ==
  ASSUME NEW T, T \subseteq Nat, T # {}
  PROVE  \E n \in T : \A m \in T : n <= m
<1> DEFINE F == {0 .. n : n \in T}
<1>1. F \subseteq FiniteSubsetsOf(Nat) /\ F # {}
  <2>1. \A n \in Nat : IsFiniteSet(0 .. n) /\ 0 .. n \subseteq Nat
    BY FS_Interval
  <2> QED
    BY <2>1 DEF FiniteSubsetsOf
<1>2. PICK U \in F : \A V \in F : ~ (<<V, U>> \in StrictSubsetOrdering(Nat))
  <2> HIDE DEF F
  <2> QED
    BY <1>1, FS_StrictSubsetOrderingWellFounded, WFMin
<1>3. PICK n \in T : U = 0 .. n
  OBVIOUS
<1>4. ASSUME NEW m \in T, m < n PROVE FALSE
  <2>1. /\ 0 .. m \in F /\ 0 .. m \subseteq 0 .. n
        /\ n \in 0 .. n /\ n \notin 0 .. m /\ 0 .. n \subseteq Nat
    BY <1>4
  <2>2. <<0 .. m, 0 .. n>> \in StrictSubsetOrdering(Nat)
    BY <2>1 DEF StrictSubsetOrdering
  <2> QED
    BY <1>2, <1>3, <2>1, <2>2
<1> QED
  BY <1>4

LEMMA Induction ==
  ASSUME NEW T, 0 \in T, \A n \in Nat : n \in T => n + 1 \in T
  PROVE  Nat \subseteq T
<1> DEFINE U == Nat \ T
<1> SUFFICES ASSUME U # {} PROVE FALSE
  OBVIOUS
<1>1. PICK n \in U : \A m \in U : n <= m
  <2> HIDE DEF U
  <2>1. U \subseteq Nat
    BY DEF U
  <2> QED
    BY <2>1, Least
<1>2. n # 0 /\ n - 1 \in Nat /\ n - 1 \notin U
  BY <1>1
<1> QED
  BY <1>1, <1>2

-----------------------------------------------------------------------------
(* The walk of a list: its links are x, its head is h. *)
At(x, g, h, k) == IF k = 0 THEN h ELSE IF g[k - 1] = Null THEN Null ELSE x[g[k - 1]]
WalkOf(x, h) == LET at[k \in 0 .. N_MMAP] ==
                      IF k = 0 THEN h
                      ELSE IF at[k - 1] = Null THEN Null ELSE x[at[k - 1]]
                IN  at
Reached(x, h) == {WalkOf(x, h)[k] : k \in 0 .. N_MMAP} \ {Null}

LEMMA WalkDefined ==
  ASSUME NEW x, NEW h
  PROVE  \A k \in 0 .. N_MMAP : WalkOf(x, h)[k] = At(x, WalkOf(x, h), h, k)
<1> DEFINE Is(g, n) == g = [k \in 0 .. n |-> IF k = 0 THEN h
                                ELSE IF g[k - 1] = Null THEN Null ELSE x[g[k - 1]]]
           T == {n \in Nat : \E g : Is(g, n)}
<1>1. 0 \in T
  <2> DEFINE g == [k \in 0 .. 0 |-> h]
  <2>1. Is(g, 0)
    OBVIOUS
  <2> HIDE DEF g
  <2> QED
    BY <2>1
<1>2. ASSUME NEW n \in Nat, n \in T PROVE n + 1 \in T
  <2>1. PICK g : Is(g, n)
    BY <1>2
  <2> DEFINE f == [k \in 0 .. n + 1 |->
                     IF k = n + 1 THEN IF g[n] = Null THEN Null ELSE x[g[n]] ELSE g[k]]
  <2>2. \A k \in 0 .. n : f[k] = g[k]
    OBVIOUS
  <2>3. ASSUME NEW k \in 0 .. n
        PROVE  f[k] = IF k = 0 THEN h ELSE IF f[k - 1] = Null THEN Null ELSE x[f[k - 1]]
    <3>1. g[k] = IF k = 0 THEN h ELSE IF g[k - 1] = Null THEN Null ELSE x[g[k - 1]]
      BY <2>1
    <3>2. k # 0 => k - 1 \in 0 .. n
      OBVIOUS
    <3> QED
      BY <2>2, <3>1, <3>2
  <2>4. f[n + 1] = IF f[n] = Null THEN Null ELSE x[f[n]]
    BY <2>2
  <2>5. f = [k \in 0 .. n + 1 |-> f[k]]
    OBVIOUS
  <2> HIDE DEF f
  <2>6. \A k \in 0 .. n + 1 : k \in 0 .. n \/ k = n + 1
    OBVIOUS
  <2>7. \A k \in 0 .. n + 1 :
          f[k] = IF k = 0 THEN h ELSE IF f[k - 1] = Null THEN Null ELSE x[f[k - 1]]
    <3>1. n + 1 # 0 /\ (n + 1) - 1 = n
      OBVIOUS
    <3> QED
      BY <2>3, <2>4, <2>6, <3>1
  <2>8. Is(f, n + 1)
    BY <2>5, <2>7
  <2> QED
    BY <2>8
<1>3. N_MMAP \in T
  <2> HIDE DEF T
  <2> QED
    BY <1>1, <1>2, Induction, BoundsAssumption
<1>4. PICK g : Is(g, N_MMAP)
  BY <1>3
<1>5. WalkOf(x, h) = [k \in 0 .. N_MMAP |-> IF k = 0 THEN h
         ELSE IF WalkOf(x, h)[k - 1] = Null THEN Null ELSE x[WalkOf(x, h)[k - 1]]]
  BY <1>4 DEF WalkOf
<1> QED
  BY <1>5 DEF At

(* A sorted list walks through its regions, and in as many steps as there are
   nodes through all of them. *)
LEMMA Reaches ==
  ASSUME NEW R, NEW h, NEW b, NEW x, Linked(R, h, b, x)
  PROVE  Reached(x, h) = R
<1> DEFINE W == WalkOf(x, h)
           K == 0 .. N_MMAP
<1>0. N_MMAP \in Nat \ {0} /\ Null \notin Node
  BY BoundsAssumption DEF Node, Null
<1>1. \A k \in K : W[k] = At(x, W, h, k)
  BY WalkDefined
<1> HIDE DEF W
<1>2. \A k \in K : W[k] \in R \cup {Null}
  <2> DEFINE T == {k \in Nat : k \in K => W[k] \in R \cup {Null}}
  <2>1. 0 \in T
    BY <1>0, <1>1 DEF At, Linked, First
  <2>2. ASSUME NEW k \in Nat, k \in T PROVE k + 1 \in T
    <3> SUFFICES ASSUME k + 1 \in K PROVE W[k + 1] \in R \cup {Null}
      OBVIOUS
    <3>1. k \in K /\ k + 1 # 0 /\ (k + 1) - 1 = k
      BY <1>0
    <3>2. W[k] \in R \cup {Null} /\ W[k + 1] = IF W[k] = Null THEN Null ELSE x[W[k]]
      BY <1>1, <2>2, <3>1 DEF At
    <3> QED
      BY <3>2 DEF Linked, First
  <2> HIDE DEF T
  <2>3. Nat \subseteq T
    BY <2>1, <2>2, Induction
  <2> QED
    BY <1>0, <2>3 DEF T
<1>3. ASSUME NEW r \in R, \A k \in K : W[k] # r PROVE FALSE
  <2> DEFINE T == {k \in Nat : k \in K =>
                     /\ W[k] \in R /\ b[W[k]] < b[r]
                     /\ \A j \in 0 .. k - 1 : b[W[j]] < b[W[k]]}
  <2>0. \A s \in R : b[s] \in Nat \ {0}
    BY DEF Linked
  <2>1. 0 \in T
    <3>1. W[0] = h /\ 0 \in K
      BY <1>0, <1>1 DEF At
    <3>2. h # Null /\ h \in R /\ b[h] <= b[r]
      BY <2>0 DEF Linked, First
    <3>3. b[h] # b[r]
      BY <1>3, <3>1, <3>2 DEF Linked
    <3>4. 0 .. 0 - 1 = {}
      OBVIOUS
    <3>5. b[h] < b[r]
      BY <2>0, <3>2, <3>3
    <3> QED
      BY <3>1, <3>2, <3>4, <3>5
  <2>2. ASSUME NEW k \in Nat, k \in T PROVE k + 1 \in T
    <3> SUFFICES ASSUME k + 1 \in K
                 PROVE  /\ W[k + 1] \in R /\ b[W[k + 1]] < b[r]
                        /\ \A j \in 0 .. (k + 1) - 1 : b[W[j]] < b[W[k + 1]]
      OBVIOUS
    <3>1. k \in K /\ k + 1 # 0 /\ (k + 1) - 1 = k
      BY <1>0
    <3>2. W[k] \in R /\ b[W[k]] < b[r] /\ \A j \in 0 .. k - 1 : b[W[j]] < b[W[k]]
      BY <2>2, <3>1
    <3>3. W[k + 1] = x[W[k]]
      BY <1>0, <1>1, <3>1, <3>2 DEF At, Linked
    <3>4. First(R, b, b[W[k]], x[W[k]])
      BY <3>2 DEF Linked
    <3>5. W[k + 1] \in R /\ b[W[k]] < b[W[k + 1]] /\ b[W[k + 1]] <= b[r]
      BY <3>2, <3>3, <3>4 DEF First
    <3>6. b[W[k + 1]] # b[r]
      BY <1>3, <3>5 DEF Linked
    <3>7. \A j \in 0 .. k : j = k \/ j \in 0 .. k - 1
      OBVIOUS
    <3>8. \A j \in 0 .. k - 1 : W[j] \in R
      <4>1. \A j \in 0 .. k - 1 : j \in K
        BY <1>0, <3>1
      <4>2. \A j \in 0 .. k - 1 : W[j] # Null
        <5> SUFFICES ASSUME NEW j \in 0 .. k - 1, W[j] = Null PROVE FALSE
          OBVIOUS
        <5> DEFINE Q == {i \in Nat : j + i \in K => W[j + i] = Null}
        <5>1. 0 \in Q
          OBVIOUS
        <5>2. ASSUME NEW i \in Nat, i \in Q PROVE i + 1 \in Q
          <6> SUFFICES ASSUME j + (i + 1) \in K PROVE W[j + (i + 1)] = Null
            OBVIOUS
          <6>1. j + i \in K /\ j + (i + 1) # 0 /\ (j + (i + 1)) - 1 = j + i
            BY <1>0
          <6>2. W[j + i] = Null
            BY <5>2, <6>1
          <6> QED
            BY <1>1, <6>1, <6>2 DEF At
        <5> HIDE DEF Q
        <5>3. k - j \in Nat /\ j + (k - j) = k
          OBVIOUS
        <5>4. k - j \in Q
          BY <5>1, <5>2, <5>3, Induction
        <5>5. W[k] = Null
          BY <3>1, <5>3, <5>4 DEF Q
        <5> QED
          BY <1>0, <3>2, <5>5 DEF Linked
      <4> QED
        BY <1>2, <4>1, <4>2
    <3>9. \A j \in 0 .. k : b[W[j]] < b[W[k + 1]]
      BY <2>0, <3>2, <3>5, <3>7, <3>8
    <3> QED
      BY <2>0, <3>1, <3>5, <3>6, <3>9
  <2> HIDE DEF T
  <2>3. Nat \subseteq T
    BY <2>1, <2>2, Induction
  <2>4. ASSUME NEW k \in K PROVE /\ W[k] \in R
                                 /\ \A j \in 0 .. k - 1 : b[W[j]] < b[W[k]]
    BY <1>0, <2>3 DEF T
  <2> DEFINE f == [k \in K |-> W[k]]
  <2>5. f \in [K -> Node]
    BY <2>4 DEF Linked
  <2>6. IsFiniteSet(K) /\ Cardinality(K) = N_MMAP + 1
    BY <1>0, FS_Interval
  <2>7. IsFiniteSet(Node) /\ Cardinality(Node) = N_MMAP
    BY <1>0, FS_Interval DEF Node
  <2>8. PICK i, j \in K : i # j /\ f[i] = f[j]
    <3> HIDE DEF f, K
    <3>1. Cardinality(Node) < Cardinality(K)
      BY <1>0, <2>6, <2>7
    <3> QED
      BY <2>5, <2>6, <2>7, <3>1, FS_PigeonHole
  <2>9. W[i] = W[j] /\ W[i] \in R /\ b[W[i]] \in Nat
    BY <2>0, <2>4, <2>8
  <2>10. i \in 0 .. j - 1 \/ j \in 0 .. i - 1
    BY <1>0, <2>8
  <2>11. b[W[i]] < b[W[i]]
    BY <2>4, <2>9, <2>10
  <2> QED
    BY <2>9, <2>11
<1>4. Reached(x, h) = {W[k] : k \in K} \ {Null}
  BY DEF Reached, W
<1>5. Null \notin R
  BY <1>0 DEF Linked
<1>6. \A r \in R : \E k \in K : W[k] = r
  BY <1>3
<1> HIDE DEF K
<1> QED
  BY <1>2, <1>4, <1>5, <1>6

-----------------------------------------------------------------------------
(* Surgery on sorted lists.  Dummy begins at 0, before every region. *)
LEMMA SameLinked ==
  ASSUME NEW R, NEW h, NEW b, NEW x, Linked(R, h, b, x), NEW c, NEW y,
         \A r \in R : c[r] \in Nat \ {0} /\ y[r] = x[r],
         \A r, s \in R : b[r] < b[s] <=> c[r] < c[s]
  PROVE  Linked(R, h, c, y)
<1>1. /\ R \subseteq Node /\ \A r \in R : b[r] \in Nat \ {0}
      /\ \A r, s \in R : b[r] = b[s] => r = s
  BY DEF Linked
<1>2. First(R, b, 0, h) /\ \A r \in R : First(R, b, b[r], x[r])
  BY DEF Linked
<1>3. \A r, s \in R : b[r] <= b[s] => c[r] <= c[s]
  BY <1>1
<1>4. \A r, s \in R : c[r] = c[s] => r = s
  BY <1>1
<1>5. First(R, c, 0, h)
  BY <1>1, <1>2, <1>3 DEF First
<1>6. ASSUME NEW r \in R PROVE First(R, c, c[r], y[r])
  BY <1>1, <1>2, <1>3 DEF First
<1> QED
  BY <1>1, <1>4, <1>5, <1>6 DEF Linked

Insert(R, b, x, p, n, c, y) ==
  /\ Linked(R, x[Dummy], b, x) /\ b[Dummy] = 0 /\ p \in R \cup {Dummy} /\ n \in Node \ R
  /\ c[n] \in Nat /\ b[p] < c[n] /\ (x[p] # Null => c[n] < b[x[p]])
  /\ \A q \in R : c[q] = b[q]
  /\ y[n] = x[p] /\ y[p] = n /\ \A q \in (R \cup {Dummy}) \ {p} : y[q] = x[q]

LEMMA InsertLinked ==
  ASSUME NEW R, NEW b, NEW x, NEW p, NEW n, NEW c, NEW y, Insert(R, b, x, p, n, c, y)
  PROVE  Linked(R \cup {n}, y[Dummy], c, y)
<1> USE DEF Insert
<1> DEFINE S == R \cup {n}
<1>1. /\ R \subseteq Node /\ \A r \in R : b[r] \in Nat \ {0}
      /\ \A r, s \in R : b[r] = b[s] => r = s
      /\ Dummy \notin Node /\ n # Null /\ n # p /\ n # Dummy /\ Null \notin R
  BY BoundsAssumption DEF Linked, Node, Dummy, Null
<1>2. \A q \in R \cup {Dummy} : First(R, b, b[q], x[q])
  BY DEF Linked
<1>3. b[p] \in Nat
  BY <1>1
<1>4. \A q \in R : b[q] # c[n]
  <2> SUFFICES ASSUME NEW q \in R, b[q] = c[n] PROVE FALSE
    OBVIOUS
  <2>1. x[p] # Null /\ x[p] \in R /\ b[x[p]] <= b[q]
    BY <1>2, <1>3 DEF First
  <2> QED
    BY <1>1, <2>1
<1>5. First(S, c, c[n], y[n])
  <2>1. First(R, b, b[p], x[p])
    BY <1>2
  <2>2. x[p] \in S \cup {Null} /\ (x[p] # Null => x[p] \in R /\ c[n] < c[x[p]])
    BY <2>1 DEF First
  <2>3. ASSUME NEW s \in S, c[n] < c[s] PROVE x[p] # Null /\ c[x[p]] <= c[s]
    <3>1. s \in R /\ b[p] < b[s]
      BY <1>1, <1>3, <2>3
    <3> QED
      BY <2>1, <2>2, <3>1 DEF First
  <2> QED
    BY <2>2, <2>3 DEF First
<1>6. First(S, c, b[p], y[p])
  <2>1. First(R, b, b[p], x[p])
    BY <1>2
  <2>2. ASSUME NEW s \in S, b[p] < c[s] PROVE c[n] <= c[s]
    <3>1. CASE s \in R
      <4>1. x[p] # Null /\ b[x[p]] <= b[s] /\ x[p] \in R
        BY <2>1, <2>2, <3>1 DEF First
      <4> QED
        BY <1>1, <3>1, <4>1
    <3>2. CASE s = n
      BY <3>2
    <3> QED
      BY <3>1, <3>2
  <2> QED
    BY <1>1, <2>2 DEF First
<1>7. ASSUME NEW q \in R \cup {Dummy}, q # p PROVE First(S, c, b[q], y[q])
  <2>1. First(R, b, b[q], x[q]) /\ y[q] = x[q] /\ b[q] \in Nat
    BY <1>1, <1>2, <1>7
  <2>2. x[q] \in S \cup {Null} /\ (x[q] # Null => x[q] \in R /\ b[q] < c[x[q]])
    BY <2>1 DEF First
  <2>3. ASSUME b[q] < c[n] PROVE x[q] # Null /\ b[x[q]] <= c[n]
    <3>1. CASE b[q] < b[p]
      <4>1. p \in R
        BY <1>1, <2>1, <3>1
      <4>2. x[q] # Null /\ x[q] \in R /\ b[x[q]] <= b[p]
        BY <2>1, <3>1, <4>1 DEF First
      <4> QED
        BY <1>1, <1>3, <4>2
    <3>2. CASE b[p] < b[q]
      <4>1. First(R, b, b[p], x[p]) /\ q \in R
        BY <1>2, <1>3, <3>2
      <4>2. x[p] # Null /\ x[p] \in R /\ b[x[p]] <= b[q]
        BY <3>2, <4>1 DEF First
      <4> QED
        BY <1>1, <2>1, <2>3, <4>2
    <3>3. b[q] # b[p]
      BY <1>1, <1>7
    <3> QED
      BY <1>3, <2>1, <3>1, <3>2, <3>3
  <2>4. ASSUME NEW s \in S, b[q] < c[s] PROVE x[q] # Null /\ c[x[q]] <= c[s]
    BY <2>1, <2>2, <2>3, <2>4 DEF First
  <2> QED
    BY <2>1, <2>2, <2>4 DEF First
<1>8. \A q \in R \cup {Dummy} : First(S, c, b[q], y[q])
  BY <1>6, <1>7
<1>9. \A r \in S : c[r] \in Nat \ {0}
  BY <1>1, <1>3
<1>10. \A r, s \in S : c[r] = c[s] => r = s
  BY <1>1, <1>4
<1>11. \A r \in S : First(S, c, c[r], y[r])
  BY <1>5, <1>8
<1> HIDE DEF S
<1>12. S \subseteq Node /\ First(S, c, 0, y[Dummy])
  BY <1>1, <1>8 DEF S
<1> QED
  BY <1>9, <1>10, <1>11, <1>12 DEF Linked, S

LEMMA RemoveLinked ==
  ASSUME NEW R, NEW b, NEW x, Linked(R, x[Dummy], b, x), b[Dummy] = 0,
         NEW p \in R \cup {Dummy}, NEW c, NEW y, x[p] # Null,
         \A q \in R \ {x[p]} : c[q] = b[q],
         y[p] = x[x[p]],
         \A q \in (R \cup {Dummy}) \ {p, x[p]} : y[q] = x[q]
  PROVE  Linked(R \ {x[p]}, y[Dummy], c, y)
<1> DEFINE d == x[p]
           S == R \ {d}
<1>1. /\ R \subseteq Node /\ \A r \in R : b[r] \in Nat \ {0}
      /\ \A r, s \in R : b[r] = b[s] => r = s
      /\ Dummy \notin Node /\ Null \notin R /\ Dummy # Null
  BY BoundsAssumption DEF Linked, Node, Dummy, Null
<1>2. \A q \in R \cup {Dummy} : First(R, b, b[q], x[q]) /\ b[q] \in Nat
  BY <1>1 DEF Linked
<1>3. d \in R /\ b[p] < b[d] /\ d # Dummy
  BY <1>1, <1>2 DEF First
<1> HIDE DEF d
<1>4. ASSUME NEW q \in (R \cup {Dummy}) \ {d} PROVE First(S, c, b[q], y[q])
  <2>1. CASE q = p
    <3>1. y[q] = x[d] /\ First(R, b, b[d], x[d]) /\ First(R, b, b[p], d)
      BY <1>2, <1>3, <2>1 DEF d
    <3>2. x[d] # Null => x[d] \in S /\ b[p] < b[x[d]]
      BY <1>1, <1>2, <1>3, <3>1 DEF First
    <3>3. ASSUME NEW s \in S, b[p] < b[s] PROVE x[d] # Null /\ b[x[d]] <= b[s]
      <4>1. b[d] <= b[s] /\ b[d] # b[s]
        BY <1>1, <1>3, <3>1, <3>3 DEF First
      <4>2. b[d] < b[s]
        BY <1>1, <1>3, <4>1
      <4> QED
        BY <3>1, <4>2 DEF First
    <3>4. \A s \in S : c[s] = b[s]
      BY DEF d
    <3>5. x[d] \in S \cup {Null}
      BY <3>1, <3>2 DEF First
    <3> QED
      BY <2>1, <3>1, <3>2, <3>3, <3>4, <3>5 DEF First
  <2>2. CASE q # p
    <3>1. y[q] = x[q] /\ First(R, b, b[q], x[q]) /\ b[q] \in Nat /\ b[p] \in Nat
      BY <1>2, <1>4, <2>2 DEF d
    <3>2. x[q] # d
      <4> SUFFICES ASSUME x[q] = d PROVE FALSE
        OBVIOUS
      <4>1. b[q] < b[d] /\ First(R, b, b[p], d)
        BY <1>1, <1>2, <1>3, <3>1 DEF First, d
      <4>2. CASE b[q] < b[p]
        <5>1. p \in R
          BY <3>1, <4>2
        <5>2. b[d] <= b[p]
          BY <3>1, <4>2, <5>1 DEF First
        <5> QED
          BY <1>1, <1>3, <3>1, <5>2
      <4>3. CASE b[p] < b[q]
        <5>1. q \in R
          BY <3>1, <4>3
        <5>2. b[d] <= b[q]
          BY <4>1, <4>3, <5>1 DEF First
        <5> QED
          BY <1>1, <1>3, <3>1, <4>1, <5>2
      <4>4. b[q] # b[p]
        BY <1>1, <2>2
      <4> QED
        BY <3>1, <4>2, <4>3, <4>4
    <3>3. \A s \in S : c[s] = b[s]
      BY DEF d
    <3> QED
      BY <3>1, <3>2, <3>3 DEF First
  <2> QED
    BY <2>1, <2>2
<1>5. \A s \in S : c[s] = b[s]
  BY DEF d
<1>6. /\ S \subseteq Node /\ \A r \in S : c[r] \in Nat \ {0}
      /\ \A r, s \in S : c[r] = c[s] => r = s
  BY <1>1, <1>5
<1>7. First(S, c, 0, y[Dummy])
  BY <1>3, <1>4
<1>8. \A r \in S : First(S, c, c[r], y[r])
  BY <1>4, <1>5
<1> HIDE DEF S
<1>9. Linked(S, y[Dummy], c, y)
  BY <1>6, <1>7, <1>8 DEF Linked
<1> QED
  BY <1>9 DEF S, d

-----------------------------------------------------------------------------
(* Regions that do not touch, and the pages they cover *)
LEMMA InCov ==
  ASSUME NEW R, NEW b, NEW n, Apart(R, b, n)
  PROVE  /\ Cov(R, b, n) \subseteq Area
         /\ \A a : a \in Cov(R, b, n) <=> a \in Nat /\ \E r \in R : b[r] <= a /\ a < b[r] + n[r]
<1>1. \A r \in R : b[r] \in Nat /\ n[r] \in Nat /\ MMAP_BEGIN <= b[r] /\ b[r] + n[r] <= MMAP_END
  BY DEF Apart
<1>2. \A r \in R : \A a : a \in b[r] .. b[r] + n[r] - 1 <=> a \in Nat /\ b[r] <= a /\ a < b[r] + n[r]
  BY <1>1
<1>3. \A a : a \in Cov(R, b, n) <=> \E r \in R : a \in b[r] .. b[r] + n[r] - 1
  BY DEF Cov
<1>4. \A r \in R : \A a \in Nat : b[r] <= a /\ a < b[r] + n[r] => a \in Area
  BY <1>1, BoundsAssumption DEF Area
<1> QED
  BY <1>2, <1>3, <1>4

(* The end of a region, as the code computes it. *)
LEMMA NoWrap ==
  ASSUME NEW a \in Nat, NEW n \in Nat, n < SpanWrap, a + n < AddrWrap
  PROVE  Span(n) = n /\ Plus(a, n) = a + n
<1>1. SpanWrap \in Nat \ {0} /\ AddrWrap \in Nat \ {0} /\ a + n \in Nat
  BY BoundsAssumption
<1>2. (n % SpanWrap) = n
  BY <1>1
<1>3. ((a + n) % AddrWrap) = a + n
  BY <1>1
<1> QED
  BY <1>2, <1>3 DEF Span, Plus

LEMMA Ends ==
  ASSUME NEW R, NEW b, NEW n, Apart(R, b, n)
  PROVE  \A r \in R : /\ b[r] \in Nat /\ n[r] \in Nat \ {0} /\ n[r] < SpanWrap
                      /\ Span(n[r]) = n[r] /\ Plus(b[r], n[r]) = b[r] + n[r]
                      /\ MMAP_BEGIN <= b[r] /\ b[r] + n[r] <= MMAP_END
<1> SUFFICES ASSUME NEW r \in R
             PROVE  /\ b[r] \in Nat /\ n[r] \in Nat \ {0} /\ n[r] < SpanWrap
                    /\ Span(n[r]) = n[r] /\ Plus(b[r], n[r]) = b[r] + n[r]
                    /\ MMAP_BEGIN <= b[r] /\ b[r] + n[r] <= MMAP_END
  OBVIOUS
<1>1. b[r] \in Nat /\ n[r] \in Nat \ {0} /\ MMAP_BEGIN <= b[r] /\ b[r] + n[r] <= MMAP_END
  BY DEF Apart
<1>2. n[r] < SpanWrap /\ b[r] + n[r] < AddrWrap
  BY <1>1, BoundsAssumption
<1> QED
  BY <1>1, <1>2, NoWrap

LEMMA SubApart ==
  ASSUME NEW R, NEW b, NEW n, Apart(R, b, n), NEW Q, Q \subseteq R, NEW c, NEW m,
         \A r \in Q : c[r] = b[r] /\ m[r] = n[r]
  PROVE  Apart(Q, c, m) /\ Cov(Q, c, m) = Cov(Q, b, n)
<1>1. Apart(Q, c, m) /\ Apart(Q, b, n)
  BY DEF Apart
<1> QED
  BY <1>1, InCov

(* One region is put in, or takes another place or size. *)
Run(a, k) == a .. a + k - 1
Put(R, b, n, d, c, m) ==
  /\ c[d] \in Nat /\ m[d] \in Nat \ {0} /\ MMAP_BEGIN <= c[d] /\ c[d] + m[d] <= MMAP_END
  /\ \A r \in R \ {d} : /\ c[r] = b[r] /\ m[r] = n[r]
                        /\ b[r] + n[r] < c[d] \/ c[d] + m[d] < b[r]

Grows(R, b, n, d, c, m) == Cov(R \cup {d}, c, m) = Cov(R \ {d}, b, n) \cup Run(c[d], m[d])

LEMMA PutApart ==
  ASSUME NEW R, NEW b, NEW n, Apart(R, b, n), NEW d, NEW c, NEW m, Put(R, b, n, d, c, m)
  PROVE  Apart(R \cup {d}, c, m) /\ Grows(R, b, n, d, c, m)
<1> USE DEF Put, Run
<1>1. Apart(R \ {d}, b, n) /\ Apart(R \ {d}, c, m)
  BY DEF Apart
<1>2. Apart(R \cup {d}, c, m)
  <2>1. \A r \in R \cup {d} : r = d \/ r \in R \ {d}
    OBVIOUS
  <2>2. \A r \in R \cup {d} : /\ c[r] \in Nat /\ m[r] \in Nat \ {0}
                              /\ MMAP_BEGIN <= c[r] /\ c[r] + m[r] <= MMAP_END
    BY <1>1, <2>1 DEF Apart
  <2>3. ASSUME NEW r \in R \cup {d}, NEW s \in R \cup {d}
        PROVE  r = s \/ c[r] + m[r] < c[s] \/ c[s] + m[s] < c[r]
    BY <1>1, <2>1 DEF Apart
  <2> QED
    BY <2>2, <2>3 DEF Apart
<1>3. \A a : a \in c[d] .. c[d] + m[d] - 1 <=> a \in Nat /\ c[d] <= a /\ a < c[d] + m[d]
  OBVIOUS
<1>4. \A a : a \in Cov(R \cup {d}, c, m) <=>
               a \in Nat /\ \E r \in R \cup {d} : c[r] <= a /\ a < c[r] + m[r]
  BY <1>2, InCov
<1>5. \A a : a \in Cov(R \ {d}, b, n) <=>
               a \in Nat /\ \E r \in R \ {d} : b[r] <= a /\ a < b[r] + n[r]
  BY <1>1, InCov
<1>6. \A a : a \in Cov(R \cup {d}, c, m) <=>
               a \in Cov(R \ {d}, b, n) \/ a \in c[d] .. c[d] + m[d] - 1
  BY <1>3, <1>4, <1>5
<1> QED
  BY <1>2, <1>6 DEF Grows

LEMMA DropCov ==
  ASSUME NEW R, NEW b, NEW n, Apart(R, b, n), NEW d \in R
  PROVE  /\ Apart(R \ {d}, b, n)
         /\ Cov(R \ {d}, b, n) = Cov(R, b, n) \ Run(b[d], n[d])
         /\ Run(b[d], n[d]) \subseteq Cov(R, b, n)
<1> USE DEF Run
<1>1. Apart(R \ {d}, b, n)
  BY DEF Apart
<1>2. \A r \in R : b[r] \in Nat /\ n[r] \in Nat
  BY DEF Apart
<1>3. \A a : a \in b[d] .. b[d] + n[d] - 1 <=> a \in Nat /\ b[d] <= a /\ a < b[d] + n[d]
  BY <1>2
<1>4. \A r \in R \ {d}, a \in Nat : b[r] <= a /\ a < b[r] + n[r] => ~ (b[d] <= a /\ a < b[d] + n[d])
  BY <1>2 DEF Apart
<1>5. \A a : a \in Cov(R, b, n) <=> a \in Nat /\ \E r \in R : b[r] <= a /\ a < b[r] + n[r]
  BY InCov
<1>6. \A a : a \in Cov(R \ {d}, b, n) <=>
               a \in Nat /\ \E r \in R \ {d} : b[r] <= a /\ a < b[r] + n[r]
  BY <1>1, InCov
<1> QED
  BY <1>1, <1>3, <1>4, <1>5, <1>6

-----------------------------------------------------------------------------
(* The store *)
Once(s) == \A i, j \in DOMAIN s : s[i] = s[j] => i = j
Elems(s) == {s[i] : i \in DOMAIN s}

LEMMA Pop ==
  ASSUME NEW s \in Seq(Node), s # <<>>, Once(s)
  PROVE  /\ s[1] \in Node /\ Tail(s) \in Seq(Node) /\ Once(Tail(s))
         /\ Elems(Tail(s)) = Elems(s) \ {s[1]} /\ s[1] \in Elems(s)
         /\ Len(Tail(s)) = Len(s) - 1
<1> DEFINE n == Len(s)
           t == Tail(s)
<1>1. /\ n \in Nat \ {0} /\ DOMAIN s = 1 .. n /\ DOMAIN t = 1 .. n - 1 /\ s[1] \in Node
      /\ t \in Seq(Node) /\ Len(t) = n - 1
      /\ \A i \in 1 .. n - 1 : t[i] = s[i + 1]
  OBVIOUS
<1> HIDE DEF n, t
<1>2. \A i \in 1 .. n - 1 : i + 1 \in 1 .. n /\ i + 1 # 1
  BY <1>1
<1>3. Once(t)
  <2>1. \A i, j \in 1 .. n - 1 : i + 1 = j + 1 => i = j
    BY <1>1
  <2> QED
    BY <1>1, <1>2, <2>1 DEF Once
<1>4. Elems(t) = Elems(s) \ {s[1]}
  <2>1. ASSUME NEW i \in 1 .. n - 1 PROVE t[i] \in Elems(s) /\ t[i] # s[1]
    <3>1. t[i] = s[i + 1] /\ i + 1 \in DOMAIN s /\ 1 \in DOMAIN s /\ i + 1 # 1
      BY <1>1
    <3>2. s[i + 1] # s[1]
      BY <1>1, <3>1, SMTT(30) DEF Once
    <3> QED
      BY <3>1, <3>2 DEF Elems
  <2>2. ASSUME NEW i \in 1 .. n, s[i] # s[1] PROVE s[i] \in Elems(t)
    <3>1. i - 1 \in DOMAIN t /\ t[i - 1] = s[i]
      BY <1>1, <2>2
    <3> QED
      BY <3>1 DEF Elems
  <2>3. Elems(s) = {s[i] : i \in 1 .. n} /\ Elems(t) = {t[i] : i \in 1 .. n - 1}
    BY <1>1 DEF Elems
  <2> QED
    BY <2>1, <2>2, <2>3
<1>5. s[1] \in Elems(s)
  BY <1>1 DEF Elems
<1> QED
  BY <1>1, <1>3, <1>4, <1>5 DEF t, n

LEMMA Push ==
  ASSUME NEW s \in Seq(Node), Once(s), NEW e \in Node, e \notin Elems(s)
  PROVE  /\ <<e>> \o s \in Seq(Node) /\ <<e>> \o s # <<>> /\ Once(<<e>> \o s)
         /\ Elems(<<e>> \o s) = Elems(s) \cup {e}
         /\ Len(<<e>> \o s) = Len(s) + 1
<1> DEFINE n == Len(s)
           t == <<e>> \o s
<1>1. /\ n \in Nat /\ DOMAIN s = 1 .. n /\ DOMAIN t = 1 .. n + 1 /\ t[1] = e
      /\ t \in Seq(Node) /\ t # <<>> /\ Len(t) = n + 1
      /\ \A i \in 1 .. n : t[i + 1] = s[i]
  OBVIOUS
<1> HIDE DEF n, t
<1>2. \A i \in 1 .. n + 1 : i = 1 \/ (i - 1 \in 1 .. n /\ (i - 1) + 1 = i)
  BY <1>1
<1>3. \A i \in 1 .. n + 1 : i # 1 => t[i] = s[i - 1] /\ i - 1 \in 1 .. n
  BY <1>1, <1>2
<1>4. Once(t)
  <2>1. \A i \in 1 .. n + 1 : i # 1 => t[i] # e
    BY <1>1, <1>3 DEF Elems
  <2>2. ASSUME NEW i \in 1 .. n + 1, NEW j \in 1 .. n + 1, i # 1, j # 1, t[i] = t[j]
        PROVE  i - 1 = j - 1
    <3>1. s[i - 1] = s[j - 1] /\ i - 1 \in DOMAIN s /\ j - 1 \in DOMAIN s
      BY <1>1, <1>3, <2>2
    <3> QED
      BY <3>1 DEF Once
  <2>3. \A i, j \in 1 .. n + 1 : i - 1 = j - 1 => i = j
    BY <1>1
  <2> QED
    BY <1>1, <2>1, <2>2, <2>3 DEF Once
<1>5. Elems(t) = Elems(s) \cup {e}
  <2>1. \A i \in 1 .. n : s[i] \in Elems(t)
    <3>1. \A i \in 1 .. n : i + 1 \in DOMAIN t /\ t[i + 1] = s[i]
      BY <1>1
    <3> QED
      BY <3>1 DEF Elems
  <2>2. e \in Elems(t)
    BY <1>1 DEF Elems
  <2>3. \A i \in 1 .. n + 1 : t[i] = e \/ t[i] \in Elems(s)
    BY <1>1, <1>3 DEF Elems
  <2>4. Elems(s) = {s[i] : i \in 1 .. n} /\ Elems(t) = {t[i] : i \in 1 .. n + 1}
    BY <1>1 DEF Elems
  <2> QED
    BY <2>1, <2>2, <2>3, <2>4
<1> QED
  BY <1>1, <1>4, <1>5 DEF t, n

(* Every node is in the store, on the list, or one of the k that a call has. *)
Account(s, R, k) == Once(s) /\ R \cap Elems(s) = {} /\ Len(s) + Cardinality(R) + k = N_MMAP

LEMMA Counts ==
  ASSUME NEW R, R \subseteq Node
  PROVE  /\ Cardinality(R) \in Nat
         /\ \A e : e \notin R => Cardinality(R \cup {e}) = Cardinality(R) + 1
         /\ \A e \in R : Cardinality(R \ {e}) = Cardinality(R) - 1
<1>1. IsFiniteSet(Node)
  BY BoundsAssumption, FS_Interval DEF Node
<1>2. IsFiniteSet(R)
  BY <1>1, FS_Subset
<1> QED
  BY <1>2, FS_CardinalityType, FS_AddElement, FS_RemoveElement

-----------------------------------------------------------------------------
(* What the walk of the code sees *)
LEMMA HeldIs == ASSUME NEW R, Linked(R, ListHead, begin, next) PROVE Held = R
BY Reaches DEF Held, OnList, Walk, Reached, WalkOf

LEMMA HeldIsNext == ASSUME NEW R, Linked(R, ListHead', begin', next') PROVE Held' = R
<1>1. Reached(next', ListHead') = R
  BY Reaches
<1>2. Held' = Reached(next', ListHead')
  BY DEF Held, OnList, Walk, Reached, WalkOf
<1> QED
  BY <1>1, <1>2

LEMMA CovEnds ==
  ASSUME NEW R, NEW b, NEW n, Apart(R, b, n)
  PROVE  UNION {b[r] .. Plus(b[r], n[r]) - 1 : r \in R} = Cov(R, b, n)
BY Ends DEF Cov

LEMMA CoveredIs == Shape => Covered(ListHead) = Allocated
BY CovEnds DEF Shape, Covered, EndOf, Allocated, Held

LEMMA CoveredIsNext == Shape' => Covered(ListHead)' = Allocated'
BY CovEnds DEF Shape, Covered, EndOf, Allocated, Held

(* What has just been made of the list is what the walk sees. *)
LEMMA Reshaped ==
  ASSUME NEW R, Linked(R, ListHead', begin', next'), Apart(R, begin', npages')
  PROVE  Held' = R /\ Shape' /\ Allocated' = Cov(R, begin', npages')
<1>1. Held' = R
  BY HeldIsNext
<1> QED
  BY <1>1 DEF Shape, Allocated

LEMMA Kept ==
  ASSUME Shape, ListHead' = ListHead,
         \A r \in Held : begin'[r] = begin[r] /\ npages'[r] = npages[r] /\ next'[r] = next[r]
  PROVE  Held' = Held /\ Shape' /\ Allocated' = Allocated
<1> DEFINE R == Held
<1>1. Linked(R, ListHead, begin, next) /\ Apart(R, begin, npages)
  BY DEF Shape
<1>2. Allocated = Cov(R, begin, npages)
  BY DEF Allocated
<1>3. \A r \in R : begin'[r] = begin[r] /\ npages'[r] = npages[r] /\ next'[r] = next[r]
  OBVIOUS
<1> HIDE DEF R
<1>4. Linked(R, ListHead', begin', next')
  <2>1. \A r \in R : begin'[r] \in Nat \ {0} /\ next'[r] = next[r]
    BY <1>1, <1>3 DEF Linked
  <2>2. \A r, s \in R : begin[r] < begin[s] <=> begin'[r] < begin'[s]
    BY <1>3
  <2> QED
    BY <1>1, <2>1, <2>2, SameLinked
<1>5. Apart(R, begin', npages') /\ Cov(R, begin', npages') = Cov(R, begin, npages)
  BY <1>1, <1>3, SubApart
<1> QED
  BY <1>2, <1>4, <1>5, Reshaped DEF R

-----------------------------------------------------------------------------
(* What follows from the invariant at once *)
Taken == IF pc \in Taking THEN 1 ELSE 0

LEMMA Numbers ==
  /\ MMAP_BEGIN \in Nat \ {0} /\ MMAP_END \in Nat /\ SpanWrap \in Nat /\ AddrWrap \in Nat
  /\ MMAP_BEGIN < MMAP_END /\ MMAP_END + SpanWrap <= AddrWrap /\ MMAP_END < AddrWrap
  /\ Area = MMAP_BEGIN .. MMAP_END - 1 /\ Area \subseteq Nat
  /\ Dummy \notin Node /\ Null \notin Node /\ Dummy # Null /\ Null = 0
  /\ Node \subseteq Nat /\ Dummy \in Nat
BY BoundsAssumption DEF Area, Node, Dummy, Null

LEMMA NodesMean == TypeOK =>
                   (Nodes <=> /\ Account(store, Held, Taken) /\ pc # "m_last"
                              /\ pc \in Taking => new \in Node /\ new \notin Held
                                                  /\ new \notin Elems(store))
BY DEF Nodes, Conservation, Account, Once, Elems, Stored, Held, Taken, Taking, TypeOK

LEMMA NodesMeanNext == TypeOK' =>
                       (Nodes' <=> /\ Account(store', Held', Taken') /\ pc' # "m_last"
                                   /\ pc' \in Taking => new' \in Node /\ new' \notin Held'
                                                        /\ new' \notin Elems(store'))
BY DEF Nodes, Conservation, Account, Once, Elems, Stored, Held, Taken, Taking, TypeOK

LEMMA Basics ==
  ASSUME IInv
  PROVE  /\ Held \subseteq Node /\ ListHead \in Held \cup {Null}
         /\ \A r \in Held : /\ begin[r] \in Nat \ {0} /\ npages[r] \in Nat \ {0}
                            /\ npages[r] < SpanWrap /\ Span(npages[r]) = npages[r]
                            /\ EndOf(r) = begin[r] + npages[r]
                            /\ MMAP_BEGIN <= begin[r] /\ begin[r] + npages[r] <= MMAP_END
                            /\ next[r] \in Held \cup {Null}
         /\ \A r, s \in Held : begin[r] = begin[s] => r = s
         /\ \A r, s \in Held : \/ r = s \/ begin[r] + npages[r] < begin[s]
                               \/ begin[s] + npages[s] < begin[r]
         /\ Account(store, Held, Taken)
         /\ Covered(ListHead) = Allocated /\ Allocated \subseteq Area
<1>1. Linked(Held, ListHead, begin, next) /\ Apart(Held, begin, npages)
  BY DEF IInv, Shape
<1>2. /\ Held \subseteq Node /\ ListHead \in Held \cup {Null}
      /\ \A r \in Held : next[r] \in Held \cup {Null} /\ begin[r] \in Nat \ {0}
      /\ \A r, s \in Held : begin[r] = begin[s] => r = s
  BY <1>1 DEF Linked, First
<1>3. \A r \in Held : /\ npages[r] \in Nat \ {0}
                      /\ npages[r] < SpanWrap /\ Span(npages[r]) = npages[r]
                      /\ Plus(begin[r], npages[r]) = begin[r] + npages[r]
                      /\ MMAP_BEGIN <= begin[r] /\ begin[r] + npages[r] <= MMAP_END
  BY <1>1, Ends
<1>4. \A r, s \in Held : \/ r = s \/ begin[r] + npages[r] < begin[s]
                         \/ begin[s] + npages[s] < begin[r]
  BY <1>1 DEF Apart
<1>5. Account(store, Held, Taken)
  BY NodesMean DEF IInv
<1>6. Covered(ListHead) = Allocated
  BY CoveredIs DEF IInv
<1>7. Allocated \subseteq Area
  BY <1>1, InCov DEF Allocated
<1> QED
  BY <1>2, <1>3, <1>4, <1>5, <1>6, <1>7 DEF EndOf

LEMMA InAllocated ==
  ASSUME IInv
  PROVE  \A a : a \in Allocated <=>
                  a \in Nat /\ \E r \in Held : begin[r] <= a /\ a < begin[r] + npages[r]
<1>1. Apart(Held, begin, npages)
  BY DEF IInv, Shape
<1> QED
  BY <1>1, InCov DEF Allocated

(* The order in which a walk passes the regions *)
LEMMA Head1 ==
  ASSUME IInv
  PROVE  \A r \in Held : ListHead # Null /\ ~ (begin[r] < begin[ListHead])
<1>1. First(Held, begin, 0, ListHead) /\ \A r \in Held : begin[r] \in Nat \ {0}
  BY DEF IInv, Shape, Linked
<1> QED
  BY <1>1 DEF First

LEMMA Step ==
  ASSUME IInv, NEW c \in Held
  PROVE  /\ \A r \in Held : (next[c] = Null \/ begin[r] < begin[next[c]])
                               <=> (r = c \/ begin[r] < begin[c])
         /\ next[c] # Null => next[c] \in Held /\ begin[c] < begin[next[c]]
<1>1. First(Held, begin, begin[c], next[c])
  BY DEF IInv, Shape, Linked
<1>2. \A r \in Held : begin[r] \in Nat
  BY Basics
<1>3. \A r, s \in Held : begin[r] = begin[s] => r = s
  BY Basics
<1>4. next[c] # Null => next[c] \in Held /\ begin[c] < begin[next[c]]
  BY <1>1 DEF First
<1>5. ASSUME NEW r \in Held PROVE (next[c] = Null \/ begin[r] < begin[next[c]])
                                    <=> (r = c \/ begin[r] < begin[c])
  <2>1. begin[c] < begin[r] => next[c] # Null /\ begin[next[c]] <= begin[r]
    BY <1>1 DEF First
  <2>2. begin[c] < begin[r] \/ begin[r] < begin[c] \/ r = c
    BY <1>2, <1>3
  <2> QED
    BY <1>2, <1>4, <2>1, <2>2
<1> QED
  BY <1>4, <1>5

(* A step that edits no region and no argument leaves what is said of them. *)
LEMMA Same ==
  ASSUME Held' = Held, UNCHANGED <<want, len, before>>,
         \A r \in Held : begin'[r] = begin[r] /\ npages'[r] = npages[r]
  PROVE  /\ \A r \in Held : Clear(r)' <=> Clear(r)
         /\ \A a : NextOnly(a)' <=> NextOnly(a)
         /\ \A a : Gap(a)' <=> Gap(a)
         /\ \A a : LowestGap(a)' <=> LowestGap(a)
         /\ Block' = Block
BY DEF Clear, NextOnly, Gap, LowestGap, Block

-----------------------------------------------------------------------------
(* The steps that leave the regions alone *)
Still == Held' = Held /\ Shape' /\ Allocated' = Allocated

LEMMA InitInv == Init => IInv
<1> SUFFICES ASSUME Init PROVE IInv
  OBVIOUS
<1> USE DEF Init
<1>0. N_MMAP \in Nat \ {0}
  BY BoundsAssumption
<1>1. TypeOK
  <2>1. store \in Seq(Node)
    BY <1>0 DEF Node
  <2>2. 0 \in 0 .. AddrWrap - 1 /\ 0 \in 0 .. AddrWrap /\ 0 \in 0 .. Frames
    BY Numbers, BoundsAssumption
  <2> QED
    BY <2>1, <2>2 DEF TypeOK
<1>2. ListHead = Null
  BY DEF ListHead
<1>3. Linked({}, ListHead, begin, next)
  BY <1>2 DEF Linked, First
<1>4. Held = {}
  BY <1>3, HeldIs
<1>5. Shape
  BY <1>3, <1>4 DEF Shape, Apart
<1>6. Nodes
  <2>1. Once(store)
    <3>1. DOMAIN store = 1 .. N_MMAP /\ Len(store) = N_MMAP
      BY <1>0
    <3>2. \A i \in 1 .. N_MMAP : store[i] = N_MMAP + 1 - i
      OBVIOUS
    <3>3. \A i, j \in 1 .. N_MMAP : N_MMAP + 1 - i = N_MMAP + 1 - j => i = j
      BY <1>0
    <3> QED
      BY <3>1, <3>2, <3>3 DEF Once
  <2>2. Len(store) = N_MMAP /\ Cardinality({}) = 0
    BY <1>0, FS_EmptySet
  <2>3. Taken = 0 /\ pc \notin Taking
    BY DEF Taken, Taking
  <2> QED
    BY <1>0, <1>1, <1>4, <2>1, <2>2, <2>3, NodesMean DEF Account
<1>7. Allocated = {}
  BY <1>4 DEF Allocated, Cov
<1>8. Pages
  BY <1>7, FS_EmptySet DEF Pages
<1> QED
  BY <1>1, <1>5, <1>6, <1>8 DEF IInv, Running, Mmap, Search, Overlap, Found, Place, Done, Munmap,
                                CallExact, FirstFit, Taking

LEMMA CallMmapInv ==
  ASSUME IInv, Requests, NEW b \in Begins, NEW n \in Lengths, CallMmap(b, n)
  PROVE  IInv' /\ Allocated' = Allocated
<1>1. /\ pc = "idle" /\ op' \in {"mmap", "mmap_any"} /\ (op' = "mmap_any" <=> b = 0)
      /\ want' = b /\ len' = n /\ before' = Covered(list)
      /\ UNCHANGED <<nodes, store, list, pages, locals>>
      /\ n = 0 => pc' = "ret" /\ ret' = Fail
      /\ n # 0 => pc' = "m_alloc" /\ ret' = ret
  BY DEF CallMmap, Goto, Return
<1>2. b \in Nat /\ n \in Nat /\ n < SpanWrap /\ b + n < AddrWrap /\ b < AddrWrap
  BY BoundsAssumption DEF Requests
<1>3. ListHead = list /\ ListHead' = list
  BY <1>1 DEF ListHead
<1>4. Still
  BY <1>1, <1>3, Kept DEF IInv, nodes, Still
<1>5. Covered(list)' = Allocated /\ before' = Allocated /\ Allocated \subseteq Area
  BY <1>1, <1>3, <1>4, Basics, CoveredIsNext DEF Still
<1>6. TypeOK'
  <2>1. before' \subseteq Nat
    BY <1>5, Numbers
  <2>2. want' \in 0 .. AddrWrap - 1 /\ ret' \in 0 .. AddrWrap
    BY <1>1, <1>2, Numbers DEF IInv, TypeOK, Fail
  <2> QED
    BY <1>1, <1>2, <2>1, <2>2 DEF IInv, TypeOK, nodes, pages, locals
<1>7. Nodes'
  BY <1>1, <1>4, <1>6, NodesMean, NodesMeanNext DEF IInv, Still, Taken, Taking
<1>8. Pages'
  BY <1>1, <1>4 DEF IInv, Pages, Still, pages
<1>9. CallExact' /\ FirstFit'
  BY <1>1, <1>5 DEF CallExact, FirstFit
<1>10. Mmap'
  <2>1. CASE n = 0
    BY <1>1, <2>1 DEF Mmap, Taking
  <2>2. CASE n # 0
    <3>1. ~ TouchesNextOnly(IF b = 0 THEN Lowest(n) ELSE b, n)
      BY DEF CallMmap, Requests
    <3>2. \A a \in Nat : a + n < AddrWrap => (TouchesNextOnly(a, n) <=> NextOnly(a)')
      <4> SUFFICES ASSUME NEW a \in Nat, a + n < AddrWrap
                   PROVE  TouchesNextOnly(a, n) <=> NextOnly(a)'
        OBVIOUS
      <4>1. Plus(a, n) = a + n
        BY <1>2, NoWrap
      <4>2. OnList(list) = Held
        BY <1>3 DEF Held
      <4>3. TouchesNextOnly(a, n) <=> /\ \E r \in Held : begin[r] = a + n
                                      /\ \A r \in Held : begin[r] + npages[r] # a
        BY <4>1, <4>2, Basics DEF TouchesNextOnly
      <4>4. Held' = Held /\ begin' = begin /\ npages' = npages /\ len' = n
        BY <1>1, <1>4 DEF Still, nodes
      <4> QED
        BY <4>3, <4>4 DEF NextOnly
    <3>3. (want # 0 => ~ NextOnly(want))'
      <4>1. b # 0 => ~ NextOnly(b)'
        BY <1>2, <3>1, <3>2
      <4> QED
        BY <1>1, <4>1 DEF NextOnly
    <3>4. ASSUME want' = 0, NEW a \in Area, LowestGap(a)' PROVE ~ NextOnly(a)'
      <4>1. \A c : Fits(c, n) <=> Gap(c)'
        BY <1>1 DEF Fits, Gap
      <4>2. Fits(a, n) /\ \A c \in Area : Fits(c, n) => a <= c
        BY <3>4, <4>1 DEF LowestGap
      <4>3. Lowest(n) = a
        <5>1. \A c \in Area : Fits(c, n) /\ (\A d \in Area : Fits(d, n) => c <= d) => c = a
          BY <4>2, Numbers
        <5> QED
          BY <4>2, <5>1 DEF Lowest
      <4>4. a \in Nat /\ a + n < AddrWrap
        BY <1>2, Numbers
      <4> QED
        BY <1>1, <3>1, <3>2, <3>4, <4>3, <4>4
    <3>5. len' \in 1 .. SpanWrap - 1 /\ want' + len' < AddrWrap
      BY <1>1, <1>2, <2>2, Numbers
    <3>6. op' \in {"mmap", "mmap_any"} /\ before' = Allocated' /\ pc' = "m_alloc"
          /\ (op' = "mmap" => want' # 0) /\ (op' = "mmap_any" => want' = 0)
      BY <1>1, <1>4, <1>5, <2>2 DEF Still
    <3> QED
      BY <3>3, <3>4, <3>5, <3>6 DEF Mmap
  <2> QED
    BY <2>1, <2>2
<1>11. Running'
  BY <1>1, <1>10 DEF Running, Search, Overlap, Found, Place, Done, Munmap
<1> QED
  BY <1>4, <1>6, <1>7, <1>8, <1>9, <1>11 DEF IInv, Still

LEMMA CallMunmapInv ==
  ASSUME IInv, Requests, NEW b \in Begins, NEW n \in Lengths, CallMunmap(b, n)
  PROVE  IInv' /\ Allocated' = Allocated
<1>1. /\ pc = "idle" /\ op' = "munmap"
      /\ want' = b /\ len' = n /\ before' = Covered(list)
      /\ begin' = [begin EXCEPT ![Dummy] = 0]
      /\ npages' = [npages EXCEPT ![Dummy] = 0]
      /\ next' = [next EXCEPT ![Dummy] = list]
      /\ pre' = Dummy /\ cur' = list
      /\ UNCHANGED <<store, list, pages, new, va>>
      /\ n = 0 => pc' = "ret" /\ ret' = 0
      /\ n # 0 => pc' = "u_walk" /\ ret' = ret
  BY DEF CallMunmap, Goto, Return
<1>2. b \in Nat /\ n \in Nat /\ n < SpanWrap /\ b + n < AddrWrap /\ b < AddrWrap
  BY BoundsAssumption DEF Requests
<1>0. TypeOK /\ \A r \in Node : r # Dummy
  BY Numbers DEF IInv
<1>3. ListHead = list /\ ListHead' = list
  BY <1>0, <1>1 DEF ListHead, TypeOK
<1>a. /\ \A r \in Node : begin'[r] = begin[r] /\ npages'[r] = npages[r] /\ next'[r] = next[r]
      /\ begin'[Dummy] = 0 /\ next'[Dummy] = list
  BY <1>0, <1>1 DEF TypeOK
<1>4. Still
  BY <1>3, <1>a, Kept, Basics DEF IInv, Still
<1>5. Covered(list)' = Allocated /\ before' = Allocated /\ Allocated \subseteq Area
  BY <1>1, <1>3, <1>4, Basics, CoveredIsNext DEF Still
<1>6. TypeOK'
  <2>1. before' \subseteq Nat
    BY <1>5, Numbers
  <2>2. want' \in 0 .. AddrWrap - 1 /\ ret' \in 0 .. AddrWrap /\ 0 \in 0 .. AddrWrap - 1
    BY <1>0, <1>1, <1>2, Numbers DEF TypeOK
  <2>3. /\ begin' \in [Node \cup {Dummy} -> 0 .. AddrWrap - 1]
        /\ npages' \in [Node \cup {Dummy} -> Nat]
        /\ next' \in [Node \cup {Dummy} -> Node \cup {Null}]
    BY <1>0, <1>1, <2>2 DEF TypeOK
  <2> QED
    BY <1>0, <1>1, <1>2, <2>1, <2>2, <2>3 DEF TypeOK, pages
<1>7. Nodes'
  BY <1>1, <1>4, <1>6, NodesMean, NodesMeanNext DEF IInv, Still, Taken, Taking
<1>8. Pages'
  BY <1>1, <1>4 DEF IInv, Pages, Still, pages
<1>9. CallExact' /\ FirstFit'
  <2>1. n = 0 => want' .. want' + len' - 1 = {} /\ ret' # Fail
    BY <1>1, <1>2, Numbers DEF Fail
  <2> QED
    BY <1>1, <1>5, <2>1 DEF CallExact, FirstFit
<1>10. Munmap'
  <2>1. CASE n = 0
    BY <1>1, <2>1 DEF Munmap
  <2>2. CASE n # 0
    <3>1. \A r \in Held' : ~ Passed(r)'
      BY <1>0, <1>1, <1>3, <1>4, <1>a, Head1, Basics DEF Passed, Still
    <3>2. ASSUME store' = <<>>, NEW r \in Held'
          PROVE  ~ (begin'[r] < want' /\ want' + len' < begin'[r] + npages'[r])
      <4>1. ~ SplitsARegion(b, n) /\ Held = OnList(list) /\ r \in Held
        BY <1>1, <1>3, <1>4, <3>2 DEF CallMunmap, Requests, Held, Still
      <4>2. Plus(b, n) = b + n
        BY <1>2, NoWrap
      <4>3. begin'[r] = begin[r] /\ npages'[r] = npages[r] /\ EndOf(r) = begin[r] + npages[r]
        BY <1>a, <4>1, Basics
      <4> QED
        BY <1>1, <4>1, <4>2, <4>3 DEF SplitsARegion
    <3>3. len' \in 1 .. SpanWrap - 1 /\ want' + len' < AddrWrap
      BY <1>1, <1>2, <2>2, Numbers
    <3> QED
      BY <1>1, <1>4, <1>5, <1>a, <3>1, <3>2, <3>3 DEF Munmap, Still
  <2> QED
    BY <2>1, <2>2
<1>11. Running'
  BY <1>1, <1>10 DEF Running, Mmap, Search, Overlap, Found, Place, Done, Taking
<1> QED
  BY <1>4, <1>6, <1>7, <1>8, <1>9, <1>11 DEF IInv, Still

LEMMA FinishInv ==
  ASSUME IInv, Finish
  PROVE  IInv' /\ Allocated' = Allocated
<1> USE DEF Finish, Goto
<1>1. ListHead' = ListHead
  BY DEF ListHead
<1>2. Still
  BY <1>1, Kept DEF IInv, nodes, Still
<1>3. TypeOK'
  BY Numbers DEF IInv, TypeOK, nodes, pages
<1>4. Nodes'
  BY <1>2, <1>3, NodesMean, NodesMeanNext DEF IInv, Still, Taken, Taking
<1>5. Pages'
  BY <1>2 DEF IInv, Pages, Still, pages
<1>6. Running' /\ CallExact' /\ FirstFit'
  BY DEF Running, Mmap, Search, Overlap, Found, Place, Done, Munmap, Taking, CallExact, FirstFit
<1> QED
  BY <1>2, <1>3, <1>4, <1>5, <1>6 DEF IInv, Still

(* A call that has a node and fails gives it back. *)
LEMMA GiveUpInv ==
  ASSUME IInv, pc \in {"m_search", "m_overlap", "m_bounds"}, GiveUp,
         UNCHANGED <<nodes, list, pages, args>>, {pre', cur', new'} \subseteq Node \cup {Dummy, Null},
         va' \in 0 .. AddrWrap - 1,
         op = "mmap_any" => \A a \in Area : ~ Gap(a)
  PROVE  IInv' /\ Allocated' = Allocated
<1>1. pc' = "ret" /\ ret' = Fail /\ store' = <<new>> \o store
  BY DEF GiveUp, Return, Goto
<1>2. ListHead = list /\ ListHead' = list /\ TypeOK
  BY <1>1 DEF ListHead, IInv
<1>3. Still
  BY <1>2, Kept DEF IInv, nodes, Still
<1>4. Covered(list)' = Allocated /\ before = Allocated
  BY <1>2, <1>3, CoveredIsNext DEF Still, IInv, Running, Mmap, Taking
<1>5. Account(store, Held, 1) /\ new \in Node /\ new \notin Held /\ new \notin Elems(store)
  BY <1>2, NodesMean DEF IInv, Taken, Taking
<1>6. /\ store' \in Seq(Node) /\ Once(store') /\ Elems(store') = Elems(store) \cup {new}
      /\ Len(store') = Len(store) + 1
  BY <1>1, <1>2, <1>5, Push DEF TypeOK, Account
<1>7. TypeOK'
  BY <1>1, <1>2, <1>6, Numbers, SMTT(30) DEF TypeOK, nodes, pages, args, Fail
<1>8. Nodes'
  <2>1. Cardinality(Held) \in Nat /\ Len(store) \in Nat
    <3>1. Held \subseteq Node
      BY Basics
    <3>2. Cardinality(Held) \in Nat
      BY <3>1, Counts
    <3> QED
      BY <1>2, <3>2 DEF TypeOK
  <2>2. Account(store', Held', 0)
    BY <1>3, <1>5, <1>6, <2>1 DEF Account, Still
  <2> QED
    BY <1>1, <1>7, <2>2, NodesMeanNext DEF Taken, Taking
<1>9. Pages'
  BY <1>1, <1>3 DEF IInv, Pages, Still, pages
<1>10. CallExact' /\ FirstFit'
  <2>1. before' = before /\ op' = op /\ len' = len
    BY DEF args
  <2>2. CallExact'
    BY <1>1, <1>4, <2>1 DEF CallExact
  <2>3. FirstFit'
    BY <1>1, <2>1 DEF FirstFit, Gap
  <2> QED
    BY <2>2, <2>3
<1>11. Running'
  BY <1>1 DEF Running, Mmap, Search, Overlap, Found, Place, Done, Munmap, Taking
<1> QED
  BY <1>3, <1>7, <1>8, <1>9, <1>10, <1>11 DEF IInv, Still

LEMMA MmapAllocInv ==
  ASSUME IInv, MmapAlloc
  PROVE  IInv' /\ Allocated' = Allocated
<1>1. pc = "m_alloc" /\ TypeOK /\ ListHead = list /\ UNCHANGED <<list, pages, args>>
  BY DEF MmapAlloc, IInv, ListHead
<1>2. CASE store = <<>>
  <2>1. pc' = "ret" /\ ret' = Fail /\ UNCHANGED <<nodes, store, locals>>
    BY <1>2 DEF MmapAlloc, Return, Goto
  <2>2. ListHead' = list
    BY <1>1, <2>1 DEF ListHead
  <2>3. Still
    BY <1>1, <2>1, <2>2, Kept DEF IInv, nodes, Still
  <2>4. Covered(list)' = Allocated /\ before = Allocated
    BY <1>1, <2>2, <2>3, CoveredIsNext DEF Still, IInv, Running, Mmap, Taking
  <2>5. TypeOK'
    BY <1>1, <2>1, Numbers DEF TypeOK, nodes, pages, args, locals, Fail
  <2>6. Nodes'
    BY <1>1, <2>1, <2>3, <2>5, NodesMean, NodesMeanNext DEF IInv, Still, Taken, Taking
  <2>7. Pages'
    BY <1>1, <2>1, <2>3 DEF IInv, Pages, Still, pages
  <2>8. CallExact' /\ FirstFit'
    <3>1. before' = before /\ store' = <<>>
      BY <1>1, <1>2, <2>1 DEF args
    <3> QED
      BY <2>1, <2>4, <3>1 DEF CallExact, FirstFit
  <2>9. Running'
    BY <2>1 DEF Running, Mmap, Search, Overlap, Found, Place, Done, Munmap, Taking
  <2> QED
    BY <2>3, <2>5, <2>6, <2>7, <2>8, <2>9 DEF IInv, Still
<1>3. CASE store # <<>>
  <2> DEFINE n == store[1]
  <2>1. /\ pc' = IF want = 0 THEN "m_search" ELSE "m_overlap"
        /\ store' = Tail(store)
        /\ begin' = [begin EXCEPT ![n] = 0]
        /\ npages' = [npages EXCEPT ![n] = len]
        /\ next' = [next EXCEPT ![n] = Null]
        /\ new' = n /\ cur' = list /\ va' = MMAP_BEGIN
        /\ pre' = pre /\ ret' = ret
    BY <1>3 DEF MmapAlloc, Goto
  <2>2. Account(store, Held, 0)
    BY <1>1, NodesMean DEF IInv, Taken, Taking
  <2>3. /\ n \in Node /\ n \notin Held /\ store' \in Seq(Node) /\ Once(store')
        /\ Elems(store') = Elems(store) \ {n} /\ Len(store') = Len(store) - 1
    BY <1>1, <1>3, <2>1, <2>2, Pop DEF Account, TypeOK
  <2> HIDE DEF n
  <2>4. /\ \A r \in Held : begin'[r] = begin[r] /\ npages'[r] = npages[r] /\ next'[r] = next[r]
        /\ npages'[n] = len
    BY <1>1, <2>1, <2>3, Basics DEF TypeOK
  <2>5. ListHead' = list
    BY <1>1, <2>1 DEF ListHead
  <2>6. Still
    BY <1>1, <2>4, <2>5, Kept DEF IInv, Still
  <2>7. TypeOK'
    <3>1. /\ begin' \in [Node \cup {Dummy} -> 0 .. AddrWrap - 1]
          /\ npages' \in [Node \cup {Dummy} -> Nat]
          /\ next' \in [Node \cup {Dummy} -> Node \cup {Null}]
      <4>1. 0 \in 0 .. AddrWrap - 1 /\ len \in Nat
        BY <1>1, Numbers DEF TypeOK
      <4> QED
        BY <1>1, <2>1, <4>1 DEF TypeOK
    <3> QED
      BY <1>1, <2>1, <2>3, <3>1, Numbers, SMTT(30) DEF TypeOK, pages, args
  <2>8. Nodes'
    <3>1. Cardinality(Held) \in Nat /\ Len(store) \in Nat
      <4>1. Held \subseteq Node
        BY Basics
      <4>2. Cardinality(Held) \in Nat
        BY <4>1, Counts
      <4> QED
        BY <1>1, <4>2 DEF TypeOK
    <3>2. Account(store', Held', 1)
      BY <2>2, <2>3, <2>6, <3>1 DEF Account, Still
    <3> QED
      BY <2>1, <2>3, <2>6, <2>7, <3>2, NodesMeanNext DEF Taken, Taking, Still
  <2>9. Pages'
    BY <1>1, <2>1, <2>6 DEF IInv, Pages, Still, pages
  <2>10. CallExact' /\ FirstFit'
    BY <2>1 DEF CallExact, FirstFit
  <2>11. UNCHANGED <<op, want, len, before>>
    BY <1>1 DEF args
  <2>12. /\ \A a : NextOnly(a)' <=> NextOnly(a)
         /\ \A a : Gap(a)' <=> Gap(a)
         /\ \A a : LowestGap(a)' <=> LowestGap(a)
    BY <2>4, <2>6, <2>11, Same DEF Still
  <2>13. Mmap
    BY DEF IInv, Running
  <2>14. Mmap'
    <3>1. (want # 0 => ~ NextOnly(want))'
      BY <1>1, <2>11, <2>12, <2>13 DEF Mmap
    <3>2. (want = 0 => \A a \in Area : LowestGap(a) => ~ NextOnly(a))'
      BY <1>1, <2>11, <2>12, <2>13 DEF Mmap
    <3>3. pc' # "m_alloc" /\ npages'[new'] = len' /\ before' = Allocated'
      BY <1>1, <2>1, <2>4, <2>6, <2>11, <2>13 DEF Mmap, Still
    <3> QED
      BY <1>1, <2>11, <2>13, <3>1, <3>2, <3>3 DEF Mmap
  <2>15. \A r \in Held' : ~ Passed(r)' /\ MMAP_BEGIN <= begin'[r]
    BY <1>1, <2>1, <2>4, <2>6, Head1, Basics DEF Passed, Still
  <2>16. cur' \in Held' \cup {Null}
    BY <1>1, <2>1, <2>6, Basics DEF Still
  <2>17. Search'
    <3>1. (\A a \in Area : Gap(a) => va <= a)'
      BY <2>1, Numbers
    <3>2. want' = 0 => op' = "mmap_any"
      BY <1>1, <2>11, <2>13 DEF Mmap
    <3>3. va' \in MMAP_BEGIN .. MMAP_END
      BY <2>1, Numbers
    <3> QED
      BY <2>1, <2>11, <2>15, <2>16, <3>1, <3>2, <3>3 DEF Search
  <2>18. Overlap'
    <3>1. want # 0 => op' = "mmap"
      BY <1>1, <2>11, <2>13 DEF Mmap
    <3> QED
      BY <2>1, <2>15, <2>16, <3>1 DEF Overlap
  <2>19. Running'
    BY <2>1, <2>14, <2>17, <2>18 DEF Running, Found, Place, Done, Munmap
  <2> QED
    BY <2>6, <2>7, <2>8, <2>9, <2>10, <2>19 DEF IInv, Still
<1> QED
  BY <1>2, <1>3

(* A gap holds no page of a region. *)
LEMMA GapClear ==
  ASSUME IInv, before = Allocated, len \in Nat \ {0}, NEW a \in Nat
  PROVE  Gap(a) <=> /\ MMAP_BEGIN <= a /\ a + len <= MMAP_END
                    /\ \A r \in Held : begin[r] + npages[r] <= a \/ a + len <= begin[r]
<1>1. \A r \in Held : begin[r] \in Nat /\ npages[r] \in Nat \ {0}
  BY Basics
<1>2. \A c \in Nat : c \in Allocated <=> \E r \in Held : begin[r] <= c /\ c < begin[r] + npages[r]
  BY InAllocated
<1>3. \A c : c \in a .. a + len - 1 <=> c \in Nat /\ a <= c /\ c < a + len
  OBVIOUS
<1>4. \A c \in Nat : c \in Area <=> MMAP_BEGIN <= c /\ c < MMAP_END
  BY Numbers
<1>5. ASSUME Gap(a)
      PROVE  /\ MMAP_BEGIN <= a /\ a + len <= MMAP_END
             /\ \A r \in Held : begin[r] + npages[r] <= a \/ a + len <= begin[r]
  <2>1. \A c \in Nat : a <= c /\ c < a + len => c \in Area /\ c \notin Allocated
    BY <1>3, <1>5 DEF Gap
  <2>2. a \in Area /\ a + len - 1 \in Area
    BY <2>1
  <2>3. MMAP_BEGIN <= a /\ a + len <= MMAP_END
    BY <2>2, Numbers
  <2>4. ASSUME NEW r \in Held, a < begin[r] + npages[r], begin[r] < a + len PROVE FALSE
    <3>1. CASE a <= begin[r]
      <4>1. begin[r] \in Allocated /\ begin[r] \in Nat
        BY <1>1, <1>2
      <4> QED
        BY <2>1, <2>4, <3>1, <4>1
    <3>2. CASE begin[r] < a
      <4>1. a \in Allocated
        BY <1>1, <1>2, <2>4, <3>2
      <4> QED
        BY <2>1, <4>1
    <3> QED
      BY <1>1, <3>1, <3>2
  <2> QED
    BY <1>1, <2>3, <2>4
<1>6. ASSUME MMAP_BEGIN <= a, a + len <= MMAP_END,
             \A r \in Held : begin[r] + npages[r] <= a \/ a + len <= begin[r]
      PROVE  Gap(a)
  <2>1. \A c \in Nat : a <= c /\ c < a + len => c \in Area
    BY <1>4, <1>6, Numbers
  <2>2. \A c \in Nat : a <= c /\ c < a + len => c \notin Allocated
    BY <1>1, <1>2, <1>6
  <2> QED
    BY <1>3, <2>1, <2>2 DEF Gap
<1> QED
  BY <1>5, <1>6

(* The first gap that is large enough has been found. *)
LEMMA FoundInv ==
  ASSUME IInv, pc = "m_search", want' = va, pc' = "m_bounds", Gap(va),
         UNCHANGED <<nodes, store, list, pages, op, len, before, locals, ret>>
  PROVE  IInv' /\ Allocated' = Allocated
<1>1. TypeOK /\ ListHead = list /\ ListHead' = list
  BY DEF IInv, ListHead
<1>2. Still
  BY <1>1, Kept DEF IInv, nodes, Still
<1>3. Mmap /\ Search /\ va \in MMAP_BEGIN .. MMAP_END /\ before = Allocated
      /\ len \in 1 .. SpanWrap - 1 /\ want = 0
  BY DEF IInv, Running, Mmap, Search, Taking
<1>4. len \in Nat \ {0} /\ va \in Nat \ {0}
  BY <1>3, Numbers
<1>5. /\ MMAP_BEGIN <= va /\ va + len <= MMAP_END
      /\ \A r \in Held : begin[r] + npages[r] <= va \/ va + len <= begin[r]
  BY <1>3, <1>4, GapClear
<1>6. va \in Area /\ LowestGap(va)
  <2>1. va \in Area
    BY <1>4, <1>5, Numbers
  <2> QED
    BY <1>3, <2>1 DEF LowestGap, Search
<1>7. TypeOK'
  <2>1. va \in 0 .. AddrWrap - 1
    BY <1>1 DEF TypeOK
  <2> QED
    BY <1>1, <2>1 DEF TypeOK, nodes, pages, locals
<1>8. Nodes'
  BY <1>2, <1>7, NodesMean, NodesMeanNext DEF IInv, Still, Taken, Taking, locals
<1>9. Pages'
  BY <1>2 DEF IInv, Pages, Still, pages
<1>10. CallExact' /\ FirstFit'
  BY DEF CallExact, FirstFit
<1>11. Mmap'
  <2>1. ~ NextOnly(va)
    BY <1>3, <1>6 DEF Mmap, Taking
  <2>2. (want # 0 => ~ NextOnly(want))'
    BY <1>2, <2>1 DEF NextOnly, nodes, Still
  <2>3. want' # 0 /\ want' + len' < AddrWrap /\ len' \in 1 .. SpanWrap - 1
    BY <1>3, <1>4, <1>5, Numbers
  <2>4. npages'[new'] = len' /\ before' = Allocated' /\ op' \in {"mmap", "mmap_any"}
    BY <1>2, <1>3 DEF Mmap, Taking, nodes, locals, Still
  <2> QED
    BY <2>2, <2>3, <2>4 DEF Mmap
<1>12. Found'
  <2>1. (\A r \in Held : Clear(r))'
    BY <1>2, <1>5 DEF Clear, nodes, Still
  <2>2. LowestGap(want)'
    BY <1>6 DEF LowestGap, Gap
  <2> QED
    BY <1>4, <2>1, <2>2 DEF Found
<1>13. Running'
  BY <1>11, <1>12 DEF Running, Search, Overlap, Place, Done, Munmap
<1> QED
  BY <1>2, <1>7, <1>8, <1>9, <1>10, <1>13 DEF IInv, Still

LEMMA MmapSearchInv ==
  ASSUME IInv, MmapSearch
  PROVE  IInv' /\ Allocated' = Allocated
<1>1. TypeOK /\ ListHead = list /\ pc = "m_search" /\ cur # Null
      /\ UNCHANGED <<nodes, store, list, pages, op, len, before, pre, new, ret>>
  BY DEF IInv, ListHead, MmapSearch
<1>2. Mmap /\ Search /\ va \in MMAP_BEGIN .. MMAP_END /\ before = Allocated /\ cur \in Held
      /\ len \in 1 .. SpanWrap - 1 /\ want = 0 /\ op = "mmap_any"
  BY <1>1 DEF IInv, Running, Mmap, Search, Taking
<1>3. len \in Nat \ {0} /\ va \in Nat \ {0} /\ Plus(va, len) = va + len
  BY <1>2, NoWrap, Numbers
<1>4. /\ begin[cur] \in Nat /\ npages[cur] \in Nat \ {0} /\ EndOf(cur) = begin[cur] + npages[cur]
      /\ begin[cur] + npages[cur] <= MMAP_END /\ MMAP_BEGIN <= begin[cur]
  BY <1>2, Basics
<1>5. \A r \in Held : begin[r] \in Nat /\ npages[r] \in Nat \ {0}
  BY Basics
<1>6. \A r \in Held : IF begin[r] < begin[cur] THEN begin[r] + npages[r] <= va ELSE va <= begin[r]
  BY <1>1, <1>2 DEF Search, Passed
<1>7. CASE va + len <= begin[cur]
  <2>1. want' = va /\ pc' = "m_bounds" /\ cur' = cur /\ va' = va
    BY <1>1, <1>3, <1>7, Numbers DEF MmapSearch, Goto
  <2>2. Gap(va)
    <3>1. va + len <= MMAP_END /\ MMAP_BEGIN <= va
      BY <1>2, <1>3, <1>4, <1>7, Numbers
    <3>2. \A r \in Held : begin[r] + npages[r] <= va \/ va + len <= begin[r]
      BY <1>3, <1>4, <1>5, <1>6, <1>7
    <3> QED
      BY <1>2, <1>3, <3>1, <3>2, GapClear
  <2> QED
    BY <1>1, <2>1, <2>2, FoundInv DEF locals
<1>8. CASE ~ (va + len <= begin[cur])
  <2>1. va' = begin[cur] + npages[cur] /\ cur' = next[cur] /\ pc' = "m_search" /\ want' = want
    BY <1>1, <1>3, <1>4, <1>8 DEF MmapSearch
  <2>2. ListHead' = list
    BY <1>1, <2>1 DEF ListHead
  <2>3. Still
    BY <1>1, <2>2, Kept DEF IInv, nodes, Still
  <2>4. cur' \in Held \cup {Null} /\ va' \in MMAP_BEGIN .. MMAP_END /\ va' \in 0 .. AddrWrap - 1
    BY <1>2, <1>4, <2>1, Basics, Numbers
  <2>5. TypeOK'
    <3>1. cur' \in Node \cup {Dummy, Null}
      BY <2>4, Basics
    <3> QED
      BY <1>1, <2>1, <2>4, <3>1 DEF TypeOK, nodes, pages
  <2>6. Nodes'
    BY <1>1, <2>1, <2>3, <2>5, NodesMean, NodesMeanNext DEF IInv, Still, Taken, Taking
  <2>7. Pages'
    BY <1>1, <2>1, <2>3 DEF IInv, Pages, Still, pages
  <2>8. CallExact' /\ FirstFit'
    BY <2>1 DEF CallExact, FirstFit
  <2>9. /\ \A a : NextOnly(a)' <=> NextOnly(a)
        /\ \A a : Gap(a)' <=> Gap(a)
        /\ \A a : LowestGap(a)' <=> LowestGap(a)
    BY <1>1, <2>1, <2>3, Same DEF Still, nodes
  <2>10. Mmap'
    <3>1. (want = 0 => \A a \in Area : LowestGap(a) => ~ NextOnly(a))'
      BY <1>1, <1>2, <2>1, <2>9 DEF Mmap, Taking
    <3>2. npages'[new'] = len' /\ before' = Allocated' /\ op' = "mmap_any" /\ want' = 0
          /\ len' \in 1 .. SpanWrap - 1 /\ want' + len' < AddrWrap
      BY <1>1, <1>2, <2>1, <2>3 DEF Mmap, Taking, nodes, Still
    <3> QED
      BY <2>1, <3>1, <3>2 DEF Mmap
  <2>11. Search'
    <3>1. \A r \in Held : Passed(r)' <=> r = cur \/ begin[r] < begin[cur]
      BY <1>1, <1>2, <2>1, Step DEF Passed, nodes
    <3>2. \A r \in Held : IF r = cur \/ begin[r] < begin[cur]
                          THEN begin[r] + npages[r] <= va' ELSE va' <= begin[r]
      <4>1. \A r \in Held : \/ r = cur \/ begin[r] + npages[r] < begin[cur]
                            \/ begin[cur] + npages[cur] < begin[r]
        BY <1>2, Basics
      <4> QED
        BY <1>4, <1>5, <2>1, <4>1
    <3>3. (\A r \in Held : IF Passed(r) THEN begin[r] + npages[r] <= va ELSE va <= begin[r])'
      BY <1>1, <2>3, <3>1, <3>2 DEF nodes, Still
    <3>4. ASSUME NEW a \in Area, Gap(a) PROVE va' <= a
      <4>1. a \in Nat /\ va <= a
        BY <1>1, <1>2, <3>4, Numbers DEF Search
      <4>2. begin[cur] + npages[cur] <= a \/ a + len <= begin[cur]
        BY <1>2, <1>3, <3>4, <4>1, GapClear
      <4> QED
        BY <1>3, <1>4, <1>8, <2>1, <4>1, <4>2
    <3>5. (\A a \in Area : Gap(a) => va <= a)'
      BY <2>9, <3>4
    <3> QED
      BY <1>1, <1>2, <2>1, <2>3, <2>4, <3>3, <3>5 DEF Search, Still
  <2>12. Running'
    BY <2>1, <2>10, <2>11 DEF Running, Overlap, Found, Place, Done, Munmap
  <2> QED
    BY <2>3, <2>5, <2>6, <2>7, <2>8, <2>12 DEF IInv, Still
<1> QED
  BY <1>7, <1>8

LEMMA MmapSearchLastInv ==
  ASSUME IInv, MmapSearchLast
  PROVE  IInv' /\ Allocated' = Allocated
<1>1. TypeOK /\ pc = "m_search" /\ cur = Null
      /\ UNCHANGED <<nodes, list, pages, op, len, before, locals>>
  BY DEF IInv, MmapSearchLast, Nodes, args
<1>2. Mmap /\ Search /\ va \in MMAP_BEGIN .. MMAP_END /\ before = Allocated
      /\ len \in 1 .. SpanWrap - 1 /\ want = 0 /\ op = "mmap_any"
  BY <1>1 DEF IInv, Running, Mmap, Search, Taking
<1>3. len \in Nat \ {0} /\ va \in Nat \ {0} /\ Plus(va, len) = va + len
  BY <1>2, NoWrap, Numbers
<1>4. \A r \in Held : begin[r] + npages[r] <= va
  BY <1>1, <1>2 DEF Search, Passed
<1>5. CASE va + len <= MMAP_END
  <2>1. want' = va /\ pc' = "m_bounds" /\ UNCHANGED <<store, ret>>
    BY <1>3, <1>5 DEF MmapSearchLast, Goto
  <2>2. Gap(va)
    BY <1>2, <1>3, <1>4, <1>5, GapClear
  <2> QED
    BY <1>1, <2>1, <2>2, FoundInv
<1>6. CASE ~ (va + len <= MMAP_END)
  <2>1. GiveUp /\ want' = want
    BY <1>3, <1>6 DEF MmapSearchLast
  <2>2. ASSUME NEW a \in Area, Gap(a) PROVE FALSE
    <3>1. a \in Nat /\ va <= a
      BY <1>1, <1>2, <2>2, Numbers DEF Search
    <3>2. a + len <= MMAP_END
      BY <1>2, <1>3, <2>2, <3>1, GapClear
    <3> QED
      BY <1>3, <1>6, <3>1, <3>2, Numbers
  <2>3. {pre', cur', new'} \subseteq Node \cup {Dummy, Null} /\ va' \in 0 .. AddrWrap - 1
    BY <1>1 DEF TypeOK, locals
  <2> QED
    BY <1>1, <2>1, <2>2, <2>3, GiveUpInv DEF args
<1> QED
  BY <1>5, <1>6

LEMMA MmapOverlapInv ==
  ASSUME IInv, MmapOverlap
  PROVE  IInv' /\ Allocated' = Allocated
<1>1. TypeOK /\ ListHead = list /\ pc = "m_overlap"
      /\ UNCHANGED <<nodes, list, pages, args, pre, new, va>>
  BY DEF IInv, ListHead, MmapOverlap
<1>2. Mmap /\ Overlap /\ before = Allocated /\ cur \in Held \cup {Null} /\ op = "mmap"
      /\ len \in 1 .. SpanWrap - 1 /\ want # 0 /\ want + len < AddrWrap
  BY <1>1 DEF IInv, Running, Mmap, Overlap, Taking
<1>3. want \in Nat \ {0} /\ len \in Nat \ {0} /\ End = want + len
  <2>1. want \in Nat /\ len \in Nat /\ len < SpanWrap
    BY <1>1, <1>2, Numbers DEF TypeOK
  <2> QED
    BY <1>2, <2>1, NoWrap DEF End
<1>4. CASE cur # Null /\ want < EndOf(cur) /\ End > begin[cur]
  <2>1. GiveUp /\ cur' = cur
    BY <1>1, <1>4 DEF MmapOverlap
  <2>2. {pre', cur', new'} \subseteq Node \cup {Dummy, Null} /\ va' \in 0 .. AddrWrap - 1
    BY <1>1, <2>1 DEF TypeOK
  <2> QED
    BY <1>1, <1>2, <2>1, <2>2, GiveUpInv
<1>5. CASE ~ (cur # Null /\ want < EndOf(cur) /\ End > begin[cur])
  <2>1. /\ store' = store /\ ret' = ret
        /\ cur = Null => pc' = "m_bounds" /\ cur' = cur
        /\ cur # Null => pc' = "m_overlap" /\ cur' = next[cur]
    BY <1>1, <1>5 DEF MmapOverlap, Goto
  <2>2. ListHead' = list
    BY <1>1, <2>1 DEF ListHead
  <2>3. Still
    BY <1>1, <2>2, Kept DEF IInv, nodes, Still
  <2>4. cur' \in Held \cup {Null}
    BY <1>2, <2>1, Basics
  <2>5. TypeOK'
    <3>1. cur' \in Node \cup {Dummy, Null}
      BY <2>4, Basics
    <3>2. pc' \in {"m_bounds", "m_overlap"}
      BY <2>1
    <3> QED
      BY <1>1, <2>1, <3>1, <3>2 DEF TypeOK, nodes, pages, args
  <2>6. Nodes'
    BY <1>1, <2>1, <2>3, <2>5, NodesMean, NodesMeanNext DEF IInv, Still, Taken, Taking
  <2>7. Pages'
    BY <1>1, <2>1, <2>3 DEF IInv, Pages, Still, pages
  <2>8. CallExact' /\ FirstFit'
    BY <2>1 DEF CallExact, FirstFit
  <2>9. /\ \A a : NextOnly(a)' <=> NextOnly(a)
        /\ \A r \in Held : Clear(r)' <=> Clear(r)
    BY <1>1, <2>3, Same DEF Still, nodes, args
  <2>10. UNCHANGED <<op, want, len, before, new, npages, begin>>
    BY <1>1 DEF args, nodes
  <2>11. Mmap'
    <3>1. ~ NextOnly(want)
      BY <1>1, <1>2 DEF Mmap, Taking
    <3>2. (~ NextOnly(want))'
      BY <2>9, <2>10, <3>1 DEF NextOnly
    <3>3. npages'[new'] = len' /\ before' = Allocated'
      BY <1>1, <1>2, <2>3, <2>10 DEF Mmap, Taking, Still
    <3>4. pc' # "m_alloc"
      BY <2>1
    <3> QED
      BY <1>2, <2>10, <3>2, <3>3, <3>4 DEF Mmap
  <2>12. \A r \in Held : Passed(r) => Clear(r)
    BY <1>1, <1>2 DEF Overlap
  <2>13. CASE cur = Null
    <3>1. \A r \in Held : Clear(r)'
      BY <2>9, <2>12, <2>13 DEF Passed
    <3>2. Found'
      BY <1>2, <2>3, <2>10, <3>1 DEF Found, Still
    <3>3. pc' = "m_bounds"
      BY <2>1, <2>13
    <3> QED
      BY <2>3, <2>5, <2>6, <2>7, <2>8, <2>11, <3>2, <3>3
         DEF Running, Search, Overlap, Place, Done, Munmap, IInv, Still
  <2>14. CASE cur # Null
    <3>1. pc' = "m_overlap" /\ cur' = next[cur] /\ cur \in Held
      BY <1>2, <2>1, <2>14
    <3>2. Clear(cur)
      <4>1. EndOf(cur) = begin[cur] + npages[cur] /\ begin[cur] \in Nat /\ npages[cur] \in Nat
        BY <3>1, Basics
      <4> QED
        BY <1>3, <1>5, <2>14, <4>1 DEF Clear
    <3>3. \A r \in Held : Passed(r)' => Clear(r)
      <4>1. \A r \in Held : Passed(r)' <=> r = cur \/ begin[r] < begin[cur]
        BY <2>10, <3>1, Step DEF Passed
      <4> QED
        BY <2>12, <3>2, <4>1 DEF Passed
    <3>4. (\A r \in Held : Passed(r) => Clear(r))'
      BY <2>3, <2>9, <3>3 DEF Still
    <3>5. Overlap'
      BY <1>2, <2>3, <2>4, <2>10, <3>4 DEF Overlap, Still
    <3> QED
      BY <2>3, <2>5, <2>6, <2>7, <2>8, <2>11, <3>1, <3>5
         DEF Running, Search, Found, Place, Done, Munmap, IInv, Still
  <2> QED
    BY <2>13, <2>14
<1> QED
  BY <1>4, <1>5

LEMMA MmapBoundsInv ==
  ASSUME IInv, MmapBounds
  PROVE  IInv' /\ Allocated' = Allocated
<1>1. TypeOK /\ ListHead = list /\ pc = "m_bounds"
      /\ UNCHANGED <<list, pages, args, cur, new, va>>
  BY DEF IInv, ListHead, MmapBounds
<1>2. Mmap /\ Found /\ before = Allocated /\ op \in {"mmap", "mmap_any"}
      /\ len \in 1 .. SpanWrap - 1 /\ want # 0 /\ want + len < AddrWrap
      /\ npages[new] = len /\ ~ NextOnly(want)
  BY <1>1 DEF IInv, Running, Mmap, Found, Taking
<1>3. want \in Nat \ {0} /\ len \in Nat \ {0} /\ End = want + len
  <2>1. want \in Nat /\ len \in Nat /\ len < SpanWrap
    BY <1>1, <1>2, Numbers DEF TypeOK
  <2> QED
    BY <1>2, <2>1, NoWrap DEF End
<1>4. op = "mmap_any" => MMAP_BEGIN <= want /\ want + len <= MMAP_END
  <2> SUFFICES ASSUME op = "mmap_any" PROVE MMAP_BEGIN <= want /\ want + len <= MMAP_END
    OBVIOUS
  <2>1. Gap(want)
    BY <1>1, <1>2 DEF Found, LowestGap
  <2> QED
    BY <1>2, <1>3, <2>1, GapClear
<1>5. CASE want < MMAP_BEGIN \/ want + len > MMAP_END
  <2>1. GiveUp /\ UNCHANGED <<nodes, pre>>
    BY <1>3, <1>5 DEF MmapBounds
  <2>2. op # "mmap_any"
    BY <1>3, <1>4, <1>5, Numbers
  <2>3. {pre', cur', new'} \subseteq Node \cup {Dummy, Null} /\ va' \in 0 .. AddrWrap - 1
    BY <1>1, <2>1 DEF TypeOK
  <2> QED
    BY <1>1, <2>1, <2>2, <2>3, GiveUpInv
<1>6. CASE ~ (want < MMAP_BEGIN \/ want + len > MMAP_END)
  <2>1. /\ begin' = [begin EXCEPT ![new] = want, ![Dummy] = 0]
        /\ npages' = [npages EXCEPT ![Dummy] = 0]
        /\ next' = [next EXCEPT ![Dummy] = list]
        /\ pre' = Dummy /\ pc' = "m_place" /\ store' = store /\ ret' = ret
    BY <1>3, <1>6 DEF MmapBounds, Goto
  <2>2. new \in Node /\ new \notin Held /\ new # Dummy
    BY <1>1, Numbers DEF IInv, Nodes, Taking
  <2>3. /\ \A r \in Held : begin'[r] = begin[r] /\ npages'[r] = npages[r] /\ next'[r] = next[r]
        /\ begin'[new] = want /\ npages'[new] = len
        /\ begin'[Dummy] = 0 /\ npages'[Dummy] = 0 /\ next'[Dummy] = list
    <3>1. Held \subseteq Node /\ Dummy \notin Node
      BY Basics, Numbers
    <3> QED
      BY <1>1, <1>2, <2>1, <2>2, <3>1 DEF TypeOK
  <2>4. ListHead' = list
    BY <1>1, <2>1 DEF ListHead
  <2>5. Still
    BY <1>1, <2>3, <2>4, Kept DEF IInv, Still
  <2>6. TypeOK'
    <3>1. /\ begin' \in [Node \cup {Dummy} -> 0 .. AddrWrap - 1]
          /\ npages' \in [Node \cup {Dummy} -> Nat]
          /\ next' \in [Node \cup {Dummy} -> Node \cup {Null}]
      <4>1. 0 \in 0 .. AddrWrap - 1 /\ want \in 0 .. AddrWrap - 1 /\ list \in Node \cup {Null}
        BY <1>1, Numbers DEF TypeOK
      <4> QED
        BY <1>1, <2>1, <4>1 DEF TypeOK
    <3> QED
      BY <1>1, <2>1, <3>1, ZenonT(40) DEF TypeOK, pages, args
  <2>7. Nodes'
    BY <1>1, <2>1, <2>5, <2>6, NodesMean, NodesMeanNext DEF IInv, Still, Taken, Taking
  <2>8. Pages'
    BY <1>1, <2>1, <2>5 DEF IInv, Pages, Still, pages
  <2>9. CallExact' /\ FirstFit'
    BY <2>1 DEF CallExact, FirstFit
  <2>10. UNCHANGED <<op, want, len, before, new, list>>
    BY <1>1 DEF args
  <2>11. /\ \A a : NextOnly(a)' <=> NextOnly(a)
         /\ \A a : Gap(a)' <=> Gap(a)
         /\ \A a : LowestGap(a)' <=> LowestGap(a)
         /\ \A r \in Held : Clear(r)' <=> Clear(r)
    BY <2>3, <2>5, <2>10, Same DEF Still
  <2>12. Mmap'
    <3>1. (~ NextOnly(want))'
      BY <1>2, <2>10, <2>11 DEF NextOnly
    <3>2. npages'[new'] = len' /\ before' = Allocated' /\ pc' # "m_alloc"
      BY <1>2, <2>1, <2>3, <2>5, <2>10 DEF Still
    <3>3. op = "mmap" => want # 0
      BY <1>2
    <3> QED
      BY <1>2, <2>10, <3>1, <3>2, <3>3 DEF Mmap
  <2>13. Found'
    <3>1. op = "mmap_any" => LowestGap(want)'
      BY <1>1, <1>2, <2>10, <2>11 DEF Found, LowestGap, Gap
    <3>2. \A r \in Held : Clear(r)'
      BY <1>1, <1>2, <2>11 DEF Found
    <3> QED
      BY <1>2, <2>5, <2>10, <3>1, <3>2 DEF Found, Still
  <2>14. Place'
    BY <1>3, <1>6, <2>1, <2>3, <2>10, Numbers DEF Place
  <2> QED
    BY <2>1, <2>5, <2>6, <2>7, <2>8, <2>9, <2>12, <2>13, <2>14
       DEF Running, Search, Overlap, Done, Munmap, IInv, Still
<1> QED
  BY <1>5, <1>6

LEMMA MmapPlaceInv ==
  ASSUME IInv, MmapPlace
  PROVE  IInv' /\ Allocated' = Allocated
<1>1. TypeOK /\ ListHead = list /\ pc = "m_place"
      /\ UNCHANGED <<nodes, store, list, pages, args, cur, new, va, ret>>
  BY DEF IInv, ListHead, MmapPlace
<1>2. Mmap /\ Found /\ Place /\ want # 0 /\ pre \in Held \cup {Dummy}
  BY <1>1 DEF IInv, Running, Found, Place
<1>3. /\ next[pre] \in Held \cup {Null}
      /\ IF next[pre] # Null /\ begin[next[pre]] < want
         THEN pre' = next[pre] /\ pc' = "m_place" ELSE pc' = "m_merge" /\ pre' = pre
  <2>1. next[Dummy] = list
    BY <1>1, <1>2 DEF Place
  <2> QED
    BY <1>1, <1>2, <2>1, Basics DEF MmapPlace, Goto
<1>4. pc' \in {"m_place", "m_merge"} /\ pre' \in Held \cup {Dummy} /\ begin[pre'] < want
  BY <1>1, <1>2, <1>3 DEF Place
<1>5. pc' = "m_merge" /\ next[pre'] # Null => want <= begin[next[pre']]
  <2>1. next[pre] # Null => begin[next[pre]] \in Nat
    BY <1>3, Basics
  <2>2. want \in Nat
    BY <1>1, Numbers DEF TypeOK
  <2> QED
    BY <1>3, <2>1, <2>2
<1>6. ListHead' = list
  BY <1>1, <1>4 DEF ListHead
<1>7. Still
  BY <1>1, <1>6, Kept DEF IInv, nodes, Still
<1>8. TypeOK'
  <2>1. pre' \in Node \cup {Dummy, Null}
    BY <1>4, Basics
  <2> QED
    BY <1>1, <1>4, <2>1 DEF TypeOK, nodes, pages, args
<1>9. Nodes'
  BY <1>1, <1>4, <1>7, <1>8, NodesMean, NodesMeanNext DEF IInv, Still, Taken, Taking
<1>10. Pages'
  BY <1>1, <1>4, <1>7 DEF IInv, Pages, Still, pages
<1>11. CallExact' /\ FirstFit'
  BY <1>4 DEF CallExact, FirstFit
<1>12. UNCHANGED <<op, want, len, before, new, list, begin, npages, next>>
  BY <1>1 DEF args, nodes
<1>13. /\ \A a : NextOnly(a)' <=> NextOnly(a)
       /\ \A a : Gap(a)' <=> Gap(a)
       /\ \A a : LowestGap(a)' <=> LowestGap(a)
       /\ \A r \in Held : Clear(r)' <=> Clear(r)
  BY <1>7, <1>12, Same DEF Still
<1>14. Mmap'
  <2>1. ~ NextOnly(want)
    BY <1>1, <1>2 DEF Mmap, Taking
  <2>2. (~ NextOnly(want))'
    BY <1>12, <1>13, <2>1 DEF NextOnly
  <2>3. npages'[new'] = len' /\ before' = Allocated' /\ pc' # "m_alloc"
    BY <1>1, <1>2, <1>4, <1>7, <1>12 DEF Mmap, Taking, Still
  <2>4. len \in 1 .. SpanWrap - 1 /\ want + len < AddrWrap /\ op \in {"mmap", "mmap_any"}
    BY <1>1, <1>2 DEF Mmap, Taking
  <2> QED
    BY <1>2, <1>12, <2>2, <2>3, <2>4 DEF Mmap
<1>15. Found'
  <2>1. op = "mmap_any" => LowestGap(want)'
    BY <1>1, <1>2, <1>12, <1>13 DEF Found, LowestGap, Gap
  <2>2. \A r \in Held : Clear(r)'
    BY <1>1, <1>2, <1>13 DEF Found
  <2> QED
    BY <1>2, <1>7, <1>12, <2>1, <2>2 DEF Found, Still
<1>16. Place'
  <2>1. /\ MMAP_BEGIN <= want /\ want + len <= MMAP_END /\ begin[new] = want
        /\ next[Dummy] = list /\ begin[Dummy] = 0 /\ npages[Dummy] = 0
    BY <1>1, <1>2 DEF Place
  <2> QED
    BY <1>4, <1>5, <1>7, <1>12, <2>1 DEF Place, Still
<1> QED
  BY <1>4, <1>7, <1>8, <1>9, <1>10, <1>11, <1>14, <1>15, <1>16
     DEF Running, Search, Overlap, Done, Munmap, IInv, Still

LEMMA ShowRegionInv ==
  ASSUME IInv, ShowRegion
  PROVE  IInv' /\ Allocated' = Allocated
<1>1. TypeOK /\ pc = "show" /\ cur # Null /\ cur' = next[cur]
      /\ UNCHANGED <<nodes, store, list, pages, pc, args, pre, new, va, ret>>
  BY DEF IInv, ShowRegion
<1>2. ListHead' = ListHead
  BY <1>1 DEF ListHead, nodes
<1>3. Still
  BY <1>1, <1>2, Kept DEF IInv, nodes, Still
<1>4. TypeOK'
  <2>1. cur' \in Node \cup {Dummy, Null}
    BY <1>1 DEF TypeOK
  <2> QED
    BY <1>1, <2>1 DEF TypeOK, nodes, pages, args
<1>5. Nodes'
  BY <1>1, <1>3, <1>4, NodesMean, NodesMeanNext DEF IInv, Still, Taken, Taking
<1>6. Pages'
  BY <1>1, <1>3 DEF IInv, Pages, Still, pages
<1>7. CallExact' /\ FirstFit'
  BY <1>1 DEF CallExact, FirstFit
<1>8. Done'
  <2>1. Done /\ UNCHANGED <<pc, op, want, len, before, va>>
    BY <1>1 DEF IInv, Running, args
  <2> QED
    BY <1>3, <2>1 DEF Done, Still, Block, Gap, LowestGap
<1> QED
  BY <1>1, <1>3, <1>4, <1>5, <1>6, <1>7, <1>8
     DEF Running, Mmap, Search, Overlap, Found, Place, Munmap, Taking, IInv, Still

(* What a call returns is what it has done. *)
LEMMA ShowEndInv ==
  ASSUME IInv, ShowEnd
  PROVE  IInv' /\ Allocated' = Allocated
<1>1. TypeOK /\ pc = "show" /\ pc' = "ret" /\ ret' = (IF op = "munmap" THEN 0 ELSE want)
      /\ UNCHANGED <<nodes, store, list, pages, args, locals>>
  BY DEF IInv, ShowEnd, Return, Goto
<1>2. ListHead = list /\ ListHead' = list
  BY <1>1 DEF ListHead
<1>3. Still
  BY <1>1, <1>2, Kept DEF IInv, nodes, Still
<1>4. TypeOK'
  <2>1. ret' \in 0 .. AddrWrap
    BY <1>1, Numbers DEF TypeOK
  <2> QED
    BY <1>1, <2>1 DEF TypeOK, nodes, pages, args, locals
<1>5. Nodes'
  BY <1>1, <1>3, <1>4, NodesMean, NodesMeanNext DEF IInv, Still, Taken, Taking
<1>6. Pages'
  BY <1>1, <1>3 DEF IInv, Pages, Still, pages
<1>7. Covered(list)' = Allocated
  BY <1>1, <1>2, <1>3, CoveredIsNext DEF Still
<1>8. Done /\ UNCHANGED <<op, want, len, before>>
  BY <1>1 DEF IInv, Running, args
<1>9. ret' # Fail
  BY <1>1, Numbers DEF TypeOK, Fail
<1>10. CallExact'
  BY <1>1, <1>7, <1>8, <1>9 DEF CallExact, Done, Block
<1>11. FirstFit'
  BY <1>1, <1>8, <1>9 DEF FirstFit, Done, Gap, LowestGap
<1> QED
  BY <1>1, <1>3, <1>4, <1>5, <1>6, <1>10, <1>11
     DEF Running, Mmap, Search, Overlap, Found, Place, Done, Munmap, Taking, IInv, Still

LEMMA FinitePages ==
  ASSUME IInv
  PROVE  IsFiniteSet(Allocated) /\ (pc # "panic" => mapped \subseteq Allocated /\ IsFiniteSet(mapped))
<1>1. IsFiniteSet(Area)
  BY Numbers, FS_Interval
<1>2. IsFiniteSet(Allocated)
  BY <1>1, Basics, FS_Subset
<1>3. pc # "panic" => mapped \subseteq Allocated
  BY DEF IInv, Pages
<1> QED
  BY <1>2, <1>3, FS_Subset

(* Each page of the block that is left gets a frame of its own. *)
LEMMA MmapMapInv ==
  ASSUME IInv, MmapMap
  PROVE  IInv' /\ Allocated' = Allocated
<1>1. TypeOK /\ ListHead = list /\ pc = "m_map"
      /\ UNCHANGED <<nodes, store, list, args, pre, new, ret>>
  BY DEF IInv, ListHead, MmapMap
<1>2. Done /\ Pages /\ want \in Nat /\ len \in Nat \ {0} /\ want + len <= MMAP_END
      /\ want <= va /\ va <= want + len /\ Block \subseteq Area \ before
      /\ Allocated = before \cup Block /\ op # "munmap"
      /\ mapped = Allocated \ (va .. want + len - 1) /\ frames = Cardinality(mapped)
  BY <1>1, Numbers DEF IInv, Running, Done, Pages, TypeOK
<1>3. want \in Area /\ len < SpanWrap /\ 1 < SpanWrap /\ want + len < AddrWrap /\ va \in Nat
      /\ MMAP_BEGIN <= want
  <2>1. want \in Block
    BY <1>2 DEF Block
  <2>2. want \in Area
    BY <1>2, <2>1
  <2>3. SpanWrap \in Nat /\ MMAP_END - MMAP_BEGIN < SpanWrap
    BY BoundsAssumption
  <2> QED
    BY <1>1, <1>2, <2>2, <2>3, Numbers DEF TypeOK
<1>4. End = want + len
  BY <1>2, <1>3, NoWrap DEF End
<1>5. pc' \in {"show", "panic", "m_map"}
  BY <1>1 DEF MmapMap, Goto
<1>6. ListHead' = list
  BY <1>1, <1>5 DEF ListHead
<1>7. Still
  BY <1>1, <1>6, Kept DEF IInv, nodes, Still
<1>8. CallExact' /\ FirstFit'
  BY <1>5 DEF CallExact, FirstFit
<1>9. UNCHANGED <<op, want, len, before>>
  BY <1>1 DEF args
<1>10. ASSUME TypeOK', Pages', Done' PROVE IInv' /\ Allocated' = Allocated
  <2>1. Nodes'
    BY <1>1, <1>5, <1>7, <1>10, NodesMean, NodesMeanNext DEF IInv, Still, Taken, Taking
  <2> QED
    BY <1>5, <1>7, <1>8, <1>10, <2>1
       DEF Running, Mmap, Search, Overlap, Found, Place, Munmap, Taking, IInv, Still
<1>11. CASE va >= End
  <2>1. pc' = "show" /\ cur' = list /\ UNCHANGED <<pages, va>>
    BY <1>11 DEF MmapMap, Goto
  <2>2. TypeOK'
    BY <1>1, <2>1 DEF TypeOK, nodes, pages, args
  <2>3. va .. want + len - 1 = {}
    BY <1>2, <1>3, <1>4, <1>11
  <2>4. Pages'
    BY <1>2, <1>7, <2>1, <2>3 DEF Pages, Still, pages
  <2>5. Done'
    BY <1>1, <1>2, <1>7, <1>9, <2>1 DEF Done, Still, Block, Gap, LowestGap
  <2> QED
    BY <1>10, <2>2, <2>4, <2>5
<1>12. CASE ~ (va >= End) /\ frames = Frames
  <2>1. pc' = "panic" /\ UNCHANGED <<pages, va, cur>>
    BY <1>12 DEF MmapMap, Goto
  <2>2. TypeOK'
    BY <1>1, <2>1 DEF TypeOK, nodes, pages, args
  <2> QED
    BY <1>10, <2>1, <2>2 DEF Pages, Done
<1>13. CASE ~ (va >= End) /\ frames # Frames
  <2>1. /\ mapped' = mapped \cup {va} /\ frames' = frames + 1 /\ va' = Plus(va, 1)
        /\ pc' = "m_map" /\ cur' = cur
    BY <1>1, <1>13 DEF MmapMap
  <2>2. va < want + len
    BY <1>2, <1>3, <1>4, <1>13
  <2>3. va' = va + 1
    BY <1>2, <1>3, <2>1, <2>2, NoWrap, Numbers
  <2>4. va \in Allocated /\ va \notin mapped
    <3>1. va \in va .. want + len - 1 /\ va \in Block
      BY <1>2, <1>3, <2>2 DEF Block
    <3> QED
      BY <1>2, <3>1
  <2>5. mapped' = Allocated \ (va' .. want + len - 1)
    <3>1. \A a : a \in va .. want + len - 1 <=> a = va \/ a \in va + 1 .. want + len - 1
      BY <1>2, <1>3, <2>2
    <3>2. va \notin va + 1 .. want + len - 1
      BY <1>3
    <3> QED
      BY <1>2, <2>1, <2>3, <2>4, <3>1, <3>2
  <2>6. frames' = Cardinality(mapped')
    <3>1. IsFiniteSet(mapped)
      BY <1>1, FinitePages
    <3>2. Cardinality(mapped \cup {va}) = Cardinality(mapped) + 1
      BY <2>4, <3>1, FS_AddElement
    <3> QED
      BY <1>2, <2>1, <3>2
  <2>7. TypeOK'
    <3>1. va' \in 0 .. AddrWrap - 1
      BY <1>2, <1>3, <2>2, <2>3, Numbers
    <3>2. mapped' \subseteq 0 .. AddrWrap - 1
      BY <1>1, <2>1 DEF TypeOK
    <3>3. frames' \in 0 .. Frames
      BY <1>1, <1>13, <2>1, BoundsAssumption DEF TypeOK
    <3> QED
      BY <1>1, <2>1, <3>1, <3>2, <3>3 DEF TypeOK, nodes, args
  <2>8. Pages'
    BY <1>7, <1>9, <2>1, <2>5, <2>6 DEF Pages, Still
  <2>9. Done'
    <3>1. want' <= va' /\ va' <= want' + len'
      BY <1>2, <1>3, <1>9, <2>2, <2>3
    <3> QED
      BY <1>1, <1>2, <1>7, <1>9, <2>1, <3>1 DEF Done, Still, Block, Gap, LowestGap
  <2> QED
    BY <1>10, <2>7, <2>8, <2>9
<1> QED
  BY <1>11, <1>12, <1>13

-----------------------------------------------------------------------------
(* The steps that edit the list: a block of free pages comes in at one of them,
   or a block goes. *)
Moves == \/ Allocated' = Allocated
         \/ \E p, q \in Area : \/ /\ p .. q \subseteq Area \ Allocated
                                  /\ Allocated' = Allocated \cup (p .. q)
                               \/ Allocated' = Allocated \ (p .. q)

LEMMA InUnmap ==
  ASSUME IInv, pc = "u_walk"
  PROVE  /\ TypeOK /\ Munmap /\ ListHead = next[Dummy] /\ op = "munmap"
         /\ want \in Nat /\ len \in Nat \ {0} /\ len < SpanWrap /\ End = want + len
         /\ pre \in Held \cup {Dummy} /\ next[pre] = cur /\ cur \in Held \cup {Null}
         /\ begin[Dummy] = 0 /\ pre # cur /\ mapped = Allocated
         /\ frames = Cardinality(mapped)
         /\ Linked(Held, next[Dummy], begin, next) /\ Apart(Held, begin, npages)
         /\ Account(store, Held, 0)
<1>1. TypeOK /\ Munmap /\ ListHead = next[Dummy] /\ Pages
  BY DEF IInv, Running, ListHead
<1>2. op = "munmap" /\ pre \in Held \cup {Dummy} /\ next[pre] = cur /\ begin[Dummy] = 0
      /\ len \in 1 .. SpanWrap - 1 /\ want + len < AddrWrap
  BY <1>1 DEF Munmap
<1>3. want \in Nat /\ len \in Nat \ {0} /\ len < SpanWrap
  BY <1>1, <1>2, Numbers DEF TypeOK
<1>4. End = want + len
  BY <1>2, <1>3, NoWrap DEF End
<1>5. cur \in Held \cup {Null}
  BY <1>1, <1>2, Basics
<1>6. pre # cur
  <2>1. \A r \in Held : next[r] # Null => begin[r] < begin[next[r]] /\ begin[r] \in Nat
    BY Step, Basics
  <2>2. Dummy \notin Held /\ Dummy # Null /\ Null \notin Held
    BY Basics, Numbers
  <2> QED
    BY <1>2, <1>5, <2>1, <2>2
<1>7. mapped = Allocated /\ frames = Cardinality(mapped)
  BY <1>1 DEF Pages
<1>8. Linked(Held, next[Dummy], begin, next) /\ Apart(Held, begin, npages)
  BY <1>1 DEF IInv, Shape
<1>9. Account(store, Held, 0)
  BY <1>1, NodesMean DEF IInv, Taken, Taking
<1> QED
  BY <1>1, <1>2, <1>3, <1>4, <1>5, <1>6, <1>7, <1>8, <1>9

(* The region that the walk is at *)
LEMMA AtRegion ==
  ASSUME IInv, Walking
  PROVE  /\ cur \in Held /\ cur \in Node /\ cur # Dummy /\ next[cur] \in Held \cup {Null}
         /\ begin[cur] \in Nat /\ npages[cur] \in Nat \ {0} /\ npages[cur] < SpanWrap
         /\ EndOf(cur) = begin[cur] + npages[cur]
         /\ MMAP_BEGIN <= begin[cur] /\ begin[cur] + npages[cur] <= MMAP_END
         /\ \A r \in Held : r = cur \/ begin[r] + npages[r] < begin[cur]
                                    \/ begin[cur] + npages[cur] < begin[r]
         /\ \A r \in Held : (next[cur] = Null \/ begin[r] < begin[next[cur]])
                               <=> (r = cur \/ begin[r] < begin[cur])
         /\ \A r \in Held : begin[r] < begin[cur] => Clear(r)
<1>1. pc = "u_walk" /\ cur # Null
  BY DEF Walking
<1>2. cur \in Held
  BY <1>1, InUnmap
<1>3. cur \in Node /\ cur # Dummy
  BY <1>2, Basics, Numbers
<1>4. \A r \in Held : begin[r] < begin[cur] => Clear(r)
  BY <1>1, InUnmap DEF Munmap, Passed
<1> QED
  BY <1>2, <1>3, <1>4, Basics, Step

LEMMA Unmapped ==
  ASSUME IInv, pc = "u_walk", NEW a \in Nat, NEW n \in Nat \ {0}, n < SpanWrap, Unmap(a, n)
  PROVE  /\ pc' = "u_walk" /\ ListHead' = next'[Dummy]
         /\ mapped' = Allocated \ (a .. a + n - 1) /\ frames' = Cardinality(mapped')
         /\ mapped' \subseteq 0 .. AddrWrap - 1 /\ frames' \in 0 .. Frames
<1> DEFINE gone == mapped \cap (a .. a + n - 1)
<1>1. Span(n) = n
  <2>1. SpanWrap \in Nat \ {0}
    BY BoundsAssumption
  <2> QED
    BY <2>1 DEF Span
<1>2. n # 0
  OBVIOUS
<1>3. mapped' = mapped \ gone /\ frames' = frames - Cardinality(gone) /\ pc' = pc
  BY <1>1, <1>2 DEF Unmap
<1>4. mapped = Allocated /\ frames = Cardinality(mapped) /\ IsFiniteSet(mapped) /\ TypeOK
  BY InUnmap, FinitePages
<1>5. mapped' = mapped \ (a .. a + n - 1)
  BY <1>3
<1>6. frames' = Cardinality(mapped') /\ Cardinality(mapped') \in Nat /\ Cardinality(gone) \in Nat
  <2>1. IsFiniteSet(gone) /\ IsFiniteSet(mapped')
    BY <1>3, <1>4, FS_Subset
  <2>2. mapped \cap gone = gone
    OBVIOUS
  <2> HIDE DEF gone
  <2>3. Cardinality(mapped \ gone) = Cardinality(mapped) - Cardinality(mapped \cap gone)
    BY <1>4, <2>1, FS_Difference
  <2> QED
    BY <1>3, <1>4, <2>1, <2>2, <2>3, FS_CardinalityType
<1> HIDE DEF gone
<1>7. frames \in Nat /\ frames <= Frames /\ Frames \in Nat
  BY <1>4, BoundsAssumption DEF TypeOK
<1>8. frames' \in 0 .. Frames
  BY <1>3, <1>6, <1>7
<1>9. mapped' \subseteq 0 .. AddrWrap - 1
  BY <1>4, <1>5 DEF TypeOK
<1>10. ListHead' = next'[Dummy]
  BY <1>3 DEF ListHead
<1> QED
  BY <1>3, <1>4, <1>5, <1>6, <1>8, <1>9, <1>10

(* What is left to show of a step that unmaps a block of a region *)
LEMMA UnmapStep ==
  ASSUME IInv, pc = "u_walk", NEW a \in Nat, NEW n \in Nat \ {0}, n < SpanWrap, Unmap(a, n),
         UNCHANGED <<list, args, va, ret>>,
         begin' \in [Node \cup {Dummy} -> 0 .. AddrWrap - 1],
         npages' \in [Node \cup {Dummy} -> Nat],
         next' \in [Node \cup {Dummy} -> Node \cup {Null}],
         store' \in Seq(Node), {cur', new'} \subseteq Node \cup {Dummy, Null},
         Shape', Account(store', Held', 0),
         Allocated' = Allocated \ (a .. a + n - 1),
         a .. a + n - 1 \subseteq Allocated, want <= a, a + n <= want + len,
         begin'[Dummy] = 0, pre' \in Held' \cup {Dummy}, next'[pre'] = cur',
         \A r \in Held' : Passed(r)' => Clear(r)',
         store' = <<>> => \A r \in Held' :
           ~ (begin'[r] < want /\ want + len < begin'[r] + npages'[r])
  PROVE  IInv' /\ Moves
<1>1. /\ pc' = "u_walk" /\ mapped' = Allocated' /\ frames' = Cardinality(mapped')
      /\ mapped' \subseteq 0 .. AddrWrap - 1 /\ frames' \in 0 .. Frames
  BY Unmapped
<1>2. UNCHANGED <<op, want, len, before>>
  BY DEF args
<1>3. TypeOK'
  <2>1. pre' \in Node \cup {Dummy}
    BY DEF Shape, Linked
  <2> QED
    BY <1>1, <1>2, <2>1, InUnmap DEF TypeOK
<1>4. Nodes'
  BY <1>1, <1>3, NodesMeanNext DEF Taken, Taking
<1>5. Pages'
  BY <1>1 DEF Pages
<1>6. Munmap'
  <2>1. Allocated \subseteq before /\ before \ Allocated \subseteq Block
    BY InUnmap DEF Munmap
  <2>2. a .. a + n - 1 \subseteq Block
    BY InUnmap, SMTT(30) DEF Block
  <2>3. Allocated' \subseteq before /\ before \ Allocated' \subseteq Block
    BY <2>1, <2>2
  <2>4. len \in 1 .. SpanWrap - 1 /\ want + len < AddrWrap
    BY InUnmap DEF Munmap
  <2>5. Block' = Block
    BY <1>2 DEF Block
  <2> QED
    BY <1>1, <1>2, <2>3, <2>4, <2>5, InUnmap DEF Munmap
<1>7. CallExact' /\ FirstFit' /\ Running'
  BY <1>1, <1>6 DEF CallExact, FirstFit, Running, Mmap, Search, Overlap, Found, Place, Done, Taking
<1>8. Moves
  <2>1. a \in a .. a + n - 1 /\ a + n - 1 \in a .. a + n - 1
    OBVIOUS
  <2>2. a \in Area /\ a + n - 1 \in Area
    BY <2>1, Basics
  <2> QED
    BY <2>2 DEF Moves
<1> QED
  BY <1>3, <1>4, <1>5, <1>7, <1>8 DEF IInv

LEMMA UnmapLeftInv ==
  ASSUME IInv, UnmapLeft
  PROVE  IInv' /\ Allocated' = Allocated
<1>1. Walking /\ pc = "u_walk" /\ pre' = cur /\ cur' = next[cur] /\ EndOf(cur) <= want
      /\ UNCHANGED <<nodes, store, list, pages, pc, args, new, va, ret>>
  BY DEF UnmapLeft, Skip, Walking
<1>2. TypeOK /\ cur \in Held /\ cur \in Node /\ next[cur] \in Held \cup {Null}
  BY <1>1, AtRegion, InUnmap
<1>3. ListHead' = ListHead
  BY <1>1 DEF ListHead, nodes
<1>4. Still
  BY <1>1, <1>3, Kept DEF IInv, nodes, Still
<1>5. TypeOK'
  <2>1. cur' \in Node \cup {Null}
    BY <1>1, <1>2, Basics
  <2> QED
    BY <1>1, <1>2, <2>1 DEF TypeOK, nodes, pages, args
<1>6. Nodes'
  BY <1>1, <1>2, <1>4, <1>5, NodesMean, NodesMeanNext DEF IInv, Still, Taken, Taking
<1>7. Pages'
  BY <1>1, <1>4 DEF IInv, Pages, Still, pages
<1>8. UNCHANGED <<op, want, len, before, begin, npages, next, pc, store>>
  BY <1>1 DEF args, nodes
<1>9. Munmap'
  <2>1. Clear(cur)
    BY <1>1, AtRegion DEF Clear
  <2>2. \A r \in Held : Passed(r)' => Clear(r)
    BY <1>1, <1>8, <2>1, AtRegion DEF Passed
  <2>3. \A r \in Held' : Passed(r)' => Clear(r)'
    BY <1>4, <1>8, <2>2 DEF Still, Clear
  <2>4. Munmap /\ Block' = Block
    BY <1>1, <1>8, InUnmap DEF Block
  <2> QED
    BY <1>1, <1>2, <1>4, <1>8, <2>3, <2>4 DEF Munmap, Still
<1>10. CallExact' /\ FirstFit'
  BY <1>1 DEF CallExact, FirstFit
<1> QED
  BY <1>1, <1>4, <1>5, <1>6, <1>7, <1>9, <1>10
     DEF Running, Mmap, Search, Overlap, Found, Place, Done, Taking, IInv, Still

(* When the walk ends, no region is left that meets the block. *)
LEMMA UnmapEndInv ==
  ASSUME IInv, UnmapEnd
  PROVE  IInv' /\ Allocated' = Allocated
<1>1. pc = "u_walk" /\ list' = next[Dummy] /\ cur' = next[Dummy] /\ pc' = "show"
      /\ UNCHANGED <<nodes, store, pages, args, pre, new, va, ret>>
  BY DEF UnmapEnd, Goto
<1>2. /\ TypeOK /\ Munmap /\ ListHead = next[Dummy] /\ End = want + len
      /\ op = "munmap" /\ want \in Nat /\ len \in Nat
  BY <1>1, InUnmap
<1>3. ListHead' = ListHead
  BY <1>1, <1>2 DEF ListHead
<1>4. Still
  BY <1>1, <1>3, Kept DEF IInv, nodes, Still
<1>5. TypeOK'
  <2>1. next[Dummy] \in Node \cup {Null}
    BY <1>2 DEF TypeOK
  <2> QED
    BY <1>1, <1>2, <2>1 DEF TypeOK, nodes, pages, args
<1>6. Nodes'
  BY <1>1, <1>2, <1>4, <1>5, NodesMean, NodesMeanNext DEF IInv, Still, Taken, Taking
<1>7. Pages'
  BY <1>1, <1>4 DEF IInv, Pages, Still, pages
<1>8. UNCHANGED <<op, want, len, before, begin, npages>>
  BY <1>1 DEF args, nodes
<1>9. \A r \in Held : Clear(r)
  <2> SUFFICES ASSUME NEW r \in Held, ~ Passed(r) PROVE Clear(r)
    BY <1>1, <1>2 DEF Munmap
  <2>1. cur # Null /\ begin[cur] >= End /\ ~ (begin[r] < begin[cur])
    BY DEF Passed, UnmapEnd
  <2>2. begin[r] \in Nat /\ begin[cur] \in Nat
    BY <1>1, <2>1, Basics, InUnmap
  <2> QED
    BY <1>2, <2>1, <2>2 DEF Clear
<1>10. Allocated = before \ Block
  <2>1. Allocated \subseteq before /\ before \ Allocated \subseteq Block
    BY <1>1, <1>2 DEF Munmap
  <2>2. ASSUME NEW a \in Allocated, a \in Block PROVE FALSE
    <3>1. a \in Nat /\ want <= a /\ a < want + len
      BY <1>2, <2>2 DEF Block
    <3>2. PICK r \in Held : begin[r] <= a /\ a < begin[r] + npages[r]
      BY <2>2, InAllocated
    <3>3. begin[r] \in Nat /\ npages[r] \in Nat
      BY Basics
    <3> QED
      BY <1>2, <1>9, <3>1, <3>2, <3>3 DEF Clear
  <2> QED
    BY <2>1, <2>2
<1>11. Done'
  BY <1>1, <1>2, <1>4, <1>8, <1>10 DEF Done, Still, Block
<1>12. CallExact' /\ FirstFit'
  BY <1>1 DEF CallExact, FirstFit
<1> QED
  BY <1>1, <1>4, <1>5, <1>6, <1>7, <1>11, <1>12
     DEF Running, Mmap, Search, Overlap, Found, Place, Munmap, Taking, IInv, Still

(* The region lies in the block: it goes, and its node with it. *)
LEMMA UnmapWholeInv ==
  ASSUME IInv, UnmapWhole
  PROVE  IInv' /\ Moves
<1> DEFINE a == begin[cur]
           n == npages[cur]
           R == Held \ {cur}
<1>1. /\ Walking /\ pc = "u_walk" /\ want <= a /\ End >= EndOf(cur) /\ Unmap(a, n)
      /\ next' = [next EXCEPT ![pre] = next[cur]]
      /\ store' = <<cur>> \o store /\ cur' = next[cur]
      /\ UNCHANGED <<begin, npages, list, args, pre, new, va, ret>>
  BY DEF UnmapWhole, Meets, Walking
<1>2. /\ TypeOK /\ End = want + len /\ pre \in Held \cup {Dummy} /\ next[pre] = cur
      /\ begin[Dummy] = 0 /\ pre # cur /\ Linked(Held, next[Dummy], begin, next)
      /\ Apart(Held, begin, npages) /\ Account(store, Held, 0)
      /\ want \in Nat /\ len \in Nat
  BY <1>1, InUnmap
<1>3. /\ cur \in Held /\ cur \in Node /\ cur # Dummy /\ cur # Null /\ next[cur] \in Held \cup {Null}
      /\ a \in Nat /\ n \in Nat \ {0} /\ n < SpanWrap /\ EndOf(cur) = a + n
  BY <1>1, AtRegion, Numbers
<1>4. ListHead' = next'[Dummy]
  BY <1>1, <1>3, Unmapped
<1>5. /\ next'[pre] = next[cur] /\ next' \in [Node \cup {Dummy} -> Node \cup {Null}]
      /\ \A q \in Node \cup {Dummy} : q # pre => next'[q] = next[q]
  <2>1. pre \in Node \cup {Dummy} /\ next[cur] \in Node \cup {Null}
    BY <1>2, <1>3, Basics
  <2> QED
    BY <1>1, <1>2, <2>1 DEF TypeOK
<1>6. Linked(R, next'[Dummy], begin', next')
  <2>1. \A q \in (Held \cup {Dummy}) \ {pre, next[pre]} : next'[q] = next[q]
    BY <1>5, Basics
  <2>2. next[pre] # Null /\ next'[pre] = next[next[pre]]
    BY <1>2, <1>3, <1>5
  <2>3. \A q \in Held \ {next[pre]} : begin[q] = begin[q]
    OBVIOUS
  <2>4. Linked(Held \ {next[pre]}, next'[Dummy], begin, next')
    BY <1>2, <2>1, <2>2, <2>3, RemoveLinked
  <2> QED
    BY <1>1, <1>2, <2>4
<1>7. /\ Apart(R, begin', npages')
      /\ Cov(R, begin', npages') = Allocated \ (a .. a + n - 1)
      /\ a .. a + n - 1 \subseteq Allocated
  <2>1. /\ Apart(Held \ {cur}, begin, npages)
        /\ Cov(Held \ {cur}, begin, npages)
             = Cov(Held, begin, npages) \ Run(begin[cur], npages[cur])
        /\ Run(begin[cur], npages[cur]) \subseteq Cov(Held, begin, npages)
    <3>1. Apart(Held, begin, npages) /\ cur \in Held
      BY <1>2, <1>3
    <3> HIDE DEF a, n, R
    <3> QED
      BY <3>1, DropCov
  <2>2. begin' = begin /\ npages' = npages
    BY <1>1
  <2> QED
    BY <2>1, <2>2 DEF Allocated, Run
<1> HIDE DEF a, n, R
<1>8. Held' = R /\ Shape' /\ Allocated' = Allocated \ (a .. a + n - 1)
  BY <1>4, <1>6, <1>7, Reshaped
<1>9. store' \in Seq(Node) /\ store' # <<>> /\ Account(store', Held', 0)
  <2>1. cur \notin Elems(store) /\ store \in Seq(Node) /\ Once(store)
    BY <1>2, <1>3 DEF Account, TypeOK
  <2>2. /\ store' \in Seq(Node) /\ store' # <<>> /\ Once(store')
        /\ Elems(store') = Elems(store) \cup {cur} /\ Len(store') = Len(store) + 1
    BY <1>1, <1>3, <2>1, Push
  <2>3. Held \subseteq Node
    BY Basics
  <2>4. Cardinality(R) = Cardinality(Held) - 1 /\ Cardinality(Held) \in Nat /\ Len(store) \in Nat
    BY <1>3, <2>1, <2>3, Counts DEF R
  <2>5. Len(store') + Cardinality(Held') = N_MMAP
    BY <1>2, <1>8, <2>2, <2>4, BoundsAssumption DEF Account
  <2>6. Held' \cap Elems(store') = {}
    BY <1>2, <1>8, <2>2 DEF Account, R
  <2>7. Len(store') + Cardinality(Held') + 0 = N_MMAP
    BY <1>8, <2>2, <2>4, <2>5
  <2> QED
    BY <2>2, <2>6, <2>7 DEF Account
<1>10. pre' \in Held' \cup {Dummy} /\ next'[pre'] = cur' /\ begin'[Dummy] = 0
  BY <1>1, <1>2, <1>5, <1>8 DEF R
<1>11. \A r \in Held' : Passed(r)' => Clear(r)'
  <2> SUFFICES ASSUME NEW r \in Held', Passed(r)' PROVE Clear(r)'
    OBVIOUS
  <2>1. r \in Held /\ r # cur
    BY <1>8 DEF R
  <2>2. begin[r] < begin[cur]
    BY <1>1, <2>1, AtRegion DEF Passed
  <2>3. Clear(r)
    BY <1>1, <2>1, <2>2, AtRegion
  <2> QED
    BY <1>1, <2>3 DEF Clear, args
<1>12. want <= a /\ a + n <= want + len
  BY <1>1, <1>2, <1>3 DEF a
<1>13. {cur', new'} \subseteq Node \cup {Dummy, Null}
  <2>1. next[cur] \in Node \cup {Null}
    BY <1>3, Basics
  <2> QED
    BY <1>1, <1>2, <2>1 DEF TypeOK
<1>14. begin' \in [Node \cup {Dummy} -> 0 .. AddrWrap - 1] /\ npages' \in [Node \cup {Dummy} -> Nat]
  BY <1>1, <1>2 DEF TypeOK
<1>15. Unmap(a, n) /\ UNCHANGED <<list, args, va, ret>>
  BY <1>1 DEF a, n
<1> QED
  BY <1>1, <1>3, <1>5, <1>7, <1>8, <1>9, <1>10, <1>11, <1>12, <1>13, <1>14, <1>15, UnmapStep

(* The block takes the head of the region. *)
LEMMA UnmapHeadInv ==
  ASSUME IInv, UnmapHead
  PROVE  IInv' /\ Moves
<1> DEFINE a == begin[cur]
           n == End - begin[cur]
<1>1. /\ Walking /\ pc = "u_walk" /\ want <= a /\ a < End /\ End < EndOf(cur) /\ Unmap(a, n)
      /\ begin' = [begin EXCEPT ![cur] = End]
      /\ npages' = [npages EXCEPT ![cur] = EndOf(cur) - End]
      /\ UNCHANGED <<next, store, list, args, pre, cur, new, va, ret>>
  BY DEF UnmapHead, Meets, Walking, locals
<1>2. /\ TypeOK /\ End = want + len /\ pre \in Held \cup {Dummy} /\ next[pre] = cur
      /\ begin[Dummy] = 0 /\ pre # cur /\ Linked(Held, next[Dummy], begin, next)
      /\ Apart(Held, begin, npages) /\ Account(store, Held, 0)
      /\ want \in Nat /\ len \in Nat \ {0}
  BY <1>1, InUnmap
<1>3. /\ cur \in Held /\ cur \in Node /\ cur # Dummy /\ cur # Null
      /\ a \in Nat /\ npages[cur] \in Nat \ {0} /\ npages[cur] < SpanWrap
      /\ EndOf(cur) = a + npages[cur]
      /\ MMAP_BEGIN <= a /\ a + npages[cur] <= MMAP_END
      /\ \A r \in Held : r = cur \/ begin[r] + npages[r] < a \/ a + npages[cur] < begin[r]
  BY <1>1, AtRegion, Numbers
<1>4. n \in Nat \ {0} /\ n < SpanWrap /\ a + n = End /\ End \in Nat
      /\ EndOf(cur) - End \in Nat \ {0} /\ End + (EndOf(cur) - End) = EndOf(cur)
  <2>1. End \in Nat /\ a < End /\ End < a + npages[cur] /\ SpanWrap \in Nat
    BY <1>1, <1>2, <1>3, Numbers
  <2>2. n = End - a
    OBVIOUS
  <2> HIDE DEF a, n
  <2> QED
    BY <1>3, <2>1, <2>2
<1>5. ListHead' = next'[Dummy]
  BY <1>1, <1>3, <1>4, Unmapped
<1>6. /\ begin'[cur] = End /\ npages'[cur] = EndOf(cur) - End
      /\ \A r \in Node \cup {Dummy} : r # cur => begin'[r] = begin[r] /\ npages'[r] = npages[r]
      /\ begin' \in [Node \cup {Dummy} -> 0 .. AddrWrap - 1]
      /\ npages' \in [Node \cup {Dummy} -> Nat]
  <2>1. End \in 0 .. AddrWrap - 1
    BY <1>1, <1>3, <1>4, Numbers
  <2> QED
    BY <1>1, <1>2, <1>3, <1>4, <2>1 DEF TypeOK
<1>7. \A r \in Held : begin[r] \in Nat \ {0} /\ npages[r] \in Nat \ {0} /\ r \in Node
  BY Basics
<1> HIDE DEF a, n
<1>8. \A r \in Held : r # cur => (begin[r] < End <=> begin[r] < a) /\ (End < begin[r] <=> a < begin[r])
  BY <1>1, <1>2, <1>3, <1>4, <1>7
<1>9. Linked(Held, next'[Dummy], begin', next')
  <2>1. \A r \in Held : begin'[r] \in Nat \ {0} /\ next'[r] = next[r]
    BY <1>1, <1>2, <1>4, <1>6, <1>7
  <2>2. a = begin[cur]
    BY DEF a
  <2>3. \A r, s \in Held : begin[r] < begin[s] <=> begin'[r] < begin'[s]
    BY <1>3, <1>4, <1>6, <1>7, <1>8, <2>2
  <2>4. Linked(Held, next[Dummy], begin', next')
    BY <1>2, <2>1, <2>3, SameLinked
  <2> QED
    BY <1>1, <2>4
<1>10. /\ Apart(Held, begin', npages')
       /\ Cov(Held, begin', npages') = Allocated \ (a .. a + n - 1)
       /\ a .. a + n - 1 \subseteq Allocated
  <2>1. \A r \in Held \ {cur} : /\ begin'[r] = begin[r] /\ npages'[r] = npages[r]
                                /\ \/ begin[r] + npages[r] < begin'[cur]
                                   \/ begin'[cur] + npages'[cur] < begin[r]
    BY <1>1, <1>3, <1>4, <1>6, <1>7
  <2>2. /\ begin'[cur] \in Nat /\ npages'[cur] \in Nat \ {0} /\ MMAP_BEGIN <= begin'[cur]
        /\ begin'[cur] + npages'[cur] <= MMAP_END
    BY <1>1, <1>3, <1>4, <1>6, Numbers
  <2>3. /\ Apart(Held \cup {cur}, begin', npages')
        /\ Cov(Held \cup {cur}, begin', npages')
             = Cov(Held \ {cur}, begin, npages) \cup Run(begin'[cur], npages'[cur])
    <3>1. Put(Held, begin, npages, cur, begin', npages')
      BY <2>1, <2>2 DEF Put
    <3>2. Apart(Held \cup {cur}, begin', npages') /\ Grows(Held, begin, npages, cur, begin', npages')
      BY <1>2, <3>1, PutApart
    <3> QED
      BY <3>2 DEF Grows
  <2>4. /\ Cov(Held \ {cur}, begin, npages) = Allocated \ (a .. a + npages[cur] - 1)
        /\ a .. a + npages[cur] - 1 \subseteq Allocated
    <3>1. /\ Cov(Held \ {cur}, begin, npages)
               = Cov(Held, begin, npages) \ Run(begin[cur], npages[cur])
          /\ Run(begin[cur], npages[cur]) \subseteq Cov(Held, begin, npages)
      BY <1>2, <1>3, DropCov
    <3> QED
      BY <3>1 DEF Allocated, Run, a
  <2>5. Held \cup {cur} = Held
    BY <1>3
  <2>6. \A e : /\ e \in a .. a + npages[cur] - 1 <=> e \in a .. a + n - 1 \/ e \in End .. EndOf(cur) - 1
               /\ ~ (e \in a .. a + n - 1 /\ e \in End .. EndOf(cur) - 1)
    BY <1>1, <1>3, <1>4
  <2>7. Run(begin'[cur], npages'[cur]) = End .. EndOf(cur) - 1
    BY <1>4, <1>6 DEF Run
  <2> QED
    BY <2>3, <2>4, <2>5, <2>6, <2>7
<1>11. Held' = Held /\ Shape' /\ Allocated' = Allocated \ (a .. a + n - 1)
  BY <1>5, <1>9, <1>10, Reshaped
<1>12. store' \in Seq(Node) /\ Account(store', Held', 0)
  BY <1>1, <1>2, <1>11 DEF TypeOK
<1>13. pre' \in Held' \cup {Dummy} /\ next'[pre'] = cur' /\ begin'[Dummy] = 0
  BY <1>1, <1>2, <1>3, <1>6, <1>11
<1>14. \A r \in Held' : Passed(r)' => Clear(r)'
  <2> SUFFICES ASSUME NEW r \in Held', Passed(r)' PROVE Clear(r)'
    OBVIOUS
  <2>1. r \in Held /\ begin'[r] < begin'[cur]
    BY <1>1, <1>3, <1>11 DEF Passed
  <2>2. r # cur
    BY <1>4, <1>6, <2>1
  <2>3. begin[r] < begin[cur]
    BY <1>6, <1>7, <1>8, <2>1, <2>2 DEF a
  <2>4. Clear(r)
    BY <1>1, <2>1, <2>3, AtRegion
  <2> QED
    BY <1>1, <1>6, <1>7, <2>1, <2>2, <2>4 DEF Clear, args
<1>15. want <= a /\ a + n <= want + len
  BY <1>1, <1>2, <1>4
<1>16. {cur', new'} \subseteq Node \cup {Dummy, Null} /\ next' \in [Node \cup {Dummy} -> Node \cup {Null}]
  BY <1>1, <1>2 DEF TypeOK
<1>17. store' = <<>> => \A r \in Held' :
         ~ (begin'[r] < want /\ want + len < begin'[r] + npages'[r])
  <2>1. store = <<>> => \A r \in Held : ~ (begin[r] < want /\ want + len < begin[r] + npages[r])
    BY <1>1, InUnmap DEF Munmap
  <2>2. ~ (begin'[cur] < want)
    BY <1>2, <1>6
  <2> QED
    BY <1>1, <1>6, <1>7, <1>11, <2>1, <2>2
<1>18. UNCHANGED <<list, args, va, ret>>
  BY <1>1
<1> QED
  BY <1>1, <1>3, <1>4, <1>6, <1>10, <1>11, <1>12, <1>13, <1>14, <1>15, <1>16, <1>17, <1>18, UnmapStep

(* The block takes the tail of the region. *)
LEMMA UnmapTailInv ==
  ASSUME IInv, UnmapTail
  PROVE  IInv' /\ Moves
<1> DEFINE a == begin[cur]
           n == EndOf(cur) - want
<1>1. /\ Walking /\ pc = "u_walk" /\ a < want /\ want < EndOf(cur) /\ End >= EndOf(cur)
      /\ Unmap(want, n)
      /\ npages' = [npages EXCEPT ![cur] = want - begin[cur]]
      /\ pre' = cur /\ cur' = next[cur]
      /\ UNCHANGED <<begin, next, store, list, args, new, va, ret>>
  BY DEF UnmapTail, Meets, Walking, Skip
<1>2. /\ TypeOK /\ End = want + len /\ begin[Dummy] = 0 /\ Linked(Held, next[Dummy], begin, next)
      /\ Apart(Held, begin, npages) /\ Account(store, Held, 0)
      /\ want \in Nat /\ len \in Nat \ {0}
  BY <1>1, InUnmap
<1>3. /\ cur \in Held /\ cur \in Node /\ next[cur] \in Held \cup {Null}
      /\ a \in Nat /\ npages[cur] \in Nat \ {0} /\ npages[cur] < SpanWrap
      /\ EndOf(cur) = a + npages[cur]
      /\ MMAP_BEGIN <= a /\ a + npages[cur] <= MMAP_END
      /\ \A r \in Held : r = cur \/ begin[r] + npages[r] < a \/ a + npages[cur] < begin[r]
  BY <1>1, AtRegion
<1>4. n \in Nat \ {0} /\ n < SpanWrap /\ want + n = EndOf(cur)
      /\ want - a \in Nat \ {0} /\ a + (want - a) = want
  <2>1. want < a + npages[cur] /\ a < want /\ SpanWrap \in Nat
    BY <1>1, <1>3, Numbers
  <2>2. n = a + npages[cur] - want
    BY <1>2, <1>3
  <2> HIDE DEF a, n
  <2> QED
    BY <1>2, <1>3, <2>1, <2>2
<1>5. ListHead' = next'[Dummy]
  BY <1>1, <1>2, <1>4, Unmapped
<1>6. /\ npages'[cur] = want - a /\ npages' \in [Node \cup {Dummy} -> Nat]
      /\ \A r \in Node \cup {Dummy} : r # cur => npages'[r] = npages[r]
  BY <1>1, <1>2, <1>3, <1>4 DEF TypeOK
<1>7. \A r \in Held : begin[r] \in Nat \ {0} /\ npages[r] \in Nat \ {0} /\ r \in Node
  BY Basics
<1>8. begin' = begin /\ next' = next /\ a = begin[cur]
  BY <1>1
<1> HIDE DEF a, n
<1>9. Linked(Held, next'[Dummy], begin', next')
  BY <1>2, <1>8
<1>10. /\ Apart(Held, begin', npages')
       /\ Cov(Held, begin', npages') = Allocated \ (want .. want + n - 1)
       /\ want .. want + n - 1 \subseteq Allocated
  <2>1. \A r \in Held \ {cur} : /\ begin'[r] = begin[r] /\ npages'[r] = npages[r]
                                /\ \/ begin[r] + npages[r] < begin'[cur]
                                   \/ begin'[cur] + npages'[cur] < begin[r]
    BY <1>1, <1>2, <1>3, <1>4, <1>6, <1>7, <1>8
  <2>2. /\ begin'[cur] \in Nat /\ npages'[cur] \in Nat \ {0} /\ MMAP_BEGIN <= begin'[cur]
        /\ begin'[cur] + npages'[cur] <= MMAP_END
    BY <1>1, <1>2, <1>3, <1>4, <1>6, <1>8, Numbers
  <2>3. /\ Apart(Held \cup {cur}, begin', npages')
        /\ Cov(Held \cup {cur}, begin', npages')
             = Cov(Held \ {cur}, begin, npages) \cup Run(begin'[cur], npages'[cur])
    <3>1. Put(Held, begin, npages, cur, begin', npages')
      BY <2>1, <2>2 DEF Put
    <3>2. Apart(Held \cup {cur}, begin', npages') /\ Grows(Held, begin, npages, cur, begin', npages')
      BY <1>2, <3>1, PutApart
    <3> QED
      BY <3>2 DEF Grows
  <2>4. /\ Cov(Held \ {cur}, begin, npages) = Allocated \ (a .. a + npages[cur] - 1)
        /\ a .. a + npages[cur] - 1 \subseteq Allocated
    <3>1. /\ Cov(Held \ {cur}, begin, npages)
               = Cov(Held, begin, npages) \ Run(begin[cur], npages[cur])
          /\ Run(begin[cur], npages[cur]) \subseteq Cov(Held, begin, npages)
      BY <1>2, <1>3, DropCov
    <3> QED
      BY <1>8, <3>1 DEF Allocated, Run
  <2>5. Held \cup {cur} = Held
    BY <1>3
  <2>6. \A e : /\ e \in a .. a + npages[cur] - 1 <=> e \in a .. want - 1 \/ e \in want .. want + n - 1
               /\ ~ (e \in a .. want - 1 /\ e \in want .. want + n - 1)
    BY <1>1, <1>2, <1>3, <1>4
  <2>7. Run(begin'[cur], npages'[cur]) = a .. want - 1
    BY <1>2, <1>3, <1>4, <1>6, <1>8 DEF Run
  <2> QED
    BY <2>3, <2>4, <2>5, <2>6, <2>7
<1>11. Held' = Held /\ Shape' /\ Allocated' = Allocated \ (want .. want + n - 1)
  BY <1>5, <1>9, <1>10, Reshaped
<1>12. store' \in Seq(Node) /\ Account(store', Held', 0)
  BY <1>1, <1>2, <1>11 DEF TypeOK
<1>13. pre' \in Held' \cup {Dummy} /\ next'[pre'] = cur' /\ begin'[Dummy] = 0
  BY <1>1, <1>2, <1>3, <1>11
<1>14. \A r \in Held' : Passed(r)' => Clear(r)'
  <2> SUFFICES ASSUME NEW r \in Held', Passed(r)' PROVE Clear(r)'
    OBVIOUS
  <2>1. r \in Held /\ (r = cur \/ begin[r] < begin[cur])
    BY <1>1, <1>11, AtRegion DEF Passed
  <2>2. CASE r = cur
    BY <1>1, <1>2, <1>4, <1>6, <1>8, <2>2 DEF Clear, args
  <2>3. CASE r # cur
    <3>1. Clear(r)
      BY <1>1, <2>1, <2>3, AtRegion
    <3> QED
      BY <1>1, <1>6, <1>7, <2>1, <2>3, <3>1 DEF Clear, args
  <2> QED
    BY <2>2, <2>3
<1>15. want <= want /\ want + n <= want + len
  BY <1>1, <1>2, <1>4
<1>16. /\ {cur', new'} \subseteq Node \cup {Dummy, Null}
       /\ begin' \in [Node \cup {Dummy} -> 0 .. AddrWrap - 1]
       /\ next' \in [Node \cup {Dummy} -> Node \cup {Null}]
  BY <1>1, <1>2, <1>3 DEF TypeOK
<1>17. store' = <<>> => \A r \in Held' :
         ~ (begin'[r] < want /\ want + len < begin'[r] + npages'[r])
  <2>1. store = <<>> => \A r \in Held : ~ (begin[r] < want /\ want + len < begin[r] + npages[r])
    BY <1>1, InUnmap DEF Munmap
  <2>2. ~ (want + len < begin'[cur] + npages'[cur])
    BY <1>2, <1>4, <1>6, <1>8
  <2> QED
    BY <1>1, <1>6, <1>7, <1>11, <2>1, <2>2
<1>18. UNCHANGED <<list, args, va, ret>>
  BY <1>1
<1> QED
  BY <1>1, <1>2, <1>4, <1>6, <1>10, <1>11, <1>12, <1>13, <1>14, <1>15, <1>16, <1>17, <1>18, UnmapStep

(* The block lies inside the region: the right part gets a node of its own. *)
LEMMA UnmapSplitInv ==
  ASSUME IInv, UnmapSplit
  PROVE  IInv' /\ Moves
<1> DEFINE a == begin[cur]
           e == EndOf(cur)
           n == store[1]
           m1 == [npages EXCEPT ![cur] = want - a]
<1>1. Walking /\ pc = "u_walk" /\ a < want /\ End < e
  BY DEF UnmapSplit, Splits, Meets, Walking
<1>2. /\ TypeOK /\ Munmap /\ End = want + len /\ begin[Dummy] = 0
      /\ Linked(Held, next[Dummy], begin, next)
      /\ Apart(Held, begin, npages) /\ Account(store, Held, 0)
      /\ want \in Nat /\ len \in Nat \ {0} /\ len < SpanWrap
  BY <1>1, InUnmap
<1>3. /\ cur \in Held /\ cur \in Node /\ cur # Dummy /\ next[cur] \in Held \cup {Null}
      /\ a \in Nat /\ npages[cur] \in Nat \ {0} /\ e = a + npages[cur]
      /\ MMAP_BEGIN <= a /\ e <= MMAP_END
      /\ \A r \in Held : r = cur \/ begin[r] + npages[r] < a \/ e < begin[r]
  BY <1>1, AtRegion
<1>4. store # <<>>
  BY <1>1, <1>2, <1>3 DEF Munmap
<1>5. /\ store' = Tail(store)
      /\ begin' = [begin EXCEPT ![n] = End]
      /\ npages' = [npages EXCEPT ![cur] = want - a, ![n] = e - End]
      /\ next' = [next EXCEPT ![n] = next[cur], ![cur] = n]
      /\ Unmap(want, len)
      /\ new' = n /\ pre' = n /\ cur' = next[cur]
      /\ UNCHANGED <<list, args, va, ret>>
  BY <1>4 DEF UnmapSplit
<1>6. /\ n \in Node /\ n \notin Held /\ store' \in Seq(Node) /\ Once(store')
      /\ Elems(store') = Elems(store) \ {n} /\ Len(store') = Len(store) - 1
  BY <1>2, <1>4, <1>5, Pop DEF Account, TypeOK
<1>7. ListHead' = next'[Dummy]
  BY <1>1, <1>2, <1>5, Unmapped
<1>8. a = begin[cur] /\ e \in Nat /\ want - a \in Nat \ {0} /\ a + (want - a) = want
      /\ e - End \in Nat \ {0} /\ End + (e - End) = e /\ End \in Nat /\ want < End
  BY <1>1, <1>2, <1>3
<1> HIDE DEF a, e, n
<1>9. n # cur /\ n # Dummy /\ n # Null /\ n \in Node \cup {Dummy} /\ cur \in Node \cup {Dummy}
  BY <1>3, <1>6, Numbers
<1>10. /\ begin' \in [Node \cup {Dummy} -> 0 .. AddrWrap - 1]
       /\ npages' \in [Node \cup {Dummy} -> Nat]
       /\ next' \in [Node \cup {Dummy} -> Node \cup {Null}]
       /\ m1 \in [Node \cup {Dummy} -> Nat]
  <2>1. End \in 0 .. AddrWrap - 1
    BY <1>1, <1>3, <1>8, Numbers
  <2>2. next[cur] \in Node \cup {Null}
    BY <1>3, Basics
  <2> QED
    BY <1>2, <1>5, <1>6, <1>8, <1>9, <2>1, <2>2 DEF TypeOK
<1>11. /\ begin'[n] = End /\ npages'[n] = e - End /\ npages'[cur] = want - a
       /\ next'[n] = next[cur] /\ next'[cur] = n
       /\ \A r \in Node \cup {Dummy} : r # n => begin'[r] = begin[r]
       /\ \A r \in Node \cup {Dummy} : r # n => npages'[r] = m1[r]
       /\ m1[cur] = want - a
       /\ \A r \in Node \cup {Dummy} : r # cur => m1[r] = npages[r]
       /\ \A r \in Node \cup {Dummy} : r # n /\ r # cur => next'[r] = next[r]
  BY <1>2, <1>5, <1>9 DEF TypeOK
<1> HIDE DEF m1
<1>12. \A r \in Held : begin[r] \in Nat \ {0} /\ npages[r] \in Nat \ {0} /\ r \in Node /\ r # n
                       /\ r \in Node \cup {Dummy}
  BY <1>6, Basics
<1>13. Linked(Held \cup {n}, next'[Dummy], begin', next')
  <2>1. begin'[n] \in Nat /\ begin[cur] < begin'[n]
    BY <1>1, <1>2, <1>3, <1>8, <1>11
  <2>2. next[cur] # Null => begin'[n] < begin[next[cur]]
    <3> SUFFICES ASSUME next[cur] # Null PROVE End < begin[next[cur]]
      BY <1>11
    <3>1. next[cur] \in Held /\ begin[cur] < begin[next[cur]]
      BY <1>3, Step
    <3>2. begin[next[cur]] \in Nat /\ npages[next[cur]] \in Nat /\ next[cur] # cur
      BY <1>8, <1>12, <3>1
    <3>3. e < begin[next[cur]]
      BY <1>3, <1>8, <3>1, <3>2
    <3> QED
      BY <1>1, <1>8, <3>2, <3>3
  <2>3. \A q \in Held : begin'[q] = begin[q]
    BY <1>11, <1>12
  <2>4. \A q \in (Held \cup {Dummy}) \ {cur} : next'[q] = next[q]
    BY <1>9, <1>11, <1>12
  <2>5. Insert(Held, begin, next, cur, n, begin', next')
    BY <1>2, <1>3, <1>6, <1>11, <2>1, <2>2, <2>3, <2>4 DEF Insert
  <2> QED
    BY <2>5, InsertLinked
<1>14. /\ Apart(Held \cup {n}, begin', npages')
       /\ Cov(Held \cup {n}, begin', npages') = Allocated \ (want .. want + len - 1)
       /\ want .. want + len - 1 \subseteq Allocated
  <2>1. /\ Apart(Held, begin, m1)
        /\ Cov(Held, begin, m1) = Cov(Held \ {cur}, begin, npages) \cup Run(begin[cur], m1[cur])
    <3>1. Put(Held, begin, npages, cur, begin, m1)
      <4>1. \A r \in Held \ {cur} : /\ begin[r] = begin[r] /\ m1[r] = npages[r]
                                    /\ \/ begin[r] + npages[r] < begin[cur]
                                       \/ begin[cur] + m1[cur] < begin[r]
        BY <1>1, <1>2, <1>3, <1>8, <1>11, <1>12
      <4>2. /\ begin[cur] \in Nat /\ m1[cur] \in Nat \ {0} /\ MMAP_BEGIN <= begin[cur]
            /\ begin[cur] + m1[cur] <= MMAP_END
        BY <1>1, <1>2, <1>3, <1>8, <1>11, Numbers
      <4> QED
        BY <4>1, <4>2 DEF Put
    <3>2. Held \cup {cur} = Held
      BY <1>3
    <3>3. Apart(Held \cup {cur}, begin, m1) /\ Grows(Held, begin, npages, cur, begin, m1)
      BY <1>2, <3>1, PutApart
    <3> QED
      BY <3>2, <3>3 DEF Grows
  <2>2. /\ Apart(Held \cup {n}, begin', npages')
        /\ Cov(Held \cup {n}, begin', npages') = Cov(Held \ {n}, begin, m1) \cup Run(begin'[n], npages'[n])
    <3>1. Put(Held, begin, m1, n, begin', npages')
      <4>1. \A r \in Held \ {n} : /\ begin'[r] = begin[r] /\ npages'[r] = m1[r]
                                  /\ \/ begin[r] + m1[r] < begin'[n]
                                     \/ begin'[n] + npages'[n] < begin[r]
        <5> SUFFICES ASSUME NEW r \in Held
                     PROVE  /\ begin'[r] = begin[r] /\ npages'[r] = m1[r]
                            /\ \/ begin[r] + m1[r] < begin'[n]
                               \/ begin'[n] + npages'[n] < begin[r]
          OBVIOUS
        <5>1. begin'[r] = begin[r] /\ npages'[r] = m1[r]
          BY <1>11, <1>12
        <5>2. CASE r = cur
          BY <1>2, <1>8, <1>11, <5>1, <5>2
        <5>3. CASE r # cur
          <6>1. m1[r] = npages[r] /\ begin[r] \in Nat /\ npages[r] \in Nat
            BY <1>11, <1>12, <5>3
          <6>2. begin[r] + npages[r] < a \/ e < begin[r]
            BY <1>3, <5>3
          <6> QED
            BY <1>1, <1>2, <1>3, <1>8, <1>11, <5>1, <6>1, <6>2
        <5> QED
          BY <5>2, <5>3
      <4>2. /\ begin'[n] \in Nat /\ npages'[n] \in Nat \ {0} /\ MMAP_BEGIN <= begin'[n]
            /\ begin'[n] + npages'[n] <= MMAP_END
        <5>1. MMAP_BEGIN <= End /\ e <= MMAP_END
          BY <1>1, <1>2, <1>3, <1>8, Numbers
        <5> QED
          BY <1>8, <1>11, <5>1
      <4> QED
        BY <4>1, <4>2 DEF Put
    <3>2. Apart(Held \cup {n}, begin', npages') /\ Grows(Held, begin, m1, n, begin', npages')
      BY <2>1, <3>1, PutApart
    <3> QED
      BY <3>2 DEF Grows
  <2>3. /\ Cov(Held \ {cur}, begin, npages) = Allocated \ (a .. e - 1)
        /\ a .. e - 1 \subseteq Allocated
    <3>1. /\ Cov(Held \ {cur}, begin, npages)
               = Cov(Held, begin, npages) \ Run(begin[cur], npages[cur])
          /\ Run(begin[cur], npages[cur]) \subseteq Cov(Held, begin, npages)
      BY <1>2, <1>3, DropCov
    <3>2. Run(begin[cur], npages[cur]) = a .. e - 1
      <4>1. begin[cur] = a /\ npages[cur] \in Nat /\ e = a + npages[cur] /\ a \in Nat
        BY <1>3, <1>8
      <4> QED
        BY <4>1 DEF Run
    <3> QED
      BY <3>1, <3>2 DEF Allocated
  <2>4. Held \ {n} = Held
    BY <1>6
  <2>5. \A x : /\ x \in a .. e - 1 <=> \/ x \in a .. want - 1 \/ x \in want .. want + len - 1
                                       \/ x \in End .. e - 1
               /\ ~ (x \in a .. want - 1 /\ x \in want .. want + len - 1)
               /\ ~ (x \in End .. e - 1 /\ x \in want .. want + len - 1)
    BY <1>1, <1>2, <1>3, <1>8
  <2>6. Run(begin[cur], m1[cur]) = a .. want - 1 /\ Run(begin'[n], npages'[n]) = End .. e - 1
    <3>1. begin[cur] = a /\ m1[cur] = want - a /\ begin'[n] = End /\ npages'[n] = e - End
      BY <1>8, <1>11
    <3>2. /\ a + (want - a) = want /\ End + (e - End) = e /\ a \in Nat /\ want \in Nat
          /\ End \in Nat /\ e \in Nat
      BY <1>2, <1>3, <1>8
    <3> QED
      BY <3>1, <3>2 DEF Run
  <2> QED
    BY <2>1, <2>2, <2>3, <2>4, <2>5, <2>6
<1>15. Held' = Held \cup {n} /\ Shape' /\ Allocated' = Allocated \ (want .. want + len - 1)
  BY <1>7, <1>13, <1>14, Reshaped
<1>16. Account(store', Held', 0)
  <2>1. Held \subseteq Node /\ Len(store) \in Nat
    BY <1>2, Basics, SMTT(30) DEF TypeOK
  <2>2. Cardinality(Held \cup {n}) = Cardinality(Held) + 1 /\ Cardinality(Held) \in Nat
    BY <1>6, <2>1, Counts
  <2> QED
    BY <1>2, <1>6, <1>15, <2>1, <2>2 DEF Account
<1>17. pre' \in Held' \cup {Dummy} /\ next'[pre'] = cur' /\ begin'[Dummy] = 0
  BY <1>2, <1>5, <1>9, <1>11, <1>15
<1>18. \A r \in Held' : Passed(r)' => Clear(r)'
  <2> SUFFICES ASSUME NEW r \in Held', Passed(r)' PROVE Clear(r)'
    OBVIOUS
  <2>0. want' = want /\ len' = len
    BY <1>5 DEF args
  <2>1. CASE r = n
    BY <1>2, <1>8, <1>11, <2>0, <2>1 DEF Clear
  <2>2. CASE r = cur
    BY <1>8, <1>9, <1>11, <1>12, <1>3, <2>0, <2>2 DEF Clear
  <2>3. CASE r # n /\ r # cur
    <3>1. r \in Held /\ begin'[r] = begin[r] /\ npages'[r] = npages[r]
      BY <1>11, <1>12, <1>15, <2>3
    <3>2. next[cur] = Null \/ begin[r] < begin[next[cur]]
      <4>1. next[cur] # Null => begin'[next[cur]] = begin[next[cur]]
        BY <1>3, <1>11, <1>12
      <4> QED
        BY <1>5, <3>1, <4>1 DEF Passed
    <3>3. Clear(r)
      BY <1>1, <2>3, <3>1, <3>2, AtRegion
    <3> QED
      BY <2>0, <3>1, <3>3 DEF Clear
  <2> QED
    BY <2>1, <2>2, <2>3
<1>19. {cur', new'} \subseteq Node \cup {Dummy, Null}
  <2>1. next[cur] \in Node \cup {Null}
    BY <1>3, Basics
  <2> QED
    BY <1>5, <1>6, <2>1
<1>20. \A r \in Held' : ~ (begin'[r] < want /\ want + len < begin'[r] + npages'[r])
  <2> SUFFICES ASSUME NEW r \in Held'
               PROVE  ~ (begin'[r] < want /\ want + len < begin'[r] + npages'[r])
    OBVIOUS
  <2>1. CASE r = n
    BY <1>2, <1>8, <1>11, <2>1
  <2>2. CASE r = cur
    BY <1>2, <1>3, <1>8, <1>9, <1>11, <1>12, <2>2
  <2>3. CASE r # n /\ r # cur
    <3>1. r \in Held /\ begin'[r] = begin[r] /\ npages'[r] = npages[r]
          /\ begin[r] \in Nat /\ npages[r] \in Nat
      BY <1>11, <1>12, <1>15, <2>3
    <3>2. begin[r] + npages[r] < a \/ e < begin[r]
      BY <1>3, <2>3, <3>1
    <3> QED
      BY <1>1, <1>2, <1>3, <1>8, <3>1, <3>2
  <2> QED
    BY <2>1, <2>2, <2>3
<1>21. want <= want /\ want + len <= want + len
  BY <1>2
<1> QED
  BY <1>1, <1>2, <1>5, <1>6, <1>10, <1>21, <1>14, <1>15, <1>16, <1>17, <1>18, <1>19, <1>20, UnmapStep

-----------------------------------------------------------------------------
(* mmap_merge: where the block lies between its two neighbours *)
Nx == next[pre]

LEMMA AtMerge ==
  ASSUME IInv, pc = "m_merge"
  PROVE  /\ TypeOK /\ Mmap /\ Found /\ Place /\ ListHead = next[Dummy] /\ mapped = Allocated
         /\ frames = Cardinality(mapped)
         /\ Linked(Held, next[Dummy], begin, next) /\ Apart(Held, begin, npages)
         /\ Account(store, Held, 1) /\ new \in Node /\ new \notin Held /\ new \notin Elems(store)
         /\ want \in Nat \ {0} /\ len \in Nat \ {0} /\ len < SpanWrap
         /\ MMAP_BEGIN <= want /\ want + len <= MMAP_END
         /\ begin[new] = want /\ npages[new] = len /\ begin[Dummy] = 0 /\ npages[Dummy] = 0
         /\ pre \in Held \cup {Dummy} /\ begin[pre] \in Nat /\ npages[pre] \in Nat
         /\ pre \in Held => /\ begin[pre] + npages[pre] <= want /\ MMAP_BEGIN <= begin[pre]
                            /\ npages[pre] # 0
         /\ Nx \in Held \cup {Null}
         /\ Nx # Null => /\ want + len <= begin[Nx] /\ Nx # pre
                         /\ begin[Nx] \in Nat /\ npages[Nx] \in Nat \ {0}
                         /\ begin[Nx] + npages[Nx] <= MMAP_END
<1>1. TypeOK /\ Mmap /\ Found /\ Place /\ ListHead = list /\ Pages
  BY DEF IInv, Running, ListHead
<1>2. mapped = Allocated /\ frames = Cardinality(mapped)
  BY <1>1 DEF Pages
<1>3. /\ MMAP_BEGIN <= want /\ want + len <= MMAP_END /\ begin[new] = want
      /\ next[Dummy] = list /\ begin[Dummy] = 0 /\ npages[Dummy] = 0
      /\ pre \in Held \cup {Dummy} /\ begin[pre] < want
      /\ next[pre] # Null => want <= begin[next[pre]]
  BY <1>1 DEF Place
<1>4. npages[new] = len /\ len \in 1 .. SpanWrap - 1 /\ want # 0 /\ \A r \in Held : Clear(r)
  BY <1>1 DEF Mmap, Found, Taking
<1>5. want \in Nat \ {0} /\ len \in Nat \ {0} /\ len < SpanWrap
  BY <1>1, <1>4, Numbers DEF TypeOK
<1>6. Linked(Held, next[Dummy], begin, next) /\ Apart(Held, begin, npages)
  BY <1>1, <1>3 DEF IInv, Shape
<1>7. Account(store, Held, 1) /\ new \in Node /\ new \notin Held /\ new \notin Elems(store)
  BY <1>1, NodesMean DEF IInv, Taken, Taking
<1>8. /\ \A r \in Held : begin[r] \in Nat \ {0} /\ npages[r] \in Nat \ {0}
                         /\ MMAP_BEGIN <= begin[r] /\ begin[r] + npages[r] <= MMAP_END
      /\ Dummy \notin Held /\ ListHead \in Held \cup {Null}
  BY Basics, Numbers
<1>9. Nx \in Held \cup {Null}
  BY <1>1, <1>3, Basics DEF Nx
<1>10. begin[pre] \in Nat /\ npages[pre] \in Nat
  BY <1>3, <1>8
<1>11. pre \in Held => /\ begin[pre] + npages[pre] <= want /\ MMAP_BEGIN <= begin[pre]
                       /\ npages[pre] # 0
  BY <1>3, <1>4, <1>5, <1>8 DEF Clear
<1>12. Nx # Null => /\ want + len <= begin[Nx] /\ Nx # pre
                    /\ begin[Nx] \in Nat /\ npages[Nx] \in Nat \ {0}
                    /\ begin[Nx] + npages[Nx] <= MMAP_END
  <2> SUFFICES ASSUME Nx # Null PROVE /\ want + len <= begin[Nx] /\ Nx # pre
                                      /\ begin[Nx] \in Nat /\ npages[Nx] \in Nat \ {0}
                                      /\ begin[Nx] + npages[Nx] <= MMAP_END
    OBVIOUS
  <2>1. Nx \in Held /\ want <= begin[Nx]
    BY <1>3, <1>9 DEF Nx
  <2>2. Clear(Nx)
    BY <1>4, <2>1
  <2> QED
    BY <1>3, <1>5, <1>8, <1>10, <2>1, <2>2 DEF Clear
<1> QED
  BY <1>1, <1>2, <1>3, <1>4, <1>5, <1>6, <1>7, <1>9, <1>10, <1>11, <1>12

(* The other regions are behind one of the neighbours. *)
LEMMA Others ==
  ASSUME IInv, pc = "m_merge", NEW r \in Held, r # pre, r # Nx
  PROVE  /\ begin[r] \in Nat /\ npages[r] \in Nat
         /\ \/ pre \in Held /\ begin[r] + npages[r] < begin[pre]
            \/ Nx # Null /\ begin[Nx] + npages[Nx] < begin[r]
<1>1. \A s \in Held : begin[s] \in Nat \ {0} /\ npages[s] \in Nat
  BY Basics
<1>2. First(Held, begin, begin[pre], Nx)
  BY AtMerge DEF Linked, Nx
<1>3. CASE begin[r] < begin[pre]
  <2>1. pre \in Held
    BY <1>1, <1>3, AtMerge
  <2> QED
    BY <1>1, <1>3, <2>1, Basics
<1>4. CASE begin[pre] < begin[r]
  <2>1. Nx # Null /\ Nx \in Held /\ begin[Nx] <= begin[r]
    BY <1>2, <1>4 DEF First
  <2> QED
    BY <1>1, <2>1, Basics
<1>5. begin[pre] # begin[r]
  BY <1>1, AtMerge, Basics
<1> QED
  BY <1>1, <1>3, <1>4, <1>5, AtMerge

(* What is left to show of mmap_merge: nothing of the block was allocated. *)
LEMMA MergeStep ==
  ASSUME IInv, MmapMerge,
         npages' \in [Node \cup {Dummy} -> Nat],
         next' \in [Node \cup {Dummy} -> Node \cup {Null}], store' \in Seq(Node),
         Shape', Account(store', Held', 0), Allocated' = Allocated \cup Block
  PROVE  IInv' /\ Moves
<1>1. /\ pc = "m_merge" /\ pc' = "m_map" /\ va' = want /\ list' = next'[Dummy]
      /\ UNCHANGED <<begin, pages, args, pre, cur, new, ret>>
  BY DEF MmapMerge, Goto
<1>2. /\ TypeOK /\ Mmap /\ Found /\ mapped = Allocated /\ frames = Cardinality(mapped)
      /\ want \in Nat \ {0} /\ len \in Nat \ {0}
      /\ MMAP_BEGIN <= want /\ want + len <= MMAP_END
  BY <1>1, AtMerge
<1>3. UNCHANGED <<op, want, len, before>> /\ before = Allocated /\ op \in {"mmap", "mmap_any"}
  BY <1>1, <1>2 DEF args, Mmap, Taking
<1>4. Block \subseteq Area \ Allocated
  <2> SUFFICES ASSUME NEW a \in Block PROVE a \in Area /\ a \notin Allocated
    OBVIOUS
  <2>1. a \in Nat /\ want <= a /\ a < want + len
    BY <1>2 DEF Block
  <2>2. a \in Area
    BY <1>2, <2>1, Numbers
  <2>3. ASSUME a \in Allocated PROVE FALSE
    <3>1. PICK r \in Held : begin[r] <= a /\ a < begin[r] + npages[r]
      BY <2>3, InAllocated
    <3>2. Clear(r) /\ begin[r] \in Nat /\ npages[r] \in Nat
      BY <1>1, <1>2, Basics DEF Found
    <3> QED
      BY <1>2, <2>1, <3>1, <3>2 DEF Clear
  <2> QED
    BY <2>2, <2>3
<1>5. TypeOK'
  <2>1. list' \in Node \cup {Null} /\ want \in 0 .. AddrWrap - 1
    BY <1>1, <1>2 DEF TypeOK
  <2> QED
    BY <1>1, <1>2, <2>1 DEF TypeOK, pages, args
<1>6. Nodes'
  BY <1>1, <1>5, NodesMeanNext DEF Taken, Taking
<1>7. Pages'
  <2>1. mapped' = Allocated' \ Block /\ frames' = Cardinality(mapped')
    BY <1>1, <1>2, <1>4 DEF pages
  <2> QED
    BY <1>1, <1>3, <2>1 DEF Pages, Block
<1>8. Done'
  <2>1. op = "mmap_any" => LowestGap(want)'
    BY <1>1, <1>2, <1>3 DEF Found, LowestGap, Gap
  <2>2. Block' = Block /\ op # "munmap"
    BY <1>3 DEF Block
  <2>3. va' = want' /\ want' <= want' + len' /\ want' + len' <= MMAP_END /\ len' \in Nat \ {0}
    BY <1>1, <1>2, <1>3
  <2>4. want' <= va' /\ va' <= want' + len'
    BY <1>1, <1>2, <1>3
  <2> QED
    BY <1>1, <1>3, <1>4, <2>1, <2>2, <2>3, <2>4 DEF Done
<1>9. CallExact' /\ FirstFit' /\ Running'
  BY <1>1, <1>8
     DEF CallExact, FirstFit, Running, Mmap, Search, Overlap, Found, Place, Munmap, Taking
<1>10. Moves
  <2>1. want \in Block /\ want + len - 1 \in Block
    BY <1>2 DEF Block
  <2>2. want \in Area /\ want + len - 1 \in Area
    BY <1>4, <2>1
  <2> QED
    BY <1>4, <2>2 DEF Moves, Block
<1> QED
  BY <1>5, <1>6, <1>7, <1>9, <1>10 DEF IInv

(* The three outcomes of mmap_merge: the node is linked between its neighbours;
   the block joins the region before it; it joins both, and the region behind it
   goes, with its node and the new one. *)
JoinsNone == /\ pc = "m_merge" /\ ListHead' = next'[Dummy] /\ UNCHANGED <<begin, npages, store>>
             /\ pre \in Held => begin[pre] + npages[pre] < want
             /\ Nx # Null => want + len < begin[Nx]
             /\ next' = [next EXCEPT ![new] = Nx, ![pre] = new]

JoinsPre == /\ pc = "m_merge" /\ ListHead' = next'[Dummy] /\ UNCHANGED <<begin, next>>
            /\ pre \in Held /\ begin[pre] + npages[pre] = want
            /\ Nx # Null => want + len < begin[Nx]
            /\ npages' = [npages EXCEPT ![pre] = npages[pre] + len]
            /\ store' = <<new>> \o store

JoinsBoth == /\ pc = "m_merge" /\ ListHead' = next'[Dummy] /\ UNCHANGED begin
             /\ pre \in Held /\ begin[pre] + npages[pre] = want
             /\ Nx # Null /\ want + len = begin[Nx]
             /\ npages' = [npages EXCEPT ![pre] = npages[pre] + len + npages[Nx]]
             /\ next' = [next EXCEPT ![pre] = next[Nx]]
             /\ store' = <<Nx>> \o (<<new>> \o store)

LEMMA MergeNone ==
  ASSUME IInv, JoinsNone
  PROVE  Shape' /\ Account(store', Held', 0) /\ Allocated' = Allocated \cup Block
<1>0. /\ pc = "m_merge" /\ ListHead' = next'[Dummy] /\ begin' = begin /\ npages' = npages
      /\ store' = store /\ (pre \in Held => begin[pre] + npages[pre] < want)
      /\ Nx # Null => want + len < begin[Nx]
  BY DEF JoinsNone
<1>1. /\ TypeOK /\ Linked(Held, next[Dummy], begin, next) /\ Apart(Held, begin, npages)
      /\ Account(store, Held, 1) /\ new \in Node /\ new \notin Held
      /\ want \in Nat \ {0} /\ len \in Nat \ {0} /\ MMAP_BEGIN <= want /\ want + len <= MMAP_END
      /\ begin[new] = want /\ npages[new] = len /\ begin[Dummy] = 0
      /\ pre \in Held \cup {Dummy} /\ begin[pre] \in Nat /\ npages[pre] \in Nat
  BY <1>0, AtMerge
<1>2. new # pre /\ new # Null /\ pre \in Node \cup {Dummy} /\ Held \subseteq Node
  BY <1>1, Numbers, Basics
<1>3. /\ next'[new] = Nx /\ next'[pre] = new
      /\ \A q \in Node \cup {Dummy} : q # new /\ q # pre => next'[q] = next[q]
  BY <1>1, <1>2 DEF TypeOK, JoinsNone
<1>4. Linked(Held \cup {new}, next'[Dummy], begin', next')
  <2>1. begin[pre] < begin[new]
    <3>1. CASE pre \in Held
      BY <1>0, <1>1, <3>1
    <3>2. CASE pre = Dummy
      BY <1>1, <3>2
    <3> QED
      BY <1>1, <3>1, <3>2
  <2>2. \A q \in (Held \cup {Dummy}) \ {pre} : next'[q] = next[q]
    BY <1>1, <1>2, <1>3, Numbers
  <2>3. next[pre] # Null => begin[new] < begin[next[pre]]
    BY <1>0, <1>1, AtMerge DEF Nx
  <2>4. Insert(Held, begin, next, pre, new, begin, next')
    BY <1>1, <1>3, <2>1, <2>2, <2>3 DEF Insert, Nx
  <2>5. Linked(Held \cup {new}, next'[Dummy], begin, next')
    BY <2>4, InsertLinked
  <2> QED
    BY <1>0, <2>5
<1>5. Apart(Held \cup {new}, begin, npages) /\ Grows(Held, begin, npages, new, begin, npages)
  <2>1. ASSUME NEW r \in Held PROVE \/ begin[r] + npages[r] < begin[new]
                                    \/ begin[new] + npages[new] < begin[r]
    <3>1. CASE r = pre
      BY <1>0, <1>1, <3>1
    <3>2. CASE r = Nx
      <4>1. r # Null
        BY <1>2, <2>1, Numbers
      <4>2. begin[Nx] \in Nat /\ want + len < begin[Nx]
        BY <1>0, <3>2, <4>1, AtMerge
      <4> QED
        BY <1>1, <3>2, <4>2
    <3>3. CASE r # pre /\ r # Nx
      <4>1. /\ begin[r] \in Nat /\ npages[r] \in Nat
            /\ \/ pre \in Held /\ begin[r] + npages[r] < begin[pre]
               \/ Nx # Null /\ begin[Nx] + npages[Nx] < begin[r]
        BY <1>0, <3>3, Others
      <4>2. Nx # Null => begin[Nx] \in Nat /\ npages[Nx] \in Nat /\ want + len < begin[Nx]
        BY <1>0, AtMerge
      <4>3. pre \in Held => begin[pre] < want
        BY <1>0, <1>1
      <4> QED
        BY <1>1, <4>1, <4>2, <4>3
    <3> QED
      BY <3>1, <3>2, <3>3
  <2>2. Put(Held, begin, npages, new, begin, npages)
    BY <1>1, <2>1 DEF Put
  <2> QED
    BY <1>1, <2>2, PutApart
<1>6. Held' = Held \cup {new} /\ Shape' /\ Allocated' = Cov(Held \cup {new}, begin, npages)
  BY <1>0, <1>4, <1>5, Reshaped
<1>7. Allocated' = Allocated \cup Block
  <2>1. Held \ {new} = Held /\ Run(begin[new], npages[new]) = Block
    BY <1>1 DEF Run, Block
  <2> QED
    BY <1>5, <1>6, <2>1 DEF Grows, Allocated
<1>8. Account(store', Held', 0)
  <2>1. Cardinality(Held \cup {new}) = Cardinality(Held) + 1 /\ Cardinality(Held) \in Nat
    BY <1>1, <1>2, Counts
  <2>2. Len(store) \in Nat /\ new \notin Elems(store)
    BY <1>0, <1>1, AtMerge DEF TypeOK
  <2> QED
    BY <1>0, <1>1, <1>6, <2>1, <2>2 DEF Account
<1> QED
  BY <1>6, <1>7, <1>8

LEMMA MergePre ==
  ASSUME IInv, JoinsPre
  PROVE  Shape' /\ Account(store', Held', 0) /\ Allocated' = Allocated \cup Block
<1>0. /\ pc = "m_merge" /\ ListHead' = next'[Dummy] /\ begin' = begin /\ next' = next
      /\ pre \in Held /\ begin[pre] + npages[pre] = want
      /\ store' = <<new>> \o store
      /\ Nx # Null => want + len < begin[Nx]
  BY DEF JoinsPre
<1>1. /\ TypeOK /\ Linked(Held, next[Dummy], begin, next) /\ Apart(Held, begin, npages)
      /\ Account(store, Held, 1) /\ new \in Node /\ new \notin Held /\ new \notin Elems(store)
      /\ want \in Nat \ {0} /\ len \in Nat \ {0} /\ want + len <= MMAP_END
      /\ begin[pre] \in Nat /\ npages[pre] \in Nat \ {0} /\ MMAP_BEGIN <= begin[pre]
  BY <1>0, AtMerge
<1>2. Held \subseteq Node
  BY Basics
<1>a. /\ begin[pre] + npages[pre] = want /\ begin[pre] + (npages[pre] + len) = want + len
      /\ want + len <= MMAP_END /\ len \in Nat \ {0} /\ want \in Nat
      /\ begin[pre] \in Nat /\ npages[pre] \in Nat \ {0} /\ MMAP_BEGIN <= begin[pre]
  <2>1. begin[pre] \in Nat /\ npages[pre] \in Nat /\ len \in Nat
    BY <1>1
  <2>2. begin[pre] + npages[pre] = want
    BY <1>0
  <2>3. begin[pre] + (npages[pre] + len) = want + len
    BY <2>1, <2>2
  <2> QED
    BY <1>1, <2>2, <2>3
<1>3. /\ npages'[pre] = npages[pre] + len
      /\ \A q \in Held : q # pre => npages'[q] = npages[q]
  BY <1>0, <1>1, <1>2 DEF TypeOK, JoinsPre
<1>4. Linked(Held, next'[Dummy], begin', next')
  BY <1>0, <1>1
<1>5. Apart(Held \cup {pre}, begin, npages') /\ Grows(Held, begin, npages, pre, begin, npages')
  <2>1. ASSUME NEW r \in Held, r # pre PROVE \/ begin[r] + npages[r] < begin[pre]
                                             \/ begin[pre] + npages'[pre] < begin[r]
    <3>1. CASE r = Nx
      <4>1. r # Null
        BY <1>2, <2>1, Numbers
      <4>2. begin[Nx] \in Nat /\ want + len < begin[Nx]
        BY <1>0, <3>1, <4>1, AtMerge
      <4> QED
        BY <1>3, <1>a, <3>1, <4>2
    <3>2. CASE r # Nx
      <4>1. /\ begin[r] \in Nat /\ npages[r] \in Nat
            /\ \/ begin[r] + npages[r] < begin[pre]
               \/ Nx # Null /\ begin[Nx] + npages[Nx] < begin[r]
        BY <1>0, <2>1, <3>2, Others
      <4>2. Nx # Null => begin[Nx] \in Nat /\ npages[Nx] \in Nat /\ want + len < begin[Nx]
        BY <1>0, AtMerge
      <4> QED
        BY <1>3, <1>a, <4>1, <4>2
    <3> QED
      BY <3>1, <3>2
  <2>2. /\ npages'[pre] \in Nat \ {0} /\ begin[pre] + npages'[pre] <= MMAP_END
    BY <1>3, <1>a, Numbers
  <2>3. Put(Held, begin, npages, pre, begin, npages')
    BY <1>3, <1>a, <2>1, <2>2 DEF Put
  <2> QED
    BY <1>1, <2>3, PutApart
<1>6. Held \cup {pre} = Held
  BY <1>0
<1>7. Held' = Held /\ Shape' /\ Allocated' = Cov(Held, begin, npages')
  BY <1>0, <1>4, <1>5, <1>6, Reshaped
<1>8. Allocated' = Allocated \cup Block
  <2>1. /\ Cov(Held \ {pre}, begin, npages) = Allocated \ Run(begin[pre], npages[pre])
        /\ Run(begin[pre], npages[pre]) \subseteq Allocated
    <3>1. pre \in Held /\ Apart(Held, begin, npages)
      BY <1>0, <1>1
    <3> QED
      BY <3>1, DropCov DEF Allocated
  <2>2. Run(begin[pre], npages'[pre]) = Run(begin[pre], npages[pre]) \cup Block
    <3>1. \A a : a \in begin[pre] .. begin[pre] + (npages[pre] + len) - 1
                   <=> a \in begin[pre] .. begin[pre] + npages[pre] - 1 \/ a \in want .. want + len - 1
      BY <1>a
    <3> QED
      BY <1>3, <3>1 DEF Run, Block
  <2> QED
    BY <1>5, <1>6, <1>7, <2>1, <2>2 DEF Grows
<1>9. Account(store', Held', 0)
  <2>1. store \in Seq(Node) /\ Once(store) /\ Len(store) \in Nat
    BY <1>1 DEF Account, TypeOK
  <2>2. /\ Once(store') /\ Elems(store') = Elems(store) \cup {new} /\ Len(store') = Len(store) + 1
    BY <1>0, <1>1, <2>1, Push
  <2>3. Cardinality(Held) \in Nat
    BY <1>2, Counts
  <2> QED
    BY <1>1, <1>7, <2>1, <2>2, <2>3 DEF Account
<1> QED
  BY <1>7, <1>8, <1>9

LEMMA MergeBoth ==
  ASSUME IInv, JoinsBoth
  PROVE  Shape' /\ Account(store', Held', 0) /\ Allocated' = Allocated \cup Block
<1>0. /\ pc = "m_merge" /\ ListHead' = next'[Dummy] /\ begin' = begin
      /\ pre \in Held /\ begin[pre] + npages[pre] = want
      /\ store' = <<Nx>> \o (<<new>> \o store)
      /\ Nx # Null /\ want + len = begin[Nx]
  BY DEF JoinsBoth
<1> DEFINE R == Held \ {Nx}
<1>1. /\ TypeOK /\ Linked(Held, next[Dummy], begin, next) /\ Apart(Held, begin, npages)
      /\ Account(store, Held, 1) /\ new \in Node /\ new \notin Held /\ new \notin Elems(store)
      /\ want \in Nat \ {0} /\ len \in Nat \ {0} /\ begin[Dummy] = 0
      /\ begin[pre] \in Nat /\ npages[pre] \in Nat \ {0} /\ MMAP_BEGIN <= begin[pre]
      /\ Nx \in Held /\ Nx # pre /\ begin[Nx] \in Nat /\ npages[Nx] \in Nat \ {0}
      /\ begin[Nx] + npages[Nx] <= MMAP_END
  BY <1>0, AtMerge
<1>2. Held \subseteq Node /\ R \subseteq Held /\ pre \in R /\ next[Nx] \in Node \cup {Null}
  BY <1>0, <1>1, Basics
<1>a. /\ begin[pre] + npages[pre] = want /\ want + len = begin[Nx]
      /\ begin[pre] + (npages[pre] + len + npages[Nx]) = begin[Nx] + npages[Nx]
      /\ begin[Nx] + npages[Nx] <= MMAP_END /\ len \in Nat \ {0} /\ want \in Nat
      /\ begin[pre] \in Nat /\ npages[pre] \in Nat \ {0} /\ MMAP_BEGIN <= begin[pre]
      /\ begin[Nx] \in Nat /\ npages[Nx] \in Nat \ {0}
  <2>1. begin[pre] \in Nat /\ npages[pre] \in Nat /\ len \in Nat /\ npages[Nx] \in Nat
    BY <1>1
  <2>2. begin[pre] + npages[pre] = want /\ want + len = begin[Nx]
    BY <1>0
  <2>3. begin[pre] + (npages[pre] + len + npages[Nx]) = begin[Nx] + npages[Nx]
    BY <2>1, <2>2
  <2> QED
    BY <1>1, <2>2, <2>3
<1>3. /\ npages'[pre] = npages[pre] + len + npages[Nx]
      /\ \A q \in Held : q # pre => npages'[q] = npages[q]
      /\ next'[pre] = next[Nx]
      /\ \A q \in Held \cup {Dummy} : q # pre => next'[q] = next[q]
  BY <1>0, <1>1, <1>2, Numbers DEF TypeOK, JoinsBoth
<1>4. Linked(R, next'[Dummy], begin', next')
  <2>1. next[pre] # Null /\ next'[pre] = next[next[pre]]
    BY <1>0, <1>3 DEF Nx
  <2>2. \A q \in (Held \cup {Dummy}) \ {pre, next[pre]} : next'[q] = next[q]
    BY <1>3
  <2>3. \A q \in Held \ {next[pre]} : begin[q] = begin[q]
    OBVIOUS
  <2>4. Linked(Held \ {next[pre]}, next'[Dummy], begin, next')
    BY <1>0, <1>1, <2>1, <2>2, <2>3, RemoveLinked
  <2> QED
    BY <1>0, <2>4 DEF Nx
<1>5. /\ Apart(R, begin, npages)
      /\ Cov(R, begin, npages) = Allocated \ Run(begin[Nx], npages[Nx])
      /\ Run(begin[Nx], npages[Nx]) \subseteq Allocated
  BY <1>1, DropCov DEF Allocated
<1> HIDE DEF R
<1>6. Apart(R \cup {pre}, begin, npages') /\ Grows(R, begin, npages, pre, begin, npages')
  <2>1. ASSUME NEW r \in R, r # pre PROVE \/ begin[r] + npages[r] < begin[pre]
                                          \/ begin[pre] + npages'[pre] < begin[r]
    <3>1. r \in Held /\ r # Nx
      BY <2>1 DEF R
    <3>2. /\ begin[r] \in Nat /\ npages[r] \in Nat
          /\ \/ begin[r] + npages[r] < begin[pre]
             \/ begin[Nx] + npages[Nx] < begin[r]
      BY <1>0, <2>1, <3>1, Others
    <3> QED
      BY <1>3, <1>a, <3>2
  <2>2. npages'[pre] \in Nat \ {0} /\ begin[pre] + npages'[pre] <= MMAP_END
    BY <1>3, <1>a, Numbers, SMTT(30)
  <2>3. \A r \in R : r \in Held
    BY <1>2
  <2>4. Put(R, begin, npages, pre, begin, npages')
    BY <1>3, <1>a, <2>1, <2>2, <2>3 DEF Put
  <2> QED
    BY <1>5, <2>4, PutApart
<1>7. R \cup {pre} = R
  BY <1>2
<1>8. Held' = R /\ Shape' /\ Allocated' = Cov(R, begin, npages')
  BY <1>0, <1>4, <1>6, <1>7, Reshaped
<1>9. Allocated' = Allocated \cup Block
  <2>1. /\ Cov(R \ {pre}, begin, npages) = Cov(R, begin, npages) \ Run(begin[pre], npages[pre])
        /\ Run(begin[pre], npages[pre]) \subseteq Cov(R, begin, npages)
    BY <1>2, <1>5, DropCov
  <2>2. Run(begin[pre], npages'[pre])
          = Run(begin[pre], npages[pre]) \cup Block \cup Run(begin[Nx], npages[Nx])
    <3>1. \A a : a \in begin[pre] .. begin[pre] + (npages[pre] + len + npages[Nx]) - 1
                   <=> \/ a \in begin[pre] .. begin[pre] + npages[pre] - 1
                       \/ a \in want .. want + len - 1
                       \/ a \in begin[Nx] .. begin[Nx] + npages[Nx] - 1
      BY <1>a
    <3> QED
      BY <1>3, <3>1 DEF Run, Block
  <2> QED
    BY <1>5, <1>6, <1>7, <1>8, <2>1, <2>2 DEF Grows
<1>10. Account(store', Held', 0)
  <2> DEFINE s == <<new>> \o store
  <2>1. store \in Seq(Node) /\ Once(store) /\ Len(store) \in Nat /\ Nx \notin Elems(store)
    BY <1>1 DEF Account, TypeOK
  <2>2. /\ s \in Seq(Node) /\ Once(s) /\ Elems(s) = Elems(store) \cup {new}
        /\ Len(s) = Len(store) + 1
    BY <1>1, <2>1, Push
  <2>3. store' = <<Nx>> \o s /\ Nx \notin Elems(s) /\ Nx \in Node
    BY <1>0, <1>1, <1>2, <2>1, <2>2
  <2> HIDE DEF s
  <2>4. /\ Once(store') /\ Elems(store') = Elems(s) \cup {Nx} /\ Len(store') = Len(s) + 1
    BY <2>2, <2>3, Push
  <2>5. Cardinality(Held) \in Nat /\ Cardinality(R) = Cardinality(Held) - 1
    BY <1>1, <1>2, Counts DEF R
  <2>6. R \cap Elems(store') = {}
    BY <1>1, <1>2, <2>2, <2>4 DEF Account, R
  <2>7. Len(store') + Cardinality(R) + 0 = N_MMAP
    BY <1>1, <2>1, <2>2, <2>4, <2>5, BoundsAssumption DEF Account
  <2> QED
    BY <1>8, <2>4, <2>6, <2>7 DEF Account
<1> QED
  BY <1>8, <1>9, <1>10

LEMMA MmapMergeInv ==
  ASSUME IInv, MmapMerge
  PROVE  IInv' /\ Moves
<1> DEFINE joinsPre == EndOf(pre) = begin[new]
           c == IF joinsPre THEN pre ELSE new
           np == IF joinsPre THEN [npages EXCEPT ![pre] = @ + npages[new]] ELSE npages
           joinsNext == Nx # Null /\ Plus(begin[c], np[c]) = begin[Nx]
           nt == IF joinsNext THEN [next EXCEPT ![c] = next[Nx]] ELSE next
           freed == (IF joinsNext THEN <<Nx>> ELSE <<>>) \o (IF joinsPre THEN <<new>> ELSE <<>>)
<1>1. /\ pc = "m_merge" /\ pc' = "m_map" /\ list' = next'[Dummy] /\ begin' = begin
      /\ npages' = (IF joinsNext THEN [np EXCEPT ![c] = @ + np[Nx]] ELSE np)
      /\ next' = (IF c = pre THEN nt ELSE [nt EXCEPT ![c] = nt[pre], ![pre] = c])
      /\ store' = freed \o store
  BY DEF MmapMerge, Goto, Nx
<1>2. /\ TypeOK /\ Mmap /\ new \in Node /\ new \notin Held /\ store \in Seq(Node)
      /\ want \in Nat \ {0} /\ len \in Nat \ {0} /\ len < SpanWrap
      /\ MMAP_BEGIN <= want /\ want + len <= MMAP_END
      /\ begin[new] = want /\ npages[new] = len /\ begin[Dummy] = 0 /\ npages[Dummy] = 0
      /\ pre \in Held \cup {Dummy} /\ begin[pre] \in Nat /\ npages[pre] \in Nat
      /\ Nx \in Held \cup {Null} /\ Null \notin Node /\ Held \subseteq Node
      /\ npages \in [Node \cup {Dummy} -> Nat] /\ next \in [Node \cup {Dummy} -> Node \cup {Null}]
  BY <1>1, AtMerge, Numbers, Basics DEF TypeOK
<1>3. pre \in Held => begin[pre] + npages[pre] <= want /\ MMAP_BEGIN <= begin[pre]
  BY <1>1, AtMerge
<1>4. Nx # Null => /\ want + len <= begin[Nx] /\ Nx # pre
                   /\ begin[Nx] \in Nat /\ npages[Nx] \in Nat \ {0}
  BY <1>1, AtMerge
<1>5. ListHead' = next'[Dummy]
  BY <1>1 DEF ListHead
<1>6. new # pre /\ pre \in Node \cup {Dummy} /\ Dummy \notin Node /\ next[pre] = Nx
  BY <1>2, Numbers DEF Nx
<1>7. joinsPre <=> pre \in Held /\ begin[pre] + npages[pre] = want
  <2>1. CASE pre \in Held
    <3>1. EndOf(pre) = begin[pre] + npages[pre]
      BY <2>1, Basics
    <3> QED
      BY <1>2, <2>1, <3>1
  <2>2. CASE pre = Dummy
    <3>1. Plus(0, 0) = 0
      BY Numbers, BoundsAssumption, NoWrap
    <3>2. EndOf(pre) = 0 /\ pre \notin Held
      BY <1>2, <1>6, <2>2, <3>1 DEF EndOf
    <3> QED
      BY <1>2, <3>2
  <2> QED
    BY <1>2, <2>1, <2>2
<1>8. joinsNext <=> Nx # Null /\ want + len = begin[Nx]
  <2>1. CASE joinsPre
    <3>1. c = pre /\ np[c] = npages[pre] + len
      BY <1>2, <1>6, <2>1
    <3>2. /\ begin[pre] \in Nat /\ npages[pre] \in Nat /\ len \in Nat /\ want \in Nat
          /\ begin[pre] + npages[pre] = want /\ MMAP_BEGIN <= begin[pre] /\ want + len <= MMAP_END
      BY <1>2, <1>3, <1>7, <2>1
    <3> HIDE DEF joinsPre, c, np
    <3>3. Plus(begin[pre], npages[pre] + len) = want + len
      <4>1. begin[pre] + (npages[pre] + len) = want + len /\ npages[pre] + len \in Nat
        BY <3>2
      <4>2. /\ MMAP_END - MMAP_BEGIN < SpanWrap /\ MMAP_END < AddrWrap
            /\ {MMAP_BEGIN, MMAP_END, SpanWrap, AddrWrap} \subseteq Nat
        BY BoundsAssumption
      <4>3. npages[pre] + len < SpanWrap /\ want + len < AddrWrap
        BY <3>2, <4>1, <4>2
      <4> QED
        BY <3>2, <4>1, <4>3, NoWrap
    <3> QED
      BY <3>1, <3>3
  <2>2. CASE ~ joinsPre
    <3>1. c = new /\ np[c] = len /\ begin[c] = want
      BY <1>2, <2>2
    <3>2. Plus(want, len) = want + len
      BY <1>2, NoWrap, Numbers
    <3> QED
      BY <3>1, <3>2
  <2> QED
    BY <2>1, <2>2
<1> HIDE DEF joinsPre, joinsNext
<1>9. CASE ~ joinsPre /\ ~ joinsNext
  <2>1. npages' = npages /\ store' = <<>> \o (<<>> \o store) /\ c = new /\ nt = next
    BY <1>1, <1>9
  <2>2. next' = [next EXCEPT ![new] = Nx, ![pre] = new] /\ store' = store
    <3>1. next' = [nt EXCEPT ![new] = nt[pre], ![pre] = new]
      BY <1>1, <1>6, <2>1
    <3>2. store' = store
      BY <1>2, <2>1
    <3>3. nt = next /\ next[pre] = Nx
      BY <1>6, <2>1
    <3> HIDE DEF nt
    <3>4. next' = [next EXCEPT ![new] = Nx, ![pre] = new]
      BY <3>1, <3>3, Zenon
    <3> QED
      BY <3>2, <3>4
  <2> HIDE DEF c, np, nt, freed
  <2>3. /\ pre \in Held => begin[pre] + npages[pre] < want
        /\ Nx # Null => want + len < begin[Nx]
    <3>1. /\ pre \in Held => begin[pre] + npages[pre] # want
          /\ Nx # Null => want + len # begin[Nx]
      BY <1>7, <1>8, <1>9
    <3>2. begin[pre] \in Nat /\ npages[pre] \in Nat /\ want \in Nat /\ len \in Nat
      BY <1>2
    <3>3. pre \in Held => begin[pre] + npages[pre] < want
      BY <1>3, <3>1, <3>2
    <3>4. Nx # Null => want + len < begin[Nx]
      BY <1>4, <3>1, <3>2
    <3> QED
      BY <3>3, <3>4
  <2>4. Shape' /\ Account(store', Held', 0) /\ Allocated' = Allocated \cup Block
    BY <1>1, <1>5, <2>1, <2>2, <2>3, MergeNone DEF JoinsNone
  <2>5. next' \in [Node \cup {Dummy} -> Node \cup {Null}]
    BY <1>2, <2>2
  <2> QED
    BY <1>2, <2>1, <2>2, <2>4, <2>5, MergeStep
<1>10. CASE joinsPre /\ ~ joinsNext
  <2>1. /\ npages' = [npages EXCEPT ![pre] = npages[pre] + len] /\ next' = next
        /\ store' = <<new>> \o store
    BY <1>1, <1>2, <1>10
  <2> HIDE DEF c, np, nt, freed
  <2>2. /\ pre \in Held /\ begin[pre] + npages[pre] = want
        /\ Nx # Null => want + len < begin[Nx]
    <3>1. want \in Nat /\ len \in Nat
      BY <1>2
    <3> QED
      BY <1>4, <1>7, <1>8, <1>10, <3>1
  <2>3. Shape' /\ Account(store', Held', 0) /\ Allocated' = Allocated \cup Block
    BY <1>1, <1>5, <2>1, <2>2, MergePre DEF JoinsPre
  <2>4. npages' \in [Node \cup {Dummy} -> Nat] /\ store' \in Seq(Node)
    BY <1>2, <1>6, <2>1
  <2> QED
    BY <1>2, <2>1, <2>3, <2>4, MergeStep
<1>11. CASE joinsPre /\ joinsNext
  <2>1. np = [npages EXCEPT ![pre] = npages[pre] + len] /\ c = pre
    BY <1>2, <1>11
  <2>2. pre \in Held /\ begin[pre] + npages[pre] = want /\ Nx # Null /\ want + len = begin[Nx]
        /\ Nx \in Node
    BY <1>2, <1>7, <1>8, <1>11
  <2>3. np[pre] = npages[pre] + len /\ np[Nx] = npages[Nx]
    BY <1>2, <1>4, <1>6, <2>1, <2>2
  <2>4. npages' = [npages EXCEPT ![pre] = npages[pre] + len + npages[Nx]]
    <3>1. npages' = [np EXCEPT ![pre] = np[pre] + np[Nx]]
      BY <1>1, <1>11, <2>1
    <3>2. npages' = [np EXCEPT ![pre] = npages[pre] + len + npages[Nx]]
      BY <2>3, <3>1
    <3> HIDE DEF np
    <3> QED
      BY <1>2, <1>6, <2>1, <3>2
  <2>5. next' = [next EXCEPT ![pre] = next[Nx]]
    BY <1>1, <1>11, <2>1
  <2>6. store' = <<Nx>> \o (<<new>> \o store)
    <3>1. store' = (<<Nx>> \o <<new>>) \o store
      BY <1>1, <1>11
    <3> QED
      BY <1>2, <2>2, <3>1, SMTT(30)
  <2>7. Shape' /\ Account(store', Held', 0) /\ Allocated' = Allocated \cup Block
    BY <1>1, <1>5, <2>2, <2>4, <2>5, <2>6, MergeBoth DEF JoinsBoth
  <2>8. /\ npages' \in [Node \cup {Dummy} -> Nat]
        /\ next' \in [Node \cup {Dummy} -> Node \cup {Null}] /\ store' \in Seq(Node)
    BY <1>2, <1>4, <1>6, <2>2, <2>4, <2>5, <2>6, SMTT(30)
  <2> QED
    BY <2>7, <2>8, MergeStep
<1>12. CASE ~ joinsPre /\ joinsNext
  <2>1. Nx \in Held /\ want + len = begin[Nx] /\ ~ NextOnly(want)
    BY <1>1, <1>2, <1>8, <1>12 DEF Mmap, Taking
  <2>2. PICK r \in Held : begin[r] + npages[r] = want
    BY <2>1 DEF NextOnly
  <2>3. r # Nx
    BY <1>2, <1>4, <2>1, <2>2
  <2>4. r # pre
    BY <1>2, <1>7, <1>12, <2>2
  <2>5. \/ pre \in Held /\ begin[r] + npages[r] < begin[pre]
        \/ Nx # Null /\ begin[Nx] + npages[Nx] < begin[r]
    BY <1>1, <2>3, <2>4, Others
  <2>6. begin[r] \in Nat /\ npages[r] \in Nat
    BY Basics
  <2> QED
    BY <1>2, <1>3, <1>4, <2>1, <2>2, <2>5, <2>6, SMTT(30)
<1> QED
  BY <1>9, <1>10, <1>11, <1>12

-----------------------------------------------------------------------------
LEMMA StutterInv ==
  ASSUME IInv, UNCHANGED vars
  PROVE  IInv' /\ Allocated' = Allocated
<1>1. /\ UNCHANGED <<begin, npages, next, store, list, mapped, frames, pc, op, want, len, before>>
      /\ UNCHANGED <<pre, cur, new, va, ret>>
  BY DEF vars, nodes, pages, args, locals
<1>2. ListHead' = ListHead
  BY <1>1 DEF ListHead
<1>3. Still
  BY <1>1, <1>2, Kept DEF IInv, Still
<1>4. TypeOK'
  BY <1>1 DEF IInv, TypeOK
<1>5. Nodes'
  BY <1>1, <1>3, <1>4, NodesMean, NodesMeanNext DEF IInv, Still, Taken, Taking
<1>6. Pages'
  BY <1>1, <1>3 DEF IInv, Pages, Still
<1>7. /\ \A a : NextOnly(a)' <=> NextOnly(a)
      /\ \A a : LowestGap(a)' <=> LowestGap(a)
      /\ \A a : Gap(a)' <=> Gap(a)
      /\ \A r \in Held : Clear(r)' <=> Clear(r)
      /\ \A r : Passed(r)' <=> Passed(r)
      /\ Block' = Block
  BY <1>1, <1>3, Same DEF Still, Passed
<1>8. Mmap'
  <2>1. Mmap
    BY DEF IInv, Running
  <2>2. (want # 0 => ~ NextOnly(want))' <=> (want # 0 => ~ NextOnly(want))
    BY <1>1, <1>7 DEF NextOnly
  <2>3. (want = 0 => \A a \in Area : LowestGap(a) => ~ NextOnly(a))'
          <=> (want = 0 => \A a \in Area : LowestGap(a) => ~ NextOnly(a))
    BY <1>1, <1>7
  <2> QED
    BY <1>1, <1>3, <2>1, <2>2, <2>3 DEF Mmap, Still
<1>9. Search'
  BY <1>1, <1>3, <1>7 DEF IInv, Running, Search, Still
<1>10. Overlap'
  BY <1>1, <1>3, <1>7 DEF IInv, Running, Overlap, Still
<1>11. LowestGap(want)' <=> LowestGap(want)
  BY <1>1 DEF LowestGap, Gap
<1>12. Found'
  BY <1>1, <1>3, <1>7, <1>11 DEF IInv, Running, Found, Still
<1>13. Place'
  BY <1>1, <1>3 DEF IInv, Running, Place, Still
<1>14. Done'
  BY <1>1, <1>3, <1>7, <1>11 DEF IInv, Running, Done, Still
<1>15. Munmap'
  BY <1>1, <1>3, <1>7 DEF IInv, Running, Munmap, Still
<1>16. CallExact' /\ FirstFit'
  <2>1. pc = "ret" => Covered(list)' = Covered(list)
    BY <1>1, <1>3, CoveredIsNext, Basics DEF ListHead, Still
  <2> QED
    BY <1>1, <2>1 DEF IInv, CallExact, FirstFit
<1> QED
  BY <1>3, <1>4, <1>5, <1>6, <1>8, <1>9, <1>10, <1>12, <1>13, <1>14, <1>15, <1>16
     DEF IInv, Running, Still

LEMMA NextInv ==
  ASSUME IInv, Requests, [Next]_vars
  PROVE  IInv' /\ Moves
<1>1. CASE UNCHANGED vars
  BY <1>1, StutterInv DEF Moves
<1>2. ASSUME NEW b \in Begins, NEW n \in Lengths, CallMmap(b, n) PROVE IInv' /\ Moves
  BY <1>2, CallMmapInv DEF Moves
<1>3. ASSUME NEW b \in Begins, NEW n \in Lengths, CallMunmap(b, n) PROVE IInv' /\ Moves
  BY <1>3, CallMunmapInv DEF Moves
<1>4. CASE MmapAlloc
  BY <1>4, MmapAllocInv DEF Moves
<1>5. CASE MmapSearch
  BY <1>5, MmapSearchInv DEF Moves
<1>6. CASE MmapSearchLast
  BY <1>6, MmapSearchLastInv DEF Moves
<1>7. CASE MmapOverlap
  BY <1>7, MmapOverlapInv DEF Moves
<1>8. CASE MmapBounds
  BY <1>8, MmapBoundsInv DEF Moves
<1>9. CASE MmapPlace
  BY <1>9, MmapPlaceInv DEF Moves
<1>10. CASE MmapMerge
  BY <1>10, MmapMergeInv
<1>11. CASE MmapMap
  BY <1>11, MmapMapInv DEF Moves
<1>12. CASE UnmapLeft
  BY <1>12, UnmapLeftInv DEF Moves
<1>13. CASE UnmapWhole
  BY <1>13, UnmapWholeInv
<1>14. CASE UnmapSplit
  BY <1>14, UnmapSplitInv
<1>15. CASE UnmapHead
  BY <1>15, UnmapHeadInv
<1>16. CASE UnmapTail
  BY <1>16, UnmapTailInv
<1>17. CASE UnmapEnd
  BY <1>17, UnmapEndInv DEF Moves
<1>18. CASE ShowRegion
  BY <1>18, ShowRegionInv DEF Moves
<1>19. CASE ShowEnd
  BY <1>19, ShowEndInv DEF Moves
<1>20. CASE Finish
  BY <1>20, FinishInv DEF Moves
<1> QED
  BY <1>1, <1>2, <1>3, <1>4, <1>5, <1>6, <1>7, <1>8, <1>9, <1>10, <1>11, <1>12, <1>13, <1>14,
     <1>15, <1>16, <1>17, <1>18, <1>19, <1>20 DEF Next, InCall

(* Through every step of every call (uvm.c:184-431) the list of the process is
   sorted and apart, covers the pages that are mapped, and the running call has
   looked at the regions that its locals say it has. *)
THEOREM Invariance == ASSUME Requests PROVE Spec => []IInv
<1>1. Init => IInv
  BY InitInv
<1>2. IInv /\ [Next]_vars => IInv'
  BY NextInv
<1> QED
  BY <1>1, <1>2, PTL DEF Spec

(* Between two calls the list is in address order and ends, and its regions lie in
   the area and neither touch nor overlap (README.md:453 and 457). *)
THEOREM ShapeCorrect == ASSUME Requests PROVE Spec => []WellFormed
<1>1. IInv => WellFormed
  <2> SUFFICES ASSUME IInv, pc \in {"idle", "ret"}, NEW r \in OnList(list)
               PROVE  /\ MMAP_BEGIN <= begin[r] /\ npages[r] > 0
                      /\ begin[r] + npages[r] <= MMAP_END
                      /\ next[r] # Null => begin[r] + npages[r] < begin[next[r]]
    BY DEF WellFormed, IInv
  <2>1. r \in Held
    BY DEF Held, ListHead
  <2>2. /\ begin[r] \in Nat /\ npages[r] \in Nat \ {0} /\ MMAP_BEGIN <= begin[r]
        /\ begin[r] + npages[r] <= MMAP_END
    BY <2>1, Basics
  <2>3. ASSUME next[r] # Null PROVE begin[r] + npages[r] < begin[next[r]]
    <3>1. next[r] \in Held /\ begin[r] < begin[next[r]]
      BY <2>1, <2>3, Step
    <3>2. begin[next[r]] \in Nat /\ npages[next[r]] \in Nat
      BY <3>1, Basics
    <3>3. \/ r = next[r] \/ begin[r] + npages[r] < begin[next[r]]
          \/ begin[next[r]] + npages[next[r]] < begin[r]
      BY <2>1, <3>1, Basics
    <3> QED
      BY <2>2, <3>1, <3>2, <3>3
  <2> QED
    BY <2>2, <2>3
<1> QED
  BY <1>1, Invariance, PTL

(* No call loses a node of the store or puts one in two places, on any of its
   paths, those that fail included. *)
THEOREM ConservationCorrect == ASSUME Requests PROVE Spec => []Conservation
<1>1. IInv => Conservation
  BY DEF IInv, Nodes
<1> QED
  BY <1>1, Invariance, PTL

(* The regions say exactly which pages are mapped, one frame each. *)
THEOREM MappedCorrect == ASSUME Requests PROVE Spec => []MappedExact
<1>1. IInv => MappedExact
  <2> SUFFICES ASSUME IInv, pc \in {"idle", "ret"}
               PROVE  mapped = Covered(list) /\ frames = Cardinality(mapped)
    BY DEF MappedExact
  <2>1. mapped = Allocated /\ frames = Cardinality(mapped)
    BY DEF IInv, Pages
  <2>2. Covered(list) = Allocated
    BY Basics DEF ListHead
  <2> QED
    BY <2>1, <2>2
<1> QED
  BY <1>1, Invariance, PTL

(* What a call has done to the pages is what its result says. *)
THEOREM CallCorrect == ASSUME Requests PROVE Spec => []CallExact
<1>1. IInv => CallExact
  BY DEF IInv
<1> QED
  BY <1>1, Invariance, PTL

(* An mmap of any address takes the first gap that is large enough
   (README.md:463), and fails only when there is none, or no node. *)
THEOREM FirstFitCorrect == ASSUME Requests PROVE Spec => []FirstFit
<1>1. IInv => FirstFit
  BY DEF IInv
<1> QED
  BY <1>1, Invariance, PTL

(* However many steps a call takes, the set of allocated pages changes only by a
   free block that comes in at once, or by blocks that go. *)
THEOREM SetRefinement == ASSUME Requests PROVE Spec => ImplementsPageSet
<1>1. Init => PS!Init
  <2> SUFFICES ASSUME Init PROVE Covered(ListHead) = {}
    BY DEF PS!Init
  <2>1. ListHead = Null
    BY DEF Init, ListHead
  <2>2. Linked({}, ListHead, begin, next)
    BY <2>1 DEF Linked, First
  <2>3. OnList(ListHead) = {}
    BY <2>2, HeldIs DEF Held
  <2> QED
    BY <2>3 DEF Covered
<1>2. IInv /\ IInv' /\ [Next]_vars => [PS!Next]_(Covered(ListHead))
  <2> SUFFICES ASSUME IInv, IInv', [Next]_vars, Covered(ListHead)' # Covered(ListHead)
               PROVE  PS!Next
    OBVIOUS
  <2>1. Covered(ListHead) = Allocated
    BY Basics
  <2>2. Covered(ListHead)' = Allocated'
    BY CoveredIsNext DEF IInv
  <2>3. PICK p \in Area, q \in Area :
          \/ p .. q \subseteq Area \ Allocated /\ Allocated' = Allocated \cup (p .. q)
          \/ Allocated' = Allocated \ (p .. q)
    BY <2>1, <2>2, NextInv DEF Moves
  <2>4. PS!Block(p, q - p + 1) = p .. q
    <3>1. p \in Nat /\ q \in Nat
      BY Numbers
    <3>2. p + (q - p + 1) - 1 = q
      BY <3>1
    <3> QED
      BY <3>2 DEF PS!Block
  <2>5. PS!Map(p, q - p + 1) \/ PS!Unmap(p, q - p + 1)
    BY <2>1, <2>2, <2>3, <2>4 DEF PS!Map, PS!Unmap
  <2> QED
    BY <2>5 DEF PS!Next
<1> QED
  BY <1>1, <1>2, Invariance, PTL DEF Spec, ImplementsPageSet, PS!Spec
=============================================================================
