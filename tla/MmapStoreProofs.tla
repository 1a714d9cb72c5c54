--------------------------- MODULE MmapStoreProofs ---------------------------
(* The node store keeps every node in one place, its list in memory exact, a
   walk of that list truthful, and implements PagePool, for every number of
   harts and nodes. *)
EXTENDS MmapStore, FiniteSetTheorems, WellFoundedInduction, TLAPS

InSection == {"a_pick", "a_unlink", "a_clear", "a_release",
              "f_link", "f_push", "f_release", "s_walk"}

(* The holder of list_lk is the hart between acquire and release. *)
Section == \A c \in CPU : holder["list"] = c <=> pc[c] \in InSection

(* What a call knows about its node. *)
Calls ==
  \A c \in CPU :
    /\ pc[c] = "a_unlink" => node[c] = head /\ node[c] # Null
    /\ pc[c] = "f_push" => nxt[node[c]] = head

(* A walk has printed the list up to the node it is at. *)
Walked(c) == LET k == Len(shown[c])
             IN  /\ k <= Len(free)
                 /\ shown[c] = SubSeq(free, 1, k)
                 /\ node[c] = IF k = Len(free) THEN Null ELSE free[k + 1]
Walks == \A c \in CPU : pc[c] = "s_walk" => Walked(c)

IInv == Conservation /\ FreeChain /\ AllocExact /\ Calls /\ Section /\ Walks

-----------------------------------------------------------------------------
(* Lists: s is a list without repetitions, and the links w lead from h along it. *)
Once(s) == \A i, j \in DOMAIN s : s[i] = s[j] => i = j
Linked(h, w, s) ==
  /\ h = IF s = <<>> THEN Null ELSE Head(s)
  /\ \A i \in DOMAIN s : w[s[i]] = IF i = Len(s) THEN Null ELSE s[i + 1]
Elems(s) == {s[i] : i \in DOMAIN s}

(* Tail drops the first element and moves the others up. *)
LEMMA TailFacts ==
  ASSUME NEW S, NEW s \in Seq(S), s # <<>>
  PROVE  /\ Len(s) \in Nat \ {0} /\ Head(s) = s[1] /\ s[1] \in S
         /\ Tail(s) \in Seq(S)
         /\ Len(Tail(s)) = Len(s) - 1
         /\ \A i \in 1 .. Len(s) - 1 : Tail(s)[i] = s[i + 1]
  OBVIOUS

(* Pushing e puts it first and moves the others down. *)
LEMMA PushFacts ==
  ASSUME NEW S, NEW s \in Seq(S), NEW e \in S
  PROVE  /\ <<e>> \o s \in Seq(S) /\ <<e>> \o s # <<>>
         /\ Len(<<e>> \o s) = Len(s) + 1
         /\ (<<e>> \o s)[1] = e
         /\ \A i \in 1 .. Len(s) : (<<e>> \o s)[i + 1] = s[i]
  OBVIOUS

(* Unlinking the head of a linked list leaves the linked list of the others. *)
LEMMA Pop ==
  ASSUME NEW S, NEW s \in Seq(S), s # <<>>, Once(s), NEW w, NEW h, Linked(h, w, s)
  PROVE  /\ Tail(s) \in Seq(S) /\ Once(Tail(s)) /\ Linked(w[h], w, Tail(s))
         /\ h \in Elems(s) /\ Elems(Tail(s)) = Elems(s) \ {h}
<1> DEFINE n == Len(s)
           t == Tail(s)
<1>1. /\ n \in Nat \ {0} /\ DOMAIN s = 1 .. n /\ DOMAIN t = 1 .. n - 1 /\ h = s[1]
      /\ t \in Seq(S) /\ Len(t) = n - 1
      /\ \A i \in 1 .. n - 1 : t[i] = s[i + 1]
  BY TailFacts DEF Linked
<1> HIDE DEF n, t
<1>2. \A i \in 1 .. n - 1 : i + 1 \in 1 .. n /\ i + 1 # 1
  BY <1>1
<1>3. \A i \in 2 .. n : i - 1 \in 1 .. n - 1 /\ (i - 1) + 1 = i
  BY <1>1
<1>4. Once(t)
  <2>1. \A i, j \in 1 .. n - 1 : i + 1 = j + 1 => i = j
    BY <1>1
  <2> QED
    BY <1>1, <1>2, <2>1 DEF Once
<1>5. Elems(t) = Elems(s) \ {h}
  <2>1. ASSUME NEW i \in 1 .. n - 1 PROVE t[i] \in Elems(s) /\ t[i] # h
    <3>1. t[i] = s[i + 1] /\ i + 1 \in DOMAIN s /\ 1 \in DOMAIN s /\ i + 1 # 1
      BY <1>1
    <3> QED
      BY <1>1, <3>1 DEF Once, Elems
  <2>2. ASSUME NEW i \in 1 .. n, s[i] # h PROVE s[i] \in Elems(t)
    <3>1. i - 1 \in DOMAIN t /\ t[i - 1] = s[i]
      BY <1>1, <2>2
    <3> QED
      BY <3>1 DEF Elems
  <2>3. Elems(s) = {s[i] : i \in 1 .. n} /\ Elems(t) = {t[i] : i \in 1 .. n - 1}
    BY <1>1 DEF Elems
  <2> QED
    BY <2>1, <2>2, <2>3
<1>6. Linked(w[h], w, t)
  <2>1. w[h] = IF n = 1 THEN Null ELSE s[2]
    BY <1>1 DEF Linked, n
  <2>2. (t = <<>> <=> n = 1) /\ (n # 1 => Head(t) = s[2])
    BY <1>1
  <2>3. ASSUME NEW i \in 1 .. n - 1 PROVE w[t[i]] = IF i = n - 1 THEN Null ELSE t[i + 1]
    <3>1. w[s[i + 1]] = IF i + 1 = n THEN Null ELSE s[(i + 1) + 1]
      BY <1>1, <1>2 DEF Linked, n
    <3>2. i # n - 1 => i + 1 \in 1 .. n - 1
      BY <1>1
    <3> QED
      BY <1>1, <3>1, <3>2
  <2> QED
    BY <1>1, <2>1, <2>2, <2>3 DEF Linked
<1>7. h \in Elems(s)
  BY <1>1 DEF Elems
<1> QED
  BY <1>1, <1>4, <1>5, <1>6, <1>7 DEF t

(* An element outside a linked list whose link is the head makes it longer by one. *)
LEMMA Push ==
  ASSUME NEW S, NEW s \in Seq(S), Once(s), NEW w, NEW h, Linked(h, w, s),
         NEW e \in S, e \notin Elems(s), w[e] = h
  PROVE  LET t == <<e>> \o s
         IN  t \in Seq(S) /\ Once(t) /\ Linked(e, w, t) /\ Elems(t) = Elems(s) \cup {e}
<1> DEFINE n == Len(s)
           t == <<e>> \o s
<1>1. /\ n \in Nat /\ DOMAIN s = 1 .. n /\ DOMAIN t = 1 .. n + 1 /\ t[1] = e
      /\ t \in Seq(S) /\ t # <<>> /\ Len(t) = n + 1
      /\ \A i \in 1 .. n : t[i + 1] = s[i]
      /\ s = <<>> <=> n = 0
      /\ n # 0 => Head(s) = s[1]
      /\ Head(t) = e
  BY PushFacts
<1> HIDE DEF n, t
<1>2. \A i \in 1 .. n + 1 : i = 1 \/ (i - 1 \in 1 .. n /\ (i - 1) + 1 = i)
  BY <1>1
<1>3. \A i \in 1 .. n + 1 : i # 1 => t[i] = s[i - 1] /\ i - 1 \in 1 .. n
  BY <1>1, <1>2
<1>4. Once(t)
  <2>1. \A i \in 1 .. n + 1 : i # 1 => t[i] # e
    BY <1>1, <1>3 DEF Elems
  <2>2. ASSUME NEW i \in 1 .. n + 1, NEW j \in 1 .. n + 1, i # 1, j # 1, t[i] = t[j]
        PROVE  i - 1 = j - 1
    <3>1. s[i - 1] = s[j - 1] /\ i - 1 \in DOMAIN s /\ j - 1 \in DOMAIN s
      BY <1>1, <1>3, <2>2
    <3> QED
      BY <3>1 DEF Once
  <2>3. \A i, j \in 1 .. n + 1 : i - 1 = j - 1 => i = j
    BY <1>1
  <2> QED
    BY <1>1, <2>1, <2>2, <2>3 DEF Once
<1>5. Elems(t) = Elems(s) \cup {e}
  <2>1. ASSUME NEW i \in 1 .. n PROVE s[i] \in Elems(t)
    <3>1. i + 1 \in DOMAIN t /\ t[i + 1] = s[i]
      BY <1>1
    <3> QED
      BY <3>1 DEF Elems
  <2>2. 1 \in DOMAIN t /\ e \in Elems(t)
    BY <1>1 DEF Elems
  <2>3. Elems(s) = {s[i] : i \in 1 .. n} /\ Elems(t) = {t[i] : i \in 1 .. n + 1}
    BY <1>1 DEF Elems
  <2>4. \A i \in 1 .. n + 1 : t[i] \in Elems(s) \cup {e}
    BY <1>1, <1>3, <2>3
  <2> QED
    BY <2>1, <2>2, <2>3, <2>4
<1>6. Linked(e, w, t)
  <2>1. w[e] = IF n = 0 THEN Null ELSE s[1]
    BY <1>1 DEF Linked
  <2>2. ASSUME NEW i \in 1 .. n + 1 PROVE w[t[i]] = IF i = n + 1 THEN Null ELSE t[i + 1]
    <3>1. CASE i = 1
      <4>1. n # 0 => t[1 + 1] = s[1]
        BY <1>1
      <4> QED
        BY <1>1, <2>1, <3>1, <4>1
    <3>2. CASE i # 1
      <4>1. w[s[i - 1]] = IF i - 1 = n THEN Null ELSE s[(i - 1) + 1]
        BY <1>1, <1>3, <3>2 DEF Linked, n
      <4>2. (i - 1) + 1 = i /\ (i - 1 = n <=> i = n + 1) /\ (i # n + 1 => i \in 1 .. n)
        BY <1>1, <3>2
      <4> QED
        BY <1>1, <1>3, <3>2, <4>1, <4>2
    <3> QED
      BY <3>1, <3>2
  <2> QED
    BY <1>1, <2>2 DEF Linked
<1> QED
  BY <1>1, <1>4, <1>5, <1>6 DEF t

-----------------------------------------------------------------------------
(* Induction, in the form that takes a set: a set of naturals has a least element. *)
LEMMA Least ==
  ASSUME NEW T, T \subseteq Nat, T # {}
  PROVE  \E n \in T : \A m \in T : n <= m
<1> DEFINE F == {0 .. n : n \in T}
<1>1. F \subseteq FiniteSubsetsOf(Nat) /\ F # {}
  <2>1. \A n \in Nat : IsFiniteSet(0 .. n) /\ 0 .. n \subseteq Nat
    BY FS_Interval
  <2> QED
    BY <2>1 DEF FiniteSubsetsOf
<1>2. PICK U \in F : \A V \in F : ~ (<<V, U>> \in StrictSubsetOrdering(Nat))
  <2> HIDE DEF F
  <2> QED
    BY <1>1, FS_StrictSubsetOrderingWellFounded, WFMin
<1>3. PICK n \in T : U = 0 .. n
  OBVIOUS
<1>4. ASSUME NEW m \in T, m < n PROVE FALSE
  <2>1. /\ 0 .. m \in F /\ 0 .. m \subseteq 0 .. n /\ n \in 0 .. n /\ n \notin 0 .. m
        /\ 0 .. n \subseteq Nat
    BY <1>4
  <2>2. <<0 .. m, 0 .. n>> \in StrictSubsetOrdering(Nat)
    BY <2>1 DEF StrictSubsetOrdering
  <2> QED
    BY <1>2, <1>3, <2>1, <2>2
<1> QED
  BY <1>4

(* A set that holds 0 and the successor of each of its naturals holds them all. *)
LEMMA Induction ==
  ASSUME NEW T, 0 \in T, \A n \in Nat : n \in T => n + 1 \in T
  PROVE  Nat \subseteq T
<1> DEFINE U == Nat \ T
<1> SUFFICES ASSUME U # {} PROVE FALSE
  OBVIOUS
<1>1. PICK n \in U : \A m \in U : n <= m
  <2>1. U \subseteq Nat
    OBVIOUS
  <2> HIDE DEF U
  <2> QED
    BY <2>1, Least
<1>2. n # 0 /\ n - 1 \in Nat /\ n - 1 \notin U
  BY <1>1
<1> QED
  BY <1>2

(* A list without repetitions is no longer than the store. *)
LEMMA ListBound ==
  ASSUME NEW s \in Seq(Node), Once(s)
  PROVE  Len(s) \in Nat /\ Len(s) <= N_MMAP
<1>1. Len(s) \in Nat /\ s \in [1 .. Len(s) -> Node] /\ DOMAIN s = 1 .. Len(s)
  OBVIOUS
<1>2. ASSUME NEW n \in Nat PROVE IsFiniteSet(1 .. n) /\ Cardinality(1 .. n) = n
  <2>1. Cardinality(1 .. n) = IF 1 > n THEN 0 ELSE n - 1 + 1
    BY FS_Interval
  <2>2. 1 > n => n = 0
    OBVIOUS
  <2>3. n - 1 + 1 = n
    OBVIOUS
  <2>4. Cardinality(1 .. n) = n
    BY <2>1, <2>2, <2>3, Zenon
  <2> QED
    BY <2>4, FS_Interval
<1>4. IsFiniteSet(Node) /\ Cardinality(Node) = N_MMAP
  <2>1. 0 \in Int /\ N_MMAP - 1 \in Int
    BY NAssumption
  <2>2. Cardinality(0 .. N_MMAP - 1) = IF 0 > N_MMAP - 1 THEN 0 ELSE (N_MMAP - 1) - 0 + 1
    BY <2>1, FS_Interval
  <2>3. ~ (0 > N_MMAP - 1) /\ (N_MMAP - 1) - 0 + 1 = N_MMAP
    BY NAssumption
  <2>4. Cardinality(Node) = N_MMAP
    BY <2>2, <2>3, Zenon DEF Node
  <2> QED
    BY <2>1, <2>4, FS_Interval DEF Node
<1>3. CASE N_MMAP < Len(s)
  <2>1. \E i, j \in 1 .. Len(s) : i # j /\ s[i] = s[j]
    BY <1>1, <1>2, <1>3, <1>4, FS_PigeonHole
  <2> QED
    BY <1>1, <2>1 DEF Once
<1> QED
  BY <1>1, <1>3, NAssumption

(* What the links w reach from h is what is on the list. *)
Reach(h, w) == LET at[k \in 0 .. N_MMAP] ==
                     IF k = 0 THEN h
                     ELSE IF at[k - 1] = Null THEN Null ELSE w[at[k - 1]]
               IN  {at[k] : k \in 0 .. N_MMAP} \ {Null}

LEMMA ReachIsList ==
  ASSUME NEW s \in Seq(Node), Once(s), NEW h, NEW w, Linked(h, w, s)
  PROVE  Reach(h, w) = Elems(s)
<1> DEFINE n == Len(s)
           f == [k \in 0 .. N_MMAP |-> IF k < n THEN s[k + 1] ELSE Null]
           at == CHOOSE g : g = [k \in 0 .. N_MMAP |->
                                   IF k = 0 THEN h
                                   ELSE IF g[k - 1] = Null THEN Null ELSE w[g[k - 1]]]
<1>1. /\ n \in Nat /\ n <= N_MMAP /\ DOMAIN s = 1 .. n /\ N_MMAP \in Nat /\ N_MMAP > 0
      /\ \A i \in 1 .. n : s[i] \in Node
      /\ \A i \in 1 .. n : w[s[i]] = IF i = n THEN Null ELSE s[i + 1]
      /\ h = IF n = 0 THEN Null ELSE s[1]
  BY ListBound, NAssumption DEF Linked
<1>2. Null \notin Node
  BY NAssumption DEF Null, Node
<1> HIDE DEF n
<1>3. f = [k \in 0 .. N_MMAP |-> IF k = 0 THEN h
                                 ELSE IF f[k - 1] = Null THEN Null ELSE w[f[k - 1]]]
  <2>1. ASSUME NEW k \in 0 .. N_MMAP
        PROVE  f[k] = IF k = 0 THEN h ELSE IF f[k - 1] = Null THEN Null ELSE w[f[k - 1]]
    <3>1. CASE k = 0
      BY <1>1, <3>1
    <3>2. CASE k # 0
      <4>1. k - 1 \in 0 .. N_MMAP /\ (k - 1) + 1 = k
        <5> HIDE DEF f
        <5> QED
          BY <1>1, <3>2
      <4>2. f[k - 1] = IF k - 1 < n THEN s[k] ELSE Null
        BY <4>1
      <4>3. CASE k - 1 < n
        <5>1. k \in 1 .. n
          BY <1>1, <3>2, <4>3
        <5>2. f[k - 1] = s[k] /\ s[k] # Null /\ w[s[k]] = IF k = n THEN Null ELSE s[k + 1]
          BY <1>1, <1>2, <4>2, <4>3, <5>1
        <5>3. f[k] = IF k < n THEN s[k + 1] ELSE Null
          OBVIOUS
        <5> QED
          BY <1>1, <3>2, <5>1, <5>2, <5>3
      <4>4. CASE ~ (k - 1 < n)
        <5>1. ~ (k < n)
          BY <1>1, <4>4
        <5> QED
          BY <3>2, <4>2, <4>4, <5>1
      <4> QED
        BY <4>3, <4>4
    <3> QED
      BY <3>1, <3>2
  <2> QED
    BY <2>1
<1>4. at = [k \in 0 .. N_MMAP |-> IF k = 0 THEN h
                                  ELSE IF at[k - 1] = Null THEN Null ELSE w[at[k - 1]]]
  <2> HIDE DEF f
  <2> QED
    BY <1>3
<1> HIDE DEF at, f
<1>5. \A k \in 0 .. N_MMAP : at[k] = f[k]
  <2> DEFINE T == {k \in Nat : k <= N_MMAP => at[k] = f[k]}
  <2>1. 0 \in T
    BY <1>1, <1>3, <1>4
  <2>2. ASSUME NEW k \in Nat, k \in T PROVE k + 1 \in T
    <3> SUFFICES ASSUME k + 1 <= N_MMAP PROVE at[k + 1] = f[k + 1]
      OBVIOUS
    <3>1. k + 1 \in 0 .. N_MMAP /\ (k + 1) - 1 = k /\ k + 1 # 0 /\ at[k] = f[k]
      BY <1>1, <2>2
    <3>2. at[k + 1] = IF at[k] = Null THEN Null ELSE w[at[k]]
      BY <1>4, <3>1
    <3>3. f[k + 1] = IF f[k] = Null THEN Null ELSE w[f[k]]
      BY <1>3, <3>1
    <3> QED
      BY <3>1, <3>2, <3>3
  <2> HIDE DEF T
  <2>3. Nat \subseteq T
    BY <2>1, <2>2, Induction
  <2> QED
    BY <1>1, <2>3 DEF T
<1>6. {f[k] : k \in 0 .. N_MMAP} \ {Null} = Elems(s)
  <2>1. ASSUME NEW k \in 0 .. N_MMAP, f[k] # Null PROVE f[k] \in Elems(s)
    <3>1. k < n /\ f[k] = s[k + 1]
      BY <2>1 DEF f
    <3>2. k + 1 \in DOMAIN s
      BY <1>1, <3>1
    <3> QED
      BY <3>1, <3>2 DEF Elems
  <2>2. ASSUME NEW i \in 1 .. n
        PROVE  s[i] # Null /\ \E k \in 0 .. N_MMAP : f[k] = s[i]
    <3>1. i - 1 \in 0 .. N_MMAP /\ i - 1 < n /\ (i - 1) + 1 = i
      BY <1>1
    <3>2. f[i - 1] = s[i]
      BY <3>1 DEF f
    <3> QED
      BY <1>1, <1>2, <3>1, <3>2
  <2>3. Elems(s) = {s[i] : i \in 1 .. n}
    BY <1>1 DEF Elems
  <2> QED
    BY <2>1, <2>2, <2>3
<1>7. Reach(h, w) = {at[k] : k \in 0 .. N_MMAP} \ {Null}
  BY DEF Reach, at
<1> QED
  BY <1>5, <1>6, <1>7

-----------------------------------------------------------------------------
(* Two harts are never between acquire and release at the same time. *)
LEMMA Alone ==
  ASSUME IInv, NEW c \in CPU, NEW d \in CPU, pc[c] \in InSection, pc[d] \in InSection
  PROVE  c = d
BY DEF IInv, Section

(* NULL is not a node. *)
LEMMA NullIsNoNode == Null \notin Node
BY NAssumption DEF Null, Node

(* A step that moves no node keeps every node in its place. *)
LEMMA KeepsPlaces ==
  ASSUME IInv, TypeOK', UNCHANGED <<head, nxt, owned, free>>,
         \A d \in CPU : (Carries(d)' <=> Carries(d)) /\ (Carries(d) => node'[d] = node[d])
  PROVE  Conservation' /\ FreeChain' /\ Listed' = Listed
<1>1. Listed' = Listed
  BY DEF Listed
<1>2. FreeChain'
  BY DEF IInv, FreeChain
<1> DEFINE N == {node[c] : c \in {d \in CPU : Carries(d)}}
<1>3. N' = N
  OBVIOUS
<1> HIDE DEF N
<1>4. Conservation'
  BY <1>1, <1>3 DEF IInv, Conservation, N
<1> QED
  BY <1>1, <1>2, <1>4

(* mmap_region_alloc is called. *)
LEMMA CallAllocInv ==
  ASSUME IInv, NEW c \in CPU, CallAlloc(c)
  PROVE  IInv' /\ Listed' = Listed
<1> USE DEF CallAlloc, Step
<1>0. IInv /\ TypeOK
  BY DEF IInv, Conservation
<1>1. TypeOK'
  BY <1>0 DEF TypeOK, PC, FreeChain, IInv, Calls
<1>2. Conservation' /\ FreeChain' /\ Listed' = Listed
  <2>1. \A d \in CPU : (Carries(d)' <=> Carries(d)) /\ (Carries(d) => node'[d] = node[d])
    BY <1>0 DEF TypeOK, Carries, PC, IInv, Conservation
  <2> QED
    BY <1>0, <1>1, <2>1, KeepsPlaces
<1>3. AllocExact'
  BY <1>0 DEF TypeOK, IInv, AllocExact
<1>4. Calls'
  BY <1>0 DEF TypeOK, IInv, Calls
<1>5. Section'
  BY <1>0, CPUAssumption DEF TypeOK, IInv, Section, InSection, PC
<1>6. Walks'
  BY <1>0 DEF TypeOK, IInv, Walks, Walked
<1> QED
  BY <1>1, <1>2, <1>3, <1>4, <1>5, <1>6 DEF IInv

(* The allocator takes the lock. *)
LEMMA AllocAcquireInv ==
  ASSUME IInv, NEW c \in CPU, AllocAcquire(c)
  PROVE  IInv' /\ Listed' = Listed
<1> USE DEF AllocAcquire, Step, Lock, LK!Acquire
<1>0. IInv /\ TypeOK
  BY DEF IInv, Conservation
<1>1. TypeOK'
  BY <1>0 DEF TypeOK, PC, FreeChain, IInv, Calls
<1>2. Conservation' /\ FreeChain' /\ Listed' = Listed
  <2>1. \A d \in CPU : (Carries(d)' <=> Carries(d)) /\ (Carries(d) => node'[d] = node[d])
    BY <1>0 DEF TypeOK, Carries, PC, IInv, Conservation
  <2> QED
    BY <1>0, <1>1, <2>1, KeepsPlaces
<1>3. AllocExact'
  BY <1>0 DEF TypeOK, IInv, AllocExact
<1>4. Calls'
  BY <1>0 DEF TypeOK, IInv, Calls
<1>5. Section'
  BY <1>0, CPUAssumption DEF TypeOK, IInv, Section, InSection, PC
<1>6. Walks'
  BY <1>0 DEF TypeOK, IInv, Walks, Walked
<1> QED
  BY <1>1, <1>2, <1>3, <1>4, <1>5, <1>6 DEF IInv

(* mmap_show_nodelist is called. *)
LEMMA CallShowInv ==
  ASSUME IInv, NEW c \in CPU, CallShow(c)
  PROVE  IInv' /\ Listed' = Listed
<1> USE DEF CallShow, Step
<1>0. IInv /\ TypeOK
  BY DEF IInv, Conservation
<1>1. TypeOK'
  BY <1>0 DEF TypeOK, PC, FreeChain, IInv, Calls
<1>2. Conservation' /\ FreeChain' /\ Listed' = Listed
  <2>1. \A d \in CPU : (Carries(d)' <=> Carries(d)) /\ (Carries(d) => node'[d] = node[d])
    BY <1>0 DEF TypeOK, Carries, PC, IInv, Conservation
  <2> QED
    BY <1>0, <1>1, <2>1, KeepsPlaces
<1>3. AllocExact'
  BY <1>0 DEF TypeOK, IInv, AllocExact
<1>4. Calls'
  BY <1>0 DEF TypeOK, IInv, Calls
<1>5. Section'
  BY <1>0, CPUAssumption DEF TypeOK, IInv, Section, InSection, PC
<1>6. Walks'
  BY <1>0 DEF TypeOK, IInv, Walks, Walked
<1> QED
  BY <1>1, <1>2, <1>3, <1>4, <1>5, <1>6 DEF IInv

(* mmap_region_free takes the lock. *)
LEMMA FreeAcquireInv ==
  ASSUME IInv, NEW c \in CPU, FreeAcquire(c)
  PROVE  IInv' /\ Listed' = Listed
<1> USE DEF FreeAcquire, Step, Lock, LK!Acquire
<1>0. IInv /\ TypeOK
  BY DEF IInv, Conservation
<1>1. TypeOK'
  BY <1>0 DEF TypeOK, PC, FreeChain, IInv, Calls
<1>2. Conservation' /\ FreeChain' /\ Listed' = Listed
  <2>1. \A d \in CPU : (Carries(d)' <=> Carries(d)) /\ (Carries(d) => node'[d] = node[d])
    BY <1>0 DEF TypeOK, Carries, PC, IInv, Conservation
  <2> QED
    BY <1>0, <1>1, <2>1, KeepsPlaces
<1>3. AllocExact'
  BY <1>0 DEF TypeOK, IInv, AllocExact
<1>4. Calls'
  BY <1>0 DEF TypeOK, IInv, Calls
<1>5. Section'
  BY <1>0, CPUAssumption DEF TypeOK, IInv, Section, InSection, PC
<1>6. Walks'
  BY <1>0 DEF TypeOK, IInv, Walks, Walked
<1> QED
  BY <1>1, <1>2, <1>3, <1>4, <1>5, <1>6 DEF IInv

(* mmap_region_free gives the lock back. *)
LEMMA FreeReleaseInv ==
  ASSUME IInv, NEW c \in CPU, FreeRelease(c)
  PROVE  IInv' /\ Listed' = Listed
<1> USE DEF FreeRelease, Step, Unlock, LK!Release
<1>0. IInv /\ TypeOK
  BY DEF IInv, Conservation
<1>1. TypeOK'
  BY <1>0 DEF TypeOK, PC, FreeChain, IInv, Calls
<1>2. Conservation' /\ FreeChain' /\ Listed' = Listed
  <2>1. \A d \in CPU : (Carries(d)' <=> Carries(d)) /\ (Carries(d) => node'[d] = node[d])
    BY <1>0 DEF TypeOK, Carries, PC, IInv, Conservation
  <2> QED
    BY <1>0, <1>1, <2>1, KeepsPlaces
<1>3. AllocExact'
  BY <1>0 DEF TypeOK, IInv, AllocExact
<1>4. Calls'
  BY <1>0 DEF TypeOK, IInv, Calls
<1>5. Section'
  BY <1>0, CPUAssumption DEF TypeOK, IInv, Section, InSection, PC
<1>6. Walks'
  BY <1>0 DEF TypeOK, IInv, Walks, Walked
<1> QED
  BY <1>1, <1>2, <1>3, <1>4, <1>5, <1>6 DEF IInv

(* The head is picked, or the store is found empty. *)
LEMMA AllocPickInv ==
  ASSUME IInv, NEW c \in CPU, AllocPick(c)
  PROVE  IInv' /\ Listed' = Listed
<1> USE DEF AllocPick, Step
<1>0. IInv /\ TypeOK
  BY DEF IInv, Conservation
<1>1. TypeOK'
  BY <1>0 DEF TypeOK, PC, FreeChain, IInv, Calls
<1>2. Conservation' /\ FreeChain' /\ Listed' = Listed
  <2>1. \A d \in CPU : (Carries(d)' <=> Carries(d)) /\ (Carries(d) => node'[d] = node[d])
    BY <1>0 DEF TypeOK, Carries, PC, IInv, Conservation
  <2> QED
    BY <1>0, <1>1, <2>1, KeepsPlaces
<1>3. AllocExact'
  <2>1. head = Null => free = <<>>
    <3>1. free # <<>> => Head(free) \in Node
      BY <1>0 DEF TypeOK
    <3> QED
      BY <1>0, <3>1, NullIsNoNode DEF IInv, FreeChain
  <2>2. \A d \in CPU \ {c} : pc'[d] = pc[d] /\ node'[d] = node[d]
    BY <1>0 DEF TypeOK
  <2>3. node'[c] = head /\ (pc'[c] = "a_release" => head = Null)
    BY <1>0 DEF TypeOK
  <2> QED
    BY <1>0, <2>1, <2>2, <2>3 DEF IInv, AllocExact
<1>4. Calls'
  BY <1>0 DEF TypeOK, IInv, Calls
<1>5. Section'
  BY <1>0, CPUAssumption DEF TypeOK, IInv, Section, InSection, PC
<1>6. Walks'
  BY <1>0 DEF TypeOK, IInv, Walks, Walked
<1> QED
  BY <1>1, <1>2, <1>3, <1>4, <1>5, <1>6 DEF IInv

(* A walk begins at the head. *)
LEMMA ShowAcquireInv ==
  ASSUME IInv, NEW c \in CPU, ShowAcquire(c)
  PROVE  IInv' /\ Listed' = Listed
<1> USE DEF ShowAcquire, Step, Lock, LK!Acquire
<1>0. IInv /\ TypeOK
  BY DEF IInv, Conservation
<1>1. TypeOK'
  BY <1>0 DEF TypeOK, PC, FreeChain, IInv, Calls
<1>2. Conservation' /\ FreeChain' /\ Listed' = Listed
  <2>1. \A d \in CPU : (Carries(d)' <=> Carries(d)) /\ (Carries(d) => node'[d] = node[d])
    BY <1>0 DEF TypeOK, Carries, PC, IInv, Conservation
  <2> QED
    BY <1>0, <1>1, <2>1, KeepsPlaces
<1>3. AllocExact'
  BY <1>0 DEF TypeOK, IInv, AllocExact
<1>4. Calls'
  BY <1>0 DEF TypeOK, IInv, Calls
<1>5. Section'
  BY <1>0, CPUAssumption DEF TypeOK, IInv, Section, InSection, PC
<1>6. Walks'
  <2>1. \A d \in CPU \ {c} : pc'[d] = pc[d] /\ node'[d] = node[d] /\ shown'[d] = shown[d]
    BY <1>0 DEF TypeOK
  <2>2. shown'[c] = <<>> /\ node'[c] = head
    BY <1>0 DEF TypeOK
  <2>3. free \in Seq(Node) /\ SubSeq(free, 1, 0) = <<>> /\ Len(<<>>) = 0
    BY <1>0 DEF TypeOK
  <2>4. head = IF 0 = Len(free) THEN Null ELSE free[0 + 1]
    BY <1>0, <2>3 DEF IInv, FreeChain
  <2>5. Walked(c)'
    <3>1. free' = free /\ Len(free) \in Nat /\ 0 <= Len(free) /\ Len(shown'[c]) = 0
      BY <2>2, <2>3
    <3> QED
      BY <2>2, <2>3, <2>4, <3>1, Zenon DEF Walked
  <2> QED
    BY <1>0, <2>1, <2>5 DEF IInv, Walks, Walked
<1> QED
  BY <1>1, <1>2, <1>3, <1>4, <1>5, <1>6 DEF IInv

(* A walk prints a node and goes on to the next. *)
LEMMA ShowNodeInv ==
  ASSUME IInv, NEW c \in CPU, ShowNode(c)
  PROVE  IInv' /\ Listed' = Listed
<1> USE DEF ShowNode, Step
<1>0. IInv /\ TypeOK
  BY DEF IInv, Conservation
<1>1. TypeOK'
  BY <1>0 DEF TypeOK, PC, FreeChain, IInv, Calls
<1>2. Conservation' /\ FreeChain' /\ Listed' = Listed
  <2>1. \A d \in CPU : (Carries(d)' <=> Carries(d)) /\ (Carries(d) => node'[d] = node[d])
    BY <1>0 DEF TypeOK, Carries, PC, IInv, Conservation
  <2> QED
    BY <1>0, <1>1, <2>1, KeepsPlaces
<1>3. AllocExact'
  BY <1>0 DEF TypeOK, IInv, AllocExact
<1>4. Calls'
  BY <1>0 DEF TypeOK, IInv, Calls
<1>5. Section'
  BY <1>0, CPUAssumption DEF TypeOK, IInv, Section, InSection, PC
<1>6. Walks'
  <2> DEFINE k == Len(shown[c])
  <2>1. \A d \in CPU \ {c} : pc'[d] = pc[d] /\ node'[d] = node[d] /\ shown'[d] = shown[d]
    BY <1>0 DEF TypeOK
  <2>2. /\ k \in Nat /\ k < Len(free) /\ shown[c] = SubSeq(free, 1, k) /\ node[c] = free[k + 1]
        /\ free \in Seq(Node) /\ Len(free) \in Nat
    BY <1>0 DEF TypeOK, IInv, Walks, Walked
  <2>3. shown'[c] = Append(shown[c], node[c]) /\ node'[c] = nxt[node[c]]
    BY <1>0 DEF TypeOK
  <2>4. Len(shown'[c]) = k + 1
    BY <1>0, <2>3 DEF TypeOK
  <2> HIDE DEF k
  <2>5. shown'[c] = SubSeq(free, 1, k + 1)
    <3>1. k + 1 \in 1 .. Len(free) /\ (k + 1) - 1 = k
      BY <2>2
    <3>2. SubSeq(free, 1, k + 1) = Append(SubSeq(free, 1, k), free[k + 1])
      BY <2>2, <3>1
    <3> QED
      BY <2>2, <2>3, <3>2
  <2>6. node'[c] = IF k + 1 = Len(free) THEN Null ELSE free[(k + 1) + 1]
    <3>1. k + 1 \in DOMAIN free
      BY <2>2
    <3> QED
      BY <1>0, <2>2, <2>3, <3>1 DEF IInv, FreeChain
  <2>7. Walked(c)'
    <3>1. free' = free /\ k + 1 <= Len(free)
      BY <2>2
    <3> QED
      BY <2>4, <2>5, <2>6, <3>1, Zenon DEF Walked
  <2> QED
    BY <1>0, <2>1, <2>7 DEF IInv, Walks, Walked
<1> QED
  BY <1>1, <1>2, <1>3, <1>4, <1>5, <1>6 DEF IInv

(* A walk ends. *)
LEMMA ShowReleaseInv ==
  ASSUME IInv, NEW c \in CPU, ShowRelease(c)
  PROVE  IInv' /\ Listed' = Listed
<1> USE DEF ShowRelease, Step, Unlock, LK!Release
<1>0. IInv /\ TypeOK
  BY DEF IInv, Conservation
<1>1. TypeOK'
  BY <1>0 DEF TypeOK, PC, FreeChain, IInv, Calls
<1>2. Conservation' /\ FreeChain' /\ Listed' = Listed
  <2>1. \A d \in CPU : (Carries(d)' <=> Carries(d)) /\ (Carries(d) => node'[d] = node[d])
    BY <1>0 DEF TypeOK, Carries, PC, IInv, Conservation
  <2> QED
    BY <1>0, <1>1, <2>1, KeepsPlaces
<1>3. AllocExact'
  BY <1>0 DEF TypeOK, IInv, AllocExact
<1>4. Calls'
  BY <1>0 DEF TypeOK, IInv, Calls
<1>5. Section'
  BY <1>0, CPUAssumption DEF TypeOK, IInv, Section, InSection, PC
<1>6. Walks'
  BY <1>0 DEF TypeOK, IInv, Walks, Walked
<1> QED
  BY <1>1, <1>2, <1>3, <1>4, <1>5, <1>6 DEF IInv

(* Conservation, with the last conjunct said of each node. *)
Places ==
  /\ Once(free) /\ Listed \cap owned = {}
  /\ \A c \in CPU : Carries(c) => node[c] \in Node \ (owned \cup Listed)
  /\ \A c, d \in CPU : Carries(c) /\ Carries(d) /\ node[c] = node[d] => c = d
  /\ \A n \in Node : \/ n \in owned \/ n \in Listed
                     \/ \E c \in CPU : Carries(c) /\ node[c] = n

LEMMA PlacesBefore == ASSUME IInv PROVE Places
BY DEF IInv, Conservation, Places, Once

LEMMA PlacesAfter == ASSUME TypeOK', Places' PROVE Conservation'
<1>1. owned' \subseteq Node /\ Listed' \subseteq Node
  BY DEF TypeOK, Listed
<1>2. (Node = owned \cup Listed \cup {node[c] : c \in {d \in CPU : Carries(d)}})'
  BY <1>1 DEF Places
<1> QED
  BY <1>2 DEF Conservation, Places, Once

(* The allocator clears the node. *)
LEMMA AllocClearInv ==
  ASSUME IInv, NEW c \in CPU, AllocClear(c)
  PROVE  IInv' /\ Listed' = Listed
<1> USE DEF AllocClear, Step
<1>0. IInv /\ TypeOK
  BY DEF IInv, Conservation
<1>1. TypeOK'
  <2>1. node[c] \in Node
    BY <1>0 DEF IInv, Conservation, Carries
  <2> QED
    BY <1>0, <2>1 DEF TypeOK, PC
<1>2. Conservation' /\ FreeChain' /\ Listed' = Listed
  <2>1. \A d \in CPU : (Carries(d)' <=> Carries(d)) /\ (Carries(d) => node'[d] = node[d])
    <3>1. node[c] # Null
      BY <1>0, NullIsNoNode DEF IInv, Conservation, Carries
    <3> QED
      BY <1>0, <3>1 DEF TypeOK, Carries, PC
  <2> QED
    BY <1>0, <1>1, <2>1, KeepsPlaces
<1>3. AllocExact'
  <2>1. node[c] # Null
    BY <1>0, NullIsNoNode DEF IInv, Conservation, Carries
  <2> QED
    BY <1>0, <2>1 DEF TypeOK, IInv, AllocExact
<1>4. Calls'
  BY <1>0 DEF TypeOK, IInv, Calls
<1>5. Section'
  BY <1>0, CPUAssumption DEF TypeOK, IInv, Section, InSection, PC
<1>6. Walks'
  BY <1>0 DEF TypeOK, IInv, Walks, Walked
<1> QED
  BY <1>1, <1>2, <1>3, <1>4, <1>5, <1>6 DEF IInv

(* The allocator gives the lock back, and the node is the caller's. *)
LEMMA AllocReleaseInv ==
  ASSUME IInv, NEW c \in CPU, AllocRelease(c)
  PROVE  IInv' /\ Listed' = Listed
<1> USE DEF AllocRelease, Step, Unlock, LK!Release
<1>0. IInv /\ TypeOK
  BY DEF IInv, Conservation
<1>1. TypeOK'
  BY <1>0 DEF TypeOK, PC, FreeChain, IInv, Calls
<1>2. Conservation' /\ FreeChain' /\ Listed' = Listed
  <2>1. Listed' = Listed
    BY DEF Listed
  <2>2. FreeChain'
    BY <1>0 DEF IInv, FreeChain
  <2>3. /\ \A d \in CPU \ {c} : Carries(d)' <=> Carries(d)
        /\ ~ Carries(c)' /\ (Carries(c) <=> node[c] # Null)
    BY <1>0 DEF TypeOK, Carries, PC
  <2>4. Places
    BY <1>0, PlacesBefore
  <2>5. Places'
    BY <2>1, <2>3, <2>4 DEF Places
  <2> QED
    BY <1>1, <2>1, <2>2, <2>5, PlacesAfter
<1>3. AllocExact'
  BY <1>0 DEF TypeOK, IInv, AllocExact
<1>4. Calls'
  BY <1>0 DEF TypeOK, IInv, Calls
<1>5. Section'
  BY <1>0, CPUAssumption DEF TypeOK, IInv, Section, InSection, PC
<1>6. Walks'
  BY <1>0 DEF TypeOK, IInv, Walks, Walked
<1> QED
  BY <1>1, <1>2, <1>3, <1>4, <1>5, <1>6 DEF IInv

(* An owner gives a node to mmap_region_free. *)
LEMMA CallFreeInv ==
  ASSUME IInv, NEW c \in CPU, NEW n \in Node, CallFree(c, n)
  PROVE  IInv' /\ Listed' = Listed
<1> USE DEF CallFree, Step
<1>0. IInv /\ TypeOK
  BY DEF IInv, Conservation
<1>1. TypeOK'
  BY <1>0 DEF TypeOK, PC, FreeChain, IInv, Calls
<1>2. Conservation' /\ FreeChain' /\ Listed' = Listed
  <2>1. Listed' = Listed
    BY DEF Listed
  <2>2. FreeChain'
    BY <1>0 DEF IInv, FreeChain
  <2>3. /\ \A d \in CPU \ {c} : (Carries(d)' <=> Carries(d)) /\ node'[d] = node[d]
        /\ Carries(c)' /\ ~ Carries(c) /\ node'[c] = n
    BY <1>0 DEF TypeOK, Carries, PC
  <2>4. Places
    BY <1>0, PlacesBefore
  <2>5. Places'
    BY <2>1, <2>3, <2>4 DEF Places
  <2> QED
    BY <1>1, <2>1, <2>2, <2>5, PlacesAfter
<1>3. AllocExact'
  BY <1>0 DEF TypeOK, IInv, AllocExact
<1>4. Calls'
  BY <1>0 DEF TypeOK, IInv, Calls
<1>5. Section'
  BY <1>0, CPUAssumption DEF TypeOK, IInv, Section, InSection, PC
<1>6. Walks'
  BY <1>0 DEF TypeOK, IInv, Walks, Walked
<1> QED
  BY <1>1, <1>2, <1>3, <1>4, <1>5, <1>6 DEF IInv

(* The node is linked to the head. *)
LEMMA FreeLinkInv ==
  ASSUME IInv, NEW c \in CPU, FreeLink(c)
  PROVE  IInv' /\ Listed' = Listed
<1> USE DEF FreeLink, Step
<1>0. IInv /\ TypeOK
  BY DEF IInv, Conservation
<1>1. TypeOK'
  BY <1>0 DEF TypeOK, PC, FreeChain, IInv, Calls
<1>a. node[c] \in Node /\ node[c] \notin Listed
  BY <1>0 DEF IInv, Conservation, Carries
<1>2. Conservation' /\ FreeChain' /\ Listed' = Listed
  <2>1. Listed' = Listed
    BY DEF Listed
  <2>2. FreeChain'
    <3>1. \A i \in DOMAIN free : free[i] # node[c] /\ free[i] \in Node
      BY <1>0, <1>a DEF Listed, TypeOK
    <3>2. \A i \in DOMAIN free : nxt'[free[i]] = nxt[free[i]]
      BY <1>0, <3>1 DEF TypeOK
    <3> QED
      BY <1>0, <3>2 DEF IInv, FreeChain
  <2>3. \A d \in CPU : Carries(d)' <=> Carries(d)
    BY <1>0 DEF TypeOK, Carries, PC
  <2>4. Places
    BY <1>0, PlacesBefore
  <2>5. Places'
    BY <2>1, <2>3, <2>4 DEF Places
  <2> QED
    BY <1>1, <2>1, <2>2, <2>5, PlacesAfter
<1>3. AllocExact'
  BY <1>0 DEF TypeOK, IInv, AllocExact
<1>4. Calls'
  <2>1. \A d \in CPU \ {c} : pc[d] \notin InSection
    BY <1>0, Alone DEF InSection
  <2> QED
    BY <1>0, <1>a, <2>1 DEF TypeOK, IInv, Calls, InSection
<1>5. Section'
  BY <1>0, CPUAssumption DEF TypeOK, IInv, Section, InSection, PC
<1>6. Walks'
  BY <1>0 DEF TypeOK, IInv, Walks, Walked
<1> QED
  BY <1>1, <1>2, <1>3, <1>4, <1>5, <1>6 DEF IInv

(* The owner of a node writes its fields. *)
LEMMA UseNodeInv ==
  ASSUME IInv, NEW n \in Node, UseNode(n)
  PROVE  IInv' /\ Listed' = Listed
<1> USE DEF UseNode, Step
<1>0. IInv /\ TypeOK
  BY DEF IInv, Conservation
<1>1. TypeOK'
  BY <1>0 DEF TypeOK, PC, FreeChain, IInv, Calls
<1>2. Conservation' /\ FreeChain' /\ Listed' = Listed
  <2>1. \A d \in CPU : (Carries(d)' <=> Carries(d)) /\ (Carries(d) => node'[d] = node[d])
    BY <1>0 DEF Carries
  <2> QED
    BY <1>0, <1>1, <2>1, KeepsPlaces
<1>3. AllocExact'
  <2>1. \A d \in CPU : pc[d] = "a_release" /\ node[d] # Null => node[d] # n
    BY <1>0 DEF IInv, Conservation, Carries
  <2> QED
    BY <1>0, <2>1 DEF TypeOK, IInv, AllocExact
<1>4. Calls'
  BY <1>0 DEF TypeOK, IInv, Calls
<1>5. Section'
  BY <1>0, CPUAssumption DEF TypeOK, IInv, Section, InSection, PC
<1>6. Walks'
  BY <1>0 DEF TypeOK, IInv, Walks, Walked
<1> QED
  BY <1>1, <1>2, <1>3, <1>4, <1>5, <1>6 DEF IInv

(* FreeChain says of the store what Linked says of a list. *)
LEMMA ChainIsLinked == FreeChain <=> Linked(head, nxt, free)
BY DEF FreeChain, Linked

LEMMA LinkedIsChain == ASSUME Linked(head', nxt', free') PROVE FreeChain'
BY DEF FreeChain, Linked

(* What the nodes of the store are, before and after a step. *)
LEMMA ListedIsElems == Listed = Elems(free) /\ Listed' = Elems(free')
BY DEF Listed, Elems

(* The allocator unlinks the head. *)
LEMMA AllocUnlinkInv ==
  ASSUME IInv, NEW c \in CPU, AllocUnlink(c)
  PROVE  IInv' /\ \E n \in Listed : Listed' = Listed \ {n}
<1> USE DEF AllocUnlink, Step
<1>0. IInv /\ TypeOK
  BY DEF IInv, Conservation
<1>a. \A d \in CPU \ {c} : pc[d] \notin InSection /\ pc'[d] = pc[d] /\ node'[d] = node[d]
  BY <1>0, Alone DEF InSection, TypeOK
<1>b. node[c] = head /\ head # Null /\ free # <<>> /\ free \in Seq(Node) /\ Once(free)
  BY <1>0 DEF IInv, Calls, FreeChain, TypeOK, Conservation, Once
<1>c. /\ free' \in Seq(Node) /\ Once(free') /\ Linked(head', nxt', free')
      /\ head \in Elems(free) /\ Elems(free') = Elems(free) \ {head}
  BY <1>0, <1>b, ChainIsLinked, Pop DEF IInv
<1>d. head \in Node /\ head \in Listed /\ Listed' = Listed \ {head}
  <2>1. \A i \in DOMAIN free : free[i] \in Node
    BY <1>b
  <2>2. head \in Node
    BY <1>c, <2>1 DEF Elems
  <2> QED
    BY <1>c, <2>2, ListedIsElems
<1>e. free' = Tail(free) /\ head' = nxt[node[c]]
  OBVIOUS
<1>1. TypeOK'
  <2>1. nxt[node[c]] \in Node \cup {Null}
    BY <1>0, <1>b, <1>d DEF TypeOK
  <2> QED
    BY <1>0, <1>c, <2>1 DEF TypeOK, PC
<1>2. Conservation'
  <2>1. \A d \in CPU \ {c} : Carries(d)' <=> Carries(d)
    BY <1>0, <1>a DEF TypeOK, Carries
  <2>2. Carries(c)' /\ ~ Carries(c)
    BY <1>0 DEF TypeOK, Carries
  <2>3. Places
    BY <1>0, PlacesBefore
  <2>4. Places'
    BY <1>b, <1>c, <1>d, <2>1, <2>2, <2>3 DEF Places
  <2> QED
    BY <1>1, <2>4, PlacesAfter
<1>3. FreeChain'
  BY <1>c, LinkedIsChain
<1>4. AllocExact' /\ Calls' /\ Walks'
  BY <1>0, <1>a DEF TypeOK, AllocExact, Calls, Walks, InSection
<1>5. Section'
  BY <1>0, CPUAssumption DEF TypeOK, IInv, Section, InSection, PC
<1> QED
  BY <1>d, <1>1, <1>2, <1>3, <1>4, <1>5 DEF IInv

(* mmap_region_free makes the node the head. *)
LEMMA FreePushInv ==
  ASSUME IInv, NEW c \in CPU, FreePush(c)
  PROVE  IInv' /\ \E n \in Node \ Listed : Listed' = Listed \cup {n}
<1> USE DEF FreePush, Step
<1>0. IInv /\ TypeOK
  BY DEF IInv, Conservation
<1>a. \A d \in CPU \ {c} : pc[d] \notin InSection /\ pc'[d] = pc[d] /\ node'[d] = node[d]
  BY <1>0, Alone DEF InSection, TypeOK
<1>b. /\ node[c] \in Node /\ node[c] \notin Elems(free) /\ nxt[node[c]] = head
      /\ free \in Seq(Node) /\ Once(free)
  BY <1>0, ListedIsElems DEF IInv, Calls, TypeOK, Conservation, Once, Carries
<1>c. /\ free' \in Seq(Node) /\ Once(free') /\ Linked(head', nxt', free')
      /\ Elems(free') = Elems(free) \cup {node[c]}
  BY <1>0, <1>b, ChainIsLinked, Push DEF IInv
<1>d. node[c] \notin Listed /\ Listed' = Listed \cup {node[c]}
  BY <1>b, <1>c, ListedIsElems
<1>1. TypeOK'
  BY <1>0, <1>b, <1>c DEF TypeOK, PC
<1>2. Conservation'
  <2>1. \A d \in CPU \ {c} : Carries(d)' <=> Carries(d)
    BY <1>0, <1>a DEF TypeOK, Carries
  <2>2. Carries(c) /\ ~ Carries(c)'
    BY <1>0 DEF TypeOK, Carries
  <2>3. Places
    BY <1>0, PlacesBefore
  <2>4. node' = node /\ owned' = owned /\ Once(free') /\ node[c] \in Node
    BY <1>b, <1>c
  <2>5. (Listed \cap owned = {})' /\ node[c] \notin owned
    BY <1>d, <2>2, <2>3, <2>4 DEF Places
  <2>6. \A d \in CPU : Carries(d)' => Carries(d) /\ d # c
    BY <2>1, <2>2
  <2>7. \A d \in CPU : Carries(d)' => node'[d] \in Node \ (owned' \cup Listed')
    BY <1>d, <2>2, <2>3, <2>4, <2>6 DEF Places
  <2>8. \A n \in Node : \/ n \in owned' \/ n \in Listed'
                         \/ \E d \in CPU : Carries(d)' /\ node'[d] = n
    <3>1. ASSUME NEW n \in Node, NEW d \in CPU, Carries(d), node[d] = n
          PROVE  n \in Listed' \/ (Carries(d)' /\ node'[d] = n)
      BY <1>d, <2>1, <2>4, <3>1
    <3> QED
      BY <1>d, <2>3, <2>4, <3>1 DEF Places
  <2>9. Places'
    BY <2>3, <2>4, <2>5, <2>6, <2>7, <2>8 DEF Places
  <2> QED
    BY <1>1, <2>9, PlacesAfter
<1>3. FreeChain'
  BY <1>c, LinkedIsChain
<1>4. AllocExact' /\ Calls' /\ Walks'
  BY <1>0, <1>a DEF TypeOK, AllocExact, Calls, Walks, InSection
<1>5. Section'
  BY <1>0, CPUAssumption DEF TypeOK, IInv, Section, InSection, PC
<1> QED
  BY <1>b, <1>d, <1>1, <1>2, <1>3, <1>4, <1>5 DEF IInv

-----------------------------------------------------------------------------
(* A function on 1 .. n is a sequence of length n. *)
LEMMA FunctionIsSeq ==
  ASSUME NEW S, NEW n \in Nat, NEW f \in [1 .. n -> S]
  PROVE  f \in Seq(S) /\ Len(f) = n
OBVIOUS

(* mmap_init builds one chain through all the nodes. *)
LEMMA InitInv == Init => IInv /\ Listed = Node
<1> SUFFICES ASSUME Init PROVE IInv /\ Listed = Node
  OBVIOUS
<1> USE DEF Init
<1>1. /\ N_MMAP \in Nat /\ free \in [1 .. N_MMAP -> Node] /\ DOMAIN free = 1 .. N_MMAP
      /\ \A i \in 1 .. N_MMAP : free[i] = N_MMAP - i
  BY NAssumption DEF Node
<1>2. free \in Seq(Node) /\ Len(free) = N_MMAP /\ free # <<>> /\ Head(free) = N_MMAP - 1
  <2>2. free \in Seq(Node) /\ Len(free) = N_MMAP
    BY <1>1, FunctionIsSeq
  <2> QED
    BY <1>1, <2>2, NAssumption, SMTT(30)
<1>3. TypeOK
  BY <1>2, NAssumption DEF TypeOK, LK!Init, PC, Node, Null
<1>4. Listed = Node
  <2>1. \A n \in Node : N_MMAP - n \in DOMAIN free /\ free[N_MMAP - n] = n
    BY <1>1 DEF Node
  <2> QED
    BY <1>1, <2>1 DEF Listed
<1>5. Conservation
  <2>1. \A c \in CPU : ~ Carries(c)
    BY DEF Carries
  <2> QED
    BY <1>1, <1>3, <1>4, <2>1 DEF Conservation
<1>6. FreeChain
  <2>1. ASSUME NEW i \in 1 .. N_MMAP
        PROVE  nxt[free[i]] = IF i = N_MMAP THEN Null ELSE free[i + 1]
    <3>1. N_MMAP - i \in Node /\ free[i] = N_MMAP - i
      BY <1>1
    <3>2. nxt[free[i]] = IF N_MMAP - i = 0 THEN Null ELSE N_MMAP - i - 1
      BY <3>1
    <3>3. i # N_MMAP => free[i + 1] = N_MMAP - i - 1
      BY <1>1
    <3> QED
      BY <1>1, <3>2, <3>3
  <2> QED
    BY <1>1, <1>2, <2>1 DEF FreeChain
<1>7. AllocExact /\ Calls /\ Section /\ Walks
  BY CPUAssumption DEF AllocExact, Calls, Section, InSection, LK!Init, Walks
<1> QED
  BY <1>4, <1>5, <1>6, <1>7 DEF IInv

(* Every step keeps the inductive invariant and adds or removes at most one node. *)
LEMMA NextInv ==
  ASSUME IInv, [Next]_vars
  PROVE  /\ IInv'
         /\ \/ Listed' = Listed
            \/ \E n \in Listed : Listed' = Listed \ {n}
            \/ \E n \in Node \ Listed : Listed' = Listed \cup {n}
<1> DEFINE Moves == \/ Listed' = Listed
                    \/ \E n \in Listed : Listed' = Listed \ {n}
                    \/ \E n \in Node \ Listed : Listed' = Listed \cup {n}
<1>1. CASE UNCHANGED vars
  BY <1>1 DEF vars, IInv, Conservation, TypeOK, FreeChain, AllocExact, Calls, Section,
              Walks, Walked, Listed, Carries
<1>2. ASSUME NEW c \in CPU, Inside(c) \/ CallAlloc(c) \/ CallShow(c) PROVE IInv' /\ Moves
  BY <1>2, AllocAcquireInv, AllocPickInv, AllocUnlinkInv, AllocClearInv, AllocReleaseInv,
     FreeAcquireInv, FreeLinkInv, FreePushInv, FreeReleaseInv, ShowAcquireInv,
     ShowNodeInv, ShowReleaseInv, CallAllocInv, CallShowInv DEF Inside, Show
<1>3. ASSUME NEW c \in CPU, NEW n \in Node, CallFree(c, n) PROVE IInv' /\ Moves
  BY <1>3, CallFreeInv
<1>4. ASSUME NEW n \in Node, UseNode(n) PROVE IInv' /\ Moves
  BY <1>4, UseNodeInv
<1> QED
  BY <1>1, <1>2, <1>3, <1>4 DEF Next

(* The store's invariant holds for every number of harts and nodes. *)
THEOREM Invariance == Spec => []IInv
<1>1. IInv /\ [Next]_vars => IInv'
  BY NextInv
<1> QED
  BY <1>1, InitInv, PTL DEF Spec

(* mmap_region_alloc and mmap_region_free hand out no node twice and lose none. *)
THEOREM ConservationCorrect == Spec => []Conservation
  BY Invariance, PTL DEF IInv

(* NULL is answered only by an empty store, and a node only after it is cleared. *)
THEOREM AllocCorrect == Spec => []AllocExact
  BY Invariance, PTL DEF IInv

(* The links in the free nodes are the free list, and mmap_show_nodelist prints
   it, whatever other harts do. *)
THEOREM ShownCorrect == Spec => []ShownExact
<1>1. IInv => ShownExact
  BY DEF IInv, ShownExact, Walks, Walked
<1> QED
  BY <1>1, Invariance, PTL

(* What the links in memory reach is a pool of nodes: storing the new head adds
   or removes one node, and nothing else changes it. *)
THEOREM PoolRefinement == Spec => ImplementsPool
<1> DEFINE P == [s \in Store |-> Reached]
<1>1. ASSUME IInv PROVE Reached = Listed
  <2>1. free \in Seq(Node) /\ Once(free) /\ Linked(head, nxt, free)
    BY <1>1, ChainIsLinked DEF IInv, Conservation, TypeOK, Once
  <2> QED
    BY <2>1, ReachIsList, ListedIsElems DEF Reach, Reached
<1>2. ASSUME IInv' PROVE Reached' = Listed'
  <2>1. free' \in Seq(Node) /\ Once(free') /\ Linked(head', nxt', free')
    BY <1>2 DEF IInv, Conservation, TypeOK, Once, FreeChain, Linked
  <2> QED
    BY <2>1, ReachIsList, ListedIsElems DEF Reach, Reached
<1>3. Init => MP!Init
  BY <1>1, InitInv DEF MP!Init, NodesOf
<1>4. ASSUME IInv, [Next]_vars PROVE [MP!Next]_P
  <2>0. Reached = Listed /\ Reached' = Listed'
    BY <1>1, <1>2, <1>4, NextInv
  <2>1. CASE Listed' = Listed
    BY <2>0, <2>1
  <2>2. ASSUME NEW n \in Listed, Listed' = Listed \ {n} PROVE MP!Alloc("nodes")
    BY <2>0, <2>2 DEF MP!Alloc, Store
  <2>3. ASSUME NEW n \in Node \ Listed, Listed' = Listed \cup {n} PROVE MP!Free("nodes")
    BY <2>0, <2>3 DEF MP!Free, Store, NodesOf
  <2> QED
    BY <1>4, <2>1, <2>2, <2>3, NextInv DEF MP!Next, Store
<1> QED
  BY <1>3, <1>4, Invariance, PTL DEF Spec, ImplementsPool, MP!Spec
=============================================================================
