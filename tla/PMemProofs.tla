----------------------------- MODULE PMemProofs -----------------------------
(* The allocator keeps every page in one place, its list in memory and its
   counter exact, and implements PagePool, for every number of harts and pages. *)
EXTENDS PMem, FiniteSetTheorems, WellFoundedInduction, TLAPS

(* What a call knows about its page. *)
Calls ==
  \A c \in CPU :
    /\ pc[c] = "a_empty" => head[reg[c]] = Null
    /\ pc[c] = "a_unlink" => page[c] = head[reg[c]] /\ page[c] # Null
    /\ pc[c] \in {"f_acquire", "f_link", "f_push"} => page[c] \in PagesOf(reg[c])
    /\ pc[c] = "f_push" => word[page[c]] = head[reg[c]]

(* The holder of a region's lock is the hart between acquire and release. *)
Section ==
  \A c \in CPU, r \in Region : holder[r] = c <=> pc[c] \in InSection /\ reg[c] = r

(* The counter lags behind the list by the store the holder still owes. *)
Counts ==
  \A r \in Region :
    /\ \A c \in CPU :
         /\ reg[c] = r /\ pc[c] = "a_count" => allocable[r] = Len(free[r]) + 1
         /\ reg[c] = r /\ pc[c] = "f_count" => allocable[r] + 1 = Len(free[r])
    /\ (\A c \in CPU : ~(reg[c] = r /\ pc[c] \in {"a_count", "f_count"}))
         => allocable[r] = Len(free[r])

IInv == /\ TypeOK /\ Conservation /\ FreeChain
        /\ Calls /\ Section /\ Counts

-----------------------------------------------------------------------------
(* The regions partition the managed pages, and NULL is not one of them. *)
LEMMA Ranges ==
  /\ \A r \in Region : PagesOf(r) \subseteq Page
  /\ \A p \in Page : \E r \in Region : p \in PagesOf(r)
  /\ \A q, r \in Region, p \in Page : p \in PagesOf(q) /\ p \in PagesOf(r) => q = r
  /\ Null \notin Page
  BY RangeAssumption DEF Region, PagesOf, Begin, End, Page, Null

(* Tail drops the first element and moves the others up. *)
LEMMA TailFacts ==
  ASSUME NEW S, NEW s \in Seq(S), Len(s) # 0
  PROVE  /\ Tail(s) \in Seq(S)
         /\ Len(Tail(s)) = Len(s) - 1
         /\ \A i \in 1 .. Len(s) - 1 : Tail(s)[i] = s[i + 1]
  OBVIOUS

(* Pushing e puts it first and moves the others down. *)
LEMMA PushFacts ==
  ASSUME NEW S, NEW s \in Seq(S), NEW e \in S
  PROVE  /\ <<e>> \o s \in Seq(S)
         /\ Len(<<e>> \o s) = Len(s) + 1
         /\ (<<e>> \o s)[1] = e
         /\ \A i \in 1 .. Len(s) : (<<e>> \o s)[i + 1] = s[i]
  OBVIOUS

(* A function on 1 .. n is a sequence of length n. *)
LEMMA FunctionIsSeq ==
  ASSUME NEW S, NEW n \in Nat, NEW f \in [1 .. n -> S]
  PROVE  f \in Seq(S) /\ Len(f) = n
  OBVIOUS

(* Where a page can be, seen from hart c. *)
Near(c, p) == \/ p \in owned
              \/ \E r \in Region : p \in Listed(r)
              \/ Carries(c) /\ page[c] = p

(* A step of hart c loses no page if it loses none of those near it. *)
LEMMA StepLosesNone ==
  ASSUME NoneLost, NEW c \in CPU,
         \A d \in CPU \ {c} : (Carries(d) => Carries(d)') /\ page'[d] = page[d],
         \A p \in Page : Near(c, p) => Near(c, p)'
  PROVE  NoneLost'
<1> SUFFICES ASSUME NEW p \in Page
             PROVE  \/ p \in owned'
                    \/ \E r \in Region : p \in Listed(r)'
                    \/ \E d \in CPU : Carries(d)' /\ page'[d] = p
  BY DEF NoneLost, Carries, Listed
<1>1. CASE Near(c, p)
  BY <1>1 DEF Near
<1>2. CASE ~Near(c, p)
  <2>1. PICK d \in CPU : Carries(d) /\ page[d] = p
    BY <1>2 DEF NoneLost, Near
  <2> QED
    BY <1>2, <2>1 DEF Near
<1> QED
  BY <1>1, <1>2

(* A word changed outside the lists changes no list. *)
LEMMA ChainKept ==
  ASSUME TypeOK, FreeChain, UNCHANGED <<head, free>>, NEW p \in Page, NEW v,
         word' = [word EXCEPT ![p] = v],
         \A r \in Region : p \notin Listed(r)
  PROVE  FreeChain'
<1>1. \A r \in Region : \A i \in 1 .. Len(free[r]) : free[r][i] \in Page /\ free[r][i] # p
  BY DEF TypeOK, Listed
<1>2. \A r \in Region : \A i \in 1 .. Len(free[r]) : word'[free[r][i]] = word[free[r][i]]
  BY <1>1 DEF TypeOK
<1> QED
  BY <1>2, SMTT(30) DEF FreeChain

-----------------------------------------------------------------------------
(* The lists of a step: as they were, or shorter or longer by one page. *)
SameLists == \A r \in Region : Listed(r)' = Listed(r)
Takes(r, p) == /\ p \in Listed(r)
               /\ Listed(r)' = Listed(r) \ {p}
               /\ \A q \in Region \ {r} : Listed(q)' = Listed(q)
Puts(r, p) == /\ p \in PagesOf(r) \ Listed(r)
              /\ Listed(r)' = Listed(r) \cup {p}
              /\ \A q \in Region \ {r} : Listed(q)' = Listed(q)

(* A call of pmem_alloc. *)
LEMMA CallAllocInv ==
  ASSUME IInv, NEW c \in CPU, NEW r \in Region, CallAlloc(c, r)
  PROVE  IInv' /\ SameLists
<1> USE DEF CallAlloc, Step, local
<1>0. /\ TypeOK /\ ListedOnce /\ CarriedOnce /\ NoneLost
      /\ FreeChain /\ Calls /\ Section /\ Counts
  BY DEF IInv, Conservation
<1>a. \A q \in Region : Listed(q)' = Listed(q)
  BY DEF Listed
<1>1. TypeOK'
  BY <1>0 DEF TypeOK, PC
<1>2. ListedOnce'
  BY <1>0, <1>a DEF TypeOK, ListedOnce
<1>3. CarriedOnce'
  BY <1>0, <1>a DEF TypeOK, CarriedOnce, Carries
<1>4. NoneLost'
  <2>1. \A d \in CPU \ {c} : Carries(d)' = Carries(d) /\ page'[d] = page[d]
    BY <1>0 DEF TypeOK, Carries
  <2>2. Carries(c) => Carries(c)' /\ page'[c] = page[c]
    BY <1>0 DEF TypeOK, Carries
  <2>3. \A p \in Page : Near(c, p) => Near(c, p)'
    BY <1>a, <2>2 DEF Near
  <2> QED
    BY <1>0, <2>1, <2>3, StepLosesNone
<1>5. FreeChain'
  BY <1>0 DEF TypeOK, FreeChain
<1>6. Calls'
  BY <1>0 DEF TypeOK, Calls
<1>7. Section'
  BY <1>0 DEF TypeOK, Section, InSection, PC
<1>8. Counts'
  BY <1>0 DEF TypeOK, Counts
<1> QED
  BY <1>a, <1>1, <1>2, <1>3, <1>4, <1>5, <1>6, <1>7, <1>8 DEF IInv, Conservation, SameLists

(* pmem_alloc enters the region's section. *)
LEMMA AllocAcquireInv ==
  ASSUME IInv, NEW c \in CPU, AllocAcquire(c)
  PROVE  IInv' /\ SameLists
<1> USE DEF AllocAcquire, Step, local, LK!Acquire
<1>0. /\ TypeOK /\ ListedOnce /\ CarriedOnce /\ NoneLost
      /\ FreeChain /\ Calls /\ Section /\ Counts
  BY DEF IInv, Conservation
<1>a. \A q \in Region : Listed(q)' = Listed(q)
  BY DEF Listed
<1>1. TypeOK'
  BY <1>0 DEF TypeOK, PC
<1>2. ListedOnce'
  BY <1>0, <1>a DEF TypeOK, ListedOnce
<1>3. CarriedOnce'
  BY <1>0, <1>a DEF TypeOK, CarriedOnce, Carries
<1>4. NoneLost'
  <2>1. \A d \in CPU \ {c} : Carries(d)' = Carries(d) /\ page'[d] = page[d]
    BY <1>0 DEF TypeOK, Carries
  <2>2. Carries(c) => Carries(c)' /\ page'[c] = page[c]
    BY <1>0 DEF TypeOK, Carries
  <2>3. \A p \in Page : Near(c, p) => Near(c, p)'
    BY <1>a, <2>2 DEF Near
  <2> QED
    BY <1>0, <2>1, <2>3, StepLosesNone
<1>5. FreeChain'
  BY <1>0 DEF TypeOK, FreeChain
<1>6. Calls'
  BY <1>0 DEF TypeOK, Calls
<1>7. Section'
  BY <1>0, CPUAssumption DEF TypeOK, Section, InSection, PC
<1>8. Counts'
  BY <1>0 DEF TypeOK, Counts
<1> QED
  BY <1>a, <1>1, <1>2, <1>3, <1>4, <1>5, <1>6, <1>7, <1>8 DEF IInv, Conservation, SameLists

(* The head of the list, or the end of an empty one. *)
LEMMA AllocPickInv ==
  ASSUME IInv, NEW c \in CPU, AllocPick(c)
  PROVE  IInv' /\ SameLists
<1> USE DEF AllocPick, Step, local
<1>0. /\ TypeOK /\ ListedOnce /\ CarriedOnce /\ NoneLost
      /\ FreeChain /\ Calls /\ Section /\ Counts
  BY DEF IInv, Conservation
<1>a. \A q \in Region : Listed(q)' = Listed(q)
  BY DEF Listed
<1>1. TypeOK'
  BY <1>0, Ranges DEF TypeOK, PC
<1>2. ListedOnce'
  BY <1>0, <1>a DEF TypeOK, ListedOnce
<1>3. CarriedOnce'
  BY <1>0, <1>a DEF TypeOK, CarriedOnce, Carries
<1>4. NoneLost'
  <2>1. \A d \in CPU \ {c} : Carries(d)' = Carries(d) /\ page'[d] = page[d]
    BY <1>0 DEF TypeOK, Carries
  <2>2. Carries(c) => Carries(c)' /\ page'[c] = page[c]
    BY <1>0 DEF TypeOK, Carries
  <2>3. \A p \in Page : Near(c, p) => Near(c, p)'
    BY <1>a, <2>2 DEF Near
  <2> QED
    BY <1>0, <2>1, <2>3, StepLosesNone
<1>5. FreeChain'
  BY <1>0 DEF TypeOK, FreeChain
<1>6. Calls'
  BY <1>0 DEF TypeOK, Calls
<1>7. Section'
  BY <1>0 DEF TypeOK, Section, InSection, PC
<1>8. Counts'
  BY <1>0 DEF TypeOK, Counts
<1> QED
  BY <1>a, <1>1, <1>2, <1>3, <1>4, <1>5, <1>6, <1>7, <1>8 DEF IInv, Conservation, SameLists

(* An allocation that fails gives the lock back. *)
LEMMA AllocEmptyInv ==
  ASSUME IInv, NEW c \in CPU, AllocEmpty(c)
  PROVE  IInv' /\ SameLists
<1> USE DEF AllocEmpty, Step, local, LK!Release
<1>0. /\ TypeOK /\ ListedOnce /\ CarriedOnce /\ NoneLost
      /\ FreeChain /\ Calls /\ Section /\ Counts
  BY DEF IInv, Conservation
<1>a. \A q \in Region : Listed(q)' = Listed(q)
  BY DEF Listed
<1>1. TypeOK'
  BY <1>0 DEF TypeOK, PC
<1>2. ListedOnce'
  BY <1>0, <1>a DEF TypeOK, ListedOnce
<1>3. CarriedOnce'
  BY <1>0, <1>a DEF TypeOK, CarriedOnce, Carries
<1>4. NoneLost'
  <2>1. \A d \in CPU \ {c} : Carries(d)' = Carries(d) /\ page'[d] = page[d]
    BY <1>0 DEF TypeOK, Carries
  <2>2. Carries(c) => Carries(c)' /\ page'[c] = page[c]
    BY <1>0 DEF TypeOK, Carries
  <2>3. \A p \in Page : Near(c, p) => Near(c, p)'
    BY <1>a, <2>2 DEF Near
  <2> QED
    BY <1>0, <2>1, <2>3, StepLosesNone
<1>5. FreeChain'
  BY <1>0 DEF TypeOK, FreeChain
<1>6. Calls'
  BY <1>0 DEF TypeOK, Calls
<1>7. Section'
  BY <1>0, CPUAssumption DEF TypeOK, Section, InSection, PC
<1>8. Counts'
  BY <1>0 DEF TypeOK, Counts
<1> QED
  BY <1>a, <1>1, <1>2, <1>3, <1>4, <1>5, <1>6, <1>7, <1>8 DEF IInv, Conservation, SameLists

(* The head leaves the list and is carried by the call. *)
LEMMA AllocUnlinkInv ==
  ASSUME IInv, NEW c \in CPU, AllocUnlink(c)
  PROVE  IInv' /\ \E r \in Region, p \in Page : Takes(r, p)
<1> USE DEF AllocUnlink, Step, local
<1>0. /\ TypeOK /\ ListedOnce /\ CarriedOnce /\ NoneLost
      /\ FreeChain /\ Calls /\ Section /\ Counts
  BY DEF IInv, Conservation
<1>b. \A d \in CPU : pc[d] \in InSection /\ reg[d] = reg[c] => d = c
  <2>1. holder[reg[c]] = c /\ reg[c] \in Region
    BY <1>0, ZenonT(30) DEF Section, TypeOK, InSection, PC
  <2> QED
    BY <1>0, <2>1 DEF Section
<1> DEFINE s == free[reg[c]]
<1>r. PICK r \in Region : r = reg[c]
  BY <1>0 DEF TypeOK
<1>c. PICK t : t = Tail(s)
  OBVIOUS
<1>d. /\ s \in Seq(Page) /\ Len(s) # 0 /\ page[c] = s[1] /\ page[c] \in PagesOf(reg[c])
      /\ page[c] \in Page /\ page[c] \in Listed(reg[c])
  BY <1>0, Ranges DEF TypeOK, FreeChain, Calls, ListedOnce, Listed
<1>e. /\ t \in Seq(Page) /\ Len(t) = Len(s) - 1
      /\ \A i \in 1 .. Len(t) : t[i] = s[i + 1]
  BY <1>c, <1>d, TailFacts
<1>f. /\ head' = [head EXCEPT ![reg[c]] = word[page[c]]]
      /\ free' = [free EXCEPT ![reg[c]] = t]
      /\ reg[c] \in Region
      /\ pc[c] = "a_unlink" /\ pc' = [pc EXCEPT ![c] = "a_count"]
      /\ UNCHANGED <<allocable, word, holder, reg, page, owned>>
  BY <1>0, <1>c DEF TypeOK
<1> HIDE DEF s, AllocUnlink, Step
<1>g. {t[i] : i \in DOMAIN t} = {s[i] : i \in DOMAIN s} \ {page[c]}
  <2> /\ DOMAIN s = 1 .. Len(s) /\ DOMAIN t = 1 .. Len(t)
    BY <1>d, <1>e
  <2>1. ASSUME NEW i \in 1 .. Len(t) PROVE t[i] \in {s[j] : j \in DOMAIN s} /\ t[i] # page[c]
    <3>1. i + 1 \in DOMAIN s /\ 1 \in DOMAIN s /\ i + 1 # 1
      BY <1>d, <1>e
    <3> QED
      BY <1>0, <1>d, <1>e, <1>f, <3>1 DEF ListedOnce, s
  <2>2. ASSUME NEW j \in 1 .. Len(s), s[j] # page[c] PROVE s[j] \in {t[i] : i \in DOMAIN t}
    <3>1. j - 1 \in 1 .. Len(t) /\ t[j - 1] = s[j]
      BY <1>d, <1>e, <2>2
    <3> QED
      BY <1>e, <3>1
  <2> QED
    BY <1>e, <2>1, <2>2
<1>a. /\ Listed(r)' = Listed(r) \ {page[c]}
      /\ \A q \in Region \ {r} : Listed(q)' = Listed(q)
  <2>1. s = free[r] /\ free'[r] = t /\ \A q \in Region \ {r} : free'[q] = free[q]
    BY <1>0, <1>f, <1>r DEF TypeOK, s
  <2> QED
    BY <1>g, <2>1 DEF Listed
<1>1. TypeOK'
  BY <1>0, <1>d, <1>e, <1>f DEF TypeOK, PC
<1>2. ListedOnce'
  <2>1. \A q \in Region : Listed(q)' \subseteq PagesOf(q) \ owned
    BY <1>0, <1>a, <1>f DEF ListedOnce
  <2>2. \A i, j \in DOMAIN t : t[i] = t[j] => i = j
    <3>1. \A i, j \in DOMAIN s : s[i] = s[j] => i = j
      BY <1>0, <1>f DEF ListedOnce, s
    <3>2. \A i \in DOMAIN t : i + 1 \in DOMAIN s /\ t[i] = s[i + 1]
      BY <1>d, <1>e
    <3>3. \A i, j \in DOMAIN t : i + 1 = j + 1 => i = j
      BY <1>e
    <3> QED
      BY <3>1, <3>2, <3>3
  <2> QED
    BY <1>0, <1>f, <2>1, <2>2 DEF TypeOK, ListedOnce
<1>3. CarriedOnce'
  <2>1. \A d \in CPU \ {c} : Carries(d)' = Carries(d)
    BY <1>0, <1>f DEF TypeOK, Carries
  <2>2. \A q \in Region \ {r} : page[c] \notin Listed(q)
    BY <1>0, <1>d, <1>r, <1>f, Ranges DEF ListedOnce
  <2>3. page[c] \notin owned /\ \A d \in CPU : Carries(d) => page[d] # page[c]
    BY <1>0, <1>d, <1>f DEF ListedOnce, CarriedOnce
  <2> QED
    BY <1>0, <1>a, <1>d, <1>f, <2>1, <2>2, <2>3 DEF CarriedOnce
<1>4. NoneLost'
  <2>1. \A d \in CPU \ {c} : Carries(d)' = Carries(d) /\ page'[d] = page[d]
    BY <1>0, <1>f DEF TypeOK, Carries
  <2>2. Carries(c)' /\ ~Carries(c)
    BY <1>0, <1>f DEF TypeOK, Carries
  <2>3. \A p \in Page : Near(c, p) => Near(c, p)'
    BY <1>a, <1>f, <2>2 DEF Near
  <2> QED
    BY <1>0, <2>1, <2>3, StepLosesNone
<1>5. FreeChain'
  <2>1. \A i \in 1 .. Len(s) : word[s[i]] = IF i = Len(s) THEN Null ELSE s[i + 1]
    BY <1>0, <1>f DEF FreeChain, s
  <2>2. head'[reg[c]] = IF Len(t) = 0 THEN Null ELSE t[1]
    <3>1. 1 \in 1 .. Len(s) /\ word[s[1]] = IF 1 = Len(s) THEN Null ELSE s[1 + 1]
      <4>1. 1 \in 1 .. Len(s)
        BY <1>d
      <4> QED
        BY <2>1, <4>1
    <3>2. Len(t) # 0 => t[1] = s[1 + 1]
      BY <1>d, <1>e
    <3>3. head'[reg[c]] = word[page[c]]
      BY <1>0, <1>f DEF TypeOK
    <3> QED
      BY <1>d, <1>e, <3>1, <3>2, <3>3
  <2>3. \A i \in 1 .. Len(t) : word[t[i]] = IF i = Len(t) THEN Null ELSE t[i + 1]
    <3> TAKE i \in 1 .. Len(t)
    <3>1. i + 1 \in 1 .. Len(s) /\ t[i] = s[i + 1] /\ (i = Len(t) <=> i + 1 = Len(s))
      BY <1>d, <1>e
    <3>2. i # Len(t) => t[i + 1] = s[(i + 1) + 1]
      BY <1>d, <1>e
    <3> QED
      BY <2>1, <3>1, <3>2
  <2> QED
    BY <1>0, <1>f, <2>2, <2>3 DEF TypeOK, FreeChain
<1>6. Calls'
  BY <1>0, <1>b, <1>f DEF TypeOK, Calls, InSection, PC
<1>7. Section'
  BY <1>0, <1>f DEF TypeOK, Section, InSection, PC
<1>8. Counts'
  <2>1. allocable[reg[c]] = Len(s)
    BY <1>0, <1>b, <1>f DEF Counts, InSection, PC, s
  <2>2. \A q \in Region \ {r} : free'[q] = free[q]
    BY <1>0, <1>f, <1>r DEF TypeOK
  <2>3. \A d \in CPU \ {c} : pc'[d] = pc[d]
    BY <1>0, <1>f DEF TypeOK
  <2>4. \A d \in CPU \ {c} : reg[d] = r => pc[d] \notin {"a_count", "f_count"}
    BY <1>b, <1>r DEF InSection, PC
  <2>5. free'[r] = t /\ Len(s) \in Nat /\ Len(t) \in Nat
    BY <1>0, <1>d, <1>e, <1>f, <1>r DEF TypeOK
  <2>6. pc'[c] = IF pc[c] = "a_unlink" THEN "a_count" ELSE "f_count"
    BY <1>0, <1>f DEF TypeOK
  <2> QED
    BY <1>0, <1>e, <1>f, <1>r, <2>1, <2>2, <2>3, <2>4, <2>5, <2>6 DEF Counts
<1> QED
  BY <1>d, <1>r, <1>a, <1>1, <1>2, <1>3, <1>4, <1>5, <1>6, <1>7, <1>8 DEF IInv, Conservation, Takes

(* The counter follows the list. *)
LEMMA AllocCountInv ==
  ASSUME IInv, NEW c \in CPU, AllocCount(c)
  PROVE  IInv' /\ SameLists
<1> USE DEF AllocCount, Step, local
<1>0. /\ TypeOK /\ ListedOnce /\ CarriedOnce /\ NoneLost
      /\ FreeChain /\ Calls /\ Section /\ Counts
  BY DEF IInv, Conservation
<1>b. \A d \in CPU : pc[d] \in InSection /\ reg[d] = reg[c] => d = c
  <2>1. holder[reg[c]] = c /\ reg[c] \in Region
    BY <1>0, ZenonT(30) DEF Section, TypeOK, InSection, PC
  <2> QED
    BY <1>0, <2>1 DEF Section
<1>a. \A q \in Region : Listed(q)' = Listed(q)
  BY DEF Listed
<1>1. TypeOK'
  <2>1. allocable[reg[c]] - 1 \in Nat
    BY <1>0 DEF TypeOK, Counts
  <2> QED
    BY <1>0, <2>1 DEF TypeOK, PC
<1>2. ListedOnce'
  BY <1>0, <1>a DEF TypeOK, ListedOnce
<1>3. CarriedOnce'
  BY <1>0, <1>a DEF TypeOK, CarriedOnce, Carries
<1>4. NoneLost'
  <2>1. \A d \in CPU \ {c} : Carries(d)' = Carries(d) /\ page'[d] = page[d]
    BY <1>0 DEF TypeOK, Carries
  <2>2. Carries(c) => Carries(c)' /\ page'[c] = page[c]
    BY <1>0 DEF TypeOK, Carries
  <2>3. \A p \in Page : Near(c, p) => Near(c, p)'
    BY <1>a, <2>2 DEF Near
  <2> QED
    BY <1>0, <2>1, <2>3, StepLosesNone
<1>5. FreeChain'
  BY <1>0 DEF TypeOK, FreeChain
<1>6. Calls'
  BY <1>0 DEF TypeOK, Calls
<1>7. Section'
  BY <1>0 DEF TypeOK, Section, InSection, PC
<1>8. Counts'
  <2>1. \A d \in CPU \ {c} : pc'[d] = pc[d]
    BY <1>0 DEF TypeOK
  <2>2. \A d \in CPU \ {c} : reg[d] = reg[c] => pc[d] \notin {"a_count", "f_count"}
    BY <1>b DEF InSection, PC
  <2>3. \A q \in Region : allocable'[q] = IF q = reg[c] THEN Len(free[q]) ELSE allocable[q]
    BY <1>0 DEF TypeOK, Counts
  <2>4. pc'[c] \notin {"a_count", "f_count"} /\ UNCHANGED <<reg, free>>
    BY <1>0 DEF TypeOK
  <2> QED
    BY <1>0, <2>1, <2>2, <2>3, <2>4 DEF Counts
<1> QED
  BY <1>a, <1>1, <1>2, <1>3, <1>4, <1>5, <1>6, <1>7, <1>8 DEF IInv, Conservation, SameLists

(* pmem_alloc leaves the section with its page. *)
LEMMA AllocReleaseInv ==
  ASSUME IInv, NEW c \in CPU, AllocRelease(c)
  PROVE  IInv' /\ SameLists
<1> USE DEF AllocRelease, Step, local, LK!Release
<1>0. /\ TypeOK /\ ListedOnce /\ CarriedOnce /\ NoneLost
      /\ FreeChain /\ Calls /\ Section /\ Counts
  BY DEF IInv, Conservation
<1>a. \A q \in Region : Listed(q)' = Listed(q)
  BY DEF Listed
<1>1. TypeOK'
  BY <1>0 DEF TypeOK, PC
<1>2. ListedOnce'
  BY <1>0, <1>a DEF TypeOK, ListedOnce
<1>3. CarriedOnce'
  BY <1>0, <1>a DEF TypeOK, CarriedOnce, Carries
<1>4. NoneLost'
  <2>1. \A d \in CPU \ {c} : Carries(d)' = Carries(d) /\ page'[d] = page[d]
    BY <1>0 DEF TypeOK, Carries
  <2>2. Carries(c) => Carries(c)' /\ page'[c] = page[c]
    BY <1>0 DEF TypeOK, Carries
  <2>3. \A p \in Page : Near(c, p) => Near(c, p)'
    BY <1>a, <2>2 DEF Near
  <2> QED
    BY <1>0, <2>1, <2>3, StepLosesNone
<1>5. FreeChain'
  BY <1>0 DEF TypeOK, FreeChain
<1>6. Calls'
  BY <1>0 DEF TypeOK, Calls
<1>7. Section'
  BY <1>0, CPUAssumption DEF TypeOK, Section, InSection, PC
<1>8. Counts'
  BY <1>0 DEF TypeOK, Counts
<1> QED
  BY <1>a, <1>1, <1>2, <1>3, <1>4, <1>5, <1>6, <1>7, <1>8 DEF IInv, Conservation, SameLists

(* Clearing a carried page touches no listed one. *)
LEMMA AllocClearInv ==
  ASSUME IInv, NEW c \in CPU, AllocClear(c)
  PROVE  IInv' /\ SameLists
<1> USE DEF AllocClear, Step, local, Null
<1>0. /\ TypeOK /\ ListedOnce /\ CarriedOnce /\ NoneLost
      /\ FreeChain /\ Calls /\ Section /\ Counts
  BY DEF IInv, Conservation
<1>b. /\ page[c] \in Page \ owned
      /\ \A q \in Region : page[c] \notin Listed(q)
      /\ \A d \in CPU : Carries(d) /\ page[d] = page[c] => d = c
  BY <1>0 DEF CarriedOnce, Carries
<1>a. \A q \in Region : Listed(q)' = Listed(q)
  BY DEF Listed
<1>1. TypeOK'
  BY <1>0, <1>b, Ranges DEF TypeOK, PC
<1>2. ListedOnce'
  BY <1>0, <1>a, <1>b DEF TypeOK, ListedOnce
<1>3. CarriedOnce'
  BY <1>0, <1>a, <1>b DEF TypeOK, CarriedOnce, Carries
<1>4. NoneLost'
  <2>1. \A d \in CPU \ {c} : Carries(d)' = Carries(d) /\ page'[d] = page[d]
    BY <1>0 DEF TypeOK, Carries
  <2>2. owned' = owned \cup {page[c]} /\ UNCHANGED page
    BY <1>0, <1>b DEF TypeOK, Carries
  <2>3. \A p \in Page : Near(c, p) => Near(c, p)'
    BY <1>a, <2>2 DEF Near
  <2> QED
    BY <1>0, <2>1, <2>3, StepLosesNone
<1>5. FreeChain'
  BY <1>0, <1>b, ChainKept
<1>6. Calls'
  BY <1>0, <1>b DEF TypeOK, Calls, Carries
<1>7. Section'
  BY <1>0 DEF TypeOK, Section, InSection, PC
<1>8. Counts'
  BY <1>0 DEF TypeOK, Counts
<1> QED
  BY <1>a, <1>1, <1>2, <1>3, <1>4, <1>5, <1>6, <1>7, <1>8 DEF IInv, Conservation, SameLists

(* A page given to pmem_free is the call's, or is refused by the assert. *)
LEMMA CallFreeInv ==
  ASSUME IInv, NEW c \in CPU, NEW r \in Region, NEW p \in Page, CallFree(c, p, r)
  PROVE  IInv' /\ SameLists
<1> USE DEF CallFree, Step, local
<1>0. /\ TypeOK /\ ListedOnce /\ CarriedOnce /\ NoneLost
      /\ FreeChain /\ Calls /\ Section /\ Counts
  BY DEF IInv, Conservation
<1>b. p \in owned /\ \A d \in CPU : Carries(d) => page[d] # p
  BY <1>0 DEF CarriedOnce
<1>c. \A q \in Region : p \notin Listed(q)
  BY <1>0, <1>b DEF ListedOnce
<1>a. \A q \in Region : Listed(q)' = Listed(q)
  BY DEF Listed
<1>1. TypeOK'
  BY <1>0 DEF TypeOK, PC
<1>2. ListedOnce'
  BY <1>0, <1>a DEF TypeOK, ListedOnce
<1>3. CarriedOnce'
  BY <1>0, <1>a, <1>b, <1>c DEF TypeOK, CarriedOnce, Carries
<1>4. NoneLost'
  <2>1. \A d \in CPU \ {c} : Carries(d)' = Carries(d) /\ page'[d] = page[d]
    BY <1>0 DEF TypeOK, Carries
  <2>2. /\ ~Carries(c)
        /\ owned' = owned \/ (owned' = owned \ {p} /\ Carries(c)' /\ page'[c] = p)
    BY <1>0, <1>b, <1>c DEF TypeOK, Carries
  <2>3. \A s \in Page : Near(c, s) => Near(c, s)'
    BY <1>a, <2>2 DEF Near
  <2> QED
    BY <1>0, <2>1, <2>3, StepLosesNone
<1>5. FreeChain'
  BY <1>0 DEF TypeOK, FreeChain
<1>6. Calls'
  BY <1>0 DEF TypeOK, Calls
<1>7. Section'
  BY <1>0 DEF TypeOK, Section, InSection, PC
<1>8. Counts'
  BY <1>0 DEF TypeOK, Counts
<1> QED
  BY <1>a, <1>1, <1>2, <1>3, <1>4, <1>5, <1>6, <1>7, <1>8 DEF IInv, Conservation, SameLists

(* pmem_free enters the region's section. *)
LEMMA FreeAcquireInv ==
  ASSUME IInv, NEW c \in CPU, FreeAcquire(c)
  PROVE  IInv' /\ SameLists
<1> USE DEF FreeAcquire, Step, local, LK!Acquire
<1>0. /\ TypeOK /\ ListedOnce /\ CarriedOnce /\ NoneLost
      /\ FreeChain /\ Calls /\ Section /\ Counts
  BY DEF IInv, Conservation
<1>a. \A q \in Region : Listed(q)' = Listed(q)
  BY DEF Listed
<1>1. TypeOK'
  BY <1>0 DEF TypeOK, PC
<1>2. ListedOnce'
  BY <1>0, <1>a DEF TypeOK, ListedOnce
<1>3. CarriedOnce'
  BY <1>0, <1>a DEF TypeOK, CarriedOnce, Carries
<1>4. NoneLost'
  <2>1. \A d \in CPU \ {c} : Carries(d)' = Carries(d) /\ page'[d] = page[d]
    BY <1>0 DEF TypeOK, Carries
  <2>2. Carries(c) => Carries(c)' /\ page'[c] = page[c]
    BY <1>0 DEF TypeOK, Carries
  <2>3. \A p \in Page : Near(c, p) => Near(c, p)'
    BY <1>a, <2>2 DEF Near
  <2> QED
    BY <1>0, <2>1, <2>3, StepLosesNone
<1>5. FreeChain'
  BY <1>0 DEF TypeOK, FreeChain
<1>6. Calls'
  BY <1>0 DEF TypeOK, Calls
<1>7. Section'
  BY <1>0, CPUAssumption DEF TypeOK, Section, InSection, PC
<1>8. Counts'
  BY <1>0 DEF TypeOK, Counts
<1> QED
  BY <1>a, <1>1, <1>2, <1>3, <1>4, <1>5, <1>6, <1>7, <1>8 DEF IInv, Conservation, SameLists

(* The carried page is linked to the head. *)
LEMMA FreeLinkInv ==
  ASSUME IInv, NEW c \in CPU, FreeLink(c)
  PROVE  IInv' /\ SameLists
<1> USE DEF FreeLink, Step, local
<1>0. /\ TypeOK /\ ListedOnce /\ CarriedOnce /\ NoneLost
      /\ FreeChain /\ Calls /\ Section /\ Counts
  BY DEF IInv, Conservation
<1>b. /\ page[c] \in Page \ owned
      /\ \A q \in Region : page[c] \notin Listed(q)
      /\ \A d \in CPU : Carries(d) /\ page[d] = page[c] => d = c
  BY <1>0 DEF CarriedOnce, Carries
<1>a. \A q \in Region : Listed(q)' = Listed(q)
  BY DEF Listed
<1>1. TypeOK'
  BY <1>0, <1>b, Ranges DEF TypeOK, PC
<1>2. ListedOnce'
  BY <1>0, <1>a, <1>b DEF TypeOK, ListedOnce
<1>3. CarriedOnce'
  BY <1>0, <1>a, <1>b DEF TypeOK, CarriedOnce, Carries
<1>4. NoneLost'
  <2>1. \A d \in CPU \ {c} : Carries(d)' = Carries(d) /\ page'[d] = page[d]
    BY <1>0 DEF TypeOK, Carries
  <2>2. Carries(c) => Carries(c)' /\ page'[c] = page[c]
    BY <1>0, <1>b DEF TypeOK, Carries
  <2>3. \A p \in Page : Near(c, p) => Near(c, p)'
    BY <1>a, <2>2 DEF Near
  <2> QED
    BY <1>0, <2>1, <2>3, StepLosesNone
<1>5. FreeChain'
  BY <1>0, <1>b, ChainKept
<1>6. Calls'
  BY <1>0, <1>b DEF TypeOK, Calls, Carries
<1>7. Section'
  BY <1>0 DEF TypeOK, Section, InSection, PC
<1>8. Counts'
  BY <1>0 DEF TypeOK, Counts
<1> QED
  BY <1>a, <1>1, <1>2, <1>3, <1>4, <1>5, <1>6, <1>7, <1>8 DEF IInv, Conservation, SameLists

(* The carried page becomes the head. *)
LEMMA FreePushInv ==
  ASSUME IInv, NEW c \in CPU, FreePush(c)
  PROVE  IInv' /\ \E r \in Region, p \in Page : Puts(r, p)
<1> USE DEF FreePush, Step, local
<1>0. /\ TypeOK /\ ListedOnce /\ CarriedOnce /\ NoneLost
      /\ FreeChain /\ Calls /\ Section /\ Counts
  BY DEF IInv, Conservation
<1>b. \A d \in CPU : pc[d] \in InSection /\ reg[d] = reg[c] => d = c
  <2>1. holder[reg[c]] = c /\ reg[c] \in Region
    BY <1>0, ZenonT(30) DEF Section, TypeOK, InSection, PC
  <2> QED
    BY <1>0, <2>1 DEF Section
<1> DEFINE s == free[reg[c]]
<1>r. PICK r \in Region : r = reg[c]
  BY <1>0 DEF TypeOK
<1>c. PICK t : t = <<page[c]>> \o s
  OBVIOUS
<1>d. /\ s \in Seq(Page) /\ page[c] \in PagesOf(reg[c])
      /\ page[c] \in Page \ owned /\ \A q \in Region : page[c] \notin Listed(q)
      /\ \A d \in CPU : Carries(d) /\ page[d] = page[c] => d = c
      /\ word[page[c]] = head[reg[c]]
  BY <1>0 DEF TypeOK, Calls, CarriedOnce, Carries
<1>e. /\ t \in Seq(Page) /\ Len(t) = Len(s) + 1 /\ t[1] = page[c]
      /\ \A i \in 1 .. Len(s) : t[i + 1] = s[i]
  BY <1>c, <1>d, PushFacts
<1>f. /\ head' = [head EXCEPT ![reg[c]] = page[c]]
      /\ free' = [free EXCEPT ![reg[c]] = t]
      /\ reg[c] \in Region
      /\ pc[c] = "f_push" /\ pc' = [pc EXCEPT ![c] = "f_count"]
      /\ UNCHANGED <<allocable, word, holder, reg, page, owned>>
  BY <1>0, <1>c DEF TypeOK
<1> HIDE DEF s, FreePush, Step
<1>g. {t[i] : i \in DOMAIN t} = {s[i] : i \in DOMAIN s} \cup {page[c]}
  <2> /\ DOMAIN s = 1 .. Len(s) /\ DOMAIN t = 1 .. Len(t) /\ 1 \in 1 .. Len(t)
    BY <1>d, <1>e
  <2>1. ASSUME NEW i \in 1 .. Len(t), i # 1 PROVE t[i] \in {s[j] : j \in DOMAIN s}
    <3>1. i - 1 \in 1 .. Len(s) /\ t[i] = s[i - 1]
      BY <1>d, <1>e, <2>1
    <3> QED
      BY <1>d, <3>1
  <2>2. ASSUME NEW j \in 1 .. Len(s) PROVE s[j] \in {t[i] : i \in DOMAIN t}
    <3>1. j + 1 \in 1 .. Len(t) /\ t[j + 1] = s[j]
      BY <1>d, <1>e
    <3> QED
      BY <1>e, <3>1
  <2> QED
    BY <1>e, <2>1, <2>2
<1>a. /\ Listed(r)' = Listed(r) \cup {page[c]}
      /\ \A q \in Region \ {r} : Listed(q)' = Listed(q)
  <2>1. s = free[r] /\ free'[r] = t /\ \A q \in Region \ {r} : free'[q] = free[q]
    BY <1>0, <1>f, <1>r DEF TypeOK, s
  <2> QED
    BY <1>g, <2>1 DEF Listed
<1>1. TypeOK'
  BY <1>0, <1>d, <1>e, <1>f DEF TypeOK, PC
<1>2. ListedOnce'
  <2>1. \A q \in Region : Listed(q)' \subseteq PagesOf(q) \ owned
    BY <1>0, <1>a, <1>d, <1>r DEF ListedOnce
  <2>2. \A i, j \in DOMAIN t : t[i] = t[j] => i = j
    <3>1. \A i, j \in DOMAIN s : s[i] = s[j] => i = j
      BY <1>0, <1>f DEF ListedOnce, s
    <3>2. \A i \in 1 .. Len(s) : s[i] # page[c]
      BY <1>d, <1>f DEF Listed, s
    <3> QED
      <4>1. \A i \in DOMAIN t \ {1} : i - 1 \in DOMAIN s /\ t[i] = s[i - 1]
        <5>1. \A i \in DOMAIN t \ {1} : i - 1 \in 1 .. Len(s) /\ (i - 1) + 1 = i
          BY <1>d, <1>e
        <5> QED
          BY <1>d, <1>e, <5>1
      <4>2. 1 \in DOMAIN t /\ \A i \in DOMAIN t \ {1} : t[i] # t[1]
        BY <1>d, <1>e, <3>2, <4>1
      <4>3. \A i, j \in DOMAIN t \ {1} : i - 1 = j - 1 => i = j
        BY <1>e
      <4>4. \A i, j \in DOMAIN t \ {1} : t[i] = t[j] => i = j
        BY <3>1, <4>1, <4>3
      <4> QED
        BY <4>2, <4>4
  <2> QED
    BY <1>0, <1>f, <2>1, <2>2 DEF TypeOK, ListedOnce
<1>3. CarriedOnce'
  <2>1. \A d \in CPU \ {c} : Carries(d)' = Carries(d)
    BY <1>0, <1>f DEF TypeOK, Carries
  <2>2. ~Carries(c)' /\ Carries(c)
    BY <1>0, <1>f DEF TypeOK, Carries
  <2> QED
    BY <1>0, <1>a, <1>d, <1>f, <2>1, <2>2 DEF CarriedOnce
<1>4. NoneLost'
  <2>1. \A d \in CPU \ {c} : Carries(d)' = Carries(d) /\ page'[d] = page[d]
    BY <1>0, <1>f DEF TypeOK, Carries
  <2>3. \A p \in Page : Near(c, p) => Near(c, p)'
    BY <1>a, <1>f DEF Near
  <2> QED
    BY <1>0, <2>1, <2>3, StepLosesNone
<1>5. FreeChain'
  <2>1. \A i \in 1 .. Len(s) : word[s[i]] = IF i = Len(s) THEN Null ELSE s[i + 1]
    BY <1>0, <1>f DEF FreeChain, s
  <2>2. word[page[c]] = IF Len(s) = 0 THEN Null ELSE s[1]
    BY <1>0, <1>d, <1>f DEF FreeChain, s
  <2>3. \A i \in 1 .. Len(t) : word[t[i]] = IF i = Len(t) THEN Null ELSE t[i + 1]
    <3>1. CASE Len(s) = 0
      BY <1>d, <1>e, <2>2, <3>1
    <3>2. CASE Len(s) # 0
      <4>1. word[t[1]] = t[2] /\ Len(t) # 1
        BY <1>d, <1>e, <2>2, <3>2
      <4>2. ASSUME NEW i \in 1 .. Len(s)
            PROVE  word[t[i + 1]] = IF i + 1 = Len(t) THEN Null ELSE t[i + 2]
        BY <1>d, <1>e, <2>1
      <4>3. ASSUME NEW i \in 1 .. Len(t), i # 1
            PROVE  word[t[i]] = IF i = Len(t) THEN Null ELSE t[i + 1]
        <5>1. PICK j \in 1 .. Len(s) : i = j + 1 /\ i + 1 = j + 2
          <6>1. i - 1 \in 1 .. Len(s) /\ i = (i - 1) + 1 /\ i + 1 = (i - 1) + 2
            BY <1>d, <1>e, <4>3
          <6> QED
            BY <6>1
        <5> QED
          BY <4>2, <5>1
      <4>4. ASSUME NEW i \in 1 .. Len(t)
            PROVE  word[t[i]] = IF i = Len(t) THEN Null ELSE t[i + 1]
        <5>1. CASE i = 1
          BY <4>1, <5>1
        <5>2. CASE i # 1
          BY <4>3, <5>2
        <5> QED
          BY <5>1, <5>2
      <4> QED
        BY <4>4
    <3> QED
      BY <1>d, <3>1, <3>2
  <2>4. head'[reg[c]] = IF Len(t) = 0 THEN Null ELSE t[1]
    BY <1>0, <1>d, <1>e, <1>f DEF TypeOK
  <2> QED
    BY <1>0, <1>f, <2>3, <2>4 DEF TypeOK, FreeChain
<1>6. Calls'
  BY <1>0, <1>b, <1>f DEF TypeOK, Calls, InSection, PC
<1>7. Section'
  BY <1>0, <1>f DEF TypeOK, Section, InSection, PC
<1>8. Counts'
  <2>1. allocable[reg[c]] = Len(s)
    BY <1>0, <1>b, <1>f DEF Counts, InSection, PC, s
  <2>2. \A q \in Region \ {r} : free'[q] = free[q]
    BY <1>0, <1>f, <1>r DEF TypeOK
  <2>3. \A d \in CPU \ {c} : pc'[d] = pc[d]
    BY <1>0, <1>f DEF TypeOK
  <2>4. \A d \in CPU \ {c} : reg[d] = r => pc[d] \notin {"a_count", "f_count"}
    BY <1>b, <1>r DEF InSection, PC
  <2>5. free'[r] = t /\ Len(s) \in Nat /\ Len(t) \in Nat
    BY <1>0, <1>d, <1>e, <1>f, <1>r DEF TypeOK
  <2>6. pc'[c] = IF pc[c] = "a_unlink" THEN "a_count" ELSE "f_count"
    BY <1>0, <1>f DEF TypeOK
  <2> QED
    BY <1>0, <1>e, <1>f, <1>r, <2>1, <2>2, <2>3, <2>4, <2>5, <2>6 DEF Counts
<1> QED
  BY <1>d, <1>r, <1>a, <1>1, <1>2, <1>3, <1>4, <1>5, <1>6, <1>7, <1>8 DEF IInv, Conservation, Puts

(* The counter follows the list. *)
LEMMA FreeCountInv ==
  ASSUME IInv, NEW c \in CPU, FreeCount(c)
  PROVE  IInv' /\ SameLists
<1> USE DEF FreeCount, Step, local
<1>0. /\ TypeOK /\ ListedOnce /\ CarriedOnce /\ NoneLost
      /\ FreeChain /\ Calls /\ Section /\ Counts
  BY DEF IInv, Conservation
<1>b. \A d \in CPU : pc[d] \in InSection /\ reg[d] = reg[c] => d = c
  <2>1. holder[reg[c]] = c /\ reg[c] \in Region
    BY <1>0, ZenonT(30) DEF Section, TypeOK, InSection, PC
  <2> QED
    BY <1>0, <2>1 DEF Section
<1>a. \A q \in Region : Listed(q)' = Listed(q)
  BY DEF Listed
<1>1. TypeOK'
  BY <1>0 DEF TypeOK, PC
<1>2. ListedOnce'
  BY <1>0, <1>a DEF TypeOK, ListedOnce
<1>3. CarriedOnce'
  BY <1>0, <1>a DEF TypeOK, CarriedOnce, Carries
<1>4. NoneLost'
  <2>1. \A d \in CPU \ {c} : Carries(d)' = Carries(d) /\ page'[d] = page[d]
    BY <1>0 DEF TypeOK, Carries
  <2>2. Carries(c) => Carries(c)' /\ page'[c] = page[c]
    BY <1>0 DEF TypeOK, Carries
  <2>3. \A p \in Page : Near(c, p) => Near(c, p)'
    BY <1>a, <2>2 DEF Near
  <2> QED
    BY <1>0, <2>1, <2>3, StepLosesNone
<1>5. FreeChain'
  BY <1>0 DEF TypeOK, FreeChain
<1>6. Calls'
  BY <1>0 DEF TypeOK, Calls
<1>7. Section'
  BY <1>0 DEF TypeOK, Section, InSection, PC
<1>8. Counts'
  BY <1>0, <1>b DEF TypeOK, Counts, InSection, PC
<1> QED
  BY <1>a, <1>1, <1>2, <1>3, <1>4, <1>5, <1>6, <1>7, <1>8 DEF IInv, Conservation, SameLists

(* pmem_free leaves the section. *)
LEMMA FreeReleaseInv ==
  ASSUME IInv, NEW c \in CPU, FreeRelease(c)
  PROVE  IInv' /\ SameLists
<1> USE DEF FreeRelease, Step, local, LK!Release
<1>0. /\ TypeOK /\ ListedOnce /\ CarriedOnce /\ NoneLost
      /\ FreeChain /\ Calls /\ Section /\ Counts
  BY DEF IInv, Conservation
<1>a. \A q \in Region : Listed(q)' = Listed(q)
  BY DEF Listed
<1>1. TypeOK'
  BY <1>0 DEF TypeOK, PC
<1>2. ListedOnce'
  BY <1>0, <1>a DEF TypeOK, ListedOnce
<1>3. CarriedOnce'
  BY <1>0, <1>a DEF TypeOK, CarriedOnce, Carries
<1>4. NoneLost'
  <2>1. \A d \in CPU \ {c} : Carries(d)' = Carries(d) /\ page'[d] = page[d]
    BY <1>0 DEF TypeOK, Carries
  <2>2. Carries(c) => Carries(c)' /\ page'[c] = page[c]
    BY <1>0 DEF TypeOK, Carries
  <2>3. \A p \in Page : Near(c, p) => Near(c, p)'
    BY <1>a, <2>2 DEF Near
  <2> QED
    BY <1>0, <2>1, <2>3, StepLosesNone
<1>5. FreeChain'
  BY <1>0 DEF TypeOK, FreeChain
<1>6. Calls'
  BY <1>0 DEF TypeOK, Calls
<1>7. Section'
  BY <1>0, CPUAssumption DEF TypeOK, Section, InSection, PC
<1>8. Counts'
  BY <1>0 DEF TypeOK, Counts
<1> QED
  BY <1>a, <1>1, <1>2, <1>3, <1>4, <1>5, <1>6, <1>7, <1>8 DEF IInv, Conservation, SameLists

(* What an owner writes into its page is not on any list. *)
LEMMA UsePageInv ==
  ASSUME IInv, NEW p \in Page, NEW v \in Page \cup {Null}, UsePage(p, v)
  PROVE  IInv' /\ SameLists
<1> USE DEF UsePage, Step, local
<1>0. /\ TypeOK /\ ListedOnce /\ CarriedOnce /\ NoneLost
      /\ FreeChain /\ Calls /\ Section /\ Counts
  BY DEF IInv, Conservation
<1>b. p \in owned /\ (\A q \in Region : p \notin Listed(q)) /\ \A d \in CPU : Carries(d) => page[d] # p
  BY <1>0 DEF CarriedOnce, ListedOnce
<1>a. \A q \in Region : Listed(q)' = Listed(q)
  BY DEF Listed
<1>1. TypeOK'
  BY <1>0 DEF TypeOK, PC
<1>2. ListedOnce'
  BY <1>0, <1>a DEF TypeOK, ListedOnce
<1>3. CarriedOnce'
  BY <1>0, <1>a DEF TypeOK, CarriedOnce, Carries
<1>4. NoneLost'
  BY <1>0, <1>a DEF TypeOK, NoneLost, Carries
<1>5. FreeChain'
  BY <1>0, <1>b, ChainKept
<1>6. Calls'
  BY <1>0, <1>b DEF TypeOK, Calls, Carries
<1>7. Section'
  BY <1>0 DEF TypeOK, Section, InSection, PC
<1>8. Counts'
  BY <1>0 DEF TypeOK, Counts
<1> QED
  BY <1>a, <1>1, <1>2, <1>3, <1>4, <1>5, <1>6, <1>7, <1>8 DEF IInv, Conservation, SameLists

-----------------------------------------------------------------------------
(* region_setup builds one chain through all the pages of each region. *)
LEMMA InitInv == Init => IInv
<1> SUFFICES ASSUME Init PROVE IInv
  OBVIOUS
<1> USE DEF Init
<1>a. \A r \in Region : /\ Begin(r) \in Nat \ {0} /\ End(r) \in Nat
                        /\ End(r) - Begin(r) \in Nat
  BY RangeAssumption DEF Region, Begin, End
<1>b. ASSUME NEW r \in Region
      PROVE  /\ Len(free[r]) = End(r) - Begin(r)
             /\ DOMAIN free[r] = 1 .. End(r) - Begin(r)
             /\ free[r] \in Seq(PagesOf(r))
             /\ \A i \in 1 .. End(r) - Begin(r) : free[r][i] = End(r) - i
  <2>1. free[r] = [i \in 1 .. End(r) - Begin(r) |-> End(r) - i]
    OBVIOUS
  <2>2. \A i \in 1 .. End(r) - Begin(r) : End(r) - i \in PagesOf(r)
    BY <1>a DEF PagesOf
  <2>3. free[r] \in [1 .. End(r) - Begin(r) -> PagesOf(r)]
    BY <2>1, <2>2
  <2>4. free[r] \in Seq(PagesOf(r)) /\ Len(free[r]) = End(r) - Begin(r)
    <3>0. PICK n \in Nat : n = End(r) - Begin(r)
      BY <1>a
    <3>1. PICK f \in [1 .. n -> PagesOf(r)] : f = free[r]
      BY <2>3, <3>0
    <3>2. f \in Seq(PagesOf(r)) /\ Len(f) = n
      BY FunctionIsSeq
    <3> QED
      BY <3>0, <3>1, <3>2
  <2> QED
    BY <2>1, <2>4
<1>c. ASSUME NEW r \in Region PROVE Listed(r) = PagesOf(r)
  <2>1. \A p \in PagesOf(r) : End(r) - p \in DOMAIN free[r] /\ free[r][End(r) - p] = p
    BY <1>a, <1>b DEF PagesOf
  <2>2. \A i \in DOMAIN free[r] : free[r][i] \in PagesOf(r)
    BY <1>a, <1>b DEF PagesOf
  <2> QED
    BY <2>1, <2>2 DEF Listed
<1>1. TypeOK
  BY <1>a, <1>b, Ranges, RangeAssumption DEF TypeOK, LK!Init, PC, Page, Null, Begin, End, Region, PagesOf
<1>2. ListedOnce
  BY <1>a, <1>b, <1>c DEF ListedOnce
<1>3. CarriedOnce
  BY DEF CarriedOnce, Carries
<1>4. NoneLost
  BY <1>c, Ranges DEF NoneLost
<1>5. FreeChain
  <2> SUFFICES ASSUME NEW r \in Region
               PROVE  LET n == Len(free[r])
                      IN  /\ head[r] = IF n = 0 THEN Null ELSE free[r][1]
                          /\ \A i \in 1 .. n :
                               word[free[r][i]] = IF i = n THEN Null ELSE free[r][i + 1]
    BY DEF FreeChain
  <2> DEFINE n == Len(free[r])
  <2>1. n = End(r) - Begin(r) /\ n \in Nat
    BY <1>a, <1>b
  <2>2. head[r] = IF n = 0 THEN Null ELSE free[r][1]
    BY <1>a, <1>b
  <2>3. ASSUME NEW i \in 1 .. n PROVE word[free[r][i]] = IF i = n THEN Null ELSE free[r][i + 1]
    <3>1. free[r][i] = End(r) - i /\ End(r) - i \in Page
      <4>1. i \in 1 .. End(r) - Begin(r)
        BY <2>1
      <4>2. End(r) - i \in PagesOf(r)
        BY <1>a, <4>1 DEF PagesOf
      <4> QED
        BY <1>b, <4>1, <4>2, Ranges
    <3>2. i # n => i + 1 \in 1 .. n /\ free[r][i + 1] = (End(r) - i) - 1
      BY <1>a, <1>b
    <3>3. i = n <=> \E q \in Region : End(r) - i = Begin(q)
      BY RangeAssumption DEF Region, Begin, End
    <3> QED
      BY <3>1, <3>2, <3>3
  <2> QED
    BY <2>1, <2>2, <2>3
<1>6. Calls /\ Section /\ Counts
  BY <1>b, CPUAssumption DEF Calls, Section, Counts, InSection, LK!Init
<1> QED
  BY <1>1, <1>2, <1>3, <1>4, <1>5, <1>6 DEF IInv, Conservation

(* Every step keeps the inductive invariant and moves at most one page between
   the lists and their users. *)
LEMMA NextInv ==
  ASSUME IInv, [Next]_vars
  PROVE  /\ IInv'
         /\ \/ SameLists
            \/ \E r \in Region, p \in Page : Takes(r, p) \/ Puts(r, p)
<1> DEFINE Moves == SameLists \/ \E r \in Region, p \in Page : Takes(r, p) \/ Puts(r, p)
<1>1. CASE UNCHANGED vars
  <2>1. IInv'
    BY <1>1 DEF vars, IInv, TypeOK, Conservation, ListedOnce, CarriedOnce, NoneLost,
                FreeChain, Calls, Section, Counts, Listed, Carries
  <2>2. SameLists
    BY <1>1 DEF vars, SameLists, Listed
  <2> QED
    BY <2>1, <2>2
<1>2. ASSUME NEW c \in CPU, Inside(c) PROVE IInv' /\ Moves
  BY <1>2, AllocAcquireInv, AllocPickInv, AllocEmptyInv, AllocUnlinkInv,
     AllocCountInv, AllocReleaseInv, AllocClearInv, FreeAcquireInv, FreeLinkInv,
     FreePushInv, FreeCountInv, FreeReleaseInv DEF Inside
<1>3. ASSUME NEW c \in CPU, NEW r \in Region, CallAlloc(c, r) PROVE IInv' /\ Moves
  BY <1>3, CallAllocInv
<1>4. ASSUME NEW c \in CPU, NEW r \in Region, NEW p \in Page, CallFree(c, p, r)
      PROVE  IInv' /\ Moves
  BY <1>4, CallFreeInv
<1>5. ASSUME NEW p \in Page, NEW v \in Page \cup {Null}, UsePage(p, v)
      PROVE  IInv' /\ Moves
  BY <1>5, UsePageInv
<1> QED
  BY <1>1, <1>2, <1>3, <1>4, <1>5 DEF Next

(* The allocator's invariant holds for every number of harts and pages. *)
THEOREM Invariance == Spec => []IInv
<1>1. IInv /\ [Next]_vars => IInv'
  BY NextInv
<1> QED
  BY <1>1, InitInv, PTL DEF Spec

(* The allocator's variables keep their types; allocable never goes below 0. *)
THEOREM TypeCorrect == Spec => []TypeOK
  BY Invariance, PTL DEF IInv

(* pmem_alloc and pmem_free hand out no page twice and lose none. *)
THEOREM ConservationCorrect == Spec => []Conservation
  BY Invariance, PTL DEF IInv

(* The words in the free pages are the free list, whatever owners write. *)
THEOREM FreeChainCorrect == Spec => []FreeChain
  BY Invariance, PTL DEF IInv

(* allocable is the length of the list whenever no hart is in the section, and
   pmem_alloc panics only when there is no page. *)
THEOREM CountCorrect == Spec => []CountExact
<1>1. IInv => CountExact
  <2> SUFFICES ASSUME IInv PROVE CountExact
    OBVIOUS
  <2>1. ASSUME NEW r \in Region, holder[r] = NoCPU PROVE allocable[r] = Len(free[r])
    <3>1. \A c \in CPU : ~(reg[c] = r /\ pc[c] \in InSection)
      BY <2>1, CPUAssumption DEF IInv, Section
    <3> QED
      BY <3>1 DEF IInv, Counts, InSection, PC
  <2>2. ASSUME NEW c \in CPU, pc[c] = "a_empty"
        PROVE  Len(free[reg[c]]) = 0 /\ allocable[reg[c]] = 0
    <3>1. reg[c] \in Region /\ head[reg[c]] = Null /\ free[reg[c]] \in Seq(Page)
      BY <2>2 DEF IInv, TypeOK, Calls
    <3>2. Len(free[reg[c]]) = 0
      BY <3>1, Ranges DEF IInv, FreeChain
    <3>3. holder[reg[c]] = c
      BY <2>2, <3>1 DEF IInv, Section, InSection, PC
    <3>4. \A d \in CPU : ~(reg[d] = reg[c] /\ pc[d] \in {"a_count", "f_count"})
      BY <2>2, <3>1, <3>3 DEF IInv, Section, InSection, PC
    <3> QED
      BY <3>1, <3>2, <3>4 DEF IInv, Counts
  <2> QED
    BY <2>1, <2>2 DEF CountExact
<1> QED
  BY <1>1, Invariance, PTL

-----------------------------------------------------------------------------
(* A set of naturals has a least element. *)
LEMMA Least ==
  ASSUME NEW T, T \subseteq Nat, T # {}
  PROVE  \E n \in T : \A m \in T : n <= m
<1> DEFINE F == {0 .. n : n \in T}
<1>1. F \subseteq FiniteSubsetsOf(Nat) /\ F # {}
  <2>1. \A n \in Nat : IsFiniteSet(0 .. n) /\ 0 .. n \subseteq Nat
    BY FS_Interval
  <2> QED
    BY <2>1 DEF FiniteSubsetsOf
<1>2. PICK U \in F : \A V \in F : ~ (<<V, U>> \in StrictSubsetOrdering(Nat))
  <2> HIDE DEF F
  <2> QED
    BY <1>1, FS_StrictSubsetOrderingWellFounded, WFMin
<1>3. PICK n \in T : U = 0 .. n
  OBVIOUS
<1>4. ASSUME NEW m \in T, m < n PROVE FALSE
  <2>1. /\ 0 .. m \in F /\ 0 .. m \subseteq 0 .. n /\ n \in 0 .. n /\ n \notin 0 .. m
        /\ 0 .. n \subseteq Nat
    BY <1>4
  <2>2. <<0 .. m, 0 .. n>> \in StrictSubsetOrdering(Nat)
    BY <2>1 DEF StrictSubsetOrdering
  <2> QED
    BY <1>2, <1>3, <2>1, <2>2
<1> QED
  BY <1>4

(* Reached and Listed of one region, by the values they are computed from. *)
Reach(h, w) == {p \in Page : \A S \in SUBSET Page : Closed(S, h, w) => p \in S}
Elems(s) == {s[i] : i \in DOMAIN s}
Linked(h, w, s) ==
  /\ h = IF Len(s) = 0 THEN Null ELSE s[1]
  /\ \A i \in 1 .. Len(s) : w[s[i]] = IF i = Len(s) THEN Null ELSE s[i + 1]

(* The links in memory reach the pages of the list and no others: a closed set
   holds them all, as the first that it did not hold would follow one it holds. *)
LEMMA ReachIsList ==
  ASSUME NEW s \in Seq(Page), NEW h, NEW w, Linked(h, w, s)
  PROVE  Reach(h, w) = Elems(s)
<1> DEFINE n == Len(s)
           E == Elems(s)
<1>1. /\ n \in Nat /\ DOMAIN s = 1 .. n /\ \A i \in 1 .. n : s[i] \in Page
      /\ h = IF n = 0 THEN Null ELSE s[1]
      /\ \A i \in 1 .. n : w[s[i]] = IF i = n THEN Null ELSE s[i + 1]
  BY DEF Linked
<1>2. E = {s[i] : i \in 1 .. n}
  BY <1>1 DEF Elems
<1> HIDE DEF E, n
<1>3. Closed(E, h, w) /\ E \subseteq Page
  <2>1. \A i \in 1 .. n : i # n => i + 1 \in 1 .. n
    BY <1>1
  <2>2. n # 0 => 1 \in 1 .. n
    BY <1>1
  <2> QED
    BY <1>1, <1>2, <2>1, <2>2 DEF Closed
<1>4. ASSUME NEW S \in SUBSET Page, Closed(S, h, w) PROVE E \subseteq S
  <2> DEFINE T == {i \in 1 .. n : s[i] \notin S}
  <2> SUFFICES ASSUME T # {} PROVE FALSE
    BY <1>2
  <2>1. T \subseteq Nat
    BY <1>1
  <2>2. PICK i \in T : \A j \in T : i <= j
    <3> HIDE DEF T
    <3> QED
      BY <2>1, Least
  <2>3. i \in 1 .. n /\ s[i] \notin S /\ s[i] # Null
    BY <1>1, Ranges
  <2>4. i # 1
    BY <1>1, <1>4, <2>3 DEF Closed
  <2>5. i - 1 \in 1 .. n /\ i - 1 # n /\ (i - 1) + 1 = i /\ ~ (i <= i - 1)
    BY <1>1, <2>3, <2>4
  <2>6. s[i - 1] \in S
    BY <2>2, <2>5
  <2>7. w[s[i - 1]] = s[i]
    BY <1>1, <2>5
  <2> QED
    BY <1>4, <2>3, <2>6, <2>7 DEF Closed
<1> QED
  <2>1. E \subseteq Reach(h, w)
    BY <1>3, <1>4 DEF Reach
  <2>2. Reach(h, w) \subseteq E
    BY <1>3 DEF Reach
  <2> QED
    BY <2>1, <2>2 DEF E

(* In the state of the model. *)
LEMMA ReachedIsListed ==
  ASSUME TypeOK, FreeChain, NEW r \in Region
  PROVE  Reached(r) = Listed(r)
<1>1. free[r] \in Seq(Page) /\ Linked(head[r], word, free[r])
  BY DEF TypeOK, FreeChain, Linked
<1>2. Reach(head[r], word) = Elems(free[r])
  BY <1>1, ReachIsList
<1> QED
  BY <1>2 DEF Reach, Elems, Reached, Listed

(* The same of the state after a step. *)
LEMMA ReachedIsListedNext ==
  ASSUME TypeOK', FreeChain', NEW r \in Region
  PROVE  Reached(r)' = Listed(r)'
<1>1. free'[r] \in Seq(Page) /\ Linked(head'[r], word', free'[r])
  BY DEF TypeOK, FreeChain, Linked
<1>2. Reach(head'[r], word') = Elems(free'[r])
  BY <1>1, ReachIsList
<1> QED
  BY <1>2 DEF Reach, Elems, Reached, Listed

(* The memory implements the page pool: the store that unlinks the head takes a
   free page, the store of the new head gives one back, and nothing else, neither
   another hart nor what owners write, changes what the links reach. *)
THEOREM PoolRefinement == Spec => ImplementsPool
<1> DEFINE P == [r \in Region |-> Reached(r)]
<1>1. Init => PP!Init
  <2> SUFFICES ASSUME Init PROVE PP!Init
    OBVIOUS
  <2>1. ASSUME NEW r \in Region PROVE Reached(r) = PagesOf(r)
    <3>1. Listed(r) \subseteq PagesOf(r)
      BY InitInv DEF IInv, Conservation, ListedOnce
    <3>2. PagesOf(r) \subseteq Listed(r)
      BY InitInv, Ranges DEF Init, IInv, Conservation, NoneLost, ListedOnce, Carries
    <3> QED
      BY <3>1, <3>2, InitInv, ReachedIsListed DEF IInv
  <2> QED
    BY <2>1 DEF PP!Init
<1>2. ASSUME IInv, [Next]_vars PROVE [PP!Next]_P
  <2>1. ASSUME NEW r \in Region PROVE Reached(r) = Listed(r) /\ Reached(r)' = Listed(r)'
    BY <1>2, NextInv, ReachedIsListed, ReachedIsListedNext DEF IInv
  <2>2. CASE SameLists
    BY <2>1, <2>2 DEF SameLists
  <2>3. ASSUME NEW r \in Region, NEW p \in Page, Takes(r, p) PROVE PP!Alloc(r)
    BY <2>1, <2>3 DEF PP!Alloc, Takes
  <2>4. ASSUME NEW r \in Region, NEW p \in Page, Puts(r, p) PROVE PP!Free(r)
    <3> DEFINE R == [q \in Region |-> Listed(q)']
    <3>1. P' = R /\ \A q \in Region : P[q] = Listed(q)
      BY <2>1
    <3>2. R = [P EXCEPT ![r] = P[r] \cup {p}]
      BY <2>4, <3>1 DEF Puts
    <3> QED
      BY <2>4, <3>1, <3>2 DEF PP!Free, Puts
  <2> QED
    BY <1>2, <2>2, <2>3, <2>4, NextInv DEF PP!Next
<1> QED
  BY <1>1, <1>2, Invariance, PTL DEF Spec, ImplementsPool, PP!Spec
=============================================================================
