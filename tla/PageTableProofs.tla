-------------------------- MODULE PageTableProofs --------------------------
(* The tables of an address space are a tree, whatever is mapped and unmapped,
   and the tree is a flat map that each call changes exactly as it says, for
   every fanout, number of tables and number of pages. *)
EXTENDS PageTable, TLAPS

-----------------------------------------------------------------------------
(* Virtual page numbers *)

LEMMA DivMod ==
  ASSUME NEW P \in Nat \ {0}, NEW a \in Nat
  PROVE  a \div P \in Nat /\ (a % P) \in 0 .. P - 1 /\ a = P * (a \div P) + (a % P)
  OBVIOUS

LEMMA DivUnique ==
  ASSUME NEW P \in Nat \ {0}, NEW q \in Int, NEW r \in 0 .. P - 1
  PROVE  (P * q + r) \div P = q /\ (P * q + r) % P = r
  OBVIOUS

LEMMA DivLess ==
  ASSUME NEW P \in Nat \ {0}, NEW a \in Nat, NEW N \in Nat, a < N * P
  PROVE  a \div P < N
  OBVIOUS

LEMMA SmallMod ==
  ASSUME NEW P \in Nat \ {0}, NEW a \in Nat, a < P
  PROVE  a % P = a
  OBVIOUS

LEMMA DivDiv ==
  ASSUME NEW P \in Nat \ {0}, NEW a \in Nat
  PROVE  P * P \in Nat \ {0} /\ a \div (P * P) = (a \div P) \div P
<1> DEFINE q == a \div P
           r == a % P
           b == q \div P
           c == q % P
<1>1. q \in Nat /\ r \in 0 .. P - 1 /\ a = P * q + r
  BY DivMod
<1>2. b \in Nat /\ c \in 0 .. P - 1 /\ q = P * b + c
  BY <1>1, DivMod
<1> HIDE DEF q, r, b, c
<1>3. P * P \in Nat \ {0}
  OBVIOUS
<1>4. P * c + r \in 0 .. P * P - 1
  <2>1. c \in Nat /\ c <= P - 1 /\ r \in Nat /\ r <= P - 1
    BY <1>1, <1>2
  <2>2. P * c \in Nat /\ P * c <= P * (P - 1)
    BY <2>1
  <2>3. P * (P - 1) = P * P - P
    OBVIOUS
  <2> QED
    BY <1>3, <2>1, <2>2, <2>3
<1>5. a = (P * P) * b + (P * c + r)
  <2>1. P * (P * b + c) = (P * P) * b + P * c
    BY <1>2
  <2> QED
    BY <1>1, <1>2, <2>1
<1> DEFINE PP == P * P
           d == P * c + r
<1>6. PP \in Nat \ {0} /\ d \in 0 .. PP - 1 /\ a = PP * b + d
  BY <1>3, <1>4, <1>5
<1> HIDE DEF PP, d
<1>7. (PP * b + d) \div PP = b
  BY <1>2, <1>6, DivUnique
<1>8. a \div PP = b
  BY <1>6, <1>7
<1> QED
  BY <1>3, <1>8 DEF PP, b, q

LEMMA Sizes ==
  /\ Fanout \in Nat \ {0} /\ VA_MAX \in Nat /\ VA_MAX <= Fanout * Fanout * Fanout
  /\ Root \in Table /\ Invalid \notin Table /\ Invalid \notin PPage
  /\ PPage \subseteq Nat /\ PPage # {} /\ Table \cap PPage = {}
<1>1. Fanout \in Nat \ {0} /\ VA_MAX \in 1 .. Fanout * Fanout * Fanout
  BY SizeAssumption
<1>2. Fanout * Fanout * Fanout \in Nat
  BY <1>1
<1>3. VA_MAX \in Nat /\ VA_MAX <= Fanout * Fanout * Fanout
  BY <1>1, <1>2
<1> QED
  BY <1>1, <1>3, SizeAssumption

(* A page has a slot at each level, and no other page has the same three. *)
LEMMA Slots ==
  ASSUME NEW v \in VPage, NEW l \in 0 .. 2
  PROVE  VA_TO_VPN(v, l) \in Slot
<1>1. Fanout \in Nat \ {0} /\ v \in Nat
  BY Sizes DEF VPage
<1>2. /\ v % Fanout \in Slot /\ v \div Fanout \in Nat
      /\ (v \div Fanout) % Fanout \in Slot /\ (v \div Fanout) \div Fanout \in Nat
      /\ ((v \div Fanout) \div Fanout) % Fanout \in Slot
  BY <1>1, DivMod DEF Slot
<1>3. v \div (Fanout * Fanout) = (v \div Fanout) \div Fanout
  BY <1>1, DivDiv
<1>4. l = 0 \/ l = 1 \/ l = 2
  OBVIOUS
<1> QED
  BY <1>2, <1>3, <1>4 DEF VA_TO_VPN

LEMMA SlotsDiffer ==
  ASSUME NEW v \in VPage, NEW w \in VPage,
         \A l \in 0 .. 2 : VA_TO_VPN(v, l) = VA_TO_VPN(w, l)
  PROVE  v = w
<1> DEFINE F == Fanout
<1>1. F \in Nat \ {0} /\ v \in Nat /\ w \in Nat /\ v < F * F * F /\ w < F * F * F
  <2>1. Fanout * Fanout * Fanout \in Nat
    BY Sizes
  <2> QED
    BY <2>1, Sizes DEF VPage
<1>2. /\ v % F = w % F /\ (v \div F) % F = (w \div F) % F
      /\ (v \div (F * F)) % F = (w \div (F * F)) % F
  <2>1. VA_TO_VPN(v, 0) = VA_TO_VPN(w, 0)
    OBVIOUS
  <2>2. VA_TO_VPN(v, 1) = VA_TO_VPN(w, 1)
    OBVIOUS
  <2>3. VA_TO_VPN(v, 2) = VA_TO_VPN(w, 2)
    OBVIOUS
  <2> QED
    BY <2>1, <2>2, <2>3 DEF VA_TO_VPN
<1> HIDE DEF F
<1>3. ASSUME NEW x \in Nat, x < F * F * F
      PROVE  /\ x \div F \in Nat /\ (x \div F) \div F \in Nat
             /\ x = F * (x \div F) + (x % F)
             /\ x \div F = F * ((x \div F) \div F) + ((x \div F) % F)
             /\ (x \div F) \div F = (x \div (F * F)) % F
  <2>1. x \div F \in Nat /\ x = F * (x \div F) + (x % F)
    BY <1>1, DivMod
  <2>2. (x \div F) \div F \in Nat /\ x \div F = F * ((x \div F) \div F) + ((x \div F) % F)
    BY <1>1, <2>1, DivMod
  <2>3. x \div F < F * F
    <3>1. F * F \in Nat
      BY <1>1
    <3> QED
      BY <1>1, <1>3, <3>1, DivLess
  <2>4. (x \div F) \div F < F
    BY <1>1, <2>1, <2>3, DivLess
  <2>5. ((x \div F) \div F) % F = (x \div F) \div F
    BY <1>1, <2>2, <2>4, SmallMod
  <2>6. x \div (F * F) = (x \div F) \div F
    BY <1>1, DivDiv
  <2> QED
    BY <2>1, <2>2, <2>5, <2>6
<1>4. (v \div F) \div F = (w \div F) \div F
  BY <1>1, <1>2, <1>3
<1>5. v \div F = w \div F
  BY <1>1, <1>2, <1>3, <1>4
<1> QED
  BY <1>1, <1>2, <1>3, <1>5

-----------------------------------------------------------------------------
(* Trees of tables *)

Typed(E) == E \in [Table -> [Slot -> Table \cup PPage \cup {Invalid}]]
Mid(E) == {t \in Table : \E i \in Slot : E[Root][i] = t}                 \* of level 1
Low(E) == {t \in Table : \E u \in Mid(E), i \in Slot : E[u][i] = t}      \* of level 0
Upper(E) == {Root} \cup Mid(E)

Good(E) ==
  /\ Typed(E)
  /\ \A t \in Upper(E), i \in Slot : E[t][i] \in Table \cup {Invalid}
  /\ \A t \in Low(E), i \in Slot : E[t][i] \in PPage \cup {Invalid}
  /\ Root \notin Mid(E) \cup Low(E)
  /\ \A t, u \in Upper(E), i, j \in Slot :
       E[t][i] = E[u][j] /\ E[t][i] \in Table => t = u /\ i = j

(* Two steps of the walk, and the end of it. *)
T1(E, v) == E[Root][VA_TO_VPN(v, 2)]
T0(E, v) == IF T1(E, v) \in Table THEN E[T1(E, v)][VA_TO_VPN(v, 1)] ELSE Invalid
LeafOf(E, v) == IF T0(E, v) \in Table THEN E[T0(E, v)][VA_TO_VPN(v, 0)] ELSE Invalid
Look(E, v) == IF LeafOf(E, v) \in PPage THEN LeafOf(E, v) ELSE Nowhere

LEMMA TablesApart ==
  ASSUME NEW E, Good(E)
  PROVE  /\ Root \in Table /\ Mid(E) \subseteq Table /\ Low(E) \subseteq Table
         /\ Root \notin Mid(E) /\ Root \notin Low(E) /\ Mid(E) \cap Low(E) = {}
<1>1. ASSUME NEW t, t \in Mid(E), t \in Low(E) PROVE FALSE
  <2>1. PICK i \in Slot : E[Root][i] = t
    BY <1>1 DEF Mid
  <2>2. PICK u \in Mid(E), j \in Slot : E[u][j] = t
    BY <1>1 DEF Low
  <2>3. t \in Table
    BY <1>1 DEF Mid
  <2>4. Root = u
    BY <2>1, <2>2, <2>3 DEF Good, Upper
  <2> QED
    BY <2>2, <2>4 DEF Good
<1> QED
  BY <1>1, Sizes DEF Good, Mid, Low

(* The walk of a page goes from the root through a table of level 1 to one of
   level 0, as far as they are there. *)
LEMMA Path ==
  ASSUME NEW E, Good(E), NEW v \in VPage
  PROVE  /\ T1(E, v) \in Mid(E) \cup {Invalid} /\ T0(E, v) \in Low(E) \cup {Invalid}
         /\ T1(E, v) \in Table <=> T1(E, v) \in Mid(E)
         /\ T0(E, v) \in Table <=> T0(E, v) \in Low(E)
<1>1. VA_TO_VPN(v, 2) \in Slot /\ VA_TO_VPN(v, 1) \in Slot
  BY Slots
<1>2. T1(E, v) \in Mid(E) \cup {Invalid}
  <2>1. E[Root][VA_TO_VPN(v, 2)] \in Table \cup {Invalid}
    BY <1>1 DEF Good, Upper
  <2> QED
    BY <1>1, <2>1 DEF T1, Mid
<1>3. T1(E, v) \in Table <=> T1(E, v) \in Mid(E)
  BY <1>2, Sizes, TablesApart
<1>4. T0(E, v) \in Low(E) \cup {Invalid}
  <2>1. CASE T1(E, v) \in Mid(E)
    <3>1. E[T1(E, v)][VA_TO_VPN(v, 1)] \in Table \cup {Invalid}
      BY <1>1, <2>1 DEF Good, Upper
    <3>2. T0(E, v) = E[T1(E, v)][VA_TO_VPN(v, 1)]
      BY <1>3, <2>1 DEF T0
    <3> QED
      BY <1>1, <2>1, <3>1, <3>2 DEF Low
  <2>2. CASE T1(E, v) \notin Mid(E)
    BY <1>3, <2>2 DEF T0
  <2> QED
    BY <2>1, <2>2
<1>5. T0(E, v) \in Table <=> T0(E, v) \in Low(E)
  BY <1>4, Sizes, TablesApart
<1> QED
  BY <1>2, <1>3, <1>4, <1>5

(* Two pages meet in a table only if they come to it the same way. *)
LEMMA SameTable ==
  ASSUME NEW E, Good(E), NEW v \in VPage, NEW w \in VPage,
         T0(E, v) \in Table, T0(E, w) = T0(E, v)
  PROVE  VA_TO_VPN(v, 1) = VA_TO_VPN(w, 1) /\ VA_TO_VPN(v, 2) = VA_TO_VPN(w, 2)
<1>1. /\ VA_TO_VPN(v, 2) \in Slot /\ VA_TO_VPN(v, 1) \in Slot
      /\ VA_TO_VPN(w, 2) \in Slot /\ VA_TO_VPN(w, 1) \in Slot
  BY Slots
<1>2. T1(E, v) \in Table /\ T1(E, w) \in Table
  BY Sizes DEF T0
<1>3. T1(E, v) \in Mid(E) /\ T1(E, w) \in Mid(E)
  BY <1>2, Path
<1>4. E[T1(E, v)][VA_TO_VPN(v, 1)] = E[T1(E, w)][VA_TO_VPN(w, 1)]
      /\ E[T1(E, v)][VA_TO_VPN(v, 1)] \in Table
  BY <1>2 DEF T0
<1>5. T1(E, v) = T1(E, w) /\ VA_TO_VPN(v, 1) = VA_TO_VPN(w, 1)
  BY <1>1, <1>3, <1>4 DEF Good, Upper
<1>6. VA_TO_VPN(v, 2) = VA_TO_VPN(w, 2)
  BY <1>1, <1>2, <1>5 DEF Good, Upper, T1
<1> QED
  BY <1>5, <1>6

(* What the write of an entry, and the hanging in of an empty table, make of E. *)
Written(G, E, p, s, e) == /\ Typed(G) /\ G[p][s] = e
                          /\ \A x \in Table, i \in Slot : ~ (x = p /\ i = s) => G[x][i] = E[x][i]
Hung(G, E, p, s, t) == /\ Typed(G) /\ G[p][s] = t
                       /\ \A i \in Slot : G[t][i] = Invalid
                       /\ \A x \in Table \ {t}, i \in Slot :
                            ~ (x = p /\ i = s) => G[x][i] = E[x][i]

LEMMA ExceptHung ==
  ASSUME NEW E, Typed(E), NEW p \in Table, NEW s \in Slot, NEW t \in Table, t # p,
         NEW G, G = [E EXCEPT ![p][s] = t, ![t] = Empty]
  PROVE  Hung(G, E, p, s, t)
<1>1. Empty \in [Slot -> Table \cup PPage \cup {Invalid}] /\ \A i \in Slot : Empty[i] = Invalid
  BY DEF Empty
<1>2. E[p] \in [Slot -> Table \cup PPage \cup {Invalid}]
  BY DEF Typed
<1> DEFINE row == [E[p] EXCEPT ![s] = t]
<1>3. row \in [Slot -> Table \cup PPage \cup {Invalid}]
  BY <1>2
<1>4. row[s] = t /\ \A i \in Slot : i # s => row[i] = E[p][i]
  BY <1>2
<1>5. G \in [Table -> [Slot -> Table \cup PPage \cup {Invalid}]]
      /\ \A x \in Table : G[x] = IF x = t THEN Empty ELSE IF x = p THEN row ELSE E[x]
  BY <1>1, <1>3 DEF Typed
<1> HIDE DEF row
<1> QED
  BY <1>1, <1>4, <1>5, ZenonT(30) DEF Hung, Typed

LEMMA ExceptWritten ==
  ASSUME NEW E, Typed(E), NEW p \in Table, NEW s \in Slot, NEW e \in Table \cup PPage \cup {Invalid},
         NEW G, G = [E EXCEPT ![p][s] = e]
  PROVE  Written(G, E, p, s, e)
BY DEF Written, Typed

(* An empty table is hung into an empty slot of the root: nothing else changes. *)
LEMMA HangMid ==
  ASSUME NEW E, Good(E), NEW s \in Slot, E[Root][s] = Invalid,
         NEW t \in Table, t \notin Upper(E) \cup Low(E),
         NEW G, Hung(G, E, Root, s, t)
  PROVE  /\ Good(G) /\ Mid(G) = Mid(E) \cup {t} /\ Low(G) = Low(E)
         /\ \A v \in VPage : Look(G, v) = Look(E, v)
<1>1. t # Root /\ t \notin Mid(E) /\ t \notin Low(E) /\ t # Invalid
  BY Sizes DEF Upper
<1>2. /\ Typed(G) /\ G[Root][s] = t /\ \A i \in Slot : G[t][i] = Invalid
      /\ \A x \in Table \ {t}, i \in Slot : ~ (x = Root /\ i = s) => G[x][i] = E[x][i]
  BY DEF Hung
<1>3. Root \in Table /\ Mid(E) \subseteq Table /\ Low(E) \subseteq Table /\ Root \notin Mid(E)
      /\ Root \notin Low(E)
  BY TablesApart
<1>4. Mid(G) = Mid(E) \cup {t}
  <2>1. ASSUME NEW x \in Mid(G) PROVE x \in Mid(E) \cup {t}
    BY <1>1, <1>2, <1>3 DEF Mid
  <2>2. ASSUME NEW x \in Mid(E) PROVE x \in Mid(G)
    <3>1. PICK i \in Slot : E[Root][i] = x
      BY DEF Mid
    <3>2. i # s
      BY <3>1, <1>3, Sizes
    <3> QED
      BY <1>1, <1>2, <1>3, <3>1, <3>2 DEF Mid
  <2>3. t \in Mid(G)
    BY <1>1, <1>2, <1>3 DEF Mid
  <2> QED
    BY <2>1, <2>2, <2>3
<1>5. \A u \in Mid(E), i \in Slot : G[u][i] = E[u][i]
  BY <1>1, <1>2, <1>3
<1>6. Low(G) = Low(E)
  <2>1. ASSUME NEW x \in Low(G) PROVE x \in Low(E)
    <3>1. PICK u \in Mid(G), i \in Slot : G[u][i] = x
      BY DEF Low
    <3>2. x \in Table /\ x # Invalid
      BY Sizes DEF Low
    <3>3. u # t
      BY <1>2, <3>1, <3>2
    <3> QED
      BY <1>4, <1>5, <3>1, <3>2, <3>3 DEF Low
  <2>2. ASSUME NEW x \in Low(E) PROVE x \in Low(G)
    BY <1>4, <1>5 DEF Low
  <2> QED
    BY <2>1, <2>2
<1>7. Good(G)
  <2>1. ASSUME NEW x \in Upper(G), NEW i \in Slot PROVE G[x][i] \in Table \cup {Invalid}
    BY <1>2, <1>3, <1>4 DEF Good, Upper
  <2>2. ASSUME NEW x \in Low(G), NEW i \in Slot PROVE G[x][i] \in PPage \cup {Invalid}
    BY <1>1, <1>2, <1>3, <1>6 DEF Good
  <2>3. Root \notin Mid(G) \cup Low(G)
    BY <1>1, <1>3, <1>4, <1>6
  <2>4. ASSUME NEW x \in Upper(G), NEW y \in Upper(G), NEW i \in Slot, NEW j \in Slot,
               G[x][i] = G[y][j], G[x][i] \in Table
        PROVE  x = y /\ i = j
    <3>1. x # t /\ y # t /\ x \in Upper(E) /\ y \in Upper(E) /\ x \in Table /\ y \in Table
      BY <1>2, <1>3, <1>4, <2>4, Sizes DEF Upper
    <3>2. ASSUME NEW z \in Upper(E), NEW k \in Slot PROVE E[z][k] # t
      BY <1>1, <1>3, Sizes DEF Upper, Mid, Low
    <3>3. CASE x = Root /\ i = s
      BY <1>2, <2>4, <3>1, <3>2, <3>3
    <3>4. CASE y = Root /\ j = s
      BY <1>2, <2>4, <3>1, <3>2, <3>4
    <3>5. CASE ~ (x = Root /\ i = s) /\ ~ (y = Root /\ j = s)
      BY <1>2, <2>4, <3>1, <3>5 DEF Good
    <3> QED
      BY <3>3, <3>4, <3>5
  <2> QED
    BY <1>2, <2>1, <2>2, <2>3, <2>4 DEF Good
<1>8. ASSUME NEW v \in VPage PROVE Look(G, v) = Look(E, v)
  <2>1. VA_TO_VPN(v, 2) \in Slot /\ VA_TO_VPN(v, 1) \in Slot /\ VA_TO_VPN(v, 0) \in Slot
    BY Slots
  <2>2. CASE VA_TO_VPN(v, 2) = s
    <3>1. T1(G, v) = t /\ T1(E, v) = Invalid
      BY <1>1, <1>2, <1>3, <2>2 DEF T1
    <3>2. T0(G, v) = Invalid /\ T0(E, v) = Invalid
      BY <1>2, <2>1, <3>1, Sizes DEF T0
    <3> QED
      BY <3>2, Sizes DEF Look, LeafOf
  <2>3. CASE VA_TO_VPN(v, 2) # s
    <3>1. T1(G, v) = T1(E, v)
      BY <1>1, <1>2, <1>3, <2>1, <2>3 DEF T1
    <3>2. T0(G, v) = T0(E, v)
      BY <1>5, <2>1, <3>1, Path DEF T0
    <3>3. LeafOf(G, v) = LeafOf(E, v)
      BY <1>1, <1>2, <1>3, <2>1, <3>2, Path DEF LeafOf
    <3> QED
      BY <3>3 DEF Look
  <2> QED
    BY <2>2, <2>3
<1> QED
  BY <1>4, <1>6, <1>7, <1>8

(* The same into an empty slot of a table of level 1. *)
LEMMA HangLow ==
  ASSUME NEW E, Good(E), NEW p \in Mid(E), NEW s \in Slot, E[p][s] = Invalid,
         NEW t \in Table, t \notin Upper(E) \cup Low(E),
         NEW G, Hung(G, E, p, s, t)
  PROVE  /\ Good(G) /\ Mid(G) = Mid(E) /\ Low(G) = Low(E) \cup {t}
         /\ \A v \in VPage : Look(G, v) = Look(E, v)
<1>1. t # Root /\ t \notin Mid(E) /\ t \notin Low(E) /\ t # Invalid /\ t # p
  BY Sizes DEF Upper
<1>3. Root \in Table /\ Mid(E) \subseteq Table /\ Low(E) \subseteq Table /\ Root \notin Mid(E)
      /\ Root \notin Low(E) /\ p \in Table /\ p # Root /\ Mid(E) \cap Low(E) = {}
  BY TablesApart
<1>2. /\ Typed(G) /\ G[p][s] = t /\ \A i \in Slot : G[t][i] = Invalid
      /\ \A x \in Table \ {t}, i \in Slot : ~ (x = p /\ i = s) => G[x][i] = E[x][i]
  BY DEF Hung
<1>4. \A i \in Slot : G[Root][i] = E[Root][i]
  BY <1>1, <1>2, <1>3
<1>5. Mid(G) = Mid(E)
  BY <1>4 DEF Mid
<1>6. Low(G) = Low(E) \cup {t}
  <2>1. ASSUME NEW x \in Low(G) PROVE x \in Low(E) \cup {t}
    BY <1>1, <1>2, <1>3, <1>5 DEF Low
  <2>2. ASSUME NEW x \in Low(E) PROVE x \in Low(G)
    <3>1. PICK u \in Mid(E), i \in Slot : E[u][i] = x
      BY DEF Low
    <3>2. ~ (u = p /\ i = s) /\ u # t
      BY <1>1, <3>1, <1>3, Sizes
    <3>3. G[u][i] = x
      BY <1>2, <1>3, <3>1, <3>2
    <3> QED
      BY <1>3, <1>5, <3>1, <3>3 DEF Low
  <2>3. t \in Low(G)
    BY <1>1, <1>2, <1>3, <1>5 DEF Low
  <2> QED
    BY <2>1, <2>2, <2>3
<1>7. Good(G)
  <2>1. ASSUME NEW x \in Upper(G), NEW i \in Slot PROVE G[x][i] \in Table \cup {Invalid}
    BY <1>2, <1>3, <1>5 DEF Good, Upper
  <2>2. ASSUME NEW x \in Low(G), NEW i \in Slot PROVE G[x][i] \in PPage \cup {Invalid}
    BY <1>1, <1>2, <1>3, <1>6 DEF Good
  <2>3. Root \notin Mid(G) \cup Low(G)
    BY <1>1, <1>3, <1>5, <1>6
  <2>4. ASSUME NEW x \in Upper(G), NEW y \in Upper(G), NEW i \in Slot, NEW j \in Slot,
               G[x][i] = G[y][j], G[x][i] \in Table
        PROVE  x = y /\ i = j
    <3>1. x # t /\ y # t /\ x \in Upper(E) /\ y \in Upper(E) /\ x \in Table /\ y \in Table
      BY <1>1, <1>3, <1>5 DEF Upper
    <3>2. ASSUME NEW z \in Upper(E), NEW k \in Slot PROVE E[z][k] # t
      BY <1>1, <1>3, Sizes DEF Upper, Mid, Low
    <3>3. CASE x = p /\ i = s
      BY <1>2, <2>4, <3>1, <3>2, <3>3
    <3>4. CASE y = p /\ j = s
      BY <1>2, <2>4, <3>1, <3>2, <3>4
    <3>5. CASE ~ (x = p /\ i = s) /\ ~ (y = p /\ j = s)
      BY <1>2, <2>4, <3>1, <3>5 DEF Good
    <3> QED
      BY <3>3, <3>4, <3>5
  <2> QED
    BY <1>2, <2>1, <2>2, <2>3, <2>4 DEF Good
<1>8. ASSUME NEW v \in VPage PROVE Look(G, v) = Look(E, v)
  <2>1. VA_TO_VPN(v, 2) \in Slot /\ VA_TO_VPN(v, 1) \in Slot /\ VA_TO_VPN(v, 0) \in Slot
    BY Slots
  <2>2. T1(G, v) = T1(E, v) /\ (T1(E, v) \in Table => T1(E, v) \in Mid(E) /\ T1(E, v) # t)
    BY <1>1, <1>4, <2>1, Path DEF T1
  <2>3. CASE T1(E, v) = p /\ VA_TO_VPN(v, 1) = s
    <3>1. T0(G, v) = t /\ T0(E, v) = Invalid
      BY <1>1, <1>2, <1>3, <2>2, <2>3 DEF T0
    <3>2. LeafOf(G, v) = Invalid /\ LeafOf(E, v) = Invalid
      BY <1>2, <2>1, <3>1, Sizes DEF LeafOf
    <3> QED
      BY <3>2, Sizes DEF Look
  <2>4. CASE ~ (T1(E, v) = p /\ VA_TO_VPN(v, 1) = s)
    <3>1. T0(G, v) = T0(E, v)
      BY <1>2, <2>1, <2>2, <2>4 DEF T0
    <3>2. T0(E, v) \in Table => T0(E, v) # t /\ T0(E, v) # p
      BY <1>1, <1>3, Path
    <3>3. LeafOf(G, v) = LeafOf(E, v)
      BY <1>2, <2>1, <3>1, <3>2 DEF LeafOf
    <3> QED
      BY <3>3 DEF Look
  <2> QED
    BY <2>3, <2>4
<1> QED
  BY <1>5, <1>6, <1>7, <1>8

(* The slot of a page in its table of level 0 is written: the tree stays, and so
   does the translation of every other page. *)
LEMMA WriteLeaf ==
  ASSUME NEW E, Good(E), NEW v \in VPage, T0(E, v) \in Table,
         NEW e \in PPage \cup {Invalid},
         NEW G, Written(G, E, T0(E, v), VA_TO_VPN(v, 0), e)
  PROVE  /\ Good(G) /\ Mid(G) = Mid(E) /\ Low(G) = Low(E)
         /\ Look(G, v) = IF e \in PPage THEN e ELSE Nowhere
         /\ \A w \in VPage : w # v => Look(G, w) = Look(E, w)
<1> DEFINE p == T0(E, v)
           s == VA_TO_VPN(v, 0)
<1>1. p \in Low(E) /\ s \in Slot /\ p \in Table
  BY Path, Slots
<1>2. Root \in Table /\ Mid(E) \subseteq Table /\ Low(E) \subseteq Table /\ Root \notin Mid(E)
      /\ Root \notin Low(E) /\ Mid(E) \cap Low(E) = {}
  BY TablesApart
<1> HIDE DEF p, s
<1>3. /\ Typed(G) /\ G[p][s] = e
      /\ \A x \in Table, i \in Slot : ~ (x = p /\ i = s) => G[x][i] = E[x][i]
  BY DEF Written, p, s
<1>4. \A x \in Upper(E), i \in Slot : G[x][i] = E[x][i]
  BY <1>1, <1>2, <1>3 DEF Upper
<1>5. Mid(G) = Mid(E)
  BY <1>4 DEF Mid, Upper
<1>6. Low(G) = Low(E) /\ Upper(G) = Upper(E)
  BY <1>4, <1>5 DEF Low, Upper
<1>7. Good(G)
  <2>1. \A x \in Low(G), i \in Slot : G[x][i] \in PPage \cup {Invalid}
    BY <1>2, <1>3, <1>6 DEF Good
  <2> QED
    BY <1>3, <1>4, <1>5, <1>6, <2>1 DEF Good
<1>8. ASSUME NEW w \in VPage PROVE T1(G, w) = T1(E, w) /\ T0(G, w) = T0(E, w)
  <2>1. VA_TO_VPN(w, 2) \in Slot /\ VA_TO_VPN(w, 1) \in Slot
    BY Slots
  <2>2. T1(G, w) = T1(E, w)
    BY <1>4, <2>1 DEF T1, Upper
  <2>3. T1(E, w) \in Table => T1(E, w) \in Upper(E)
    BY Path DEF Upper
  <2> QED
    BY <1>4, <2>1, <2>2, <2>3 DEF T0
<1>9. Look(G, v) = IF e \in PPage THEN e ELSE Nowhere
  <2>1. LeafOf(G, v) = e
    BY <1>1, <1>3, <1>8 DEF LeafOf, p, s
  <2> QED
    BY <2>1 DEF Look
<1>10. ASSUME NEW w \in VPage, w # v PROVE Look(G, w) = Look(E, w)
  <2>1. VA_TO_VPN(w, 0) \in Slot
    BY Slots
  <2>2. ~ (T0(E, w) = p /\ VA_TO_VPN(w, 0) = s)
    <3>1. SUFFICES ASSUME T0(E, w) = p, VA_TO_VPN(w, 0) = s PROVE FALSE
      OBVIOUS
    <3>2. VA_TO_VPN(v, 1) = VA_TO_VPN(w, 1) /\ VA_TO_VPN(v, 2) = VA_TO_VPN(w, 2)
      BY <3>1, SameTable DEF p
    <3>3. \A l \in 0 .. 2 : VA_TO_VPN(v, l) = VA_TO_VPN(w, l)
      <4>1. ASSUME NEW l \in 0 .. 2 PROVE l = 0 \/ l = 1 \/ l = 2
        OBVIOUS
      <4> QED
        BY <3>1, <3>2, <4>1 DEF s
    <3> QED
      BY <1>10, <3>3, SlotsDiffer
  <2>3. LeafOf(G, w) = LeafOf(E, w)
    BY <1>3, <1>8, <2>1, <2>2 DEF LeafOf
  <2> QED
    BY <2>3 DEF Look
<1> QED
  BY <1>5, <1>6, <1>7, <1>9, <1>10

-----------------------------------------------------------------------------
(* The invariant: the tree; the free tables; and where the walk is, namely on the
   path of curr_va, in a block of which all pages are to be mapped to physical
   pages. *)
Walk == pc = "walk" =>
          /\ level = 2 => pgtbl = Root
          /\ level = 1 => T1(entry, curr_va) = pgtbl
          /\ level = 0 => T0(entry, curr_va) = pgtbl
          /\ curr_va < end_va
          /\ op = "map" => curr_pa .. curr_pa + (end_va - curr_va) - 1 \subseteq PPage
FreeTables == free = IF pc = "destroyed" THEN Table ELSE Table \ (Upper(entry) \cup Low(entry))
IInv == TypeOK /\ Good(entry) /\ FreeTables /\ Walk

LEMMA Names ==
  /\ Below({Root}) = Mid(entry) /\ Below(Below({Root})) = Low(entry)
  /\ Below({Root} \cup Mid(entry)) = Mid(entry) \cup Low(entry)
  /\ \A v : Lookup(v) = Look(entry, v)
<1>1. \A t : Children(t) = {x \in Table : \E i \in Slot : entry[t][i] = x}
  BY DEF Children
<1>2. \A S : Below(S) = {x \in Table : \E t \in S : \E i \in Slot : entry[t][i] = x}
  BY <1>1 DEF Below
<1>3. Below({Root}) = Mid(entry)
  BY <1>2 DEF Mid
<1>4. Below(Mid(entry)) = Low(entry)
  BY <1>2 DEF Low
<1>5. Below({Root} \cup Mid(entry)) = Mid(entry) \cup Low(entry)
  BY <1>2 DEF Mid, Low
<1>6. ASSUME NEW v PROVE Lookup(v) = Look(entry, v)
  BY DEF Lookup, Look, LeafOf, T0, T1
<1> QED
  BY <1>3, <1>4, <1>5, <1>6

LEMMA InvTree == IInv => TreeShape
<1> SUFFICES ASSUME IInv PROVE TreeShape
  OBVIOUS
<1>1. Tree = Upper(entry) \cup Low(entry) /\ Upper(entry) = {Root} \cup Below({Root})
      /\ Low(entry) = Below(Below({Root})) /\ Below(Upper(entry)) = Mid(entry) \cup Low(entry)
  BY Names DEF Tree, Upper
<1> QED
  BY <1>1 DEF IInv, Good, FreeTables, TreeShape

(* Before a page has a table, it is not mapped. *)
LEMMA NotMapped ==
  ASSUME NEW E, NEW v, T0(E, v) \notin Table
  PROVE  Look(E, v) = Nowhere
BY Sizes DEF Look, LeafOf

LEMMA InitInv == Init => IInv /\ \A v \in VPage : Look(entry, v) = Nowhere
<1> SUFFICES ASSUME Init PROVE IInv /\ \A v \in VPage : Look(entry, v) = Nowhere
  OBVIOUS
<1>1. Junk \in [Slot -> Table \cup PPage \cup {Invalid}]
  BY Sizes DEF Junk
<1>2. Empty \in [Slot -> Table \cup PPage \cup {Invalid}] /\ \A i \in Slot : Empty[i] = Invalid
  BY DEF Empty
<1>3. Typed(entry) /\ entry[Root] = Empty
  BY <1>1, <1>2, Sizes DEF Init, Typed
<1>4. Mid(entry) = {}
  BY <1>2, <1>3, Sizes DEF Mid
<1>5. Low(entry) = {}
  BY <1>4 DEF Low
<1>6. Good(entry)
  <2>1. \A i \in Slot : entry[Root][i] = Invalid
    BY <1>2, <1>3
  <2> QED
    BY <1>3, <1>4, <1>5, <2>1, Sizes DEF Good, Upper
<1>7. 0 \in VPage
  BY SizeAssumption, Sizes DEF VPage
<1>8. TypeOK
  BY <1>3, <1>7, Sizes DEF Init, TypeOK, Typed
<1>9. FreeTables /\ Walk
  BY <1>4, <1>5 DEF Init, FreeTables, Upper, Walk
<1>10. ASSUME NEW v \in VPage PROVE Look(entry, v) = Nowhere
  BY <1>6, <1>4, <1>5, Path, NotMapped, Sizes
<1> QED
  BY <1>6, <1>8, <1>9, <1>10 DEF IInv

(* What a step may do to the translations. *)
Effect == /\ \A v \in VPage : v # curr_va => Look(entry', v) = Look(entry, v)
          /\ pc # "walk" \/ pc' \notin {"idle", "walk"} \/ (pc' = "walk" /\ curr_va' = curr_va)
               => Look(entry', curr_va) = Look(entry, curr_va)
          /\ pc = "walk" /\ (pc' = "idle" \/ (pc' = "walk" /\ curr_va' # curr_va)) =>
               Look(entry', curr_va) = IF op = "map" THEN curr_pa ELSE Nowhere

LEMMA CallStep ==
  ASSUME IInv, NEW va \in VPage, NEW n \in 1 .. MaxLen,
         \/ Call("unmap", va, n, 0)
         \/ \E pa \in PPage : pa .. pa + n - 1 \subseteq PPage /\ Call("map", va, n, pa)
  PROVE  IInv' /\ Effect
<1>1. n \in Nat /\ va \in Nat /\ VA_MAX \in Nat
  BY Sizes, SizeAssumption DEF VPage
<1>2. \E o \in {"map", "unmap"}, pa \in Nat : /\ Call(o, va, n, pa)
                                              /\ o = "map" => pa .. pa + n - 1 \subseteq PPage
  <2>1. CASE Call("unmap", va, n, 0)
    BY <2>1
  <2>2. CASE \E pa \in PPage : pa .. pa + n - 1 \subseteq PPage /\ Call("map", va, n, pa)
    BY <2>2, Sizes
  <2> QED
    BY <2>1, <2>2
<1>3. PICK o \in {"map", "unmap"}, pa \in Nat : /\ Call(o, va, n, pa)
                                                /\ o = "map" => pa .. pa + n - 1 \subseteq PPage
  BY <1>2
<1>4. /\ pc = "idle" /\ pc' = "walk" /\ va + n <= VA_MAX /\ n > 0
      /\ op' = o /\ curr_va' = va /\ end_va' = va + n /\ curr_pa' = pa
      /\ level' = 2 /\ pgtbl' = Root /\ entry' = entry /\ free' = free
  BY <1>3 DEF Call
<1>5. end_va' \in 0 .. VA_MAX /\ curr_va' < end_va' /\ end_va' - curr_va' = n
  BY <1>1, <1>4
<1>6. TypeOK'
  BY <1>4, <1>5, Sizes DEF IInv, TypeOK
<1>7. Walk'
  <2>1. o = "map" => curr_pa' .. curr_pa' + (end_va' - curr_va') - 1 \subseteq PPage
    BY <1>3, <1>4, <1>5
  <2> QED
    BY <1>4, <1>5, <2>1 DEF Walk
<1>8. Good(entry)' /\ FreeTables'
  BY <1>4 DEF IInv, FreeTables
<1> QED
  BY <1>4, <1>6, <1>7, <1>8 DEF IInv, Effect

(* The walk goes on to the next page of the block, or the call is over. *)
LEMMA NextPageStep ==
  ASSUME IInv, pc = "walk", NextPage, op' = op, free' = free, Good(entry')
  PROVE  /\ TypeOK' /\ Walk' /\ pc' \in {"idle", "walk"}
         /\ pc' = "walk" => curr_va' # curr_va
<1>1. /\ level' = 2 /\ pgtbl' = Root
      /\ curr_va \in Nat /\ end_va \in Nat /\ curr_pa \in Nat /\ VA_MAX \in Nat
      /\ curr_va < end_va /\ end_va <= VA_MAX /\ pc = "walk"
      /\ entry' \in [Table -> [Slot -> Table \cup PPage \cup {Invalid}]]
  BY Sizes DEF IInv, TypeOK, Walk, VPage, NextPage, Good, Typed
<1>2. CASE curr_va + 1 = end_va
  <2>1. pc' = "idle" /\ curr_va' = 0 /\ curr_pa' = 0 /\ end_va' = 0
    BY <1>2 DEF NextPage
  <2>2. 0 \in VPage /\ 0 \in 0 .. VA_MAX
    BY SizeAssumption, <1>1 DEF VPage
  <2> QED
    BY <1>1, <2>1, <2>2, Sizes DEF IInv, TypeOK, Walk
<1>3. CASE curr_va + 1 # end_va
  <2>1. curr_va' = curr_va + 1 /\ curr_pa' = curr_pa + 1 /\ pc' = pc /\ end_va' = end_va
    BY <1>3 DEF NextPage
  <2>2. curr_va' \in VPage /\ curr_va' # curr_va /\ curr_va' < end_va' /\ curr_pa' \in Nat
    BY <1>1, <1>3, <2>1 DEF VPage
  <2>3. curr_pa' .. curr_pa' + (end_va' - curr_va') - 1
          \subseteq curr_pa .. curr_pa + (end_va - curr_va) - 1
    BY <1>1, <2>1
  <2>4. TypeOK'
    BY <1>1, <2>1, <2>2, Sizes DEF IInv, TypeOK
  <2>5. Walk'
    BY <1>1, <2>1, <2>2, <2>3 DEF IInv, Walk
  <2> QED
    BY <1>1, <2>1, <2>2, <2>4, <2>5
<1> QED
  BY <1>2, <1>3

(* The entry that the walk is at. *)
LEMMA AtPte ==
  ASSUME IInv, pc = "walk"
  PROVE  /\ level = 2 => Pte = T1(entry, curr_va)
         /\ level = 1 => Pte = T0(entry, curr_va)
         /\ curr_va \in VPage /\ level \in 0 .. 2 /\ pgtbl \in Table /\ Good(entry)
<1>1. /\ curr_va \in VPage /\ level \in 0 .. 2 /\ pgtbl \in Table /\ Good(entry)
      /\ level = 2 => pgtbl = Root
      /\ level = 1 => T1(entry, curr_va) = pgtbl
  BY DEF IInv, TypeOK, Walk
<1> QED
  BY <1>1 DEF Pte, T1, T0

LEMMA DescendStep ==
  ASSUME IInv, Descend
  PROVE  IInv' /\ Effect
<1>1. /\ pc = "walk" /\ level > 0 /\ Pte \in Table /\ pgtbl' = Pte /\ level' = level - 1
      /\ UNCHANGED <<entry, free, pc, curr_va, curr_pa, op, end_va>>
  BY DEF Descend, block
<1>2. \/ level = 2 /\ level' = 1 /\ Pte = T1(entry, curr_va)
      \/ level = 1 /\ level' = 0 /\ Pte = T0(entry, curr_va)
  BY <1>1, AtPte
<1>3. TypeOK'
  BY <1>1, <1>2 DEF IInv, TypeOK
<1>4. Walk'
  BY <1>1, <1>2 DEF IInv, Walk
<1>5. Good(entry)' /\ FreeTables'
  BY <1>1 DEF IInv, FreeTables
<1> QED
  BY <1>1, <1>3, <1>4, <1>5 DEF IInv, Effect

LEMMA AddTableStep ==
  ASSUME IInv, AddTable
  PROVE  IInv' /\ Effect
<1> DEFINE s == VA_TO_VPN(curr_va, level)
<1>1. PICK t \in free : /\ entry' = [entry EXCEPT ![pgtbl][s] = t, ![t] = Empty]
                        /\ free' = free \ {t}
                        /\ pgtbl' = t /\ level' = level - 1
  BY DEF AddTable
<1>2. /\ pc = "walk" /\ level > 0 /\ Pte = Invalid /\ op = "map"
      /\ UNCHANGED <<pc, curr_va, curr_pa, op, end_va>>
  BY DEF AddTable, block
<1>3. /\ t \in Table /\ t \notin Upper(entry) \cup Low(entry)
      /\ free = Table \ (Upper(entry) \cup Low(entry))
  BY <1>1, <1>2 DEF IInv, FreeTables
<1>4. /\ curr_va \in VPage /\ pgtbl \in Table /\ Good(entry) /\ s \in Slot
      /\ \/ level = 2 /\ level' = 1 /\ pgtbl = Root
         \/ level = 1 /\ level' = 0 /\ T1(entry, curr_va) = pgtbl
  BY <1>1, <1>2, AtPte, Slots DEF IInv, Walk
<1>5. pgtbl \in Upper(entry) /\ entry[pgtbl][s] = Invalid
  <2>1. level = 1 => pgtbl \in Mid(entry)
    BY <1>4, Path
  <2> QED
    BY <1>2, <1>4, <2>1 DEF Pte, Upper
<1>6. Hung(entry', entry, pgtbl, s, t)
  <2>1. Typed(entry) /\ t # pgtbl
    BY <1>3, <1>4, <1>5 DEF Good
  <2> QED
    BY <1>1, <1>3, <1>4, <2>1, ExceptHung
<1>7. CASE level = 2
  <2>1. s = VA_TO_VPN(curr_va, 2) /\ pgtbl = Root /\ level' = 1
    BY <1>4, <1>7
  <2>2. /\ Good(entry') /\ Mid(entry') = Mid(entry) \cup {t} /\ Low(entry') = Low(entry)
        /\ \A v \in VPage : Look(entry', v) = Look(entry, v)
    BY <1>3, <1>4, <1>5, <1>6, <2>1, HangMid
  <2>3. T1(entry', curr_va) = t
    BY <1>6, <2>1 DEF T1, Hung
  <2>4. FreeTables'
    BY <1>1, <1>2, <1>3, <2>2 DEF FreeTables, Upper
  <2>5. TypeOK'
    <3>1. entry' \in [Table -> [Slot -> Table \cup PPage \cup {Invalid}]]
      BY <2>2 DEF Good, Typed
    <3>2. free' \subseteq Table /\ pgtbl' \in Table
      BY <1>1, <1>3
    <3>3. level' \in 0 .. 2
      BY <2>1
    <3> QED
      BY <1>2, <3>1, <3>2, <3>3 DEF IInv, TypeOK
  <2>6. Walk'
    BY <1>1, <1>2, <2>1, <2>3 DEF IInv, Walk
  <2> QED
    BY <1>2, <1>4, <2>2, <2>4, <2>5, <2>6 DEF IInv, Effect
<1>8. CASE level = 1
  <2>1. s = VA_TO_VPN(curr_va, 1) /\ T1(entry, curr_va) = pgtbl /\ level' = 0
        /\ pgtbl \in Mid(entry)
    BY <1>4, <1>8, Path
  <2>2. /\ Good(entry') /\ Mid(entry') = Mid(entry) /\ Low(entry') = Low(entry) \cup {t}
        /\ \A v \in VPage : Look(entry', v) = Look(entry, v)
    BY <1>3, <1>4, <1>5, <1>6, <2>1, HangLow
  <2>3. T0(entry', curr_va) = t
    <3>1. /\ entry'[pgtbl][s] = t /\ VA_TO_VPN(curr_va, 2) \in Slot /\ Root \in Table /\ Root # t
          /\ Root # pgtbl
      BY <1>3, <1>4, <1>6, <2>1, Slots, TablesApart DEF Hung, Upper
    <3>2. T1(entry', curr_va) = T1(entry, curr_va)
      BY <1>6, <3>1 DEF T1, Hung
    <3> QED
      BY <1>4, <2>1, <3>1, <3>2 DEF T0
  <2>4. FreeTables'
    BY <1>1, <1>2, <1>3, <2>2 DEF FreeTables, Upper
  <2>5. TypeOK'
    <3>1. entry' \in [Table -> [Slot -> Table \cup PPage \cup {Invalid}]]
      BY <2>2 DEF Good, Typed
    <3>2. free' \subseteq Table /\ pgtbl' \in Table
      BY <1>1, <1>3
    <3>3. level' \in 0 .. 2
      BY <2>1
    <3> QED
      BY <1>2, <3>1, <3>2, <3>3 DEF IInv, TypeOK
  <2>6. Walk'
    BY <1>1, <1>2, <2>1, <2>3 DEF IInv, Walk
  <2> QED
    BY <1>2, <1>4, <2>2, <2>4, <2>5, <2>6 DEF IInv, Effect
<1> QED
  BY <1>4, <1>7, <1>8

LEMMA NoTableStep ==
  ASSUME IInv, NoTable
  PROVE  IInv' /\ Effect
<1>1. /\ pc = "walk" /\ pc' = "panic"
      /\ UNCHANGED <<entry, free, curr_va, curr_pa, op, end_va, level, pgtbl>>
  BY DEF NoTable, block
<1> QED
  BY <1>1 DEF IInv, TypeOK, FreeTables, Walk, Effect

LEMMA SkipPageStep ==
  ASSUME IInv, SkipPage
  PROVE  IInv' /\ Effect
<1>1. /\ pc = "walk" /\ level > 0 /\ Pte \notin Table /\ op = "unmap" /\ NextPage
      /\ entry' = entry /\ free' = free /\ op' = op
  BY DEF SkipPage
<1>2. TypeOK' /\ Walk' /\ pc' \in {"idle", "walk"} /\ (pc' = "walk" => curr_va' # curr_va)
  BY <1>1, NextPageStep DEF IInv
<1>3. Good(entry)' /\ FreeTables'
  BY <1>1, <1>2 DEF IInv, FreeTables
<1>4. Look(entry, curr_va) = Nowhere
  <2>1. level = 2 \/ level = 1
    BY <1>1, AtPte
  <2>2. T0(entry, curr_va) \notin Table
    BY <1>1, <2>1, AtPte, Sizes DEF T0
  <2> QED
    BY <2>2, NotMapped
<1> QED
  BY <1>1, <1>2, <1>3, <1>4 DEF IInv, Effect

(* SetLeaf and ClearLeaf. *)
LEMMA LeafStep ==
  ASSUME IInv, pc = "walk", level = 0, NextPage, UNCHANGED <<free, op>>,
         NEW e \in PPage \cup {Invalid}, SetPte(e),
         op = "map" => e = curr_pa /\ e \in PPage, op # "map" => e = Invalid
  PROVE  IInv' /\ Effect
<1>1. curr_va \in VPage /\ Good(entry) /\ T0(entry, curr_va) = pgtbl /\ pgtbl \in Table
  BY AtPte DEF IInv, Walk
<1>2. VA_TO_VPN(curr_va, 0) \in Slot /\ Typed(entry)
  BY <1>1, Slots DEF Good
<1>3. entry' = [entry EXCEPT ![pgtbl][VA_TO_VPN(curr_va, 0)] = e]
  BY DEF SetPte
<1>4. Written(entry', entry, pgtbl, VA_TO_VPN(curr_va, 0), e)
  BY <1>1, <1>2, <1>3, ExceptWritten
<1>5. /\ Good(entry') /\ Mid(entry') = Mid(entry) /\ Low(entry') = Low(entry)
      /\ Look(entry', curr_va) = IF e \in PPage THEN e ELSE Nowhere
      /\ \A w \in VPage : w # curr_va => Look(entry', w) = Look(entry, w)
  BY <1>1, <1>4, WriteLeaf
<1>6. TypeOK' /\ Walk' /\ pc' \in {"idle", "walk"} /\ (pc' = "walk" => curr_va' # curr_va)
  BY <1>5, NextPageStep
<1>7. FreeTables'
  BY <1>5, <1>6 DEF IInv, FreeTables, Upper
<1>8. Look(entry', curr_va) = IF op = "map" THEN curr_pa ELSE Nowhere
  BY <1>5, Sizes
<1> QED
  BY <1>5, <1>6, <1>7, <1>8 DEF IInv, Effect

LEMMA SetLeafStep ==
  ASSUME IInv, SetLeaf
  PROVE  IInv' /\ Effect
<1>1. /\ pc = "walk" /\ level = 0 /\ op = "map" /\ SetPte(curr_pa) /\ NextPage
      /\ UNCHANGED <<free, op>>
  BY DEF SetLeaf
<1>2. curr_pa \in PPage
  <2>1. /\ curr_pa \in Nat /\ curr_va \in Nat /\ end_va \in Nat /\ curr_va < end_va
        /\ curr_pa .. curr_pa + (end_va - curr_va) - 1 \subseteq PPage
    BY <1>1, Sizes DEF IInv, TypeOK, Walk, VPage
  <2>2. curr_pa \in curr_pa .. curr_pa + (end_va - curr_va) - 1
    BY <2>1
  <2> QED
    BY <2>1, <2>2
<1> QED
  BY <1>1, <1>2, LeafStep

LEMMA ClearLeafStep ==
  ASSUME IInv, ClearLeaf
  PROVE  IInv' /\ Effect
<1>1. /\ pc = "walk" /\ level = 0 /\ op = "unmap" /\ SetPte(Invalid) /\ NextPage
      /\ UNCHANGED <<free, op>>
  BY DEF ClearLeaf
<1> QED
  BY <1>1, LeafStep

LEMMA DestroyStep ==
  ASSUME IInv, Destroy
  PROVE  IInv' /\ Effect
<1>1. /\ pc = "idle" /\ pc' = "destroyed" /\ free' = free \cup Tree
      /\ UNCHANGED <<entry, op, curr_va, end_va, curr_pa, level, pgtbl>>
  BY DEF Destroy
<1>2. Tree = Upper(entry) \cup Low(entry)
  BY Names DEF Tree, Upper
<1>3. free = Table \ (Upper(entry) \cup Low(entry)) /\ Good(entry)
  BY <1>1 DEF IInv, FreeTables
<1>4. free' = Table
  BY <1>1, <1>2, <1>3, TablesApart, Sizes DEF Upper
<1> QED
  BY <1>1, <1>4 DEF IInv, TypeOK, FreeTables, Walk, Effect

LEMMA NextStep == IInv /\ Next => IInv' /\ Effect
<1> SUFFICES ASSUME IInv, Next PROVE IInv' /\ Effect
  OBVIOUS
<1>1. ASSUME NEW va \in VPage, NEW n \in 1 .. MaxLen,
             \/ Call("unmap", va, n, 0)
             \/ \E pa \in PPage : pa .. pa + n - 1 \subseteq PPage /\ Call("map", va, n, pa)
      PROVE  IInv' /\ Effect
  BY <1>1, CallStep
<1> QED
  BY <1>1, DescendStep, AddTableStep, NoTableStep, SkipPageStep, SetLeafStep, ClearLeafStep,
     DestroyStep DEF Next

LEMMA NextInv == IInv /\ [Next]_vars => IInv'
<1>1. ASSUME IInv, UNCHANGED vars PROVE IInv'
  BY <1>1 DEF IInv, TypeOK, FreeTables, Walk, vars
<1> QED
  BY <1>1, NextStep

-----------------------------------------------------------------------------
(* The inductive invariant holds in every state of the specification. *)
THEOREM Invariance == Spec => []IInv
<1>1. Init => IInv
  BY InitInv
<1> QED
  BY <1>1, NextInv, PTL DEF Spec

(* vm_getpte hangs each table in once, and pgtbl_free_recursive gives each back
   once: the tables are a tree, and a kernel page is in it or free. *)
THEOREM TreeCorrect == Spec => []TreeShape
<1> QED
  BY InvTree, Invariance, PTL

(* vm_mappages and vm_unmappages change the translation of the page they are at,
   to what they were asked for, and of no other. *)
THEOREM PageCorrect == Spec => PageExact
<1> DEFINE Exact == \A v \in VPage :
                      IF v # curr_va THEN Lookup(v)' = Lookup(v)
                      ELSE pc = "walk" /\ (pc' = "idle" \/ (pc' = "walk" /\ curr_va' # v)) =>
                             Lookup(v)' = IF op = "map" THEN curr_pa ELSE Nowhere
<1>1. ASSUME IInv, Next PROVE Exact
  <2>1. Effect
    BY <1>1, NextStep
  <2>2. \A v : Lookup(v) = Look(entry, v) /\ Lookup(v)' = Look(entry', v)
    BY DEF Lookup, Look, LeafOf, T0, T1
  <2> QED
    BY <2>1, <2>2 DEF Effect
<1> HIDE DEF Exact
<1>2. IInv /\ [Next]_vars => [Exact]_vars
  BY <1>1
<1>3. Spec => [][Exact]_vars
  BY <1>2, Invariance, PTL DEF Spec
<1> QED
  BY <1>3 DEF PageExact, Exact

(* The tree of tables implements a flat map from virtual to physical pages. *)
THEOREM MapRefinement == Spec => ImplementsMap
<1>1. Init => FM!Init
  BY InitInv, Names DEF FM!Init
<1>2. ASSUME IInv, [Next]_vars
      PROVE  [FM!Next]_([v \in VPage |-> Lookup(v)])
  <2> DEFINE m == [v \in VPage |-> Look(entry, v)]
             mm == [v \in VPage |-> Look(entry', v)]
  <2>1. /\ [v \in VPage |-> Lookup(v)] = m
        /\ [v \in VPage |-> Lookup(v)]' = mm
    BY DEF Lookup, Look, LeafOf, T0, T1
  <2>2. CASE UNCHANGED vars
    BY <2>1, <2>2 DEF vars
  <2>3. CASE Next
    <3>1. \A v \in VPage : v # curr_va => Look(entry', v) = Look(entry, v)
      BY <1>2, <2>3, NextStep DEF Effect
    <3>2. mm = [m EXCEPT ![curr_va] = Look(entry', curr_va)]
      BY <3>1
    <3>3. Look(entry', curr_va) \in PPage \cup {Nowhere}
      BY DEF Look
    <3>4. curr_va \in VPage
      BY <1>2 DEF IInv, TypeOK
    <3> HIDE DEF m, mm
    <3>5. CASE Look(entry', curr_va) \in PPage
      <4>1. FM!MapPage(curr_va, Look(entry', curr_va))
        BY <2>1, <3>2 DEF FM!MapPage
      <4> QED
        BY <3>4, <3>5, <4>1 DEF FM!Next
    <3>6. CASE Look(entry', curr_va) = Nowhere
      <4>1. FM!UnmapPage(curr_va)
        BY <2>1, <3>2, <3>6 DEF FM!UnmapPage
      <4> QED
        BY <3>4, <4>1 DEF FM!Next
    <3> QED
      BY <3>3, <3>5, <3>6
  <2> QED
    BY <1>2, <2>2, <2>3
<1> QED
  BY <1>1, <1>2, Invariance, PTL DEF Spec, ImplementsMap, FM!Spec
=============================================================================
