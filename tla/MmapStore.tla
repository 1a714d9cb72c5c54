------------------------------ MODULE MmapStore ------------------------------
(* The store of mmap_region nodes (mem/mmap.c): N_MMAP nodes of an array on a
   LIFO list behind a list head, guarded by list_lk, shared by all harts.

   A node is its index in node_list.  Unlike pmem.c the allocator clears the
   node inside the lock and answers NULL when the store is empty, and
   mmap_show_nodelist walks the whole list with the lock held. *)
EXTENDS Integers, Sequences

CONSTANTS CPU,     \* the harts
          NoCPU,   \* nobody: the holder of the free lock
          N_MMAP   \* how many nodes there are

ASSUME CPUAssumption == NoCPU \notin CPU
ASSUME NAssumption == N_MMAP \in Nat \ {0}

Node == 0 .. N_MMAP - 1
Null == N_MMAP

VARIABLES head,    \* list_head.next
          nxt,     \* node->next
          clear,   \* the nodes whose mmap field is all zero
          holder,  \* who holds list_lk, under the one name "list"
          pc,
          node,    \* `node' of a call, `cur' of a walk
          owned,   \* the nodes that callers have
          free,    \* ghost: the free list, head first
          shown    \* ghost: the indices a walk has printed

vars == <<head, nxt, clear, holder, pc, node, owned, free, shown>>

PC == {"run", "a_acquire", "a_pick", "a_unlink", "a_clear", "a_release",
       "f_acquire", "f_link", "f_push", "f_release", "s_acquire", "s_walk"}

LK == INSTANCE LockSpec WITH Agent <- CPU, Lock <- {"list"}, NoAgent <- NoCPU

(* mmap_init pushes the nodes in ascending order: the last is the head. *)
Init == /\ head = N_MMAP - 1
        /\ nxt = [n \in Node |-> IF n = 0 THEN Null ELSE n - 1]
        /\ clear = Node
        /\ LK!Init
        /\ pc = [c \in CPU |-> "run"]
        /\ node = [c \in CPU |-> Null]
        /\ owned = {}
        /\ free = [i \in 1 .. N_MMAP |-> N_MMAP - i]
        /\ shown = [c \in CPU |-> <<>>]

Step(c, from, to) == pc[c] = from /\ pc' = [pc EXCEPT ![c] = to]

(* The three functions begin with spinlock_acquire and end with its release. *)
Lock(c) == LK!Acquire(c, "list")
Unlock(c) == LK!Release(c, "list")

-----------------------------------------------------------------------------
(* mmap_region_alloc *)
CallAlloc(c) == /\ Step(c, "run", "a_acquire")
                /\ UNCHANGED <<head, nxt, clear, holder, node, owned, free, shown>>

AllocAcquire(c) == /\ Step(c, "a_acquire", "a_pick")
                   /\ Lock(c)
                   /\ UNCHANGED <<head, nxt, clear, node, owned, free, shown>>

(* Mutant: the emptiness test is on the node after the head. *)
AllocPickLast(c) ==
  /\ Step(c, "a_pick", IF head = Null \/ nxt[head] = Null THEN "a_release" ELSE "a_unlink")
  /\ node' = [node EXCEPT ![c] = IF head = Null \/ nxt[head] = Null THEN Null ELSE head]
  /\ UNCHANGED <<head, nxt, clear, holder, owned, free, shown>>

AllocPick(c) == /\ Step(c, "a_pick", IF head = Null THEN "a_release" ELSE "a_unlink")
                /\ node' = [node EXCEPT ![c] = head]
                /\ UNCHANGED <<head, nxt, clear, holder, owned, free, shown>>

(* Mutant: list_head.next is not moved. *)
AllocUnlinkForgotten(c) == /\ Step(c, "a_unlink", "a_clear")
                           /\ UNCHANGED <<head, nxt, clear, holder, node, owned, free, shown>>

AllocUnlink(c) == /\ Step(c, "a_unlink", "a_clear")
                  /\ head' = nxt[node[c]]
                  /\ free' = Tail(free)
                  /\ UNCHANGED <<nxt, clear, holder, node, owned, shown>>

AllocClear(c) == /\ Step(c, "a_clear", "a_release")
                 /\ clear' = clear \cup {node[c]}
                 /\ UNCHANGED <<head, nxt, holder, node, owned, free, shown>>

AllocRelease(c) == /\ Step(c, "a_release", "run")
                   /\ Unlock(c)
                   /\ owned' = owned \cup ({node[c]} \ {Null})
                   /\ UNCHANGED <<head, nxt, clear, node, free, shown>>

-----------------------------------------------------------------------------
(* mmap_region_free of a node the caller has *)
CallFree(c, n) == /\ Step(c, "run", "f_acquire")
                  /\ n \in owned
                  /\ owned' = owned \ {n}
                  /\ node' = [node EXCEPT ![c] = n]
                  /\ UNCHANGED <<head, nxt, clear, holder, free, shown>>

FreeAcquire(c) == /\ Step(c, "f_acquire", "f_link")
                  /\ Lock(c)
                  /\ UNCHANGED <<head, nxt, clear, node, owned, free, shown>>

(* Mutant: node->next keeps its value from the last time the node was free. *)
FreeLinkForgotten(c) == /\ Step(c, "f_link", "f_push")
                        /\ UNCHANGED <<head, nxt, clear, holder, node, owned, free, shown>>

FreeLink(c) == /\ Step(c, "f_link", "f_push")
               /\ nxt' = [nxt EXCEPT ![node[c]] = head]
               /\ UNCHANGED <<head, clear, holder, node, owned, free, shown>>

FreePush(c) == /\ Step(c, "f_push", "f_release")
               /\ head' = node[c]
               /\ free' = <<node[c]>> \o free
               /\ UNCHANGED <<nxt, clear, holder, node, owned, shown>>

FreeRelease(c) == /\ Step(c, "f_release", "run")
                  /\ Unlock(c)
                  /\ UNCHANGED <<head, nxt, clear, node, owned, free, shown>>

-----------------------------------------------------------------------------
(* mmap_show_nodelist *)
CallShow(c) == /\ Step(c, "run", "s_acquire")
               /\ UNCHANGED <<head, nxt, clear, holder, node, owned, free, shown>>

(* Mutant: the walk does not take list_lk. *)
ShowUnlocked(c) == /\ Step(c, "s_acquire", "s_walk")
                   /\ node' = [node EXCEPT ![c] = head]
                   /\ shown' = [shown EXCEPT ![c] = <<>>]
                   /\ UNCHANGED <<head, nxt, clear, holder, owned, free>>

ShowAcquire(c) == /\ Step(c, "s_acquire", "s_walk")
                  /\ Lock(c)
                  /\ node' = [node EXCEPT ![c] = head]
                  /\ shown' = [shown EXCEPT ![c] = <<>>]
                  /\ UNCHANGED <<head, nxt, clear, owned, free>>

ShowNode(c) == /\ pc[c] = "s_walk" /\ node[c] # Null
               /\ shown' = [shown EXCEPT ![c] = Append(@, node[c])]
               /\ node' = [node EXCEPT ![c] = nxt[node[c]]]
               /\ UNCHANGED <<head, nxt, clear, holder, pc, owned, free>>

ShowRelease(c) == /\ Step(c, "s_walk", "run")
                  /\ node[c] = Null
                  /\ Unlock(c)
                  /\ shown' = [shown EXCEPT ![c] = <<>>]
                  /\ UNCHANGED <<head, nxt, clear, node, owned, free>>

-----------------------------------------------------------------------------
(* The owner of a node fills its mmap_region_t. *)
UseNode(n) == /\ n \in owned
              /\ clear' = clear \ {n}
              /\ UNCHANGED <<head, nxt, holder, pc, node, owned, free, shown>>

Show(c) == ShowAcquire(c) \/ ShowNode(c) \/ ShowRelease(c)

Inside(c) == \/ AllocAcquire(c) \/ AllocPick(c) \/ AllocUnlink(c) \/ AllocClear(c)
             \/ AllocRelease(c) \/ FreeAcquire(c) \/ FreeLink(c) \/ FreePush(c)
             \/ FreeRelease(c) \/ Show(c)

Next == \/ \E c \in CPU : Inside(c) \/ CallAlloc(c) \/ CallShow(c)
        \/ \E c \in CPU, n \in Node : CallFree(c, n)
        \/ \E n \in Node : UseNode(n)

Spec == Init /\ [][Next]_vars

-----------------------------------------------------------------------------
TypeOK == /\ head \in Node \cup {Null}
          /\ nxt \in [Node -> Node \cup {Null}]
          /\ clear \in SUBSET Node
          /\ holder \in [{"list"} -> CPU \cup {NoCPU}]
          /\ pc \in [CPU -> PC]
          /\ node \in [CPU -> Node \cup {Null}]
          /\ owned \in SUBSET Node
          /\ free \in Seq(Node)
          /\ shown \in [CPU -> Seq(Node)]

Listed == {free[i] : i \in DOMAIN free}

(* The nodes in the hands of a call and of nobody else. *)
Carries(c) == \/ pc[c] \in {"a_clear", "f_acquire", "f_link", "f_push"}
              \/ pc[c] = "a_release" /\ node[c] # Null

(* No node is handed out twice or lost: the free nodes, those with their owners
   and those a call carries are disjoint, and together they are all of them. *)
Conservation ==
  /\ TypeOK
  /\ \A i, j \in DOMAIN free : free[i] = free[j] => i = j
  /\ Listed \cap owned = {}
  /\ \A c \in CPU : Carries(c) => node[c] \in Node \ (owned \cup Listed)
  /\ \A c, d \in CPU : Carries(c) /\ Carries(d) /\ node[c] = node[d] => c = d
  /\ Node = owned \cup Listed \cup {node[c] : c \in {d \in CPU : Carries(d)}}

(* From the head to NULL, the links in memory are the list. *)
FreeChain ==
  /\ head = IF free = <<>> THEN Null ELSE Head(free)
  /\ \A i \in DOMAIN free : nxt[free[i]] = IF i = Len(free) THEN Null ELSE free[i + 1]

(* mmap_region_alloc answers NULL only when every node is out, and the node it
   answers has been cleared of its last owner's region. *)
AllocExact ==
  \A c \in CPU : pc[c] = "a_release" =>
    IF node[c] = Null THEN free = <<>> ELSE node[c] \in clear

(* The links in memory are the list at every step, and a walk prints it as it is,
   in its order, none twice and none skipped, whatever the other harts do
   meanwhile. *)
ShownExact ==
  /\ FreeChain
  /\ \A c \in CPU : pc[c] = "s_walk" =>
       LET k == Len(shown[c])
       IN  /\ k <= Len(free)
           /\ shown[c] = SubSeq(free, 1, k)
           /\ node[c] = IF k = Len(free) THEN Null ELSE free[k + 1]

(* The nodes that the links in memory reach from the list head. *)
Reached == LET at[k \in 0 .. N_MMAP] ==
                 IF k = 0 THEN head
                 ELSE IF at[k - 1] = Null THEN Null ELSE nxt[at[k - 1]]
           IN  {at[k] : k \in 0 .. N_MMAP} \ {Null}

(* What the links in memory reach is one pool of nodes: every call adds or
   removes one node, at one step, and walks change nothing. *)
Store == {"nodes"}
NodesOf(s) == Node
MP == INSTANCE PagePool WITH Region <- Store, PagesOf <- NodesOf,
                             pool <- [s \in Store |-> Reached]
ImplementsPool == MP!Spec
=============================================================================
