------------------------------ MODULE LockSpec ------------------------------
(* What a spinlock promises its callers, and no more: a lock has at most one
   holder, a free lock may be taken, and only its holder gives it back.  The
   holder is the running context, not the CPU: a handler that interrupts a
   thread is a different agent than the thread. *)
CONSTANTS Agent,     \* who can hold a lock
          Lock,      \* the locks
          NoAgent    \* the holder of a free lock

VARIABLE holder      \* holder[l]: who holds l

Init == holder = [l \in Lock |-> NoAgent]

Acquire(a, l) == /\ holder[l] = NoAgent
                 /\ holder' = [holder EXCEPT ![l] = a]

Release(a, l) == /\ holder[l] = a
                 /\ holder' = [holder EXCEPT ![l] = NoAgent]

Next == \E a \in Agent, l \in Lock : Acquire(a, l) \/ Release(a, l)

Spec == Init /\ [][Next]_holder
=============================================================================
