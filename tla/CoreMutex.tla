------------------------------ MODULE CoreMutex ------------------------------
(* The multicore lock every shared peripheral of the core is guarded with,    *)
(* cores/rp2040/CoreMutex.h, on top of the SDK's mutex_t.  A mutex_t records  *)
(* only which core owns it, so the lock of a core is the lock of every        *)
(* context (thread or interrupt handler) that runs on that core.              *)
EXTENDS Integers

Cores  == {0, 1}
NoCore == -1                    \* LOCK_INVALID_OWNER_ID
Other(c) == IF c = 0 THEN 1 ELSE 0

\* The states a mutex_t can be in: free, or owned by a core.
Owners == Cores \cup {NoCore}

(* What constructing a CoreMutex on core c does when the lock is in state     *)
(* owner: it is taken; it is refused, because the owner found is this very    *)
(* core (waiting for it would never end); or the caller waits.                *)

\* Variant: the lock is recursive.
TakenAgain(owner, c) == owner \in {NoCore, c}

Taken(owner, c)   == owner = NoCore
Refused(owner, c) == owner = c
==============================================================================
