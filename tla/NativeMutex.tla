----------------------------- MODULE NativeMutex -----------------------------
(***************************************************************************)
(* DeeNativeMutex of src/deemon/mutex.c: a recursive mutex made of an      *)
(* atomic counter of claims, the owner's thread id, a recursion depth and  *)
(* a semaphore on which the threads that found the counter above zero      *)
(* sleep (a "benaphore").  Every atomic operation and every store of the   *)
(* C code is a step of its own, so threads interleave as the hardware may. *)
(***************************************************************************)
EXTENDS Integers, Functions

CONSTANTS
  Threads,     (* the threads that share the mutex                          *)
  NoThread,    (* the value 0 of m_owner                                    *)
  SemMax,      (* the largest semaphore value: 1 on Windows, where the      *)
               (* semaphore is created with that maximum, large on POSIX    *)
  MayGiveUp,   (* whether callers use DeeNativeMutex_Acquire/AcquireTimed,  *)
               (* whose wait may time out or be interrupted                 *)
  MaxDepth     (* model bound: nested acquisitions by one thread            *)

ASSUME ConstantsOK ==
  /\ NoThread \notin Threads
  /\ SemMax \in Nat \ {0}
  /\ MaxDepth \in Nat \ {0}
  /\ MayGiveUp \in BOOLEAN

VARIABLES
  counter,     (* m_counter: claims on the mutex, held or awaited           *)
  owner,       (* m_owner                                                   *)
  recursion,   (* m_recursion                                               *)
  sem,         (* the value of m_semaphore                                  *)
  pc,          (* pc[t]: the next step of thread t, "idle" outside mutex.c  *)
  recur,       (* recur[t]: the local variable of the Release functions     *)
  held         (* held[t]: acquisitions of t that returned 0, not released  *)

vars == <<counter, owner, recursion, sem, pc, recur, held>>

PCs == {"idle", "whose", "wait", "abandon", "own", "deepen", "tryinc",
        "trycas", "disown", "drop", "post", "undo", "reown", "reset"}

(* DeeNativeMutex_Init *)
Init ==
  /\ counter = 0
  /\ owner = NoThread
  /\ recursion = 0
  /\ sem = 0
  /\ pc = [t \in Threads |-> "idle"]
  /\ recur = [t \in Threads |-> 0]
  /\ held = [t \in Threads |-> 0]

Goto(t, label) == pc' = [pc EXCEPT ![t] = label]

----------------------------------------------------------------------------
(* AcquireNoexcept, Acquire and AcquireTimed *)

(* IncFetch(m_counter): the mutex was free if the result is 1. *)
Acquire(t) ==
  /\ pc[t] = "idle"
  /\ held[t] < MaxDepth
  /\ counter' = counter + 1
  /\ Goto(t, IF counter = 0 THEN "own" ELSE "whose")
  /\ UNCHANGED <<owner, recursion, sem, recur, held>>

(* Fault: a mutex whose owner just left is taken for a free one. *)
CheckOwnerOrNone(t) ==
  /\ pc[t] = "whose"
  /\ Goto(t, IF owner \in {t, NoThread} THEN "own" ELSE "wait")
  /\ UNCHANGED <<counter, owner, recursion, sem, recur, held>>

(* if (tid != m_owner): the owner enters again, the others must sleep. *)
CheckOwner(t) ==
  /\ pc[t] = "whose"
  /\ Goto(t, IF owner = t THEN "own" ELSE "wait")
  /\ UNCHANGED <<counter, owner, recursion, sem, recur, held>>

(* The semaphore wait returns with a token. *)
Take(t) ==
  /\ pc[t] = "wait"
  /\ sem > 0
  /\ sem' = sem - 1
  /\ Goto(t, "own")
  /\ UNCHANGED <<counter, owner, recursion, recur, held>>

(* An interrupt is pending, or the wait timed out or failed. *)
GiveUp(t) ==
  /\ MayGiveUp
  /\ pc[t] = "wait"
  /\ Goto(t, "abandon")
  /\ UNCHANGED <<counter, owner, recursion, sem, recur, held>>

(* Fault: giving up keeps the claim. *)
AbandonKeepsClaim(t) ==
  /\ pc[t] = "abandon"
  /\ Goto(t, "idle")
  /\ UNCHANGED <<counter, owner, recursion, sem, recur, held>>

(* FetchDec(m_counter) of a caller that gave up. *)
Abandon(t) ==
  /\ pc[t] = "abandon"
  /\ counter' = counter - 1
  /\ Goto(t, "idle")
  /\ UNCHANGED <<owner, recursion, sem, recur, held>>

(* m_owner = tid *)
Own(t) ==
  /\ pc[t] = "own"
  /\ owner' = t
  /\ Goto(t, "deepen")
  /\ UNCHANGED <<counter, recursion, sem, recur, held>>

(* ++m_recursion, and the acquisition is done. *)
Deepen(t) ==
  /\ pc[t] = "deepen"
  /\ recursion' = recursion + 1
  /\ held' = [held EXCEPT ![t] = @ + 1]
  /\ Goto(t, "idle")
  /\ UNCHANGED <<counter, owner, sem, recur>>

----------------------------------------------------------------------------
(* TryAcquireNoexcept *)

(* if (m_owner == tid) *)
TryAcquire(t) ==
  /\ pc[t] = "idle"
  /\ held[t] < MaxDepth
  /\ Goto(t, IF owner = t THEN "tryinc" ELSE "trycas")
  /\ UNCHANGED <<counter, owner, recursion, sem, recur, held>>

(* Fault: entering again by a try makes no claim. *)
TryIncForgets(t) ==
  /\ pc[t] = "tryinc"
  /\ Goto(t, "deepen")
  /\ UNCHANGED <<counter, owner, recursion, sem, recur, held>>

(* FetchInc(m_counter): already inside the lock. *)
TryInc(t) ==
  /\ pc[t] = "tryinc"
  /\ counter' = counter + 1
  /\ Goto(t, "deepen")
  /\ UNCHANGED <<owner, recursion, sem, recur, held>>

(* CompareExchange(m_counter, 0, 1) *)
TryCas(t) ==
  /\ pc[t] = "trycas"
  /\ counter' = IF counter = 0 THEN 1 ELSE counter
  /\ Goto(t, IF counter = 0 THEN "own" ELSE "idle")
  /\ UNCHANGED <<owner, recursion, sem, recur, held>>

----------------------------------------------------------------------------
(* ReleaseNoexcept, Release and ReleaseWithError *)

(* Fault: the last release does not clear the owner. *)
ReleaseKeepsOwner(t) ==
  /\ pc[t] = "idle"
  /\ held[t] > 0
  /\ owner = t
  /\ recursion' = recursion - 1
  /\ recur' = [recur EXCEPT ![t] = recursion - 1]
  /\ held' = [held EXCEPT ![t] = @ - 1]
  /\ Goto(t, "drop")
  /\ UNCHANGED <<counter, owner, sem>>

(* Past the owner check (asserted by the first two, an Error.ValueError of *)
(* the third): recur = --m_recursion.                                      *)
Release(t) ==
  /\ pc[t] = "idle"
  /\ held[t] > 0
  /\ owner = t
  /\ recursion' = recursion - 1
  /\ recur' = [recur EXCEPT ![t] = recursion - 1]
  /\ held' = [held EXCEPT ![t] = @ - 1]
  /\ Goto(t, IF recursion = 1 THEN "disown" ELSE "drop")
  /\ UNCHANGED <<counter, owner, sem>>

(* if (recur == 0) m_owner = 0 *)
Disown(t) ==
  /\ pc[t] = "disown"
  /\ owner' = NoThread
  /\ Goto(t, "drop")
  /\ UNCHANGED <<counter, recursion, sem, recur, held>>

(* Faults of the condition for a wakeup: an inner release wakes as well; a *)
(* release nobody waits for wakes; one that a single thread waits for does *)
(* not.                                                                    *)
DropWakesIf(t, condition) ==
  /\ pc[t] = "drop"
  /\ counter' = counter - 1
  /\ Goto(t, IF condition THEN "post" ELSE "idle")
  /\ UNCHANGED <<owner, recursion, sem, recur, held>>

DropAtAnyDepth(t) == DropWakesIf(t, counter > 1)

DropAlwaysWakes(t) == DropWakesIf(t, counter > 0 /\ recur[t] = 0)

DropOffByOne(t) == DropWakesIf(t, counter > 2 /\ recur[t] = 0)

(* DecFetch(m_counter) > 0: the last release wakes one of the others. *)
Drop(t) ==
  /\ pc[t] = "drop"
  /\ counter' = counter - 1
  /\ Goto(t, IF counter > 1 /\ recur[t] = 0 THEN "post" ELSE "idle")
  /\ UNCHANGED <<owner, recursion, sem, recur, held>>

(* The semaphore is released... *)
Post(t) ==
  /\ pc[t] = "post"
  /\ sem < SemMax
  /\ sem' = sem + 1
  /\ Goto(t, "idle")
  /\ UNCHANGED <<counter, owner, recursion, recur, held>>

(* ... or is at its maximum: ReleaseNoexcept ignores the failure, Release *)
(* and ReleaseWithError take the release back and report it.              *)
PostFails(t) ==
  /\ pc[t] = "post"
  /\ sem = SemMax
  /\ Goto(t, "idle") \/ Goto(t, "undo")
  /\ UNCHANGED <<counter, owner, recursion, sem, recur, held>>

(* FetchInc(m_counter) *)
Undo(t) ==
  /\ pc[t] = "undo"
  /\ counter' = counter + 1
  /\ Goto(t, "reown")
  /\ UNCHANGED <<owner, recursion, sem, recur, held>>

(* m_owner = tid *)
Reown(t) ==
  /\ pc[t] = "reown"
  /\ owner' = t
  /\ Goto(t, "reset")
  /\ UNCHANGED <<counter, recursion, sem, recur, held>>

(* m_recursion = 1 *)
Reset(t) ==
  /\ pc[t] = "reset"
  /\ recursion' = 1
  /\ held' = [held EXCEPT ![t] = @ + 1]
  /\ Goto(t, "idle")
  /\ UNCHANGED <<counter, owner, sem, recur>>

----------------------------------------------------------------------------
(* The steps of a call in progress, and the decisions of the callers. *)
Step(t) ==
  \/ CheckOwner(t) \/ Take(t) \/ Abandon(t) \/ Own(t) \/ Deepen(t)
  \/ TryInc(t) \/ TryCas(t)
  \/ Disown(t) \/ Drop(t) \/ Post(t) \/ PostFails(t)
  \/ Undo(t) \/ Reown(t) \/ Reset(t)

Call(t) == Acquire(t) \/ TryAcquire(t) \/ Release(t) \/ GiveUp(t)

Next == \E t \in Threads : Step(t) \/ Call(t)

Spec == Init /\ [][Next]_vars

(* A thread inside mutex.c is scheduled again and again, a semaphore above *)
(* zero wakes its waiters, and a thread that holds the mutex releases it.  *)
FairSpec ==
  /\ Spec
  /\ \A t \in Threads : WF_vars(Step(t)) /\ WF_vars(Release(t))

----------------------------------------------------------------------------
(* Type invariant *)
TypeOK ==
  /\ counter \in Nat
  /\ owner \in Threads \cup {NoThread}
  /\ recursion \in Nat
  /\ sem \in 0..SemMax
  /\ pc \in [Threads -> PCs]
  /\ recur \in [Threads -> Nat]
  /\ held \in [Threads -> 0..MaxDepth]

(* "We are now inside the Lock": no two threads are between the return of *)
(* an acquisition and the matching release.                               *)
MutualExclusion ==
  \A t, u \in Threads : held[t] > 0 /\ held[u] > 0 => t = u

(* What DEE_ASSERTF(m_owner == DeeThread_SelfID()) relies on: between two *)
(* calls of a thread, m_owner names it exactly when it holds the mutex,   *)
(* so a release is refused for exactly the threads that hold nothing.     *)
OwnerIsHolder ==
  \A t \in Threads : pc[t] = "idle" => (owner = t <=> held[t] > 0)

(* The claims of thread t that m_counter must account for: what it holds, *)
(* and the call in progress between its increment and its decrement.      *)
Claims(t) ==
  held[t] + (IF pc[t] \in {"idle", "tryinc", "trycas", "post", "undo"}
             THEN 0 ELSE 1)

(* m_counter is the number of claims, whatever is given up or undone: if it *)
(* drifted, the mutex would never be free again or be free while held.      *)
CounterExact == counter = SumFunction([t \in Threads |-> Claims(t)])

(* A token in the semaphore was left by a release for a thread that still   *)
(* has to sleep: the next thread to sleep is never let in by an old token,  *)
(* and a semaphore of maximum 1 is never released twice.                    *)
TokenHasTaker ==
  sem > 0 => /\ sem = 1
             /\ \E t \in Threads : pc[t] \in {"whose", "wait"}

(* No wakeup is lost: while a thread sleeps and nobody holds the mutex, some *)
(* thread is on its way in.                                                 *)
NoLostWakeup ==
  (/\ \E t \in Threads : pc[t] = "wait"
   /\ \A t \in Threads : held[t] = 0)
     ~> \/ \E t \in Threads : held[t] > 0
        \/ \A t \in Threads : pc[t] # "wait"

(* The mutex implements the abstract recursive lock: its holder is the      *)
(* thread whose acquisitions are not all released, its depth m_recursion.   *)
LockHolder ==
  IF \E t \in Threads : held[t] > 0
  THEN CHOOSE t \in Threads : held[t] > 0
  ELSE NoThread

Lock == INSTANCE RecursiveLock WITH holder <- LockHolder, depth <- recursion

ImplementsLock == Lock!Spec
=============================================================================
