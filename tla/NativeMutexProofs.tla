-------------------------- MODULE NativeMutexProofs --------------------------
(***************************************************************************)
(* Proofs about NativeMutex for any set of threads, when no caller gives   *)
(* up waiting (the NoExcept functions, as used by gc.c and the runtime).   *)
(* The argument: at most one thing is the "baton" of the mutex at a time,  *)
(* a thread inside it, a thread that still has to post the semaphore, or   *)
(* the token in the semaphore, and m_counter is above zero as long as it   *)
(* exists, so that nobody else enters through the counter.                 *)
(***************************************************************************)
EXTENDS NativeMutex, Sums

(* Thread t is inside, on its way in past the wait, or on its way out. *)
Baton(t) ==
  held[t] > 0 \/ pc[t] \in {"own", "deepen", "tryinc", "disown", "drop", "post"}

(* The claims of a thread with the baton; one is left while it must post. *)
Need(t) ==
  held[t] + (IF pc[t] \in {"whose", "own", "deepen", "disown", "drop", "post"}
             THEN 1 ELSE 0)

(* What a thread knows at each of its steps. *)
Local(t) ==
  /\ pc[t] \notin {"abandon", "undo", "reown", "reset"}
  /\ pc[t] \in {"wait", "trycas", "disown", "post"} => held[t] = 0
  /\ pc[t] = "tryinc" => held[t] > 0
  /\ pc[t] = "disown" => recur[t] = 0
  /\ pc[t] = "drop" => recur[t] = held[t]
  /\ pc[t] \in {"whose", "wait", "own", "deepen", "tryinc", "trycas"}
       => held[t] < MaxDepth
  /\ owner = t <=> held[t] > 0 \/ pc[t] \in {"deepen", "disown"}

OneBaton == \A t, u \in Threads : Baton(t) /\ Baton(u) => t = u

BatonCounted ==
  /\ \A t \in Threads : Baton(t) => /\ sem = 0
                                    /\ counter >= Need(t)
                                    /\ recursion = held[t]
  /\ (\A t \in Threads : ~Baton(t)) => recursion = 0
  /\ sem <= 1
  /\ sem = 1 => counter >= 1

(* The inductive invariant. *)
IInv ==
  /\ TypeOK
  /\ \A t \in Threads : Local(t)
  /\ OneBaton
  /\ BatonCounted

(* Initially nobody claims the mutex. *)
LEMMA InitIInv == Init => IInv
<1> SUFFICES ASSUME Init PROVE IInv
  OBVIOUS
<1>1. TypeOK
  BY ConstantsOK DEF Init, TypeOK, PCs
<1>2. \A t \in Threads : Local(t) /\ ~Baton(t)
  BY ConstantsOK DEF Init, Local, Baton
<1>3. OneBaton /\ BatonCounted
  BY <1>2 DEF OneBaton, BatonCounted, Init
<1>4. QED
  BY <1>1, <1>2, <1>3 DEF IInv

(* Every step preserves the invariant.  A thread becomes a baton only when  *)
(* it finds m_counter at zero or takes the token, and m_counter does not    *)
(* reach zero while a baton exists.                                         *)
LEMMA StepIInv ==
  ASSUME IInv, MayGiveUp = FALSE, NEW t \in Threads, Step(t) \/ Call(t)
  PROVE  IInv'
<1> USE ConstantsOK DEF IInv
\* the counter is zero only if no baton exists, so t may become one
<1>1. CASE Acquire(t)
  <2> USE <1>1
  <2>1. TypeOK'
    BY DEF Acquire, Goto, TypeOK, PCs, Local
  <2>2. ASSUME NEW u \in Threads
        PROVE  Local(u)'
    BY DEF Acquire, Goto, TypeOK, Local, OneBaton, Baton, BatonCounted, Need
  <2>3. OneBaton'
    BY DEF Acquire, Goto, TypeOK, Local, OneBaton, Baton, BatonCounted, Need
  <2>4. BatonCounted'
    BY DEF Acquire, Goto, TypeOK, Local, OneBaton, Baton, BatonCounted, Need
  <2>5. QED
    BY <2>1, <2>2, <2>3, <2>4
<1>2. CASE CheckOwner(t)
  <2> USE <1>2
  <2>1. TypeOK'
    BY DEF CheckOwner, Goto, TypeOK, PCs, Local
  <2>2. ASSUME NEW u \in Threads
        PROVE  Local(u)'
    BY DEF CheckOwner, Goto, TypeOK, Local, OneBaton, Baton, BatonCounted, Need
  <2>3. OneBaton'
    BY DEF CheckOwner, Goto, TypeOK, Local, OneBaton, Baton, BatonCounted, Need
  <2>4. BatonCounted'
    BY DEF CheckOwner, Goto, TypeOK, Local, OneBaton, Baton, BatonCounted, Need
  <2>5. QED
    BY <2>1, <2>2, <2>3, <2>4
\* the token becomes the baton t
<1>3. CASE Take(t)
  <2> USE <1>3
  <2>1. TypeOK'
    BY DEF Take, Goto, TypeOK, PCs, Local
  <2>2. ASSUME NEW u \in Threads
        PROVE  Local(u)'
    BY DEF Take, Goto, TypeOK, Local, OneBaton, Baton, BatonCounted, Need
  <2>3. OneBaton'
    BY DEF Take, Goto, TypeOK, Local, OneBaton, Baton, BatonCounted, Need
  <2>4. BatonCounted'
    BY DEF Take, Goto, TypeOK, Local, OneBaton, Baton, BatonCounted, Need
  <2>5. QED
    BY <2>1, <2>2, <2>3, <2>4
<1>4. CASE Own(t)
  <2> USE <1>4
  <2>1. TypeOK'
    BY DEF Own, Goto, TypeOK, PCs, Local
  <2>2. ASSUME NEW u \in Threads
        PROVE  Local(u)'
    BY DEF Own, Goto, TypeOK, Local, OneBaton, Baton, BatonCounted, Need
  <2>3. OneBaton'
    BY DEF Own, Goto, TypeOK, Local, OneBaton, Baton, BatonCounted, Need
  <2>4. BatonCounted'
    BY DEF Own, Goto, TypeOK, Local, OneBaton, Baton, BatonCounted, Need
  <2>5. QED
    BY <2>1, <2>2, <2>3, <2>4
<1>5. CASE Deepen(t)
  <2> USE <1>5
  <2>1. TypeOK'
    BY DEF Deepen, Goto, TypeOK, PCs, Local
  <2>2. ASSUME NEW u \in Threads
        PROVE  Local(u)'
    BY DEF Deepen, Goto, TypeOK, Local, OneBaton, Baton, BatonCounted, Need
  <2>3. OneBaton'
    BY DEF Deepen, Goto, TypeOK, Local, OneBaton, Baton, BatonCounted, Need
  <2>4. BatonCounted'
    BY DEF Deepen, Goto, TypeOK, Local, OneBaton, Baton, BatonCounted, Need
  <2>5. QED
    BY <2>1, <2>2, <2>3, <2>4
<1>6. CASE TryAcquire(t)
  <2> USE <1>6
  <2>1. TypeOK'
    BY DEF TryAcquire, Goto, TypeOK, PCs, Local
  <2>2. ASSUME NEW u \in Threads
        PROVE  Local(u)'
    BY DEF TryAcquire, Goto, TypeOK, Local, OneBaton, Baton, BatonCounted, Need
  <2>3. OneBaton'
    BY DEF TryAcquire, Goto, TypeOK, Local, OneBaton, Baton, BatonCounted, Need
  <2>4. BatonCounted'
    BY DEF TryAcquire, Goto, TypeOK, Local, OneBaton, Baton, BatonCounted, Need
  <2>5. QED
    BY <2>1, <2>2, <2>3, <2>4
<1>7. CASE TryInc(t)
  <2> USE <1>7
  <2>1. TypeOK'
    BY DEF TryInc, Goto, TypeOK, PCs, Local
  <2>2. ASSUME NEW u \in Threads
        PROVE  Local(u)'
    BY DEF TryInc, Goto, TypeOK, Local, OneBaton, Baton, BatonCounted, Need
  <2>3. OneBaton'
    BY DEF TryInc, Goto, TypeOK, Local, OneBaton, Baton, BatonCounted, Need
  <2>4. BatonCounted'
    BY DEF TryInc, Goto, TypeOK, Local, OneBaton, Baton, BatonCounted, Need
  <2>5. QED
    BY <2>1, <2>2, <2>3, <2>4
<1>8. CASE TryCas(t)
  <2> USE <1>8
  <2>1. TypeOK'
    BY DEF TryCas, Goto, TypeOK, PCs, Local
  <2>2. ASSUME NEW u \in Threads
        PROVE  Local(u)'
    BY DEF TryCas, Goto, TypeOK, Local, OneBaton, Baton, BatonCounted, Need
  <2>3. OneBaton'
    BY DEF TryCas, Goto, TypeOK, Local, OneBaton, Baton, BatonCounted, Need
  <2>4. BatonCounted'
    BY DEF TryCas, Goto, TypeOK, Local, OneBaton, Baton, BatonCounted, Need
  <2>5. QED
    BY <2>1, <2>2, <2>3, <2>4
<1>9. CASE Release(t)
  <2> USE <1>9
  <2>1. TypeOK'
    BY DEF Release, Goto, TypeOK, PCs, Local, Baton, BatonCounted, Need
  <2>2. ASSUME NEW u \in Threads
        PROVE  Local(u)'
    BY DEF Release, Goto, TypeOK, Local, OneBaton, Baton, BatonCounted, Need
  <2>3. OneBaton'
    BY DEF Release, Goto, TypeOK, Local, OneBaton, Baton, BatonCounted, Need
  <2>4. BatonCounted'
    BY DEF Release, Goto, TypeOK, Local, OneBaton, Baton, BatonCounted, Need
  <2>5. QED
    BY <2>1, <2>2, <2>3, <2>4
<1>10. CASE Disown(t)
  <2> USE <1>10
  <2>1. TypeOK'
    BY DEF Disown, Goto, TypeOK, PCs, Local
  <2>2. ASSUME NEW u \in Threads
        PROVE  Local(u)'
    BY DEF Disown, Goto, TypeOK, Local, OneBaton, Baton, BatonCounted, Need
  <2>3. OneBaton'
    BY DEF Disown, Goto, TypeOK, Local, OneBaton, Baton, BatonCounted, Need
  <2>4. BatonCounted'
    BY DEF Disown, Goto, TypeOK, Local, OneBaton, Baton, BatonCounted, Need
  <2>5. QED
    BY <2>1, <2>2, <2>3, <2>4
\* with others waiting t stays the baton until it posts, else the counter is zero
<1>11. CASE Drop(t)
  <2> USE <1>11
  <2>1. TypeOK'
    BY DEF Drop, Goto, TypeOK, PCs, Local, Baton, BatonCounted, Need
  <2>2. ASSUME NEW u \in Threads
        PROVE  Local(u)'
    BY DEF Drop, Goto, TypeOK, Local, OneBaton, Baton, BatonCounted, Need
  <2>3. OneBaton'
    BY DEF Drop, Goto, TypeOK, Local, OneBaton, Baton, BatonCounted, Need
  <2>4. BatonCounted'
    BY DEF Drop, Goto, TypeOK, Local, OneBaton, Baton, BatonCounted, Need
  <2>5. QED
    BY <2>1, <2>2, <2>3, <2>4
\* the baton t becomes the token
<1>12. CASE Post(t)
  <2> USE <1>12
  <2>1. TypeOK'
    BY DEF Post, Goto, TypeOK, PCs, Local
  <2>2. ASSUME NEW u \in Threads
        PROVE  Local(u)'
    BY DEF Post, Goto, TypeOK, Local, OneBaton, Baton, BatonCounted, Need
  <2>3. OneBaton'
    BY DEF Post, Goto, TypeOK, Local, OneBaton, Baton, BatonCounted, Need
  <2>4. BatonCounted'
    BY DEF Post, Goto, TypeOK, Local, OneBaton, Baton, BatonCounted, Need
  <2>5. QED
    BY <2>1, <2>2, <2>3, <2>4
\* the steps of giving up, and of a release that fails, are never reached
<1>13. ~(GiveUp(t) \/ Abandon(t) \/ Undo(t) \/ Reown(t) \/ Reset(t))
  BY DEF GiveUp, Abandon, Undo, Reown, Reset, Local
<1>14. ~PostFails(t)
  BY DEF PostFails, BatonCounted, Baton
<1>15. QED
  BY <1>1, <1>2, <1>3, <1>4, <1>5, <1>6, <1>7, <1>8, <1>9, <1>10, <1>11, <1>12, <1>13, <1>14 DEF Step, Call

LEMMA NextIInv ==
  ASSUME MayGiveUp = FALSE
  PROVE  IInv /\ [Next]_vars => IInv'
<1> SUFFICES ASSUME IInv, [Next]_vars PROVE IInv'
  OBVIOUS
<1>1. CASE Next
  BY <1>1, StepIInv DEF Next
<1>2. CASE UNCHANGED vars
  BY <1>2 DEF vars, IInv, TypeOK, Local, OneBaton, Baton, BatonCounted, Need
<1>3. QED
  BY <1>1, <1>2

(* While no caller gives up, the mutex stays in states the invariant allows. *)
THEOREM Invariance == ASSUME MayGiveUp = FALSE PROVE Spec => []IInv
BY InitIInv, NextIInv, PTL DEF Spec

(* Every variable of the mutex keeps its type: m_counter and m_recursion   *)
(* are unsigned and never wrap below zero.                                 *)
THEOREM TypeCorrect == ASSUME MayGiveUp = FALSE PROVE Spec => []TypeOK
<1>1. IInv => TypeOK
  BY DEF IInv
<1>2. QED
  BY <1>1, Invariance, PTL

(* For any number of threads and any nesting, no two threads are inside    *)
(* the mutex at once (AcquireNoexcept, TryAcquireNoexcept, the releases).  *)
THEOREM Exclusion == ASSUME MayGiveUp = FALSE PROVE Spec => []MutualExclusion
<1>1. IInv => MutualExclusion
  BY DEF IInv, OneBaton, Baton, MutualExclusion
<1>2. QED
  BY <1>1, Invariance, PTL

(* Between its calls, m_owner names a thread exactly if it holds the mutex:  *)
(* the assertion in ReleaseNoexcept and Release never fails for a holder,    *)
(* and ReleaseWithError refuses everybody else.                              *)
THEOREM OwnerCorrect == ASSUME MayGiveUp = FALSE PROVE Spec => []OwnerIsHolder
<1>1. IInv => OwnerIsHolder
  BY DEF IInv, Local, OwnerIsHolder
<1>2. QED
  BY <1>1, Invariance, PTL

(* The holder the abstraction sees, when some thread holds the mutex. *)
LEMMA HolderIsLockHolder ==
  ASSUME MutualExclusion, NEW t \in Threads, held[t] > 0
  PROVE  LockHolder = t
BY DEF MutualExclusion, LockHolder

(* A step that releases or completes an acquisition is that step of the     *)
(* abstract lock; every other step changes nothing the abstraction sees.    *)
LEMMA StepRefines ==
  ASSUME IInv, IInv', MayGiveUp = FALSE, NEW t \in Threads, Step(t) \/ Call(t)
  PROVE  Lock!Next \/ UNCHANGED <<LockHolder, recursion>>
<1>1. MutualExclusion /\ MutualExclusion'
  BY DEF IInv, OneBaton, Baton, MutualExclusion
<1>2. CASE Deepen(t)
  <2>1. /\ recursion' = recursion + 1
        /\ held'[t] > 0
        /\ \A u \in Threads : held[u] > 0 => u = t
    BY <1>2 DEF Deepen, IInv, TypeOK, OneBaton, Baton
  <2>2. LockHolder' = t
    BY <1>1, <2>1 DEF MutualExclusion, LockHolder
  <2>3. LockHolder \in {NoThread, t}
    BY <2>1 DEF LockHolder
  <2>4. QED
    BY <2>1, <2>2, <2>3 DEF Lock!Next, Lock!Acquire
<1>3. CASE Release(t)
  <2>1. /\ held[t] > 0
        /\ held'[t] = held[t] - 1
        /\ \A u \in Threads : u # t => held'[u] = 0
    BY <1>3 DEF Release, IInv, TypeOK, OneBaton, Baton
  <2>2. recursion = held[t] /\ recursion' = recursion - 1
    BY <1>3 DEF Release, IInv, BatonCounted, Baton
  <2>3. LockHolder = t
    BY <1>1, <2>1, HolderIsLockHolder
  <2>4. recursion > 0 /\ recursion \in Nat
    BY <2>1, <2>2 DEF IInv, TypeOK
  <2>5. LockHolder' = IF recursion = 1 THEN NoThread ELSE t
    <3>1. CASE recursion = 1
      BY <3>1, <2>1, <2>2 DEF LockHolder
    <3>2. CASE recursion # 1
      <4>1. held'[t] > 0
        BY <3>2, <2>1, <2>2, <2>4
      <4>2. QED
        BY <3>2, <4>1, <1>1 DEF MutualExclusion, LockHolder
    <3>3. QED
      BY <3>1, <3>2
  <2>6. QED
    BY <2>2, <2>3, <2>4, <2>5 DEF Lock!Next, Lock!Release
<1>4. CASE ~(Deepen(t) \/ Release(t))
  <2>1. ~(GiveUp(t) \/ Abandon(t) \/ Undo(t) \/ Reown(t) \/ Reset(t))
    BY DEF GiveUp, Abandon, Undo, Reown, Reset, IInv, Local
  <2>2. UNCHANGED <<held, recursion>>
    BY <1>4, <2>1 DEF Step, Call, Acquire, CheckOwner, Take, Own, TryAcquire,
                      TryInc, TryCas, Disown, Drop, Post, PostFails
  <2>3. QED
    BY <2>2 DEF LockHolder
<1>5. QED
  BY <1>2, <1>3, <1>4

(* DeeNativeMutex implements the abstract recursive lock.                  *)
THEOREM Refinement == ASSUME MayGiveUp = FALSE PROVE Spec => ImplementsLock
<1>1. Init => Lock!Init
  BY DEF Init, Lock!Init, LockHolder
<1>2. IInv /\ IInv' /\ [Next]_vars => [Lock!Next]_(Lock!lockVars)
  <2> SUFFICES ASSUME IInv, IInv', [Next]_vars
               PROVE  Lock!Next \/ UNCHANGED <<LockHolder, recursion>>
    BY DEF Lock!lockVars
  <2>1. CASE Next
    BY <2>1, StepRefines DEF Next
  <2>2. CASE UNCHANGED vars
    BY <2>2 DEF vars, LockHolder
  <2>3. QED
    BY <2>1, <2>2
<1>3. QED
  BY <1>1, <1>2, Invariance, PTL DEF Spec, ImplementsLock, Lock!Spec
----------------------------------------------------------------------------
(* The counter, for all callers: those that give up, and those whose post   *)
(* fails, as well.                                                          *)
Nesting == pc \in [Threads -> PCs] /\ held \in [Threads -> Nat]

ClaimsExact == Nesting /\ CounterExact

ClaimsOf == [t \in Threads |-> Claims(t)]

(* A step counts what its thread claims or gives back, and no thread holds  *)
(* less than nothing.                                                       *)
LEMMA StepClaims ==
  ASSUME Nesting, counter \in Int, NEW t \in Threads, Step(t) \/ Call(t)
  PROVE  /\ Nesting'
         /\ counter' = counter + (Claims(t)' - Claims(t))
         /\ \A u \in Threads \ {t} : Claims(u)' = Claims(u)
<1> USE DEF Nesting, Claims, Goto, PCs
<1>1. CASE Acquire(t)
  BY <1>1 DEF Acquire
<1>2. CASE CheckOwner(t)
  BY <1>2 DEF CheckOwner
<1>3. CASE Take(t)
  BY <1>3 DEF Take
<1>4. CASE GiveUp(t)
  BY <1>4 DEF GiveUp
<1>5. CASE Abandon(t)
  BY <1>5 DEF Abandon
<1>6. CASE Own(t)
  BY <1>6 DEF Own
<1>7. CASE Deepen(t)
  BY <1>7 DEF Deepen
<1>8. CASE TryAcquire(t)
  BY <1>8 DEF TryAcquire
<1>9. CASE TryInc(t)
  BY <1>9 DEF TryInc
<1>10. CASE TryCas(t)
  BY <1>10 DEF TryCas
<1>11. CASE Release(t)
  BY <1>11 DEF Release
<1>12. CASE Disown(t)
  BY <1>12 DEF Disown
<1>13. CASE Drop(t)
  BY <1>13 DEF Drop
<1>14. CASE Post(t)
  BY <1>14 DEF Post
<1>15. CASE PostFails(t)
  BY <1>15 DEF PostFails
<1>16. CASE Undo(t)
  BY <1>16 DEF Undo
<1>17. CASE Reown(t)
  BY <1>17 DEF Reown
<1>18. CASE Reset(t)
  BY <1>18 DEF Reset
<1>19. QED
  BY <1>1, <1>2, <1>3, <1>4, <1>5, <1>6, <1>7, <1>8, <1>9, <1>10, <1>11, <1>12,
     <1>13, <1>14, <1>15, <1>16, <1>17, <1>18
  DEF Step, Call

(* So the sum of the claims changes as the counter does. *)
LEMMA NextClaims ==
  ASSUME IsFiniteSet(Threads), ClaimsExact, [Next]_vars
  PROVE  ClaimsExact'
<1>1. ClaimsOf \in [Threads -> Nat] /\ counter = SumFunction(ClaimsOf)
  BY DEF ClaimsExact, CounterExact, ClaimsOf, Nesting, Claims
<1>2. counter \in Nat
  BY <1>1, SumNat
<1>3. ASSUME NEW t \in Threads, Step(t) \/ Call(t)
      PROVE  ClaimsExact'
  <2>1. /\ Nesting' /\ counter' = counter + (Claims(t)' - Claims(t))
        /\ \A u \in Threads \ {t} : Claims(u)' = Claims(u)
    BY <1>2, <1>3, StepClaims DEF ClaimsExact
  <2>2. ClaimsOf' \in [Threads -> Nat]
    BY <2>1 DEF ClaimsOf, Nesting, Claims
  <2>3. SumFunction(ClaimsOf') = SumFunction(ClaimsOf) + (ClaimsOf'[t] - ClaimsOf[t])
    <3>1. \A u \in Threads \ {t} : ClaimsOf'[u] = ClaimsOf[u]
      BY <2>1 DEF ClaimsOf
    <3>2. ClaimsOf \in [Threads -> Int] /\ ClaimsOf' \in [Threads -> Int]
      BY <1>1, <2>2
    <3>3. QED
      BY <3>1, <3>2, SumChange
  <2>4. counter' = SumFunction(ClaimsOf')
    BY <1>1, <2>1, <2>3 DEF ClaimsOf
  <2>5. QED
    BY <2>1, <2>4 DEF ClaimsExact, CounterExact, ClaimsOf
<1>4. CASE UNCHANGED vars
  BY <1>4 DEF vars, ClaimsExact, Nesting, CounterExact, Claims
<1>5. QED
  BY <1>3, <1>4 DEF Next

(* m_counter is the number of claims, whoever gives up and whatever is     *)
(* undone, also where other invariants fail.                                *)
THEOREM CounterCorrect ==
  ASSUME IsFiniteSet(Threads)
  PROVE  Spec => []CounterExact
<1>1. Init => ClaimsExact
  <2> SUFFICES ASSUME Init PROVE ClaimsExact
    OBVIOUS
  <2>1. Nesting
    BY DEF Init, Nesting, PCs
  <2>2. ClaimsOf \in [Threads -> Nat] /\ \A t \in Threads : ClaimsOf[t] = 0
    BY DEF Init, ClaimsOf, Claims
  <2>3. SumFunction(ClaimsOf) = 0
    BY <2>2, SumNat
  <2>4. QED
    BY <2>1, <2>3 DEF ClaimsExact, CounterExact, ClaimsOf, Init
<1>2. ClaimsExact /\ [Next]_vars => ClaimsExact'
  BY NextClaims
<1>3. ClaimsExact => CounterExact
  BY DEF ClaimsExact
<1>4. QED
  BY <1>1, <1>2, <1>3, PTL DEF Spec

(* A token in the semaphore is for a thread that has not yet gone to sleep  *)
(* or still sleeps: the token is the baton, so nobody else has a claim.     *)
THEOREM TokenCorrect ==
  ASSUME MayGiveUp = FALSE, IsFiniteSet(Threads)
  PROVE  Spec => []TokenHasTaker
<1>1. IInv /\ CounterExact => TokenHasTaker
  <2> SUFFICES ASSUME IInv, CounterExact, sem > 0 PROVE TokenHasTaker
    BY DEF TokenHasTaker
  <2>1. sem = 1 /\ counter >= 1 /\ \A t \in Threads : ~Baton(t)
    BY DEF IInv, BatonCounted, TypeOK
  <2>2. ClaimsOf \in [Threads -> Nat] /\ counter = SumFunction(ClaimsOf)
    BY DEF IInv, TypeOK, CounterExact, ClaimsOf, Claims
  <2>3. PICK t \in Threads : ClaimsOf[t] # 0
    BY <2>1, <2>2, SumNat
  <2>4. pc[t] \in {"whose", "wait"}
    BY <2>1, <2>3 DEF IInv, TypeOK, PCs, Local, Baton, ClaimsOf, Claims
  <2>5. QED
    BY <2>1, <2>4 DEF TokenHasTaker
<1>2. QED
  BY <1>1, Invariance, CounterCorrect, PTL
=============================================================================
