------------------------ MODULE ObjectLifetimeProofs ------------------------
(***************************************************************************)
(* Proofs about ObjectLifetime for any finite set of threads, any chain of *)
(* types and any number of references, when an object of the garbage       *)
(* collector does not clear itself always (the finding about objects       *)
(* revived while their destroyer still uses them excludes the others), and *)
(* only the most derived type of an object may do so.                      *)
(*                                                                         *)
(* The argument: a count is the size of a set of references, so that it is *)
(* zero only when nobody owns one; the thread that took __ob_refcnt to     *)
(* zero is alone in the destruction, and has a token in __ob_weakcnt until *)
(* it is done; the thread that takes __ob_weakcnt to zero frees.           *)
(***************************************************************************)
EXTENDS ObjectLifetime, Sums

KindsAssumption ==
  \A k \in Kinds : k.clears \subseteq {1} /\ (k.gc => k.clears = {})

(* The references __ob_refcnt counts: those of the threads, numbered, and   *)
(* the fake one of tp_clear.                                                *)
Refs ==
  {r \in Threads \X (0..MaxRefs + 1) :
     IF r[2] = 0 THEN pc[r[1]] = "clear" ELSE r[2] <= strong[r[1]]}

(* The destruction of the object is not complete. *)
Incomplete ==
  \/ dtors[Levels] = 0
  \/ \E t \in Threads : pc[t] \in {"weakcas", "restore", "weakdec"}

(* The references __ob_weakcnt counts, and the token of the destruction. *)
WeakRefs ==
  {r \in Threads \X (1..MaxRefs) : r[2] <= weak[r[1]]}
    \cup (IF Incomplete THEN {<<0, 0>>} ELSE {})

Types ==
  /\ TypeOK
  /\ strong \in [Threads -> 0..MaxRefs + 1] /\ weak \in [Threads -> 0..MaxRefs]
  /\ freed \in 0..1 /\ dtors \in [1..Levels -> 0..1]

(* In the destruction with no reference left, and in the destruction.       *)
Dying(t) ==
  pc[t] \in {"untrack", "level", "dtor", "weakcas", "restore", "weakdec", "free"}
Destroying(t) == Dying(t) \/ pc[t] = "clear"
Freeing(t) == pc[t] \in {"free", "weakfree"}

(* What a thread knows at each of its steps. *)
Local(t) ==
  /\ pc[t] \notin {"retype", "retrack"}
  /\ Dying(t) => refcnt = 0
  /\ pc[t] \in {"untrack", "level", "clear", "dtor"} =>
       /\ level[t] = type
       /\ \A l \in 1..Levels : dtors[l] = IF l < type THEN 1 ELSE 0
  /\ pc[t] \in {"untrack", "clear"} => type = 1
  /\ pc[t] = "untrack" => kind.gc
  /\ pc[t] = "clear" => ~kind.gc
  /\ Destroying(t) => first[t] = 1
  /\ pc[t] \in {"weakcas", "restore", "weakdec"} \/ Freeing(t) =>
       \A l \in 1..Levels : dtors[l] = 1
  /\ pc[t] \in {"weakdec", "weakfree"} => type = 1
  /\ pc[t] = "lockcas" => seen[t] > 0 /\ strong[t] <= MaxRefs
  /\ pc[t] \in {"lockcas", "relock"} => weak[t] > 0
  /\ Freeing(t) => weakcnt = 0 /\ freed = 0

OneDestroyer ==
  \A t, u \in Threads : Destroying(t) /\ Destroying(u) => t = u

OneFreer == \A t, u \in Threads : Freeing(t) /\ Freeing(u) => t = u

(* While there is a reference nothing is destroyed, and when there is none  *)
(* everything is, or somebody is about it.                                  *)
Alive ==
  /\ refcnt > 0 => type = 1 /\ \A l \in 1..Levels : dtors[l] = 0
  /\ refcnt = 0 => \/ \E t \in Threads : Destroying(t)
                   \/ \A l \in 1..Levels : dtors[l] = 1

Tracking ==
  /\ tracked => kind.gc /\ (refcnt > 0 \/ \E t \in Threads : pc[t] = "untrack")
  /\ kind.gc /\ refcnt > 0 => tracked

(* The object is freed when and only when nothing is counted any longer. *)
FreedLast ==
  /\ weakcnt = 0 => freed = 1 \/ \E t \in Threads : Freeing(t)
  /\ weakcnt > 0 => freed = 0

(* Who is left to free the object finds its own type. *)
Restored ==
  /\ dtors[Levels] = 1 /\ weakcnt > 0
  /\ \A t \in Threads : pc[t] \notin {"weakcas", "restore"}
  => type = 1

Counts == refcnt = Cardinality(Refs) /\ weakcnt = Cardinality(WeakRefs)

(* The inductive invariant. *)
IInv ==
  /\ Types
  /\ Counts
  /\ \A t \in Threads : Local(t)
  /\ OneDestroyer /\ OneFreer
  /\ Alive /\ Tracking /\ FreedLast /\ Restored

----------------------------------------------------------------------------
(* Facts about the sets of references. *)

(* Adding an element counts one more. *)
LEMMA Added ==
  ASSUME NEW S, NEW x, IsFiniteSet(S), x \notin S
  PROVE  Cardinality(S \cup {x}) = Cardinality(S) + 1
  BY FS_AddElement

(* Removing an element counts one less. *)
LEMMA Removed ==
  ASSUME NEW S, NEW x, IsFiniteSet(S), x \in S
  PROVE  Cardinality(S \ {x}) = Cardinality(S) - 1
  BY FS_RemoveElement

(* A set that is counted is empty when and only when its size is zero. *)
LEMMA Empty ==
  ASSUME NEW S, IsFiniteSet(S)
  PROVE  /\ Cardinality(S) \in Nat
         /\ Cardinality(S) = 0 <=> S = {}
  BY FS_CardinalityType, FS_EmptySet

(* The references of finitely many threads are finite. *)
LEMMA RefsFinite ==
  ASSUME IsFiniteSet(Threads)
  PROVE  IsFiniteSet(Refs) /\ IsFiniteSet(WeakRefs)
<1>. USE ConstantsOK
<1>1. IsFiniteSet(0..MaxRefs + 1) /\ IsFiniteSet(1..MaxRefs)
  BY FS_Interval
<1>2. IsFiniteSet(Threads \X (0..MaxRefs + 1))
  BY <1>1, FS_Product
<1>3. IsFiniteSet(Threads \X (1..MaxRefs))
  BY <1>1, FS_Product
<1>4. IsFiniteSet(Refs)
  BY <1>2, FS_Subset DEF Refs
<1>5. IsFiniteSet({r \in Threads \X (1..MaxRefs) : r[2] <= weak[r[1]]})
  BY <1>3, FS_Subset
<1>6. IsFiniteSet(IF Incomplete THEN {<<0, 0>>} ELSE {})
  BY FS_EmptySet, FS_Singleton
<1>. QED
  BY <1>4, <1>5, <1>6, FS_Union DEF WeakRefs

(* What the counters say of the references. *)
LEMMA CountFacts ==
  ASSUME IsFiniteSet(Threads), Types, Counts
  PROVE  /\ \A t \in Threads : strong[t] > 0 \/ pc[t] = "clear" => refcnt > 0
         /\ \A t \in Threads : weak[t] > 0 => weakcnt > 0
         /\ Incomplete => weakcnt > 0
         /\ refcnt > 0 => \E t \in Threads : strong[t] > 0 \/ pc[t] = "clear"
         /\ weakcnt > 0 => Incomplete \/ \E t \in Threads : weak[t] > 0
<1>. USE ConstantsOK
<1>1. /\ refcnt \in Nat /\ (refcnt = 0 <=> Refs = {})
      /\ weakcnt \in Nat /\ (weakcnt = 0 <=> WeakRefs = {})
  BY RefsFinite, Empty DEF Counts
<1>2. ASSUME NEW t \in Threads, strong[t] > 0
      PROVE  refcnt > 0
  <2>1. <<t, 1>> \in Refs
    BY <1>2 DEF Refs, Types
  <2>. QED
    BY <1>1, <2>1
<1>3. ASSUME NEW t \in Threads, pc[t] = "clear"
      PROVE  refcnt > 0
  <2>1. <<t, 0>> \in Refs
    BY <1>3 DEF Refs, Types
  <2>. QED
    BY <1>1, <2>1
<1>4. ASSUME NEW t \in Threads, weak[t] > 0
      PROVE  weakcnt > 0
  <2>1. <<t, 1>> \in WeakRefs
    BY <1>4 DEF WeakRefs, Types
  <2>. QED
    BY <1>1, <2>1
<1>5. ASSUME Incomplete
      PROVE  weakcnt > 0
  <2>1. <<0, 0>> \in WeakRefs
    BY <1>5 DEF WeakRefs
  <2>. QED
    BY <1>1, <2>1
<1>6. ASSUME refcnt > 0
      PROVE  \E t \in Threads : strong[t] > 0 \/ pc[t] = "clear"
  <2>1. PICK r \in Refs : TRUE
    BY <1>1, <1>6
  <2>. QED
    BY <2>1 DEF Refs, Types
<1>7. ASSUME weakcnt > 0, ~Incomplete
      PROVE  \E t \in Threads : weak[t] > 0
  <2>1. PICK r \in WeakRefs : TRUE
    BY <1>1, <1>7
  <2>. QED
    BY <1>7, <2>1 DEF WeakRefs, Types
<1>. QED
  BY <1>2, <1>3, <1>4, <1>5, <1>6, <1>7

----------------------------------------------------------------------------
(* The type invariant and the counters, step by step. *)

(* Only threads use the object. *)
LEMMA UsersAreThreads ==
  ASSUME TypeOK
  PROVE  Users \subseteq Threads
BY ConstantsOK DEF TypeOK, Users

(* What a thread owns, and how often the object was freed. *)
Owning ==
  /\ refcnt \in Nat /\ weakcnt \in Nat
  /\ strong \in [Threads -> 0..MaxRefs + 1] /\ weak \in [Threads -> 0..MaxRefs]

(* Counters are never taken below zero, and a thread owns MaxRefs references, *)
(* or one more from a weak reference.                                         *)
LEMMA StepOwning ==
  ASSUME KindsAssumption, IsFiniteSet(Threads), IInv, Next
  PROVE  Owning'
<1>. USE ConstantsOK
<1>0. ASSUME NEW t \in Threads
      PROVE  /\ strong[t] > 0 => refcnt > 0
             /\ weak[t] > 0 => weakcnt > 0
             /\ pc[t] = "clear" => refcnt > 0
             /\ pc[t] = "weakdec" => weakcnt > 0
             /\ pc[t] = "lockcas" => strong[t] <= MaxRefs
  BY CountFacts DEF Incomplete, IInv, Local
<1>1. Owning /\ TypeOK
  BY DEF IInv, Types, TypeOK, Owning
<1>. SUFFICES ASSUME NEW t \in Threads, NEW u \in Threads,
                     \/ Destroy(t) \/ Drop(t) \/ LockRead(t) \/ LockCas(t)
                     \/ IncRef(t, u) \/ WeakIncRef(t, u)
                     \/ ClearKeeps(t, u) \/ ClearKeepsWeak(t, u)
              PROVE  Owning'
  BY <1>1, UsersAreThreads DEF Next, Use
<1>2. CASE IncRef(t, u)
  BY <1>0, <1>1, <1>2 DEF IncRef, Owning, owned
<1>3. CASE WeakIncRef(t, u)
  BY <1>0, <1>1, <1>3 DEF WeakIncRef, Owning, owned
<1>4. CASE DecRef(t)
  BY <1>0, <1>1, <1>4 DEF DecRef, Owning, owned
<1>5. CASE WeakDecRef(t)
  BY <1>0, <1>1, <1>5 DEF WeakDecRef, Owning, owned
<1>6. CASE LockCas(t)
  BY <1>0, <1>1, <1>6 DEF LockCas, Owning, owned
<1>7. CASE EnterLevel(t)
  BY <1>0, <1>1, <1>7 DEF EnterLevel, Owning, owned
<1>8. CASE ClearKeeps(t, u)
  BY <1>0, <1>1, <1>8 DEF ClearKeeps, Owning, owned
<1>9. CASE ClearKeepsWeak(t, u)
  BY <1>0, <1>1, <1>9 DEF ClearKeepsWeak, Owning, owned
<1>10. CASE Unfake(t)
  BY <1>0, <1>1, <1>10 DEF Unfake, Owning, owned
<1>11. CASE WeakCas(t)
  BY <1>0, <1>1, <1>11 DEF WeakCas, Owning, owned
<1>12. CASE WeakDec(t)
  BY <1>0, <1>1, <1>12 DEF WeakDec, Owning, owned
<1>13. CASE WeakFree(t) \/ LockRead(t) \/ Untrack(t) \/ Retype(t)
  BY <1>1, <1>13 DEF WeakFree, LockRead, Untrack, Retype, Owning, counts, owned
<1>14. CASE Retrack(t) \/ Dtor(t) \/ Restore(t) \/ Free(t)
  BY <1>1, <1>14 DEF Retrack, Dtor, Restore, Free, Owning, counts, owned
<1>. QED
  BY <1>2, <1>3, <1>4, <1>5, <1>6, <1>7, <1>8, <1>9, <1>10, <1>11, <1>12, <1>13,
     <1>14
  DEF Destroy, Drop

(* Where the threads are, and what is left of the object. *)
Control ==
  /\ kind \in Kinds /\ type \in 1..Levels /\ tracked \in BOOLEAN
  /\ freed \in 0..1 /\ dtors \in [1..Levels -> 0..1]
  /\ first \in [Threads -> 1..Levels] /\ level \in [Threads -> 1..Levels]
  /\ seen \in [Threads -> Nat]
  /\ pc \in [Threads -> {"idle", "weakfree", "relock", "lockcas", "untrack",
                         "level", "clear", "retype", "retrack", "dtor",
                         "weakcas", "restore", "weakdec", "free"}]

(* Every step leads on from where a thread is; nothing is destructed or freed *)
(* twice.                                                                     *)
LEMMA StepControl ==
  ASSUME KindsAssumption, IInv, Next
  PROVE  Control'
<1>. USE ConstantsOK DEF Goto
<1>0. ASSUME NEW t \in Threads
      PROVE  /\ pc[t] = "dtor" => level[t] \in 1..Levels /\ dtors[level[t]] = 0
             /\ pc[t] \in {"free", "weakfree"} => freed = 0
  BY DEF IInv, Types, TypeOK, Local, Freeing
<1>1. Control /\ TypeOK /\ refcnt \in Nat
  BY DEF IInv, Types, TypeOK, Control
<1>. SUFFICES ASSUME NEW t \in Threads, NEW u \in Threads,
                     \/ Destroy(t) \/ Drop(t) \/ LockRead(t) \/ LockCas(t)
                     \/ IncRef(t, u) \/ WeakIncRef(t, u)
                     \/ ClearKeeps(t, u) \/ ClearKeepsWeak(t, u)
              PROVE  Control'
  BY <1>1, UsersAreThreads DEF Next, Use
<1>2. CASE IncRef(t, u)
  BY <1>0, <1>1, <1>2 DEF IncRef, Control, body, locals
<1>3. CASE WeakIncRef(t, u)
  BY <1>0, <1>1, <1>3 DEF WeakIncRef, Control, body, locals
<1>4. CASE DecRef(t)
  BY <1>0, <1>1, <1>4, ZenonT(30) DEF DecRef, Control, body, locals
<1>5. CASE WeakDecRef(t)
  BY <1>0, <1>1, <1>5 DEF WeakDecRef, Control, body, locals
<1>6. CASE WeakFree(t)
  BY <1>0, <1>1, <1>6 DEF WeakFree, Control, body, locals
<1>7. CASE LockRead(t)
  BY <1>0, <1>1, <1>7 DEF LockRead, Control, body, locals
<1>8. CASE LockCas(t)
  BY <1>0, <1>1, <1>8 DEF LockCas, Control, body, locals
<1>9. CASE Untrack(t)
  BY <1>0, <1>1, <1>9 DEF Untrack, Control, body, locals
<1>10. CASE EnterLevel(t)
  BY <1>0, <1>1, <1>10 DEF EnterLevel, Control, body, locals
<1>11. CASE ClearKeeps(t, u)
  BY <1>0, <1>1, <1>11 DEF ClearKeeps, Control, body, locals
<1>12. CASE ClearKeepsWeak(t, u)
  BY <1>0, <1>1, <1>12 DEF ClearKeepsWeak, Control, body, locals
<1>13. CASE Unfake(t)
  BY <1>0, <1>1, <1>13 DEF Unfake, Control, body, locals
<1>14. CASE Retype(t)
  BY <1>0, <1>1, <1>14 DEF Retype, Control, body, locals
<1>15. CASE Retrack(t)
  BY <1>0, <1>1, <1>15 DEF Retrack, Control, body, locals
<1>16. CASE Dtor(t)
  <2>1. dtors' \in [1..Levels -> 0..1]
    BY <1>0, <1>1, <1>16 DEF Dtor, Control
  <2>2. type' \in 1..Levels /\ level' \in [Threads -> 1..Levels]
    <3>1. CASE level[t] = Levels
      BY <1>1, <1>16, <3>1 DEF Dtor, Control
    <3>2. CASE level[t] # Levels
      <4>1. level[t] + 1 \in 1..Levels
        BY <1>1, <3>2 DEF Control
      <4>. QED
        BY <1>1, <1>16, <3>2, <4>1 DEF Dtor, Control
    <3>. QED
      BY <3>1, <3>2
  <2>. QED
    BY <1>0, <1>1, <1>16, <2>1, <2>2 DEF Dtor, Control
<1>17. CASE WeakCas(t)
  BY <1>0, <1>1, <1>17 DEF WeakCas, Control, body, locals
<1>18. CASE Restore(t)
  BY <1>0, <1>1, <1>18 DEF Restore, Control, body, locals
<1>19. CASE WeakDec(t)
  BY <1>0, <1>1, <1>19 DEF WeakDec, Control, body, locals
<1>20. CASE Free(t)
  BY <1>0, <1>1, <1>20 DEF Free, Control, body, locals
<1>. QED
  BY <1>2, <1>3, <1>4, <1>5, <1>6, <1>7, <1>8, <1>9, <1>10, <1>11, <1>12, <1>13,
     <1>14, <1>15, <1>16, <1>17, <1>18, <1>19, <1>20
  DEF Destroy, Drop

(* Together: the types after a step. *)
LEMMA StepTypes ==
  ASSUME KindsAssumption, IsFiniteSet(Threads), IInv, Next
  PROVE  Types'
<1>. USE ConstantsOK
<1>1. Owning' /\ Control'
  BY StepOwning, StepControl
<1>2. strong' \in [Threads -> Nat] /\ weak' \in [Threads -> Nat]
  BY <1>1 DEF Owning
<1>3. dtors' \in [1..Levels -> Nat] /\ freed' \in Nat
  BY <1>1, SMTT(30) DEF Control
<1>. QED
  BY <1>1, <1>2, <1>3 DEF Owning, Control, Types, TypeOK

(* How a step changes the set of references. *)
LEMMA SameRefs ==
  ASSUME strong' = strong,
         \A t \in Threads : pc'[t] = "clear" <=> pc[t] = "clear"
  PROVE  Refs' = Refs
BY DEF Refs

(* A thread that takes a reference adds one, numbered... *)
LEMMA MoreRefs ==
  ASSUME Types, NEW u \in Threads, strong[u] <= MaxRefs,
         strong' = [strong EXCEPT ![u] = @ + 1],
         \A t \in Threads : pc'[t] = "clear" <=> pc[t] = "clear"
  PROVE  /\ Refs' = Refs \cup {<<u, strong[u] + 1>>}
         /\ <<u, strong[u] + 1>> \notin Refs
<1>. USE ConstantsOK DEF Types
<1>1. <<u, strong[u] + 1>> \notin Refs /\ <<u, strong[u] + 1>> \in Refs'
  BY DEF Refs
<1>2. ASSUME NEW r \in Refs
      PROVE  r \in Refs'
  BY <1>2 DEF Refs
<1>3. ASSUME NEW r \in Refs', r # <<u, strong[u] + 1>>
      PROVE  r \in Refs
  <2>1. PICK t \in Threads, n \in 0..MaxRefs + 1 : r = <<t, n>>
    BY <1>3 DEF Refs
  <2>2. IF n = 0 THEN pc'[t] = "clear" ELSE n <= strong'[t]
    BY <1>3, <2>1 DEF Refs
  <2>3. IF n = 0 THEN pc[t] = "clear" ELSE n <= strong[t]
    BY <1>3, <2>1, <2>2
  <2>. QED
    BY <2>1, <2>3 DEF Refs
<1>. QED
  BY <1>1, <1>2, <1>3

(* ... and one that drops a reference removes its last. *)
LEMMA LessRefs ==
  ASSUME Types, NEW u \in Threads, strong[u] > 0,
         strong' = [strong EXCEPT ![u] = @ - 1],
         \A t \in Threads : pc'[t] = "clear" <=> pc[t] = "clear"
  PROVE  Refs' = Refs \ {<<u, strong[u]>>} /\ <<u, strong[u]>> \in Refs
<1>. USE ConstantsOK DEF Types
<1>1. <<u, strong[u]>> \in Refs /\ <<u, strong[u]>> \notin Refs'
  BY DEF Refs
<1>2. ASSUME NEW r \in Refs', r # <<u, strong[u]>>
      PROVE  r \in Refs
  BY <1>2 DEF Refs
<1>3. ASSUME NEW r \in Refs, r # <<u, strong[u]>>
      PROVE  r \in Refs'
  <2>1. PICK t \in Threads, n \in 0..MaxRefs + 1 : r = <<t, n>>
    BY <1>3 DEF Refs
  <2>2. IF n = 0 THEN pc[t] = "clear" ELSE n <= strong[t]
    BY <1>3, <2>1 DEF Refs
  <2>3. IF n = 0 THEN pc'[t] = "clear" ELSE n <= strong'[t]
    BY <1>3, <2>1, <2>2
  <2>. QED
    BY <2>1, <2>3 DEF Refs
<1>. QED
  BY <1>1, <1>2, <1>3

(* Entering tp_clear adds the fake reference, and leaving it removes it. *)
LEMMA FakeRef ==
  ASSUME NEW t \in Threads, strong' = strong,
         \A u \in Threads \ {t} : pc'[u] = "clear" <=> pc[u] = "clear"
  PROVE  /\ pc[t] # "clear" /\ pc'[t] = "clear" =>
              Refs' = Refs \cup {<<t, 0>>} /\ <<t, 0>> \notin Refs
         /\ pc[t] = "clear" /\ pc'[t] # "clear" =>
              Refs' = Refs \ {<<t, 0>>} /\ <<t, 0>> \in Refs
BY ConstantsOK DEF Refs

(* ... and of weak references. *)
LEMMA SameWeak ==
  ASSUME weak' = weak, Incomplete' <=> Incomplete
  PROVE  WeakRefs' = WeakRefs
BY DEF WeakRefs

(* A new weak reference adds one... *)
LEMMA MoreWeak ==
  ASSUME Types, NEW u \in Threads, weak[u] < MaxRefs,
         weak' = [weak EXCEPT ![u] = @ + 1], Incomplete' <=> Incomplete
  PROVE  /\ WeakRefs' = WeakRefs \cup {<<u, weak[u] + 1>>}
         /\ <<u, weak[u] + 1>> \notin WeakRefs
<1>. USE ConstantsOK DEF Types
<1>. DEFINE Rs == {r \in Threads \X (1..MaxRefs) : r[2] <= weak[r[1]]}
<1>1. <<u, weak[u] + 1>> \notin Rs /\ <<u, weak[u] + 1>> \in Rs'
  OBVIOUS
<1>2. ASSUME NEW r \in Rs
      PROVE  r \in Rs'
  BY <1>2
<1>3. ASSUME NEW r \in Rs', r # <<u, weak[u] + 1>>
      PROVE  r \in Rs
  <2>1. PICK t \in Threads, n \in 1..MaxRefs : r = <<t, n>> /\ n <= weak'[t]
    BY <1>3
  <2>2. n <= weak[t]
    BY <1>3, <2>1
  <2>. QED
    BY <2>1, <2>2
<1>4. <<u, weak[u] + 1>> # <<0, 0>>
  OBVIOUS
<1>. HIDE DEF Types
<1>. QED
  BY <1>1, <1>2, <1>3, <1>4 DEF WeakRefs

(* ... a dropped one removes one... *)
LEMMA LessWeak ==
  ASSUME Types, NEW u \in Threads, weak[u] > 0,
         weak' = [weak EXCEPT ![u] = @ - 1], Incomplete' <=> Incomplete
  PROVE  WeakRefs' = WeakRefs \ {<<u, weak[u]>>} /\ <<u, weak[u]>> \in WeakRefs
<1>. USE ConstantsOK DEF Types
<1>. DEFINE Rs == {r \in Threads \X (1..MaxRefs) : r[2] <= weak[r[1]]}
<1>1. <<u, weak[u]>> \in Rs /\ <<u, weak[u]>> \notin Rs'
  OBVIOUS
<1>2. ASSUME NEW r \in Rs'
      PROVE  r \in Rs
  BY <1>2
<1>3. ASSUME NEW r \in Rs, r # <<u, weak[u]>>
      PROVE  r \in Rs'
  <2>1. PICK t \in Threads, n \in 1..MaxRefs : r = <<t, n>> /\ n <= weak[t]
    BY <1>3
  <2>2. n <= weak'[t]
    BY <1>3, <2>1
  <2>. QED
    BY <2>1, <2>2
<1>4. <<u, weak[u]>> # <<0, 0>>
  OBVIOUS
<1>. HIDE DEF Types
<1>. QED
  BY <1>1, <1>2, <1>3, <1>4 DEF WeakRefs

(* ... and the end of the destruction removes its token. *)
LEMMA Token ==
  ASSUME weak' = weak, Incomplete, ~Incomplete'
  PROVE  WeakRefs' = WeakRefs \ {<<0, 0>>} /\ <<0, 0>> \in WeakRefs
BY ConstantsOK DEF WeakRefs

(* A step takes a reference, gives one back, or neither. *)
LEMMA StepRefcnt ==
  ASSUME KindsAssumption, IsFiniteSet(Threads), IInv, Next
  PROVE  (refcnt = Cardinality(Refs))'
<1>. USE ConstantsOK DEF Goto
<1>0. IsFiniteSet(Refs) /\ refcnt = Cardinality(Refs) /\ refcnt \in Nat
  BY RefsFinite DEF Counts, IInv, Types, TypeOK
<1>1. /\ TypeOK /\ Types /\ DOMAIN pc = Threads
      /\ strong \in [Threads -> 0..MaxRefs + 1]
  BY DEF IInv, Types, TypeOK
<1>. SUFFICES ASSUME NEW t \in Threads, NEW u \in Threads,
                     \/ Destroy(t) \/ Drop(t) \/ LockRead(t) \/ LockCas(t)
                     \/ IncRef(t, u) \/ WeakIncRef(t, u)
                     \/ ClearKeeps(t, u) \/ ClearKeepsWeak(t, u)
              PROVE  (refcnt = Cardinality(Refs))'
  BY <1>1, UsersAreThreads DEF Next, Use
<1>2. CASE IncRef(t, u)
  <2>1. /\ strong[u] <= MaxRefs /\ strong' = [strong EXCEPT ![u] = @ + 1]
        /\ refcnt' = refcnt + 1
        /\ \A v \in Threads : pc'[v] = "clear" <=> pc[v] = "clear"
    BY <1>1, <1>2 DEF IncRef, counts, owned
  <2>. QED
    BY <1>0, <1>1, <2>1, MoreRefs, Added
<1>3. CASE ClearKeeps(t, u)
  <2>1. /\ strong[u] <= MaxRefs /\ strong' = [strong EXCEPT ![u] = @ + 1]
        /\ refcnt' = refcnt + 1
        /\ \A v \in Threads : pc'[v] = "clear" <=> pc[v] = "clear"
    BY <1>1, <1>3 DEF ClearKeeps, counts, owned
  <2>. QED
    BY <1>0, <1>1, <2>1, MoreRefs, Added
<1>4. CASE DecRef(t)
  <2>1. /\ strong[t] > 0 /\ strong' = [strong EXCEPT ![t] = @ - 1]
        /\ refcnt' = refcnt - 1
        /\ \A v \in Threads : pc'[v] = "clear" <=> pc[v] = "clear"
    BY <1>1, <1>4 DEF DecRef
  <2>. QED
    BY <1>0, <1>1, <2>1, LessRefs, Removed
<1>5. CASE LockCas(t)
  <2>1. CASE refcnt = seen[t]
    <3>1. strong[t] <= MaxRefs
      BY <1>5 DEF LockCas, IInv, Local
    <3>2. /\ strong' = [strong EXCEPT ![t] = @ + 1]
          /\ refcnt' = refcnt + 1
          /\ \A v \in Threads : pc'[v] = "clear" <=> pc[v] = "clear"
      BY <1>1, <1>5, <2>1 DEF LockCas
    <3>. QED
      BY <1>0, <1>1, <3>1, <3>2, MoreRefs, Added
  <2>2. CASE refcnt # seen[t]
    <3>1. /\ strong' = strong /\ refcnt' = refcnt
          /\ \A v \in Threads : pc'[v] = "clear" <=> pc[v] = "clear"
      BY <1>1, <1>5, <2>2 DEF LockCas
    <3>. QED
      BY <1>0, <3>1, SameRefs
  <2>. QED
    BY <2>1, <2>2
<1>6. CASE EnterLevel(t)
  <2>1. /\ strong' = strong /\ pc[t] # "clear"
        /\ \A v \in Threads \ {t} : pc'[v] = "clear" <=> pc[v] = "clear"
    BY <1>1, <1>6 DEF EnterLevel, owned
  <2>2. CASE level[t] \in kind.clears
    <3>1. refcnt' = refcnt + 1 /\ pc'[t] = "clear"
      BY <1>1, <1>6, <2>2 DEF EnterLevel
    <3>. QED
      BY <1>0, <2>1, <3>1, FakeRef, Added
  <2>3. CASE level[t] \notin kind.clears
    <3>1. refcnt' = refcnt /\ pc'[t] # "clear"
      BY <1>1, <1>6, <2>3 DEF EnterLevel
    <3>. QED
      BY <1>0, <2>1, <3>1, SameRefs
  <2>. QED
    BY <2>2, <2>3
<1>7. CASE Unfake(t)
  <2>1. /\ strong' = strong /\ pc[t] = "clear" /\ pc'[t] # "clear"
        /\ refcnt' = refcnt - 1
        /\ \A v \in Threads \ {t} : pc'[v] = "clear" <=> pc[v] = "clear"
    BY <1>1, <1>7 DEF Unfake, owned
  <2>. QED
    BY <1>0, <2>1, FakeRef, Removed
<1>8. CASE WeakIncRef(t, u) \/ WeakDecRef(t) \/ WeakFree(t) \/ LockRead(t)
  <2>1. /\ strong' = strong /\ refcnt' = refcnt
        /\ \A v \in Threads : pc'[v] = "clear" <=> pc[v] = "clear"
    BY <1>1, <1>8 DEF WeakIncRef, WeakDecRef, WeakFree, LockRead, counts, owned
  <2>. QED
    BY <1>0, <2>1, SameRefs
<1>9. CASE Untrack(t) \/ ClearKeepsWeak(t, u) \/ Retype(t) \/ Retrack(t) \/ Dtor(t)
  <2>1. /\ strong' = strong /\ refcnt' = refcnt
        /\ \A v \in Threads : pc'[v] = "clear" <=> pc[v] = "clear"
    BY <1>1, <1>9 DEF Untrack, ClearKeepsWeak, Retype, Retrack, Dtor, counts, owned
  <2>. QED
    BY <1>0, <2>1, SameRefs
<1>10. CASE WeakCas(t) \/ Restore(t) \/ WeakDec(t) \/ Free(t)
  <2>1. /\ strong' = strong /\ refcnt' = refcnt
        /\ \A v \in Threads : pc'[v] = "clear" <=> pc[v] = "clear"
    BY <1>1, <1>10 DEF WeakCas, Restore, WeakDec, Free, counts, owned
  <2>. QED
    BY <1>0, <2>1, SameRefs
<1>. QED
  BY <1>2, <1>3, <1>4, <1>5, <1>6, <1>7, <1>8, <1>9, <1>10 DEF Destroy, Drop

(* The destruction has its token in __ob_weakcnt until it is complete. *)
LEMMA StepWeakcnt ==
  ASSUME KindsAssumption, IsFiniteSet(Threads), IInv, Next
  PROVE  (weakcnt = Cardinality(WeakRefs))'
<1>. USE ConstantsOK DEF Goto
<1>0. IsFiniteSet(WeakRefs) /\ weakcnt = Cardinality(WeakRefs) /\ weakcnt \in Nat
  BY RefsFinite DEF Counts, IInv, Types, TypeOK
<1>1. /\ TypeOK /\ Types /\ DOMAIN pc = Threads
      /\ weak \in [Threads -> 0..MaxRefs]
  BY DEF IInv, Types, TypeOK
<1>. SUFFICES ASSUME NEW t \in Threads, NEW u \in Threads,
                     \/ Destroy(t) \/ Drop(t) \/ LockRead(t) \/ LockCas(t)
                     \/ IncRef(t, u) \/ WeakIncRef(t, u)
                     \/ ClearKeeps(t, u) \/ ClearKeepsWeak(t, u)
              PROVE  (weakcnt = Cardinality(WeakRefs))'
  BY <1>1, UsersAreThreads DEF Next, Use
<1>2. CASE WeakIncRef(t, u)
  <2>1. /\ weak[u] < MaxRefs /\ weak' = [weak EXCEPT ![u] = @ + 1]
        /\ weakcnt' = weakcnt + 1
        /\ Incomplete' <=> Incomplete
    BY <1>2 DEF WeakIncRef, Incomplete, body
  <2>. QED
    BY <1>0, <1>1, <2>1, MoreWeak, Added
<1>3. CASE ClearKeepsWeak(t, u)
  <2>1. /\ weak[u] < MaxRefs /\ weak' = [weak EXCEPT ![u] = @ + 1]
        /\ weakcnt' = weakcnt + 1
        /\ Incomplete' <=> Incomplete
    BY <1>3 DEF ClearKeepsWeak, Incomplete, body
  <2>. QED
    BY <1>0, <1>1, <2>1, MoreWeak, Added
<1>4. CASE WeakDecRef(t)
  <2>1. /\ weak[t] > 0 /\ weak' = [weak EXCEPT ![t] = @ - 1]
        /\ weakcnt' = weakcnt - 1
        /\ Incomplete' <=> Incomplete
    BY <1>1, <1>4 DEF WeakDecRef, Incomplete, body
  <2>. QED
    BY <1>0, <1>1, <2>1, LessWeak, Removed
<1>5. CASE WeakDec(t)
  <2>1. dtors[Levels] = 1 /\ pc[t] = "weakdec"
    BY <1>5 DEF WeakDec, IInv, Local, Freeing
  <2>2. \A v \in Threads \ {t} : pc[v] \notin {"weakcas", "restore", "weakdec"}
    BY <2>1 DEF IInv, OneDestroyer, Destroying, Dying
  <2>3. weak' = weak /\ weakcnt' = weakcnt - 1 /\ Incomplete /\ ~Incomplete'
    BY <1>1, <1>5, <2>1, <2>2 DEF WeakDec, Incomplete, owned, body
  <2>. QED
    BY <1>0, <2>3, Token, Removed
<1>6. CASE WeakCas(t)
  <2>1. dtors[Levels] = 1 /\ pc[t] = "weakcas"
    BY <1>6 DEF WeakCas, IInv, Local, Freeing
  <2>2. \A v \in Threads \ {t} : pc[v] \notin {"weakcas", "restore", "weakdec"}
    BY <2>1 DEF IInv, OneDestroyer, Destroying, Dying
  <2>3. CASE weakcnt = 1
    <3>1. weak' = weak /\ weakcnt' = weakcnt - 1 /\ Incomplete /\ ~Incomplete'
      BY <1>1, <1>6, <2>1, <2>2, <2>3 DEF WeakCas, Incomplete, owned, body
    <3>. QED
      BY <1>0, <3>1, Token, Removed
  <2>4. CASE weakcnt # 1
    <3>1. weak' = weak /\ weakcnt' = weakcnt /\ Incomplete /\ Incomplete'
      BY <1>1, <1>6, <2>4 DEF WeakCas, Incomplete, owned
    <3>. QED
      BY <1>0, <3>1, SameWeak
  <2>. QED
    BY <2>3, <2>4
<1>7. CASE Restore(t)
  <2>1. weak' = weak /\ weakcnt' = weakcnt /\ Incomplete /\ Incomplete'
    BY <1>1, <1>7 DEF Restore, Incomplete, counts, owned
  <2>. QED
    BY <1>0, <2>1, SameWeak
<1>8. CASE Dtor(t)
  <2>1. dtors[Levels] = 0 /\ level[t] \in 1..Levels /\ dtors \in [1..Levels -> 0..1]
    BY <1>8 DEF Dtor, IInv, Local, Types, TypeOK
  <2>2. weak' = weak /\ weakcnt' = weakcnt /\ Incomplete
    BY <1>8, <2>1 DEF Dtor, Incomplete, counts, owned
  <2>3. Incomplete'
    <3>1. CASE level[t] = Levels
      BY <1>1, <1>8, <3>1 DEF Dtor, Incomplete
    <3>2. CASE level[t] # Levels
      BY <1>8, <2>1, <3>2 DEF Dtor, Incomplete
    <3>. QED
      BY <3>1, <3>2
  <2>. QED
    BY <1>0, <2>2, <2>3, SameWeak
<1>9. CASE IncRef(t, u) \/ DecRef(t) \/ LockRead(t) \/ LockCas(t)
  <2>1. weak' = weak /\ weakcnt' = weakcnt /\ (Incomplete' <=> Incomplete)
    BY <1>1, <1>9 DEF IncRef, DecRef, LockRead, LockCas, Incomplete, counts, owned, body
  <2>. QED
    BY <1>0, <2>1, SameWeak
<1>10. CASE WeakFree(t) \/ Free(t) \/ Untrack(t) \/ EnterLevel(t)
  <2>1. weak' = weak /\ weakcnt' = weakcnt /\ (Incomplete' <=> Incomplete)
    BY <1>1, <1>10 DEF WeakFree, Free, Untrack, EnterLevel, Incomplete,
                    counts, owned, body
  <2>. QED
    BY <1>0, <2>1, SameWeak
<1>11. CASE ClearKeeps(t, u) \/ Unfake(t) \/ Retype(t) \/ Retrack(t)
  <2>1. weak' = weak /\ weakcnt' = weakcnt /\ (Incomplete' <=> Incomplete)
    BY <1>1, <1>11 DEF ClearKeeps, Unfake, Retype, Retrack, Incomplete,
                    counts, owned, body
  <2>. QED
    BY <1>0, <2>1, SameWeak
<1>. QED
  BY <1>2, <1>3, <1>4, <1>5, <1>6, <1>7, <1>8, <1>9, <1>10, <1>11 DEF Destroy, Drop

(* When one thing is counted, nothing else is. *)
LEMMA LastOne ==
  ASSUME NEW S, IsFiniteSet(S), Cardinality(S) = 1, NEW x \in S, NEW y \in S
  PROVE  x = y
<1>1. Cardinality(S \ {x}) = 0 /\ IsFiniteSet(S \ {x})
  BY Removed, FS_RemoveElement
<1>. QED
  BY <1>1, Empty

(* The thread with the last reference is alone with the object; so is the one *)
(* that runs tp_clear under it; and for weak references likewise.              *)
LEMMA LastRef ==
  ASSUME IsFiniteSet(Threads), Types, Counts, NEW t \in Threads
  PROVE  /\ refcnt = 1 /\ strong[t] > 0 => \A u \in Threads : pc[u] # "clear"
         /\ refcnt = 1 /\ pc[t] = "clear" =>
              \A u \in Threads : strong[u] = 0 /\ (pc[u] = "clear" => u = t)
         /\ weakcnt = 1 /\ weak[t] > 0 =>
              ~Incomplete /\ \A u \in Threads : weak[u] > 0 => u = t
         /\ weakcnt = 1 /\ Incomplete => weak[t] = 0
<1>. USE ConstantsOK
<1>1. IsFiniteSet(Refs) /\ IsFiniteSet(WeakRefs)
  BY RefsFinite
<1>2. ASSUME NEW u \in Threads
      PROVE  /\ strong[u] > 0 => <<u, 1>> \in Refs
             /\ pc[u] = "clear" => <<u, 0>> \in Refs
             /\ weak[u] > 0 => <<u, 1>> \in WeakRefs
             /\ Incomplete => <<0, 0>> \in WeakRefs
             /\ strong[u] \in Nat /\ weak[u] \in Nat
  BY DEF Types, Refs, WeakRefs
<1>3. ASSUME refcnt = 1, NEW r \in Refs, NEW s \in Refs
      PROVE  r = s
  BY <1>1, <1>3, LastOne DEF Counts
<1>4. ASSUME weakcnt = 1, NEW r \in WeakRefs, NEW s \in WeakRefs
      PROVE  r = s
  BY <1>1, <1>4, LastOne DEF Counts
<1>5. ASSUME refcnt = 1, strong[t] > 0, NEW u \in Threads
      PROVE  pc[u] # "clear"
  BY <1>2, <1>3, <1>5, <<t, 1>> # <<u, 0>>
<1>6. ASSUME refcnt = 1, pc[t] = "clear", NEW u \in Threads
      PROVE  strong[u] = 0 /\ (pc[u] = "clear" => u = t)
  <2>1. strong[u] > 0 => <<u, 1>> = <<t, 0>>
    BY <1>2, <1>3, <1>6
  <2>2. pc[u] = "clear" => <<u, 0>> = <<t, 0>>
    BY <1>2, <1>3, <1>6
  <2>3. <<u, 1>> # <<t, 0>> /\ (<<u, 0>> = <<t, 0>> => u = t)
    OBVIOUS
  <2>4. strong[u] \in Nat /\ ~(strong[u] > 0)
    BY <1>2, <2>1, <2>3
  <2>. QED
    BY <2>2, <2>3, <2>4
<1>7. ASSUME weakcnt = 1, weak[t] > 0, NEW u \in Threads
      PROVE  ~Incomplete /\ (weak[u] > 0 => u = t)
  BY <1>2, <1>4, <1>7, <<t, 1>> # <<0, 0>>, <<t, 1>> = <<u, 1>> => t = u
<1>8. ASSUME weakcnt = 1, Incomplete
      PROVE  weak[t] = 0
  <2>1. weak[t] > 0 => <<t, 1>> = <<0, 0>>
    BY <1>2, <1>4, <1>8
  <2>2. <<t, 1>> # <<0, 0>>
    OBVIOUS
  <2>3. weak[t] \in Nat /\ ~(weak[t] > 0)
    BY <1>2, <2>1, <2>2
  <2>. QED
    BY <2>3
<1>. QED
  BY <1>5, <1>6, <1>7, <1>8

(* What the invariant says of a state, of the object and of each thread. *)
Known ==
  /\ refcnt \in Nat /\ weakcnt \in Nat /\ type \in 1..Levels /\ freed \in Nat
  /\ DOMAIN pc = Threads /\ DOMAIN strong = Threads /\ DOMAIN weak = Threads
  /\ DOMAIN first = Threads /\ DOMAIN level = Threads /\ DOMAIN seen = Threads
  /\ DOMAIN dtors = 1..Levels
  /\ kind.clears \subseteq {1} /\ (kind.gc => kind.clears = {})
  /\ weakcnt > 0 => freed = 0
  /\ refcnt > 0 => weakcnt > 0 /\ type = 1 /\ \A l \in 1..Levels : dtors[l] = 0
  /\ dtors[Levels] = 0 => weakcnt > 0
  /\ dtors[Levels] = 1 => refcnt = 0 /\ \A l \in 1..Levels : dtors[l] = 1
  /\ \A t \in Threads :
       /\ strong[t] \in Nat /\ weak[t] \in Nat /\ seen[t] \in Nat
       /\ Local(t)
       /\ strong[t] > 0 \/ pc[t] = "clear" => refcnt > 0
       /\ weak[t] > 0 => weakcnt > 0
       /\ pc[t] \in {"weakcas", "restore", "weakdec"} => weakcnt > 0
       /\ refcnt = 1 /\ strong[t] > 0 => \A v \in Threads : ~Destroying(v)
       /\ Destroying(t) => \A v \in Threads \ {t} : ~Destroying(v)
       /\ Freeing(t) => \A v \in Threads \ {t} : ~Freeing(v)
       /\ weakcnt = 1 /\ weak[t] > 0 => /\ dtors[Levels] = 1 /\ type = 1
                                        /\ \A v \in Threads \ {t} : weak[v] = 0
       /\ pc[t] = "weakcas" /\ weakcnt = 1 => \A v \in Threads : weak[v] = 0

(* All of that follows from the invariant. *)
LEMMA Facts ==
  ASSUME KindsAssumption, IsFiniteSet(Threads), IInv
  PROVE  Known
<1>. USE ConstantsOK DEF IInv
<1>1. /\ refcnt \in Nat /\ weakcnt \in Nat /\ type \in 1..Levels /\ freed \in Nat
      /\ DOMAIN pc = Threads /\ DOMAIN strong = Threads /\ DOMAIN weak = Threads
      /\ DOMAIN first = Threads /\ DOMAIN level = Threads /\ DOMAIN seen = Threads
      /\ DOMAIN dtors = 1..Levels
      /\ kind.clears \subseteq {1} /\ (kind.gc => kind.clears = {})
  BY DEF Types, TypeOK, KindsAssumption
<1>2. /\ Levels \in 1..Levels /\ dtors \in [1..Levels -> 0..1]
      /\ \A t \in Threads : strong[t] \in Nat /\ weak[t] \in Nat /\ seen[t] \in Nat
  BY DEF Types, TypeOK
<1>3. /\ \A t \in Threads : strong[t] > 0 \/ pc[t] = "clear" => refcnt > 0
      /\ \A t \in Threads : weak[t] > 0 => weakcnt > 0
      /\ Incomplete => weakcnt > 0
  BY CountFacts
<1>4. refcnt > 0 => weakcnt > 0 /\ type = 1 /\ \A l \in 1..Levels : dtors[l] = 0
  BY <1>2, <1>3 DEF Alive, Incomplete
<1>5. dtors[Levels] = 1 => refcnt = 0 /\ \A l \in 1..Levels : dtors[l] = 1
  <2>1. ASSUME dtors[Levels] = 1
        PROVE  refcnt = 0
    BY <1>1, <1>2, <2>1 DEF Alive
  <2>2. ASSUME dtors[Levels] = 1, NEW v \in Threads, Destroying(v)
        PROVE  \A l \in 1..Levels : dtors[l] = 1
    BY <1>1, <1>2, <2>2 DEF Local, Destroying, Dying, Types, TypeOK, Freeing
  <2>. QED
    BY <2>1, <2>2 DEF Alive
<1>6. ASSUME NEW t \in Threads, refcnt = 1, strong[t] > 0
      PROVE  \A v \in Threads : ~Destroying(v)
  BY <1>6, LastRef DEF Local, Destroying
<1>7. ASSUME NEW t \in Threads, weakcnt = 1, weak[t] > 0
      PROVE  /\ dtors[Levels] = 1 /\ type = 1
             /\ \A v \in Threads \ {t} : weak[v] = 0
  <2>1. ~Incomplete /\ \A v \in Threads : weak[v] > 0 => v = t
    BY <1>7, LastRef
  <2>. QED
    BY <1>2, <1>7, <2>1 DEF Incomplete, Restored
<1>8. ASSUME NEW t \in Threads, weakcnt = 1, pc[t] = "weakcas"
      PROVE  \A v \in Threads : weak[v] = 0
  BY <1>8, LastRef DEF Incomplete
<1>. QED
  BY <1>1, <1>2, <1>3, <1>4, <1>5, <1>6, <1>7, <1>8
  DEF Known, Incomplete, OneDestroyer, OneFreer, FreedLast

(* Only the thread that takes the last reference destroys. *)
LEMMA StepOneDestroyer ==
  ASSUME KindsAssumption, IsFiniteSet(Threads), IInv, Next
  PROVE  OneDestroyer'
<1>1. Known /\ TypeOK
  BY Facts DEF IInv, Types
<1>. SUFFICES ASSUME NEW t \in Threads, NEW u \in Threads,
                     \/ Destroy(t) \/ Drop(t) \/ LockRead(t) \/ LockCas(t)
                     \/ IncRef(t, u) \/ WeakIncRef(t, u)
                     \/ ClearKeeps(t, u) \/ ClearKeepsWeak(t, u)
              PROVE  OneDestroyer'
  BY <1>1, UsersAreThreads DEF Next, Use
<1>. USE ConstantsOK DEF Goto, counts, owned, body, locals
<1>2. CASE IncRef(t, u)
  BY <1>1, <1>2 DEF IncRef, Known, OneDestroyer, Destroying, Dying, Local
<1>3. CASE WeakIncRef(t, u)
  BY <1>1, <1>3, SMTT(30) DEF WeakIncRef, Known, OneDestroyer, Destroying, Dying, Local
<1>4. CASE DecRef(t)
  BY <1>1, <1>4, SMTT(30) DEF DecRef, Known, OneDestroyer, Destroying, Dying, Local
<1>5. CASE WeakDecRef(t)
  BY <1>1, <1>5 DEF WeakDecRef, Known, OneDestroyer, Destroying, Dying, Local
<1>6. CASE WeakFree(t)
  BY <1>1, <1>6 DEF WeakFree, Known, OneDestroyer, Destroying, Dying, Local
<1>7. CASE LockRead(t)
  BY <1>1, <1>7, SMTT(30) DEF LockRead, Known, OneDestroyer, Destroying, Dying, Local
<1>8. CASE LockCas(t)
  <2>1. pc'[t] \in {"idle", "relock"} /\ \A v \in Threads \ {t} : pc'[v] = pc[v]
    BY <1>1, <1>8 DEF LockCas, Known
  <2>. QED
    BY <1>1, <2>1 DEF Known, OneDestroyer, Destroying, Dying
<1>9. CASE Untrack(t)
  BY <1>1, <1>9 DEF Untrack, Known, OneDestroyer, Destroying, Dying, Local
<1>10. CASE EnterLevel(t)
  BY <1>1, <1>10 DEF EnterLevel, Known, OneDestroyer, Destroying, Dying, Local
<1>11. CASE ClearKeeps(t, u)
  BY <1>1, <1>11 DEF ClearKeeps, Known, OneDestroyer, Destroying, Dying, Local
<1>12. CASE ClearKeepsWeak(t, u)
  BY <1>1, <1>12 DEF ClearKeepsWeak, Known, OneDestroyer, Destroying, Dying, Local
<1>13. CASE Unfake(t)
  BY <1>1, <1>13 DEF Unfake, Known, OneDestroyer, Destroying, Dying, Local
<1>14. CASE Retype(t)
  BY <1>1, <1>14 DEF Retype, Known, OneDestroyer, Destroying, Dying, Local
<1>15. CASE Retrack(t)
  BY <1>1, <1>15 DEF Retrack, Known, OneDestroyer, Destroying, Dying, Local
<1>16. CASE Dtor(t)
  BY <1>1, <1>16, SMTT(30) DEF Dtor, Known, OneDestroyer, Destroying, Dying, Local
<1>17. CASE WeakCas(t)
  BY <1>1, <1>17 DEF WeakCas, Known, OneDestroyer, Destroying, Dying, Local
<1>18. CASE Restore(t)
  BY <1>1, <1>18 DEF Restore, Known, OneDestroyer, Destroying, Dying, Local
<1>19. CASE WeakDec(t)
  BY <1>1, <1>19 DEF WeakDec, Known, OneDestroyer, Destroying, Dying, Local
<1>20. CASE Free(t)
  BY <1>1, <1>20 DEF Free, Known, OneDestroyer, Destroying, Dying, Local
<1>. QED
  BY <1>2, <1>3, <1>4, <1>5, <1>6, <1>7, <1>8, <1>9, <1>10, <1>11, <1>12, <1>13,
     <1>14, <1>15, <1>16, <1>17, <1>18, <1>19, <1>20
  DEF Destroy, Drop

(* Only the thread that takes the last weak reference frees. *)
LEMMA StepOneFreer ==
  ASSUME KindsAssumption, IsFiniteSet(Threads), IInv, Next
  PROVE  OneFreer'
<1>1. Known /\ TypeOK
  BY Facts DEF IInv, Types
<1>. SUFFICES ASSUME NEW t \in Threads, NEW u \in Threads,
                     \/ Destroy(t) \/ Drop(t) \/ LockRead(t) \/ LockCas(t)
                     \/ IncRef(t, u) \/ WeakIncRef(t, u)
                     \/ ClearKeeps(t, u) \/ ClearKeepsWeak(t, u)
              PROVE  OneFreer'
  BY <1>1, UsersAreThreads DEF Next, Use
<1>. USE ConstantsOK DEF Goto, counts, owned, body, locals
<1>2. CASE IncRef(t, u)
  BY <1>1, <1>2 DEF IncRef, Known, OneFreer, Freeing, Destroying, Dying, Local
<1>3. CASE WeakIncRef(t, u)
  BY <1>1, <1>3 DEF WeakIncRef, Known, OneFreer, Freeing, Destroying, Dying, Local
<1>4. CASE DecRef(t)
  BY <1>1, <1>4 DEF DecRef, Known, OneFreer, Freeing, Destroying, Dying, Local
<1>5. CASE WeakDecRef(t)
  BY <1>1, <1>5 DEF WeakDecRef, Known, OneFreer, Freeing, Destroying, Dying, Local
<1>6. CASE WeakFree(t)
  BY <1>1, <1>6 DEF WeakFree, Known, OneFreer, Freeing, Destroying, Dying, Local
<1>7. CASE LockRead(t)
  BY <1>1, <1>7 DEF LockRead, Known, OneFreer, Freeing, Destroying, Dying, Local
<1>8. CASE LockCas(t)
  <2>1. pc'[t] \in {"idle", "relock"} /\ \A v \in Threads \ {t} : pc'[v] = pc[v]
    BY <1>1, <1>8 DEF LockCas, Known
  <2>. QED
    BY <1>1, <2>1 DEF Known, OneFreer, Freeing
<1>9. CASE Untrack(t)
  BY <1>1, <1>9 DEF Untrack, Known, OneFreer, Freeing, Destroying, Dying, Local
<1>10. CASE EnterLevel(t)
  BY <1>1, <1>10, SMTT(30) DEF EnterLevel, Known, OneFreer, Freeing, Destroying, Dying, Local
<1>11. CASE ClearKeeps(t, u)
  BY <1>1, <1>11 DEF ClearKeeps, Known, OneFreer, Freeing, Destroying, Dying, Local
<1>12. CASE ClearKeepsWeak(t, u)
  BY <1>1, <1>12 DEF ClearKeepsWeak, Known, OneFreer, Freeing, Destroying, Dying, Local
<1>13. CASE Unfake(t)
  BY <1>1, <1>13 DEF Unfake, Known, OneFreer, Freeing, Destroying, Dying, Local
<1>14. CASE Retype(t)
  BY <1>1, <1>14 DEF Retype, Known, OneFreer, Freeing, Destroying, Dying, Local
<1>15. CASE Retrack(t)
  BY <1>1, <1>15 DEF Retrack, Known, OneFreer, Freeing, Destroying, Dying, Local
<1>16. CASE Dtor(t)
  BY <1>1, <1>16 DEF Dtor, Known, OneFreer, Freeing, Destroying, Dying, Local
<1>17. CASE WeakCas(t)
  BY <1>1, <1>17 DEF WeakCas, Known, OneFreer, Freeing, Destroying, Dying, Local
<1>18. CASE Restore(t)
  BY <1>1, <1>18 DEF Restore, Known, OneFreer, Freeing, Destroying, Dying, Local
<1>19. CASE WeakDec(t)
  BY <1>1, <1>19 DEF WeakDec, Known, OneFreer, Freeing, Destroying, Dying, Local
<1>20. CASE Free(t)
  BY <1>1, <1>20 DEF Free, Known, OneFreer, Freeing, Destroying, Dying, Local
<1>. QED
  BY <1>2, <1>3, <1>4, <1>5, <1>6, <1>7, <1>8, <1>9, <1>10, <1>11, <1>12, <1>13,
     <1>14, <1>15, <1>16, <1>17, <1>18, <1>19, <1>20
  DEF Destroy, Drop

(* What a thread knows stays true until it takes its next step. *)
LEMMA StepLocal ==
  ASSUME KindsAssumption, IsFiniteSet(Threads), IInv, Next
  PROVE  (\A v \in Threads : Local(v))'
<1>1. Known /\ TypeOK
  BY Facts DEF IInv, Types
<1>. SUFFICES ASSUME NEW t \in Threads, NEW u \in Threads,
                     \/ Destroy(t) \/ Drop(t) \/ LockRead(t) \/ LockCas(t)
                     \/ IncRef(t, u) \/ WeakIncRef(t, u)
                     \/ ClearKeeps(t, u) \/ ClearKeepsWeak(t, u)
              PROVE  (\A v \in Threads : Local(v))'
  BY <1>1, UsersAreThreads DEF Next, Use
<1>. USE ConstantsOK DEF Goto, counts, owned, body, locals
<1>2. CASE IncRef(t, u)
  BY <1>1, <1>2 DEF IncRef, Known, Local, Destroying, Dying, Freeing
<1>3. CASE WeakIncRef(t, u)
  BY <1>1, <1>3 DEF WeakIncRef, Known, Local, Destroying, Dying, Freeing
<1>4. CASE DecRef(t)
  BY <1>1, <1>4 DEF DecRef, Known, Local, Destroying, Dying, Freeing
<1>5. CASE WeakDecRef(t)
  BY <1>1, <1>5 DEF WeakDecRef, Known, Local, Destroying, Dying, Freeing
<1>6. CASE WeakFree(t)
  BY <1>1, <1>6 DEF WeakFree, Known, Local, Destroying, Dying, Freeing
<1>7. CASE LockRead(t)
  BY <1>1, <1>7, SMTT(30) DEF LockRead, Known, Local, Destroying, Dying, Freeing
<1>8. CASE LockCas(t)
  BY <1>1, <1>8, SMTT(30) DEF LockCas, Known, Local, Destroying, Dying, Freeing
<1>9. CASE Untrack(t)
  BY <1>1, <1>9 DEF Untrack, Known, Local, Destroying, Dying, Freeing
<1>10. CASE EnterLevel(t)
  BY <1>1, <1>10 DEF EnterLevel, Known, Local, Destroying, Dying, Freeing
<1>11. CASE ClearKeeps(t, u)
  BY <1>1, <1>11 DEF ClearKeeps, Known, Local, Destroying, Dying, Freeing
<1>12. CASE ClearKeepsWeak(t, u)
  BY <1>1, <1>12 DEF ClearKeepsWeak, Known, Local, Destroying, Dying, Freeing
<1>13. CASE Unfake(t)
  BY <1>1, <1>13 DEF Unfake, Known, Local, Destroying, Dying, Freeing
<1>14. CASE Retype(t)
  BY <1>1, <1>14 DEF Retype, Known, Local, Destroying, Dying, Freeing
<1>15. CASE Retrack(t)
  BY <1>1, <1>15 DEF Retrack, Known, Local, Destroying, Dying, Freeing
<1>16. CASE Dtor(t)
  BY <1>1, <1>16 DEF Dtor, Known, Local, Destroying, Dying, Freeing
<1>17. CASE WeakCas(t)
  BY <1>1, <1>17 DEF WeakCas, Known, Local, Destroying, Dying, Freeing
<1>18. CASE Restore(t)
  BY <1>1, <1>18 DEF Restore, Known, Local, Destroying, Dying, Freeing
<1>19. CASE WeakDec(t)
  BY <1>1, <1>19 DEF WeakDec, Known, Local, Destroying, Dying, Freeing
<1>20. CASE Free(t)
  BY <1>1, <1>20 DEF Free, Known, Local, Destroying, Dying, Freeing
<1>. QED
  BY <1>2, <1>3, <1>4, <1>5, <1>6, <1>7, <1>8, <1>9, <1>10, <1>11, <1>12, <1>13,
     <1>14, <1>15, <1>16, <1>17, <1>18, <1>19, <1>20
  DEF Destroy, Drop

(* The object is whole while there is a reference, and gone or going after. *)
LEMMA StepAlive ==
  ASSUME KindsAssumption, IsFiniteSet(Threads), IInv, Next
  PROVE  Alive'
<1>1. Known /\ TypeOK /\ Alive
  BY Facts DEF IInv, Types
<1>. SUFFICES ASSUME NEW t \in Threads, NEW u \in Threads,
                     \/ Destroy(t) \/ Drop(t) \/ LockRead(t) \/ LockCas(t)
                     \/ IncRef(t, u) \/ WeakIncRef(t, u)
                     \/ ClearKeeps(t, u) \/ ClearKeepsWeak(t, u)
              PROVE  Alive'
  BY <1>1, UsersAreThreads DEF Next, Use
<1>. USE ConstantsOK DEF Goto, counts, owned, body, locals
<1>2. CASE IncRef(t, u)
  BY <1>1, <1>2 DEF IncRef, Known, Alive, Local, Destroying, Dying, Freeing
<1>3. CASE WeakIncRef(t, u)
  BY <1>1, <1>3 DEF WeakIncRef, Known, Alive, Local, Destroying, Dying, Freeing
<1>4. CASE DecRef(t)
  BY <1>1, <1>4 DEF DecRef, Known, Alive, Local, Destroying, Dying, Freeing
<1>5. CASE WeakDecRef(t)
  BY <1>1, <1>5 DEF WeakDecRef, Known, Alive, Local, Destroying, Dying, Freeing
<1>6. CASE WeakFree(t)
  BY <1>1, <1>6 DEF WeakFree, Known, Alive, Local, Destroying, Dying, Freeing
<1>7. CASE LockRead(t)
  BY <1>1, <1>7 DEF LockRead, Known, Alive, Local, Destroying, Dying, Freeing
<1>8. CASE LockCas(t)
  BY <1>1, <1>8, SMTT(30) DEF LockCas, Known, Alive, Local, Destroying, Dying, Freeing
<1>9. CASE Untrack(t)
  BY <1>1, <1>9 DEF Untrack, Known, Alive, Local, Destroying, Dying, Freeing
<1>10. CASE EnterLevel(t)
  BY <1>1, <1>10 DEF EnterLevel, Known, Alive, Local, Destroying, Dying, Freeing
<1>11. CASE ClearKeeps(t, u)
  BY <1>1, <1>11 DEF ClearKeeps, Known, Alive, Local, Destroying, Dying, Freeing
<1>12. CASE ClearKeepsWeak(t, u)
  BY <1>1, <1>12 DEF ClearKeepsWeak, Known, Alive, Local, Destroying, Dying, Freeing
<1>13. CASE Unfake(t)
  BY <1>1, <1>13 DEF Unfake, Known, Alive, Local, Destroying, Dying, Freeing
<1>14. CASE Retype(t)
  BY <1>1, <1>14 DEF Retype, Known, Alive, Local, Destroying, Dying, Freeing
<1>15. CASE Retrack(t)
  BY <1>1, <1>15 DEF Retrack, Known, Alive, Local, Destroying, Dying, Freeing
<1>16. CASE Dtor(t)
  BY <1>1, <1>16 DEF Dtor, Known, Alive, Local, Destroying, Dying, Freeing
<1>17. CASE WeakCas(t)
  BY <1>1, <1>17 DEF WeakCas, Known, Alive, Local, Destroying, Dying, Freeing
<1>18. CASE Restore(t)
  BY <1>1, <1>18 DEF Restore, Known, Alive, Local, Destroying, Dying, Freeing
<1>19. CASE WeakDec(t)
  BY <1>1, <1>19 DEF WeakDec, Known, Alive, Local, Destroying, Dying, Freeing
<1>20. CASE Free(t)
  BY <1>1, <1>20 DEF Free, Known, Alive, Local, Destroying, Dying, Freeing
<1>. QED
  BY <1>2, <1>3, <1>4, <1>5, <1>6, <1>7, <1>8, <1>9, <1>10, <1>11, <1>12, <1>13,
     <1>14, <1>15, <1>16, <1>17, <1>18, <1>19, <1>20
  DEF Destroy, Drop

(* Whoever destroys an object takes it from the list first. *)
LEMMA StepTracking ==
  ASSUME KindsAssumption, IsFiniteSet(Threads), IInv, Next
  PROVE  Tracking'
<1>1. Known /\ TypeOK /\ Tracking
  BY Facts DEF IInv, Types
<1>. SUFFICES ASSUME NEW t \in Threads, NEW u \in Threads,
                     \/ Destroy(t) \/ Drop(t) \/ LockRead(t) \/ LockCas(t)
                     \/ IncRef(t, u) \/ WeakIncRef(t, u)
                     \/ ClearKeeps(t, u) \/ ClearKeepsWeak(t, u)
              PROVE  Tracking'
  BY <1>1, UsersAreThreads DEF Next, Use
<1>. USE ConstantsOK DEF Goto, counts, owned, body, locals
<1>2. CASE IncRef(t, u)
  BY <1>1, <1>2 DEF IncRef, Known, Tracking, Local, Destroying, Dying, Freeing
<1>3. CASE WeakIncRef(t, u)
  BY <1>1, <1>3 DEF WeakIncRef, Known, Tracking, Local, Destroying, Dying, Freeing
<1>4. CASE DecRef(t)
  BY <1>1, <1>4 DEF DecRef, Known, Tracking, Local, Destroying, Dying, Freeing
<1>5. CASE WeakDecRef(t)
  BY <1>1, <1>5 DEF WeakDecRef, Known, Tracking, Local, Destroying, Dying, Freeing
<1>6. CASE WeakFree(t)
  BY <1>1, <1>6 DEF WeakFree, Known, Tracking, Local, Destroying, Dying, Freeing
<1>7. CASE LockRead(t)
  BY <1>1, <1>7 DEF LockRead, Known, Tracking, Local, Destroying, Dying, Freeing
<1>8. CASE LockCas(t)
  BY <1>1, <1>8 DEF LockCas, Known, Tracking, Local, Destroying, Dying, Freeing
<1>9. CASE Untrack(t)
  BY <1>1, <1>9 DEF Untrack, Known, Tracking, Local, Destroying, Dying, Freeing
<1>10. CASE EnterLevel(t)
  BY <1>1, <1>10 DEF EnterLevel, Known, Tracking, Local, Destroying, Dying, Freeing
<1>11. CASE ClearKeeps(t, u)
  BY <1>1, <1>11 DEF ClearKeeps, Known, Tracking, Local, Destroying, Dying, Freeing
<1>12. CASE ClearKeepsWeak(t, u)
  BY <1>1, <1>12 DEF ClearKeepsWeak, Known, Tracking, Local, Destroying, Dying, Freeing
<1>13. CASE Unfake(t)
  BY <1>1, <1>13 DEF Unfake, Known, Tracking, Local, Destroying, Dying, Freeing
<1>14. CASE Retype(t)
  BY <1>1, <1>14 DEF Retype, Known, Tracking, Local, Destroying, Dying, Freeing
<1>15. CASE Retrack(t)
  BY <1>1, <1>15 DEF Retrack, Known, Tracking, Local, Destroying, Dying, Freeing
<1>16. CASE Dtor(t)
  BY <1>1, <1>16 DEF Dtor, Known, Tracking, Local, Destroying, Dying, Freeing
<1>17. CASE WeakCas(t)
  BY <1>1, <1>17 DEF WeakCas, Known, Tracking, Local, Destroying, Dying, Freeing
<1>18. CASE Restore(t)
  BY <1>1, <1>18 DEF Restore, Known, Tracking, Local, Destroying, Dying, Freeing
<1>19. CASE WeakDec(t)
  BY <1>1, <1>19 DEF WeakDec, Known, Tracking, Local, Destroying, Dying, Freeing
<1>20. CASE Free(t)
  BY <1>1, <1>20 DEF Free, Known, Tracking, Local, Destroying, Dying, Freeing
<1>. QED
  BY <1>2, <1>3, <1>4, <1>5, <1>6, <1>7, <1>8, <1>9, <1>10, <1>11, <1>12, <1>13,
     <1>14, <1>15, <1>16, <1>17, <1>18, <1>19, <1>20
  DEF Destroy, Drop

(* The last weak reference, or the destruction, frees the object. *)
LEMMA StepFreedLast ==
  ASSUME KindsAssumption, IsFiniteSet(Threads), IInv, Next
  PROVE  FreedLast'
<1>1. Known /\ TypeOK /\ FreedLast
  BY Facts DEF IInv, Types
<1>. SUFFICES ASSUME NEW t \in Threads, NEW u \in Threads,
                     \/ Destroy(t) \/ Drop(t) \/ LockRead(t) \/ LockCas(t)
                     \/ IncRef(t, u) \/ WeakIncRef(t, u)
                     \/ ClearKeeps(t, u) \/ ClearKeepsWeak(t, u)
              PROVE  FreedLast'
  BY <1>1, UsersAreThreads DEF Next, Use
<1>. USE ConstantsOK DEF Goto, counts, owned, body, locals
<1>2. CASE IncRef(t, u)
  BY <1>1, <1>2 DEF IncRef, Known, FreedLast, Local, Destroying, Dying, Freeing
<1>3. CASE WeakIncRef(t, u)
  BY <1>1, <1>3 DEF WeakIncRef, Known, FreedLast, Local, Destroying, Dying, Freeing
<1>4. CASE DecRef(t)
  BY <1>1, <1>4 DEF DecRef, Known, FreedLast, Local, Destroying, Dying, Freeing
<1>5. CASE WeakDecRef(t)
  BY <1>1, <1>5 DEF WeakDecRef, Known, FreedLast, Local, Destroying, Dying, Freeing
<1>6. CASE WeakFree(t)
  BY <1>1, <1>6 DEF WeakFree, Known, FreedLast, Local, Destroying, Dying, Freeing
<1>7. CASE LockRead(t)
  BY <1>1, <1>7 DEF LockRead, Known, FreedLast, Local, Destroying, Dying, Freeing
<1>8. CASE LockCas(t)
  BY <1>1, <1>8 DEF LockCas, Known, FreedLast, Local, Destroying, Dying, Freeing
<1>9. CASE Untrack(t)
  BY <1>1, <1>9 DEF Untrack, Known, FreedLast, Local, Destroying, Dying, Freeing
<1>10. CASE EnterLevel(t)
  BY <1>1, <1>10 DEF EnterLevel, Known, FreedLast, Local, Destroying, Dying, Freeing
<1>11. CASE ClearKeeps(t, u)
  BY <1>1, <1>11 DEF ClearKeeps, Known, FreedLast, Local, Destroying, Dying, Freeing
<1>12. CASE ClearKeepsWeak(t, u)
  BY <1>1, <1>12 DEF ClearKeepsWeak, Known, FreedLast, Local, Destroying, Dying, Freeing
<1>13. CASE Unfake(t)
  BY <1>1, <1>13 DEF Unfake, Known, FreedLast, Local, Destroying, Dying, Freeing
<1>14. CASE Retype(t)
  BY <1>1, <1>14 DEF Retype, Known, FreedLast, Local, Destroying, Dying, Freeing
<1>15. CASE Retrack(t)
  BY <1>1, <1>15 DEF Retrack, Known, FreedLast, Local, Destroying, Dying, Freeing
<1>16. CASE Dtor(t)
  BY <1>1, <1>16 DEF Dtor, Known, FreedLast, Local, Destroying, Dying, Freeing
<1>17. CASE WeakCas(t)
  BY <1>1, <1>17 DEF WeakCas, Known, FreedLast, Local, Destroying, Dying, Freeing
<1>18. CASE Restore(t)
  BY <1>1, <1>18 DEF Restore, Known, FreedLast, Local, Destroying, Dying, Freeing
<1>19. CASE WeakDec(t)
  BY <1>1, <1>19 DEF WeakDec, Known, FreedLast, Local, Destroying, Dying, Freeing
<1>20. CASE Free(t)
  BY <1>1, <1>20 DEF Free, Known, FreedLast, Local, Destroying, Dying, Freeing
<1>. QED
  BY <1>2, <1>3, <1>4, <1>5, <1>6, <1>7, <1>8, <1>9, <1>10, <1>11, <1>12, <1>13,
     <1>14, <1>15, <1>16, <1>17, <1>18, <1>19, <1>20
  DEF Destroy, Drop

(* The type is restored before the token is dropped. *)
LEMMA StepRestored ==
  ASSUME KindsAssumption, IsFiniteSet(Threads), IInv, Next
  PROVE  Restored'
<1>1. Known /\ TypeOK /\ Restored
  BY Facts DEF IInv, Types
<1>. SUFFICES ASSUME NEW t \in Threads, NEW u \in Threads,
                     \/ Destroy(t) \/ Drop(t) \/ LockRead(t) \/ LockCas(t)
                     \/ IncRef(t, u) \/ WeakIncRef(t, u)
                     \/ ClearKeeps(t, u) \/ ClearKeepsWeak(t, u)
              PROVE  Restored'
  BY <1>1, UsersAreThreads DEF Next, Use
<1>. USE ConstantsOK DEF Goto, counts, owned, body, locals
<1>2. CASE IncRef(t, u)
  BY <1>1, <1>2 DEF IncRef, Known, Restored, Local, Destroying, Dying, Freeing
<1>3. CASE WeakIncRef(t, u)
  BY <1>1, <1>3 DEF WeakIncRef, Known, Restored, Local, Destroying, Dying, Freeing
<1>4. CASE DecRef(t)
  BY <1>1, <1>4 DEF DecRef, Known, Restored, Local, Destroying, Dying, Freeing
<1>5. CASE WeakDecRef(t)
  BY <1>1, <1>5 DEF WeakDecRef, Known, Restored, Local, Destroying, Dying, Freeing
<1>6. CASE WeakFree(t)
  BY <1>1, <1>6 DEF WeakFree, Known, Restored, Local, Destroying, Dying, Freeing
<1>7. CASE LockRead(t)
  BY <1>1, <1>7 DEF LockRead, Known, Restored, Local, Destroying, Dying, Freeing
<1>8. CASE LockCas(t)
  BY <1>1, <1>8 DEF LockCas, Known, Restored, Local, Destroying, Dying, Freeing
<1>9. CASE Untrack(t)
  BY <1>1, <1>9 DEF Untrack, Known, Restored, Local, Destroying, Dying, Freeing
<1>10. CASE EnterLevel(t)
  BY <1>1, <1>10 DEF EnterLevel, Known, Restored, Local, Destroying, Dying, Freeing
<1>11. CASE ClearKeeps(t, u)
  BY <1>1, <1>11 DEF ClearKeeps, Known, Restored, Local, Destroying, Dying, Freeing
<1>12. CASE ClearKeepsWeak(t, u)
  BY <1>1, <1>12 DEF ClearKeepsWeak, Known, Restored, Local, Destroying, Dying, Freeing
<1>13. CASE Unfake(t)
  BY <1>1, <1>13 DEF Unfake, Known, Restored, Local, Destroying, Dying, Freeing
<1>14. CASE Retype(t)
  BY <1>1, <1>14 DEF Retype, Known, Restored, Local, Destroying, Dying, Freeing
<1>15. CASE Retrack(t)
  BY <1>1, <1>15 DEF Retrack, Known, Restored, Local, Destroying, Dying, Freeing
<1>16. CASE Dtor(t)
  BY <1>1, <1>16 DEF Dtor, Known, Restored, Local, Destroying, Dying, Freeing
<1>17. CASE WeakCas(t)
  BY <1>1, <1>17 DEF WeakCas, Known, Restored, Local, Destroying, Dying, Freeing
<1>18. CASE Restore(t)
  BY <1>1, <1>18 DEF Restore, Known, Restored, Local, Destroying, Dying, Freeing
<1>19. CASE WeakDec(t)
  BY <1>1, <1>19 DEF WeakDec, Known, Restored, Local, Destroying, Dying, Freeing
<1>20. CASE Free(t)
  BY <1>1, <1>20 DEF Free, Known, Restored, Local, Destroying, Dying, Freeing
<1>. QED
  BY <1>2, <1>3, <1>4, <1>5, <1>6, <1>7, <1>8, <1>9, <1>10, <1>11, <1>12, <1>13,
     <1>14, <1>15, <1>16, <1>17, <1>18, <1>19, <1>20
  DEF Destroy, Drop

----------------------------------------------------------------------------
(* The invariant, and what it says of the object. *)

(* A new object has one reference, and the token of its destruction. *)
LEMMA InitRefs ==
  ASSUME IsFiniteSet(Threads), Init
  PROVE  Counts
<1>. USE ConstantsOK
<1>1. PICK t \in Threads :
        strong = [u \in Threads |-> IF u = t THEN 1 ELSE 0]
  BY DEF Init
<1>2. \A u \in Threads : pc[u] = "idle" /\ weak[u] = 0
  BY DEF Init
<1>3. Refs = {<<t, 1>>}
  <2>1. <<t, 1>> \in Refs
    BY <1>1 DEF Refs
  <2>2. ASSUME NEW r \in Refs
        PROVE  r = <<t, 1>>
    BY <1>1, <1>2 DEF Refs
  <2>. QED
    BY <2>1, <2>2
<1>4. WeakRefs = {<<0, 0>>}
  <2>1. Incomplete
    BY DEF Init, Incomplete
  <2>2. {r \in Threads \X (1..MaxRefs) : r[2] <= weak[r[1]]} = {}
    BY <1>2
  <2>. QED
    BY <2>1, <2>2 DEF WeakRefs
<1>5. refcnt = 1 /\ weakcnt = 1
  BY DEF Init
<1>. QED
  BY <1>3, <1>4, <1>5, FS_Singleton DEF Counts

(* The invariant holds of a new object. *)
LEMMA InitIInv ==
  ASSUME KindsAssumption, IsFiniteSet(Threads), Init
  PROVE  IInv
<1>. USE ConstantsOK
<1>1. \A t \in Threads : pc[t] = "idle"
  BY DEF Init
<1>2. Types
  BY DEF Init, Types, TypeOK
<1>3. \A t \in Threads : Local(t)
  BY <1>1 DEF Local, Destroying, Dying, Freeing
<1>4. OneDestroyer /\ OneFreer
  BY <1>1 DEF OneDestroyer, OneFreer, Destroying, Dying, Freeing
<1>5. Alive /\ FreedLast /\ Restored
  BY DEF Init, Alive, FreedLast, Restored
<1>6. Tracking
  BY DEF Init, Tracking
<1>. QED
  BY <1>2, <1>3, <1>4, <1>5, <1>6, InitRefs DEF IInv

(* Every step keeps it: one lemma for each part above. *)
LEMMA NextIInv ==
  ASSUME KindsAssumption, IsFiniteSet(Threads), IInv, Next
  PROVE  IInv'
BY StepTypes, StepRefcnt, StepWeakcnt, StepLocal, StepOneDestroyer, StepOneFreer,
   StepAlive, StepTracking, StepFreedLast, StepRestored
DEF IInv, Counts

(* It speaks of the variables of the specification only. *)
LEMMA StutterIInv ==
  ASSUME IInv, UNCHANGED vars
  PROVE  IInv'
BY ZenonT(30) DEF vars, counts, owned, body, locals, IInv, Types, TypeOK, Counts, Refs, WeakRefs,
   Incomplete, Local, OneDestroyer, OneFreer, Destroying, Dying, Freeing, Alive,
   Tracking, FreedLast, Restored

(* The invariant holds in every state, for any number of threads and levels. *)
THEOREM Invariance ==
  ASSUME KindsAssumption, IsFiniteSet(Threads)
  PROVE  Spec => []IInv
<1>1. Init => IInv
  BY InitIInv
<1>2. IInv /\ [Next]_vars => IInv'
  BY NextIInv, StutterIInv
<1>. QED
  BY <1>1, <1>2, PTL DEF Spec

(* In every state of the invariant a freed object is not in use any more. *)
LEMMA FreedUnused ==
  ASSUME KindsAssumption, IsFiniteSet(Threads), IInv
  PROVE  NoUseAfterFree
<1>. USE ConstantsOK
<1>0. freed > 0 => freed = 1
  BY DEF IInv, Types
<1>. SUFFICES ASSUME freed > 0, NEW t \in Threads
              PROVE  pc[t] = "idle" /\ strong[t] = 0 /\ weak[t] = 0
  BY <1>0 DEF NoUseAfterFree
<1>1. /\ freed \in 0..1 /\ weakcnt \in Nat /\ strong[t] \in Nat /\ weak[t] \in Nat
      /\ type \in 1..Levels /\ dtors[Levels] \in 0..1 /\ Levels \in 1..Levels
  BY DEF IInv, Types, TypeOK
<1>2. freed = 1 /\ weakcnt = 0
  BY <1>1 DEF IInv, FreedLast
<1>3. weak[t] = 0 /\ dtors[Levels] = 1 /\ pc[t] \notin {"weakcas", "restore", "weakdec"}
  BY <1>1, <1>2, Facts DEF Known
<1>4. strong[t] = 0 /\ pc[t] # "clear"
  BY <1>1, <1>3, Facts DEF Known
<1>5. pc[t] \notin {"untrack", "level", "dtor"}
  BY <1>1, <1>3 DEF IInv, Local
<1>6. pc[t] \notin {"free", "weakfree", "lockcas", "relock", "retype", "retrack"}
  BY <1>2, <1>3 DEF IInv, Local, Freeing
<1>. QED
  BY <1>3, <1>4, <1>5, <1>6 DEF IInv, Types, TypeOK

(* Every variable keeps its type. *)
THEOREM TypeCorrect ==
  ASSUME KindsAssumption, IsFiniteSet(Threads)
  PROVE  Spec => []TypeOK
<1>. USE ConstantsOK
<1>1. IInv => TypeOK
  BY DEF IInv, Types
<1>. QED
  BY <1>1, Invariance, PTL

(* The size of the set of references is the sum of the threads' references, *)
(* and the fake reference of a thread in tp_clear.                          *)
LEMMA SizeOfRefs ==
  ASSUME Types, IsFiniteSet(Threads)
  PROVE  Cardinality(Refs) = SumFunction(strong) + Cardinality(At({"clear"}))
<1> USE ConstantsOK
<1> DEFINE Owned == Pairs(strong, Threads, MaxRefs + 1)
           Fake == At({"clear"}) \X {0}
<1>0. MaxRefs + 1 \in Nat /\ strong \in [Threads -> 0..MaxRefs + 1]
  BY DEF Types
<1>1. IsFiniteSet(Owned) /\ SumFunction(strong) = Cardinality(Owned)
  BY <1>0, SumIsSize
<1>2. IsFiniteSet(At({"clear"})) /\ IsFiniteSet({0}) /\ Cardinality({0}) = 1
  BY FS_Subset, FS_Singleton DEF At
<1>3. /\ Cardinality(At({"clear"})) \in Nat
      /\ IsFiniteSet(Fake)
      /\ Cardinality(Fake) = Cardinality(At({"clear"})) * Cardinality({0})
  BY <1>2, FS_Product, FS_CardinalityType
<1>4. Refs = Owned \cup Fake
  <2>1. ASSUME NEW r \in Refs PROVE r \in Owned \cup Fake
    BY DEF Refs, At, Pairs
  <2>2. ASSUME NEW r \in Owned PROVE r \in Refs
    BY DEF Refs, Pairs
  <2>3. ASSUME NEW r \in Fake PROVE r \in Refs
    BY DEF Refs, At, Pairs
  <2>4. QED
    BY <2>1, <2>2, <2>3
<1>5. Owned \cap Fake = {}
  BY DEF Pairs
<1> HIDE DEF Owned, Fake
<1>6. Cardinality(Owned \cup Fake)
        = Cardinality(Owned) + Cardinality(Fake) - Cardinality(Owned \cap Fake)
  BY <1>1, <1>3, FS_Union
<1>7. Cardinality(Owned \cap Fake) = 0 /\ Cardinality(Owned) \in Nat
  BY <1>1, <1>5, FS_EmptySet, FS_CardinalityType
<1>8. QED
  BY <1>1, <1>2, <1>3, <1>4, <1>6, <1>7

(* The same for the weak references and the token of the destruction. *)
LEMMA SizeOfWeakRefs ==
  ASSUME Types, IsFiniteSet(Threads)
  PROVE  Cardinality(WeakRefs) = SumFunction(weak) + IF Incomplete THEN 1 ELSE 0
<1> USE ConstantsOK
<1> DEFINE Owned == Pairs(weak, Threads, MaxRefs)
<1>0. MaxRefs \in Nat /\ weak \in [Threads -> 0..MaxRefs]
  BY DEF Types
<1>1. IsFiniteSet(Owned) /\ SumFunction(weak) = Cardinality(Owned)
  BY <1>0, SumIsSize
<1>2. <<0, 0>> \notin Owned
  BY DEF Pairs
<1>3. WeakRefs = Owned \cup (IF Incomplete THEN {<<0, 0>>} ELSE {})
  BY DEF WeakRefs, Pairs
<1> HIDE DEF Owned
<1>4. Cardinality(Owned \cup {<<0, 0>>}) = Cardinality(Owned) + 1
  BY <1>1, <1>2, Added
<1>5. Cardinality(Owned) \in Nat
  BY <1>1, FS_CardinalityType
<1>6. CASE Incomplete
  BY <1>1, <1>3, <1>4, <1>6
<1>7. CASE ~Incomplete
  <2>1. WeakRefs = Owned
    BY <1>3, <1>7
  <2>2. QED
    BY <1>1, <1>5, <1>7, <2>1
<1>8. QED
  BY <1>6, <1>7

(* Both counters say what is owned, through every revival and destruction.  *)
THEOREM CountsCorrect ==
  ASSUME KindsAssumption, IsFiniteSet(Threads) PROVE Spec => []CountsExact
<1>1. IInv => CountsExact
  BY SizeOfRefs, SizeOfWeakRefs DEF IInv, Counts, CountsExact, Incomplete, At
<1>2. QED
  BY <1>1, Invariance, PTL

(* tp_free runs once, when no thread owns a reference of either sort and no *)
(* thread is inside a function that still touches the object.               *)
THEOREM NoUseAfterFreed ==
  ASSUME KindsAssumption, IsFiniteSet(Threads)
  PROVE  Spec => []NoUseAfterFree
<1>. USE ConstantsOK
<1>1. IInv => NoUseAfterFree
  BY FreedUnused
<1>. QED
  BY <1>1, Invariance, PTL

(* When every call has returned and no reference is left the object is gone, *)
(* whichever of the last DECREF and the last WEAKDECREF came first.          *)
THEOREM NothingLeaks ==
  ASSUME KindsAssumption, IsFiniteSet(Threads)
  PROVE  Spec => []NoLeak
<1>. USE ConstantsOK
<1>1. IInv => NoLeak
  <2>. SUFFICES ASSUME IInv,
                       \A t \in Threads : pc[t] = "idle" /\ strong[t] = 0 /\ weak[t] = 0
                PROVE  freed = 1
    BY DEF NoLeak
  <2>1. refcnt \in Nat /\ weakcnt \in Nat /\ Levels \in 1..Levels
    BY DEF IInv, Types, TypeOK
  <2>2. refcnt = 0
    BY <2>1, CountFacts DEF IInv
  <2>3. dtors[Levels] = 1
    BY <2>1, <2>2 DEF IInv, Alive, Destroying, Dying
  <2>4. weakcnt = 0
    BY <2>1, <2>3, CountFacts DEF IInv, Incomplete
  <2>. QED
    BY <2>4 DEF IInv, FreedLast, Freeing
<1>. QED
  BY <1>1, Invariance, PTL

(* Whoever owns a reference, also one made from a weak reference, has an     *)
(* object no level of which was destructed; and none is destructed twice.    *)
THEOREM HeldObjectsIntact ==
  ASSUME KindsAssumption, IsFiniteSet(Threads)
  PROVE  Spec => []HeldIntact
<1>. USE ConstantsOK
<1>1. IInv => HeldIntact
  <2>1. ASSUME IInv
        PROVE  \A l \in 1..Levels : dtors[l] <= 1
    BY <2>1 DEF IInv, Types
  <2>2. ASSUME IInv, NEW t \in Threads, strong[t] > 0
        PROVE  \A l \in type..Levels : dtors[l] = 0
    <3>1. type = 1 /\ \A l \in 1..Levels : dtors[l] = 0
      BY <2>2, Facts DEF Known
    <3>. QED
      BY <3>1
  <2>. QED
    BY <2>1, <2>2 DEF HeldIntact
<1>. QED
  BY <1>1, Invariance, PTL

(* The last weak reference frees the object with the tp_free of the type it  *)
(* had when its destruction began.                                           *)
THEOREM OwnTypeFrees ==
  ASSUME KindsAssumption, IsFiniteSet(Threads)
  PROVE  Spec => []FreedByOwnType
<1>. USE ConstantsOK
<1>1. IInv => FreedByOwnType
  BY DEF IInv, Local, FreedByOwnType, At
<1>. QED
  BY <1>1, Invariance, PTL

(* A freed object is not in the list of the garbage collector. *)
THEOREM FreedUntracked ==
  ASSUME KindsAssumption, IsFiniteSet(Threads)
  PROVE  Spec => []NotTrackedWhenFreed
<1>. USE ConstantsOK
<1>1. IInv => NotTrackedWhenFreed
  <2>. SUFFICES ASSUME IInv, freed > 0
                PROVE  ~tracked
    BY DEF NotTrackedWhenFreed
  <2>1. NoUseAfterFree
    BY FreedUnused
  <2>2. \A t \in Threads : pc[t] = "idle" /\ strong[t] = 0
    BY <2>1 DEF NoUseAfterFree
  <2>3. ~(refcnt > 0)
    BY <2>2, CountFacts DEF IInv
  <2>. QED
    BY <2>2, <2>3 DEF IInv, Tracking
<1>. QED
  BY <1>1, Invariance, PTL

(* The garbage collector knows every object of its kind that somebody holds. *)
THEOREM HeldTracked ==
  ASSUME KindsAssumption, IsFiniteSet(Threads)
  PROVE  Spec => []TrackedWhileHeld
<1>. USE ConstantsOK
<1>1. IInv => TrackedWhileHeld
  <2>1. ASSUME IInv, refcnt > 0
        PROVE  tracked = kind.gc
    BY <2>1 DEF IInv, Tracking, Types, TypeOK, Local
  <2>. QED
    BY <2>1 DEF TrackedWhileHeld
<1>. QED
  BY <1>1, Invariance, PTL

=============================================================================
