------------------------ MODULE ThreadLifecycleProofs ------------------------
(***************************************************************************)
(* Proofs about ThreadLifecycle for any finite set of thread objects, when *)
(* nobody uses a thread object while it starts (with the finding about     *)
(* DeeThread_Start, HandleIntact does not hold otherwise).  The argument:  *)
(* whoever sets DETACHED has a claim on the handle until the handle is     *)
(* used or the flag is taken back; there is one claim at a time, and a     *)
(* handle that nobody has claimed is joinable as long as the object lives. *)
(***************************************************************************)
EXTENDS ThreadLifecycle, FiniteSetTheorems, TLAPS

(* Where an actor holds t_lock, where it has claimed a handle, and where it *)
(* is inside an operation at all.                                           *)
Starting == {"count", "create", "started"}
Claims == {"detach", "join", "tryjoin", "undo"}
Busy == Starting \cup Claims \cup {"raise", "take"}

Types ==
  /\ state \in [Threads -> SUBSET Flags]
  /\ handle \in [Threads -> {"none", "joinable", "joined", "detached", "misused"}]
  /\ lock \in [Threads -> Actors \cup {Nobody}]
  /\ result \in [Threads -> {"none", "stored"}]
  /\ held \in [Threads -> BOOLEAN]
  /\ itrp \in 0..CounterWidth - 1
  /\ pc \in [Actors -> Places \cup Stages]
  /\ arg \in [Actors -> Threads \cup {Nobody}]
  /\ pc[Main] \in Places
  /\ \A t \in Threads : pc[t] \notin {"wait", "final"}

(* An operation has a thread object, and a reference to it. *)
Called ==
  \A a \in Actors :
    /\ pc[a] \in Busy <=> arg[a] # Nobody
    /\ arg[a] # Nobody => held[arg[a]]

(* t_lock is held from the start of DeeThread_Start to its end. *)
LockOwned ==
  \A a \in Actors, t \in Threads :
    lock[t] = a <=> pc[a] \in Starting /\ arg[a] = t

(* An object that was never started. *)
Fresh ==
  \A t \in Threads : "STARTED" \notin state[t] =>
    /\ state[t] = {} /\ pc[t] = "unborn" /\ handle[t] = "none"
    /\ \A a \in Actors : arg[a] # t

(* An object whose system thread is about to be created. *)
Starts ==
  \A a \in Actors : pc[a] \in {"count", "create"} =>
    pc[arg[a]] = "unborn" /\ state[arg[a]] = {"STARTED"} /\ handle[arg[a]] = "none"

(* What an actor with a claim, or with a joined thread, relies on. *)
Claimed ==
  \A a \in Actors :
    /\ pc[a] \in Claims =>
         handle[arg[a]] = "joinable" /\ "DETACHED" \in state[arg[a]]
    /\ pc[a] = "take" =>
         /\ handle[arg[a]] = "joined" /\ "DETACHED" \in state[arg[a]]
         /\ pc[arg[a]] = "ended" /\ result[arg[a]] = "stored"

OneClaim ==
  \A a, b \in Actors :
    pc[a] \in Claims \cup {"take"} /\ pc[b] \in Claims \cup {"take"} /\ arg[a] = arg[b]
      => a = b

(* A handle nobody has claimed yet is there to be claimed... *)
Unclaimed ==
  \A t \in Threads :
    /\ "STARTED" \in state[t] /\ "DETACHED" \notin state[t]
    /\ held[t] \/ ~Unreferenced(t)
    /\ \A a \in Actors : arg[a] = t => pc[a] \notin {"count", "create"}
    => handle[t] = "joinable"

(* ... and one that was claimed has a claimant until it is used. *)
Claimant ==
  \A t \in Threads : "DETACHED" \in state[t] /\ handle[t] = "joinable" =>
    \E a \in Actors : arg[a] = t /\ pc[a] \in Claims

(* A result that was stored is there until the thread was joined. *)
Results ==
  \A t \in Threads :
    pc[t] \in {"release", "uncount", "ended"} /\ handle[t] # "joined"
      => result[t] = "stored"

(* What _deethread_counter counts: system threads, from before they are     *)
(* created.                                                                 *)
Counts(t) ==
  \/ pc[t] \notin {"unborn", "ended"}
  \/ lock[t] # Nobody /\ pc[lock[t]] = "create"
Counted == {t \in Threads : Counts(t)}

Local == Types /\ Called /\ LockOwned /\ Fresh /\ Starts

Handles == Claimed /\ OneClaim /\ Unclaimed /\ Claimant /\ HandleIntact /\ NoHandleLeak

(* The inductive invariant. *)
IInv ==
  /\ Local
  /\ Handles
  /\ Results
  /\ running = Cardinality(Counted)
  /\ QuietWhenFinal

(* The names of the flags are different from each other. *)
LEMMA FlagNames ==
  Flags = {"STARTED", "INTERRUPTED", "HANDLED", "DETACHED", "NOINTERRUPT",
     "TERMINATED"}
  BY DEF Flags, Bit

(* What is left of an integer modulo n is below n. *)
LEMMA ModRange ==
  ASSUME NEW i \in Int, NEW n \in Nat \ {0} PROVE i % n \in 0..n - 1
  OBVIOUS

(* A product grows with a factor. *)
LEMMA ProductMonotone ==
  ASSUME NEW n \in Nat, NEW q \in Int, NEW p \in Int, q >= p
  PROVE  n * q >= n * p
  OBVIOUS

(* Division leaves a remainder below the divisor. *)
LEMMA Remainder ==
  ASSUME NEW n \in Nat \ {0}, NEW k \in Int
  PROVE  k % n \in 0..n - 1 /\ k \div n \in Int /\ k = n * (k \div n) + (k % n)
  OBVIOUS

(* Within one width of the range a value is at most one width off. *)
LEMMA Wraps ==
  ASSUME NEW n \in Nat \ {0}, NEW k \in Int, k >= 0 - n, k < n + n,
         NEW q \in Int, NEW j \in 0..n - 1, k = n * q + j
  PROVE  j = k \/ j = k + n \/ j = k - n
<1>1. q < 2
  <2>1. ASSUME q >= 2 PROVE FALSE
    <3>1. n * q >= n * 2
      BY <2>1, ProductMonotone
    <3>2. n * 2 = n + n /\ n * q \in Int
      OBVIOUS
    <3>3. QED
      BY <3>1, <3>2
  <2>2. QED
    BY <2>1
<1>2. q > 0 - 2
  <2>1. ASSUME q <= 0 - 2 PROVE FALSE
    <3>1. n * q <= n * (0 - 2)
      BY <2>1, ProductMonotone
    <3>2. n * (0 - 2) = 0 - (n + n) /\ n * q \in Int
      OBVIOUS
    <3>3. QED
      BY <3>1, <3>2
  <2>2. QED
    BY <2>1
<1>3. q = 0 \/ q = 0 - 1 \/ q = 1
  BY <1>1, <1>2
<1>4. n * 0 = 0 /\ n * (0 - 1) = 0 - n /\ n * 1 = n
  OBVIOUS
<1>5. QED
  BY <1>3, <1>4

(* Such a value is reduced by adding or subtracting the width once, if at all. *)
LEMMA Wrap ==
  ASSUME NEW n \in Nat \ {0}, NEW k \in Int, k >= 0 - n, k < n + n
  PROVE  k % n = k \/ k % n = k + n \/ k % n = k - n
<1> DEFINE q == k \div n
           j == k % n
<1>1. q \in Int /\ j \in 0..n - 1 /\ k = n * q + j
  BY Remainder
<1> HIDE DEF q, j
<1>2. j = k \/ j = k + n \/ j = k - n
  BY <1>1, Wraps
<1>3. QED
  BY <1>2 DEF j

(* One more and one less than the value of a counter of width n. *)
LEMMA Around ==
  ASSUME NEW n \in Nat \ {0}, NEW c \in 0..n - 1
  PROVE  /\ (c + 1) % n \in {c + 1, c + 1 + n, c + 1 - n}
         /\ (c + -1) % n \in {c - 1, c - 1 + n, c - 1 - n}
<1> DEFINE up == c + 1
           down == c + -1
<1>1. /\ up \in Int /\ up >= 0 - n /\ up < n + n
      /\ down \in Int /\ down >= 0 - n /\ down < n + n
  OBVIOUS
<1>2. up = c + 1 /\ down = c - 1
  OBVIOUS
<1> HIDE DEF up, down
<1>3. up % n \in {up, up + n, up - n} /\ down % n \in {down, down + n, down - n}
  BY <1>1, Wrap
<1>4. up % n = (c + 1) % n /\ down % n = (c + -1) % n
  BY DEF up, down
<1>5. QED
  BY <1>2, <1>3, <1>4

(* The width is a number, which is all that is needed of it. *)
LEMMA Width == CounterWidth \in Nat \ {0} /\ CounterWidth \in Int
BY DEF CounterWidth

CountedUp == itrp' \in {itrp + 1, itrp + 1 + CounterWidth, itrp + 1 - CounterWidth}
CountedDown == itrp' \in {itrp - 1, itrp - 1 + CounterWidth, itrp - 1 - CounterWidth}

(* The counter goes one up, or wraps around. *)
LEMMA CountUp ==
  ASSUME itrp \in 0..CounterWidth - 1 PROVE Count(1) => CountedUp
<1>1. (itrp + 1) % CounterWidth \in {itrp + 1, itrp + 1 + CounterWidth, itrp + 1 - CounterWidth}
  BY Width, Around
<1>2. QED
  BY <1>1, Zenon DEF Count, CountedUp

(* The counter goes one down, or wraps around. *)
LEMMA CountDown ==
  ASSUME itrp \in 0..CounterWidth - 1 PROVE Count(-1) => CountedDown
<1>1. (itrp + -1) % CounterWidth \in {itrp - 1, itrp - 1 + CounterWidth, itrp - 1 - CounterWidth}
  BY Width, Around
<1>2. QED
  BY <1>1, Zenon DEF Count, CountedDown

(* Two sides that agree modulo w still do when one gets w more or less. *)
LEMMA Rebalanced ==
  ASSUME NEW w \in Int, NEW z \in Int, NEW l \in Int, NEW r \in Int, l = r + z * w,
         NEW m \in {l, l - w, l + w}
  PROVE  \E y \in {z, z - 1, z + 1} : m = r + y * w
<1>1. (z - 1) * w = z * w - w /\ (z + 1) * w = z * w + w /\ z * w \in Int
  OBVIOUS
<1>2. m = r + z * w \/ m = r + (z - 1) * w \/ m = r + (z + 1) * w
  BY <1>1
<1>3. QED
  BY <1>2

(* A counter of 16 bits stays one. *)
LEMMA CountStays ==
  ASSUME itrp \in 0..CounterWidth - 1, Count(1) \/ Count(-1)
  PROVE  itrp' \in 0..CounterWidth - 1
<1>1. CounterWidth \in Nat \ {0}
  BY Width
<1>2. itrp + 1 \in Int /\ itrp + (-1) \in Int
  BY <1>1
<1>3. /\ (itrp + 1) % CounterWidth \in 0..CounterWidth - 1
      /\ (itrp + (-1)) % CounterWidth \in 0..CounterWidth - 1
  BY <1>1, <1>2, ModRange
<1>4. CASE Count(1)
  BY <1>3, <1>4 DEF Count
<1>5. CASE Count(-1)
  BY <1>3, <1>5 DEF Count
<1>6. QED
  BY <1>4, <1>5

(* Adding the complement of STARTED to STARTED alone sets every flag. *)
LEMMA NeverStarted == Complement({"STARTED"}) = Flags
<1>1. 1 + 0 + 0 = 1 /\ (1 + 256 - 1 - 1) % 256 = 255
  OBVIOUS
<1>2. \A f \in Flags : (255 \div Bit[f]) % 2 = 1
  BY FlagNames DEF Bit
<1>3. QED
  BY <1>1, <1>2 DEF Complement, Bit

(* Every step keeps the types, and every actor where it may be. *)
LEMMA StepTypes ==
  ASSUME Early = FALSE, Types, Called, Starts, Next
  PROVE  Types'
<1> USE ConstantsOK, FlagNames DEF Types, Actors, Go, shared, Places, Stages,
                                   Called, Busy, Starting, Claims, Starts
<1>1. ASSUME NEW a \in Actors, NEW t \in Threads, Start(a, t)
      PROVE  Types'
  BY <1>1 DEF Start, Call, Set
<1>2. ASSUME NEW a \in Actors, NEW t \in Threads, Interrupt(a, t)
      PROVE  Types'
  BY <1>2 DEF Interrupt, Call, Set
<1>3. ASSUME NEW a \in Actors, NEW t \in Threads, Detach(a, t)
      PROVE  Types'
  BY <1>3 DEF Detach, Call, Set
<1>4. ASSUME NEW a \in Actors, NEW t \in Threads, Join(a, t, "join")
      PROVE  Types'
  BY <1>4 DEF Join, Call, Set
<1>5. ASSUME NEW a \in Actors, NEW t \in Threads, Join(a, t, "tryjoin")
      PROVE  Types'
  BY <1>5 DEF Join, Call, Set
<1>6. ASSUME NEW a \in Actors, CountIn(a)
      PROVE  Types'
  BY <1>6 DEF CountIn
<1>7. ASSUME NEW a \in Actors, Create(a)
      PROVE  Types'
  BY <1>7 DEF Create
<1>8. ASSUME NEW a \in Actors, CreateFails(a)
      PROVE  Types'
  BY <1>8, NeverStarted DEF CreateFails, Return
<1>9. ASSUME NEW a \in Actors, Started(a)
      PROVE  Types'
  BY <1>9 DEF Started, Return
<1>10. ASSUME NEW a \in Actors, Raise(a)
      PROVE  Types'
  BY <1>10, CountStays DEF Raise, Return
<1>11. ASSUME NEW a \in Actors, DetachHandle(a)
      PROVE  Types'
  BY <1>11 DEF DetachHandle, UseHandle, Return
<1>12. ASSUME NEW a \in Actors, TryJoin(a)
      PROVE  Types'
  BY <1>12 DEF TryJoin
<1>13. ASSUME NEW a \in Actors, JoinHandle(a)
      PROVE  Types'
  BY <1>13 DEF JoinHandle, UseHandle
<1>14. ASSUME NEW a \in Actors, JoinFails(a)
      PROVE  Types'
  BY <1>14 DEF JoinFails
<1>15. ASSUME NEW a \in Actors, Undo(a)
      PROVE  Types'
  BY <1>15 DEF Undo, Reset, Return
<1>16. ASSUME NEW a \in Actors, Take(a)
      PROVE  Types'
  BY <1>16 DEF Take, Return
<1>17. ASSUME NEW t \in Threads, Begin(t)
      PROVE  Types'
  BY <1>17 DEF Begin
<1>18. ASSUME NEW t \in Threads, CheckInterrupt(t)
      PROVE  Types'
  BY <1>18 DEF CheckInterrupt
<1>19. ASSUME NEW t \in Threads, DoCheckInterrupt(t)
      PROVE  Types'
  BY <1>19 DEF DoCheckInterrupt, Set
<1>20. ASSUME NEW t \in Threads, Handle(t)
      PROVE  Types'
  BY <1>20, CountStays DEF Handle
<1>21. ASSUME NEW t \in Threads, Forget(t)
      PROVE  Types'
  BY <1>21 DEF Forget, Reset
<1>22. ASSUME NEW t \in Threads, Again(t)
      PROVE  Types'
  BY <1>22, CountStays DEF Again
<1>23. ASSUME NEW t \in Threads, NoInterrupt(t)
      PROVE  Types'
  BY <1>23 DEF NoInterrupt, Set, Reset
<1>24. ASSUME NEW t \in Threads, Terminate(t)
      PROVE  Types'
  BY <1>24 DEF Terminate, Set
<1>25. ASSUME NEW t \in Threads, Settle(t)
      PROVE  Types'
  BY <1>25, CountStays DEF Settle
<1>26. ASSUME NEW t \in Threads, Store(t)
      PROVE  Types'
  BY <1>26 DEF Store
<1>27. ASSUME NEW t \in Threads, Release(t)
      PROVE  Types'
  BY <1>27 DEF Release, Dtor, UseHandle
<1>28. ASSUME NEW t \in Threads, CountOut(t)
      PROVE  Types'
  BY <1>28 DEF CountOut
<1>29. ASSUME NEW t \in Threads, Drop(t)
      PROVE  Types'
  BY <1>29 DEF Drop, Dtor, UseHandle
<1>30. ASSUME Finalize
      PROVE  Types'
  BY <1>30 DEF Finalize
<1>31. ASSUME Finalized
      PROVE  Types'
  BY <1>31 DEF Finalized
<1>32. QED
  BY <1>1, <1>2, <1>3, <1>4, <1>5, <1>6, <1>7, <1>8, <1>9, <1>10, <1>11, <1>12, <1>13,
     <1>14, <1>15, <1>16, <1>17, <1>18, <1>19, <1>20, <1>21, <1>22, <1>23, <1>24,
     <1>25, <1>26, <1>27, <1>28, <1>29, <1>30, <1>31, Next
  DEF Next, Operation, Thread

(* A thread that could not be created has every flag set. *)
LEMMA CreateFailsSets ==
  ASSUME Local, NEW a \in Actors, CreateFails(a)
  PROVE  /\ arg[a] \in Threads
         /\ state' = [state EXCEPT ![arg[a]] = Flags]
         /\ "STARTED" \in Flags /\ "DETACHED" \in Flags
<1>1. arg[a] \in Threads /\ state[arg[a]] = {"STARTED"}
  BY DEF CreateFails, Local, Types, Called, Starts, Busy, Starting
<1>2. QED
  BY <1>1, NeverStarted, FlagNames DEF CreateFails, Local, Types

(* The operations on an object that is being started exclude all others. *)
LEMMA StepLocal ==
  ASSUME Early = FALSE, Local, Claimed, Next
  PROVE  (Called /\ LockOwned /\ Fresh /\ Starts)'
<1> USE ConstantsOK DEF Actors, Go, shared, Local, Types, Called, LockOwned,
                        Fresh, Starts,
               Claimed, Starting, Busy, Claims
<1>1. ASSUME NEW a \in Actors, NEW t \in Threads, Start(a, t)
      PROVE  (Called /\ LockOwned /\ Fresh /\ Starts)'
  BY <1>1 DEF Start, Call, Set
<1>2. ASSUME NEW a \in Actors, NEW t \in Threads, Interrupt(a, t)
      PROVE  (Called /\ LockOwned /\ Fresh /\ Starts)'
  BY <1>2 DEF Interrupt, Call, Set
<1>3. ASSUME NEW a \in Actors, NEW t \in Threads, Detach(a, t)
      PROVE  (Called /\ LockOwned /\ Fresh /\ Starts)'
  BY <1>3 DEF Detach, Call, Set
<1>4. ASSUME NEW a \in Actors, NEW t \in Threads, Join(a, t, "join")
      PROVE  (Called /\ LockOwned /\ Fresh /\ Starts)'
  BY <1>4 DEF Join, Call, Set
<1>5. ASSUME NEW a \in Actors, NEW t \in Threads, Join(a, t, "tryjoin")
      PROVE  (Called /\ LockOwned /\ Fresh /\ Starts)'
  BY <1>5 DEF Join, Call, Set
<1>6. ASSUME NEW a \in Actors, CountIn(a)
      PROVE  (Called /\ LockOwned /\ Fresh /\ Starts)'
  BY <1>6 DEF CountIn
<1>7. ASSUME NEW a \in Actors, Create(a)
      PROVE  (Called /\ LockOwned /\ Fresh /\ Starts)'
  BY <1>7 DEF Create
<1>8. ASSUME NEW a \in Actors, CreateFails(a)
      PROVE  (Called /\ LockOwned /\ Fresh /\ Starts)'
  <2>0. /\ arg[a] \in Threads /\ state' = [state EXCEPT ![arg[a]] = Flags]
        /\ "STARTED" \in Flags /\ "DETACHED" \in Flags
    BY <1>8, CreateFailsSets
  <2>1. Called'
    BY <1>8, <2>0 DEF CreateFails, Return
  <2>2. LockOwned'
    BY <1>8, <2>0 DEF CreateFails, Return
  <2>3. Fresh'
    BY <1>8, <2>0 DEF CreateFails, Return
  <2>4. Starts'
    BY <1>8, <2>0 DEF CreateFails, Return
  <2>5. QED
    BY <2>1, <2>2, <2>3, <2>4
<1>9. ASSUME NEW a \in Actors, Started(a)
      PROVE  (Called /\ LockOwned /\ Fresh /\ Starts)'
  BY <1>9 DEF Started, Return
<1>10. ASSUME NEW a \in Actors, Raise(a)
      PROVE  (Called /\ LockOwned /\ Fresh /\ Starts)'
  BY <1>10 DEF Raise, Return
<1>11. ASSUME NEW a \in Actors, DetachHandle(a)
      PROVE  (Called /\ LockOwned /\ Fresh /\ Starts)'
  BY <1>11 DEF DetachHandle, UseHandle, Return
<1>12. ASSUME NEW a \in Actors, TryJoin(a)
      PROVE  (Called /\ LockOwned /\ Fresh /\ Starts)'
  BY <1>12 DEF TryJoin
<1>13. ASSUME NEW a \in Actors, JoinHandle(a)
      PROVE  (Called /\ LockOwned /\ Fresh /\ Starts)'
  BY <1>13 DEF JoinHandle, UseHandle
<1>14. ASSUME NEW a \in Actors, JoinFails(a)
      PROVE  (Called /\ LockOwned /\ Fresh /\ Starts)'
  BY <1>14 DEF JoinFails
<1>15. ASSUME NEW a \in Actors, Undo(a)
      PROVE  (Called /\ LockOwned /\ Fresh /\ Starts)'
  BY <1>15 DEF Undo, Reset, Return
<1>16. ASSUME NEW a \in Actors, Take(a)
      PROVE  (Called /\ LockOwned /\ Fresh /\ Starts)'
  BY <1>16 DEF Take, Return
<1>17. ASSUME NEW t \in Threads, Begin(t)
      PROVE  (Called /\ LockOwned /\ Fresh /\ Starts)'
  BY <1>17 DEF Begin
<1>18. ASSUME NEW t \in Threads, CheckInterrupt(t)
      PROVE  (Called /\ LockOwned /\ Fresh /\ Starts)'
  BY <1>18 DEF CheckInterrupt
<1>19. ASSUME NEW t \in Threads, DoCheckInterrupt(t)
      PROVE  (Called /\ LockOwned /\ Fresh /\ Starts)'
  BY <1>19 DEF DoCheckInterrupt, Set
<1>20. ASSUME NEW t \in Threads, Handle(t)
      PROVE  (Called /\ LockOwned /\ Fresh /\ Starts)'
  BY <1>20 DEF Handle
<1>21. ASSUME NEW t \in Threads, Forget(t)
      PROVE  (Called /\ LockOwned /\ Fresh /\ Starts)'
  BY <1>21 DEF Forget, Reset
<1>22. ASSUME NEW t \in Threads, Again(t)
      PROVE  (Called /\ LockOwned /\ Fresh /\ Starts)'
  BY <1>22 DEF Again
<1>23. ASSUME NEW t \in Threads, NoInterrupt(t)
      PROVE  (Called /\ LockOwned /\ Fresh /\ Starts)'
  BY <1>23 DEF NoInterrupt, Set, Reset
<1>24. ASSUME NEW t \in Threads, Terminate(t)
      PROVE  (Called /\ LockOwned /\ Fresh /\ Starts)'
  BY <1>24 DEF Terminate, Set
<1>25. ASSUME NEW t \in Threads, Settle(t)
      PROVE  (Called /\ LockOwned /\ Fresh /\ Starts)'
  BY <1>25 DEF Settle
<1>26. ASSUME NEW t \in Threads, Store(t)
      PROVE  (Called /\ LockOwned /\ Fresh /\ Starts)'
  BY <1>26 DEF Store
<1>27. ASSUME NEW t \in Threads, Release(t)
      PROVE  (Called /\ LockOwned /\ Fresh /\ Starts)'
  BY <1>27 DEF Release, Dtor, UseHandle
<1>28. ASSUME NEW t \in Threads, CountOut(t)
      PROVE  (Called /\ LockOwned /\ Fresh /\ Starts)'
  BY <1>28 DEF CountOut
<1>29. ASSUME NEW t \in Threads, Drop(t)
      PROVE  (Called /\ LockOwned /\ Fresh /\ Starts)'
  BY <1>29 DEF Drop, Dtor, UseHandle
<1>30. ASSUME Finalize
      PROVE  (Called /\ LockOwned /\ Fresh /\ Starts)'
  BY <1>30 DEF Finalize
<1>31. ASSUME Finalized
      PROVE  (Called /\ LockOwned /\ Fresh /\ Starts)'
  BY <1>31 DEF Finalized
<1>32. QED
  BY <1>1, <1>2, <1>3, <1>4, <1>5, <1>6, <1>7, <1>8, <1>9, <1>10, <1>11, <1>12, <1>13,
     <1>14, <1>15, <1>16, <1>17, <1>18, <1>19, <1>20, <1>21, <1>22, <1>23, <1>24,
     <1>25, <1>26, <1>27, <1>28, <1>29, <1>30, <1>31, Next
  DEF Next, Operation, Thread

(* DETACHED is set by one actor at a time, and the handle stays joinable    *)
(* until that actor has used it.                                            *)
LEMMA StepClaims ==
  ASSUME Early = FALSE, Local, Handles, Results, Next
  PROVE  (Claimed /\ OneClaim)'
<1> USE ConstantsOK DEF Actors, Go, shared, Local, Handles, Types, Called,
                        LockOwned, Fresh, Starts,
               Claimed, OneClaim, Unclaimed, Claimant, HandleIntact,
                  NoHandleLeak,
               Results, Starting, Busy, Claims, Unreferenced
<1>1. ASSUME NEW a \in Actors, NEW t \in Threads, Start(a, t)
      PROVE  (Claimed /\ OneClaim)'
  BY <1>1 DEF Start, Call, Set
<1>2. ASSUME NEW a \in Actors, NEW t \in Threads, Interrupt(a, t)
      PROVE  (Claimed /\ OneClaim)'
  BY <1>2 DEF Interrupt, Call, Set
<1>3. ASSUME NEW a \in Actors, NEW t \in Threads, Detach(a, t)
      PROVE  (Claimed /\ OneClaim)'
  BY <1>3 DEF Detach, Call, Set
<1>4. ASSUME NEW a \in Actors, NEW t \in Threads, Join(a, t, "join")
      PROVE  (Claimed /\ OneClaim)'
  BY <1>4 DEF Join, Call, Set
<1>5. ASSUME NEW a \in Actors, NEW t \in Threads, Join(a, t, "tryjoin")
      PROVE  (Claimed /\ OneClaim)'
  BY <1>5 DEF Join, Call, Set
<1>6. ASSUME NEW a \in Actors, CountIn(a)
      PROVE  (Claimed /\ OneClaim)'
  BY <1>6 DEF CountIn
<1>7. ASSUME NEW a \in Actors, Create(a)
      PROVE  (Claimed /\ OneClaim)'
  BY <1>7 DEF Create
<1>8. ASSUME NEW a \in Actors, CreateFails(a)
      PROVE  (Claimed /\ OneClaim)'
  <2>0. /\ arg[a] \in Threads /\ state' = [state EXCEPT ![arg[a]] = Flags]
        /\ "STARTED" \in Flags /\ "DETACHED" \in Flags
    BY <1>8, CreateFailsSets
  <2>1. Claimed'
    BY <1>8, <2>0 DEF CreateFails, Return
  <2>2. OneClaim'
    BY <1>8, <2>0 DEF CreateFails, Return
  <2>3. QED
    BY <2>1, <2>2
<1>9. ASSUME NEW a \in Actors, Started(a)
      PROVE  (Claimed /\ OneClaim)'
  BY <1>9 DEF Started, Return
<1>10. ASSUME NEW a \in Actors, Raise(a)
      PROVE  (Claimed /\ OneClaim)'
  BY <1>10 DEF Raise, Return
<1>11. ASSUME NEW a \in Actors, DetachHandle(a)
      PROVE  (Claimed /\ OneClaim)'
  BY <1>11 DEF DetachHandle, UseHandle, Return
<1>12. ASSUME NEW a \in Actors, TryJoin(a)
      PROVE  (Claimed /\ OneClaim)'
  BY <1>12 DEF TryJoin
<1>13. ASSUME NEW a \in Actors, JoinHandle(a)
      PROVE  (Claimed /\ OneClaim)'
  BY <1>13 DEF JoinHandle, UseHandle
<1>14. ASSUME NEW a \in Actors, JoinFails(a)
      PROVE  (Claimed /\ OneClaim)'
  BY <1>14 DEF JoinFails
<1>15. ASSUME NEW a \in Actors, Undo(a)
      PROVE  (Claimed /\ OneClaim)'
  BY <1>15 DEF Undo, Reset, Return
<1>16. ASSUME NEW a \in Actors, Take(a)
      PROVE  (Claimed /\ OneClaim)'
  BY <1>16 DEF Take, Return
<1>17. ASSUME NEW t \in Threads, Begin(t)
      PROVE  (Claimed /\ OneClaim)'
  BY <1>17 DEF Begin
<1>18. ASSUME NEW t \in Threads, CheckInterrupt(t)
      PROVE  (Claimed /\ OneClaim)'
  BY <1>18 DEF CheckInterrupt
<1>19. ASSUME NEW t \in Threads, DoCheckInterrupt(t)
      PROVE  (Claimed /\ OneClaim)'
  BY <1>19 DEF DoCheckInterrupt, Set
<1>20. ASSUME NEW t \in Threads, Handle(t)
      PROVE  (Claimed /\ OneClaim)'
  BY <1>20 DEF Handle
<1>21. ASSUME NEW t \in Threads, Forget(t)
      PROVE  (Claimed /\ OneClaim)'
  BY <1>21 DEF Forget, Reset
<1>22. ASSUME NEW t \in Threads, Again(t)
      PROVE  (Claimed /\ OneClaim)'
  BY <1>22 DEF Again
<1>23. ASSUME NEW t \in Threads, NoInterrupt(t)
      PROVE  (Claimed /\ OneClaim)'
  BY <1>23 DEF NoInterrupt, Set, Reset
<1>24. ASSUME NEW t \in Threads, Terminate(t)
      PROVE  (Claimed /\ OneClaim)'
  BY <1>24 DEF Terminate, Set
<1>25. ASSUME NEW t \in Threads, Settle(t)
      PROVE  (Claimed /\ OneClaim)'
  BY <1>25 DEF Settle
<1>26. ASSUME NEW t \in Threads, Store(t)
      PROVE  (Claimed /\ OneClaim)'
  BY <1>26 DEF Store
<1>27. ASSUME NEW t \in Threads, Release(t)
      PROVE  (Claimed /\ OneClaim)'
  BY <1>27 DEF Release, Dtor, UseHandle
<1>28. ASSUME NEW t \in Threads, CountOut(t)
      PROVE  (Claimed /\ OneClaim)'
  BY <1>28 DEF CountOut
<1>29. ASSUME NEW t \in Threads, Drop(t)
      PROVE  (Claimed /\ OneClaim)'
  BY <1>29 DEF Drop, Dtor, UseHandle
<1>30. ASSUME Finalize
      PROVE  (Claimed /\ OneClaim)'
  BY <1>30 DEF Finalize
<1>31. ASSUME Finalized
      PROVE  (Claimed /\ OneClaim)'
  BY <1>31 DEF Finalized
<1>32. QED
  BY <1>1, <1>2, <1>3, <1>4, <1>5, <1>6, <1>7, <1>8, <1>9, <1>10, <1>11, <1>12, <1>13,
     <1>14, <1>15, <1>16, <1>17, <1>18, <1>19, <1>20, <1>21, <1>22, <1>23, <1>24,
     <1>25, <1>26, <1>27, <1>28, <1>29, <1>30, <1>31, Next
  DEF Next, Operation, Thread

(* A joinable handle is claimed by whoever set DETACHED, or still free.     *)
LEMMA StepClaimants ==
  ASSUME Early = FALSE, Local, Handles, Results, Next
  PROVE  (Unclaimed /\ Claimant)'
<1> USE ConstantsOK DEF Actors, Go, shared, Local, Handles, Types, Called,
                        LockOwned, Fresh, Starts,
               Claimed, OneClaim, Unclaimed, Claimant, HandleIntact,
                  NoHandleLeak,
               Results, Starting, Busy, Claims, Unreferenced
<1>1. ASSUME NEW a \in Actors, NEW t \in Threads, Start(a, t)
      PROVE  (Unclaimed /\ Claimant)'
  <2>1. Unclaimed'
    BY <1>1 DEF Start, Call, Set
  <2>2. Claimant'
    BY <1>1 DEF Start, Call, Set
  <2>3. QED
    BY <2>1, <2>2
<1>2. ASSUME NEW a \in Actors, NEW t \in Threads, Interrupt(a, t)
      PROVE  (Unclaimed /\ Claimant)'
  <2>1. Unclaimed'
    BY <1>2 DEF Interrupt, Call, Set
  <2>2. Claimant'
    BY <1>2 DEF Interrupt, Call, Set
  <2>3. QED
    BY <2>1, <2>2
<1>3. ASSUME NEW a \in Actors, NEW t \in Threads, Detach(a, t)
      PROVE  (Unclaimed /\ Claimant)'
  <2>1. Unclaimed'
    BY <1>3 DEF Detach, Call, Set
  <2>2. Claimant'
    BY <1>3 DEF Detach, Call, Set
  <2>3. QED
    BY <2>1, <2>2
<1>4. ASSUME NEW a \in Actors, NEW t \in Threads, Join(a, t, "join")
      PROVE  (Unclaimed /\ Claimant)'
  <2>1. Unclaimed'
    BY <1>4 DEF Join, Call, Set
  <2>2. Claimant'
    BY <1>4 DEF Join, Call, Set
  <2>3. QED
    BY <2>1, <2>2
<1>5. ASSUME NEW a \in Actors, NEW t \in Threads, Join(a, t, "tryjoin")
      PROVE  (Unclaimed /\ Claimant)'
  <2>1. Unclaimed'
    BY <1>5 DEF Join, Call, Set
  <2>2. Claimant'
    BY <1>5 DEF Join, Call, Set
  <2>3. QED
    BY <2>1, <2>2
<1>6. ASSUME NEW a \in Actors, CountIn(a)
      PROVE  (Unclaimed /\ Claimant)'
  <2>1. Unclaimed'
    BY <1>6 DEF CountIn
  <2>2. Claimant'
    BY <1>6 DEF CountIn
  <2>3. QED
    BY <2>1, <2>2
<1>7. ASSUME NEW a \in Actors, Create(a)
      PROVE  (Unclaimed /\ Claimant)'
  <2>1. Unclaimed'
    BY <1>7 DEF Create
  <2>2. Claimant'
    BY <1>7 DEF Create
  <2>3. QED
    BY <2>1, <2>2
<1>8. ASSUME NEW a \in Actors, CreateFails(a)
      PROVE  (Unclaimed /\ Claimant)'
  <2>0. /\ arg[a] \in Threads /\ state' = [state EXCEPT ![arg[a]] = Flags]
        /\ "STARTED" \in Flags /\ "DETACHED" \in Flags
    BY <1>8, CreateFailsSets
  <2>1. Unclaimed'
    BY <1>8, <2>0 DEF CreateFails, Return
  <2>2. Claimant'
    BY <1>8, <2>0 DEF CreateFails, Return
  <2>3. QED
    BY <2>1, <2>2
<1>9. ASSUME NEW a \in Actors, Started(a)
      PROVE  (Unclaimed /\ Claimant)'
  <2>1. Unclaimed'
    BY <1>9 DEF Started, Return
  <2>2. Claimant'
    BY <1>9 DEF Started, Return
  <2>3. QED
    BY <2>1, <2>2
<1>10. ASSUME NEW a \in Actors, Raise(a)
      PROVE  (Unclaimed /\ Claimant)'
  <2>1. Unclaimed'
    BY <1>10 DEF Raise, Return
  <2>2. Claimant'
    BY <1>10 DEF Raise, Return
  <2>3. QED
    BY <2>1, <2>2
<1>11. ASSUME NEW a \in Actors, DetachHandle(a)
      PROVE  (Unclaimed /\ Claimant)'
  <2>1. Unclaimed'
    BY <1>11 DEF DetachHandle, UseHandle, Return
  <2>2. Claimant'
    BY <1>11 DEF DetachHandle, UseHandle, Return
  <2>3. QED
    BY <2>1, <2>2
<1>12. ASSUME NEW a \in Actors, TryJoin(a)
      PROVE  (Unclaimed /\ Claimant)'
  <2>1. Unclaimed'
    BY <1>12 DEF TryJoin
  <2>2. Claimant'
    BY <1>12 DEF TryJoin
  <2>3. QED
    BY <2>1, <2>2
<1>13. ASSUME NEW a \in Actors, JoinHandle(a)
      PROVE  (Unclaimed /\ Claimant)'
  <2>1. Unclaimed'
    BY <1>13 DEF JoinHandle, UseHandle
  <2>2. Claimant'
    BY <1>13 DEF JoinHandle, UseHandle
  <2>3. QED
    BY <2>1, <2>2
<1>14. ASSUME NEW a \in Actors, JoinFails(a)
      PROVE  (Unclaimed /\ Claimant)'
  <2>1. Unclaimed'
    BY <1>14 DEF JoinFails
  <2>2. Claimant'
    BY <1>14 DEF JoinFails
  <2>3. QED
    BY <2>1, <2>2
<1>15. ASSUME NEW a \in Actors, Undo(a)
      PROVE  (Unclaimed /\ Claimant)'
  <2>1. Unclaimed'
    BY <1>15 DEF Undo, Reset, Return
  <2>2. Claimant'
    BY <1>15 DEF Undo, Reset, Return
  <2>3. QED
    BY <2>1, <2>2
<1>16. ASSUME NEW a \in Actors, Take(a)
      PROVE  (Unclaimed /\ Claimant)'
  <2>1. Unclaimed'
    BY <1>16 DEF Take, Return
  <2>2. Claimant'
    BY <1>16 DEF Take, Return
  <2>3. QED
    BY <2>1, <2>2
<1>17. ASSUME NEW t \in Threads, Begin(t)
      PROVE  (Unclaimed /\ Claimant)'
  <2>1. Unclaimed'
    BY <1>17 DEF Begin
  <2>2. Claimant'
    BY <1>17 DEF Begin
  <2>3. QED
    BY <2>1, <2>2
<1>18. ASSUME NEW t \in Threads, CheckInterrupt(t)
      PROVE  (Unclaimed /\ Claimant)'
  <2>1. Unclaimed'
    BY <1>18 DEF CheckInterrupt
  <2>2. Claimant'
    BY <1>18 DEF CheckInterrupt
  <2>3. QED
    BY <2>1, <2>2
<1>19. ASSUME NEW t \in Threads, DoCheckInterrupt(t)
      PROVE  (Unclaimed /\ Claimant)'
  <2>1. Unclaimed'
    BY <1>19 DEF DoCheckInterrupt, Set
  <2>2. Claimant'
    BY <1>19 DEF DoCheckInterrupt, Set
  <2>3. QED
    BY <2>1, <2>2
<1>20. ASSUME NEW t \in Threads, Handle(t)
      PROVE  (Unclaimed /\ Claimant)'
  <2>1. Unclaimed'
    BY <1>20 DEF Handle
  <2>2. Claimant'
    BY <1>20 DEF Handle
  <2>3. QED
    BY <2>1, <2>2
<1>21. ASSUME NEW t \in Threads, Forget(t)
      PROVE  (Unclaimed /\ Claimant)'
  <2>1. Unclaimed'
    BY <1>21 DEF Forget, Reset
  <2>2. Claimant'
    BY <1>21 DEF Forget, Reset
  <2>3. QED
    BY <2>1, <2>2
<1>22. ASSUME NEW t \in Threads, Again(t)
      PROVE  (Unclaimed /\ Claimant)'
  <2>1. Unclaimed'
    BY <1>22 DEF Again
  <2>2. Claimant'
    BY <1>22 DEF Again
  <2>3. QED
    BY <2>1, <2>2
<1>23. ASSUME NEW t \in Threads, NoInterrupt(t)
      PROVE  (Unclaimed /\ Claimant)'
  <2>1. Unclaimed'
    BY <1>23 DEF NoInterrupt, Set, Reset
  <2>2. Claimant'
    BY <1>23 DEF NoInterrupt, Set, Reset
  <2>3. QED
    BY <2>1, <2>2
<1>24. ASSUME NEW t \in Threads, Terminate(t)
      PROVE  (Unclaimed /\ Claimant)'
  <2>1. Unclaimed'
    BY <1>24 DEF Terminate, Set
  <2>2. Claimant'
    BY <1>24 DEF Terminate, Set
  <2>3. QED
    BY <2>1, <2>2
<1>25. ASSUME NEW t \in Threads, Settle(t)
      PROVE  (Unclaimed /\ Claimant)'
  <2>1. Unclaimed'
    BY <1>25 DEF Settle
  <2>2. Claimant'
    BY <1>25 DEF Settle
  <2>3. QED
    BY <2>1, <2>2
<1>26. ASSUME NEW t \in Threads, Store(t)
      PROVE  (Unclaimed /\ Claimant)'
  <2>1. Unclaimed'
    BY <1>26 DEF Store
  <2>2. Claimant'
    BY <1>26 DEF Store
  <2>3. QED
    BY <2>1, <2>2
<1>27. ASSUME NEW t \in Threads, Release(t)
      PROVE  (Unclaimed /\ Claimant)'
  <2>1. Unclaimed'
    BY <1>27 DEF Release, Dtor, UseHandle
  <2>2. Claimant'
    BY <1>27 DEF Release, Dtor, UseHandle
  <2>3. QED
    BY <2>1, <2>2
<1>28. ASSUME NEW t \in Threads, CountOut(t)
      PROVE  (Unclaimed /\ Claimant)'
  <2>1. Unclaimed'
    BY <1>28 DEF CountOut
  <2>2. Claimant'
    BY <1>28 DEF CountOut
  <2>3. QED
    BY <2>1, <2>2
<1>29. ASSUME NEW t \in Threads, Drop(t)
      PROVE  (Unclaimed /\ Claimant)'
  <2>1. Unclaimed'
    BY <1>29 DEF Drop, Dtor, UseHandle
  <2>2. Claimant'
    BY <1>29 DEF Drop, Dtor, UseHandle
  <2>3. QED
    BY <2>1, <2>2
<1>30. ASSUME Finalize
      PROVE  (Unclaimed /\ Claimant)'
  <2>1. Unclaimed'
    BY <1>30 DEF Finalize
  <2>2. Claimant'
    BY <1>30 DEF Finalize
  <2>3. QED
    BY <2>1, <2>2
<1>31. ASSUME Finalized
      PROVE  (Unclaimed /\ Claimant)'
  <2>1. Unclaimed'
    BY <1>31 DEF Finalized
  <2>2. Claimant'
    BY <1>31 DEF Finalized
  <2>3. QED
    BY <2>1, <2>2
<1>32. QED
  BY <1>1, <1>2, <1>3, <1>4, <1>5, <1>6, <1>7, <1>8, <1>9, <1>10, <1>11, <1>12, <1>13,
     <1>14, <1>15, <1>16, <1>17, <1>18, <1>19, <1>20, <1>21, <1>22, <1>23, <1>24,
     <1>25, <1>26, <1>27, <1>28, <1>29, <1>30, <1>31, Next
  DEF Next, Operation, Thread

(* So no handle is used twice or left, and a result is there until it is   *)
(* taken.                                                                   *)
LEMMA StepHandles ==
  ASSUME Early = FALSE, Local, Handles, Results, Next
  PROVE  (HandleIntact /\ NoHandleLeak /\ Results)'
<1> USE ConstantsOK DEF Actors, Go, shared, Local, Handles, Types, Called,
                        LockOwned, Fresh, Starts,
               Claimed, OneClaim, Unclaimed, Claimant, HandleIntact,
                  NoHandleLeak,
               Results, Starting, Busy, Claims, Unreferenced
<1>1. ASSUME NEW a \in Actors, NEW t \in Threads, Start(a, t)
      PROVE  (HandleIntact /\ NoHandleLeak /\ Results)'
  BY <1>1 DEF Start, Call, Set
<1>2. ASSUME NEW a \in Actors, NEW t \in Threads, Interrupt(a, t)
      PROVE  (HandleIntact /\ NoHandleLeak /\ Results)'
  BY <1>2 DEF Interrupt, Call, Set
<1>3. ASSUME NEW a \in Actors, NEW t \in Threads, Detach(a, t)
      PROVE  (HandleIntact /\ NoHandleLeak /\ Results)'
  BY <1>3 DEF Detach, Call, Set
<1>4. ASSUME NEW a \in Actors, NEW t \in Threads, Join(a, t, "join")
      PROVE  (HandleIntact /\ NoHandleLeak /\ Results)'
  BY <1>4 DEF Join, Call, Set
<1>5. ASSUME NEW a \in Actors, NEW t \in Threads, Join(a, t, "tryjoin")
      PROVE  (HandleIntact /\ NoHandleLeak /\ Results)'
  BY <1>5 DEF Join, Call, Set
<1>6. ASSUME NEW a \in Actors, CountIn(a)
      PROVE  (HandleIntact /\ NoHandleLeak /\ Results)'
  BY <1>6 DEF CountIn
<1>7. ASSUME NEW a \in Actors, Create(a)
      PROVE  (HandleIntact /\ NoHandleLeak /\ Results)'
  BY <1>7 DEF Create
<1>8. ASSUME NEW a \in Actors, CreateFails(a)
      PROVE  (HandleIntact /\ NoHandleLeak /\ Results)'
  <2>0. /\ arg[a] \in Threads /\ state' = [state EXCEPT ![arg[a]] = Flags]
        /\ "STARTED" \in Flags /\ "DETACHED" \in Flags
    BY <1>8, CreateFailsSets
  <2>1. HandleIntact'
    BY <1>8, <2>0 DEF CreateFails, Return
  <2>2. NoHandleLeak'
    BY <1>8, <2>0 DEF CreateFails, Return
  <2>3. Results'
    BY <1>8, <2>0 DEF CreateFails, Return
  <2>4. QED
    BY <2>1, <2>2, <2>3
<1>9. ASSUME NEW a \in Actors, Started(a)
      PROVE  (HandleIntact /\ NoHandleLeak /\ Results)'
  BY <1>9 DEF Started, Return
<1>10. ASSUME NEW a \in Actors, Raise(a)
      PROVE  (HandleIntact /\ NoHandleLeak /\ Results)'
  BY <1>10 DEF Raise, Return
<1>11. ASSUME NEW a \in Actors, DetachHandle(a)
      PROVE  (HandleIntact /\ NoHandleLeak /\ Results)'
  BY <1>11 DEF DetachHandle, UseHandle, Return
<1>12. ASSUME NEW a \in Actors, TryJoin(a)
      PROVE  (HandleIntact /\ NoHandleLeak /\ Results)'
  BY <1>12 DEF TryJoin
<1>13. ASSUME NEW a \in Actors, JoinHandle(a)
      PROVE  (HandleIntact /\ NoHandleLeak /\ Results)'
  BY <1>13 DEF JoinHandle, UseHandle
<1>14. ASSUME NEW a \in Actors, JoinFails(a)
      PROVE  (HandleIntact /\ NoHandleLeak /\ Results)'
  BY <1>14 DEF JoinFails
<1>15. ASSUME NEW a \in Actors, Undo(a)
      PROVE  (HandleIntact /\ NoHandleLeak /\ Results)'
  BY <1>15 DEF Undo, Reset, Return
<1>16. ASSUME NEW a \in Actors, Take(a)
      PROVE  (HandleIntact /\ NoHandleLeak /\ Results)'
  BY <1>16 DEF Take, Return
<1>17. ASSUME NEW t \in Threads, Begin(t)
      PROVE  (HandleIntact /\ NoHandleLeak /\ Results)'
  BY <1>17 DEF Begin
<1>18. ASSUME NEW t \in Threads, CheckInterrupt(t)
      PROVE  (HandleIntact /\ NoHandleLeak /\ Results)'
  BY <1>18 DEF CheckInterrupt
<1>19. ASSUME NEW t \in Threads, DoCheckInterrupt(t)
      PROVE  (HandleIntact /\ NoHandleLeak /\ Results)'
  BY <1>19 DEF DoCheckInterrupt, Set
<1>20. ASSUME NEW t \in Threads, Handle(t)
      PROVE  (HandleIntact /\ NoHandleLeak /\ Results)'
  BY <1>20 DEF Handle
<1>21. ASSUME NEW t \in Threads, Forget(t)
      PROVE  (HandleIntact /\ NoHandleLeak /\ Results)'
  BY <1>21 DEF Forget, Reset
<1>22. ASSUME NEW t \in Threads, Again(t)
      PROVE  (HandleIntact /\ NoHandleLeak /\ Results)'
  BY <1>22 DEF Again
<1>23. ASSUME NEW t \in Threads, NoInterrupt(t)
      PROVE  (HandleIntact /\ NoHandleLeak /\ Results)'
  BY <1>23 DEF NoInterrupt, Set, Reset
<1>24. ASSUME NEW t \in Threads, Terminate(t)
      PROVE  (HandleIntact /\ NoHandleLeak /\ Results)'
  BY <1>24 DEF Terminate, Set
<1>25. ASSUME NEW t \in Threads, Settle(t)
      PROVE  (HandleIntact /\ NoHandleLeak /\ Results)'
  BY <1>25 DEF Settle
<1>26. ASSUME NEW t \in Threads, Store(t)
      PROVE  (HandleIntact /\ NoHandleLeak /\ Results)'
  BY <1>26 DEF Store
<1>27. ASSUME NEW t \in Threads, Release(t)
      PROVE  (HandleIntact /\ NoHandleLeak /\ Results)'
  BY <1>27 DEF Release, Dtor, UseHandle
<1>28. ASSUME NEW t \in Threads, CountOut(t)
      PROVE  (HandleIntact /\ NoHandleLeak /\ Results)'
  BY <1>28 DEF CountOut
<1>29. ASSUME NEW t \in Threads, Drop(t)
      PROVE  (HandleIntact /\ NoHandleLeak /\ Results)'
  BY <1>29 DEF Drop, Dtor, UseHandle
<1>30. ASSUME Finalize
      PROVE  (HandleIntact /\ NoHandleLeak /\ Results)'
  BY <1>30 DEF Finalize
<1>31. ASSUME Finalized
      PROVE  (HandleIntact /\ NoHandleLeak /\ Results)'
  BY <1>31 DEF Finalized
<1>32. QED
  BY <1>1, <1>2, <1>3, <1>4, <1>5, <1>6, <1>7, <1>8, <1>9, <1>10, <1>11, <1>12, <1>13,
     <1>14, <1>15, <1>16, <1>17, <1>18, <1>19, <1>20, <1>21, <1>22, <1>23, <1>24,
     <1>25, <1>26, <1>27, <1>28, <1>29, <1>30, <1>31, Next
  DEF Next, Operation, Thread

(* What is counted changes where running does. *)
LEMMA StepCounted ==
  ASSUME Early = FALSE, Local, Next
  PROVE  \/ Counted' = Counted /\ running' = running
         \/ \E t \in Threads : t \notin Counted /\ Counted' = Counted \cup {t} /\ running' = running + 1
         \/ \E t \in Threads : t \in Counted /\ Counted' = Counted \ {t} /\ running' = running - 1
<1> USE ConstantsOK DEF Counted, Counts, Actors, Go, shared, Local, Types,
                        Called, LockOwned, Fresh, Starts, Starting, Busy, Claims
<1>1. ASSUME NEW a \in Actors, NEW t \in Threads, Start(a, t)
      PROVE  Counted' = Counted /\ running' = running
  BY <1>1 DEF Start, Call, Set
<1>2. ASSUME NEW a \in Actors, NEW t \in Threads, Interrupt(a, t)
      PROVE  Counted' = Counted /\ running' = running
  BY <1>2 DEF Interrupt, Call, Set
<1>3. ASSUME NEW a \in Actors, NEW t \in Threads, Detach(a, t)
      PROVE  Counted' = Counted /\ running' = running
  BY <1>3 DEF Detach, Call, Set
<1>4. ASSUME NEW a \in Actors, NEW t \in Threads, Join(a, t, "join")
      PROVE  Counted' = Counted /\ running' = running
  BY <1>4 DEF Join, Call, Set
<1>5. ASSUME NEW a \in Actors, NEW t \in Threads, Join(a, t, "tryjoin")
      PROVE  Counted' = Counted /\ running' = running
  BY <1>5 DEF Join, Call, Set
<1>6. ASSUME NEW a \in Actors, CountIn(a)
      PROVE  /\ arg[a] \in Threads
             /\ arg[a] \notin Counted /\ Counted' = Counted \cup {arg[a]}
             /\ running' = running + 1
  BY <1>6 DEF CountIn
<1>7. ASSUME NEW a \in Actors, Create(a)
      PROVE  Counted' = Counted /\ running' = running
  BY <1>7 DEF Create
<1>8. ASSUME NEW a \in Actors, CreateFails(a)
      PROVE  /\ arg[a] \in Threads
             /\ arg[a] \in Counted /\ Counted' = Counted \ {arg[a]}
             /\ running' = running - 1
  BY <1>8 DEF CreateFails, Return
<1>9. ASSUME NEW a \in Actors, Started(a)
      PROVE  Counted' = Counted /\ running' = running
  BY <1>9 DEF Started, Return
<1>10. ASSUME NEW a \in Actors, Raise(a)
      PROVE  Counted' = Counted /\ running' = running
  BY <1>10 DEF Raise, Return
<1>11. ASSUME NEW a \in Actors, DetachHandle(a)
      PROVE  Counted' = Counted /\ running' = running
  BY <1>11 DEF DetachHandle, UseHandle, Return
<1>12. ASSUME NEW a \in Actors, TryJoin(a)
      PROVE  Counted' = Counted /\ running' = running
  BY <1>12 DEF TryJoin
<1>13. ASSUME NEW a \in Actors, JoinHandle(a)
      PROVE  Counted' = Counted /\ running' = running
  BY <1>13 DEF JoinHandle, UseHandle
<1>14. ASSUME NEW a \in Actors, JoinFails(a)
      PROVE  Counted' = Counted /\ running' = running
  BY <1>14 DEF JoinFails
<1>15. ASSUME NEW a \in Actors, Undo(a)
      PROVE  Counted' = Counted /\ running' = running
  BY <1>15 DEF Undo, Reset, Return
<1>16. ASSUME NEW a \in Actors, Take(a)
      PROVE  Counted' = Counted /\ running' = running
  BY <1>16 DEF Take, Return
<1>17. ASSUME NEW t \in Threads, Begin(t)
      PROVE  Counted' = Counted /\ running' = running
  BY <1>17 DEF Begin
<1>18. ASSUME NEW t \in Threads, CheckInterrupt(t)
      PROVE  Counted' = Counted /\ running' = running
  BY <1>18 DEF CheckInterrupt
<1>19. ASSUME NEW t \in Threads, DoCheckInterrupt(t)
      PROVE  Counted' = Counted /\ running' = running
  BY <1>19 DEF DoCheckInterrupt, Set
<1>20. ASSUME NEW t \in Threads, Handle(t)
      PROVE  Counted' = Counted /\ running' = running
  BY <1>20 DEF Handle
<1>21. ASSUME NEW t \in Threads, Forget(t)
      PROVE  Counted' = Counted /\ running' = running
  BY <1>21 DEF Forget, Reset
<1>22. ASSUME NEW t \in Threads, Again(t)
      PROVE  Counted' = Counted /\ running' = running
  BY <1>22 DEF Again
<1>23. ASSUME NEW t \in Threads, NoInterrupt(t)
      PROVE  Counted' = Counted /\ running' = running
  BY <1>23 DEF NoInterrupt, Set, Reset
<1>24. ASSUME NEW t \in Threads, Terminate(t)
      PROVE  Counted' = Counted /\ running' = running
  BY <1>24 DEF Terminate, Set
<1>25. ASSUME NEW t \in Threads, Settle(t)
      PROVE  Counted' = Counted /\ running' = running
  BY <1>25 DEF Settle
<1>26. ASSUME NEW t \in Threads, Store(t)
      PROVE  Counted' = Counted /\ running' = running
  BY <1>26 DEF Store
<1>27. ASSUME NEW t \in Threads, Release(t)
      PROVE  Counted' = Counted /\ running' = running
  BY <1>27 DEF Release, Dtor, UseHandle
<1>28. ASSUME NEW t \in Threads, CountOut(t)
      PROVE  t \in Counted /\ Counted' = Counted \ {t} /\ running' = running - 1
  BY <1>28 DEF CountOut
<1>29. ASSUME NEW t \in Threads, Drop(t)
      PROVE  Counted' = Counted /\ running' = running
  BY <1>29 DEF Drop, Dtor, UseHandle
<1>30. ASSUME Finalize
      PROVE  Counted' = Counted /\ running' = running
  BY <1>30 DEF Finalize
<1>31. ASSUME Finalized
      PROVE  Counted' = Counted /\ running' = running
  BY <1>31 DEF Finalized
<1>32. QED
  BY <1>1, <1>2, <1>3, <1>4, <1>5, <1>6, <1>7, <1>8, <1>9, <1>10, <1>11, <1>12, <1>13,
     <1>14, <1>15, <1>16, <1>17, <1>18, <1>19, <1>20, <1>21, <1>22, <1>23, <1>24,
     <1>25, <1>26, <1>27, <1>28, <1>29, <1>30, <1>31, Next
  DEF Next, Operation, Thread

(* At the end nothing is counted, so nothing runs or is about to be created. *)
LEMMA StepQuiet ==
  ASSUME Early = FALSE, IsFiniteSet(Threads), Local, running =
     Cardinality(Counted), QuietWhenFinal, Next
  PROVE  QuietWhenFinal'
<1> USE ConstantsOK DEF Local, Types, Actors, Go, shared, QuietWhenFinal,
                        Called, Busy, Starting, Claims
<1>1. ASSUME NEW a \in Actors, NEW t \in Threads, Start(a, t)
      PROVE  QuietWhenFinal'
  BY <1>1 DEF Start, Call, Set
<1>2. ASSUME NEW a \in Actors, NEW t \in Threads, Interrupt(a, t)
      PROVE  QuietWhenFinal'
  BY <1>2 DEF Interrupt, Call, Set
<1>3. ASSUME NEW a \in Actors, NEW t \in Threads, Detach(a, t)
      PROVE  QuietWhenFinal'
  BY <1>3 DEF Detach, Call, Set
<1>4. ASSUME NEW a \in Actors, NEW t \in Threads, Join(a, t, "join")
      PROVE  QuietWhenFinal'
  BY <1>4 DEF Join, Call, Set
<1>5. ASSUME NEW a \in Actors, NEW t \in Threads, Join(a, t, "tryjoin")
      PROVE  QuietWhenFinal'
  BY <1>5 DEF Join, Call, Set
<1>6. ASSUME NEW a \in Actors, CountIn(a)
      PROVE  QuietWhenFinal'
  BY <1>6 DEF CountIn
<1>7. ASSUME NEW a \in Actors, Create(a)
      PROVE  QuietWhenFinal'
  BY <1>7 DEF Create
<1>8. ASSUME NEW a \in Actors, CreateFails(a)
      PROVE  QuietWhenFinal'
  BY <1>8 DEF CreateFails, Return
<1>9. ASSUME NEW a \in Actors, Started(a)
      PROVE  QuietWhenFinal'
  BY <1>9 DEF Started, Return
<1>10. ASSUME NEW a \in Actors, Raise(a)
      PROVE  QuietWhenFinal'
  BY <1>10 DEF Raise, Return
<1>11. ASSUME NEW a \in Actors, DetachHandle(a)
      PROVE  QuietWhenFinal'
  BY <1>11 DEF DetachHandle, UseHandle, Return
<1>12. ASSUME NEW a \in Actors, TryJoin(a)
      PROVE  QuietWhenFinal'
  BY <1>12 DEF TryJoin
<1>13. ASSUME NEW a \in Actors, JoinHandle(a)
      PROVE  QuietWhenFinal'
  BY <1>13 DEF JoinHandle, UseHandle
<1>14. ASSUME NEW a \in Actors, JoinFails(a)
      PROVE  QuietWhenFinal'
  BY <1>14 DEF JoinFails
<1>15. ASSUME NEW a \in Actors, Undo(a)
      PROVE  QuietWhenFinal'
  BY <1>15 DEF Undo, Reset, Return
<1>16. ASSUME NEW a \in Actors, Take(a)
      PROVE  QuietWhenFinal'
  BY <1>16 DEF Take, Return
<1>17. ASSUME NEW t \in Threads, Begin(t)
      PROVE  QuietWhenFinal'
  BY <1>17 DEF Begin
<1>18. ASSUME NEW t \in Threads, CheckInterrupt(t)
      PROVE  QuietWhenFinal'
  BY <1>18 DEF CheckInterrupt
<1>19. ASSUME NEW t \in Threads, DoCheckInterrupt(t)
      PROVE  QuietWhenFinal'
  BY <1>19 DEF DoCheckInterrupt, Set
<1>20. ASSUME NEW t \in Threads, Handle(t)
      PROVE  QuietWhenFinal'
  BY <1>20 DEF Handle
<1>21. ASSUME NEW t \in Threads, Forget(t)
      PROVE  QuietWhenFinal'
  BY <1>21 DEF Forget, Reset
<1>22. ASSUME NEW t \in Threads, Again(t)
      PROVE  QuietWhenFinal'
  BY <1>22 DEF Again
<1>23. ASSUME NEW t \in Threads, NoInterrupt(t)
      PROVE  QuietWhenFinal'
  BY <1>23 DEF NoInterrupt, Set, Reset
<1>24. ASSUME NEW t \in Threads, Terminate(t)
      PROVE  QuietWhenFinal'
  BY <1>24 DEF Terminate, Set
<1>25. ASSUME NEW t \in Threads, Settle(t)
      PROVE  QuietWhenFinal'
  BY <1>25 DEF Settle
<1>26. ASSUME NEW t \in Threads, Store(t)
      PROVE  QuietWhenFinal'
  BY <1>26 DEF Store
<1>27. ASSUME NEW t \in Threads, Release(t)
      PROVE  QuietWhenFinal'
  BY <1>27 DEF Release, Dtor, UseHandle
<1>28. ASSUME NEW t \in Threads, CountOut(t)
      PROVE  QuietWhenFinal'
  BY <1>28 DEF CountOut
<1>29. ASSUME NEW t \in Threads, Drop(t)
      PROVE  QuietWhenFinal'
  BY <1>29 DEF Drop, Dtor, UseHandle
<1>30. ASSUME Finalize
      PROVE  QuietWhenFinal'
  BY <1>30 DEF Finalize
<1>31. ASSUME Finalized
      PROVE  QuietWhenFinal'
  <2>1. IsFiniteSet(Counted)
    BY FS_Subset DEF Counted
  <2>2. Counted = {}
    BY <1>31, <2>1, FS_EmptySet DEF Finalized
  <2>3. QED
    BY <1>31, <2>2 DEF Finalized, Counted, Counts
<1>32. QED
  BY <1>1, <1>2, <1>3, <1>4, <1>5, <1>6, <1>7, <1>8, <1>9, <1>10, <1>11, <1>12, <1>13,
     <1>14, <1>15, <1>16, <1>17, <1>18, <1>19, <1>20, <1>21, <1>22, <1>23, <1>24,
     <1>25, <1>26, <1>27, <1>28, <1>29, <1>30, <1>31, Next
  DEF Next, Operation, Thread

(* Initially no object has been started. *)
LEMMA InitIInv == Init => IInv
<1> SUFFICES ASSUME Init PROVE IInv
  OBVIOUS
<1> USE ConstantsOK DEF Init, Actors
<1>1. Local
  BY FlagNames
  DEF Local, Types, Called, LockOwned, Fresh, Starts, Places, Stages, Busy, Starting,
      Claims, CounterWidth
<1>2. Handles
  BY
  DEF Handles, Claimed, OneClaim, Unclaimed, Claimant, HandleIntact, NoHandleLeak,
      Claims
<1>3. Results /\ QuietWhenFinal
  BY DEF Results, QuietWhenFinal
<1>4. Counted = {}
  BY DEF Counted, Counts
<1>5. QED
  BY <1>1, <1>2, <1>3, <1>4, FS_EmptySet DEF IInv

(* The counter follows the number of what is counted. *)
LEMMA StepRunning ==
  ASSUME Early = FALSE, IsFiniteSet(Threads), IInv, Next
  PROVE  running' = Cardinality(Counted')
<1>1. IsFiniteSet(Counted) /\ Cardinality(Counted) \in Nat
  BY FS_Subset, FS_CardinalityType DEF Counted
<1>2. ASSUME NEW t \in Threads, t \notin Counted,
             Counted' = Counted \cup {t}, running' = running + 1
      PROVE  running' = Cardinality(Counted')
  BY <1>1, <1>2, FS_AddElement DEF IInv
<1>3. ASSUME NEW t \in Threads, t \in Counted,
             Counted' = Counted \ {t}, running' = running - 1
      PROVE  running' = Cardinality(Counted')
  BY <1>1, <1>3, FS_RemoveElement DEF IInv
<1>4. CASE Counted' = Counted /\ running' = running
  BY <1>4 DEF IInv
<1>5. QED
  BY <1>2, <1>3, <1>4, StepCounted DEF IInv

(* Every step preserves the inductive invariant. *)
LEMMA StepIInv ==
  ASSUME Early = FALSE, IsFiniteSet(Threads), IInv, [Next]_vars
  PROVE  IInv'
<1>1. CASE Next
  <2>1. Local'
    BY <1>1, StepTypes, StepLocal DEF IInv, Local, Handles
  <2>2. Handles'
    BY <1>1, StepClaims, StepClaimants, StepHandles DEF IInv, Handles
  <2>3. Results'
    BY <1>1, StepHandles DEF IInv
  <2>4. QED
    BY <1>1, <2>1, <2>2, <2>3, StepRunning, StepQuiet DEF IInv
<1>2. CASE UNCHANGED vars
  BY <1>2
  DEF vars, IInv, Local, Types, Called, LockOwned, Fresh, Starts, Handles, Claimed,
      OneClaim, Unclaimed, Claimant, HandleIntact, NoHandleLeak, Results,
      QuietWhenFinal, Counted, Counts, Unreferenced
<1>3. QED
  BY <1>1, <1>2

(* The inductive invariant holds in every reachable state. *)
THEOREM Invariance ==
  ASSUME Early = FALSE, IsFiniteSet(Threads)
  PROVE  Spec => []IInv
<1>1. IInv /\ [Next]_vars => IInv'
  BY StepIInv
<1>2. QED
  BY <1>1, InitIInv, PTL DEF Spec

(* Every variable has its type; in particular _deethread_counter is never   *)
(* below zero and never above the number of thread objects.                 *)
THEOREM TypeCorrect ==
  ASSUME Early = FALSE, IsFiniteSet(Threads)
  PROVE  Spec => []TypeOK
<1>1. IInv => running \in 0..Cardinality(Threads)
  <2>1. Cardinality(Counted) \in Nat /\ Cardinality(Threads) \in Nat
    BY FS_Subset, FS_CardinalityType DEF Counted
  <2>2. Cardinality(Counted) <= Cardinality(Threads)
    BY FS_Subset DEF Counted
  <2>3. QED
    BY <2>1, <2>2 DEF IInv
<1>2. IInv => TypeOK
  BY <1>1 DEF IInv, Local, Types, TypeOK
<1>3. QED
  BY <1>2, Invariance, PTL

(* Each system thread is joined or detached at most once, and only when it   *)
(* exists, whoever starts, joins, detaches and drops the object and when.    *)
THEOREM HandlesIntact ==
  ASSUME Early = FALSE, IsFiniteSet(Threads)
  PROVE  Spec => []HandleIntact
<1>1. IInv => HandleIntact
  BY DEF IInv, Handles
<1>2. QED
  BY <1>1, Invariance, PTL

(* When the object and its thread are gone, the system thread was joined or  *)
(* detached.                                                                 *)
THEOREM HandlesFreed ==
  ASSUME Early = FALSE, IsFiniteSet(Threads)
  PROVE  Spec => []NoHandleLeak
<1>1. IInv => NoHandleLeak
  BY DEF IInv, Handles
<1>2. QED
  BY <1>1, Invariance, PTL

(* DeeThread_Join and DeeThread_TryJoin find the result of a thread that     *)
(* they joined.                                                              *)
THEOREM JoinsFindResult ==
  ASSUME Early = FALSE, IsFiniteSet(Threads)
  PROVE  Spec => []JoinFindsResult
<1>1. IInv => JoinFindsResult
  BY DEF IInv, Handles, Claimed, JoinFindsResult
<1>2. QED
  BY <1>1, Invariance, PTL

(* No thread runs when the finalization goes on, and none is started.       *)
THEOREM QuietAtEnd ==
  ASSUME Early = FALSE, IsFiniteSet(Threads)
  PROVE  Spec => []QuietWhenFinal
<1>1. IInv => QuietWhenFinal
  BY DEF IInv
<1>2. QED
  BY <1>1, Invariance, PTL

(***************************************************************************)
(* The counter of interrupts.  It counts, modulo 2^16, some of the threads *)
(* with an interrupt nobody has handled: all that still run, and those of  *)
(* the others that were interrupted after they had settled theirs.         *)
(***************************************************************************)
Waiting(t) == "INTERRUPTED" \in state[t] /\ "HANDLED" \notin state[t]
Unhandled == {t \in Threads : Waiting(t)}
Pending == {t \in Threads : Waiting(t) /\ "TERMINATED" \notin state[t]}

(* The actors about to add to the counter, and to take from it. *)
Adding == {a \in Actors : pc[a] \in {"raise", "again"}}
Taking == {a \in Actors : pc[a] \in {"handle", "settle"}}

Balance ==
  \E K \in SUBSET Threads, z \in Int :
    /\ Pending \subseteq K /\ K \subseteq Unhandled
    /\ itrp + Cardinality(Adding) - Cardinality(Taking)
         = Cardinality(K) + z * CounterWidth

(* Only an interrupt can be handled, and a thread has the flag of its end   *)
(* only at its end, or when it could not be created.                        *)
InterruptFlags ==
  \A t \in Threads :
    /\ "HANDLED" \in state[t] => "INTERRUPTED" \in state[t]
    /\ "TERMINATED" \in state[t] =>
         pc[t] \in {"unborn", "settle", "store", "release", "uncount", "ended"}

InterruptInv == InterruptFlags /\ Balance

(* Nobody waits for a thread that could not be created to handle anything. *)
LEMMA FailedDoesNotWait ==
  ASSUME state \in [Threads -> SUBSET Flags], NEW t \in Threads,
         state[t] = {"STARTED"}, state' = [state EXCEPT ![t] = Flags]
  PROVE  UNCHANGED <<Unhandled, Pending>>
<1>1. \A u \in Threads : Waiting(u)' = Waiting(u) /\ (u # t => state'[u] = state[u])
  BY FlagNames DEF Waiting
<1>2. ~Waiting(t)
  BY DEF Waiting
<1>3. QED
  BY <1>1, <1>2 DEF Unhandled, Pending

(* A thread that could not be created has the flag of its end, and no more. *)
LEMMA FailedFlags ==
  ASSUME state \in [Threads -> SUBSET Flags], pc \in [Actors -> Places \cup Stages],
         InterruptFlags, NEW a \in Actors, NEW t \in Threads,
         pc[a] = "create", pc' = [pc EXCEPT ![a] = "run"],
         pc[t] = "unborn", state' = [state EXCEPT ![t] = Flags]
  PROVE  InterruptFlags'
<1>1. "HANDLED" \in Flags /\ "INTERRUPTED" \in Flags
  BY FlagNames
<1>2. pc'[t] = "unborn" /\ state'[t] = Flags
  BY DEF Actors
<1>3. ASSUME NEW u \in Threads, u # t
      PROVE  state'[u] = state[u] /\ (u # a => pc'[u] = pc[u])
  BY <1>3 DEF Actors
<1>4. \A u \in Threads : pc[u] = "create" => "TERMINATED" \notin state[u]
  BY DEF InterruptFlags
<1>5. QED
  BY <1>1, <1>2, <1>3, <1>4 DEF InterruptFlags

(* What is counted is finite. *)
LEMMA CountedFinite ==
  ASSUME IsFiniteSet(Threads)
  PROVE  /\ IsFiniteSet(Adding) /\ IsFiniteSet(Taking)
         /\ Cardinality(Adding) \in Nat /\ Cardinality(Taking) \in Nat
         /\ \A K \in SUBSET Threads : IsFiniteSet(K) /\ Cardinality(K) \in Nat
<1>1. IsFiniteSet(Actors)
  BY FS_AddElement DEF Actors
<1>2. IsFiniteSet(Adding) /\ IsFiniteSet(Taking)
  BY <1>1, FS_Subset DEF Adding, Taking
<1>3. \A K \in SUBSET Threads : IsFiniteSet(K)
  BY FS_Subset
<1>4. QED
  BY <1>2, <1>3, FS_CardinalityType

(* A set with an element more. *)
LEMMA OneMore ==
  ASSUME NEW S, NEW x, IsFiniteSet(S), x \notin S
  PROVE  Cardinality(S \cup {x}) = Cardinality(S) + 1
BY FS_AddElement

(* A set with an element less. *)
LEMMA OneLess ==
  ASSUME NEW S, NEW x, IsFiniteSet(S), x \in S
  PROVE  Cardinality(S \ {x}) = Cardinality(S) - 1
BY FS_RemoveElement

(* A step that has nothing to do with interrupts. *)
LEMMA BalanceSame ==
  ASSUME Balance, UNCHANGED <<Unhandled, Pending, Adding, Taking, itrp>>
  PROVE  Balance'
<1>1. PICK K \in SUBSET Threads, z \in Int :
        /\ Pending \subseteq K /\ K \subseteq Unhandled
        /\ itrp + Cardinality(Adding) - Cardinality(Taking)
             = Cardinality(K) + z * CounterWidth
  BY DEF Balance
<1>2. QED
  BY <1>1 DEF Balance

(* A thread gets an interrupt, and somebody is about to count it. *)
LEMMA BalanceInterrupted ==
  ASSUME IsFiniteSet(Threads), Balance, itrp \in Nat, UNCHANGED <<itrp, Taking>>,
         NEW t \in Threads, t \notin Unhandled, Unhandled' = Unhandled \cup {t},
         Pending' \subseteq Pending \cup {t},
         NEW a, a \notin Adding, Adding' = Adding \cup {a}
  PROVE  Balance'
<1>1. PICK K \in SUBSET Threads, z \in Int :
        /\ Pending \subseteq K /\ K \subseteq Unhandled
        /\ itrp + Cardinality(Adding) - Cardinality(Taking)
             = Cardinality(K) + z * CounterWidth
  BY DEF Balance
<1> DEFINE L == K \cup {t}
<1>2. L \in SUBSET Threads /\ Pending' \subseteq L /\ L \subseteq Unhandled'
  BY <1>1
<1>3. Cardinality(L) = Cardinality(K) + 1 /\ Cardinality(Adding') = Cardinality(Adding) + 1
  BY <1>1, CountedFinite, OneMore
<1>4. itrp' + Cardinality(Adding') - Cardinality(Taking') = Cardinality(L) + z * CounterWidth
  BY <1>1, <1>3, CountedFinite DEF CounterWidth
<1> HIDE DEF L
<1>5. QED
  BY <1>2, <1>4 DEF Balance

(* A thread that runs handles its interrupt, or ends with it, and is about  *)
(* to take it from the counter.                                             *)
LEMMA BalanceHandled ==
  ASSUME IsFiniteSet(Threads), Balance, itrp \in Nat, UNCHANGED <<itrp, Adding>>,
         NEW t \in Pending, Pending' = Pending \ {t}, Unhandled \ {t} \subseteq Unhandled',
         t \notin Taking, Taking' = Taking \cup {t}
  PROVE  Balance'
<1>1. PICK K \in SUBSET Threads, z \in Int :
        /\ Pending \subseteq K /\ K \subseteq Unhandled
        /\ itrp + Cardinality(Adding) - Cardinality(Taking)
             = Cardinality(K) + z * CounterWidth
  BY DEF Balance
<1> DEFINE L == K \ {t}
<1>2. L \in SUBSET Threads /\ Pending' \subseteq L /\ L \subseteq Unhandled' /\ t \in K
  BY <1>1
<1>3. Cardinality(L) = Cardinality(K) - 1 /\ Cardinality(Taking') = Cardinality(Taking) + 1
  BY <1>1, <1>2, CountedFinite, OneMore, OneLess
<1>4. itrp' + Cardinality(Adding') - Cardinality(Taking') = Cardinality(L) + z * CounterWidth
  BY <1>1, <1>3, CountedFinite DEF CounterWidth
<1> HIDE DEF L
<1>5. QED
  BY <1>2, <1>4 DEF Balance

(* The counter goes up by one, or wraps around. *)
LEMMA BalanceAdded ==
  ASSUME IsFiniteSet(Threads), Balance, itrp \in 0..CounterWidth - 1,
         UNCHANGED <<Unhandled, Pending, Taking>>,
         NEW a \in Adding, Adding' = Adding \ {a}, CountedUp
  PROVE  Balance'
<1>1. PICK K \in SUBSET Threads, z \in Int :
        /\ Pending \subseteq K /\ K \subseteq Unhandled
        /\ itrp + Cardinality(Adding) - Cardinality(Taking)
             = Cardinality(K) + z * CounterWidth
  BY DEF Balance
<1>2. Cardinality(Adding') = Cardinality(Adding) - 1
  BY CountedFinite, OneLess
<1>3. itrp' \in {itrp + 1, itrp + 1 + CounterWidth, itrp + 1 - CounterWidth}
  BY DEF CountedUp
<1>4. \E y \in {z, z - 1, z + 1} :
        itrp' + Cardinality(Adding') - Cardinality(Taking')
          = Cardinality(K) + y * CounterWidth
  <2> DEFINE l == itrp + Cardinality(Adding) - Cardinality(Taking)
             m == itrp' + Cardinality(Adding') - Cardinality(Taking')
  <2>1. /\ CounterWidth \in Int /\ itrp \in Int /\ Cardinality(K) \in Int
        /\ Cardinality(Adding) \in Int /\ Cardinality(Taking) \in Int
    BY CountedFinite, Width
  <2>2. l \in Int /\ l = Cardinality(K) + z * CounterWidth
    BY <1>1, <2>1
  <2>3. m \in {l, l - CounterWidth, l + CounterWidth}
    BY <1>2, <1>3, <2>1
  <2> HIDE DEF l, m
  <2>4. \E y \in {z, z - 1, z + 1} : m = Cardinality(K) + y * CounterWidth
    BY <2>1, <2>2, <2>3, Rebalanced
  <2>5. QED
    BY <2>4 DEF m
<1>5. z - 1 \in Int /\ z + 1 \in Int /\ UNCHANGED <<Unhandled, Pending>>
  OBVIOUS
<1>6. QED
  BY <1>1, <1>4, <1>5 DEF Balance

(* The counter goes down by one, or wraps around. *)
LEMMA BalanceTaken ==
  ASSUME IsFiniteSet(Threads), Balance, itrp \in 0..CounterWidth - 1,
         UNCHANGED <<Unhandled, Pending, Adding>>,
         NEW a \in Taking, Taking' = Taking \ {a}, CountedDown
  PROVE  Balance'
<1>1. PICK K \in SUBSET Threads, z \in Int :
        /\ Pending \subseteq K /\ K \subseteq Unhandled
        /\ itrp + Cardinality(Adding) - Cardinality(Taking)
             = Cardinality(K) + z * CounterWidth
  BY DEF Balance
<1>2. Cardinality(Taking') = Cardinality(Taking) - 1
  BY CountedFinite, OneLess
<1>3. itrp' \in {itrp - 1, itrp - 1 + CounterWidth, itrp - 1 - CounterWidth}
  BY DEF CountedDown
<1>4. \E y \in {z, z - 1, z + 1} :
        itrp' + Cardinality(Adding') - Cardinality(Taking')
          = Cardinality(K) + y * CounterWidth
  <2> DEFINE l == itrp + Cardinality(Adding) - Cardinality(Taking)
             m == itrp' + Cardinality(Adding') - Cardinality(Taking')
  <2>1. /\ CounterWidth \in Int /\ itrp \in Int /\ Cardinality(K) \in Int
        /\ Cardinality(Adding) \in Int /\ Cardinality(Taking) \in Int
    BY CountedFinite, Width
  <2>2. l \in Int /\ l = Cardinality(K) + z * CounterWidth
    BY <1>1, <2>1
  <2>3. m \in {l, l - CounterWidth, l + CounterWidth}
    BY <1>2, <1>3, <2>1
  <2> HIDE DEF l, m
  <2>4. \E y \in {z, z - 1, z + 1} : m = Cardinality(K) + y * CounterWidth
    BY <2>1, <2>2, <2>3, Rebalanced
  <2>5. QED
    BY <2>4 DEF m
<1>5. z - 1 \in Int /\ z + 1 \in Int /\ UNCHANGED <<Unhandled, Pending>>
  OBVIOUS
<1>6. QED
  BY <1>1, <1>4, <1>5 DEF Balance

(* A step keeps what the flags of an interrupt and of an end mean. *)
LEMMA StepFlags ==
  ASSUME Early = FALSE, Local, InterruptFlags, Next
  PROVE  InterruptFlags'
<1> USE ConstantsOK, FlagNames DEF Local, Types, Actors, Go, shared, Called, Busy, Starting,
                                   InterruptFlags
<1>1. ASSUME NEW a \in Actors, NEW t \in Threads, Start(a, t)
      PROVE  InterruptFlags'
  BY <1>1 DEF Start, Call, Set
<1>2. ASSUME NEW a \in Actors, NEW t \in Threads, Interrupt(a, t)
      PROVE  InterruptFlags'
  BY <1>2 DEF Interrupt, Call, Set
<1>3. ASSUME NEW a \in Actors, NEW t \in Threads, Detach(a, t)
      PROVE  InterruptFlags'
  BY <1>3 DEF Detach, Call, Set
<1>4. ASSUME NEW a \in Actors, NEW t \in Threads, Join(a, t, "join")
      PROVE  InterruptFlags'
  BY <1>4 DEF Join, Call, Set
<1>5. ASSUME NEW a \in Actors, NEW t \in Threads, Join(a, t, "tryjoin")
      PROVE  InterruptFlags'
  BY <1>5 DEF Join, Call, Set
<1>6. ASSUME NEW a \in Actors, CountIn(a)
      PROVE  InterruptFlags'
  BY <1>6 DEF CountIn
<1>7. ASSUME NEW a \in Actors, Create(a)
      PROVE  InterruptFlags'
  BY <1>7 DEF Create, Starts
<1>8. ASSUME NEW a \in Actors, CreateFails(a)
      PROVE  InterruptFlags'
  <2>1. arg[a] \in Threads /\ state' = [state EXCEPT ![arg[a]] = Flags]
    BY <1>8, CreateFailsSets
  <2>2. pc[a] = "create" /\ pc[arg[a]] = "unborn"
    BY <1>8, <2>1 DEF CreateFails, Starts
  <2>3. pc' = [pc EXCEPT ![a] = "run"]
    BY <1>8 DEF CreateFails, Return
  <2>4. state \in [Threads -> SUBSET Flags] /\ pc \in [Actors -> Places \cup Stages]
    OBVIOUS
  <2>5. InterruptFlags
    OBVIOUS
  <2>6. QED
    BY <2>1, <2>2, <2>3, <2>4, <2>5, FailedFlags
<1>9. ASSUME NEW a \in Actors, Started(a)
      PROVE  InterruptFlags'
  BY <1>9 DEF Started, Return
<1>10. ASSUME NEW a \in Actors, Raise(a)
      PROVE  InterruptFlags'
  BY <1>10 DEF Raise, Return
<1>11. ASSUME NEW a \in Actors, DetachHandle(a)
      PROVE  InterruptFlags'
  BY <1>11 DEF DetachHandle, Return
<1>12. ASSUME NEW a \in Actors, TryJoin(a)
      PROVE  InterruptFlags'
  BY <1>12 DEF TryJoin
<1>13. ASSUME NEW a \in Actors, JoinHandle(a)
      PROVE  InterruptFlags'
  BY <1>13 DEF JoinHandle
<1>14. ASSUME NEW a \in Actors, JoinFails(a)
      PROVE  InterruptFlags'
  BY <1>14 DEF JoinFails
<1>15. ASSUME NEW a \in Actors, Undo(a)
      PROVE  InterruptFlags'
  BY <1>15 DEF Undo, Reset, Return
<1>16. ASSUME NEW a \in Actors, Take(a)
      PROVE  InterruptFlags'
  BY <1>16 DEF Take, Return
<1>17. ASSUME NEW t \in Threads, Begin(t)
      PROVE  InterruptFlags'
  BY <1>17 DEF Begin
<1>18. ASSUME NEW t \in Threads, CheckInterrupt(t)
      PROVE  InterruptFlags'
  BY <1>18 DEF CheckInterrupt
<1>19. ASSUME NEW t \in Threads, DoCheckInterrupt(t)
      PROVE  InterruptFlags'
  BY <1>19 DEF DoCheckInterrupt, Set
<1>20. ASSUME NEW t \in Threads, Handle(t)
      PROVE  InterruptFlags'
  BY <1>20 DEF Handle
<1>21. ASSUME NEW t \in Threads, Forget(t)
      PROVE  InterruptFlags'
  BY <1>21 DEF Forget, Reset
<1>22. ASSUME NEW t \in Threads, Again(t)
      PROVE  InterruptFlags'
  BY <1>22 DEF Again
<1>23. ASSUME NEW t \in Threads, NoInterrupt(t)
      PROVE  InterruptFlags'
  BY <1>23 DEF NoInterrupt, Set, Reset
<1>24. ASSUME NEW t \in Threads, Terminate(t)
      PROVE  InterruptFlags'
  BY <1>24 DEF Terminate, Set
<1>25. ASSUME NEW t \in Threads, Settle(t)
      PROVE  InterruptFlags'
  BY <1>25 DEF Settle
<1>26. ASSUME NEW t \in Threads, Store(t)
      PROVE  InterruptFlags'
  BY <1>26 DEF Store
<1>27. ASSUME NEW t \in Threads, Release(t)
      PROVE  InterruptFlags'
  BY <1>27 DEF Release
<1>28. ASSUME NEW t \in Threads, CountOut(t)
      PROVE  InterruptFlags'
  BY <1>28 DEF CountOut
<1>29. ASSUME NEW t \in Threads, Drop(t)
      PROVE  InterruptFlags'
  BY <1>29 DEF Drop
<1>30. ASSUME Finalize
      PROVE  InterruptFlags'
  BY <1>30 DEF Finalize
<1>31. ASSUME Finalized
      PROVE  InterruptFlags'
  BY <1>31 DEF Finalized
<1>32. QED
  BY <1>1, <1>2, <1>3, <1>4, <1>5, <1>6, <1>7, <1>8, <1>9, <1>10, <1>11, <1>12, <1>13,
     <1>14, <1>15, <1>16, <1>17, <1>18, <1>19, <1>20, <1>21, <1>22, <1>23, <1>24,
     <1>25, <1>26, <1>27, <1>28, <1>29, <1>30, <1>31
  DEF Next, Operation, Thread

(* A step keeps the counter and the interrupts in balance. *)
LEMMA StepBalance ==
  ASSUME Early = FALSE, IsFiniteSet(Threads), Local, InterruptInv, Next
  PROVE  Balance'
<1> USE ConstantsOK, FlagNames DEF Local, Types, Actors, Go, shared, Called, Busy, Starting,
                                   InterruptInv, InterruptFlags
<1>1. ASSUME NEW a \in Actors, NEW t \in Threads, Start(a, t)
      PROVE  Balance'
  <2>1. UNCHANGED <<Unhandled, Pending>>
    BY <1>1 DEF Start, Call, Set, Unhandled, Pending, Waiting
  <2>2. UNCHANGED <<Adding, Taking, itrp>>
    BY <1>1 DEF Start, Call, Set, Adding, Taking
  <2>3. QED
    BY <2>1, <2>2, BalanceSame
<1>2. ASSUME NEW a \in Actors, NEW t \in Threads, Interrupt(a, t)
      PROVE  Balance'
  <2>1. t \notin Unhandled /\ a \notin Adding /\ UNCHANGED <<itrp, Taking>>
    BY <1>2 DEF Interrupt, Call, Set, Unhandled, Pending, Waiting, Adding, Taking
  <2>2. Unhandled' = Unhandled \cup {t} /\ Pending' \subseteq Pending \cup {t}
    BY <1>2 DEF Interrupt, Call, Set, Unhandled, Pending, Waiting, Adding, Taking
  <2>3. Adding' = Adding \cup {a}
    BY <1>2 DEF Interrupt, Call, Set, Adding
  <2>4. QED
    BY <2>1, <2>2, <2>3, BalanceInterrupted
<1>3. ASSUME NEW a \in Actors, NEW t \in Threads, Detach(a, t)
      PROVE  Balance'
  <2>1. UNCHANGED <<Unhandled, Pending>>
    BY <1>3 DEF Detach, Call, Set, Unhandled, Pending, Waiting
  <2>2. UNCHANGED <<Adding, Taking, itrp>>
    BY <1>3 DEF Detach, Call, Set, Adding, Taking
  <2>3. QED
    BY <2>1, <2>2, BalanceSame
<1>4. ASSUME NEW a \in Actors, NEW t \in Threads, Join(a, t, "join")
      PROVE  Balance'
  <2>1. UNCHANGED <<Unhandled, Pending>>
    BY <1>4 DEF Join, Call, Set, Unhandled, Pending, Waiting
  <2>2. UNCHANGED <<Adding, Taking, itrp>>
    BY <1>4 DEF Join, Call, Set, Adding, Taking
  <2>3. QED
    BY <2>1, <2>2, BalanceSame
<1>5. ASSUME NEW a \in Actors, NEW t \in Threads, Join(a, t, "tryjoin")
      PROVE  Balance'
  <2>1. UNCHANGED <<Unhandled, Pending>>
    BY <1>5 DEF Join, Call, Set, Unhandled, Pending, Waiting
  <2>2. UNCHANGED <<Adding, Taking, itrp>>
    BY <1>5 DEF Join, Call, Set, Adding, Taking
  <2>3. QED
    BY <2>1, <2>2, BalanceSame
<1>6. ASSUME NEW a \in Actors, CountIn(a)
      PROVE  Balance'
  <2>1. UNCHANGED <<Unhandled, Pending>>
    BY <1>6 DEF CountIn, Unhandled, Pending, Waiting
  <2>2. UNCHANGED <<Adding, Taking, itrp>>
    BY <1>6 DEF CountIn, Adding, Taking
  <2>3. QED
    BY <2>1, <2>2, BalanceSame
<1>7. ASSUME NEW a \in Actors, Create(a)
      PROVE  Balance'
  <2>1. UNCHANGED <<Unhandled, Pending>>
    BY <1>7 DEF Create, Starts, Unhandled, Pending, Waiting
  <2>2. UNCHANGED <<Adding, Taking, itrp>>
    BY <1>7 DEF Create, Starts, Adding, Taking
  <2>3. QED
    BY <2>1, <2>2, BalanceSame
<1>8. ASSUME NEW a \in Actors, CreateFails(a)
      PROVE  Balance'
  <2>0. arg[a] \in Threads /\ state' = [state EXCEPT ![arg[a]] = Flags]
    BY <1>8, CreateFailsSets
  <2>01. state[arg[a]] = {"STARTED"}
    BY <1>8, <2>0 DEF CreateFails, Starts
  <2>02. state \in [Threads -> SUBSET Flags]
    OBVIOUS
  <2>1. UNCHANGED <<Unhandled, Pending>>
    BY <2>0, <2>01, <2>02, FailedDoesNotWait
  <2>2. UNCHANGED <<Adding, Taking, itrp>>
    BY <1>8 DEF CreateFails, Return, Starts, Adding, Taking
  <2>3. QED
    BY <2>1, <2>2, BalanceSame
<1>9. ASSUME NEW a \in Actors, Started(a)
      PROVE  Balance'
  <2>1. UNCHANGED <<Unhandled, Pending>>
    BY <1>9 DEF Started, Return, Unhandled, Pending, Waiting
  <2>2. UNCHANGED <<Adding, Taking, itrp>>
    BY <1>9 DEF Started, Return, Adding, Taking
  <2>3. QED
    BY <2>1, <2>2, BalanceSame
<1>10. ASSUME NEW a \in Actors, Raise(a)
      PROVE  Balance'
  <2>1. a \in Adding /\ Adding' = Adding \ {a} /\ Count(1)
    BY <1>10 DEF Raise, Return, Adding
  <2>2. UNCHANGED <<Unhandled, Pending, Taking>>
    BY <1>10 DEF Raise, Return, Unhandled, Pending, Waiting, Adding, Taking
  <2>3. QED
    BY <2>1, <2>2, CountUp, BalanceAdded
<1>11. ASSUME NEW a \in Actors, DetachHandle(a)
      PROVE  Balance'
  <2>1. UNCHANGED <<Unhandled, Pending>>
    BY <1>11 DEF DetachHandle, Return, Unhandled, Pending, Waiting
  <2>2. UNCHANGED <<Adding, Taking, itrp>>
    BY <1>11 DEF DetachHandle, Return, Adding, Taking
  <2>3. QED
    BY <2>1, <2>2, BalanceSame
<1>12. ASSUME NEW a \in Actors, TryJoin(a)
      PROVE  Balance'
  <2>1. UNCHANGED <<Unhandled, Pending>>
    BY <1>12 DEF TryJoin, Unhandled, Pending, Waiting
  <2>2. UNCHANGED <<Adding, Taking, itrp>>
    BY <1>12 DEF TryJoin, Adding, Taking
  <2>3. QED
    BY <2>1, <2>2, BalanceSame
<1>13. ASSUME NEW a \in Actors, JoinHandle(a)
      PROVE  Balance'
  <2>1. UNCHANGED <<Unhandled, Pending>>
    BY <1>13 DEF JoinHandle, Unhandled, Pending, Waiting
  <2>2. UNCHANGED <<Adding, Taking, itrp>>
    BY <1>13 DEF JoinHandle, Adding, Taking
  <2>3. QED
    BY <2>1, <2>2, BalanceSame
<1>14. ASSUME NEW a \in Actors, JoinFails(a)
      PROVE  Balance'
  <2>1. UNCHANGED <<Unhandled, Pending>>
    BY <1>14 DEF JoinFails, Unhandled, Pending, Waiting
  <2>2. UNCHANGED <<Adding, Taking, itrp>>
    BY <1>14 DEF JoinFails, Adding, Taking
  <2>3. QED
    BY <2>1, <2>2, BalanceSame
<1>15. ASSUME NEW a \in Actors, Undo(a)
      PROVE  Balance'
  <2>1. UNCHANGED <<Unhandled, Pending>>
    BY <1>15 DEF Undo, Reset, Return, Unhandled, Pending, Waiting
  <2>2. UNCHANGED <<Adding, Taking, itrp>>
    BY <1>15 DEF Undo, Reset, Return, Adding, Taking
  <2>3. QED
    BY <2>1, <2>2, BalanceSame
<1>16. ASSUME NEW a \in Actors, Take(a)
      PROVE  Balance'
  <2>1. UNCHANGED <<Unhandled, Pending>>
    BY <1>16 DEF Take, Return, Unhandled, Pending, Waiting
  <2>2. UNCHANGED <<Adding, Taking, itrp>>
    BY <1>16 DEF Take, Return, Adding, Taking
  <2>3. QED
    BY <2>1, <2>2, BalanceSame
<1>17. ASSUME NEW t \in Threads, Begin(t)
      PROVE  Balance'
  <2>1. UNCHANGED <<Unhandled, Pending>>
    BY <1>17 DEF Begin, Unhandled, Pending, Waiting
  <2>2. UNCHANGED <<Adding, Taking, itrp>>
    BY <1>17 DEF Begin, Adding, Taking
  <2>3. QED
    BY <2>1, <2>2, BalanceSame
<1>18. ASSUME NEW t \in Threads, CheckInterrupt(t)
      PROVE  Balance'
  <2>1. UNCHANGED <<Unhandled, Pending>>
    BY <1>18 DEF CheckInterrupt, Unhandled, Pending, Waiting
  <2>2. UNCHANGED <<Adding, Taking, itrp>>
    BY <1>18 DEF CheckInterrupt, Adding, Taking
  <2>3. QED
    BY <2>1, <2>2, BalanceSame
<1>19. ASSUME NEW t \in Threads, DoCheckInterrupt(t)
      PROVE  Balance'
  <2>1. CASE state[t] \cap {"NOINTERRUPT", "INTERRUPTED", "HANDLED"} = {"INTERRUPTED"}
    <3>1. t \in Pending /\ t \notin Taking /\ UNCHANGED <<itrp, Adding>>
      BY <1>19, <2>1 DEF DoCheckInterrupt, Set, Unhandled, Pending, Waiting, Adding, Taking
    <3>2. Pending' = Pending \ {t} /\ Unhandled \ {t} \subseteq Unhandled'
      BY <1>19, <2>1 DEF DoCheckInterrupt, Set, Unhandled, Pending, Waiting, Adding, Taking
    <3>3. Taking' = Taking \cup {t}
      BY <1>19, <2>1 DEF DoCheckInterrupt, Set, Taking
    <3>4. QED
      BY <3>1, <3>2, <3>3, BalanceHandled
  <2>2. CASE state[t] \cap {"NOINTERRUPT", "INTERRUPTED", "HANDLED"} # {"INTERRUPTED"}
    <3>1. UNCHANGED <<Unhandled, Pending, Adding, Taking, itrp>>
      BY <1>19, <2>2 DEF DoCheckInterrupt, Set, Unhandled, Pending, Waiting, Adding, Taking
    <3>2. QED
      BY <3>1, BalanceSame
  <2>3. QED
    BY <2>1, <2>2
<1>20. ASSUME NEW t \in Threads, Handle(t)
      PROVE  Balance'
  <2>1. t \in Taking /\ Taking' = Taking \ {t} /\ Count(-1)
    BY <1>20 DEF Handle, Taking
  <2>2. UNCHANGED <<Unhandled, Pending, Adding>>
    BY <1>20 DEF Handle, Unhandled, Pending, Waiting, Adding, Taking
  <2>3. QED
    BY <2>1, <2>2, CountDown, BalanceTaken
<1>21. ASSUME NEW t \in Threads, Forget(t)
      PROVE  Balance'
  <2>1. t \notin Unhandled /\ t \notin Adding /\ UNCHANGED <<itrp, Taking>>
    BY <1>21 DEF Forget, Reset, Unhandled, Pending, Waiting, Adding, Taking
  <2>2. Unhandled' = Unhandled \cup {t} /\ Pending' \subseteq Pending \cup {t}
    BY <1>21 DEF Forget, Reset, Unhandled, Pending, Waiting, Adding, Taking
  <2>3. Adding' = Adding \cup {t}
    BY <1>21 DEF Forget, Reset, Adding
  <2>4. QED
    BY <2>1, <2>2, <2>3, BalanceInterrupted
<1>22. ASSUME NEW t \in Threads, Again(t)
      PROVE  Balance'
  <2>1. t \in Adding /\ Adding' = Adding \ {t} /\ Count(1)
    BY <1>22 DEF Again, Adding
  <2>2. UNCHANGED <<Unhandled, Pending, Taking>>
    BY <1>22 DEF Again, Unhandled, Pending, Waiting, Adding, Taking
  <2>3. QED
    BY <2>1, <2>2, CountUp, BalanceAdded
<1>23. ASSUME NEW t \in Threads, NoInterrupt(t)
      PROVE  Balance'
  <2>1. UNCHANGED <<Unhandled, Pending>>
    BY <1>23 DEF NoInterrupt, Set, Reset, Unhandled, Pending, Waiting
  <2>2. UNCHANGED <<Adding, Taking, itrp>>
    BY <1>23 DEF NoInterrupt, Set, Reset, Adding, Taking
  <2>3. QED
    BY <2>1, <2>2, BalanceSame
<1>24. ASSUME NEW t \in Threads, Terminate(t)
      PROVE  Balance'
  <2>1. CASE state[t] \cap {"INTERRUPTED", "HANDLED"} = {"INTERRUPTED"}
    <3>1. t \in Pending /\ t \notin Taking /\ UNCHANGED <<itrp, Adding>>
      BY <1>24, <2>1 DEF Terminate, Set, Unhandled, Pending, Waiting, Adding, Taking
    <3>2. Pending' = Pending \ {t} /\ Unhandled \ {t} \subseteq Unhandled'
      BY <1>24, <2>1 DEF Terminate, Set, Unhandled, Pending, Waiting, Adding, Taking
    <3>3. Taking' = Taking \cup {t}
      BY <1>24, <2>1 DEF Terminate, Set, Taking
    <3>4. QED
      BY <3>1, <3>2, <3>3, BalanceHandled
  <2>2. CASE state[t] \cap {"INTERRUPTED", "HANDLED"} # {"INTERRUPTED"}
    <3>1. UNCHANGED <<Unhandled, Pending, Adding, Taking, itrp>>
      BY <1>24, <2>2 DEF Terminate, Set, Unhandled, Pending, Waiting, Adding, Taking
    <3>2. QED
      BY <3>1, BalanceSame
  <2>3. QED
    BY <2>1, <2>2
<1>25. ASSUME NEW t \in Threads, Settle(t)
      PROVE  Balance'
  <2>1. t \in Taking /\ Taking' = Taking \ {t} /\ Count(-1)
    BY <1>25 DEF Settle, Taking
  <2>2. UNCHANGED <<Unhandled, Pending, Adding>>
    BY <1>25 DEF Settle, Unhandled, Pending, Waiting, Adding, Taking
  <2>3. QED
    BY <2>1, <2>2, CountDown, BalanceTaken
<1>26. ASSUME NEW t \in Threads, Store(t)
      PROVE  Balance'
  <2>1. UNCHANGED <<Unhandled, Pending>>
    BY <1>26 DEF Store, Unhandled, Pending, Waiting
  <2>2. UNCHANGED <<Adding, Taking, itrp>>
    BY <1>26 DEF Store, Adding, Taking
  <2>3. QED
    BY <2>1, <2>2, BalanceSame
<1>27. ASSUME NEW t \in Threads, Release(t)
      PROVE  Balance'
  <2>1. UNCHANGED <<Unhandled, Pending>>
    BY <1>27 DEF Release, Unhandled, Pending, Waiting
  <2>2. UNCHANGED <<Adding, Taking, itrp>>
    BY <1>27 DEF Release, Adding, Taking
  <2>3. QED
    BY <2>1, <2>2, BalanceSame
<1>28. ASSUME NEW t \in Threads, CountOut(t)
      PROVE  Balance'
  <2>1. UNCHANGED <<Unhandled, Pending>>
    BY <1>28 DEF CountOut, Unhandled, Pending, Waiting
  <2>2. UNCHANGED <<Adding, Taking, itrp>>
    BY <1>28 DEF CountOut, Adding, Taking
  <2>3. QED
    BY <2>1, <2>2, BalanceSame
<1>29. ASSUME NEW t \in Threads, Drop(t)
      PROVE  Balance'
  <2>1. UNCHANGED <<Unhandled, Pending>>
    BY <1>29 DEF Drop, Unhandled, Pending, Waiting
  <2>2. UNCHANGED <<Adding, Taking, itrp>>
    BY <1>29 DEF Drop, Adding, Taking
  <2>3. QED
    BY <2>1, <2>2, BalanceSame
<1>30. ASSUME Finalize
      PROVE  Balance'
  <2>1. UNCHANGED <<Unhandled, Pending>>
    BY <1>30 DEF Finalize, Unhandled, Pending, Waiting
  <2>2. UNCHANGED <<Adding, Taking, itrp>>
    BY <1>30 DEF Finalize, Adding, Taking
  <2>3. QED
    BY <2>1, <2>2, BalanceSame
<1>31. ASSUME Finalized
      PROVE  Balance'
  <2>1. UNCHANGED <<Unhandled, Pending>>
    BY <1>31 DEF Finalized, Unhandled, Pending, Waiting
  <2>2. UNCHANGED <<Adding, Taking, itrp>>
    BY <1>31 DEF Finalized, Adding, Taking
  <2>3. QED
    BY <2>1, <2>2, BalanceSame
<1>32. QED
  BY <1>1, <1>2, <1>3, <1>4, <1>5, <1>6, <1>7, <1>8, <1>9, <1>10, <1>11, <1>12, <1>13,
     <1>14, <1>15, <1>16, <1>17, <1>18, <1>19, <1>20, <1>21, <1>22, <1>23, <1>24,
     <1>25, <1>26, <1>27, <1>28, <1>29, <1>30, <1>31
  DEF Next, Operation, Thread

(* The counter of interrupts counts those that are not handled, those of    *)
(* threads that run at least, however often it wraps around; so that while  *)
(* a thread has one to handle and nobody is about to change the counter, it *)
(* is not zero.                                                             *)
THEOREM InterruptsCorrect ==
  ASSUME Early = FALSE, IsFiniteSet(Threads), Cardinality(Threads) < CounterWidth
  PROVE  Spec => []InterruptsCounted
<1>1. Init => InterruptInv
  <2> SUFFICES ASSUME Init PROVE InterruptInv
    OBVIOUS
  <2>1. InterruptFlags
    BY DEF Init, InterruptFlags
  <2>2. Unhandled = {} /\ Pending = {} /\ Adding = {} /\ Taking = {}
    BY DEF Init, Unhandled, Pending, Waiting, Adding, Taking
  <2>3. itrp + Cardinality(Adding) - Cardinality(Taking) = Cardinality({}) + 0 * CounterWidth
    BY <2>2, FS_EmptySet DEF Init, CounterWidth
  <2>4. QED
    BY <2>1, <2>2, <2>3 DEF InterruptInv, Balance
<1>2. IInv /\ InterruptInv /\ [Next]_vars => InterruptInv'
  <2> SUFFICES ASSUME IInv, InterruptInv, [Next]_vars PROVE InterruptInv'
    OBVIOUS
  <2>1. CASE Next
    BY <2>1, StepFlags, StepBalance DEF IInv, InterruptInv
  <2>2. CASE UNCHANGED vars
    <3>1. UNCHANGED <<Unhandled, Pending, Adding, Taking, itrp>>
      BY <2>2 DEF vars, Unhandled, Pending, Waiting, Adding, Taking
    <3>2. InterruptFlags'
      BY <2>2 DEF vars, InterruptInv, InterruptFlags
    <3>3. QED
      BY <3>1, <3>2, BalanceSame DEF InterruptInv
  <2>3. QED
    BY <2>1, <2>2
<1>3. IInv /\ InterruptInv => InterruptsCounted
  <2> SUFFICES ASSUME Types, Balance PROVE InterruptsCounted
    BY DEF IInv, Local, InterruptInv
  <2>1. PICK K \in SUBSET Threads, z \in Int :
          /\ Pending \subseteq K /\ K \subseteq Unhandled
          /\ itrp + Cardinality(Adding) - Cardinality(Taking)
               = Cardinality(K) + z * CounterWidth
    BY DEF Balance
  <2>2. /\ Cardinality(K) \in Nat /\ Cardinality(K) < CounterWidth
        /\ Cardinality(Pending) \in Nat /\ Cardinality(Pending) <= Cardinality(K)
        /\ Cardinality(Unhandled) \in Nat /\ Cardinality(K) <= Cardinality(Unhandled)
    <3>1. Pending \in SUBSET Threads /\ Unhandled \in SUBSET Threads
      BY DEF Pending, Unhandled
    <3>2. IsFiniteSet(K) /\ IsFiniteSet(Unhandled)
      BY <3>1, CountedFinite
    <3>3. /\ Cardinality(K) <= Cardinality(Threads)
          /\ Cardinality(Pending) <= Cardinality(K)
          /\ Cardinality(K) <= Cardinality(Unhandled)
      BY <2>1, <3>2, FS_Subset
    <3>4. Cardinality(Threads) \in Nat /\ CounterWidth \in Nat
      BY FS_CardinalityType DEF CounterWidth
    <3>5. QED
      BY <3>1, <3>3, <3>4, CountedFinite
  <2>3. (itrp + Cardinality(Adding) - Cardinality(Taking)) % CounterWidth = Cardinality(K)
    BY <2>1, <2>2 DEF CounterWidth
  <2>4. Unhandled = {t \in Threads : state[t] \cap {"INTERRUPTED", "HANDLED"} = {"INTERRUPTED"}}
    BY DEF Unhandled, Waiting
  <2>5. Pending = {t \in Unhandled : "TERMINATED" \notin state[t]}
    BY DEF Unhandled, Pending
  <2>6. QED
    BY <2>2, <2>3, <2>4, <2>5 DEF InterruptsCounted, At, Adding, Taking
<1>4. QED
  BY <1>1, <1>2, <1>3, Invariance, PTL DEF Spec
=============================================================================
