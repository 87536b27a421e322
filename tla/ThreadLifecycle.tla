--------------------------- MODULE ThreadLifecycle ---------------------------
(***************************************************************************)
(* Thread objects of src/deemon/thread.c on a POSIX system: the flags of   *)
(* t_state, which every operation changes by one atomic instruction, the   *)
(* handle of the system's thread, the interrupts, and the two counters of  *)
(* the runtime: of the threads that run, for which the finalization waits, *)
(* and of the interrupts nobody has handled, without which                 *)
(* DeeThread_CheckInterrupt does not look at t_state.                      *)
(*                                                                         *)
(* DeeThread_TryJoin is the version without pthread_tryjoin_np, which      *)
(* needs _GNU_SOURCE; DeeThread_JoinTimed then repeats it.  The nesting of *)
(* NoInterrupt blocks, names, priorities and TLS are left out.             *)
(***************************************************************************)
EXTENDS Integers, FiniteSets

CONSTANTS
  Threads,   (* the thread objects, and the threads they start             *)
  Main,      (* the thread that finalizes the runtime                      *)
  Nobody,    (* no actor and no thread                                     *)
  Early      (* whether a thread object is used by others while it starts  *)

ASSUME ConstantsOK ==
  Main \notin Threads /\ Nobody \notin Threads \cup {Main} /\ Early \in BOOLEAN

Actors == Threads \cup {Main}

VARIABLES
  state,     (* state[t]: the flags set in t_state                         *)
  handle,    (* handle[t]: what became of the thread behind t_handle       *)
  lock,      (* lock[t]: the actor that holds t_lock                       *)
  result,    (* result[t]: t_rt_return                                     *)
  held,      (* held[t]: the program has a reference to the object         *)
  running,   (* _deethread_counter                                         *)
  itrp,      (* _deethread_itrpcounter                                     *)
  pc,        (* pc[a]: where the actor a is                                *)
  arg        (* arg[a]: the thread object a's operation is about           *)

shared == <<handle, lock, result, held, running>>
vars == <<state, handle, lock, result, held, running, itrp, pc, arg>>

Bit == [STARTED |-> 1, INTERRUPTED |-> 2, HANDLED |-> 4, DETACHED |-> 8,
        NOINTERRUPT |-> 16, TERMINATED |-> 32]
Flags == DOMAIN Bit

CounterWidth == 65536

(* Where the program's operations are, and DeeThreadMain; "run" is the code *)
(* of the program.                                                          *)
Places == {"run", "count", "create", "started", "raise", "detach", "join",
           "tryjoin", "undo", "take", "wait", "final"}
Stages == {"unborn", "begin", "check", "handle", "again", "settle", "store",
           "release", "uncount", "ended"}

Init ==
  /\ state = [t \in Threads |-> {}]
  /\ handle = [t \in Threads |-> "none"]
  /\ lock = [t \in Threads |-> Nobody]
  /\ result = [t \in Threads |-> "none"]
  /\ held = [t \in Threads |-> TRUE]
  /\ running = 0
  /\ itrp = 0
  /\ pc = [a \in Actors |-> IF a = Main THEN "run" ELSE "unborn"]
  /\ arg = [a \in Actors |-> Nobody]

----------------------------------------------------------------------------
Go(a, place) == pc' = [pc EXCEPT ![a] = place]

(* The program calls an operation on t, ... *)
Call(a, t, place) ==
  /\ pc[a] = "run"
  /\ held[t]
  /\ Early \/ lock[t] = Nobody
  /\ Go(a, place)
  /\ arg' = [arg EXCEPT ![a] = t]

(* ... and returns from it. *)
Return(a) == Go(a, "run") /\ arg' = [arg EXCEPT ![a] = Nobody]

Set(t, flag) == state' = [state EXCEPT ![t] = @ \cup {flag}]
Reset(t, flag) == state' = [state EXCEPT ![t] = @ \ {flag}]

(* Fault: an integer that does not wrap around. *)
CountSigned(n) == itrp' = itrp + n

(* A counter of 16 bits, which wraps around. *)
Count(n) == itrp' = (itrp + n) % CounterWidth

(* pthread_join and pthread_detach are defined for a thread that was created *)
(* and neither joined nor detached.                                          *)
UseHandle(t, outcome) ==
  handle' = [handle EXCEPT ![t] = IF @ = "joinable" THEN outcome ELSE "misused"]

----------------------------------------------------------------------------
(* DeeThread_Start *)
Start(a, t) ==
  /\ Call(a, t, "count")
  /\ lock[t] = Nobody
  /\ "STARTED" \notin state[t]
  /\ Set(t, "STARTED")
  /\ lock' = [lock EXCEPT ![t] = a]
  /\ UNCHANGED <<handle, result, held, running, itrp>>

(* Fault: the thread is not counted. *)
NotCounted(a) ==
  /\ pc[a] = "count"
  /\ Go(a, "create")
  /\ UNCHANGED <<state, shared, itrp, arg>>

(* DEE_THREAD_COUNTER_INC *)
CountIn(a) ==
  /\ pc[a] = "count"
  /\ running' = running + 1
  /\ Go(a, "create")
  /\ UNCHANGED <<state, handle, lock, result, held, itrp, arg>>

(* pthread_create *)
Create(a) ==
  /\ pc[a] = "create"
  /\ handle' = [handle EXCEPT ![arg[a]] = "joinable"]
  /\ pc' = [pc EXCEPT ![a] = "started", ![arg[a]] = "begin"]
  /\ UNCHANGED <<state, lock, result, held, running, itrp, arg>>

(* err_0: the flag is taken back by adding its complement, in 8 bits. *)
Complement(flags) ==
  LET value == Bit.STARTED + (IF "INTERRUPTED" \in flags THEN Bit.INTERRUPTED ELSE 0)
                           + (IF "DETACHED" \in flags THEN Bit.DETACHED ELSE 0)
      sum == (value + 256 - 1 - Bit.STARTED) % 256
  IN {f \in Flags : (sum \div Bit[f]) % 2 = 1}

CreateFails(a) ==
  /\ pc[a] = "create"
  /\ running' = running - 1
  /\ state' = [state EXCEPT ![arg[a]] = Complement(@)]
  /\ lock' = [lock EXCEPT ![arg[a]] = Nobody]
  /\ Return(a)
  /\ UNCHANGED <<handle, result, held, itrp>>

Started(a) ==
  /\ pc[a] = "started"
  /\ lock' = [lock EXCEPT ![arg[a]] = Nobody]
  /\ Return(a)
  /\ UNCHANGED <<state, handle, result, held, running, itrp>>

----------------------------------------------------------------------------
(* DeeThread_Interrupt *)
Interrupt(a, t) ==
  /\ Call(a, t, "raise")
  /\ state[t] \cap {"STARTED", "DETACHED", "INTERRUPTED"} = {"STARTED"}
  /\ Set(t, "INTERRUPTED")
  /\ UNCHANGED <<shared, itrp>>

(* DEE_THREADITRP_COUNTER_INC *)
Raise(a) ==
  /\ pc[a] = "raise"
  /\ Count(1)
  /\ Return(a)
  /\ UNCHANGED <<state, shared>>

(* DeeThread_Detach *)
Detach(a, t) ==
  /\ Call(a, t, "detach")
  /\ state[t] \cap {"STARTED", "DETACHED"} = {"STARTED"}
  /\ Set(t, "DETACHED")
  /\ UNCHANGED <<shared, itrp>>

(* pthread_detach, under t_lock *)
DetachHandle(a) ==
  /\ pc[a] = "detach"
  /\ lock[arg[a]] = Nobody
  /\ UseHandle(arg[a], "detached")
  /\ Return(a)
  /\ UNCHANGED <<state, lock, result, held, running, itrp>>

(* Fault: the flag is set whether or not another actor has set it. *)
JoinUnclaimed(a, t, place) ==
  /\ Call(a, t, place)
  /\ "STARTED" \in state[t]
  /\ Set(t, "DETACHED")
  /\ UNCHANGED <<shared, itrp>>

(* _deethread_setup_join_or_detach, for DeeThread_Join and DeeThread_TryJoin *)
Join(a, t, place) ==
  /\ Call(a, t, place)
  /\ state[t] \cap {"STARTED", "DETACHED"} = {"STARTED"}
  /\ Set(t, "DETACHED")
  /\ UNCHANGED <<shared, itrp>>

(* Fault: a thread that has set its flag has its result taken. *)
TryJoinTakes(a) ==
  /\ pc[a] = "tryjoin"
  /\ Go(a, IF "TERMINATED" \in state[arg[a]] THEN "take" ELSE "undo")
  /\ UNCHANGED <<state, shared, itrp, arg>>

(* DeeThread_TryJoin joins a thread that has set its flag. *)
TryJoin(a) ==
  /\ pc[a] = "tryjoin"
  /\ Go(a, IF "TERMINATED" \in state[arg[a]] THEN "join" ELSE "undo")
  /\ UNCHANGED <<state, shared, itrp, arg>>

(* pthread_join, which waits for the thread; it is not called under t_lock. *)
JoinHandle(a) ==
  /\ pc[a] = "join"
  /\ arg[a] # a
  /\ handle[arg[a]] = "joinable" => pc[arg[a]] = "ended"
  /\ UseHandle(arg[a], "joined")
  /\ Go(a, IF handle[arg[a]] = "joinable" THEN "take" ELSE "undo")
  /\ UNCHANGED <<state, lock, result, held, running, itrp, arg>>

(* A thread that joins itself gets EDEADLK. *)
JoinFails(a) ==
  /\ pc[a] = "join"
  /\ arg[a] = a
  /\ Go(a, "undo")
  /\ UNCHANGED <<state, shared, itrp, arg>>

(* _deethread_undo_join_or_detach *)
Undo(a) ==
  /\ pc[a] = "undo"
  /\ Reset(arg[a], "DETACHED")
  /\ Return(a)
  /\ UNCHANGED <<shared, itrp>>

(* _DeeThread_StoreReturn *)
Take(a) ==
  /\ pc[a] = "take"
  /\ result' = [result EXCEPT ![arg[a]] = "none"]
  /\ Return(a)
  /\ UNCHANGED <<state, handle, lock, held, running, itrp>>

----------------------------------------------------------------------------
(* DeeThreadMain, which waits for t_lock *)
Begin(t) ==
  /\ pc[t] = "begin"
  /\ lock[t] = Nobody
  /\ Go(t, "run")
  /\ UNCHANGED <<state, shared, itrp, arg>>

(* DEE_THREADITRP_CHECK *)
CheckInterrupt(t) ==
  /\ pc[t] = "run"
  /\ itrp # 0
  /\ Go(t, "check")
  /\ UNCHANGED <<state, shared, itrp, arg>>

(* _DeeThread_DoCheckInterrupt *)
DoCheckInterrupt(t) ==
  /\ pc[t] = "check"
  /\ IF state[t] \cap {"NOINTERRUPT", "INTERRUPTED", "HANDLED"} = {"INTERRUPTED"}
     THEN Set(t, "HANDLED") /\ Go(t, "handle")
     ELSE Go(t, "run") /\ UNCHANGED state
  /\ UNCHANGED <<shared, itrp, arg>>

(* DEE_THREADITRP_COUNTER_DEC; the signal is thrown. *)
Handle(t) ==
  /\ pc[t] = "handle"
  /\ Count(-1)
  /\ Go(t, "run")
  /\ UNCHANGED <<state, shared, arg>>

(* _deeiterruptsignal_tp_dtor: the signal was caught and is destroyed; the *)
(* interrupt is to be thrown again.                                        *)
Forget(t) ==
  /\ pc[t] = "run"
  /\ "HANDLED" \in state[t]
  /\ Reset(t, "HANDLED")
  /\ Go(t, "again")
  /\ UNCHANGED <<shared, itrp, arg>>

(* Fault: the interrupt is restored, but not counted. *)
AgainUncounted(t) ==
  /\ pc[t] = "again"
  /\ Go(t, "run")
  /\ UNCHANGED <<state, shared, itrp, arg>>

(* DEE_THREADITRP_COUNTER_INC *)
Again(t) ==
  /\ pc[t] = "again"
  /\ Count(1)
  /\ Go(t, "run")
  /\ UNCHANGED <<state, shared, arg>>

(* DeeThread_NoInterruptBegin and DeeThread_NoInterruptEnd *)
NoInterrupt(t) ==
  /\ pc[t] = "run"
  /\ IF "NOINTERRUPT" \in state[t] THEN Reset(t, "NOINTERRUPT") ELSE Set(t, "NOINTERRUPT")
  /\ UNCHANGED <<shared, itrp, pc, arg>>

(* The callback has returned or thrown, perhaps the interrupt signal. *)
Terminate(t) ==
  /\ pc[t] = "run"
  /\ Set(t, "TERMINATED")
  /\ Go(t, IF state[t] \cap {"INTERRUPTED", "HANDLED"} = {"INTERRUPTED"}
           THEN "settle" ELSE "store")
  /\ UNCHANGED <<shared, itrp, arg>>

(* The interrupt that nobody handled is not counted any longer. *)
Settle(t) ==
  /\ pc[t] = "settle"
  /\ Count(-1)
  /\ Go(t, "store")
  /\ UNCHANGED <<state, shared, arg>>

(* _DeeThread_ClearRuntime *)
Store(t) ==
  /\ pc[t] = "store"
  /\ result' = [result EXCEPT ![t] = "stored"]
  /\ Go(t, "release")
  /\ UNCHANGED <<state, handle, lock, held, running, itrp, arg>>

(* _deethread_tp_dtor *)
Dtor(t) ==
  IF state[t] \cap {"STARTED", "DETACHED"} = {"STARTED"}
  THEN UseHandle(t, "detached")
  ELSE UNCHANGED handle

(* Fault: the last reference is dropped without the destructor. *)
ReleaseKeepsHandle(t) ==
  /\ pc[t] = "release"
  /\ UNCHANGED handle
  /\ Go(t, "uncount")
  /\ UNCHANGED <<state, lock, result, held, running, itrp, arg>>

(* The thread drops the reference that DeeThread_Start gave it. *)
Release(t) ==
  /\ pc[t] = "release"
  /\ IF held[t] THEN UNCHANGED handle ELSE Dtor(t)
  /\ Go(t, "uncount")
  /\ UNCHANGED <<state, lock, result, held, running, itrp, arg>>

(* DEE_THREAD_COUNTER_DEC *)
CountOut(t) ==
  /\ pc[t] = "uncount"
  /\ running' = running - 1
  /\ Go(t, "ended")
  /\ UNCHANGED <<state, handle, lock, result, held, itrp, arg>>

----------------------------------------------------------------------------
(* The thread has no reference to its object. *)
Unreferenced(t) == pc[t] \in {"unborn", "uncount", "ended"}

(* The program drops its last reference; a caller has one while it calls. *)
Drop(t) ==
  /\ held[t]
  /\ \A a \in Actors : arg[a] # t
  /\ held' = [held EXCEPT ![t] = FALSE]
  /\ IF Unreferenced(t) THEN Dtor(t) ELSE UNCHANGED handle
  /\ UNCHANGED <<state, lock, result, running, itrp, pc, arg>>

(* DeeThread_PrepareFinalize *)
Finalize ==
  /\ pc[Main] = "run"
  /\ Go(Main, "wait")
  /\ UNCHANGED <<state, shared, itrp, arg>>

(* DEE_THREAD_COUNTER_WAIT *)
Finalized ==
  /\ pc[Main] = "wait"
  /\ running = 0
  /\ Go(Main, "final")
  /\ UNCHANGED <<state, shared, itrp, arg>>

Operation(a) ==
  \/ \E t \in Threads :
       \/ Start(a, t) \/ Interrupt(a, t) \/ Detach(a, t)
       \/ Join(a, t, "join") \/ Join(a, t, "tryjoin")
  \/ CountIn(a) \/ Create(a) \/ CreateFails(a) \/ Started(a) \/ Raise(a)
  \/ DetachHandle(a) \/ TryJoin(a) \/ JoinHandle(a) \/ JoinFails(a)
  \/ Undo(a) \/ Take(a)

Thread(t) ==
  \/ Begin(t) \/ CheckInterrupt(t) \/ DoCheckInterrupt(t) \/ Handle(t)
  \/ Forget(t) \/ Again(t) \/ NoInterrupt(t) \/ Terminate(t) \/ Settle(t)
  \/ Store(t) \/ Release(t) \/ CountOut(t)

Next ==
  \/ \E a \in Actors : Operation(a)
  \/ \E t \in Threads : Thread(t) \/ Drop(t)
  \/ Finalize
  \/ Finalized

Spec == Init /\ [][Next]_vars

----------------------------------------------------------------------------
(* Type invariant. *)
TypeOK ==
  /\ state \in [Threads -> SUBSET Flags]
  /\ handle \in [Threads -> {"none", "joinable", "joined", "detached", "misused"}]
  /\ lock \in [Threads -> Actors \cup {Nobody}]
  /\ result \in [Threads -> {"none", "stored"}]
  /\ held \in [Threads -> BOOLEAN]
  /\ running \in 0..Cardinality(Threads)
  /\ itrp \in 0..CounterWidth - 1
  /\ pc \in [Actors -> Places \cup Stages]
  /\ arg \in [Actors -> Threads \cup {Nobody}]

At(places) == Cardinality({a \in Actors : pc[a] \in places})

(* The counter of interrupts, with what the actors are about to add to it   *)
(* and to take from it, is the number of interrupts the threads still have  *)
(* to handle; those of threads that had terminated before are never taken   *)
(* from it.                                                                 *)
InterruptsCounted ==
  LET unhandled == {t \in Threads :
        state[t] \cap {"INTERRUPTED", "HANDLED"} = {"INTERRUPTED"}}
      pending == {t \in unhandled : "TERMINATED" \notin state[t]}
      counted == (itrp + At({"raise", "again"}) - At({"handle", "settle"}))
                   % CounterWidth
  IN counted \in Cardinality(pending)..Cardinality(unhandled)

(* Each system thread is joined or detached at most once, and only when it *)
(* exists ("t_handle [lock(t_lock)]").                                     *)
HandleIntact == \A t \in Threads : handle[t] # "misused"

(* A thread is not left joinable by an object that is gone. *)
NoHandleLeak ==
  \A t \in Threads : ~held[t] /\ Unreferenced(t) => handle[t] # "joinable"

(* Whoever joins a thread finds its result. *)
JoinFindsResult ==
  \A a \in Actors : pc[a] = "take" => result[arg[a]] = "stored"

(* "Wait for all other threads to finish": none runs after the finalization, *)
(* and none is started.                                                      *)
QuietWhenFinal ==
  pc[Main] = "final" => \A t \in Threads : pc[t] \in {"unborn", "ended"}
=============================================================================
