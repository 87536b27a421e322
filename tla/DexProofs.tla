------------------------------ MODULE DexProofs ------------------------------
(***************************************************************************)
(* Proofs about Dex for any finite set of threads, any libraries and any   *)
(* depth of nested calls.  The argument: until the map is emptied every    *)
(* call in progress uses the object the map has, so that two calls of one  *)
(* library meet in one dm_state; an object about to be destroyed is one    *)
(* thread's own; and the map is emptied when no call is in progress.       *)
(***************************************************************************)
EXTENDS Dex, Sums

(* Where a call has a ticket, uses the object of the map, and destroys an *)
(* object.                                                                *)
Ticketed == {"claim", "sleep", "init", "register", "inside", "release", "await", "handle"}
Using == Ticketed \cup {"acquire", "retract", "try"}
Ending == {"shutdown", "drain", "finalize", "finalized", "unregister"}

(* TypeOK, but that dm_tickets are not negative. *)
FrameTypes ==
  /\ pc \in [Frames -> Places]
  /\ on \in [Frames -> Libraries \cup {NULL}]
  /\ mod \in [Frames -> ModuleOrNull]
  /\ todo \in [Frames -> SUBSET Libraries]

ObjectTypes ==
  /\ map \in [Libraries -> ModuleOrNull]
  /\ made \subseteq Modules
  /\ state \in [Modules -> SUBSET Flags]
  /\ tickets \in [Modules -> Int]
  /\ cache \subseteq Libraries
  /\ unloading \subseteq Modules

ListTypes ==
  /\ prev \in [Modules -> ModuleOrNull]
  /\ next \in [Modules -> ModuleOrNull]
  /\ last \in ModuleOrNull

MainTypes ==
  /\ main \in [at : {"run", "lock", "walk", "await", "handle", "told", "join", "collect", "quit"},
               load : ModuleOrNull, next : ModuleOrNull]
  /\ order \in BOOLEAN /\ locked \in BOOLEAN /\ alone \in BOOLEAN
  /\ rounds \in 0 .. MaxRounds

FaultTypes ==
  /\ faults \in 0 .. MaxFaults
  /\ lost \in [Modules -> 0 .. MaxFaults]
  /\ \A m \in Modules : lost[m] <= faults

Types == FrameTypes /\ ObjectTypes /\ ListTypes /\ MainTypes /\ FaultTypes

(* A call is above the initializations it is made by. *)
Nested ==
  \A f, g \in Frames :
    f[1] = g[1] /\ g[2] < f[2] /\ pc[f] # "out" => pc[g] = "init"

(* The map has an object of each library, ... *)
Mapped ==
  \A l \in Libraries : map[l] # NULL => map[l] \in made /\ map[l][1] = l

(* ... which every call uses, ... *)
Bound ==
  \A f \in Frames :
    /\ pc[f] = "out" => on[f] = NULL
    /\ pc[f] # "out" => on[f] \in Libraries
    /\ pc[f] \in {"out", "open", "new"} => mod[f] = NULL
    /\ pc[f] \in Using => mod[f] # NULL /\ mod[f] = map[on[f]]

(* ... but for those that have made or destroy one of their own. *)
Own ==
  \A f \in Frames : pc[f] \in Ending \cup {"insert"} =>
    /\ mod[f] \in made /\ mod[f][1] = on[f]
    /\ \A g \in Frames : g # f => mod[g] # mod[f]
    /\ map[on[f]] # mod[f]
    /\ mod[f] \notin unloading
    /\ pc[f] \in Ending => main.at = "quit" \/ map[on[f]] # NULL

(* How far the finalization is, and who may still call. *)
Phases ==
  /\ alone => \A f \in Frames : f[1] # Main => pc[f] = "out"
  /\ main.at \in {"collect", "quit"} => alone
  /\ main.at \notin {"run", "collect", "quit"} =>
       \A f \in Frames : f[1] = Main => pc[f] = "out"
  /\ main.at \in {"await", "handle", "told"} => main.load # NULL
  /\ main.at # "quit" => unloading = {}
  /\ main.at = "quit" =>
       /\ \A l \in Libraries : map[l] = NULL
       /\ \A f \in Frames : f # <<Main, 1>> => pc[f] = "out"
       /\ pc[<<Main, 1>>] \in Ending \cup {"out"}
       /\ unloading \subseteq made

(* What the flags say of an object, ... *)
FlagsMean ==
  \A m \in Modules :
    /\ m \notin made => state[m] = {}
    /\ "INITIALIZED" \in state[m] =>
         /\ "INITIALIZING" \in state[m]
         /\ main.at # "quit" => map[m[1]] = m
         /\ "FINALIZED" \in state[m] => main.at = "quit"
         /\ \A n \in Modules : n[1] = m[1] /\ "INITIALIZED" \in state[n] => n = m
    /\ m \in unloading => "FINALIZED" \notin state[m]

(* ... and a call's place of the flags. *)
FlagsKnown ==
  /\ \A f \in Frames :
       /\ pc[f] \in {"init", "retract"} =>
            "INITIALIZING" \in state[mod[f]] /\ "INITIALIZED" \notin state[mod[f]]
       /\ pc[f] \in {"register", "inside", "handle", "finalize"} =>
            "INITIALIZED" \in state[mod[f]]
       /\ pc[f] \in (Ending \cup {"insert"}) \ {"unregister"} => "FINALIZED" \notin state[mod[f]]
       /\ pc[f] \in Ending \cup {"insert"} =>
            main.at = "quit" \/ "INITIALIZED" \notin state[mod[f]]
  /\ main.at = "handle" => "INITIALIZED" \in state[main.load]
  /\ \A l \in Libraries : map[l] # NULL => "FINALIZED" \notin state[map[l]]

(* An object is initialized by one call. *)
OneInitializer ==
  \A f, g \in Frames :
    pc[f] \in {"init", "retract"} /\ pc[g] \in {"init", "retract"} /\ mod[f] = mod[g] => f = g

(* The calls that have a ticket of m. *)
Holders(m) == {f \in Frames : mod[f] = m /\ pc[f] \in Ticketed}

(* Those in the main thread's walk. *)
Told1(m) == IF Telling /\ main.load = m THEN 1 ELSE 0

TicketsCounted ==
  \A m \in Modules : tickets[m] = Cardinality(Holders(m)) + Told1(m) + lost[m]

Control == Nested /\ Mapped /\ Bound /\ Own /\ Phases
IInv == Types /\ Control /\ FlagsMean /\ FlagsKnown /\ OneInitializer /\ TicketsCounted

(* What the definitions of Frames and Modules are needed for. *)
LEMMA BasicFacts ==
  /\ <<Main, 1>> \in Frames
  /\ NULL \notin Modules /\ NULL \notin Libraries
  /\ \A m \in Modules : m[1] \in Libraries
  /\ \A l \in Libraries, i \in 1 .. MaxCopies : <<l, i>> \in Modules /\ <<l, i>>[1] = l
  /\ MaxFaults \in Nat /\ MaxRounds \in Nat \ {0}
BY ConstantsOK DEF Frames, Actors, Modules

(* Calls of one actor are ordered by their depth. *)
LEMMA FrameFacts ==
  /\ <<Main, 1>>[1] = Main
  /\ \A f \in Frames :
       f[2] > 1 => Below(f) \in Frames /\ Below(f)[1] = f[1] /\ Below(f)[2] < f[2]
  /\ \A f, g \in Frames : f[1] = g[1] => f = g \/ f[2] < g[2] \/ g[2] < f[2]
  /\ \A f \in Frames : f[2] \in Nat /\ f[2] >= 1
BY ConstantsOK DEF Frames, Actors, Below

(* When the main thread is in no call of its own, it is in no call. *)
LEMMA MainOut ==
  ASSUME Nested, pc[<<Main, 1>>] = "out"
  PROVE  \A f \in Frames : f[1] = Main => pc[f] = "out"
BY BasicFacts, FrameFacts DEF Nested

(* A call is about a library, and has a module object when it uses one. *)
LEMMA CallFacts ==
  ASSUME Types, Mapped, Bound, Own
  PROVE  \A f \in Frames :
           /\ pc[f] # "out" => on[f] \in Libraries
           /\ pc[f] \notin {"out", "open", "new"} => mod[f] \in made /\ mod[f] \in Modules
           /\ pc[f] \in {"out", "open", "new"} => mod[f] = NULL
<1> SUFFICES ASSUME NEW f \in Frames
             PROVE  /\ pc[f] # "out" => on[f] \in Libraries
                    /\ pc[f] \notin {"out", "open", "new"} => mod[f] \in made /\ mod[f] \in Modules
                    /\ pc[f] \in {"out", "open", "new"} => mod[f] = NULL
  OBVIOUS
<1>1. pc[f] \in Places
  BY DEF Types, FrameTypes
<1>2. CASE pc[f] \in Using
  BY <1>2, BasicFacts DEF Types, ObjectTypes, Mapped, Bound, Using, Ticketed
<1>3. CASE pc[f] \in Ending \cup {"insert"}
  BY <1>3, BasicFacts DEF Types, ObjectTypes, Bound, Own, Ending
<1> QED
  BY <1>1, <1>2, <1>3, BasicFacts DEF Bound, Using, Ticketed, Ending, Places

(* NextModule reads load_next. *)
LEMMA NextLoad ==
  ASSUME MainTypes, NextModule, "SHUTDOWN" \notin state[main.load]
  PROVE  main' = [at |-> "await", load |-> main.load, next |-> prev[main.load]]
BY DEF MainTypes, NextModule

(* The actions that change the flags of the finalization, the map, the *)
(* list, the counts of faults and the calls.                           *)
LEMMA Changes ==
  ASSUME Next
  PROVE  /\ \/ UNCHANGED <<order, locked, main, rounds, alone>>
            \/ ShutdownApi \/ Walk \/ JoinThreads \/ Again \/ QuitApi
         /\ \/ UNCHANGED <<map, made>>
            \/ QuitApi \/ \E f \in Frames : New(f) \/ Insert(f)
         /\ \/ UNCHANGED <<prev, next, last>>
            \/ \E f \in Frames : Register(f) \/ Unregister(f)
         /\ \/ UNCHANGED <<faults, lost>>
            \/ \E f \in Frames : InitFails(f) \/ Interrupted(f)
         /\ \/ UNCHANGED frames
            \/ \E f \in Frames :
                 \/ Proceed(f) \/ Interrupted(f)
                 \/ \E l \in Libraries : Import(f, l) \/ CollectMemory(f, l)
            \/ \E m \in Modules : Unload(m)
<1> USE DEF objects, list, frames, finalize
<1>1. ASSUME NEW f \in Frames, Proceed(f) \/ Interrupted(f)
      PROVE  /\ UNCHANGED <<order, main, rounds, alone>> /\ UNCHANGED locked
             /\ New(f) \/ Insert(f) \/ UNCHANGED <<map, made>>
             /\ Register(f) \/ Unregister(f) \/ UNCHANGED <<prev, next, last>>
             /\ InitFails(f) \/ Interrupted(f) \/ UNCHANGED <<faults, lost>>
  BY <1>1 DEF Proceed, Lookup, New, NotFound, Insert, Acquire, Claim, WakeUp,
              InitSucceeds, InitFails, Retract, Register, Operate, Release, TryAcquire,
              Await, Shutdown, Drain, Finalize, SetFinalized, Unregister, Interrupted
<1>2. ASSUME NEW f \in Frames, NEW l \in Libraries, Import(f, l) \/ CollectMemory(f, l)
      PROVE  /\ UNCHANGED <<order, locked, main, rounds, alone, map, made>>
             /\ UNCHANGED <<prev, next, last, faults, lost>>
  BY <1>2 DEF Import, CollectMemory
<1>3. CASE ShutdownApi \/ Walk \/ JoinThreads \/ Again
  <2>1. UNCHANGED <<map, made, prev, next, last, faults, lost, pc, on, mod, todo>>
    BY <1>3 DEF Walk, ShutdownApi, LockList, NextModule, TellModule, Told,
                ReleaseModule, UnlockList, JoinThreads, Again
  <2> QED
    BY <1>3, <2>1
<1>4. CASE QuitApi
  BY <1>4 DEF QuitApi
<1>5. ASSUME NEW m \in Modules, Unload(m)
      PROVE  UNCHANGED <<order, locked, main, rounds, alone, map, made,
                         prev, next, last, faults, lost>>
  BY <1>5 DEF Unload
<1> QED
  BY <1>1, <1>2, <1>3, <1>4, <1>5 DEF Next

(* Each step keeps the types: of the calls, ... *)
LEMMA StepFrameTypes ==
  ASSUME IInv, Next PROVE FrameTypes'
<1>0. Types /\ Control
  BY DEF IInv, Control
<1>c. \A f \in Frames :
        /\ pc[f] # "out" => on[f] \in Libraries
        /\ pc[f] \notin {"out", "open", "new"} => mod[f] \in made /\ mod[f] \in Modules
        /\ pc[f] \in {"out", "open", "new"} => mod[f] = NULL
  BY CallFacts DEF IInv, Control
<1>m. main.at \in {"await", "handle", "told"} => main.load \in Modules
  BY DEF IInv, Types, Control, Phases, MainTypes, ModuleOrNull
<1> USE BasicFacts, ConstantsOK DEF Go, Bind, Return, SetFlag, ClearFlag, AddTicket,
                                    DropTicket, Call, Below, Above, BeingInitialized,
                                    Initialized, Finalizing, Step, objects, list,
                                    frames, finalize, Types, FrameTypes, ObjectTypes,
                                    ModuleOrNull, Places
<1>1. CASE UNCHANGED <<pc, on, mod, todo>>
  BY <1>0, <1>1
<1>2. ASSUME NEW f \in Frames, Lookup(f) PROVE FrameTypes'
  BY <1>0, <1>c, <1>m, <1>2 DEF Lookup
<1>3. ASSUME NEW f \in Frames, New(f) PROVE FrameTypes'
  BY <1>0, <1>c, <1>m, <1>3 DEF New
<1>4. ASSUME NEW f \in Frames, NotFound(f) PROVE FrameTypes'
  BY <1>0, <1>c, <1>m, <1>4 DEF NotFound
<1>5. ASSUME NEW f \in Frames, Insert(f) PROVE FrameTypes'
  BY <1>0, <1>c, <1>m, <1>5 DEF Insert
<1>6. ASSUME NEW f \in Frames, Acquire(f) PROVE FrameTypes'
  BY <1>0, <1>c, <1>m, <1>6 DEF Acquire
<1>7. ASSUME NEW f \in Frames, Claim(f) PROVE FrameTypes'
  <2>1. CASE "INITIALIZING" \notin state[mod[f]]
    BY <1>0, <1>c, <1>m, <1>7, <2>1 DEF Claim
  <2>2. CASE ~("INITIALIZING" \notin state[mod[f]])
    BY <1>0, <1>c, <1>m, <1>7, <2>2 DEF Claim
  <2> QED
    BY <2>1, <2>2
<1>8. ASSUME NEW f \in Frames, WakeUp(f) PROVE FrameTypes'
  BY <1>0, <1>c, <1>m, <1>8 DEF WakeUp
<1>9. ASSUME NEW f \in Frames, InitSucceeds(f) PROVE FrameTypes'
  BY <1>0, <1>c, <1>m, <1>9 DEF InitSucceeds
<1>10. ASSUME NEW f \in Frames, InitFails(f) PROVE FrameTypes'
  BY <1>0, <1>c, <1>m, <1>10 DEF InitFails
<1>11. ASSUME NEW f \in Frames, Retract(f) PROVE FrameTypes'
  BY <1>0, <1>c, <1>m, <1>11 DEF Retract
<1>12. ASSUME NEW f \in Frames, Register(f) PROVE FrameTypes'
  BY <1>0, <1>c, <1>m, <1>12 DEF Register
<1>13. ASSUME NEW f \in Frames, Operate(f) PROVE FrameTypes'
  BY <1>0, <1>c, <1>m, <1>13 DEF Operate
<1>14. ASSUME NEW f \in Frames, Release(f) PROVE FrameTypes'
  BY <1>0, <1>c, <1>m, <1>14 DEF Release
<1>15. ASSUME NEW f \in Frames, TryAcquire(f) PROVE FrameTypes'
  BY <1>0, <1>c, <1>m, <1>15 DEF TryAcquire
<1>16. ASSUME NEW f \in Frames, Await(f) PROVE FrameTypes'
  BY <1>0, <1>c, <1>m, <1>16 DEF Await
<1>17. ASSUME NEW f \in Frames, Shutdown(f) PROVE FrameTypes'
  BY <1>0, <1>c, <1>m, <1>17 DEF Shutdown
<1>18. ASSUME NEW f \in Frames, Drain(f) PROVE FrameTypes'
  BY <1>0, <1>c, <1>m, <1>18 DEF Drain
<1>19. ASSUME NEW f \in Frames, Finalize(f) PROVE FrameTypes'
  BY <1>0, <1>c, <1>m, <1>19 DEF Finalize
<1>20. ASSUME NEW f \in Frames, SetFinalized(f) PROVE FrameTypes'
  BY <1>0, <1>c, <1>m, <1>20 DEF SetFinalized
<1>21. ASSUME NEW f \in Frames, Unregister(f) PROVE FrameTypes'
  BY <1>0, <1>c, <1>m, <1>21 DEF Unregister
<1>22. ASSUME NEW f \in Frames, Interrupted(f) PROVE FrameTypes'
  BY <1>0, <1>c, <1>m, <1>22 DEF Interrupted
<1>23. ASSUME NEW f \in Frames, NEW l \in Libraries, Import(f, l) PROVE FrameTypes'
  BY <1>0, <1>c, <1>m, <1>23 DEF Import
<1>24. ASSUME NEW f \in Frames, NEW l \in Libraries, CollectMemory(f, l) PROVE FrameTypes'
  BY <1>0, <1>c, <1>m, <1>24 DEF CollectMemory
<1>25. ASSUME NEW m \in Modules, Unload(m) PROVE FrameTypes'
  BY <1>0, <1>c, <1>m, <1>25 DEF Unload
<1> QED
  BY <1>1, <1>2, <1>3, <1>4, <1>5, <1>6, <1>7, <1>8, <1>9, <1>10, <1>11, <1>12, <1>13,
     <1>14, <1>15, <1>16, <1>17, <1>18, <1>19, <1>20, <1>21, <1>22, <1>23, <1>24, <1>25,
     Changes
     DEF Proceed

(* ... of the module objects, ... *)
LEMMA StepObjectTypes ==
  ASSUME IInv, Next PROVE ObjectTypes'
<1>0. Types /\ Control
  BY DEF IInv, Control
<1>c. \A f \in Frames :
        /\ pc[f] # "out" => on[f] \in Libraries
        /\ pc[f] \notin {"out", "open", "new"} => mod[f] \in made /\ mod[f] \in Modules
        /\ pc[f] \in {"out", "open", "new"} => mod[f] = NULL
  BY CallFacts DEF IInv, Control
<1>m. main.at \in {"await", "handle", "told"} => main.load \in Modules
  BY DEF IInv, Types, Control, Phases, MainTypes, ModuleOrNull
<1> USE BasicFacts, ConstantsOK DEF Go, Bind, Return, SetFlag, ClearFlag, AddTicket,
                                    DropTicket, Call, Below, Above, BeingInitialized,
                                    Initialized, Finalizing, Step, objects, list,
                                    frames, finalize, Types, ObjectTypes, ModuleOrNull,
                                    Flags
<1>1. ASSUME NEW f \in Frames, Lookup(f) PROVE ObjectTypes'
  BY <1>0, <1>c, <1>m, <1>1 DEF Lookup
<1>2. ASSUME NEW f \in Frames, New(f) PROVE ObjectTypes'
  BY <1>0, <1>c, <1>m, <1>2 DEF New
<1>3. ASSUME NEW f \in Frames, NotFound(f) PROVE ObjectTypes'
  BY <1>0, <1>c, <1>m, <1>3 DEF NotFound
<1>4. ASSUME NEW f \in Frames, Insert(f) PROVE ObjectTypes'
  BY <1>0, <1>c, <1>m, <1>4 DEF Insert
<1>5. ASSUME NEW f \in Frames, Acquire(f) PROVE ObjectTypes'
  BY <1>0, <1>c, <1>m, <1>5 DEF Acquire
<1>6. ASSUME NEW f \in Frames, Claim(f) PROVE ObjectTypes'
  BY <1>0, <1>c, <1>m, <1>6 DEF Claim
<1>7. ASSUME NEW f \in Frames, WakeUp(f) PROVE ObjectTypes'
  BY <1>0, <1>c, <1>m, <1>7 DEF WakeUp
<1>8. ASSUME NEW f \in Frames, InitSucceeds(f) PROVE ObjectTypes'
  BY <1>0, <1>c, <1>m, <1>8 DEF InitSucceeds
<1>9. ASSUME NEW f \in Frames, InitFails(f) PROVE ObjectTypes'
  BY <1>0, <1>c, <1>m, <1>9 DEF InitFails
<1>10. ASSUME NEW f \in Frames, Retract(f) PROVE ObjectTypes'
  BY <1>0, <1>c, <1>m, <1>10 DEF Retract
<1>11. ASSUME NEW f \in Frames, Register(f) PROVE ObjectTypes'
  BY <1>0, <1>c, <1>m, <1>11 DEF Register
<1>12. ASSUME NEW f \in Frames, Operate(f) PROVE ObjectTypes'
  BY <1>0, <1>c, <1>m, <1>12 DEF Operate
<1>13. ASSUME NEW f \in Frames, Release(f) PROVE ObjectTypes'
  BY <1>0, <1>c, <1>m, <1>13 DEF Release
<1>14. ASSUME NEW f \in Frames, TryAcquire(f) PROVE ObjectTypes'
  BY <1>0, <1>c, <1>m, <1>14 DEF TryAcquire
<1>15. ASSUME NEW f \in Frames, Await(f) PROVE ObjectTypes'
  BY <1>0, <1>c, <1>m, <1>15 DEF Await
<1>16. ASSUME NEW f \in Frames, Shutdown(f) PROVE ObjectTypes'
  BY <1>0, <1>c, <1>m, <1>16 DEF Shutdown
<1>17. ASSUME NEW f \in Frames, Drain(f) PROVE ObjectTypes'
  BY <1>0, <1>c, <1>m, <1>17 DEF Drain
<1>18. ASSUME NEW f \in Frames, Finalize(f) PROVE ObjectTypes'
  BY <1>0, <1>c, <1>m, <1>18 DEF Finalize
<1>19. ASSUME NEW f \in Frames, SetFinalized(f) PROVE ObjectTypes'
  BY <1>0, <1>c, <1>m, <1>19 DEF SetFinalized
<1>20. ASSUME NEW f \in Frames, Unregister(f) PROVE ObjectTypes'
  BY <1>0, <1>c, <1>m, <1>20 DEF Unregister
<1>21. ASSUME NEW f \in Frames, Interrupted(f) PROVE ObjectTypes'
  BY <1>0, <1>c, <1>m, <1>21 DEF Interrupted
<1>22. ASSUME NEW f \in Frames, NEW l \in Libraries, Import(f, l) PROVE ObjectTypes'
  BY <1>0, <1>c, <1>m, <1>22 DEF Import
<1>23. ASSUME NEW f \in Frames, NEW l \in Libraries, CollectMemory(f, l) PROVE ObjectTypes'
  BY <1>0, <1>c, <1>m, <1>23 DEF CollectMemory
<1>24. CASE ShutdownApi
  BY <1>0, <1>c, <1>m, <1>24 DEF ShutdownApi
<1>25. CASE LockList
  BY <1>0, <1>c, <1>m, <1>25 DEF LockList
<1>26. CASE NextModule
  BY <1>0, <1>c, <1>m, <1>26 DEF NextModule
<1>27. CASE TellModule
  BY <1>0, <1>c, <1>m, <1>27 DEF TellModule
<1>28. CASE Told
  BY <1>0, <1>c, <1>m, <1>28 DEF Told
<1>29. CASE ReleaseModule
  BY <1>0, <1>c, <1>m, <1>29 DEF ReleaseModule
<1>30. CASE UnlockList
  BY <1>0, <1>c, <1>m, <1>30 DEF UnlockList
<1>31. CASE JoinThreads
  BY <1>0, <1>c, <1>m, <1>31 DEF JoinThreads
<1>32. CASE Again
  BY <1>0, <1>c, <1>m, <1>32 DEF Again
<1>33. CASE QuitApi
  BY <1>0, <1>c, <1>m, <1>33 DEF QuitApi
<1>34. ASSUME NEW m \in Modules, Unload(m) PROVE ObjectTypes'
  BY <1>0, <1>c, <1>m, <1>34 DEF Unload
<1>q. QED
  BY <1>1, <1>2, <1>3, <1>4, <1>5, <1>6, <1>7, <1>8, <1>9, <1>10, <1>11, <1>12, <1>13,
     <1>14, <1>15, <1>16, <1>17, <1>18, <1>19, <1>20, <1>21, <1>22, <1>23, <1>24, <1>25,
     <1>26, <1>27, <1>28, <1>29, <1>30, <1>31, <1>32, <1>33, <1>34
     DEF Next, Proceed, Walk

(* ... of _dex_init_list, ... *)
LEMMA StepListTypes ==
  ASSUME IInv, Next PROVE ListTypes'
<1>0. Types /\ Control
  BY DEF IInv, Control
<1>c. \A f \in Frames :
        /\ pc[f] # "out" => on[f] \in Libraries
        /\ pc[f] \notin {"out", "open", "new"} => mod[f] \in made /\ mod[f] \in Modules
        /\ pc[f] \in {"out", "open", "new"} => mod[f] = NULL
  BY CallFacts DEF IInv, Control
<1>m. main.at \in {"await", "handle", "told"} => main.load \in Modules
  BY DEF IInv, Types, Control, Phases, MainTypes, ModuleOrNull
<1> USE BasicFacts, ConstantsOK DEF Go, Bind, Return, SetFlag, ClearFlag, AddTicket,
                                    DropTicket, Call, Below, Above, BeingInitialized,
                                    Initialized, Finalizing, Step, objects, list,
                                    frames, finalize, Types, ListTypes, ModuleOrNull
<1>1. CASE UNCHANGED <<prev, next, last>>
  BY <1>0, <1>1
<1>2. ASSUME NEW f \in Frames, Register(f) PROVE ListTypes'
  BY <1>0, <1>c, <1>m, <1>2 DEF Register
<1>3. ASSUME NEW f \in Frames, Unregister(f) PROVE ListTypes'
  BY <1>0, <1>c, <1>m, <1>3 DEF Unregister
<1> QED
  BY <1>1, <1>2, <1>3, Changes

(* ... of the finalization, ... *)
LEMMA StepMainTypes ==
  ASSUME IInv, Next PROVE MainTypes'
<1>0. Types /\ Control
  BY DEF IInv, Control
<1>c. \A f \in Frames :
        /\ pc[f] # "out" => on[f] \in Libraries
        /\ pc[f] \notin {"out", "open", "new"} => mod[f] \in made /\ mod[f] \in Modules
        /\ pc[f] \in {"out", "open", "new"} => mod[f] = NULL
  BY CallFacts DEF IInv, Control
<1>m. main.at \in {"await", "handle", "told"} => main.load \in Modules
  BY DEF IInv, Types, Control, Phases, MainTypes, ModuleOrNull
<1> USE BasicFacts, ConstantsOK DEF Go, Bind, Return, SetFlag, ClearFlag, AddTicket,
                                    DropTicket, Call, Below, Above, BeingInitialized,
                                    Initialized, Finalizing, Step, objects, list,
                                    frames, finalize, Types, MainTypes, ObjectTypes,
                                    ListTypes, ModuleOrNull
<1>1. CASE UNCHANGED <<order, locked, main, rounds, alone>>
  BY <1>0, <1>1
<1>2. CASE ShutdownApi
  <2>1. main' = [at |-> "lock", load |-> main.load, next |-> main.next]
    BY <1>0, <1>c, <1>m, <1>2 DEF ShutdownApi
  <2>2. rounds' = 1 /\ order' = FALSE /\ UNCHANGED <<locked, alone>>
    BY <1>2 DEF ShutdownApi
  <2>3. 1 \in 0 .. MaxRounds
    BY BasicFacts
  <2> QED
    BY <1>0, <2>1, <2>2, <2>3
<1>3. CASE LockList
  BY <1>0, <1>c, <1>m, <1>3 DEF LockList
<1>4. CASE NextModule
  <2>1. CASE "SHUTDOWN" \in state[main.load]
    BY <1>0, <1>c, <1>m, <1>4, <2>1 DEF NextModule
  <2>2. CASE ~("SHUTDOWN" \in state[main.load])
    <3>1. main' = [at |-> "await", load |-> main.load, next |-> prev[main.load]]
      BY <1>0, <1>c, <1>m, <1>4, <2>2, NextLoad
    <3> QED
      BY <1>0, <1>c, <1>m, <1>4, <2>2, <3>1 DEF NextModule
  <2> QED
    BY <2>1, <2>2
<1>5. CASE TellModule
  <2>1. /\ main' \in {[main EXCEPT !.at = "handle"], [main EXCEPT !.at = "told"]}
        /\ locked' \in {locked, FALSE} /\ UNCHANGED <<order, alone, rounds>>
    BY <1>5 DEF TellModule
  <2> QED
    BY <1>0, <2>1
<1>6. CASE Told
  BY <1>0, <1>c, <1>m, <1>6 DEF Told
<1>7. CASE ReleaseModule
  BY <1>0, <1>c, <1>m, <1>7 DEF ReleaseModule
<1>8. CASE UnlockList
  BY <1>0, <1>c, <1>m, <1>8 DEF UnlockList
<1>9. CASE JoinThreads
  BY <1>0, <1>c, <1>m, <1>9 DEF JoinThreads
<1>10. CASE Again
  BY <1>0, <1>c, <1>m, <1>10 DEF Again
<1>11. CASE QuitApi
  BY <1>0, <1>c, <1>m, <1>11 DEF QuitApi
<1> QED
  BY <1>1, <1>2, <1>3, <1>4, <1>5, <1>6, <1>7, <1>8, <1>9, <1>10, <1>11, Changes
     DEF Walk

(* ... and of the counts of faults. *)
LEMMA StepFaultTypes ==
  ASSUME IInv, Next PROVE FaultTypes'
<1>0. Types /\ Control
  BY DEF IInv, Control
<1>c. \A f \in Frames :
        /\ pc[f] # "out" => on[f] \in Libraries
        /\ pc[f] \notin {"out", "open", "new"} => mod[f] \in made /\ mod[f] \in Modules
        /\ pc[f] \in {"out", "open", "new"} => mod[f] = NULL
  BY CallFacts DEF IInv, Control
<1>m. main.at \in {"await", "handle", "told"} => main.load \in Modules
  BY DEF IInv, Types, Control, Phases, MainTypes, ModuleOrNull
<1> USE BasicFacts, ConstantsOK DEF Go, Bind, Return, SetFlag, ClearFlag, AddTicket,
                                    DropTicket, Call, Below, Above, BeingInitialized,
                                    Initialized, Finalizing, Step, objects, list,
                                    frames, finalize, Types, FaultTypes, ModuleOrNull
<1>1. CASE UNCHANGED <<faults, lost>>
  BY <1>0, <1>1
<1>2. ASSUME NEW f \in Frames, InitFails(f) PROVE FaultTypes'
  BY <1>0, <1>c, <1>m, <1>2 DEF InitFails
<1>3. ASSUME NEW f \in Frames, Interrupted(f) PROVE FaultTypes'
  BY <1>0, <1>c, <1>m, <1>3 DEF Interrupted
<1> QED
  BY <1>1, <1>2, <1>3, Changes

(* Calls stay nested. *)
LEMMA StepNested ==
  ASSUME IInv, Next PROVE Nested'
<1>0. Types /\ Nested /\ Phases
  BY DEF IInv, Control
<1> USE ConstantsOK, FrameFacts DEF Go, Bind, Return, SetFlag, ClearFlag, AddTicket,
                                    DropTicket, Call, Below, Above, BeingInitialized,
                                    Initialized, Finalizing, Step, objects, list,
                                    frames, finalize, Types, FrameTypes, MainTypes,
                                    Nested, Phases, Frames, Actors
<1>1. CASE UNCHANGED <<pc, on, mod, todo>>
  BY <1>0, <1>1
<1>2. ASSUME NEW f \in Frames, Lookup(f) PROVE Nested'
  BY <1>0, <1>2 DEF Lookup
<1>3. ASSUME NEW f \in Frames, New(f) PROVE Nested'
  BY <1>0, <1>3 DEF New
<1>4. ASSUME NEW f \in Frames, NotFound(f) PROVE Nested'
  BY <1>0, <1>4 DEF NotFound
<1>5. ASSUME NEW f \in Frames, Insert(f) PROVE Nested'
  BY <1>0, <1>5 DEF Insert
<1>6. ASSUME NEW f \in Frames, Acquire(f) PROVE Nested'
  BY <1>0, <1>6 DEF Acquire
<1>7. ASSUME NEW f \in Frames, Claim(f) PROVE Nested'
  <2>1. CASE "INITIALIZING" \notin state[mod[f]]
    BY <1>0, <1>7, <2>1 DEF Claim
  <2>2. CASE ~("INITIALIZING" \notin state[mod[f]])
    BY <1>0, <1>7, <2>2 DEF Claim
  <2> QED
    BY <2>1, <2>2
<1>8. ASSUME NEW f \in Frames, WakeUp(f) PROVE Nested'
  BY <1>0, <1>8 DEF WakeUp
<1>9. ASSUME NEW f \in Frames, InitSucceeds(f) PROVE Nested'
  BY <1>0, <1>9 DEF InitSucceeds
<1>10. ASSUME NEW f \in Frames, InitFails(f) PROVE Nested'
  BY <1>0, <1>10 DEF InitFails
<1>11. ASSUME NEW f \in Frames, Retract(f) PROVE Nested'
  BY <1>0, <1>11 DEF Retract
<1>12. ASSUME NEW f \in Frames, Register(f) PROVE Nested'
  BY <1>0, <1>12 DEF Register
<1>13. ASSUME NEW f \in Frames, Operate(f) PROVE Nested'
  BY <1>0, <1>13 DEF Operate
<1>14. ASSUME NEW f \in Frames, Release(f) PROVE Nested'
  BY <1>0, <1>14 DEF Release
<1>15. ASSUME NEW f \in Frames, TryAcquire(f) PROVE Nested'
  BY <1>0, <1>15 DEF TryAcquire
<1>16. ASSUME NEW f \in Frames, Await(f) PROVE Nested'
  BY <1>0, <1>16 DEF Await
<1>17. ASSUME NEW f \in Frames, Shutdown(f) PROVE Nested'
  BY <1>0, <1>17 DEF Shutdown
<1>18. ASSUME NEW f \in Frames, Drain(f) PROVE Nested'
  BY <1>0, <1>18 DEF Drain
<1>19. ASSUME NEW f \in Frames, Finalize(f) PROVE Nested'
  BY <1>0, <1>19 DEF Finalize
<1>20. ASSUME NEW f \in Frames, SetFinalized(f) PROVE Nested'
  BY <1>0, <1>20 DEF SetFinalized
<1>21. ASSUME NEW f \in Frames, Unregister(f) PROVE Nested'
  BY <1>0, <1>21 DEF Unregister
<1>22. ASSUME NEW f \in Frames, Interrupted(f) PROVE Nested'
  BY <1>0, <1>22 DEF Interrupted
<1>23. ASSUME NEW f \in Frames, NEW l \in Libraries, Import(f, l) PROVE Nested'
  <2>1. CASE f[2] > 1
    BY <1>0, <1>23, <2>1 DEF Import
  <2>2. CASE ~(f[2] > 1)
    BY <1>0, <1>23, <2>2 DEF Import
  <2> QED
    BY <2>1, <2>2
<1>24. ASSUME NEW f \in Frames, NEW l \in Libraries, CollectMemory(f, l) PROVE Nested'
  BY <1>0, <1>24 DEF CollectMemory
<1>25. ASSUME NEW m \in Modules, Unload(m) PROVE Nested'
  BY <1>0, <1>25 DEF Unload
<1> QED
  BY <1>1, <1>2, <1>3, <1>4, <1>5, <1>6, <1>7, <1>8, <1>9, <1>10, <1>11, <1>12, <1>13,
     <1>14, <1>15, <1>16, <1>17, <1>18, <1>19, <1>20, <1>21, <1>22, <1>23, <1>24, <1>25,
     Changes
     DEF Proceed

(* An object stays in the map until the finalization empties it. *)
LEMMA StepMapped ==
  ASSUME IInv, Next PROVE Mapped'
<1>0. Types /\ Mapped /\ Bound /\ Own
  BY DEF IInv, Control
<1> USE BasicFacts DEF Go, Bind, Return, SetFlag, ClearFlag, AddTicket, DropTicket,
                       Call, Below, Above, BeingInitialized, Initialized, Finalizing,
                       Step, objects, list, frames, finalize, Types, FrameTypes,
                       ObjectTypes, Mapped, Bound, Own, Using, Ticketed, Ending,
                       ModuleOrNull
<1>1. CASE UNCHANGED <<map, made>>
  BY <1>0, <1>1
<1>2. ASSUME NEW f \in Frames, New(f) PROVE Mapped'
  BY <1>0, <1>2 DEF New
<1>3. ASSUME NEW f \in Frames, Insert(f) PROVE Mapped'
  BY <1>0, <1>3 DEF Insert
<1>4. CASE QuitApi
  BY <1>0, <1>4 DEF QuitApi
<1> QED
  BY <1>1, <1>2, <1>3, <1>4, Changes

(* A call that uses a module uses the one of the map. *)
LEMMA StepBound ==
  ASSUME IInv, Next PROVE Bound'
<1>0. Types /\ Control
  BY DEF IInv, Control
<1> USE BasicFacts DEF Go, Bind, Return, SetFlag, ClearFlag, AddTicket, DropTicket,
                       Call, Below, Above, BeingInitialized, Initialized, Finalizing,
                       Step, objects, list, frames, finalize, Types, FrameTypes,
                       ObjectTypes, ListTypes, MainTypes, FaultTypes, Control, Nested,
                       Mapped, Bound, Own, Phases, Using, Ticketed, Ending, ModuleOrNull
<1>1. CASE UNCHANGED <<pc, on, mod, todo, map>>
  BY <1>0, <1>1
<1>2. ASSUME NEW f \in Frames, Lookup(f) PROVE Bound'
  BY <1>0, <1>2 DEF Lookup
<1>3. ASSUME NEW f \in Frames, New(f) PROVE Bound'
  BY <1>0, <1>3 DEF New
<1>4. ASSUME NEW f \in Frames, NotFound(f) PROVE Bound'
  BY <1>0, <1>4 DEF NotFound
<1>5. ASSUME NEW f \in Frames, Insert(f) PROVE Bound'
  BY <1>0, <1>5 DEF Insert
<1>6. ASSUME NEW f \in Frames, Acquire(f) PROVE Bound'
  BY <1>0, <1>6 DEF Acquire
<1>7. ASSUME NEW f \in Frames, Claim(f) PROVE Bound'
  BY <1>0, <1>7 DEF Claim
<1>8. ASSUME NEW f \in Frames, WakeUp(f) PROVE Bound'
  BY <1>0, <1>8 DEF WakeUp
<1>9. ASSUME NEW f \in Frames, InitSucceeds(f) PROVE Bound'
  BY <1>0, <1>9 DEF InitSucceeds
<1>10. ASSUME NEW f \in Frames, InitFails(f) PROVE Bound'
  BY <1>0, <1>10 DEF InitFails
<1>11. ASSUME NEW f \in Frames, Retract(f) PROVE Bound'
  BY <1>0, <1>11 DEF Retract
<1>12. ASSUME NEW f \in Frames, Register(f) PROVE Bound'
  BY <1>0, <1>12 DEF Register
<1>13. ASSUME NEW f \in Frames, Operate(f) PROVE Bound'
  BY <1>0, <1>13 DEF Operate
<1>14. ASSUME NEW f \in Frames, Release(f) PROVE Bound'
  BY <1>0, <1>14 DEF Release
<1>15. ASSUME NEW f \in Frames, TryAcquire(f) PROVE Bound'
  BY <1>0, <1>15 DEF TryAcquire
<1>16. ASSUME NEW f \in Frames, Await(f) PROVE Bound'
  BY <1>0, <1>16 DEF Await
<1>17. ASSUME NEW f \in Frames, Shutdown(f) PROVE Bound'
  BY <1>0, <1>17 DEF Shutdown
<1>18. ASSUME NEW f \in Frames, Drain(f) PROVE Bound'
  BY <1>0, <1>18 DEF Drain
<1>19. ASSUME NEW f \in Frames, Finalize(f) PROVE Bound'
  BY <1>0, <1>19 DEF Finalize
<1>20. ASSUME NEW f \in Frames, SetFinalized(f) PROVE Bound'
  BY <1>0, <1>20 DEF SetFinalized
<1>21. ASSUME NEW f \in Frames, Unregister(f) PROVE Bound'
  BY <1>0, <1>21 DEF Unregister
<1>22. ASSUME NEW f \in Frames, Interrupted(f) PROVE Bound'
  BY <1>0, <1>22 DEF Interrupted
<1>23. ASSUME NEW f \in Frames, NEW l \in Libraries, Import(f, l) PROVE Bound'
  BY <1>0, <1>23 DEF Import
<1>24. ASSUME NEW f \in Frames, NEW l \in Libraries, CollectMemory(f, l) PROVE Bound'
  BY <1>0, <1>24 DEF CollectMemory
<1>25. CASE QuitApi
  <2>1. \A f \in Frames : pc[f] = "out"
    BY <1>0, <1>25, MainOut DEF QuitApi
  <2> QED
    BY <1>0, <1>25, <2>1 DEF QuitApi
<1>26. ASSUME NEW m \in Modules, Unload(m) PROVE Bound'
  BY <1>0, <1>26 DEF Unload
<1> QED
  BY <1>1, <1>2, <1>3, <1>4, <1>5, <1>6, <1>7, <1>8, <1>9, <1>10, <1>11, <1>12, <1>13,
     <1>14, <1>15, <1>16, <1>17, <1>18, <1>19, <1>20, <1>21, <1>22, <1>23, <1>24, <1>25,
     <1>26, Changes
     DEF Proceed

(* Who inserts or destroys an object is alone with it. *)
LEMMA StepOwn ==
  ASSUME IInv, Next PROVE Own'
<1>0. Types /\ Control
  BY DEF IInv, Control
<1>c. \A f \in Frames :
        /\ pc[f] # "out" => on[f] \in Libraries
        /\ pc[f] \notin {"out", "open", "new"} => mod[f] \in made /\ mod[f] \in Modules
        /\ pc[f] \in {"out", "open", "new"} => mod[f] = NULL
  BY CallFacts DEF IInv, Control
<1>d. \A l \in Libraries : map[l] # NULL => map[l] \in made
  BY DEF IInv, Control, Mapped
<1> USE BasicFacts DEF Go, Bind, Return, SetFlag, ClearFlag, AddTicket, DropTicket,
                       Call, Below, Above, BeingInitialized, Initialized, Finalizing,
                       Step, objects, list, frames, finalize, Types, FrameTypes,
                       ObjectTypes, ListTypes, MainTypes, FaultTypes, Control, Nested,
                       Mapped, Bound, Own, Phases, Using, Ticketed, Ending, ModuleOrNull
<1>1. ASSUME NEW f \in Frames, Lookup(f) PROVE Own'
  BY <1>0, <1>1 DEF Lookup
<1>2. ASSUME NEW f \in Frames, New(f) PROVE Own'
  <2>1. PICK i \in 1 .. MaxCopies :
          /\ <<on[f], i>> \notin made
          /\ made' = made \cup {<<on[f], i>>}
          /\ Bind(f, <<on[f], i>>)
    BY <1>2 DEF New
  <2>2. pc[f] = "new" /\ on[f] \in Libraries
    BY <1>c, <1>2 DEF New
  <2>3. <<on[f], i>> \in Modules /\ <<on[f], i>>[1] = on[f]
    BY <2>2, BasicFacts
  <2>4. map[on[f]] # <<on[f], i>>
    BY <1>d, <2>1, <2>2, <2>3
  <2>5. \A g \in Frames : g # f => mod[g] # <<on[f], i>>
    BY <1>c, <2>1, <2>3
  <2>6. pc' = [pc EXCEPT ![f] = "insert"] /\ mod' = [mod EXCEPT ![f] = <<on[f], i>>]
        /\ UNCHANGED <<map, on, main, unloading>>
    BY <1>2, <2>1 DEF New
  <2>7. <<on[f], i>> \notin unloading /\ made \subseteq made' /\ <<on[f], i>> \in made'
    BY <1>0, <1>2, <2>1, <2>2
  <2>8. ASSUME NEW g \in Frames, pc'[g] \in Ending \cup {"insert"}
        PROVE  /\ mod'[g] \in made' /\ mod'[g][1] = on'[g]
               /\ \A h \in Frames : h # g => mod'[h] # mod'[g]
               /\ map'[on'[g]] # mod'[g]
               /\ mod'[g] \notin unloading'
               /\ pc'[g] \in Ending => main'.at = "quit" \/ map'[on'[g]] # NULL
    <3>1. CASE g = f
      BY <1>0, <2>3, <2>4, <2>5, <2>6, <2>7, <3>1
    <3>2. CASE g # f
      BY <1>0, <2>5, <2>6, <2>7, <2>8, <3>2
    <3> QED
      BY <3>1, <3>2
  <2> QED
    BY <2>8
<1>3. ASSUME NEW f \in Frames, NotFound(f) PROVE Own'
  BY <1>0, <1>3 DEF NotFound
<1>4. ASSUME NEW f \in Frames, Insert(f) PROVE Own'
  BY <1>0, <1>4 DEF Insert
<1>5. ASSUME NEW f \in Frames, Acquire(f) PROVE Own'
  BY <1>0, <1>5 DEF Acquire
<1>6. ASSUME NEW f \in Frames, Claim(f) PROVE Own'
  BY <1>0, <1>6 DEF Claim
<1>7. ASSUME NEW f \in Frames, WakeUp(f) PROVE Own'
  BY <1>0, <1>7 DEF WakeUp
<1>8. ASSUME NEW f \in Frames, InitSucceeds(f) PROVE Own'
  BY <1>0, <1>8 DEF InitSucceeds
<1>9. ASSUME NEW f \in Frames, InitFails(f) PROVE Own'
  BY <1>0, <1>9 DEF InitFails
<1>10. ASSUME NEW f \in Frames, Retract(f) PROVE Own'
  BY <1>0, <1>10 DEF Retract
<1>11. ASSUME NEW f \in Frames, Register(f) PROVE Own'
  BY <1>0, <1>11 DEF Register
<1>12. ASSUME NEW f \in Frames, Operate(f) PROVE Own'
  BY <1>0, <1>12 DEF Operate
<1>13. ASSUME NEW f \in Frames, Release(f) PROVE Own'
  BY <1>0, <1>13 DEF Release
<1>14. ASSUME NEW f \in Frames, TryAcquire(f) PROVE Own'
  BY <1>0, <1>14 DEF TryAcquire
<1>15. ASSUME NEW f \in Frames, Await(f) PROVE Own'
  BY <1>0, <1>15 DEF Await
<1>16. ASSUME NEW f \in Frames, Shutdown(f) PROVE Own'
  BY <1>0, <1>16 DEF Shutdown
<1>17. ASSUME NEW f \in Frames, Drain(f) PROVE Own'
  BY <1>0, <1>17 DEF Drain
<1>18. ASSUME NEW f \in Frames, Finalize(f) PROVE Own'
  BY <1>0, <1>18 DEF Finalize
<1>19. ASSUME NEW f \in Frames, SetFinalized(f) PROVE Own'
  BY <1>0, <1>19 DEF SetFinalized
<1>20. ASSUME NEW f \in Frames, Unregister(f) PROVE Own'
  BY <1>0, <1>20 DEF Unregister
<1>21. ASSUME NEW f \in Frames, Interrupted(f) PROVE Own'
  BY <1>0, <1>21 DEF Interrupted
<1>22. ASSUME NEW f \in Frames, NEW l \in Libraries, Import(f, l) PROVE Own'
  BY <1>0, <1>22 DEF Import
<1>23. ASSUME NEW f \in Frames, NEW l \in Libraries, CollectMemory(f, l) PROVE Own'
  BY <1>0, <1>23 DEF CollectMemory
<1>24. CASE ShutdownApi
  BY <1>0, <1>24 DEF ShutdownApi
<1>25. CASE LockList
  BY <1>0, <1>25 DEF LockList
<1>26. CASE NextModule
  BY <1>0, <1>26 DEF NextModule
<1>27. CASE TellModule
  BY <1>0, <1>27 DEF TellModule
<1>28. CASE Told
  BY <1>0, <1>28 DEF Told
<1>29. CASE ReleaseModule
  BY <1>0, <1>29 DEF ReleaseModule
<1>30. CASE UnlockList
  BY <1>0, <1>30 DEF UnlockList
<1>31. CASE JoinThreads
  BY <1>0, <1>31 DEF JoinThreads
<1>32. CASE Again
  BY <1>0, <1>32 DEF Again
<1>33. CASE QuitApi
  BY <1>0, <1>33 DEF QuitApi
<1>34. ASSUME NEW m \in Modules, Unload(m) PROVE Own'
  BY <1>0, <1>34 DEF Unload
<1>q. QED
  BY <1>1, <1>2, <1>3, <1>4, <1>5, <1>6, <1>7, <1>8, <1>9, <1>10, <1>11, <1>12, <1>13,
     <1>14, <1>15, <1>16, <1>17, <1>18, <1>19, <1>20, <1>21, <1>22, <1>23, <1>24, <1>25,
     <1>26, <1>27, <1>28, <1>29, <1>30, <1>31, <1>32, <1>33, <1>34
     DEF Next, Proceed, Walk

(* The map is emptied when no call is in progress. *)
LEMMA StepPhases ==
  ASSUME IInv, Next PROVE Phases'
<1>0. Types /\ Mapped /\ Nested /\ Phases
  BY DEF IInv, Control
<1>c. \A f \in Frames :
        /\ pc[f] # "out" => on[f] \in Libraries
        /\ pc[f] \notin {"out", "open", "new"} => mod[f] \in made /\ mod[f] \in Modules
        /\ pc[f] \in {"out", "open", "new"} => mod[f] = NULL
  BY CallFacts DEF IInv, Control
<1> USE BasicFacts DEF Go, Bind, Return, SetFlag, ClearFlag, AddTicket, DropTicket,
                       Call, Below, Above, BeingInitialized, Initialized, Finalizing,
                       Step, objects, list, frames, finalize, Types, FrameTypes,
                       MainTypes, ObjectTypes, Mapped, Phases, Ending, ModuleOrNull
<1>1. ASSUME NEW f \in Frames, Lookup(f) PROVE Phases'
  BY <1>0, <1>1 DEF Lookup
<1>2. ASSUME NEW f \in Frames, New(f) PROVE Phases'
  <2>1. pc[f] = "new" /\ pc' = [pc EXCEPT ![f] = "insert"] /\ made \subseteq made'
    BY <1>2 DEF New
  <2>2. UNCHANGED <<alone, main, map, unloading>>
    BY <1>2 DEF New
  <2>3. /\ main.at # "quit" /\ (alone => f[1] = Main)
        /\ main.at \notin {"run", "collect", "quit"} => f[1] # Main
    BY <1>0, <2>1
  <2> QED
    BY <1>0, <2>1, <2>2, <2>3
<1>3. ASSUME NEW f \in Frames, NotFound(f) PROVE Phases'
  BY <1>0, <1>3 DEF NotFound
<1>4. ASSUME NEW f \in Frames, Insert(f) PROVE Phases'
  BY <1>0, <1>4 DEF Insert
<1>5. ASSUME NEW f \in Frames, Acquire(f) PROVE Phases'
  BY <1>0, <1>5 DEF Acquire
<1>6. ASSUME NEW f \in Frames, Claim(f) PROVE Phases'
  BY <1>0, <1>6 DEF Claim
<1>7. ASSUME NEW f \in Frames, WakeUp(f) PROVE Phases'
  BY <1>0, <1>7 DEF WakeUp
<1>8. ASSUME NEW f \in Frames, InitSucceeds(f) PROVE Phases'
  BY <1>0, <1>8 DEF InitSucceeds
<1>9. ASSUME NEW f \in Frames, InitFails(f) PROVE Phases'
  BY <1>0, <1>9 DEF InitFails
<1>10. ASSUME NEW f \in Frames, Retract(f) PROVE Phases'
  BY <1>0, <1>10 DEF Retract
<1>11. ASSUME NEW f \in Frames, Register(f) PROVE Phases'
  BY <1>0, <1>11 DEF Register
<1>12. ASSUME NEW f \in Frames, Operate(f) PROVE Phases'
  BY <1>0, <1>12 DEF Operate
<1>13. ASSUME NEW f \in Frames, Release(f) PROVE Phases'
  BY <1>0, <1>13 DEF Release
<1>14. ASSUME NEW f \in Frames, TryAcquire(f) PROVE Phases'
  BY <1>0, <1>14 DEF TryAcquire
<1>15. ASSUME NEW f \in Frames, Await(f) PROVE Phases'
  BY <1>0, <1>15 DEF Await
<1>16. ASSUME NEW f \in Frames, Shutdown(f) PROVE Phases'
  BY <1>0, <1>16 DEF Shutdown
<1>17. ASSUME NEW f \in Frames, Drain(f) PROVE Phases'
  BY <1>0, <1>17 DEF Drain
<1>18. ASSUME NEW f \in Frames, Finalize(f) PROVE Phases'
  BY <1>0, <1>18 DEF Finalize
<1>19. ASSUME NEW f \in Frames, SetFinalized(f) PROVE Phases'
  BY <1>0, <1>19 DEF SetFinalized
<1>20. ASSUME NEW f \in Frames, Unregister(f) PROVE Phases'
  <2>1. pc[f] = "unregister" /\ on[f] \in Libraries
    BY <1>c, <1>20 DEF Unregister
  <2>2. CASE map[on[f]] = NULL
    BY <1>0, <1>20, <2>1, <2>2 DEF Unregister
  <2>3. CASE map[on[f]] # NULL
    BY <1>0, <1>20, <2>1, <2>3 DEF Unregister
  <2> QED
    BY <2>2, <2>3
<1>21. ASSUME NEW f \in Frames, Interrupted(f) PROVE Phases'
  BY <1>0, <1>21 DEF Interrupted
<1>22. ASSUME NEW f \in Frames, NEW l \in Libraries, Import(f, l) PROVE Phases'
  <2>1. CASE f[2] > 1
    <3>1. Below(f) \in Frames /\ Below(f)[1] = f[1] /\ pc[Below(f)] = "init"
      BY <1>22, <2>1, FrameFacts DEF Import
    <3>2. /\ main.at # "quit"
          /\ alone => f[1] = Main
          /\ main.at \notin {"run", "collect", "quit"} => f[1] # Main
      BY <1>0, <3>1
    <3>3. /\ pc[f] = "out" /\ pc' = [pc EXCEPT ![f] = "open"]
          /\ UNCHANGED <<alone, main, map, made, unloading>>
      BY <1>22, <2>1 DEF Import
    <3> QED
      BY <1>0, <3>2, <3>3
  <2>2. CASE ~(f[2] > 1)
    BY <1>0, <1>22, <2>2, FrameFacts DEF Import
  <2> QED
    BY <2>1, <2>2
<1>23. ASSUME NEW f \in Frames, NEW l \in Libraries, CollectMemory(f, l) PROVE Phases'
  BY <1>0, <1>23 DEF CollectMemory
<1>24. CASE ShutdownApi
  <2>1. \A f \in Frames : f[1] = Main => pc[f] = "out"
    BY <1>0, <1>24, MainOut DEF ShutdownApi
  <2> QED
    BY <1>0, <1>24, <2>1 DEF ShutdownApi
<1>25. CASE LockList
  BY <1>0, <1>25 DEF LockList
<1>26. CASE NextModule
  <2>1. CASE "SHUTDOWN" \in state[main.load]
    BY <1>0, <1>26, <2>1 DEF NextModule
  <2>2. CASE ~("SHUTDOWN" \in state[main.load])
    <3>1. main' = [at |-> "await", load |-> main.load, next |-> prev[main.load]]
      BY <1>0, <1>26, <2>2, NextLoad
    <3> QED
      BY <1>0, <1>26, <2>2, <3>1 DEF NextModule
  <2> QED
    BY <2>1, <2>2
<1>27. CASE TellModule
  BY <1>0, <1>27 DEF TellModule
<1>28. CASE Told
  BY <1>0, <1>28 DEF Told
<1>29. CASE ReleaseModule
  BY <1>0, <1>29 DEF ReleaseModule
<1>30. CASE UnlockList
  BY <1>0, <1>30 DEF UnlockList
<1>31. CASE JoinThreads
  BY <1>0, <1>31 DEF JoinThreads
<1>32. CASE Again
  <2>1. \A f \in Frames : f[1] = Main => pc[f] = "out"
    BY <1>0, <1>32, MainOut DEF Again
  <2> QED
    BY <1>0, <1>32, <2>1 DEF Again
<1>33. CASE QuitApi
  <2>1. \A f \in Frames : pc[f] = "out"
    BY <1>0, <1>33, MainOut DEF QuitApi
  <2> QED
    BY <1>0, <1>33, <2>1 DEF QuitApi
<1>34. ASSUME NEW m \in Modules, Unload(m) PROVE Phases'
  BY <1>0, <1>34 DEF Unload
<1>q. QED
  BY <1>1, <1>2, <1>3, <1>4, <1>5, <1>6, <1>7, <1>8, <1>9, <1>10, <1>11, <1>12, <1>13,
     <1>14, <1>15, <1>16, <1>17, <1>18, <1>19, <1>20, <1>21, <1>22, <1>23, <1>24, <1>25,
     <1>26, <1>27, <1>28, <1>29, <1>30, <1>31, <1>32, <1>33, <1>34
     DEF Next, Proceed, Walk

(* The flags keep their meaning, ... *)
LEMMA StepFlagsMean ==
  ASSUME IInv, Next PROVE FlagsMean'
<1>0. Types /\ Control /\ FlagsMean /\ FlagsKnown
  BY DEF IInv, Control
<1> USE BasicFacts DEF Go, Bind, Return, SetFlag, ClearFlag, AddTicket, DropTicket,
                       Call, Below, Above, BeingInitialized, Initialized, Finalizing,
                       Step, objects, list, frames, finalize, Types, FrameTypes,
                       ObjectTypes, ListTypes, MainTypes, FaultTypes, Control, Nested,
                       Mapped, Bound, Own, Phases, Using, Ticketed, Ending,
                       ModuleOrNull, FlagsMean, FlagsKnown
<1>1. ASSUME NEW f \in Frames, Lookup(f) PROVE FlagsMean'
  BY <1>0, <1>1 DEF Lookup
<1>2. ASSUME NEW f \in Frames, New(f) PROVE FlagsMean'
  BY <1>0, <1>2 DEF New
<1>3. ASSUME NEW f \in Frames, NotFound(f) PROVE FlagsMean'
  BY <1>0, <1>3 DEF NotFound
<1>4. ASSUME NEW f \in Frames, Insert(f) PROVE FlagsMean'
  BY <1>0, <1>4 DEF Insert
<1>5. ASSUME NEW f \in Frames, Acquire(f) PROVE FlagsMean'
  BY <1>0, <1>5 DEF Acquire
<1>6. ASSUME NEW f \in Frames, Claim(f) PROVE FlagsMean'
  BY <1>0, <1>6 DEF Claim
<1>7. ASSUME NEW f \in Frames, WakeUp(f) PROVE FlagsMean'
  BY <1>0, <1>7 DEF WakeUp
<1>8. ASSUME NEW f \in Frames, InitSucceeds(f) PROVE FlagsMean'
  BY <1>0, <1>8 DEF InitSucceeds
<1>9. ASSUME NEW f \in Frames, InitFails(f) PROVE FlagsMean'
  BY <1>0, <1>9 DEF InitFails
<1>10. ASSUME NEW f \in Frames, Retract(f) PROVE FlagsMean'
  BY <1>0, <1>10 DEF Retract
<1>11. ASSUME NEW f \in Frames, Register(f) PROVE FlagsMean'
  BY <1>0, <1>11 DEF Register
<1>12. ASSUME NEW f \in Frames, Operate(f) PROVE FlagsMean'
  BY <1>0, <1>12 DEF Operate
<1>13. ASSUME NEW f \in Frames, Release(f) PROVE FlagsMean'
  BY <1>0, <1>13 DEF Release
<1>14. ASSUME NEW f \in Frames, TryAcquire(f) PROVE FlagsMean'
  BY <1>0, <1>14 DEF TryAcquire
<1>15. ASSUME NEW f \in Frames, Await(f) PROVE FlagsMean'
  BY <1>0, <1>15 DEF Await
<1>16. ASSUME NEW f \in Frames, Shutdown(f) PROVE FlagsMean'
  BY <1>0, <1>16 DEF Shutdown
<1>17. ASSUME NEW f \in Frames, Drain(f) PROVE FlagsMean'
  BY <1>0, <1>17 DEF Drain
<1>18. ASSUME NEW f \in Frames, Finalize(f) PROVE FlagsMean'
  BY <1>0, <1>18 DEF Finalize
<1>19. ASSUME NEW f \in Frames, SetFinalized(f) PROVE FlagsMean'
  BY <1>0, <1>19 DEF SetFinalized
<1>20. ASSUME NEW f \in Frames, Unregister(f) PROVE FlagsMean'
  BY <1>0, <1>20 DEF Unregister
<1>21. ASSUME NEW f \in Frames, Interrupted(f) PROVE FlagsMean'
  BY <1>0, <1>21 DEF Interrupted
<1>22. ASSUME NEW f \in Frames, NEW l \in Libraries, Import(f, l) PROVE FlagsMean'
  BY <1>0, <1>22 DEF Import
<1>23. ASSUME NEW f \in Frames, NEW l \in Libraries, CollectMemory(f, l) PROVE FlagsMean'
  BY <1>0, <1>23 DEF CollectMemory
<1>24. CASE ShutdownApi
  BY <1>0, <1>24 DEF ShutdownApi
<1>25. CASE LockList
  BY <1>0, <1>25 DEF LockList
<1>26. CASE NextModule
  BY <1>0, <1>26 DEF NextModule
<1>27. CASE TellModule
  BY <1>0, <1>27 DEF TellModule
<1>28. CASE Told
  BY <1>0, <1>28 DEF Told
<1>29. CASE ReleaseModule
  BY <1>0, <1>29 DEF ReleaseModule
<1>30. CASE UnlockList
  BY <1>0, <1>30 DEF UnlockList
<1>31. CASE JoinThreads
  BY <1>0, <1>31 DEF JoinThreads
<1>32. CASE Again
  BY <1>0, <1>32 DEF Again
<1>33. CASE QuitApi
  BY <1>0, <1>33 DEF QuitApi
<1>34. ASSUME NEW m \in Modules, Unload(m) PROVE FlagsMean'
  BY <1>0, <1>34 DEF Unload
<1>q. QED
  BY <1>1, <1>2, <1>3, <1>4, <1>5, <1>6, <1>7, <1>8, <1>9, <1>10, <1>11, <1>12, <1>13,
     <1>14, <1>15, <1>16, <1>17, <1>18, <1>19, <1>20, <1>21, <1>22, <1>23, <1>24, <1>25,
     <1>26, <1>27, <1>28, <1>29, <1>30, <1>31, <1>32, <1>33, <1>34
     DEF Next, Proceed, Walk

(* ... and calls what they know of them. *)
LEMMA StepFlagsKnown ==
  ASSUME IInv, Next PROVE FlagsKnown'
<1>0. Types /\ Control /\ FlagsMean /\ FlagsKnown /\ OneInitializer
  BY DEF IInv, Control
<1> USE BasicFacts DEF Go, Bind, Return, SetFlag, ClearFlag, AddTicket, DropTicket,
                       Call, Below, Above, BeingInitialized, Initialized, Finalizing,
                       Step, objects, list, frames, finalize, Types, FrameTypes,
                       ObjectTypes, ListTypes, MainTypes, FaultTypes, Control, Nested,
                       Mapped, Bound, Own, Phases, Using, Ticketed, Ending,
                       ModuleOrNull, FlagsMean, FlagsKnown, OneInitializer
<1>1. ASSUME NEW f \in Frames, Lookup(f) PROVE FlagsKnown'
  BY <1>0, <1>1 DEF Lookup
<1>2. ASSUME NEW f \in Frames, New(f) PROVE FlagsKnown'
  BY <1>0, <1>2 DEF New
<1>3. ASSUME NEW f \in Frames, NotFound(f) PROVE FlagsKnown'
  BY <1>0, <1>3 DEF NotFound
<1>4. ASSUME NEW f \in Frames, Insert(f) PROVE FlagsKnown'
  <2>1. CASE map[on[f]] = NULL
    BY <1>0, <1>4, <2>1 DEF Insert
  <2>2. CASE ~(map[on[f]] = NULL)
    BY <1>0, <1>4, <2>2 DEF Insert
  <2> QED
    BY <2>1, <2>2
<1>5. ASSUME NEW f \in Frames, Acquire(f) PROVE FlagsKnown'
  BY <1>0, <1>5 DEF Acquire
<1>6. ASSUME NEW f \in Frames, Claim(f) PROVE FlagsKnown'
  BY <1>0, <1>6 DEF Claim
<1>7. ASSUME NEW f \in Frames, WakeUp(f) PROVE FlagsKnown'
  BY <1>0, <1>7 DEF WakeUp
<1>8. ASSUME NEW f \in Frames, InitSucceeds(f) PROVE FlagsKnown'
  BY <1>0, <1>8 DEF InitSucceeds
<1>9. ASSUME NEW f \in Frames, InitFails(f) PROVE FlagsKnown'
  BY <1>0, <1>9 DEF InitFails
<1>10. ASSUME NEW f \in Frames, Retract(f) PROVE FlagsKnown'
  BY <1>0, <1>10 DEF Retract
<1>11. ASSUME NEW f \in Frames, Register(f) PROVE FlagsKnown'
  BY <1>0, <1>11 DEF Register
<1>12. ASSUME NEW f \in Frames, Operate(f) PROVE FlagsKnown'
  BY <1>0, <1>12 DEF Operate
<1>13. ASSUME NEW f \in Frames, Release(f) PROVE FlagsKnown'
  BY <1>0, <1>13 DEF Release
<1>14. ASSUME NEW f \in Frames, TryAcquire(f) PROVE FlagsKnown'
  BY <1>0, <1>14 DEF TryAcquire
<1>15. ASSUME NEW f \in Frames, Await(f) PROVE FlagsKnown'
  BY <1>0, <1>15 DEF Await
<1>16. ASSUME NEW f \in Frames, Shutdown(f) PROVE FlagsKnown'
  BY <1>0, <1>16 DEF Shutdown
<1>17. ASSUME NEW f \in Frames, Drain(f) PROVE FlagsKnown'
  BY <1>0, <1>17 DEF Drain
<1>18. ASSUME NEW f \in Frames, Finalize(f) PROVE FlagsKnown'
  BY <1>0, <1>18 DEF Finalize
<1>19. ASSUME NEW f \in Frames, SetFinalized(f) PROVE FlagsKnown'
  BY <1>0, <1>19 DEF SetFinalized
<1>20. ASSUME NEW f \in Frames, Unregister(f) PROVE FlagsKnown'
  BY <1>0, <1>20 DEF Unregister
<1>21. ASSUME NEW f \in Frames, Interrupted(f) PROVE FlagsKnown'
  BY <1>0, <1>21 DEF Interrupted
<1>22. ASSUME NEW f \in Frames, NEW l \in Libraries, Import(f, l) PROVE FlagsKnown'
  BY <1>0, <1>22 DEF Import
<1>23. ASSUME NEW f \in Frames, NEW l \in Libraries, CollectMemory(f, l) PROVE FlagsKnown'
  BY <1>0, <1>23 DEF CollectMemory
<1>24. CASE ShutdownApi
  BY <1>0, <1>24 DEF ShutdownApi
<1>25. CASE LockList
  BY <1>0, <1>25 DEF LockList
<1>26. CASE NextModule
  <2>1. CASE "SHUTDOWN" \in state[main.load]
    BY <1>0, <1>26, <2>1 DEF NextModule
  <2>2. CASE ~("SHUTDOWN" \in state[main.load])
    <3>1. main' = [at |-> "await", load |-> main.load, next |-> prev[main.load]]
      BY <1>0, <1>26, <2>2, NextLoad
    <3> QED
      BY <1>0, <1>26, <2>2, <3>1 DEF NextModule
  <2> QED
    BY <2>1, <2>2
<1>27. CASE TellModule
  BY <1>0, <1>27 DEF TellModule
<1>28. CASE Told
  BY <1>0, <1>28 DEF Told
<1>29. CASE ReleaseModule
  BY <1>0, <1>29 DEF ReleaseModule
<1>30. CASE UnlockList
  BY <1>0, <1>30 DEF UnlockList
<1>31. CASE JoinThreads
  BY <1>0, <1>31 DEF JoinThreads
<1>32. CASE Again
  BY <1>0, <1>32 DEF Again
<1>33. CASE QuitApi
  BY <1>0, <1>33 DEF QuitApi
<1>34. ASSUME NEW m \in Modules, Unload(m) PROVE FlagsKnown'
  BY <1>0, <1>34 DEF Unload
<1>q. QED
  BY <1>1, <1>2, <1>3, <1>4, <1>5, <1>6, <1>7, <1>8, <1>9, <1>10, <1>11, <1>12, <1>13,
     <1>14, <1>15, <1>16, <1>17, <1>18, <1>19, <1>20, <1>21, <1>22, <1>23, <1>24, <1>25,
     <1>26, <1>27, <1>28, <1>29, <1>30, <1>31, <1>32, <1>33, <1>34
     DEF Next, Proceed, Walk

(* Who sets INITIALIZING initializes. *)
LEMMA StepOneInitializer ==
  ASSUME IInv, Next PROVE OneInitializer'
<1>0. Types /\ Control /\ FlagsKnown /\ OneInitializer
  BY DEF IInv, Control
<1> USE BasicFacts DEF Go, Bind, Return, SetFlag, ClearFlag, AddTicket, DropTicket,
                       Call, Below, Above, BeingInitialized, Initialized, Finalizing,
                       Step, objects, list, frames, finalize, Types, FrameTypes,
                       ObjectTypes, ListTypes, MainTypes, FaultTypes, Control, Nested,
                       Mapped, Bound, Own, Phases, Using, Ticketed, Ending,
                       ModuleOrNull, FlagsKnown, OneInitializer
<1>1. CASE UNCHANGED <<pc, on, mod, todo>>
  BY <1>0, <1>1
<1>2. ASSUME NEW f \in Frames, Lookup(f) PROVE OneInitializer'
  BY <1>0, <1>2 DEF Lookup
<1>3. ASSUME NEW f \in Frames, New(f) PROVE OneInitializer'
  BY <1>0, <1>3 DEF New
<1>4. ASSUME NEW f \in Frames, NotFound(f) PROVE OneInitializer'
  BY <1>0, <1>4 DEF NotFound
<1>5. ASSUME NEW f \in Frames, Insert(f) PROVE OneInitializer'
  BY <1>0, <1>5 DEF Insert
<1>6. ASSUME NEW f \in Frames, Acquire(f) PROVE OneInitializer'
  BY <1>0, <1>6 DEF Acquire
<1>7. ASSUME NEW f \in Frames, Claim(f) PROVE OneInitializer'
  BY <1>0, <1>7 DEF Claim
<1>8. ASSUME NEW f \in Frames, WakeUp(f) PROVE OneInitializer'
  BY <1>0, <1>8 DEF WakeUp
<1>9. ASSUME NEW f \in Frames, InitSucceeds(f) PROVE OneInitializer'
  BY <1>0, <1>9 DEF InitSucceeds
<1>10. ASSUME NEW f \in Frames, InitFails(f) PROVE OneInitializer'
  BY <1>0, <1>10 DEF InitFails
<1>11. ASSUME NEW f \in Frames, Retract(f) PROVE OneInitializer'
  BY <1>0, <1>11 DEF Retract
<1>12. ASSUME NEW f \in Frames, Register(f) PROVE OneInitializer'
  BY <1>0, <1>12 DEF Register
<1>13. ASSUME NEW f \in Frames, Operate(f) PROVE OneInitializer'
  BY <1>0, <1>13 DEF Operate
<1>14. ASSUME NEW f \in Frames, Release(f) PROVE OneInitializer'
  BY <1>0, <1>14 DEF Release
<1>15. ASSUME NEW f \in Frames, TryAcquire(f) PROVE OneInitializer'
  BY <1>0, <1>15 DEF TryAcquire
<1>16. ASSUME NEW f \in Frames, Await(f) PROVE OneInitializer'
  BY <1>0, <1>16 DEF Await
<1>17. ASSUME NEW f \in Frames, Shutdown(f) PROVE OneInitializer'
  BY <1>0, <1>17 DEF Shutdown
<1>18. ASSUME NEW f \in Frames, Drain(f) PROVE OneInitializer'
  BY <1>0, <1>18 DEF Drain
<1>19. ASSUME NEW f \in Frames, Finalize(f) PROVE OneInitializer'
  BY <1>0, <1>19 DEF Finalize
<1>20. ASSUME NEW f \in Frames, SetFinalized(f) PROVE OneInitializer'
  BY <1>0, <1>20 DEF SetFinalized
<1>21. ASSUME NEW f \in Frames, Unregister(f) PROVE OneInitializer'
  BY <1>0, <1>21 DEF Unregister
<1>22. ASSUME NEW f \in Frames, Interrupted(f) PROVE OneInitializer'
  BY <1>0, <1>22 DEF Interrupted
<1>23. ASSUME NEW f \in Frames, NEW l \in Libraries, Import(f, l) PROVE OneInitializer'
  BY <1>0, <1>23 DEF Import
<1>24. ASSUME NEW f \in Frames, NEW l \in Libraries, CollectMemory(f, l) PROVE OneInitializer'
  BY <1>0, <1>24 DEF CollectMemory
<1>25. ASSUME NEW m \in Modules, Unload(m) PROVE OneInitializer'
  BY <1>0, <1>25 DEF Unload
<1> QED
  BY <1>1, <1>2, <1>3, <1>4, <1>5, <1>6, <1>7, <1>8, <1>9, <1>10, <1>11, <1>12, <1>13,
     <1>14, <1>15, <1>16, <1>17, <1>18, <1>19, <1>20, <1>21, <1>22, <1>23, <1>24, <1>25,
     Changes
     DEF Proceed

(* Calls that have a ticket are counted by Cardinality. *)
LEMMA HoldersFinite ==
  \A m : IsFiniteSet(Holders(m)) /\ Cardinality(Holders(m)) \in Nat
<1>1. IsFiniteSet(Actors)
  BY ConstantsOK, FS_AddElement DEF Actors
<1>2. IsFiniteSet(1 .. MaxDepth)
  BY ConstantsOK, FS_Interval
<1>3. IsFiniteSet(Frames)
  BY <1>1, <1>2, FS_Product DEF Frames
<1> QED
  BY <1>3, FS_Subset, FS_CardinalityType DEF Holders

(* No call takes or gives back a ticket. *)
Recounted ==
  /\ UNCHANGED <<tickets, lost>>
  /\ \A m \in Modules : Holders(m)' = Holders(m) /\ Told1(m)' = Told1(m)

(* A call that gets a ticket, and one that gives its ticket back. *)
LEMMA Joined ==
  ASSUME NEW m, NEW f, f \notin Holders(m), Holders(m)' = Holders(m) \cup {f}
  PROVE  Cardinality(Holders(m)') = Cardinality(Holders(m)) + 1
BY HoldersFinite, FS_AddElement

LEMMA Left ==
  ASSUME NEW m, NEW f, f \in Holders(m), Holders(m)' = Holders(m) \ {f}
  PROVE  Cardinality(Holders(m)') = Cardinality(Holders(m)) - 1
BY HoldersFinite, FS_RemoveElement

(* Each step counts the tickets. *)
LEMMA StepTicketsCounted ==
  ASSUME IInv, Next PROVE TicketsCounted'
<1>0. Types /\ TicketsCounted
  BY DEF IInv
<1>c. \A f \in Frames :
        pc[f] \notin {"out", "open", "new"} => mod[f] \in Modules
  BY CallFacts DEF IInv, Control
<1>m. main.at \in {"await", "handle", "told"} => main.load \in Modules
  BY DEF IInv, Types, Control, Phases, MainTypes, ModuleOrNull
<1>f. \A m \in Modules : Cardinality(Holders(m)) \in Nat /\ lost[m] \in Int
  BY <1>0, HoldersFinite DEF Types, FaultTypes
<1> USE BasicFacts DEF Go, Bind, Return, SetFlag, ClearFlag, AddTicket, DropTicket,
                       Call, BeingInitialized, Initialized, Finalizing, Step, objects,
                       list, frames, finalize, Types, FrameTypes, ObjectTypes,
                       MainTypes, FaultTypes, Ticketed
<1>1. ASSUME NEW f \in Frames, Lookup(f) PROVE Recounted
  BY <1>0, <1>1 DEF Lookup, Recounted, Holders, Told1, Telling
<1>2. ASSUME NEW f \in Frames, New(f) PROVE Recounted
  BY <1>0, <1>2 DEF New, Recounted, Holders, Told1, Telling
<1>3. ASSUME NEW f \in Frames, NotFound(f) PROVE Recounted
  BY <1>0, <1>3 DEF NotFound, Recounted, Holders, Told1, Telling
<1>4. ASSUME NEW f \in Frames, Insert(f) PROVE Recounted
  BY <1>0, <1>4 DEF Insert, Recounted, Holders, Told1, Telling
<1>5. ASSUME NEW f \in Frames, Acquire(f) PROVE TicketsCounted'
  <2>1. CASE "SHUTDOWN" \in state[mod[f]]
    <3>1. \A m \in Modules : Holders(m)' = Holders(m)
      BY <1>0, <1>5, <2>1 DEF Acquire, Holders
    <3> QED
      BY <1>0, <1>5, <2>1, <3>1 DEF Acquire, TicketsCounted, Told1, Telling
  <2>2. CASE "SHUTDOWN" \notin state[mod[f]]
    <3>1. ASSUME NEW m \in Modules, m = mod[f]
          PROVE  Cardinality(Holders(m)') = Cardinality(Holders(m)) + 1
      <4>1. f \notin Holders(m) /\ Holders(m)' = Holders(m) \cup {f}
        BY <1>0, <1>c, <1>5, <2>2, <3>1 DEF Acquire, Holders
      <4> QED
        BY <4>1, Joined
    <3>2. \A m \in Modules : m # mod[f] => Holders(m)' = Holders(m)
      BY <1>0, <1>c, <1>5, <2>2 DEF Acquire, Holders
    <3> QED
      BY <1>0, <1>c, <1>5, <2>2, <1>f, <3>1, <3>2
         DEF Acquire, TicketsCounted, Told1, Telling
  <2> QED
    BY <2>1, <2>2
<1>6. ASSUME NEW f \in Frames, Claim(f) PROVE Recounted
  BY <1>0, <1>6 DEF Claim, Recounted, Holders, Told1, Telling
<1>7. ASSUME NEW f \in Frames, WakeUp(f) PROVE Recounted
  BY <1>0, <1>7 DEF WakeUp, Recounted, Holders, Told1, Telling
<1>8. ASSUME NEW f \in Frames, InitSucceeds(f) PROVE Recounted
  BY <1>0, <1>8 DEF InitSucceeds, Recounted, Holders, Told1, Telling
<1>9. ASSUME NEW f \in Frames, InitFails(f) PROVE TicketsCounted'
  <2>1. ASSUME NEW m \in Modules, m = mod[f]
        PROVE  Cardinality(Holders(m)') = Cardinality(Holders(m)) - 1
    <3>1. f \in Holders(m) /\ Holders(m)' = Holders(m) \ {f}
      BY <1>0, <1>c, <1>9, <2>1 DEF InitFails, Holders
    <3> QED
      BY <3>1, Left
  <2>2. \A m \in Modules : m # mod[f] => Holders(m)' = Holders(m)
    BY <1>0, <1>c, <1>9 DEF InitFails, Holders
  <2> QED
    BY <1>0, <1>c, <1>9, <1>f, <2>1, <2>2 DEF InitFails, TicketsCounted, Told1, Telling
<1>10. ASSUME NEW f \in Frames, Retract(f) PROVE Recounted
  BY <1>0, <1>10 DEF Retract, Recounted, Holders, Told1, Telling
<1>11. ASSUME NEW f \in Frames, Register(f) PROVE Recounted
  BY <1>0, <1>11 DEF Register, Recounted, Holders, Told1, Telling
<1>12. ASSUME NEW f \in Frames, Operate(f) PROVE Recounted
  BY <1>0, <1>12 DEF Operate, Recounted, Holders, Told1, Telling
<1>13. ASSUME NEW f \in Frames, Release(f) PROVE TicketsCounted'
  <2>1. ASSUME NEW m \in Modules, m = mod[f]
        PROVE  Cardinality(Holders(m)') = Cardinality(Holders(m)) - 1
    <3>1. f \in Holders(m) /\ Holders(m)' = Holders(m) \ {f}
      BY <1>0, <1>c, <1>13, <2>1 DEF Release, Holders
    <3> QED
      BY <3>1, Left
  <2>2. \A m \in Modules : m # mod[f] => Holders(m)' = Holders(m)
    BY <1>0, <1>c, <1>13 DEF Release, Holders
  <2> QED
    BY <1>0, <1>c, <1>13, <1>f, <2>1, <2>2 DEF Release, TicketsCounted, Told1, Telling
<1>14. ASSUME NEW f \in Frames, TryAcquire(f) PROVE TicketsCounted'
  <2>1. CASE "SHUTDOWN" \in state[mod[f]]
    <3>1. \A m \in Modules : Holders(m)' = Holders(m)
      BY <1>0, <1>14, <2>1 DEF TryAcquire, Holders
    <3> QED
      BY <1>0, <1>14, <2>1, <3>1 DEF TryAcquire, TicketsCounted, Told1, Telling
  <2>2. CASE "SHUTDOWN" \notin state[mod[f]]
    <3>1. ASSUME NEW m \in Modules, m = mod[f]
          PROVE  Cardinality(Holders(m)') = Cardinality(Holders(m)) + 1
      <4>1. f \notin Holders(m) /\ Holders(m)' = Holders(m) \cup {f}
        BY <1>0, <1>c, <1>14, <2>2, <3>1 DEF TryAcquire, Holders
      <4> QED
        BY <4>1, Joined
    <3>2. \A m \in Modules : m # mod[f] => Holders(m)' = Holders(m)
      BY <1>0, <1>c, <1>14, <2>2 DEF TryAcquire, Holders
    <3> QED
      BY <1>0, <1>c, <1>14, <2>2, <1>f, <3>1, <3>2
         DEF TryAcquire, TicketsCounted, Told1, Telling
  <2> QED
    BY <2>1, <2>2
<1>15. ASSUME NEW f \in Frames, Await(f) PROVE Recounted
  BY <1>0, <1>15 DEF Await, Recounted, Holders, Told1, Telling
<1>16. ASSUME NEW f \in Frames, Shutdown(f) PROVE Recounted
  BY <1>0, <1>16 DEF Shutdown, Recounted, Holders, Told1, Telling
<1>17. ASSUME NEW f \in Frames, Drain(f) PROVE Recounted
  BY <1>0, <1>17 DEF Drain, Recounted, Holders, Told1, Telling
<1>18. ASSUME NEW f \in Frames, Finalize(f) PROVE Recounted
  BY <1>0, <1>18 DEF Finalize, Recounted, Holders, Told1, Telling
<1>19. ASSUME NEW f \in Frames, SetFinalized(f) PROVE Recounted
  BY <1>0, <1>19 DEF SetFinalized, Recounted, Holders, Told1, Telling
<1>20. ASSUME NEW f \in Frames, Unregister(f) PROVE Recounted
  BY <1>0, <1>20 DEF Unregister, Recounted, Holders, Told1, Telling
<1>21. ASSUME NEW f \in Frames, Interrupted(f) PROVE TicketsCounted'
  <2>1. ASSUME NEW m \in Modules, m = mod[f]
        PROVE  Cardinality(Holders(m)') = Cardinality(Holders(m)) - 1
    <3>1. f \in Holders(m) /\ Holders(m)' = Holders(m) \ {f}
      BY <1>0, <1>c, <1>21, <2>1 DEF Interrupted, Holders
    <3> QED
      BY <3>1, Left
  <2>2. \A m \in Modules : m # mod[f] => Holders(m)' = Holders(m)
    BY <1>0, <1>c, <1>21 DEF Interrupted, Holders
  <2>3. UNCHANGED <<tickets, main>> /\ lost' = [lost EXCEPT ![mod[f]] = @ + 1]
    BY <1>21 DEF Interrupted
  <2>4. \A m \in Modules : Told1(m)' = Told1(m) /\ Told1(m) \in Int
    BY <2>3 DEF Told1, Telling
  <2>5. \A m \in Modules : lost'[m] = IF m = mod[f] THEN lost[m] + 1 ELSE lost[m]
    BY <1>0, <2>3
  <2> QED
    BY <1>0, <1>f, <2>1, <2>2, <2>3, <2>4, <2>5 DEF TicketsCounted
<1>22. ASSUME NEW f \in Frames, NEW l \in Libraries, Import(f, l) PROVE Recounted
  BY <1>0, <1>22 DEF Import, Recounted, Holders, Told1, Telling
<1>23. ASSUME NEW f \in Frames, NEW l \in Libraries, CollectMemory(f, l) PROVE Recounted
  BY <1>0, <1>23 DEF CollectMemory, Recounted, Holders, Told1, Telling
<1>24. ASSUME ShutdownApi PROVE Recounted
  BY <1>0, <1>24 DEF ShutdownApi, Recounted, Holders, Told1, Telling
<1>25. ASSUME LockList PROVE Recounted
  BY <1>0, <1>25 DEF LockList, Recounted, Holders, Told1, Telling
<1>26. CASE NextModule
  <2>1. \A m \in Modules : Holders(m)' = Holders(m)
    BY <1>26 DEF NextModule, Holders
  <2>2. CASE "SHUTDOWN" \in state[main.load]
    BY <1>0, <1>26, <2>1, <2>2 DEF NextModule, TicketsCounted, Told1, Telling
  <2>3. CASE "SHUTDOWN" \notin state[main.load]
    <3>1. main' = [at |-> "await", load |-> main.load, next |-> prev[main.load]]
      BY <1>0, <1>26, <2>3, NextLoad
    <3>2. main.at = "walk" /\ AddTicket(main.load) /\ UNCHANGED lost /\ main.load \in Modules
      BY <1>0, <1>26, <2>3 DEF NextModule, ModuleOrNull
    <3> QED
      BY <1>0, <1>f, <2>1, <3>1, <3>2 DEF TicketsCounted, Told1, Telling
  <2> QED
    BY <2>2, <2>3
<1>27. ASSUME TellModule PROVE Recounted
  BY <1>0, <1>27 DEF TellModule, Recounted, Holders, Told1, Telling
<1>28. ASSUME Told PROVE Recounted
  BY <1>0, <1>28 DEF Told, Recounted, Holders, Told1, Telling
<1>29. CASE ReleaseModule
  <2>1. \A m \in Modules : Holders(m)' = Holders(m)
    BY <1>29 DEF ReleaseModule, Holders
  <2>2. main.at = "told" /\ main.load \in Modules /\ main'.at = "walk"
    BY <1>m, <1>29 DEF ReleaseModule
  <2> QED
    BY <1>0, <1>f, <1>29, <2>1, <2>2 DEF ReleaseModule, TicketsCounted, Told1, Telling
<1>30. ASSUME UnlockList PROVE Recounted
  BY <1>0, <1>30 DEF UnlockList, Recounted, Holders, Told1, Telling
<1>31. ASSUME JoinThreads PROVE Recounted
  BY <1>0, <1>31 DEF JoinThreads, Recounted, Holders, Told1, Telling
<1>32. ASSUME Again PROVE Recounted
  BY <1>0, <1>32 DEF Again, Recounted, Holders, Told1, Telling
<1>33. ASSUME QuitApi PROVE Recounted
  BY <1>0, <1>33 DEF QuitApi, Recounted, Holders, Told1, Telling
<1>34. ASSUME NEW u \in Modules, Unload(u) PROVE Recounted
  BY <1>0, <1>34 DEF Unload, Recounted, Holders, Told1, Telling
<1>r. Recounted => TicketsCounted'
  BY <1>0 DEF TicketsCounted, Recounted
<1>q. QED
  BY <1>r, <1>1, <1>2, <1>3, <1>4, <1>5, <1>6, <1>7, <1>8, <1>9, <1>10, <1>11, <1>12,
     <1>13, <1>14, <1>15, <1>16, <1>17, <1>18, <1>19, <1>20, <1>21, <1>22, <1>23, <1>24,
     <1>25, <1>26, <1>27, <1>28, <1>29, <1>30, <1>31, <1>32, <1>33, <1>34
     DEF Next, Proceed, Walk

(* The initial states have the invariant, ... *)
LEMMA Starts ==
  ASSUME Init PROVE IInv
<1> USE BasicFacts DEF Init
<1>1. Types
  <2>1. FrameTypes /\ ObjectTypes /\ ListTypes
    BY DEF FrameTypes, ObjectTypes, ListTypes, ModuleOrNull, Places
  <2>2. MainTypes
    <3>1. main \in [at : {"run", "lock", "walk", "await", "handle", "told", "join", "collect", "quit"},
                    load : ModuleOrNull, next : ModuleOrNull]
      BY DEF ModuleOrNull
    <3>2. order \in BOOLEAN /\ locked \in BOOLEAN /\ alone \in BOOLEAN
      OBVIOUS
    <3>3. rounds \in 0 .. MaxRounds
      OBVIOUS
    <3> QED
      BY <3>1, <3>2, <3>3 DEF MainTypes
  <2>3. FaultTypes
    BY DEF FaultTypes
  <2> QED
    BY <2>1, <2>2, <2>3 DEF Types
<1>2. Control
  BY DEF Control, Nested, Mapped, Bound, Own, Phases, Using, Ticketed, Ending
<1>3. FlagsMean /\ FlagsKnown /\ OneInitializer
  BY DEF FlagsMean, FlagsKnown, OneInitializer, Ending
<1>4. TicketsCounted
  <2>1. \A m \in Modules : Holders(m) = {}
    BY DEF Holders, Ticketed
  <2>2. \A m \in Modules : Told1(m) = 0 /\ tickets[m] = 0 /\ lost[m] = 0
    BY DEF Told1, Telling
  <2>3. \A m \in Modules : Cardinality(Holders(m)) = 0
    BY <2>1, FS_EmptySet
  <2> HIDE DEF Init
  <2> QED
    BY <2>2, <2>3 DEF TicketsCounted
<1> QED
  BY <1>1, <1>2, <1>3, <1>4 DEF IInv

(* ... every step keeps it, ... *)
LEMMA Steps ==
  ASSUME IInv, [Next]_vars PROVE IInv'
<1>1. CASE Next
  <2>1. Types'
    BY <1>1, StepFrameTypes, StepObjectTypes, StepListTypes, StepMainTypes,
       StepFaultTypes
       DEF Types
  <2>2. Control'
    BY <1>1, StepNested, StepMapped, StepBound, StepOwn, StepPhases DEF Control
  <2> QED
    BY <1>1, <2>1, <2>2, StepFlagsMean, StepFlagsKnown, StepOneInitializer,
       StepTicketsCounted
    DEF IInv
<1>2. CASE UNCHANGED vars
  <2>1. Types' /\ Control'
    BY <1>2 DEF IInv, vars, objects, list, frames, finalize, Types, FrameTypes,
                ObjectTypes,
                ListTypes, MainTypes, FaultTypes, Control, Nested, Mapped, Bound, Own, Phases
  <2>2. FlagsMean' /\ FlagsKnown' /\ OneInitializer'
    BY <1>2 DEF IInv, vars, objects, list, frames, finalize, FlagsMean, FlagsKnown,
                OneInitializer
  <2>3. TicketsCounted'
    BY <1>2 DEF IInv, vars, objects, list, frames, finalize, TicketsCounted, Holders,
                Told1, Telling
  <2> QED
    BY <2>1, <2>2, <2>3 DEF IInv
<1> QED
  BY <1>1, <1>2

(* ... and so every reachable state has it. *)
THEOREM Invariance == Spec => []IInv
BY Starts, Steps, PTL DEF Spec

(* dm_tickets are the calls that use the module, the one of the finalization *)
(* and the ones that were lost.                                              *)
THEOREM TicketsCorrect == Spec => []TicketsExact
<1>1. IInv => TicketsExact
  <2> SUFFICES ASSUME IInv, NEW m \in Modules
               PROVE  tickets[m] = Cardinality({f \in Frames : mod[f] = m /\ pc[f] \in
                        {"claim", "sleep", "init", "register", "inside", "release", "await", "handle"}})
                        + (IF Telling /\ main.load = m THEN 1 ELSE 0) + lost[m]
    BY DEF TicketsExact
  <2> QED
    BY DEF IInv, TicketsCounted, Holders, Ticketed, Told1
<1> QED
  BY <1>1, Invariance, PTL

(* Every variable has its type; dm_tickets are never negative. *)
THEOREM TypeCorrect == Spec => []TypeOK
<1>1. IInv => TypeOK
  <2> SUFFICES ASSUME IInv PROVE TypeOK
    OBVIOUS
  <2>1. tickets \in [Modules -> Nat]
    <3>1. ASSUME NEW m \in Modules PROVE tickets[m] \in Nat
      <4>1. lost[m] \in Nat /\ Told1(m) \in Nat /\ Cardinality(Holders(m)) \in Nat
        BY HoldersFinite DEF IInv, Types, FaultTypes, Told1
      <4> QED
        BY <4>1 DEF IInv, TicketsCounted
    <3> QED
      BY <3>1 DEF IInv, Types, ObjectTypes
  <2> QED
    BY <2>1 DEF IInv, Types, FrameTypes, ObjectTypes, ListTypes, MainTypes, FaultTypes,
                TypeOK
<1> QED
  BY <1>1, Invariance, PTL

(* At most one call of a library is in INITIALIZE or FINALIZE: initializations *)
(* are of the map's object, and who finalizes is alone with all of them.       *)
LEMMA OneEvent ==
  ASSUME IInv, NEW l \in Libraries, NEW f \in In(l, {"init", "finalize"}),
         NEW g \in In(l, {"init", "finalize"})
  PROVE  f = g
<1>1. f \in Frames /\ g \in Frames /\ on[f] = l /\ on[g] = l
  BY DEF In
<1>2. CASE pc[f] = "init" /\ pc[g] = "init"
  BY <1>1, <1>2 DEF IInv, Control, Bound, OneInitializer, Using, Ticketed
<1>3. CASE pc[f] = "finalize" \/ pc[g] = "finalize"
  <2>1. main.at = "quit"
    BY <1>1, <1>3 DEF IInv, FlagsKnown, Ending
  <2> QED
    BY <1>1, <2>1 DEF IInv, Control, Phases, In
<1> QED
  BY <1>1, <1>2, <1>3 DEF In

(* The events of DeeDex_Main come in order, and the operations between the *)
(* first and the last.                                                     *)
THEOREM EventsCorrect == Spec => []EventsInOrder
<1>1. ASSUME IInv PROVE EventsInOrder
  <2> SUFFICES ASSUME NEW l \in Libraries
      PROVE LET Some(flags) == \E m \in Modules : m[1] = l /\ flags \subseteq state[m]
                initializing == In(l, {"init"})
                finalizing == In(l, {"finalize"})
                finalized == Some({"INITIALIZED", "FINALIZED"})
            IN /\ Cardinality(initializing \cup finalizing) <= 1
               /\ initializing # {} => ~Some({"INITIALIZED"})
               /\ finalizing # {} => Some({"INITIALIZED"}) /\ ~finalized
               /\ In(l, {"inside", "handle"}) # {} \/ (main.at = "handle" /\ main.load[1] = l)
                    => Some({"INITIALIZED"}) /\ ~finalized /\ finalizing = {}
    BY DEF EventsInOrder
  <2> DEFINE Some(flags) == \E m \in Modules : m[1] = l /\ flags \subseteq state[m]
             both == In(l, {"init"}) \cup In(l, {"finalize"})
             finalized == Some({"INITIALIZED", "FINALIZED"})
  <2>0. Types /\ Control /\ FlagsMean /\ FlagsKnown
    BY <1>1 DEF IInv
  <2>1. Cardinality(both) <= 1
    <3>1. both = In(l, {"init", "finalize"})
      BY DEF In
    <3>2. CASE both = {}
      BY <3>2, FS_EmptySet
    <3>3. CASE both # {}
      <4>1. PICK f \in both : both = {f}
        BY <1>1, <3>1, <3>3, OneEvent
      <4> QED
        BY <4>1, FS_Singleton
    <3> QED
      BY <3>2, <3>3
  <2>2. ASSUME NEW f \in In(l, {"init"}) PROVE ~Some({"INITIALIZED"})
    <3>1. f \in Frames /\ pc[f] = "init" /\ on[f] = l /\ mod[f] = map[l] /\ main.at # "quit"
      BY <2>0, <2>2 DEF In, Control, Bound, Phases, Using, Ticketed, Ending
    <3> QED
      BY <2>0, <3>1 DEF FlagsMean, FlagsKnown
  <2>3. ASSUME NEW f \in In(l, {"finalize"})
        PROVE  main.at = "quit" /\ Some({"INITIALIZED"}) /\ ~finalized
    <3>1. f \in Frames /\ pc[f] = "finalize" /\ on[f] = l
      BY <2>3 DEF In
    <3>2. /\ mod[f] \in Modules /\ mod[f][1] = l
          /\ "INITIALIZED" \in state[mod[f]] /\ "FINALIZED" \notin state[mod[f]]
      BY <2>0, <3>1 DEF Types, ObjectTypes, Control, Own, FlagsKnown, Ending
    <3>3. main.at = "quit"
      BY <2>0, <3>1, <3>2 DEF FlagsKnown, Ending
    <3> QED
      BY <2>0, <3>2, <3>3 DEF FlagsMean
  <2>4. ASSUME NEW m \in Modules, m[1] = l, "INITIALIZED" \in state[m], main.at # "quit"
        PROVE  Some({"INITIALIZED"}) /\ ~finalized /\ In(l, {"finalize"}) = {}
    BY <2>0, <2>3, <2>4 DEF FlagsMean
  <2>5. ASSUME NEW f \in In(l, {"inside", "handle"})
        PROVE  \E m \in Modules : m[1] = l /\ "INITIALIZED" \in state[m] /\ main.at # "quit"
    <3>1. f \in Frames /\ pc[f] \in {"inside", "handle"} /\ on[f] = l
      BY <2>5 DEF In
    <3>2. mod[f] = map[l] /\ map[l] # NULL /\ "INITIALIZED" \in state[mod[f]]
      BY <2>0, <3>1 DEF Control, Bound, FlagsKnown, Using, Ticketed
    <3>3. map[l] \in Modules /\ map[l][1] = l /\ main.at # "quit"
      BY <2>0, <3>2 DEF Types, ObjectTypes, Control, Mapped, Phases
    <3> QED
      BY <3>2, <3>3
  <2>6. main.at = "handle" => main.load \in Modules /\ "INITIALIZED" \in state[main.load]
    BY <2>0 DEF Types, MainTypes, Control, Phases, FlagsKnown, ModuleOrNull
  <2> QED
    BY <2>1, <2>2, <2>3, <2>4, <2>5, <2>6
<1> QED
  BY <1>1, Invariance, PTL

----------------------------------------------------------------------------
(***************************************************************************)
(* _dex_init_list has every initialized object, in both directions,        *)
(* whatever the order in which they leave it, and the place of the         *)
(* finalization in it stays good.  The argument: the objects have ages,    *)
(* and prev leads from each to the next older one; an object that is       *)
(* registered gets a new age, and one that leaves the list leaves the ages *)
(* of the others alone.  That a walk along prev meets all of them is shown *)
(* by induction over its length.                                           *)
(***************************************************************************)

(* prev leads from the last object to older and older ones, ... *)
Ages(age) ==
  /\ age \in [Modules -> Nat]
  /\ \A m, o \in Registered : age[m] = age[o] => m = o
  /\ \A m \in Registered :
       /\ prev[m] # NULL => prev[m] \in Registered /\ age[prev[m]] < age[m]
       /\ \A o \in Registered : age[o] < age[m] => prev[m] # NULL /\ age[o] <= age[prev[m]]
  /\ last = NULL => Registered = {}
  /\ last # NULL => last \in Registered /\ \A o \in Registered : age[o] <= age[last]

(* ... and next back, ... *)
Linked ==
  /\ \A m, o \in Registered : prev[m] = o <=> next[o] = m
  /\ \A m \in Registered : next[m] \in Registered \cup {NULL}
  /\ last # NULL => next[last] = NULL
  /\ \A m \in Modules \ Registered : prev[m] = NULL /\ next[m] = NULL

(* ... and the finalization is at one of them while it holds the lock, or  *)
(* tells a module to shut down.                                            *)
MainKnows ==
  /\ locked <=> main.at \in {"walk", "await", "told"}
  /\ main.load \in Registered \cup {NULL}
  /\ main.at \notin {"walk", "await", "handle", "told"} => main.load = NULL
  /\ Telling => main.load # NULL /\ main.next = prev[main.load]

(* One call registers an object, and one that is taken out is finalized.   *)
Registering ==
  /\ \A f, g \in Frames :
       pc[f] = "register" /\ pc[g] = "register" /\ mod[f] = mod[g] => f = g
  /\ \A f \in Frames : pc[f] = "unregister" => "FINALIZED" \in state[mod[f]]

ListInv ==
  /\ Registering
  /\ IsFiniteSet(Registered)
  /\ \E age : Ages(age)
  /\ Linked
  /\ MainKnows

(* The walk along prev, n objects far. *)
IsWalk(w, n) ==
  w = [i \in 1 .. n |-> IF i = 1 THEN last
                        ELSE IF w[i - 1] = NULL THEN NULL ELSE prev[w[i - 1]]]
Visited(w, n) == {w[i] : i \in 1 .. n}

(* The objects that are at least as new as x. *)
Since(age, x) == {o \in Registered : age[x] <= age[o]}

----------------------------------------------------------------------------
(* A walk of any length exists. *)
LEMMA WalkExists ==
  \A n \in Nat : \E w : IsWalk(w, n)
<1> DEFINE S == {n \in Nat : \E w : IsWalk(w, n)}
<1>1. 0 \in S
  <2>1. IsWalk([i \in 1 .. 0 |-> NULL], 0)
    BY DEF IsWalk
  <2> QED
    BY <2>1
<1>2. ASSUME NEW n \in S PROVE n + 1 \in S
  <2>1. PICK w : IsWalk(w, n)
    OBVIOUS
  <2>2. n \in Nat
    OBVIOUS
  <2> DEFINE after == IF n = 0 THEN last ELSE IF w[n] = NULL THEN NULL ELSE prev[w[n]]
             v == [i \in 1 .. n + 1 |-> IF i = n + 1 THEN after ELSE w[i]]
             next1(u, i) == IF i = 1 THEN last ELSE IF u[i - 1] = NULL THEN NULL ELSE prev[u[i - 1]]
  <2>3. \A i \in 1 .. n : w[i] = next1(w, i)
    BY <2>1 DEF IsWalk
  <2>4. ASSUME NEW i \in 1 .. n + 1 PROVE v[i] = next1(v, i)
    <3>1. CASE i = n + 1
      <4>1. v[i] = after /\ (i # 1 => v[i - 1] = w[n] /\ n # 0) /\ (i = 1 => n = 0)
        BY <2>2, <3>1
      <4> QED
        BY <4>1, <3>1
    <3>2. CASE i # n + 1
      <4>1. i \in 1 .. n /\ v[i] = w[i] /\ (i # 1 => v[i - 1] = w[i - 1])
        BY <2>2, <3>2
      <4> QED
        BY <4>1, <2>3
    <3> QED
      BY <3>1, <3>2
  <2>5. v = [i \in 1 .. n + 1 |-> next1(v, i)]
    <3>1. v = [i \in 1 .. n + 1 |-> v[i]]
      OBVIOUS
    <3> HIDE DEF v, next1
    <3> QED
      BY <3>1, <2>4
  <2>6. IsWalk(v, n + 1)
    BY <2>5 DEF IsWalk
  <2> HIDE DEF v
  <2> QED
    BY <2>2, <2>6
<1> HIDE DEF S
<1>3. S = Nat
  <2>1. S \in SUBSET Nat
    BY DEF S
  <2>2. \A n \in S : n + 1 \in S
    BY <1>2
  <2> QED
    BY <1>1, <2>1, <2>2, NumberInduction
<1> QED
  BY <1>3 DEF S

(* Newest is what such a walk visits. *)
LEMMA NewestVisited ==
  ASSUME NEW n \in Nat
  PROVE  \E w : IsWalk(w, n) /\ Newest(n) = Visited(w, n) \ {NULL}
<1> DEFINE w == CHOOSE w : w = [i \in 1 .. n |-> IF i = 1 THEN last
                                ELSE IF w[i - 1] = NULL THEN NULL ELSE prev[w[i - 1]]]
<1>1. IsWalk(w, n)
  <2>1. \E v : v = [i \in 1 .. n |-> IF i = 1 THEN last
                    ELSE IF v[i - 1] = NULL THEN NULL ELSE prev[v[i - 1]]]
    BY WalkExists DEF IsWalk
  <2> QED
    BY <2>1 DEF IsWalk
<1>2. Newest(n) = Visited(w, n) \ {NULL}
  BY DEF Newest, Visited
<1> QED
  BY <1>1, <1>2

(* What a walk is at each place. *)
LEMMA WalkSteps ==
  ASSUME NEW n \in Nat, NEW w, IsWalk(w, n)
  PROVE  /\ n > 0 => w[1] = last
         /\ \A i \in 1 .. n : i + 1 <= n /\ w[i] # NULL => w[i + 1] = prev[w[i]]
         /\ \A i \in 1 .. n : i + 1 <= n /\ w[i] = NULL => w[i + 1] = NULL
<1>1. \A i \in 1 .. n : w[i] = IF i = 1 THEN last
                               ELSE IF w[i - 1] = NULL THEN NULL ELSE prev[w[i - 1]]
  BY DEF IsWalk
<1>2. ASSUME NEW i \in 1 .. n, i + 1 <= n
      PROVE  w[i + 1] = IF w[i] = NULL THEN NULL ELSE prev[w[i]]
  <2>1. i + 1 \in 1 .. n /\ i + 1 # 1 /\ i + 1 - 1 = i
    BY <1>2
  <2> QED
    BY <1>1, <2>1
<1> QED
  BY <1>1, <1>2

(* The walk goes from the newest to the oldest and leaves none out. *)
LEMMA WalkOrdered ==
  ASSUME NEW age, Ages(age), IsFiniteSet(Registered), NEW n \in Nat, NEW w, IsWalk(w, n)
  PROVE  \A i \in Nat : i >= 1 /\ i <= n /\ i <= Cardinality(Registered) =>
           /\ w[i] \in Registered
           /\ Since(age, w[i]) = Visited(w, i)
           /\ Cardinality(Since(age, w[i])) = i
<1> DEFINE size == Cardinality(Registered)
           Good(i) == /\ w[i] \in Registered
                      /\ Since(age, w[i]) = Visited(w, i)
                      /\ Cardinality(Since(age, w[i])) = i
           S == {i \in Nat : i >= 1 /\ i <= n /\ i <= size => Good(i)}
<1>0. size \in Nat /\ Registered \subseteq Modules
  BY FS_CardinalityType DEF Registered
<1>1. 0 \in S
  OBVIOUS
<1>2. ASSUME NEW i \in S, i + 1 <= n, i + 1 <= size PROVE Good(i + 1)
  <2>0. i \in Nat
    OBVIOUS
  <2>1. CASE i = 0
    <3>1. Registered # {}
      BY <1>2, <1>0, <2>1, FS_EmptySet
    <3>2. last \in Registered /\ w[1] = last /\ \A o \in Registered : age[o] <= age[last]
      BY <1>2, <2>1, <3>1, WalkSteps DEF Ages
    <3>3. Since(age, last) = {last}
      <4>1. \A o \in Registered : age[o] \in Nat /\ age[last] \in Nat
        BY <1>0, <3>2 DEF Ages
      <4> QED
        BY <3>2, <4>1 DEF Since, Ages
    <3>4. Visited(w, 1) = {last}
      BY <3>2 DEF Visited
    <3>5. Cardinality({last}) = 1
      BY FS_Singleton
    <3> QED
      BY <2>1, <3>2, <3>3, <3>4, <3>5
  <2>2. CASE i # 0
    <3>1. i >= 1 /\ i <= n /\ i <= size /\ i # size
      BY <1>0, <1>2, <2>0, <2>2
    <3>2. Good(i)
      BY <3>1
    <3> DEFINE x == w[i]
               y == w[i + 1]
    <3>3. x \in Registered /\ Since(age, x) = Visited(w, i) /\ Cardinality(Since(age, x)) = i
      BY <3>2
    <3>4. IsFiniteSet(Since(age, x)) /\ Since(age, x) \subseteq Registered
      BY FS_Subset DEF Since
    <3>5. PICK o \in Registered : o \notin Since(age, x)
      BY <3>1, <3>3, <3>4
    <3>6. x # NULL /\ i \in 1 .. n
      BY <3>1, <3>3, <1>0, <2>0, BasicFacts
    <3>7. y = prev[x]
      BY <1>2, <3>6, WalkSteps
    <3>8. \A u \in Registered : age[u] \in Nat
      BY <1>0 DEF Ages
    <3>9. age[o] < age[x]
      BY <3>3, <3>5, <3>8 DEF Since
    <3>10. y \in Registered /\ age[y] < age[x]
      BY <3>3, <3>7, <3>9 DEF Ages
    <3> HIDE DEF x, y
    <3>11. Since(age, y) = Since(age, x) \cup {y}
      <4>1. ASSUME NEW u \in Registered, age[y] <= age[u], ~(age[x] <= age[u]) PROVE u = y
        <5>1. age[u] < age[x]
          BY <3>3, <3>8, <4>1
        <5>2. age[u] <= age[y]
          BY <3>3, <3>7, <5>1 DEF Ages
        <5>3. age[u] = age[y]
          BY <3>8, <3>10, <4>1, <5>2
        <5> QED
          BY <3>10, <5>3 DEF Ages
      <4>2. ASSUME NEW u \in Registered, age[x] <= age[u] PROVE age[y] <= age[u]
        BY <3>3, <3>8, <3>10, <4>2
      <4>3. age[y] <= age[y]
        BY <3>8, <3>10
      <4> QED
        BY <3>10, <4>1, <4>2, <4>3 DEF Since
    <3>12. y \notin Since(age, x)
      BY <3>3, <3>8, <3>10 DEF Since
    <3>13. Cardinality(Since(age, y)) = i + 1
      <4>1. Cardinality(Since(age, x) \cup {y}) = Cardinality(Since(age, x)) + 1
        BY <3>4, <3>12, FS_AddElement
      <4> QED
        BY <3>3, <3>11, <4>1
    <3>14. Visited(w, i + 1) = Visited(w, i) \cup {y}
      <4>1. 1 .. i + 1 = (1 .. i) \cup {i + 1}
        BY <2>0
      <4> QED
        BY <4>1 DEF Visited, y
    <3>15. Since(age, y) = Visited(w, i + 1)
      BY <3>3, <3>11, <3>14
    <3> QED
      BY <3>10, <3>13, <3>15 DEF y
  <2> QED
    BY <2>1, <2>2
<1> HIDE DEF Good, size
<1>3. S = Nat
  <2>1. S \in SUBSET Nat
    OBVIOUS
  <2>2. \A i \in S : i + 1 \in S
    BY <1>2
  <2> HIDE DEF S
  <2> QED
    BY <1>1, <2>1, <2>2, NumberInduction
<1>4. ASSUME NEW i \in Nat, i >= 1, i <= n, i <= size PROVE Good(i)
  BY <1>3, <1>4
<1> QED
  BY <1>4 DEF Good, size

(* So it visits every registered object, and then no more. *)
LEMMA NewestAll ==
  ASSUME NEW age, Ages(age), IsFiniteSet(Registered)
  PROVE  LET n == Cardinality(Registered)
         IN  Newest(n) = Registered /\ Newest(n + 1) = Registered
<1> DEFINE n == Cardinality(Registered)
<1>0. n \in Nat /\ Registered \subseteq Modules /\ NULL \notin Registered
  BY FS_CardinalityType, BasicFacts DEF Registered
<1> HIDE DEF n
<1>1. ASSUME NEW k \in Nat, NEW w, IsWalk(w, k), n <= k
      PROVE  Visited(w, n) = Registered
  <2>1. CASE n = 0
    <3>1. Registered = {} /\ Visited(w, n) = {}
      BY <2>1, FS_EmptySet DEF n, Visited
    <3> QED
      BY <3>1
  <2>2. CASE n # 0
    <3>1. Since(age, w[n]) = Visited(w, n) /\ Cardinality(Since(age, w[n])) = n
      BY <1>0, <1>1, <2>2, WalkOrdered DEF n
    <3>2. Since(age, w[n]) \in SUBSET Registered
      BY DEF Since
    <3> QED
      BY <3>1, <3>2, FS_Subset DEF n
  <2> QED
    BY <2>1, <2>2
<1>2. Newest(n) = Registered
  <2>1. PICK w : IsWalk(w, n) /\ Newest(n) = Visited(w, n) \ {NULL}
    BY <1>0, NewestVisited
  <2>2. Visited(w, n) = Registered
    BY <1>0, <1>1, <2>1
  <2> QED
    BY <1>0, <2>1, <2>2
<1>3. Newest(n + 1) = Registered
  <2>0. n + 1 \in Nat /\ n <= n + 1
    BY <1>0
  <2>1. PICK w : IsWalk(w, n + 1) /\ Newest(n + 1) = Visited(w, n + 1) \ {NULL}
    BY <2>0, NewestVisited
  <2>2. Visited(w, n) = Registered
    BY <1>1, <2>0, <2>1
  <2>3. w[n + 1] = NULL
    <3>1. CASE n = 0
      <4>1. Registered = {}
        BY <3>1, FS_EmptySet DEF n
      <4>2. last = NULL
        BY <4>1 DEF Ages
      <4> QED
        BY <2>0, <2>1, <3>1, <4>2, WalkSteps
    <3>2. CASE n # 0
      <4>1. /\ w[n] \in Registered /\ Since(age, w[n]) = Visited(w, n)
        BY <1>0, <2>0, <2>1, <3>2, WalkOrdered DEF n
      <4>2. w[n + 1] = prev[w[n]]
        BY <1>0, <2>0, <2>1, <3>2, <4>1, WalkSteps
      <4>3. ASSUME prev[w[n]] # NULL PROVE FALSE
        <5>1. prev[w[n]] \in Registered /\ age[prev[w[n]]] < age[w[n]]
          BY <4>1, <4>3 DEF Ages
        <5>2. age[w[n]] <= age[prev[w[n]]]
          BY <2>2, <4>1, <5>1 DEF Since
        <5>3. age[w[n]] \in Nat /\ age[prev[w[n]]] \in Nat
          BY <1>0, <4>1, <5>1 DEF Ages
        <5> QED
          BY <5>1, <5>2, <5>3
      <4> QED
        BY <4>2, <4>3
    <3> QED
      BY <3>1, <3>2
  <2>4. Visited(w, n + 1) = Visited(w, n) \cup {w[n + 1]}
    <3>1. 1 .. n + 1 = (1 .. n) \cup {n + 1}
      BY <1>0
    <3> QED
      BY <3>1 DEF Visited
  <2> QED
    BY <1>0, <2>1, <2>2, <2>3, <2>4
<1> QED
  BY <1>2, <1>3 DEF n

----------------------------------------------------------------------------
(* The places at which a call makes the difference. *)
Listing == {"register", "unregister"}

(* A step of other calls, or one that leaves the flags of an initialized    *)
(* object, leaves the list's objects the same.                              *)
Quiet ==
  /\ \A g \in Frames : pc[g] \in Listing \/ pc'[g] \in Listing =>
       pc'[g] = pc[g] /\ mod'[g] = mod[g]
  /\ \A m \in Modules : /\ "INITIALIZED" \in state'[m] <=> "INITIALIZED" \in state[m]
                        /\ "FINALIZED" \in state'[m] <=> "FINALIZED" \in state[m]

(* Then the same objects are registered. *)
LEMMA RegisteredSame ==
  ASSUME Quiet PROVE Registered' = Registered
<1>1. ASSUME NEW m \in Modules
      PROVE  m \in Registered' <=> m \in Registered
  <2>1. (\A f \in Frames : mod'[f] = m => pc'[f] # "register")
          <=> (\A f \in Frames : mod[f] = m => pc[f] # "register")
    BY DEF Quiet, Listing
  <2>2. (\E f \in Frames : mod'[f] = m /\ pc'[f] = "unregister")
          <=> (\E f \in Frames : mod[f] = m /\ pc[f] = "unregister")
    BY DEF Quiet, Listing
  <2> QED
    BY <2>1, <2>2 DEF Quiet, Registered
<1> QED
  BY <1>1 DEF Registered

(* Only these steps change what is registered. *)
Enters(f) == Register(f) /\ mod[f] \in Modules \ Registered /\ Registered' = Registered \cup {mod[f]}
Leaves(f) == Unregister(f) /\ mod[f] \in Modules /\ Registered' = Registered \ {mod[f]}

(* Every other action is quiet, ... *)
LEMMA StepQuiet ==
  ASSUME IInv, Next,
         \A f \in Frames : ~InitSucceeds(f) /\ ~Register(f) /\ ~SetFinalized(f) /\ ~Unregister(f)
  PROVE  Quiet
<1>0. Types /\ Control
  BY DEF IInv
<1>01. /\ pc \in [Frames -> Places] /\ mod \in [Frames -> ModuleOrNull]
       /\ state \in [Modules -> SUBSET Flags]
  BY <1>0 DEF Types, FrameTypes, ObjectTypes
<1>02. \A f \in Frames : pc[f] \notin {"out", "open", "new"} => mod[f] \in Modules
  BY <1>0, CallFacts DEF Control
<1> USE BasicFacts DEF Go, Bind, Return, SetFlag, ClearFlag, Call, Initialized,
                       objects, list, frames, finalize, Listing, Quiet
<1>1. ASSUME NEW f \in Frames, Lookup(f) PROVE Quiet
  BY <1>01, <1>02, <1>1 DEF Lookup
<1>2. ASSUME NEW f \in Frames, New(f) PROVE Quiet
  BY <1>01, <1>02, <1>2 DEF New
<1>3. ASSUME NEW f \in Frames, NotFound(f) PROVE Quiet
  BY <1>01, <1>02, <1>3 DEF NotFound
<1>4. ASSUME NEW f \in Frames, Insert(f) PROVE Quiet
  BY <1>01, <1>02, <1>4 DEF Insert
<1>5. ASSUME NEW f \in Frames, Acquire(f) PROVE Quiet
  BY <1>01, <1>02, <1>5 DEF Acquire
<1>6. ASSUME NEW f \in Frames, Claim(f) PROVE Quiet
  BY <1>01, <1>02, <1>6 DEF Claim
<1>7. ASSUME NEW f \in Frames, WakeUp(f) PROVE Quiet
  BY <1>01, <1>02, <1>7 DEF WakeUp
<1>8. ASSUME NEW f \in Frames, InitSucceeds(f) PROVE Quiet
  BY <1>8
<1>9. ASSUME NEW f \in Frames, InitFails(f) PROVE Quiet
  BY <1>01, <1>02, <1>9 DEF InitFails
<1>10. ASSUME NEW f \in Frames, Retract(f) PROVE Quiet
  BY <1>01, <1>02, <1>10 DEF Retract
<1>11. ASSUME NEW f \in Frames, Register(f) PROVE Quiet
  BY <1>11
<1>12. ASSUME NEW f \in Frames, Operate(f) PROVE Quiet
  BY <1>01, <1>02, <1>12 DEF Operate
<1>13. ASSUME NEW f \in Frames, Release(f) PROVE Quiet
  BY <1>01, <1>02, <1>13 DEF Release
<1>14. ASSUME NEW f \in Frames, TryAcquire(f) PROVE Quiet
  BY <1>01, <1>02, <1>14 DEF TryAcquire
<1>15. ASSUME NEW f \in Frames, Await(f) PROVE Quiet
  BY <1>01, <1>02, <1>15 DEF Await
<1>16. ASSUME NEW f \in Frames, Shutdown(f) PROVE Quiet
  BY <1>01, <1>02, <1>16 DEF Shutdown
<1>17. ASSUME NEW f \in Frames, Drain(f) PROVE Quiet
  BY <1>01, <1>02, <1>17 DEF Drain
<1>18. ASSUME NEW f \in Frames, Finalize(f) PROVE Quiet
  BY <1>01, <1>02, <1>18 DEF Finalize
<1>19. ASSUME NEW f \in Frames, SetFinalized(f) PROVE Quiet
  BY <1>19
<1>20. ASSUME NEW f \in Frames, Unregister(f) PROVE Quiet
  BY <1>20
<1>21. ASSUME NEW f \in Frames, Interrupted(f) PROVE Quiet
  BY <1>01, <1>02, <1>21 DEF Interrupted
<1>22. ASSUME NEW f \in Frames, NEW l \in Libraries, Import(f, l) PROVE Quiet
  BY <1>01, <1>02, <1>22 DEF Import
<1>23. ASSUME NEW f \in Frames, NEW l \in Libraries, CollectMemory(f, l) PROVE Quiet
  BY <1>01, <1>02, <1>23 DEF CollectMemory
<1>24. CASE ShutdownApi \/ Walk \/ JoinThreads \/ Again \/ QuitApi
  <2>1. UNCHANGED <<pc, mod, state>>
    BY <1>24 DEF ShutdownApi, Walk, LockList, NextModule, TellModule, Told,
                ReleaseModule, UnlockList, JoinThreads, Again, QuitApi
  <2> QED
    BY <2>1
<1>25. ASSUME NEW m \in Modules, Unload(m) PROVE Quiet
  BY <1>01, <1>02, <1>25 DEF Unload, Finalizing
<1>q. QED
  BY <1>1, <1>2, <1>3, <1>4, <1>5, <1>6, <1>7, <1>8, <1>9, <1>10, <1>11, <1>12, <1>13, <1>14, <1>15, <1>16, <1>17, <1>18, <1>19, <1>20, <1>21, <1>22, <1>23, <1>24, <1>25
  DEF Next, Proceed

(* ... and these four do what they are to do with the list's objects. *)
LEMMA StepRegistered ==
  ASSUME IInv, Registering, Next
  PROVE  \/ \E f \in Frames : Enters(f) \/ Leaves(f)
         \/ Registered' = Registered /\ UNCHANGED <<prev, next, last>>
<1>0. Types /\ Control /\ FlagsMean /\ FlagsKnown
  BY DEF IInv
<1>01. /\ pc \in [Frames -> Places] /\ mod \in [Frames -> ModuleOrNull]
       /\ state \in [Modules -> SUBSET Flags]
  BY <1>0 DEF Types, FrameTypes, ObjectTypes
<1>02. \A f \in Frames : pc[f] \notin {"out", "open", "new"} => mod[f] \in Modules
  BY <1>0, CallFacts DEF Control
<1>1. ASSUME NEW f \in Frames, InitSucceeds(f)
      PROVE  Registered' = Registered /\ UNCHANGED <<prev, next, last>>
  <2> DEFINE m == mod[f]
  <2>1. /\ pc[f] = "init" /\ pc' = [pc EXCEPT ![f] = "register"] /\ mod' = mod
        /\ state' = [state EXCEPT ![m] = @ \cup {"INITIALIZED"}]
        /\ UNCHANGED <<prev, next, last>>
    BY <1>1 DEF InitSucceeds, Go, SetFlag, list
  <2>2. m \in Modules /\ "INITIALIZED" \notin state[m]
    BY <1>0, <1>02, <2>1 DEF FlagsKnown
  <2>3. m \notin Registered /\ m \notin Registered'
    BY <1>01, <2>1, <2>2 DEF Registered
  <2>4. ASSUME NEW o \in Modules, o # m PROVE o \in Registered' <=> o \in Registered
    BY <1>01, <2>1, <2>4 DEF Registered
  <2> QED
    BY <2>1, <2>3, <2>4 DEF Registered
<1>2. ASSUME NEW f \in Frames, Register(f) PROVE Enters(f)
  <2> DEFINE m == mod[f]
  <2>1. /\ pc[f] = "register" /\ pc' = [pc EXCEPT ![f] = "inside"] /\ mod' = mod /\ state' = state
    BY <1>2 DEF Register, Go, objects
  <2>2. m \in Modules /\ "INITIALIZED" \in state[m] /\ m \notin Registered
    BY <1>0, <1>02, <2>1 DEF FlagsKnown, Registered
  <2>3. \A g \in Frames : g # f /\ mod[g] = m => pc[g] # "register"
    BY <2>1 DEF Registering
  <2>4. "FINALIZED" \notin state[m]
    <3>1. main.at # "quit"
      BY <1>0, <2>1 DEF Control, Phases, Ending
    <3> QED
      BY <1>0, <2>2, <3>1 DEF FlagsMean
  <2>5. m \in Registered'
    BY <1>01, <2>1, <2>2, <2>3, <2>4 DEF Registered
  <2>6. ASSUME NEW o \in Modules, o # m PROVE o \in Registered' <=> o \in Registered
    BY <1>01, <2>1, <2>6 DEF Registered
  <2> QED
    BY <1>2, <2>2, <2>5, <2>6 DEF Enters, Registered
<1>3. ASSUME NEW f \in Frames, SetFinalized(f)
      PROVE  Registered' = Registered /\ UNCHANGED <<prev, next, last>>
  <2> DEFINE m == mod[f]
  <2>1. /\ pc[f] = "finalized" /\ pc' = [pc EXCEPT ![f] = "unregister"] /\ mod' = mod
        /\ state' = [state EXCEPT ![m] = @ \cup {"FINALIZED"}]
        /\ UNCHANGED <<prev, next, last>>
    BY <1>3 DEF SetFinalized, Go, SetFlag, list
  <2>2. m \in Modules /\ "FINALIZED" \notin state[m]
    BY <1>0, <1>02, <2>1 DEF FlagsKnown, Ending
  <2>3. \A g \in Frames : g # f => mod[g] # m
    BY <1>0, <2>1 DEF Control, Own, Ending
  <2>4. m \in Registered' <=> m \in Registered
    BY <1>01, <2>1, <2>2, <2>3 DEF Registered
  <2>5. ASSUME NEW o \in Modules, o # m PROVE o \in Registered' <=> o \in Registered
    BY <1>01, <2>1, <2>5 DEF Registered
  <2> QED
    BY <2>1, <2>4, <2>5 DEF Registered
<1>4. ASSUME NEW f \in Frames, Unregister(f) PROVE Leaves(f)
  <2> DEFINE m == mod[f]
  <2>1. /\ pc[f] = "unregister" /\ state' = state
        /\ \A g \in Frames : g # f => pc'[g] = pc[g] /\ mod'[g] = mod[g]
        /\ pc'[f] \notin Listing
    BY <1>01, <1>4 DEF Unregister, Go, Bind, Return, objects, Listing
  <2>2. m \in Modules
    BY <1>02, <2>1
  <2>3. \A g \in Frames : g # f => mod[g] # m
    BY <1>0, <2>1 DEF Control, Own, Ending
  <2>4. m \notin Registered'
    <3>1. "INITIALIZED" \in state[m] => "FINALIZED" \in state[m]
      BY <2>1 DEF Registering
    <3> QED
      BY <2>1, <2>3, <3>1 DEF Registered, Listing
  <2>5. ASSUME NEW o \in Modules, o # m PROVE o \in Registered' <=> o \in Registered
    BY <2>1, <2>5 DEF Registered, Listing
  <2> QED
    BY <1>4, <2>2, <2>4, <2>5 DEF Leaves, Registered
<1>5. CASE \A f \in Frames : ~InitSucceeds(f) /\ ~Register(f) /\ ~SetFinalized(f) /\ ~Unregister(f)
  <2>1. Registered' = Registered
    BY <1>5, StepQuiet, RegisteredSame
  <2>2. UNCHANGED <<prev, next, last>>
    BY <1>5, Changes
  <2> QED
    BY <2>1, <2>2
<1> QED
  BY <1>1, <1>2, <1>3, <1>4, <1>5

(* One call registers an object still, and what is taken out is finalized. *)
LEMMA StepRegistering ==
  ASSUME IInv, Registering, Next PROVE Registering'
<1>0. Types /\ Control /\ FlagsKnown
  BY DEF IInv
<1>01. /\ pc \in [Frames -> Places] /\ mod \in [Frames -> ModuleOrNull]
       /\ state \in [Modules -> SUBSET Flags]
  BY <1>0 DEF Types, FrameTypes, ObjectTypes
<1>02. \A f \in Frames : pc[f] \notin {"out", "open", "new"} => mod[f] \in Modules
  BY <1>0, CallFacts DEF Control
<1>1. ASSUME NEW f \in Frames, InitSucceeds(f) PROVE Registering'
  <2>1. /\ pc[f] = "init" /\ pc' = [pc EXCEPT ![f] = "register"] /\ mod' = mod
        /\ state' = [state EXCEPT ![mod[f]] = @ \cup {"INITIALIZED"}]
    BY <1>1 DEF InitSucceeds, Go, SetFlag
  <2>2. "INITIALIZED" \notin state[mod[f]]
    BY <1>0, <2>1 DEF FlagsKnown
  <2>3. \A g \in Frames : pc[g] = "register" => "INITIALIZED" \in state[mod[g]]
    BY <1>0 DEF FlagsKnown
  <2> QED
    BY <1>01, <1>02, <2>1, <2>2, <2>3 DEF Registering
<1>2. ASSUME NEW f \in Frames, Register(f) PROVE Registering'
  <2>1. pc' = [pc EXCEPT ![f] = "inside"] /\ mod' = mod /\ state' = state
    BY <1>2 DEF Register, Go, objects
  <2> QED
    BY <1>01, <2>1 DEF Registering
<1>3. ASSUME NEW f \in Frames, SetFinalized(f) PROVE Registering'
  <2>1. /\ pc[f] = "finalized" /\ pc' = [pc EXCEPT ![f] = "unregister"] /\ mod' = mod
        /\ state' = [state EXCEPT ![mod[f]] = @ \cup {"FINALIZED"}]
    BY <1>3 DEF SetFinalized, Go, SetFlag
  <2> QED
    BY <1>01, <1>02, <2>1 DEF Registering
<1>4. ASSUME NEW f \in Frames, Unregister(f) PROVE Registering'
  <2>1. /\ state' = state /\ pc'[f] \notin Listing
        /\ \A g \in Frames : g # f => pc'[g] = pc[g] /\ mod'[g] = mod[g]
    BY <1>01, <1>4 DEF Unregister, Go, Bind, Return, objects, Listing
  <2> QED
    BY <2>1 DEF Registering, Listing
<1>5. CASE \A f \in Frames : ~InitSucceeds(f) /\ ~Register(f) /\ ~SetFinalized(f) /\ ~Unregister(f)
  <2>1. Quiet
    BY <1>5, StepQuiet
  <2>2. \A f \in Frames : pc[f] = "unregister" => mod[f] \in Modules
    BY <1>02
  <2> QED
    BY <2>1, <2>2 DEF Quiet, Listing, Registering
<1> QED
  BY <1>1, <1>2, <1>3, <1>4, <1>5

(* An object that is registered is the newest, ... *)
LEMMA EnterAges ==
  ASSUME ListTypes, NEW age, Ages(age), NEW m \in Modules \ Registered,
         Registered' = Registered \cup {m},
         prev' = [prev EXCEPT ![m] = last], last' = m
  PROVE  (\E b : Ages(b))'
<1>0. \A o \in Registered : o \in Modules /\ o # m /\ age[o] \in Nat
  BY DEF Registered, Ages
<1>01. NULL \notin Modules /\ prev \in [Modules -> ModuleOrNull]
  BY BasicFacts DEF ListTypes
<1>1. PICK k \in Nat : \A o \in Registered : age[o] < k
  <2>1. CASE last = NULL
    BY <2>1 DEF Ages
  <2>2. CASE last # NULL
    <3>1. age[last] + 1 \in Nat /\ \A o \in Registered : age[o] < age[last] + 1
      BY <1>0, <2>2 DEF Ages
    <3> QED
      BY <3>1
  <2> QED
    BY <2>1, <2>2
<1>2. PICK b : b = [age EXCEPT ![m] = k]
  OBVIOUS
<1>3. b \in [Modules -> Nat] /\ b[m] = k /\ \A o \in Registered : b[o] = age[o]
  BY <1>0, <1>2 DEF Ages
<1>4. prev'[m] = last /\ \A o \in Registered : prev'[o] = prev[o]
  BY <1>0, <1>01
<1>5. ASSUME NEW x \in Registered', NEW o \in Registered', b[x] = b[o] PROVE x = o
  BY <1>0, <1>1, <1>3, <1>5 DEF Ages
<1>6. ASSUME NEW x \in Registered'
      PROVE  /\ prev'[x] # NULL => prev'[x] \in Registered' /\ b[prev'[x]] < b[x]
             /\ \A o \in Registered' : b[o] < b[x] => prev'[x] # NULL /\ b[o] <= b[prev'[x]]
  <2>1. CASE x = m
    BY <1>0, <1>1, <1>3, <1>4, <2>1 DEF Ages
  <2>2. CASE x \in Registered
    <3>1. prev'[x] # NULL => prev'[x] \in Registered /\ b[prev'[x]] < b[x]
      BY <1>3, <1>4, <2>2 DEF Ages
    <3>2. ASSUME NEW o \in Registered', b[o] < b[x] PROVE prev'[x] # NULL /\ b[o] <= b[prev'[x]]
      <4>1. o # m
        BY <1>0, <1>1, <1>3, <2>2, <3>2
      <4>2. o \in Registered /\ age[o] < age[x]
        BY <1>3, <2>2, <3>2, <4>1
      <4>3. prev[x] # NULL /\ age[o] <= age[prev[x]]
        BY <2>2, <4>2 DEF Ages
      <4> QED
        BY <1>3, <1>4, <2>2, <3>1, <4>2, <4>3
    <3> QED
      BY <3>1, <3>2
  <2> QED
    BY <2>1, <2>2
<1>7. last' # NULL /\ last' \in Registered' /\ \A o \in Registered' : b[o] <= b[last']
  BY <1>0, <1>01, <1>1, <1>3
<1> QED
  BY <1>3, <1>5, <1>6, <1>7 DEF Ages

(* ... and linked with the one that was. *)
LEMMA EnterLinks ==
  ASSUME ListTypes, NEW age, Ages(age), Linked, NEW m \in Modules \ Registered,
         Registered' = Registered \cup {m},
         prev' = [prev EXCEPT ![m] = last], last' = m,
         next' = IF last = NULL THEN next ELSE [next EXCEPT ![last] = m]
  PROVE  Linked'
<1>0. /\ NULL \notin Modules /\ prev \in [Modules -> ModuleOrNull]
      /\ next \in [Modules -> ModuleOrNull]
  BY BasicFacts DEF ListTypes
<1>1. last # NULL => last \in Registered /\ last # m
  BY DEF Ages
<1>2. /\ prev'[m] = last /\ next'[m] = NULL /\ (last # NULL => next'[last] = m)
      /\ \A o \in Modules : o # m => prev'[o] = prev[o]
      /\ \A o \in Modules : o # last => next'[o] = next[o]
  BY <1>0, <1>1 DEF Linked, Registered
<1>3. Registered \subseteq Modules
  BY DEF Registered
<1>4. \A o \in Registered : prev[o] # m /\ next[o] # m
  BY <1>0 DEF Ages, Linked
<1>5. ASSUME NEW x \in Registered', NEW o \in Registered'
      PROVE  prev'[x] = o <=> next'[o] = x
  <2>1. CASE x = m /\ o = m
    BY <1>0, <1>1, <1>2, <2>1
  <2>2. CASE x = m /\ o \in Registered
    <3>1. prev'[x] = last /\ o \in Modules
      BY <1>2, <1>3, <2>2
    <3>2. CASE o = last
      BY <1>0, <1>2, <2>2, <3>1, <3>2
    <3>3. CASE o # last
      BY <1>2, <1>4, <2>2, <3>1, <3>3
    <3> QED
      BY <3>2, <3>3
  <2>3. CASE x \in Registered /\ o = m
    BY <1>0, <1>2, <1>3, <1>4, <2>3
  <2>4. CASE x \in Registered /\ o \in Registered
    <3>1. prev'[x] = prev[x] /\ (prev[x] = o <=> next[o] = x)
      BY <1>2, <1>3, <2>4 DEF Linked
    <3>2. CASE o = last
      <4>1. next[o] = NULL /\ next'[o] = m /\ x # NULL /\ x # m
        BY <1>0, <1>2, <1>3, <2>4, <3>2 DEF Linked
      <4> QED
        BY <3>1, <4>1
    <3>3. CASE o # last
      BY <1>2, <1>3, <2>4, <3>1, <3>3
    <3> QED
      BY <3>2, <3>3
  <2> QED
    BY <2>1, <2>2, <2>3, <2>4
<1>6. \A x \in Registered' : next'[x] \in Registered' \cup {NULL}
  BY <1>2, <1>3 DEF Linked
<1>7. next'[last'] = NULL
  BY <1>2
<1>8. \A x \in Modules \ Registered' : prev'[x] = NULL /\ next'[x] = NULL
  BY <1>1, <1>2 DEF Linked
<1> QED
  BY <1>5, <1>6, <1>7, <1>8 DEF Linked

(* UNREGISTER_INITIALIZED. *)
TakeOut(m) ==
  /\ next' = [o \in Modules |-> IF o = m THEN NULL
                                ELSE IF o = prev[m] THEN next[m] ELSE next[o]]
  /\ prev' = [o \in Modules |-> IF o = m THEN NULL
                                ELSE IF o = next[m] THEN prev[m] ELSE prev[o]]
  /\ last' = IF next[m] = NULL /\ last = m THEN prev[m] ELSE last

(* An object that was never initialized is not in the list. *)
LEMMA LeaveNothing ==
  ASSUME ListTypes, NEW age, Ages(age), Linked, NEW m \in Modules \ Registered, TakeOut(m)
  PROVE  UNCHANGED <<prev, next, last>>
<1>0. /\ NULL \notin Modules /\ prev \in [Modules -> ModuleOrNull]
      /\ next \in [Modules -> ModuleOrNull]
  BY BasicFacts DEF ListTypes
<1>1. prev[m] = NULL /\ next[m] = NULL /\ last # m
  BY <1>0 DEF Linked, Ages
<1> QED
  BY <1>0, <1>1 DEF TakeOut

(* The ages of the others stay as they are, ... *)
LEMMA LeaveAges ==
  ASSUME ListTypes, NEW age, Ages(age), Linked, NEW m \in Registered, TakeOut(m),
         Registered' = Registered \ {m}
  PROVE  Ages(age)'
<1>0. /\ NULL \notin Modules /\ NULL \notin Registered /\ prev \in [Modules -> ModuleOrNull]
      /\ next \in [Modules -> ModuleOrNull] /\ Registered \subseteq Modules
  BY BasicFacts DEF ListTypes, Registered
<1>1. \A o \in Registered : age[o] \in Nat
  BY <1>0 DEF Ages
<1>2. \A x \in Registered' : x \in Registered /\ x # m
  OBVIOUS
<1>3. \A x \in Registered' : prev'[x] = IF prev[x] = m THEN prev[m] ELSE prev[x]
  <2>1. \A x \in Registered' : x = next[m] <=> prev[x] = m
    BY <1>2 DEF Linked
  <2> QED
    BY <1>0, <1>2, <2>1 DEF TakeOut
<1>4. ASSUME NEW x \in Registered'
      PROVE  /\ prev'[x] # NULL => prev'[x] \in Registered' /\ age[prev'[x]] < age[x]
             /\ \A o \in Registered' : age[o] < age[x] => prev'[x] # NULL /\ age[o] <= age[prev'[x]]
  <2>1. CASE prev[x] = m
    <3>1. prev'[x] = prev[m] /\ age[m] < age[x] /\ m # NULL
      BY <1>0, <1>2, <1>3, <2>1 DEF Ages
    <3>2. prev[m] # NULL => prev[m] \in Registered' /\ age[prev[m]] < age[m]
      BY <1>1 DEF Ages
    <3>3. ASSUME NEW o \in Registered', age[o] < age[x] PROVE age[o] < age[m]
      <4>1. age[o] <= age[m] /\ age[o] # age[m]
        BY <1>2, <2>1, <3>3 DEF Ages
      <4> QED
        BY <1>1, <1>2, <4>1
    <3>4. \A o \in Registered' : age[o] < age[m] => prev[m] # NULL /\ age[o] <= age[prev[m]]
      BY <1>2 DEF Ages
    <3> QED
      BY <1>1, <1>2, <3>1, <3>2, <3>3, <3>4
  <2>2. CASE prev[x] # m
    BY <1>2, <1>3, <2>2 DEF Ages
  <2> QED
    BY <2>1, <2>2
<1>5. CASE last = m
  <2>1. next[m] = NULL /\ last' = prev[m]
    BY <1>0, <1>5 DEF TakeOut, Linked
  <2>2. \A o \in Registered' : age[o] < age[m]
    <3>1. \A o \in Registered' : age[o] <= age[m] /\ age[o] # age[m]
      BY <1>0, <1>2, <1>5 DEF Ages
    <3> QED
      BY <1>1, <1>2, <3>1
  <2>3. /\ last' = NULL => Registered' = {}
        /\ last' # NULL => last' \in Registered' /\ \A o \in Registered' : age[o] <= age[last']
    BY <1>1, <1>2, <2>1, <2>2 DEF Ages
  <2> QED
    BY <1>2, <1>4, <2>3 DEF Ages
<1>6. CASE last # m
  <2>1. last' = last
    BY <1>6 DEF TakeOut
  <2> QED
    BY <1>2, <1>4, <1>6, <2>1 DEF Ages
<1> QED
  BY <1>5, <1>6

(* ... and the two beside it are linked. *)
LEMMA LeaveLinks ==
  ASSUME ListTypes, NEW age, Ages(age), Linked, NEW m \in Registered, TakeOut(m),
         Registered' = Registered \ {m}
  PROVE  Linked'
<1>0. /\ NULL \notin Modules /\ NULL \notin Registered /\ prev \in [Modules -> ModuleOrNull]
      /\ next \in [Modules -> ModuleOrNull] /\ Registered \subseteq Modules
  BY BasicFacts DEF ListTypes, Registered
<1>1. \A x \in Registered' : x \in Registered /\ x # m
  OBVIOUS
<1>2. \A x \in Registered' : /\ x = next[m] <=> prev[x] = m
                             /\ x = prev[m] <=> next[x] = m
  BY <1>1 DEF Linked
<1>3. \A x \in Registered' : /\ prev'[x] = IF prev[x] = m THEN prev[m] ELSE prev[x]
                             /\ next'[x] = IF next[x] = m THEN next[m] ELSE next[x]
  BY <1>0, <1>1, <1>2 DEF TakeOut
<1>4. \A x \in Registered : prev[x] # x /\ prev[x] \in Registered \cup {NULL}
  <2>1. \A x \in Registered : age[x] \in Nat
    BY <1>0 DEF Ages
  <2> QED
    BY <1>0, <2>1 DEF Ages
<1>5. ASSUME NEW x \in Registered', NEW o \in Registered'
      PROVE  prev'[x] = o <=> next'[o] = x
  <2>1. /\ prev[x] = o <=> next[o] = x
        /\ prev[m] = o <=> next[o] = m
        /\ prev[x] = m <=> next[m] = x
    BY <1>1 DEF Linked
  <2> QED
    BY <1>1, <1>3, <2>1
<1>6. \A x \in Registered' : next'[x] \in Registered' \cup {NULL}
  <2>1. next[m] # m
    BY <1>0, <1>4 DEF Linked
  <2>2. \A x \in Registered : next[x] \in Registered \cup {NULL}
    BY DEF Linked
  <2> QED
    BY <1>1, <1>3, <2>1, <2>2
<1>7. last' # NULL => next'[last'] = NULL
  <2>1. CASE last = m
    <3>1. next[m] = NULL /\ last' = prev[m]
      BY <1>0, <2>1 DEF TakeOut, Linked
    <3>2. prev[m] # NULL => prev[m] \in Registered' /\ next[prev[m]] = m
      BY <1>4 DEF Linked
    <3> QED
      BY <1>3, <3>1, <3>2
  <2>2. CASE last # m
    <3>1. last' = last
      BY <2>2 DEF TakeOut
    <3>2. last # NULL => last \in Registered' /\ next[last] = NULL
      BY <2>2 DEF Linked, Ages
    <3> QED
      BY <1>0, <1>3, <3>1, <3>2
  <2> QED
    BY <2>1, <2>2
<1>8. \A x \in Modules \ Registered' : prev'[x] = NULL /\ next'[x] = NULL
  <2>1. prev'[m] = NULL /\ next'[m] = NULL
    BY <1>0 DEF TakeOut
  <2>2. ASSUME NEW x \in Modules \ Registered PROVE prev'[x] = NULL /\ next'[x] = NULL
    <3>1. x # m /\ prev[x] = NULL /\ next[x] = NULL
      BY DEF Linked
    <3>2. x # prev[m] /\ x # next[m]
      BY <1>0, <1>4 DEF Linked
    <3> QED
      BY <3>1, <3>2 DEF TakeOut
  <2> QED
    BY <2>1, <2>2
<1> QED
  BY <1>5, <1>6, <1>7, <1>8 DEF Linked

----------------------------------------------------------------------------
(* What is the newest and what is older than a registered object is one. *)
LEMMA LastListed ==
  ASSUME NEW age, Ages(age)
  PROVE  /\ last \in Registered \cup {NULL}
         /\ \A m \in Registered : prev[m] \in Registered \cup {NULL}
BY DEF Ages

(* A step that leaves the list alone leaves the finalization its place, ... *)
LEMMA MainKeepsPlace ==
  ASSUME IInv, MainKnows, NEW age, Ages(age), UNCHANGED <<prev, next, last>>, Registered' = Registered, Next
  PROVE  MainKnows'
<1>1. UNCHANGED <<locked, main>> \/ ShutdownApi \/ Walk \/ JoinThreads \/ Again \/ QuitApi
  BY Changes
<1>0. MainTypes
  BY DEF IInv, Types
<1> USE DEF MainKnows, MainTypes, Telling, Finalizing, Step
<1>2. CASE UNCHANGED <<locked, main>>
  BY <1>2
<1>3. CASE ShutdownApi
  BY <1>0, <1>3 DEF ShutdownApi, list
<1>4. CASE LockList
  BY <1>0, <1>4, LastListed DEF LockList
<1>5. CASE NextModule
  <2>1. main.load \in Registered /\ prev[main.load] \in Registered \cup {NULL}
    BY <1>5, LastListed DEF NextModule
  <2>2. CASE "SHUTDOWN" \in state[main.load]
    BY <1>0, <1>5, <2>1, <2>2 DEF NextModule, list
  <2>3. CASE "SHUTDOWN" \notin state[main.load]
    <3>1. main' = [at |-> "await", load |-> main.load, next |-> prev[main.load]]
      BY <1>0, <1>5, <2>3, NextLoad
    <3>2. main.at = "walk" /\ main.load # NULL /\ UNCHANGED locked
      BY <1>5 DEF NextModule, list
    <3> QED
      BY <2>1, <3>1, <3>2
  <2> QED
    BY <2>2, <2>3
<1>6. CASE TellModule
  BY <1>0, <1>6 DEF TellModule
<1>7. CASE Told
  BY <1>0, <1>7 DEF Told
<1>8. CASE ReleaseModule
  <2>1. main.load \in Registered /\ prev[main.load] \in Registered \cup {NULL}
    BY <1>8, LastListed DEF ReleaseModule
  <2> QED
    BY <1>0, <1>8, <2>1 DEF ReleaseModule, list
<1>9. CASE UnlockList
  BY <1>0, <1>9 DEF UnlockList
<1>10. CASE JoinThreads
  BY <1>0, <1>10 DEF JoinThreads, list
<1>11. CASE Again
  BY <1>0, <1>11 DEF Again, list
<1>12. CASE QuitApi
  BY <1>0, <1>12 DEF QuitApi, list
<1> QED
  BY <1>1, <1>2, <1>3, <1>4, <1>5, <1>6, <1>7, <1>8, <1>9, <1>10, <1>11, <1>12 DEF Walk

(* ... and so does one that registers an object, ... *)
LEMMA MainAtEnter ==
  ASSUME IInv, MainKnows, NEW f \in Frames, Enters(f) PROVE MainKnows'
<1>1. /\ ~locked /\ UNCHANGED <<locked, main>>
      /\ prev' = [prev EXCEPT ![mod[f]] = last]
      /\ mod[f] \in Modules \ Registered /\ Registered' = Registered \cup {mod[f]}
  BY DEF Enters, Register, finalize
<1>2. prev \in [Modules -> ModuleOrNull] /\ NULL \notin Modules /\ Registered \subseteq Modules
  BY BasicFacts DEF IInv, Types, ListTypes, Registered
<1>3. \A m \in Registered : prev'[m] = prev[m]
  BY <1>1, <1>2
<1> QED
  BY <1>1, <1>2, <1>3 DEF MainKnows, Telling

(* ... or takes one out, which happens when the finalization has left the   *)
(* list, or to an object that is not in it.                                 *)
LEMMA MainAtLeave ==
  ASSUME IInv, MainKnows, NEW age, Ages(age), Linked, NEW f \in Frames, Leaves(f)
  PROVE  MainKnows'
<1>1. /\ ~locked /\ UNCHANGED <<locked, main>> /\ TakeOut(mod[f])
      /\ pc[f] = "unregister" /\ mod[f] \in Modules /\ Registered' = Registered \ {mod[f]}
  BY DEF Leaves, Unregister, finalize, TakeOut
<1>2. CASE mod[f] \in Registered
  <2>1. "INITIALIZED" \in state[mod[f]]
    BY <1>2 DEF Registered
  <2>2. main.at = "quit"
    BY <1>1, <2>1 DEF IInv, FlagsKnown, Ending
  <2> QED
    BY <1>1, <2>2 DEF MainKnows, Telling
<1>3. CASE mod[f] \notin Registered
  <2>1. UNCHANGED <<prev, next, last>>
    BY <1>1, <1>3, LeaveNothing DEF IInv, Types
  <2>2. Registered' = Registered
    BY <1>1, <1>3
  <2> QED
    BY <1>1, <2>1, <2>2 DEF MainKnows, Telling
<1> QED
  BY <1>2, <1>3

(* At first the list is empty, ... *)
LEMMA ListStarts ==
  ASSUME Init PROVE ListInv
<1>1. Registered = {}
  BY DEF Init, Registered
<1>2. PICK b : b = [m \in Modules |-> 0]
  OBVIOUS
<1>3. Ages(b)
  BY <1>1, <1>2 DEF Init, Ages
<1>4. Linked /\ MainKnows /\ Registering
  BY <1>1 DEF Init, Linked, MainKnows, Telling, Registering
<1>5. IsFiniteSet(Registered)
  BY <1>1, FS_EmptySet
<1> QED
  BY <1>3, <1>4, <1>5 DEF ListInv

(* ... and every step keeps it in order. *)
LEMMA ListSteps ==
  ASSUME IInv, ListInv, [Next]_vars PROVE ListInv'
<1>0. PICK age : Ages(age)
  BY DEF ListInv
<1>01. Linked /\ MainKnows /\ Registering /\ IsFiniteSet(Registered) /\ ListTypes
  BY DEF IInv, Types, ListInv
<1>1. ASSUME Next, NEW f \in Frames, Enters(f) PROVE ListInv'
  <2>1. /\ mod[f] \in Modules \ Registered /\ Registered' = Registered \cup {mod[f]}
        /\ prev' = [prev EXCEPT ![mod[f]] = last] /\ last' = mod[f]
        /\ next' = IF last = NULL THEN next ELSE [next EXCEPT ![last] = mod[f]]
    BY <1>1 DEF Enters, Register
  <2>2. (\E b : Ages(b))'
    BY <1>0, <1>01, <2>1, EnterAges
  <2>3. Linked'
    BY <1>0, <1>01, <2>1, EnterLinks
  <2>4. MainKnows' /\ Registering'
    BY <1>01, <1>1, MainAtEnter, StepRegistering
  <2>5. IsFiniteSet(Registered')
    BY <1>01, <2>1, FS_AddElement
  <2> QED
    BY <2>2, <2>3, <2>4, <2>5 DEF ListInv
<1>2. ASSUME Next, NEW f \in Frames, Leaves(f) PROVE ListInv'
  <2>1. TakeOut(mod[f]) /\ mod[f] \in Modules /\ Registered' = Registered \ {mod[f]}
    BY <1>2 DEF Leaves, Unregister, TakeOut
  <2>2. MainKnows' /\ Registering'
    BY <1>0, <1>01, <1>2, MainAtLeave, StepRegistering
  <2>3. IsFiniteSet(Registered')
    BY <1>01, <2>1, FS_RemoveElement
  <2>4. Ages(age)' /\ Linked'
    <3>1. CASE mod[f] \in Registered
      BY <1>0, <1>01, <2>1, <3>1, LeaveAges, LeaveLinks
    <3>2. CASE mod[f] \notin Registered
      <4>1. UNCHANGED <<prev, next, last>>
        BY <1>0, <1>01, <2>1, <3>2, LeaveNothing
      <4>2. Registered' = Registered
        BY <2>1, <3>2
      <4> QED
        BY <1>0, <1>01, <4>1, <4>2 DEF Ages, Linked
    <3> QED
      BY <3>1, <3>2
  <2> QED
    BY <2>2, <2>3, <2>4 DEF ListInv
<1>3. ASSUME Next, Registered' = Registered, UNCHANGED <<prev, next, last>> PROVE ListInv'
  <2>1. Ages(age)' /\ Linked'
    BY <1>0, <1>01, <1>3 DEF Ages, Linked
  <2>2. MainKnows' /\ Registering'
    BY <1>0, <1>01, <1>3, MainKeepsPlace, StepRegistering
  <2> QED
    BY <1>01, <1>3, <2>1, <2>2 DEF ListInv
<1>4. CASE UNCHANGED vars
  <2>1. UNCHANGED <<prev, next, last, locked, main, pc, mod, state>>
    BY <1>4 DEF vars, objects, list, frames, finalize
  <2>2. Registered' = Registered
    BY <2>1 DEF Registered
  <2>3. Ages(age)' /\ Linked' /\ MainKnows' /\ Registering'
    BY <1>0, <1>01, <2>1, <2>2 DEF Ages, Linked, MainKnows, Telling, Registering
  <2> QED
    BY <1>01, <2>2, <2>3 DEF ListInv
<1> QED
  BY <1>01, <1>1, <1>2, <1>3, <1>4, StepRegistered

(* _dex_init_list has every initialized object, linked in both directions, *)
(* and where the finalization is in it stays good.                         *)
THEOREM ListCorrect == Spec => []ListExact
<1>1. Spec => []ListInv
  BY Invariance, ListStarts, ListSteps, PTL DEF Spec
<1>2. ASSUME ListInv PROVE ListExact
  <2>1. PICK age : Ages(age)
    BY <1>2 DEF ListInv
  <2>2. LET n == Cardinality(Registered)
        IN  Newest(n) = Registered /\ Newest(n + 1) = Registered
    BY <1>2, <2>1, NewestAll DEF ListInv
  <2>3. /\ \A m, o \in Registered : prev[m] = o <=> next[o] = m
        /\ last # NULL => next[last] = NULL
        /\ \A m \in Modules \ Registered : prev[m] = NULL /\ next[m] = NULL
    BY <1>2 DEF ListInv, Linked
  <2>4. /\ main.load \in Registered \cup {NULL}
        /\ Telling => main.load # NULL /\ main.next = prev[main.load]
    BY <1>2 DEF ListInv, MainKnows
  <2> QED
    BY <2>2, <2>3, <2>4 DEF ListExact
<1> QED
  BY <1>1, <1>2, PTL

=============================================================================
