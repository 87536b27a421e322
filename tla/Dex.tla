-------------------------------- MODULE Dex --------------------------------
(***************************************************************************)
(* The modules of src/deemon/dex.c: shared libraries that are found,       *)
(* initialized when they are used first, told of the shutdown, finalized   *)
(* and unloaded.  A module object keeps the flags of dm_state and the      *)
(* tickets of its users in one word, changed by single atomic              *)
(* instructions; _dex_modules_map has the object of every library, and     *)
(* _dex_init_list the initialized ones.  Two objects of one library share  *)
(* what dlopen returns: the table of exports, with the values its          *)
(* generators have cached, and DeeDex_Main.                                *)
(*                                                                         *)
(* A frame is a call in progress.  The program's calls are at depth 1; a   *)
(* module's DeeDex_Main runs at depth d and calls other modules at depth   *)
(* d + 1.  Libraries exist, and have a DeeDex_Main.                        *)
(* Sleeps and failed compare-exchanges leave everything as it is.          *)
(***************************************************************************)
EXTENDS Integers, FiniteSets

CONSTANTS
  Threads,     (* the threads of the program other than the main thread    *)
  Main,        (* the main thread, which finalizes the runtime             *)
  Libraries,
  Generators,  (* the libraries that export a generator                    *)
  MaxCopies,   (* a bound on the module objects made of one library        *)
  NULL,        (* no library, module object or frame                       *)
  Uses,        (* Uses[l]: the libraries l opens to initialize itself      *)
  Imports,     (* Imports[a]: the libraries the program's code in a uses   *)
  Collectors,  (* the actors whose code collects memory                    *)
  MaxDepth,    (* a bound on nested calls                                  *)
  MaxFaults,   (* a bound on failed initializations and interrupts         *)
  MaxRounds    (* a bound on the rounds of the finalization                *)

Actors == Threads \cup {Main}
Frames == Actors \X (1 .. MaxDepth)
Modules == Libraries \X (1 .. MaxCopies)   (* <<l, i>>: the i-th object of l *)

ASSUME ConstantsOK ==
  /\ IsFiniteSet(Threads) /\ Main \notin Threads
  /\ NULL \notin Libraries /\ NULL \notin Modules
  /\ Uses \in [Libraries -> SUBSET Libraries]
  /\ {MaxDepth, MaxRounds} \subseteq Nat \ {0}
  /\ {MaxCopies, MaxFaults} \subseteq Nat

(* No library needs itself, directly or not, to be initialized. *)
ASSUME UsesOK ==
  \E rank \in [Libraries -> 1 .. MaxDepth] :
    \A l \in Libraries : Uses[l] \subseteq {k \in Libraries : rank[k] < rank[l]}

VARIABLES
  order,     (* whether _dex_searchorder lets modules be found             *)
  map,       (* map[l]: the object of l in _dex_modules_map                *)
  made,      (* the module objects that have been made                     *)
  state,     (* state[m]: the flags in dm_state                            *)
  tickets,   (* tickets[m]: dm_tickets                                     *)
  cache,     (* the libraries whose generator has a value in dxe_gn_cache  *)
  prev, next,(* dm_initprev and dm_initnext                                *)
  last,      (* _dex_init_list                                             *)
  locked,    (* _dex_init_list_lock is held over several steps             *)
  pc, on, mod, todo,  (* of a frame: its place, the library it is about,   *)
             (* its module object, and the libraries DeeDex_Main still uses *)
  main,      (* the finalization: its place, load_order and load_next      *)
  rounds,    (* its rounds                                                 *)
  alone,     (* the other threads have ended                               *)
  unloading, (* the objects DeeHashMap_Clear has still to release          *)
  faults,    (* how many initializations failed and waits were interrupted *)
  lost       (* lost[m]: tickets nobody gives back                         *)

objects  == <<made, state, tickets>>
list     == <<prev, next, last, locked>>
frames   == <<pc, on, mod, todo>>
finalize == <<main, rounds, alone, unloading>>
vars == <<order, map, objects, cache, list, frames, finalize, faults, lost>>

Init ==
  /\ order = TRUE
  /\ map = [l \in Libraries |-> NULL]
  /\ made = {}
  /\ state = [m \in Modules |-> {}]
  /\ tickets = [m \in Modules |-> 0]
  /\ cache = {}
  /\ prev = [m \in Modules |-> NULL]
  /\ next = [m \in Modules |-> NULL]
  /\ last = NULL
  /\ locked = FALSE
  /\ pc = [f \in Frames |-> "out"]
  /\ on = [f \in Frames |-> NULL]
  /\ mod = [f \in Frames |-> NULL]
  /\ todo = [f \in Frames |-> {}]
  /\ main = [at |-> "run", load |-> NULL, next |-> NULL]
  /\ rounds = 0
  /\ alone = FALSE
  /\ unloading = {}
  /\ faults = 0
  /\ lost = [m \in Modules |-> 0]

----------------------------------------------------------------------------
Below(f) == <<f[1], f[2] - 1>>
Above(f) == {g \in Frames : g[1] = f[1] /\ g[2] > f[2]}

Go(f, place) == pc' = [pc EXCEPT ![f] = place]
Bind(f, m) == mod' = [mod EXCEPT ![f] = m]

Return(f) ==
  /\ Go(f, "out")
  /\ on' = [on EXCEPT ![f] = NULL]
  /\ Bind(f, NULL)
  /\ UNCHANGED todo

SetFlag(m, flag) == state' = [state EXCEPT ![m] = @ \cup {flag}]
ClearFlag(m, flag) == state' = [state EXCEPT ![m] = @ \ {flag}]
AddTicket(m) == tickets' = [tickets EXCEPT ![m] = @ + 1]
DropTicket(m) == tickets' = [tickets EXCEPT ![m] = @ - 1]

(* The program calls at depth 1, the main thread between the parts of the *)
(* finalization; a DeeDex_Main that initializes its module calls above.   *)
Call(f, l, place) ==
  /\ pc[f] = "out"
  /\ IF f[2] > 1 THEN pc[Below(f)] = "init" /\ l \in todo[Below(f)]
     ELSE IF f[1] = Main THEN main.at \in {"run", "collect"}
     ELSE ~alone
  /\ todo' = IF f[2] > 1 THEN [todo EXCEPT ![Below(f)] = @ \ {l}] ELSE todo
  /\ on' = [on EXCEPT ![f] = l]
  /\ Go(f, place)

----------------------------------------------------------------------------
(* DeeDex_ImportEx: DeeDex_Open, then an operation on the export. *)
Import(f, l) ==
  /\ f[2] = 1 => l \in Imports[f[1]]
  /\ Call(f, l, "open")
  /\ UNCHANGED <<order, map, objects, cache, list, mod, finalize, faults, lost>>

Lookup(f) ==
  /\ pc[f] = "open"
  /\ Bind(f, map[on[f]])
  /\ Go(f, IF map[on[f]] = NULL THEN "new" ELSE "acquire")
  /\ UNCHANGED <<order, map, objects, cache, list, on, todo, finalize, faults, lost>>

(* DeeDexModule_New finds the library through the search order. *)
New(f) ==
  /\ pc[f] = "new"
  /\ order
  /\ \E i \in 1 .. MaxCopies :
       /\ <<on[f], i>> \notin made
       /\ \A j \in 1 .. i - 1 : <<on[f], j>> \in made
       /\ made' = made \cup {<<on[f], i>>}
       /\ Bind(f, <<on[f], i>>)
  /\ Go(f, "insert")
  /\ UNCHANGED <<order, map, state, tickets, cache, list, on, todo, finalize, faults, lost>>

NotFound(f) ==
  /\ pc[f] = "new"
  /\ ~order
  /\ Return(f)
  /\ UNCHANGED <<order, map, objects, cache, list, finalize, faults, lost>>

(* The slower of two threads destroys its object and uses the other's. *)
Insert(f) ==
  /\ pc[f] = "insert"
  /\ IF map[on[f]] = NULL
     THEN map' = [map EXCEPT ![on[f]] = mod[f]] /\ Go(f, "acquire")
     ELSE Go(f, "shutdown") /\ UNCHANGED map
  /\ UNCHANGED <<order, objects, cache, list, on, mod, todo, finalize, faults, lost>>

----------------------------------------------------------------------------
(* DeeDexModule_Acquire *)
Acquire(f) ==
  /\ pc[f] = "acquire"
  /\ IF "SHUTDOWN" \in state[mod[f]]
     THEN Return(f) /\ UNCHANGED tickets
     ELSE AddTicket(mod[f]) /\ Go(f, "claim") /\ UNCHANGED <<on, mod, todo>>
  /\ UNCHANGED <<order, map, made, state, cache, list, finalize, faults, lost>>

(* Fault: INITIALIZING does not keep others from initializing. *)
ClaimAnyway(f) ==
  LET flags == state[mod[f]] IN
  /\ pc[f] = "claim"
  /\ SetFlag(mod[f], "INITIALIZING")
  /\ IF "INITIALIZED" \notin flags
     THEN Go(f, "init") /\ todo' = [todo EXCEPT ![f] = Uses[on[f]]]
     ELSE Go(f, "inside") /\ UNCHANGED todo
  /\ UNCHANGED <<order, map, made, tickets, cache, list, on, mod, finalize, faults, lost>>

(* wait_init: who sets INITIALIZING calls DeeDex_Main. *)
Claim(f) ==
  LET flags == state[mod[f]] IN
  /\ pc[f] = "claim"
  /\ SetFlag(mod[f], "INITIALIZING")
  /\ IF "INITIALIZING" \notin flags
     THEN Go(f, "init") /\ todo' = [todo EXCEPT ![f] = Uses[on[f]]]
     ELSE Go(f, IF "INITIALIZED" \in flags THEN "inside" ELSE "sleep") /\ UNCHANGED todo
  /\ UNCHANGED <<order, map, made, tickets, cache, list, on, mod, finalize, faults, lost>>

WakeUp(f) ==
  /\ pc[f] = "sleep"
  /\ Go(f, IF "SHUTDOWN" \in state[mod[f]] THEN "release" ELSE "claim")
  /\ UNCHANGED <<order, map, objects, cache, list, on, mod, todo, finalize, faults, lost>>

(* DeeThread_Sleep raises an interrupt, and the ticket is not given back. *)
Interrupted(f) ==
  /\ pc[f] = "sleep"
  /\ faults < MaxFaults
  /\ faults' = faults + 1
  /\ lost' = [lost EXCEPT ![mod[f]] = @ + 1]
  /\ Return(f)
  /\ UNCHANGED <<order, map, objects, cache, list, finalize>>

InitSucceeds(f) ==
  /\ pc[f] = "init"
  /\ todo[f] = {}
  /\ \A g \in Above(f) : pc[g] = "out"
  /\ SetFlag(mod[f], "INITIALIZED")
  /\ Go(f, "register")
  /\ UNCHANGED <<order, map, made, tickets, cache, list, on, mod, todo, finalize, faults, lost>>

(* A failed initialization takes back the ticket, and then INITIALIZING. *)
InitFails(f) ==
  /\ pc[f] = "init"
  /\ faults < MaxFaults
  /\ \A g \in Above(f) : pc[g] = "out"
  /\ faults' = faults + 1
  /\ DropTicket(mod[f])
  /\ todo' = [todo EXCEPT ![f] = {}]
  /\ Go(f, "retract")
  /\ UNCHANGED <<order, map, made, state, cache, list, on, mod, finalize, lost>>

(* Fault: INITIALIZING stays set. *)
RetractNothing(f) ==
  /\ pc[f] = "retract"
  /\ Return(f)
  /\ UNCHANGED <<order, map, objects, cache, list, finalize, faults, lost>>

(* Fault: the ticket is given back here as well. *)
RetractTicket(f) ==
  /\ pc[f] = "retract"
  /\ ClearFlag(mod[f], "INITIALIZING")
  /\ DropTicket(mod[f])
  /\ Return(f)
  /\ UNCHANGED <<order, map, made, cache, list, finalize, faults, lost>>

Retract(f) ==
  /\ pc[f] = "retract"
  /\ ClearFlag(mod[f], "INITIALIZING")
  /\ Return(f)
  /\ UNCHANGED <<order, map, made, tickets, cache, list, finalize, faults, lost>>

(* DeeDexModule_REGISTER_INITIALIZED *)
Register(f) ==
  /\ pc[f] = "register"
  /\ ~locked
  /\ prev' = [prev EXCEPT ![mod[f]] = last]
  /\ next' = IF last = NULL THEN next ELSE [next EXCEPT ![last] = mod[f]]
  /\ last' = mod[f]
  /\ Go(f, "inside")
  /\ UNCHANGED <<order, map, objects, cache, locked, on, mod, todo, finalize, faults, lost>>

(* An operation on an export: a generator makes its value or hands out the *)
(* cached one, DelAttr destroys it, and every other leaves it alone, as    *)
(* does DeeDex_Main when it collects memory.                               *)
Operate(f) ==
  /\ pc[f] \in {"inside", "handle"}
  /\ cache' \in {cache, cache \cup ({on[f]} \cap Generators), cache \ {on[f]}}
  /\ pc[f] = "handle" => cache' = cache
  /\ Go(f, "release")
  /\ UNCHANGED <<order, map, objects, list, on, mod, todo, finalize, faults, lost>>

(* DeeDexModule_Release *)
Release(f) ==
  /\ pc[f] = "release"
  /\ DropTicket(mod[f])
  /\ Return(f)
  /\ UNCHANGED <<order, map, made, state, cache, list, finalize, faults, lost>>

----------------------------------------------------------------------------
(* DeeDex_CollectMemoryEx, at one module of the map. *)
CollectMemory(f, l) ==
  /\ f[2] = 1
  /\ f[1] \in Collectors
  /\ map[l] # NULL
  /\ Call(f, l, "try")
  /\ Bind(f, map[l])
  /\ UNCHANGED <<order, map, objects, cache, list, finalize, faults, lost>>

Initialized(flags) == "INITIALIZED" \in flags
BeingInitialized(flags) == "INITIALIZING" \in flags /\ ~Initialized(flags)

(* Fault: the ticket of a module that is not initialized is kept. *)
TryAcquireKeeping(f) ==
  LET flags == state[mod[f]] IN
  /\ pc[f] = "try"
  /\ IF "SHUTDOWN" \in flags
     THEN Return(f) /\ UNCHANGED tickets
     ELSE /\ AddTicket(mod[f])
          /\ IF Initialized(flags)
             THEN Go(f, "handle") /\ UNCHANGED <<on, mod, todo>>
             ELSE Return(f)
  /\ UNCHANGED <<order, map, made, state, cache, list, finalize, faults, lost>>

(* DeeDexModule_TryAcquire *)
TryAcquire(f) ==
  LET flags == state[mod[f]] IN
  /\ pc[f] = "try"
  /\ IF "SHUTDOWN" \in flags
     THEN Return(f) /\ UNCHANGED tickets
     ELSE /\ AddTicket(mod[f])
          /\ Go(f, IF BeingInitialized(flags) THEN "await"
                   ELSE IF Initialized(flags) THEN "handle" ELSE "release")
          /\ UNCHANGED <<on, mod, todo>>
  /\ UNCHANGED <<order, map, made, state, cache, list, finalize, faults, lost>>

Await(f) ==
  LET flags == state[mod[f]] IN
  /\ pc[f] = "await"
  /\ "SHUTDOWN" \in flags \/ ~BeingInitialized(flags)
  /\ Go(f, IF "SHUTDOWN" \notin flags /\ Initialized(flags) THEN "handle" ELSE "release")
  /\ UNCHANGED <<order, map, objects, cache, list, on, mod, todo, finalize, faults, lost>>

----------------------------------------------------------------------------
(* DeeDexModule_Shutdown, by the destructor of a module object. *)
Shutdown(f) ==
  /\ pc[f] = "shutdown"
  /\ SetFlag(mod[f], "SHUTDOWN")
  /\ Go(f, "drain")
  /\ UNCHANGED <<order, map, made, tickets, cache, list, on, mod, todo, finalize, faults, lost>>

(* The tickets are gone: the cached values of the library are destroyed. *)
Drain(f) ==
  /\ pc[f] = "drain"
  /\ tickets[mod[f]] = 0
  /\ cache' = cache \ {on[f]}
  /\ Go(f, IF Initialized(state[mod[f]]) THEN "finalize" ELSE "finalized")
  /\ UNCHANGED <<order, map, objects, list, on, mod, todo, finalize, faults, lost>>

(* DeeDex_Main has handled FINALIZE. *)
Finalize(f) ==
  /\ pc[f] = "finalize"
  /\ Go(f, "finalized")
  /\ UNCHANGED <<order, map, objects, cache, list, on, mod, todo, finalize, faults, lost>>

SetFinalized(f) ==
  /\ pc[f] = "finalized"
  /\ SetFlag(mod[f], "FINALIZED")
  /\ Go(f, "unregister")
  /\ UNCHANGED <<order, map, made, tickets, cache, list, on, mod, todo, finalize, faults, lost>>

(* Fault: the object's neighbour in the list keeps its pointer to it. *)
UnregisterOneWay(f) ==
  LET m == mod[f] IN
  /\ pc[f] = "unregister"
  /\ ~locked
  /\ next' = [next EXCEPT ![m] = NULL]
  /\ prev' = [o \in Modules |-> IF o = m THEN NULL
                                ELSE IF o = next[m] THEN prev[m] ELSE prev[o]]
  /\ last' = IF next[m] = NULL /\ last = m THEN prev[m] ELSE last
  /\ IF map[on[f]] = NULL THEN Return(f)
     ELSE Bind(f, map[on[f]]) /\ Go(f, "acquire") /\ UNCHANGED <<on, todo>>
  /\ UNCHANGED <<order, map, objects, cache, locked, faults, finalize, lost>>

(* DeeDexModule_UNREGISTER_INITIALIZED; DeeDex_Open goes on with the object *)
(* it has found.                                                            *)
Unregister(f) ==
  LET m == mod[f] IN
  /\ pc[f] = "unregister"
  /\ ~locked
  /\ next' = [o \in Modules |-> IF o = m THEN NULL
                                ELSE IF o = prev[m] THEN next[m] ELSE next[o]]
  /\ prev' = [o \in Modules |-> IF o = m THEN NULL
                                ELSE IF o = next[m] THEN prev[m] ELSE prev[o]]
  /\ last' = IF next[m] = NULL /\ last = m THEN prev[m] ELSE last
  /\ IF map[on[f]] = NULL THEN Return(f)
     ELSE Bind(f, map[on[f]]) /\ Go(f, "acquire") /\ UNCHANGED <<on, todo>>
  /\ UNCHANGED <<order, map, objects, cache, locked, finalize, faults, lost>>

----------------------------------------------------------------------------
(* Dee_FinalizeEx.  The main thread is in none of its own calls. *)
Finalizing(place) == main.at = place /\ pc[<<Main, 1>>] = "out"
Step(place) == main' = [main EXCEPT !.at = place]

(* _DeeDex_ShutdownApi: no more modules are found. *)
ShutdownApi ==
  /\ Finalizing("run")
  /\ order' = FALSE
  /\ rounds' = 1
  /\ Step("lock")
  /\ UNCHANGED <<map, objects, cache, list, frames, alone, unloading, faults, lost>>

LockList ==
  /\ Finalizing("lock")
  /\ ~locked
  /\ locked' = TRUE
  /\ main' = [at |-> "walk", load |-> last, next |-> NULL]
  /\ UNCHANGED <<order, map, objects, cache, prev, next, last, frames,
                 rounds, alone, unloading, faults, lost>>

(* load_next is read, and TryAcquire called, with the list locked. *)
NextModule ==
  /\ Finalizing("walk")
  /\ main.load # NULL
  /\ IF "SHUTDOWN" \in state[main.load]
     THEN main' = [main EXCEPT !.load = prev[main.load]] /\ UNCHANGED tickets
     ELSE /\ AddTicket(main.load)
          /\ main' = [main EXCEPT !.at = "await", !.next = prev[main.load]]
  /\ UNCHANGED <<order, map, made, state, cache, list, frames,
                 rounds, alone, unloading, faults, lost>>

(* The lock is released for the SHUTDOWN event. *)
TellModule ==
  LET flags == state[main.load] IN
  /\ Finalizing("await")
  /\ "SHUTDOWN" \in flags \/ ~BeingInitialized(flags)
  /\ IF "SHUTDOWN" \notin flags /\ Initialized(flags)
     THEN Step("handle") /\ locked' = FALSE
     ELSE Step("told") /\ UNCHANGED locked
  /\ UNCHANGED <<order, map, objects, cache, prev, next, last, frames,
                 rounds, alone, unloading, faults, lost>>

Told ==
  /\ Finalizing("handle")
  /\ ~locked
  /\ locked' = TRUE
  /\ Step("told")
  /\ UNCHANGED <<order, map, objects, cache, prev, next, last, frames,
                 rounds, alone, unloading, faults, lost>>

ReleaseModule ==
  /\ Finalizing("told")
  /\ DropTicket(main.load)
  /\ main' = [at |-> "walk", load |-> main.next, next |-> NULL]
  /\ UNCHANGED <<order, map, made, state, cache, list, frames,
                 rounds, alone, unloading, faults, lost>>

UnlockList ==
  /\ Finalizing("walk")
  /\ main.load = NULL
  /\ locked' = FALSE
  /\ Step("join")
  /\ UNCHANGED <<order, map, objects, cache, prev, next, last, frames,
                 rounds, alone, unloading, faults, lost>>

(* DeeThread_PrepareFinalize waits for the threads; the collector then runs *)
(* destructors.                                                             *)
JoinThreads ==
  /\ Finalizing("join")
  /\ \A f \in Frames : pc[f] = "out"
  /\ alone' = TRUE
  /\ Step("collect")
  /\ UNCHANGED <<order, map, objects, cache, list, frames, rounds, unloading, faults, lost>>

(* The collector has destroyed something: once more. *)
Again ==
  /\ Finalizing("collect")
  /\ rounds < MaxRounds
  /\ rounds' = rounds + 1
  /\ Step("lock")
  /\ UNCHANGED <<order, map, objects, cache, list, frames, alone, unloading, faults, lost>>

(* _DeeDex_QuitApi: DeeHashMap_Clear empties the map, ... *)
QuitApi ==
  /\ Finalizing("collect")
  /\ unloading' = {map[l] : l \in Libraries} \ {NULL}
  /\ map' = [l \in Libraries |-> NULL]
  /\ Step("quit")
  /\ UNCHANGED <<order, objects, cache, list, frames, rounds, alone, faults, lost>>

(* ... and releases the objects in the order of the hashes. *)
Unload(m) ==
  /\ Finalizing("quit")
  /\ m \in unloading
  /\ unloading' = unloading \ {m}
  /\ on' = [on EXCEPT ![<<Main, 1>>] = m[1]]
  /\ Bind(<<Main, 1>>, m)
  /\ Go(<<Main, 1>>, "shutdown")
  /\ UNCHANGED <<order, map, objects, cache, list, todo, main, rounds, alone, faults, lost>>

----------------------------------------------------------------------------
(* What goes on in a frame once it has been called. *)
Proceed(f) ==
  \/ Lookup(f) \/ New(f) \/ NotFound(f) \/ Insert(f)
  \/ Acquire(f) \/ Claim(f) \/ WakeUp(f) \/ InitSucceeds(f) \/ InitFails(f) \/ Retract(f)
  \/ Register(f) \/ Operate(f) \/ Release(f)
  \/ TryAcquire(f) \/ Await(f)
  \/ Shutdown(f) \/ Drain(f) \/ Finalize(f) \/ SetFinalized(f) \/ Unregister(f)

Walk ==
  LockList \/ NextModule \/ TellModule \/ Told \/ ReleaseModule \/ UnlockList

Next ==
  \/ \E f \in Frames :
       \/ Proceed(f) \/ Interrupted(f)
       \/ \E l \in Libraries : Import(f, l) \/ CollectMemory(f, l)
  \/ ShutdownApi \/ Walk \/ JoinThreads \/ Again \/ QuitApi
  \/ \E m \in Modules : Unload(m)

(* A frame goes on, a DeeDex_Main that initializes its module calls what it *)
(* needs, and the finalization that has begun goes on when the threads have *)
(* ended; the destructors the collector runs do not call for ever.  Nothing *)
(* makes a thread call or stop calling, or interrupts it.                   *)
Fairness ==
  /\ \A f \in Frames :
       /\ WF_vars(Proceed(f))
       /\ f[2] > 1 => WF_vars(\E l \in Libraries : Import(f, l))
  /\ WF_vars(Walk)
  /\ WF_vars(JoinThreads)
  /\ SF_vars(QuitApi)
  /\ WF_vars(\E m \in Modules : Unload(m))

Spec == Init /\ [][Next]_vars /\ Fairness

----------------------------------------------------------------------------
ModuleOrNull == Modules \cup {NULL}
Flags == {"INITIALIZING", "INITIALIZED", "SHUTDOWN", "FINALIZED"}
Places == {"out", "open", "new", "insert", "acquire", "claim", "sleep", "init",
           "retract", "register", "inside", "release", "try", "await", "handle",
           "shutdown", "drain", "finalize", "finalized", "unregister"}

(* Every variable has its type, ... *)
TypeOK ==
  /\ order \in BOOLEAN /\ locked \in BOOLEAN /\ alone \in BOOLEAN
  /\ map \in [Libraries -> ModuleOrNull]
  /\ made \subseteq Modules
  /\ state \in [Modules -> SUBSET Flags]
  /\ tickets \in [Modules -> Nat]
  /\ cache \subseteq Libraries
  /\ prev \in [Modules -> ModuleOrNull] /\ next \in [Modules -> ModuleOrNull]
  /\ last \in ModuleOrNull
  /\ pc \in [Frames -> Places]
  /\ on \in [Frames -> Libraries \cup {NULL}]
  /\ mod \in [Frames -> ModuleOrNull]
  /\ todo \in [Frames -> SUBSET Libraries]
  /\ main \in [at : {"run", "lock", "walk", "await", "handle", "told", "join", "collect", "quit"},
               load : ModuleOrNull, next : ModuleOrNull]
  /\ rounds \in 0 .. MaxRounds
  /\ unloading \subseteq Modules
  /\ faults \in 0 .. MaxFaults
  /\ lost \in [Modules -> 0 .. MaxFaults]

In(l, places) == {f \in Frames : on[f] = l /\ pc[f] \in places}
Telling == main.at \in {"await", "handle", "told"}

(* dm_tickets counts the calls that use the module, the one the finalization *)
(* makes, and those that were interrupted while they waited: a count that    *)
(* is too low lets the module be finalized under a user, and one that is too *)
(* high makes DeeDexModule_Shutdown wait for ever.                           *)
TicketsExact ==
  \A m \in Modules :
    tickets[m] =
      Cardinality({f \in Frames : mod[f] = m /\ pc[f] \in
        {"claim", "sleep", "init", "register", "inside", "release", "await", "handle"}})
      + (IF Telling /\ main.load = m THEN 1 ELSE 0) + lost[m]

(* The events of a library's DeeDex_Main (include/deemon/dex.h, "guarantied *)
(* to be the first event" and "the last event"): INITIALIZE is called by    *)
(* one thread at a time and never again once it succeeded, whichever object *)
(* of the library is used; the operations and the other events happen       *)
(* between its success and FINALIZE, which is called once.                  *)
EventsInOrder ==
  \A l \in Libraries :
    LET Some(flags) == \E m \in Modules : m[1] = l /\ flags \subseteq state[m]
        initializing == In(l, {"init"})
        finalizing == In(l, {"finalize"})
        finalized == Some({"INITIALIZED", "FINALIZED"})
    IN /\ Cardinality(initializing \cup finalizing) <= 1
       /\ initializing # {} => ~Some({"INITIALIZED"})
       /\ finalizing # {} => Some({"INITIALIZED"}) /\ ~finalized
       /\ In(l, {"inside", "handle"}) # {} \/ (main.at = "handle" /\ main.load[1] = l)
            => Some({"INITIALIZED"}) /\ ~finalized /\ finalizing = {}

(* The objects _dex_init_list is to have. *)
Registered ==
  {m \in Modules :
    /\ "INITIALIZED" \in state[m]
    /\ \A f \in Frames : mod[f] = m => pc[f] # "register"
    /\ "FINALIZED" \in state[m] => \E f \in Frames : mod[f] = m /\ pc[f] = "unregister"}

(* The n newest objects of the list. *)
Newest(n) ==
  LET walk[i \in 1 .. n] == IF i = 1 THEN last
                            ELSE IF walk[i - 1] = NULL THEN NULL ELSE prev[walk[i - 1]]
  IN {walk[i] : i \in 1 .. n} \ {NULL}

(* The list has every initialized object, linked in both directions, though *)
(* objects leave it in any order, and where the finalization is in it, and  *)
(* the load_next it has read before it released the lock, stay good.        *)
ListExact ==
  LET n == Cardinality(Registered) IN
  /\ Newest(n) = Registered /\ Newest(n + 1) = Registered
  /\ \A m, o \in Registered : prev[m] = o <=> next[o] = m
  /\ last # NULL => next[last] = NULL
  /\ \A m \in Modules \ Registered : prev[m] = NULL /\ next[m] = NULL
  /\ main.load \in Registered \cup {NULL}
  /\ Telling => main.load # NULL /\ main.next = prev[main.load]

(* Initializations that need other modules, threads that wait for them, the *)
(* list's lock held over a call and the finalization never wait for each    *)
(* other: every call returns, and once the threads have ended all modules   *)
(* are finalized and the values of their generators destroyed; unless a     *)
(* ticket was lost.                                                         *)
LoadingEnds ==
  /\ \A f \in Frames :
       pc[f] # "out" ~> pc[f] = "out" \/ (pc[f] = "drain" /\ lost[mod[f]] > 0)
  /\ alone ~> \/ main.at = "quit" /\ unloading = {} /\ cache = {} /\ Registered = {}
              \/ \E m \in Modules : lost[m] > 0
=============================================================================
