---------------------------- MODULE ModuleLoader ----------------------------
(***************************************************************************)
(* Loading and unloading kernel modules (kernel/module/module.c): callers  *)
(* of module_load and module_unload, and the thread that initialises each  *)
(* module, loads its dependencies first and waits for them.  Of the ELF    *)
(* file only the outcome of every check matters; the symbols of a module   *)
(* stand for one.                                                          *)
(***************************************************************************)
EXTENDS Integers, Sequences, FiniteSets

CONSTANTS
    Names,        \* modules with a file, in which nothing else is loaded
    Kind,         \* by name: "good", "bad_header", "bad_sections" or "unloads_itself"
    Depends,      \* by name: the sequence of dependencies
    PreventLoads, \* the names with MODULE_FLAG_PREVENT_LOADS
    Callers,      \* threads that call module_load
    Unloaders,    \* those of Callers that also call module_unload
    Alone,        \* TRUE: only one thread at a time unloads a module
    MaxLoads      \* bound on the calls of module_load

VARIABLES
    module,       \* module_t by name: the handle's count, state, flags, event
    thread,       \* by name: where its initialisation thread stands
    symbols,      \* the names whose symbols are in the symbol table
    caller,       \* where every caller stands
    loads,        \* calls of module_load so far
    initialised   \* history: names whose initialisers ran at least once

vars == <<module, thread, symbols, caller, loads, initialised>>

NoModule == [rc |-> 0, state |-> "none", early |-> FALSE, event |-> FALSE]
Alive(n) == module[n].rc > 0
NotStarted == [pc |-> "none", dep |-> 1, ok |-> TRUE]

Init ==
    /\ module = [n \in Names |-> NoModule]
    /\ thread = [n \in Names |-> NotStarted]
    /\ symbols = {} /\ loads = 0 /\ initialised = {}
    /\ caller = [t \in Callers |-> [pc |-> "idle", name |-> "", async |-> FALSE]]

(* handle_release; the last one destroys the module and its event          *)
Released(m) == IF m.rc = 1 THEN NoModule ELSE [m EXCEPT !.rc = @ - 1]

(* module_load under _module_load_lock: module_lookup, or a new module     *)
Opened(m) ==
    IF m.rc > 0 THEN [m EXCEPT !.rc = @ + 1]
    ELSE [rc |-> 1, state |-> "loading", early |-> FALSE, event |-> FALSE]

(* ... and after it: the header decides whether a thread is started        *)
Checked(n, m) == IF Kind[n] = "bad_header" THEN Released(m) ELSE [m EXCEPT !.rc = @ + 2]
Started(n) ==
    IF Kind[n] = "bad_header" THEN UNCHANGED thread
    ELSE thread' = [thread EXCEPT ![n] = [NotStarted EXCEPT !.pc = "sections"]]

GotoCaller(t, pc) == caller' = [caller EXCEPT ![t].pc = pc]

Load(t, n, async) ==
    /\ caller[t].pc = "idle" /\ loads < MaxLoads /\ loads' = loads + 1
    /\ module' = [module EXCEPT ![n] = Opened(@)]
    /\ caller' = [caller EXCEPT ![t] = [pc |-> IF Alive(n) THEN "holds" ELSE "check",
                                        name |-> n, async |-> async]]
    /\ UNCHANGED <<thread, symbols, initialised>>

Check(t) ==
    LET n == caller[t].name
    IN  /\ caller[t].pc = "check"
        /\ module' = [module EXCEPT ![n] = Checked(n, @)] /\ Started(n)
        /\ GotoCaller(t, IF Kind[n] = "bad_header" THEN "idle"
                         ELSE IF caller[t].async THEN "holds" ELSE "await")
        /\ UNCHANGED <<symbols, loads, initialised>>

(* event_await on load_event, without MODULE_LOAD_FLAG_ASYNC               *)
Await(t) ==
    /\ caller[t].pc = "await" /\ module[caller[t].name].event
    /\ GotoCaller(t, "holds")
    /\ UNCHANGED <<module, thread, symbols, loads, initialised>>

(* The caller gives its reference back                                     *)
Release(t) ==
    /\ caller[t].pc = "holds"
    /\ module' = [module EXCEPT ![caller[t].name] = Released(@)]
    /\ GotoCaller(t, "idle")
    /\ UNCHANGED <<thread, symbols, loads, initialised>>

-----------------------------------------------------------------------------
(* _async_initialization_thread *)
Goto(n, pc) == thread' = [thread EXCEPT ![n].pc = pc]

(* _map_sections, _find_elf_sections, the first _apply_relocations         *)
Sections(n) ==
    /\ thread[n].pc = "sections"
    /\ Goto(n, IF Kind[n] = "bad_sections" THEN "error" ELSE "depend")
    /\ UNCHANGED <<module, symbols, caller, loads, initialised>>

Dependency(n) == Depends[n][thread[n].dep]
HasNext(n) == thread[n].dep <= Len(Depends[n])

(* _resolve_dependencies: module_load, asynchronously, of the next one     *)
Depend(n) ==
    /\ thread[n].pc = "depend" /\ HasNext(n)
    /\ LET other == Dependency(n)
       IN  /\ module' = [module EXCEPT ![other] = Opened(@)]
           /\ Goto(n, IF Alive(other) THEN "state" ELSE "check")
    /\ UNCHANGED <<symbols, caller, loads, initialised>>

DependCheck(n) ==
    LET other == Dependency(n)
        bad == Kind[other] = "bad_header"
    IN  /\ thread[n].pc = "check"
        /\ module' = [module EXCEPT ![other] = Checked(other, @)]
        /\ thread' = [thread EXCEPT
              ![n] = IF bad THEN [pc |-> "depend", dep |-> @.dep + 1, ok |-> FALSE]
                     ELSE [@ EXCEPT !.pc = "state"],
              ![other] = IF bad THEN @ ELSE [NotStarted EXCEPT !.pc = "sections"]]
        /\ UNCHANGED <<symbols, caller, loads, initialised>>

DependState(n) ==
    /\ thread[n].pc = "state"
    /\ thread' = [thread EXCEPT ![n] = [pc |-> "wait", dep |-> @.dep,
                     ok |-> @.ok /\ module[Dependency(n)].state \in {"loading", "loaded"}]]
    /\ UNCHANGED <<module, symbols, caller, loads, initialised>>

(* Faulty variant: the event is not awaited.                               *)
DependWaitNot(n) ==
    /\ thread[n].pc = "wait"
    /\ module' = [module EXCEPT ![Dependency(n)] = Released(@)]
    /\ thread' = [thread EXCEPT ![n] = [@ EXCEPT !.pc = "depend", !.dep = @ + 1]]
    /\ UNCHANGED <<symbols, caller, loads, initialised>>

DependWait(n) ==
    /\ thread[n].pc = "wait" /\ module[Dependency(n)].event
    /\ module' = [module EXCEPT ![Dependency(n)] = Released(@)]
    /\ thread' = [thread EXCEPT ![n] = [@ EXCEPT !.pc = "depend", !.dep = @ + 1]]
    /\ UNCHANGED <<symbols, caller, loads, initialised>>

(* _resolve_symbol_table looks up symbols of its dependencies and adds its *)
(* own; the second _apply_relocations                                      *)
Resolve(n) ==
    LET found == \A k \in DOMAIN Depends[n] : Depends[n][k] \in symbols
    IN  /\ thread[n].pc = "depend" /\ ~HasNext(n)
        /\ IF thread[n].ok /\ found
           THEN Goto(n, "header") /\ symbols' = symbols \union {n}
           ELSE Goto(n, "error") /\ UNCHANGED symbols
        /\ UNCHANGED <<module, caller, loads, initialised>>

(* _process_module_header sets the flags anew                              *)
Header(n) ==
    /\ thread[n].pc = "header"
    /\ module' = [module EXCEPT ![n].early = FALSE]
    /\ Goto(n, "run")
    /\ UNCHANGED <<symbols, caller, loads, initialised>>

(* The initialisers, one of which may call module_unload                   *)
Run(n) ==
    LET early == module[n].early \/ Kind[n] = "unloads_itself"
    IN  /\ thread[n].pc = "run"
        /\ module' = [module EXCEPT ![n].early = early]
        /\ Goto(n, IF early THEN "unload" ELSE "adjust")
        /\ initialised' = initialised \union {n}
        /\ UNCHANGED <<symbols, caller, loads>>

Adjust(n) ==
    /\ thread[n].pc \in {"adjust", "unload"}
    /\ module' = [module EXCEPT ![n].state = "loaded"]
    /\ Goto(n, IF thread[n].pc = "adjust" THEN "announce" ELSE "deinit_test")
    /\ UNCHANGED <<symbols, caller, loads, initialised>>

(* The event, and the thread's reference                                   *)
Announce(n) ==
    /\ thread[n].pc = "announce"
    /\ module' = [module EXCEPT ![n] = Released([@ EXCEPT !.event = TRUE])]
    /\ Goto(n, "none")
    /\ UNCHANGED <<symbols, caller, loads, initialised>>

(* _load_error: nobody is told                                             *)
LoadError(n) ==
    /\ thread[n].pc = "error"
    /\ symbols' = symbols \ {n}
    /\ module' = [module EXCEPT ![n] = LET m == Released([@ EXCEPT !.state = "unloaded"])
                                      IN  IF m.rc > 0 THEN Released(m) ELSE m]
    /\ Goto(n, "none")
    /\ UNCHANGED <<caller, loads, initialised>>

-----------------------------------------------------------------------------
(* module_unload, by a caller or by the initialisation thread: the state   *)
(* is tested and set later, the finalisers run, the module's own reference *)
(* is given back.  While it loads the module is only marked.               *)
After(m, pc, n) ==
    CASE pc = "deinit_test" /\ m.state = "loading" -> [m EXCEPT !.early = TRUE]
      [] pc = "deinit_set" -> [m EXCEPT !.state = "unloading"]
      [] pc = "deinit_run" -> [m EXCEPT !.state = "unloaded"]
      [] pc = "deinit_release" /\ n \notin PreventLoads -> Released(m)
      [] OTHER -> m

Following(m, pc, end) ==
    CASE pc = "deinit_test" -> IF m.state = "loaded" THEN "deinit_set" ELSE end
      [] pc = "deinit_set" -> "deinit_run"
      [] pc = "deinit_run" -> "deinit_release"
      [] pc = "deinit_release" -> end

Unloading == {"deinit_test", "deinit_set", "deinit_run", "deinit_release"}

UnloadStep(n, pc) ==
    /\ pc \in Unloading
    /\ module' = [module EXCEPT ![n] = After(@, pc, n)]
    /\ symbols' = IF pc = "deinit_run" THEN symbols \ {n} ELSE symbols
    /\ UNCHANGED <<loads, initialised>>

UnloadSelf(n) ==
    /\ UnloadStep(n, thread[n].pc)
    /\ Goto(n, Following(module[n], thread[n].pc, "announce"))
    /\ UNCHANGED caller

(* The test and the change of the state are not under a lock: it is left   *)
(* to the callers that two threads do not unload one module.               *)
OthersUnload(t) ==
    LET n == caller[t].name
    IN  \/ Kind[n] = "unloads_itself"
        \/ module[n].early /\ thread[n].pc # "none"
        \/ \E u \in Callers \ {t} : caller[u].pc \in Unloading /\ caller[u].name = n

CallUnload(t) ==
    /\ t \in Unloaders /\ caller[t].pc = "holds" /\ (Alone => ~OthersUnload(t))
    /\ GotoCaller(t, "deinit_test")
    /\ UNCHANGED <<module, thread, symbols, loads, initialised>>

Unload(t) ==
    /\ UnloadStep(caller[t].name, caller[t].pc)
    /\ GotoCaller(t, Following(module[caller[t].name], caller[t].pc, "holds"))
    /\ UNCHANGED thread

-----------------------------------------------------------------------------
CallerStep(t) == Check(t) \/ Await(t) \/ Unload(t)

ThreadStep(n) ==
    \/ Sections(n) \/ Depend(n) \/ DependCheck(n) \/ DependState(n) \/ DependWait(n) \/ Resolve(n)
    \/ Header(n) \/ Run(n) \/ Adjust(n) \/ Announce(n) \/ LoadError(n) \/ UnloadSelf(n)

Next ==
    \/ \E t \in Callers :
          \/ \E n \in Names, async \in BOOLEAN : Load(t, n, async)
          \/ CallerStep(t) \/ Release(t) \/ CallUnload(t)
    \/ \E n \in Names : ThreadStep(n)

(* Threads run, and a caller that is in the kernel goes on                 *)
Fairness ==
    /\ \A n \in Names : WF_vars(ThreadStep(n))
    /\ \A t \in Callers : WF_vars(CallerStep(t))

Spec == Init /\ [][Next]_vars /\ Fairness

-----------------------------------------------------------------------------
(* The module's own reference, from the start of its thread until it is    *)
(* unloaded; a module that prevents further loads keeps it.                *)
OwnsItself(n) ==
    \/ module[n].state \in {"loaded", "unloading"}
    \/ module[n].state = "loading" /\ thread[n].pc # "none"
    \/ module[n].state = "unloaded" /\ n \in PreventLoads /\ n \in initialised
    \/ module[n].state = "unloaded" /\ thread[n].pc = "deinit_release"
    \/ \E t \in Callers : caller[t].pc = "deinit_release" /\ caller[t].name = n

Holders(n) ==
    Cardinality({t \in Callers : caller[t].pc # "idle" /\ caller[t].name = n})
    + Cardinality({k \in Names : thread[k].pc \in {"check", "state", "wait"} /\ Dependency(k) = n})
    + (IF thread[n].pc # "none" THEN 1 ELSE 0) + (IF OwnsItself(n) THEN 1 ELSE 0)

(* The handle of a module counts the callers and dependants that use it,   *)
(* its initialisation thread and itself, on every path out of module_load, *)
(* module_unload and the thread (module.c): nobody is left with a module   *)
(* that is gone, and none is kept for nobody.                              *)
ModulesAreCounted == \A n \in Names : module[n].rc = Holders(n)

(* The initialisers of a module run only after those of all modules that   *)
(* it depends on (module.c, _resolve_dependencies), whoever loads them.    *)
DependenciesFirst ==
    \A n \in initialised : \A k \in DOMAIN Depends[n] : Depends[n][k] \in initialised

(* A module that is in use or loading has its symbols in the table while   *)
(* its code can run, and one that is gone has none (module.c).             *)
SymbolsAreOfModules ==
    \A n \in Names :
        /\ n \in symbols => Alive(n)
        /\ module[n].state \in {"loaded", "unloading"} \/ thread[n].pc = "run" => n \in symbols

(* A call of module_load that waits returns, unless the module failed to   *)
(* load (module.c, load_event).                                            *)
LoadOfGoodReturns ==
    \A t \in Callers :
        []<>(caller[t].pc = "await" => module[caller[t].name].state = "unloaded")

(* Every call of module_load returns, as the tests of modules that cannot  *)
(* be loaded expect (module/test/test/module.c).                           *)
LoadReturns == \A t \in Callers : []<>(caller[t].pc # "await")
=============================================================================
