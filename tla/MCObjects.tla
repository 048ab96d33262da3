----------------------------- MODULE MCObjects ------------------------------
(* The objects of processes on small instances: handles with three threads *)
(* and two objects, the access control list of one object with an ordinary *)
(* and a root process that share a cache entry, the signals of a process   *)
(* with two threads, the resource manager on eight numbers, the accounts   *)
(* with two threads that change them, and the line editor on lines of two  *)
(* characters.  `part` says which of them a behaviour is about; the others *)
(* stay in their initial states.                                           *)
EXTENDS Handle, Sequences

CONSTANTS a, b, c

VARIABLES part,
    acltree, cache, call, granted,
    process, thread, signalled, todo, origin,
    regions, out, value,
    groups, users, gids, uids, file, apc, copy, past, alone, clean,
    state, screen, direct, reading, sent, count_sent, entered, lines, typed

ThreeUsers == {a, b, c}
OnlyA == {a}
OnlyB == {b}

\* Process 3 is root; 1 and 3 share an entry of the cache.
Acl == INSTANCE Acl WITH
    Processes <- {0, 1, 3}, Root <- {3}, Permissions <- {"read", "write"}, CacheSize <- 2,
    tree <- acltree
aclVars == <<acltree, cache, call, granted>>

\* Words of eight bits and an int of four, as 64 and 32 in the kernel.  Signal 5 is
\* not sent, but a new process may hold it.
Signal == INSTANCE Signal WITH
    Threads <- <<a, b>>, SignalMax <- 7, IntBits <- 4, Sent <- {1}, Stale <- {1, 5},
    MaskSets <- {{}, {1}}, active <- signalled
signalVars == <<process, thread, signalled, todo, origin>>

Resource == INSTANCE Resource WITH min <- 0, max <- 8
resourceVars == <<regions, out, value>>

\* A group and a user of the kernel's own; both tables run full.
Accounts == INSTANCE Accounts WITH
    Threads <- {a, b}, FirstGroup <- 1, FirstUser <- 2, MaxId <- 4, Passwords <- {"none"},
    OtherGroups <- {2}, OtherUsers <- {3}, Requests <- {0, 3, 4}, MaxPast <- 4, pc <- apc
accountVars == <<groups, users, gids, uids, file, apc, copy, past, alone, clean>>

\* One of the two words has to be quoted, and a third line makes the history drop
\* one.  Characters that are quoted are only in the first line.
Readline == INSTANCE Readline WITH
    Plain <- {"x", "\\"}, Space <- " ", Quote <- "\"", Backslash <- "\\",
    Words <- <<<<"\\">>, <<"x", "x">>>>, MaxLine <- 4,
    MaxHistory <- 2, MaxEntered <- 3, count <- count_sent
readlineVars == <<state, screen, direct, reading, sent, count_sent, entered, lines, typed>>

PlainLine(line) == \A i \in DOMAIN line : line[i] \in {"x", " ", "\n"}
\* Two characters are typed; a line that a completion has made longer is entered
\* or left as it is.
ShortLine ==
    LET line == state'.line
    IN  \/ Len(line) <= 2 \/ line = state.line
        \/ line[Len(line)] = "\n" \/ state'.auto.data # <<>>

mcvars == <<part, vars, aclVars, signalVars, resourceVars, accountVars, readlineVars>>

MCInit ==
    /\ part \in {"handle", "acl", "signal", "resource", "accounts", "readline"}
    /\ Init /\ Acl!Init /\ Signal!Init /\ Resource!Init /\ Accounts!Init /\ Readline!Init
    /\ part = "signal" \/ process = [mask |-> {}, pending |-> {}]

MCNext ==
    /\ UNCHANGED part
    /\ \/ part = "handle" /\ Next
       \/ part # "handle" /\ UNCHANGED vars
    /\ \/ part = "acl" /\ Acl!Next
       \/ part # "acl" /\ UNCHANGED aclVars
    /\ \/ part = "signal" /\ Signal!Next
       \/ part # "signal" /\ UNCHANGED signalVars
    /\ \/ part = "resource" /\ Resource!Next
       \/ part # "resource" /\ UNCHANGED resourceVars
    /\ \/ part = "accounts" /\ Accounts!Next
       \/ part # "accounts" /\ UNCHANGED accountVars
    /\ \/ part = "readline" /\ Readline!Next /\ ShortLine /\ (count_sent > 0 => PlainLine(state'.line))
       \/ part # "readline" /\ UNCHANGED readlineVars

MCSpec == MCInit /\ [][MCNext]_mcvars

(* The cache of the access control list never answers anything but what    *)
(* its tree holds (acl.c).                                                 *)
CacheAgrees == part = "acl" => Acl!CacheAgrees

(* Nobody holds a permission that neither the creator nor root nor a       *)
(* user's consent brought into being (acl.c, the system calls).            *)
NoPermissionFromNothing == part = "acl" => Acl!NoPermissionFromNothing

(* A thread with a pending signal has an active event, or is about to, and *)
(* a signal is pending only if it was sent or left over in the memory of   *)
(* the process (signal.c, process.c).                                      *)
PendingIsAnnounced ==
    part = "signal" => Signal!PendingIsAnnounced /\ Signal!PendingHasOrigin

(* No signal becomes pending at a thread that stays asleep (signal.c,      *)
(* _thread_wakeup_if_waiting).                                             *)
SignalsInterruptSleep == Signal!SignalsInterruptSleep

(* A signal that the process keeps is one that every thread masks, and the *)
(* first thread to unmask it takes it (signal.c, syscall_signal_set_mask). *)
KeptUntilUnmasked == Signal!KeptUntilUnmasked

(* The resource manager implements the pool: an allocation returns the     *)
(* smallest number that is not in use, giving one back frees it alone.     *)
ImplementsPool == Resource!ImplementsPool

(* The accounts agree with the ids that the kernel knows, and what a start *)
(* finds in the file is a database there has been: the latest one when no  *)
(* save is under way and the last one was alone (account_manager,          *)
(* database.c).                                                            *)
AccountsAreRestored ==
    part = "accounts" =>
        Accounts!IdsAgree /\ Accounts!LoadedIsOfPast /\ Accounts!AccountsAreSaved

(* After every byte the screen shows the line that is edited, an escape    *)
(* brings back the line before the completion of a word that needs no      *)
(* quotes, the history has the lines that were entered (readline.c), and   *)
(* the child process gets every one once, but for a line right before a    *)
(* change to direct I/O (serial_terminal, main.c).                         *)
LinesAreRight ==
    part = "readline" => /\ Readline!ScreenShowsLine /\ Readline!CompletionIsUndone
                         /\ Readline!HistoryIsOfLines /\ Readline!SentIsEntered
=============================================================================
