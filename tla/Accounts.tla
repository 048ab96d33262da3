------------------------------ MODULE Accounts ------------------------------
(***************************************************************************)
(* The account database (module/account_manager/database.c) on top of the  *)
(* kernel's tables of users and groups (kernel/id): accounts are made      *)
(* under the database's lock, and the database is then written to a file,  *)
(* without it (kernel/config/config.c, kernel/writer/writer.c); a start of *)
(* the kernel reads the file.  The kernel may stop at any time.            *)
(*                                                                         *)
(* The file is its length, the size that its header gives and what follows *)
(* the header: the groups and the users of a database, encrypted, with a   *)
(* code that tells whether they were written together.                     *)
(***************************************************************************)
EXTENDS Integers, FiniteSets

CONSTANTS
    Threads,               \* threads in one of the calls
    FirstGroup, FirstUser, \* ACCOUNT_MANAGER_DATABASE_FIRST_GROUP_ID and _USER_ID
    MaxId,                 \* bound: the largest id
    Passwords,             \* external: digests
    OtherGroups, OtherUsers, \* ids that other modules made
    Requests,              \* ids that are asked for; 0: any
    MaxPast                \* bound: databases there have been

VARIABLES
    groups, users,         \* _account_manager_database
    gids, uids,            \* _gid_tree; _uid_tree, with the groups of every user
    file,                  \* the database file
    pc, copy,              \* where a thread stands, and its root_tag
    past,                  \* history: the databases there have been
    alone, clean           \* history: no other save since this one began; the last
                           \* save that ended was alone

vars == <<groups, users, gids, uids, file, pc, copy, past, alone, clean>>

Ids == 1 .. MaxId
Open == -1                 \* the size 0xffffffff of a header
Database == [groups |-> groups, users |-> users]
Empty == [groups |-> {}, users |-> << >>]
Size(d) == 1 + Cardinality(d.groups) + Cardinality(DOMAIN d.users)

\* The kernel's tables before a module adds to them
RootGroups == {0} \union OtherGroups
RootUsers == [u \in {0} \union OtherUsers |-> {u}]

Init ==
    /\ groups = {} /\ users = << >> /\ gids = RootGroups /\ uids = RootUsers
    /\ file = [length |-> 0, header |-> 0, body |-> Empty, size |-> 0, whole |-> FALSE]
    /\ pc = [t \in Threads |-> "idle"] /\ copy = [t \in Threads |-> Empty]
    /\ past = {Empty} /\ alone = [t \in Threads |-> FALSE] /\ clean = TRUE

With(f, u, v) == [x \in DOMAIN f \union {u} |-> IF x = u THEN v ELSE f[x]]

-----------------------------------------------------------------------------
(* The calls.  An id of zero asks for the first one that is free in the    *)
(* database and in the kernel's tables.                                    *)
FreeGroup(g) == g \notin groups /\ g \notin gids
FreeUser(u) == u \notin groups /\ u \notin DOMAIN users /\ u \notin gids /\ u \notin DOMAIN uids
FreeGroups == {g \in FirstGroup .. MaxId : FreeGroup(g)}
FreeUsers == {u \in FirstUser .. MaxId : FreeUser(u)}
First(ids) == CHOOSE i \in ids : \A j \in ids : i <= j

\* The caller goes on to save, beside those that already do.
BeginSave(t) ==
    /\ Cardinality(past) < MaxPast
    /\ pc' = [pc EXCEPT ![t] = "generate"]
    /\ past' = past \union {[groups |-> groups', users |-> users']}
    /\ alone' = [u \in Threads |-> u = t /\ \A v \in Threads : pc[v] = "idle"]
    /\ UNCHANGED <<file, copy, clean>>

CreateGroup(t, id) ==
    LET gid == IF id = 0 THEN First(FreeGroups) ELSE id
    IN  /\ pc[t] = "idle"
        /\ id = 0 => FreeGroups # {}
        /\ FreeGroup(gid)
        /\ groups' = groups \union {gid} /\ gids' = gids \union {gid}
        /\ UNCHANGED <<users, uids>> /\ BeginSave(t)

\* Faulty variant: the group's id is not tested.
CreateUserOfGroup(t, id, password) ==
    LET Free(u) == u \notin DOMAIN users /\ u \notin DOMAIN uids
        ids == {u \in FirstUser .. MaxId : Free(u)}
        uid == IF id = 0 THEN First(ids) ELSE id
    IN  /\ pc[t] = "idle"
        /\ id = 0 => ids # {}
        /\ Free(uid)
        /\ groups' = groups \union {uid} /\ gids' = gids \union {uid}
        /\ users' = With(users, uid, [password |-> password, admin |-> FALSE, groups |-> {uid}])
        /\ uids' = With(uids, uid, {uid})
        /\ BeginSave(t)

(* A user gets a group of the same number; if there is such a user in the  *)
(* kernel's table, the group is taken back.                                *)
CreateUser(t, id, password) ==
    LET uid == IF id = 0 THEN First(FreeUsers) ELSE id
    IN  /\ pc[t] = "idle"
        /\ id = 0 => FreeUsers # {}
        /\ FreeUser(uid)
        /\ groups' = groups \union {uid} /\ gids' = gids \union {uid}
        /\ users' = With(users, uid, [password |-> password, admin |-> FALSE, groups |-> {uid}])
        /\ uids' = With(uids, uid, {uid})
        /\ BeginSave(t)

(* Nothing is saved when nothing changes.                                  *)
SetAdministrator(t, uid, enable) ==
    /\ pc[t] = "idle" /\ uid \in DOMAIN users /\ users[uid].admin # enable
    /\ users' = [users EXCEPT ![uid].admin = enable]
    /\ UNCHANGED <<groups, gids, uids>> /\ BeginSave(t)

-----------------------------------------------------------------------------
(* _save_account_manager_database                                          *)
Goto(t, l) ==
    /\ pc' = [pc EXCEPT ![t] = l]
    /\ UNCHANGED <<groups, users, gids, uids, past>>

GenerateDatabaseConfig(t) ==
    /\ pc[t] = "generate" /\ Goto(t, "resize")
    /\ copy' = [copy EXCEPT ![t] = Database]
    /\ UNCHANGED <<file, alone, clean>>

(* _emit_data of writer_deinit: the file is given its size, then written.  *)
(* A write does not make the file longer.                                  *)
Resize(t) ==
    /\ pc[t] = "resize" /\ Goto(t, "write")
    /\ file' = [file EXCEPT !.length = Size(copy[t]),
                            !.whole = @ /\ file.size <= Size(copy[t])]
    /\ UNCHANGED <<copy, alone, clean>>

Write(t) ==
    /\ pc[t] = "write" /\ Goto(t, "header")
    /\ file' = [file EXCEPT !.header = Open, !.body = copy[t], !.size = Size(copy[t]),
                            !.whole = Size(copy[t]) <= file.length]
    /\ UNCHANGED <<copy, alone, clean>>

WriteHeader(t) ==
    /\ pc[t] = "header" /\ Goto(t, "idle")
    /\ file' = [file EXCEPT !.header = Size(copy[t])]
    /\ copy' = [copy EXCEPT ![t] = Empty]
    /\ clean' = alone[t] /\ alone' = [alone EXCEPT ![t] = FALSE]

-----------------------------------------------------------------------------
\* Faulty variant: the code is not compared.
LoadedUnchecked(f) == IF f.length > 0 /\ f.header \in 1 .. f.length THEN f.body ELSE Empty

(* config_load_from_file: a header with a size that the file has, and a    *)
(* code that agrees with what was decrypted; else there are no accounts.   *)
Loaded(f) ==
    IF f.length > 0 /\ f.header \in 1 .. f.length /\ f.header = f.size /\ f.whole
    THEN f.body ELSE Empty

(* The kernel stops, maybe in the middle of a write, so that groups and    *)
(* users of different databases follow each other; it starts again and     *)
(* _load_database_config makes the accounts of the file.                   *)
Restart(f) ==
    LET d == Loaded(f)
    IN  /\ file' = f
        /\ groups' = d.groups /\ users' = d.users
        /\ gids' = RootGroups \union d.groups
        /\ uids' = [u \in DOMAIN RootUsers \union DOMAIN d.users |->
                      IF u \in DOMAIN d.users THEN {u} \union d.users[u].groups ELSE RootUsers[u]]
        /\ pc' = [t \in Threads |-> "idle"] /\ copy' = [t \in Threads |-> Empty]
        /\ alone' = [t \in Threads |-> FALSE] /\ clean' = TRUE
        /\ UNCHANGED past

Crash == Restart(file)
CrashInWrite(t) ==
    /\ pc[t] = "write"
    /\ \E header \in {file.header, Open} :
          Restart([file EXCEPT !.header = header, !.body.groups = copy[t].groups, !.whole = FALSE])

Save(t) == GenerateDatabaseConfig(t) \/ Resize(t) \/ Write(t) \/ WriteHeader(t)

Next ==
    \/ Crash
    \/ \E t \in Threads :
          \/ Save(t) \/ CrashInWrite(t)
          \/ \E id \in Requests : CreateGroup(t, id) \/ \E p \in Passwords : CreateUser(t, id, p)
          \/ \E uid \in Ids, enable \in BOOLEAN : SetAdministrator(t, uid, enable)

Spec == Init /\ [][Next]_vars

-----------------------------------------------------------------------------
(* The kernel's tables have the accounts of the database and those of      *)
(* other modules and nothing else; every user has its group, and an id     *)
(* stands for one account.                                                 *)
IdsAgree ==
    /\ gids = RootGroups \union groups /\ groups \intersect RootGroups = {}
    /\ DOMAIN uids = DOMAIN RootUsers \union DOMAIN users
    /\ DOMAIN users \intersect DOMAIN RootUsers = {}
    /\ \A u \in DOMAIN users : u \in groups /\ uids[u] = users[u].groups

(* What a start of the kernel finds is a database there has been, or none, *)
(* never parts of two.                                                     *)
LoadedIsOfPast == Loaded(file) \in past

(* If the last save was undisturbed by others and nobody saves, a start of *)
(* the kernel finds the accounts as they are.                              *)
AccountsAreSaved == (\A t \in Threads : pc[t] = "idle") /\ clean => Loaded(file) = Database
=============================================================================
