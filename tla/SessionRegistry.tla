--------------------------- MODULE SessionRegistry ---------------------------
(***************************************************************************)
(* The registry of Codex app-server sessions: the map `sessions` from      *)
(* workspace ids to shared WorkspaceSession handles, the map `workspaces`  *)
(* and its file workspaces.json, and the commands that change them.        *)
(*                                                                         *)
(* Every command runs as a task of the tokio runtime.  The commands that   *)
(* may start a process hold one global spawn lock; the commands that kill  *)
(* processes do not.  One action below is one stretch of code between two  *)
(* awaits at which another command can run: one critical section of the    *)
(* `sessions`, `workspaces` or `child` mutex.                              *)
(*                                                                         *)
(* Sources: src-tauri/src/shared/workspaces_core/{connect,                 *)
(* runtime_codex_args,crud_persistence,worktree}.rs and, for list, the     *)
(* daemon's sync_workspaces_from_storage.                                  *)
(***************************************************************************)
EXTENDS Naturals, FiniteSets

CONSTANTS
    Mains,       \* ids of main workspaces (clones and git-url imports too)
    Worktrees,   \* ids of worktree workspaces
    ParentOf,    \* the parent of each worktree
    Procs,       \* codex app-server processes (bounds the number of spawns)
    Clients,     \* tasks that run commands
    Ops,         \* the commands the clients issue
    Foreign,     \* workspaces another program may add to the file or remove
    DiskFaults,  \* can writing workspaces.json fail?
    NoProc, NoClient, NoWorkspace

Workspaces == Mains \cup Worktrees

AllOps == {"connect", "add", "addWorktree", "setArgs",
           "remove", "killAll", "list"}

ASSUME RegistryAssumption ==
    /\ Mains \cap Worktrees = {}
    /\ ParentOf \in [Worktrees -> Mains]
    /\ NoProc \notin Procs
    /\ NoClient \notin Clients
    /\ NoWorkspace \notin Workspaces
    /\ Ops \subseteq AllOps
    /\ Foreign \subseteq Mains
    /\ DiskFaults \in BOOLEAN

VARIABLES
    workspaces,  \* ids in the in-memory workspace map
    disk,        \* ids in workspaces.json
    minted,      \* ids ever created: a uuid is never issued twice
    sessions,    \* workspace id -> its session, or NoProc
    process,     \* the child process of each session
    registered,  \* session.workspace_ids: where broadcasts are routed
    spawnLock,   \* holder of workspace_session_spawn_lock
    pc,          \* where each client is
    job          \* the local variables of each client

vars == <<workspaces, disk, minted, sessions, process, registered,
          spawnLock, pc, job>>

registry == <<workspaces, disk, minted>>
procs    == <<process, registered>>

-----------------------------------------------------------------------------
(* Derived state *)

Connected == {w \in Workspaces : sessions[w] # NoProc}
Referenced == {sessions[w] : w \in Connected}
Alive(p) == process[p] = "alive"
Children(m) == {w \in Worktrees \cap workspaces : ParentOf[w] = m}

Adding(c) == job[c].op \in {"add", "addWorktree"}

NoJob == [op |-> "none", ws |-> NoWorkspace, cur |-> NoWorkspace,
          held |-> NoProc, old |-> NoProc, spawned |-> FALSE, shared |-> FALSE,
          failed |-> FALSE, todo |-> {}, done |-> {}, doomed |-> {},
          stored |-> {}]

Goto(c, l) == pc' = [pc EXCEPT ![c] = l]
Set(c, j)  == job' = [job EXCEPT ![c] = j]

\* The command returns; Return also forgets its locals.
Return(c) == Goto(c, "idle") /\ Set(c, NoJob)
ReturnUnlocked(c) == Return(c) /\ spawnLock' = NoClient

\* Mutant: the entries of a dead session are kept.
DropNothing(p) == UNCHANGED sessions

\* remove_session_references: drop every entry that points to session p.
DropReferences(p) ==
    sessions' = [w \in Workspaces |->
                    IF sessions[w] = p THEN NoProc ELSE sessions[w]]

Kill(p) == process' = [process EXCEPT ![p] = "dead"]

\* The file after write_workspaces of the list l: a failed write leaves it.
Write(l) == disk' = l
WriteFails == DiskFaults /\ UNCHANGED disk

-----------------------------------------------------------------------------
Init ==
    /\ workspaces \in SUBSET Mains
    /\ disk = workspaces
    /\ minted = workspaces
    /\ sessions = [w \in Workspaces |-> NoProc]
    /\ process = [p \in Procs |-> "unborn"]
    /\ registered = [p \in Procs |-> {}]
    /\ spawnLock = NoClient
    /\ pc = [c \in Clients |-> "idle"]
    /\ job = [c \in Clients |-> NoJob]

-----------------------------------------------------------------------------
(* Commands arrive *)

Begin(c, o, l, j) ==
    /\ pc[c] = "idle"
    /\ o \in Ops
    /\ Goto(c, l)
    /\ Set(c, [j EXCEPT !.op = o])

\* connect_workspace_core and set_workspace_runtime_codex_args_core resolve
\* the entry before they wait for the spawn lock.
StartOnEntry(c, w, o) ==
    /\ w \in workspaces
    /\ Begin(c, o, "wantLock", [NoJob EXCEPT !.ws = w])
    /\ UNCHANGED <<registry, sessions, procs, spawnLock>>

\* The add commands mint a fresh id, after preparing the folder.
Mint(c, w, o) ==
    /\ w \notin minted
    /\ minted' = minted \cup {w}
    /\ Begin(c, o, "wantLock", [NoJob EXCEPT !.ws = w])
    /\ UNCHANGED <<workspaces, disk, sessions, procs, spawnLock>>

\* add_workspace_core takes a folder; add_workspace_from_git_url_core clones one.
StartAdd(c, w) == w \in Mains /\ Mint(c, w, "add")
StartGitUrl(c, w) == w \in Mains /\ Mint(c, w, "add")

\* add_clone_core copies a workspace that is known.
StartClone(c, w) == w \in Mains /\ workspaces # {} /\ Mint(c, w, "add")

\* add_worktree_core makes a worktree of a main workspace that is known.
StartAddWorktree(c, w) ==
    /\ w \in Worktrees
    /\ ParentOf[w] \in workspaces
    /\ Mint(c, w, "addWorktree")

\* remove_workspace_core lists the worktrees of a main workspace.
StartRemove(c, w) ==
    /\ w \in Mains \cap workspaces
    /\ Begin(c, "remove", "kill",
             [NoJob EXCEPT !.ws = w, !.todo = Children(w)])
    /\ UNCHANGED <<registry, sessions, procs, spawnLock>>

\* remove_worktree_core needs the parent to be known.
StartRemoveWorktree(c, w) ==
    /\ w \in Worktrees \cap workspaces
    /\ ParentOf[w] \in workspaces
    /\ Begin(c, "remove", "kill", [NoJob EXCEPT !.ws = w, !.todo = {w}])
    /\ UNCHANGED <<registry, sessions, procs, spawnLock>>

\* kill_all_workspace_sessions_core snapshots the keys.
StartKillAll(c) ==
    /\ Begin(c, "killAll", "kill", [NoJob EXCEPT !.todo = Connected])
    /\ UNCHANGED <<registry, sessions, procs, spawnLock>>

\* The daemon's list_workspaces first reads workspaces.json.
StartList(c) ==
    /\ Begin(c, "list", "syncReplace", [NoJob EXCEPT !.stored = disk])
    /\ UNCHANGED <<registry, sessions, procs, spawnLock>>

-----------------------------------------------------------------------------
(* The spawn lock and the search for a live session *)

\* Mutant: the guard is not awaited.
AcquireUnguarded(c) ==
    /\ pc[c] = "wantLock"
    /\ spawnLock' = c
    /\ Goto(c, CASE job[c].op = "connect" -> "lookup"
                 [] job[c].op = "setArgs" -> "readArgs"
                 [] OTHER -> "take")
    /\ UNCHANGED <<registry, sessions, procs, job>>

AcquireLock(c) ==
    /\ pc[c] = "wantLock"
    /\ spawnLock = NoClient
    /\ spawnLock' = c
    /\ Goto(c, CASE job[c].op = "connect" -> "lookup"
                 [] job[c].op = "setArgs" -> "readArgs"
                 [] OTHER -> "take")
    /\ UNCHANGED <<registry, sessions, procs, job>>

\* connect: is there an entry for this very workspace?
Lookup(c) ==
    /\ pc[c] = "lookup"
    /\ Goto(c, IF job[c].ws \in Connected THEN "checkOwn" ELSE "take")
    /\ Set(c, [job[c] EXCEPT !.held = sessions[job[c].ws]])
    /\ UNCHANGED <<registry, sessions, procs, spawnLock>>

OwnIsAlive(c) ==
    /\ pc[c] = "checkOwn"
    /\ Alive(job[c].held)
    /\ ReturnUnlocked(c)
    /\ UNCHANGED <<registry, sessions, procs>>

\* A dead process stays dead, so testing it and dropping its entries are one
\* step here.
DropDead(c) ==
    /\ pc[c] \in {"checkOwn", "checkShared"}
    /\ ~Alive(job[c].held)
    /\ DropReferences(job[c].held)
    /\ Goto(c, "take")
    /\ Set(c, [job[c] EXCEPT !.held = NoProc])
    /\ UNCHANGED <<registry, procs, spawnLock>>

\* Mutant: only the workspace's own entry counts, nobody shares.
TakeOwnOnly(c) ==
    /\ pc[c] = "take"
    /\ job[c].ws \notin Connected
    /\ Goto(c, "spawn")
    /\ Set(c, [job[c] EXCEPT !.held = NoProc])
    /\ UNCHANGED <<registry, sessions, procs, spawnLock>>

\* take_live_shared_session: any entry of the map, in hash order.
Take(c) ==
    /\ pc[c] = "take"
    /\ IF Connected = {}
       THEN Goto(c, "spawn") /\ Set(c, [job[c] EXCEPT !.held = NoProc])
       ELSE \E p \in Referenced :
               Goto(c, "checkShared") /\ Set(c, [job[c] EXCEPT !.held = p])
    /\ UNCHANGED <<registry, sessions, procs, spawnLock>>

SharedIsAlive(c) ==
    /\ pc[c] = "checkShared"
    /\ Alive(job[c].held)
    /\ Goto(c, IF Adding(c) THEN "persist" ELSE "register")
    /\ UNCHANGED <<registry, sessions, procs, spawnLock, job>>

-----------------------------------------------------------------------------
(* spawn_workspace_session: the process runs while initialize is awaited *)

\* The codex binary is missing or does not start: nothing was spawned.
SpawnRefused(c) ==
    /\ pc[c] = "spawn"
    /\ ReturnUnlocked(c)
    /\ UNCHANGED <<registry, sessions, procs>>

SpawnChild(c, p) ==
    /\ pc[c] = "spawn"
    /\ process[p] = "unborn"
    /\ process' = [process EXCEPT ![p] = "alive"]
    /\ registered' = [registered EXCEPT ![p] = {job[c].ws}]
    /\ Goto(c, "spawning")
    /\ Set(c, [job[c] EXCEPT !.held = p, !.spawned = TRUE])
    /\ UNCHANGED <<registry, sessions, spawnLock>>

SpawnInitialized(c) ==
    /\ pc[c] = "spawning"
    /\ Alive(job[c].held)
    /\ Goto(c, CASE Adding(c) -> "persist"
                 [] job[c].op = "setArgs" -> "replace"
                 [] OTHER -> "register")
    /\ UNCHANGED <<registry, sessions, procs, spawnLock, job>>

\* Mutant: a timeout is treated as every other error is.
SpawnTimesOutAlive(c) ==
    /\ pc[c] = "spawning"
    /\ ReturnUnlocked(c)
    /\ UNCHANGED <<registry, sessions, procs>>

\* initialize is not answered within fifteen seconds: the child is killed.
SpawnTimesOut(c) ==
    /\ pc[c] = "spawning"
    /\ Kill(job[c].held)
    /\ ReturnUnlocked(c)
    /\ UNCHANGED <<registry, sessions, registered>>

\* initialize, or the notification after it, ends in an error: the process has
\* exited, or it goes on but a line that is not UTF-8 or the end of its output
\* has ended the reader, or it has closed its stdin.
InitializeErrs(c) ==
    /\ pc[c] = "spawning"
    /\ Goto(c, "cutOff")
    /\ UNCHANGED <<registry, sessions, procs, spawnLock, job>>

\* The `?` returns, and nobody kills the child.
SpawnGivesUp(c) ==
    /\ pc[c] = "cutOff"
    /\ ReturnUnlocked(c)
    /\ UNCHANGED <<registry, sessions, procs>>

-----------------------------------------------------------------------------
(* add_*: the entry is stored before the session is published *)

PersistOk(c) ==
    /\ pc[c] = "persist"
    /\ workspaces' = workspaces \cup {job[c].ws}
    /\ Write(workspaces')
    /\ Goto(c, "register")
    /\ UNCHANGED <<minted, sessions, procs, spawnLock, job>>

\* add_worktree_core returns with `?` here: it keeps the entry in memory and
\* whatever it spawned.  The others go on to roll back.
PersistFails(c) ==
    /\ pc[c] = "persist"
    /\ workspaces' = workspaces \cup {job[c].ws}
    /\ WriteFails
    /\ IF job[c].op = "addWorktree"
       THEN ReturnUnlocked(c)
       ELSE Goto(c, "rollback") /\ UNCHANGED <<job, spawnLock>>
    /\ UNCHANGED <<minted, sessions, procs>>

Rollback(c) ==
    /\ pc[c] = "rollback"
    /\ workspaces' = workspaces \ {job[c].ws}
    /\ IF job[c].spawned
       THEN Goto(c, "killHeld") /\ UNCHANGED <<job, spawnLock>>
       ELSE ReturnUnlocked(c)
    /\ UNCHANGED <<disk, minted, sessions, procs>>

Register(c) ==
    /\ pc[c] = "register"
    /\ registered' = [registered EXCEPT ![job[c].held] = @ \cup {job[c].ws}]
    /\ Goto(c, "insert")
    /\ UNCHANGED <<registry, sessions, process, spawnLock, job>>

Insert(c) ==
    /\ pc[c] = "insert"
    /\ sessions' = [sessions EXCEPT ![job[c].ws] = job[c].held]
    /\ ReturnUnlocked(c)
    /\ UNCHANGED <<registry, procs>>

-----------------------------------------------------------------------------
(* set_workspace_runtime_codex_args_core *)

\* Not connected, or the session already runs with the wanted arguments (the
\* strings themselves are left out: the comparison is a choice).
ArgsNoop(c) ==
    /\ pc[c] = "readArgs"
    /\ ReturnUnlocked(c)
    /\ UNCHANGED <<registry, sessions, procs>>

ArgsDiffer(c) ==
    /\ pc[c] = "readArgs"
    /\ job[c].ws \in Connected
    /\ \E p \in Referenced : Set(c, [job[c] EXCEPT !.old = p])
    /\ Goto(c, "spawn")
    /\ UNCHANGED <<registry, sessions, procs, spawnLock>>

\* Mutant: only the workspace that asked moves to the new session.
ReplaceOwn(c) ==
    /\ pc[c] = "replace"
    /\ sessions' = [sessions EXCEPT ![job[c].ws] = job[c].held]
    /\ Set(c, [job[c] EXCEPT !.todo = Connected])
    /\ Goto(c, "registerAll")
    /\ UNCHANGED <<registry, procs, spawnLock>>

\* Mutant: everybody moves, but only the one that asked is registered.
ReplaceUnregistered(c) ==
    /\ pc[c] = "replace"
    /\ sessions' = [w \in Workspaces |->
                       IF w \in Connected THEN job[c].held ELSE NoProc]
    /\ Set(c, [job[c] EXCEPT !.todo = {job[c].ws}])
    /\ Goto(c, "registerAll")
    /\ UNCHANGED <<registry, procs, spawnLock>>

\* Every key present at this moment is pointed at the new session.
ReplaceAll(c) ==
    /\ pc[c] = "replace"
    /\ sessions' = [w \in Workspaces |->
                       IF w \in Connected THEN job[c].held ELSE NoProc]
    /\ Set(c, [job[c] EXCEPT !.todo = Connected])
    /\ Goto(c, "registerAll")
    /\ UNCHANGED <<registry, procs, spawnLock>>

RegisterNext(c, w) ==
    /\ pc[c] = "registerAll"
    /\ w \in job[c].todo
    /\ registered' = [registered EXCEPT ![job[c].held] = @ \cup {w}]
    /\ Set(c, [job[c] EXCEPT !.todo = @ \ {w}])
    /\ UNCHANGED <<registry, sessions, process, spawnLock, pc>>

RegisteredAll(c) ==
    /\ pc[c] = "registerAll"
    /\ job[c].todo = {}
    /\ Set(c, [job[c] EXCEPT !.held = job[c].old])
    /\ Goto(c, "killHeld")
    /\ UNCHANGED <<registry, sessions, procs, spawnLock>>

\* The old session of set-args, or the session a failed add had spawned.
KillHeld(c) ==
    /\ pc[c] = "killHeld"
    /\ Kill(job[c].held)
    /\ ReturnUnlocked(c)
    /\ UNCHANGED <<registry, sessions, registered>>

-----------------------------------------------------------------------------
(* kill_session_by_id and the commands that use it; no spawn lock *)

\* The parent of a removed main workspace comes last, and only if every one
\* of its worktrees could be removed.
ParentIsNext(c) ==
    /\ job[c].op = "remove"
    /\ job[c].ws \in Mains
    /\ job[c].todo = {}
    /\ ~job[c].failed
    /\ job[c].ws \notin job[c].done

\* kill_session_by_id(w) returns and the command goes on.
AfterKill(c, w) ==
    IF job[c].op = "remove" /\ w \in Worktrees THEN "git" ELSE "kill"

KillReturns(c) ==
    /\ Goto(c, AfterKill(c, job[c].cur))
    /\ Set(c, [job[c] EXCEPT !.held = NoProc, !.shared = FALSE])

\* Mutant: looks for another reference before the entry is taken out.
KillTakeLate(c, w) ==
    /\ pc[c] = "kill"
    /\ w \in job[c].todo \/ (w = job[c].ws /\ ParentIsNext(c))
    /\ sessions' = [sessions EXCEPT ![w] = NoProc]
    /\ Set(c, [job[c] EXCEPT
                 !.cur = w, !.held = sessions[w], !.todo = @ \ {w},
                 !.done = IF w \in Mains THEN @ \cup {w} ELSE @,
                 !.shared = w \in Connected])
    /\ Goto(c, IF w \in Connected THEN "unregister" ELSE AfterKill(c, w))
    /\ UNCHANGED <<registry, procs, spawnLock>>

\* One critical section: take the entry out and see whether another remains.
KillTake(c, w) ==
    /\ pc[c] = "kill"
    /\ w \in job[c].todo \/ (w = job[c].ws /\ ParentIsNext(c))
    /\ sessions' = [sessions EXCEPT ![w] = NoProc]
    /\ Set(c, [job[c] EXCEPT
                 !.cur = w, !.held = sessions[w], !.todo = @ \ {w},
                 !.done = IF w \in Mains THEN @ \cup {w} ELSE @,
                 !.shared = \E v \in Connected \ {w} : sessions[v] = sessions[w]])
    /\ Goto(c, IF w \in Connected THEN "unregister" ELSE AfterKill(c, w))
    /\ UNCHANGED <<registry, procs, spawnLock>>

Unregister(c) ==
    /\ pc[c] = "unregister"
    /\ registered' = [registered EXCEPT ![job[c].held] = @ \ {job[c].cur}]
    /\ IF job[c].shared THEN KillReturns(c)
                        ELSE Goto(c, "killProc") /\ UNCHANGED job
    /\ UNCHANGED <<registry, sessions, process, spawnLock>>

KillProc(c) ==
    /\ pc[c] = "killProc"
    /\ Kill(job[c].held)
    /\ KillReturns(c)
    /\ UNCHANGED <<registry, sessions, registered, spawnLock>>

\* git worktree remove (or removing the directory) for the current worktree.
GitRemoved(c) ==
    /\ pc[c] = "git"
    /\ Set(c, [job[c] EXCEPT !.done = @ \cup {job[c].cur}])
    /\ Goto(c, "kill")
    /\ UNCHANGED <<registry, sessions, procs, spawnLock>>

\* remove_worktree_core gives up; remove_workspace_core goes on to the next
\* worktree (both callers pass continue_on_child_error = true).
GitFails(c) ==
    /\ pc[c] = "git"
    /\ IF job[c].ws \in Worktrees
       THEN Return(c)
       ELSE Goto(c, "kill") /\ Set(c, [job[c] EXCEPT !.failed = TRUE])
    /\ UNCHANGED <<registry, sessions, procs, spawnLock>>

RemoveCommit(c) ==
    /\ pc[c] = "kill"
    /\ job[c].op = "remove"
    /\ job[c].todo = {}
    /\ ~ParentIsNext(c)
    /\ workspaces' = workspaces \ job[c].done
    /\ Write(workspaces') \/ WriteFails
    /\ Return(c)
    /\ UNCHANGED <<minted, sessions, procs, spawnLock>>

KillAllReturns(c) ==
    /\ pc[c] = "kill"
    /\ job[c].op = "killAll"
    /\ job[c].todo = {}
    /\ Return(c)
    /\ UNCHANGED <<registry, sessions, procs, spawnLock>>

-----------------------------------------------------------------------------
(* The daemon's sync_workspaces_from_storage *)

SyncReplace(c) ==
    /\ pc[c] = "syncReplace"
    /\ workspaces' = job[c].stored
    /\ Goto(c, "syncPrune")
    /\ UNCHANGED <<disk, minted, sessions, procs, spawnLock, job>>

\* The sessions of workspaces the file did not list leave the map ...
SyncPrune(c) ==
    LET stale == Connected \ job[c].stored IN
    /\ pc[c] = "syncPrune"
    /\ sessions' = [w \in Workspaces |->
                       IF w \in stale THEN NoProc ELSE sessions[w]]
    /\ Set(c, [job[c] EXCEPT !.doomed = {sessions[w] : w \in stale}])
    /\ Goto(c, "syncKill")
    /\ UNCHANGED <<registry, procs, spawnLock>>

\* ... and each of their processes is killed, whoever else uses it.
SyncKill(c, p) ==
    /\ pc[c] = "syncKill"
    /\ p \in job[c].doomed
    /\ Kill(p)
    /\ Set(c, [job[c] EXCEPT !.doomed = @ \ {p}])
    /\ UNCHANGED <<registry, sessions, registered, spawnLock, pc>>

SyncReturns(c) ==
    /\ pc[c] = "syncKill"
    /\ job[c].doomed = {}
    /\ Return(c)
    /\ UNCHANGED <<registry, sessions, procs, spawnLock>>

-----------------------------------------------------------------------------
(* The environment *)

\* A codex process exits on its own.
Crash(p) ==
    /\ Alive(p)
    /\ Kill(p)
    /\ UNCHANGED <<registry, sessions, registered, spawnLock, pc, job>>

\* The desktop app and the daemon may share a data directory: the other
\* program adds or removes a main workspace in the file.
ForeignWrite(w) ==
    /\ w \in Foreign
    /\ \/ w \in disk /\ disk' = disk \ {w} /\ UNCHANGED minted
       \/ w \notin minted /\ disk' = disk \cup {w} /\ minted' = minted \cup {w}
    /\ UNCHANGED <<workspaces, sessions, procs, spawnLock, pc, job>>

-----------------------------------------------------------------------------
Arrive(c) ==
    \/ \E w \in Workspaces :
          \/ StartOnEntry(c, w, "connect")
          \/ StartOnEntry(c, w, "setArgs")
          \/ StartAdd(c, w) \/ StartGitUrl(c, w) \/ StartClone(c, w)
          \/ StartAddWorktree(c, w)
          \/ StartRemove(c, w) \/ StartRemoveWorktree(c, w)
    \/ StartKillAll(c)
    \/ StartList(c)

\* The steps a client takes on its own once its command has begun and, where
\* it needs one, the spawn lock is its own.
Step(c) ==
    \/ Lookup(c) \/ OwnIsAlive(c) \/ DropDead(c) \/ Take(c) \/ SharedIsAlive(c)
    \/ SpawnRefused(c) \/ SpawnInitialized(c) \/ SpawnTimesOut(c)
    \/ InitializeErrs(c) \/ SpawnGivesUp(c)
    \/ \E p \in Procs : SpawnChild(c, p)
    \/ PersistOk(c) \/ PersistFails(c) \/ Rollback(c)
    \/ Register(c) \/ Insert(c)
    \/ ArgsNoop(c) \/ ArgsDiffer(c) \/ ReplaceAll(c) \/ RegisteredAll(c)
    \/ KillHeld(c)
    \/ \E w \in Workspaces : RegisterNext(c, w) \/ KillTake(c, w)
    \/ Unregister(c) \/ KillProc(c) \/ GitRemoved(c) \/ GitFails(c)
    \/ RemoveCommit(c) \/ KillAllReturns(c)
    \/ SyncReplace(c) \/ SyncPrune(c) \/ SyncReturns(c)
    \/ \E p \in Procs : SyncKill(c, p)

Next ==
    \/ \E c \in Clients : Arrive(c) \/ AcquireLock(c) \/ Step(c)
    \/ \E p \in Procs : Crash(p)
    \/ \E w \in Mains : ForeignWrite(w)

Spec == Init /\ [][Next]_vars

\* The runtime polls every ready task, and a tokio Mutex is handed to its
\* waiters in order of arrival: a waiting client cannot be passed for ever.
Fairness == \A c \in Clients : WF_vars(Step(c)) /\ SF_vars(AcquireLock(c))

FairSpec == Spec /\ Fairness
-----------------------------------------------------------------------------
(* Types *)

LockedPcs == {"lookup", "checkOwn", "take", "checkShared", "spawn", "spawning",
              "cutOff", "persist", "rollback", "register", "insert", "readArgs",
              "replace", "registerAll", "killHeld"}
KillPcs == {"kill", "unregister", "killProc", "git"}
SyncPcs == {"syncReplace", "syncPrune", "syncKill"}
AllPcs  == {"idle", "wantLock"} \cup LockedPcs \cup KillPcs \cup SyncPcs

Job == [op : AllOps \cup {"none"},
        ws : Workspaces \cup {NoWorkspace}, cur : Workspaces \cup {NoWorkspace},
        held : Procs \cup {NoProc}, old : Procs \cup {NoProc},
        spawned : BOOLEAN, shared : BOOLEAN, failed : BOOLEAN,
        todo : SUBSET Workspaces, done : SUBSET Workspaces,
        doomed : SUBSET Procs, stored : SUBSET Workspaces]

\* The registry, the processes and every client's locals stay well formed.
TypeOK ==
    /\ workspaces \in SUBSET Workspaces
    /\ disk \in SUBSET Workspaces
    /\ minted \in SUBSET Workspaces
    /\ sessions \in [Workspaces -> Procs \cup {NoProc}]
    /\ process \in [Procs -> {"unborn", "alive", "dead"}]
    /\ registered \in [Procs -> SUBSET Workspaces]
    /\ spawnLock \in Clients \cup {NoClient}
    /\ pc \in [Clients -> AllPcs]
    /\ job \in [Clients -> Job]

-----------------------------------------------------------------------------
(* Safety *)

\* Whatever the interleaving of connects, adds, argument changes, removals,
\* kills, crashes and daemon syncs, two connected workspaces always share one
\* session: no command ever publishes a second one beside it.
SingleSession ==
    \A v, w \in Connected : sessions[v] = sessions[w]

\* connect and add_* start a process only while no session is registered, and
\* none is registered by anyone else until theirs is: a burst of connects
\* spawns once.
FreshSpawnIsAlone ==
    \A c \in Clients :
        /\ job[c].spawned
        /\ job[c].op # "setArgs"
        => Connected = {}

\* p runs, the registry does not know it and no command is going to decide
\* about it: nothing will ever use or stop it.
Handles(c) == {job[c].held, job[c].old} \cup job[c].doomed
Leaked(p) ==
    /\ Alive(p)
    /\ p \notin Referenced
    /\ \A c \in Clients : p \notin Handles(c)

\* Whatever the commands, exits, lost pipes and failed writes, a process can only
\* be abandoned in three places: add_worktree_core when workspaces.json cannot be
\* written, set_workspace_runtime_codex_args_core when the registry was emptied
\* while its new process started, and spawn_workspace_session when initialize
\* ended in an error.  A process that is merely silent is killed.
LeaksOnlyThere ==
    [][\A p \in Procs :
         Leaked(p)' /\ ~Leaked(p) =>
            \E c \in Clients :
               \/ pc[c] = "persist" /\ job[c].op = "addWorktree" /\ pc'[c] = "idle"
               \/ pc[c] = "registerAll" /\ job[c].held = p /\ pc'[c] = "killHeld"
               \/ pc[c] = "cutOff" /\ job[c].held = p]_vars

\* w holds a session, or is about to, that does not broadcast account
\* notifications to it, and set-args is not going to register it either.
Deaf(w) ==
    \E p \in Procs :
       /\ \/ sessions[w] = p
          \/ \E c \in Clients : pc[c] = "insert" /\ job[c].ws = w /\ job[c].held = p
       /\ w \notin registered[p]
       /\ ~\E c \in Clients : pc[c] = "registerAll" /\ w \in job[c].todo

\* A connected workspace stops hearing broadcasts in one way only: a kill of
\* that workspace, begun earlier, unregisters it after it has connected again.
\* No connect, add, argument change or rollback can cause it.
DeafOnlyByKill ==
    [][\A w \in Workspaces :
         Deaf(w)' /\ ~Deaf(w) =>
            \E c \in Clients : pc[c] = "unregister" /\ job[c].cur = w]_vars

\* What the daemon's own test of the prune expects: the sessions of persisted
\* workspaces remain, so a process about to be killed is nobody else's.
PruneSparesOthers ==
    \A c \in Clients : pc[c] = "syncKill" => job[c].doomed \cap Referenced = {}

-----------------------------------------------------------------------------
(* Refinement *)

Server == IF Connected = {} THEN NoProc
                            ELSE CHOOSE p \in Procs : p \in Referenced

Shared == INSTANCE SharedServer WITH server <- Server, attached <- Connected

\* The registry implements the one shared server of SharedServer: every command
\* changes who is attached, and to what, as one of its steps or not at all.
RefinesSharedServer == Shared!Spec

-----------------------------------------------------------------------------
(* Liveness *)

\* Every command returns: the spawn lock is released on every path, and the
\* search for a live session ends although processes may keep dying.
EveryCommandReturns ==
    \A c \in Clients : (pc[c] # "idle") ~> (pc[c] = "idle")
=============================================================================
