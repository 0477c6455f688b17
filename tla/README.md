# CodexBuddy: TLA+ models, checks and proofs

CodexBuddy is a desktop application (Tauri, Rust and React) that drives the
`codex app-server` program: it keeps a list of workspaces (folders), runs the
app-server for them, and shows the threads of conversation it holds. The same
Rust core also runs as a headless daemon that a desktop or a phone controls
over TCP. This directory holds formal models of the parts whose correctness
depends on the order in which tasks, processes and messages meet. All paths
below are relative to the repository root as it appears under `src/`
(`connect.rs` means `src-tauri/src/shared/workspaces_core/connect.rs`).

Contents: 1 inventory, 2 the modules, 3 what is checked, 4 what is proved,
5 what the models show about the code, 6 what is left out, 7 plan, 8 how to run.

## 1. Inventory

| Component | Code | State it keeps | Operations | What is hard |
|---|---|---|---|---|
| Session registry | `workspaces_core/connect.rs`, `runtime_codex_args.rs` | `sessions`: workspace id to shared `Arc<WorkspaceSession>`; a global spawn lock | connect, change arguments, kill one, kill all | concurrent connects; processes that die; kills that run outside the spawn lock |
| Workspace records | `workspaces_core/crud_persistence.rs`, `worktree.rs`, `storage.rs` | `workspaces` map and `workspaces.json` | add (folder, clone, git URL, worktree), remove, settings, rename | a write that fails after memory changed; writes outside the map lock |
| App-server session | `backend/app_server.rs` | pending requests, request contexts, thread routes, hidden threads, collectors, broadcast set, roots | send a request, read a line, time out, end of output | answers in any order, late or never; two tables per request, never locked together |
| Background prompts | `shared/codex_aux_core.rs` | its own thread, a collector in the session | start thread, hide, listen, turn, collect, archive | every way out must clean up; dead or silent server |
| Codex login | `shared/codex_core.rs:1330-1471`, `useAccountSwitching.ts` | one cancel handle per workspace; one set of refs for the indicator | start, poll, cancel, notifications | a second login meets the first one's handle and refs |
| Automations | `shared/automations_core.rs`, `features/automations` | `automations.json`: tasks and runs | upsert, claim due, record, list | a crash between claim and record; a slow run against the six-hour reconciliation |
| Remote backend client | `remote_backend/`, `settings/mod.rs` | one client; for each connection a pending table, a flag, a writer and a reader task | call, connect, authenticate, retry, reset | a lost connection while calls wait; retry of what was done; settings that change while a call connects |
| Daemon | `bin/codex_buddy_daemon*` | the same core, client connections | authenticate, dispatch, broadcast, sync of the stored list | another program writes the same file |
| Daemon control | `bin/codex_buddy_daemonctl.rs`, `tailscale/` | process ids, probes | start, stop, probe | operating-system processes |
| Frontend threads | `src/features/threads` | reducer of threads, turns, items, queues; an optimistic cache of the active turn | send, queue, steer, interrupt, events | events, answers and renders that race the user's actions |
| Remote live connection | `src/features/app` (`useRemoteThreadLiveConnection`) | wanted and attached thread, a sequence of attempts | attach, detach, reconnect, follow focus and visibility | results of stale attempts; notifications of its own calls |
| Terminal, dictation, updates, AI radar, usage, pets, settings, git, files, UI | see `PROJECT.json` | small or none | mostly input and output | little protocol |

How they interact. Tauri commands and daemon RPCs call the same core functions
on tokio tasks, so any two commands may interleave wherever the code awaits a
lock or input and output. The registry hands out sessions (shared state behind
`Arc`); each session owns one child process and one reader task; the reader
calls the event sink (Tauri events or the daemon's broadcast channel), which the
frontend's hooks consume. Background prompts use the session directly and place
a collector in it so that the reader sends them their thread's events. The
desktop in remote mode replaces every core call by an RPC to the daemon.

What makes each component correct:

- **Registry**: one shared session whatever commands overlap; a burst of connects
  starts one process; a live entry is never lost by looking for it; a process
  is abandoned in known places only; every connected workspace hears account broadcasts; every command returns.
- **Records**: memory, file and git's worktrees agree once the commands have returned,
  failed and refused ones included; worktrees follow their parent's script.
- **Session**: each request ends once, with its own answer or an error; the tables
  do not grow; events go to a workspace that has to do with the thread; hidden
  threads stay hidden; nobody waits for a dead process.
- **Background prompts**: the turn is invisible to the frontend; collector and
  thread are cleaned up on every way out; a dead process ends the prompt.
- **Login**: an open login can be canceled, a canceled one opens no page, nothing else
  cancels a login, and the indicator goes out.
- **Automations**: a due time is run at most once, a crashed run does not block
  its task for ever, a finished run is not turned into a failed one and back.
- **Remote client**: a call ends once, with its own answer; only repeatable calls are repeated;
  the end of a connection wakes its callers; calls go to the host of the settings; unused connections close.
- **Frontend threads**: a turn that ended is not shown as running; a queued
  message is sent once, in its turn, and not forgotten.
- **Remote live connection**: once settled, the client is attached to the thread it
  shows and to no other; and it settles.

The hazards behind these properties are listed line by line in `PROJECT.json`.

## 2. The modules

| Module | Models | Built on |
|---|---|---|
| `SharedServer` | abstract: at most one server, workspaces attach to it together, swaps move everybody | |
| `SessionRegistry` | the registry and the records it depends on | refines `SharedServer` |
| `SessionRegistryProofs` | theorems about `SessionRegistry` | extends it and TLAPS |
| `RequestTable` | abstract: a request ends once, answered or given up | |
| `AppServerSession` | one `WorkspaceSession`, its callers, its reader, its server | refines `RequestTable` |
| `BackgroundPrompt` | `run_background_prompt_core` composed with the session | extends `AppServerSession` |
| `AppServerSessionProofs` | theorems about `AppServerSession` and, in its second part, `BackgroundPrompt` | extends both and TLAPS |
| `Automations` | the stored tasks and runs, the scheduler's loop, the panel | |
| `AutomationsProofs` | theorems about `Automations` | extends it and TLAPS |
| `WorkspaceStore` | the map of workspaces, its file and git's worktrees under every command that changes them | |
| `WorkspaceStoreProofs` | theorems about `WorkspaceStore` | extends it and TLAPS |
| `CodexLogin` | the backend of a login: starts, cancels, the map of handles, the server | |
| `AccountSwitching` | the hook of the account switch over that backend | extends `CodexLogin` |
| `AccountSwitchingProofs` | theorems about `AccountSwitching` | extends it and TLAPS |
| `ThreadTurns` | the turns of a thread as the frontend follows them, and their server | |
| `QueuedSend` | the composer's queue over those turns | extends `ThreadTurns` |
| `QueuedSendProofs` | theorems about `QueuedSend` | extends it and TLAPS |
| `RemoteLive` | the live connection of the selected thread, the daemon's answers | |
| `RemoteLiveProofs` | theorems about `RemoteLive` | extends it and TLAPS |
| `RemoteBackend` | the client of a remote backend, its connections, the daemon's end of them | refines `RequestTable` |
| `RemoteBackendProofs` | theorems about `RemoteBackend` | extends it and TLAPS |
| `MC*` | small instances for TLC | |

Some operators carry a comment that begins with "Mutant:". They are plausible
faults of the definition after them (a dropped guard, a missing reset, a swapped
order). Nothing uses them in a specification; each shows that a property notices.

### SessionRegistry

One action is one stretch of code in which no other command can run: one
critical section of the `sessions`, `workspaces` or `child` mutex. The value of
`pc[c]` is the place of client `c` between two of them and `job[c]` is its local
variables, so a value read under a lock and used after it is a field of `job`.

| Variable | Code |
|---|---|
| `workspaces`, `disk`, `minted` | `AppState.workspaces`, `workspaces.json`, the uuids ever drawn |
| `sessions` | `AppState.sessions`, workspace id to a session (a session is named by its process) |
| `process`, `registered` | the session's `child` and its `workspace_ids` |
| `spawnLock` | `workspace_session_spawn_lock()` |

| Actions | Code |
|---|---|
| `StartOnEntry` ... `StartList`, `AcquireLock` | the beginnings of the commands, and the spawn lock |
| `Lookup`, `OwnIsAlive`, `DropDead`, `Take`, `SharedIsAlive` | the search for a live session, `connect.rs:21-130` |
| `SpawnRefused`, `SpawnChild`, `SpawnInitialized`, `SpawnTimesOut`, `InitializeErrs`, `SpawnGivesUp` | `spawn_workspace_session`: the timeout kills the child, an error leaves it |
| `PersistOk`, `PersistFails`, `Rollback`, `Register`, `Insert` | the ends of the add commands and of connect |
| `ArgsNoop` ... `KillHeld` | `set_workspace_runtime_codex_args_core` |
| `KillTake`, `Unregister`, `KillProc`, `GitRemoved`, `GitFails`, `RemoveCommit`, `KillAllReturns` | `kill_session_by_id` and the commands that use it, which do not take the spawn lock |
| `SyncReplace`, `SyncPrune`, `SyncKill`, `SyncReturns` | the daemon's `sync_workspaces_from_storage` |
| `Crash`, `ForeignWrite` | a process exits; another program changes the file |

Abstracted: the argument strings (whether they differ is a choice), the folder
and git work that precedes an add, and names and settings of entries. A process
that died stays dead, so probing it and dropping its references are one step.

### AppServerSession

`call[r]` is the life of request `r`: called, listed (in `pending`), ready (in
`context`, its thread routed), waiting (written), and one of five ends. The
reader's state says which stage of the loop handles `reader.msg`. `starter` and `family`
are history variables, read by no guard: the workspace a thread was started for, and the threads
an item the reader has read named beside this one. The
order of the stages is the code's: context before pending before delivery for an
answer, hiding and suppression before routing before notes before emission for
an event. `WriteOk` also covers the window in which the reader has cleared the
table between a caller's insertion and its write.

The server is external. It answers what it received, at any time and in any
order, with or without what the client hopes for. It creates a thread
before it talks about it, announces memory-consolidation threads with
`thread/started`, and announces an archived thread after it has answered.
These assumptions come from how the client uses it; nothing more is assumed.

Abstracted: standard error and parse errors (reported, no state), the
content of items, and the kind of a background notice other than `hide`. A line
of output that does not decode as UTF-8 ends the loop (`BadOutput`).

### BackgroundPrompt

The prompt's requests are `Call`s of the session, in the workspace it talks for.
`Listen` and `Unlisten` put its collector in the session's table and take it out; `EmitEvent`
of the session fills the channel. `CollectTimeout` is the sixty-second timer.
The early returns for an unknown workspace or session come before anything
changes and are left out.

### Automations

`file` is `automations.json`, `writing` the lock with what its holder is about
to leave in the file. A command keeps the lock from its read to the end of its write and
nobody reads without it except the panel, so a command is two steps: read,
compute and truncate (`UpsertTask`, `DeleteTask`, `SetTaskEnabled`, `Claim`, `RecordRunFinished`),
and `Written`. In between, `WriteFails` or `Quit` leaves the file empty or partial.

`sched` is the loop `claimAndRun` of `useAutomationScheduler.ts`: its place, the
claims it has in hand, and the `canceled` flag of its effect. `Refused` follows
an error of `finishRun` through the try block into its handler, and from there out of
the loop. `Tick` is either timer; `sched.at = "idle"` is `runningRef`. `draft` and
`saving` are the panel's editor, which may hold an old copy of a task.

Abstracted: a once, daily, weekly or monthly schedule is the set of times it falls on,
an interval is a distance; a failed run with the timeout's error has the status
`stale`; titles, prompts, policies and defaults are left out, as is a draft that
`normalize_task` rejects. The panel's list is a
state only while the editor is opened on it.

### WorkspaceStore

`memory` is the map, `file` what `workspaces.json` holds (whole, emptied or torn),
`trees` git's worktrees. `fs::write` is two steps, `Truncate` and `Fill`; a command
that adds or removes holds the map's mutex (`lock`) over both, a settings update and a
rename do not. `job[c]` holds what the code holds across an await: the entry read
before the git commands, the list to be written, the snapshot a failed rename puts
back. Each git command is a step and can fail. `Restart` is `AppState::load` or
`DaemonState::load`, where a file that does not parse reads as no workspaces.

The three properties speak of states at rest, and each excuses the crossings it names
(`crossed` collects them): a fault nothing rolls back, another command's write inside an
unlocked one, the daemon's list beside a change, and so on. Each excuse was found
necessary: without it TLC finds a behaviour of the code, listed in section 5.

Abstracted: of the settings the worktree setup script, which is inherited; a branch
without a folder; the checks whether a folder exists, made with the git command they
precede; the push of a renamed branch, which changes none of this state.

### CodexLogin and AccountSwitching

The n-th start and the login it opens are named n. `handles` is `codex_login_cancels`,
one handle for each workspace: the sender of a waiting start or the id of a login.
`starts[n]` is a call of `codex_login_core` (`Register`, `NoticeCancel`, `StartTimeout`,
`Receive`, `KeepLoginId`), `cancels[c]` one of `codex_login_cancel_core` (`TakeHandle`,
`ServeCancel`). `RemoveAndEnd` removes the workspace's handle whosever it is, as the code
does. `hook` is the hook's state and refs, one set for all workspaces; `flows[n]` is the
place of the n-th `handleSwitchAccount`.

The server is external: it opens a login for every request it gets, also one whose
start gave up, ends every login, and tells all workspaces of its session. A login can only succeed once its
start has answered, because the user needs its address. A lost session is not
spawned again. A render follows each update at once.

`crossed` records the pairs of logins whose lives overlap (one is started while something of the
other is still to come). Two logins of the hook can overlap, because a cancel or a change of workspace puts the
indicator out at once and lets the next start begin.

### ThreadTurns and QueuedSend

The code keeps three views of the active turn and the model keeps all three: `state`
(the reducer with every dispatched action applied), `rendered` (the last render, which closures and
effects read) and `refs` (the cache the event handlers write without waiting).
`calls` are requests the frontend awaits; `Serve`, `Work` and `Fail` are the app-server,
`events` its notifications in order. A turn is named by the message that started it.

| Actions | Code |
|---|---|
| `HandleSend`, `QueueMessage`, `RemoveQueuedMessage`, `Flush`, `WatchInFlight` | `useQueuedSend.ts` |
| `Send`, `Begin`, `StartAnswered`, `SteerAnswered`, `ReviewAnswered`, `InterruptTurn` | `useThreadMessaging.ts` |
| `OnTurnStarted`, `OnTurnCompleted`, `OnTurnError`, `OnThreadStatusChanged`, `OnItem` | `useThreadTurnEvents.ts`, `useThreadItemEvents.ts` |
| `RefreshThread`, `RefreshAnswered` | `useThreadActions.ts` |
| `Render`, `RunEffects` | React: a snapshot, then its effects |

Abstracted: the texts; commands that start no turn are one kind (`Commands`);
`queueFlushPaused` is false (it is true while a response of the user is asked for);
forks, new and resumed threads, goals, detached reviews and the pet command are left out. The steps beside the plain course of a turn
are the `Disturbances`; a behaviour has a bounded number of them and a property
excuses the kinds after which the code does otherwise. One kind, `unheeded`, is no step of its own: it counts the errors
that `OnTurnError` takes for those of another turn than the active one.

### RemoteLive

`client` holds the hook's refs and its attempts, oldest first; only the last can be
current, and an attempt's `pc` says which await it is at. `ReconnectLive` also covers the case that
joins the attempt under way. `window` is focus and visibility. The daemon keeps no
subscriptions: `subscribed` is what the calls it has served amount to, and its notifications
go to all clients. It serves calls in any order, since every RPC is a task of its own.

Abstracted: the display states `live` and `polling` (both are attached), activity and heartbeat
notifications, the change of workspace or of the backend mode, the polling refresh, and
the clean-up on unmount. A self-detach is ignored until `IgnoreExpires`, the timer's end.

### RemoteBackend

`tasks[c]` is the c-th call of `call_remote` with its locals: where it is, which attempt, the
connection it uses, the clones of clients it holds. `client` is `AppState.remote_backend`.
`connections[k]` is the k-th connection: `pending`, `connected`, `queue` (the channel to the
writer), the two tasks, and the daemon's end (`serving`, `authenticated`, lines and answers
on their way). `running` holds the daemon's tasks of requests, which go on when the connection has ended.

| Actions | Code |
|---|---|
| `Call`, `Ensure`, `Resolve`, `Connect`, `ConnectFails`, `Store`, `Return` | `call_remote`, `ensure_remote_backend` |
| `Check`, `Insert`, `Send`, `Answered`, `TimeOut` | `RemoteBackend::call`, also for `auth` |
| `WriteNext`, `WriterEnds`, `ReadNext`, `ReaderEnds` | `remote_backend/transport.rs` |
| `ServeLine`, `RunRequest`, `ServerEnds` | the daemon's `transport.rs` and `rpc.rs` |
| `ReadPrevious`, `SaveSettings`, `SaveFails`, `ResetClient` | `update_app_settings` |

The calls of the application and the link are external: calls come at any time, a link can be lost, with what is on it, and
neither end need notice. A host of the settings stands for address and token; its daemon knows the token,
asks for none, or refuses. Abstracted: methods and results, of which only whether a method may be
repeated matters; notifications; the limit of 32 requests in flight; a change of the backend mode,
which resets the client as a change of the host does. A crash of the daemon is a lost link whose running requests
never run.

## 3. What is checked

| Run | Instance | Question | Properties |
|---|---|---|---|
| `registry_app` | 2 clients, 1 main workspace, 1 worktree, 3 processes, failing writes | do all desktop commands keep one session, and where can a process or a registration be lost? | `SingleSession`, `FreshSpawnIsAlone`, `LeaksOnlyThere`, `DeafOnlyByKill`, `RefinesSharedServer` |
| `registry_live` | 2 clients, 2 mains (1 of them also another program's), 2 processes, connect, add, set-args, list | does every command return? | `EveryCommandReturns` |
| `registry_prune` | connect, remove, list | does the daemon's prune spare the others? (no) | `PruneSparesOthers` |
| `session_tables` | 2 workspaces, 1 thread and 1 memory thread, 2 requests, 2 events | requests, routes, hidden threads | `PendingIsExact`, `ToldThreadsAreRouted`, `NoCrossTalk`, `MemoryThreadsAreSilent`, `RefinesRequestTable` |
| `session_drained` | 2 requests, undecodable output | does nobody wait once the reader is gone? (no) | `PendingStaysDrained` |
| `background_prompts` | 1 prompt, its 3 requests, 2 events | one prompt against a server that answers, refuses, is silent or dies | `PromptsCleanUp`, `TurnStaysInBackground`, `ExitReleasesPrompts` |
| `automations` | 1 task, a calendar and an interval, 3 user edits, 2 claims, one clock step back, one fault | is a due time run once, whatever is edited, cut short or repeated, are tasks left alone, and does an orphaned run end? | `SentOnce`, `OneRunPerTask`, `NothingIsUndone`, `ClaimsLatestDue`, `OrphansEnd` |
| `workspace_store` | 2 clients, 4 commands, 1 fault, 2 worktrees, 3 names, 2 scripts | do map, file and git agree at rest, and do worktrees follow their parent? | `FileHoldsTheMap`, `RecordsMatchGit`, `WorktreesInheritTheScript` |
| `account_login` | 2 starts, 1 cancel, 2 workspaces, 2 disturbances | can a login be canceled, and only by its user, and does the indicator go out? | `CanceledForReason`, `LoginCanBeCanceled`, `PageIsWanted`, `EveryLoginEnds` |
| `threads_queue` | 3 messages or a review or command and fewer, 1 disturbance | is each message sent once and in turn, and does the view settle on the truth? | `NothingLost`, `DeliveredOnce`, `ViewIsTrue`, `SpinnerEnds`, `QueueIsServed`, `OneAtATime` |
| `remote_live` | 2 threads, 2 disturbances | is the client, once settled, attached to the thread it shows and to no other? | `SelectedIsLive`, `NothingStaysAttached`, `Settles` |
| `remote_backend` | 2 calls, one repeatable, 2 connections, 2 hosts, 1 update, 1 disturbance | do calls end once and with their own answers, whatever is lost, and does the client follow the settings? | `AtMostOnce`, `EndReachesWaiters`, `ClientFollowsSettings`, `RefinesRequestTable`, `UnusedConnectionsEnd` |

Why these bounds are enough to be interesting. Two clients are what every race
of the registry needs: one holds the spawn lock (or none does) and one kills.
With a worktree beside its main workspace, removal visits two entries, and the
parent is reached only if the child could be removed. Three processes let a
session be replaced twice; the bound also makes `SpawnChild` impossible when
they are used up, which is why only `SpawnRefused` is left and no command hangs.
Two requests of two workspaces allow one answer to overtake, follow or miss the
other, and give a thread a start and a later use; two announcements give an
archived or item event before and after. The background prompt sends three
requests in its whole life. Four points of time hold two times of a
calendar, the first of which can be missed, and an interval, and a timeout of one makes stale
and slow runs meet; three edits are save, delete and save again; two claims are the two
runs of one due time. A schedule that runs once, the cut of the list of runs (two claims do not reach it) and a batch of two
tasks are in the module and not in this instance: safety alone passes with three kinds of schedule, three claims and five points of
time. Identifiers of workspaces, processes and requests are used
once, so the systems really run out of them: every cfg says
`CHECK_DEADLOCK FALSE` for this reason. `Foreign` bounds the other
program's writes: none in `registry_app`, one workspace in `registry_live`, both in `registry_prune`.

A rename and a removal, or two updates, or a list beside one of them need two commands at once;
four let a settled pair be followed by the command that repairs or spreads its result (with two faults
and four commands the run passes too). Three names for two worktrees give a rename a
free name, its own and one in use. Two logins overlap or not, and a third
would meet the second as the second meets the first; two disturbances allow a cancel
and a change of workspace, or either with a failure. Three messages are one running,
one queued and one steered or second in the queue. Two threads are
the one left and the one selected; two disturbances allow to leave a thread and come back, or a
blur and a focus, under one attempt. Two calls over two connections connect at once, share a
connection or follow each other, and the one that may be repeated loses its first connection and uses the second;
a queue of one is full when both send; one disturbance is one lost link, failed connect or timeout. Two overlapping updates
are not in the run, only in `ClientFollowsSettings`: with one call and two updates it passes, and fails without its last excuse.

Symmetry (processes, clients, spare names and messages) is declared in the runs with safety and action
properties only.

**Fairness.** `SessionRegistry!Fairness` says that a client that can take
a step of its own takes it (the runtime polls ready tasks; initialize ends
because it has a timer) and that a client that waits for the spawn lock gets
it although others take it in between (a tokio `Mutex` serves its waiters in order).
New commands, crashes and other programs' writes are not fair. `FairPSpec` makes the
reader, the callers and the prompt fair, with the sixty-second timer of a
collection, and leaves the five-minute timer of a request out: this is what shows
that the end of the process, not the timer, wakes the callers.
`Exit` and the server's answers are not fair. `Automations!FairSpec`: the interval timer
fires, the loop goes on, a write ends, the effect comes back, time advances. Time
ends at `MaxTime`, so `OrphansEnd` speaks of runs whose timeout lies before it.
`AccountSwitching!Fairness`: the backend's tasks run, a start and a request have timers, the
server lets every login end, promises settle, notifications arrive; the server need not
answer a start and the user need do nothing. `RemoteLive!Fairness`: calls are answered or fail by
their timer, notifications arrive, renders follow; the user need not come back.
`RemoteBackend!Fairness`: the tasks of a connection run at both ends; calls, updates and the daemon's requests
need not get on, and a lost link need not be noticed, since no end sends anything to find out.

What the runs show:

- `SingleSession`, `FreshSpawnIsAlone`, `RefinesSharedServer`: the double check
  under the spawn lock is enough, though kills do not take that lock.
- `LeaksOnlyThere`: a process can be abandoned in three places and no other (section 5); one that
  is silent until initialize times out is killed.
- `DeafOnlyByKill`: a connected workspace that hears no broadcast has
  always been unregistered by a kill begun before it connected.
- `EveryCommandReturns`: the spawn lock is released on every path.
- `PendingIsExact`, `RefinesRequestTable`: a request ends once and with its own
  answer, and leaves nothing in the table unless its future was dropped.
- `ToldThreadsAreRouted`: when the caller knows a thread its events are
  already routed, since the reader attributes before it delivers.
- `NoCrossTalk`: events never go to a workspace without a relation to the
  thread, late answers and item events about other threads included.
- `MemoryThreadsAreSilent`, `TurnStaysInBackground`, `PromptsCleanUp`,
  `ExitReleasesPrompts`: what their names say.
- `SentOnce`: no due time of a task is sent twice as long as the file remembers
  its runs; the restriction is needed, the run limit and a torn write break it.
- `OneRunPerTask`: reconciliation, claims and records never leave a task with two runs under way.
- `FileHoldsTheMap`, `RecordsMatchGit`, `WorktreesInheritTheScript`: refusals and the
  rollback of a rename leave map, file and git in agreement; every disagreement at rest
  needs one of the crossings of section 5.
- `CanceledForReason`, `LoginCanBeCanceled`, `PageIsWanted`, `EveryLoginEnds`: for a login
  that overlaps no other all four hold, whatever is answered late; where logins
  overlap only `CanceledForReason` still says something: the culprit is in the same workspace.
- `NothingLost`, `DeliveredOnce`: no interleaving of flush, steer, removal and render loses
  or repeats a message while requests succeed.
- `ViewIsTrue`, `SpinnerEnds`, `QueueIsServed`, `OneAtATime`: the three views meet, and the
  queue drains in turn, except after the disturbances each property names.
- `SelectedIsLive`, `NothingStaysAttached`, `Settles`: the sequence number and the
  clean-up of stale attempts are enough for switches, blurs and focuses alone; the
  named crossings are where they are not. The reaction to its own detach does not loop.
- `AtMostOnce`, `RefinesRequestTable`, `EndReachesWaiters`: the table of a connection gives each call its own
  answer or an error, and only a call that crosses the end of its connection is left to the timer.
- `ClientFollowsSettings`, `UnusedConnectionsEnd`: saving another host reaches the client except in the two crossings it names;
  whatever drops a client, its connection closes when the last call has let go of it.
- `ClaimsLatestDue`, `NothingIsUndone`, `OrphansEnd`: missed times collapse into the
  latest; no command overwrites another; a run nobody executes is declared dead.

## 4. What is proved

`SessionRegistryProofs` proves, for every set of workspaces, worktrees, processes and
clients, every choice of commands and faults, from `RegistryAssumption` alone
(the kinds of the constants, and that the "none" values are not members):

- `TypeCorrect`: `Spec => []TypeOK`;
- `SharedSession`: `Spec => []SingleSession`;
- `SpawnsAlone`: `Spec => []FreshSpawnIsAlone`;
- `ProcessesLeakOnlyThere`: `Spec => LeaksOnlyThere`;
- `BroadcastsReachTheConnected`: `Spec => DeafOnlyByKill`;
- `OneSharedServer`: `Spec => RefinesSharedServer`.

`SingleSession` is not inductive. An insertion is harmless only if what the
client holds is what the map holds, and that is a fact about a client that is
between two critical sections, while kills go on around it. The
inductive invariant is

    IInv == TypeInv /\ LockOwned /\ SingleSession /\ \A c \in Clients : OwnerKnows(c)

`TypeInv` adds to `TypeOK` that a client past its first step has a workspace.
`LockOwned` says that only the holder of the spawn lock is
between the locked steps, so two owners never interfere.
`OwnerKnows(c)` says what the owner may rely on at each place: with a process of
its own and not changing arguments, the map is empty; about to insert, every entry of the map is
the session it holds. It survives the other clients because a client without
the lock only removes entries (`ShrinkKeepsSingle`,
`ShrinkKeepsOwner`), and the only step that replaces entries, `ReplaceAll`,
needs the lock. The proof of the step has one case per group of actions.

The other three need to know more of the clients, and `KInv` adds it:

    KInv == IInv /\ AllBorn /\ \A c \in Clients : ClientKnows(c) /\ Exclusive(c)

`Exclusive(c)` says that nobody else knows the process a client is starting, `ClientKnows(c)` that
whoever is about to publish, register or kill a session holds one, and that an argument
change replaces the session everybody has. From these each step is one of `SharedServer` or a stutter:
only the steps that publish or remove entries move the abstract server. `LeaksOnlyThere` is about
a process nobody will find again, a state that lasts, so its proof asks who answers for a
process outside the map: `Custody` says that it is abandoned already or has a custodian, a client
that will insert or kill it; `CustodyPasses` shows that a step hands custody on except at the three
places the property names.

`AccountSwitchingProofs` proves, for every set of workspaces and every number of starts,
cancels and disturbances, from `WorkspacesAssumption` (the selected workspace is one, null
is none) and `LoginBoundAssumption` (the bounds are numbers):

- `TypeCorrect`: `Spec => []TypeOK`, the backend's types included;
- `CanceledOnlyForReason`: `Spec => []CanceledForReason`;
- `LoginsCanBeCanceled`: `Spec => []LoginCanBeCanceled`;
- `PagesAreWanted`: `Spec => PageIsWanted`.

`CanceledForReason` says why a start that has ended as canceled did so, but what ends it is
a signal given earlier, by another task, through a handle found under a workspace. So the
inductive invariant follows the signal back:

    IInv == /\ TypeOK
            /\ NothingBefore /\ CallsAreAwaited /\ OverlapsAreKnown /\ HandlesAreOwn
            /\ HookKnows /\ CancelsAreAimed /\ SignalsHaveReasons

A signal comes from another start that takes, or clears, the place in the map:
`HandlesAreOwn` says that the two have one workspace, `CallsAreAwaited` that
each is awaited by its flow, `OverlapsAreKnown` that two flows which await something at
the same time overlap. Or it comes from a cancel. A cancel of the user reaches the map some
time after the click, and may find there a start that did not exist when the user clicked:
`CancelsAreAimed` says that what began before was dismissed by it and what began since
overlaps that. The proof has two halves. Each step of the backend is brought to its effect
on calls, handles, cancels and logins (`BackendEffect`), which keeps the invariant
(`BackendKeeps`); the steps of the hook are taken one by one, and only `SwitchAccount`
can make an overlap.

`LoginCanBeCanceled` and `PageIsWanted` speak of a login that overlaps no other, and the
hook's refs and the map's handle are shared by all of them. The second invariant,

    SoloInv == LivesOverlap /\ LoginsFollow /\ CancelsFollow /\ OpenIsWatched

is inductive beside `IInv`. `LivesOverlap` says that two logins of which anything is still to
come (a call, a request, an open login, a notification) overlap, so whoever would disturb an
open login that overlaps none is that login itself (`OpenLives`), and it has no notification
under way (`OpenIsUntold`). `OpenIsWatched` then follows it from the click to its end: it is
`Reachable` (the refs name its workspace and id, the map has its id once its start has
answered, and no cancel of the user is on its way to take them), or it is dismissed and, while
its start is awaited, `accountSwitchCanceledRef` is set. The clauses about a cancel under way
and about a start still awaited are in neither property; without them neither is inductive.

`AppServerSessionProofs` proves, from `SessionAssumption` alone (a memory thread is a thread,
the owner a workspace, depths are numbers), every property `session_tables` checks:

- `TypeCorrect`: `Spec => []TypeOK`;
- `WaitersAreListed`: `Spec => []PendingIsExact`;
- `ImplementsRequestTable`: `Spec => RefinesRequestTable`;
- `ToldThreadsStayRouted`: `Spec => []ToldThreadsAreRouted`;
- `NoBystanderHears`: `Spec => []NoCrossTalk`;
- `MemoryStaysSilent`: `Spec => MemoryThreadsAreSilent`.

The tables are never locked together, so what one stage of the reader relies on was
established in another table, by a caller, some lines of output earlier. The common
invariant says what the parties know of each other:

    CInv == TypeOK /\ PendingIsExact /\ AskedOnce /\ ServerIsTruthful /\ StartedOnce

`ServerIsTruthful` types the output by the state: `outbox \in Seq(Truthful)`, where a truthful
answer is to an answered request and names the thread the request was about or
has started. What is truthful stays so (`TruthIsKept`). With it, and `AskedOnce` (no request is
answered before it is written, nor twice), each step maps to one of `RequestTable` or a
stutter: `Ask` to `Ask`, the server's `Answer` to `Serve`, `Deliver` to `Return`, an end without an
answer to `GiveUp` of one request, the end of the output to `GiveUp` of all that wait.

Each property of the routing has a strengthening of its own. `RoutesAreKept` follows the
context of a request: whoever waits has it in the table or in the reader's hand, so the
answer that tells the caller of a thread has routed it just before. `RoutesAreJustified` follows
the reason of a route: from the request to the answer that carries it, to the thread's starter
when the answer is consumed, and along items from thread to thread. `MemoryIsHidden`
follows the start of a memory thread through the output: every event about the thread
that is not yet hidden has its `thread/started` in front of it.

The second part of `AppServerSessionProofs` proves, for any number of prompts in a session and from `SessionAssumption` alone,
the two safety properties its run checks with one prompt, and that the session bears the prompts:

- `WaitersAreListedUnderPrompts`: `PSpec => []PendingIsExact`;
- `PromptsLeaveNothing`: `PSpec => []PromptsCleanUp`;
- `TurnsStayInBackground`: `PSpec => TurnStaysInBackground`.

With several prompts both properties rest on their threads being different, and that is decided at
the server and learned by the prompt three steps later. The invariant

    BInv == CInv /\ PromptTypes /\ StartsApart /\ (\A b \in Prompts : PromptKnows(b))
                 /\ PromptsApart /\ CollectorsAreOwned

therefore says of two requests that they are never told of one thread, wherever the news is:
in the output, in the reader's hand or with the caller (`StartsApart`). A prompt that waits for its start
is thereby apart from a prompt that has a thread (`PromptsApart`), no collector is left without a prompt
that listens (`CollectorsAreOwned`), and `PromptKnows` says what a prompt has done at each place. All
the prompts rely on in a step of the session is `Follows`: a request keeps what it asked, threads stay
created, and only an answer with a new thread starts one.

`RemoteBackendProofs` proves, for every set of calls, hosts and updates and any number of
connections, from `HostsAssumption` alone, every safety property its run checks:

- `TypeCorrect`: `Spec => [](TypeOK /\ Placed)`;
- `NoCallTwice`: `Spec => []AtMostOnce`;
- `EndsOnceTruly`: `Spec => RefinesRequestTable`;
- `WaitersAreTold`: `Spec => []EndReachesWaiters`;
- `CallsGoToTheSavedHost`: `Spec => []ClientFollowsSettings`.

A message passes a queue, a line, a task of the daemon and an answer, and a call that retries
may have messages on two connections. The invariant therefore counts:

    BackendInv == /\ TypeOK /\ Placed /\ Claims /\ \A k \in Made : Once(k) /\ Numbered(k)
                  /\ \A c \in Calls : Truth(c) /\ Budget(c)

`Once` and `Numbered` say that a number of a connection is at most once on its way, and below the next one
to be drawn; `Claims` that it belongs to the call that has it; `Truth` that an answer on its way to a call is about
that call and, if it is good, that the daemon has carried it out; `Budget` that what a call has on its
way plus what was carried out is no more than it has sent. `EndInv` says why a call without an answer
still has its entry in a table that will be emptied, or entered it too late, and `FollowInv` why a client for
another host was made late or is about to be dropped by an update.

`AutomationsProofs` proves, for any tasks, schedules and limits, from `AutomationAssumption` (a schedule is a
set of times or a positive distance, the limits are numbers), every safety property its run checks:

- `TypeCorrect`: `Spec => []TypeOK`;
- `OneRunAtATime`: `Spec => []OneRunPerTask`;
- `NoTimeTwice`: `Spec => []SentOnce`;
- `NothingGetsUndone`: `Spec => NothingIsUndone`;
- `OnlyTheLatestIsClaimed`: `Spec => ClaimsLatestDue`.

The invariant is about `Content`, what the file holds or is about to hold, so that the two steps
of a command change it once:

    IInv == TypeOK /\ Sound(Content) /\ Remembered

`Sound` is what the commands keep: one entry per task, one running run per task, one run per
due time, and a next time that is one of the schedule's. `Remembered` says that every run the loop
has in hand, a claim is about to return or a thread was sent is still in the file, unless the file
has forgotten one; with one run per due time this is `SentOnce`. The commands are
first treated as functions on the state of the file (`UpsertKeeps`, `DeleteKeeps`, `ReplaceKeeps`, `RecordKeeps`,
`ClaimKeeps`), over lemmas on the schedules (`LatestDueFacts`, which rests on the division
of the intervals and on least and greatest elements), then as steps.

`WorkspaceStoreProofs` proves, for every set of clients, worktrees, names and scripts and any number of commands
and faults, every property its run checks. It rests on `StoreAssumption`, which names what the first state is like:
the main workspace is no worktree, and two worktrees known at first have two names (git has one worktree
for each branch and folder).

- `TypeCorrect`: `Spec => []TypeOK`;
- `TheFileHoldsTheMap`: `Spec => []FileHoldsTheMap`;
- `WorktreesHaveTheScript`: `Spec => []WorktreesInheritTheScript`;
- `TheRecordsMatchGit`: `Spec => []RecordsMatchGit`.

The properties speak of states at rest, so none is inductive: between two steps of a command map, file and git
differ, and what matters is who will put that right. Each has an invariant that holds unless
a crossing it excuses has happened:

- `FileFollows`: a client about to write has the map as it is in its list (`FileAt`); when nobody is about to
  write, the file holds the map or the map a rename would roll back to, and every rollback leads to one of the two.
- `ScriptsFollow`: a worktree has its parent's script or is among the children of the update that is about to
  spread it (`Inherits`); an add or a rollback under way carries the script of now.
- `RecordsFollow`: every record names a worktree of git unless a rename or a removal is at work on it (`Placed`), and
  every worktree of git has a record unless an add or a rename has it in hand (`Known`). `Stage(c)` is the name and folder git
  has for the worktree of a rename at each place of it. From `HandsApart`, that no two clients have a
  name in common, follows that the way back of a rename is always free (`TheWayBack`), so a rollback in which git
  does not fail always succeeds; `OthersKnow` shows that a step of one client leaves what the others rely on.

The proofs show the excuses to be enough, for any instance; that each is needed is what TLC showed (section 5).

`QueuedSendProofs` proves, for any set of messages, reviews and commands and any bounds, from `MessagesAssumption`
(reviews and commands are different messages; "no turn", "no message" and "unset" are none) about the thread and its composer:

- `TypeCorrect`: `Spec => []Types`;
- `MessagesAreNotLost`: `Spec => []NothingLost`;
- `MessagesAreDeliveredOnce`: `Spec => []DeliveredOnce`;
- `SpinnerAlwaysEnds`: `Spec => []SpinnerEnds`;
- `ViewIsAlwaysTrue`: `Spec => []ViewIsTrue`;
- `QueueIsAlwaysServed`: `Spec => []QueueIsServed`.

The first three follow from

    IInv == Types /\ CallsKnow /\ Kept /\ (Calm => Once)

`Kept` is `NothingLost` itself; what it needs is `CallsKnow`: a call answered "ok" for a start, a steer or a review is for a
message that arrived, so ending the call loses nothing. `Once` is what holds until a request fails (`Calm`). Then a message
is in one place only: in one call (`OneCallEach`), which has not delivered it before "ok" and whose message is not
in the queue (`CallsDeliver`), or in the queue, once, without having arrived (`QueueWaits`, `Distinct`).
The flush is the hard step, because it sends the head of the rendered queue and drops the head of the queue as
it is now. `HeadIsFresh` carries it: while effects are due, the head of the rendered queue is in no call, has
not arrived, and is still the head of the queue or no longer in it. Effects that ran twice on one
render would break it. The 26 kinds of step are first sorted into seven by what they do to queue, calls and histories
(`StepFacts`), which keep the invariant (`KeptKept`, `OnceQuiet` ... `OnceFlushed`) over lemmas on sequences
(`AppendFacts`, `TailFacts`, `FilterFacts`). No prover knows `SelectSeq`, so `RemoveQueuedMessage` tells its filter by the
places that it keeps.

The other three speak of the moment when nothing is on its way, so their invariants say of every answer and event in
flight where it leads, until a refresh, a failure or a late answer (`Smooth`):

    SpinInv  == Smooth => Flow /\ Aimed       Flow == Paced /\ Shaped /\ Met /\ Cached /\ Tracked /\ Spins
    ViewInv  == (Smooth, nothing unheeded => Reviewed) /\ (Smooth, no interrupt, no stale steer => Straight)
    QueueInv == Smooth /\ ~effectsDue => Flushed

`Paced` is about the events still to be handled alone: turns come one after the other, start once, end once but for
a second report, and the last of them is the one that runs (`Ordered`); blocks are not cut (`Whole`). A theory of such streams comes
first: what one report adds (`ReportKeepsOrder`, `ReportGrows`) and handling one takes away (`TailKeepsOrder`, `HandlingFacts`,
`TailShows`); a stop, an end and a start are composed of reports. `Tracked` is the heart: the thread shows no turn or one that runs
or has an event to come (`Live`), and while an end is to come the cache gives none or such a turn, never one
that comes after the one shown. So an end that is ignored is ignored for a turn that is still to end, and
the turn shown is cleared by its own end at the latest. The cache is why this is hard: it stands for a turn, or follows the
renders, and what `getLatestKnownActiveTurnId` gives can be older or newer than the thread; `Cached` says that while it is
optimistic it stands for the turn whose events are being handled. `Met` keeps a turn that starts from being one
the client knows already, which rests on `Once`. `Spins` says that a spinner waits for such a turn or for an answer.
`Reviewed` says the same of a review, `Straight` that the running turn is shown from its first event on, and `Flushed` what the two effects
leave behind. Each part has a lemma for the user, the answers, the events, the app-server and the effects.

`RemoteLiveProofs` proves, for any set of threads and any number of disturbances, from `ThreadsAssumption` (the first
thread is one, null is none) and `BoundAssumption` (the bound is a number), both safety properties its run checks:

- `TypeCorrect`: `Spec => []TypeOK`;
- `NothingStaysAttachedHolds`: `Spec => []NothingStaysAttached`;
- `SelectedIsLiveHolds`: `Spec => []SelectedIsLive`.

Both speak of the moment when everything is answered, and each step there is taken by another party (an attempt, the
daemon, a notification, a render), so the invariant says who still owes what:

    Inv == TypeOK /\ Down /\ Own /\ Undone /\ (Sound => Answered /\ Marked /\ Live)

`Undone` is about what must go: every subscription is of the thread that is wanted (`Wanted`) or `Owed`, its
unsubscribe being under way or before an attempt that will look, after its subscription, whether its thread is still
wanted. `Own` says that what the client wants is what the user sees, and that a current attempt is for that. `Live` is about what must
come: while somebody is to attach the thread (`Obliged`) there is an attempt with its subscribe before it (`Coming`),
or the thread is attached and the client knows or will (`Landed`), or a detach that the client will not ignore is on its way
(`Heard`). The last is why notifications must be counted: a thread in `ignored` has one detach that will be ignored
(`Marked`), so it must be told twice to be heard. `Sound` says that no crossing happened and that no stale attempt is
about to make one. Attempts end in any order and only the last may be current, but no lemma needs their order:
`UnderWay` is their set, the first lemmas say what each operator does to it (`OverFacts` ... `DetachedFacts`), and
`NextSteps` sorts the steps into kinds by that.

Only model-checked: all liveness (out of the prover's reach; `ExitReleasesPrompts` and `Settles` among it),
`PendingStaysDrained` and `PruneSparesOthers` (which are false), and `OneAtATime`, that queued messages go out
one at a time. An invariant for it would have to follow a queued message through every lag between thread, render and effects;
that was not attempted.

## 5. What the models show about the code

Disagreements that a run demonstrates:

- **The daemon's prune** (`registry_prune`). `sync_workspaces_from_storage`
  (`codex_buddy_daemon.rs:203-241`) kills the child of a workspace that left the
  file although others share it; its test expects theirs to remain.
- **Requests after the end of output** (`session_drained`). The comment at
  `app_server.rs:1065` says that requests cannot accumulate; the tables are
  cleared once. After a line that is not UTF-8 the child still runs, connect still
  hands the session out, and each request waits for 300 seconds.

Other behaviours, found while modelling and part of the models.

Registry, session, prompts and automations:

- `README.md:12` promises one app-server per workspace; the code shares one among all
  (`connect.rs:122-130`), and `SingleSession` is the property that holds;
- a kill takes its entry out under the lock and unregisters later
  (`connect.rs:163`); a connect in between leaves the workspace
  connected and unregistered (`DeafOnlyByKill` names this as the only cause);
- `add_worktree` returns on a failed write with its process running
  (`worktree.rs:239`), where the other adds roll back and kill it;
- argument changes leak the new process when kills empty the map meanwhile
  (`runtime_codex_args.rs:88`);
- an initialize that ends in an error returns without killing the child (`app_server.rs:1106`, `1107`;
  its timeout kills, `1099`, and no command sets `kill_on_drop`): after a line that is not UTF-8, which ends the
  reader (`809`) and cancels the request (`1066`), or a closed stdin, the process may run on unknown to
  the registry, and the next connect starts another. The last handle of the session goes, and with it the process's
  stdin, so it may exit by itself (`Crash`); nothing in the code sees to it;
- connect resolves the entry before it waits for the lock: a workspace removed
  meanwhile ends up connected; a failed write of a removal leaves memory and file
  apart until the next write; an entry that will be rolled back can be connected;
- `thread/archived` read after a later request about the thread removes the route
  that request has set; a request in flight re-registers a removed workspace;
- the answer to a request that timed out teaches the router nothing, so a thread
  it started is routed to the session's owner;
- the events dropped for a hidden thread include the server's own requests;
- a background collector's channel does not close when the process dies: the session's table
  holds its sender, so the prompt waits for its sixty-second timer.
- `write_state` (`automations_core.rs:750`) is not atomic: a quit or a full disk
  during a write loses all tasks (an empty file reads as no tasks) or makes every
  later command fail until somebody repairs the file;
- the panel lists tasks without the lock and can read the file
  while it is being written;
- a run whose prompt was sent is recorded as failed if the first record failed;
  if the second fails too, or the effect is taken down, the rest of the batch is
  not run, and its tasks wait for the six-hour timeout;
- a `next_run_at_ms` corrected because its time was claimed before is written only if
  something else changed (`automations_core.rs:319`, `349`).

Workspace records:

- the list of a settings update or a rename is collected under the lock and written after it
  (`crud_persistence.rs:604`, `worktree.rs:472`): a write in between leaves the older list in
  the file, and two overlapping writes can tear it;
- a file that does not parse reads as no workspaces at the next start (`state.rs:54`), and
  the next write makes that permanent;
- a rename that fails restores the whole old entry (`worktree.rs:502`): settings saved
  meanwhile are undone, and the file keeps the new name if another command wrote it;
- the daemon's list replaces the map by a file read before (`codex_buddy_daemon.rs:203-218`):
  an acknowledged settings update can be lost, with the worktrees keeping the new script and the
  parent the old one; saving the same script again repairs nothing, since it is compared with the parent's;
- a removal uses the path it read: beside a rename of the same worktree it leaves the folder
  without an entry, or removes another worktree that has taken the name;
- a worktree added while its parent is removed is an orphan that cannot be removed
  (`worktree parent not found`);
- `add_worktree` leaves its folder behind when no process can be started.

Login:

- a start that notices its cancel removes whatever handle its workspace has
  (`codex_core.rs:1366`): cancel and start again in one workspace, and both are canceled;
- a start that fails leaves its handle (`:1389`), and a later cancel answers that it canceled it;
- a start that gave up is still answered at the server: a login nobody knows of;
- a canceled start's answer opens its page if another start has begun since, which clears
  the flag (`useAccountSwitching.ts:152`, `171`); so does a late notification of another
  login while no id is known;
- the refs are one set: a login in a second workspace overwrites those of the first;
- the indicator has no timer: it stays on when the app-server is lost, or when a stale answer has replaced
  the id the notification is compared with.

Threads:

- a steer that fails because its turn is over ends the thread's processing locally
  (`useThreadMessaging.ts:368`, `406`), also that of the next turn, already running; other errors of a steer leave
  the spinner to the events;
- an answer to a start read after the turn's end shows the turn again (`:399`);
- a turn that is over, or refused, before a render saw it run leaves its message in flight
  (`useQueuedSend.ts:411`): the queue of the thread waits until another turn runs;
- a turn that ends twice (an error and a completion, a review's item and its completion, an interrupt
  and its event) clears the processing of the message the flush sent in between, so the
  next one goes out beside it; the tests of the queue render each step and do not see it;
- a steer whose answer is lost is given back to the queue and delivered twice;
- a refresh that was answered before an event shows the thread as it was
  (`useThreadActions.ts:275`); a failed review keeps the id of its turn;
- the error of a review is ignored when the cache gives another turn (`useThreadTurnEvents.ts:446`), and with
  it the reset of `reviewing`: the thread is shown in review while the next turn, or none, runs, and the queue waits. It takes
  two queued reviews and a message whose turns overlap.

Remote live connection:

- a client that follows its thread to none, or while hidden, does not make the attempts under way stale
  (`useRemoteThreadLiveConnection.ts:295-312`): the attempt attaches a thread nobody shows;
- an attempt that becomes stale while it detaches clears the key of the thread attached since,
  and subscribes (`:241-246`);
- a detach notification joins an attempt that may be past its subscription (`:193`, `:384`);
  a session lost during an attempt joins it too, and nothing tries again;
- a failed call is not repeated before the next focus (`:263`);
- leaving the window again before a stale attempt has subscribed leaves its subscription (`:248`);
- the mobile refresh reconnects the thread it began with (`MainApp.tsx:675`);
- the hook marks its own detach before it asks for it (`:237`) and takes the mark back only when a detach comes
  while its thread is selected (`:370`): if the user looks at another thread meanwhile the mark stays, and for ten seconds after
  the return the next detach of the thread, say of the unsubscribe that the switch sent, is ignored
  though the thread is in view, and the hook holds it for attached.

Three of the excuses in `RemoteLive` were found by its proof, where the run with two disturbances passed without
them: the mark that stays (`unheard`), which takes three; a session lost while the window is hidden and attempts are under
way (`left`), which takes four; and a current attempt whose subscribe was refused, which undoes nothing when it is left (`again`).
The theorems hold for any number, so there are no more of them.
The ignored error of a review (`unheeded`) in `QueuedSend` was found in the same way, by the proof of `ViewIsTrue`: three messages are
too few for it.

Remote backend client:

- a call that has read that the connection is up (`remote_backend/mod.rs:72`) and enters the table after
  `mark_disconnected` has emptied it is woken by nobody if the writer still takes its message: it waits for 300 seconds;
- a call that connects while other settings are saved stores a client of the old host after the reset
  (`mod.rs:199`, `230`; `settings/mod.rs:29`), and all calls go there until one fails or the settings change again; so can two
  overlapping updates, since each compares what it has read and written itself;
- two calls that find no client connect each (`mod.rs:193-234`); a failed call drops the client of the moment, also one that a later
  call has just stored (`mod.rs:125`, `139`);
- a repeatable call can be carried out twice, its first attempt after the second; an error of the daemon
  drops a client that is in order;
- a daemon that asks for no token answers `auth` with `unknown method`, so a client with a token cannot use it.

## 6. What is not modelled, and why

Parsing, formatting, git and file wrappers, rendering, package managers, audio: data or
pure input and output. The terminal and the
broadcast of the daemon are protocols of their own that no module covers. In the terminal two
things are worth a module: `terminal-exit` names the tab and not the shell, so the exit of a shell
that a launch script restarted (`useTerminalController.ts:125`) closes the tab, and with it the new
shell (`:80`); and a write that fails on a shell that was replaced meanwhile removes the new one
from the map (`terminal.rs:314`), where `spawn_terminal_reader` compares pointers (`:179`). In modelled parts:
what section 2 lists as abstracted; initialize as a request of its
own (its answer is `SpawnInitialized`, also when it carries an error, which the code does not look at; its
timeout is `SpawnTimesOut`, its failure `InitializeErrs`). The composition of registry and session is not
checked as one system: the registry sees a session as a process and a broadcast
set, the session sees the registry as `Register` and `Unregister` at any time, which is
more than the registry does.
Two
programs on one `automations.json` would each have their own lock; that is not
modelled.

## 7. Plan

Done: `SessionRegistry` with `SharedServer` and proofs, `AppServerSession` with
`RequestTable` and proofs, `BackgroundPrompt`, `Automations`, `RemoteBackend`, `ThreadTurns` with `QueuedSend`,
`CodexLogin` with `AccountSwitching` and proofs, `RemoteLive` with proofs, `WorkspaceStore`; proofs about
`SessionRegistry` (its refinement included), `BackgroundPrompt`, `RemoteBackend`, `Automations`, `WorkspaceStore`
and `QueuedSend`. What is left, in this order:

1. A proof of `OneAtATime`.
2. The daemon's broadcast and the terminal.
3. The composition of `SessionRegistry` with `WorkspaceStore`, which share the map.

## 8. How to run

    tlc -workers 2 -config MCSessionRegistry_app.cfg MCSessionRegistry
    tlapm SessionRegistryProofs.tla
    tlapm AccountSwitchingProofs.tla
    tlapm AppServerSessionProofs.tla
    tlapm RemoteBackendProofs.tla
    tlapm AutomationsProofs.tla
    tlapm WorkspaceStoreProofs.tla
    tlapm QueuedSendProofs.tla
    tlapm RemoteLiveProofs.tla

Each run of `PROJECT.json` names its module and cfg; the longest takes about two minutes.
