--------------------------- MODULE WorkspaceStore ---------------------------
(***************************************************************************)
(* The workspace records of a main workspace and its worktrees: the map    *)
(* `workspaces`, its file workspaces.json, and the git worktrees on disk   *)
(* that the records speak of.  The commands that add and remove hold the   *)
(* map's mutex while they write the file; a settings update and a rename   *)
(* collect the list under the mutex and write it after releasing it, each  *)
(* on the thread that runs it.  The daemon's list replaces the map by the  *)
(* file it read before it took the mutex.                                  *)
(*                                                                         *)
(* The workspaces' sessions are in SessionRegistry.  Of the settings only  *)
(* the worktree setup script is kept, which worktrees inherit.  Git is     *)
(* external: a worktree is a folder with a branch; a branch without a      *)
(* folder is left out.                                                     *)
(***************************************************************************)
EXTENDS Naturals, Functions

CONSTANTS
  Main,         \* the main workspace, known at first
  Worktrees,    \* ids of worktrees
  FirstName,    \* the names of the worktrees known at first
  Names,        \* names of branches and of folders
  Scripts, FirstScript,  \* worktree setup scripts
  Clients,      \* tasks that run commands
  NoClient,
  MaxCommands,  \* bound: commands begun
  MaxFaults     \* bound: failed writes, git commands and spawns, quits

ASSUME StoreAssumption ==
  /\ Main \notin Worktrees /\ NoClient \notin Clients /\ FirstScript \in Scripts
  /\ DOMAIN FirstName \subseteq Worktrees
  /\ \A w \in DOMAIN FirstName : FirstName[w] \in Names
  /\ \A v, w \in DOMAIN FirstName : FirstName[v] = FirstName[w] => v = w

ASSUME BoundAssumption == MaxCommands \in Nat /\ MaxFaults \in Nat

VARIABLES
  memory,    \* workspaces: the entry of each id it has
  file,      \* workspaces.json: whole, emptied by a write begun, or torn
  trees,     \* git's worktrees: their branch and folder
  minted,    \* ids ever drawn
  lock,      \* holder of the map's mutex while it writes
  pc, job,   \* where each client is, and its local variables
  commands, faults,
  crossed    \* history: the crossings there were

vars == <<memory, file, trees, minted, lock, pc, job, commands, faults, crossed>>

Goto(c, l) == pc' = [pc EXCEPT ![c] = l]
Set(c, j) == job' = [job EXCEPT ![c] = j]
NoJob == [op |-> "none"]
Return(c) == Goto(c, "idle") /\ Set(c, NoJob)

Begin(c, j, l) ==
  /\ pc[c] = "idle" /\ commands < MaxCommands
  /\ commands' = commands + 1
  /\ Goto(c, l) /\ Set(c, j)

Unlocked == lock = NoClient
Fault == faults < MaxFaults /\ faults' = faults + 1
Fine == UNCHANGED faults

Without(f, ids) == Restrict(f, DOMAIN f \ ids)
Including(f, w, e) == [x \in DOMAIN f \cup {w} |-> IF x = w THEN e ELSE f[x]]
Children == DOMAIN memory \cap Worktrees
MainEntry == [script |-> FirstScript, branch |-> "none", folder |-> "none"]
TreeOf(e) == [branch |-> e.branch, folder |-> e.folder]
Free(folder) == \A t \in trees : t.folder # folder
FreeBranch(b) == \A t \in trees : t.branch # b

\* unique_worktree_path(_for_rename): the branch's name, or one with a suffix.
Places(b, own) ==
  IF Free(b) \/ b = own THEN {b} ELSE {f \in Names : Free(f) \/ f = own}

\* read_workspaces: what a file that is not whole holds does not parse.
Readable == file.state = "whole"

---------------------------------------------------------------------------
(* Writing the file, in two steps: fs::write truncates, then fills.        *)

\* Every command that writes has its list in job[c].list.  Two fills that
\* follow two truncations leave the later one, over the end of the earlier.
Truncate(c) ==
  /\ pc[c] = "truncate"
  /\ file' = [state |-> "empty", list |-> <<>>]
  /\ Goto(c, "fill")
  /\ UNCHANGED <<memory, trees, minted, lock, job, commands>> /\ Fine

Fill(c) ==
  /\ pc[c] = "fill"
  /\ \/ file' = [state |-> "whole", list |-> job[c].list]
     \/ file.state # "empty" /\ file' = [state |-> "torn", list |-> <<>>]
  /\ Return(c)
  /\ lock' = IF lock = c THEN NoClient ELSE lock
  /\ UNCHANGED <<memory, trees, minted, commands>> /\ Fine

\* The file cannot be opened, or not be filled.  Only a rename rolls back.
WriteFails(c) ==
  /\ pc[c] \in {"truncate", "fill"} /\ Fault
  /\ IF job[c].op = "rename" THEN Goto(c, "moveBack") /\ UNCHANGED job ELSE Return(c)
  /\ lock' = IF lock = c THEN NoClient ELSE lock
  /\ UNCHANGED <<memory, file, trees, minted, commands>>

---------------------------------------------------------------------------
(* update_workspace_settings_core *)

UpdateSettings(c, w, s) ==
  /\ Unlocked /\ w \in DOMAIN memory
  /\ memory' = [memory EXCEPT ![w].script = s]
  /\ LET changed == w = Main /\ memory[w].script # s /\ Children # {}
     IN  Begin(c, [op |-> "update", id |-> w, script |-> s, children |-> Children],
               IF changed THEN "propagate" ELSE "collect")
  /\ UNCHANGED <<file, trees, minted, lock>> /\ Fine

\* The parent's script goes to the worktrees it had.
Propagate(c) ==
  /\ pc[c] = "propagate" /\ Unlocked
  /\ memory' = [w \in DOMAIN memory |->
                  IF w \in job[c].children THEN [memory[w] EXCEPT !.script = job[c].script]
                  ELSE memory[w]]
  /\ Goto(c, "collect")
  /\ UNCHANGED <<file, trees, minted, lock, job, commands>> /\ Fine

Collect(c) ==
  /\ pc[c] = "collect" /\ Unlocked
  /\ Set(c, [op |-> "update", id |-> job[c].id, list |-> memory])
  /\ Goto(c, "truncate")
  /\ UNCHANGED <<memory, file, trees, minted, lock, commands>> /\ Fine

---------------------------------------------------------------------------
(* add_worktree_core *)

StartAdd(c, w, b) ==
  /\ Unlocked /\ Main \in DOMAIN memory
  /\ w \notin minted /\ minted' = minted \cup {w}
  /\ \E f \in Places(b, "none") :
       Begin(c, [op |-> "add", id |-> w,
                 entry |-> [script |-> memory[Main].script, branch |-> b, folder |-> f]],
             "addTree")
  /\ UNCHANGED <<memory, file, trees, lock>> /\ Fine

\* git worktree add
AddTree(c) ==
  LET e == job[c].entry
  IN  /\ pc[c] = "addTree"
      /\ \/ /\ FreeBranch(e.branch) /\ Free(e.folder)
            /\ trees' = trees \cup {TreeOf(e)}
            /\ Goto(c, "insert") /\ UNCHANGED job /\ Fine
         \/ /\ (IF FreeBranch(e.branch) /\ Free(e.folder) THEN Fault ELSE Fine)
            /\ Return(c) /\ UNCHANGED trees
      /\ UNCHANGED <<memory, file, minted, lock, commands>>

\* The new worktree stays where it is when no process can be started.
SpawnFails(c) ==
  /\ pc[c] = "insert" /\ Fault
  /\ Return(c)
  /\ UNCHANGED <<memory, file, trees, minted, lock, commands>>

Insert(c) ==
  /\ pc[c] = "insert" /\ Unlocked
  /\ memory' = Including(memory, job[c].id, job[c].entry)
  /\ Set(c, [op |-> "add", id |-> job[c].id, list |-> memory'])
  /\ lock' = c /\ Goto(c, "truncate")
  /\ UNCHANGED <<file, trees, minted, commands>> /\ Fine

---------------------------------------------------------------------------
(* remove_worktree_core and remove_workspace_core *)

StartRemoveWorktree(c, w) ==
  /\ Unlocked /\ w \in Children /\ Main \in DOMAIN memory
  /\ Begin(c, [op |-> "remove", entries |-> Restrict(memory, {w}), todo |-> {w}, gone |-> {}],
           "removeTree")
  /\ UNCHANGED <<memory, file, trees, minted, lock>> /\ Fine

StartRemoveWorkspace(c) ==
  /\ Unlocked /\ Main \in DOMAIN memory
  /\ Begin(c, [op |-> "removeAll", entries |-> Restrict(memory, Children),
               todo |-> Children, gone |-> {}], "removeTree")
  /\ UNCHANGED <<memory, file, trees, minted, lock>> /\ Fine

\* git worktree remove --force, for the folder the entry had.  A folder that
\* is not there is not missed.
RemoveTree(c) ==
  /\ pc[c] = "removeTree"
  /\ \E w \in job[c].todo :
       LET here == {t \in trees : t.folder = job[c].entries[w].folder}
           rest == [job[c] EXCEPT !.todo = @ \ {w}]
       IN  \/ /\ trees' = trees \ here
              /\ Set(c, [rest EXCEPT !.gone = @ \cup {w}]) /\ UNCHANGED pc /\ Fine
           \/ /\ here # {} /\ Fault
              /\ IF job[c].op = "remove" THEN Return(c)
                 ELSE Set(c, rest) /\ UNCHANGED pc
              /\ UNCHANGED trees
  /\ UNCHANGED <<memory, file, minted, lock, commands>>

\* The main workspace goes when all its worktrees went.
Delete(c) ==
  LET j == job[c]
      ids == j.gone \cup IF j.op = "removeAll" /\ j.gone = DOMAIN j.entries THEN {Main} ELSE {}
  IN  /\ pc[c] = "removeTree" /\ j.todo = {} /\ Unlocked
      /\ memory' = Without(memory, ids)
      /\ Set(c, [op |-> j.op, list |-> memory'])
      /\ lock' = c /\ Goto(c, "truncate")
      /\ UNCHANGED <<file, trees, minted, commands>> /\ Fine

---------------------------------------------------------------------------
(* rename_worktree_core *)

StartRename(c, w, b) ==
  /\ Unlocked /\ w \in Children /\ Main \in DOMAIN memory
  /\ b # memory[w].branch /\ FreeBranch(b)
  /\ \E f \in Places(b, memory[w].folder) :
       Begin(c, [op |-> "rename", id |-> w, was |-> memory[w],
                 new |-> [branch |-> b, folder |-> f]], "branch")
  /\ UNCHANGED <<memory, file, trees, minted, lock>> /\ Fine

\* git branch -m and git worktree move, done or refused.
BranchMoves(from, to) ==
  /\ FreeBranch(to)
  /\ \E t \in trees : t.branch = from
                      /\ trees' = (trees \ {t}) \cup {[t EXCEPT !.branch = to]}
TreeMoves(from, to) ==
  /\ Free(to)
  /\ \E t \in trees : t.folder = from
                      /\ trees' = (trees \ {t}) \cup {[t EXCEPT !.folder = to]}
BranchIsRefused(from, to) ==
  ~FreeBranch(to) \/ \A t \in trees : t.branch # from
MoveIsRefused(from, to) == ~Free(to) \/ Free(from)

MoveBranch(c) ==
  LET was == job[c].was.branch new == job[c].new.branch
  IN  /\ pc[c] = "branch"
      /\ \/ BranchMoves(was, new) /\ Goto(c, "move") /\ UNCHANGED job /\ Fine
         \/ /\ (IF BranchIsRefused(was, new) THEN Fine ELSE Fault)
            /\ Return(c) /\ UNCHANGED trees
      /\ UNCHANGED <<memory, file, minted, lock, commands>>

\* Mutant: a refused move leaves the branch renamed.
MoveTreeOrGiveUp(c) ==
  LET was == job[c].was.folder new == job[c].new.folder
  IN  /\ pc[c] = "move"
      /\ \/ was = new /\ Goto(c, "commit") /\ UNCHANGED <<trees, job>> /\ Fine
         \/ was # new /\ TreeMoves(was, new) /\ Goto(c, "commit") /\ UNCHANGED job /\ Fine
         \/ /\ was # new /\ (IF MoveIsRefused(was, new) THEN Fine ELSE Fault)
            /\ Return(c) /\ UNCHANGED trees
      /\ UNCHANGED <<memory, file, minted, lock, commands>>

MoveTree(c) ==
  LET was == job[c].was.folder new == job[c].new.folder
  IN  /\ pc[c] = "move" /\ UNCHANGED job
      /\ \/ was = new /\ Goto(c, "commit") /\ UNCHANGED trees /\ Fine
         \/ was # new /\ TreeMoves(was, new) /\ Goto(c, "commit") /\ Fine
         \/ /\ was # new /\ (IF MoveIsRefused(was, new) THEN Fine ELSE Fault)
            /\ Goto(c, "branchBack") /\ UNCHANGED trees
      /\ UNCHANGED <<memory, file, minted, lock, commands>>

\* Mutant: the entry is the one read before the git commands, renamed.
CommitAsRead(c) ==
  /\ pc[c] = "commit" /\ Unlocked
  /\ LET w == job[c].id
     IN  IF w \in DOMAIN memory
         THEN /\ memory' = [memory EXCEPT ![w] = [job[c].was EXCEPT
                                !.branch = job[c].new.branch, !.folder = job[c].new.folder]]
              /\ Set(c, [op |-> "rename", id |-> w, was |-> job[c].was, new |-> job[c].new,
                         old |-> memory[w], list |-> memory'])
              /\ Goto(c, "truncate")
         ELSE Goto(c, "moveBack") /\ UNCHANGED <<memory, job>>
  /\ UNCHANGED <<file, trees, minted, lock, commands>> /\ Fine

\* The entry is changed as it is now, and kept as it was for a rollback.
Commit(c) ==
  /\ pc[c] = "commit" /\ Unlocked
  /\ LET w == job[c].id
     IN  IF w \in DOMAIN memory
         THEN /\ memory' = [memory EXCEPT ![w].branch = job[c].new.branch,
                                          ![w].folder = job[c].new.folder]
              /\ Set(c, [op |-> "rename", id |-> w, was |-> job[c].was, new |-> job[c].new,
                         old |-> memory[w], list |-> memory'])
              /\ Goto(c, "truncate")
         ELSE Goto(c, "moveBack") /\ UNCHANGED <<memory, job>>
  /\ UNCHANGED <<file, trees, minted, lock, commands>> /\ Fine

\* The results of the git commands that roll back are ignored.
MoveBack(c) ==
  LET was == job[c].was.folder new == job[c].new.folder
  IN  /\ pc[c] = "moveBack" /\ Goto(c, "branchBack")
      /\ \/ was = new /\ UNCHANGED trees /\ Fine
         \/ was # new /\ TreeMoves(new, was) /\ Fine
         \/ /\ was # new /\ (IF MoveIsRefused(new, was) THEN Fine ELSE Fault)
            /\ UNCHANGED trees
      /\ UNCHANGED <<memory, file, minted, lock, job, commands>>

BranchBack(c) ==
  LET was == job[c].was.branch new == job[c].new.branch
  IN  /\ pc[c] = "branchBack"
      /\ \/ BranchMoves(new, was) /\ Fine
         \/ (IF BranchIsRefused(new, was) THEN Fine ELSE Fault) /\ UNCHANGED trees
      /\ IF "old" \in DOMAIN job[c] THEN Goto(c, "restore") /\ UNCHANGED job
         ELSE Return(c)
      /\ UNCHANGED <<memory, file, minted, lock, commands>>

\* Mutant: the entry stays as it was to become.
RestoreNothing(c) ==
  /\ pc[c] = "restore" /\ Unlocked
  /\ Return(c)
  /\ UNCHANGED <<memory, file, trees, minted, lock, commands>> /\ Fine

\* The whole entry, its settings included, is as it was before the rename.
Restore(c) ==
  /\ pc[c] = "restore" /\ Unlocked
  /\ memory' = IF job[c].id \in DOMAIN memory
               THEN [memory EXCEPT ![job[c].id] = job[c].old] ELSE memory
  /\ Return(c)
  /\ UNCHANGED <<file, trees, minted, lock, commands>> /\ Fine

---------------------------------------------------------------------------
(* The daemon's sync_workspaces_from_storage, and a restart. *)

ReadStored(c) ==
  /\ Readable
  /\ Begin(c, [op |-> "list", list |-> file.list], "replace")
  /\ UNCHANGED <<memory, file, trees, minted, lock>> /\ Fine

ReplaceAll(c) ==
  /\ pc[c] = "replace" /\ Unlocked
  /\ memory' = job[c].list
  /\ Return(c)
  /\ UNCHANGED <<file, trees, minted, lock, commands>> /\ Fine

\* read_workspaces(..).unwrap_or_default()
Restart ==
  /\ Fault
  /\ memory' = IF Readable THEN file.list ELSE <<>>
  /\ pc' = [c \in Clients |-> "idle"] /\ job' = [c \in Clients |-> NoJob]
  /\ lock' = NoClient
  /\ UNCHANGED <<file, trees, minted, commands>>

---------------------------------------------------------------------------
(* The crossings: what may leave records, file, scripts and folders apart. *)

Waits(d) == pc[d] # "idle" /\ pc'[d] = pc[d] /\ job'[d] = job[d]

\* A fault where nothing is rolled back, or in a rollback.
FaultStays ==
  /\ faults' # faults
  /\ \E c \in Clients :
       /\ pc'[c] # pc[c]
       /\ \/ pc[c] \in {"insert", "moveBack", "branchBack", "fill"}
          \/ pc[c] = "truncate" /\ job[c].op # "rename"

\* Another command changes the map or the file while one is to write its list,
\* or while a rename may still be rolled back.
Changed == memory' # memory \/ file' # file
Overlap == Changed /\ \E d \in Clients : Waits(d) /\ pc[d] \in {"truncate", "fill"}
Rollback == Changed /\ \E d \in Clients : Waits(d) /\ "old" \in DOMAIN job[d]

\* The daemon's list reads a file that does not hold the map, or the map or the
\* file changes before it has replaced the map.
BesideList ==
  \E d \in Clients :
    \/ pc[d] = "idle" /\ job'[d].op = "list" /\ file.list # memory
    \/ Waits(d) /\ job[d].op = "list" /\ Changed

\* Two commands on worktrees have a branch or a folder in common.
NamesInHand(j) ==
  LET inHand == (IF "entries" \in DOMAIN j
                 THEN {TreeOf(j.entries[w]) : w \in DOMAIN j.entries} ELSE {})
                \cup (IF "entry" \in DOMAIN j THEN {TreeOf(j.entry)} ELSE {})
                \cup (IF "was" \in DOMAIN j THEN {TreeOf(j.was), j.new} ELSE {})
  IN  {t.branch : t \in inHand} \cup {t.folder : t \in inHand}

SameName ==
  \E c \in Clients : \E d \in Clients \ {c} :
    NamesInHand(job'[c]) \cap NamesInHand(job'[d]) # {}

\* A worktree is added while its parent is removed: the parent goes beside the
\* add, or the worktree comes beside a removal that has listed the others.
Orphaning ==
  \E d \in Clients :
    /\ Waits(d)
    /\ \/ job[d].op = "add" /\ Main \in DOMAIN memory \ DOMAIN memory'
       \/ job[d].op = "removeAll" /\ ~(DOMAIN memory' \subseteq DOMAIN memory)

\* The parent's script is updated beside an add or another update, or a worktree
\* gets a script of its own.
Updates(w) == \E c \in Clients : pc[c] = "idle" /\ job'[c].op = "update" /\ job'[c].id = w
OtherScript ==
  \/ \E w \in Worktrees : Updates(w)
  \/ Updates(Main) /\ \E d \in Clients : Waits(d) /\ job[d].op \in {"add", "update"}

Note(fault) ==
  crossed' = crossed \cup {kind \in {"fault", "overlap", "rollback", "list", "name",
                                  "parent", "script"} :
    \/ kind = "fault" /\ (fault \/ FaultStays)
    \/ kind = "overlap" /\ Overlap
    \/ kind = "rollback" /\ Rollback
    \/ kind = "list" /\ BesideList
    \/ kind = "name" /\ SameName
    \/ kind = "parent" /\ Orphaning
    \/ kind = "script" /\ OtherScript}

---------------------------------------------------------------------------

FirstEntries ==
  [w \in DOMAIN FirstName |->
     [script |-> FirstScript, branch |-> FirstName[w], folder |-> FirstName[w]]]

Init ==
  /\ memory = Including(FirstEntries, Main, MainEntry)
  /\ file = [state |-> "whole", list |-> memory]
  /\ trees = {TreeOf(FirstEntries[w]) : w \in DOMAIN FirstEntries}
  /\ minted = {Main} \cup DOMAIN FirstName
  /\ lock = NoClient
  /\ pc = [c \in Clients |-> "idle"] /\ job = [c \in Clients |-> NoJob]
  /\ commands = 0 /\ faults = 0 /\ crossed = {}

Start(c) ==
  \/ \E w \in Worktrees \cup {Main}, s \in Scripts : UpdateSettings(c, w, s)
  \/ \E w \in Worktrees, b \in Names : StartAdd(c, w, b) \/ StartRename(c, w, b)
  \/ \E w \in Worktrees : StartRemoveWorktree(c, w)
  \/ StartRemoveWorkspace(c) \/ ReadStored(c)

Step(c) ==
  \/ Truncate(c) \/ Fill(c) \/ WriteFails(c)
  \/ Propagate(c) \/ Collect(c)
  \/ AddTree(c) \/ SpawnFails(c) \/ Insert(c)
  \/ RemoveTree(c) \/ Delete(c)
  \/ MoveBranch(c) \/ MoveTree(c) \/ Commit(c) \/ MoveBack(c) \/ BranchBack(c) \/ Restore(c)
  \/ ReplaceAll(c)

Next ==
  \/ (\E c \in Clients : Start(c) \/ Step(c)) /\ Note(FALSE)
  \/ Restart /\ Note(memory' # memory \/ \E c \in Clients : pc[c] # "idle")

Spec == Init /\ [][Next]_vars

---------------------------------------------------------------------------

Quiet == \A c \in Clients : pc[c] = "idle"
Uncrossed(kinds) == crossed \cap kinds = {}

\* Once every command has returned the file holds the map, refused and failed
\* renames included, unless a fault stayed, or another command came into the
\* unlocked write of a settings update or a rename, or beside the daemon's list.
FileHoldsTheMap ==
  Quiet /\ Uncrossed({"fault", "overlap", "rollback", "list"}) =>
    Readable /\ file.list = memory

\* Once every command has returned each worktree entry names a worktree of git,
\* each worktree of git has its entry, and an entry has its parent.
RecordsMatchGit ==
  Quiet /\ Uncrossed({"fault", "list", "name", "parent"}) =>
    /\ trees = {TreeOf(memory[w]) : w \in Children}
    /\ Children # {} => Main \in DOMAIN memory

\* Once every command has returned the worktrees have the script of their parent.
WorktreesInheritTheScript ==
  Quiet /\ Uncrossed({"script", "list", "fault", "rollback"}) /\ Main \in DOMAIN memory =>
    \A w \in Children : memory[w].script = memory[Main].script
=============================================================================
