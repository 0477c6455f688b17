------------------------ MODULE SessionRegistryProofs ------------------------
(* Proofs about SessionRegistry, for every set of workspaces, processes and   *)
(* clients and every choice of commands and faults.  IInv, that the owner of  *)
(* the lock knows the map, gives the single session; KInv adds what each      *)
(* client knows of the session it holds, and that nobody else knows one that  *)
(* is being started; Custody follows a process that is not in the map to the  *)
(* client that will insert or kill it.                                        *)
EXTENDS SessionRegistry, TLAPS

-----------------------------------------------------------------------------
(* The locals of a client *)

\* A command starts with well-typed locals.
LEMMA NoJobType == NoJob \in Job
  BY DEF NoJob, Job, AllOps

\* Every assignment the actions make to a client's locals keeps their type.
LEMMA JobFields ==
  ASSUME NEW j \in Job
  PROVE  /\ \A o \in AllOps : [j EXCEPT !.op = o] \in Job
         /\ \A p \in Procs \cup {NoProc} : /\ [j EXCEPT !.held = p] \in Job
                                           /\ [j EXCEPT !.old = p] \in Job
         /\ \A p \in Procs : [j EXCEPT !.held = p, !.spawned = TRUE] \in Job
         /\ \A S \in SUBSET Workspaces : /\ [j EXCEPT !.todo = S] \in Job
                                         /\ [j EXCEPT !.done = S] \in Job
                                         /\ [j EXCEPT !.stored = S] \in Job
         /\ \A S \in SUBSET Procs : [j EXCEPT !.doomed = S] \in Job
         /\ [j EXCEPT !.held = NoProc, !.shared = FALSE] \in Job
         /\ [j EXCEPT !.failed = TRUE] \in Job
<1>1. \A o \in AllOps : [j EXCEPT !.op = o] \in Job
  BY DEF Job, AllOps
<1>2. \A p \in Procs \cup {NoProc} : [j EXCEPT !.held = p] \in Job /\ [j EXCEPT !.old = p] \in Job
  BY DEF Job
<1>3. \A p \in Procs : [j EXCEPT !.held = p, !.spawned = TRUE] \in Job
  BY DEF Job
<1>4. \A S \in SUBSET Workspaces : /\ [j EXCEPT !.todo = S] \in Job
                                   /\ [j EXCEPT !.done = S] \in Job
                                   /\ [j EXCEPT !.stored = S] \in Job
  BY DEF Job
<1>5. \A S \in SUBSET Procs : [j EXCEPT !.doomed = S] \in Job
  BY DEF Job
<1>6. [j EXCEPT !.held = NoProc, !.shared = FALSE] \in Job /\ [j EXCEPT !.failed = TRUE] \in Job
  BY DEF Job
<1> QED BY <1>1, <1>2, <1>3, <1>4, <1>5, <1>6

LEMMA JobKillTake ==
  ASSUME NEW j \in Job, NEW w \in Workspaces, NEW p \in Procs \cup {NoProc},
         NEW S \in SUBSET Workspaces, NEW T \in SUBSET Workspaces, NEW b \in BOOLEAN
  PROVE  [j EXCEPT !.cur = w, !.held = p, !.todo = S, !.done = T, !.shared = b] \in Job
  BY DEF Job

LEMMA JobStart ==
  /\ \A w \in Workspaces : /\ [NoJob EXCEPT !.ws = w] \in Job
                           /\ \A S \in SUBSET Workspaces :
                                 [NoJob EXCEPT !.ws = w, !.todo = S] \in Job
  /\ \A S \in SUBSET Workspaces : /\ [NoJob EXCEPT !.todo = S] \in Job
                                  /\ [NoJob EXCEPT !.stored = S] \in Job
  BY DEF Job, NoJob, AllOps

LEMMA SetType ==
  ASSUME job \in [Clients -> Job], NEW c \in Clients, NEW j \in Job, Set(c, j)
  PROVE  job' \in [Clients -> Job]
  BY DEF Set

LEMMA GotoType ==
  ASSUME pc \in [Clients -> AllPcs], NEW c \in Clients, NEW l \in AllPcs, Goto(c, l)
  PROVE  pc' \in [Clients -> AllPcs]
  BY DEF Goto

LEMMA BeginType ==
  ASSUME TypeOK, NEW c \in Clients, NEW o \in AllOps, NEW l \in AllPcs,
         NEW j \in Job, Begin(c, o, l, j)
  PROVE  pc' \in [Clients -> AllPcs] /\ job' \in [Clients -> Job]
  BY GotoType, SetType, JobFields DEF Begin, TypeOK

-----------------------------------------------------------------------------
(* Type correctness *)

LEMMA InitType == Init => TypeOK
  BY RegistryAssumption, NoJobType DEF Init, TypeOK, Workspaces, AllPcs

LEMMA ArriveType ==
  ASSUME TypeOK, NEW c \in Clients, Arrive(c)
  PROVE  TypeOK'
<1> USE RegistryAssumption DEF registry, procs
<1>0. {"wantLock", "kill", "syncReplace"} \subseteq AllPcs
  BY DEF AllPcs, KillPcs, SyncPcs
<1>1. ASSUME NEW w \in Workspaces, NEW o \in AllOps, StartOnEntry(c, w, o)
      PROVE  TypeOK'
  BY <1>0, <1>1, BeginType, JobStart DEF StartOnEntry, TypeOK
<1>2. ASSUME NEW w \in Workspaces, NEW o \in AllOps, Mint(c, w, o)
      PROVE  TypeOK'
  BY <1>0, <1>2, BeginType, JobStart DEF Mint, TypeOK
<1>3. ASSUME NEW w \in Workspaces, StartRemove(c, w)
      PROVE  TypeOK'
  <2>1. Children(w) \in SUBSET Workspaces
    BY DEF Children, Workspaces
  <2> QED BY <1>0, <1>3, <2>1, BeginType, JobStart DEF StartRemove, TypeOK, AllOps
<1>4. ASSUME NEW w \in Workspaces, StartRemoveWorktree(c, w)
      PROVE  TypeOK'
  BY <1>0, <1>4, BeginType, JobStart DEF StartRemoveWorktree, TypeOK, AllOps
<1>5. CASE StartKillAll(c)
  <2>1. Connected \in SUBSET Workspaces
    BY DEF Connected
  <2>2. PICK j \in Job : Begin(c, "killAll", "kill", j)
    BY <1>5, <2>1, JobStart DEF StartKillAll
  <2> QED BY <1>0, <1>5, <2>2, BeginType DEF StartKillAll, TypeOK, AllOps
<1>6. CASE StartList(c)
  BY <1>0, <1>6, BeginType, JobStart DEF StartList, TypeOK, AllOps
<1> QED
  BY <1>1, <1>2, <1>3, <1>4, <1>5, <1>6
     DEF Arrive, StartAdd, StartGitUrl, StartClone, StartAddWorktree, AllOps

\* The job of a client, field by field.
LEMMA JobOf ==
  ASSUME TypeOK, NEW c \in Clients
  PROVE  /\ job[c] \in Job
         /\ job[c].ws \in Workspaces \cup {NoWorkspace}
         /\ job[c].held \in Procs \cup {NoProc}
         /\ job[c].old \in Procs \cup {NoProc}
         /\ job[c].todo \in SUBSET Workspaces
         /\ job[c].done \in SUBSET Workspaces
         /\ job[c].doomed \in SUBSET Procs
         /\ job[c].stored \in SUBSET Workspaces
         /\ sessions \in [Workspaces -> Procs \cup {NoProc}]
  BY DEF TypeOK, Job

LEMMA ReturnType ==
  ASSUME TypeOK, NEW c \in Clients, Return(c)
  PROVE  pc' \in [Clients -> AllPcs] /\ job' \in [Clients -> Job]
<1>1. "idle" \in AllPcs
  BY DEF AllPcs
<1> QED BY <1>1, GotoType, SetType, NoJobType DEF Return, TypeOK

LEMMA KillType ==
  ASSUME TypeOK, NEW p, Kill(p)
  PROVE  process' \in [Procs -> {"unborn", "alive", "dead"}]
  BY DEF TypeOK, Kill

\* A command that waits for the lock or holds it names a workspace, and so does
\* a kill between taking the entry out and going on.
WorkspaceNamed(c) ==
    /\ pc[c] \in LockedPcs \cup {"wantLock"} => job[c].ws \in Workspaces
    /\ pc[c] \in {"unregister", "killProc", "git"} => job[c].cur \in Workspaces

HasWorkspace == \A c \in Clients : WorkspaceNamed(c)

LEMMA SearchType ==
  ASSUME TypeOK, HasWorkspace, NEW c \in Clients,
         AcquireLock(c) \/ Lookup(c) \/ OwnIsAlive(c) \/ DropDead(c) \/ Take(c)
           \/ SharedIsAlive(c)
  PROVE  TypeOK'
<1> USE JobOf DEF registry, procs
<1>0. {"lookup", "readArgs", "take", "checkOwn", "checkShared", "spawn",
       "persist", "register"} \subseteq AllPcs
  BY DEF AllPcs, LockedPcs
<1>1. CASE AcquireLock(c)
  BY <1>0, <1>1, GotoType DEF AcquireLock, TypeOK
<1>2. CASE Lookup(c)
  <2>1. sessions[job[c].ws] \in Procs \cup {NoProc}
    BY <1>2 DEF Lookup, HasWorkspace, WorkspaceNamed, LockedPcs
  <2> QED BY <1>0, <1>2, <2>1, GotoType, SetType, JobFields DEF Lookup, TypeOK
<1>3. CASE OwnIsAlive(c)
  BY <1>3, ReturnType DEF OwnIsAlive, ReturnUnlocked, TypeOK
<1>4. CASE DropDead(c)
  <2>1. sessions' \in [Workspaces -> Procs \cup {NoProc}]
    BY <1>4 DEF DropDead, DropReferences
  <2> QED BY <1>0, <1>4, <2>1, GotoType, SetType, JobFields DEF DropDead, TypeOK
<1>5. CASE Take(c)
  <2>1. Referenced \subseteq Procs \cup {NoProc}
    BY DEF Referenced, Connected
  <2> QED BY <1>0, <1>5, <2>1, GotoType, SetType, JobFields DEF Take, TypeOK
<1>6. CASE SharedIsAlive(c)
  BY <1>0, <1>6, GotoType DEF SharedIsAlive, TypeOK
<1> QED BY <1>1, <1>2, <1>3, <1>4, <1>5, <1>6

LEMMA SpawnType ==
  ASSUME TypeOK, HasWorkspace, NEW c \in Clients,
         \/ SpawnRefused(c) \/ SpawnInitialized(c) \/ SpawnTimesOut(c)
         \/ InitializeErrs(c) \/ SpawnGivesUp(c)
         \/ \E p \in Procs : SpawnChild(c, p)
  PROVE  TypeOK'
<1> USE JobOf DEF registry, procs
<1>0. {"spawn", "spawning", "cutOff", "persist", "replace", "register"} \subseteq AllPcs
  BY DEF AllPcs, LockedPcs
<1>1. CASE SpawnRefused(c)
  BY <1>1, ReturnType DEF SpawnRefused, ReturnUnlocked, TypeOK
<1>2. CASE SpawnInitialized(c)
  BY <1>0, <1>2, GotoType DEF SpawnInitialized, TypeOK
<1>3. CASE SpawnTimesOut(c)
  BY <1>3, ReturnType, KillType DEF SpawnTimesOut, ReturnUnlocked, TypeOK
<1>5. CASE InitializeErrs(c)
  BY <1>0, <1>5, GotoType DEF InitializeErrs, TypeOK
<1>6. CASE SpawnGivesUp(c)
  BY <1>6, ReturnType DEF SpawnGivesUp, ReturnUnlocked, TypeOK
<1>4. ASSUME NEW p \in Procs, SpawnChild(c, p)
      PROVE  TypeOK'
  <2>1. job[c].ws \in Workspaces
    BY <1>4 DEF SpawnChild, HasWorkspace, WorkspaceNamed, LockedPcs
  <2>2. /\ process' \in [Procs -> {"unborn", "alive", "dead"}]
        /\ registered' \in [Procs -> SUBSET Workspaces]
    BY <1>4, <2>1 DEF SpawnChild, TypeOK
  <2> QED BY <1>0, <1>4, <2>2, GotoType, SetType, JobFields DEF SpawnChild, TypeOK
<1> QED BY <1>1, <1>2, <1>3, <1>4, <1>5, <1>6

LEMMA PublishType ==
  ASSUME TypeOK, HasWorkspace, NEW c \in Clients,
         PersistOk(c) \/ PersistFails(c) \/ Rollback(c) \/ Register(c) \/ Insert(c)
  PROVE  TypeOK'
<1> USE JobOf DEF registry, procs
<1>0. {"register", "rollback", "killHeld", "insert"} \subseteq AllPcs
  BY DEF AllPcs, LockedPcs
<1>w. job[c].ws \in Workspaces
  BY DEF PersistOk, PersistFails, Rollback, Register, Insert, HasWorkspace, WorkspaceNamed, LockedPcs
<1>1. CASE PersistOk(c)
  BY <1>0, <1>w, <1>1, GotoType DEF PersistOk, Write, TypeOK
<1>2. CASE PersistFails(c)
  BY <1>0, <1>w, <1>2, GotoType, ReturnType DEF PersistFails, WriteFails, ReturnUnlocked, TypeOK
<1>3. CASE Rollback(c)
  BY <1>0, <1>3, GotoType, ReturnType DEF Rollback, ReturnUnlocked, TypeOK
<1>4. CASE Register(c)
  <2>1. registered' \in [Procs -> SUBSET Workspaces]
    BY <1>w, <1>4 DEF Register, TypeOK
  <2> QED BY <1>0, <1>4, <2>1, GotoType DEF Register, TypeOK
<1>5. CASE Insert(c)
  BY <1>5, ReturnType DEF Insert, ReturnUnlocked, TypeOK
<1> QED BY <1>1, <1>2, <1>3, <1>4, <1>5

LEMMA ArgsType ==
  ASSUME TypeOK, HasWorkspace, NEW c \in Clients,
         \/ ArgsNoop(c) \/ ArgsDiffer(c) \/ ReplaceAll(c) \/ RegisteredAll(c)
         \/ KillHeld(c) \/ \E w \in Workspaces : RegisterNext(c, w)
  PROVE  TypeOK'
<1> USE JobOf DEF registry, procs
<1>0. {"spawn", "registerAll", "killHeld"} \subseteq AllPcs
  BY DEF AllPcs, LockedPcs
<1>1. CASE ArgsNoop(c)
  BY <1>1, ReturnType DEF ArgsNoop, ReturnUnlocked, TypeOK
<1>2. CASE ArgsDiffer(c)
  <2>1. Referenced \subseteq Procs \cup {NoProc}
    BY DEF Referenced, Connected
  <2> QED BY <1>0, <1>2, <2>1, GotoType, SetType, JobFields DEF ArgsDiffer, TypeOK
<1>3. CASE ReplaceAll(c)
  <2>1. Connected \in SUBSET Workspaces
    BY DEF Connected
  <2>2. sessions' \in [Workspaces -> Procs \cup {NoProc}]
    BY <1>3 DEF ReplaceAll
  <2> QED BY <1>0, <1>3, <2>1, <2>2, GotoType, SetType, JobFields DEF ReplaceAll, TypeOK
<1>4. CASE RegisteredAll(c)
  BY <1>0, <1>4, GotoType, SetType, JobFields DEF RegisteredAll, TypeOK
<1>5. CASE KillHeld(c)
  BY <1>5, ReturnType, KillType DEF KillHeld, ReturnUnlocked, TypeOK
<1>6. ASSUME NEW w \in Workspaces, RegisterNext(c, w)
      PROVE  TypeOK'
  <2>1. registered' \in [Procs -> SUBSET Workspaces]
    BY <1>6 DEF RegisterNext, TypeOK
  <2>2. job[c].todo \ {w} \in SUBSET Workspaces
    OBVIOUS
  <2> QED BY <1>6, <2>1, <2>2, SetType, JobFields DEF RegisterNext, TypeOK
<1> QED BY <1>1, <1>2, <1>3, <1>4, <1>5, <1>6

LEMMA RemovalType ==
  ASSUME TypeOK, HasWorkspace, NEW c \in Clients,
         \/ \E w \in Workspaces : KillTake(c, w)
         \/ Unregister(c) \/ KillProc(c) \/ GitRemoved(c) \/ GitFails(c)
         \/ RemoveCommit(c) \/ KillAllReturns(c)
  PROVE  TypeOK'
<1> USE JobOf DEF registry, procs
<1>0. {"unregister", "killProc", "git", "kill"} \subseteq AllPcs
  BY DEF AllPcs, KillPcs
<1>a. \A w : AfterKill(c, w) \in AllPcs
  BY <1>0 DEF AfterKill
<1>k. ASSUME KillReturns(c)
      PROVE  pc' \in [Clients -> AllPcs] /\ job' \in [Clients -> Job]
  BY <1>a, <1>k, GotoType, SetType, JobFields DEF KillReturns, TypeOK
<1>1. ASSUME NEW w \in Workspaces, KillTake(c, w)
      PROVE  TypeOK'
  <2>1. /\ sessions[w] \in Procs \cup {NoProc}
        /\ job[c].todo \ {w} \in SUBSET Workspaces
        /\ (IF w \in Mains THEN job[c].done \cup {w} ELSE job[c].done) \in SUBSET Workspaces
        /\ (\E v \in Connected \ {w} : sessions[v] = sessions[w]) \in BOOLEAN
    OBVIOUS
  <2>2. job' \in [Clients -> Job]
    BY <1>1, <2>1, SetType, JobKillTake DEF KillTake, TypeOK
  <2>3. pc' \in [Clients -> AllPcs]
    BY <1>0, <1>a, <1>1, GotoType DEF KillTake, TypeOK
  <2>4. sessions' \in [Workspaces -> Procs \cup {NoProc}]
    BY <1>1 DEF KillTake
  <2> QED BY <1>1, <2>2, <2>3, <2>4 DEF KillTake, TypeOK
<1>2. CASE Unregister(c)
  <2>1. registered' \in [Procs -> SUBSET Workspaces]
    BY <1>2 DEF Unregister, TypeOK
  <2> QED BY <1>0, <1>k, <1>2, <2>1, GotoType DEF Unregister, TypeOK
<1>3. CASE KillProc(c)
  BY <1>k, <1>3, KillType DEF KillProc, TypeOK
<1>4. CASE GitRemoved(c)
  <2>1. job[c].cur \in Workspaces
    BY <1>4 DEF GitRemoved, HasWorkspace, WorkspaceNamed
  <2> QED BY <1>0, <1>4, <2>1, GotoType, SetType, JobFields DEF GitRemoved, TypeOK
<1>5. CASE GitFails(c)
  BY <1>0, <1>5, GotoType, SetType, JobFields, ReturnType DEF GitFails, TypeOK
<1>6. CASE RemoveCommit(c)
  BY <1>6, ReturnType DEF RemoveCommit, Write, WriteFails, TypeOK
<1>7. CASE KillAllReturns(c)
  BY <1>7, ReturnType DEF KillAllReturns, TypeOK
<1> QED BY <1>1, <1>2, <1>3, <1>4, <1>5, <1>6, <1>7

LEMMA SyncType ==
  ASSUME TypeOK, NEW c \in Clients,
         \/ SyncReplace(c) \/ SyncPrune(c) \/ SyncReturns(c)
         \/ \E p \in Procs : SyncKill(c, p)
  PROVE  TypeOK'
<1> USE JobOf DEF registry, procs
<1>0. {"syncPrune", "syncKill"} \subseteq AllPcs
  BY DEF AllPcs, SyncPcs
<1>1. CASE SyncReplace(c)
  BY <1>0, <1>1, GotoType DEF SyncReplace, TypeOK
<1>2. CASE SyncPrune(c)
  <2> DEFINE stale == Connected \ job[c].stored
  <2>1. {sessions[w] : w \in stale} \in SUBSET Procs
    BY DEF Connected
  <2>2. sessions' \in [Workspaces -> Procs \cup {NoProc}]
    BY <1>2 DEF SyncPrune
  <2>3. job' \in [Clients -> Job]
    BY <1>2, <2>1, SetType, JobFields DEF SyncPrune, TypeOK
  <2> QED BY <1>0, <1>2, <2>2, <2>3, GotoType DEF SyncPrune, TypeOK
<1>3. CASE SyncReturns(c)
  BY <1>3, ReturnType DEF SyncReturns, TypeOK
<1>4. ASSUME NEW p \in Procs, SyncKill(c, p)
      PROVE  TypeOK'
  BY <1>4, KillType, SetType, JobFields DEF SyncKill, TypeOK
<1> QED BY <1>1, <1>2, <1>3, <1>4

LEMMA EnvironmentType ==
  ASSUME TypeOK, (\E p \in Procs : Crash(p)) \/ (\E w \in Mains : ForeignWrite(w))
  PROVE  TypeOK'
<1>1. ASSUME NEW p \in Procs, Crash(p)
      PROVE  TypeOK'
  BY <1>1, KillType DEF Crash, TypeOK, registry
<1>2. ASSUME NEW w \in Mains, ForeignWrite(w)
      PROVE  TypeOK'
  BY <1>2 DEF ForeignWrite, TypeOK, procs, Workspaces
<1> QED BY <1>1, <1>2

\* A client's step leaves the program counters and locals of the others alone.
LEMMA OthersUnchanged ==
  ASSUME NEW c \in Clients, Arrive(c) \/ AcquireLock(c) \/ Step(c), TypeOK
  PROVE  \A d \in Clients \ {c} : pc'[d] = pc[d] /\ job'[d] = job[d]
<1> USE DEF TypeOK, Goto, Set, Return, ReturnUnlocked
<1>1. CASE Arrive(c)
  BY <1>1 DEF Arrive, StartOnEntry, StartAdd, StartGitUrl, StartClone,
       StartAddWorktree, Mint, StartRemove, StartRemoveWorktree, StartKillAll,
       StartList, Begin
<1>2. CASE AcquireLock(c)
  BY <1>2 DEF AcquireLock
<1>3. CASE Lookup(c)
  BY <1>3 DEF Lookup
<1>4. CASE OwnIsAlive(c)
  BY <1>4 DEF OwnIsAlive
<1>5. CASE DropDead(c)
  BY <1>5 DEF DropDead
<1>6. CASE Take(c)
  BY <1>6 DEF Take
<1>7. CASE SharedIsAlive(c)
  BY <1>7 DEF SharedIsAlive
<1>8. CASE SpawnRefused(c)
  BY <1>8 DEF SpawnRefused
<1>9. CASE SpawnInitialized(c)
  BY <1>9 DEF SpawnInitialized
<1>10. CASE SpawnTimesOut(c) \/ InitializeErrs(c) \/ SpawnGivesUp(c)
  BY <1>10 DEF SpawnTimesOut, InitializeErrs, SpawnGivesUp
<1>11. CASE \E p \in Procs : SpawnChild(c, p)
  BY <1>11 DEF SpawnChild
<1>12. CASE PersistOk(c)
  BY <1>12 DEF PersistOk
<1>13. CASE PersistFails(c)
  BY <1>13 DEF PersistFails
<1>14. CASE Rollback(c)
  BY <1>14 DEF Rollback
<1>15. CASE Register(c)
  BY <1>15 DEF Register
<1>16. CASE Insert(c)
  BY <1>16 DEF Insert
<1>17. CASE ArgsNoop(c)
  BY <1>17 DEF ArgsNoop
<1>18. CASE ArgsDiffer(c)
  BY <1>18 DEF ArgsDiffer
<1>19. CASE ReplaceAll(c)
  BY <1>19 DEF ReplaceAll
<1>20. CASE RegisteredAll(c)
  BY <1>20 DEF RegisteredAll
<1>21. CASE KillHeld(c)
  BY <1>21 DEF KillHeld
<1>22. CASE \E w \in Workspaces : RegisterNext(c, w)
  BY <1>22 DEF RegisterNext
<1>23. CASE \E w \in Workspaces : KillTake(c, w)
  BY <1>23 DEF KillTake, AfterKill
<1>24. CASE Unregister(c)
  BY <1>24 DEF Unregister, KillReturns, AfterKill
<1>25. CASE KillProc(c)
  BY <1>25 DEF KillProc, KillReturns, AfterKill
<1>26. CASE GitRemoved(c)
  BY <1>26 DEF GitRemoved
<1>27. CASE GitFails(c)
  BY <1>27 DEF GitFails
<1>28. CASE RemoveCommit(c)
  BY <1>28 DEF RemoveCommit
<1>29. CASE KillAllReturns(c)
  BY <1>29 DEF KillAllReturns
<1>30. CASE SyncReplace(c)
  BY <1>30 DEF SyncReplace
<1>31. CASE SyncPrune(c)
  BY <1>31 DEF SyncPrune
<1>32. CASE SyncReturns(c)
  BY <1>32 DEF SyncReturns
<1>33. CASE \E p \in Procs : SyncKill(c, p)
  BY <1>33 DEF SyncKill
<1> QED
  BY <1>1, <1>2, <1>3, <1>4, <1>5, <1>6, <1>7, <1>8, <1>9, <1>10, <1>11, <1>12, <1>13, <1>14, <1>15, <1>16, <1>17, <1>18, <1>19, <1>20, <1>21, <1>22, <1>23, <1>24, <1>25, <1>26, <1>27, <1>28, <1>29, <1>30, <1>31, <1>32, <1>33
     DEF Step

\* A command begins with no session in hand.
LEMMA ArrivesEmpty ==
  ASSUME TypeOK, NEW c \in Clients, Arrive(c)
  PROVE  /\ pc[c] = "idle" /\ pc'[c] \in {"wantLock", "kill", "syncReplace"}
         /\ job'[c].held = NoProc /\ job'[c].old = NoProc /\ job'[c].doomed = {}
         /\ ~job'[c].spawned
<1> DEFINE Empty(j) == j.held = NoProc /\ j.old = NoProc /\ j.doomed = {} /\ ~j.spawned
           Begun == \E o, l, j : /\ Begin(c, o, l, j) /\ Empty([j EXCEPT !.op = o])
                                 /\ l \in {"wantLock", "kill", "syncReplace"}
<1>1. ASSUME NEW o, NEW w, NEW S
      PROVE  /\ Empty([[NoJob EXCEPT !.ws = w] EXCEPT !.op = o])
             /\ Empty([[NoJob EXCEPT !.ws = w, !.todo = S] EXCEPT !.op = o])
             /\ Empty([[NoJob EXCEPT !.todo = S] EXCEPT !.op = o])
             /\ Empty([[NoJob EXCEPT !.stored = S] EXCEPT !.op = o])
  <2>1. Empty([[NoJob EXCEPT !.ws = w] EXCEPT !.op = o])
    BY DEF NoJob
  <2>2. Empty([[NoJob EXCEPT !.ws = w, !.todo = S] EXCEPT !.op = o])
    BY DEF NoJob
  <2>3. Empty([[NoJob EXCEPT !.todo = S] EXCEPT !.op = o])
    BY DEF NoJob
  <2>4. Empty([[NoJob EXCEPT !.stored = S] EXCEPT !.op = o])
    BY DEF NoJob
  <2> QED BY <2>1, <2>2, <2>3, <2>4
<1> HIDE DEF Empty
<1>2. ASSUME NEW w \in Workspaces,
             \/ StartOnEntry(c, w, "connect") \/ StartOnEntry(c, w, "setArgs")
             \/ StartAdd(c, w) \/ StartGitUrl(c, w) \/ StartClone(c, w)
             \/ StartAddWorktree(c, w)
      PROVE  Begun
  <2>1. PICK o : Begin(c, o, "wantLock", [NoJob EXCEPT !.ws = w])
    BY <1>2 DEF StartOnEntry, StartAdd, StartGitUrl, StartClone, StartAddWorktree, Mint
  <2> QED BY <1>1, <2>1
<1>3. ASSUME NEW w \in Workspaces, StartRemove(c, w) \/ StartRemoveWorktree(c, w)
      PROVE  Begun
  <2>1. PICK S : Begin(c, "remove", "kill", [NoJob EXCEPT !.ws = w, !.todo = S])
    BY <1>3 DEF StartRemove, StartRemoveWorktree
  <2> QED BY <1>1, <2>1
<1>4. ASSUME StartKillAll(c) \/ StartList(c)
      PROVE  Begun
  <2>1. CASE Begin(c, "killAll", "kill", [NoJob EXCEPT !.todo = Connected])
    BY <1>1, <2>1
  <2>2. CASE Begin(c, "list", "syncReplace", [NoJob EXCEPT !.stored = disk])
    BY <1>1, <2>2
  <2> QED BY <1>4, <2>1, <2>2 DEF StartKillAll, StartList
<1>5. Begun
  BY <1>2, <1>3, <1>4 DEF Arrive
<1> QED BY <1>5 DEF Empty, Begin, Goto, Set, TypeOK

\* The workspace a command names is fixed when the command begins, the one a
\* kill is about when its entry is taken out.
LEMMA HasWorkspaceStep ==
  ASSUME TypeOK, HasWorkspace, NEW c \in Clients,
         Arrive(c) \/ AcquireLock(c) \/ Step(c)
  PROVE  HasWorkspace'
<1> SUFFICES WorkspaceNamed(c)'
  BY OthersUnchanged DEF HasWorkspace, WorkspaceNamed
<1> USE DEF HasWorkspace, WorkspaceNamed, TypeOK, Job, Goto, Set, LockedPcs,
            Return, ReturnUnlocked
<1>1. CASE Arrive(c)
  <2>1. ASSUME NEW w \in Workspaces, NEW o,
               Begin(c, o, "wantLock", [NoJob EXCEPT !.ws = w])
        PROVE  WorkspaceNamed(c)'
    BY <2>1 DEF Begin, NoJob
  <2>2. ASSUME NEW o, NEW l \in {"kill", "syncReplace"}, NEW j, Begin(c, o, l, j)
        PROVE  WorkspaceNamed(c)'
    BY <2>2 DEF Begin
  <2> QED
    BY <1>1, <2>1, <2>2 DEF Arrive, StartOnEntry, StartAdd, StartGitUrl,
       StartClone, StartAddWorktree, Mint, StartRemove, StartRemoveWorktree,
       StartKillAll, StartList
<1>2. CASE AcquireLock(c)
  BY <1>2 DEF AcquireLock
<1>3. CASE Lookup(c)
  BY <1>3 DEF Lookup
<1>4. CASE OwnIsAlive(c)
  BY <1>4 DEF OwnIsAlive
<1>5. CASE DropDead(c)
  BY <1>5 DEF DropDead
<1>6. CASE Take(c)
  BY <1>6 DEF Take
<1>7. CASE SharedIsAlive(c)
  BY <1>7 DEF SharedIsAlive
<1>8. CASE SpawnRefused(c)
  BY <1>8 DEF SpawnRefused
<1>9. CASE SpawnInitialized(c)
  BY <1>9 DEF SpawnInitialized
<1>10. CASE SpawnTimesOut(c) \/ InitializeErrs(c) \/ SpawnGivesUp(c)
  BY <1>10 DEF SpawnTimesOut, InitializeErrs, SpawnGivesUp
<1>11. CASE \E p \in Procs : SpawnChild(c, p)
  BY <1>11 DEF SpawnChild
<1>12. CASE PersistOk(c)
  BY <1>12 DEF PersistOk
<1>13. CASE PersistFails(c)
  BY <1>13 DEF PersistFails
<1>14. CASE Rollback(c)
  BY <1>14 DEF Rollback
<1>15. CASE Register(c)
  BY <1>15 DEF Register
<1>16. CASE Insert(c)
  BY <1>16 DEF Insert
<1>17. CASE ArgsNoop(c)
  BY <1>17 DEF ArgsNoop
<1>18. CASE ArgsDiffer(c)
  BY <1>18 DEF ArgsDiffer
<1>19. CASE ReplaceAll(c)
  BY <1>19 DEF ReplaceAll
<1>20. CASE RegisteredAll(c)
  BY <1>20 DEF RegisteredAll
<1>21. CASE KillHeld(c)
  BY <1>21 DEF KillHeld
<1>22. CASE \E w \in Workspaces : RegisterNext(c, w)
  BY <1>22 DEF RegisterNext
<1>23. CASE \E w \in Workspaces : KillTake(c, w)
  BY <1>23 DEF KillTake, AfterKill
<1>24. CASE Unregister(c)
  <2>1. CASE job[c].shared
    <3>1. job'[c].cur = job[c].cur /\ pc'[c] \in {"git", "kill"}
      BY <1>24, <2>1 DEF Unregister, KillReturns, AfterKill
    <3>2. pc[c] = "unregister"
      BY <1>24 DEF Unregister
    <3> QED BY <3>1, <3>2
  <2>2. CASE ~job[c].shared
    <3>1. pc[c] = "unregister" /\ pc'[c] = "killProc" /\ job' = job
      BY <1>24, <2>2 DEF Unregister
    <3> QED BY <3>1
  <2> QED BY <2>1, <2>2
<1>25. CASE KillProc(c)
  BY <1>25 DEF KillProc, KillReturns, AfterKill
<1>26. CASE GitRemoved(c)
  BY <1>26 DEF GitRemoved
<1>27. CASE GitFails(c)
  BY <1>27 DEF GitFails
<1>28. CASE RemoveCommit(c)
  BY <1>28 DEF RemoveCommit
<1>29. CASE KillAllReturns(c)
  BY <1>29 DEF KillAllReturns
<1>30. CASE SyncReplace(c)
  BY <1>30 DEF SyncReplace
<1>31. CASE SyncPrune(c)
  BY <1>31 DEF SyncPrune
<1>32. CASE SyncReturns(c)
  BY <1>32 DEF SyncReturns
<1>33. CASE \E p \in Procs : SyncKill(c, p)
  BY <1>33 DEF SyncKill
<1> QED
  BY <1>1, <1>2, <1>3, <1>4, <1>5, <1>6, <1>7, <1>8, <1>9, <1>10, <1>11, <1>12, <1>13, <1>14, <1>15, <1>16, <1>17, <1>18, <1>19, <1>20, <1>21, <1>22, <1>23, <1>24, <1>25, <1>26, <1>27, <1>28, <1>29, <1>30, <1>31, <1>32, <1>33
     DEF Step

\* With RegistryAssumption, the types and the named workspaces are invariant.
TypeInv == TypeOK /\ HasWorkspace

LEMMA TypeInvInit == Init => TypeInv
  BY InitType DEF Init, TypeInv, HasWorkspace, WorkspaceNamed, LockedPcs

LEMMA TypeInvStep == TypeInv /\ [Next]_vars => TypeInv'
<1> SUFFICES ASSUME TypeInv, [Next]_vars
             PROVE  TypeInv'
  OBVIOUS
<1> USE DEF TypeInv
<1>1. ASSUME NEW c \in Clients, Arrive(c)
      PROVE  TypeInv'
  BY <1>1, ArriveType, HasWorkspaceStep
<1>2. ASSUME NEW c \in Clients, AcquireLock(c)
      PROVE  TypeInv'
  BY <1>2, SearchType, HasWorkspaceStep
<1>3. ASSUME NEW c \in Clients, Step(c)
      PROVE  TypeInv'
  <2>1. TypeOK'
    BY <1>3, SearchType, SpawnType, PublishType, ArgsType, RemovalType, SyncType
       DEF Step
  <2> QED BY <1>3, <2>1, HasWorkspaceStep
<1>4. CASE (\E p \in Procs : Crash(p)) \/ (\E w \in Mains : ForeignWrite(w))
  BY <1>4, EnvironmentType DEF Crash, ForeignWrite, HasWorkspace, WorkspaceNamed
<1>5. CASE UNCHANGED vars
  BY <1>5 DEF vars, TypeOK, HasWorkspace, WorkspaceNamed
<1> QED BY <1>1, <1>2, <1>3, <1>4, <1>5 DEF Next

\* The registry, the processes and the locals of every client are well typed in
\* every reachable state, whatever the commands and however they interleave.
THEOREM TypeCorrect == Spec => []TypeOK
<1>1. Init => TypeInv
  BY TypeInvInit
<1>2. TypeInv /\ [Next]_vars => TypeInv'
  BY TypeInvStep
<1>3. TypeInv => TypeOK
  BY DEF TypeInv
<1> QED BY <1>1, <1>2, <1>3, PTL DEF Spec

-----------------------------------------------------------------------------
(* The spawn lock *)

\* A client is in the critical section exactly while the spawn lock is its own.
LockOwned == \A c \in Clients : pc[c] \in LockedPcs <=> spawnLock = c

\* A step keeps the lock where it is, or is the one that releases it.
LEMMA LockStep ==
  ASSUME TypeOK, NEW c \in Clients, Step(c)
  PROVE  \/ /\ pc[c] \in LockedPcs <=> pc'[c] \in LockedPcs
            /\ spawnLock' = spawnLock
         \/ /\ pc[c] \in LockedPcs
            /\ pc'[c] \notin LockedPcs
            /\ spawnLock' = NoClient
<1> USE DEF TypeOK, Goto, Return, ReturnUnlocked, LockedPcs
<1>1. CASE Lookup(c)
  BY <1>1 DEF Lookup
<1>2. CASE OwnIsAlive(c)
  BY <1>2 DEF OwnIsAlive
<1>3. CASE DropDead(c)
  BY <1>3 DEF DropDead
<1>4. CASE Take(c)
  BY <1>4 DEF Take
<1>5. CASE SharedIsAlive(c)
  BY <1>5 DEF SharedIsAlive
<1>6. CASE SpawnRefused(c)
  BY <1>6 DEF SpawnRefused
<1>7. CASE SpawnInitialized(c)
  BY <1>7 DEF SpawnInitialized
<1>8. CASE SpawnTimesOut(c) \/ InitializeErrs(c) \/ SpawnGivesUp(c)
  BY <1>8 DEF SpawnTimesOut, InitializeErrs, SpawnGivesUp
<1>9. CASE \E p \in Procs : SpawnChild(c, p)
  BY <1>9 DEF SpawnChild
<1>10. CASE PersistOk(c)
  BY <1>10 DEF PersistOk
<1>11. CASE PersistFails(c)
  BY <1>11 DEF PersistFails
<1>12. CASE Rollback(c)
  BY <1>12 DEF Rollback
<1>13. CASE Register(c)
  BY <1>13 DEF Register
<1>14. CASE Insert(c)
  BY <1>14 DEF Insert
<1>15. CASE ArgsNoop(c)
  BY <1>15 DEF ArgsNoop
<1>16. CASE ArgsDiffer(c)
  BY <1>16 DEF ArgsDiffer
<1>17. CASE ReplaceAll(c)
  BY <1>17 DEF ReplaceAll
<1>18. CASE RegisteredAll(c)
  BY <1>18 DEF RegisteredAll
<1>19. CASE KillHeld(c)
  BY <1>19 DEF KillHeld
<1>20. CASE \E w \in Workspaces : RegisterNext(c, w)
  BY <1>20 DEF RegisterNext
<1>21. CASE \E w \in Workspaces : KillTake(c, w)
  BY <1>21 DEF KillTake, AfterKill
<1>22. CASE Unregister(c)
  BY <1>22 DEF Unregister, KillReturns, AfterKill
<1>23. CASE KillProc(c)
  BY <1>23 DEF KillProc, KillReturns, AfterKill
<1>24. CASE GitRemoved(c)
  BY <1>24 DEF GitRemoved
<1>25. CASE GitFails(c)
  BY <1>25 DEF GitFails
<1>26. CASE RemoveCommit(c)
  BY <1>26 DEF RemoveCommit
<1>27. CASE KillAllReturns(c)
  BY <1>27 DEF KillAllReturns
<1>28. CASE SyncReplace(c)
  BY <1>28 DEF SyncReplace
<1>29. CASE SyncPrune(c)
  BY <1>29 DEF SyncPrune
<1>30. CASE SyncReturns(c)
  BY <1>30 DEF SyncReturns
<1>31. CASE \E p \in Procs : SyncKill(c, p)
  BY <1>31 DEF SyncKill
<1> QED
  BY <1>1, <1>2, <1>3, <1>4, <1>5, <1>6, <1>7, <1>8, <1>9, <1>10, <1>11, <1>12, <1>13, <1>14, <1>15, <1>16, <1>17, <1>18, <1>19, <1>20, <1>21, <1>22, <1>23, <1>24, <1>25, <1>26, <1>27, <1>28, <1>29, <1>30, <1>31
     DEF Step

LEMMA LockOwnedStep ==
  ASSUME TypeInv, LockOwned, [Next]_vars
  PROVE  LockOwned'
<1> USE RegistryAssumption DEF TypeInv, LockOwned
<1>1. ASSUME NEW c \in Clients, Arrive(c)
      PROVE  LockOwned'
  <2>1. spawnLock' = spawnLock /\ pc[c] = "idle" /\ pc'[c] \notin LockedPcs
    BY <1>1 DEF Arrive, StartOnEntry, StartAdd, StartGitUrl, StartClone,
       StartAddWorktree, Mint, StartRemove, StartRemoveWorktree, StartKillAll,
       StartList, Begin, Goto, LockedPcs, TypeOK
  <2>2. "idle" \notin LockedPcs
    BY DEF LockedPcs
  <2> QED BY <1>1, <2>1, <2>2, OthersUnchanged
<1>2. ASSUME NEW c \in Clients, AcquireLock(c)
      PROVE  LockOwned'
  <2>1. spawnLock = NoClient /\ spawnLock' = c /\ pc'[c] \in LockedPcs
    BY <1>2 DEF AcquireLock, Goto, LockedPcs, TypeOK
  <2> QED BY <1>2, <2>1, OthersUnchanged
<1>3. ASSUME NEW c \in Clients, Step(c)
      PROVE  LockOwned'
  BY <1>3, LockStep, OthersUnchanged
<1>4. CASE \/ \E p \in Procs : Crash(p)
           \/ \E w \in Mains : ForeignWrite(w)
           \/ UNCHANGED vars
  BY <1>4 DEF Crash, ForeignWrite, vars
<1> QED BY <1>1, <1>2, <1>3, <1>4 DEF Next

-----------------------------------------------------------------------------
(* One shared session *)

\* What the owner of the lock knows about the registry: the session it is about
\* to publish is the only one there, and if it started that session itself (and
\* not to change arguments), there is none at all.
OwnerKnows(c) ==
    /\ pc[c] \in {"checkShared", "persist", "rollback", "register", "insert"} =>
          \A w \in Connected : sessions[w] = job[c].held
    /\ pc[c] \in {"spawn", "spawning"} /\ job[c].op # "setArgs" => Connected = {}
    /\ job[c].spawned =>
          /\ pc[c] \in LockedPcs
          /\ job[c].op # "setArgs" => Connected = {}
    /\ pc[c] \in {"readArgs", "replace", "registerAll"} => job[c].op = "setArgs"

\* Other clients, crashes and kills only take entries away.
Shrinks == \A w \in Workspaces : sessions'[w] = sessions[w] \/ sessions'[w] = NoProc

LEMMA ShrinkKeepsSingle ==
  ASSUME SingleSession, Shrinks
  PROVE  SingleSession'
  BY DEF SingleSession, Shrinks, Connected

LEMMA ShrinkKeepsOwner ==
  ASSUME Shrinks, NEW c \in Clients, OwnerKnows(c), pc'[c] = pc[c], job'[c] = job[c]
  PROVE  OwnerKnows(c)'
<1>1. /\ Connected' \subseteq Connected
      /\ \A w \in Connected' : sessions'[w] = sessions[w]
  BY DEF Shrinks, Connected
<1> QED BY <1>1 DEF OwnerKnows


\* A step that leaves the map alone keeps what the client itself knows.
LEMMA OwnerStep ==
  ASSUME TypeInv, NEW c \in Clients, Step(c), OwnerKnows(c), SingleSession
  PROVE  \/ OwnerKnows(c)' /\ Shrinks
         \/ Insert(c)
         \/ ReplaceAll(c)
<1> USE DEF TypeInv, TypeOK, Goto, Set, Return, ReturnUnlocked, OwnerKnows,
            LockedPcs, Job, NoJob, Shrinks
<1>s. ASSUME UNCHANGED sessions
      PROVE  UNCHANGED Connected
  BY <1>s DEF Connected
<1>1. CASE Lookup(c)
  BY <1>s, <1>1 DEF Lookup
<1>2. CASE OwnIsAlive(c)
  BY <1>s, <1>2 DEF OwnIsAlive
<1>3. CASE DropDead(c)
  <2>1. Shrinks
    BY <1>3 DEF DropDead, DropReferences
  <2>2. pc'[c] = "take" /\ job'[c].spawned = job[c].spawned /\ job'[c].op = job[c].op
    BY <1>3 DEF DropDead
  <2>3. Connected' \subseteq Connected
    BY <2>1 DEF Connected
  <2>4. pc[c] \in LockedPcs
    BY <1>3 DEF DropDead
  <2> QED BY <2>1, <2>2, <2>3, <2>4
<1>4. CASE Take(c)
  <2>1. job'[c].spawned = job[c].spawned /\ job'[c].op = job[c].op
    BY <1>4 DEF Take
  <2>2. CASE Connected = {}
    BY <1>s, <1>4, <2>1, <2>2 DEF Take
  <2>3. CASE Connected # {}
    <3>1. PICK p \in Referenced : pc'[c] = "checkShared" /\ job'[c].held = p
      BY <1>4, <2>3 DEF Take
    <3>2. \A w \in Connected : sessions[w] = p
      BY <3>1 DEF Referenced, SingleSession
    <3> QED BY <1>s, <1>4, <2>1, <3>1, <3>2 DEF Take
  <2> QED BY <2>2, <2>3
<1>5. CASE SharedIsAlive(c)
  BY <1>s, <1>5 DEF SharedIsAlive, Adding
<1>6. CASE SpawnRefused(c)
  BY <1>s, <1>6 DEF SpawnRefused
<1>7. CASE SpawnInitialized(c)
  BY <1>s, <1>7 DEF SpawnInitialized, Adding
<1>8. CASE SpawnTimesOut(c) \/ InitializeErrs(c) \/ SpawnGivesUp(c)
  BY <1>s, <1>8 DEF SpawnTimesOut, InitializeErrs, SpawnGivesUp
<1>9. CASE \E p \in Procs : SpawnChild(c, p)
  BY <1>s, <1>9 DEF SpawnChild
<1>10. CASE PersistOk(c)
  BY <1>s, <1>10 DEF PersistOk
<1>11. CASE PersistFails(c)
  BY <1>s, <1>11 DEF PersistFails
<1>12. CASE Rollback(c)
  BY <1>s, <1>12 DEF Rollback
<1>13. CASE Register(c)
  BY <1>s, <1>13 DEF Register
<1>14. CASE ArgsNoop(c)
  BY <1>s, <1>14 DEF ArgsNoop
<1>15. CASE ArgsDiffer(c)
  BY <1>s, <1>15 DEF ArgsDiffer
<1>16. CASE RegisteredAll(c)
  BY <1>s, <1>16 DEF RegisteredAll
<1>17. CASE KillHeld(c)
  BY <1>s, <1>17 DEF KillHeld
<1>18. CASE \E w \in Workspaces : RegisterNext(c, w)
  BY <1>s, <1>18 DEF RegisterNext
<1>19. ASSUME NEW w \in Workspaces, KillTake(c, w)
      PROVE  OwnerKnows(c)' /\ Shrinks
  <2>1. Shrinks
    BY <1>19 DEF KillTake
  <2>2. /\ pc[c] = "kill"
        /\ pc'[c] \in {"unregister", "git", "kill"}
        /\ job'[c].spawned = job[c].spawned
    BY <1>19 DEF KillTake, AfterKill
  <2> QED BY <2>1, <2>2
<1>20. CASE Unregister(c)
  <2>1. Shrinks
    BY <1>20 DEF Unregister
  <2>2. /\ pc[c] = "unregister"
        /\ pc'[c] \in {"killProc", "git", "kill"}
        /\ job'[c].spawned = job[c].spawned
    <3>1. CASE job[c].shared
      BY <1>20, <3>1 DEF Unregister, KillReturns, AfterKill
    <3>2. CASE ~job[c].shared
      BY <1>20, <3>2 DEF Unregister
    <3> QED BY <3>1, <3>2
  <2> QED BY <2>1, <2>2
<1>21. CASE KillProc(c)
  <2>1. Shrinks
    BY <1>21 DEF KillProc
  <2>2. /\ pc[c] = "killProc"
        /\ pc'[c] \in {"git", "kill"}
        /\ job'[c].spawned = job[c].spawned
    BY <1>21 DEF KillProc, KillReturns, AfterKill
  <2> QED BY <2>1, <2>2
<1>22. CASE GitRemoved(c)
  BY <1>s, <1>22 DEF GitRemoved
<1>23. CASE GitFails(c)
  BY <1>s, <1>23 DEF GitFails
<1>24. CASE RemoveCommit(c)
  BY <1>s, <1>24 DEF RemoveCommit
<1>25. CASE KillAllReturns(c)
  BY <1>s, <1>25 DEF KillAllReturns
<1>26. CASE SyncReplace(c)
  BY <1>s, <1>26 DEF SyncReplace
<1>27. CASE SyncPrune(c)
  <2>1. Shrinks
    BY <1>27 DEF SyncPrune
  <2>2. pc[c] = "syncPrune" /\ pc'[c] = "syncKill" /\ job'[c].spawned = job[c].spawned
    BY <1>27 DEF SyncPrune
  <2> QED BY <2>1, <2>2
<1>28. CASE SyncReturns(c)
  BY <1>s, <1>28 DEF SyncReturns
<1>29. CASE \E p \in Procs : SyncKill(c, p)
  BY <1>s, <1>29 DEF SyncKill
<1> QED
  BY <1>1, <1>2, <1>3, <1>4, <1>5, <1>6, <1>7, <1>8, <1>9, <1>10, <1>11, <1>12, <1>13, <1>14, <1>15, <1>16, <1>17, <1>18, <1>19, <1>20, <1>21, <1>22, <1>23, <1>24, <1>25, <1>26, <1>27, <1>28, <1>29
     DEF Step

IInv == TypeInv /\ LockOwned /\ SingleSession /\ \A c \in Clients : OwnerKnows(c)

LEMMA IInvInit == Init => IInv
<1> SUFFICES ASSUME Init PROVE IInv
  OBVIOUS
<1>1. Connected = {}
  BY DEF Init, Connected
<1> QED
  BY <1>1, TypeInvInit, RegistryAssumption
     DEF Init, IInv, LockOwned, SingleSession, OwnerKnows, LockedPcs, NoJob

\* Publishing the owner's session, beside equals or alone.
LEMMA InsertKeeps ==
  ASSUME IInv, NEW c \in Clients, Insert(c)
  PROVE  SingleSession' /\ \A d \in Clients : OwnerKnows(d)'
<1> USE DEF IInv, TypeInv, TypeOK
<1>1. pc[c] = "insert" /\ pc'[c] = "idle" /\ job'[c] = NoJob
  BY DEF Insert, ReturnUnlocked, Return, Goto, Set
<1>2. \A w \in Connected : sessions[w] = job[c].held
  BY <1>1 DEF OwnerKnows
<1>3. \A w \in Connected' : sessions'[w] = job[c].held
  BY <1>2 DEF Insert, Connected
<1>4. OwnerKnows(c)'
  BY <1>1 DEF OwnerKnows, NoJob
<1>5. \A d \in Clients \ {c} : pc[d] \notin LockedPcs
  BY <1>1 DEF LockOwned, LockedPcs
<1>6. Step(c)
  BY DEF Step
<1>7. \A d \in Clients \ {c} : OwnerKnows(d)'
  BY <1>5, <1>6, OthersUnchanged DEF OwnerKnows, LockedPcs
<1> QED BY <1>3, <1>4, <1>7 DEF SingleSession

\* Moving every entry to the owner's session.
LEMMA ReplaceKeeps ==
  ASSUME IInv, NEW c \in Clients, ReplaceAll(c)
  PROVE  SingleSession' /\ \A d \in Clients : OwnerKnows(d)'
<1> USE DEF IInv, TypeInv, TypeOK
<1>1. /\ pc[c] = "replace" /\ pc'[c] = "registerAll"
      /\ job'[c].op = job[c].op /\ job'[c].spawned = job[c].spawned
  BY DEF ReplaceAll, Goto, Set, Job
<1>2. job[c].op = "setArgs"
  BY <1>1 DEF OwnerKnows
<1>3. \A w \in Connected' : sessions'[w] = job[c].held
  BY DEF ReplaceAll, Connected
<1>4. OwnerKnows(c)'
  BY <1>1, <1>2 DEF OwnerKnows, LockedPcs
<1>5. \A d \in Clients \ {c} : pc[d] \notin LockedPcs
  BY <1>1 DEF LockOwned, LockedPcs
<1>6. Step(c)
  BY DEF Step
<1>7. \A d \in Clients \ {c} : OwnerKnows(d)'
  BY <1>5, <1>6, OthersUnchanged DEF OwnerKnows, LockedPcs
<1> QED BY <1>3, <1>4, <1>7 DEF SingleSession

LEMMA IInvStep == IInv /\ [Next]_vars => IInv'
<1> SUFFICES ASSUME IInv, [Next]_vars
             PROVE  SingleSession' /\ \A d \in Clients : OwnerKnows(d)'
  BY TypeInvStep, LockOwnedStep DEF IInv
<1>s. ASSUME UNCHANGED sessions
      PROVE  Shrinks
  BY <1>s DEF Shrinks
<1>o. ASSUME NEW c \in Clients, Shrinks, OwnerKnows(c)',
             \A d \in Clients \ {c} : pc'[d] = pc[d] /\ job'[d] = job[d]
      PROVE  SingleSession' /\ \A d \in Clients : OwnerKnows(d)'
  BY <1>o, ShrinkKeepsSingle, ShrinkKeepsOwner DEF IInv
<1>1. ASSUME NEW c \in Clients, Arrive(c)
      PROVE  SingleSession' /\ \A d \in Clients : OwnerKnows(d)'
  <2>1. UNCHANGED sessions
    BY <1>1 DEF Arrive, StartOnEntry, StartAdd, StartGitUrl, StartClone,
       StartAddWorktree, Mint, StartRemove, StartRemoveWorktree, StartKillAll, StartList
  <2>2. /\ pc'[c] \in {"wantLock", "kill", "syncReplace"}
        /\ ~job'[c].spawned
    BY <1>1, ArrivesEmpty DEF IInv, TypeInv
  <2>3. OwnerKnows(c)'
    BY <2>2 DEF OwnerKnows
  <2> QED BY <1>s, <1>o, <1>1, <2>1, <2>3, OthersUnchanged DEF IInv, TypeInv
<1>2. ASSUME NEW c \in Clients, AcquireLock(c)
      PROVE  SingleSession' /\ \A d \in Clients : OwnerKnows(d)'
  <2>1. UNCHANGED <<sessions, job>> /\ pc[c] = "wantLock"
    BY <1>2 DEF AcquireLock
  <2>4. pc'[c] = CASE job[c].op = "connect" -> "lookup"
                   [] job[c].op = "setArgs" -> "readArgs"
                   [] OTHER -> "take"
    BY <1>2 DEF AcquireLock, Goto, IInv, TypeInv, TypeOK
  <2>5. \/ pc'[c] = "lookup" \/ pc'[c] = "take"
        \/ pc'[c] = "readArgs" /\ job[c].op = "setArgs"
    BY <2>4
  <2>2. ~job[c].spawned
    BY <2>1 DEF IInv, OwnerKnows, LockedPcs
  <2>3. OwnerKnows(c)'
    BY <2>1, <2>2, <2>5 DEF OwnerKnows
  <2> QED BY <1>s, <1>o, <1>2, <2>1, <2>3, OthersUnchanged DEF IInv, TypeInv
<1>3. ASSUME NEW c \in Clients, Step(c)
      PROVE  SingleSession' /\ \A d \in Clients : OwnerKnows(d)'
  BY <1>o, <1>3, OwnerStep, OthersUnchanged, InsertKeeps, ReplaceKeeps DEF IInv, TypeInv
<1>4. CASE \/ \E p \in Procs : Crash(p)
           \/ \E w \in Mains : ForeignWrite(w)
           \/ UNCHANGED vars
  <2>1. UNCHANGED <<sessions, pc, job>>
    BY <1>4 DEF Crash, ForeignWrite, vars
  <2> QED BY <1>s, <2>1, ShrinkKeepsSingle, ShrinkKeepsOwner DEF IInv
<1> QED BY <1>1, <1>2, <1>3, <1>4 DEF Next

\* Two connected workspaces share one session in every reachable state: neither
\* connects, adds, argument changes, kills, crashes nor daemon syncs ever leave
\* the map with two.
THEOREM SharedSession == Spec => []SingleSession
<1>1. IInv => SingleSession
  BY DEF IInv
<1> QED BY <1>1, IInvInit, IInvStep, PTL DEF Spec

\* A connect or an add that started a process started it with nobody connected,
\* and nobody gets connected before it publishes or gives up.
THEOREM SpawnsAlone == Spec => []FreshSpawnIsAlone
<1>1. IInv => FreshSpawnIsAlone
  BY DEF IInv, OwnerKnows, FreshSpawnIsAlone
<1> QED BY <1>1, IInvInit, IInvStep, PTL DEF Spec

-----------------------------------------------------------------------------
(* What a client knows about the session it holds *)

\* A client that will publish, register or kill a session holds one; only the
\* prune dooms sessions; and set-args replaces the session everybody has.
ClientKnows(c) ==
    /\ pc[c] \in {"checkShared", "spawning", "cutOff", "persist", "rollback",
                  "register", "insert", "replace", "registerAll"} => job[c].held \in Procs
    /\ job[c].spawned =>
          pc[c] \in {"spawning", "cutOff", "persist", "rollback", "register",
                     "insert", "replace", "registerAll", "killHeld"}
    /\ job[c].doomed # {} => pc[c] = "syncKill"
    /\ (job[c].op = "setArgs" /\ pc[c] \in {"spawn", "spawning"}) \/ pc[c] = "replace" =>
          \A w \in Connected : sessions[w] = job[c].old
    /\ pc[c] = "registerAll" => \A w \in Connected : sessions[w] = job[c].held

\* Entries that go take nothing a client knows with them.
LEMMA ShrinkKeepsClient ==
  ASSUME Shrinks, NEW c \in Clients, ClientKnows(c), pc'[c] = pc[c], job'[c] = job[c]
  PROVE  ClientKnows(c)'
<1>1. /\ Connected' \subseteq Connected
      /\ \A w \in Connected' : sessions'[w] = sessions[w]
  BY DEF Shrinks, Connected
<1> QED BY <1>1 DEF ClientKnows

LEMMA ReferencedAreProcs ==
  ASSUME TypeOK
  PROVE  Referenced \subseteq Procs
  BY DEF TypeOK, Referenced, Connected

\* What a kill remembers when it takes out the entry of w.
LEMMA KillTakes ==
  ASSUME TypeOK, NEW c \in Clients, NEW w \in Workspaces, KillTake(c, w)
  PROVE  /\ job'[c].cur = w
         /\ job'[c].held = sessions[w]
         /\ job'[c].shared = \E v \in Connected \ {w} : sessions[v] = sessions[w]
         /\ job'[c].spawned = job[c].spawned
         /\ job'[c].doomed = job[c].doomed
         /\ job'[c].old = job[c].old
<1>1. ASSUME NEW j \in Job, NEW h, NEW t, NEW d, NEW b
      PROVE  LET k == [j EXCEPT !.cur = w, !.held = h, !.todo = t, !.done = d, !.shared = b]
             IN  /\ k.cur = w /\ k.held = h /\ k.shared = b
                 /\ k.spawned = j.spawned /\ k.doomed = j.doomed /\ k.old = j.old
  BY DEF Job
<1>2. job'[c] = [job[c] EXCEPT
              !.cur = w, !.held = sessions[w], !.todo = @ \ {w},
              !.done = IF w \in Mains THEN @ \cup {w} ELSE @,
              !.shared = \E v \in Connected \ {w} : sessions[v] = sessions[w]]
  BY DEF KillTake, Set, TypeOK
<1>3. job[c] \in Job
  BY DEF TypeOK
<1> QED BY <1>1, <1>2, <1>3

\* The steps of a kill stay among the program counters of the kills and touch
\* neither what the client spawned nor what it is to prune.
LEMMA KillSteps ==
  ASSUME TypeOK, NEW c \in Clients,
         (\E w \in Workspaces : KillTake(c, w)) \/ Unregister(c) \/ KillProc(c)
  PROVE  /\ pc[c] \in {"kill", "unregister", "killProc"}
         /\ pc'[c] \in {"unregister", "killProc", "git", "kill"}
         /\ job'[c].spawned = job[c].spawned
         /\ job'[c].doomed = job[c].doomed
         /\ job'[c].old = job[c].old
<1> USE DEF TypeOK, Goto, Set, Job
<1>1. ASSUME NEW w \in Workspaces, KillTake(c, w)
      PROVE  /\ pc[c] = "kill" /\ pc'[c] \in {"unregister", "git", "kill"}
             /\ job'[c].spawned = job[c].spawned /\ job'[c].doomed = job[c].doomed
             /\ job'[c].old = job[c].old
  <2>1. pc[c] = "kill" /\ pc'[c] \in {"unregister", "git", "kill"}
    BY <1>1 DEF KillTake, AfterKill
  <2>2. /\ job'[c].spawned = job[c].spawned /\ job'[c].doomed = job[c].doomed
        /\ job'[c].old = job[c].old
    BY <1>1, KillTakes
  <2> QED BY <2>1, <2>2
<1>2. ASSUME KillReturns(c)
      PROVE  /\ pc'[c] \in {"git", "kill"}
             /\ job'[c].spawned = job[c].spawned /\ job'[c].doomed = job[c].doomed
             /\ job'[c].old = job[c].old
  <2>1. pc'[c] \in {"git", "kill"}
    BY <1>2 DEF KillReturns, AfterKill
  <2>2. /\ job'[c].spawned = job[c].spawned /\ job'[c].doomed = job[c].doomed
        /\ job'[c].old = job[c].old
    BY <1>2 DEF KillReturns
  <2> QED BY <2>1, <2>2
<1>3. CASE Unregister(c)
  BY <1>2, <1>3 DEF Unregister
<1>4. CASE KillProc(c)
  BY <1>2, <1>4 DEF KillProc
<1> QED BY <1>1, <1>3, <1>4

\* A client's own step keeps what it knows.
LEMMA ClientStep ==
  ASSUME TypeInv, NEW c \in Clients, Step(c), OwnerKnows(c), ClientKnows(c), SingleSession
  PROVE  ClientKnows(c)'
<1> USE DEF TypeInv, TypeOK, Goto, Set, Return, ReturnUnlocked, ClientKnows,
            OwnerKnows, Job, NoJob
<1>s. ASSUME UNCHANGED sessions
      PROVE  UNCHANGED Connected
  BY <1>s DEF Connected
<1>1. CASE Lookup(c)
  BY <1>s, <1>1 DEF Lookup
<1>2. CASE OwnIsAlive(c)
  BY <1>s, <1>2 DEF OwnIsAlive
<1>3. CASE DropDead(c)
  BY <1>3 DEF DropDead
<1>4. CASE Take(c)
  BY <1>s, <1>4, ReferencedAreProcs DEF Take
<1>5. CASE SharedIsAlive(c)
  BY <1>s, <1>5 DEF SharedIsAlive, Adding
<1>6. CASE SpawnRefused(c)
  BY <1>s, <1>6 DEF SpawnRefused
<1>7. CASE SpawnInitialized(c)
  BY <1>s, <1>7 DEF SpawnInitialized, Adding
<1>8. CASE SpawnTimesOut(c) \/ InitializeErrs(c) \/ SpawnGivesUp(c)
  BY <1>s, <1>8 DEF SpawnTimesOut, InitializeErrs, SpawnGivesUp
<1>9. CASE \E p \in Procs : SpawnChild(c, p)
  BY <1>s, <1>9 DEF SpawnChild
<1>10. CASE PersistOk(c)
  BY <1>s, <1>10 DEF PersistOk
<1>11. CASE PersistFails(c)
  BY <1>s, <1>11 DEF PersistFails
<1>12. CASE Rollback(c)
  BY <1>s, <1>12 DEF Rollback
<1>13. CASE Register(c)
  BY <1>s, <1>13 DEF Register
<1>14. CASE Insert(c)
  BY <1>14 DEF Insert
<1>15. CASE ArgsNoop(c)
  BY <1>s, <1>15 DEF ArgsNoop
<1>16. CASE ArgsDiffer(c)
  <2>1. PICK p \in Referenced : job'[c] = [job[c] EXCEPT !.old = p]
    BY <1>16 DEF ArgsDiffer
  <2>2. \A w \in Connected : sessions[w] = p
    BY <2>1 DEF Referenced, SingleSession
  <2>3. p \in Procs
    BY ReferencedAreProcs
  <2> QED BY <1>s, <1>16, <2>1, <2>2, <2>3 DEF ArgsDiffer
<1>17. CASE ReplaceAll(c)
  <2>1. \A w \in Connected' : sessions'[w] = job[c].held
    BY <1>17 DEF ReplaceAll, Connected
  <2> QED BY <1>17, <2>1 DEF ReplaceAll
<1>18. CASE RegisteredAll(c)
  BY <1>s, <1>18 DEF RegisteredAll
<1>19. CASE KillHeld(c)
  BY <1>s, <1>19 DEF KillHeld
<1>20. CASE \E w \in Workspaces : RegisterNext(c, w)
  BY <1>s, <1>20 DEF RegisterNext
<1>21. ASSUME (\E w \in Workspaces : KillTake(c, w)) \/ Unregister(c) \/ KillProc(c)
       PROVE  ClientKnows(c)'
  BY <1>21, KillSteps
<1>24. CASE GitRemoved(c)
  BY <1>s, <1>24 DEF GitRemoved
<1>25. CASE GitFails(c)
  BY <1>s, <1>25 DEF GitFails
<1>26. CASE RemoveCommit(c)
  BY <1>s, <1>26 DEF RemoveCommit
<1>27. CASE KillAllReturns(c)
  BY <1>s, <1>27 DEF KillAllReturns
<1>28. CASE SyncReplace(c)
  BY <1>s, <1>28 DEF SyncReplace
<1>29. CASE SyncPrune(c)
  <2>2. pc[c] = "syncPrune" /\ pc'[c] = "syncKill" /\ job'[c].spawned = job[c].spawned
    BY <1>29 DEF SyncPrune
  <2> QED BY <2>2
<1>30. CASE SyncReturns(c)
  BY <1>s, <1>30 DEF SyncReturns
<1>31. CASE \E p \in Procs : SyncKill(c, p)
  BY <1>s, <1>31 DEF SyncKill
<1> QED
  BY <1>1, <1>2, <1>3, <1>4, <1>5, <1>6, <1>7, <1>8, <1>9, <1>10, <1>11, <1>12, <1>13, <1>14, <1>15, <1>16, <1>17, <1>18, <1>19, <1>20, <1>21, <1>24, <1>25, <1>26, <1>27, <1>28, <1>29, <1>30, <1>31
     DEF Step

-----------------------------------------------------------------------------
(* Where a client's sessions come from *)

\* What a step can do to the processes: nothing, kill one or start one.
LEMMA ProcessStep ==
  ASSUME NEW c \in Clients, Step(c)
  PROVE  \/ UNCHANGED process
         \/ \E q : Kill(q)
         \/ \E q \in Procs : SpawnChild(c, q)
<1>1. CASE Lookup(c) \/ OwnIsAlive(c) \/ DropDead(c) \/ Take(c) \/ SharedIsAlive(c)
  BY <1>1 DEF Lookup, OwnIsAlive, DropDead, Take, SharedIsAlive, procs
<1>2. CASE SpawnRefused(c) \/ SpawnInitialized(c) \/ SpawnTimesOut(c)
           \/ InitializeErrs(c) \/ SpawnGivesUp(c)
  BY <1>2 DEF SpawnRefused, SpawnInitialized, SpawnTimesOut,
       InitializeErrs, SpawnGivesUp, procs
<1>3. CASE PersistOk(c) \/ PersistFails(c) \/ Rollback(c) \/ Register(c) \/ Insert(c)
  BY <1>3 DEF PersistOk, PersistFails, Rollback, Register, Insert, procs
<1>4. CASE ArgsNoop(c) \/ ArgsDiffer(c) \/ ReplaceAll(c) \/ RegisteredAll(c) \/ KillHeld(c)
  BY <1>4 DEF ArgsNoop, ArgsDiffer, ReplaceAll, RegisteredAll, KillHeld, procs
<1>5. ASSUME NEW w \in Workspaces, RegisterNext(c, w) \/ KillTake(c, w)
      PROVE  UNCHANGED process
  BY <1>5 DEF RegisterNext, KillTake, procs
<1>6. CASE Unregister(c) \/ KillProc(c) \/ GitRemoved(c) \/ GitFails(c)
           \/ RemoveCommit(c) \/ KillAllReturns(c)
  BY <1>6 DEF Unregister, KillProc, GitRemoved, GitFails, RemoveCommit,
       KillAllReturns, procs
<1>7. CASE SyncReplace(c) \/ SyncPrune(c) \/ SyncReturns(c) \/ \E p \in Procs : SyncKill(c, p)
  BY <1>7 DEF SyncReplace, SyncPrune, SyncReturns, SyncKill, procs
<1> QED BY <1>1, <1>2, <1>3, <1>4, <1>5, <1>6, <1>7 DEF Step

\* Whatever happens, a process that was started stays started, and one that has
\* died stays dead.
LEMMA ProcessesAge ==
  ASSUME TypeOK, [Next]_vars, NEW p \in Procs
  PROVE  /\ process[p] # "unborn" => process'[p] # "unborn"
         /\ Alive(p)' => Alive(p) \/ (process[p] = "unborn" /\ \E c \in Clients : SpawnChild(c, p))
<1> USE DEF TypeOK, Alive
<1>1. ASSUME NEW q, Kill(q)
      PROVE  /\ process[p] # "unborn" => process'[p] # "unborn"
             /\ Alive(p)' => Alive(p)
  BY <1>1 DEF Kill
<1>2. ASSUME NEW c \in Clients, NEW q \in Procs, SpawnChild(c, q)
      PROVE  /\ process[p] # "unborn" => process'[p] # "unborn"
             /\ Alive(p)' => Alive(p) \/ (process[p] = "unborn" /\ SpawnChild(c, p))
  BY <1>2 DEF SpawnChild
<1>3. \/ UNCHANGED process
      \/ \E q : Kill(q)
      \/ \E c \in Clients, q \in Procs : SpawnChild(c, q)
  <2>1. ASSUME NEW c \in Clients, Arrive(c) \/ AcquireLock(c)
        PROVE  UNCHANGED process
    BY <2>1 DEF Arrive, StartOnEntry, StartAdd, StartGitUrl, StartClone,
       StartAddWorktree, Mint, StartRemove, StartRemoveWorktree, StartKillAll,
       StartList, AcquireLock, procs
  <2>2. CASE \/ \E q \in Procs : Crash(q)
             \/ \E w \in Mains : ForeignWrite(w)
             \/ UNCHANGED vars
    BY <2>2 DEF Crash, ForeignWrite, procs, vars
  <2> QED BY <2>1, <2>2, ProcessStep DEF Next
<1> QED BY <1>1, <1>2, <1>3

\* A client comes by a session in two ways only: it finds it in the registry or
\* it starts it.
LEMMA HandleSource ==
  ASSUME TypeInv, NEW c \in Clients, Arrive(c) \/ AcquireLock(c) \/ Step(c),
         NEW p \in Procs, p \in Handles(c)'
  PROVE  p \in Handles(c) \/ p \in Referenced \/ SpawnChild(c, p)
<1>j. /\ job'[c].held \in Procs \cup {NoProc}
      /\ job'[c].old \in Procs \cup {NoProc}
      /\ job[c] \in Job
  <2>1. TypeInv'
    BY TypeInvStep DEF Next
  <2>2. job'[c] \in Job /\ job[c] \in Job
    BY <2>1 DEF TypeInv, TypeOK
  <2> QED BY <2>2 DEF Job
<1> USE RegistryAssumption DEF TypeInv, TypeOK, Set, Return, ReturnUnlocked, Handles, Job, NoJob
<1>0. CASE UNCHANGED job
  BY <1>0
<1>r. CASE job'[c] = NoJob
  BY <1>r
<1>1. CASE Arrive(c)
  BY <1>1, ArrivesEmpty
<1>2. CASE AcquireLock(c)
  BY <1>0, <1>2 DEF AcquireLock
<1>3. CASE Lookup(c)
  <2>1. /\ job'[c].held = sessions[job[c].ws]
        /\ job'[c].old = job[c].old
        /\ job'[c].doomed = job[c].doomed
    BY <1>3 DEF Lookup
  <2>2. job[c].ws \in Workspaces
    BY <1>3 DEF Lookup, HasWorkspace, WorkspaceNamed, LockedPcs
  <2> QED BY <2>1, <2>2 DEF Referenced, Connected
<1>4. CASE OwnIsAlive(c)
  BY <1>r, <1>4 DEF OwnIsAlive
<1>5. CASE DropDead(c)
  BY <1>5 DEF DropDead
<1>6. CASE Take(c)
  BY <1>6 DEF Take
<1>7. CASE SharedIsAlive(c)
  BY <1>0, <1>7 DEF SharedIsAlive
<1>8. CASE SpawnRefused(c)
  BY <1>r, <1>8 DEF SpawnRefused
<1>9. CASE SpawnInitialized(c)
  BY <1>0, <1>9 DEF SpawnInitialized
<1>10. CASE SpawnTimesOut(c) \/ InitializeErrs(c) \/ SpawnGivesUp(c)
  BY <1>r, <1>10 DEF SpawnTimesOut, InitializeErrs, SpawnGivesUp
<1>11. ASSUME NEW q \in Procs, SpawnChild(c, q)
       PROVE  p \in Handles(c) \/ SpawnChild(c, p)
  BY <1>11 DEF SpawnChild
<1>12. CASE PersistOk(c)
  BY <1>0, <1>12 DEF PersistOk
<1>13. CASE PersistFails(c)
  BY <1>0, <1>r, <1>13 DEF PersistFails
<1>14. CASE Rollback(c)
  BY <1>0, <1>r, <1>14 DEF Rollback
<1>15. CASE Register(c)
  BY <1>0, <1>15 DEF Register
<1>16. CASE Insert(c)
  BY <1>r, <1>16 DEF Insert
<1>17. CASE ArgsNoop(c)
  BY <1>r, <1>17 DEF ArgsNoop
<1>18. CASE ArgsDiffer(c)
  BY <1>18 DEF ArgsDiffer
<1>19. CASE ReplaceAll(c)
  BY <1>19 DEF ReplaceAll
<1>20. CASE RegisteredAll(c)
  BY <1>20 DEF RegisteredAll
<1>21. CASE KillHeld(c)
  BY <1>r, <1>21 DEF KillHeld
<1>22. CASE \E w \in Workspaces : RegisterNext(c, w)
  BY <1>22 DEF RegisterNext
<1>23. ASSUME NEW w \in Workspaces, KillTake(c, w)
       PROVE  p \in Handles(c) \/ p \in Referenced
  <2>1. job'[c].old = job[c].old /\ job'[c].doomed = job[c].doomed
    BY <1>23, KillSteps
  <2>2. job'[c].held = sessions[w]
    BY <1>23, KillTakes
  <2> QED BY <2>1, <2>2 DEF Referenced, Connected
<1>24. CASE Unregister(c) \/ KillProc(c)
  <2>1. job'[c].old = job[c].old /\ job'[c].doomed = job[c].doomed
    BY <1>24, KillSteps
  <2>2. job'[c].held = NoProc \/ job'[c].held = job[c].held
    <3>1. CASE KillReturns(c)
      BY <3>1 DEF KillReturns
    <3> QED BY <1>0, <1>24, <3>1 DEF Unregister, KillProc
  <2> QED BY <2>1, <2>2
<1>25. CASE GitRemoved(c)
  BY <1>25 DEF GitRemoved
<1>26. CASE GitFails(c)
  BY <1>r, <1>26 DEF GitFails
<1>27. CASE RemoveCommit(c)
  BY <1>r, <1>27 DEF RemoveCommit
<1>28. CASE KillAllReturns(c)
  BY <1>r, <1>28 DEF KillAllReturns
<1>29. CASE SyncReplace(c)
  BY <1>0, <1>29 DEF SyncReplace
<1>30. CASE SyncPrune(c)
  <2>1. /\ job'[c].held = job[c].held /\ job'[c].old = job[c].old
        /\ job'[c].doomed = {sessions[w] : w \in Connected \ job[c].stored}
    BY <1>30 DEF SyncPrune
  <2> QED BY <2>1 DEF Referenced
<1>31. CASE SyncReturns(c)
  BY <1>r, <1>31 DEF SyncReturns
<1>32. CASE \E q \in Procs : SyncKill(c, q)
  BY <1>32 DEF SyncKill
<1> QED
  BY <1>1, <1>2, <1>3, <1>4, <1>5, <1>6, <1>7, <1>8, <1>9, <1>10, <1>11, <1>12, <1>13, <1>14, <1>15, <1>16, <1>17, <1>18, <1>19, <1>20, <1>21, <1>22, <1>23, <1>24, <1>25, <1>26, <1>27, <1>28, <1>29, <1>30, <1>31, <1>32
     DEF Step

-----------------------------------------------------------------------------
(* A process that is starting belongs to the one client that started it *)

\* No session that the registry or a client knows is still to be started.
AllBorn ==
    /\ \A p \in Referenced : process[p] # "unborn"
    /\ \A c \in Clients : \A p \in Procs \cap Handles(c) : process[p] # "unborn"

\* c has started a session and has neither published it nor given it up.
Starting(c) ==
    /\ job[c].spawned
    /\ pc[c] \in {"spawning", "cutOff", "persist", "rollback", "register", "insert",
                  "replace"}

\* Nobody else knows the session a client is starting.
Exclusive(c) ==
    Starting(c) => /\ job[c].held \notin Referenced
                   /\ \A d \in Clients \ {c} : job[c].held \notin Handles(d)

\* The entries of the map change in three ways: some go, the owner of the lock
\* publishes the session it holds, or it moves everybody to that session.
LEMMA MapStep ==
  ASSUME IInv, [Next]_vars
  PROVE  \/ Shrinks
         \/ \E c \in Clients : Insert(c) \/ ReplaceAll(c)
<1> USE DEF IInv, Shrinks
<1>1. ASSUME NEW c \in Clients, Arrive(c) \/ AcquireLock(c)
      PROVE  UNCHANGED sessions
  BY <1>1 DEF Arrive, StartOnEntry, StartAdd, StartGitUrl, StartClone,
     StartAddWorktree, Mint, StartRemove, StartRemoveWorktree, StartKillAll,
     StartList, AcquireLock
<1>2. ASSUME NEW c \in Clients, Step(c)
      PROVE  Shrinks \/ Insert(c) \/ ReplaceAll(c)
  BY <1>2, OwnerStep
<1>3. CASE \/ \E p \in Procs : Crash(p)
           \/ \E w \in Mains : ForeignWrite(w)
           \/ UNCHANGED vars
  BY <1>3 DEF Crash, ForeignWrite, vars
<1> QED BY <1>1, <1>2, <1>3 DEF Next

LEMMA ReferencedSource ==
  ASSUME IInv, [Next]_vars, NEW p \in Procs, p \in Referenced'
  PROVE  \/ p \in Referenced
         \/ \E c \in Clients : (Insert(c) \/ ReplaceAll(c)) /\ job[c].held = p
<1> USE DEF IInv, TypeInv, TypeOK, Referenced, Connected
<1>1. CASE Shrinks
  BY <1>1 DEF Shrinks
<1>2. ASSUME NEW c \in Clients, Insert(c)
      PROVE  p \in Referenced \/ job[c].held = p
  BY <1>2 DEF Insert
<1>3. ASSUME NEW c \in Clients, ReplaceAll(c)
      PROVE  p \in Referenced \/ job[c].held = p
  BY <1>3 DEF ReplaceAll
<1> QED BY <1>1, <1>2, <1>3, MapStep

LEMMA AllBornStep ==
  ASSUME IInv, AllBorn, [Next]_vars
  PROVE  AllBorn'
<1> USE DEF IInv, TypeInv
<1>1. ASSUME NEW p \in Procs, p \in Referenced'
      PROVE  process'[p] # "unborn"
  <2>1. p \in Referenced \/ \E c \in Clients : p \in Handles(c)
    BY <1>1, ReferencedSource DEF Handles
  <2> QED BY <2>1, ProcessesAge DEF AllBorn
<1>2. ASSUME NEW c \in Clients, NEW p \in Procs, p \in Handles(c)'
      PROVE  process'[p] # "unborn"
  <2>1. CASE p \in Referenced \/ p \in Handles(c)
    BY <2>1, ProcessesAge DEF AllBorn
  <2>2. CASE SpawnChild(c, p)
    BY <2>2 DEF SpawnChild, TypeOK
  <2>3. CASE UNCHANGED job
    BY <1>2, <2>1, <2>3 DEF Handles
  <2>4. ASSUME NEW d \in Clients, Arrive(d) \/ AcquireLock(d) \/ Step(d), d # c
        PROVE  p \in Handles(c)
    BY <1>2, <2>4, OthersUnchanged DEF Handles
  <2>5. CASE \/ \E q \in Procs : Crash(q)
             \/ \E w \in Mains : ForeignWrite(w)
             \/ UNCHANGED vars
    BY <2>3, <2>5 DEF Crash, ForeignWrite, vars
  <2> QED BY <1>2, <2>1, <2>2, <2>4, <2>5, HandleSource DEF Next
<1>3. Referenced' \subseteq Procs
  <2>1. TypeOK'
    BY TypeInvStep
  <2> QED BY <2>1 DEF TypeOK, Referenced, Connected
<1> QED BY <1>1, <1>2, <1>3 DEF AllBorn

\* Starting begins with SpawnChild and goes on without touching the map.
LEMMA StartingStep ==
  ASSUME TypeInv, NEW c \in Clients, OwnerKnows(c), ClientKnows(c),
         Arrive(c) \/ AcquireLock(c) \/ Step(c), Starting(c)'
  PROVE  \/ SpawnChild(c, job'[c].held) /\ job'[c].held \in Procs
         \/ Starting(c) /\ UNCHANGED <<job, sessions>>
<1> USE DEF TypeInv, TypeOK, Goto, Set, Return, ReturnUnlocked, Starting,
            ClientKnows, NoJob, Job
<1>0. ~NoJob.spawned
  BY DEF NoJob
<1>1. CASE Arrive(c)
  BY <1>1, ArrivesEmpty
<1>2. CASE AcquireLock(c)
  BY <1>2 DEF AcquireLock
<1>3. CASE Lookup(c) \/ OwnIsAlive(c) \/ DropDead(c) \/ Take(c) \/ SharedIsAlive(c)
  BY <1>3 DEF Lookup, OwnIsAlive, DropDead, Take, SharedIsAlive
<1>4. CASE SpawnRefused(c) \/ SpawnInitialized(c) \/ SpawnTimesOut(c)
           \/ InitializeErrs(c) \/ SpawnGivesUp(c)
  BY <1>4 DEF SpawnRefused, SpawnInitialized, SpawnTimesOut,
       InitializeErrs, SpawnGivesUp
<1>5. ASSUME NEW p \in Procs, SpawnChild(c, p)
      PROVE  SpawnChild(c, job'[c].held) /\ job'[c].held \in Procs
  BY <1>5 DEF SpawnChild
<1>6. CASE PersistOk(c) \/ PersistFails(c) \/ Rollback(c) \/ Register(c) \/ Insert(c)
  BY <1>6 DEF PersistOk, PersistFails, Rollback, Register, Insert
<1>7. CASE ArgsNoop(c) \/ ArgsDiffer(c) \/ ReplaceAll(c) \/ RegisteredAll(c) \/ KillHeld(c)
  BY <1>7 DEF ArgsNoop, ArgsDiffer, ReplaceAll, RegisteredAll, KillHeld
<1>8. ASSUME NEW w \in Workspaces, RegisterNext(c, w)
      PROVE  FALSE
  BY <1>8 DEF RegisterNext
<1>9. CASE (\E w \in Workspaces : KillTake(c, w)) \/ Unregister(c) \/ KillProc(c)
  BY <1>9, KillSteps
<1>10. CASE GitRemoved(c) \/ GitFails(c) \/ RemoveCommit(c) \/ KillAllReturns(c)
  BY <1>10 DEF GitRemoved, GitFails, RemoveCommit, KillAllReturns
<1>11. CASE SyncReplace(c) \/ SyncPrune(c) \/ SyncReturns(c) \/ \E p \in Procs : SyncKill(c, p)
  BY <1>11 DEF SyncReplace, SyncPrune, SyncReturns, SyncKill
<1> QED BY <1>1, <1>2, <1>3, <1>4, <1>5, <1>6, <1>7, <1>8, <1>9, <1>10, <1>11 DEF Step

\* A step is one client's, or the environment's, which leaves the map and the
\* clients alone.
LEMMA NextCases ==
  ASSUME [Next]_vars
  PROVE  \/ \E c \in Clients : Arrive(c) \/ AcquireLock(c) \/ Step(c)
         \/ UNCHANGED <<sessions, registered, pc, job>>
  BY DEF Next, Crash, ForeignWrite, vars, procs

LEMMA ExclusiveStep ==
  ASSUME IInv, AllBorn, \A c \in Clients : ClientKnows(c) /\ Exclusive(c), [Next]_vars
  PROVE  \A c \in Clients : Exclusive(c)'
<1> SUFFICES ASSUME NEW c \in Clients, Starting(c)'
             PROVE  /\ job'[c].held \notin Referenced'
                    /\ \A d \in Clients \ {c} : job'[c].held \notin Handles(d)'
  BY DEF Exclusive
<1> USE DEF IInv, TypeInv
<1>1. CASE Arrive(c) \/ AcquireLock(c) \/ Step(c)
  <2>1. \A d \in Clients \ {c} : Handles(d)' = Handles(d)
    BY <1>1, OthersUnchanged DEF Handles
  <2>2. CASE SpawnChild(c, job'[c].held) /\ job'[c].held \in Procs
    <3>1. process[job'[c].held] = "unborn" /\ UNCHANGED sessions
      BY <2>2 DEF SpawnChild
    <3> QED BY <2>1, <2>2, <3>1 DEF AllBorn, Referenced, Connected
  <2>3. CASE Starting(c) /\ UNCHANGED <<job, sessions>>
    BY <2>1, <2>3 DEF Exclusive, Referenced, Connected
  <2> QED BY <1>1, <2>2, <2>3, StartingStep
<1>2. ASSUME NEW d \in Clients \ {c}, Arrive(d) \/ AcquireLock(d) \/ Step(d)
      PROVE  /\ job'[c].held \notin Referenced'
             /\ \A e \in Clients \ {c} : job'[c].held \notin Handles(e)'
  <2> DEFINE p == job[c].held
  <2>1. pc'[c] = pc[c] /\ job'[c] = job[c] /\ Starting(c)
    BY <1>2, OthersUnchanged DEF Starting
  <2>2. /\ p \in Procs /\ process[p] # "unborn" /\ p \notin Referenced
        /\ \A e \in Clients \ {c} : p \notin Handles(e)
    BY <2>1 DEF Starting, ClientKnows, Exclusive, AllBorn, Handles
  <2>3. pc[c] \in LockedPcs /\ pc'[c] = pc[c]
    BY <2>1 DEF Starting, LockedPcs
  <2>4. ASSUME NEW e \in Clients, Insert(e) \/ ReplaceAll(e)
        PROVE  job[e].held # p
    <3>1. pc[e] \in LockedPcs
      BY <2>4 DEF Insert, ReplaceAll, LockedPcs
    <3>2. e = c
      BY <2>3, <3>1 DEF LockOwned
    <3> QED BY <2>1, <2>4, <3>2 DEF Insert, ReplaceAll, Goto, Return, ReturnUnlocked, TypeOK
  <2>5. p \notin Referenced'
    BY <2>2, <2>4, ReferencedSource
  <2>6. p \notin Handles(d)'
    <3>1. ~SpawnChild(d, p)
      BY <2>2 DEF SpawnChild
    <3> QED BY <1>2, <2>2, <3>1, HandleSource
  <2>7. \A e \in Clients \ {c, d} : Handles(e)' = Handles(e)
    BY <1>2, OthersUnchanged DEF Handles
  <2> QED BY <2>1, <2>2, <2>5, <2>6, <2>7
<1>3. CASE UNCHANGED <<sessions, registered, pc, job>>
  BY <1>3 DEF Exclusive, Starting, Referenced, Connected, Handles
<1> QED BY <1>1, <1>2, <1>3, NextCases

\* All that is known of the clients and the processes, beside IInv.
KInv == /\ IInv
        /\ AllBorn
        /\ \A c \in Clients : ClientKnows(c) /\ Exclusive(c)

LEMMA ClientKnowsStep ==
  ASSUME IInv, \A c \in Clients : ClientKnows(c), [Next]_vars
  PROVE  \A c \in Clients : ClientKnows(c)'
<1> USE DEF IInv, TypeInv
<1> TAKE c \in Clients
<1>0. ASSUME pc'[c] = pc[c], job'[c] = job[c]
      PROVE  ClientKnows(c)' \/ Insert(c) \/ ReplaceAll(c)
  <2>1. CASE Shrinks
    BY <1>0, <2>1, ShrinkKeepsClient
  <2>2. ASSUME NEW d \in Clients \ {c}, Insert(d) \/ ReplaceAll(d)
        PROVE  ClientKnows(c)'
    <3>1. pc[d] \in LockedPcs
      BY <2>2 DEF Insert, ReplaceAll, LockedPcs
    <3>2. pc[c] \notin LockedPcs
      BY <3>1 DEF LockOwned
    <3> QED BY <1>0, <3>2 DEF ClientKnows, LockedPcs
  <2> QED BY <2>1, <2>2, MapStep
<1>1. CASE Arrive(c)
  BY <1>1, ArrivesEmpty DEF ClientKnows
<1>2. CASE AcquireLock(c)
  <2>1. pc[c] = "wantLock" /\ pc'[c] \in {"lookup", "readArgs", "take"} /\ UNCHANGED job
    BY <1>2 DEF AcquireLock, Goto, TypeOK
  <2> QED BY <2>1 DEF ClientKnows
<1>3. CASE Step(c)
  BY <1>3, ClientStep
<1>4. ASSUME NEW d \in Clients \ {c}, Arrive(d) \/ AcquireLock(d) \/ Step(d)
      PROVE  ClientKnows(c)'
  <2>1. pc'[c] = pc[c] /\ job'[c] = job[c]
    BY <1>4, OthersUnchanged
  <2> QED BY <1>0, <1>3, <2>1 DEF Step
<1>5. CASE UNCHANGED <<sessions, registered, pc, job>>
  <2>1. Shrinks
    BY <1>5 DEF Shrinks
  <2> QED BY <1>5, <2>1, ShrinkKeepsClient
<1> QED BY <1>1, <1>2, <1>3, <1>4, <1>5, NextCases

LEMMA KInvInit == Init => KInv
<1> SUFFICES ASSUME Init PROVE KInv
  OBVIOUS
<1>1. Connected = {} /\ Referenced = {}
  BY DEF Init, Connected, Referenced
<1>2. \A c \in Clients : pc[c] = "idle" /\ job[c] = NoJob
  BY DEF Init
<1>3. \A c \in Clients : Procs \cap Handles(c) = {}
  BY <1>2, RegistryAssumption DEF Handles, NoJob
<1>4. \A c \in Clients : ClientKnows(c) /\ Exclusive(c)
  BY <1>1, <1>2 DEF ClientKnows, Exclusive, Starting, NoJob
<1> QED BY <1>1, <1>3, <1>4, IInvInit DEF KInv, AllBorn

LEMMA KInvStep == KInv /\ [Next]_vars => KInv'
  BY IInvStep, AllBornStep, ClientKnowsStep, ExclusiveStep DEF KInv

-----------------------------------------------------------------------------
(* Who answers for a process that the registry does not know *)

\* c will publish p, kill it, or hand it on: p cannot be forgotten while c goes
\* on.  A set-args that moves everybody to p answers for it only until somebody
\* else has found p in the map.
Custodian(c, p) ==
    \/ Starting(c) /\ job[c].held = p
    \/ pc[c] = "registerAll" /\ job[c].old = p
    \/ /\ pc[c] = "registerAll" /\ job[c].held = p
       /\ \A d \in Clients \ {c} : p \notin Handles(d)
    \/ pc[c] = "killHeld" /\ job[c].held = p
    \/ pc[c] \in {"unregister", "killProc"} /\ job[c].held = p /\ ~job[c].shared
    \/ p \in job[c].doomed

\* The three places where a command lets go of a process it answers for.
Abandons(c, p) ==
    /\ job[c].held = p
    /\ \/ PersistFails(c) /\ job[c].op = "addWorktree"
       \/ RegisteredAll(c) /\ job[c].old # p
       \/ SpawnGivesUp(c)

LEMMA CustodianHandles ==
  ASSUME NEW c \in Clients, NEW p \in Procs, Custodian(c, p)
  PROVE  p \in Handles(c)
  BY DEF Custodian, Handles

\* Whatever a client does, a living process that it answers for, or that it takes
\* out of the map, stays answered for by it, unless it abandons the process.
LEMMA CustodianStep ==
  ASSUME KInv, NEW c \in Clients, Step(c), NEW p \in Procs, Alive(p), Alive(p)',
         p \notin Referenced', Custodian(c, p) \/ p \in Referenced
  PROVE  Custodian(c, p)' \/ Abandons(c, p)
<1> USE DEF KInv, IInv, TypeInv, TypeOK, Goto, Set, Return, ReturnUnlocked,
            ClientKnows, Custodian, Starting, Job, NoJob
<1>s. ASSUME UNCHANGED sessions
      PROVE  Custodian(c, p)
  BY <1>s DEF Referenced, Connected
<1>o. \A d \in Clients \ {c} : Handles(d)' = Handles(d)
  BY OthersUnchanged DEF Handles
<1>k. ASSUME NEW q, Kill(q)
      PROVE  q # p
  BY <1>k DEF Kill, Alive
<1>1. CASE Lookup(c) \/ OwnIsAlive(c) \/ SharedIsAlive(c) \/ Take(c)
  <2>1. UNCHANGED sessions /\ pc[c] \in {"lookup", "checkOwn", "take", "checkShared"}
    BY <1>1 DEF Lookup, OwnIsAlive, SharedIsAlive, Take
  <2> QED BY <1>s, <2>1
<1>2. CASE DropDead(c)
  <2>1. pc[c] \in {"checkOwn", "checkShared"} /\ job[c].held # p
    BY <1>2 DEF DropDead
  <2>2. p \in Referenced
    BY <2>1
  <2>3. PICK w \in Workspaces : sessions[w] = p /\ p # NoProc
    BY <2>2 DEF Referenced, Connected
  <2>4. sessions'[w] = p
    BY <1>2, <2>1, <2>3 DEF DropDead, DropReferences
  <2> QED BY <2>3, <2>4 DEF Referenced, Connected
<1>3. CASE SpawnRefused(c) \/ \E q \in Procs : SpawnChild(c, q)
  <2>1. UNCHANGED sessions /\ pc[c] = "spawn"
    BY <1>3 DEF SpawnRefused, SpawnChild
  <2> QED BY <1>s, <2>1
<1>4. CASE SpawnInitialized(c)
  BY <1>s, <1>4 DEF SpawnInitialized, Adding
<1>5. CASE SpawnTimesOut(c) \/ InitializeErrs(c)
  BY <1>s, <1>k, <1>5 DEF SpawnTimesOut, InitializeErrs
<1>23. CASE SpawnGivesUp(c)
  BY <1>s, <1>23 DEF SpawnGivesUp, Abandons
<1>6. CASE PersistOk(c)
  BY <1>s, <1>6 DEF PersistOk
<1>7. CASE PersistFails(c)
  BY <1>s, <1>7 DEF PersistFails, Abandons
<1>8. CASE Rollback(c)
  BY <1>s, <1>8 DEF Rollback
<1>9. CASE Register(c)
  BY <1>s, <1>9 DEF Register
<1>10. CASE Insert(c)
  <2>1. job[c].ws \in Workspaces
    BY <1>10 DEF Insert, HasWorkspace, WorkspaceNamed, LockedPcs
  <2>2. sessions'[job[c].ws] = job[c].held
    BY <1>10, <2>1 DEF Insert
  <2>3. job[c].held # p
    BY <2>1, <2>2, RegistryAssumption DEF Referenced, Connected
  <2>4. p \in Referenced
    BY <1>10, <2>3 DEF Insert
  <2>5. job[c].held = p
    BY <1>10, <2>4 DEF Insert, OwnerKnows, Referenced
  <2> QED BY <2>3, <2>5
<1>11. CASE ArgsNoop(c) \/ ArgsDiffer(c)
  <2>1. UNCHANGED sessions /\ pc[c] = "readArgs"
    BY <1>11 DEF ArgsNoop, ArgsDiffer
  <2> QED BY <1>s, <2>1
<1>12. CASE ReplaceAll(c)
  <2>1. /\ pc[c] = "replace" /\ pc'[c] = "registerAll"
        /\ job'[c].held = job[c].held /\ job'[c].old = job[c].old
    BY <1>12 DEF ReplaceAll
  <2>2. CASE p \in Referenced
    <3>1. job[c].old = p
      BY <2>1, <2>2 DEF Referenced
    <3> QED BY <2>1, <3>1
  <2>3. CASE p \notin Referenced
    <3>1. Starting(c) /\ job[c].held = p
      BY <2>1, <2>3
    <3>2. \A d \in Clients \ {c} : p \notin Handles(d)
      BY <3>1 DEF Exclusive
    <3> QED BY <1>o, <2>1, <3>1, <3>2
  <2> QED BY <2>2, <2>3
<1>13. CASE \E w \in Workspaces : RegisterNext(c, w)
  <2>1. /\ pc[c] = "registerAll" /\ pc'[c] = "registerAll" /\ UNCHANGED sessions
        /\ job'[c].held = job[c].held /\ job'[c].old = job[c].old
        /\ job'[c].doomed = job[c].doomed
    BY <1>13 DEF RegisterNext
  <2> QED BY <1>s, <1>o, <2>1
<1>14. CASE RegisteredAll(c)
  <2>1. /\ pc[c] = "registerAll" /\ pc'[c] = "killHeld" /\ UNCHANGED sessions
        /\ job'[c].held = job[c].old /\ job'[c].doomed = job[c].doomed
    BY <1>14 DEF RegisteredAll
  <2> QED BY <1>s, <1>14, <2>1 DEF Abandons
<1>15. CASE KillHeld(c)
  BY <1>s, <1>k, <1>15 DEF KillHeld
<1>16. ASSUME NEW w \in Workspaces, KillTake(c, w)
       PROVE  Custodian(c, p)'
  <2>1. pc[c] = "kill" /\ sessions' = [sessions EXCEPT ![w] = NoProc]
    BY <1>16 DEF KillTake
  <2>2. p \in Referenced
    BY <2>1
  <2>3. \A v \in Workspaces \ {w} : sessions[v] # p
    BY <2>1, RegistryAssumption DEF Referenced, Connected
  <2>4. w \in Connected /\ sessions[w] = p
    BY <2>2, <2>3 DEF Referenced, Connected
  <2>5. job'[c].held = p /\ ~job'[c].shared
    <3>1. ~\E v \in Connected \ {w} : sessions[v] = sessions[w]
      BY <2>3, <2>4 DEF Connected
    <3>2. /\ job'[c].held = sessions[w]
          /\ job'[c].shared = \E v \in Connected \ {w} : sessions[v] = sessions[w]
      BY <1>16, KillTakes
    <3>3. ~job'[c].shared
      BY <3>1, <3>2, Zenon
    <3> QED BY <2>4, <3>2, <3>3
  <2>6. pc'[c] = "unregister"
    BY <1>16, <2>4 DEF KillTake
  <2> QED BY <2>5, <2>6
<1>17. CASE Unregister(c)
  BY <1>s, <1>17 DEF Unregister
<1>18. CASE KillProc(c)
  BY <1>s, <1>k, <1>18 DEF KillProc
<1>19. CASE GitRemoved(c) \/ GitFails(c) \/ RemoveCommit(c) \/ KillAllReturns(c) \/ SyncReplace(c)
  <2>1. UNCHANGED sessions /\ pc[c] \in {"git", "kill", "syncReplace"}
    BY <1>19 DEF GitRemoved, GitFails, RemoveCommit, KillAllReturns, SyncReplace
  <2> QED BY <1>s, <2>1
<1>20. CASE SyncPrune(c)
  <2>1. /\ pc[c] = "syncPrune"
        /\ job'[c].doomed = {sessions[w] : w \in Connected \ job[c].stored}
        /\ sessions' = [w \in Workspaces |->
                           IF w \in Connected \ job[c].stored THEN NoProc ELSE sessions[w]]
    BY <1>20 DEF SyncPrune
  <2>2. PICK w \in Connected : sessions[w] = p
    BY <2>1 DEF Referenced
  <2>3. w \in Workspaces /\ p # NoProc
    BY <2>2, RegistryAssumption DEF Connected
  <2>4. CASE w \in job[c].stored
    <3>1. sessions'[w] = p
      BY <2>1, <2>2, <2>3, <2>4
    <3> QED BY <2>3, <3>1 DEF Referenced, Connected
  <2>5. CASE w \notin job[c].stored
    BY <2>1, <2>2, <2>5
  <2> QED BY <2>4, <2>5
<1>21. CASE SyncReturns(c)
  BY <1>s, <1>21 DEF SyncReturns
<1>22. ASSUME NEW q \in Procs, SyncKill(c, q)
       PROVE  Custodian(c, p)'
  <2>1. /\ pc[c] = "syncKill" /\ UNCHANGED sessions
        /\ job'[c].doomed = job[c].doomed \ {q}
    BY <1>22 DEF SyncKill
  <2>2. q # p
    BY <1>k, <1>22 DEF SyncKill
  <2> QED BY <1>s, <2>1, <2>2
<1> QED
  BY <1>1, <1>2, <1>3, <1>4, <1>5, <1>6, <1>7, <1>8, <1>9, <1>10, <1>11, <1>12, <1>13, <1>14, <1>15, <1>16, <1>17, <1>18, <1>19, <1>20, <1>21, <1>22, <1>23
     DEF Step

\* Every living process is in the map, or has a custodian, or was abandoned and
\* nobody will ever come across it again.
Custody ==
    \A p \in Procs : Alive(p) /\ p \notin Referenced =>
                        Leaked(p) \/ \E c \in Clients : Custodian(c, p)

\* A living process that is not leaked and leaves or stays out of the map has a
\* custodian after the step, or its custodian has just abandoned it.
LEMMA CustodyPasses ==
  ASSUME KInv, Custody, [Next]_vars, NEW p \in Procs, Alive(p), Alive(p)',
         p \notin Referenced', ~Leaked(p)
  PROVE  \E c \in Clients : \/ Custodian(c, p)'
                            \/ Step(c) /\ Custodian(c, p) /\ Abandons(c, p)
<1> USE DEF KInv, IInv, TypeInv
<1>1. CASE p \in Referenced
  <2>1. PICK c \in Clients : Step(c) /\ ~UNCHANGED sessions
    <3>1. ~UNCHANGED sessions
      BY <1>1 DEF Referenced, Connected
    <3>2. ASSUME NEW c \in Clients, Arrive(c) \/ AcquireLock(c)
          PROVE  UNCHANGED sessions
      BY <3>2 DEF Arrive, StartOnEntry, StartAdd, StartGitUrl, StartClone,
         StartAddWorktree, Mint, StartRemove, StartRemoveWorktree, StartKillAll,
         StartList, AcquireLock
    <3> QED BY <3>1, <3>2, NextCases
  <2>2. ~Abandons(c, p)
    BY <2>1 DEF Abandons, PersistFails, RegisteredAll, SpawnGivesUp
  <2> QED BY <1>1, <2>1, <2>2, CustodianStep
<1>2. CASE p \notin Referenced
  <2>1. PICK d \in Clients : Custodian(d, p)
    BY <1>2 DEF Custody
  <2>2. CASE Arrive(d) \/ AcquireLock(d)
    <3>1. pc[d] \in {"idle", "wantLock"}
      BY <2>2, ArrivesEmpty DEF AcquireLock
    <3> QED BY <2>1, <3>1 DEF Custodian, Starting, ClientKnows
  <2>3. CASE Step(d)
    BY <2>1, <2>3, CustodianStep
  <2>4. ASSUME NEW c \in Clients \ {d}, Arrive(c) \/ AcquireLock(c) \/ Step(c)
        PROVE  Custodian(d, p)'
    <3>1. /\ pc'[d] = pc[d] /\ job'[d] = job[d]
          /\ \A e \in Clients \ {c} : Handles(e)' = Handles(e)
      BY <2>4, OthersUnchanged DEF Handles
    <3>2. ASSUME p \notin Handles(c)
          PROVE  p \notin Handles(c)'
      <4>1. ~SpawnChild(c, p)
        BY DEF SpawnChild, Alive
      <4> QED BY <1>2, <2>4, <3>2, <4>1, HandleSource
    <3> QED BY <2>1, <3>1, <3>2 DEF Custodian, Starting
  <2>5. CASE UNCHANGED <<sessions, registered, pc, job>>
    BY <2>1, <2>5 DEF Custodian, Starting, Handles
  <2> QED BY <2>1, <2>2, <2>3, <2>4, <2>5, NextCases
<1> QED BY <1>1, <1>2

\* Nobody else knows a process that is being abandoned.
LEMMA AbandonedIsLeaked ==
  ASSUME KInv, NEW c \in Clients, Step(c), NEW p \in Procs, Custodian(c, p),
         Abandons(c, p), Alive(p)', p \notin Referenced'
  PROVE  Leaked(p)'
<1> USE DEF KInv, IInv, TypeInv, TypeOK, Job
<1>1. \A d \in Clients \ {c} : Handles(d)' = Handles(d)
  BY OthersUnchanged DEF Handles
<1>2. \A d \in Clients \ {c} : p \notin Handles(d)
  <2>1. CASE PersistFails(c)
    <3>1. Starting(c) /\ job[c].held = p
      BY <2>1 DEF PersistFails, Custodian, ClientKnows
    <3> QED BY <3>1 DEF Exclusive
  <2>2. CASE RegisteredAll(c) /\ job[c].old # p
    <3>1. pc[c] = "registerAll"
      BY <2>2 DEF RegisteredAll
    <3> QED BY <2>2, <3>1 DEF Custodian, Starting, ClientKnows
  <2>3. CASE SpawnGivesUp(c)
    <3>1. Starting(c) /\ job[c].held = p
      BY <2>3 DEF SpawnGivesUp, Custodian, ClientKnows
    <3> QED BY <3>1 DEF Exclusive
  <2> QED BY <2>1, <2>2, <2>3 DEF Abandons
<1>3. p \notin Handles(c)'
  <2>1. CASE (PersistFails(c) /\ job[c].op = "addWorktree") \/ SpawnGivesUp(c)
    <3>1. job'[c] = NoJob
      BY <2>1 DEF PersistFails, SpawnGivesUp, ReturnUnlocked, Return, Set
    <3> QED BY <3>1, RegistryAssumption DEF Handles, NoJob
  <2>2. CASE RegisteredAll(c) /\ job[c].old # p
    <3>1. job'[c].held = job[c].old /\ job'[c].old = job[c].old /\ job'[c].doomed = {}
      BY <2>2 DEF RegisteredAll, Set, ClientKnows
    <3> QED BY <2>2, <3>1 DEF Handles
  <2> QED BY <2>1, <2>2 DEF Abandons
<1> QED BY <1>1, <1>2, <1>3 DEF Leaked

LEMMA CustodyStep ==
  ASSUME KInv, Custody, [Next]_vars
  PROVE  Custody'
<1> SUFFICES ASSUME NEW p \in Procs, Alive(p)', p \notin Referenced', ~Leaked(p)'
             PROVE  \E c \in Clients : Custodian(c, p)'
  BY DEF Custody
<1> USE DEF KInv, IInv, TypeInv
<1>1. CASE ~Alive(p)
  <2>1. PICK c \in Clients : SpawnChild(c, p)
    BY <1>1, ProcessesAge
  <2>2. pc'[c] = "spawning" /\ job'[c].spawned /\ job'[c].held = p
    BY <2>1 DEF SpawnChild, Goto, Set, TypeOK, Job
  <2> QED BY <2>2 DEF Custodian, Starting
<1>2. CASE Alive(p) /\ ~Leaked(p)
  BY <1>2, CustodyPasses, AbandonedIsLeaked
<1>3. CASE Alive(p) /\ Leaked(p)
  <2>1. PICK d \in Clients : p \in Handles(d)'
    BY DEF Leaked
  <2>2. \E c \in Clients : /\ Arrive(c) \/ AcquireLock(c) \/ Step(c)
                           /\ p \in Handles(c)'
    <3>1. p \notin Handles(d)
      BY <1>3 DEF Leaked
    <3>2. ~UNCHANGED job
      BY <2>1, <3>1 DEF Handles
    <3>3. PICK c \in Clients : Arrive(c) \/ AcquireLock(c) \/ Step(c)
      BY <3>2, NextCases
    <3>4. c = d
      BY <2>1, <3>1, <3>3, OthersUnchanged DEF Handles
    <3> QED BY <2>1, <3>3, <3>4
  <2>3. PICK c \in Clients : SpawnChild(c, p)
    BY <1>3, <2>2, HandleSource DEF Leaked
  <2> QED BY <1>3, <2>3 DEF SpawnChild, Alive
<1> QED BY <1>1, <1>2, <1>3

CustodyInv == KInv /\ Custody

LEMMA CustodyInvInit == Init => CustodyInv
  BY KInvInit DEF Init, CustodyInv, Custody, Alive

LEMMA CustodyInvStep == CustodyInv /\ [Next]_vars => CustodyInv'
  BY KInvStep, CustodyStep DEF CustodyInv

\* A codex process is abandoned, alive and known to nobody, in three places only:
\* a worktree add whose workspaces.json cannot be written, a set-args that found
\* nobody left to move to its new process, and a spawn whose initialize ended in
\* an error.  Whatever else the commands do to each other, and when initialize
\* times out, the process is used, held or about to be killed.
THEOREM ProcessesLeakOnlyThere == Spec => LeaksOnlyThere
<1>1. ASSUME CustodyInv, [Next]_vars, NEW p \in Procs, Leaked(p)', ~Leaked(p)
      PROVE  \E c \in Clients :
               \/ pc[c] = "persist" /\ job[c].op = "addWorktree" /\ pc'[c] = "idle"
               \/ pc[c] = "registerAll" /\ job[c].held = p /\ pc'[c] = "killHeld"
               \/ pc[c] = "cutOff" /\ job[c].held = p
  <2> USE DEF CustodyInv, KInv, IInv, TypeInv
  <2>1. /\ Alive(p)' /\ p \notin Referenced'
        /\ \A c \in Clients : p \notin Handles(c)'
    BY <1>1 DEF Leaked
  <2>2. Alive(p)
    <3>1. ASSUME NEW c \in Clients, SpawnChild(c, p)
          PROVE  p \in Handles(c)'
      BY <1>1, <3>1 DEF SpawnChild, Set, TypeOK, Job, Handles
    <3> QED BY <1>1, <2>1, <3>1, ProcessesAge
  <2>3. \A c \in Clients : ~Custodian(c, p)'
    BY <2>1 DEF Custodian, Handles
  <2>4. PICK c \in Clients : Step(c) /\ Custodian(c, p) /\ Abandons(c, p)
    BY <1>1, <2>1, <2>2, <2>3, CustodyPasses
  <2> QED BY <1>1, <2>4 DEF Abandons, PersistFails, RegisteredAll, SpawnGivesUp, ReturnUnlocked,
        Return, Goto, TypeOK
<1>2. CustodyInv /\ [Next]_vars =>
         [\A p \in Procs : Leaked(p)' /\ ~Leaked(p) =>
             \E c \in Clients :
               \/ pc[c] = "persist" /\ job[c].op = "addWorktree" /\ pc'[c] = "idle"
               \/ pc[c] = "registerAll" /\ job[c].held = p /\ pc'[c] = "killHeld"
               \/ pc[c] = "cutOff" /\ job[c].held = p]_vars
  BY <1>1
<1> QED BY <1>2, CustodyInvInit, CustodyInvStep, PTL DEF Spec, LeaksOnlyThere

-----------------------------------------------------------------------------
(* Who hears the broadcasts *)

\* What a step can do to the routing of broadcasts.
LEMMA RoutingStep ==
  ASSUME TypeInv, NEW c \in Clients, Step(c)
  PROVE  \/ Register(c) \/ Unregister(c)
         \/ (\E w \in Workspaces : RegisterNext(c, w))
         \/ (\E p \in Procs : SpawnChild(c, p))
         \/ Insert(c) \/ ReplaceAll(c) \/ RegisteredAll(c)
         \/ UNCHANGED registered /\ pc[c] # "registerAll" /\ pc'[c] # "insert"
<1> USE DEF TypeInv, TypeOK, Goto, Return, ReturnUnlocked, procs
<1>1. CASE Lookup(c) \/ OwnIsAlive(c) \/ DropDead(c) \/ Take(c) \/ SharedIsAlive(c)
  BY <1>1 DEF Lookup, OwnIsAlive, DropDead, Take, SharedIsAlive
<1>2. CASE SpawnRefused(c) \/ SpawnInitialized(c) \/ SpawnTimesOut(c)
           \/ InitializeErrs(c) \/ SpawnGivesUp(c)
  BY <1>2 DEF SpawnRefused, SpawnInitialized, SpawnTimesOut,
       InitializeErrs, SpawnGivesUp
<1>3. CASE PersistOk(c) \/ PersistFails(c) \/ Rollback(c)
  BY <1>3 DEF PersistOk, PersistFails, Rollback
<1>4. CASE ArgsNoop(c) \/ ArgsDiffer(c) \/ KillHeld(c)
  BY <1>4 DEF ArgsNoop, ArgsDiffer, KillHeld
<1>5. CASE (\E w \in Workspaces : KillTake(c, w)) \/ KillProc(c)
  <2>1. UNCHANGED registered
    BY <1>5 DEF KillTake, KillProc
  <2> QED BY <1>5, <2>1, KillSteps
<1>6. CASE GitRemoved(c) \/ GitFails(c) \/ RemoveCommit(c) \/ KillAllReturns(c)
  BY <1>6 DEF GitRemoved, GitFails, RemoveCommit, KillAllReturns
<1>7. CASE SyncReplace(c) \/ SyncPrune(c) \/ SyncReturns(c) \/ \E p \in Procs : SyncKill(c, p)
  BY <1>7 DEF SyncReplace, SyncPrune, SyncReturns, SyncKill
<1> QED BY <1>1, <1>2, <1>3, <1>4, <1>5, <1>6, <1>7 DEF Step

\* w is about to be published under session p, or is already.
Joined(w, p) ==
    \/ sessions[w] = p
    \/ \E c \in Clients : pc[c] = "insert" /\ job[c].ws = w /\ job[c].held = p

\* Every step but a kill's unregistration keeps an audible workspace audible: the
\* session it joins is registered first, and the one everybody moves to is being
\* registered by the client that moves them.
LEMMA HearingStep ==
  ASSUME KInv, NEW c \in Clients, Step(c), NEW w \in Workspaces, ~Deaf(w),
         ~(Unregister(c) /\ job[c].cur = w)
  PROVE  ~Deaf(w)'
<1> USE DEF KInv, IInv, TypeInv, TypeOK
<1> SUFFICES ASSUME NEW p \in Procs, Joined(w, p)', w \notin registered'[p],
                    ~\E d \in Clients : pc'[d] = "registerAll" /\ w \in job'[d].todo
             PROVE  FALSE
  BY DEF Deaf, Joined
<1>d. \/ ~Joined(w, p)
      \/ w \in registered[p]
      \/ \E d \in Clients : pc[d] = "registerAll" /\ w \in job[d].todo
  BY DEF Deaf, Joined
<1>o. \A d \in Clients \ {c} : pc'[d] = pc[d] /\ job'[d] = job[d]
  BY OthersUnchanged
<1>p. p # NoProc
  BY RegistryAssumption
<1>1. CASE Insert(c)
  <2>1. /\ pc[c] = "insert" /\ pc'[c] = "idle" /\ UNCHANGED registered
        /\ sessions' = [sessions EXCEPT ![job[c].ws] = job[c].held]
    BY <1>1 DEF Insert, ReturnUnlocked, Return, Goto, procs
  <2>2. Joined(w, p)
    BY <1>o, <2>1 DEF Joined
  <2> QED BY <1>d, <1>o, <2>1, <2>2
<1>2. CASE ReplaceAll(c)
  <2>1. /\ pc[c] = "replace" /\ pc'[c] = "registerAll"
        /\ job'[c].todo = Connected
        /\ \A v \in Workspaces \ Connected : sessions'[v] = NoProc
    BY <1>2 DEF ReplaceAll, Goto, Set, Job
  <2>2. \A d \in Clients \ {c} : pc'[d] # "insert"
    BY <1>o, <2>1 DEF LockOwned, LockedPcs
  <2>3. w \in Connected
    BY <1>p, <2>1, <2>2 DEF Joined
  <2> QED BY <2>1, <2>3
<1>3. CASE Register(c)
  <2>1. /\ pc[c] = "register" /\ pc'[c] = "insert" /\ UNCHANGED <<sessions, job>>
        /\ job[c].held \in Procs
        /\ registered' = [registered EXCEPT ![job[c].held] = @ \cup {job[c].ws}]
    BY <1>3 DEF Register, Goto, ClientKnows
  <2>2. Joined(w, p)
    BY <1>o, <2>1 DEF Joined
  <2> QED BY <1>d, <1>o, <2>1, <2>2
<1>4. ASSUME NEW v \in Workspaces, RegisterNext(c, v)
      PROVE  FALSE
  <2>1. /\ pc[c] = "registerAll" /\ UNCHANGED <<sessions, pc>>
        /\ job'[c].todo = job[c].todo \ {v} /\ job'[c].held = job[c].held
        /\ job[c].held \in Procs
        /\ registered' = [registered EXCEPT ![job[c].held] = @ \cup {v}]
    BY <1>4 DEF RegisterNext, Set, Job, ClientKnows
  <2>2. \A d \in Clients : pc[d] # "insert"
    BY <2>1 DEF LockOwned, LockedPcs
  <2>3. sessions[w] = p
    BY <2>1, <2>2 DEF Joined
  <2>4. p = job[c].held
    BY <1>p, <2>1, <2>3 DEF ClientKnows, Connected
  <2> QED BY <1>d, <1>o, <2>1, <2>3, <2>4 DEF Joined
<1>5. CASE RegisteredAll(c)
  <2>1. /\ pc[c] = "registerAll" /\ pc'[c] = "killHeld"
        /\ job[c].todo = {} /\ UNCHANGED <<sessions, registered>>
    BY <1>5 DEF RegisteredAll, Goto, procs
  <2>2. Joined(w, p)
    BY <1>o, <2>1 DEF Joined
  <2> QED BY <1>d, <1>o, <2>1, <2>2
<1>6. ASSUME NEW q \in Procs, SpawnChild(c, q)
      PROVE  FALSE
  <2>1. /\ pc[c] = "spawn" /\ pc'[c] = "spawning" /\ UNCHANGED sessions
        /\ process[q] = "unborn"
        /\ registered' = [registered EXCEPT ![q] = {job[c].ws}]
    BY <1>6 DEF SpawnChild, Goto
  <2>2. Joined(w, p)
    BY <1>o, <2>1 DEF Joined
  <2>3. p # q
    BY <1>p, <2>1, <2>2 DEF Joined, AllBorn, Referenced, Connected, Handles
  <2> QED BY <1>d, <1>o, <2>1, <2>2, <2>3
<1>7. CASE Unregister(c)
  <2>1. /\ pc[c] = "unregister" /\ UNCHANGED sessions
        /\ registered' = [registered EXCEPT ![job[c].held] = @ \ {job[c].cur}]
        /\ job[c].cur # w
    BY <1>7 DEF Unregister
  <2>2. pc'[c] # "insert" /\ pc'[c] # "registerAll"
    BY <1>7, KillSteps
  <2>3. Joined(w, p)
    BY <1>o, <2>1, <2>2 DEF Joined
  <2> QED BY <1>d, <1>o, <2>1, <2>3
<1>8. CASE /\ ~Insert(c) /\ ~ReplaceAll(c)
           /\ UNCHANGED registered /\ pc[c] # "registerAll" /\ pc'[c] # "insert"
  <2>1. Shrinks
    BY <1>8, OwnerStep
  <2>2. Joined(w, p)
    BY <1>o, <1>p, <1>8, <2>1 DEF Shrinks, Joined
  <2> QED BY <1>d, <1>o, <1>8, <2>2
<1> QED BY <1>1, <1>2, <1>3, <1>4, <1>5, <1>6, <1>7, <1>8, RoutingStep

\* A connected workspace stops hearing account broadcasts in one way only, a kill
\* of that workspace that unregisters it after it has connected again; connects,
\* adds, argument changes and rollbacks never publish an unregistered session.
THEOREM BroadcastsReachTheConnected == Spec => DeafOnlyByKill
<1>1. ASSUME KInv, [Next]_vars, NEW w \in Workspaces, Deaf(w)', ~Deaf(w)
      PROVE  \E c \in Clients : pc[c] = "unregister" /\ job[c].cur = w
  <2> USE DEF KInv, IInv, TypeInv
  <2>1. ASSUME NEW c \in Clients, Step(c)
        PROVE  pc[c] = "unregister" /\ job[c].cur = w
    BY <1>1, <2>1, HearingStep DEF Unregister
  <2>2. ASSUME NEW c \in Clients, Arrive(c) \/ AcquireLock(c)
        PROVE  FALSE
    <3>1. UNCHANGED <<sessions, registered>>
      BY <2>2 DEF Arrive, StartOnEntry, StartAdd, StartGitUrl, StartClone,
         StartAddWorktree, Mint, StartRemove, StartRemoveWorktree, StartKillAll,
         StartList, AcquireLock, procs
    <3>2. pc[c] \in {"idle", "wantLock"} /\ pc'[c] # "insert"
      <4>1. CASE Arrive(c)
        BY <1>1, <4>1, ArrivesEmpty
      <4>2. CASE AcquireLock(c)
        BY <1>1, <4>2 DEF AcquireLock, Goto, TypeOK
      <4> QED BY <2>2, <4>1, <4>2
    <3>3. \A d \in Clients \ {c} : pc'[d] = pc[d] /\ job'[d] = job[d]
      BY <1>1, <2>2, OthersUnchanged
    <3> QED BY <1>1, <3>1, <3>2, <3>3 DEF Deaf
  <2>3. CASE UNCHANGED <<sessions, registered, pc, job>>
    BY <1>1, <2>3 DEF Deaf
  <2> QED BY <1>1, <2>1, <2>2, <2>3, NextCases
<1>2. KInv /\ [Next]_vars =>
         [\A w \in Workspaces : Deaf(w)' /\ ~Deaf(w) =>
             \E c \in Clients : pc[c] = "unregister" /\ job[c].cur = w]_vars
  BY <1>1
<1> QED BY <1>2, KInvInit, KInvStep, PTL DEF Spec, DeafOnlyByKill

-----------------------------------------------------------------------------
(* The registry implements the one shared server *)

\* The server is the session of any connected workspace.
ServerIsTheirs ==
    /\ Connected = {} => Server = NoProc
    /\ \A w \in Connected : Server = sessions[w] /\ Server \in Procs

LEMMA ServerIs == TypeOK /\ SingleSession => ServerIsTheirs
<1> SUFFICES ASSUME TypeOK, SingleSession PROVE ServerIsTheirs
  OBVIOUS
<1>1. CASE Connected = {}
  BY <1>1 DEF Server, ServerIsTheirs
<1>2. ASSUME NEW w \in Connected
      PROVE  Server = sessions[w] /\ Server \in Procs
  <2>1. sessions[w] \in Procs /\ sessions[w] \in Referenced
    BY DEF TypeOK, Connected, Referenced
  <2>2. \A p \in Referenced : p = sessions[w]
    BY DEF SingleSession, Referenced
  <2>3. Server = CHOOSE p \in Procs : p \in Referenced
    BY DEF Server
  <2> QED BY <2>1, <2>2, <2>3
<1> QED BY <1>1, <1>2 DEF ServerIsTheirs

LEMMA SharedInit == Init => Shared!Init
<1> SUFFICES ASSUME Init PROVE Server = NoProc /\ Connected = {}
  BY DEF Shared!Init
<1>1. Connected = {}
  BY DEF Init, Connected
<1> QED BY <1>1 DEF Server

\* Every step of the registry attaches one workspace, moves everybody, detaches
\* some, or does not show.
LEMMA SharedStep ==
  ASSUME KInv, KInv', [Next]_vars
  PROVE  Shared!Next \/ UNCHANGED <<Server, Connected>>
<1> USE DEF KInv, IInv, TypeInv
<1>a. ServerIsTheirs
  BY ServerIs
<1>b. (TypeOK /\ SingleSession => ServerIsTheirs)'
  BY ServerIs, PTL
<1>c. ServerIsTheirs'
  BY <1>b
<1>1. CASE Shrinks
  <2> DEFINE S == Connected \ Connected'
  <2>1. Connected' = Connected \ S /\ S \in SUBSET Workspaces
    BY <1>1 DEF Shrinks, Connected
  <2>2. Server' = IF Connected' = {} THEN NoProc ELSE Server
    <3>1. CASE Connected' = {}
      BY <3>1 DEF Server
    <3>2. CASE Connected' # {}
      <4>1. PICK w \in Connected' : TRUE
        BY <3>2
      <4>2. w \in Connected /\ sessions'[w] = sessions[w]
        BY <1>1, <4>1 DEF Shrinks, Connected
      <4>3. Server = sessions[w]
        BY <1>a, <4>2 DEF ServerIsTheirs
      <4>4. Server' = sessions'[w]
        BY <1>c, <4>1 DEF ServerIsTheirs
      <4> QED BY <3>2, <4>2, <4>3, <4>4
    <3> QED BY <3>1, <3>2
  <2>3. Shared!Detach(S)
    BY <2>1, <2>2 DEF Shared!Detach
  <2> QED BY <2>1, <2>3 DEF Shared!Next
<1>2. ASSUME NEW c \in Clients, Insert(c)
      PROVE  Shared!Next
  <2>1. job[c].ws \in Workspaces /\ job[c].held \in Procs
    BY <1>2 DEF Insert, HasWorkspace, WorkspaceNamed, LockedPcs, ClientKnows
  <2>2. Connected' = Connected \cup {job[c].ws} /\ sessions'[job[c].ws] = job[c].held
    BY <1>2, <2>1, RegistryAssumption DEF Insert, Connected, TypeOK
  <2>3. Server' = job[c].held
    BY <1>c, <2>2 DEF ServerIsTheirs
  <2>4. Connected = {} \/ Server = job[c].held
    BY <1>a, <1>2 DEF ServerIsTheirs, Insert, OwnerKnows
  <2>5. Shared!Attach(job[c].ws, job[c].held)
    BY <2>2, <2>3, <2>4 DEF Shared!Attach
  <2> QED BY <2>1, <2>5 DEF Shared!Next
<1>3. ASSUME NEW c \in Clients, ReplaceAll(c)
      PROVE  Shared!Next \/ UNCHANGED <<Server, Connected>>
  <2>1. job[c].held \in Procs
    BY <1>3 DEF ReplaceAll, ClientKnows
  <2>2. /\ Connected' = Connected
        /\ \A w \in Connected : sessions'[w] = job[c].held
    BY <1>3, <2>1, RegistryAssumption DEF ReplaceAll, Connected
  <2>3. CASE Connected = {}
    BY <2>2, <2>3 DEF Server
  <2>4. CASE Connected # {}
    <3>1. Server' = job[c].held
      BY <1>c, <2>2, <2>4 DEF ServerIsTheirs
    <3>2. Shared!Swap(job[c].held)
      BY <2>2, <2>4, <3>1 DEF Shared!Swap
    <3> QED BY <2>1, <3>2 DEF Shared!Next
  <2> QED BY <2>3, <2>4
<1> QED BY <1>1, <1>2, <1>3, MapStep

\* The registry of sessions, with its lock, its tasks, its crashes and its kills,
\* implements one shared server: a new one comes up only when nobody is attached,
\* and a change of its arguments moves everybody at once.
THEOREM OneSharedServer == Spec => RefinesSharedServer
<1>1. KInv /\ KInv' /\ [Next]_vars => [Shared!Next]_<<Server, Connected>>
  BY SharedStep
<1> QED BY <1>1, SharedInit, KInvInit, KInvStep, PTL DEF Spec, RefinesSharedServer, Shared!Spec

=============================================================================
