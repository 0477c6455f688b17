----------------------------- MODULE Automations -----------------------------
(***************************************************************************)
(* Scheduled prompts: tasks and runs in automations.json, the commands     *)
(* that read, change and rewrite that file under one lock, the scheduler   *)
(* of the frontend that claims due runs and executes them one after the    *)
(* other, and the panel in which the user edits tasks.                     *)
(*                                                                         *)
(* A command holds the lock from its read to the end of its write.  Nobody *)
(* else can tell its read from the beginning of its write, so a command is *)
(* two steps: it reads, computes and truncates the file; it has written    *)
(* it.  Between them the file is torn, and stays so if the program dies or *)
(* the disk is full.                                                       *)
(*                                                                         *)
(* Sources: src-tauri/src/shared/automations_core.rs and, for the          *)
(* scheduler, features/automations/hooks/useAutomationScheduler.ts.        *)
(***************************************************************************)
EXTENDS Integers, Sequences, FiniteSets, SequencesExt

CONSTANTS
    Tasks,       \* ids of tasks; the panel draws a new one per draft
    Schedules,   \* schedules the user chooses from
    StaleAfter,  \* STALE_RUNNING_RUN_TIMEOUT_MS
    MaxRuns,     \* MAX_RUNS, the runs the file remembers
    MaxTime,     \* bound: the clock stops here
    MaxClaims,   \* bound: runs ever claimed
    MaxEdits,    \* bound: changes the user makes
    MaxBacks,    \* bound: times the system clock is set back
    MaxFaults    \* bound: quits, reloads, teardowns and failed writes

Times == 1 .. MaxTime
NoTime == 0

\* once: a single time; calendar: daily, weekly and monthly, as the set of the
\* times they fall on; interval: a distance.
Schedule == [kind : {"once", "calendar"}, times : (SUBSET Times) \ {{}}, every : {1}]
            \cup [kind : {"interval"}, times : {{}}, every : Nat \ {0}]

ASSUME AutomationAssumption ==
    /\ Schedules \subseteq Schedule
    /\ \A s \in Schedules : s.kind = "once" => Cardinality(s.times) = 1
    /\ {StaleAfter, MaxRuns, MaxTime, MaxClaims, MaxEdits, MaxBacks,
        MaxFaults} \subseteq Nat
    /\ MaxRuns > 0 /\ MaxTime > 0

VARIABLES
    now,      \* the system clock
    file,     \* automations.json: whole, empty, partly written, or being written
    writing,  \* the lock: whoever holds it, and what it is writing
    sched,    \* the loop claimAndRun
    mounted,  \* is the scheduler's effect in place?
    draft,    \* the task in the panel's editor
    saving,   \* has it been handed to automations_upsert_task?
    born,     \* ids of tasks ever drawn
    claimed,  \* runs ever claimed
    sent,     \* claimed runs whose prompt was sent to a thread
    forgot,   \* has the file lost a run, by its limit or by a torn write?
    edits, backs, faults  \* counters of the bounds

scheduler == <<sched, mounted, sent>>
panel == <<draft, saving, born, edits>>
vars == <<now, file, writing, scheduler, panel, claimed, forgot, backs, faults>>

-----------------------------------------------------------------------------
(* Schedules *)

\* compute_next_calendar_run, also of a schedule that runs once.
NextAt(s, after) ==
    LET Later == {t \in s.times : t >= after}
    IN  IF Later = {} THEN NoTime ELSE Min(Later)

\* compute_initial_next_run
Initial(s, t) == IF s.kind = "interval" THEN t + s.every ELSE NextAt(s, t + 1)

\* Mutant: the times that were missed are claimed one by one.
FirstDue(k, t) ==
    LET next == IF k.next # NoTime THEN k.next ELSE Initial(k.schedule, k.updated)
    IN  IF next = NoTime \/ next > t \/ next <= k.last THEN NoTime ELSE next

\* latest_due_at_or_before: times that were missed collapse into the latest.
LatestDue(k, t) ==
    LET s == k.schedule
        next == IF k.next # NoTime THEN k.next ELSE Initial(s, k.updated)
        latest == CASE s.kind = "once" -> Min(s.times)
                    [] s.kind = "calendar" ->
                          Max({next} \cup {u \in s.times : next <= u /\ u <= t})
                    [] s.kind = "interval" ->
                          next + ((t - next) \div s.every) * s.every
    IN  IF next = NoTime \/ next > t \/ latest <= k.last THEN NoTime ELSE latest

\* compute_next_run_after_now
NextAfterNow(k, t) ==
    LET s == k.schedule
        base == IF k.last # NoTime THEN k.last ELSE k.next
        next == base + s.every
    IN  IF s.kind # "interval" THEN NextAt(s, t + 1)
        ELSE IF next > t THEN next
        ELSE next + ((t - next) \div s.every + 1) * s.every

-----------------------------------------------------------------------------
(* The file *)

Nothing == [tasks |-> <<>>, runs |-> <<>>]
Whole(s) == [how |-> "whole", held |-> s]
Torn(h) == [how |-> h, held |-> Nothing]
NoWrite == [by |-> "nobody", what |-> "none", state |-> Nothing, claims |-> <<>>]

Unlocked == writing = NoWrite

\* read_state: an empty file is an empty list, a partial one does not parse.
Readable == file.how # "partial"
Stored == file.held

\* What the file holds, or will hold once it is written.
Content == IF Unlocked THEN Stored ELSE writing.state

Ids(s) == {s.tasks[i].id : i \in DOMAIN s.tasks}
RunIds(s) == {s.runs[i].id : i \in DOMAIN s.runs}

\* write_state begins: the file is truncated.
Write(by, what, s, claims) ==
    /\ writing' = [by |-> by, what |-> what, state |-> s, claims |-> claims]
    /\ file' = Torn("open")

Idle == [at |-> "idle", batch |-> <<>>, canceled |-> FALSE]
Recording == {"sent", "unsent", "caught"}

Edit == edits < MaxEdits /\ edits' = edits + 1
Fault == faults < MaxFaults /\ faults' = faults + 1

-----------------------------------------------------------------------------
Init ==
    /\ now = 1
    /\ file = Whole(Nothing)
    /\ writing = NoWrite
    /\ sched = Idle
    /\ mounted = FALSE
    /\ draft = <<>>
    /\ saving = FALSE
    /\ born = {}
    /\ edits = 0
    /\ claimed = 0
    /\ sent = {}
    /\ forgot = FALSE
    /\ backs = 0
    /\ faults = 0

-----------------------------------------------------------------------------
(* What the scheduler does with the answer to its command *)

\* claimAndRun gets its claims, unless its effect has been taken down.
GotClaims(claims) ==
    sched' = IF claims = <<>> \/ sched.canceled THEN Idle
             ELSE [sched EXCEPT !.at = "running", !.batch = claims]

\* finishRun returns; the loop goes on with the next claim.
Recorded ==
    sched' = [sched EXCEPT !.at = "running", !.batch = Tail(@)]

\* An error that finishRun throws inside the try block is caught, and the run
\* recorded as failed.  A second error leaves claimAndRun, with the rest of
\* the batch.
Refused ==
    sched' = IF sched.at \in {"sent", "unsent"} THEN [sched EXCEPT !.at = "caught"]
                                               ELSE Idle

-----------------------------------------------------------------------------
(* Commands of the panel *)

\* The editor opens on a task of a list, or on a new one.
EditTask ==
    /\ draft = <<>>
    /\ file.how = "whole"
    /\ \E i \in DOMAIN Stored.tasks :
          draft' = <<[id |-> Stored.tasks[i].id, last |-> Stored.tasks[i].last]>>
    /\ UNCHANGED <<now, file, writing, scheduler, saving, born, edits, claimed, forgot, backs, faults>>

NewTask ==
    /\ draft = <<>>
    /\ \E k \in Tasks \ born :
          /\ draft' = <<[id |-> k, last |-> NoTime]>>
          /\ born' = born \cup {k}
    /\ UNCHANGED <<now, file, writing, scheduler, saving, edits, claimed, forgot, backs, faults>>

Save ==
    /\ draft # <<>> /\ ~saving
    /\ Edit
    /\ saving' = TRUE
    /\ UNCHANGED <<now, file, writing, scheduler, draft, born, claimed, forgot, backs, faults>>

\* normalize_task, for a task the file does not have and for one it has (old).
FreshTask(d, on, s) ==
    [id |-> d.id, enabled |-> on, schedule |-> s, updated |-> now,
     last |-> d.last, next |-> Initial(s, now)]

KeepsNext(old, on, s) == old.next # NoTime /\ ~(on /\ (old.schedule # s \/ ~old.enabled))

Normalized(d, on, s, old) ==
    [FreshTask(d, on, s) EXCEPT
       !.last = IF old.last # NoTime THEN old.last ELSE d.last,
       !.next = IF KeepsNext(old, on, s) THEN old.next ELSE Initial(s, now)]

\* The draft takes the place of the task with its id, or the last.
Upserted(tasks, d, on, s) ==
    IF \E i \in DOMAIN tasks : tasks[i].id = d.id
    THEN [i \in DOMAIN tasks |->
            IF tasks[i].id = d.id THEN Normalized(d, on, s, tasks[i]) ELSE tasks[i]]
    ELSE Append(tasks, FreshTask(d, on, s))

\* Mutant: the lock is not taken.
UpsertUnlocked(on, s) ==
    /\ saving
    /\ Readable
    /\ Write("panel", "upsert",
             [Stored EXCEPT !.tasks = Upserted(@, draft[1], on, s)], <<>>)
    /\ UNCHANGED <<now, scheduler, panel, claimed, forgot, backs, faults>>

\* The user has chosen the switch and the schedule.
UpsertTask(on, s) ==
    /\ saving
    /\ Unlocked /\ Readable
    /\ Write("panel", "upsert",
             [Stored EXCEPT !.tasks = Upserted(@, draft[1], on, s)], <<>>)
    /\ UNCHANGED <<now, scheduler, panel, claimed, forgot, backs, faults>>

\* The tasks but the one of this id.
Without(tasks, k) ==
    IF \E i \in DOMAIN tasks : tasks[i].id = k
    THEN RemoveAt(tasks, CHOOSE i \in DOMAIN tasks : tasks[i].id = k)
    ELSE tasks

\* The list shown may still have a task that is gone.  The "editor" is closed
\* afterwards if it was on the task.
DeleteTask(k) ==
    /\ Edit
    /\ k \in born
    /\ Unlocked /\ Readable
    /\ LET by == IF draft # <<>> /\ draft[1].id = k THEN "editor" ELSE "panel"
       IN  Write(by, "delete", [Stored EXCEPT !.tasks = Without(@, k)], <<>>)
    /\ UNCHANGED <<now, scheduler, draft, saving, born, claimed, forgot, backs, faults>>

SetTaskEnabled(k, on) ==
    /\ Edit
    /\ Unlocked /\ Readable
    /\ \E i \in DOMAIN Stored.tasks :
          LET u == Stored.tasks[i]
              next == IF on THEN Initial(u.schedule, now) ELSE u.next
          IN  /\ u.id = k
              /\ Write("panel", "switch",
                       [Stored EXCEPT !.tasks[i] =
                          [u EXCEPT !.enabled = on, !.updated = now, !.next = next]], <<>>)
    /\ UNCHANGED <<now, scheduler, draft, saving, born, claimed, forgot, backs, faults>>

-----------------------------------------------------------------------------
(* The scheduler *)

\* The settings and the workspaces have been loaded.
Mount ==
    /\ ~mounted
    /\ mounted' = TRUE
    /\ UNCHANGED <<now, file, writing, sched, sent, panel, claimed, forgot, backs, faults>>

\* The effect is taken down; a loop under way sees it when it looks next.
Teardown ==
    /\ mounted
    /\ Fault
    /\ mounted' = FALSE
    /\ sched' = [sched EXCEPT !.canceled = sched.at # "idle"]
    /\ UNCHANGED <<now, file, writing, sent, panel, claimed, forgot, backs>>

\* A timer; runningRef keeps a second loop from starting.
Tick ==
    /\ mounted
    /\ sched.at = "idle"
    /\ sched' = [Idle EXCEPT !.at = "claiming"]
    /\ UNCHANGED <<now, file, writing, mounted, sent, panel, claimed, forgot, backs, faults>>

\* Mutant: nobody is declared dead.
ReconcileNone(runs, t) == runs

\* reconcile_stale_running_runs; "stale" is failed, with its error message.
Reconcile(runs, t) ==
    [i \in DOMAIN runs |->
        IF runs[i].status = "running" /\ t - runs[i].started > StaleAfter
        THEN [runs[i] EXCEPT !.status = "stale"] ELSE runs[i]]

\* Mutant: a run under way does not keep its task from being claimed.
DueAnyway(k, runs) == IF ~k.enabled \/ claimed >= MaxClaims THEN NoTime ELSE LatestDue(k, now)

\* The time a task is due for, unless it is disabled or still running.
Due(k, runs) ==
    IF \/ ~k.enabled
       \/ claimed >= MaxClaims
       \/ \E i \in DOMAIN runs : runs[i].task = k.id /\ runs[i].status = "running"
    THEN NoTime ELSE LatestDue(k, now)

\* Mutant: every due time is new.
NeverSeen(k, runs) == FALSE

\* The time has been claimed before, though the task does not know.
Seen(k, runs) ==
    \E i \in DOMAIN runs : runs[i].task = k.id /\ runs[i].for = Due(k, runs)

Claimable(k, runs) == Due(k, runs) # NoTime /\ ~Seen(k, runs)

\* What a claim leaves of a task.
Advanced(k, runs) ==
    LET due == Due(k, runs)
        triggered == IF Claimable(k, runs) THEN [k EXCEPT !.last = due] ELSE k
    IN  IF due = NoTime THEN k
        ELSE [triggered EXCEPT !.next = NextAfterNow(triggered, now)]

\* The claimable tasks, as indices in the order of the file.
InOrder(I) == {f \in [1 .. Cardinality(I) -> I] :
                 \A i, j \in DOMAIN f : i < j => f[i] < f[j]}

\* claim_due_runs_with_reconciliation: what it returns and what it leaves.
NewRuns(tasks, runs, due) ==
    [i \in DOMAIN due |->
        [id |-> claimed + i, task |-> tasks[due[i]].id, status |-> "running",
         for |-> Due(tasks[due[i]], runs), started |-> now]]

AllRuns(claims, runs) == Reverse(claims) \o runs

AfterClaim(tasks, runs, claims) ==
    [tasks |-> [i \in DOMAIN tasks |-> Advanced(tasks[i], runs)],
     runs |-> LET all == AllRuns(claims, runs)
              IN  SubSeq(all, 1, IF Len(all) > MaxRuns THEN MaxRuns ELSE Len(all))]

\* automations_claim_due_core: only a change is written.
Claim ==
    /\ sched.at = "claiming"
    /\ Unlocked /\ Readable
    /\ LET runs == Reconcile(Stored.runs, now)
           tasks == Stored.tasks
       IN  \E due \in InOrder({i \in DOMAIN tasks : Claimable(tasks[i], runs)}) :
              LET claims == NewRuns(tasks, runs, due)
              IN  IF runs # Stored.runs \/ claims # <<>>
                  THEN /\ Write("scheduler", "claim", AfterClaim(tasks, runs, claims), claims)
                       /\ claimed' = claimed + Len(claims)
                       /\ forgot' = (forgot \/ Len(AllRuns(claims, runs)) > MaxRuns)
                       /\ UNCHANGED sched
                  ELSE /\ GotClaims(<<>>)
                       /\ UNCHANGED <<file, writing, claimed, forgot>>
    /\ UNCHANGED <<now, mounted, sent, panel, backs, faults>>

\* executeClaim sends the prompt to a thread; that may also throw.
Send ==
    /\ sched.at = "running"
    /\ sched.batch # <<>> /\ ~sched.canceled
    /\ LET r == Head(sched.batch)
       IN  sent' = sent \cup {[id |-> r.id, task |-> r.task, for |-> r.for]}
    /\ \E l \in {"sent", "caught"} : sched' = [sched EXCEPT !.at = l]
    /\ UNCHANGED <<now, file, writing, mounted, panel, claimed, forgot, backs, faults>>

\* No such workspace, no thread, or a thread that is processing: nothing is
\* sent.  A workspace is missed before the try block, where "caught" is: an
\* error of the one finishRun there is final.
DoNotSend ==
    /\ sched.at = "running"
    /\ sched.batch # <<>> /\ ~sched.canceled
    /\ \E l \in {"unsent", "caught"} : sched' = [sched EXCEPT !.at = l]
    /\ UNCHANGED <<now, file, writing, mounted, sent, panel, claimed, forgot, backs, faults>>

\* The batch is done, or given up because the effect was taken down.
LoopEnds ==
    /\ sched.at = "running"
    /\ sched.batch = <<>> \/ sched.canceled
    /\ sched' = Idle
    /\ UNCHANGED <<now, file, writing, mounted, sent, panel, claimed, forgot, backs, faults>>

\* A blocked prompt failed too.
Verdicts == CASE sched.at = "sent" -> {"completed", "failed"}
              [] sched.at = "unsent" -> {"failed", "skipped"}
              [] OTHER -> {"failed"}

\* record_run_finished, whatever the run's status has become meanwhile.
RecordRunFinished ==
    /\ sched.at \in Recording
    /\ Unlocked /\ Readable
    /\ LET r == Head(sched.batch)
           At == {i \in DOMAIN Stored.runs : Stored.runs[i].id = r.id}
       IN  IF At = {}
           THEN Refused /\ UNCHANGED <<file, writing>>
           ELSE /\ \E i \in At, v \in Verdicts :
                      Write("scheduler", "record",
                            [Stored EXCEPT !.runs[i].status = v], <<>>)
                /\ UNCHANGED sched
    /\ UNCHANGED <<now, mounted, sent, panel, claimed, forgot, backs, faults>>

\* The command of the scheduler, or of the panel, returns an error.
SomebodyRefused ==
    \/ /\ sched.at \in Recording \cup {"claiming"}
       /\ Refused
       /\ UNCHANGED saving
    \/ /\ saving
       /\ saving' = FALSE
       /\ UNCHANGED sched

\* The file does not parse: every command fails.
Unparsable ==
    /\ Unlocked /\ ~Readable
    /\ SomebodyRefused
    /\ UNCHANGED <<now, file, writing, mounted, sent, draft, born, edits, claimed, forgot, backs, faults>>

-----------------------------------------------------------------------------
(* The end of a write *)

\* What is being written is the task that the editor saves.
SavesDraft == writing.by = "panel" /\ writing.what = "upsert"

Written ==
    /\ ~Unlocked
    /\ file' = Whole(writing.state)
    /\ writing' = NoWrite
    /\ CASE writing.what = "claim" /\ writing.by = "scheduler" -> GotClaims(writing.claims)
         [] writing.what = "record" /\ writing.by = "scheduler" -> Recorded
         [] OTHER -> UNCHANGED sched
    /\ draft' = IF \/ SavesDraft
                   \/ writing.by = "editor" /\ ~saving
                THEN <<>> ELSE draft
    /\ saving' = (saving /\ ~SavesDraft)
    /\ UNCHANGED <<now, mounted, sent, born, edits, claimed, forgot, backs, faults>>

\* The disk is full: the file stays as the write left it.
WriteFails ==
    /\ ~Unlocked
    /\ Fault
    /\ writing' = NoWrite
    /\ forgot' = TRUE
    /\ IF writing.by = "scheduler" THEN Refused ELSE UNCHANGED sched
    /\ saving' = (saving /\ ~SavesDraft)
    /\ \E h \in {"empty", "partial"} : file' = Torn(h)
    /\ UNCHANGED <<now, mounted, sent, draft, born, edits, claimed, backs>>

\* The file cannot be opened, for reading or for writing.
OpenFails ==
    /\ Unlocked
    /\ Fault
    /\ SomebodyRefused
    /\ UNCHANGED <<now, file, writing, mounted, sent, draft, born, edits, claimed, forgot, backs>>

-----------------------------------------------------------------------------
(* The environment *)

Advance ==
    /\ now < MaxTime
    /\ now' = now + 1
    /\ UNCHANGED <<file, writing, scheduler, panel, claimed, forgot, backs, faults>>

StepBack ==
    /\ now > 1 /\ backs < MaxBacks
    /\ now' = now - 1
    /\ backs' = backs + 1
    /\ UNCHANGED <<file, writing, scheduler, panel, claimed, forgot, faults>>

\* The webview is loaded anew: what it awaited is lost, not what was begun.
Reload ==
    /\ Fault
    /\ sched' = Idle /\ mounted' = FALSE
    /\ draft' = <<>> /\ saving' = FALSE
    /\ writing' = IF Unlocked THEN writing ELSE [writing EXCEPT !.by = "nobody"]
    /\ UNCHANGED <<now, file, sent, born, edits, claimed, forgot, backs>>

\* The program ends, perhaps in the middle of a write, and starts again.
Quit ==
    /\ Fault
    /\ sched' = Idle /\ mounted' = FALSE
    /\ draft' = <<>> /\ saving' = FALSE
    /\ writing' = NoWrite
    /\ IF Unlocked THEN UNCHANGED <<file, forgot>>
       ELSE /\ \E h \in {"empty", "partial"} : file' = Torn(h)
            /\ forgot' = TRUE
    /\ UNCHANGED <<now, sent, born, edits, claimed, backs>>

-----------------------------------------------------------------------------
Panel ==
    \/ EditTask \/ NewTask \/ Save
    \/ \E on \in BOOLEAN, s \in Schedules : UpsertTask(on, s)
    \/ \E k \in Tasks : DeleteTask(k)
    \/ \E k \in Tasks, on \in BOOLEAN : SetTaskEnabled(k, on)

Loop ==
    \/ Tick \/ Claim \/ Send \/ DoNotSend \/ LoopEnds
    \/ RecordRunFinished \/ Unparsable

Next ==
    \/ Panel
    \/ Loop \/ Mount \/ Teardown
    \/ Written \/ WriteFails \/ OpenFails
    \/ Advance \/ StepBack
    \/ Reload \/ Quit

Spec == Init /\ [][Next]_vars

\* Timers fire and the backend answers; the effect comes back after it was
\* taken down; time goes on.  The user, faults and the clock's steps back are
\* not fair.
FairSpec ==
    /\ Spec
    /\ WF_vars(Loop) /\ WF_vars(Written) /\ WF_vars(Mount) /\ WF_vars(Advance)

-----------------------------------------------------------------------------
(* Properties *)

\* A prompt is never sent twice for one due time of a task, though the app quits
\* or reloads in the middle, the clock is set back, and a task is deleted and
\* saved again from an editor that does not know it has run.  Only a file that
\* lost its memory of the run can let that happen.
SentOnce ==
    ~forgot => \A x, y \in sent : x.task = y.task /\ x.for = y.for => x.id = y.id

\* At most one run of a task is under way in the file: a claim looks at what it
\* read under the lock, reconciles first, and is the only one to add runs.
OneRunPerTask ==
    \A i, j \in DOMAIN Content.runs :
        LET a == Content.runs[i]
            b == Content.runs[j]
        IN  a.task = b.task /\ a.status = "running" /\ b.status = "running" => i = j

\* No command undoes what another one saved: a task leaves the file only when
\* the user deletes it, the last time it ran never goes back, and a run leaves
\* only when the list of runs is full.  Only a write that is cut short, or a file
\* that was, forgets more.
UndoesNothing ==
    \/ writing' = NoWrite /\ file'.how # "whole"
    \/ /\ writing'.what = "delete" \/ Ids(Content) \subseteq Ids(Content')
       /\ \A i \in DOMAIN Content.tasks, j \in DOMAIN Content'.tasks :
             Content.tasks[i].id = Content'.tasks[j].id =>
                Content.tasks[i].last <= Content'.tasks[j].last
       /\ RunIds(Content) \subseteq RunIds(Content') \/ Len(Content'.runs) = MaxRuns
NothingIsUndone == [][UndoesNothing]_vars

\* What is claimed is the latest time the schedule falls on that is not in the
\* future: missed times collapse into one run, and none is invented.
ClaimedIsLatest ==
    writing'.what = "claim" /\ Unlocked =>
       \A i \in DOMAIN writing'.claims, j \in DOMAIN Stored.tasks :
          LET r == writing'.claims[i]
              s == Stored.tasks[j].schedule
          IN  r.task = Stored.tasks[j].id =>
                 /\ r.for <= now /\ r.for > Stored.tasks[j].last
                 /\ IF s.kind = "interval" THEN now < r.for + s.every
                    ELSE r.for \in s.times /\ ~\E u \in s.times : r.for < u /\ u <= now
ClaimsLatestDue == [][ClaimedIsLatest]_vars

\* A run that nobody executes any more, because the app quit or reloaded, the
\* scheduler was taken down or an earlier run of the batch could not be
\* recorded, does not block its task for ever: again and again no run whose
\* timeout passes before the end of time counts as running.  Only a file that
\* does not parse stops the scheduler for good.
Overdue(run) == run.status = "running" /\ run.started + StaleAfter < MaxTime
OrphansEnd ==
    []<>(~Readable \/ ~\E i \in DOMAIN Content.runs : Overdue(Content.runs[i]))
=============================================================================
