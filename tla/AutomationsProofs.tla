------------------------- MODULE AutomationsProofs -------------------------
(***************************************************************************)
(* Proofs about scheduled prompts.                                         *)
(*                                                                         *)
(* The invariant IInv speaks of Content, what automations.json holds or    *)
(* will hold when the write under way ends: there a task has one entry, a  *)
(* time has one run, and one run of a task at most is under way; and each  *)
(* run that the loop has in hand, that a command is about to return or     *)
(* that was sent to a thread is still there, unless the file has forgotten *)
(* a run.  Each command is first looked at as a function on the state of   *)
(* the file (the lemmas on what it keeps), then as a step.                 *)
(***************************************************************************)
EXTENDS Automations, TLAPS, FiniteSetTheorems, WellFoundedInduction

\* What the variables hold.
Statuses == {"running", "stale", "completed", "failed", "skipped"}
TaskRecord == [id : Tasks, enabled : BOOLEAN, schedule : Schedules,
               updated : Nat, last : Nat, next : Nat]
RunRecord == [id : Nat, task : Tasks, status : Statuses, for : Nat, started : Nat]
FileState == [tasks : Seq(TaskRecord), runs : Seq(RunRecord)]

\* A write is of a command; nobody has the lock when there is none.
FileTypes ==
    /\ file \in [how : {"whole", "open", "empty", "partial"}, held : FileState]
    /\ writing \in [by : {"nobody", "panel", "editor", "scheduler"},
                    what : {"none", "upsert", "delete", "switch", "claim", "record"},
                    state : FileState, claims : Seq(RunRecord)]
    /\ writing.what = "none" => Unlocked

\* The loop that records a run, or waits for a record to be written, has the run
\* in hand.
LoopTypes ==
    /\ sched \in [at : {"idle", "claiming", "running"} \cup Recording,
                  batch : Seq(RunRecord), canceled : BOOLEAN]
    /\ sched.at \in Recording => sched.batch # <<>>
    /\ writing.by = "scheduler" /\ writing.what = "record" => sched.at \in Recording
    /\ sent \subseteq [id : Nat, task : Tasks, for : Nat]

PanelTypes ==
    /\ draft \in Seq([id : Tasks, last : Nat])
    /\ saving \in BOOLEAN /\ (saving => draft # <<>>)

TypeOK ==
    /\ FileTypes /\ LoopTypes /\ PanelTypes
    /\ now \in Nat /\ claimed \in Nat /\ forgot \in BOOLEAN

\* The next time of a task is one of its schedule's, so that a claim does not
\* invent one.
NextFits(k) ==
    k.enabled /\ k.next # NoTime /\ k.schedule.kind # "interval" => k.next \in k.schedule.times

\* One entry per task, one run per task under way, one run per due time.
OneEntryPerTask(s) == \A i, j \in DOMAIN s.tasks : s.tasks[i].id = s.tasks[j].id => i = j
TasksFit(s) == \A i \in DOMAIN s.tasks : NextFits(s.tasks[i])
OneRunning(s) == \A i, j \in DOMAIN s.runs :
    s.runs[i].task = s.runs[j].task /\ s.runs[i].status = "running"
        /\ s.runs[j].status = "running" => i = j
OneRunPerTime(s) == \A i, j \in DOMAIN s.runs :
    s.runs[i].task = s.runs[j].task /\ s.runs[i].for = s.runs[j].for => i = j
Sound(s) == OneEntryPerTask(s) /\ TasksFit(s) /\ OneRunning(s) /\ OneRunPerTime(s)

\* The file has this run, whatever has become of it.
Holds(s, r) == \E i \in DOMAIN s.runs :
    s.runs[i].id = r.id /\ s.runs[i].task = r.task /\ s.runs[i].for = r.for

\* The runs somebody has in hand: the loop, the command that claims them, and
\* the threads their prompts were sent to.
Key(r) == [id |-> r.id, task |-> r.task, for |-> r.for]
Keys(q) == {Key(q[i]) : i \in DOMAIN q}
Known == Keys(sched.batch) \cup Keys(writing.claims) \cup sent

\* The file has every run that somebody has in hand.
Remembered == ~forgot => \A r \in Known : Holds(Content, r)

IInv == TypeOK /\ Sound(Content) /\ Remembered

-----------------------------------------------------------------------------
(* Arithmetic *)

\* A nonempty set of numbers has a least element.
LEMMA MinIsLeast ==
  ASSUME NEW S, S \subseteq Nat, S # {}
  PROVE  Min(S) \in S /\ \A y \in S : Min(S) <= y
<1> DEFINE R == {ss \in Nat \X Nat : ss[1] < ss[2]}
<1>1. IsWellFoundedOn(R, Nat)
  BY NatLessThanWellFounded DEF OpToRel
<1>2. \A x, y \in Nat : y < x => <<y, x>> \in R
  OBVIOUS
<1> HIDE DEF R
<1>3. PICK x \in S : \A y \in S : <<y, x>> \notin R
  BY <1>1, WFMin
<1>4. ASSUME NEW y \in S PROVE x <= y
  <2>1. x \in Nat /\ y \in Nat
    OBVIOUS
  <2>2. ~(y < x)
    BY <1>2, <1>3, <2>1
  <2> QED BY <2>1, <2>2
<1> QED BY <1>4 DEF Min

\* A nonempty set of numbers with a bound has a greatest one.
LEMMA MaxIsGreatest ==
  ASSUME NEW S, NEW n \in Nat, S \subseteq 0 .. n, S # {}
  PROVE  Max(S) \in S /\ \A y \in S : y <= Max(S)
<1> DEFINE B == {b \in Nat : \A y \in S : y <= b}
<1>1. n \in B
  BY DEF B
<1>2. Min(B) \in B /\ \A b \in B : Min(B) <= b
  BY <1>1, MinIsLeast DEF B
<1> DEFINE m == Min(B)
<1>3. m \in Nat /\ \A y \in S : y <= m
  BY <1>2
<1>4. m \in S
  <2> SUFFICES ASSUME m \notin S PROVE FALSE
    OBVIOUS
  <2>1. \A y \in S : y \in Nat /\ y <= m - 1
    BY <1>3
  <2> PICK y \in S : TRUE
    OBVIOUS
  <2>2. m - 1 \in Nat
    <3>1. y \in Nat /\ y <= m - 1
      BY <2>1
    <3> QED BY <1>3, <3>1
  <2>3. m - 1 \in B
    BY <2>1, <2>2
  <2>4. m <= m - 1
    BY <1>2, <2>3
  <2> QED BY <2>4, <1>3
<1> HIDE DEF m
<1>5. m \in S /\ \A y \in S : m >= y
  BY <1>3, <1>4
<1>6. \E x \in S : \A y \in S : x >= y
  BY <1>5
<1>7. Max(S) \in S /\ \A y \in S : Max(S) >= y
  BY <1>6 DEF Max
<1> QED BY <1>7

\* The greatest multiple of b up to a.
LEMMA Division ==
  ASSUME NEW a \in Nat, NEW b \in Nat \ {0}
  PROVE  /\ (a \div b) \in Nat
         /\ (a \div b) * b <= a
         /\ a < (a \div b) * b + b
  OBVIOUS

-----------------------------------------------------------------------------
(* Schedules *)

\* A function on an interval from one is a sequence.
LEMMA SequenceOf ==
  ASSUME NEW S, NEW n \in Nat, NEW f, f = [i \in 1 .. n |-> f[i]], \A i \in 1 .. n : f[i] \in S
  PROVE  f \in Seq(S) /\ Len(f) = n /\ DOMAIN f = 1 .. n
  OBVIOUS

\* What is assumed of the schedules the user chooses from.
LEMMA ScheduleFacts ==
  ASSUME NEW s \in Schedules
  PROVE  /\ s.kind \in {"once", "calendar", "interval"}
         /\ s.every \in Nat \ {0}
         /\ s.times \subseteq Nat /\ s.times \subseteq 0 .. MaxTime
         /\ 0 \notin s.times
         /\ s.kind # "interval" => s.times # {}
         /\ s.kind = "once" => \E x : s.times = {x}
<1>1. s \in Schedule /\ MaxTime \in Nat
  BY AutomationAssumption DEF AutomationAssumption
<1>2. /\ s.kind \in {"once", "calendar", "interval"}
      /\ s.every \in Nat \ {0}
      /\ s.times \subseteq Times
      /\ s.kind # "interval" => s.times # {}
  <2>1. CASE s \in [kind : {"once", "calendar"}, times : (SUBSET Times) \ {{}}, every : {1}]
    BY <2>1
  <2>2. CASE s \in [kind : {"interval"}, times : {{}}, every : Nat \ {0}]
    BY <2>2
  <2> QED BY <1>1, <2>1, <2>2 DEF Schedule
<1>3. ASSUME s.kind = "once" PROVE \E x : s.times = {x}
  <2>1. IsFiniteSet(s.times)
    <3>1. IsFiniteSet(1 .. MaxTime)
      BY <1>1, FS_Interval
    <3>2. s.times \in SUBSET (1 .. MaxTime)
      BY <1>2 DEF Times
    <3> QED BY <3>1, <3>2, FS_Subset
  <2>2. Cardinality(s.times) = 1
    BY <1>3, AutomationAssumption DEF AutomationAssumption
  <2> QED BY <2>1, <2>2, FS_Singleton
<1> QED BY <1>1, <1>2, <1>3 DEF Times

\* The next time of a schedule that falls on times is one of them.
LEMMA NextAtFacts ==
  ASSUME NEW s \in Schedules, NEW t \in Nat
  PROVE  NextAt(s, t) \in Nat /\ (NextAt(s, t) # NoTime => NextAt(s, t) \in s.times)
<1> DEFINE Later == {u \in s.times : u >= t}
<1>1. s.times \subseteq Nat
  BY ScheduleFacts
<1>2. Later # {} => Min(Later) \in Later
  BY <1>1, MinIsLeast
<1>3. NextAt(s, t) = IF Later = {} THEN NoTime ELSE Min(Later)
  BY DEF NextAt
<1> QED BY <1>1, <1>2, <1>3 DEF NoTime

LEMMA InitialFacts ==
  ASSUME NEW s \in Schedules, NEW t \in Nat
  PROVE  /\ Initial(s, t) \in Nat
         /\ s.kind # "interval" /\ Initial(s, t) # NoTime => Initial(s, t) \in s.times
<1>1. t + 1 \in Nat /\ s.every \in Nat
  BY ScheduleFacts
<1>2. t + s.every \in Nat
  BY <1>1
<1>3. CASE s.kind = "interval"
  BY <1>2, <1>3 DEF Initial
<1>4. CASE s.kind # "interval"
  BY <1>1, <1>4, NextAtFacts DEF Initial
<1> QED BY <1>3, <1>4

\* The time the scheduler expects a task to run at next.
Expected(k) == IF k.next # NoTime THEN k.next ELSE Initial(k.schedule, k.updated)

LEMMA ExpectedFacts ==
  ASSUME NEW k \in TaskRecord, NextFits(k), k.enabled
  PROVE  /\ Expected(k) \in Nat
         /\ k.schedule.kind # "interval" /\ Expected(k) # NoTime =>
              Expected(k) \in k.schedule.times
<1>1. k.next \in Nat /\ k.updated \in Nat /\ k.schedule \in Schedules
  BY DEF TaskRecord
<1> QED BY <1>1, InitialFacts DEF Expected, NextFits

\* The latest time a schedule falls on, from an expected time that has passed.
Latest(s, next, t) ==
  CASE s.kind = "once" -> Min(s.times)
    [] s.kind = "calendar" -> Max({next} \cup {u \in s.times : next <= u /\ u <= t})
    [] s.kind = "interval" -> next + ((t - next) \div s.every) * s.every

LEMMA LatestFacts ==
  ASSUME NEW s \in Schedules, NEW t \in Nat, NEW next \in Nat, next <= t,
         s.kind # "interval" => next \in s.times
  PROVE  /\ Latest(s, next, t) \in Nat
         /\ Latest(s, next, t) <= t
         /\ IF s.kind = "interval" THEN t < Latest(s, next, t) + s.every
            ELSE /\ Latest(s, next, t) \in s.times
                 /\ ~\E u \in s.times : Latest(s, next, t) < u /\ u <= t
<1>1. CASE s.kind = "once"
  <2>1. PICK x : s.times = {x}
    BY <1>1, ScheduleFacts
  <2>2. s.times \subseteq Nat
    BY ScheduleFacts
  <2>3. Min(s.times) \in s.times
    BY <2>1, <2>2, MinIsLeast
  <2>4. x = next
    BY <1>1, <2>1
  <2>5. Min(s.times) = next
    BY <2>1, <2>3, <2>4
  <2>6. Latest(s, next, t) = next
    BY <1>1, <2>5 DEF Latest
  <2>7. \A u \in s.times : u = next
    BY <2>1, <2>4
  <2> QED BY <1>1, <2>6, <2>7
<1>2. CASE s.kind = "calendar"
  <2> DEFINE S == {next} \cup {u \in s.times : next <= u /\ u <= t}
  <2>1. s.times \subseteq Nat
    BY ScheduleFacts
  <2>2. S \subseteq 0 .. t
    BY <2>1
  <2>3. Max(S) \in S /\ \A y \in S : y <= Max(S)
    BY <2>2, MaxIsGreatest
  <2>4. Latest(s, next, t) = Max(S)
    BY <1>2 DEF Latest
  <2>5. Max(S) \in s.times /\ Max(S) \in Nat /\ Max(S) <= t /\ next <= Max(S)
    BY <1>2, <2>1, <2>2, <2>3
  <2>6. ASSUME NEW u \in s.times, Max(S) < u, u <= t PROVE FALSE
    <3>1. u \in Nat /\ next <= u
      BY <2>1, <2>5, <2>6
    <3>2. u \in S
      BY <2>6, <3>1
    <3> QED BY <2>3, <2>5, <2>6, <3>1, <3>2
  <2> HIDE DEF S
  <2> QED BY <1>2, <2>4, <2>5, <2>6
<1>3. CASE s.kind = "interval"
  <2>1. t - next \in Nat /\ s.every \in Nat \ {0}
    BY ScheduleFacts
  <2> DEFINE q == ((t - next) \div s.every) * s.every
  <2>2. q <= t - next /\ t - next < q + s.every /\ q \in Nat
    BY <2>1, Division
  <2>3. Latest(s, next, t) = next + q
    BY <1>3 DEF Latest
  <2> HIDE DEF q
  <2> QED BY <1>3, <2>1, <2>2, <2>3
<1> QED BY <1>1, <1>2, <1>3, ScheduleFacts

\* What is due is the latest time that has come, and later than the last run.
LEMMA LatestDueFacts ==
  ASSUME NEW k \in TaskRecord, NEW t \in Nat, NextFits(k), k.enabled
  PROVE  /\ LatestDue(k, t) \in Nat
         /\ LatestDue(k, t) # NoTime =>
              /\ LatestDue(k, t) <= t /\ k.last < LatestDue(k, t)
              /\ IF k.schedule.kind = "interval"
                 THEN t < LatestDue(k, t) + k.schedule.every
                 ELSE /\ LatestDue(k, t) \in k.schedule.times
                      /\ ~\E u \in k.schedule.times : LatestDue(k, t) < u /\ u <= t
<1> DEFINE s == k.schedule
           next == Expected(k)
           late == Latest(s, next, t)
<1>1. s \in Schedules /\ k.last \in Nat
  BY DEF TaskRecord
<1>2. LatestDue(k, t) = IF next = NoTime \/ next > t \/ late <= k.last THEN NoTime ELSE late
  BY DEF LatestDue, Expected, Latest
<1>3. next \in Nat /\ (s.kind # "interval" /\ next # NoTime => next \in s.times)
  BY ExpectedFacts
<1> HIDE DEF s, next, late
<1>4. CASE next = NoTime \/ next > t \/ late <= k.last
  BY <1>2, <1>4 DEF NoTime
<1>5. CASE ~(next = NoTime \/ next > t \/ late <= k.last)
  <2>1. next <= t
    BY <1>3, <1>5
  <2>2. /\ late \in Nat /\ late <= t
        /\ IF s.kind = "interval" THEN t < late + s.every
           ELSE late \in s.times /\ ~\E u \in s.times : late < u /\ u <= t
    BY <1>1, <1>3, <1>5, <2>1, LatestFacts DEF late
  <2>3. k.last < late
    BY <1>1, <1>5, <2>2
  <2>4. LatestDue(k, t) = late
    BY <1>2, <1>5
  <2> QED BY <2>2, <2>3, <2>4 DEF s
<1> QED BY <1>4, <1>5

\* The next run after one that was claimed is one of the schedule.
LEMMA NextAfterNowFacts ==
  ASSUME NEW k \in TaskRecord, NEW t \in Nat
  PROVE  /\ NextAfterNow(k, t) \in Nat
         /\ k.schedule.kind # "interval" /\ NextAfterNow(k, t) # NoTime =>
              NextAfterNow(k, t) \in k.schedule.times
<1> DEFINE s == k.schedule
           base == IF k.last # NoTime THEN k.last ELSE k.next
           next == base + s.every
<1>1. s \in Schedules /\ base \in Nat
  BY DEF TaskRecord
<1>2. s.every \in Nat \ {0} /\ next \in Nat /\ t + 1 \in Nat
  BY <1>1, ScheduleFacts
<1>3. CASE s.kind # "interval"
  <2>1. NextAfterNow(k, t) = NextAt(s, t + 1)
    BY <1>3 DEF NextAfterNow
  <2> QED BY <1>1, <1>2, <2>1, NextAtFacts
<1>4. CASE s.kind = "interval" /\ next > t
  BY <1>2, <1>4 DEF NextAfterNow
<1>5. CASE s.kind = "interval" /\ ~(next > t)
  <2>1. t - next \in Nat
    BY <1>2, <1>5
  <2>2. ((t - next) \div s.every) \in Nat
    BY <1>2, <2>1, Division
  <2>3. next + ((t - next) \div s.every + 1) * s.every \in Nat
    BY <1>2, <2>2
  <2> QED BY <1>5, <2>3 DEF NextAfterNow
<1> QED BY <1>3, <1>4, <1>5

-----------------------------------------------------------------------------
(* What the commands leave of the file *)

\* Of the tasks: none is lost, and the last time one ran does not go back.
LastsKept(s, n) == \A i \in DOMAIN s.tasks, j \in DOMAIN n.tasks :
    s.tasks[i].id = n.tasks[j].id => s.tasks[i].last <= n.tasks[j].last

\* Of the runs: each is still there, whatever has become of it.
RunsKept(s, n) == \A i \in DOMAIN s.runs : Holds(n, s.runs[i])

\* The tasks are sound, and so are the runs.
TasksSound(s) == OneEntryPerTask(s) /\ TasksFit(s)
RunsSound(s) == OneRunning(s) /\ OneRunPerTime(s)

LEMMA TaskTypes ==
  ASSUME NEW s \in FileState, NEW i \in DOMAIN s.tasks
  PROVE  /\ s.tasks[i] \in TaskRecord
         /\ s.tasks[i].id \in Tasks /\ s.tasks[i].last \in Nat
         /\ s.tasks[i].schedule \in Schedules /\ s.tasks[i].next \in Nat
         /\ s.tasks[i].enabled \in BOOLEAN
<1>1. s.tasks \in Seq(TaskRecord)
  BY DEF FileState
<1>2. s.tasks[i] \in TaskRecord
  BY <1>1
<1> QED BY <1>2 DEF TaskRecord

LEMMA NothingSound == Nothing \in FileState /\ Sound(Nothing)
<1>1. Nothing.tasks = <<>> /\ Nothing.runs = <<>> /\ Nothing \in FileState
  BY DEF Nothing, FileState
<1>2. DOMAIN Nothing.tasks = {} /\ DOMAIN Nothing.runs = {}
  BY <1>1
<1> QED BY <1>1, <1>2 DEF Sound, OneEntryPerTask, TasksFit, OneRunning, OneRunPerTime

\* A command of the panel leaves the runs.
LEMMA SameRuns ==
  ASSUME NEW s \in FileState, NEW n, n.runs = s.runs, RunsSound(s)
  PROVE  RunsSound(n) /\ RunsKept(s, n)
  BY DEF RunsSound, OneRunning, OneRunPerTime, RunsKept, Holds

LEMMA DraftTypes ==
  ASSUME TypeOK, saving
  PROVE  draft[1] \in [id : Tasks, last : Nat]
<1> DEFINE D == [id : Tasks, last : Nat]
<1>1. draft \in Seq(D) /\ draft # <<>>
  BY DEF TypeOK, PanelTypes
<1> HIDE DEF D
<1>2. draft[1] \in D
  BY <1>1
<1> QED BY <1>2 DEF D

\* A task that is saved fits its schedule, new or old.
LEMMA SavedTask ==
  ASSUME now \in Nat, NEW d \in [id : Tasks, last : Nat], NEW on \in BOOLEAN, NEW c \in Schedules
  PROVE  /\ FreshTask(d, on, c) \in TaskRecord /\ NextFits(FreshTask(d, on, c))
         /\ FreshTask(d, on, c).id = d.id
         /\ \A old \in TaskRecord : NextFits(old) =>
              /\ Normalized(d, on, c, old) \in TaskRecord
              /\ NextFits(Normalized(d, on, c, old))
              /\ Normalized(d, on, c, old).id = d.id
              /\ old.last <= Normalized(d, on, c, old).last
<1> DEFINE f == FreshTask(d, on, c)
<1>1. /\ Initial(c, now) \in Nat
      /\ c.kind # "interval" /\ Initial(c, now) # NoTime => Initial(c, now) \in c.times
  BY InitialFacts
<1>2. /\ f \in TaskRecord /\ f.id = d.id /\ f.enabled = on /\ f.schedule = c
      /\ f.next = Initial(c, now) /\ f.last = d.last
  BY <1>1 DEF FreshTask, TaskRecord
<1>3. NextFits(f)
  BY <1>1, <1>2 DEF NextFits
<1>4. ASSUME NEW old \in TaskRecord, NextFits(old)
      PROVE  /\ Normalized(d, on, c, old) \in TaskRecord
             /\ NextFits(Normalized(d, on, c, old))
             /\ Normalized(d, on, c, old).id = d.id
             /\ old.last <= Normalized(d, on, c, old).last
  <2> DEFINE k == Normalized(d, on, c, old)
             next == IF KeepsNext(old, on, c) THEN old.next ELSE Initial(c, now)
             last == IF old.last # NoTime THEN old.last ELSE d.last
  <2>1. old.next \in Nat /\ old.last \in Nat /\ d.last \in Nat /\ old.enabled \in BOOLEAN
    BY DEF TaskRecord
  <2>2. next \in Nat /\ last \in Nat /\ old.last <= last
    BY <1>1, <2>1 DEF NoTime
  <2>3. k = [f EXCEPT !.last = last, !.next = next]
    BY DEF Normalized
  <2> HIDE DEF f, k, next, last
  <2>4. /\ k \in TaskRecord /\ k.id = d.id /\ k.enabled = on /\ k.schedule = c
        /\ k.next = next /\ k.last = last
    BY <1>2, <2>2, <2>3 DEF TaskRecord
  <2>5. ASSUME on, next # NoTime, c.kind # "interval" PROVE next \in c.times
    <3>1. CASE KeepsNext(old, on, c)
      <4>1. old.schedule = c /\ old.enabled /\ next = old.next
        BY <2>5, <3>1, Zenon DEF KeepsNext, next
      <4>2. old.next # NoTime /\ old.schedule.kind # "interval"
        BY <2>5, <4>1
      <4>3. old.next \in old.schedule.times
        BY <1>4, <4>1, <4>2 DEF NextFits
      <4> QED BY <4>1, <4>3
    <3>2. CASE ~KeepsNext(old, on, c)
      BY <1>1, <2>5, <3>2 DEF next
    <3> QED BY <3>1, <3>2
  <2>6. NextFits(k)
    BY <2>4, <2>5 DEF NextFits
  <2> QED BY <2>2, <2>4, <2>6 DEF k
<1> QED BY <1>2, <1>3, <1>4

LEMMA UpsertKeeps ==
  ASSUME now \in Nat, NEW s \in FileState, Sound(s),
         NEW d \in [id : Tasks, last : Nat], NEW on \in BOOLEAN, NEW c \in Schedules,
         NEW n, n = [s EXCEPT !.tasks = Upserted(s.tasks, d, on, c)]
  PROVE  n \in FileState /\ Sound(n) /\ LastsKept(s, n) /\ Ids(s) \subseteq Ids(n) /\ RunsKept(s, n)
<1> DEFINE t == s.tasks
           u == Upserted(s.tasks, d, on, c)
<1>1. s.runs \in Seq(RunRecord) /\ t \in Seq(TaskRecord) /\ n.tasks = u /\ n.runs = s.runs
  BY DEF FileState
<1>2. OneEntryPerTask(s) /\ TasksFit(s) /\ RunsSound(s)
  BY DEF Sound, RunsSound
<1>3. RunsSound(n) /\ RunsKept(s, n)
  BY <1>1, <1>2, SameRuns
<1>4. CASE \E i \in DOMAIN t : t[i].id = d.id
  <2> DEFINE N(i) == Normalized(d, on, c, t[i])
  <2>1. u = [i \in DOMAIN t |-> IF t[i].id = d.id THEN N(i) ELSE t[i]]
    BY <1>4 DEF Upserted
  <2>2. \A i \in DOMAIN t : /\ t[i] \in TaskRecord /\ NextFits(t[i])
                            /\ N(i) \in TaskRecord /\ NextFits(N(i)) /\ N(i).id = d.id
                            /\ t[i].last <= N(i).last /\ t[i].last \in Nat
    BY <1>2, SavedTask, TaskTypes DEF TasksFit
  <2> HIDE DEF N, t, u
  <2>3. DOMAIN t = 1 .. Len(t) /\ Len(t) \in Nat
    BY <1>1
  <2>4. DOMAIN u = DOMAIN t /\ \A i \in DOMAIN u : u[i] \in TaskRecord
    BY <2>1, <2>2
  <2>5. u \in Seq(TaskRecord)
    BY <2>1, <2>3, <2>4
  <2>6. \A i \in DOMAIN t : u[i].id = t[i].id /\ NextFits(u[i]) /\ t[i].last <= u[i].last
    BY <2>1, <2>2
  <2>7. n \in FileState
    BY <1>1, <2>5 DEF FileState, u
  <2>8. OneEntryPerTask(n) /\ TasksFit(n)
    BY <1>1, <1>2, <2>4, <2>6 DEF OneEntryPerTask, TasksFit, t
  <2>9. LastsKept(s, n) /\ Ids(s) \subseteq Ids(n)
    BY <1>1, <1>2, <2>4, <2>6 DEF OneEntryPerTask, LastsKept, Ids, t
  <2> QED BY <1>3, <2>7, <2>8, <2>9 DEF Sound, RunsSound
<1>5. CASE ~\E i \in DOMAIN t : t[i].id = d.id
  <2> DEFINE f == FreshTask(d, on, c)
  <2>1. u = Append(t, f)
    BY <1>5 DEF Upserted
  <2>2. f \in TaskRecord /\ NextFits(f) /\ f.id = d.id
    BY SavedTask
  <2>3. \A i \in DOMAIN t : t[i] \in TaskRecord /\ NextFits(t[i]) /\ t[i].last \in Nat /\ t[i].id # d.id
    BY <1>2, <1>5, TaskTypes DEF TasksFit
  <2> HIDE DEF f, t, u
  <2>4. /\ DOMAIN t = 1 .. Len(t) /\ Len(t) \in Nat
        /\ u \in Seq(TaskRecord) /\ DOMAIN u = 1 .. (Len(t) + 1)
        /\ \A i \in 1 .. Len(t) : u[i] = t[i]
        /\ u[Len(t) + 1] = f
    BY <1>1, <2>1, <2>2
  <2>5. \A i \in DOMAIN u : (i \in DOMAIN t /\ u[i] = t[i]) \/ (i = Len(t) + 1 /\ u[i] = f)
    BY <2>4
  <2>6. n \in FileState
    BY <1>1, <2>4 DEF FileState, u
  <2>7. OneEntryPerTask(n)
    BY <1>1, <1>2, <2>2, <2>3, <2>5 DEF OneEntryPerTask, t
  <2>8. TasksFit(n)
    BY <1>1, <2>2, <2>3, <2>5 DEF TasksFit
  <2>9. \A i \in DOMAIN t : i \in DOMAIN u /\ u[i] = t[i]
    BY <2>4
  <2>10. LastsKept(s, n)
    <3> SUFFICES ASSUME NEW i \in DOMAIN t, NEW j \in DOMAIN u, t[i].id = u[j].id
                 PROVE  t[i].last <= u[j].last
      BY <1>1 DEF LastsKept, t
    <3>1. j \in DOMAIN t /\ u[j] = t[j]
      BY <2>2, <2>3, <2>5
    <3>2. i = j
      BY <1>2, <3>1 DEF OneEntryPerTask, t
    <3> QED BY <2>3, <3>1, <3>2
  <2>11. Ids(s) \subseteq Ids(n)
    BY <1>1, <2>9 DEF Ids, t
  <2> QED BY <1>3, <2>6, <2>7, <2>8, <2>10, <2>11 DEF Sound, RunsSound
<1> QED BY <1>4, <1>5

\* A sequence without one of its elements.
LEMMA RemovedOne ==
  ASSUME NEW S, NEW q \in Seq(S), NEW i \in DOMAIN q
  PROVE  /\ RemoveAt(q, i) \in Seq(S)
         /\ \A j \in DOMAIN RemoveAt(q, i) : \E k \in DOMAIN q :
              k = (IF j < i THEN j ELSE j + 1) /\ RemoveAt(q, i)[j] = q[k]
<1> DEFINE a == SubSeq(q, 1, i - 1)
           b == SubSeq(q, i + 1, Len(q))
           r == a \o b
<1>1. i \in 1 .. Len(q) /\ Len(q) \in Nat
  OBVIOUS
<1>2. a \in Seq(S) /\ Len(a) = i - 1 /\ \A j \in 1 .. (i - 1) : a[j] = q[j]
  BY <1>1
<1>3. b \in Seq(S) /\ Len(b) = Len(q) - i /\ \A j \in 1 .. (Len(q) - i) : b[j] = q[i + j]
  BY <1>1
<1> HIDE DEF a, b
<1>4. r \in Seq(S) /\ DOMAIN r = 1 .. (Len(q) - 1)
  BY <1>1, <1>2, <1>3
<1>5. ASSUME NEW j \in DOMAIN r
      PROVE  \E k \in DOMAIN q : k = (IF j < i THEN j ELSE j + 1) /\ r[j] = q[k]
  <2>1. CASE j < i
    <3>1. j \in DOMAIN q /\ j \in 1 .. Len(a) /\ j \in 1 .. (i - 1)
      BY <1>1, <1>2, <1>4, <2>1
    <3>2. r[j] = a[j]
      BY <1>2, <1>3, <3>1
    <3> QED BY <1>2, <2>1, <3>1, <3>2
  <2>2. CASE ~(j < i)
    <3>1. j \in Nat /\ i \in Nat /\ i <= j /\ 1 <= i /\ j <= Len(q) - 1
      BY <1>1, <1>4, <2>2
    <3>2. j + 1 \in DOMAIN q /\ j - (i - 1) \in 1 .. (Len(q) - i)
      BY <1>1, <3>1
    <3>3. j \in 1 .. (Len(a) + Len(b)) /\ j > Len(a) /\ j - Len(a) = j - (i - 1)
      BY <1>1, <1>2, <1>3, <3>1
    <3>4. r[j] = b[j - Len(a)]
      BY <1>2, <1>3, <3>3
    <3>5. b[j - (i - 1)] = q[i + (j - (i - 1))] /\ i + (j - (i - 1)) = j + 1
      BY <1>3, <3>1, <3>2
    <3> HIDE DEF r
    <3>6. r[j] = q[j + 1]
      BY <3>3, <3>4, <3>5
    <3> QED BY <2>2, <3>2, <3>6
  <2> QED BY <2>1, <2>2
<1>6. RemoveAt(q, i) = r
  BY DEF RemoveAt, a, b
<1> QED BY <1>4, <1>5, <1>6

LEMMA DeleteKeeps ==
  ASSUME NEW s \in FileState, Sound(s), NEW k \in Tasks,
         NEW n, n = [s EXCEPT !.tasks = Without(s.tasks, k)]
  PROVE  n \in FileState /\ Sound(n) /\ LastsKept(s, n) /\ RunsKept(s, n)
<1> DEFINE t == s.tasks
           u == Without(s.tasks, k)
           x == CHOOSE i \in DOMAIN t : t[i].id = k
<1>1. s.runs \in Seq(RunRecord) /\ t \in Seq(TaskRecord) /\ n.tasks = u /\ n.runs = s.runs
  BY DEF FileState
<1>2. OneEntryPerTask(s) /\ TasksFit(s) /\ RunsSound(s)
  BY DEF Sound, RunsSound
<1>3. RunsSound(n) /\ RunsKept(s, n)
  BY <1>1, <1>2, SameRuns
<1>4. CASE \E i \in DOMAIN t : t[i].id = k
  <2>1. x \in DOMAIN t /\ u = RemoveAt(t, x)
    BY <1>4 DEF Without
  <2>2. x \in Nat /\ DOMAIN t \subseteq Nat
    BY <1>1, <2>1
  <2> HIDE DEF x, t, u
  <2>3. /\ u \in Seq(TaskRecord)
        /\ \A j \in DOMAIN u : \E i \in DOMAIN t :
             i = (IF j < x THEN j ELSE j + 1) /\ u[j] = t[i]
    BY <1>1, <2>1, RemovedOne
  <2>4. DOMAIN u \subseteq Nat
    BY <2>3
  <2>5. n \in FileState
    BY <1>1, <2>3 DEF FileState
  <2>6. OneEntryPerTask(n)
    <3> SUFFICES ASSUME NEW i \in DOMAIN u, NEW j \in DOMAIN u, u[i].id = u[j].id PROVE i = j
      BY <1>1 DEF OneEntryPerTask
    <3>1. PICK a \in DOMAIN t : a = (IF i < x THEN i ELSE i + 1) /\ u[i] = t[a]
      BY <2>3
    <3>2. PICK b \in DOMAIN t : b = (IF j < x THEN j ELSE j + 1) /\ u[j] = t[b]
      BY <2>3
    <3>3. a = b
      BY <1>2, <3>1, <3>2 DEF OneEntryPerTask, t
    <3>4. i \in Nat /\ j \in Nat
      BY <2>4
    <3> QED BY <2>2, <3>1, <3>2, <3>3, <3>4
  <2>7. TasksFit(n)
    BY <1>1, <1>2, <2>3 DEF TasksFit, t
  <2>8. LastsKept(s, n)
    <3> SUFFICES ASSUME NEW i \in DOMAIN t, NEW j \in DOMAIN u, t[i].id = u[j].id
                 PROVE  t[i].last <= u[j].last
      BY <1>1 DEF LastsKept, t
    <3>1. PICK b \in DOMAIN t : u[j] = t[b]
      BY <2>3
    <3>2. b = i /\ t[i].last \in Nat
      BY <1>2, <3>1, TaskTypes DEF OneEntryPerTask, t
    <3> QED BY <3>1, <3>2
  <2> QED BY <1>3, <2>5, <2>6, <2>7, <2>8 DEF Sound, RunsSound
<1>5. CASE ~\E i \in DOMAIN t : t[i].id = k
  <2>1. u = t
    BY <1>5 DEF Without
  <2>2. n \in FileState /\ OneEntryPerTask(n) /\ TasksFit(n)
    BY <1>1, <1>2, <2>1 DEF FileState, OneEntryPerTask, TasksFit
  <2>3. \A i \in DOMAIN t : t[i].last \in Nat
    BY TaskTypes
  <2>4. LastsKept(s, n)
    BY <1>1, <1>2, <2>1, <2>3 DEF OneEntryPerTask, LastsKept
  <2> QED BY <1>3, <2>2, <2>4 DEF Sound, RunsSound
<1> QED BY <1>4, <1>5

\* A task that is switched fits its schedule.
LEMMA SwitchedTask ==
  ASSUME now \in Nat, NEW o \in TaskRecord, NextFits(o), NEW on \in BOOLEAN,
         NEW k, k = [o EXCEPT !.enabled = on, !.updated = now,
                              !.next = IF on THEN Initial(o.schedule, now) ELSE o.next]
  PROVE  k \in TaskRecord /\ k.id = o.id /\ k.last = o.last /\ NextFits(k)
<1> DEFINE next == IF on THEN Initial(o.schedule, now) ELSE o.next
<1>1. o.schedule \in Schedules /\ o.next \in Nat /\ o.last \in Nat
  BY DEF TaskRecord
<1>2. /\ next \in Nat
      /\ on /\ next # NoTime /\ o.schedule.kind # "interval" => next \in o.schedule.times
  BY <1>1, InitialFacts
<1>3. k = [o EXCEPT !.enabled = on, !.updated = now, !.next = next]
  OBVIOUS
<1> HIDE DEF next
<1>4. /\ k \in TaskRecord /\ k.id = o.id /\ k.last = o.last
      /\ k.enabled = on /\ k.next = next /\ k.schedule = o.schedule
  BY <1>2, <1>3 DEF TaskRecord
<1>5. NextFits(k)
  BY <1>2, <1>4 DEF NextFits
<1> QED BY <1>4, <1>5

LEMMA ReplaceKeeps ==
  ASSUME NEW s \in FileState, Sound(s), NEW i \in DOMAIN s.tasks,
         NEW k \in TaskRecord, k.id = s.tasks[i].id, k.last = s.tasks[i].last, NextFits(k),
         NEW n, n = [s EXCEPT !.tasks = [s.tasks EXCEPT ![i] = k]]
  PROVE  n \in FileState /\ Sound(n) /\ LastsKept(s, n) /\ Ids(s) \subseteq Ids(n) /\ RunsKept(s, n)
<1> DEFINE t == s.tasks
           u == [t EXCEPT ![i] = k]
<1>1. s.runs \in Seq(RunRecord) /\ t \in Seq(TaskRecord) /\ n.tasks = u /\ n.runs = s.runs
  BY DEF FileState
<1>2. OneEntryPerTask(s) /\ TasksFit(s) /\ RunsSound(s)
  BY DEF Sound, RunsSound
<1>3. RunsSound(n) /\ RunsKept(s, n)
  BY <1>1, <1>2, SameRuns
<1>4. \A j \in DOMAIN t : t[j] \in TaskRecord /\ t[j].last \in Nat
  BY TaskTypes
<1>5. DOMAIN u = DOMAIN t /\ u \in Seq(TaskRecord)
      /\ \A j \in DOMAIN t : u[j] = (IF j = i THEN k ELSE t[j])
  BY <1>1
<1> HIDE DEF u, t
<1>6. \A j \in DOMAIN t : u[j].id = t[j].id /\ u[j].last = t[j].last
  BY <1>5 DEF t
<1>7. n \in FileState
  BY <1>1, <1>5 DEF FileState
<1>8. OneEntryPerTask(n)
  BY <1>1, <1>2, <1>5, <1>6 DEF OneEntryPerTask, t
<1>9. TasksFit(n)
  BY <1>1, <1>2, <1>5 DEF TasksFit, t
<1>10. LastsKept(s, n) /\ Ids(s) \subseteq Ids(n)
  <2>1. \A a, b \in DOMAIN t : t[a].id = u[b].id => t[a].last <= u[b].last
    BY <1>2, <1>4, <1>6 DEF OneEntryPerTask, t
  <2>2. LastsKept(s, n)
    BY <1>1, <1>5, <2>1 DEF LastsKept, t
  <2>3. Ids(s) \subseteq Ids(n)
    BY <1>1, <1>5, <1>6 DEF Ids, t
  <2> QED BY <2>2, <2>3
<1> QED BY <1>3, <1>7, <1>8, <1>9, <1>10 DEF Sound, RunsSound

\* A run that is recorded as finished is not under way any more, and nothing else
\* about it changes.
LEMMA RecordKeeps ==
  ASSUME NEW s \in FileState, Sound(s), NEW i \in DOMAIN s.runs, NEW v \in Statuses \ {"running"},
         NEW n, n = [s EXCEPT !.runs[i].status = v]
  PROVE  n \in FileState /\ Sound(n) /\ LastsKept(s, n) /\ Ids(s) \subseteq Ids(n) /\ RunsKept(s, n)
<1> DEFINE r == s.runs
           k == [r[i] EXCEPT !.status = v]
           u == [r EXCEPT ![i] = k]
<1>1. s.tasks \in Seq(TaskRecord) /\ r \in Seq(RunRecord) /\ n.runs = u /\ n.tasks = s.tasks
  BY DEF FileState
<1>2. OneEntryPerTask(s) /\ TasksFit(s) /\ OneRunning(s) /\ OneRunPerTime(s)
  BY DEF Sound
<1>3. r[i] \in RunRecord
  BY <1>1
<1>4. /\ k \in RunRecord /\ k.status = v
      /\ k.id = r[i].id /\ k.task = r[i].task /\ k.for = r[i].for
  BY <1>3 DEF RunRecord
<1> HIDE DEF k
<1>5. /\ DOMAIN u = DOMAIN r /\ u \in Seq(RunRecord)
      /\ \A j \in DOMAIN r : u[j] = (IF j = i THEN k ELSE r[j])
  BY <1>1, <1>4
<1> HIDE DEF u, r
<1>6. \A j \in DOMAIN r : /\ u[j].id = r[j].id /\ u[j].task = r[j].task /\ u[j].for = r[j].for
                          /\ u[j].status = "running" => r[j].status = "running"
  BY <1>4, <1>5
<1>7. n \in FileState
  BY <1>1, <1>5 DEF FileState
<1>8. OneRunning(n) /\ OneRunPerTime(n)
  BY <1>1, <1>2, <1>5, <1>6 DEF OneRunning, OneRunPerTime, r
<1>9. RunsKept(s, n)
  BY <1>1, <1>5, <1>6 DEF RunsKept, Holds, r
<1>10. OneEntryPerTask(n) /\ TasksFit(n) /\ Ids(s) \subseteq Ids(n)
  BY <1>1, <1>2 DEF OneEntryPerTask, TasksFit, Ids
<1>11. LastsKept(s, n)
  <2>1. \A j \in DOMAIN s.tasks : s.tasks[j].last \in Nat
    BY TaskTypes
  <2> QED BY <1>1, <1>2, <2>1 DEF OneEntryPerTask, LastsKept
<1> QED BY <1>7, <1>8, <1>9, <1>10, <1>11 DEF Sound

-----------------------------------------------------------------------------
(* What a claim leaves of the file *)

LEMMA ReconcileFacts ==
  ASSUME NEW runs \in Seq(RunRecord), NEW t, NEW r, r = Reconcile(runs, t)
  PROVE  /\ r \in Seq(RunRecord) /\ DOMAIN r = DOMAIN runs /\ Len(r) = Len(runs)
         /\ \A i \in DOMAIN runs :
              /\ r[i].id = runs[i].id /\ r[i].task = runs[i].task /\ r[i].for = runs[i].for
              /\ r[i].status = "running" => runs[i].status = "running"
<1>1. DOMAIN runs = 1 .. Len(runs) /\ Len(runs) \in Nat
  OBVIOUS
<1>2. r = [i \in DOMAIN runs |-> IF runs[i].status = "running" /\ t - runs[i].started > StaleAfter
                                 THEN [runs[i] EXCEPT !.status = "stale"] ELSE runs[i]]
  BY DEF Reconcile
<1>3. ASSUME NEW i \in DOMAIN runs
      PROVE  /\ r[i] \in RunRecord
             /\ r[i].id = runs[i].id /\ r[i].task = runs[i].task /\ r[i].for = runs[i].for
             /\ r[i].status = "running" => runs[i].status = "running"
  <2>1. runs[i] \in RunRecord
    OBVIOUS
  <2> DEFINE k == [runs[i] EXCEPT !.status = "stale"]
  <2>2. /\ k \in RunRecord /\ k.id = runs[i].id /\ k.task = runs[i].task /\ k.for = runs[i].for
        /\ k.status = "stale"
    BY <2>1 DEF RunRecord, Statuses
  <2>3. r[i] = k \/ r[i] = runs[i]
    BY <1>2
  <2> HIDE DEF k
  <2> QED BY <2>1, <2>2, <2>3
<1>4. DOMAIN r = DOMAIN runs
  BY <1>2
<1>5. r \in Seq(RunRecord) /\ Len(r) = Len(runs)
  <2>1. r = [i \in 1 .. Len(runs) |-> r[i]]
    BY <1>1, <1>2
  <2>2. \A i \in 1 .. Len(runs) : r[i] \in RunRecord
    BY <1>1, <1>3
  <2> QED BY <1>1, <2>1, <2>2
<1> QED BY <1>3, <1>4, <1>5

\* A task that is due is enabled and has no run under way.
LEMMA DueFacts ==
  ASSUME now \in Nat, NEW k \in TaskRecord, NextFits(k), NEW runs
  PROVE  /\ Due(k, runs) \in Nat
         /\ Due(k, runs) # NoTime =>
              /\ k.enabled /\ Due(k, runs) = LatestDue(k, now) /\ k.last < Due(k, runs)
              /\ \A i \in DOMAIN runs : ~(runs[i].task = k.id /\ runs[i].status = "running")
<1>1. k.enabled => /\ LatestDue(k, now) \in Nat
                   /\ LatestDue(k, now) # NoTime => k.last < LatestDue(k, now)
  BY LatestDueFacts
<1>2. CASE \/ ~k.enabled \/ claimed >= MaxClaims
           \/ \E i \in DOMAIN runs : runs[i].task = k.id /\ runs[i].status = "running"
  <2>1. Due(k, runs) = NoTime
    BY <1>2 DEF Due
  <2> QED BY <2>1 DEF NoTime
<1>3. CASE ~(\/ ~k.enabled \/ claimed >= MaxClaims
             \/ \E i \in DOMAIN runs : runs[i].task = k.id /\ runs[i].status = "running")
  <2>1. Due(k, runs) = LatestDue(k, now)
    BY <1>3 DEF Due
  <2> QED BY <1>1, <1>3, <2>1
<1> QED BY <1>2, <1>3

LEMMA AdvancedFacts ==
  ASSUME now \in Nat, NEW k \in TaskRecord, NextFits(k), NEW runs
  PROVE  /\ Advanced(k, runs) \in TaskRecord /\ NextFits(Advanced(k, runs))
         /\ Advanced(k, runs).id = k.id /\ k.last <= Advanced(k, runs).last
<1> DEFINE due == Due(k, runs)
           g == IF Claimable(k, runs) THEN [k EXCEPT !.last = due] ELSE k
           a == [g EXCEPT !.next = NextAfterNow(g, now)]
<1>1. /\ due \in Nat /\ (due # NoTime => k.last < due)
      /\ k.id \in Tasks /\ k.last \in Nat /\ k.schedule \in Schedules
  BY DueFacts DEF TaskRecord
<1>2. CASE due = NoTime
  <2>1. Advanced(k, runs) = k
    BY <1>2 DEF Advanced
  <2> QED BY <1>1, <2>1
<1>3. CASE due # NoTime
  <2>1. Advanced(k, runs) = a
    BY <1>3 DEF Advanced
  <2> HIDE DEF due
  <2>2. /\ g \in TaskRecord /\ g.id = k.id /\ g.schedule = k.schedule
        /\ g.last = k.last \/ g.last = due
    BY <1>1 DEF TaskRecord
  <2> HIDE DEF g
  <2>3. /\ NextAfterNow(g, now) \in Nat
        /\ g.schedule.kind # "interval" /\ NextAfterNow(g, now) # NoTime =>
             NextAfterNow(g, now) \in g.schedule.times
    BY <2>2, NextAfterNowFacts
  <2>4. /\ a \in TaskRecord /\ a.id = g.id /\ a.last = g.last
        /\ a.schedule = g.schedule /\ a.next = NextAfterNow(g, now)
    BY <2>2, <2>3 DEF TaskRecord
  <2> HIDE DEF a
  <2>5. NextFits(a)
    BY <2>3, <2>4 DEF NextFits
  <2>6. k.last <= a.last
    BY <1>1, <1>3, <2>2, <2>4
  <2> QED BY <2>1, <2>2, <2>4, <2>5, <2>6
<1> QED BY <1>2, <1>3

\* Every new run is of a claimable task, and each of another one.
OfClaimable(claims, tasks, runs) ==
  \A i \in DOMAIN claims : \E x \in DOMAIN tasks :
    /\ Claimable(tasks[x], runs)
    /\ claims[i].task = tasks[x].id /\ claims[i].for = Due(tasks[x], runs)
OfDifferent(claims) == \A i, j \in DOMAIN claims : claims[i].task = claims[j].task => i = j

LEMMA NewRunsFacts ==
  ASSUME now \in Nat, claimed \in Nat, NEW s \in FileState, OneEntryPerTask(s), TasksFit(s),
         NEW runs,
         NEW I \in SUBSET DOMAIN s.tasks, \A i \in I : Claimable(s.tasks[i], runs),
         NEW due \in InOrder(I),
         NEW claims, claims = NewRuns(s.tasks, runs, due)
  PROVE  /\ claims \in Seq(RunRecord)
         /\ OfClaimable(claims, s.tasks, runs) /\ OfDifferent(claims)
<1> DEFINE t == s.tasks
           m == Cardinality(I)
<1>1. t \in Seq(TaskRecord)
  BY DEF FileState
<1>2. IsFiniteSet(DOMAIN t)
  <2>1. DOMAIN t = 1 .. Len(t) /\ Len(t) \in Int /\ 1 \in Int
    BY <1>1
  <2>2. IsFiniteSet(1 .. Len(t))
    BY <2>1, FS_Interval
  <2> QED BY <2>1, <2>2
<1>3. m \in Nat
  BY <1>2, FS_Subset, FS_CardinalityType
<1>4. due \in [1 .. m -> I] /\ \A i, j \in 1 .. m : i < j => due[i] < due[j]
  BY DEF InOrder
<1> HIDE DEF m
<1>5. /\ DOMAIN claims = 1 .. m
      /\ \A i \in 1 .. m :
           claims[i] = [id |-> claimed + i, task |-> t[due[i]].id, status |-> "running",
                        for |-> Due(t[due[i]], runs), started |-> now]
  BY <1>4 DEF NewRuns
<1>6. ASSUME NEW i \in 1 .. m
      PROVE  /\ claims[i] \in RunRecord
             /\ due[i] \in DOMAIN t /\ Claimable(t[due[i]], runs)
             /\ claims[i].task = t[due[i]].id /\ claims[i].for = Due(t[due[i]], runs)
  <2>1. due[i] \in DOMAIN t /\ Claimable(t[due[i]], runs)
    BY <1>4
  <2>2. t[due[i]] \in TaskRecord /\ t[due[i]].id \in Tasks /\ NextFits(t[due[i]])
    BY <2>1, TaskTypes DEF TasksFit
  <2>3. Due(t[due[i]], runs) \in Nat
    BY <2>2, DueFacts
  <2>4. claimed + i \in Nat
    BY <1>3
  <2> DEFINE k == t[due[i]]
  <2>5. claims[i] = [id |-> claimed + i, task |-> k.id, status |-> "running",
                     for |-> Due(k, runs), started |-> now]
    BY <1>5
  <2> HIDE DEF k
  <2>6. /\ claims[i].task = k.id /\ claims[i].for = Due(k, runs)
        /\ k.id \in Tasks /\ Due(k, runs) \in Nat => claims[i] \in RunRecord
    BY <2>4, <2>5 DEF RunRecord, Statuses
  <2> QED BY <2>1, <2>2, <2>3, <2>6 DEF k
<1>7. claims \in Seq(RunRecord)
  <2>1. claims = [i \in 1 .. m |-> claims[i]]
    BY <1>4 DEF NewRuns
  <2> QED BY <1>3, <1>5, <1>6, <2>1
<1>8. ASSUME NEW i \in 1 .. m, NEW j \in 1 .. m, claims[i].task = claims[j].task
      PROVE  i = j
  <2>1. due[i] = due[j]
    BY <1>6, <1>8 DEF OneEntryPerTask
  <2>2. due[i] \in Nat /\ due[j] \in Nat
    BY <1>1, <1>6
  <2>3. ~(i < j) /\ ~(j < i)
    BY <1>4, <2>1, <2>2
  <2> QED BY <1>3, <2>3
<1> QED BY <1>5, <1>6, <1>7, <1>8 DEF OfClaimable, OfDifferent

\* The new runs come first, the latest in front.
LEMMA AllRunsFacts ==
  ASSUME NEW claims \in Seq(RunRecord), NEW runs \in Seq(RunRecord),
         NEW all, all = AllRuns(claims, runs)
  PROVE  /\ all \in Seq(RunRecord)
         /\ \A p \in DOMAIN all :
              \/ \E i \in DOMAIN claims : all[p] = claims[i] /\ i = Len(claims) - p + 1
              \/ \E i \in DOMAIN runs : all[p] = runs[i] /\ p = Len(claims) + i
         /\ \A i \in DOMAIN claims : \E p \in DOMAIN all : all[p] = claims[i]
         /\ \A i \in DOMAIN runs : \E p \in DOMAIN all : all[p] = runs[i]
<1> DEFINE m == Len(claims)
           l == Len(runs)
           v == Reverse(claims)
<1>1. m \in Nat /\ l \in Nat /\ DOMAIN claims = 1 .. m /\ DOMAIN runs = 1 .. l
  OBVIOUS
<1>2. v = [i \in 1 .. m |-> claims[(m - i) + 1]]
  BY DEF Reverse
<1>3. \A i \in 1 .. m : (m - i) + 1 \in 1 .. m
  BY <1>1
<1>4. v \in Seq(RunRecord) /\ Len(v) = m /\ \A i \in 1 .. m : v[i] = claims[(m - i) + 1]
  <2> HIDE DEF v, m
  <2> QED BY <1>1, <1>2, <1>3
<1> HIDE DEF v, m, l
<1>5. all = v \o runs
  BY DEF AllRuns, v
<1>6. /\ all \in Seq(RunRecord) /\ DOMAIN all = 1 .. (m + l)
      /\ \A p \in 1 .. m : all[p] = v[p]
      /\ \A i \in 1 .. l : all[m + i] = runs[i]
  BY <1>1, <1>4, <1>5 DEF l
<1>7. ASSUME NEW p \in DOMAIN all
      PROVE  \/ \E i \in DOMAIN claims : all[p] = claims[i] /\ i = m - p + 1
             \/ \E i \in DOMAIN runs : all[p] = runs[i] /\ p = m + i
  <2>1. CASE p \in 1 .. m
    <3>1. (m - p) + 1 \in DOMAIN claims /\ all[p] = claims[(m - p) + 1]
      BY <1>1, <1>3, <1>4, <1>6, <2>1
    <3> QED BY <3>1
  <2>2. CASE p \notin 1 .. m
    <3>1. p - m \in 1 .. l /\ p = m + (p - m)
      BY <1>1, <1>6, <2>2
    <3>2. all[m + (p - m)] = runs[p - m]
      BY <1>6, <3>1
    <3> QED BY <1>1, <3>1, <3>2
  <2> QED BY <2>1, <2>2
<1>8. ASSUME NEW i \in DOMAIN claims PROVE \E p \in DOMAIN all : all[p] = claims[i]
  <2>1. (m - i) + 1 \in 1 .. m /\ (m - ((m - i) + 1)) + 1 = i
    BY <1>1
  <2>2. all[(m - i) + 1] = claims[(m - ((m - i) + 1)) + 1]
    BY <1>4, <1>6, <2>1
  <2> QED BY <1>1, <1>6, <2>1, <2>2
<1>9. ASSUME NEW i \in DOMAIN runs PROVE \E p \in DOMAIN all : all[p] = runs[i]
  <2>1. m + i \in DOMAIN all
    BY <1>1, <1>6
  <2> QED BY <1>1, <1>6, <2>1
<1> QED BY <1>6, <1>7, <1>8, <1>9 DEF m

\* With the new runs, still no task has two under way, nor two for one time.
LEMMA AllRunsSound ==
  ASSUME now \in Nat, claimed \in Nat, NEW s \in FileState, Sound(s),
         NEW runs, runs = Reconcile(s.runs, now),
         NEW I \in SUBSET DOMAIN s.tasks, \A i \in I : Claimable(s.tasks[i], runs),
         NEW due \in InOrder(I),
         NEW claims, claims = NewRuns(s.tasks, runs, due),
         NEW all, all = AllRuns(claims, runs),
         NEW p \in DOMAIN all, NEW q \in DOMAIN all, all[p].task = all[q].task
  PROVE  /\ all[p].status = "running" /\ all[q].status = "running" => p = q
         /\ all[p].for = all[q].for => p = q
<1>1. OneEntryPerTask(s) /\ TasksFit(s) /\ OneRunning(s) /\ OneRunPerTime(s)
  BY DEF Sound
<1>2. s.runs \in Seq(RunRecord)
  BY DEF FileState
<1>3. /\ runs \in Seq(RunRecord) /\ DOMAIN runs = DOMAIN s.runs
      /\ \A i \in DOMAIN runs :
           /\ runs[i].id = s.runs[i].id /\ runs[i].task = s.runs[i].task
           /\ runs[i].for = s.runs[i].for
           /\ runs[i].status = "running" => s.runs[i].status = "running"
  BY <1>2, ReconcileFacts
<1>4. /\ claims \in Seq(RunRecord)
      /\ \A i \in DOMAIN claims : \E x \in DOMAIN s.tasks :
           /\ Claimable(s.tasks[x], runs)
           /\ claims[i].task = s.tasks[x].id /\ claims[i].for = Due(s.tasks[x], runs)
      /\ \A i, j \in DOMAIN claims : claims[i].task = claims[j].task => i = j
  <2>1. claims \in Seq(RunRecord) /\ OfClaimable(claims, s.tasks, runs) /\ OfDifferent(claims)
    BY <1>1, NewRunsFacts
  <2> QED BY <2>1 DEF OfClaimable, OfDifferent
<1>5. /\ all \in Seq(RunRecord)
      /\ \A o \in DOMAIN all :
           \/ \E i \in DOMAIN claims : all[o] = claims[i] /\ i = Len(claims) - o + 1
           \/ \E i \in DOMAIN runs : all[o] = runs[i] /\ o = Len(claims) + i
  BY <1>3, <1>4, AllRunsFacts
<1>6. p \in Nat /\ q \in Nat /\ Len(claims) \in Nat
  BY <1>4, <1>5
<1>7. \A i, j \in DOMAIN runs : runs[i].task = runs[j].task =>
        /\ runs[i].status = "running" /\ runs[j].status = "running" => i = j
        /\ runs[i].for = runs[j].for => i = j
  BY <1>1, <1>3 DEF OneRunning, OneRunPerTime
<1>8. ASSUME NEW i \in DOMAIN claims, NEW j \in DOMAIN runs, claims[i].task = runs[j].task
      PROVE  runs[j].status # "running" /\ runs[j].for # claims[i].for
  <2>1. PICK x \in DOMAIN s.tasks : /\ Claimable(s.tasks[x], runs)
                              /\ claims[i].task = s.tasks[x].id /\ claims[i].for = Due(s.tasks[x], runs)
    BY <1>4
  <2>2. s.tasks[x] \in TaskRecord /\ NextFits(s.tasks[x])
    BY <1>1, TaskTypes DEF TasksFit
  <2>3. Due(s.tasks[x], runs) # NoTime /\ ~Seen(s.tasks[x], runs)
    BY <2>1 DEF Claimable
  <2>4. ~(runs[j].task = s.tasks[x].id /\ runs[j].status = "running")
    BY <2>2, <2>3, DueFacts
  <2>5. ~(runs[j].task = s.tasks[x].id /\ runs[j].for = Due(s.tasks[x], runs))
    BY <2>3 DEF Seen
  <2> QED BY <1>8, <2>1, <2>4, <2>5
<1>9. CASE \E i \in DOMAIN claims : all[p] = claims[i] /\ i = Len(claims) - p + 1
  <2>1. PICK i \in DOMAIN claims : all[p] = claims[i] /\ i = Len(claims) - p + 1
    BY <1>9
  <2>2. CASE \E j \in DOMAIN claims : all[q] = claims[j] /\ j = Len(claims) - q + 1
    <3>1. PICK j \in DOMAIN claims : all[q] = claims[j] /\ j = Len(claims) - q + 1
      BY <2>2
    <3>2. i = j
      BY <1>4, <2>1, <3>1
    <3> QED BY <1>6, <2>1, <3>1, <3>2
  <2>3. CASE \E j \in DOMAIN runs : all[q] = runs[j]
    <3>1. PICK j \in DOMAIN runs : all[q] = runs[j]
      BY <2>3
    <3> QED BY <1>8, <2>1, <3>1
  <2> QED BY <1>5, <2>2, <2>3
<1>10. CASE \E i \in DOMAIN runs : all[p] = runs[i] /\ p = Len(claims) + i
  <2>1. PICK i \in DOMAIN runs : all[p] = runs[i] /\ p = Len(claims) + i
    BY <1>10
  <2>2. CASE \E j \in DOMAIN claims : all[q] = claims[j]
    <3>1. PICK j \in DOMAIN claims : all[q] = claims[j]
      BY <2>2
    <3> QED BY <1>8, <2>1, <3>1
  <2>3. CASE \E j \in DOMAIN runs : all[q] = runs[j] /\ q = Len(claims) + j
    <3>1. PICK j \in DOMAIN runs : all[q] = runs[j] /\ q = Len(claims) + j
      BY <2>3
    <3> QED BY <1>7, <2>1, <3>1
  <2> QED BY <1>5, <2>2, <2>3
<1> QED BY <1>5, <1>9, <1>10

\* The file has these runs.
HasAll(n, claims) == \A i \in DOMAIN claims : Holds(n, claims[i])

\* A claim adds runs and forgets one only when the list is full.
LEMMA ClaimKeeps ==
  ASSUME now \in Nat, claimed \in Nat, NEW s \in FileState, Sound(s),
         NEW runs, runs = Reconcile(s.runs, now),
         NEW I \in SUBSET DOMAIN s.tasks, \A i \in I : Claimable(s.tasks[i], runs),
         NEW due \in InOrder(I),
         NEW claims, claims = NewRuns(s.tasks, runs, due),
         NEW all, all = AllRuns(claims, runs),
         NEW n, n = AfterClaim(s.tasks, runs, claims)
  PROVE  /\ n \in FileState /\ Sound(n) /\ LastsKept(s, n) /\ Ids(s) \subseteq Ids(n)
         /\ claims \in Seq(RunRecord) /\ Len(all) \in Nat
         /\ ~(Len(all) > MaxRuns) =>
              RunsKept(s, n) /\ HasAll(n, claims)
         /\ Len(all) > MaxRuns => Len(n.runs) = MaxRuns
<1> DEFINE t == s.tasks
           u == [i \in DOMAIN t |-> Advanced(t[i], runs)]
           m == IF Len(all) > MaxRuns THEN MaxRuns ELSE Len(all)
<1>1. OneEntryPerTask(s) /\ TasksFit(s)
  BY DEF Sound
<1>2. s.runs \in Seq(RunRecord) /\ t \in Seq(TaskRecord)
  BY DEF FileState
<1>3. n.tasks = u /\ n.runs = SubSeq(all, 1, m) /\ n = [tasks |-> n.tasks, runs |-> n.runs]
  BY DEF AfterClaim
<1>4. /\ runs \in Seq(RunRecord) /\ DOMAIN runs = DOMAIN s.runs
      /\ \A i \in DOMAIN runs :
           /\ runs[i].id = s.runs[i].id /\ runs[i].task = s.runs[i].task
           /\ runs[i].for = s.runs[i].for
  BY <1>2, ReconcileFacts
<1>5. claims \in Seq(RunRecord)
  BY <1>1, NewRunsFacts
<1>6. /\ all \in Seq(RunRecord)
      /\ \A i \in DOMAIN claims : \E p \in DOMAIN all : all[p] = claims[i]
      /\ \A i \in DOMAIN runs : \E p \in DOMAIN all : all[p] = runs[i]
  BY <1>4, <1>5, AllRunsFacts
<1>7. MaxRuns \in Nat /\ Len(all) \in Nat /\ DOMAIN all = 1 .. Len(all)
  BY <1>6, AutomationAssumption DEF AutomationAssumption
<1>8. m \in Nat /\ m <= Len(all)
  BY <1>7
<1> HIDE DEF m
<1>9. /\ n.runs \in Seq(RunRecord) /\ Len(n.runs) = m /\ DOMAIN n.runs = 1 .. m
      /\ \A p \in 1 .. m : p \in DOMAIN all /\ n.runs[p] = all[p]
  BY <1>3, <1>6, <1>7, <1>8
<1>10. RunsSound(n)
  <2>1. ASSUME NEW p \in DOMAIN n.runs, NEW q \in DOMAIN n.runs, n.runs[p].task = n.runs[q].task
        PROVE  /\ n.runs[p].status = "running" /\ n.runs[q].status = "running" => p = q
               /\ n.runs[p].for = n.runs[q].for => p = q
    <3>1. p \in DOMAIN all /\ q \in DOMAIN all /\ n.runs[p] = all[p] /\ n.runs[q] = all[q]
      BY <1>9
    <3>2. all[p].task = all[q].task
      BY <2>1, <3>1
    <3>3. /\ all[p].status = "running" /\ all[q].status = "running" => p = q
          /\ all[p].for = all[q].for => p = q
      BY <3>1, <3>2, AllRunsSound
    <3> QED BY <3>1, <3>3
  <2> QED BY <2>1 DEF RunsSound, OneRunning, OneRunPerTime
<1>11. \A i \in DOMAIN t : /\ u[i] \in TaskRecord /\ NextFits(u[i])
                           /\ u[i].id = t[i].id /\ t[i].last <= u[i].last /\ t[i].last \in Nat
  <2> TAKE i \in DOMAIN t
  <2>1. t[i] \in TaskRecord /\ NextFits(t[i]) /\ t[i].last \in Nat
    BY <1>1, TaskTypes DEF TasksFit
  <2> QED BY <2>1, AdvancedFacts
<1>12. DOMAIN u = DOMAIN t /\ u \in Seq(TaskRecord)
  <2>1. DOMAIN t = 1 .. Len(t) /\ Len(t) \in Nat /\ u = [i \in 1 .. Len(t) |-> u[i]]
    BY <1>2
  <2>2. \A i \in 1 .. Len(t) : u[i] \in TaskRecord
    BY <1>11, <2>1
  <2> DEFINE l == Len(t)
  <2> HIDE DEF u, t, l
  <2>3. u \in Seq(TaskRecord) /\ DOMAIN u = 1 .. l
    BY <2>1, <2>2, SequenceOf DEF l
  <2> QED BY <2>1, <2>3 DEF l
<1> HIDE DEF u, t
<1>13. n \in FileState
  BY <1>3, <1>9, <1>12 DEF FileState
<1>14. TasksSound(n)
  BY <1>1, <1>3, <1>11, <1>12 DEF TasksSound, OneEntryPerTask, TasksFit, t
<1>15. LastsKept(s, n) /\ Ids(s) \subseteq Ids(n)
  <2>1. \A a, b \in DOMAIN t : t[a].id = u[b].id => t[a].last <= u[b].last
    BY <1>1, <1>11 DEF OneEntryPerTask, t
  <2>2. LastsKept(s, n)
    BY <1>3, <1>12, <2>1 DEF LastsKept, t
  <2>3. Ids(s) \subseteq Ids(n)
    BY <1>3, <1>11, <1>12 DEF Ids, t
  <2> QED BY <2>2, <2>3
<1>16. ASSUME ~(Len(all) > MaxRuns)
       PROVE  RunsKept(s, n) /\ HasAll(n, claims)
  <2>1. m = Len(all)
    BY <1>16 DEF m
  <2>2. \A p \in DOMAIN all : p \in DOMAIN n.runs /\ n.runs[p] = all[p]
    BY <1>7, <1>9, <2>1
  <2>3. RunsKept(s, n)
    <3> SUFFICES ASSUME NEW i \in DOMAIN s.runs PROVE Holds(n, s.runs[i])
      BY DEF RunsKept
    <3>1. PICK p \in DOMAIN all : all[p] = runs[i]
      BY <1>4, <1>6
    <3>2. p \in DOMAIN n.runs /\ n.runs[p] = runs[i]
      BY <2>2, <3>1
    <3> QED BY <1>4, <3>2 DEF Holds
  <2>4. HasAll(n, claims)
    BY <1>6, <2>2 DEF Holds, HasAll
  <2> QED BY <2>3, <2>4
<1>17. Len(all) > MaxRuns => Len(n.runs) = MaxRuns
  BY <1>9 DEF m
<1> QED BY <1>5, <1>7, <1>10, <1>13, <1>14, <1>15, <1>16, <1>17 DEF Sound, TasksSound, RunsSound

-----------------------------------------------------------------------------
(* Steps, seen from the file *)

\* What holds of every step: the file stays sound, it forgets no run unseen, and
\* nothing that was saved is undone.
FileStep ==
    /\ FileTypes' /\ Sound(Content')
    /\ ~forgot' => ~forgot /\ RunsKept(Content, Content')
    /\ UndoesNothing

LEMMA ContentTypes ==
  ASSUME FileTypes
  PROVE  /\ Content \in FileState /\ Stored \in FileState
         /\ Unlocked => Content = Stored
         /\ ~Unlocked => Content = writing.state
<1>1. file.held \in FileState /\ writing.state \in FileState
  BY DEF FileTypes
<1> QED BY <1>1 DEF Content, Stored

LEMMA NothingKnown ==
  /\ NoWrite.what = "none" /\ NoWrite.claims = <<>> /\ NoWrite.state = Nothing
  /\ NoWrite \in [by : {"nobody", "panel", "editor", "scheduler"},
                  what : {"none", "upsert", "delete", "switch", "claim", "record"},
                  state : FileState, claims : Seq(RunRecord)]
  BY NothingSound DEF NoWrite

LEMMA TornTypes ==
  ASSUME NEW h \in {"open", "empty", "partial"}
  PROVE  /\ Torn(h) \in [how : {"whole", "open", "empty", "partial"}, held : FileState]
         /\ Torn(h).how = h /\ Torn(h).held = Nothing
  BY NothingSound DEF Torn

\* What is written keeps what was there.
LEMMA Gathered ==
  ASSUME LastsKept(Content, Content'),
         writing'.what = "delete" \/ Ids(Content) \subseteq Ids(Content'),
         RunsKept(Content, Content') \/ Len(Content'.runs) = MaxRuns
  PROVE  UndoesNothing
<1>1. RunsKept(Content, Content') => RunIds(Content) \subseteq RunIds(Content')
  BY DEF RunsKept, Holds, RunIds
<1> QED BY <1>1 DEF UndoesNothing, LastsKept

\* A command begins to write.
LEMMA WriteStep ==
  ASSUME FileTypes, Unlocked,
         NEW by \in {"panel", "editor", "scheduler"},
         NEW what \in {"upsert", "delete", "switch", "claim", "record"},
         NEW n \in FileState, NEW claims \in Seq(RunRecord),
         Write(by, what, n, claims),
         Sound(n), LastsKept(Stored, n),
         what = "delete" \/ Ids(Stored) \subseteq Ids(n),
         RunsKept(Stored, n) \/ Len(n.runs) = MaxRuns,
         ~forgot' => ~forgot /\ RunsKept(Stored, n)
  PROVE  FileStep /\ Content' = n /\ writing'.claims = claims
<1>1. /\ writing' = [by |-> by, what |-> what, state |-> n, claims |-> claims]
      /\ file' = Torn("open")
  BY DEF Write
<1>2. FileTypes'
  BY <1>1, TornTypes DEF FileTypes
<1>3. writing'.what = what /\ writing'.state = n /\ writing'.claims = claims
  BY <1>1
<1>4. writing' # NoWrite
  BY <1>3, NothingKnown
<1>5. Content' = n
  BY <1>3, <1>4 DEF Content, Unlocked
<1>6. Content = Stored
  BY ContentTypes
<1>7. UndoesNothing
  BY <1>3, <1>5, <1>6, Gathered
<1> QED BY <1>2, <1>3, <1>5, <1>6, <1>7 DEF FileStep

\* What the file holds, or will hold, is as before.
LEMMA SameContent ==
  ASSUME FileTypes, Sound(Content), FileTypes', Content' = Content, forgot' = forgot
  PROVE  FileStep
<1>1. Content \in FileState
  BY ContentTypes
<1>2. \A i \in DOMAIN Content.tasks : Content.tasks[i].last \in Nat
  BY <1>1, TaskTypes
<1>3. LastsKept(Content, Content)
  BY <1>2 DEF LastsKept, Sound, OneEntryPerTask
<1>4. RunsKept(Content, Content)
  BY DEF RunsKept, Holds
<1>5. UndoesNothing
  BY <1>3, <1>4, Gathered
<1> QED BY <1>4, <1>5 DEF FileStep

\* A write is cut short.
LEMMA CutStep ==
  ASSUME NEW h \in {"empty", "partial"}, file' = Torn(h), writing' = NoWrite, forgot' = TRUE
  PROVE  FileStep
<1>1. FileTypes' /\ file'.how # "whole"
  BY TornTypes, NothingKnown DEF FileTypes, Unlocked
<1>2. Content' = Nothing
  BY TornTypes DEF Content, Unlocked, Stored
<1>3. Sound(Content')
  BY <1>2, NothingSound
<1> QED BY <1>1, <1>3 DEF FileStep, UndoesNothing

\* The panel writes.
LEMMA PanelFileStep ==
  ASSUME TypeOK, Sound(Content), Panel
  PROVE  FileStep
<1>1. FileTypes /\ now \in Nat
  BY DEF TypeOK, FileTypes
<1>2. Unlocked => Content = Stored /\ Stored \in FileState /\ Sound(Stored)
  BY <1>1, ContentTypes
<1>3. Stored = file.held
  BY DEF Stored
<1>4. ASSUME NEW on \in BOOLEAN, NEW s \in Schedules, UpsertTask(on, s)
      PROVE  FileStep
  <2> DEFINE n == [Stored EXCEPT !.tasks = Upserted(Stored.tasks, draft[1], on, s)]
  <2>1. Unlocked /\ saving /\ Write("panel", "upsert", n, <<>>) /\ forgot' = forgot
    BY <1>4 DEF UpsertTask, panel
  <2>2. draft[1] \in [id : Tasks, last : Nat]
    BY <2>1, DraftTypes
  <2>3. /\ n \in FileState /\ Sound(n) /\ LastsKept(Stored, n) /\ Ids(Stored) \subseteq Ids(n)
        /\ RunsKept(Stored, n)
    BY <1>1, <1>2, <2>1, <2>2, UpsertKeeps
  <2>4. <<>> \in Seq(RunRecord) /\ (~forgot' => ~forgot /\ RunsKept(Stored, n))
    BY <2>1, <2>3
  <2> HIDE DEF n
  <2> QED BY <1>1, <2>1, <2>3, <2>4, WriteStep
<1>5. ASSUME NEW k \in Tasks, DeleteTask(k)
      PROVE  FileStep
  <2> DEFINE n == [Stored EXCEPT !.tasks = Without(Stored.tasks, k)]
             by == IF draft # <<>> /\ draft[1].id = k THEN "editor" ELSE "panel"
  <2>1. Unlocked /\ Write(by, "delete", n, <<>>) /\ forgot' = forgot
    BY <1>5 DEF DeleteTask
  <2>2. n \in FileState /\ Sound(n) /\ LastsKept(Stored, n) /\ RunsKept(Stored, n)
    BY <1>1, <1>2, <2>1, DeleteKeeps
  <2>3. by \in {"panel", "editor", "scheduler"}
    OBVIOUS
  <2>4. <<>> \in Seq(RunRecord) /\ (~forgot' => ~forgot /\ RunsKept(Stored, n))
    BY <2>1, <2>2
  <2> HIDE DEF n, by
  <2> QED BY <1>1, <2>1, <2>2, <2>3, <2>4, WriteStep
<1>6. ASSUME NEW k \in Tasks, NEW on \in BOOLEAN, SetTaskEnabled(k, on)
      PROVE  FileStep
  <2>1. Unlocked /\ forgot' = forgot
    BY <1>6 DEF SetTaskEnabled
  <2>2. PICK i \in DOMAIN Stored.tasks :
          LET u == Stored.tasks[i]
              next == IF on THEN Initial(u.schedule, now) ELSE u.next
          IN  /\ u.id = k
              /\ Write("panel", "switch",
                       [Stored EXCEPT !.tasks[i] =
                          [u EXCEPT !.enabled = on, !.updated = now, !.next = next]], <<>>)
    BY <1>6 DEF SetTaskEnabled
  <2> DEFINE o == Stored.tasks[i]
             k0 == [o EXCEPT !.enabled = on, !.updated = now,
                             !.next = IF on THEN Initial(o.schedule, now) ELSE o.next]
             n == [Stored EXCEPT !.tasks = [Stored.tasks EXCEPT ![i] = k0]]
  <2>3. Write("panel", "switch", n, <<>>)
    BY <2>2
  <2>4. /\ n \in FileState /\ Sound(n) /\ LastsKept(Stored, n) /\ Ids(Stored) \subseteq Ids(n)
        /\ RunsKept(Stored, n)
    <3>1. o \in TaskRecord /\ NextFits(o)
      BY <1>2, <2>1, TaskTypes DEF Sound, TasksFit
    <3> HIDE DEF o
    <3>2. k0 \in TaskRecord /\ k0.id = o.id /\ k0.last = o.last /\ NextFits(k0)
      BY <1>1, <3>1, SwitchedTask
    <3> HIDE DEF k0
    <3> QED BY <1>2, <2>1, <3>2, ReplaceKeeps DEF o
  <2>5. <<>> \in Seq(RunRecord) /\ (~forgot' => ~forgot /\ RunsKept(Stored, n))
    BY <2>1, <2>4
  <2> HIDE DEF n
  <2> QED BY <1>1, <2>1, <2>3, <2>4, <2>5, WriteStep
<1>7. CASE EditTask \/ NewTask \/ Save
  <2>1. UNCHANGED <<file, writing, forgot>>
    BY <1>7 DEF EditTask, NewTask, Save
  <2>2. FileTypes' /\ Content' = Content
    BY <1>1, <2>1 DEF FileTypes, Content, Unlocked, Stored
  <2> QED BY <1>1, <2>1, <2>2, SameContent
<1> QED BY <1>4, <1>5, <1>6, <1>7 DEF Panel

\* A claim, seen from the file: what it has claimed is in the file it leaves.
LEMMA ClaimFileStep ==
  ASSUME TypeOK, Sound(Content), Claim
  PROVE  /\ FileStep
         /\ \/ UNCHANGED <<file, writing, forgot>>
            \/ ~forgot' => HasAll(Content', writing'.claims)
         /\ ClaimedIsLatest
<1>1. FileTypes /\ now \in Nat /\ claimed \in Nat /\ Unlocked /\ forgot \in BOOLEAN
  BY DEF TypeOK, FileTypes, Claim
<1>2. Content = Stored /\ Stored \in FileState /\ Sound(Stored)
  BY <1>1, ContentTypes
<1> DEFINE runs == Reconcile(Stored.runs, now)
           I == {i \in DOMAIN Stored.tasks : Claimable(Stored.tasks[i], runs)}
<1>3. PICK due \in InOrder(I) :
         LET claims == NewRuns(Stored.tasks, runs, due)
         IN  IF runs # Stored.runs \/ claims # <<>>
             THEN /\ Write("scheduler", "claim", AfterClaim(Stored.tasks, runs, claims), claims)
                  /\ claimed' = claimed + Len(claims)
                  /\ forgot' = (forgot \/ Len(AllRuns(claims, runs)) > MaxRuns)
                  /\ UNCHANGED sched
             ELSE /\ GotClaims(<<>>)
                  /\ UNCHANGED <<file, writing, claimed, forgot>>
  BY DEF Claim
<1> DEFINE claims == NewRuns(Stored.tasks, runs, due)
           all == AllRuns(claims, runs)
           n == AfterClaim(Stored.tasks, runs, claims)
<1>4. I \in SUBSET DOMAIN Stored.tasks /\ \A i \in I : Claimable(Stored.tasks[i], runs)
  OBVIOUS
<1> HIDE DEF I
<1>5. /\ n \in FileState /\ Sound(n) /\ LastsKept(Stored, n) /\ Ids(Stored) \subseteq Ids(n)
      /\ claims \in Seq(RunRecord) /\ Len(all) \in Nat
      /\ ~(Len(all) > MaxRuns) =>
           RunsKept(Stored, n) /\ HasAll(n, claims)
      /\ Len(all) > MaxRuns => Len(n.runs) = MaxRuns
  <2>1. /\ runs = Reconcile(Stored.runs, now) /\ claims = NewRuns(Stored.tasks, runs, due)
        /\ all = AllRuns(claims, runs) /\ n = AfterClaim(Stored.tasks, runs, claims)
    OBVIOUS
  <2> HIDE DEF runs, claims, all, n
  <2>2. now \in Nat /\ claimed \in Nat /\ Stored \in FileState /\ Sound(Stored)
    BY <1>1, <1>2
  <2> QED BY <1>4, <2>1, <2>2, ClaimKeeps
<1>6. OfClaimable(claims, Stored.tasks, runs)
  <2>1. OneEntryPerTask(Stored) /\ TasksFit(Stored)
    BY <1>2 DEF Sound
  <2> QED BY <1>1, <1>2, <1>4, <2>1, NewRunsFacts
<1>7. CASE runs # Stored.runs \/ claims # <<>>
  <2>1. /\ Write("scheduler", "claim", n, claims)
        /\ forgot' = (forgot \/ Len(all) > MaxRuns)
    BY <1>3, <1>7
  <2>2. forgot' => forgot \/ Len(all) > MaxRuns
    BY <2>1
  <2>3. ~forgot' => ~forgot /\ ~(Len(all) > MaxRuns)
    BY <2>1
  <2> HIDE DEF n, claims, all, runs
  <2>4. ~forgot' => ~forgot /\ RunsKept(Stored, n)
    BY <1>5, <2>3
  <2>5. RunsKept(Stored, n) \/ Len(n.runs) = MaxRuns
    BY <1>5
  <2>6. FileStep /\ Content' = n /\ writing'.claims = claims
    BY <1>1, <1>5, <2>1, <2>4, <2>5, WriteStep
  <2>7. ~forgot' => HasAll(Content', writing'.claims)
    BY <1>5, <2>3, <2>6
  <2>8. ClaimedIsLatest
    <3> SUFFICES ASSUME NEW i \in DOMAIN claims, NEW j \in DOMAIN Stored.tasks,
                        claims[i].task = Stored.tasks[j].id
                 PROVE  LET r == claims[i]
                            s == Stored.tasks[j].schedule
                        IN  /\ r.for <= now /\ r.for > Stored.tasks[j].last
                            /\ IF s.kind = "interval" THEN now < r.for + s.every
                               ELSE r.for \in s.times /\ ~\E u \in s.times : r.for < u /\ u <= now
      BY <2>6 DEF ClaimedIsLatest
    <3>1. PICK x \in DOMAIN Stored.tasks :
            /\ Claimable(Stored.tasks[x], runs)
            /\ claims[i].task = Stored.tasks[x].id /\ claims[i].for = Due(Stored.tasks[x], runs)
      BY <1>6 DEF OfClaimable
    <3>2. x = j
      BY <1>2, <3>1 DEF Sound, OneEntryPerTask
    <3> DEFINE k == Stored.tasks[j]
    <3>3. k \in TaskRecord /\ NextFits(k) /\ k.last \in Nat
      BY <1>2, TaskTypes DEF Sound, TasksFit
    <3>4. Claimable(k, runs) /\ claims[i].for = Due(k, runs)
      BY <3>1, <3>2
    <3> HIDE DEF k
    <3>5. k.enabled /\ Due(k, runs) = LatestDue(k, now) /\ Due(k, runs) # NoTime
      BY <1>1, <3>3, <3>4, DueFacts DEF Claimable
    <3>6. /\ LatestDue(k, now) \in Nat
          /\ LatestDue(k, now) <= now /\ k.last < LatestDue(k, now)
          /\ IF k.schedule.kind = "interval"
             THEN now < LatestDue(k, now) + k.schedule.every
             ELSE /\ LatestDue(k, now) \in k.schedule.times
                  /\ ~\E u \in k.schedule.times : LatestDue(k, now) < u /\ u <= now
      BY <1>1, <3>3, <3>5, LatestDueFacts
    <3>7. claims[i].for = LatestDue(k, now)
      BY <3>4, <3>5
    <3> QED BY <3>3, <3>6, <3>7 DEF k
  <2> QED BY <2>6, <2>7, <2>8
<1>8. CASE ~(runs # Stored.runs \/ claims # <<>>)
  <2>1. UNCHANGED <<file, writing, forgot>>
    BY <1>3, <1>8
  <2>2. FileTypes' /\ Content' = Content
    BY <1>1, <2>1 DEF FileTypes, Content, Unlocked, Stored
  <2>3. writing'.what = "none"
    BY <1>1, <2>1, NothingKnown DEF Unlocked
  <2>4. ClaimedIsLatest
    BY <2>3 DEF ClaimedIsLatest
  <2> QED BY <1>1, <2>1, <2>2, <2>4, SameContent
<1> QED BY <1>7, <1>8

LEMMA RecordFileStep ==
  ASSUME TypeOK, Sound(Content), RecordRunFinished
  PROVE  FileStep /\ (UNCHANGED writing \/ writing'.claims = <<>>)
<1>1. FileTypes /\ Unlocked /\ forgot' = forgot
  BY DEF TypeOK, FileTypes, RecordRunFinished
<1>2. Content = Stored /\ Stored \in FileState /\ Sound(Stored)
  BY <1>1, ContentTypes
<1> DEFINE At == {i \in DOMAIN Stored.runs : Stored.runs[i].id = Head(sched.batch).id}
<1>3. CASE At = {}
  <2>1. UNCHANGED <<file, writing>>
    BY <1>3 DEF RecordRunFinished
  <2>2. FileTypes' /\ Content' = Content
    BY <1>1, <2>1 DEF FileTypes, Content, Unlocked, Stored
  <2> QED BY <1>1, <2>1, <2>2, SameContent
<1>4. CASE At # {}
  <2>1. PICK i \in At, v \in Verdicts :
          Write("scheduler", "record", [Stored EXCEPT !.runs[i].status = v], <<>>)
    BY <1>4 DEF RecordRunFinished
  <2>2. i \in DOMAIN Stored.runs
    OBVIOUS
  <2>3. v \in Statuses \ {"running"}
    <3>1. Verdicts \subseteq {"completed", "failed", "skipped"}
      BY DEF Verdicts
    <3> QED BY <3>1 DEF Statuses
  <2> DEFINE n == [Stored EXCEPT !.runs[i].status = v]
  <2>4. n \in FileState /\ Sound(n) /\ LastsKept(Stored, n) /\ Ids(Stored) \subseteq Ids(n)
        /\ RunsKept(Stored, n)
    BY <1>2, <2>2, <2>3, RecordKeeps
  <2>5. <<>> \in Seq(RunRecord) /\ (~forgot' => ~forgot /\ RunsKept(Stored, n))
    BY <1>1, <2>4
  <2>6. Write("scheduler", "record", n, <<>>)
    BY <2>1
  <2> HIDE DEF n
  <2> QED BY <1>1, <2>4, <2>5, <2>6, WriteStep
<1> QED BY <1>3, <1>4

\* The end of a write, good or bad.
LEMMA WriteEnds ==
  ASSUME TypeOK, Sound(Content), Written \/ WriteFails \/ Quit \/ Reload
  PROVE  FileStep /\ (writing'.claims = writing.claims \/ writing'.claims = <<>>)
<1>1. FileTypes
  BY DEF TypeOK, FileTypes
<1>2. CASE Written
  <2>1. /\ ~Unlocked /\ file' = Whole(writing.state) /\ writing' = NoWrite
        /\ forgot' = forgot
    BY <1>2 DEF Written
  <2>2. writing.state \in FileState
    BY <1>1 DEF FileTypes
  <2>3. FileTypes'
    BY <2>1, <2>2, NothingKnown DEF FileTypes, Whole, Unlocked
  <2>4. Content' = Content
    BY <1>1, <2>1, ContentTypes DEF Content, Unlocked, Stored, Whole
  <2> QED BY <1>1, <2>1, <2>3, <2>4, SameContent, NothingKnown
<1>3. CASE WriteFails
  <2>1. /\ writing' = NoWrite /\ forgot' = TRUE
        /\ \E h \in {"empty", "partial"} : file' = Torn(h)
    BY <1>3 DEF WriteFails
  <2> QED BY <2>1, CutStep, NothingKnown
<1>4. CASE Quit /\ ~Unlocked
  <2>1. /\ writing' = NoWrite /\ forgot' = TRUE
        /\ \E h \in {"empty", "partial"} : file' = Torn(h)
    BY <1>4 DEF Quit
  <2> QED BY <2>1, CutStep, NothingKnown
<1>5. CASE Quit /\ Unlocked
  <2>1. writing' = writing /\ file' = file /\ forgot' = forgot
    BY <1>5 DEF Quit, Unlocked
  <2>2. FileTypes' /\ Content' = Content
    BY <1>1, <2>1 DEF FileTypes, Content, Unlocked, Stored
  <2> QED BY <1>1, <2>1, <2>2, SameContent
<1>6. CASE Reload
  <2>1. /\ writing' = IF Unlocked THEN writing ELSE [writing EXCEPT !.by = "nobody"]
        /\ file' = file /\ forgot' = forgot
    BY <1>6 DEF Reload
  <2>2. CASE Unlocked
    <3>1. writing' = writing
      BY <2>1, <2>2
    <3>2. FileTypes' /\ Content' = Content
      BY <1>1, <2>1, <3>1 DEF FileTypes, Content, Unlocked, Stored
    <3> QED BY <1>1, <2>1, <3>1, <3>2, SameContent
  <2>3. CASE ~Unlocked
    <3>1. writing' = [writing EXCEPT !.by = "nobody"]
      BY <2>1, <2>3
    <3>2. /\ writing'.what = writing.what /\ writing'.state = writing.state
          /\ writing'.claims = writing.claims /\ writing.what # "none" /\ FileTypes'
      BY <1>1, <2>1, <2>3, <3>1 DEF FileTypes
    <3>3. writing' # NoWrite
      BY <1>1, <2>3, <3>2, NothingKnown DEF FileTypes
    <3>4. Content' = Content
      BY <2>3, <3>2, <3>3 DEF Content, Unlocked
    <3> QED BY <1>1, <2>1, <3>2, <3>4, SameContent
  <2> QED BY <2>2, <2>3
<1> QED BY <1>2, <1>3, <1>4, <1>5, <1>6

\* Steps that leave the file to itself.
LEMMA OtherFileStep ==
  ASSUME FileTypes, Sound(Content), UNCHANGED <<file, writing, forgot>>
  PROVE  FileStep
<1>1. FileTypes' /\ Content' = Content
  BY DEF FileTypes, Content, Unlocked, Stored
<1> QED BY <1>1, SameContent

Quiet == EditTask \/ NewTask \/ Save \/ Mount \/ Teardown \/ Tick \/ Send \/ DoNotSend \/ LoopEnds
         \/ Unparsable \/ OpenFails \/ Advance \/ StepBack

LEMMA QuietSteps == Quiet => UNCHANGED <<file, writing, forgot>>
  BY DEF Quiet, EditTask, NewTask, Save, Mount, Teardown, Tick, Send, DoNotSend, LoopEnds,
         Unparsable, OpenFails, Advance, StepBack

LEMMA NextCases ==
  Next => Panel \/ Claim \/ RecordRunFinished \/ (Written \/ WriteFails \/ Quit \/ Reload) \/ Quiet
  BY DEF Next, Loop, Quiet

LEMMA FileStepHolds ==
  ASSUME TypeOK, Sound(Content), [Next]_vars
  PROVE  FileStep
<1>1. FileTypes
  BY DEF TypeOK
<1>2. CASE UNCHANGED vars
  BY <1>1, <1>2, OtherFileStep DEF vars
<1>3. CASE Quiet
  BY <1>1, <1>3, QuietSteps, OtherFileStep
<1> QED BY <1>2, <1>3, NextCases, PanelFileStep, ClaimFileStep, RecordFileStep, WriteEnds

-----------------------------------------------------------------------------
(* Steps, seen from the loop and from the panel *)

LEMMA KeysFacts ==
  ASSUME NEW q \in Seq(RunRecord)
  PROVE  /\ Keys(<<>>) = {}
         /\ q # <<>> => /\ Tail(q) \in Seq(RunRecord) /\ Keys(Tail(q)) \subseteq Keys(q)
                        /\ Head(q) \in RunRecord /\ Key(Head(q)) \in Keys(q)
<1>1. Keys(<<>>) = {}
  BY DEF Keys
<1>2. ASSUME q # <<>>
      PROVE  /\ Tail(q) \in Seq(RunRecord) /\ Keys(Tail(q)) \subseteq Keys(q)
             /\ Head(q) \in RunRecord /\ Key(Head(q)) \in Keys(q)
  <2>1. /\ Len(q) \in Nat \ {0} /\ Tail(q) \in Seq(RunRecord) /\ Head(q) = q[1]
        /\ Len(Tail(q)) = Len(q) - 1
        /\ \A i \in 1 .. Len(Tail(q)) : Tail(q)[i] = q[i + 1]
    BY <1>2
  <2>2. Head(q) \in RunRecord /\ Key(Head(q)) \in Keys(q)
    BY <2>1 DEF Keys
  <2>3. ASSUME NEW i \in DOMAIN Tail(q) PROVE Key(Tail(q)[i]) \in Keys(q)
    <3>1. i + 1 \in DOMAIN q /\ Tail(q)[i] = q[i + 1]
      BY <2>1
    <3> QED BY <3>1 DEF Keys
  <2> QED BY <2>1, <2>2, <2>3 DEF Keys
<1> QED BY <1>1, <1>2

\* The loop has in hand, and has sent, only what it had or was given.
Passes == Keys(sched'.batch) \subseteq Known /\ sent' \subseteq Known

LoopStep == LoopTypes' /\ Passes

LEMMA IdleTypes ==
  /\ Idle \in [at : {"idle", "claiming", "running"} \cup Recording,
               batch : Seq(RunRecord), canceled : BOOLEAN]
  /\ Idle.at = "idle" /\ Idle.batch = <<>> /\ "idle" \notin Recording
  /\ "claiming" \notin Recording /\ "running" \notin Recording
  BY DEF Idle, Recording

\* The loop begins anew, goes on with what it has, or takes what was claimed.
LEMMA LoopMoves ==
  ASSUME LoopTypes, sent' = sent,
         NEW l \in {"idle", "claiming", "running"} \cup Recording, sched'.at = l,
         sched' \in [at : {"idle", "claiming", "running"} \cup Recording,
                     batch : Seq(RunRecord), canceled : BOOLEAN],
         l \in Recording => sched'.batch # <<>>,
         writing'.by = "scheduler" /\ writing'.what = "record" => l \in Recording,
         Keys(sched'.batch) \subseteq Known
  PROVE  LoopStep
<1>1. sent' \subseteq Known
  BY DEF Known
<1> QED BY <1>1 DEF LoopStep, LoopTypes, Passes

LEMMA LoopIdles ==
  ASSUME LoopTypes, sent' = sent, sched' = Idle,
         ~(writing'.by = "scheduler" /\ writing'.what = "record")
  PROVE  LoopStep
<1>1. Keys(<<>>) = {}
  BY DEF Keys
<1> QED BY <1>1, IdleTypes, LoopMoves

LEMMA LoopStays ==
  ASSUME LoopTypes, sent' = sent, sched' = sched,
         writing'.by = "scheduler" /\ writing'.what = "record" => sched.at \in Recording
  PROVE  LoopStep
<1>1. Keys(sched.batch) \subseteq Known
  BY DEF Known
<1> QED BY <1>1 DEF LoopStep, LoopTypes, Passes, Known

\* The loop catches an error, or stops.
LEMMA LoopRefused ==
  ASSUME LoopTypes, sent' = sent, Refused,
         ~(writing'.by = "scheduler" /\ writing'.what = "record")
  PROVE  LoopStep
<1>1. CASE sched.at \in {"sent", "unsent"}
  <2>1. sched' = [sched EXCEPT !.at = "caught"]
    BY <1>1 DEF Refused
  <2>2. sched.batch # <<>> /\ Keys(sched.batch) \subseteq Known /\ "caught" \in Recording
    BY <1>1 DEF LoopTypes, Recording, Known
  <2>3. /\ sched'.at = "caught" /\ sched'.batch = sched.batch
        /\ sched' \in [at : {"idle", "claiming", "running"} \cup Recording,
                       batch : Seq(RunRecord), canceled : BOOLEAN]
    BY <2>1, <2>2 DEF LoopTypes
  <2> QED BY <2>2, <2>3, LoopMoves
<1>2. CASE sched.at \notin {"sent", "unsent"}
  <2>1. sched' = Idle
    BY <1>2 DEF Refused
  <2> QED BY <2>1, LoopIdles
<1> QED BY <1>1, <1>2

LEMMA LoopRuns ==
  ASSUME TypeOK, Send \/ DoNotSend
  PROVE  LoopStep
<1> DEFINE b == sched.batch
           r == Head(b)
<1>1. /\ b # <<>> /\ b \in Seq(RunRecord) /\ writing' = writing
      /\ \E l \in {"sent", "unsent", "caught"} : sched' = [sched EXCEPT !.at = l]
      /\ sent' \subseteq sent \cup {Key(r)}
  BY DEF Send, DoNotSend, TypeOK, LoopTypes, Key, panel
<1>2. PICK l \in {"sent", "unsent", "caught"} : sched' = [sched EXCEPT !.at = l]
  BY <1>1
<1>3. r \in RunRecord /\ Key(r) \in Keys(b)
  BY <1>1, KeysFacts
<1>4. /\ l \in Recording /\ sched'.at = l /\ sched'.batch = b
      /\ sched' \in [at : {"idle", "claiming", "running"} \cup Recording,
                     batch : Seq(RunRecord), canceled : BOOLEAN]
  BY <1>2 DEF TypeOK, LoopTypes, Recording
<1>5. sent' \subseteq [id : Nat, task : Tasks, for : Nat] /\ sent' \subseteq Known
  <2>1. Key(r) \in [id : Nat, task : Tasks, for : Nat]
    BY <1>3 DEF Key, RunRecord
  <2> QED BY <1>1, <1>3, <2>1 DEF TypeOK, LoopTypes, Known
<1>6. Keys(b) \subseteq Known
  BY DEF Known
<1> HIDE DEF b, r
<1> QED BY <1>1, <1>4, <1>5, <1>6 DEF LoopStep, LoopTypes, Passes, TypeOK

LEMMA WrittenLoopStep ==
  ASSUME TypeOK, Written
  PROVE  LoopStep
<1>1. /\ writing' = NoWrite /\ sent' = sent /\ LoopTypes /\ writing.claims \in Seq(RunRecord)
      /\ ~(writing'.by = "scheduler" /\ writing'.what = "record")
  BY NothingKnown DEF Written, TypeOK, FileTypes
<1>2. CASE writing.what = "claim" /\ writing.by = "scheduler"
  <2>1. GotClaims(writing.claims)
    BY <1>2 DEF Written
  <2>2. CASE writing.claims = <<>> \/ sched.canceled
    BY <1>1, <2>1, <2>2, LoopIdles DEF GotClaims
  <2>3. CASE ~(writing.claims = <<>> \/ sched.canceled)
    <3>1. sched' = [sched EXCEPT !.at = "running", !.batch = writing.claims]
      BY <2>1, <2>3 DEF GotClaims
    <3>2. /\ sched'.at = "running" /\ sched'.batch = writing.claims
          /\ sched' \in [at : {"idle", "claiming", "running"} \cup Recording,
                         batch : Seq(RunRecord), canceled : BOOLEAN]
      BY <1>1, <3>1 DEF LoopTypes
    <3>3. Keys(sched'.batch) \subseteq Known
      BY <3>2 DEF Known
    <3> QED BY <1>1, <3>2, <3>3, IdleTypes, LoopMoves
  <2> QED BY <2>2, <2>3
<1>3. CASE writing.what = "record" /\ writing.by = "scheduler"
  <2>1. Recorded
    BY <1>3 DEF Written
  <2>2. sched.at \in Recording /\ sched.batch # <<>> /\ sched.batch \in Seq(RunRecord)
    BY <1>1, <1>3 DEF LoopTypes
  <2>3. Tail(sched.batch) \in Seq(RunRecord) /\ Keys(Tail(sched.batch)) \subseteq Known
    BY <2>2, KeysFacts DEF Known
  <2>4. sched' = [sched EXCEPT !.at = "running", !.batch = Tail(sched.batch)]
    BY <2>1 DEF Recorded
  <2>5. /\ sched'.at = "running" /\ sched'.batch = Tail(sched.batch)
        /\ sched' \in [at : {"idle", "claiming", "running"} \cup Recording,
                       batch : Seq(RunRecord), canceled : BOOLEAN]
    BY <1>1, <2>3, <2>4 DEF LoopTypes
  <2> QED BY <1>1, <2>3, <2>5, IdleTypes, LoopMoves
<1>4. CASE ~(writing.what = "claim" /\ writing.by = "scheduler")
           /\ ~(writing.what = "record" /\ writing.by = "scheduler")
  <2>1. sched' = sched
    BY <1>4 DEF Written
  <2> QED BY <1>1, <2>1, LoopStays
<1> QED BY <1>2, <1>3, <1>4

LEMMA CommandLoopStep ==
  ASSUME TypeOK, Panel \/ Claim \/ RecordRunFinished
  PROVE  LoopStep
<1>1. LoopTypes
  BY DEF TypeOK
<1>2. CASE Panel
  <2>1. /\ sched' = sched /\ sent' = sent
        /\ writing' = writing \/ writing'.by # "scheduler"
    <3>1. CASE EditTask \/ NewTask \/ Save
      BY <3>1 DEF EditTask, NewTask, Save, scheduler
    <3>2. CASE \E on \in BOOLEAN, s \in Schedules : UpsertTask(on, s)
      BY <3>2 DEF UpsertTask, Write, scheduler
    <3>3. CASE \E k \in Tasks : DeleteTask(k)
      BY <3>3 DEF DeleteTask, Write, scheduler
    <3>4. CASE \E k \in Tasks, on \in BOOLEAN : SetTaskEnabled(k, on)
      BY <3>4 DEF SetTaskEnabled, Write, scheduler
    <3> QED BY <1>2, <3>1, <3>2, <3>3, <3>4 DEF Panel
  <2>2. writing'.by = "scheduler" /\ writing'.what = "record" => sched.at \in Recording
    BY <1>1, <2>1 DEF LoopTypes
  <2> QED BY <1>1, <2>1, <2>2, LoopStays
<1>3. CASE Claim
  <2>1. /\ sent' = sent /\ Unlocked
        /\ \/ UNCHANGED sched /\ writing'.what = "claim"
           \/ GotClaims(<<>>) /\ writing' = writing
    BY <1>3 DEF Claim, Write, panel
  <2>2. CASE UNCHANGED sched /\ writing'.what = "claim"
    BY <1>1, <2>1, <2>2, LoopStays
  <2>3. CASE GotClaims(<<>>) /\ writing' = writing
    <3>1. sched' = Idle
      BY <2>3 DEF GotClaims
    <3>2. writing'.what = "none"
      BY <2>1, <2>3, NothingKnown DEF Unlocked
    <3> QED BY <1>1, <2>1, <3>1, <3>2, LoopIdles
  <2> QED BY <2>1, <2>2, <2>3
<1>4. CASE RecordRunFinished
  <2>1. /\ sent' = sent /\ Unlocked /\ sched.at \in Recording
        /\ \/ Refused /\ writing' = writing
           \/ UNCHANGED sched
    BY <1>4 DEF RecordRunFinished, panel
  <2>2. CASE Refused /\ writing' = writing
    <3>1. writing'.what = "none"
      BY <2>1, <2>2, NothingKnown DEF Unlocked
    <3> QED BY <1>1, <2>1, <2>2, <3>1, LoopRefused
  <2>3. CASE UNCHANGED sched
    BY <1>1, <2>1, <2>3, LoopStays
  <2> QED BY <2>1, <2>2, <2>3
<1> QED BY <1>2, <1>3, <1>4

LEMMA OtherLoopStep ==
  ASSUME TypeOK, \/ Mount \/ Teardown \/ Tick \/ LoopEnds \/ Unparsable \/ OpenFails
                 \/ WriteFails \/ Quit \/ Reload \/ Advance \/ StepBack \/ UNCHANGED vars
  PROVE  LoopStep
<1>1. LoopTypes /\ sent' = sent
  <2>1. sent' = sent
    BY DEF Mount, Teardown, Tick, LoopEnds, Unparsable, OpenFails, WriteFails, Quit, Reload,
           Advance, StepBack, vars, scheduler
  <2> QED BY <2>1 DEF TypeOK
<1>2. CASE Mount \/ Advance \/ StepBack \/ UNCHANGED vars
  <2>1. sched' = sched /\ writing' = writing
    BY <1>2 DEF Mount, Advance, StepBack, vars, scheduler
  <2>2. writing'.by = "scheduler" /\ writing'.what = "record" => sched.at \in Recording
    BY <1>1, <2>1 DEF LoopTypes
  <2> QED BY <1>1, <2>1, <2>2, LoopStays
<1>3. CASE Teardown
  <2>1. sched' = [sched EXCEPT !.canceled = (sched.at # "idle")] /\ writing' = writing
    BY <1>3 DEF Teardown
  <2>2. /\ sched'.at = sched.at /\ sched'.batch = sched.batch
        /\ sched' \in [at : {"idle", "claiming", "running"} \cup Recording,
                       batch : Seq(RunRecord), canceled : BOOLEAN]
        /\ sched.at \in {"idle", "claiming", "running"} \cup Recording
    BY <1>1, <2>1 DEF LoopTypes
  <2>3. /\ sched.at \in Recording => sched.batch # <<>>
        /\ writing'.by = "scheduler" /\ writing'.what = "record" => sched.at \in Recording
        /\ Keys(sched.batch) \subseteq Known
    BY <1>1, <2>1 DEF LoopTypes, Known
  <2> QED BY <1>1, <2>2, <2>3, LoopMoves
<1>4. CASE Tick
  <2>1. sched' = [Idle EXCEPT !.at = "claiming"] /\ writing' = writing /\ sched.at = "idle"
    BY <1>4 DEF Tick
  <2>2. /\ sched'.at = "claiming" /\ sched'.batch = <<>>
        /\ sched' \in [at : {"idle", "claiming", "running"} \cup Recording,
                       batch : Seq(RunRecord), canceled : BOOLEAN]
    BY <2>1, IdleTypes
  <2>3. ~(writing'.by = "scheduler" /\ writing'.what = "record")
    BY <1>1, <2>1, IdleTypes DEF LoopTypes
  <2>4. Keys(sched'.batch) \subseteq Known
    BY <2>2 DEF Keys
  <2> QED BY <1>1, <2>2, <2>3, <2>4, IdleTypes, LoopMoves
<1>5. CASE LoopEnds
  <2>1. sched' = Idle /\ writing' = writing /\ sched.at = "running"
    BY <1>5 DEF LoopEnds
  <2>2. ~(writing'.by = "scheduler" /\ writing'.what = "record")
    BY <1>1, <2>1, IdleTypes DEF LoopTypes
  <2> QED BY <1>1, <2>1, <2>2, LoopIdles
<1>6. CASE Unparsable \/ OpenFails
  <2>1. Unlocked /\ writing' = writing /\ SomebodyRefused
    BY <1>6 DEF Unparsable, OpenFails
  <2>2. writing'.what = "none"
    BY <2>1, NothingKnown DEF Unlocked
  <2>3. Refused \/ UNCHANGED sched
    BY <2>1 DEF SomebodyRefused
  <2> QED BY <1>1, <2>2, <2>3, LoopRefused, LoopStays
<1>7. CASE WriteFails
  <2>1. writing' = NoWrite /\ (Refused \/ UNCHANGED sched)
    BY <1>7 DEF WriteFails
  <2>2. writing'.what = "none"
    BY <2>1, NothingKnown
  <2> QED BY <1>1, <2>1, <2>2, LoopRefused, LoopStays
<1>8. CASE Quit
  <2>1. sched' = Idle /\ writing' = NoWrite
    BY <1>8 DEF Quit
  <2>2. writing'.what = "none"
    BY <2>1, NothingKnown
  <2> QED BY <1>1, <2>1, <2>2, LoopIdles
<1>9. CASE Reload
  <2>1. /\ sched' = Idle
        /\ writing' = IF Unlocked THEN writing ELSE [writing EXCEPT !.by = "nobody"]
    BY <1>9 DEF Reload
  <2>2. ~(writing'.by = "scheduler" /\ writing'.what = "record")
    <3>1. CASE Unlocked
      BY <2>1, <3>1, NothingKnown DEF Unlocked
    <3>2. CASE ~Unlocked
      BY <2>1, <3>2 DEF TypeOK, FileTypes
    <3> QED BY <3>1, <3>2
  <2> QED BY <1>1, <2>1, <2>2, LoopIdles
<1> QED BY <1>2, <1>3, <1>4, <1>5, <1>6, <1>7, <1>8, <1>9

LEMMA LoopStepHolds ==
  ASSUME TypeOK, [Next]_vars
  PROVE  LoopStep
  BY LoopRuns, WrittenLoopStep, CommandLoopStep, OtherLoopStep DEF Next, Loop

LEMMA EmptySeq == \A S : <<>> \in Seq(S)
  OBVIOUS

LEMMA PanelStep ==
  ASSUME TypeOK, [Next]_vars
  PROVE  PanelTypes'
<1> DEFINE D == [id : Tasks, last : Nat]
<1>1. draft \in Seq(D) /\ saving \in BOOLEAN /\ (saving => draft # <<>>)
  BY DEF TypeOK, PanelTypes
<1> HIDE DEF D
<1>2. ASSUME NEW d \in D, ~saving, draft' = <<d>>, saving' = saving
      PROVE  PanelTypes'
  <2>1. <<d>> \in Seq(D) /\ <<d>> # <<>>
    OBVIOUS
  <2> QED BY <1>1, <1>2, <2>1 DEF PanelTypes, D
<1>3. ASSUME draft' = draft, saving' \in BOOLEAN, saving' => draft # <<>>
      PROVE  PanelTypes'
  <2>1. draft' \in Seq([id : Tasks, last : Nat])
    BY <1>1, <1>3 DEF D
  <2>2. saving' => draft' # <<>>
    BY <1>3, Zenon
  <2> QED BY <1>3, <2>1, <2>2, Zenon DEF PanelTypes
<1>4. ASSUME draft' = <<>>, saving' = FALSE
      PROVE  PanelTypes'
  <2>1. draft' \in Seq([id : Tasks, last : Nat])
    BY <1>4, EmptySeq
  <2> QED BY <1>4, <2>1 DEF PanelTypes
<1>5. CASE EditTask
  <2>1. PICK i \in DOMAIN Stored.tasks :
          draft' = <<[id |-> Stored.tasks[i].id, last |-> Stored.tasks[i].last]>>
    BY <1>5 DEF EditTask
  <2>2. Stored \in FileState
    BY ContentTypes DEF TypeOK
  <2>3. [id |-> Stored.tasks[i].id, last |-> Stored.tasks[i].last] \in D
    BY <2>2, TaskTypes DEF D
  <2>4. draft = <<>> /\ saving' = saving
    BY <1>5 DEF EditTask
  <2> QED BY <1>1, <1>2, <2>1, <2>3, <2>4
<1>6. CASE NewTask
  <2>1. PICK k \in Tasks : draft' = <<[id |-> k, last |-> NoTime]>>
    BY <1>6 DEF NewTask
  <2>2. [id |-> k, last |-> NoTime] \in D
    BY DEF D, NoTime
  <2>3. draft = <<>> /\ saving' = saving
    BY <1>6 DEF NewTask
  <2> QED BY <1>1, <1>2, <2>1, <2>2, <2>3
<1>7. CASE Save
  BY <1>3, <1>7 DEF Save
<1>8. CASE Written
  <2>1. /\ draft' = IF SavesDraft \/ (writing.by = "editor" /\ ~saving) THEN <<>> ELSE draft
        /\ saving' = (saving /\ ~SavesDraft)
    BY <1>8 DEF Written
  <2>2. CASE SavesDraft \/ (writing.by = "editor" /\ ~saving)
    <3>1. draft' = <<>> /\ saving' = FALSE
      BY <1>1, <2>1, <2>2
    <3> QED BY <1>4, <3>1
  <2>3. CASE ~(SavesDraft \/ (writing.by = "editor" /\ ~saving))
    <3>1. draft' = draft /\ saving' \in BOOLEAN /\ (saving' => draft # <<>>)
      BY <1>1, <2>1, <2>3
    <3> QED BY <1>3, <3>1
  <2> QED BY <2>2, <2>3
<1>9. CASE WriteFails
  <2>1. draft' = draft /\ saving' = (saving /\ ~SavesDraft)
    BY <1>9 DEF WriteFails
  <2>2. saving' \in BOOLEAN /\ (saving' => draft # <<>>)
    BY <1>1, <2>1
  <2> QED BY <1>3, <2>1, <2>2
<1>10. CASE Unparsable \/ OpenFails
  <2>1. draft' = draft /\ SomebodyRefused
    BY <1>10 DEF Unparsable, OpenFails
  <2>2. saving' = saving \/ saving' = FALSE
    BY <2>1 DEF SomebodyRefused
  <2> QED BY <1>1, <1>3, <2>1, <2>2
<1>11. CASE Quit \/ Reload
  BY <1>4, <1>11 DEF Quit, Reload
<1>12. CASE UNCHANGED <<draft, saving>>
  BY <1>1, <1>3, <1>12
<1>13. CASE \E on \in BOOLEAN, s \in Schedules : UpsertTask(on, s)
  BY <1>12, <1>13 DEF UpsertTask, panel
<1>14. CASE \/ \E k \in Tasks : DeleteTask(k)
            \/ \E k \in Tasks, on \in BOOLEAN : SetTaskEnabled(k, on)
  BY <1>12, <1>14 DEF DeleteTask, SetTaskEnabled
<1>15. CASE \/ Claim \/ RecordRunFinished \/ Mount \/ Teardown \/ Tick \/ Send \/ DoNotSend
            \/ LoopEnds \/ Advance \/ StepBack \/ UNCHANGED vars
  BY <1>12, <1>15 DEF Claim, RecordRunFinished, Mount, Teardown, Tick, Send, DoNotSend, LoopEnds,
                      Advance, StepBack, vars, panel
<1> QED BY <1>5, <1>6, <1>7, <1>8, <1>9, <1>10, <1>11, <1>13, <1>14, <1>15 DEF Next, Panel, Loop

LEMMA CounterStep ==
  ASSUME TypeOK, Sound(Content), [Next]_vars
  PROVE  now' \in Nat /\ claimed' \in Nat /\ forgot' \in BOOLEAN
<1>1. now \in Nat /\ claimed \in Nat /\ forgot \in BOOLEAN
  BY DEF TypeOK
<1>2. CASE Claim
  <2>1. now' = now
    BY <1>2 DEF Claim
  <2> DEFINE runs == Reconcile(Stored.runs, now)
             I == {i \in DOMAIN Stored.tasks : Claimable(Stored.tasks[i], runs)}
  <2>2. PICK due \in InOrder(I) :
           LET claims == NewRuns(Stored.tasks, runs, due)
           IN  \/ /\ claimed' = claimed + Len(claims)
                  /\ forgot' = (forgot \/ Len(AllRuns(claims, runs)) > MaxRuns)
               \/ UNCHANGED <<claimed, forgot>>
    BY <1>2, Zenon DEF Claim
  <2> DEFINE claims == NewRuns(Stored.tasks, runs, due)
  <2>3. Stored \in FileState /\ OneEntryPerTask(Stored) /\ TasksFit(Stored)
    BY <1>2, ContentTypes DEF Claim, TypeOK, Sound
  <2>4. I \in SUBSET DOMAIN Stored.tasks /\ \A i \in I : Claimable(Stored.tasks[i], runs)
    OBVIOUS
  <2> HIDE DEF I, runs
  <2>5. claims \in Seq(RunRecord)
    BY <1>1, <2>3, <2>4, NewRunsFacts
  <2>6. claimed + Len(claims) \in Nat
    BY <1>1, <2>5
  <2>7. claimed' \in Nat
    BY <1>1, <2>2, <2>6
  <2>8. forgot' \in BOOLEAN
    BY <1>1, <2>2
  <2> QED BY <1>1, <2>1, <2>7, <2>8
<1>3. CASE Advance \/ StepBack
  <2>1. now' \in Nat
    BY <1>1, <1>3 DEF Advance, StepBack
  <2>2. UNCHANGED <<claimed, forgot>>
    BY <1>3 DEF Advance, StepBack
  <2> QED BY <1>1, <2>1, <2>2
<1>4. CASE UNCHANGED <<now, claimed>> /\ (forgot' = forgot \/ forgot' = TRUE)
  BY <1>1, <1>4
<1>5. CASE Panel
  BY <1>4, <1>5 DEF Panel, EditTask, NewTask, Save, UpsertTask, DeleteTask, SetTaskEnabled
<1>6. CASE \/ RecordRunFinished \/ Mount \/ Teardown \/ Tick \/ Send \/ DoNotSend
           \/ LoopEnds \/ Unparsable \/ OpenFails \/ Written \/ WriteFails \/ Reload \/ UNCHANGED vars
  BY <1>4, <1>6 DEF RecordRunFinished, Mount, Teardown, Tick, Send, DoNotSend, LoopEnds,
                    Unparsable, OpenFails, Written, WriteFails, Reload, vars
<1>7. CASE Quit
  <2>1. UNCHANGED <<now, claimed>> /\ (forgot' = forgot \/ forgot' = TRUE)
    BY <1>7 DEF Quit
  <2> QED BY <1>4, <2>1
<1> QED BY <1>2, <1>3, <1>5, <1>6, <1>7 DEF Next, Loop

\* The panel claims nothing.
LEMMA PanelWrites ==
  ASSUME Panel
  PROVE  \/ writing' = writing
         \/ writing'.claims = <<>> /\ writing'.what \in {"upsert", "delete", "switch"}
<1>1. \A by, what, s : Write(by, what, s, <<>>) => writing'.claims = <<>> /\ writing'.what = what
  BY DEF Write
<1>2. CASE EditTask \/ NewTask \/ Save
  BY <1>2 DEF EditTask, NewTask, Save
<1>3. ASSUME NEW on \in BOOLEAN, NEW s \in Schedules, UpsertTask(on, s)
      PROVE  writing'.claims = <<>> /\ writing'.what = "upsert"
  BY <1>1, <1>3 DEF UpsertTask
<1>4. ASSUME NEW k \in Tasks, DeleteTask(k)
      PROVE  writing'.claims = <<>> /\ writing'.what = "delete"
  BY <1>1, <1>4 DEF DeleteTask
<1>5. ASSUME NEW k \in Tasks, NEW on \in BOOLEAN, SetTaskEnabled(k, on)
      PROVE  writing'.claims = <<>> /\ writing'.what = "switch"
  BY <1>1, <1>5 DEF SetTaskEnabled
<1> QED BY <1>2, <1>3, <1>4, <1>5 DEF Panel

\* What a command is writing was known, or is a claim whose runs the file will have.
LEMMA ClaimsStep ==
  ASSUME TypeOK, Sound(Content), [Next]_vars
  PROVE  \/ writing'.claims = writing.claims
         \/ writing'.claims = <<>>
         \/ ~forgot' => HasAll(Content', writing'.claims)
<1>1. CASE Quiet \/ UNCHANGED vars
  BY <1>1, QuietSteps DEF vars
<1>2. CASE Panel
  BY <1>2, PanelWrites
<1> QED BY <1>1, <1>2, NextCases, ClaimFileStep, RecordFileStep, WriteEnds

\* A run that was in the file is among those a step keeps.
LEMMA HoldsKept ==
  ASSUME NEW s, NEW n, RunsKept(s, n), NEW r, Holds(s, r)
  PROVE  Holds(n, r)
<1>1. PICK i \in DOMAIN s.runs : s.runs[i].id = r.id /\ s.runs[i].task = r.task /\ s.runs[i].for = r.for
  BY DEF Holds
<1>2. Holds(n, s.runs[i])
  BY DEF RunsKept
<1> QED BY <1>1, <1>2 DEF Holds

LEMMA HasAllKeys ==
  ASSUME NEW n, NEW q, HasAll(n, q), NEW r \in Keys(q)
  PROVE  Holds(n, r)
<1>1. PICK i \in DOMAIN q : r = Key(q[i])
  BY DEF Keys
<1>2. r.id = q[i].id /\ r.task = q[i].task /\ r.for = q[i].for
  BY <1>1 DEF Key
<1>3. Holds(n, q[i])
  BY DEF HasAll
<1> QED BY <1>2, <1>3 DEF Holds

LEMMA RememberedStep ==
  ASSUME IInv, [Next]_vars
  PROVE  Remembered'
<1> SUFFICES ASSUME ~forgot', NEW r \in Known' PROVE Holds(Content', r)
  BY DEF Remembered
<1>1. FileStep /\ LoopStep
  BY FileStepHolds, LoopStepHolds DEF IInv
<1>2. ~forgot /\ RunsKept(Content, Content')
  BY <1>1 DEF FileStep
<1>3. ASSUME r \in Known PROVE Holds(Content', r)
  <2>1. Holds(Content, r)
    BY <1>2, <1>3 DEF IInv, Remembered
  <2> QED BY <1>2, <2>1, HoldsKept
<1>4. CASE r \in Keys(sched'.batch) \/ r \in sent'
  BY <1>1, <1>3, <1>4 DEF LoopStep, Passes
<1>5. CASE r \in Keys(writing'.claims)
  <2>1. CASE writing'.claims = writing.claims
    <3>1. r \in Known
      BY <1>5, <2>1 DEF Known
    <3> QED BY <1>3, <3>1
  <2>2. CASE writing'.claims = <<>>
    BY <1>5, <2>2 DEF Keys
  <2>3. CASE HasAll(Content', writing'.claims)
    BY <1>5, <2>3, HasAllKeys
  <2> QED BY <2>1, <2>2, <2>3, ClaimsStep DEF IInv
<1> QED BY <1>4, <1>5 DEF Known

-----------------------------------------------------------------------------
(* The invariant, and what follows from it *)

LEMMA Initially == Init => IInv
<1> SUFFICES ASSUME Init PROVE IInv
  OBVIOUS
<1>1. Content = Nothing /\ Unlocked
  BY DEF Init, Content, Unlocked, Stored, Whole
<1>2. FileTypes
  BY <1>1, NothingKnown, NothingSound DEF Init, FileTypes, Whole
<1>3. LoopTypes
  BY NothingKnown, IdleTypes DEF Init, LoopTypes
<1>4. PanelTypes
  <2>1. draft = <<>> /\ saving = FALSE
    BY DEF Init
  <2>2. draft \in Seq([id : Tasks, last : Nat])
    BY <2>1, EmptySeq
  <2> QED BY <2>1, <2>2 DEF PanelTypes
<1>5. Known = {}
  BY NothingKnown, IdleTypes DEF Init, Known, Keys
<1> QED BY <1>1, <1>2, <1>3, <1>4, <1>5, NothingSound DEF Init, IInv, TypeOK, Remembered

LEMMA Inductive == IInv /\ [Next]_vars => IInv'
<1> SUFFICES ASSUME IInv, [Next]_vars PROVE IInv'
  OBVIOUS
<1>1. FileStep /\ LoopStep
  BY FileStepHolds, LoopStepHolds DEF IInv
<1>2. PanelTypes' /\ now' \in Nat /\ claimed' \in Nat /\ forgot' \in BOOLEAN
  BY PanelStep, CounterStep DEF IInv
<1>3. TypeOK'
  BY <1>1, <1>2 DEF TypeOK, FileStep, LoopStep
<1> QED BY <1>1, <1>3, RememberedStep DEF IInv, FileStep

LEMMA Invariance == Spec => []IInv
  BY Initially, Inductive, PTL DEF Spec

\* The file, the lock, the loop and the editor hold what they are said to hold;
\* in particular whoever records a run has a run in hand.
THEOREM TypeCorrect == Spec => []TypeOK
<1>1. IInv => TypeOK
  BY DEF IInv
<1> QED BY <1>1, Invariance, PTL

\* At most one run of a task is under way in automations.json, whatever the
\* panel, the scheduler, the clock and failing writes do.
THEOREM OneRunAtATime == Spec => []OneRunPerTask
<1>1. IInv => OneRunPerTask
  BY DEF IInv, Sound, OneRunning, OneRunPerTask
<1> QED BY <1>1, Invariance, PTL

\* No prompt is sent twice for one due time of a task, as long as the file has
\* forgotten no run.
THEOREM NoTimeTwice == Spec => []SentOnce
<1>1. IInv => SentOnce
  <2> SUFFICES ASSUME IInv, ~forgot, NEW x \in sent, NEW y \in sent,
                      x.task = y.task, x.for = y.for
               PROVE  x.id = y.id
    BY DEF SentOnce
  <2>1. Holds(Content, x) /\ Holds(Content, y)
    BY DEF IInv, Remembered, Known
  <2>2. PICK i \in DOMAIN Content.runs : /\ Content.runs[i].id = x.id
                                         /\ Content.runs[i].task = x.task
                                         /\ Content.runs[i].for = x.for
    BY <2>1 DEF Holds
  <2>3. PICK j \in DOMAIN Content.runs : /\ Content.runs[j].id = y.id
                                         /\ Content.runs[j].task = y.task
                                         /\ Content.runs[j].for = y.for
    BY <2>1 DEF Holds
  <2>4. i = j
    BY <2>2, <2>3 DEF IInv, Sound, OneRunPerTime
  <2> QED BY <2>2, <2>3, <2>4
<1> QED BY <1>1, Invariance, PTL

\* No command undoes what another one saved.
THEOREM NothingGetsUndone == Spec => NothingIsUndone
<1>1. IInv /\ [Next]_vars => [UndoesNothing]_vars
  BY FileStepHolds DEF IInv, FileStep
<1> QED BY <1>1, Invariance, PTL DEF Spec, NothingIsUndone

\* A claim is of the latest time the task's schedule falls on that has come and
\* that the task has not run for.
THEOREM OnlyTheLatestIsClaimed == Spec => ClaimsLatestDue
<1>1. ASSUME IInv, [Next]_vars PROVE ClaimedIsLatest
  <2> SUFFICES ASSUME writing'.what = "claim", Unlocked PROVE ClaimedIsLatest
    BY DEF ClaimedIsLatest
  <2>1. writing.what = "none"
    BY NothingKnown DEF Unlocked
  <2>2. CASE Panel
    BY <2>1, <2>2, PanelWrites
  <2>3. CASE RecordRunFinished
    BY <2>1, <2>3 DEF RecordRunFinished, Write
  <2>4. CASE Written \/ WriteFails \/ Quit
    BY <2>4, NothingKnown DEF Written, WriteFails, Quit
  <2>5. CASE Reload
    BY <2>1, <2>5 DEF Reload
  <2>6. CASE Quiet \/ UNCHANGED vars
    BY <2>1, <2>6, QuietSteps DEF vars
  <2>7. CASE Claim
    BY <1>1, <2>7, ClaimFileStep DEF IInv
  <2> QED BY <1>1, <2>2, <2>3, <2>4, <2>5, <2>6, <2>7, NextCases
<1>2. IInv /\ [Next]_vars => [ClaimedIsLatest]_vars
  BY <1>1
<1> QED BY <1>2, Invariance, PTL DEF Spec, ClaimsLatestDue
=============================================================================
