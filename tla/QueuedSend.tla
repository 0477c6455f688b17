----------------------------- MODULE QueuedSend -----------------------------
(***************************************************************************)
(* The composer's queue (useQueuedSend) over the turns of a thread: what   *)
(* the user submits is sent, steered into the running turn, or queued; two *)
(* effects run after every render, send the head of the queue of the       *)
(* selected thread when it is idle and watch the message in flight.  The   *)
(* callbacks and effects read the last render, their writes are updates of *)
(* whatever the state has become since.                                    *)
(***************************************************************************)
EXTENDS ThreadTurns, SequencesExt

VARIABLE effectsDue   \* the last render's effects have not run yet

vars == <<turnVars, effectsDue>>

Init ==
  /\ state = [processing |-> FALSE, reviewing |-> FALSE, turn |-> NoTurn,
              queue |-> <<>>, inFlight |-> NoMessage, hasStarted |-> FALSE,
              active |-> TRUE]
  /\ rendered = state
  /\ refs = [immediate |-> Unset, last |-> Unset, optimistic |-> FALSE]
  /\ pending = FALSE
  /\ calls = {} /\ interrupts = {}
  /\ running = NoTurn /\ events = <<>>
  /\ fate = [m \in Messages |-> "unsent"]
  /\ reached = [m \in Messages |-> 0]
  /\ disturbed = [kind \in Disturbances |-> 0]
  /\ effectsDue = FALSE

---------------------------------------------------------------------------
(* The composer. *)

Submit(m, how) ==
  /\ fate[m] = "unsent" /\ rendered.active /\ ~rendered.reviewing
  /\ Weight({n \in Messages : fate[n] # "unsent"} \cup {m}) <= MaxSubmitted
  /\ fate' = [fate EXCEPT ![m] = how]

\* The thread looks idle in the last render but is about to be busy: a message
\* sent or queued now crosses another one.
Crossing ==
  IF /\ ~rendered.processing
     /\ \/ state.processing \/ \E c \in calls : c.answer = "preparing"
        \/ state.queue # <<>> \/ rendered.queue # <<>>
  THEN {"crossing"} ELSE {}

\* handleSend: while the thread is processing a message is steered when its
\* intent and the turn allow it, and queued otherwise.
HandleSend(m) ==
  /\ \E intent \in {"queue", "steer"} :
       LET steer == rendered.turn # NoTurn /\ intent = "steer"
       IN  IF rendered.processing /\ ~steer
           THEN /\ Submit(m, "queued")
                /\ state' = [state EXCEPT !.queue = Append(@, m)]
                /\ UNCHANGED <<calls, disturbed>>
           ELSE /\ Submit(m, "sent")
                /\ Send(m, rendered.processing, FALSE)
                /\ DisturbWith(Crossing)
                /\ UNCHANGED state
  /\ UNCHANGED <<rendered, refs, pending, interrupts, running, events,
                 reached, effectsDue>>

\* queueMessage: queued whatever the thread does.
QueueMessage(m) ==
  /\ Submit(m, "queued")
  /\ state' = [state EXCEPT !.queue = Append(@, m)]
  /\ IF \E c \in calls : c.answer = "preparing" /\ ~c.queued
     THEN DisturbWith(Crossing) ELSE UNCHANGED disturbed
  /\ UNCHANGED <<rendered, refs, pending, calls, interrupts, running, events,
                 reached, effectsDue>>

\* The filter of the queue by the message, told by the places it keeps.
RemoveQueuedMessage(m) ==
  /\ Disturb("removal")
  /\ rendered.active /\ m \in ToSet(rendered.queue)
  /\ LET kept == {i \in DOMAIN state.queue : state.queue[i] # m}
     IN  \E place \in Bijection(1..Cardinality(kept), kept) :
           /\ \A i, j \in DOMAIN place : i < j => place[i] < place[j]
           /\ state' = [state EXCEPT !.queue = [i \in DOMAIN place |-> @[place[i]]]]
  /\ fate' = Over(fate, m, "removed")
  /\ UNCHANGED <<rendered, refs, pending, calls, interrupts, running, events,
                 reached, effectsDue>>

\* The user opens another thread, or comes back.
SelectThread ==
  /\ Disturb("switch")
  /\ state' = [state EXCEPT !.active = ~@]
  /\ UNCHANGED <<rendered, refs, pending, calls, interrupts, running, events,
                 fate, reached, effectsDue>>

\* runSlashCommand answered.  A queued command that throws goes back to the
\* head of the queue.
CommandAnswered(c) ==
  /\ c.mode = "command" /\ Answered(c)
  /\ IF c.answer = "failed" /\ c.queued
     THEN /\ state' = [state EXCEPT !.queue = <<c.msg>> \o @,
                                    !.inFlight = NoMessage,
                                    !.hasStarted = FALSE]
          /\ UNCHANGED fate
     ELSE fate' = Over(fate, c.msg, "answered") /\ UNCHANGED state
  /\ UNCHANGED <<rendered, refs, pending, interrupts, running, events,
                 reached, disturbed, effectsDue>>

---------------------------------------------------------------------------
(* Rendering and the two effects. *)

Render ==
  /\ rendered # state /\ ~effectsDue
  /\ rendered' = state
  /\ effectsDue' = TRUE
  /\ UNCHANGED <<state, refs, pending, calls, interrupts, running, events,
                 fate, reached, disturbed>>

Busy == rendered.processing \/ rendered.reviewing

\* Mutant: the message in flight is never done.
WatchStart ==
  IF rendered.active /\ rendered.inFlight # NoMessage /\ Busy
  THEN [state EXCEPT !.hasStarted = TRUE]
  ELSE state

\* Mutant: an idle thread is done with its message, started or not.
WatchIdle ==
  IF rendered.active /\ rendered.inFlight # NoMessage /\ ~Busy
  THEN [state EXCEPT !.inFlight = NoMessage]
  ELSE state

\* The first effect: the message in flight has started, or is done.
WatchInFlight ==
  LET watched == rendered.active /\ rendered.inFlight # NoMessage
  IN  IF watched /\ Busy
      THEN [state EXCEPT !.hasStarted = TRUE]
      ELSE IF watched /\ rendered.hasStarted
           THEN [state EXCEPT !.inFlight = NoMessage, !.hasStarted = FALSE]
           ELSE state

CanFlush ==
  /\ rendered.active /\ ~Busy
  /\ rendered.inFlight = NoMessage /\ rendered.queue # <<>>

\* Mutant: the message that is sent stays in the queue.
FlushKeeping ==
  /\ state' = [state EXCEPT !.inFlight = Head(rendered.queue), !.hasStarted = FALSE]
  /\ Send(Head(rendered.queue), FALSE, TRUE)
  /\ UNCHANGED fate

\* The second effect sends the head of the rendered queue and drops the head
\* of the queue as it is now.
Flush ==
  LET m == Head(rendered.queue)
      dropped == IF state.queue = <<>> THEN m ELSE Head(state.queue)
  IN  /\ state' = [state EXCEPT !.inFlight = m, !.hasStarted = FALSE,
                                !.queue = IF @ = <<>> THEN @ ELSE Tail(@)]
      /\ Send(m, FALSE, TRUE)
      /\ fate' = IF dropped = m THEN fate ELSE Over(fate, dropped, "dropped")

RunEffects ==
  /\ effectsDue /\ effectsDue' = FALSE
  /\ IF CanFlush
     THEN Flush
     ELSE state' = WatchInFlight /\ UNCHANGED <<calls, fate>>
  /\ UNCHANGED <<rendered, refs, pending, interrupts, running, events,
                 reached, disturbed>>

---------------------------------------------------------------------------
User == \/ \E m \in Messages :
             HandleSend(m) \/ QueueMessage(m) \/ RemoveQueuedMessage(m)
        \/ SelectThread
        \/ (InterruptTurn \/ RefreshThread) /\ UNCHANGED effectsDue

Answers == \E c \in calls : \/ CommandAnswered(c)
                            \/ /\ Begin(c) \/ StartAnswered(c) \/ SteerAnswered(c)
                                  \/ ReviewAnswered(c) \/ RefreshAnswered(c)
                               /\ UNCHANGED effectsDue

OnEvent == /\ \/ OnTurnStarted \/ OnTurnCompleted \/ OnTurnError
              \/ OnThreadStatusChanged \/ OnItem
           /\ UNCHANGED effectsDue

Server == /\ Serve \/ Work \/ \E c \in calls : Fail(c)
          /\ UNCHANGED effectsDue

Next == User \/ Answers \/ OnEvent \/ Server \/ Render \/ RunEffects

Spec == Init /\ [][Next]_vars

---------------------------------------------------------------------------
(* Properties.  The steps that a claim excuses are the ones after which    *)
(* the code really does otherwise; each is one of the listed hazards.      *)

Undisturbed(kinds) == \A kind \in kinds : disturbed[kind] = 0

\* Nothing is on its way: what happens next, the user or the turn decides.
Settled ==
  /\ calls = {} /\ events = <<>> /\ interrupts = {}
  /\ rendered = state /\ ~effectsDue

\* A message the user sent is in the queue, on its way or at the app-server,
\* unless the user removed it, an error was shown for it, or the flush dropped
\* the head of a queue that had changed since the render it reads.
NothingLost ==
  \A m \in Messages :
    fate[m] \in {"sent", "queued"} =>
      \/ m \in ToSet(state.queue)
      \/ \E c \in calls : c.msg = m
      \/ reached[m] > 0

\* As long as no request fails a message reaches the app-server once and does
\* not wait in the queue after that: the flush, a steer given back to the queue
\* and a submission over a stale render never deliver the same message twice.
DeliveredOnce ==
  Undisturbed({"failure"}) =>
    \A m \in Messages :
      reached[m] <= 1 /\ (reached[m] = 1 => m \notin ToSet(state.queue))

\* Once answers and events are in, the thread shows the turn the app-server
\* runs, is processing exactly while there is one and reviewing exactly while
\* it is a review, whatever the order in which answers, events and renders came
\* and whether or not a turn was dropped for another.
ViewIsTrue ==
  Settled /\ Undisturbed({"interrupt", "refresh", "failure", "late", "stale",
                         "unheeded"}) =>
    /\ state.turn = running
    /\ state.processing <=> running # NoTurn
    /\ state.reviewing <=> running \in Reviews

\* Also after an interrupt, a second report of an end, crossing messages or a
\* stale steer the thread does not keep the spinner, nor the id of a turn, when
\* no turn runs.
SpinnerEnds ==
  Settled /\ running = NoTurn /\ Undisturbed({"refresh", "failure", "late"}) =>
    state.turn = NoTurn /\ ~state.processing

\* The message in flight was never seen to start: it was refused, was a local
\* command, or its turn was over before the thread rendered it.
Stuck == state.inFlight # NoMessage /\ ~state.hasStarted

\* The queue of the selected thread does not wait for nothing: when all is
\* quiet and no turn runs, it is empty or its in-flight message is stuck.
QueueIsServed ==
  /\ Settled /\ running = NoTurn /\ state.active /\ ~Stuck
  /\ Undisturbed({"refresh", "failure", "late", "unheeded"})
  => state.queue = <<>>

\* Queued messages go out one at a time: the flush sends none while the turn of
\* another queued message runs or its request is on its way.  A review is
\* excepted, its two end events let the queue go between them.
OneAtATime ==
  [][/\ effectsDue /\ CanFlush /\ ~effectsDue'
     /\ Undisturbed({"interrupt", "refresh", "failure", "late", "twice",
                    "crossing", "stale"})
     /\ \A m \in Reviews : reached[m] = 0
     => /\ running # NoTurn => fate[running] # "queued"
        /\ \A c \in calls : c.queued => c.mode = "command"]_vars
=============================================================================
