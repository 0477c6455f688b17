---------------------------- MODULE ThreadTurns ----------------------------
(***************************************************************************)
(* The turns of one conversation thread as the frontend follows them: the  *)
(* messages that start or steer a turn, the interrupt, the app-server      *)
(* events, and the render gap between a dispatch and the snapshot that     *)
(* callbacks and effects read.  A turn is named by the message (or review) *)
(* that started it, so a turn id the client holds tells which request it   *)
(* belongs to.  Every table of the frontend is keyed by thread and every   *)
(* handler below touches the entry of its own thread only.                 *)
(*                                                                         *)
(* The code keeps three views of the active turn: the reducer's state, the *)
(* state of the last render (closures, activeTurnIdByThreadRef) and an     *)
(* optimistic cache the event handlers write without waiting for a render. *)
(***************************************************************************)
EXTENDS Naturals, Sequences, FiniteSets, Functions

CONSTANTS
  Messages,      \* what the user submits: plain messages, commands, reviews
  Reviews,       \* those that are "/review ..." commands
  Commands,      \* those that are commands which start no turn ("/status")
  MaxSubmitted,  \* bound: how many of them a behaviour submits, the reviews
                 \* and commands counted twice
  MaxDisturbances \* bound: how many steps of the kinds below a behaviour has

NoTurn == "no turn"          \* the reducer's null
NoMessage == "no message"
Unset == "unset"             \* a ref that was never written

ASSUME MessagesAssumption ==
  /\ {NoTurn, NoMessage, Unset} \cap Messages = {}
  /\ Reviews \subseteq Messages
  /\ Commands \subseteq Messages
  /\ Reviews \cap Commands = {}
ASSUME BoundAssumption == MaxSubmitted \in Nat /\ MaxDisturbances \in Nat

\* The steps beside the plain course of a turn, bounded together: the user
\* stops a turn, removes a queued message, leaves the thread or comes back,
\* has the thread refreshed, sends a message across others the last render
\* does not show busy; a request fails; the app-server reports an item, or an
\* end twice, ends a turn before the answer that names it is read, or drops a
\* turn for another; a steer reaches it after its turn.  Not bounded: the error
\* of a review is taken for that of another turn than the active one.
Disturbances == {"interrupt", "removal", "switch", "refresh", "crossing",
                 "failure", "item", "twice", "late", "overlap", "stale", "unheeded"}

VARIABLES
  state,      \* what the dispatched actions make of the thread
  rendered,   \* the state as of the last render
  refs,       \* the optimistic cache of the turn handlers
  pending,    \* is the thread in pendingInterruptsRef?
  calls,      \* requests the frontend awaits
  interrupts, \* turn/interrupt requests on their way
  running,    \* the turn the app-server runs
  events,     \* its events, in the order the frontend handles them
  fate,       \* history: what became of each message
  reached,    \* history: how often a message reached the app-server
  disturbed   \* history: how often each disturbance happened

turnVars == <<state, rendered, refs, pending, calls, interrupts, running,
              events, fate, reached, disturbed>>

---------------------------------------------------------------------------
Weight(submitted) ==
  Cardinality(submitted) + Cardinality(submitted \cap (Reviews \cup Commands))

DisturbWith(kinds) ==
  LET now == [kind \in Disturbances |->
                disturbed[kind] + IF kind \in kinds THEN 1 ELSE 0]
  IN  /\ kinds # {} => FoldFunction(LAMBDA a, b : a + b, 0, now) <= MaxDisturbances
      /\ disturbed' = now
Disturb(kind) == DisturbWith({kind})

(* The reducer. *)

MarkProcessing(s, on) == [s EXCEPT !.processing = on]
MarkReviewing(s, on) == [s EXCEPT !.reviewing = on]
SetActiveTurnId(s, turn) == [s EXCEPT !.turn = turn]

\* A turn that is over: every handler that ends one dispatches these two.
EndTurn(s) == SetActiveTurnId(MarkProcessing(s, FALSE), NoTurn)

---------------------------------------------------------------------------
(* The optimistic cache. *)

\* getLatestKnownActiveTurnId: what the cache becomes, and the id it gives.
Refreshed ==
  LET turn == rendered.turn
      waiting == /\ refs.optimistic
                 /\ refs.immediate # Unset
                 /\ turn # refs.immediate
                 /\ (refs.last = Unset \/ turn = refs.last)
      settled == IF /\ refs.optimistic /\ refs.immediate # Unset
                 THEN [refs EXCEPT !.optimistic = FALSE,
                                   !.immediate = turn]
                 ELSE refs
  IN  IF waiting
      THEN [refs EXCEPT !.last = turn]
      ELSE IF refs.last # turn
           THEN [settled EXCEPT !.last = turn, !.immediate = turn]
           ELSE settled

LatestKnownTurn ==
  IF refs.immediate # Unset THEN Refreshed.immediate ELSE rendered.turn

\* resetThreadTurnState, the part that concerns the cache.
ResetRefs(r) == [r EXCEPT !.optimistic = FALSE, !.immediate = NoTurn]

---------------------------------------------------------------------------
\* The last word on a message, unless there was one already.
Over(known, m, how) ==
  IF known[m] \in {"sent", "queued"} THEN [known EXCEPT ![m] = how] ELSE known

(* Requests of the frontend.  A call remembers whether the message comes   *)
(* from the queue and which turn a steer expects; its decisions are taken   *)
(* on the render it was made in, and it awaits the thread (connecting the   *)
(* workspace, starting or resuming the thread) before it touches the state. *)

Call(m, mode, turn, queued) ==
  [msg |-> m, mode |-> mode, turn |-> turn, queued |-> queued,
   answer |-> "preparing"]

Send(m, steer, queued) ==
  calls' = calls \cup
    {CASE m \in Reviews  -> Call(m, "review", m, queued)
       [] m \in Commands -> Call(m, "command", NoTurn, queued)
       [] OTHER -> IF steer THEN Call(m, "steer", rendered.turn, queued)
                            ELSE Call(m, "start", m, queued)}

AnswerWith(c, answer) ==
  calls' = (calls \ {c}) \cup {[c EXCEPT !.answer = answer]}

\* sendMessageToThread and startReviewTarget (inline delivery) up to the
\* request.  Without a thread, with a prompt that does not expand, or for a
\* "/review" that only opens its dialog, nothing is sent.
Begin(c) ==
  /\ c \in calls /\ c.answer = "preparing"
  /\ \/ /\ AnswerWith(c, "awaited")
        /\ state' = CASE c.mode \in {"start", "steer"} -> MarkProcessing(state, TRUE)
                      [] c.mode = "review" ->
                           MarkReviewing(MarkProcessing(state, TRUE), TRUE)
                      [] c.mode = "command" -> state
        /\ UNCHANGED fate
     \/ /\ c.mode # "command"
        /\ calls' = calls \ {c} /\ UNCHANGED state
        /\ fate' = Over(fate, c.msg, "refused")
  /\ UNCHANGED <<rendered, refs, pending, interrupts, running, events, reached,
                 disturbed>>

\* refreshThread: asks for the thread as the app-server has it.
RefreshThread ==
  /\ Disturb("refresh")
  /\ calls' = calls \cup
       {[Call(NoMessage, "refresh", NoTurn, FALSE) EXCEPT !.answer = "awaited"]}
  /\ UNCHANGED <<state, rendered, refs, pending, interrupts, running, events,
                 fate, reached>>

\* interruptTurn: the closure's turn id decides whether there is a turn to
\* interrupt or an interrupt to remember.
InterruptTurn ==
  /\ rendered.active /\ rendered.processing
  /\ Disturb("interrupt")
  /\ state' = EndTurn(state)
  /\ IF rendered.turn = NoTurn
     THEN pending' = TRUE /\ UNCHANGED interrupts
     ELSE interrupts' = interrupts \cup {rendered.turn} /\ UNCHANGED pending
  /\ UNCHANGED <<rendered, refs, calls, running, events, fate, reached>>

---------------------------------------------------------------------------
(* Answers. *)

Answered(c) ==
  /\ c \in calls /\ c.answer \notin {"preparing", "awaited"}
  /\ calls' = calls \ {c}

\* turn/start answered: with the id of the new turn, or with an error.
StartAnswered(c) ==
  /\ c.mode = "start" /\ Answered(c)
  /\ IF c.answer = "ok"
     THEN state' = SetActiveTurnId(state, c.turn) /\ UNCHANGED fate
     ELSE state' = EndTurn(state) /\ fate' = Over(fate, c.msg, "refused")
  /\ UNCHANGED <<rendered, refs, pending, interrupts, running, events,
                 reached, disturbed>>

\* Mutant: only a turn that is gone gives the message back.
SteerAnsweredOnce(c) ==
  /\ c.mode = "steer" /\ Answered(c)
  /\ state' = CASE c.answer = "ok" -> SetActiveTurnId(state, c.turn)
                [] c.answer = "stale" ->
                     EndTurn([state EXCEPT !.queue = Append(@, c.msg)])
                [] c.answer = "failed" -> state
  /\ UNCHANGED <<rendered, refs, pending, interrupts, running, events, fate,
                 reached, disturbed>>

\* turn/steer answered.  A turn that is gone ends the local turn too; any
\* failure gives the message back to the queue (handleSend).
SteerAnswered(c) ==
  /\ c.mode = "steer" /\ Answered(c)
  /\ LET kept == [state EXCEPT !.queue = Append(@, c.msg)]
     IN  state' = CASE c.answer = "ok" -> SetActiveTurnId(state, c.turn)
                    [] c.answer = "stale" -> EndTurn(kept)
                    [] c.answer = "failed" -> kept
  /\ fate' = IF c.answer = "ok" THEN fate ELSE [fate EXCEPT ![c.msg] = "queued"]
  /\ UNCHANGED <<rendered, refs, pending, interrupts, running, events, reached,
                 disturbed>>

\* review/start answered: a review that did not start unlocks the thread.
ReviewAnswered(c) ==
  /\ c.mode = "review" /\ Answered(c)
  /\ IF c.answer = "ok"
     THEN UNCHANGED <<state, fate>>
     ELSE /\ \E cleared \in BOOLEAN :   \* an error answer, or a throw
               state' = MarkReviewing(IF cleared THEN EndTurn(state)
                                      ELSE MarkProcessing(state, FALSE), FALSE)
          /\ fate' = Over(fate, c.msg, "refused")
  /\ UNCHANGED <<rendered, refs, pending, interrupts, running, events,
                 reached, disturbed>>

\* thread/resume answered: the answer replaces what the thread knows of its
\* turn, unless its turns leave open whether one is active.
RefreshAnswered(c) ==
  /\ c.mode = "refresh" /\ Answered(c)
  /\ IF c.answer = "ok"
     THEN \E unsure \in BOOLEAN :
            LET keep == rendered.processing /\ c.turn = NoTurn /\ unsure
                turn == IF keep THEN rendered.turn ELSE c.turn
            IN  state' = MarkReviewing(
                           SetActiveTurnId(
                             MarkProcessing(state, keep \/ turn # NoTurn), turn),
                           c.turn \in Reviews)
     ELSE UNCHANGED state
  /\ UNCHANGED <<rendered, refs, pending, interrupts, running, events, fate,
                 reached, disturbed>>

---------------------------------------------------------------------------
(* Events of the app-server. *)

Handle(kind) ==
  /\ events # <<>> /\ Head(events).kind = kind
  /\ events' = Tail(events)

OnTurnStarted ==
  /\ Handle("started")
  /\ LET turn == Head(events).turn IN
     IF pending
     THEN /\ pending' = FALSE
          /\ interrupts' = interrupts \cup {turn}
          /\ UNCHANGED <<state, refs>>
     ELSE /\ state' = SetActiveTurnId(MarkProcessing(state, TRUE), turn)
          /\ refs' = [last |-> rendered.turn, immediate |-> turn,
                      optimistic |-> TRUE]
          /\ UNCHANGED <<pending, interrupts>>
  /\ UNCHANGED <<rendered, calls, running, fate, reached, disturbed>>

\* Mutant: without an active turn no end is believed.
ConcernsActive(turn) == LatestKnownTurn = turn

\* A completion or an error of another turn than the active one is ignored.
Concerns(turn) == LatestKnownTurn \in {NoTurn, turn}

OnTurnCompleted ==
  /\ Handle("completed")
  /\ IF Concerns(Head(events).turn)
     THEN /\ state' = EndTurn(state)
          /\ refs' = ResetRefs(Refreshed)
          /\ pending' = FALSE
     ELSE refs' = Refreshed /\ UNCHANGED <<state, pending>>
  /\ UNCHANGED <<rendered, calls, interrupts, running, fate, reached,
                 disturbed>>

\* Mutant: the error of a turn does not end the review.
OnTurnErrorOnly ==
  /\ Handle("error")
  /\ IF Concerns(Head(events).turn)
     THEN /\ state' = EndTurn(state) /\ refs' = ResetRefs(Refreshed) /\ pending' = FALSE
          /\ UNCHANGED disturbed
     ELSE /\ refs' = Refreshed /\ UNCHANGED <<state, pending>>
          /\ disturbed' = [disturbed EXCEPT !["unheeded"] = @ + 1]
  /\ UNCHANGED <<rendered, calls, interrupts, running, fate, reached>>

\* An error that the app-server will not retry.
OnTurnError ==
  /\ Handle("error")
  /\ IF Concerns(Head(events).turn)
     THEN /\ state' = MarkReviewing(EndTurn(state), FALSE)
          /\ refs' = ResetRefs(Refreshed)
          /\ pending' = FALSE
          /\ UNCHANGED disturbed
     ELSE /\ refs' = Refreshed /\ UNCHANGED <<state, pending>>
          /\ disturbed' = [disturbed EXCEPT !["unheeded"] = @ + 1]
  /\ UNCHANGED <<rendered, calls, interrupts, running, fate, reached>>

\* thread/status/changed; "notLoaded" and thread/closed end a review too.
OnThreadStatusChanged ==
  /\ \/ Handle("idle") /\ state' = EndTurn(state)
     \/ Handle("closed") /\ state' = MarkReviewing(EndTurn(state), FALSE)
  /\ refs' = ResetRefs(refs)
  /\ pending' = FALSE
  /\ UNCHANGED <<rendered, calls, interrupts, running, fate, reached,
                 disturbed>>

\* Items and deltas of a turn, and the two items that frame a review.
OnItem ==
  /\ \/ Handle("item") /\ state' = MarkProcessing(state, TRUE)
     \/ /\ Handle("entered")
        /\ state' = MarkReviewing(MarkProcessing(state, TRUE), TRUE)
     \/ /\ Handle("exited")
        /\ state' = MarkProcessing(MarkReviewing(state, FALSE), FALSE)
  /\ UNCHANGED <<rendered, refs, pending, calls, interrupts, running, fate,
                 reached, disturbed>>

---------------------------------------------------------------------------
(* The app-server (external): one turn at a time; a start over a running   *)
(* turn ends that turn first.  It reports what it does in order, while     *)
(* answers travel on their own.                                            *)

Event(kind, turn) == [kind |-> kind, turn |-> turn]
Begun(m) ==
  <<Event("started", m)>> \o
    IF m \in Reviews THEN <<Event("entered", m)>> ELSE <<>>

Stopped(turn) ==
  (IF turn \in Reviews THEN <<Event("exited", turn)>> ELSE <<>>)
    \o <<Event("completed", turn)>>

\* For a turn that is no review, "error" does what "completed" does and
\* "closed" what "idle" does.
Ended(turn) ==
  {Stopped(turn)} \cup
    {<<Event(kind, turn)>> : kind \in IF turn \in Reviews THEN {"error", "closed"}
                                      ELSE {"idle"}}

\* Is the running turn about to end before its own answer was read?
Late == IF \E c \in calls : c.answer = "ok" /\ running # NoTurn /\ c.turn = running
        THEN {"late"} ELSE {}

ServeStart(c) ==
  /\ c \in calls /\ c.mode \in {"start", "review"} /\ c.answer = "awaited"
  /\ AnswerWith(c, "ok")
  /\ running' = c.msg
  /\ reached' = [reached EXCEPT ![c.msg] = @ + 1]
  /\ IF running = NoTurn
     THEN events' = events \o Begun(c.msg) /\ UNCHANGED disturbed
     ELSE /\ DisturbWith({"overlap"} \cup Late)
          /\ events' = events \o Stopped(running) \o Begun(c.msg)
  /\ UNCHANGED <<state, rendered, refs, pending, interrupts, fate>>

ServeSteer(c) ==
  /\ c \in calls /\ c.mode = "steer" /\ c.answer = "awaited"
  /\ IF running = c.turn
     THEN /\ AnswerWith(c, "ok")
          /\ reached' = [reached EXCEPT ![c.msg] = @ + 1]
          /\ UNCHANGED disturbed
     ELSE AnswerWith(c, "stale") /\ Disturb("stale") /\ UNCHANGED reached
  /\ UNCHANGED <<state, rendered, refs, pending, interrupts, running, events,
                 fate>>

\* A refresh is answered with the turn that runs now.
ServeQuery(c) ==
  /\ c \in calls /\ c.mode \in {"command", "refresh"} /\ c.answer = "awaited"
  /\ calls' = (calls \ {c}) \cup
       {[c EXCEPT !.answer = "ok",
                  !.turn = IF c.mode = "refresh" THEN running ELSE NoTurn]}
  /\ UNCHANGED <<state, rendered, refs, pending, interrupts, running, events,
                 fate, reached, disturbed>>

\* A request that never arrives, or whose answer is lost.
Fail(c) ==
  /\ c \in calls /\ c.answer \in {"awaited", "ok"}
  /\ Disturb("failure")
  /\ AnswerWith(c, "failed")
  /\ UNCHANGED <<state, rendered, refs, pending, interrupts, running, events,
                 fate, reached>>

ServeInterrupt(turn) ==
  /\ turn \in interrupts
  /\ interrupts' = interrupts \ {turn}
  /\ IF running = turn
     THEN /\ running' = NoTurn
          /\ events' = events \o Stopped(turn)
          /\ DisturbWith(Late)
     ELSE UNCHANGED <<running, events, disturbed>>
  /\ UNCHANGED <<state, rendered, refs, pending, calls, fate, reached>>

Work ==
  /\ running # NoTurn
  /\ Disturb("item")
  /\ events' = Append(events, Event("item", running))
  /\ UNCHANGED <<state, rendered, refs, pending, calls, interrupts, running,
                 fate, reached>>

Finish ==
  /\ running # NoTurn
  /\ running' = NoTurn
  /\ \E ending \in Ended(running) :
       \/ events' = events \o ending /\ DisturbWith(Late)
       \/ /\ events' = events \o ending \o <<Event("idle", running)>>
          /\ DisturbWith({"twice"} \cup Late)
  /\ UNCHANGED <<state, rendered, refs, pending, calls, interrupts, fate,
                 reached>>

Serve ==
  \/ \E c \in calls : ServeStart(c) \/ ServeSteer(c) \/ ServeQuery(c)
  \/ \E turn \in interrupts : ServeInterrupt(turn)
  \/ Finish
=============================================================================
