----------------------------- MODULE RemoteLive -----------------------------
(***************************************************************************)
(* The live connection of the selected thread to a remote backend          *)
(* (useRemoteThreadLiveConnection).  Selecting a thread, focusing or       *)
(* showing the window, and notifications start attempts that connect the   *)
(* workspace, resume the thread and subscribe; a switch, a blur and a      *)
(* later attempt make those under way stale.  An attempt reads the hook's  *)
(* refs after each await.  All threads are of one workspace; the backend   *)
(* mode is "remote".                                                       *)
(*                                                                         *)
(* The daemon keeps no subscriptions: it answers each call and tells all   *)
(* clients (thread_live_subscribe, thread_live_unsubscribe).  What the     *)
(* calls it has served amount to is kept here as subscribed.  It serves    *)
(* calls in any order; the notifications keep theirs, and an answer may    *)
(* come before or after its own.                                           *)
(***************************************************************************)
EXTENDS Naturals, SequencesExt

CONSTANTS
  Threads,
  NoThread,         \* null
  Home,             \* the thread selected at first
  MaxDisturbances   \* bound: how often the user selects a thread, leaves the
                    \* window or has the thread refreshed, a call fails, the
                    \* session is lost, another client detaches a thread, or
                    \* the time to ignore one's own detach runs out

ASSUME ThreadsAssumption == Home \in Threads /\ NoThread \notin Threads
ASSUME BoundAssumption == MaxDisturbances \in Nat

\* What a settled client may be wrong after: a call failed; the session was
\* lost, or another client detached the thread, while an attempt was under way
\* (the news joins it); the client followed its thread to none, or while
\* hidden, which leaves the attempts under way as they are; the window was left
\* again with a stale attempt under way whose thread was wanted once more; a
\* refresh reconnected the thread it began with; a stale attempt detached its
\* thread; the detach to ignore came while its thread was not selected, so that
\* a later one of that thread is ignored.
Crossings == {"failure", "torn", "joined", "left", "again", "refresh", "dropped",
              "unheard"}

VARIABLES
  selected,   \* activeThreadId
  window,     \* "focused", "visible" (and not focused), "hidden"
  up,         \* the workspace has its session
  client,     \* the hook's refs, what it knows of the workspace, and the
              \* attempts under way, oldest first
  drops,      \* how many unawaited unsubscribes of a thread are under way
  refreshing, \* the thread a mobile refresh is about to reconnect
  subscribed, \* history: what the calls served so far amount to
  events,     \* notifications on their way
  disturbed,  \* how many disturbances there were
  crossed     \* history: the crossings there were

vars == <<selected, window, up, client, drops, refreshing, subscribed, events,
          disturbed, crossed>>

Keys == Threads \cup {NoThread}

Disturb == disturbed < MaxDisturbances /\ disturbed' = disturbed + 1
Cross(kind, on) == crossed' = IF on THEN crossed \cup {kind} ELSE crossed
Fail == Disturb /\ Cross("failure", TRUE)
Undisturbed == UNCHANGED <<disturbed, crossed>>

---------------------------------------------------------------------------
(* An attempt.  The operators map the client to what a step makes of it.   *)
(* reconnectSequenceRef is told by the attempts: one is current while the  *)
(* sequence has not moved since it began.                                  *)

\* reconcileDisconnectedState, and setState at the start of an attempt: the
\* states "live" and "polling" are one here.
Reconcile(c) == [c EXCEPT !.disconnected = ~c.connected]

Invalidate(c) ==
  [c EXCEPT !.attempts = [i \in DOMAIN @ |-> [@[i] EXCEPT !.current = FALSE]]]

Over(c, i) == [c EXCEPT !.attempts = RemoveAt(@, i)]

Await(c, i, pc) == [c EXCEPT !.attempts[i].pc = pc, !.attempts[i].answer = "none"]

\* Mutant: one's own detach is not announced to the handler of notifications.
AttachUnannounced(c, i) ==
  LET t == c.attempts[i].key
  IN  IF ~c.attempts[i].current THEN Over(c, i)
      ELSE IF c.active = t THEN Await(c, i, "dropping") ELSE Await(c, i, "subscribing")

\* After the resume: what the client itself is attached to is detached first.
Attach(c, i) ==
  LET t == c.attempts[i].key
  IN  IF ~c.attempts[i].current THEN Over(c, i)
      ELSE IF c.active = t
           THEN Await([c EXCEPT !.ignored = @ \cup {t}], i, "dropping")
           ELSE Await(c, i, "subscribing")

\* After the workspace is connected.
Resume(c, i) ==
  IF c.attempts[i].current /\ c.attempts[i].resume
  THEN Await(c, i, "resuming") ELSE Attach(c, i)

\* reconnectLive: joins the current attempt for the same thread, or starts one.
ReconnectLive(c, t, resume) ==
  LET wanted == [c EXCEPT !.desired = t]
      begun == [Reconcile(Invalidate(wanted)) EXCEPT
                  !.attempts = Append(@, [key |-> t, resume |-> resume, current |-> TRUE,
                                          pc |-> "connecting", answer |-> "none"])]
  IN  IF \E i \in DOMAIN c.attempts : c.attempts[i].current /\ c.attempts[i].key = t
      THEN wanted
      ELSE IF c.connected THEN Resume(begun, Len(begun.attempts)) ELSE begun

\* The catch: only the current attempt may report.
Failed(c, i) ==
  Over(IF c.attempts[i].current THEN Reconcile(c) ELSE c, i)

---------------------------------------------------------------------------
(* The steps of an attempt. *)

\* reconnectWorkspace answers; the workspace list shows it with the next render.
ConnectAnswered(i) ==
  /\ client.attempts[i].pc = "connecting"
  /\ \/ /\ client' = Resume(client, i)
        /\ up' = TRUE
        /\ events' = IF up THEN events
                     ELSE Append(events, [kind |-> "connected", thread |-> NoThread])
        /\ Undisturbed
     \/ /\ Fail
        /\ client' = Failed(client, i)
        /\ UNCHANGED <<up, events>>
  /\ UNCHANGED <<selected, window, drops, refreshing, subscribed>>

ResumeAnswered(i) ==
  /\ client.attempts[i].pc = "resuming"
  /\ \/ /\ up
        /\ client' = Attach(client, i)
        /\ Undisturbed
     \/ /\ (IF up THEN Fail ELSE Undisturbed)
        /\ client' = Failed(client, i)
  /\ UNCHANGED <<selected, window, up, drops, refreshing, subscribed, events>>

\* The unsubscribe is over, however it ended: the client is attached to nothing.
DropAnswered(i) ==
  /\ client.attempts[i].pc = "dropping" /\ client.attempts[i].answer # "none"
  /\ client' = Await([client EXCEPT !.active = NoThread], i, "subscribing")
  /\ UNCHANGED <<selected, window, up, drops, refreshing, subscribed, events>>
  /\ Cross("dropped", ~client.attempts[i].current)
  /\ UNCHANGED disturbed

\* Mutant: a stale attempt ends as it is.
SubscribeAnsweredNoCleanup(i) ==
  /\ client.attempts[i].pc = "subscribing" /\ client.attempts[i].answer # "none"
  /\ LET a == client.attempts[i]
     IN  client' = CASE a.answer = "failed" -> Failed(client, i)
                     [] a.answer = "ok" /\ a.current ->
                          Over([client EXCEPT !.active = a.key, !.disconnected = FALSE], i)
                     [] OTHER -> Over(client, i)
  /\ UNCHANGED <<selected, window, up, drops, refreshing, subscribed, events>>
  /\ Undisturbed

\* A stale attempt undoes its subscription, unless its thread is wanted again.
SubscribeAnswered(i) ==
  /\ client.attempts[i].pc = "subscribing" /\ client.attempts[i].answer # "none"
  /\ LET a == client.attempts[i]
     IN  client' = CASE a.answer = "failed" -> Failed(client, i)
                     [] a.answer = "ok" /\ a.current ->
                          Over([client EXCEPT !.active = a.key, !.disconnected = FALSE], i)
                     [] a.answer = "ok" /\ ~a.current /\ client.desired # a.key ->
                          Await(client, i, "cleaning")
                     [] OTHER -> Over(client, i)
  /\ UNCHANGED <<selected, window, up, drops, refreshing, subscribed, events>>
  /\ Undisturbed

CleanupAnswered(i) ==
  /\ client.attempts[i].pc = "cleaning" /\ client.attempts[i].answer # "none"
  /\ client' = Over(client, i)
  /\ UNCHANGED <<selected, window, up, drops, refreshing, subscribed, events>>
  /\ Undisturbed

---------------------------------------------------------------------------
(* The daemon. *)

ServeSubscribe(t) ==
  /\ subscribed' = subscribed \cup {t}
  /\ events' = Append(events, [kind |-> "attached", thread |-> t])

ServeUnsubscribe(t) ==
  /\ subscribed' = subscribed \ {t}
  /\ events' = Append(events, [kind |-> "detached", thread |-> t])

\* A call fails without a session.
Refuse ==
  /\ (IF up THEN Fail ELSE Undisturbed)
  /\ UNCHANGED <<subscribed, events>>

Serve(i) ==
  LET a == client.attempts[i]
  IN  /\ a.pc \in {"dropping", "subscribing", "cleaning"} /\ a.answer = "none"
      /\ \/ /\ up
            /\ IF a.pc = "subscribing" THEN ServeSubscribe(a.key)
               ELSE ServeUnsubscribe(a.key)
            /\ client' = [client EXCEPT !.attempts[i].answer = "ok"]
            /\ Undisturbed
         \/ /\ Refuse
            /\ client' = [client EXCEPT !.attempts[i].answer = "failed"]
      /\ UNCHANGED <<selected, window, up, drops, refreshing>>

ServeDrop(t) ==
  /\ drops[t] > 0
  /\ drops' = [drops EXCEPT ![t] = @ - 1]
  /\ \/ up /\ ServeUnsubscribe(t) /\ Undisturbed
     \/ Refuse
  /\ UNCHANGED <<selected, window, up, client, refreshing>>

\* Another client of the daemon leaves the thread, for all of them: a
\* subscription is named by its thread.
DetachedByOther(t) ==
  /\ up /\ Disturb
  /\ ServeUnsubscribe(t)
  /\ UNCHANGED <<selected, window, up, client, drops, refreshing, crossed>>

---------------------------------------------------------------------------
(* The effect that follows the selected thread and its workspace. *)

\* unsubscribeByKey, not awaited.
Drop(t) == drops' = IF t = NoThread THEN drops ELSE [drops EXCEPT ![t] = @ + 1]

\* c is the client with what the render has changed, t the selected thread.
Follow(c, t) ==
  LET kept == [c EXCEPT !.desired = t, !.active = IF @ = t THEN t ELSE NoThread]
  IN  /\ Drop(IF c.active = t THEN NoThread ELSE c.active)
      /\ IF t = NoThread \/ window = "hidden" THEN client' = Reconcile(kept)
         ELSE IF kept.active = t /\ ~c.disconnected /\ c.connected THEN client' = kept
         ELSE \E resume \in BOOLEAN : client' = ReconnectLive(kept, t, resume)

\* The client wants a thread it is not attached to, and no current attempt has
\* a subscription to undo (one that was refused has none): a subscription the
\* thread may still have is nobody's.
Forsakes ==
  /\ client.desired # NoThread /\ client.active # client.desired
  /\ \A i \in DOMAIN client.attempts :
       client.attempts[i].current =>
         client.attempts[i].pc # "subscribing" \/ client.attempts[i].answer = "failed"

LeavesAttempts(t) ==
  client.attempts # <<>> /\ (t = NoThread \/ window = "hidden")

SelectThread(t) ==
  /\ t # selected /\ Disturb
  /\ crossed' = crossed \cup (IF LeavesAttempts(t) THEN {"left"} ELSE {})
                        \cup (IF Forsakes THEN {"again"} ELSE {})
  /\ selected' = t
  /\ Follow(client, t)
  /\ UNCHANGED <<window, up, refreshing, subscribed, events>>

\* The app-server exits, and the workspace list says so.
LoseSession ==
  /\ up /\ Disturb
  /\ crossed' = crossed \cup (IF client.attempts # <<>> THEN {"torn"} ELSE {})
                        \cup (IF LeavesAttempts(selected) THEN {"left"} ELSE {})
  /\ up' = FALSE /\ subscribed' = {}
  /\ Follow([client EXCEPT !.connected = FALSE], selected)
  /\ UNCHANGED <<selected, window, refreshing, events>>

NoticeConnected ==
  /\ up /\ ~client.connected
  /\ Follow([client EXCEPT !.connected = TRUE], selected)
  /\ UNCHANGED <<selected, window, up, refreshing, subscribed, events, disturbed>>
  /\ Cross("left", LeavesAttempts(selected))

---------------------------------------------------------------------------
(* The window. *)

ReconnectActive(c) ==
  IF selected = NoThread THEN c ELSE ReconnectLive(c, selected, TRUE)

HandleBlur ==
  LET c == [Invalidate(client) EXCEPT !.desired = NoThread]
  IN  /\ Drop(c.active)
      /\ client' = IF c.active = NoThread THEN c
                   ELSE Reconcile([c EXCEPT !.active = NoThread])

\* Blur, or hide (visibilitychange).
LeaveWindow(to) ==
  /\ <<window, to>> \in {<<"focused", "visible">>, <<"focused", "hidden">>,
                        <<"visible", "hidden">>}
  /\ Disturb
  /\ Cross("again", Forsakes)
  /\ window' = to
  /\ HandleBlur
  /\ UNCHANGED <<selected, up, refreshing, subscribed, events>>

\* The window is shown, or takes the focus.
EnterWindow(to) ==
  /\ <<window, to>> \in {<<"hidden", "visible">>, <<"visible", "focused">>}
  /\ window' = to
  /\ client' = ReconnectActive(client)
  /\ UNCHANGED <<selected, up, drops, refreshing, subscribed, events>>
  /\ Undisturbed

---------------------------------------------------------------------------
(* handleMobileThreadRefresh: reconnects the thread it began with. *)

RefreshThread ==
  /\ refreshing = NoThread /\ selected # NoThread /\ Disturb
  /\ refreshing' = selected
  /\ UNCHANGED <<selected, window, up, client, drops, subscribed, events, crossed>>

RefreshAnswered ==
  /\ refreshing # NoThread
  /\ refreshing' = NoThread
  /\ client' = ReconnectLive(client, refreshing, FALSE)
  /\ UNCHANGED <<selected, window, up, drops, subscribed, events, disturbed>>
  /\ Cross("refresh", refreshing # selected \/ window = "hidden")

---------------------------------------------------------------------------
(* The notifications. *)

OnAttached(t) ==
  IF t # selected THEN client
  ELSE [client EXCEPT !.active = t, !.disconnected = FALSE]

\* Mutant: a detach is noted, and the thread is not attached again.
OnDetachedNoted(t) ==
  IF t # selected THEN client
  ELSE IF t \in client.ignored THEN [client EXCEPT !.ignored = @ \ {t}]
  ELSE Reconcile([client EXCEPT !.active = NoThread])

OnDetached(t) ==
  IF t # selected THEN client
  ELSE IF t \in client.ignored THEN [client EXCEPT !.ignored = @ \ {t}]
  ELSE LET c == Reconcile([client EXCEPT !.active = NoThread])
       IN  IF window = "focused" THEN ReconnectLive(c, t, TRUE) ELSE c

OnConnected ==
  IF selected = NoThread \/ window = "hidden" THEN client
  ELSE ReconnectLive(client, selected, FALSE)

\* The detach meets an attempt that is subscribing: the handler joins that one.
Joins(e) ==
  /\ e.kind = "detached" /\ e.thread = selected /\ e.thread \notin client.ignored
  /\ \E i \in DOMAIN client.attempts : client.attempts[i].key = e.thread
                                      /\ client.attempts[i].pc = "subscribing"

\* The handler passes over a thread that is not selected, and what it was told
\* to ignore of it stays.
Unheard(e) ==
  e.kind = "detached" /\ e.thread # selected /\ e.thread \in client.ignored

OnEvent ==
  /\ events # <<>>
  /\ events' = Tail(events)
  /\ LET e == Head(events)
     IN  /\ client' = CASE e.kind = "attached" -> OnAttached(e.thread)
                        [] e.kind = "detached" -> OnDetached(e.thread)
                        [] OTHER -> OnConnected
         /\ crossed' = crossed \cup (IF Joins(e) THEN {"joined"} ELSE {})
                               \cup (IF Unheard(e) THEN {"unheard"} ELSE {})
  /\ UNCHANGED <<selected, window, up, drops, refreshing, subscribed, disturbed>>

\* The ten seconds in which one's own detach is ignored run out.
IgnoreExpires(t) ==
  /\ t \in client.ignored /\ Disturb
  /\ client' = [client EXCEPT !.ignored = @ \ {t}]
  /\ UNCHANGED <<selected, window, up, drops, refreshing, subscribed, events, crossed>>

---------------------------------------------------------------------------

Attempts == DOMAIN client.attempts

AttemptStep ==
  \E i \in Attempts : \/ ConnectAnswered(i) \/ ResumeAnswered(i) \/ DropAnswered(i)
                     \/ SubscribeAnswered(i) \/ CleanupAnswered(i)

DaemonStep == (\E i \in Attempts : Serve(i)) \/ (\E t \in Threads : ServeDrop(t))

\* The hook is mounted: its effect starts the first attempt.
Init ==
  /\ selected = Home /\ window = "focused" /\ up = TRUE
  /\ \E resume \in BOOLEAN :
       client = ReconnectLive([active |-> NoThread, desired |-> NoThread, ignored |-> {},
                               connected |-> TRUE, disconnected |-> FALSE,
                               attempts |-> <<>>], Home, resume)
  /\ drops = [t \in Threads |-> 0]
  /\ refreshing = NoThread
  /\ subscribed = {} /\ events = <<>>
  /\ disturbed = 0 /\ crossed = {}

Next ==
  \/ AttemptStep \/ DaemonStep \/ OnEvent \/ NoticeConnected \/ LoseSession
  \/ \E t \in Keys : SelectThread(t)
  \/ \E t \in Threads : DetachedByOther(t) \/ IgnoreExpires(t)
  \/ \E to \in {"focused", "visible", "hidden"} : LeaveWindow(to) \/ EnterWindow(to)
  \/ RefreshThread \/ RefreshAnswered

\* Calls are answered (they time out otherwise), notifications arrive, renders
\* follow and a refresh ends.  The user need not come back to the window.
Fairness ==
  /\ WF_vars(AttemptStep) /\ WF_vars(DaemonStep)
  /\ WF_vars(OnEvent) /\ WF_vars(NoticeConnected) /\ WF_vars(RefreshAnswered)

Spec == Init /\ [][Next]_vars /\ Fairness

---------------------------------------------------------------------------

Quiet ==
  /\ client.attempts = <<>> /\ \A t \in Threads : drops[t] = 0
  /\ refreshing = NoThread /\ events = <<>> /\ (up => client.connected)

\* Once everything is answered and the window has the focus, the selected
\* thread is attached: its subscription is the last word the daemon had on it,
\* and the hook knows.  See Crossings for what may leave it silently detached.
SelectedIsLive ==
  Quiet /\ window = "focused" /\ selected # NoThread
        /\ crossed \cap {"failure", "torn", "joined", "left", "dropped", "refresh",
                         "unheard"} = {} =>
    client.active = selected /\ selected \in subscribed

\* Once everything is answered no other thread is left attached, whatever
\* attempts a switch or a blur overtook, and while the window is hidden none.
NothingStaysAttached ==
  Quiet /\ crossed \cap {"failure", "left", "again", "refresh"} = {} =>
    subscribed \subseteq (IF window = "hidden" THEN {} ELSE {selected})

\* The hook settles: its reaction to the notifications of its own calls does
\* not make it detach and attach the thread for ever.
Settles == <>[]Quiet
=============================================================================
