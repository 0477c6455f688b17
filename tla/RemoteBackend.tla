---------------------------- MODULE RemoteBackend ----------------------------
(***************************************************************************)
(* The client of a remote backend (remote_backend) and the daemon's end of *)
(* its connections.  call_remote uses the one client of AppState, or       *)
(* connects and authenticates a new one; a connection has a table of       *)
(* waiting requests, a writer and a reader task.  A call that the loss of  *)
(* a connection answers is made once more if its method may be repeated.   *)
(* Saving other settings for the host drops the client.                    *)
(*                                                                         *)
(* A task holds no lock over an await: each access to the client, to the   *)
(* settings and to a table is a step of its own.  What a step only reads   *)
(* from state that no longer changes (a cleared flag, a writer that is     *)
(* gone, an answer) is read in the step that uses it.  Notifications are   *)
(* passed on as they come, and left out.                                   *)
(***************************************************************************)
EXTENDS Naturals, SequencesExt

CONSTANTS
  Calls,           \* calls of call_remote
  Retryable,       \* those whose method can_retry_after_disconnect names
  Updates,         \* calls of update_app_settings
  Hosts,           \* what the settings name: a host with a token
  Tokenless,       \* the ones without a token,
  Trusted,         \* the ones with the token of their daemon,
  Open,            \* and the ones whose daemon asks for none
  Home,            \* the one saved at first
  MaxConnections,  \* bound: how many connections are made
  Capacity,        \* OUTBOUND_QUEUE_CAPACITY
  MaxDisturbances  \* bound: connects that fail, lost links and timeouts

ASSUME HostsAssumption ==
  /\ Home \in Hosts /\ Trusted \subseteq Hosts /\ Tokenless \subseteq Hosts \ Trusted
  /\ Open \subseteq Hosts \ Trusted
  /\ Retryable \subseteq Calls
ASSUME BackendBoundAssumption ==
  MaxConnections \in Nat /\ Capacity \in Nat \ {0} /\ MaxDisturbances \in Nat

VARIABLES
  saved,        \* the host of app_settings
  updates,      \* the calls of update_app_settings
  client,       \* remote_backend: a connection, or NoConnection
  tasks,        \* the calls of call_remote
  connections,  \* both ends of the connections made so far, and their link
  running,      \* the daemon's tasks of requests
  executed,     \* history: how often the daemon has carried out each call
  late,         \* history: connections stored when the settings named another
                \* host already
  disturbances

vars == <<saved, updates, client, tasks, connections, running, executed, late,
          disturbances>>

NoConnection == 0
NoId == 0
Made == DOMAIN connections

IdleTask == [pc |-> "idle", attempt |-> 1, conn |-> NoConnection, held |-> {},
             kind |-> "request", id |-> NoId, host |-> Home, answer |-> "none",
             raced |-> FALSE]

\* crossed is history: another update was under way when this one began.
IdleUpdate == [pc |-> "idle", previous |-> Home, to |-> Home, crossed |-> FALSE]

\* spawn_transport_io at one end, handle_client at the other.
NewConnection(host) ==
  [host |-> host, link |-> "up",
   connected |-> TRUE, nextId |-> 1, pending |-> {}, queue |-> <<>>,
   writer |-> "on", reader |-> "on", shut |-> FALSE,
   serving |-> TRUE, authenticated |-> host \in Open, lines |-> <<>>, answers |-> <<>>]

Init ==
  /\ saved = Home /\ updates = [u \in Updates |-> IdleUpdate]
  /\ client = NoConnection /\ tasks = [c \in Calls |-> IdleTask]
  /\ connections = <<>> /\ running = {}
  /\ executed = [c \in Calls |-> 0] /\ late = {}
  /\ disturbances = 0

Disturb == disturbances < MaxDisturbances /\ disturbances' = disturbances + 1
Undisturbed == UNCHANGED disturbances

---------------------------------------------------------------------------
(* Tables and answers. *)

\* The calls ts after the senders of the entries in the table of k are used.
Answer(ts, k, entries, answer) ==
  [c \in Calls |->
     IF /\ ts[c].conn = k /\ ts[c].pc \in {"send", "wait"}
        /\ [id |-> ts[c].id, by |-> c] \in entries
     THEN [ts[c] EXCEPT !.answer = answer] ELSE ts[c]]

\* Mutant: the flag stays set.
CutTable(k) == [connections[k] EXCEPT !.pending = {}]

\* What mark_disconnected makes of a connection, and of the calls.
Cut(k) == [connections[k] EXCEPT !.connected = FALSE, !.pending = {}]
TasksCut(k) ==
  LET told == Answer(tasks, k, connections[k].pending, "lost")
  IN  [c \in Calls |-> IF told[c].conn = k /\ told[c].pc = "insert"
                       THEN [told[c] EXCEPT !.raced = TRUE] ELSE told[c]]

\* A call that has its result, and no client in hand.
Ended(c, result) == [tasks EXCEPT ![c] = [IdleTask EXCEPT !.pc = result]]

\* Mutant: every call is made once more.
ReturnOrRetry(c, result) ==
  LET t == tasks[c]
  IN  \/ /\ t.kind = "auth" /\ result = "ok"
         /\ tasks' = [tasks EXCEPT ![c].pc = "store", ![c].answer = "none", ![c].id = NoId]
         /\ UNCHANGED client
      \/ /\ t.kind = "auth" /\ result # "ok"
         /\ tasks' = Ended(c, "failed") /\ UNCHANGED client
      \/ /\ t.kind = "request" /\ result = "ok"
         /\ tasks' = Ended(c, "ok") /\ UNCHANGED client
      \/ /\ t.kind = "request" /\ result = "lost" /\ t.attempt = 1
         /\ tasks' = [tasks EXCEPT ![c] = [IdleTask EXCEPT !.pc = "ensure",
                                             !.attempt = 2, !.held = t.held]]
         /\ client' = NoConnection
      \/ /\ t.kind = "request" /\ result # "ok" /\ (result = "lost" => t.attempt = 2)
         /\ tasks' = Ended(c, "failed") /\ client' = NoConnection

\* What becomes of a call once client.call has returned: within
\* ensure_remote_backend (kind "auth") a failure is final, else it drops the
\* client, and the loss of the connection lets a first attempt try again.
Return(c, result) ==
  LET t == tasks[c]
  IN  \/ /\ t.kind = "auth" /\ result = "ok"
         /\ tasks' = [tasks EXCEPT ![c].pc = "store", ![c].answer = "none", ![c].id = NoId]
         /\ UNCHANGED client
      \/ /\ t.kind = "auth" /\ result # "ok"
         /\ tasks' = Ended(c, "failed") /\ UNCHANGED client
      \/ /\ t.kind = "request" /\ result = "ok"
         /\ tasks' = Ended(c, "ok") /\ UNCHANGED client
      \/ /\ t.kind = "request" /\ result = "lost" /\ t.attempt = 1 /\ c \in Retryable
         /\ tasks' = [tasks EXCEPT ![c] = [IdleTask EXCEPT !.pc = "ensure",
                                             !.attempt = 2, !.held = t.held]]
         /\ client' = NoConnection
      \/ /\ t.kind = "request" /\ result # "ok"
         /\ result = "lost" => t.attempt = 2 \/ c \notin Retryable
         /\ tasks' = Ended(c, "failed") /\ client' = NoConnection

---------------------------------------------------------------------------
(* call_remote and ensure_remote_backend. *)

Call(c) ==
  /\ tasks[c].pc = "idle"
  /\ tasks' = [tasks EXCEPT ![c].pc = "ensure"]
  /\ UNCHANGED <<saved, updates, client, connections, running, executed, late, disturbances>>

Ensure(c) ==
  /\ tasks[c].pc = "ensure"
  /\ tasks' = [tasks EXCEPT ![c] =
       IF client = NoConnection THEN [@ EXCEPT !.pc = "resolve"]
       ELSE [@ EXCEPT !.pc = "check", !.conn = client, !.held = tasks[c].held \cup {client}]]
  /\ UNCHANGED <<saved, updates, client, connections, running, executed, late, disturbances>>

Resolve(c) ==
  /\ tasks[c].pc = "resolve"
  /\ tasks' = [tasks EXCEPT ![c].pc = "connect", ![c].host = saved]
  /\ UNCHANGED <<saved, updates, client, connections, running, executed, late, disturbances>>

Connect(c) ==
  /\ tasks[c].pc = "connect" /\ Len(connections) < MaxConnections
  /\ LET k == Len(connections) + 1
         host == tasks[c].host
     IN  /\ connections' = Append(connections, NewConnection(host))
         /\ tasks' = [tasks EXCEPT ![c] =
              [@ EXCEPT !.conn = k, !.held = tasks[c].held \cup {k}, !.host = Home,
                        !.kind = IF host \in Tokenless THEN "request" ELSE "auth",
                        !.pc = IF host \in Tokenless THEN "store" ELSE "check"]]
  /\ UNCHANGED <<saved, updates, client, running, executed, late, disturbances>>

ConnectFails(c) ==
  /\ tasks[c].pc = "connect" /\ Disturb
  /\ tasks' = Ended(c, "failed")
  /\ UNCHANGED <<saved, updates, client, connections, running, executed, late>>

Store(c) ==
  /\ tasks[c].pc = "store"
  /\ client' = tasks[c].conn
  /\ tasks' = [tasks EXCEPT ![c].pc = "check", ![c].kind = "request"]
  /\ late' = IF connections[client'].host # saved THEN late \cup {client'} ELSE late
  /\ UNCHANGED <<saved, updates, connections, running, executed, disturbances>>

---------------------------------------------------------------------------
(* RemoteBackend::call. *)

Check(c) ==
  /\ tasks[c].pc = "check"
  /\ LET k == tasks[c].conn
         id == connections[k].nextId
     IN  \/ /\ ~connections[k].connected
            /\ Return(c, "lost")
            /\ UNCHANGED connections
         \/ /\ connections[k].connected
            /\ connections' = [connections EXCEPT ![k].nextId = id + 1]
            /\ tasks' = [tasks EXCEPT ![c] =
                 [@ EXCEPT !.pc = "insert", !.id = id, !.raced = FALSE]]
            /\ UNCHANGED client
  /\ UNCHANGED <<saved, updates, running, executed, late, disturbances>>

\* The flag may have been cleared, and the table emptied, since it was read.
Insert(c) ==
  /\ tasks[c].pc = "insert"
  /\ connections' = [connections EXCEPT ![tasks[c].conn].pending =
                       @ \cup {[id |-> tasks[c].id, by |-> c]}]
  /\ tasks' = [tasks EXCEPT ![c].pc = "send"]
  /\ UNCHANGED <<saved, updates, client, running, executed, late, disturbances>>

\* The entry of c leaves the table of its connection.
Forget(c) ==
  connections' = [connections EXCEPT ![tasks[c].conn].pending =
                    @ \ {[id |-> tasks[c].id, by |-> c]}]

Send(c) ==
  /\ tasks[c].pc = "send"
  /\ LET k == tasks[c].conn
     IN  \/ /\ connections[k].writer = "off"
            /\ Forget(c) /\ Return(c, "lost") /\ Undisturbed
         \/ /\ connections[k].writer # "off" /\ Len(connections[k].queue) < Capacity
            /\ connections' = [connections EXCEPT ![k].queue =
                 Append(@, [id |-> tasks[c].id, by |-> c, kind |-> tasks[c].kind])]
            /\ tasks' = [tasks EXCEPT ![c].pc = "wait"]
            /\ UNCHANGED client /\ Undisturbed
         \/ /\ connections[k].writer # "off" /\ Len(connections[k].queue) >= Capacity
            /\ Disturb
            /\ Forget(c) /\ Return(c, "timeout")
  /\ UNCHANGED <<saved, updates, running, executed, late>>

Answered(c) ==
  /\ tasks[c].pc = "wait" /\ tasks[c].answer # "none"
  /\ Return(c, tasks[c].answer)
  /\ UNCHANGED <<saved, updates, connections, running, executed, late, disturbances>>

TimeOut(c) ==
  /\ tasks[c].pc = "wait" /\ tasks[c].answer = "none"
  /\ Disturb
  /\ Forget(c) /\ Return(c, "timeout")
  /\ UNCHANGED <<saved, updates, running, executed, late>>

---------------------------------------------------------------------------
(* The tasks of a connection. *)

\* The clones of its client: while there is one the writer's channel is open.
Holders(k) == {c \in Calls : k \in tasks[c].held}
Unused(k) == client # k /\ Holders(k) = {}

\* A line goes out; over a lost link it fails, or nobody reads it.
WriteNext(k) ==
  LET conn == connections[k]
      rest == [conn EXCEPT !.queue = Tail(conn.queue)]
  IN  /\ conn.writer = "on" /\ conn.queue # <<>>
      /\ \/ /\ conn.link = "up" /\ conn.serving
            /\ connections' = [connections EXCEPT ![k] =
                 [rest EXCEPT !.lines = Append(@, Head(conn.queue))]]
            /\ UNCHANGED tasks
         \/ /\ conn.link = "down" \/ ~conn.serving
            /\ \/ /\ connections' = [connections EXCEPT ![k] = rest]
                  /\ UNCHANGED tasks
               \/ /\ connections' = [connections EXCEPT ![k] =
                       [Cut(k) EXCEPT !.writer = "broken", !.queue = Tail(@)]]
                  /\ tasks' = TasksCut(k)
      /\ UNCHANGED <<saved, updates, client, running, executed, late, disturbances>>

\* Mutant: the reader holds a sender of the channel as long as it runs.
WriterWaits(k) ==
  /\ \/ /\ connections[k].writer = "on" /\ connections[k].queue = <<>> /\ Unused(k)
        /\ connections[k].reader = "off"
     \/ connections[k].writer = "broken"
  /\ connections' = [connections EXCEPT ![k].writer = "off", ![k].queue = <<>>,
                                           ![k].shut = TRUE]
  /\ UNCHANGED <<saved, updates, client, tasks, running, executed, late, disturbances>>

\* The channel is empty and closed, or a write has failed: the task drops the
\* channel's other end and the write half, which shuts its direction.
WriterEnds(k) ==
  /\ \/ connections[k].writer = "on" /\ connections[k].queue = <<>> /\ Unused(k)
     \/ connections[k].writer = "broken"
  /\ connections' = [connections EXCEPT ![k].writer = "off", ![k].queue = <<>>,
                                           ![k].shut = TRUE]
  /\ UNCHANGED <<saved, updates, client, tasks, running, executed, late, disturbances>>

\* Mutant: an answer wakes the longest waiting call.
ReadFirst(k) ==
  LET conn == connections[k]
      entries == {e \in conn.pending : \A f \in conn.pending : e.id <= f.id}
  IN  /\ conn.reader = "on" /\ conn.answers # <<>>
      /\ connections' = [connections EXCEPT ![k].answers = Tail(@),
                                            ![k].pending = @ \ entries]
      /\ tasks' = Answer(tasks, k, entries, Head(conn.answers).result)
      /\ UNCHANGED <<saved, updates, client, running, executed, late, disturbances>>

\* dispatch_incoming_line.
ReadNext(k) ==
  LET conn == connections[k]
      a == Head(conn.answers)
      entries == {e \in conn.pending : e.id = a.id}
  IN  /\ conn.reader = "on" /\ conn.answers # <<>>
      /\ connections' = [connections EXCEPT ![k].answers = Tail(@),
                                            ![k].pending = @ \ entries]
      /\ tasks' = Answer(tasks, k, entries, a.result)
      /\ UNCHANGED <<saved, updates, client, running, executed, late, disturbances>>

\* The daemon has closed its end and all is read; or the link is lost, noticed
\* or not, with what was still on it.
ReaderEnds(k) ==
  /\ connections[k].reader = "on"
  /\ \/ ~connections[k].serving /\ connections[k].answers = <<>>
     \/ connections[k].link = "down"
  /\ connections' = [connections EXCEPT ![k] =
       [Cut(k) EXCEPT !.reader = "off", !.answers = <<>>]]
  /\ tasks' = TasksCut(k)
  /\ UNCHANGED <<saved, updates, client, running, executed, late, disturbances>>

LoseLink(k) ==
  /\ connections[k].link = "up" /\ Disturb
  /\ connections' = [connections EXCEPT ![k].link = "down"]
  /\ UNCHANGED <<saved, updates, client, tasks, running, executed, late>>

---------------------------------------------------------------------------
(* The daemon: handle_client and the tasks it spawns. *)

Reply(conn, id, result) ==
  IF conn.link = "up" /\ conn.serving
  THEN [conn EXCEPT !.answers = Append(@, [id |-> id, result |-> result])] ELSE conn

\* The first line must be an auth with the right token.
ServeLine(k) ==
  LET conn == connections[k]
      m == Head(conn.lines)
      read == [conn EXCEPT !.lines = Tail(conn.lines)]
      welcome == m.kind = "auth" /\ conn.host \in Trusted
  IN  /\ conn.serving /\ conn.lines # <<>>
      /\ IF conn.authenticated
         THEN /\ connections' = [connections EXCEPT ![k] = read]
              /\ running' = running \cup {[conn |-> k, id |-> m.id, by |-> m.by, kind |-> m.kind]}
         ELSE /\ connections' = [connections EXCEPT ![k] =
                   Reply([read EXCEPT !.authenticated = welcome], m.id,
                         IF welcome THEN "ok" ELSE "error")]
              /\ UNCHANGED running
      /\ UNCHANGED <<saved, updates, client, tasks, executed, late, disturbances>>

\* A request is carried out, or refused, also after its connection has ended;
\* auth is no method of its own.
RunRequest(r) ==
  /\ r \in running
  /\ running' = running \ {r}
  /\ \/ /\ r.kind = "request"
        /\ executed' = [executed EXCEPT ![r.by] = @ + 1]
        /\ connections' = [connections EXCEPT ![r.conn] = Reply(@, r.id, "ok")]
     \/ /\ UNCHANGED executed
        /\ connections' = [connections EXCEPT ![r.conn] = Reply(@, r.id, "error")]
  /\ UNCHANGED <<saved, updates, client, tasks, late, disturbances>>

ServerEnds(k) ==
  /\ connections[k].serving
  /\ \/ connections[k].shut /\ connections[k].lines = <<>>
     \/ connections[k].link = "down"
  /\ connections' = [connections EXCEPT ![k].serving = FALSE, ![k].lines = <<>>,
                                           ![k].authenticated = FALSE]
  /\ UNCHANGED <<saved, updates, client, tasks, running, executed, late, disturbances>>

---------------------------------------------------------------------------
(* update_app_settings. *)

InProgress(u) == updates[u].pc \in {"read", "saved"}

ReadPrevious(u) ==
  /\ updates[u].pc = "idle"
  /\ updates' = [updates EXCEPT ![u] =
       [IdleUpdate EXCEPT !.pc = "read", !.previous = saved,
                          !.crossed = \E v \in Updates \ {u} : InProgress(v)]]
  /\ UNCHANGED <<saved, client, tasks, connections, running, executed, late, disturbances>>

\* Mutant: the previous settings are read after they were replaced.
SaveThenRead(u, host) ==
  /\ updates[u].pc = "read"
  /\ saved' = host
  /\ updates' = [updates EXCEPT ![u] = [@ EXCEPT !.pc = "saved", !.previous = host, !.to = host]]
  /\ UNCHANGED <<client, tasks, connections, running, executed, late, disturbances>>

\* update_app_settings_core.
SaveSettings(u, host) ==
  /\ updates[u].pc = "read"
  /\ saved' = host
  /\ updates' = [updates EXCEPT ![u].pc = "saved", ![u].to = host]
  /\ UNCHANGED <<client, tasks, connections, running, executed, late, disturbances>>

Over(u) == [updates EXCEPT ![u] = [IdleUpdate EXCEPT !.pc = "over", !.crossed = updates[u].crossed]]

\* The settings could not be written.
SaveFails(u) ==
  /\ updates[u].pc = "read"
  /\ updates' = Over(u)
  /\ UNCHANGED <<saved, client, tasks, connections, running, executed, late, disturbances>>

\* should_reset_remote_backend compares what this call read and saved.
ResetClient(u) ==
  /\ updates[u].pc = "saved"
  /\ client' = IF updates[u].previous # updates[u].to THEN NoConnection ELSE client
  /\ updates' = Over(u)
  /\ UNCHANGED <<saved, tasks, connections, running, executed, late, disturbances>>

---------------------------------------------------------------------------

Next ==
  \/ \E c \in Calls :
       \/ Call(c) \/ Ensure(c) \/ Resolve(c) \/ Connect(c) \/ ConnectFails(c) \/ Store(c)
       \/ Check(c) \/ Insert(c) \/ Send(c) \/ Answered(c) \/ TimeOut(c)
  \/ \E k \in Made : \/ WriteNext(k) \/ WriterEnds(k) \/ ReadNext(k) \/ ReaderEnds(k)
                     \/ LoseLink(k) \/ ServeLine(k) \/ ServerEnds(k)
  \/ \E r \in running : RunRequest(r)
  \/ \E u \in Updates : \/ ReadPrevious(u) \/ SaveFails(u) \/ ResetClient(u)
                        \/ \E host \in Hosts : SaveSettings(u, host)

\* The tasks of a connection run.  That a link is lost need not be noticed: no
\* end sends anything to find out.
Fairness ==
  \A k \in 1..MaxConnections :
    /\ WF_vars(k \in Made /\ (WriteNext(k) \/ WriterEnds(k)))
    /\ WF_vars(k \in Made /\ (ReadNext(k) \/ (~connections[k].serving /\ ReaderEnds(k))))
    /\ WF_vars(k \in Made /\ (ServeLine(k) \/ (connections[k].shut /\ ServerEnds(k))))

Spec == Init /\ [][Next]_vars /\ Fairness

---------------------------------------------------------------------------

\* What a call changes is changed once: the daemon carries a call out at most
\* once, or twice if its method may be repeated, however its first connection
\* was lost and whether or not the first attempt arrived.
AtMostOnce ==
  \A c \in Calls : executed[c] <= IF c \in Retryable THEN 2 ELSE 1

\* A call ends once, with an answer only if the daemon has carried out that very
\* call, although every connection numbers its requests from one.
Table == INSTANCE RequestTable WITH
  Requests <- Calls,
  state <- [c \in Calls |-> CASE tasks[c].pc = "idle" -> "idle"
                              [] tasks[c].pc = "ok" -> "answered"
                              [] tasks[c].pc = "failed" -> "gaveUp"
                              [] OTHER -> "open"],
  served <- {c \in Calls : executed[c] > 0}
RefinesRequestTable == Table!Spec

\* The end of a connection answers every call that waits on it.  One only is
\* left to the timer: it had read that the connection is up before the end,
\* and entered the emptied table after it.
EndReachesWaiters ==
  \A c \in Calls :
    /\ tasks[c].pc = "wait" /\ tasks[c].answer = "none"
    /\ connections[tasks[c].conn].reader = "off"
    => tasks[c].raced

\* Once the settings are saved, calls go to the host they name.  Only a
\* connection made while the settings changed, or two updates at once, can leave
\* a client for another host behind.
ClientFollowsSettings ==
  client # NoConnection /\ ~(\E u \in Updates : InProgress(u)) =>
    \/ connections[client].host = saved
    \/ client \in late
    \/ \E u \in Updates : updates[u].crossed

\* A connection that nobody uses any more, because an error dropped the client or
\* two calls connected at once, ends at both ends, unless its link is lost:
\* until then its notifications reach the frontend beside the client's.
UnusedConnectionsEnd ==
  \A k \in 1..MaxConnections :
    LET Lingers == /\ k \in Made /\ Unused(k)
                   /\ connections[k].reader = "on" /\ connections[k].link = "up"
    IN  Lingers ~> ~Lingers
=============================================================================
