-------------------------- MODULE AppServerSession --------------------------
(***************************************************************************)
(* One WorkspaceSession: the JSON-RPC conversation with one codex          *)
(* app-server process, shared by several workspaces.                       *)
(*                                                                         *)
(* Callers (send_request_for_workspace) and the task that reads the        *)
(* server's output meet in five small tables, each behind a mutex of its   *)
(* own: which request waits, which workspace asked it, which workspace a   *)
(* thread's events go to, which threads are hidden, and which workspaces   *)
(* hear broadcasts.  No two tables are ever locked together, so one action *)
(* below is one critical section; steps on data only one task touches are  *)
(* folded into the neighbouring one.                                       *)
(*                                                                         *)
(* The server is external: it answers what it received, in any order, or   *)
(* never, and announces events of threads it has created.                  *)
(*                                                                         *)
(* Source: src-tauri/src/backend/app_server.rs.                            *)
(***************************************************************************)
EXTENDS Naturals, Sequences, FiniteSets

CONSTANTS
    Workspaces,
    Owner,          \* the workspace the process was spawned for
    Threads,
    MemoryThreads,  \* memory-consolidation sub-agents, never shown to the user
    Depth,          \* thread -> workspace -> length of the root that encloses
                    \* the thread's cwd, 0 if it does not
    Sharers,        \* workspaces that connect to and leave the session
    Methods,        \* the requests that are sent
    Announcements,  \* the events the server announces on its own
    MaxRequests,    \* bound: requests sent in the life of the session
    MaxEvents,      \* bound: events the server announces on its own
    BadOutput,      \* can a line of output fail to decode as UTF-8?
    NoWorkspace, NoThread

Requests == 1 .. MaxRequests
NoRequest == 0

AllMethods == {"start", "use", "archive", "list", "plain"}
AllAnnouncements == {"started", "item", "delta", "completed", "failed",
                     "background", "account"}

ASSUME SessionAssumption ==
    /\ Owner \in Workspaces
    /\ MemoryThreads \subseteq Threads
    /\ Depth \in [Threads -> [Workspaces -> Nat]]
    /\ Sharers \subseteq Workspaces
    /\ Methods \subseteq AllMethods
    /\ Announcements \subseteq AllAnnouncements
    /\ MaxRequests \in Nat /\ MaxEvents \in Nat
    /\ BadOutput \in BOOLEAN
    /\ NoWorkspace \notin Workspaces
    /\ NoThread \notin Threads

VARIABLES
    nextId,           \* the next request id
    call,             \* the life of each request, its arguments included
    pending,          \* requests with a oneshot sender in the table
    context,          \* requests whose workspace and method are remembered
    threadWorkspace,  \* thread -> workspace its events are routed to
    hidden,           \* threads whose events are suppressed
    callbacks,        \* threads whose events go to a background collector
    channel,          \* what each collector has not consumed yet
    workspaceIds,     \* workspaces that hear broadcasts
    roots,            \* workspaces whose root directory is known
    reader,           \* the task that reads the server's output
    emitted,          \* what that task is handing to the frontend
    running,          \* does the server process run?
    received,         \* requests the server has not answered
    answered,         \* requests the server has answered
    outbox,           \* the server's output not read yet
    created,          \* threads the server has created
    starter,          \* the workspace a thread was started for
    family,           \* history: the threads an item about which, once read,
                      \* named this one
    announced         \* events announced so far

tables  == <<pending, context, threadWorkspace, hidden, callbacks, channel,
             workspaceIds, roots>>
server  == <<running, received, answered, outbox, created, starter, family,
             announced>>
vars == <<nextId, call, tables, reader, emitted, server>>

-----------------------------------------------------------------------------
(* Messages and requests *)

Message(id, method, t, ts) ==
    [id |-> id, method |-> method, thread |-> t, others |-> ts]
Event(method, t, ts) == Message(NoRequest, method, t, ts)

NoMessage == Event("none", NoThread, {})
NoEmission == [to |-> {}, method |-> "none", thread |-> NoThread]

Unsent == [stage |-> "unused", ws |-> NoWorkspace, method |-> "none",
           thread |-> NoThread]

Stage(r) == call[r].stage
Ended == {"answered", "failed", "canceled", "timedOut", "dropped"}
SetStage(r, s) == call' = [call EXCEPT ![r].stage = s]

\* The workspaces whose root encloses the thread's working directory most
\* closely; equally long roots are told apart by the order of a hash map.
Closest(t) ==
    LET Enclosing == {w \in roots : Depth[t][w] > 0}
    IN  {w \in Enclosing : \A v \in Enclosing : Depth[t][v] <= Depth[t][w]}

-----------------------------------------------------------------------------
Init ==
    /\ nextId = 1
    /\ call = [r \in Requests |-> Unsent]
    /\ pending = {}
    /\ context = {}
    /\ threadWorkspace = [t \in Threads |-> NoWorkspace]
    /\ hidden = {}
    /\ callbacks = {}
    /\ channel = [t \in Threads |-> <<>>]
    /\ workspaceIds = {Owner}
    /\ roots = {Owner}
    /\ reader = [at |-> "line", msg |-> NoMessage, from |-> NoWorkspace,
                 route |-> NoWorkspace]
    /\ emitted = NoEmission
    /\ running = TRUE
    /\ received = {}
    /\ answered = {}
    /\ outbox = <<>>
    /\ created = {}
    /\ starter = [t \in Threads |-> NoWorkspace]
    /\ family = [t \in Threads |-> {t}]
    /\ announced = 0

-----------------------------------------------------------------------------
(* send_request_for_workspace *)

\* The id is drawn and the workspace registered for broadcasts; its root is
\* not recorded here.
Call(r, w, m, t) ==
    /\ r = nextId /\ r \in Requests
    /\ nextId' = nextId + 1
    /\ call' = [call EXCEPT ![r] = [stage |-> "called", ws |-> w,
                                    method |-> m, thread |-> t]]
    /\ workspaceIds' = workspaceIds \cup {w}
    /\ UNCHANGED <<pending, context, threadWorkspace, hidden, callbacks,
                   channel, roots, reader, emitted, server>>

\* A request the user's interface makes: about no thread, or about one the
\* server has created.
Ask(r, w, m) ==
    /\ m \in Methods
    /\ \/ m \in {"start", "list", "plain"} /\ Call(r, w, m, NoThread)
       \/ m \in {"use", "archive"} /\ \E t \in created : Call(r, w, m, t)

InsertPending(r) ==
    /\ Stage(r) = "called"
    /\ pending' = pending \cup {r}
    /\ SetStage(r, "listed")
    /\ UNCHANGED <<nextId, context, threadWorkspace, hidden, callbacks,
                   channel, workspaceIds, roots, reader, emitted, server>>

\* A request that names a thread routes it to the workspace that asks, before
\* it is written.
InsertContext(r) ==
    /\ Stage(r) = "listed"
    /\ context' = context \cup {r}
    /\ threadWorkspace' =
          [t \in Threads |-> IF t = call[r].thread THEN call[r].ws
                                                   ELSE threadWorkspace[t]]
    /\ SetStage(r, "ready")
    /\ UNCHANGED <<nextId, pending, hidden, callbacks, channel, workspaceIds,
                   roots, reader, emitted, server>>

\* If the reader has meanwhile cleared the table, the sender is gone and the
\* caller hears "request canceled" at once.
WriteOk(r) ==
    /\ Stage(r) = "ready"
    /\ running
    /\ received' = received \cup {r}
    /\ SetStage(r, IF r \in pending THEN "waiting" ELSE "canceled")
    /\ UNCHANGED <<nextId, tables, reader, emitted, running, answered, outbox,
                   created, starter, family, announced>>

\* Mutant: only the context is removed.
ForgetContext(r) ==
    /\ context' = context \ {r}
    /\ UNCHANGED <<pending, threadWorkspace, hidden, callbacks, channel,
                   workspaceIds, roots>>

Forget(r) ==
    /\ pending' = pending \ {r}
    /\ context' = context \ {r}
    /\ UNCHANGED <<threadWorkspace, hidden, callbacks, channel, workspaceIds,
                   roots>>

WriteFails(r) ==
    /\ Stage(r) = "ready"
    /\ ~running
    /\ Forget(r)
    /\ SetStage(r, "failed")
    /\ UNCHANGED <<nextId, reader, emitted, server>>

\* REQUEST_TIMEOUT; a value that has already been sent wins over the timer.
Timeout(r) ==
    /\ Stage(r) = "waiting"
    /\ Forget(r)
    /\ SetStage(r, "timedOut")
    /\ UNCHANGED <<nextId, reader, emitted, server>>

\* initialize after 15 seconds and a canceled login drop the future: nothing
\* is removed from the tables.
Abandon(r) ==
    /\ Stage(r) = "waiting"
    /\ call[r].method = "plain"
    /\ SetStage(r, "dropped")
    /\ UNCHANGED <<nextId, tables, reader, emitted, server>>

-----------------------------------------------------------------------------
(* The workspaces that share the session come and go *)

Register(w) ==
    /\ workspaceIds' = workspaceIds \cup {w}
    /\ roots' = roots \cup {w}
    /\ UNCHANGED <<nextId, call, pending, context, threadWorkspace, hidden,
                   callbacks, channel, reader, emitted, server>>

Unregister(w) ==
    /\ workspaceIds' = workspaceIds \ {w}
    /\ roots' = roots \ {w}
    /\ UNCHANGED <<nextId, call, pending, context, threadWorkspace, hidden,
                   callbacks, channel, reader, emitted, server>>

-----------------------------------------------------------------------------
(* The reader task *)

At(l) == reader.at = l
Goto(l) == reader' = [reader EXCEPT !.at = l]
NextLine == Goto("line")
Emit(to, method, t) == emitted' = [to |-> to, method |-> method, thread |-> t]

\* Mutant: an answer without a context is laid to the previous asker.
ReadLineStale ==
    /\ At("line")
    /\ outbox # <<>>
    /\ LET m == Head(outbox)
       IN  /\ reader' = [at |-> IF m.id = NoRequest THEN "route" ELSE "attribute",
                         msg |-> m,
                         from |-> IF m.id \in context THEN call[m.id].ws
                                                      ELSE reader.from,
                         route |-> NoWorkspace]
           /\ context' = context \ {m.id}
    /\ outbox' = Tail(outbox)
    /\ emitted' = NoEmission
    /\ UNCHANGED <<nextId, call, pending, threadWorkspace, hidden, callbacks,
                   channel, workspaceIds, roots, running, received, answered,
                   created, starter, family, announced>>

\* An answer takes the context of its request out of the table; the context
\* of a request that has timed out is gone.
ReadLine ==
    /\ At("line")
    /\ outbox # <<>>
    /\ LET m == Head(outbox)
       IN  /\ reader' = [at |-> IF m.id = NoRequest THEN "route" ELSE "attribute",
                         msg |-> m,
                         from |-> IF m.id \in context THEN call[m.id].ws
                                                      ELSE NoWorkspace,
                         route |-> NoWorkspace]
           /\ context' = context \ {m.id}
    /\ outbox' = Tail(outbox)
    /\ emitted' = NoEmission
    /\ UNCHANGED <<nextId, call, pending, threadWorkspace, hidden, callbacks,
                   channel, workspaceIds, roots, running, received, answered,
                   created, starter, family, announced>>

\* Mutant: an answer teaches the router nothing.
AttributeNothing ==
    /\ At("attribute")
    /\ Goto("deliver")
    /\ UNCHANGED <<nextId, call, tables, emitted, server>>

\* Routing learns from an answer: the thread it names belongs to the asker, a
\* listed thread to the workspace whose root encloses it, and a listed
\* memory-consolidation thread to nobody.
Attribute ==
    /\ At("attribute")
    /\ LET Listed == reader.msg.others \ {reader.msg.thread}
           Homes(t) ==
              CASE reader.from # NoWorkspace /\ t = reader.msg.thread -> {reader.from}
                [] reader.from # NoWorkspace /\ t \in Listed \cap MemoryThreads ->
                      {NoWorkspace}
                [] reader.from # NoWorkspace /\ t \in Listed \ MemoryThreads
                      /\ Closest(t) # {} -> Closest(t)
                [] OTHER -> {threadWorkspace[t]}
       IN  /\ threadWorkspace' \in [Threads -> Workspaces \cup {NoWorkspace}]
           /\ \A t \in Threads : threadWorkspace'[t] \in Homes(t)
    /\ hidden' = IF reader.from = NoWorkspace THEN hidden
                 ELSE hidden \cup (reader.msg.others \cap MemoryThreads)
    /\ Goto("deliver")
    /\ UNCHANGED <<nextId, call, pending, context, callbacks, channel,
                   workspaceIds, roots, emitted, server>>

\* Mutant: an answer is delivered to a caller that has given up.
DeliverLate ==
    /\ At("deliver")
    /\ pending' = pending \ {reader.msg.id}
    /\ SetStage(reader.msg.id, "answered")
    /\ NextLine
    /\ UNCHANGED <<nextId, context, threadWorkspace, hidden, callbacks,
                   channel, workspaceIds, roots, emitted, server>>

\* The answer wakes the caller, if it still waits.
Deliver ==
    /\ At("deliver")
    /\ LET m == reader.msg
       IN  /\ pending' = pending \ {m.id}
           /\ call' = IF m.id \in pending /\ Stage(m.id) = "waiting"
                      THEN [call EXCEPT
                              ![m.id].stage = "answered",
                              ![m.id].thread = IF m.thread = NoThread
                                               THEN @ ELSE m.thread]
                      ELSE call
    /\ NextLine
    /\ UNCHANGED <<nextId, context, threadWorkspace, hidden, callbacks,
                   channel, workspaceIds, roots, emitted, server>>

\* Where an event goes: to the workspace its thread is routed to, else to the
\* owner of the session.
RouteOf(t) ==
    IF t \in Threads /\ threadWorkspace[t] # NoWorkspace
    THEN threadWorkspace[t] ELSE Owner

IsMemoryStart(m) == m.method = "started" /\ m.thread \in MemoryThreads

\* Mutant: the frontend is told, the thread is not recorded.
AnnounceMemoryThread ==
    /\ At("route")
    /\ IsMemoryStart(reader.msg)
    /\ Emit({RouteOf(reader.msg.thread)}, "background", reader.msg.thread)
    /\ NextLine
    /\ UNCHANGED <<nextId, call, tables, server>>

\* A memory-consolidation thread is hidden when it starts; the frontend hears
\* codex/backgroundThread instead.
HideMemoryThread ==
    /\ At("route")
    /\ IsMemoryStart(reader.msg)
    /\ hidden' = hidden \cup {reader.msg.thread}
    /\ Emit({RouteOf(reader.msg.thread)}, "background", reader.msg.thread)
    /\ NextLine
    /\ UNCHANGED <<nextId, call, pending, context, threadWorkspace, callbacks,
                   channel, workspaceIds, roots, server>>

Suppress ==
    /\ At("route")
    /\ ~IsMemoryStart(reader.msg)
    /\ reader.msg.thread \in hidden
    /\ reader.msg.method \notin {"archived", "background"}
    /\ NextLine
    /\ UNCHANGED <<nextId, call, tables, emitted, server>>

Route ==
    /\ At("route")
    /\ LET m == reader.msg
       IN  /\ ~IsMemoryStart(m)
           /\ m.thread \in hidden => m.method \in {"archived", "background"}
           /\ hidden' = IF m.method = "background" THEN hidden \cup {m.thread}
                                                   ELSE hidden
           /\ reader' = [reader EXCEPT
                           !.at = IF m.method \in {"item", "archived"}
                                  THEN "note" ELSE "emit",
                           !.route = RouteOf(m.thread)]
    /\ UNCHANGED <<nextId, call, pending, context, threadWorkspace, callbacks,
                   channel, workspaceIds, roots, emitted, server>>

\* item/started and item/completed: the thread and the agents' threads it
\* names inherit the route, unless they have one.
NoteItem ==
    /\ At("note")
    /\ reader.msg.method = "item"
    /\ threadWorkspace' =
          [t \in Threads |->
              IF /\ t \in reader.msg.others \cup {reader.msg.thread}
                 /\ threadWorkspace[t] = NoWorkspace
              THEN reader.route ELSE threadWorkspace[t]]
    /\ family' = [t \in Threads |->
                     IF t \in reader.msg.others /\ reader.msg.thread \in Threads
                     THEN family[t] \cup family[reader.msg.thread] ELSE family[t]]
    /\ Goto("emit")
    /\ UNCHANGED <<nextId, call, pending, context, hidden, callbacks, channel,
                   workspaceIds, roots, emitted, running, received, answered,
                   outbox, created, starter, announced>>

NoteArchived ==
    /\ At("note")
    /\ reader.msg.method = "archived"
    /\ threadWorkspace' = [threadWorkspace EXCEPT ![reader.msg.thread] = NoWorkspace]
    /\ hidden' = hidden \ {reader.msg.thread}
    /\ Goto("emit")
    /\ UNCHANGED <<nextId, call, pending, context, callbacks, channel,
                   workspaceIds, roots, emitted, server>>

\* A background collector takes the event, else the frontend gets it: an
\* account notification once per registered workspace.
EmitEvent ==
    /\ At("emit")
    /\ LET m == reader.msg
       IN  IF m.thread \in callbacks
           THEN /\ channel' = [channel EXCEPT ![m.thread] = Append(@, m.method)]
                /\ UNCHANGED emitted
           ELSE /\ Emit(IF m.method = "account" /\ workspaceIds # {}
                        THEN workspaceIds ELSE {reader.route},
                        m.method, m.thread)
                /\ UNCHANGED channel
    /\ NextLine
    /\ UNCHANGED <<nextId, call, pending, context, threadWorkspace, hidden,
                   callbacks, workspaceIds, roots, server>>

\* The output ends, or a line of it does not decode and the loop gives up.
\* Dropping the senders wakes the callers that wait.
EndPending ==
    /\ At("line")
    /\ \/ ~running /\ outbox = <<>>
       \/ BadOutput
    /\ pending' = {}
    /\ call' = [r \in Requests |->
                   IF r \in pending /\ Stage(r) = "waiting"
                   THEN [call[r] EXCEPT !.stage = "canceled"] ELSE call[r]]
    /\ Goto("ending")
    /\ UNCHANGED <<nextId, context, threadWorkspace, hidden, callbacks,
                   channel, workspaceIds, roots, emitted, server>>

EndContext ==
    /\ At("ending")
    /\ context' = {}
    /\ Goto("done")
    /\ UNCHANGED <<nextId, call, pending, threadWorkspace, hidden, callbacks,
                   channel, workspaceIds, roots, emitted, server>>

-----------------------------------------------------------------------------
(* The server *)

Says(ms) == running /\ outbox' = outbox \o ms

\* It answers a request, in any order, with or without an error; thread/start
\* creates the thread it names, an answer about a thread may name it, and an
\* archived thread is announced as such.
Answer(r) ==
    /\ r \in received
    /\ received' = received \ {r}
    /\ answered' = answered \cup {r}
    /\ \E t \in Threads \cup {NoThread}, ts \in SUBSET created, ok \in BOOLEAN :
          LET m == call[r].method IN
          /\ t # NoThread => /\ m = "start" => t \notin created \cup MemoryThreads
                             /\ m = "use" => t = call[r].thread
                             /\ m \in {"start", "use"}
          /\ ts # {} => m = "list"
          /\ IF m = "start" /\ t # NoThread
             THEN /\ created' = created \cup {t}
                  /\ starter' = [starter EXCEPT ![t] = call[r].ws]
             ELSE UNCHANGED <<created, starter>>
          /\ Says(<<Message(r, m, t, ts)>> \o
                  IF m = "archive" /\ ok
                  THEN <<Event("archived", call[r].thread, {})>> ELSE <<>>)
          /\ m # "archive" => ok
    /\ UNCHANGED <<nextId, call, tables, reader, emitted, running, family,
                   announced>>

\* It announces something about a thread it has created, a memory thread of
\* its own or an agent's thread, or about the account.
Announce(m) ==
    /\ m \in Announcements
    /\ announced < MaxEvents
    /\ announced' = announced + 1
    /\ \/ /\ m = "account"
          /\ Says(<<Event(m, NoThread, {})>>)
          /\ UNCHANGED created
       \/ /\ m = "started"
          /\ \E t \in MemoryThreads \ created :
                created' = created \cup {t} /\ Says(<<Event(m, t, {})>>)
       \/ /\ m = "item"
          /\ \E t \in created, s \in Threads \ MemoryThreads :
                /\ created' = created \cup {s}
                /\ Says(<<Event(m, t, {s})>>)
       \/ /\ m \in {"delta", "completed", "failed", "background"}
          /\ \E t \in created : Says(<<Event(m, t, {})>>)
          /\ UNCHANGED created
    /\ UNCHANGED <<nextId, call, tables, reader, emitted, running, received,
                   answered, starter, family>>

Exit ==
    /\ running
    /\ running' = FALSE
    /\ UNCHANGED <<nextId, call, tables, reader, emitted, received, answered,
                   outbox, created, starter, family, announced>>

-----------------------------------------------------------------------------
Caller(r) ==
    \/ InsertPending(r) \/ InsertContext(r)
    \/ WriteOk(r) \/ WriteFails(r)

Reader ==
    \/ ReadLine \/ Attribute \/ Deliver
    \/ HideMemoryThread \/ Suppress \/ Route
    \/ NoteItem \/ NoteArchived \/ EmitEvent
    \/ EndPending \/ EndContext

Server ==
    \/ \E r \in Requests : Answer(r)
    \/ \E m \in Announcements : Announce(m)
    \/ Exit

Next ==
    \/ \E r \in Requests, w \in Workspaces, m \in Methods : Ask(r, w, m)
    \/ \E r \in Requests : Caller(r) \/ Timeout(r) \/ Abandon(r)
    \/ \E w \in Sharers : Register(w) \/ Unregister(w)
    \/ Reader
    \/ Server

Spec == Init /\ [][Next]_vars

-----------------------------------------------------------------------------
(* Types *)

Stages == {"unused", "called", "listed", "ready", "waiting"} \cup Ended
ReaderPcs == {"line", "attribute", "deliver", "route", "note", "emit",
              "ending", "done"}
MessageMethods == AllMethods \cup AllAnnouncements \cup {"archived", "none"}

Requested == [stage : Stages, ws : Workspaces \cup {NoWorkspace},
              method : AllMethods \cup {"none"}, thread : Threads \cup {NoThread}]
Said == {m \in [id : Requests \cup {NoRequest}, method : MessageMethods,
                 thread : Threads \cup {NoThread}, others : SUBSET Threads] :
            m.method = "background" => m.thread \in Threads}

\* Types of the tables, the callers, the reader and the server.
TypeOK ==
    /\ nextId \in 1 .. MaxRequests + 1
    /\ call \in [Requests -> Requested]
    /\ pending \subseteq Requests
    /\ context \subseteq Requests
    /\ threadWorkspace \in [Threads -> Workspaces \cup {NoWorkspace}]
    /\ hidden \subseteq Threads
    /\ workspaceIds \subseteq Workspaces
    /\ roots \subseteq Workspaces
    /\ reader \in [at : ReaderPcs, msg : Said, from : Workspaces \cup {NoWorkspace},
                   route : Workspaces \cup {NoWorkspace}]
    /\ running \in BOOLEAN
    /\ received \subseteq Requests
    /\ answered \subseteq Requests
    /\ outbox \in Seq(Said)
    /\ created \subseteq Threads
    /\ starter \in [Threads -> Workspaces \cup {NoWorkspace}]
    /\ family \in [Threads -> SUBSET Threads]

-----------------------------------------------------------------------------
(* Properties *)

\* The table of waiting requests holds nobody whose call has returned, so it
\* cannot grow with the requests served; and as long as the reader reads,
\* nobody waits without being in it.  Only a caller that dropped its future
\* leaves an entry behind.
PendingIsExact ==
    /\ \A r \in pending : Stage(r) \in {"listed", "ready", "waiting", "dropped"}
    /\ \A r \in Requests : Stage(r) = "waiting" => r \in pending

\* When a caller is told about a thread, by an answer to thread/start or to a
\* request about it, the thread's events are already routed, and they stay
\* routed until the thread is archived: they never fall back to the owner.
ToldThreadsAreRouted ==
    \A r \in Requests :
        /\ Stage(r) = "answered"
        /\ call[r].thread \in Threads \ MemoryThreads
        /\ ~\E q \in answered : call[q].method = "archive" /\ call[q].thread = call[r].thread
        => threadWorkspace[call[r].thread] # NoWorkspace

\* Routing never hands a thread to a bystander: the workspace its events go to
\* started it, asked about it or about a thread whose items named it, has a
\* root that encloses it, or is the owner everything unknown falls back to.
NoCrossTalk ==
    \A t \in Threads :
        LET w == threadWorkspace[t] IN
        w \in Workspaces =>
            \E u \in family[t] :
               \/ w \in {starter[u], Owner}
               \/ Depth[u][w] > 0
               \/ \E r \in Requests : call[r].thread = u /\ call[r].ws = w

\* From the moment the reader learns of a memory-consolidation thread until the
\* thread is archived, the frontend hears of it only that it is hidden.
MemoryThreadsAreSilent ==
    [][ /\ emitted' # emitted
        /\ emitted'.thread \in MemoryThreads
        => \/ emitted'.method \in {"background", "archived"}
           \/ \E q \in answered : call[q].method = "archive"
                                  /\ call[q].thread = emitted'.thread ]_vars

\* How far a caller sees its request: the steps that enter it in the tables and
\* write it are one open call to it.
Progress(stage) ==
    CASE stage = "unused" -> "idle"
      [] stage \in {"called", "listed", "ready", "waiting"} -> "open"
      [] stage = "answered" -> "answered"
      [] OTHER -> "gaveUp"

\* A caller that is answered is answered once and by the server's answer to its
\* own request; a caller that gives up hears nothing later.
Calls == INSTANCE RequestTable WITH
            state <- [r \in Requests |-> Progress(Stage(r))],
            served <- answered
RefinesRequestTable == Calls!Spec

\* "Ensure pending foreground requests cannot accumulate after process output
\* ends" (app_server.rs:1065): once the reader is gone, nobody waits.
PendingStaysDrained ==
    At("done") => ~\E r \in pending : Stage(r) = "waiting"

=============================================================================
