------------------------- MODULE RemoteBackendProofs -------------------------
(***************************************************************************)
(* Proofs about RemoteBackend.  What a step does to one connection and to  *)
(* one call is stated once, in the lemmas named ...Effect; from these, a   *)
(* step is for a connection a quiet one, a message sent or one answered    *)
(* (FlowStep), and for a call a stay or one of four moves (Moves).  On     *)
(* that rest the invariants: FlowInv, that a number is at most once on its *)
(* way and belongs to one call; with Truth, that an answer is about the    *)
(* call it reaches; with Budget, that what is on its way and what was      *)
(* carried out was sent.  EndInv and FollowInv are about the end of a      *)
(* connection, and about the client and the settings.                      *)
(***************************************************************************)
EXTENDS RemoteBackend, SequenceTheorems, FiniteSetTheorems, TLAPS

-----------------------------------------------------------------------------
(* Types *)

Kinds == {"request", "auth"}
Entries == [id : Nat, by : Calls]
Messages == [id : Nat, by : Calls, kind : Kinds]
Results == [id : Nat, result : {"ok", "error"}]
Jobs == [conn : Nat, id : Nat, by : Calls, kind : Kinds]

Connections ==
  [host : Hosts, link : {"up", "down"},
   connected : BOOLEAN, nextId : Nat, pending : SUBSET Entries, queue : Seq(Messages),
   writer : {"on", "broken", "off"}, reader : {"on", "off"}, shut : BOOLEAN,
   serving : BOOLEAN, authenticated : BOOLEAN, lines : Seq(Messages), answers : Seq(Results)]

Claiming == {"insert", "send", "wait"}
TaskPcs == {"idle", "ensure", "resolve", "connect", "store", "check", "ok", "failed"}
             \cup Claiming

Tasks ==
  [pc : TaskPcs, attempt : {1, 2}, conn : Nat, held : SUBSET Nat, kind : Kinds,
   id : Nat, host : Hosts, answer : {"none", "ok", "error", "lost"}, raced : BOOLEAN]

UpdateRecords == [pc : {"idle", "read", "saved", "over"}, previous : Hosts, to : Hosts,
                  crossed : BOOLEAN]

\* The settings, the calls, the connections and the daemon's tasks are well
\* formed.
TypeOK ==
  /\ saved \in Hosts
  /\ updates \in [Updates -> UpdateRecords]
  /\ client \in Nat
  /\ tasks \in [Calls -> Tasks]
  /\ connections \in Seq(Connections)
  /\ running \in SUBSET Jobs
  /\ executed \in [Calls -> Nat]
  /\ late \in SUBSET Nat
  /\ disturbances \in Nat

\* The client, the calls that use a connection and the daemon's tasks name
\* connections that were made; only a call that is authenticating is of that kind.
Placed ==
  /\ client = NoConnection \/ client \in Made
  /\ \A c \in Calls :
       /\ tasks[c].pc \in {"store", "check"} \cup Claiming => tasks[c].conn \in Made
       /\ tasks[c].kind = "auth" => tasks[c].pc \in {"store", "check"} \cup Claiming
  /\ \A r \in running : r.conn \in Made

-----------------------------------------------------------------------------
(* Connections one at a time *)

LEMMA MadeIs ==
  ASSUME NEW s \in Seq(Connections)
  PROVE  /\ DOMAIN s = 1..Len(s) /\ Len(s) \in Nat
         /\ \A k \in DOMAIN s : s[k] \in Connections /\ k \in Nat /\ k # NoConnection
  BY LenProperties, ElementOfSeq DEF NoConnection

\* Changing one connection leaves the others.
LEMMA OneConnection ==
  ASSUME connections \in Seq(Connections), NEW k \in Made, NEW x \in Connections,
         connections' = [connections EXCEPT ![k] = x]
  PROVE  /\ connections' \in Seq(Connections) /\ Made' = Made
         /\ connections'[k] = x
         /\ \A j \in Made \ {k} : connections'[j] = connections[j]
<1>1. k \in 1..Len(connections) /\ DOMAIN connections = 1..Len(connections)
  BY MadeIs DEF Made
<1>2. /\ connections' \in Seq(Connections) /\ Len(connections') = Len(connections)
      /\ \A j \in 1..Len(connections) : connections'[j] = IF j = k THEN x ELSE connections[j]
  BY <1>1, ExceptSeq
<1>3. DOMAIN connections' = 1..Len(connections')
  BY <1>2, LenProperties
<1> QED BY <1>1, <1>2, <1>3 DEF Made

\* A queue that grows at its end or loses its head stays a queue.
LEMMA Queues ==
  ASSUME NEW S, NEW s \in Seq(S)
  PROVE  /\ <<>> \in Seq(S)
         /\ \A x \in S : Append(s, x) \in Seq(S)
         /\ s # <<>> => Tail(s) \in Seq(S) /\ Head(s) \in S
  BY EmptySeq, AppendProperties, HeadTailProperties

\* The fields of a connection that the steps assign.
LEMMA ConnectionFields ==
  ASSUME NEW x \in Connections
  PROVE  /\ \A P \in SUBSET Entries : [x EXCEPT !.pending = P] \in Connections
         /\ \A s \in Seq(Messages) : /\ [x EXCEPT !.queue = s] \in Connections
                                     /\ [x EXCEPT !.lines = s] \in Connections
         /\ \A s \in Seq(Results) : [x EXCEPT !.answers = s] \in Connections
         /\ [x EXCEPT !.connected = FALSE] \in Connections
         /\ [x EXCEPT !.connected = FALSE, !.pending = {}] \in Connections
         /\ \A b \in BOOLEAN : /\ [x EXCEPT !.serving = b] \in Connections
                               /\ [x EXCEPT !.shut = b] \in Connections
                               /\ [x EXCEPT !.authenticated = b] \in Connections
         /\ \A n \in Nat : [x EXCEPT !.nextId = n] \in Connections
         /\ \A v \in {"on", "broken", "off"} : [x EXCEPT !.writer = v] \in Connections
         /\ [x EXCEPT !.reader = "off"] \in Connections
         /\ [x EXCEPT !.link = "down"] \in Connections
  BY DEF Connections

LEMMA NewConnectionType ==
  ASSUME NEW host \in Hosts
  PROVE  NewConnection(host) \in Connections
  BY EmptySeq DEF NewConnection, Connections

-----------------------------------------------------------------------------
(* Calls one at a time *)

\* What stays of a call when an answer or the end of its connection is noted.
SameButAnswer(t, u) ==
  /\ u.pc = t.pc /\ u.conn = t.conn /\ u.id = t.id /\ u.kind = t.kind
  /\ u.attempt = t.attempt /\ u.held = t.held

\* The calls whose senders are used are answered, the others stay as they are.
LEMMA AnswerEffect ==
  ASSUME NEW ts \in [Calls -> Tasks], NEW k, NEW entries, NEW a \in {"ok", "error", "lost"}
  PROVE  /\ Answer(ts, k, entries, a) \in [Calls -> Tasks]
         /\ \A c \in Calls :
              /\ SameButAnswer(ts[c], Answer(ts, k, entries, a)[c])
              /\ Answer(ts, k, entries, a)[c].raced = ts[c].raced
              /\ Answer(ts, k, entries, a)[c].answer =
                    IF /\ ts[c].conn = k /\ ts[c].pc \in {"send", "wait"}
                       /\ [id |-> ts[c].id, by |-> c] \in entries
                    THEN a ELSE ts[c].answer
<1> DEFINE Told(c) == /\ ts[c].conn = k /\ ts[c].pc \in {"send", "wait"}
                      /\ [id |-> ts[c].id, by |-> c] \in entries
           A == Answer(ts, k, entries, a)
<1>1. \A c \in Calls : A[c] = IF Told(c) THEN [ts[c] EXCEPT !.answer = a] ELSE ts[c]
  BY DEF Answer
<1>2. \A c \in Calls : A[c] \in Tasks /\ SameButAnswer(ts[c], A[c])
                        /\ A[c].raced = ts[c].raced
                        /\ A[c].answer = IF Told(c) THEN a ELSE ts[c].answer
  <2> HIDE DEF A
  <2> TAKE c \in Calls
  <2>1. CASE Told(c)
    <3>1. A[c] = [ts[c] EXCEPT !.answer = a] /\ ts[c] \in Tasks
      BY <1>1, <2>1
    <3> HIDE DEF Told
    <3>2. A[c] \in Tasks
      BY <3>1 DEF Tasks
    <3>3. SameButAnswer(ts[c], A[c]) /\ A[c].raced = ts[c].raced /\ A[c].answer = a
      BY <3>1 DEF Tasks, SameButAnswer
    <3> QED BY <2>1, <3>2, <3>3
  <2>2. CASE ~Told(c)
    BY <1>1, <2>2 DEF SameButAnswer
  <2> QED BY <2>1, <2>2
<1>3. A = [c \in Calls |-> A[c]]
  BY DEF Answer
<1>4. A \in [Calls -> Tasks]
  BY <1>2, <1>3
<1> HIDE DEF A
<1>5. \A c \in Calls : /\ SameButAnswer(ts[c], A[c])
                        /\ A[c].raced = ts[c].raced
                        /\ A[c].answer = IF Told(c) THEN a ELSE ts[c].answer
  BY <1>2
<1> QED BY <1>4, <1>5 DEF A

\* Cutting a connection tells the calls in its table, and marks those about to
\* enter it.
LEMMA TasksCutEffect ==
  ASSUME tasks \in [Calls -> Tasks], NEW k
  PROVE  /\ TasksCut(k) \in [Calls -> Tasks]
         /\ \A c \in Calls :
              /\ SameButAnswer(tasks[c], TasksCut(k)[c])
              /\ tasks[c].raced => TasksCut(k)[c].raced
              /\ tasks[c].conn = k /\ tasks[c].pc = "insert" => TasksCut(k)[c].raced
              /\ TasksCut(k)[c].answer =
                    IF /\ tasks[c].conn = k /\ tasks[c].pc \in {"send", "wait"}
                       /\ [id |-> tasks[c].id, by |-> c] \in connections[k].pending
                    THEN "lost" ELSE tasks[c].answer
<1> DEFINE told == Answer(tasks, k, connections[k].pending, "lost")
           T == TasksCut(k)
<1>1. /\ told \in [Calls -> Tasks]
      /\ \A c \in Calls :
           /\ SameButAnswer(tasks[c], told[c])
           /\ told[c].raced = tasks[c].raced
           /\ told[c].answer =
                 IF /\ tasks[c].conn = k /\ tasks[c].pc \in {"send", "wait"}
                    /\ [id |-> tasks[c].id, by |-> c] \in connections[k].pending
                 THEN "lost" ELSE tasks[c].answer
  BY AnswerEffect
<1>2. T = [c \in Calls |-> IF told[c].conn = k /\ told[c].pc = "insert"
                            THEN [told[c] EXCEPT !.raced = TRUE] ELSE told[c]]
  BY DEF TasksCut
<1> HIDE DEF told, T
<1>3. \A c \in Calls :
         T[c] = IF tasks[c].conn = k /\ tasks[c].pc = "insert"
                THEN [told[c] EXCEPT !.raced = TRUE] ELSE told[c]
  BY <1>1, <1>2 DEF SameButAnswer
<1>4. ASSUME NEW c \in Calls
      PROVE  /\ T[c] \in Tasks
             /\ SameButAnswer(tasks[c], T[c])
             /\ T[c].answer = told[c].answer
             /\ tasks[c].raced => T[c].raced
             /\ tasks[c].conn = k /\ tasks[c].pc = "insert" => T[c].raced
  <2>1. told[c] \in Tasks /\ SameButAnswer(tasks[c], told[c]) /\ told[c].raced = tasks[c].raced
    BY <1>1
  <2>2. CASE tasks[c].conn = k /\ tasks[c].pc = "insert"
    <3>1. T[c] = [told[c] EXCEPT !.raced = TRUE]
      BY <1>3, <2>2
    <3>2. T[c] \in Tasks
      BY <2>1, <3>1 DEF Tasks
    <3>3. SameButAnswer(told[c], T[c]) /\ T[c].answer = told[c].answer /\ T[c].raced
      BY <2>1, <3>1 DEF Tasks, SameButAnswer
    <3> QED BY <2>1, <2>2, <3>2, <3>3 DEF SameButAnswer
  <2>3. CASE ~(tasks[c].conn = k /\ tasks[c].pc = "insert")
    BY <1>3, <2>1, <2>3
  <2> QED BY <2>2, <2>3
<1>5. T = [c \in Calls |-> T[c]]
  BY <1>2
<1>6. T \in [Calls -> Tasks]
  <2>1. \A c \in Calls : T[c] \in Tasks
    BY <1>4
  <2> QED BY <1>5, <2>1
<1>7. ASSUME NEW c \in Calls
      PROVE  T[c].answer =
                    IF /\ tasks[c].conn = k /\ tasks[c].pc \in {"send", "wait"}
                       /\ [id |-> tasks[c].id, by |-> c] \in connections[k].pending
                    THEN "lost" ELSE tasks[c].answer
  <2>1. T[c].answer = told[c].answer
    BY <1>4
  <2> QED BY <1>1, <2>1
<1>8. T = TasksCut(k)
  BY DEF T
<1> QED BY <1>4, <1>6, <1>7, <1>8

\* A call that ends keeps nothing of what it was doing.
LEMMA EndedEffect ==
  ASSUME tasks \in [Calls -> Tasks], NEW c \in Calls, NEW result \in {"ok", "failed"},
         tasks' = Ended(c, result), Home \in Hosts
  PROVE  /\ tasks' \in [Calls -> Tasks]
         /\ tasks'[c].pc = result /\ tasks'[c].kind = "request" /\ tasks'[c].answer = "none"
         /\ tasks'[c].attempt = 1
         /\ \A d \in Calls \ {c} : tasks'[d] = tasks[d]
<1>1. [IdleTask EXCEPT !.pc = result] \in Tasks
  BY DEF IdleTask, Tasks, TaskPcs, Kinds, NoConnection, NoId
<1>2. /\ [IdleTask EXCEPT !.pc = result].pc = result
      /\ [IdleTask EXCEPT !.pc = result].kind = "request"
      /\ [IdleTask EXCEPT !.pc = result].answer = "none"
      /\ [IdleTask EXCEPT !.pc = result].attempt = 1
  BY DEF IdleTask
<1> QED BY <1>1, <1>2 DEF Ended

\* A call that has a result is authenticated, is over, or starts once more.
LEMMA ReturnEffect ==
  ASSUME tasks \in [Calls -> Tasks], NEW c \in Calls,
         NEW result \in {"ok", "error", "lost", "timeout"}, Return(c, result), Home \in Hosts
  PROVE  /\ tasks' \in [Calls -> Tasks]
         /\ \A d \in Calls \ {c} : tasks'[d] = tasks[d]
         /\ tasks'[c].answer = "none"
         /\ \/ /\ tasks'[c].pc = "store" /\ tasks'[c].kind = "auth" /\ tasks[c].kind = "auth"
               /\ tasks'[c].conn = tasks[c].conn /\ tasks'[c].attempt = tasks[c].attempt
            \/ /\ tasks'[c].pc \in {"ok", "failed"} /\ tasks'[c].kind = "request"
               /\ tasks'[c].attempt = 1
               /\ tasks'[c].pc = "ok" => tasks[c].kind = "request" /\ result = "ok"
            \/ /\ tasks'[c].pc = "ensure" /\ tasks'[c].kind = "request"
               /\ tasks'[c].attempt = 2 /\ tasks[c].attempt = 1
               /\ tasks[c].kind = "request" /\ c \in Retryable
         /\ client' = client \/ client' = NoConnection
<1>1. CASE tasks[c].kind = "auth" /\ result = "ok"
  <2>1. tasks' = [tasks EXCEPT ![c].pc = "store", ![c].answer = "none", ![c].id = NoId]
        /\ UNCHANGED client
    BY <1>1 DEF Return
  <2>2. tasks[c] \in Tasks
    OBVIOUS
  <2>3. tasks' = [tasks EXCEPT ![c] = [tasks[c] EXCEPT !.pc = "store", !.answer = "none", !.id = NoId]]
    BY <2>1
  <2>4. [tasks[c] EXCEPT !.pc = "store", !.answer = "none", !.id = NoId] \in Tasks
    BY <2>2 DEF Tasks, TaskPcs, NoId
  <2> QED BY <1>1, <2>1, <2>2, <2>3, <2>4 DEF Tasks
<1>2. CASE tasks[c].kind = "auth" /\ result # "ok"
  BY <1>2, EndedEffect DEF Return
<1>3. CASE tasks[c].kind = "request" /\ result = "ok"
  BY <1>3, EndedEffect DEF Return
<1>4. CASE /\ tasks[c].kind = "request" /\ result = "lost"
           /\ tasks[c].attempt = 1 /\ c \in Retryable
  <2>1. tasks' = [tasks EXCEPT ![c] = [IdleTask EXCEPT !.pc = "ensure",
                                             !.attempt = 2, !.held = tasks[c].held]]
        /\ client' = NoConnection
    BY <1>4 DEF Return
  <2>2. tasks[c] \in Tasks
    OBVIOUS
  <2>3. [IdleTask EXCEPT !.pc = "ensure", !.attempt = 2, !.held = tasks[c].held] \in Tasks
    BY <2>2 DEF IdleTask, Tasks, TaskPcs, Kinds, NoConnection, NoId
  <2> QED BY <1>4, <2>1, <2>3 DEF IdleTask
<1>5. CASE /\ tasks[c].kind = "request" /\ result # "ok"
           /\ result = "lost" => tasks[c].attempt # 1 \/ c \notin Retryable
  BY <1>5, EndedEffect DEF Return
<1>6. tasks[c].kind \in {"auth", "request"}
  BY DEF Tasks, Kinds
<1> QED BY <1>1, <1>2, <1>3, <1>4, <1>5, <1>6

-----------------------------------------------------------------------------
(* What each step does to a connection *)

\* Only connection k changes, and only in what a step may assign.
Changes(k) ==
  /\ connections' \in Seq(Connections) /\ Made' = Made
  /\ connections'[k].host = connections[k].host
  /\ \A j \in Made \ {k} : connections'[j] = connections[j]

SameTraffic(k) == /\ connections'[k].queue = connections[k].queue
                  /\ connections'[k].lines = connections[k].lines
                  /\ connections'[k].answers = connections[k].answers
SameTable(k) == connections'[k].pending = connections[k].pending
SameState(k) == /\ connections'[k].nextId = connections[k].nextId
                /\ connections'[k].connected = connections[k].connected
                /\ connections'[k].reader = connections[k].reader

LEMMA ChangesTo ==
  ASSUME connections \in Seq(Connections), NEW k \in Made, NEW x \in Connections,
         connections' = [connections EXCEPT ![k] = x], x.host = connections[k].host
  PROVE  Changes(k) /\ connections'[k] = x
  BY OneConnection DEF Changes

LEMMA EnterEffect ==
  ASSUME connections \in Seq(Connections), NEW k \in Made, NEW e \in Entries,
         connections' = [connections EXCEPT ![k].pending = @ \cup {e}]
  PROVE  /\ Changes(k) /\ SameTraffic(k) /\ SameState(k)
         /\ connections'[k].pending = connections[k].pending \cup {e}
<1> DEFINE x == [connections[k] EXCEPT !.pending = @ \cup {e}]
<1>1. connections[k] \in Connections
  BY MadeIs DEF Made
<1>2. x \in Connections /\ connections' = [connections EXCEPT ![k] = x]
  BY <1>1 DEF Connections
<1>3. /\ x.host = connections[k].host /\ x.queue = connections[k].queue
      /\ x.lines = connections[k].lines /\ x.answers = connections[k].answers
      /\ x.nextId = connections[k].nextId /\ x.connected = connections[k].connected
      /\ x.reader = connections[k].reader /\ x.pending = connections[k].pending \cup {e}
  BY <1>1 DEF Connections
<1> HIDE DEF x
<1> QED BY <1>2, <1>3, ChangesTo DEF SameTraffic, SameState

LEMMA ForgetEffect ==
  ASSUME connections \in Seq(Connections), NEW c, tasks[c].conn \in Made, Forget(c)
  PROVE  LET k == tasks[c].conn IN
         /\ Changes(k) /\ SameTraffic(k) /\ SameState(k)
         /\ connections'[k].pending = connections[k].pending \ {[id |-> tasks[c].id, by |-> c]}
<1> DEFINE k == tasks[c].conn
           e == [id |-> tasks[c].id, by |-> c]
           x == [connections[k] EXCEPT !.pending = @ \ {e}]
<1>1. connections[k] \in Connections
  BY MadeIs DEF Made
<1>2. x \in Connections /\ connections' = [connections EXCEPT ![k] = x]
  BY <1>1 DEF Connections, Forget
<1>3. /\ x.host = connections[k].host /\ x.queue = connections[k].queue
      /\ x.lines = connections[k].lines /\ x.answers = connections[k].answers
      /\ x.nextId = connections[k].nextId /\ x.connected = connections[k].connected
      /\ x.reader = connections[k].reader /\ x.pending = connections[k].pending \ {e}
  BY <1>1 DEF Connections
<1> HIDE DEF x
<1>4. k \in Made
  OBVIOUS
<1> HIDE DEF k
<1>5. Changes(k) /\ connections'[k] = x
  BY <1>2, <1>3, <1>4, ChangesTo
<1> QED BY <1>3, <1>5 DEF k, SameTraffic, SameState

\* The number of the next request.
LEMMA NumberEffect ==
  ASSUME connections \in Seq(Connections), NEW k \in Made,
         connections' = [connections EXCEPT ![k].nextId = connections[k].nextId + 1]
  PROVE  /\ Changes(k) /\ SameTraffic(k) /\ SameTable(k)
         /\ connections[k].nextId \in Nat
         /\ connections'[k].nextId = connections[k].nextId + 1
         /\ connections'[k].connected = connections[k].connected
         /\ connections'[k].reader = connections[k].reader
<1> DEFINE x == [connections[k] EXCEPT !.nextId = connections[k].nextId + 1]
<1>1. connections[k] \in Connections
  BY MadeIs DEF Made
<1>2. x \in Connections
  <2>1. connections[k].nextId + 1 \in Nat
    BY <1>1 DEF Connections
  <2> QED BY <1>1, <2>1, ConnectionFields
<1>5. connections' = [connections EXCEPT ![k] = x]
  OBVIOUS
<1>3. /\ x.host = connections[k].host /\ x.queue = connections[k].queue
      /\ x.lines = connections[k].lines /\ x.answers = connections[k].answers
      /\ x.nextId = connections[k].nextId + 1 /\ x.connected = connections[k].connected
      /\ x.reader = connections[k].reader /\ x.pending = connections[k].pending
      /\ connections[k].nextId \in Nat
  BY <1>1 DEF Connections
<1> HIDE DEF x
<1> QED BY <1>2, <1>3, <1>5, ChangesTo DEF SameTraffic, SameTable

LEMMA QueueEffect ==
  ASSUME connections \in Seq(Connections), NEW k \in Made, NEW m \in Messages,
         connections' = [connections EXCEPT ![k].queue = Append(@, m)]
  PROVE  /\ Changes(k) /\ SameTable(k) /\ SameState(k)
         /\ connections[k].queue \in Seq(Messages)
         /\ connections'[k].queue = Append(connections[k].queue, m)
         /\ connections'[k].lines = connections[k].lines
         /\ connections'[k].answers = connections[k].answers
<1> DEFINE x == [connections[k] EXCEPT !.queue = Append(@, m)]
<1>1. connections[k] \in Connections
  BY MadeIs DEF Made
<1>2. connections[k].queue \in Seq(Messages) /\ Append(connections[k].queue, m) \in Seq(Messages)
  BY <1>1, Queues DEF Connections
<1>3. x \in Connections /\ connections' = [connections EXCEPT ![k] = x]
  BY <1>1, <1>2 DEF Connections
<1>4. /\ x.host = connections[k].host /\ x.queue = Append(connections[k].queue, m)
      /\ x.lines = connections[k].lines /\ x.answers = connections[k].answers
      /\ x.nextId = connections[k].nextId /\ x.connected = connections[k].connected
      /\ x.reader = connections[k].reader /\ x.pending = connections[k].pending
  BY <1>1 DEF Connections
<1> HIDE DEF x
<1> QED BY <1>2, <1>3, <1>4, ChangesTo DEF SameTable, SameState

\* A line that leaves the queue goes out, gets lost, or breaks the writer.
LEMMA WriteEffect ==
  ASSUME connections \in Seq(Connections), NEW k \in Made, WriteNext(k)
  PROVE  /\ Changes(k)
         /\ connections[k].queue \in Seq(Messages) /\ connections[k].queue # <<>>
         /\ connections[k].lines \in Seq(Messages)
         /\ connections'[k].queue = Tail(connections[k].queue)
         /\ connections'[k].answers = connections[k].answers
         /\ connections'[k].nextId = connections[k].nextId
         /\ connections'[k].reader = connections[k].reader
         /\ \/ connections'[k].lines = Append(connections[k].lines, Head(connections[k].queue))
            \/ connections'[k].lines = connections[k].lines
         /\ \/ /\ connections'[k].connected = connections[k].connected
               /\ SameTable(k) /\ UNCHANGED tasks
            \/ /\ connections'[k].connected = FALSE
               /\ connections'[k].pending = {} /\ tasks' = TasksCut(k)
<1> DEFINE conn == connections[k]
           rest == [conn EXCEPT !.queue = Tail(conn.queue)]
           out == [rest EXCEPT !.lines = Append(@, Head(conn.queue))]
           cut == [Cut(k) EXCEPT !.writer = "broken", !.queue = Tail(@)]
<1>1. conn \in Connections
  BY MadeIs DEF Made
<1>2. /\ conn.queue \in Seq(Messages) /\ conn.queue # <<>> /\ conn.lines \in Seq(Messages)
      /\ Tail(conn.queue) \in Seq(Messages)
      /\ Append(conn.lines, Head(conn.queue)) \in Seq(Messages)
  <2>1. conn.queue \in Seq(Messages) /\ conn.queue # <<>> /\ conn.lines \in Seq(Messages)
    BY <1>1 DEF Connections, WriteNext
  <2> QED BY <2>1, Queues
<1>3. /\ rest \in Connections /\ rest.queue = Tail(conn.queue)
      /\ rest.lines = conn.lines /\ rest.answers = conn.answers /\ rest.host = conn.host
      /\ rest.nextId = conn.nextId /\ rest.connected = conn.connected
      /\ rest.reader = conn.reader /\ rest.pending = conn.pending
  BY <1>1, <1>2 DEF Connections
<1>4. /\ out \in Connections /\ out.queue = Tail(conn.queue)
      /\ out.lines = Append(conn.lines, Head(conn.queue))
      /\ out.answers = conn.answers /\ out.host = conn.host
      /\ out.nextId = conn.nextId /\ out.connected = conn.connected
      /\ out.reader = conn.reader /\ out.pending = conn.pending
  BY <1>1, <1>2 DEF Connections
<1>5. /\ cut \in Connections /\ cut.queue = Tail(conn.queue)
      /\ cut.lines = conn.lines /\ cut.answers = conn.answers /\ cut.host = conn.host
      /\ cut.nextId = conn.nextId /\ cut.connected = FALSE
      /\ cut.reader = conn.reader /\ cut.pending = {}
  BY <1>1, <1>2 DEF Connections, Cut
<1>6. \/ connections' = [connections EXCEPT ![k] = out] /\ UNCHANGED tasks
      \/ connections' = [connections EXCEPT ![k] = rest] /\ UNCHANGED tasks
      \/ connections' = [connections EXCEPT ![k] = cut] /\ tasks' = TasksCut(k)
  BY DEF WriteNext
<1> HIDE DEF conn, rest, out, cut
<1>7. CASE connections' = [connections EXCEPT ![k] = out] /\ UNCHANGED tasks
  <2>1. Changes(k) /\ connections'[k] = out
    BY <1>4, <1>7, ChangesTo DEF conn
  <2> QED BY <1>2, <1>4, <1>7, <2>1 DEF conn, SameTable
<1>8. CASE connections' = [connections EXCEPT ![k] = rest] /\ UNCHANGED tasks
  <2>1. Changes(k) /\ connections'[k] = rest
    BY <1>3, <1>8, ChangesTo DEF conn
  <2> QED BY <1>2, <1>3, <1>8, <2>1 DEF conn, SameTable
<1>9. CASE connections' = [connections EXCEPT ![k] = cut] /\ tasks' = TasksCut(k)
  <2>1. Changes(k) /\ connections'[k] = cut
    BY <1>5, <1>9, ChangesTo DEF conn
  <2> QED BY <1>2, <1>5, <1>9, <2>1 DEF conn
<1> QED BY <1>6, <1>7, <1>8, <1>9

LEMMA WriterEndsEffect ==
  ASSUME connections \in Seq(Connections), NEW k \in Made, WriterEnds(k)
  PROVE  /\ Changes(k) /\ SameTable(k) /\ SameState(k)
         /\ connections'[k].queue = <<>>
         /\ connections'[k].lines = connections[k].lines
         /\ connections'[k].answers = connections[k].answers
<1> DEFINE x == [connections[k] EXCEPT !.writer = "off", !.queue = <<>>, !.shut = TRUE]
<1>1. connections[k] \in Connections
  BY MadeIs DEF Made
<1>2. x \in Connections
  BY <1>1, EmptySeq DEF Connections
<1>3. connections' = [connections EXCEPT ![k] = x]
  BY DEF WriterEnds
<1>4. /\ x.host = connections[k].host /\ x.queue = <<>>
      /\ x.lines = connections[k].lines /\ x.answers = connections[k].answers
      /\ x.nextId = connections[k].nextId /\ x.connected = connections[k].connected
      /\ x.reader = connections[k].reader /\ x.pending = connections[k].pending
  BY <1>1 DEF Connections
<1> HIDE DEF x
<1> QED BY <1>2, <1>3, <1>4, ChangesTo DEF SameTable, SameState

LEMMA ReadEffect ==
  ASSUME connections \in Seq(Connections), NEW k \in Made, ReadNext(k)
  PROVE  LET a == Head(connections[k].answers)
             entries == {e \in connections[k].pending : e.id = a.id} IN
         /\ Changes(k) /\ SameState(k)
         /\ connections[k].answers \in Seq(Results) /\ connections[k].answers # <<>>
         /\ a \in Results
         /\ connections'[k].answers = Tail(connections[k].answers)
         /\ connections'[k].queue = connections[k].queue
         /\ connections'[k].lines = connections[k].lines
         /\ connections'[k].pending = connections[k].pending \ entries
         /\ tasks' = Answer(tasks, k, entries, a.result)
<1> DEFINE conn == connections[k]
           entries == {e \in conn.pending : e.id = Head(conn.answers).id}
           x == [conn EXCEPT !.answers = Tail(@), !.pending = @ \ entries]
<1>1. conn \in Connections
  BY MadeIs DEF Made
<1>2. /\ conn.answers \in Seq(Results) /\ conn.answers # <<>>
      /\ Tail(conn.answers) \in Seq(Results) /\ Head(conn.answers) \in Results
  <2>1. conn.answers \in Seq(Results) /\ conn.answers # <<>>
    BY <1>1 DEF Connections, ReadNext
  <2> QED BY <2>1, Queues
<1>3. x \in Connections
  BY <1>1, <1>2 DEF Connections
<1>4. /\ connections' = [connections EXCEPT ![k] = x]
      /\ tasks' = Answer(tasks, k, entries, Head(conn.answers).result)
  BY DEF ReadNext
<1>5. /\ x.host = conn.host /\ x.queue = conn.queue
      /\ x.lines = conn.lines /\ x.answers = Tail(conn.answers)
      /\ x.nextId = conn.nextId /\ x.connected = conn.connected
      /\ x.reader = conn.reader /\ x.pending = conn.pending \ entries
  BY <1>1 DEF Connections
<1> HIDE DEF x
<1>6. Changes(k) /\ connections'[k] = x
  BY <1>3, <1>4, <1>5, ChangesTo
<1> QED BY <1>2, <1>4, <1>5, <1>6 DEF SameState

LEMMA ReaderEndsEffect ==
  ASSUME connections \in Seq(Connections), NEW k \in Made, ReaderEnds(k)
  PROVE  /\ Changes(k)
         /\ connections'[k].nextId = connections[k].nextId
         /\ connections'[k].connected = FALSE /\ connections'[k].reader = "off"
         /\ connections'[k].pending = {} /\ connections'[k].answers = <<>>
         /\ connections'[k].queue = connections[k].queue
         /\ connections'[k].lines = connections[k].lines
         /\ tasks' = TasksCut(k)
<1> DEFINE conn == connections[k]
           x == [Cut(k) EXCEPT !.reader = "off", !.answers = <<>>]
<1>1. conn \in Connections
  BY MadeIs DEF Made
<1>2. x \in Connections
  BY <1>1, EmptySeq DEF Connections, Cut
<1>3. connections' = [connections EXCEPT ![k] = x] /\ tasks' = TasksCut(k)
  BY DEF ReaderEnds
<1>4. /\ x.host = conn.host /\ x.queue = conn.queue
      /\ x.lines = conn.lines /\ x.answers = <<>>
      /\ x.nextId = conn.nextId /\ x.connected = FALSE
      /\ x.reader = "off" /\ x.pending = {}
  BY <1>1 DEF Connections, Cut
<1> HIDE DEF x
<1> QED BY <1>2, <1>3, <1>4, ChangesTo

\* The daemon's end, and the link.
LEMMA LoseLinkEffect ==
  ASSUME connections \in Seq(Connections), NEW k \in Made, LoseLink(k)
  PROVE  Changes(k) /\ SameTraffic(k) /\ SameTable(k) /\ SameState(k)
<1> DEFINE x == [connections[k] EXCEPT !.link = "down"]
<1>1. connections[k] \in Connections
  BY MadeIs DEF Made
<1>2. x \in Connections
  BY <1>1, ConnectionFields
<1>3. connections' = [connections EXCEPT ![k] = x]
  BY DEF LoseLink
<1>4. /\ x.host = connections[k].host /\ x.queue = connections[k].queue
      /\ x.lines = connections[k].lines /\ x.answers = connections[k].answers
      /\ x.nextId = connections[k].nextId /\ x.connected = connections[k].connected
      /\ x.reader = connections[k].reader /\ x.pending = connections[k].pending
  BY <1>1 DEF Connections
<1> HIDE DEF x
<1> QED BY <1>2, <1>3, <1>4, ChangesTo DEF SameTraffic, SameTable, SameState

\* An answer is sent, unless there is no way back.
LEMMA ReplyEffect ==
  ASSUME NEW conn \in Connections, NEW id \in Nat, NEW result \in {"ok", "error"}
  PROVE  LET x == Reply(conn, id, result) IN
         /\ x \in Connections
         /\ x.host = conn.host /\ x.queue = conn.queue /\ x.lines = conn.lines
         /\ x.nextId = conn.nextId /\ x.connected = conn.connected
         /\ x.reader = conn.reader /\ x.pending = conn.pending
         /\ x.answers = conn.answers
              \/ x.answers = Append(conn.answers, [id |-> id, result |-> result])
<1> DEFINE a == [id |-> id, result |-> result]
           x == [conn EXCEPT !.answers = Append(@, a)]
<1>1. conn.answers \in Seq(Results) /\ a \in Results
  BY DEF Connections, Results
<1>2. Append(conn.answers, a) \in Seq(Results)
  BY <1>1, Queues
<1>3. x \in Connections
  BY <1>2, ConnectionFields
<1>4. /\ x.host = conn.host /\ x.queue = conn.queue /\ x.lines = conn.lines
      /\ x.nextId = conn.nextId /\ x.connected = conn.connected
      /\ x.reader = conn.reader /\ x.pending = conn.pending
      /\ x.answers = Append(conn.answers, a)
  BY DEF Connections
<1>5. Reply(conn, id, result) = x \/ Reply(conn, id, result) = conn
  BY DEF Reply
<1> HIDE DEF x
<1> QED BY <1>3, <1>4, <1>5

LEMMA ServerEndsEffect ==
  ASSUME connections \in Seq(Connections), NEW k \in Made, ServerEnds(k)
  PROVE  /\ Changes(k) /\ SameTable(k) /\ SameState(k)
         /\ connections'[k].lines = <<>>
         /\ connections'[k].queue = connections[k].queue
         /\ connections'[k].answers = connections[k].answers
<1> DEFINE x == [connections[k] EXCEPT !.serving = FALSE, !.lines = <<>>, !.authenticated = FALSE]
<1>1. connections[k] \in Connections
  BY MadeIs DEF Made
<1>2. x \in Connections
  BY <1>1, EmptySeq DEF Connections
<1>3. connections' = [connections EXCEPT ![k] = x]
  BY DEF ServerEnds
<1>4. /\ x.host = connections[k].host /\ x.queue = connections[k].queue
      /\ x.lines = <<>> /\ x.answers = connections[k].answers
      /\ x.nextId = connections[k].nextId /\ x.connected = connections[k].connected
      /\ x.reader = connections[k].reader /\ x.pending = connections[k].pending
  BY <1>1 DEF Connections
<1> HIDE DEF x
<1> QED BY <1>2, <1>3, <1>4, ChangesTo DEF SameTable, SameState

\* A line becomes a task of the daemon, or is answered, with ok only to an auth.
LEMMA ServeEffect ==
  ASSUME connections \in Seq(Connections), NEW k \in Made, ServeLine(k)
  PROVE  LET m == Head(connections[k].lines) IN
         /\ Changes(k) /\ SameTable(k) /\ SameState(k)
         /\ connections[k].lines \in Seq(Messages) /\ connections[k].lines # <<>>
         /\ m \in Messages
         /\ connections[k].answers \in Seq(Results)
         /\ connections'[k].lines = Tail(connections[k].lines)
         /\ connections'[k].queue = connections[k].queue
         /\ \/ /\ running' = running \cup {[conn |-> k, id |-> m.id, by |-> m.by, kind |-> m.kind]}
               /\ connections'[k].answers = connections[k].answers
            \/ /\ running' = running
               /\ \/ connections'[k].answers = connections[k].answers
                  \/ \E result \in {"ok", "error"} :
                       /\ result = "ok" => m.kind = "auth"
                       /\ connections'[k].answers =
                            Append(connections[k].answers, [id |-> m.id, result |-> result])
<1> DEFINE conn == connections[k]
           m == Head(conn.lines)
           read == [conn EXCEPT !.lines = Tail(conn.lines)]
           welcome == m.kind = "auth" /\ conn.host \in Trusted
           told == [read EXCEPT !.authenticated = welcome]
           result == IF welcome THEN "ok" ELSE "error"
           x == Reply(told, m.id, result)
<1>1. conn \in Connections
  BY MadeIs DEF Made
<1>2. /\ conn.lines \in Seq(Messages) /\ conn.lines # <<>> /\ conn.answers \in Seq(Results)
      /\ Tail(conn.lines) \in Seq(Messages) /\ m \in Messages
  <2>1. conn.lines \in Seq(Messages) /\ conn.lines # <<>> /\ conn.answers \in Seq(Results)
    BY <1>1 DEF Connections, ServeLine
  <2> QED BY <2>1, Queues
<1>3. /\ read \in Connections /\ read.lines = Tail(conn.lines) /\ read.queue = conn.queue
      /\ read.answers = conn.answers /\ read.host = conn.host
      /\ read.nextId = conn.nextId /\ read.connected = conn.connected
      /\ read.reader = conn.reader /\ read.pending = conn.pending
  BY <1>1, <1>2 DEF Connections
<1>4. CASE conn.authenticated
  <2>1. /\ connections' = [connections EXCEPT ![k] = read]
        /\ running' = running \cup {[conn |-> k, id |-> m.id, by |-> m.by, kind |-> m.kind]}
    BY <1>4 DEF ServeLine
  <2> HIDE DEF read
  <2>2. Changes(k) /\ connections'[k] = read
    BY <1>3, <2>1, ChangesTo
  <2> QED BY <1>2, <1>3, <2>1, <2>2 DEF SameTable, SameState
<1>5. CASE ~conn.authenticated
  <2>1. connections' = [connections EXCEPT ![k] = x] /\ running' = running
    BY <1>5 DEF ServeLine
  <2>2. welcome \in BOOLEAN
    OBVIOUS
  <2>3. result \in {"ok", "error"} /\ (result = "ok" => m.kind = "auth") /\ m.id \in Nat
    BY <1>2 DEF Messages
  <2>4. /\ told \in Connections /\ told.lines = read.lines /\ told.queue = read.queue
        /\ told.answers = read.answers /\ told.host = read.host
        /\ told.nextId = read.nextId /\ told.connected = read.connected
        /\ told.reader = read.reader /\ told.pending = read.pending
    <3> HIDE DEF read, welcome
    <3> QED BY <1>3, <2>2 DEF Connections
  <2> HIDE DEF told, read, welcome, result
  <2>5. /\ x \in Connections
        /\ x.host = told.host /\ x.queue = told.queue /\ x.lines = told.lines
        /\ x.nextId = told.nextId /\ x.connected = told.connected
        /\ x.reader = told.reader /\ x.pending = told.pending
        /\ x.answers = told.answers
             \/ x.answers = Append(told.answers, [id |-> m.id, result |-> result])
    BY <2>3, <2>4, ReplyEffect
  <2> HIDE DEF x
  <2>6. Changes(k) /\ connections'[k] = x
    BY <1>3, <2>1, <2>4, <2>5, ChangesTo
  <2>7. /\ Changes(k) /\ SameTable(k) /\ SameState(k)
        /\ connections'[k].lines = Tail(conn.lines)
        /\ connections'[k].queue = conn.queue
    BY <1>3, <2>4, <2>5, <2>6 DEF SameTable, SameState
  <2>8. \/ connections'[k].answers = conn.answers
        \/ connections'[k].answers = Append(conn.answers, [id |-> m.id, result |-> result])
    BY <1>3, <2>4, <2>5, <2>6
  <2> QED BY <1>2, <2>1, <2>3, <2>7, <2>8
<1> QED BY <1>4, <1>5

\* A task of the daemon ends, and is answered with ok if it was a request that
\* was carried out.
LEMMA RunEffect ==
  ASSUME TypeOK, Placed, NEW r \in running, RunRequest(r)
  PROVE  LET k == r.conn IN
         /\ r \in Jobs /\ k \in Made
         /\ running' = running \ {r}
         /\ Changes(k) /\ SameTable(k) /\ SameState(k)
         /\ connections[k].answers \in Seq(Results)
         /\ connections'[k].lines = connections[k].lines
         /\ connections'[k].queue = connections[k].queue
         /\ executed' \in [Calls -> Nat]
         /\ \A c \in Calls : c # r.by \/ r.kind # "request" => executed'[c] = executed[c]
         /\ \/ executed' = executed
            \/ r.kind = "request" /\ executed'[r.by] = executed[r.by] + 1
         /\ \/ connections'[k].answers = connections[k].answers
            \/ \E result \in {"ok", "error"} :
                 /\ result = "ok" => r.kind = "request" /\ executed'[r.by] = executed[r.by] + 1
                 /\ connections'[k].answers =
                      Append(connections[k].answers, [id |-> r.id, result |-> result])
<1> DEFINE k == r.conn
           conn == connections[k]
           x(result) == Reply(conn, r.id, result)
<1>1. r \in Jobs /\ k \in Made /\ r.id \in Nat /\ r.by \in Calls
  BY DEF TypeOK, Placed, Jobs
<1>2. conn \in Connections
  BY <1>1, MadeIs DEF Made, TypeOK
<1>3. running' = running \ {r} /\ conn.answers \in Seq(Results)
  BY <1>2 DEF RunRequest, Connections
<1>4. \E result \in {"ok", "error"} :
         /\ connections' = [connections EXCEPT ![k] = x(result)]
         /\ \/ /\ r.kind = "request"
               /\ executed' = [executed EXCEPT ![r.by] = executed[r.by] + 1]
            \/ result = "error" /\ executed' = executed
  BY DEF RunRequest
<1>5. PICK result \in {"ok", "error"} :
         /\ connections' = [connections EXCEPT ![k] = x(result)]
         /\ \/ /\ r.kind = "request"
               /\ executed' = [executed EXCEPT ![r.by] = executed[r.by] + 1]
            \/ result = "error" /\ executed' = executed
  BY <1>4
<1>6. /\ x(result) \in Connections
      /\ x(result).host = conn.host /\ x(result).queue = conn.queue /\ x(result).lines = conn.lines
      /\ x(result).nextId = conn.nextId /\ x(result).connected = conn.connected
      /\ x(result).reader = conn.reader /\ x(result).pending = conn.pending
      /\ x(result).answers = conn.answers
           \/ x(result).answers = Append(conn.answers, [id |-> r.id, result |-> result])
  BY <1>1, <1>2, ReplyEffect
<1>7. /\ executed' \in [Calls -> Nat]
      /\ \A c \in Calls : c # r.by \/ r.kind # "request" => executed'[c] = executed[c]
      /\ \/ executed' = executed
         \/ r.kind = "request" /\ executed'[r.by] = executed[r.by] + 1
      /\ result = "ok" => r.kind = "request" /\ executed'[r.by] = executed[r.by] + 1
  BY <1>1, <1>5 DEF TypeOK
<1> HIDE DEF x
<1>8. Changes(k) /\ connections'[k] = x(result)
  BY <1>1, <1>5, <1>6, ChangesTo DEF TypeOK
<1>9. SameTable(k) /\ SameState(k) /\ connections'[k].lines = conn.lines
      /\ connections'[k].queue = conn.queue
  BY <1>6, <1>8 DEF SameTable, SameState
<1>10. \/ connections'[k].answers = conn.answers
       \/ connections'[k].answers = Append(conn.answers, [id |-> r.id, result |-> result])
  BY <1>6, <1>8
<1> QED BY <1>1, <1>3, <1>7, <1>8, <1>9, <1>10

\* A connection that is made is a new one, with nothing on it.
LEMMA ConnectEffect ==
  ASSUME connections \in Seq(Connections), NEW host \in Hosts,
         connections' = Append(connections, NewConnection(host))
  PROVE  LET k == Len(connections) + 1 IN
         /\ connections' \in Seq(Connections)
         /\ k \in Nat /\ k \notin Made /\ Made' = Made \cup {k}
         /\ \A j \in Made : connections'[j] = connections[j]
         /\ connections'[k] = NewConnection(host)
<1> DEFINE k == Len(connections) + 1
<1>1. NewConnection(host) \in Connections
  BY NewConnectionType
<1> DEFINE x == NewConnection(host)
<1> HIDE DEF x
<1>2. /\ connections' \in Seq(Connections) /\ Len(connections') = k
      /\ \A j \in 1..Len(connections) : connections'[j] = connections[j]
      /\ connections'[k] = x
  BY <1>1, AppendProperties DEF x
<1>3. /\ DOMAIN connections = 1..Len(connections) /\ Len(connections) \in Nat
      /\ DOMAIN connections' = 1..Len(connections')
  BY <1>2, MadeIs
<1> QED BY <1>2, <1>3 DEF Made, x

-----------------------------------------------------------------------------
(* What each step of a call does to it *)

Moved(c) == tasks' \in [Calls -> Tasks] /\ \A d \in Calls \ {c} : tasks'[d] = tasks[d]

Keeps(c) == /\ tasks'[c].attempt = tasks[c].attempt /\ tasks'[c].answer = tasks[c].answer
SameRequest(c) == /\ tasks'[c].conn = tasks[c].conn /\ tasks'[c].id = tasks[c].id
                  /\ tasks'[c].kind = tasks[c].kind

LEMMA MoveTo ==
  ASSUME tasks \in [Calls -> Tasks], NEW c \in Calls, NEW t \in Tasks,
         tasks' = [tasks EXCEPT ![c] = t]
  PROVE  Moved(c) /\ tasks'[c] = t
  BY DEF Moved

\* From the start to a client in hand.
LEMMA ApproachEffect ==
  ASSUME TypeOK, NEW c \in Calls, Call(c) \/ Ensure(c) \/ Resolve(c)
  PROVE  /\ Moved(c) /\ Keeps(c)
         /\ tasks[c].pc \in {"idle", "ensure", "resolve"}
         /\ tasks'[c].kind = tasks[c].kind
         /\ \/ tasks'[c].pc \in {"ensure", "resolve", "connect"}
            \/ /\ tasks[c].pc = "ensure"
               /\ tasks'[c].pc = "check" /\ tasks'[c].conn = client /\ client # NoConnection
<1>0. tasks[c] \in Tasks /\ tasks \in [Calls -> Tasks] /\ client \in Nat /\ saved \in Hosts
  BY DEF TypeOK
<1>1. CASE Call(c)
  <2> DEFINE t == [tasks[c] EXCEPT !.pc = "ensure"]
  <2>1. t \in Tasks /\ t.attempt = tasks[c].attempt /\ t.answer = tasks[c].answer
        /\ t.kind = tasks[c].kind /\ t.pc = "ensure"
    BY <1>0 DEF Tasks, TaskPcs
  <2>2. tasks' = [tasks EXCEPT ![c] = t] /\ tasks[c].pc = "idle"
    BY <1>1 DEF Call
  <2> HIDE DEF t
  <2> QED BY <1>0, <2>1, <2>2, MoveTo DEF Keeps
<1>2. CASE Ensure(c) /\ client = NoConnection
  <2> DEFINE t == [tasks[c] EXCEPT !.pc = "resolve"]
  <2>1. t \in Tasks /\ t.attempt = tasks[c].attempt /\ t.answer = tasks[c].answer
        /\ t.kind = tasks[c].kind /\ t.pc = "resolve"
    BY <1>0 DEF Tasks, TaskPcs
  <2>2. tasks' = [tasks EXCEPT ![c] = t] /\ tasks[c].pc = "ensure"
    BY <1>2 DEF Ensure
  <2> HIDE DEF t
  <2> QED BY <1>0, <2>1, <2>2, MoveTo DEF Keeps
<1>3. CASE Ensure(c) /\ client # NoConnection
  <2> DEFINE t == [tasks[c] EXCEPT !.pc = "check", !.conn = client, !.held = @ \cup {client}]
  <2>1. t \in Tasks /\ t.attempt = tasks[c].attempt /\ t.answer = tasks[c].answer
        /\ t.kind = tasks[c].kind /\ t.pc = "check" /\ t.conn = client
    BY <1>0 DEF Tasks, TaskPcs
  <2>2. tasks' = [tasks EXCEPT ![c] = t] /\ tasks[c].pc = "ensure"
    BY <1>3 DEF Ensure
  <2> HIDE DEF t
  <2> QED BY <1>0, <1>3, <2>1, <2>2, MoveTo DEF Keeps
<1>4. CASE Resolve(c)
  <2> DEFINE t == [tasks[c] EXCEPT !.pc = "connect", !.host = saved]
  <2>1. t \in Tasks /\ t.attempt = tasks[c].attempt /\ t.answer = tasks[c].answer
        /\ t.kind = tasks[c].kind /\ t.pc = "connect"
    BY <1>0 DEF Tasks, TaskPcs
  <2>2. tasks' = [tasks EXCEPT ![c] = t] /\ tasks[c].pc = "resolve"
    BY <1>4 DEF Resolve
  <2> HIDE DEF t
  <2> QED BY <1>0, <2>1, <2>2, MoveTo DEF Keeps
<1> QED BY <1>1, <1>2, <1>3, <1>4

\* A connection of its own, which it may have to authenticate first.
LEMMA ConnectMoves ==
  ASSUME TypeOK, HostsAssumption, NEW c \in Calls, Connect(c)
  PROVE  /\ Moved(c) /\ Keeps(c) /\ tasks[c].pc = "connect"
         /\ tasks'[c].pc \in {"store", "check"}
         /\ tasks'[c].conn = Len(connections) + 1
         /\ \E host \in Hosts : connections' = Append(connections, NewConnection(host))
<1> DEFINE k == Len(connections) + 1
           host == tasks[c].host
           kind == IF host \in Tokenless THEN "request" ELSE "auth"
           pc == IF host \in Tokenless THEN "store" ELSE "check"
           t == [tasks[c] EXCEPT !.conn = k, !.held = @ \cup {k}, !.host = Home,
                                 !.kind = kind, !.pc = pc]
<1>1. tasks[c] \in Tasks /\ tasks \in [Calls -> Tasks] /\ k \in Nat /\ Home \in Hosts
      /\ host \in Hosts
  BY LenProperties DEF TypeOK, HostsAssumption, Tasks
<1>2. tasks' = [tasks EXCEPT ![c] = t] /\ tasks[c].pc = "connect"
      /\ connections' = Append(connections, NewConnection(host))
  BY DEF Connect
<1>3. kind \in Kinds /\ pc \in {"store", "check"}
  BY DEF Kinds
<1> HIDE DEF k, kind, pc
<1>4. t \in Tasks /\ t.attempt = tasks[c].attempt /\ t.answer = tasks[c].answer
      /\ t.pc = pc /\ t.conn = k
  BY <1>1, <1>3 DEF Tasks, TaskPcs
<1> HIDE DEF t
<1> QED BY <1>1, <1>2, <1>3, <1>4, MoveTo DEF Keeps, k

LEMMA StoreEffect ==
  ASSUME TypeOK, NEW c \in Calls, Store(c)
  PROVE  /\ Moved(c) /\ Keeps(c) /\ tasks[c].pc = "store"
         /\ tasks'[c].pc = "check" /\ tasks'[c].kind = "request"
         /\ tasks'[c].conn = tasks[c].conn /\ client' = tasks[c].conn
<1> DEFINE t == [tasks[c] EXCEPT !.pc = "check", !.kind = "request"]
<1>1. tasks[c] \in Tasks /\ tasks \in [Calls -> Tasks]
  BY DEF TypeOK
<1>2. t \in Tasks /\ t.attempt = tasks[c].attempt /\ t.answer = tasks[c].answer
      /\ t.kind = "request" /\ t.pc = "check" /\ t.conn = tasks[c].conn
  BY <1>1 DEF Tasks, TaskPcs, Kinds
<1>3. tasks' = [tasks EXCEPT ![c] = t] /\ tasks[c].pc = "store" /\ client' = tasks[c].conn
  BY DEF Store
<1> HIDE DEF t
<1> QED BY <1>1, <1>2, <1>3, MoveTo DEF Keeps

\* The connection is gone, or the call takes the next number.
LEMMA CheckEffect ==
  ASSUME TypeOK, Placed, NEW c \in Calls, Check(c)
  PROVE  LET k == tasks[c].conn IN
         /\ tasks[c].pc = "check" /\ k \in Made
         /\ \/ ~connections[k].connected /\ Return(c, "lost") /\ UNCHANGED connections
            \/ /\ connections[k].connected /\ UNCHANGED client
               /\ Moved(c) /\ Keeps(c)
               /\ tasks'[c].pc = "insert" /\ tasks'[c].id = connections[k].nextId
               /\ tasks'[c].conn = k /\ tasks'[c].kind = tasks[c].kind
               /\ tasks'[c].raced = FALSE
               /\ Changes(k) /\ SameTraffic(k) /\ SameTable(k)
               /\ connections[k].nextId \in Nat
               /\ connections'[k].nextId = connections[k].nextId + 1
               /\ connections'[k].connected = connections[k].connected
               /\ connections'[k].reader = connections[k].reader
<1> DEFINE k == tasks[c].conn
           id == connections[k].nextId
           t == [tasks[c] EXCEPT !.pc = "insert", !.id = id, !.raced = FALSE]
<1>1. tasks[c].pc = "check" /\ k \in Made
  BY DEF Check, Placed
<1>2. tasks[c] \in Tasks /\ tasks \in [Calls -> Tasks] /\ connections \in Seq(Connections)
  BY DEF TypeOK
<1>3. CASE ~connections[k].connected /\ Return(c, "lost") /\ UNCHANGED connections
  BY <1>1, <1>3
<1>4. CASE /\ connections[k].connected
           /\ connections' = [connections EXCEPT ![k].nextId = id + 1]
           /\ tasks' = [tasks EXCEPT ![c] = t]
           /\ UNCHANGED client
  <2>1. id \in Nat
    BY <1>1, <1>2, MadeIs DEF Made, Connections
  <2>2. k \in Made /\ connections' = [connections EXCEPT ![k].nextId = connections[k].nextId + 1]
    BY <1>1, <1>4
  <2>3. t \in Tasks /\ t.attempt = tasks[c].attempt /\ t.answer = tasks[c].answer
        /\ t.pc = "insert" /\ t.id = id /\ t.conn = k /\ t.kind = tasks[c].kind
        /\ t.raced = FALSE
    BY <1>2, <2>1 DEF Tasks, TaskPcs, Claiming
  <2> HIDE DEF t
  <2>4. Moved(c) /\ tasks'[c] = t
    BY <1>2, <1>4, <2>3, MoveTo
  <2>5. /\ Changes(k) /\ SameTraffic(k) /\ SameTable(k)
        /\ connections[k].nextId \in Nat
        /\ connections'[k].nextId = connections[k].nextId + 1
        /\ connections'[k].connected = connections[k].connected
        /\ connections'[k].reader = connections[k].reader
    <3> HIDE DEF k, id
    <3> QED BY <1>2, <2>2, NumberEffect DEF id
  <2> HIDE DEF k
  <2> QED BY <1>1, <1>4, <2>3, <2>4, <2>5 DEF Keeps, k
<1> QED BY <1>3, <1>4 DEF Check

LEMMA InsertEffect ==
  ASSUME TypeOK, Placed, NEW c \in Calls, Insert(c)
  PROVE  LET k == tasks[c].conn IN
         /\ tasks[c].pc = "insert" /\ k \in Made
         /\ Moved(c) /\ Keeps(c) /\ SameRequest(c) /\ tasks'[c].pc = "send"
         /\ tasks'[c].raced = tasks[c].raced
         /\ Changes(k) /\ SameTraffic(k) /\ SameState(k)
         /\ connections'[k].pending =
              connections[k].pending \cup {[id |-> tasks[c].id, by |-> c]}
<1> DEFINE k == tasks[c].conn
           e == [id |-> tasks[c].id, by |-> c]
           t == [tasks[c] EXCEPT !.pc = "send"]
<1>1. tasks[c].pc = "insert" /\ k \in Made
  BY DEF Insert, Placed, Claiming
<1>2. tasks[c] \in Tasks /\ tasks \in [Calls -> Tasks] /\ connections \in Seq(Connections)
  BY DEF TypeOK
<1>3. tasks' = [tasks EXCEPT ![c] = t]
      /\ connections' = [connections EXCEPT ![k].pending = @ \cup {e}]
  BY DEF Insert
<1>4. t \in Tasks /\ t.attempt = tasks[c].attempt /\ t.answer = tasks[c].answer
      /\ t.pc = "send" /\ t.id = tasks[c].id /\ t.conn = k /\ t.kind = tasks[c].kind
      /\ t.raced = tasks[c].raced /\ e \in Entries
  BY <1>2 DEF Tasks, TaskPcs, Claiming, Entries
<1> HIDE DEF t, e
<1>5. Moved(c) /\ tasks'[c] = t
  BY <1>2, <1>3, <1>4, MoveTo
<1> HIDE DEF k
<1>6. /\ Changes(k) /\ SameTraffic(k) /\ SameState(k)
      /\ connections'[k].pending = connections[k].pending \cup {e}
  BY <1>1, <1>2, <1>3, <1>4, EnterEffect
<1> QED BY <1>1, <1>4, <1>5, <1>6 DEF Keeps, SameRequest, k, e

Message(c) == [id |-> tasks[c].id, by |-> c, kind |-> tasks[c].kind]

\* The writer is gone, the message is queued, or the queue stays full.
LEMMA SendEffect ==
  ASSUME TypeOK, Placed, NEW c \in Calls, Send(c)
  PROVE  LET k == tasks[c].conn IN
         /\ tasks[c].pc = "send" /\ k \in Made
         /\ \/ /\ \E result \in {"lost", "timeout"} : Return(c, result)
               /\ Changes(k) /\ SameTraffic(k) /\ SameState(k)
               /\ connections'[k].pending =
                    connections[k].pending \ {[id |-> tasks[c].id, by |-> c]}
            \/ /\ Moved(c) /\ Keeps(c) /\ SameRequest(c) /\ tasks'[c].pc = "wait"
               /\ tasks'[c].raced = tasks[c].raced
               /\ UNCHANGED client
               /\ Changes(k) /\ SameTable(k) /\ SameState(k)
               /\ Message(c) \in Messages
               /\ connections[k].queue \in Seq(Messages)
               /\ connections'[k].queue = Append(connections[k].queue, Message(c))
               /\ connections'[k].lines = connections[k].lines
               /\ connections'[k].answers = connections[k].answers
<1> DEFINE k == tasks[c].conn
           t == [tasks[c] EXCEPT !.pc = "wait"]
<1>1. tasks[c].pc = "send" /\ k \in Made
  BY DEF Send, Placed, Claiming
<1>2. tasks[c] \in Tasks /\ tasks \in [Calls -> Tasks] /\ connections \in Seq(Connections)
  BY DEF TypeOK
<1>3. CASE Forget(c) /\ (Return(c, "lost") \/ Return(c, "timeout"))
  <2>1. /\ Changes(k) /\ SameTraffic(k) /\ SameState(k)
        /\ connections'[k].pending =
             connections[k].pending \ {[id |-> tasks[c].id, by |-> c]}
    BY <1>1, <1>2, <1>3, ForgetEffect
  <2> QED BY <1>1, <1>3, <2>1
<1>4. CASE /\ connections' = [connections EXCEPT ![k].queue = Append(@, Message(c))]
           /\ tasks' = [tasks EXCEPT ![c].pc = "wait"] /\ UNCHANGED client
  <2>1. t \in Tasks /\ t.attempt = tasks[c].attempt /\ t.answer = tasks[c].answer
        /\ t.pc = "wait" /\ t.id = tasks[c].id /\ t.conn = k /\ t.kind = tasks[c].kind
        /\ t.raced = tasks[c].raced
    BY <1>2 DEF Tasks, TaskPcs, Claiming
  <2>2. tasks' = [tasks EXCEPT ![c] = t] /\ Message(c) \in Messages
    BY <1>2, <1>4 DEF Message, Messages, Tasks
  <2> DEFINE m == Message(c)
  <2> HIDE DEF t, m
  <2>3. Moved(c) /\ tasks'[c] = t
    BY <1>2, <2>1, <2>2, MoveTo
  <2>4. /\ Changes(k) /\ SameTable(k) /\ SameState(k)
        /\ connections[k].queue \in Seq(Messages)
        /\ connections'[k].queue = Append(connections[k].queue, m)
        /\ connections'[k].lines = connections[k].lines
        /\ connections'[k].answers = connections[k].answers
    <3>1. k \in Made /\ m \in Messages /\ connections \in Seq(Connections)
          /\ connections' = [connections EXCEPT ![k].queue = Append(@, m)]
      BY <1>1, <1>2, <1>4, <2>2 DEF m
    <3> HIDE DEF k
    <3> QED BY <3>1, QueueEffect
  <2> HIDE DEF k
  <2> QED BY <1>1, <1>4, <2>1, <2>2, <2>3, <2>4 DEF Keeps, SameRequest, k, m
<1> QED BY <1>3, <1>4 DEF Send, Message

-----------------------------------------------------------------------------
(* The requests on their way *)

\* Of two messages in s none has the number of the other.
Distinct(s) == \A i, j \in DOMAIN s : s[i].id = s[j].id => i = j

LEMMA TailSet ==
  ASSUME NEW S, NEW s \in Seq(S), s # <<>>
  PROVE  /\ ToSet(s) = ToSet(Tail(s)) \cup {Head(s)}
         /\ Distinct(s) => Distinct(Tail(s)) /\ \A x \in ToSet(Tail(s)) : x.id # Head(s).id
<1> DEFINE t == Tail(s)
<1>1. /\ DOMAIN s = 1..Len(s) /\ Len(s) \in Nat \ {0}
      /\ DOMAIN t = 1..(Len(s) - 1) /\ Head(s) = s[1]
      /\ \A i \in 1..(Len(s) - 1) : t[i] = s[i+1]
  BY LenProperties, EmptySeq, HeadTailProperties
<1> HIDE DEF t
<1>2. ASSUME NEW x \in ToSet(s) PROVE x \in ToSet(t) \cup {Head(s)}
  <2>1. PICK i \in 1..Len(s) : x = s[i]
    BY <1>1 DEF ToSet
  <2>2. CASE i = 1
    BY <1>1, <2>1, <2>2
  <2>3. CASE i # 1
    <3>1. i - 1 \in 1..(Len(s) - 1) /\ s[i] = t[i-1]
      BY <1>1, <2>1, <2>3
    <3> QED BY <1>1, <2>1, <3>1 DEF ToSet
  <2> QED BY <2>2, <2>3
<1>3. ToSet(t) \cup {Head(s)} \subseteq ToSet(s)
  BY <1>1 DEF ToSet
<1>4. ASSUME Distinct(s) PROVE Distinct(t)
  BY <1>1, <1>4 DEF Distinct
<1>5. ASSUME Distinct(s), NEW x \in ToSet(t) PROVE x.id # Head(s).id
  BY <1>1, <1>5 DEF Distinct, ToSet
<1> QED BY <1>2, <1>3, <1>4, <1>5 DEF t

LEMMA AppendSet ==
  ASSUME NEW S, NEW s \in Seq(S), NEW m \in S
  PROVE  /\ ToSet(Append(s, m)) = ToSet(s) \cup {m}
         /\ Distinct(s) /\ (\A x \in ToSet(s) : x.id # m.id) => Distinct(Append(s, m))
<1> DEFINE t == Append(s, m)
<1>1. /\ DOMAIN s = 1..Len(s) /\ Len(s) \in Nat
      /\ DOMAIN t = 1..(Len(s) + 1) /\ t[Len(s) + 1] = m
      /\ \A i \in 1..Len(s) : t[i] = s[i]
  BY LenProperties, AppendProperties
<1> HIDE DEF t
<1>2. ToSet(t) = ToSet(s) \cup {m}
  BY <1>1 DEF ToSet
<1>3. ASSUME Distinct(s), \A x \in ToSet(s) : x.id # m.id PROVE Distinct(t)
  BY <1>1, <1>3 DEF Distinct, ToSet
<1> QED BY <1>2, <1>3 DEF t

LEMMA EmptySet ==
  ToSet(<<>>) = {} /\ Distinct(<<>>)
  BY DEF ToSet, Distinct

JobsOn(k) == {r \in running : r.conn = k}
MessageOf(r) == [id |-> r.id, by |-> r.by, kind |-> r.kind]

Queued(k) == ToSet(connections[k].queue)
Sent(k) == ToSet(connections[k].lines)
Answers(k) == ToSet(connections[k].answers)

\* What a call has queued and the daemon has not dealt with.
Flying(k) == Queued(k) \cup Sent(k) \cup {MessageOf(r) : r \in JobsOn(k)}

\* A number is at most once on its way over a connection.
Once(k) ==
  /\ Distinct(connections[k].queue) /\ Distinct(connections[k].lines)
  /\ \A m \in Queued(k), n \in Sent(k) : m.id # n.id
  /\ \A r \in JobsOn(k) : \A m \in Queued(k) \cup Sent(k) : m.id # r.id
  /\ \A r, s \in JobsOn(k) : r.id = s.id => r = s

\* What was on its way may be lost.
LEMMA Shrinks ==
  ASSUME NEW k, Once(k),
         Distinct(connections'[k].queue), Distinct(connections'[k].lines),
         Queued(k)' \subseteq Queued(k), Sent(k)' \subseteq Sent(k), JobsOn(k)' \subseteq JobsOn(k)
  PROVE  Once(k)' /\ Flying(k)' \subseteq Flying(k)
<1>1. Flying(k)' \subseteq Flying(k)
  BY DEF Flying
<1>2. Once(k)'
  BY DEF Once
<1> QED BY <1>1, <1>2

\* Nothing happens on the connection.
SameFlow(k) == /\ connections'[k].queue = connections[k].queue
               /\ connections'[k].lines = connections[k].lines
               /\ connections'[k].answers = connections[k].answers
               /\ JobsOn(k)' = JobsOn(k)

\* Nothing is added to a connection; or a call sends its message; or a message
\* is answered, and no longer there.
Quiet(k) == Flying(k)' \subseteq Flying(k) /\ Answers(k)' \subseteq Answers(k)
Sends(c, k) == /\ Moved(c) /\ Keeps(c) /\ SameRequest(c)
               /\ tasks[c].pc = "send" /\ tasks'[c].pc = "wait" /\ tasks[c].conn = k
               /\ Flying(k)' = Flying(k) \cup {Message(c)} /\ Answers(k)' = Answers(k)
Replies(k) ==
  /\ Flying(k)' \subseteq Flying(k)
  /\ \E m \in Flying(k), result \in {"ok", "error"} :
       /\ \A f \in Flying(k)' : f.id # m.id
       /\ Answers(k)' \subseteq Answers(k) \cup {[id |-> m.id, result |-> result]}
       /\ result = "ok" => m.kind = "auth" \/ executed'[m.by] > 0

LEMMA Unmoved ==
  ASSUME NEW k, SameFlow(k), Once(k)
  PROVE  Once(k)' /\ Quiet(k)
<1>1. Queued(k)' = Queued(k) /\ Sent(k)' = Sent(k) /\ Answers(k)' = Answers(k)
  BY DEF SameFlow, Queued, Sent, Answers
<1> QED BY <1>1, Shrinks DEF SameFlow, Once, Quiet

LEMMA OthersUnmoved ==
  ASSUME NEW k, NEW j \in Made, Changes(k), j # k, UNCHANGED running
  PROVE  SameFlow(j)
  BY DEF Changes, SameFlow, JobsOn

\* The types of what is on a connection.
LEMMA FlowTypes ==
  ASSUME TypeOK, NEW k \in Made
  PROVE  /\ connections[k].queue \in Seq(Messages) /\ connections[k].lines \in Seq(Messages)
         /\ connections[k].answers \in Seq(Results)
         /\ Flying(k) \subseteq Messages /\ Answers(k) \subseteq Results
<1>1. connections[k] \in Connections
  BY MadeIs DEF Made, TypeOK
<1>2. connections[k].queue \in Seq(Messages) /\ connections[k].lines \in Seq(Messages)
      /\ connections[k].answers \in Seq(Results)
  BY <1>1 DEF Connections
<1>3. ASSUME NEW S, NEW s \in Seq(S) PROVE ToSet(s) \subseteq S
  BY ElementOfSeq, LenProperties DEF ToSet
<1>4. \A r \in running : MessageOf(r) \in Messages
  BY DEF TypeOK, Jobs, MessageOf, Messages
<1> QED BY <1>2, <1>3, <1>4 DEF Flying, Queued, Sent, Answers, JobsOn

\* A call sends its message, if its number is on its way nowhere yet.
LEMMA SendFlow ==
  ASSUME TypeOK, Placed, NEW c \in Calls, Send(c), NEW j \in Made, Once(j),
         tasks[c].conn = j => \A m \in Flying(j) : m.id # tasks[c].id
  PROVE  Once(j)' /\ (Quiet(j) \/ Sends(c, j))
<1>0. PICK k \in Made : k = tasks[c].conn
  BY SendEffect
<1>1. UNCHANGED running
  BY DEF Send
<1>2. CASE SameFlow(j)
  BY <1>2, Unmoved
<1>3. CASE ~SameFlow(j)
  <2>1. JobsOn(k)' = JobsOn(k)
    BY <1>1 DEF JobsOn
  <2>2. j = k /\ ~(Changes(k) /\ SameTraffic(k))
    <3>1. Changes(k)
      BY <1>0, SendEffect
    <3> QED BY <1>1, <1>3, <2>1, <3>1, OthersUnmoved DEF SameFlow, SameTraffic
  <2>3. /\ Moved(c) /\ Keeps(c) /\ SameRequest(c)
        /\ tasks[c].pc = "send" /\ tasks'[c].pc = "wait"
        /\ Message(c) \in Messages
        /\ connections[k].queue \in Seq(Messages)
        /\ connections'[k].queue = Append(connections[k].queue, Message(c))
        /\ connections'[k].lines = connections[k].lines
        /\ connections'[k].answers = connections[k].answers
    BY <1>0, <2>2, SendEffect
  <2>4. \A m \in Flying(k) : m.id # Message(c).id
    BY <1>0, <2>2 DEF Message
  <2>5. /\ Queued(k)' = Queued(k) \cup {Message(c)} /\ Sent(k)' = Sent(k)
        /\ Answers(k)' = Answers(k)
        /\ Distinct(connections'[k].queue) /\ Distinct(connections'[k].lines)
    <3>1. \A x \in Queued(k) : x.id # Message(c).id
      BY <2>4 DEF Flying
    <3>2. Distinct(connections[k].queue) /\ Distinct(connections[k].lines)
      BY <2>2 DEF Once
    <3> QED BY <2>3, <3>1, <3>2, AppendSet DEF Queued, Sent, Answers
  <2>6. Flying(k)' = Flying(k) \cup {Message(c)}
    BY <2>1, <2>5 DEF Flying
  <2>7. Once(k)'
    <3>1. \A n \in Sent(k)' : n.id # Message(c).id
      BY <2>4, <2>5 DEF Flying
    <3>2. ASSUME NEW r \in JobsOn(k) PROVE r.id # Message(c).id
      <4>1. MessageOf(r) \in Flying(k) /\ MessageOf(r).id = r.id
        BY DEF Flying, MessageOf
      <4> QED BY <2>4, <4>1
    <3> QED BY <2>1, <2>2, <2>5, <3>1, <3>2 DEF Once
  <2> QED BY <1>0, <2>2, <2>3, <2>5, <2>6, <2>7 DEF Sends
<1> QED BY <1>2, <1>3

LEMMA WriteFlow ==
  ASSUME TypeOK, NEW k \in Made, WriteNext(k), NEW j \in Made, Once(j)
  PROVE  Once(j)' /\ Quiet(j)
<1>1. connections \in Seq(Connections) /\ UNCHANGED running
  BY DEF TypeOK, WriteNext
<1>2. CASE j # k
  BY <1>1, <1>2, WriteEffect, OthersUnmoved, Unmoved
<1>3. CASE j = k
  <2> DEFINE q == connections[k].queue
             m == Head(q)
  <2>1. /\ q \in Seq(Messages) /\ q # <<>> /\ connections[k].lines \in Seq(Messages)
        /\ connections'[k].queue = Tail(q)
        /\ connections'[k].answers = connections[k].answers
        /\ \/ connections'[k].lines = Append(connections[k].lines, m)
           \/ connections'[k].lines = connections[k].lines
    BY <1>1, WriteEffect
  <2>2. JobsOn(k)' = JobsOn(k) /\ Answers(k)' = Answers(k)
    BY <1>1, <2>1 DEF JobsOn, Answers
  <2>3. /\ Queued(k) = Queued(k)' \cup {m} /\ Distinct(Tail(q)) /\ m \in Messages
        /\ \A x \in Queued(k)' : x.id # m.id
    <3>1. Distinct(q)
      BY <1>3 DEF Once
    <3> QED BY <2>1, <3>1, TailSet, Queues DEF Queued
  <2>4. CASE connections'[k].lines = connections[k].lines
    <3>1. Sent(k)' = Sent(k) /\ Distinct(connections'[k].lines)
      BY <1>3, <2>4 DEF Sent, Once
    <3> QED BY <1>3, <2>1, <2>2, <2>3, <3>1, Shrinks DEF Quiet
  <2>5. CASE connections'[k].lines = Append(connections[k].lines, m)
    <3>1. \A n \in Sent(k) : n.id # m.id
      BY <1>3, <2>3 DEF Once
    <3>2. Sent(k)' = Sent(k) \cup {m} /\ Distinct(connections'[k].lines)
      BY <1>3, <2>1, <2>3, <2>5, <3>1, AppendSet DEF Sent, Once
    <3>3. Flying(k)' = Flying(k)
      BY <2>2, <2>3, <3>2 DEF Flying
    <3>4. Once(k)'
      <4> HIDE DEF q, m
      <4>1. Distinct(connections'[k].queue)
        BY <2>1, <2>3
      <4>2. \A x \in Queued(k)', n \in Sent(k)' : x.id # n.id
        BY <1>3, <2>3, <3>2 DEF Once
      <4>3. \A r \in JobsOn(k)' : \A x \in Queued(k)' \cup Sent(k)' : x.id # r.id
        BY <1>3, <2>2, <2>3, <3>2 DEF Once
      <4>4. \A r, s \in JobsOn(k)' : r.id = s.id => r = s
        BY <1>3, <2>2 DEF Once
      <4> QED BY <3>2, <4>1, <4>2, <4>3, <4>4 DEF Once
    <3> QED BY <1>3, <2>2, <3>3, <3>4 DEF Quiet
  <2> QED BY <2>1, <2>4, <2>5
<1> QED BY <1>2, <1>3

\* An end of the connection that stops drops what it had, and an answer that is
\* read is gone.
LEMMA EndFlow ==
  ASSUME TypeOK, NEW k \in Made,
         WriterEnds(k) \/ ReadNext(k) \/ ReaderEnds(k) \/ LoseLink(k) \/ ServerEnds(k),
         NEW j \in Made, Once(j)
  PROVE  Once(j)' /\ Quiet(j)
<1>1. connections \in Seq(Connections) /\ UNCHANGED running
  BY DEF TypeOK, WriterEnds, ReadNext, ReaderEnds, LoseLink, ServerEnds
<1>2. /\ Changes(k)
      /\ \/ connections'[k].queue = connections[k].queue
         \/ connections'[k].queue = <<>>
      /\ \/ connections'[k].lines = connections[k].lines
         \/ connections'[k].lines = <<>>
      /\ \/ connections'[k].answers = connections[k].answers
         \/ connections'[k].answers = <<>>
         \/ /\ connections[k].answers \in Seq(Results) /\ connections[k].answers # <<>>
            /\ connections'[k].answers = Tail(connections[k].answers)
  <2>1. CASE WriterEnds(k)
    BY <1>1, <2>1, WriterEndsEffect
  <2>2. CASE ReadNext(k)
    BY <1>1, <2>2, ReadEffect
  <2>3. CASE ReaderEnds(k)
    BY <1>1, <2>3, ReaderEndsEffect
  <2>4. CASE LoseLink(k)
    BY <1>1, <2>4, LoseLinkEffect DEF SameTraffic
  <2>5. CASE ServerEnds(k)
    BY <1>1, <2>5, ServerEndsEffect
  <2> QED BY <2>1, <2>2, <2>3, <2>4, <2>5
<1>3. CASE j # k
  BY <1>1, <1>2, <1>3, OthersUnmoved, Unmoved
<1>4. CASE j = k
  <2>1. JobsOn(k)' = JobsOn(k)
    BY <1>1 DEF JobsOn
  <2>2. Queued(k)' \subseteq Queued(k) /\ Distinct(connections'[k].queue)
    BY <1>2, <1>4, EmptySet DEF Queued, Once
  <2>3. Sent(k)' \subseteq Sent(k) /\ Distinct(connections'[k].lines)
    BY <1>2, <1>4, EmptySet DEF Sent, Once
  <2>4. Answers(k)' \subseteq Answers(k)
    BY <1>2, EmptySet, TailSet DEF Answers
  <2> QED BY <1>4, <2>1, <2>2, <2>3, <2>4, Shrinks DEF Quiet
<1> QED BY <1>3, <1>4

\* A line becomes a task of the daemon, or is answered.
LEMMA ServeFlow ==
  ASSUME TypeOK, NEW k \in Made, ServeLine(k), NEW j \in Made, Once(j)
  PROVE  Once(j)' /\ (Quiet(j) \/ Replies(j))
<1> DEFINE lines == connections[k].lines
           m == Head(lines)
           r == [conn |-> k, id |-> m.id, by |-> m.by, kind |-> m.kind]
<1>1. connections \in Seq(Connections) /\ k \in Nat
  BY MadeIs DEF TypeOK, Made
<1>2. /\ Changes(k)
      /\ lines \in Seq(Messages) /\ lines # <<>> /\ m \in Messages
      /\ connections[k].answers \in Seq(Results)
      /\ connections'[k].lines = Tail(lines)
      /\ connections'[k].queue = connections[k].queue
      /\ \/ /\ running' = running \cup {r}
            /\ connections'[k].answers = connections[k].answers
         \/ /\ running' = running
            /\ \/ connections'[k].answers = connections[k].answers
               \/ \E result \in {"ok", "error"} :
                    /\ result = "ok" => m.kind = "auth"
                    /\ connections'[k].answers =
                         Append(connections[k].answers, [id |-> m.id, result |-> result])
  BY <1>1, ServeEffect
<1> HIDE DEF m
<1>3. CASE j # k
  <2>1. r.conn # j
    BY <1>3
  <2>2. JobsOn(j)' = JobsOn(j)
    BY <1>2, <2>1 DEF JobsOn
  <2>3. SameFlow(j)
    BY <1>2, <1>3, <2>2 DEF SameFlow, Changes
  <2> QED BY <2>3, Unmoved
<1>4. CASE j = k
  <2>1. /\ Sent(k) = Sent(k)' \cup {m} /\ Distinct(connections'[k].lines)
        /\ \A x \in Sent(k)' : x.id # m.id
    <3>1. Distinct(lines)
      BY <1>4 DEF Once
    <3> QED BY <1>2, <3>1, TailSet DEF Sent, m
  <2>2. Queued(k)' = Queued(k) /\ Distinct(connections'[k].queue)
    BY <1>2, <1>4 DEF Queued, Once
  <2>3. \A x \in Queued(k) : x.id # m.id
    BY <1>4, <2>1 DEF Once
  <2>4. \A s \in JobsOn(k) : s.id # m.id
    BY <1>4, <2>1 DEF Once
  <2>5. CASE running' = running \cup {r} /\ connections'[k].answers = connections[k].answers
    <3>1. JobsOn(k)' = JobsOn(k) \cup {r} /\ r.id = m.id
      BY <2>5 DEF JobsOn
    <3>2. MessageOf(r) = m
      BY <1>2 DEF MessageOf, Messages
    <3>3. Flying(k)' = Flying(k)
      <4>1. {MessageOf(s) : s \in JobsOn(k)'} = {MessageOf(s) : s \in JobsOn(k)} \cup {m}
        BY <3>1, <3>2
      <4>2. Flying(k)' = Queued(k)' \cup Sent(k)' \cup {MessageOf(s) : s \in JobsOn(k)'}
        BY DEF Flying, MessageOf
      <4>3. Flying(k) = Queued(k) \cup Sent(k) \cup {MessageOf(s) : s \in JobsOn(k)}
        BY DEF Flying
      <4> QED BY <2>1, <2>2, <4>1, <4>2, <4>3
    <3>4. Once(k)'
      <4> HIDE DEF r
      <4>1. \A x \in Queued(k)', n \in Sent(k)' : x.id # n.id
        BY <1>4, <2>1, <2>2 DEF Once
      <4>2. \A s \in JobsOn(k)' : \A x \in Queued(k)' \cup Sent(k)' : x.id # s.id
        BY <1>4, <2>1, <2>2, <2>3, <3>1 DEF Once
      <4>3. \A s, t \in JobsOn(k)' : s.id = t.id => s = t
        BY <1>4, <2>4, <3>1 DEF Once
      <4> QED BY <2>1, <2>2, <4>1, <4>2, <4>3 DEF Once
    <3>5. Answers(k)' = Answers(k)
      BY <2>5 DEF Answers
    <3> QED BY <1>4, <3>3, <3>4, <3>5 DEF Quiet
  <2>6. CASE running' = running
    <3>1. JobsOn(k)' = JobsOn(k)
      BY <2>6 DEF JobsOn
    <3>2. Once(k)' /\ Flying(k)' \subseteq Flying(k)
      BY <1>4, <2>1, <2>2, <3>1, Shrinks
    <3>3. CASE connections'[k].answers = connections[k].answers
      BY <1>4, <3>2, <3>3 DEF Quiet, Answers
    <3>4. CASE connections'[k].answers # connections[k].answers
      <4>0. r # r \/ running' = running
        BY <2>6
      <4>1. \E result \in {"ok", "error"} :
              /\ result = "ok" => m.kind = "auth"
              /\ connections'[k].answers =
                   Append(connections[k].answers, [id |-> m.id, result |-> result])
        BY <1>2, <3>4
      <4>2. PICK result \in {"ok", "error"} :
              /\ result = "ok" => m.kind = "auth"
              /\ connections'[k].answers =
                   Append(connections[k].answers, [id |-> m.id, result |-> result])
        BY <4>1
      <4>3. [id |-> m.id, result |-> result] \in Results
        BY <1>2 DEF Messages, Results
      <4>4. Answers(k)' = Answers(k) \cup {[id |-> m.id, result |-> result]}
        BY <1>2, <4>2, <4>3, AppendSet DEF Answers
      <4>5. m \in Flying(k) /\ \A f \in Flying(k)' : f.id # m.id
        BY <2>1, <2>2, <2>3, <2>4, <3>1 DEF Flying, MessageOf
      <4> QED BY <1>4, <3>2, <4>2, <4>4, <4>5 DEF Replies
    <3> QED BY <3>3, <3>4
  <2> QED BY <1>2, <2>5, <2>6
<1> QED BY <1>3, <1>4

\* A task of the daemon ends, answered or not.
LEMMA RunFlow ==
  ASSUME TypeOK, Placed, NEW r \in running, RunRequest(r), NEW j \in Made, Once(j)
  PROVE  /\ Once(j)' /\ (Quiet(j) \/ Replies(j))
         /\ r.conn = j => MessageOf(r) \in Flying(j) /\ \A f \in Flying(j)' : f.id # r.id
<1> DEFINE k == r.conn
           m == MessageOf(r)
<1>1. /\ r \in Jobs /\ k \in Made
      /\ running' = running \ {r}
      /\ Changes(k)
      /\ connections[k].answers \in Seq(Results)
      /\ connections'[k].lines = connections[k].lines
      /\ connections'[k].queue = connections[k].queue
      /\ executed \in [Calls -> Nat]
      /\ \/ connections'[k].answers = connections[k].answers
         \/ \E result \in {"ok", "error"} :
              /\ result = "ok" => r.kind = "request" /\ executed'[r.by] = executed[r.by] + 1
              /\ connections'[k].answers =
                   Append(connections[k].answers, [id |-> r.id, result |-> result])
  BY RunEffect DEF TypeOK
<1>2. m.id = r.id /\ m.by = r.by /\ m.kind = r.kind /\ r.by \in Calls /\ r.id \in Nat
  BY <1>1 DEF MessageOf, Jobs
<1>3. CASE j # k
  <2>1. JobsOn(j)' = JobsOn(j)
    BY <1>1, <1>3 DEF JobsOn
  <2>2. SameFlow(j)
    BY <1>1, <1>3, <2>1 DEF SameFlow, Changes
  <2> QED BY <1>3, <2>2, Unmoved
<1>4. CASE j = k
  <2>1. JobsOn(k)' = JobsOn(k) \ {r} /\ r \in JobsOn(k)
    BY <1>1 DEF JobsOn
  <2>2. Queued(k)' = Queued(k) /\ Distinct(connections'[k].queue)
        /\ Sent(k)' = Sent(k) /\ Distinct(connections'[k].lines)
    BY <1>1, <1>4 DEF Queued, Sent, Once
  <2>3. Once(k)' /\ Flying(k)' \subseteq Flying(k)
    BY <1>4, <2>1, <2>2, Shrinks
  <2>4. m \in Flying(k)
    BY <2>1 DEF Flying
  <2>5. \A f \in Flying(k)' : f.id # m.id
    <3>1. \A x \in Queued(k) \cup Sent(k) : x.id # r.id
      BY <1>4, <2>1 DEF Once
    <3>2. \A s \in JobsOn(k)' : s.id # r.id
      BY <1>4, <2>1 DEF Once
    <3> QED BY <1>2, <2>2, <3>1, <3>2 DEF Flying, MessageOf
  <2>6. CASE connections'[k].answers = connections[k].answers
    BY <1>2, <1>4, <2>3, <2>4, <2>5, <2>6 DEF Quiet, Answers
  <2>7. CASE connections'[k].answers # connections[k].answers
    <3>1. PICK result \in {"ok", "error"} :
            /\ result = "ok" => r.kind = "request" /\ executed'[r.by] = executed[r.by] + 1
            /\ connections'[k].answers =
                 Append(connections[k].answers, [id |-> r.id, result |-> result])
      BY <1>1, <2>7
    <3>2. [id |-> r.id, result |-> result] \in Results
      BY <1>2 DEF Results
    <3>3. Answers(k)' = Answers(k) \cup {[id |-> m.id, result |-> result]}
      BY <1>1, <1>2, <3>1, <3>2, AppendSet DEF Answers
    <3>4. result = "ok" => executed'[m.by] > 0
      BY <1>1, <1>2, <3>1
    <3>5. Replies(k)
      BY <2>3, <2>4, <2>5, <3>3, <3>4 DEF Replies
    <3> QED BY <1>2, <1>4, <2>3, <2>4, <2>5, <3>5
  <2> QED BY <2>6, <2>7
<1> QED BY <1>3, <1>4

-----------------------------------------------------------------------------
(* Types and places *)

\* The steps of a call keep the settings and the daemon as they are.
LEMMA CallTypes ==
  ASSUME TypeOK, Placed, NEW c \in Calls, Moved(c),
         connections' \in Seq(Connections), Made \subseteq Made',
         client' \in {client, NoConnection, tasks[c].conn},
         client' = tasks[c].conn => client' \in Made',
         tasks'[c].pc \in {"store", "check"} \cup Claiming => tasks'[c].conn \in Made',
         tasks'[c].kind = "auth" => tasks'[c].pc \in {"store", "check"} \cup Claiming,
         late' \subseteq late \cup {client'}, disturbances' \in Nat,
         UNCHANGED <<saved, updates, running, executed>>
  PROVE  TypeOK' /\ Placed'
<1>1. client' \in Nat
  BY DEF TypeOK, Tasks, NoConnection
<1>2. TypeOK'
  BY <1>1 DEF TypeOK, Moved
<1>3. client' = NoConnection \/ client' \in Made'
  BY DEF Placed
<1>4. ASSUME NEW d \in Calls
      PROVE  /\ tasks'[d].pc \in {"store", "check"} \cup Claiming => tasks'[d].conn \in Made'
             /\ tasks'[d].kind = "auth" => tasks'[d].pc \in {"store", "check"} \cup Claiming
  BY DEF Moved, Placed
<1>5. \A r \in running' : r.conn \in Made'
  BY DEF Placed
<1> QED BY <1>2, <1>3, <1>4, <1>5 DEF Placed

\* Also when the call has a result.
LEMMA ReturnTypes ==
  ASSUME TypeOK, Placed, HostsAssumption, NEW c \in Calls,
         tasks[c].pc \in {"check"} \cup Claiming,
         NEW result \in {"ok", "error", "lost", "timeout"}, Return(c, result),
         connections' \in Seq(Connections), Made' = Made, disturbances' \in Nat,
         UNCHANGED <<saved, updates, running, executed, late>>
  PROVE  TypeOK' /\ Placed'
<1>1. tasks \in [Calls -> Tasks] /\ Home \in Hosts
  BY DEF TypeOK, HostsAssumption
<1>2. /\ Moved(c) /\ client' \in {client, NoConnection}
      /\ \/ /\ tasks'[c].pc = "store" /\ tasks'[c].conn = tasks[c].conn
         \/ /\ tasks'[c].pc \in {"ok", "failed", "ensure"} /\ tasks'[c].kind = "request"
  BY <1>1, ReturnEffect DEF Moved
<1>3. tasks[c].conn \in Made
  BY DEF Placed
<1>4. tasks'[c].pc \in {"store", "check"} \cup Claiming => tasks'[c].conn \in Made'
  BY <1>2, <1>3 DEF Claiming
<1>5. tasks'[c].kind = "auth" => tasks'[c].pc \in {"store", "check"} \cup Claiming
  BY <1>2
<1>6. client' = tasks[c].conn => client' \in Made'
  BY <1>3
<1> QED BY <1>2, <1>4, <1>5, <1>6, CallTypes

\* The tasks of a connection and of the daemon let a call only know.
LEMMA ConnectionTypes ==
  ASSUME TypeOK, Placed, NEW k \in Made, Changes(k),
         tasks' \in [Calls -> Tasks],
         \A c \in Calls : SameButAnswer(tasks[c], tasks'[c]),
         running' \in SUBSET Jobs, \A r \in running' : r.conn \in Made,
         executed' \in [Calls -> Nat], disturbances' \in Nat,
         UNCHANGED <<saved, updates, client, late>>
  PROVE  TypeOK' /\ Placed'
<1>1. TypeOK'
  BY DEF TypeOK, Changes
<1>2. Placed'
  BY DEF Placed, Changes, SameButAnswer
<1> QED BY <1>1, <1>2

LEMMA SameIsSame ==
  ASSUME UNCHANGED tasks
  PROVE  \A c \in Calls : SameButAnswer(tasks[c], tasks'[c])
  BY DEF SameButAnswer

CallStep(c) == \/ Call(c) \/ Ensure(c) \/ Resolve(c) \/ Connect(c) \/ ConnectFails(c) \/ Store(c)
               \/ Check(c) \/ Insert(c) \/ Send(c) \/ Answered(c) \/ TimeOut(c)

LEMMA CallStepTypes ==
  ASSUME TypeOK, Placed, HostsAssumption, NEW c \in Calls, CallStep(c)
  PROVE  TypeOK' /\ Placed'
<1>0. /\ tasks \in [Calls -> Tasks] /\ tasks[c] \in Tasks /\ connections \in Seq(Connections)
      /\ disturbances \in Nat /\ disturbances + 1 \in Nat /\ Home \in Hosts
      /\ tasks[c].answer \in {"none", "ok", "error", "lost"}
  BY DEF TypeOK, HostsAssumption, Tasks
<1>1. CASE Call(c) \/ Ensure(c) \/ Resolve(c)
  <2>1. UNCHANGED <<saved, updates, client, connections, running, executed, late, disturbances>>
    BY <1>1 DEF Call, Ensure, Resolve
  <2>2. /\ Moved(c)
        /\ tasks[c].pc \in {"idle", "ensure", "resolve"}
        /\ tasks'[c].kind = tasks[c].kind
        /\ \/ tasks'[c].pc \in {"ensure", "resolve", "connect"}
           \/ /\ tasks'[c].pc = "check" /\ tasks'[c].conn = client /\ client # NoConnection
    BY <1>1, ApproachEffect
  <2>3. tasks'[c].kind # "auth"
    BY <2>2 DEF Placed, Claiming
  <2>4. tasks'[c].pc \in {"store", "check"} \cup Claiming => tasks'[c].conn \in Made'
    BY <2>1, <2>2 DEF Placed, Claiming, Made
  <2>6. TypeOK'
    BY <2>1, <2>2 DEF TypeOK, Moved
  <2> QED BY <2>1, <2>2, <2>3, <2>4, <2>6 DEF Placed, Moved, Made
<1>2. CASE Connect(c)
  <2>1. /\ Moved(c) /\ tasks[c].pc = "connect"
        /\ tasks'[c].pc \in {"store", "check"}
        /\ tasks'[c].conn = Len(connections) + 1
        /\ \E host \in Hosts : connections' = Append(connections, NewConnection(host))
    BY <1>2, ConnectMoves
  <2>2. UNCHANGED <<saved, updates, client, running, executed, late, disturbances>>
    BY <1>2 DEF Connect
  <2>3. /\ connections' \in Seq(Connections) /\ Made' = Made \cup {Len(connections) + 1}
    BY <1>0, <2>1, ConnectEffect
  <2>4. TypeOK'
    BY <2>1, <2>2, <2>3 DEF TypeOK, Moved
  <2> QED BY <2>1, <2>2, <2>3, <2>4 DEF Placed, Moved
<1>3. CASE ConnectFails(c)
  <2>1. /\ tasks' = Ended(c, "failed") /\ disturbances' \in Nat
        /\ UNCHANGED <<saved, updates, client, connections, running, executed, late>>
    BY <1>0, <1>3 DEF ConnectFails, Disturb
  <2>2. Moved(c) /\ tasks'[c].pc = "failed" /\ tasks'[c].kind = "request"
    BY <1>0, <2>1, EndedEffect DEF Moved
  <2>3. TypeOK'
    BY <2>1, <2>2 DEF TypeOK, Moved
  <2> QED BY <2>1, <2>2, <2>3 DEF Placed, Moved, Made, Claiming
<1>4. CASE Store(c)
  <2>1. /\ Moved(c) /\ tasks[c].pc = "store"
        /\ tasks'[c].pc = "check" /\ tasks'[c].kind = "request"
        /\ tasks'[c].conn = tasks[c].conn /\ client' = tasks[c].conn
    BY <1>4, StoreEffect
  <2>2. /\ UNCHANGED <<saved, updates, connections, running, executed, disturbances>>
        /\ late' \subseteq late \cup {client'}
    BY <1>4 DEF Store
  <2>3. Made' = Made /\ tasks[c].conn \in Made /\ connections' \in Seq(Connections)
        /\ disturbances' \in Nat
    BY <1>0, <2>1, <2>2 DEF Placed, Made
  <2> QED BY <2>1, <2>2, <2>3, CallTypes
<1>5. CASE Check(c)
  <2>1. UNCHANGED <<saved, updates, running, executed, late, disturbances>>
    BY <1>5 DEF Check
  <2>2. PICK k \in Made : k = tasks[c].conn
    BY <1>5, CheckEffect
  <2>3. CASE Return(c, "lost") /\ UNCHANGED connections
    <3>1. Made' = Made /\ connections' \in Seq(Connections) /\ tasks[c].pc = "check"
          /\ disturbances' \in Nat
      BY <1>0, <1>5, <2>1, <2>3, CheckEffect DEF Made
    <3> QED BY <2>1, <2>3, <3>1, ReturnTypes
  <2>4. CASE /\ UNCHANGED client /\ Moved(c) /\ tasks'[c].pc = "insert"
             /\ tasks'[c].conn = k /\ Changes(k)
    <3>1. Made' = Made /\ connections' \in Seq(Connections) /\ disturbances' \in Nat
      BY <1>0, <2>1, <2>4 DEF Changes
    <3>2. late' \subseteq late \cup {client'}
      BY <2>1
    <3> QED BY <2>1, <2>2, <2>4, <3>1, <3>2, CallTypes DEF Claiming
  <2> QED BY <1>5, <2>2, <2>3, <2>4, CheckEffect
<1>6. CASE Insert(c)
  <2>1. UNCHANGED <<saved, updates, client, running, executed, late, disturbances>>
    BY <1>6 DEF Insert
  <2>2. PICK k \in Made : k = tasks[c].conn
    BY <1>6, InsertEffect
  <2>3. Moved(c) /\ tasks'[c].pc = "send" /\ tasks'[c].conn = k /\ Changes(k)
    BY <1>6, <2>2, InsertEffect DEF SameRequest
  <2>4. Made' = Made /\ connections' \in Seq(Connections) /\ disturbances' \in Nat
    BY <1>0, <2>1, <2>3 DEF Changes
  <2> QED BY <2>1, <2>2, <2>3, <2>4, CallTypes DEF Claiming
<1>7. CASE Send(c)
  <2>1. UNCHANGED <<saved, updates, running, executed, late>> /\ disturbances' \in Nat
    BY <1>0, <1>7 DEF Send, Disturb, Undisturbed
  <2>2. PICK k \in Made : k = tasks[c].conn
    BY <1>7, SendEffect
  <2>3. tasks[c].pc = "send" /\ Changes(k) /\ Made' = Made /\ connections' \in Seq(Connections)
    BY <1>7, <2>2, SendEffect DEF Changes
  <2>4. CASE \E result \in {"lost", "timeout"} : Return(c, result)
    BY <2>1, <2>3, <2>4, ReturnTypes DEF Claiming
  <2>5. CASE Moved(c) /\ SameRequest(c) /\ tasks'[c].pc = "wait" /\ UNCHANGED client
    BY <2>1, <2>2, <2>3, <2>5, CallTypes DEF Claiming, SameRequest
  <2> QED BY <1>7, <2>4, <2>5, SendEffect
<1>8. CASE Answered(c)
  <2>1. /\ UNCHANGED <<saved, updates, connections, running, executed, late, disturbances>>
        /\ tasks[c].pc = "wait" /\ Return(c, tasks[c].answer)
        /\ tasks[c].answer \in {"ok", "error", "lost"}
    BY <1>0, <1>8 DEF Answered
  <2>2. Made' = Made /\ connections' \in Seq(Connections) /\ disturbances' \in Nat
    BY <1>0, <2>1 DEF Made
  <2> QED BY <2>1, <2>2, ReturnTypes DEF Claiming
<1>9. CASE TimeOut(c)
  <2>1. /\ UNCHANGED <<saved, updates, running, executed, late>>
        /\ tasks[c].pc = "wait" /\ Return(c, "timeout") /\ Forget(c) /\ disturbances' \in Nat
    BY <1>0, <1>9 DEF TimeOut, Disturb
  <2>2. tasks[c].conn \in Made
    BY <2>1 DEF Placed, Claiming
  <2>3. Made' = Made /\ connections' \in Seq(Connections)
    BY <1>0, <2>1, <2>2, ForgetEffect DEF Changes
  <2> QED BY <2>1, <2>3, ReturnTypes DEF Claiming
<1> QED BY <1>1, <1>2, <1>3, <1>4, <1>5, <1>6, <1>7, <1>8, <1>9 DEF CallStep

ConnectionStep(k) == \/ WriteNext(k) \/ WriterEnds(k) \/ ReadNext(k) \/ ReaderEnds(k)
                     \/ LoseLink(k) \/ ServeLine(k) \/ ServerEnds(k)

LEMMA ConnectionStepTypes ==
  ASSUME TypeOK, Placed, NEW k \in Made, ConnectionStep(k)
  PROVE  TypeOK' /\ Placed'
<1>0. /\ tasks \in [Calls -> Tasks] /\ connections \in Seq(Connections) /\ k \in Nat
      /\ disturbances \in Nat /\ disturbances + 1 \in Nat
      /\ running \in SUBSET Jobs /\ executed \in [Calls -> Nat]
      /\ \A r \in running : r.conn \in Made
  BY MadeIs DEF TypeOK, Made, Placed
<1>1. CASE WriteNext(k)
  <2>1. UNCHANGED <<saved, updates, client, running, executed, late, disturbances>>
    BY <1>1 DEF WriteNext
  <2>2. Changes(k) /\ (UNCHANGED tasks \/ tasks' = TasksCut(k))
    BY <1>0, <1>1, WriteEffect
  <2>3. tasks' \in [Calls -> Tasks] /\ \A c \in Calls : SameButAnswer(tasks[c], tasks'[c])
    BY <1>0, <2>2, TasksCutEffect, SameIsSame
  <2> QED BY <1>0, <2>1, <2>2, <2>3, ConnectionTypes
<1>2. CASE WriterEnds(k)
  <2>1. UNCHANGED <<saved, updates, client, tasks, running, executed, late, disturbances>>
    BY <1>2 DEF WriterEnds
  <2> QED BY <1>0, <1>2, <2>1, WriterEndsEffect, SameIsSame, ConnectionTypes
<1>3. CASE ReadNext(k)
  <2>1. UNCHANGED <<saved, updates, client, running, executed, late, disturbances>>
    BY <1>3 DEF ReadNext
  <2> DEFINE a == Head(connections[k].answers)
             entries == {e \in connections[k].pending : e.id = a.id}
  <2>2. a \in Results /\ Changes(k) /\ tasks' = Answer(tasks, k, entries, a.result)
    BY <1>0, <1>3, ReadEffect
  <2> HIDE DEF a, entries
  <2>3. a.result \in {"ok", "error", "lost"}
    BY <2>2 DEF Results
  <2>4. tasks' \in [Calls -> Tasks] /\ \A c \in Calls : SameButAnswer(tasks[c], tasks'[c])
    BY <1>0, <2>2, <2>3, AnswerEffect
  <2> QED BY <1>0, <2>1, <2>2, <2>4, ConnectionTypes
<1>4. CASE ReaderEnds(k)
  <2>1. UNCHANGED <<saved, updates, client, running, executed, late, disturbances>>
    BY <1>4 DEF ReaderEnds
  <2>2. Changes(k) /\ tasks' = TasksCut(k)
    BY <1>0, <1>4, ReaderEndsEffect
  <2>3. tasks' \in [Calls -> Tasks] /\ \A c \in Calls : SameButAnswer(tasks[c], tasks'[c])
    BY <1>0, <2>2, TasksCutEffect
  <2> QED BY <1>0, <2>1, <2>2, <2>3, ConnectionTypes
<1>5. CASE LoseLink(k)
  <2>1. UNCHANGED <<saved, updates, client, tasks, running, executed, late>> /\ disturbances' \in Nat
    BY <1>0, <1>5 DEF LoseLink, Disturb
  <2> QED BY <1>0, <1>5, <2>1, LoseLinkEffect, SameIsSame, ConnectionTypes
<1>6. CASE ServeLine(k)
  <2>1. UNCHANGED <<saved, updates, client, tasks, executed, late, disturbances>>
    BY <1>6 DEF ServeLine
  <2>2. PICK m \in Messages :
          /\ Changes(k)
          /\ \/ running' = running \cup {[conn |-> k, id |-> m.id, by |-> m.by, kind |-> m.kind]}
             \/ running' = running
    BY <1>0, <1>6, ServeEffect
  <2>3. [conn |-> k, id |-> m.id, by |-> m.by, kind |-> m.kind] \in Jobs
    BY <1>0 DEF Messages, Jobs
  <2>4. running' \in SUBSET Jobs /\ \A r \in running' : r.conn \in Made
    BY <1>0, <2>2, <2>3
  <2> QED BY <1>0, <2>1, <2>2, <2>4, SameIsSame, ConnectionTypes
<1>7. CASE ServerEnds(k)
  <2>1. UNCHANGED <<saved, updates, client, tasks, running, executed, late, disturbances>>
    BY <1>7 DEF ServerEnds
  <2> QED BY <1>0, <1>7, <2>1, ServerEndsEffect, SameIsSame, ConnectionTypes
<1> QED BY <1>1, <1>2, <1>3, <1>4, <1>5, <1>6, <1>7 DEF ConnectionStep

LEMMA RunTypes ==
  ASSUME TypeOK, Placed, NEW r \in running, RunRequest(r)
  PROVE  TypeOK' /\ Placed'
<1>1. UNCHANGED <<saved, updates, client, tasks, late, disturbances>>
  BY DEF RunRequest
<1>2. PICK k \in Made : k = r.conn
  BY RunEffect
<1>3. Changes(k) /\ running' = running \ {r} /\ executed' \in [Calls -> Nat]
  BY <1>2, RunEffect
<1>4. running' \in SUBSET Jobs /\ \A s \in running' : s.conn \in Made
  BY <1>3 DEF TypeOK, Placed
<1>5. tasks' \in [Calls -> Tasks] /\ disturbances' \in Nat
  BY <1>1 DEF TypeOK
<1> QED BY <1>1, <1>3, <1>4, <1>5, SameIsSame, ConnectionTypes

UpdateStep(u) == \/ ReadPrevious(u) \/ SaveFails(u) \/ ResetClient(u)
                 \/ \E host \in Hosts : SaveSettings(u, host)

\* What an update does to itself, to the settings and to the client.
LEMMA UpdateEffect ==
  ASSUME TypeOK, HostsAssumption, NEW u \in Updates, UpdateStep(u)
  PROVE  /\ UNCHANGED <<tasks, connections, running, executed, late, disturbances>>
         /\ updates' \in [Updates -> UpdateRecords]
         /\ \A v \in Updates \ {u} : updates'[v] = updates[v]
         /\ \/ /\ updates[u].pc = "idle" /\ updates'[u].pc = "read"
               /\ updates'[u].previous = saved
               /\ updates'[u].crossed = (\E v \in Updates \ {u} : InProgress(v))
               /\ UNCHANGED <<saved, client>>
            \/ /\ updates[u].pc = "read" /\ updates'[u].pc = "over"
               /\ updates'[u].crossed = updates[u].crossed
               /\ UNCHANGED <<saved, client>>
            \/ /\ updates[u].pc = "read" /\ updates'[u].pc = "saved"
               /\ saved' \in Hosts /\ updates'[u].to = saved'
               /\ updates'[u].previous = updates[u].previous
               /\ updates'[u].crossed = updates[u].crossed
               /\ UNCHANGED client
            \/ /\ updates[u].pc = "saved" /\ updates'[u].pc = "over"
               /\ updates'[u].crossed = updates[u].crossed
               /\ UNCHANGED saved
               /\ client' = IF updates[u].previous # updates[u].to THEN NoConnection ELSE client
<1>0. /\ updates \in [Updates -> UpdateRecords] /\ updates[u] \in UpdateRecords
      /\ saved \in Hosts /\ Home \in Hosts
  BY DEF TypeOK, HostsAssumption
<1>1. CASE ReadPrevious(u)
  <2> DEFINE crossed == \E v \in Updates \ {u} : InProgress(v)
             x == [IdleUpdate EXCEPT !.pc = "read", !.previous = saved, !.crossed = crossed]
  <2>1. /\ updates' = [updates EXCEPT ![u] = x] /\ updates[u].pc = "idle"
        /\ UNCHANGED <<saved, client, tasks, connections, running, executed, late, disturbances>>
    BY <1>1 DEF ReadPrevious
  <2>2. crossed \in BOOLEAN
    OBVIOUS
  <2> HIDE DEF crossed
  <2>3. x \in UpdateRecords /\ x.pc = "read" /\ x.previous = saved /\ x.crossed = crossed
    BY <1>0, <2>2 DEF IdleUpdate, UpdateRecords
  <2> HIDE DEF x
  <2>4. updates' \in [Updates -> UpdateRecords] /\ updates'[u] = x
        /\ \A v \in Updates \ {u} : updates'[v] = updates[v]
    BY <1>0, <2>1, <2>3
  <2> QED BY <2>1, <2>3, <2>4 DEF crossed
<1>2. CASE SaveFails(u) \/ ResetClient(u)
  <2> DEFINE x == [IdleUpdate EXCEPT !.pc = "over", !.crossed = updates[u].crossed]
  <2>1. updates' = [updates EXCEPT ![u] = x]
        /\ UNCHANGED <<saved, tasks, connections, running, executed, late, disturbances>>
    BY <1>2 DEF SaveFails, ResetClient, Over
  <2>2. x \in UpdateRecords /\ x.pc = "over" /\ x.crossed = updates[u].crossed
    BY <1>0 DEF IdleUpdate, UpdateRecords
  <2> HIDE DEF x
  <2>3. updates' \in [Updates -> UpdateRecords] /\ updates'[u] = x
        /\ \A v \in Updates \ {u} : updates'[v] = updates[v]
    BY <1>0, <2>1, <2>2
  <2>4. \/ updates[u].pc = "read" /\ UNCHANGED client
        \/ /\ updates[u].pc = "saved"
           /\ client' = IF updates[u].previous # updates[u].to THEN NoConnection ELSE client
    BY <1>2 DEF SaveFails, ResetClient
  <2> QED BY <2>1, <2>2, <2>3, <2>4
<1>3. CASE \E host \in Hosts : SaveSettings(u, host)
  <2>1. PICK host \in Hosts : SaveSettings(u, host)
    BY <1>3
  <2> DEFINE x == [updates[u] EXCEPT !.pc = "saved", !.to = host]
  <2>2. /\ updates' = [updates EXCEPT ![u] = x] /\ saved' = host /\ updates[u].pc = "read"
        /\ UNCHANGED <<client, tasks, connections, running, executed, late, disturbances>>
    BY <2>1 DEF SaveSettings
  <2>3. x \in UpdateRecords /\ x.pc = "saved" /\ x.crossed = updates[u].crossed
        /\ x.previous = updates[u].previous /\ x.to = host
    BY <1>0 DEF UpdateRecords
  <2> HIDE DEF x
  <2>4. updates' \in [Updates -> UpdateRecords] /\ updates'[u] = x
        /\ \A v \in Updates \ {u} : updates'[v] = updates[v]
    BY <1>0, <2>2, <2>3
  <2> QED BY <2>2, <2>3, <2>4
<1> QED BY <1>1, <1>2, <1>3 DEF UpdateStep

LEMMA UpdateTypes ==
  ASSUME TypeOK, Placed, HostsAssumption, NEW u \in Updates, UpdateStep(u)
  PROVE  TypeOK' /\ Placed'
<1>1. /\ UNCHANGED <<tasks, connections, running, executed, late, disturbances>>
      /\ updates' \in [Updates -> UpdateRecords] /\ saved' \in Hosts
      /\ client' \in {client, NoConnection}
  BY UpdateEffect DEF TypeOK
<1> QED BY <1>1 DEF TypeOK, Placed, Made, NoConnection

LEMMA StepIs ==
  Next <=> \/ \E c \in Calls : CallStep(c)
           \/ \E k \in Made : ConnectionStep(k)
           \/ \E r \in running : RunRequest(r)
           \/ \E u \in Updates : UpdateStep(u)
<1>1. (\E c \in Calls : CallStep(c)) => Next
  BY DEF Next, CallStep
<1>2. (\E k \in Made : ConnectionStep(k)) => Next
  BY DEF Next, ConnectionStep
<1>3. (\E r \in running : RunRequest(r)) => Next
  BY DEF Next
<1>4. (\E u \in Updates : UpdateStep(u)) => Next
  BY DEF Next, UpdateStep
<1>5. Next => \/ \E c \in Calls : CallStep(c)
              \/ \E k \in Made : ConnectionStep(k)
              \/ \E r \in running : RunRequest(r)
              \/ \E u \in Updates : UpdateStep(u)
  BY Zenon DEF Next, CallStep, ConnectionStep, UpdateStep
<1> QED BY <1>1, <1>2, <1>3, <1>4, <1>5

LEMMA StepCases ==
  ASSUME Next
  PROVE  \/ \E c \in Calls : CallStep(c)
         \/ \E k \in Made : ConnectionStep(k)
         \/ \E r \in running : RunRequest(r)
         \/ \E u \in Updates : UpdateStep(u)
  BY StepIs

LEMMA TypeInit ==
  ASSUME Init, HostsAssumption
  PROVE  TypeOK /\ Placed
<1>1. IdleTask \in Tasks /\ IdleTask.kind = "request" /\ IdleTask.pc = "idle"
  BY DEF HostsAssumption, IdleTask, Tasks, TaskPcs, Kinds, NoConnection, NoId
<1>2. IdleUpdate \in UpdateRecords
  BY DEF HostsAssumption, IdleUpdate, UpdateRecords
<1>3. connections \in Seq(Connections)
  BY EmptySeq DEF Init
<1>4. TypeOK
  <2> HIDE DEF IdleTask, IdleUpdate
  <2> QED BY <1>1, <1>2, <1>3 DEF Init, TypeOK, NoConnection, HostsAssumption
<1>5. Placed
  BY <1>1 DEF Init, Placed, Claiming
<1> QED BY <1>4, <1>5

LEMMA TypeStep ==
  ASSUME TypeOK, Placed, HostsAssumption, [Next]_vars
  PROVE  TypeOK' /\ Placed'
<1>1. CASE Next
  BY <1>1, StepCases, CallStepTypes, ConnectionStepTypes, RunTypes, UpdateTypes
<1>2. CASE UNCHANGED vars
  BY <1>2 DEF vars, TypeOK, Placed, Made
<1> QED BY <1>1, <1>2

\* The settings, the calls, the connections and the daemon's tasks stay well
\* formed, and whatever holds a connection holds one that was made.
THEOREM TypeCorrect == Spec => [](TypeOK /\ Placed)
<1>1. Init => TypeOK /\ Placed
  BY TypeInit, HostsAssumption
<1>2. TypeOK /\ Placed /\ [Next]_vars => TypeOK' /\ Placed'
  BY TypeStep, HostsAssumption
<1> QED BY <1>1, <1>2, PTL DEF Spec

-----------------------------------------------------------------------------
(* Steps, seen from a connection and from a call *)

\* What never shrinks: the connections, their numbers, and how often a call was
\* carried out.
Grows ==
  /\ Made \subseteq Made'
  /\ \A k \in Made : connections'[k].nextId >= connections[k].nextId
  /\ \A c \in Calls : executed'[c] >= executed[c]

\* A call that has a number on a connection.
Holds(c, k, n) == tasks[c].pc \in Claiming /\ tasks[c].conn = k /\ tasks[c].id = n

\* A call stays where it is, holds no number any more, takes the next one of its
\* connection, enters the table, or sends its message.
Stays(c) == SameButAnswer(tasks[c], tasks'[c])
Leaves(c) == Moved(c) /\ tasks'[c].pc \notin Claiming \cup {"idle"}
Enters(c) == \E k \in Made :
  /\ Moved(c) /\ Keeps(c) /\ tasks[c].pc = "check" /\ tasks'[c].pc = "insert"
  /\ tasks'[c].conn = k /\ tasks'[c].id = connections[k].nextId
  /\ tasks'[c].kind = tasks[c].kind
  /\ connections'[k].nextId = connections[k].nextId + 1
Inserts(c) == /\ Moved(c) /\ Keeps(c) /\ SameRequest(c)
              /\ tasks[c].pc = "insert" /\ tasks'[c].pc = "send"
Waits(c) == /\ Moved(c) /\ Keeps(c) /\ SameRequest(c)
            /\ tasks[c].pc = "send" /\ tasks'[c].pc = "wait"
CallMove(c) == Leaves(c) \/ Enters(c) \/ Inserts(c) \/ Waits(c)

\* Of any two moves at most one is not a stay.
TaskMoves == \/ \A c \in Calls : Stays(c)
             \/ \E c \in Calls : CallMove(c)

LEMMA NumbersGrow ==
  ASSUME TypeOK, NEW k \in Made, Changes(k),
         connections'[k].nextId = connections[k].nextId
           \/ connections'[k].nextId = connections[k].nextId + 1
  PROVE  Made \subseteq Made' /\ \A j \in Made : connections'[j].nextId >= connections[j].nextId
<1>1. \A j \in Made : connections[j].nextId \in Nat
  BY MadeIs DEF Made, Connections, TypeOK
<1> QED BY <1>1 DEF Changes

LEMMA CallSteps ==
  ASSUME TypeOK, Placed, HostsAssumption, NEW c \in Calls, CallStep(c)
  PROVE  Grows /\ CallMove(c) /\ UNCHANGED <<running, executed>>
<1>0. /\ tasks \in [Calls -> Tasks] /\ connections \in Seq(Connections) /\ Home \in Hosts
      /\ tasks[c].answer \in {"none", "ok", "error", "lost"}
  BY DEF TypeOK, HostsAssumption, Tasks
<1>1. UNCHANGED <<running, executed>>
  BY DEF CallStep, Call, Ensure, Resolve, Connect, ConnectFails, Store, Check, Insert, Send,
         Answered, TimeOut
<1>2. \A d \in Calls : executed'[d] >= executed[d]
  BY <1>1 DEF TypeOK
<1>3. ASSUME UNCHANGED connections PROVE Grows
  <2>1. \A j \in Made : connections[j].nextId \in Nat
    BY MadeIs DEF Made, Connections, TypeOK
  <2> QED BY <1>2, <1>3, <2>1 DEF Grows, Made
<1>4. ASSUME NEW k \in Made, Changes(k),
             connections'[k].nextId = connections[k].nextId
               \/ connections'[k].nextId = connections[k].nextId + 1
      PROVE  Grows
  BY <1>2, <1>4, NumbersGrow DEF Grows
<1>5. ASSUME NEW result \in {"ok", "error", "lost", "timeout"}, Return(c, result)
      PROVE  CallMove(c)
  <2>1. Moved(c) /\ tasks'[c].pc \in {"store", "ok", "failed", "ensure"}
    BY <1>0, <1>5, ReturnEffect DEF Moved
  <2> QED BY <2>1 DEF CallMove, Leaves, Claiming
<1>6. CASE Call(c) \/ Ensure(c) \/ Resolve(c)
  <2>1. Moved(c) /\ tasks'[c].pc \in {"ensure", "resolve", "connect", "check"}
    BY <1>6, ApproachEffect
  <2>2. UNCHANGED connections
    BY <1>6 DEF Call, Ensure, Resolve
  <2> QED BY <1>1, <1>3, <2>1, <2>2 DEF CallMove, Leaves, Claiming
<1>7. CASE Connect(c)
  <2>1. /\ Moved(c) /\ tasks'[c].pc \in {"store", "check"}
        /\ \E host \in Hosts : connections' = Append(connections, NewConnection(host))
    BY <1>7, ConnectMoves
  <2>2. Made \subseteq Made' /\ \A j \in Made : connections'[j] = connections[j]
    BY <1>0, <2>1, ConnectEffect
  <2>3. \A j \in Made : connections[j].nextId \in Nat
    BY MadeIs DEF Made, Connections, TypeOK
  <2>4. Grows
    BY <1>2, <2>2, <2>3 DEF Grows
  <2> QED BY <1>1, <2>1, <2>4 DEF CallMove, Leaves, Claiming
<1>8. CASE ConnectFails(c)
  <2>1. Moved(c) /\ tasks'[c].pc = "failed" /\ UNCHANGED connections
    BY <1>0, <1>8, EndedEffect DEF ConnectFails, Moved
  <2> QED BY <1>1, <1>3, <2>1 DEF CallMove, Leaves, Claiming
<1>9. CASE Store(c)
  <2>1. Moved(c) /\ tasks'[c].pc = "check" /\ UNCHANGED connections
    BY <1>9, StoreEffect DEF Store
  <2> QED BY <1>1, <1>3, <2>1 DEF CallMove, Leaves, Claiming
<1>10. CASE Check(c)
  <2>1. PICK k \in Made : k = tasks[c].conn
    BY <1>10, CheckEffect
  <2>2. CASE Return(c, "lost") /\ UNCHANGED connections
    BY <1>1, <1>3, <1>5, <2>2
  <2>3. CASE /\ Moved(c) /\ Keeps(c)
             /\ tasks'[c].pc = "insert" /\ tasks'[c].id = connections[k].nextId
             /\ tasks'[c].conn = k /\ tasks'[c].kind = tasks[c].kind
             /\ Changes(k) /\ connections'[k].nextId = connections[k].nextId + 1
    <3>1. Enters(c)
      BY <2>3, <1>10, CheckEffect DEF Enters
    <3> QED BY <1>1, <1>4, <2>3, <3>1 DEF CallMove
  <2> QED BY <1>10, <2>1, <2>2, <2>3, CheckEffect
<1>11. CASE Insert(c)
  <2>1. PICK k \in Made : k = tasks[c].conn
    BY <1>11, InsertEffect
  <2>2. Inserts(c) /\ Changes(k) /\ connections'[k].nextId = connections[k].nextId
    BY <1>11, <2>1, InsertEffect DEF Inserts, SameState
  <2> QED BY <1>1, <1>4, <2>2 DEF CallMove
<1>12. CASE Send(c)
  <2>1. PICK k \in Made : k = tasks[c].conn
    BY <1>12, SendEffect
  <2>2. /\ Changes(k) /\ connections'[k].nextId = connections[k].nextId
        /\ (\E result \in {"lost", "timeout"} : Return(c, result)) \/ Waits(c)
    BY <1>12, <2>1, SendEffect DEF Waits, SameState
  <2> QED BY <1>1, <1>4, <1>5, <2>2 DEF CallMove
<1>13. CASE Answered(c)
  <2>1. tasks[c].answer \in {"ok", "error", "lost"} /\ Return(c, tasks[c].answer)
        /\ UNCHANGED connections
    BY <1>0, <1>13 DEF Answered
  <2> QED BY <1>1, <1>3, <1>5, <2>1
<1>14. CASE TimeOut(c)
  <2>1. tasks[c].pc = "wait" /\ Forget(c) /\ Return(c, "timeout")
    BY <1>14 DEF TimeOut
  <2>2. PICK k \in Made : k = tasks[c].conn
    BY <2>1 DEF Placed, Claiming
  <2>3. Changes(k) /\ connections'[k].nextId = connections[k].nextId
    BY <1>0, <2>1, <2>2, ForgetEffect DEF SameState
  <2> QED BY <1>1, <1>4, <1>5, <2>1, <2>3
<1> QED BY <1>6, <1>7, <1>8, <1>9, <1>10, <1>11, <1>12, <1>13, <1>14 DEF CallStep

LEMMA ConnectionSteps ==
  ASSUME TypeOK, NEW k \in Made, ConnectionStep(k)
  PROVE  Grows /\ UNCHANGED executed /\ \A c \in Calls : Stays(c)
<1>0. tasks \in [Calls -> Tasks] /\ connections \in Seq(Connections)
  BY DEF TypeOK
<1>1. UNCHANGED executed
  BY DEF ConnectionStep, WriteNext, WriterEnds, ReadNext, ReaderEnds, LoseLink, ServeLine, ServerEnds
<1>2. ASSUME Changes(k), connections'[k].nextId = connections[k].nextId PROVE Grows
  <2>1. \A d \in Calls : executed'[d] >= executed[d]
    BY <1>1 DEF TypeOK
  <2> QED BY <1>2, <2>1, NumbersGrow DEF Grows
<1>3. ASSUME UNCHANGED tasks PROVE \A c \in Calls : Stays(c)
  BY <1>3, SameIsSame DEF Stays
<1>4. ASSUME tasks' = TasksCut(k) PROVE \A c \in Calls : Stays(c)
  BY <1>0, <1>4, TasksCutEffect DEF Stays
<1>5. CASE WriteNext(k)
  BY <1>0, <1>1, <1>2, <1>3, <1>4, <1>5, WriteEffect
<1>6. CASE WriterEnds(k)
  BY <1>0, <1>1, <1>2, <1>3, <1>6, WriterEndsEffect DEF WriterEnds, SameState
<1>7. CASE ReadNext(k)
  <2> DEFINE a == Head(connections[k].answers)
             entries == {e \in connections[k].pending : e.id = a.id}
  <2>1. a \in Results /\ Changes(k) /\ SameState(k) /\ tasks' = Answer(tasks, k, entries, a.result)
    BY <1>0, <1>7, ReadEffect
  <2> HIDE DEF a, entries
  <2>2. a.result \in {"ok", "error", "lost"}
    BY <2>1 DEF Results
  <2>3. \A c \in Calls : Stays(c)
    BY <1>0, <2>1, <2>2, AnswerEffect DEF Stays
  <2> QED BY <1>1, <1>2, <2>1, <2>3 DEF SameState
<1>8. CASE ReaderEnds(k)
  BY <1>0, <1>1, <1>2, <1>4, <1>8, ReaderEndsEffect
<1>9. CASE LoseLink(k)
  BY <1>0, <1>1, <1>2, <1>3, <1>9, LoseLinkEffect DEF LoseLink, SameState
<1>10. CASE ServeLine(k)
  BY <1>0, <1>1, <1>2, <1>3, <1>10, ServeEffect DEF ServeLine, SameState
<1>11. CASE ServerEnds(k)
  BY <1>0, <1>1, <1>2, <1>3, <1>11, ServerEndsEffect DEF ServerEnds, SameState
<1> QED BY <1>5, <1>6, <1>7, <1>8, <1>9, <1>10, <1>11 DEF ConnectionStep

LEMMA RunSteps ==
  ASSUME TypeOK, Placed, NEW r \in running, RunRequest(r)
  PROVE  Grows /\ \A c \in Calls : Stays(c)
<1>1. PICK k \in Made : k = r.conn
  BY RunEffect
<1>2. /\ Changes(k) /\ connections'[k].nextId = connections[k].nextId
      /\ r.by \in Calls
      /\ \A c \in Calls : c # r.by => executed'[c] = executed[c]
      /\ executed' = executed \/ executed'[r.by] = executed[r.by] + 1
  BY <1>1, RunEffect DEF SameState, Jobs
<1>3. \A c \in Calls : executed'[c] >= executed[c]
  BY <1>2 DEF TypeOK
<1>4. Grows
  BY <1>2, <1>3, NumbersGrow DEF Grows
<1> QED BY <1>4, SameIsSame DEF RunRequest, Stays

LEMMA UpdateSteps ==
  ASSUME TypeOK, HostsAssumption, NEW u \in Updates, UpdateStep(u)
  PROVE  Grows /\ UNCHANGED executed /\ \A c \in Calls : Stays(c)
<1>1. UNCHANGED <<tasks, connections, running, executed>>
  BY UpdateEffect
<1>2. \A j \in Made : connections[j].nextId \in Nat
  BY MadeIs DEF Made, Connections, TypeOK
<1>3. Grows
  BY <1>1, <1>2 DEF Grows, Made, TypeOK
<1> QED BY <1>1, <1>3, SameIsSame DEF Stays

LEMMA Moves ==
  ASSUME TypeOK, Placed, HostsAssumption, Next
  PROVE  Grows /\ TaskMoves
  BY StepCases, CallSteps, ConnectionSteps, RunSteps, UpdateSteps DEF TaskMoves

\* A call about to send has a number that is on its way nowhere.
Fresh(j) == \A c \in Calls :
  tasks[c].pc = "send" /\ tasks[c].conn = j => \A m \in Flying(j) : m.id # tasks[c].id

\* On a connection nothing is added, a call sends its message, or one is answered.
LEMMA FlowStep ==
  ASSUME TypeOK, Placed, HostsAssumption, Next, NEW j \in Made, Once(j), Fresh(j)
  PROVE  Once(j)' /\ (Quiet(j) \/ Replies(j) \/ \E c \in Calls : Sends(c, j))
<1>0. connections \in Seq(Connections)
  BY DEF TypeOK
<1>1. ASSUME NEW c \in Calls, CallStep(c), ~Send(c) PROVE SameFlow(j)
  <2>1. JobsOn(j)' = JobsOn(j)
    BY <1>1, CallSteps DEF JobsOn
  <2>2. CASE UNCHANGED connections
    BY <2>1, <2>2 DEF SameFlow
  <2>3. ASSUME NEW k \in Made, Changes(k), SameTraffic(k) PROVE SameFlow(j)
    BY <2>1, <2>3 DEF Changes, SameTraffic, SameFlow
  <2>4. CASE Call(c) \/ Ensure(c) \/ Resolve(c) \/ ConnectFails(c) \/ Store(c) \/ Answered(c)
    BY <2>2, <2>4 DEF Call, Ensure, Resolve, ConnectFails, Store, Answered
  <2>5. CASE Connect(c)
    <3>1. \E host \in Hosts : connections' = Append(connections, NewConnection(host))
      BY <2>5, ConnectMoves
    <3>2. connections'[j] = connections[j]
      BY <1>0, <3>1, ConnectEffect
    <3> QED BY <2>1, <3>2 DEF SameFlow
  <2>6. CASE Check(c)
    <3>1. PICK k \in Made : k = tasks[c].conn
      BY <2>6, CheckEffect
    <3> QED BY <2>2, <2>3, <2>6, <3>1, CheckEffect
  <2>7. CASE Insert(c)
    <3>1. PICK k \in Made : k = tasks[c].conn
      BY <2>7, InsertEffect
    <3> QED BY <2>3, <2>7, <3>1, InsertEffect
  <2>8. CASE TimeOut(c)
    <3>1. tasks[c].pc = "wait" /\ Forget(c)
      BY <2>8 DEF TimeOut
    <3>2. PICK k \in Made : k = tasks[c].conn
      BY <3>1 DEF Placed, Claiming
    <3> QED BY <1>0, <2>3, <3>1, <3>2, ForgetEffect
  <2> QED BY <1>1, <2>4, <2>5, <2>6, <2>7, <2>8 DEF CallStep
<1>2. CASE \E c \in Calls : CallStep(c)
  <2>1. PICK c \in Calls : CallStep(c)
    BY <1>2
  <2>2. CASE Send(c)
    <3>1. tasks[c].conn = j => \A m \in Flying(j) : m.id # tasks[c].id
      BY <2>2, SendEffect DEF Fresh
    <3> QED BY <2>2, <3>1, SendFlow
  <2>3. CASE ~Send(c)
    BY <1>1, <2>1, <2>3, Unmoved
  <2> QED BY <2>2, <2>3
<1>3. CASE \E k \in Made : ConnectionStep(k)
  BY <1>3, WriteFlow, EndFlow, ServeFlow DEF ConnectionStep
<1>4. CASE \E r \in running : RunRequest(r)
  BY <1>4, RunFlow
<1>5. CASE \E u \in Updates : UpdateStep(u)
  <2>1. UNCHANGED <<connections, running>>
    BY <1>5, UpdateEffect
  <2> QED BY <2>1, Unmoved DEF SameFlow, JobsOn
<1> QED BY <1>2, <1>3, <1>4, <1>5, StepCases

\* A connection that was not there before is new.
LEMMA NewFlow ==
  ASSUME TypeOK, Placed, HostsAssumption, Next, NEW j \in Made', j \notin Made
  PROVE  /\ Flying(j)' = {} /\ Answers(j)' = {} /\ Once(j)'
         /\ connections'[j].nextId = 1
         /\ connections'[j].reader = "on" /\ connections'[j].connected
         /\ \E c \in Calls : Connect(c)
<1>0. connections \in Seq(Connections)
  BY DEF TypeOK
<1>1. \E c \in Calls : Connect(c)
  <2>1. ASSUME NEW k \in Made, Changes(k) PROVE FALSE
    BY <2>1 DEF Changes
  <2>2. connections' # connections
    BY DEF Made
  <2>3. ASSUME NEW c \in Calls, CallStep(c), ~Connect(c) PROVE FALSE
    <3>1. CASE Call(c) \/ Ensure(c) \/ Resolve(c) \/ ConnectFails(c) \/ Store(c) \/ Answered(c)
      BY <2>2, <3>1 DEF Call, Ensure, Resolve, ConnectFails, Store, Answered
    <3>2. CASE Check(c)
      <4>1. PICK k \in Made : k = tasks[c].conn
        BY <3>2, CheckEffect
      <4> QED BY <2>1, <2>2, <3>2, <4>1, CheckEffect
    <3>3. CASE Insert(c)
      <4>1. PICK k \in Made : k = tasks[c].conn
        BY <3>3, InsertEffect
      <4> QED BY <2>1, <3>3, <4>1, InsertEffect
    <3>4. CASE Send(c)
      <4>1. PICK k \in Made : k = tasks[c].conn
        BY <3>4, SendEffect
      <4> QED BY <2>1, <3>4, <4>1, SendEffect
    <3>5. CASE TimeOut(c)
      <4>1. tasks[c].pc = "wait" /\ Forget(c)
        BY <3>5 DEF TimeOut
      <4>2. PICK k \in Made : k = tasks[c].conn
        BY <4>1 DEF Placed, Claiming
      <4> QED BY <1>0, <2>1, <4>1, <4>2, ForgetEffect
    <3> QED BY <2>3, <3>1, <3>2, <3>3, <3>4, <3>5 DEF CallStep
  <2>4. ASSUME NEW k \in Made, ConnectionStep(k) PROVE FALSE
    BY <1>0, <2>1, <2>4, WriteEffect, WriterEndsEffect, ReadEffect, ReaderEndsEffect,
       LoseLinkEffect, ServeEffect, ServerEndsEffect DEF ConnectionStep
  <2>5. ASSUME NEW r \in running, RunRequest(r) PROVE FALSE
    <3>1. PICK k \in Made : k = r.conn
      BY <2>5, RunEffect
    <3> QED BY <2>1, <2>5, <3>1, RunEffect
  <2>6. ASSUME NEW u \in Updates, UpdateStep(u) PROVE FALSE
    BY <2>2, <2>6, UpdateEffect
  <2>7. CASE \E c \in Calls : CallStep(c)
    BY <2>3, <2>7
  <2> QED BY <2>4, <2>5, <2>6, <2>7, StepCases
<1>2. PICK c \in Calls : Connect(c)
  BY <1>1
<1>3. PICK host \in Hosts : connections' = Append(connections, NewConnection(host))
  BY <1>2, ConnectMoves
<1>4. connections'[j] = NewConnection(host)
  BY <1>0, <1>3, ConnectEffect
<1>5. /\ connections'[j].queue = <<>> /\ connections'[j].lines = <<>>
      /\ connections'[j].answers = <<>> /\ connections'[j].nextId = 1
      /\ connections'[j].reader = "on" /\ connections'[j].connected
  BY <1>4 DEF NewConnection
<1>6. JobsOn(j)' = {}
  BY <1>2 DEF JobsOn, Connect, Placed
<1>7. Queued(j)' = {} /\ Sent(j)' = {} /\ Answers(j)' = {}
  BY <1>5, EmptySet DEF Queued, Sent, Answers
<1>8. Once(j)'
  BY <1>5, <1>6, <1>7, EmptySet DEF Once
<1> QED BY <1>1, <1>5, <1>6, <1>7, <1>8 DEF Flying

-----------------------------------------------------------------------------
(* Numbers *)

\* The numbers on a connection were given out, to calls that have started.
Numbered(k) == /\ \A m \in Flying(k) : m.id < connections[k].nextId /\ tasks[m.by].pc # "idle"
               /\ \A a \in Answers(k) : a.id < connections[k].nextId

\* A number belongs to one call.  Before its message is queued nothing on the
\* connection has it; then the message is the call's, and an answer of ok to a
\* request means that the daemon has carried the call out.
Claim(c, k, n) ==
  /\ n < connections[k].nextId
  /\ \A d \in Calls \ {c} : ~Holds(d, k, n)
  /\ tasks[c].pc # "wait" => \A m \in Flying(k) \cup Answers(k) : m.id # n
  /\ tasks[c].pc = "wait" =>
       /\ \A m \in Flying(k) : m.id = n => m.by = c /\ m.kind = tasks[c].kind
       /\ tasks[c].kind = "request" =>
            \A a \in Answers(k) : a.id = n /\ a.result = "ok" => executed[c] > 0

Claims == \A c \in Calls, k \in Made, n \in Nat : Holds(c, k, n) => Claim(c, k, n)

FlowInv == TypeOK /\ Placed /\ (\A k \in Made : Once(k) /\ Numbered(k)) /\ Claims

LEMMA AllFresh ==
  ASSUME FlowInv
  PROVE  \A j \in Made : Fresh(j)
<1> SUFFICES ASSUME NEW j \in Made, NEW c \in Calls, tasks[c].pc = "send", tasks[c].conn = j
             PROVE  \A m \in Flying(j) : m.id # tasks[c].id
  BY DEF Fresh
<1>1. tasks[c].id \in Nat
  BY DEF FlowInv, TypeOK, Tasks
<1>2. Holds(c, j, tasks[c].id)
  BY DEF Holds, Claiming
<1> QED BY <1>1, <1>2 DEF FlowInv, Claims, Claim

\* Every connection is there in its old place, or new.
LEMMA FlowMoves ==
  ASSUME FlowInv, HostsAssumption, Next
  PROVE  /\ TypeOK' /\ Placed' /\ Grows /\ TaskMoves
         /\ \A j \in Made' : Once(j)'
         /\ \A j \in Made : Quiet(j) \/ Replies(j) \/ \E c \in Calls : Sends(c, j)
         /\ \A j \in Made' \ Made : Flying(j)' = {} /\ Answers(j)' = {}
<1>1. TypeOK' /\ Placed'
  BY TypeStep DEF FlowInv
<1>2. Grows /\ TaskMoves
  BY Moves DEF FlowInv
<1>3. \A j \in Made : Once(j)' /\ (Quiet(j) \/ Replies(j) \/ \E c \in Calls : Sends(c, j))
  BY FlowStep, AllFresh DEF FlowInv
<1>4. \A j \in Made' \ Made : Once(j)' /\ Flying(j)' = {} /\ Answers(j)' = {}
  BY NewFlow DEF FlowInv
<1> QED BY <1>1, <1>2, <1>3, <1>4

LEMMA NumberedStep ==
  ASSUME FlowInv, HostsAssumption, Next, NEW j \in Made'
  PROVE  Numbered(j)'
<1>1. CASE j \notin Made
  BY <1>1, FlowMoves DEF Numbered
<1>2. CASE j \in Made
  <2>0. Numbered(j) /\ Flying(j) \subseteq Messages /\ Answers(j) \subseteq Results
    BY <1>2, FlowTypes DEF FlowInv
  <2>1. connections'[j].nextId >= connections[j].nextId
        /\ connections[j].nextId \in Nat /\ connections'[j].nextId \in Nat
    <3>1. connections[j] \in Connections /\ connections'[j] \in Connections
      BY <1>2, FlowMoves, MadeIs DEF FlowInv, TypeOK, Made
    <3> QED BY <1>2, <3>1, FlowMoves DEF Grows, Connections
  <2>2. \A m \in Flying(j) : /\ m.id < connections'[j].nextId
                             /\ tasks'[m.by].pc # "idle"
    <3> SUFFICES ASSUME NEW m \in Flying(j)
                 PROVE  m.id < connections'[j].nextId /\ tasks'[m.by].pc # "idle"
      OBVIOUS
    <3>1. m.id < connections[j].nextId /\ tasks[m.by].pc # "idle"
          /\ m.id \in Nat /\ m.by \in Calls
      BY <2>0 DEF Numbered, Messages
    <3>2. tasks'[m.by].pc # "idle"
      BY <3>1, FlowMoves DEF TaskMoves, Stays, SameButAnswer, CallMove, Leaves, Enters, Inserts,
         Waits, Moved
    <3> QED BY <2>1, <3>1, <3>2
  <2>3. \A a \in Answers(j) : a.id < connections'[j].nextId
    BY <2>0, <2>1 DEF Numbered, Results
  <2>4. CASE Quiet(j)
    BY <2>2, <2>3, <2>4 DEF Quiet, Numbered
  <2>5. CASE Replies(j)
    <3>1. PICK m \in Flying(j), result \in {"ok", "error"} :
            Answers(j)' \subseteq Answers(j) \cup {[id |-> m.id, result |-> result]}
      BY <2>5 DEF Replies
    <3> QED BY <2>2, <2>3, <2>5, <3>1 DEF Replies, Numbered
  <2>6. CASE \E c \in Calls : Sends(c, j)
    <3>1. PICK c \in Calls : Sends(c, j)
      BY <2>6
    <3>2. tasks[c].id \in Nat /\ Holds(c, j, tasks[c].id)
      BY <3>1 DEF FlowInv, TypeOK, Tasks, Sends, Holds, Claiming
    <3>3. tasks[c].id < connections[j].nextId
      BY <1>2, <3>2 DEF FlowInv, Claims, Claim
    <3>4. Message(c).id < connections'[j].nextId /\ tasks'[Message(c).by].pc # "idle"
      BY <2>1, <3>1, <3>2, <3>3 DEF Message, Sends
    <3> QED BY <2>2, <2>3, <3>1, <3>4 DEF Sends, Numbered
  <2> QED BY <1>2, <2>4, <2>5, <2>6, FlowMoves
<1> QED BY <1>1, <1>2

\* A message that is sent has the sender's number.
LEMMA SendsOwn ==
  ASSUME FlowInv, NEW j \in Made, NEW d \in Calls, Sends(d, j)
  PROVE  /\ tasks[d].id \in Nat /\ Holds(d, j, tasks[d].id)
         /\ \A m \in Flying(j)' : m \in Flying(j) \/ m = Message(d)
         /\ Message(d).id = tasks[d].id /\ Message(d).by = d /\ Message(d).kind = tasks[d].kind
         /\ \A c \in Calls, n \in Nat : Holds(c, j, n) /\ c # d => tasks[d].id # n
<1>1. tasks[d].id \in Nat /\ Holds(d, j, tasks[d].id)
  BY DEF FlowInv, TypeOK, Tasks, Sends, Holds, Claiming
<1>2. \A c \in Calls, n \in Nat : Holds(c, j, n) /\ c # d => tasks[d].id # n
  BY <1>1 DEF FlowInv, Claims, Claim
<1> QED BY <1>1, <1>2 DEF Sends, Message

\* Nobody gets a number that another call has.
LEMMA NumbersApart ==
  ASSUME FlowInv, HostsAssumption, Next, NEW c \in Calls, NEW k \in Made, NEW n \in Nat,
         Holds(c, k, n)', Holds(c, k, n) \/ ~(\E d \in Calls : Holds(d, k, n)),
         Holds(c, k, n) => n < connections[k].nextId,
         NEW d \in Calls \ {c}
  PROVE  ~Holds(d, k, n)'
<1> SUFFICES ASSUME Holds(d, k, n)' PROVE FALSE
  OBVIOUS
<1>1. ~Holds(d, k, n)
  BY DEF FlowInv, Claims, Claim
<1>2. ~Stays(d)
  BY <1>1 DEF Stays, SameButAnswer, Holds
<1>3. PICK e \in Calls : CallMove(e)
  BY <1>2, FlowMoves DEF TaskMoves
<1>4. Moved(e)
  BY <1>3 DEF CallMove, Leaves, Enters, Inserts, Waits
<1>5. e = d
  BY <1>2, <1>4 DEF Moved, Stays, SameButAnswer
<1>6. Holds(c, k, n)
  BY <1>4, <1>5 DEF Moved, Holds
<1>7. Enters(d)
  BY <1>1, <1>3, <1>5 DEF CallMove, Leaves, Inserts, Waits, SameRequest, Holds, Claiming
<1>8. n = connections[k].nextId
  BY <1>7 DEF Enters, Holds
<1> QED BY <1>6, <1>8

LEMMA ClaimStep ==
  ASSUME FlowInv, HostsAssumption, Next, NEW c \in Calls, NEW k \in Made, NEW n \in Nat,
         Holds(c, k, n), Holds(c, k, n)', Stays(c)
  PROVE  Claim(c, k, n)'
<1>0. Claim(c, k, n)
  BY DEF FlowInv, Claims
<1>1. n < connections'[k].nextId
  <2>1. connections[k] \in Connections /\ connections'[k] \in Connections
    BY FlowMoves, MadeIs DEF FlowInv, TypeOK, Made, Grows
  <2> QED BY <1>0, <2>1, FlowMoves DEF Grows, Claim, Connections
<1>2. \A d \in Calls \ {c} : ~Holds(d, k, n)'
  BY <1>0, NumbersApart DEF Claim
<1>3. tasks'[c].pc = tasks[c].pc /\ tasks'[c].kind = tasks[c].kind
  BY DEF Stays, SameButAnswer
<1>4. Flying(k) \subseteq Messages /\ Answers(k) \subseteq Results
  BY FlowTypes DEF FlowInv
<1>5. executed[c] \in Nat /\ executed'[c] \in Nat /\ executed'[c] >= executed[c]
  BY FlowMoves DEF FlowInv, TypeOK, Grows
<1>6. \A m \in Flying(k)' : m \in Flying(k) \/ m.id # n
  <2>1. CASE \E d \in Calls : Sends(d, k)
    <3>1. PICK d \in Calls : Sends(d, k)
      BY <2>1
    <3>2. d # c
      BY <1>3, <3>1 DEF Sends
    <3> QED BY <3>1, <3>2, SendsOwn
  <2> QED BY <2>1, FlowMoves DEF Quiet, Replies
<1>7. \A a \in Answers(k)' : \/ a \in Answers(k)
                             \/ \E m \in Flying(k) :
                                  /\ a.id = m.id
                                  /\ a.result = "ok" => m.kind = "auth" \/ executed'[m.by] > 0
  BY FlowMoves DEF Quiet, Replies, Sends
<1>8. ASSUME tasks'[c].pc # "wait" PROVE \A m \in Flying(k)' \cup Answers(k)' : m.id # n
  BY <1>0, <1>3, <1>6, <1>7, <1>8 DEF Claim
<1>9. ASSUME tasks'[c].pc = "wait"
      PROVE  \A m \in Flying(k)' : m.id = n => m.by = c /\ m.kind = tasks'[c].kind
  BY <1>0, <1>3, <1>6, <1>9 DEF Claim
<1>10. ASSUME tasks'[c].pc = "wait", tasks'[c].kind = "request", NEW a \in Answers(k)',
              a.id = n, a.result = "ok"
       PROVE  executed'[c] > 0
  <2>1. CASE a \in Answers(k)
    BY <1>0, <1>3, <1>5, <1>10, <2>1 DEF Claim
  <2>2. CASE a \notin Answers(k)
    <3>1. PICK m \in Flying(k) : m.id = n /\ (m.kind = "auth" \/ executed'[m.by] > 0)
      BY <1>7, <1>10, <2>2
    <3>2. m.by = c /\ m.kind = "request"
      BY <1>0, <1>3, <1>10, <3>1 DEF Claim
    <3> QED BY <3>1, <3>2
  <2> QED BY <2>1, <2>2
<1> QED BY <1>1, <1>2, <1>8, <1>9, <1>10 DEF Claim

\* The next number of a connection is new to it.
LEMMA ClaimEnters ==
  ASSUME FlowInv, HostsAssumption, Next, NEW c \in Calls, NEW k \in Made, NEW n \in Nat,
         Holds(c, k, n)', Enters(c)
  PROVE  Claim(c, k, n)'
<1>1. /\ n = connections[k].nextId /\ connections'[k].nextId = n + 1
      /\ Moved(c) /\ tasks[c].pc = "check" /\ tasks'[c].pc = "insert"
  BY DEF Enters, Holds
<1>2. Numbered(k) /\ Flying(k) \subseteq Messages /\ Answers(k) \subseteq Results
  BY FlowTypes DEF FlowInv
<1>3. ~(\E d \in Calls : Holds(d, k, n))
  BY <1>1 DEF FlowInv, Claims, Claim
<1>4. \A d \in Calls \ {c} : ~Holds(d, k, n)'
  <2>1. ~Holds(c, k, n)
    BY <1>3
  <2> QED BY <1>3, <2>1, NumbersApart
<1>5. \A m \in Flying(k) \cup Answers(k) : m.id # n
  BY <1>1, <1>2 DEF Numbered, Messages, Results
<1>6. \A d \in Calls : ~Sends(d, k)
  <2>1. ~Sends(c, k)
    BY <1>1 DEF Sends
  <2>2. ASSUME NEW d \in Calls \ {c} PROVE ~Sends(d, k)
    BY <1>1 DEF Sends, Moved
  <2> QED BY <2>1, <2>2
<1>7. \A m \in Flying(k)' \cup Answers(k)' : m.id # n
  BY <1>5, <1>6, FlowMoves DEF Quiet, Replies
<1> QED BY <1>1, <1>4, <1>7 DEF Claim

\* Entering the table changes nothing on the way; sending adds the one message
\* that has the number.
LEMMA ClaimAdvances ==
  ASSUME FlowInv, HostsAssumption, Next, NEW c \in Calls, NEW k \in Made, NEW n \in Nat,
         Holds(c, k, n)', Inserts(c) \/ Waits(c)
  PROVE  Claim(c, k, n)'
<1>1. /\ Moved(c) /\ SameRequest(c)
      /\ \/ tasks[c].pc = "insert" /\ tasks'[c].pc = "send"
         \/ tasks[c].pc = "send" /\ tasks'[c].pc = "wait"
  BY DEF Inserts, Waits
<1>2. Holds(c, k, n)
  BY <1>1 DEF SameRequest, Holds, Claiming
<1>3. Claim(c, k, n) /\ tasks[c].pc # "wait"
  BY <1>1, <1>2 DEF FlowInv, Claims
<1>4. n < connections'[k].nextId
  <2>1. connections[k] \in Connections /\ connections'[k] \in Connections
    BY FlowMoves, MadeIs DEF FlowInv, TypeOK, Made, Grows
  <2> QED BY <1>3, <2>1, FlowMoves DEF Grows, Claim, Connections
<1>5. \A d \in Calls \ {c} : ~Holds(d, k, n)'
  BY <1>2, <1>3, NumbersApart DEF Claim
<1>6. \A m \in Flying(k) \cup Answers(k) : m.id # n
  BY <1>3 DEF Claim
<1>7. \A d \in Calls \ {c} : ~Sends(d, k)
  BY <1>1 DEF Sends, Moved
<1>8. CASE Sends(c, k)
  <2>1. /\ tasks'[c].pc = "wait" /\ tasks'[c].kind = tasks[c].kind
        /\ Answers(k)' = Answers(k)
    BY <1>1, <1>8 DEF Sends, SameRequest
  <2>2. \A m \in Flying(k)' : m.id = n => m.by = c /\ m.kind = tasks'[c].kind
    BY <1>6, <1>8, <2>1, SendsOwn
  <2>3. \A a \in Answers(k)' : a.id # n
    BY <1>6, <2>1
  <2> QED BY <1>4, <1>5, <2>1, <2>2, <2>3 DEF Claim
<1>9. CASE ~Sends(c, k)
  <2>1. Quiet(k) \/ Replies(k)
    BY <1>7, <1>9, FlowMoves
  <2>2. \A m \in Flying(k)' \cup Answers(k)' : m.id # n
    BY <1>6, <2>1 DEF Quiet, Replies
  <2> QED BY <1>4, <1>5, <2>2 DEF Claim
<1> QED BY <1>8, <1>9

LEMMA ClaimsStep ==
  ASSUME FlowInv, HostsAssumption, Next
  PROVE  Claims'
<1> SUFFICES ASSUME NEW c \in Calls, NEW k \in Made', NEW n \in Nat, Holds(c, k, n)'
             PROVE  Claim(c, k, n)'
  BY DEF Claims
<1>1. k \in Made
  <2>1. CASE Stays(c)
    BY <2>1 DEF Stays, SameButAnswer, Holds, FlowInv, Placed
  <2>2. CASE ~Stays(c)
    <3>1. PICK e \in Calls : CallMove(e)
      BY <2>2, FlowMoves DEF TaskMoves
    <3>2. e = c
      BY <2>2, <3>1 DEF CallMove, Leaves, Enters, Inserts, Waits, Moved, Stays, SameButAnswer
    <3>3. CASE Enters(c)
      BY <3>3 DEF Enters, Holds
    <3>4. CASE Inserts(c) \/ Waits(c)
      BY <3>4 DEF Inserts, Waits, SameRequest, Holds, FlowInv, Placed, Claiming
    <3> QED BY <3>1, <3>2, <3>3, <3>4 DEF CallMove, Leaves, Holds
  <2> QED BY <2>1, <2>2
<1>2. CASE Stays(c)
  <2>1. Holds(c, k, n)
    BY <1>2 DEF Stays, SameButAnswer, Holds
  <2> QED BY <1>1, <1>2, <2>1, ClaimStep
<1>3. CASE ~Stays(c)
  <2>1. PICK e \in Calls : CallMove(e)
    BY <1>3, FlowMoves DEF TaskMoves
  <2>2. e = c
    BY <1>3, <2>1 DEF CallMove, Leaves, Enters, Inserts, Waits, Moved, Stays, SameButAnswer
  <2>3. ~Leaves(c)
    BY DEF Leaves, Holds
  <2> QED BY <1>1, <2>1, <2>2, <2>3, ClaimEnters, ClaimAdvances DEF CallMove
<1> QED BY <1>2, <1>3

LEMMA FlowInit ==
  ASSUME Init, HostsAssumption
  PROVE  FlowInv
<1>1. TypeOK /\ Placed
  BY TypeInit
<1>2. Made = {}
  BY DEF Init, Made
<1> QED BY <1>1, <1>2 DEF FlowInv, Claims

LEMMA FlowInvStep ==
  ASSUME FlowInv, HostsAssumption, [Next]_vars
  PROVE  FlowInv'
<1>1. CASE Next
  BY <1>1, FlowMoves, NumberedStep, ClaimsStep DEF FlowInv
<1>2. CASE UNCHANGED vars
  <2>1. /\ connections' = connections /\ running' = running /\ tasks' = tasks
        /\ executed' = executed
    BY <1>2 DEF vars
  <2>2. TypeOK' /\ Placed'
    BY <1>2, TypeStep DEF FlowInv
  <2>3. \A k \in Made' : Once(k)' /\ Numbered(k)'
    BY <2>1 DEF FlowInv, Made, Once, Numbered, Flying, Queued, Sent, Answers, JobsOn
  <2>4. Claims'
    BY <2>1 DEF FlowInv, Claims, Claim, Made, Holds, Flying, Queued, Sent, Answers, JobsOn
  <2> QED BY <2>2, <2>3, <2>4 DEF FlowInv
<1> QED BY <1>1, <1>2

-----------------------------------------------------------------------------
(* Answers *)

\* Only a call that is in the table has an answer, and ok to a request means
\* that the daemon has carried the call out.
Truth(c) == /\ tasks[c].pc \notin {"send", "wait"} => tasks[c].answer = "none"
            /\ tasks[c].answer = "ok" /\ tasks[c].kind = "request" => executed[c] > 0

\* How a call moves on: with what it kept of its answer, or with none.
LEMMA CallAnswers ==
  ASSUME TypeOK, Placed, HostsAssumption, NEW c \in Calls, CallStep(c)
  PROVE  \/ Moved(c) /\ tasks'[c].answer = "none"
         \/ Moved(c) /\ Keeps(c) /\ tasks[c].pc \notin {"send", "wait"}
         \/ Waits(c)
<1>0. /\ tasks \in [Calls -> Tasks] /\ Home \in Hosts
      /\ tasks[c].answer \in {"none", "ok", "error", "lost"}
  BY DEF TypeOK, HostsAssumption, Tasks
<1>1. ASSUME NEW result \in {"ok", "error", "lost", "timeout"}, Return(c, result)
      PROVE  Moved(c) /\ tasks'[c].answer = "none"
  BY <1>0, <1>1, ReturnEffect DEF Moved
<1>2. CASE Call(c) \/ Ensure(c) \/ Resolve(c)
  <2>1. Moved(c) /\ Keeps(c) /\ tasks[c].pc \in {"idle", "ensure", "resolve"}
    BY <1>2, ApproachEffect
  <2> QED BY <2>1
<1>3. CASE Connect(c)
  <2>1. Moved(c) /\ Keeps(c) /\ tasks[c].pc = "connect"
    BY <1>3, ConnectMoves
  <2> QED BY <2>1
<1>4. CASE ConnectFails(c)
  BY <1>0, <1>4, EndedEffect DEF ConnectFails, Moved
<1>5. CASE Store(c)
  <2>1. Moved(c) /\ Keeps(c) /\ tasks[c].pc = "store"
    BY <1>5, StoreEffect
  <2> QED BY <2>1
<1>6. CASE Check(c)
  <2>1. tasks[c].pc = "check" /\ (Return(c, "lost") \/ (Moved(c) /\ Keeps(c)))
    BY <1>6, CheckEffect
  <2> QED BY <1>1, <2>1
<1>7. CASE Insert(c)
  <2>1. Moved(c) /\ Keeps(c) /\ tasks[c].pc = "insert"
    BY <1>7, InsertEffect
  <2> QED BY <2>1
<1>8. CASE Send(c)
  <2>1. (\E result \in {"lost", "timeout"} : Return(c, result)) \/ Waits(c)
    BY <1>8, SendEffect DEF Waits
  <2> QED BY <1>1, <2>1
<1>9. CASE Answered(c)
  BY <1>0, <1>1, <1>9 DEF Answered
<1>10. CASE TimeOut(c)
  BY <1>1, <1>10 DEF TimeOut
<1> QED BY <1>2, <1>3, <1>4, <1>5, <1>6, <1>7, <1>8, <1>9, <1>10 DEF CallStep

\* What the tasks of a connection tell a call: that the connection is lost, or the
\* answer with its number.
LEMMA ConnectionAnswers ==
  ASSUME TypeOK, NEW k \in Made, ConnectionStep(k), NEW c \in Calls
  PROVE  /\ tasks'[c].answer \notin {tasks[c].answer, "lost"} =>
              /\ Holds(c, k, tasks[c].id)
              /\ \E a \in Answers(k) : a.id = tasks[c].id /\ a.result = tasks'[c].answer
         /\ tasks'[c].answer # tasks[c].answer => tasks[c].pc \in {"send", "wait"}
<1>0. tasks \in [Calls -> Tasks] /\ connections \in Seq(Connections)
  BY DEF TypeOK
<1>1. CASE UNCHANGED tasks
  BY <1>1
<1>2. CASE tasks' = TasksCut(k)
  BY <1>0, <1>2, TasksCutEffect
<1>3. CASE ReadNext(k)
  <2> DEFINE a == Head(connections[k].answers)
             entries == {e \in connections[k].pending : e.id = a.id}
             e == [id |-> tasks[c].id, by |-> c]
  <2>1. /\ a \in Results /\ tasks' = Answer(tasks, k, entries, a.result)
        /\ connections[k].answers \in Seq(Results) /\ connections[k].answers # <<>>
    BY <1>0, <1>3, ReadEffect
  <2>2. a \in Answers(k)
    BY <2>1, TailSet DEF Answers
  <2>3. e \in entries => a.id = tasks[c].id
    OBVIOUS
  <2>4. a.result \in {"ok", "error", "lost"}
    BY <2>1 DEF Results
  <2> HIDE DEF a, entries, e
  <2>5. tasks'[c].answer = IF /\ tasks[c].conn = k /\ tasks[c].pc \in {"send", "wait"}
                              /\ e \in entries
                           THEN a.result ELSE tasks[c].answer
    BY <1>0, <2>1, <2>4, AnswerEffect DEF e
  <2>6. CASE tasks'[c].answer = tasks[c].answer
    BY <2>6
  <2>7. CASE tasks'[c].answer # tasks[c].answer
    <3>1. tasks[c].conn = k /\ tasks[c].pc \in {"send", "wait"} /\ a.id = tasks[c].id
          /\ tasks'[c].answer = a.result
      BY <2>3, <2>5, <2>7
    <3> QED BY <2>2, <3>1 DEF Holds, Claiming
  <2> QED BY <2>6, <2>7
<1>4. CASE WriteNext(k)
  BY <1>0, <1>1, <1>2, <1>4, WriteEffect
<1>5. CASE ReaderEnds(k)
  BY <1>0, <1>2, <1>5, ReaderEndsEffect
<1>6. CASE WriterEnds(k) \/ LoseLink(k) \/ ServeLine(k) \/ ServerEnds(k)
  BY <1>1, <1>6 DEF WriterEnds, LoseLink, ServeLine, ServerEnds
<1> QED BY <1>3, <1>4, <1>5, <1>6 DEF ConnectionStep

LEMMA TruthStep ==
  ASSUME FlowInv, HostsAssumption, [Next]_vars, \A c \in Calls : Truth(c)
  PROVE  \A c \in Calls : Truth(c)'
<1> SUFFICES ASSUME NEW c \in Calls PROVE Truth(c)'
  OBVIOUS
<1>1. Truth(c) /\ TypeOK /\ Placed
  BY DEF FlowInv
<1>2. ASSUME tasks'[c] = tasks[c], executed'[c] >= executed[c] PROVE Truth(c)'
  <2>1. executed[c] \in Nat /\ executed'[c] \in Nat
    BY <1>1, TypeStep DEF TypeOK
  <2> QED BY <1>1, <1>2, <2>1 DEF Truth
<1>3. CASE \E d \in Calls : CallStep(d)
  <2>1. PICK d \in Calls : CallStep(d)
    BY <1>3
  <2>2. UNCHANGED executed /\ executed'[c] >= executed[c]
    BY <1>1, <2>1, CallSteps DEF Grows
  <2>3. CASE d # c
    BY <1>1, <1>2, <2>1, <2>2, <2>3, CallAnswers DEF Moved, Waits
  <2>4. CASE d = c
    BY <1>1, <2>1, <2>2, <2>4, CallAnswers DEF Truth, Keeps, Waits, SameRequest
  <2> QED BY <2>3, <2>4
<1>4. CASE \E k \in Made : ConnectionStep(k)
  <2>1. PICK k \in Made : ConnectionStep(k)
    BY <1>4
  <2>2. UNCHANGED executed /\ SameButAnswer(tasks[c], tasks'[c])
    BY <1>1, <2>1, ConnectionSteps DEF Stays
  <2>3. tasks'[c].pc \notin {"send", "wait"} => tasks'[c].answer = "none"
    BY <1>1, <2>1, <2>2, ConnectionAnswers DEF SameButAnswer, Truth
  <2>4. ASSUME tasks'[c].answer = "ok", tasks'[c].kind = "request" PROVE executed'[c] > 0
    <3>1. tasks[c].kind = "request"
      BY <2>2, <2>4 DEF SameButAnswer
    <3>2. CASE tasks[c].answer = "ok"
      BY <1>1, <2>2, <3>1, <3>2 DEF Truth
    <3>3. CASE tasks[c].answer # "ok"
      <4>1. /\ Holds(c, k, tasks[c].id) /\ tasks[c].pc \in {"send", "wait"}
            /\ \E a \in Answers(k) : a.id = tasks[c].id /\ a.result = "ok"
        BY <1>1, <2>1, <2>4, <3>3, ConnectionAnswers
      <4>2. tasks[c].id \in Nat
        BY <1>1 DEF TypeOK, Tasks
      <4>3. Claim(c, k, tasks[c].id)
        BY <4>1, <4>2 DEF FlowInv, Claims
      <4> QED BY <2>2, <3>1, <4>1, <4>3 DEF Claim
    <3> QED BY <3>2, <3>3
  <2> QED BY <2>3, <2>4 DEF Truth
<1>5. CASE \E r \in running : RunRequest(r)
  BY <1>1, <1>2, <1>5, RunSteps DEF Grows, RunRequest
<1>6. CASE \E u \in Updates : UpdateStep(u)
  BY <1>1, <1>2, <1>6, UpdateEffect, UpdateSteps DEF Grows
<1>7. CASE UNCHANGED vars
  BY <1>1, <1>7 DEF vars, Truth
<1> QED BY <1>3, <1>4, <1>5, <1>6, <1>7, StepCases

-----------------------------------------------------------------------------
(* How often a call may reach the daemon *)

\* The requests of a call that are on their way, by connection and number.
InFlight(c) ==
  {p \in Made \X Nat : \E m \in Flying(p[1]) : m.id = p[2] /\ m.by = c /\ m.kind = "request"}

Limit(c) == IF c \in Retryable THEN 2 ELSE 1

\* How many messages the call has sent, or might have once it is over.
Spent(c) ==
  IF tasks[c].pc \in {"ok", "failed"} THEN Limit(c)
  ELSE (IF tasks[c].attempt = 2 THEN 1 ELSE 0)
         + (IF tasks[c].kind = "request" /\ tasks[c].pc = "wait" THEN 1 ELSE 0)

\* What was carried out and what is still on its way was sent.
Budget(c) == /\ tasks[c].attempt = 2 => c \in Retryable
             /\ IsFiniteSet(InFlight(c))
             /\ executed[c] + Cardinality(InFlight(c)) <= Spent(c)

LEMMA SpentBounds ==
  ASSUME TypeOK, NEW c \in Calls, tasks[c].attempt = 2 => c \in Retryable
  PROVE  Spent(c) \in Nat /\ Spent(c) <= Limit(c) /\ Limit(c) \in Nat
<1>1. tasks[c].attempt \in {1, 2}
  BY DEF TypeOK, Tasks
<1> QED BY <1>1 DEF Spent, Limit

\* A call that moves has sent no less, and one more when it sends a request.
LEMMA SpentGrows ==
  ASSUME TypeOK, Placed, HostsAssumption, NEW c \in Calls, CallStep(c),
         tasks[c].attempt = 2 => c \in Retryable
  PROVE  /\ tasks'[c].attempt = 2 => c \in Retryable
         /\ Spent(c)' >= Spent(c)
         /\ Waits(c) /\ tasks[c].kind = "request" => Spent(c)' = Spent(c) + 1
<1>0. /\ tasks \in [Calls -> Tasks] /\ Home \in Hosts
      /\ tasks[c].answer \in {"none", "ok", "error", "lost"}
      /\ tasks[c].attempt \in {1, 2}
  BY DEF TypeOK, HostsAssumption, Tasks
<1>1. Spent(c) \in Nat /\ Spent(c) <= Limit(c) /\ Limit(c) \in Nat
  BY SpentBounds
<1>2. ASSUME tasks[c].pc \notin {"ok", "failed", "wait"}, tasks'[c].pc \notin {"ok", "failed", "wait"},
             Keeps(c)
      PROVE  /\ tasks'[c].attempt = 2 => c \in Retryable
             /\ Spent(c)' >= Spent(c) /\ ~Waits(c)
  BY <1>0, <1>2 DEF Spent, Keeps, Waits
<1>3. ASSUME NEW result \in {"ok", "error", "lost", "timeout"}, Return(c, result),
             tasks[c].pc \in {"check", "send", "wait"}
      PROVE  /\ tasks'[c].attempt = 2 => c \in Retryable
             /\ Spent(c)' >= Spent(c) /\ ~Waits(c)
  <2>1. CASE /\ tasks'[c].pc = "store" /\ tasks[c].kind = "auth"
             /\ tasks'[c].attempt = tasks[c].attempt
    BY <1>0, <1>3, <2>1 DEF Spent, Waits
  <2>2. CASE tasks'[c].pc \in {"ok", "failed"} /\ tasks'[c].attempt = 1
    <3>1. Spent(c)' = Limit(c)
      BY <2>2 DEF Spent, Limit
    <3> QED BY <1>1, <2>2, <3>1 DEF Waits
  <2>3. CASE /\ tasks'[c].pc = "ensure" /\ tasks'[c].attempt = 2 /\ tasks[c].attempt = 1
             /\ c \in Retryable
    <3>1. Spent(c)' = 1 /\ Spent(c) <= 1
      BY <1>3, <2>3 DEF Spent
    <3> QED BY <1>1, <2>3, <3>1 DEF Waits
  <2> QED BY <1>0, <1>3, <2>1, <2>2, <2>3, ReturnEffect
<1>4. CASE Call(c) \/ Ensure(c) \/ Resolve(c)
  <2>1. /\ Keeps(c) /\ tasks[c].pc \in {"idle", "ensure", "resolve"}
        /\ tasks'[c].pc \in {"ensure", "resolve", "connect", "check"}
    BY <1>4, ApproachEffect
  <2> QED BY <1>2, <2>1
<1>5. CASE Connect(c)
  <2>1. Keeps(c) /\ tasks[c].pc = "connect" /\ tasks'[c].pc \in {"store", "check"}
    BY <1>5, ConnectMoves
  <2> QED BY <1>2, <2>1
<1>6. CASE ConnectFails(c)
  <2>1. tasks'[c].pc = "failed" /\ tasks'[c].attempt = 1
    BY <1>0, <1>6, EndedEffect DEF ConnectFails
  <2>2. Spent(c)' = Limit(c)
    BY <2>1 DEF Spent, Limit
  <2> QED BY <1>1, <2>1, <2>2 DEF Waits
<1>7. CASE Store(c)
  <2>1. Keeps(c) /\ tasks[c].pc = "store" /\ tasks'[c].pc = "check"
    BY <1>7, StoreEffect
  <2> QED BY <1>2, <2>1
<1>8. CASE Check(c)
  <2>1. /\ tasks[c].pc = "check"
        /\ Return(c, "lost") \/ (Keeps(c) /\ tasks'[c].pc = "insert")
    BY <1>8, CheckEffect
  <2> QED BY <1>2, <1>3, <2>1
<1>9. CASE Insert(c)
  <2>1. Keeps(c) /\ tasks[c].pc = "insert" /\ tasks'[c].pc = "send"
    BY <1>9, InsertEffect
  <2> QED BY <1>2, <2>1
<1>10. CASE Send(c)
  <2>1. CASE \E result \in {"lost", "timeout"} : Return(c, result)
    <3>1. tasks[c].pc = "send"
      BY <1>10, SendEffect
    <3> QED BY <1>3, <2>1, <3>1
  <2>2. CASE Waits(c)
    <3>1. /\ tasks'[c].attempt = tasks[c].attempt /\ tasks'[c].kind = tasks[c].kind
          /\ tasks[c].pc = "send" /\ tasks'[c].pc = "wait"
      BY <2>2 DEF Waits, Keeps, SameRequest
    <3> QED BY <1>0, <3>1 DEF Spent
  <2> QED BY <1>10, <2>1, <2>2, SendEffect DEF Waits
<1>11. CASE Answered(c)
  <2>1. tasks[c].answer \in {"ok", "error", "lost"} /\ Return(c, tasks[c].answer)
        /\ tasks[c].pc = "wait"
    BY <1>0, <1>11 DEF Answered
  <2> QED BY <1>3, <2>1
<1>12. CASE TimeOut(c)
  BY <1>3, <1>12 DEF TimeOut
<1> QED BY <1>4, <1>5, <1>6, <1>7, <1>8, <1>9, <1>10, <1>11, <1>12 DEF CallStep

\* Only a call that sends adds to what is on its way, and one request.
LEMMA InFlightStep ==
  ASSUME FlowInv, HostsAssumption, Next, NEW c \in Calls
  PROVE  \/ InFlight(c)' \subseteq InFlight(c)
         \/ /\ Waits(c) /\ tasks[c].kind = "request"
            /\ InFlight(c)' \subseteq InFlight(c) \cup {<<tasks[c].conn, tasks[c].id>>}
<1>1. ASSUME NEW p \in InFlight(c)'
      PROVE  \/ p \in InFlight(c)
             \/ Waits(c) /\ tasks[c].kind = "request" /\ p = <<tasks[c].conn, tasks[c].id>>
  <2>1. PICK k \in Made', n \in Nat : p = <<k, n>>
    BY DEF InFlight
  <2>2. PICK m \in Flying(k)' : m.id = n /\ m.by = c /\ m.kind = "request"
    BY <2>1 DEF InFlight
  <2>3. k \in Made
    BY <2>2, FlowMoves
  <2>4. CASE m \in Flying(k)
    BY <2>1, <2>2, <2>3, <2>4 DEF InFlight
  <2>5. CASE m \notin Flying(k)
    <3>1. PICK d \in Calls : Sends(d, k)
      BY <2>3, <2>5, FlowMoves DEF Quiet, Replies
    <3>2. m = Message(d) /\ Message(d).id = tasks[d].id /\ Message(d).by = d
          /\ Message(d).kind = tasks[d].kind
      BY <2>3, <2>5, <3>1, SendsOwn
    <3>3. d = c /\ n = tasks[c].id /\ tasks[c].kind = "request"
      BY <2>2, <3>2
    <3>4. Waits(c) /\ tasks[c].conn = k
      BY <3>1, <3>3 DEF Sends, Waits
    <3> QED BY <2>1, <3>3, <3>4
  <2> QED BY <2>4, <2>5
<1>2. CASE Waits(c) /\ tasks[c].kind = "request"
  BY <1>1, <1>2
<1>3. CASE ~(Waits(c) /\ tasks[c].kind = "request")
  BY <1>1, <1>3
<1> QED BY <1>2, <1>3

\* What the daemon carries out is no longer on its way.
LEMMA ExecutedLeaves ==
  ASSUME FlowInv, HostsAssumption, NEW r \in running, RunRequest(r), Next,
         executed'[r.by] # executed[r.by]
  PROVE  /\ executed'[r.by] = executed[r.by] + 1
         /\ \E p \in InFlight(r.by) : InFlight(r.by)' \subseteq InFlight(r.by) \ {p}
<1>1. r \in Jobs /\ r.conn \in Made /\ r.kind = "request" /\ executed'[r.by] = executed[r.by] + 1
  BY RunEffect DEF FlowInv
<1>2. PICK k \in Made, n \in Nat : k = r.conn /\ n = r.id
  BY <1>1 DEF Jobs
<1>3. MessageOf(r) \in Flying(k) /\ \A f \in Flying(k)' : f.id # n
  BY <1>2, RunFlow DEF FlowInv
<1>4. <<k, n>> \in InFlight(r.by)
  BY <1>1, <1>2, <1>3 DEF InFlight, MessageOf
<1>5. <<k, n>> \notin InFlight(r.by)'
  BY <1>3 DEF InFlight
<1>6. InFlight(r.by)' \subseteq InFlight(r.by)
  <2>1. r.by \in Calls /\ UNCHANGED tasks
    BY <1>1 DEF Jobs, RunRequest
  <2>2. ~Waits(r.by)
    BY <2>1 DEF Waits
  <2> QED BY <2>1, <2>2, InFlightStep
<1> QED BY <1>1, <1>4, <1>5, <1>6

LEMMA BudgetStep ==
  ASSUME FlowInv, HostsAssumption, [Next]_vars, \A c \in Calls : Budget(c)
  PROVE  \A c \in Calls : Budget(c)'
<1> SUFFICES ASSUME NEW c \in Calls PROVE Budget(c)'
  OBVIOUS
<1>0. /\ Budget(c) /\ TypeOK /\ Placed /\ TypeOK'
      /\ executed[c] \in Nat /\ executed'[c] \in Nat
  BY TypeStep DEF FlowInv, TypeOK
<1>1. Spent(c) \in Nat /\ IsFiniteSet(InFlight(c)) /\ Cardinality(InFlight(c)) \in Nat
  BY <1>0, SpentBounds, FS_CardinalityType DEF Budget
<1>2. ASSUME NEW S, IsFiniteSet(S), InFlight(c)' \subseteq S
      PROVE  /\ IsFiniteSet(InFlight(c)') /\ Cardinality(InFlight(c)') \in Nat
             /\ Cardinality(InFlight(c)') <= Cardinality(S) /\ Cardinality(S) \in Nat
  BY <1>2, FS_Subset, FS_CardinalityType
<1>3. ASSUME UNCHANGED executed, InFlight(c)' \subseteq InFlight(c),
             tasks'[c].attempt = 2 => c \in Retryable,
             Spent(c)' >= Spent(c), Spent(c)' \in Nat
      PROVE  Budget(c)'
  <2>1. /\ IsFiniteSet(InFlight(c)') /\ Cardinality(InFlight(c)') \in Nat
        /\ Cardinality(InFlight(c)') <= Cardinality(InFlight(c))
    BY <1>1, <1>2, <1>3
  <2> QED BY <1>0, <1>1, <1>3, <2>1 DEF Budget
<1>4. ASSUME tasks'[c].pc = tasks[c].pc, tasks'[c].attempt = tasks[c].attempt,
             tasks'[c].kind = tasks[c].kind
      PROVE  /\ Spent(c)' = Spent(c) /\ Spent(c)' >= Spent(c) /\ Spent(c)' \in Nat
             /\ tasks'[c].attempt = 2 => c \in Retryable
             /\ ~Waits(c)
  <2>1. Spent(c)' = Spent(c)
    BY <1>4 DEF Spent, Limit
  <2>2. ~Waits(c)
    BY <1>4 DEF Waits
  <2> QED BY <1>0, <1>1, <1>4, <2>1, <2>2 DEF Budget
<1>5. CASE \E d \in Calls : CallStep(d)
  <2>1. PICK d \in Calls : CallStep(d)
    BY <1>5
  <2>2. Next /\ UNCHANGED executed
    BY <1>0, <2>1, CallSteps, StepIs
  <2>3. CASE d # c
    <3>1. tasks'[c] = tasks[c]
      BY <1>0, <2>1, <2>3, CallAnswers DEF Moved, Waits
    <3> QED BY <1>3, <1>4, <2>2, <3>1, InFlightStep
  <2>4. CASE d = c
    <3>1. /\ tasks'[c].attempt = 2 => c \in Retryable
          /\ Spent(c)' >= Spent(c)
          /\ Waits(c) /\ tasks[c].kind = "request" => Spent(c)' = Spent(c) + 1
      BY <1>0, <2>1, <2>4, SpentGrows DEF Budget
    <3>2. Spent(c)' \in Nat
      <4>1. tasks'[c].attempt \in {1, 2}
        BY <1>0 DEF TypeOK, Tasks
      <4> QED BY <4>1 DEF Spent, Limit
    <3>3. CASE InFlight(c)' \subseteq InFlight(c)
      BY <1>3, <2>2, <3>1, <3>2, <3>3
    <3>4. CASE /\ Waits(c) /\ tasks[c].kind = "request"
               /\ InFlight(c)' \subseteq InFlight(c) \cup {<<tasks[c].conn, tasks[c].id>>}
      <4> DEFINE S == InFlight(c) \cup {<<tasks[c].conn, tasks[c].id>>}
      <4>1. IsFiniteSet(S) /\ Cardinality(S) <= Cardinality(InFlight(c)) + 1
        <5>1. \A F, x : IsFiniteSet(F) => /\ IsFiniteSet(F \cup {x})
                                         /\ \/ Cardinality(F \cup {x}) = Cardinality(F)
                                            \/ Cardinality(F \cup {x}) = Cardinality(F) + 1
          BY FS_AddElement
        <5>2. /\ IsFiniteSet(S)
              /\ \/ Cardinality(S) = Cardinality(InFlight(c))
                 \/ Cardinality(S) = Cardinality(InFlight(c)) + 1
          BY <1>1, <5>1
        <5> HIDE DEF S
        <5> QED BY <1>1, <5>2
      <4>2. /\ IsFiniteSet(InFlight(c)') /\ Cardinality(InFlight(c)') \in Nat
            /\ Cardinality(InFlight(c)') <= Cardinality(S) /\ Cardinality(S) \in Nat
        <5> HIDE DEF S
        <5>1. InFlight(c)' \subseteq S
          BY <3>4 DEF S
        <5> QED BY <1>2, <4>1, <5>1
      <4> HIDE DEF S
      <4>3. executed'[c] + Cardinality(InFlight(c)') <= Spent(c)'
        BY <1>0, <1>1, <2>2, <3>1, <3>2, <3>4, <4>1, <4>2 DEF Budget
      <4> QED BY <3>1, <4>2, <4>3 DEF Budget
    <3> QED BY <2>2, <3>3, <3>4, InFlightStep
  <2> QED BY <2>3, <2>4
<1>6. CASE \E k \in Made : ConnectionStep(k)
  <2>1. Next /\ UNCHANGED executed
    BY <1>0, <1>6, ConnectionSteps, StepIs
  <2>2. tasks'[c].pc = tasks[c].pc /\ tasks'[c].attempt = tasks[c].attempt
        /\ tasks'[c].kind = tasks[c].kind
    BY <1>0, <1>6, ConnectionSteps DEF Stays, SameButAnswer
  <2> QED BY <1>3, <1>4, <2>1, <2>2, InFlightStep
<1>7. CASE \E r \in running : RunRequest(r)
  <2>1. PICK r \in running : RunRequest(r)
    BY <1>7
  <2>2. Next /\ UNCHANGED tasks
    BY <2>1, StepIs DEF RunRequest
  <2>3. InFlight(c)' \subseteq InFlight(c)
    BY <1>4, <2>2, InFlightStep
  <2>4. CASE executed'[c] = executed[c]
    <3>1. /\ IsFiniteSet(InFlight(c)') /\ Cardinality(InFlight(c)') \in Nat
          /\ Cardinality(InFlight(c)') <= Cardinality(InFlight(c))
      BY <1>1, <1>2, <2>3
    <3> QED BY <1>0, <1>1, <1>4, <2>2, <2>4, <3>1 DEF Budget
  <2>5. CASE executed'[c] # executed[c]
    <3>1. c = r.by
      BY <1>0, <2>1, <2>5, RunEffect
    <3>2. executed'[c] = executed[c] + 1
      BY <2>1, <2>2, <2>5, <3>1, ExecutedLeaves
    <3>3. PICK p \in InFlight(c) : InFlight(c)' \subseteq InFlight(c) \ {p}
      BY <2>1, <2>2, <2>5, <3>1, ExecutedLeaves
    <3> DEFINE S == InFlight(c) \ {p}
    <3>4. IsFiniteSet(S) /\ Cardinality(S) = Cardinality(InFlight(c)) - 1
      BY <1>1, <3>3, FS_RemoveElement
    <3>5. /\ IsFiniteSet(InFlight(c)') /\ Cardinality(InFlight(c)') \in Nat
          /\ Cardinality(InFlight(c)') <= Cardinality(S)
      <4> HIDE DEF S
      <4>1. InFlight(c)' \subseteq S
        BY <3>3 DEF S
      <4> QED BY <1>2, <3>4, <4>1
    <3> HIDE DEF S
    <3> QED BY <1>0, <1>1, <1>4, <2>2, <3>2, <3>4, <3>5 DEF Budget
  <2> QED BY <2>4, <2>5
<1>8. CASE \E u \in Updates : UpdateStep(u)
  <2>1. Next /\ UNCHANGED <<executed, tasks>>
    BY <1>0, <1>8, UpdateEffect, StepIs
  <2> QED BY <1>3, <1>4, <2>1, InFlightStep
<1>9. CASE UNCHANGED vars
  <2>1. UNCHANGED <<executed, tasks, connections, running>>
    BY <1>9 DEF vars
  <2>2. InFlight(c)' = InFlight(c)
    BY <2>1 DEF InFlight, Made, Flying, Queued, Sent, JobsOn
  <2> QED BY <1>3, <1>4, <2>1, <2>2
<1> QED BY <1>5, <1>6, <1>7, <1>8, <1>9, StepCases

-----------------------------------------------------------------------------
(* Each call is carried out once, and answered for what it did *)

BackendInv == FlowInv /\ \A c \in Calls : Truth(c) /\ Budget(c)

LEMMA BackendInit ==
  ASSUME Init, HostsAssumption
  PROVE  BackendInv
<1>1. FlowInv
  BY FlowInit
<1>2. Made = {} /\ \A c \in Calls : executed[c] = 0 /\ tasks[c] = IdleTask
  BY DEF Init, Made
<1> SUFFICES ASSUME NEW c \in Calls PROVE Truth(c) /\ Budget(c)
  BY <1>1 DEF BackendInv
<1>3. /\ tasks[c].pc = "idle" /\ tasks[c].attempt = 1 /\ tasks[c].answer = "none"
      /\ executed[c] = 0
  BY <1>2 DEF IdleTask
<1>4. InFlight(c) = {}
  BY <1>2 DEF InFlight
<1>5. IsFiniteSet(InFlight(c)) /\ Cardinality(InFlight(c)) = 0
  BY <1>4, FS_EmptySet
<1>6. Budget(c)
  BY <1>3, <1>5 DEF Budget, Spent
<1> QED BY <1>3, <1>6 DEF Truth

LEMMA BackendStep ==
  ASSUME BackendInv, HostsAssumption, [Next]_vars
  PROVE  BackendInv'
  BY FlowInvStep, TruthStep, BudgetStep DEF BackendInv

\* A call is carried out at most once, or twice if its method may be repeated,
\* whatever is lost and whenever: each message that was sent is on its way or was
\* carried out, and a call sends no more than that.
THEOREM NoCallTwice == Spec => []AtMostOnce
<1>1. ASSUME BackendInv, NEW c \in Calls
      PROVE  executed[c] <= IF c \in Retryable THEN 2 ELSE 1
  <2>1. Budget(c) /\ TypeOK
    BY <1>1 DEF BackendInv, FlowInv
  <2>2. /\ Spent(c) \in Nat /\ Spent(c) <= Limit(c) /\ executed[c] \in Nat
        /\ Cardinality(InFlight(c)) \in Nat /\ Limit(c) \in Nat
    BY <2>1, SpentBounds, FS_CardinalityType DEF Budget, TypeOK
  <2>3. executed[c] <= Limit(c)
    BY <2>1, <2>2 DEF Budget
  <2> QED BY <2>3 DEF Limit
<1>2. BackendInv => AtMostOnce
  BY <1>1 DEF AtMostOnce
<1>3. Init => BackendInv
  BY BackendInit, HostsAssumption
<1>4. BackendInv /\ [Next]_vars => BackendInv'
  BY BackendStep, HostsAssumption
<1> QED BY <1>2, <1>3, <1>4, PTL DEF Spec

\* How far a call is, and the calls that were carried out, as RequestTable sees
\* them.
Stage(c) == CASE tasks[c].pc = "idle" -> "idle"
              [] tasks[c].pc = "ok" -> "answered"
              [] tasks[c].pc = "failed" -> "gaveUp"
              [] OTHER -> "open"
Stages == [c \in Calls |-> Stage(c)]
Done == {c \in Calls : executed[c] > 0}

LEMMA StageIs ==
  ASSUME NEW c \in Calls
  PROVE  /\ tasks[c].pc = "idle" => Stages[c] = "idle"
         /\ tasks[c].pc = "ok" => Stages[c] = "answered"
         /\ tasks[c].pc = "failed" => Stages[c] = "gaveUp"
         /\ tasks[c].pc \notin {"idle", "ok", "failed"} => Stages[c] = "open"
  BY DEF Stages, Stage

\* A call starts, goes on, ends with the answer to a request, or fails.
LEMMA CallStages ==
  ASSUME TypeOK, Placed, HostsAssumption, NEW c \in Calls, CallStep(c)
  PROVE  /\ Moved(c)
         /\ \/ tasks[c].pc = "idle" /\ tasks'[c].pc = "ensure"
            \/ /\ tasks[c].pc \notin {"idle", "ok", "failed"}
               /\ tasks'[c].pc \notin {"idle", "ok"}
            \/ /\ tasks[c].pc = "wait" /\ tasks'[c].pc = "ok"
               /\ tasks[c].kind = "request" /\ tasks[c].answer = "ok"
<1>0. /\ tasks \in [Calls -> Tasks] /\ Home \in Hosts
      /\ tasks[c].answer \in {"none", "ok", "error", "lost"}
  BY DEF TypeOK, HostsAssumption, Tasks
<1>1. ASSUME NEW result \in {"ok", "error", "lost", "timeout"}, Return(c, result)
      PROVE  /\ Moved(c) /\ tasks'[c].pc # "idle"
             /\ tasks'[c].pc = "ok" => tasks[c].kind = "request" /\ result = "ok"
  BY <1>0, <1>1, ReturnEffect DEF Moved
<1>2. CASE Call(c)
  BY <1>0, <1>2 DEF Call, Moved, Tasks, TaskPcs
<1>3. CASE Ensure(c) \/ Resolve(c)
  <2>1. Moved(c) /\ tasks'[c].pc \in {"ensure", "resolve", "connect", "check"}
    BY <1>3, ApproachEffect
  <2>2. tasks[c].pc \in {"ensure", "resolve"}
    BY <1>3 DEF Ensure, Resolve
  <2> QED BY <2>1, <2>2
<1>4. CASE Connect(c)
  <2>1. Moved(c) /\ tasks[c].pc = "connect" /\ tasks'[c].pc \in {"store", "check"}
    BY <1>4, ConnectMoves
  <2> QED BY <2>1
<1>5. CASE ConnectFails(c)
  <2>1. tasks[c].pc = "connect" /\ tasks' = Ended(c, "failed")
    BY <1>5 DEF ConnectFails
  <2>2. Moved(c) /\ tasks'[c].pc = "failed"
    BY <1>0, <2>1, EndedEffect DEF Moved
  <2> QED BY <2>1, <2>2
<1>6. CASE Store(c)
  <2>1. Moved(c) /\ tasks[c].pc = "store" /\ tasks'[c].pc = "check"
    BY <1>6, StoreEffect
  <2> QED BY <2>1
<1>7. CASE Check(c)
  <2>1. /\ tasks[c].pc = "check"
        /\ Return(c, "lost") \/ (Moved(c) /\ tasks'[c].pc = "insert")
    BY <1>7, CheckEffect
  <2> QED BY <1>1, <2>1
<1>8. CASE Insert(c)
  <2>1. Moved(c) /\ tasks[c].pc = "insert" /\ tasks'[c].pc = "send"
    BY <1>8, InsertEffect
  <2> QED BY <2>1
<1>9. CASE Send(c)
  <2>1. /\ tasks[c].pc = "send"
        /\ \/ \E result \in {"lost", "timeout"} : Return(c, result)
           \/ Moved(c) /\ tasks'[c].pc = "wait"
    BY <1>9, SendEffect
  <2> QED BY <1>1, <2>1
<1>10. CASE Answered(c)
  <2>1. /\ tasks[c].pc = "wait" /\ tasks[c].answer \in {"ok", "error", "lost"}
        /\ Return(c, tasks[c].answer)
    BY <1>0, <1>10 DEF Answered
  <2> QED BY <1>1, <2>1
<1>11. CASE TimeOut(c)
  <2>1. tasks[c].pc = "wait" /\ Return(c, "timeout")
    BY <1>11 DEF TimeOut
  <2> QED BY <1>1, <2>1
<1> QED BY <1>2, <1>3, <1>4, <1>5, <1>6, <1>7, <1>8, <1>9, <1>10, <1>11 DEF CallStep

LEMMA TableInit ==
  ASSUME Init
  PROVE  Stages = [c \in Calls |-> "idle"] /\ Done = {}
<1>1. \A c \in Calls : tasks[c].pc = "idle" /\ executed[c] = 0
  BY DEF Init, IdleTask
<1> QED BY <1>1, StageIs DEF Stages, Done

\* Each step is one of RequestTable, or nothing to it.
LEMMA TableStep ==
  ASSUME BackendInv, HostsAssumption, [Next]_vars
  PROVE  \/ \E c \in Calls :
              \/ /\ Stages[c] = "idle" /\ Stages' = [Stages EXCEPT ![c] = "open"]
                 /\ Done' = Done
              \/ /\ Stages[c] # "idle" /\ c \notin Done
                 /\ Done' = Done \cup {c} /\ Stages' = Stages
              \/ /\ Stages[c] = "open" /\ c \in Done
                 /\ Stages' = [Stages EXCEPT ![c] = "answered"] /\ Done' = Done
              \/ /\ Stages[c] = "open"
                 /\ Stages' = [Stages EXCEPT ![c] = "gaveUp"] /\ Done' = Done
         \/ Stages' = Stages /\ Done' = Done
<1>0. TypeOK /\ Placed
  BY DEF BackendInv, FlowInv
<1>1. Stages = [c \in Calls |-> Stages[c]] /\ Stages' = [c \in Calls |-> Stages'[c]]
  BY DEF Stages
<1>2. ASSUME \A c \in Calls : tasks'[c].pc = tasks[c].pc
      PROVE  Stages' = Stages
  BY <1>2 DEF Stages, Stage
<1>3. ASSUME UNCHANGED executed PROVE Done' = Done
  BY <1>3 DEF Done
<1>4. CASE \E c \in Calls : CallStep(c)
  <2>1. PICK c \in Calls : CallStep(c)
    BY <1>4
  <2>2. Done' = Done
    BY <1>0, <1>3, <2>1, CallSteps
  <2>3. Moved(c)
    BY <1>0, <2>1, CallStages
  <2>4. \A d \in Calls \ {c} : Stages'[d] = Stages[d]
    BY <2>3 DEF Moved, Stages, Stage
  <2>5. ASSUME NEW s, Stages'[c] = s PROVE Stages' = [Stages EXCEPT ![c] = s]
    <3> HIDE DEF Stages
    <3> QED BY <1>1, <2>4, <2>5
  <2>6. \A s : Stages[c] = s /\ Stages'[c] = s => Stages' = Stages
    <3> HIDE DEF Stages
    <3> QED BY <1>1, <2>4
  <2>7. /\ tasks'[c].pc = "idle" => Stages'[c] = "idle"
        /\ tasks'[c].pc = "ok" => Stages'[c] = "answered"
        /\ tasks'[c].pc = "failed" => Stages'[c] = "gaveUp"
        /\ tasks'[c].pc \notin {"idle", "ok", "failed"} => Stages'[c] = "open"
    BY DEF Stages, Stage
  <2>8. CASE tasks[c].pc = "idle" /\ tasks'[c].pc = "ensure"
    BY <2>2, <2>5, <2>7, <2>8, StageIs
  <2>9. CASE /\ tasks[c].pc \notin {"idle", "ok", "failed"}
             /\ tasks'[c].pc \notin {"idle", "ok"}
    <3>1. Stages[c] = "open"
      BY <2>9, StageIs
    <3>2. CASE tasks'[c].pc = "failed"
      BY <2>2, <2>5, <2>7, <3>1, <3>2
    <3>3. CASE tasks'[c].pc # "failed"
      BY <2>2, <2>6, <2>7, <2>9, <3>1, <3>3
    <3> QED BY <3>2, <3>3
  <2>10. CASE /\ tasks[c].pc = "wait" /\ tasks'[c].pc = "ok"
              /\ tasks[c].kind = "request" /\ tasks[c].answer = "ok"
    <3>1. c \in Done
      BY <2>10 DEF BackendInv, Truth, Done
    <3>2. Stages[c] = "open"
      BY <2>10, StageIs
    <3> QED BY <2>2, <2>5, <2>7, <2>10, <3>1, <3>2
  <2> QED BY <1>0, <2>1, <2>8, <2>9, <2>10, CallStages
<1>5. CASE \E k \in Made : ConnectionStep(k)
  BY <1>0, <1>2, <1>3, <1>5, ConnectionSteps DEF Stays, SameButAnswer
<1>6. CASE \E r \in running : RunRequest(r)
  <2>1. PICK r \in running : RunRequest(r)
    BY <1>6
  <2>2. UNCHANGED tasks
    BY <2>1 DEF RunRequest
  <2>3. Stages' = Stages
    BY <1>2, <2>2
  <2>4. /\ r \in Jobs /\ r.conn \in Made /\ executed \in [Calls -> Nat]
        /\ \A c \in Calls : c # r.by => executed'[c] = executed[c]
        /\ executed' = executed \/ executed'[r.by] = executed[r.by] + 1
    BY <1>0, <2>1, RunEffect DEF TypeOK
  <2>5. CASE executed' = executed
    BY <1>3, <2>3, <2>5
  <2>6. CASE executed'[r.by] = executed[r.by] + 1
    <3>1. r.by \in Calls /\ Done' = Done \cup {r.by}
      BY <2>4, <2>6 DEF Done, Jobs
    <3>2. MessageOf(r) \in Flying(r.conn) /\ MessageOf(r).by = r.by
      BY <2>4 DEF Flying, JobsOn, MessageOf
    <3>3. tasks[r.by].pc # "idle"
      BY <2>4, <3>2 DEF BackendInv, FlowInv, Numbered
    <3>4. Stages[r.by] # "idle"
      BY <3>1, <3>3, StageIs
    <3> QED BY <2>3, <3>1, <3>4
  <2> QED BY <2>4, <2>5, <2>6
<1>7. CASE \E u \in Updates : UpdateStep(u)
  BY <1>0, <1>2, <1>3, <1>7, UpdateEffect
<1>8. CASE UNCHANGED vars
  BY <1>2, <1>3, <1>8 DEF vars
<1> QED BY <1>4, <1>5, <1>6, <1>7, <1>8, StepCases

\* The table of requests, its connections and its retries implement
\* RequestTable: a call ends once, and with ok only if the daemon has carried out
\* that very call.
THEOREM EndsOnceTruly == Spec => RefinesRequestTable
<1>1. Init => Table!Init
  <2> SUFFICES ASSUME Init PROVE Table!Init
    OBVIOUS
  <2>1. Stages = [c \in Calls |-> "idle"] /\ Done = {}
    BY TableInit
  <2> QED BY <2>1 DEF Table!Init, Stages, Stage, Done
<1>2. BackendInv /\ [Next]_vars => [Table!Next]_<<Stages, Done>>
  <2> SUFFICES ASSUME BackendInv, [Next]_vars
               PROVE  Table!Next \/ UNCHANGED <<Stages, Done>>
    OBVIOUS
  <2>1. ASSUME NEW c \in Calls, Stages[c] = "open", Stages' = [Stages EXCEPT ![c] = "gaveUp"]
        PROVE  Stages' = [d \in Calls |-> IF d \in {c} THEN "gaveUp" ELSE Stages[d]]
    <3>1. DOMAIN Stages = Calls
      BY DEF Stages
    <3> HIDE DEF Stages
    <3> QED BY <2>1, <3>1
  <2>2. ASSUME NEW c \in Calls, Stages[c] = "open", Stages' = [Stages EXCEPT ![c] = "gaveUp"],
               Done' = Done
        PROVE  Table!GiveUp({c})
    BY <2>1, <2>2 DEF Table!GiveUp, Stages, Stage, Done
  <2>3. ASSUME NEW c \in Calls, Stages[c] = "idle", Stages' = [Stages EXCEPT ![c] = "open"],
               Done' = Done
        PROVE  Table!Ask(c)
    BY <2>3 DEF Table!Ask, Stages, Stage, Done
  <2>4. ASSUME NEW c \in Calls, Stages[c] # "idle", c \notin Done,
               Done' = Done \cup {c}, Stages' = Stages
        PROVE  Table!Serve(c)
    BY <2>4 DEF Table!Serve, Stages, Stage, Done
  <2>5. ASSUME NEW c \in Calls, Stages[c] = "open", c \in Done,
               Stages' = [Stages EXCEPT ![c] = "answered"], Done' = Done
        PROVE  Table!Return(c)
    BY <2>5 DEF Table!Return, Stages, Stage, Done
  <2>6. \A c \in Calls : {c} \in SUBSET Calls
    OBVIOUS
  <2> QED BY <2>2, <2>3, <2>4, <2>5, <2>6, TableStep, HostsAssumption DEF Table!Next
<1>3. Init => BackendInv
  BY BackendInit, HostsAssumption
<1>4. BackendInv /\ [Next]_vars => BackendInv'
  BY BackendStep, HostsAssumption
<1> QED BY <1>1, <1>2, <1>3, <1>4, PTL
        DEF Spec, RefinesRequestTable, Table!Spec, Stages, Stage, Done

-----------------------------------------------------------------------------
(* The end of a connection *)

\* A reader that has ended has cleared the flag.
Silent == \A k \in Made : connections[k].reader = "off" => ~connections[k].connected

\* A call without an answer is in the table it entered; it is past the end of its
\* connection only if it read the flag before and entered the table after it.
Entered ==
  \A c \in Calls, k \in Made, n \in Nat :
    Holds(c, k, n) /\ tasks[c].answer = "none" =>
      /\ tasks[c].pc # "insert" => [id |-> n, by |-> c] \in connections[k].pending
      /\ connections[k].reader = "off" => tasks[c].raced

EndInv == TypeOK /\ Placed /\ Silent /\ Entered

\* A call takes only its own entry out of a table.
LEMMA TableOfCall ==
  ASSUME TypeOK, Placed, HostsAssumption, NEW d \in Calls, CallStep(d), NEW k \in Made
  PROVE  /\ connections'[k].host = connections[k].host
         /\ connections'[k].reader = connections[k].reader
         /\ connections'[k].connected = connections[k].connected
         /\ \A e \in connections[k].pending : e.by # d => e \in connections'[k].pending
<1>0. connections \in Seq(Connections)
  BY DEF TypeOK
<1>1. CASE UNCHANGED connections
  BY <1>1
<1>2. ASSUME NEW j \in Made, Changes(j),
             connections'[j].reader = connections[j].reader,
             connections'[j].connected = connections[j].connected,
             \A e \in connections[j].pending : e.by # d => e \in connections'[j].pending
      PROVE  /\ connections'[k].host = connections[k].host
         /\ connections'[k].reader = connections[k].reader
             /\ connections'[k].connected = connections[k].connected
             /\ \A e \in connections[k].pending : e.by # d => e \in connections'[k].pending
  BY <1>2 DEF Changes
<1>3. CASE Call(d) \/ Ensure(d) \/ Resolve(d) \/ ConnectFails(d) \/ Store(d) \/ Answered(d)
  BY <1>1, <1>3 DEF Call, Ensure, Resolve, ConnectFails, Store, Answered
<1>4. CASE Connect(d)
  <2>1. PICK host \in Hosts : connections' = Append(connections, NewConnection(host))
    BY <1>4, ConnectMoves
  <2>2. connections'[k] = connections[k]
    BY <1>0, <2>1, ConnectEffect
  <2> QED BY <2>2
<1>5. CASE Check(d)
  <2>1. PICK j \in Made : j = tasks[d].conn
    BY <1>5, CheckEffect
  <2>2. CASE /\ Changes(j) /\ SameTable(j)
             /\ connections'[j].reader = connections[j].reader
             /\ connections'[j].connected = connections[j].connected
    BY <1>2, <2>2 DEF SameTable
  <2> QED BY <1>1, <1>5, <2>1, <2>2, CheckEffect
<1>6. CASE Insert(d)
  <2>1. PICK j \in Made : j = tasks[d].conn
    BY <1>6, InsertEffect
  <2>2. /\ Changes(j) /\ SameState(j)
        /\ connections'[j].pending = connections[j].pending \cup {[id |-> tasks[d].id, by |-> d]}
    BY <1>6, <2>1, InsertEffect
  <2> QED BY <1>2, <2>2 DEF SameState
<1>7. CASE Send(d)
  <2>1. PICK j \in Made : j = tasks[d].conn
    BY <1>7, SendEffect
  <2>2. /\ Changes(j) /\ SameState(j)
        /\ \/ connections'[j].pending = connections[j].pending \ {[id |-> tasks[d].id, by |-> d]}
           \/ SameTable(j)
    BY <1>7, <2>1, SendEffect
  <2> QED BY <1>2, <2>2 DEF SameState, SameTable
<1>8. CASE TimeOut(d)
  <2>1. tasks[d].pc = "wait" /\ Forget(d)
    BY <1>8 DEF TimeOut
  <2>2. PICK j \in Made : j = tasks[d].conn
    BY <2>1 DEF Placed, Claiming
  <2>3. /\ Changes(j) /\ SameState(j)
        /\ connections'[j].pending = connections[j].pending \ {[id |-> tasks[d].id, by |-> d]}
    BY <1>0, <2>1, <2>2, ForgetEffect
  <2> QED BY <1>2, <2>3 DEF SameState
<1> QED BY <1>3, <1>4, <1>5, <1>6, <1>7, <1>8 DEF CallStep

\* A call that enters a table is in it, and was told if the connection ended.
LEMMA EnteredByCall ==
  ASSUME EndInv, HostsAssumption, NEW d \in Calls, CallStep(d),
         NEW c \in Calls, NEW k \in Made, NEW n \in Nat,
         Holds(c, k, n)', tasks'[c].answer = "none"
  PROVE  /\ tasks'[c].pc # "insert" => [id |-> n, by |-> c] \in connections'[k].pending
         /\ connections'[k].reader = "off" => tasks'[c].raced
<1>0. TypeOK /\ Placed /\ CallMove(d)
  BY CallSteps DEF EndInv
<1>1. CASE c # d
  <2>1. tasks'[c] = tasks[c]
    BY <1>0, <1>1 DEF CallMove, Leaves, Enters, Inserts, Waits, Moved
  <2>2. Holds(c, k, n) /\ tasks[c].answer = "none"
    BY <2>1 DEF Holds
  <2>3. [id |-> n, by |-> c].by # d
    BY <1>1
  <2> QED BY <1>0, <2>1, <2>2, <2>3, TableOfCall DEF EndInv, Entered
<1>2. CASE c = d
  <2>1. CASE Check(c)
    <3>1. tasks'[c].pc = "insert" /\ connections'[k].reader = "on"
      <4>1. PICK j \in Made : j = tasks[c].conn
        BY <1>0, <2>1, CheckEffect
      <4>2. ~(\E result \in {"ok", "error", "lost", "timeout"} : Return(c, result))
        BY <1>0, ReturnEffect DEF Holds, Claiming, TypeOK, HostsAssumption
      <4>3. /\ connections[j].connected /\ tasks'[c].pc = "insert" /\ tasks'[c].conn = j
            /\ connections'[j].reader = connections[j].reader
        BY <1>0, <2>1, <4>1, <4>2, CheckEffect
      <4>4. connections[j] \in Connections
        BY <1>0, MadeIs DEF TypeOK, Made
      <4> QED BY <4>3, <4>4 DEF EndInv, Silent, Holds, Connections
    <3> QED BY <3>1
  <2>2. CASE Insert(c)
    <3>1. PICK j \in Made : j = tasks[c].conn
      BY <1>0, <2>2, InsertEffect
    <3>2. /\ tasks[c].pc = "insert" /\ Keeps(c) /\ SameRequest(c)
          /\ tasks'[c].raced = tasks[c].raced
          /\ connections'[j].reader = connections[j].reader
          /\ connections'[j].pending = connections[j].pending \cup {[id |-> tasks[c].id, by |-> c]}
      BY <1>0, <2>2, <3>1, InsertEffect DEF SameState
    <3>3. j = k /\ n = tasks[c].id /\ Holds(c, k, n) /\ tasks[c].answer = "none"
      BY <3>1, <3>2 DEF Holds, SameRequest, Keeps, Claiming
    <3> QED BY <3>2, <3>3 DEF EndInv, Entered
  <2>3. CASE Send(c)
    <3>1. PICK j \in Made : j = tasks[c].conn
      BY <1>0, <2>3, SendEffect
    <3>2. ~(\E result \in {"lost", "timeout"} : Return(c, result))
      BY <1>0, ReturnEffect DEF Holds, Claiming, TypeOK, HostsAssumption
    <3>3. /\ tasks[c].pc = "send" /\ Keeps(c) /\ SameRequest(c)
          /\ tasks'[c].raced = tasks[c].raced
          /\ connections'[j].reader = connections[j].reader
          /\ connections'[j].pending = connections[j].pending
      BY <1>0, <2>3, <3>1, <3>2, SendEffect DEF SameState, SameTable
    <3>4. j = k /\ Holds(c, k, n) /\ tasks[c].answer = "none"
      BY <3>1, <3>3 DEF Holds, SameRequest, Keeps, Claiming
    <3> QED BY <3>3, <3>4 DEF EndInv, Entered
  <2>4. CASE ~Check(c) /\ ~Insert(c) /\ ~Send(c)
    <3>1. ~(\E result \in {"ok", "error", "lost", "timeout"} : Return(c, result))
      BY <1>0, ReturnEffect DEF Holds, Claiming, TypeOK, HostsAssumption
    <3>2. ~Answered(c) /\ ~TimeOut(c)
      BY <1>0, <3>1 DEF Answered, TimeOut, TypeOK, Tasks
    <3>3. ~Call(c) /\ ~Ensure(c) /\ ~Resolve(c)
      BY <1>0, ApproachEffect DEF Holds, Claiming
    <3>4. ~Connect(c) /\ ~Store(c)
      BY <1>0, ConnectMoves, StoreEffect DEF Holds, Claiming
    <3>5. ~ConnectFails(c)
      BY <1>0, EndedEffect DEF Holds, Claiming, ConnectFails, TypeOK, HostsAssumption
    <3> QED BY <1>2, <2>4, <3>2, <3>3, <3>4, <3>5 DEF CallStep
  <2> QED BY <2>1, <2>2, <2>3, <2>4
<1> QED BY <1>1, <1>2

\* The tasks of a connection answer the calls they take out of its table.
LEMMA EnteredByConnection ==
  ASSUME EndInv, NEW j \in Made, ConnectionStep(j),
         NEW c \in Calls, NEW k \in Made, NEW n \in Nat,
         Holds(c, k, n)', tasks'[c].answer = "none"
  PROVE  /\ tasks'[c].pc # "insert" => [id |-> n, by |-> c] \in connections'[k].pending
         /\ connections'[k].reader = "off" => tasks'[c].raced
<1>0. /\ tasks \in [Calls -> Tasks] /\ connections \in Seq(Connections)
      /\ SameButAnswer(tasks[c], tasks'[c]) /\ TypeOK
      /\ tasks[c].answer \in {"none", "ok", "error", "lost"}
  BY ConnectionSteps DEF EndInv, TypeOK, Stays, Tasks
<1>1. Holds(c, k, n) /\ tasks'[c].pc = tasks[c].pc /\ tasks[c].conn = k /\ tasks[c].id = n
      /\ tasks[c].pc \in Claiming
  BY <1>0 DEF Holds, SameButAnswer
<1>2. tasks[c].answer = "none" =>
        /\ tasks[c].pc # "insert" => [id |-> n, by |-> c] \in connections[k].pending
        /\ connections[k].reader = "off" => tasks[c].raced
  BY <1>1 DEF EndInv, Entered
<1>3. CASE /\ Changes(j) /\ SameTable(j) /\ connections'[j].reader = connections[j].reader
           /\ UNCHANGED tasks
  BY <1>1, <1>2, <1>3 DEF Changes, SameTable
<1>4. CASE /\ Changes(j) /\ connections'[j].pending = {} /\ tasks' = TasksCut(j)
  <2>1. /\ tasks[c].raced => tasks'[c].raced
        /\ tasks[c].conn = j /\ tasks[c].pc = "insert" => tasks'[c].raced
        /\ tasks'[c].answer = IF /\ tasks[c].conn = j /\ tasks[c].pc \in {"send", "wait"}
                                 /\ [id |-> tasks[c].id, by |-> c] \in connections[j].pending
                              THEN "lost" ELSE tasks[c].answer
    BY <1>0, <1>4, TasksCutEffect
  <2>2. tasks[c].answer = "none"
    BY <2>1
  <2>3. CASE j # k
    BY <1>1, <1>2, <1>4, <2>1, <2>2, <2>3 DEF Changes
  <2>4. CASE j = k
    <3>1. tasks[c].pc = "insert"
      BY <1>1, <1>2, <2>1, <2>2, <2>4 DEF Claiming
    <3> QED BY <1>1, <2>1, <2>4, <3>1
  <2> QED BY <2>3, <2>4
<1>5. CASE ReadNext(j)
  <2> DEFINE a == Head(connections[j].answers)
             entries == {e \in connections[j].pending : e.id = a.id}
             e == [id |-> tasks[c].id, by |-> c]
  <2>1. /\ a \in Results /\ Changes(j) /\ SameState(j)
        /\ connections'[j].pending = connections[j].pending \ entries
        /\ tasks' = Answer(tasks, j, entries, a.result)
    BY <1>0, <1>5, ReadEffect
  <2>2. a.result \in {"ok", "error", "lost"}
    BY <2>1 DEF Results
  <2> HIDE DEF a, entries, e
  <2>3. /\ tasks'[c].raced = tasks[c].raced
        /\ tasks'[c].answer = IF /\ tasks[c].conn = j /\ tasks[c].pc \in {"send", "wait"}
                                 /\ e \in entries
                              THEN a.result ELSE tasks[c].answer
    BY <1>0, <2>1, <2>2, AnswerEffect DEF e
  <2>4. tasks[c].answer = "none" /\ ~(/\ tasks[c].conn = j /\ tasks[c].pc \in {"send", "wait"}
                                      /\ e \in entries)
    BY <2>2, <2>3
  <2>5. CASE j # k
    BY <1>1, <1>2, <2>1, <2>3, <2>4, <2>5 DEF Changes
  <2>6. CASE j = k
    BY <1>1, <1>2, <2>1, <2>3, <2>4, <2>6 DEF SameState, Claiming, e
  <2> QED BY <2>5, <2>6
<1>6. CASE WriteNext(j)
  BY <1>0, <1>3, <1>4, <1>6, WriteEffect
<1>7. CASE WriterEnds(j)
  BY <1>0, <1>3, <1>7, WriterEndsEffect DEF WriterEnds, SameState
<1>8. CASE ReaderEnds(j)
  BY <1>0, <1>4, <1>8, ReaderEndsEffect
<1>9. CASE LoseLink(j)
  BY <1>0, <1>3, <1>9, LoseLinkEffect DEF LoseLink, SameState
<1>10. CASE ServeLine(j)
  BY <1>0, <1>3, <1>10, ServeEffect DEF ServeLine, SameState
<1>11. CASE ServerEnds(j)
  BY <1>0, <1>3, <1>11, ServerEndsEffect DEF ServerEnds, SameState
<1> QED BY <1>5, <1>6, <1>7, <1>8, <1>9, <1>10, <1>11 DEF ConnectionStep

\* A connection that a task of its own or of the daemon works on stays in the
\* same place, and its flag is not set again.
LEMMA ConnectionState ==
  ASSUME TypeOK, Placed,
         (\E j \in Made : ConnectionStep(j)) \/ (\E r \in running : RunRequest(r)),
         NEW k \in Made
  PROVE  /\ Made' = Made /\ connections'[k].host = connections[k].host
         /\ \/ /\ connections'[k].reader = connections[k].reader
               /\ connections'[k].connected = connections[k].connected
            \/ connections'[k].connected = FALSE
<1>0. connections \in Seq(Connections)
  BY DEF TypeOK
<1>1. ASSUME NEW j \in Made, Changes(j),
             \/ /\ connections'[j].reader = connections[j].reader
                /\ connections'[j].connected = connections[j].connected
             \/ connections'[j].connected = FALSE
      PROVE  /\ Made' = Made /\ connections'[k].host = connections[k].host
             /\ \/ /\ connections'[k].reader = connections[k].reader
                   /\ connections'[k].connected = connections[k].connected
                \/ connections'[k].connected = FALSE
  BY <1>1 DEF Changes
<1>2. CASE \E j \in Made : ConnectionStep(j)
  <2>1. PICK j \in Made : ConnectionStep(j)
    BY <1>2
  <2>2. Changes(j) /\ (SameState(j) \/ connections'[j].connected = FALSE
                       \/ /\ connections'[j].reader = connections[j].reader
                          /\ connections'[j].connected = connections[j].connected)
    BY <1>0, <2>1, WriteEffect, WriterEndsEffect, ReadEffect, ReaderEndsEffect,
       LoseLinkEffect, ServeEffect, ServerEndsEffect DEF ConnectionStep
  <2> QED BY <1>1, <2>2 DEF SameState
<1>3. CASE \E r \in running : RunRequest(r)
  <2>1. PICK r \in running : RunRequest(r)
    BY <1>3
  <2>2. PICK j \in Made : j = r.conn
    BY <2>1, RunEffect
  <2>3. Changes(j) /\ SameState(j)
    BY <2>1, <2>2, RunEffect
  <2> QED BY <1>1, <2>3 DEF SameState
<1> QED BY <1>2, <1>3

LEMMA SilentStep ==
  ASSUME EndInv, HostsAssumption, Next
  PROVE  Silent'
<1> SUFFICES ASSUME NEW k \in Made', connections'[k].reader = "off"
             PROVE  ~connections'[k].connected
  BY DEF Silent
<1>0. TypeOK /\ Placed
  BY DEF EndInv
<1>1. k \in Made
  BY <1>0, NewFlow
<1>2. CASE \/ connections'[k].connected = FALSE
           \/ /\ connections'[k].reader = connections[k].reader
              /\ connections'[k].connected = connections[k].connected
  BY <1>1, <1>2 DEF EndInv, Silent
<1>3. CASE \E c \in Calls : CallStep(c)
  BY <1>0, <1>1, <1>2, <1>3, TableOfCall
<1>4. CASE (\E j \in Made : ConnectionStep(j)) \/ (\E r \in running : RunRequest(r))
  BY <1>0, <1>1, <1>2, <1>4, ConnectionState
<1>5. CASE \E u \in Updates : UpdateStep(u)
  BY <1>0, <1>1, <1>2, <1>5, UpdateEffect
<1> QED BY <1>3, <1>4, <1>5, StepCases

LEMMA EnteredStep ==
  ASSUME EndInv, HostsAssumption, Next
  PROVE  Entered'
<1> SUFFICES ASSUME NEW c \in Calls, NEW k \in Made', NEW n \in Nat,
                    Holds(c, k, n)', tasks'[c].answer = "none"
             PROVE  /\ tasks'[c].pc # "insert" => [id |-> n, by |-> c] \in connections'[k].pending
                    /\ connections'[k].reader = "off" => tasks'[c].raced
  BY DEF Entered
<1>0. TypeOK /\ Placed /\ TaskMoves
  BY Moves DEF EndInv
<1>1. k \in Made
  <2>1. CASE Stays(c)
    BY <1>0, <2>1 DEF Stays, SameButAnswer, Holds, Placed
  <2>2. CASE ~Stays(c)
    <3>1. PICK e \in Calls : CallMove(e)
      BY <1>0, <2>2 DEF TaskMoves
    <3>2. e = c
      BY <2>2, <3>1 DEF CallMove, Leaves, Enters, Inserts, Waits, Moved, Stays, SameButAnswer
    <3>3. CASE Enters(c)
      BY <3>3 DEF Enters, Holds
    <3>4. CASE Inserts(c) \/ Waits(c)
      BY <1>0, <3>4 DEF Inserts, Waits, SameRequest, Holds, Placed, Claiming
    <3> QED BY <3>1, <3>2, <3>3, <3>4 DEF CallMove, Leaves, Holds
  <2> QED BY <2>1, <2>2
<1>2. CASE \E d \in Calls : CallStep(d)
  BY <1>1, <1>2, EnteredByCall
<1>3. CASE \E j \in Made : ConnectionStep(j)
  BY <1>1, <1>3, EnteredByConnection
<1>4. ASSUME UNCHANGED tasks, connections'[k].reader = connections[k].reader,
             connections'[k].pending = connections[k].pending
      PROVE  /\ tasks'[c].pc # "insert" => [id |-> n, by |-> c] \in connections'[k].pending
             /\ connections'[k].reader = "off" => tasks'[c].raced
  BY <1>1, <1>4 DEF EndInv, Entered, Holds
<1>5. CASE \E r \in running : RunRequest(r)
  <2>1. PICK r \in running : RunRequest(r)
    BY <1>5
  <2>2. PICK j \in Made : j = r.conn
    BY <1>0, <2>1, RunEffect
  <2>3. Changes(j) /\ SameTable(j) /\ SameState(j) /\ UNCHANGED tasks
    BY <1>0, <2>1, <2>2, RunEffect DEF RunRequest
  <2> QED BY <1>1, <1>4, <2>3 DEF Changes, SameTable, SameState
<1>6. CASE \E u \in Updates : UpdateStep(u)
  BY <1>0, <1>4, <1>6, UpdateEffect
<1> QED BY <1>2, <1>3, <1>5, <1>6, StepCases

LEMMA EndStep ==
  ASSUME EndInv, HostsAssumption, [Next]_vars
  PROVE  EndInv'
<1>1. TypeOK' /\ Placed'
  BY TypeStep DEF EndInv
<1>2. CASE Next
  BY <1>1, <1>2, SilentStep, EnteredStep DEF EndInv
<1>3. CASE UNCHANGED vars
  BY <1>1, <1>3 DEF vars, EndInv, Silent, Entered, Holds, Made
<1> QED BY <1>2, <1>3

\* The end of a connection is told to every call in its table; a call still
\* without an answer read the flag before the end and entered the table after it.
THEOREM WaitersAreTold == Spec => []EndReachesWaiters
<1>1. ASSUME EndInv, NEW c \in Calls, tasks[c].pc = "wait", tasks[c].answer = "none",
             connections[tasks[c].conn].reader = "off"
      PROVE  tasks[c].raced
  <2>1. PICK k \in Made : k = tasks[c].conn
    BY <1>1 DEF EndInv, Placed, Claiming
  <2>2. PICK n \in Nat : n = tasks[c].id
    BY <1>1 DEF EndInv, TypeOK, Tasks
  <2>3. Holds(c, k, n)
    BY <1>1, <2>1, <2>2 DEF Holds, Claiming
  <2> QED BY <1>1, <2>1, <2>3 DEF EndInv, Entered
<1>2. EndInv => EndReachesWaiters
  BY <1>1 DEF EndReachesWaiters
<1>3. Init => EndInv
  <2> SUFFICES ASSUME Init PROVE EndInv
    OBVIOUS
  <2>1. TypeOK /\ Placed
    BY TypeInit, HostsAssumption
  <2>2. Made = {}
    BY DEF Init, Made
  <2> QED BY <2>1, <2>2 DEF EndInv, Silent, Entered
<1>4. EndInv /\ [Next]_vars => EndInv'
  BY EndStep, HostsAssumption
<1> QED BY <1>2, <1>3, <1>4, PTL DEF Spec

-----------------------------------------------------------------------------
(* The client and the settings *)

Crossed == \E u \in Updates : updates[u].crossed

\* As long as no two updates were under way at once, an update knows what is
\* saved, and a client for another host was made too late or is about to be
\* dropped.
Follows ==
  /\ \A u, v \in Updates : InProgress(u) /\ InProgress(v) => u = v
  /\ \A u \in Updates : /\ updates[u].pc = "read" => updates[u].previous = saved
                        /\ updates[u].pc = "saved" => updates[u].to = saved
  /\ client # NoConnection /\ connections[client].host # saved /\ client \notin late =>
       \E u \in Updates : updates[u].pc = "saved" /\ updates[u].previous # updates[u].to

FollowInv == /\ TypeOK /\ Placed
             /\ \A u \in Updates : updates[u].pc = "idle" => ~updates[u].crossed
             /\ ~Crossed => Follows

\* An update crosses another if it finds it under way.
LEMMA FollowByUpdate ==
  ASSUME FollowInv, HostsAssumption, NEW u \in Updates, UpdateStep(u)
  PROVE  /\ \A v \in Updates : updates'[v].pc = "idle" => ~updates'[v].crossed
         /\ ~Crossed' => Follows'
<1>0. TypeOK /\ Placed
  BY DEF FollowInv
<1>1. /\ UNCHANGED <<connections, late>>
      /\ \A v \in Updates \ {u} : updates'[v] = updates[v]
      /\ \A v \in Updates : updates[v].pc = "idle" => ~updates[v].crossed
  BY <1>0, UpdateEffect DEF FollowInv
<1>2. CASE /\ updates[u].pc = "idle" /\ updates'[u].pc = "read"
           /\ updates'[u].previous = saved
           /\ updates'[u].crossed = (\E v \in Updates \ {u} : InProgress(v))
           /\ UNCHANGED <<saved, client>>
  <2>1. ASSUME ~Crossed' PROVE Follows'
    <3>1. \A v \in Updates \ {u} : ~InProgress(v)
      BY <1>2, <2>1 DEF Crossed
    <3>2. \A v \in Updates : updates'[v].crossed => v \in Updates /\ v # u
      BY <2>1 DEF Crossed
    <3>3. ~Crossed
      BY <1>1, <1>2, <2>1 DEF Crossed
    <3>4. Follows
      BY <3>3 DEF FollowInv
    <3>5. ~(\E v \in Updates : updates[v].pc = "saved")
      BY <1>2, <3>1 DEF InProgress
    <3>6. client # NoConnection /\ connections[client].host # saved => client \in late
      BY <3>4, <3>5 DEF Follows
    <3>7. \A v \in Updates : InProgress(v)' => v = u
      BY <1>1, <3>1 DEF InProgress
    <3>8. \A v \in Updates : /\ updates'[v].pc = "read" => updates'[v].previous = saved'
                             /\ updates'[v].pc = "saved" => updates'[v].to = saved'
      BY <1>2, <3>7 DEF InProgress
    <3> QED BY <1>1, <1>2, <3>6, <3>7, <3>8 DEF Follows
  <2> QED BY <1>1, <1>2, <2>1
<1>3. ASSUME updates'[u].pc # "idle", updates'[u].crossed = updates[u].crossed
      PROVE  /\ \A v \in Updates : updates'[v].pc = "idle" => ~updates'[v].crossed
             /\ ~Crossed' => ~Crossed
  <2>1. \A v \in Updates : updates'[v].pc = "idle" => ~updates'[v].crossed
    BY <1>1, <1>3
  <2>2. ~Crossed' => ~Crossed
    <3>1. ASSUME NEW v \in Updates, updates[v].crossed PROVE updates'[v].crossed
      BY <1>1, <1>3, <3>1
    <3> QED BY <3>1 DEF Crossed
  <2> QED BY <2>1, <2>2
<1>4. ASSUME InProgress(u), Follows
      PROVE  \A v \in Updates : InProgress(v) => v = u
  BY <1>4 DEF Follows
<1>5. CASE /\ updates[u].pc = "read" /\ updates'[u].pc = "over"
           /\ updates'[u].crossed = updates[u].crossed
           /\ UNCHANGED <<saved, client>>
  <2>1. ASSUME Follows PROVE Follows'
    <3>1. InProgress(u) /\ \A v \in Updates : InProgress(v) => v = u
      BY <1>4, <1>5, <2>1 DEF InProgress
    <3>2. \A v \in Updates : ~InProgress(v)'
      BY <1>1, <1>5, <3>1 DEF InProgress
    <3>3. ~(\E v \in Updates : updates[v].pc = "saved")
      BY <1>5, <3>1 DEF InProgress
    <3>4. client # NoConnection /\ connections[client].host # saved => client \in late
      BY <2>1, <3>3 DEF Follows
    <3> QED BY <1>1, <1>5, <3>2, <3>4 DEF Follows, InProgress
  <2> QED BY <1>3, <1>5, <2>1 DEF FollowInv
<1>6. CASE /\ updates[u].pc = "read" /\ updates'[u].pc = "saved"
           /\ saved' \in Hosts /\ updates'[u].to = saved'
           /\ updates'[u].previous = updates[u].previous
           /\ updates'[u].crossed = updates[u].crossed
           /\ UNCHANGED client
  <2>1. ASSUME Follows PROVE Follows'
    <3>1. InProgress(u) /\ \A v \in Updates : InProgress(v) => v = u
      BY <1>4, <1>6, <2>1 DEF InProgress
    <3>2. \A v \in Updates : InProgress(v)' => v = u
      BY <1>1, <3>1 DEF InProgress
    <3>3. ~(\E v \in Updates : updates[v].pc = "saved")
      BY <1>6, <3>1 DEF InProgress
    <3>4. updates[u].previous = saved
      BY <1>6, <2>1 DEF Follows
    <3>5. client # NoConnection /\ client \notin late => connections[client].host = updates[u].previous
      BY <2>1, <3>3, <3>4 DEF Follows
    <3>6. client' # NoConnection /\ connections'[client'].host # saved' /\ client' \notin late' =>
            updates'[u].pc = "saved" /\ updates'[u].previous # updates'[u].to
      BY <1>1, <1>6, <3>5
    <3>7. \A v \in Updates : /\ updates'[v].pc = "read" => updates'[v].previous = saved'
                             /\ updates'[v].pc = "saved" => updates'[v].to = saved'
      BY <1>6, <3>2 DEF InProgress
    <3> QED BY <3>2, <3>6, <3>7 DEF Follows
  <2> QED BY <1>3, <1>6, <2>1 DEF FollowInv
<1>7. CASE /\ updates[u].pc = "saved" /\ updates'[u].pc = "over"
           /\ updates'[u].crossed = updates[u].crossed
           /\ UNCHANGED saved
           /\ client' = IF updates[u].previous # updates[u].to THEN NoConnection ELSE client
  <2>1. ASSUME Follows PROVE Follows'
    <3>1. InProgress(u) /\ \A v \in Updates : InProgress(v) => v = u
      BY <1>4, <1>7, <2>1 DEF InProgress
    <3>2. \A v \in Updates : ~InProgress(v)'
      BY <1>1, <1>7, <3>1 DEF InProgress
    <3>3. \A v \in Updates : updates[v].pc = "saved" => v = u
      BY <3>1 DEF InProgress
    <3>4. client' # NoConnection /\ connections'[client'].host # saved' => client' \in late'
      BY <1>1, <1>7, <2>1, <3>3 DEF Follows
    <3> QED BY <3>2, <3>4 DEF Follows, InProgress
  <2> QED BY <1>3, <1>7, <2>1 DEF FollowInv
<1> QED BY <1>0, <1>2, <1>5, <1>6, <1>7, UpdateEffect

\* A call drops the client, or stores one and notes whether it is too late.
LEMMA FollowByCall ==
  ASSUME TypeOK, Placed, HostsAssumption, NEW c \in Calls, CallStep(c)
  PROVE  /\ UNCHANGED <<saved, updates>>
         /\ \/ client' \in {client, NoConnection} /\ late' = late
            \/ connections'[client'].host # saved => client' \in late'
<1>0. tasks \in [Calls -> Tasks] /\ Home \in Hosts
      /\ tasks[c].answer \in {"none", "ok", "error", "lost"}
  BY DEF TypeOK, HostsAssumption, Tasks
<1>1. UNCHANGED <<saved, updates>>
  BY DEF CallStep, Call, Ensure, Resolve, Connect, ConnectFails, Store, Check, Insert, Send,
         Answered, TimeOut
<1>2. ASSUME NEW result \in {"ok", "error", "lost", "timeout"}, Return(c, result)
      PROVE  client' \in {client, NoConnection}
  BY <1>0, <1>2, ReturnEffect
<1>3. CASE Store(c)
  <2>1. /\ late' = IF connections[client'].host # saved THEN late \cup {client'} ELSE late
        /\ UNCHANGED connections
    BY <1>3 DEF Store
  <2> QED BY <1>1, <2>1
<1>4. CASE ~Store(c)
  <2>1. late' = late
    BY <1>4 DEF CallStep, Call, Ensure, Resolve, Connect, ConnectFails, Check, Insert, Send,
         Answered, TimeOut
  <2>2. CASE Call(c) \/ Ensure(c) \/ Resolve(c) \/ Connect(c) \/ ConnectFails(c) \/ Insert(c)
    BY <1>1, <2>1, <2>2 DEF Call, Ensure, Resolve, Connect, ConnectFails, Insert
  <2>3. CASE Check(c)
    BY <1>1, <1>2, <2>1, <2>3, CheckEffect
  <2>4. CASE Send(c)
    BY <1>1, <1>2, <2>1, <2>4, SendEffect
  <2>5. CASE Answered(c) \/ TimeOut(c)
    BY <1>0, <1>1, <1>2, <2>1, <2>5 DEF Answered, TimeOut
  <2> QED BY <1>4, <2>2, <2>3, <2>4, <2>5 DEF CallStep
<1> QED BY <1>3, <1>4

LEMMA FollowStep ==
  ASSUME FollowInv, HostsAssumption, [Next]_vars
  PROVE  FollowInv'
<1>0. TypeOK /\ Placed /\ TypeOK' /\ Placed'
  BY TypeStep DEF FollowInv
<1>1. CASE \E u \in Updates : UpdateStep(u)
  BY <1>0, <1>1, FollowByUpdate DEF FollowInv
<1>2. ASSUME UNCHANGED <<saved, updates>>,
             \/ client' \in {client, NoConnection} /\ late' = late
             \/ connections'[client'].host # saved => client' \in late',
             \A k \in Made : connections'[k].host = connections[k].host
      PROVE  FollowInv'
  <2>1. Crossed' = Crossed
    BY <1>2 DEF Crossed
  <2>2. ASSUME Follows PROVE Follows'
    <3>1. client # NoConnection => connections'[client].host = connections[client].host
      BY <1>0, <1>2 DEF Placed
    <3>2. client' # NoConnection /\ connections'[client'].host # saved' /\ client' \notin late' =>
            \E u \in Updates : updates'[u].pc = "saved" /\ updates'[u].previous # updates'[u].to
      BY <1>2, <2>2, <3>1 DEF Follows
    <3>3. /\ \A u, v \in Updates : InProgress(u)' /\ InProgress(v)' => u = v
          /\ \A u \in Updates : /\ updates'[u].pc = "read" => updates'[u].previous = saved'
                                /\ updates'[u].pc = "saved" => updates'[u].to = saved'
      BY <1>2, <2>2 DEF Follows, InProgress
    <3> QED BY <3>2, <3>3 DEF Follows
  <2>3. \A u \in Updates : updates'[u].pc = "idle" => ~updates'[u].crossed
    BY <1>2 DEF FollowInv
  <2>4. ~Crossed' => Follows'
    <3>1. ~Crossed' => ~Crossed
      BY <1>2 DEF Crossed
    <3> QED BY <2>2, <3>1 DEF FollowInv
  <2> QED BY <1>0, <2>3, <2>4 DEF FollowInv
<1>3. CASE \E c \in Calls : CallStep(c)
  BY <1>0, <1>2, <1>3, FollowByCall, TableOfCall
<1>4. CASE (\E j \in Made : ConnectionStep(j)) \/ (\E r \in running : RunRequest(r))
  <2>1. UNCHANGED <<saved, updates, client, late>>
    BY <1>4 DEF ConnectionStep, WriteNext, WriterEnds, ReadNext, ReaderEnds, LoseLink, ServeLine,
       ServerEnds, RunRequest
  <2> QED BY <1>0, <1>2, <1>4, <2>1, ConnectionState
<1>5. CASE UNCHANGED vars
  BY <1>2, <1>5 DEF vars
<1> QED BY <1>1, <1>3, <1>4, <1>5, StepCases

\* Once the settings are saved the client is for the host they name, or there is
\* none, unless it was connected while they changed or two updates were under way
\* at once.
THEOREM CallsGoToTheSavedHost == Spec => []ClientFollowsSettings
<1>1. FollowInv => ClientFollowsSettings
  <2> SUFFICES ASSUME FollowInv, client # NoConnection, ~(\E u \in Updates : InProgress(u)), ~Crossed
               PROVE  connections[client].host = saved \/ client \in late
    BY DEF ClientFollowsSettings, Crossed
  <2> QED BY DEF FollowInv, Follows, InProgress
<1>2. Init => FollowInv
  <2> SUFFICES ASSUME Init PROVE FollowInv
    OBVIOUS
  <2>1. TypeOK /\ Placed
    BY TypeInit, HostsAssumption
  <2>2. \A u \in Updates : updates[u].pc = "idle" /\ updates[u].crossed = FALSE
    BY DEF Init, IdleUpdate
  <2>3. client = NoConnection
    BY DEF Init
  <2> QED BY <2>1, <2>2, <2>3 DEF FollowInv, Follows, InProgress
<1>3. FollowInv /\ [Next]_vars => FollowInv'
  BY FollowStep, HostsAssumption
<1> QED BY <1>1, <1>2, <1>3, PTL DEF Spec
=============================================================================
