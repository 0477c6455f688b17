----------------------- MODULE AppServerSessionProofs -----------------------
(***************************************************************************)
(* Theorems about AppServerSession, for any workspaces, threads, roots and *)
(* server output: its types, every property its run checks, and that it    *)
(* implements RequestTable; and, in the second part, about the background  *)
(* prompts composed with it, for any number of prompts.                    *)
(*                                                                         *)
(* All rest on CInv, what the parties of the conversation know of each     *)
(* other: ids are drawn in order and the server answers what was written   *)
(* (AskedOnce), whoever waits is listed (PendingIsExact), an answer names  *)
(* the thread its request was about or started (ServerIsTruthful), and a   *)
(* thread is started once (StartedOnce).  On top of it each property of    *)
(* the routing has a strengthening of its own: RoutesAreKept follows a     *)
(* request's context from the table into the reader, RoutesAreJustified    *)
(* the reason of a route through the answer or the item that carries it,   *)
(* MemoryIsHidden the start of a memory thread through the output.         *)
(*                                                                         *)
(* A step is first brought to its footprint (the lemmas named so), or to   *)
(* what it does to the output (AnswerSays, AnnounceSays); steps outside    *)
(* the footprint of a conjunct keep it together.                           *)
(***************************************************************************)
EXTENDS BackgroundPrompt, SequenceTheorems, TLAPS

(* Messages and output *)

\* Requests are numbers, and none is NoRequest.
LEMMA RequestNumbers == Requests \subseteq Nat /\ NoRequest \notin Requests
  BY SessionAssumption DEF Requests, NoRequest

\* What a server says has the type of a message.
LEMMA MessageTypes ==
  ASSUME NEW id \in Requests \cup {NoRequest}, NEW m \in MessageMethods,
         NEW t \in Threads \cup {NoThread}, NEW ts \in SUBSET Threads,
         m = "background" => t \in Threads
  PROVE  Message(id, m, t, ts) \in Said
  BY DEF Message, Said

\* An exchange of one or two messages.
LEMMA Utterances ==
  ASSUME NEW S, NEW x \in S, NEW y \in S
  PROVE  /\ <<x>> \in Seq(S) /\ Len(<<x>>) = 1 /\ <<x>>[1] = x
         /\ <<x>> \o <<>> = <<x>>
         /\ <<x>> \o <<y>> \in Seq(S)
         /\ Len(<<x>> \o <<y>>) = 2
         /\ (<<x>> \o <<y>>)[1] = x
         /\ (<<x>> \o <<y>>)[2] = y
<1>1. <<x>> \in Seq(S) /\ <<y>> \in Seq(S) /\ Len(<<x>>) = 1 /\ Len(<<y>>) = 1
      /\ <<x>>[1] = x /\ <<y>>[1] = y
  OBVIOUS
<1>2. /\ <<x>> \o <<y>> \in Seq(S)
      /\ Len(<<x>> \o <<y>>) = 2
      /\ \A i \in 1..2 : (<<x>> \o <<y>>)[i] = IF i <= 1 THEN <<x>>[i] ELSE <<y>>[i - 1]
  BY <1>1, ConcatProperties
<1> QED BY <1>1, <1>2, ConcatEmptySeq

\* What an answer does to the output and to the created threads: ms are the
\* answer and, when a thread gets archived, its event.
AnswerEffect(r, t, ts, ms) ==
    /\ t # NoThread =>
         \/ /\ call[r].method = "start"
            /\ t \notin created \cup MemoryThreads
            /\ created' = created \cup {t}
            /\ starter' = [starter EXCEPT ![t] = call[r].ws]
         \/ /\ call[r].method = "use"
            /\ t = call[r].thread
            /\ UNCHANGED <<created, starter>>
    /\ t = NoThread => UNCHANGED <<created, starter>>
    /\ outbox' = outbox \o ms
    /\ ms[1] = Message(r, call[r].method, t, ts)
    /\ \/ Len(ms) = 1
       \/ /\ Len(ms) = 2
          /\ call[r].method = "archive"
          /\ ms[2] = Event("archived", call[r].thread, {})

LEMMA AnswerSays ==
  ASSUME TypeOK, NEW r \in Requests, Answer(r)
  PROVE  \E t \in Threads \cup {NoThread}, ts \in SUBSET Threads, ms \in Seq(Said) :
            AnswerEffect(r, t, ts, ms)
<1>1. PICK t \in Threads \cup {NoThread}, ts \in SUBSET created, ok \in BOOLEAN :
         LET m == call[r].method IN
          /\ t # NoThread => /\ m = "start" => t \notin created \cup MemoryThreads
                             /\ m = "use" => t = call[r].thread
                             /\ m \in {"start", "use"}
          /\ IF m = "start" /\ t # NoThread
             THEN /\ created' = created \cup {t}
                  /\ starter' = [starter EXCEPT ![t] = call[r].ws]
             ELSE UNCHANGED <<created, starter>>
          /\ outbox' = outbox \o (<<Message(r, m, t, ts)>> \o
                  (IF m = "archive" /\ ok
                   THEN <<Event("archived", call[r].thread, {})>> ELSE <<>>))
  BY DEF Answer, Says
<1>2. call[r] \in Requested /\ ts \in SUBSET Threads /\ t \in Threads \cup {NoThread}
  BY DEF TypeOK
<1>3. call[r].method \in MessageMethods /\ call[r].method # "background"
      /\ call[r].thread \in Threads \cup {NoThread}
  BY <1>2 DEF Requested, MessageMethods, AllMethods
<1>4. Message(r, call[r].method, t, ts) \in Said
  BY <1>2, <1>3, MessageTypes
<1>5. Event("archived", call[r].thread, {}) \in Said
  BY <1>3, MessageTypes DEF Event, MessageMethods
<1> DEFINE x == Message(r, call[r].method, t, ts)
           y == Event("archived", call[r].thread, {})
           ms == IF call[r].method = "archive" /\ ok THEN <<x>> \o <<y>> ELSE <<x>>
<1>6. /\ ms \in Seq(Said) /\ ms[1] = x
      /\ \/ Len(ms) = 1
         \/ Len(ms) = 2 /\ call[r].method = "archive" /\ ms[2] = y
  BY <1>4, <1>5, Utterances
<1>7. outbox' = outbox \o ms
  <2>1. <<x>> \o <<>> = <<x>>
    BY <1>4, Utterances
  <2> QED BY <1>1, <2>1
<1> HIDE DEF ms
<1>8. AnswerEffect(r, t, ts, ms)
  BY <1>1, <1>6, <1>7 DEF AnswerEffect
<1> QED BY <1>2, <1>6, <1>8

\* What an announcement does: one event, about a thread unless it is about the
\* account; only a memory thread starts unasked.
AnnounceEffect(m, t, ts) ==
    /\ Event(m, t, ts) \in Said
    /\ outbox' = outbox \o <<Event(m, t, ts)>>
    /\ \/ m = "account" /\ t = NoThread /\ UNCHANGED created
       \/ /\ m = "started" /\ t \in MemoryThreads \ created
          /\ created' = created \cup {t}
       \/ /\ m = "item" /\ t \in created
          /\ \E s \in Threads \ MemoryThreads : created' = created \cup {s}
       \/ /\ m \in {"delta", "completed", "failed", "background"}
          /\ t \in created /\ UNCHANGED created

LEMMA AnnounceSays ==
  ASSUME TypeOK, NEW m \in Announcements, Announce(m)
  PROVE  \E t \in Threads \cup {NoThread}, ts \in SUBSET Threads : AnnounceEffect(m, t, ts)
<1>1. m \in MessageMethods /\ created \subseteq Threads
  BY SessionAssumption DEF MessageMethods, TypeOK
<1>2. CASE m = "account" /\ Says(<<Event(m, NoThread, {})>>) /\ UNCHANGED created
  <2>1. Event(m, NoThread, {}) \in Said
    BY <1>1, <1>2, MessageTypes DEF Event
  <2>2. AnnounceEffect(m, NoThread, {})
    BY <1>2, <2>1 DEF AnnounceEffect, Says
  <2> QED BY <2>2
<1>3. CASE m = "started" /\ \E t \in MemoryThreads \ created :
                created' = created \cup {t} /\ Says(<<Event(m, t, {})>>)
  <2>1. PICK t \in MemoryThreads \ created :
                created' = created \cup {t} /\ Says(<<Event(m, t, {})>>)
    BY <1>3
  <2>2. t \in Threads
    BY SessionAssumption
  <2>3. Event(m, t, {}) \in Said
    BY <1>1, <2>2, MessageTypes DEF Event
  <2>4. AnnounceEffect(m, t, {})
    BY <1>3, <2>1, <2>3 DEF AnnounceEffect, Says
  <2> QED BY <2>2, <2>4
<1>4. CASE m = "item" /\ \E t \in created, s \in Threads \ MemoryThreads :
                created' = created \cup {s} /\ Says(<<Event(m, t, {s})>>)
  <2>1. PICK t \in created, s \in Threads \ MemoryThreads :
                created' = created \cup {s} /\ Says(<<Event(m, t, {s})>>)
    BY <1>4
  <2>2. t \in Threads /\ {s} \in SUBSET Threads
    BY <1>1
  <2>3. Event(m, t, {s}) \in Said
    BY <1>1, <2>2, <1>4, MessageTypes DEF Event
  <2>4. AnnounceEffect(m, t, {s})
    BY <1>4, <2>1, <2>3 DEF AnnounceEffect, Says
  <2> QED BY <2>2, <2>4
<1>5. CASE m \in {"delta", "completed", "failed", "background"}
           /\ (\E t \in created : Says(<<Event(m, t, {})>>)) /\ UNCHANGED created
  <2>1. PICK t \in created : Says(<<Event(m, t, {})>>)
    BY <1>5
  <2>2. t \in Threads
    BY <1>1
  <2>3. Event(m, t, {}) \in Said
    BY <1>1, <2>2, MessageTypes DEF Event
  <2>4. AnnounceEffect(m, t, {})
    BY <1>5, <2>1, <2>3 DEF AnnounceEffect, Says
  <2> QED BY <2>2, <2>4
<1> QED BY <1>2, <1>3, <1>4, <1>5 DEF Announce
-----------------------------------------------------------------------------
(* Types *)

\* A stage changed, and a request recorded.
LEMMA CallTypes ==
  ASSUME call \in [Requests -> Requested], NEW r \in Requests
  PROVE  /\ \A s \in Stages : [call EXCEPT ![r].stage = s] \in [Requests -> Requested]
         /\ \A s \in Stages, w \in Workspaces, m \in AllMethods, t \in Threads \cup {NoThread} :
              [call EXCEPT ![r] = [stage |-> s, ws |-> w, method |-> m, thread |-> t]]
                \in [Requests -> Requested]
         /\ \A t \in Threads \cup {NoThread} :
              [call EXCEPT ![r].stage = "answered", ![r].thread = t] \in [Requests -> Requested]
         /\ [call[r] EXCEPT !.stage = "canceled"] \in Requested
<1>1. ASSUME NEW t \in Threads \cup {NoThread}
      PROVE  [call EXCEPT ![r].stage = "answered", ![r].thread = t] \in [Requests -> Requested]
  <2>1. "answered" \in Stages
    BY DEF Stages, Ended
  <2>2. [call EXCEPT ![r].stage = "answered"] \in [Requests -> Requested]
    BY <2>1 DEF Requested
  <2>3. \A f \in [Requests -> Requested] : [f EXCEPT ![r].thread = t] \in [Requests -> Requested]
    BY DEF Requested
  <2>4. [call EXCEPT ![r].stage = "answered", ![r].thread = t]
          = [[call EXCEPT ![r].stage = "answered"] EXCEPT ![r].thread = t]
    OBVIOUS
  <2> QED BY <2>2, <2>3, <2>4
<1>2. [call[r] EXCEPT !.stage = "canceled"] \in Requested
  BY DEF Requested, Stages, Ended
<1>3. \A s \in Stages : [call EXCEPT ![r].stage = s] \in [Requests -> Requested]
  BY DEF Requested
<1>4. \A s \in Stages, w \in Workspaces, m \in AllMethods, t \in Threads \cup {NoThread} :
              [call EXCEPT ![r] = [stage |-> s, ws |-> w, method |-> m, thread |-> t]]
                \in [Requests -> Requested]
  BY DEF Requested
<1> QED BY <1>1, <1>2, <1>3, <1>4

LEMMA InitTypes == Init => TypeOK
<1> SUFFICES ASSUME Init PROVE TypeOK
  OBVIOUS
<1>1. Unsent \in Requested /\ NoMessage \in Said /\ <<>> \in Seq(Said)
  BY DEF Unsent, Requested, Stages, NoMessage, Event, Message, Said, MessageMethods
<1>2. 1 \in 1 .. MaxRequests + 1
  BY SessionAssumption
<1> QED BY <1>1, <1>2, SessionAssumption DEF Init, TypeOK, ReaderPcs

LEMMA CallerTypes ==
  ASSUME TypeOK,
         NEW r \in Requests,
         \/ \E w \in Workspaces, m \in Methods : Ask(r, w, m)
         \/ Caller(r) \/ Timeout(r) \/ Abandon(r)
  PROVE  TypeOK'
<1> USE SessionAssumption DEF TypeOK
<1>1. ASSUME NEW w \in Workspaces, NEW m \in Methods, Ask(r, w, m) PROVE TypeOK'
  <2>1. PICK t \in Threads \cup {NoThread} : Call(r, w, m, t)
    BY <1>1 DEF Ask
  <2>2. call' \in [Requests -> Requested]
    BY <2>1, CallTypes DEF Call, Stages
  <2>3. nextId' \in 1 .. MaxRequests + 1
    BY <2>1 DEF Call, Requests
  <2> QED BY <2>1, <2>2, <2>3 DEF Call, server
<1>2. CASE InsertPending(r)
  BY <1>2, CallTypes DEF InsertPending, SetStage, Stages, server
<1>3. CASE InsertContext(r)
  <2>1. call' \in [Requests -> Requested]
    BY <1>3, CallTypes DEF InsertContext, SetStage, Stages
  <2>2. call[r].ws \in Workspaces \cup {NoWorkspace}
    BY DEF Requested
  <2> QED BY <1>3, <2>1, <2>2 DEF InsertContext, server
<1>4. CASE WriteOk(r)
  BY <1>4, CallTypes DEF WriteOk, SetStage, Stages, Ended, tables
<1>5. CASE WriteFails(r)
  BY <1>5, CallTypes DEF WriteFails, Forget, SetStage, Stages, Ended, server
<1>6. CASE Timeout(r)
  BY <1>6, CallTypes DEF Timeout, Forget, SetStage, Stages, Ended, server
<1>7. CASE Abandon(r)
  BY <1>7, CallTypes DEF Abandon, SetStage, Stages, Ended, tables, server
<1> QED BY <1>1, <1>2, <1>3, <1>4, <1>5, <1>6, <1>7 DEF Caller

LEMMA SharerTypes ==
  ASSUME TypeOK, NEW w \in Sharers, Register(w) \/ Unregister(w)
  PROVE  TypeOK'
  BY SessionAssumption DEF TypeOK, Register, Unregister, server

LEMMA ReaderTypes == TypeOK /\ Reader => TypeOK'
<1> SUFFICES ASSUME TypeOK, Reader PROVE TypeOK'
  OBVIOUS
<1> USE SessionAssumption DEF TypeOK
<1>m. /\ reader.msg \in Said /\ reader.msg.thread \in Threads \cup {NoThread}
      /\ reader.msg.id \in Requests \cup {NoRequest}
  BY DEF Said
<1>r. \A t \in Threads \cup {NoThread} : RouteOf(t) \in Workspaces
  BY DEF RouteOf
<1>1. CASE ReadLine
  <2>1. Head(outbox) \in Said /\ Tail(outbox) \in Seq(Said)
    BY <1>1, HeadTailProperties DEF ReadLine
  <2>2. (IF Head(outbox).id \in context THEN call[Head(outbox).id].ws ELSE NoWorkspace)
          \in Workspaces \cup {NoWorkspace}
    BY DEF Requested
  <2> QED BY <1>1, <2>1, <2>2 DEF ReadLine, ReaderPcs
<1>2. CASE Attribute
  BY <1>2 DEF Attribute, Goto, ReaderPcs, server
<1>3. CASE Deliver
  <2>1. call' \in [Requests -> Requested]
    <3>1. \A r \in Requests, t \in Threads \cup {NoThread} :
             [call EXCEPT ![r].stage = "answered", ![r].thread = t] \in [Requests -> Requested]
      BY CallTypes
    <3>2. pending \subseteq Requests /\ call \in [Requests -> Requested]
      OBVIOUS
    <3>3. CASE reader.msg.thread = NoThread /\ reader.msg.id \in pending
      <4>1. call[reader.msg.id].thread \in Threads \cup {NoThread}
        BY <3>2, <3>3 DEF Requested
      <4> QED BY <1>3, <3>1, <3>2, <3>3, <4>1 DEF Deliver
    <3>4. CASE reader.msg.thread # NoThread /\ reader.msg.id \in pending
      BY <1>3, <3>1, <3>2, <3>4, <1>m DEF Deliver
    <3>5. CASE reader.msg.id \notin pending
      BY <1>3, <3>2, <3>5 DEF Deliver
    <3> QED BY <3>3, <3>4, <3>5
  <2> QED BY <1>3, <2>1 DEF Deliver, NextLine, Goto, ReaderPcs, server
<1>4. CASE HideMemoryThread
  BY <1>4 DEF HideMemoryThread, IsMemoryStart, NextLine, Goto, ReaderPcs, tables, server
<1>5. CASE Suppress
  BY <1>5 DEF Suppress, NextLine, Goto, ReaderPcs, tables, server
<1>6. CASE Route
  <2>1. reader.msg.method = "background" => reader.msg.thread \in Threads
    BY <1>m DEF Said
  <2>2. RouteOf(reader.msg.thread) \in Workspaces
    BY <1>m, <1>r
  <2> QED BY <1>6, <2>1, <2>2 DEF Route, ReaderPcs, server
<1>7. CASE NoteItem
  BY <1>7 DEF NoteItem, Goto, ReaderPcs
<1>8. CASE NoteArchived
  BY <1>8 DEF NoteArchived, Goto, ReaderPcs, server
<1>9. CASE EmitEvent
  BY <1>9 DEF EmitEvent, NextLine, Goto, ReaderPcs, server
<1>10. CASE EndPending
  <2>1. \A r \in Requests : [call[r] EXCEPT !.stage = "canceled"] \in Requested
    BY CallTypes
  <2>2. call' \in [Requests -> Requested]
    BY <1>10, <2>1 DEF EndPending
  <2> QED BY <1>10, <2>2 DEF EndPending, Goto, ReaderPcs, server
<1>11. CASE EndContext
  BY <1>11 DEF EndContext, Goto, ReaderPcs, server
<1> QED BY <1>1, <1>2, <1>3, <1>4, <1>5, <1>6, <1>7, <1>8, <1>9, <1>10, <1>11 DEF Reader

LEMMA ServerTypes == TypeOK /\ Server => TypeOK'
<1> SUFFICES ASSUME TypeOK, Server PROVE TypeOK'
  OBVIOUS
<1> USE SessionAssumption DEF TypeOK
<1>1. ASSUME NEW r \in Requests, Answer(r) PROVE TypeOK'
  <2>1. PICK t \in Threads \cup {NoThread}, ts \in SUBSET Threads, ms \in Seq(Said) :
           AnswerEffect(r, t, ts, ms)
    BY <1>1, AnswerSays
  <2>2. outbox' \in Seq(Said)
    BY <2>1, ConcatProperties DEF AnswerEffect
  <2>3. created' \subseteq Threads /\ starter' \in [Threads -> Workspaces \cup {NoWorkspace}]
    BY <2>1 DEF AnswerEffect, Requested
  <2> QED BY <1>1, <2>2, <2>3 DEF Answer, Says, tables
<1>2. ASSUME NEW m \in Announcements, Announce(m) PROVE TypeOK'
  <2>1. PICK t \in Threads \cup {NoThread}, ts \in SUBSET Threads : AnnounceEffect(m, t, ts)
    BY <1>2, AnnounceSays
  <2>2. outbox' \in Seq(Said)
    BY <2>1, Utterances, ConcatProperties DEF AnnounceEffect
  <2>3. created' \subseteq Threads
    BY <2>1 DEF AnnounceEffect
  <2> QED BY <1>2, <2>2, <2>3 DEF Announce, tables
<1>3. CASE Exit
  BY <1>3 DEF Exit, tables
<1> QED BY <1>1, <1>2, <1>3 DEF Server

\* Every step keeps the types.
LEMMA StepTypes == TypeOK /\ [Next]_vars => TypeOK'
<1>1. TypeOK /\ UNCHANGED vars => TypeOK'
  BY DEF TypeOK, vars, tables, server
<1> QED BY <1>1, CallerTypes, SharerTypes, ReaderTypes, ServerTypes DEF Next

\* The tables, the callers, the reader and the server keep their types: what
\* WorkspaceSession holds, for any workspaces, threads and output.
THEOREM TypeCorrect == Spec => []TypeOK
  BY InitTypes, StepTypes, PTL DEF Spec

-----------------------------------------------------------------------------
(* The conversation *)

Early == {"unused", "called", "listed", "ready"}

\* Ids are drawn in order, and the server answers what was written, once.
AskedOnce ==
    /\ \A r \in Requests :
          IF r < nextId
          THEN /\ call[r].ws \in Workspaces
               /\ call[r].method \in AllMethods
               /\ Stage(r) # "unused"
          ELSE call[r] = Unsent
    /\ \A r \in received \cup answered : Stage(r) \notin Early
    /\ received \cap answered = {}

\* An archive request for the thread has been answered.
Archived(t) ==
    \E q \in answered : call[q].method = "archive" /\ call[q].thread = t

\* What the server may say: an answer to a request it has answered, which names
\* the thread it was about or the one it started; that a thread is archived,
\* when it was asked to archive it.
Truthful ==
    {m \in Said :
        /\ m.id # NoRequest =>
              /\ m.id \in answered
              /\ m.method \in AllMethods
              /\ m.thread # NoThread =>
                    \/ call[m.id].method = "use" /\ call[m.id].thread = m.thread
                    \/ call[m.id].method = "start" /\ starter[m.thread] = call[m.id].ws
        /\ m.method = "archived" => Archived(m.thread)}

ServerIsTruthful ==
    /\ reader.msg \in Truthful
    /\ outbox \in Seq(Truthful)

\* A thread is started once, for the workspace that asked.
StartedOnce ==
    /\ \A r \in Requests :
          call[r].method = "start" /\ call[r].thread # NoThread =>
             starter[call[r].thread] = call[r].ws
    /\ \A t \in Threads : starter[t] # NoWorkspace => t \in created

CInv == TypeOK /\ PendingIsExact /\ AskedOnce /\ ServerIsTruthful /\ StartedOnce

\* Only these steps touch the calls, the waiting requests and what the server
\* received and answered.
LEMMA CallFootprint ==
  ASSUME [Next]_vars
  PROVE  \/ \E r \in Requests, w \in Workspaces, m \in Methods : Ask(r, w, m)
         \/ \E r \in Requests : Caller(r) \/ Timeout(r) \/ Abandon(r) \/ Answer(r)
         \/ Deliver \/ EndPending
         \/ UNCHANGED <<nextId, call, pending, received, answered>>
<1>1. CASE \E w \in Sharers : Register(w) \/ Unregister(w)
  BY <1>1 DEF Register, Unregister, server
<1>2. CASE ReadLine \/ Attribute \/ HideMemoryThread \/ Suppress \/ Route
  BY <1>2 DEF ReadLine, Attribute, HideMemoryThread, Suppress, Route, tables, server
<1>3. CASE NoteItem \/ NoteArchived \/ EmitEvent \/ EndContext
  BY <1>3 DEF NoteItem, NoteArchived, EmitEvent, EndContext, server
<1>4. CASE (\E m \in Announcements : Announce(m)) \/ Exit
  BY <1>4 DEF Announce, Exit, tables
<1>5. CASE UNCHANGED vars
  BY <1>5 DEF vars, tables, server
<1> QED BY <1>1, <1>2, <1>3, <1>4, <1>5 DEF Next, Reader, Server

\* A delivered answer reaches a caller that waits, or nobody.
LEMMA DeliverEffect ==
  ASSUME TypeOK, Deliver
  PROVE  /\ pending' = pending \ {reader.msg.id}
         /\ UNCHANGED <<nextId, context, threadWorkspace, hidden, emitted, received, answered,
                        outbox, created, starter, family, roots>>
         /\ reader' = [reader EXCEPT !.at = "line"]
         /\ \A r \in Requests : r # reader.msg.id => call'[r] = call[r]
         /\ \/ call' = call /\ ~(reader.msg.id \in pending /\ Stage(reader.msg.id) = "waiting")
            \/ /\ reader.msg.id \in pending
               /\ reader.msg.id \in Requests
               /\ Stage(reader.msg.id) = "waiting"
               /\ call'[reader.msg.id] =
                    [stage |-> "answered", ws |-> call[reader.msg.id].ws,
                     method |-> call[reader.msg.id].method,
                     thread |-> IF reader.msg.thread = NoThread
                                THEN call[reader.msg.id].thread ELSE reader.msg.thread]
<1>1. pending \subseteq Requests /\ call \in [Requests -> Requested]
  BY DEF TypeOK
<1> DEFINE n == reader.msg.id
<1>2. CASE n \in pending /\ Stage(n) = "waiting"
  <2>1. n \in Requests /\ call[n] \in Requested
    BY <1>1, <1>2
  <2>2. call' = [call EXCEPT ![n].stage = "answered",
                             ![n].thread = IF reader.msg.thread = NoThread
                                           THEN @ ELSE reader.msg.thread]
    BY <1>2 DEF Deliver
  <2>3. /\ \A r \in Requests : r # n => call'[r] = call[r]
        /\ call'[n] = [call[n] EXCEPT !.stage = "answered",
                                      !.thread = IF reader.msg.thread = NoThread
                                                 THEN @ ELSE reader.msg.thread]
    BY <1>1, <2>1, <2>2
  <2>4. call'[n] = [stage |-> "answered", ws |-> call[n].ws, method |-> call[n].method,
                    thread |-> IF reader.msg.thread = NoThread
                               THEN call[n].thread ELSE reader.msg.thread]
    BY <2>1, <2>3 DEF Requested
  <2> QED BY <1>2, <2>1, <2>3, <2>4 DEF Deliver, NextLine, Goto, server
<1>3. CASE ~(n \in pending /\ Stage(n) = "waiting")
  BY <1>3 DEF Deliver, NextLine, Goto, server
<1> QED BY <1>2, <1>3

\* A new request was unused.
LEMMA AskEffect ==
  ASSUME TypeOK, AskedOnce, NEW q \in Requests, NEW w \in Workspaces, NEW m \in Methods,
         Ask(q, w, m)
  PROVE  /\ call[q] = Unsent /\ q = nextId /\ m \in AllMethods
         /\ \E t \in Threads \cup {NoThread} : Call(q, w, m, t)
<1>1. PICK t \in Threads \cup {NoThread} : Call(q, w, m, t)
  BY DEF Ask, TypeOK
<1>2. q = nextId /\ q \in Nat
  BY <1>1, RequestNumbers DEF Call
<1> QED BY <1>1, <1>2, SessionAssumption DEF AskedOnce

\* What every step may do to a request: its ws and method stay once it is
\* asked, and its thread, but for the one a start is told.
LEMMA CallsAreKept ==
  ASSUME TypeOK, AskedOnce, reader.msg \in Truthful, [Next]_vars
  PROVE  /\ nextId' \in {nextId, nextId + 1}
         /\ \A r \in Requests :
              Stage(r) # "unused" =>
                 /\ call'[r].ws = call[r].ws
                 /\ call'[r].method = call[r].method
                 /\ \/ call'[r].thread = call[r].thread
                    \/ call[r].method = "start"
         /\ answered \subseteq answered'
<1>t. call \in [Requests -> Requested]
  BY DEF TypeOK
<1>1. ASSUME NEW q \in Requests, NEW w \in Workspaces, NEW m \in Methods, Ask(q, w, m)
      PROVE  /\ nextId' = nextId + 1 /\ answered' = answered
             /\ \A r \in Requests : Stage(r) # "unused" => call'[r] = call[r]
  BY <1>1, <1>t, AskEffect DEF Call, server, Unsent, Stage
<1>2. ASSUME NEW q \in Requests, Caller(q) \/ Timeout(q) \/ Abandon(q)
      PROVE  /\ nextId' = nextId /\ answered' = answered
             /\ \E s \in Stages : call' = [call EXCEPT ![q].stage = s]
  BY <1>2 DEF Caller, InsertPending, InsertContext, WriteOk, WriteFails, Timeout, Abandon,
     SetStage, server, tables, Stages, Ended
<1>3. ASSUME NEW q \in Requests, Caller(q) \/ Timeout(q) \/ Abandon(q), NEW r \in Requests
      PROVE  call'[r].ws = call[r].ws /\ call'[r].method = call[r].method
             /\ call'[r].thread = call[r].thread
  BY <1>2, <1>3, <1>t DEF Requested
<1>4. CASE Deliver
  BY <1>4, <1>t, DeliverEffect, RequestNumbers DEF Truthful
<1>5. CASE EndPending
  BY <1>5, <1>t DEF EndPending, server, Requested
<1>6. ASSUME NEW q \in Requests, Answer(q)
      PROVE  nextId' = nextId /\ call' = call /\ answered \subseteq answered'
  BY <1>6 DEF Answer
<1> QED BY <1>1, <1>2, <1>3, <1>4, <1>5, <1>6, CallFootprint

LEMMA PendingKept ==
  ASSUME TypeOK, PendingIsExact, AskedOnce, [Next]_vars
  PROVE  PendingIsExact'
<1>t. call \in [Requests -> Requested] /\ pending \subseteq Requests
  BY DEF TypeOK
<1> USE DEF PendingIsExact, Stage
<1>1. ASSUME NEW q \in Requests, NEW w \in Workspaces, NEW m \in Methods, Ask(q, w, m)
      PROVE  PendingIsExact'
  BY <1>1, <1>t, AskEffect DEF Call, server, Unsent
<1>2. ASSUME NEW q \in Requests, InsertPending(q) \/ InsertContext(q)
      PROVE  PendingIsExact'
  BY <1>2, <1>t DEF InsertPending, InsertContext, SetStage, Requested
<1>3. ASSUME NEW q \in Requests, WriteOk(q) \/ Abandon(q)
      PROVE  PendingIsExact'
  BY <1>3, <1>t DEF WriteOk, Abandon, SetStage, tables, Requested
<1>4. ASSUME NEW q \in Requests, WriteFails(q) \/ Timeout(q)
      PROVE  PendingIsExact'
  BY <1>4, <1>t DEF WriteFails, Timeout, Forget, SetStage, Requested
<1>5. CASE Deliver
  BY <1>5, <1>t, DeliverEffect
<1>6. CASE EndPending
  BY <1>6, <1>t DEF EndPending, Requested
<1>7. ASSUME NEW q \in Requests, Answer(q) PROVE PendingIsExact'
  BY <1>7 DEF Answer, tables
<1>8. CASE UNCHANGED <<nextId, call, pending, received, answered>>
  BY <1>8
<1> QED BY <1>1, <1>2, <1>3, <1>4, <1>5, <1>6, <1>7, <1>8, CallFootprint DEF Caller

LEMMA AskedKept ==
  ASSUME TypeOK, AskedOnce, [Next]_vars
  PROVE  AskedOnce'
<1>t. /\ call \in [Requests -> Requested] /\ nextId \in Nat /\ Requests \subseteq Nat
      /\ received \subseteq Requests /\ answered \subseteq Requests
  BY RequestNumbers, SessionAssumption DEF TypeOK
<1> USE DEF AskedOnce, Stage
<1>1. ASSUME NEW q \in Requests, NEW w \in Workspaces, NEW m \in Methods, Ask(q, w, m)
      PROVE  AskedOnce'
  <2>1. PICK t \in Threads \cup {NoThread} : Call(q, w, m, t)
    BY <1>1, AskEffect
  <2>2. m \in AllMethods
    BY SessionAssumption
  <2>3. q \notin received \cup answered
    BY <2>1, <1>t DEF Call, Unsent, Early
  <2> QED BY <2>1, <2>2, <2>3, <1>t DEF Call, server
<1>2. ASSUME NEW q \in Requests, NEW s \in Stages, call' = [call EXCEPT ![q].stage = s],
             s # "unused", s \in Early => q \notin received \cup answered,
             Stage(q) # "unused",
             UNCHANGED <<nextId, answered>>,
             \/ received' = received
             \/ received' = received \cup {q} /\ s \notin Early /\ q \notin answered
      PROVE  AskedOnce'
  <2>1. q < nextId
    BY <1>2 DEF Unsent
  <2> QED BY <1>2, <2>1, <1>t DEF Requested
<1>3. ASSUME NEW q \in Requests, InsertPending(q)
      PROVE  AskedOnce'
  BY <1>2, <1>3 DEF InsertPending, SetStage, Early, server, Stages
<1>4. ASSUME NEW q \in Requests, InsertContext(q)
      PROVE  AskedOnce'
  BY <1>2, <1>4 DEF InsertContext, SetStage, Early, server, Stages
<1>5. ASSUME NEW q \in Requests, WriteOk(q)
      PROVE  AskedOnce'
  <2>1. PICK s \in {"waiting", "canceled"} : call' = [call EXCEPT ![q].stage = s]
    BY <1>5 DEF WriteOk, SetStage
  <2> QED BY <1>2, <1>5, <2>1 DEF WriteOk, Early, Stages, Ended
<1>6. ASSUME NEW q \in Requests, WriteFails(q) \/ Timeout(q) \/ Abandon(q)
      PROVE  AskedOnce'
  BY <1>2, <1>6 DEF WriteFails, Timeout, Abandon, SetStage, Early, server, Stages, Ended
<1>7. CASE Deliver
  BY <1>7, <1>t, DeliverEffect DEF Unsent, Early
<1>8. CASE EndPending
  BY <1>8, <1>t DEF EndPending, Requested, Unsent, Early, server
<1>9. ASSUME NEW q \in Requests, Answer(q) PROVE AskedOnce'
  BY <1>9, <1>t DEF Answer
<1>10. CASE UNCHANGED <<nextId, call, pending, received, answered>>
  BY <1>10
<1> QED BY <1>1, <1>3, <1>4, <1>5, <1>6, <1>7, <1>8, <1>9, <1>10, CallFootprint DEF Caller

\* A thread's starter is the workspace that asked, from its creation on.
LEMMA StartersAreKept ==
  ASSUME CInv, [Next]_vars
  PROVE  \A t \in Threads : starter[t] # NoWorkspace => starter'[t] = starter[t]
<1>1. ASSUME NEW r \in Requests, Answer(r)
      PROVE  \A t \in Threads : starter[t] # NoWorkspace => starter'[t] = starter[t]
  <2>1. PICK t \in Threads \cup {NoThread}, ts \in SUBSET Threads, ms \in Seq(Said) :
           AnswerEffect(r, t, ts, ms)
    BY <1>1, AnswerSays DEF CInv
  <2> QED BY <2>1 DEF AnswerEffect, CInv, StartedOnce, TypeOK
<1>2. CASE \E r \in Requests : Caller(r) \/ Timeout(r) \/ Abandon(r)
  BY <1>2 DEF Caller, InsertPending, InsertContext, WriteOk, WriteFails, Timeout, Abandon, server
<1>3. CASE \E r \in Requests, w \in Workspaces, m \in Methods : Ask(r, w, m)
  BY <1>3 DEF Ask, Call, server
<1>4. CASE \E w \in Sharers : Register(w) \/ Unregister(w)
  BY <1>4 DEF Register, Unregister, server
<1>5. CASE Reader
  BY <1>5 DEF Reader, ReadLine, Attribute, Deliver, HideMemoryThread, Suppress, Route, NoteItem,
     NoteArchived, EmitEvent, EndPending, EndContext, server
<1>6. CASE (\E m \in Announcements : Announce(m)) \/ Exit
  BY <1>6 DEF Announce, Exit
<1>7. CASE UNCHANGED vars
  BY <1>7 DEF vars, server
<1> QED BY <1>1, <1>2, <1>3, <1>4, <1>5, <1>6, <1>7 DEF Next, Server

\* An answered archive stays answered.
LEMMA ArchivedIsKept ==
  ASSUME CInv, [Next]_vars, NEW t
  PROVE  Archived(t) => Archived(t)'
<1>1. \A q \in answered : q \in Requests /\ Stage(q) # "unused"
  BY DEF CInv, TypeOK, AskedOnce, Early
<1> QED BY <1>1, CallsAreKept DEF CInv, ServerIsTruthful, Archived

\* What was truthful stays truthful.
LEMMA TruthIsKept ==
  ASSUME CInv, [Next]_vars
  PROVE  Truthful \subseteq Truthful'
<1> SUFFICES ASSUME NEW m \in Truthful PROVE m \in Truthful'
  OBVIOUS
<1>1. m \in Said /\ (m.method = "archived" => Archived(m.thread)')
  BY ArchivedIsKept DEF Truthful
<1>2. ASSUME m.id # NoRequest
      PROVE  /\ m.id \in answered'
             /\ m.method \in AllMethods
             /\ m.thread # NoThread =>
                    \/ call'[m.id].method = "use" /\ call'[m.id].thread = m.thread
                    \/ call'[m.id].method = "start" /\ starter'[m.thread] = call'[m.id].ws
  <2>1. /\ m.id \in answered /\ m.method \in AllMethods
        /\ m.thread # NoThread =>
                    \/ call[m.id].method = "use" /\ call[m.id].thread = m.thread
                    \/ call[m.id].method = "start" /\ starter[m.thread] = call[m.id].ws
    BY <1>2 DEF Truthful
  <2>2. m.id \in Requests /\ Stage(m.id) # "unused" /\ call[m.id].ws \in Workspaces
    <3>1. m.id \in Requests
      BY <2>1 DEF CInv, TypeOK
    <3>2. Stage(m.id) # "unused"
      BY <2>1 DEF CInv, AskedOnce, Early
    <3> QED BY <3>1, <3>2 DEF CInv, AskedOnce, Unsent, Stage
  <2>3. /\ call'[m.id].ws = call[m.id].ws /\ call'[m.id].method = call[m.id].method
        /\ call'[m.id].thread = call[m.id].thread \/ call[m.id].method = "start"
        /\ answered \subseteq answered'
    BY <2>2, CallsAreKept DEF CInv, ServerIsTruthful
  <2>4. m.thread \in Threads /\ starter[m.thread] # NoWorkspace =>
          starter'[m.thread] = starter[m.thread]
    BY StartersAreKept
  <2>5. m.thread \in Threads \cup {NoThread} /\ NoWorkspace \notin Workspaces
    BY SessionAssumption DEF Truthful, Said
  <2> QED BY <2>1, <2>2, <2>3, <2>4, <2>5
<1> QED BY <1>1, <1>2 DEF Truthful

\* The output changes by what the server says and the reader reads.
LEMMA OutputFootprint ==
  ASSUME [Next]_vars
  PROVE  \/ \E r \in Requests : Answer(r)
         \/ \E m \in Announcements : Announce(m)
         \/ ReadLine
         \/ UNCHANGED <<outbox, created, starter>> /\ reader'.msg = reader.msg
         \/ ~(reader \in [at : ReaderPcs, msg : Said, from : Workspaces \cup {NoWorkspace},
                          route : Workspaces \cup {NoWorkspace}])
<1>2. CASE \E r \in Requests : Caller(r) \/ Timeout(r) \/ Abandon(r)
  BY <1>2 DEF Caller, InsertPending, InsertContext, WriteOk, WriteFails, Timeout, Abandon, server
<1>3. CASE \E r \in Requests, w \in Workspaces, m \in Methods : Ask(r, w, m)
  BY <1>3 DEF Ask, Call, server
<1>4. CASE \E w \in Sharers : Register(w) \/ Unregister(w)
  BY <1>4 DEF Register, Unregister, server
<1>5. CASE Reader /\ ~ReadLine
  BY <1>5 DEF Reader, Attribute, Deliver, HideMemoryThread, Suppress, Route, NoteItem,
     NoteArchived, EmitEvent, EndPending, EndContext, server, NextLine, Goto
<1>6. CASE Exit
  BY <1>6 DEF Exit
<1>7. CASE UNCHANGED vars
  BY <1>7 DEF vars, server
<1> QED BY <1>2, <1>3, <1>4, <1>5, <1>6, <1>7 DEF Next, Server

LEMMA TruthKept ==
  ASSUME CInv, [Next]_vars
  PROVE  ServerIsTruthful'
<1>s. reader.msg \in Truthful' /\ outbox \in Seq(Truthful')
  BY TruthIsKept, SeqMonotonic DEF CInv, ServerIsTruthful
<1>t. TypeOK
  BY DEF CInv
<1>1. ASSUME NEW r \in Requests, Answer(r) PROVE ServerIsTruthful'
  <2>1. PICK t \in Threads \cup {NoThread}, ts \in SUBSET Threads, ms \in Seq(Said) :
           AnswerEffect(r, t, ts, ms)
    BY <1>1, <1>t, AnswerSays
  <2>2. r \in answered' /\ UNCHANGED <<call, reader>> /\ r \in received /\ r # NoRequest
    BY <1>1, RequestNumbers DEF Answer
  <2>3. Stage(r) # "unused" /\ call[r].method \in AllMethods
    BY <2>2, <1>t DEF CInv, AskedOnce, Early, Unsent, Stage
  <2>4. ms[1] \in Truthful'
    <3>1. ms[1] \in Said /\ ms[1].id = r /\ ms[1].method = call[r].method /\ ms[1].thread = t
      BY <2>1, LenProperties DEF AnswerEffect, Message
    <3>2. t # NoThread => \/ call[r].method = "use" /\ call[r].thread = t
                          \/ call[r].method = "start" /\ starter'[t] = call[r].ws
      BY <2>1, <1>t DEF AnswerEffect, TypeOK
    <3>3. call[r].method # "archived"
      BY <2>3 DEF AllMethods
    <3> QED BY <2>2, <2>3, <3>1, <3>2, <3>3 DEF Truthful
  <2>5. Len(ms) = 2 => ms[2] \in Truthful'
    <3>1. ASSUME Len(ms) = 2
          PROVE  ms[2] \in Said /\ ms[2].id = NoRequest /\ ms[2].thread = call[r].thread
                 /\ call[r].method = "archive"
      <4>1. ms[2] = Event("archived", call[r].thread, {}) /\ call[r].method = "archive"
        BY <2>1, <3>1 DEF AnswerEffect
      <4>2. ms[2] \in Said
        BY <3>1, ElementOfSeq
      <4> QED BY <4>1, <4>2 DEF Event, Message
    <3>2. call[r].method = "archive" => Archived(call[r].thread)'
      BY <2>2 DEF Archived
    <3> QED BY <3>1, <3>2, <2>2 DEF Truthful
  <2>6. ms \in Seq(Truthful')
    <3>1. ms \in [1 .. Len(ms) -> Said] /\ Len(ms) \in Nat
      BY LenProperties
    <3>2. Len(ms) = 1 \/ Len(ms) = 2
      BY <2>1 DEF AnswerEffect
    <3>3. ms \in [1 .. Len(ms) -> Truthful']
      BY <2>4, <2>5, <3>1, <3>2
    <3> QED BY <3>1, <3>3, SeqDef
  <2>7. outbox' \in Seq(Truthful')
    BY <1>s, <2>1, <2>6, ConcatProperties DEF AnswerEffect
  <2> QED BY <1>s, <2>2, <2>7 DEF ServerIsTruthful
<1>2. ASSUME NEW m \in Announcements, Announce(m) PROVE ServerIsTruthful'
  <2>1. PICK t \in Threads \cup {NoThread}, ts \in SUBSET Threads : AnnounceEffect(m, t, ts)
    BY <1>2, <1>t, AnnounceSays
  <2>2. m # "archived"
    BY SessionAssumption DEF AllAnnouncements
  <2>3. Event(m, t, ts) \in Truthful'
    BY <2>1, <2>2 DEF AnnounceEffect, Truthful, Event, Message
  <2>4. outbox' \in Seq(Truthful')
    BY <1>s, <2>1, <2>3, Utterances, ConcatProperties DEF AnnounceEffect
  <2> QED BY <1>s, <1>2, <2>4 DEF Announce, ServerIsTruthful
<1>3. CASE ReadLine
  <2>1. outbox # <<>> /\ reader'.msg = Head(outbox) /\ outbox' = Tail(outbox)
    BY <1>3 DEF ReadLine
  <2> QED BY <1>s, <2>1, HeadTailProperties DEF ServerIsTruthful
<1>4. CASE UNCHANGED <<outbox, created, starter>> /\ reader'.msg = reader.msg
  BY <1>s, <1>4 DEF ServerIsTruthful
<1> QED BY <1>1, <1>2, <1>3, <1>4, <1>t, OutputFootprint DEF TypeOK

\* A request is made about no thread if it is a start.
LEMMA NewStarts ==
  ASSUME TypeOK, AskedOnce, [Next]_vars, NEW r \in Requests, Stage(r) = "unused",
         call'[r].method = "start"
  PROVE  call'[r].thread = NoThread
<1>t. call \in [Requests -> Requested]
  BY DEF TypeOK
<1>1. call[r] = Unsent
  BY DEF AskedOnce
<1>2. CASE call'[r] = call[r]
  BY <1>1, <1>2 DEF Unsent
<1>3. CASE call'[r] # call[r]
  <2>1. ASSUME NEW q \in Requests, NEW w \in Workspaces, NEW m \in Methods, Ask(q, w, m)
        PROVE  call'[r].thread = NoThread
    <3>1. call' = [call EXCEPT ![q] = [stage |-> "called", ws |-> w, method |-> m,
                                       thread |-> call'[q].thread]]
          /\ (m = "start" => call'[q].thread = NoThread)
      BY <2>1, <1>t DEF Ask, Call, TypeOK
    <3>2. q = r
      BY <3>1, <1>3, <1>t
    <3> QED BY <3>1, <3>2, <1>t
  <2>2. ASSUME NEW q \in Requests, Caller(q) \/ Timeout(q) \/ Abandon(q)
        PROVE  FALSE
    BY <2>2, <1>t, <1>3 DEF Caller, InsertPending, InsertContext, WriteOk, WriteFails,
       Timeout, Abandon, SetStage, Stage
  <2>3. CASE Deliver
    BY <2>3, <1>t, <1>3, DeliverEffect DEF Stage
  <2>4. CASE EndPending
    BY <2>4, <1>t, <1>3 DEF EndPending, Stage
  <2>5. ASSUME NEW q \in Requests, Answer(q)
        PROVE  FALSE
    BY <2>5, <1>3 DEF Answer
  <2> QED BY <2>1, <2>2, <2>3, <2>4, <2>5, <1>3, CallFootprint
<1> QED BY <1>2, <1>3

\* A caller learns of a thread by the answer the reader has in hand.
LEMMA ToldByAnswer ==
  ASSUME TypeOK, AskedOnce, [Next]_vars, NEW r \in Requests, Stage(r) # "unused",
         call'[r].thread # call[r].thread
  PROVE  /\ r = reader.msg.id /\ call'[r].thread = reader.msg.thread
         /\ UNCHANGED <<starter, outbox, created>>
<1>t. call \in [Requests -> Requested]
  BY DEF TypeOK
<1>1. Deliver
  <2>1. ASSUME NEW q \in Requests, NEW w \in Workspaces, NEW m \in Methods, Ask(q, w, m)
        PROVE  FALSE
    BY <2>1, <1>t, AskEffect DEF Call, Unsent, Stage
  <2>2. ASSUME NEW q \in Requests, Caller(q) \/ Timeout(q) \/ Abandon(q)
        PROVE  FALSE
    BY <2>2, <1>t DEF Caller, InsertPending, InsertContext, WriteOk, WriteFails,
       Timeout, Abandon, SetStage, Requested
  <2>3. CASE EndPending
    BY <2>3, <1>t DEF EndPending, Requested
  <2>4. ASSUME NEW q \in Requests, Answer(q)
        PROVE  FALSE
    BY <2>4 DEF Answer
  <2> QED BY <2>1, <2>2, <2>3, <2>4, CallFootprint
<1> QED BY <1>1, <1>t, DeliverEffect

LEMMA StartsKept ==
  ASSUME CInv, [Next]_vars
  PROVE  StartedOnce'
<1>t. TypeOK /\ NoWorkspace \notin Workspaces
  BY SessionAssumption DEF CInv
<1>1. \A t \in Threads : starter'[t] # NoWorkspace => t \in created'
  <2>1. ASSUME NEW r \in Requests, Answer(r)
        PROVE  \A t \in Threads : starter'[t] # NoWorkspace => t \in created'
    <3>1. PICK t \in Threads \cup {NoThread}, ts \in SUBSET Threads, ms \in Seq(Said) :
             AnswerEffect(r, t, ts, ms)
      BY <2>1, <1>t, AnswerSays
    <3> QED BY <3>1, <1>t DEF AnswerEffect, CInv, StartedOnce, TypeOK
  <2>2. ASSUME NEW m \in Announcements, Announce(m)
        PROVE  UNCHANGED starter /\ created \subseteq created'
    <3>1. PICK t \in Threads \cup {NoThread}, ts \in SUBSET Threads : AnnounceEffect(m, t, ts)
      BY <2>2, <1>t, AnnounceSays
    <3> QED BY <2>2, <3>1 DEF AnnounceEffect, Announce
  <2>3. CASE ReadLine
    BY <2>3 DEF ReadLine, CInv, StartedOnce
  <2> QED BY <2>1, <2>2, <2>3, <1>t, OutputFootprint DEF CInv, StartedOnce, TypeOK
<1>2. ASSUME NEW r \in Requests, call'[r].method = "start", call'[r].thread # NoThread
      PROVE  starter'[call'[r].thread] = call'[r].ws
  <2>1. Stage(r) # "unused"
    BY <1>2, NewStarts DEF CInv
  <2>2. call'[r].ws = call[r].ws /\ call'[r].method = call[r].method /\ call[r].ws \in Workspaces
    BY <2>1, CallsAreKept DEF CInv, ServerIsTruthful, AskedOnce, Unsent, Stage
  <2>3. CASE call'[r].thread = call[r].thread
    <3>1. starter[call[r].thread] = call[r].ws /\ call[r].thread \in Threads
      BY <1>2, <2>2, <2>3, <1>t DEF CInv, StartedOnce, TypeOK, Requested
    <3> QED BY <2>2, <2>3, <3>1, <1>t, StartersAreKept
  <2>4. CASE call'[r].thread # call[r].thread
    <3>1. r = reader.msg.id /\ call'[r].thread = reader.msg.thread /\ UNCHANGED starter
      BY <2>1, <2>4, ToldByAnswer DEF CInv
    <3>2. r # NoRequest /\ reader.msg \in Truthful
      BY RequestNumbers DEF CInv, ServerIsTruthful
    <3> QED BY <1>2, <2>2, <3>1, <3>2 DEF Truthful
  <2> QED BY <2>3, <2>4
<1> QED BY <1>1, <1>2 DEF StartedOnce

LEMMA CInvInit == Init => CInv
<1> SUFFICES ASSUME Init PROVE CInv
  OBVIOUS
<1>1. TypeOK
  BY InitTypes
<1>2. PendingIsExact /\ AskedOnce /\ StartedOnce
  BY RequestNumbers, SessionAssumption DEF Init, PendingIsExact, AskedOnce, StartedOnce, Unsent,
     Stage, Requests
<1>3. ServerIsTruthful
  BY <1>1 DEF Init, TypeOK, ServerIsTruthful, Truthful, NoMessage, Event, Message
<1> QED BY <1>1, <1>2, <1>3 DEF CInv

LEMMA CInvStep == CInv /\ [Next]_vars => CInv'
<1> SUFFICES ASSUME CInv, [Next]_vars PROVE CInv'
  OBVIOUS
<1>1. TypeOK' /\ PendingIsExact' /\ AskedOnce'
  BY StepTypes, PendingKept, AskedKept DEF CInv
<1> QED BY <1>1, TruthKept, StartsKept DEF CInv

\* The table of waiting requests is exact, as long as the reader and the
\* callers meet only in the tables of WorkspaceSession.
THEOREM WaitersAreListed == Spec => []PendingIsExact
<1>1. CInv => PendingIsExact
  BY DEF CInv
<1> QED BY <1>1, CInvInit, CInvStep, PTL DEF Spec

-----------------------------------------------------------------------------
(* The refinement *)

\* How far a caller sees its request.
Seen == [r \in Requests |-> Progress(Stage(r))]

LEMMA SeenStages ==
  /\ Progress("unused") = "idle"
  /\ \A s \in {"called", "listed", "ready", "waiting"} : Progress(s) = "open"
  /\ Progress("answered") = "answered"
  /\ \A s \in Ended \ {"answered"} : Progress(s) = "gaveUp"
  BY DEF Progress, Ended

\* One request moves, the others stay.
LEMMA OneMoves ==
  ASSUME TypeOK, NEW q \in Requests, NEW s \in Stages, call' = [call EXCEPT ![q].stage = s]
  PROVE  Seen' = [Seen EXCEPT ![q] = Progress(s)]
<1>1. \A r \in Requests : call'[r].stage = IF r = q THEN s ELSE call[r].stage
  BY DEF TypeOK, Requested
<1>2. \A r \in Requests :
         Progress(call'[r].stage) = IF r = q THEN Progress(s) ELSE Progress(call[r].stage)
  BY <1>1
<1> QED BY <1>2 DEF Seen, Stage

\* A request that stays open stutters, one that gives up gives up alone.
LEMMA MovesOn ==
  ASSUME TypeOK, NEW q \in Requests, NEW s \in Stages, call' = [call EXCEPT ![q].stage = s],
         Progress(Stage(q)) = "open", UNCHANGED answered
  PROVE  /\ Progress(s) = "open" => UNCHANGED <<Seen, answered>>
         /\ Progress(s) = "gaveUp" => Calls!GiveUp({q})
<1>1. Seen' = [Seen EXCEPT ![q] = Progress(s)]
  BY OneMoves
<1>2. Seen = [r \in Requests |-> Seen[r]] /\ Seen[q] = "open"
  BY DEF Seen
<1>3. Progress(s) = "open" => Seen' = Seen
  BY <1>1, <1>2
<1>4. Progress(s) = "gaveUp" => Calls!GiveUp({q})
  BY <1>1, <1>2 DEF Calls!GiveUp, Seen
<1> QED BY <1>3, <1>4

LEMMA RefinementStep ==
  ASSUME CInv, [Next]_vars
  PROVE  [Calls!Next]_<<Seen, answered>>
<1>t. TypeOK
  BY DEF CInv
<1>1. ASSUME NEW q \in Requests, NEW w \in Workspaces, NEW m \in Methods, Ask(q, w, m)
      PROVE  Calls!Ask(q)
  <2>1. PICK t \in Threads \cup {NoThread} : Call(q, w, m, t)
    BY <1>1, AskEffect, <1>t DEF CInv
  <2>2. call[q] = Unsent
    BY <1>1, AskEffect, <1>t DEF CInv
  <2>3. \A r \in Requests : call'[r].stage = IF r = q THEN "called" ELSE call[r].stage
    BY <2>1, <1>t DEF Call, TypeOK
  <2>4. \A r \in Requests :
           Progress(call'[r].stage) = IF r = q THEN "open" ELSE Progress(call[r].stage)
    BY <2>3, SeenStages
  <2>5. Seen' = [Seen EXCEPT ![q] = "open"]
    BY <2>4 DEF Seen, Stage
  <2>6. Seen[q] = "idle"
    BY <2>2, SeenStages DEF Seen, Stage, Unsent
  <2>7. UNCHANGED answered
    BY <2>1 DEF Call, server
  <2> QED BY <2>5, <2>6, <2>7 DEF Calls!Ask, Seen
<1>2. ASSUME NEW q \in Requests, Caller(q) \/ Timeout(q) \/ Abandon(q)
      PROVE  UNCHANGED <<Seen, answered>> \/ Calls!GiveUp({q})
  <2>1. PICK s \in Stages : /\ call' = [call EXCEPT ![q].stage = s]
                            /\ Progress(s) \in {"open", "gaveUp"}
    BY <1>2, SeenStages DEF Caller, InsertPending, InsertContext, WriteOk, WriteFails, Timeout,
       Abandon, SetStage, Stages, Ended
  <2>2. Progress(Stage(q)) = "open" /\ UNCHANGED answered
    BY <1>2, SeenStages DEF Caller, InsertPending, InsertContext, WriteOk, WriteFails, Timeout,
       Abandon, server
  <2> QED BY <2>1, <2>2, <1>t, MovesOn
<1>3. ASSUME Deliver
      PROVE  UNCHANGED <<Seen, answered>> \/ Calls!Return(reader.msg.id)
  <2> DEFINE n == reader.msg.id
  <2>1. UNCHANGED answered
    BY <1>3, <1>t, DeliverEffect
  <2>2. CASE call' = call
    BY <2>1, <2>2 DEF Seen, Stage
  <2>3. CASE call' # call
    <3>1. /\ n \in Requests /\ Stage(n) = "waiting" /\ call'[n].stage = "answered"
          /\ \A r \in Requests : r # n => call'[r] = call[r]
      BY <1>3, <2>3, <1>t, DeliverEffect
    <3>2. n \in answered
      BY <3>1, RequestNumbers DEF CInv, ServerIsTruthful, Truthful
    <3>3. Seen[n] = "open" /\ Seen' = [Seen EXCEPT ![n] = "answered"]
      BY <3>1, SeenStages DEF Seen, Stage
    <3> QED BY <2>1, <3>2, <3>3 DEF Calls!Return, Seen
  <2> QED BY <2>2, <2>3
<1>4. ASSUME EndPending
      PROVE  \E R \in SUBSET Requests : Calls!GiveUp(R)
  <2> DEFINE R == {r \in pending : Stage(r) = "waiting"}
  <2>1. R \in SUBSET Requests /\ UNCHANGED answered
    BY <1>4, <1>t DEF EndPending, server, TypeOK
  <2>2. \A r \in Requests : call'[r].stage = IF r \in R THEN "canceled" ELSE call[r].stage
    BY <1>4, <1>t DEF EndPending, TypeOK, Requested
  <2>3. /\ \A r \in R : Seen[r] = "open"
        /\ Seen' = [r \in Requests |-> IF r \in R THEN "gaveUp" ELSE Seen[r]]
    BY <2>1, <2>2, SeenStages DEF Seen, Stage, Ended
  <2>4. Calls!GiveUp(R)
    BY <2>1, <2>3 DEF Calls!GiveUp, Seen
  <2> QED BY <2>1, <2>4
<1>5. ASSUME NEW q \in Requests, Answer(q)
      PROVE  Calls!Serve(q)
  <2>1. q \in received /\ answered' = answered \cup {q} /\ UNCHANGED call
    BY <1>5 DEF Answer
  <2>2. q \notin answered /\ Stage(q) # "unused"
    BY <2>1 DEF CInv, AskedOnce, Early
  <2>3. Seen[q] # "idle" /\ Seen' = Seen
    BY <2>1, <2>2, <1>t, SeenStages DEF Seen, Stage, TypeOK, Requested, Stages, Ended
  <2> QED BY <2>1, <2>2, <2>3 DEF Calls!Serve, Seen
<1>6. CASE UNCHANGED <<nextId, call, pending, received, answered>>
  BY <1>6 DEF Seen, Stage
<1>7. Deliver => reader.msg.id \in Requests \/ UNCHANGED <<Seen, answered>>
  BY <1>t, DeliverEffect DEF Seen, Stage
<1> QED
  BY <1>1, <1>2, <1>3, <1>4, <1>5, <1>6, <1>7, CallFootprint DEF Calls!Next

\* Every behaviour of a session is one of RequestTable: a caller is answered
\* once, by the server's answer to its own request, and hears nothing after it
\* has given up.
THEOREM ImplementsRequestTable == Spec => RefinesRequestTable
<1>1. Init => Calls!Init
  BY SeenStages DEF Init, Calls!Init, Stage, Unsent
<1>2. CInv /\ [Next]_vars => [Calls!Next]_<<Seen, answered>>
  BY RefinementStep
<1> QED BY <1>1, <1>2, CInvInit, CInvStep, PTL DEF Spec, RefinesRequestTable, Calls!Spec, Seen

-----------------------------------------------------------------------------
(* Told threads are routed *)

Routed(t) == threadWorkspace[t] # NoWorkspace \/ t \in MemoryThreads \/ Archived(t)

RoutesAreKept ==
    /\ \A r \in Requests :
          Stage(r) \in {"ready", "waiting"} \cup Ended /\ call[r].thread # NoThread =>
             Routed(call[r].thread)
    /\ At("deliver") /\ reader.from # NoWorkspace /\ reader.msg.thread # NoThread =>
          Routed(reader.msg.thread)
    /\ reader.at \in {"attribute", "deliver"} =>
          reader.msg.id \in answered \ context
    /\ \A r \in Requests :
          Stage(r) \in {"ready", "waiting"} =>
             \/ r \in context \/ At("done")
             \/ /\ reader.at \in {"attribute", "deliver"}
                /\ reader.msg.id = r
                /\ reader.from # NoWorkspace

\* The reader's place and the routing change by these steps only.
LEMMA RouteFootprint ==
  ASSUME [Next]_vars
  PROVE  /\ Reader \/ UNCHANGED reader
         /\ \/ \E q \in Requests : InsertContext(q)
            \/ Attribute \/ NoteItem \/ NoteArchived
            \/ UNCHANGED threadWorkspace
         /\ \/ \E q \in Requests : InsertContext(q)
            \/ Reader
            \/ UNCHANGED context
            \/ \E q \in Requests : WriteFails(q) \/ Timeout(q)
<1>1. CASE \E r \in Requests : Caller(r) \/ Timeout(r) \/ Abandon(r)
  BY <1>1 DEF Caller, InsertPending, WriteOk, WriteFails, Timeout, Abandon, InsertContext, Forget,
     tables
<1>2. CASE \E r \in Requests, w \in Workspaces, m \in Methods : Ask(r, w, m)
  BY <1>2 DEF Ask, Call
<1>3. CASE \E w \in Sharers : Register(w) \/ Unregister(w)
  BY <1>3 DEF Register, Unregister
<1>4. CASE Reader
  BY <1>4 DEF Reader, ReadLine, Deliver, HideMemoryThread, Suppress, Route, EmitEvent, EndPending,
     EndContext, tables
<1>5. CASE Server
  BY <1>5 DEF Server, Answer, Announce, Exit, tables
<1>6. CASE UNCHANGED vars
  BY <1>6 DEF vars, tables
<1> QED BY <1>1, <1>2, <1>3, <1>4, <1>5, <1>6 DEF Next

\* A routed thread stays routed until it is archived.
LEMMA RoutedStays ==
  ASSUME CInv, [Next]_vars, NEW t \in Threads, Routed(t)
  PROVE  Routed(t)'
<1>t. TypeOK /\ NoWorkspace \notin Workspaces
  BY SessionAssumption DEF CInv
<1>1. CASE t \in MemoryThreads \/ Archived(t)
  BY <1>1, ArchivedIsKept DEF Routed
<1>2. CASE threadWorkspace[t] # NoWorkspace /\ t \notin MemoryThreads
  <2>1. ASSUME NEW q \in Requests, InsertContext(q) PROVE threadWorkspace'[t] # NoWorkspace
    <3>1. call[q].ws \in Workspaces
      BY <2>1, RequestNumbers DEF CInv, AskedOnce, Unsent, InsertContext, Stage
    <3> QED BY <1>2, <2>1, <3>1, <1>t DEF InsertContext
  <2>2. CASE Attribute
    <3>1. \/ threadWorkspace'[t] = threadWorkspace[t]
          \/ reader.from # NoWorkspace /\ threadWorkspace'[t] = reader.from
          \/ t \in MemoryThreads
          \/ threadWorkspace'[t] \in Closest(t)
      BY <2>2 DEF Attribute
    <3>2. Closest(t) \subseteq Workspaces
      BY <1>t DEF Closest, TypeOK
    <3> QED BY <1>2, <1>t, <3>1, <3>2 DEF Routed
  <2>3. CASE NoteItem
    BY <1>2, <2>3 DEF NoteItem, Routed
  <2>4. CASE NoteArchived
    <3>1. reader.msg.thread = t => Archived(t)
      BY <2>4 DEF NoteArchived, CInv, ServerIsTruthful, Truthful
    <3>2. reader.msg.thread # t => threadWorkspace'[t] = threadWorkspace[t]
      BY <2>4, <1>t DEF NoteArchived, TypeOK
    <3> QED BY <1>2, <3>1, <3>2, ArchivedIsKept DEF Routed
  <2>5. CASE UNCHANGED threadWorkspace
    BY <1>2, <2>5 DEF Routed
  <2> QED BY <2>1, <2>2, <2>3, <2>4, <2>5, RouteFootprint DEF Routed
<1> QED BY <1>1, <1>2 DEF Routed

Written == {"ready", "waiting"} \cup Ended

\* Every request written so far, and every answer, has its thread routed.
LEMMA WrittenAreRouted ==
  ASSUME CInv, RoutesAreKept, [Next]_vars, NEW r \in Requests,
         Stage(r)' \in Written, NEW t \in Threads, call'[r].thread = t
  PROVE  Routed(t)'
<1>t. TypeOK /\ TypeOK'
  BY StepTypes DEF CInv
<1>i. Stage(r) \in Written /\ call[r].thread = t => Routed(t)
  BY SessionAssumption DEF RoutesAreKept, Written
<1>1. ASSUME Stage(r) \in Written, call'[r].thread = call[r].thread
      PROVE  Routed(t)'
  BY <1>1, <1>i, RoutedStays
<1>2. ASSUME NEW q \in Requests, NEW w \in Workspaces, NEW m \in Methods, Ask(q, w, m)
      PROVE  Routed(t)'
  <2>1. r # q
    BY <1>2, <1>t, AskEffect DEF Call, Written, Ended, Stage, CInv, TypeOK
  <2>2. call'[r] = call[r]
    BY <1>2, <2>1, <1>t, AskEffect DEF Call, CInv, TypeOK
  <2> QED BY <2>2, <1>1 DEF Stage
<1>3. ASSUME NEW q \in Requests, InsertContext(q)
      PROVE  Routed(t)'
  <2>1. CASE r = q
    <3>1. call[q].ws \in Workspaces /\ NoWorkspace \notin Workspaces
      BY <1>3, RequestNumbers, SessionAssumption DEF CInv, AskedOnce, Unsent, InsertContext, Stage
    <3>2. call'[r].thread = call[r].thread
      BY <1>3, <1>t DEF InsertContext, SetStage, TypeOK, Requested
    <3>3. threadWorkspace'[t] = call[r].ws
      BY <1>3, <2>1, <3>2 DEF InsertContext
    <3> QED BY <2>1, <3>1, <3>2, <3>3 DEF Routed
  <2>2. CASE r # q
    BY <1>1, <1>3, <2>2, <1>t DEF InsertContext, SetStage, TypeOK, Stage
  <2> QED BY <2>1, <2>2
<1>4. ASSUME NEW q \in Requests,
             InsertPending(q) \/ WriteOk(q) \/ WriteFails(q) \/ Timeout(q) \/ Abandon(q)
      PROVE  Routed(t)'
  <2>1. \/ Stage(q) = "called" /\ call' = [call EXCEPT ![q].stage = "listed"]
        \/ /\ Stage(q) \in {"ready", "waiting"}
           /\ \E s \in Stages : call' = [call EXCEPT ![q].stage = s]
    BY <1>4 DEF InsertPending, WriteOk, WriteFails, Timeout, Abandon, SetStage, Stages, Ended
  <2>2. call'[r].thread = call[r].thread
    BY <2>1, <1>t DEF TypeOK, Requested
  <2>3. Stage(r) \in Written
    <3>1. CASE r = q
      BY <2>1, <3>1, <1>t DEF TypeOK, Requested, Written, Ended, Stage
    <3>2. CASE r # q
      BY <2>1, <3>2, <1>t DEF TypeOK, Stage
    <3> QED BY <3>1, <3>2
  <2> QED BY <2>2, <2>3, <1>1
<1>5. CASE Deliver
  <2>1. CASE call'[r] = call[r]
    BY <2>1, <1>1 DEF Stage
  <2>2. CASE call'[r] # call[r]
    <3>1. /\ r = reader.msg.id /\ Stage(r) = "waiting"
          /\ call'[r].thread = IF reader.msg.thread = NoThread
                               THEN call[r].thread ELSE reader.msg.thread
      BY <1>5, <2>2, <1>t, DeliverEffect
    <3>2. CASE reader.msg.thread = NoThread
      BY <3>1, <3>2, <1>1 DEF Written
    <3>3. CASE reader.msg.thread # NoThread
      <4>1. At("deliver") /\ ~At("done")
        BY <1>5 DEF Deliver, At
      <4>2. reader.from # NoWorkspace
        BY <3>1, <4>1 DEF RoutesAreKept, At
      <4>3. Routed(t)
        BY <3>1, <3>3, <4>1, <4>2 DEF RoutesAreKept
      <4> QED BY <4>3, RoutedStays
    <3> QED BY <3>2, <3>3
  <2> QED BY <2>1, <2>2
<1>6. CASE EndPending
  BY <1>6, <1>t, <1>1 DEF EndPending, TypeOK, Requested, Written, Stage
<1>7. ASSUME NEW q \in Requests, Answer(q)
      PROVE  Routed(t)'
  BY <1>7, <1>1 DEF Answer, Stage
<1>8. CASE UNCHANGED <<nextId, call, pending, received, answered>>
  BY <1>8, <1>1 DEF Stage
<1> QED BY <1>2, <1>3, <1>4, <1>5, <1>6, <1>7, <1>8, CallFootprint DEF Caller

LEMMA RoutesKeptStep ==
  ASSUME CInv, RoutesAreKept, [Next]_vars
  PROVE  RoutesAreKept'
<1>t. TypeOK /\ TypeOK' /\ reader.msg.thread \in Threads \cup {NoThread}
      /\ reader.msg.id \in Requests \cup {NoRequest}
  BY StepTypes DEF CInv, TypeOK, Said
<1>a. answered \subseteq answered'
  BY CallsAreKept DEF CInv, ServerIsTruthful
<1>1. \A r \in Requests :
         Stage(r)' \in {"ready", "waiting"} \cup Ended /\ call'[r].thread # NoThread =>
            Routed(call[r].thread)'
  <2>1. ASSUME NEW r \in Requests, Stage(r)' \in Written, NEW t \in Threads, call'[r].thread = t
        PROVE  Routed(t)'
    BY <2>1, WrittenAreRouted
  <2>2. \A r \in Requests : call'[r].thread \in Threads \cup {NoThread}
    BY <1>t DEF TypeOK, Requested
  <2> QED BY <2>1, <2>2 DEF Written, Routed, Archived, Stage
<1>2. At("deliver")' /\ reader'.from # NoWorkspace /\ reader'.msg.thread # NoThread =>
         Routed(reader.msg.thread)'
  <2>1. CASE UNCHANGED reader
    <3> SUFFICES ASSUME At("deliver"), reader.from # NoWorkspace, NEW t \in Threads,
                        reader.msg.thread = t
                 PROVE  Routed(t)'
      BY <2>1, <1>t DEF At, Routed, Archived
    <3>1. Routed(t)
      BY SessionAssumption DEF RoutesAreKept
    <3> QED BY <3>1, RoutedStays
  <2>2. CASE Attribute
    <3>1. reader' = [reader EXCEPT !.at = "deliver"]
      BY <2>2 DEF Attribute, Goto
    <3>2. reader.from # NoWorkspace /\ reader.msg.thread # NoThread =>
             threadWorkspace'[reader.msg.thread] = reader.from
      <4>1. ASSUME NEW t \in Threads, t = reader.msg.thread, reader.from # NoWorkspace
            PROVE  threadWorkspace'[t] = reader.from
        BY <2>2, <4>1 DEF Attribute
      <4> QED BY <4>1, <1>t
    <3>3. reader'.from = reader.from /\ reader'.msg = reader.msg
      BY <3>1, <1>t DEF TypeOK
    <3> QED BY <3>2, <3>3, SessionAssumption DEF Routed
  <2>3. CASE Reader /\ ~Attribute
    <3>1. reader'.at # "deliver"
      <4>1. CASE ReadLine
        BY <4>1 DEF ReadLine
      <4>4. CASE Route
        <5>1. reader'.at = IF reader.msg.method \in {"item", "archived"} THEN "note" ELSE "emit"
          BY <4>4, <1>t DEF Route, TypeOK
        <5> QED BY <5>1
      <4>2. CASE Deliver \/ HideMemoryThread \/ Suppress \/ EmitEvent
        BY <4>2, <1>t DEF Deliver, HideMemoryThread, Suppress, EmitEvent, NextLine, Goto, TypeOK
      <4>3. CASE NoteItem \/ NoteArchived \/ EndPending \/ EndContext
        BY <4>3, <1>t DEF NoteItem, NoteArchived, EndPending, EndContext, Goto, TypeOK
      <4> QED BY <2>3, <4>1, <4>2, <4>3, <4>4 DEF Reader
    <3> QED BY <3>1 DEF At
  <2> QED BY <2>1, <2>2, <2>3, RouteFootprint
<1>3. reader'.at \in {"attribute", "deliver"} => reader'.msg.id \in answered' \ context'
  <2>1. ASSUME UNCHANGED reader, reader.at \in {"attribute", "deliver"}
        PROVE  reader.msg.id \in answered' \ context'
    <3>1. reader.msg.id \in answered \ context
      BY <2>1 DEF RoutesAreKept
    <3>2. ASSUME NEW q \in Requests, InsertContext(q) PROVE reader.msg.id \notin context'
      BY <3>1, <3>2 DEF InsertContext, CInv, AskedOnce, Early
    <3>3. ASSUME NEW q \in Requests, WriteFails(q) \/ Timeout(q) PROVE context' \subseteq context
      BY <3>3 DEF WriteFails, Timeout, Forget
    <3>4. CASE Reader
      BY <3>4, <2>1, <1>t DEF Reader, ReadLine, Attribute, Deliver, HideMemoryThread, Suppress,
         Route, NoteItem, NoteArchived, EmitEvent, EndPending, EndContext, NextLine, Goto, At,
         TypeOK
    <3> QED BY <3>1, <3>2, <3>3, <3>4, <1>a, RouteFootprint
  <2>2. CASE ReadLine
    <3>1. Head(outbox) \in Truthful
      BY <2>2, HeadTailProperties DEF ReadLine, CInv, ServerIsTruthful
    <3> QED BY <2>2, <3>1, <1>a DEF ReadLine, Truthful
  <2>3. CASE Attribute
    <3>1. reader'.msg = reader.msg /\ UNCHANGED context /\ reader.at = "attribute"
      BY <2>3, <1>t DEF Attribute, Goto, TypeOK, At
    <3> QED BY <3>1, <1>a DEF RoutesAreKept
  <2>4. CASE Reader /\ ~ReadLine /\ ~Attribute
    BY <2>4, <1>t DEF Reader, Deliver, HideMemoryThread, Suppress, Route, NoteItem,
         NoteArchived, EmitEvent, EndPending, EndContext, NextLine, Goto, TypeOK
  <2> QED BY <2>1, <2>2, <2>3, <2>4, RouteFootprint
<1>4. ASSUME NEW r \in Requests, Stage(r)' \in {"ready", "waiting"}
      PROVE  \/ r \in context' \/ At("done")'
             \/ /\ reader'.at \in {"attribute", "deliver"}
                /\ reader'.msg.id = r
                /\ reader'.from # NoWorkspace
  <2>i. Stage(r) \in {"ready", "waiting"} =>
             \/ r \in context \/ At("done")
             \/ /\ reader.at \in {"attribute", "deliver"}
                /\ reader.msg.id = r
                /\ reader.from # NoWorkspace
    BY DEF RoutesAreKept
  <2>1. ASSUME NEW q \in Requests, NEW w \in Workspaces, NEW m \in Methods, Ask(q, w, m)
        PROVE  Stage(r) \in {"ready", "waiting"} /\ UNCHANGED <<context, reader>>
    <3>1. /\ call'[q].stage = "called" /\ (r # q => call'[r] = call[r])
          /\ UNCHANGED <<context, reader>>
      BY <2>1, <1>t, AskEffect DEF Call, CInv, TypeOK
    <3> QED BY <3>1, <1>4 DEF Stage
  <2>2. ASSUME NEW q \in Requests, InsertContext(q)
        PROVE  \/ r = q /\ r \in context'
               \/ /\ Stage(r) \in {"ready", "waiting"}
                  /\ context \subseteq context' /\ UNCHANGED reader
    BY <2>2, <1>4, <1>t DEF InsertContext, SetStage, Stage, TypeOK
  <2>3. ASSUME NEW q \in Requests, InsertPending(q) \/ WriteOk(q) \/ Abandon(q)
        PROVE  Stage(r) \in {"ready", "waiting"} /\ UNCHANGED <<context, reader>>
    BY <2>3, <1>4, <1>t DEF InsertPending, WriteOk, Abandon, SetStage, Stage, TypeOK, Requested,
       tables
  <2>4. ASSUME NEW q \in Requests, WriteFails(q) \/ Timeout(q)
        PROVE  /\ r # q /\ Stage(r) \in {"ready", "waiting"}
               /\ context' = context \ {q} /\ UNCHANGED reader
    BY <2>4, <1>4, <1>t DEF WriteFails, Timeout, Forget, SetStage, Stage, TypeOK, Requested
  <2>5. CASE Deliver
    <3>1. call'[r] = call[r] \/ call'[r].stage = "answered"
      BY <2>5, <1>t, DeliverEffect
    <3>2. Stage(r) \in {"ready", "waiting"} /\ UNCHANGED context /\ r # reader.msg.id
      <4>1. r = reader.msg.id => call'[r] = call[r]
        BY <3>1, <1>4 DEF Stage
      <4>2. r # reader.msg.id
        <5>1. SUFFICES ASSUME r = reader.msg.id PROVE FALSE
          OBVIOUS
        <5>2. r \in answered /\ Stage(r) \in {"ready", "waiting"}
          BY <5>1, <4>1, <1>4, <2>5 DEF RoutesAreKept, Deliver, At, Stage
        <5>3. Stage(r) = "waiting" /\ r \in pending
          BY <5>2 DEF CInv, AskedOnce, Early, PendingIsExact
        <5> QED BY <5>1, <5>3, <4>1, <2>5, <1>t, <1>4, DeliverEffect DEF Stage
      <4> QED BY <3>1, <4>2, <1>4, <2>5, <1>t, DeliverEffect DEF Stage
    <3>3. At("deliver")
      BY <2>5 DEF Deliver
    <3> QED BY <2>i, <3>2, <3>3 DEF At
  <2>6. CASE EndPending
    <3>1. Stage(r) \in {"ready", "waiting"} /\ UNCHANGED context /\ At("line")
      BY <2>6, <1>4, <1>t DEF EndPending, TypeOK, Requested, Stage
    <3> QED BY <2>i, <3>1 DEF At
  <2>7. ASSUME NEW q \in Requests, Answer(q)
        PROVE  Stage(r) \in {"ready", "waiting"} /\ UNCHANGED <<context, reader>>
    BY <2>7, <1>4 DEF Answer, Stage, tables
  <2>8. CASE UNCHANGED <<nextId, call, pending, received, answered>>
    <3>1. Stage(r) \in {"ready", "waiting"}
      BY <2>8, <1>4 DEF Stage
    <3>2. CASE ReadLine
      <4>1. At("line") /\ r \in context
        BY <2>i, <3>1, <3>2 DEF ReadLine, At
      <4>2. CASE r = Head(outbox).id
        <5>1. r # NoRequest /\ call[r].ws \in Workspaces /\ NoWorkspace \notin Workspaces
          BY <3>1, RequestNumbers, SessionAssumption DEF CInv, AskedOnce, Unsent, Stage
        <5> QED BY <3>2, <4>1, <4>2, <5>1 DEF ReadLine
      <4>3. CASE r # Head(outbox).id
        BY <3>2, <4>1, <4>3 DEF ReadLine
      <4> QED BY <4>2, <4>3
    <3>3. CASE Attribute
      <4>1. /\ reader'.at = "deliver" /\ reader'.msg = reader.msg /\ reader'.from = reader.from
            /\ UNCHANGED context /\ At("attribute")
        BY <3>3, <1>t DEF Attribute, Goto, TypeOK
      <4> QED BY <2>i, <3>1, <4>1 DEF At
    <3>4. CASE EndContext
      <4>1. reader'.at = "done"
        BY <3>4, <1>t DEF EndContext, Goto, TypeOK
      <4> QED BY <4>1 DEF At
    <3>5. CASE HideMemoryThread \/ Suppress \/ Route \/ NoteItem \/ NoteArchived \/ EmitEvent
      <4>1. UNCHANGED context /\ reader.at \in {"route", "note", "emit"}
        BY <3>5 DEF HideMemoryThread, Suppress, Route, NoteItem, NoteArchived, EmitEvent, At, tables
      <4> QED BY <2>i, <3>1, <4>1 DEF At
    <3>6. CASE UNCHANGED <<reader, context>>
      BY <2>i, <3>1, <3>6 DEF At
    <3> QED BY <2>2, <2>4, <2>5, <2>6, <2>i, <3>1, <3>2, <3>3, <3>4, <3>5, <3>6, RouteFootprint
            DEF Reader, At
  <2> QED
    BY <2>i, <2>1, <2>2, <2>3, <2>4, <2>5, <2>6, <2>7, <2>8, CallFootprint DEF Caller, At
<1> QED BY <1>1, <1>2, <1>3, <1>4 DEF RoutesAreKept

LEMMA RoutesInit == Init => RoutesAreKept
  BY DEF Init, RoutesAreKept, Unsent, Stage, At, NoMessage, Event, Message, Ended

\* When a caller is told about a thread, the thread's events are routed, until
\* it is archived: for any interleaving of callers, reader and server.
THEOREM ToldThreadsStayRouted == Spec => []ToldThreadsAreRouted
<1>1. CInv /\ RoutesAreKept => ToldThreadsAreRouted
  BY SessionAssumption DEF CInv, RoutesAreKept, ToldThreadsAreRouted, Routed, Archived, Ended, Stage
<1>2. CInv /\ RoutesAreKept /\ [Next]_vars => RoutesAreKept'
  BY RoutesKeptStep
<1> QED BY <1>1, <1>2, RoutesInit, CInvInit, CInvStep, PTL DEF Spec

-----------------------------------------------------------------------------
(* No cross talk *)

Justified(t, w) ==
    \E u \in family[t] :
        \/ w \in {starter[u], Owner}
        \/ Depth[u][w] > 0
        \/ \E r \in Requests : call[r].thread = u /\ call[r].ws = w

RoutesAreJustified ==
    /\ \A t \in Threads : t \in family[t]
    /\ \A t \in Threads :
          threadWorkspace[t] # NoWorkspace => Justified(t, threadWorkspace[t])
    /\ reader.from # NoWorkspace =>
          /\ reader.msg.id \in answered
          /\ reader.from = call[reader.msg.id].ws
    /\ At("note") =>
          \/ reader.route = Owner
          \/ /\ reader.msg.thread \in Threads
             /\ reader.route \in Workspaces
             /\ Justified(reader.msg.thread, reader.route)

\* Only a new line changes what the reader holds, and only Route its route.
LEMMA ReaderFootprint ==
  ASSUME TypeOK, [Next]_vars
  PROVE  /\ ReadLine \/ (reader'.msg = reader.msg /\ reader'.from = reader.from)
         /\ reader'.at = "note" => Route \/ UNCHANGED reader
<1>1. CASE UNCHANGED reader
  BY <1>1
<1>2. CASE ReadLine
  BY <1>2 DEF ReadLine
<1>3. CASE Route
  BY <1>3 DEF Route, TypeOK
<1>4. CASE Attribute \/ Deliver \/ HideMemoryThread \/ Suppress \/ EmitEvent
  BY <1>4 DEF Attribute, Deliver, HideMemoryThread, Suppress, EmitEvent, NextLine, Goto, TypeOK
<1>5. CASE NoteItem \/ NoteArchived \/ EndPending \/ EndContext
  BY <1>5 DEF NoteItem, NoteArchived, EndPending, EndContext, Goto, TypeOK
<1> QED BY <1>1, <1>2, <1>3, <1>4, <1>5, RouteFootprint DEF Reader

LEMMA FamilyGrows ==
  ASSUME TypeOK, [Next]_vars, NEW t \in Threads
  PROVE  family[t] \subseteq family'[t]
<1>1. CASE NoteItem
  BY <1>1 DEF NoteItem, TypeOK
<1>2. CASE \E r \in Requests : Caller(r) \/ Timeout(r) \/ Abandon(r)
  BY <1>2 DEF Caller, InsertPending, InsertContext, WriteOk, WriteFails, Timeout, Abandon, server
<1>3. CASE \E r \in Requests, w \in Workspaces, m \in Methods : Ask(r, w, m)
  BY <1>3 DEF Ask, Call, server
<1>4. CASE \E w \in Sharers : Register(w) \/ Unregister(w)
  BY <1>4 DEF Register, Unregister, server
<1>5. CASE Reader /\ ~NoteItem
  BY <1>5 DEF Reader, ReadLine, Attribute, Deliver, HideMemoryThread, Suppress, Route,
     NoteArchived, EmitEvent, EndPending, EndContext, server
<1>6. CASE Server
  BY <1>6 DEF Server, Answer, Announce, Exit
<1>7. CASE UNCHANGED vars
  BY <1>7 DEF vars, server
<1> QED BY <1>1, <1>2, <1>3, <1>4, <1>5, <1>6, <1>7 DEF Next

\* A route that was justified stays justified: a start that learns its thread
\* hands its reason over to the thread's starter.
LEMMA JustifiedStays ==
  ASSUME CInv, [Next]_vars, NEW t \in Threads, NEW w \in Workspaces, Justified(t, w)
  PROVE  Justified(t, w)'
<1>t. TypeOK /\ NoWorkspace \notin Workspaces /\ NoThread \notin Threads
  BY SessionAssumption DEF CInv
<1>1. PICK u \in family[t] :
        \/ w \in {starter[u], Owner}
        \/ Depth[u][w] > 0
        \/ \E r \in Requests : call[r].thread = u /\ call[r].ws = w
  BY DEF Justified
<1>2. u \in family'[t] /\ u \in Threads
  BY <1>t, FamilyGrows DEF TypeOK
<1>3. ASSUME starter[u] = w PROVE starter'[u] = w
  BY <1>2, <1>3, <1>t, StartersAreKept
<1>4. ASSUME NEW r \in Requests, call[r].thread = u, call[r].ws = w
      PROVE  starter'[u] = w \/ (call'[r].thread = u /\ call'[r].ws = w)
  <2>1. Stage(r) # "unused"
    BY <1>2, <1>4, <1>t DEF CInv, AskedOnce, Unsent
  <2>2. /\ call'[r].ws = w
        /\ call'[r].thread = u \/ call[r].method = "start"
    BY <1>4, <2>1, CallsAreKept DEF CInv, ServerIsTruthful
  <2>3. call[r].method = "start" => starter[u] = w
    BY <1>2, <1>4, <1>t DEF CInv, StartedOnce
  <2> QED BY <1>3, <2>2, <2>3
<1> QED BY <1>1, <1>2, <1>3, <1>4 DEF Justified

LEMMA JustifiedStep ==
  ASSUME CInv, RoutesAreJustified, [Next]_vars
  PROVE  RoutesAreJustified'
<1>t. /\ TypeOK /\ TypeOK'
      /\ NoWorkspace \notin Workspaces /\ Owner \in Workspaces
      /\ reader.msg.id \in Requests \cup {NoRequest}
      /\ reader.msg.thread \in Threads \cup {NoThread}
      /\ reader.msg \in Truthful
  BY StepTypes, SessionAssumption DEF CInv, TypeOK, Said, ServerIsTruthful
<1>1. \A t \in Threads : t \in family'[t]
  BY <1>t, FamilyGrows DEF RoutesAreJustified
<1>2. ASSUME NEW t \in Threads, NEW w \in Workspaces, threadWorkspace'[t] = w
      PROVE  Justified(t, w)'
  <2>1. CASE threadWorkspace[t] = w
    BY <2>1, <1>t, JustifiedStays DEF RoutesAreJustified
  <2>2. ASSUME NEW q \in Requests, InsertContext(q), threadWorkspace[t] # w
        PROVE  Justified(t, w)'
    <3>1. call[q].thread = t /\ call[q].ws = w
      BY <1>2, <2>2, <1>t DEF InsertContext
    <3>2. Justified(t, w)
      BY <3>1 DEF Justified, RoutesAreJustified
    <3> QED BY <3>2, JustifiedStays
  <2>3. CASE Attribute /\ threadWorkspace[t] # w
    <3>1. \/ reader.from # NoWorkspace /\ t = reader.msg.thread /\ w = reader.from
          \/ w \in Closest(t)
      BY <1>2, <2>3, <1>t DEF Attribute
    <3>2. ASSUME reader.from # NoWorkspace, t = reader.msg.thread, w = reader.from
          PROVE  Justified(t, w)
      <4>1. reader.msg.id \in answered /\ call[reader.msg.id].ws = w
        BY <3>2 DEF RoutesAreJustified
      <4>2. reader.msg.id \in Requests /\ reader.msg.id # NoRequest
        BY <4>1, <1>t, RequestNumbers DEF TypeOK
      <4>3. \/ call[reader.msg.id].thread = t
            \/ starter[t] = w
        BY <3>2, <4>1, <4>2, <1>t, SessionAssumption DEF Truthful
      <4> QED BY <4>1, <4>2, <4>3 DEF Justified, RoutesAreJustified
    <3>3. w \in Closest(t) => Justified(t, w)
      BY DEF Closest, Justified, RoutesAreJustified
    <3> QED BY <3>1, <3>2, <3>3, JustifiedStays
  <2>4. CASE NoteItem /\ threadWorkspace[t] # w
    <3>1. t \in reader.msg.others \cup {reader.msg.thread} /\ w = reader.route
      BY <1>2, <2>4 DEF NoteItem
    <3>2. CASE w = Owner
      BY <3>2, <1>1 DEF Justified
    <3>3. CASE w # Owner
      <4>1. reader.msg.thread \in Threads /\ Justified(reader.msg.thread, w)
        BY <2>4, <3>1, <3>3 DEF RoutesAreJustified, NoteItem, At
      <4>2. CASE t = reader.msg.thread
        BY <4>1, <4>2, JustifiedStays
      <4>3. CASE t \in reader.msg.others
        <5>1. PICK s \in Threads : s = reader.msg.thread /\ Justified(s, w)
          BY <4>1
        <5>2. Justified(s, w)'
          BY <5>1, JustifiedStays
        <5>3. family[s] \subseteq family'[t]
          BY <2>4, <4>3, <5>1, <1>t DEF NoteItem, TypeOK
        <5>4. UNCHANGED <<call, starter>>
          BY <2>4 DEF NoteItem
        <5> QED BY <5>1, <5>3, <5>4 DEF Justified
      <4> QED BY <3>1, <4>2, <4>3
    <3> QED BY <3>2, <3>3
  <2>5. CASE NoteArchived /\ threadWorkspace[t] # w
    BY <1>2, <2>5, <1>t DEF NoteArchived, TypeOK
  <2>6. CASE UNCHANGED threadWorkspace
    BY <1>2, <2>1, <2>6
  <2> QED BY <2>1, <2>2, <2>3, <2>4, <2>5, <2>6, RouteFootprint
<1>3. ASSUME reader'.from # NoWorkspace
      PROVE  reader'.msg.id \in answered' /\ reader'.from = call'[reader'.msg.id].ws
  <2>1. CASE ReadLine
    <3>1. /\ reader'.msg = Head(outbox) /\ UNCHANGED <<call, answered>>
          /\ Head(outbox).id \in context /\ reader'.from = call[Head(outbox).id].ws
          /\ outbox # <<>>
      BY <1>3, <2>1 DEF ReadLine
    <3>2. Head(outbox) \in Truthful /\ Head(outbox).id # NoRequest
      BY <3>1, <1>t, RequestNumbers, HeadTailProperties DEF CInv, ServerIsTruthful, TypeOK
    <3> QED BY <3>1, <3>2 DEF Truthful
  <2>2. CASE reader'.msg = reader.msg /\ reader'.from = reader.from
    <3>1. reader.msg.id \in answered /\ reader.from = call[reader.msg.id].ws
      BY <1>3, <2>2 DEF RoutesAreJustified
    <3>2. reader.msg.id \in Requests /\ Stage(reader.msg.id) # "unused"
      BY <3>1, <1>t DEF CInv, AskedOnce, Early, TypeOK
    <3> QED BY <2>2, <3>1, <3>2, <1>t, CallsAreKept DEF CInv
  <2> QED BY <2>1, <2>2, <1>t, ReaderFootprint
<1>4. ASSUME reader'.at = "note", reader'.route # Owner
      PROVE  \E s \in Threads, w \in Workspaces :
                /\ reader'.msg.thread = s /\ reader'.route = w
                /\ Justified(s, w)'
  <2>1. CASE Route
    <3>1. reader'.route = RouteOf(reader.msg.thread) /\ reader'.msg = reader.msg
      BY <2>1, <1>t DEF Route, TypeOK
    <3>2. PICK s \in Threads : s = reader.msg.thread /\ threadWorkspace[s] # NoWorkspace
                               /\ reader'.route = threadWorkspace[s]
      BY <1>4, <3>1 DEF RouteOf
    <3>3. threadWorkspace[s] \in Workspaces /\ Justified(s, threadWorkspace[s])
      BY <3>2, <1>t DEF RoutesAreJustified, TypeOK
    <3>4. PICK w \in Workspaces : w = threadWorkspace[s] /\ Justified(s, w)
      BY <3>3
    <3>5. Justified(s, w)'
      BY <3>4, JustifiedStays
    <3> QED BY <3>1, <3>2, <3>4, <3>5
  <2>2. CASE UNCHANGED reader
    <3>1. PICK s \in Threads, w \in Workspaces :
             s = reader.msg.thread /\ w = reader.route /\ Justified(s, w)
      BY <1>4, <2>2 DEF RoutesAreJustified, At
    <3>2. Justified(s, w)'
      BY <3>1, JustifiedStays
    <3> QED BY <2>2, <3>1, <3>2
  <2> QED BY <1>4, <2>1, <2>2, <1>t, ReaderFootprint
<1>5. \A t \in Threads :
          threadWorkspace'[t] # NoWorkspace => Justified(t, threadWorkspace[t])'
  <2>1. \A t \in Threads : threadWorkspace'[t] \in Workspaces \cup {NoWorkspace}
    BY <1>t DEF TypeOK
  <2> QED BY <1>2, <2>1 DEF Justified
<1>6. At("note")' =>
          \/ reader'.route = Owner
          \/ /\ reader'.msg.thread \in Threads
             /\ reader'.route \in Workspaces
             /\ Justified(reader.msg.thread, reader.route)'
  BY <1>4 DEF At, Justified
<1> QED BY <1>1, <1>3, <1>5, <1>6 DEF RoutesAreJustified

LEMMA JustifiedInit == Init => RoutesAreJustified
  BY DEF Init, RoutesAreJustified, At

\* Routing never hands a thread's events to a bystander: for any workspaces,
\* threads, roots and server output.
THEOREM NoBystanderHears == Spec => []NoCrossTalk
<1>1. CInv /\ RoutesAreJustified => NoCrossTalk
  BY SessionAssumption DEF RoutesAreJustified, NoCrossTalk, Justified
<1>2. CInv /\ RoutesAreJustified /\ [Next]_vars => RoutesAreJustified'
  BY JustifiedStep
<1> QED BY <1>1, <1>2, JustifiedInit, CInvInit, CInvStep, PTL DEF Spec

-----------------------------------------------------------------------------
(* Memory threads are silent *)

StartOf(m, t) == m.id = NoRequest /\ m.method = "started" /\ m.thread = t
Coming(t, n) ==
    \/ At("route") /\ StartOf(reader.msg, t)
    \/ \E j \in 1 .. n : StartOf(outbox[j], t)
Quiet(t) == t \in hidden \/ Archived(t)

MemoryIsHidden ==
    /\ reader.at \in {"route", "note", "emit"} => reader.msg.id = NoRequest
    /\ \A t \in MemoryThreads :
          /\ t \in created => Quiet(t) \/ Coming(t, Len(outbox))
          /\ \A i \in 1 .. Len(outbox) :
                outbox[i].thread = t /\ outbox[i].id = NoRequest =>
                   Quiet(t) \/ StartOf(outbox[i], t) \/ Coming(t, i - 1)
          /\ At("route") /\ reader.msg.thread = t => Quiet(t) \/ StartOf(reader.msg, t)
          /\ reader.at \in {"note", "emit"} /\ reader.msg.thread = t =>
                Archived(t) \/ reader.msg.method \in {"background", "archived"}

\* A thread that is hidden or archived stays one of both.
LEMMA QuietStays ==
  ASSUME CInv, [Next]_vars, NEW t \in MemoryThreads, Quiet(t)
  PROVE  Quiet(t)'
<1>1. CASE Archived(t)
  BY <1>1, ArchivedIsKept DEF Quiet
<1>2. CASE t \in hidden /\ NoteArchived
  <2>1. reader.msg.thread = t => Archived(t)
    BY <1>2 DEF NoteArchived, CInv, ServerIsTruthful, Truthful
  <2> QED BY <1>2, <2>1, ArchivedIsKept DEF Quiet, NoteArchived
<1>3. CASE t \in hidden /\ ~NoteArchived
  <2>1. hidden \subseteq hidden'
    <3>1. CASE \E r \in Requests : Caller(r) \/ Timeout(r) \/ Abandon(r)
      BY <3>1 DEF Caller, InsertPending, InsertContext, WriteOk, WriteFails, Timeout, Abandon,
         Forget, tables
    <3>2. CASE \E r \in Requests, w \in Workspaces, m \in Methods : Ask(r, w, m)
      BY <3>2 DEF Ask, Call
    <3>3. CASE \E w \in Sharers : Register(w) \/ Unregister(w)
      BY <3>3 DEF Register, Unregister
    <3>4. CASE Reader
      BY <3>4, <1>3 DEF Reader, ReadLine, Attribute, Deliver, HideMemoryThread, Suppress, Route,
         NoteItem, EmitEvent, EndPending, EndContext, tables
    <3>5. CASE Server
      BY <3>5 DEF Server, Answer, Announce, Exit, tables
    <3>6. CASE UNCHANGED vars
      BY <3>6 DEF vars, tables
    <3> QED BY <3>1, <3>2, <3>3, <3>4, <3>5, <3>6 DEF Next
  <2> QED BY <1>3, <2>1 DEF Quiet
<1> QED BY <1>1, <1>2, <1>3 DEF Quiet

\* Who waits for the start of a thread need not care how much output follows.
LEMMA ComingGrows ==
  ASSUME NEW t, NEW n \in Nat, NEW k \in Nat, n <= k, Coming(t, n)
  PROVE  Coming(t, k)
  BY DEF Coming

\* What the server adds comes last.
LEMMA OutputGrows ==
  ASSUME TypeOK, NEW ms \in Seq(Said), outbox' = outbox \o ms
  PROVE  /\ Len(outbox') = Len(outbox) + Len(ms)
         /\ Len(ms) \in Nat /\ Len(outbox) \in Nat
         /\ \A i \in 1 .. Len(outbox) : outbox'[i] = outbox[i]
         /\ \A i \in Len(outbox) + 1 .. Len(outbox') : outbox'[i] = ms[i - Len(outbox)]
<1>1. outbox \in Seq(Said)
  BY DEF TypeOK
<1>2. /\ Len(outbox') = Len(outbox) + Len(ms)
      /\ \A i \in 1 .. Len(outbox) + Len(ms) :
            outbox'[i] = IF i <= Len(outbox) THEN outbox[i] ELSE ms[i - Len(outbox)]
  BY <1>1, ConcatProperties
<1>3. Len(ms) \in Nat /\ Len(outbox) \in Nat
  BY <1>1, LenProperties
<1> QED BY <1>2, <1>3

\* Reading a line shifts the output.
LEMMA OutputShifts ==
  ASSUME TypeOK, ReadLine
  PROVE  /\ Len(outbox) \in Nat \ {0} /\ Len(outbox') = Len(outbox) - 1
         /\ \A i \in 1 .. Len(outbox') : outbox'[i] = outbox[i + 1]
         /\ reader'.msg = outbox[1]
         /\ reader'.at = IF outbox[1].id = NoRequest THEN "route" ELSE "attribute"
<1>1. outbox \in Seq(Said) /\ outbox # <<>> /\ outbox' = Tail(outbox)
      /\ reader'.msg = Head(outbox)
      /\ reader'.at = IF Head(outbox).id = NoRequest THEN "route" ELSE "attribute"
  BY DEF ReadLine, TypeOK
<1>2. Len(outbox) \in Nat \ {0}
  BY <1>1, EmptySeq
<1>3. Head(outbox) = outbox[1]
  BY <1>1, <1>2
<1>4. /\ Len(outbox') = Len(outbox) - 1
      /\ \A i \in 1 .. Len(outbox') : outbox'[i] = outbox[i + 1]
  BY <1>1, HeadTailProperties
<1> QED BY <1>1, <1>2, <1>3, <1>4

\* A start on its way arrives, and then hides the thread.
LEMMA ComingStays ==
  ASSUME CInv, [Next]_vars, ~ReadLine, NEW t \in MemoryThreads,
         NEW n \in 0 .. Len(outbox), Coming(t, n)
  PROVE  Coming(t, n)' \/ Quiet(t)'
<1>t. TypeOK
  BY DEF CInv
<1>l. Len(outbox) \in Nat
  BY <1>t, LenProperties DEF TypeOK
<1>1. ASSUME NEW j \in 1 .. n, StartOf(outbox[j], t)
      PROVE  Coming(t, n)'
  <2>1. ASSUME NEW r \in Requests, Answer(r) PROVE outbox'[j] = outbox[j]
    BY <2>1, <1>t, <1>l, AnswerSays, OutputGrows DEF AnswerEffect
  <2>2. ASSUME NEW m \in Announcements, Announce(m) PROVE outbox'[j] = outbox[j]
    <3>1. PICK th \in Threads \cup {NoThread}, ts \in SUBSET Threads : AnnounceEffect(m, th, ts)
      BY <2>2, <1>t, AnnounceSays
    <3>2. <<Event(m, th, ts)>> \in Seq(Said)
      BY <3>1, Utterances DEF AnnounceEffect
    <3> QED BY <3>1, <3>2, <1>t, <1>l, OutputGrows DEF AnnounceEffect
  <2>3. outbox'[j] = outbox[j]
    BY <2>1, <2>2, <1>t, OutputFootprint DEF TypeOK
  <2> QED BY <1>1, <2>3 DEF Coming, StartOf
<1>2. ASSUME At("route"), StartOf(reader.msg, t)
      PROVE  Coming(t, n)' \/ Quiet(t)'
  <2>1. IsMemoryStart(reader.msg)
    BY <1>2 DEF StartOf, IsMemoryStart
  <2>2. CASE HideMemoryThread
    BY <1>2, <2>2 DEF HideMemoryThread, Quiet, StartOf
  <2>3. CASE Reader /\ ~HideMemoryThread
    BY <1>2, <2>1, <2>3 DEF Reader, ReadLine, Attribute, Deliver, Suppress, Route, NoteItem,
       NoteArchived, EmitEvent, EndPending, EndContext, At
  <2>4. CASE UNCHANGED reader
    BY <1>2, <2>4 DEF Coming, At, StartOf
  <2> QED BY <2>2, <2>3, <2>4, RouteFootprint
<1> QED BY <1>1, <1>2 DEF Coming

\* Where the memory threads' messages may be.
MessagesAreQuiet(t) ==
    \A i \in 1 .. Len(outbox) :
        outbox[i].thread = t /\ outbox[i].id = NoRequest =>
            Quiet(t) \/ StartOf(outbox[i], t) \/ Coming(t, i - 1)

LEMMA CreatedAreQuiet ==
  ASSUME CInv, MemoryIsHidden, [Next]_vars, NEW t \in MemoryThreads
  PROVE  /\ t \in created' => Quiet(t)' \/ Coming(t, Len(outbox))'
         /\ MessagesAreQuiet(t)'
<1>t. TypeOK /\ MemoryThreads \subseteq Threads /\ NoThread \notin Threads
  BY SessionAssumption DEF CInv
<1>l. Len(outbox) \in Nat
  BY <1>t, LenProperties DEF TypeOK
<1>i. /\ t \in created => Quiet(t) \/ Coming(t, Len(outbox))
      /\ MessagesAreQuiet(t)
  BY DEF MemoryIsHidden, MessagesAreQuiet
<1>k. ASSUME ~ReadLine, NEW n \in 0 .. Len(outbox), Quiet(t) \/ Coming(t, n)
      PROVE  Quiet(t)' \/ Coming(t, n)'
  BY <1>k, QuietStays, ComingStays
<1>g. ASSUME ~ReadLine, NEW ms \in Seq(Said), outbox' = outbox \o ms,
             NEW i \in 1 .. Len(outbox), outbox'[i].thread = t, outbox'[i].id = NoRequest
      PROVE  Quiet(t)' \/ StartOf(outbox[i], t)' \/ Coming(t, i - 1)'
  <2>1. outbox'[i] = outbox[i]
    BY <1>g, <1>t, OutputGrows
  <2>2. Quiet(t) \/ StartOf(outbox[i], t) \/ Coming(t, i - 1)
    BY <1>g, <1>i, <2>1 DEF MessagesAreQuiet
  <2>3. i - 1 \in 0 .. Len(outbox)
    BY <1>l
  <2>4. CASE StartOf(outbox[i], t)
    BY <2>1, <2>4 DEF StartOf
  <2>5. CASE Quiet(t) \/ Coming(t, i - 1)
    <3> DEFINE n == i - 1
    <3>1. n \in 0 .. Len(outbox) /\ (Quiet(t) \/ Coming(t, n))
      BY <2>3, <2>5
    <3> HIDE DEF n
    <3>2. Quiet(t)' \/ Coming(t, n)'
      BY <3>1, <1>k, <1>g
    <3> QED BY <3>2 DEF n
  <2> QED BY <2>2, <2>4, <2>5
<1>1. ASSUME NEW r \in Requests, Answer(r)
      PROVE  /\ t \in created' => Quiet(t)' \/ Coming(t, Len(outbox))'
             /\ MessagesAreQuiet(t)'
  <2>0. ~ReadLine
    BY <1>1, RequestNumbers, <1>t DEF Answer, ReadLine, TypeOK
  <2>1. PICK th \in Threads \cup {NoThread}, ts \in SUBSET Threads, ms \in Seq(Said) :
           AnswerEffect(r, th, ts, ms)
    BY <1>1, <1>t, AnswerSays
  <2>2. outbox' = outbox \o ms
    BY <2>1 DEF AnswerEffect
  <2>3. t \in created' => t \in created
    BY <2>1 DEF AnswerEffect
  <2>4. /\ Len(outbox') = Len(outbox) + Len(ms) /\ Len(ms) \in Nat
        /\ \A i \in Len(outbox) + 1 .. Len(outbox') : outbox'[i] = ms[i - Len(outbox)]
    BY <2>2, <1>t, OutputGrows
  <2>5. t \in created' => Quiet(t)' \/ Coming(t, Len(outbox))'
    <3> DEFINE n == Len(outbox)
    <3> SUFFICES ASSUME t \in created' PROVE Quiet(t)' \/ Coming(t, Len(outbox))'
      OBVIOUS
    <3>1. PICK k \in Nat : k = Len(outbox)
      BY <1>l
    <3>2. Quiet(t)' \/ Coming(t, k)'
      BY <3>1, <1>k, <1>i, <2>0, <2>3
    <3>3. k <= Len(outbox')
      BY <3>1, <2>4, <1>l
    <3> QED BY <3>2, <3>3, <2>4 DEF Coming
  <2>6. ASSUME NEW i \in Len(outbox) + 1 .. Len(outbox'),
               outbox'[i].thread = t, outbox'[i].id = NoRequest
        PROVE  Quiet(t)'
    <3>1. i = Len(outbox) + 1 \/ i = Len(outbox) + 2
      BY <2>1, <2>4, <1>l DEF AnswerEffect
    <3>2. ms[1].id = r /\ r # NoRequest
      BY <2>1, RequestNumbers DEF AnswerEffect, Message
    <3>3. i = Len(outbox) + 2 /\ outbox'[i] = ms[2] /\ Len(ms) = 2
      BY <2>1, <2>4, <2>6, <3>1, <3>2, <1>l DEF AnswerEffect
    <3>4. call[r].method = "archive" /\ call[r].thread = t
      BY <2>1, <2>6, <3>3 DEF AnswerEffect, Event, Message
    <3>5. r \in answered' /\ UNCHANGED call
      BY <1>1 DEF Answer
    <3> QED BY <3>4, <3>5 DEF Quiet, Archived
  <2> QED BY <2>0, <2>2, <2>4, <2>5, <2>6, <1>g, <1>l DEF MessagesAreQuiet
<1>2. ASSUME NEW m \in Announcements, Announce(m)
      PROVE  /\ t \in created' => Quiet(t)' \/ Coming(t, Len(outbox))'
             /\ MessagesAreQuiet(t)'
  <2>1. PICK th \in Threads \cup {NoThread}, ts \in SUBSET Threads : AnnounceEffect(m, th, ts)
    BY <1>2, <1>t, AnnounceSays
  <2> DEFINE e == Event(m, th, ts)
  <2>2. /\ <<e>> \in Seq(Said) /\ Len(<<e>>) = 1 /\ <<e>>[1] = e
        /\ outbox' = outbox \o <<e>>
        /\ e.id = NoRequest /\ e.method = m /\ e.thread = th
    BY <2>1, Utterances DEF AnnounceEffect, Event, Message
  <2> HIDE DEF e
  <2>3. /\ Len(outbox') = Len(outbox) + 1
        /\ \A i \in 1 .. Len(outbox) : outbox'[i] = outbox[i]
        /\ outbox'[Len(outbox) + 1] = e
    BY <2>2, <1>t, <1>l, OutputGrows
  <2>0. ~ReadLine
    BY <2>3, <1>l, <1>t, OutputShifts
  <2>4. t \in created =>
           /\ Quiet(t)' \/ Coming(t, Len(outbox))'
           /\ \A i \in {Len(outbox) + 1} : Quiet(t)' \/ Coming(t, i - 1)'
    <3> SUFFICES ASSUME t \in created
                 PROVE  /\ Quiet(t)' \/ Coming(t, Len(outbox))'
                        /\ \A i \in {Len(outbox) + 1} : Quiet(t)' \/ Coming(t, i - 1)'
      OBVIOUS
    <3>1. PICK k \in Nat : k = Len(outbox)
      BY <1>l
    <3>2. Quiet(t)' \/ Coming(t, k)'
      BY <3>1, <1>k, <1>i, <2>0
    <3>3. \A i \in {k + 1} : i - 1 = k
      OBVIOUS
    <3> QED BY <3>1, <3>2, <3>3, <2>3 DEF Coming
  <2>7. ASSUME NEW i \in 1 .. Len(outbox'), i # Len(outbox) + 1,
               outbox'[i].thread = t, outbox'[i].id = NoRequest
        PROVE  Quiet(t)' \/ StartOf(outbox[i], t)' \/ Coming(t, i - 1)'
    <3>1. i \in 1 .. Len(outbox)
      BY <2>3, <2>7, <1>l
    <3> QED BY <2>0, <2>2, <2>7, <3>1, <1>g
  <2>5. CASE t \in created
    <3>2. ASSUME NEW i \in 1 .. Len(outbox'), outbox'[i].thread = t, outbox'[i].id = NoRequest
          PROVE  Quiet(t)' \/ StartOf(outbox[i], t)' \/ Coming(t, i - 1)'
      BY <2>4, <2>5, <2>7, <3>2
    <3>3. t \in created' => Quiet(t)' \/ Coming(t, Len(outbox))'
      <4>1. PICK k \in Nat : k = Len(outbox) /\ Len(outbox') = k + 1
        BY <1>l, <2>3
      <4>2. Quiet(t)' \/ Coming(t, k)'
        BY <1>i, <1>k, <2>0, <2>5, <4>1
      <4> QED BY <4>1, <4>2 DEF Coming
    <3> QED BY <3>2, <3>3 DEF MessagesAreQuiet
  <2>6. CASE t \notin created
    <3>1. t = th => m = "started"
      BY <2>1, <2>6, <1>t DEF AnnounceEffect
    <3>2. t \in created' => t = th /\ m = "started"
      BY <2>1, <2>6, <1>t DEF AnnounceEffect
    <3>3. t = th => StartOf(outbox'[Len(outbox) + 1], t)
      BY <3>1, <2>2, <2>3 DEF StartOf
    <3>4. t \in created' => Coming(t, Len(outbox))'
      BY <3>2, <3>3, <2>3, <1>l DEF Coming, StartOf
    <3>5. ASSUME NEW i \in 1 .. Len(outbox'), outbox'[i].thread = t, outbox'[i].id = NoRequest
          PROVE  Quiet(t)' \/ StartOf(outbox[i], t)' \/ Coming(t, i - 1)'
      <4>1. CASE i = Len(outbox) + 1
        BY <2>2, <2>3, <3>3, <3>5, <4>1 DEF StartOf
      <4> QED BY <2>7, <3>5, <4>1
    <3>6. MessagesAreQuiet(t)'
      BY <3>5 DEF MessagesAreQuiet
    <3> QED BY <3>4, <3>6
  <2> QED BY <2>5, <2>6
<1>3. CASE ReadLine
  <2>1. /\ Len(outbox') = Len(outbox) - 1 /\ Len(outbox) \in Nat \ {0}
        /\ \A i \in 1 .. Len(outbox') : outbox'[i] = outbox[i + 1]
        /\ reader'.msg = outbox[1]
        /\ reader'.at = IF outbox[1].id = NoRequest THEN "route" ELSE "attribute"
        /\ At("line")
    BY <1>3, <1>t, OutputShifts DEF ReadLine
  <2>2. ASSUME NEW n \in 0 .. Len(outbox), NEW k \in Nat, k + 1 = n \/ (n = 0 /\ k = 0),
               Coming(t, n)
        PROVE  Coming(t, k)'
    <3>1. PICK j \in 1 .. n : StartOf(outbox[j], t)
      BY <2>1, <2>2 DEF Coming, At
    <3>2. CASE j = 1
      BY <2>1, <3>1, <3>2 DEF Coming, StartOf, At
    <3>3. CASE j # 1
      <4>1. j - 1 \in 1 .. k /\ outbox'[j - 1] = outbox[j]
        BY <2>1, <2>2, <3>3
      <4> QED BY <3>1, <4>1 DEF Coming, StartOf
    <3> QED BY <3>2, <3>3
  <2>3. t \in created' => Quiet(t)' \/ Coming(t, Len(outbox))'
    <3>1. created' = created
      BY <1>3 DEF ReadLine
    <3>2. PICK n \in Nat, k \in Nat : n = Len(outbox) /\ k = Len(outbox') /\ k + 1 = n
      BY <2>1
    <3>3. t \in created => Quiet(t) \/ Coming(t, n)
      BY <1>i, <3>2
    <3>4. t \in created => Quiet(t)' \/ Coming(t, k)'
      BY <2>2, <3>2, <3>3, QuietStays
    <3> QED BY <3>1, <3>2, <3>4 DEF Coming
  <2>4. ASSUME NEW i \in 1 .. Len(outbox'), outbox'[i].thread = t, outbox'[i].id = NoRequest
        PROVE  Quiet(t)' \/ StartOf(outbox[i], t)' \/ Coming(t, i - 1)'
    <3>1. outbox'[i] = outbox[i + 1] /\ i + 1 \in 1 .. Len(outbox)
      BY <2>1
    <3>2. PICK n \in Nat : n = i
      BY <2>1
    <3>3. Quiet(t) \/ StartOf(outbox[i + 1], t) \/ Coming(t, n)
      BY <1>i, <2>4, <3>1, <3>2 DEF MessagesAreQuiet
    <3>4. PICK k \in Nat : k + 1 = n /\ n \in 0 .. Len(outbox)
      <4>1. i \in Nat \ {0} /\ i <= Len(outbox)
        BY <2>1
      <4>2. n - 1 \in Nat /\ (n - 1) + 1 = n /\ n \in 0 .. Len(outbox)
        BY <2>1, <3>2, <4>1
      <4> QED BY <4>2
    <3>5. Coming(t, n) => Coming(t, k)'
      BY <2>2, <3>4
    <3>6. k = i - 1
      BY <3>2, <3>4
    <3> QED BY <3>1, <3>3, <3>5, <3>6, QuietStays DEF StartOf, Coming
  <2> QED BY <2>3, <2>4 DEF MessagesAreQuiet
<1>4. CASE ~ReadLine /\ UNCHANGED <<outbox, created>>
  <2>1. outbox' = outbox \o <<>> /\ <<>> \in Seq(Said)
    BY <1>4, <1>t, ConcatEmptySeq DEF TypeOK
  <2>2. PICK n \in Nat : n = Len(outbox)
    BY <1>l
  <2>3. t \in created => Quiet(t)' \/ Coming(t, n)'
    BY <1>i, <1>k, <1>4, <2>2
  <2>4. t \in created' => Quiet(t)' \/ Coming(t, Len(outbox))'
    BY <1>4, <2>2, <2>3 DEF Coming
  <2>5. MessagesAreQuiet(t)'
    BY <1>4, <2>1, <1>g DEF MessagesAreQuiet
  <2> QED BY <2>4, <2>5
<1> QED BY <1>1, <1>2, <1>3, <1>4, <1>t, OutputFootprint DEF TypeOK

LEMMA HiddenStep ==
  ASSUME CInv, MemoryIsHidden, [Next]_vars
  PROVE  MemoryIsHidden'
<1>t. TypeOK
  BY DEF CInv
<1>m. ReadLine \/ reader'.msg = reader.msg
  BY <1>t, ReaderFootprint
<1>a. /\ reader'.at = "route" => ReadLine \/ UNCHANGED reader
      /\ reader'.at \in {"note", "emit"} =>
            \/ UNCHANGED reader
            \/ Route
            \/ reader.at = "note"
  <2>1. CASE UNCHANGED reader
    BY <2>1
  <2>2. CASE ReadLine
    BY <2>2 DEF ReadLine
  <2>3. CASE Attribute \/ Deliver \/ HideMemoryThread \/ Suppress \/ EmitEvent
    BY <2>3, <1>t DEF Attribute, Deliver, HideMemoryThread, Suppress, EmitEvent, NextLine, Goto,
       TypeOK
  <2>4. CASE NoteItem \/ NoteArchived \/ EndPending \/ EndContext
    BY <2>4, <1>t DEF NoteItem, NoteArchived, EndPending, EndContext, Goto, TypeOK, At
  <2>5. CASE Route
    <3>1. reader'.at = IF reader.msg.method \in {"item", "archived"} THEN "note" ELSE "emit"
      BY <2>5, <1>t DEF Route, TypeOK
    <3> QED BY <2>5, <3>1
  <2> QED BY <2>1, <2>2, <2>3, <2>4, <2>5, RouteFootprint DEF Reader
<1>1. reader'.at \in {"route", "note", "emit"} => reader'.msg.id = NoRequest
  <2>1. CASE ReadLine
    BY <2>1, <1>t, OutputShifts
  <2>2. CASE ~ReadLine
    <3>1. reader'.at \in {"route", "note", "emit"} => reader.at \in {"route", "note", "emit"}
      BY <1>a, <2>2 DEF Route, At
    <3> QED BY <3>1, <2>2, <1>m DEF MemoryIsHidden
  <2> QED BY <2>1, <2>2
<1>2. ASSUME NEW t \in MemoryThreads, reader'.at = "route", reader'.msg.thread = t
      PROVE  Quiet(t)' \/ StartOf(reader.msg, t)'
  <2>1. CASE ReadLine
    <3>1. /\ Len(outbox) \in Nat \ {0} /\ reader'.msg = outbox[1] /\ outbox[1].id = NoRequest
      BY <1>2, <2>1, <1>t, OutputShifts
    <3>2. Quiet(t) \/ StartOf(outbox[1], t) \/ Coming(t, 1 - 1)
      BY <1>2, <3>1 DEF MemoryIsHidden
    <3>3. ~Coming(t, 1 - 1)
      BY <2>1 DEF Coming, ReadLine, At
    <3> QED BY <3>1, <3>2, <3>3, QuietStays DEF StartOf
  <2>2. CASE UNCHANGED reader
    <3>1. Quiet(t) \/ StartOf(reader.msg, t)
      BY <1>2, <2>2 DEF MemoryIsHidden, At
    <3> QED BY <2>2, <3>1, QuietStays DEF StartOf
  <2> QED BY <1>2, <2>1, <2>2, <1>a
<1>3. ASSUME NEW t \in MemoryThreads, reader'.at \in {"note", "emit"}, reader'.msg.thread = t
      PROVE  Archived(t)' \/ reader'.msg.method \in {"background", "archived"}
  <2>0. reader'.msg = reader.msg
    BY <1>3, <1>m DEF ReadLine
  <2>1. CASE reader.at \in {"note", "emit"}
    BY <1>3, <2>0, <2>1, ArchivedIsKept DEF MemoryIsHidden
  <2>2. CASE Route
    <3>1. /\ ~IsMemoryStart(reader.msg) /\ reader.msg.id = NoRequest
          /\ t \in hidden => reader.msg.method \in {"archived", "background"}
          /\ Quiet(t) \/ StartOf(reader.msg, t)
      BY <1>3, <2>0, <2>2 DEF Route, MemoryIsHidden, At
    <3>2. ~StartOf(reader.msg, t)
      BY <3>1 DEF StartOf, IsMemoryStart
    <3> QED BY <3>1, <3>2, <2>0, ArchivedIsKept DEF Quiet
  <2> QED BY <1>3, <2>1, <2>2, <1>a
<1> QED BY <1>1, <1>2, <1>3, CreatedAreQuiet DEF MemoryIsHidden, MessagesAreQuiet, At

LEMMA HiddenInit == Init => MemoryIsHidden
  BY DEF Init, MemoryIsHidden, At

\* Of a memory-consolidation thread the frontend hears that it is hidden, and
\* nothing else until it is archived: however the server's messages, the
\* answers that list the thread and the callers interleave.
THEOREM MemoryStaysSilent == Spec => MemoryThreadsAreSilent
<1>1. ASSUME CInv, MemoryIsHidden, [Next]_vars, emitted' # emitted,
             emitted'.thread \in MemoryThreads
      PROVE  emitted'.method \in {"background", "archived"} \/ Archived(emitted'.thread)
  <2>1. CASE ReadLine
    BY <1>1, <2>1, SessionAssumption DEF ReadLine, NoEmission
  <2>2. CASE HideMemoryThread
    BY <2>2 DEF HideMemoryThread, Emit
  <2>3. CASE EmitEvent
    <3>1. /\ emitted'.method = reader.msg.method /\ emitted'.thread = reader.msg.thread
          /\ reader.at = "emit"
      BY <1>1, <2>3 DEF EmitEvent, Emit, At
    <3> QED BY <1>1, <3>1 DEF MemoryIsHidden, Archived
  <2>4. CASE Reader /\ ~ReadLine /\ ~HideMemoryThread /\ ~EmitEvent
    BY <1>1, <2>4 DEF Reader, Attribute, Deliver, Suppress, Route, NoteItem, NoteArchived,
       EndPending, EndContext
  <2>5. CASE \E r \in Requests : Caller(r) \/ Timeout(r) \/ Abandon(r)
    BY <1>1, <2>5 DEF Caller, InsertPending, InsertContext, WriteOk, WriteFails, Timeout, Abandon
  <2>6. CASE \E r \in Requests, w \in Workspaces, m \in Methods : Ask(r, w, m)
    BY <1>1, <2>6 DEF Ask, Call
  <2>7. CASE \E w \in Sharers : Register(w) \/ Unregister(w)
    BY <1>1, <2>7 DEF Register, Unregister
  <2>8. CASE Server
    BY <1>1, <2>8 DEF Server, Answer, Announce, Exit
  <2>9. CASE UNCHANGED vars
    BY <1>1, <2>9 DEF vars
  <2> QED BY <1>1, <2>1, <2>2, <2>3, <2>4, <2>5, <2>6, <2>7, <2>8, <2>9 DEF Next
<1>2. CInv /\ MemoryIsHidden /\ [Next]_vars =>
        [ /\ emitted' # emitted
          /\ emitted'.thread \in MemoryThreads
          => \/ emitted'.method \in {"background", "archived"}
             \/ \E q \in answered : call[q].method = "archive"
                                    /\ call[q].thread = emitted'.thread ]_vars
  BY <1>1 DEF Archived
<1>3. CInv /\ MemoryIsHidden /\ [Next]_vars => MemoryIsHidden'
  BY HiddenStep
<1> QED BY <1>2, <1>3, HiddenInit, CInvInit, CInvStep, PTL DEF Spec, MemoryThreadsAreSilent

---------------------------------------------------------------------------
(***************************************************************************)
(* The background prompts composed with the session.                       *)
(*                                                                         *)
(* The composition adds to the session's steps requests that the prompts   *)
(* make and steps on the collectors.  The session's invariant CInv         *)
(* survives both (CallKeepsSession, CollectorsKeepSession), and all that   *)
(* the prompts rely on in any step of the session is `Follows`.            *)
(*                                                                         *)
(* A prompt's thread is its own because two requests never start one       *)
(* thread (StartsApart), which is followed from the answer through the     *)
(* output to the caller; so no other prompt's end takes its collector      *)
(* away, and its own end leaves none.                                      *)
(***************************************************************************)

\* The locals of a prompt.
PromptPcs == {"idle", "starting", "hidden", "listening", "turning", "collecting",
              "unlisten", "archive", "archiving", "returned"}
Locals == [at : PromptPcs, ws : Workspaces \cup {NoWorkspace},
           req : Requests \cup {NoRequest}, thread : Threads \cup {NoThread},
           text : BOOLEAN, ok : BOOLEAN]

PromptTypes == prompt \in [Prompts -> Locals] /\ callbacks \subseteq Threads

\* Request r was told, or is going to be told, that it started thread t.
Starts(r, t) ==
    /\ call[r].method = "start"
    /\ \/ call[r].thread = t
       \/ reader.msg.id = r /\ reader.msg.thread = t
       \/ \E i \in 1 .. Len(outbox) : outbox[i].id = r /\ outbox[i].thread = t

\* No two requests start one thread, and none starts a memory thread.
StartsApart ==
    /\ \A r, q \in Requests, t \in Threads : Starts(r, t) /\ Starts(q, t) => r = q
    /\ \A r \in Requests, t \in MemoryThreads : ~Starts(r, t)

\* Where a prompt's collector is in the session's table.
Listening == {"listening", "turning", "collecting", "unlisten"}

\* What a prompt has done for its thread.
PromptKnows(b) ==
    LET p == prompt[b] IN
    /\ p.at = "starting" =>
          p.req \in Requests /\ call[p.req].method = "start" /\ call[p.req].ws = p.ws
    /\ p.at \in {"idle", "starting"} => p.thread = NoThread
    /\ p.at \notin {"idle", "starting", "returned"} => p.thread # NoThread /\ p.ws \in Workspaces
    /\ p.at = "turning" => p.req \in Requests
    /\ p.thread # NoThread => p.thread \in created \ MemoryThreads
    /\ p.at \in Listening => p.thread \in callbacks
    /\ p.at = "archiving" =>
          /\ p.req \in Requests
          /\ call[p.req].method = "archive" /\ call[p.req].thread = p.thread
    /\ p.at = "returned" /\ p.thread # NoThread =>
          \E r \in Requests : call[r].method = "archive" /\ call[r].thread = p.thread

\* Two prompts have two threads, now and when their starts are answered.
Apart(b, d) ==
    /\ prompt[b].thread # NoThread =>
          /\ prompt[d].thread # prompt[b].thread
          /\ prompt[d].at = "starting" => ~Starts(prompt[d].req, prompt[b].thread)
    /\ prompt[b].at = "starting" /\ prompt[d].at = "starting" =>
          prompt[b].req # prompt[d].req

PromptsApart == \A b, d \in Prompts : b # d => Apart(b, d)

\* A collector belongs to a prompt that listens.
CollectorsAreOwned ==
    \A t \in callbacks : \E b \in Prompts : prompt[b].thread = t /\ prompt[b].at \in Listening

\* The invariant of the composition.
BInv == CInv /\ PromptTypes /\ StartsApart /\ (\A b \in Prompts : PromptKnows(b))
             /\ PromptsApart /\ CollectorsAreOwned

-----------------------------------------------------------------------------
(* The session under the prompts *)

\* What a prompt asks of the session.
PromptCall(r, w, m, t) ==
    /\ w \in Workspaces /\ m \in {"start", "use", "archive"} /\ t \in Threads \cup {NoThread}
    /\ m = "start" => t = NoThread
    /\ Call(r, w, m, t)

\* Only the collectors are touched.
Collectors == UNCHANGED <<nextId, call, pending, context, threadWorkspace, hidden, workspaceIds,
                          roots, reader, server, emitted>>

\* A new request, and what stays as it is.
NewRequest(r, w, m, t) ==
    /\ r \in Requests /\ r = nextId /\ call[r] = Unsent /\ r \notin received \cup answered
    /\ call'[r] = [stage |-> "called", ws |-> w, method |-> m, thread |-> t]
    /\ \A q \in Requests : q # r => call'[q] = call[q]
    /\ nextId' = nextId + 1 /\ workspaceIds' = workspaceIds \cup {w}
    /\ UNCHANGED <<pending, context, threadWorkspace, hidden, callbacks, channel, roots,
                   reader, emitted, running, received, answered, outbox, created, starter,
                   family, announced>>

LEMMA CallEffect ==
  ASSUME CInv, NEW r, NEW w, NEW m, NEW t, PromptCall(r, w, m, t)
  PROVE  NewRequest(r, w, m, t)
<1>1. /\ r \in Requests /\ r = nextId /\ nextId' = nextId + 1
      /\ call' = [call EXCEPT ![r] = [stage |-> "called", ws |-> w, method |-> m, thread |-> t]]
      /\ workspaceIds' = workspaceIds \cup {w}
      /\ UNCHANGED <<pending, context, threadWorkspace, hidden, callbacks, channel, roots,
                     reader, emitted, running, received, answered, outbox, created, starter,
                     family, announced>>
  BY DEF PromptCall, Call, server
<1>2. call \in [Requests -> Requested]
  BY DEF CInv, TypeOK
<1>3. r \in Nat
  BY <1>1, RequestNumbers
<1>4. call[r] = Unsent
  BY <1>1, <1>3 DEF CInv, AskedOnce
<1>5. r \notin received \cup answered
  BY <1>4 DEF CInv, AskedOnce, Stage, Unsent, Early
<1> QED BY <1>1, <1>2, <1>4, <1>5 DEF NewRequest

LEMMA CallKeepsTypes ==
  ASSUME CInv, NEW r, NEW w, NEW m, NEW t, PromptCall(r, w, m, t)
  PROVE  TypeOK' /\ PendingIsExact' /\ AskedOnce'
<1>e. NewRequest(r, w, m, t)
  BY CallEffect
<1>t. /\ TypeOK /\ call \in [Requests -> Requested] /\ r \in Requests
      /\ r \in Nat /\ nextId \in Nat /\ MaxRequests \in Nat
  BY <1>e, RequestNumbers, SessionAssumption DEF CInv, TypeOK, NewRequest
<1>m. m \in AllMethods /\ w \in Workspaces /\ t \in Threads \cup {NoThread}
  BY DEF PromptCall, AllMethods
<1>1. TypeOK'
  <2>1. "called" \in Stages
    BY DEF Stages
  <2>2. call' \in [Requests -> Requested]
    BY <1>t, <1>m, <2>1, CallTypes DEF PromptCall, Call
  <2>3. nextId' \in 1 .. MaxRequests + 1
    BY <1>t, <1>e DEF Requests, NewRequest
  <2>4. workspaceIds' \subseteq Workspaces
    BY <1>t, <1>e, <1>m DEF NewRequest, TypeOK
  <2> QED BY <1>t, <1>e, <2>2, <2>3, <2>4 DEF TypeOK, NewRequest
<1>2. PendingIsExact'
  <2>1. call[r].stage = "unused" /\ call'[r].stage = "called" /\ pending' = pending
        /\ \A q \in Requests : q # r => call'[q] = call[q]
    BY <1>e DEF NewRequest, Unsent
  <2>2. r \notin pending
    BY <2>1 DEF CInv, PendingIsExact, Stage
  <2>3. pending \subseteq Requests
    BY <1>t DEF TypeOK
  <2> QED BY <2>1, <2>2, <2>3 DEF CInv, PendingIsExact, Stage
<1>3. AskedOnce'
  <2>2. ASSUME NEW q \in Requests
        PROVE  IF q < nextId'
               THEN call'[q].ws \in Workspaces /\ call'[q].method \in AllMethods
                    /\ call'[q].stage # "unused"
               ELSE call'[q] = Unsent
    <3>1. q \in Nat
      BY RequestNumbers
    <3>2. CASE q = r
      BY <1>t, <1>e, <1>m, <3>2 DEF NewRequest
    <3>3. CASE q # r
      <4>1. call'[q] = call[q] /\ (q < nextId' <=> q < nextId)
        BY <1>t, <1>e, <3>1, <3>3 DEF NewRequest
      <4>2. IF q < nextId
            THEN call[q].ws \in Workspaces /\ call[q].method \in AllMethods
                 /\ call[q].stage # "unused"
            ELSE call[q] = Unsent
        BY DEF CInv, AskedOnce, Stage
      <4> QED BY <4>1, <4>2
    <3> QED BY <3>2, <3>3
  <2>3. \A q \in received' \cup answered' : call'[q].stage \notin Early
    BY <1>t, <1>e DEF NewRequest, CInv, AskedOnce, TypeOK, Stage
  <2>4. received' \cap answered' = {}
    BY <1>e DEF NewRequest, CInv, AskedOnce
  <2> QED BY <2>2, <2>3, <2>4 DEF AskedOnce, Stage
<1> QED BY <1>1, <1>2, <1>3

LEMMA CallKeepsTruth ==
  ASSUME CInv, NEW r, NEW w, NEW m, NEW t, PromptCall(r, w, m, t)
  PROVE  ServerIsTruthful' /\ StartedOnce'
<1>e. NewRequest(r, w, m, t)
  BY CallEffect
<1>a. answered' = answered /\ starter' = starter /\ created' = created
      /\ answered \subseteq Requests /\ \A q \in answered : call'[q] = call[q]
  BY <1>e DEF NewRequest, CInv, TypeOK
<1>1. Truthful \subseteq Truthful'
  <2> SUFFICES ASSUME NEW x \in Truthful PROVE x \in Truthful'
    OBVIOUS
  <2>1. x.method = "archived" => Archived(x.thread)'
    BY <1>a DEF Truthful, Archived
  <2> QED BY <1>a, <2>1 DEF Truthful
<1>2. ServerIsTruthful'
  <2>1. reader' = reader /\ outbox' = outbox
    BY <1>e DEF NewRequest
  <2> QED BY <1>1, <2>1, SeqMonotonic DEF CInv, ServerIsTruthful
<1>3. StartedOnce'
  <2>1. call'[r].method = "start" => call'[r].thread = NoThread
    BY <1>e DEF NewRequest, PromptCall
  <2>2. \A q \in Requests : q # r => call'[q] = call[q]
    BY <1>e DEF NewRequest
  <2> QED BY <1>a, <2>1, <2>2 DEF CInv, StartedOnce
<1> QED BY <1>2, <1>3

LEMMA CallKeepsSession ==
  ASSUME CInv, NEW r, NEW w, NEW m, NEW t, PromptCall(r, w, m, t)
  PROVE  CInv'
  BY CallKeepsTypes, CallKeepsTruth DEF CInv

LEMMA CollectorsKeepSession ==
  ASSUME CInv, Collectors
  PROVE  CInv'
  BY DEF CInv, Collectors, server, TypeOK, PendingIsExact, AskedOnce, ServerIsTruthful, Truthful,
         StartedOnce, Stage, Archived

\* An answer to a start, of a thread the server has just created.
Begun(r, t) ==
    /\ r \in received /\ answered' = answered \cup {r}
    /\ t \notin created \cup MemoryThreads

\* What the prompts may rely on while the session goes on.
Follows ==
    /\ created \subseteq created'
    /\ \A r \in Requests :
          Stage(r) # "unused" =>
             /\ call'[r].method = call[r].method /\ call'[r].ws = call[r].ws
             /\ call'[r].thread = call[r].thread \/ call[r].method = "start"
    /\ \A r \in Requests, t \in Threads : Starts(r, t)' => Starts(r, t) \/ Begun(r, t)

\* What names the thread of a request is in the output, in the reader's hand or
\* with the caller.
LEMMA OutputNames ==
  ASSUME CInv, NEW r \in Requests, NEW t \in Threads,
         \/ reader.msg.id = r /\ reader.msg.thread = t
         \/ \E i \in 1 .. Len(outbox) : outbox[i].id = r /\ outbox[i].thread = t
  PROVE  Stage(r) # "unused"
<1>1. PICK m \in Truthful : m.id = r
  BY ElementOfSeq, LenProperties DEF CInv, ServerIsTruthful
<1>2. r # NoRequest
  BY RequestNumbers
<1> QED BY <1>1, <1>2 DEF Truthful, CInv, AskedOnce, Early

\* The threads requests have started follow the answers.
LEMMA CallersFollow ==
  ASSUME CInv, [Next]_vars, NEW r \in Requests, NEW t \in Threads,
         call'[r].method = "start", call'[r].thread = t
  PROVE  Starts(r, t)
<1>1. NoThread \notin Threads
  BY SessionAssumption
<1>2. Stage(r) # "unused"
  BY <1>1, NewStarts DEF CInv
<1>3. call[r].method = "start"
  BY <1>2, CallsAreKept DEF CInv, ServerIsTruthful
<1>4. CASE call'[r].thread = call[r].thread
  BY <1>3, <1>4 DEF Starts
<1>5. CASE call'[r].thread # call[r].thread
  BY <1>2, <1>3, <1>5, ToldByAnswer DEF CInv, Starts
<1> QED BY <1>4, <1>5

\* Whoever is named in the output after a step was named there before it, or the
\* server has just answered it.
OutputKept(r, t) ==
    \/ reader'.msg.id = r /\ reader'.msg.thread = t
    \/ \E i \in 1 .. Len(outbox') : outbox'[i].id = r /\ outbox'[i].thread = t
  =>
    \/ reader.msg.id = r /\ reader.msg.thread = t
    \/ \E i \in 1 .. Len(outbox) : outbox[i].id = r /\ outbox[i].thread = t

LEMMA OutputFollows ==
  ASSUME CInv, [Next]_vars, NEW r \in Requests, NEW t \in Threads, call'[r].method = "start"
  PROVE  OutputKept(r, t) \/ Begun(r, t)
<1>t. TypeOK /\ r # NoRequest /\ outbox \in Seq(Said) /\ Len(outbox) \in Nat
  BY RequestNumbers, LenProperties DEF CInv, TypeOK
<1>1. ASSUME NEW x \in Requests, Answer(x)
      PROVE  OutputKept(r, t) \/ Begun(r, t)
  <2>1. PICK t0 \in Threads \cup {NoThread}, ts \in SUBSET Threads, ms \in Seq(Said) :
           AnswerEffect(x, t0, ts, ms)
    BY <1>1, <1>t, AnswerSays
  <2>2. /\ reader' = reader /\ x \in received /\ answered' = answered \cup {x}
        /\ call[r].method = "start"
    BY <1>1 DEF Answer
  <2>3. /\ ms[1].id = x /\ ms[1].thread = t0
        /\ Len(ms) = 2 => ms[2].id = NoRequest
        /\ Len(ms) \in {1, 2}
    BY <2>1 DEF AnswerEffect, Message, Event
  <2>4. /\ Len(outbox') = Len(outbox) + Len(ms)
        /\ \A i \in 1 .. Len(outbox') :
             outbox'[i] = IF i <= Len(outbox) THEN outbox[i] ELSE ms[i - Len(outbox)]
    BY <2>1, <1>t, ConcatProperties DEF AnswerEffect
  <2>5. ASSUME NEW i \in 1 .. Len(outbox'), outbox'[i].id = r, outbox'[i].thread = t,
               i > Len(outbox)
        PROVE  Begun(r, t)
    <3>1. i - Len(outbox) \in 1 .. Len(ms) /\ outbox'[i] = ms[i - Len(outbox)]
      BY <2>3, <2>4, <2>5, <1>t
    <3>2. i - Len(outbox) = 1 \/ i - Len(outbox) = 2
      BY <2>3, <3>1, <1>t
    <3>3. outbox'[i] = ms[1]
      BY <2>3, <2>5, <3>1, <3>2, <1>t
    <3>4. x = r /\ t0 = t
      BY <2>3, <2>5, <3>3
    <3> QED BY <2>1, <2>2, <3>4, SessionAssumption DEF AnswerEffect, Begun
  <2>6. CASE \E i \in 1 .. Len(outbox') : /\ outbox'[i].id = r /\ outbox'[i].thread = t
                                          /\ i > Len(outbox)
    BY <2>5, <2>6
  <2>7. CASE ~\E i \in 1 .. Len(outbox') : /\ outbox'[i].id = r /\ outbox'[i].thread = t
                                           /\ i > Len(outbox)
    <3>1. ASSUME NEW i \in 1 .. Len(outbox'), outbox'[i].id = r, outbox'[i].thread = t
          PROVE  i \in 1 .. Len(outbox) /\ outbox[i] = outbox'[i]
      BY <2>4, <2>7, <3>1, <1>t
    <3> QED BY <2>2, <3>1 DEF OutputKept
  <2> QED BY <2>6, <2>7
<1>2. ASSUME NEW m \in Announcements, Announce(m) PROVE OutputKept(r, t)
  <2>1. PICK t0 \in Threads \cup {NoThread}, ts \in SUBSET Threads : AnnounceEffect(m, t0, ts)
    BY <1>2, <1>t, AnnounceSays
  <2> DEFINE e == Event(m, t0, ts)
  <2>2. e \in Said /\ outbox' = outbox \o <<e>> /\ e.id = NoRequest
    BY <2>1 DEF AnnounceEffect, Event, Message
  <2> HIDE DEF e
  <2>3. /\ <<e>> \in Seq(Said) /\ Len(<<e>>) = 1 /\ <<e>>[1] = e
    BY <2>2, Utterances
  <2>4. /\ Len(outbox') = Len(outbox) + 1
        /\ \A i \in 1 .. Len(outbox') :
             outbox'[i] = IF i <= Len(outbox) THEN outbox[i] ELSE <<e>>[i - Len(outbox)]
    BY <2>2, <2>3, <1>t, ConcatProperties
  <2>5. ASSUME NEW i \in 1 .. Len(outbox'), outbox'[i].id = r
        PROVE  i \in 1 .. Len(outbox) /\ outbox[i] = outbox'[i]
    <3>1. ~(i <= Len(outbox)) => i = Len(outbox) + 1
      BY <2>4, <1>t
    <3>2. ~(i <= Len(outbox)) => outbox'[i] = e
      BY <2>3, <2>4, <3>1, <1>t
    <3> QED BY <2>2, <2>4, <2>5, <3>2, <1>t
  <2>6. reader' = reader
    BY <1>2 DEF Announce
  <2> QED BY <2>5, <2>6 DEF OutputKept
<1>3. CASE ReadLine
  <2>1. outbox # <<>> /\ reader'.msg = Head(outbox) /\ outbox' = Tail(outbox)
    BY <1>3 DEF ReadLine
  <2>2. /\ reader'.msg = outbox[1] /\ Len(outbox) >= 1 /\ Len(outbox') = Len(outbox) - 1
        /\ \A i \in 1 .. Len(outbox') : outbox'[i] = outbox[i + 1]
    BY <2>1, <1>t, HeadTailProperties, LenProperties, EmptySeq
  <2>3. \A i \in 1 .. Len(outbox') : i + 1 \in 1 .. Len(outbox)
    BY <2>2, <1>t
  <2>4. 1 \in 1 .. Len(outbox)
    BY <2>2, <1>t
  <2> QED BY <2>2, <2>3, <2>4 DEF OutputKept
<1>4. CASE UNCHANGED <<outbox, created, starter>> /\ reader'.msg = reader.msg
  BY <1>4 DEF OutputKept
<1> QED BY <1>1, <1>2, <1>3, <1>4, <1>t, OutputFootprint DEF TypeOK

LEMMA CreatedGrows ==
  ASSUME CInv, [Next]_vars
  PROVE  created \subseteq created'
<1>t. TypeOK
  BY DEF CInv
<1>1. ASSUME NEW r \in Requests, Answer(r) PROVE created \subseteq created'
  BY <1>1 DEF Answer
<1>2. ASSUME NEW m \in Announcements, Announce(m) PROVE created \subseteq created'
  <2>1. PICK t \in Threads \cup {NoThread}, ts \in SUBSET Threads : AnnounceEffect(m, t, ts)
    BY <1>2, <1>t, AnnounceSays
  <2> QED BY <2>1 DEF AnnounceEffect
<1>3. CASE ReadLine
  BY <1>3 DEF ReadLine
<1> QED BY <1>1, <1>2, <1>3, <1>t, OutputFootprint DEF TypeOK

LEMMA SessionFollows ==
  ASSUME CInv, [Next]_vars
  PROVE  Follows
<1>1. ASSUME NEW r \in Requests, NEW t \in Threads, Starts(r, t)'
      PROVE  Starts(r, t) \/ Begun(r, t)
  <2>1. call'[r].method = "start"
    BY <1>1 DEF Starts
  <2>2. CASE call'[r].thread = t
    BY <2>1, <2>2, CallersFollow
  <2>3. CASE OutputKept(r, t) /\ call'[r].thread # t
    <3>1. \/ reader.msg.id = r /\ reader.msg.thread = t
          \/ \E i \in 1 .. Len(outbox) : outbox[i].id = r /\ outbox[i].thread = t
      BY <1>1, <2>3 DEF Starts, OutputKept
    <3>2. Stage(r) # "unused"
      BY <3>1, OutputNames
    <3>3. call[r].method = "start"
      BY <2>1, <3>2, CallsAreKept DEF CInv, ServerIsTruthful
    <3> QED BY <3>1, <3>3 DEF Starts
  <2> QED BY <2>1, <2>2, <2>3, OutputFollows
<1> QED BY <1>1, CallsAreKept, CreatedGrows DEF Follows, CInv, ServerIsTruthful

LEMMA CallFollows ==
  ASSUME CInv, NEW r, NEW w, NEW m, NEW t, PromptCall(r, w, m, t)
  PROVE  Follows /\ \A u \in Threads : ~Starts(r, u)'
<1>e. NewRequest(r, w, m, t)
  BY CallEffect
<1>1. /\ r \in Requests /\ call[r] = Unsent /\ call'[r].method = m /\ call'[r].thread = t
      /\ \A q \in Requests : q # r => call'[q] = call[q]
      /\ UNCHANGED <<reader, outbox, created>>
  BY <1>e DEF NewRequest
<1>2. Stage(r) = "unused"
  BY <1>1 DEF Stage, Unsent
<1>3. ASSUME NEW u \in Threads PROVE ~Starts(r, u)'
  <2>1. m = "start" => t = NoThread
    BY DEF PromptCall
  <2>2. u # NoThread
    BY SessionAssumption
  <2>3. ~(\/ reader.msg.id = r /\ reader.msg.thread = u
          \/ \E i \in 1 .. Len(outbox) : outbox[i].id = r /\ outbox[i].thread = u)
    BY <1>1, <1>2, OutputNames
  <2> QED BY <1>1, <2>1, <2>2, <2>3 DEF Starts
<1>4. ASSUME NEW q \in Requests, NEW u \in Threads, Starts(q, u)'
      PROVE  Starts(q, u)
  <2>1. q # r
    BY <1>3, <1>4
  <2> QED BY <1>1, <1>4, <2>1 DEF Starts
<1>5. ASSUME NEW q \in Requests, Stage(q) # "unused"
      PROVE  call'[q] = call[q]
  BY <1>1, <1>2, <1>5
<1> QED BY <1>1, <1>3, <1>4, <1>5 DEF Follows

LEMMA StaysFollow ==
  ASSUME UNCHANGED <<call, reader, outbox, created>>
  PROVE  Follows
  BY DEF Follows, Starts

\* A thread a request started exists.
LEMMA StartedThreads ==
  ASSUME CInv, NEW r \in Requests, NEW t \in Threads, Starts(r, t)
  PROVE  t \in created /\ call[r].ws \in Workspaces
<1>1. r # NoRequest /\ t # NoThread /\ NoWorkspace \notin Workspaces
  BY RequestNumbers, SessionAssumption
<1>2. Stage(r) # "unused" /\ call[r].ws \in Workspaces
  BY DEF Starts, CInv, AskedOnce, Unsent, Stage
<1>3. starter[t] = call[r].ws
  <2>1. CASE call[r].thread = t
    BY <1>1, <2>1 DEF Starts, CInv, StartedOnce
  <2>2. ASSUME NEW m \in Truthful, m.id = r, m.thread = t
        PROVE  starter[t] = call[r].ws
    BY <1>1, <2>2 DEF Starts, Truthful
  <2>3. reader.msg \in Truthful /\ \A i \in 1 .. Len(outbox) : outbox[i] \in Truthful
    BY ElementOfSeq DEF CInv, ServerIsTruthful
  <2> QED BY <2>1, <2>2, <2>3 DEF Starts
<1> QED BY <1>1, <1>2, <1>3 DEF CInv, StartedOnce

\* Two starts are never told of one thread.
LEMMA ApartStarts ==
  ASSUME CInv, StartsApart, Follows
  PROVE  StartsApart'
<1>1. \A r \in Requests, t \in Threads : Starts(r, t) => t \in created
  BY StartedThreads
<1>2. ASSUME NEW r \in Requests, NEW q \in Requests, NEW t \in Threads,
             Starts(r, t)', Starts(q, t)'
      PROVE  r = q
  <2>1. CASE Starts(r, t) /\ Starts(q, t)
    BY <2>1 DEF StartsApart
  <2>2. CASE Begun(r, t) /\ Begun(q, t)
    <3>1. r \notin answered /\ q \notin answered
      BY <2>2 DEF Begun, CInv, AskedOnce
    <3> QED BY <2>2, <3>1 DEF Begun
  <2> QED BY <1>1, <1>2, <2>1, <2>2 DEF Follows, Begun
<1>3. ASSUME NEW r \in Requests, NEW t \in MemoryThreads, Starts(r, t)'
      PROVE  FALSE
  <2>1. t \in Threads
    BY SessionAssumption
  <2> QED BY <1>3, <2>1 DEF Follows, Begun, StartsApart
<1> QED BY <1>2, <1>3 DEF StartsApart

-----------------------------------------------------------------------------
(* The prompts *)

\* What a prompt knows of its requests and its thread stays true.
LEMMA KnowsKept ==
  ASSUME CInv, Follows, NEW b \in Prompts, PromptKnows(b), prompt'[b] = prompt[b],
         prompt[b].at \in Listening => prompt[b].thread \in callbacks'
  PROVE  PromptKnows(b)'
<1> DEFINE p == prompt[b]
<1>1. ASSUME NEW r \in Requests, call[r].method # "none"
      PROVE  /\ call'[r].method = call[r].method /\ call'[r].ws = call[r].ws
             /\ call'[r].thread = call[r].thread \/ call[r].method = "start"
  BY <1>1 DEF Follows, CInv, AskedOnce, Unsent
<1>2. p.at = "starting" =>
         p.req \in Requests /\ call'[p.req].method = "start" /\ call'[p.req].ws = p.ws
  BY <1>1 DEF PromptKnows
<1>3. p.thread # NoThread => p.thread \in created' \ MemoryThreads
  BY DEF PromptKnows, Follows
<1>4. p.at = "archiving" =>
          /\ p.req \in Requests
          /\ call'[p.req].method = "archive" /\ call'[p.req].thread = p.thread
  BY <1>1 DEF PromptKnows
<1>5. p.at = "returned" /\ p.thread # NoThread =>
          \E r \in Requests : call'[r].method = "archive" /\ call'[r].thread = p.thread
  BY <1>1 DEF PromptKnows
<1> QED BY <1>2, <1>3, <1>4, <1>5 DEF PromptKnows

\* A prompt that neither begins nor learns of a thread.
Steady(b) ==
    /\ prompt'[b].thread = prompt[b].thread
    /\ prompt'[b].at = "starting" =>
          prompt[b].at = "starting" /\ prompt'[b].req = prompt[b].req

\* Two such prompts stay apart.
LEMMA ApartKept ==
  ASSUME BInv, Follows, NEW b \in Prompts, NEW d \in Prompts, b # d, Steady(b), Steady(d)
  PROVE  Apart(b, d)'
<1> DEFINE r == prompt[d].req
           t == prompt[b].thread
<1>1. Apart(b, d) /\ PromptKnows(b) /\ PromptKnows(d) /\ PromptTypes
  BY DEF BInv, PromptsApart
<1>2. ASSUME t # NoThread, prompt[d].at = "starting", NEW x, x = r, NEW y, y = t
      PROVE  ~Starts(x, y)'
  <2>1. t \in Threads /\ t \in created /\ r \in Requests
    BY <1>1, <1>2 DEF PromptKnows, PromptTypes, Locals
  <2>2. ~Starts(r, t)
    BY <1>1, <1>2 DEF Apart
  <2> QED BY <1>2, <2>1, <2>2 DEF Follows, Begun
<1>3. ASSUME prompt'[b].thread # NoThread, prompt'[d].at = "starting"
      PROVE  ~Starts(prompt[d].req, prompt[b].thread)'
  <2>1. prompt'[b].thread = t /\ prompt'[d].req = r /\ t # NoThread /\ prompt[d].at = "starting"
    BY <1>3 DEF Steady
  <2>2. \A x, y : x = r /\ y = t => ~Starts(x, y)'
    BY <1>2, <2>1
  <2> QED BY <2>1, <2>2 DEF Starts
<1> QED BY <1>1, <1>3 DEF Apart, Steady

\* A prompt moves on.
LEMMA LocalsMove ==
  ASSUME PromptTypes, NEW b \in Prompts
  PROVE  /\ \A l \in PromptPcs : [prompt[b] EXCEPT !.at = l] \in Locals
         /\ \A p \in Locals : Set(b, p) =>
               /\ prompt' \in [Prompts -> Locals]
               /\ prompt'[b] = p
               /\ \A d \in Prompts : d # b => prompt'[d] = prompt[d]
  BY DEF PromptTypes, Locals, Set

\* The other prompts keep their collectors and their threads.
LEMMA OthersKnow ==
  ASSUME BInv, Follows, NEW b \in Prompts,
         \A d \in Prompts : d # b => prompt'[d] = prompt[d],
         callbacks \ {prompt[b].thread} \subseteq callbacks',
         PromptKnows(b)'
  PROVE  \A d \in Prompts : PromptKnows(d)'
<1>1. ASSUME NEW d \in Prompts, d # b PROVE PromptKnows(d)'
  <2>1. PromptKnows(d) /\ prompt'[d] = prompt[d]
    BY <1>1 DEF BInv
  <2>2. prompt[d].at \in Listening =>
           /\ prompt[d].thread \in callbacks
           /\ prompt[d].thread # NoThread
    BY <2>1 DEF PromptKnows, Listening
  <2>3. prompt[d].thread # NoThread => prompt[b].thread # prompt[d].thread
    BY <1>1 DEF BInv, PromptsApart, Apart
  <2> QED BY <2>1, <2>2, <2>3, KnowsKept DEF BInv
<1> QED BY <1>1

\* A collector stays owned as long as its owner listens.
LEMMA OwnersKept ==
  ASSUME CollectorsAreOwned, callbacks' \subseteq callbacks,
         \A b \in Prompts, t \in callbacks' :
            prompt[b].at \in Listening /\ prompt[b].thread = t =>
               prompt'[b].at \in Listening /\ prompt'[b].thread = t
  PROVE  CollectorsAreOwned'
  BY DEF CollectorsAreOwned

\* A prompt that moves on with its thread, and may touch its own collector.
LEMMA CollectorMove ==
  ASSUME BInv, Follows, CInv', NEW b \in Prompts, NEW p \in Locals, Set(b, p),
         callbacks' \subseteq Threads, callbacks \ {prompt[b].thread} \subseteq callbacks',
         p.thread = prompt[b].thread, p.at # "starting",
         CollectorsAreOwned', PromptKnows(b)'
  PROVE  BInv'
<1>1. /\ prompt' \in [Prompts -> Locals] /\ prompt'[b] = p
      /\ \A d \in Prompts : d # b => prompt'[d] = prompt[d]
  BY LocalsMove DEF BInv
<1>2. PromptTypes'
  BY <1>1 DEF PromptTypes
<1>3. StartsApart'
  BY ApartStarts DEF BInv
<1>4. \A d \in Prompts : PromptKnows(d)'
  BY <1>1, OthersKnow
<1>5. PromptsApart'
  <2>1. \A d \in Prompts : Steady(d)
    BY <1>1 DEF Steady
  <2> QED BY <2>1, ApartKept DEF PromptsApart
<1> QED BY <1>2, <1>3, <1>4, <1>5 DEF BInv

\* A prompt that moves on and leaves the collectors alone.
LEMMA PlainMove ==
  ASSUME BInv, Follows, CInv', NEW b \in Prompts, NEW p \in Locals, Set(b, p),
         callbacks' = callbacks, p.thread = prompt[b].thread, p.at # "starting",
         prompt[b].at \in Listening <=> p.at \in Listening,
         PromptKnows(b)'
  PROVE  BInv'
<1>1. /\ prompt' \in [Prompts -> Locals] /\ prompt'[b] = p
      /\ \A d \in Prompts : d # b => prompt'[d] = prompt[d]
  BY LocalsMove DEF BInv
<1>2. CollectorsAreOwned'
  BY <1>1, OwnersKept DEF BInv
<1>3. callbacks' \subseteq Threads
  BY DEF BInv, PromptTypes
<1> QED BY <1>2, <1>3, CollectorMove

LEMMA IdleSession ==
  ASSUME UNCHANGED vars
  PROVE  Follows /\ (CInv => CInv') /\ UNCHANGED <<callbacks, call, created, reader, outbox, pending>>
<1>1. UNCHANGED <<callbacks, call, created, reader, outbox, pending>>
  BY DEF vars, tables, server
<1>2. CInv => CInv'
  BY CInvStep
<1> QED BY <1>1, <1>2, StaysFollow

LEMMA CollectorsFollow ==
  ASSUME CInv, Collectors
  PROVE  CInv' /\ Follows
<1>1. UNCHANGED <<call, reader, outbox, created>>
  BY DEF Collectors, server
<1> QED BY <1>1, CollectorsKeepSession, StaysFollow

-----------------------------------------------------------------------------
(* The steps of a prompt *)

LEMMA BeginHolds ==
  ASSUME BInv, NEW b \in Prompts, NEW w \in Workspaces, Begin(b, w)
  PROVE  BInv'
<1>r. PICK r \in Requests : r = nextId
  BY DEF Begin, Call
<1> DEFINE p == [Fresh EXCEPT !.at = "starting", !.ws = w, !.req = r]
<1>1. PromptCall(r, w, "start", NoThread) /\ Set(b, p) /\ prompt[b].at = "idle"
  BY <1>r DEF Begin, PromptCall, PStage
<1>2. CInv' /\ Follows /\ \A u \in Threads : ~Starts(r, u)'
  BY <1>1, CallKeepsSession, CallFollows DEF BInv
<1>3. NewRequest(r, w, "start", NoThread)
  BY <1>1, CallEffect DEF BInv
<1>4. /\ r \in Requests /\ call[r] = Unsent /\ callbacks' = callbacks
      /\ call'[r].method = "start" /\ call'[r].ws = w
  BY <1>3 DEF NewRequest
<1>5. /\ p \in Locals /\ p.thread = NoThread /\ p.at = "starting" /\ p.req = r /\ p.ws = w
  BY <1>4 DEF Locals, PromptPcs, Fresh
<1> HIDE DEF p
<1>6. /\ prompt' \in [Prompts -> Locals] /\ prompt'[b] = p
      /\ \A d \in Prompts : d # b => prompt'[d] = prompt[d]
  BY <1>1, <1>5, LocalsMove DEF BInv
<1>7. PromptKnows(b)'
  BY <1>4, <1>5, <1>6 DEF PromptKnows, Listening
<1>8. \A d \in Prompts : PromptKnows(d)'
  BY <1>2, <1>4, <1>6, <1>7, OthersKnow
<1>9. prompt[b].thread = NoThread
  BY <1>1 DEF BInv, PromptKnows
<1>10. \A d \in Prompts : prompt[d].at = "starting" => prompt[d].req # r
  BY <1>4 DEF BInv, PromptKnows, Unsent
<1>11. PromptsApart'
  <2>1. ASSUME NEW d \in Prompts, d # b, prompt'[d].thread # NoThread
        PROVE  ~Starts(prompt[b].req, prompt[d].thread)'
    <3>1. prompt'[d].thread \in Threads /\ prompt'[b].req = r
      BY <1>5, <1>6, <2>1 DEF Locals
    <3>2. \A x, u : x = r /\ u \in Threads => ~Starts(x, u)'
      BY <1>2
    <3> QED BY <3>1, <3>2 DEF Starts
  <2>2. ASSUME NEW d \in Prompts, NEW e \in Prompts, d # e, d # b, e # b
        PROVE  Apart(d, e)'
    BY <1>2, <1>6, <2>2, ApartKept DEF Steady
  <2>3. ASSUME NEW d \in Prompts, d # b
        PROVE  Apart(d, b)'
    <3>1. prompt'[d] = prompt[d] /\ prompt'[b].thread = NoThread /\ prompt'[b].req = r
      BY <1>5, <1>6, <2>3
    <3> QED BY <1>10, <2>1, <2>3, <3>1 DEF Apart
  <2>4. ASSUME NEW d \in Prompts, d # b
        PROVE  Apart(b, d)'
    <3>1. prompt'[d] = prompt[d] /\ prompt'[b].thread = NoThread /\ prompt'[b].req = r
      BY <1>5, <1>6, <2>4
    <3> QED BY <1>10, <2>4, <3>1 DEF Apart
  <2> QED BY <2>2, <2>3, <2>4 DEF PromptsApart
<1>12. CollectorsAreOwned'
  BY <1>1, <1>4, <1>6, OwnersKept DEF BInv, Listening
<1> QED BY <1>2, <1>4, <1>6, <1>8, <1>11, <1>12, ApartStarts DEF BInv, PromptTypes

\* A prompt that only goes on.
LEMMA StepHolds ==
  ASSUME BInv, NEW b \in Prompts, NEW l \in PromptPcs \ {"starting"}, Step(b, l), UNCHANGED vars,
         prompt[b].at \in Listening <=> l \in Listening,
         \A p : p = [prompt[b] EXCEPT !.at = l] /\ prompt'[b] = p => PromptKnows(b)'
  PROVE  BInv'
<1>p. PICK p : p = [prompt[b] EXCEPT !.at = l]
  OBVIOUS
<1>1. p \in Locals /\ p.thread = prompt[b].thread /\ p.at = l
  BY <1>p DEF BInv, PromptTypes, Locals
<1>2. Set(b, p)
  BY <1>p DEF Step
<1>3. prompt'[b] = p
  BY <1>1, <1>2, LocalsMove DEF BInv
<1>4. PromptKnows(b)'
  BY <1>p, <1>3
<1>5. CInv' /\ Follows /\ callbacks' = callbacks
  BY IdleSession DEF BInv
<1> QED BY <1>1, <1>2, <1>4, <1>5, PlainMove

LEMMA StepsHold ==
  ASSUME BInv, NEW b \in Prompts,
         StartFails(b) \/ TurnRefused(b) \/ TurnAccepted(b) \/ CollectTimeout(b)
  PROVE  BInv'
<1>k. PromptKnows(b) /\ prompt[b] \in Locals
  BY DEF BInv, PromptTypes
<1>1. CASE StartFails(b)
  <2>1. Step(b, "returned") /\ prompt[b].at = "starting" /\ UNCHANGED vars
    BY <1>1 DEF StartFails, PStage
  <2>2. ASSUME NEW p, p = [prompt[b] EXCEPT !.at = "returned"], prompt'[b] = p
        PROVE  PromptKnows(b)'
    <3>1. p.at = "returned" /\ p.thread = NoThread
      BY <1>k, <2>1, <2>2 DEF PromptKnows, Locals
    <3> QED BY <2>2, <3>1 DEF PromptKnows, Listening
  <2> QED BY <2>1, <2>2, StepHolds DEF PromptPcs, Listening
<1>2. CASE TurnRefused(b) \/ TurnAccepted(b) \/ CollectTimeout(b)
  <2>1. PICK l \in {"unlisten", "collecting"} :
           Step(b, l) /\ prompt[b].at \in {"turning", "collecting"} /\ UNCHANGED vars
    BY <1>2 DEF TurnRefused, TurnAccepted, CollectTimeout, PStage
  <2>2. ASSUME NEW p, p = [prompt[b] EXCEPT !.at = l], prompt'[b] = p
        PROVE  PromptKnows(b)'
    <3>1. p.at = l /\ p.thread = prompt[b].thread /\ p.ws = prompt[b].ws
      BY <1>k, <2>2 DEF Locals
    <3>2. callbacks' = callbacks /\ created' = created
      BY <2>1, IdleSession
    <3> QED BY <1>k, <2>1, <2>2, <3>1, <3>2 DEF PromptKnows, Listening
  <2> QED BY <2>1, <2>2, StepHolds DEF PromptPcs, Listening
<1> QED BY <1>1, <1>2

LEMMA ReturnHolds ==
  ASSUME BInv, NEW b \in Prompts, Return(b)
  PROVE  BInv'
<1>k. PromptKnows(b) /\ prompt[b] \in Locals /\ prompt[b].at = "archiving"
  BY DEF BInv, PromptTypes, Return, PStage
<1>p. PICK p : p = [prompt[b] EXCEPT !.at = "returned", !.ok = @ /\ prompt[b].text]
  OBVIOUS
<1>1. p.at = "returned" /\ p.thread = prompt[b].thread /\ p.ws = prompt[b].ws
      /\ p.req = prompt[b].req
  BY <1>k, <1>p DEF Locals
<1>2. (prompt[b].ok /\ prompt[b].text) \in BOOLEAN
  OBVIOUS
<1>3. p \in Locals
  BY <1>k, <1>p, <1>2 DEF Locals, PromptPcs
<1>4. Set(b, p) /\ UNCHANGED vars
  BY <1>p DEF Return
<1>5. prompt'[b] = p
  BY <1>3, <1>4, LocalsMove DEF BInv
<1>6. /\ CInv' /\ Follows
      /\ callbacks' = callbacks /\ call' = call /\ created' = created
  BY <1>4, IdleSession DEF BInv
<1>7. PromptKnows(b)'
  BY <1>k, <1>1, <1>5, <1>6 DEF PromptKnows, Listening
<1> QED BY <1>k, <1>1, <1>3, <1>4, <1>6, <1>7, PlainMove DEF Listening

\* The two requests a prompt makes about its thread.
LEMMA CallHolds ==
  ASSUME BInv, NEW b \in Prompts, StartTurn(b) \/ StartArchive(b)
  PROVE  BInv'
<1>k. PromptKnows(b) /\ prompt[b] \in Locals
  BY DEF BInv, PromptTypes
<1>r. PICK r \in Requests : r = nextId
  BY DEF StartTurn, StartArchive, Call
<1>l. PICK l \in {"turning", "archiving"}, m \in {"use", "archive"} :
         /\ prompt[b].at = IF l = "turning" THEN "listening" ELSE "archive"
         /\ m = IF l = "turning" THEN "use" ELSE "archive"
         /\ Call(r, prompt[b].ws, m, prompt[b].thread)
         /\ Set(b, [prompt[b] EXCEPT !.at = l, !.req = r])
  BY <1>r DEF StartTurn, StartArchive, PStage
<1>p. PICK p : p = [prompt[b] EXCEPT !.at = l, !.req = r]
  OBVIOUS
<1>w. PICK w, t : w = prompt[b].ws /\ t = prompt[b].thread
  OBVIOUS
<1>1. p.at = l /\ p.thread = t /\ p.ws = w /\ p.req = r /\ p \in Locals
  BY <1>k, <1>p, <1>w DEF Locals, PromptPcs
<1>2. Set(b, p)
  BY <1>l, <1>p
<1>3. prompt'[b] = p
  BY <1>1, <1>2, LocalsMove DEF BInv
<1>4. t # NoThread /\ w \in Workspaces /\ t \in Threads
  BY <1>k, <1>l, <1>w DEF PromptKnows, Locals
<1>5. PromptCall(r, w, m, t)
  BY <1>l, <1>w, <1>4 DEF PromptCall
<1>6. NewRequest(r, w, m, t)
  BY <1>5, CallEffect DEF BInv
<1>7. /\ callbacks' = callbacks /\ created' = created
      /\ call'[r].method = m /\ call'[r].thread = t
  BY <1>6 DEF NewRequest
<1>8. PromptKnows(b)'
  <2>1. t \in created \ MemoryThreads /\ (l = "turning" => t \in callbacks)
    BY <1>k, <1>l, <1>w, <1>4 DEF PromptKnows, Listening
  <2> QED BY <1>l, <1>1, <1>3, <1>4, <1>7, <2>1 DEF PromptKnows, Listening
<1>9. CInv' /\ Follows
  BY <1>5, CallKeepsSession, CallFollows DEF BInv
<1>10. prompt[b].at \in Listening <=> p.at \in Listening
  BY <1>l, <1>1 DEF Listening
<1>11. p.at # "starting" /\ p.thread = prompt[b].thread
  BY <1>w, <1>1
<1> QED BY <1>1, <1>2, <1>7, <1>8, <1>9, <1>10, <1>11, PlainMove

\* The steps of a prompt on its collector.
LEMMA ListenHolds ==
  ASSUME BInv, NEW b \in Prompts, Listen(b)
  PROVE  BInv'
<1>k. PromptKnows(b) /\ prompt[b] \in Locals /\ prompt[b].at = "hidden"
  BY DEF BInv, PromptTypes, Listen, PStage
<1>p. PICK p : p = [prompt[b] EXCEPT !.at = "listening"]
  OBVIOUS
<1>1. p.at = "listening" /\ p.thread = prompt[b].thread /\ p.ws = prompt[b].ws /\ p \in Locals
  BY <1>k, <1>p DEF Locals, PromptPcs
<1>2. Set(b, p) /\ callbacks' = callbacks \cup {p.thread} /\ Collectors
  BY <1>p, <1>1 DEF Listen, Step, Keep, Collectors
<1>3. /\ prompt'[b] = p
      /\ \A d \in Prompts : d # b => prompt'[d] = prompt[d]
  BY <1>1, <1>2, LocalsMove DEF BInv
<1>4. p.thread \in Threads /\ p.thread # NoThread /\ p.ws \in Workspaces
  BY <1>k, <1>1 DEF PromptKnows, Locals
<1>5. CInv' /\ Follows /\ created' = created
  BY <1>2, CollectorsFollow DEF BInv, Collectors, server
<1>6. PromptKnows(b)'
  BY <1>k, <1>1, <1>2, <1>3, <1>4, <1>5 DEF PromptKnows, Listening
<1>7. CollectorsAreOwned'
  <2>1. ASSUME NEW t \in callbacks, t # p.thread
        PROVE  \E d \in Prompts : prompt'[d].thread = t /\ prompt'[d].at \in Listening
    <3>1. PICK d \in Prompts : prompt[d].thread = t /\ prompt[d].at \in Listening
      BY <2>1 DEF BInv, CollectorsAreOwned
    <3> QED BY <1>1, <1>3, <2>1, <3>1
  <2>2. prompt'[b].thread = p.thread /\ prompt'[b].at \in Listening
    BY <1>1, <1>3 DEF Listening
  <2> QED BY <1>2, <2>1, <2>2 DEF CollectorsAreOwned
<1>8. callbacks' \subseteq Threads
  BY <1>2, <1>4 DEF BInv, PromptTypes
<1> QED BY <1>1, <1>2, <1>5, <1>6, <1>7, <1>8, CollectorMove

LEMMA UnlistenHolds ==
  ASSUME BInv, NEW b \in Prompts, Unlisten(b)
  PROVE  BInv'
<1>k. PromptKnows(b) /\ prompt[b] \in Locals /\ prompt[b].at = "unlisten"
  BY DEF BInv, PromptTypes, Unlisten, PStage
<1>p. PICK p : p = [prompt[b] EXCEPT !.at = "archive"]
  OBVIOUS
<1>1. p.at = "archive" /\ p.thread = prompt[b].thread /\ p.ws = prompt[b].ws /\ p \in Locals
  BY <1>k, <1>p DEF Locals, PromptPcs
<1>2. Set(b, p) /\ callbacks' = callbacks \ {p.thread} /\ Collectors
  BY <1>p, <1>1 DEF Unlisten, Step, Keep, Collectors
<1>3. /\ prompt'[b] = p
      /\ \A d \in Prompts : d # b => prompt'[d] = prompt[d]
  BY <1>1, <1>2, LocalsMove DEF BInv
<1>5. CInv' /\ Follows /\ created' = created
  BY <1>2, CollectorsFollow DEF BInv, Collectors, server
<1>6. PromptKnows(b)'
  BY <1>k, <1>1, <1>3, <1>5 DEF PromptKnows, Listening
<1>7. CollectorsAreOwned'
  <2>1. \A d \in Prompts, t \in callbacks' :
           prompt[d].at \in Listening /\ prompt[d].thread = t =>
              prompt'[d].at \in Listening /\ prompt'[d].thread = t
    BY <1>1, <1>2, <1>3
  <2> QED BY <1>2, <2>1, OwnersKept DEF BInv
<1>8. callbacks' \subseteq Threads
  BY <1>2 DEF BInv, PromptTypes
<1> QED BY <1>1, <1>2, <1>5, <1>6, <1>7, <1>8, CollectorMove

LEMMA CollectHolds ==
  ASSUME BInv, NEW b \in Prompts, Collect(b)
  PROVE  BInv'
<1>k. PromptKnows(b) /\ prompt[b] \in Locals /\ prompt[b].at = "collecting"
  BY DEF BInv, PromptTypes, Collect, PStage
<1> DEFINE said == Head(channel[prompt[b].thread])
<1>1. /\ Set(b, [prompt[b] EXCEPT
                   !.at = IF said \in {"completed", "failed"} THEN "unlisten" ELSE "collecting",
                   !.text = @ \/ said = "delta",
                   !.ok = said = "completed"])
      /\ callbacks' = callbacks /\ Collectors
  BY DEF Collect, Keep, Collectors
<1>p. PICK l \in {"unlisten", "collecting"}, x \in BOOLEAN, y \in BOOLEAN :
         Set(b, [prompt[b] EXCEPT !.at = l, !.text = x, !.ok = y])
  <2>1. /\ (IF said \in {"completed", "failed"} THEN "unlisten" ELSE "collecting")
                \in {"unlisten", "collecting"}
        /\ (prompt[b].text \/ said = "delta") \in BOOLEAN
        /\ (said = "completed") \in BOOLEAN
    OBVIOUS
  <2> HIDE DEF said
  <2> QED BY <1>1, <2>1, Zenon
<1>q. PICK p : p = [prompt[b] EXCEPT !.at = l, !.text = x, !.ok = y]
  OBVIOUS
<1>2. p.at = l /\ p.thread = prompt[b].thread /\ p.ws = prompt[b].ws /\ p \in Locals
  BY <1>k, <1>q DEF Locals, PromptPcs
<1>3. prompt'[b] = p
  BY <1>p, <1>q, <1>2, LocalsMove DEF BInv
<1>4. CInv' /\ Follows /\ created' = created
  BY <1>1, CollectorsFollow DEF BInv, Collectors, server
<1>5. PromptKnows(b)'
  BY <1>k, <1>1, <1>2, <1>3, <1>4 DEF PromptKnows, Listening
<1> QED BY <1>k, <1>p, <1>q, <1>1, <1>2, <1>4, <1>5, PlainMove DEF Listening

\* The answer to its start gives a prompt a thread nobody else has.
LEMMA HideThreadHolds ==
  ASSUME BInv, NEW b \in Prompts, HideThread(b)
  PROVE  BInv'
<1>k. PromptKnows(b) /\ prompt[b] \in Locals /\ prompt[b].at = "starting" /\ UNCHANGED vars
  BY DEF BInv, PromptTypes, HideThread, PStage
<1>r. PICK r, t : r = prompt[b].req /\ t = call[r].thread
  OBVIOUS
<1>p. PICK p : p = [prompt[b] EXCEPT !.at = "hidden", !.thread = t]
  OBVIOUS
<1>1. /\ r \in Requests /\ call[r].method = "start" /\ call[r].ws = prompt[b].ws
      /\ t \in Threads /\ t # NoThread /\ Set(b, p)
  BY <1>k, <1>r, <1>p DEF PromptKnows, HideThread, Awaited, BInv, CInv, TypeOK, Requested
<1>2. Starts(r, t)
  BY <1>r, <1>1 DEF Starts
<1>3. t \in created \ MemoryThreads /\ call[r].ws \in Workspaces
  BY <1>1, <1>2, StartedThreads DEF BInv, StartsApart
<1>4. p.at = "hidden" /\ p.thread = t /\ p.ws = prompt[b].ws /\ p \in Locals
  BY <1>k, <1>p, <1>1 DEF Locals, PromptPcs
<1>5. /\ prompt' \in [Prompts -> Locals] /\ prompt'[b] = p
      /\ \A d \in Prompts : d # b => prompt'[d] = prompt[d]
  BY <1>1, <1>4, LocalsMove DEF BInv
<1>6. /\ CInv' /\ Follows
      /\ UNCHANGED <<callbacks, call, created, reader, outbox>>
  BY <1>k, IdleSession DEF BInv
<1>7. \A d \in Prompts : PromptKnows(d)'
  <2>1. PromptKnows(b)'
    BY <1>1, <1>3, <1>4, <1>5, <1>6 DEF PromptKnows, Listening
  <2> QED BY <1>5, <1>6, <2>1, OthersKnow
<1>8. ASSUME NEW d \in Prompts, d # b
      PROVE  /\ prompt[d].thread # t
             /\ prompt[d].at = "starting" => ~Starts(prompt[d].req, t)
  <2>1. Apart(b, d) /\ Apart(d, b) /\ PromptKnows(d)
    BY <1>8 DEF BInv, PromptsApart
  <2>2. prompt[d].thread # t
    BY <1>k, <1>r, <1>1, <1>2, <2>1 DEF Apart
  <2>3. ASSUME prompt[d].at = "starting", Starts(prompt[d].req, t) PROVE FALSE
    <3>1. prompt[d].req \in Requests /\ prompt[d].req # r
      BY <1>k, <1>r, <2>1, <2>3 DEF Apart, PromptKnows
    <3> QED BY <1>1, <1>2, <2>3, <3>1 DEF BInv, StartsApart
  <2> QED BY <2>2, <2>3
<1>9. PromptsApart'
  <2>1. ASSUME NEW d \in Prompts, d # b PROVE Apart(b, d)'
    <3>1. prompt'[b].thread = t /\ prompt'[b].at = "hidden" /\ prompt'[d] = prompt[d]
      BY <1>4, <1>5, <2>1
    <3>2. prompt'[d].at = "starting" => ~Starts(prompt[d].req, prompt[b].thread)'
      BY <1>6, <1>8, <2>1, <3>1 DEF Starts
    <3> QED BY <1>8, <2>1, <3>1, <3>2 DEF Apart
  <2>2. ASSUME NEW d \in Prompts, d # b PROVE Apart(d, b)'
    <3>1. prompt'[b].thread = t /\ prompt'[b].at = "hidden" /\ prompt'[d] = prompt[d]
      BY <1>4, <1>5, <2>2
    <3> QED BY <1>8, <2>2, <3>1 DEF Apart
  <2>3. ASSUME NEW d \in Prompts, NEW e \in Prompts, d # e, d # b, e # b PROVE Apart(d, e)'
    BY <1>5, <1>6, <2>3, ApartKept DEF Steady
  <2> QED BY <2>1, <2>2, <2>3 DEF PromptsApart
<1>10. CollectorsAreOwned'
  BY <1>k, <1>5, <1>6, OwnersKept DEF BInv, Listening
<1> QED BY <1>5, <1>6, <1>7, <1>9, <1>10, ApartStarts DEF BInv, PromptTypes

-----------------------------------------------------------------------------
(* The steps of the session *)

\* The session leaves the collectors to the prompts.
LEMMA CollectorsFootprint ==
  ASSUME [Next]_vars
  PROVE  callbacks' = callbacks
<1>1. CASE Reader
  BY <1>1 DEF Reader, ReadLine, Attribute, Deliver, HideMemoryThread, Suppress, Route, NoteItem,
     NoteArchived, EmitEvent, EndPending, EndContext, tables
<1>2. CASE \E r \in Requests : Caller(r) \/ Timeout(r) \/ Abandon(r)
  BY <1>2 DEF Caller, InsertPending, InsertContext, WriteOk, WriteFails, Timeout, Abandon, Forget,
     tables
<1>3. CASE \E r \in Requests, w \in Workspaces, m \in Methods : Ask(r, w, m)
  BY <1>3 DEF Ask, Call
<1>4. CASE \E w \in Sharers : Register(w) \/ Unregister(w)
  BY <1>4 DEF Register, Unregister
<1>5. CASE Server
  BY <1>5 DEF Server, Answer, Announce, Exit, tables
<1>6. CASE UNCHANGED vars
  BY <1>6 DEF vars, tables
<1> QED BY <1>1, <1>2, <1>3, <1>4, <1>5, <1>6 DEF Next

LEMMA SessionHolds ==
  ASSUME BInv, [Next]_vars, UNCHANGED prompt
  PROVE  BInv'
<1>1. CInv' /\ Follows /\ callbacks' = callbacks
  BY CInvStep, SessionFollows, CollectorsFootprint DEF BInv
<1>2. PromptTypes' /\ CollectorsAreOwned'
  BY <1>1 DEF BInv, PromptTypes, CollectorsAreOwned
<1>3. \A b \in Prompts : PromptKnows(b)'
  <2> SUFFICES ASSUME NEW b \in Prompts PROVE PromptKnows(b)'
    OBVIOUS
  <2>1. PromptKnows(b) /\ (prompt[b].at \in Listening => prompt[b].thread \in callbacks')
    BY <1>1 DEF BInv, PromptKnows
  <2> QED BY <1>1, <2>1, KnowsKept DEF BInv
<1>4. PromptsApart'
  BY <1>1, ApartKept DEF PromptsApart, Steady
<1> QED BY <1>1, <1>2, <1>3, <1>4, ApartStarts DEF BInv

LEMMA BInvInit == PInit => BInv
<1> SUFFICES ASSUME PInit PROVE BInv
  OBVIOUS
<1>1. CInv
  BY CInvInit DEF PInit
<1>2. StartsApart
  BY DEF PInit, Init, StartsApart, Starts, Unsent
<1>3. \A b \in Prompts : prompt[b] = Fresh
  BY DEF PInit
<1>4. Fresh \in Locals
  BY DEF Fresh, Locals, PromptPcs
<1>5. PromptTypes
  BY <1>4 DEF PInit, Init, PromptTypes
<1>6. \A b \in Prompts : PromptKnows(b)
  BY <1>3 DEF PromptKnows, Fresh, Listening
<1>7. PromptsApart
  BY <1>3 DEF PromptsApart, Apart, Fresh
<1>8. CollectorsAreOwned
  BY DEF PInit, Init, CollectorsAreOwned
<1> QED BY <1>1, <1>2, <1>5, <1>6, <1>7, <1>8 DEF BInv

LEMMA BInvStep == BInv /\ [PNext]_allVars => BInv'
<1> SUFFICES ASSUME BInv, [PNext]_allVars PROVE BInv'
  OBVIOUS
<1>1. CASE (Next /\ UNCHANGED <<prompt, told>>) \/ UNCHANGED allVars
  BY <1>1, SessionHolds DEF allVars
<1>2. ASSUME NEW b \in Prompts, NEW w \in Workspaces, Begin(b, w) PROVE BInv'
  BY <1>2, BeginHolds
<1>3. ASSUME NEW b \in Prompts, PromptStep(b) \/ CollectTimeout(b) PROVE BInv'
  BY <1>3, StepsHold, HideThreadHolds, ListenHolds, CallHolds, CollectHolds, UnlistenHolds,
     ReturnHolds DEF PromptStep
<1> QED BY <1>1, <1>2, <1>3 DEF PNext

-----------------------------------------------------------------------------
(* The theorems *)

\* Prompts do not disturb the session they share: with their requests in it and
\* their collectors beside it, the table of waiting requests stays exact.
THEOREM WaitersAreListedUnderPrompts == PSpec => []PendingIsExact
<1>1. BInv => PendingIsExact
  BY DEF BInv, CInv
<1> QED BY <1>1, BInvInit, BInvStep, PTL DEF PSpec

\* A prompt that has returned has left no collector behind and has asked the
\* server to archive its thread, whatever failed between and whatever the
\* other prompts of the session did meanwhile.
THEOREM PromptsLeaveNothing == PSpec => []PromptsCleanUp
<1>1. ASSUME BInv, NEW b \in Prompts, prompt[b].at = "returned", prompt[b].thread # NoThread
      PROVE  /\ prompt[b].thread \notin callbacks
             /\ \E r \in Requests : call[r].method = "archive"
                                    /\ call[r].thread = prompt[b].thread
  <2>1. PromptKnows(b)
    BY <1>1 DEF BInv
  <2>2. ASSUME prompt[b].thread \in callbacks PROVE FALSE
    <3>1. PICK d \in Prompts : prompt[d].thread = prompt[b].thread /\ prompt[d].at \in Listening
      BY <1>1, <2>2 DEF BInv, CollectorsAreOwned
    <3>2. d # b
      BY <1>1, <3>1 DEF Listening
    <3> QED BY <1>1, <3>1, <3>2 DEF BInv, PromptsApart, Apart
  <2> QED BY <1>1, <2>1, <2>2 DEF PromptKnows
<1>2. BInv => PromptsCleanUp
  BY <1>1 DEF PromptsCleanUp, PStage
<1> QED BY <1>2, BInvInit, BInvStep, PTL DEF PSpec

\* While a prompt runs its turn, no event of its thread reaches the frontend:
\* its collector is in the table, and no other prompt's end takes it out.
THEOREM TurnsStayInBackground == PSpec => TurnStaysInBackground
<1>1. ASSUME BInv, NEW b \in Prompts, prompt[b].at \in {"turning", "collecting"}
      PROVE  /\ prompt[b].thread \in callbacks /\ prompt[b].thread # NoThread
             /\ prompt[b].thread \notin MemoryThreads
  BY <1>1 DEF BInv, PromptKnows, Listening
<1>2. ASSUME BInv, Next, emitted' # emitted, emitted'.thread # NoThread
      PROVE  emitted'.thread \in MemoryThreads \/ emitted'.thread \notin callbacks
  <2>1. CASE ReadLine
    BY <1>2, <2>1 DEF ReadLine, NoEmission
  <2>2. CASE HideMemoryThread
    BY <2>2 DEF HideMemoryThread, Emit, IsMemoryStart
  <2>3. CASE EmitEvent
    BY <1>2, <2>3 DEF EmitEvent, Emit
  <2>4. CASE Reader /\ ~ReadLine /\ ~HideMemoryThread /\ ~EmitEvent
    BY <1>2, <2>4 DEF Reader, Attribute, Deliver, Suppress, Route, NoteItem, NoteArchived,
       EndPending, EndContext
  <2>5. CASE \E r \in Requests : Caller(r) \/ Timeout(r) \/ Abandon(r)
    BY <1>2, <2>5 DEF Caller, InsertPending, InsertContext, WriteOk, WriteFails, Timeout, Abandon
  <2>6. CASE \E r \in Requests, w \in Workspaces, m \in Methods : Ask(r, w, m)
    BY <1>2, <2>6 DEF Ask, Call
  <2>7. CASE \E w \in Sharers : Register(w) \/ Unregister(w)
    BY <1>2, <2>7 DEF Register, Unregister
  <2>8. CASE Server
    BY <1>2, <2>8 DEF Server, Answer, Announce, Exit
  <2> QED BY <1>2, <2>1, <2>2, <2>3, <2>4, <2>5, <2>6, <2>7, <2>8 DEF Next
<1>3. ASSUME NEW b \in Prompts, (\E w \in Workspaces : Begin(b, w)) \/ PromptStep(b)
                                 \/ CollectTimeout(b)
      PROVE  emitted' = emitted
  BY <1>3 DEF PromptStep, CollectTimeout, Begin, StartFails, HideThread, Listen, StartTurn,
     TurnRefused, TurnAccepted, Collect, Unlisten, StartArchive, Return, Call, vars
<1>4. ASSUME BInv, [PNext]_allVars, NEW b \in Prompts, emitted' # emitted,
             emitted'.thread = prompt[b].thread, PStage(b) \in {"turning", "collecting"}
      PROVE  FALSE
  <2>1. CASE Next
    BY <1>1, <1>2, <1>4, <2>1 DEF PStage
  <2>2. CASE UNCHANGED allVars
    BY <1>4, <2>2 DEF allVars, vars
  <2> QED BY <1>3, <1>4, <2>1, <2>2 DEF PNext
<1>5. BInv /\ [PNext]_allVars =>
        [ \A b \in Prompts :
          /\ emitted' # emitted
          /\ emitted'.thread = prompt[b].thread
          /\ PStage(b) \in {"turning", "collecting"}
          => FALSE ]_allVars
  BY <1>4
<1> QED BY <1>5, BInvInit, BInvStep, PTL DEF PSpec, TurnStaysInBackground
=============================================================================
