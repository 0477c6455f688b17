-------------------------- MODULE QueuedSendProofs --------------------------
(***************************************************************************)
(* A message of the composer is not lost, and reaches the app-server once  *)
(* as long as no request fails; and once nothing is on its way the thread  *)
(* shows the turn that runs, stops spinning when none does, and its queue  *)
(* does not wait for nothing.                                              *)
(*                                                                         *)
(* The messages.  One inductive invariant says of every message without a  *)
(* last word where it is: in the queue, in a call, or at the app-server.   *)
(* Its second part, Once, holds until a request fails: a message is in one *)
(* of these places only, in one call, and once in the queue.  The flush    *)
(* takes its message from the last render and drops the head of the queue  *)
(* of now; HeadIsFresh says why the two agree or do no harm: while effects *)
(* are due, the head of the rendered queue is still the head of the queue, *)
(* or has left it without having been sent.  The steps of Next fall into   *)
(* seven kinds by what they do to the queue, the calls and the histories   *)
(* (Quiet ... MessageFlushed); StepFacts sorts them, and each part of the  *)
(* invariant is shown to survive each kind.                                *)
(*                                                                         *)
(* The turns.  The events still to be handled are a stream in which the    *)
(* turns come one after the other, each starts once and the last of them   *)
(* runs or is over (Ordered, Whole).  Over it, SpinInv says that the turn  *)
(* shown has an event to come or runs, that an end still to come is taken  *)
(* for one of a turn that is still to end (Tracked), and that what spins   *)
(* waits for a turn or an answer.  That an end is never ignored for a turn *)
(* that is over hangs on the optimistic cache: while it is optimistic it   *)
(* stands for the turn whose events are being handled (Cached), and no     *)
(* turn is known that comes after the one that is shown.  ViewInv adds     *)
(* when a review may be shown and from which event on the running turn is, *)
(* and QueueInv what the two effects leave.                                *)
(***************************************************************************)
EXTENDS QueuedSend, FiniteSetTheorems, TLAPS

---------------------------------------------------------------------------
(* Types *)

Turns == Messages \cup {NoTurn}

Thread ==
  [processing : BOOLEAN, reviewing : BOOLEAN, turn : Turns, queue : Seq(Messages),
   inFlight : Messages \cup {NoMessage}, hasStarted : BOOLEAN, active : BOOLEAN]

CallRecord ==
  [msg : Messages \cup {NoMessage}, mode : {"start", "steer", "review", "command", "refresh"},
   turn : Turns, queued : BOOLEAN,
   answer : {"preparing", "awaited", "ok", "stale", "failed"}]

Notice ==
  [kind : {"started", "entered", "item", "exited", "completed", "error", "closed", "idle"},
   turn : Turns]

Cache == [immediate : Turns \cup {Unset}, last : Turns \cup {Unset}, optimistic : BOOLEAN]

Fates == {"unsent", "sent", "queued", "refused", "removed", "answered", "dropped"}

Types ==
  /\ state \in Thread /\ rendered \in Thread
  /\ refs \in Cache /\ pending \in BOOLEAN
  /\ calls \in SUBSET CallRecord /\ interrupts \in SUBSET Turns
  /\ running \in Turns /\ events \in Seq(Notice)
  /\ fate \in [Messages -> Fates] /\ reached \in [Messages -> Nat]
  /\ disturbed \in [Disturbances -> Nat]
  /\ effectsDue \in BOOLEAN

\* What the actions of the reducer leave of a thread: its queue.
LEMMA ReducerFacts ==
  ASSUME NEW s \in Thread, NEW on \in BOOLEAN, NEW t \in Turns
  PROVE  /\ MarkProcessing(s, on) \in Thread /\ MarkProcessing(s, on).queue = s.queue
         /\ MarkReviewing(s, on) \in Thread /\ MarkReviewing(s, on).queue = s.queue
         /\ SetActiveTurnId(s, t) \in Thread /\ SetActiveTurnId(s, t).queue = s.queue
BY DEF Thread, MarkProcessing, MarkReviewing, SetActiveTurnId

\* A turn that ends leaves the queue too.
LEMMA EndTurnFacts ==
  ASSUME NEW s \in Thread
  PROVE  /\ EndTurn(s) \in Thread /\ EndTurn(s).queue = s.queue
         /\ MarkReviewing(EndTurn(s), FALSE) \in Thread
         /\ MarkReviewing(EndTurn(s), FALSE).queue = s.queue
<1>1. NoTurn \in Turns
  BY DEF Turns
<1>2. MarkProcessing(s, FALSE) \in Thread /\ MarkProcessing(s, FALSE).queue = s.queue
  BY ReducerFacts, <1>1
<1>3. EndTurn(s) \in Thread /\ EndTurn(s).queue = s.queue
  BY <1>1, <1>2, ReducerFacts DEF EndTurn
<1> QED BY <1>1, <1>3, ReducerFacts

\* The cache keeps its type.
LEMMA CacheFacts ==
  ASSUME Types
  PROVE  Refreshed \in Cache /\ ResetRefs(Refreshed) \in Cache /\ ResetRefs(refs) \in Cache
<1>1. /\ refs \in Cache /\ rendered.turn \in Turns /\ NoTurn \in Turns
  BY DEF Types, Thread, Turns
<1>2. Refreshed \in Cache
  BY <1>1 DEF Refreshed, Cache
<1>3. \A r \in Cache : ResetRefs(r) \in Cache
  BY <1>1 DEF ResetRefs, Cache
<1> QED BY <1>1, <1>2, <1>3

\* The last word on a message.
LEMMA OverFacts ==
  ASSUME fate \in [Messages -> Fates], NEW m \in Messages,
         NEW how \in {"refused", "removed", "answered", "dropped"}
  PROVE  /\ Over(fate, m, how) \in [Messages -> Fates]
         /\ Over(fate, m, how)[m] \notin {"sent", "queued"}
         /\ Over(fate, m, how)[m] = "unsent" => fate[m] = "unsent"
         /\ \A k \in Messages : k # m => Over(fate, m, how)[k] = fate[k]
BY DEF Over, Fates

\* A step counts its disturbances.
LEMMA DisturbFacts ==
  ASSUME disturbed \in [Disturbances -> Nat], NEW kinds, DisturbWith(kinds)
  PROVE  /\ disturbed' \in [Disturbances -> Nat]
         /\ \A kind \in Disturbances :
              /\ disturbed'[kind] = 0 => disturbed[kind] = 0
              /\ kind \in kinds => disturbed'[kind] # 0
<1> DEFINE now == [kind \in Disturbances |->
                     disturbed[kind] + IF kind \in kinds THEN 1 ELSE 0]
<1>1. disturbed' = now
  BY DEF DisturbWith
<1> QED BY <1>1

---------------------------------------------------------------------------
(* Queues *)

Listed(q, m) == \E i \in 1..Len(q) : q[i] = m
Distinct(q) == \A i, j \in 1..Len(q) : q[i] = q[j] => i = j

\* The queue as a set.
LEMMA ListedIsInSet ==
  ASSUME NEW S, NEW q \in Seq(S), NEW m
  PROVE  m \in ToSet(q) <=> Listed(q, m)
BY DEF ToSet, Listed

\* A message at the end of a queue.
LEMMA AppendFacts ==
  ASSUME NEW S, NEW q \in Seq(S), NEW m \in S
  PROVE  /\ Append(q, m) \in Seq(S) /\ Append(q, m) # <<>>
         /\ \A k : Listed(Append(q, m), k) <=> Listed(q, k) \/ k = m
         /\ ~Listed(q, m) /\ Distinct(q) => Distinct(Append(q, m))
         /\ q # <<>> => Head(Append(q, m)) = Head(q)
<1> DEFINE r == Append(q, m)
<1>1. /\ r \in Seq(S) /\ Len(q) \in Nat /\ Len(r) = Len(q) + 1 /\ r[Len(q) + 1] = m
      /\ \A i \in 1..Len(q) : r[i] = q[i]
  OBVIOUS
<1> HIDE DEF r
<1>2. r # <<>> /\ (q # <<>> => Head(r) = Head(q))
  <2>1. r # <<>> /\ Head(r) = r[1]
    BY <1>1
  <2>2. q # <<>> => Head(q) = q[1] /\ 1 \in 1..Len(q)
    OBVIOUS
  <2> QED BY <1>1, <2>1, <2>2
<1>3. ASSUME NEW k PROVE Listed(r, k) <=> Listed(q, k) \/ k = m
  <2>1. ASSUME NEW i \in 1..Len(r) PROVE i \in 1..Len(q) \/ i = Len(q) + 1
    BY <1>1
  <2>2. Listed(r, k) => Listed(q, k) \/ k = m
    BY <1>1, <2>1 DEF Listed
  <2>3. Len(q) + 1 \in 1..Len(r) /\ 1..Len(q) \subseteq 1..Len(r)
    BY <1>1
  <2>4. Listed(q, k) \/ k = m => Listed(r, k)
    BY <1>1, <2>3 DEF Listed
  <2> QED BY <2>2, <2>4
<1>4. ASSUME ~Listed(q, m), Distinct(q) PROVE Distinct(r)
  <2>1. ASSUME NEW i \in 1..Len(r), NEW j \in 1..Len(r), r[i] = r[j] PROVE i = j
    <3>1. i \in 1..Len(q) \/ i = Len(q) + 1
      BY <1>1
    <3>2. j \in 1..Len(q) \/ j = Len(q) + 1
      BY <1>1
    <3> QED BY <1>1, <1>4, <2>1, <3>1, <3>2 DEF Listed, Distinct
  <2> QED BY <2>1 DEF Distinct
<1> QED BY <1>1, <1>2, <1>3, <1>4 DEF r

\* A message given back to the head.
LEMMA PrependFacts ==
  ASSUME NEW S, NEW q \in Seq(S), NEW m \in S
  PROVE  /\ <<m>> \o q \in Seq(S)
         /\ \A k : Listed(q, k) \/ k = m => Listed(<<m>> \o q, k)
<1> DEFINE r == <<m>> \o q
<1>1. /\ r \in Seq(S) /\ Len(q) \in Nat /\ Len(r) = Len(q) + 1 /\ r[1] = m
      /\ \A i \in 1..Len(q) : r[i + 1] = q[i]
  OBVIOUS
<1> HIDE DEF r
<1>2. ASSUME NEW k, Listed(q, k) \/ k = m PROVE Listed(r, k)
  <2>1. CASE k = m
    BY <1>1, <2>1 DEF Listed
  <2>2. CASE Listed(q, k)
    <3>1. PICK i \in 1..Len(q) : q[i] = k
      BY <2>2 DEF Listed
    <3>2. i + 1 \in 1..Len(r) /\ r[i + 1] = k
      BY <1>1, <3>1
    <3> QED BY <3>2 DEF Listed
  <2> QED BY <1>2, <2>1, <2>2
<1> QED BY <1>1, <1>2 DEF r

\* A queue without its head.
LEMMA TailFacts ==
  ASSUME NEW S, NEW q \in Seq(S), q # <<>>
  PROVE  /\ Tail(q) \in Seq(S) /\ Head(q) \in S
         /\ \A k : Listed(q, k) => k = Head(q) \/ Listed(Tail(q), k)
         /\ \A k : Listed(Tail(q), k) => Listed(q, k)
         /\ Distinct(q) => Distinct(Tail(q)) /\ ~Listed(Tail(q), Head(q))
<1> DEFINE r == Tail(q)
<1>1. /\ r \in Seq(S) /\ Head(q) \in S /\ Len(q) \in Nat \ {0} /\ Len(r) = Len(q) - 1
      /\ Head(q) = q[1] /\ \A i \in 1..Len(r) : r[i] = q[i + 1]
  OBVIOUS
<1> HIDE DEF r
<1>2. ASSUME NEW k, Listed(q, k) PROVE k = Head(q) \/ Listed(r, k)
  <2>1. PICK i \in 1..Len(q) : q[i] = k
    BY <1>2 DEF Listed
  <2>2. i # 1 => i - 1 \in 1..Len(r) /\ r[i - 1] = q[(i - 1) + 1] /\ (i - 1) + 1 = i
    BY <1>1
  <2> QED BY <1>1, <2>1, <2>2 DEF Listed
<1>3. \A i \in 1..Len(r) : i + 1 \in 1..Len(q) /\ i + 1 # 1 /\ r[i] = q[i + 1]
  BY <1>1
<1>4. ASSUME NEW k, Listed(r, k) PROVE Listed(q, k)
  BY <1>3, <1>4 DEF Listed
<1>5. ASSUME Distinct(q) PROVE Distinct(r) /\ ~Listed(r, Head(q))
  <2>1. ASSUME NEW i \in 1..Len(r), NEW j \in 1..Len(r), r[i] = r[j] PROVE i = j
    <3>1. i + 1 = j + 1
      BY <1>3, <1>5, <2>1 DEF Distinct
    <3> QED BY <3>1
  <2>2. ~Listed(r, Head(q))
    <3>1. 1 \in 1..Len(q)
      BY <1>1
    <3> QED BY <1>1, <1>3, <1>5, <3>1 DEF Listed, Distinct
  <2> QED BY <2>1, <2>2 DEF Distinct
<1> QED BY <1>1, <1>2, <1>4, <1>5 DEF r

\* r is q without m, told by the places it keeps, as RemoveQueuedMessage writes it.
IsFilter(r, q, m, n, kept, place) ==
  /\ n \in Nat /\ kept \subseteq 1..Len(q)
  /\ \A k \in 1..Len(q) : k \in kept <=> q[k] # m
  /\ place \in Bijection(1..n, kept)
  /\ \A i, j \in DOMAIN place : i < j => place[i] < place[j]
  /\ DOMAIN r = 1..n /\ r = [i \in 1..n |-> r[i]]
  /\ \A i \in 1..n : r[i] = q[place[i]]

\* A filter keeps the others, once each and in their order.
LEMMA FilterFacts ==
  ASSUME NEW S, NEW q \in Seq(S), NEW m, NEW n, NEW kept, NEW place, NEW r,
         IsFilter(r, q, m, n, kept, place)
  PROVE  /\ r \in Seq(S)
         /\ \A k : Listed(r, k) <=> Listed(q, k) /\ k # m
         /\ Distinct(q) => Distinct(r)
         /\ \A k : Listed(r, k) /\ Head(q) = k => Head(r) = k
<1>1. /\ Len(q) \in Nat /\ n \in Nat
      /\ place \in [1..n -> kept] /\ DOMAIN place = 1..n
      /\ \A i, j \in 1..n : place[i] = place[j] => i = j
      /\ \A k \in kept : \E i \in 1..n : place[i] = k
      /\ \A i, j \in 1..n : i < j => place[i] < place[j]
  BY DEF IsFilter, Bijection, Injection, Surjection, IsInjective
<1>2. kept \subseteq 1..Len(q) /\ \A k \in 1..Len(q) : k \in kept <=> q[k] # m
  BY DEF IsFilter
<1>3. \A i \in 1..n : place[i] \in kept /\ place[i] \in 1..Len(q) /\ q[place[i]] \in S
  <2>1. \A k \in 1..Len(q) : q[k] \in S
    OBVIOUS
  <2>2. \A i \in 1..n : place[i] \in kept
    BY <1>1
  <2> QED BY <1>2, <2>1, <2>2
<1>4. r \in [1..n -> S] /\ \A i \in 1..n : r[i] = q[place[i]]
  BY <1>3 DEF IsFilter
<1>5. r \in Seq(S) /\ Len(r) = n
  BY <1>1, <1>4
<1>6. ASSUME NEW k PROVE Listed(r, k) <=> Listed(q, k) /\ k # m
  <2>1. Listed(r, k) => Listed(q, k) /\ k # m
    BY <1>2, <1>3, <1>4, <1>5 DEF Listed
  <2>2. ASSUME Listed(q, k), k # m PROVE Listed(r, k)
    <3>1. PICK j \in 1..Len(q) : q[j] = k
      BY <2>2 DEF Listed
    <3>2. PICK i \in 1..n : place[i] = j
      BY <1>1, <1>2, <2>2, <3>1
    <3> QED BY <1>4, <1>5, <3>1, <3>2 DEF Listed
  <2> QED BY <2>1, <2>2
<1>7. ASSUME Distinct(q) PROVE Distinct(r)
  <2>1. ASSUME NEW i \in 1..Len(r), NEW j \in 1..Len(r), r[i] = r[j] PROVE i = j
    <3>1. i \in 1..n /\ j \in 1..n /\ q[place[i]] = q[place[j]]
      BY <1>4, <1>5, <2>1
    <3>2. place[i] = place[j]
      BY <1>3, <1>7, <3>1 DEF Distinct
    <3> QED BY <1>1, <3>1, <3>2
  <2> QED BY <2>1 DEF Distinct
<1>8. ASSUME NEW k, Listed(r, k), Head(q) = k PROVE Head(r) = k
  <2>1. k # m /\ Listed(q, k) /\ 1 \in 1..Len(q) /\ q[1] = k
    <3>1. k # m /\ Listed(q, k)
      BY <1>6, <1>8
    <3>2. q # <<>>
      BY <1>1, <3>1 DEF Listed
    <3> QED BY <1>8, <3>1, <3>2
  <2>2. PICK i \in 1..n : place[i] = 1
    BY <1>1, <1>2, <2>1
  <2>3. i = 1
    <3>1. 1 \in 1..n /\ place[1] \in Nat /\ place[1] >= 1
      BY <1>1, <1>3
    <3>2. 1 < i => place[1] < place[i]
      BY <1>1, <3>1
    <3> QED BY <2>2, <3>1, <3>2
  <2>4. r[1] = k /\ Len(r) >= 1
    BY <1>4, <1>5, <2>1, <2>2, <2>3
  <2> QED BY <1>5, <2>4
<1> QED BY <1>5, <1>6, <1>7, <1>8

---------------------------------------------------------------------------
(* What the steps do, as the properties tell them apart: to the queue, the *)
(* calls, and the histories of the messages.                               *)

Known == <<fate, reached>>
View == <<rendered, effectsDue>>
Calm == disturbed["failure"] = 0
CalmBefore == Calm' => Calm

\* Nothing a message depends on changes; the view may be brought up to date.
Quiet ==
  /\ state'.queue = state.queue /\ UNCHANGED <<calls, Known>>
  /\ \/ UNCHANGED View
     \/ effectsDue' = FALSE
     \/ rendered' = state /\ state' = state

\* What the app-server reports are notices.
LEMMA NoticeFacts ==
  ASSUME Types, NEW t \in Turns, MessagesAssumption
  PROVE  /\ Begun(t) \in Seq(Notice) /\ Stopped(t) \in Seq(Notice)
         /\ \A ending \in Ended(t) : ending \in Seq(Notice)
         /\ <<Event("idle", t)>> \in Seq(Notice) /\ Event("item", t) \in Notice
<1>1. \A k \in {"started", "entered", "item", "exited", "completed", "error",
                "closed", "idle"} :
        Event(k, t) \in Notice /\ <<Event(k, t)>> \in Seq(Notice)
  BY DEF Event, Notice
<1>2. <<>> \in Seq(Notice) /\ \A a, b \in Seq(Notice) : a \o b \in Seq(Notice)
  OBVIOUS
<1>3. Begun(t) \in Seq(Notice)
  BY <1>1, <1>2 DEF Begun
<1>4. Stopped(t) \in Seq(Notice)
  BY <1>1, <1>2 DEF Stopped
<1>5. ASSUME NEW ending \in Ended(t) PROVE ending \in Seq(Notice)
  BY <1>1, <1>4 DEF Ended
<1> QED BY <1>1, <1>3, <1>4, <1>5

\* An event taken from the stream.
LEMMA HandleFacts ==
  ASSUME Types, NEW kind, Handle(kind)
  PROVE  events' \in Seq(Notice) /\ Head(events).turn \in Turns
<1>1. events \in Seq(Notice) /\ events # <<>> /\ events' = Tail(events)
  BY DEF Types, Handle
<1>2. Head(events) \in Notice /\ Tail(events) \in Seq(Notice)
  BY <1>1
<1> QED BY <1>1, <1>2 DEF Notice

\* The events only move the turn of the thread.
LEMMA EventSteps ==
  ASSUME Types, OnEvent
  PROVE  Types' /\ Quiet /\ CalmBefore
<1>1. /\ state \in Thread /\ rendered \in Thread /\ refs \in Cache
      /\ interrupts \in SUBSET Turns /\ rendered.turn \in Turns /\ pending \in BOOLEAN
      /\ disturbed \in [Disturbances -> Nat]
  BY DEF Types, Thread
<1>2. /\ UNCHANGED <<rendered, calls, running, fate, reached, effectsDue>>
  BY DEF OnEvent, OnTurnStarted, OnTurnCompleted, OnTurnError, OnThreadStatusChanged, OnItem
<1> DEFINE Goal == /\ state' \in Thread /\ state'.queue = state.queue /\ refs' \in Cache
                   /\ interrupts' \in SUBSET Turns /\ pending' \in BOOLEAN
                   /\ events' \in Seq(Notice)
                   /\ disturbed' \in [Disturbances -> Nat] /\ CalmBefore
<1>20. UNCHANGED disturbed => disturbed' \in [Disturbances -> Nat] /\ CalmBefore
  BY <1>1 DEF Calm, CalmBefore
<1>3. ASSUME OnTurnStarted PROVE Goal
  <2>1. events' \in Seq(Notice) /\ Head(events).turn \in Turns
    BY <1>3, HandleFacts DEF OnTurnStarted
  <2> DEFINE turn == Head(events).turn
  <2>2. CASE pending
    BY <1>1, <1>3, <1>20, <2>1, <2>2 DEF OnTurnStarted
  <2>3. CASE ~pending
    <3>1. /\ state' = SetActiveTurnId(MarkProcessing(state, TRUE), turn)
          /\ refs' = [last |-> rendered.turn, immediate |-> turn, optimistic |-> TRUE]
          /\ UNCHANGED <<pending, interrupts, disturbed>>
      BY <1>3, <2>3 DEF OnTurnStarted
    <3>2. MarkProcessing(state, TRUE) \in Thread /\ MarkProcessing(state, TRUE).queue = state.queue
      BY <1>1, ReducerFacts
    <3>3. state' \in Thread /\ state'.queue = state.queue
      BY <2>1, <3>1, <3>2, ReducerFacts
    <3>4. refs' \in Cache
      BY <1>1, <2>1, <3>1 DEF Cache
    <3> QED BY <1>1, <1>20, <2>1, <3>1, <3>3, <3>4
  <2> QED BY <2>2, <2>3
<1>4. ASSUME OnTurnCompleted PROVE Goal
  <2>1. events' \in Seq(Notice)
    BY <1>4, HandleFacts DEF OnTurnCompleted
  <2>2. /\ state' = state \/ state' = EndTurn(state)
        /\ refs' = Refreshed \/ refs' = ResetRefs(Refreshed)
        /\ pending' = FALSE \/ pending' = pending
        /\ UNCHANGED <<interrupts, disturbed>>
    BY <1>4 DEF OnTurnCompleted
  <2> QED BY <1>1, <1>20, <2>1, <2>2, CacheFacts, EndTurnFacts
<1>5. ASSUME OnTurnError PROVE Goal
  <2>1. events' \in Seq(Notice)
    BY <1>5, HandleFacts DEF OnTurnError
  <2>2. /\ state' = state \/ state' = MarkReviewing(EndTurn(state), FALSE)
        /\ refs' = Refreshed \/ refs' = ResetRefs(Refreshed)
        /\ pending' = FALSE \/ pending' = pending
        /\ UNCHANGED interrupts
    BY <1>5 DEF OnTurnError
  <2>3. disturbed' \in [Disturbances -> Nat] /\ CalmBefore
    <3>1. \/ UNCHANGED disturbed
          \/ disturbed' = [disturbed EXCEPT !["unheeded"] = @ + 1]
      BY <1>5 DEF OnTurnError
    <3>2. CASE disturbed' = [disturbed EXCEPT !["unheeded"] = @ + 1]
      BY <1>1, <3>2 DEF Calm, CalmBefore, Disturbances
    <3> QED BY <1>20, <3>1, <3>2
  <2> QED BY <1>1, <2>1, <2>2, <2>3, CacheFacts, EndTurnFacts
<1>6. ASSUME OnThreadStatusChanged PROVE Goal
  <2>1. events' \in Seq(Notice)
    BY <1>6, HandleFacts DEF OnThreadStatusChanged
  <2>2. /\ state' = EndTurn(state) \/ state' = MarkReviewing(EndTurn(state), FALSE)
        /\ refs' = ResetRefs(refs) /\ pending' = FALSE
        /\ UNCHANGED <<interrupts, disturbed>>
    BY <1>6 DEF OnThreadStatusChanged
  <2> QED BY <1>1, <1>20, <2>1, <2>2, CacheFacts, EndTurnFacts
<1>7. ASSUME OnItem PROVE Goal
  <2>1. events' \in Seq(Notice) /\ UNCHANGED <<refs, pending, interrupts, disturbed>>
    BY <1>7, HandleFacts DEF OnItem
  <2>2. \/ state' = MarkProcessing(state, TRUE)
        \/ state' = MarkReviewing(MarkProcessing(state, TRUE), TRUE)
        \/ state' = MarkProcessing(MarkReviewing(state, FALSE), FALSE)
    BY <1>7 DEF OnItem
  <2>3. state' \in Thread /\ state'.queue = state.queue
    <3>1. /\ MarkProcessing(state, TRUE) \in Thread
          /\ MarkProcessing(state, TRUE).queue = state.queue
          /\ MarkReviewing(state, FALSE) \in Thread
          /\ MarkReviewing(state, FALSE).queue = state.queue
      BY <1>1, ReducerFacts
    <3>2. /\ MarkReviewing(MarkProcessing(state, TRUE), TRUE) \in Thread
          /\ MarkReviewing(MarkProcessing(state, TRUE), TRUE).queue = state.queue
      BY <1>1, <3>1, ReducerFacts
    <3>3. /\ MarkProcessing(MarkReviewing(state, FALSE), FALSE) \in Thread
          /\ MarkProcessing(MarkReviewing(state, FALSE), FALSE).queue = state.queue
      BY <1>1, <3>1, ReducerFacts
    <3> QED BY <2>2, <3>1, <3>2, <3>3
  <2> QED BY <1>1, <1>20, <2>1, <2>3
<1>8. Goal
  BY <1>3, <1>4, <1>5, <1>6, <1>7 DEF OnEvent
<1>9. Types'
  BY <1>2, <1>8 DEF Types
<1> QED BY <1>2, <1>8, <1>9 DEF Quiet, Known, View, Calm, CalmBefore

\* So do an interrupt and the ends of a turn at the app-server.
LEMMA TurnSteps ==
  ASSUME Types, MessagesAssumption,
         \/ InterruptTurn
         \/ \E turn \in interrupts : ServeInterrupt(turn)
         \/ Finish \/ Work,
         UNCHANGED effectsDue
  PROVE  Types' /\ Quiet /\ CalmBefore
<1>1. /\ state \in Thread /\ rendered \in Thread /\ rendered.turn \in Turns
      /\ interrupts \in SUBSET Turns /\ pending \in BOOLEAN /\ running \in Turns
      /\ events \in Seq(Notice) /\ disturbed \in [Disturbances -> Nat] /\ NoTurn \in Turns
      /\ "failure" \in Disturbances
  BY DEF Types, Thread, Turns, Disturbances
<1> DEFINE Goal == /\ state' \in Thread /\ state'.queue = state.queue
                   /\ interrupts' \in SUBSET Turns /\ pending' \in BOOLEAN
                   /\ running' \in Turns /\ events' \in Seq(Notice)
                   /\ disturbed' \in [Disturbances -> Nat] /\ CalmBefore
                   /\ UNCHANGED <<rendered, refs, calls, fate, reached>>
<1>2. ASSUME NEW kinds, DisturbWith(kinds)
      PROVE  disturbed' \in [Disturbances -> Nat] /\ CalmBefore
  BY <1>1, <1>2, DisturbFacts DEF Calm, CalmBefore
<1>3. CalmBefore \/ disturbed' # disturbed
  BY DEF Calm, CalmBefore
<1>4. \A a, b \in Seq(Notice) : a \o b \in Seq(Notice)
  OBVIOUS
<1>5. ASSUME InterruptTurn PROVE Goal
  <2>1. /\ DisturbWith({"interrupt"}) /\ state' = EndTurn(state)
        /\ \/ pending' = TRUE /\ UNCHANGED interrupts
           \/ interrupts' = interrupts \cup {rendered.turn} /\ UNCHANGED pending
        /\ UNCHANGED <<rendered, refs, calls, running, events, fate, reached>>
    BY <1>5 DEF InterruptTurn, Disturb
  <2>2. disturbed' \in [Disturbances -> Nat] /\ CalmBefore
    BY <1>2, <2>1
  <2>3. state' \in Thread /\ state'.queue = state.queue
    BY <1>1, <2>1, EndTurnFacts
  <2> QED BY <1>1, <2>1, <2>2, <2>3
<1>6. ASSUME NEW turn \in interrupts, ServeInterrupt(turn) PROVE Goal
  <2>1. /\ interrupts' = interrupts \ {turn}
        /\ \/ running' = NoTurn /\ events' = events \o Stopped(turn) /\ DisturbWith(Late)
           \/ UNCHANGED <<running, events, disturbed>>
        /\ UNCHANGED <<state, rendered, refs, pending, calls, fate, reached>>
    BY <1>6 DEF ServeInterrupt
  <2>2. disturbed' \in [Disturbances -> Nat] /\ CalmBefore
    BY <1>1, <1>2, <1>3, <2>1
  <2>3. Stopped(turn) \in Seq(Notice)
    BY <1>1, NoticeFacts
  <2> QED BY <1>1, <1>4, <2>1, <2>2, <2>3
<1>7. ASSUME Finish PROVE Goal
  <2>1. PICK ending \in Ended(running) :
          \/ events' = events \o ending /\ DisturbWith(Late)
          \/ /\ events' = events \o ending \o <<Event("idle", running)>>
             /\ DisturbWith({"twice"} \cup Late)
    BY <1>7 DEF Finish
  <2>2. disturbed' \in [Disturbances -> Nat] /\ CalmBefore
    BY <1>2, <2>1
  <2>3. ending \in Seq(Notice) /\ <<Event("idle", running)>> \in Seq(Notice)
    BY <1>1, NoticeFacts
  <2>4. events' \in Seq(Notice)
    BY <1>1, <1>4, <2>1, <2>3
  <2>5. running' = NoTurn /\ UNCHANGED <<state, rendered, refs, pending, calls, interrupts, fate, reached>>
    BY <1>7 DEF Finish
  <2> QED BY <1>1, <2>2, <2>4, <2>5
<1>8. ASSUME Work PROVE Goal
  <2>1. /\ DisturbWith({"item"}) /\ events' = Append(events, Event("item", running))
        /\ UNCHANGED <<state, rendered, refs, pending, calls, interrupts, running, fate, reached>>
    BY <1>8 DEF Work, Disturb
  <2>2. disturbed' \in [Disturbances -> Nat] /\ CalmBefore
    BY <1>2, <2>1
  <2>3. Event("item", running) \in Notice
    BY <1>1, NoticeFacts
  <2>4. events' \in Seq(Notice)
    BY <1>1, <2>1, <2>3
  <2> QED BY <1>1, <2>1, <2>2, <2>4
<1>9. Goal
  BY <1>5, <1>6, <1>7, <1>8
<1>10. Types'
  BY <1>9 DEF Types
<1> QED BY <1>9, <1>10 DEF Quiet, Known, View

\* So do the user who leaves the thread or comes back, a render, and effects
\* that have nothing to send.
LEMMA ViewSteps ==
  ASSUME Types, SelectThread \/ Render \/ (RunEffects /\ ~CanFlush)
  PROVE  Types' /\ Quiet /\ CalmBefore
<1>1. /\ state \in Thread /\ rendered \in Thread
      /\ disturbed \in [Disturbances -> Nat] /\ "failure" \in Disturbances
  BY DEF Types, Disturbances
<1>2. ASSUME SelectThread PROVE Types' /\ Quiet /\ CalmBefore
  <2>1. /\ DisturbWith({"switch"}) /\ state' = [state EXCEPT !.active = ~@]
        /\ UNCHANGED <<rendered, refs, pending, calls, interrupts, running, events,
                       fate, reached, effectsDue>>
    BY <1>2 DEF SelectThread, Disturb
  <2>2. disturbed' \in [Disturbances -> Nat] /\ CalmBefore
    BY <1>1, <2>1, DisturbFacts DEF Calm, CalmBefore
  <2>3. state' \in Thread /\ state'.queue = state.queue
    BY <1>1, <2>1 DEF Thread
  <2> QED BY <2>1, <2>2, <2>3 DEF Types, Quiet, Known, View
<1>3. ASSUME Render PROVE Types' /\ Quiet /\ CalmBefore
  BY <1>3 DEF Render, Types, Quiet, Known, View, CalmBefore, Calm
<1>4. ASSUME RunEffects, ~CanFlush PROVE Types' /\ Quiet /\ CalmBefore
  <2>1. /\ effectsDue' = FALSE /\ state' = WatchInFlight
        /\ UNCHANGED <<calls, fate, rendered, refs, pending, interrupts, running, events,
                       reached, disturbed>>
    BY <1>4 DEF RunEffects
  <2>2. state' \in Thread /\ state'.queue = state.queue
    BY <1>1, <2>1 DEF WatchInFlight, Thread
  <2> QED BY <2>1, <2>2 DEF Types, Quiet, Known, View, CalmBefore, Calm
<1> QED BY <1>2, <1>3, <1>4

\* What is known of a call: a refresh carries no message and is asked at once,
\* only a steer can be stale, and a message is answered "ok" that arrived.
CallsKnow ==
  \A c \in calls :
    /\ c.mode = "refresh" <=> c.msg = NoMessage
    /\ c.mode = "refresh" => c.answer # "preparing"
    /\ c.answer = "stale" => c.mode = "steer"
    /\ c.mode \in {"start", "steer", "review"} /\ c.answer = "ok" => reached[c.msg] > 0

\* A call is sent, arrives, is answered or fails.
CallGoesOn ==
  \E c \in calls, d \in CallRecord :
    /\ calls' = (calls \ {c}) \cup {d}
    /\ d.msg = c.msg /\ d.mode = c.mode
    /\ d.answer # "preparing"
    /\ d.answer = "stale" => d.mode = "steer"
    /\ c.answer = "ok" => d.answer = "failed"
    /\ d.answer = "failed" => ~Calm'
    /\ state'.queue = state.queue /\ UNCHANGED <<fate, View>>
    /\ \/ /\ c.msg \in Messages /\ c.answer = "awaited" /\ d.answer = "ok"
          /\ reached' = [reached EXCEPT ![c.msg] = @ + 1]
       \/ /\ d.answer = "ok" => d.mode \in {"command", "refresh"}
          /\ UNCHANGED reached

\* Every call but a refresh carries a message.
LEMMA CallFacts ==
  ASSUME Types, CallsKnow, MessagesAssumption, NEW c \in calls
  PROVE  /\ c \in CallRecord
         /\ c.msg \in Messages \cup {NoMessage} /\ c.turn \in Turns
         /\ c.mode # "refresh" => c.msg \in Messages /\ c.msg \in Turns
         /\ c.mode = "refresh" => c.msg = NoMessage
BY DEF Types, CallsKnow, CallRecord, MessagesAssumption, Turns

\* The app-server's part in a call.
LEMMA ServeSteps ==
  ASSUME Types, CallsKnow, MessagesAssumption, NEW c \in calls,
         ServeStart(c) \/ ServeSteer(c) \/ ServeQuery(c) \/ Fail(c), UNCHANGED effectsDue
  PROVE  Types' /\ CallGoesOn /\ CalmBefore
<1>1. /\ running \in Turns /\ events \in Seq(Notice) /\ disturbed \in [Disturbances -> Nat]
      /\ reached \in [Messages -> Nat] /\ calls \in SUBSET CallRecord /\ NoTurn \in Turns
      /\ "failure" \in Disturbances
  BY DEF Types, Turns, Disturbances
<1>2. /\ c \in CallRecord /\ c.turn \in Turns
      /\ c.mode # "refresh" => c.msg \in Messages /\ c.msg \in Turns
  BY CallFacts
<1>3. ASSUME NEW answer \in {"awaited", "ok", "stale", "failed"}, NEW t \in Turns
      PROVE  /\ [c EXCEPT !.answer = answer, !.turn = t] \in CallRecord
             /\ [c EXCEPT !.answer = answer] \in CallRecord
  BY <1>2 DEF CallRecord
<1> DEFINE Goal == /\ running' \in Turns /\ events' \in Seq(Notice)
                   /\ disturbed' \in [Disturbances -> Nat] /\ CalmBefore
                   /\ CallGoesOn
                   /\ UNCHANGED <<state, rendered, refs, pending, interrupts, fate, effectsDue>>
<1>4. ASSUME NEW kinds, DisturbWith(kinds)
      PROVE  /\ disturbed' \in [Disturbances -> Nat] /\ CalmBefore
             /\ "failure" \in kinds => ~Calm'
  BY <1>1, <1>4, DisturbFacts DEF Calm, CalmBefore
<1>5. CalmBefore \/ disturbed' # disturbed
  BY DEF Calm, CalmBefore
<1>6. \A a, b \in Seq(Notice) : a \o b \in Seq(Notice)
  OBVIOUS
<1>7. ASSUME ServeStart(c) PROVE Goal
  <2> DEFINE d == [c EXCEPT !.answer = "ok"]
  <2>1. /\ c.mode \in {"start", "review"} /\ c.answer = "awaited"
        /\ calls' = (calls \ {c}) \cup {d}
        /\ running' = c.msg /\ reached' = [reached EXCEPT ![c.msg] = @ + 1]
        /\ \/ events' = events \o Begun(c.msg) /\ UNCHANGED disturbed
           \/ /\ DisturbWith({"overlap"} \cup Late)
              /\ events' = events \o Stopped(running) \o Begun(c.msg)
        /\ UNCHANGED <<state, rendered, refs, pending, interrupts, fate>>
    BY <1>7 DEF ServeStart, AnswerWith
  <2>2. disturbed' \in [Disturbances -> Nat] /\ CalmBefore
    BY <1>1, <1>4, <1>5, <2>1
  <2>3. c.msg \in Messages /\ c.msg \in Turns
    BY <1>2, <2>1
  <2>4. Begun(c.msg) \in Seq(Notice) /\ Stopped(running) \in Seq(Notice)
    BY <1>1, <2>3, NoticeFacts
  <2>5. events' \in Seq(Notice)
    <3>1. events \o Begun(c.msg) \in Seq(Notice) /\ events \o Stopped(running) \in Seq(Notice)
      BY <1>1, <1>6, <2>4
    <3>2. events \o Stopped(running) \o Begun(c.msg) \in Seq(Notice)
      BY <1>6, <2>4, <3>1
    <3> QED BY <2>1, <3>1, <3>2
  <2>6. d \in CallRecord /\ d.msg = c.msg /\ d.mode = c.mode /\ d.answer = "ok"
    BY <1>1, <1>2, <1>3 DEF CallRecord
  <2>7. CallGoesOn
    BY <2>1, <2>3, <2>6 DEF CallGoesOn, View
  <2> QED BY <2>1, <2>2, <2>3, <2>5, <2>7
<1>8. ASSUME ServeSteer(c) PROVE Goal
  <2>1. /\ c.mode = "steer" /\ c.answer = "awaited"
        /\ UNCHANGED <<state, rendered, refs, pending, interrupts, running, events, fate>>
    BY <1>8 DEF ServeSteer
  <2>2. CASE running = c.turn
    <3> DEFINE d == [c EXCEPT !.answer = "ok"]
    <3>1. /\ calls' = (calls \ {c}) \cup {d}
          /\ reached' = [reached EXCEPT ![c.msg] = @ + 1] /\ UNCHANGED disturbed
      BY <1>8, <2>2 DEF ServeSteer, AnswerWith
    <3>2. d \in CallRecord /\ d.msg = c.msg /\ d.mode = c.mode /\ d.answer = "ok"
      BY <1>1, <1>2, <1>3 DEF CallRecord
    <3>3. CallGoesOn
      BY <1>2, <2>1, <3>1, <3>2 DEF CallGoesOn, View
    <3> QED BY <1>1, <1>5, <2>1, <3>1, <3>3
  <2>3. CASE running # c.turn
    <3> DEFINE d == [c EXCEPT !.answer = "stale"]
    <3>1. /\ calls' = (calls \ {c}) \cup {d}
          /\ DisturbWith({"stale"}) /\ UNCHANGED reached
      BY <1>8, <2>3 DEF ServeSteer, AnswerWith, Disturb
    <3>2. d \in CallRecord /\ d.msg = c.msg /\ d.mode = c.mode /\ d.answer = "stale"
      BY <1>1, <1>2, <1>3 DEF CallRecord
    <3>3. CallGoesOn
      BY <1>2, <2>1, <3>1, <3>2 DEF CallGoesOn, View
    <3> QED BY <1>1, <1>4, <2>1, <3>1, <3>3
  <2> QED BY <2>2, <2>3
<1>9. ASSUME ServeQuery(c) PROVE Goal
  <2> DEFINE t == IF c.mode = "refresh" THEN running ELSE NoTurn
             d == [c EXCEPT !.answer = "ok", !.turn = t]
  <2>1. /\ c.mode \in {"command", "refresh"} /\ c.answer = "awaited"
        /\ calls' = (calls \ {c}) \cup {d}
        /\ UNCHANGED <<state, rendered, refs, pending, interrupts, running, events,
                       fate, reached, disturbed>>
    BY <1>9 DEF ServeQuery
  <2>2. d \in CallRecord /\ d.msg = c.msg /\ d.mode = c.mode /\ d.answer = "ok"
    BY <1>1, <1>2 DEF CallRecord
  <2>3. CallGoesOn
    BY <2>1, <2>2 DEF CallGoesOn, View
  <2> QED BY <1>1, <1>5, <2>1, <2>3
<1>10. ASSUME Fail(c) PROVE Goal
  <2> DEFINE d == [c EXCEPT !.answer = "failed"]
  <2>1. /\ calls' = (calls \ {c}) \cup {d} /\ DisturbWith({"failure"})
        /\ UNCHANGED <<state, rendered, refs, pending, interrupts, running, events,
                       fate, reached>>
    BY <1>10 DEF Fail, Disturb, AnswerWith
  <2>2. d \in CallRecord /\ d.msg = c.msg /\ d.mode = c.mode /\ d.answer = "failed"
    BY <1>2 DEF CallRecord
  <2>3. disturbed' \in [Disturbances -> Nat] /\ CalmBefore /\ ~Calm'
    BY <1>4, <2>1
  <2>4. CallGoesOn
    BY <2>1, <2>2, <2>3 DEF CallGoesOn, View
  <2> QED BY <1>1, <2>1, <2>3, <2>4
<1>11. Goal
  BY <1>7, <1>8, <1>9, <1>10
<1>12. reached' \in [Messages -> Nat] /\ calls' \in SUBSET CallRecord
  <2>1. PICK b \in calls, d \in CallRecord :
          /\ calls' = (calls \ {b}) \cup {d}
          /\ \/ b.msg \in Messages /\ reached' = [reached EXCEPT ![b.msg] = @ + 1]
             \/ UNCHANGED reached
    BY <1>11 DEF CallGoesOn
  <2> QED BY <1>1, <2>1
<1>13. Types'
  BY <1>11, <1>12 DEF Types
<1> QED BY <1>11, <1>13

\* A call is over: its message arrived, or has a last word, or is given back to
\* the queue (a steer the app-server refused, a queued command that failed).
CallEnds ==
  \E c \in calls :
    /\ calls' = calls \ {c}
    /\ UNCHANGED <<reached, View>>
    /\ \/ /\ c.msg \in Messages => reached[c.msg] > 0
          /\ state'.queue = state.queue /\ UNCHANGED fate
       \/ /\ c.msg \in Messages /\ state'.queue = state.queue
          /\ \E how \in {"refused", "answered"} : fate' = Over(fate, c.msg, how)
       \/ /\ c.msg \in Messages /\ c.answer # "ok"
          /\ state'.queue = Append(state.queue, c.msg)
          /\ fate' = [fate EXCEPT ![c.msg] = "queued"]
       \/ /\ c.msg \in Messages /\ c.answer = "failed"
          /\ state'.queue = <<c.msg>> \o state.queue /\ UNCHANGED fate

\* The reducer's part in the answers.
LEMMA AnswerFacts ==
  ASSUME NEW s \in Thread, NEW on \in BOOLEAN, NEW off \in BOOLEAN, NEW t \in Turns
  PROVE  /\ MarkReviewing(MarkProcessing(s, on), off) \in Thread
         /\ MarkReviewing(MarkProcessing(s, on), off).queue = s.queue
         /\ MarkReviewing(SetActiveTurnId(MarkProcessing(s, on), t), off) \in Thread
         /\ MarkReviewing(SetActiveTurnId(MarkProcessing(s, on), t), off).queue = s.queue
<1>1. MarkProcessing(s, on) \in Thread /\ MarkProcessing(s, on).queue = s.queue
  BY ReducerFacts
<1>2. /\ SetActiveTurnId(MarkProcessing(s, on), t) \in Thread
      /\ SetActiveTurnId(MarkProcessing(s, on), t).queue = s.queue
  BY <1>1, ReducerFacts
<1>3. /\ MarkReviewing(MarkProcessing(s, on), off) \in Thread
      /\ MarkReviewing(MarkProcessing(s, on), off).queue = s.queue
  BY <1>1, ReducerFacts
<1>4. /\ MarkReviewing(SetActiveTurnId(MarkProcessing(s, on), t), off) \in Thread
      /\ MarkReviewing(SetActiveTurnId(MarkProcessing(s, on), t), off).queue = s.queue
  BY <1>2, ReducerFacts
<1> QED BY <1>3, <1>4

\* A call that is prepared goes on, or is refused before it is sent.
LEMMA BeginSteps ==
  ASSUME Types, CallsKnow, MessagesAssumption, NEW c \in calls, Begin(c),
         UNCHANGED effectsDue
  PROVE  Types' /\ (CallGoesOn \/ CallEnds) /\ CalmBefore
<1>1. /\ state \in Thread /\ calls \in SUBSET CallRecord /\ fate \in [Messages -> Fates]
      /\ NoTurn \in Turns
  BY DEF Types, Turns
<1>2. c \in CallRecord /\ (c.mode # "refresh" => c.msg \in Messages)
  BY CallFacts
<1>3. c.answer = "preparing" /\ c.mode # "refresh" /\ c.msg \in Messages
  BY <1>2 DEF Begin, CallsKnow
<1>4. /\ UNCHANGED <<rendered, refs, pending, interrupts, running, events, reached,
                     disturbed, effectsDue>>
      /\ CalmBefore
  BY DEF Begin, CalmBefore, Calm
<1> DEFINE d == [c EXCEPT !.answer = "awaited"]
           Goal == /\ state' \in Thread /\ calls' \in SUBSET CallRecord
                   /\ fate' \in [Messages -> Fates]
                   /\ CallGoesOn \/ CallEnds
<1>5. ASSUME calls' = (calls \ {c}) \cup {d}, UNCHANGED fate,
             state' = CASE c.mode \in {"start", "steer"} -> MarkProcessing(state, TRUE)
                         [] c.mode = "review" ->
                              MarkReviewing(MarkProcessing(state, TRUE), TRUE)
                         [] c.mode = "command" -> state
      PROVE  Goal
  <2>1. d \in CallRecord /\ d.msg = c.msg /\ d.mode = c.mode /\ d.answer = "awaited"
    BY <1>2 DEF CallRecord
  <2>2. c.mode \in {"start", "steer"} \/ c.mode = "review" \/ c.mode = "command"
    BY <1>2, <1>3 DEF CallRecord
  <2>3. state' \in {MarkProcessing(state, TRUE), MarkReviewing(MarkProcessing(state, TRUE), TRUE), state}
    BY <1>5, <2>2
  <2>4. state' \in Thread /\ state'.queue = state.queue
    <3>1. MarkProcessing(state, TRUE) \in Thread /\ MarkProcessing(state, TRUE).queue = state.queue
      BY <1>1, ReducerFacts
    <3>2. /\ MarkReviewing(MarkProcessing(state, TRUE), TRUE) \in Thread
          /\ MarkReviewing(MarkProcessing(state, TRUE), TRUE).queue = state.queue
      BY <1>1, AnswerFacts
    <3> QED BY <1>1, <2>3, <3>1, <3>2
  <2>5. CallGoesOn
    BY <1>3, <1>4, <1>5, <2>1, <2>4 DEF CallGoesOn, View
  <2> QED BY <1>1, <1>5, <2>1, <2>4, <2>5
<1>6. ASSUME calls' = calls \ {c}, UNCHANGED state, fate' = Over(fate, c.msg, "refused")
      PROVE  Goal
  <2>1. CallEnds
    BY <1>3, <1>4, <1>6 DEF CallEnds, View
  <2>2. fate' \in [Messages -> Fates]
    BY <1>1, <1>3, <1>6, OverFacts
  <2> QED BY <1>1, <1>6, <2>1, <2>2
<1>7. Goal
  BY <1>5, <1>6 DEF Begin, AnswerWith
<1>8. Types'
  BY <1>4, <1>7 DEF Types
<1> QED BY <1>4, <1>7, <1>8

\* The answers that end a call.
LEMMA AnswerSteps ==
  ASSUME Types, CallsKnow, MessagesAssumption, NEW c \in calls,
         \/ StartAnswered(c) \/ SteerAnswered(c) \/ ReviewAnswered(c)
         \/ RefreshAnswered(c) \/ CommandAnswered(c),
         UNCHANGED effectsDue
  PROVE  Types' /\ CallEnds /\ CalmBefore
<1>1. /\ state \in Thread /\ rendered \in Thread /\ calls \in SUBSET CallRecord
      /\ fate \in [Messages -> Fates] /\ state.queue \in Seq(Messages)
      /\ NoTurn \in Turns /\ rendered.turn \in Turns /\ rendered.processing \in BOOLEAN
  BY DEF Types, Turns, Thread
<1>2. /\ c \in CallRecord /\ c.turn \in Turns
      /\ c.mode # "refresh" => c.msg \in Messages
      /\ c.mode = "refresh" => c.msg = NoMessage
      /\ c.answer \in {"preparing", "awaited", "ok", "stale", "failed"}
  BY CallFacts DEF CallRecord
<1>3. NoMessage \notin Messages
  BY DEF MessagesAssumption
<1>4. /\ UNCHANGED <<rendered, refs, pending, interrupts, running, events, reached,
                     disturbed, effectsDue>>
      /\ calls' = calls \ {c} /\ c.answer \notin {"preparing", "awaited"}
  BY DEF StartAnswered, SteerAnswered, ReviewAnswered, RefreshAnswered, CommandAnswered, Answered
<1> DEFINE Goal == state' \in Thread /\ fate' \in [Messages -> Fates] /\ CallEnds
<1>5. ASSUME c.msg \in Messages => reached[c.msg] > 0,
             state' \in Thread, state'.queue = state.queue, UNCHANGED fate
      PROVE  Goal
  BY <1>1, <1>4, <1>5 DEF CallEnds, View
<1>6. ASSUME c.msg \in Messages, state' \in Thread, state'.queue = state.queue,
             NEW how \in {"refused", "answered"}, fate' = Over(fate, c.msg, how)
      PROVE  Goal
  <2>1. fate' \in [Messages -> Fates]
    BY <1>1, <1>6, OverFacts
  <2> QED BY <1>4, <1>6, <2>1 DEF CallEnds, View
<1>7. ASSUME c.mode \in {"start", "steer", "review"}, c.answer = "ok"
      PROVE  c.msg \in Messages => reached[c.msg] > 0
  BY <1>7 DEF CallsKnow
<1>8. ASSUME StartAnswered(c) PROVE Goal
  <2>1. c.mode = "start" /\ c.msg \in Messages
    BY <1>2, <1>8 DEF StartAnswered
  <2>2. CASE c.answer = "ok"
    <3>1. state' = SetActiveTurnId(state, c.turn) /\ UNCHANGED fate
      BY <1>8, <2>2 DEF StartAnswered
    <3>2. state' \in Thread /\ state'.queue = state.queue
      BY <1>1, <1>2, <3>1, ReducerFacts
    <3> QED BY <1>5, <1>7, <2>1, <2>2, <3>1, <3>2
  <2>3. CASE c.answer # "ok"
    <3>1. state' = EndTurn(state) /\ fate' = Over(fate, c.msg, "refused")
      BY <1>8, <2>3 DEF StartAnswered
    <3>2. state' \in Thread /\ state'.queue = state.queue
      BY <1>1, <3>1, EndTurnFacts
    <3> QED BY <1>6, <2>1, <3>1, <3>2
  <2> QED BY <2>2, <2>3
<1>9. ASSUME SteerAnswered(c) PROVE Goal
  <2>1. c.mode = "steer" /\ c.msg \in Messages
    BY <1>2, <1>9 DEF SteerAnswered
  <2>2. CASE c.answer = "ok"
    <3>1. state' = SetActiveTurnId(state, c.turn) /\ UNCHANGED fate
      BY <1>9, <2>2 DEF SteerAnswered
    <3>2. state' \in Thread /\ state'.queue = state.queue
      BY <1>1, <1>2, <3>1, ReducerFacts
    <3> QED BY <1>5, <1>7, <2>1, <2>2, <3>1, <3>2
  <2>3. CASE c.answer # "ok"
    <3> DEFINE kept == [state EXCEPT !.queue = Append(@, c.msg)]
    <3>1. c.answer = "stale" \/ c.answer = "failed"
      BY <1>2, <1>4, <2>3
    <3>2. /\ state' = EndTurn(kept) \/ state' = kept
          /\ fate' = [fate EXCEPT ![c.msg] = "queued"]
      BY <1>9, <2>3, <3>1 DEF SteerAnswered
    <3>3. kept \in Thread /\ kept.queue = Append(state.queue, c.msg)
      <4>1. Append(state.queue, c.msg) \in Seq(Messages)
        BY <1>1, <2>1
      <4> QED BY <1>1, <4>1 DEF Thread
    <3>4. state' \in Thread /\ state'.queue = Append(state.queue, c.msg)
      <4>1. EndTurn(kept) \in Thread /\ EndTurn(kept).queue = kept.queue
        BY <3>3, EndTurnFacts
      <4> QED BY <3>2, <3>3, <4>1
    <3>5. fate' \in [Messages -> Fates]
      BY <1>1, <3>2 DEF Fates
    <3> QED BY <1>4, <2>1, <2>3, <3>2, <3>4, <3>5 DEF CallEnds, View
  <2> QED BY <2>2, <2>3
<1>10. ASSUME ReviewAnswered(c) PROVE Goal
  <2>1. c.mode = "review" /\ c.msg \in Messages
    BY <1>2, <1>10 DEF ReviewAnswered
  <2>2. CASE c.answer = "ok"
    <3>1. UNCHANGED <<state, fate>>
      BY <1>10, <2>2 DEF ReviewAnswered
    <3> QED BY <1>1, <1>5, <1>7, <2>1, <2>2, <3>1
  <2>3. CASE c.answer # "ok"
    <3>1. /\ \/ state' = MarkReviewing(EndTurn(state), FALSE)
             \/ state' = MarkReviewing(MarkProcessing(state, FALSE), FALSE)
          /\ fate' = Over(fate, c.msg, "refused")
      BY <1>10, <2>3 DEF ReviewAnswered
    <3>2. /\ MarkReviewing(MarkProcessing(state, FALSE), FALSE) \in Thread
          /\ MarkReviewing(MarkProcessing(state, FALSE), FALSE).queue = state.queue
      BY <1>1, AnswerFacts
    <3>3. state' \in Thread /\ state'.queue = state.queue
      BY <1>1, <3>1, <3>2, EndTurnFacts
    <3> QED BY <1>6, <2>1, <3>1, <3>3
  <2> QED BY <2>2, <2>3
<1>11. ASSUME RefreshAnswered(c) PROVE Goal
  <2>1. c.msg \notin Messages /\ UNCHANGED fate
    BY <1>2, <1>3, <1>11 DEF RefreshAnswered
  <2>2. CASE c.answer = "ok"
    <3>1. PICK unsure \in BOOLEAN :
            LET keep == rendered.processing /\ c.turn = NoTurn /\ unsure
                turn == IF keep THEN rendered.turn ELSE c.turn
            IN  state' = MarkReviewing(
                           SetActiveTurnId(
                             MarkProcessing(state, keep \/ turn # NoTurn), turn),
                           c.turn \in Reviews)
      BY <1>11, <2>2 DEF RefreshAnswered
    <3> DEFINE keep == rendered.processing /\ c.turn = NoTurn /\ unsure
               turn == IF keep THEN rendered.turn ELSE c.turn
               on == keep \/ turn # NoTurn
               off == c.turn \in Reviews
    <3>2. on \in BOOLEAN /\ off \in BOOLEAN /\ turn \in Turns
      BY <1>1, <1>2
    <3>3. state' = MarkReviewing(SetActiveTurnId(MarkProcessing(state, on), turn), off)
      BY <3>1
    <3> HIDE DEF on, off, turn
    <3>4. state' \in Thread /\ state'.queue = state.queue
      <4>1. ASSUME NEW p \in BOOLEAN, NEW r \in BOOLEAN, NEW t \in Turns
            PROVE  /\ MarkReviewing(SetActiveTurnId(MarkProcessing(state, p), t), r) \in Thread
                   /\ MarkReviewing(SetActiveTurnId(MarkProcessing(state, p), t), r).queue
                        = state.queue
        BY <1>1, AnswerFacts
      <4> QED BY <3>2, <3>3, <4>1, Zenon
    <3> QED BY <1>5, <2>1, <3>4
  <2>3. CASE c.answer # "ok"
    <3>1. UNCHANGED state
      BY <1>11, <2>3 DEF RefreshAnswered
    <3> QED BY <1>1, <1>5, <2>1, <3>1
  <2> QED BY <2>2, <2>3
<1>12. ASSUME CommandAnswered(c) PROVE Goal
  <2>1. c.mode = "command" /\ c.msg \in Messages
    BY <1>2, <1>12 DEF CommandAnswered
  <2>2. CASE c.answer = "failed" /\ c.queued
    <3>1. /\ state' = [state EXCEPT !.queue = <<c.msg>> \o @, !.inFlight = NoMessage,
                                    !.hasStarted = FALSE]
          /\ UNCHANGED fate
      BY <1>12, <2>2 DEF CommandAnswered
    <3>2. <<c.msg>> \o state.queue \in Seq(Messages)
      BY <1>1, <2>1
    <3>3. state' \in Thread /\ state'.queue = <<c.msg>> \o state.queue
      BY <1>1, <3>1, <3>2 DEF Thread
    <3> QED BY <1>1, <1>4, <2>1, <2>2, <3>1, <3>3 DEF CallEnds, View
  <2>3. CASE ~(c.answer = "failed" /\ c.queued)
    <3>1. fate' = Over(fate, c.msg, "answered") /\ UNCHANGED state
      BY <1>12, <2>3 DEF CommandAnswered
    <3> QED BY <1>1, <1>6, <2>1, <3>1
  <2> QED BY <2>2, <2>3
<1>13. Goal
  BY <1>8, <1>9, <1>10, <1>11, <1>12
<1>14. Types' /\ CalmBefore
  BY <1>1, <1>4, <1>13 DEF Types, Calm, CalmBefore
<1> QED BY <1>13, <1>14

\* A new call: for a message the user sends, or a refresh.
CallBegins ==
  \E c \in CallRecord :
    /\ calls' = calls \cup {c}
    /\ c.answer \in {"preparing", "awaited"}
    /\ c.mode = "refresh" <=> c.msg = NoMessage
    /\ c.mode = "refresh" => c.answer = "awaited"
    /\ state'.queue = state.queue /\ UNCHANGED <<reached, View>>
    /\ \/ c.msg \notin Messages /\ UNCHANGED fate
       \/ /\ c.msg \in Messages /\ fate[c.msg] = "unsent"
          /\ fate' = [fate EXCEPT ![c.msg] = "sent"]

\* A new message for the queue.
MessageQueued ==
  \E m \in Messages :
    /\ fate[m] = "unsent" /\ fate' = [fate EXCEPT ![m] = "queued"]
    /\ state'.queue = Append(state.queue, m)
    /\ UNCHANGED <<calls, reached, View>>

\* The user removes a message.
MessageRemoved ==
  \E m \in Messages :
    /\ fate' = Over(fate, m, "removed")
    /\ \A k : Listed(state'.queue, k) <=> Listed(state.queue, k) /\ k # m
    /\ Distinct(state.queue) => Distinct(state'.queue)
    /\ \A k : Listed(state'.queue, k) /\ Head(state.queue) = k => Head(state'.queue) = k
    /\ UNCHANGED <<calls, reached, View>>

\* The head of the rendered queue is sent, the head of the queue dropped.
MessageFlushed ==
  \E c \in CallRecord :
    /\ effectsDue /\ ~effectsDue' /\ rendered.queue # <<>>
    /\ calls' = calls \cup {c}
    /\ c.msg = Head(rendered.queue) /\ c.msg \in Messages
    /\ c.answer = "preparing" /\ c.mode # "refresh"
    /\ UNCHANGED <<reached, rendered>>
    /\ \/ state.queue = <<>> /\ state'.queue = <<>> /\ UNCHANGED fate
       \/ /\ state.queue # <<>> /\ state'.queue = Tail(state.queue)
          /\ IF Head(state.queue) = c.msg
             THEN UNCHANGED fate
             ELSE fate' = Over(fate, Head(state.queue), "dropped")

\* A message that is sent is in a new call, which prepares.
LEMMA SendFacts ==
  ASSUME Types, MessagesAssumption, NEW m \in Messages, NEW steer, NEW queued \in BOOLEAN,
         Send(m, steer, queued)
  PROVE  \E c \in CallRecord :
           /\ calls' = calls \cup {c}
           /\ c.msg = m /\ c.answer = "preparing" /\ c.mode # "refresh"
<1>1. NoTurn \in Turns /\ m \in Turns /\ rendered.turn \in Turns
  BY DEF Types, Thread, Turns
<1>2. ASSUME NEW mode \in {"start", "steer", "review", "command"}, NEW t \in Turns
      PROVE  /\ Call(m, mode, t, queued) \in CallRecord
             /\ Call(m, mode, t, queued).msg = m
             /\ Call(m, mode, t, queued).answer = "preparing"
             /\ Call(m, mode, t, queued).mode # "refresh"
  BY <1>2 DEF Call, CallRecord
<1>3. \/ calls' = calls \cup {Call(m, "review", m, queued)}
      \/ calls' = calls \cup {Call(m, "command", NoTurn, queued)}
      \/ calls' = calls \cup {Call(m, "steer", rendered.turn, queued)}
      \/ calls' = calls \cup {Call(m, "start", m, queued)}
  BY DEF Send
<1>4. PICK mode \in {"start", "steer", "review", "command"}, t \in Turns :
        calls' = calls \cup {Call(m, mode, t, queued)}
  BY <1>1, <1>3
<1> QED BY <1>2, <1>4

\* The composer.
LEMMA ComposerSteps ==
  ASSUME Types, MessagesAssumption, NEW m \in Messages, HandleSend(m) \/ QueueMessage(m)
  PROVE  Types' /\ (CallBegins \/ MessageQueued) /\ CalmBefore
<1>1. /\ state \in Thread /\ calls \in SUBSET CallRecord /\ state.queue \in Seq(Messages)
      /\ fate \in [Messages -> Fates] /\ disturbed \in [Disturbances -> Nat]
      /\ "failure" \in Disturbances
  BY DEF Types, Thread, Disturbances
<1>2. UNCHANGED <<rendered, refs, pending, interrupts, running, events, reached, effectsDue>>
  BY DEF HandleSend, QueueMessage
<1>3. ASSUME NEW kinds, DisturbWith(kinds)
      PROVE  disturbed' \in [Disturbances -> Nat] /\ CalmBefore
  BY <1>1, <1>3, DisturbFacts DEF Calm, CalmBefore
<1>4. CalmBefore \/ disturbed' # disturbed
  BY DEF Calm, CalmBefore
<1> DEFINE Goal == /\ state' \in Thread /\ calls' \in SUBSET CallRecord
                   /\ fate' \in [Messages -> Fates]
                   /\ disturbed' \in [Disturbances -> Nat] /\ CalmBefore
                   /\ CallBegins \/ MessageQueued
<1>5. ASSUME Submit(m, "queued"), state' = [state EXCEPT !.queue = Append(@, m)],
             UNCHANGED calls, disturbed' \in [Disturbances -> Nat], CalmBefore
      PROVE  Goal
  <2>1. fate[m] = "unsent" /\ fate' = [fate EXCEPT ![m] = "queued"]
    BY <1>5 DEF Submit
  <2>2. fate' \in [Messages -> Fates]
    BY <1>1, <2>1 DEF Fates
  <2>3. Append(state.queue, m) \in Seq(Messages)
    BY <1>1
  <2>4. state' \in Thread /\ state'.queue = Append(state.queue, m)
    BY <1>1, <1>5, <2>3 DEF Thread
  <2>5. MessageQueued
    BY <1>2, <1>5, <2>1, <2>4 DEF MessageQueued, View
  <2> QED BY <1>1, <1>5, <2>2, <2>4, <2>5
<1>6. ASSUME HandleSend(m) PROVE Goal
  <2>1. CASE Submit(m, "queued") /\ state' = [state EXCEPT !.queue = Append(@, m)]
             /\ UNCHANGED <<calls, disturbed>>
    BY <1>1, <1>4, <1>5, <2>1
  <2>2. ASSUME Submit(m, "sent"), Send(m, rendered.processing, FALSE),
               DisturbWith(Crossing), UNCHANGED state
        PROVE  Goal
    <3>1. fate[m] = "unsent" /\ fate' = [fate EXCEPT ![m] = "sent"]
      BY <2>2 DEF Submit
    <3>2. fate' \in [Messages -> Fates]
      BY <1>1, <3>1 DEF Fates
    <3>3. PICK c \in CallRecord :
            /\ calls' = calls \cup {c}
            /\ c.msg = m /\ c.answer = "preparing" /\ c.mode # "refresh"
      BY <2>2, SendFacts
    <3>4. c.msg # NoMessage
      BY <3>3 DEF MessagesAssumption
    <3>5. CallBegins
      BY <1>2, <2>2, <3>1, <3>3, <3>4 DEF CallBegins, View
    <3>6. disturbed' \in [Disturbances -> Nat] /\ CalmBefore
      BY <1>3, <2>2
    <3> QED BY <1>1, <2>2, <3>2, <3>3, <3>5, <3>6
  <2> QED BY <1>6, <2>1, <2>2 DEF HandleSend
<1>7. ASSUME QueueMessage(m) PROVE Goal
  <2>1. disturbed' \in [Disturbances -> Nat] /\ CalmBefore
    BY <1>1, <1>3, <1>4, <1>7 DEF QueueMessage
  <2> QED BY <1>5, <1>7, <2>1 DEF QueueMessage
<1>8. Goal
  BY <1>6, <1>7
<1> QED BY <1>2, <1>8 DEF Types

\* A refresh is a call without a message.
LEMMA RefreshStep ==
  ASSUME Types, MessagesAssumption, RefreshThread, UNCHANGED effectsDue
  PROVE  Types' /\ CallBegins /\ CalmBefore
<1> DEFINE c == [Call(NoMessage, "refresh", NoTurn, FALSE) EXCEPT !.answer = "awaited"]
<1>1. /\ disturbed \in [Disturbances -> Nat] /\ "failure" \in Disturbances
      /\ calls \in SUBSET CallRecord /\ NoMessage \notin Messages
  BY DEF Types, Disturbances, MessagesAssumption
<1>2. /\ calls' = calls \cup {c} /\ DisturbWith({"refresh"})
      /\ UNCHANGED <<state, rendered, refs, pending, interrupts, running, events,
                     fate, reached, effectsDue>>
  BY DEF RefreshThread, Disturb
<1>3. c \in CallRecord /\ c.msg = NoMessage /\ c.mode = "refresh" /\ c.answer = "awaited"
  BY DEF Call, CallRecord, Turns
<1>4. disturbed' \in [Disturbances -> Nat] /\ CalmBefore
  BY <1>1, <1>2, DisturbFacts DEF Calm, CalmBefore
<1>5. CallBegins
  BY <1>1, <1>2, <1>3 DEF CallBegins, View
<1> QED BY <1>1, <1>2, <1>3, <1>4, <1>5 DEF Types

\* The removal filters the queue.
LEMMA RemoveStep ==
  ASSUME Types, NEW m \in Messages, RemoveQueuedMessage(m)
  PROVE  Types' /\ MessageRemoved /\ CalmBefore
<1>1. /\ state \in Thread /\ state.queue \in Seq(Messages)
      /\ fate \in [Messages -> Fates] /\ disturbed \in [Disturbances -> Nat]
      /\ "failure" \in Disturbances
  BY DEF Types, Thread, Disturbances
<1> DEFINE q == state.queue
           kept == {i \in DOMAIN q : q[i] # m}
           n == Cardinality(kept)
<1>2. n \in Nat
  <2>1. IsFiniteSet(DOMAIN q)
    BY <1>1, FS_Interval
  <2>2. IsFiniteSet(kept)
    BY <2>1, FS_Subset
  <2> QED BY <2>2, FS_CardinalityType
<1>3. PICK place \in Bijection(1..n, kept) :
        /\ \A i, j \in DOMAIN place : i < j => place[i] < place[j]
        /\ state' = [state EXCEPT !.queue = [i \in DOMAIN place |-> q[place[i]]]]
  BY DEF RemoveQueuedMessage
<1> DEFINE r == [i \in DOMAIN place |-> q[place[i]]]
<1>4. /\ r \in Seq(Messages)
      /\ \A k : Listed(r, k) <=> Listed(q, k) /\ k # m
      /\ Distinct(q) => Distinct(r)
      /\ \A k : Listed(r, k) /\ Head(q) = k => Head(r) = k
  <2>1. q \in Seq(Messages) /\ DOMAIN q = 1..Len(q) /\ DOMAIN place = 1..n
    BY <1>1 DEF Bijection, Injection
  <2>2. kept \subseteq 1..Len(q) /\ \A k \in 1..Len(q) : k \in kept <=> q[k] # m
    BY <2>1
  <2>3. DOMAIN r = 1..n /\ r = [i \in 1..n |-> r[i]] /\ \A i \in 1..n : r[i] = q[place[i]]
    BY <2>1
  <2>4. \A i, j \in DOMAIN place : i < j => place[i] < place[j]
    BY <1>3
  <2>5. place \in Bijection(1..n, kept) /\ n \in Nat
    BY <1>2
  <2> HIDE DEF n, kept, q, r
  <2>6. IsFilter(r, q, m, n, kept, place)
    BY <2>2, <2>3, <2>4, <2>5 DEF IsFilter
  <2>7. q \in Seq(Messages)
    BY <2>1
  <2> QED BY <2>6, <2>7, FilterFacts
<1>5. state' \in Thread /\ state'.queue = r
  <2> HIDE DEF r
  <2>1. state' = [state EXCEPT !.queue = r]
    BY <1>3 DEF r
  <2> QED BY <1>1, <1>4, <2>1 DEF Thread
<1>6. /\ DisturbWith({"removal"}) /\ fate' = Over(fate, m, "removed")
      /\ UNCHANGED <<rendered, refs, pending, calls, interrupts, running, events,
                     reached, effectsDue>>
  BY DEF RemoveQueuedMessage, Disturb
<1>7. disturbed' \in [Disturbances -> Nat] /\ CalmBefore
  BY <1>1, <1>6, DisturbFacts DEF Calm, CalmBefore
<1>8. fate' \in [Messages -> Fates]
  BY <1>1, <1>6, OverFacts
<1>9. MessageRemoved
  <2> HIDE DEF r
  <2> QED BY <1>4, <1>5, <1>6 DEF MessageRemoved, View
<1> QED BY <1>5, <1>6, <1>7, <1>8, <1>9 DEF Types

\* The flush: one call more, one message of the queue less.
LEMMA FlushStep ==
  ASSUME Types, MessagesAssumption, RunEffects, CanFlush
  PROVE  Types' /\ MessageFlushed /\ CalmBefore
<1> DEFINE m == Head(rendered.queue)
           dropped == IF state.queue = <<>> THEN m ELSE Head(state.queue)
           rest == IF state.queue = <<>> THEN state.queue ELSE Tail(state.queue)
<1>1. /\ state \in Thread /\ state.queue \in Seq(Messages) /\ rendered.queue \in Seq(Messages)
      /\ fate \in [Messages -> Fates] /\ calls \in SUBSET CallRecord
  BY DEF Types, Thread
<1>2. /\ effectsDue /\ ~effectsDue' /\ effectsDue' = FALSE /\ rendered.queue # <<>>
      /\ state' = [state EXCEPT !.inFlight = m, !.hasStarted = FALSE,
                                !.queue = IF @ = <<>> THEN @ ELSE Tail(@)]
      /\ Send(m, FALSE, TRUE)
      /\ fate' = IF dropped = m THEN fate ELSE Over(fate, dropped, "dropped")
      /\ UNCHANGED <<rendered, refs, pending, interrupts, running, events,
                     reached, disturbed>>
  BY DEF RunEffects, CanFlush, Flush
<1>3. m \in Messages /\ dropped \in Messages /\ rest \in Seq(Messages)
  <2>1. m \in Messages
    BY <1>1, <1>2, TailFacts
  <2>2. state.queue # <<>> => Head(state.queue) \in Messages /\ Tail(state.queue) \in Seq(Messages)
    BY <1>1, TailFacts
  <2> QED BY <1>1, <2>1, <2>2
<1> HIDE DEF m
<1>4. PICK c \in CallRecord :
        /\ calls' = calls \cup {c}
        /\ c.msg = m /\ c.answer = "preparing" /\ c.mode # "refresh"
  BY <1>2, <1>3, SendFacts
<1>5. state' \in Thread /\ state'.queue = rest
  <2>1. state' = [state EXCEPT !.inFlight = m, !.hasStarted = FALSE, !.queue = rest]
    BY <1>2
  <2> HIDE DEF rest
  <2> QED BY <1>1, <1>3, <2>1 DEF Thread
<1>6. fate' \in [Messages -> Fates]
  BY <1>1, <1>2, <1>3, OverFacts
<1>7. MessageFlushed
  <2>1. \/ state.queue = <<>> /\ state'.queue = <<>> /\ UNCHANGED fate
        \/ /\ state.queue # <<>> /\ state'.queue = Tail(state.queue)
           /\ IF Head(state.queue) = c.msg
              THEN UNCHANGED fate
              ELSE fate' = Over(fate, Head(state.queue), "dropped")
    BY <1>2, <1>4, <1>5
  <2>2. c.msg = Head(rendered.queue) /\ c.msg \in Messages
    BY <1>3, <1>4 DEF m
  <2> QED BY <1>2, <1>4, <2>1, <2>2 DEF MessageFlushed
<1> QED BY <1>1, <1>2, <1>4, <1>5, <1>6, <1>7 DEF Types, Calm, CalmBefore

---------------------------------------------------------------------------
\* Every step is one of these.
LEMMA StepFacts ==
  ASSUME Types, CallsKnow, MessagesAssumption, Next
  PROVE  /\ Types' /\ CalmBefore
         /\ \/ Quiet \/ CallGoesOn \/ CallEnds \/ CallBegins
            \/ MessageQueued \/ MessageRemoved \/ MessageFlushed
<1>1. ASSUME User PROVE Types' /\ CalmBefore /\ (Quiet \/ CallBegins \/ MessageQueued \/ MessageRemoved)
  <2>1. ASSUME NEW m \in Messages, HandleSend(m) \/ QueueMessage(m) \/ RemoveQueuedMessage(m)
        PROVE  Types' /\ CalmBefore /\ (CallBegins \/ MessageQueued \/ MessageRemoved)
    BY <2>1, ComposerSteps, RemoveStep
  <2>2. ASSUME SelectThread PROVE Types' /\ CalmBefore /\ Quiet
    BY <2>2, ViewSteps
  <2>3. ASSUME InterruptTurn, UNCHANGED effectsDue PROVE Types' /\ CalmBefore /\ Quiet
    BY <2>3, TurnSteps
  <2>4. ASSUME RefreshThread, UNCHANGED effectsDue PROVE Types' /\ CalmBefore /\ CallBegins
    BY <2>4, RefreshStep
  <2> QED BY <1>1, <2>1, <2>2, <2>3, <2>4 DEF User
<1>2. ASSUME Answers PROVE Types' /\ CalmBefore /\ (CallGoesOn \/ CallEnds)
  <2>1. PICK c \in calls : \/ CommandAnswered(c)
                           \/ /\ Begin(c) \/ StartAnswered(c) \/ SteerAnswered(c)
                                 \/ ReviewAnswered(c) \/ RefreshAnswered(c)
                              /\ UNCHANGED effectsDue
    BY <1>2 DEF Answers
  <2>2. UNCHANGED effectsDue
    BY <2>1 DEF CommandAnswered
  <2> QED BY <2>1, <2>2, BeginSteps, AnswerSteps
<1>3. ASSUME OnEvent PROVE Types' /\ CalmBefore /\ Quiet
  BY <1>3, EventSteps
<1>4. ASSUME Server PROVE Types' /\ CalmBefore /\ (Quiet \/ CallGoesOn)
  <2>1. UNCHANGED effectsDue
    BY <1>4 DEF Server
  <2>2. ASSUME NEW c \in calls, ServeStart(c) \/ ServeSteer(c) \/ ServeQuery(c) \/ Fail(c)
        PROVE  Types' /\ CalmBefore /\ CallGoesOn
    BY <2>1, <2>2, ServeSteps
  <2>3. ASSUME (\E turn \in interrupts : ServeInterrupt(turn)) \/ Finish \/ Work
        PROVE  Types' /\ CalmBefore /\ Quiet
    BY <2>1, <2>3, TurnSteps
  <2> QED BY <1>4, <2>2, <2>3 DEF Server, Serve
<1>5. ASSUME Render PROVE Types' /\ CalmBefore /\ Quiet
  BY <1>5, ViewSteps
<1>6. ASSUME RunEffects PROVE Types' /\ CalmBefore /\ (Quiet \/ MessageFlushed)
  BY <1>6, ViewSteps, FlushStep
<1> QED BY <1>1, <1>2, <1>3, <1>4, <1>5, <1>6 DEF Next

---------------------------------------------------------------------------
(* The inductive invariant *)

\* A message the user sent is listed, in a call, or arrived.
Held(m) ==
  \/ Listed(state.queue, m)
  \/ \E c \in calls : c.msg = m
  \/ reached[m] > 0

Kept == \A m \in Messages : fate[m] \in {"sent", "queued"} => Held(m)

\* The invariant says it with Listed, which the provers know better than ToSet.
LEMMA KeptIsNothingLost ==
  ASSUME Types
  PROVE  NothingLost <=> Kept
<1>1. \A m : m \in ToSet(state.queue) <=> Listed(state.queue, m)
  BY ListedIsInSet DEF Types, Thread
<1> QED BY <1>1 DEF NothingLost, Kept, Held

\* What is known of the calls stays so.
LEMMA CallsKnowKept ==
  ASSUME Types, CallsKnow, MessagesAssumption,
         \/ Quiet \/ CallGoesOn \/ CallEnds \/ CallBegins
         \/ MessageQueued \/ MessageRemoved \/ MessageFlushed
  PROVE  CallsKnow'
<1>1. reached \in [Messages -> Nat] /\ NoMessage \notin Messages /\ calls \in SUBSET CallRecord
  BY DEF Types, MessagesAssumption
<1>2. ASSUME UNCHANGED reached, calls' \subseteq calls PROVE CallsKnow'
  BY <1>2 DEF CallsKnow
<1>3. ASSUME UNCHANGED reached, NEW d, calls' = calls \cup {d}, d.answer # "ok", d.answer # "stale",
             d.mode = "refresh" <=> d.msg = NoMessage, d.mode = "refresh" => d.answer # "preparing"
      PROVE  CallsKnow'
  BY <1>3 DEF CallsKnow
<1>4. ASSUME CallGoesOn PROVE CallsKnow'
  <2>1. PICK c \in calls, d \in CallRecord :
          /\ calls' = (calls \ {c}) \cup {d}
          /\ d.msg = c.msg /\ d.mode = c.mode
          /\ d.answer # "preparing"
          /\ d.answer = "stale" => d.mode = "steer"
          /\ \/ /\ c.msg \in Messages /\ c.answer = "awaited" /\ d.answer = "ok"
                /\ reached' = [reached EXCEPT ![c.msg] = @ + 1]
             \/ /\ d.answer = "ok" => d.mode \in {"command", "refresh"}
                /\ UNCHANGED reached
    BY <1>4 DEF CallGoesOn
  <2>2. \A m \in Messages : reached[m] > 0 => reached'[m] > 0
    BY <1>1, <2>1
  <2>3. d.mode \in {"start", "steer", "review"} /\ d.answer = "ok" => reached'[d.msg] > 0
    BY <1>1, <2>1
  <2>4. \A e \in calls : e.msg \in Messages \cup {NoMessage}
    BY <1>1 DEF CallRecord
  <2>5. ASSUME NEW e \in calls'
        PROVE  /\ e.mode = "refresh" <=> e.msg = NoMessage
               /\ e.mode = "refresh" => e.answer # "preparing"
               /\ e.answer = "stale" => e.mode = "steer"
               /\ e.mode \in {"start", "steer", "review"} /\ e.answer = "ok" => reached'[e.msg] > 0
    <3>1. CASE e \in calls
      BY <2>2, <2>4, <3>1 DEF CallsKnow
    <3>2. CASE e = d
      BY <2>1, <2>3, <3>2 DEF CallsKnow
    <3> QED BY <2>1, <3>1, <3>2
  <2> QED BY <2>5 DEF CallsKnow
<1>5. ASSUME CallBegins PROVE CallsKnow'
  BY <1>3, <1>5 DEF CallBegins
<1>6. ASSUME MessageFlushed PROVE CallsKnow'
  BY <1>1, <1>3, <1>6 DEF MessageFlushed
<1> QED BY <1>2, <1>4, <1>5, <1>6 DEF Quiet, Known, CallEnds, MessageQueued, MessageRemoved

\* A message is in the queue, in a call, or arrived after every step that
\* leaves it without a last word.
LEMMA KeptKept ==
  ASSUME Types, Types', Kept, MessagesAssumption,
         \/ Quiet \/ CallGoesOn \/ CallEnds \/ CallBegins
         \/ MessageQueued \/ MessageRemoved \/ MessageFlushed
  PROVE  Kept'
<1>1. /\ reached \in [Messages -> Nat] /\ fate \in [Messages -> Fates]
      /\ state.queue \in Seq(Messages)
  BY DEF Types, Thread
<1>2. ASSUME Quiet PROVE Kept'
  BY <1>2 DEF Quiet, Known, Kept, Held
<1>3. ASSUME CallGoesOn PROVE Kept'
  <2>1. PICK c \in calls, d \in CallRecord :
          /\ calls' = (calls \ {c}) \cup {d} /\ d.msg = c.msg
          /\ state'.queue = state.queue /\ UNCHANGED fate
          /\ \/ c.msg \in Messages /\ reached' = [reached EXCEPT ![c.msg] = @ + 1]
             \/ UNCHANGED reached
    BY <1>3 DEF CallGoesOn
  <2>2. \A m \in Messages : reached[m] > 0 => reached'[m] > 0
    BY <1>1, <2>1
  <2>3. \A m : (\E e \in calls : e.msg = m) => \E e \in calls' : e.msg = m
    BY <2>1
  <2> QED BY <2>1, <2>2, <2>3 DEF Kept, Held
<1>4. ASSUME CallEnds PROVE Kept'
  <2>1. PICK c \in calls :
          /\ calls' = calls \ {c} /\ UNCHANGED reached
          /\ \/ /\ c.msg \in Messages => reached[c.msg] > 0
                /\ state'.queue = state.queue /\ UNCHANGED fate
             \/ /\ c.msg \in Messages /\ state'.queue = state.queue
                /\ \E how \in {"refused", "answered"} : fate' = Over(fate, c.msg, how)
             \/ /\ c.msg \in Messages
                /\ state'.queue = Append(state.queue, c.msg)
                /\ fate' = [fate EXCEPT ![c.msg] = "queued"]
             \/ /\ c.msg \in Messages
                /\ state'.queue = <<c.msg>> \o state.queue /\ UNCHANGED fate
    BY <1>4 DEF CallEnds
  <2>2. \A m : (\E e \in calls : e.msg = m) => m = c.msg \/ \E e \in calls' : e.msg = m
    BY <2>1
  <2> DEFINE q == state.queue
  <2>3. ASSUME c.msg \in Messages
        PROVE  /\ \A k : Listed(q, k) \/ k = c.msg => Listed(Append(q, c.msg), k)
               /\ \A k : Listed(q, k) \/ k = c.msg => Listed(<<c.msg>> \o q, k)
    <3>1. \A k : Listed(q, k) \/ k = c.msg => Listed(Append(q, c.msg), k)
      BY <1>1, <2>3, AppendFacts
    <3>2. \A k : Listed(q, k) \/ k = c.msg => Listed(<<c.msg>> \o q, k)
      BY <1>1, <2>3, PrependFacts
    <3> QED BY <3>1, <3>2
  <2>4. ASSUME NEW m \in Messages, fate'[m] \in {"sent", "queued"}, m # c.msg PROVE Held(m)'
    <3>1. fate[m] = fate'[m]
      BY <1>1, <2>1, <2>4, OverFacts
    <3>2. Listed(state.queue, m) => Listed(state'.queue, m)
      BY <2>1, <2>3
    <3> QED BY <2>1, <2>2, <2>4, <3>1, <3>2 DEF Kept, Held
  <2>5. ASSUME c.msg \in Messages, fate'[c.msg] \in {"sent", "queued"} PROVE Held(c.msg)'
    <3>1. CASE reached[c.msg] > 0
      BY <2>1, <3>1 DEF Held
    <3>2. CASE Listed(state'.queue, c.msg)
      BY <3>2 DEF Held
    <3>3. ASSUME NEW how \in {"refused", "answered"}, fate' = Over(fate, c.msg, how) PROVE FALSE
      BY <1>1, <2>5, <3>3, OverFacts
    <3> QED BY <2>1, <2>5, <2>3, <3>1, <3>2, <3>3
  <2> QED BY <2>4, <2>5 DEF Kept
<1>5. ASSUME CallBegins PROVE Kept'
  BY <1>1, <1>5 DEF CallBegins, Kept, Held
<1>6. ASSUME MessageQueued PROVE Kept'
  <2>1. PICK m \in Messages :
          /\ fate' = [fate EXCEPT ![m] = "queued"]
          /\ state'.queue = Append(state.queue, m) /\ UNCHANGED <<calls, reached>>
    BY <1>6 DEF MessageQueued
  <2>2. \A k : Listed(state'.queue, k) <=> Listed(state.queue, k) \/ k = m
    BY <1>1, <2>1, AppendFacts
  <2> QED BY <1>1, <2>1, <2>2 DEF Kept, Held
<1>7. ASSUME MessageRemoved PROVE Kept'
  <2>1. PICK m \in Messages :
          /\ fate' = Over(fate, m, "removed")
          /\ \A k : Listed(state'.queue, k) <=> Listed(state.queue, k) /\ k # m
          /\ UNCHANGED <<calls, reached>>
    BY <1>7 DEF MessageRemoved
  <2>2. /\ fate'[m] \notin {"sent", "queued"}
        /\ \A k \in Messages : k # m => fate'[k] = fate[k]
    BY <1>1, <2>1, OverFacts
  <2> QED BY <2>1, <2>2 DEF Kept, Held
<1>8. ASSUME MessageFlushed PROVE Kept'
  <2>1. PICK c \in CallRecord :
          /\ calls' = calls \cup {c} /\ UNCHANGED reached
          /\ \/ state.queue = <<>> /\ state'.queue = <<>> /\ UNCHANGED fate
             \/ /\ state.queue # <<>> /\ state'.queue = Tail(state.queue)
                /\ IF Head(state.queue) = c.msg
                   THEN UNCHANGED fate
                   ELSE fate' = Over(fate, Head(state.queue), "dropped")
    BY <1>8 DEF MessageFlushed
  <2>2. CASE state.queue = <<>>
    BY <2>1, <2>2 DEF Kept, Held
  <2>3. CASE state.queue # <<>>
    <3>1. /\ Head(state.queue) \in Messages
          /\ \A k : Listed(state.queue, k) => k = Head(state.queue) \/ Listed(state'.queue, k)
      BY <1>1, <2>1, <2>3, TailFacts
    <3>2. ASSUME NEW m \in Messages, fate'[m] \in {"sent", "queued"} PROVE Held(m)'
      <4>1. fate[m] = fate'[m] /\ (m = Head(state.queue) => m = c.msg)
        BY <1>1, <2>1, <2>3, <3>1, <3>2, OverFacts
      <4> QED BY <2>1, <3>1, <3>2, <4>1 DEF Kept, Held
    <3> QED BY <3>2 DEF Kept
  <2> QED BY <2>2, <2>3
<1> QED BY <1>2, <1>3, <1>4, <1>5, <1>6, <1>7, <1>8

\* What holds as long as no request failed.
NoneFailed == \A c \in calls : c.answer # "failed"
OneCallEach == \A c, d \in calls : c.msg = d.msg /\ c.msg \in Messages => c = d
\* A message in a call is not in the queue, and has not arrived before "ok".
CallsDeliver ==
  \A c \in calls : c.msg \in Messages =>
    /\ ~Listed(state.queue, c.msg) /\ fate[c.msg] # "unsent"
    /\ c.answer # "ok" => reached[c.msg] = 0
\* A message in the queue has not arrived.
QueueWaits ==
  \A m \in Messages :
    /\ reached[m] <= 1
    /\ Listed(state.queue, m) => reached[m] = 0
    /\ Listed(state.queue, m) \/ reached[m] > 0 => fate[m] # "unsent"
\* What the flush is about to send waits, or was taken from the queue.
HeadIsFresh ==
  effectsDue /\ rendered.queue # <<>> =>
    LET h == Head(rendered.queue)
    IN  /\ fate[h] # "unsent" /\ reached[h] = 0 /\ \A c \in calls : c.msg # h
        /\ Listed(state.queue, h) => Head(state.queue) = h

Once ==
  /\ NoneFailed /\ OneCallEach /\ CallsDeliver /\ QueueWaits
  /\ Distinct(state.queue) /\ HeadIsFresh

\* A view that is brought up to date shows the queue as it is.
LEMMA OnceQuiet ==
  ASSUME Types, Once, Quiet
  PROVE  Once'
<1>1. state.queue \in Seq(Messages) /\ state'.queue = state.queue /\ UNCHANGED <<calls, fate, reached>>
  BY DEF Types, Thread, Quiet, Known
<1>2. (NoneFailed /\ OneCallEach /\ CallsDeliver /\ QueueWaits /\ Distinct(state.queue))'
  BY <1>1 DEF Once, NoneFailed, OneCallEach, CallsDeliver, QueueWaits, Distinct
<1>3. CASE UNCHANGED View
  BY <1>1, <1>2, <1>3 DEF Once, HeadIsFresh, View
<1>4. CASE effectsDue' = FALSE
  BY <1>2, <1>4 DEF Once, HeadIsFresh
<1>5. CASE rendered' = state /\ state' = state
  <2>1. ASSUME rendered'.queue # <<>>
        PROVE  LET h == Head(rendered'.queue)
               IN  /\ fate[h] # "unsent" /\ reached[h] = 0 /\ \A c \in calls : c.msg # h
                   /\ Head(state'.queue) = h
    <3> DEFINE h == Head(state.queue)
    <3>1. state.queue # <<>> /\ rendered'.queue = state.queue
      BY <1>5, <2>1
    <3>2. h \in Messages /\ Listed(state.queue, h)
      <4>1. 1 \in 1..Len(state.queue) /\ state.queue[1] = h /\ h \in Messages
        BY <1>1, <3>1
      <4> QED BY <4>1 DEF Listed
    <3>3. fate[h] # "unsent" /\ reached[h] = 0 /\ \A c \in calls : c.msg # h
      BY <3>2 DEF Once, QueueWaits, CallsDeliver
    <3> QED BY <1>1, <3>1, <3>3
  <2>2. HeadIsFresh'
    BY <1>1, <2>1 DEF HeadIsFresh
  <2> QED BY <1>2, <2>2 DEF Once
<1> QED BY <1>3, <1>4, <1>5 DEF Quiet

\* A call that goes on delivers its message at most once.
LEMMA OnceGoesOn ==
  ASSUME Types, Once, CallGoesOn, Calm'
  PROVE  Once'
<1>1. PICK c \in calls, d \in CallRecord :
        /\ calls' = (calls \ {c}) \cup {d}
        /\ d.msg = c.msg /\ d.mode = c.mode
        /\ c.answer = "ok" => d.answer = "failed"
        /\ d.answer = "failed" => ~Calm'
        /\ state'.queue = state.queue /\ UNCHANGED <<fate, View>>
        /\ \/ /\ c.msg \in Messages /\ c.answer = "awaited" /\ d.answer = "ok"
              /\ reached' = [reached EXCEPT ![c.msg] = @ + 1]
           \/ UNCHANGED reached
  BY DEF CallGoesOn
<1>2. /\ reached \in [Messages -> Nat]
  BY DEF Types
<1>3. NoneFailed'
  BY <1>1 DEF Once, NoneFailed
<1>4. OneCallEach'
  BY <1>1 DEF Once, OneCallEach
<1>5. \A m \in Messages : m # c.msg => reached'[m] = reached[m]
  BY <1>1, <1>2
<1>6. c.msg \in Messages =>
        /\ ~Listed(state.queue, c.msg) /\ fate[c.msg] # "unsent"
        /\ c.answer # "ok" => reached[c.msg] = 0
  BY DEF Once, CallsDeliver
<1>7. c.msg \in Messages => reached'[c.msg] <= 1
  BY <1>1, <1>2, <1>6 DEF Once, QueueWaits
<1>8. CallsDeliver'
  <2>1. ASSUME NEW e \in calls', e.msg \in Messages
        PROVE  /\ ~Listed(state'.queue, e.msg) /\ fate'[e.msg] # "unsent"
               /\ e.answer # "ok" => reached'[e.msg] = 0
    <3>1. CASE e = d
      <4>1. ~Listed(state'.queue, e.msg) /\ fate'[e.msg] # "unsent"
        BY <1>1, <1>6, <2>1, <3>1
      <4>2. ASSUME e.answer # "ok" PROVE reached'[e.msg] = 0
        <5>1. UNCHANGED reached
          BY <1>1, <3>1, <4>2
        <5>2. CASE c.answer # "ok"
          BY <1>1, <1>6, <2>1, <3>1, <5>1, <5>2
        <5>3. CASE c.answer = "ok"
          BY <1>1, <4>2, <3>1, <5>3
        <5> QED BY <5>2, <5>3
      <4> QED BY <4>1, <4>2
    <3>2. CASE e \in calls /\ e # c
      <4>1. e.msg # c.msg
        BY <2>1, <3>2 DEF Once, OneCallEach
      <4> QED BY <1>1, <1>5, <2>1, <3>2, <4>1 DEF Once, CallsDeliver
    <3> QED BY <1>1, <3>1, <3>2
  <2> QED BY <2>1 DEF CallsDeliver
<1>9. QueueWaits'
  <2>1. ASSUME NEW m \in Messages
        PROVE  /\ reached'[m] <= 1
               /\ Listed(state'.queue, m) => reached'[m] = 0
               /\ Listed(state'.queue, m) \/ reached'[m] > 0 => fate'[m] # "unsent"
    <3>1. CASE m = c.msg
      BY <1>1, <1>6, <1>7, <3>1
    <3>2. CASE m # c.msg
      <4>1. reached'[m] = reached[m]
        BY <1>5, <3>2
      <4> QED BY <1>1, <4>1 DEF Once, QueueWaits
    <3> QED BY <3>1, <3>2
  <2> QED BY <2>1 DEF QueueWaits
<1>10. HeadIsFresh'
  <2> DEFINE h == Head(rendered.queue)
  <2>1. ASSUME effectsDue, rendered.queue # <<>>
        PROVE  /\ fate[h] # "unsent" /\ reached'[h] = 0 /\ \A e \in calls' : e.msg # h
               /\ Listed(state.queue, h) => Head(state.queue) = h
    <3>1. /\ fate[h] # "unsent" /\ reached[h] = 0 /\ \A e \in calls : e.msg # h
          /\ Listed(state.queue, h) => Head(state.queue) = h
      BY <2>1 DEF Once, HeadIsFresh
    <3>2. h \in Messages
      BY <2>1, TailFacts DEF Types, Thread
    <3>3. h # c.msg
      BY <3>1
    <3> QED BY <1>1, <1>5, <3>1, <3>2, <3>3
  <2> QED BY <1>1, <2>1 DEF HeadIsFresh, View
<1> QED BY <1>1, <1>3, <1>4, <1>8, <1>9, <1>10 DEF Once, Distinct

\* A call that ends frees its message for the queue, which did not hold it.
LEMMA OnceEnds ==
  ASSUME Types, Once, CallEnds
  PROVE  Once'
<1>1. PICK c \in calls :
        /\ calls' = calls \ {c}
        /\ UNCHANGED <<reached, View>>
        /\ \/ state'.queue = state.queue /\ UNCHANGED fate
           \/ /\ c.msg \in Messages /\ state'.queue = state.queue
              /\ \E how \in {"refused", "answered"} : fate' = Over(fate, c.msg, how)
           \/ /\ c.msg \in Messages /\ c.answer # "ok"
              /\ state'.queue = Append(state.queue, c.msg)
              /\ fate' = [fate EXCEPT ![c.msg] = "queued"]
           \/ c.answer = "failed"
  BY DEF CallEnds
<1>2. /\ state.queue \in Seq(Messages) /\ fate \in [Messages -> Fates] /\ c.answer # "failed"
  BY DEF Types, Thread, Once, NoneFailed
<1>3. c.msg \in Messages =>
        /\ ~Listed(state.queue, c.msg) /\ fate[c.msg] # "unsent"
        /\ c.answer # "ok" => reached[c.msg] = 0
        /\ \A e \in calls' : e.msg # c.msg
  BY <1>1 DEF Once, CallsDeliver, OneCallEach
<1>4. NoneFailed' /\ OneCallEach'
  BY <1>1 DEF Once, NoneFailed, OneCallEach
<1>5. CASE state'.queue = state.queue /\ \A m \in Messages : fate'[m] = "unsent" => fate[m] = "unsent"
  <2>1. CallsDeliver'
    <3>1. \A e \in calls : e.msg \in Messages => fate'[e.msg] # "unsent"
      BY <1>5 DEF Once, CallsDeliver
    <3> QED BY <1>1, <1>5, <3>1 DEF Once, CallsDeliver
  <2>2. QueueWaits'
    BY <1>1, <1>5 DEF Once, QueueWaits
  <2>3. HeadIsFresh'
    <3>1. effectsDue /\ rendered.queue # <<>> => Head(rendered.queue) \in Messages
      BY TailFacts DEF Types, Thread
    <3> QED BY <1>1, <1>5, <3>1 DEF Once, HeadIsFresh, View
  <2> QED BY <1>4, <1>5, <2>1, <2>2, <2>3 DEF Once, Distinct
<1>6. CASE /\ c.msg \in Messages /\ c.answer # "ok"
           /\ state'.queue = Append(state.queue, c.msg)
           /\ fate' = [fate EXCEPT ![c.msg] = "queued"]
  <2>1. /\ \A k : Listed(state'.queue, k) <=> Listed(state.queue, k) \/ k = c.msg
        /\ Distinct(state'.queue)
        /\ state.queue # <<>> => Head(state'.queue) = Head(state.queue)
    <3>1. ~Listed(state.queue, c.msg) /\ Distinct(state.queue)
      BY <1>3, <1>6 DEF Once
    <3> QED BY <1>2, <1>6, <3>1, AppendFacts
  <2>2. fate'[c.msg] = "queued" /\ \A m \in Messages : m # c.msg => fate'[m] = fate[m]
    BY <1>2, <1>6
  <2>3. CallsDeliver'
    BY <1>1, <1>3, <1>6, <2>1, <2>2 DEF Once, CallsDeliver
  <2>4. QueueWaits'
    <3>1. ASSUME NEW m \in Messages
          PROVE  /\ reached[m] <= 1
                 /\ Listed(state'.queue, m) => reached[m] = 0
                 /\ Listed(state'.queue, m) \/ reached[m] > 0 => fate'[m] # "unsent"
      <4>1. CASE m = c.msg
        BY <1>3, <1>6, <2>2, <4>1 DEF Once, QueueWaits
      <4>2. CASE m # c.msg
        BY <2>1, <2>2, <4>2 DEF Once, QueueWaits
      <4> QED BY <4>1, <4>2
    <3> QED BY <1>1, <3>1 DEF QueueWaits
  <2>5. HeadIsFresh'
    <3> DEFINE h == Head(rendered.queue)
    <3>1. ASSUME effectsDue, rendered.queue # <<>>
          PROVE  /\ fate'[h] # "unsent" /\ reached[h] = 0 /\ \A e \in calls' : e.msg # h
                 /\ Listed(state'.queue, h) => Head(state'.queue) = h
      <4>1. /\ fate[h] # "unsent" /\ reached[h] = 0 /\ \A e \in calls : e.msg # h
            /\ Listed(state.queue, h) => Head(state.queue) = h
        BY <3>1 DEF Once, HeadIsFresh
      <4>2. h \in Messages
        BY <3>1, TailFacts DEF Types, Thread
      <4>3. h # c.msg
        BY <4>1
      <4>4. Listed(state.queue, h) => state.queue # <<>>
        BY <1>2 DEF Listed
      <4> QED BY <1>1, <2>1, <2>2, <4>1, <4>2, <4>3, <4>4
    <3> QED BY <1>1, <3>1 DEF HeadIsFresh, View
  <2> QED BY <1>4, <2>1, <2>3, <2>4, <2>5 DEF Once
<1>7. ASSUME c.msg \in Messages, NEW how \in {"refused", "answered"}, fate' = Over(fate, c.msg, how)
      PROVE  \A m \in Messages : fate'[m] = "unsent" => fate[m] = "unsent"
  BY <1>2, <1>7, OverFacts
<1> QED BY <1>1, <1>2, <1>5, <1>6, <1>7

\* A new call is for a message that was in no call and not in the queue.
LEMMA OnceBegins ==
  ASSUME Types, Once, CallBegins
  PROVE  Once'
<1>1. PICK c \in CallRecord :
        /\ calls' = calls \cup {c}
        /\ c.answer \in {"preparing", "awaited"}
        /\ state'.queue = state.queue /\ UNCHANGED <<reached, View>>
        /\ \/ c.msg \notin Messages /\ UNCHANGED fate
           \/ /\ c.msg \in Messages /\ fate[c.msg] = "unsent"
              /\ fate' = [fate EXCEPT ![c.msg] = "sent"]
  BY DEF CallBegins
<1>2. /\ fate \in [Messages -> Fates] /\ reached \in [Messages -> Nat]
      /\ effectsDue /\ rendered.queue # <<>> => Head(rendered.queue) \in Messages
  BY TailFacts DEF Types, Thread
<1>3. \A m \in Messages : fate'[m] = "unsent" => fate[m] = "unsent"
  BY <1>1, <1>2
<1>4. c.msg \in Messages =>
        /\ ~Listed(state.queue, c.msg) /\ reached[c.msg] = 0 /\ fate'[c.msg] # "unsent"
        /\ \A e \in calls : e.msg # c.msg
        /\ effectsDue /\ rendered.queue # <<>> => c.msg # Head(rendered.queue)
  BY <1>1, <1>2 DEF Once, QueueWaits, CallsDeliver, HeadIsFresh
<1>5. NoneFailed'
  BY <1>1 DEF Once, NoneFailed
<1>6. OneCallEach'
  BY <1>1, <1>4 DEF Once, OneCallEach
<1>7. CallsDeliver'
  BY <1>1, <1>3, <1>4 DEF Once, CallsDeliver
<1>8. QueueWaits'
  BY <1>1, <1>3 DEF Once, QueueWaits
<1>9. HeadIsFresh'
  BY <1>1, <1>2, <1>3, <1>4 DEF Once, HeadIsFresh, View
<1> QED BY <1>1, <1>5, <1>6, <1>7, <1>8, <1>9 DEF Once, Distinct

\* A message new to the queue was in no call and is not about to be sent.
LEMMA OnceQueued ==
  ASSUME Types, Once, MessageQueued
  PROVE  Once'
<1>1. PICK m \in Messages :
        /\ fate[m] = "unsent" /\ fate' = [fate EXCEPT ![m] = "queued"]
        /\ state'.queue = Append(state.queue, m)
        /\ UNCHANGED <<calls, reached, View>>
  BY DEF MessageQueued
<1>2. /\ fate \in [Messages -> Fates] /\ reached \in [Messages -> Nat]
      /\ state.queue \in Seq(Messages)
      /\ effectsDue /\ rendered.queue # <<>> => Head(rendered.queue) \in Messages
  BY TailFacts DEF Types, Thread
<1>3. /\ ~Listed(state.queue, m) /\ reached[m] = 0
      /\ \A c \in calls : c.msg # m
      /\ effectsDue /\ rendered.queue # <<>> => m # Head(rendered.queue)
  BY <1>1, <1>2 DEF Once, QueueWaits, CallsDeliver, HeadIsFresh
<1>4. /\ \A k : Listed(state'.queue, k) <=> Listed(state.queue, k) \/ k = m
      /\ Distinct(state'.queue)
      /\ state.queue # <<>> => Head(state'.queue) = Head(state.queue)
  BY <1>1, <1>2, <1>3, AppendFacts DEF Once
<1>5. fate'[m] = "queued" /\ \A k \in Messages : k # m => fate'[k] = fate[k]
  BY <1>1, <1>2
<1>6. NoneFailed' /\ OneCallEach'
  BY <1>1 DEF Once, NoneFailed, OneCallEach
<1>7. CallsDeliver'
  BY <1>1, <1>3, <1>4, <1>5 DEF Once, CallsDeliver
<1>8. QueueWaits'
  BY <1>1, <1>3, <1>4, <1>5 DEF Once, QueueWaits
<1>9. HeadIsFresh'
  <2> DEFINE h == Head(rendered.queue)
  <2>1. ASSUME effectsDue, rendered.queue # <<>>
        PROVE  /\ fate'[h] # "unsent" /\ reached[h] = 0 /\ \A e \in calls : e.msg # h
               /\ Listed(state'.queue, h) => Head(state'.queue) = h
    <3>1. /\ fate[h] # "unsent" /\ reached[h] = 0 /\ \A e \in calls : e.msg # h
          /\ Listed(state.queue, h) => Head(state.queue) = h
      BY <2>1 DEF Once, HeadIsFresh
    <3>2. h \in Messages /\ h # m
      BY <1>2, <1>3, <2>1
    <3>3. Listed(state.queue, h) => state.queue # <<>>
      BY <1>2 DEF Listed
    <3> QED BY <1>4, <1>5, <3>1, <3>2, <3>3
  <2> QED BY <1>1, <2>1 DEF HeadIsFresh, View
<1> QED BY <1>4, <1>6, <1>7, <1>8, <1>9 DEF Once

\* A removed message leaves the queue, the others keep their places in it.
LEMMA OnceRemoved ==
  ASSUME Types, Once, MessageRemoved
  PROVE  Once'
<1>1. PICK m \in Messages :
        /\ fate' = Over(fate, m, "removed")
        /\ \A k : Listed(state'.queue, k) <=> Listed(state.queue, k) /\ k # m
        /\ Distinct(state.queue) => Distinct(state'.queue)
        /\ \A k : Listed(state'.queue, k) /\ Head(state.queue) = k => Head(state'.queue) = k
        /\ UNCHANGED <<calls, reached, View>>
  BY DEF MessageRemoved
<1>2. /\ fate \in [Messages -> Fates]
      /\ effectsDue /\ rendered.queue # <<>> => Head(rendered.queue) \in Messages
  BY TailFacts DEF Types, Thread
<1>3. \A k \in Messages : fate'[k] = "unsent" => fate[k] = "unsent"
  BY <1>1, <1>2, OverFacts
<1>4. NoneFailed' /\ OneCallEach'
  BY <1>1 DEF Once, NoneFailed, OneCallEach
<1>5. CallsDeliver'
  BY <1>1, <1>3 DEF Once, CallsDeliver
<1>6. QueueWaits'
  BY <1>1, <1>3 DEF Once, QueueWaits
<1>7. HeadIsFresh'
  BY <1>1, <1>2, <1>3 DEF Once, HeadIsFresh, View
<1> QED BY <1>1, <1>4, <1>5, <1>6, <1>7 DEF Once

\* The flush sends what it takes from the queue, or what is no longer there.
LEMMA OnceFlushed ==
  ASSUME Types, Once, MessageFlushed
  PROVE  Once'
<1>1. PICK c \in CallRecord :
        /\ effectsDue /\ ~effectsDue' /\ rendered.queue # <<>>
        /\ calls' = calls \cup {c}
        /\ c.msg = Head(rendered.queue) /\ c.msg \in Messages
        /\ c.answer = "preparing"
        /\ UNCHANGED <<reached, rendered>>
        /\ \/ state.queue = <<>> /\ state'.queue = <<>> /\ UNCHANGED fate
           \/ /\ state.queue # <<>> /\ state'.queue = Tail(state.queue)
              /\ IF Head(state.queue) = c.msg
                 THEN UNCHANGED fate
                 ELSE fate' = Over(fate, Head(state.queue), "dropped")
  BY DEF MessageFlushed
<1>2. fate \in [Messages -> Fates] /\ state.queue \in Seq(Messages)
  BY DEF Types, Thread
<1>3. /\ fate[c.msg] # "unsent" /\ reached[c.msg] = 0 /\ \A e \in calls : e.msg # c.msg
      /\ Listed(state.queue, c.msg) => Head(state.queue) = c.msg
  BY <1>1 DEF Once, HeadIsFresh
<1>4. /\ \A k : Listed(state'.queue, k) => Listed(state.queue, k)
      /\ Distinct(state'.queue) /\ ~Listed(state'.queue, c.msg)
  <2>1. CASE state.queue = <<>>
    BY <1>1, <2>1 DEF Listed, Distinct
  <2>2. CASE state.queue # <<>>
    <3>1. state'.queue = Tail(state.queue) /\ Distinct(state.queue)
      BY <1>1, <2>2 DEF Once
    <3>2. /\ \A k : Listed(Tail(state.queue), k) => Listed(state.queue, k)
          /\ Distinct(Tail(state.queue)) /\ ~Listed(Tail(state.queue), Head(state.queue))
      BY <1>2, <2>2, <3>1, TailFacts
    <3> QED BY <1>3, <3>1, <3>2
  <2> QED BY <2>1, <2>2
<1>5. \A k \in Messages : fate'[k] = "unsent" => fate[k] = "unsent"
  <2>1. CASE UNCHANGED fate
    BY <2>1
  <2>2. ASSUME state.queue # <<>>, fate' = Over(fate, Head(state.queue), "dropped")
        PROVE  \A k \in Messages : fate'[k] = "unsent" => fate[k] = "unsent"
    <3>1. Head(state.queue) \in Messages
      BY <1>2, <2>2, TailFacts
    <3> QED BY <1>2, <2>2, <3>1, OverFacts
  <2> QED BY <1>1, <2>1, <2>2
<1>6. NoneFailed'
  BY <1>1 DEF Once, NoneFailed
<1>7. OneCallEach'
  BY <1>1, <1>3 DEF Once, OneCallEach
<1>8. CallsDeliver'
  BY <1>1, <1>3, <1>4, <1>5 DEF Once, CallsDeliver
<1>9. QueueWaits'
  BY <1>1, <1>4, <1>5 DEF Once, QueueWaits
<1>10. HeadIsFresh'
  BY <1>1 DEF HeadIsFresh
<1> QED BY <1>4, <1>6, <1>7, <1>8, <1>9, <1>10 DEF Once

---------------------------------------------------------------------------
IInv == Types /\ CallsKnow /\ Kept /\ (Calm => Once)

\* At the start every message is unsent.
LEMMA Start ==
  ASSUME Init, MessagesAssumption
  PROVE  IInv
<1>1. Types
  <2>1. state \in Thread
    BY DEF Init, Thread, Turns
  <2>2. refs \in Cache
    BY DEF Init, Cache
  <2>3. pending \in BOOLEAN /\ running \in Turns /\ effectsDue \in BOOLEAN
    BY DEF Init, Turns
  <2>4. calls \in SUBSET CallRecord /\ interrupts \in SUBSET Turns /\ events \in Seq(Notice)
    BY DEF Init
  <2>5. /\ fate \in [Messages -> Fates] /\ reached \in [Messages -> Nat]
        /\ disturbed \in [Disturbances -> Nat]
    BY DEF Init, Fates
  <2>6. rendered \in Thread
    BY <2>1 DEF Init
  <2> QED BY <2>1, <2>2, <2>3, <2>4, <2>5, <2>6 DEF Types
<1>2. CallsKnow /\ Kept
  BY DEF Init, CallsKnow, Kept
<1>3. Once
  <2>1. \A m : ~Listed(state.queue, m)
    BY DEF Init, Listed
  <2>2. Distinct(state.queue)
    BY DEF Init, Distinct
  <2>3. NoneFailed /\ OneCallEach /\ CallsDeliver /\ HeadIsFresh
    BY DEF Init, NoneFailed, OneCallEach, CallsDeliver, HeadIsFresh
  <2>4. QueueWaits
    BY <2>1 DEF Init, QueueWaits
  <2> QED BY <2>2, <2>3, <2>4 DEF Once
<1> QED BY <1>1, <1>2, <1>3 DEF IInv

\* Every step keeps the invariant.
LEMMA StepKeeps ==
  ASSUME IInv, [Next]_vars, MessagesAssumption
  PROVE  IInv'
<1>1. CASE Next
  <2>1. /\ Types' /\ CalmBefore
        /\ \/ Quiet \/ CallGoesOn \/ CallEnds \/ CallBegins
           \/ MessageQueued \/ MessageRemoved \/ MessageFlushed
    BY <1>1, StepFacts DEF IInv
  <2>2. CallsKnow'
    BY <2>1, CallsKnowKept DEF IInv
  <2>3. Kept'
    BY <2>1, KeptKept DEF IInv
  <2>4. ASSUME Calm' PROVE Once'
    <3>1. Once
      BY <2>1, <2>4 DEF IInv, CalmBefore
    <3> QED BY <2>1, <2>4, <3>1, OnceQuiet, OnceGoesOn, OnceEnds, OnceBegins,
               OnceQueued, OnceRemoved, OnceFlushed DEF IInv
  <2> QED BY <2>1, <2>2, <2>3, <2>4 DEF IInv
<1>2. CASE UNCHANGED vars
  BY <1>2 DEF vars, turnVars, IInv, Types, CallsKnow, Kept, Held, Calm, Once, NoneFailed,
              OneCallEach, CallsDeliver, QueueWaits, HeadIsFresh
<1> QED BY <1>1, <1>2

\* So it always holds.
LEMMA Invariance == Spec => []IInv
<1>1. Init => IInv
  BY Start, MessagesAssumption
<1>2. IInv /\ [Next]_vars => IInv'
  BY StepKeeps, MessagesAssumption
<1> QED BY <1>1, <1>2, PTL DEF Spec

\* The state of a thread, its calls and the histories of its messages are what
\* the actions of the reducer, of the composer and of the app-server make of them.
THEOREM TypeCorrect == Spec => []Types
<1>1. IInv => Types
  BY DEF IInv
<1> QED BY <1>1, Invariance, PTL

\* A message the user sent is in the queue, in a call or at the app-server, or
\* has a last word: removed, refused, answered, or dropped by a flush that read
\* an older queue.  Whatever the messages, the bound on the disturbances, and the
\* order of answers, events and renders.
THEOREM MessagesAreNotLost == Spec => []NothingLost
<1>1. IInv => NothingLost
  BY KeptIsNothingLost DEF IInv
<1> QED BY <1>1, Invariance, PTL

\* Without a failed request no message reaches the app-server twice, and none
\* waits in the queue that has reached it.
THEOREM MessagesAreDeliveredOnce == Spec => []DeliveredOnce
<1>1. ASSUME IInv PROVE DeliveredOnce
  <2>1. \A m : m \in ToSet(state.queue) <=> Listed(state.queue, m)
    BY <1>1, ListedIsInSet DEF IInv, Types, Thread
  <2>2. ASSUME Undisturbed({"failure"}) PROVE QueueWaits
    BY <1>1, <2>2 DEF IInv, Undisturbed, Calm, Once
  <2> QED BY <2>1, <2>2 DEF DeliveredOnce, QueueWaits
<1>2. IInv => DeliveredOnce
  BY <1>1
<1> QED BY <1>2, Invariance, PTL

---------------------------------------------------------------------------
(* The stream of events: q are those still to be handled, r is the turn    *)
(* the app-server runs.                                                    *)

Going == {"started", "entered", "item"}             \* after these a turn goes on
Ends == {"completed", "error", "closed", "idle"}    \* after these it is over
Leaves == {"exited", "error", "closed"}             \* these end a review

\* What may come after an event.
Follows(d, e) ==
  IF d.turn = e.turn
  THEN e.kind # "started" /\ (d.kind \in Ends => e.kind = "idle")
  ELSE e.kind = "started" /\ d.kind \in Ends

\* The turns come one after the other, the last of them runs or is over; the
\* turn that runs has started, a review that was entered runs or will be left.
Ordered(q, r) ==
  /\ \A i \in 1..Len(q) : q[i].turn # NoTurn
  /\ \A i, j \in 1..Len(q) : j = i + 1 => Follows(q[i], q[j])
  /\ \A i, j, k \in 1..Len(q) :
       i < j /\ j < k /\ q[i].turn = q[k].turn => q[j].turn = q[k].turn
  /\ q # <<>> => r = IF q[Len(q)].kind \in Going THEN q[Len(q)].turn ELSE NoTurn
  /\ \A i \in 1..Len(q) : q[i].kind \notin Going => q[i].turn # r
  /\ \A i \in 1..Len(q) : r # NoTurn /\ q[i].turn # r =>
       \E j \in 1..Len(q) : i < j /\ q[j].kind = "started" /\ q[j].turn = r
  /\ \A i \in 1..Len(q) : q[i].kind = "entered" =>
       /\ q[i].turn \in Reviews
       /\ \/ q[i].turn = r
          \/ \E j \in 1..Len(q) : i < j /\ q[j].turn = q[i].turn /\ q[j].kind \in Leaves

\* An event the app-server may report next, and the turn it runs then.
Reports(q, r, e, s) ==
  \/ /\ r = NoTurn /\ e.kind = "started" /\ e.turn # NoTurn /\ s = e.turn
     /\ \A i \in 1..Len(q) : q[i].turn # e.turn
     /\ q # <<>> => q[Len(q)].kind \in Ends
  \/ /\ r # NoTurn /\ e.kind # "started" /\ e.turn = r
     /\ s = IF e.kind \in Going THEN r ELSE NoTurn
     /\ e.kind = "entered" => r \in Reviews
     /\ r \in Reviews => e.kind \in Going \cup Leaves
  \/ /\ r = NoTurn /\ q # <<>> /\ e.kind \notin Going /\ s = NoTurn
     /\ e.turn = q[Len(q)].turn
     /\ q[Len(q)].kind \in Ends => e.kind = "idle"

\* A report leaves the events in order.
LEMMA ReportKeepsOrder ==
  ASSUME NEW q \in Seq(Notice), NEW r \in Turns, NEW e \in Notice, NEW s,
         Ordered(q, r), Reports(q, r, e, s)
  PROVE  Ordered(Append(q, e), s)
<1> DEFINE p == Append(q, e)
           n == Len(q)
<1>1. /\ p \in Seq(Notice) /\ n \in Nat /\ Len(p) = n + 1 /\ p[n + 1] = e /\ p # <<>>
      /\ \A i \in 1..n : p[i] = q[i] /\ q[i] \in Notice
      /\ q # <<>> <=> n # 0
  OBVIOUS
<1> HIDE DEF p, n
<1>2. /\ 1..n \subseteq 1..(n + 1) /\ n + 1 \in 1..(n + 1)
      /\ \A i \in 1..(n + 1) : i \in 1..n \/ i = n + 1
      /\ \A i \in 1..n : i < n + 1
      /\ n # 0 => n \in 1..n
  BY <1>1
<1>3. /\ e.kind \in {"started", "entered", "item", "exited", "completed", "error", "closed", "idle"}
      /\ \A i \in 1..n : q[i].kind \in {"started", "entered", "item", "exited", "completed",
                                        "error", "closed", "idle"}
  BY <1>1 DEF Notice
<1>4. e.turn # NoTurn
  BY <1>1, <1>2 DEF Reports, Ordered, n
<1>5. n # 0 => r = IF q[n].kind \in Going THEN q[n].turn ELSE NoTurn
  BY <1>1 DEF Ordered, n
<1>6. \A i \in 1..(n + 1) : p[i].turn # NoTurn
  BY <1>1, <1>2, <1>4 DEF Ordered, n
<1>7. \A i, j \in 1..(n + 1) : j = i + 1 => Follows(p[i], p[j])
  <2>1. ASSUME NEW i \in 1..n, NEW j \in 1..n, j = i + 1 PROVE Follows(p[i], p[j])
    BY <1>1, <2>1 DEF Ordered, n
  <2>2. ASSUME n # 0 PROVE Follows(q[n], e)
    BY <1>1, <1>2, <1>3, <1>5, <2>2 DEF Reports, Follows, Going, Ends, n
  <2>3. ASSUME NEW i \in 1..(n + 1), NEW j \in 1..(n + 1), j = i + 1 PROVE Follows(p[i], p[j])
    <3>1. i \in 1..n /\ (j \in 1..n \/ (j = n + 1 /\ i = n))
      BY <1>1, <1>2, <2>3
    <3>2. CASE j \in 1..n
      BY <2>1, <2>3, <3>1, <3>2
    <3>3. CASE j = n + 1 /\ i = n
      <4>1. p[i] = q[n] /\ p[j] = e /\ n # 0
        BY <1>1, <3>1, <3>3
      <4> QED BY <2>2, <4>1
    <3> QED BY <3>1, <3>2, <3>3
  <2> QED BY <2>3
<1>8. \A i, j \in 1..n : i < j /\ q[i].turn = e.turn => q[j].turn = e.turn
  <2>1. ASSUME NEW i \in 1..n, NEW j \in 1..n, i < j, q[i].turn = e.turn PROVE q[j].turn = e.turn
    <3>1. n # 0 /\ n \in 1..n
      BY <1>1, <1>2
    <3>2. q[n].turn = e.turn
      BY <1>3, <1>5, <2>1, <3>1 DEF Reports, n
    <3>3. j < n \/ j = n
      BY <1>1
    <3>4. CASE j < n
      BY <2>1, <3>1, <3>2, <3>4 DEF Ordered, n
    <3> QED BY <3>2, <3>3, <3>4
  <2> QED BY <2>1
<1>9. \A i, j, k \in 1..(n + 1) : i < j /\ j < k /\ p[i].turn = p[k].turn => p[j].turn = p[k].turn
  <2>1. ASSUME NEW i \in 1..(n + 1), NEW j \in 1..(n + 1), NEW k \in 1..(n + 1),
               i < j, j < k, p[i].turn = p[k].turn
        PROVE  p[j].turn = p[k].turn
    <3>1. i \in 1..n /\ j \in 1..n /\ p[i] = q[i] /\ p[j] = q[j]
      BY <1>1, <1>2, <2>1
    <3>2. CASE k \in 1..n
      BY <1>1, <2>1, <3>1, <3>2 DEF Ordered, n
    <3>3. CASE k = n + 1
      BY <1>1, <1>8, <2>1, <3>1, <3>3
    <3> QED BY <1>2, <3>2, <3>3
  <2> QED BY <2>1
<1>10. s = IF e.kind \in Going THEN e.turn ELSE NoTurn
  BY <1>3 DEF Reports, Going
<1>11. \A i \in 1..(n + 1) : p[i].kind \notin Going => p[i].turn # s
  <2>1. \A i \in 1..n : q[i].kind \notin Going => q[i].turn # s
    <3>1. s = NoTurn \/ s = r \/ \A i \in 1..n : q[i].turn # s
      BY DEF Reports, n
    <3> QED BY <1>1, <1>6, <3>1, <1>2 DEF Ordered, n
  <2>2. e.kind \notin Going => e.turn # s
    BY <1>4, <1>10
  <2> QED BY <1>1, <1>2, <2>1, <2>2
<1>12. \A i \in 1..(n + 1) : s # NoTurn /\ p[i].turn # s =>
         \E j \in 1..(n + 1) : i < j /\ p[j].kind = "started" /\ p[j].turn = s
  <2>1. ASSUME NEW i \in 1..(n + 1), s # NoTurn, p[i].turn # s
        PROVE  \E j \in 1..(n + 1) : i < j /\ p[j].kind = "started" /\ p[j].turn = s
    <3>1. e.turn = s /\ i \in 1..n /\ p[i] = q[i]
      BY <1>1, <1>2, <1>10, <2>1
    <3>2. CASE e.kind = "started"
      BY <1>1, <1>2, <3>1, <3>2
    <3>3. CASE e.kind # "started"
      <4>1. r = s
        BY <2>1, <3>3 DEF Reports
      <4>2. PICK j \in 1..n : i < j /\ q[j].kind = "started" /\ q[j].turn = r
        BY <2>1, <3>1, <4>1 DEF Ordered, n
      <4> QED BY <1>1, <1>2, <4>1, <4>2
    <3> QED BY <3>2, <3>3
  <2> QED BY <2>1
<1>13. \A i \in 1..(n + 1) : p[i].kind = "entered" =>
         /\ p[i].turn \in Reviews
         /\ \/ p[i].turn = s
            \/ \E j \in 1..(n + 1) : i < j /\ p[j].turn = p[i].turn /\ p[j].kind \in Leaves
  <2>1. ASSUME NEW i \in 1..n, q[i].kind = "entered"
        PROVE  /\ q[i].turn \in Reviews
               /\ \/ q[i].turn = s
                  \/ \E j \in 1..(n + 1) : i < j /\ p[j].turn = q[i].turn /\ p[j].kind \in Leaves
    <3>1. q[i].turn \in Reviews /\ q[i].turn # NoTurn
      BY <2>1 DEF Ordered, n
    <3>2. CASE \E j \in 1..n : i < j /\ q[j].turn = q[i].turn /\ q[j].kind \in Leaves
      BY <1>1, <1>2, <3>1, <3>2
    <3>3. CASE q[i].turn = r
      <4>1. r # NoTurn /\ e.turn = r /\ (s = r \/ e.kind \in Leaves)
        BY <3>1, <3>3 DEF Reports
      <4> QED BY <1>1, <1>2, <3>1, <3>3, <4>1
    <3> QED BY <2>1, <3>1, <3>2, <3>3 DEF Ordered, n
  <2>2. e.kind = "entered" => e.turn \in Reviews /\ e.turn = s
    BY <1>10 DEF Reports, Going
  <2> QED BY <1>1, <1>2, <2>1, <2>2
<1>14. Len(p) = n + 1 /\ s = IF p[Len(p)].kind \in Going THEN p[Len(p)].turn ELSE NoTurn
  BY <1>1, <1>10
<1>15. Ordered(p, s)
  BY <1>6, <1>7, <1>9, <1>11, <1>12, <1>13, <1>14 DEF Ordered
<1> QED BY <1>15 DEF p

\* Handling the first event leaves the rest in order.
LEMMA TailKeepsOrder ==
  ASSUME NEW q \in Seq(Notice), NEW r \in Turns, q # <<>>, Ordered(q, r)
  PROVE  Ordered(Tail(q), r)
<1> DEFINE p == Tail(q)
           n == Len(p)
<1>1. /\ p \in Seq(Notice) /\ n \in Nat /\ Len(q) = n + 1
      /\ \A i \in 1..n : p[i] = q[i + 1]
  OBVIOUS
<1>20. \A s \in Seq(Notice) : s # <<>> <=> Len(s) # 0
  OBVIOUS
<1>21. p # <<>> <=> n # 0
  BY <1>1, <1>20
<1> HIDE DEF p, n
<1>2. /\ \A i \in 1..n : i + 1 \in 1..Len(q)
      /\ \A j \in 1..Len(q), i \in 1..n : i + 1 < j => j - 1 \in 1..n /\ (j - 1) + 1 = j /\ i < j - 1
      /\ \A i, j \in 1..n : (i < j <=> i + 1 < j + 1) /\ (j = i + 1 <=> j + 1 = (i + 1) + 1)
      /\ n # 0 => n \in 1..n
  BY <1>1
<1>3. \A i \in 1..n : p[i].turn # NoTurn /\ (p[i].kind \notin Going => p[i].turn # r)
  BY <1>1, <1>2 DEF Ordered
<1>4. \A i, j \in 1..n : j = i + 1 => Follows(p[i], p[j])
  BY <1>1, <1>2 DEF Ordered
<1>5. \A i, j, k \in 1..n : i < j /\ j < k /\ p[i].turn = p[k].turn => p[j].turn = p[k].turn
  <2>1. ASSUME NEW i \in 1..n, NEW j \in 1..n, NEW k \in 1..n,
               i < j, j < k, p[i].turn = p[k].turn
        PROVE  p[j].turn = p[k].turn
    <3>1. /\ i + 1 \in 1..Len(q) /\ j + 1 \in 1..Len(q) /\ k + 1 \in 1..Len(q)
          /\ i + 1 < j + 1 /\ j + 1 < k + 1
          /\ p[i] = q[i + 1] /\ p[j] = q[j + 1] /\ p[k] = q[k + 1]
      BY <1>1, <1>2, <2>1
    <3>2. \A a, b, c \in 1..Len(q) :
            a < b /\ b < c /\ q[a].turn = q[c].turn => q[b].turn = q[c].turn
      BY DEF Ordered
    <3>3. q[i + 1].turn = q[k + 1].turn => q[j + 1].turn = q[k + 1].turn
      BY <3>1, <3>2
    <3> QED BY <2>1, <3>1, <3>3
  <2> QED BY <2>1
<1>6. p # <<>> => r = IF p[n].kind \in Going THEN p[n].turn ELSE NoTurn
  BY <1>1, <1>2, <1>21 DEF Ordered
<1>7. ASSUME NEW i \in 1..n, NEW t, NEW kinds,
             \E j \in 1..Len(q) : i + 1 < j /\ q[j].turn = t /\ q[j].kind \in kinds
      PROVE  \E j \in 1..n : i < j /\ p[j].turn = t /\ p[j].kind \in kinds
  <2>1. PICK j \in 1..Len(q) : i + 1 < j /\ q[j].turn = t /\ q[j].kind \in kinds
    BY <1>7
  <2>2. j - 1 \in 1..n /\ i < j - 1 /\ p[j - 1] = q[j]
    BY <1>1, <1>2, <2>1
  <2> QED BY <2>1, <2>2
<1>8. \A i \in 1..n : r # NoTurn /\ p[i].turn # r =>
        \E j \in 1..n : i < j /\ p[j].kind = "started" /\ p[j].turn = r
  <2>1. ASSUME NEW i \in 1..n, r # NoTurn, p[i].turn # r
        PROVE  \E j \in 1..n : i < j /\ p[j].kind = "started" /\ p[j].turn = r
    <3>1. \E j \in 1..Len(q) : i + 1 < j /\ q[j].turn = r /\ q[j].kind \in {"started"}
      BY <1>1, <1>2, <2>1 DEF Ordered
    <3>2. \E j \in 1..n : i < j /\ p[j].turn = r /\ p[j].kind \in {"started"}
      BY <1>7, <3>1
    <3> QED BY <3>2
  <2> QED BY <2>1
<1>9. \A i \in 1..n : p[i].kind = "entered" =>
        /\ p[i].turn \in Reviews
        /\ \/ p[i].turn = r
           \/ \E j \in 1..n : i < j /\ p[j].turn = p[i].turn /\ p[j].kind \in Leaves
  <2>1. ASSUME NEW i \in 1..n, p[i].kind = "entered"
        PROVE  /\ p[i].turn \in Reviews
               /\ \/ p[i].turn = r
                  \/ \E j \in 1..n : i < j /\ p[j].turn = p[i].turn /\ p[j].kind \in Leaves
    <3>1. /\ p[i].turn \in Reviews
          /\ \/ p[i].turn = r
             \/ \E j \in 1..Len(q) : i + 1 < j /\ q[j].turn = p[i].turn /\ q[j].kind \in Leaves
      BY <1>1, <1>2, <2>1 DEF Ordered
    <3> QED BY <1>7, <3>1
  <2> QED BY <2>1
<1>10. Ordered(p, r)
  BY <1>3, <1>4, <1>5, <1>6, <1>8, <1>9 DEF Ordered, n
<1> QED BY <1>10 DEF p

\* No event is missing after the last one: a review that started will be entered,
\* one that exited ends.
Whole(q) ==
  /\ q # <<>> => q[Len(q)].kind # "exited"
  /\ \A i \in 1..Len(q) : q[i].kind = "started" /\ q[i].turn \in Reviews =>
       \E j \in 1..Len(q) : i < j /\ q[j].kind = "entered" /\ q[j].turn = q[i].turn

\* Turn t runs, or has events still to be handled.
LiveIn(q, r, t) == t # NoTurn /\ (t = r \/ \E i \in 1..Len(q) : q[i].turn = t)

\* The turn the handlers are in the middle of.
CurrentIn(q, r) ==
  IF q = <<>> THEN r ELSE IF Head(q).kind = "started" THEN NoTurn ELSE Head(q).turn

\* Its end is still to be handled.
OpenIn(q, r) == IF q = <<>> THEN r # NoTurn ELSE Head(q).kind \notin {"started", "idle"}

\* Turn b comes after t, of which events are still to be handled.
AfterIn(q, r, b, t) ==
  /\ b # NoTurn /\ b # t
  /\ \E i \in 1..Len(q) :
       q[i].turn = t /\ (b = r \/ \E j \in 1..Len(q) : i < j /\ q[j].turn = b)

\* A review runs, or is still to be left.
InReview(q, r) ==
  \E t \in Reviews : t = r \/ \E i \in 1..Len(q) : q[i].turn = t /\ q[i].kind \in Leaves

\* An event of turn t is still to be handled.
Awaits(q, kind, t) == \E i \in 1..Len(q) : q[i].kind = kind /\ q[i].turn = t

\* What handling the first event does to all that.
LEMMA HandlingFacts ==
  ASSUME NEW q \in Seq(Notice), NEW r \in Turns, q # <<>>, Ordered(q, r), Whole(q)
  PROVE  /\ Tail(q) \in Seq(Notice) /\ Head(q) \in Notice /\ Head(q).turn # NoTurn
         /\ Whole(Tail(q))
         /\ \A t : LiveIn(q, r, t) /\ t # Head(q).turn => LiveIn(Tail(q), r, t)
         /\ \A t : LiveIn(Tail(q), r, t) => LiveIn(q, r, t)
         /\ Head(q).kind \notin Ends =>
              /\ LiveIn(Tail(q), r, Head(q).turn)
              /\ CurrentIn(Tail(q), r) = Head(q).turn
         /\ Head(q).kind \in Ends => ~OpenIn(Tail(q), r)
         /\ \A b, t : AfterIn(Tail(q), r, b, t) => AfterIn(q, r, b, t)
         /\ \A b : LiveIn(q, r, b) /\ b # Head(q).turn => AfterIn(q, r, b, Head(q).turn)
<1> DEFINE p == Tail(q)
           n == Len(p)
           e == Head(q)
<1>1. /\ p \in Seq(Notice) /\ n \in Nat /\ Len(q) = n + 1 /\ e = q[1] /\ e \in Notice
      /\ \A i \in 1..n : p[i] = q[i + 1]
  OBVIOUS
<1>20. \A s \in Seq(Notice) : (s # <<>> <=> Len(s) # 0) /\ (s # <<>> => Head(s) = s[1])
  OBVIOUS
<1>21. (p # <<>> <=> n # 0) /\ (n # 0 => Head(p) = q[2])
  <2>1. p # <<>> <=> n # 0
    BY <1>1, <1>20
  <2>2. n # 0 => Head(p) = p[1] /\ p[1] = q[1 + 1]
    BY <1>1, <1>20, <2>1
  <2> QED BY <2>1, <2>2
<1> HIDE DEF p, n, e
<1>2. /\ \A i \in 1..n : i + 1 \in 1..Len(q) /\ 1 < i + 1
      /\ \A j \in 1..Len(q) : j = 1 \/ (j - 1 \in 1..n /\ (j - 1) + 1 = j)
      /\ \A j \in 1..Len(q), i \in 1..n : i + 1 < j => i < j - 1
      /\ \A i, j \in 1..n : i < j <=> i + 1 < j + 1
      /\ n # 0 => n \in 1..n /\ 2 \in 1..Len(q)
      /\ 1 \in 1..Len(q)
  BY <1>1
<1>3. e.turn # NoTurn
  BY <1>1, <1>2 DEF Ordered
<1>4. Whole(p)
  <2>1. p # <<>> => p[n].kind # "exited"
    BY <1>1, <1>21, <1>2 DEF Whole
  <2>2. ASSUME NEW i \in 1..n, p[i].kind = "started", p[i].turn \in Reviews
        PROVE  \E j \in 1..n : i < j /\ p[j].kind = "entered" /\ p[j].turn = p[i].turn
    <3>1. PICK j \in 1..Len(q) : i + 1 < j /\ q[j].kind = "entered" /\ q[j].turn = p[i].turn
      BY <1>1, <1>2, <2>2 DEF Whole
    <3>2. j - 1 \in 1..n /\ i < j - 1 /\ p[j - 1] = q[j]
      BY <1>1, <1>2, <3>1
    <3> QED BY <3>1, <3>2
  <2> QED BY <2>1, <2>2 DEF Whole, n
<1>5. ASSUME NEW t, LiveIn(q, r, t), t # e.turn PROVE LiveIn(p, r, t)
  <2>1. CASE t = r
    BY <1>5, <2>1 DEF LiveIn
  <2>2. CASE \E i \in 1..Len(q) : q[i].turn = t
    <3>1. PICK i \in 1..Len(q) : q[i].turn = t
      BY <2>2
    <3>2. i - 1 \in 1..n /\ p[i - 1] = q[i]
      BY <1>1, <1>2, <1>5, <3>1
    <3> QED BY <1>5, <3>1, <3>2 DEF LiveIn, n
  <2> QED BY <1>5, <2>1, <2>2 DEF LiveIn
<1>6. ASSUME NEW t, LiveIn(p, r, t) PROVE LiveIn(q, r, t)
  BY <1>1, <1>2, <1>6 DEF LiveIn, n
<1>7. n # 0 => Follows(e, q[2])
  BY <1>1, <1>2 DEF Ordered
<1>8. n = 0 => r = IF e.kind \in Going THEN e.turn ELSE NoTurn
  BY <1>1 DEF Ordered
<1>9. e.kind \in {"started", "entered", "item", "exited", "completed", "error", "closed", "idle"}
  BY <1>1 DEF Notice
<1>10. ASSUME e.kind \notin Ends PROVE LiveIn(p, r, e.turn) /\ CurrentIn(p, r) = e.turn
  <2>1. CASE n = 0
    <3>1. e.kind \in Going
      BY <1>1, <1>21, <1>9, <1>10, <2>1 DEF Whole, Ends, Going
    <3> QED BY <1>1, <1>21, <1>3, <1>8, <2>1, <3>1 DEF LiveIn, CurrentIn
  <2>2. CASE n # 0
    <3>1. q[2].turn = e.turn /\ q[2].kind # "started"
      BY <1>7, <1>10, <2>2 DEF Follows
    <3>2. 1 \in 1..n /\ p[1] = q[2]
      BY <1>1, <2>2
    <3> QED BY <1>1, <1>21, <1>3, <2>2, <3>1, <3>2 DEF LiveIn, CurrentIn, n
  <2> QED BY <2>1, <2>2
<1>11. ASSUME e.kind \in Ends PROVE ~OpenIn(p, r)
  <2>1. CASE n = 0
    BY <1>1, <1>21, <1>8, <1>11, <2>1 DEF OpenIn, Ends, Going
  <2>2. CASE n # 0
    BY <1>1, <1>21, <1>7, <1>11, <2>2 DEF OpenIn, Follows
  <2> QED BY <2>1, <2>2
<1>12. ASSUME NEW b, NEW t, AfterIn(p, r, b, t) PROVE AfterIn(q, r, b, t)
  <2>1. PICK i \in 1..n : p[i].turn = t /\ (b = r \/ \E j \in 1..n : i < j /\ p[j].turn = b)
    BY <1>12 DEF AfterIn, n
  <2>2. i + 1 \in 1..Len(q) /\ q[i + 1].turn = t
    BY <1>1, <1>2, <2>1
  <2>3. b = r \/ \E j \in 1..Len(q) : i + 1 < j /\ q[j].turn = b
    BY <1>1, <1>2, <2>1
  <2> QED BY <1>12, <2>2, <2>3 DEF AfterIn
<1>13. ASSUME NEW b, LiveIn(q, r, b), b # e.turn PROVE AfterIn(q, r, b, e.turn)
  <2>1. b = r \/ \E j \in 1..Len(q) : 1 < j /\ q[j].turn = b
    <3>1. \A j \in 1..Len(q) : j = 1 \/ 1 < j
      BY <1>1
    <3> QED BY <1>1, <1>13, <3>1 DEF LiveIn
  <2> QED BY <1>1, <1>2, <1>13, <2>1 DEF AfterIn, LiveIn
<1> QED BY <1>1, <1>3, <1>4, <1>5, <1>6, <1>10, <1>11, <1>12, <1>13 DEF p, e

\* What the app-server's reports leave of it: q and r before, p and s after, and
\* new is the turn that starts.
Grows(q, r, p, s, new) ==
  /\ \A t : LiveIn(q, r, t) => LiveIn(p, s, t)
  /\ \A t : LiveIn(p, s, t) => LiveIn(q, r, t) \/ t = new
  /\ CurrentIn(q, r) # NoTurn => CurrentIn(p, s) = CurrentIn(q, r)
  /\ OpenIn(p, s) => OpenIn(q, r)
  /\ \A b, t : AfterIn(p, s, b, t) /\ b # new /\ t # new => AfterIn(q, r, b, t)
  /\ InReview(q, r) => InReview(p, s)
  /\ s # NoTurn /\ ~Awaits(p, "started", s) =>
       /\ s = r /\ ~Awaits(q, "started", r)
       /\ ~Awaits(p, "entered", s) => ~Awaits(q, "entered", r)

\* Report after report.
LEMMA GrowsOn ==
  ASSUME NEW q, NEW r, NEW p, NEW s, NEW u, NEW v, NEW new,
         Grows(q, r, p, s, new), Grows(p, s, u, v, new)
  PROVE  Grows(q, r, u, v, new)
<1>1. /\ \A t : LiveIn(q, r, t) => LiveIn(u, v, t)
      /\ \A t : LiveIn(u, v, t) => LiveIn(q, r, t) \/ t = new
  BY DEF Grows
<1>2. /\ CurrentIn(q, r) # NoTurn => CurrentIn(u, v) = CurrentIn(q, r)
      /\ OpenIn(u, v) => OpenIn(q, r)
      /\ InReview(q, r) => InReview(u, v)
  BY DEF Grows
<1>3. \A b, t : AfterIn(u, v, b, t) /\ b # new /\ t # new => AfterIn(q, r, b, t)
  BY DEF Grows
<1>4. v # NoTurn /\ ~Awaits(u, "started", v) =>
        /\ v = r /\ ~Awaits(q, "started", r)
        /\ ~Awaits(u, "entered", v) => ~Awaits(q, "entered", r)
  BY DEF Grows
<1> QED BY <1>1, <1>2, <1>3, <1>4 DEF Grows

\* What one report does to all that.
LEMMA ReportGrows ==
  ASSUME NEW q \in Seq(Notice), NEW r \in Turns, NEW e \in Notice, NEW s,
         Ordered(q, r), Reports(q, r, e, s), NEW new, e.kind = "started" => new = e.turn
  PROVE  Grows(q, r, Append(q, e), s, new)
<1> DEFINE p == Append(q, e)
           n == Len(q)
<1>1. /\ p \in Seq(Notice) /\ n \in Nat /\ Len(p) = n + 1 /\ p[n + 1] = e /\ p # <<>>
      /\ \A i \in 1..n : p[i] = q[i]
      /\ q # <<>> <=> n # 0
      /\ q # <<>> => Head(q) = q[1]
      /\ Head(p) = p[1]
  OBVIOUS
<1> HIDE DEF p, n
<1>2. /\ 1..n \subseteq 1..(n + 1) /\ n + 1 \in 1..(n + 1)
      /\ \A i \in 1..(n + 1) : i \in 1..n \/ i = n + 1
      /\ \A i \in 1..n : i < n + 1 /\ ~(n + 1 < i)
      /\ n # 0 => n \in 1..n /\ 1 \in 1..n
      /\ n = 0 => 1 = n + 1
  BY <1>1
<1>3. n # 0 => r = IF q[n].kind \in Going THEN q[n].turn ELSE NoTurn
  BY <1>1 DEF Ordered, n
<1>4. s = IF e.kind \in Going THEN e.turn ELSE NoTurn
  BY DEF Reports, Going
<1>5. r # NoTurn => e.turn = r /\ e.kind # "started" /\ (s = r \/ s = NoTurn)
  BY DEF Reports
<1>6. r = NoTurn => e.kind = "started" \/ (n # 0 /\ e.turn = q[n].turn /\ s = NoTurn)
  BY <1>1 DEF Reports, n
<1>7. ASSUME NEW t, LiveIn(q, r, t) PROVE LiveIn(p, s, t)
  BY <1>1, <1>2, <1>5, <1>7 DEF LiveIn, n
<1>14. ASSUME NEW t, LiveIn(p, s, t) PROVE LiveIn(q, r, t) \/ t = new
  <2>1. t = e.turn \/ \E i \in 1..n : q[i].turn = t
    BY <1>1, <1>2, <1>4, <1>14 DEF LiveIn
  <2>2. t # NoTurn
    BY <1>14 DEF LiveIn
  <2>3. CASE \E i \in 1..n : q[i].turn = t
    BY <2>2, <2>3 DEF LiveIn, n
  <2>4. CASE t = e.turn
    BY <1>1, <1>2, <1>5, <1>6, <2>2, <2>4 DEF LiveIn, n
  <2> QED BY <2>1, <2>3, <2>4
<1>8. ASSUME CurrentIn(q, r) # NoTurn PROVE CurrentIn(p, s) = CurrentIn(q, r)
  <2>1. CASE n # 0
    BY <1>1, <1>2, <1>8, <2>1 DEF CurrentIn
  <2>2. CASE n = 0
    BY <1>1, <1>2, <1>5, <1>8, <2>2 DEF CurrentIn
  <2> QED BY <2>1, <2>2
<1>9. ASSUME OpenIn(p, s) PROVE OpenIn(q, r)
  <2>1. CASE n # 0
    BY <1>1, <1>2, <1>9, <2>1 DEF OpenIn
  <2>2. CASE n = 0
    BY <1>1, <1>2, <1>6, <1>9, <2>2 DEF OpenIn
  <2> QED BY <2>1, <2>2
<1>10. ASSUME NEW b, NEW t, AfterIn(p, s, b, t), b # new, t # new PROVE AfterIn(q, r, b, t)
  <2>1. PICK i \in 1..(n + 1) :
          p[i].turn = t /\ (b = s \/ \E j \in 1..(n + 1) : i < j /\ p[j].turn = b)
    BY <1>1, <1>10 DEF AfterIn
  <2>2. b # NoTurn /\ b # t
    BY <1>10 DEF AfterIn
  <2>3. i \in 1..n
    <3>1. ASSUME i = n + 1 PROVE FALSE
      <4>1. e.turn = t /\ b = s
        BY <1>1, <1>2, <2>1, <3>1
      <4> QED BY <1>4, <2>2, <4>1
    <3> QED BY <1>2, <3>1
  <2>4. CASE b = s
    <3>1. b = e.turn
      BY <1>4, <2>2, <2>4
    <3>2. r # NoTurn
      BY <1>6, <1>10, <2>2, <2>4, <3>1
    <3>3. b = r
      BY <1>5, <3>1, <3>2
    <3> QED BY <1>1, <2>1, <2>2, <2>3, <3>3 DEF AfterIn, n
  <2>5. ASSUME NEW j \in 1..(n + 1), i < j, p[j].turn = b PROVE AfterIn(q, r, b, t)
    <3>1. CASE j \in 1..n
      BY <1>1, <2>1, <2>2, <2>3, <2>5, <3>1 DEF AfterIn, n
    <3>2. CASE j = n + 1
      <4>1. b = e.turn
        BY <1>1, <2>5, <3>2
      <4>2. CASE r # NoTurn
        BY <1>1, <1>5, <2>1, <2>2, <2>3, <4>1, <4>2 DEF AfterIn, n
      <4>3. CASE r = NoTurn
        <5>1. n # 0 /\ q[n].turn = b
          BY <1>6, <1>10, <4>1, <4>3
        <5>2. i # n /\ n \in 1..n
          BY <1>1, <1>2, <2>1, <2>2, <2>3, <5>1
        <5>3. i < n
          BY <1>1, <2>3, <5>2
        <5> QED BY <1>1, <2>1, <2>2, <2>3, <5>1, <5>2, <5>3 DEF AfterIn, n
      <4> QED BY <4>2, <4>3
    <3> QED BY <1>2, <3>1, <3>2
  <2> QED BY <2>1, <2>4, <2>5
<1>11. ASSUME InReview(q, r) PROVE InReview(p, s)
  <2>1. PICK t \in Reviews : t = r \/ \E i \in 1..n : q[i].turn = t /\ q[i].kind \in Leaves
    BY <1>11 DEF InReview, n
  <2>2. CASE t = r
    <3>1. CASE r = NoTurn
      BY <2>1, <2>2, <3>1, MessagesAssumption DEF MessagesAssumption
    <3>2. CASE r # NoTurn
      <4>1. s = r \/ (e.turn = r /\ e.kind \in Leaves)
        BY <2>1, <2>2, <3>2 DEF Reports
      <4> QED BY <1>1, <1>2, <2>1, <2>2, <4>1 DEF InReview
    <3> QED BY <3>1, <3>2
  <2>3. CASE \E i \in 1..n : q[i].turn = t /\ q[i].kind \in Leaves
    BY <1>1, <1>2, <2>1, <2>3 DEF InReview
  <2> QED BY <2>1, <2>2, <2>3
<1>12. ASSUME s # NoTurn, ~Awaits(p, "started", s)
       PROVE  /\ s = r /\ ~Awaits(q, "started", r)
              /\ ~Awaits(p, "entered", s) => ~Awaits(q, "entered", r)
  <2>1. e.kind # "started" \/ e.turn # s
    BY <1>1, <1>2, <1>12 DEF Awaits
  <2>2. s = r
    BY <1>4, <1>5, <1>6, <1>12, <2>1
  <2> QED BY <1>1, <1>2, <1>12, <2>2 DEF Awaits, n
<1>13. Grows(q, r, p, s, new)
  BY <1>7, <1>8, <1>9, <1>10, <1>11, <1>12, <1>14 DEF Grows
<1> QED BY <1>13 DEF p

\* A report keeps the order and what grows.
Step(q, r, p, s, new) == p \in Seq(Notice) /\ Ordered(p, s) /\ Grows(q, r, p, s, new)

\* Both together.
LEMMA ReportFacts ==
  ASSUME NEW q \in Seq(Notice), NEW r \in Turns, NEW e \in Notice, NEW s,
         Ordered(q, r), Reports(q, r, e, s), NEW new, e.kind = "started" => new = e.turn
  PROVE  Step(q, r, Append(q, e), s, new)
<1>1. Append(q, e) \in Seq(Notice)
  OBVIOUS
<1> QED BY <1>1, ReportKeepsOrder, ReportGrows DEF Step

\* A report that starts no turn leaves no review to be entered.
Entering(q) ==
  \A i \in 1..Len(q) : q[i].kind = "started" /\ q[i].turn \in Reviews =>
    \E j \in 1..Len(q) : i < j /\ q[j].kind = "entered" /\ q[j].turn = q[i].turn

\* An event more; a review enters right after its start.
LEMMA AppendEnters ==
  ASSUME NEW q \in Seq(Notice), NEW e \in Notice, Entering(q)
  PROVE  /\ e.kind # "started" \/ e.turn \notin Reviews => Entering(Append(q, e))
         /\ \A d \in Notice :
              e.kind = "started" /\ d.kind = "entered" /\ d.turn = e.turn =>
                Entering(Append(Append(q, e), d))
<1> DEFINE p == Append(q, e)
           n == Len(q)
<1>1. /\ p \in Seq(Notice) /\ n \in Nat /\ Len(p) = n + 1 /\ p[n + 1] = e
      /\ \A i \in 1..n : p[i] = q[i]
  OBVIOUS
<1> HIDE DEF p, n
<1>2. /\ 1..n \subseteq 1..(n + 1) /\ n + 1 \in 1..(n + 1)
      /\ \A i \in 1..(n + 1) : i \in 1..n \/ i = n + 1
  BY <1>1
<1>3. \A i \in 1..n : p[i].kind = "started" /\ p[i].turn \in Reviews =>
        \E j \in 1..(n + 1) : i < j /\ p[j].kind = "entered" /\ p[j].turn = p[i].turn
  BY <1>1, <1>2 DEF Entering, n
<1>4. ASSUME e.kind # "started" \/ e.turn \notin Reviews PROVE Entering(p)
  BY <1>1, <1>2, <1>3, <1>4 DEF Entering
<1>5. ASSUME NEW d \in Notice, e.kind = "started", d.kind = "entered", d.turn = e.turn
      PROVE  Entering(Append(p, d))
  <2> DEFINE u == Append(p, d)
  <2>1. /\ u \in Seq(Notice) /\ Len(u) = n + 2 /\ u[n + 2] = d
        /\ \A i \in 1..(n + 1) : u[i] = p[i]
    BY <1>1
  <2> HIDE DEF u
  <2>2. /\ 1..(n + 1) \subseteq 1..(n + 2) /\ n + 2 \in 1..(n + 2) /\ n + 1 < n + 2
        /\ \A i \in 1..(n + 2) : i \in 1..n \/ i = n + 1 \/ i = n + 2
    BY <1>1
  <2>3. ASSUME NEW i \in 1..(n + 2), u[i].kind = "started", u[i].turn \in Reviews
        PROVE  \E j \in 1..(n + 2) : i < j /\ u[j].kind = "entered" /\ u[j].turn = u[i].turn
    <3>1. CASE i \in 1..n
      BY <1>2, <1>3, <2>1, <2>2, <2>3, <3>1
    <3>2. CASE i = n + 1
      BY <1>1, <1>2, <1>5, <2>1, <2>2, <3>2
    <3>3. CASE i = n + 2
      BY <1>5, <2>1, <2>3, <3>3
    <3> QED BY <2>2, <3>1, <3>2, <3>3
  <2>4. Entering(u)
    BY <2>1, <2>3 DEF Entering
  <2> QED BY <2>4 DEF u
<1> QED BY <1>4, <1>5 DEF p

\* Sequences that grow by one or two events.
LEMMA LastFacts ==
  ASSUME NEW q \in Seq(Notice), NEW e \in Notice
  PROVE  /\ Append(q, e) \in Seq(Notice) /\ Append(q, e) # <<>>
         /\ Append(q, e)[Len(Append(q, e))] = e
         /\ q \o <<e>> = Append(q, e)
         /\ \A d \in Notice : q \o (<<e>> \o <<d>>) = Append(Append(q, e), d)
         /\ q \o (<<e>> \o <<>>) = Append(q, e)
<1>1. /\ Append(q, e) \in Seq(Notice) /\ Append(q, e) # <<>>
      /\ Append(q, e)[Len(Append(q, e))] = e
  OBVIOUS
<1>2. q \o <<e>> = Append(q, e)
  OBVIOUS
<1>3. ASSUME NEW d \in Notice PROVE q \o (<<e>> \o <<d>>) = Append(Append(q, e), d)
  OBVIOUS
<1>4. q \o (<<e>> \o <<>>) = Append(q, e)
  OBVIOUS
<1> QED BY <1>1, <1>2, <1>3, <1>4

\* Steps on end to end.
LEMMA StepsOn ==
  ASSUME NEW q, NEW r, NEW p, NEW s, NEW u, NEW v, NEW new,
         Step(q, r, p, s, new), Step(p, s, u, v, new)
  PROVE  Step(q, r, u, v, new)
BY GrowsOn DEF Step

\* The end of the turn that runs.
LEMMA ReportEnds ==
  ASSUME NEW q \in Seq(Notice), NEW r \in Turns, NEW kind \in Ends, NEW new,
         r # NoTurn, r \in Reviews => kind \in Leaves, Ordered(q, r), Entering(q)
  PROVE  /\ Step(q, r, Append(q, Event(kind, r)), NoTurn, new)
         /\ Whole(Append(q, Event(kind, r)))
         /\ Append(q, Event(kind, r))[Len(Append(q, Event(kind, r)))] = Event(kind, r)
<1> DEFINE e == Event(kind, r)
<1>1. e \in Notice /\ e.kind = kind /\ e.turn = r
  BY DEF Event, Notice, Ends
<1>2. kind \notin Going /\ kind # "started" /\ kind # "exited" /\ kind # "entered"
  BY DEF Ends, Going
<1> HIDE DEF e
<1>3. Reports(q, r, e, NoTurn)
  BY <1>1, <1>2 DEF Reports
<1>4. Step(q, r, Append(q, e), NoTurn, new)
  BY <1>1, <1>2, <1>3, ReportFacts
<1>5. Append(q, e)[Len(Append(q, e))] = e /\ Append(q, e) # <<>>
  BY <1>1, LastFacts
<1>6. Entering(Append(q, e))
  BY <1>1, <1>2, AppendEnters
<1>7. Whole(Append(q, e))
  BY <1>1, <1>2, <1>5, <1>6 DEF Whole, Entering
<1> QED BY <1>4, <1>5, <1>7 DEF e

\* A turn is stopped: a review exits, and the turn completes.
LEMMA StoppedFacts ==
  ASSUME NEW q \in Seq(Notice), NEW r \in Turns, NEW new,
         r # NoTurn, Ordered(q, r), Whole(q)
  PROVE  LET p == q \o Stopped(r)
         IN  /\ Step(q, r, p, NoTurn, new) /\ Whole(p)
             /\ p # <<>> /\ p[Len(p)] = Event("completed", r)
<1> DEFINE x == Event("exited", r)
           e == Event("completed", r)
           p == q \o Stopped(r)
<1>1. /\ x \in Notice /\ x.kind = "exited" /\ x.turn = r
      /\ e \in Notice /\ e.kind = "completed" /\ e.turn = r
  BY DEF Event, Notice
<1>2. Entering(q)
  BY DEF Whole, Entering
<1>3. Stopped(r) = IF r \in Reviews THEN <<x>> \o <<e>> ELSE <<>> \o <<e>>
  BY DEF Stopped
<1> HIDE DEF x, e
<1>4. CASE r \notin Reviews
  <2>1. p = Append(q, e)
    <3>1. <<>> \o <<e>> = <<e>>
      BY <1>1
    <3> QED BY <1>1, <1>3, <1>4, <3>1, LastFacts
  <2>2. /\ Step(q, r, Append(q, e), NoTurn, new) /\ Whole(Append(q, e))
        /\ Append(q, e)[Len(Append(q, e))] = e
    BY <1>2, <1>4, ReportEnds DEF e, Ends
  <2>3. Append(q, e) # <<>>
    BY <1>1, LastFacts
  <2> QED BY <2>1, <2>2, <2>3 DEF e
<1>5. CASE r \in Reviews
  <2> DEFINE u == Append(q, x)
             w == Append(u, e)
  <2>1. p = w /\ u \in Seq(Notice) /\ u # <<>> /\ u[Len(u)] = x
    <3>1. \A d \in Notice : q \o (<<x>> \o <<d>>) = Append(Append(q, x), d)
      BY <1>1, LastFacts
    <3>2. q \o (<<x>> \o <<e>>) = w
      BY <1>1, <3>1
    <3>3. p = w
      BY <1>3, <1>5, <3>2
    <3> QED BY <1>1, <3>3, LastFacts
  <2>2. Reports(q, r, x, NoTurn)
    BY <1>1 DEF Reports, Going, Leaves
  <2>3. Step(q, r, u, NoTurn, new)
    BY <1>1, <2>2, ReportFacts
  <2>4. Entering(u)
    BY <1>1, <1>2, AppendEnters
  <2> HIDE DEF u
  <2>5. Reports(u, NoTurn, e, NoTurn)
    BY <1>1, <2>1 DEF Reports, Going, Ends
  <2>6. NoTurn \in Turns /\ Ordered(u, NoTurn)
    BY <2>3 DEF Turns, Step
  <2>7. Step(u, NoTurn, w, NoTurn, new)
    BY <1>1, <2>1, <2>5, <2>6, ReportFacts
  <2>8. Step(q, r, w, NoTurn, new)
    BY <2>3, <2>7, StepsOn
  <2>9. w[Len(w)] = e /\ w # <<>>
    BY <1>1, <2>1, LastFacts
  <2>10. Entering(w)
    BY <1>1, <2>1, <2>4, AppendEnters
  <2>11. Whole(w)
    BY <1>1, <2>9, <2>10 DEF Whole, Entering
  <2> QED BY <2>1, <2>8, <2>9, <2>11 DEF e
<1> QED BY <1>4, <1>5

\* Whatever ends a turn, and the end may be reported twice.
LEMMA EndedFacts ==
  ASSUME NEW q \in Seq(Notice), NEW r \in Turns, NEW new, NEW ending \in Ended(r),
         r # NoTurn, Ordered(q, r), Whole(q)
  PROVE  /\ Step(q, r, q \o ending, NoTurn, new) /\ Whole(q \o ending)
         /\ Step(q, r, q \o ending \o <<Event("idle", r)>>, NoTurn, new)
         /\ Whole(q \o ending \o <<Event("idle", r)>>)
<1> DEFINE p == q \o ending
           i == Event("idle", r)
<1>1. PICK kind \in Ends :
        /\ Step(q, r, p, NoTurn, new) /\ Whole(p) /\ p # <<>> /\ p[Len(p)] = Event(kind, r)
  <2>1. CASE ending = Stopped(r)
    BY <2>1, StoppedFacts DEF Ends
  <2>2. CASE ending # Stopped(r)
    <3>1. PICK kind \in IF r \in Reviews THEN {"error", "closed"} ELSE {"idle"} :
            ending = <<Event(kind, r)>>
      BY <2>2 DEF Ended
    <3>2. kind \in Ends /\ (r \in Reviews => kind \in Leaves)
      BY <3>1 DEF Ends, Leaves
    <3>3. Event(kind, r) \in Notice
      BY <3>2 DEF Event, Notice, Ends
    <3>4. p = Append(q, Event(kind, r)) /\ p # <<>>
      BY <3>1, <3>3, LastFacts
    <3>5. Entering(q)
      BY DEF Whole, Entering
    <3> QED BY <3>2, <3>4, <3>5, ReportEnds
  <2> QED BY <2>1, <2>2
<1>2. i \in Notice /\ i.kind = "idle" /\ i.turn = r /\ NoTurn \in Turns
  BY DEF Event, Notice, Turns
<1>3. p \in Seq(Notice) /\ Ordered(p, NoTurn) /\ Entering(p)
  BY <1>1 DEF Step, Whole, Entering
<1>4. Event(kind, r).kind = kind /\ Event(kind, r).turn = r
  BY DEF Event
<1> HIDE DEF p, i
<1>5. Reports(p, NoTurn, i, NoTurn)
  BY <1>1, <1>2, <1>4 DEF Reports, Going, Ends
<1>6. Step(p, NoTurn, Append(p, i), NoTurn, new)
  BY <1>2, <1>3, <1>5, ReportFacts
<1>7. Append(p, i)[Len(Append(p, i))] = i /\ p \o <<i>> = Append(p, i)
  BY <1>2, <1>3, LastFacts
<1>8. Entering(Append(p, i))
  BY <1>2, <1>3, AppendEnters
<1>9. Whole(Append(p, i))
  BY <1>2, <1>7, <1>8 DEF Whole, Entering
<1>10. Step(q, r, Append(p, i), NoTurn, new)
  BY <1>1, <1>6, StepsOn
<1> QED BY <1>1, <1>7, <1>9, <1>10 DEF p, i

\* A turn starts when none runs.
LEMMA BegunFacts ==
  ASSUME NEW q \in Seq(Notice), NEW m \in Messages,
         Ordered(q, NoTurn), Whole(q), \A i \in 1..Len(q) : q[i].turn # m, m # NoTurn
  PROVE  Step(q, NoTurn, q \o Begun(m), m, m) /\ Whole(q \o Begun(m))
<1> DEFINE x == Event("started", m)
           e == Event("entered", m)
           u == Append(q, x)
           w == Append(u, e)
<1>1. /\ x \in Notice /\ x.kind = "started" /\ x.turn = m
      /\ e \in Notice /\ e.kind = "entered" /\ e.turn = m
      /\ NoTurn \in Turns /\ m \in Turns
  BY DEF Event, Notice, Turns
<1>2. Begun(m) = IF m \in Reviews THEN <<x>> \o <<e>> ELSE <<x>> \o <<>>
  BY DEF Begun
<1> HIDE DEF x, e
<1>3. u \in Seq(Notice) /\ u # <<>> /\ u[Len(u)] = x
  BY <1>1, LastFacts
<1>4. q # <<>> => q[Len(q)].kind \in Ends
  <2>1. ASSUME q # <<>> PROVE q[Len(q)].kind \in Ends
    <3>1. Len(q) \in 1..Len(q) /\ q[Len(q)] \in Notice
      BY <2>1
    <3>2. q[Len(q)].turn # NoTurn /\ q[Len(q)].kind # "exited"
      BY <2>1, <3>1 DEF Ordered, Whole
    <3>3. q[Len(q)].kind \notin Going
      BY <2>1, <3>2 DEF Ordered
    <3> QED BY <3>1, <3>2, <3>3 DEF Notice, Going, Ends
  <2> QED BY <2>1
<1>5. Reports(q, NoTurn, x, m)
  BY <1>1, <1>4 DEF Reports
<1>6. Step(q, NoTurn, u, m, m)
  BY <1>1, <1>5, ReportFacts
<1>7. Entering(q)
  BY DEF Whole, Entering
<1>8. CASE m \notin Reviews
  <2>1. q \o Begun(m) = u
    BY <1>1, <1>2, <1>8, LastFacts
  <2>2. Entering(u)
    BY <1>1, <1>7, <1>8, AppendEnters
  <2>3. Whole(u)
    BY <1>1, <1>3, <2>2 DEF Whole, Entering
  <2> QED BY <1>6, <2>1, <2>3
<1>9. CASE m \in Reviews
  <2>1. q \o Begun(m) = w
    <3>1. \A d \in Notice : q \o (<<x>> \o <<d>>) = Append(Append(q, x), d)
      BY <1>1, LastFacts
    <3>2. q \o (<<x>> \o <<e>>) = w
      BY <1>1, <3>1
    <3> QED BY <1>2, <1>9, <3>2
  <2>2. Entering(w)
    BY <1>1, <1>7, AppendEnters
  <2>3. Ordered(u, m)
    BY <1>6 DEF Step
  <2> HIDE DEF u
  <2>4. Reports(u, m, e, m)
    BY <1>1, <1>9 DEF Reports, Going
  <2>5. Step(u, m, w, m, m)
    BY <1>1, <1>3, <2>3, <2>4, ReportFacts
  <2>6. Step(q, NoTurn, w, m, m)
    BY <1>6, <2>5, StepsOn
  <2>7. w[Len(w)] = e /\ w # <<>>
    BY <1>1, <1>3, LastFacts
  <2>8. Whole(w)
    BY <1>1, <2>2, <2>7 DEF Whole, Entering
  <2> QED BY <2>1, <2>6, <2>8
<1> QED BY <1>8, <1>9

\* An item of the turn that runs.
LEMMA ItemFacts ==
  ASSUME NEW q \in Seq(Notice), NEW r \in Turns, NEW new,
         r # NoTurn, Ordered(q, r), Whole(q)
  PROVE  Step(q, r, Append(q, Event("item", r)), r, new) /\ Whole(Append(q, Event("item", r)))
<1> DEFINE e == Event("item", r)
<1>1. e \in Notice /\ e.kind = "item" /\ e.turn = r
  BY DEF Event, Notice
<1> HIDE DEF e
<1>2. Reports(q, r, e, r)
  BY <1>1 DEF Reports, Going
<1>3. Step(q, r, Append(q, e), r, new)
  BY <1>1, <1>2, ReportFacts
<1>4. Append(q, e)[Len(Append(q, e))] = e
  BY <1>1, LastFacts
<1>5. Entering(Append(q, e))
  <2>1. Entering(q)
    BY DEF Whole, Entering
  <2> QED BY <1>1, <2>1, AppendEnters
<1>6. Whole(Append(q, e))
  BY <1>1, <1>4, <1>5 DEF Whole, Entering
<1> QED BY <1>3, <1>6 DEF e

---------------------------------------------------------------------------
(* The cache *)

\* What is always so of a cache: a turn it does not stand for is that of a render.
Sane(r) ==
  /\ ~r.optimistic => r.immediate \in {r.last, NoTurn, Unset}
  /\ r.optimistic => r.immediate \notin {NoTurn, Unset}

\* The turn it gives when the last render shows turn t.
LatestOf(r, t) ==
  IF r.immediate = Unset THEN t
  ELSE IF r.optimistic /\ t # r.immediate /\ (r.last = Unset \/ t = r.last) THEN r.immediate
  ELSE IF r.optimistic \/ r.last # t THEN t
  ELSE r.immediate

\* It is what the handlers read,
LEMMA LatestIs ==
  ASSUME refs \in Cache
  PROVE  LatestKnownTurn = LatestOf(refs, rendered.turn)
BY DEF LatestKnownTurn, LatestOf, Refreshed, Cache

\* now and after a step.
LEMMA LatestIsThen ==
  ASSUME refs' \in Cache
  PROVE  LatestKnownTurn' = LatestOf(refs', rendered'.turn)
BY DEF LatestKnownTurn, LatestOf, Refreshed, Cache

\* It is the turn shown, none, or the one the cache stands for.
LEMMA LatestFacts ==
  ASSUME NEW r \in Cache, NEW t \in Turns, Sane(r)
  PROVE  LatestOf(r, t) \in {t, NoTurn} \/ (r.optimistic /\ LatestOf(r, t) = r.immediate)
BY DEF LatestOf, Sane

\* Handling an end reads the cache and may settle it.
LEMMA RefreshedFacts ==
  ASSUME refs \in Cache, rendered.turn \in Turns, Sane(refs)
  PROVE  /\ Sane(Refreshed) /\ Refreshed \in Cache
         /\ LatestOf(Refreshed, rendered.turn) = LatestOf(refs, rendered.turn)
         /\ Refreshed.optimistic =>
              /\ refs.optimistic /\ Refreshed.immediate = refs.immediate
              /\ LatestOf(refs, rendered.turn) = refs.immediate
         /\ Refreshed.immediate \in {refs.immediate, rendered.turn}
BY DEF Refreshed, Sane, LatestOf, Cache

\* And a turn that is over resets it.
LEMMA ResetFacts ==
  ASSUME NEW r \in Cache
  PROVE  /\ Sane(ResetRefs(r)) /\ ResetRefs(r) \in Cache
         /\ ~ResetRefs(r).optimistic /\ ResetRefs(r).immediate = NoTurn
<1>1. NoTurn \in Turns
  BY DEF Turns
<1> QED BY <1>1 DEF ResetRefs, Cache, Sane

---------------------------------------------------------------------------
(* The view of the turn, as long as nothing is refreshed, fails or is late *)

Smooth == Undisturbed({"refresh", "failure", "late"})

TurnModes == {"start", "steer", "review"}

\* A call of a turn names it, and once it is answered its turn runs.
Shaped ==
  \A c \in calls :
    /\ c.mode \in {"start", "review"} => c.turn = c.msg
    /\ c.mode = "review" => c.msg \in Reviews
    /\ c.mode = "steer" => c.turn # NoTurn
    /\ c.mode # "refresh" /\ c.answer # "failed"
    /\ c.mode \in TurnModes /\ c.answer = "ok" => running = c.turn

Paced == Ordered(events, running) /\ Whole(events)

Live(t) == LiveIn(events, running, t)

\* Every turn the client has met was started.
Heard(t) == t \in Messages => reached[t] > 0
Met == /\ Heard(state.turn) /\ Heard(rendered.turn) /\ Heard(refs.immediate)
       /\ \A t : Live(t) => Heard(t)

\* The cache stands for the turn whose events are being handled.
Cached ==
  Sane(refs) /\ (refs.optimistic => refs.immediate = CurrentIn(events, running))

\* The thread shows a turn that runs or whose end will be handled; where an end is
\* to be told from that of another turn, the cache gives such a turn too, and
\* not a later one.
Tracked ==
  /\ state.turn = NoTurn \/ Live(state.turn)
  /\ pending \/ OpenIn(events, running) => LatestKnownTurn = NoTurn \/ Live(LatestKnownTurn)
  /\ state.turn # NoTurn => ~AfterIn(events, running, LatestKnownTurn, state.turn)

\* The spinner turns for a turn, or for a call that will be one.
Working == \E c \in calls : c.mode \in TurnModes /\ c.answer \in {"awaited", "ok", "stale"}
Spins == state.processing => Working \/ \E t : Live(t)

\* All of it.
Flow == Paced /\ Shaped /\ Met /\ Cached /\ Tracked /\ Spins

\* The turn whose events are being handled is the earliest of all.
LEMMA CurrentFacts ==
  ASSUME NEW q \in Seq(Notice), NEW r \in Turns, Ordered(q, r), CurrentIn(q, r) # NoTurn
  PROVE  LiveIn(q, r, CurrentIn(q, r)) /\ \A t : ~AfterIn(q, r, CurrentIn(q, r), t)
<1> DEFINE b == CurrentIn(q, r)
           n == Len(q)
<1>1. /\ n \in Nat /\ (q # <<>> <=> n # 0) /\ (q # <<>> => Head(q) = q[1] /\ 1 \in 1..n)
  OBVIOUS
<1>2. IF n = 0 THEN b = r ELSE b = q[1].turn
  BY <1>1 DEF CurrentIn
<1>3. LiveIn(q, r, b)
  BY <1>1, <1>2 DEF LiveIn
<1>4. ASSUME NEW t, AfterIn(q, r, b, t) PROVE FALSE
  <2>1. PICK i \in 1..n : q[i].turn = t /\ (b = r \/ \E j \in 1..n : i < j /\ q[j].turn = b)
    BY <1>4 DEF AfterIn
  <2>2. b # t /\ b = q[1].turn /\ 1 \in 1..n /\ n \in 1..n
    BY <1>1, <1>2, <1>4, <2>1 DEF AfterIn
  <2>3. 1 < i
    BY <1>1, <2>1, <2>2
  <2>4. ASSUME NEW j \in 1..n, i < j, q[j].turn = b PROVE FALSE
    BY <2>1, <2>2, <2>3, <2>4 DEF Ordered
  <2>5. CASE b = r
    <3>1. q[n].turn = b
      BY <1>1, <2>2, <2>5 DEF Ordered
    <3>2. i = n \/ i < n
      BY <1>1
    <3> QED BY <2>1, <2>2, <2>4, <3>1, <3>2
  <2> QED BY <2>1, <2>4, <2>5
<1> QED BY <1>3, <1>4

\* No turn comes after the one that runs.
LEMMA RunningIsLast ==
  ASSUME NEW q \in Seq(Notice), NEW r \in Turns, Ordered(q, r), r # NoTurn
  PROVE  \A b : ~AfterIn(q, r, b, r)
<1> DEFINE n == Len(q)
<1>1. ASSUME NEW b, AfterIn(q, r, b, r) PROVE FALSE
  <2>1. b # r
    BY <1>1 DEF AfterIn
  <2>2. PICK i \in 1..n, j \in 1..n : q[i].turn = r /\ i < j /\ q[j].turn = b
    BY <1>1, <2>1 DEF AfterIn
  <2>3. n \in 1..n /\ q[n].turn = r /\ n \in Nat
    <3>1. q # <<>> /\ n \in Nat
      BY <2>2
    <3> QED BY <3>1, <2>2 DEF Ordered
  <2>4. j = n \/ j < n
    BY <2>3
  <2> QED BY <2>1, <2>2, <2>3, <2>4 DEF Ordered
<1> QED BY <1>1

\* What the cache gives is a turn that was met.
LEMMA LatestIsMet ==
  ASSUME Types, Met, Cached
  PROVE  Heard(LatestKnownTurn)
<1>1. refs \in Cache /\ rendered.turn \in Turns
  BY DEF Types, Thread
<1>2. LatestKnownTurn \in {rendered.turn, NoTurn, refs.immediate}
  BY <1>1, LatestIs, LatestFacts DEF Cached
<1>3. NoTurn \notin Messages
  BY MessagesAssumption DEF MessagesAssumption
<1> QED BY <1>2, <1>3 DEF Met, Heard

\* A step that leaves the events, the cache and what was rendered.
LEMMA ThreadKeeps ==
  ASSUME Types, Types', Flow, UNCHANGED <<refs, running, events, reached>>,
         rendered'.turn = rendered.turn,
         \/ state'.turn \in {state.turn, NoTurn}
         \/ running # NoTurn /\ state'.turn = running,
         pending' => pending \/ rendered.turn = NoTurn,
         Shaped', Spins'
  PROVE  Flow'
<1>1. /\ refs \in Cache /\ rendered.turn \in Turns /\ NoTurn \notin Messages
      /\ events \in Seq(Notice) /\ running \in Turns
  BY MessagesAssumption DEF Types, Thread, MessagesAssumption
<1>2. LatestKnownTurn' = LatestKnownTurn
  <2>1. refs' \in Cache
    BY <1>1
  <2> QED BY <1>1, <2>1, LatestIs, LatestIsThen
<1>3. \A t : Live(t)' <=> Live(t)
  BY DEF Live
<1>4. Paced' /\ Cached'
  BY DEF Flow, Paced, Cached
<1>5. Live(running) \/ running = NoTurn
  BY DEF Live, LiveIn
<1>6. Met'
  <2>1. Heard(state'.turn)
    BY <1>1, <1>5 DEF Flow, Met, Heard
  <2> QED BY <1>3, <2>1 DEF Flow, Met, Heard
<1>7. Tracked'
  <2>1. state'.turn = NoTurn \/ Live(state'.turn)
    BY <1>5 DEF Flow, Tracked
  <2>2. rendered.turn = NoTurn => LatestKnownTurn = NoTurn \/ Live(LatestKnownTurn)
    <3>1. LatestKnownTurn \in {rendered.turn, NoTurn} \/ (refs.optimistic /\ LatestKnownTurn = refs.immediate)
      BY <1>1, LatestIs, LatestFacts DEF Flow, Cached
    <3>2. refs.optimistic => Live(refs.immediate)
      <4>1. refs.optimistic => refs.immediate = CurrentIn(events, running) /\ refs.immediate # NoTurn
        BY DEF Flow, Cached, Sane
      <4> QED BY <1>1, <4>1, CurrentFacts DEF Flow, Paced, Live
    <3> QED BY <3>1, <3>2
  <2>3. state'.turn # NoTurn => ~AfterIn(events, running, LatestKnownTurn, state'.turn)
    BY <1>1, RunningIsLast DEF Flow, Paced, Tracked
  <2>4. (pending \/ OpenIn(events, running) => LatestKnownTurn = NoTurn \/ Live(LatestKnownTurn))'
    BY <1>2, <1>3, <2>2 DEF Flow, Tracked
  <2> QED BY <1>2, <1>3, <2>1, <2>3, <2>4 DEF Tracked
<1> QED BY <1>4, <1>6, <1>7 DEF Flow

\* A render.
LEMMA RenderKeeps ==
  ASSUME Types, Types', Flow, Render
  PROVE  Flow'
<1>1. /\ refs \in Cache /\ state.turn \in Turns /\ NoTurn \notin Messages
      /\ events \in Seq(Notice) /\ running \in Turns
      /\ rendered' = state
      /\ UNCHANGED <<state, refs, pending, calls, running, events, reached>>
  BY MessagesAssumption DEF Types, Thread, MessagesAssumption, Render
<1>2. LatestKnownTurn' = LatestOf(refs, state.turn)
  BY <1>1, LatestIsThen
<1>3. \A t : Live(t)' <=> Live(t)
  BY <1>1 DEF Live
<1>4. Paced' /\ Cached' /\ Shaped'
  BY <1>1 DEF Flow, Paced, Cached, Shaped
<1>5. Met'
  BY <1>1, <1>3 DEF Flow, Met, Heard
<1>6. Spins'
  BY <1>1, <1>3 DEF Flow, Spins, Working
<1>7. \/ LatestOf(refs, state.turn) \in {state.turn, NoTurn}
      \/ /\ LatestOf(refs, state.turn) = CurrentIn(events, running)
         /\ CurrentIn(events, running) # NoTurn
  BY <1>1, LatestFacts DEF Flow, Cached, Sane
<1>8. Tracked'
  <2> DEFINE b == LatestOf(refs, state.turn)
  <2>1. state.turn = NoTurn \/ Live(state.turn)
    BY DEF Flow, Tracked
  <2>2. b = CurrentIn(events, running) /\ b # NoTurn =>
          Live(b) /\ ~AfterIn(events, running, b, state.turn)
    BY <1>1, CurrentFacts DEF Flow, Paced, Live
  <2>3. b \in {state.turn, NoTurn} => ~AfterIn(events, running, b, state.turn)
    BY DEF AfterIn
  <2> HIDE DEF b
  <2>4. b = NoTurn \/ Live(b)
    BY <1>7, <2>1, <2>2 DEF b
  <2>5. ~AfterIn(events, running, b, state.turn)
    BY <1>7, <2>2, <2>3 DEF b
  <2> QED BY <1>1, <1>2, <1>3, <2>1, <2>4, <2>5 DEF Tracked, b
<1> QED BY <1>4, <1>5, <1>6, <1>8 DEF Flow

\* What the app-server reports.
Reported == \E new : Step(events, running, events', running', new)

\* Reports of the app-server, and the calls they answer.
LEMMA ReportsKeep ==
  ASSUME Types, Types', Flow, UNCHANGED <<state, rendered, refs, pending>>,
         NEW new, new = NoTurn \/ (new \in Messages /\ reached[new] = 0 /\ reached'[new] > 0),
         \A m \in Messages : reached[m] > 0 => reached'[m] > 0,
         Step(events, running, events', running', new), Whole(events'),
         Shaped', Working => Working'
  PROVE  Flow' /\ Reported
<1>1. /\ refs \in Cache /\ NoTurn \notin Messages /\ rendered.turn \in Turns /\ state.turn \in Turns
      /\ Grows(events, running, events', running', new)
  BY MessagesAssumption DEF Types, Thread, MessagesAssumption, Step
<1>2. LatestKnownTurn' = LatestKnownTurn
  <2>1. refs' \in Cache
    BY <1>1
  <2> QED BY <1>1, <2>1, LatestIs, LatestIsThen
<1>3. /\ \A t : Live(t) => Live(t)'
      /\ \A t : Live(t)' => Live(t) \/ t = new
  BY <1>1 DEF Live, Grows
<1>4. Paced'
  BY DEF Paced, Step
<1>5. Cached'
  <2>1. refs.optimistic => CurrentIn(events, running) = refs.immediate /\ refs.immediate # NoTurn
    BY DEF Flow, Cached, Sane
  <2>2. CurrentIn(events, running) # NoTurn => CurrentIn(events', running') = CurrentIn(events, running)
    BY <1>1 DEF Grows
  <2> QED BY <2>1, <2>2 DEF Flow, Cached
<1>6. \A t : (Heard(t) => Heard(t)') /\ Heard(new)'
  BY <1>1 DEF Heard
<1>7. Met'
  <2>1. \A t : Live(t)' => Heard(t)'
    BY <1>3, <1>6 DEF Flow, Met
  <2>2. Heard(state.turn)' /\ Heard(rendered.turn)' /\ Heard(refs.immediate)'
    BY <1>6 DEF Flow, Met, Heard
  <2> QED BY <2>1, <2>2 DEF Met
<1>8. \A t \in Turns : Heard(t) /\ t # NoTurn => t # new
  BY DEF Heard, Turns
<1>9. LatestKnownTurn \in Turns /\ Heard(LatestKnownTurn)
  <2>1. Heard(LatestKnownTurn)
    BY LatestIsMet DEF Flow
  <2>2. LatestOf(refs, rendered.turn) \in Turns
    <3>1. refs.immediate \in Turns \cup {Unset} /\ NoTurn \in Turns
      BY <1>1 DEF Cache, Turns
    <3>2. refs.immediate = Unset => ~refs.optimistic
      BY DEF Flow, Cached, Sane
    <3> QED BY <1>1, <3>1, <3>2, LatestFacts DEF Flow, Cached
  <2> QED BY <1>1, <2>1, <2>2, LatestIs
<1>10. Tracked'
  <2>1. OpenIn(events', running') => OpenIn(events, running)
    BY <1>1 DEF Grows
  <2>2. ASSUME state.turn # NoTurn, AfterIn(events', running', LatestKnownTurn, state.turn)
        PROVE  FALSE
    <3>1. state.turn # new /\ LatestKnownTurn # new
      <4>1. Heard(state.turn) /\ LatestKnownTurn # NoTurn
        BY <2>2 DEF Flow, Met, AfterIn
      <4> QED BY <1>1, <1>8, <1>9, <2>2, <4>1
    <3>2. AfterIn(events, running, LatestKnownTurn, state.turn)
      BY <1>1, <2>2, <3>1 DEF Grows
    <3> QED BY <2>2, <3>2 DEF Flow, Tracked
  <2> QED BY <1>2, <1>3, <2>1, <2>2 DEF Flow, Tracked
<1>11. Spins'
  BY <1>3 DEF Flow, Spins
<1>12. Reported
  BY DEF Reported
<1> QED BY <1>4, <1>5, <1>7, <1>10, <1>11, <1>12 DEF Flow

\* What handling an event does to the stream, whichever it is.
LEMMA HandledFacts ==
  ASSUME Types, Types', Flow, events # <<>>, events' = Tail(events),
         UNCHANGED <<rendered, calls, running, reached>>
  PROVE  /\ Paced' /\ Shaped'
         /\ Head(events).turn \in Messages /\ Heard(Head(events).turn)
         /\ Live(Head(events).turn)
         /\ \A t : Live(t) /\ t # Head(events).turn => LiveIn(events', running, t)
         /\ \A t : LiveIn(events', running, t) => Live(t) /\ Heard(t)'
         /\ Head(events).kind \notin Ends =>
              /\ LiveIn(events', running, Head(events).turn)
              /\ CurrentIn(events', running) = Head(events).turn
         /\ Head(events).kind \in Ends => ~OpenIn(events', running)
         /\ \A b, t : AfterIn(events', running, b, t) => AfterIn(events, running, b, t)
         /\ \A b : Live(b) /\ b # Head(events).turn =>
              AfterIn(events, running, b, Head(events).turn)
<1>1. /\ events \in Seq(Notice) /\ running \in Turns /\ Ordered(events, running) /\ Whole(events)
  BY DEF Types, Flow, Paced
<1>2. /\ Tail(events) \in Seq(Notice) /\ Head(events) \in Notice /\ Head(events).turn # NoTurn
      /\ Whole(Tail(events))
      /\ \A t : LiveIn(events, running, t) /\ t # Head(events).turn => LiveIn(Tail(events), running, t)
      /\ \A t : LiveIn(Tail(events), running, t) => LiveIn(events, running, t)
  BY <1>1, HandlingFacts
<1>3. /\ Head(events).kind \notin Ends =>
           /\ LiveIn(Tail(events), running, Head(events).turn)
           /\ CurrentIn(Tail(events), running) = Head(events).turn
      /\ Head(events).kind \in Ends => ~OpenIn(Tail(events), running)
      /\ \A b, t : AfterIn(Tail(events), running, b, t) => AfterIn(events, running, b, t)
      /\ \A b : LiveIn(events, running, b) /\ b # Head(events).turn =>
           AfterIn(events, running, b, Head(events).turn)
  BY <1>1, HandlingFacts
<1>4. Ordered(Tail(events), running)
  BY <1>1, TailKeepsOrder
<1>5. Paced' /\ Shaped'
  BY <1>2, <1>4 DEF Flow, Paced, Shaped
<1>7. Head(events).turn \in Messages /\ Live(Head(events).turn)
  <2>1. events[1] = Head(events) /\ 1 \in 1..Len(events)
    BY <1>1
  <2> QED BY <1>2, <2>1 DEF Notice, Turns, Live, LiveIn
<1>8. \A t : Live(t) => Heard(t) /\ Heard(t)'
  BY DEF Flow, Met, Heard
<1> QED BY <1>2, <1>3, <1>5, <1>7, <1>8 DEF Live

\* An end that is taken for one of the active turn.
LEMMA EndKeeps ==
  ASSUME Types, Types', Flow, events # <<>>, events' = Tail(events),
         UNCHANGED <<rendered, calls, running, reached>>,
         Head(events).kind \in Ends, ~pending', state'.turn = NoTurn, ~state'.processing,
         NEW r \in Cache, refs' = ResetRefs(r)
  PROVE  Flow'
<1>1. /\ Paced' /\ Shaped' /\ ~OpenIn(events', running)
      /\ \A t : Live(t)' => Live(t) /\ Heard(t)'
  BY HandledFacts DEF Live
<1>2. Sane(refs') /\ ~refs'.optimistic /\ refs'.immediate = NoTurn /\ NoTurn \notin Messages
  BY ResetFacts, MessagesAssumption DEF MessagesAssumption
<1>3. Cached'
  BY <1>2 DEF Cached, Sane
<1>4. Met'
  BY <1>1, <1>2 DEF Flow, Met, Heard
<1>5. Tracked'
  BY <1>1 DEF Tracked
<1>6. Spins'
  BY DEF Spins
<1> QED BY <1>1, <1>3, <1>4, <1>5, <1>6 DEF Flow

\* An end that is taken for one of another turn.
LEMMA IgnoredKeeps ==
  ASSUME Types, Types', Flow, events # <<>>, events' = Tail(events),
         UNCHANGED <<rendered, calls, running, reached, state, pending>>,
         Head(events).kind \in {"completed", "error"}, ~Concerns(Head(events).turn),
         refs' = Refreshed
  PROVE  Flow'
<1>20. PICK x, b : x = Head(events).turn /\ b = LatestKnownTurn
  OBVIOUS
<1>1. /\ Paced' /\ Shaped' /\ x \in Messages /\ x # NoTurn
      /\ \A t : Live(t) /\ t # x => Live(t)'
      /\ \A t : Live(t)' => Live(t) /\ Heard(t)'
      /\ \A d, t : AfterIn(events', running, d, t) => AfterIn(events, running, d, t)
      /\ \A d : Live(d) /\ d # x => AfterIn(events, running, d, x)
  BY <1>20, HandledFacts, MessagesAssumption DEF MessagesAssumption, Live
<1>2. refs \in Cache /\ rendered.turn \in Turns /\ Sane(refs)
  BY DEF Types, Thread, Flow, Cached
<1>3. /\ Sane(Refreshed) /\ Refreshed \in Cache
      /\ LatestOf(Refreshed, rendered.turn) = LatestOf(refs, rendered.turn)
      /\ Refreshed.optimistic => refs.optimistic /\ LatestOf(refs, rendered.turn) = refs.immediate
      /\ Refreshed.immediate \in {refs.immediate, rendered.turn}
  BY <1>2, RefreshedFacts
<1>4. b = LatestOf(refs, rendered.turn)
  BY <1>2, <1>20, LatestIs
<1>5. LatestKnownTurn' = b
  BY <1>3, <1>4, LatestIsThen
<1>6. b # NoTurn /\ b # x
  BY <1>20 DEF Concerns
<1>7. Live(b) /\ Live(b)'
  BY <1>1, <1>6, <1>20 DEF Flow, Tracked, OpenIn
<1>8. Cached'
  <2>1. CurrentIn(events, running) = x
    BY <1>20 DEF CurrentIn
  <2>2. ~refs'.optimistic
    BY <1>3, <1>4, <1>6, <2>1 DEF Flow, Cached
  <2> QED BY <1>3, <2>2 DEF Cached
<1>9. Met'
  BY <1>1, <1>3 DEF Flow, Met, Heard
<1>10. Tracked'
  <2>1. state.turn # x
    BY <1>1, <1>6, <1>7, <1>20 DEF Flow, Tracked
  <2>2. state.turn = NoTurn \/ Live(state.turn)'
    BY <1>1, <2>1 DEF Flow, Tracked
  <2>3. state.turn # NoTurn => ~AfterIn(events', running, b, state.turn)
    BY <1>1, <1>20 DEF Flow, Tracked
  <2> QED BY <1>5, <1>7, <2>2, <2>3 DEF Tracked
<1>11. Spins'
  BY <1>7 DEF Spins
<1> QED BY <1>1, <1>8, <1>9, <1>10, <1>11 DEF Flow

\* An event of a turn that goes on, or the start of one that is interrupted at once.
LEMMA GoingKeeps ==
  ASSUME Types, Types', Flow, events # <<>>, events' = Tail(events),
         UNCHANGED <<rendered, calls, running, reached, refs>>,
         Head(events).kind \notin Ends, state'.turn = state.turn,
         pending' => pending, pending \/ Head(events).kind # "started"
  PROVE  Flow'
<1>20. PICK x, b : x = Head(events).turn /\ b = LatestKnownTurn
  OBVIOUS
<1>1. /\ Paced' /\ Shaped' /\ x \in Messages /\ x # NoTurn /\ Live(x)'
      /\ \A t : Live(t) /\ t # x => Live(t)'
      /\ \A t : Live(t)' => Live(t) /\ Heard(t)'
      /\ \A d, t : AfterIn(events', running, d, t) => AfterIn(events, running, d, t)
      /\ CurrentIn(events', running) = x
  BY <1>20, HandledFacts, MessagesAssumption DEF MessagesAssumption, Live
<1>2. refs \in Cache /\ rendered.turn \in Turns /\ Sane(refs)
  BY DEF Types, Thread, Flow, Cached
<1>3. LatestKnownTurn' = b
  BY <1>2, <1>20, LatestIs, LatestIsThen
<1>4. b = NoTurn \/ Live(b)
  <2>1. pending \/ OpenIn(events, running)
    BY DEF OpenIn, Ends
  <2> QED BY <1>20, <2>1 DEF Flow, Tracked
<1>5. \A t : Live(t) => Live(t)'
  BY <1>1
<1>6. Cached'
  <2>1. refs.optimistic => CurrentIn(events, running) = refs.immediate /\ refs.immediate # NoTurn
    BY DEF Flow, Cached, Sane
  <2>2. CurrentIn(events, running) \in {x, NoTurn}
    BY <1>20 DEF CurrentIn
  <2> QED BY <1>1, <1>2, <2>1, <2>2 DEF Cached
<1>7. Met'
  BY <1>1 DEF Flow, Met, Heard
<1>8. Tracked'
  <2>1. state.turn = NoTurn \/ Live(state.turn)'
    BY <1>5 DEF Flow, Tracked
  <2>2. state.turn # NoTurn => ~AfterIn(events', running, b, state.turn)
    BY <1>1, <1>20 DEF Flow, Tracked
  <2>3. b = NoTurn \/ Live(b)'
    BY <1>4, <1>5
  <2> QED BY <1>3, <2>1, <2>2, <2>3 DEF Tracked
<1>9. Spins'
  BY <1>1 DEF Spins
<1> QED BY <1>1, <1>6, <1>7, <1>8, <1>9 DEF Flow

\* The start of a turn.
LEMMA StartKeeps ==
  ASSUME Types, Types', Flow, events # <<>>, events' = Tail(events),
         UNCHANGED <<rendered, calls, running, reached, pending>>,
         Head(events).kind = "started", state'.turn = Head(events).turn,
         refs' = [last |-> rendered.turn, immediate |-> Head(events).turn, optimistic |-> TRUE]
  PROVE  Flow'
<1>20. PICK x : x = Head(events).turn
  OBVIOUS
<1>1. /\ Paced' /\ Shaped' /\ x \in Messages /\ x # NoTurn /\ x # Unset /\ Live(x)' /\ Heard(x)
      /\ \A t : Live(t)' => Heard(t)'
      /\ CurrentIn(events', running) = x
  BY <1>20, HandledFacts, MessagesAssumption DEF MessagesAssumption, Ends, Live
<1>2. Sane(refs') /\ refs'.immediate = x /\ refs'.optimistic
  BY <1>1, <1>20 DEF Sane
<1>3. LatestKnownTurn' = x
  <2>1. LatestOf(refs', rendered.turn) = x
    BY <1>1, <1>20 DEF LatestOf
  <2>2. refs' \in Cache
    BY DEF Types
  <2> QED BY <2>1, <2>2, LatestIsThen
<1>4. Cached'
  BY <1>1, <1>2 DEF Cached
<1>5. state'.turn = x
  BY <1>20
<1>6. Met'
  BY <1>1, <1>2, <1>5 DEF Flow, Met, Heard
<1>7. Tracked'
  BY <1>1, <1>3, <1>5 DEF Tracked, AfterIn
<1>8. Spins'
  BY <1>1 DEF Spins
<1> QED BY <1>1, <1>4, <1>6, <1>7, <1>8 DEF Flow

\* A turn that ends is not shown any more.
LEMMA EndShows ==
  ASSUME NEW s \in Thread
  PROVE  /\ EndTurn(s).turn = NoTurn /\ ~EndTurn(s).processing
         /\ MarkReviewing(EndTurn(s), FALSE).turn = NoTurn
         /\ ~MarkReviewing(EndTurn(s), FALSE).processing
BY DEF EndTurn, MarkReviewing, MarkProcessing, SetActiveTurnId, Thread

\* Together, the events.
LEMMA EventsKeep ==
  ASSUME Types, Types', Flow, OnEvent
  PROVE  Flow'
<1>1. /\ UNCHANGED <<rendered, calls, running, reached>>
      /\ events # <<>> /\ events' = Tail(events)
  BY DEF OnEvent, OnTurnStarted, OnTurnCompleted, OnTurnError, OnThreadStatusChanged, OnItem, Handle
<1>2. state \in Thread /\ refs \in Cache /\ Refreshed \in Cache
  BY CacheFacts DEF Types
<1>3. /\ EndTurn(state).turn = NoTurn /\ ~EndTurn(state).processing
      /\ MarkReviewing(EndTurn(state), FALSE).turn = NoTurn
      /\ ~MarkReviewing(EndTurn(state), FALSE).processing
  BY <1>2, EndShows
<1>4. \A s \in Thread, on \in BOOLEAN :
        /\ MarkReviewing(s, on).turn = s.turn /\ MarkReviewing(s, on).processing = s.processing
        /\ MarkProcessing(s, on).turn = s.turn
        /\ MarkReviewing(s, on) \in Thread /\ MarkProcessing(s, on) \in Thread
  BY DEF MarkReviewing, MarkProcessing, Thread
<1>5. ASSUME OnTurnStarted PROVE Flow'
  <2>1. Head(events).kind = "started" /\ "started" \notin Ends
    BY <1>5 DEF OnTurnStarted, Handle, Ends
  <2>2. CASE pending
    <3>1. state' = state /\ refs' = refs /\ pending' = FALSE
      BY <1>5, <2>2 DEF OnTurnStarted
    <3> QED BY <1>1, <2>1, <2>2, <3>1, GoingKeeps
  <2>3. CASE ~pending
    <3>1. /\ state' = SetActiveTurnId(MarkProcessing(state, TRUE), Head(events).turn)
          /\ refs' = [last |-> rendered.turn, immediate |-> Head(events).turn, optimistic |-> TRUE]
          /\ pending' = pending
      BY <1>5, <2>3 DEF OnTurnStarted
    <3>2. state'.turn = Head(events).turn
      BY <1>2, <3>1 DEF SetActiveTurnId, MarkProcessing, Thread
    <3> QED BY <1>1, <2>1, <3>1, <3>2, StartKeeps
  <2> QED BY <2>2, <2>3
<1>6. ASSUME OnTurnCompleted \/ OnTurnError PROVE Flow'
  <2>1. Head(events).kind \in {"completed", "error"} /\ {"completed", "error"} \subseteq Ends
    BY <1>6 DEF OnTurnCompleted, OnTurnError, Handle, Ends
  <2>2. CASE Concerns(Head(events).turn)
    <3>1. /\ state' \in {EndTurn(state), MarkReviewing(EndTurn(state), FALSE)}
          /\ refs' = ResetRefs(Refreshed) /\ pending' = FALSE
      BY <1>6, <2>2 DEF OnTurnCompleted, OnTurnError
    <3>2. state'.turn = NoTurn /\ ~state'.processing
      BY <1>3, <3>1
    <3> QED BY <1>1, <1>2, <2>1, <3>1, <3>2, EndKeeps
  <2>3. CASE ~Concerns(Head(events).turn)
    <3>1. state' = state /\ refs' = Refreshed /\ pending' = pending
      BY <1>6, <2>3 DEF OnTurnCompleted, OnTurnError
    <3> QED BY <1>1, <2>1, <2>3, <3>1, IgnoredKeeps
  <2> QED BY <2>2, <2>3
<1>7. ASSUME OnThreadStatusChanged PROVE Flow'
  <2>1. /\ Head(events).kind \in Ends
        /\ state' \in {EndTurn(state), MarkReviewing(EndTurn(state), FALSE)}
        /\ refs' = ResetRefs(refs) /\ pending' = FALSE
    BY <1>7 DEF OnThreadStatusChanged, Handle, Ends
  <2>2. state'.turn = NoTurn /\ ~state'.processing
    BY <1>3, <2>1
  <2> QED BY <1>1, <1>2, <2>1, <2>2, EndKeeps
<1>8. ASSUME OnItem PROVE Flow'
  <2>1. /\ Head(events).kind \notin Ends /\ Head(events).kind # "started"
        /\ UNCHANGED <<refs, pending>>
    BY <1>8 DEF OnItem, Handle, Ends
  <2>2. \/ state' = MarkProcessing(state, TRUE)
        \/ state' = MarkReviewing(MarkProcessing(state, TRUE), TRUE)
        \/ state' = MarkProcessing(MarkReviewing(state, FALSE), FALSE)
    BY <1>8 DEF OnItem
  <2>3. state'.turn = state.turn
    BY <1>2, <1>4, <2>2
  <2> QED BY <1>1, <2>1, <2>3, GoingKeeps
<1> QED BY <1>5, <1>6, <1>7, <1>8 DEF OnEvent

\* An interrupt names a turn.
Aimed == NoTurn \notin interrupts

\* Interrupts name the turn that was shown, or that starts.
LEMMA AimedKept ==
  ASSUME Types, Flow, Aimed, Next
  PROVE  Aimed'
<1>1. ASSUME InterruptTurn PROVE Aimed'
  BY <1>1 DEF InterruptTurn, Aimed
<1>2. ASSUME NEW turn \in interrupts, ServeInterrupt(turn) PROVE Aimed'
  BY <1>2 DEF ServeInterrupt, Aimed
<1>3. ASSUME OnTurnStarted PROVE Aimed'
  <2>1. Head(events).turn # NoTurn
    <3>1. events \in Seq(Notice) /\ events # <<>> /\ Ordered(events, running)
      BY <1>3 DEF Types, Flow, Paced, OnTurnStarted, Handle
    <3>2. Head(events) = events[1] /\ 1 \in 1..Len(events)
      BY <3>1
    <3> QED BY <3>1, <3>2 DEF Ordered
  <2> QED BY <1>3, <2>1 DEF OnTurnStarted, Aimed
<1>4. ASSUME UNCHANGED interrupts PROVE Aimed'
  BY <1>4 DEF Aimed
<1>5. ASSUME User PROVE Aimed'
  <2>1. ASSUME NEW m \in Messages, HandleSend(m) \/ QueueMessage(m) \/ RemoveQueuedMessage(m)
        PROVE  UNCHANGED interrupts
    BY <2>1 DEF HandleSend, QueueMessage, RemoveQueuedMessage
  <2>2. ASSUME SelectThread \/ RefreshThread PROVE UNCHANGED interrupts
    BY <2>2 DEF SelectThread, RefreshThread
  <2> QED BY <1>1, <1>4, <1>5, <2>1, <2>2 DEF User
<1>6. ASSUME Answers PROVE Aimed'
  <2>1. PICK c \in calls : \/ CommandAnswered(c) \/ Begin(c) \/ StartAnswered(c) \/ SteerAnswered(c)
                           \/ ReviewAnswered(c) \/ RefreshAnswered(c)
    BY <1>6 DEF Answers
  <2>2. UNCHANGED interrupts
    BY <2>1 DEF CommandAnswered, Begin, StartAnswered, SteerAnswered, ReviewAnswered,
                RefreshAnswered
  <2> QED BY <1>4, <2>2
<1>7. ASSUME OnEvent PROVE Aimed'
  <2>1. \/ OnTurnStarted \/ OnTurnCompleted \/ OnTurnError \/ OnThreadStatusChanged \/ OnItem
    BY <1>7 DEF OnEvent
  <2>2. OnTurnCompleted \/ OnTurnError \/ OnThreadStatusChanged \/ OnItem => UNCHANGED interrupts
    BY DEF OnTurnCompleted, OnTurnError, OnThreadStatusChanged, OnItem
  <2> QED BY <1>3, <1>4, <2>1, <2>2
<1>8. ASSUME Server PROVE Aimed'
  <2>1. ASSUME NEW c \in calls, ServeStart(c) \/ ServeSteer(c) \/ ServeQuery(c) \/ Fail(c)
        PROVE  UNCHANGED interrupts
    BY <2>1 DEF ServeStart, ServeSteer, ServeQuery, Fail
  <2>2. ASSUME Finish \/ Work PROVE UNCHANGED interrupts
    BY <2>2 DEF Finish, Work
  <2> QED BY <1>2, <1>4, <1>8, <2>1, <2>2 DEF Server, Serve
<1>9. ASSUME Render \/ RunEffects PROVE Aimed'
  BY <1>4, <1>9 DEF Render, RunEffects
<1> QED BY <1>5, <1>6, <1>7, <1>8, <1>9 DEF Next

\* A disturbance is not forgotten.
LEMMA DisturbedStays ==
  ASSUME Types, Next
  PROVE  \A kind \in Disturbances : disturbed'[kind] = 0 => disturbed[kind] = 0
<1> DEFINE Noted == \/ UNCHANGED disturbed
                    \/ \E kinds : DisturbWith(kinds)
                    \/ disturbed' = [disturbed EXCEPT !["unheeded"] = @ + 1]
<1>1. ASSUME User PROVE Noted
  <2>1. ASSUME NEW m \in Messages, HandleSend(m) \/ QueueMessage(m) \/ RemoveQueuedMessage(m)
        PROVE  Noted
    BY <2>1 DEF HandleSend, QueueMessage, RemoveQueuedMessage, Disturb
  <2>2. ASSUME SelectThread \/ InterruptTurn \/ RefreshThread PROVE Noted
    BY <2>2 DEF SelectThread, InterruptTurn, RefreshThread, Disturb
  <2> QED BY <1>1, <2>1, <2>2 DEF User
<1>2. ASSUME Answers PROVE Noted
  <2>1. PICK c \in calls : \/ CommandAnswered(c) \/ Begin(c) \/ StartAnswered(c) \/ SteerAnswered(c)
                           \/ ReviewAnswered(c) \/ RefreshAnswered(c)
    BY <1>2 DEF Answers
  <2> QED BY <2>1 DEF CommandAnswered, Begin, StartAnswered, SteerAnswered, ReviewAnswered,
                      RefreshAnswered
<1>3. ASSUME OnEvent PROVE Noted
  <2>1. \/ OnTurnStarted \/ OnTurnCompleted \/ OnTurnError \/ OnThreadStatusChanged \/ OnItem
    BY <1>3 DEF OnEvent
  <2> QED BY <2>1 DEF OnTurnStarted, OnTurnCompleted, OnTurnError, OnThreadStatusChanged, OnItem
<1>4. ASSUME Server PROVE Noted
  <2>1. ASSUME NEW c \in calls, ServeStart(c) \/ ServeSteer(c) \/ ServeQuery(c) \/ Fail(c)
        PROVE  Noted
    BY <2>1 DEF ServeStart, ServeSteer, ServeQuery, Fail, Disturb
  <2>2. ASSUME (\E turn \in interrupts : ServeInterrupt(turn)) \/ Finish \/ Work PROVE Noted
    BY <2>2 DEF ServeInterrupt, Finish, Work, Disturb
  <2> QED BY <1>4, <2>1, <2>2 DEF Server, Serve
<1>5. ASSUME Render \/ RunEffects PROVE Noted
  BY <1>5 DEF Render, RunEffects
<1>6. Noted
  BY <1>1, <1>2, <1>3, <1>4, <1>5 DEF Next
<1>7. disturbed \in [Disturbances -> Nat]
  BY DEF Types
<1>8. ASSUME NEW kinds, DisturbWith(kinds)
      PROVE  \A kind \in Disturbances : disturbed'[kind] = 0 => disturbed[kind] = 0
  BY <1>7, <1>8, DisturbFacts
<1>9. ASSUME disturbed' = [disturbed EXCEPT !["unheeded"] = @ + 1]
      PROVE  \A kind \in Disturbances : disturbed'[kind] = 0 => disturbed[kind] = 0
  <2>1. ASSUME NEW kind \in Disturbances, disturbed'[kind] = 0 PROVE disturbed[kind] = 0
    BY <1>7, <1>9, <2>1 DEF Disturbances
  <2> QED BY <2>1
<1> QED BY <1>6, <1>8, <1>9

\* What has not happened after a step had not before it.
LEMMA SmoothBefore ==
  ASSUME Types, Next, Smooth'
  PROVE  Smooth /\ Calm
<1>1. {"refresh", "failure", "late"} \subseteq Disturbances
  BY DEF Disturbances
<1>2. \A kind \in {"refresh", "failure", "late"} : disturbed'[kind] = 0
  BY DEF Smooth, Undisturbed
<1>3. \A kind \in {"refresh", "failure", "late"} : disturbed[kind] = 0
  BY <1>1, <1>2, DisturbedStays
<1> QED BY <1>3 DEF Smooth, Undisturbed, Calm

\* Where no turn ends late, none of the calls of a turn is answered when it ends.
LEMMA NoneLate ==
  ASSUME Types, CallsKnow, Shaped,
         running = NoTurn \/ \E kinds : DisturbWith(kinds \cup Late),
         Smooth'
  PROVE  \A c \in calls : c.mode \in TurnModes => c.answer # "ok"
<1>1. ASSUME NEW c \in calls, c.mode \in TurnModes, c.answer = "ok" PROVE FALSE
  <2>1. running = c.turn /\ c.turn # NoTurn
    <3>1. c.mode \in {"start", "review"} => c.turn = c.msg /\ c.msg \in Messages
      BY CallFacts, MessagesAssumption DEF Shaped
    <3>2. NoTurn \notin Messages
      BY MessagesAssumption DEF MessagesAssumption
    <3> QED BY <1>1, <3>1, <3>2 DEF Shaped, TurnModes
  <2>2. Late = {"late"}
    BY <1>1, <2>1 DEF Late
  <2>3. PICK kinds : DisturbWith(kinds \cup Late)
    BY <2>1
  <2>4. "late" \in Disturbances /\ disturbed \in [Disturbances -> Nat] /\ "late" \in kinds \cup Late
    BY <2>2 DEF Types, Disturbances
  <2>5. disturbed'["late"] # 0
    BY <2>3, <2>4, DisturbFacts
  <2> QED BY <2>5 DEF Smooth, Undisturbed
<1> QED BY <1>1

\* The app-server.
LEMMA ServerKeeps ==
  ASSUME IInv, Types', Calm, Smooth', Flow, Aimed, Server
  PROVE  Flow' /\ Reported
<1>1. /\ Types /\ CallsKnow /\ CallsDeliver /\ Shaped /\ Paced
      /\ events \in Seq(Notice) /\ running \in Turns /\ NoTurn \notin Messages /\ NoTurn \in Turns
      /\ reached \in [Messages -> Nat] /\ calls \in SUBSET CallRecord
      /\ UNCHANGED <<state, rendered, refs, pending>>
  <2>1. UNCHANGED <<state, rendered, refs, pending>>
    BY DEF Server, Serve, ServeStart, ServeSteer, ServeQuery, Fail, ServeInterrupt, Finish, Work
  <2> QED BY <2>1, MessagesAssumption
          DEF IInv, Once, Flow, Types, MessagesAssumption, Turns
<1>3. ASSUME UNCHANGED <<running, events>>,
             \A m \in Messages : reached[m] > 0 => reached'[m] > 0, Shaped', Working => Working'
      PROVE  Flow' /\ Reported
  <2>1. Step(events, running, events', running', NoTurn) /\ Whole(events')
    BY <1>1, <1>3 DEF Step, Grows, Paced
  <2> QED BY <1>1, <1>3, <2>1, ReportsKeep
<1>4. ASSUME NEW c \in calls, ServeStart(c) PROVE Flow' /\ Reported
  <2> DEFINE m == c.msg
             d == [c EXCEPT !.answer = "ok"]
  <2>1. /\ c.mode \in {"start", "review"} /\ c.answer = "awaited"
        /\ calls' = (calls \ {c}) \cup {d} /\ running' = m
        /\ reached' = [reached EXCEPT ![m] = @ + 1]
    BY <1>4 DEF ServeStart, AnswerWith
  <2>2. m \in Messages /\ m \in Turns /\ m # NoTurn /\ c \in CallRecord
    BY <1>1, <2>1, CallFacts, MessagesAssumption
  <2>3. reached[m] = 0 /\ reached'[m] > 0 /\ \A k \in Messages : reached[k] > 0 => reached'[k] > 0
    <3>1. reached[m] = 0
      BY <1>1, <2>1, <2>2 DEF CallsDeliver
    <3> QED BY <1>1, <2>1, <2>2, <3>1
  <2>4. d.mode = c.mode /\ d.turn = c.turn /\ d.msg = c.msg /\ d.answer = "ok"
    BY <2>2 DEF CallRecord
  <2>5. running = NoTurn \/ \E kinds : DisturbWith(kinds \cup Late)
    BY <1>4 DEF ServeStart
  <2>6. \A b \in calls : b.mode \in TurnModes => b.answer # "ok"
    BY <1>1, <2>5, NoneLate
  <2> HIDE DEF d, m
  <2>7. Shaped'
    <3>1. ASSUME NEW b \in calls' 
          PROVE  (b \in calls /\ (b.answer # "ok" \/ b.mode \notin TurnModes)) \/ b = d
      BY <2>1, <2>6
    <3> QED BY <1>1, <2>1, <2>4, <3>1 DEF Shaped, TurnModes, m
  <2>8. Working'
    BY <2>1, <2>4 DEF Working, TurnModes
  <2>9. \A i \in 1..Len(events) : events[i].turn # m
    <3>1. ~Heard(m)
      BY <2>2, <2>3 DEF Heard
    <3>2. ~Live(m)
      BY <3>1 DEF Flow, Met
    <3> QED BY <2>2, <3>2 DEF Live, LiveIn
  <2>10. Step(events, running, events', running', m) /\ Whole(events')
    <3>1. CASE running = NoTurn
      <4>1. events' = events \o Begun(m)
        BY <1>4, <3>1 DEF ServeStart, m
      <4> QED BY <1>1, <2>1, <2>2, <2>9, <3>1, <4>1, BegunFacts DEF Paced
    <3>2. CASE running # NoTurn
      <4> DEFINE p == events \o Stopped(running)
      <4>1. events' = p \o Begun(m)
        BY <1>4, <3>2 DEF ServeStart, m
      <4>2. /\ Step(events, running, p, NoTurn, NoTurn) /\ Whole(p)
            /\ Step(events, running, p, NoTurn, m)
        BY <1>1, <3>2, StoppedFacts DEF Paced
      <4> HIDE DEF p
      <4>3. p \in Seq(Notice) /\ Ordered(p, NoTurn)
        BY <4>2 DEF Step
      <4>4. \A i \in 1..Len(p) : p[i].turn # m
        <5>1. ~Live(m)
          BY <2>2, <2>3 DEF Flow, Met, Heard
        <5>2. ~LiveIn(p, NoTurn, m)
          BY <2>2, <4>2, <5>1 DEF Step, Grows, Live
        <5> QED BY <2>2, <5>2 DEF LiveIn
      <4>5. Step(p, NoTurn, events', m, m) /\ Whole(events')
        BY <2>2, <4>1, <4>2, <4>3, <4>4, BegunFacts
      <4> QED BY <2>1, <4>2, <4>5, StepsOn
    <3> QED BY <3>1, <3>2
  <2> QED BY <1>1, <2>2, <2>3, <2>7, <2>8, <2>10, ReportsKeep
<1>5. ASSUME NEW c \in calls, ServeSteer(c) PROVE Flow' /\ Reported
  <2>1. c.mode = "steer" /\ c.answer = "awaited" /\ UNCHANGED <<running, events>> /\ c \in CallRecord
    BY <1>1, <1>5 DEF ServeSteer
  <2>2. PICK answer \in {"ok", "stale"} :
          /\ calls' = (calls \ {c}) \cup {[c EXCEPT !.answer = answer]}
          /\ answer = "ok" => running = c.turn
    BY <1>5 DEF ServeSteer, AnswerWith
  <2> DEFINE d == [c EXCEPT !.answer = answer]
  <2>3. d.mode = c.mode /\ d.turn = c.turn /\ d.msg = c.msg /\ d.answer = answer
    BY <2>1 DEF CallRecord
  <2>4. calls' = (calls \ {c}) \cup {d}
    BY <2>2
  <2> HIDE DEF d
  <2>5. Shaped'
    BY <1>1, <2>1, <2>2, <2>3, <2>4 DEF Shaped, TurnModes
  <2>6. Working'
    BY <2>1, <2>3, <2>4 DEF Working, TurnModes
  <2>7. \A m \in Messages : reached[m] > 0 => reached'[m] > 0
    <3>1. reached' = reached \/ reached' = [reached EXCEPT ![c.msg] = @ + 1]
      BY <1>5 DEF ServeSteer
    <3>2. c.msg \in Messages
      BY <1>1, <2>1, CallFacts, MessagesAssumption
    <3> QED BY <1>1, <3>1, <3>2
  <2> QED BY <1>3, <2>1, <2>5, <2>6, <2>7
<1>6. ASSUME NEW c \in calls, ServeQuery(c) PROVE Flow' /\ Reported
  <2>1. c.mode = "command" /\ UNCHANGED <<running, events, reached>> /\ c \in CallRecord
    BY <1>1, <1>6 DEF ServeQuery, Shaped
  <2> DEFINE d == [c EXCEPT !.answer = "ok", !.turn = NoTurn]
  <2>2. calls' = (calls \ {c}) \cup {d}
    BY <1>6, <2>1 DEF ServeQuery
  <2>3. d.mode = "command" /\ d.answer = "ok"
    BY <2>1 DEF CallRecord
  <2> HIDE DEF d
  <2>4. Shaped'
    BY <1>1, <2>1, <2>2, <2>3 DEF Shaped, TurnModes
  <2>5. Working => Working'
    BY <2>1, <2>2 DEF Working, TurnModes
  <2> QED BY <1>3, <2>1, <2>4, <2>5
<1>7. ASSUME NEW c \in calls, Fail(c) PROVE FALSE
  <2>1. DisturbWith({"failure"}) /\ disturbed \in [Disturbances -> Nat] /\ "failure" \in Disturbances
    BY <1>1, <1>7 DEF Fail, Disturb, Types, Disturbances
  <2>2. disturbed'["failure"] # 0
    BY <2>1, DisturbFacts
  <2> QED BY <2>2 DEF Smooth, Undisturbed
<1>8. ASSUME running # NoTurn, running' = NoTurn, UNCHANGED <<calls, reached>>,
             \E kinds : DisturbWith(kinds \cup Late),
             Step(events, running, events', NoTurn, NoTurn), Whole(events')
      PROVE  Flow' /\ Reported
  <2>1. \A c \in calls : c.mode \in TurnModes => c.answer # "ok"
    BY <1>1, <1>8, NoneLate
  <2>2. Shaped' /\ (Working => Working')
    BY <1>1, <1>8, <2>1 DEF Shaped, Working
  <2> QED BY <1>1, <1>8, <2>2, ReportsKeep
<1>9. ASSUME NEW turn \in interrupts, ServeInterrupt(turn) PROVE Flow' /\ Reported
  <2>1. UNCHANGED <<calls, reached>>
    BY <1>9 DEF ServeInterrupt
  <2>2. CASE running = turn /\ turn # NoTurn
    <3>1. /\ running' = NoTurn /\ events' = events \o Stopped(running) /\ DisturbWith({} \cup Late)
      <4>1. {} \cup Late = Late
        OBVIOUS
      <4> QED BY <1>9, <2>2, <4>1 DEF ServeInterrupt
    <3>2. Step(events, running, events', NoTurn, NoTurn) /\ Whole(events')
      BY <1>1, <2>2, <3>1, StoppedFacts DEF Paced
    <3> QED BY <1>8, <2>1, <2>2, <3>1, <3>2
  <2>3. CASE running # turn
    <3>1. UNCHANGED <<running, events>>
      BY <1>9, <2>3 DEF ServeInterrupt
    <3>2. Shaped' /\ (Working => Working')
      BY <1>1, <2>1, <3>1 DEF Shaped, Working
    <3> QED BY <1>3, <2>1, <3>1, <3>2
  <2>4. turn # NoTurn
    BY DEF Aimed
  <2> QED BY <2>2, <2>3, <2>4
<1>10. ASSUME Finish PROVE Flow' /\ Reported
  <2>1. running # NoTurn /\ running' = NoTurn /\ UNCHANGED <<calls, reached>>
    BY <1>10 DEF Finish
  <2>2. PICK ending \in Ended(running) :
          \/ events' = events \o ending /\ DisturbWith(Late)
          \/ /\ events' = events \o ending \o <<Event("idle", running)>>
             /\ DisturbWith({"twice"} \cup Late)
    BY <1>10 DEF Finish
  <2>3. \E kinds : DisturbWith(kinds \cup Late)
    <3>1. {} \cup Late = Late
      OBVIOUS
    <3> QED BY <2>2, <3>1
  <2>4. Step(events, running, events', NoTurn, NoTurn) /\ Whole(events')
    BY <1>1, <2>1, <2>2, EndedFacts DEF Paced
  <2> QED BY <1>8, <2>1, <2>3, <2>4
<1>11. ASSUME Work PROVE Flow' /\ Reported
  <2>1. /\ running # NoTurn /\ running' = running /\ UNCHANGED <<calls, reached>>
        /\ events' = Append(events, Event("item", running))
    BY <1>11 DEF Work
  <2>2. Step(events, running, events', running', NoTurn) /\ Whole(events')
    BY <1>1, <2>1, ItemFacts DEF Paced
  <2>3. Shaped' /\ (Working => Working')
    BY <1>1, <2>1 DEF Shaped, Working
  <2> QED BY <1>1, <2>1, <2>2, <2>3, ReportsKeep
<1> QED BY <1>4, <1>5, <1>6, <1>7, <1>9, <1>10, <1>11 DEF Server, Serve

\* A message that is sent is in a call of the right shape.
LEMMA SendShapes ==
  ASSUME NEW m \in Messages, NEW steer, NEW queued, Send(m, steer, queued),
         steer => rendered.turn # NoTurn, Shaped, UNCHANGED running
  PROVE  Shaped'
<1> DEFINE Good(d) == /\ d.answer = "preparing" /\ d.mode # "refresh"
                      /\ d.mode \in {"start", "review"} => d.turn = d.msg
                      /\ d.mode = "review" => d.msg \in Reviews
                      /\ d.mode = "steer" => d.turn # NoTurn
<1>1. ASSUME NEW mode, NEW turn
      PROVE  /\ Call(m, mode, turn, queued).mode = mode
             /\ Call(m, mode, turn, queued).turn = turn
             /\ Call(m, mode, turn, queued).msg = m
             /\ Call(m, mode, turn, queued).answer = "preparing"
  BY DEF Call
<1>2. ASSUME NEW d, Good(d), calls' = calls \cup {d} PROVE Shaped'
  <2>1. ASSUME NEW c \in calls'
        PROVE  /\ c.mode \in {"start", "review"} => c.turn = c.msg
               /\ c.mode = "review" => c.msg \in Reviews
               /\ c.mode = "steer" => c.turn # NoTurn
               /\ c.mode # "refresh" /\ c.answer # "failed"
               /\ c.mode \in TurnModes /\ c.answer = "ok" => running' = c.turn
    <3>1. CASE c \in calls
      BY <3>1 DEF Shaped
    <3>2. CASE c = d
      BY <1>2, <3>2
    <3> QED BY <1>2, <3>1, <3>2
  <2> QED BY <2>1 DEF Shaped
<1>3. CASE m \in Reviews
  <2>1. calls' = calls \cup {Call(m, "review", m, queued)}
    BY <1>3, MessagesAssumption DEF Send, MessagesAssumption
  <2>2. Good(Call(m, "review", m, queued))
    BY <1>1, <1>3
  <2> QED BY <1>2, <2>1, <2>2
<1>4. CASE m \notin Reviews /\ m \in Commands
  <2>1. calls' = calls \cup {Call(m, "command", NoTurn, queued)}
    BY <1>4 DEF Send
  <2>2. Good(Call(m, "command", NoTurn, queued))
    BY <1>1
  <2> QED BY <1>2, <2>1, <2>2
<1>5. CASE m \notin Reviews /\ m \notin Commands /\ steer
  <2>1. calls' = calls \cup {Call(m, "steer", rendered.turn, queued)}
    BY <1>5 DEF Send
  <2>2. Good(Call(m, "steer", rendered.turn, queued))
    BY <1>1, <1>5
  <2> QED BY <1>2, <2>1, <2>2
<1>6. CASE m \notin Reviews /\ m \notin Commands /\ ~steer
  <2>1. calls' = calls \cup {Call(m, "start", m, queued)}
    BY <1>6 DEF Send
  <2>2. Good(Call(m, "start", m, queued))
    BY <1>1
  <2> QED BY <1>2, <2>1, <2>2
<1> QED BY <1>3, <1>4, <1>5, <1>6

\* A step beside the turn: it may add a call that prepares, or drop one that is
\* no call of a turn.
LEMMA AsideKeeps ==
  ASSUME Types, Types', Flow, UNCHANGED <<rendered, refs, pending, running, events, reached>>,
         state'.turn = state.turn, state'.processing = state.processing,
         Shaped', Working => Working'
  PROVE  Flow'
<1>1. Spins'
  <2>1. \A t : Live(t)' <=> Live(t)
    BY DEF Live
  <2> QED BY <2>1 DEF Flow, Spins
<1> QED BY <1>1, ThreadKeeps

\* What the user does.
LEMMA UserKeeps ==
  ASSUME IInv, Types', Smooth', Flow, User
  PROVE  Flow'
<1>1. Types /\ Shaped /\ state \in Thread /\ disturbed \in [Disturbances -> Nat]
  BY DEF IInv, Flow, Types
<1>2. ASSUME NEW m \in Messages, HandleSend(m) PROVE Flow'
  <2>1. UNCHANGED <<rendered, refs, pending, running, events, reached>>
    BY <1>2 DEF HandleSend
  <2>2. CASE UNCHANGED calls /\ state' = [state EXCEPT !.queue = Append(@, m)]
    <3>1. state'.turn = state.turn /\ state'.processing = state.processing
      BY <1>1, <2>2 DEF Thread
    <3>2. Shaped' /\ (Working => Working')
      BY <1>1, <2>1, <2>2 DEF Shaped, Working
    <3> QED BY <1>1, <2>1, <3>1, <3>2, AsideKeeps
  <2>3. ASSUME Send(m, rendered.processing, FALSE), state' = state,
               rendered.processing => rendered.turn # NoTurn
        PROVE  Flow'
    <3>1. Shaped'
      BY <1>1, <2>1, <2>3, SendShapes
    <3>2. Working => Working'
      <4>1. calls \subseteq calls'
        BY <2>3 DEF Send
      <4> QED BY <4>1 DEF Working
    <3> QED BY <1>1, <2>1, <2>3, <3>1, <3>2, AsideKeeps
  <2> QED BY <1>2, <2>2, <2>3 DEF HandleSend
<1>3. ASSUME UNCHANGED <<rendered, refs, pending, running, events, reached, calls>>,
             state'.turn = state.turn, state'.processing = state.processing
      PROVE  Flow'
  <2>1. Shaped' /\ (Working => Working')
    BY <1>1, <1>3 DEF Shaped, Working
  <2> QED BY <1>1, <1>3, <2>1, AsideKeeps
<1>4. ASSUME NEW m \in Messages, QueueMessage(m) \/ RemoveQueuedMessage(m) PROVE Flow'
  <2>1. PICK q : state' = [state EXCEPT !.queue = q]
    BY <1>4 DEF QueueMessage, RemoveQueuedMessage
  <2>2. state'.turn = state.turn /\ state'.processing = state.processing
    BY <1>1, <2>1 DEF Thread
  <2>3. UNCHANGED <<rendered, refs, pending, running, events, reached, calls>>
    BY <1>4 DEF QueueMessage, RemoveQueuedMessage
  <2> QED BY <1>3, <2>2, <2>3
<1>5. ASSUME SelectThread PROVE Flow'
  <2>1. state'.turn = state.turn /\ state'.processing = state.processing
    BY <1>1, <1>5 DEF Thread, SelectThread
  <2> QED BY <1>3, <1>5, <2>1 DEF SelectThread
<1>6. ASSUME InterruptTurn PROVE Flow'
  <2>1. /\ state' = EndTurn(state) /\ (pending' => pending \/ rendered.turn = NoTurn)
        /\ UNCHANGED <<rendered, refs, calls, running, events, reached>>
    BY <1>6 DEF InterruptTurn
  <2>2. state'.turn = NoTurn /\ ~state'.processing
    BY <1>1, <2>1, EndShows
  <2>3. Shaped' /\ Spins'
    BY <1>1, <2>1, <2>2 DEF Shaped, Spins
  <2> QED BY <1>1, <2>1, <2>2, <2>3, ThreadKeeps
<1>7. ASSUME RefreshThread PROVE FALSE
  <2>1. DisturbWith({"refresh"}) /\ "refresh" \in Disturbances
    BY <1>7 DEF RefreshThread, Disturb, Disturbances
  <2>2. disturbed'["refresh"] # 0
    BY <1>1, <2>1, DisturbFacts
  <2> QED BY <2>2 DEF Smooth, Undisturbed
<1> QED BY <1>2, <1>4, <1>5, <1>6, <1>7 DEF User

\* Answers, and requests that are sent.
LEMMA AnswersKeep ==
  ASSUME IInv, Types', Flow, Answers
  PROVE  Flow'
<1>1. /\ Types /\ CallsKnow /\ Shaped /\ state \in Thread /\ NoTurn \notin Messages
      /\ running \in Turns /\ NoTurn \in Turns
  BY MessagesAssumption DEF IInv, Flow, Types, MessagesAssumption, Turns
<1>2. PICK c \in calls : \/ CommandAnswered(c) \/ Begin(c) \/ StartAnswered(c) \/ SteerAnswered(c)
                         \/ ReviewAnswered(c) \/ RefreshAnswered(c)
  BY DEF Answers
<1>3. /\ c \in CallRecord /\ c.mode # "refresh" /\ c.answer # "failed" /\ c.msg \in Messages
      /\ c.mode \in {"start", "review"} => c.turn = c.msg
  BY <1>1, CallFacts, MessagesAssumption DEF Shaped
<1>4. UNCHANGED <<rendered, refs, pending, running, events, reached>>
  BY <1>2 DEF CommandAnswered, Begin, StartAnswered, SteerAnswered, ReviewAnswered, RefreshAnswered
<1>5. \A t : Live(t)' <=> Live(t)
  BY <1>4 DEF Live
<1>6. ASSUME calls' = calls \ {c} PROVE Shaped'
  BY <1>1, <1>4, <1>6 DEF Shaped
<1>7. ASSUME calls' = calls \ {c}, state'.turn \in {state.turn, NoTurn}, ~state'.processing
      PROVE  Flow'
  <2>1. Shaped' /\ Spins'
    BY <1>6, <1>7 DEF Spins
  <2> QED BY <1>1, <1>4, <1>7, <2>1, ThreadKeeps
<1>8. ASSUME calls' = calls \ {c}, state'.turn \in {state.turn, running},
             running = c.turn, c.turn # NoTurn
      PROVE  Flow'
  <2>1. Live(running)'
    BY <1>4, <1>8 DEF Live, LiveIn
  <2>2. Spins'
    <3>1. \E t : Live(t)'
      BY <1>4, <1>8 DEF Live, LiveIn
    <3> QED BY <3>1 DEF Spins
  <2>3. Shaped'
    BY <1>6, <1>8
  <2> QED BY <1>1, <1>4, <1>8, <2>2, <2>3, ThreadKeeps
<1>9. ASSUME calls' = calls \ {c}, c.mode \notin TurnModes \/ c.answer = "preparing",
             state'.turn = state.turn, state'.processing = state.processing
      PROVE  Flow'
  <2>1. Working => Working'
    BY <1>9 DEF Working
  <2> QED BY <1>1, <1>4, <1>6, <1>9, <2>1, AsideKeeps
<1>10. EndTurn(state).turn = NoTurn /\ ~EndTurn(state).processing
  BY <1>1, EndShows
<1>11. ASSUME CommandAnswered(c) PROVE Flow'
  <2>1. c.mode = "command" /\ calls' = calls \ {c} /\ state' = state
    BY <1>3, <1>11 DEF CommandAnswered, Answered
  <2> QED BY <1>9, <2>1 DEF TurnModes
<1>12. ASSUME Begin(c) PROVE Flow'
  <2>1. c.answer = "preparing"
    BY <1>12 DEF Begin
  <2>2. CASE calls' = calls \ {c} /\ UNCHANGED state
    BY <1>9, <2>1, <2>2
  <2>3. ASSUME calls' = (calls \ {c}) \cup {[c EXCEPT !.answer = "awaited"]},
               state' = CASE c.mode \in {"start", "steer"} -> MarkProcessing(state, TRUE)
                          [] c.mode = "review" ->
                               MarkReviewing(MarkProcessing(state, TRUE), TRUE)
                          [] c.mode = "command" -> state
        PROVE  Flow'
    <3> DEFINE d == [c EXCEPT !.answer = "awaited"]
    <3>1. d.mode = c.mode /\ d.msg = c.msg /\ d.turn = c.turn /\ d.answer = "awaited"
      BY <1>3 DEF CallRecord
    <3>2. calls' = (calls \ {c}) \cup {d}
      BY <2>3
    <3> HIDE DEF d
    <3>3. Shaped'
      BY <1>1, <1>4, <3>1, <3>2 DEF Shaped
    <3>4. c.mode \in {"start", "steer"} \/ c.mode = "review" \/ c.mode = "command"
      BY <1>3 DEF CallRecord
    <3>5. CASE c.mode = "command"
      <4>1. state' = state
        BY <2>3, <3>5
      <4>2. Working => Working'
        BY <2>1, <3>2 DEF Working
      <4> QED BY <1>1, <1>4, <3>3, <4>1, <4>2, AsideKeeps
    <3>6. CASE c.mode # "command"
      <4>1. state' \in {MarkProcessing(state, TRUE), MarkReviewing(MarkProcessing(state, TRUE), TRUE)}
        BY <2>3, <3>4, <3>6
      <4>2. state'.turn = state.turn
        BY <1>1, <4>1 DEF MarkProcessing, MarkReviewing, Thread
      <4>3. Spins'
        BY <3>1, <3>2, <3>4, <3>6 DEF Spins, Working, TurnModes
      <4> QED BY <1>1, <1>4, <3>3, <4>2, <4>3, ThreadKeeps
    <3> QED BY <3>5, <3>6
  <2> QED BY <1>12, <2>2, <2>3 DEF Begin, AnswerWith
<1>13. ASSUME StartAnswered(c) PROVE Flow'
  <2>1. c.mode = "start" /\ calls' = calls \ {c}
    BY <1>13 DEF StartAnswered, Answered
  <2>2. CASE c.answer = "ok"
    <3>1. state'.turn = c.turn
      BY <1>1, <1>13, <2>2 DEF StartAnswered, SetActiveTurnId, Thread
    <3>2. running = c.turn /\ c.turn # NoTurn
      BY <1>1, <1>3, <2>1, <2>2 DEF Shaped, TurnModes
    <3> QED BY <1>8, <2>1, <3>1, <3>2
  <2>3. CASE c.answer # "ok"
    <3>1. state' = EndTurn(state)
      BY <1>13, <2>3 DEF StartAnswered
    <3> QED BY <1>7, <1>10, <2>1, <3>1
  <2> QED BY <2>2, <2>3
<1>14. ASSUME SteerAnswered(c) PROVE Flow'
  <2>1. c.mode = "steer" /\ calls' = calls \ {c} /\ c.answer \in {"ok", "stale"}
    BY <1>3, <1>14 DEF SteerAnswered, Answered, CallRecord
  <2>2. CASE c.answer = "ok"
    <3>1. state' = SetActiveTurnId(state, c.turn)
      BY <1>14, <2>2 DEF SteerAnswered
    <3>2. state'.turn = c.turn
      BY <1>1, <3>1 DEF SetActiveTurnId, Thread
    <3>3. running = c.turn /\ c.turn # NoTurn
      BY <1>1, <2>1, <2>2 DEF Shaped, TurnModes
    <3> QED BY <1>8, <2>1, <3>2, <3>3
  <2>3. CASE c.answer = "stale"
    <3>1. state' = EndTurn([state EXCEPT !.queue = Append(@, c.msg)])
      BY <1>14, <2>3 DEF SteerAnswered
    <3>2. [state EXCEPT !.queue = Append(@, c.msg)] \in Thread
      <4>1. Append(state.queue, c.msg) \in Seq(Messages)
        BY <1>1, <1>3 DEF Thread
      <4> QED BY <1>1, <4>1 DEF Thread
    <3>3. state'.turn = NoTurn /\ ~state'.processing
      BY <3>1, <3>2, EndShows
    <3> QED BY <1>7, <2>1, <3>3
  <2> QED BY <2>1, <2>2, <2>3
<1>15. ASSUME ReviewAnswered(c) PROVE Flow'
  <2>1. c.mode = "review" /\ calls' = calls \ {c}
    BY <1>15 DEF ReviewAnswered, Answered
  <2>2. CASE c.answer = "ok"
    <3>1. state' = state
      BY <1>15, <2>2 DEF ReviewAnswered
    <3>2. running = c.turn /\ c.turn # NoTurn
      BY <1>1, <1>3, <2>1, <2>2 DEF Shaped, TurnModes
    <3> QED BY <1>8, <2>1, <3>1, <3>2
  <2>3. CASE c.answer # "ok"
    <3>1. \/ state' = MarkReviewing(EndTurn(state), FALSE)
          \/ state' = MarkReviewing(MarkProcessing(state, FALSE), FALSE)
      BY <1>15, <2>3 DEF ReviewAnswered
    <3>2. state' = MarkReviewing(MarkProcessing(state, FALSE), FALSE) =>
            state'.turn = state.turn /\ ~state'.processing
      BY <1>1 DEF MarkReviewing, MarkProcessing, Thread
    <3>3. state'.turn \in {state.turn, NoTurn} /\ ~state'.processing
      BY <1>1, <3>1, <3>2, EndShows
    <3> QED BY <1>7, <2>1, <3>3
  <2> QED BY <2>2, <2>3
<1>16. ~RefreshAnswered(c)
  BY <1>3 DEF RefreshAnswered
<1> QED BY <1>2, <1>11, <1>12, <1>13, <1>14, <1>15, <1>16

\* The effects.
LEMMA EffectsKeep ==
  ASSUME IInv, Types', Flow, RunEffects
  PROVE  Flow'
<1>1. Types /\ Shaped /\ state \in Thread
  BY DEF IInv, Flow, Types
<1>2. UNCHANGED <<rendered, refs, pending, running, events, reached>>
  BY DEF RunEffects
<1>3. CASE CanFlush
  <2>1. Flush
    BY <1>3 DEF RunEffects
  <2>2. Head(rendered.queue) \in Messages
    <3>1. rendered.queue \in Seq(Messages) /\ rendered.queue # <<>>
      BY <1>1, <1>3 DEF Types, Thread, CanFlush
    <3> QED BY <3>1
  <2>3. Send(Head(rendered.queue), FALSE, TRUE)
    BY <2>1 DEF Flush
  <2>4. Shaped'
    BY <1>1, <1>2, <2>2, <2>3, SendShapes
  <2>5. Working => Working'
    <3>1. calls \subseteq calls'
      BY <2>3 DEF Send
    <3> QED BY <3>1 DEF Working
  <2>6. state'.turn = state.turn /\ state'.processing = state.processing
    BY <1>1, <2>1 DEF Flush, Thread
  <2> QED BY <1>1, <1>2, <2>4, <2>5, <2>6, AsideKeeps
<1>4. CASE ~CanFlush
  <2>1. state' = WatchInFlight /\ UNCHANGED calls
    BY <1>4 DEF RunEffects
  <2>2. state'.turn = state.turn /\ state'.processing = state.processing
    BY <1>1, <2>1 DEF WatchInFlight, Thread
  <2>3. Shaped' /\ (Working => Working')
    BY <1>1, <1>2, <2>1 DEF Shaped, Working
  <2> QED BY <1>1, <1>2, <2>2, <2>3, AsideKeeps
<1> QED BY <1>3, <1>4

\* The invariant of the turns: until something is refreshed, fails or is late.
SpinInv == Smooth => Flow /\ Aimed

\* At the start nothing runs and nothing is cached.
LEMMA FlowStart ==
  ASSUME Init
  PROVE  SpinInv
<1>1. /\ state.turn = NoTurn /\ ~state.processing /\ rendered.turn = NoTurn
      /\ refs.immediate = Unset /\ refs.last = Unset /\ ~refs.optimistic
      /\ pending = FALSE /\ calls = {} /\ interrupts = {} /\ running = NoTurn /\ events = <<>>
  BY DEF Init
<1>2. LatestKnownTurn = NoTurn
  BY <1>1 DEF LatestKnownTurn
<1>3. Len(events) = 0 /\ \A t : ~Live(t)
  BY <1>1 DEF Live, LiveIn
<1>4. Paced
  BY <1>1 DEF Paced, Ordered, Whole
<1>5. Met /\ Cached /\ Tracked
  <2>1. NoTurn \notin Messages /\ Unset \notin Messages
    BY MessagesAssumption DEF MessagesAssumption
  <2>2. Met
    BY <1>1, <1>3, <2>1 DEF Met, Heard
  <2>3. Cached
    BY <1>1 DEF Cached, Sane
  <2> QED BY <1>1, <1>2, <2>2, <2>3 DEF Tracked
<1>6. Shaped /\ Spins
  BY <1>1 DEF Shaped, Spins
<1> QED BY <1>1, <1>4, <1>5, <1>6 DEF SpinInv, Flow, Aimed

\* Every step keeps it.
LEMMA FlowKeeps ==
  ASSUME IInv, IInv', SpinInv, [Next]_vars
  PROVE  SpinInv'
<1>1. Types /\ Types'
  BY DEF IInv
<1>2. CASE UNCHANGED vars
  <2>1. UNCHANGED <<state, rendered, refs, pending, calls, interrupts, running, events, reached,
                    disturbed>>
    BY <1>2 DEF vars, turnVars
  <2>2. LatestKnownTurn' = LatestKnownTurn
    BY <1>1, <2>1, LatestIs, LatestIsThen DEF Types
  <2>3. Smooth' => Smooth
    BY <2>1 DEF Smooth, Undisturbed
  <2>4. Flow /\ Aimed => Flow' /\ Aimed'
    BY <2>1, <2>2 DEF Flow, Aimed, Paced, Shaped, Met, Heard, Live, Cached, Tracked, Spins, Working
  <2> QED BY <2>3, <2>4 DEF SpinInv
<1>3. ASSUME Next, Smooth' PROVE Flow' /\ Aimed'
  <2>1. Smooth /\ Calm /\ Flow /\ Aimed
    BY <1>1, <1>3, SmoothBefore DEF SpinInv
  <2>2. Aimed'
    BY <1>1, <1>3, <2>1, AimedKept
  <2>3. User \/ Answers \/ OnEvent \/ Server \/ Render \/ RunEffects
    BY <1>3 DEF Next
  <2>4. Flow'
    BY <1>1, <1>3, <2>1, <2>3, UserKeeps, AnswersKeep, EventsKeep, ServerKeeps, RenderKeeps,
       EffectsKeep
  <2> QED BY <2>2, <2>4
<1> QED BY <1>2, <1>3 DEF SpinInv

\* Where nothing is on its way, nothing runs means nothing spins.
LEMMA NothingSpins ==
  ASSUME IInv, SpinInv, Settled, running = NoTurn, Smooth
  PROVE  state.turn = NoTurn /\ ~state.processing
<1>1. Flow /\ calls = {} /\ events = <<>>
  BY DEF SpinInv, Settled
<1>2. \A t : ~Live(t)
  BY <1>1 DEF Live, LiveIn
<1>3. ~Working
  BY <1>1 DEF Working
<1> QED BY <1>1, <1>2, <1>3 DEF Flow, Tracked, Spins

---------------------------------------------------------------------------
(* Reviews, and the turn that is shown *)

\* A review was asked for and has not reached the app-server.
Asked == \E c \in calls : c.mode = "review" /\ c.answer = "awaited"
Reviewed == state.reviewing => InReview(events, running) \/ Asked

\* The turn that runs is shown once its start was handled.
Shown ==
  running # NoTurn /\ ~Awaits(events, "started", running) =>
    /\ state.turn = running /\ state.processing
    /\ running \in Reviews /\ ~Awaits(events, "entered", running) => state.reviewing
Straight == ~pending /\ (\A c \in calls : c.answer # "stale") /\ Shown

\* A step that leaves the events.
LEMMA AsideReviewed ==
  ASSUME UNCHANGED <<running, events>>, Reviewed, Asked => Asked',
         state'.reviewing => state.reviewing \/ Asked'
  PROVE  Reviewed'
BY DEF Reviewed

\* The same for the turn that runs.
LEMMA AsideShown ==
  ASSUME UNCHANGED <<running, events>>, Shown,
         state'.turn \in {state.turn, running},
         state.processing => state'.processing, state.reviewing => state'.reviewing
  PROVE  Shown'
BY DEF Shown

\* One that leaves the calls too, or adds one that prepares, and shows the same.
LEMMA SameShows ==
  ASSUME UNCHANGED <<running, events>>,
         \A c \in calls : c \in calls', \A c \in calls' : c \in calls \/ c.answer = "preparing",
         state'.turn = state.turn, state'.processing = state.processing,
         state'.reviewing = state.reviewing
  PROVE  (Reviewed => Reviewed') /\ (Straight /\ pending' = pending => Straight')
<1>1. Asked => Asked'
  BY DEF Asked
<1>2. Reviewed => Reviewed'
  BY <1>1, AsideReviewed, AsideShown
<1>3. Shown => Shown'
  BY AsideReviewed, AsideShown
<1>4. (\A c \in calls : c.answer # "stale") => \A c \in calls' : c.answer # "stale"
  OBVIOUS
<1> QED BY <1>2, <1>3, <1>4 DEF Straight

\* The composer.
LEMMA UserShows ==
  ASSUME IInv, User
  PROVE  (Reviewed => Reviewed') /\ (Straight /\ disturbed'["interrupt"] = 0 => Straight')
<1>1. Types /\ state \in Thread /\ disturbed \in [Disturbances -> Nat]
  BY DEF IInv, Types
<1>2. ASSUME NEW m \in Messages, HandleSend(m)
      PROVE  (Reviewed => Reviewed') /\ (Straight => Straight')
  <2>1. UNCHANGED <<running, events, pending>>
    BY <1>2 DEF HandleSend
  <2>2. CASE UNCHANGED calls /\ state' = [state EXCEPT !.queue = Append(@, m)]
    <3>1. /\ state'.turn = state.turn /\ state'.processing = state.processing
          /\ state'.reviewing = state.reviewing
      BY <1>1, <2>2 DEF Thread
    <3> QED BY <2>1, <2>2, <3>1, SameShows
  <2>3. ASSUME Send(m, rendered.processing, FALSE), state' = state
        PROVE  (Reviewed => Reviewed') /\ (Straight => Straight')
    <3>1. PICK d \in CallRecord : calls' = calls \cup {d} /\ d.answer = "preparing"
      BY <1>1, <2>3, SendFacts, MessagesAssumption
    <3> QED BY <2>1, <2>3, <3>1, SameShows
  <2> QED BY <1>2, <2>2, <2>3 DEF HandleSend
<1>3. ASSUME NEW m \in Messages, QueueMessage(m) \/ RemoveQueuedMessage(m)
      PROVE  (Reviewed => Reviewed') /\ (Straight => Straight')
  <2>1. PICK q : state' = [state EXCEPT !.queue = q]
    BY <1>3 DEF QueueMessage, RemoveQueuedMessage
  <2>2. /\ state'.turn = state.turn /\ state'.processing = state.processing
        /\ state'.reviewing = state.reviewing
    BY <1>1, <2>1 DEF Thread
  <2>3. UNCHANGED <<running, events, pending, calls>>
    BY <1>3 DEF QueueMessage, RemoveQueuedMessage
  <2> QED BY <2>2, <2>3, SameShows
<1>4. ASSUME SelectThread PROVE (Reviewed => Reviewed') /\ (Straight => Straight')
  <2>1. /\ state'.turn = state.turn /\ state'.processing = state.processing
        /\ state'.reviewing = state.reviewing
    BY <1>1, <1>4 DEF Thread, SelectThread
  <2>2. UNCHANGED <<running, events, pending, calls>>
    BY <1>4 DEF SelectThread
  <2> QED BY <2>1, <2>2, SameShows
<1>5. ASSUME InterruptTurn PROVE (Reviewed => Reviewed') /\ disturbed'["interrupt"] # 0
  <2>1. state'.reviewing = state.reviewing
    BY <1>1, <1>5 DEF InterruptTurn, EndTurn, SetActiveTurnId, MarkProcessing, Thread
  <2>2. UNCHANGED <<running, events, calls>>
    BY <1>5 DEF InterruptTurn
  <2>3. Asked' <=> Asked
    BY <2>2 DEF Asked
  <2>4. Reviewed => Reviewed'
    BY <2>1, <2>2, <2>3, AsideReviewed, AsideShown
  <2>5. DisturbWith({"interrupt"}) /\ "interrupt" \in Disturbances
    BY <1>5 DEF InterruptTurn, Disturb, Disturbances
  <2> QED BY <1>1, <2>4, <2>5, DisturbFacts
<1>6. ASSUME RefreshThread PROVE (Reviewed => Reviewed') /\ (Straight => Straight')
  <2>1. UNCHANGED <<state, running, events, pending>>
    BY <1>6 DEF RefreshThread
  <2> DEFINE d == [Call(NoMessage, "refresh", NoTurn, FALSE) EXCEPT !.answer = "awaited"]
  <2>2. calls' = calls \cup {d}
    BY <1>6 DEF RefreshThread
  <2>3. d.answer = "awaited"
    BY DEF Call
  <2> HIDE DEF d
  <2>4. (Asked => Asked') /\ (Straight => \A c \in calls' : c.answer # "stale")
    BY <2>2, <2>3 DEF Asked, Straight
  <2> QED BY <2>1, <2>4, AsideReviewed, AsideShown DEF Straight
<1> QED BY <1>2, <1>3, <1>4, <1>5, <1>6 DEF User

\* The effects.
LEMMA EffectsShow ==
  ASSUME IInv, RunEffects \/ Render
  PROVE  (Reviewed => Reviewed') /\ (Straight => Straight')
<1>1. Types /\ state \in Thread /\ state.queue \in Seq(Messages)
  BY DEF IInv, Types, Thread
<1>2. UNCHANGED <<running, events, pending>>
  BY DEF RunEffects, Render
<1>3. CASE Render
  <2>1. UNCHANGED <<state, calls>>
    BY <1>3 DEF Render
  <2> QED BY <1>2, <2>1, SameShows
<1>4. CASE RunEffects /\ CanFlush
  <2>1. Flush
    BY <1>4 DEF RunEffects
  <2>2. Head(rendered.queue) \in Messages
    <3>1. rendered.queue \in Seq(Messages) /\ rendered.queue # <<>>
      BY <1>1, <1>4 DEF Types, Thread, CanFlush
    <3> QED BY <3>1
  <2>3. Send(Head(rendered.queue), FALSE, TRUE)
    BY <2>1 DEF Flush
  <2>4. PICK d \in CallRecord : calls' = calls \cup {d} /\ d.answer = "preparing"
    BY <1>1, <2>2, <2>3, SendFacts, MessagesAssumption
  <2>5. /\ state'.turn = state.turn /\ state'.processing = state.processing
        /\ state'.reviewing = state.reviewing
    BY <1>1, <2>1 DEF Flush, Thread
  <2> QED BY <1>2, <2>4, <2>5, SameShows
<1>5. CASE RunEffects /\ ~CanFlush
  <2>1. state' = WatchInFlight /\ UNCHANGED calls
    BY <1>5 DEF RunEffects
  <2>2. /\ state'.turn = state.turn /\ state'.processing = state.processing
        /\ state'.reviewing = state.reviewing
    BY <1>1, <2>1 DEF WatchInFlight, Thread
  <2> QED BY <1>2, <2>1, <2>2, SameShows
<1> QED BY <1>3, <1>4, <1>5

\* Answers.
LEMMA AnswersShow ==
  ASSUME IInv, Flow, Answers
  PROVE  (Reviewed => Reviewed') /\ (Straight => Straight')
<1>1. Types /\ CallsKnow /\ Shaped /\ state \in Thread
  BY DEF IInv, Flow, Types
<1>2. PICK c \in calls : \/ CommandAnswered(c) \/ Begin(c) \/ StartAnswered(c) \/ SteerAnswered(c)
                         \/ ReviewAnswered(c) \/ RefreshAnswered(c)
  BY DEF Answers
<1>3. /\ c \in CallRecord /\ c.mode # "refresh" /\ c.answer # "failed" /\ c.msg \in Messages
      /\ c.mode \in TurnModes /\ c.answer = "ok" => running = c.turn
      /\ c.answer \in {"preparing", "awaited", "ok", "stale"}
  <2>1. c \in CallRecord /\ c.mode # "refresh" /\ c.answer # "failed" /\ c.msg \in Messages
    BY <1>1, CallFacts, MessagesAssumption DEF Shaped
  <2> QED BY <1>1, <2>1 DEF Shaped, CallRecord
<1>4. UNCHANGED <<pending, running, events>>
  BY <1>2 DEF CommandAnswered, Begin, StartAnswered, SteerAnswered, ReviewAnswered, RefreshAnswered
<1>5. ASSUME calls' = calls \ {c}, c.answer # "awaited", state'.reviewing => state.reviewing,
             \/ c.answer = "stale"
             \/ /\ state'.turn \in {state.turn, running}
                /\ state'.processing = state.processing /\ state'.reviewing = state.reviewing
      PROVE  (Reviewed => Reviewed') /\ (Straight => Straight')
  <2>1. Asked => Asked'
    BY <1>5 DEF Asked
  <2>2. Reviewed => Reviewed'
    BY <1>4, <1>5, <2>1, AsideReviewed, AsideShown
  <2>3. Straight => c.answer # "stale" /\ \A d \in calls' : d.answer # "stale"
    BY <1>5 DEF Straight
  <2>4. Straight => Shown'
    BY <1>4, <1>5, <2>3, AsideReviewed, AsideShown DEF Straight
  <2> QED BY <1>4, <2>2, <2>3, <2>4 DEF Straight
<1>6. \A t \in Turns : SetActiveTurnId(state, t).turn = t
                       /\ SetActiveTurnId(state, t).processing = state.processing
                       /\ SetActiveTurnId(state, t).reviewing = state.reviewing
  BY <1>1 DEF SetActiveTurnId, Thread
<1>7. \A s \in Thread : EndTurn(s).reviewing = s.reviewing
  BY DEF EndTurn, SetActiveTurnId, MarkProcessing, Thread
<1>8. c.turn \in Turns
  BY <1>3 DEF CallRecord
<1>9. ASSUME CommandAnswered(c) PROVE (Reviewed => Reviewed') /\ (Straight => Straight')
  <2>1. calls' = calls \ {c} /\ state' = state /\ c.answer # "awaited"
    BY <1>3, <1>9 DEF CommandAnswered, Answered
  <2> QED BY <1>5, <2>1
<1>10. ASSUME Begin(c) PROVE (Reviewed => Reviewed') /\ (Straight => Straight')
  <2>1. c.answer = "preparing"
    BY <1>10 DEF Begin
  <2>2. CASE calls' = calls \ {c} /\ UNCHANGED state
    BY <1>5, <2>1, <2>2
  <2>3. ASSUME calls' = (calls \ {c}) \cup {[c EXCEPT !.answer = "awaited"]},
               state' = CASE c.mode \in {"start", "steer"} -> MarkProcessing(state, TRUE)
                          [] c.mode = "review" ->
                               MarkReviewing(MarkProcessing(state, TRUE), TRUE)
                          [] c.mode = "command" -> state
        PROVE  (Reviewed => Reviewed') /\ (Straight => Straight')
    <3> DEFINE d == [c EXCEPT !.answer = "awaited"]
    <3>1. d.mode = c.mode /\ d.answer = "awaited"
      BY <1>3 DEF CallRecord
    <3>2. calls' = (calls \ {c}) \cup {d}
      BY <2>3
    <3> HIDE DEF d
    <3>3. Asked => Asked'
      BY <2>1, <3>2 DEF Asked
    <3>4. c.mode \in {"start", "steer"} \/ c.mode = "review" \/ c.mode = "command"
      BY <1>3 DEF CallRecord
    <3>5. /\ c.mode \in {"start", "steer"} => state' = MarkProcessing(state, TRUE)
          /\ c.mode = "review" => state' = MarkReviewing(MarkProcessing(state, TRUE), TRUE)
          /\ c.mode = "command" => state' = state
      BY <2>3
    <3>6. /\ state'.turn = state.turn
          /\ state.processing => state'.processing
          /\ state.reviewing => state'.reviewing
          /\ state'.reviewing => state.reviewing \/ c.mode = "review"
      BY <1>1, <3>4, <3>5 DEF MarkProcessing, MarkReviewing, Thread
    <3>7. c.mode = "review" => Asked'
      BY <3>1, <3>2 DEF Asked
    <3>8. (Reviewed => Reviewed') /\ (Shown => Shown')
      BY <1>4, <3>3, <3>6, <3>7, AsideReviewed, AsideShown
    <3>9. Straight => \A b \in calls' : b.answer # "stale"
      BY <3>1, <3>2 DEF Straight
    <3> QED BY <1>4, <3>8, <3>9 DEF Straight
  <2> QED BY <1>10, <2>2, <2>3 DEF Begin, AnswerWith
<1>11. ASSUME StartAnswered(c) PROVE (Reviewed => Reviewed') /\ (Straight => Straight')
  <2>1. c.mode = "start" /\ calls' = calls \ {c} /\ c.answer \in {"ok", "stale"}
    BY <1>3, <1>11 DEF StartAnswered, Answered
  <2>2. CASE c.answer = "ok"
    <3>1. state' = SetActiveTurnId(state, c.turn)
      BY <1>11, <2>2 DEF StartAnswered
    <3>2. running = c.turn
      BY <1>3, <2>1, <2>2 DEF TurnModes
    <3> QED BY <1>5, <1>6, <1>8, <2>1, <3>1, <3>2
  <2>3. CASE c.answer = "stale"
    <3>1. state' = EndTurn(state)
      BY <1>11, <2>3 DEF StartAnswered
    <3> QED BY <1>1, <1>5, <1>7, <2>1, <2>3, <3>1
  <2> QED BY <2>1, <2>2, <2>3
<1>12. ASSUME SteerAnswered(c) PROVE (Reviewed => Reviewed') /\ (Straight => Straight')
  <2>1. c.mode = "steer" /\ calls' = calls \ {c} /\ c.answer \in {"ok", "stale"}
    BY <1>3, <1>12 DEF SteerAnswered, Answered
  <2>2. CASE c.answer = "ok"
    <3>1. state' = SetActiveTurnId(state, c.turn)
      BY <1>12, <2>2 DEF SteerAnswered
    <3>2. running = c.turn
      BY <1>3, <2>1, <2>2 DEF TurnModes
    <3> QED BY <1>5, <1>6, <1>8, <2>1, <3>1, <3>2
  <2>3. CASE c.answer = "stale"
    <3> DEFINE s == [state EXCEPT !.queue = Append(@, c.msg)]
    <3>1. state' = EndTurn(s)
      BY <1>12, <2>3 DEF SteerAnswered
    <3>2. s \in Thread /\ s.reviewing = state.reviewing
      <4>1. Append(state.queue, c.msg) \in Seq(Messages)
        BY <1>1, <1>3 DEF Thread
      <4> QED BY <1>1, <4>1 DEF Thread
    <3> HIDE DEF s
    <3> QED BY <1>5, <1>7, <2>1, <2>3, <3>1, <3>2
  <2> QED BY <2>1, <2>2, <2>3
<1>13. ASSUME ReviewAnswered(c) PROVE (Reviewed => Reviewed') /\ (Straight => Straight')
  <2>1. c.mode = "review" /\ calls' = calls \ {c} /\ c.answer \in {"ok", "stale"}
    BY <1>3, <1>13 DEF ReviewAnswered, Answered
  <2>2. CASE c.answer = "ok"
    <3>1. state' = state
      BY <1>13, <2>2 DEF ReviewAnswered
    <3> QED BY <1>5, <2>1, <2>2, <3>1
  <2>3. CASE c.answer = "stale"
    <3>1. PICK cleared \in BOOLEAN :
            state' = MarkReviewing(IF cleared THEN EndTurn(state)
                                   ELSE MarkProcessing(state, FALSE), FALSE)
      BY <1>13, <2>3 DEF ReviewAnswered
    <3>2. ~state'.reviewing
      <4>1. (IF cleared THEN EndTurn(state) ELSE MarkProcessing(state, FALSE)) \in Thread
        BY <1>1, EndTurnFacts, ReducerFacts DEF Turns
      <4> QED BY <3>1, <4>1 DEF MarkReviewing, Thread
    <3> QED BY <1>5, <2>1, <2>3, <3>2
  <2> QED BY <2>1, <2>2, <2>3
<1>14. ~RefreshAnswered(c)
  BY <1>3 DEF RefreshAnswered
<1> QED BY <1>2, <1>9, <1>10, <1>11, <1>12, <1>13, <1>14

\* What is left of a review, and of the turn that runs, when an event is handled.
LEMMA TailShows ==
  ASSUME NEW q \in Seq(Notice), NEW r \in Turns, q # <<>>, Ordered(q, r), Whole(q)
  PROVE  /\ Head(q).kind \notin Leaves /\ InReview(q, r) => InReview(Tail(q), r)
         /\ Head(q).kind = "entered" => InReview(Tail(q), r)
         /\ r # NoTurn /\ ~Awaits(Tail(q), "started", r) =>
              /\ Head(q).turn = r /\ Head(q).kind \in Going
              /\ Head(q).kind # "started" => ~Awaits(q, "started", r)
              /\ Head(q).kind = "started" /\ r \in Reviews => Awaits(Tail(q), "entered", r)
              /\ Head(q).kind # "entered" /\ Awaits(q, "entered", r) =>
                   Awaits(Tail(q), "entered", r)
<1> DEFINE p == Tail(q)
           n == Len(p)
           e == Head(q)
<1>1. /\ p \in Seq(Notice) /\ n \in Nat /\ Len(q) = n + 1 /\ e = q[1]
      /\ \A i \in 1..n : p[i] = q[i + 1]
  OBVIOUS
<1> HIDE DEF p, n, e
<1>2. /\ \A i \in 1..n : i + 1 \in 1..Len(q)
      /\ \A j \in 1..Len(q) : j = 1 \/ (j - 1 \in 1..n /\ (j - 1) + 1 = j)
      /\ \A j \in 1..Len(q) : 1 < j => j # 1
      /\ 1 \in 1..Len(q)
  BY <1>1
<1>3. \A j \in 1..Len(q) : j = 1 \/ \E i \in 1..n : p[i] = q[j]
  BY <1>1, <1>2
<1>4. \A j \in 1..Len(q) : 1 < j => \E i \in 1..n : p[i] = q[j]
  BY <1>2, <1>3
<1>5. \A kind, t : Awaits(q, kind, t) => Awaits(p, kind, t) \/ (e.kind = kind /\ e.turn = t)
  BY <1>1, <1>3 DEF Awaits, n
<1>6. ASSUME e.kind \notin Leaves, InReview(q, r) PROVE InReview(p, r)
  <2>1. PICK t \in Reviews : t = r \/ \E i \in 1..Len(q) : q[i].turn = t /\ q[i].kind \in Leaves
    BY <1>6 DEF InReview
  <2>2. CASE t = r
    BY <2>2 DEF InReview
  <2>3. CASE \E i \in 1..Len(q) : q[i].turn = t /\ q[i].kind \in Leaves
    <3>1. PICK i \in 1..Len(q) : q[i].turn = t /\ q[i].kind \in Leaves
      BY <2>3
    <3>2. \E k \in 1..n : p[k] = q[i]
      BY <1>1, <1>3, <1>6, <3>1
    <3> QED BY <3>1, <3>2 DEF InReview, n
  <2> QED BY <2>1, <2>2, <2>3
<1>7. ASSUME e.kind = "entered" PROVE InReview(p, r)
  <2>1. \A i \in 1..Len(q) : q[i].kind = "entered" =>
          /\ q[i].turn \in Reviews
          /\ \/ q[i].turn = r
             \/ \E j \in 1..Len(q) : i < j /\ q[j].turn = q[i].turn /\ q[j].kind \in Leaves
    BY DEF Ordered
  <2>2. /\ e.turn \in Reviews
        /\ \/ e.turn = r
           \/ \E j \in 1..Len(q) : 1 < j /\ q[j].turn = e.turn /\ q[j].kind \in Leaves
    BY <1>1, <1>2, <1>7, <2>1
  <2>3. CASE e.turn = r
    BY <2>2, <2>3 DEF InReview
  <2>4. CASE \E j \in 1..Len(q) : 1 < j /\ q[j].turn = e.turn /\ q[j].kind \in Leaves
    <3>1. \E k \in 1..n : p[k].turn = e.turn /\ p[k].kind \in Leaves
      BY <1>4, <2>4
    <3> QED BY <2>2, <3>1 DEF InReview, n
  <2> QED BY <2>2, <2>3, <2>4
<1>8. ASSUME r # NoTurn, ~Awaits(p, "started", r) PROVE e.turn = r /\ e.kind \in Going
  <2>1. \A i \in 1..Len(q) : r # NoTurn /\ q[i].turn # r =>
          \E j \in 1..Len(q) : i < j /\ q[j].kind = "started" /\ q[j].turn = r
    BY DEF Ordered
  <2>2. e.turn = r
    <3>1. ASSUME e.turn # r PROVE FALSE
      <4>1. \E j \in 1..Len(q) : 1 < j /\ q[j].kind = "started" /\ q[j].turn = r
        BY <1>1, <1>2, <1>8, <2>1, <3>1
      <4> QED BY <1>4, <1>8, <4>1 DEF Awaits, n
    <3> QED BY <3>1
  <2>3. \A i \in 1..Len(q) : q[i].kind \notin Going => q[i].turn # r
    BY DEF Ordered
  <2> QED BY <1>1, <1>2, <2>2, <2>3
<1>9. ASSUME e.kind = "started", e.turn = r, r \in Reviews PROVE Awaits(p, "entered", r)
  <2>1. \A i \in 1..Len(q) : q[i].kind = "started" /\ q[i].turn \in Reviews =>
          \E j \in 1..Len(q) : i < j /\ q[j].kind = "entered" /\ q[j].turn = q[i].turn
    BY DEF Whole
  <2>2. \E j \in 1..Len(q) : 1 < j /\ q[j].kind = "entered" /\ q[j].turn = r
    BY <1>1, <1>2, <1>9, <2>1
  <2> QED BY <1>4, <2>2 DEF Awaits, n
<1>10. ASSUME r # NoTurn, ~Awaits(p, "started", r)
       PROVE  /\ e.turn = r /\ e.kind \in Going
              /\ e.kind # "started" => ~Awaits(q, "started", r)
              /\ e.kind = "started" /\ r \in Reviews => Awaits(p, "entered", r)
              /\ e.kind # "entered" /\ Awaits(q, "entered", r) => Awaits(p, "entered", r)
  BY <1>5, <1>8, <1>9, <1>10
<1> QED BY <1>6, <1>7, <1>10 DEF p, e

\* Events.
LEMMA EventsShow ==
  ASSUME Types, Types', Flow, OnEvent
  PROVE  (Reviewed => Reviewed' \/ disturbed'["unheeded"] # 0) /\ (Straight => Straight')
<1>1. /\ UNCHANGED <<calls, running>> /\ events # <<>> /\ events' = Tail(events)
      /\ events \in Seq(Notice) /\ running \in Turns /\ Ordered(events, running) /\ Whole(events)
  <2>1. UNCHANGED <<calls, running>> /\ events # <<>> /\ events' = Tail(events)
    BY DEF OnEvent, OnTurnStarted, OnTurnCompleted, OnTurnError, OnThreadStatusChanged, OnItem, Handle
  <2> QED BY <2>1 DEF Types, Flow, Paced
<1>2. PICK x, kind : x = Head(events).turn /\ kind = Head(events).kind
  OBVIOUS
<1>3. /\ kind \notin Leaves /\ InReview(events, running) => InReview(events', running)
      /\ kind = "entered" => InReview(events', running)
  BY <1>1, <1>2, TailShows
<1>4. ASSUME running # NoTurn, ~Awaits(events', "started", running)
      PROVE  /\ x = running /\ kind \in Going
             /\ kind # "started" => ~Awaits(events, "started", running)
             /\ kind = "started" /\ running \in Reviews => Awaits(events', "entered", running)
             /\ kind # "entered" /\ Awaits(events, "entered", running) =>
                  Awaits(events', "entered", running)
  BY <1>1, <1>2, <1>4, TailShows
<1>5. state \in Thread /\ disturbed \in [Disturbances -> Nat] /\ x \in Turns
  <2>1. Head(events) \in Notice
    BY <1>1
  <2> QED BY <1>2, <2>1 DEF Types, Notice
<1>6. Asked' <=> Asked
  BY <1>1 DEF Asked
<1>7. ASSUME kind \notin Leaves, state'.reviewing => state.reviewing \/ kind = "entered", Reviewed
      PROVE  Reviewed'
  <2>1. InReview(events', running') <=> InReview(events', running)
    BY <1>1
  <2> QED BY <1>3, <1>6, <1>7, <2>1 DEF Reviewed
<1>8. ASSUME ~state'.reviewing PROVE Reviewed'
  BY <1>8 DEF Reviewed
<1>9. ASSUME kind \notin Going, ~pending', Straight PROVE Straight'
  <2>1. ~(running # NoTurn /\ ~Awaits(events', "started", running))
    BY <1>4, <1>9
  <2>2. Shown'
    BY <1>1, <2>1 DEF Shown
  <2> QED BY <1>1, <1>9, <2>2 DEF Straight
<1>10. /\ EndTurn(state).reviewing = state.reviewing
       /\ ~MarkReviewing(EndTurn(state), FALSE).reviewing
  BY <1>5 DEF EndTurn, SetActiveTurnId, MarkProcessing, MarkReviewing, Thread
<1>11. ASSUME OnTurnStarted PROVE (Reviewed => Reviewed') /\ (Straight => Straight')
  <2>1. kind = "started" /\ kind \notin Leaves
    BY <1>2, <1>11 DEF OnTurnStarted, Handle, Leaves
  <2>2. CASE pending
    <3>1. state' = state
      BY <1>11, <2>2 DEF OnTurnStarted
    <3> QED BY <1>7, <2>1, <2>2, <3>1 DEF Straight
  <2>3. CASE ~pending
    <3>1. state' = SetActiveTurnId(MarkProcessing(state, TRUE), x) /\ pending' = pending
      BY <1>2, <1>11, <2>3 DEF OnTurnStarted
    <3>2. state'.turn = x /\ state'.processing /\ state'.reviewing = state.reviewing
      BY <1>5, <3>1 DEF SetActiveTurnId, MarkProcessing, Thread
    <3>3. Shown'
      BY <1>1, <1>4, <2>1, <3>2 DEF Shown
    <3> QED BY <1>1, <1>7, <2>1, <3>1, <3>2, <3>3 DEF Straight
  <2> QED BY <2>2, <2>3
<1>12. ASSUME OnTurnCompleted
       PROVE  (Reviewed => Reviewed') /\ (Straight => Straight')
  <2>1. kind = "completed" /\ kind \notin Leaves /\ kind \notin Going
    BY <1>2, <1>12 DEF OnTurnCompleted, Handle, Leaves, Going
  <2>2. state'.reviewing = state.reviewing /\ (pending' => pending)
    BY <1>10, <1>12 DEF OnTurnCompleted
  <2> QED BY <1>7, <1>9, <2>1, <2>2 DEF Straight
<1>13. ASSUME OnTurnError
       PROVE  (Reviewed => Reviewed' \/ disturbed'["unheeded"] # 0) /\ (Straight => Straight')
  <2>1. kind = "error" /\ kind \notin Going
    BY <1>2, <1>13 DEF OnTurnError, Handle, Going
  <2>2. pending' => pending
    BY <1>13 DEF OnTurnError
  <2>3. CASE Concerns(Head(events).turn)
    <3>1. ~state'.reviewing
      BY <1>10, <1>13, <2>3 DEF OnTurnError
    <3> QED BY <1>8, <1>9, <2>1, <2>2, <3>1 DEF Straight
  <2>4. CASE ~Concerns(Head(events).turn)
    <3>1. disturbed' = [disturbed EXCEPT !["unheeded"] = @ + 1]
      BY <1>13, <2>4 DEF OnTurnError
    <3>2. "unheeded" \in Disturbances
      BY DEF Disturbances
    <3>3. disturbed'["unheeded"] # 0
      BY <1>5, <3>1, <3>2
    <3> QED BY <1>9, <2>1, <2>2, <3>3 DEF Straight
  <2> QED BY <2>3, <2>4
<1>14. ASSUME OnThreadStatusChanged PROVE (Reviewed => Reviewed') /\ (Straight => Straight')
  <2>1. /\ kind \notin Going /\ ~pending'
        /\ \/ kind = "idle" /\ state' = EndTurn(state)
           \/ state' = MarkReviewing(EndTurn(state), FALSE)
    BY <1>2, <1>14 DEF OnThreadStatusChanged, Handle, Going
  <2>2. (state'.reviewing = state.reviewing /\ kind \notin Leaves) \/ ~state'.reviewing
    BY <1>10, <2>1 DEF Leaves
  <2> QED BY <1>7, <1>8, <1>9, <2>1, <2>2
<1>15. ASSUME OnItem PROVE (Reviewed => Reviewed') /\ (Straight => Straight')
  <2>1. pending' = pending
    BY <1>15 DEF OnItem
  <2>2. CASE kind = "exited"
    <3>1. state' = MarkProcessing(MarkReviewing(state, FALSE), FALSE)
      BY <1>2, <1>15, <2>2 DEF OnItem, Handle
    <3>2. ~state'.reviewing /\ kind \notin Going
      BY <1>5, <2>2, <3>1 DEF MarkProcessing, MarkReviewing, Thread, Going
    <3> QED BY <1>8, <1>9, <2>1, <3>2 DEF Straight
  <2>3. CASE kind \in {"item", "entered"}
    <3>1. state' = IF kind = "entered" THEN MarkReviewing(MarkProcessing(state, TRUE), TRUE)
                   ELSE MarkProcessing(state, TRUE)
      BY <1>2, <1>15, <2>3 DEF OnItem, Handle
    <3>2. /\ state'.turn = state.turn /\ state'.processing
          /\ state'.reviewing = IF kind = "entered" THEN TRUE ELSE state.reviewing
      BY <1>5, <3>1 DEF MarkProcessing, MarkReviewing, Thread
    <3>3. kind \notin Leaves /\ kind # "started"
      BY <2>3 DEF Leaves
    <3>4. Shown => Shown'
      BY <1>1, <1>4, <3>2, <3>3 DEF Shown
    <3> QED BY <1>1, <1>7, <2>1, <3>2, <3>3, <3>4 DEF Straight
  <2>4. kind \in {"item", "entered", "exited"}
    BY <1>2, <1>15 DEF OnItem, Handle
  <2> QED BY <2>2, <2>3, <2>4
<1> QED BY <1>11, <1>12, <1>13, <1>14, <1>15 DEF OnEvent

\* The app-server.
LEMMA ServerShows ==
  ASSUME IInv, Types', Calm, Smooth', Flow, Aimed, Server
  PROVE  /\ Reviewed => Reviewed'
         /\ Straight /\ disturbed'["stale"] = 0 => Straight'
<1>1. /\ Types /\ CallsKnow /\ Shaped /\ disturbed \in [Disturbances -> Nat]
      /\ "stale" \in Disturbances
      /\ UNCHANGED <<state, rendered, refs, pending>>
  <2>1. UNCHANGED <<state, rendered, refs, pending>>
    BY DEF Server, Serve, ServeStart, ServeSteer, ServeQuery, Fail, ServeInterrupt, Finish, Work
  <2> QED BY <2>1 DEF IInv, Flow, Types, Disturbances
<1>2. PICK new : Grows(events, running, events', running', new)
  BY ServerKeeps DEF Reported, Step
<1>3. InReview(events, running) => InReview(events', running')
  BY <1>2 DEF Grows
<1>4. Shown => Shown'
  <2>1. running' # NoTurn /\ ~Awaits(events', "started", running') =>
          /\ running' = running /\ ~Awaits(events, "started", running)
          /\ ~Awaits(events', "entered", running') => ~Awaits(events, "entered", running)
    BY <1>2 DEF Grows
  <2> QED BY <1>1, <2>1 DEF Shown
<1>5. ASSUME Asked => Asked' \/ InReview(events', running'),
             (\A c \in calls : c.answer # "stale") =>
               (\A c \in calls' : c.answer # "stale") \/ disturbed'["stale"] # 0
      PROVE  /\ Reviewed => Reviewed'
             /\ Straight /\ disturbed'["stale"] = 0 => Straight'
  <2>1. Reviewed => Reviewed'
    BY <1>1, <1>3, <1>5 DEF Reviewed
  <2>2. Straight /\ disturbed'["stale"] = 0 => Straight'
    BY <1>1, <1>4, <1>5 DEF Straight
  <2> QED BY <2>1, <2>2
<1>6. ASSUME UNCHANGED calls
      PROVE  /\ Reviewed => Reviewed'
             /\ Straight /\ disturbed'["stale"] = 0 => Straight'
  <2>1. Asked => Asked'
    BY <1>6 DEF Asked
  <2> QED BY <1>5, <1>6, <2>1
<1>7. ASSUME NEW c \in calls, ServeStart(c) \/ ServeSteer(c) \/ ServeQuery(c) \/ Fail(c)
      PROVE  /\ Reviewed => Reviewed'
             /\ Straight /\ disturbed'["stale"] = 0 => Straight'
  <2>1. c \in CallRecord
    BY <1>1 DEF Types
  <2>2. PICK d : /\ calls' = (calls \ {c}) \cup {d}
                 /\ c.mode = "review" => running' \in Reviews
                 /\ d.answer = "stale" => disturbed'["stale"] # 0
    <3>1. CASE ServeStart(c)
      <4>1. calls' = (calls \ {c}) \cup {[c EXCEPT !.answer = "ok"]} /\ running' = c.msg
        BY <3>1 DEF ServeStart, AnswerWith
      <4>2. [c EXCEPT !.answer = "ok"].answer = "ok"
        BY <2>1 DEF CallRecord
      <4>3. c.mode = "review" => c.msg \in Reviews
        BY <1>1 DEF Shaped
      <4> QED BY <4>1, <4>2, <4>3
    <3>2. CASE ServeSteer(c)
      <4>1. PICK answer \in {"ok", "stale"} :
              /\ calls' = (calls \ {c}) \cup {[c EXCEPT !.answer = answer]}
              /\ answer = "stale" => DisturbWith({"stale"})
        BY <3>2 DEF ServeSteer, AnswerWith, Disturb
      <4>2. [c EXCEPT !.answer = answer].answer = answer
        BY <2>1 DEF CallRecord
      <4>3. answer = "stale" => disturbed'["stale"] # 0
        BY <1>1, <4>1, DisturbFacts
      <4>4. c.mode # "review"
        BY <3>2 DEF ServeSteer
      <4> QED BY <4>1, <4>2, <4>3, <4>4
    <3>3. CASE ServeQuery(c)
      <4> DEFINE d == [c EXCEPT !.answer = "ok",
                                !.turn = IF c.mode = "refresh" THEN running ELSE NoTurn]
      <4>1. calls' = (calls \ {c}) \cup {d} /\ c.mode # "review"
        BY <3>3 DEF ServeQuery
      <4>2. d.answer = "ok"
        BY <2>1 DEF CallRecord
      <4> HIDE DEF d
      <4> QED BY <4>1, <4>2
    <3>4. CASE Fail(c)
      <4>1. DisturbWith({"failure"}) /\ "failure" \in Disturbances
        BY <3>4 DEF Fail, Disturb, Disturbances
      <4>2. disturbed'["failure"] # 0
        BY <1>1, <4>1, DisturbFacts
      <4> QED BY <4>2 DEF Smooth, Undisturbed
    <3> QED BY <1>7, <3>1, <3>2, <3>3, <3>4
  <2>3. Asked => Asked' \/ InReview(events', running')
    <3>1. ASSUME Asked, c.mode = "review" PROVE InReview(events', running')
      BY <2>2, <3>1 DEF InReview
    <3>2. ASSUME Asked, c.mode # "review" PROVE Asked'
      BY <2>2, <3>2 DEF Asked
    <3> QED BY <3>1, <3>2
  <2> QED BY <1>5, <2>2, <2>3
<1>8. UNCHANGED calls \/ \E c \in calls : ServeStart(c) \/ ServeSteer(c) \/ ServeQuery(c) \/ Fail(c)
  BY DEF Server, Serve, ServeInterrupt, Finish, Work
<1> QED BY <1>6, <1>7, <1>8

\* The invariant of what is shown: each part holds until what disturbs it.
ViewInv ==
  /\ Smooth /\ disturbed["unheeded"] = 0 => Reviewed
  /\ Smooth /\ disturbed["interrupt"] = 0 /\ disturbed["stale"] = 0 => Straight

\* At the start nothing is reviewed, and nothing runs.
LEMMA ViewStart ==
  ASSUME Init
  PROVE  ViewInv
<1>1. ~state.reviewing /\ pending = FALSE /\ calls = {} /\ running = NoTurn
  BY DEF Init
<1> QED BY <1>1 DEF ViewInv, Reviewed, Straight, Shown

\* Every step keeps it.
LEMMA ViewKeeps ==
  ASSUME IInv, IInv', SpinInv, ViewInv, [Next]_vars
  PROVE  ViewInv'
<1>1. Types /\ Types'
  BY DEF IInv
<1>2. CASE UNCHANGED vars
  <2>1. UNCHANGED <<state, pending, calls, running, events, disturbed>>
    BY <1>2 DEF vars, turnVars
  <2> QED BY <2>1 DEF ViewInv, Smooth, Undisturbed, Reviewed, Asked, Straight, Shown
<1>3. ASSUME Next, Smooth'
      PROVE  /\ disturbed'["unheeded"] = 0 => Reviewed'
             /\ disturbed'["interrupt"] = 0 /\ disturbed'["stale"] = 0 => Straight'
  <2>1. Smooth /\ Calm /\ Flow /\ Aimed
    BY <1>1, <1>3, SmoothBefore DEF SpinInv
  <2>2. \A kind \in {"unheeded", "interrupt", "stale"} : disturbed'[kind] = 0 => disturbed[kind] = 0
    BY <1>1, <1>3, DisturbedStays DEF Disturbances
  <2>3. /\ disturbed'["unheeded"] = 0 => Reviewed
        /\ disturbed'["interrupt"] = 0 /\ disturbed'["stale"] = 0 => Straight
    BY <2>1, <2>2 DEF ViewInv
  <2>4. CASE User
    BY <2>3, <2>4, UserShows
  <2>5. CASE Answers
    BY <2>1, <2>3, <2>5, AnswersShow
  <2>6. CASE OnEvent
    BY <1>1, <2>1, <2>3, <2>6, EventsShow
  <2>7. CASE Server
    BY <1>1, <1>3, <2>1, <2>3, <2>7, ServerShows
  <2>8. CASE Render \/ RunEffects
    BY <2>3, <2>8, EffectsShow
  <2> QED BY <1>3, <2>4, <2>5, <2>6, <2>7, <2>8 DEF Next
<1> QED BY <1>2, <1>3 DEF ViewInv

---------------------------------------------------------------------------
(* The queue *)

\* Once the effects ran, a queue that could be flushed was: a message is in
\* flight; and a message in flight that was seen to start and is over is let go.
Flushed ==
  /\ CanFlush => state.inFlight # NoMessage
  /\ rendered.active /\ ~Busy /\ rendered.inFlight # NoMessage /\ rendered.hasStarted =>
       ~state.hasStarted
QueueInv == Smooth /\ ~effectsDue => Flushed

\* The message in flight and its mark are written by the effects only, as long
\* as no command fails.
SameFlight ==
  /\ state'.inFlight = state.inFlight /\ state'.hasStarted = state.hasStarted
  /\ UNCHANGED <<rendered, effectsDue>>

\* Thread r has the flight of thread s.
KeepsFlight(s, r) == r \in Thread /\ r.inFlight = s.inFlight /\ r.hasStarted = s.hasStarted

\* The actions of the reducer.
LEMMA ReducerFlight ==
  ASSUME NEW s \in Thread, NEW r
  PROVE  /\ \A on \in BOOLEAN : r = MarkProcessing(s, on) \/ r = MarkReviewing(s, on) =>
              KeepsFlight(s, r)
         /\ \A t \in Turns : r = SetActiveTurnId(s, t) => KeepsFlight(s, r)
         /\ r = EndTurn(s) => KeepsFlight(s, r)
<1>1. \A on \in BOOLEAN : r = MarkProcessing(s, on) \/ r = MarkReviewing(s, on) => KeepsFlight(s, r)
  BY DEF MarkProcessing, MarkReviewing, KeepsFlight, Thread
<1>2. \A t \in Turns : r = SetActiveTurnId(s, t) => KeepsFlight(s, r)
  BY DEF SetActiveTurnId, KeepsFlight, Thread
<1>3. r = EndTurn(s) => KeepsFlight(s, r)
  BY DEF EndTurn, MarkProcessing, SetActiveTurnId, KeepsFlight, Thread, Turns
<1> QED BY <1>1, <1>2, <1>3

\* What the handlers compose of the reducer's actions.
LEMMA HandlersFlight ==
  ASSUME NEW s \in Thread, NEW r,
         \/ r = s
         \/ \E on \in BOOLEAN : r = MarkProcessing(s, on)
         \/ \E on, off \in BOOLEAN : r = MarkReviewing(MarkProcessing(s, on), off)
         \/ \E on, off \in BOOLEAN : r = MarkProcessing(MarkReviewing(s, on), off)
         \/ \E t \in Turns : r = SetActiveTurnId(s, t)
         \/ \E t \in Turns : r = SetActiveTurnId(MarkProcessing(s, TRUE), t)
         \/ r = EndTurn(s)
         \/ r = MarkReviewing(EndTurn(s), FALSE)
  PROVE  KeepsFlight(s, r)
<1>1. ASSUME NEW a \in Thread, NEW b, KeepsFlight(s, a), KeepsFlight(a, b) PROVE KeepsFlight(s, b)
  BY <1>1 DEF KeepsFlight
<1>2. \A a : KeepsFlight(s, a) => a \in Thread
  BY DEF KeepsFlight
<1>3. TRUE \in BOOLEAN /\ FALSE \in BOOLEAN
  OBVIOUS
<1>4. CASE r = s
  BY <1>4 DEF KeepsFlight
<1>5. ASSUME NEW on \in BOOLEAN, r = MarkProcessing(s, on) PROVE KeepsFlight(s, r)
  BY <1>5, ReducerFlight
<1>6. ASSUME NEW on \in BOOLEAN, NEW off \in BOOLEAN, r = MarkReviewing(MarkProcessing(s, on), off)
      PROVE  KeepsFlight(s, r)
  <2>1. KeepsFlight(s, MarkProcessing(s, on))
    BY ReducerFlight
  <2>2. KeepsFlight(MarkProcessing(s, on), r)
    BY <1>2, <1>6, <2>1, ReducerFlight
  <2> QED BY <1>1, <1>2, <2>1, <2>2
<1>7. ASSUME NEW on \in BOOLEAN, NEW off \in BOOLEAN, r = MarkProcessing(MarkReviewing(s, on), off)
      PROVE  KeepsFlight(s, r)
  <2>1. KeepsFlight(s, MarkReviewing(s, on))
    BY ReducerFlight
  <2>2. KeepsFlight(MarkReviewing(s, on), r)
    BY <1>2, <1>7, <2>1, ReducerFlight
  <2> QED BY <1>1, <1>2, <2>1, <2>2
<1>8. ASSUME NEW t \in Turns, r = SetActiveTurnId(s, t) PROVE KeepsFlight(s, r)
  BY <1>8, ReducerFlight
<1>9. ASSUME NEW t \in Turns, r = SetActiveTurnId(MarkProcessing(s, TRUE), t)
      PROVE  KeepsFlight(s, r)
  <2>1. KeepsFlight(s, MarkProcessing(s, TRUE))
    BY <1>3, ReducerFlight
  <2>2. KeepsFlight(MarkProcessing(s, TRUE), r)
    BY <1>2, <1>9, <2>1, ReducerFlight
  <2> QED BY <1>1, <1>2, <2>1, <2>2
<1>10. CASE r = EndTurn(s)
  BY <1>10, ReducerFlight
<1>11. CASE r = MarkReviewing(EndTurn(s), FALSE)
  <2>1. KeepsFlight(s, EndTurn(s))
    BY ReducerFlight
  <2>2. KeepsFlight(EndTurn(s), r)
    BY <1>2, <1>3, <1>11, <2>1, ReducerFlight
  <2> QED BY <1>1, <1>2, <2>1, <2>2
<1> QED BY <1>4, <1>5, <1>6, <1>7, <1>8, <1>9, <1>10, <1>11

\* What the user does leaves it.
LEMMA UserFlight ==
  ASSUME Types, User
  PROVE  SameFlight
<1>1. state \in Thread /\ NoTurn \in Turns /\ FALSE \in BOOLEAN
  BY DEF Types, Turns
<1>2. ASSUME NEW m \in Messages, HandleSend(m) \/ QueueMessage(m) \/ RemoveQueuedMessage(m)
      PROVE  SameFlight
  <2>1. UNCHANGED <<rendered, effectsDue>>
    BY <1>2 DEF HandleSend, QueueMessage, RemoveQueuedMessage
  <2>2. state' = state \/ \E q : state' = [state EXCEPT !.queue = q]
    <3>1. HandleSend(m) => state' = state \/ state' = [state EXCEPT !.queue = Append(@, m)]
      BY DEF HandleSend
    <3> QED BY <1>2, <3>1 DEF QueueMessage, RemoveQueuedMessage
  <2> QED BY <1>1, <2>1, <2>2 DEF SameFlight, Thread
<1>3. ASSUME SelectThread PROVE SameFlight
  BY <1>1, <1>3 DEF SelectThread, SameFlight, Thread
<1>4. ASSUME InterruptTurn, UNCHANGED effectsDue PROVE SameFlight
  <2>1. state' = EndTurn(state) /\ UNCHANGED rendered
    BY <1>4 DEF InterruptTurn
  <2> QED BY <1>1, <1>4, <2>1, HandlersFlight DEF SameFlight, KeepsFlight
<1>5. ASSUME RefreshThread, UNCHANGED effectsDue PROVE SameFlight
  BY <1>5 DEF RefreshThread, SameFlight
<1> QED BY <1>2, <1>3, <1>4, <1>5 DEF User

\* So do events,
LEMMA EventFlight ==
  ASSUME Types, OnEvent
  PROVE  SameFlight
<1>1. state \in Thread /\ NoTurn \in Turns /\ UNCHANGED <<rendered, effectsDue>>
  <2>1. UNCHANGED <<rendered, effectsDue>>
    BY DEF OnEvent, OnTurnStarted, OnTurnCompleted, OnTurnError, OnThreadStatusChanged, OnItem
  <2> QED BY <2>1 DEF Types, Turns
<1>2. \/ state' = state
      \/ \E t \in Turns : state' = SetActiveTurnId(MarkProcessing(state, TRUE), t)
      \/ state' = EndTurn(state)
      \/ state' = MarkReviewing(EndTurn(state), FALSE)
      \/ state' = MarkProcessing(state, TRUE)
      \/ state' = MarkReviewing(MarkProcessing(state, TRUE), TRUE)
      \/ state' = MarkProcessing(MarkReviewing(state, FALSE), FALSE)
  <2>1. OnTurnStarted =>
          \/ state' = state
          \/ \E t \in Turns : state' = SetActiveTurnId(MarkProcessing(state, TRUE), t)
    <3>1. ASSUME OnTurnStarted PROVE Head(events).turn \in Turns
      BY <3>1, HandleFacts DEF OnTurnStarted
    <3> QED BY <3>1 DEF OnTurnStarted
  <2>2. OnTurnCompleted \/ OnTurnError \/ OnThreadStatusChanged =>
          \/ state' = state
          \/ state' = EndTurn(state)
          \/ state' = MarkReviewing(EndTurn(state), FALSE)
    BY DEF OnTurnCompleted, OnTurnError, OnThreadStatusChanged
  <2>3. OnItem =>
          \/ state' = MarkProcessing(state, TRUE)
          \/ state' = MarkReviewing(MarkProcessing(state, TRUE), TRUE)
          \/ state' = MarkProcessing(MarkReviewing(state, FALSE), FALSE)
    BY DEF OnItem
  <2> QED BY <2>1, <2>2, <2>3 DEF OnEvent
<1>3. TRUE \in BOOLEAN /\ FALSE \in BOOLEAN
  OBVIOUS
<1>4. KeepsFlight(state, state')
  BY <1>1, <1>2, <1>3, HandlersFlight
<1> QED BY <1>1, <1>4 DEF SameFlight, KeepsFlight

\* and answers, when none has failed.
LEMMA AnswerFlight ==
  ASSUME IInv, Flow, Answers
  PROVE  SameFlight
<1>1. /\ Types /\ CallsKnow /\ Shaped /\ state \in Thread /\ NoTurn \in Turns
      /\ TRUE \in BOOLEAN /\ FALSE \in BOOLEAN
  BY DEF IInv, Flow, Types, Turns
<1>2. PICK c \in calls : \/ CommandAnswered(c)
                         \/ /\ \/ Begin(c) \/ StartAnswered(c) \/ SteerAnswered(c)
                               \/ ReviewAnswered(c) \/ RefreshAnswered(c)
                            /\ UNCHANGED effectsDue
  BY DEF Answers
<1>3. /\ c \in CallRecord /\ c.mode # "refresh" /\ c.answer # "failed"
      /\ c.msg \in Messages /\ c.turn \in Turns
      /\ c.mode \in {"start", "steer", "review", "command"}
      /\ c.answer \in {"preparing", "awaited", "ok", "stale"}
  <2>1. c \in CallRecord /\ c.mode # "refresh" /\ c.answer # "failed" /\ c.msg \in Messages
    BY <1>1, CallFacts, MessagesAssumption DEF Shaped
  <2> QED BY <2>1 DEF CallRecord
<1>4. UNCHANGED <<rendered, effectsDue>>
  BY <1>2 DEF CommandAnswered, Begin, StartAnswered, SteerAnswered, ReviewAnswered, RefreshAnswered
<1> DEFINE kept == [state EXCEPT !.queue = Append(@, c.msg)]
<1>5. kept \in Thread /\ kept.inFlight = state.inFlight /\ kept.hasStarted = state.hasStarted
  <2>1. Append(state.queue, c.msg) \in Seq(Messages)
    BY <1>1, <1>3 DEF Thread
  <2> QED BY <1>1, <2>1 DEF Thread
<1>6. \/ state' = state
      \/ state' = MarkProcessing(state, TRUE)
      \/ state' = MarkReviewing(MarkProcessing(state, TRUE), TRUE)
      \/ state' = SetActiveTurnId(state, c.turn)
      \/ state' = EndTurn(state)
      \/ state' = EndTurn(kept)
      \/ state' = MarkReviewing(EndTurn(state), FALSE)
      \/ state' = MarkReviewing(MarkProcessing(state, FALSE), FALSE)
  <2>1. ASSUME Begin(c)
        PROVE  \/ state' = state
               \/ state' = MarkProcessing(state, TRUE)
               \/ state' = MarkReviewing(MarkProcessing(state, TRUE), TRUE)
    BY <1>3, <2>1 DEF Begin
  <2>2. CommandAnswered(c) => state' = state
    BY <1>3 DEF CommandAnswered
  <2>3. StartAnswered(c) => state' = SetActiveTurnId(state, c.turn) \/ state' = EndTurn(state)
    BY DEF StartAnswered
  <2>4. ASSUME SteerAnswered(c)
        PROVE  state' = SetActiveTurnId(state, c.turn) \/ state' = EndTurn(kept)
    <3>1. c.answer \in {"ok", "stale"}
      BY <1>3, <2>4 DEF SteerAnswered, Answered
    <3> QED BY <2>4, <3>1 DEF SteerAnswered
  <2>5. ASSUME ReviewAnswered(c)
        PROVE  \/ state' = state
               \/ state' = MarkReviewing(EndTurn(state), FALSE)
               \/ state' = MarkReviewing(MarkProcessing(state, FALSE), FALSE)
    BY <2>5 DEF ReviewAnswered
  <2>6. ~RefreshAnswered(c)
    BY <1>3 DEF RefreshAnswered
  <2> QED BY <1>2, <2>1, <2>2, <2>3, <2>4, <2>5, <2>6
<1> HIDE DEF kept
<1>7. KeepsFlight(state, state') \/ KeepsFlight(kept, state')
  BY <1>1, <1>3, <1>5, <1>6, HandlersFlight
<1> QED BY <1>4, <1>5, <1>7 DEF SameFlight, KeepsFlight

\* The effects bring it about, a render makes them due, and no other step matters.
LEMMA QueueKeeps ==
  ASSUME IInv, SpinInv, QueueInv, [Next]_vars
  PROVE  QueueInv'
<1>1. Types
  BY DEF IInv
<1>2. CASE UNCHANGED vars
  <2>1. UNCHANGED <<state, rendered, effectsDue, disturbed>>
    BY <1>2 DEF vars, turnVars
  <2> QED BY <2>1 DEF QueueInv, Smooth, Undisturbed, Flushed, CanFlush, Busy
<1>3. ASSUME Next, Smooth', ~effectsDue' PROVE Flushed'
  <2>1. Smooth /\ Flow
    BY <1>1, <1>3, SmoothBefore DEF SpinInv
  <2>2. ASSUME SameFlight PROVE Flushed'
    <3>1. Flushed
      BY <1>3, <2>1, <2>2 DEF QueueInv, SameFlight
    <3>2. (CanFlush' <=> CanFlush) /\ (Busy' <=> Busy) /\ rendered' = rendered
      BY <2>2 DEF SameFlight, CanFlush, Busy
    <3> QED BY <2>2, <3>1, <3>2 DEF SameFlight, Flushed
  <2>3. ASSUME Server PROVE SameFlight
    <3>1. UNCHANGED <<state, rendered, effectsDue>>
      BY <2>3 DEF Server, Serve, ServeStart, ServeSteer, ServeQuery, Fail, ServeInterrupt, Finish,
                  Work
    <3> QED BY <3>1 DEF SameFlight
  <2>4. ASSUME RunEffects PROVE Flushed'
    <3>1. /\ state \in Thread /\ rendered' = rendered
          /\ (CanFlush' <=> CanFlush) /\ (Busy' <=> Busy)
      BY <1>1, <2>4 DEF Types, RunEffects, CanFlush, Busy
    <3>2. CASE CanFlush
      <4>1. Head(rendered.queue) \in Messages
        <5>1. rendered.queue \in Seq(Messages) /\ rendered.queue # <<>>
          BY <1>1, <3>2 DEF Types, Thread, CanFlush
        <5> QED BY <5>1
      <4>2. state'.inFlight = Head(rendered.queue)
        BY <2>4, <3>1, <3>2 DEF RunEffects, Flush, Thread
      <4>3. rendered.inFlight = NoMessage /\ NoMessage \notin Messages
        BY <3>2, MessagesAssumption DEF CanFlush, MessagesAssumption
      <4> QED BY <3>1, <4>1, <4>2, <4>3 DEF Flushed
    <3>3. CASE ~CanFlush
      <4>1. state' = WatchInFlight
        BY <2>4, <3>3 DEF RunEffects
      <4>2. rendered.active /\ ~Busy /\ rendered.inFlight # NoMessage /\ rendered.hasStarted =>
              ~state'.hasStarted
        BY <3>1, <4>1 DEF WatchInFlight, Thread
      <4> QED BY <3>1, <3>3, <4>2 DEF Flushed
    <3> QED BY <3>2, <3>3
  <2>5. ~Render
    BY <1>3 DEF Render
  <2> QED BY <1>1, <1>3, <2>1, <2>2, <2>3, <2>4, <2>5, UserFlight, AnswerFlight, EventFlight
          DEF IInv, Next
<1> QED BY <1>2, <1>3 DEF QueueInv

---------------------------------------------------------------------------
(* Together *)

\* So the three always hold.
LEMMA ViewInvariance == Spec => [](SpinInv /\ ViewInv /\ QueueInv)
<1>1. Init => SpinInv /\ ViewInv /\ QueueInv
  <2>1. Init => QueueInv
    <3>1. Init => rendered.queue = <<>> /\ rendered.inFlight = NoMessage
      BY DEF Init
    <3> QED BY <3>1 DEF QueueInv, Flushed, CanFlush
  <2> QED BY <2>1, FlowStart, ViewStart
<1>2. IInv /\ IInv' /\ SpinInv /\ ViewInv /\ QueueInv /\ [Next]_vars =>
        (SpinInv /\ ViewInv /\ QueueInv)'
  BY FlowKeeps, ViewKeeps, QueueKeeps
<1> QED BY <1>1, <1>2, Invariance, PTL DEF Spec

\* When nothing is on its way and no turn runs, the thread neither spins nor shows
\* a turn, also after interrupts, second reports of an end, crossing messages and
\* stale steers: the turn that is shown and the one the cache gives are turns that
\* run or of which an event is still to come, and what spins waits for one of
\* these or for an answer.
THEOREM SpinnerAlwaysEnds == Spec => []SpinnerEnds
<1>1. IInv /\ SpinInv => SpinnerEnds
  BY NothingSpins DEF SpinnerEnds, Smooth
<1> QED BY <1>1, Invariance, ViewInvariance, PTL

\* A thread that reviews has a review that runs, is asked for, or is still to be left.
LEMMA NothingReviews ==
  ASSUME ViewInv, Settled, Smooth, disturbed["unheeded"] = 0, state.reviewing
  PROVE  running \in Reviews
<1>1. calls = {} /\ events = <<>> /\ Reviewed
  BY DEF Settled, ViewInv
<1> QED BY <1>1 DEF Reviewed, Asked, InReview

\* When nothing is on its way the thread shows the turn the app-server runs, spins
\* exactly while there is one, and reviews exactly while it is a review, in
\* whatever order answers, events and renders came.
THEOREM ViewIsAlwaysTrue == Spec => []ViewIsTrue
<1>1. ASSUME IInv, SpinInv, ViewInv, Settled,
             Undisturbed({"interrupt", "refresh", "failure", "late", "stale", "unheeded"})
      PROVE  /\ state.turn = running
             /\ state.processing <=> running # NoTurn
             /\ state.reviewing <=> running \in Reviews
  <2>1. /\ Smooth /\ disturbed["unheeded"] = 0 /\ disturbed["interrupt"] = 0
        /\ disturbed["stale"] = 0
    BY <1>1 DEF Smooth, Undisturbed
  <2>2. state.reviewing => running \in Reviews
    BY <1>1, <2>1, NothingReviews
  <2>3. \A kind, t : ~Awaits(events, kind, t)
    BY <1>1 DEF Settled, Awaits
  <2>4. CASE running = NoTurn
    <3>1. NoTurn \notin Reviews
      BY MessagesAssumption DEF MessagesAssumption
    <3> QED BY <1>1, <2>1, <2>2, <2>4, <3>1, NothingSpins
  <2>5. CASE running # NoTurn
    <3>1. Shown
      BY <1>1, <2>1 DEF ViewInv, Straight
    <3> QED BY <2>2, <2>3, <2>5, <3>1 DEF Shown
  <2> QED BY <2>4, <2>5
<1>2. IInv /\ SpinInv /\ ViewInv => ViewIsTrue
  BY <1>1 DEF ViewIsTrue
<1> QED BY <1>2, Invariance, ViewInvariance, PTL

\* The queue of the selected thread does not wait for nothing: quiet, with no
\* turn running, it is empty or its message in flight was never seen to start.
THEOREM QueueIsAlwaysServed == Spec => []QueueIsServed
<1>1. ASSUME IInv, SpinInv, ViewInv, QueueInv, Settled, running = NoTurn, state.active, ~Stuck,
             Undisturbed({"refresh", "failure", "late", "unheeded"})
      PROVE  state.queue = <<>>
  <2>1. Smooth /\ disturbed["unheeded"] = 0
    BY <1>1 DEF Smooth, Undisturbed
  <2>2. rendered = state /\ ~effectsDue
    BY <1>1 DEF Settled
  <2>3. NoTurn \notin Reviews
    BY MessagesAssumption DEF MessagesAssumption
  <2>4. ~Busy
    BY <1>1, <2>1, <2>2, <2>3, NothingSpins, NothingReviews DEF Busy
  <2>5. Flushed
    BY <1>1, <2>1, <2>2 DEF QueueInv
  <2>6. state.inFlight = NoMessage
    BY <1>1, <2>2, <2>4, <2>5 DEF Flushed, Stuck
  <2> QED BY <1>1, <2>2, <2>4, <2>5, <2>6 DEF Flushed, CanFlush
<1>2. IInv /\ SpinInv /\ ViewInv /\ QueueInv => QueueIsServed
  BY <1>1 DEF QueueIsServed
<1> QED BY <1>2, Invariance, ViewInvariance, PTL
=============================================================================
