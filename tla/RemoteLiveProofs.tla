-------------------------- MODULE RemoteLiveProofs --------------------------
(***************************************************************************)
(* Proofs about RemoteLive: once everything is answered the selected       *)
(* thread is attached and no other is, for any number of threads and of    *)
(* disturbances.                                                           *)
(*                                                                         *)
(* The argument never needs the order of the attempts, only which there    *)
(* are: UnderWay is their set, and the lemmas of the first part say what   *)
(* each operator of the model does to it.                                  *)
(***************************************************************************)
EXTENDS RemoteLive, SequenceTheorems, TLAPS

Windows == {"focused", "visible", "hidden"}
Stages == {"connecting", "resuming", "dropping", "subscribing", "cleaning"}
Attempt == [key : Threads, resume : BOOLEAN, current : BOOLEAN, pc : Stages,
            answer : {"none", "ok", "failed"}]
Client == [active : Keys, desired : Keys, ignored : SUBSET Threads,
           connected : BOOLEAN, disconnected : BOOLEAN, attempts : Seq(Attempt)]
Event == [kind : {"attached", "detached"}, thread : Threads]
         \cup [kind : {"connected"}, thread : {NoThread}]

TypeOK ==
  /\ selected \in Keys /\ window \in Windows /\ up \in BOOLEAN /\ client \in Client
  /\ drops \in [Threads -> Nat] /\ refreshing \in Keys /\ subscribed \subseteq Threads
  /\ events \in Seq(Event) /\ disturbed \in Nat /\ crossed \subseteq Crossings

\* The attempts of a client under way.
UnderWay(c) == {c.attempts[i] : i \in DOMAIN c.attempts}

\* Without its session the daemon has no subscription, and the client is told so.
Down == ~up => subscribed = {} /\ ~client.connected

---------------------------------------------------------------------------
(* No other thread stays attached. *)

Followed == crossed \cap {"left", "refresh"} = {}

\* What the client wants is what the user sees, and so is what a current attempt
\* is for and what the client is attached to.
Own ==
  Followed =>
    /\ client.desired # NoThread => client.desired = selected
    /\ client.active # NoThread => client.active = selected
    /\ \A a \in UnderWay(client) :
         a.current => a.key = client.desired /\ window # "hidden"
    /\ window = "hidden" /\ client.desired # NoThread => UnderWay(client) = {}

Wanted == IF window = "hidden" THEN NoThread ELSE client.desired

\* An attempt that will undo a subscription of its thread, if that is unwanted.
Undoes(a) ==
  \/ a.pc = "dropping"
  \/ a.pc = "subscribing" /\ a.answer # "failed"
  \/ a.pc = "cleaning" /\ a.answer = "none"

\* An unsubscribe of the thread is under way or to come.
Owed(t) == drops[t] > 0 \/ \E a \in UnderWay(client) : a.key = t /\ Undoes(a)

Kept == crossed \cap {"failure", "left", "again", "refresh"} = {}

Undone == Kept => \A t \in subscribed : t = Wanted \/ Owed(t)

---------------------------------------------------------------------------
(* The selected thread is attached. *)

\* Nothing crossed, nor will once a stale attempt has detached its thread.
Sound ==
  /\ crossed \cap {"failure", "torn", "joined", "left", "dropped", "refresh",
                   "unheard"} = {}
  /\ \A a \in UnderWay(client) : a.pc = "dropping" => a.current

\* No call is refused, and only a stale attempt cleans up.
Answered ==
  \A a \in UnderWay(client) :
    /\ a.answer # "failed"
    /\ ~up => a.pc = "connecting"
    /\ a.pc = "cleaning" => ~a.current

Detaches(e, t) == e.kind = "detached" /\ e.thread = t

Told(t) == \E i \in DOMAIN events : Detaches(events[i], t)

ToldTwice(t) ==
  \E i, j \in DOMAIN events : i < j /\ Detaches(events[i], t) /\ Detaches(events[j], t)

\* What the handler has been told to ignore is on its way, or is to be sent.
Marked ==
  \A t \in client.ignored :
    \/ Told(t)
    \/ \E a \in UnderWay(client) : a.key = t /\ a.pc = "dropping" /\ a.answer = "none"

\* A current attempt has its subscribe before it.
Coming ==
  \E a \in UnderWay(client) :
    /\ a.current
    /\ \/ a.pc \in {"connecting", "resuming", "dropping"}
       \/ a.pc = "subscribing" /\ a.answer = "none"

Landed ==
  \E a \in UnderWay(client) : a.current /\ a.pc = "subscribing" /\ a.answer = "ok"

\* The client will hear that the thread is detached, and not ignore it.
Heard(t) == IF t \in client.ignored THEN ToldTwice(t) ELSE Told(t)

Obliged ==
  /\ selected # NoThread
  /\ window = "focused" \/ \E a \in UnderWay(client) : a.current

Live ==
  Obliged =>
    \/ Coming
    \/ selected \in subscribed /\ (client.active = selected \/ Landed)
    \/ Heard(selected)

Attached == Sound => Answered /\ Marked /\ Live

Inv == TypeOK /\ Down /\ Own /\ Undone /\ Attached

---------------------------------------------------------------------------
(* What the operators of the model do to a client. *)

LEMMA RemoveAtFacts ==
  ASSUME NEW S, NEW s \in Seq(S), NEW i \in 1..Len(s)
  PROVE  /\ RemoveAt(s, i) \in Seq(S)
         /\ \A j \in DOMAIN RemoveAt(s, i) : \E k \in DOMAIN s : RemoveAt(s, i)[j] = s[k]
         /\ \A k \in DOMAIN s : k # i => \E j \in DOMAIN RemoveAt(s, i) : RemoveAt(s, i)[j] = s[k]
<1> DEFINE front == SubSeq(s, 1, i - 1)
           back == SubSeq(s, i + 1, Len(s))
<1>1. front \in Seq(S) /\ Len(front) = i - 1 /\ \A k \in 1..(i - 1) : front[k] = s[k]
  <2>1. \A k \in 1..(i - 1) : s[k] \in S
    OBVIOUS
  <2>. HIDE DEF front
  <2>2. /\ front \in Seq(S)
        /\ Len(front) = IF 1 <= i - 1 THEN (i - 1) - 1 + 1 ELSE 0
        /\ \A k \in 1..((i - 1) - 1 + 1) : front[k] = s[1 + k - 1]
    BY <2>1, SubSeqProperties DEF front
  <2>. QED BY <2>2
<1>2. back \in Seq(S) /\ Len(back) = Len(s) - i /\ \A k \in 1..(Len(s) - i) : back[k] = s[i + k]
  <2>1. \A k \in (i + 1)..Len(s) : s[k] \in S
    OBVIOUS
  <2>. HIDE DEF back
  <2>2. /\ back \in Seq(S)
        /\ Len(back) = IF i + 1 <= Len(s) THEN Len(s) - (i + 1) + 1 ELSE 0
        /\ \A k \in 1..(Len(s) - (i + 1) + 1) : back[k] = s[(i + 1) + k - 1]
    BY <2>1, SubSeqProperties DEF back
  <2>. QED BY <2>2
<1> DEFINE r == front \o back
<1>3. RemoveAt(s, i) = r
  BY DEF RemoveAt
<1> HIDE DEF front, back
<1>4. /\ r \in Seq(S) /\ Len(r) = Len(s) - 1
      /\ \A j \in 1..(Len(s) - 1) : r[j] = IF j < i THEN s[j] ELSE s[j + 1]
  <2>1. /\ r \in Seq(S) /\ Len(r) = Len(front) + Len(back)
        /\ \A j \in 1..(Len(front) + Len(back)) :
             r[j] = IF j <= Len(front) THEN front[j] ELSE back[j - Len(front)]
    BY <1>1, <1>2, ConcatProperties
  <2>2. Len(r) = Len(s) - 1
    BY <1>1, <1>2, <2>1
  <2>3. ASSUME NEW j \in 1..(Len(s) - 1), j < i PROVE r[j] = s[j]
    BY <1>1, <1>2, <2>1, <2>3
  <2>4. ASSUME NEW j \in 1..(Len(s) - 1), ~(j < i) PROVE r[j] = s[j + 1]
    <3>1. r[j] = back[j - (i - 1)] /\ j - (i - 1) \in 1..(Len(s) - i)
      BY <1>1, <1>2, <2>1, <2>4
    <3>2. back[j - (i - 1)] = s[i + (j - (i - 1))]
      BY <1>2, <3>1
    <3>3. i + (j - (i - 1)) = j + 1
      OBVIOUS
    <3>. QED BY <3>1, <3>2, <3>3
  <2>. QED BY <2>1, <2>2, <2>3, <2>4
<1> HIDE DEF r
<1>5. ASSUME NEW j \in DOMAIN r PROVE \E k \in DOMAIN s : r[j] = s[k]
  <2>1. CASE j < i
    <3>1. j \in DOMAIN s /\ r[j] = s[j]
      BY <1>4, <1>5, <2>1
    <3>. QED BY <3>1
  <2>2. CASE ~(j < i)
    <3>1. j + 1 \in DOMAIN s /\ r[j] = s[j + 1]
      BY <1>4, <1>5, <2>2
    <3>. QED BY <3>1
  <2>. QED BY <2>1, <2>2
<1>6. ASSUME NEW k \in DOMAIN s, k # i PROVE \E j \in DOMAIN r : r[j] = s[k]
  <2>1. CASE k < i
    <3>1. k \in DOMAIN r /\ r[k] = s[k]
      BY <1>4, <1>6, <2>1
    <3>. QED BY <3>1
  <2>2. CASE ~(k < i)
    <3>1. k - 1 \in DOMAIN r /\ r[k - 1] = s[k]
      BY <1>4, <1>6, <2>2
    <3>. QED BY <3>1
  <2>. QED BY <2>1, <2>2
<1>. QED BY <1>3, <1>4, <1>5, <1>6

\* The attempt a gives way to those of F.
Swaps(c, d, a, F) ==
  /\ UnderWay(d) \subseteq UnderWay(c) \cup F
  /\ UnderWay(c) \subseteq UnderWay(d) \cup {a}
  /\ F \subseteq UnderWay(d)

\* Apart from its attempts and what it ignores the client is as it was.
Alike(c, d) ==
  /\ d.active = c.active /\ d.desired = c.desired
  /\ d.connected = c.connected

LEMMA OverFacts ==
  ASSUME NEW c \in Client, NEW i \in DOMAIN c.attempts
  PROVE  /\ Over(c, i) \in Client /\ Alike(c, Over(c, i))
         /\ Over(c, i).ignored = c.ignored
         /\ Swaps(c, Over(c, i), c.attempts[i], {})
<1> DEFINE s == c.attempts
           d == Over(c, i)
<1>1. s \in Seq(Attempt) /\ i \in 1..Len(s)
  BY DEF Client
<1>2. d = [c EXCEPT !.attempts = RemoveAt(s, i)]
  BY DEF Over
<1>3. RemoveAt(s, i) \in Seq(Attempt)
  BY <1>1, RemoveAtFacts
<1>4. /\ \A j \in DOMAIN RemoveAt(s, i) : \E k \in DOMAIN s : RemoveAt(s, i)[j] = s[k]
      /\ \A k \in DOMAIN s : k # i => \E j \in DOMAIN RemoveAt(s, i) : RemoveAt(s, i)[j] = s[k]
  BY <1>1, RemoveAtFacts
<1> HIDE DEF d
<1>5. d \in Client /\ d.attempts = RemoveAt(s, i) /\ Alike(c, d) /\ d.ignored = c.ignored
  BY <1>2, <1>3 DEF Client, Alike
<1>6. Swaps(c, d, c.attempts[i], {})
  BY <1>4, <1>5 DEF Swaps, UnderWay
<1>. QED BY <1>5, <1>6 DEF d

\* An attempt replaced in its place.
LEMMA PlaceFacts ==
  ASSUME NEW c \in Client, NEW i \in DOMAIN c.attempts, NEW b \in Attempt
  PROVE  LET d == [c EXCEPT !.attempts = [@ EXCEPT ![i] = b]]
         IN  /\ d \in Client /\ Alike(c, d) /\ d.ignored = c.ignored
             /\ Swaps(c, d, c.attempts[i], {b})
<1> DEFINE s == c.attempts
           r == [s EXCEPT ![i] = b]
           d == [c EXCEPT !.attempts = r]
<1>1. s \in Seq(Attempt) /\ i \in 1..Len(s)
  BY DEF Client
<1>2. /\ r \in Seq(Attempt) /\ DOMAIN r = DOMAIN s /\ r[i] = b
      /\ \A j \in DOMAIN s : j # i => r[j] = s[j]
  BY <1>1
<1> HIDE DEF r
<1>3. d \in Client /\ d.attempts = r /\ Alike(c, d) /\ d.ignored = c.ignored
  BY <1>2 DEF Client, Alike
<1> HIDE DEF d
<1>4. Swaps(c, d, s[i], {b})
  BY <1>1, <1>2, <1>3 DEF Swaps, UnderWay
<1>. QED BY <1>3, <1>4 DEF d, r

\* What an attempt becomes when it goes on to the next call.
Onward(a, pc) == [a EXCEPT !.pc = pc, !.answer = "none"]

LEMMA AwaitFacts ==
  ASSUME NEW c \in Client, NEW i \in DOMAIN c.attempts, NEW pc \in Stages
  PROVE  /\ Await(c, i, pc) \in Client /\ Alike(c, Await(c, i, pc))
         /\ Await(c, i, pc).ignored = c.ignored
         /\ Swaps(c, Await(c, i, pc), c.attempts[i], {Onward(c.attempts[i], pc)})
<1> DEFINE b == Onward(c.attempts[i], pc)
<1>1. c.attempts \in Seq(Attempt) /\ i \in 1..Len(c.attempts)
  BY DEF Client
<1>2. c.attempts[i] \in Attempt
  BY <1>1
<1>3. b \in Attempt
  BY <1>2 DEF Onward, Attempt
<1>4. Await(c, i, pc) = [c EXCEPT !.attempts = [@ EXCEPT ![i] = b]]
  BY <1>1, <1>2 DEF Await, Onward, Client, Attempt
<1> HIDE DEF b
<1>5. QED BY <1>3, <1>4, PlaceFacts DEF b

LEMMA AnswerFacts ==
  ASSUME NEW c \in Client, NEW i \in DOMAIN c.attempts, NEW x \in {"ok", "failed"}
  PROVE  LET d == [c EXCEPT !.attempts[i].answer = x]
         IN  /\ d \in Client /\ Alike(c, d) /\ d.ignored = c.ignored
             /\ Swaps(c, d, c.attempts[i], {[c.attempts[i] EXCEPT !.answer = x]})
<1> DEFINE b == [c.attempts[i] EXCEPT !.answer = x]
           d == [c EXCEPT !.attempts[i].answer = x]
<1>1. c.attempts \in Seq(Attempt) /\ i \in 1..Len(c.attempts)
  BY DEF Client
<1>2. c.attempts[i] \in Attempt
  BY <1>1
<1>3. b \in Attempt
  BY <1>2 DEF Attempt
<1>4. d = [c EXCEPT !.attempts = [@ EXCEPT ![i] = b]]
  BY <1>1, <1>2 DEF Client, Attempt
<1> HIDE DEF b, d
<1>5. QED BY <1>3, <1>4, PlaceFacts DEF b, d

LEMMA ReconcileFacts ==
  ASSUME NEW c \in Client
  PROVE  /\ Reconcile(c) \in Client /\ Alike(c, Reconcile(c))
         /\ Reconcile(c).ignored = c.ignored /\ Reconcile(c).attempts = c.attempts
         /\ UnderWay(Reconcile(c)) = UnderWay(c)
BY DEF Reconcile, Client, Alike, UnderWay

Staled(A) == {[a EXCEPT !.current = FALSE] : a \in A}

LEMMA InvalidateFacts ==
  ASSUME NEW c \in Client
  PROVE  /\ Invalidate(c) \in Client /\ Alike(c, Invalidate(c))
         /\ Invalidate(c).ignored = c.ignored
         /\ UnderWay(Invalidate(c)) = Staled(UnderWay(c))
<1> DEFINE s == c.attempts
           r == [i \in DOMAIN s |-> [s[i] EXCEPT !.current = FALSE]]
           d == Invalidate(c)
<1>1. s \in Seq(Attempt) /\ DOMAIN s = 1..Len(s) /\ Len(s) \in Nat
  BY DEF Client
<1>2. d = [c EXCEPT !.attempts = r]
  BY DEF Invalidate
<1>3. ASSUME NEW i \in DOMAIN s PROVE [s[i] EXCEPT !.current = FALSE] \in Attempt
  <2>1. s[i] \in Attempt
    BY <1>1
  <2>. QED BY <2>1 DEF Attempt
<1>4. r \in [DOMAIN s -> Attempt]
  BY <1>3
<1>5. r \in Seq(Attempt)
  BY <1>1, <1>4, SeqDef
<1>6. DOMAIN r = DOMAIN s /\ \A i \in DOMAIN s : r[i] = [s[i] EXCEPT !.current = FALSE]
  OBVIOUS
<1> HIDE DEF r, d
<1>7. d \in Client /\ d.attempts = r /\ Alike(c, d) /\ d.ignored = c.ignored
  BY <1>2, <1>5 DEF Client, Alike
<1>8. UnderWay(d) = Staled(UnderWay(c))
  <2>1. UnderWay(d) = {r[i] : i \in DOMAIN r}
    BY <1>7 DEF UnderWay
  <2>2. UnderWay(c) = {s[i] : i \in DOMAIN s}
    BY DEF UnderWay
  <2>3. ASSUME NEW b \in UnderWay(d) PROVE b \in Staled(UnderWay(c))
    <3>1. PICK i \in DOMAIN s : b = [s[i] EXCEPT !.current = FALSE]
      BY <1>6, <2>1, <2>3
    <3>. QED BY <2>2, <3>1 DEF Staled
  <2>4. ASSUME NEW b \in Staled(UnderWay(c)) PROVE b \in UnderWay(d)
    <3>1. PICK i \in DOMAIN s : b = [s[i] EXCEPT !.current = FALSE]
      BY <2>2, <2>4 DEF Staled
    <3>. QED BY <1>6, <2>1, <3>1
  <2>. QED BY <2>3, <2>4
<1>. QED BY <1>7, <1>8 DEF d

\* A stale attempt ends, a current one goes on; before the client detaches what
\* it is attached to it notes that it will hear of that.
Proceeds(c, d, a) ==
  /\ d \in Client /\ Alike(c, d)
  /\ ~a.current => Swaps(c, d, a, {}) /\ d.ignored = c.ignored
  /\ a.current =>
       \E pc \in {"resuming", "dropping", "subscribing"} :
         /\ Swaps(c, d, a, {Onward(a, pc)})
         /\ d.ignored = IF pc = "dropping" THEN c.ignored \cup {a.key} ELSE c.ignored

LEMMA AttachFacts ==
  ASSUME NEW c \in Client, NEW i \in DOMAIN c.attempts
  PROVE  Proceeds(c, Attach(c, i), c.attempts[i])
<1> DEFINE a == c.attempts[i]
           m == [c EXCEPT !.ignored = @ \cup {a.key}]
<1>1. a \in Attempt
  BY DEF Client
<1>2. CASE ~a.current
  <2>1. Attach(c, i) = Over(c, i)
    BY <1>2 DEF Attach
  <2>. QED BY <1>2, <2>1, OverFacts DEF Proceeds
<1>3. CASE a.current /\ c.active # a.key
  <2>1. Attach(c, i) = Await(c, i, "subscribing")
    BY <1>3 DEF Attach
  <2>2. /\ Await(c, i, "subscribing") \in Client /\ Alike(c, Await(c, i, "subscribing"))
        /\ Await(c, i, "subscribing").ignored = c.ignored
        /\ Swaps(c, Await(c, i, "subscribing"), a, {Onward(a, "subscribing")})
    BY AwaitFacts DEF Stages
  <2>. QED BY <1>3, <2>1, <2>2 DEF Proceeds
<1>4. CASE a.current /\ c.active = a.key
  <2> DEFINE d == Await(m, i, "dropping")
  <2>1. Attach(c, i) = d
    BY <1>4 DEF Attach
  <2>2. a.key \in Threads
    BY <1>1 DEF Attempt
  <2>3. /\ m \in Client /\ Alike(c, m) /\ m.ignored = c.ignored \cup {a.key}
        /\ m.attempts = c.attempts
    BY <2>2 DEF Client, Alike
  <2> HIDE DEF m
  <2>4. /\ d \in Client /\ Alike(m, d) /\ d.ignored = m.ignored
        /\ Swaps(m, d, a, {Onward(a, "dropping")})
    BY <2>3, AwaitFacts DEF Stages
  <2>5. Swaps(c, d, a, {Onward(a, "dropping")})
    BY <2>3, <2>4 DEF Swaps, UnderWay
  <2> HIDE DEF d, a
  <2>6. Alike(c, d)
    BY <2>3, <2>4 DEF Alike
  <2>7. Proceeds(c, d, a)
    BY <1>4, <2>3, <2>4, <2>5, <2>6 DEF Proceeds
  <2>. QED BY <2>1, <2>7 DEF a
<1>. QED BY <1>2, <1>3, <1>4

LEMMA ResumeFacts ==
  ASSUME NEW c \in Client, NEW i \in DOMAIN c.attempts
  PROVE  Proceeds(c, Resume(c, i), c.attempts[i])
<1> DEFINE a == c.attempts[i]
<1>1. CASE a.current /\ a.resume
  <2>1. Resume(c, i) = Await(c, i, "resuming")
    BY <1>1 DEF Resume
  <2>2. /\ Await(c, i, "resuming") \in Client /\ Alike(c, Await(c, i, "resuming"))
        /\ Await(c, i, "resuming").ignored = c.ignored
        /\ Swaps(c, Await(c, i, "resuming"), a, {Onward(a, "resuming")})
    BY AwaitFacts DEF Stages
  <2>. QED BY <1>1, <2>1, <2>2 DEF Proceeds
<1>2. CASE ~(a.current /\ a.resume)
  <2>1. Resume(c, i) = Attach(c, i)
    BY <1>2 DEF Resume
  <2>. QED BY <2>1, AttachFacts
<1>. QED BY <1>1, <1>2

LEMMA AppendFacts ==
  ASSUME NEW c \in Client, NEW n \in Attempt
  PROVE  LET d == [c EXCEPT !.attempts = Append(@, n)]
         IN  /\ d \in Client /\ Alike(c, d) /\ d.ignored = c.ignored
             /\ Len(d.attempts) \in DOMAIN d.attempts /\ d.attempts[Len(d.attempts)] = n
             /\ UnderWay(d) = UnderWay(c) \cup {n}
<1> DEFINE s == c.attempts
           r == Append(s, n)
           d == [c EXCEPT !.attempts = r]
<1>1. s \in Seq(Attempt) /\ DOMAIN s = 1..Len(s) /\ Len(s) \in Nat
  BY DEF Client
<1>2. /\ r \in Seq(Attempt) /\ DOMAIN r = 1..(Len(s) + 1) /\ Len(r) = Len(s) + 1
      /\ r[Len(s) + 1] = n /\ \A i \in DOMAIN s : r[i] = s[i]
  BY <1>1
<1> HIDE DEF r
<1>3. d \in Client /\ d.attempts = r /\ Alike(c, d) /\ d.ignored = c.ignored
  BY <1>2 DEF Client, Alike
<1> HIDE DEF d
<1>4. UnderWay(d) = {r[i] : i \in DOMAIN r} /\ UnderWay(c) = {s[i] : i \in DOMAIN s}
  BY <1>3 DEF UnderWay
<1>5. ASSUME NEW b \in UnderWay(d) PROVE b \in UnderWay(c) \cup {n}
  <2>1. PICK i \in DOMAIN r : b = r[i]
    BY <1>4
  <2>2. i = Len(s) + 1 \/ i \in DOMAIN s
    BY <1>1, <1>2, <2>1
  <2>. QED BY <1>2, <1>4, <2>1, <2>2
<1>6. ASSUME NEW b \in UnderWay(c) PROVE b \in UnderWay(d)
  <2>1. PICK i \in DOMAIN s : b = s[i]
    BY <1>4
  <2>2. i \in DOMAIN r /\ r[i] = b
    BY <1>1, <1>2, <2>1
  <2>. QED BY <1>4, <2>2
<1>7. n \in UnderWay(d)
  <2>1. Len(s) + 1 \in DOMAIN r
    BY <1>1, <1>2
  <2>. QED BY <1>2, <1>4, <2>1
<1>8. UnderWay(d) = UnderWay(c) \cup {n}
  BY <1>5, <1>6, <1>7
<1>9. Len(d.attempts) \in DOMAIN d.attempts /\ d.attempts[Len(d.attempts)] = n
  BY <1>1, <1>2, <1>3
<1>. QED BY <1>3, <1>8, <1>9 DEF d, r

\* An attempt for the thread that has its subscribe before it.
IsFresh(n, t, connected) ==
  /\ n \in Attempt /\ n.key = t /\ n.current /\ n.answer = "none"
  /\ n.pc \in {"connecting", "resuming", "dropping", "subscribing"}
  /\ connected \/ n.pc = "connecting"

Begins(c, d, t) ==
  /\ \A b \in UnderWay(d) : b \in Staled(UnderWay(c)) \/ IsFresh(b, t, d.connected)
  /\ Staled(UnderWay(c)) \subseteq UnderWay(d)
  /\ \E b \in UnderWay(d) : IsFresh(b, t, d.connected)
  /\ \/ d.ignored = c.ignored
     \/ /\ d.ignored = c.ignored \cup {t}
        /\ \E b \in UnderWay(d) : IsFresh(b, t, d.connected) /\ b.pc = "dropping"

JoinsOne(c, d, t) ==
  /\ UnderWay(d) = UnderWay(c) /\ d.ignored = c.ignored
  /\ \E a \in UnderWay(c) : a.current /\ a.key = t

Reconnects(c, d, t) ==
  /\ d \in Client
  /\ d.active = c.active /\ d.desired = t /\ d.connected = c.connected
  /\ Begins(c, d, t) \/ JoinsOne(c, d, t)

LEMMA ReconnectFacts ==
  ASSUME NEW c \in Client, NEW t \in Threads, NEW resume \in BOOLEAN
  PROVE  Reconnects(c, ReconnectLive(c, t, resume), t)
<1> DEFINE wanted == [c EXCEPT !.desired = t]
           n == [key |-> t, resume |-> resume, current |-> TRUE,
                 pc |-> "connecting", answer |-> "none"]
           base == Reconcile(Invalidate(wanted))
           begun == [base EXCEPT !.attempts = Append(@, n)]
           last == Len(begun.attempts)
           d == ReconnectLive(c, t, resume)
<1>1. n \in Attempt /\ IsFresh(n, t, c.connected)
  BY DEF Attempt, IsFresh, Stages
<1>2. /\ wanted \in Client /\ wanted.active = c.active /\ wanted.desired = t
      /\ wanted.connected = c.connected /\ wanted.ignored = c.ignored
      /\ UnderWay(wanted) = UnderWay(c)
  BY DEF Client, Keys, UnderWay
<1>3. d = IF \E i \in DOMAIN c.attempts : c.attempts[i].current /\ c.attempts[i].key = t
          THEN wanted
          ELSE IF c.connected THEN Resume(begun, last) ELSE begun
  BY DEF ReconnectLive
<1> HIDE DEF wanted, n, d
<1>4. /\ base \in Client /\ base.active = c.active /\ base.desired = t
      /\ base.connected = c.connected /\ base.ignored = c.ignored
      /\ UnderWay(base) = Staled(UnderWay(c))
  BY <1>2, InvalidateFacts, ReconcileFacts DEF Alike
<1> HIDE DEF base
<1>5. /\ begun \in Client /\ Alike(base, begun) /\ begun.ignored = base.ignored
      /\ last \in DOMAIN begun.attempts /\ begun.attempts[last] = n
      /\ UnderWay(begun) = UnderWay(base) \cup {n}
  BY <1>1, <1>4, AppendFacts
<1> HIDE DEF begun, last
<1>6. /\ begun.active = c.active /\ begun.desired = t /\ begun.connected = c.connected
      /\ begun.ignored = c.ignored /\ UnderWay(begun) = Staled(UnderWay(c)) \cup {n}
  BY <1>4, <1>5 DEF Alike
<1>7. CASE \E i \in DOMAIN c.attempts : c.attempts[i].current /\ c.attempts[i].key = t
  <2>1. d = wanted
    BY <1>3, <1>7
  <2>2. \E a \in UnderWay(c) : a.current /\ a.key = t
    BY <1>7 DEF UnderWay
  <2>. QED BY <1>2, <2>1, <2>2 DEF Reconnects, JoinsOne, d
<1>8. ASSUME ~ \E i \in DOMAIN c.attempts : c.attempts[i].current /\ c.attempts[i].key = t,
             ~c.connected
      PROVE  Reconnects(c, d, t)
  <2>1. d = begun
    BY <1>3, <1>8
  <2>2. Begins(c, d, t)
    BY <1>1, <1>6, <2>1 DEF Begins
  <2>. QED BY <1>5, <1>6, <2>1, <2>2 DEF Reconnects
<1>9. ASSUME ~ \E i \in DOMAIN c.attempts : c.attempts[i].current /\ c.attempts[i].key = t,
             c.connected
      PROVE  Reconnects(c, d, t)
  <2>1. d = Resume(begun, last)
    BY <1>3, <1>9
  <2>2. Proceeds(begun, d, n)
    BY <1>5, <2>1, ResumeFacts
  <2>3. n.current /\ n.key = t
    BY <1>1 DEF IsFresh
  <2>4. PICK pc \in {"resuming", "dropping", "subscribing"} :
          /\ Swaps(begun, d, n, {Onward(n, pc)})
          /\ d.ignored = IF pc = "dropping" THEN begun.ignored \cup {n.key} ELSE begun.ignored
    BY <2>2, <2>3 DEF Proceeds
  <2>5. IsFresh(Onward(n, pc), t, c.connected) /\ Onward(n, pc).pc = pc
    BY <1>1, <1>9, <2>4 DEF IsFresh, Onward, Attempt, Stages
  <2>6. n \notin Staled(UnderWay(c))
    <3>1. ASSUME NEW a \in UnderWay(c) PROVE n # [a EXCEPT !.current = FALSE]
      <4>1. a \in Attempt
        BY DEF UnderWay, Client
      <4>2. [a EXCEPT !.current = FALSE].current = FALSE
        BY <4>1 DEF Attempt
      <4>. QED BY <2>3, <4>2
    <3>. QED BY <3>1 DEF Staled
  <2> HIDE DEF n
  <2>7. Onward(n, pc) \in UnderWay(d)
    BY <2>4 DEF Swaps
  <2>8. Begins(c, d, t)
    <3>0. d.connected = c.connected
      BY <1>6, <2>2 DEF Proceeds, Alike
    <3>1. \A b \in UnderWay(d) : b \in Staled(UnderWay(c)) \/ IsFresh(b, t, d.connected)
      BY <1>1, <1>6, <2>4, <2>5, <3>0 DEF Swaps
    <3>2. Staled(UnderWay(c)) \subseteq UnderWay(d)
      BY <1>6, <2>4, <2>6 DEF Swaps
    <3>3. \/ d.ignored = c.ignored
          \/ /\ d.ignored = c.ignored \cup {t}
             /\ Onward(n, pc).pc = "dropping"
      BY <1>6, <2>3, <2>4, <2>5
    <3>. QED BY <2>5, <2>7, <3>0, <3>1, <3>2, <3>3 DEF Begins
  <2>9. d \in Client /\ d.active = c.active /\ d.desired = t /\ d.connected = c.connected
    BY <1>6, <2>2 DEF Proceeds, Alike
  <2>. QED BY <2>8, <2>9 DEF Reconnects
<1>. QED BY <1>7, <1>8, <1>9 DEF d

LEMMA FollowFacts ==
  ASSUME TypeOK, NEW c \in Client, NEW t \in Keys, Follow(c, t)
  PROVE  /\ drops' = IF c.active = t \/ c.active = NoThread THEN drops
                     ELSE [drops EXCEPT ![c.active] = @ + 1]
         /\ client' \in Client /\ client'.desired = t /\ client'.connected = c.connected
         /\ client'.active = IF c.active = t THEN t ELSE NoThread
         /\ \/ /\ t = NoThread \/ window = "hidden" \/ (c.active = t /\ c.connected)
               /\ UnderWay(client') = UnderWay(c) /\ client'.ignored = c.ignored
            \/ /\ t # NoThread /\ window # "hidden"
               /\ Begins(c, client', t) \/ JoinsOne(c, client', t)
<1> DEFINE kept == [c EXCEPT !.desired = t, !.active = IF @ = t THEN t ELSE NoThread]
<1>1. /\ kept \in Client /\ kept.desired = t /\ kept.connected = c.connected
      /\ kept.active = (IF c.active = t THEN t ELSE NoThread)
      /\ kept.ignored = c.ignored /\ UnderWay(kept) = UnderWay(c)
  BY DEF Client, Keys, UnderWay
<1>2. drops' = IF c.active = t \/ c.active = NoThread THEN drops
               ELSE [drops EXCEPT ![c.active] = @ + 1]
  BY DEF Follow, Drop
<1>3. IF t = NoThread \/ window = "hidden" THEN client' = Reconcile(kept)
      ELSE IF kept.active = t /\ ~c.disconnected /\ c.connected THEN client' = kept
      ELSE \E resume \in BOOLEAN : client' = ReconnectLive(kept, t, resume)
  BY DEF Follow
<1> HIDE DEF kept
<1>4. CASE t = NoThread \/ window = "hidden"
  <2>1. client' = Reconcile(kept)
    BY <1>3, <1>4
  <2>. QED BY <1>1, <1>2, <1>4, <2>1, ReconcileFacts DEF Alike
<1>5. CASE ~(t = NoThread \/ window = "hidden") /\ client' = kept /\ kept.active = t /\ c.connected
  BY <1>1, <1>2, <1>5, ThreadsAssumption
<1>6. CASE ~(t = NoThread \/ window = "hidden")
           /\ \E resume \in BOOLEAN : client' = ReconnectLive(kept, t, resume)
  <2>1. t \in Threads
    BY <1>6 DEF Keys
  <2>2. Reconnects(kept, client', t)
    BY <1>1, <1>6, <2>1, ReconnectFacts
  <2>3. Begins(c, client', t) \/ JoinsOne(c, client', t)
    BY <1>1, <2>2 DEF Reconnects, Begins, JoinsOne
  <2>. QED BY <1>1, <1>2, <1>6, <2>2, <2>3 DEF Reconnects
<1>. QED BY <1>3, <1>4, <1>5, <1>6

LEMMA BlurFacts ==
  ASSUME TypeOK, HandleBlur
  PROVE  /\ drops' = IF client.active = NoThread THEN drops
                     ELSE [drops EXCEPT ![client.active] = @ + 1]
         /\ client' \in Client /\ client'.desired = NoThread /\ client'.active = NoThread
         /\ client'.connected = client.connected /\ client'.ignored = client.ignored
         /\ UnderWay(client') = Staled(UnderWay(client))
<1> DEFINE c == [Invalidate(client) EXCEPT !.desired = NoThread]
           e == [c EXCEPT !.active = NoThread]
<1>1. client \in Client
  BY DEF TypeOK
<1>2. /\ c \in Client /\ c.active = client.active /\ c.desired = NoThread
      /\ c.connected = client.connected /\ c.ignored = client.ignored
      /\ UnderWay(c) = Staled(UnderWay(client))
  <2> DEFINE v == Invalidate(client)
  <2>1. v \in Client /\ Alike(client, v) /\ v.ignored = client.ignored
        /\ UnderWay(v) = Staled(UnderWay(client))
    BY <1>1, InvalidateFacts
  <2> HIDE DEF v
  <2>2. LET x == [v EXCEPT !.desired = NoThread]
        IN  /\ x \in Client /\ x.active = v.active /\ x.desired = NoThread
            /\ x.connected = v.connected /\ x.ignored = v.ignored
            /\ UnderWay(x) = UnderWay(v)
    BY <2>1 DEF Client, Keys, UnderWay
  <2>. QED BY <2>1, <2>2 DEF v, Alike
<1>3. /\ drops' = IF c.active = NoThread THEN drops ELSE [drops EXCEPT ![c.active] = @ + 1]
      /\ client' = IF c.active = NoThread THEN c ELSE Reconcile(e)
  BY DEF HandleBlur, Drop
<1>. HIDE DEF c
<1>4. /\ e \in Client /\ e.active = NoThread /\ e.desired = c.desired
      /\ e.connected = c.connected /\ e.ignored = c.ignored /\ UnderWay(e) = UnderWay(c)
  BY <1>2 DEF Client, Keys, UnderWay
<1>. HIDE DEF e
<1>5. /\ Reconcile(e) \in Client /\ Alike(e, Reconcile(e)) /\ Reconcile(e).ignored = e.ignored
      /\ UnderWay(Reconcile(e)) = UnderWay(e)
  BY <1>4, ReconcileFacts
<1>. QED BY <1>2, <1>3, <1>4, <1>5 DEF Alike

LEMMA FailedFacts ==
  ASSUME NEW c \in Client, NEW i \in DOMAIN c.attempts
  PROVE  /\ Failed(c, i) \in Client /\ Alike(c, Failed(c, i))
         /\ Failed(c, i).ignored = c.ignored
         /\ Swaps(c, Failed(c, i), c.attempts[i], {})
<1> DEFINE r == Reconcile(c)
<1>1. CASE c.attempts[i].current
  <2>1. Failed(c, i) = Over(r, i)
    BY <1>1 DEF Failed
  <2>2. r \in Client /\ Alike(c, r) /\ r.ignored = c.ignored /\ r.attempts = c.attempts
    BY ReconcileFacts
  <2>. HIDE DEF r
  <2>3. /\ Over(r, i) \in Client /\ Alike(r, Over(r, i)) /\ Over(r, i).ignored = r.ignored
        /\ Swaps(r, Over(r, i), c.attempts[i], {})
    BY <2>2, OverFacts
  <2>4. UnderWay(r) = UnderWay(c)
    BY <2>2 DEF UnderWay
  <2>. QED BY <2>1, <2>2, <2>3, <2>4 DEF Alike, Swaps
<1>2. CASE ~c.attempts[i].current
  <2>1. Failed(c, i) = Over(c, i)
    BY <1>2 DEF Failed
  <2>. QED BY <2>1, OverFacts
<1>. QED BY <1>1, <1>2

\* What the client does when the thread it shows is detached.
LEMMA DetachedFacts ==
  ASSUME TypeOK, selected \in Threads, selected \notin client.ignored
  PROVE  LET d == OnDetached(selected)
         IN  /\ d \in Client /\ d.active = NoThread /\ d.connected = client.connected
             /\ \/ /\ window # "focused" /\ d.desired = client.desired
                   /\ UnderWay(d) = UnderWay(client) /\ d.ignored = client.ignored
                \/ /\ window = "focused" /\ d.desired = selected
                   /\ Begins(client, d, selected) \/ JoinsOne(client, d, selected)
<1> DEFINE e == [client EXCEPT !.active = NoThread]
           c == Reconcile(e)
           d == OnDetached(selected)
<1>1. d = IF window = "focused" THEN ReconnectLive(c, selected, TRUE) ELSE c
  BY DEF OnDetached
<1>. HIDE DEF d
<1>2. client \in Client
  BY DEF TypeOK
<1>3. /\ e \in Client /\ e.active = NoThread /\ e.desired = client.desired
      /\ e.connected = client.connected /\ e.ignored = client.ignored
      /\ UnderWay(e) = UnderWay(client)
  BY <1>2 DEF Client, Keys, UnderWay
<1>. HIDE DEF e
<1>4. /\ c \in Client /\ Alike(e, c) /\ c.ignored = e.ignored /\ UnderWay(c) = UnderWay(e)
  BY <1>3, ReconcileFacts
<1>. HIDE DEF c
<1>5. CASE window = "focused"
  <2>1. Reconnects(c, d, selected)
    BY <1>1, <1>4, <1>5, ReconnectFacts
  <2>2. Begins(client, d, selected) \/ JoinsOne(client, d, selected)
    BY <1>3, <1>4, <2>1 DEF Reconnects, Begins, JoinsOne, Alike
  <2>. QED BY <1>3, <1>4, <1>5, <2>1, <2>2 DEF Reconnects, Alike, d
<1>6. CASE window # "focused"
  BY <1>1, <1>3, <1>4, <1>6 DEF Alike, d
<1>. QED BY <1>5, <1>6

---------------------------------------------------------------------------
(* What a step does, apart from the count of disturbances: the actions of   *)
(* the model in terms of the set of attempts.                              *)

DetachOf(t) == [kind |-> "detached", thread |-> t]

\* Nothing else of the client changes with its attempts.
Moves(a, F) ==
  /\ a \in UnderWay(client) /\ client' \in Client
  /\ Alike(client, client') /\ client'.ignored = client.ignored
  /\ Swaps(client, client', a, F)
  /\ UNCHANGED <<selected, window, refreshing>>

Progresses(a) ==
  /\ a \in UnderWay(client) /\ a.pc \in {"connecting", "resuming"}
  /\ Proceeds(client, client', a)
  /\ a.pc = "resuming" => up
  /\ up' = TRUE
  /\ \/ events' = events
     \/ events' = Append(events, [kind |-> "connected", thread |-> NoThread])
  /\ UNCHANGED <<selected, window, drops, refreshing, subscribed, crossed>>

Ends(a) ==
  /\ Moves(a, {}) /\ UNCHANGED <<up, drops, subscribed, events>>
  /\ \/ crossed' = crossed \cup {"failure"}
     \/ /\ crossed' = crossed
        /\ \/ a.pc = "resuming" /\ ~up
           \/ a.pc = "subscribing" /\ a.answer = "failed"
           \/ a.pc = "subscribing" /\ ~a.current /\ client.desired = a.key
           \/ a.pc = "cleaning" /\ a.answer # "none"

Detached(a) ==
  /\ a \in UnderWay(client) /\ client' \in Client
  /\ a.pc = "dropping" /\ a.answer # "none"
  /\ client'.active = NoThread /\ client'.desired = client.desired
  /\ client'.connected = client.connected /\ client'.ignored = client.ignored
  /\ Swaps(client, client', a, {Onward(a, "subscribing")})
  /\ crossed' = IF a.current THEN crossed ELSE crossed \cup {"dropped"}
  /\ UNCHANGED <<selected, window, up, drops, refreshing, subscribed, events>>

Lands(a) ==
  /\ a \in UnderWay(client) /\ client' \in Client
  /\ a.pc = "subscribing" /\ a.answer = "ok" /\ a.current
  /\ client'.active = a.key /\ client'.desired = client.desired
  /\ client'.connected = client.connected /\ client'.ignored = client.ignored
  /\ Swaps(client, client', a, {})
  /\ UNCHANGED <<selected, window, up, drops, refreshing, subscribed, events, crossed>>

CleansUp(a) ==
  /\ Moves(a, {Onward(a, "cleaning")})
  /\ a.pc = "subscribing" /\ ~a.current /\ client.desired # a.key
  /\ UNCHANGED <<up, drops, subscribed, events, crossed>>

Subscribes(a) ==
  /\ Moves(a, {[a EXCEPT !.answer = "ok"]})
  /\ up /\ a.pc = "subscribing" /\ a.answer = "none"
  /\ subscribed' = subscribed \cup {a.key}
  /\ events' = Append(events, [kind |-> "attached", thread |-> a.key])
  /\ UNCHANGED <<up, drops, crossed>>

Unsubscribes(a) ==
  /\ Moves(a, {[a EXCEPT !.answer = "ok"]})
  /\ up /\ a.pc \in {"dropping", "cleaning"} /\ a.answer = "none"
  /\ subscribed' = subscribed \ {a.key}
  /\ events' = Append(events, DetachOf(a.key))
  /\ UNCHANGED <<up, drops, crossed>>

IsRefused(a) ==
  /\ Moves(a, {[a EXCEPT !.answer = "failed"]})
  /\ a.pc \in {"dropping", "subscribing", "cleaning"} /\ a.answer = "none"
  /\ crossed' = crossed \cup {"failure"} \/ (~up /\ crossed' = crossed)
  /\ UNCHANGED <<up, drops, subscribed, events>>

Goes(t) ==
  /\ t \in Threads /\ up
  /\ drops' = drops \/ (drops[t] > 0 /\ drops' = [drops EXCEPT ![t] = @ - 1])
  /\ subscribed' = subscribed \ {t} /\ events' = Append(events, DetachOf(t))
  /\ UNCHANGED <<selected, window, up, client, refreshing, crossed>>

DropRefused(t) ==
  /\ t \in Threads /\ drops[t] > 0 /\ drops' = [drops EXCEPT ![t] = @ - 1]
  /\ crossed' = crossed \cup {"failure"} \/ (~up /\ crossed' = crossed)
  /\ UNCHANGED <<selected, window, up, client, refreshing, subscribed, events>>

\* The effect of the hook ran for t.
Follows(t) ==
  /\ drops' = IF client.active = t \/ client.active = NoThread THEN drops
              ELSE [drops EXCEPT ![client.active] = @ + 1]
  /\ client' \in Client /\ client'.desired = t
  /\ client'.active = IF client.active = t THEN t ELSE NoThread
  /\ \/ /\ t = NoThread \/ window = "hidden" \/ (client.active = t /\ client'.connected)
        /\ UnderWay(client') = UnderWay(client) /\ client'.ignored = client.ignored
     \/ /\ t # NoThread /\ window # "hidden"
        /\ Begins(client, client', t) \/ JoinsOne(client, client', t)

Left(t) == IF UnderWay(client) # {} /\ (t = NoThread \/ window = "hidden") THEN {"left"} ELSE {}

Again == IF Forsakes THEN {"again"} ELSE {}

Selects(t) ==
  /\ t \in Keys /\ t # selected /\ selected' = t
  /\ Follows(t) /\ client'.connected = client.connected
  /\ crossed' = crossed \cup Left(t) \cup Again
  /\ UNCHANGED <<window, up, refreshing, subscribed, events>>

Loses ==
  /\ up /\ up' = FALSE /\ subscribed' = {}
  /\ Follows(selected) /\ client'.connected = FALSE
  /\ crossed' = crossed \cup (IF UnderWay(client) # {} THEN {"torn"} ELSE {}) \cup Left(selected)
  /\ UNCHANGED <<selected, window, refreshing, events>>

Notices ==
  /\ up /\ Follows(selected) /\ client'.connected = TRUE
  /\ crossed' = crossed \cup Left(selected)
  /\ UNCHANGED <<selected, window, up, refreshing, subscribed, events>>

Leaves ==
  /\ window' \in {"visible", "hidden"} /\ window # "hidden"
  /\ crossed' = crossed \cup Again
  /\ drops' = IF client.active = NoThread THEN drops
              ELSE [drops EXCEPT ![client.active] = @ + 1]
  /\ client' \in Client /\ client'.desired = NoThread /\ client'.active = NoThread
  /\ client'.connected = client.connected /\ client'.ignored = client.ignored
  /\ UnderWay(client') = Staled(UnderWay(client))
  /\ UNCHANGED <<selected, up, refreshing, subscribed, events>>

Enters ==
  /\ window' \in {"visible", "focused"}
  /\ \/ selected = NoThread /\ client' = client
     \/ selected \in Threads /\ Reconnects(client, client', selected)
  /\ UNCHANGED <<selected, up, drops, refreshing, subscribed, events, crossed>>

Refreshes ==
  /\ refreshing' = selected
  /\ UNCHANGED <<selected, window, up, client, drops, subscribed, events, crossed>>

RefreshEnds ==
  /\ refreshing \in Threads /\ refreshing' = NoThread
  /\ Reconnects(client, client', refreshing)
  /\ crossed' = crossed \cup
       (IF refreshing # selected \/ window = "hidden" THEN {"refresh"} ELSE {})
  /\ UNCHANGED <<selected, window, up, drops, subscribed, events>>

Hears ==
  /\ events # <<>> /\ events' = Tail(events)
  /\ UNCHANGED <<selected, window, up, drops, refreshing, subscribed>>

HearsOther ==
  /\ Hears /\ client' = client /\ ~Detaches(Head(events), selected)
  /\ crossed' = crossed \cup (IF Unheard(Head(events)) THEN {"unheard"} ELSE {})

HearsAttached ==
  /\ Hears /\ crossed' = crossed
  /\ Head(events).kind # "detached"
  /\ client' \in Client /\ client'.active = selected /\ client'.desired = client.desired
  /\ client'.connected = client.connected /\ client'.ignored = client.ignored
  /\ UnderWay(client') = UnderWay(client)

HearsConnected ==
  /\ Hears /\ Head(events).kind # "detached" /\ crossed' = crossed
  /\ selected \in Threads /\ window # "hidden"
  /\ Reconnects(client, client', selected)

HearsOwn ==
  /\ Hears /\ Detaches(Head(events), selected) /\ crossed' = crossed
  /\ selected \in client.ignored
  /\ client' \in Client /\ Alike(client, client')
  /\ client'.ignored = client.ignored \ {selected}
  /\ UnderWay(client') = UnderWay(client)

HearsDetached ==
  /\ Hears /\ Detaches(Head(events), selected)
  /\ selected \in Threads /\ selected \notin client.ignored
  /\ crossed' = crossed \cup
       (IF \E a \in UnderWay(client) : a.key = selected /\ a.pc = "subscribing"
        THEN {"joined"} ELSE {})
  /\ client' \in Client /\ client'.active = NoThread /\ client'.connected = client.connected
  /\ \/ /\ window # "focused" /\ client'.desired = client.desired
        /\ UnderWay(client') = UnderWay(client) /\ client'.ignored = client.ignored
     \/ /\ window = "focused" /\ client'.desired = selected
        /\ Begins(client, client', selected) \/ JoinsOne(client, client', selected)

Expires(t) ==
  /\ client' \in Client /\ Alike(client, client')
  /\ client'.ignored = client.ignored \ {t} /\ UnderWay(client') = UnderWay(client)
  /\ UNCHANGED <<selected, window, up, drops, refreshing, subscribed, events, crossed>>

AttemptMoves ==
  \E a \in UnderWay(client) :
    \/ Progresses(a) \/ Ends(a) \/ Detached(a) \/ Lands(a) \/ CleansUp(a)
    \/ Subscribes(a) \/ Unsubscribes(a) \/ IsRefused(a)

Steps ==
  \/ AttemptMoves
  \/ \E t \in Threads : Goes(t) \/ DropRefused(t) \/ Expires(t)
  \/ \E t \in Keys : Selects(t)
  \/ Loses \/ Notices \/ Leaves \/ Enters \/ Refreshes \/ RefreshEnds
  \/ HearsOther \/ HearsAttached \/ HearsConnected \/ HearsOwn \/ HearsDetached
  \/ UNCHANGED <<selected, window, up, client, drops, refreshing, subscribed, events, crossed>>

LEMMA InUnderWay ==
  ASSUME TypeOK, NEW i \in DOMAIN client.attempts
  PROVE  client \in Client /\ client.attempts[i] \in UnderWay(client) /\ client.attempts[i] \in Attempt
BY DEF TypeOK, UnderWay, Client

LEMMA IsAttempt ==
  ASSUME TypeOK, NEW a \in UnderWay(client) PROVE a \in Attempt
BY DEF TypeOK, UnderWay, Client

LEMMA UnderWayEmpty ==
  ASSUME TypeOK PROVE client.attempts = <<>> <=> UnderWay(client) = {}
<1>1. client.attempts \in Seq(Attempt)
  BY DEF TypeOK, Client
<1>2. CASE client.attempts = <<>>
  BY <1>2 DEF UnderWay
<1>3. CASE client.attempts # <<>>
  <2>1. 1 \in DOMAIN client.attempts
    BY <1>1, <1>3
  <2>. QED BY <1>3, <2>1 DEF UnderWay
<1>. QED BY <1>2, <1>3

LEMMA LeftFacts ==
  ASSUME TypeOK, NEW t PROVE Left(t) = IF LeavesAttempts(t) THEN {"left"} ELSE {}
BY UnderWayEmpty DEF Left, LeavesAttempts

LEMMA AttemptSteps ==
  ASSUME TypeOK, NEW i \in DOMAIN client.attempts,
         \/ ConnectAnswered(i) \/ ResumeAnswered(i) \/ DropAnswered(i)
         \/ SubscribeAnswered(i) \/ CleanupAnswered(i)
  PROVE  LET a == client.attempts[i]
         IN  Progresses(a) \/ Ends(a) \/ Detached(a) \/ Lands(a) \/ CleansUp(a)
<1> DEFINE a == client.attempts[i]
<1>1. client \in Client /\ a \in UnderWay(client) /\ a \in Attempt
  BY InUnderWay
<1>2. ASSUME client' = Failed(client, i), UNCHANGED <<selected, window, refreshing>>
      PROVE  Moves(a, {})
  BY <1>1, <1>2, FailedFacts DEF Moves
<1>3. ASSUME client' = Over(client, i), UNCHANGED <<selected, window, refreshing>>
      PROVE  Moves(a, {})
  BY <1>1, <1>3, OverFacts DEF Moves
<1>4. ASSUME ConnectAnswered(i) PROVE Progresses(a) \/ Ends(a)
  <2>1. a.pc = "connecting"
    BY <1>4 DEF ConnectAnswered
  <2>2. ASSUME client' = Resume(client, i), up' = TRUE, Undisturbed,
               events' = IF up THEN events
                         ELSE Append(events, [kind |-> "connected", thread |-> NoThread])
        PROVE  Progresses(a)
    <3>1. Proceeds(client, client', a)
      BY <1>1, <2>2, ResumeFacts
    <3>2. UNCHANGED <<selected, window, drops, refreshing, subscribed, crossed>>
      BY <1>4, <2>2 DEF ConnectAnswered, Undisturbed
    <3>. QED BY <1>1, <2>1, <2>2, <3>1, <3>2 DEF Progresses
  <2>3. ASSUME Fail, client' = Failed(client, i), UNCHANGED <<up, events>> PROVE Ends(a)
    <3>1. UNCHANGED <<selected, window, drops, refreshing, subscribed>>
      BY <1>4 DEF ConnectAnswered
    <3>2. crossed' = crossed \cup {"failure"}
      BY <2>3 DEF Fail, Cross
    <3>. QED BY <1>2, <2>3, <3>1, <3>2 DEF Ends
  <2>. QED BY <1>4, <2>2, <2>3 DEF ConnectAnswered
<1>5. ASSUME ResumeAnswered(i) PROVE Progresses(a) \/ Ends(a)
  <2>1. a.pc = "resuming" /\ up \in BOOLEAN
    BY <1>5 DEF ResumeAnswered, TypeOK
  <2>2. UNCHANGED <<selected, window, up, drops, refreshing, subscribed, events>>
    BY <1>5 DEF ResumeAnswered
  <2>3. ASSUME up, client' = Attach(client, i), Undisturbed PROVE Progresses(a)
    <3>1. Proceeds(client, client', a)
      BY <1>1, <2>3, AttachFacts
    <3>2. crossed' = crossed /\ up' = TRUE
      BY <2>1, <2>2, <2>3 DEF Undisturbed
    <3>. QED BY <1>1, <2>1, <2>2, <2>3, <3>1, <3>2 DEF Progresses
  <2>4. ASSUME (IF up THEN Fail ELSE Undisturbed), client' = Failed(client, i) PROVE Ends(a)
    <3>1. crossed' = crossed \cup {"failure"} \/ (crossed' = crossed /\ ~up)
      BY <2>4 DEF Fail, Cross, Undisturbed
    <3>. QED BY <1>2, <2>1, <2>2, <2>4, <3>1 DEF Ends
  <2>. QED BY <1>5, <2>3, <2>4 DEF ResumeAnswered
<1>6. ASSUME DropAnswered(i) PROVE Detached(a)
  <2> DEFINE c == [client EXCEPT !.active = NoThread]
  <2>1. /\ c \in Client /\ c.active = NoThread /\ c.desired = client.desired
        /\ c.connected = client.connected /\ c.ignored = client.ignored
        /\ c.attempts = client.attempts
    BY <1>1 DEF Client, Keys
  <2>2. client' = Await(c, i, "subscribing")
    BY <1>6 DEF DropAnswered
  <2>. HIDE DEF c
  <2>3. /\ client' \in Client /\ Alike(c, client') /\ client'.ignored = c.ignored
        /\ Swaps(c, client', a, {Onward(a, "subscribing")})
    BY <2>1, <2>2, AwaitFacts DEF Stages
  <2>4. Swaps(client, client', a, {Onward(a, "subscribing")})
    BY <2>1, <2>3 DEF Swaps, UnderWay
  <2>5. crossed' = IF a.current THEN crossed ELSE crossed \cup {"dropped"}
    BY <1>6 DEF DropAnswered, Cross
  <2>6. /\ a.pc = "dropping" /\ a.answer # "none"
        /\ UNCHANGED <<selected, window, up, drops, refreshing, subscribed, events>>
    BY <1>6 DEF DropAnswered
  <2>. QED BY <1>1, <2>1, <2>3, <2>4, <2>5, <2>6 DEF Detached, Alike
<1>7. ASSUME SubscribeAnswered(i) PROVE Ends(a) \/ Lands(a) \/ CleansUp(a)
  <2>1. /\ a.pc = "subscribing" /\ a.answer # "none"
        /\ UNCHANGED <<selected, window, up, drops, refreshing, subscribed, events, crossed>>
    BY <1>7 DEF SubscribeAnswered, Undisturbed
  <2>2. client' = CASE a.answer = "failed" -> Failed(client, i)
                    [] a.answer = "ok" /\ a.current ->
                         Over([client EXCEPT !.active = a.key, !.disconnected = FALSE], i)
                    [] a.answer = "ok" /\ ~a.current /\ client.desired # a.key ->
                         Await(client, i, "cleaning")
                    [] OTHER -> Over(client, i)
    BY <1>7 DEF SubscribeAnswered
  <2>3. CASE a.answer = "failed"
    <3>1. client' = Failed(client, i)
      BY <2>2, <2>3
    <3>. QED BY <1>2, <2>1, <2>3, <3>1 DEF Ends
  <2>4. CASE a.answer = "ok" /\ a.current
    <3> DEFINE c == [client EXCEPT !.active = a.key, !.disconnected = FALSE]
    <3>1. client' = Over(c, i)
      BY <2>2, <2>4
    <3>2. a.key \in Keys
      BY <1>1 DEF Attempt, Keys
    <3>3. /\ c \in Client /\ c.active = a.key /\ c.desired = client.desired
          /\ c.connected = client.connected /\ c.ignored = client.ignored
          /\ c.attempts = client.attempts
      BY <1>1, <3>2 DEF Client
    <3>. HIDE DEF c
    <3>4. /\ client' \in Client /\ Alike(c, client') /\ client'.ignored = c.ignored
          /\ Swaps(c, client', a, {})
      BY <3>1, <3>3, OverFacts
    <3>5. Swaps(client, client', a, {})
      BY <3>3, <3>4 DEF Swaps, UnderWay
    <3>. QED BY <1>1, <2>1, <2>4, <3>3, <3>4, <3>5 DEF Lands, Alike
  <2>5. CASE a.answer = "ok" /\ ~a.current /\ client.desired # a.key
    <3>1. client' = Await(client, i, "cleaning")
      BY <2>2, <2>5
    <3>2. Moves(a, {Onward(a, "cleaning")})
      BY <1>1, <2>1, <3>1, AwaitFacts DEF Moves, Stages
    <3>. QED BY <2>1, <2>5, <3>2 DEF CleansUp
  <2>6. CASE a.answer = "ok" /\ ~a.current /\ client.desired = a.key
    <3>1. client' = Over(client, i)
      BY <2>2, <2>6
    <3>. QED BY <1>3, <2>1, <2>6, <3>1 DEF Ends
  <2>7. a.answer = "ok" \/ a.answer = "failed"
    BY <1>1, <2>1 DEF Attempt
  <2>. QED BY <2>3, <2>4, <2>5, <2>6, <2>7
<1>8. ASSUME CleanupAnswered(i) PROVE Ends(a)
  BY <1>3, <1>8 DEF CleanupAnswered, Undisturbed, Ends
<1>. QED BY <1>4, <1>5, <1>6, <1>7, <1>8

LEMMA DaemonSteps ==
  ASSUME TypeOK, NEW i \in DOMAIN client.attempts, Serve(i)
  PROVE  LET a == client.attempts[i] IN Subscribes(a) \/ Unsubscribes(a) \/ IsRefused(a)
<1> DEFINE a == client.attempts[i]
<1>1. client \in Client /\ a \in UnderWay(client) /\ a \in Attempt /\ up \in BOOLEAN
  BY InUnderWay DEF TypeOK
<1>2. /\ a.pc \in {"dropping", "subscribing", "cleaning"} /\ a.answer = "none"
      /\ UNCHANGED <<selected, window, up, drops, refreshing>>
  BY DEF Serve
<1>3. ASSUME NEW x \in {"ok", "failed"}, client' = [client EXCEPT !.attempts[i].answer = x]
      PROVE  Moves(a, {[a EXCEPT !.answer = x]})
  BY <1>1, <1>2, <1>3, AnswerFacts DEF Moves
<1>4. ASSUME up, Undisturbed, client' = [client EXCEPT !.attempts[i].answer = "ok"],
             IF a.pc = "subscribing" THEN ServeSubscribe(a.key) ELSE ServeUnsubscribe(a.key)
      PROVE  Subscribes(a) \/ Unsubscribes(a)
  <2>1. Moves(a, {[a EXCEPT !.answer = "ok"]}) /\ crossed' = crossed
    BY <1>3, <1>4 DEF Undisturbed
  <2>2. CASE a.pc = "subscribing"
    BY <1>2, <1>4, <2>1, <2>2 DEF Subscribes, ServeSubscribe
  <2>3. CASE a.pc # "subscribing"
    BY <1>2, <1>4, <2>1, <2>3 DEF Unsubscribes, ServeUnsubscribe, DetachOf
  <2>. QED BY <2>2, <2>3
<1>5. ASSUME Refuse, client' = [client EXCEPT !.attempts[i].answer = "failed"]
      PROVE  IsRefused(a)
  <2>1. Moves(a, {[a EXCEPT !.answer = "failed"]})
    BY <1>3, <1>5
  <2>2. crossed' = crossed \cup {"failure"} \/ (~up /\ crossed' = crossed)
    BY <1>5 DEF Refuse, Fail, Cross, Undisturbed
  <2>. QED BY <1>2, <1>5, <2>1, <2>2 DEF IsRefused, Refuse
<1>. QED BY <1>4, <1>5 DEF Serve

LEMMA DropSteps ==
  ASSUME TypeOK, NEW t \in Threads, ServeDrop(t) \/ DetachedByOther(t)
  PROVE  Goes(t) \/ DropRefused(t)
<1>1. ASSUME ServeDrop(t), up, ServeUnsubscribe(t), Undisturbed PROVE Goes(t)
  BY <1>1 DEF ServeDrop, ServeUnsubscribe, Undisturbed, Goes, DetachOf
<1>2. ASSUME ServeDrop(t), Refuse PROVE DropRefused(t)
  <2>1. crossed' = crossed \cup {"failure"} \/ (~up /\ crossed' = crossed)
    BY <1>2 DEF Refuse, Fail, Cross, Undisturbed
  <2>. QED BY <1>2, <2>1 DEF ServeDrop, Refuse, DropRefused
<1>3. ASSUME DetachedByOther(t) PROVE Goes(t)
  BY <1>3 DEF DetachedByOther, ServeUnsubscribe, Goes, DetachOf
<1>. QED BY <1>1, <1>2, <1>3 DEF ServeDrop

LEMMA FollowSteps ==
  ASSUME TypeOK, NEW c \in Client, NEW t \in Keys, Follow(c, t),
         c.active = client.active, c.ignored = client.ignored,
         UnderWay(c) = UnderWay(client)
  PROVE  Follows(t) /\ client'.connected = c.connected
<1>1. /\ drops' = IF c.active = t \/ c.active = NoThread THEN drops
                  ELSE [drops EXCEPT ![c.active] = @ + 1]
      /\ client' \in Client /\ client'.desired = t /\ client'.connected = c.connected
      /\ client'.active = IF c.active = t THEN t ELSE NoThread
      /\ \/ /\ t = NoThread \/ window = "hidden" \/ (c.active = t /\ c.connected)
            /\ UnderWay(client') = UnderWay(c) /\ client'.ignored = c.ignored
         \/ /\ t # NoThread /\ window # "hidden"
            /\ Begins(c, client', t) \/ JoinsOne(c, client', t)
  BY FollowFacts
<1>2. /\ Begins(c, client', t) => Begins(client, client', t)
      /\ JoinsOne(c, client', t) => JoinsOne(client, client', t)
  BY DEF Begins, JoinsOne
<1>. QED BY <1>1, <1>2 DEF Follows

LEMMA RenderSteps ==
  ASSUME TypeOK
  PROVE  /\ \A t \in Keys : SelectThread(t) => Selects(t)
         /\ LoseSession => Loses
         /\ NoticeConnected => Notices
<1>1. client \in Client /\ selected \in Keys
  BY DEF TypeOK
<1>2. ASSUME NEW b \in BOOLEAN
      PROVE  LET c == [client EXCEPT !.connected = b]
             IN  /\ c \in Client /\ c.active = client.active /\ c.ignored = client.ignored
                 /\ c.connected = b /\ UnderWay(c) = UnderWay(client)
  BY <1>1 DEF Client, UnderWay
<1>3. ASSUME NEW t \in Keys, SelectThread(t) PROVE Selects(t)
  <2>1. Follow(client, t)
    BY <1>3 DEF SelectThread
  <2>2. Follows(t) /\ client'.connected = client.connected
    BY <1>1, <2>1, FollowSteps
  <2>3. crossed' = crossed \cup Left(t) \cup Again
    BY <1>3, LeftFacts DEF SelectThread, Again
  <2>. QED BY <1>3, <2>2, <2>3 DEF SelectThread, Selects
<1>4. ASSUME LoseSession PROVE Loses
  <2> DEFINE c == [client EXCEPT !.connected = FALSE]
  <2>1. Follow(c, selected)
    BY <1>4 DEF LoseSession
  <2>2. /\ c \in Client /\ c.active = client.active /\ c.ignored = client.ignored
        /\ c.connected = FALSE /\ UnderWay(c) = UnderWay(client)
    BY <1>2
  <2>. HIDE DEF c
  <2>3. Follows(selected) /\ client'.connected = FALSE
    BY <1>1, <2>1, <2>2, FollowSteps
  <2>4. crossed' = crossed \cup (IF UnderWay(client) # {} THEN {"torn"} ELSE {})
                           \cup Left(selected)
    BY <1>4, LeftFacts, UnderWayEmpty DEF LoseSession
  <2>. QED BY <1>4, <2>3, <2>4 DEF LoseSession, Loses
<1>5. ASSUME NoticeConnected PROVE Notices
  <2> DEFINE c == [client EXCEPT !.connected = TRUE]
  <2>1. Follow(c, selected)
    BY <1>5 DEF NoticeConnected
  <2>2. /\ c \in Client /\ c.active = client.active /\ c.ignored = client.ignored
        /\ c.connected = TRUE /\ UnderWay(c) = UnderWay(client)
    BY <1>2
  <2>. HIDE DEF c
  <2>3. Follows(selected) /\ client'.connected = TRUE
    BY <1>1, <2>1, <2>2, FollowSteps
  <2>4. crossed' = crossed \cup Left(selected)
    BY <1>5, LeftFacts DEF NoticeConnected, Cross
  <2>. QED BY <1>5, <2>3, <2>4 DEF NoticeConnected, Notices
<1>. QED BY <1>3, <1>4, <1>5

LEMMA WindowSteps ==
  ASSUME TypeOK, NEW to
  PROVE  (LeaveWindow(to) => Leaves) /\ (EnterWindow(to) => Enters)
<1>1. ASSUME LeaveWindow(to) PROVE Leaves
  <2>1. HandleBlur /\ window' = to /\ to \in {"visible", "hidden"} /\ window # "hidden"
    BY <1>1 DEF LeaveWindow
  <2>2. crossed' = crossed \cup Again
    BY <1>1 DEF LeaveWindow, Cross, Again
  <2>. QED BY <1>1, <2>1, <2>2, BlurFacts DEF LeaveWindow, Leaves
<1>2. ASSUME EnterWindow(to) PROVE Enters
  <2>1. window' = to /\ to \in {"visible", "focused"}
        /\ UNCHANGED <<selected, up, drops, refreshing, subscribed, events, crossed>>
    BY <1>2 DEF EnterWindow, Undisturbed
  <2>2. client' = IF selected = NoThread THEN client ELSE ReconnectLive(client, selected, TRUE)
    BY <1>2 DEF EnterWindow, ReconnectActive
  <2>3. CASE selected = NoThread
    BY <2>1, <2>2, <2>3 DEF Enters
  <2>4. CASE selected # NoThread
    <3>1. selected \in Threads /\ client \in Client
      BY <2>4 DEF TypeOK, Keys
    <3>2. Reconnects(client, client', selected)
      BY <2>2, <2>4, <3>1, ReconnectFacts
    <3>. QED BY <2>1, <3>1, <3>2 DEF Enters
  <2>. QED BY <2>3, <2>4
<1>. QED BY <1>1, <1>2

LEMMA RefreshSteps ==
  ASSUME TypeOK
  PROVE  (RefreshThread => Refreshes) /\ (RefreshAnswered => RefreshEnds)
<1>1. RefreshThread => Refreshes
  BY DEF RefreshThread, Refreshes
<1>2. ASSUME RefreshAnswered PROVE RefreshEnds
  <2>1. refreshing \in Threads /\ client \in Client
    BY <1>2 DEF RefreshAnswered, TypeOK, Keys
  <2>2. Reconnects(client, client', refreshing)
    BY <1>2, <2>1, ReconnectFacts DEF RefreshAnswered
  <2>. QED BY <1>2, <2>1, <2>2 DEF RefreshAnswered, RefreshEnds, Cross
<1>. QED BY <1>1, <1>2

LEMMA EventSteps ==
  ASSUME TypeOK, OnEvent
  PROVE  HearsOther \/ HearsAttached \/ HearsConnected \/ HearsOwn \/ HearsDetached
<1> DEFINE e == Head(events)
<1>1. /\ Hears /\ client \in Client /\ selected \in Keys /\ NoThread \notin Threads
  BY ThreadsAssumption DEF TypeOK, OnEvent, Hears
<1>2. e \in Event
  BY <1>1 DEF TypeOK, Hears
<1>3. /\ client' = CASE e.kind = "attached" -> OnAttached(e.thread)
                     [] e.kind = "detached" -> OnDetached(e.thread)
                     [] OTHER -> OnConnected
      /\ crossed' = crossed \cup (IF Joins(e) THEN {"joined"} ELSE {})
                            \cup (IF Unheard(e) THEN {"unheard"} ELSE {})
  BY DEF OnEvent
<1>4. CASE e.kind = "attached"
  <2>1. client' = OnAttached(e.thread) /\ crossed' = crossed
    BY <1>3, <1>4 DEF Joins, Unheard
  <2>2. CASE e.thread # selected
    <3>1. client' = client
      BY <2>1, <2>2 DEF OnAttached
    <3>. QED BY <1>1, <1>4, <2>1, <3>1 DEF HearsOther, Detaches, Unheard
  <2>3. CASE e.thread = selected
    <3>1. client' = [client EXCEPT !.active = selected, !.disconnected = FALSE]
      BY <2>1, <2>3 DEF OnAttached
    <3>2. /\ client' \in Client /\ client'.active = selected /\ client'.desired = client.desired
          /\ client'.connected = client.connected /\ client'.ignored = client.ignored
          /\ UnderWay(client') = UnderWay(client)
      BY <1>1, <3>1 DEF Client, UnderWay
    <3>. QED BY <1>1, <1>4, <2>1, <3>2 DEF HearsAttached
  <2>. QED BY <2>2, <2>3
<1>5. CASE e.kind = "detached"
  <2>1. client' = OnDetached(e.thread) /\ e.thread \in Threads
    BY <1>2, <1>3, <1>5 DEF Event
  <2>2. CASE e.thread # selected
    <3>1. client' = client /\ ~Detaches(e, selected)
      BY <2>1, <2>2 DEF OnDetached, Detaches
    <3>2. crossed' = crossed \cup (IF Unheard(e) THEN {"unheard"} ELSE {})
      BY <1>3, <2>2 DEF Joins
    <3>. QED BY <1>1, <3>1, <3>2 DEF HearsOther
  <2>3. CASE e.thread = selected /\ selected \in client.ignored
    <3>1. client' = [client EXCEPT !.ignored = @ \ {selected}]
      BY <2>1, <2>3 DEF OnDetached
    <3>2. /\ client' \in Client /\ Alike(client, client')
          /\ client'.ignored = client.ignored \ {selected}
          /\ UnderWay(client') = UnderWay(client)
      BY <1>1, <3>1 DEF Client, Alike, UnderWay
    <3>3. crossed' = crossed
      BY <1>3, <2>3 DEF Joins, Unheard
    <3>. QED BY <1>1, <1>5, <2>3, <3>2, <3>3 DEF HearsOwn, Detaches
  <2>4. CASE e.thread = selected /\ selected \notin client.ignored
    <3>1. Joins(e) <=> \E a \in UnderWay(client) : a.key = selected /\ a.pc = "subscribing"
      BY <1>5, <2>4 DEF Joins, UnderWay
    <3>2. crossed' = crossed \cup
            (IF \E a \in UnderWay(client) : a.key = selected /\ a.pc = "subscribing"
             THEN {"joined"} ELSE {})
      BY <1>3, <2>4, <3>1 DEF Unheard
    <3>3. client' = OnDetached(selected) /\ selected \in Threads
      BY <2>1, <2>4
    <3>4. /\ client' \in Client /\ client'.active = NoThread
          /\ client'.connected = client.connected
          /\ \/ /\ window # "focused" /\ client'.desired = client.desired
                /\ UnderWay(client') = UnderWay(client) /\ client'.ignored = client.ignored
             \/ /\ window = "focused" /\ client'.desired = selected
                /\ Begins(client, client', selected) \/ JoinsOne(client, client', selected)
      BY <2>4, <3>3, DetachedFacts
    <3>. QED BY <1>1, <1>5, <2>4, <3>2, <3>3, <3>4 DEF HearsDetached, Detaches
  <2>. QED BY <2>2, <2>3, <2>4
<1>6. CASE e.kind = "connected"
  <2>1. client' = OnConnected /\ crossed' = crossed
    BY <1>3, <1>6 DEF Joins, Unheard
  <2>2. CASE selected = NoThread \/ window = "hidden"
    <3>1. client' = client
      BY <2>1, <2>2 DEF OnConnected
    <3>. QED BY <1>1, <1>6, <2>1, <3>1 DEF HearsOther, Detaches, Unheard
  <2>3. CASE ~(selected = NoThread \/ window = "hidden")
    <3>1. selected \in Threads
      BY <1>1, <2>3 DEF Keys
    <3>2. Reconnects(client, client', selected)
      BY <1>1, <2>1, <2>3, <3>1, ReconnectFacts DEF OnConnected
    <3>. QED BY <1>1, <1>6, <2>1, <2>3, <3>1, <3>2 DEF HearsConnected
  <2>. QED BY <2>2, <2>3
<1>7. e.kind = "attached" \/ e.kind = "detached" \/ e.kind = "connected"
  BY <1>2 DEF Event
<1>. QED BY <1>4, <1>5, <1>6, <1>7

LEMMA NextSteps ==
  ASSUME TypeOK, [Next]_vars PROVE Steps
<1>1. ASSUME AttemptStep PROVE AttemptMoves
  <2>1. PICK i \in DOMAIN client.attempts :
          \/ ConnectAnswered(i) \/ ResumeAnswered(i) \/ DropAnswered(i)
          \/ SubscribeAnswered(i) \/ CleanupAnswered(i)
    BY <1>1 DEF AttemptStep, Attempts
  <2> DEFINE a == client.attempts[i]
  <2>2. Progresses(a) \/ Ends(a) \/ Detached(a) \/ Lands(a) \/ CleansUp(a)
    BY <2>1, AttemptSteps
  <2>3. a \in UnderWay(client)
    BY InUnderWay
  <2>. HIDE DEF a
  <2>. QED BY <2>2, <2>3 DEF AttemptMoves
<1>2. ASSUME NEW i \in DOMAIN client.attempts, Serve(i) PROVE AttemptMoves
  <2> DEFINE a == client.attempts[i]
  <2>1. Subscribes(a) \/ Unsubscribes(a) \/ IsRefused(a)
    BY <1>2, DaemonSteps
  <2>2. a \in UnderWay(client)
    BY InUnderWay
  <2>. HIDE DEF a
  <2>. QED BY <2>1, <2>2 DEF AttemptMoves
<1>3. ASSUME NEW t \in Threads, ServeDrop(t) \/ DetachedByOther(t) PROVE Goes(t) \/ DropRefused(t)
  BY <1>3, DropSteps
<1>4. ASSUME NEW t \in Threads, IgnoreExpires(t) PROVE Expires(t)
  <2>1. client' = [client EXCEPT !.ignored = @ \ {t}] /\ client \in Client
    BY <1>4 DEF IgnoreExpires, TypeOK
  <2>2. /\ client' \in Client /\ Alike(client, client')
        /\ client'.ignored = client.ignored \ {t} /\ UnderWay(client') = UnderWay(client)
    BY <2>1 DEF Client, Alike, UnderWay
  <2>. QED BY <1>4, <2>2 DEF IgnoreExpires, Expires
<1>5. CASE UNCHANGED vars
  BY <1>5 DEF vars, Steps
<1>6. CASE Next
  <2>1. CASE AttemptStep
    BY <1>1, <2>1 DEF Steps
  <2>2. CASE DaemonStep
    BY <1>2, <1>3, <2>2 DEF DaemonStep, Attempts, Steps
  <2>3. CASE OnEvent
    BY <2>3, EventSteps DEF Steps
  <2>4. CASE NoticeConnected \/ LoseSession \/ \E t \in Keys : SelectThread(t)
    BY <2>4, RenderSteps DEF Steps
  <2>5. CASE \E t \in Threads : DetachedByOther(t) \/ IgnoreExpires(t)
    BY <1>3, <1>4, <2>5 DEF Steps
  <2>6. CASE \E to \in {"focused", "visible", "hidden"} : LeaveWindow(to) \/ EnterWindow(to)
    BY <2>6, WindowSteps DEF Steps
  <2>7. CASE RefreshThread \/ RefreshAnswered
    BY <2>7, RefreshSteps DEF Steps
  <2>. QED BY <1>6, <2>1, <2>2, <2>3, <2>4, <2>5, <2>6, <2>7 DEF Next
<1>. QED BY <1>5, <1>6

---------------------------------------------------------------------------
(* Types, and the client without a session. *)

LEMMA TypeStep ==
  ASSUME TypeOK, [Next]_vars PROVE TypeOK'
<1>1. Steps
  BY NextSteps
<1>2. /\ selected \in Keys /\ window \in Windows /\ up \in BOOLEAN /\ client \in Client
      /\ drops \in [Threads -> Nat] /\ refreshing \in Keys /\ subscribed \subseteq Threads
      /\ events \in Seq(Event) /\ disturbed \in Nat /\ crossed \subseteq Crossings
  BY DEF TypeOK
<1>3. disturbed' \in Nat
  <2>1. disturbed' = disturbed \/ disturbed' = disturbed + 1
    BY DEF Next, vars, AttemptStep, DaemonStep, ConnectAnswered, ResumeAnswered, DropAnswered,
           SubscribeAnswered, CleanupAnswered, Serve, ServeDrop, OnEvent, NoticeConnected,
           LoseSession, SelectThread, DetachedByOther, IgnoreExpires, LeaveWindow, EnterWindow,
           RefreshThread, RefreshAnswered, Refuse, Fail, Disturb, Undisturbed
  <2>. QED BY <1>2, <2>1
<1>4. \A a \in UnderWay(client) : a \in Attempt
  BY <1>2 DEF UnderWay, Client
<1>5. \A t \in Threads : /\ [drops EXCEPT ![t] = @ + 1] \in [Threads -> Nat]
                         /\ drops[t] > 0 => [drops EXCEPT ![t] = @ - 1] \in [Threads -> Nat]
  BY <1>2
<1>6. client.active = NoThread \/ client.active \in Threads
  BY <1>2 DEF Client, Keys
<1>7. /\ \A t \in Threads : /\ DetachOf(t) \in Event
                            /\ [kind |-> "attached", thread |-> t] \in Event
      /\ [kind |-> "connected", thread |-> NoThread] \in Event
  BY DEF DetachOf, Event
<1>8. /\ \A e \in Event : Append(events, e) \in Seq(Event)
      /\ events # <<>> => Tail(events) \in Seq(Event)
  BY <1>2
<1>9. /\ "failure" \in Crossings /\ "torn" \in Crossings /\ "joined" \in Crossings
      /\ "left" \in Crossings /\ "again" \in Crossings /\ "refresh" \in Crossings
      /\ "dropped" \in Crossings /\ "unheard" \in Crossings
  BY DEF Crossings
<1>10. (\A t : Left(t) \subseteq Crossings) /\ Again \subseteq Crossings
  BY <1>9 DEF Left, Again
<1>11. ASSUME NEW a \in UnderWay(client),
              \/ Progresses(a) \/ Ends(a) \/ Detached(a) \/ Lands(a) \/ CleansUp(a)
              \/ Subscribes(a) \/ Unsubscribes(a) \/ IsRefused(a)
       PROVE  TypeOK'
  <2>1. a.key \in Threads
    BY <1>4 DEF Attempt
  <2>2. CASE Progresses(a)
    BY <1>2, <1>3, <1>7, <1>8, <2>2 DEF Progresses, Proceeds, TypeOK
  <2>3. CASE Ends(a)
    BY <1>2, <1>3, <1>9, <2>3 DEF Ends, Moves, TypeOK
  <2>4. CASE Detached(a)
    BY <1>2, <1>3, <1>9, <2>4 DEF Detached, TypeOK
  <2>5. CASE Lands(a)
    BY <1>2, <1>3, <2>5 DEF Lands, TypeOK
  <2>6. CASE CleansUp(a)
    BY <1>2, <1>3, <2>6 DEF CleansUp, Moves, TypeOK
  <2>7. CASE Subscribes(a)
    BY <1>2, <1>3, <1>7, <1>8, <2>1, <2>7 DEF Subscribes, Moves, TypeOK
  <2>8. CASE Unsubscribes(a)
    BY <1>2, <1>3, <1>7, <1>8, <2>1, <2>8 DEF Unsubscribes, Moves, TypeOK
  <2>9. CASE IsRefused(a)
    BY <1>2, <1>3, <1>9, <2>9 DEF IsRefused, Moves, TypeOK
  <2>. QED BY <1>11, <2>2, <2>3, <2>4, <2>5, <2>6, <2>7, <2>8, <2>9
<1>12. ASSUME NEW t \in Threads, Goes(t) \/ DropRefused(t) \/ Expires(t) PROVE TypeOK'
  <2>1. CASE Goes(t)
    BY <1>2, <1>3, <1>5, <1>7, <1>8, <2>1 DEF Goes, TypeOK
  <2>2. CASE DropRefused(t)
    BY <1>2, <1>3, <1>5, <1>9, <2>2 DEF DropRefused, TypeOK
  <2>3. CASE Expires(t)
    BY <1>2, <1>3, <2>3 DEF Expires, TypeOK
  <2>. QED BY <1>12, <2>1, <2>2, <2>3
<1>13. \A t : Follows(t) => drops' \in [Threads -> Nat] /\ client' \in Client
  BY <1>2, <1>5, <1>6 DEF Follows
<1>14. ASSUME NEW t \in Keys, Selects(t) PROVE TypeOK'
  BY <1>2, <1>3, <1>10, <1>13, <1>14 DEF Selects, TypeOK
<1>15. CASE Loses
  BY <1>2, <1>3, <1>9, <1>10, <1>13, <1>15 DEF Loses, TypeOK
<1>16. CASE Notices
  BY <1>2, <1>3, <1>10, <1>13, <1>16 DEF Notices, TypeOK
<1>17. CASE Leaves
  BY <1>2, <1>3, <1>5, <1>6, <1>10, <1>17 DEF Leaves, TypeOK, Windows
<1>18. CASE Enters
  BY <1>2, <1>3, <1>18 DEF Enters, Reconnects, TypeOK, Windows
<1>19. CASE Refreshes
  BY <1>2, <1>3, <1>19 DEF Refreshes, TypeOK
<1>20. CASE RefreshEnds
  <2>1. refreshing' \in Keys
    BY <1>20 DEF RefreshEnds, Keys
  <2>. QED BY <1>2, <1>3, <1>9, <1>20, <2>1 DEF RefreshEnds, Reconnects, TypeOK
<1>21. CASE HearsOther \/ HearsAttached \/ HearsConnected \/ HearsOwn \/ HearsDetached
  <2>1. /\ client' \in Client /\ crossed' \subseteq Crossings
    BY <1>2, <1>9, <1>21 DEF HearsOther, HearsAttached, HearsConnected, HearsOwn, HearsDetached, Reconnects
  <2>2. Hears
    BY <1>21 DEF HearsOther, HearsAttached, HearsConnected, HearsOwn, HearsDetached
  <2>. QED BY <1>2, <1>3, <1>8, <2>1, <2>2 DEF Hears, TypeOK
<1>22. CASE UNCHANGED <<selected, window, up, client, drops, refreshing, subscribed, events, crossed>>
  BY <1>2, <1>3, <1>22 DEF TypeOK
<1>. QED
  BY <1>1, <1>11, <1>12, <1>14, <1>15, <1>16, <1>17, <1>18, <1>19, <1>20, <1>21, <1>22
     DEF Steps, AttemptMoves

LEMMA DownStep ==
  ASSUME TypeOK, Down, [Next]_vars PROVE Down'
<1>1. Steps
  BY NextSteps
<1>2. CASE up' = TRUE
  BY <1>2 DEF Down
<1>3. CASE UNCHANGED <<up, subscribed>> /\ client'.connected = client.connected
  BY <1>3 DEF Down
<1>4. CASE Loses
  BY <1>4 DEF Loses, Down
<1>5. ASSUME NEW a \in UnderWay(client),
             \/ Progresses(a) \/ Ends(a) \/ Detached(a) \/ Lands(a) \/ CleansUp(a)
             \/ Subscribes(a) \/ Unsubscribes(a) \/ IsRefused(a)
      PROVE  up' = TRUE \/ (UNCHANGED <<up, subscribed>> /\ client'.connected = client.connected)
  BY <1>5 DEF Progresses, Ends, Detached, Lands, CleansUp, Subscribes, Unsubscribes, IsRefused,
              Moves, Alike, TypeOK
<1>6. ASSUME NEW t \in Threads, Goes(t) \/ DropRefused(t) \/ Expires(t)
      PROVE  up' = TRUE \/ (UNCHANGED <<up, subscribed>> /\ client'.connected = client.connected)
  BY <1>6 DEF Goes, DropRefused, Expires, Alike, TypeOK
<1>7. ASSUME (\E t \in Keys : Selects(t)) \/ Notices \/ Leaves \/ Enters \/ Refreshes \/ RefreshEnds
      PROVE  up' = TRUE \/ (UNCHANGED <<up, subscribed>> /\ client'.connected = client.connected)
  BY <1>7 DEF Selects, Notices, Leaves, Enters, Refreshes, RefreshEnds, Reconnects, TypeOK
<1>8. ASSUME HearsOther \/ HearsAttached \/ HearsConnected \/ HearsOwn \/ HearsDetached
      PROVE  up' = TRUE \/ (UNCHANGED <<up, subscribed>> /\ client'.connected = client.connected)
  BY <1>8 DEF HearsOther, HearsAttached, HearsConnected, HearsOwn, HearsDetached, Hears,
              Reconnects, Alike
<1>. QED
  BY <1>1, <1>2, <1>3, <1>4, <1>5, <1>6, <1>7, <1>8 DEF Steps, AttemptMoves

---------------------------------------------------------------------------
(* What the client wants is what the user sees. *)

LEMMA CrossedGrows ==
  ASSUME TypeOK, [Next]_vars PROVE crossed \subseteq crossed'
<1>1. Steps
  BY NextSteps
<1>. QED
  BY <1>1 DEF Steps, AttemptMoves, Progresses, Ends, Detached, Lands, CleansUp, Subscribes,
              Unsubscribes, IsRefused, Goes, DropRefused, Expires, Selects, Loses, Notices,
              Leaves, Enters, Refreshes, RefreshEnds, Hears, HearsOther, HearsAttached,
              HearsConnected, HearsOwn, HearsDetached

\* Every attempt that is now current was before, for the same thread.
Narrowed ==
  \A b \in UnderWay(client') :
    b.current => \E a \in UnderWay(client) : a.current /\ b.key = a.key

LEMMA StaledFacts ==
  ASSUME NEW c \in Client, NEW b \in Staled(UnderWay(c))
  PROVE  /\ b \in Attempt /\ b.current = FALSE
         /\ \E a \in UnderWay(c) : a.key = b.key /\ a.pc = b.pc /\ a.answer = b.answer
<1>1. PICK a \in UnderWay(c) : b = [a EXCEPT !.current = FALSE]
  BY DEF Staled
<1>2. a \in Attempt
  BY DEF UnderWay, Client
<1>. QED BY <1>1, <1>2 DEF Attempt

LEMMA StaledHas ==
  ASSUME NEW c \in Client, NEW a \in UnderWay(c)
  PROVE  \E b \in Staled(UnderWay(c)) :
           b.current = FALSE /\ b.key = a.key /\ b.pc = a.pc /\ b.answer = a.answer
<1>1. a \in Attempt
  BY DEF UnderWay, Client
<1>2. [a EXCEPT !.current = FALSE] \in Staled(UnderWay(c))
  BY DEF Staled
<1>. QED BY <1>1, <1>2 DEF Attempt

LEMMA OnwardFacts ==
  ASSUME NEW a \in Attempt, NEW pc
  PROVE  /\ Onward(a, pc).key = a.key /\ Onward(a, pc).current = a.current
         /\ Onward(a, pc).pc = pc /\ Onward(a, pc).answer = "none"
BY DEF Onward, Attempt

LEMMA AnsweredFacts ==
  ASSUME NEW a \in Attempt, NEW x
  PROVE  LET b == [a EXCEPT !.answer = x]
         IN  b.key = a.key /\ b.current = a.current /\ b.pc = a.pc /\ b.answer = x
BY DEF Attempt

\* The attempts of F are for the thread of a, and current if a is.
Succeeds(a, F) ==
  Swaps(client, client', a, F) /\ \A b \in F : b.current = a.current /\ b.key = a.key

LEMMA SucceedsNarrow ==
  ASSUME NEW a \in UnderWay(client), NEW F, Succeeds(a, F) PROVE Narrowed
<1> SUFFICES ASSUME NEW b \in UnderWay(client'), b.current
             PROVE  \E x \in UnderWay(client) : x.current /\ b.key = x.key
  BY DEF Narrowed
<1>1. b \in UnderWay(client) \/ b \in F
  BY DEF Succeeds, Swaps
<1>2. CASE b \in F
  BY <1>2 DEF Succeeds
<1>. QED BY <1>1, <1>2

LEMMA SucceedsOne ==
  ASSUME TypeOK, NEW a \in UnderWay(client)
  PROVE  /\ Swaps(client, client', a, {}) => Succeeds(a, {})
         /\ \A pc : Swaps(client, client', a, {Onward(a, pc)}) => Succeeds(a, {Onward(a, pc)})
         /\ \A x : Swaps(client, client', a, {[a EXCEPT !.answer = x]})
                    => Succeeds(a, {[a EXCEPT !.answer = x]})
<1>1. a \in Attempt
  BY DEF UnderWay, TypeOK, Client
<1>2. Swaps(client, client', a, {}) => Succeeds(a, {})
  BY DEF Succeeds
<1>3. ASSUME NEW pc, Swaps(client, client', a, {Onward(a, pc)})
      PROVE  Succeeds(a, {Onward(a, pc)})
  BY <1>1, <1>3, OnwardFacts DEF Succeeds
<1>4. ASSUME NEW x, Swaps(client, client', a, {[a EXCEPT !.answer = x]})
      PROVE  Succeeds(a, {[a EXCEPT !.answer = x]})
  <2> DEFINE b == [a EXCEPT !.answer = x]
  <2>1. b.key = a.key /\ b.current = a.current
    BY <1>1, AnsweredFacts
  <2>2. Swaps(client, client', a, {b})
    BY <1>4
  <2> HIDE DEF b
  <2>3. Succeeds(a, {b})
    BY <2>1, <2>2 DEF Succeeds
  <2>. QED BY <2>3 DEF b
<1>. QED BY <1>2, <1>3, <1>4

LEMMA AttemptMovesNarrow ==
  ASSUME TypeOK, NEW a \in UnderWay(client),
         \/ Progresses(a) \/ Ends(a) \/ Detached(a) \/ Lands(a) \/ CleansUp(a)
         \/ Subscribes(a) \/ Unsubscribes(a) \/ IsRefused(a)
  PROVE  /\ Narrowed /\ client'.desired = client.desired
         /\ UNCHANGED <<selected, window, refreshing>>
         /\ \/ client'.active = client.active \/ client'.active = NoThread
            \/ client'.active = a.key /\ a.current
<1>3. /\ client'.desired = client.desired /\ UNCHANGED <<selected, window, refreshing>>
      /\ \/ client'.active = client.active \/ client'.active = NoThread
         \/ client'.active = a.key /\ a.current
  BY DEF Progresses, Proceeds, Ends, Detached, Lands, CleansUp, Subscribes, Unsubscribes,
         IsRefused, Moves, Alike
<1>4. ASSUME Progresses(a) PROVE Narrowed
  <2>1. CASE a.current
    <3>1. PICK pc : Swaps(client, client', a, {Onward(a, pc)})
      BY <1>4, <2>1 DEF Progresses, Proceeds
    <3>. QED BY <3>1, SucceedsOne, SucceedsNarrow
  <2>2. CASE ~a.current
    <3>1. Swaps(client, client', a, {})
      BY <1>4, <2>2 DEF Progresses, Proceeds
    <3>. QED BY <3>1, SucceedsOne, SucceedsNarrow
  <2>. QED BY <2>1, <2>2
<1>5. ASSUME Ends(a) \/ Lands(a) PROVE Narrowed
  <2>1. Swaps(client, client', a, {})
    BY <1>5 DEF Ends, Lands, Moves
  <2>. QED BY <2>1, SucceedsOne, SucceedsNarrow
<1>6. ASSUME Detached(a) \/ CleansUp(a) PROVE Narrowed
  <2>1. PICK pc : Swaps(client, client', a, {Onward(a, pc)})
    BY <1>6 DEF Detached, CleansUp, Moves
  <2>. QED BY <2>1, SucceedsOne, SucceedsNarrow
<1>7. ASSUME Subscribes(a) \/ Unsubscribes(a) \/ IsRefused(a) PROVE Narrowed
  <2>1. PICK x : Swaps(client, client', a, {[a EXCEPT !.answer = x]})
    BY <1>7 DEF Subscribes, Unsubscribes, IsRefused, Moves
  <2>. QED BY <2>1, SucceedsOne, SucceedsNarrow
<1>8. Narrowed
  BY <1>4, <1>5, <1>6, <1>7
<1>. QED BY <1>3, <1>8

LEMMA BeginsFor ==
  ASSUME TypeOK, NEW t \in Threads, Begins(client, client', t)
  PROVE  \A b \in UnderWay(client') : b.current => b.key = t
<1> SUFFICES ASSUME NEW b \in UnderWay(client'), b.current PROVE b.key = t
  OBVIOUS
<1>1. b \in Staled(UnderWay(client)) \/ IsFresh(b, t, client'.connected)
  BY DEF Begins
<1>2. b \notin Staled(UnderWay(client))
  BY StaledFacts DEF TypeOK
<1>. QED BY <1>1, <1>2 DEF IsFresh

LEMMA OwnStep ==
  ASSUME TypeOK, Own, [Next]_vars PROVE Own'
<1> SUFFICES ASSUME Followed' PROVE
    /\ client'.desired # NoThread => client'.desired = selected'
    /\ client'.active # NoThread => client'.active = selected'
    /\ \A a \in UnderWay(client') : a.current => a.key = client'.desired /\ window' # "hidden"
    /\ window' = "hidden" /\ client'.desired # NoThread => UnderWay(client') = {}
  BY DEF Own
<1> DEFINE Goal ==
    /\ client'.desired # NoThread => client'.desired = selected'
    /\ client'.active # NoThread => client'.active = selected'
    /\ \A a \in UnderWay(client') : a.current => a.key = client'.desired /\ window' # "hidden"
    /\ window' = "hidden" /\ client'.desired # NoThread => UnderWay(client') = {}
<1>1. Steps
  BY NextSteps
<1>2. Followed
  BY CrossedGrows DEF Followed
<1>3. /\ client.desired # NoThread => client.desired = selected
      /\ client.active # NoThread => client.active = selected
      /\ \A a \in UnderWay(client) : a.current => a.key = client.desired /\ window # "hidden"
      /\ window = "hidden" /\ client.desired # NoThread => UnderWay(client) = {}
  BY <1>2 DEF Own
<1>4. \A a \in UnderWay(client) : a.key \in Threads /\ a.key # NoThread
  BY ThreadsAssumption, IsAttempt DEF Attempt
<1>5. /\ "left" \notin crossed' /\ "refresh" \notin crossed'
  BY DEF Followed
<1>6. ASSUME UnderWay(client') = UnderWay(client), UNCHANGED <<selected, window>>,
             client'.desired = client.desired,
             client'.active \in {client.active, NoThread, selected}
      PROVE  Goal
  BY <1>3, <1>6
<1>7. ASSUME NEW t \in Threads, Begins(client, client', t) \/ JoinsOne(client, client', t),
             t = selected', client'.desired = t, window' # "hidden",
             client'.active \in {NoThread, selected'}, selected' = selected
      PROVE  Goal
  <2>1. CASE Begins(client, client', t)
    BY <1>7, <2>1, BeginsFor
  <2>2. CASE JoinsOne(client, client', t)
    <3>1. ASSUME NEW a \in UnderWay(client'), a.current PROVE a.key = t
      BY <1>3, <1>4, <1>7, <2>2, <3>1 DEF JoinsOne
    <3>. QED BY <1>7, <3>1
  <2>. QED BY <1>7, <2>1, <2>2
<1>8. client.active \in {NoThread, selected}
  BY <1>3
<1>9. ASSUME NEW a \in UnderWay(client),
             \/ Progresses(a) \/ Ends(a) \/ Detached(a) \/ Lands(a) \/ CleansUp(a)
             \/ Subscribes(a) \/ Unsubscribes(a) \/ IsRefused(a)
      PROVE  Goal
  <2>1. /\ Narrowed /\ client'.desired = client.desired
        /\ UNCHANGED <<selected, window, refreshing>>
        /\ \/ client'.active = client.active \/ client'.active = NoThread
           \/ client'.active = a.key /\ a.current
    BY <1>9, AttemptMovesNarrow
  <2>2. \A b \in UnderWay(client') : b.current => b.key = client.desired /\ window # "hidden"
    BY <1>3, <2>1 DEF Narrowed
  <2>3. client'.active \in {NoThread, selected}
    BY <1>3, <1>4, <2>1
  <2>4. window = "hidden" => client.desired = NoThread
    BY <1>3
  <2>. QED BY <1>3, <2>1, <2>2, <2>3, <2>4
<1>10. ASSUME \/ \E t \in Threads : Goes(t) \/ DropRefused(t) \/ Expires(t)
              \/ Refreshes \/ HearsOther \/ HearsAttached \/ HearsOwn
              \/ UNCHANGED <<selected, window, up, client, drops, refreshing, subscribed,
                             events, crossed>>
       PROVE  Goal
  BY <1>6, <1>10 DEF Goes, DropRefused, Expires, Refreshes, Hears, HearsOther, HearsAttached,
                     HearsOwn, Alike
<1>11. ASSUME NEW t \in Keys, Selects(t) PROVE Goal
  <2>1. t # selected /\ selected' = t /\ window' = window
    BY <1>11 DEF Selects
  <2>2. /\ client'.desired = t
        /\ client'.active = IF client.active = t THEN t ELSE NoThread
        /\ \/ /\ t = NoThread \/ window = "hidden" \/ (client.active = t /\ client'.connected)
              /\ UnderWay(client') = UnderWay(client)
           \/ /\ t # NoThread /\ window # "hidden"
              /\ Begins(client, client', t) \/ JoinsOne(client, client', t)
    BY <1>11 DEF Selects, Follows
  <2>3. t = NoThread \/ window = "hidden" => UnderWay(client) = {}
    BY <1>5, <1>11 DEF Selects, Left
  <2>4. CASE /\ t = NoThread \/ window = "hidden" \/ (client.active = t /\ client'.connected)
             /\ UnderWay(client') = UnderWay(client)
    <3>1. t = NoThread \/ window = "hidden"
      BY <1>3, <2>1, <2>4
    <3>. QED BY <2>1, <2>2, <2>3, <2>4, <3>1
  <2>5. CASE t # NoThread /\ window # "hidden" /\ Begins(client, client', t)
    <3>1. t \in Threads
      BY <2>5 DEF Keys
    <3>. QED BY <2>1, <2>2, <2>5, <3>1, BeginsFor
  <2>6. CASE JoinsOne(client, client', t)
    BY <1>3, <1>4, <2>1, <2>6 DEF JoinsOne
  <2>. QED BY <2>2, <2>4, <2>5, <2>6
<1>12. ASSUME Loses \/ Notices PROVE Goal
  <2>1. UNCHANGED <<selected, window>> /\ Left(selected) \subseteq crossed'
    BY <1>12 DEF Loses, Notices
  <2>2. /\ client'.desired = selected
        /\ client'.active = IF client.active = selected THEN selected ELSE NoThread
        /\ \/ /\ \/ selected = NoThread \/ window = "hidden"
                 \/ client.active = selected /\ client'.connected
              /\ UnderWay(client') = UnderWay(client)
           \/ /\ selected # NoThread /\ window # "hidden"
              /\ Begins(client, client', selected) \/ JoinsOne(client, client', selected)
    BY <1>12 DEF Loses, Notices, Follows
  <2>3. selected = NoThread \/ window = "hidden" => UnderWay(client) = {}
    BY <1>5, <2>1 DEF Left
  <2>4. CASE UnderWay(client') = UnderWay(client)
    BY <1>3, <1>4, <2>1, <2>2, <2>3, <2>4
  <2>5. CASE /\ selected # NoThread /\ window # "hidden"
             /\ Begins(client, client', selected) \/ JoinsOne(client, client', selected)
    <3>1. selected \in Threads
      BY <2>5 DEF TypeOK, Keys
    <3>. QED BY <1>7, <2>1, <2>2, <2>5, <3>1
  <2>. QED BY <2>2, <2>4, <2>5
<1>13. ASSUME Leaves PROVE Goal
  <2>1. \A b \in UnderWay(client') : b.current = FALSE
    BY <1>13, StaledFacts DEF Leaves, TypeOK
  <2>. QED BY <1>13, <2>1 DEF Leaves
<1>14. ASSUME Enters PROVE Goal
  <2>1. window' # "hidden" /\ selected' = selected
    BY <1>14 DEF Enters
  <2>2. CASE selected = NoThread /\ client' = client
    BY <1>3, <1>4, <2>1, <2>2
  <2>3. CASE selected \in Threads /\ Reconnects(client, client', selected)
    BY <1>7, <1>8, <2>1, <2>3 DEF Reconnects
  <2>. QED BY <1>14, <2>2, <2>3 DEF Enters
<1>15. ASSUME RefreshEnds PROVE Goal
  <2>1. refreshing = selected /\ window # "hidden" /\ UNCHANGED <<selected, window>>
    BY <1>5, <1>15 DEF RefreshEnds
  <2>. QED BY <1>7, <1>8, <1>15, <2>1 DEF RefreshEnds, Reconnects
<1>16. ASSUME HearsConnected PROVE Goal
  BY <1>7, <1>8, <1>16 DEF HearsConnected, Hears, Reconnects
<1>17. ASSUME HearsDetached PROVE Goal
  <2>1. UNCHANGED <<selected, window>> /\ selected \in Threads /\ client'.active = NoThread
    BY <1>17 DEF HearsDetached, Hears
  <2>2. CASE /\ client'.desired = client.desired /\ UnderWay(client') = UnderWay(client)
    BY <1>6, <2>1, <2>2
  <2>3. CASE /\ window = "focused" /\ client'.desired = selected
             /\ Begins(client, client', selected) \/ JoinsOne(client, client', selected)
    BY <1>7, <2>1, <2>3
  <2>. QED BY <1>17, <2>2, <2>3 DEF HearsDetached
<1>. HIDE DEF Goal
<1>18. Goal
  BY <1>1, <1>9, <1>10, <1>11, <1>12, <1>13, <1>14, <1>15, <1>16, <1>17 DEF Steps, AttemptMoves
<1>. QED BY <1>18 DEF Goal

---------------------------------------------------------------------------
(* What is subscribed and unwanted is to be undone. *)

LEMMA OwedSwaps ==
  ASSUME NEW a \in UnderWay(client), NEW F, Swaps(client, client', a, F), drops' = drops,
         NEW t, Owed(t), a.key # t \/ ~Undoes(a) \/ \E b \in F : b.key = t /\ Undoes(b)
  PROVE  Owed(t)'
<1>1. CASE drops[t] > 0
  BY <1>1 DEF Owed
<1>2. CASE \E b \in F : b.key = t /\ Undoes(b)
  BY <1>2 DEF Owed, Swaps, Undoes
<1>3. ASSUME NEW w \in UnderWay(client), w.key = t, Undoes(w), w # a PROVE Owed(t)'
  <2>1. w \in UnderWay(client')
    BY <1>3 DEF Swaps
  <2>. QED BY <1>3, <2>1 DEF Owed, Undoes
<1>. QED BY <1>1, <1>2, <1>3 DEF Owed

LEMMA OwedStays ==
  ASSUME TypeOK, NEW t,
         drops[t] > 0 => drops'[t] > 0,
         \/ UnderWay(client') = UnderWay(client)
         \/ Staled(UnderWay(client)) \subseteq UnderWay(client'),
         Owed(t)
  PROVE  Owed(t)'
<1>1. CASE drops[t] > 0
  BY <1>1 DEF Owed
<1>2. ASSUME NEW w \in UnderWay(client), w.key = t, Undoes(w) PROVE Owed(t)'
  <2>1. CASE w \in UnderWay(client')
    BY <1>2, <2>1 DEF Owed, Undoes
  <2>2. CASE Staled(UnderWay(client)) \subseteq UnderWay(client')
    <3>1. PICK b \in Staled(UnderWay(client)) : b.key = w.key /\ b.pc = w.pc /\ b.answer = w.answer
      BY StaledHas DEF TypeOK
    <3>2. b \in UnderWay(client')
      BY <2>2, <3>1
    <3>. QED BY <1>2, <3>1, <3>2 DEF Owed, Undoes
  <2>. QED BY <2>1, <2>2
<1>. QED BY <1>1, <1>2 DEF Owed

LEMMA StillHeld ==
  ASSUME TypeOK, ~Forsakes
  PROVE  \/ client.desired = NoThread \/ client.active = client.desired
         \/ \E a \in UnderWay(client) :
              a.current /\ a.pc = "subscribing" /\ a.answer # "failed"
BY DEF Forsakes, UnderWay

LEMMA DropsGrow ==
  ASSUME TypeOK, NEW k \in Keys, drops' = IF k = NoThread THEN drops ELSE [drops EXCEPT ![k] = @ + 1]
  PROVE  /\ \A t \in Threads : drops[t] > 0 => drops'[t] > 0
         /\ k # NoThread => drops'[k] > 0
<1>1. drops \in [Threads -> Nat]
  BY DEF TypeOK
<1>2. CASE k = NoThread
  BY <1>2
<1>3. CASE k # NoThread
  <2>1. k \in Threads /\ drops' = [drops EXCEPT ![k] = @ + 1]
    BY <1>3 DEF Keys
  <2>2. /\ drops'[k] = drops[k] + 1 /\ drops[k] \in Nat
        /\ \A t \in Threads : t # k => drops'[t] = drops[t]
    BY <1>1, <2>1
  <2>. QED BY <2>2
<1>. QED BY <1>2, <1>3

\* What was wanted and is not any more is dropped, or an attempt will undo it.
LEMMA Released ==
  ASSUME TypeOK, ~Forsakes, Own, Followed,
         NEW x \in Threads, x = client.desired,
         client.active # NoThread => drops'[client.active] > 0,
         \/ UnderWay(client') = UnderWay(client)
         \/ Staled(UnderWay(client)) \subseteq UnderWay(client'),
         drops[x] > 0 => drops'[x] > 0
  PROVE  Owed(x)'
<1>1. x # NoThread
  BY ThreadsAssumption
<1>2. CASE client.active = x
  BY <1>1, <1>2 DEF Owed
<1>3. CASE client.active # x
  <2>1. PICK a \in UnderWay(client) : a.current /\ a.pc = "subscribing" /\ a.answer # "failed"
    BY <1>1, <1>3, StillHeld
  <2>2. a.key = x
    BY <2>1 DEF Own
  <2>3. Owed(x)
    BY <2>1, <2>2 DEF Owed, Undoes
  <2>. QED BY <2>3, OwedStays
<1>. QED BY <1>2, <1>3

LEMMA UndoneStep ==
  ASSUME TypeOK, Down, Own, Undone, [Next]_vars PROVE Undone'
<1> SUFFICES ASSUME Kept', NEW x \in subscribed' PROVE x = Wanted' \/ Owed(x)'
  BY DEF Undone
<1> DEFINE Goal == x = Wanted' \/ Owed(x)'
<1>1. Steps
  BY NextSteps
<1>2. Kept
  BY CrossedGrows DEF Kept
<1>3. Followed
  BY <1>2 DEF Kept, Followed
<1>4. x \in Threads /\ x # NoThread
  BY TypeStep, ThreadsAssumption DEF TypeOK
<1>5. x \in subscribed => x = Wanted \/ Owed(x)
  BY <1>2 DEF Undone
<1>6. x = Wanted => x = client.desired /\ x = selected /\ window # "hidden"
  BY <1>3, <1>4 DEF Wanted, Own
<1>7. "failure" \notin crossed' /\ "left" \notin crossed' /\ "again" \notin crossed'
      /\ "refresh" \notin crossed'
  BY DEF Kept
<1>8. ~up => x \notin subscribed
  BY DEF Down
<1>9. ASSUME NEW a \in UnderWay(client),
             \/ Progresses(a) \/ Ends(a) \/ Detached(a) \/ Lands(a) \/ CleansUp(a)
             \/ Subscribes(a) \/ Unsubscribes(a) \/ IsRefused(a)
      PROVE  Goal
  <2>1. a \in Attempt
    BY IsAttempt
  <2>2. UNCHANGED drops /\ Wanted' = Wanted
    <3>1. UNCHANGED <<drops, window>> /\ client'.desired = client.desired
      BY <1>9 DEF Progresses, Proceeds, Ends, Detached, Lands, CleansUp, Subscribes, Unsubscribes,
                  IsRefused, Moves, Alike
    <3>. QED BY <3>1 DEF Wanted
  <2>3. ASSUME x \in subscribed, NEW F, Swaps(client, client', a, F),
               x = Wanted \/ a.key # x \/ ~Undoes(a) \/ \E b \in F : b.key = x /\ Undoes(b)
        PROVE  Goal
    BY <1>5, <2>2, <2>3, OwedSwaps
  <2>4. ASSUME Progresses(a) PROVE Goal
    <3>1. x \in subscribed /\ ~Undoes(a)
      BY <2>4 DEF Progresses, Undoes
    <3>2. \E F : Swaps(client, client', a, F)
      BY <2>4 DEF Progresses, Proceeds
    <3>. QED BY <2>3, <3>1, <3>2
  <2>5. ASSUME Ends(a) PROVE Goal
    <3>1. x \in subscribed /\ Swaps(client, client', a, {})
      BY <2>5 DEF Ends, Moves
    <3>2. ~Undoes(a) \/ client.desired = a.key
      BY <1>7, <2>5 DEF Ends, Undoes
    <3>3. client.desired = a.key => a.key = Wanted
      BY <1>3, <2>1, ThreadsAssumption DEF Own, Wanted, Attempt
    <3>. QED BY <2>3, <3>1, <3>2, <3>3
  <2>6. ASSUME Detached(a) PROVE Goal
    <3>1. x \in subscribed /\ Swaps(client, client', a, {Onward(a, "subscribing")})
      BY <2>6 DEF Detached
    <3>2. Onward(a, "subscribing").key = a.key /\ Undoes(Onward(a, "subscribing"))
      BY <2>1, OnwardFacts DEF Undoes
    <3>. QED BY <2>3, <3>1, <3>2
  <2>7. ASSUME Lands(a) PROVE Goal
    <3>1. x \in subscribed /\ Swaps(client, client', a, {}) /\ a.current
      BY <2>7 DEF Lands
    <3>2. a.key = Wanted
      BY <1>3, <3>1 DEF Own, Wanted
    <3>. QED BY <2>3, <3>1, <3>2
  <2>8. ASSUME CleansUp(a) PROVE Goal
    <3>1. x \in subscribed /\ Swaps(client, client', a, {Onward(a, "cleaning")})
      BY <2>8 DEF CleansUp, Moves
    <3>2. Onward(a, "cleaning").key = a.key /\ Undoes(Onward(a, "cleaning"))
      BY <2>1, OnwardFacts DEF Undoes
    <3>. QED BY <2>3, <3>1, <3>2
  <2>9. ASSUME Subscribes(a) PROVE Goal
    <3> DEFINE b == [a EXCEPT !.answer = "ok"]
    <3>1. subscribed' = subscribed \cup {a.key} /\ Swaps(client, client', a, {b})
      BY <2>9 DEF Subscribes, Moves
    <3>2. b.key = a.key /\ Undoes(b)
      BY <2>1, <2>9, AnsweredFacts DEF Undoes, Subscribes
    <3>. HIDE DEF b
    <3>3. b \in UnderWay(client')
      BY <3>1 DEF Swaps
    <3>4. CASE x = a.key
      BY <3>2, <3>3, <3>4 DEF Owed, Undoes
    <3>5. CASE x # a.key
      BY <2>3, <3>1, <3>5
    <3>. QED BY <3>4, <3>5
  <2>10. ASSUME Unsubscribes(a) PROVE Goal
    <3>1. x \in subscribed /\ x # a.key /\ Swaps(client, client', a, {[a EXCEPT !.answer = "ok"]})
      BY <2>10 DEF Unsubscribes, Moves
    <3>. QED BY <2>3, <3>1
  <2>11. ASSUME IsRefused(a) PROVE Goal
    BY <1>7, <1>8, <2>11 DEF IsRefused
  <2>. HIDE DEF Goal
  <2>. QED BY <1>9, <2>4, <2>5, <2>6, <2>7, <2>8, <2>9, <2>10, <2>11
<1>10. ASSUME NEW t \in Threads, Goes(t) \/ DropRefused(t) \/ Expires(t) PROVE Goal
  <2>1. drops \in [Threads -> Nat]
    BY DEF TypeOK
  <2>2. CASE Goes(t)
    <3>1. x \in subscribed /\ x # t /\ client' = client /\ Wanted' = Wanted
      BY <2>2 DEF Goes, Wanted
    <3>2. drops'[x] = drops[x]
      BY <1>4, <2>1, <2>2, <3>1 DEF Goes
    <3>. QED BY <1>5, <3>1, <3>2, OwedStays
  <2>3. CASE DropRefused(t)
    BY <1>7, <1>8, <2>3 DEF DropRefused
  <2>4. CASE Expires(t)
    <3>1. /\ x \in subscribed /\ UnderWay(client') = UnderWay(client) /\ drops' = drops
          /\ Wanted' = Wanted
      BY <2>4 DEF Expires, Wanted, Alike
    <3>. QED BY <1>5, <3>1, OwedStays
  <2>. QED BY <1>10, <2>2, <2>3, <2>4
<1>11. ASSUME NEW t \in Keys, Selects(t) PROVE Goal
  <2>1. x \in subscribed /\ t # selected /\ selected' = t /\ Follows(t)
    BY <1>11 DEF Selects
  <2>2. ~Forsakes
    BY <1>7, <1>11 DEF Selects, Again
  <2>3. client.active \in Keys
    BY DEF TypeOK, Client
  <2>4. drops' = IF client.active = NoThread THEN drops
                 ELSE [drops EXCEPT ![client.active] = @ + 1]
    BY <1>3, <2>1 DEF Follows, Own
  <2>5. /\ drops[x] > 0 => drops'[x] > 0
        /\ client.active # NoThread => drops'[client.active] > 0
    BY <1>4, <2>3, <2>4, DropsGrow
  <2>6. \/ UnderWay(client') = UnderWay(client)
        \/ Staled(UnderWay(client)) \subseteq UnderWay(client')
    BY <2>1 DEF Follows, Begins, JoinsOne
  <2>7. CASE x = Wanted
    BY <1>3, <1>4, <1>6, <2>2, <2>5, <2>6, <2>7, Released
  <2>8. CASE Owed(x)
    BY <2>5, <2>6, <2>8, OwedStays
  <2>. QED BY <1>5, <2>1, <2>7, <2>8
<1>12. ASSUME Loses PROVE Goal
  BY <1>12 DEF Loses
<1>13. ASSUME Notices PROVE Goal
  <2>1. x \in subscribed /\ Follows(selected) /\ window' = window
    BY <1>13 DEF Notices
  <2>2. /\ client.active \in Keys /\ selected \in Keys
    BY DEF TypeOK, Client
  <2>3. /\ client'.desired = selected
        /\ drops' = IF client.active = selected \/ client.active = NoThread THEN drops
                    ELSE [drops EXCEPT ![client.active] = @ + 1]
        /\ \/ UnderWay(client') = UnderWay(client)
           \/ Staled(UnderWay(client)) \subseteq UnderWay(client')
    BY <2>1 DEF Follows, Begins, JoinsOne
  <2>4. drops' = drops
    BY <1>3, <2>3 DEF Own
  <2>5. x = Wanted => x = Wanted'
    BY <1>6, <2>1, <2>3 DEF Wanted
  <2>. QED BY <1>5, <2>1, <2>3, <2>4, <2>5, OwedStays
<1>14. ASSUME Leaves PROVE Goal
  <2>1. x \in subscribed /\ ~Forsakes
    BY <1>7, <1>14 DEF Leaves, Again
  <2>2. client.active \in Keys
    BY DEF TypeOK, Client
  <2>3. /\ drops[x] > 0 => drops'[x] > 0
        /\ client.active # NoThread => drops'[client.active] > 0
    BY <1>4, <1>14, <2>2, DropsGrow DEF Leaves
  <2>4. Staled(UnderWay(client)) \subseteq UnderWay(client')
    BY <1>14 DEF Leaves
  <2>5. CASE x = Wanted
    BY <1>3, <1>4, <1>6, <2>1, <2>3, <2>4, <2>5, Released
  <2>6. CASE Owed(x)
    BY <2>3, <2>4, <2>6, OwedStays
  <2>. QED BY <1>5, <2>1, <2>5, <2>6
<1>15. ASSUME x \in subscribed, drops' = drops, window' # "hidden" \/ window' = window,
              client'.desired = selected \/ client'.desired = client.desired,
              \/ UnderWay(client') = UnderWay(client)
              \/ Staled(UnderWay(client)) \subseteq UnderWay(client')
       PROVE  Goal
  <2>1. x = Wanted => x = Wanted'
    BY <1>6, <1>15 DEF Wanted
  <2>. QED BY <1>5, <1>15, <2>1, OwedStays
<1>16. ASSUME NEW t, Reconnects(client, client', t)
       PROVE  /\ client'.desired = t
              /\ \/ UnderWay(client') = UnderWay(client)
                 \/ Staled(UnderWay(client)) \subseteq UnderWay(client')
  BY <1>16 DEF Reconnects, Begins, JoinsOne
<1>17. ASSUME Enters PROVE Goal
  BY <1>15, <1>16, <1>17 DEF Enters
<1>18. ASSUME RefreshEnds PROVE Goal
  <2>1. refreshing = selected
    BY <1>7, <1>18 DEF RefreshEnds
  <2>. QED BY <1>15, <1>16, <1>18, <2>1 DEF RefreshEnds
<1>19. ASSUME \/ HearsOther \/ HearsAttached \/ HearsOwn \/ Refreshes
              \/ UNCHANGED <<selected, window, up, client, drops, refreshing, subscribed,
                             events, crossed>>
       PROVE  Goal
  BY <1>15, <1>19 DEF HearsOther, HearsAttached, HearsOwn, Refreshes, Hears, Alike
<1>20. ASSUME HearsConnected PROVE Goal
  BY <1>15, <1>16, <1>20 DEF HearsConnected, Hears
<1>21. ASSUME HearsDetached PROVE Goal
  <2>1. x \in subscribed /\ drops' = drops /\ window' = window
    BY <1>21 DEF HearsDetached, Hears
  <2>2. /\ client'.desired = selected \/ client'.desired = client.desired
        /\ \/ UnderWay(client') = UnderWay(client)
           \/ Begins(client, client', selected) \/ JoinsOne(client, client', selected)
    BY <1>21 DEF HearsDetached
  <2>3. \/ UnderWay(client') = UnderWay(client)
        \/ Staled(UnderWay(client)) \subseteq UnderWay(client')
    BY <2>2 DEF Begins, JoinsOne
  <2>. QED BY <1>15, <2>1, <2>2, <2>3
<1>. HIDE DEF Goal
<1>22. Goal
  BY <1>1, <1>9, <1>10, <1>11, <1>12, <1>13, <1>14, <1>17, <1>18, <1>19, <1>20, <1>21
     DEF Steps, AttemptMoves
<1>. QED BY <1>22 DEF Goal

---------------------------------------------------------------------------
(* What the client has yet to hear. *)

LEMMA ToldAppend ==
  ASSUME events \in Seq(Event), NEW e, events' = Append(events, e), e \in Event, NEW t
  PROVE  /\ Told(t) => Told(t)'
         /\ ToldTwice(t) => ToldTwice(t)'
         /\ Detaches(e, t) => Told(t)'
         /\ Detaches(e, t) /\ Told(t) => ToldTwice(t)'
<1> DEFINE n == Len(events) + 1
<1>1. /\ \A i \in DOMAIN events : i \in DOMAIN events' /\ events'[i] = events[i] /\ i < n
      /\ n \in DOMAIN events' /\ events'[n] = e
  OBVIOUS
<1> HIDE DEF n
<1>2. Told(t) => Told(t)'
  BY <1>1 DEF Told, Detaches
<1>3. ToldTwice(t) => ToldTwice(t)'
  BY <1>1 DEF ToldTwice, Detaches
<1>4. Detaches(e, t) => Told(t)'
  BY <1>1 DEF Told, Detaches
<1>5. Detaches(e, t) /\ Told(t) => ToldTwice(t)'
  BY <1>1 DEF Told, ToldTwice, Detaches
<1>. QED BY <1>2, <1>3, <1>4, <1>5

LEMMA ToldTail ==
  ASSUME events \in Seq(Event), events # <<>>, events' = Tail(events), NEW t
  PROVE  /\ ToldTwice(t) => Told(t) /\ Told(t)'
         /\ ~Detaches(Head(events), t) /\ Told(t) => Told(t)'
         /\ ~Detaches(Head(events), t) /\ ToldTwice(t) => ToldTwice(t)'
<1>1. \A i \in DOMAIN events : i # 1 => i - 1 \in DOMAIN events' /\ events'[i - 1] = events[i]
  OBVIOUS
<1>2. Head(events) = events[1] /\ DOMAIN events \subseteq Nat \ {0}
  OBVIOUS
<1>3. ASSUME NEW i \in DOMAIN events, i # 1, Detaches(events[i], t) PROVE Told(t)'
  <2>1. i - 1 \in DOMAIN events' /\ Detaches(events'[i - 1], t)
    BY <1>1, <1>3
  <2>. QED BY <2>1 DEF Told, Detaches
<1>4. ToldTwice(t) => Told(t) /\ Told(t)'
  BY <1>2, <1>3 DEF ToldTwice, Told
<1>5. ~Detaches(Head(events), t) /\ Told(t) => Told(t)'
  BY <1>2, <1>3 DEF Told
<1>6. ASSUME ~Detaches(Head(events), t), ToldTwice(t) PROVE ToldTwice(t)'
  <2>1. PICK i, j \in DOMAIN events :
          i < j /\ Detaches(events[i], t) /\ Detaches(events[j], t)
    BY <1>6 DEF ToldTwice
  <2>2. i # 1 /\ j # 1
    BY <1>2, <1>6, <2>1
  <2>3. /\ i - 1 \in DOMAIN events' /\ events'[i - 1] = events[i]
        /\ j - 1 \in DOMAIN events' /\ events'[j - 1] = events[j]
    BY <1>1, <2>2
  <2>4. i - 1 < j - 1
    BY <1>2, <2>1
  <2>. QED BY <2>1, <2>3, <2>4 DEF ToldTwice, Detaches
<1>. QED BY <1>4, <1>5, <1>6

\* An attempt is about to detach the thread.
Dropping(t) ==
  \E a \in UnderWay(client) : a.key = t /\ a.pc = "dropping" /\ a.answer = "none"

LEMMA AttemptSurvives ==
  ASSUME NEW a \in UnderWay(client), NEW F, Swaps(client, client', a, F)
  PROVE  /\ \A w \in UnderWay(client) : w # a => w \in UnderWay(client')
         /\ \A b \in F : b \in UnderWay(client')
BY DEF Swaps

LEMMA SwapOf ==
  ASSUME TypeOK, NEW a \in UnderWay(client),
         \/ Progresses(a) \/ Ends(a) \/ Detached(a) \/ Lands(a) \/ CleansUp(a)
         \/ Subscribes(a) \/ Unsubscribes(a) \/ IsRefused(a)
  PROVE  \A w \in UnderWay(client) : w # a => w \in UnderWay(client')
<1>1. \E F : Swaps(client, client', a, F)
  BY DEF Progresses, Proceeds, Ends, Detached, Lands, CleansUp, Subscribes, Unsubscribes,
         IsRefused, Moves
<1>. QED BY <1>1, AttemptSurvives

\* What stale there was is stale still.
Stales ==
  \/ UnderWay(client') = UnderWay(client)
  \/ Staled(UnderWay(client)) \subseteq UnderWay(client')

OtherSteps ==
  \/ \E t \in Threads : Goes(t) \/ DropRefused(t) \/ Expires(t)
  \/ \E t \in Keys : Selects(t)
  \/ Loses \/ Notices \/ Leaves \/ Enters \/ Refreshes \/ RefreshEnds
  \/ HearsOther \/ HearsAttached \/ HearsConnected \/ HearsOwn \/ HearsDetached
  \/ UNCHANGED <<selected, window, up, client, drops, refreshing, subscribed, events, crossed>>

LEMMA OtherStepsStale ==
  ASSUME OtherSteps PROVE Stales
<1>1. \A t : Follows(t) => Stales
  BY DEF Follows, Begins, JoinsOne, Stales
<1>2. \A t : Reconnects(client, client', t) => Stales
  BY DEF Reconnects, Begins, JoinsOne, Stales
<1>3. ASSUME HearsDetached PROVE Stales
  BY <1>3 DEF HearsDetached, Begins, JoinsOne, Stales
<1>4. ASSUME Leaves PROVE Stales
  BY <1>4 DEF Leaves, Stales
<1>5. ASSUME (\E t \in Keys : Selects(t)) \/ Loses \/ Notices PROVE Stales
  BY <1>1, <1>5 DEF Selects, Loses, Notices
<1>6. ASSUME Enters \/ RefreshEnds \/ HearsConnected PROVE Stales
  BY <1>2, <1>6 DEF Enters, RefreshEnds, HearsConnected, Stales
<1>7. ASSUME (\E t \in Threads : Goes(t) \/ DropRefused(t) \/ Expires(t)) \/ Refreshes
             \/ HearsOther \/ HearsAttached \/ HearsOwn
      PROVE  Stales
  BY <1>7 DEF Goes, DropRefused, Expires, Refreshes, HearsOther, HearsAttached, HearsOwn, Stales
<1>8. ASSUME UNCHANGED <<selected, window, up, client, drops, refreshing, subscribed, events, crossed>>
      PROVE  Stales
  BY <1>8 DEF Stales
<1>. QED BY <1>3, <1>4, <1>5, <1>6, <1>7, <1>8 DEF OtherSteps

LEMMA SoundBefore ==
  ASSUME TypeOK, [Next]_vars, Sound' PROVE Sound
<1>1. Steps /\ crossed \subseteq crossed'
  BY NextSteps, CrossedGrows
<1>2. "dropped" \notin crossed' /\ \A b \in UnderWay(client') : b.pc = "dropping" => b.current
  BY DEF Sound
<1>3. ASSUME NEW w \in UnderWay(client), w.pc = "dropping", ~w.current PROVE FALSE
  <2>1. w \notin UnderWay(client')
    BY <1>2, <1>3
  <2>2. w \in Attempt
    BY IsAttempt
  <2>3. ASSUME NEW a \in UnderWay(client),
               \/ Progresses(a) \/ Ends(a) \/ Detached(a) \/ Lands(a) \/ CleansUp(a)
               \/ Subscribes(a) \/ Unsubscribes(a) \/ IsRefused(a)
        PROVE  FALSE
    <3>1. a = w
      BY <2>1, <2>3, SwapOf
    <3>2. ASSUME NEW y, Swaps(client, client', a, {[a EXCEPT !.answer = y]}) PROVE FALSE
      <4> DEFINE b == [a EXCEPT !.answer = y]
      <4>1. b.pc = "dropping" /\ b.current = w.current
        BY <1>3, <2>2, <3>1, AnsweredFacts
      <4>2. b \in UnderWay(client')
        BY <3>2 DEF Swaps
      <4> HIDE DEF b
      <4>. QED BY <1>2, <1>3, <4>1, <4>2
    <3>3. ~Progresses(a) /\ ~Lands(a) /\ ~CleansUp(a) /\ ~Subscribes(a)
      BY <1>3, <3>1 DEF Progresses, Lands, CleansUp, Subscribes
    <3>4. ~Detached(a)
      BY <1>2, <1>3, <3>1 DEF Detached
    <3>5. ~Unsubscribes(a) /\ ~IsRefused(a)
      BY <3>2 DEF Unsubscribes, IsRefused, Moves
    <3>6. ~Ends(a)
      <4>1. "failure" \notin crossed'
        BY DEF Sound
      <4>. QED BY <1>3, <3>1, <4>1 DEF Ends
    <3>. QED BY <2>3, <3>3, <3>4, <3>5, <3>6
  <2>4. ASSUME OtherSteps PROVE FALSE
    <3>1. Stales
      BY <2>4, OtherStepsStale
    <3>2. Staled(UnderWay(client)) \subseteq UnderWay(client')
      BY <2>1, <3>1 DEF Stales
    <3>3. PICK b \in Staled(UnderWay(client)) : b.current = FALSE /\ b.pc = w.pc
      BY StaledHas DEF TypeOK
    <3>. QED BY <1>2, <1>3, <3>2, <3>3
  <2>. QED BY <1>1, <2>3, <2>4 DEF Steps, AttemptMoves, OtherSteps
<1>. QED BY <1>1, <1>3 DEF Sound

LEMMA BeginsAre ==
  ASSUME TypeOK, NEW t, Begins(client, client', t), NEW b \in UnderWay(client')
  PROVE  \/ /\ b.current = FALSE
            /\ \E a \in UnderWay(client) : b.key = a.key /\ b.pc = a.pc /\ b.answer = a.answer
         \/ IsFresh(b, t, client'.connected)
BY StaledFacts DEF Begins, TypeOK

LEMMA AnsweredStep ==
  ASSUME TypeOK, Down, [Next]_vars, Sound', Answered PROVE Answered'
<1>1. Steps
  BY NextSteps
<1>2. /\ "failure" \notin crossed' /\ "torn" \notin crossed'
  BY DEF Sound
<1>3. \A a \in UnderWay(client) : /\ a.answer # "failed" /\ (~up => a.pc = "connecting")
                                  /\ (a.pc = "cleaning" => ~a.current)
  BY DEF Answered
<1> SUFFICES ASSUME NEW b \in UnderWay(client')
             PROVE  /\ b.answer # "failed" /\ (~up' => b.pc = "connecting")
                    /\ (b.pc = "cleaning" => ~b.current)
  BY DEF Answered
<1> DEFINE Goal == /\ b.answer # "failed" /\ (~up' => b.pc = "connecting")
                   /\ (b.pc = "cleaning" => ~b.current)
<1>4. up \in BOOLEAN
  BY DEF TypeOK
<1>5. ASSUME b \in UnderWay(client), up' = up \/ up' PROVE Goal
  BY <1>3, <1>5
<1>6. ASSUME NEW a \in UnderWay(client),
             \/ Progresses(a) \/ Ends(a) \/ Detached(a) \/ Lands(a) \/ CleansUp(a)
             \/ Subscribes(a) \/ Unsubscribes(a) \/ IsRefused(a)
      PROVE  Goal
  <2>1. a \in Attempt
    BY IsAttempt
  <2>2. ASSUME Progresses(a) PROVE Goal
    <3>1. up' = TRUE
      BY <2>2 DEF Progresses
    <3>2. CASE ~a.current
      <4>1. b \in UnderWay(client)
        BY <2>2, <3>2 DEF Progresses, Proceeds, Swaps
      <4>. QED BY <1>5, <3>1, <4>1
    <3>3. CASE a.current
      <4>1. PICK pc \in {"resuming", "dropping", "subscribing"} :
              Swaps(client, client', a, {Onward(a, pc)})
        BY <2>2, <3>3 DEF Progresses, Proceeds
      <4>2. b \in UnderWay(client) \/ b = Onward(a, pc)
        BY <4>1 DEF Swaps
      <4>. QED BY <1>5, <2>1, <3>1, <4>2, OnwardFacts
    <3>. QED BY <3>2, <3>3
  <2>3. ASSUME Ends(a) \/ Lands(a) PROVE Goal
    <3>1. up' = up /\ b \in UnderWay(client)
      BY <2>3 DEF Ends, Lands, Moves, Swaps
    <3>. QED BY <1>5, <3>1
  <2>4. ASSUME Detached(a) PROVE Goal
    <3>1. up' = up /\ (b \in UnderWay(client) \/ b = Onward(a, "subscribing")) /\ up
      BY <1>3, <2>4 DEF Detached, Swaps
    <3>. QED BY <1>5, <2>1, <3>1, OnwardFacts
  <2>5. ASSUME CleansUp(a) PROVE Goal
    <3>1. up' = up /\ (b \in UnderWay(client) \/ b = Onward(a, "cleaning")) /\ up /\ ~a.current
      BY <1>3, <2>5 DEF CleansUp, Moves, Swaps
    <3>. QED BY <1>5, <2>1, <3>1, OnwardFacts
  <2>6. ASSUME Subscribes(a) \/ Unsubscribes(a) PROVE Goal
    <3> DEFINE n == [a EXCEPT !.answer = "ok"]
    <3>1. up' = up /\ (b \in UnderWay(client) \/ b = n) /\ up
      BY <2>6 DEF Subscribes, Unsubscribes, Moves, Swaps
    <3>2. n.pc = a.pc /\ n.current = a.current /\ n.answer = "ok"
      BY <2>1, AnsweredFacts
    <3> HIDE DEF n
    <3>. QED BY <1>3, <1>5, <3>1, <3>2
  <2>7. ~IsRefused(a)
    BY <1>2, <1>3 DEF IsRefused
  <2>. HIDE DEF Goal
  <2>. QED BY <1>6, <2>2, <2>3, <2>4, <2>5, <2>6, <2>7
<1>7. ASSUME NEW t, Begins(client, client', t), up' = up, client'.connected => up
      PROVE  Goal
  <2>1. CASE IsFresh(b, t, client'.connected)
    BY <1>7, <2>1 DEF IsFresh
  <2>2. CASE /\ b.current = FALSE
             /\ \E a \in UnderWay(client) : b.key = a.key /\ b.pc = a.pc /\ b.answer = a.answer
    BY <1>3, <1>7, <2>2
  <2>. QED BY <1>7, <2>1, <2>2, BeginsAre
<1>8. client.connected => up
  BY <1>4 DEF Down
<1>9. ASSUME NEW t, Reconnects(client, client', t), up' = up PROVE Goal
  BY <1>5, <1>7, <1>8, <1>9 DEF Reconnects, JoinsOne
<1>10. ASSUME NEW t, Follows(t), up' = up, client'.connected => up PROVE Goal
  BY <1>5, <1>7, <1>10 DEF Follows, JoinsOne
<1>11. ASSUME Loses PROVE Goal
  <2>1. UnderWay(client) = {} /\ Follows(selected) /\ client'.connected = FALSE
    BY <1>2, <1>11 DEF Loses
  <2>2. Begins(client, client', selected)
    BY <2>1 DEF Follows, JoinsOne
  <2>3. IsFresh(b, selected, FALSE)
    BY <2>1, <2>2, BeginsAre
  <2>. QED BY <2>3 DEF IsFresh
<1>12. ASSUME Leaves PROVE Goal
  <2>1. /\ b.current = FALSE /\ up' = up
        /\ \E a \in UnderWay(client) : b.key = a.key /\ b.pc = a.pc /\ b.answer = a.answer
    BY <1>12, StaledFacts DEF Leaves, TypeOK
  <2>. QED BY <1>3, <2>1
<1>13. ASSUME (\E t \in Keys : Selects(t)) \/ Notices PROVE Goal
  BY <1>8, <1>10, <1>13 DEF Selects, Notices
<1>14. ASSUME Enters \/ RefreshEnds \/ HearsConnected PROVE Goal
  BY <1>5, <1>9, <1>14 DEF Enters, RefreshEnds, HearsConnected, Hears
<1>15. ASSUME HearsDetached PROVE Goal
  <2>1. up' = up /\ client'.connected = client.connected
    BY <1>15 DEF HearsDetached, Hears
  <2>2. \/ UnderWay(client') = UnderWay(client) \/ Begins(client, client', selected)
    BY <1>15 DEF HearsDetached, JoinsOne
  <2>. QED BY <1>5, <1>7, <1>8, <2>1, <2>2
<1>16. ASSUME \/ \E t \in Threads : Goes(t) \/ DropRefused(t) \/ Expires(t)
              \/ Refreshes \/ HearsOther \/ HearsAttached \/ HearsOwn
              \/ UNCHANGED <<selected, window, up, client, drops, refreshing, subscribed,
                             events, crossed>>
       PROVE  Goal
  <2>1. UnderWay(client') = UnderWay(client) /\ up' = up
    BY <1>16 DEF Goes, DropRefused, Expires, Refreshes, HearsOther, HearsAttached, HearsOwn, Hears
  <2>. QED BY <1>5, <2>1
<1>. HIDE DEF Goal
<1>17. Goal
  BY <1>1, <1>6, <1>11, <1>12, <1>13, <1>14, <1>15, <1>16 DEF Steps, AttemptMoves
<1>. QED BY <1>17 DEF Goal

LEMMA MarkedStep ==
  ASSUME TypeOK, [Next]_vars, Sound, Sound', Answered, Marked PROVE Marked'
<1>1. Steps
  BY NextSteps
<1> SUFFICES ASSUME NEW t \in client'.ignored PROVE Told(t)' \/ Dropping(t)'
  BY DEF Marked, Dropping
<1> DEFINE Goal == Told(t)' \/ Dropping(t)'
<1>2. t \in client.ignored => Told(t) \/ Dropping(t)
  BY DEF Marked, Dropping
<1>3. events \in Seq(Event)
  BY DEF TypeOK
<1>4. "failure" \notin crossed' /\ "unheard" \notin crossed'
  BY DEF Sound
<1>5. \A a \in UnderWay(client) : /\ a.pc = "dropping" => a.current
                                  /\ ~up => a.pc = "connecting"
  BY DEF Sound, Answered
<1>6. \A b \in UnderWay(client') : b.pc = "dropping" => b.current
  BY DEF Sound
<1>7. \A e \in Event : events' = Append(events, e) /\ Told(t) => Told(t)'
  BY <1>3, ToldAppend
<1>8. ASSUME NEW a \in UnderWay(client),
             \/ Progresses(a) \/ Ends(a) \/ Detached(a) \/ Lands(a) \/ CleansUp(a)
             \/ Subscribes(a) \/ Unsubscribes(a) \/ IsRefused(a)
      PROVE  Goal
  <2>1. a \in Attempt /\ a.key \in Threads
    BY IsAttempt DEF Attempt
  <2>2. \A w \in UnderWay(client) : w # a => w \in UnderWay(client')
    BY <1>8, SwapOf
  <2>3. Told(t) => Told(t)'
    <3>1. \/ events' = events \/ events' = Append(events, [kind |-> "connected", thread |-> NoThread])
          \/ events' = Append(events, [kind |-> "attached", thread |-> a.key])
          \/ events' = Append(events, DetachOf(a.key))
      BY <1>8 DEF Progresses, Ends, Detached, Lands, CleansUp, Subscribes, Unsubscribes, IsRefused
    <3>2. /\ [kind |-> "connected", thread |-> NoThread] \in Event
          /\ [kind |-> "attached", thread |-> a.key] \in Event /\ DetachOf(a.key) \in Event
      BY <2>1 DEF Event, DetachOf
    <3>3. events' = events => (Told(t) => Told(t)')
      BY DEF Told
    <3>. QED BY <1>7, <3>1, <3>2, <3>3
  <2>4. ~IsRefused(a)
    BY <1>4, <1>5 DEF IsRefused
  <2>5. ASSUME Dropping(t), a.pc # "dropping" \/ a.answer # "none" PROVE Dropping(t)'
    BY <2>2, <2>5 DEF Dropping
  <2>6. ASSUME Progresses(a) PROVE Goal
    <3>1. CASE t \in client.ignored
      BY <1>2, <2>3, <2>5, <2>6, <3>1 DEF Progresses
    <3>2. CASE t \notin client.ignored
      <4>1. a.current
        BY <2>6, <3>2 DEF Progresses, Proceeds
      <4>2. PICK pc : /\ Swaps(client, client', a, {Onward(a, pc)})
                      /\ client'.ignored = IF pc = "dropping" THEN client.ignored \cup {a.key}
                                           ELSE client.ignored
        BY <2>6, <4>1 DEF Progresses, Proceeds
      <4>3. pc = "dropping" /\ a.key = t
        BY <3>2, <4>2
      <4>4. /\ Onward(a, pc) \in UnderWay(client') /\ Onward(a, pc).pc = "dropping"
            /\ Onward(a, pc).answer = "none" /\ Onward(a, pc).key = t
        BY <2>1, <4>2, <4>3, OnwardFacts DEF Swaps
      <4>. QED BY <4>4 DEF Dropping
    <3>. QED BY <3>1, <3>2
  <2>7. ASSUME Ends(a) \/ Detached(a) \/ Lands(a) \/ CleansUp(a) \/ Subscribes(a) PROVE Goal
    <3>1. t \in client.ignored
      BY <2>7 DEF Ends, Detached, Lands, CleansUp, Subscribes, Moves
    <3>2. a.pc # "dropping" \/ a.answer # "none"
      BY <1>4, <2>7 DEF Ends, Detached, Lands, CleansUp, Subscribes
    <3>. QED BY <1>2, <2>3, <2>5, <3>1, <3>2
  <2>8. ASSUME Unsubscribes(a) PROVE Goal
    <3>1. t \in client.ignored /\ events' = Append(events, DetachOf(a.key))
      BY <2>8 DEF Unsubscribes, Moves
    <3>2. DetachOf(a.key) \in Event /\ Detaches(DetachOf(a.key), a.key)
      BY <2>1 DEF Event, DetachOf, Detaches
    <3>3. CASE a.key = t
      BY <1>3, <3>1, <3>2, <3>3, ToldAppend
    <3>4. ASSUME a.key # t, Dropping(t) PROVE Dropping(t)'
      BY <2>2, <3>4 DEF Dropping
    <3>. QED BY <1>2, <2>3, <3>1, <3>3, <3>4
  <2>. HIDE DEF Goal
  <2>. QED BY <1>8, <2>4, <2>6, <2>7, <2>8
<1>9. ASSUME UnderWay(client') = UnderWay(client), client'.ignored \subseteq client.ignored,
             Told(t) => Told(t)'
      PROVE  Goal
  <2>1. Dropping(t) => Dropping(t)'
    BY <1>9 DEF Dropping
  <2>. QED BY <1>2, <1>9, <2>1
<1>10. ASSUME NEW s, Begins(client, client', s), Told(t) => Told(t)' PROVE Goal
  <2>1. ~Dropping(t)
    <3> SUFFICES ASSUME NEW w \in UnderWay(client), w.pc = "dropping" PROVE FALSE
      BY DEF Dropping
    <3>1. PICK b \in Staled(UnderWay(client)) : b.current = FALSE /\ b.pc = w.pc
      BY StaledHas DEF TypeOK
    <3>. QED BY <1>6, <1>10, <3>1 DEF Begins
  <2>2. CASE t \in client.ignored
    BY <1>2, <1>10, <2>1, <2>2
  <2>3. CASE t \notin client.ignored
    <3>1. PICK b \in UnderWay(client') : IsFresh(b, s, client'.connected) /\ b.pc = "dropping"
      BY <1>10, <2>3 DEF Begins
    <3>2. t = s
      BY <1>10, <2>3 DEF Begins
    <3>. QED BY <3>1, <3>2 DEF IsFresh, Dropping
  <2>. QED BY <2>2, <2>3
<1>11. ASSUME NEW s, Follows(s), events' = events PROVE Goal
  <2>1. Told(t) => Told(t)'
    BY <1>11 DEF Told
  <2>2. \/ Begins(client, client', s)
        \/ UnderWay(client') = UnderWay(client) /\ client'.ignored = client.ignored
    BY <1>11 DEF Follows, JoinsOne
  <2>. QED BY <1>9, <1>10, <2>1, <2>2
<1>12. ASSUME NEW s, Reconnects(client, client', s), Told(t) => Told(t)' PROVE Goal
  BY <1>9, <1>10, <1>12 DEF Reconnects, JoinsOne
<1>13. ASSUME events' = events PROVE Told(t) => Told(t)'
  BY <1>13 DEF Told
<1>14. ASSUME Hears, ~Detaches(Head(events), t) PROVE Told(t) => Told(t)'
  BY <1>3, <1>14, ToldTail DEF Hears
<1>15. ASSUME NEW s \in Threads, Goes(s) \/ DropRefused(s) \/ Expires(s) PROVE Goal
  <2>1. CASE Goes(s)
    <3>1. events' = Append(events, DetachOf(s)) /\ DetachOf(s) \in Event
      BY <2>1 DEF Goes, DetachOf, Event
    <3>. QED BY <1>7, <1>9, <2>1, <3>1 DEF Goes
  <2>2. CASE DropRefused(s) \/ Expires(s)
    BY <1>9, <1>13, <2>2 DEF DropRefused, Expires
  <2>. QED BY <1>15, <2>1, <2>2
<1>16. ASSUME (\E s \in Keys : Selects(s)) \/ Loses \/ Notices PROVE Goal
  BY <1>11, <1>16 DEF Selects, Loses, Notices
<1>17. ASSUME Leaves PROVE Goal
  <2>1. ~Dropping(t)
    <3> SUFFICES ASSUME NEW w \in UnderWay(client), w.pc = "dropping" PROVE FALSE
      BY DEF Dropping
    <3>1. PICK b \in Staled(UnderWay(client)) : b.current = FALSE /\ b.pc = w.pc
      BY StaledHas DEF TypeOK
    <3>. QED BY <1>6, <1>17, <3>1 DEF Leaves
  <2>. QED BY <1>2, <1>13, <1>17, <2>1 DEF Leaves
<1>18. ASSUME Enters PROVE Goal
  BY <1>9, <1>12, <1>13, <1>18 DEF Enters
<1>19. ASSUME RefreshEnds PROVE Goal
  BY <1>12, <1>13, <1>19 DEF RefreshEnds
<1>20. ASSUME HearsOther PROVE Goal
  <2>1. t \in client.ignored
    BY <1>20 DEF HearsOther
  <2>2. ~Detaches(Head(events), t)
    BY <1>4, <1>20, <2>1 DEF HearsOther, Unheard, Detaches
  <2>. QED BY <1>9, <1>14, <1>20, <2>2 DEF HearsOther
<1>21. ASSUME HearsAttached \/ HearsConnected PROVE Goal
  <2>1. Hears /\ ~Detaches(Head(events), t)
    BY <1>21 DEF HearsAttached, HearsConnected, Detaches
  <2>. QED BY <1>9, <1>12, <1>14, <1>21, <2>1 DEF HearsAttached, HearsConnected
<1>22. ASSUME HearsOwn PROVE Goal
  <2>1. Hears /\ ~Detaches(Head(events), t)
    BY <1>22 DEF HearsOwn, Detaches
  <2>. QED BY <1>9, <1>14, <1>22, <2>1 DEF HearsOwn
<1>23. ASSUME HearsDetached PROVE Goal
  <2>1. CASE Begins(client, client', selected)
    <3>1. CASE t \in client.ignored
      <4>1. Hears /\ ~Detaches(Head(events), t)
        BY <1>23, <3>1 DEF HearsDetached, Detaches
      <4>. QED BY <1>10, <1>14, <2>1, <4>1
    <3>2. CASE t \notin client.ignored
      <4>1. PICK b \in UnderWay(client') :
              IsFresh(b, selected, client'.connected) /\ b.pc = "dropping"
        BY <2>1, <3>2 DEF Begins
      <4>2. t = selected
        BY <2>1, <3>2 DEF Begins
      <4>. QED BY <4>1, <4>2 DEF IsFresh, Dropping
    <3>. QED BY <3>1, <3>2
  <2>2. CASE UnderWay(client') = UnderWay(client) /\ client'.ignored = client.ignored
    <3>1. Hears /\ ~Detaches(Head(events), t)
      BY <1>23, <2>2 DEF HearsDetached, Detaches
    <3>. QED BY <1>9, <1>14, <2>2, <3>1
  <2>. QED BY <1>23, <2>1, <2>2 DEF HearsDetached, JoinsOne
<1>24. ASSUME Refreshes \/ UNCHANGED <<selected, window, up, client, drops, refreshing,
                                        subscribed, events, crossed>>
       PROVE  Goal
  BY <1>9, <1>13, <1>24 DEF Refreshes
<1>. HIDE DEF Goal
<1>25. Goal
  BY <1>1, <1>8, <1>15, <1>16, <1>17, <1>18, <1>19, <1>20, <1>21, <1>22, <1>23, <1>24
     DEF Steps, AttemptMoves
<1>. QED BY <1>25 DEF Goal

LEMMA LiveSame ==
  ASSUME Live, Obliged' => Obliged, UnderWay(client') = UnderWay(client), selected' = selected,
         selected \in subscribed => selected \in subscribed',
         client.active = selected => client'.active = selected,
         Heard(selected) => Heard(selected)'
  PROVE  Live'
BY DEF Live, Coming, Landed

LEMMA ObligedSame ==
  ASSUME UnderWay(client') = UnderWay(client), selected' = selected, window' = window
  PROVE  Obliged' => Obliged
BY DEF Obliged

LEMMA LiveBegins ==
  ASSUME NEW t, Begins(client, client', t) PROVE Live'
<1>1. PICK b \in UnderWay(client') : IsFresh(b, t, client'.connected)
  BY DEF Begins
<1>2. Coming'
  BY <1>1 DEF Coming, IsFresh
<1>. QED BY <1>2 DEF Live

\* A detach of the selected thread is sent: the client will hear it, or an
\* attempt subscribes after it.
LEMMA WillHear ==
  ASSUME TypeOK, Sound, Marked, events' = Append(events, DetachOf(selected)),
         selected \in Threads, client'.ignored = client.ignored, selected' = selected,
         ~Heard(selected)'
  PROVE  \E w \in UnderWay(client) :
           w.current /\ w.key = selected /\ w.pc = "dropping" /\ w.answer = "none"
<1>1. DetachOf(selected) \in Event /\ Detaches(DetachOf(selected), selected)
  BY DEF DetachOf, Event, Detaches
<1>2. /\ Told(selected)'
      /\ Told(selected) => ToldTwice(selected)'
      /\ events \in Seq(Event)
  <2>1. events \in Seq(Event)
    BY DEF TypeOK
  <2> DEFINE e == DetachOf(selected)
  <2>2. e \in Event /\ Detaches(e, selected) /\ events' = Append(events, e)
    BY <1>1
  <2> HIDE DEF e
  <2>3. ASSUME NEW t, t = selected
        PROVE  Told(t)' /\ (Told(t) => ToldTwice(t)')
    BY <2>1, <2>2, <2>3, ToldAppend
  <2>4. Told(selected)' /\ (Told(selected) => ToldTwice(selected)')
    BY <2>3 DEF Told, ToldTwice
  <2>. QED BY <2>1, <2>4
<1>3. selected \in client.ignored /\ ~Told(selected)
  BY <1>2 DEF Heard
<1>4. PICK w \in UnderWay(client) : w.key = selected /\ w.pc = "dropping" /\ w.answer = "none"
  BY <1>3 DEF Marked
<1>. QED BY <1>4 DEF Sound

LEMMA LiveAttempt ==
  ASSUME TypeOK, Own, Sound, Sound', Answered, Marked, Live, NEW a \in UnderWay(client),
         \/ Progresses(a) \/ Ends(a) \/ Detached(a) \/ Lands(a) \/ CleansUp(a)
         \/ Subscribes(a) \/ Unsubscribes(a) \/ IsRefused(a)
  PROVE  Live'
<1> SUFFICES ASSUME Obliged', ~Coming', ~Heard(selected)'
             PROVE  selected' \in subscribed' /\ (client'.active = selected' \/ Landed')
  BY DEF Live
<1>1. /\ Narrowed /\ selected' = selected /\ window' = window
  BY AttemptMovesNarrow
<1>2. Obliged
  BY <1>1 DEF Obliged, Narrowed
<1>3. a \in Attempt /\ a.key \in Threads
  BY IsAttempt DEF Attempt
<1>4. \A w \in UnderWay(client) : w # a => w \in UnderWay(client')
  BY SwapOf
<1>5. /\ "failure" \notin crossed' /\ "dropped" \notin crossed'
      /\ \A w \in UnderWay(client) : /\ w.pc = "dropping" => w.current
                                     /\ w.answer # "failed"
                                     /\ ~up => w.pc = "connecting"
                                     /\ w.pc = "cleaning" => ~w.current
  BY DEF Sound, Answered
<1>6. a.current => a.key = selected
  <2>1. Followed
    BY DEF Sound, Followed
  <2>2. client.desired # NoThread => client.desired = selected
    BY <2>1 DEF Own
  <2>3. a.current => a.key = client.desired
    BY <2>1 DEF Own
  <2>. QED BY <1>3, <2>2, <2>3, ThreadsAssumption
<1>7. selected \in Threads
  BY <1>2 DEF Obliged, TypeOK, Keys
<1>8. ~IsRefused(a)
  BY <1>5 DEF IsRefused
<1>9. Ends(a) => a.pc \in {"subscribing", "cleaning"} /\ ~a.current
  BY <1>5 DEF Ends
<1>10. ASSUME a.current, Progresses(a) PROVE Coming'
  <2>1. PICK pc \in {"resuming", "dropping", "subscribing"} :
          Swaps(client, client', a, {Onward(a, pc)})
    BY <1>10 DEF Progresses, Proceeds
  <2>2. /\ Onward(a, pc) \in UnderWay(client') /\ Onward(a, pc).pc = pc
        /\ Onward(a, pc).answer = "none" /\ Onward(a, pc).current
    BY <1>3, <1>10, <2>1, OnwardFacts DEF Swaps
  <2>. QED BY <2>2 DEF Coming
<1>11. ASSUME Detached(a) PROVE Coming'
  <2>1. a.current
    BY <1>5, <1>11 DEF Detached
  <2>2. /\ Onward(a, "subscribing") \in UnderWay(client')
        /\ Onward(a, "subscribing").pc = "subscribing"
        /\ Onward(a, "subscribing").answer = "none" /\ Onward(a, "subscribing").current
    BY <1>3, <1>11, <2>1, OnwardFacts DEF Detached, Swaps
  <2>. QED BY <2>2 DEF Coming
<1>12. ASSUME Subscribes(a) \/ Unsubscribes(a), a.current
       PROVE  Coming' \/ (Landed' /\ selected \in subscribed')
  <2> DEFINE b == [a EXCEPT !.answer = "ok"]
  <2>1. b.pc = a.pc /\ b.current = a.current /\ b.answer = "ok"
    BY <1>3, AnsweredFacts
  <2>2. b \in UnderWay(client')
    BY <1>12 DEF Subscribes, Unsubscribes, Moves, Swaps
  <2> HIDE DEF b
  <2>3. CASE Subscribes(a)
    BY <1>6, <1>12, <2>1, <2>2, <2>3 DEF Subscribes, Landed
  <2>4. CASE Unsubscribes(a)
    BY <1>5, <1>12, <2>1, <2>2, <2>4 DEF Unsubscribes, Coming
  <2>. QED BY <1>12, <2>3, <2>4
<1>13. ASSUME Coming PROVE Coming' \/ (Landed' /\ selected \in subscribed')
  <2>1. PICK w \in UnderWay(client) :
          /\ w.current
          /\ \/ w.pc \in {"connecting", "resuming", "dropping"}
             \/ w.pc = "subscribing" /\ w.answer = "none"
    BY <1>13 DEF Coming
  <2>2. CASE w # a
    <3>1. w \in UnderWay(client')
      BY <1>4, <2>2
    <3>. QED BY <2>1, <3>1 DEF Coming
  <2>3. CASE w = a
    <3>1. ~Ends(a) /\ ~Lands(a) /\ ~CleansUp(a)
      BY <1>9, <2>1, <2>3 DEF Lands, CleansUp
    <3>. QED BY <1>8, <1>10, <1>11, <1>12, <2>1, <2>3, <3>1
  <2>. QED BY <2>2, <2>3
<1>14. ASSUME Landed, ~(a.current /\ a.pc = "subscribing" /\ a.answer = "ok") PROVE Landed'
  <2>1. PICK w \in UnderWay(client) : w.current /\ w.pc = "subscribing" /\ w.answer = "ok"
    BY <1>14 DEF Landed
  <2>2. w \in UnderWay(client')
    BY <1>4, <1>14, <2>1
  <2>. QED BY <2>1, <2>2 DEF Landed
<1>15. ASSUME selected \in subscribed, client.active = selected \/ Landed
       PROVE  \/ Coming'
              \/ selected \in subscribed' /\ (client'.active = selected \/ Landed')
  <2>1. CASE Progresses(a) \/ Ends(a) \/ CleansUp(a) \/ Subscribes(a)
    <3>1. selected \in subscribed' /\ client'.active = client.active
      BY <1>15, <2>1 DEF Progresses, Proceeds, Ends, CleansUp, Subscribes, Moves, Alike
    <3>2. ~(a.current /\ a.pc = "subscribing" /\ a.answer = "ok")
      BY <1>9, <2>1 DEF Progresses, CleansUp, Subscribes
    <3>. QED BY <1>14, <1>15, <3>1, <3>2
  <2>2. CASE Detached(a)
    BY <1>11, <2>2
  <2>3. CASE Lands(a)
    BY <1>6, <1>15, <2>3 DEF Lands
  <2>4. CASE Unsubscribes(a)
    <3>1. CASE a.key # selected
      <4>1. selected \in subscribed' /\ client'.active = client.active
        BY <1>15, <2>4, <3>1 DEF Unsubscribes, Moves, Alike
      <4>2. ~(a.current /\ a.pc = "subscribing" /\ a.answer = "ok")
        BY <2>4 DEF Unsubscribes
      <4>. QED BY <1>14, <1>15, <4>1, <4>2
    <3>2. CASE a.key = selected /\ ~a.current
      <4>1. /\ events' = Append(events, DetachOf(selected)) /\ client'.ignored = client.ignored
            /\ a.pc = "cleaning"
        BY <1>5, <2>4, <3>2 DEF Unsubscribes, Moves
      <4>2. PICK w \in UnderWay(client) :
              w.current /\ w.key = selected /\ w.pc = "dropping" /\ w.answer = "none"
        BY <1>1, <1>7, <4>1, WillHear
      <4>3. w \in UnderWay(client')
        BY <1>4, <3>2, <4>2
      <4>. QED BY <4>2, <4>3 DEF Coming
    <3>3. CASE a.current
      <4>1. ~Subscribes(a)
        BY <2>4 DEF Unsubscribes, Subscribes
      <4>. QED BY <1>12, <2>4, <3>3
    <3>. QED BY <3>1, <3>2, <3>3
  <2>. QED BY <1>8, <2>1, <2>2, <2>3, <2>4
<1>16. ASSUME Heard(selected) PROVE Coming'
  <2>1. CASE client'.ignored = client.ignored
    <3>1. \/ events' = events \/ events' = Append(events, [kind |-> "connected", thread |-> NoThread])
          \/ events' = Append(events, [kind |-> "attached", thread |-> a.key])
          \/ events' = Append(events, DetachOf(a.key))
      BY DEF Progresses, Ends, Detached, Lands, CleansUp, Subscribes, Unsubscribes, IsRefused
    <3>2. /\ [kind |-> "connected", thread |-> NoThread] \in Event
          /\ [kind |-> "attached", thread |-> a.key] \in Event /\ DetachOf(a.key) \in Event
      BY <1>3 DEF Event, DetachOf
    <3>3. events \in Seq(Event)
      BY DEF TypeOK
    <3>4. ASSUME NEW t PROVE (Told(t) => Told(t)') /\ (ToldTwice(t) => ToldTwice(t)')
      <4>1. CASE events' = events
        BY <4>1 DEF Told, ToldTwice
      <4>2. CASE \E e \in Event : events' = Append(events, e)
        BY <3>3, <4>2, ToldAppend
      <4>. QED BY <3>1, <3>2, <4>1, <4>2
    <3>5. Heard(selected)'
      <4>1. ASSUME NEW t, t = selected, t = selected', Heard(t) PROVE Heard(t)'
        BY <2>1, <3>4, <4>1 DEF Heard
      <4>2. Heard(selected)' <=> \A t : t = selected' => Heard(t)'
        BY DEF Heard, Told, ToldTwice
      <4>. QED BY <1>1, <1>16, <4>1, <4>2
    <3>. QED BY <3>5
  <2>2. CASE client'.ignored # client.ignored
    <3>1. Progresses(a) /\ a.current
      BY <1>8, <2>2 DEF Progresses, Proceeds, Ends, Detached, Lands, CleansUp, Subscribes,
                        Unsubscribes, Moves
    <3>. QED BY <1>10, <3>1
  <2>. QED BY <2>1, <2>2
<1>. QED BY <1>1, <1>2, <1>13, <1>15, <1>16 DEF Live

LEMMA LiveReconnects ==
  ASSUME TypeOK, Live, NEW t \in Threads,
         Begins(client, client', t) \/ JoinsOne(client, client', t),
         selected' = selected, client.active = selected => client'.active = selected,
         selected \in subscribed => selected \in subscribed',
         selected \in Threads, Heard(selected) => Heard(selected)'
  PROVE  Live'
<1>1. CASE Begins(client, client', t)
  BY <1>1, LiveBegins
<1>2. CASE JoinsOne(client, client', t)
  <2>1. UnderWay(client') = UnderWay(client) /\ Obliged
    BY <1>2, ThreadsAssumption DEF JoinsOne, Obliged
  <2>. QED BY <2>1, LiveSame
<1>. QED BY <1>1, <1>2

LEMMA HeardSame ==
  ASSUME events' = events, selected' = selected, client'.ignored \subseteq client.ignored
  PROVE  Heard(selected) => Heard(selected)'
<1>1. ToldTwice(selected) => Told(selected)
  BY DEF ToldTwice, Told
<1>. QED BY <1>1 DEF Heard, Told, ToldTwice

LEMMA HeardTail ==
  ASSUME TypeOK, Hears, client'.ignored \subseteq client.ignored,
         ~Detaches(Head(events), selected)
  PROVE  Heard(selected) => Heard(selected)'
<1>1. events \in Seq(Event) /\ events # <<>> /\ events' = Tail(events) /\ selected' = selected
  BY DEF TypeOK, Hears
<1>2. ASSUME NEW t, t = selected
      PROVE  /\ Told(t) => Told(t)'
             /\ ToldTwice(t) => ToldTwice(t)' /\ Told(t)'
  BY <1>1, <1>2, ToldTail
<1>3. /\ Told(selected) => Told(selected)'
      /\ ToldTwice(selected) => ToldTwice(selected)' /\ Told(selected)'
  BY <1>1, <1>2 DEF Told, ToldTwice
<1>. QED BY <1>1, <1>3 DEF Heard

LEMMA LiveRender ==
  ASSUME TypeOK, Own, Sound, Sound', Live,
         (\E t \in Keys : Selects(t)) \/ Loses \/ Notices
  PROVE  Live'
<1>1. Followed /\ Followed'
  BY DEF Sound, Followed
<1>2. "torn" \notin crossed' /\ "left" \notin crossed'
  BY DEF Sound
<1>3. \A a \in UnderWay(client) : /\ a.key \in Threads /\ a.key # NoThread
                                  /\ a.current => a.key = client.desired /\ window # "hidden"
  BY <1>1, IsAttempt, ThreadsAssumption DEF Own, Attempt
<1>4. /\ client.desired # NoThread => client.desired = selected
      /\ client.active # NoThread => client.active = selected
  BY <1>1 DEF Own
<1>5. ASSUME NEW t \in Keys, Selects(t) PROVE Live'
  <2>1. t # selected /\ selected' = t /\ window' = window /\ Follows(t)
    BY <1>5 DEF Selects
  <2>2. CASE Begins(client, client', t)
    BY <2>2, LiveBegins
  <2>3. ~JoinsOne(client, client', t)
    BY <1>3, <1>4, <2>1 DEF JoinsOne
  <2>4. CASE /\ t = NoThread \/ window = "hidden" \/ (client.active = t /\ client'.connected)
             /\ UnderWay(client') = UnderWay(client)
    <3>1. t = NoThread \/ window = "hidden"
      BY <1>4, <2>1, <2>4
    <3>2. ~Obliged'
      BY <1>3, <2>1, <2>4, <3>1 DEF Obliged
    <3>. QED BY <3>2 DEF Live
  <2>. QED BY <2>1, <2>2, <2>3, <2>4 DEF Follows
<1>6. ASSUME Loses PROVE Live'
  <2>1. /\ UnderWay(client) = {} /\ Follows(selected) /\ client'.connected = FALSE
        /\ UNCHANGED <<selected, window>>
    BY <1>2, <1>6 DEF Loses
  <2>2. CASE Begins(client, client', selected)
    BY <2>2, LiveBegins
  <2>3. CASE /\ selected = NoThread \/ window = "hidden"
             /\ UnderWay(client') = UnderWay(client)
    <3>1. ~Obliged'
      BY <2>1, <2>3 DEF Obliged
    <3>. QED BY <3>1 DEF Live
  <2>. QED BY <2>1, <2>2, <2>3 DEF Follows, JoinsOne
<1>7. ASSUME Notices PROVE Live'
  <2>1. /\ Follows(selected) /\ UNCHANGED <<selected, window, events, subscribed>>
    BY <1>7 DEF Notices
  <2>2. client.active = selected => client'.active = selected
    BY <2>1 DEF Follows
  <2>3. CASE selected # NoThread
             /\ (Begins(client, client', selected) \/ JoinsOne(client, client', selected))
    <3>1. selected \in Threads
      BY <2>3 DEF TypeOK, Keys
    <3>2. JoinsOne(client, client', selected) => client'.ignored = client.ignored
      BY DEF JoinsOne
    <3>3. CASE Begins(client, client', selected)
      BY <3>3, LiveBegins
    <3>4. CASE JoinsOne(client, client', selected)
      BY <2>1, <2>2, <3>1, <3>2, <3>4, HeardSame, LiveReconnects
    <3>. QED BY <2>3, <3>3, <3>4
  <2>4. CASE UnderWay(client') = UnderWay(client) /\ client'.ignored = client.ignored
    BY <2>1, <2>2, <2>4, HeardSame, ObligedSame, LiveSame
  <2>. QED BY <2>1, <2>3, <2>4 DEF Follows
<1>. QED BY <1>5, <1>6, <1>7

LEMMA LiveStep ==
  ASSUME TypeOK, Own, [Next]_vars, Sound, Sound', Answered, Marked, Live
  PROVE  Live'
<1>1. Steps
  BY NextSteps
<1>2. ASSUME NEW a \in UnderWay(client),
             \/ Progresses(a) \/ Ends(a) \/ Detached(a) \/ Lands(a) \/ CleansUp(a)
             \/ Subscribes(a) \/ Unsubscribes(a) \/ IsRefused(a)
      PROVE  Live'
  BY <1>2, LiveAttempt
<1>3. ASSUME (\E t \in Keys : Selects(t)) \/ Loses \/ Notices PROVE Live'
  BY <1>3, LiveRender
<1>4. ASSUME NEW t \in Threads, Goes(t) PROVE Live'
  <2>1. /\ client' = client /\ selected' = selected /\ window' = window
        /\ subscribed' = subscribed \ {t} /\ events' = Append(events, DetachOf(t))
    BY <1>4 DEF Goes
  <2>2. events \in Seq(Event) /\ DetachOf(t) \in Event
    BY DEF TypeOK, DetachOf, Event
  <2>3. ASSUME NEW x PROVE (Told(x) => Told(x)') /\ (ToldTwice(x) => ToldTwice(x)')
    BY <2>1, <2>2, ToldAppend
  <2>4. Heard(selected) => Heard(selected)'
    <3>1. /\ Told(selected) => Told(selected)'
          /\ ToldTwice(selected) => ToldTwice(selected)'
      <4>1. ASSUME NEW x, x = selected
            PROVE  (Told(x) => Told(x)') /\ (ToldTwice(x) => ToldTwice(x)')
        BY <2>3
      <4>. QED BY <2>1, <4>1 DEF Told, ToldTwice
    <3>. QED BY <2>1, <3>1 DEF Heard
  <2>5. CASE t # selected
    BY <2>1, <2>4, <2>5, ObligedSame, LiveSame
  <2>6. CASE t = selected
    <3>1. CASE Heard(selected)'
      BY <3>1 DEF Live
    <3>2. CASE ~Heard(selected)'
      <4>1. \E w \in UnderWay(client) :
              w.current /\ w.key = selected /\ w.pc = "dropping" /\ w.answer = "none"
        BY <2>1, <2>6, <3>2, WillHear
      <4>2. Coming'
        BY <2>1, <4>1 DEF Coming
      <4>. QED BY <4>2 DEF Live
    <3>. QED BY <3>1, <3>2
  <2>. QED BY <2>5, <2>6
<1>5. ASSUME UnderWay(client') = UnderWay(client), client'.active = client.active,
             client'.ignored \subseteq client.ignored,
             UNCHANGED <<selected, window, subscribed, events>>
      PROVE  Live'
  BY <1>5, HeardSame, ObligedSame, LiveSame
<1>6. ASSUME NEW t \in Threads, DropRefused(t) \/ Expires(t) PROVE Live'
  BY <1>5, <1>6 DEF DropRefused, Expires, Alike
<1>7. ASSUME Refreshes \/ UNCHANGED <<selected, window, up, client, drops, refreshing,
                                       subscribed, events, crossed>>
      PROVE  Live'
  BY <1>5, <1>7 DEF Refreshes
<1>8. ASSUME Leaves PROVE Live'
  <2>1. \A b \in UnderWay(client') : b.current = FALSE
    BY <1>8, StaledFacts DEF Leaves, TypeOK
  <2>2. ~Obliged'
    BY <1>8, <2>1 DEF Obliged, Leaves
  <2>. QED BY <2>2 DEF Live
<1>9. ASSUME NEW t \in Threads, Reconnects(client, client', t), selected \in Threads,
             UNCHANGED <<selected, subscribed, events>>
      PROVE  Live'
  <2>1. CASE Begins(client, client', t)
    BY <2>1, LiveBegins
  <2>2. CASE JoinsOne(client, client', t)
    <3>1. client'.active = client.active /\ client'.ignored = client.ignored
      BY <1>9, <2>2 DEF Reconnects, JoinsOne
    <3>. QED BY <1>9, <2>2, <3>1, HeardSame, LiveReconnects
  <2>. QED BY <1>9, <2>1, <2>2 DEF Reconnects
<1>10. ASSUME Enters PROVE Live'
  <2>1. CASE selected = NoThread
    BY <1>10, <2>1 DEF Enters, Live, Obliged
  <2>2. CASE selected # NoThread
    BY <1>9, <1>10, <2>2 DEF Enters
  <2>. QED BY <2>1, <2>2
<1>11. ASSUME RefreshEnds PROVE Live'
  <2>1. refreshing = selected
    BY <1>11 DEF RefreshEnds, Sound
  <2>. QED BY <1>9, <1>11, <2>1 DEF RefreshEnds
<1>12. ASSUME HearsOther \/ HearsAttached PROVE Live'
  <2>1. /\ UnderWay(client') = UnderWay(client) /\ client'.ignored = client.ignored
        /\ client.active = selected => client'.active = selected
        /\ ~Detaches(Head(events), selected) /\ Hears
    BY <1>12 DEF HearsOther, HearsAttached, Detaches
  <2>. QED BY <2>1, HeardTail, ObligedSame, LiveSame DEF Hears
<1>13. ASSUME HearsConnected PROVE Live'
  <2>1. /\ Hears /\ Reconnects(client, client', selected) /\ selected \in Threads
        /\ ~Detaches(Head(events), selected)
    BY <1>13 DEF HearsConnected, Detaches
  <2>2. CASE Begins(client, client', selected)
    BY <2>2, LiveBegins
  <2>3. CASE JoinsOne(client, client', selected)
    <3>1. client'.active = client.active /\ client'.ignored = client.ignored
      BY <2>1, <2>3 DEF Reconnects, JoinsOne
    <3>2. Heard(selected) => Heard(selected)'
      BY <2>1, <3>1, HeardTail
    <3>. QED BY <2>1, <2>3, <3>1, <3>2, LiveReconnects DEF Hears
  <2>. QED BY <2>1, <2>2, <2>3 DEF Reconnects
<1>14. ASSUME HearsOwn PROVE Live'
  <2>1. /\ Hears /\ UnderWay(client') = UnderWay(client) /\ client'.active = client.active
        /\ selected \in client.ignored /\ client'.ignored = client.ignored \ {selected}
    BY <1>14 DEF HearsOwn, Alike
  <2>2. /\ events \in Seq(Event) /\ events # <<>> /\ events' = Tail(events)
        /\ selected' = selected
    BY <2>1 DEF TypeOK, Hears
  <2>3. Heard(selected) => Heard(selected)'
    <3>1. ASSUME NEW t, t = selected, ToldTwice(t) PROVE Told(t)'
      BY <2>2, <3>1, ToldTail
    <3>2. ToldTwice(selected) => Told(selected)'
      BY <2>2, <3>1 DEF Told
    <3>. QED BY <2>1, <2>2, <3>2 DEF Heard
  <2>. QED BY <2>1, <2>3, ObligedSame, LiveSame DEF Hears
<1>15. ASSUME HearsDetached PROVE Live'
  <2>1. /\ Followed /\ "joined" \notin crossed'
    BY DEF Sound, Followed
  <2>2. \A a \in UnderWay(client) : ~(a.key = selected /\ a.pc = "subscribing")
    BY <1>15, <2>1 DEF HearsDetached
  <2>3. ASSUME NEW a \in UnderWay(client), a.current PROVE Coming
    <3>1. a \in Attempt
      BY IsAttempt
    <3>2. a.key = selected
      <4>1. a.key = client.desired /\ a.key # NoThread
        BY <2>1, <2>3, <3>1, ThreadsAssumption DEF Own, Attempt
      <4>. QED BY <2>1, <4>1 DEF Own
    <3>3. a.pc \in {"connecting", "resuming", "dropping"}
      BY <2>2, <2>3, <3>1, <3>2 DEF Answered, Attempt, Stages
    <3>. QED BY <2>3, <3>3 DEF Coming
  <2>4. CASE Begins(client, client', selected)
    BY <2>4, LiveBegins
  <2>5. CASE UnderWay(client') = UnderWay(client) /\ window # "focused"
    <3>1. window' = window
      BY <1>15 DEF HearsDetached, Hears
    <3>2. Obliged' => Coming'
      BY <2>3, <2>5, <3>1 DEF Obliged, Coming
    <3>. QED BY <3>2 DEF Live
  <2>6. CASE JoinsOne(client, client', selected)
    <3>1. Coming'
      BY <2>3, <2>6 DEF JoinsOne, Coming
    <3>. QED BY <3>1 DEF Live
  <2>. QED BY <1>15, <2>4, <2>5, <2>6 DEF HearsDetached
<1>. QED
  BY <1>1, <1>2, <1>3, <1>4, <1>6, <1>7, <1>8, <1>10, <1>11, <1>12, <1>13, <1>14, <1>15
     DEF Steps, AttemptMoves

---------------------------------------------------------------------------
(* The invariant, and what it says once everything is answered. *)

LEMMA Start ==
  ASSUME Init PROVE Inv
<1>1. /\ selected = Home /\ window = "focused" /\ up = TRUE
      /\ drops = [t \in Threads |-> 0] /\ refreshing = NoThread
      /\ subscribed = {} /\ events = <<>> /\ disturbed = 0 /\ crossed = {}
  BY DEF Init
<1> DEFINE c == [active |-> NoThread, desired |-> NoThread, ignored |-> {},
                 connected |-> TRUE, disconnected |-> FALSE, attempts |-> <<>>]
<1>2. PICK resume \in BOOLEAN : client = ReconnectLive(c, Home, resume)
  BY DEF Init
<1>3. /\ c \in Client /\ c.active = NoThread /\ c.ignored = {} /\ c.connected
      /\ UnderWay(c) = {}
  BY DEF Client, Keys, UnderWay
<1> HIDE DEF c
<1>4. Reconnects(c, client, Home)
  BY <1>2, <1>3, ThreadsAssumption, ReconnectFacts
<1>5. /\ client \in Client /\ client.active = NoThread /\ client.desired = Home
      /\ client.connected /\ Begins(c, client, Home)
  BY <1>3, <1>4 DEF Reconnects, JoinsOne
<1>6. Staled(UnderWay(c)) = {}
  BY <1>3 DEF Staled
<1>7. /\ \A b \in UnderWay(client) : IsFresh(b, Home, TRUE)
      /\ \E b \in UnderWay(client) : IsFresh(b, Home, TRUE)
  BY <1>5, <1>6 DEF Begins, Client
<1>8. TypeOK
  BY <1>1, <1>5, ThreadsAssumption DEF TypeOK, Keys, Windows
<1>9. Down
  BY <1>1 DEF Down
<1>10. Own
  BY <1>1, <1>5, <1>7 DEF Own, IsFresh
<1>11. Undone
  BY <1>1 DEF Undone
<1>12. Answered
  BY <1>1, <1>7 DEF Answered, IsFresh
<1>13. Marked
  <2>1. ASSUME NEW t \in client.ignored
        PROVE  \E a \in UnderWay(client) :
                 a.key = t /\ a.pc = "dropping" /\ a.answer = "none"
    <3>1. /\ t = Home
          /\ \E b \in UnderWay(client) : IsFresh(b, Home, client.connected) /\ b.pc = "dropping"
      BY <1>3, <1>5, <2>1 DEF Begins
    <3>. QED BY <3>1 DEF IsFresh
  <2>. QED BY <2>1 DEF Marked
<1>14. Coming
  BY <1>7 DEF Coming, IsFresh
<1>15. Attached
  BY <1>12, <1>13, <1>14 DEF Attached, Live
<1>. QED BY <1>8, <1>9, <1>10, <1>11, <1>15 DEF Inv

LEMMA StepKeeps ==
  ASSUME Inv, [Next]_vars PROVE Inv'
<1>1. TypeOK /\ Down /\ Own /\ Undone /\ Attached
  BY DEF Inv
<1>2. TypeOK'
  BY <1>1, TypeStep
<1>3. Down'
  BY <1>1, DownStep
<1>4. Own'
  BY <1>1, OwnStep
<1>5. Undone'
  BY <1>1, UndoneStep
<1>6. ASSUME Sound' PROVE Answered' /\ Marked' /\ Live'
  <2>1. Sound
    BY <1>1, <1>6, SoundBefore
  <2>2. Answered /\ Marked /\ Live
    BY <1>1, <2>1 DEF Attached
  <2>3. Answered'
    BY <1>1, <1>6, <2>2, AnsweredStep
  <2>4. Marked'
    BY <1>1, <1>6, <2>1, <2>2, MarkedStep
  <2>5. Live'
    BY <1>1, <1>6, <2>1, <2>2, LiveStep
  <2>. QED BY <2>3, <2>4, <2>5
<1>7. Attached'
  BY <1>6 DEF Attached
<1>. QED BY <1>2, <1>3, <1>4, <1>5, <1>7 DEF Inv

LEMMA Invariance == Spec => []Inv
<1>1. Init => Inv
  BY Start
<1>2. Inv /\ [Next]_vars => Inv'
  BY StepKeeps
<1>. QED BY <1>1, <1>2, PTL DEF Spec

\* The hook's refs, its attempts, the calls and the notifications keep their types,
\* for any number of threads and of disturbances.
THEOREM TypeCorrect == Spec => []TypeOK
<1>1. Inv => TypeOK
  BY DEF Inv
<1>. QED BY <1>1, Invariance, PTL

LEMMA QuietFacts ==
  ASSUME Inv, Quiet
  PROVE  /\ UnderWay(client) = {} /\ events = <<>>
         /\ \A t \in Threads : ~Owed(t)
<1>1. UnderWay(client) = {}
  BY UnderWayEmpty DEF Inv, Quiet
<1>2. ASSUME NEW t \in Threads PROVE ~Owed(t)
  <2>1. drops[t] = 0
    BY DEF Quiet
  <2>. QED BY <1>1, <2>1 DEF Owed
<1>. QED BY <1>1, <1>2 DEF Quiet

\* Once every call is answered the daemon's last word on a thread is a
\* subscription for the selected thread only, and for none while the window is
\* hidden: whatever attempts a switch, a blur, a lost session or another client
\* overtook, each leaves behind who will unsubscribe (the cleanup of a stale
\* attempt, unsubscribeByKey of a switch or a blur).
THEOREM NothingStaysAttachedHolds == Spec => []NothingStaysAttached
<1>1. Inv => NothingStaysAttached
  <2>1. SUFFICES ASSUME Inv, Quiet,
                        crossed \cap {"failure", "left", "again", "refresh"} = {},
                        NEW t \in subscribed
                 PROVE  window # "hidden" /\ t = selected
    BY DEF NothingStaysAttached
  <2>2. t \in Threads
    BY <2>1 DEF Inv, TypeOK
  <2>3. t = Wanted
    BY <2>1, <2>2, QuietFacts DEF Inv, Undone, Kept
  <2>4. window # "hidden" /\ t = client.desired /\ client.desired # NoThread
    BY <2>2, <2>3, ThreadsAssumption DEF Wanted
  <2>5. Followed
    BY <2>1 DEF Followed
  <2>. QED BY <2>1, <2>4, <2>5 DEF Inv, Own
<1>. QED BY <1>1, Invariance, PTL

\* Once every call is answered and every notification handled, and the window
\* has the focus, the selected thread is attached and the hook knows: no order
\* of answers and notifications, of its own calls or of another client's, makes
\* the hook hold a thread for attached that the daemon was last told to detach,
\* unless one of the crossings happened.
THEOREM SelectedIsLiveHolds == Spec => []SelectedIsLive
<1>1. Inv => SelectedIsLive
  <2>1. SUFFICES ASSUME Inv, Quiet, window = "focused", selected # NoThread,
                        crossed \cap {"failure", "torn", "joined", "left", "dropped",
                                      "refresh", "unheard"} = {}
                 PROVE  client.active = selected /\ selected \in subscribed
    BY DEF SelectedIsLive
  <2>2. UnderWay(client) = {} /\ events = <<>>
    BY <2>1, QuietFacts
  <2>3. Sound
    BY <2>1, <2>2 DEF Sound
  <2>4. Live
    BY <2>1, <2>3 DEF Inv, Attached
  <2>5. Obliged
    BY <2>1 DEF Obliged
  <2>6. ~Coming /\ ~Landed
    BY <2>2 DEF Coming, Landed
  <2>7. ~Heard(selected)
    BY <2>2 DEF Heard, Told, ToldTwice
  <2>. QED BY <2>4, <2>5, <2>6, <2>7 DEF Live
<1>. QED BY <1>1, Invariance, PTL
=============================================================================
