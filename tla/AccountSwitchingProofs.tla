----------------------- MODULE AccountSwitchingProofs -----------------------
(***************************************************************************)
(* Theorems about AccountSwitching: the types of its state, that a start   *)
(* of a login ends as canceled for a reason only, that an open login can   *)
(* be canceled, and that no page opens which the user has canceled.        *)
(*                                                                         *)
(* The inductive invariant IInv says, of what the code spreads over tasks  *)
(* and awaits, which flow awaits which call (CallsAreAwaited), that flows  *)
(* which await something at the same time overlap (OverlapsAreKnown),      *)
(* whose handle a workspace can have (HandlesAreOwn), and what a cancel on *)
(* its way to the map can meet there (CancelsAreAimed); so a signal has    *)
(* its reason before the start reads it (SignalsHaveReasons).              *)
(*                                                                         *)
(* SoloInv, inductive beside IInv, is about a login that overlaps no       *)
(* other: whatever else lives overlaps it (LivesOverlap), so no call,      *)
(* cancel or notification but its own can disturb the refs and the handle  *)
(* it is reached by (OpenIsWatched).                                       *)
(*                                                                         *)
(* A step of the backend is first brought to what it does to calls,        *)
(* handles, cancels and logins (BackendEffect, BackendGoesOn); that effect *)
(* keeps IInv and SoloInv.  The hook's steps are taken one by one.         *)
(***************************************************************************)
EXTENDS AccountSwitching, TLAPS

(* Types *)

Signals == {"none", "sent", "closed"}
Pcs == {"idle", "called", "waiting", "answered", "ok", "canceled", "failed"}

\* Release tells at most the start whose sender the handle is, while it waits.
LEMMA ReleaseFacts ==
  ASSUME starts \in [Starts -> StartCall], NEW h, NEW how \in Signals
  PROVE  /\ Release(h, how) \in [Starts -> StartCall]
         /\ \A k \in Starts :
              LET r == Release(h, how)[k]
              IN  /\ r.ws = starts[k].ws /\ r.pc = starts[k].pc
                  /\ r.request = starts[k].request
                  /\ \/ r.signal = starts[k].signal
                     \/ h = PendingStart(k) /\ starts[k].pc = "waiting"
<1>1. ASSUME NEW k \in Starts
      PROVE  /\ Release(h, how)[k] \in {starts[k], [starts[k] EXCEPT !.signal = how]}
             /\ Release(h, how)[k] # starts[k] => h = PendingStart(k) /\ starts[k].pc = "waiting"
  BY DEF Release
<1>2. ASSUME NEW s \in StartCall
      PROVE  /\ [s EXCEPT !.signal = how] \in StartCall
             /\ [s EXCEPT !.signal = how].ws = s.ws
             /\ [s EXCEPT !.signal = how].pc = s.pc
             /\ [s EXCEPT !.signal = how].request = s.request
  BY DEF StartCall, Signals
<1>3. \A k \in Starts : Release(h, how)[k] \in StartCall
  BY <1>1, <1>2
<1>4. Release(h, how) = [k \in Starts |-> Release(h, how)[k]]
  BY DEF Release
<1>5. Release(h, how) \in [Starts -> StartCall]
  BY <1>3, <1>4
<1> QED BY <1>1, <1>2, <1>5

\* A call that moves on and drops its signal is a call.
LEMMA StartUpdates ==
  ASSUME NEW f \in [Starts -> StartCall], NEW n \in Starts, NEW pc \in Pcs
  PROVE  /\ [f EXCEPT ![n].pc = pc, ![n].signal = "none"] \in [Starts -> StartCall]
         /\ [f EXCEPT ![n].pc = pc, ![n].request = "sent"] \in [Starts -> StartCall]
         /\ \A ws \in Workspaces :
              [f EXCEPT ![n].ws = ws, ![n].pc = pc] \in [Starts -> StartCall]
         /\ [f EXCEPT ![n].pc = pc] \in [Starts -> StartCall]
         /\ \A r \in {"answered", "failed", "dropped"} :
              [f EXCEPT ![n].request = r] \in [Starts -> StartCall]
<1>1. [f EXCEPT ![n].pc = pc, ![n].signal = "none"] \in [Starts -> StartCall]
  BY DEF StartCall, Pcs
<1>2. [f EXCEPT ![n].pc = pc, ![n].request = "sent"] \in [Starts -> StartCall]
  BY DEF StartCall, Pcs
<1>3. \A ws \in Workspaces :
        [f EXCEPT ![n].ws = ws, ![n].pc = pc] \in [Starts -> StartCall]
  BY DEF StartCall, Pcs
<1>4. [f EXCEPT ![n].pc = pc] \in [Starts -> StartCall]
  BY DEF StartCall, Pcs
<1>5. \A r \in {"answered", "failed", "dropped"} :
        [f EXCEPT ![n].request = r] \in [Starts -> StartCall]
  BY DEF StartCall
<1> QED BY <1>1, <1>2, <1>3, <1>4, <1>5

\* The empty place in the map is a handle.
LEMMA NoHandleType == NoHandle \in Handle
  BY DEF NoHandle, Handle

\* What is said about a login is a notification.
LEMMA ToldType ==
  ASSUME TypeOK, NEW n \in Starts, starts[n].ws \in Workspaces,
         NEW kind \in {"completed", "updated"}, NEW success \in BOOLEAN
  PROVE  Told(kind, n, success) \in Notice /\ Told(kind, n, success).login = n
  BY DEF Told, Notice

\* The cancels of the user come first, then one for each start.
LEMMA CancelNumbers ==
  /\ 1..MaxCancels \subseteq Cancels
  /\ \A n \in Starts : CancelOf(n) \in Cancels \ (1..MaxCancels)
  /\ \A n, k \in Starts : CancelOf(n) = CancelOf(k) => n = k
  /\ \A c \in Cancels : c > MaxCancels => \E n \in Starts : c = CancelOf(n)
<1> USE LoginBoundAssumption DEF Cancels, Starts, CancelOf
<1>1. \A c \in Cancels : c > MaxCancels => \E n \in Starts : c = CancelOf(n)
  <2> SUFFICES ASSUME NEW c \in Cancels, c > MaxCancels
               PROVE  \E n \in Starts : c = CancelOf(n)
    OBVIOUS
  <2> WITNESS c - MaxCancels \in Starts
  <2> QED OBVIOUS
<1> QED BY <1>1

---------------------------------------------------------------------------
(* The inductive invariant. *)

Busy(n) == flows[n] \in {"calling", "opening", "canceling"}
Begun(n) == flows[n] # "none"
Underway(c) == cancels[c].pc \in {"called", "asking", "answered"}
OnItsWay(n) == starts[n].pc \in {"called", "waiting", "answered"}
Overlapped(n) == \E k \in Starts : <<n, k>> \in crossed /\ starts[k].ws = starts[n].ws
Reason(n) == n \in dismissed \/ starts[n].request = "dropped" \/ Overlapped(n)

\* What has not begun has left no trace, and a request is sent by Register.
NothingBefore ==
  /\ \A n \in Starts :
       /\ ~Begun(n) => starts[n].request = "none" /\ starts[n].pc = "idle" /\ logins[n] = "none"
       /\ starts[n].pc = "called" => starts[n].request = "none"
  /\ \A i \in 1..Len(events) : Begun(events[i].login)

\* Calls are awaited by the flow that made them, in a workspace.
CallsAreAwaited ==
  /\ \A n \in Starts : /\ OnItsWay(n) => flows[n] = "calling"
                       /\ Begun(n) => starts[n].ws \in Workspaces
                       /\ Underway(CancelOf(n)) => flows[n] = "canceling"
                       /\ cancels[CancelOf(n)].pc = "called" =>
                            cancels[CancelOf(n)].ws = starts[n].ws
  /\ \A c \in Cancels :
       /\ cancels[c].pc = "called" => cancels[c].ws \in Workspaces
       /\ cancels[c].pc = "asking" => cancels[c].login \in Starts

\* Two flows that await something overlap, and what overlaps has begun.
OverlapsAreKnown ==
  \A n, k \in Starts :
    /\ n # k /\ Busy(n) /\ Busy(k) => <<n, k>> \in crossed
    /\ <<n, k>> \in crossed => Begun(n) /\ Begun(k)

\* A waiting start's handle is in the map under its own workspace.
HandlesAreOwn ==
  \A ws \in Workspaces, n \in Starts :
    handles[ws] = PendingStart(n) => starts[n].ws = ws /\ Begun(n)

\* The user can cancel only where something has begun.
HookKnows ==
  /\ hook.switching => hook.loginWs # NoWorkspace
  /\ hook.loginWs # NoWorkspace =>
       \E n \in Starts : Begun(n) /\ starts[n].ws = hook.loginWs

\* A cancel of the user that has not reached the map yet: what began in its
\* workspace before it is dismissed, and what began since overlaps that.
CancelsAreAimed ==
  \A c \in 1..MaxCancels : cancels[c].pc = "called" =>
    /\ \E n \in Starts : Begun(n) /\ starts[n].ws = cancels[c].ws
    /\ \A n \in Starts : Begun(n) /\ starts[n].ws = cancels[c].ws =>
         n \in dismissed \/ Overlapped(n)

\* A start is told to end, or ends, as canceled for a reason.
SignalsHaveReasons ==
  \A n \in Starts : starts[n].signal # "none" \/ starts[n].pc = "canceled" => Reason(n)

IInv ==
  /\ TypeOK
  /\ NothingBefore /\ CallsAreAwaited /\ OverlapsAreKnown /\ HandlesAreOwn
  /\ HookKnows /\ CancelsAreAimed /\ SignalsHaveReasons

---------------------------------------------------------------------------
(* Steps of the backend. *)

\* What the backend does, seen from the flows: no call begins or changes its
\* workspace, a call is told to end for a reason only, and handles of starts and
\* logins are those of calls.
StartsMove ==
  \A n \in Starts :
    /\ starts'[n].ws = starts[n].ws
    /\ starts[n].pc = "idle" => starts'[n].pc = "idle"
    /\ OnItsWay(n)' => OnItsWay(n)
    /\ starts'[n].pc = "called" => starts[n].pc = "called" /\ starts'[n].request = starts[n].request
    /\ starts[n].request = "none" =>
         starts'[n].request = "none" \/ starts[n].pc = "called"
    /\ starts[n].request = "dropped" => starts'[n].request = "dropped"
    /\ starts'[n].signal # "none" \/ starts'[n].pc = "canceled" =>
         Reason(n) \/ starts'[n].request = "dropped"
HandlesMove ==
  \A ws \in Workspaces, n \in Starts :
    handles'[ws] = PendingStart(n) =>
      handles[ws] = PendingStart(n) \/ (starts[n].ws = ws /\ starts[n].pc = "called")
CancelsMove ==
  \A c \in Cancels :
    /\ Underway(c)' => Underway(c)
    /\ cancels'[c].pc = "called" => cancels'[c] = cancels[c]
    /\ cancels'[c].pc = "asking" => cancels'[c].login \in Starts
LoginsMove ==
  /\ \A n \in Starts :
       logins[n] = "none" => logins'[n] = "none" \/ starts[n].request = "sent"
  /\ \A i \in 1..Len(events') : Begun(events'[i].login)

BackendEffect == /\ BackendTypeOK' /\ StartsMove /\ HandlesMove /\ CancelsMove
                 /\ LoginsMove

\* Overlaps and reasons stay where calls keep their workspace.
LEMMA ReasonsStay ==
  ASSUME crossed \subseteq crossed', dismissed \subseteq dismissed',
         \A k \in Starts : /\ starts'[k].ws = starts[k].ws
                           /\ starts[k].request = "dropped" => starts'[k].request = "dropped",
         NEW n \in Starts
  PROVE  /\ Overlapped(n) => Overlapped(n)'
         /\ Reason(n) => Reason(n)'
<1>1. Overlapped(n) => Overlapped(n)'
  BY DEF Overlapped
<1> QED BY <1>1 DEF Reason

\* What the backend does keeps the invariant.
LEMMA BackendKeeps ==
  ASSUME IInv, BackendEffect, UNCHANGED <<hook, flows, dismissed, crossed>>
  PROVE  IInv'
<1> USE DEF IInv, BackendEffect, StartsMove, HandlesMove, CancelsMove, LoginsMove
<1>1. NothingBefore'
  BY DEF NothingBefore, CallsAreAwaited, OnItsWay, Begun
<1>2. CallsAreAwaited'
  <2>1. ASSUME NEW n \in Starts
        PROVE  /\ OnItsWay(n)' => flows'[n] = "calling"
               /\ Begun(n)' => starts'[n].ws \in Workspaces
    BY <2>1 DEF CallsAreAwaited, Begun
  <2>2. ASSUME NEW n \in Starts
        PROVE  /\ Underway(CancelOf(n))' => flows'[n] = "canceling"
               /\ cancels'[CancelOf(n)].pc = "called" =>
                    cancels'[CancelOf(n)].ws = starts'[n].ws
    <3>1. CancelOf(n) \in Cancels
      BY CancelNumbers
    <3>2. Underway(CancelOf(n))' => Underway(CancelOf(n))
      BY <3>1
    <3>3. cancels'[CancelOf(n)].pc = "called" => cancels'[CancelOf(n)] = cancels[CancelOf(n)]
      BY <3>1
    <3> QED BY <2>2, <3>2, <3>3 DEF CallsAreAwaited
  <2>3. ASSUME NEW c \in Cancels
        PROVE  /\ cancels'[c].pc = "called" => cancels'[c].ws \in Workspaces
               /\ cancels'[c].pc = "asking" => cancels'[c].login \in Starts
    BY <2>3 DEF CallsAreAwaited
  <2> QED BY <2>1, <2>2, <2>3 DEF CallsAreAwaited, OnItsWay, Begun, Underway
<1>3. OverlapsAreKnown'
  BY DEF OverlapsAreKnown, Busy, Begun
<1>4. HandlesAreOwn'
  BY DEF HandlesAreOwn, CallsAreAwaited, OnItsWay, Begun
<1>5. HookKnows'
  BY DEF HookKnows, Begun
<1>6. CancelsAreAimed'
  <2>1. \A n \in Starts : (Begun(n)' <=> Begun(n)) /\ (Overlapped(n) => Overlapped(n)')
    BY ReasonsStay DEF Begun
  <2>2. ASSUME NEW c \in 1..MaxCancels, cancels'[c].pc = "called"
        PROVE  cancels'[c] = cancels[c]
    BY <2>2, CancelNumbers
  <2> QED BY <2>1, <2>2 DEF CancelsAreAimed
<1>7. SignalsHaveReasons'
  <2>2. \A n \in Starts : Reason(n) => Reason(n)'
    BY ReasonsStay
  <2>3. \A n \in Starts : starts'[n].request = "dropped" => Reason(n)'
    BY DEF Reason
  <2> QED BY <2>2, <2>3 DEF SignalsHaveReasons
<1>8. TypeOK'
  BY DEF TypeOK
<1> QED BY <1>1, <1>2, <1>3, <1>4, <1>5, <1>6, <1>7, <1>8

\* A start has a reason if another one, still on its way, releases its handle.
LEMMA ReleasedByAnother ==
  ASSUME IInv, NEW n \in Starts, NEW k \in Starts, n # k, OnItsWay(n),
         handles[starts[n].ws] = PendingStart(k), starts[k].pc = "waiting"
  PROVE  Reason(k)
<1>1. flows[n] = "calling" /\ flows[k] = "calling" /\ starts[n].ws \in Workspaces
  BY DEF IInv, CallsAreAwaited, OnItsWay, Begun
<1>2. <<k, n>> \in crossed
  BY <1>1 DEF IInv, OverlapsAreKnown, Busy
<1>3. starts[k].ws = starts[n].ws
  BY <1>1 DEF IInv, HandlesAreOwn
<1> QED BY <1>2, <1>3 DEF Reason, Overlapped

\* So has one whose handle a cancel takes.
LEMMA ReleasedByCancel ==
  ASSUME IInv, NEW c \in Cancels, NEW k \in Starts, cancels[c].pc = "called",
         handles[cancels[c].ws] = PendingStart(k), starts[k].pc = "waiting"
  PROVE  Reason(k)
<1>1. flows[k] = "calling" /\ Begun(k) /\ cancels[c].ws \in Workspaces
  BY DEF IInv, CallsAreAwaited, OnItsWay, Begun
<1>2. starts[k].ws = cancels[c].ws
  BY <1>1 DEF IInv, HandlesAreOwn
<1>3. CASE c \in 1..MaxCancels
  BY <1>1, <1>2, <1>3 DEF IInv, CancelsAreAimed, Reason
<1>4. ASSUME NEW n \in Starts, c = CancelOf(n)
      PROVE  Reason(k)
  <2>1. flows[n] = "canceling" /\ starts[n].ws = cancels[c].ws
    BY <1>4 DEF IInv, CallsAreAwaited, Underway
  <2>2. <<k, n>> \in crossed
    BY <1>1, <2>1 DEF IInv, OverlapsAreKnown, Busy
  <2> QED BY <1>2, <2>1, <2>2 DEF Reason, Overlapped
<1>5. c \in 1..MaxCancels \/ c > MaxCancels
  BY LoginBoundAssumption DEF Cancels
<1> QED BY <1>3, <1>4, <1>5, CancelNumbers

\* A call, a request or a login is of a start in a workspace.
LEMMA BegunInWorkspace ==
  ASSUME IInv, NEW n \in Starts,
         OnItsWay(n) \/ starts[n].request # "none" \/ logins[n] # "none"
  PROVE  Begun(n) /\ starts[n].ws \in Workspaces
<1>1. Begun(n)
  BY DEF IInv, CallsAreAwaited, NothingBefore, Begun
<1> QED BY <1>1 DEF IInv, CallsAreAwaited

\* The calls that wait and the calls released as RemoveAndEnd and KeepLoginId
\* leave them: n itself ends, or is kept, with its signal gone.
LEMMA EndReleases ==
  ASSUME IInv, NEW n \in Starts, OnItsWay(n), NEW pc \in {"ok", "canceled", "failed"},
         pc = "canceled" => Reason(n),
         starts' = [Release(handles[starts[n].ws], "closed") EXCEPT
                       ![n].pc = pc, ![n].signal = "none"]
  PROVE  starts' \in [Starts -> StartCall] /\ StartsMove
<1> DEFINE R == Release(handles[starts[n].ws], "closed")
<1>1. starts \in [Starts -> StartCall]
  BY DEF IInv, TypeOK, BackendTypeOK
<1>2. /\ R \in [Starts -> StartCall]
      /\ \A k \in Starts :
           /\ R[k].ws = starts[k].ws /\ R[k].pc = starts[k].pc
           /\ R[k].request = starts[k].request
           /\ \/ R[k].signal = starts[k].signal
              \/ handles[starts[n].ws] = PendingStart(k) /\ starts[k].pc = "waiting"
  BY <1>1, ReleaseFacts DEF Signals
<1>3. starts' = [R EXCEPT ![n].pc = pc, ![n].signal = "none"]
  OBVIOUS
<1> HIDE DEF R
<1>4. starts' \in [Starts -> StartCall]
  <2>1. pc \in Pcs /\ R \in [Starts -> StartCall]
    BY <1>2 DEF Pcs
  <2>2. [R EXCEPT ![n].pc = pc, ![n].signal = "none"] \in [Starts -> StartCall]
    BY <2>1, StartUpdates
  <2> QED BY <2>2, <1>3
<1>5. /\ starts'[n].ws = starts[n].ws /\ starts'[n].pc = pc
      /\ starts'[n].signal = "none" /\ starts'[n].request = starts[n].request
  BY <1>2, <1>3 DEF StartCall
<1>6. ASSUME NEW k \in Starts, k # n
      PROVE  /\ starts'[k].ws = starts[k].ws /\ starts'[k].pc = starts[k].pc
             /\ starts'[k].request = starts[k].request
             /\ starts'[k].signal = starts[k].signal \/ Reason(k)
  <2>1. starts'[k] = R[k]
    BY <1>2, <1>3, <1>6
  <2>2. handles[starts[n].ws] = PendingStart(k) /\ starts[k].pc = "waiting" => Reason(k)
    BY <1>6, ReleasedByAnother
  <2> QED BY <1>2, <2>1, <2>2
<1>7. ASSUME NEW k \in Starts, starts[k].signal # "none" \/ starts[k].pc = "canceled"
      PROVE  Reason(k)
  BY <1>7 DEF IInv, SignalsHaveReasons
<1>8. ASSUME NEW k \in Starts
      PROVE  /\ starts[k].pc = "idle" => starts'[k].pc = "idle"
             /\ OnItsWay(k)' => OnItsWay(k)
             /\ starts'[k].pc = "called" => starts[k].pc = "called"
             /\ starts'[k].signal # "none" \/ starts'[k].pc = "canceled" => Reason(k)
  <2>1. CASE k = n
    BY <2>1, <1>5 DEF OnItsWay
  <2>2. CASE k # n
    BY <2>2, <1>6, <1>7 DEF OnItsWay
  <2> QED BY <2>1, <2>2
<1>9. ASSUME NEW k \in Starts
      PROVE  starts'[k].ws = starts[k].ws /\ starts'[k].request = starts[k].request
  BY <1>5, <1>6
<1> QED BY <1>4, <1>8, <1>9 DEF StartsMove

\* The call that finds no session, or takes its place in the map.
LEMMA RegisterEffect ==
  ASSUME IInv, NEW n \in Starts, Register(n)
  PROVE  BackendEffect
<1> DEFINE ws == starts[n].ws
           R == Release(handles[ws], "sent")
<1>1. /\ starts \in [Starts -> StartCall] /\ handles \in [Workspaces -> Handle]
      /\ starts[n].pc = "called" /\ UNCHANGED <<cancels, logins, events, session, disturbances>>
  BY DEF IInv, TypeOK, BackendTypeOK, Register
<1>2. ws \in Workspaces /\ OnItsWay(n)
  BY <1>1, BegunInWorkspace DEF OnItsWay
<1>3. CancelsMove /\ LoginsMove
  BY <1>1 DEF IInv, NothingBefore, CancelsMove, LoginsMove, Underway, CallsAreAwaited
<1>4. ASSUME NEW k \in Starts, starts[k].signal # "none" \/ starts[k].pc = "canceled"
      PROVE  Reason(k)
  BY <1>4 DEF IInv, SignalsHaveReasons
<1>5. CASE session = "lost"
  <2>1. starts' = [starts EXCEPT ![n].pc = "failed"] /\ UNCHANGED handles
    BY <1>5 DEF Register
  <2>2. starts' \in [Starts -> StartCall]
    BY <1>1, <2>1, StartUpdates DEF Pcs
  <2>3. StartsMove
    BY <1>1, <1>2, <1>4, <2>1 DEF StartsMove, OnItsWay, StartCall
  <2> QED BY <1>1, <1>3, <2>1, <2>2, <2>3
          DEF BackendEffect, HandlesMove, BackendTypeOK, IInv, TypeOK
<1>6. CASE session # "lost"
  <2>1. /\ starts' = [R EXCEPT ![n].pc = "waiting", ![n].request = "sent"]
        /\ handles' = [handles EXCEPT ![ws] = PendingStart(n)]
    BY <1>6 DEF Register
  <2>2. /\ R \in [Starts -> StartCall]
        /\ \A k \in Starts :
             /\ R[k].ws = starts[k].ws /\ R[k].pc = starts[k].pc
             /\ R[k].request = starts[k].request
             /\ \/ R[k].signal = starts[k].signal
                \/ handles[ws] = PendingStart(k) /\ starts[k].pc = "waiting"
    BY <1>1, ReleaseFacts DEF Signals
  <2> HIDE DEF R
  <2>3. starts' \in [Starts -> StartCall]
    <3>1. [R EXCEPT ![n].pc = "waiting", ![n].request = "sent"] \in [Starts -> StartCall]
      BY <2>2, StartUpdates DEF Pcs
    <3> QED BY <3>1, <2>1
  <2>4. /\ starts'[n].ws = starts[n].ws /\ starts'[n].pc = "waiting"
        /\ starts'[n].signal = starts[n].signal /\ starts'[n].request = "sent"
    BY <1>1, <2>1, <2>2 DEF StartCall
  <2>5. ASSUME NEW k \in Starts, k # n
        PROVE  /\ starts'[k].ws = starts[k].ws /\ starts'[k].pc = starts[k].pc
               /\ starts'[k].request = starts[k].request
               /\ starts'[k].signal = starts[k].signal \/ Reason(k)
    <3>1. starts'[k] = R[k]
      BY <2>1, <2>2, <2>5
    <3>2. handles[ws] = PendingStart(k) /\ starts[k].pc = "waiting" => Reason(k)
      BY <1>2, <2>5, ReleasedByAnother
    <3> QED BY <2>2, <3>1, <3>2
  <2>6. starts[n].request # "dropped"
    BY <1>1 DEF IInv, NothingBefore
  <2>7. StartsMove
    BY <1>1, <1>2, <1>4, <2>4, <2>5, <2>6 DEF StartsMove, OnItsWay
  <2>8. handles' \in [Workspaces -> Handle] /\ HandlesMove
    BY <1>1, <1>2, <2>1 DEF Handle, PendingStart, HandlesMove
  <2> QED BY <1>1, <1>3, <2>3, <2>7, <2>8 DEF BackendEffect, BackendTypeOK, IInv, TypeOK
<1> QED BY <1>5, <1>6

\* A start that ends by itself, canceled for a reason or failed.
LEMMA RemoveAndEndEffect ==
  ASSUME IInv, NEW n \in Starts, NEW result \in {"canceled", "failed"},
         starts[n].pc = "waiting", result = "canceled" => Reason(n),
         RemoveAndEnd(n, result), UNCHANGED <<cancels, logins, events, session, disturbances>>
  PROVE  BackendEffect
<1>1. OnItsWay(n)
  BY DEF OnItsWay
<1>2. starts' \in [Starts -> StartCall] /\ StartsMove
  BY <1>1, EndReleases DEF RemoveAndEnd
<1>3. handles' \in [Workspaces -> Handle] /\ HandlesMove
  BY NoHandleType DEF RemoveAndEnd, HandlesMove, NoHandle, PendingStart, IInv, TypeOK, BackendTypeOK
<1>4. CancelsMove /\ LoginsMove
  BY DEF IInv, NothingBefore, CancelsMove, LoginsMove, Underway, CallsAreAwaited
<1> QED BY <1>2, <1>3, <1>4 DEF BackendEffect, BackendTypeOK, IInv, TypeOK

\* The tick that finds a signal, or the sender dropped.
LEMMA NoticeCancelEffect ==
  ASSUME IInv, NEW n \in Starts, NoticeCancel(n)
  PROVE  BackendEffect
<1>1. Reason(n)
  BY DEF IInv, SignalsHaveReasons, NoticeCancel
<1> QED BY <1>1, RemoveAndEndEffect DEF NoticeCancel

\* The timer of a start.
LEMMA StartTimeoutEffect ==
  ASSUME IInv, NEW n \in Starts, StartTimeout(n)
  PROVE  BackendEffect
BY RemoveAndEndEffect DEF StartTimeout

\* The response, a failure or the loss of the session.
LEMMA ReceiveEffect ==
  ASSUME IInv, NEW n \in Starts, Receive(n)
  PROVE  BackendEffect
<1> DEFINE pc == CASE starts[n].request = "answered" -> "answered"
                   [] starts[n].request = "failed" -> "failed"
                   [] OTHER -> "canceled"
<1>1. /\ starts \in [Starts -> StartCall] /\ starts[n].pc = "waiting"
      /\ starts' = [starts EXCEPT ![n].pc = pc, ![n].signal = "none"]
      /\ UNCHANGED <<handles, cancels, logins, events, session, disturbances>>
  BY DEF IInv, TypeOK, BackendTypeOK, Receive
<1>2. /\ pc \in {"answered", "failed", "canceled"}
      /\ pc = "canceled" => starts[n].request = "dropped"
  BY DEF Receive
<1> HIDE DEF pc
<1>3. starts' \in [Starts -> StartCall]
  <2>1. [starts EXCEPT ![n].pc = pc, ![n].signal = "none"] \in [Starts -> StartCall]
    BY <1>1, <1>2, StartUpdates DEF Pcs
  <2> QED BY <2>1, <1>1
<1>4. /\ starts'[n].ws = starts[n].ws /\ starts'[n].pc = pc
      /\ starts'[n].signal = "none" /\ starts'[n].request = starts[n].request
      /\ \A k \in Starts \ {n} : starts'[k] = starts[k]
  BY <1>1 DEF StartCall
<1>5. ASSUME NEW k \in Starts, starts[k].signal # "none" \/ starts[k].pc = "canceled"
      PROVE  Reason(k)
  BY <1>5 DEF IInv, SignalsHaveReasons
<1>6. StartsMove
  BY <1>1, <1>2, <1>4, <1>5 DEF StartsMove, OnItsWay
<1>7. HandlesMove /\ CancelsMove /\ LoginsMove
  BY <1>1 DEF IInv, NothingBefore, HandlesMove, CancelsMove, LoginsMove, Underway, CallsAreAwaited
<1> QED BY <1>1, <1>3, <1>6, <1>7 DEF BackendEffect, BackendTypeOK, IInv, TypeOK

\* The id of the login replaces the handle.
LEMMA KeepLoginIdEffect ==
  ASSUME IInv, NEW n \in Starts, KeepLoginId(n)
  PROVE  BackendEffect
<1>1. OnItsWay(n) /\ UNCHANGED <<cancels, logins, events, session, disturbances>>
  BY DEF OnItsWay, KeepLoginId
<1>2. starts' \in [Starts -> StartCall] /\ StartsMove
  BY <1>1, EndReleases DEF KeepLoginId
<1>3. handles' \in [Workspaces -> Handle] /\ HandlesMove
  BY DEF KeepLoginId, HandlesMove, LoginId, PendingStart, Handle, IInv, TypeOK, BackendTypeOK
<1>4. CancelsMove /\ LoginsMove
  BY <1>1 DEF IInv, NothingBefore, CancelsMove, LoginsMove, Underway, CallsAreAwaited
<1> QED BY <1>1, <1>2, <1>3, <1>4 DEF BackendEffect, BackendTypeOK, IInv, TypeOK

\* The app-server answers a request.
LEMMA OpenLoginEffect ==
  ASSUME IInv, NEW n \in Starts, OpenLogin(n)
  PROVE  BackendEffect
<1>1. /\ starts \in [Starts -> StartCall] /\ starts[n].request = "sent"
      /\ UNCHANGED <<handles, cancels, events, session>>
  BY DEF IInv, TypeOK, BackendTypeOK, OpenLogin
<1>2. PICK r \in {"answered", "failed"} : starts' = [starts EXCEPT ![n].request = r]
  BY DEF OpenLogin
<1>3. starts' \in [Starts -> StartCall]
  <2>1. [starts EXCEPT ![n].request = r] \in [Starts -> StartCall]
    BY <1>1, StartUpdates DEF Pcs
  <2> QED BY <1>2, <2>1
<1>4. /\ starts'[n].ws = starts[n].ws /\ starts'[n].pc = starts[n].pc
      /\ starts'[n].signal = starts[n].signal /\ starts'[n].request = r
      /\ \A k \in Starts \ {n} : starts'[k] = starts[k]
  BY <1>1, <1>2 DEF StartCall
<1>5. ASSUME NEW k \in Starts, starts[k].signal # "none" \/ starts[k].pc = "canceled"
      PROVE  Reason(k)
  BY <1>5 DEF IInv, SignalsHaveReasons
<1>6. StartsMove
  BY <1>1, <1>2, <1>4, <1>5 DEF StartsMove, OnItsWay, IInv, NothingBefore
<1>7. /\ logins' \in [Starts -> {"none", "open", "succeeded", "failed", "canceled"}]
      /\ \A k \in Starts : k # n => logins'[k] = logins[k]
      /\ disturbances' \in 0..MaxDisturbances
  BY LoginBoundAssumption DEF OpenLogin, Disturb, IInv, TypeOK, BackendTypeOK
<1>8. HandlesMove /\ CancelsMove /\ LoginsMove
  BY <1>1, <1>7 DEF IInv, NothingBefore, HandlesMove, CancelsMove, LoginsMove, Underway, CallsAreAwaited
<1> QED BY <1>1, <1>3, <1>6, <1>7, <1>8 DEF BackendEffect, BackendTypeOK, IInv, TypeOK

\* What the backend keeps of calls and handles when it only tells of an end.
LEMMA TellingEffect ==
  ASSUME IInv, UNCHANGED <<handles, starts, session>>,
         NEW n \in Starts, logins[n] = "open",
         NEW r \in {"succeeded", "failed", "canceled"},
         logins' = [logins EXCEPT ![n] = r],
         \/ events' = Append(events, Told("completed", n, FALSE))
         \/ events' = events \o <<Told("completed", n, TRUE), Told("updated", n, TRUE)>>,
         disturbances' \in 0..MaxDisturbances,
         cancels' \in [Cancels -> CancelTask], CancelsMove
  PROVE  BackendEffect
<1>1. Begun(n) /\ starts[n].ws \in Workspaces
  BY BegunInWorkspace
<1>2. \A kind \in {"completed", "updated"}, success \in BOOLEAN :
        Told(kind, n, success) \in Notice /\ Told(kind, n, success).login = n
  BY <1>1, ToldType DEF IInv
<1>3. /\ events \in Seq(Notice)
      /\ \A i \in 1..Len(events) : Begun(events[i].login)
  BY DEF IInv, TypeOK, BackendTypeOK, NothingBefore
<1>4. events' \in Seq(Notice) /\ \A i \in 1..Len(events') : Begun(events'[i].login)
  <2>1. CASE events' = Append(events, Told("completed", n, FALSE))
    <3> DEFINE e == Told("completed", n, FALSE)
    <3>1. e \in Notice /\ e.login = n
      BY <1>2
    <3> HIDE DEF e
    <3>2. events' = Append(events, e)
      BY <2>1 DEF e
    <3>3. /\ events' \in Seq(Notice) /\ Len(events') = Len(events) + 1
          /\ events'[Len(events) + 1] = e
          /\ \A i \in 1..Len(events) : events'[i] = events[i]
      BY <1>3, <3>1, <3>2
    <3> QED BY <1>1, <1>3, <3>1, <3>3
  <2>2. CASE events' = events \o <<Told("completed", n, TRUE), Told("updated", n, TRUE)>>
    <3> DEFINE d == Told("completed", n, TRUE)
               e == Told("updated", n, TRUE)
    <3>1. d \in Notice /\ d.login = n /\ e \in Notice /\ e.login = n
      BY <1>2
    <3> HIDE DEF d, e
    <3>2. events' = events \o <<d, e>>
      BY <2>2 DEF d, e
    <3>3. /\ events' \in Seq(Notice) /\ Len(events') = Len(events) + 2
          /\ events'[Len(events) + 1] = d /\ events'[Len(events) + 2] = e
          /\ \A i \in 1..Len(events) : events'[i] = events[i]
      BY <1>3, <3>1, <3>2
    <3>4. ASSUME NEW i \in 1..Len(events')
          PROVE  i \in 1..Len(events) \/ i = Len(events) + 1 \/ i = Len(events) + 2
      BY <1>3, <3>3
    <3> QED BY <1>1, <1>3, <3>1, <3>3, <3>4
  <2> QED BY <2>1, <2>2
<1>5. StartsMove
  BY DEF IInv, StartsMove, OnItsWay, SignalsHaveReasons, NothingBefore
<1>6. HandlesMove
  BY DEF HandlesMove
<1>7. LoginsMove
  BY <1>4 DEF LoginsMove, IInv, TypeOK, BackendTypeOK
<1>8. BackendTypeOK'
  BY <1>4 DEF BackendTypeOK, IInv, TypeOK
<1> QED BY <1>5, <1>6, <1>7, <1>8 DEF BackendEffect

\* A login ends at the app-server.
LEMMA EndLoginEffect ==
  ASSUME IInv, NEW n \in Starts, EndLogin(n)
  PROVE  BackendEffect
<1>1. /\ UNCHANGED <<handles, starts, cancels, session, disturbances>>
      /\ logins[n] = "open"
  BY DEF EndLogin
<1>2. disturbances' \in 0..MaxDisturbances /\ cancels' \in [Cancels -> CancelTask]
  BY <1>1 DEF IInv, TypeOK, BackendTypeOK
<1>3. CancelsMove
  BY <1>1 DEF CancelsMove, Underway, IInv, CallsAreAwaited
<1>4. CASE /\ logins' = [logins EXCEPT ![n] = "succeeded"]
           /\ events' = events \o <<Told("completed", n, TRUE), Told("updated", n, TRUE)>>
  BY <1>1, <1>2, <1>3, <1>4, TellingEffect
<1>5. CASE /\ logins' = [logins EXCEPT ![n] = "failed"]
           /\ events' = Append(events, Told("completed", n, FALSE))
  BY <1>1, <1>2, <1>3, <1>5, TellingEffect
<1> QED BY <1>4, <1>5 DEF EndLogin

\* A cancel takes the handle of its workspace.
LEMMA TakeHandleEffect ==
  ASSUME IInv, NEW c \in Cancels, TakeHandle(c)
  PROVE  BackendEffect
<1> DEFINE ws == cancels[c].ws
           R == Release(handles[ws], "sent")
<1>1. /\ starts \in [Starts -> StartCall] /\ handles \in [Workspaces -> Handle]
      /\ cancels \in [Cancels -> CancelTask]
      /\ cancels[c].pc = "called" /\ UNCHANGED <<logins, events, session, disturbances>>
  BY DEF IInv, TypeOK, BackendTypeOK, TakeHandle
<1>2. ws \in Workspaces
  BY <1>1 DEF IInv, CallsAreAwaited
<1>3. starts' = R /\ handles' = [handles EXCEPT ![ws] = NoHandle]
  BY DEF TakeHandle
<1>4. /\ R \in [Starts -> StartCall]
      /\ \A k \in Starts :
           /\ R[k].ws = starts[k].ws /\ R[k].pc = starts[k].pc
           /\ R[k].request = starts[k].request
           /\ \/ R[k].signal = starts[k].signal
              \/ handles[ws] = PendingStart(k) /\ starts[k].pc = "waiting"
  BY <1>1, ReleaseFacts DEF Signals
<1> HIDE DEF R
<1>5. ASSUME NEW k \in Starts
      PROVE  starts'[k].signal = starts[k].signal \/ Reason(k)
  BY <1>1, <1>3, <1>4, ReleasedByCancel
<1>6. ASSUME NEW k \in Starts, starts[k].signal # "none" \/ starts[k].pc = "canceled"
      PROVE  Reason(k)
  BY <1>6 DEF IInv, SignalsHaveReasons
<1>7. StartsMove
  BY <1>3, <1>4, <1>5, <1>6 DEF StartsMove, OnItsWay, IInv, NothingBefore
<1>8. handles' \in [Workspaces -> Handle] /\ HandlesMove
  BY <1>1, <1>2, <1>3, NoHandleType DEF HandlesMove, NoHandle, PendingStart
<1>9. PICK pc \in {"asking", "answered"}, l \in {NoLogin} \cup Starts :
        /\ cancels' = [cancels EXCEPT ![c].pc = pc, ![c].login = l]
        /\ pc = "asking" => l \in Starts
  <2>1. handles[ws].kind = "login" => handles[ws].n \in Starts
    BY <1>1, <1>2 DEF Handle
  <2> QED BY <2>1 DEF TakeHandle
<1>10. cancels' \in [Cancels -> CancelTask] /\ CancelsMove
  BY <1>1, <1>9 DEF CancelTask, CancelsMove, Underway, IInv, CallsAreAwaited
<1>11. LoginsMove
  BY <1>1 DEF IInv, NothingBefore, LoginsMove
<1> QED BY <1>1, <1>3, <1>4, <1>7, <1>8, <1>10, <1>11
        DEF BackendEffect, BackendTypeOK, IInv, TypeOK

\* The app-server answers a cancel.
LEMMA ServeCancelEffect ==
  ASSUME IInv, NEW c \in Cancels, ServeCancel(c)
  PROVE  BackendEffect
<1> DEFINE n == cancels[c].login
<1>1. /\ cancels \in [Cancels -> CancelTask] /\ cancels[c].pc = "asking"
      /\ cancels' = [cancels EXCEPT ![c].pc = "answered"]
      /\ UNCHANGED <<handles, starts, session>>
  BY DEF IInv, TypeOK, BackendTypeOK, ServeCancel
<1>2. cancels' \in [Cancels -> CancelTask] /\ CancelsMove
  BY <1>1 DEF CancelTask, CancelsMove, Underway, IInv, CallsAreAwaited
<1>3. disturbances' \in 0..MaxDisturbances
  <2>1. Disturb \/ UNCHANGED disturbances
    BY DEF ServeCancel
  <2>2. disturbances \in 0..MaxDisturbances
    BY DEF IInv, TypeOK, BackendTypeOK
  <2> QED BY <2>1, <2>2, LoginBoundAssumption DEF Disturb
<1>4. CASE UNCHANGED <<logins, events>>
  <2>1. StartsMove
    BY <1>1 DEF IInv, StartsMove, OnItsWay, SignalsHaveReasons, NothingBefore
  <2>2. HandlesMove /\ LoginsMove
    BY <1>1, <1>4 DEF HandlesMove, LoginsMove, IInv, NothingBefore
  <2> QED BY <1>1, <1>2, <1>3, <1>4, <2>1, <2>2 DEF BackendEffect, BackendTypeOK, IInv, TypeOK
<1>5. CASE /\ logins[n] = "open"
           /\ logins' = [logins EXCEPT ![n] = "canceled"]
           /\ events' = Append(events, Told("completed", n, FALSE))
  <2>1. n \in Starts
    BY <1>1 DEF IInv, CallsAreAwaited
  <2> QED BY <1>1, <1>2, <1>3, <1>5, <2>1, TellingEffect
<1> QED BY <1>4, <1>5 DEF ServeCancel

\* The app-server exits.
LEMMA LoseSessionEffect ==
  ASSUME IInv, LoseSession
  PROVE  BackendEffect
<1>1. /\ starts \in [Starts -> StartCall] /\ cancels \in [Cancels -> CancelTask]
      /\ UNCHANGED <<handles, events>>
  BY DEF IInv, TypeOK, BackendTypeOK, LoseSession
<1>2. ASSUME NEW s \in StartCall
      PROVE  /\ [s EXCEPT !.request = "dropped"] \in StartCall
             /\ [s EXCEPT !.request = "dropped"].ws = s.ws
             /\ [s EXCEPT !.request = "dropped"].pc = s.pc
             /\ [s EXCEPT !.request = "dropped"].signal = s.signal
             /\ [s EXCEPT !.request = "dropped"].request = "dropped"
  BY DEF StartCall
<1>3. \A k \in Starts :
        /\ starts'[k] = starts[k] \/ (starts[k].request = "sent"
                            /\ starts'[k] = [starts[k] EXCEPT !.request = "dropped"])
        /\ starts[k] \in StartCall
  BY <1>1 DEF LoseSession
<1>4. starts' \in [Starts -> StartCall]
  <2>1. starts' = [k \in Starts |-> starts'[k]]
    BY DEF LoseSession
  <2>2. \A k \in Starts : starts'[k] \in StartCall
    BY <1>2, <1>3
  <2> QED BY <2>1, <2>2
<1>5. \A k \in Starts :
        /\ starts'[k].ws = starts[k].ws /\ starts'[k].pc = starts[k].pc
        /\ starts'[k].signal = starts[k].signal
        /\ \/ starts'[k].request = starts[k].request
           \/ starts[k].request = "sent" /\ starts'[k].request = "dropped"
  <2> SUFFICES ASSUME NEW k \in Starts
               PROVE  /\ starts'[k].ws = starts[k].ws /\ starts'[k].pc = starts[k].pc
                      /\ starts'[k].signal = starts[k].signal
                      /\ \/ starts'[k].request = starts[k].request
                         \/ starts[k].request = "sent" /\ starts'[k].request = "dropped"
    OBVIOUS
  <2>1. CASE starts'[k] = starts[k]
    BY <2>1
  <2>2. CASE /\ starts[k].request = "sent"
             /\ starts'[k] = [starts[k] EXCEPT !.request = "dropped"]
    BY <1>2, <1>3, <2>2
  <2> QED BY <1>3, <2>1, <2>2
<1>6. StartsMove
  <2>1. ASSUME NEW k \in Starts
        PROVE  starts'[k].signal # "none" \/ starts'[k].pc = "canceled" => Reason(k)
    BY <1>5 DEF IInv, SignalsHaveReasons
  <2>2. ASSUME NEW k \in Starts
        PROVE  /\ starts[k].request = "none" => starts'[k].request = "none"
               /\ starts[k].pc = "called" => starts'[k].request = starts[k].request
               /\ starts[k].request = "dropped" => starts'[k].request = "dropped"
    BY <1>5 DEF IInv, NothingBefore
  <2> QED BY <1>5, <2>1, <2>2 DEF StartsMove, OnItsWay
<1>7. cancels' \in [Cancels -> CancelTask] /\ CancelsMove
  <2>1. ASSUME NEW t \in CancelTask
        PROVE  /\ [t EXCEPT !.pc = "answered"] \in CancelTask
               /\ [t EXCEPT !.pc = "answered"].pc = "answered"
    BY DEF CancelTask
  <2>2. \A d \in Cancels :
          /\ cancels[d] \in CancelTask
          /\ \/ cancels'[d] = cancels[d]
             \/ cancels[d].pc = "asking" /\ cancels'[d] = [cancels[d] EXCEPT !.pc = "answered"]
    BY <1>1 DEF LoseSession
  <2>3. \A d \in Cancels : cancels'[d] \in CancelTask
    BY <2>1, <2>2
  <2>4. cancels' = [d \in Cancels |-> cancels'[d]]
    BY DEF LoseSession
  <2>5. cancels' \in [Cancels -> CancelTask]
    BY <2>3, <2>4
  <2>6. CancelsMove
    BY <2>1, <2>2 DEF CancelsMove, Underway, IInv, CallsAreAwaited
  <2> QED BY <2>5, <2>6
<1>8. /\ logins' \in [Starts -> {"none", "open", "succeeded", "failed", "canceled"}]
      /\ LoginsMove
  <2>1. logins' = [k \in Starts |-> IF logins[k] = "open" THEN "failed" ELSE logins[k]]
    BY DEF LoseSession
  <2> QED BY <1>1, <2>1 DEF LoginsMove, IInv, TypeOK, BackendTypeOK, NothingBefore
<1>9. disturbances' \in 0..MaxDisturbances /\ session' \in {"shared", "own", "lost"}
  BY LoginBoundAssumption DEF LoseSession, Disturb, IInv, TypeOK, BackendTypeOK
<1> QED BY <1>1, <1>4, <1>6, <1>7, <1>8, <1>9
        DEF BackendEffect, HandlesMove, BackendTypeOK, IInv, TypeOK

\* What a step of the backend does.
LEMMA BackendStepEffect ==
  ASSUME IInv, BackendStep
  PROVE  BackendEffect
<1>1. CASE \E n \in Starts : \/ Register(n) \/ NoticeCancel(n) \/ StartTimeout(n)
                             \/ Receive(n) \/ KeepLoginId(n)
                             \/ OpenLogin(n) \/ EndLogin(n)
  BY <1>1, RegisterEffect, NoticeCancelEffect, StartTimeoutEffect, ReceiveEffect,
     KeepLoginIdEffect, OpenLoginEffect, EndLoginEffect
<1>2. CASE \E c \in Cancels : TakeHandle(c) \/ ServeCancel(c)
  BY <1>2, TakeHandleEffect, ServeCancelEffect
<1>3. CASE LoseSession
  BY <1>3, LoseSessionEffect
<1> QED BY <1>1, <1>2, <1>3 DEF BackendStep, Backend

\* The backend keeps the invariant.
LEMMA BackendStepKeeps ==
  ASSUME IInv, BackendStep
  PROVE  IInv'
BY BackendStepEffect, BackendKeeps DEF BackendStep

---------------------------------------------------------------------------
(* Steps of the hook. *)

\* What no step of the hook but the start of a login disturbs.
LEMMA HookKeeps ==
  ASSUME IInv, UNCHANGED <<starts, handles, logins, crossed>>, dismissed \subseteq dismissed',
         \A n \in Starts : (Begun(n)' <=> Begun(n)) /\ (Busy(n)' => Busy(n)),
         (\A i \in 1..Len(events) : Begun(events[i].login))'
  PROVE  /\ NothingBefore' /\ OverlapsAreKnown' /\ HandlesAreOwn' /\ SignalsHaveReasons'
         /\ \A n \in Starts : (n \in dismissed \/ Overlapped(n)) => (n \in dismissed \/ Overlapped(n))'
<1>1. NothingBefore'
  BY DEF IInv, NothingBefore
<1>2. OverlapsAreKnown'
  BY DEF IInv, OverlapsAreKnown
<1>3. HandlesAreOwn'
  BY DEF IInv, HandlesAreOwn
<1>4. \A n \in Starts : (Overlapped(n) => Overlapped(n)') /\ (Reason(n) => Reason(n)')
  BY ReasonsStay
<1>5. SignalsHaveReasons'
  BY <1>4 DEF IInv, SignalsHaveReasons
<1> QED BY <1>1, <1>2, <1>3, <1>4, <1>5

\* Notifications are about logins that have begun.
LEMMA EventsAreKnown ==
  ASSUME IInv
  PROVE  /\ events \in Seq(Notice)
         /\ \A i \in 1..Len(events) : events[i].login \in Starts /\ Begun(events[i].login)
<1>1. events \in Seq(Notice)
  BY DEF IInv, TypeOK, BackendTypeOK
<1>2. ASSUME NEW i \in 1..Len(events)
      PROVE  events[i].login \in Starts
  <2>1. events[i] \in Notice
    BY <1>1
  <2> QED BY <2>1 DEF Notice
<1>3. \A i \in 1..Len(events) : Begun(events[i].login)
  BY DEF IInv, NothingBefore
<1> QED BY <1>1, <1>2, <1>3

\* A cancel not at the map yet stays aimed while what has begun stays the same.
LEMMA AimsStay ==
  ASSUME IInv, UNCHANGED starts,
         \A n \in Starts : /\ Begun(n)' <=> Begun(n)
                           /\ (n \in dismissed \/ Overlapped(n)) => (n \in dismissed \/ Overlapped(n))',
         \A c \in 1..MaxCancels : cancels'[c].pc = "called" => cancels'[c] = cancels[c]
  PROVE  CancelsAreAimed'
BY DEF IInv, CancelsAreAimed

\* A cancel is called.
LEMMA CancelCallEffect ==
  ASSUME TypeOK, NEW c \in Cancels, NEW ws \in Workspaces, CancelCall(c, ws)
  PROVE  /\ cancels' \in [Cancels -> CancelTask]
         /\ cancels'[c] = [ws |-> ws, pc |-> "called", login |-> NoLogin]
         /\ \A d \in Cancels \ {c} : cancels'[d] = cancels[d]
BY DEF CancelCall, TypeOK, BackendTypeOK, CancelTask

\* The user goes to another workspace.
LEMMA SelectWorkspaceKeeps ==
  ASSUME IInv, NEW ws \in Workspaces, SelectWorkspace(ws)
  PROVE  IInv'
<1>1. UNCHANGED <<handles, starts, cancels, logins, events, session, flows, dismissed, crossed>>
  BY DEF SelectWorkspace
<1>2. TypeOK' /\ HookKnows'
  <2>1. disturbances' \in 0..MaxDisturbances
    BY LoginBoundAssumption DEF SelectWorkspace, Disturb, IInv, TypeOK, BackendTypeOK
  <2>2. /\ hook' \in [active : Workspaces, switching : BOOLEAN, canceled : BOOLEAN,
                      loginId : {NoLogin} \cup Starts,
                      loginWs : Workspaces \cup {NoWorkspace}]
        /\ hook'.loginWs = hook.loginWs /\ (hook'.switching => hook.switching)
    BY DEF SelectWorkspace, IInv, TypeOK
  <2>3. TypeOK'
    BY <1>1, <2>1, <2>2 DEF IInv, TypeOK, BackendTypeOK
  <2>4. HookKnows'
    BY <1>1, <2>2 DEF IInv, HookKnows, Begun
  <2> QED BY <2>3, <2>4
<1>3. \A n \in Starts : (Begun(n)' <=> Begun(n)) /\ (Busy(n)' => Busy(n))
  BY <1>1 DEF Begun, Busy
<1>4. (\A i \in 1..Len(events) : Begun(events[i].login))'
  BY <1>1 DEF IInv, NothingBefore, Begun
<1>5. /\ NothingBefore' /\ OverlapsAreKnown' /\ HandlesAreOwn' /\ SignalsHaveReasons'
      /\ \A n \in Starts : (n \in dismissed \/ Overlapped(n)) => (n \in dismissed \/ Overlapped(n))'
  BY <1>1, <1>3, <1>4, HookKeeps
<1>6. CallsAreAwaited'
  BY <1>1 DEF IInv, CallsAreAwaited, OnItsWay, Begun, Underway
<1>7. CancelsAreAimed'
  BY <1>1, <1>3, <1>5, AimsStay
<1> QED BY <1>2, <1>5, <1>6, <1>7 DEF IInv

\* The user cancels: everything begun in that workspace is dismissed.
LEMMA CancelSwitchKeeps ==
  ASSUME IInv, NEW c \in 1..MaxCancels, CancelSwitch(c)
  PROVE  IInv'
<1> DEFINE ws == hook.loginWs
<1>1. /\ UNCHANGED <<handles, starts, logins, events, session, flows, crossed>>
      /\ cancels[c].pc = "idle" /\ hook' = [hook EXCEPT !.canceled = TRUE]
  BY DEF CancelSwitch
<1>2. PICK k \in Starts : Begun(k) /\ starts[k].ws = ws
  BY DEF CancelSwitch, IInv, HookKnows
<1>3. ws \in Workspaces /\ ws # NoWorkspace
  BY <1>2, WorkspacesAssumption DEF IInv, CallsAreAwaited
<1>4. /\ CancelCall(c, ws)
      /\ dismissed' = dismissed \cup {n \in Starts : Begun(n) /\ starts[n].ws = ws}
  BY <1>3 DEF CancelSwitch, Begun
<1> HIDE DEF ws
<1>5. c \in Cancels /\ \A n \in Starts : CancelOf(n) # c /\ CancelOf(n) \in Cancels
  BY CancelNumbers
<1>6. /\ cancels' \in [Cancels -> CancelTask]
      /\ cancels'[c] = [ws |-> ws, pc |-> "called", login |-> NoLogin]
      /\ \A d \in Cancels \ {c} : cancels'[d] = cancels[d]
  BY <1>3, <1>4, <1>5, CancelCallEffect DEF IInv
<1>7. TypeOK'
  <2>1. disturbances' \in 0..MaxDisturbances
    BY LoginBoundAssumption DEF CancelSwitch, Disturb, IInv, TypeOK, BackendTypeOK
  <2>2. dismissed' \in SUBSET Starts
    BY <1>4 DEF IInv, TypeOK
  <2>3. hook' \in [active : Workspaces, switching : BOOLEAN, canceled : BOOLEAN,
                   loginId : {NoLogin} \cup Starts,
                   loginWs : Workspaces \cup {NoWorkspace}]
    BY <1>1 DEF IInv, TypeOK
  <2> QED BY <1>1, <1>6, <2>1, <2>2, <2>3 DEF IInv, TypeOK, BackendTypeOK
<1>8. HookKnows'
  BY <1>1 DEF IInv, HookKnows, Begun, TypeOK
<1>9. \A n \in Starts : (Begun(n)' <=> Begun(n)) /\ (Busy(n)' => Busy(n))
  BY <1>1 DEF Begun, Busy
<1>10. /\ (\A i \in 1..Len(events) : Begun(events[i].login))'
       /\ dismissed \subseteq dismissed'
  BY <1>1, <1>4 DEF IInv, NothingBefore, Begun
<1>11. /\ NothingBefore' /\ OverlapsAreKnown' /\ HandlesAreOwn' /\ SignalsHaveReasons'
       /\ \A n \in Starts : (n \in dismissed \/ Overlapped(n)) => (n \in dismissed \/ Overlapped(n))'
  BY <1>1, <1>9, <1>10, HookKeeps
<1>12. CallsAreAwaited'
  <2>1. ASSUME NEW d \in Cancels
        PROVE  /\ cancels'[d].pc = "called" => cancels'[d].ws \in Workspaces
               /\ cancels'[d].pc = "asking" => cancels'[d].login \in Starts
    BY <1>3, <1>6 DEF IInv, CallsAreAwaited
  <2>2. ASSUME NEW n \in Starts
        PROVE  cancels'[CancelOf(n)] = cancels[CancelOf(n)]
    BY <1>5, <1>6
  <2> QED BY <1>1, <2>1, <2>2 DEF IInv, CallsAreAwaited, OnItsWay, Begun, Underway
<1>13. CancelsAreAimed'
  <2>1. ASSUME NEW d \in 1..MaxCancels, cancels'[d].pc = "called"
        PROVE  /\ \E n \in Starts : Begun(n)' /\ starts'[n].ws = cancels'[d].ws
               /\ \A n \in Starts : Begun(n)' /\ starts'[n].ws = cancels'[d].ws =>
                    (n \in dismissed \/ Overlapped(n))'
    <3>1. CASE d = c
      BY <1>1, <1>2, <1>4, <1>6, <1>9, <3>1
    <3>2. CASE d # c
      <4>1. cancels'[d] = cancels[d]
        BY <1>6, <3>2, CancelNumbers
      <4> QED BY <1>1, <1>9, <1>11, <2>1, <4>1 DEF IInv, CancelsAreAimed
    <3> QED BY <3>1, <3>2
  <2> QED BY <2>1 DEF CancelsAreAimed
<1> QED BY <1>7, <1>8, <1>11, <1>12, <1>13 DEF IInv

\* A flow that goes on after an await, with or without a cancel of its own.
LEMMA FlowGoesOn ==
  ASSUME IInv, NEW n \in Starts, flows[n] \in {"calling", "opening"}, ~OnItsWay(n),
         UNCHANGED <<handles, starts, logins, events, session, dismissed, crossed>>,
         NEW to \in {"canceling", "opening", "page", "over"},
         flows' = [flows EXCEPT ![n] = to],
         \/ to = "canceling" /\ CancelCall(CancelOf(n), starts[n].ws)
         \/ to # "canceling" /\ UNCHANGED cancels,
         disturbances' \in 0..MaxDisturbances,
         hook' \in [active : Workspaces, switching : BOOLEAN, canceled : BOOLEAN,
                    loginId : {NoLogin} \cup Starts,
                    loginWs : Workspaces \cup {NoWorkspace}],
         \/ hook'.loginWs = hook.loginWs /\ hook'.switching = hook.switching
         \/ hook'.loginWs = NoWorkspace /\ ~hook'.switching
  PROVE  IInv'
<1>1. /\ flows \in [Starts -> {"none", "calling", "opening", "canceling", "page", "over"}]
      /\ cancels \in [Cancels -> CancelTask]
  BY DEF IInv, TypeOK, BackendTypeOK
<1>2. /\ flows' \in [Starts -> {"none", "calling", "opening", "canceling", "page", "over"}]
      /\ \A k \in Starts : (Begun(k)' <=> Begun(k)) /\ (Busy(k)' => Busy(k))
      /\ flows'[n] = to /\ \A k \in Starts \ {n} : flows'[k] = flows[k]
  BY <1>1 DEF Begun, Busy
<1>3. starts[n].ws \in Workspaces
  BY DEF IInv, CallsAreAwaited, Begun
<1>4. CancelOf(n) \in Cancels /\ CancelOf(n) \notin 1..MaxCancels
  BY CancelNumbers
<1>5. /\ cancels' \in [Cancels -> CancelTask]
      /\ \A d \in Cancels \ {CancelOf(n)} : cancels'[d] = cancels[d]
      /\ \/ cancels'[CancelOf(n)] = cancels[CancelOf(n)]
         \/ /\ to = "canceling"
            /\ cancels'[CancelOf(n)] = [ws |-> starts[n].ws, pc |-> "called", login |-> NoLogin]
  <2>1. CASE UNCHANGED cancels
    BY <1>1, <2>1
  <2>2. CASE to = "canceling" /\ CancelCall(CancelOf(n), starts[n].ws)
    BY <1>3, <1>4, <2>2, CancelCallEffect DEF IInv
  <2> QED BY <2>1, <2>2
<1>6. TypeOK'
  BY <1>2, <1>5 DEF IInv, TypeOK, BackendTypeOK
<1>7. HookKnows'
  BY <1>2 DEF IInv, HookKnows
<1>8. (\A i \in 1..Len(events) : Begun(events[i].login))'
  <2>1. \A i \in 1..Len(events) : events[i].login \in Starts /\ Begun(events[i].login)
    BY EventsAreKnown
  <2>2. events' = events
    OBVIOUS
  <2> QED BY <1>2, <2>1, <2>2
<1>9. /\ NothingBefore' /\ OverlapsAreKnown' /\ HandlesAreOwn' /\ SignalsHaveReasons'
      /\ \A k \in Starts : (k \in dismissed \/ Overlapped(k)) => (k \in dismissed \/ Overlapped(k))'
  BY <1>2, <1>8, HookKeeps
<1>10. ASSUME NEW c \in 1..MaxCancels
       PROVE  cancels'[c] = cancels[c]
  BY <1>4, <1>5, CancelNumbers
<1>11. CancelsAreAimed'
  BY <1>2, <1>9, <1>10, AimsStay
<1>12. CallsAreAwaited'
  <2>1. ASSUME NEW k \in Starts
        PROVE  /\ OnItsWay(k)' => flows'[k] = "calling"
               /\ Begun(k)' => starts'[k].ws \in Workspaces
    <3>1. OnItsWay(k)' <=> OnItsWay(k)
      BY DEF OnItsWay
    <3>2. OnItsWay(k) => k # n /\ flows[k] = "calling"
      BY DEF IInv, CallsAreAwaited
    <3>3. Begun(k) => starts[k].ws \in Workspaces
      BY DEF IInv, CallsAreAwaited
    <3> QED BY <1>2, <3>1, <3>2, <3>3
  <2>2. ASSUME NEW k \in Starts
        PROVE  /\ Underway(CancelOf(k))' => flows'[k] = "canceling"
               /\ cancels'[CancelOf(k)].pc = "called" =>
                    cancels'[CancelOf(k)].ws = starts'[k].ws
    <3>1. CASE k # n
      <4>1. CancelOf(k) \in Cancels \ {CancelOf(n)}
        BY <3>1, CancelNumbers
      <4>2. cancels'[CancelOf(k)] = cancels[CancelOf(k)] /\ flows'[k] = flows[k]
        BY <1>2, <1>5, <3>1, <4>1
      <4> QED BY <4>2 DEF IInv, CallsAreAwaited, Underway
    <3>2. CASE k = n
      <4>1. ~Underway(CancelOf(n)) /\ cancels[CancelOf(n)].pc # "called"
        BY DEF IInv, CallsAreAwaited, Underway
      <4>2. CASE cancels'[CancelOf(n)] = cancels[CancelOf(n)]
        BY <3>2, <4>1, <4>2 DEF Underway
      <4>3. CASE /\ to = "canceling"
                 /\ cancels'[CancelOf(n)] = [ws |-> starts[n].ws, pc |-> "called", login |-> NoLogin]
        BY <1>2, <3>2, <4>3
      <4> QED BY <1>5, <4>2, <4>3
    <3> QED BY <3>1, <3>2
  <2>3. ASSUME NEW d \in Cancels
        PROVE  /\ cancels'[d].pc = "called" => cancels'[d].ws \in Workspaces
               /\ cancels'[d].pc = "asking" => cancels'[d].login \in Starts
    BY <1>3, <1>5 DEF IInv, CallsAreAwaited
  <2> QED BY <2>1, <2>2, <2>3 DEF CallsAreAwaited, OnItsWay, Begun, Underway
<1> QED BY <1>6, <1>7, <1>9, <1>11, <1>12 DEF IInv

\* The start of a flow has answered.
LEMMA StartAnsweredKeeps ==
  ASSUME IInv, NEW n \in Starts, StartAnswered(n)
  PROVE  IInv'
<1>1. /\ flows[n] = "calling" /\ ~OnItsWay(n)
      /\ UNCHANGED <<handles, starts, logins, events, session, disturbances, dismissed, crossed>>
      /\ hook' = [hook EXCEPT !.loginId = n]
  BY DEF StartAnswered, OnItsWay
<1>2. /\ hook' \in [active : Workspaces, switching : BOOLEAN, canceled : BOOLEAN,
                    loginId : {NoLogin} \cup Starts,
                    loginWs : Workspaces \cup {NoWorkspace}]
      /\ hook'.loginWs = hook.loginWs /\ hook'.switching = hook.switching
  BY <1>1 DEF IInv, TypeOK
<1>3. disturbances' \in 0..MaxDisturbances
  BY <1>1 DEF IInv, TypeOK, BackendTypeOK
<1>4. CASE /\ flows' = [flows EXCEPT ![n] = "canceling"]
           /\ CancelCall(CancelOf(n), starts[n].ws)
  BY <1>1, <1>2, <1>3, <1>4, FlowGoesOn
<1>5. CASE flows' = [flows EXCEPT ![n] = "opening"] /\ UNCHANGED cancels
  BY <1>1, <1>2, <1>3, <1>5, FlowGoesOn
<1> QED BY <1>4, <1>5 DEF StartAnswered

\* The page of a login is open.
LEMMA PageOpenedKeeps ==
  ASSUME IInv, NEW n \in Starts, PageOpened(n)
  PROVE  IInv'
<1>1. /\ flows[n] = "opening" /\ flows' = [flows EXCEPT ![n] = "page"]
      /\ UNCHANGED <<backendVars, hook, dismissed, crossed>>
  BY DEF PageOpened
<1>2. ~OnItsWay(n) /\ UNCHANGED cancels
      /\ UNCHANGED <<handles, starts, logins, events, session, dismissed, crossed>>
  BY <1>1 DEF IInv, CallsAreAwaited, backendVars
<1>3. /\ hook' \in [active : Workspaces, switching : BOOLEAN, canceled : BOOLEAN,
                    loginId : {NoLogin} \cup Starts,
                    loginWs : Workspaces \cup {NoWorkspace}]
      /\ disturbances' \in 0..MaxDisturbances
  BY <1>1 DEF IInv, TypeOK, BackendTypeOK, backendVars
<1> QED BY <1>1, <1>2, <1>3, FlowGoesOn

\* The cleared refs name no login.
LEMMA ClearedType ==
  ASSUME TypeOK
  PROVE  /\ Cleared \in [active : Workspaces, switching : BOOLEAN, canceled : BOOLEAN,
                         loginId : {NoLogin} \cup Starts,
                         loginWs : Workspaces \cup {NoWorkspace}]
         /\ Cleared.loginWs = NoWorkspace /\ ~Cleared.switching
BY DEF TypeOK, Cleared

\* The catch of a flow.
LEMMA SwitchFailedKeeps ==
  ASSUME IInv, NEW n \in Starts, SwitchFailed(n)
  PROVE  IInv'
<1>1. /\ flows[n] \in {"calling", "opening"} /\ ~OnItsWay(n)
      /\ UNCHANGED <<handles, starts, logins, events, session, dismissed, crossed>>
  BY DEF SwitchFailed, OnItsWay, IInv, CallsAreAwaited
<1>2. disturbances' \in 0..MaxDisturbances
  <2>1. Disturb \/ UNCHANGED disturbances
    BY DEF SwitchFailed
  <2>2. disturbances \in 0..MaxDisturbances
    BY DEF IInv, TypeOK, BackendTypeOK
  <2> QED BY <2>1, <2>2, LoginBoundAssumption DEF Disturb
<1>3. CASE flows' = [flows EXCEPT ![n] = "over"] /\ hook' = Cleared /\ UNCHANGED cancels
  <2>1. TypeOK
    BY DEF IInv
  <2> QED BY <1>1, <1>2, <1>3, <2>1, ClearedType, FlowGoesOn
<1>4. CASE /\ flows' = [flows EXCEPT ![n] = "canceling"]
           /\ CancelCall(CancelOf(n), starts[n].ws)
           /\ UNCHANGED hook
  <2>1. hook' \in [active : Workspaces, switching : BOOLEAN, canceled : BOOLEAN,
                   loginId : {NoLogin} \cup Starts,
                   loginWs : Workspaces \cup {NoWorkspace}]
    BY <1>4 DEF IInv, TypeOK
  <2> QED BY <1>1, <1>2, <1>4, <2>1, FlowGoesOn
<1> QED BY <1>3, <1>4 DEF SwitchFailed

\* A cancel has answered.
LEMMA CancelAnsweredKeeps ==
  ASSUME IInv, NEW c \in Cancels, CancelAnswered(c)
  PROVE  IInv'
<1>1. /\ cancels[c].pc = "answered"
      /\ cancels' = [cancels EXCEPT ![c] = [ws |-> NoWorkspace, pc |-> "over", login |-> NoLogin]]
      /\ UNCHANGED <<handles, starts, logins, events, session, disturbances, dismissed, crossed>>
  BY DEF CancelAnswered
<1>2. /\ cancels' \in [Cancels -> CancelTask] /\ cancels'[c].pc = "over"
      /\ \A d \in Cancels \ {c} : cancels'[d] = cancels[d]
  BY <1>1 DEF IInv, TypeOK, BackendTypeOK, CancelTask
<1>3. /\ hook' \in [active : Workspaces, switching : BOOLEAN, canceled : BOOLEAN,
                    loginId : {NoLogin} \cup Starts,
                    loginWs : Workspaces \cup {NoWorkspace}]
      /\ hook'.loginWs = NoWorkspace /\ ~hook'.switching
  <2>1. hook.canceled \in BOOLEAN /\ TypeOK
    BY DEF IInv, TypeOK
  <2> QED BY <2>1, ClearedType DEF CancelAnswered
<1>4. /\ flows' \in [Starts -> {"none", "calling", "opening", "canceling", "page", "over"}]
      /\ \A n \in Starts : \/ flows'[n] = flows[n]
                           \/ c = CancelOf(n) /\ flows'[n] = "over"
  BY DEF CancelAnswered, IInv, TypeOK
<1>5. ASSUME NEW n \in Starts, c = CancelOf(n)
      PROVE  flows[n] = "canceling"
  BY <1>1, <1>5 DEF IInv, CallsAreAwaited, Underway
<1>6. \A n \in Starts : (Begun(n)' <=> Begun(n)) /\ (Busy(n)' => Busy(n))
  BY <1>4, <1>5 DEF Begun, Busy
<1>7. (\A i \in 1..Len(events) : Begun(events[i].login))'
  <2>1. \A i \in 1..Len(events) : events[i].login \in Starts /\ Begun(events[i].login)
    BY EventsAreKnown
  <2> QED BY <1>1, <1>6, <2>1
<1>8. /\ NothingBefore' /\ OverlapsAreKnown' /\ HandlesAreOwn' /\ SignalsHaveReasons'
      /\ \A n \in Starts : (n \in dismissed \/ Overlapped(n)) => (n \in dismissed \/ Overlapped(n))'
  BY <1>1, <1>6, <1>7, HookKeeps
<1>9. ASSUME NEW d \in 1..MaxCancels, cancels'[d].pc = "called"
      PROVE  cancels'[d] = cancels[d]
  BY <1>2, <1>9, CancelNumbers
<1>10. CancelsAreAimed'
  BY <1>1, <1>6, <1>8, <1>9, AimsStay
<1>11. CallsAreAwaited'
  <2>1. ASSUME NEW n \in Starts
        PROVE  /\ OnItsWay(n)' => flows'[n] = "calling"
               /\ Begun(n)' => starts'[n].ws \in Workspaces
    <3>1. OnItsWay(n)' <=> OnItsWay(n)
      BY <1>1 DEF OnItsWay
    <3>2. OnItsWay(n) => flows[n] = "calling"
      BY DEF IInv, CallsAreAwaited
    <3>3. Begun(n) => starts[n].ws \in Workspaces
      BY DEF IInv, CallsAreAwaited
    <3> QED BY <1>1, <1>4, <1>5, <1>6, <3>1, <3>2, <3>3
  <2>2. ASSUME NEW n \in Starts
        PROVE  /\ Underway(CancelOf(n))' => flows'[n] = "canceling"
               /\ cancels'[CancelOf(n)].pc = "called" =>
                    cancels'[CancelOf(n)].ws = starts'[n].ws
    <3>1. CASE CancelOf(n) = c
      BY <1>2, <3>1 DEF Underway
    <3>2. CASE CancelOf(n) # c
      <4>1. cancels'[CancelOf(n)] = cancels[CancelOf(n)] /\ flows'[n] = flows[n]
        BY <1>2, <1>4, <3>2, CancelNumbers
      <4> QED BY <1>1, <4>1 DEF IInv, CallsAreAwaited, Underway
    <3> QED BY <3>1, <3>2
  <2>3. ASSUME NEW d \in Cancels
        PROVE  /\ cancels'[d].pc = "called" => cancels'[d].ws \in Workspaces
               /\ cancels'[d].pc = "asking" => cancels'[d].login \in Starts
    BY <1>2 DEF IInv, CallsAreAwaited
  <2> QED BY <2>1, <2>2, <2>3 DEF CallsAreAwaited, OnItsWay, Begun, Underway
<1>12. HookKnows'
  BY <1>3 DEF HookKnows
<1>13. TypeOK'
  BY <1>1, <1>2, <1>3, <1>4 DEF IInv, TypeOK, BackendTypeOK
<1> QED BY <1>8, <1>10, <1>11, <1>12, <1>13 DEF IInv

\* The queue after one copy of its first notification is handled.
LEMMA QueueAfterCopy ==
  ASSUME events \in Seq(Notice), events # <<>>, NEW rest \in SUBSET Workspaces,
         \/ events' = Tail(events)
         \/ events' = <<[Head(events) EXCEPT !.to = rest]>> \o Tail(events)
  PROVE  /\ events' \in Seq(Notice)
         /\ \A i \in 1..Len(events') :
              \E j \in 1..Len(events) : events'[i].login = events[j].login
<1>1. /\ Len(events) \in Nat \ {0} /\ Head(events) = events[1] /\ Head(events) \in Notice
      /\ Tail(events) \in Seq(Notice) /\ Len(Tail(events)) = Len(events) - 1
      /\ \A i \in 1..Len(Tail(events)) : Tail(events)[i] = events[i + 1]
  OBVIOUS
<1>2. CASE events' = Tail(events)
  <2>1. ASSUME NEW i \in 1..Len(events')
        PROVE  \E j \in 1..Len(events) : events'[i].login = events[j].login
    <3>1. i + 1 \in 1..Len(events) /\ events'[i] = events[i + 1]
      BY <1>1, <1>2
    <3> QED BY <3>1
  <2> QED BY <1>1, <1>2, <2>1
<1>3. CASE events' = <<[Head(events) EXCEPT !.to = rest]>> \o Tail(events)
  <2> DEFINE e == [Head(events) EXCEPT !.to = rest]
             T == Tail(events)
  <2>1. e \in Notice /\ e.login = events[1].login
    BY <1>1 DEF Notice
  <2>2. /\ T \in Seq(Notice) /\ Len(T) = Len(events) - 1
        /\ \A i \in 1..Len(T) : T[i] = events[i + 1]
    BY <1>1
  <2>3. events' = <<e>> \o T
    BY <1>3
  <2> HIDE DEF e, T
  <2>4. /\ events' \in Seq(Notice) /\ Len(events') = Len(T) + 1 /\ events'[1] = e
        /\ \A i \in 2..Len(events') : events'[i] = T[i - 1]
    BY <2>1, <2>2, <2>3
  <2>5. ASSUME NEW i \in 1..Len(events')
        PROVE  events'[i].login = events[i].login /\ i \in 1..Len(events)
    <3>1. CASE i = 1
      <4>1. Len(events) \in Nat \ {0} /\ events'[1] = e /\ e.login = events[1].login
        BY <1>1, <2>1, <2>4
      <4> QED BY <3>1, <4>1
    <3>2. CASE i # 1
      <4>1. i - 1 \in 1..Len(T) /\ i \in 2..Len(events')
        BY <1>1, <2>2, <2>4, <3>2
      <4>2. events'[i] = T[i - 1] /\ T[i - 1] = events[(i - 1) + 1]
        BY <2>2, <2>4, <4>1
      <4> QED BY <1>1, <2>2, <2>4, <4>1, <4>2
    <3> QED BY <3>1, <3>2
  <2> QED BY <2>4, <2>5
<1> QED BY <1>2, <1>3

\* A notification reaches the hook.
LEMMA OnEventKeeps ==
  ASSUME IInv, NEW ws \in Workspaces, OnEvent(ws)
  PROVE  IInv'
<1>1. /\ UNCHANGED <<handles, starts, cancels, logins, session, disturbances, flows, dismissed, crossed>>
      /\ events # <<>>
  BY DEF OnEvent
<1>2. /\ events \in Seq(Notice) /\ TypeOK
      /\ \A i \in 1..Len(events) : events[i].login \in Starts /\ Begun(events[i].login)
  BY EventsAreKnown DEF IInv
<1>3. /\ events' \in Seq(Notice)
      /\ \A i \in 1..Len(events') :
           \E j \in 1..Len(events) : events'[i].login = events[j].login
  <2> DEFINE rest == Head(events).to \ {ws}
  <2>1. rest \in SUBSET Workspaces
    <3>1. Head(events) \in Notice
      BY <1>1, <1>2
    <3> QED BY <3>1 DEF Notice
  <2>2. \/ events' = Tail(events)
        \/ events' = <<[Head(events) EXCEPT !.to = rest]>> \o Tail(events)
    BY DEF OnEvent
  <2> HIDE DEF rest
  <2> QED BY <1>1, <1>2, <2>1, <2>2, QueueAfterCopy
<1>4. /\ hook' \in [active : Workspaces, switching : BOOLEAN, canceled : BOOLEAN,
                    loginId : {NoLogin} \cup Starts,
                    loginWs : Workspaces \cup {NoWorkspace}]
      /\ \/ hook'.loginWs = hook.loginWs /\ (hook'.switching => hook.switching)
         \/ hook'.loginWs = NoWorkspace /\ ~hook'.switching
  <2>1. \/ hook' = hook \/ hook' = Cleared
        \/ hook' = [hook EXCEPT !.switching = FALSE]
    BY DEF OnEvent, OnLoginCompleted, OnAccountUpdated
  <2>2. CASE hook' = hook
    BY <1>2, <2>2 DEF TypeOK
  <2>3. CASE hook' = Cleared
    BY <1>2, <2>3, ClearedType
  <2>4. CASE hook' = [hook EXCEPT !.switching = FALSE]
    BY <1>2, <2>4 DEF TypeOK
  <2> QED BY <2>1, <2>2, <2>3, <2>4
<1>5. \A n \in Starts : (Begun(n)' <=> Begun(n)) /\ (Busy(n)' => Busy(n))
  BY <1>1 DEF Begun, Busy
<1>6. (\A i \in 1..Len(events) : Begun(events[i].login))'
  BY <1>2, <1>3, <1>5
<1>7. /\ NothingBefore' /\ OverlapsAreKnown' /\ HandlesAreOwn' /\ SignalsHaveReasons'
      /\ \A n \in Starts : (n \in dismissed \/ Overlapped(n)) => (n \in dismissed \/ Overlapped(n))'
  BY <1>1, <1>5, <1>6, HookKeeps
<1>8. CancelsAreAimed'
  BY <1>1, <1>5, <1>7, AimsStay
<1>9. CallsAreAwaited'
  BY <1>1 DEF IInv, CallsAreAwaited, OnItsWay, Begun, Underway
<1>10. HookKnows'
  BY <1>1, <1>4 DEF IInv, HookKnows, Begun
<1>11. TypeOK'
  BY <1>1, <1>3, <1>4 DEF IInv, TypeOK, BackendTypeOK
<1> QED BY <1>7, <1>8, <1>9, <1>10, <1>11 DEF IInv

\* The start of a login: whatever is still to come of another is an overlap.
LEMMA SwitchAccountKeeps ==
  ASSUME IInv, NEW n \in Starts, SwitchAccount(n)
  PROVE  IInv'
<1>1. /\ ~Begun(n) /\ flows' = [flows EXCEPT ![n] = "calling"]
      /\ starts' = [starts EXCEPT ![n].ws = hook.active, ![n].pc = "called"]
      /\ UNCHANGED <<handles, cancels, logins, events, session, disturbances, dismissed>>
  BY DEF SwitchAccount, Begun
<1>2. /\ hook.active \in Workspaces /\ starts \in [Starts -> StartCall]
      /\ flows \in [Starts -> {"none", "calling", "opening", "canceling", "page", "over"}]
  BY DEF IInv, TypeOK, BackendTypeOK
<1>3. /\ hook' \in [active : Workspaces, switching : BOOLEAN, canceled : BOOLEAN,
                    loginId : {NoLogin} \cup Starts,
                    loginWs : Workspaces \cup {NoWorkspace}]
      /\ hook'.loginWs = hook.active
  BY DEF SwitchAccount, IInv, TypeOK
<1>4. starts' \in [Starts -> StartCall]
  <2>1. [starts EXCEPT ![n].ws = hook.active, ![n].pc = "called"] \in [Starts -> StartCall]
    BY <1>2, StartUpdates DEF Pcs
  <2> QED BY <1>1, <2>1
<1>5. /\ starts'[n].ws = hook.active /\ starts'[n].pc = "called"
      /\ starts'[n].signal = starts[n].signal /\ starts'[n].request = starts[n].request
      /\ \A k \in Starts \ {n} : starts'[k] = starts[k]
  BY <1>1, <1>2 DEF StartCall
<1>6. /\ flows' \in [Starts -> {"none", "calling", "opening", "canceling", "page", "over"}]
      /\ flows'[n] = "calling" /\ \A k \in Starts \ {n} : flows'[k] = flows[k]
  BY <1>1, <1>2
<1>7. /\ crossed' \in SUBSET (Starts \X Starts) /\ crossed \subseteq crossed'
      /\ \A k \in Starts : Alive(k) => <<n, k>> \in crossed' /\ <<k, n>> \in crossed'
      /\ \A j, k \in Starts : <<j, k>> \in crossed' =>
           <<j, k>> \in crossed \/ (j = n /\ Alive(k)) \/ (k = n /\ Alive(j))
  BY DEF SwitchAccount, IInv, TypeOK
<1>8. Begun(n)' /\ \A k \in Starts \ {n} : Begun(k)' <=> Begun(k)
  BY <1>6 DEF Begun
<1>9. \A k \in Starts : Alive(k) => Begun(k)
  <2> SUFFICES ASSUME NEW k \in Starts, Alive(k)
               PROVE  Begun(k)
    OBVIOUS
  <2>1. CASE \E i \in 1..Len(events) : events[i].login = k
    BY <2>1, EventsAreKnown
  <2>2. CASE logins[k] = "open" \/ starts[k].request = "sent"
    BY <2>2, BegunInWorkspace
  <2>3. CASE flows[k] \in {"calling", "opening", "canceling"} \/ flows[k] # "none"
    BY <2>3 DEF Begun
  <2> QED BY <2>1, <2>2, <2>3 DEF Alive
<1>10. \A j, k \in Starts : <<j, k>> \in crossed => Begun(j) /\ Begun(k)
  BY DEF IInv, OverlapsAreKnown
<1>11. ASSUME NEW k \in Starts, Overlapped(k)
       PROVE  Overlapped(k)'
  <2>1. PICK j \in Starts : <<k, j>> \in crossed /\ starts[j].ws = starts[k].ws
    BY <1>11 DEF Overlapped
  <2>2. j # n /\ k # n
    BY <1>1, <1>10, <2>1
  <2>3. starts'[j] = starts[j] /\ starts'[k] = starts[k] /\ <<k, j>> \in crossed'
    BY <1>5, <1>7, <2>1, <2>2
  <2> QED BY <2>1, <2>3 DEF Overlapped
<1>12. starts[n].request = "none" /\ starts[n].pc = "idle" /\ logins[n] = "none"
  BY <1>1 DEF IInv, NothingBefore
<1>13. TypeOK'
  BY <1>1, <1>3, <1>4, <1>6, <1>7 DEF IInv, TypeOK, BackendTypeOK
<1>14. NothingBefore'
  <2>1. (\A i \in 1..Len(events) : Begun(events[i].login))'
    BY <1>1, <1>8, EventsAreKnown
  <2>2. ASSUME NEW k \in Starts
        PROVE  /\ ~Begun(k)' => starts'[k].request = "none" /\ starts'[k].pc = "idle" /\ logins'[k] = "none"
               /\ starts'[k].pc = "called" => starts'[k].request = "none"
    <3>1. CASE k = n
      BY <1>5, <1>8, <1>12, <3>1
    <3>2. CASE k # n
      BY <1>1, <1>5, <1>8, <3>2 DEF IInv, NothingBefore
    <3> QED BY <3>1, <3>2
  <2> QED BY <2>1, <2>2 DEF NothingBefore
<1>15. CallsAreAwaited'
  <2>1. ASSUME NEW k \in Starts
        PROVE  /\ OnItsWay(k)' => flows'[k] = "calling"
               /\ Begun(k)' => starts'[k].ws \in Workspaces
    <3>1. CASE k = n
      BY <1>2, <1>5, <1>6, <3>1
    <3>2. CASE k # n
      <4>1. (OnItsWay(k)' <=> OnItsWay(k)) /\ (Begun(k)' <=> Begun(k))
        BY <1>5, <1>8, <3>2 DEF OnItsWay
      <4> QED BY <1>5, <1>6, <3>2, <4>1 DEF IInv, CallsAreAwaited
    <3> QED BY <3>1, <3>2
  <2>2. ASSUME NEW k \in Starts
        PROVE  /\ Underway(CancelOf(k))' => flows'[k] = "canceling"
               /\ cancels'[CancelOf(k)].pc = "called" =>
                    cancels'[CancelOf(k)].ws = starts'[k].ws
    <3>1. Underway(CancelOf(k)) => flows[k] = "canceling" /\ k # n
      BY <1>1 DEF IInv, CallsAreAwaited, Begun
    <3>2. cancels[CancelOf(k)].pc = "called" =>
            Underway(CancelOf(k)) /\ cancels[CancelOf(k)].ws = starts[k].ws
      BY DEF IInv, CallsAreAwaited, Underway
    <3>3. (Underway(CancelOf(k))' <=> Underway(CancelOf(k))) /\ cancels' = cancels
      BY <1>1 DEF Underway
    <3> QED BY <1>5, <1>6, <3>1, <3>2, <3>3
  <2>3. ASSUME NEW c \in Cancels
        PROVE  /\ cancels'[c].pc = "called" => cancels'[c].ws \in Workspaces
               /\ cancels'[c].pc = "asking" => cancels'[c].login \in Starts
    BY <1>1 DEF IInv, CallsAreAwaited
  <2> QED BY <2>1, <2>2, <2>3 DEF CallsAreAwaited, OnItsWay, Begun, Underway
<1>16. OverlapsAreKnown'
  <2>1. ASSUME NEW j \in Starts, NEW k \in Starts, <<j, k>> \in crossed'
        PROVE  Begun(j)' /\ Begun(k)'
    BY <1>7, <1>8, <1>9, <1>10, <2>1
  <2>2. ASSUME NEW j \in Starts, NEW k \in Starts, j # k, Busy(j)', Busy(k)'
        PROVE  <<j, k>> \in crossed'
    <3>1. \A i \in Starts \ {n} : Busy(i)' => Busy(i) /\ Alive(i)
      BY <1>6 DEF Busy, Alive
    <3>2. CASE j = n \/ k = n
      BY <1>7, <2>2, <3>1, <3>2
    <3>3. CASE j # n /\ k # n
      BY <1>7, <2>2, <3>1, <3>3 DEF IInv, OverlapsAreKnown
    <3> QED BY <3>2, <3>3
  <2> QED BY <2>1, <2>2 DEF OverlapsAreKnown
<1>17. HandlesAreOwn'
  <2>1. ASSUME NEW ws \in Workspaces, NEW k \in Starts, handles'[ws] = PendingStart(k)
        PROVE  starts'[k].ws = ws /\ Begun(k)'
    <3>1. starts[k].ws = ws /\ Begun(k)
      BY <1>1, <2>1 DEF IInv, HandlesAreOwn
    <3> QED BY <1>1, <1>5, <1>8, <3>1
  <2> QED BY <2>1 DEF HandlesAreOwn, PendingStart
<1>18. HookKnows'
  BY <1>2, <1>3, <1>5, <1>8, WorkspacesAssumption DEF HookKnows
<1>19. CancelsAreAimed'
  <2>1. ASSUME NEW c \in 1..MaxCancels, cancels'[c].pc = "called"
        PROVE  /\ \E k \in Starts : Begun(k)' /\ starts'[k].ws = cancels'[c].ws
               /\ \A k \in Starts : Begun(k)' /\ starts'[k].ws = cancels'[c].ws =>
                    (k \in dismissed \/ Overlapped(k))'
    <3>1. /\ cancels[c].pc = "called" /\ cancels' = cancels /\ c \in Cancels
          /\ \A k \in Starts : Begun(k) /\ starts[k].ws = cancels[c].ws =>
               k \in dismissed \/ Overlapped(k)
      BY <1>1, <2>1, CancelNumbers DEF IInv, CancelsAreAimed
    <3>2. PICK j \in Starts : Begun(j) /\ starts[j].ws = cancels[c].ws
      BY <3>1 DEF IInv, CancelsAreAimed
    <3>3. j # n /\ starts'[j] = starts[j] /\ Begun(j)'
      BY <1>1, <1>5, <1>8, <3>2
    <3>4. <<n, j>> \in crossed'
      <4>1. Alive(j)
        BY <3>1, <3>2 DEF Alive, Begun
      <4> QED BY <1>7, <4>1
    <3>5. ASSUME NEW k \in Starts, Begun(k)', starts'[k].ws = cancels'[c].ws
          PROVE  (k \in dismissed \/ Overlapped(k))'
      <4>1. CASE k = n
        BY <3>1, <3>2, <3>3, <3>4, <3>5, <4>1 DEF Overlapped
      <4>2. CASE k # n
        <5>1. k \in dismissed \/ Overlapped(k)
          BY <1>5, <1>8, <3>1, <3>5, <4>2
        <5> QED BY <1>1, <1>11, <5>1
      <4> QED BY <4>1, <4>2
    <3> QED BY <3>1, <3>2, <3>3, <3>5
  <2> QED BY <2>1 DEF CancelsAreAimed
<1>20. SignalsHaveReasons'
  <2>1. ASSUME NEW k \in Starts, starts'[k].signal # "none" \/ starts'[k].pc = "canceled"
        PROVE  Reason(k)'
    <3>1. starts[k].signal # "none" \/ starts[k].pc = "canceled"
      BY <1>5, <2>1
    <3>2. Reason(k)
      BY <3>1 DEF IInv, SignalsHaveReasons
    <3>3. starts[k].request = "dropped" => starts'[k].request = "dropped"
      BY <1>5
    <3> QED BY <1>1, <1>11, <3>2, <3>3 DEF Reason
  <2> QED BY <2>1 DEF SignalsHaveReasons
<1> QED BY <1>13, <1>14, <1>15, <1>16, <1>17, <1>18, <1>19, <1>20 DEF IInv

---------------------------------------------------------------------------
(* The invariant and what it implies. *)

\* At first nothing has begun.
LEMMA InitEstablishes == Init => IInv
<1> SUFFICES ASSUME Init PROVE IInv
  OBVIOUS
<1> USE DEF Init, BackendInit
<1>1. TypeOK
  <2>1. handles \in [Workspaces -> Handle]
    BY NoHandleType
  <2>2. starts \in [Starts -> StartCall] /\ cancels \in [Cancels -> CancelTask]
    BY DEF StartCall, CancelTask
  <2>3. /\ logins \in [Starts -> {"none", "open", "succeeded", "failed", "canceled"}]
        /\ events \in Seq(Notice) /\ session \in {"shared", "own", "lost"}
        /\ disturbances \in 0..MaxDisturbances
    BY LoginBoundAssumption
  <2>4. /\ hook \in [active : Workspaces, switching : BOOLEAN, canceled : BOOLEAN,
                     loginId : {NoLogin} \cup Starts,
                     loginWs : Workspaces \cup {NoWorkspace}]
        /\ flows \in [Starts -> {"none", "calling", "opening", "canceling", "page", "over"}]
        /\ dismissed \in SUBSET Starts /\ crossed \in SUBSET (Starts \X Starts)
    BY WorkspacesAssumption
  <2> QED BY <2>1, <2>2, <2>3, <2>4 DEF TypeOK, BackendTypeOK
<1>2. NothingBefore
  <2>1. Len(events) = 0
    OBVIOUS
  <2> QED BY <2>1 DEF NothingBefore
<1>3. CallsAreAwaited
  <2>1. \A n \in Starts : CancelOf(n) \in Cancels
    BY CancelNumbers
  <2>2. \A c \in Cancels : cancels[c].pc = "idle"
    OBVIOUS
  <2> QED BY <2>1, <2>2 DEF CallsAreAwaited, OnItsWay, Begun, Underway
<1>4. OverlapsAreKnown /\ HandlesAreOwn /\ HookKnows
  BY DEF OverlapsAreKnown, HandlesAreOwn, HookKnows, Busy, NoHandle, PendingStart
<1>5. CancelsAreAimed
  <2>1. \A c \in 1..MaxCancels : cancels[c].pc = "idle"
    BY CancelNumbers
  <2> QED BY <2>1 DEF CancelsAreAimed
<1>6. SignalsHaveReasons
  BY DEF SignalsHaveReasons
<1> QED BY <1>1, <1>2, <1>3, <1>4, <1>5, <1>6 DEF IInv

\* Every step keeps the invariant.
LEMMA StepKeeps == IInv /\ [Next]_vars => IInv'
<1> SUFFICES ASSUME IInv, [Next]_vars PROVE IInv'
  OBVIOUS
<1>1. CASE BackendStep
  BY <1>1, BackendStepKeeps
<1>2. CASE \E n \in Starts : SwitchAccount(n) \/ StartAnswered(n) \/ PageOpened(n) \/ SwitchFailed(n)
  BY <1>2, SwitchAccountKeeps, StartAnsweredKeeps, PageOpenedKeeps, SwitchFailedKeeps
<1>3. CASE \E c \in 1..MaxCancels : CancelSwitch(c)
  BY <1>3, CancelSwitchKeeps
<1>4. CASE \E c \in Cancels : CancelAnswered(c)
  BY <1>4, CancelAnsweredKeeps
<1>5. CASE \E ws \in Workspaces : SelectWorkspace(ws) \/ OnEvent(ws)
  BY <1>5, SelectWorkspaceKeeps, OnEventKeeps
<1>6. CASE UNCHANGED vars
  <2>1. UNCHANGED <<handles, starts, cancels, logins, events, session, disturbances,
                    hook, flows, dismissed, crossed>>
    BY <1>6 DEF vars, backendVars
  <2>2. TypeOK' /\ NothingBefore' /\ CallsAreAwaited'
    BY <2>1 DEF IInv, TypeOK, BackendTypeOK, NothingBefore, CallsAreAwaited, OnItsWay, Begun, Underway
  <2>3. OverlapsAreKnown' /\ HandlesAreOwn' /\ HookKnows'
    BY <2>1 DEF IInv, OverlapsAreKnown, HandlesAreOwn, HookKnows, Busy, Begun
  <2>4. CancelsAreAimed' /\ SignalsHaveReasons'
    BY <2>1 DEF IInv, CancelsAreAimed, SignalsHaveReasons, Reason, Overlapped, Begun
  <2> QED BY <2>2, <2>3, <2>4 DEF IInv
<1> QED BY <1>1, <1>2, <1>3, <1>4, <1>5, <1>6 DEF Next

\* Handles, calls, notifications and the hook's refs keep their types: what
\* codex_login_cancels, the commands and useAccountSwitching hold.
THEOREM TypeCorrect == Spec => []TypeOK
<1>1. IInv => TypeOK
  BY DEF IInv
<1> QED BY <1>1, InitEstablishes, StepKeeps, PTL DEF Spec

\* codex_login_core answers "canceled" only because the user canceled that
\* login, the app-server was lost, or another login of the same workspace
\* overlapped it: for every number of logins, cancels and workspaces.
THEOREM CanceledOnlyForReason == Spec => []CanceledForReason
<1>1. IInv => CanceledForReason
  BY DEF IInv, SignalsHaveReasons, CanceledForReason, Reason, Overlapped
<1> QED BY <1>1, InitEstablishes, StepKeeps, PTL DEF Spec

---------------------------------------------------------------------------
(* One login by itself: the invariant. *)

\* Something of login n is still to come, cancels of the user aside.
Lives(n) ==
  \/ Busy(n) \/ logins[n] = "open" \/ starts[n].request = "sent"
  \/ \E i \in 1..Len(events) : events[i].login = n
Ended(n) == logins[n] \notin {"none", "open"}

\* The start of login n is on its way, or its page is up; the login is not over.
Open(n) ==
  \/ flows[n] = "calling" /\ ~Ended(n)
  \/ flows[n] \in {"opening", "page"} /\ logins[n] = "open"

\* Two logins that live at a time overlap.
LivesOverlap ==
  \A n, k \in Starts : n # k /\ Lives(n) /\ Lives(k) => <<n, k>> \in crossed

\* A login opens while its request is out, its start answers later, and
\* notifications come last.
LoginsFollow ==
  /\ \A n \in Starts :
       /\ starts[n].request \in {"none", "sent"} => logins[n] = "none"
       /\ starts[n].pc \in {"answered", "ok"} => starts[n].request = "answered"
       /\ flows[n] \in {"opening", "page"} => starts[n].pc = "ok"
  /\ \A i \in 1..Len(events) : Ended(events[i].login)

\* The user cancels what has begun.
CancelsFollow ==
  /\ \A n \in dismissed : Begun(n)
  /\ \A c \in 1..MaxCancels : Underway(c) => \E n \in Starts : Begun(n)

\* The hook and the map know login n, and no cancel of the user is about to
\* make them forget it.
Reachable(n) ==
  /\ hook.loginWs = starts[n].ws
  /\ flows[n] # "calling" => hook.loginId = n
  /\ starts[n].pc = "ok" => handles[starts[n].ws] = LoginId(n)
  /\ \A c \in 1..MaxCancels : ~Underway(c)

\* An open login by itself is within the user's reach, or the hook remembers
\* that the user has canceled its start.
OpenIsWatched ==
  \A n \in Starts : Open(n) /\ ~Crossed(n) =>
    /\ n \notin dismissed => Reachable(n)
    /\ n \in dismissed /\ flows[n] = "calling" => hook.canceled

SoloInv == LivesOverlap /\ LoginsFollow /\ CancelsFollow /\ OpenIsWatched

\* Another login that lives overlaps an open one.
LEMMA OpenLives ==
  ASSUME SoloInv, NEW n \in Starts, Open(n), ~Crossed(n), NEW k \in Starts, Lives(k)
  PROVE  k = n
<1>1. Lives(n)
  BY DEF Open, Lives, Busy
<1> QED BY <1>1 DEF SoloInv, LivesOverlap, Crossed

\* No notification is about an open login.
LEMMA OpenIsUntold ==
  ASSUME IInv, SoloInv, NEW n \in Starts, Open(n), ~Crossed(n)
  PROVE  events = <<>>
<1>1. ASSUME NEW i \in 1..Len(events) PROVE FALSE
  <2>1. events[i].login \in Starts /\ Lives(events[i].login) /\ Ended(events[i].login)
    BY EventsAreKnown DEF Lives, SoloInv, LoginsFollow
  <2>2. events[i].login = n
    BY <2>1, OpenLives
  <2> QED BY <2>1, <2>2 DEF Open, Ended
<1> QED BY <1>1, EventsAreKnown

---------------------------------------------------------------------------
(* One login by itself: steps of the backend. *)

\* Whoever changes the handle of a workspace is a start on its way or a cancel.
HandlesSeen ==
  \A ws \in Workspaces :
    \/ handles'[ws] = handles[ws]
    \/ \E k \in Starts : OnItsWay(k) /\ starts[k].ws = ws
    \/ \E c \in Cancels : cancels[c].pc = "called"

\* A start goes on to its answer, and then has its login's id in the map.
StartsGoOn ==
  \A n \in Starts :
    /\ starts'[n].pc \in {"answered", "ok"} => starts'[n].request = "answered"
    /\ starts[n].pc = "ok" => starts'[n].pc = "ok"
    /\ starts'[n].pc = "ok" /\ starts[n].pc # "ok" =>
         OnItsWay(n) /\ handles'[starts[n].ws] = LoginId(n)

\* A login opens while its request is out, ends once, and is told of then.
LoginsGoOn ==
  /\ \A n \in Starts :
       /\ starts'[n].request = "sent" => starts[n].request = "sent" \/ OnItsWay(n)
       /\ logins'[n] = "open" => logins[n] = "open" \/ starts[n].request = "sent"
       /\ Ended(n) => logins'[n] = logins[n]
       /\ starts'[n].request \in {"none", "sent"} => logins'[n] = "none"
  /\ \A i \in 1..Len(events') :
       /\ logins'[events'[i].login] \notin {"none", "open"}
       /\ \/ logins[events'[i].login] = "open"
          \/ \E j \in 1..Len(events) : events[j].login = events'[i].login

BackendGoesOn == HandlesSeen /\ StartsGoOn /\ LoginsGoOn

\* What the backend does keeps the rest of the invariant.
LEMMA BackendKeepsSolo ==
  ASSUME IInv, SoloInv, BackendEffect, BackendGoesOn,
         UNCHANGED <<hook, flows, dismissed, crossed>>
  PROVE  SoloInv'
<1>1. ASSUME NEW n \in Starts, Lives(n)' PROVE Lives(n)
  <2>1. OnItsWay(n) => Lives(n)
    BY DEF IInv, CallsAreAwaited, Lives, Busy
  <2>2. CASE Busy(n)' \/ logins'[n] = "open" \/ starts'[n].request = "sent"
    BY <2>1, <2>2 DEF BackendGoesOn, LoginsGoOn, Lives, Busy
  <2>3. CASE \E i \in 1..Len(events') : events'[i].login = n
    BY <2>3 DEF BackendGoesOn, LoginsGoOn, Lives
  <2> QED BY <1>1, <2>2, <2>3 DEF Lives
<1>2. LivesOverlap'
  BY <1>1 DEF SoloInv, LivesOverlap
<1>3. LoginsFollow'
  <2>1. \A n \in Starts :
          /\ starts'[n].request \in {"none", "sent"} => logins'[n] = "none"
          /\ starts'[n].pc \in {"answered", "ok"} => starts'[n].request = "answered"
    BY DEF BackendGoesOn, StartsGoOn, LoginsGoOn
  <2>2. \A n \in Starts : flows'[n] \in {"opening", "page"} => starts'[n].pc = "ok"
    BY DEF SoloInv, LoginsFollow, BackendGoesOn, StartsGoOn
  <2>3. (\A i \in 1..Len(events) : Ended(events[i].login))'
    BY DEF BackendGoesOn, LoginsGoOn, Ended
  <2> QED BY <2>1, <2>2, <2>3 DEF LoginsFollow
<1>4. \A c \in 1..MaxCancels : Underway(c)' => Underway(c)
  BY CancelNumbers DEF BackendEffect, CancelsMove
<1>5. CancelsFollow'
  BY <1>4 DEF SoloInv, CancelsFollow, Begun
<1>6. ASSUME NEW n \in Starts, Open(n)', ~Crossed(n)'
      PROVE  /\ n \notin dismissed' => Reachable(n)'
             /\ n \in dismissed' /\ flows'[n] = "calling" => hook'.canceled
  <2>1. Open(n) /\ ~Crossed(n)
    <3>1. Ended(n) => Ended(n)'
      BY DEF BackendGoesOn, LoginsGoOn, Ended
    <3>2. flows[n] \in {"opening", "page"} => starts[n].request # "sent"
      BY DEF SoloInv, LoginsFollow
    <3> QED BY <1>6, <3>1, <3>2 DEF BackendGoesOn, LoginsGoOn, Open, Crossed
  <2>2. starts'[n].ws = starts[n].ws /\ starts[n].ws \in Workspaces
    BY <2>1 DEF BackendEffect, StartsMove, IInv, CallsAreAwaited, Open, Begun
  <2>3. ASSUME n \notin dismissed PROVE Reachable(n)'
    <3>1. Reachable(n)
      BY <2>1, <2>3 DEF SoloInv, OpenIsWatched
    <3>2. ASSUME starts'[n].pc = "ok" PROVE handles'[starts[n].ws] = LoginId(n)
      <4>1. CASE starts[n].pc # "ok"
        BY <3>2, <4>1 DEF BackendGoesOn, StartsGoOn
      <4>2. CASE starts[n].pc = "ok"
        <5>1. handles[starts[n].ws] = LoginId(n)
          BY <3>1, <4>2 DEF Reachable
        <5>2. ASSUME NEW k \in Starts, OnItsWay(k), starts[k].ws = starts[n].ws PROVE FALSE
          <6>1. Lives(k)
            BY <5>2 DEF IInv, CallsAreAwaited, Lives, Busy
          <6>2. k = n
            BY <2>1, <6>1, OpenLives
          <6> QED BY <4>2, <5>2, <6>2 DEF OnItsWay
        <5>3. ASSUME NEW c \in Cancels, cancels[c].pc = "called" PROVE FALSE
          <6>1. c \notin 1..MaxCancels
            BY <3>1, <5>3 DEF Reachable, Underway
          <6>2. PICK k \in Starts : c = CancelOf(k)
            BY <6>1, CancelNumbers, LoginBoundAssumption DEF Cancels
          <6>3. flows[k] = "canceling"
            BY <5>3, <6>2 DEF IInv, CallsAreAwaited, Underway
          <6>4. k = n
            BY <2>1, <6>3, OpenLives DEF Lives, Busy
          <6> QED BY <2>1, <6>3, <6>4 DEF Open
        <5> QED BY <2>2, <5>1, <5>2, <5>3 DEF BackendGoesOn, HandlesSeen
      <4> QED BY <4>1, <4>2
    <3> QED BY <1>4, <2>2, <3>1, <3>2 DEF Reachable
  <2> QED BY <2>1, <2>3 DEF SoloInv, OpenIsWatched
<1>7. OpenIsWatched'
  BY <1>6 DEF OpenIsWatched
<1> QED BY <1>2, <1>3, <1>5, <1>7 DEF SoloInv

\* A start that moves alone: another start's flow and request do not change.
LEMMA OneStartGoesOn ==
  ASSUME IInv, SoloInv, UNCHANGED <<logins, events>>, NEW n \in Starts, OnItsWay(n),
         \A k \in Starts \ {n} : /\ starts'[k].pc = starts[k].pc
                                 /\ starts'[k].request = starts[k].request,
         \/ starts'[n].request = starts[n].request
         \/ starts'[n].request = "sent" /\ starts[n].pc = "called",
         starts'[n].pc \in {"answered", "ok"} => starts'[n].request = "answered",
         \A ws \in Workspaces : ws # starts[n].ws => handles'[ws] = handles[ws],
         starts'[n].pc = "ok" => handles'[starts[n].ws] = LoginId(n)
  PROVE  BackendGoesOn
<1>1. StartsGoOn
  BY DEF StartsGoOn, SoloInv, LoginsFollow, OnItsWay
<1>2. HandlesSeen
  BY DEF HandlesSeen
<1>3. LoginsGoOn
  <2>1. ASSUME NEW k \in Starts
        PROVE  /\ starts'[k].request = "sent" => starts[k].request = "sent" \/ OnItsWay(k)
               /\ starts'[k].request \in {"none", "sent"} => logins'[k] = "none"
    <3>1. starts[k].pc = "called" => starts[k].request = "none"
      BY DEF IInv, NothingBefore
    <3> QED BY <3>1 DEF SoloInv, LoginsFollow
  <2>2. \A i \in 1..Len(events) : logins[events[i].login] \notin {"none", "open"}
    BY DEF SoloInv, LoginsFollow, Ended
  <2> QED BY <2>1, <2>2 DEF LoginsGoOn
<1> QED BY <1>1, <1>2, <1>3 DEF BackendGoesOn

\* The calls of codex_login_core.
LEMMA RegisterGoesOn ==
  ASSUME IInv, SoloInv, NEW n \in Starts, Register(n)
  PROVE  BackendGoesOn
<1> DEFINE ws == starts[n].ws
           R == Release(handles[ws], "sent")
<1>1. /\ starts \in [Starts -> StartCall] /\ handles \in [Workspaces -> Handle]
      /\ OnItsWay(n) /\ starts[n].pc = "called" /\ UNCHANGED <<logins, events>>
  BY DEF IInv, TypeOK, BackendTypeOK, Register, OnItsWay
<1>2. /\ R \in [Starts -> StartCall]
      /\ \A k \in Starts : R[k].pc = starts[k].pc /\ R[k].request = starts[k].request
  BY <1>1, ReleaseFacts DEF Signals
<1>3. \/ starts' = [starts EXCEPT ![n].pc = "failed"] /\ UNCHANGED handles
      \/ /\ handles' = [handles EXCEPT ![ws] = PendingStart(n)]
         /\ starts' = [R EXCEPT ![n].pc = "waiting", ![n].request = "sent"]
  BY DEF Register
<1> HIDE DEF R
<1>4. /\ \A k \in Starts \ {n} : /\ starts'[k].pc = starts[k].pc
                                 /\ starts'[k].request = starts[k].request
      /\ starts'[n].pc \in {"failed", "waiting"}
      /\ starts'[n].request \in {starts[n].request, "sent"}
  BY <1>1, <1>2, <1>3 DEF StartCall
<1>5. \A w \in Workspaces : w # ws => handles'[w] = handles[w]
  BY <1>1, <1>3
<1> QED BY <1>1, <1>4, <1>5, OneStartGoesOn

\* As RemoveAndEnd and KeepLoginId leave starts and handles.
LEMMA EndGoesOn ==
  ASSUME IInv, SoloInv, UNCHANGED <<logins, events>>, NEW n \in Starts, OnItsWay(n),
         NEW pc \in {"ok", "canceled", "failed"}, NEW h,
         pc = "ok" => starts[n].pc = "answered" /\ h = LoginId(n),
         starts' = [Release(handles[starts[n].ws], "closed") EXCEPT
                       ![n].pc = pc, ![n].signal = "none"],
         handles' = [handles EXCEPT ![starts[n].ws] = h]
  PROVE  BackendGoesOn
<1> DEFINE ws == starts[n].ws
           R == Release(handles[ws], "closed")
<1>1. /\ starts \in [Starts -> StartCall] /\ handles \in [Workspaces -> Handle]
      /\ ws \in Workspaces
  BY BegunInWorkspace DEF IInv, TypeOK, BackendTypeOK
<1>2. /\ R \in [Starts -> StartCall]
      /\ \A k \in Starts : R[k].pc = starts[k].pc /\ R[k].request = starts[k].request
  BY <1>1, ReleaseFacts DEF Signals
<1>3. starts' = [R EXCEPT ![n].pc = pc, ![n].signal = "none"]
  OBVIOUS
<1> HIDE DEF R
<1>4. /\ \A k \in Starts \ {n} : /\ starts'[k].pc = starts[k].pc
                                 /\ starts'[k].request = starts[k].request
      /\ starts'[n].pc = pc /\ starts'[n].request = starts[n].request
  BY <1>1, <1>2, <1>3 DEF StartCall
<1>5. /\ handles'[ws] = h
      /\ \A w \in Workspaces : w # ws => handles'[w] = handles[w]
  BY <1>1
<1>6. starts'[n].pc = "ok" => starts'[n].request = "answered" /\ handles'[ws] = LoginId(n)
  BY <1>4, <1>5 DEF SoloInv, LoginsFollow
<1> QED BY <1>4, <1>5, <1>6, OneStartGoesOn

LEMMA StartEndsGoOn ==
  ASSUME IInv, SoloInv, NEW n \in Starts,
         NoticeCancel(n) \/ StartTimeout(n) \/ KeepLoginId(n)
  PROVE  BackendGoesOn
<1>1. OnItsWay(n) /\ UNCHANGED <<logins, events>>
  BY DEF NoticeCancel, StartTimeout, KeepLoginId, OnItsWay
<1>2. CASE NoticeCancel(n)
  BY <1>1, <1>2, EndGoesOn DEF NoticeCancel, RemoveAndEnd
<1>3. CASE StartTimeout(n)
  BY <1>1, <1>3, EndGoesOn DEF StartTimeout, RemoveAndEnd
<1>4. CASE KeepLoginId(n)
  BY <1>1, <1>4, EndGoesOn DEF KeepLoginId
<1> QED BY <1>2, <1>3, <1>4

LEMMA ReceiveGoesOn ==
  ASSUME IInv, SoloInv, NEW n \in Starts, Receive(n)
  PROVE  BackendGoesOn
<1> DEFINE pc == CASE starts[n].request = "answered" -> "answered"
                   [] starts[n].request = "failed" -> "failed"
                   [] OTHER -> "canceled"
<1>1. /\ starts \in [Starts -> StartCall] /\ OnItsWay(n)
      /\ starts' = [starts EXCEPT ![n].pc = pc, ![n].signal = "none"]
      /\ UNCHANGED <<handles, logins, events>>
  BY DEF IInv, TypeOK, BackendTypeOK, Receive, OnItsWay
<1>2. /\ pc \in {"answered", "failed", "canceled"}
      /\ pc = "answered" => starts[n].request = "answered"
  BY DEF Receive
<1> HIDE DEF pc
<1>3. /\ \A k \in Starts \ {n} : starts'[k] = starts[k]
      /\ starts'[n].pc = pc /\ starts'[n].request = starts[n].request
  BY <1>1 DEF StartCall
<1> QED BY <1>1, <1>2, <1>3, OneStartGoesOn

\* A cancel takes the handle of its workspace.
LEMMA TakeHandleGoesOn ==
  ASSUME IInv, SoloInv, NEW c \in Cancels, TakeHandle(c)
  PROVE  BackendGoesOn
<1> DEFINE R == Release(handles[cancels[c].ws], "sent")
<1>1. /\ starts \in [Starts -> StartCall] /\ cancels[c].pc = "called"
      /\ starts' = R /\ UNCHANGED <<logins, events>>
  BY DEF IInv, TypeOK, BackendTypeOK, TakeHandle
<1>2. \A k \in Starts : R[k].pc = starts[k].pc /\ R[k].request = starts[k].request
  BY <1>1, ReleaseFacts DEF Signals
<1> HIDE DEF R
<1>3. StartsGoOn
  BY <1>1, <1>2 DEF StartsGoOn, SoloInv, LoginsFollow
<1>4. HandlesSeen
  BY <1>1 DEF HandlesSeen
<1>5. LoginsGoOn
  BY <1>1, <1>2 DEF LoginsGoOn, SoloInv, LoginsFollow, Ended
<1> QED BY <1>3, <1>4, <1>5 DEF BackendGoesOn

\* The app-server answers a request.
LEMMA OpenLoginGoesOn ==
  ASSUME IInv, SoloInv, NEW n \in Starts, OpenLogin(n)
  PROVE  BackendGoesOn
<1>1. /\ starts \in [Starts -> StartCall] /\ starts[n].request = "sent"
      /\ logins \in [Starts -> {"none", "open", "succeeded", "failed", "canceled"}]
      /\ logins[n] = "none" /\ UNCHANGED <<handles, events>>
  BY DEF IInv, TypeOK, BackendTypeOK, OpenLogin, SoloInv, LoginsFollow
<1>2. \/ /\ logins' = [logins EXCEPT ![n] = "open"]
         /\ starts' = [starts EXCEPT ![n].request = "answered"]
      \/ /\ UNCHANGED logins
         /\ starts' = [starts EXCEPT ![n].request = "failed"]
  BY DEF OpenLogin
<1>3. /\ \A k \in Starts \ {n} : starts'[k] = starts[k] /\ logins'[k] = logins[k]
      /\ starts'[n].pc = starts[n].pc
      /\ \/ starts'[n].request = "answered" /\ logins'[n] = "open"
         \/ starts'[n].request = "failed" /\ logins'[n] = "none"
  BY <1>1, <1>2 DEF StartCall
<1>4. starts[n].pc \notin {"answered", "ok"}
  BY <1>1 DEF SoloInv, LoginsFollow
<1>5. StartsGoOn
  BY <1>3, <1>4 DEF StartsGoOn, SoloInv, LoginsFollow
<1>6. HandlesSeen
  BY <1>1 DEF HandlesSeen
<1>7. \A i \in 1..Len(events) : events[i].login \in Starts \ {n} /\ Ended(events[i].login)
  BY <1>1, EventsAreKnown DEF SoloInv, LoginsFollow, Ended
<1>8. LoginsGoOn
  <2>1. \A i \in 1..Len(events') :
          /\ logins'[events'[i].login] \notin {"none", "open"}
          /\ \E j \in 1..Len(events) : events[j].login = events'[i].login
    BY <1>1, <1>3, <1>7 DEF Ended
  <2>2. \A k \in Starts : starts'[k].request \in {"none", "sent"} => logins'[k] = "none"
    BY <1>3 DEF SoloInv, LoginsFollow
  <2> QED BY <1>1, <1>3, <2>1, <2>2 DEF LoginsGoOn, Ended
<1> QED BY <1>5, <1>6, <1>8 DEF BackendGoesOn

\* The app-server ends a login and tells of it.
LEMMA TellingGoesOn ==
  ASSUME IInv, SoloInv, UNCHANGED <<handles, starts>>,
         NEW n \in Starts, logins[n] = "open",
         NEW r \in {"succeeded", "failed", "canceled"},
         logins' = [logins EXCEPT ![n] = r],
         \/ events' = Append(events, Told("completed", n, FALSE))
         \/ events' = events \o <<Told("completed", n, TRUE), Told("updated", n, TRUE)>>
  PROVE  BackendGoesOn
<1>1. /\ events \in Seq(Notice)
      /\ \A i \in 1..Len(events) : events[i].login \in Starts \ {n} /\ Ended(events[i].login)
  BY EventsAreKnown DEF SoloInv, LoginsFollow, Ended
<1>2. /\ logins'[n] = r /\ \A k \in Starts \ {n} : logins'[k] = logins[k]
  BY DEF IInv, TypeOK, BackendTypeOK
<1>3. \A i \in 1..Len(events') :
        \/ events'[i].login = n
        \/ \E j \in 1..Len(events) : events[j].login = events'[i].login
  <2>1. CASE events' = Append(events, Told("completed", n, FALSE))
    <3> DEFINE e == Told("completed", n, FALSE)
    <3>1. e.login = n
      BY DEF Told
    <3>2. events' = Append(events, e)
      BY <2>1
    <3> HIDE DEF e
    <3>3. /\ Len(events') = Len(events) + 1 /\ events'[Len(events) + 1] = e
          /\ \A i \in 1..Len(events) : events'[i] = events[i]
      BY <1>1, <3>2
    <3> QED BY <1>1, <3>1, <3>3
  <2>2. CASE events' = events \o <<Told("completed", n, TRUE), Told("updated", n, TRUE)>>
    <3> DEFINE d == Told("completed", n, TRUE)
               e == Told("updated", n, TRUE)
    <3>1. d.login = n /\ e.login = n
      BY DEF Told
    <3>2. events' = events \o <<d, e>>
      BY <2>2
    <3> HIDE DEF d, e
    <3>3. /\ Len(events') = Len(events) + 2
          /\ events'[Len(events) + 1] = d /\ events'[Len(events) + 2] = e
          /\ \A i \in 1..Len(events) : events'[i] = events[i]
      BY <1>1, <3>2
    <3>4. ASSUME NEW i \in 1..Len(events')
          PROVE  i \in 1..Len(events) \/ i = Len(events) + 1 \/ i = Len(events) + 2
      BY <1>1, <3>3
    <3> QED BY <1>1, <3>1, <3>3, <3>4
  <2> QED BY <2>1, <2>2
<1>4. \A i \in 1..Len(events') :
        /\ logins'[events'[i].login] \notin {"none", "open"}
        /\ \/ logins[events'[i].login] = "open"
           \/ \E j \in 1..Len(events) : events[j].login = events'[i].login
  BY <1>1, <1>2, <1>3 DEF Ended
<1>5. LoginsGoOn
  <2>1. \A k \in Starts : starts'[k].request \in {"none", "sent"} => logins'[k] = "none"
    BY <1>2 DEF SoloInv, LoginsFollow
  <2> QED BY <1>2, <1>4, <2>1 DEF LoginsGoOn, Ended
<1>6. StartsGoOn /\ HandlesSeen
  BY DEF StartsGoOn, HandlesSeen, SoloInv, LoginsFollow
<1> QED BY <1>5, <1>6 DEF BackendGoesOn

LEMMA EndLoginGoesOn ==
  ASSUME IInv, SoloInv, NEW n \in Starts, EndLogin(n)
  PROVE  BackendGoesOn
<1>1. UNCHANGED <<handles, starts>> /\ logins[n] = "open"
  BY DEF EndLogin
<1>2. CASE /\ logins' = [logins EXCEPT ![n] = "succeeded"]
           /\ events' = events \o <<Told("completed", n, TRUE), Told("updated", n, TRUE)>>
  BY <1>1, <1>2, TellingGoesOn
<1>3. CASE /\ logins' = [logins EXCEPT ![n] = "failed"]
           /\ events' = Append(events, Told("completed", n, FALSE))
  BY <1>1, <1>3, TellingGoesOn
<1> QED BY <1>2, <1>3 DEF EndLogin

LEMMA ServeCancelGoesOn ==
  ASSUME IInv, SoloInv, NEW c \in Cancels, ServeCancel(c)
  PROVE  BackendGoesOn
<1> DEFINE n == cancels[c].login
<1>1. UNCHANGED <<handles, starts>> /\ cancels[c].pc = "asking"
  BY DEF ServeCancel
<1>2. CASE UNCHANGED <<logins, events>>
  BY <1>1, <1>2 DEF BackendGoesOn, StartsGoOn, HandlesSeen, LoginsGoOn, SoloInv, LoginsFollow, Ended
<1>3. CASE /\ logins[n] = "open"
           /\ logins' = [logins EXCEPT ![n] = "canceled"]
           /\ events' = Append(events, Told("completed", n, FALSE))
  <2>1. n \in Starts
    BY <1>1 DEF IInv, CallsAreAwaited
  <2> QED BY <1>1, <1>3, <2>1, TellingGoesOn
<1> QED BY <1>2, <1>3 DEF ServeCancel

\* The app-server exits.
LEMMA LoseSessionGoesOn ==
  ASSUME IInv, SoloInv, LoseSession
  PROVE  BackendGoesOn
<1>1. /\ starts \in [Starts -> StartCall] /\ UNCHANGED <<handles, events>>
      /\ \A k \in Starts : logins'[k] = IF logins[k] = "open" THEN "failed" ELSE logins[k]
  BY DEF IInv, TypeOK, BackendTypeOK, LoseSession
<1>2. ASSUME NEW k \in Starts
      PROVE  /\ starts'[k].pc = starts[k].pc
             /\ \/ starts'[k].request = starts[k].request
                \/ starts[k].request = "sent" /\ starts'[k].request = "dropped"
  <2>1. starts[k] \in StartCall
    BY <1>1
  <2>2. \/ starts'[k] = starts[k]
        \/ starts[k].request = "sent" /\ starts'[k] = [starts[k] EXCEPT !.request = "dropped"]
    BY DEF LoseSession
  <2> QED BY <2>1, <2>2 DEF StartCall
<1>3. StartsGoOn /\ HandlesSeen
  BY <1>1, <1>2 DEF StartsGoOn, HandlesSeen, SoloInv, LoginsFollow
<1>4. \A i \in 1..Len(events) : events[i].login \in Starts /\ Ended(events[i].login)
  BY EventsAreKnown DEF SoloInv, LoginsFollow
<1>5. LoginsGoOn
  <2>1. \A k \in Starts : /\ starts'[k].request = "sent" => starts[k].request = "sent"
                          /\ starts'[k].request \in {"none", "sent"} => logins'[k] = "none"
    BY <1>1, <1>2 DEF SoloInv, LoginsFollow
  <2> QED BY <1>1, <1>4, <2>1 DEF LoginsGoOn, Ended
<1> QED BY <1>3, <1>5 DEF BackendGoesOn

\* The backend keeps the rest of the invariant.
LEMMA BackendStepKeepsSolo ==
  ASSUME IInv, SoloInv, BackendStep
  PROVE  SoloInv'
<1>1. BackendGoesOn
  <2>1. CASE \E n \in Starts : \/ Register(n) \/ NoticeCancel(n) \/ StartTimeout(n)
                               \/ Receive(n) \/ KeepLoginId(n)
                               \/ OpenLogin(n) \/ EndLogin(n)
    BY <2>1, RegisterGoesOn, StartEndsGoOn, ReceiveGoesOn, OpenLoginGoesOn, EndLoginGoesOn
  <2>2. CASE \E c \in Cancels : TakeHandle(c) \/ ServeCancel(c)
    BY <2>2, TakeHandleGoesOn, ServeCancelGoesOn
  <2>3. CASE LoseSession
    BY <2>3, LoseSessionGoesOn
  <2> QED BY <2>1, <2>2, <2>3 DEF BackendStep, Backend
<1> QED BY <1>1, BackendStepEffect, BackendKeepsSolo DEF BackendStep

---------------------------------------------------------------------------
(* One login by itself: steps of the hook. *)

\* What no step of the hook but the start of a login disturbs.
LEMMA HookKeepsLives ==
  ASSUME IInv, SoloInv, UNCHANGED <<starts, logins, crossed>>,
         \A n \in Starts : /\ Busy(n)' => Busy(n)
                           /\ flows'[n] \in {"opening", "page"} =>
                                flows[n] \in {"opening", "page"} \/ starts[n].pc = "ok",
         \A i \in 1..Len(events') :
           \E j \in 1..Len(events) : events'[i].login = events[j].login
  PROVE  LivesOverlap' /\ LoginsFollow'
<1>1. \A n \in Starts : Lives(n)' => Lives(n)
  BY DEF Lives
<1>2. LivesOverlap'
  BY <1>1 DEF SoloInv, LivesOverlap
<1>3. (\A i \in 1..Len(events) : Ended(events[i].login))'
  BY DEF SoloInv, LoginsFollow, Ended
<1>4. LoginsFollow'
  BY <1>3 DEF SoloInv, LoginsFollow
<1> QED BY <1>2, <1>4

\* What the user has canceled began, also where flows go on.
LEMMA CancelsFollowOn ==
  ASSUME IInv, SoloInv, UNCHANGED dismissed,
         \A n \in Starts : Begun(n) => Begun(n)',
         \A c \in 1..MaxCancels : Underway(c)' => Underway(c)
  PROVE  CancelsFollow'
<1>1. dismissed \subseteq Starts
  BY DEF IInv, TypeOK
<1> QED BY <1>1 DEF SoloInv, CancelsFollow

\* The queue of a step that leaves it alone.
LEMMA SameQueue ==
  ASSUME UNCHANGED events
  PROVE  \A i \in 1..Len(events') :
           \E j \in 1..Len(events) : events'[i].login = events[j].login
OBVIOUS

\* A flow that awaits something is the open login's own.
LEMMA BusyIsOpen ==
  ASSUME SoloInv, NEW n \in Starts, Open(n), ~Crossed(n), NEW k \in Starts, Busy(k)
  PROVE  k = n
<1>1. Lives(k)
  BY DEF Lives
<1> QED BY <1>1, OpenLives

\* The user goes to another workspace: the refs of the login stay.
LEMMA SelectWorkspaceKeepsSolo ==
  ASSUME IInv, SoloInv, NEW ws \in Workspaces, SelectWorkspace(ws)
  PROVE  SoloInv'
<1>1. /\ UNCHANGED <<handles, starts, cancels, logins, events, session, flows, dismissed, crossed>>
      /\ hook'.loginWs = hook.loginWs /\ hook'.loginId = hook.loginId
      /\ hook'.canceled = hook.canceled
  BY DEF SelectWorkspace, IInv, TypeOK
<1>2. LivesOverlap' /\ LoginsFollow'
  BY <1>1, SameQueue, HookKeepsLives DEF Busy
<1>3. CancelsFollow'
  BY <1>1, CancelsFollowOn DEF Begun, Underway
<1>4. OpenIsWatched'
  BY <1>1 DEF SoloInv, OpenIsWatched, Open, Ended, Crossed, Reachable, Underway
<1> QED BY <1>2, <1>3, <1>4 DEF SoloInv

\* The user cancels: an open login is the one the refs name, or canceled before.
LEMMA CancelSwitchKeepsSolo ==
  ASSUME IInv, SoloInv, NEW c \in 1..MaxCancels, CancelSwitch(c)
  PROVE  SoloInv'
<1>1. /\ UNCHANGED <<handles, starts, logins, events, session, flows, crossed>>
      /\ hook'.canceled
  BY DEF CancelSwitch, IInv, TypeOK
<1>2. PICK k \in Starts : Begun(k) /\ starts[k].ws = hook.loginWs
  BY DEF CancelSwitch, IInv, HookKnows
<1>3. hook.loginWs # NoWorkspace
  BY <1>2, WorkspacesAssumption DEF IInv, CallsAreAwaited
<1>4. dismissed' = dismissed \cup {n \in Starts : Begun(n) /\ starts[n].ws = hook.loginWs}
  BY <1>3 DEF CancelSwitch, Begun
<1>5. LivesOverlap' /\ LoginsFollow'
  BY <1>1, SameQueue, HookKeepsLives DEF Busy
<1>6. CancelsFollow'
  BY <1>1, <1>2, <1>4 DEF SoloInv, CancelsFollow, Begun
<1>7. ASSUME NEW n \in Starts, Open(n)', ~Crossed(n)'
      PROVE  n \in dismissed'
  <2>1. Open(n) /\ ~Crossed(n) /\ Begun(n)
    BY <1>1, <1>7 DEF Open, Ended, Crossed, Begun
  <2>2. n \in dismissed \/ hook.loginWs = starts[n].ws
    BY <2>1 DEF SoloInv, OpenIsWatched, Reachable
  <2> QED BY <1>4, <2>1, <2>2
<1>8. OpenIsWatched'
  BY <1>1, <1>7 DEF OpenIsWatched
<1> QED BY <1>5, <1>6, <1>8 DEF SoloInv

\* The start of a login has answered: the page opens only if the hook does not
\* remember a cancel.
LEMMA StartAnsweredKeepsSolo ==
  ASSUME IInv, SoloInv, NEW k \in Starts, StartAnswered(k)
  PROVE  SoloInv'
<1>1. /\ UNCHANGED <<handles, starts, logins, events, dismissed, crossed>>
      /\ flows[k] = "calling" /\ starts[k].pc = "ok"
      /\ hook'.loginId = k /\ hook'.loginWs = hook.loginWs /\ hook'.canceled = hook.canceled
  BY DEF StartAnswered, IInv, TypeOK
<1>2. /\ \A n \in Starts \ {k} : flows'[n] = flows[n]
      /\ \/ flows'[k] = "canceling"
         \/ flows'[k] = "opening" /\ ~hook.canceled
  BY DEF StartAnswered, IInv, TypeOK
<1>3. \A c \in 1..MaxCancels : cancels'[c] = cancels[c]
  <2>1. CancelOf(k) \notin 1..MaxCancels
    BY CancelNumbers
  <2>2. UNCHANGED cancels \/ CancelCall(CancelOf(k), starts[k].ws)
    BY DEF StartAnswered
  <2> QED BY <2>1, <2>2, CancelNumbers DEF CancelCall, IInv, TypeOK, BackendTypeOK
<1>4. \A n \in Starts : (Begun(n)' <=> Begun(n)) /\ (Busy(n)' => Busy(n))
  BY <1>1, <1>2 DEF Begun, Busy
<1>5. LivesOverlap' /\ LoginsFollow'
  BY <1>1, <1>2, <1>4, SameQueue, HookKeepsLives
<1>6. CancelsFollow'
  BY <1>1, <1>3, <1>4, CancelsFollowOn DEF Underway
<1>7. ASSUME NEW n \in Starts, Open(n)', ~Crossed(n)'
      PROVE  n \notin dismissed' /\ Reachable(n)'
  <2>1. Open(n) /\ ~Crossed(n)
    BY <1>1, <1>2, <1>7 DEF Open, Ended, Crossed
  <2>2. n = k
    BY <1>1, <2>1, BusyIsOpen DEF Busy
  <2>3. flows'[n] = "opening" /\ n \notin dismissed
    BY <1>1, <1>2, <1>7, <2>1, <2>2 DEF Open, SoloInv, OpenIsWatched
  <2>4. Reachable(n)
    BY <2>1, <2>3 DEF SoloInv, OpenIsWatched
  <2> QED BY <1>1, <1>3, <2>2, <2>3, <2>4 DEF Reachable, Underway
<1>8. OpenIsWatched'
  <2>1. \A n \in Starts : Open(n)' /\ ~Crossed(n)' => n \notin dismissed' /\ Reachable(n)'
    BY <1>7
  <2> QED BY <2>1 DEF OpenIsWatched
<1> QED BY <1>5, <1>6, <1>8 DEF SoloInv

\* The page of a login is open.
LEMMA PageOpenedKeepsSolo ==
  ASSUME IInv, SoloInv, NEW k \in Starts, PageOpened(k)
  PROVE  SoloInv'
<1>1. /\ UNCHANGED <<handles, starts, cancels, logins, events, hook, dismissed, crossed>>
      /\ flows[k] = "opening" /\ flows'[k] = "page"
      /\ \A n \in Starts \ {k} : flows'[n] = flows[n]
  BY DEF PageOpened, backendVars, IInv, TypeOK
<1>2. \A n \in Starts : (Begun(n)' <=> Begun(n)) /\ (Busy(n)' => Busy(n))
  BY <1>1 DEF Begun, Busy
<1>3. LivesOverlap' /\ LoginsFollow'
  BY <1>1, <1>2, SameQueue, HookKeepsLives
<1>4. CancelsFollow'
  BY <1>1, <1>2, CancelsFollowOn DEF Underway
<1>5. ASSUME NEW n \in Starts
      PROVE  /\ Open(n)' => Open(n)
             /\ Crossed(n)' <=> Crossed(n)
             /\ Reachable(n) => Reachable(n)'
             /\ flows'[n] = "calling" => flows[n] = "calling"
  BY <1>1 DEF Open, Ended, Crossed, Reachable, Underway
<1>6. OpenIsWatched'
  BY <1>1, <1>5 DEF SoloInv, OpenIsWatched
<1> QED BY <1>3, <1>4, <1>6 DEF SoloInv

\* The catch of a flow: its login is no longer an open one of the user's.
LEMMA SwitchFailedKeepsSolo ==
  ASSUME IInv, SoloInv, NEW k \in Starts, SwitchFailed(k)
  PROVE  SoloInv'
<1>1. /\ UNCHANGED <<handles, starts, logins, events, dismissed, crossed>>
      /\ flows[k] \in {"calling", "opening"} /\ flows'[k] \in {"over", "canceling"}
      /\ \A n \in Starts \ {k} : flows'[n] = flows[n]
  BY DEF SwitchFailed, IInv, TypeOK
<1>2. \A c \in 1..MaxCancels : cancels'[c] = cancels[c]
  <2>1. CancelOf(k) \notin 1..MaxCancels
    BY CancelNumbers
  <2>2. UNCHANGED cancels \/ CancelCall(CancelOf(k), starts[k].ws)
    BY DEF SwitchFailed
  <2> QED BY <2>1, <2>2, CancelNumbers DEF CancelCall, IInv, TypeOK, BackendTypeOK
<1>3. \A n \in Starts : (Begun(n)' <=> Begun(n)) /\ (Busy(n)' => Busy(n))
  BY <1>1 DEF Begun, Busy
<1>4. LivesOverlap' /\ LoginsFollow'
  BY <1>1, <1>3, SameQueue, HookKeepsLives
<1>5. CancelsFollow'
  BY <1>1, <1>2, <1>3, CancelsFollowOn DEF Underway
<1>6. ASSUME NEW n \in Starts, Open(n)', ~Crossed(n)'
      PROVE  FALSE
  <2>1. n # k /\ Open(n) /\ ~Crossed(n)
    BY <1>1, <1>6 DEF Open, Ended, Crossed
  <2> QED BY <1>1, <2>1, BusyIsOpen DEF Busy
<1>7. OpenIsWatched'
  BY <1>6 DEF OpenIsWatched
<1> QED BY <1>4, <1>5, <1>7 DEF SoloInv

\* A cancel has answered: the user's leaves the flag, and a flow's own is not
\* about an open login.
LEMMA CancelAnsweredKeepsSolo ==
  ASSUME IInv, SoloInv, NEW c \in Cancels, CancelAnswered(c)
  PROVE  SoloInv'
<1>1. /\ UNCHANGED <<handles, starts, logins, events, dismissed, crossed>>
      /\ Underway(c) /\ ~Underway(c)'
      /\ \A d \in Cancels \ {c} : cancels'[d] = cancels[d]
  BY DEF CancelAnswered, Underway, IInv, TypeOK, BackendTypeOK
<1>2. \A n \in Starts : \/ flows'[n] = flows[n]
                        \/ c = CancelOf(n) /\ flows'[n] = "over"
  BY DEF CancelAnswered, IInv, TypeOK
<1>3. \A n \in Starts : c = CancelOf(n) => flows[n] = "canceling"
  BY <1>1 DEF IInv, CallsAreAwaited
<1>4. \A n \in Starts : (Begun(n)' <=> Begun(n)) /\ (Busy(n)' => Busy(n))
  BY <1>2, <1>3 DEF Begun, Busy
<1>5. LivesOverlap' /\ LoginsFollow'
  BY <1>1, <1>2, <1>4, SameQueue, HookKeepsLives
<1>6. CancelsFollow'
  <2>1. \A d \in 1..MaxCancels : Underway(d)' => Underway(d)
    BY <1>1, CancelNumbers DEF Underway
  <2> QED BY <1>1, <1>4, <2>1, CancelsFollowOn
<1>7. ASSUME NEW n \in Starts, Open(n)', ~Crossed(n)'
      PROVE  n \in dismissed' /\ (flows'[n] = "calling" => hook'.canceled)
  <2>1. Open(n) /\ ~Crossed(n) /\ flows'[n] = flows[n]
    BY <1>1, <1>2, <1>7 DEF Open, Ended, Crossed
  <2>2. c \in 1..MaxCancels
    <3>1. ASSUME NEW k \in Starts, c = CancelOf(k) PROVE FALSE
      <4>1. k = n
        BY <1>3, <2>1, <3>1, BusyIsOpen DEF Busy
      <4> QED BY <1>3, <2>1, <3>1, <4>1 DEF Open
    <3>2. c \in 1..MaxCancels \/ c > MaxCancels
      BY LoginBoundAssumption DEF Cancels
    <3> QED BY <3>1, <3>2, CancelNumbers
  <2>3. hook'.canceled = hook.canceled
    <3>1. c <= MaxCancels /\ hook' = [Cleared EXCEPT !.canceled = hook.canceled]
      BY <2>2, LoginBoundAssumption DEF CancelAnswered
    <3>2. TypeOK
      BY DEF IInv
    <3> QED BY <3>1, <3>2, ClearedType
  <2>4. n \in dismissed
    BY <1>1, <2>1, <2>2 DEF SoloInv, OpenIsWatched, Reachable
  <2> QED BY <1>1, <2>1, <2>3, <2>4 DEF SoloInv, OpenIsWatched
<1>8. OpenIsWatched'
  BY <1>7 DEF OpenIsWatched
<1> QED BY <1>5, <1>6, <1>8 DEF SoloInv

\* A notification is never about an open login by itself.
LEMMA OnEventKeepsSolo ==
  ASSUME IInv, SoloInv, NEW ws \in Workspaces, OnEvent(ws)
  PROVE  SoloInv'
<1>1. /\ UNCHANGED <<handles, starts, cancels, logins, flows, dismissed, crossed>>
      /\ events # <<>>
  BY DEF OnEvent
<1>2. \A i \in 1..Len(events') :
        \E j \in 1..Len(events) : events'[i].login = events[j].login
  <2> DEFINE rest == Head(events).to \ {ws}
  <2>1. events \in Seq(Notice) /\ rest \in SUBSET Workspaces
    <3>1. events \in Seq(Notice)
      BY EventsAreKnown
    <3>2. Head(events) \in Notice
      BY <1>1, <3>1
    <3> QED BY <3>1, <3>2 DEF Notice
  <2>2. \/ events' = Tail(events)
        \/ events' = <<[Head(events) EXCEPT !.to = rest]>> \o Tail(events)
    BY DEF OnEvent
  <2> HIDE DEF rest
  <2> QED BY <1>1, <2>1, <2>2, QueueAfterCopy
<1>3. LivesOverlap' /\ LoginsFollow'
  BY <1>1, <1>2, HookKeepsLives DEF Busy
<1>4. CancelsFollow'
  BY <1>1, CancelsFollowOn DEF Begun, Underway
<1>5. ASSUME NEW n \in Starts, Open(n)', ~Crossed(n)'
      PROVE  FALSE
  <2>1. Open(n) /\ ~Crossed(n)
    BY <1>1, <1>5 DEF Open, Ended, Crossed
  <2> QED BY <1>1, <2>1, OpenIsUntold
<1>6. OpenIsWatched'
  BY <1>5 DEF OpenIsWatched
<1> QED BY <1>3, <1>4, <1>6 DEF SoloInv

\* The start of a login overlaps whatever lives.
LEMMA SwitchAccountKeepsSolo ==
  ASSUME IInv, SoloInv, NEW n \in Starts, SwitchAccount(n)
  PROVE  SoloInv'
<1>1. /\ ~Begun(n)
      /\ UNCHANGED <<handles, cancels, logins, events, dismissed>>
  BY DEF SwitchAccount, Begun
<1>2. /\ flows'[n] = "calling" /\ \A k \in Starts \ {n} : flows'[k] = flows[k]
      /\ starts'[n].ws = hook.active /\ starts'[n].pc = "called"
      /\ starts'[n].request = starts[n].request
      /\ \A k \in Starts \ {n} : starts'[k] = starts[k]
  BY DEF SwitchAccount, IInv, TypeOK, BackendTypeOK, StartCall
<1>3. hook'.loginWs = hook.active
  BY DEF SwitchAccount, IInv, TypeOK
<1>4. /\ crossed \subseteq crossed'
      /\ \A k \in Starts : Alive(k) => <<n, k>> \in crossed' /\ <<k, n>> \in crossed'
  BY DEF SwitchAccount
<1>5. starts[n].request = "none" /\ logins[n] = "none" /\ n \notin dismissed
  BY <1>1 DEF IInv, NothingBefore, SoloInv, CancelsFollow
<1>6. ASSUME NEW k \in Starts \ {n}
      PROVE  (Lives(k)' <=> Lives(k)) /\ (Lives(k) => Alive(k)) /\ (Open(k)' <=> Open(k))
  BY <1>1, <1>2, <1>6 DEF Lives, Alive, Busy, Open, Ended
<1>7. LivesOverlap'
  BY <1>4, <1>6 DEF SoloInv, LivesOverlap
<1>8. LoginsFollow'
  <2>1. ASSUME NEW k \in Starts
        PROVE  /\ starts'[k].request \in {"none", "sent"} => logins'[k] = "none"
               /\ starts'[k].pc \in {"answered", "ok"} => starts'[k].request = "answered"
               /\ flows'[k] \in {"opening", "page"} => starts'[k].pc = "ok"
    BY <1>1, <1>2, <1>5 DEF SoloInv, LoginsFollow
  <2>2. (\A i \in 1..Len(events) : Ended(events[i].login))'
    BY <1>1 DEF SoloInv, LoginsFollow, Ended
  <2> QED BY <2>1, <2>2 DEF LoginsFollow
<1>9. CancelsFollow'
  <2>1. \A k \in Starts : Begun(k) => Begun(k)'
    BY <1>2 DEF Begun
  <2>2. \A c \in 1..MaxCancels : Underway(c)' <=> Underway(c)
    BY <1>1 DEF Underway
  <2> QED BY <1>1, <2>1, <2>2, CancelsFollowOn
<1>10. ASSUME NEW k \in Starts, Open(k)', ~Crossed(k)'
       PROVE  k = n /\ Reachable(k)'
  <2>1. k = n
    <3>1. Open(k) => Lives(k)
      BY DEF Open, Lives, Busy
    <3> QED BY <1>4, <1>6, <1>10, <3>1 DEF Crossed
  <2>2. ASSUME NEW c \in 1..MaxCancels PROVE ~Underway(c)
    <3>1. Underway(c) => \E j \in Starts : Alive(j)
      BY CancelNumbers DEF SoloInv, CancelsFollow, Underway, Begun, Alive
    <3> QED BY <1>4, <1>10, <2>1, <3>1 DEF Crossed
  <2> QED BY <1>1, <1>2, <1>3, <2>1, <2>2 DEF Reachable, Underway
<1>11. OpenIsWatched'
  BY <1>1, <1>5, <1>10 DEF OpenIsWatched
<1> QED BY <1>7, <1>8, <1>9, <1>11 DEF SoloInv

---------------------------------------------------------------------------
(* One login by itself: what the invariant implies. *)

\* At first no login lives.
LEMMA InitSolo == Init => SoloInv
<1> SUFFICES ASSUME Init PROVE SoloInv
  OBVIOUS
<1> USE DEF Init, BackendInit
<1>1. \A n \in Starts : ~Lives(n)
  BY DEF Lives, Busy
<1>2. LivesOverlap
  BY <1>1 DEF LivesOverlap
<1>3. LoginsFollow
  <2>1. Len(events) = 0
    OBVIOUS
  <2> QED BY <2>1 DEF LoginsFollow
<1>4. CancelsFollow
  <2>1. \A c \in 1..MaxCancels : cancels[c].pc = "idle"
    BY CancelNumbers
  <2> QED BY <2>1 DEF CancelsFollow, Underway
<1>5. OpenIsWatched
  BY DEF OpenIsWatched, Open
<1> QED BY <1>2, <1>3, <1>4, <1>5 DEF SoloInv

\* Every step keeps it.
LEMMA StepKeepsSolo == IInv /\ SoloInv /\ [Next]_vars => SoloInv'
<1> SUFFICES ASSUME IInv, SoloInv, [Next]_vars PROVE SoloInv'
  OBVIOUS
<1>1. CASE BackendStep
  BY <1>1, BackendStepKeepsSolo
<1>2. CASE \E n \in Starts : SwitchAccount(n) \/ StartAnswered(n) \/ PageOpened(n) \/ SwitchFailed(n)
  BY <1>2, SwitchAccountKeepsSolo, StartAnsweredKeepsSolo, PageOpenedKeepsSolo,
     SwitchFailedKeepsSolo
<1>3. CASE \E c \in 1..MaxCancels : CancelSwitch(c)
  BY <1>3, CancelSwitchKeepsSolo
<1>4. CASE \E c \in Cancels : CancelAnswered(c)
  BY <1>4, CancelAnsweredKeepsSolo
<1>5. CASE \E ws \in Workspaces : SelectWorkspace(ws) \/ OnEvent(ws)
  BY <1>5, SelectWorkspaceKeepsSolo, OnEventKeepsSolo
<1>6. CASE UNCHANGED vars
  <2>1. UNCHANGED <<handles, starts, cancels, logins, events, session, disturbances,
                    hook, flows, dismissed, crossed>>
    BY <1>6 DEF vars, backendVars
  <2>2. LivesOverlap' /\ LoginsFollow'
    BY <2>1, SameQueue, HookKeepsLives DEF Busy
  <2>3. CancelsFollow'
    BY <2>1, CancelsFollowOn DEF Begun, Underway
  <2>4. OpenIsWatched'
    BY <2>1 DEF SoloInv, OpenIsWatched, Open, Ended, Crossed, Reachable, Underway
  <2> QED BY <2>2, <2>3, <2>4 DEF SoloInv
<1> QED BY <1>1, <1>2, <1>3, <1>4, <1>5, <1>6 DEF Next

\* A page opens where a start has answered and the hook remembers no cancel.
LEMMA PageOpensUncanceled ==
  ASSUME IInv, [Next]_vars, NEW n \in Starts, flows[n] = "calling", flows'[n] = "opening"
  PROVE  ~hook.canceled
<1>1. flows \in [Starts -> {"none", "calling", "opening", "canceling", "page", "over"}]
  BY DEF IInv, TypeOK
<1>2. CASE \E k \in Starts : StartAnswered(k)
  BY <1>1, <1>2 DEF StartAnswered
<1>3. CASE \E k \in Starts : SwitchAccount(k) \/ PageOpened(k) \/ SwitchFailed(k)
  BY <1>1, <1>3 DEF SwitchAccount, PageOpened, SwitchFailed
<1>4. CASE \E c \in Cancels : CancelAnswered(c)
  BY <1>1, <1>4 DEF CancelAnswered
<1>5. CASE UNCHANGED flows
  BY <1>5
<1>6. CASE \/ BackendStep \/ UNCHANGED vars
           \/ \E c \in 1..MaxCancels : CancelSwitch(c)
           \/ \E ws \in Workspaces : SelectWorkspace(ws) \/ OnEvent(ws)
  BY <1>5, <1>6 DEF BackendStep, vars, CancelSwitch, SelectWorkspace, OnEvent
<1> QED BY <1>2, <1>3, <1>4, <1>6 DEF Next

\* While a login whose page was opened is open at the app-server and overlaps no
\* other, a cancel would reach it: the refs of useAccountSwitching name its
\* workspace and id, whatever workspace is selected, and codex_login_cancels
\* holds its id.
THEOREM LoginsCanBeCanceled == Spec => []LoginCanBeCanceled
<1>1. SoloInv => LoginCanBeCanceled
  <2> SUFFICES ASSUME SoloInv, NEW n \in Starts \ dismissed, flows[n] \in {"opening", "page"},
                      logins[n] = "open", ~Crossed(n)
               PROVE  /\ hook.loginId = n /\ hook.loginWs = starts[n].ws
                      /\ handles[starts[n].ws] = LoginId(n)
    BY DEF LoginCanBeCanceled
  <2>1. Reachable(n) /\ starts[n].pc = "ok"
    BY DEF SoloInv, OpenIsWatched, LoginsFollow, Open
  <2> QED BY <2>1 DEF Reachable
<1> QED BY <1>1, InitEstablishes, InitSolo, StepKeeps, StepKeepsSolo, PTL DEF Spec

\* handleSwitchAccount opens no page for an open login that the user has
\* canceled since its start, unless it overlaps another: accountSwitchCanceledRef
\* is still set when the start answers.
THEOREM PagesAreWanted == Spec => PageIsWanted
<1>1. IInv /\ SoloInv /\ [Next]_vars =>
        [\A n \in dismissed :
           flows[n] = "calling" /\ flows'[n] = "opening" /\ logins[n] = "open"
             => Crossed(n)]_vars
  <2> SUFFICES ASSUME IInv, SoloInv, [Next]_vars, NEW n \in dismissed,
                      flows[n] = "calling", flows'[n] = "opening", logins[n] = "open",
                      ~Crossed(n)
               PROVE  FALSE
    OBVIOUS
  <2>1. n \in Starts
    BY DEF IInv, TypeOK
  <2>2. ~hook.canceled
    BY <2>1, PageOpensUncanceled
  <2> QED BY <2>1, <2>2 DEF SoloInv, OpenIsWatched, Open, Ended
<1> QED BY <1>1, InitEstablishes, InitSolo, StepKeeps, StepKeepsSolo, PTL DEF Spec, PageIsWanted
=============================================================================
