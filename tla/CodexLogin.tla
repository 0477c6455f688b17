----------------------------- MODULE CodexLogin -----------------------------
(***************************************************************************)
(* The backend of the ChatGPT login: codex_login_core starts a login at    *)
(* the app-server of a workspace and can be canceled while it waits;       *)
(* codex_login_cancel_core cancels whatever login its workspace has.  The  *)
(* two meet in one map, codex_login_cancels, with one handle a workspace:  *)
(* the sender that cancels a start, or the id of a started login.  Every   *)
(* call is a task of its own and holds the map's lock for one access.      *)
(*                                                                         *)
(* The n-th start of a login is named n, and so is the login it opens at   *)
(* the app-server.  That server is external: it opens a login per request, *)
(* also for a start that gave up, ends every login it opened, and tells    *)
(* the end to all workspaces of its session.                               *)
(***************************************************************************)
EXTENDS Naturals, Sequences

CONSTANTS
  Workspaces,
  Home,          \* the one the user has selected at first
  NoWorkspace,   \* null
  MaxStarts,     \* bound: how many logins are started
  MaxCancels,    \* bound: how often the user cancels
  MaxDisturbances \* bound: how many cancels and changes of workspace by the
                 \* user, failures and losses a behaviour has

ASSUME WorkspacesAssumption == Home \in Workspaces /\ NoWorkspace \notin Workspaces
ASSUME LoginBoundAssumption == 
  MaxStarts \in Nat /\ MaxCancels \in Nat /\ MaxDisturbances \in Nat

VARIABLES
  handles,   \* codex_login_cancels: workspace -> handle
  starts,    \* the calls of codex_login_core
  cancels,   \* the calls of codex_login_cancel_core
  logins,    \* external: what the app-server made of each login
  events,    \* its notifications on their way to the frontend
  session,   \* external: one session of all workspaces, one each, or "lost"
  disturbances \* how many of the bounded steps have happened

backendVars == <<handles, starts, cancels, logins, events, session, disturbances>>

Starts == 1..MaxStarts
NoLogin == 0

\* The user's cancels, then one call for each start: the hook cancels a login
\* itself at most once.
Cancels == 1..(MaxCancels + MaxStarts)
CancelOf(n) == MaxCancels + n

NoHandle == [kind |-> "none", n |-> NoLogin]
PendingStart(n) == [kind |-> "start", n |-> n]
LoginId(n) == [kind |-> "login", n |-> n]

BackendInit ==
  /\ handles = [ws \in Workspaces |-> NoHandle]
  /\ starts = [n \in Starts |-> [ws |-> NoWorkspace, pc |-> "idle",
                                 signal |-> "none", request |-> "none"]]
  /\ cancels = [c \in Cancels |-> [ws |-> NoWorkspace, pc |-> "idle",
                                   login |-> NoLogin]]
  /\ logins = [n \in Starts |-> "none"]
  /\ events = <<>>
  /\ session \in {"shared", "own"}
  /\ disturbances = 0

Disturb == disturbances < MaxDisturbances /\ disturbances' = disturbances + 1

---------------------------------------------------------------------------
(* The map of handles. *)

\* Mutant: whatever start is waiting is told.
ReleaseAll(h, how) ==
  [n \in Starts |->
     IF h.kind # "login" /\ starts[n].pc = "waiting" /\ starts[n].signal = "none"
     THEN [starts[n] EXCEPT !.signal = how] ELSE starts[n]]

\* A start's sender leaves the map: it signals (how = "sent") or is dropped
\* ("closed").  Nothing more reaches a start that has its signal or is over.
Release(h, how) ==
  [n \in Starts |->
     IF h = PendingStart(n) /\ starts[n].pc = "waiting" /\ starts[n].signal = "none"
     THEN [starts[n] EXCEPT !.signal = how] ELSE starts[n]]

\* The start ends and removes its workspace's handle, whosever it is.
RemoveAndEnd(n, result) ==
  LET ws == starts[n].ws
  IN  /\ handles' = [handles EXCEPT ![ws] = NoHandle]
      /\ starts' = [Release(handles[ws], "closed") EXCEPT
                       ![n].pc = result, ![n].signal = "none"]

---------------------------------------------------------------------------
(* codex_login_core. *)

\* The call finds no session, or takes its place in the map, which cancels a
\* start that still waits there, and sends its request.
Register(n) ==
  /\ starts[n].pc = "called"
  /\ LET ws == starts[n].ws
     IN  \/ /\ session = "lost"
            /\ starts' = [starts EXCEPT ![n].pc = "failed"]
            /\ UNCHANGED handles
         \/ /\ session # "lost"
            /\ handles' = [handles EXCEPT ![ws] = PendingStart(n)]
            /\ starts' = [Release(handles[ws], "sent") EXCEPT
                            ![n].pc = "waiting", ![n].request = "sent"]
  /\ UNCHANGED <<cancels, logins, events, session, disturbances>>

\* Its tick: the sender has signalled, or was dropped.
NoticeCancel(n) ==
  /\ starts[n].pc = "waiting" /\ starts[n].signal # "none"
  /\ RemoveAndEnd(n, "canceled")
  /\ UNCHANGED <<cancels, logins, events, session, disturbances>>

StartTimeout(n) ==
  /\ starts[n].pc = "waiting" /\ starts[n].signal = "none"
  /\ RemoveAndEnd(n, "failed")
  /\ UNCHANGED <<cancels, logins, events, session, disturbances>>

\* The response ends the wait before the signal is looked at; a failure leaves
\* the handle, and reads as a cancel when the session is what was lost.
Receive(n) ==
  /\ starts[n].pc = "waiting"
  /\ starts[n].request \in {"answered", "failed", "dropped"}
  /\ starts' = [starts EXCEPT
       ![n].pc = CASE starts[n].request = "answered" -> "answered"
                   [] starts[n].request = "failed" -> "failed"
                   [] OTHER -> "canceled",
       ![n].signal = "none"]
  /\ UNCHANGED <<handles, cancels, logins, events, session, disturbances>>

\* The login's id replaces whatever handle the workspace has.
KeepLoginId(n) ==
  /\ starts[n].pc = "answered"
  /\ LET ws == starts[n].ws
     IN  /\ handles' = [handles EXCEPT ![ws] = LoginId(n)]
         /\ starts' = [Release(handles[ws], "closed") EXCEPT ![n].pc = "ok",
                                                         ![n].signal = "none"]
  /\ UNCHANGED <<cancels, logins, events, session, disturbances>>

---------------------------------------------------------------------------
(* codex_login_cancel_core. *)

TakeHandle(c) ==
  /\ cancels[c].pc = "called"
  /\ LET ws == cancels[c].ws
         h == handles[ws]
     IN  /\ handles' = [handles EXCEPT ![ws] = NoHandle]
         /\ starts' = Release(h, "sent")
         /\ cancels' = [cancels EXCEPT
              ![c].pc = IF h.kind = "login" /\ session # "lost" THEN "asking"
                        ELSE "answered",
              ![c].login = IF h.kind = "login" THEN h.n ELSE NoLogin]
  /\ UNCHANGED <<logins, events, session, disturbances>>

---------------------------------------------------------------------------
(* External: the app-server. *)

\* A notification about an account reaches every workspace of the session.
Told(kind, n, success) ==
  [kind |-> kind, login |-> n, success |-> success,
   to |-> IF session = "shared" THEN Workspaces ELSE {starts[n].ws}]

OpenLogin(n) ==
  /\ starts[n].request = "sent" /\ session # "lost"
  /\ \/ /\ logins' = [logins EXCEPT ![n] = "open"]
        /\ starts' = [starts EXCEPT ![n].request = "answered"]
        /\ UNCHANGED disturbances
     \/ /\ Disturb
        /\ starts' = [starts EXCEPT ![n].request = "failed"]
        /\ UNCHANGED logins
  /\ UNCHANGED <<handles, cancels, events, session>>

\* The user finishes the login in the browser, which takes the address that the
\* start answers, or it expires.
EndLogin(n) ==
  /\ logins[n] = "open"
  /\ \/ /\ starts[n].pc = "ok"
        /\ logins' = [logins EXCEPT ![n] = "succeeded"]
        /\ events' = events \o <<Told("completed", n, TRUE), Told("updated", n, TRUE)>>
     \/ /\ logins' = [logins EXCEPT ![n] = "failed"]
        /\ events' = Append(events, Told("completed", n, FALSE))
  /\ UNCHANGED <<handles, starts, cancels, session, disturbances>>

\* account/login/cancel: the request fails, finds the login over, or ends it.
ServeCancel(c) ==
  /\ cancels[c].pc = "asking"
  /\ cancels' = [cancels EXCEPT ![c].pc = "answered"]
  /\ LET n == cancels[c].login
     IN  \/ /\ IF logins[n] = "open" THEN Disturb ELSE UNCHANGED disturbances
            /\ UNCHANGED <<logins, events>>
         \/ /\ logins[n] = "open" /\ UNCHANGED disturbances
            /\ logins' = [logins EXCEPT ![n] = "canceled"]
            /\ events' = Append(events, Told("completed", n, FALSE))
  /\ UNCHANGED <<handles, starts, session>>

\* The app-server exits: its logins end with nobody told, its requests are
\* dropped.
LoseSession ==
  /\ session # "lost" /\ Disturb
  /\ session' = "lost"
  /\ logins' = [n \in Starts |-> IF logins[n] = "open" THEN "failed" ELSE logins[n]]
  /\ starts' = [n \in Starts |->
       IF starts[n].request = "sent" THEN [starts[n] EXCEPT !.request = "dropped"]
       ELSE starts[n]]
  /\ cancels' = [c \in Cancels |->
       IF cancels[c].pc = "asking" THEN [cancels[c] EXCEPT !.pc = "answered"]
       ELSE cancels[c]]
  /\ UNCHANGED <<handles, events>>

Backend ==
  \/ \E n \in Starts : \/ Register(n) \/ NoticeCancel(n) \/ StartTimeout(n)
                       \/ Receive(n) \/ KeepLoginId(n)
                       \/ OpenLogin(n) \/ EndLogin(n)
  \/ \E c \in Cancels : TakeHandle(c) \/ ServeCancel(c)
  \/ LoseSession

Handle == [kind : {"none"}, n : {NoLogin}] \cup [kind : {"start", "login"}, n : Starts]
StartCall ==
  [ws : Workspaces \cup {NoWorkspace},
   pc : {"idle", "called", "waiting", "answered", "ok", "canceled", "failed"},
   signal : {"none", "sent", "closed"},
   request : {"none", "sent", "answered", "failed", "dropped"}]
CancelTask ==
  [ws : Workspaces \cup {NoWorkspace},
   pc : {"idle", "called", "asking", "answered", "over"},
   login : {NoLogin} \cup Starts]
Notice ==
  [kind : {"completed", "updated"}, login : Starts, success : BOOLEAN,
   to : SUBSET Workspaces]

\* Handles, calls, logins and notifications have the fields the code gives them.
BackendTypeOK ==
  /\ handles \in [Workspaces -> Handle]
  /\ starts \in [Starts -> StartCall]
  /\ cancels \in [Cancels -> CancelTask]
  /\ logins \in [Starts -> {"none", "open", "succeeded", "failed", "canceled"}]
  /\ events \in Seq(Notice)
  /\ session \in {"shared", "own", "lost"}
  /\ disturbances \in 0..MaxDisturbances
=============================================================================
