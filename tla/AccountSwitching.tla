-------------------------- MODULE AccountSwitching --------------------------
(***************************************************************************)
(* The account switch of the sidebar (useAccountSwitching) over the login  *)
(* backend: the user starts a login in the selected workspace, the login   *)
(* page opens in the browser when the start answers, and the indicator     *)
(* shows until a notification ends the login or the user cancels it.  The  *)
(* refs of the hook are one set for all workspaces.  A render follows each *)
(* update at once: accountSwitchingRef is accountSwitching.                *)
(***************************************************************************)
EXTENDS CodexLogin

VARIABLES
  hook,       \* the hook's state and refs
  flows,      \* handleSwitchAccount, call by call, and its page
  dismissed,  \* history: starts the user canceled
  crossed     \* history: pairs of logins whose lives overlapped

vars == <<backendVars, hook, flows, dismissed, crossed>>

Init ==
  /\ BackendInit
  /\ hook = [active |-> Home, switching |-> FALSE, canceled |-> FALSE,
             loginId |-> NoLogin, loginWs |-> NoWorkspace]
  /\ flows = [n \in Starts |-> "none"]
  /\ dismissed = {} /\ crossed = {}

---------------------------------------------------------------------------
(* What an overlap is. *)

\* Something of the login is still to come: its call, a cancel, its end.
Alive(n) ==
  \/ flows[n] \in {"calling", "opening", "canceling"}
  \/ logins[n] = "open" \/ starts[n].request = "sent"
  \/ \E i \in 1..Len(events) : events[i].login = n
  \/ /\ flows[n] # "none"
     /\ \E c \in Cancels : cancels[c].pc \in {"called", "asking", "answered"}

Crossed(n) == \E k \in Starts : <<n, k>> \in crossed

---------------------------------------------------------------------------
(* The user. *)

\* The refs of a login that is over, as every end of a call leaves them.
Cleared == [hook EXCEPT !.switching = FALSE, !.canceled = FALSE,
                        !.loginId = NoLogin, !.loginWs = NoWorkspace]

CancelCall(c, ws) ==
  cancels' = [cancels EXCEPT ![c] = [ws |-> ws, pc |-> "called", login |-> NoLogin]]

SwitchAccount(n) ==
  /\ flows[n] = "none" /\ \A k \in 1..(n - 1) : flows[k] # "none"
  /\ ~hook.switching
  /\ hook' = [hook EXCEPT !.switching = TRUE, !.canceled = FALSE,
                          !.loginId = NoLogin, !.loginWs = hook.active]
  /\ flows' = [flows EXCEPT ![n] = "calling"]
  /\ starts' = [starts EXCEPT ![n].ws = hook.active, ![n].pc = "called"]
  /\ crossed' = crossed \cup {<<n, k>> : k \in {k \in Starts : Alive(k)}}
                        \cup {<<k, n>> : k \in {k \in Starts : Alive(k)}}
  /\ UNCHANGED <<handles, cancels, logins, events, session, disturbances, dismissed>>

CancelSwitch(c) ==
  /\ cancels[c].pc = "idle" /\ \A d \in 1..(c - 1) : cancels[d].pc # "idle"
  /\ Disturb
  /\ hook.switching \/ hook.loginWs # NoWorkspace
  /\ LET ws == IF hook.loginWs # NoWorkspace THEN hook.loginWs ELSE hook.active
     IN  /\ CancelCall(c, ws)
         /\ dismissed' = dismissed \cup
              {n \in Starts : flows[n] # "none" /\ starts[n].ws = ws}
  /\ hook' = [hook EXCEPT !.canceled = TRUE]
  /\ UNCHANGED <<handles, starts, logins, events, session, flows, crossed>>

\* Mutant: leaving the workspace forgets its login.
SelectWorkspaceAndForget(ws) ==
  /\ Disturb
  /\ ws # hook.active
  /\ hook' = [Cleared EXCEPT !.active = ws]
  /\ UNCHANGED <<handles, starts, cancels, logins, events, session, flows, dismissed, crossed>>

\* The indicator does not follow the user to another workspace.
SelectWorkspace(ws) ==
  /\ Disturb
  /\ ws # hook.active
  /\ hook' = [hook EXCEPT !.active = ws,
                !.switching = @ /\ hook.loginWs \in {NoWorkspace, ws}]
  /\ UNCHANGED <<handles, starts, cancels, logins, events, session, flows, dismissed, crossed>>

---------------------------------------------------------------------------
(* The rest of the calls, after their awaits. *)

\* Mutant: the page opens without a look at accountSwitchCanceledRef.
StartAnsweredUnchecked(n) ==
  /\ flows[n] = "calling" /\ starts[n].pc = "ok"
  /\ hook' = [hook EXCEPT !.loginId = n]
  /\ flows' = [flows EXCEPT ![n] = "opening"]
  /\ UNCHANGED <<handles, starts, cancels, logins, events, session, disturbances,
                 dismissed, crossed>>

\* A start has answered: cancel it if the user has canceled since, else open
\* the page.
StartAnswered(n) ==
  /\ flows[n] = "calling" /\ starts[n].pc = "ok"
  /\ hook' = [hook EXCEPT !.loginId = n]
  /\ IF hook.canceled
     THEN /\ flows' = [flows EXCEPT ![n] = "canceling"]
          /\ CancelCall(CancelOf(n), starts[n].ws)
     ELSE /\ flows' = [flows EXCEPT ![n] = "opening"]
          /\ UNCHANGED cancels
  /\ UNCHANGED <<handles, starts, logins, events, session, disturbances, dismissed,
                 crossed>>

PageOpened(n) ==
  /\ flows[n] = "opening"
  /\ flows' = [flows EXCEPT ![n] = "page"]
  /\ UNCHANGED <<backendVars, hook, dismissed, crossed>>

\* The catch of handleSwitchAccount: the start or the browser failed.
SwitchFailed(n) ==
  /\ \/ flows[n] = "opening" /\ Disturb
     \/ /\ flows[n] = "calling" /\ starts[n].pc \in {"canceled", "failed"}
        /\ UNCHANGED disturbances
  /\ IF \/ hook.canceled
        \/ flows[n] = "calling" /\ starts[n].pc = "canceled"
        \/ hook.loginId = NoLogin
     THEN /\ flows' = [flows EXCEPT ![n] = "over"]
          /\ hook' = Cleared
          /\ UNCHANGED cancels
     ELSE /\ flows' = [flows EXCEPT ![n] = "canceling"]
          /\ CancelCall(CancelOf(n), starts[n].ws)
          /\ UNCHANGED hook
  /\ UNCHANGED <<handles, starts, logins, events, session, dismissed, crossed>>

\* A cancel has answered, or failed: to the flow that asked for it, or to
\* handleCancelSwitchAccount, which keeps accountSwitchCanceledRef.
CancelAnswered(c) ==
  /\ cancels[c].pc = "answered"
  /\ cancels' = [cancels EXCEPT ![c] = [ws |-> NoWorkspace, pc |-> "over",
                                        login |-> NoLogin]]
  /\ IF c <= MaxCancels
     THEN /\ hook' = [Cleared EXCEPT !.canceled = hook.canceled]
          /\ UNCHANGED flows
     ELSE /\ hook' = Cleared
          /\ flows' = [n \in Starts |-> IF c = CancelOf(n) THEN "over" ELSE flows[n]]
  /\ UNCHANGED <<handles, starts, logins, events, session, disturbances, dismissed,
                 crossed>>

---------------------------------------------------------------------------
(* The notifications. *)

\* Mutant: only a success ends the switch.
OnLoginSucceeded(e) ==
  hook' = IF e.success /\ hook.loginId \in {NoLogin, e.login} THEN Cleared ELSE hook

OnLoginCompleted(e) ==
  hook' = IF e.login # hook.loginId /\ hook.loginId # NoLogin
          THEN hook ELSE Cleared

OnAccountUpdated ==
  hook' = IF hook.switching /\ ~hook.canceled
          THEN [hook EXCEPT !.switching = FALSE] ELSE hook

\* One workspace's copy of the first notification.  The hook listens for the
\* workspace of its login, or else for the selected one.
OnEvent(ws) ==
  /\ events # <<>> /\ ws \in Head(events).to
  /\ LET e == Head(events)
         rest == e.to \ {ws}
         match == IF hook.loginWs # NoWorkspace THEN hook.loginWs ELSE hook.active
     IN  /\ events' = IF rest = {} THEN Tail(events)
                      ELSE <<[e EXCEPT !.to = rest]>> \o Tail(events)
         /\ CASE ws # match -> UNCHANGED hook
              [] ws = match /\ e.kind = "completed" -> OnLoginCompleted(e)
              [] OTHER -> OnAccountUpdated
  /\ UNCHANGED <<handles, starts, cancels, logins, session, disturbances, flows,
                 dismissed, crossed>>

---------------------------------------------------------------------------

BackendStep == Backend /\ UNCHANGED <<hook, flows, dismissed, crossed>>

Next ==
  \/ BackendStep
  \/ \E n \in Starts : \/ SwitchAccount(n) \/ StartAnswered(n)
                       \/ PageOpened(n) \/ SwitchFailed(n)
  \/ \E c \in 1..MaxCancels : CancelSwitch(c)
  \/ \E c \in Cancels : CancelAnswered(c)
  \/ \E ws \in Workspaces : SelectWorkspace(ws) \/ OnEvent(ws)

\* The tasks of the backend run, a start has a timer and a request one of its
\* own, the app-server lets a login expire, promises settle and notifications
\* arrive.  It need not answer a start; the user need not do anything.
Fairness ==
  /\ \A n \in Starts :
       /\ WF_backendVars(Register(n)) /\ WF_backendVars(NoticeCancel(n))
       /\ WF_backendVars(StartTimeout(n)) /\ WF_backendVars(KeepLoginId(n))
       /\ WF_backendVars(EndLogin(n))
       /\ WF_vars(StartAnswered(n)) /\ WF_vars(PageOpened(n) \/ SwitchFailed(n))
  /\ \A c \in Cancels :
       /\ WF_backendVars(TakeHandle(c)) /\ WF_backendVars(ServeCancel(c))
       /\ WF_vars(CancelAnswered(c))
  /\ WF_vars(\E ws \in Workspaces : OnEvent(ws))

Spec == Init /\ [][Next]_vars /\ Fairness

---------------------------------------------------------------------------

TypeOK ==
  /\ BackendTypeOK
  /\ hook \in [active : Workspaces, switching : BOOLEAN, canceled : BOOLEAN,
               loginId : {NoLogin} \cup Starts,
               loginWs : Workspaces \cup {NoWorkspace}]
  /\ flows \in [Starts -> {"none", "calling", "opening", "canceling", "page", "over"}]
  /\ dismissed \in SUBSET Starts
  /\ crossed \in SUBSET (Starts \X Starts)

\* The page of an open login opens only if the user has not canceled since its
\* start, although a start may answer before it sees the cancel.  A login
\* that overlaps another shares the hook's flag with it: the other's start,
\* and the other's late end while no id is known, take the cancel back.
PageIsWanted ==
  [][\A n \in dismissed :
       flows[n] = "calling" /\ flows'[n] = "opening" /\ logins[n] = "open"
         => Crossed(n)]_vars

\* A start ends as canceled only because the user canceled it, the app-server
\* was lost, or another login of the same workspace overlapped it.  (It need
\* not be a newer one: a start that ends removes the handle of the start that
\* replaced it, and that one ends as canceled too.)
CanceledForReason ==
  \A n \in Starts :
    starts[n].pc = "canceled" =>
      \/ n \in dismissed
      \/ starts[n].request = "dropped"
      \/ \E k \in Starts : <<n, k>> \in crossed /\ starts[k].ws = starts[n].ws

\* While a login whose page was opened is open at the app-server, a cancel
\* would reach it: the hook knows its workspace and id, also when the user has
\* gone to another workspace, and the backend holds its handle.
LoginCanBeCanceled ==
  \A n \in Starts \ dismissed :
    flows[n] \in {"opening", "page"} /\ logins[n] = "open" /\ ~Crossed(n) =>
      /\ hook.loginId = n /\ hook.loginWs = starts[n].ws
      /\ handles[starts[n].ws] = LoginId(n)

\* The indicator goes out: every login ends by its notification, its cancel,
\* or the failure of its start, unless its app-server is lost (no notification
\* comes and the hook has no timer) or it overlaps another login.
EveryLoginEnds ==
  hook.switching ~> (~hook.switching \/ crossed # {} \/ session = "lost")
=============================================================================
