-------------------------- MODULE BackgroundPrompt --------------------------
(***************************************************************************)
(* A background prompt (commit message, run metadata, agent description)   *)
(* composed with the session it talks to: it starts a thread of its own,   *)
(* hides it, takes its events away from the frontend, runs one turn,       *)
(* collects the text, and archives the thread on every way out.            *)
(*                                                                         *)
(* Source: src-tauri/src/shared/codex_aux_core.rs,                         *)
(* run_background_prompt_core.                                             *)
(***************************************************************************)
EXTENDS AppServerSession

CONSTANT Prompts

VARIABLES
    prompt,  \* the locals of each background prompt
    told     \* threads the frontend has been told to hide

allVars == <<vars, prompt, told>>

\* A prompt talks for one workspace; `req` is the request it awaits.
Fresh == [at |-> "idle", ws |-> NoWorkspace, req |-> NoRequest,
          thread |-> NoThread, text |-> FALSE, ok |-> FALSE]

PInit ==
    /\ Init
    /\ prompt = [b \in Prompts |-> Fresh]
    /\ told = {}

PStage(b) == prompt[b].at
Awaited(b) == call[prompt[b].req]
Done(b) == Awaited(b).stage \in Ended
Answered(b) == Awaited(b).stage = "answered"

Set(b, p) == prompt' = [prompt EXCEPT ![b] = p]
Step(b, l) == Set(b, [prompt[b] EXCEPT !.at = l])
Keep == UNCHANGED <<nextId, call, pending, context, threadWorkspace, hidden,
                    workspaceIds, roots, reader, server>>

\* thread/start with approvals off; the prompt continues when it is answered.
Begin(b, w) ==
    /\ PStage(b) = "idle"
    /\ Call(nextId, w, "start", NoThread)
    /\ Set(b, [Fresh EXCEPT !.at = "starting", !.ws = w, !.req = nextId])
    /\ UNCHANGED told

\* Mutant: only an answer without a thread ends the start.
StartRefused(b) ==
    /\ PStage(b) = "starting"
    /\ Answered(b)
    /\ Awaited(b).thread = NoThread
    /\ Step(b, "returned")
    /\ UNCHANGED <<vars, told>>

\* No answer, an error, or an answer that names no thread.
StartFails(b) ==
    /\ PStage(b) = "starting"
    /\ Done(b)
    /\ Answered(b) => Awaited(b).thread = NoThread
    /\ Step(b, "returned")
    /\ UNCHANGED <<vars, told>>

\* on_hide_thread: codex/backgroundThread goes to the frontend.
HideThread(b) ==
    /\ PStage(b) = "starting"
    /\ Answered(b)
    /\ Awaited(b).thread # NoThread
    /\ Set(b, [prompt[b] EXCEPT !.at = "hidden", !.thread = Awaited(b).thread])
    /\ told' = told \cup {Awaited(b).thread}
    /\ UNCHANGED vars

\* Mutant: the turn is started before anybody listens.
ListenLater(b) ==
    /\ PStage(b) = "hidden"
    /\ Step(b, "listening")
    /\ UNCHANGED <<vars, told>>

Listen(b) ==
    /\ PStage(b) = "hidden"
    /\ callbacks' = callbacks \cup {prompt[b].thread}
    /\ channel' = [channel EXCEPT ![prompt[b].thread] = <<>>]
    /\ Step(b, "listening")
    /\ Keep /\ UNCHANGED <<emitted, told>>

StartTurn(b) ==
    /\ PStage(b) = "listening"
    /\ Call(nextId, prompt[b].ws, "use", prompt[b].thread)
    /\ Set(b, [prompt[b] EXCEPT !.at = "turning", !.req = nextId])
    /\ UNCHANGED told

\* Mutant: a refused turn returns at once.
TurnRefusedReturns(b) ==
    /\ PStage(b) = "turning"
    /\ Done(b)
    /\ Step(b, "returned")
    /\ UNCHANGED <<vars, told>>

\* The server may also answer with an error.
TurnRefused(b) ==
    /\ PStage(b) = "turning"
    /\ Done(b)
    /\ Step(b, "unlisten")
    /\ UNCHANGED <<vars, told>>

TurnAccepted(b) ==
    /\ PStage(b) = "turning"
    /\ Answered(b)
    /\ Step(b, "collecting")
    /\ UNCHANGED <<vars, told>>

Collect(b) ==
    /\ PStage(b) = "collecting"
    /\ LET c == channel[prompt[b].thread] IN
       /\ c # <<>>
       /\ channel' = [channel EXCEPT ![prompt[b].thread] = Tail(c)]
       /\ Set(b, [prompt[b] EXCEPT
                    !.at = IF Head(c) \in {"completed", "failed"}
                           THEN "unlisten" ELSE "collecting",
                    !.text = @ \/ Head(c) = "delta",
                    !.ok = Head(c) = "completed"])
    /\ Keep /\ UNCHANGED <<callbacks, emitted, told>>

\* Sixty seconds after the turn was accepted.  Nothing else ends the
\* collection: the session keeps the sending half of the channel, so the end
\* of the process does not close it.
CollectTimeout(b) ==
    /\ PStage(b) = "collecting"
    /\ Step(b, "unlisten")
    /\ UNCHANGED <<vars, told>>

Unlisten(b) ==
    /\ PStage(b) = "unlisten"
    /\ callbacks' = callbacks \ {prompt[b].thread}
    /\ channel' = [channel EXCEPT ![prompt[b].thread] = <<>>]
    /\ Step(b, "archive")
    /\ Keep /\ UNCHANGED <<emitted, told>>

StartArchive(b) ==
    /\ PStage(b) = "archive"
    /\ Call(nextId, prompt[b].ws, "archive", prompt[b].thread)
    /\ Set(b, [prompt[b] EXCEPT !.at = "archiving", !.req = nextId])
    /\ UNCHANGED told

\* The outcome of the archive request is ignored; text without a completed
\* turn, or a turn without text, is an error.
Return(b) ==
    /\ PStage(b) = "archiving"
    /\ Done(b)
    /\ Set(b, [prompt[b] EXCEPT !.at = "returned", !.ok = @ /\ prompt[b].text])
    /\ UNCHANGED <<vars, told>>

-----------------------------------------------------------------------------
PromptStep(b) ==
    \/ StartFails(b) \/ HideThread(b) \/ Listen(b) \/ StartTurn(b)
    \/ TurnRefused(b) \/ TurnAccepted(b) \/ Collect(b)
    \/ Unlisten(b) \/ StartArchive(b) \/ Return(b)

PNext ==
    \/ Next /\ UNCHANGED <<prompt, told>>
    \/ \E b \in Prompts :
          \/ \E w \in Workspaces : Begin(b, w)
          \/ PromptStep(b)
          \/ CollectTimeout(b)

PSpec == PInit /\ [][PNext]_allVars

\* The runtime polls the reader, the callers and the prompts.  Of the timers
\* only the sixty seconds of a collection are assumed to fire, not the five
\* minutes of a request.
FairPSpec ==
    /\ PSpec
    /\ WF_allVars(Reader /\ UNCHANGED <<prompt, told>>)
    /\ \A r \in Requests : WF_allVars(Caller(r) /\ UNCHANGED <<prompt, told>>)
    /\ \A b \in Prompts :
          WF_allVars(PromptStep(b)) /\ WF_allVars(CollectTimeout(b))

-----------------------------------------------------------------------------
(* Properties *)

\* What a background turn says goes to its collector and to nobody else: while
\* the prompt runs its turn, none of the turn's events reaches the frontend.
TurnStaysInBackground ==
    [][ \A b \in Prompts :
          /\ emitted' # emitted
          /\ emitted'.thread = prompt[b].thread
          /\ PStage(b) \in {"turning", "collecting"}
          => FALSE ]_allVars

\* A prompt that has returned leaves no collector behind and has asked the
\* server to archive the thread it was given, whatever went wrong between.
PromptsCleanUp ==
    \A b \in Prompts :
        PStage(b) = "returned" /\ prompt[b].thread # NoThread =>
            /\ prompt[b].thread \notin callbacks
            /\ \E r \in Requests : call[r].method = "archive"
                                   /\ call[r].thread = prompt[b].thread

\* When the process exits no prompt is left to the five-minute timer: the end of
\* the output wakes the callers that wait, the prompt's requests among them, and
\* the prompt returns, its archive request failing on the way.
ExitReleasesPrompts ==
    \A b \in Prompts :
        (~running /\ PStage(b) # "idle") ~> (PStage(b) = "returned")

=============================================================================
