---------------------------- MODULE MemoryViewModel ----------------------------
(***************************************************************************)
(* The view model of the desktop client over its connection                *)
(* (memory-client/src/view_models/memory_view_model): twelve pipelines,    *)
(* each with the request it waits for, a busy flag and a stage, the second *)
(* deadline timer the view model keeps for every request, the text of a    *)
(* chat beside the memory injected into it, and the precise forgetting     *)
(* from preview to execution.  The client's signals are received inside    *)
(* the call that emits them, so a step is one entry into the client with   *)
(* everything the view model does about it.                                *)
(*                                                                         *)
(* The pages disable the button of a pipeline while it is busy; pipelines  *)
(* that do not look at their own flag are started under that condition.    *)
(***************************************************************************)
EXTENDS MemoryClient

VARIABLES client, vm

vars == <<client, vm>>

\* The pipelines whose run does not ask whether one is in flight.
Sending == {"preChat", "postTurn", "tool", "manualConfig", "behavior"}
\* The pipelines that refuse a second run.
Asking == {"preference", "knowledgeDetail", "conflictCompare", "lifecycleStatus",
           "contextAssemble"}
Forget == {"forgetPreview", "forgetExecute"}
Pipelines == Sending \cup Asking \cup Forget

\* The two forget pipelines share forgetStage_.
StageOf(p) == IF p \in Forget THEN "forget" ELSE p
Shown == {StageOf(p) : p \in Pipelines}

InProgress == {"querying", "sending", "previewing", "executing"}
Finished == {"ready", "sent", "completed", "awaiting_confirmation"}
None == 0
Ref == Requests \cup {None}

\* A credential and a selection hash are named by the preview that gave them.
ForgetView == [credential : Ref, hash : Ref, live : BOOLEAN, executed : -1..1,
               expected : 0..1, selector : BOOLEAN]

NoPreview(f) == [f EXCEPT !.credential = None, !.live = FALSE, !.executed = -1]

Init ==
    /\ client = NewClient
    /\ vm = [request |-> [p \in Pipelines |-> None], busy |-> [p \in Pipelines |-> FALSE],
             stage |-> [s \in Shown |-> "idle"], timers |-> {}, text |-> None,
             context |-> None, assembled |-> None,
             forget |-> [credential |-> None, hash |-> None, live |-> FALSE, executed |-> -1,
                         expected |-> 0, selector |-> FALSE],
             spent |-> {}]    \* history: credentials sent with an execution

Unused == {r \in Requests : client.age[r] = "unsent"}
FreshRequest == CHOOSE r \in Unused : \A q \in Unused : r <= q

---------------------------------------------------------------------------
(* What the view model does with the client's signals *)

StageSet(v, p, s) == [v EXCEPT !.stage = [v.stage EXCEPT ![StageOf(p)] = s]]
BusySet(v, p, b) == [v EXCEPT !.busy = [v.busy EXCEPT ![p] = b]]
Ends(v, p, s) == StageSet(BusySet(v, p, FALSE), p, s)
Waiting(v, reqs) == {p \in Pipelines : v.request[p] \in reqs}

\* Mutant: after a failed execution the confirmation may be given again.
MutFailed(v, reqs, code) ==
    LET hit == Waiting(v, reqs)
    IN  [v EXCEPT !.timers = @ \ reqs,
                  !.request = [p \in Pipelines |-> IF p \in hit THEN None ELSE @[p]],
                  !.busy = [p \in Pipelines |-> @[p] /\ p \notin hit],
                  !.stage = [s \in Shown |->
                                IF s = "forget" /\ "forgetExecute" \in hit
                                THEN "awaiting_confirmation"
                                ELSE IF s \in {StageOf(p) : p \in hit} THEN code ELSE @[s]],
                  !.forget = IF "forgetPreview" \in hit THEN NoPreview(@) ELSE @]

\* onRequestFailed for the requests reqs: each pipeline that waits for one is
\* closed, and what it showed is taken back.
Failed(v, reqs, code) ==
    LET hit == Waiting(v, reqs)
    IN  [v EXCEPT !.timers = v.timers \ reqs,
                  !.request = [p \in Pipelines |-> IF p \in hit THEN None ELSE v.request[p]],
                  !.busy = [p \in Pipelines |-> v.busy[p] /\ p \notin hit],
                  !.stage = [s \in Shown |-> IF s \in {StageOf(p) : p \in hit} THEN code
                                             ELSE v.stage[s]],
                  !.context = IF "preChat" \in hit THEN None ELSE v.context,
                  !.assembled = IF "contextAssemble" \in hit THEN None ELSE v.assembled,
                  !.forget = IF "forgetPreview" \in hit
                             THEN [NoPreview(v.forget) EXCEPT !.selector = FALSE]
                             ELSE v.forget]

\* onConnectionStateChanged: without a connection the two chat pipelines rest.
Rested(v) ==
    LET chat == {"preChat", "postTurn"}
    IN  [v EXCEPT !.stage = [s \in Shown |-> IF s \in chat /\ v.busy[s] THEN "idle"
                                             ELSE v.stage[s]],
                  !.busy = [p \in Pipelines |-> v.busy[p] /\ p \notin chat]]

\* The signals of a step of the client: the requests it failed, then its state.
Told(v, code) ==
    LET w == Failed(v, client.pending \ client'.pending, code)
    IN  IF client'.conn = "disconnected" /\ client.conn # "disconnected" THEN Rested(w) ELSE w

---------------------------------------------------------------------------
(* Sending *)

\* sendRequest, sendEventEnvelope and sendTurnFinalizedEvent once connected: the
\* request is registered after flush, which may find the connection closed.
SendRequest ==
    /\ client.conn = "connected"
    /\ Unused # {}
    /\ \/ client' = Registered(client, FreshRequest)
       \/ /\ client.gone
          /\ client' = Registered(Disconnected(client, "lost"), FreshRequest)

\* The caller keeps the identifier and arms its own deadline timer.
Armed(v, p) == [v EXCEPT !.request = [v.request EXCEPT ![p] = FreshRequest],
                         !.timers = v.timers \cup {FreshRequest}]

\* No request goes out: not connected, or an envelope beyond 64 KiB.
Refused == UNCHANGED client

\* A pipeline that is busy before it sends.
Run(p, v, stage) ==
    /\ ~vm.busy[p]
    /\ SendRequest
    /\ vm' = Armed(Told(StageSet(BusySet(v, p, TRUE), p, stage), "failed"), p)

NotRun(p, v) == ~vm.busy[p] /\ Refused /\ vm' = Ends(v, p, "failed")

\* A pipeline that refuses a second run and is busy once it has sent.
Ask(p, refusal, started, stage) ==
    \/ Refused /\ vm' = StageSet(refusal, p, "failed")
    \/ /\ ~vm.busy[p]
       /\ SendRequest
       /\ vm' = StageSet(BusySet(Armed(Told(started, "failed"), p), p, TRUE), p, stage)

\* Mutant: the memory of the text before stays.
MutRunPreChat ==
    \/ NotRun("preChat", [vm EXCEPT !.text = None, !.context = None])
    \/ Run("preChat", [vm EXCEPT !.text = FreshRequest], "querying")

\* The text is shown as it was typed before the memory is asked for.
RunPreChat ==
    \/ NotRun("preChat", [vm EXCEPT !.text = None, !.context = None])
    \/ Run("preChat", [vm EXCEPT !.text = FreshRequest, !.context = None], "querying")

RunPostTurn == NotRun("postTurn", vm) \/ Run("postTurn", vm, "sending")
RunTool == NotRun("tool", vm) \/ Run("tool", vm, "sending")
RunBehavior == NotRun("behavior", vm) \/ Run("behavior", vm, "sending")

\* Not run as well when the configuration is sensitive.
RunManualConfig == NotRun("manualConfig", vm) \/ Run("manualConfig", vm, "sending")

StartPreference == Ask("preference", vm, vm, "querying")
RunKnowledgeDetail == Ask("knowledgeDetail", vm, vm, "querying")
RunConflictCompare == Ask("conflictCompare", vm, vm, "querying")
RunLifecycleStatus == Ask("lifecycleStatus", vm, vm, "querying")

\* Every refusal and every new request takes the old context away.
RunContextAssemble ==
    LET cleared == [vm EXCEPT !.assembled = None]
    IN  Ask("contextAssemble", cleared, cleared, "querying")

---------------------------------------------------------------------------
(* Precise forgetting *)

RunForgetPreview ==
    \/ /\ Refused
       /\ vm' = StageSet([vm EXCEPT !.forget = NoPreview(vm.forget)], "forgetPreview", "failed")
    \/ /\ ~vm.busy["forgetPreview"] /\ ~vm.busy["forgetExecute"]
       /\ SendRequest
       /\ LET v == Armed(Told(vm, "failed"), "forgetPreview")
              w == [v EXCEPT !.forget = [NoPreview(v.forget) EXCEPT !.selector = TRUE]]
          IN  vm' = StageSet(BusySet(w, "forgetPreview", TRUE), "forgetPreview", "previewing")

\* An expired credential is dropped, whatever else refuses leaves it.
ExpiredCredential ==
    /\ vm.stage["forget"] = "awaiting_confirmation"
    /\ vm.forget.credential # None /\ ~vm.forget.live
    /\ client.conn = "connected" /\ Refused
    /\ vm' = StageSet([vm EXCEPT !.forget = [vm.forget EXCEPT !.credential = None]],
                      "forgetExecute", "failed")

MayExecute ==
    /\ ~vm.busy["forgetPreview"] /\ ~vm.busy["forgetExecute"]
    /\ vm.stage["forget"] = "awaiting_confirmation"
    /\ vm.forget.credential # None /\ vm.forget.live

RunForgetExecute ==
    \/ ExpiredCredential
    \/ Refused /\ vm' = StageSet(vm, "forgetExecute", "failed")
    \/ /\ MayExecute
       /\ SendRequest
       /\ LET v == Armed(Told(vm, "failed"), "forgetExecute")
              w == [v EXCEPT !.forget = [v.forget EXCEPT !.executed = -1],
                             !.spent = v.spent \cup {vm.forget.credential}]
          IN  vm' = StageSet(BusySet(w, "forgetExecute", TRUE), "forgetExecute", "executing")

\* projectForgetPreview and the checks behind it; own says that the answer is
\* of the user who asked, cred and hash that it carries them.
Previewed(v, r, own, cred, hash, n) ==
    LET f == [v.forget EXCEPT !.credential = IF cred THEN r ELSE v.forget.credential,
                              !.live = cred, !.selector = FALSE]
    IN  CASE ~own -> Ends([v EXCEPT !.forget = [NoPreview(v.forget) EXCEPT !.selector = FALSE]],
                          "forgetPreview", "failed")
          [] own /\ ~hash -> Ends([v EXCEPT !.forget = f], "forgetPreview", "failed")
          [] OTHER -> Ends([v EXCEPT !.forget = [f EXCEPT !.hash = r, !.expected = n]],
                           "forgetPreview", "awaiting_confirmation")

\* The count of the answer, -1 when it has none, against the previewed one.
Executed(v, n) ==
    LET w == [v EXCEPT !.forget = [v.forget EXCEPT !.executed = n]]
        d == [v.forget EXCEPT !.executed = n, !.credential = None, !.live = FALSE]
    IN  IF v.forget.expected > 0 /\ n >= 0 /\ n # v.forget.expected
        THEN Ends(w, "forgetExecute", "failed")
        ELSE Ends([v EXCEPT !.forget = d], "forgetExecute", "completed")

\* The credential's time to live runs out.
CredentialExpires ==
    /\ vm.forget.live
    /\ vm' = [vm EXCEPT !.forget = [vm.forget EXCEPT !.live = FALSE]]
    /\ UNCHANGED client

---------------------------------------------------------------------------
(* Answers *)

\* onResponseReceived with status ok, for the pipeline that waits for r.
Received(v, p, r) ==
    LET w == [v EXCEPT !.timers = v.timers \ {r},
                       !.request = [v.request EXCEPT ![p] = None]]
    IN  \/ p = "preChat" /\ \E c \in {None, r} :
               vm' = Ends([w EXCEPT !.context = c], p, "ready")
        \/ p \in Sending \ {"preChat"} /\ vm' = Ends(w, p, "sent")
        \/ p \in Asking \ {"contextAssemble"} /\ vm' = Ends(w, p, "ready")
        \/ p = "contextAssemble"
           /\ \/ vm' = Ends([w EXCEPT !.assembled = r], p, "ready")
              \/ vm' = Ends([w EXCEPT !.assembled = None], p, "failed")
        \/ p = "forgetPreview" /\ \E own, cred, hash \in BOOLEAN, n \in 0..1 :
               vm' = Previewed(w, r, own, cred, hash, n)
        \/ p = "forgetExecute" /\ \E n \in -1..1 : vm' = Executed(w, n)

\* One response packet.  Late, repeated and unknown ones reach no pipeline.
ReadResponse(r) ==
    /\ client.socket = "connected" /\ r \in client.wire
    /\ \E mismatch \in BOOLEAN :
          /\ client' = Answered(client, r, mismatch)
          /\ IF ~Accepted(client, r, mismatch)
             THEN vm' = Told(vm, IF client.age[r] = "overdue" THEN "timeout" ELSE "failed")
             ELSE \/ vm' = Failed(vm, {r}, "failed")      \* status error
                  \/ /\ Waiting(vm, {r}) = {}             \* given up by the view model
                     /\ vm' = [vm EXCEPT !.timers = vm.timers \ {r}]
                  \/ \E p \in Waiting(vm, {r}) : Received(vm, p, r)

ReadGarbage ==
    /\ client.socket = "connected"
    /\ client' = Malformed(client)
    /\ vm' = Told(vm, "failed")

---------------------------------------------------------------------------
(* Time *)

\* Deadlines pass; both timers of a request run on the same clock.
TimePasses(r) ==
    /\ r \in vm.timers \cup client.timers
    /\ \/ /\ client.age[r] = "fresh"
          /\ client' = [client EXCEPT !.age = [client.age EXCEPT ![r] = "due"]]
       \/ /\ client.age[r] = "due" /\ r \notin vm.timers
          /\ client' = [client EXCEPT !.age = [client.age EXCEPT ![r] = "overdue"]]
    /\ UNCHANGED vm

\* The view model's timer: the pipeline is closed, the client is not told.
ViewDeadline(r) ==
    /\ r \in vm.timers /\ client.age[r] = "due"
    /\ vm' = Failed(vm, {r}, "timeout")
    /\ UNCHANGED client

ClientDeadline(r) ==
    /\ r \in client.timers /\ client.age[r] = "overdue"
    /\ client' = Expired(client, {r})
    /\ vm' = Told(vm, "timeout")

---------------------------------------------------------------------------
(* Connection *)

Connect == client' = Connected(client) /\ vm' = vm

\* resetAllPipelines: seven pipelines, the others are failed by the client.
ResetPipelines == Pipelines \ {"manualConfig", "behavior", "preference", "knowledgeDetail",
                               "contextAssemble"}

Reset(v, ps) ==
    [v EXCEPT !.timers = v.timers \ {v.request[p] : p \in ps},
              !.request = [p \in Pipelines |-> IF p \in ps THEN None ELSE v.request[p]],
              !.busy = [p \in Pipelines |-> v.busy[p] /\ p \notin ps],
              !.stage = [s \in Shown |-> IF s \in {StageOf(p) : p \in ps} THEN "idle"
                                         ELSE v.stage[s]],
              !.text = IF "preChat" \in ps THEN None ELSE v.text,
              !.context = IF "preChat" \in ps THEN None ELSE v.context,
              !.forget = IF "forgetPreview" \in ps THEN NoPreview(v.forget) ELSE v.forget]

\* resetPreChatPipeline and its four sisters, behind a button of their own.
ResetOne(p) ==
    /\ p \in {"preChat", "postTurn", "tool", "conflictCompare", "lifecycleStatus"}
    /\ vm' = Reset(vm, {p})
    /\ UNCHANGED client

Stop == client' = Stopped(client) /\ vm' = Told(Reset(vm, ResetPipelines), "failed")

RetryConnect ==
    /\ client' = Retried(client)
    /\ vm' = Told(Reset(vm, ResetPipelines), "failed")

SetAutoReconnect ==
    \E b \in BOOLEAN : b # client.auto /\ client' = AutoSet(client, b) /\ vm' = vm

ReconnectTimer == client.timer /\ client' = TimerFired(client) /\ vm' = vm

SocketConnects ==
    client.socket = "connecting" /\ client' = DialSucceeded(client) /\ vm' = vm

SocketRefuses ==
    client.socket = "connecting" /\ client' = DialFailed(client) /\ vm' = Told(vm, "failed")

\* The server closes; the client hears of it later.
PeerCloses ==
    /\ client.socket = "connected" /\ ~client.gone
    /\ client' = [client EXCEPT !.gone = TRUE]
    /\ vm' = vm

SocketDisconnected ==
    client.gone /\ client' = Disconnected(client, "lost") /\ vm' = Told(vm, "failed")

---------------------------------------------------------------------------
RunPipeline ==
    \/ RunPreChat \/ RunPostTurn \/ RunTool \/ RunManualConfig \/ RunBehavior
    \/ StartPreference \/ RunKnowledgeDetail \/ RunConflictCompare \/ RunLifecycleStatus
    \/ RunContextAssemble \/ RunForgetPreview \/ RunForgetExecute

Next ==
    \/ RunPipeline
    \/ \E r \in Requests : ReadResponse(r) \/ TimePasses(r) \/ ViewDeadline(r) \/ ClientDeadline(r)
    \/ ReadGarbage \/ CredentialExpires
    \/ \E p \in Pipelines : ResetOne(p)
    \/ Connect \/ Stop \/ RetryConnect \/ SetAutoReconnect
    \/ ReconnectTimer \/ SocketConnects \/ SocketRefuses \/ PeerCloses \/ SocketDisconnected

Spec == Init /\ [][Next]_vars

---------------------------------------------------------------------------
(* Properties *)

\* A request that was sent is either in flight with its deadline timer running,
\* or its caller has been told how it ended, once: by an answer, a time-out, a
\* lost connection, Stop or Retry, in whatever order they come.  And no pipeline
\* is busy for ever: one that is waits for a request whose timer runs.
EveryRequestEndsOnce ==
    /\ \A r \in Requests :
         IF r \in client.pending THEN r \in client.timers /\ client.heard[r] = 0
         ELSE client.heard[r] = IF client.age[r] = "unsent" THEN 0 ELSE 1
    /\ \A p \in Pipelines : vm.busy[p] => vm.request[p] \in vm.timers

\* The memory in the text for the model was retrieved for that text, although a
\* reset, a time-out of the view model or a lost connection let a new text
\* start while the answer for an old one is still under way.
ContextIsOfThisText == vm.context # None => vm.context = vm.text

\* An execution of a forget plan carries a credential that is still valid, was
\* never sent before and belongs to the preview whose selection hash goes with
\* it: after a failed or timed-out execution a new preview is needed.
ExecutesOncePerPreview ==
    [][vm'.request["forgetExecute"] \notin {None, vm.request["forgetExecute"]}
         => /\ vm.forget.credential = vm.forget.hash
            /\ vm.forget.live
            /\ vm.forget.credential \notin vm.spent]_vars

---------------------------------------------------------------------------
(* The inductive invariant, in the parts its proof needs. *)

Stages == InProgress \cup Finished \cup {"idle", "failed", "timeout"}

View == [request : [Pipelines -> Ref], busy : [Pipelines -> BOOLEAN],
         stage : [Shown -> Stages], timers : SUBSET Requests,
         text : Ref, context : Ref, assembled : Ref,
         forget : ForgetView, spent : SUBSET Ref]

TypeOK == client \in Client /\ vm \in View

Sent(c, r) == r # None => c.age[r] # "unsent"

\* Every pipeline waits for a request of its own, one that was sent; and while
\* it is busy the timer of that request runs.
PipelinesStand(c, v) ==
    /\ \A p \in Pipelines : Sent(c, v.request[p])
    /\ \A p, q \in Pipelines : p # q /\ v.request[p] = v.request[q] => v.request[p] = None
    /\ \A p \in Pipelines : v.busy[p] => v.request[p] \in v.timers

\* The request that can still be answered with memory is of the text shown.
ChatStands(c, v) ==
    /\ v.request["preChat"] \in c.wire =>
         v.busy["preChat"] /\ v.text = v.request["preChat"]
    /\ v.context # None => v.context = v.text

\* A preview in flight has not been executed, nor has the credential that a
\* confirmation would send, and that one is of the preview with the hash.
ForgetStands(c, v) ==
    /\ v.request["forgetPreview"] # None =>
         v.busy["forgetPreview"] /\ v.request["forgetPreview"] \notin v.spent
    /\ Sent(c, v.forget.credential)
    /\ \A r \in v.spent : Sent(c, r)
    /\ v.forget.live /\ v.stage["forget"] = "awaiting_confirmation" =>
         v.forget.credential = v.forget.hash /\ v.forget.credential \notin v.spent

ViewInv(c, v) ==
    /\ v \in View
    /\ PipelinesStand(c, v)
    /\ ChatStands(c, v)
    /\ ForgetStands(c, v)

IInv == ClientInv(client) /\ ViewInv(client, vm)
=============================================================================
