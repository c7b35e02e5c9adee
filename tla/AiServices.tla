----------------------------- MODULE AiServices -----------------------------
(***************************************************************************)
(* The AI endpoint (serverless/endpoint/app.py, surveillance.py), the      *)
(* backend's client of it (nebius/client.py) and the handlers that use the *)
(* client: the single-answer routes, and the end-to-end demo, which makes  *)
(* several calls, runs a cloud tournament and is later finalized           *)
(* (nebius/serverless_smoke.py).                                           *)
(*                                                                         *)
(* An answer keeps who wrote it (the model, the endpoint's deterministic   *)
(* code, the backend's), which the program does not, next to the labels    *)
(* the program gives it.  Wording and scores are left out.                 *)
(***************************************************************************)
EXTENDS Naturals, FiniteSets, Sequences

CONSTANTS
    Requests,     \* handlers that answer one request, on worker threads
    Demos,        \* runs of the end-to-end demo, on the event loop
    MaxFinalize   \* bound on calls of finalize per demo

ASSUME AiServicesAssumption == MaxFinalize \in Nat /\ Requests \cap Demos = {}

Handlers == Requests \cup Demos
Routes == {"alert", "explain", "scenario", "abuse"}
Analyses == {"alert", "explain"}     \* screened by choose_analysis_type
EndpointModes == {"mock", "local_vllm", "unknown"}
None == "none"

VARIABLES
    endpointMode,  \* NEBIUS_ENDPOINT_MODE of the endpoint
    configured,    \* routes whose URL the backend has
    handler,       \* [Handlers -> process]
    archive,       \* endpoint calls recorded as evidence: [call, owner]
    answers,       \* [Handlers -> the last answer it was given]
    loop,          \* the demo that holds the event loop, or None
    cloud,         \* [Demos -> its cloud tournament's status]
    experiment,    \* [Demos -> experiment record]
    finalized      \* [Demos -> calls of finalize]

aiVars == <<endpointMode, configured, handler, archive, answers, loop, cloud, experiment,
            finalized>>

NoAnswer == [route |-> None, writer |-> None, mode |-> None, label |-> None, reason |-> None]
Resting == [pc |-> "rest", route |-> None, before |-> {}, own |-> 0, mode |-> None, from |-> None]

AiInit ==
    /\ endpointMode \in EndpointModes
    /\ configured \in {{}, Routes, Routes \ {"scenario"}}
    /\ handler = [h \in Handlers |-> Resting]
    /\ archive = {} /\ answers = [h \in Handlers |-> NoAnswer] /\ loop = None
    /\ cloud = [d \in Demos |-> None]
    /\ experiment = [d \in Demos |-> [status |-> None, calls |-> 0, cost |-> FALSE]]
    /\ finalized = [d \in Demos |-> 0]

(***************************************************************************)
(* The endpoint.                                                           *)
(***************************************************************************)
(* What the model may do, and whether the request reaches it: a screened   *)
(* request may not trigger an analysis, or not fit the prompt's budget.    *)
Outcomes == {"fits_schema", "other_object", "no_object", "call_fails"}
Screening == {"triggered", "not_triggered", "too_long"}

(* _call_model_json: the payload, the mode and the reason for falling back.*)
CallModel(outcome) ==
    LET fallback(why) == [payload |-> None, label |-> "deterministic_fallback", reason |-> why]
    IN  CASE endpointMode = "mock" -> fallback("mock_mode")
          [] endpointMode = "unknown" -> fallback("unsupported_endpoint_mode")
          [] outcome = "call_fails" -> fallback("local_vllm_failed")
          [] outcome = "no_object" -> fallback("invalid_model_json")
          [] OTHER -> [payload |-> outcome, label |-> "local_vllm", reason |-> None]

(* _call_surveillance_analysis.                                            *)
CallSurveillance(screen, outcome) ==
    CASE screen = "not_triggered" ->
           [payload |-> None, label |-> "deterministic_fallback", reason |-> "llm_not_triggered"]
      [] screen = "too_long" ->
           [payload |-> None, label |-> "deterministic_fallback", reason |-> "prompt_budget_exceeded"]
      [] OTHER -> CallModel(outcome)

FallbackKeepsLabel(called) == called

(* _fallback_model_result: the deterministic answer is never labelled as   *)
(* the model's, although the model was called and answered.                *)
FallbackModelResult(called) ==
    IF called.label = "deterministic_fallback" THEN called
    ELSE [payload |-> None, label |-> "deterministic_fallback", reason |-> "invalid_model_json"]

(* A typed answer: the payload is merged when it has the route's schema.   *)
Typed(called) ==
    LET valid == called.payload = "fits_schema"
        meta == IF valid THEN called ELSE FallbackModelResult(called)
    IN  [writer |-> IF valid THEN "model" ELSE "endpoint", label |-> meta.label, reason |-> meta.reason]

AnalysisAnswer(screen, outcome) == Typed(CallSurveillance(screen, outcome))
ScenarioAnswer(outcome) == Typed(CallModel(outcome))

EndpointAnswer(route, screen, outcome) ==
    IF route \in Analyses THEN AnalysisAnswer(screen, outcome) ELSE ScenarioAnswer(outcome)

(***************************************************************************)
(* The backend's client.  One call of the endpoint is two steps: it is     *)
(* sent, and it returns, when its evidence is recorded if the archive can. *)
(***************************************************************************)
Go(h, rec) == handler' = [handler EXCEPT ![h] = rec]

(* The client of a local demo has no URL.                                  *)
Url(h, route) == route \in configured /\ handler[h].mode # "local"

LocalAnswer(route, why) ==
    [route |-> route, writer |-> "backend", mode |-> "mock", label |-> None, reason |-> why]

(* The market-abuse parser says "mock" when the endpoint fell back,        *)
(* whichever route wrote it; an order-book alert's reason is not carried   *)
(* over.                                                                   *)
AbuseAnswer(sent, answer) ==
    [route |-> "abuse", writer |-> answer.writer, label |-> answer.label,
     reason |-> IF sent = "alert" THEN None ELSE answer.reason,
     mode |-> IF answer.label = "deterministic_fallback" THEN "mock" ELSE "nebius"]

(* The other parsers say "nebius" and keep the raw response, label and all.*)
ParsedAnswer(route, sent, answer) ==
    IF route = "abuse" THEN AbuseAnswer(sent, answer)
    ELSE [route |-> route, writer |-> answer.writer, label |-> answer.label, reason |-> None,
          mode |-> "nebius"]

(* Where a failed call goes next: only a market-abuse scenario has another *)
(* route, after an HTTP error: the scenario generator after a 404, then    *)
(* the order-book alert.                                                   *)
NextRoute(h, sent, failure) ==
    LET route == handler[h].route
        alert == IF Url(h, "alert") THEN "alert" ELSE None
    IN  CASE route # "abuse" -> None
          [] sent = "abuse" /\ failure = "404" -> IF Url(h, "scenario") THEN "scenario" ELSE alert
          [] sent = "abuse" /\ failure = "http" -> alert
          [] sent = "scenario" -> alert
          [] OTHER -> None

Loop == UNCHANGED <<loop, cloud, experiment, finalized>>
May(h) == h \in Demos => loop = h

(* The handler has its answer: a request stores it, a demo goes on.        *)
Answered(h, answer) ==
    /\ answers' = [answers EXCEPT ![h] = answer]
    /\ Go(h, [handler[h] EXCEPT !.pc = IF h \in Demos THEN handler[h].from ELSE "done", !.route = None])

Send(h) ==
    /\ handler[h].pc = "ask" /\ May(h)
    /\ IF Url(h, handler[h].route)
       THEN Go(h, [handler[h] EXCEPT !.pc = handler[h].route]) /\ UNCHANGED answers
       ELSE Answered(h, LocalAnswer(handler[h].route, "not_configured"))
    /\ UNCHANGED <<endpointMode, configured, archive>> /\ Loop

(* _record_endpoint_evidence: one record per call, unless it cannot be     *)
(* written, which the caller never sees.                                   *)
RecordCall(h, recorded) ==
    IF recorded THEN archive' = archive \cup {[call |-> Cardinality(archive) + 1, owner |-> h]}
    ELSE UNCHANGED archive

Returns(h, screen, outcome, recorded) ==
    LET sent == handler[h].pc
        own == [handler EXCEPT ![h].own = @ + (IF recorded THEN 1 ELSE 0)]
    IN  /\ sent \in Routes /\ May(h)
        /\ sent \notin Analyses => screen = "triggered"
        /\ screen # "triggered" \/ endpointMode # "local_vllm" => outcome = "call_fails"
        /\ RecordCall(h, recorded)
        /\ answers' = [answers EXCEPT ![h] =
             ParsedAnswer(handler[h].route, sent, EndpointAnswer(sent, screen, outcome))]
        /\ handler' = [own EXCEPT ![h].pc = IF h \in Demos THEN handler[h].from ELSE "done",
                                  ![h].route = None]
        /\ UNCHANGED <<endpointMode, configured>> /\ Loop

CallFails(h, failure, recorded) ==
    LET sent == handler[h].pc
        next == NextRoute(h, sent, failure)
        counted == handler[h].own + (IF recorded THEN 1 ELSE 0)
    IN  /\ sent \in Routes /\ May(h)
        /\ RecordCall(h, recorded)
        /\ IF next # None
           THEN Go(h, [handler[h] EXCEPT !.pc = next, !.own = counted]) /\ UNCHANGED answers
           ELSE /\ answers' = [answers EXCEPT ![h] = LocalAnswer(handler[h].route, failure)]
                /\ Go(h, [handler[h] EXCEPT !.pc = IF h \in Demos THEN handler[h].from ELSE "done",
                                            !.route = None, !.own = counted])
        /\ UNCHANGED <<endpointMode, configured>> /\ Loop

(* A request for one answer.                                               *)
AskOnce(h, route) ==
    /\ h \in Requests /\ handler[h].pc = "rest"
    /\ Go(h, [handler[h] EXCEPT !.pc = "ask", !.route = route])
    /\ UNCHANGED <<endpointMode, configured, archive, answers>> /\ Loop

(***************************************************************************)
(* The demo.  Between its awaits it holds the event loop, calls included.  *)
(***************************************************************************)
Ask(d, route, then) == Go(d, [handler[d] EXCEPT !.pc = "ask", !.route = route, !.from = then])
Endpoint == UNCHANGED <<endpointMode, configured, archive, answers>>

(* The experiment is created, the evidence so far is noted, and the        *)
(* scenario is generated.                                                  *)
StartDemo(d, mode) ==
    /\ handler[d].pc = "rest" /\ loop = None /\ loop' = d
    /\ experiment' = [experiment EXCEPT ![d].status = "created"]
    /\ Go(d, [Resting EXCEPT !.pc = "ask", !.route = "abuse", !.from = "reset", !.mode = mode,
                             !.before = {r.call : r \in archive}])
    /\ UNCHANGED <<cloud, finalized>> /\ Endpoint

(* The arena is reset, and ticks until it has an incident or the window    *)
(* ends: the loop runs other tasks meanwhile.                              *)
RunWindow(d) ==
    /\ handler[d].pc = "reset" /\ loop = d /\ loop' = None
    /\ Go(d, [handler[d] EXCEPT !.pc = "ticking"])
    /\ UNCHANGED <<cloud, experiment, finalized>> /\ Endpoint

WindowEnds(d, incident) ==
    /\ handler[d].pc = "ticking" /\ loop = None /\ loop' = d
    /\ IF incident THEN Ask(d, "explain", "investigate") ELSE Go(d, [handler[d] EXCEPT !.pc = "tournament"])
    /\ UNCHANGED <<cloud, experiment, finalized>> /\ Endpoint

Investigate(d) ==
    /\ handler[d].pc = "investigate" /\ loop = d
    /\ Ask(d, "alert", "tournament")
    /\ UNCHANGED <<loop, cloud, experiment, finalized>> /\ Endpoint

(* The local tournament runs, and a cloud one is submitted when the job    *)
(* commands are configured.                                                *)
StartTournaments(d, submit) ==
    /\ handler[d].pc = "tournament" /\ loop = d
    /\ handler[d].mode = "local" => submit = "not_configured"
    /\ cloud' = [cloud EXCEPT ![d] = IF submit = "not_configured" THEN None ELSE submit]
    /\ Go(d, [handler[d] EXCEPT !.pc = "save", !.from = cloud'[d]])
    /\ UNCHANGED <<loop, experiment, finalized>> /\ Endpoint

CloudTournamentEnds(d) ==
    /\ cloud[d] = "running"
    /\ \E s \in {"completed", "failed"} : cloud' = [cloud EXCEPT ![d] = s]
    /\ UNCHANGED <<handler, loop, experiment, finalized>> /\ Endpoint

(* The status is of the tournament as it was submitted.                    *)
CloudPending(d) == handler[d].mode = "nebius" /\ handler[d].from \notin {"completed", "failed"}

(* _serverless_job_status and the mode it gives the demo.                  *)
DemoMode(d) ==
    IF handler[d].mode = "local" THEN "local"
    ELSE CASE handler[d].from = "failed" -> "error"
           [] handler[d].from = None -> "real_nebius_pending"
           [] OTHER -> "real_nebius"

FinalStatus(d) ==
    IF DemoMode(d) = "error" THEN "failed"
    ELSE IF CloudPending(d) THEN "submitted" ELSE "completed"

(* The usage is of the calls recorded since the demo began.                *)
SaveDemo(d) ==
    LET recorded == {r \in archive : r.call \notin handler[d].before}
    IN  /\ handler[d].pc = "save" /\ loop = d /\ loop' = None
        /\ experiment' = [experiment EXCEPT ![d] =
             [status |-> FinalStatus(d), calls |-> Cardinality(recorded),
              cost |-> handler[d].from \in {"completed", "failed"}]]
        /\ Go(d, [handler[d] EXCEPT !.pc = "done"])
        /\ UNCHANGED <<cloud, finalized>> /\ Endpoint

(* finalize_serverless_smoke_demo, with the tournament the demo answered.  *)
Finalize(d) ==
    /\ handler[d].pc = "done" /\ cloud[d] \in {"completed", "failed"}
    /\ finalized[d] < MaxFinalize
    /\ experiment' = [experiment EXCEPT ![d].status = cloud[d], ![d].cost = TRUE]
    /\ finalized' = [finalized EXCEPT ![d] = @ + 1]
    /\ UNCHANGED <<handler, loop, cloud>> /\ Endpoint

AiNext ==
    \/ \E h \in Handlers :
        \/ Send(h)
        \/ \E b \in BOOLEAN : \/ \E s \in Screening, o \in Outcomes : Returns(h, s, o, b)
                              \/ \E f \in {"404", "http", "network"} : CallFails(h, f, b)
    \/ \E h \in Requests, r \in Routes : AskOnce(h, r)
    \/ \E d \in Demos :
        \/ \E m \in {"local", "nebius"} : StartDemo(d, m)
        \/ RunWindow(d) \/ Investigate(d) \/ CloudTournamentEnds(d) \/ SaveDemo(d) \/ Finalize(d)
        \/ \E i \in BOOLEAN : WindowEnds(d, i)
        \/ \E s \in {"running", "completed", "failed", "not_configured"} : StartTournaments(d, s)

AiSpec == AiInit /\ [][AiNext]_aiVars

(***************************************************************************)
(* Properties.                                                             *)
(***************************************************************************)
(* An answer names its author.  However a call fell through the routes, an *)
(* answer that deterministic code wrote is either marked mock, or carries  *)
(* the endpoint's own label deterministic_fallback; only the model's work  *)
(* is labelled local_vllm, and a market-abuse scenario called "nebius" is  *)
(* always the model's.                                                     *)
AnswerNamesItsAuthor ==
    \A h \in Handlers : LET a == answers[h] IN
        /\ (a.writer = "model") = (a.label = "local_vllm")
        /\ a.writer = "backend" => a.mode = "mock" /\ a.reason # None
        /\ a.route = "abuse" => (a.mode = "nebius") = (a.writer = "model")

(* A demo's usage counts every call of its own that was recorded, although *)
(* the calls of other handlers are recorded at the same time (and counted  *)
(* with it).                                                               *)
UsageCountsOwnCalls ==
    \A d \in Demos : handler[d].pc = "done" => experiment[d].calls >= handler[d].own

(* A demo submitted to the cloud is completed, or failed, only when its    *)
(* own cloud tournament is, and is not billed before.                      *)
DemoStatusIsHonest ==
    \A d \in Demos :
        handler[d].mode = "nebius" /\ experiment[d].status \in {"completed", "failed"}
        => experiment[d].status = cloud[d] /\ experiment[d].cost

(* An answer says whose it is, a demo's usage counts its own calls, and a  *)
(* demo is completed or failed only as its own tournament is, whichever    *)
(* route falls through and whichever handlers overlap (endpoint app.py,    *)
(* nebius client.py, serverless_smoke.py).                                 *)
ServicesAreHonest == AnswerNamesItsAuthor /\ UsageCountsOwnCalls /\ DemoStatusIsHonest
=============================================================================
