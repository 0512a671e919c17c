------------------------------ MODULE AiBoundary ------------------------------
(***************************************************************************)
(* The Java client of the AI service (AiServiceClient.java) over the       *)
(* service itself: one deadline for the whole analysis, and below it a     *)
(* bulkhead around a circuit breaker around a retry around one HTTP call,  *)
(* all of them but the deadline on a worker thread.                        *)
(*                                                                         *)
(* The deadline answers the caller and interrupts the worker, which lets   *)
(* go of its permits when it notices; the AI service goes on with the run  *)
(* it has.  Resilience4j is external: the breaker counts the last calls,   *)
(* opens on a share of failures, lets a few calls through after a pause,   *)
(* and hands back the permission of a call it is told to ignore.           *)
(*                                                                         *)
(* Time passes only in a scene that is timed, and never past a moment at   *)
(* which something is due: a deadline, the timeout of the chat model, or a *)
(* message that is underway longer than Latency.                           *)
(***************************************************************************)
EXTENDS AnalysisWorkflow, FiniteSets

CONSTANTS
  Permits,       \* ai.service.bulkhead-max-concurrent-calls
  WindowSize,    \* ai.service.circuit-sliding-window-size
  MinimumCalls,  \* ai.service.circuit-minimum-calls
  FailureRate,   \* ai.service.circuit-failure-rate-threshold, in percent
  TrialCalls,    \* calls the breaker lets through when half open
  Latency        \* bound: ticks an HTTP message takes at most

ASSUME BoundaryAssumption ==
  /\ Permits \in Nat \ {0}
  /\ MinimumCalls \in 2 .. WindowSize
  /\ FailureRate \in 1 .. 100
  /\ TrialCalls \in Nat \ {0}
  /\ Latency \in Nat /\ 2 * Latency <= Margin

VARIABLES
  call,    \* call[r]: the caller's view and its worker's
  breaker  \* state, the outcomes it counts (TRUE is a failure), calls left, cooled

vars == <<scene, python, call, breaker>>

Fallback(reason) == [kind |-> "fallback", reason |-> reason]
Success(answer) == [kind |-> "success", answer |-> answer]
Rejected(code) == [kind |-> "rejected", code |-> code]
Nothing == [kind |-> "nothing"]

NewCall == [worker |-> "none", clock |-> 0, attempts |-> 0, cut |-> FALSE,
            result |-> Nothing]
Closed == [state |-> "closed", window |-> <<>>, left |-> 0, cooled |-> FALSE]

Waiting(r) == call[r].worker # "none" /\ call[r].result = Nothing
Attempt(r) == <<r, call[r].attempts>>

\* Threads that are inside the bulkhead.
Inside == {r \in Caller : call[r].worker \in {"calling", "backoff"}}

Init ==
  /\ PythonInit
  /\ call = [r \in Caller |-> NewCall]
  /\ breaker = Closed

----------------------------------------------------------------------------
(* The circuit breaker. *)

\* Calls after which the share of failures is looked at.
Enough == IF breaker.state = "closed" \/ MinimumCalls < TrialCalls
          THEN MinimumCalls ELSE TrialCalls

TooMany(window) ==
  Cardinality({i \in DOMAIN window : window[i]}) * 100 >= FailureRate * Len(window)

Open == [Closed EXCEPT !.state = "open"]

\* An outcome is counted; one that comes in while the breaker is open is not.
Counted(failed) ==
  LET window == Append(breaker.window, failed)
  IN  IF breaker.state = "open" THEN breaker
      ELSE IF Len(window) >= Enough /\ TooMany(window) THEN Open
      ELSE IF Len(window) >= Enough /\ breaker.state = "half_open" THEN Closed
      ELSE [breaker EXCEPT !.window =
              IF Len(window) > WindowSize THEN Tail(window) ELSE window]

\* AiRequestCancelledException is neither success nor failure.
Ignored == IF breaker.state = "half_open"
           THEN [breaker EXCEPT !.left = @ + 1] ELSE breaker

Admits == \/ breaker.state = "closed"
          \/ breaker.state = "open" /\ breaker.cooled
          \/ breaker.state = "half_open" /\ breaker.left > 0

Admitted ==
  CASE breaker.state = "closed" -> breaker
    [] breaker.state = "open" ->
         [Closed EXCEPT !.state = "half_open", !.left = TrialCalls - 1]
    [] breaker.state = "half_open" -> [breaker EXCEPT !.left = @ - 1]

\* The pause of the open breaker is over.
CoolDown ==
  /\ breaker.state = "open" /\ ~breaker.cooled
  /\ breaker' = [breaker EXCEPT !.cooled = TRUE]
  /\ UNCHANGED <<scene, python, call>>

----------------------------------------------------------------------------
(* The client. *)

\* The worker is done; its caller hears of it unless the deadline spoke first.
WorkerEnds(r, result) ==
  call' = [call EXCEPT ![r].worker = "ended",
                       ![r].result = IF @ = Nothing THEN result ELSE @]

Analyze(r) ==
  /\ r \in scene.callers
  /\ call[r].worker = "none"
  /\ call' = [call EXCEPT ![r].worker = "entering"]
  /\ UNCHANGED <<scene, python, breaker>>

Send(r, number) ==
  /\ call' = [call EXCEPT ![r].worker = "calling", ![r].attempts = number]
  /\ run' = [run EXCEPT ![<<r, number>>].at = "sent"]
  /\ UNCHANGED <<scene, served, ready>>

Enter(r) ==
  /\ call[r].worker = "entering" /\ ~call[r].cut
  /\ Cardinality(Inside) < Permits
  /\ Admits
  /\ breaker' = Admitted
  /\ Send(r, 1)

\* The bulkhead stays full for its whole wait, or the breaker does not permit the
\* call: ai_service_unavailable, and nothing was sent.
TurnedAway(r) ==
  /\ call[r].worker = "entering" /\ ~call[r].cut
  /\ Cardinality(Inside) >= Permits \/ ~Admits
  /\ WorkerEnds(r, Fallback("ai_service_unavailable"))
  /\ UNCHANGED <<scene, python, breaker>>

\* AiTransientFailureException: retried, and counted when no attempt is left.
AttemptFails(r, reason) ==
  IF call[r].attempts < MaxAttempts
  THEN call' = [call EXCEPT ![r].worker = "backoff"] /\ UNCHANGED breaker
  ELSE WorkerEnds(r, Fallback(reason)) /\ breaker' = Counted(TRUE)

\* Mutant: a conflict of releases is taken for a failure of the service.
TransientOrConflict(code) == code \in {409, 429, 500, 503}

\* invoke(): 429 and every 5xx but 504.
Transient(code) == code \in {429, 500, 503}

\* The HTTP response of the current attempt.
Receive(r) ==
  LET reply == run[Attempt(r)].reply
  IN  /\ call[r].worker = "calling"
      /\ run[Attempt(r)].at = "replied"
      /\ run' = [run EXCEPT ![Attempt(r)].at = "heard"]
      /\ \/ /\ reply.code = 200
            /\ WorkerEnds(r, Success(reply.answer)) /\ breaker' = Counted(FALSE)
         \/ /\ reply.code = 504
            /\ WorkerEnds(r, Fallback("processing_timeout"))
            /\ breaker' = Counted(FALSE)
         \/ Transient(reply.code) /\ AttemptFails(r, "ai_service_error")
         \/ /\ reply.code \in Rejections /\ ~Transient(reply.code)
            /\ WorkerEnds(r, Rejected(reply.code)) /\ breaker' = Counted(FALSE)
      /\ UNCHANGED <<scene, served, ready>>

\* ResourceAccessException; the run the service may have goes on.  The timeouts of the
\* HTTP client itself are a second longer than the deadline, which comes first.
ConnectionFails(r) ==
  /\ call[r].worker = "calling" /\ ~call[r].cut
  /\ "connection" \in scene.faults
  /\ AttemptFails(r, "ai_service_unavailable")
  /\ UNCHANGED <<scene, python>>

Retry(r) ==
  /\ call[r].worker = "backoff" /\ ~call[r].cut
  /\ Send(r, call[r].attempts + 1)
  /\ UNCHANGED breaker

\* future.get() gives up: the caller is answered and the worker interrupted.
GivesUp(r, reason) ==
  /\ Waiting(r)
  /\ call' = [call EXCEPT ![r].result = Fallback(reason), ![r].cut = TRUE]
  /\ UNCHANGED <<scene, python, breaker>>

JavaDeadline(r) ==
  /\ call[r].clock >= scene.budget.java
  /\ GivesUp(r, "ai_service_timeout")

\* The thread of the caller is itself interrupted while it waits.
CallerInterrupted(r) ==
  /\ "interrupt" \in scene.faults
  /\ GivesUp(r, "ai_service_unavailable")

\* Mutant: an HTTP call does not notice that it is interrupted.
UnwindPausesOnly(r) ==
  /\ call[r].cut /\ call[r].worker = "backoff"
  /\ WorkerEnds(r, Nothing)
  /\ breaker' = Counted(TRUE)
  /\ UNCHANGED <<scene, python>>

\* An interrupted HTTP call is a cancellation, which the breaker ignores; an
\* interrupted pause ends the retry with the failure it paused after.
Unwind(r) ==
  /\ call[r].cut /\ call[r].worker \in {"entering", "calling", "backoff"}
  /\ WorkerEnds(r, Nothing)
  /\ breaker' = CASE call[r].worker = "calling" -> Ignored
                  [] call[r].worker = "backoff" -> Counted(TRUE)
                  [] OTHER -> breaker
  /\ UNCHANGED <<scene, python>>

----------------------------------------------------------------------------
(* The network and the clock. *)

\* A proxy before the service answers 429 or 503, or something of its own.
Overload(k) ==
  /\ run[k].at = "sent"
  /\ \/ "throttle" \in scene.faults /\ Respond(k, Reply(429))
     \/ "overload" \in scene.faults /\ Respond(k, Reply(503))
     \/ "garble" \in scene.faults /\ Respond(k, Reply(Malformed))
  /\ UNCHANGED <<scene, served, ready, call, breaker>>

\* A message disappears while the connection stays open.
Lose(k) ==
  /\ run[k].at \in {"sent", "replied"}
  /\ "loss" \in scene.faults
  /\ run' = [run EXCEPT ![k] = [NoRun EXCEPT !.at = "lost"]]
  /\ UNCHANGED <<scene, served, ready, call, breaker>>

\* A request or a response that a worker waits for.
Underway(k) ==
  /\ run[k].at \in {"sent", "replied"}
  /\ call[k[1]].worker = "calling" /\ k = Attempt(k[1])

\* Something has to happen before the clock moves on.
Due ==
  \/ \E r \in Caller : Waiting(r) /\
       (call[r].clock >= scene.budget.java \/ call[r].worker \in {"entering", "backoff"})
  \/ \E k \in Runs :
       \/ Processing(k) /\ run[k].age >= scene.budget.processing
       \/ run[k].at = "generating" /\ run[k].wait >= scene.budget.provider
       \/ Underway(k) /\ run[k].wait >= Latency

Tick ==
  /\ scene.timed /\ ~Due
  /\ \E r \in Caller : Waiting(r)
  /\ call' = [r \in Caller |->
       IF Waiting(r) THEN [call[r] EXCEPT !.clock = @ + 1] ELSE call[r]]
  /\ run' = [k \in Runs |->
       IF Processing(k) THEN [run[k] EXCEPT !.age = @ + 1, !.wait = @ + 1]
       ELSE IF Underway(k) THEN [run[k] EXCEPT !.wait = @ + 1]
       ELSE run[k]]
  /\ UNCHANGED <<scene, served, ready, breaker>>

----------------------------------------------------------------------------
Client(r) ==
  \/ Analyze(r) \/ Enter(r) \/ TurnedAway(r) \/ Receive(r) \/ ConnectionFails(r)
  \/ Retry(r) \/ JavaDeadline(r) \/ CallerInterrupted(r) \/ Unwind(r)

Service(k) == PythonStep(k) /\ UNCHANGED <<call, breaker>>

Next ==
  \/ \E r \in Caller : Client(r)
  \/ \E k \in Runs : Service(k) \/ Overload(k) \/ Lose(k)
  \/ Reload /\ UNCHANGED <<call, breaker>>
  \/ CoolDown
  \/ Tick

\* Threads and coroutines run, HTTP messages travel, and time passes.  Nothing is
\* assumed of a fault, of a reload, or of the pause of the breaker.
Fairness ==
  /\ \A r \in Caller :
       WF_vars(Enter(r) \/ TurnedAway(r) \/ Receive(r) \/ Retry(r)
               \/ JavaDeadline(r) \/ Unwind(r))
  /\ \A k \in Runs : WF_vars(Service(k))
  /\ WF_vars(Tick)

Spec == Init /\ [][Next]_vars /\ Fairness

----------------------------------------------------------------------------
(* Properties. *)

Answered(r) == call[r].result.kind = "success"
\* The worker, and no deadline or interrupt, ended the analysis with a fallback.
FellBack(r) == call[r].result.kind = "fallback" /\ ~call[r].cut

AnswerOf(r) == call[r].result.answer

\* What the runs of a call replied, as far as they were heard.
Heard(r) == {run[k].reply.code : k \in {k \in Runs : k[1] = r /\ run[k].at = "heard"}}

\* An answer cites hits it shows as evidence, each once; one that succeeded cites
\* at least one, one that lacks evidence none: the positions survive the policies
\* that reorder them and the fallback that searches again.
CitesOnlyEvidence ==
  \A r \in Caller : Answered(r) =>
    LET answer == AnswerOf(r)
    IN  /\ CitationsHold(answer.cites, IF answer.evidence THEN answer.shown ELSE <<>>)
        /\ answer.status = "SUCCEEDED" => answer.cites # <<>>

\* In live mode an answer speaks for a policy only when that policy applies to the
\* ticket and the answer cites, among the hits it shows, the unchanged text of the
\* policy's chunk; where the chunk of such a policy is in sight no free text is sent,
\* and none of the local rules or the model ever follows a failure.
OnlySourcesPromise ==
  \A r \in Caller : Answered(r) /\ Live =>
    LET answer == AnswerOf(r)
        bound == Bound(scene.ticket, answer, answer.shown)
        spoken == answer.text
    IN  /\ \A p \in DOMAIN Catalog : Catalog[p].name \in spoken =>
             /\ Applies(Catalog[p], scene.ticket, answer)
             /\ \E i \in Range(answer.cites) : i \in DOMAIN answer.shown
                  /\ answer.shown[i] = [chunk |-> Catalog[p].chunk, fresh |-> TRUE]
        /\ bound # {} => spoken \cap {"local", "model"} = {}
        /\ answer.status = "FALLBACK" => spoken \cap {"local", "model"} = {}

\* Java makes up a fallback only when the AI service failed: never once the service
\* has refused the request, and after 504 it does not ask again.
FallbackOnlyForFailures ==
  \A r \in Caller :
    /\ FellBack(r) => Heard(r) \cap ({200} \cup Rejections) = {}
    /\ \A n \in 1 .. call[r].attempts - 1 :
         run[<<r, n>>].at = "heard" => Transient(run[<<r, n>>].reply.code)

\* With the budget of validate_timeout_budget the outer deadline never cuts a first
\* attempt that the service is still bound to answer: ai_service_timeout then
\* means a retry or a message lost, and a slow service is a processing_timeout.
DeadlinesAreAttributed ==
  \A r \in Caller :
    /\ call[r].result = Fallback("ai_service_timeout")
    /\ call[r].attempts = 1
    => run[<<r, 1>>].at = "lost"

\* Every analysis is answered, and its worker leaves the bulkhead also when the
\* caller has long been answered by the deadline.
EveryWorkerLeaves ==
  \A r \in Caller : call[r].worker = "entering" ~>
    (call[r].worker = "ended" /\ call[r].result # Nothing)

\* docs/STATUS.md:313: an unknown program error is not disguised as a fallback.
ProgramErrorIsNoFallback ==
  \A r \in Caller : FellBack(r) => 500 \notin Heard(r)
===============================================================================
