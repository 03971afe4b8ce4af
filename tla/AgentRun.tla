------------------------------ MODULE AgentRun ------------------------------
(***************************************************************************)
(* The run loop of one Agent (crates/browser-use-core/src/agent.rs): the   *)
(* two entry points `run` and `step`, the stop checks, the model call with *)
(* its fallback, the action sequence of a step, the history, the failure   *)
(* accounting, the loop and budget guards, compaction and checkpoints.     *)
(*                                                                         *)
(* `run` and `step` borrow the agent mutably, so the host's own operations *)
(* happen between calls; inside a call the host speaks only through its    *)
(* callbacks.  An action of this module is the code from one await to the  *)
(* next, with the answer of the awaited party chosen by \E or \/.          *)
(***************************************************************************)
EXTENDS Naturals, Sequences, FiniteSetsExt

CONSTANTS
    Plans,           \* the action lists the model may answer with
    InitialActions,  \* settings.initial_actions
    Excluded,        \* kinds of action the settings exclude
    MaxActions,      \* settings.max_actions_per_step
    MaxFailures,     \* settings.max_failures
    FinalResponse,   \* settings.final_response_after_failure
    LoopWindow,      \* settings.loop_detection_window; below 2 never detects
    CompactEvery,    \* compact_every_n_steps
    KeepLast,        \* keep_last_items
    HasFallback,     \* the host has a fallback model to set
    MaxSteps,        \* bound: largest step budget a host passes to `run`
    MaxCalls,        \* bound: calls of `run` and `step` in a behaviour
    MaxRestores      \* bound: agents restored from a checkpoint

\* What the loop tells apart in an action: it ends the sequence by itself
\* ("leave", "done") or is guarded by a look at the page before and after it
\* ("act", "wait"); it counts for loop detection ("act", "leave") or not.
Kinds == {"act", "wait", "leave", "done"}
Terminates(kind) == kind \in {"leave", "done"}

ASSUME AgentAssumption ==
    /\ Plans \subseteq Seq(Kinds)
    /\ InitialActions \in Seq(Kinds)
    /\ Excluded \subseteq Kinds
    /\ {FinalResponse, HasFallback} \subseteq BOOLEAN
    /\ {MaxActions, MaxFailures, LoopWindow, CompactEvery, KeepLast} \subseteq Nat
    /\ {MaxSteps, MaxCalls, MaxRestores} \subseteq Nat

VARIABLES
    history,          \* AgentHistory.items
    compactedAt,      \* last_compaction_step, 0 for None
    initialExecuted,  \* initial_actions_executed
    stopped, paused,
    fallbackLlm,      \* a fallback model is set and not yet taken
    usingFallback,    \* using_fallback_llm
    phase,            \* the await the current call stands at
    purpose,          \* which caller wants the sequence in progress
    plan, results,    \* actions of the step in progress, results so far
    maxSteps, stepsUsed, failures,  \* locals of `run`
    verdict,          \* how the last call returned
    started,          \* actions handed to the executor and not in history
    unseen,           \* a follow-up request no model call has carried
    calls, restores, saved

memory == <<history, compactedAt, initialExecuted>>
controls == <<stopped, paused>>
models == <<fallbackLlm, usingFallback>>
sequence == <<plan, results, started>>
budget == <<maxSteps, stepsUsed, failures>>
host == <<calls, restores, saved>>
vars == <<memory, controls, models, phase, purpose, sequence, budget,
          verdict, unseen, host>>

-----------------------------------------------------------------------------
\* History

Results == {"ok", "error", "done"}
Item(n, actions, outcome) == [step |-> n, plan |-> actions, results |-> outcome]
Has(item, result) == \E i \in 1..Len(item.results) : item.results[i] = result
Final == history[Len(history)]

\* Fault: the items are counted.
LatestStepByCount == Len(history)

\* latest_history_step_number and next_step_number: items without a number
\* are never recorded by the loop, so both are the largest number seen.
Latest(items) == Max({0} \cup {items[i].step : i \in 1..Len(items)})
LatestStep == Latest(history)

\* action_sequence_similarity_signature
Signature(item) == SelectSeq(item.plan, LAMBDA kind : kind \in {"act", "leave"})

RepeatedActionLoop ==
    /\ LoopWindow >= 2
    /\ Len(history) >= LoopWindow
    /\ \A i \in (Len(history) - LoopWindow + 1)..Len(history) :
           /\ Signature(history[i]) # <<>>
           /\ Signature(history[i]) = Signature(Final)

\* Fault: the oldest items are kept instead of the recent ones.
RetainedOldest(items) == SubSeq(items, 1, Min({KeepLast + 1, Len(items)}))

\* retain_first_and_recent_history_items
Retained(items) ==
    IF Len(items) <= KeepLast + 1 THEN items
    ELSE <<items[1]>> \o SubSeq(items, Len(items) - KeepLast + 1, Len(items))

Checkpointed == [history |-> history, compactedAt |-> compactedAt,
                 initialExecuted |-> initialExecuted,
                 stopped |-> stopped, paused |-> paused, unseen |-> unseen]

Init ==
    /\ history = <<>>
    /\ compactedAt = 0
    /\ initialExecuted = FALSE
    /\ stopped = FALSE /\ paused = FALSE
    /\ fallbackLlm = FALSE /\ usingFallback = FALSE
    /\ phase = "idle" /\ purpose = "none"
    /\ plan = <<>> /\ results = <<>> /\ started = 0
    /\ maxSteps = 0 /\ stepsUsed = 0 /\ failures = 0
    /\ verdict = "none"
    /\ unseen = FALSE
    /\ calls = 0 /\ restores = 0
    /\ saved = Checkpointed

-----------------------------------------------------------------------------
\* Leaving a call, and the stop check every call makes over and over

\* The call returns: its locals are gone.  Actions already handed to the
\* executor stay counted in `started` when their results die with the call.
Return(outcome) ==
    /\ phase' = "idle" /\ purpose' = "none" /\ verdict' = outcome
    /\ plan' = <<>> /\ results' = <<>>
    /\ maxSteps' = 0 /\ stepsUsed' = 0 /\ failures' = 0
    /\ UNCHANGED started

\* Fault: a paused agent goes on.
CheckPassesPaused == ~stopped

\* check_stop_requested lets the call go on.
CheckPasses == ~stopped /\ ~paused

\* check_stop_requested ends the call: should_stop asks for a stop, a
\* callback fails, the external status interrupts, or a control is set.
CheckRefuses ==
    /\ \/ /\ stopped' = TRUE
          /\ Return("stopped")
       \/ /\ UNCHANGED stopped
          /\ \/ Return("callback")
             \/ Return("interrupted")
             \/ stopped /\ Return("stopped")
             \/ ~stopped /\ paused /\ Return("paused")
    /\ UNCHANGED <<memory, paused, models, unseen, host>>

GoTo(next) ==
    /\ phase' = next
    /\ UNCHANGED <<purpose, verdict>>

-----------------------------------------------------------------------------
\* The host, between calls

CallRun ==
    /\ phase = "idle" /\ calls < MaxCalls
    /\ \E limit \in 0..MaxSteps : maxSteps' = limit
    /\ phase' = "start" /\ purpose' = "none" /\ verdict' = "none"
    /\ calls' = calls + 1
    /\ started' = 0
    /\ UNCHANGED <<memory, controls, models, plan, results, stepsUsed,
                   failures, unseen, restores, saved>>

CallStep ==
    /\ phase = "idle" /\ calls < MaxCalls
    /\ phase' = "start" /\ purpose' = "single" /\ verdict' = "none"
    /\ calls' = calls + 1
    /\ started' = 0
    /\ UNCHANGED <<memory, controls, models, plan, results, budget, unseen,
                   restores, saved>>

Stop ==
    /\ phase = "idle" /\ calls < MaxCalls
    /\ stopped' = TRUE
    /\ UNCHANGED <<memory, paused, models, phase, purpose, sequence, budget,
                   verdict, unseen, host>>

Pause ==
    /\ phase = "idle" /\ calls < MaxCalls
    /\ paused' = TRUE
    /\ UNCHANGED <<memory, stopped, models, phase, purpose, sequence, budget,
                   verdict, unseen, host>>

Resume ==
    /\ phase = "idle"
    /\ paused' = FALSE
    /\ UNCHANGED <<memory, stopped, models, phase, purpose, sequence, budget,
                   verdict, unseen, host>>

AddNewTask ==
    /\ phase = "idle" /\ calls < MaxCalls
    /\ unseen' = TRUE
    /\ stopped' = FALSE /\ paused' = FALSE
    /\ UNCHANGED <<memory, models, phase, purpose, sequence, budget, verdict,
                   host>>

SetFallbackLlm ==
    /\ HasFallback
    /\ phase = "idle" /\ calls < MaxCalls
    /\ fallbackLlm' \in BOOLEAN
    /\ UNCHANGED <<memory, controls, usingFallback, phase, purpose, sequence,
                   budget, verdict, unseen, host>>

Checkpoint ==
    /\ phase = "idle" /\ restores < MaxRestores
    /\ saved' = Checkpointed
    /\ UNCHANGED <<memory, controls, models, phase, purpose, sequence, budget,
                   verdict, unseen, calls, restores>>

\* from_checkpoint: a new process continues from the last checkpoint, whatever
\* the old one was doing.  The models and the callbacks are supplied anew.
FromCheckpoint ==
    /\ restores < MaxRestores
    /\ restores' = restores + 1
    /\ history' = saved.history
    /\ compactedAt' = saved.compactedAt
    /\ initialExecuted' = saved.initialExecuted
    /\ stopped' = saved.stopped /\ paused' = saved.paused
    /\ fallbackLlm' = FALSE /\ usingFallback' = FALSE
    /\ phase' = "idle" /\ purpose' = "none" /\ verdict' = "none"
    /\ plan' = <<>> /\ results' = <<>> /\ started' = 0
    /\ maxSteps' = 0 /\ stepsUsed' = 0 /\ failures' = 0
    /\ unseen' = saved.unseen
    /\ UNCHANGED <<calls, saved>>

-----------------------------------------------------------------------------
\* The entry of a call, and the head of the loop of `run`

\* `run` executes the initial actions once, then ends at once when the last
\* item of the history is done; `step` goes straight to the page.
Enter ==
    /\ phase = "start"
    /\ CheckPasses
    /\ \/ /\ purpose = "single"
          /\ GoTo("observe")
          /\ UNCHANGED <<initialExecuted, plan>>
       \/ /\ purpose = "none"
          /\ ~initialExecuted /\ InitialActions # <<>>
          /\ initialExecuted' = TRUE
          /\ plan' = InitialActions
          /\ phase' = "turn" /\ purpose' = "initial"
          /\ UNCHANGED verdict
       \/ /\ purpose = "none"
          /\ initialExecuted \/ InitialActions = <<>>
          /\ GoTo(IF history # <<>> /\ Has(Final, "done") THEN "finish" ELSE "head")
          /\ UNCHANGED <<initialExecuted, plan>>
    /\ UNCHANGED <<history, compactedAt, controls, models, results, started,
                   budget, unseen, host>>

EntryRefused ==
    /\ phase = "start"
    /\ CheckRefuses

\* Fault: one step more than the budget.
BudgetLeftOffByOne == stepsUsed <= maxSteps

BudgetLeft == stepsUsed < maxSteps

\* The check at the head of the loop and the one that opens the step follow
\* each other with nothing in between: one check stands for both.
NextStep ==
    /\ phase = "head" /\ BudgetLeft
    /\ CheckPasses
    /\ stepsUsed' = stepsUsed + 1
    /\ purpose' = IF stepsUsed' = maxSteps THEN "last" ELSE "normal"
    /\ phase' = "observe"
    /\ UNCHANGED <<memory, controls, models, sequence, maxSteps, failures,
                   verdict, unseen, host>>

NextStepRefused ==
    /\ phase = "head" /\ BudgetLeft
    /\ CheckRefuses

StepLimitReached ==
    /\ phase = "head" /\ ~BudgetLeft
    /\ Return("stepLimit")
    /\ UNCHANGED <<memory, controls, models, unseen, host>>

-----------------------------------------------------------------------------
\* One step: look at the page, ask the model, act

\* session.state answers, or fails and ends the call.
Observe ==
    /\ phase = "observe"
    /\ \/ GoTo("ask") /\ UNCHANGED <<sequence, budget>>
       \/ Return("browserError")
    /\ UNCHANGED <<memory, controls, models, unseen, host>>

\* An item with a number of its own closes the step in progress.
Record(actions, outcome) ==
    /\ history' = Append(history,
           Item(IF purpose = "initial" THEN 0 ELSE LatestStep + 1, actions, outcome))
    /\ phase' = IF purpose = "single" THEN "idle" ELSE "recorded"
    /\ purpose' = IF purpose = "single" THEN "none" ELSE purpose
    /\ verdict' = IF purpose = "single" THEN "ok" ELSE verdict
    /\ plan' = <<>> /\ results' = <<>> /\ started' = 0
    /\ UNCHANGED <<compactedAt, initialExecuted, controls, models, budget, host>>

\* record_model_error: an item with one error and no model output
RecordError == Record(<<>>, <<"error">>)

\* The model fails for good, times out or answers with something unreadable:
\* `run` records an error item, `step` returns the error.
NoAnswer(outcome) ==
    IF purpose = "single"
    THEN Return(outcome) /\ UNCHANGED <<memory, controls, models, host>>
    ELSE RecordError

\* invoke_json_with_fallback: a retryable error of the first model hands the
\* request to the fallback model, once in the life of the agent.
SwitchToFallback ==
    /\ phase = "ask"
    /\ ~usingFallback /\ fallbackLlm
    /\ usingFallback' = TRUE /\ fallbackLlm' = FALSE
    /\ unseen' = FALSE
    /\ UNCHANGED <<memory, controls, phase, purpose, sequence, budget, verdict,
                   host>>

ModelFails ==
    /\ phase = "ask"
    /\ NoAnswer("llmError")
    /\ unseen' = FALSE

\* The llm timeout: the model need not answer.
ModelTimesOut ==
    /\ phase = "ask"
    /\ NoAnswer("llmTimedOut")
    /\ unseen' = FALSE

MalformedAnswer ==
    /\ phase = "ask"
    /\ NoAnswer("invalidOutput")
    /\ unseen' = FALSE

\* Fault: the last step of the budget takes any answer.
AcceptableAtLast(answer) == purpose = "apology" => answer = <<"done">>

\* is_single_done_output, where a final answer is asked for
Acceptable(answer) == purpose \in {"last", "apology"} => answer = <<"done">>

\* The transcript is saved, a last answer must be a single done, the rest is
\* cut to max_actions_per_step.
Answer ==
    /\ phase = "ask"
    /\ unseen' = FALSE
    /\ \E answer \in Plans :
          \/ ~Acceptable(answer) /\ RecordError
          \/ /\ Acceptable(answer)
             /\ plan' = SubSeq(answer, 1, Min({MaxActions, Len(answer)}))
             /\ GoTo("told")
             /\ UNCHANGED <<memory, controls, models, results, started, budget,
                            host>>

ConversationSaveFails ==
    /\ phase = "ask"
    /\ unseen' = FALSE
    /\ Return("conversationSave")
    /\ UNCHANGED <<memory, controls, models, host>>

\* The step callbacks have run and the check after them passes: an answer with
\* an excluded action is an error item, any other starts to execute.
Accept ==
    /\ phase = "told"
    /\ CheckPasses
    /\ UNCHANGED unseen
    /\ IF \E i \in 1..Len(plan) : plan[i] \in Excluded
       THEN RecordError
       ELSE /\ GoTo("turn")
            /\ UNCHANGED <<memory, controls, models, sequence, budget, host>>

\* A step callback fails, or the check after the callbacks refuses.
AcceptRefused ==
    /\ phase = "told"
    /\ CheckRefuses

-----------------------------------------------------------------------------
\* execute_agent_sequence: one result for each action executed so far, so the
\* next action is the one after the last result.

At == Len(results) + 1

\* Fault: a done action runs wherever it stands.
NeverLate == FALSE

\* A done action behind another one
DoneComesLate == At > 1 /\ plan[At] = "done"

\* The check before an action (the one after the pause between two actions is
\* the same check again).  A done action that comes late ends the sequence.
Turn ==
    /\ phase = "turn" /\ At <= Len(plan)
    /\ CheckPasses
    /\ UNCHANGED unseen
    /\ \/ DoneComesLate /\ Record(plan, results)
       \/ /\ ~DoneComesLate
          /\ GoTo(IF Terminates(plan[At]) THEN "act" ELSE "guard")
          /\ started' = IF Terminates(plan[At]) THEN started + 1 ELSE started
          /\ UNCHANGED <<memory, controls, models, plan, results, budget, host>>

TurnRefused ==
    /\ phase = "turn" /\ At <= Len(plan)
    /\ CheckRefuses

SequenceEnds ==
    /\ phase = "turn" /\ At > Len(plan)
    /\ UNCHANGED unseen
    /\ Record(plan, results)

\* session.state before an action that might change the page
LookBefore ==
    /\ phase = "guard"
    /\ UNCHANGED unseen
    /\ \/ /\ GoTo("act")
          /\ started' = started + 1
          /\ UNCHANGED <<memory, controls, models, plan, results, budget, host>>
       \/ Record(plan, Append(results, "error"))

\* Fault: only an error stops the sequence.
StopsOnError(result, kind) == result = "error"

\* The action is the last of its sequence.
ShouldStop(result, kind) == result # "ok" \/ Terminates(kind)

\* The executor answers, within the action timeout.
Act ==
    /\ phase = "act"
    /\ UNCHANGED unseen
    /\ \E result \in {"error", IF plan[At] = "done" THEN "done" ELSE "ok"} :
          IF ShouldStop(result, plan[At])
          THEN Record(plan, Append(results, result))
          ELSE /\ results' = Append(results, result)
               /\ GoTo("after")
               /\ UNCHANGED <<memory, controls, models, plan, started, budget, host>>

\* Fault: the initial actions have no timeout.
StepActionTimesOut ==
    /\ phase = "act" /\ purpose # "initial"
    /\ UNCHANGED unseen
    /\ Record(plan, Append(results, "error"))

\* timed_out_action_result
ActionTimesOut ==
    /\ phase = "act"
    /\ UNCHANGED unseen
    /\ Record(plan, Append(results, "error"))

\* Fault: the error ends the call, like that of the first look at the page.
LookAfterReturns ==
    /\ Return("browserError")
    /\ UNCHANGED <<memory, controls, models, host>>

LookAfterFails == Record(plan, Append(results, "error"))

\* session.state after the action: another url, or no answer, ends the sequence.
LookAfter ==
    /\ phase = "after"
    /\ UNCHANGED unseen
    /\ \/ GoTo("turn") /\ UNCHANGED <<memory, controls, models, sequence, budget, host>>
       \/ Record(plan, results)
       \/ LookAfterFails

\* Fault: the loop of `run` calls its steps without the timeout.
UnderTimeoutAlone == {"single"}

\* The callers that put their step under the step timeout
UnderTimeout == {"single", "normal", "last"}

\* The step timeout drops the step wherever it stands, with its results.  The
\* initial actions and the final response after failures run outside it.
StepTimesOut ==
    /\ phase \in {"observe", "ask", "told", "turn", "guard", "act", "after"}
    /\ purpose \in UnderTimeout
    /\ Return("stepTimedOut")
    /\ UNCHANGED <<memory, controls, models, unseen, host>>

-----------------------------------------------------------------------------
\* After a step of `run`

InitialActionsRecorded ==
    /\ phase = "recorded" /\ purpose = "initial"
    /\ phase' = IF Has(Final, "done") THEN "finish" ELSE "head"
    /\ purpose' = "none"
    /\ UNCHANGED <<memory, controls, models, sequence, budget, verdict, unseen, host>>

StepIsDone ==
    /\ phase = "recorded" /\ purpose # "initial"
    /\ Has(Final, "done")
    /\ phase' = "finish" /\ purpose' = "none"
    /\ UNCHANGED <<memory, controls, models, sequence, budget, verdict, unseen, host>>

StepNotDone ==
    /\ phase = "recorded" /\ purpose \in {"normal", "last"}
    /\ ~Has(Final, "done")

AfterStepRefused ==
    /\ StepNotDone
    /\ CheckRefuses

LoopDetected ==
    /\ StepNotDone /\ CheckPasses
    /\ RepeatedActionLoop
    /\ Return("loopDetected")
    /\ UNCHANGED <<memory, controls, models, unseen, host>>

\* Fault: failures add up over the run.
KeepFailures == UNCHANGED failures

ResetFailures == failures' = 0

StepSucceeds ==
    /\ StepNotDone /\ CheckPasses
    /\ ~RepeatedActionLoop /\ ~Has(Final, "error")
    /\ ResetFailures
    /\ phase' = "compact" /\ purpose' = "none"
    /\ UNCHANGED <<memory, controls, models, sequence, maxSteps, stepsUsed,
                   verdict, unseen, host>>

StepFails ==
    /\ StepNotDone /\ CheckPasses
    /\ ~RepeatedActionLoop /\ Has(Final, "error")
    /\ failures + 1 < MaxFailures
    /\ failures' = failures + 1
    /\ phase' = "compact" /\ purpose' = "none"
    /\ UNCHANGED <<memory, controls, models, sequence, maxSteps, stepsUsed,
                   verdict, unseen, host>>

\* The failures reach max_failures: the run ends, or asks once more for a
\* single done (record_final_response_after_failure opens with another check,
\* which follows the one above with nothing in between).
TooManyFailures ==
    /\ StepNotDone /\ CheckPasses
    /\ ~RepeatedActionLoop /\ Has(Final, "error")
    /\ failures + 1 >= MaxFailures
    /\ IF FinalResponse
       THEN /\ failures' = failures + 1
            /\ phase' = "observe" /\ purpose' = "apology"
            /\ UNCHANGED <<sequence, maxSteps, stepsUsed, verdict>>
       ELSE Return("maxFailures")
    /\ UNCHANGED <<memory, controls, models, unseen, host>>

FinalResponseFails ==
    /\ phase = "recorded" /\ purpose = "apology"
    /\ ~Has(Final, "done")
    /\ Return("maxFailures")
    /\ UNCHANGED <<memory, controls, models, unseen, host>>

\* maybe_compact_history does nothing when compaction is off or not due, the
\* text is short, or the summary request fails.
SkipCompaction ==
    /\ phase = "compact"
    /\ GoTo("head")
    /\ UNCHANGED <<memory, controls, models, sequence, budget, unseen, host>>

CompactHistory ==
    /\ phase = "compact"
    /\ LatestStep >= compactedAt + CompactEvery \/ CompactEvery = 0
    /\ history' = Retained(history)
    /\ compactedAt' = LatestStep
    /\ GoTo("head")
    /\ UNCHANGED <<initialExecuted, controls, models, sequence, budget, unseen, host>>

\* finish_successful_run: the judge never fails the run, writing the GIF and
\* the done callbacks may.
Finish ==
    /\ phase = "finish"
    /\ \/ Return("ok")
       \/ Return("gifSave")
       \/ Return("callback")
    /\ UNCHANGED <<memory, controls, models, unseen, host>>

-----------------------------------------------------------------------------
Host == CallRun \/ CallStep \/ Stop \/ Pause \/ Resume \/ AddNewTask
        \/ SetFallbackLlm \/ Checkpoint \/ FromCheckpoint

Checks == EntryRefused \/ NextStepRefused \/ AcceptRefused \/ TurnRefused
          \/ AfterStepRefused

\* What the agent's own code does as soon as it is scheduled; user callbacks
\* and file writes are taken to return.
Proceed == Enter \/ NextStep \/ StepLimitReached \/ Accept \/ Turn
           \/ SequenceEnds \/ InitialActionsRecorded \/ StepIsDone
           \/ LoopDetected \/ StepSucceeds \/ StepFails \/ TooManyFailures
           \/ FinalResponseFails \/ SkipCompaction \/ CompactHistory \/ Finish

Timers == ModelTimesOut \/ ActionTimesOut \/ StepTimesOut

Model == SwitchToFallback \/ ModelFails \/ MalformedAnswer \/ Answer
         \/ ConversationSaveFails

Looks == Observe \/ LookBefore \/ LookAfter

Next == Host \/ Checks \/ Proceed \/ Timers \/ Model \/ Looks \/ Act

Spec == Init /\ [][Next]_vars

\* The agent's code runs and its timers fire; nobody else has to answer.
FairSpec ==
    /\ Spec
    /\ WF_vars(Proceed \/ Checks)
    /\ WF_vars(ModelTimesOut) /\ WF_vars(ActionTimesOut) /\ WF_vars(StepTimesOut)

-----------------------------------------------------------------------------
\* Properties

Phases == {"idle", "start", "head", "observe", "ask", "told", "turn", "guard",
           "act", "after", "recorded", "compact", "finish"}
Purposes == {"none", "single", "initial", "normal", "last", "apology"}
Refusals == {"stopped", "paused", "interrupted", "callback"}
Verdicts == Refusals \cup
    {"none", "ok", "browserError", "llmError", "llmTimedOut", "invalidOutput",
     "conversationSave", "stepTimedOut", "stepLimit", "loopDetected",
     "maxFailures", "gifSave"}
Items == [step : Nat, plan : Seq(Kinds), results : Seq(Results)]

\* Every variable of the agent and of the call in progress has its type, and
\* a step counter of `run` never passes the budget the host gave it.
TypeOK ==
    /\ history \in Seq(Items) /\ compactedAt \in Nat
    /\ {initialExecuted, stopped, paused, fallbackLlm, usingFallback, unseen}
           \subseteq BOOLEAN
    /\ phase \in Phases /\ purpose \in Purposes /\ verdict \in Verdicts
    /\ plan \in Seq(Kinds) /\ results \in Seq(Results) /\ started \in Nat
    /\ maxSteps \in 0..MaxSteps /\ stepsUsed \in 0..maxSteps /\ failures \in Nat
    /\ calls \in 0..MaxCalls /\ restores \in 0..MaxRestores

\* A call that is about to report success rests on an answer: the very last
\* result of the very last item is the done action (what AgentHistory::is_done,
\* the judge and the final result of the history look at, while `run` itself
\* looks for a done anywhere in the item).
SuccessIsAnswered ==
    phase = "finish" =>
        /\ history # <<>>
        /\ Final.results # <<>> /\ Final.results[Len(Final.results)] = "done"

\* A done action only ever executes as the first of its sequence: the model has
\* seen the page it declares final, in every item of the history.
DoneStandsAlone ==
    \A i \in 1..Len(history) :
        Has(history[i], "done") => Len(history[i].results) = 1

\* The failure count of a run is the number of failed steps at the end of its
\* history: it stays below max_failures while the run goes on, that many last
\* items (of those compaction keeps) have an error, and it is zero only after a
\* step without one.
FailuresAreConsecutive ==
    phase = "head" /\ stepsUsed > 0 =>
        /\ failures = 0 \/ failures < MaxFailures
        /\ failures <= stepsUsed
        /\ \A k \in 1..Min({failures, KeepLast}) :
               Has(history[Len(history) + 1 - k], "error")
        /\ failures = 0 /\ KeepLast > 0 => ~Has(Final, "error")

\* A run that used up its budget failed at its last step: the done-only last
\* step either answered or was recorded as an error, and never ran an action.
\* (With max_actions_per_step = 0 even the done is cut off.)
BudgetEndsInError ==
    /\ (purpose \in {"last", "apology"} /\ phase \in {"turn", "guard", "act", "after"}
           => \A i \in 1..Len(plan) : plan[i] = "done")
    /\ (phase = "head" /\ stepsUsed = maxSteps /\ maxSteps > 0
            /\ MaxActions > 0 /\ KeepLast > 0 => Has(Final, "error"))

\* Whatever the executor did stands in the history, unless the call was told
\* to stop, interrupted or timed out in the middle of a step: no browser error
\* and no error of the model loses an executed action.
WorkIsRecorded ==
    phase = "idle" /\ started > 0 =>
        verdict \in {"stopped", "interrupted", "callback", "stepTimedOut"}

\* Step numbers name steps: no two items share one, whatever the order of run
\* and step, initial actions, compaction, lost steps and checkpoints (the
\* transcript of a step is stored under its number).
StepNumbersDistinct ==
    \A i, j \in 1..Len(history) : history[i].step = history[j].step => i = j

\* The compaction clock never runs ahead of the history, else compaction stops
\* coming due.
CompactionNotAhead == compactedAt <= LatestStep

\* While a stop or a pause is set no call executes an action or adds to the
\* history: a stopped agent stays so until a new task, a paused one until it
\* is resumed.
ControlsHold ==
    [][(stopped \/ paused) /\ restores' = restores
           => history' = history /\ started' <= started]_vars

\* A step, alone or in a run, ends within its timeout though neither the model
\* nor the browser ever answers.
StepsEnd ==
    purpose \in {"single", "normal", "last"} /\ phase # "start"
        ~> phase \in {"idle", "recorded"}

\* Every call returns, provided the browser answers session.state: the initial
\* actions and the final response after failures run outside the step timeout.
CallsReturn == WF_vars(Looks) => ((phase # "idle") ~> (phase = "idle"))

-----------------------------------------------------------------------------
\* The inductive invariant behind the safety properties: what the agent's own
\* memory, and the copy in the last checkpoint, promise (SoundMemory), and what
\* each await of a call may rely on (the parts named ...Fits).

InSequence == phase \in {"turn", "guard", "act", "after"}

SoundMemory(items, executed, clock) ==
    /\ items \in Seq(Items) /\ executed \in BOOLEAN /\ clock \in Nat
    /\ Latest(items) \in Nat
    /\ \A i \in 1..Len(items) :
           /\ items[i].step <= Latest(items)
           /\ Has(items[i], "done") => Len(items[i].results) = 1
           /\ ~executed => items[i].step > 0
           /\ \A j \in 1..Len(items) : items[i].step = items[j].step => i = j
    /\ KeepLast > 0 => clock <= Latest(items)

SavedFits ==
    /\ SoundMemory(saved.history, saved.initialExecuted, saved.compactedAt)
    /\ {saved.stopped, saved.paused, saved.unseen} \subseteq BOOLEAN

PurposeFits ==
    /\ phase = "start" => purpose \in {"none", "single"}
    /\ phase \in {"idle", "head", "compact", "finish"} => purpose = "none"
    /\ phase \in {"observe", "ask", "told"}
           => purpose \in {"single", "normal", "last", "apology"}
    /\ InSequence => purpose # "none"
    /\ phase = "recorded" => purpose \in {"initial", "normal", "last", "apology"}
    /\ phase \notin {"idle", "start"} => ~stopped /\ ~paused

HistoryFits ==
    /\ phase \in {"recorded", "compact", "finish"} => history # <<>>
    /\ phase = "finish" => Has(Final, "done")
    /\ phase = "compact" \/ (phase = "recorded" /\ purpose # "initial")
           => Final.step = LatestStep
    /\ purpose = "initial" /\ InSequence =>
           /\ initialExecuted
           /\ \A i \in 1..Len(history) : history[i].step > 0

SequenceFits ==
    /\ \A i \in 1..Len(results) : results[i] = "ok"
    /\ ~InSequence => results = <<>>
    /\ phase \in {"guard", "act"} =>
           /\ At <= Len(plan)
           /\ plan[At] = "done" => At = 1 /\ phase = "act"
    /\ started > 0 => InSequence \/ phase = "idle"

BudgetFits ==
    /\ phase \in {"idle", "start"} \/ purpose \in {"single", "initial"}
           => stepsUsed = 0
    /\ purpose = "normal" => stepsUsed < maxSteps
    /\ purpose \in {"last", "apology"} /\ (InSequence \/ phase = "told") =>
           /\ \A i \in 1..Len(plan) : plan[i] = "done"
           /\ MaxActions > 0 => plan # <<>>
    /\ purpose \in {"last", "apology"} /\ InSequence =>
           results = <<>> /\ phase \in {"turn", "act"}
    /\ MaxActions > 0 /\ phase = "recorded" /\ purpose = "last"
           => Has(Final, "done") \/ Has(Final, "error")
    /\ MaxActions > 0 /\ phase = "compact" /\ stepsUsed = maxSteps
           => Has(Final, "error")

\* The agent's memory and its last checkpoint are sound, and wherever the call
\* stands its purpose, its plan, its results and its budget fit the phase.
Inv ==
    /\ TypeOK
    /\ SoundMemory(history, initialExecuted, compactedAt) /\ SavedFits
    /\ PurposeFits /\ HistoryFits /\ SequenceFits /\ BudgetFits
    /\ WorkIsRecorded /\ BudgetEndsInError

-----------------------------------------------------------------------------
\* What the documents say and the code does not do

\* A run that gets to its first step has run its initial actions
\* (docs/CODEBASE_GUIDE.md: "run initial actions exactly once").
InitialActionsRan ==
    phase = "head" /\ InitialActions # <<>> =>
        \E i \in 1..Len(history) : history[i].step = 0

\* A run that succeeds has put every follow-up request before the model
\* (agent.rs: "Runs the agent until completion").
FollowUpIsSeen == phase = "finish" => ~unseen

=============================================================================
