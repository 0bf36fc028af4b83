------------------------------- MODULE ToolLoop -------------------------------
(***************************************************************************)
(* One turn of stream_with_tools (app/streaming_tool_executor.py) with     *)
(* execute_single_tool (app/tool_execution.py): the loop of model calls    *)
(* and tool calls, and the feedback of the user, which a monitor task      *)
(* moves into _pending_feedback while the loop streams and runs tools.     *)
(*                                                                         *)
(* An action runs from one await after which _pending_feedback is read, or *)
(* an event of the provider, to the next.  Texts are left out; a reply of  *)
(* the model is what the code looks for in it.  Of the conversation the    *)
(* state keeps what was added since the last request, behind the message   *)
(* before it.                                                              *)
(***************************************************************************)
EXTENDS Integers, SequencesExt

CONSTANTS
    MaxIterations,   \* ZIYA_MAX_TOOL_ITERATIONS
    MaxRetries,      \* throttle_state["max_retries"]
    IntentCap,       \* _INTENT_CONTINUE_STALL_CAP
    BlockCap,        \* _BLOCK_CONTINUE_STALL_CAP
    MaxEmpties,      \* empty tool calls after which the model is told to do without
    MaxTools,        \* bound on the tool calls of one reply
    MaxFeedback      \* bound on the texts the user sends

ASSUME LimitsAssumption ==
    /\ MaxIterations \in Nat \ {0} /\ MaxTools \in Nat \ {0}
    /\ MaxRetries \in Nat /\ IntentCap \in Nat /\ BlockCap \in Nat
    /\ MaxEmpties \in Nat \ {0} /\ MaxFeedback \in Nat

VARIABLES
    prefill,       \* supports_assistant_prefill
    pc,            \* where the loop is
    iteration,
    conversation,  \* the messages since the last request
    sent,          \* history: how many texts the user has sent
    told,          \* history: how many of them the model has been sent
    pending,       \* the texts of _pending_feedback
    interrupted,   \* an interrupt is in _pending_feedback
    calls,         \* all_tool_calls of this iteration
    results,       \* tool_results: the ids, in order
    running,       \* the call being executed, in a set
    said,          \* assistant_text is not empty
    deferred,      \* deferred_feedback_messages, those of the running tool included
    emptyNow,      \* empty_tool_calls_this_iteration > 0
    retries,       \* throttle_state["retry_count"]
    grace, emptyRetries, fabricated, empties,  \* textonly_grace_used,
                   \* empty_completion_retry_used, hallucination_retries,
                   \* consecutive_empty_tool_calls
    intentStalls, toolsSince, blockStalls, fences,  \* fences: prev_fence_transitions
    narrated       \* history: intents followed up since tools last ran

locals   == <<calls, results, running, said, deferred, emptyNow>>
budgets  == <<retries, grace, emptyRetries, fabricated, empties>>
stalls   == <<intentStalls, toolsSince, blockStalls, fences, narrated>>
feedback == <<sent, told, pending, interrupted>>
vars     == <<prefill, pc, iteration, conversation, feedback, locals, budgets, stalls>>

(* A text of the user may have a word like "stop" in it. *)
Feedback == [stop : BOOLEAN, n : 1 .. MaxFeedback]
Id       == [fake : BOOLEAN, n : 0 .. MaxTools]

(* A message of the conversation: who, the ids of its tool calls or results, *)
(* and the feedback it carries.                                              *)
Message    == [role : {"user", "assistant", "tool"}, ids : Seq(Id), says : Seq(1 .. MaxFeedback)]
Assistant  == [role |-> "assistant", ids |-> <<>>, says |-> <<>>]
Note       == [role |-> "user", ids |-> <<>>, says |-> <<>>]
Says(s)    == [Note EXCEPT !.says = s]
Each(s)    == [i \in 1 .. Len(s) |-> Says(<<s[i]>>)]
If(b, s)   == IF b THEN s ELSE <<>>
Ids(s)     == ToSet(s)

Texts(s)   == [i \in 1 .. Len(s) |-> s[i].n]
Stops      == interrupted \/ \E f \in ToSet(pending) : f.stop
Drained    == pending' = <<>> /\ interrupted' = FALSE
Said(c)    == FlattenSeq([i \in 1 .. Len(c) |-> c[i].says])

TypeOK ==
    /\ prefill \in BOOLEAN
    /\ pc \in {"start", "stream", "before", "running", "after", "tools", "last", "wait", "ended"}
    /\ iteration \in 0 .. MaxIterations /\ retries \in 0 .. MaxRetries
    /\ conversation \in Seq(Message)
    /\ sent \in 0 .. MaxFeedback /\ told \in 0 .. sent
    /\ pending \in Seq(Feedback) /\ interrupted \in BOOLEAN /\ deferred \in Seq(1 .. sent)
    /\ calls \in Seq(Id) /\ Len(calls) <= MaxTools
    /\ results \in Seq(Ids(calls)) /\ Len(results) <= Len(calls)
    /\ running \subseteq Ids(calls) \ Ids(results)
    /\ (running # {}) <=> pc \in {"before", "running"}
    /\ said \in BOOLEAN /\ emptyNow \in BOOLEAN /\ toolsSince \in BOOLEAN
    /\ grace \in 0 .. 3 /\ emptyRetries \in 0 .. 2 /\ fabricated \in 0 .. 3
    /\ empties \in 0 .. MaxEmpties
    /\ intentStalls \in 0 .. IntentCap /\ blockStalls \in 0 .. BlockCap
    /\ fences \in 0 .. 2 /\ narrated \in Nat

Init ==
    /\ prefill \in BOOLEAN
    /\ pc = "start" /\ iteration = 0
    /\ conversation = <<>>
    /\ sent = 0 /\ told = 0 /\ pending = <<>> /\ interrupted = FALSE
    /\ calls = <<>> /\ results = <<>> /\ running = {}
    /\ said = FALSE /\ deferred = <<>> /\ emptyNow = FALSE
    /\ retries = 0 /\ grace = 0 /\ emptyRetries = 0 /\ fabricated = 0 /\ empties = 0
    /\ intentStalls = 0 /\ toolsSince = FALSE /\ blockStalls = 0 /\ fences = 0
    /\ narrated = 0

-----------------------------------------------------------------------------
(* The locals of an iteration are not read after it. *)
Fresh ==
    /\ calls' = <<>> /\ results' = <<>> /\ running' = {}
    /\ said' = FALSE /\ deferred' = <<>> /\ emptyNow' = FALSE

Leave == pc' = "ended" /\ Fresh /\ UNCHANGED iteration

NextIteration == pc' = "start" /\ iteration' = iteration + 1 /\ Fresh

(* The top of the loop: limit, cancellation, feedback, the guard for models  *)
(* that do not go on from an assistant message, and the request.             *)
Exhausted ==
    /\ pc = "start" /\ iteration = MaxIterations
    /\ Leave
    /\ UNCHANGED <<prefill, conversation, feedback, budgets, stalls>>

(* Someone may have set cancel_event. *)
CancelledAtTop ==
    /\ pc = "start" /\ iteration < MaxIterations
    /\ Leave
    /\ UNCHANGED <<prefill, conversation, feedback, budgets, stalls>>

EndsOnAssistant(c) == c # <<>> /\ Last(c).role = "assistant"

Request ==
    /\ pc = "start" /\ iteration < MaxIterations
    /\ LET first == iteration = 0
           c     == conversation \o If(~first, Each(Texts(pending)))
       IN  /\ IF first THEN UNCHANGED <<pending, interrupted>> ELSE Drained
           /\ told' = told + Len(Said(c))
           /\ conversation' = If(c # <<>>, <<[Last(c) EXCEPT !.ids = <<>>, !.says = <<>>]>>)
           /\ IF ~first /\ (Stops \/ (~prefill /\ EndsOnAssistant(c)))
              THEN Leave
              ELSE pc' = "stream" /\ UNCHANGED <<iteration, locals>>
    /\ UNCHANGED <<prefill, sent, budgets, stalls>>

-----------------------------------------------------------------------------
(* The events of the provider's stream. *)

(* The check every 50 events: what is no request to stop goes back into      *)
(* _pending_feedback, in the order it had.                                   *)
MidStream ==
    /\ pc = "stream" /\ Stops
    /\ Leave
    /\ UNCHANGED <<prefill, conversation, feedback, budgets, stalls>>

Text ==
    /\ pc = "stream" /\ ~said
    /\ said' = TRUE
    /\ UNCHANGED <<prefill, pc, iteration, conversation, feedback, calls, results, running, deferred,
                   emptyNow, budgets, stalls>>

ToolUseStart ==
    /\ pc = "stream" /\ Len(calls) < MaxTools
    /\ calls' = Append(calls, [fake |-> FALSE, n |-> Len(calls)])
    /\ UNCHANGED <<prefill, pc, iteration, conversation, feedback, results, running, said, deferred,
                   emptyNow, budgets, stalls>>

(* A result for the call id; tools_executed_this_iteration is results # <<>>. *)
Result(id) == results' = Append(results, id)

(* A tool call written as text and run on the spot, under an id made of the  *)
(* number of results, whatever feedback is pending or deferred.              *)
FakeTool ==
    /\ pc = "stream" /\ Len(calls) < MaxTools
    /\ LET id == [fake |-> TRUE, n |-> Len(results)]
       IN  calls' = Append(calls, id) /\ Result(id)
    /\ said' = TRUE
    /\ UNCHANGED <<prefill, pc, iteration, conversation, feedback, running, deferred, emptyNow, budgets,
                   stalls>>

ToolUseEndRuns(id) ==   \* mutant
    /\ pc = "stream" /\ id \notin Ids(results)
    /\ pc' = "before" /\ running' = {id}
    /\ UNCHANGED <<prefill, iteration, conversation, feedback, calls, results, said, deferred, emptyNow,
                   budgets, stalls>>

(* Once feedback has come in, the remaining calls of the reply get a stub;   *)
(* so does a call without proper arguments, which is counted.                *)
ToolUseEnd(id) ==
    /\ pc = "stream" /\ id \notin Ids(results)
    /\ \/ /\ deferred # <<>>
          /\ Result(id)
          /\ UNCHANGED <<pc, running, emptyNow, empties>>
       \/ /\ deferred = <<>>
          /\ Result(id)
          /\ empties' = IF empties < MaxEmpties THEN empties + 1 ELSE empties
          /\ emptyNow' \in {emptyNow, TRUE}
          /\ UNCHANGED <<pc, running>>
       \/ /\ deferred = <<>>
          /\ pc' = "before" /\ running' = {id}
          /\ UNCHANGED <<results, emptyNow, empties>>
    /\ UNCHANGED <<prefill, iteration, conversation, feedback, calls, said, deferred, retries, grace,
                   emptyRetries, fabricated, stalls>>

-----------------------------------------------------------------------------
(* execute_single_tool *)

(* Back in the loop, which looks at cancel_event after each tool. *)
Returned(f, r) ==
    \/ Leave
    \/ /\ pc' = "stream" /\ running' = {} /\ deferred' = f /\ results' = r
       /\ UNCHANGED <<iteration, calls, said, emptyNow>>

(* The feedback check before a tool: what has come in is deferred, and the   *)
(* tool gets a stub for a result.                                            *)
BeforeTool ==
    /\ pc = "before"
    /\ Drained
    /\ \/ Stops /\ Leave
       \/ /\ ~Stops /\ pending # <<>>
          /\ \E id \in running : Returned(deferred \o Texts(pending), Append(results, id))
       \/ /\ ~Stops /\ pending = <<>>
          /\ pc' = "running"
          /\ UNCHANGED <<iteration, locals>>
    /\ UNCHANGED <<prefill, conversation, sent, told, budgets, stalls>>

(* A result, or a timeout or an exception, after which nothing is drained.   *)
ToolEnds ==
    /\ pc = "running"
    /\ \E id \in running :
         \/ /\ pc' = "after" /\ running' = {} /\ Result(id)
            /\ UNCHANGED <<iteration, calls, said, deferred, emptyNow>>
         \/ Returned(deferred, Append(results, id))
    /\ UNCHANGED <<prefill, conversation, feedback, budgets, stalls>>

AfterTool ==
    /\ pc = "after"
    /\ Drained
    /\ IF Stops THEN Leave ELSE Returned(deferred \o Texts(pending), results)
    /\ UNCHANGED <<prefill, conversation, sent, told, budgets, stalls>>

-----------------------------------------------------------------------------
(* After the stream. *)

BuiltOfCalls == If(said \/ results # <<>>, <<[Assistant EXCEPT !.ids = calls]>>)   \* mutant
                \o If(results # <<>>, <<[role |-> "tool", ids |-> results, says |-> <<>>]>>)

(* The tool uses are made from the results, never from the calls. *)
Built == If(said \/ results # <<>>, <<[Assistant EXCEPT !.ids = results]>>)
         \o If(results # <<>>, <<[role |-> "tool", ids |-> results, says |-> <<>>]>>)

(* message_stop, or an error that ends the reply without a retry; or the     *)
(* text was recognised as a fabricated tool output, three times at most.     *)
StreamEnds ==
    /\ pc = "stream"
    /\ LET built == conversation \o Built \o Each(deferred)
       IN  \/ /\ conversation' = built
              /\ pc' = IF results # <<>> THEN "tools" ELSE "last"
              /\ deferred' = <<>>
              /\ UNCHANGED <<iteration, calls, results, running, said, emptyNow, fabricated>>
           \/ /\ said
              /\ fabricated' = fabricated + 1
              /\ IF fabricated' < 3
                 THEN conversation' = Append(built, Note) /\ NextIteration
                 ELSE conversation' = built /\ Leave
    /\ UNCHANGED <<prefill, feedback, retries, grace, emptyRetries, empties, stalls>>

(* Tools ran: the feedback of the meantime, behind a copy of the assistant's *)
(* text unless the message before has just that, and the next iteration.     *)
AfterTools ==
    /\ pc = "tools"
    /\ toolsSince' = TRUE /\ narrated' = 0
    /\ empties' = IF emptyNow THEN empties ELSE 0
    /\ Drained
    /\ \E copy \in {FALSE, said} :
         conversation' = conversation \o If(empties = MaxEmpties, <<Note>>)
                         \o If(copy /\ pending # <<>>, <<Assistant>>) \o Each(Texts(pending))
    /\ IF Stops THEN Leave ELSE NextIteration
    /\ UNCHANGED <<prefill, sent, told, retries, grace, emptyRetries, fabricated, intentStalls,
                   blockStalls, fences>>

(* No tool ran: feedback goes before the end of the turn, at once or after a *)
(* short wait.  A stop word is feedback here, and an interrupt is dropped.   *)
Deliver ==
    /\ conversation' = conversation \o If(said, <<Assistant>>) \o <<Says(Texts(pending))>>
    /\ NextIteration

LastCallTwice ==   \* mutant
    /\ pc = "last"
    /\ Drained /\ pc' = "wait"
    /\ UNCHANGED <<prefill, iteration, conversation, locals, sent, told, budgets, stalls>>

LastCall ==
    /\ pc = "last"
    /\ Drained
    /\ IF pending # <<>> THEN Deliver
       ELSE pc' = "wait" /\ UNCHANGED <<iteration, conversation, locals>>
    /\ UNCHANGED <<prefill, sent, told, budgets, stalls>>

SecondCall ==
    /\ pc = "wait" /\ pending # <<>>
    /\ Drained
    /\ Deliver
    /\ UNCHANGED <<prefill, sent, told, budgets, stalls>>

-----------------------------------------------------------------------------
(* _decide_no_tool_outcome *)

(* What the code looks for in a text: cut off by the token limit, an open    *)
(* code block, an announced action, a continuation, and how the text ends.   *)
Reply == [cut : BOOLEAN, open : BOOLEAN, intent : BOOLEAN, continued : BOOLEAN,
          tail : {"short", "complete", "hanging", "other"}]

TextVerdict(r) ==
    CASE ~prefill /\ r.cut /\ iteration < MaxIterations - 1                  -> "inject_max_tokens"
      [] ~prefill /\ r.open /\ ~r.cut /\ blockStalls < BlockCap              -> "block_continue"
      [] ~prefill /\ r.intent /\ ~r.cut /\ ~(r.open /\ blockStalls < BlockCap)
                  /\ intentStalls < IntentCap                                -> "inject_intent"
      [] prefill /\ r.tail = "short" /\ iteration > 0 /\ r.intent /\ grace < 3 -> "spend_textonly"
      [] prefill /\ ~(r.tail = "short" /\ iteration > 0)
                 /\ (r.open \/ r.continued)                                  -> "continue"
      [] prefill /\ r.tail = "complete" /\ ~r.open /\ ~r.continued /\ r.intent
                 /\ grace = 0 /\ iteration = 0                               -> "spend_textonly"
      [] prefill /\ r.tail = "hanging" /\ iteration < 2                      -> "continue"
      [] OTHER                                                               -> "end"

AfterToolResult == conversation # <<>> /\ Last(conversation).role = "tool"

EmptyVerdict(cut) ==
    CASE AfterToolResult /\ grace < (IF cut THEN 3 ELSE 1) -> "nudge"
      [] ~AfterToolResult /\ emptyRetries < 2              -> "spend_empty"
      [] OTHER                                             -> "end"

Deciding == pc = "wait" /\ pending = <<>> /\ Drained
Verdict(v) ==
    /\ Deciding
    /\ \/ said /\ \E r \in Reply : v = TextVerdict(r)
       \/ ~said /\ \E cut \in BOOLEAN : v = EmptyVerdict(cut)

InjectBare == conversation' = Append(conversation, Assistant)   \* mutant

Inject == conversation' = conversation \o <<Assistant, Note>>

ContinueIntentFree ==   \* mutant
    /\ Verdict("inject_intent")
    /\ Inject
    /\ toolsSince' = FALSE
    /\ narrated' = narrated + 1
    /\ NextIteration
    /\ UNCHANGED <<prefill, sent, told, budgets, intentStalls, blockStalls, fences>>

(* An announced action is followed up; without tools since, it is a stall.   *)
ContinueIntent ==
    /\ Verdict("inject_intent")
    /\ Inject
    /\ intentStalls' = IF toolsSince THEN 0 ELSE intentStalls + 1
    /\ toolsSince' = FALSE
    /\ narrated' = narrated + 1
    /\ NextIteration
    /\ UNCHANGED <<prefill, sent, told, budgets, blockStalls, fences>>

(* An open block is finished: more fences than in the round before, or a     *)
(* large reply, is progress.                                                 *)
ContinueBlock ==
    /\ Verdict("block_continue")
    /\ Inject
    /\ \E now \in 1 .. 2, large \in BOOLEAN :
         /\ blockStalls' = IF now > fences \/ large THEN 0 ELSE blockStalls + 1
         /\ fences' = now
    /\ NextIteration
    /\ UNCHANGED <<prefill, sent, told, budgets, intentStalls, toolsSince, narrated>>

ContinueCut ==
    /\ Verdict("inject_max_tokens")
    /\ Inject
    /\ NextIteration
    /\ UNCHANGED <<prefill, sent, told, budgets, stalls>>

SpendGrace ==
    /\ Verdict("spend_textonly")
    /\ grace' = grace + 1
    /\ NextIteration
    /\ UNCHANGED <<prefill, sent, told, conversation, retries, emptyRetries, fabricated, empties, stalls>>

(* A nudge is added to the message with the tool results. *)
Nudge ==
    /\ Verdict("nudge")
    /\ grace' = grace + 1
    /\ NextIteration
    /\ UNCHANGED <<prefill, sent, told, conversation, retries, emptyRetries, fabricated, empties, stalls>>

SpendEmpty ==
    /\ Verdict("spend_empty")
    /\ emptyRetries' = emptyRetries + 1
    /\ NextIteration
    /\ UNCHANGED <<prefill, sent, told, conversation, retries, grace, fabricated, empties, stalls>>

Continue ==
    /\ Verdict("continue")
    /\ NextIteration
    /\ UNCHANGED <<prefill, sent, told, conversation, budgets, stalls>>

End ==
    /\ Verdict("end")
    /\ Leave
    /\ UNCHANGED <<prefill, sent, told, conversation, budgets, stalls>>

-----------------------------------------------------------------------------
RetrySame ==   \* mutant
    /\ pc = "stream" /\ retries < MaxRetries
    /\ pc' = "start" /\ Fresh
    /\ UNCHANGED <<prefill, iteration, conversation, feedback, budgets, stalls>>

RetryTwice ==   \* mutant
    /\ pc = "stream" /\ retries <= MaxRetries
    /\ retries' = retries + 1
    /\ NextIteration
    /\ UNCHANGED <<prefill, conversation, feedback, grace, emptyRetries, fabricated, empties, stalls>>

(* An exception: the iteration is lost with its results and its deferred     *)
(* feedback, and the next one sends the conversation as it was.              *)
Retry ==
    /\ pc = "stream" /\ retries < MaxRetries
    /\ retries' = retries + 1
    /\ NextIteration
    /\ UNCHANGED <<prefill, conversation, feedback, grace, emptyRetries, fabricated, empties, stalls>>

(* Throttling, credentials, or no retry left. *)
Fail ==
    /\ pc = "stream"
    /\ Leave
    /\ UNCHANGED <<prefill, conversation, feedback, budgets, stalls>>

-----------------------------------------------------------------------------
(* Around the loop: the monitor, followed to the end of the turn, and the    *)
(* consumer of the stream, which may go away.                                *)
Monitor ==
    /\ pc # "ended"
    /\ \/ /\ sent < MaxFeedback
          /\ sent' = sent + 1
          /\ \E stop \in BOOLEAN : pending' = Append(pending, [stop |-> stop, n |-> sent'])
          /\ UNCHANGED interrupted
       \/ /\ interrupted' = TRUE
          /\ UNCHANGED <<sent, pending>>
    /\ UNCHANGED <<prefill, pc, iteration, conversation, told, locals, budgets, stalls>>

Close ==
    /\ pc # "ended" /\ Leave
    /\ UNCHANGED <<prefill, conversation, feedback, budgets, stalls>>

Ended == pc = "ended" /\ UNCHANGED vars

Stream == Text \/ ToolUseStart \/ FakeTool \/ (\E id \in Ids(calls) : ToolUseEnd(id)) \/ StreamEnds
Tool   == BeforeTool \/ ToolEnds \/ AfterTool
Decide == ContinueIntent \/ ContinueBlock \/ ContinueCut \/ SpendGrace \/ Nudge \/ SpendEmpty
          \/ Continue \/ End
Loop   ==
    \/ Exhausted \/ CancelledAtTop \/ Request
    \/ MidStream \/ Stream \/ Retry \/ Fail
    \/ Tool
    \/ AfterTools \/ LastCall \/ SecondCall \/ Decide

Next == Loop \/ Monitor \/ Close \/ Ended

Spec == Init /\ [][Next]_vars

(* Streams and tools end, by the timeouts of providers and of the executor. *)
FairSpec == Spec /\ WF_vars(Loop)

-----------------------------------------------------------------------------
(* In the conversation a message with tool calls is followed by one with     *)
(* exactly their results, and results follow nothing else: whatever was      *)
(* skipped, rejected, cut off, made up or interrupted by feedback.           *)
ResultsFollowUses ==
    \A i \in 1 .. Len(conversation) :
      LET m == conversation[i]
      IN  m.ids # <<>> =>
            IF m.role = "assistant"
            THEN /\ i < Len(conversation) /\ conversation[i + 1].role = "tool"
                 /\ conversation[i + 1].ids = m.ids
                 /\ Cardinality(Ids(m.ids)) = Len(m.ids)
            ELSE i > 1 /\ conversation[i - 1].ids = m.ids

(* While no iteration has failed, the feedback the model was sent, then that *)
(* in the conversation, the deferred and the pending is all that came in, in *)
(* that order and once: the ten places that drain it lose, repeat and swap   *)
(* nothing but interrupts.                                                   *)
FeedbackInOrder ==
    pc # "ended" /\ retries = 0 =>
        Said(conversation) \o deferred \o Texts(pending) = [i \in 1 .. sent - told |-> told + i]

(* No tool called through the API starts while the loop holds feedback the   *)
(* model has not seen.  A call written as text is not covered: FakeTool runs *)
(* it with no look at the feedback, pending or deferred.                     *)
NoNativeCallOverFeedback ==
    [][pc = "before" /\ pc' = "running" => pending = <<>> /\ deferred = <<>>]_vars

(* A model that only announces what it will do is stopped: intents without   *)
(* a tool in between are followed up at most one time more than the cap.     *)
NarrationIsBounded == narrated <= IntentCap + 1

(* No way into the next iteration leaves the assistant's message last for a  *)
(* model that cannot go on from it: PREFILL_GUARD, which would end the turn  *)
(* without a word, never has to.                                             *)
GuardIsIdle ==
    pc = "start" /\ ~prefill => ~EndsOnAssistant(conversation)

(* Each turn ends, whatever is retried, continued, nudged and delivered. *)
TurnEnds == <>(pc = "ended")
=============================================================================
