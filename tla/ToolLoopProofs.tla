--------------------------- MODULE ToolLoopProofs ---------------------------
(* What holds of every turn of the loop of ToolLoop, whatever the caps, the  *)
(* number of iterations and of tools, and the feedback.                      *)
EXTENDS ToolLoop, FiniteSetTheorems, WellFoundedInduction, TLAPS

(* The stalls counted keep up with the intents followed up, but for the one  *)
(* that progress makes free.                                                 *)
NarrationInv ==
    /\ intentStalls \in 0 .. IntentCap
    /\ toolsSince \in BOOLEAN
    /\ narrated \in Nat
    /\ toolsSince => narrated = 0
    /\ narrated <= intentStalls + 1

(* While a tool is under way, no earlier tool of the reply met feedback.     *)
NothingDeferred == pc \in {"before", "running", "after"} => deferred = <<>>

LEMMA IntentIsCapped ==
    ASSUME Verdict("inject_intent")
    PROVE  intentStalls < IntentCap
<1>1. ASSUME NEW cut \in BOOLEAN PROVE EmptyVerdict(cut) # "inject_intent"
  BY DEF EmptyVerdict
<1>2. ASSUME NEW r \in Reply, TextVerdict(r) = "inject_intent" PROVE intentStalls < IntentCap
  BY <1>2 DEF TextVerdict
<1>3. QED
  BY <1>1, <1>2 DEF Verdict

LEMMA NarrationInvInit == Init => NarrationInv
<1> SUFFICES ASSUME Init PROVE NarrationInv
  OBVIOUS
<1>1. intentStalls = 0 /\ narrated = 0 /\ toolsSince = FALSE
  BY DEF Init
<1>2. 0 \in 0 .. IntentCap
  BY LimitsAssumption
<1>3. ~toolsSince /\ toolsSince \in BOOLEAN
  BY <1>1
<1>4. QED
  BY <1>1, <1>2, <1>3 DEF NarrationInv

LEMMA NarrationInvNext ==
    ASSUME NarrationInv, [Next]_vars
    PROVE  NarrationInv'
<1>1. CASE UNCHANGED stalls
  BY <1>1 DEF NarrationInv, stalls
<1>2. CASE ContinueIntent
  <2>1. intentStalls < IntentCap
    BY <1>2, IntentIsCapped DEF ContinueIntent
  <2>2. toolsSince' = FALSE /\ narrated' = narrated + 1
        /\ intentStalls' = IF toolsSince THEN 0 ELSE intentStalls + 1
    BY <1>2 DEF ContinueIntent
  <2>3. ~toolsSince' /\ toolsSince' \in BOOLEAN
    BY <2>2
  <2>4. CASE toolsSince
    BY <2>1, <2>2, <2>3, <2>4, LimitsAssumption DEF NarrationInv
  <2>5. CASE ~toolsSince
    BY <2>1, <2>2, <2>3, <2>5, LimitsAssumption DEF NarrationInv
  <2>6. QED
    BY <2>4, <2>5
<1>3. CASE AfterTools
  BY <1>3 DEF AfterTools, NarrationInv
<1>4. CASE ContinueBlock
  BY <1>4 DEF ContinueBlock, NarrationInv
<1>5. CASE Exhausted \/ CancelledAtTop \/ Request \/ MidStream \/ Retry \/ Fail \/ Monitor \/ Close
  BY <1>1, <1>5 DEF Exhausted, CancelledAtTop, Request, MidStream, Retry, Fail, Monitor, Close
<1>6. CASE Stream
  BY <1>1, <1>6 DEF Stream, Text, ToolUseStart, FakeTool, ToolUseEnd, StreamEnds
<1>7. CASE Tool \/ LastCall \/ SecondCall
  BY <1>1, <1>7 DEF Tool, BeforeTool, ToolEnds, AfterTool, LastCall, SecondCall
<1>8. CASE ContinueCut \/ SpendGrace \/ Nudge \/ SpendEmpty \/ Continue \/ End
  BY <1>1, <1>8 DEF ContinueCut, SpendGrace, Nudge, SpendEmpty, Continue, End
<1>9. CASE Ended \/ UNCHANGED vars
  BY <1>1, <1>9 DEF Ended, vars
<1>10. QED
  BY <1>2, <1>3, <1>4, <1>5, <1>6, <1>7, <1>8, <1>9 DEF Next, Loop, Decide

(* A model that only announces what it will do is stopped: intents without a *)
(* tool in between are followed up at most one time more than the cap.       *)
THEOREM NarrationIsBoundedAlways == Spec => []NarrationIsBounded
<1>1. NarrationInv => NarrationIsBounded
  BY LimitsAssumption DEF NarrationInv, NarrationIsBounded
<1>2. QED
  BY <1>1, NarrationInvInit, NarrationInvNext, PTL DEF Spec

-----------------------------------------------------------------------------
LEMMA NothingDeferredInit == Init => NothingDeferred
  BY DEF Init, NothingDeferred

LEMMA NothingDeferredNext ==
    ASSUME NothingDeferred, [Next]_vars
    PROVE  NothingDeferred' /\ (pc = "before" /\ pc' = "running" => pending = <<>> /\ deferred = <<>>)
<1> DEFINE Kept == NothingDeferred' /\ (pc = "before" /\ pc' = "running" => pending = <<>> /\ deferred = <<>>)
<1>1. CASE BeforeTool
  BY <1>1 DEF BeforeTool, Leave, Returned, NothingDeferred, locals
<1>2. CASE ToolEnds
  BY <1>2 DEF ToolEnds, Leave, Returned, NothingDeferred
<1>3. CASE AfterTool
  BY <1>3 DEF AfterTool, Leave, Returned, NothingDeferred
<1>4. ASSUME NEW id \in Ids(calls), ToolUseEnd(id) PROVE Kept
  BY <1>4 DEF ToolUseEnd, NothingDeferred
<1>5. CASE Text \/ ToolUseStart \/ FakeTool
  BY <1>5 DEF Text, ToolUseStart, FakeTool, NothingDeferred
<1>6. CASE StreamEnds
  BY <1>6 DEF StreamEnds, NextIteration, Leave, NothingDeferred
<1>7. CASE Exhausted \/ CancelledAtTop \/ Request \/ MidStream \/ Retry \/ Fail \/ Close
  BY <1>7 DEF Exhausted, CancelledAtTop, Request, MidStream, Retry, Fail, Close, Leave,
     NextIteration, NothingDeferred
<1>8. CASE AfterTools \/ LastCall \/ SecondCall
  BY <1>8 DEF AfterTools, LastCall, SecondCall, Deliver, Leave, NextIteration, NothingDeferred
<1>9. CASE Decide
  BY <1>9 DEF Decide, ContinueIntent, ContinueBlock, ContinueCut, SpendGrace, Nudge, SpendEmpty,
     Continue, End, Leave, NextIteration, NothingDeferred
<1>10. CASE Monitor \/ Ended \/ UNCHANGED vars
  BY <1>10 DEF Monitor, Ended, vars, locals, NothingDeferred
<1>11. QED
  BY <1>1, <1>2, <1>3, <1>4, <1>5, <1>6, <1>7, <1>8, <1>9, <1>10 DEF Next, Loop, Stream, Tool

(* No tool called through the API starts while the loop holds feedback the   *)
(* model has not seen; of calls written as text the theorem says nothing.    *)
THEOREM NoNativeCallOverFeedbackAlways == Spec => NoNativeCallOverFeedback
<1>1. NothingDeferred /\ [Next]_vars =>
        [pc = "before" /\ pc' = "running" => pending = <<>> /\ deferred = <<>>]_vars
  BY NothingDeferredNext
<1>2. QED
  BY <1>1, NothingDeferredInit, NothingDeferredNext, PTL DEF Spec, NoNativeCallOverFeedback

-----------------------------------------------------------------------------
(* Types as far as the shape of the conversation needs them. *)
AnyId      == [fake : BOOLEAN, n : Nat]
AnyMessage == [role : {"user", "assistant", "tool"}, ids : Seq(AnyId), says : Seq(Nat)]
AnyText    == [stop : BOOLEAN, n : Nat]

Shape ==
    /\ sent \in Nat /\ pending \in Seq(AnyText) /\ deferred \in Seq(Nat)
    /\ calls \in Seq(AnyId) /\ results \in Seq(AnyId) /\ running \subseteq AnyId
    /\ conversation \in Seq(AnyMessage)

LEMMA MessageShape ==
    ASSUME NEW ids \in Seq(AnyId), NEW says \in Seq(Nat), NEW role \in {"user", "assistant", "tool"}
    PROVE  [role |-> role, ids |-> ids, says |-> says] \in AnyMessage
  BY DEF AnyMessage

LEMMA NoteShape ==
    /\ Note \in AnyMessage /\ Note.role = "user"
    /\ Assistant \in AnyMessage
<1>1. <<>> \in Seq(AnyId) /\ <<>> \in Seq(Nat)
  OBVIOUS
<1>2. QED
  BY <1>1, MessageShape DEF Note, Assistant

LEMMA SaysShape ==
    ASSUME NEW s \in Seq(Nat)
    PROVE  Says(s) \in AnyMessage /\ Says(s).role = "user" /\ Says(s).says = s
<1>1. Says(s) = [role |-> "user", ids |-> <<>>, says |-> s]
  BY DEF Says, Note
<1>2. <<>> \in Seq(AnyId)
  OBVIOUS
<1>3. [role |-> "user", ids |-> <<>>, says |-> s] \in AnyMessage
  BY <1>2 DEF AnyMessage
<1>4. QED
  BY <1>1, <1>3

LEMMA EachShape ==
    ASSUME NEW s \in Seq(Nat)
    PROVE  /\ Each(s) \in Seq(AnyMessage)
           /\ \A i \in 1 .. Len(Each(s)) : Each(s)[i].role = "user"
           /\ Len(Each(s)) = Len(s)
<1> DEFINE M(i) == Says(<<s[i]>>)
<1>1. \A i \in 1 .. Len(s) : <<s[i]>> \in Seq(Nat)
  OBVIOUS
<1>2. \A i \in 1 .. Len(s) : M(i) \in AnyMessage /\ M(i).role = "user"
  BY <1>1, SaysShape
<1>3. Each(s) = [i \in 1 .. Len(s) |-> M(i)]
  BY DEF Each
<1> HIDE DEF M
<1>4. QED
  BY <1>2, <1>3

LEMMA TextsShape ==
    ASSUME NEW s \in Seq(AnyText)
    PROVE  Texts(s) \in Seq(Nat) /\ Len(Texts(s)) = Len(s)
<1> DEFINE n(i) == s[i].n
<1>1. \A i \in 1 .. Len(s) : n(i) \in Nat
  <2>1. ASSUME NEW i \in 1 .. Len(s) PROVE s[i] \in AnyText
    OBVIOUS
  <2>2. ASSUME NEW t \in AnyText PROVE t.n \in Nat
    BY DEF AnyText
  <2>3. QED
    BY <2>1, <2>2
<1>2. Texts(s) = [i \in 1 .. Len(s) |-> n(i)]
  BY DEF Texts
<1> HIDE DEF n
<1>3. QED
  BY <1>1, <1>2

LEMMA BuiltShape ==
    ASSUME results \in Seq(AnyId)
    PROVE  /\ Built \in Seq(AnyMessage)
           /\ results # <<>> => Len(Built) > 0 /\ Built[Len(Built)].role = "tool"
           /\ results = <<>> /\ ~said => Built = <<>>
<1> DEFINE A == [Assistant EXCEPT !.ids = results]
           R == [role |-> "tool", ids |-> results, says |-> <<>>]
<1>1. <<>> \in Seq(Nat)
  OBVIOUS
<1>2. A = [role |-> "assistant", ids |-> results, says |-> <<>>]
  BY DEF Assistant
<1>3. A \in AnyMessage /\ R \in AnyMessage /\ R.role = "tool"
  BY <1>1, <1>2, MessageShape
<1> HIDE DEF A, R
<1>4. Built = If(said \/ results # <<>>, <<A>>) \o If(results # <<>>, <<R>>)
  BY DEF Built, A, R
<1>5. CASE results # <<>>
  BY <1>3, <1>4, <1>5 DEF If
<1>6. CASE results = <<>> /\ said
  BY <1>3, <1>4, <1>6 DEF If
<1>7. CASE results = <<>> /\ ~said
  BY <1>4, <1>7 DEF If
<1>8. QED
  BY <1>5, <1>6, <1>7

(* What is added decides on the last message, unless nothing is. *)
LEMMA LastOfTwo ==
    ASSUME NEW c \in Seq(AnyMessage), NEW s \in Seq(AnyMessage),
           IF s = <<>> THEN ~EndsOnAssistant(c) ELSE s[Len(s)].role # "assistant"
    PROVE  c \o s \in Seq(AnyMessage) /\ ~EndsOnAssistant(c \o s)
<1>1. CASE s = <<>>
  BY <1>1
<1>2. CASE s # <<>>
  BY <1>2 DEF EndsOnAssistant, Last
<1>3. QED
  BY <1>1, <1>2

-----------------------------------------------------------------------------
(* Without prefill an assistant message is last only while its reply is      *)
(* being judged.                                                             *)
Guarded ==
    ~prefill =>
        /\ pc \in {"start", "stream", "before", "running", "after", "tools"} => ~EndsOnAssistant(conversation)
        /\ pc \in {"last", "wait"} => said \/ ~EndsOnAssistant(conversation)

GuardInv == Shape /\ Guarded

(* A text without an injected note goes on only with prefill; the retries of *)
(* an empty reply are for replies without text.                              *)
LEMMA VerdictFacts ==
    /\ Verdict("continue") \/ Verdict("spend_textonly") => prefill
    /\ Verdict("nudge") \/ Verdict("spend_empty") => ~said
    /\ \A v : Verdict(v) => Deciding
<1>1. ASSUME NEW cut \in BOOLEAN PROVE EmptyVerdict(cut) \notin {"continue", "spend_textonly"}
  BY DEF EmptyVerdict
<1>2. ASSUME NEW r \in Reply, TextVerdict(r) \in {"continue", "spend_textonly"} PROVE prefill
  BY <1>2 DEF TextVerdict
<1>3. ASSUME NEW r \in Reply PROVE TextVerdict(r) \notin {"nudge", "spend_empty"}
  BY DEF TextVerdict
<1>4. QED
  BY <1>1, <1>2, <1>3 DEF Verdict

LEMMA FreshShape ==
    ASSUME Fresh
    PROVE  /\ deferred' \in Seq(Nat) /\ calls' \in Seq(AnyId) /\ results' \in Seq(AnyId)
           /\ running' \subseteq AnyId
  BY DEF Fresh

LEMMA GuardInvInit == Init => GuardInv
<1> SUFFICES ASSUME Init PROVE GuardInv
  OBVIOUS
<1>1. Shape
  BY DEF Init, Shape
<1>2. ~EndsOnAssistant(conversation)
  BY DEF Init, EndsOnAssistant
<1>3. QED
  BY <1>1, <1>2 DEF GuardInv, Guarded

LEMMA RequestKeepsGuard ==
    ASSUME GuardInv, Request
    PROVE  GuardInv'
<1> DEFINE first == iteration = 0
           c     == conversation \o If(~first, Each(Texts(pending)))
<1> USE DEF GuardInv
<1>1. c \in Seq(AnyMessage) /\ (first /\ ~prefill => ~EndsOnAssistant(c))
  <2>1. Each(Texts(pending)) \in Seq(AnyMessage)
    BY TextsShape, EachShape DEF Shape
  <2>2. CASE first
    <3>1. c = conversation
      BY <2>2 DEF If, Shape
    <3>2. QED
      BY <3>1 DEF Shape, Guarded, Request
  <2>3. CASE ~first
    BY <2>1, <2>3 DEF If, Shape
  <2>4. QED
    BY <2>2, <2>3
<1>2. /\ conversation' = If(c # <<>>, <<[Last(c) EXCEPT !.ids = <<>>, !.says = <<>>]>>)
      /\ IF ~first /\ (Stops \/ (~prefill /\ EndsOnAssistant(c)))
         THEN Leave
         ELSE pc' = "stream" /\ UNCHANGED <<iteration, locals>>
      /\ IF first THEN UNCHANGED <<pending, interrupted>> ELSE Drained
      /\ UNCHANGED <<prefill, sent>>
  BY DEF Request
<1> HIDE DEF c, first
<1>3. conversation' \in Seq(AnyMessage) /\ (EndsOnAssistant(conversation') => EndsOnAssistant(c))
  <2>1. CASE c = <<>>
    BY <1>2, <2>1 DEF If, EndsOnAssistant
  <2>2. CASE c # <<>>
    <3> DEFINE l == [Last(c) EXCEPT !.ids = <<>>, !.says = <<>>]
    <3>1. Last(c) \in AnyMessage
      BY <1>1, <2>2 DEF Last
    <3>2. l \in AnyMessage /\ l.role = Last(c).role
      <4>1. <<>> \in Seq(AnyId) /\ <<>> \in Seq(Nat)
        OBVIOUS
      <4>2. ASSUME NEW m \in AnyMessage
            PROVE  /\ [m EXCEPT !.ids = <<>>, !.says = <<>>] \in AnyMessage
                   /\ [m EXCEPT !.ids = <<>>, !.says = <<>>].role = m.role
        BY <4>1 DEF AnyMessage
      <4>3. QED
        BY <3>1, <4>2
    <3>3. conversation' = <<l>>
      BY <1>2, <2>2 DEF If
    <3> HIDE DEF l
    <3>4. QED
      BY <2>2, <3>2, <3>3 DEF EndsOnAssistant, Last
  <2>3. QED
    BY <2>1, <2>2
<1>4. Shape'
  <2>1. sent' \in Nat /\ pending' \in Seq(AnyText)
    <3>1. sent' = sent /\ (pending' = pending \/ pending' = <<>>)
      BY <1>2 DEF Drained
    <3>2. sent \in Nat /\ pending \in Seq(AnyText) /\ <<>> \in Seq(AnyText)
      BY DEF Shape
    <3>3. QED
      BY <3>1, <3>2
  <2>2. /\ deferred' \in Seq(Nat) /\ calls' \in Seq(AnyId) /\ results' \in Seq(AnyId)
        /\ running' \subseteq AnyId
    BY <1>2, FreshShape DEF Shape, Leave, locals
  <2>3. QED
    BY <1>3, <2>1, <2>2 DEF Shape
<1>5. Guarded'
  BY <1>1, <1>2, <1>3 DEF Guarded, Leave
<1>6. QED
  BY <1>4, <1>5

LEMMA StreamKeepsGuard ==
    ASSUME GuardInv, Stream
    PROVE  GuardInv'
<1> USE DEF GuardInv
<1>1. CASE Text \/ ToolUseStart \/ FakeTool \/ (\E id \in Ids(calls) : ToolUseEnd(id))
  <2>1. Guarded'
    BY <1>1 DEF Text, ToolUseStart, FakeTool, ToolUseEnd, Guarded
  <2>2. CASE Text
    BY <2>1, <2>2 DEF Text, Shape, feedback
  <2>3. CASE ToolUseStart
    <3>1. [fake |-> FALSE, n |-> Len(calls)] \in AnyId
      BY DEF AnyId, Shape
    <3>2. QED
      BY <2>1, <2>3, <3>1 DEF ToolUseStart, Shape, feedback
  <2>4. CASE FakeTool
    <3> DEFINE id == [fake |-> TRUE, n |-> Len(results)]
    <3>1. id \in AnyId
      BY DEF AnyId, Shape
    <3>2. /\ calls' = Append(calls, id) /\ results' = Append(results, id)
          /\ UNCHANGED <<sent, pending, deferred, running, conversation>>
      BY <2>4 DEF FakeTool, Result, feedback
    <3> HIDE DEF id
    <3>3. QED
      BY <2>1, <3>1, <3>2 DEF Shape
  <2>5. ASSUME NEW id \in Ids(calls), ToolUseEnd(id) PROVE Shape'
    <3>1. id \in AnyId
      BY DEF Shape, Ids, ToSet
    <3>2. /\ results' = results \/ results' = Append(results, id)
          /\ running' = running \/ running' = {id}
          /\ UNCHANGED <<sent, pending, deferred, calls, conversation>>
      BY <2>5 DEF ToolUseEnd, Result, feedback
    <3>3. results \in Seq(AnyId) /\ running \subseteq AnyId
      BY DEF Shape
    <3>4. results' \in Seq(AnyId) /\ running' \subseteq AnyId
      BY <3>1, <3>2, <3>3
    <3>5. QED
      BY <3>2, <3>4 DEF Shape
  <2>6. QED
    BY <1>1, <2>1, <2>2, <2>3, <2>4, <2>5
<1>2. CASE StreamEnds
  <2> DEFINE built == conversation \o Built \o Each(deferred)
  <2>1. /\ Built \in Seq(AnyMessage) /\ Each(deferred) \in Seq(AnyMessage)
        /\ conversation \o Built \in Seq(AnyMessage)
        /\ built \in Seq(AnyMessage)
    BY BuiltShape, EachShape DEF Shape
  <2>2. ASSUME results # <<>> \/ ~said, ~prefill PROVE ~EndsOnAssistant(built)
    <3>1. ~EndsOnAssistant(conversation \o Built)
      <4>1. CASE results # <<>>
        BY <4>1, <2>1, BuiltShape, LastOfTwo DEF Shape
      <4>2. CASE results = <<>> /\ ~said
        BY <1>2, <2>1, <2>2, <4>2, BuiltShape, LastOfTwo DEF Shape, Guarded, StreamEnds
      <4>3. QED
        BY <2>2, <4>1, <4>2
    <3>2. IF Each(deferred) = <<>> THEN ~EndsOnAssistant(conversation \o Built)
          ELSE Each(deferred)[Len(Each(deferred))].role # "assistant"
      BY <2>1, <3>1, EachShape DEF Shape
    <3>3. QED
      BY <2>1, <3>2, LastOfTwo
  <2>3. Append(built, Note) \in Seq(AnyMessage) /\ ~EndsOnAssistant(Append(built, Note))
    BY <2>1, NoteShape DEF EndsOnAssistant, Last
  <2>4. \/ /\ conversation' = built
           /\ pc' = IF results # <<>> THEN "tools" ELSE "last"
           /\ deferred' = <<>>
           /\ UNCHANGED <<calls, results, running, said>>
        \/ conversation' = Append(built, Note) /\ NextIteration
        \/ conversation' = built /\ Leave
    BY <1>2 DEF StreamEnds
  <2>5. UNCHANGED <<prefill, sent, pending>>
    BY <1>2 DEF StreamEnds, feedback
  <2> HIDE DEF built
  <2>6. Shape'
    <3>1. /\ deferred' \in Seq(Nat) /\ calls' \in Seq(AnyId) /\ results' \in Seq(AnyId)
          /\ running' \subseteq AnyId
      <4>1. CASE Fresh
        BY <4>1, FreshShape
      <4>2. CASE deferred' = <<>> /\ UNCHANGED <<calls, results, running>>
        BY <4>2 DEF Shape
      <4>3. QED
        BY <2>4, <4>1, <4>2 DEF NextIteration, Leave
    <3>2. conversation' \in Seq(AnyMessage)
      BY <2>1, <2>3, <2>4
    <3>3. QED
      BY <2>5, <3>1, <3>2 DEF Shape
  <2>7. Guarded'
    BY <2>2, <2>3, <2>4, <2>5 DEF Guarded, NextIteration, Leave
  <2>8. QED
    BY <2>6, <2>7
<1>3. QED
  BY <1>1, <1>2 DEF Stream

LEMMA ToolKeepsGuard ==
    ASSUME GuardInv, Tool
    PROVE  GuardInv'
<1> USE DEF GuardInv
<1>1. /\ UNCHANGED <<prefill, conversation, sent>>
      /\ pending' = pending \/ pending' = <<>>
  BY DEF Tool, BeforeTool, ToolEnds, AfterTool, Drained, feedback
<1>2. \A id \in running : Append(results, id) \in Seq(AnyId)
  BY DEF Shape
<1>3. deferred \o Texts(pending) \in Seq(Nat)
  BY TextsShape DEF Shape
<1>4. ASSUME NEW f \in Seq(Nat), NEW r \in Seq(AnyId), Returned(f, r)
      PROVE  /\ deferred' \in Seq(Nat) /\ calls' \in Seq(AnyId) /\ results' \in Seq(AnyId)
             /\ running' \subseteq AnyId
             /\ pc' \in {"stream", "ended"}
  BY <1>4, FreshShape DEF Returned, Leave, Shape
<1>5. /\ deferred' \in Seq(Nat) /\ calls' \in Seq(AnyId) /\ results' \in Seq(AnyId)
      /\ running' \subseteq AnyId
      /\ pc' \in {"stream", "running", "after", "ended"}
  <2>1. CASE BeforeTool
    <3>1. CASE Leave
      BY <3>1, FreshShape DEF Leave
    <3>2. CASE \E id \in running : Returned(deferred \o Texts(pending), Append(results, id))
      BY <1>2, <1>3, <1>4, <3>2
    <3>3. CASE pc' = "running" /\ UNCHANGED locals
      BY <3>3 DEF locals, Shape
    <3>4. QED
      BY <2>1, <3>1, <3>2, <3>3 DEF BeforeTool, locals
  <2>2. CASE ToolEnds
    <3>1. PICK id \in running :
            \/ /\ pc' = "after" /\ running' = {} /\ results' = Append(results, id)
               /\ UNCHANGED <<calls, deferred>>
            \/ Returned(deferred, Append(results, id))
      BY <2>2 DEF ToolEnds, Result
    <3>2. CASE Returned(deferred, Append(results, id))
      BY <1>2, <1>4, <3>2 DEF Shape
    <3>3. CASE /\ pc' = "after" /\ running' = {} /\ results' = Append(results, id)
               /\ UNCHANGED <<calls, deferred>>
      BY <1>2, <3>3 DEF Shape
    <3>4. QED
      BY <3>1, <3>2, <3>3
  <2>3. CASE AfterTool
    <3>1. CASE Leave
      BY <3>1, FreshShape DEF Leave
    <3>2. CASE Returned(deferred \o Texts(pending), results)
      BY <1>3, <1>4, <3>2 DEF Shape
    <3>3. QED
      BY <2>3, <3>1, <3>2 DEF AfterTool
  <2>4. QED
    BY <2>1, <2>2, <2>3 DEF Tool
<1>6. pending' \in Seq(AnyText) /\ sent' \in Nat /\ conversation' \in Seq(AnyMessage)
  <2>1. pending \in Seq(AnyText) /\ <<>> \in Seq(AnyText) /\ sent \in Nat
        /\ conversation \in Seq(AnyMessage)
    BY DEF Shape
  <2>2. QED
    BY <1>1, <2>1
<1>7. Shape'
  BY <1>5, <1>6 DEF Shape
<1>8. pc \in {"before", "running", "after"}
  BY DEF Tool, BeforeTool, ToolEnds, AfterTool
<1>9. Guarded'
  BY <1>1, <1>5, <1>8 DEF Guarded
<1>10. QED
  BY <1>7, <1>9

(* The ends of an iteration leave the locals fresh, so that only the         *)
(* conversation and the pending feedback remain to be looked at.             *)
LEMMA FreshKeepsGuard ==
    ASSUME Fresh, pc' \in {"start", "ended"},
           sent' \in Nat, pending' \in Seq(AnyText), conversation' \in Seq(AnyMessage),
           ~prefill' /\ pc' = "start" => ~EndsOnAssistant(conversation')
    PROVE  GuardInv'
<1>1. Shape'
  BY FreshShape DEF Shape
<1>2. Guarded'
  BY DEF Guarded
<1>3. QED
  BY <1>1, <1>2 DEF GuardInv

LEMMA DeliverShape ==
    ASSUME GuardInv, Deliver
    PROVE  conversation' \in Seq(AnyMessage) /\ ~EndsOnAssistant(conversation')
<1>1. Says(Texts(pending)) \in AnyMessage /\ Says(Texts(pending)).role = "user"
  BY TextsShape, SaysShape DEF GuardInv, Shape
<1>2. If(said, <<Assistant>>) \in Seq(AnyMessage)
  BY NoteShape DEF If
<1>3. conversation' = (conversation \o If(said, <<Assistant>>)) \o <<Says(Texts(pending))>>
  BY DEF Deliver
<1>4. conversation \o If(said, <<Assistant>>) \in Seq(AnyMessage)
  BY <1>2 DEF GuardInv, Shape
<1>5. QED
  BY <1>1, <1>3, <1>4 DEF EndsOnAssistant, Last

LEMMA FeedbackKeepsGuard ==
    ASSUME GuardInv, AfterTools \/ LastCall \/ SecondCall
    PROVE  GuardInv'
<1> USE DEF GuardInv
<1>0. /\ pending' = <<>> /\ pending' \in Seq(AnyText) /\ sent' \in Nat
      /\ prefill' = prefill
  <2>1. <<>> \in Seq(AnyText) /\ sent \in Nat
    BY DEF Shape
  <2>2. QED
    BY <2>1 DEF AfterTools, LastCall, SecondCall, Drained
<1>1. CASE AfterTools
  <2>1. PICK copy \in {FALSE, said} :
          conversation' = conversation \o If(empties = MaxEmpties, <<Note>>)
                          \o If(copy /\ pending # <<>>, <<Assistant>>) \o Each(Texts(pending))
    BY <1>1 DEF AfterTools
  <2> DEFINE n == If(empties = MaxEmpties, <<Note>>)
             a == If(copy /\ pending # <<>>, <<Assistant>>)
             e == Each(Texts(pending))
  <2>2. /\ n \in Seq(AnyMessage) /\ a \in Seq(AnyMessage) /\ e \in Seq(AnyMessage)
        /\ n # <<>> => n[Len(n)].role # "assistant"
        /\ e # <<>> => e[Len(e)].role # "assistant"
        /\ e = <<>> => a = <<>>
    <3>1. n = <<>> \/ (n = <<Note>> /\ Note \in AnyMessage /\ Note.role = "user")
      BY NoteShape DEF If
    <3>2. a = <<>> \/ (pending # <<>> /\ a = <<Assistant>> /\ Assistant \in AnyMessage)
      BY NoteShape DEF If
    <3>3. Texts(pending) \in Seq(Nat) /\ Len(Texts(pending)) = Len(pending) /\ pending \in Seq(AnyText)
      BY TextsShape DEF Shape
    <3>4. e \in Seq(AnyMessage) /\ Len(e) = Len(pending) /\ \A i \in 1 .. Len(e) : e[i].role = "user"
      BY <3>3, EachShape
    <3> HIDE DEF n, a, e
    <3>5. /\ <<>> \in Seq(AnyMessage)
          /\ \A m \in AnyMessage : <<m>> \in Seq(AnyMessage) /\ <<m>>[Len(<<m>>)] = m
      OBVIOUS
    <3>6. n \in Seq(AnyMessage) /\ (n # <<>> => n[Len(n)].role # "assistant")
      BY <3>1, <3>5
    <3>7. a \in Seq(AnyMessage)
      BY <3>2, <3>5
    <3>8. e # <<>> => e[Len(e)].role # "assistant"
      BY <3>4
    <3>9. e = <<>> => a = <<>>
      BY <3>2, <3>3, <3>4
    <3>10. QED
      BY <3>4, <3>6, <3>7, <3>8, <3>9
  <2>3. conversation' = ((conversation \o n) \o a) \o e
    BY <2>1
  <2>4. ~prefill => ~EndsOnAssistant(conversation)
    BY <1>1 DEF AfterTools, Guarded
  <2> HIDE DEF n, a, e
  <2>5. /\ conversation \o n \in Seq(AnyMessage)
        /\ ~prefill => ~EndsOnAssistant(conversation \o n)
    BY <2>2, <2>4, LastOfTwo DEF Shape
  <2>6. (conversation \o n) \o a \in Seq(AnyMessage)
    BY <2>2, <2>5
  <2>7. /\ conversation' \in Seq(AnyMessage)
        /\ ~prefill => ~EndsOnAssistant(conversation')
    <3>1. CASE e = <<>>
      BY <2>2, <2>3, <2>5, <3>1
    <3>2. CASE e # <<>>
      BY <2>2, <2>3, <2>6, <3>2, LastOfTwo
    <3>3. QED
      BY <3>1, <3>2
  <2>8. Fresh /\ pc' \in {"start", "ended"}
    BY <1>1 DEF AfterTools, Leave, NextIteration
  <2>9. QED
    BY <1>0, <2>7, <2>8, FreshKeepsGuard
<1>2. CASE LastCall \/ SecondCall
  <2>1. CASE Deliver
    <3>1. Fresh /\ pc' \in {"start", "ended"}
      BY <2>1 DEF Deliver, NextIteration
    <3>2. QED
      BY <1>0, <2>1, <3>1, DeliverShape, FreshKeepsGuard
  <2>2. CASE pc = "last" /\ pc' = "wait" /\ UNCHANGED <<conversation, locals>>
    <3>1. Shape'
      BY <1>0, <2>2 DEF Shape, locals
    <3>2. Guarded'
      BY <1>0, <2>2 DEF Guarded, locals
    <3>3. QED
      BY <3>1, <3>2
  <2>3. QED
    BY <1>2, <2>1, <2>2 DEF LastCall, SecondCall
<1>3. QED
  BY <1>1, <1>2

LEMMA DecideKeepsGuard ==
    ASSUME GuardInv, Decide
    PROVE  GuardInv'
<1> USE DEF GuardInv
<1>0. /\ pc = "wait" /\ pending' = <<>> /\ pending' \in Seq(AnyText) /\ sent' \in Nat
      /\ prefill' = prefill
  <2>1. <<>> \in Seq(AnyText) /\ sent \in Nat
    BY DEF Shape
  <2>2. Deciding /\ UNCHANGED <<prefill, sent>>
    BY VerdictFacts DEF Decide, ContinueIntent, ContinueBlock, ContinueCut, SpendGrace, Nudge,
       SpendEmpty, Continue, End
  <2>3. QED
    BY <2>1, <2>2 DEF Deciding, Drained
<1>1. Fresh /\ pc' \in {"start", "ended"}
  BY DEF Decide, ContinueIntent, ContinueBlock, ContinueCut, SpendGrace, Nudge, SpendEmpty,
     Continue, End, Leave, NextIteration
<1>2. CASE Inject
  <2>1. conversation' \in Seq(AnyMessage) /\ ~EndsOnAssistant(conversation')
    <3>1. <<Assistant, Note>> \in Seq(AnyMessage) /\ <<Assistant, Note>>[2].role # "assistant"
      BY NoteShape
    <3>2. QED
      BY <1>2, <3>1, LastOfTwo DEF Inject, Shape
  <2>2. QED
    BY <1>0, <1>1, <2>1, FreshKeepsGuard
<1>3. CASE UNCHANGED conversation /\ (prefill \/ ~said \/ pc' = "ended")
  BY <1>0, <1>1, <1>3, FreshKeepsGuard DEF Guarded, Shape
<1>4. QED
  BY <1>2, <1>3, VerdictFacts DEF Decide, ContinueIntent, ContinueBlock, ContinueCut, SpendGrace,
     Nudge, SpendEmpty, Continue, End, Leave

LEMMA GuardInvNext ==
    ASSUME GuardInv, [Next]_vars
    PROVE  GuardInv'
<1> USE DEF GuardInv
<1>1. CASE Exhausted \/ CancelledAtTop \/ MidStream \/ Retry \/ Fail \/ Close
  <2>1. /\ Fresh /\ pc' \in {"start", "ended"}
        /\ UNCHANGED <<prefill, conversation, sent, pending>>
        /\ pc' = "start" => pc = "stream"
    BY <1>1 DEF Exhausted, CancelledAtTop, MidStream, Retry, Fail, Close, Leave, NextIteration, feedback
  <2>2. QED
    BY <2>1, FreshKeepsGuard DEF Shape, Guarded
<1>2. CASE Monitor
  <2>1. \A stop \in BOOLEAN, n \in Nat : [stop |-> stop, n |-> n] \in AnyText
    BY DEF AnyText
  <2>2. sent' \in Nat /\ pending' \in Seq(AnyText)
    <3>1. sent \in Nat /\ pending \in Seq(AnyText)
      BY DEF Shape
    <3>2. \/ UNCHANGED <<sent, pending>>
          \/ /\ sent' = sent + 1
             /\ \E stop \in BOOLEAN : pending' = Append(pending, [stop |-> stop, n |-> sent'])
      BY <1>2 DEF Monitor
    <3>3. CASE UNCHANGED <<sent, pending>>
      BY <3>1, <3>3
    <3>4. ASSUME sent' = sent + 1, NEW stop \in BOOLEAN,
                 pending' = Append(pending, [stop |-> stop, n |-> sent'])
          PROVE  sent' \in Nat /\ pending' \in Seq(AnyText)
      <4>1. sent' \in Nat
        BY <3>1, <3>4
      <4>2. [stop |-> stop, n |-> sent'] \in AnyText
        BY <2>1, <4>1
      <4>3. QED
        BY <3>1, <3>4, <4>1, <4>2
    <3>5. QED
      BY <3>2, <3>3, <3>4
  <2>3. UNCHANGED <<prefill, pc, conversation, locals>>
    BY <1>2 DEF Monitor
  <2>4. Shape'
    BY <2>2, <2>3 DEF Shape, locals
  <2>5. Guarded'
    BY <2>3 DEF Guarded, locals
  <2>6. QED
    BY <2>4, <2>5
<1>3. CASE Ended \/ UNCHANGED vars
  BY <1>3 DEF Ended, vars, locals, feedback, Shape, Guarded
<1>4. QED
  BY <1>1, <1>2, <1>3, RequestKeepsGuard, StreamKeepsGuard, ToolKeepsGuard, FeedbackKeepsGuard,
     DecideKeepsGuard DEF Next, Loop

(* No way into the next iteration leaves the assistant's message last for a  *)
(* model that cannot go on from it: the guard of Request never fires.        *)
THEOREM GuardIsIdleAlways == Spec => []GuardIsIdle
<1>1. GuardInv => GuardIsIdle
  BY DEF GuardInv, Guarded, GuardIsIdle
<1>2. QED
  BY <1>1, GuardInvInit, GuardInvNext, PTL DEF Spec

-----------------------------------------------------------------------------
(* Induction over the naturals, of a set: the least number outside it would  *)
(* follow one inside.                                                        *)
LEMMA Least ==
    ASSUME NEW S \in SUBSET Nat, S # {}
    PROVE  \E m \in S : \A x \in S : m <= x
<1> DEFINE R == OpToRel(<, Nat)
<1>1. IsWellFoundedOn(R, Nat)
  BY NatLessThanWellFounded
<1>2. \A m, x \in Nat : x < m => <<x, m>> \in R
  BY DEF OpToRel
<1> HIDE DEF R
<1>3. PICK m \in S : \A x \in S : <<x, m>> \notin R
  BY <1>1, WFMin
<1>4. ASSUME NEW x \in S PROVE m <= x
  <2>1. x \in Nat /\ m \in Nat
    OBVIOUS
  <2>2. ~(x < m)
    BY <1>2, <1>3, <2>1
  <2>3. QED
    BY <2>1, <2>2
<1>5. QED
  BY <1>4

LEMMA Inductive ==
    ASSUME NEW P, 0 \in P, \A n \in Nat : n \in P => n + 1 \in P
    PROVE  Nat \subseteq P
<1> DEFINE S == Nat \ P
<1> SUFFICES ASSUME S # {} PROVE FALSE
  OBVIOUS
<1>1. PICK m \in S : \A x \in S : m <= x
  BY Least
<1>2. m - 1 \in Nat /\ m - 1 \notin S
  BY <1>1
<1>3. QED
  BY <1>1, <1>2

-----------------------------------------------------------------------------
(* What FlattenSeq computes: its recursive function exists, and for a longer *)
(* sequence it goes on from where it was.                                    *)
Flattens(f, s, n, V) ==
    /\ f = [i \in 1 .. n |-> IF i = 1 THEN s[i] ELSE f[i - 1] \o s[i]]
    /\ \A i \in 1 .. n : f[i] \in Seq(V)

LEMMA FlattenFunction ==
    ASSUME NEW V, NEW s \in Seq(Seq(V))
    PROVE  \A n \in Nat : n <= Len(s) => \E f : Flattens(f, s, n, V)
<1> DEFINE P == {n \in Nat : n <= Len(s) => \E f : Flattens(f, s, n, V)}
<1>1. 0 \in P
  <2>1. Flattens([i \in 1 .. 0 |-> <<>>], s, 0, V)
    BY DEF Flattens
  <2>2. QED
    BY <2>1
<1>2. ASSUME NEW n \in Nat, n \in P PROVE n + 1 \in P
  <2>1. SUFFICES ASSUME n + 1 <= Len(s) PROVE \E f : Flattens(f, s, n + 1, V)
    OBVIOUS
  <2>2. PICK f : Flattens(f, s, n, V)
    BY <1>2, <2>1
  <2> DEFINE g == [i \in 1 .. n + 1 |-> IF i <= n THEN f[i] ELSE IF n = 0 THEN s[i] ELSE f[n] \o s[i]]
  <2>3. s[n + 1] \in Seq(V)
    BY <2>1
  <2>4. \A i \in 1 .. n : f[i] \in Seq(V) /\ f[i] = IF i = 1 THEN s[i] ELSE f[i - 1] \o s[i]
    BY <2>2 DEF Flattens
  <2>5. g[n + 1] = IF n = 0 THEN s[n + 1] ELSE f[n] \o s[n + 1]
    OBVIOUS
  <2>6. \A i \in 1 .. n : g[i] = f[i]
    OBVIOUS
  <2>7. \A i \in 1 .. n + 1 : g[i] \in Seq(V)
    <3>1. g[n + 1] \in Seq(V)
      BY <2>3, <2>4, <2>5
    <3>2. QED
      BY <2>4, <2>6, <3>1
  <2>8. \A i \in 1 .. n + 1 : g[i] = IF i = 1 THEN s[i] ELSE g[i - 1] \o s[i]
    BY <2>4, <2>5, <2>6
  <2>9. g = [i \in 1 .. n + 1 |-> g[i]]
    OBVIOUS
  <2> HIDE DEF g
  <2>10. [i \in 1 .. n + 1 |-> g[i]] = [i \in 1 .. n + 1 |-> IF i = 1 THEN s[i] ELSE g[i - 1] \o s[i]]
    BY <2>8
  <2>11. QED
    BY <2>7, <2>9, <2>10 DEF Flattens
<1>3. Nat \subseteq P
  <2> HIDE DEF P
  <2>1. QED
    BY <1>1, <1>2, Inductive
<1>4. QED
  BY <1>3

(* Two such functions agree where both are defined. *)
LEMMA FlattensAgree ==
    ASSUME NEW V, NEW s, NEW t, NEW f, NEW g, NEW n \in Nat, NEW m \in Nat, n <= m,
           Flattens(f, s, n, V), Flattens(g, t, m, V), \A i \in 1 .. n : s[i] = t[i]
    PROVE  \A i \in 1 .. n : f[i] = g[i]
<1> DEFINE P == {i \in Nat : i \in 1 .. n => f[i] = g[i]}
<1>1. \A i \in 1 .. n : f[i] = IF i = 1 THEN s[i] ELSE f[i - 1] \o s[i]
  BY DEF Flattens
<1>2. \A i \in 1 .. n : g[i] = IF i = 1 THEN t[i] ELSE g[i - 1] \o t[i]
  <2>1. \A i \in 1 .. m : g[i] = IF i = 1 THEN t[i] ELSE g[i - 1] \o t[i]
    BY DEF Flattens
  <2>2. \A i \in 1 .. n : i \in 1 .. m
    OBVIOUS
  <2>3. QED
    BY <2>1, <2>2
<1>3. 0 \in P
  OBVIOUS
<1>4. ASSUME NEW i \in Nat, i \in P PROVE i + 1 \in P
  <2>1. SUFFICES ASSUME i + 1 \in 1 .. n PROVE f[i + 1] = g[i + 1]
    OBVIOUS
  <2>2. CASE i = 0
    BY <1>1, <1>2, <2>1, <2>2
  <2>3. CASE i # 0
    <3>0. (i + 1) - 1 = i /\ i + 1 # 1
      BY <2>3
    <3>1. f[i] = g[i] /\ s[i + 1] = t[i + 1]
      BY <1>4, <2>1, <2>3
    <3>2. f[i + 1] = f[i] \o s[i + 1]
      BY <1>1, <2>1, <3>0
    <3>3. g[i + 1] = g[i] \o t[i + 1]
      BY <1>2, <2>1, <3>0
    <3>4. QED
      BY <3>1, <3>2, <3>3
  <2>4. QED
    BY <2>2, <2>3
<1>5. Nat \subseteq P
  <2> HIDE DEF P
  <2>1. QED
    BY <1>3, <1>4, Inductive
<1>6. QED
  BY <1>5

LEMMA FlattenIs ==
    ASSUME NEW V, NEW s \in Seq(Seq(V)), s # <<>>
    PROVE  \E f : Flattens(f, s, Len(s), V) /\ FlattenSeq(s) = f[Len(s)]
<1> DEFINE R(f) == f = [i \in 1 .. Len(s) |-> IF i = 1 THEN s[i] ELSE f[i - 1] \o s[i]]
           g == CHOOSE f : R(f)
<1>1. PICK h : Flattens(h, s, Len(s), V)
  BY FlattenFunction
<1>2. R(h)
  BY <1>1 DEF Flattens
<1>3. R(g)
  BY <1>2
<1>4. Len(s) # 0 /\ Len(s) \in Nat
  OBVIOUS
<1>5. FlattenSeq(s) = g[Len(s)]
  BY <1>4, Zenon DEF FlattenSeq
<1>6. g = [i \in 1 .. Len(s) |-> IF i = 1 THEN s[i] ELSE g[i - 1] \o s[i]]
  BY <1>3
<1> HIDE DEF g
<1> DEFINE P == {i \in Nat : i \in 1 .. Len(s) => g[i] = h[i]}
<1>7. \A i \in 1 .. Len(s) : g[i] = IF i = 1 THEN s[i] ELSE g[i - 1] \o s[i]
  BY <1>6
<1>8. \A i \in 1 .. Len(s) : h[i] = IF i = 1 THEN s[i] ELSE h[i - 1] \o s[i]
  BY <1>1 DEF Flattens
<1>9. 0 \in P
  OBVIOUS
<1>10. ASSUME NEW i \in Nat, i \in P PROVE i + 1 \in P
  <2>1. SUFFICES ASSUME i + 1 \in 1 .. Len(s) PROVE g[i + 1] = h[i + 1]
    OBVIOUS
  <2>2. CASE i = 0
    BY <1>7, <1>8, <2>1, <2>2
  <2>3. CASE i # 0
    BY <1>7, <1>8, <1>10, <2>1, <2>3
  <2>4. QED
    BY <2>2, <2>3
<1>11. Nat \subseteq P
  <2> HIDE DEF P
  <2>1. QED
    BY <1>9, <1>10, Inductive
<1>12. g[Len(s)] = h[Len(s)]
  BY <1>4, <1>11
<1>13. QED
  BY <1>1, <1>5, <1>12

LEMMA AppendFacts ==
    ASSUME NEW W, NEW s \in Seq(W), NEW x \in W
    PROVE  /\ Append(s, x) \in Seq(W) /\ Append(s, x) # <<>>
           /\ Len(Append(s, x)) = Len(s) + 1 /\ Append(s, x)[Len(s) + 1] = x
           /\ \A i \in 1 .. Len(s) : Append(s, x)[i] = s[i]
           /\ Len(s) \in Nat
  OBVIOUS

LEMMA FlattenAppend ==
    ASSUME NEW V, NEW s \in Seq(Seq(V)), NEW x \in Seq(V)
    PROVE  /\ FlattenSeq(s) \in Seq(V)
           /\ FlattenSeq(Append(s, x)) = FlattenSeq(s) \o x
           /\ FlattenSeq(<<>>) = <<>>
<1>1. FlattenSeq(<<>>) = <<>>
  BY DEF FlattenSeq
<1> DEFINE t == Append(s, x)
<1>2. /\ t \in Seq(Seq(V)) /\ t # <<>> /\ Len(t) = Len(s) + 1 /\ t[Len(s) + 1] = x
      /\ \A i \in 1 .. Len(s) : t[i] = s[i]
      /\ Len(s) \in Nat
  BY AppendFacts
<1> HIDE DEF t
<1>3. PICK g : Flattens(g, t, Len(t), V) /\ FlattenSeq(t) = g[Len(t)]
  BY <1>2, FlattenIs
<1>4. g[Len(t)] = IF Len(t) = 1 THEN t[Len(t)] ELSE g[Len(t) - 1] \o t[Len(t)]
  <2>1. Len(t) \in 1 .. Len(t)
    BY <1>2
  <2>2. \A i \in 1 .. Len(t) : g[i] = IF i = 1 THEN t[i] ELSE g[i - 1] \o t[i]
    BY <1>3 DEF Flattens
  <2>3. QED
    BY <2>1, <2>2
<1>5. CASE s = <<>>
  <2>1. Len(s) = 0 /\ <<>> \o x = x /\ <<>> \in Seq(V)
    BY <1>5
  <2>2. FlattenSeq(t) = x
    BY <1>2, <1>3, <1>4, <2>1
  <2>3. FlattenSeq(s) = <<>>
    BY <1>1, <1>5
  <2>4. QED
    BY <1>1, <2>1, <2>2, <2>3 DEF t
<1>6. CASE s # <<>>
  <2>1. PICK f : Flattens(f, s, Len(s), V) /\ FlattenSeq(s) = f[Len(s)]
    BY <1>6, FlattenIs
  <2>2. \A i \in 1 .. Len(s) : f[i] = g[i]
    <3>1. Len(s) <= Len(t) /\ Len(t) \in Nat /\ Len(s) \in Nat
      BY <1>2
    <3>2. \A i \in 1 .. Len(s) : s[i] = t[i]
      BY <1>2
    <3>3. Flattens(f, s, Len(s), V) /\ Flattens(g, t, Len(t), V)
      BY <1>3, <2>1
    <3> DEFINE n == Len(s)
               m == Len(t)
    <3> HIDE DEF n, m
    <3>4. n \in Nat /\ m \in Nat /\ n <= m /\ Flattens(f, s, n, V) /\ Flattens(g, t, m, V)
          /\ \A i \in 1 .. n : s[i] = t[i]
      BY <3>1, <3>2, <3>3 DEF n, m
    <3>5. \A i \in 1 .. n : f[i] = g[i]
      BY <3>4, FlattensAgree
    <3>6. QED
      BY <3>5 DEF n
  <2>3. Len(s) \in 1 .. Len(s) /\ Len(t) - 1 = Len(s) /\ Len(t) # 1
    BY <1>2, <1>6
  <2>4. FlattenSeq(s) \in Seq(V)
    BY <2>1, <2>3 DEF Flattens
  <2>5. QED
    BY <1>1, <1>2, <1>3, <1>4, <2>1, <2>2, <2>3, <2>4 DEF t
<1>7. QED
  BY <1>5, <1>6

-----------------------------------------------------------------------------
(* What the messages of a conversation say, one after the other.             *)
LEMMA SaidAppend ==
    ASSUME NEW c \in Seq(AnyMessage), NEW m \in AnyMessage
    PROVE  /\ Said(c) \in Seq(Nat) /\ Said(<<>>) = <<>>
           /\ Said(Append(c, m)) = Said(c) \o m.says
<1> DEFINE S(d) == [i \in 1 .. Len(d) |-> d[i].says]
<1>1. \A n \in AnyMessage : n.says \in Seq(Nat)
  BY DEF AnyMessage
<1>2. ASSUME NEW d \in Seq(AnyMessage) PROVE S(d) \in Seq(Seq(Nat)) /\ Len(S(d)) = Len(d)
  <2>1. \A i \in 1 .. Len(d) : d[i] \in AnyMessage
    OBVIOUS
  <2> DEFINE q(i) == d[i].says
  <2>2. \A i \in 1 .. Len(d) : q(i) \in Seq(Nat)
    BY <1>1, <2>1
  <2>3. S(d) = [i \in 1 .. Len(d) |-> q(i)]
    OBVIOUS
  <2> HIDE DEF q, S
  <2>5. QED
    BY <2>2, <2>3
<1>3. /\ Append(c, m) \in Seq(AnyMessage) /\ Len(Append(c, m)) = Len(c) + 1 /\ Len(c) \in Nat
      /\ Append(c, m)[Len(c) + 1] = m /\ \A i \in 1 .. Len(c) : Append(c, m)[i] = c[i]
  BY AppendFacts
<1>4. S(Append(c, m)) = Append(S(c), m.says)
  <2>1. S(c) \in Seq(Seq(Nat)) /\ Len(S(c)) = Len(c) /\ m.says \in Seq(Nat)
        /\ S(Append(c, m)) \in Seq(Seq(Nat)) /\ Len(S(Append(c, m))) = Len(c) + 1
    BY <1>1, <1>2, <1>3
  <2>2. /\ Append(S(c), m.says) \in Seq(Seq(Nat)) /\ Len(Append(S(c), m.says)) = Len(c) + 1
        /\ Append(S(c), m.says)[Len(c) + 1] = m.says
        /\ \A i \in 1 .. Len(c) : Append(S(c), m.says)[i] = S(c)[i]
    <3> HIDE DEF S
    <3>1. QED
      BY <2>1, AppendFacts
  <2>3. \A i \in 1 .. Len(c) + 1 : S(Append(c, m))[i] = Append(S(c), m.says)[i]
    BY <1>3, <2>2
  <2> HIDE DEF S
  <2>5. QED
    BY <2>1, <2>2, <2>3
<1>5. S(<<>>) = <<>>
  OBVIOUS
<1>6. \A d : Said(d) = FlattenSeq(S(d))
  BY DEF Said
<1>7. S(c) \in Seq(Seq(Nat)) /\ m.says \in Seq(Nat)
  BY <1>1, <1>2
<1> HIDE DEF S
<1>8. QED
  BY <1>4, <1>5, <1>6, <1>7, FlattenAppend

(* One text for each message. *)
LEMMA SaidEach ==
    ASSUME NEW c \in Seq(AnyMessage)
    PROVE  \A s \in Seq(Nat) : c \o Each(s) \in Seq(AnyMessage) /\ Said(c \o Each(s)) = Said(c) \o s
<1> DEFINE Fine(s) == Said(c \o Each(s)) = Said(c) \o s
           P == {n \in Nat : \A s \in Seq(Nat) : Len(s) = n => Fine(s)}
<1>1. Said(c) \in Seq(Nat)
  BY SaidAppend, NoteShape
<1>2. \A s \in Seq(Nat) : Each(s) \in Seq(AnyMessage) /\ c \o Each(s) \in Seq(AnyMessage)
  BY EachShape
<1>3. 0 \in P
  <2>1. Each(<<>>) = <<>>
    BY DEF Each
  <2>2. Fine(<<>>)
    <3>1. c \o <<>> = c /\ Said(c) \o <<>> = Said(c)
      BY <1>1
    <3>2. QED
      BY <2>1, <3>1
  <2> HIDE DEF Fine
  <2>3. \A s \in Seq(Nat) : Len(s) = 0 => s = <<>>
    OBVIOUS
  <2>5. QED
    BY <2>2, <2>3
<1>4. ASSUME NEW n \in Nat, n \in P PROVE n + 1 \in P
  <2>1. SUFFICES ASSUME NEW s \in Seq(Nat), Len(s) = n + 1 PROVE Fine(s)
    OBVIOUS
  <2> DEFINE r == SubSeq(s, 1, n)
             x == s[n + 1]
  <2>2. r \in Seq(Nat) /\ Len(r) = n /\ x \in Nat /\ s = Append(r, x)
    BY <2>1
  <2> HIDE DEF r, x
  <2>3. Fine(r)
    BY <1>4, <2>2
  <2>4. Says(<<x>>) \in AnyMessage /\ Says(<<x>>).says = <<x>>
    <3>1. <<x>> \in Seq(Nat)
      BY <2>2
    <3>2. QED
      BY <3>1, SaysShape
  <2>5. Each(s) = Append(Each(r), Says(<<x>>))
    <3>1. /\ Len(s) = n + 1 /\ s[n + 1] = x /\ \A i \in 1 .. n : s[i] = r[i]
      BY <2>2, AppendFacts
    <3>2. Says(<<x>>) \in AnyMessage
      BY <2>4
    <3>3. /\ Each(r) \in Seq(AnyMessage) /\ Len(Each(r)) = n
          /\ Each(s) \in Seq(AnyMessage) /\ Len(Each(s)) = n + 1
      BY <2>1, <2>2, EachShape
    <3>4. \A i \in 1 .. n : Each(r)[i] = Says(<<r[i]>>)
      BY <2>2 DEF Each
    <3>5. \A i \in 1 .. n + 1 : Each(s)[i] = Says(<<s[i]>>)
      BY <2>1 DEF Each
    <3> DEFINE e == Each(r)
               f == Each(s)
               y == Says(<<x>>)
    <3>6. /\ \A i \in 1 .. n : f[i] = e[i]
          /\ f[n + 1] = y
      <4>1. ASSUME NEW i \in 1 .. n PROVE f[i] = e[i]
        <5>1. i \in 1 .. n + 1
          OBVIOUS
        <5>2. f[i] = Says(<<s[i]>>)
          BY <3>5, <5>1
        <5>3. e[i] = Says(<<r[i]>>)
          BY <3>4
        <5>4. s[i] = r[i]
          BY <3>1
        <5>5. QED
          BY <5>2, <5>3, <5>4
      <4>2. n + 1 \in 1 .. n + 1
        OBVIOUS
      <4>3. f[n + 1] = y
        BY <3>1, <3>5, <4>2
      <4>4. QED
        BY <4>1, <4>3
    <3>7. e \in Seq(AnyMessage) /\ Len(e) = n /\ f \in Seq(AnyMessage) /\ Len(f) = n + 1 /\ y \in AnyMessage
      BY <3>2, <3>3
    <3> HIDE DEF e, f, y
    <3>8. f = Append(e, y)
      BY <3>6, <3>7
    <3>9. QED
      BY <3>8 DEF e, f, y
  <2>6. c \o Each(s) = Append(c \o Each(r), Says(<<x>>))
    <3>1. Each(r) \in Seq(AnyMessage)
      BY <1>2, <2>2
    <3> DEFINE e == Each(r)
               y == Says(<<x>>)
    <3> HIDE DEF e, y
    <3>2. \A d \in Seq(AnyMessage), m \in AnyMessage : c \o Append(d, m) = Append(c \o d, m)
      OBVIOUS
    <3>3. QED
      BY <2>5, <2>4, <3>1, <3>2
  <2>7. Said(c \o Each(s)) = Said(c \o Each(r)) \o <<x>>
    BY <1>2, <2>2, <2>4, <2>6, SaidAppend
  <2>8. Said(c \o Each(r)) = Said(c) \o r
    BY <2>3
  <2>9. QED
    BY <1>1, <2>2, <2>7, <2>8
<1>5. Nat \subseteq P
  <2> HIDE DEF P
  <2>1. QED
    BY <1>3, <1>4, Inductive
<1>6. QED
  BY <1>2, <1>5

-----------------------------------------------------------------------------
(* The feedback on its way, and its order as long as nothing has failed; a   *)
(* failed iteration loses the deferred part, which the count allows.         *)
Flow(c, d, p) == Said(c) \o d \o Texts(p)

Sorted(n, m, f) == f = [i \in 1 .. m - n |-> n + i]

Ordered ==
    /\ told \in Nat /\ retries \in Nat
    /\ told + Len(Flow(conversation, deferred, pending)) <= sent
    /\ pc \in {"start", "tools", "last", "wait", "ended"} => deferred = <<>>
    /\ pc # "ended" /\ retries = 0 => Sorted(told, sent, Flow(conversation, deferred, pending))

LEMMA SortedIs ==
    ASSUME NEW n \in Nat, NEW m \in Nat, n <= m, NEW f, Sorted(n, m, f)
    PROVE  f \in Seq(Nat) /\ Len(f) = m - n /\ \A i \in 1 .. m - n : f[i] = n + i
<1>1. m - n \in Nat
  OBVIOUS
<1>2. QED
  BY <1>1 DEF Sorted

LEMMA SortedWhen ==
    ASSUME NEW n \in Nat, NEW m \in Nat, NEW f \in Seq(Nat), Len(f) = m - n,
           \A i \in 1 .. Len(f) : f[i] = n + i
    PROVE  Sorted(n, m, f)
<1>1. f = [i \in 1 .. m - n |-> f[i]]
  OBVIOUS
<1>2. \A i \in 1 .. m - n : f[i] = n + i
  OBVIOUS
<1>3. [i \in 1 .. m - n |-> f[i]] = [i \in 1 .. m - n |-> n + i]
  BY <1>2
<1>4. QED
  BY <1>1, <1>3 DEF Sorted

LEMMA FlowShape ==
    ASSUME NEW c \in Seq(AnyMessage), NEW d \in Seq(Nat), NEW p \in Seq(AnyText)
    PROVE  /\ Said(c) \in Seq(Nat) /\ Texts(p) \in Seq(Nat) /\ Flow(c, d, p) \in Seq(Nat)
           /\ Len(Flow(c, d, p)) = Len(Said(c)) + Len(d) + Len(p)
           /\ Flow(c, d, <<>>) = Said(c) \o d
           /\ Flow(c, <<>>, p) = Said(c) \o Texts(p)
<1>1. Said(c) \in Seq(Nat)
  BY SaidAppend, NoteShape
<1>2. Texts(p) \in Seq(Nat) /\ Len(Texts(p)) = Len(p)
  BY TextsShape
<1>3. Texts(<<>>) = <<>>
  BY DEF Texts
<1>4. ASSUME NEW a \in Seq(Nat), NEW b \in Seq(Nat)
      PROVE  /\ (a \o d) \o b \in Seq(Nat) /\ Len((a \o d) \o b) = Len(a) + Len(d) + Len(b)
             /\ (a \o d) \o <<>> = a \o d /\ (a \o <<>>) \o b = a \o b
  OBVIOUS
<1>5. QED
  BY <1>1, <1>2, <1>3, <1>4 DEF Flow

\* A step that loses nothing.
LEMMA FlowKept ==
    ASSUME Ordered, UNCHANGED <<sent, told>>, retries' \in Nat, retries' = 0 => retries = 0,
           pc' # "ended" => pc # "ended",
           pc' \in {"start", "tools", "last", "wait", "ended"} => deferred' = <<>>,
           Flow(conversation', deferred', pending') = Flow(conversation, deferred, pending)
    PROVE  Ordered'
  BY DEF Ordered, Sorted

\* A step that may, because the turn ends or the iteration has failed.
LEMMA FlowLost ==
    ASSUME Shape, Shape', Ordered, UNCHANGED <<sent, told, conversation>>,
           retries' \in Nat, pc' = "ended" \/ retries' # 0,
           deferred' = <<>>, pending' = <<>> \/ pending' = pending
    PROVE  Ordered'
<1>1. Len(Flow(conversation', deferred', pending')) <= Len(Flow(conversation, deferred, pending))
  <2>1. /\ Len(Flow(conversation, deferred, pending)) = Len(Said(conversation)) + Len(deferred) + Len(pending)
        /\ Said(conversation) \in Seq(Nat)
    BY FlowShape DEF Shape
  <2>2. Len(Flow(conversation', deferred', pending')) = Len(Said(conversation')) + Len(deferred') + Len(pending')
    BY FlowShape DEF Shape
  <2>3. /\ Len(Said(conversation)) \in Nat /\ Len(deferred) \in Nat /\ Len(pending) \in Nat
        /\ Len(deferred') = 0 /\ (Len(pending') = 0 \/ Len(pending') = Len(pending))
        /\ Said(conversation') = Said(conversation)
    BY <2>1 DEF Shape
  <2>4. QED
    BY <2>1, <2>2, <2>3
<1>2. Len(Flow(conversation, deferred, pending)) \in Nat /\ Len(Flow(conversation', deferred', pending')) \in Nat
  <2>1. Flow(conversation, deferred, pending) \in Seq(Nat)
    BY FlowShape DEF Shape
  <2>2. Flow(conversation', deferred', pending') \in Seq(Nat)
    BY FlowShape DEF Shape
  <2>3. QED
    BY <2>1, <2>2
<1>3. told \in Nat /\ sent \in Nat /\ told + Len(Flow(conversation, deferred, pending)) <= sent
  BY DEF Ordered, Shape
<1>4. told' + Len(Flow(conversation', deferred', pending')) <= sent'
  BY <1>1, <1>2, <1>3
<1>5. QED
  BY <1>3, <1>4 DEF Ordered

\* Messages without feedback.
LEMMA SaidSilent ==
    ASSUME NEW c \in Seq(AnyMessage), NEW m \in AnyMessage, m.says = <<>>
    PROVE  c \o <<m>> \in Seq(AnyMessage) /\ Said(c \o <<m>>) = Said(c)
           /\ Append(c, m) \in Seq(AnyMessage) /\ Said(Append(c, m)) = Said(c)
<1>1. c \o <<m>> = Append(c, m) /\ Append(c, m) \in Seq(AnyMessage)
  OBVIOUS
<1>2. Said(Append(c, m)) = Said(c) \o <<>> /\ Said(c) \in Seq(Nat)
  BY SaidAppend
<1>3. Said(c) \o <<>> = Said(c)
  BY <1>2
<1>4. QED
  BY <1>1, <1>2, <1>3

LEMMA SaidIf ==
    ASSUME NEW c \in Seq(AnyMessage), NEW m \in AnyMessage, NEW b, m.says = <<>>
    PROVE  c \o If(b, <<m>>) \in Seq(AnyMessage) /\ Said(c \o If(b, <<m>>)) = Said(c)
<1>1. c \o <<>> = c
  OBVIOUS
<1>2. QED
  BY <1>1, SaidSilent DEF If

LEMMA Silent == Note.says = <<>> /\ Assistant.says = <<>>
  BY DEF Note, Assistant

LEMMA SaidBuilt ==
    ASSUME NEW c \in Seq(AnyMessage), results \in Seq(AnyId)
    PROVE  c \o Built \in Seq(AnyMessage) /\ Said(c \o Built) = Said(c)
<1> DEFINE A == [Assistant EXCEPT !.ids = results]
           R == [role |-> "tool", ids |-> results, says |-> <<>>]
           a == If(said \/ results # <<>>, <<A>>)
           r == If(results # <<>>, <<R>>)
<1>1. A = [role |-> "assistant", ids |-> results, says |-> <<>>]
  BY DEF Assistant
<1>2. A \in AnyMessage /\ R \in AnyMessage /\ A.says = <<>> /\ R.says = <<>>
  <2>1. <<>> \in Seq(Nat)
    OBVIOUS
  <2>2. QED
    BY <1>1, <2>1, MessageShape
<1>3. Built = a \o r
  BY DEF Built
<1>4. a \in Seq(AnyMessage) /\ r \in Seq(AnyMessage)
  <2> HIDE DEF A, R
  <2>1. QED
    BY <1>2 DEF If
<1>5. c \o (a \o r) = (c \o a) \o r
  <2> HIDE DEF a, r
  <2>1. QED
    BY <1>4
<1>6. c \o a \in Seq(AnyMessage) /\ Said(c \o a) = Said(c)
  BY <1>2, SaidIf
<1>7. (c \o a) \o r \in Seq(AnyMessage) /\ Said((c \o a) \o r) = Said(c \o a)
  BY <1>2, <1>6, SaidIf
<1>8. QED
  BY <1>3, <1>5, <1>6, <1>7

LEMMA OrderedInit == Init => Ordered
<1> SUFFICES ASSUME Init PROVE Ordered
  OBVIOUS
<1>1. conversation = <<>> /\ deferred = <<>> /\ pending = <<>> /\ told = 0 /\ sent = 0 /\ retries = 0
  BY DEF Init
<1>2. Flow(conversation, deferred, pending) = <<>>
  <2>1. Said(<<>>) = <<>>
    <3>1. <<>> \in Seq(AnyMessage)
      OBVIOUS
    <3>2. QED
      BY <3>1, SaidAppend, NoteShape
  <2>2. Texts(<<>>) = <<>>
    BY DEF Texts
  <2>3. (<<>> \o <<>>) \o <<>> = <<>>
    OBVIOUS
  <2>4. QED
    BY <1>1, <2>1, <2>2, <2>3 DEF Flow
<1>3. <<>> = [i \in 1 .. 0 - 0 |-> 0 + i] /\ Len(<<>>) = 0
  OBVIOUS
<1>4. QED
  BY <1>1, <1>2, <1>3 DEF Ordered, Sorted

LEMMA RequestKeepsOrder ==
    ASSUME Shape, Shape', Ordered, Request
    PROVE  Ordered'
<1> DEFINE first == iteration = 0
           c     == conversation \o If(~first, Each(Texts(pending)))
           k     == Len(Said(c))
           all   == Flow(conversation, deferred, pending)
           rest  == IF first THEN Texts(pending) ELSE <<>>
<1>1. /\ pc = "start" /\ deferred = <<>>
      /\ told' = told + k
      /\ conversation' = If(c # <<>>, <<[Last(c) EXCEPT !.ids = <<>>, !.says = <<>>]>>)
      /\ IF first THEN UNCHANGED <<pending, interrupted>> ELSE Drained
      /\ deferred' = <<>> /\ pc' \in {"stream", "ended"}
      /\ UNCHANGED <<sent, retries>>
  BY DEF Request, Leave, Fresh, locals, budgets, Ordered
<1>2. /\ conversation \in Seq(AnyMessage) /\ pending \in Seq(AnyText) /\ <<>> \in Seq(Nat)
      /\ Texts(pending) \in Seq(Nat) /\ Said(conversation) \in Seq(Nat)
      /\ all = Said(conversation) \o Texts(pending)
  <2>1. conversation \in Seq(AnyMessage) /\ pending \in Seq(AnyText) /\ <<>> \in Seq(Nat)
    BY DEF Shape
  <2>2. QED
    BY <1>1, <2>1, FlowShape
<1>3. /\ c \in Seq(AnyMessage) /\ Said(c) \in Seq(Nat) /\ rest \in Seq(Nat)
      /\ all = Said(c) \o rest
  <2>1. CASE first
    <3>1. c = conversation
      BY <1>2, <2>1 DEF If
    <3>2. QED
      BY <1>2, <2>1, <3>1
  <2>2. CASE ~first
    <3>1. c = conversation \o Each(Texts(pending))
      BY <2>2 DEF If
    <3>2. c \in Seq(AnyMessage) /\ Said(c) = all
      BY <1>2, <3>1, SaidEach
    <3>3. all \in Seq(Nat) /\ all \o <<>> = all /\ <<>> \in Seq(Nat)
      BY <1>2
    <3>4. QED
      BY <2>2, <3>2, <3>3
  <2>3. QED
    BY <2>1, <2>2
<1>4. Said(conversation') = <<>> /\ conversation' \in Seq(AnyMessage)
  <2>1. Said(<<>>) = <<>> /\ <<>> \in Seq(AnyMessage)
    BY <1>3, SaidAppend, NoteShape
  <2>2. CASE c = <<>>
    <3>1. conversation' = <<>>
      BY <1>1, <2>2 DEF If
    <3>2. QED
      BY <2>1, <3>1
  <2>3. CASE c # <<>>
    <3> DEFINE l == [Last(c) EXCEPT !.ids = <<>>, !.says = <<>>]
    <3>1. Last(c) \in AnyMessage
      BY <1>3, <2>3 DEF Last
    <3>2. l \in AnyMessage /\ l.says = <<>>
      <4>1. <<>> \in Seq(AnyId) /\ <<>> \in Seq(Nat)
        OBVIOUS
      <4>2. QED
        BY <3>1, <4>1 DEF AnyMessage
    <3>3. conversation' = <<l>>
      BY <1>1, <2>3 DEF If
    <3> HIDE DEF l
    <3>4. <<l>> = <<>> \o <<l>>
      BY <3>2
    <3>5. QED
      BY <2>1, <3>2, <3>3, <3>4, SaidSilent
  <2>4. QED
    BY <2>2, <2>3
<1>5. Flow(conversation', deferred', pending') = rest
  <2>1. Texts(pending') = rest /\ pending' \in Seq(AnyText)
    <3>1. Texts(<<>>) = <<>>
      BY DEF Texts
    <3>2. <<>> \in Seq(AnyText)
      OBVIOUS
    <3>3. CASE first
      BY <1>1, <1>2, <3>3
    <3>4. CASE ~first
      BY <1>1, <3>1, <3>2, <3>4 DEF Drained
    <3>5. QED
      BY <3>3, <3>4
  <2>2. Flow(conversation', deferred', pending') = <<>> \o rest
    <3>1. Flow(conversation', <<>>, pending') = Said(conversation') \o Texts(pending')
      BY <1>2, <1>4, <2>1, FlowShape
    <3>2. QED
      BY <1>1, <1>4, <2>1, <3>1
  <2>3. <<>> \o rest = rest
    BY <1>3
  <2>4. QED
    BY <2>2, <2>3
<1>6. Len(all) = k + Len(rest) /\ k \in Nat /\ Len(rest) \in Nat
  <2> HIDE DEF c, rest, all
  <2>1. QED
    BY <1>3
<1>7. told \in Nat /\ sent \in Nat /\ retries \in Nat /\ told + Len(all) <= sent
  BY DEF Ordered, Shape
<1>8. told' \in Nat /\ told' + Len(rest) <= sent'
  <2> HIDE DEF c, rest, all, k
  <2>1. QED
    BY <1>1, <1>6, <1>7
<1>9. ASSUME retries = 0 PROVE Sorted(told', sent', rest)
  <2>1. Sorted(told, sent, all)
    BY <1>1, <1>9 DEF Ordered
  <2> HIDE DEF all, rest, c, k
  <2>2. told <= sent /\ sent - told \in Nat
    BY <1>6, <1>7
  <2>3. Len(all) = sent - told /\ \A i \in 1 .. sent - told : all[i] = told + i
    BY <1>7, <2>1, <2>2, SortedIs
  <2>4. Len(rest) = sent' - told'
    BY <1>1, <1>6, <1>7, <2>3
  <2>5. \A i \in 1 .. Len(rest) : all[k + i] = rest[i] /\ k + i \in 1 .. sent - told
    BY <1>3, <1>6, <2>3 DEF k
  <2>6. \A i \in 1 .. Len(rest) : rest[i] = told' + i
    BY <1>1, <1>6, <1>7, <2>3, <2>5
  <2>7. told' \in Nat /\ sent' \in Nat
    BY <1>1, <1>7, <1>8
  <2>8. QED
    BY <1>3, <2>4, <2>6, <2>7, SortedWhen
<1> HIDE DEF c, k, all, rest, first
<1>10. QED
  BY <1>1, <1>5, <1>7, <1>8, <1>9 DEF Ordered

LEMMA StreamKeepsOrder ==
    ASSUME Shape, Ordered, Stream
    PROVE  Ordered'
<1>1. CASE Text \/ ToolUseStart \/ FakeTool \/ (\E id \in Ids(calls) : ToolUseEnd(id))
  <2>1. /\ UNCHANGED <<sent, told, retries, conversation, deferred, pending>>
        /\ pc = "stream" /\ pc' \in {"stream", "before"}
    BY <1>1 DEF Text, ToolUseStart, FakeTool, ToolUseEnd, feedback, budgets
  <2>2. QED
    BY <2>1, FlowKept DEF Ordered
<1>2. CASE StreamEnds
  <2> DEFINE built == conversation \o Built \o Each(deferred)
  <2>1. built \in Seq(AnyMessage) /\ Said(built) = Said(conversation) \o deferred
    <3>1. conversation \o Built \in Seq(AnyMessage) /\ Said(conversation \o Built) = Said(conversation)
      BY SaidBuilt DEF Shape
    <3>2. deferred \in Seq(Nat)
      BY DEF Shape
    <3>3. QED
      BY <3>1, <3>2, SaidEach
  <2>2. conversation' = built \/ conversation' = Append(built, Note)
    BY <1>2 DEF StreamEnds
  <2>3. /\ pc = "stream" /\ deferred' = <<>> /\ UNCHANGED <<sent, told, pending, retries>>
    BY <1>2 DEF StreamEnds, NextIteration, Leave, Fresh, feedback
  <2> HIDE DEF built
  <2>4. conversation' \in Seq(AnyMessage) /\ Said(conversation') = Said(built)
    BY <2>1, <2>2, NoteShape, Silent, SaidSilent
  <2>5. Flow(conversation', deferred', pending') = Flow(conversation, deferred, pending)
    <3>1. pending \in Seq(AnyText) /\ <<>> \in Seq(Nat)
      BY DEF Shape
    <3>2. Flow(conversation', <<>>, pending) = Said(conversation') \o Texts(pending)
      BY <2>4, <3>1, FlowShape
    <3>3. QED
      BY <2>1, <2>3, <2>4, <3>2 DEF Flow
  <2>6. QED
    BY <2>3, <2>5, FlowKept DEF Ordered
<1>3. QED
  BY <1>1, <1>2 DEF Stream

LEMMA ToolKeepsOrder ==
    ASSUME Shape, Shape', Ordered, Tool
    PROVE  Ordered'
<1>1. /\ UNCHANGED <<sent, told, retries, conversation>> /\ retries' \in Nat
      /\ pending' = pending \/ pending' = <<>>
      /\ pc \in {"before", "running", "after"}
  BY DEF Tool, BeforeTool, ToolEnds, AfterTool, Drained, feedback, budgets, Ordered
<1>2. CASE Leave
  <2>1. pc' = "ended" /\ deferred' = <<>>
    BY <1>2 DEF Leave, Fresh
  <2>2. QED
    BY <1>1, <2>1, FlowLost
<1>3. ASSUME pc' \in {"stream", "running", "after"},
             \/ deferred' = deferred /\ pending' = pending
             \/ deferred' = deferred \o Texts(pending) /\ pending' = <<>>
      PROVE  Ordered'
  <2>1. Flow(conversation', deferred', pending') = Flow(conversation, deferred, pending)
    <3>1. CASE deferred' = deferred /\ pending' = pending
      BY <1>1, <3>1
    <3>2. CASE deferred' = deferred \o Texts(pending) /\ pending' = <<>>
      <4>1. /\ Said(conversation) \in Seq(Nat) /\ deferred \in Seq(Nat) /\ Texts(pending) \in Seq(Nat)
            /\ conversation \in Seq(AnyMessage) /\ deferred' \in Seq(Nat) /\ pending \in Seq(AnyText)
        BY FlowShape DEF Shape
      <4>2. Flow(conversation, deferred', <<>>) = Said(conversation) \o deferred'
        BY <4>1, FlowShape
      <4>3. \A a, b, d \in Seq(Nat) : a \o (b \o d) = (a \o b) \o d
        OBVIOUS
      <4>4. Said(conversation) \o (deferred \o Texts(pending)) = Flow(conversation, deferred, pending)
        BY <4>1, <4>3 DEF Flow
      <4>5. QED
        BY <1>1, <3>2, <4>2, <4>4
    <3>3. QED
      BY <1>3, <3>1, <3>2
  <2>2. QED
    BY <1>1, <1>3, <2>1, FlowKept
<1>4. CASE BeforeTool /\ ~Leave
  <2>1. \/ \E id \in running : Returned(deferred \o Texts(pending), Append(results, id)) /\ pending' = <<>>
        \/ pending = <<>> /\ pending' = <<>> /\ pc' = "running" /\ deferred' = deferred
    BY <1>4 DEF BeforeTool, Drained, locals
  <2>2. QED
    BY <1>3, <1>4, <2>1 DEF Returned
<1>5. CASE ToolEnds /\ ~Leave
  <2>1. pc' \in {"stream", "after"} /\ deferred' = deferred /\ pending' = pending
    BY <1>5 DEF ToolEnds, Returned, feedback
  <2>2. QED
    BY <1>3, <2>1
<1>6. CASE AfterTool /\ ~Leave
  <2>1. pc' = "stream" /\ deferred' = deferred \o Texts(pending) /\ pending' = <<>>
    BY <1>6 DEF AfterTool, Returned, Drained
  <2>2. QED
    BY <1>3, <2>1
<1>7. QED
  BY <1>2, <1>4, <1>5, <1>6 DEF Tool

\* The ends of an iteration where the pending feedback goes into the
\* conversation, or there is none.
LEMMA DeliveredKeepsOrder ==
    ASSUME Shape, Ordered, UNCHANGED <<sent, told, retries>>,
           pc \in {"tools", "last", "wait"}, deferred' = <<>>, pending' = <<>>,
           conversation' \in Seq(AnyMessage),
           Said(conversation') = Said(conversation) \o Texts(pending)
    PROVE  Ordered'
<1>1. deferred = <<>>
  BY DEF Ordered
<1>2. conversation \in Seq(AnyMessage) /\ pending \in Seq(AnyText) /\ <<>> \in Seq(Nat) /\ <<>> \in Seq(AnyText)
  BY DEF Shape
<1>3. Flow(conversation, <<>>, pending) = Said(conversation) \o Texts(pending)
  BY <1>2, FlowShape
<1>4. Flow(conversation', <<>>, <<>>) = Said(conversation') \o <<>> /\ Said(conversation') \in Seq(Nat)
  BY <1>2, FlowShape
<1>5. Said(conversation') \o <<>> = Said(conversation')
  BY <1>4
<1>6. Flow(conversation', deferred', pending') = Flow(conversation, deferred, pending)
  BY <1>1, <1>3, <1>4, <1>5
<1>7. QED
  BY <1>6, FlowKept DEF Ordered

LEMMA FeedbackKeepsOrder ==
    ASSUME Shape, Ordered, AfterTools \/ LastCall \/ SecondCall
    PROVE  Ordered'
<1>1. /\ UNCHANGED <<sent, told, retries>> /\ pending' = <<>>
      /\ pc \in {"tools", "last", "wait"} /\ deferred = <<>>
  BY DEF AfterTools, LastCall, SecondCall, Drained, budgets, Ordered
<1>2. conversation \in Seq(AnyMessage) /\ Texts(pending) \in Seq(Nat) /\ Said(conversation) \in Seq(Nat)
  BY FlowShape DEF Shape
<1>3. CASE AfterTools
  <2>1. PICK copy \in {FALSE, said} :
          conversation' = conversation \o If(empties = MaxEmpties, <<Note>>)
                          \o If(copy /\ pending # <<>>, <<Assistant>>) \o Each(Texts(pending))
    BY <1>3 DEF AfterTools
  <2> DEFINE a == conversation \o If(empties = MaxEmpties, <<Note>>)
             b == a \o If(copy /\ pending # <<>>, <<Assistant>>)
  <2>2. a \in Seq(AnyMessage) /\ Said(a) = Said(conversation)
    BY <1>2, NoteShape, Silent, SaidIf
  <2>3. conversation' = b \o Each(Texts(pending))
    BY <2>1
  <2> HIDE DEF a
  <2>4. b \in Seq(AnyMessage) /\ Said(b) = Said(a)
    <3>1. Assistant \in AnyMessage /\ Assistant.says = <<>>
      BY NoteShape, Silent
    <3>2. QED
      BY <2>2, <3>1, SaidIf
  <2> HIDE DEF b
  <2>5. conversation' \in Seq(AnyMessage) /\ Said(conversation') = Said(conversation) \o Texts(pending)
    <3>1. b \o Each(Texts(pending)) \in Seq(AnyMessage) /\ Said(b \o Each(Texts(pending))) = Said(b) \o Texts(pending)
      BY <1>2, <2>4, SaidEach
    <3>2. QED
      BY <2>2, <2>3, <2>4, <3>1, Zenon
  <2>6. deferred' = <<>>
    BY <1>3 DEF AfterTools, Leave, NextIteration, Fresh
  <2>7. QED
    BY <1>1, <2>5, <2>6, DeliveredKeepsOrder
<1>4. CASE Deliver
  <2> DEFINE a == conversation \o If(said, <<Assistant>>)
             m == Says(Texts(pending))
  <2>1. a \in Seq(AnyMessage) /\ Said(a) = Said(conversation)
    BY <1>2, NoteShape, Silent, SaidIf
  <2>2. m \in AnyMessage /\ m.says = Texts(pending)
    BY <1>2, SaysShape
  <2>3. conversation' = a \o <<m>>
    BY <1>4 DEF Deliver
  <2> HIDE DEF a, m
  <2>4. a \o <<m>> = Append(a, m) /\ Append(a, m) \in Seq(AnyMessage)
    BY <2>1, <2>2
  <2>5. Said(Append(a, m)) = Said(a) \o m.says
    BY <2>1, <2>2, SaidAppend
  <2>6. deferred' = <<>>
    BY <1>4 DEF Deliver, NextIteration, Fresh
  <2>7. QED
    BY <1>1, <2>1, <2>2, <2>3, <2>4, <2>5, <2>6, DeliveredKeepsOrder
<1>5. CASE pending = <<>> /\ UNCHANGED <<conversation, locals>> /\ pc' = "wait"
  <2>1. UNCHANGED <<conversation, deferred, pending>>
    BY <1>1, <1>5 DEF locals
  <2>2. QED
    BY <1>1, <1>5, <2>1, FlowKept DEF Ordered
<1>6. QED
  BY <1>3, <1>4, <1>5 DEF LastCall, SecondCall

LEMMA ConcatTwo ==
    ASSUME NEW W, NEW s \in Seq(W), NEW a \in W, NEW b \in W
    PROVE  s \o <<a, b>> = (s \o <<a>>) \o <<b>>
<1> DEFINE l == s \o <<a, b>>
           r == (s \o <<a>>) \o <<b>>
<1>1. <<a, b>> \in Seq(W) /\ Len(<<a, b>>) = 2 /\ <<a, b>>[1] = a /\ <<a, b>>[2] = b
  OBVIOUS
<1>2. l \in Seq(W) /\ Len(l) = Len(s) + 2 /\ Len(s) \in Nat
  BY <1>1
<1>3. /\ \A i \in 1 .. Len(s) : l[i] = s[i]
      /\ l[Len(s) + 1] = a /\ l[Len(s) + 2] = b
  BY <1>1, <1>2
<1>4. /\ r \in Seq(W) /\ Len(r) = Len(s) + 2
      /\ \A i \in 1 .. Len(s) : r[i] = s[i]
      /\ r[Len(s) + 1] = a /\ r[Len(s) + 2] = b
  BY <1>2
<1> HIDE DEF l, r
<1>5. \A i \in 1 .. Len(s) + 2 : l[i] = r[i]
  BY <1>2, <1>3, <1>4
<1>6. l = r
  BY <1>2, <1>4, <1>5
<1>7. QED
  BY <1>6 DEF l, r

LEMMA DecideKeepsOrder ==
    ASSUME Shape, Ordered, Decide
    PROVE  Ordered'
<1>1. Deciding /\ UNCHANGED <<sent, told, retries>>
  BY VerdictFacts DEF Decide, ContinueIntent, ContinueBlock, ContinueCut, SpendGrace, Nudge,
     SpendEmpty, Continue, End, budgets
<1>2. pc = "wait" /\ pending = <<>> /\ pending' = <<>> /\ deferred' = <<>>
  BY <1>1 DEF Deciding, Drained, Decide, ContinueIntent, ContinueBlock, ContinueCut, SpendGrace, Nudge,
     SpendEmpty, Continue, End, Leave, NextIteration, Fresh
<1>3. conversation' \in Seq(AnyMessage) /\ Said(conversation') = Said(conversation)
  <2>1. conversation \in Seq(AnyMessage)
    BY DEF Shape
  <2>2. CASE Inject
    <3>1. /\ conversation \o <<Assistant>> \in Seq(AnyMessage)
          /\ Said(conversation \o <<Assistant>>) = Said(conversation)
      BY <2>1, NoteShape, Silent, SaidSilent
    <3>2. /\ (conversation \o <<Assistant>>) \o <<Note>> \in Seq(AnyMessage)
          /\ Said((conversation \o <<Assistant>>) \o <<Note>>) = Said(conversation)
      BY <3>1, NoteShape, Silent, SaidSilent
    <3>3. \A a, n \in AnyMessage : conversation \o <<a, n>> = (conversation \o <<a>>) \o <<n>>
      BY <2>1, ConcatTwo
    <3>4. conversation' = (conversation \o <<Assistant>>) \o <<Note>>
      BY <2>2, <3>3, NoteShape DEF Inject
    <3>5. QED
      BY <3>2, <3>4
  <2>3. CASE UNCHANGED conversation
    BY <2>1, <2>3
  <2>4. QED
    BY <2>2, <2>3 DEF Decide, ContinueIntent, ContinueBlock, ContinueCut, SpendGrace, Nudge,
       SpendEmpty, Continue, End
<1>4. Texts(pending) = <<>> /\ Said(conversation) \o <<>> = Said(conversation)
  <2>1. Texts(<<>>) = <<>>
    BY DEF Texts
  <2>2. Said(conversation) \in Seq(Nat)
    BY FlowShape DEF Shape
  <2>3. QED
    BY <1>2, <2>1, <2>2
<1>5. QED
  BY <1>1, <1>2, <1>3, <1>4, DeliveredKeepsOrder

LEMMA MonitorKeepsOrder ==
    ASSUME Shape, Shape', Ordered, Monitor
    PROVE  Ordered'
<1> DEFINE all == Flow(conversation, deferred, pending)
<1>1. UNCHANGED <<pc, conversation, deferred, told, retries>>
  BY DEF Monitor, locals, budgets
<1>2. CASE UNCHANGED <<sent, pending>>
  BY <1>1, <1>2, FlowKept DEF Ordered
<1>3. CASE /\ sent' = sent + 1
           /\ \E stop \in BOOLEAN : pending' = Append(pending, [stop |-> stop, n |-> sent'])
  <2>1. PICK stop \in BOOLEAN : pending' = Append(pending, [stop |-> stop, n |-> sent'])
    BY <1>3
  <2> DEFINE x == [stop |-> stop, n |-> sent']
  <2>2. /\ sent \in Nat /\ pending \in Seq(AnyText) /\ told \in Nat /\ told + Len(all) <= sent
        /\ x \in AnyText /\ x.n = sent + 1
    BY <1>3 DEF Shape, Ordered, AnyText
  <2> HIDE DEF x
  <2>3. Texts(Append(pending, x)) = Append(Texts(pending), sent + 1)
    <3> DEFINE y == Append(pending, x)
    <3>1. /\ y \in Seq(AnyText) /\ Len(y) = Len(pending) + 1 /\ y[Len(pending) + 1] = x
          /\ \A i \in 1 .. Len(pending) : y[i] = pending[i]
          /\ Len(pending) \in Nat
      BY <2>2, AppendFacts
    <3> HIDE DEF y
    <3>2. /\ Texts(y) \in Seq(Nat) /\ Len(Texts(y)) = Len(y)
          /\ Texts(pending) \in Seq(Nat) /\ Len(Texts(pending)) = Len(pending)
      BY <2>2, <3>1, TextsShape
    <3>3. \A i \in 1 .. Len(y) : Texts(y)[i] = y[i].n
      BY DEF Texts
    <3>4. \A i \in 1 .. Len(pending) : Texts(pending)[i] = pending[i].n
      BY DEF Texts
    <3>5. \A i \in 1 .. Len(pending) : Texts(y)[i] = Texts(pending)[i]
      BY <3>1, <3>3, <3>4
    <3>6. Texts(y)[Len(pending) + 1] = sent + 1
      BY <2>2, <3>1, <3>3
    <3>7. Texts(y) = Append(Texts(pending), sent + 1)
      BY <3>1, <3>2, <3>5, <3>6
    <3>8. QED
      BY <3>7 DEF y
  <2>4. Flow(conversation', deferred', pending') = Append(all, sent + 1) /\ all \in Seq(Nat)
    <3>1. /\ Said(conversation) \in Seq(Nat) /\ deferred \in Seq(Nat) /\ Texts(pending) \in Seq(Nat)
          /\ all \in Seq(Nat)
      BY FlowShape DEF Shape
    <3>2. \A a, b, d \in Seq(Nat), k \in Nat : (a \o b) \o Append(d, k) = Append((a \o b) \o d, k)
      OBVIOUS
    <3>3. pending' = Append(pending, x)
      BY <2>1 DEF x
    <3>4. sent + 1 \in Nat
      BY <2>2
    <3>5. (Said(conversation) \o deferred) \o Append(Texts(pending), sent + 1)
            = Append((Said(conversation) \o deferred) \o Texts(pending), sent + 1)
      BY <3>1, <3>2, <3>4
    <3>6. Flow(conversation', deferred', pending')
            = (Said(conversation) \o deferred) \o Append(Texts(pending), sent + 1)
      BY <1>1, <2>3, <3>3 DEF Flow
    <3>7. QED
      BY <3>1, <3>5, <3>6 DEF Flow
  <2>5. Len(Append(all, sent + 1)) = Len(all) + 1 /\ Len(all) \in Nat
    BY <2>2, <2>4
  <2> HIDE DEF all
  <2>6. ASSUME Sorted(told, sent, all) PROVE Sorted(told, sent + 1, Append(all, sent + 1))
    <3>1. told <= sent
      BY <2>2, <2>5
    <3>2. Len(all) = sent - told /\ \A i \in 1 .. sent - told : all[i] = told + i
      BY <2>2, <2>6, <3>1, SortedIs
    <3>3. \A i \in 1 .. Len(Append(all, sent + 1)) : Append(all, sent + 1)[i] = told + i
      <4>1. /\ \A i \in 1 .. Len(all) : Append(all, sent + 1)[i] = all[i]
            /\ Append(all, sent + 1)[Len(all) + 1] = sent + 1
        BY <2>2, <2>4
      <4>2. told + (Len(all) + 1) = sent + 1
        BY <2>2, <2>5, <3>2
      <4>3. QED
        BY <2>5, <3>2, <4>1, <4>2
    <3>4. Append(all, sent + 1) \in Seq(Nat) /\ Len(Append(all, sent + 1)) = (sent + 1) - told /\ sent + 1 \in Nat
      BY <2>2, <2>4, <2>5, <3>2
    <3>5. QED
      BY <2>2, <3>3, <3>4, SortedWhen
  <2>7. told' \in Nat /\ retries' \in Nat /\ told' + Len(Append(all, sent + 1)) <= sent'
    BY <1>1, <1>3, <2>2, <2>5 DEF Ordered
  <2>8. (pc' # "ended" /\ retries' = 0) => Sorted(told', sent', Append(all, sent + 1))
    BY <1>1, <1>3, <2>6 DEF Ordered, all
  <2>9. pc' \in {"start", "tools", "last", "wait", "ended"} => deferred' = <<>>
    BY <1>1 DEF Ordered
  <2>10. QED
    BY <2>4, <2>7, <2>8, <2>9 DEF Ordered
<1>4. QED
  BY <1>2, <1>3 DEF Monitor

LEMMA OrderedNext ==
    ASSUME GuardInv, Ordered, [Next]_vars
    PROVE  Ordered'
<1>1. Shape /\ Shape'
  BY GuardInvNext DEF GuardInv
<1>2. CASE Exhausted \/ CancelledAtTop \/ MidStream \/ Fail \/ Close \/ Retry
  <2>1. /\ UNCHANGED <<sent, told, conversation, pending>> /\ deferred' = <<>>
        /\ retries' \in Nat /\ (pc' = "ended" \/ retries' # 0)
    <3>1. CASE Retry
      <4>1. retries' = retries + 1 /\ retries \in Nat
        BY <3>1 DEF Retry, Ordered
      <4>2. QED
        BY <3>1, <4>1 DEF Retry, NextIteration, Fresh, feedback
    <3>2. CASE Exhausted \/ CancelledAtTop \/ MidStream \/ Fail \/ Close
      BY <3>2 DEF Exhausted, CancelledAtTop, MidStream, Fail, Close, Leave, Fresh, feedback,
         budgets, Ordered
    <3>3. QED
      BY <1>2, <3>1, <3>2
  <2>2. QED
    BY <1>1, <2>1, FlowLost
<1>3. CASE Ended \/ UNCHANGED vars
  <2>1. UNCHANGED <<sent, told, retries, pc, conversation, deferred, pending>>
    BY <1>3 DEF Ended, vars, feedback, locals, budgets
  <2>2. QED
    BY <2>1, FlowKept DEF Ordered
<1>4. QED
  BY <1>1, <1>2, <1>3, RequestKeepsOrder, StreamKeepsOrder, ToolKeepsOrder, FeedbackKeepsOrder,
     DecideKeepsOrder, MonitorKeepsOrder DEF Next, Loop

(* While no iteration has failed, the ten places that drain the feedback     *)
(* lose, repeat and swap none of it, whatever tools, retries and notes come  *)
(* in between.                                                               *)
THEOREM FeedbackInOrderAlways == Spec => []FeedbackInOrder
<1>1. Ordered => FeedbackInOrder
  BY DEF Ordered, FeedbackInOrder, Flow, Sorted
<1>2. GuardInv /\ Ordered /\ [Next]_vars => (GuardInv /\ Ordered)'
  BY GuardInvNext, OrderedNext
<1>3. QED
  BY <1>1, <1>2, GuardInvInit, OrderedInit, PTL DEF Spec

-----------------------------------------------------------------------------
(* The calls and the results of one reply: each call has one result at most, *)
(* and a call made up by the loop has its own at once.                       *)
Distinct(s) == \A i, j \in 1 .. Len(s) : s[i] = s[j] => i = j

Paired ==
    /\ Ids(results) \subseteq Ids(calls) /\ Distinct(results)
    /\ \A id \in Ids(calls) : id.fake => id \in Ids(results)
    /\ \A i \in 1 .. Len(results) : results[i].fake => results[i].n = i - 1
    /\ running \subseteq Ids(calls) \ Ids(results)
    /\ (running # {}) <=> pc \in {"before", "running"}
    /\ Len(calls) <= MaxTools

LEMMA IdsFacts ==
    ASSUME NEW W, NEW s \in Seq(W)
    PROVE  /\ Ids(s) \subseteq W /\ Ids(<<>>) = {}
           /\ \A i \in 1 .. Len(s) : s[i] \in Ids(s)
           /\ \A x \in Ids(s) : \E i \in 1 .. Len(s) : s[i] = x
           /\ \A x \in W : Ids(Append(s, x)) = Ids(s) \union {x}
<1>1. Ids(s) = {s[i] : i \in 1 .. Len(s)}
  BY DEF Ids, ToSet
<1>2. Ids(<<>>) = {}
  BY DEF Ids, ToSet
<1>3. ASSUME NEW x \in W PROVE Ids(Append(s, x)) = Ids(s) \union {x}
  <2> DEFINE t == Append(s, x)
  <2>1. /\ t \in Seq(W) /\ Len(t) = Len(s) + 1 /\ t[Len(s) + 1] = x /\ Len(s) \in Nat
        /\ \A i \in 1 .. Len(s) : t[i] = s[i]
    BY AppendFacts
  <2> HIDE DEF t
  <2>2. Ids(t) = {t[i] : i \in 1 .. Len(t)}
    BY <2>1 DEF Ids, ToSet
  <2>3. ASSUME NEW y \in Ids(t) PROVE y \in Ids(s) \union {x}
    <3>1. PICK i \in 1 .. Len(t) : y = t[i]
      BY <2>2
    <3>2. CASE i = Len(s) + 1
      BY <2>1, <3>1, <3>2
    <3>3. CASE i # Len(s) + 1
      BY <1>1, <2>1, <3>1, <3>3
    <3>4. QED
      BY <3>2, <3>3
  <2>4. ASSUME NEW y \in Ids(s) PROVE y \in Ids(t)
    <3>1. PICK i \in 1 .. Len(s) : y = s[i]
      BY <1>1
    <3>2. i \in 1 .. Len(t) /\ t[i] = y
      BY <2>1, <3>1
    <3>3. QED
      BY <2>2, <3>2
  <2>5. x \in Ids(t)
    <3>1. Len(s) + 1 \in 1 .. Len(t)
      BY <2>1
    <3>2. QED
      BY <2>1, <2>2, <3>1
  <2>6. Ids(t) = Ids(s) \union {x}
    BY <2>3, <2>4, <2>5
  <2>7. QED
    BY <2>6 DEF t
<1>4. QED
  BY <1>1, <1>2, <1>3

LEMMA IdsCount ==
    ASSUME NEW W, NEW s \in Seq(W)
    PROVE  /\ IsFiniteSet(Ids(s)) /\ Cardinality(Ids(s)) <= Len(s)
           /\ Distinct(s) => Cardinality(Ids(s)) = Len(s)
<1>1. s \in Surjection(1 .. Len(s), Ids(s))
  BY IdsFacts DEF Surjection
<1>2. IsFiniteSet(1 .. Len(s)) /\ Cardinality(1 .. Len(s)) = Len(s)
  <2>1. Len(s) \in Nat
    OBVIOUS
  <2>2. QED
    BY <2>1, FS_Interval
<1>3. /\ IsFiniteSet(Ids(s)) /\ Cardinality(Ids(s)) <= Len(s)
      /\ Cardinality(Ids(s)) = Len(s) <=> s \in Injection(1 .. Len(s), Ids(s))
  BY <1>1, <1>2, FS_Surjection
<1>4. ASSUME Distinct(s) PROVE s \in Injection(1 .. Len(s), Ids(s))
  <2>1. DOMAIN s = 1 .. Len(s) /\ s \in [1 .. Len(s) -> Ids(s)]
    BY <1>1 DEF Surjection
  <2>2. QED
    BY <1>4, <2>1 DEF Injection, IsInjective, Distinct
<1>5. QED
  BY <1>3, <1>4

LEMMA ResultsFit ==
    ASSUME Shape, Paired
    PROVE  /\ Cardinality(Ids(results)) = Len(results)
           /\ Len(results) <= Len(calls) /\ Len(calls) \in Nat /\ Len(results) \in Nat
<1>1. calls \in Seq(AnyId) /\ results \in Seq(AnyId)
  BY DEF Shape
<1>2. IsFiniteSet(Ids(calls)) /\ Cardinality(Ids(calls)) <= Len(calls) /\ Cardinality(Ids(calls)) \in Nat
  BY <1>1, IdsCount, FS_CardinalityType
<1>3. Cardinality(Ids(results)) = Len(results)
  BY <1>1, IdsCount DEF Paired
<1>4. Cardinality(Ids(results)) <= Cardinality(Ids(calls))
  BY <1>2, FS_Subset DEF Paired
<1>5. Len(calls) \in Nat /\ Len(results) \in Nat
  BY <1>1
<1>6. QED
  BY <1>2, <1>3, <1>4, <1>5

LEMMA FreshPairs ==
    ASSUME Fresh, pc' \notin {"before", "running"}
    PROVE  Paired'
<1>1. calls' = <<>> /\ results' = <<>> /\ running' = {}
  BY DEF Fresh
<1>2. Ids(calls') = {} /\ Ids(results') = {} /\ Len(calls') = 0 /\ Len(results') = 0
  BY <1>1 DEF Ids, ToSet
<1>3. Distinct(results')
  BY <1>2 DEF Distinct
<1>4. QED
  BY <1>1, <1>2, <1>3, LimitsAssumption DEF Paired

LEMMA KeptPairs ==
    ASSUME Paired, UNCHANGED <<calls, results, running>>,
           pc' \in {"before", "running"} <=> pc \in {"before", "running"}
    PROVE  Paired'
  BY DEF Paired

\* The result of a call that has none, which is not one the loop made up.
LEMMA ResultPairs ==
    ASSUME Shape, Paired, NEW id \in Ids(calls), id \notin Ids(results), UNCHANGED calls,
           results' = Append(results, id), running' = {}, pc' \notin {"before", "running"}
    PROVE  Paired'
<1>1. calls \in Seq(AnyId) /\ results \in Seq(AnyId) /\ id \in AnyId /\ ~id.fake
  <2>1. calls \in Seq(AnyId) /\ results \in Seq(AnyId)
    BY DEF Shape
  <2>2. QED
    BY <2>1, IdsFacts DEF Paired
<1>2. Ids(results') = Ids(results) \union {id}
  BY <1>1, IdsFacts
<1>3. /\ Len(results') = Len(results) + 1 /\ results'[Len(results) + 1] = id /\ Len(results) \in Nat
      /\ \A i \in 1 .. Len(results) : results'[i] = results[i]
  BY <1>1, AppendFacts
<1>4. \A i \in 1 .. Len(results) : results[i] # id
  BY <1>1, IdsFacts
<1>5. Distinct(results')
  BY <1>3, <1>4 DEF Paired, Distinct
<1>6. \A i \in 1 .. Len(results') : results'[i].fake => results'[i].n = i - 1
  BY <1>1, <1>3 DEF Paired
<1>7. QED
  BY <1>2, <1>5, <1>6 DEF Paired

LEMMA StreamPairs ==
    ASSUME Shape, Paired, Stream
    PROVE  Paired'
<1>0. calls \in Seq(AnyId) /\ results \in Seq(AnyId) /\ running = {} /\ pc = "stream"
  BY DEF Shape, Paired, Stream, Text, ToolUseStart, FakeTool, ToolUseEnd, StreamEnds
<1>1. CASE Text
  BY <1>1, KeptPairs DEF Text
<1>2. CASE ToolUseStart
  <2> DEFINE id == [fake |-> FALSE, n |-> Len(calls)]
  <2>1. id \in AnyId /\ ~id.fake
    BY <1>0 DEF AnyId
  <2>2. /\ calls' = Append(calls, id) /\ UNCHANGED <<results, running, pc>> /\ Len(calls) < MaxTools
    BY <1>2 DEF ToolUseStart
  <2> HIDE DEF id
  <2>3. Ids(calls') = Ids(calls) \union {id}
    BY <1>0, <2>1, <2>2, IdsFacts
  <2>4. Len(calls') <= MaxTools
    BY <1>0, <2>1, <2>2, LimitsAssumption
  <2>5. QED
    BY <2>1, <2>2, <2>3, <2>4 DEF Paired
<1>3. CASE FakeTool
  <2> DEFINE id == [fake |-> TRUE, n |-> Len(results)]
  <2>1. id \in AnyId /\ id.fake /\ id.n = Len(results)
    BY <1>0 DEF AnyId
  <2>2. /\ calls' = Append(calls, id) /\ results' = Append(results, id)
        /\ UNCHANGED <<running, pc>> /\ Len(calls) < MaxTools
    BY <1>3 DEF FakeTool, Result
  <2> HIDE DEF id
  <2>3. Ids(calls') = Ids(calls) \union {id} /\ Ids(results') = Ids(results) \union {id}
    BY <1>0, <2>1, <2>2, IdsFacts
  <2>4. Len(calls') <= MaxTools
    BY <1>0, <2>1, <2>2, LimitsAssumption
  <2>5. /\ Len(results') = Len(results) + 1 /\ results'[Len(results) + 1] = id /\ Len(results) \in Nat
        /\ \A i \in 1 .. Len(results) : results'[i] = results[i]
    BY <1>0, <2>1, <2>2, AppendFacts
  <2>6. \A i \in 1 .. Len(results) : results[i] # id
    BY <2>1, <2>5 DEF Paired
  <2>7. Distinct(results')
    BY <2>5, <2>6 DEF Paired, Distinct
  <2>8. \A i \in 1 .. Len(results') : results'[i].fake => results'[i].n = i - 1
    BY <2>1, <2>5 DEF Paired
  <2>9. running' \subseteq Ids(calls') \ Ids(results') /\ ((running' # {}) <=> pc' \in {"before", "running"})
    BY <1>0, <2>2
  <2>10. QED
    BY <2>3, <2>4, <2>7, <2>8, <2>9 DEF Paired
<1>4. ASSUME NEW id \in Ids(calls), ToolUseEnd(id) PROVE Paired'
  <2>1. id \notin Ids(results) /\ UNCHANGED calls
    BY <1>4 DEF ToolUseEnd
  <2>2. CASE results' = Append(results, id) /\ UNCHANGED <<pc, running>>
    BY <1>0, <2>1, <2>2, ResultPairs
  <2>3. CASE pc' = "before" /\ running' = {id} /\ UNCHANGED results
    BY <2>1, <2>3 DEF Paired
  <2>4. QED
    BY <1>4, <2>2, <2>3 DEF ToolUseEnd, Result
<1>5. CASE StreamEnds
  <2>1. CASE Fresh /\ pc' \in {"start", "ended"}
    BY <2>1, FreshPairs
  <2>2. CASE UNCHANGED <<calls, results, running>> /\ pc' \in {"tools", "last"}
    BY <1>0, <2>2, KeptPairs
  <2>3. QED
    BY <1>5, <2>1, <2>2 DEF StreamEnds, NextIteration, Leave
<1>6. QED
  BY <1>1, <1>2, <1>3, <1>4, <1>5 DEF Stream

LEMMA ToolPairs ==
    ASSUME Shape, Paired, Tool
    PROVE  Paired'
<1>1. CASE Leave
  BY <1>1, FreshPairs DEF Leave
<1>2. ASSUME NEW id \in running, results' = Append(results, id), running' = {}, UNCHANGED calls,
             pc' \in {"stream", "after"}
      PROVE  Paired'
  BY <1>2, ResultPairs DEF Paired
<1>3. CASE BeforeTool /\ ~Leave
  <2>1. CASE pc = "before" /\ pc' = "running" /\ UNCHANGED locals
    BY <2>1, KeptPairs DEF locals
  <2>2. CASE \E id \in running : Returned(deferred \o Texts(pending), Append(results, id))
    BY <1>2, <1>3, <2>2 DEF Returned
  <2>3. QED
    BY <1>3, <2>1, <2>2 DEF BeforeTool
<1>4. CASE ToolEnds /\ ~Leave
  BY <1>2, <1>4 DEF ToolEnds, Returned, Result
<1>5. CASE AfterTool /\ ~Leave
  <2>1. pc = "after" /\ pc' = "stream" /\ running' = {} /\ UNCHANGED <<calls, results>>
    BY <1>5 DEF AfterTool, Returned
  <2>2. running = {}
    BY <2>1 DEF Paired
  <2>3. QED
    BY <2>1, <2>2, KeptPairs
<1>6. QED
  BY <1>1, <1>3, <1>4, <1>5 DEF Tool

LEMMA PairedInit == Init => Paired
<1> SUFFICES ASSUME Init PROVE Paired
  OBVIOUS
<1>1. calls = <<>> /\ results = <<>> /\ running = {} /\ pc = "start"
  BY DEF Init
<1>2. Ids(calls) = {} /\ Ids(results) = {} /\ Len(calls) = 0 /\ Len(results) = 0
  BY <1>1 DEF Ids, ToSet
<1>3. Distinct(results)
  BY <1>2 DEF Distinct
<1>4. QED
  BY <1>1, <1>2, <1>3, LimitsAssumption DEF Paired

LEMMA PairedNext ==
    ASSUME Shape, Paired, [Next]_vars
    PROVE  Paired'
<1>1. CASE Exhausted \/ CancelledAtTop \/ MidStream \/ Retry \/ Fail \/ Close
  <2>1. Fresh /\ pc' \in {"start", "ended"}
    BY <1>1 DEF Exhausted, CancelledAtTop, MidStream, Retry, Fail, Close, Leave, NextIteration
  <2>2. QED
    BY <2>1, FreshPairs
<1>2. CASE Request
  <2>1. CASE Leave
    BY <2>1, FreshPairs DEF Leave
  <2>2. CASE ~Leave
    <3>1. pc = "start" /\ pc' = "stream" /\ UNCHANGED locals
      BY <1>2, <2>2 DEF Request
    <3>2. QED
      BY <3>1, KeptPairs DEF locals
  <2>3. QED
    BY <2>1, <2>2
<1>3. CASE AfterTools \/ LastCall \/ SecondCall
  <2>1. CASE Fresh /\ pc' \in {"start", "ended"}
    BY <2>1, FreshPairs
  <2>2. CASE pc = "last" /\ pc' = "wait" /\ UNCHANGED locals
    BY <2>2, KeptPairs DEF locals
  <2>3. QED
    BY <1>3, <2>1, <2>2 DEF AfterTools, LastCall, SecondCall, Deliver, Leave, NextIteration
<1>4. CASE Decide
  <2>1. Fresh /\ pc' \in {"start", "ended"}
    BY <1>4 DEF Decide, ContinueIntent, ContinueBlock, ContinueCut, SpendGrace, Nudge, SpendEmpty,
       Continue, End, Leave, NextIteration
  <2>2. QED
    BY <2>1, FreshPairs
<1>5. CASE Monitor \/ Ended \/ UNCHANGED vars
  <2>1. UNCHANGED <<calls, results, running, pc>>
    BY <1>5 DEF Monitor, Ended, vars, locals
  <2>2. QED
    BY <2>1, KeptPairs
<1>6. QED
  BY <1>1, <1>2, <1>3, <1>4, <1>5, StreamPairs, ToolPairs DEF Next, Loop

-----------------------------------------------------------------------------
(* Tool calls and their results are neighbours, in any stretch of the        *)
(* conversation that ends between two turns.                                 *)
Closed(c) ==
    \A i \in 1 .. Len(c) : c[i].ids # <<>> =>
      IF c[i].role = "assistant"
      THEN /\ i < Len(c) /\ c[i + 1].role = "tool" /\ c[i + 1].ids = c[i].ids
           /\ Cardinality(Ids(c[i].ids)) = Len(c[i].ids)
      ELSE i > 1 /\ c[i - 1].ids = c[i].ids

LEMMA ClosedJoin ==
    ASSUME NEW c \in Seq(AnyMessage), NEW d \in Seq(AnyMessage), Closed(c), Closed(d)
    PROVE  c \o d \in Seq(AnyMessage) /\ Closed(c \o d)
<1> DEFINE e == c \o d
<1>1. /\ e \in Seq(AnyMessage) /\ Len(e) = Len(c) + Len(d) /\ Len(c) \in Nat /\ Len(d) \in Nat
      /\ \A i \in 1 .. Len(c) : e[i] = c[i]
      /\ \A i \in 1 .. Len(d) : e[Len(c) + i] = d[i]
  OBVIOUS
<1> HIDE DEF e
<1>2. ASSUME NEW i \in 1 .. Len(e), e[i].ids # <<>>
      PROVE  IF e[i].role = "assistant"
             THEN /\ i < Len(e) /\ e[i + 1].role = "tool" /\ e[i + 1].ids = e[i].ids
                  /\ Cardinality(Ids(e[i].ids)) = Len(e[i].ids)
             ELSE i > 1 /\ e[i - 1].ids = e[i].ids
  <2>1. CASE i <= Len(c)
    <3>1. i \in 1 .. Len(c) /\ e[i] = c[i]
      BY <1>1, <2>1
    <3>2. IF c[i].role = "assistant"
          THEN /\ i < Len(c) /\ c[i + 1].role = "tool" /\ c[i + 1].ids = c[i].ids
               /\ Cardinality(Ids(c[i].ids)) = Len(c[i].ids)
          ELSE i > 1 /\ c[i - 1].ids = c[i].ids
      BY <1>2, <3>1 DEF Closed
    <3>3. CASE c[i].role = "assistant"
      <4>1. i + 1 \in 1 .. Len(c) /\ e[i + 1] = c[i + 1] /\ i < Len(e)
        BY <1>1, <3>1, <3>2, <3>3
      <4>2. QED
        BY <3>1, <3>2, <3>3, <4>1
    <3>4. CASE c[i].role # "assistant"
      <4>1. i - 1 \in 1 .. Len(c) /\ e[i - 1] = c[i - 1]
        BY <1>1, <3>1, <3>2, <3>4
      <4>2. QED
        BY <3>1, <3>2, <3>4, <4>1
    <3>5. QED
      BY <3>3, <3>4
  <2>2. CASE i > Len(c)
    <3> DEFINE k == i - Len(c)
    <3>1. k \in 1 .. Len(d) /\ i = Len(c) + k
      BY <1>1, <2>2
    <3> HIDE DEF k
    <3>2. e[i] = d[k]
      BY <1>1, <3>1
    <3>3. IF d[k].role = "assistant"
          THEN /\ k < Len(d) /\ d[k + 1].role = "tool" /\ d[k + 1].ids = d[k].ids
               /\ Cardinality(Ids(d[k].ids)) = Len(d[k].ids)
          ELSE k > 1 /\ d[k - 1].ids = d[k].ids
      BY <1>2, <3>1, <3>2 DEF Closed
    <3>4. CASE d[k].role = "assistant"
      <4>1. k + 1 \in 1 .. Len(d) /\ i + 1 = Len(c) + (k + 1) /\ i < Len(e)
        BY <1>1, <3>1, <3>3, <3>4
      <4>2. e[i + 1] = d[k + 1]
        BY <1>1, <4>1
      <4>3. QED
        BY <3>2, <3>3, <3>4, <4>1, <4>2
    <3>5. CASE d[k].role # "assistant"
      <4>0. k > 1
        BY <3>3, <3>5
      <4>1. k - 1 \in 1 .. Len(d) /\ i - 1 = Len(c) + (k - 1) /\ i > 1
        BY <1>1, <3>1, <4>0
      <4>2. e[i - 1] = d[k - 1]
        BY <1>1, <4>1
      <4>3. QED
        BY <3>2, <3>3, <3>5, <4>1, <4>2
    <3>6. QED
      BY <3>4, <3>5
  <2>3. QED
    BY <1>1, <2>1, <2>2
<1>3. Closed(e)
  BY <1>2 DEF Closed
<1>4. QED
  BY <1>1, <1>3 DEF e

LEMMA ClosedSilent ==
    ASSUME NEW c \in Seq(AnyMessage), \A i \in 1 .. Len(c) : c[i].ids = <<>>
    PROVE  Closed(c)
  BY DEF Closed

LEMMA ClosedOne ==
    ASSUME NEW m \in AnyMessage, m.ids = <<>>
    PROVE  <<m>> \in Seq(AnyMessage) /\ Closed(<<m>>)
<1>1. <<m>> \in Seq(AnyMessage) /\ Len(<<m>>) = 1 /\ <<m>>[1] = m
  OBVIOUS
<1>2. \A i \in 1 .. Len(<<m>>) : <<m>>[i].ids = <<>>
  BY <1>1
<1>3. QED
  BY <1>1, <1>2, ClosedSilent

LEMMA ClosedIf ==
    ASSUME NEW m \in AnyMessage, m.ids = <<>>, NEW b
    PROVE  If(b, <<m>>) \in Seq(AnyMessage) /\ Closed(If(b, <<m>>))
<1>1. Closed(<<>>) /\ <<>> \in Seq(AnyMessage)
  BY DEF Closed
<1>2. QED
  BY <1>1, ClosedOne DEF If

LEMMA WithoutIds ==
    /\ Note.ids = <<>> /\ Assistant.ids = <<>>
    /\ \A s : Says(s).ids = <<>>
  BY DEF Note, Assistant, Says

LEMMA ClosedEach ==
    ASSUME NEW s \in Seq(Nat)
    PROVE  Each(s) \in Seq(AnyMessage) /\ Closed(Each(s))
<1>1. Each(s) \in Seq(AnyMessage) /\ Len(Each(s)) = Len(s)
  BY EachShape
<1>2. \A i \in 1 .. Len(s) : Each(s)[i] = Says(<<s[i]>>)
  BY DEF Each
<1>3. \A i \in 1 .. Len(Each(s)) : Each(s)[i].ids = <<>>
  BY <1>1, <1>2, WithoutIds
<1>4. QED
  BY <1>1, <1>3, ClosedSilent

LEMMA JoinTwo ==
    ASSUME NEW W, NEW a \in W, NEW b \in W
    PROVE  <<a>> \o <<b>> = <<a, b>>
<1> DEFINE l == <<a>> \o <<b>>
           r == <<a, b>>
<1>1. <<a>> \in Seq(W) /\ Len(<<a>>) = 1 /\ <<a>>[1] = a
  OBVIOUS
<1>2. <<b>> \in Seq(W) /\ Len(<<b>>) = 1 /\ <<b>>[1] = b
  OBVIOUS
<1>3. l \in Seq(W) /\ Len(l) = 2 /\ l[1] = a /\ l[2] = b
  BY <1>1, <1>2
<1>4. r \in Seq(W) /\ Len(r) = 2 /\ r[1] = a /\ r[2] = b
  OBVIOUS
<1> HIDE DEF l, r
<1>5. \A i \in 1 .. 2 : l[i] = r[i]
  <2>1. ASSUME NEW i \in 1 .. 2 PROVE i = 1 \/ i = 2
    OBVIOUS
  <2>2. QED
    BY <1>3, <1>4, <2>1
<1>6. l = r
  BY <1>3, <1>4, <1>5
<1>7. QED
  BY <1>6 DEF l, r

LEMMA ClosedBuilt ==
    ASSUME results \in Seq(AnyId), Cardinality(Ids(results)) = Len(results)
    PROVE  Built \in Seq(AnyMessage) /\ Closed(Built)
<1> DEFINE A == [Assistant EXCEPT !.ids = results]
           R == [role |-> "tool", ids |-> results, says |-> <<>>]
<1>1. A = [role |-> "assistant", ids |-> results, says |-> <<>>]
  BY DEF Assistant
<1>2. /\ A.role = "assistant" /\ A.ids = results /\ R.role = "tool" /\ R.ids = results
      /\ A \in AnyMessage /\ R \in AnyMessage
  <2>1. <<>> \in Seq(Nat)
    OBVIOUS
  <2>2. QED
    BY <1>1, <2>1, MessageShape
<1>3. Built \in Seq(AnyMessage)
  BY BuiltShape
<1>4. Built = If(said \/ results # <<>>, <<A>>) \o If(results # <<>>, <<R>>)
  BY DEF Built
<1> HIDE DEF A, R
<1>5. CASE results # <<>>
  <2>1. <<A>> \o <<R>> = <<A, R>>
    BY <1>2, JoinTwo
  <2>2. Built = <<A, R>>
    BY <1>4, <1>5, <2>1 DEF If
  <2>3. Len(<<A, R>>) = 2 /\ <<A, R>>[1] = A /\ <<A, R>>[2] = R
    OBVIOUS
  <2>4. ASSUME NEW i \in 1 .. 2 PROVE i = 1 \/ i = 2
    OBVIOUS
  <2>5. Closed(<<A, R>>)
    <3> DEFINE b == <<A, R>>
    <3> HIDE DEF b
    <3>1. Len(b) = 2 /\ b[1] = A /\ b[2] = R
      BY <2>3 DEF b
    <3>2. Closed(b)
      BY <1>2, <2>4, <3>1 DEF Closed
    <3>3. QED
      BY <3>2 DEF b
  <2>6. QED
    BY <1>3, <2>2, <2>5
<1>6. CASE results = <<>>
  <2>1. Built = <<>> \/ Built = <<A>>
    BY <1>4, <1>6 DEF If
  <2>2. \A i \in 1 .. Len(Built) : Built[i].ids = <<>>
    BY <1>2, <1>6, <2>1
  <2>3. QED
    BY <1>3, <2>2, ClosedSilent
<1>7. QED
  BY <1>5, <1>6

LEMMA ClosedRequest ==
    ASSUME Shape, Closed(conversation), Request
    PROVE  Closed(conversation')
<1> DEFINE first == iteration = 0
           c     == conversation \o If(~first, Each(Texts(pending)))
<1>1. conversation' = If(c # <<>>, <<[Last(c) EXCEPT !.ids = <<>>, !.says = <<>>]>>)
  BY DEF Request
<1>2. c \in Seq(AnyMessage)
  <2>1. Each(Texts(pending)) \in Seq(AnyMessage) /\ conversation \in Seq(AnyMessage)
    BY TextsShape, EachShape DEF Shape
  <2>2. QED
    BY <2>1 DEF If
<1> HIDE DEF c
<1>3. CASE c = <<>>
  BY <1>1, <1>3 DEF If, Closed
<1>4. CASE c # <<>>
  <2> DEFINE l == [Last(c) EXCEPT !.ids = <<>>, !.says = <<>>]
  <2>1. Last(c) \in AnyMessage
    BY <1>2, <1>4 DEF Last
  <2>2. l \in AnyMessage /\ l.ids = <<>>
    <3>1. <<>> \in Seq(AnyId) /\ <<>> \in Seq(Nat)
      OBVIOUS
    <3>2. QED
      BY <2>1, <3>1 DEF AnyMessage
  <2>3. conversation' = <<l>>
    BY <1>1, <1>4 DEF If
  <2> HIDE DEF l
  <2>4. QED
    BY <2>2, <2>3, ClosedOne
<1>5. QED
  BY <1>3, <1>4

LEMMA ClosedNext ==
    ASSUME Shape, Paired, Closed(conversation), [Next]_vars
    PROVE  Closed(conversation')
<1>0. /\ conversation \in Seq(AnyMessage) /\ results \in Seq(AnyId) /\ Texts(pending) \in Seq(Nat)
      /\ deferred \in Seq(Nat)
  BY TextsShape DEF Shape
<1>1. CASE StreamEnds
  <2> DEFINE built == conversation \o Built \o Each(deferred)
  <2>1. conversation \o Built \in Seq(AnyMessage) /\ Closed(conversation \o Built)
    BY <1>0, ResultsFit, ClosedBuilt, ClosedJoin
  <2>2. built \in Seq(AnyMessage) /\ Closed(built)
    BY <1>0, <2>1, ClosedEach, ClosedJoin
  <2>3. conversation' = built \/ conversation' = Append(built, Note)
    BY <1>1 DEF StreamEnds
  <2> HIDE DEF built
  <2>4. Append(built, Note) = built \o <<Note>>
    BY <2>2, NoteShape
  <2>5. Closed(built \o <<Note>>)
    BY <2>2, NoteShape, WithoutIds, ClosedOne, ClosedJoin
  <2>6. QED
    BY <2>2, <2>3, <2>4, <2>5
<1>2. CASE AfterTools
  <2>1. PICK copy \in {FALSE, said} :
          conversation' = conversation \o If(empties = MaxEmpties, <<Note>>)
                          \o If(copy /\ pending # <<>>, <<Assistant>>) \o Each(Texts(pending))
    BY <1>2 DEF AfterTools
  <2> DEFINE a == conversation \o If(empties = MaxEmpties, <<Note>>)
             b == a \o If(copy /\ pending # <<>>, <<Assistant>>)
  <2>2. a \in Seq(AnyMessage) /\ Closed(a)
    BY <1>0, NoteShape, WithoutIds, ClosedIf, ClosedJoin
  <2>3. b \in Seq(AnyMessage) /\ Closed(b)
    BY <2>2, NoteShape, WithoutIds, ClosedIf, ClosedJoin
  <2>4. conversation' = b \o Each(Texts(pending))
    BY <2>1
  <2> HIDE DEF a, b
  <2>5. QED
    BY <1>0, <2>3, <2>4, ClosedEach, ClosedJoin
<1>3. CASE Deliver
  <2> DEFINE a == conversation \o If(said, <<Assistant>>)
             m == Says(Texts(pending))
  <2>1. a \in Seq(AnyMessage) /\ Closed(a)
    BY <1>0, NoteShape, WithoutIds, ClosedIf, ClosedJoin
  <2>2. m \in AnyMessage /\ m.ids = <<>>
    BY <1>0, SaysShape, WithoutIds
  <2>3. conversation' = a \o <<m>>
    BY <1>3 DEF Deliver
  <2> HIDE DEF a, m
  <2>4. QED
    BY <2>1, <2>2, <2>3, ClosedOne, ClosedJoin
<1>4. CASE Inject
  <2>1. /\ conversation \o <<Assistant>> \in Seq(AnyMessage) /\ Closed(conversation \o <<Assistant>>)
    BY <1>0, NoteShape, WithoutIds, ClosedOne, ClosedJoin
  <2>2. Closed((conversation \o <<Assistant>>) \o <<Note>>)
    BY <2>1, NoteShape, WithoutIds, ClosedOne, ClosedJoin
  <2>3. conversation' = (conversation \o <<Assistant>>) \o <<Note>>
    <3>1. \A a, n \in AnyMessage : conversation \o <<a, n>> = (conversation \o <<a>>) \o <<n>>
      BY <1>0, ConcatTwo
    <3>2. QED
      BY <1>4, <3>1, NoteShape DEF Inject
  <2>4. QED
    BY <2>2, <2>3
<1>5. CASE UNCHANGED conversation
  BY <1>5
<1>6. CASE Request
  BY <1>6, ClosedRequest
<1>7. CASE Exhausted \/ CancelledAtTop \/ MidStream \/ Retry \/ Fail \/ Tool \/ Monitor \/ Close \/ Ended
  BY <1>5, <1>7 DEF Exhausted, CancelledAtTop, MidStream, Retry, Fail, Tool, BeforeTool, ToolEnds,
     AfterTool, Monitor, Close, Ended, vars
<1>8. CASE Stream
  BY <1>1, <1>5, <1>8 DEF Stream, Text, ToolUseStart, FakeTool, ToolUseEnd
<1>9. CASE LastCall \/ SecondCall
  BY <1>3, <1>5, <1>9 DEF LastCall, SecondCall
<1>10. CASE Decide
  BY <1>4, <1>5, <1>10 DEF Decide, ContinueIntent, ContinueBlock, ContinueCut, SpendGrace, Nudge,
     SpendEmpty, Continue, End
<1>11. QED
  BY <1>2, <1>5, <1>6, <1>7, <1>8, <1>9, <1>10 DEF Next, Loop, vars

(* A message with tool calls is followed by one with exactly their results,  *)
(* and results follow nothing else, whatever was skipped, rejected, cut off, *)
(* made up or interrupted by feedback.                                       *)
THEOREM ResultsFollowUsesAlways == Spec => []ResultsFollowUses
<1>1. Closed(conversation) => ResultsFollowUses
  BY DEF Closed, ResultsFollowUses
<1>2. Init => Closed(conversation)
  BY DEF Init, Closed
<1>3. /\ GuardInv /\ Paired /\ Closed(conversation) /\ [Next]_vars
         => (GuardInv /\ Paired /\ Closed(conversation))'
  BY GuardInvNext, PairedNext, ClosedNext DEF GuardInv
<1>4. QED
  BY <1>1, <1>2, <1>3, GuardInvInit, PairedInit, PTL DEF Spec

-----------------------------------------------------------------------------
(* The types: first the data, as GuardInv has it but in the model's sets.    *)
Texted(n) == [stop : BOOLEAN, n : 1 .. n]

Typed ==
    /\ sent \in 0 .. MaxFeedback /\ pending \in Seq(Texted(sent)) /\ deferred \in Seq(1 .. sent)
    /\ calls \in Seq(Id) /\ conversation \in Seq(Message)

LEMMA MessageTyped ==
    ASSUME NEW ids \in Seq(Id), NEW says \in Seq(1 .. MaxFeedback),
           NEW role \in {"user", "assistant", "tool"}
    PROVE  [role |-> role, ids |-> ids, says |-> says] \in Message
  BY DEF Message

LEMMA NoteTyped == Note \in Message /\ Assistant \in Message
<1>1. <<>> \in Seq(Id) /\ <<>> \in Seq(1 .. MaxFeedback)
  OBVIOUS
<1>2. QED
  BY <1>1, MessageTyped DEF Note, Assistant

LEMMA SaysTyped ==
    ASSUME NEW s \in Seq(1 .. MaxFeedback)
    PROVE  Says(s) \in Message
<1>1. Says(s) = [role |-> "user", ids |-> <<>>, says |-> s]
  BY DEF Says, Note
<1>2. <<>> \in Seq(Id)
  OBVIOUS
<1>3. QED
  BY <1>1, <1>2, MessageTyped

LEMMA Singles ==
    ASSUME NEW W, NEW s \in Seq(W)
    PROVE  \A i \in 1 .. Len(s) : s[i] \in W /\ <<s[i]>> \in Seq(W)
  OBVIOUS

LEMMA EachTyped ==
    ASSUME NEW s \in Seq(1 .. MaxFeedback)
    PROVE  Each(s) \in Seq(Message)
<1> DEFINE M(i) == Says(<<s[i]>>)
<1>1. \A i \in 1 .. Len(s) : <<s[i]>> \in Seq(1 .. MaxFeedback)
  BY Singles
<1>2. \A i \in 1 .. Len(s) : M(i) \in Message
  BY <1>1, SaysTyped
<1>3. Each(s) = [i \in 1 .. Len(s) |-> M(i)]
  BY DEF Each
<1> HIDE DEF M
<1>4. QED
  BY <1>2, <1>3

LEMMA JoinTyped ==
    ASSUME NEW W, NEW a \in Seq(W), NEW b \in Seq(W)
    PROVE  a \o b \in Seq(W)
  OBVIOUS

LEMMA IfTyped ==
    ASSUME NEW m \in Message, NEW b
    PROVE  If(b, <<m>>) \in Seq(Message)
  BY DEF If

LEMMA BuiltTyped ==
    ASSUME results \in Seq(Id)
    PROVE  Built \in Seq(Message)
<1> DEFINE A == [Assistant EXCEPT !.ids = results]
           R == [role |-> "tool", ids |-> results, says |-> <<>>]
<1>1. A = [role |-> "assistant", ids |-> results, says |-> <<>>]
  BY DEF Assistant
<1>2. A \in Message /\ R \in Message
  <2>1. <<>> \in Seq(1 .. MaxFeedback)
    OBVIOUS
  <2>2. QED
    BY <1>1, <2>1, MessageTyped
<1>3. Built = If(said \/ results # <<>>, <<A>>) \o If(results # <<>>, <<R>>)
  BY DEF Built
<1> HIDE DEF A, R
<1>4. If(said \/ results # <<>>, <<A>>) \in Seq(Message) /\ If(results # <<>>, <<R>>) \in Seq(Message)
  BY <1>2, IfTyped
<1>5. QED
  BY <1>3, <1>4, JoinTyped

LEMMA TextsTyped ==
    ASSUME NEW n \in Nat, NEW s \in Seq(Texted(n))
    PROVE  Texts(s) \in Seq(1 .. n)
<1> DEFINE t(i) == s[i].n
<1>1. \A i \in 1 .. Len(s) : t(i) \in 1 .. n
  <2>1. ASSUME NEW i \in 1 .. Len(s) PROVE s[i] \in Texted(n)
    OBVIOUS
  <2>2. ASSUME NEW x \in Texted(n) PROVE x.n \in 1 .. n
    BY DEF Texted
  <2>3. QED
    BY <2>1, <2>2
<1>2. Texts(s) = [i \in 1 .. Len(s) |-> t(i)]
  BY DEF Texts
<1> HIDE DEF t
<1>3. QED
  BY <1>1, <1>2

LEMMA WiderSeq ==
    ASSUME NEW S, NEW T, S \subseteq T
    PROVE  Seq(S) \subseteq Seq(T)
  OBVIOUS

LEMMA TextsFit ==
    ASSUME Typed
    PROVE  /\ Texts(pending) \in Seq(1 .. sent) /\ Texts(pending) \in Seq(1 .. MaxFeedback)
           /\ deferred \in Seq(1 .. MaxFeedback) /\ sent \in Nat
<1>1. sent \in Nat /\ 1 .. sent \subseteq 1 .. MaxFeedback
  BY LimitsAssumption DEF Typed
<1>2. Texts(pending) \in Seq(1 .. sent)
  BY <1>1, TextsTyped DEF Typed
<1>3. Seq(1 .. sent) \subseteq Seq(1 .. MaxFeedback)
  BY <1>1, WiderSeq
<1>4. QED
  BY <1>1, <1>2, <1>3 DEF Typed

\* The results are ids of calls.
LEMMA ResultsTyped ==
    ASSUME Shape, Paired, Typed
    PROVE  results \in Seq(Ids(calls)) /\ results \in Seq(Id)
<1>1. results \in Seq(AnyId) /\ calls \in Seq(Id)
  BY DEF Shape, Typed
<1>2. Ids(calls) \subseteq Id
  BY <1>1, IdsFacts
<1>3. \A i \in 1 .. Len(results) : results[i] \in Ids(calls)
  BY <1>1, IdsFacts DEF Paired
<1>4. results \in Seq(Ids(calls))
  BY <1>1, <1>3
<1>5. QED
  BY <1>2, <1>4, WiderSeq

LEMMA ConversationTyped ==
    ASSUME Shape, Paired, Typed, [Next]_vars
    PROVE  conversation' \in Seq(Message)
<1>0. conversation \in Seq(Message)
  BY DEF Typed
<1>1. CASE StreamEnds
  <2> DEFINE built == conversation \o Built \o Each(deferred)
  <2>1. built \in Seq(Message)
    <3>1. Built \in Seq(Message) /\ Each(deferred) \in Seq(Message)
      BY ResultsTyped, BuiltTyped, TextsFit, EachTyped
    <3>2. QED
      BY <1>0, <3>1
  <2>2. conversation' = built \/ conversation' = Append(built, Note)
    BY <1>1 DEF StreamEnds
  <2> HIDE DEF built
  <2>3. QED
    BY <2>1, <2>2, NoteTyped
<1>2. CASE AfterTools
  <2>1. PICK copy \in {FALSE, said} :
          conversation' = conversation \o If(empties = MaxEmpties, <<Note>>)
                          \o If(copy /\ pending # <<>>, <<Assistant>>) \o Each(Texts(pending))
    BY <1>2 DEF AfterTools
  <2>2. /\ If(empties = MaxEmpties, <<Note>>) \in Seq(Message)
        /\ If(copy /\ pending # <<>>, <<Assistant>>) \in Seq(Message)
        /\ Each(Texts(pending)) \in Seq(Message)
    BY NoteTyped, IfTyped, TextsFit, EachTyped
  <2>3. conversation \o If(empties = MaxEmpties, <<Note>>) \in Seq(Message)
    BY <1>0, <2>2, JoinTyped
  <2>4. conversation \o If(empties = MaxEmpties, <<Note>>)
          \o If(copy /\ pending # <<>>, <<Assistant>>) \in Seq(Message)
    BY <2>2, <2>3, JoinTyped
  <2>5. QED
    BY <2>1, <2>2, <2>4, JoinTyped
<1>3. CASE Deliver
  <2>1. If(said, <<Assistant>>) \in Seq(Message) /\ Says(Texts(pending)) \in Message
    BY NoteTyped, IfTyped, TextsFit, SaysTyped
  <2>2. QED
    BY <1>0, <1>3, <2>1 DEF Deliver
<1>4. CASE Inject
  BY <1>0, <1>4, NoteTyped DEF Inject
<1>5. CASE UNCHANGED conversation
  BY <1>0, <1>5
<1>6. CASE Request
  <2> DEFINE c == conversation \o If(~(iteration = 0), Each(Texts(pending)))
  <2>1. conversation' = If(c # <<>>, <<[Last(c) EXCEPT !.ids = <<>>, !.says = <<>>]>>)
    BY <1>6 DEF Request
  <2>2. c \in Seq(Message)
    <3>1. Each(Texts(pending)) \in Seq(Message)
      BY TextsFit, EachTyped
    <3>2. If(~(iteration = 0), Each(Texts(pending))) \in Seq(Message)
      BY <3>1 DEF If
    <3>3. QED
      BY <1>0, <3>2
  <2> HIDE DEF c
  <2>3. CASE c = <<>>
    BY <2>1, <2>3 DEF If
  <2>4. CASE c # <<>>
    <3> DEFINE l == [Last(c) EXCEPT !.ids = <<>>, !.says = <<>>]
    <3>1. Last(c) \in Message
      BY <2>2, <2>4 DEF Last
    <3>2. l \in Message
      <4>1. <<>> \in Seq(Id) /\ <<>> \in Seq(1 .. MaxFeedback)
        OBVIOUS
      <4>2. QED
        BY <3>1, <4>1 DEF Message
    <3>3. conversation' = <<l>>
      BY <2>1, <2>4 DEF If
    <3> HIDE DEF l
    <3>4. QED
      BY <3>2, <3>3
  <2>5. QED
    BY <2>3, <2>4
<1>7. CASE Exhausted \/ CancelledAtTop \/ MidStream \/ Retry \/ Fail \/ Tool \/ Monitor \/ Close \/ Ended
  BY <1>5, <1>7 DEF Exhausted, CancelledAtTop, MidStream, Retry, Fail, Tool, BeforeTool, ToolEnds,
     AfterTool, Monitor, Close, Ended, vars
<1>8. CASE Stream
  BY <1>1, <1>5, <1>8 DEF Stream, Text, ToolUseStart, FakeTool, ToolUseEnd
<1>9. CASE LastCall \/ SecondCall
  BY <1>3, <1>5, <1>9 DEF LastCall, SecondCall
<1>10. CASE Decide
  BY <1>4, <1>5, <1>10 DEF Decide, ContinueIntent, ContinueBlock, ContinueCut, SpendGrace, Nudge,
     SpendEmpty, Continue, End
<1>11. QED
  BY <1>2, <1>5, <1>6, <1>7, <1>8, <1>9, <1>10 DEF Next, Loop, vars

LEMMA CallsTyped ==
    ASSUME Shape, Paired, Typed, [Next]_vars
    PROVE  calls' \in Seq(Id)
<1>0. calls \in Seq(Id) /\ Len(calls) \in Nat /\ Len(results) \in Nat /\ Len(results) <= Len(calls)
      /\ MaxTools \in Nat
  BY ResultsFit, LimitsAssumption DEF Typed
<1>1. CASE calls' = <<>> \/ UNCHANGED calls
  <2>1. <<>> \in Seq(Id)
    OBVIOUS
  <2>2. QED
    BY <1>0, <1>1, <2>1
<1>2. CASE ToolUseStart
  <2>1. [fake |-> FALSE, n |-> Len(calls)] \in Id
    BY <1>0, <1>2 DEF ToolUseStart, Id
  <2>2. QED
    BY <1>0, <1>2, <2>1 DEF ToolUseStart
<1>3. CASE FakeTool
  <2>1. [fake |-> TRUE, n |-> Len(results)] \in Id
    BY <1>0, <1>3 DEF FakeTool, Id
  <2>2. QED
    BY <1>0, <1>3, <2>1 DEF FakeTool
<1>4. CASE Text \/ StreamEnds \/ (\E id \in Ids(calls) : ToolUseEnd(id))
  BY <1>1, <1>4 DEF Text, StreamEnds, ToolUseEnd, NextIteration, Leave, Fresh
<1>5. CASE Exhausted \/ CancelledAtTop \/ MidStream \/ Retry \/ Fail \/ Close \/ Request
  BY <1>1, <1>5 DEF Exhausted, CancelledAtTop, MidStream, Retry, Fail, Close, Request, Leave,
     NextIteration, Fresh, locals
<1>6. CASE Tool
  BY <1>1, <1>6 DEF Tool, BeforeTool, ToolEnds, AfterTool, Returned, Leave, Fresh, locals
<1>7. CASE AfterTools \/ LastCall \/ SecondCall
  BY <1>1, <1>7 DEF AfterTools, LastCall, SecondCall, Deliver, Leave, NextIteration, Fresh, locals
<1>8. CASE Decide
  BY <1>1, <1>8 DEF Decide, ContinueIntent, ContinueBlock, ContinueCut, SpendGrace, Nudge,
     SpendEmpty, Continue, End, Leave, NextIteration, Fresh
<1>9. CASE Monitor \/ Ended \/ UNCHANGED vars
  BY <1>1, <1>9 DEF Monitor, Ended, vars, locals
<1>10. QED
  BY <1>2, <1>3, <1>4, <1>5, <1>6, <1>7, <1>8, <1>9 DEF Next, Loop, Stream

LEMMA FeedbackTyped ==
    ASSUME Typed, [Next]_vars
    PROVE  /\ sent' \in 0 .. MaxFeedback /\ pending' \in Seq(Texted(sent'))
           /\ deferred' \in Seq(1 .. sent')
<1>0. /\ sent \in 0 .. MaxFeedback /\ pending \in Seq(Texted(sent)) /\ deferred \in Seq(1 .. sent)
      /\ <<>> \in Seq(Texted(sent)) /\ <<>> \in Seq(1 .. sent)
      /\ deferred \o Texts(pending) \in Seq(1 .. sent)
  <2>1. <<>> \in Seq(Texted(sent)) /\ <<>> \in Seq(1 .. sent)
    OBVIOUS
  <2>2. Texts(pending) \in Seq(1 .. sent)
    BY TextsFit
  <2>3. QED
    BY <2>1, <2>2 DEF Typed
<1>1. CASE /\ UNCHANGED sent /\ (pending' = pending \/ pending' = <<>>)
           /\ deferred' \in {deferred, <<>>, deferred \o Texts(pending)}
  BY <1>0, <1>1
<1>2. CASE Monitor
  <2>1. CASE UNCHANGED <<sent, pending, deferred>>
    BY <1>0, <2>1
  <2>2. ASSUME sent < MaxFeedback, sent' = sent + 1, UNCHANGED deferred, NEW stop \in BOOLEAN,
               pending' = Append(pending, [stop |-> stop, n |-> sent'])
        PROVE  /\ sent' \in 0 .. MaxFeedback /\ pending' \in Seq(Texted(sent'))
               /\ deferred' \in Seq(1 .. sent')
    <3>1. sent' \in 0 .. MaxFeedback /\ 1 .. sent \subseteq 1 .. sent' /\ sent' \in 1 .. sent'
      BY <1>0, <2>2, LimitsAssumption
    <3>2. Texted(sent) \subseteq Texted(sent') /\ [stop |-> stop, n |-> sent'] \in Texted(sent')
      BY <3>1 DEF Texted
    <3>3. pending \in Seq(Texted(sent')) /\ deferred \in Seq(1 .. sent')
      BY <1>0, <3>1, <3>2, WiderSeq
    <3>4. QED
      BY <2>2, <3>1, <3>2, <3>3
  <2>3. QED
    BY <1>2, <2>1, <2>2 DEF Monitor, locals
<1>3. CASE Exhausted \/ CancelledAtTop \/ MidStream \/ Retry \/ Fail \/ Close \/ Request
  BY <1>1, <1>3 DEF Exhausted, CancelledAtTop, MidStream, Retry, Fail, Close, Request, Leave,
     NextIteration, Fresh, Drained, locals, feedback
<1>4. CASE Stream
  BY <1>1, <1>4 DEF Stream, Text, ToolUseStart, FakeTool, ToolUseEnd, StreamEnds, Leave,
     NextIteration, Fresh, feedback
<1>5. CASE Tool
  BY <1>1, <1>5 DEF Tool, BeforeTool, ToolEnds, AfterTool, Returned, Leave, Fresh, Drained, locals,
     feedback
<1>6. CASE AfterTools \/ LastCall \/ SecondCall
  BY <1>1, <1>6 DEF AfterTools, LastCall, SecondCall, Deliver, Leave, NextIteration, Fresh, Drained,
     locals
<1>7. CASE Decide
  <2>1. Deciding /\ UNCHANGED sent
    BY <1>7, VerdictFacts DEF Decide, ContinueIntent, ContinueBlock, ContinueCut, SpendGrace, Nudge,
       SpendEmpty, Continue, End
  <2>2. deferred' = <<>>
    BY <1>7 DEF Decide, ContinueIntent, ContinueBlock, ContinueCut, SpendGrace, Nudge,
       SpendEmpty, Continue, End, Leave, NextIteration, Fresh
  <2>3. QED
    BY <1>1, <2>1, <2>2 DEF Deciding, Drained
<1>8. CASE Ended \/ UNCHANGED vars
  BY <1>1, <1>8 DEF Ended, vars, locals, feedback
<1>9. QED
  BY <1>2, <1>3, <1>4, <1>5, <1>6, <1>7, <1>8 DEF Next, Loop

(* Then the counters, each with the guard that keeps it below its cap.       *)
Limits ==
    /\ prefill \in BOOLEAN /\ interrupted \in BOOLEAN /\ said \in BOOLEAN /\ emptyNow \in BOOLEAN
    /\ pc \in {"start", "stream", "before", "running", "after", "tools", "last", "wait", "ended"}
    /\ iteration \in 0 .. MaxIterations /\ (pc \notin {"start", "ended"} => iteration < MaxIterations)
    /\ retries \in 0 .. MaxRetries
    /\ grace \in 0 .. 3 /\ emptyRetries \in 0 .. 2
    /\ fabricated \in 0 .. 3 /\ (pc # "ended" => fabricated < 3)
    /\ empties \in 0 .. MaxEmpties
    /\ blockStalls \in 0 .. BlockCap /\ fences \in 0 .. 2

Counters == <<iteration, retries, grace, emptyRetries, fabricated, empties, blockStalls, fences>>
Flags    == <<prefill, interrupted, said, emptyNow>>

\* Each verdict that spends a budget finds some of it left.
LEMMA VerdictLimits ==
    ASSUME Limits
    PROVE  /\ Verdict("spend_textonly") \/ Verdict("nudge") => grace < 3
           /\ Verdict("spend_empty") => emptyRetries < 2
           /\ Verdict("block_continue") => blockStalls < BlockCap
<1>1. ASSUME NEW cut \in BOOLEAN
      PROVE  /\ EmptyVerdict(cut) = "nudge" => grace < 3
             /\ EmptyVerdict(cut) = "spend_empty" => emptyRetries < 2
             /\ EmptyVerdict(cut) \notin {"spend_textonly", "block_continue"}
  BY DEF EmptyVerdict, Limits
<1>2. ASSUME NEW r \in Reply
      PROVE  /\ TextVerdict(r) = "spend_textonly" => grace < 3
             /\ TextVerdict(r) = "block_continue" => blockStalls < BlockCap
             /\ TextVerdict(r) \notin {"nudge", "spend_empty"}
  BY DEF TextVerdict, Limits
<1>3. QED
  BY <1>1, <1>2 DEF Verdict

LEMMA LimitsKept ==
    ASSUME Limits, UNCHANGED Counters, prefill' = prefill, interrupted' \in BOOLEAN, said' \in BOOLEAN, emptyNow' \in BOOLEAN,
           pc' \in {"start", "stream", "before", "running", "after", "tools", "last", "wait", "ended"},
           pc' \in {"start", "ended"} \/ pc \notin {"start", "ended"},
           pc' = "ended" \/ pc # "ended"
    PROVE  Limits'
  BY DEF Limits, Counters

\* The next iteration, with the counters as they are or one of them raised.
LEMMA LimitsOfNext ==
    ASSUME Limits, NextIteration, pc \notin {"start", "ended"}, prefill' = prefill, interrupted' \in BOOLEAN,
           retries' \in 0 .. MaxRetries, grace' \in 0 .. 3, emptyRetries' \in 0 .. 2,
           fabricated' \in 0 .. 3, fabricated' < 3, empties' \in 0 .. MaxEmpties,
           blockStalls' \in 0 .. BlockCap, fences' \in 0 .. 2
    PROVE  Limits'
<1>1. iteration' \in 0 .. MaxIterations
  BY LimitsAssumption DEF Limits, NextIteration
<1>2. pc' = "start" /\ said' = FALSE /\ emptyNow' = FALSE
  BY DEF NextIteration, Fresh
<1>3. QED
  BY <1>1, <1>2 DEF Limits

\* The end of the turn.
LEMMA LimitsOfLeave ==
    ASSUME Limits, Leave, prefill' = prefill, interrupted' \in BOOLEAN,
           UNCHANGED <<retries, grace, emptyRetries, blockStalls, fences>>,
           fabricated' \in 0 .. 3, empties' \in 0 .. MaxEmpties
    PROVE  Limits'
<1>1. pc' = "ended" /\ iteration' = iteration /\ said' = FALSE /\ emptyNow' = FALSE
  BY DEF Leave, Fresh
<1>2. QED
  BY <1>1 DEF Limits

LEMMA LimitsStream ==
    ASSUME Limits, Stream
    PROVE  Limits'
<1>1. CASE Text \/ ToolUseStart \/ FakeTool
  <2>1. /\ UNCHANGED Counters /\ UNCHANGED <<prefill, pc, interrupted, emptyNow>> /\ said' \in BOOLEAN
        /\ pc = "stream"
    BY <1>1 DEF Text, ToolUseStart, FakeTool, Counters, feedback, budgets, stalls, Limits
  <2>2. QED
    BY <2>1, LimitsKept DEF Limits
<1>2. ASSUME NEW id \in Ids(calls), ToolUseEnd(id) PROVE Limits'
  <2>1. /\ UNCHANGED <<iteration, retries, grace, emptyRetries, fabricated, blockStalls, fences>>
        /\ UNCHANGED <<prefill, interrupted, said>> /\ pc = "stream" /\ pc' \in {"stream", "before"}
    BY <1>2 DEF ToolUseEnd, feedback, stalls
  <2>2. empties' \in 0 .. MaxEmpties /\ emptyNow' \in BOOLEAN
    <3>1. empties \in 0 .. MaxEmpties /\ emptyNow \in BOOLEAN
      BY DEF Limits
    <3>2. empties' \in {empties, IF empties < MaxEmpties THEN empties + 1 ELSE empties}
      BY <1>2 DEF ToolUseEnd
    <3>3. emptyNow' \in {emptyNow, TRUE}
      BY <1>2 DEF ToolUseEnd
    <3>4. empties' \in 0 .. MaxEmpties
      BY <3>1, <3>2, LimitsAssumption
    <3>5. emptyNow' \in BOOLEAN
      BY <3>1, <3>3
    <3>6. QED
      BY <3>4, <3>5
  <2>3. QED
    BY <2>1, <2>2 DEF Limits
<1>3. CASE StreamEnds
  <2>0. /\ pc = "stream" /\ UNCHANGED <<prefill, interrupted, retries, grace, emptyRetries, empties>>
        /\ UNCHANGED <<blockStalls, fences>>
    BY <1>3 DEF StreamEnds, feedback, stalls
  <2>1. CASE /\ pc' \in {"tools", "last"}
             /\ UNCHANGED <<iteration, said, emptyNow, fabricated>>
    BY <2>0, <2>1 DEF Limits
  <2>2. CASE fabricated' = fabricated + 1 /\ IF fabricated' < 3 THEN NextIteration ELSE Leave
    <3>1. fabricated' \in 0 .. 3
      BY <2>0, <2>2 DEF Limits
    <3>2. CASE fabricated' < 3 /\ NextIteration
      BY <2>0, <3>1, <3>2, LimitsOfNext DEF Limits
    <3>3. CASE Leave
      BY <2>0, <3>1, <3>3, LimitsOfLeave DEF Limits
    <3>4. QED
      BY <2>2, <3>2, <3>3
  <2>3. QED
    BY <1>3, <2>1, <2>2 DEF StreamEnds
<1>4. QED
  BY <1>1, <1>2, <1>3 DEF Stream

LEMMA LimitsTool ==
    ASSUME Limits, Tool
    PROVE  Limits'
<1>1. /\ UNCHANGED <<prefill, retries, grace, emptyRetries, fabricated, empties, blockStalls, fences>>
      /\ interrupted' \in {interrupted, FALSE} /\ pc \in {"before", "running", "after"}
  BY DEF Tool, BeforeTool, ToolEnds, AfterTool, Drained, feedback, budgets, stalls
<1>2. interrupted' \in BOOLEAN
  BY <1>1 DEF Limits
<1>3. CASE Leave
  BY <1>1, <1>2, <1>3, LimitsOfLeave DEF Limits
<1>4. CASE ~Leave
  <2>1. UNCHANGED <<iteration, said, emptyNow>> /\ pc' \in {"stream", "running", "after"}
    BY <1>4 DEF Tool, BeforeTool, ToolEnds, AfterTool, Returned, locals
  <2>2. QED
    BY <1>1, <1>2, <2>1, LimitsKept DEF Limits, Counters
<1>5. QED
  BY <1>3, <1>4

LEMMA LimitsFeedback ==
    ASSUME Limits, AfterTools \/ LastCall \/ SecondCall
    PROVE  Limits'
<1>1. /\ UNCHANGED <<prefill, retries, grace, emptyRetries, fabricated, blockStalls, fences>>
      /\ interrupted' = FALSE /\ interrupted' \in BOOLEAN /\ pc \in {"tools", "last", "wait"}
      /\ empties' \in {empties, 0}
  BY DEF AfterTools, LastCall, SecondCall, Drained, budgets, stalls
<1>2. empties' \in 0 .. MaxEmpties
  BY <1>1, LimitsAssumption DEF Limits
<1>3. CASE NextIteration
  BY <1>1, <1>2, <1>3, LimitsOfNext DEF Limits
<1>4. CASE Leave
  BY <1>1, <1>2, <1>4, LimitsOfLeave DEF Limits
<1>5. CASE pc' = "wait" /\ UNCHANGED <<iteration, locals, budgets>>
  BY <1>1, <1>5, LimitsKept DEF Limits, Counters, locals, budgets
<1>6. QED
  BY <1>3, <1>4, <1>5 DEF AfterTools, LastCall, SecondCall, Deliver

LEMMA LimitsDecide ==
    ASSUME Limits, Decide
    PROVE  Limits'
<1>1. Deciding /\ UNCHANGED <<prefill, retries, fabricated, empties>>
  BY VerdictFacts DEF Decide, ContinueIntent, ContinueBlock, ContinueCut, SpendGrace, Nudge,
     SpendEmpty, Continue, End, budgets
<1>2. pc = "wait" /\ interrupted' \in BOOLEAN
  BY <1>1 DEF Deciding, Drained
<1>3. /\ retries \in 0 .. MaxRetries /\ grace \in 0 .. 3 /\ emptyRetries \in 0 .. 2
      /\ fabricated \in 0 .. 3 /\ fabricated < 3 /\ empties \in 0 .. MaxEmpties
      /\ blockStalls \in 0 .. BlockCap /\ fences \in 0 .. 2
  BY <1>2 DEF Limits
<1>4. CASE ContinueBlock
  <2>1. blockStalls < BlockCap /\ NextIteration
    BY <1>4, VerdictLimits DEF ContinueBlock
  <2>2. fences' \in 0 .. 2 /\ blockStalls' \in {0, blockStalls + 1} /\ UNCHANGED <<grace, emptyRetries>>
    BY <1>4 DEF ContinueBlock, budgets
  <2>3. blockStalls' \in 0 .. BlockCap
    BY <1>3, <2>1, <2>2, LimitsAssumption
  <2>4. QED
    BY <1>1, <1>2, <1>3, <2>1, <2>2, <2>3, LimitsOfNext
<1>5. CASE SpendGrace \/ Nudge
  <2>1. (grace < 3 \/ grace < 1 \/ grace = 0) /\ grace' = grace + 1 /\ NextIteration /\ UNCHANGED <<emptyRetries, blockStalls, fences>>
    BY <1>5, VerdictLimits DEF SpendGrace, Nudge, stalls
  <2>2. grace' \in 0 .. 3
    BY <1>3, <2>1
  <2>3. QED
    BY <1>1, <1>2, <1>3, <2>1, <2>2, LimitsOfNext
<1>6. CASE SpendEmpty
  <2>1. emptyRetries < 2 /\ emptyRetries' = emptyRetries + 1 /\ NextIteration
        /\ UNCHANGED <<grace, blockStalls, fences>>
    BY <1>6, VerdictLimits DEF SpendEmpty, stalls
  <2>2. emptyRetries' \in 0 .. 2
    BY <1>3, <2>1
  <2>3. QED
    BY <1>1, <1>2, <1>3, <2>1, <2>2, LimitsOfNext
<1>7. CASE ContinueIntent \/ ContinueCut \/ Continue
  <2>1. NextIteration /\ UNCHANGED <<grace, emptyRetries, blockStalls, fences>>
    BY <1>7 DEF ContinueIntent, ContinueCut, Continue, budgets, stalls
  <2>2. QED
    BY <1>1, <1>2, <1>3, <2>1, LimitsOfNext
<1>8. CASE End
  <2>1. Leave /\ UNCHANGED <<grace, emptyRetries, blockStalls, fences>>
    BY <1>8 DEF End, budgets, stalls
  <2>2. QED
    BY <1>1, <1>2, <1>3, <2>1, LimitsOfLeave
<1>9. QED
  BY <1>4, <1>5, <1>6, <1>7, <1>8 DEF Decide

LEMMA LimitsInit == Init => Limits
<1> SUFFICES ASSUME Init PROVE Limits
  OBVIOUS
<1>1. /\ iteration = 0 /\ retries = 0 /\ grace = 0 /\ emptyRetries = 0 /\ fabricated = 0 /\ empties = 0
      /\ blockStalls = 0 /\ fences = 0 /\ pc = "start"
  BY DEF Init
<1>2. prefill \in BOOLEAN /\ interrupted \in BOOLEAN /\ said \in BOOLEAN /\ emptyNow \in BOOLEAN
  BY DEF Init
<1>3. QED
  BY <1>1, <1>2, LimitsAssumption DEF Limits

LEMMA LimitsNext ==
    ASSUME Limits, [Next]_vars
    PROVE  Limits'
<1>1. CASE Exhausted \/ CancelledAtTop \/ MidStream \/ Fail \/ Close
  <2>1. Leave /\ UNCHANGED <<prefill, interrupted, retries, grace, emptyRetries, blockStalls, fences,
                             fabricated, empties>>
    BY <1>1 DEF Exhausted, CancelledAtTop, MidStream, Fail, Close, feedback, budgets, stalls
  <2>2. QED
    BY <2>1, LimitsOfLeave DEF Limits
<1>2. CASE Retry
  <2>1. /\ NextIteration /\ pc = "stream" /\ retries < MaxRetries /\ retries' = retries + 1
        /\ UNCHANGED <<prefill, interrupted, grace, emptyRetries, blockStalls, fences, fabricated, empties>>
    BY <1>2 DEF Retry, feedback, stalls
  <2>2. retries' \in 0 .. MaxRetries
    BY <2>1, LimitsAssumption DEF Limits
  <2>3. QED
    BY <2>1, <2>2, LimitsOfNext DEF Limits
<1>3. CASE Request
  <2>1. /\ UNCHANGED <<prefill, retries, grace, emptyRetries, blockStalls, fences, fabricated, empties>>
        /\ interrupted' \in {interrupted, FALSE} /\ pc = "start" /\ iteration < MaxIterations
    BY <1>3 DEF Request, Drained, budgets, stalls
  <2>2. interrupted' \in BOOLEAN
    BY <2>1 DEF Limits
  <2>3. CASE Leave
    BY <2>1, <2>2, <2>3, LimitsOfLeave DEF Limits
  <2>4. CASE pc' = "stream" /\ UNCHANGED <<iteration, locals>>
    BY <2>1, <2>2, <2>4 DEF Limits, locals
  <2>5. QED
    BY <1>3, <2>3, <2>4 DEF Request
<1>4. CASE Monitor
  <2>1. UNCHANGED Counters /\ UNCHANGED <<prefill, pc, said, emptyNow>> /\ interrupted' \in {interrupted, TRUE}
        /\ pc # "ended"
    BY <1>4 DEF Monitor, Counters, locals, budgets, stalls
  <2>2. QED
    BY <2>1, LimitsKept DEF Limits
<1>5. CASE Ended \/ UNCHANGED vars
  <2>1. UNCHANGED Counters /\ UNCHANGED Flags /\ UNCHANGED pc
    BY <1>5 DEF Ended, vars, Counters, Flags, feedback, locals, budgets, stalls
  <2>2. QED
    BY <2>1 DEF Limits, Counters, Flags
<1>6. QED
  BY <1>1, <1>2, <1>3, <1>4, <1>5, LimitsStream, LimitsTool, LimitsFeedback, LimitsDecide DEF Next, Loop

TypeInv == GuardInv /\ Ordered /\ Paired /\ Typed /\ Limits /\ NarrationInv

LEMMA TypedInit == Init => Typed
<1> SUFFICES ASSUME Init PROVE Typed
  OBVIOUS
<1>1. sent = 0 /\ pending = <<>> /\ deferred = <<>> /\ calls = <<>> /\ conversation = <<>>
  BY DEF Init
<1>2. 0 \in 0 .. MaxFeedback
  BY LimitsAssumption
<1>3. /\ <<>> \in Seq(Texted(sent)) /\ <<>> \in Seq(1 .. sent) /\ <<>> \in Seq(Id) /\ <<>> \in Seq(Message)
  OBVIOUS
<1>4. QED
  BY <1>1, <1>2, <1>3 DEF Typed

(* Every variable stays in its type, with what the counters say of each      *)
(* other: the strengthening of TypeOK.                                       *)
THEOREM TypeInvAlways == Spec => []TypeInv
<1>1. Init => TypeInv
  BY GuardInvInit, OrderedInit, PairedInit, TypedInit, LimitsInit, NarrationInvInit DEF TypeInv
<1>2. TypeInv /\ [Next]_vars => TypeInv'
  <2> SUFFICES ASSUME TypeInv, [Next]_vars PROVE TypeInv'
    OBVIOUS
  <2>1. GuardInv /\ Shape /\ Ordered /\ Paired /\ Typed /\ Limits /\ NarrationInv
    BY DEF TypeInv, GuardInv
  <2>2. GuardInv' /\ Ordered' /\ Paired'
    BY <2>1, GuardInvNext, OrderedNext, PairedNext
  <2>3. Typed'
    BY <2>1, ConversationTyped, CallsTyped, FeedbackTyped DEF Typed
  <2>4. Limits' /\ NarrationInv'
    BY <2>1, LimitsNext, NarrationInvNext
  <2>5. QED
    BY <2>2, <2>3, <2>4 DEF TypeInv
<1>3. QED
  BY <1>1, <1>2, PTL DEF Spec

(* Every counter of the loop stays under its cap, and there is never more    *)
(* than one result for a call.                                               *)
THEOREM TypeCorrect == Spec => []TypeOK
<1>1. TypeInv => TypeOK
  <2> SUFFICES ASSUME TypeInv PROVE TypeOK
    OBVIOUS
  <2>1. Shape /\ Ordered /\ Paired /\ Typed /\ Limits /\ NarrationInv
    BY DEF TypeInv, GuardInv
  <2>2. results \in Seq(Ids(calls)) /\ Len(results) <= Len(calls)
    BY <2>1, ResultsTyped, ResultsFit
  <2>3. told \in 0 .. sent
    <3>1. Flow(conversation, deferred, pending) \in Seq(Nat)
      BY <2>1, FlowShape DEF Shape
    <3>2. Len(Flow(conversation, deferred, pending)) \in Nat
      BY <3>1
    <3>3. QED
      BY <2>1, <3>2, TextsFit DEF Ordered
  <2>4. pending \in Seq(Feedback)
    <3>1. sent \in Nat /\ sent <= MaxFeedback
      BY <2>1, LimitsAssumption DEF Typed
    <3>2. Texted(sent) \subseteq Feedback
      BY <3>1, LimitsAssumption DEF Texted, Feedback
    <3>3. QED
      BY <2>1, <3>2, WiderSeq DEF Typed
  <2>5. QED
    BY <2>1, <2>2, <2>3, <2>4 DEF TypeOK, Paired, Typed, Limits, NarrationInv
<1>2. QED
  BY <1>1, TypeInvAlways, PTL

-----------------------------------------------------------------------------
(* How long a turn can last.  An iteration has a room of steps: a request, a *)
(* text, the calls of the reply and their results, for each of which a tool  *)
(* may be run, and three steps after the stream.                             *)
Room         == 5 * MaxTools + 8
Streaming    == {"stream", "before", "running", "after"}
InCall       == [stream |-> 2, before |-> 1, running |-> 0, after |-> 3]
OutOfReply   == [start |-> Room, tools |-> 2, last |-> 2, wait |-> 1, ended |-> 0]
OfReply(c, r) == 5 * (MaxTools - Len(c)) + 4 * (Len(c) - Len(r))
Rest ==
    IF pc \in Streaming THEN OfReply(calls, results) + (IF said THEN 0 ELSE 1) + InCall[pc] + 3
                        ELSE OutOfReply[pc]
Whole     == (MaxIterations - iteration) * Room
StepsLeft == IF pc = "ended" THEN 0 ELSE Whole + Rest

(* Every step of the loop, and the consumer going away, brings the end of    *)
(* the turn nearer, and no text of the user defers it: an iteration is spent *)
(* or, within one, a call, a result or an await.                             *)
EachStepCounts ==
    [][IF Loop \/ Close THEN StepsLeft' < StepsLeft ELSE StepsLeft' = StepsLeft]_vars

\* What a reply has left, and that an iteration fits its room.
LEMMA RestFacts ==
    ASSUME TypeOK, Limits
    PROVE  /\ Room \in Nat /\ Whole \in Nat /\ Rest \in 0 .. Room /\ (pc # "ended" => Rest > 0)
           /\ Len(calls) \in 0 .. MaxTools /\ Len(results) \in 0 .. Len(calls)
<1>1. Room \in Nat /\ Room > 7 /\ MaxTools \in Nat /\ Room = 5 * MaxTools + 8
  BY LimitsAssumption DEF Room
<1>2. Len(calls) \in 0 .. MaxTools /\ Len(results) \in 0 .. Len(calls)
  <2>1. Len(calls) \in Nat /\ Len(results) \in Nat
    BY DEF TypeOK
  <2>2. Len(calls) <= MaxTools /\ Len(results) <= Len(calls)
    BY DEF TypeOK
  <2>3. QED
    BY <1>1, <2>1, <2>2
<1>3. Whole \in Nat
  <2>1. MaxIterations - iteration \in Nat
    BY LimitsAssumption DEF Limits
  <2>2. \A a, b \in Nat : a * b \in Nat
    OBVIOUS
  <2>3. QED
    BY <1>1, <2>1, <2>2 DEF Whole
<1>4. OfReply(calls, results) \in 0 .. 5 * MaxTools
  BY <1>1, <1>2 DEF OfReply
<1>5. Rest \in 0 .. Room /\ (pc # "ended" => Rest > 0)
  <2>1. CASE pc \in Streaming
    <3>1. InCall[pc] \in 0 .. 3
      BY <2>1 DEF InCall, Streaming
    <3>2. Rest = OfReply(calls, results) + (IF said THEN 0 ELSE 1) + InCall[pc] + 3
      BY <2>1 DEF Rest, Streaming
    <3>3. QED
      BY <1>1, <1>4, <3>1, <3>2
  <2>2. CASE pc \notin Streaming
    <3>1. Rest \in {Room, 2, 1, 0} /\ (Rest = 0 => pc = "ended")
      BY <1>1, <2>2 DEF Rest, OutOfReply, Streaming, Limits
    <3>2. QED
      BY <1>1, <3>1
  <2>3. QED
    BY <2>1, <2>2
<1>6. QED
  BY <1>1, <1>2, <1>3, <1>5

\* The three ways of a step: the end, the next iteration, and on in this one.
LEMMA LeaveCounts ==
    ASSUME TypeOK, Limits, pc # "ended", pc' = "ended"
    PROVE  StepsLeft' < StepsLeft
  BY RestFacts DEF StepsLeft

LEMMA NextCounts ==
    ASSUME TypeOK, Limits, pc \notin {"start", "ended"}, NextIteration
    PROVE  StepsLeft' < StepsLeft
<1>1. /\ Room \in Nat /\ Whole \in Nat /\ Rest \in Nat /\ Rest > 0
      /\ MaxIterations \in Int /\ iteration \in Int
  BY RestFacts, LimitsAssumption DEF Limits
<1>2. Rest' = Room /\ pc' # "ended" /\ iteration' = iteration + 1
  BY DEF NextIteration, Rest, OutOfReply, Streaming, Room
<1>3. Whole' = Whole - Room
  <2>1. \A a, b, c \in Int : (a - (b + 1)) * c = (a - b) * c - c
    OBVIOUS
  <2>2. Whole' = (MaxIterations - (iteration + 1)) * Room
    BY <1>2 DEF Whole, Room
  <2>3. QED
    BY <1>1, <2>1, <2>2 DEF Whole
<1>4. StepsLeft = Whole + Rest /\ StepsLeft' = Whole' + Rest'
  BY <1>2 DEF StepsLeft
<1>5. QED
  BY <1>1, <1>2, <1>3, <1>4

LEMMA OnCounts ==
    ASSUME TypeOK, Limits, pc # "ended", pc' # "ended", UNCHANGED iteration,
           Rest' \in Int, Rest' < Rest
    PROVE  StepsLeft' < StepsLeft
<1>1. Whole' = Whole /\ Whole \in Nat /\ Rest \in Int
  <2>1. Rest \in 0 .. Room /\ Whole \in Nat /\ Room \in Nat
    BY RestFacts
  <2>2. QED
    BY <2>1 DEF Whole, Room
<1>2. StepsLeft = Whole + Rest /\ StepsLeft' = Whole' + Rest'
  BY DEF StepsLeft
<1>3. ASSUME NEW w \in Int, NEW a \in Int, NEW b \in Int, a < b PROVE w + a < w + b
  BY <1>3
<1>4. Whole \in Int /\ Rest \in Int /\ Rest' \in Int
  BY <1>1
<1>5. Whole + Rest' < Whole + Rest
  BY <1>3, <1>4
<1>6. QED
  BY <1>1, <1>2, <1>5

\* A call takes five of the reply and gives four for its result.
LEMMA ReplyFacts ==
    ASSUME TypeOK, NEW id
    PROVE  /\ OfReply(calls, results) \in Int
           /\ OfReply(Append(calls, id), results) = OfReply(calls, results) - 1
           /\ OfReply(calls, Append(results, id)) = OfReply(calls, results) - 4
           /\ OfReply(Append(calls, id), Append(results, id)) = OfReply(calls, results) - 5
<1>1. Len(calls) \in Int /\ Len(results) \in Int /\ MaxTools \in Int
  BY LimitsAssumption DEF TypeOK
<1>2. Len(Append(calls, id)) = Len(calls) + 1 /\ Len(Append(results, id)) = Len(results) + 1
  BY DEF TypeOK
<1>3. QED
  BY <1>1, <1>2 DEF OfReply

\* Within a stream: what is spent of the reply outweighs where the loop goes.
LEMMA ReplyCounts ==
    ASSUME TypeOK, Limits, pc \in Streaming, pc' \in Streaming, UNCHANGED iteration,
           OfReply(calls', results') \in Int,
           OfReply(calls', results') + (IF said' THEN 0 ELSE 1) + InCall[pc']
               < OfReply(calls, results) + (IF said THEN 0 ELSE 1) + InCall[pc]
    PROVE  StepsLeft' < StepsLeft
<1>1. /\ Rest = OfReply(calls, results) + (IF said THEN 0 ELSE 1) + InCall[pc] + 3
      /\ Rest' = OfReply(calls', results') + (IF said' THEN 0 ELSE 1) + InCall[pc'] + 3
      /\ pc # "ended" /\ pc' # "ended"
  BY DEF Rest, Streaming, OfReply
<1>2. OfReply(calls, results) \in Int
  BY ReplyFacts
<1>3. InCall[pc] \in Int /\ InCall[pc'] \in Int
  BY DEF InCall, Streaming
<1>4. Rest' \in Int /\ Rest' < Rest
  BY <1>1, <1>2, <1>3
<1>5. QED
  BY <1>1, <1>4, OnCounts

LEMMA TopCounts ==
    ASSUME TypeOK, Limits, Exhausted \/ CancelledAtTop \/ Request
    PROVE  StepsLeft' < StepsLeft
<1>1. pc = "start"
  BY DEF Exhausted, CancelledAtTop, Request
<1>2. CASE pc' = "ended"
  BY <1>1, <1>2, LeaveCounts
<1>3. CASE pc' = "stream" /\ UNCHANGED <<iteration, locals>>
  <2>1. Rest = Room
    BY <1>1 DEF Rest, OutOfReply, Streaming
  <2>2. Rest' = OfReply(calls, results) + (IF said THEN 0 ELSE 1) + 5
    <3>1. /\ pc' = "stream" /\ pc' \in Streaming /\ InCall["stream"] = 2
          /\ UNCHANGED <<calls, results, said>>
      BY <1>3 DEF Streaming, InCall, locals
    <3>2. Rest' = OfReply(calls, results) + (IF said THEN 0 ELSE 1) + InCall[pc'] + 3
      BY <3>1 DEF Rest, OfReply
    <3>3. OfReply(calls, results) \in Int
      BY ReplyFacts
    <3>4. QED
      BY <3>1, <3>2, <3>3
  <2>3. Len(calls) \in Nat /\ Len(results) \in Nat /\ Len(results) <= Len(calls) /\ MaxTools \in Nat
    BY RestFacts, LimitsAssumption
  <2>4. OfReply(calls, results) <= 5 * MaxTools /\ OfReply(calls, results) \in Int
    BY <2>3 DEF OfReply
  <2>5. Rest' \in Int /\ Rest' < Rest
    BY <2>1, <2>2, <2>3, <2>4 DEF Room
  <2>6. QED
    BY <1>1, <1>3, <2>5, OnCounts
<1>4. QED
  BY <1>2, <1>3 DEF Exhausted, CancelledAtTop, Request, Leave

LEMMA StreamCounts ==
    ASSUME TypeOK, Limits, Stream
    PROVE  StepsLeft' < StepsLeft
<1>1. pc = "stream" /\ pc \in Streaming
  BY DEF Stream, Text, ToolUseStart, FakeTool, ToolUseEnd, StreamEnds, Streaming
<1>2. InCall["stream"] = 2 /\ InCall["before"] = 1 /\ "stream" \in Streaming /\ "before" \in Streaming
  BY DEF InCall, Streaming
<1>3. OfReply(calls, results) \in Int
  BY ReplyFacts
<1>4. CASE Text
  <2>1. UNCHANGED <<pc, iteration, calls, results>> /\ ~said /\ said'
    BY <1>4 DEF Text
  <2>2. QED
    BY <1>1, <1>2, <1>3, <2>1, ReplyCounts
<1>5. CASE ToolUseStart
  <2>1. UNCHANGED <<pc, iteration, said, results>>
    BY <1>5 DEF ToolUseStart
  <2>2. OfReply(calls', results') = OfReply(calls, results) - 1
    BY <1>5, <2>1, ReplyFacts DEF ToolUseStart
  <2>3. QED
    BY <1>1, <1>2, <1>3, <2>1, <2>2, ReplyCounts
<1>6. CASE FakeTool
  <2>1. UNCHANGED <<pc, iteration>> /\ said'
    BY <1>6 DEF FakeTool
  <2>2. OfReply(calls', results') = OfReply(calls, results) - 5
    BY <1>6, ReplyFacts DEF FakeTool, Result
  <2>3. QED
    BY <1>1, <1>2, <1>3, <2>1, <2>2, ReplyCounts
<1>7. ASSUME NEW id \in Ids(calls), ToolUseEnd(id) PROVE StepsLeft' < StepsLeft
  <2>1. UNCHANGED <<iteration, calls, said>>
    BY <1>7 DEF ToolUseEnd
  <2>2. CASE Result(id) /\ UNCHANGED pc
    <3>1. OfReply(calls', results') = OfReply(calls, results) - 4
      BY <2>1, <2>2, ReplyFacts DEF Result
    <3>2. QED
      BY <1>1, <1>2, <1>3, <2>1, <2>2, <3>1, ReplyCounts
  <2>3. CASE pc' = "before" /\ UNCHANGED results
    BY <1>1, <1>2, <1>3, <2>1, <2>3, ReplyCounts
  <2>4. QED
    BY <1>7, <2>2, <2>3 DEF ToolUseEnd
<1>8. CASE StreamEnds
  <2>1. CASE pc' \in {"tools", "last"} /\ UNCHANGED iteration
    <3>1. Rest' = 2
      BY <2>1 DEF Rest, OutOfReply, Streaming
    <3>2. Rest = OfReply(calls, results) + (IF said THEN 0 ELSE 1) + 5
      BY <1>1, <1>2, <1>3 DEF Rest
    <3>3. OfReply(calls, results) >= 0
      <4>1. Len(calls) \in 0 .. MaxTools /\ Len(results) \in 0 .. Len(calls) /\ MaxTools \in Nat
        BY RestFacts, LimitsAssumption
      <4>2. QED
        BY <4>1 DEF OfReply
    <3>4. Rest' \in Int /\ Rest' < Rest
      BY <1>3, <3>1, <3>2, <3>3
    <3>5. QED
      BY <1>1, <2>1, <3>4, OnCounts
  <2>2. CASE NextIteration
    BY <1>1, <2>2, NextCounts
  <2>3. CASE Leave
    BY <1>1, <2>3, LeaveCounts DEF Leave
  <2>4. QED
    BY <1>8, <2>1, <2>2, <2>3 DEF StreamEnds
<1>9. QED
  BY <1>4, <1>5, <1>6, <1>7, <1>8 DEF Stream

LEMMA ToolCounts ==
    ASSUME TypeOK, Limits, Tool
    PROVE  StepsLeft' < StepsLeft
<1>1. pc \in {"before", "running", "after"} /\ pc \in Streaming
  BY DEF Tool, BeforeTool, ToolEnds, AfterTool, Streaming
<1>2. /\ InCall["stream"] = 2 /\ InCall["before"] = 1 /\ InCall["running"] = 0 /\ InCall["after"] = 3
      /\ {"stream", "running", "after"} \subseteq Streaming
  BY DEF InCall, Streaming
<1>3. OfReply(calls, results) \in Int
  BY ReplyFacts
<1>4. CASE Leave
  BY <1>1, <1>4, LeaveCounts DEF Leave
<1>5. CASE BeforeTool /\ ~Leave
  <2>1. pc = "before" /\ UNCHANGED <<iteration, calls, said>>
    BY <1>5 DEF BeforeTool, Returned, locals
  <2>2. CASE pc' = "running" /\ UNCHANGED results
    BY <1>1, <1>2, <1>3, <2>1, <2>2, ReplyCounts
  <2>3. ASSUME NEW id \in running, results' = Append(results, id), pc' = "stream" PROVE StepsLeft' < StepsLeft
    <3>1. OfReply(calls', results') = OfReply(calls, results) - 4
      BY <2>1, <2>3, ReplyFacts
    <3>2. QED
      BY <1>1, <1>2, <1>3, <2>1, <2>3, <3>1, ReplyCounts
  <2>4. QED
    BY <1>5, <2>2, <2>3 DEF BeforeTool, Returned, locals
<1>6. CASE ToolEnds /\ ~Leave
  <2>1. pc = "running" /\ UNCHANGED <<iteration, calls, said>> /\ pc' \in {"stream", "after"}
    BY <1>6 DEF ToolEnds, Returned
  <2>2. PICK id \in running : results' = Append(results, id)
    BY <1>6 DEF ToolEnds, Returned, Result
  <2>3. OfReply(calls', results') = OfReply(calls, results) - 4
    BY <2>1, <2>2, ReplyFacts
  <2>4. QED
    BY <1>1, <1>2, <1>3, <2>1, <2>3, ReplyCounts
<1>7. CASE AfterTool /\ ~Leave
  <2>1. pc = "after" /\ pc' = "stream" /\ UNCHANGED <<iteration, calls, said, results>>
    BY <1>7 DEF AfterTool, Returned
  <2>2. QED
    BY <1>1, <1>2, <1>3, <2>1, ReplyCounts
<1>8. QED
  BY <1>4, <1>5, <1>6, <1>7 DEF Tool

LEMMA LastCounts ==
    ASSUME TypeOK, Limits, AfterTools \/ LastCall \/ SecondCall \/ Decide
    PROVE  StepsLeft' < StepsLeft
<1>1. pc \in {"tools", "last", "wait"}
  BY VerdictFacts DEF AfterTools, LastCall, SecondCall, Decide, ContinueIntent, ContinueBlock, ContinueCut,
     SpendGrace, Nudge, SpendEmpty, Continue, End, Deciding
<1>2. CASE NextIteration
  BY <1>1, <1>2, NextCounts
<1>3. CASE Leave
  BY <1>1, <1>3, LeaveCounts DEF Leave
<1>4. CASE pc = "last" /\ pc' = "wait" /\ UNCHANGED iteration
  <2>1. Rest = 2 /\ Rest' = 1
    BY <1>4 DEF Rest, OutOfReply, Streaming
  <2>2. QED
    BY <1>4, <2>1, OnCounts
<1>5. QED
  BY <1>2, <1>3, <1>4 DEF AfterTools, LastCall, SecondCall, Deliver, Decide, ContinueIntent, ContinueBlock,
     ContinueCut, SpendGrace, Nudge, SpendEmpty, Continue, End

(* A turn takes at most as many steps as StepsLeft is at its start, which the *)
(* limits give: whatever the model answers, whatever raises and whatever the *)
(* user sends, none of the ways to go on is free.                            *)
THEOREM EachStepCountsAlways == Spec => EachStepCounts
<1>1. ASSUME TypeOK, Limits, [Next]_vars
      PROVE  IF Loop \/ Close THEN StepsLeft' < StepsLeft ELSE StepsLeft' = StepsLeft
  <2>1. CASE Loop
    <3>1. CASE Exhausted \/ CancelledAtTop \/ Request
      BY <1>1, <2>1, <3>1, TopCounts
    <3>2. CASE MidStream \/ Fail
      BY <1>1, <2>1, <3>2, LeaveCounts DEF MidStream, Fail, Leave
    <3>3. CASE Retry
      BY <1>1, <2>1, <3>3, NextCounts DEF Retry
    <3>4. CASE Stream
      BY <1>1, <2>1, <3>4, StreamCounts
    <3>5. CASE Tool
      BY <1>1, <2>1, <3>5, ToolCounts
    <3>6. CASE AfterTools \/ LastCall \/ SecondCall \/ Decide
      BY <1>1, <2>1, <3>6, LastCounts
    <3>7. QED
      BY <2>1, <3>1, <3>2, <3>3, <3>4, <3>5, <3>6 DEF Loop
  <2>2. CASE Close
    BY <1>1, <2>2, LeaveCounts DEF Close, Leave
  <2>3. CASE ~Loop /\ ~Close
    <3>1. UNCHANGED <<pc, iteration, calls, results, said>>
      BY <1>1, <2>3 DEF Next, Monitor, Ended, vars, locals
    <3>2. Whole' = Whole /\ Rest' = Rest
      BY <3>1 DEF Whole, Rest, Room, OfReply, OutOfReply
    <3>3. QED
      BY <2>3, <3>1, <3>2 DEF StepsLeft
  <2>4. QED
    BY <2>1, <2>2, <2>3
<1>2. TypeInv => Limits
  BY DEF TypeInv
<1>3. QED
  BY <1>1, <1>2, TypeInvAlways, TypeCorrect, PTL DEF Spec, EachStepCounts

StepsBounded == StepsLeft \in 0 .. (MaxIterations + 1) * Room

(* At no time is there more to come than the limits allow at the start, and  *)
(* nothing once the turn has ended.                                          *)
THEOREM StepsAreBounded == Spec => []StepsBounded
<1>1. ASSUME TypeOK, Limits PROVE StepsBounded
  <2>1. Room \in Nat /\ Whole \in Nat /\ Rest \in 0 .. Room
    BY <1>1, RestFacts
  <2>2. MaxIterations \in Nat /\ iteration \in 0 .. MaxIterations
    BY <1>1, LimitsAssumption DEF Limits
  <2>3. Whole <= MaxIterations * Room
    <3>1. \A a, b, c \in Nat : b <= a => (a - b) * c <= a * c
      <4>1. \A a, b, c \in Nat : (a - b) * c = a * c - b * c /\ b * c \in Nat /\ a * c \in Nat
        OBVIOUS
      <4>2. QED
        BY <4>1
    <3>2. QED
      BY <2>1, <2>2, <3>1 DEF Whole
  <2>4. (MaxIterations + 1) * Room = MaxIterations * Room + Room /\ MaxIterations * Room \in Nat
    BY <2>1, <2>2
  <2>5. StepsLeft \in {0, Whole + Rest}
    BY DEF StepsLeft
  <2>6. QED
    BY <2>1, <2>3, <2>4, <2>5 DEF StepsBounded
<1>2. TypeInv => Limits
  BY DEF TypeInv
<1>3. QED
  BY <1>1, <1>2, TypeInvAlways, TypeCorrect, PTL
=============================================================================
