---------------------------- MODULE AgentSessions ----------------------------
(***************************************************************************)
(* A session of an LLM agent, and the Trajectory the program makes of what *)
(* the session leaves: the line stream of Pi or Claude Code                *)
(* (common/utils/trajectory_parser.py), the trajectory file of an eddy     *)
(* agent or of a Harbor trial, or the message list of the LangGraph        *)
(* ReactAgent (system/langgraph/react_agent.py).                           *)
(*                                                                         *)
(* A session is a list of assistant turns.  A turn calls tools; each call  *)
(* is answered once the turn has ended, in any order.  Lines of a stream   *)
(* may be lost: cut, interleaved with other output, not JSON, or JSON that *)
(* is no event.  A parser consumes the lines in order, so it is run along  *)
(* with the session.  What turns say is left out: of a trajectory only the *)
(* tool calls, their answers and the errors are kept.                      *)
(***************************************************************************)
EXTENDS Integers, Sequences, FiniteSets, SequencesExt

CONSTANTS
  MaxCalls,           \* bounds of the model: tool calls of a session,
  MaxTurns,           \* turns of a session,
  MaxLost,            \* lines lost
  MaxAssistantTurns,  \* max_assistant_turns of the ReactAgent
  RecursionLimit      \* its recursion_limit

ASSUME SessionAssumption ==
  /\ MaxCalls \in Nat /\ MaxTurns \in Nat /\ MaxLost \in Nat
  /\ MaxAssistantTurns \in Nat /\ RecursionLimit \in Nat \ {0}

VARIABLES
  format,    \* what kind of session this is
  stage,     \* "ready" for a turn, "streaming" one, "tools", "alert", "ended",
             \* "over"; then "parsed", or "raised" if the parser did
  turns,     \* the turns: the calls, how the turn stopped, if it has output tokens
  answered,  \* calls whose result the agent got
  aborted,   \* whether the session is known to have ended on an error
  lost,      \* lines lost
  parser,    \* state of the stream parser
  steps,     \* graph steps of the ReactAgent
  result     \* the trajectory: spans with their tool calls, and errors

session == <<format, stage, turns, answered, aborted>>
vars == <<session, lost, parser, steps, result>>

Streams == {"pi", "claude"}
Files == {"eddy", "harbor"}
Formats == Streams \cup Files \cup {"react"}

\* A span of a model turn, or of the whole session (turn 0): its tool calls and
\* whether each has an output, and its stop reason, "none" if it has none.
Span(turn, calls, stop) == [turn |-> turn, calls |-> calls, stop |-> stop]
CallSpan(c, hasOutput) == [id |-> c, output |-> hasOutput]
CallSpans(ids, results) == [i \in DOMAIN ids |-> CallSpan(ids[i], ids[i] \in results)]

\* No model turn is open; no result waits for its call.
Idle == [open |-> 0, stop |-> "none", pending |-> <<>>, results |-> {}, spans |-> <<>>,
         output |-> FALSE, errors |-> FALSE, raised |-> FALSE]
NoResult == [spans |-> <<>>, errors |-> FALSE]

Init ==
  /\ format \in Formats
  /\ stage = "ready"
  /\ turns = <<>> /\ answered = {} /\ aborted = FALSE
  /\ lost = 0 /\ parser = Idle /\ steps = 1
  /\ result = NoResult

Turn == Len(turns)
Used == UNION {ToSet(turns[k].calls) : k \in 1..Turn}

(***************************************************************************)
(* parse_pi_json_output: one operator per event.  A turn's span is open    *)
(* from message_start to message_end; its calls are announced in between   *)
(* and named again by message_end.                                         *)
(***************************************************************************)
\* Mutant: the children stay pending for the next span.
flush_current_model_spanKeepsPending(p) ==
  IF p.open = 0 THEN p
  ELSE [p EXCEPT !.open = 0, !.stop = "none",
                 !.results = @ \ ToSet(p.pending),
                 !.spans = Append(@, Span(p.open, CallSpans(p.pending, p.results), p.stop))]

flush_current_model_span(p) ==
  IF p.open = 0 THEN [p EXCEPT !.pending = <<>>]
  ELSE [p EXCEPT !.open = 0, !.stop = "none", !.pending = <<>>,
                 !.results = @ \ ToSet(p.pending),
                 !.spans = Append(@, Span(p.open, CallSpans(p.pending, p.results), p.stop))]

message_start(p, turn) == [flush_current_model_span(p) EXCEPT !.open = turn]

toolcall_start(p, c) == IF p.open = 0 THEN p ELSE [p EXCEPT !.pending = Append(@, c)]

\* Calls in the content that are pending already are not added again.
AddCalls(pending, calls) ==
  LET added[i \in 0..Len(calls)] ==
        IF i = 0 THEN pending
        ELSE IF calls[i] \in ToSet(added[i - 1]) THEN added[i - 1]
        ELSE Append(added[i - 1], calls[i])
  IN  added[Len(calls)]

message_end(p, calls, stop, tokens) ==
  IF p.open = 0 THEN p
  ELSE flush_current_model_span(
         [p EXCEPT !.pending = AddCalls(@, calls), !.output = @ \/ tokens, !.stop = stop])

\* tool_execution_end, and the message_end of a toolResult
tool_result(p, c) == [p EXCEPT !.results = @ \cup {c}]

agent_end(p) == flush_current_model_span(p)

\* Results that came after their span was closed.
AttachLeft(p) ==
  [k \in DOMAIN p.spans |->
     [p.spans[k] EXCEPT !.calls =
        [i \in DOMAIN @ |-> CallSpan(@[i].id, @[i].output \/ @[i].id \in p.results)]]]

\* Mutant: an error the agent recovered from fails the session.
_collect_agent_errorsAny(spans, output) == \E k \in DOMAIN spans : spans[k].stop = "error"

\* The session failed if its last turn did, or if one did and none had output.
_collect_agent_errors(spans, output) ==
  /\ \E k \in DOMAIN spans : spans[k].stop = "error"
  /\ Last(spans).stop = "error" \/ ~output

parse_pi_json_output(p) ==
  LET q == flush_current_model_span(p)
  IN  [spans |-> AttachLeft(q), errors |-> _collect_agent_errors(AttachLeft(q), q.output)]

(***************************************************************************)
(* parse_stream_json: an assistant line is a whole turn, without a stop    *)
(* reason, and the last line of the session says whether it was aborted.   *)
(* A line that is JSON but no object raises.                               *)
(***************************************************************************)
assistant(p, turn, calls) ==
  [p EXCEPT !.results = @ \ ToSet(calls),
            !.spans = Append(@, Span(turn, CallSpans(calls, p.results), "none"))]

no_object(p) == [p EXCEPT !.raised = TRUE]

result_line(p, isError) == [p EXCEPT !.errors = @ \/ isError]

parse_stream_json(p) == [spans |-> AttachLeft(p), errors |-> p.errors]

(***************************************************************************)
(* The other formats are read when the session is over: one root span with *)
(* all calls below it, paired with the results by id.                      *)
(***************************************************************************)
Root(calls) == <<Span(0, CallSpans(calls, answered), "none")>>
CallsOf(ks) == FlattenSeq([i \in DOMAIN ks |-> turns[ks[i]].calls])
UsedTools(k) == turns[k].stop = "tool_use"

\* Every call there is counts, however its turn ended.  The status is that of
\* the last message that has one; a session without calls is an error as well.
parse_eddy_trajectory ==
  [spans |-> Root(CallsOf([k \in 1..Turn |-> k])), errors |-> aborted \/ Used = {}]

\* _parse_trajectory of the Harbor systems: the calls of a step count only
\* when it stopped to use tools.  Errors are not looked for.
_parse_trajectory ==
  [spans |-> Root(CallsOf(SelectSeq([k \in 1..Turn |-> k], UsedTools))), errors |-> FALSE]

\* A ReactAgent that raised has no messages to collect.
_collect_trajectory_from_messages ==
  IF aborted THEN [spans |-> <<>>, errors |-> TRUE]
  ELSE [spans |-> Root(CallsOf([k \in 1..Turn |-> k])), errors |-> FALSE]

(***************************************************************************)
(* The session.                                                            *)
(***************************************************************************)
\* A line is parsed, giving p, or lost.  What stands in its place is skipped;
\* but JSON that is no object makes parse_stream_json raise.
Line(p) ==
  \/ parser' = p /\ UNCHANGED lost
  \/ /\ lost < MaxLost /\ lost' = lost + 1
     /\ \/ UNCHANGED parser
        \/ format = "claude" /\ parser' = no_object(parser)

NoLine == UNCHANGED <<lost, parser>>

\* The ReactAgent may take another step of its graph.
GraphStep ==
  IF format = "react" THEN steps < RecursionLimit /\ steps' = steps + 1 ELSE UNCHANGED steps

StartTurn ==
  /\ stage = "ready" /\ Turn < MaxTurns
  /\ turns' = Append(turns, [calls |-> <<>>, stop |-> "none", tokens |-> FALSE])
  /\ stage' = "streaming"
  /\ GraphStep
  /\ IF format = "pi" THEN Line(message_start(parser, Turn + 1)) ELSE NoLine
  /\ UNCHANGED <<format, answered, aborted, result>>

Call ==
  /\ stage = "streaming" /\ Cardinality(Used) < MaxCalls
  /\ LET c == Cardinality(Used) + 1
     IN  /\ turns' = [turns EXCEPT ![Turn].calls = Append(@, c)]
         /\ IF format = "pi" THEN Line(toolcall_start(parser, c)) ELSE NoLine
  /\ UNCHANGED <<format, stage, answered, aborted, steps, result>>

\* A turn of Pi, of eddy or of Harbor may be cut short by an error; one of
\* Claude Code shows in the result line, one of the ReactAgent raises.  Whether
\* a turn had output, and was charged for it, only Pi's parser looks at.
EndTurn(stop, tokens) ==
  /\ stage = "streaming"
  /\ stop = "tool_use" => turns[Turn].calls # <<>>
  /\ stop = "end" => turns[Turn].calls = <<>>
  /\ stop = "error" => format \notin {"claude", "react"}
  /\ tokens => format = "pi"
  /\ turns' = [turns EXCEPT ![Turn] = [@ EXCEPT !.stop = stop, !.tokens = tokens]]
  /\ stage' = CASE stop = "end" -> "ended"
               [] stop = "error" -> "ready"
               [] stop = "tool_use" ->
                    IF format = "react" /\ Turn > MaxAssistantTurns THEN "alert" ELSE "tools"
  /\ CASE format = "pi" -> Line(message_end(parser, turns[Turn].calls, stop, tokens))
       [] format = "claude" -> Line(assistant(parser, Turn, turns[Turn].calls))
       [] OTHER -> NoLine
  /\ UNCHANGED <<format, answered, aborted, steps, result>>

\* Pi tells a result twice: tool_execution_end, and the message that carries it.
ToolResult(c) ==
  /\ stage = "tools"
  /\ c \in ToSet(turns[Turn].calls) \ answered
  /\ answered' = answered \cup {c}
  /\ CASE format = "pi" ->
            \E k \in 0..2 :
              /\ lost + k <= MaxLost /\ lost' = lost + k
              /\ parser' = IF k = 2 THEN parser ELSE tool_result(parser, c)
       [] format = "claude" -> Line(tool_result(parser, c))
       [] OTHER -> NoLine
  /\ UNCHANGED <<format, stage, turns, aborted, steps, result>>

ToolsDone ==
  /\ stage = "tools" /\ ToSet(turns[Turn].calls) \subseteq answered
  /\ stage' = "ready"
  /\ GraphStep
  /\ NoLine
  /\ UNCHANGED <<format, turns, answered, aborted, result>>

\* The calls of the turn stay unanswered, and the model is asked again.
max_turn_exceeded_alert ==
  /\ stage = "alert"
  /\ stage' = "ready"
  /\ GraphStep
  /\ NoLine
  /\ UNCHANGED <<format, turns, answered, aborted, result>>

\* The agent stops: it has its answer, or gave up after an error.  Claude Code
\* and eddy say how they ended; they may also stop for want of turns.
SessionEnds ==
  /\ \/ stage = "ended"
     \/ stage = "ready" /\ Turn > 0 /\ turns[Turn].stop = "error"
     \/ stage = "ready" /\ format \in {"claude", "eddy"}
  /\ stage' = "over"
  /\ GraphStep
  /\ \E failed \in IF format \notin {"claude", "eddy"} THEN {FALSE}
                    ELSE IF stage = "ended" THEN BOOLEAN ELSE {TRUE} :
       /\ aborted' = failed
       /\ CASE format = "pi" -> Line(agent_end(parser))
            [] format = "claude" -> Line(result_line(parser, failed))
            [] OTHER -> NoLine
  /\ UNCHANGED <<format, turns, answered, result>>

\* The process is killed, at its timeout for instance: the stream just stops.
Killed ==
  /\ format \in {"pi", "claude", "harbor"}
  /\ stage \notin {"over", "parsed", "raised"}
  /\ stage' = "over"
  /\ NoLine
  /\ UNCHANGED <<format, turns, answered, aborted, steps, result>>

\* The LLM fails after its retries, or the graph takes too many steps.
Raise ==
  /\ format = "react"
  /\ stage \notin {"over", "parsed", "raised"}
  /\ stage = "streaming" \/ steps = RecursionLimit
  /\ aborted' = TRUE
  /\ stage' = "over"
  /\ NoLine
  /\ UNCHANGED <<format, turns, answered, steps, result>>

Parse ==
  /\ stage = "over"
  /\ stage' = IF parser.raised THEN "raised" ELSE "parsed"
  /\ result' = IF parser.raised THEN NoResult
               ELSE CASE format = "pi" -> parse_pi_json_output(parser)
                      [] format = "claude" -> parse_stream_json(parser)
                      [] format = "eddy" -> parse_eddy_trajectory
                      [] format = "harbor" -> _parse_trajectory
                      [] format = "react" -> _collect_trajectory_from_messages
  /\ NoLine
  /\ UNCHANGED <<format, turns, answered, aborted, steps>>

Next ==
  \/ StartTurn \/ Call
  \/ \E stop \in {"tool_use", "end", "error"}, tokens \in BOOLEAN : EndTurn(stop, tokens)
  \/ \E c \in 1..MaxCalls : ToolResult(c)
  \/ ToolsDone \/ max_turn_exceeded_alert
  \/ SessionEnds \/ Killed \/ Raise \/ Parse

Spec == Init /\ [][Next]_vars

(***************************************************************************)
(* Properties.                                                             *)
(***************************************************************************)
\* One span tells turn k: its calls, each with an output if it was answered, and
\* how it stopped, which is not known of a turn of Claude Code.
ToldRight(k) ==
  LET its == {i \in DOMAIN result.spans : result.spans[i].turn = k}
  IN  /\ Cardinality(its) = 1
      /\ \A i \in its :
           /\ result.spans[i].calls = CallSpans(turns[k].calls, answered)
           /\ result.spans[i].stop = IF format = "pi" THEN turns[k].stop ELSE "none"

\* The turns a stream can tell: that of Pi has an unfinished turn as well.  Turns
\* end one after the other: only the last may be unfinished.
Ended == IF Turn > 0 /\ turns[Turn].stop = "none" THEN Turn - 1 ELSE Turn
Tellable == IF format = "pi" THEN 1..Turn ELSE 1..Ended

\* A line of an agent's stream that is cut, malformed or missing spoils the
\* telling of one turn at most: calls do not slip into another turn's span,
\* results reach their own call in whatever order they come, and with every
\* line read the trajectory is exactly the session (parse_pi_json_output,
\* parse_stream_json).  Only in place of a lost line of Claude Code can something
\* stand that makes the parser give up the whole trajectory.
LossContained ==
  /\ stage = "raised" => format = "claude" /\ lost > 0
  /\ stage = "parsed" /\ format \in Streams =>
       Cardinality({k \in Tellable : ~ToldRight(k)}) <= lost

\* A session that ended on an error, or had nothing but errors, is told as
\* failed, so that a half-finished mutation is not taken for a candidate; an
\* error the agent recovered from is not held against it, whatever lines are
\* lost a session without any error is never told as failed
\* (_collect_agent_errors; the result line of Claude Code; arun).
EndsInErrorIsTold ==
  LET erred == \E k \in 1..Turn : turns[k].stop = "error"
      wrote == \E k \in 1..Turn : turns[k].tokens
  IN  stage = "parsed" =>
        CASE format = "pi" ->
               /\ result.errors => erred
               /\ lost = 0 => (result.errors <=> erred /\ (turns[Turn].stop = "error" \/ ~wrote))
          [] format = "claude" ->
               /\ result.errors => aborted
               /\ lost = 0 => (aborted => result.errors)
          [] format \in {"eddy", "react"} -> aborted => result.errors
          [] OTHER -> TRUE
=============================================================================
