------------------------ MODULE AgentSessionsProofs ------------------------
(*****************************************************************************)
(* Proofs about AgentSessions, for any number of turns, calls and lost       *)
(* lines: how much of a trajectory a lost line spoils, and that a session    *)
(* that ended in an error is told as failed.                                 *)
(*****************************************************************************)
EXTENDS AgentSessions, FiniteSetTheorems, SequenceTheorems, TLAPS

(* What a session has been.                                                 *)
Stops == {"none", "tool_use", "end", "error"}
Stages == {"ready", "streaming", "tools", "alert", "ended", "over", "parsed", "raised"}
TurnRecord == [calls : Seq(Nat), stop : Stops, tokens : BOOLEAN]
SpanRecord == [turn : Nat, calls : Seq([id : Nat, output : BOOLEAN]), stop : Stops]
Parser == [open : Nat, stop : Stops, pending : Seq(Nat), results : SUBSET Nat,
           spans : Seq(SpanRecord), output : BOOLEAN, errors : BOOLEAN, raised : BOOLEAN]

(* No call belongs to two turns; only the last turn may be unfinished, and  *)
(* then none of its calls is answered and it was not charged for yet.       *)
History(ts, ans) ==
    /\ ts \in Seq(TurnRecord)
    /\ \A j, k \in DOMAIN ts : j # k => ToSet(ts[j].calls) \cap ToSet(ts[k].calls) = {}
    /\ \A k \in DOMAIN ts : ts[k].stop = "none" =>
         k = Len(ts) /\ ToSet(ts[k].calls) \cap ans = {} /\ ~ts[k].tokens

(* What the parser has made of it: its spans tell turns in their order, the *)
(* open one comes last, and what is pending was called since it was opened. *)
Follows(p, ts, ans) ==
    /\ p \in Parser /\ p.open \in 0 .. Len(ts) /\ p.results \subseteq ans
    /\ p.open = 0 => p.pending = <<>>
    /\ \A c \in ToSet(p.pending) : \E t \in DOMAIN ts : p.open <= t /\ c \in ToSet(ts[t].calls)
    /\ \A i \in DOMAIN p.spans : /\ p.spans[i].turn \in DOMAIN ts
                                 /\ p.open # 0 => p.spans[i].turn < p.open
    /\ \A i, j \in DOMAIN p.spans : i < j => p.spans[i].turn < p.spans[j].turn

(* An unfinished turn has no closed span.                                   *)
ClosedLate(p, ts) == \A i \in DOMAIN p.spans : ts[p.spans[i].turn].stop # "none"

(* A turn will be told right: its span is open and names its calls, or is   *)
(* closed and lacks nothing but results that are still to be attached.      *)
Told(stop) == IF format = "pi" THEN stop ELSE "none"
SpanRight(s, t, ans, results) ==
    /\ s.stop = Told(t.stop) /\ DOMAIN s.calls = DOMAIN t.calls
    /\ \A j \in DOMAIN t.calls :
         /\ s.calls[j].id = t.calls[j]
         /\ s.calls[j].output \/ t.calls[j] \in results <=> t.calls[j] \in ans
Closed(p, k, t, ans) ==
    \E i \in DOMAIN p.spans : p.spans[i].turn = k /\ SpanRight(p.spans[i], t, ans, p.results)
Open(p, k, t) == p.open = k /\ t.stop = "none" /\ p.pending = t.calls
Right(p, k, t, ans) == Open(p, k, t) \/ Closed(p, k, t, ans)
Spoiled(p, ts, ans, n) == {k \in 1 .. n : ~Right(p, k, ts[k], ans)}

(* The turns a parser had to tell so far; whether a span tells an error,    *)
(* whether a turn was one, and whether one had output.                      *)
Streamed == IF format = "pi" THEN Turn ELSE Ended
SomeError(p) == \E i \in DOMAIN p.spans : p.spans[i].stop = "error"
Erred == \E k \in DOMAIN turns : turns[k].stop = "error"
Wrote == \E k \in DOMAIN turns : turns[k].tokens

(* The session: the calls are numbered in their order, and every turn but   *)
(* the one being streamed has ended, unless the session was cut short.      *)
SessionOK ==
    /\ format \in Formats /\ stage \in Stages /\ lost \in Nat /\ aborted \in BOOLEAN
    /\ History(turns, answered) /\ answered \subseteq Used
    /\ \E n \in Nat : Used = 1 .. n
    /\ stage = "streaming" => Turn > 0 /\ turns[Turn].stop = "none"
    /\ stage \in {"ready", "tools", "alert", "ended"} =>
         \A k \in DOMAIN turns : turns[k].stop # "none"
    /\ stage \in {"tools", "alert", "ended"} => Turn > 0
    /\ aborted => stage \in {"over", "parsed", "raised"}

(* No more turns are spoiled than lines were lost.                          *)
ParserOK ==
    /\ Follows(parser, turns, answered) /\ ClosedLate(parser, turns) /\ parser.stop = "none"
    /\ format = "claude" => parser.open = 0
    /\ Cardinality(Spoiled(parser, turns, answered, Streamed)) <= lost

(* What is known of errors and of output is true, and with every line read  *)
(* nothing of it is missing.                                                *)
ErrorsOK ==
    /\ parser.errors => aborted
    /\ format = "claude" /\ lost = 0 /\ aborted => parser.errors
    /\ SomeError(parser) => Erred
    /\ format = "pi" => /\ parser.output => Wrote
                        /\ lost = 0 /\ Wrote => parser.output

(* Only a lost line of Claude Code makes a parser give up.                  *)
RaisedOK == parser.raised => format = "claude" /\ lost > 0

(* The inductive invariant.                                                 *)
IInv ==
    /\ SessionOK
    /\ format \in Streams => ParserOK /\ ErrorsOK
    /\ LossContained /\ EndsInErrorIsTold

-----------------------------------------------------------------------------
(* Sequences.                                                               *)

(* What Append does to a sequence and to its elements.                      *)
LEMMA AppendAdds ==
    ASSUME NEW S, NEW s \in Seq(S), NEW x \in S
    PROVE  /\ Append(s, x) \in Seq(S) /\ Len(Append(s, x)) = Len(s) + 1
           /\ DOMAIN Append(s, x) = 1 .. Len(s) + 1 /\ DOMAIN s = 1 .. Len(s)
           /\ \A i \in DOMAIN s : Append(s, x)[i] = s[i]
           /\ Append(s, x)[Len(s) + 1] = x
           /\ ToSet(Append(s, x)) = ToSet(s) \cup {x}
<1>1. /\ Append(s, x) \in Seq(S) /\ Len(Append(s, x)) = Len(s) + 1 /\ Len(s) \in Nat
      /\ DOMAIN Append(s, x) = 1 .. Len(s) + 1 /\ DOMAIN s = 1 .. Len(s)
      /\ \A i \in 1 .. Len(s) : Append(s, x)[i] = s[i]
      /\ Append(s, x)[Len(s) + 1] = x
  OBVIOUS
<1>2. ToSet(Append(s, x)) = ToSet(s) \cup {x}
  <2> DEFINE t == Append(s, x)
  <2>1. /\ DOMAIN t = 1 .. Len(s) + 1 /\ t[Len(s) + 1] = x /\ Len(s) \in Nat
        /\ \A i \in 1 .. Len(s) : t[i] = s[i]
    BY <1>1
  <2> HIDE DEF t
  <2>2. ToSet(t) \subseteq ToSet(s) \cup {x}
    BY <1>1, <2>1 DEF ToSet
  <2>3. ToSet(s) \cup {x} \subseteq ToSet(t)
    BY <1>1, <2>1 DEF ToSet
  <2> QED
    BY <2>2, <2>3 DEF t
<1> QED
  BY <1>1, <1>2

-----------------------------------------------------------------------------
(* The calls of message_end.                                                *)

(* A set of natural numbers has a least element.                            *)
LEMMA Least ==
    ASSUME NEW T \in SUBSET Nat, T # {}
    PROVE  \E x \in T : \A y \in T : x <= y
<1> DEFINE less == {q \in Nat \X Nat : q[1] < q[2]}
<1>1. IsWellFoundedOn(less, Nat)
  BY NatLessThanWellFounded DEF OpToRel
<1>2. PICK x \in T : \A y \in T : <<y, x>> \notin less
  <2> HIDE DEF less
  <2> QED
    BY <1>1, WFMin
<1>3. \A y \in T : ~(y < x)
  BY <1>2
<1> QED
  BY <1>3

(* The loop over the content of a message, from one call to the next.       *)
AddStep(s, cs, g, i) ==
    IF i = 0 THEN s
    ELSE IF cs[i] \in ToSet(g[i - 1]) THEN g[i - 1]
    ELSE Append(g[i - 1], cs[i])
AddLoop(s, cs, n, g) == g = [i \in 0 .. n |-> AddStep(s, cs, g, i)]

(* There is such a function: a least n without one would have one.          *)
LEMMA AddLoopExists ==
    ASSUME NEW s, NEW cs, NEW m \in Nat
    PROVE  \E g : AddLoop(s, cs, m, g)
<1> DEFINE T == {n \in Nat : ~\E g : AddLoop(s, cs, n, g)}
<1> SUFFICES ASSUME T # {} PROVE FALSE
  OBVIOUS
<1>1. PICK n \in T : \A k \in T : n <= k
  <2> HIDE DEF T
  <2>1. T \in SUBSET Nat
    BY DEF T
  <2> QED
    BY <2>1, Least
<1>2. n # 0
  <2> DEFINE g == [i \in 0 .. 0 |-> s]
  <2>1. AddLoop(s, cs, 0, g)
    BY DEF AddLoop, AddStep
  <2> QED
    BY <2>1
<1>3. n - 1 \in Nat /\ n - 1 \notin T
  BY <1>1, <1>2
<1>4. PICK g : AddLoop(s, cs, n - 1, g)
  BY <1>3
<1> DEFINE h == [i \in 0 .. n |-> AddStep(s, cs, g, i)]
<1>5. \A i \in 0 .. n - 1 : h[i] = g[i]
  <2> TAKE i \in 0 .. n - 1
  <2>1. i \in 0 .. n
    BY <1>3
  <2>2. h[i] = AddStep(s, cs, g, i)
    BY <2>1
  <2>3. g[i] = AddStep(s, cs, g, i)
    BY <1>4 DEF AddLoop
  <2> QED
    BY <2>2, <2>3
<1>6. \A i \in 0 .. n : AddStep(s, cs, g, i) = AddStep(s, cs, h, i)
  <2> HIDE DEF h
  <2> TAKE i \in 0 .. n
  <2>1. i = 0 \/ i - 1 \in 0 .. n - 1
    BY <1>3
  <2> QED
    BY <1>5, <2>1 DEF AddStep
<1>7. AddLoop(s, cs, n, h)
  BY <1>6 DEF AddLoop
<1> QED
  BY <1>1, <1>7

(* Of the calls those are added that are not pending yet, and none else.    *)
LEMMA AddCallsAdds ==
    ASSUME NEW s \in Seq(Nat), NEW cs \in Seq(Nat)
    PROVE  /\ AddCalls(s, cs) \in Seq(Nat)
           /\ ToSet(AddCalls(s, cs)) \subseteq ToSet(s) \cup ToSet(cs)
           /\ ToSet(cs) \subseteq ToSet(s) => AddCalls(s, cs) = s
<1> DEFINE g == CHOOSE g : AddLoop(s, cs, Len(cs), g)
           Fine(i) == /\ g[i] \in Seq(Nat) /\ ToSet(g[i]) \subseteq ToSet(s) \cup ToSet(cs)
                      /\ ToSet(cs) \subseteq ToSet(s) => g[i] = s
           T == {i \in 0 .. Len(cs) : ~Fine(i)}
<1>1. AddLoop(s, cs, Len(cs), g)
  <2>1. Len(cs) \in Nat
    OBVIOUS
  <2>2. \E h : AddLoop(s, cs, Len(cs), h)
    BY <2>1, AddLoopExists
  <2> QED
    BY <2>2
<1>2. AddCalls(s, cs) = g[Len(cs)]
  BY DEF AddCalls, AddLoop, AddStep
<1> HIDE DEF g
<1>3. \A i \in 0 .. Len(cs) : g[i] = AddStep(s, cs, g, i)
  BY <1>1 DEF AddLoop
<1>4. T = {}
  <2> SUFFICES ASSUME T # {} PROVE FALSE
    OBVIOUS
  <2> HIDE DEF Fine
  <2>1. PICK i \in T : \A k \in T : i <= k
    <3>1. T \in SUBSET Nat
      OBVIOUS
    <3> HIDE DEF T
    <3> QED
      BY <3>1, Least
  <2>2. i # 0
    <3>1. Fine(0)
      BY <1>3 DEF AddStep, Fine
    <3> QED
      BY <3>1
  <2>3. i - 1 \in 0 .. Len(cs) /\ Fine(i - 1) /\ i \in DOMAIN cs
    BY <2>1, <2>2
  <2>4. CASE cs[i] \in ToSet(g[i - 1])
    <3>1. g[i] = g[i - 1]
      BY <1>3, <2>2, <2>4 DEF AddStep
    <3> QED
      BY <2>3, <3>1 DEF Fine
  <2>5. CASE cs[i] \notin ToSet(g[i - 1])
    <3>1. i \in 0 .. Len(cs) /\ i \in 1 .. Len(cs) /\ DOMAIN cs = 1 .. Len(cs)
      BY <2>1, <2>2
    <3>2. g[i] = Append(g[i - 1], cs[i])
      BY <1>3, <2>2, <2>5, <3>1 DEF AddStep
    <3>3. cs[i] \in ToSet(cs) /\ cs[i] \in Nat
      BY <3>1 DEF ToSet
    <3>4. g[i] = Append(g[i - 1], cs[i]) /\ cs[i] \in ToSet(cs) /\ cs[i] \in Nat
      BY <3>2, <3>3
    <3>5. ToSet(Append(g[i - 1], cs[i])) = ToSet(g[i - 1]) \cup {cs[i]}
      BY <2>3, AppendAdds, <3>4 DEF Fine
    <3>6. Fine(i)
      BY <2>3, <2>5, <3>4, <3>5 DEF Fine
    <3> QED
      BY <3>6
  <2> QED
    BY <2>4, <2>5
<1> QED
  BY <1>2, <1>4

-----------------------------------------------------------------------------
(* The parser and the session.                                              *)

(* Every call span is that of one call.                                     *)
LEMMA CallSpansAre ==
    ASSUME NEW ids \in Seq(Nat), NEW results
    PROVE  /\ CallSpans(ids, results) \in Seq([id : Nat, output : BOOLEAN])
           /\ DOMAIN CallSpans(ids, results) = DOMAIN ids
           /\ \A j \in DOMAIN ids : /\ CallSpans(ids, results)[j].id = ids[j]
                                    /\ CallSpans(ids, results)[j].output <=> ids[j] \in results
<1>1. DOMAIN ids = 1 .. Len(ids) /\ Len(ids) \in Nat /\ \A j \in 1 .. Len(ids) : ids[j] \in Nat
  OBVIOUS
<1>2. CallSpans(ids, results) = [j \in 1 .. Len(ids) |-> CallSpan(ids[j], ids[j] \in results)]
  BY <1>1 DEF CallSpans
<1>3. \A j \in 1 .. Len(ids) : CallSpan(ids[j], ids[j] \in results) \in [id : Nat, output : BOOLEAN]
  BY <1>1 DEF CallSpan
<1>4. CallSpans(ids, results) \in [1 .. Len(ids) -> [id : Nat, output : BOOLEAN]]
  BY <1>2, <1>3
<1>5. CallSpans(ids, results) \in Seq([id : Nat, output : BOOLEAN])
  <2> DEFINE cs == CallSpans(ids, results)
             R == [id : Nat, output : BOOLEAN]
             n == Len(ids)
  <2>1. n \in Nat /\ cs \in [1 .. n -> R]
    BY <1>1, <1>4
  <2> HIDE DEF cs, R, n
  <2>2. cs \in Seq(R)
    BY <2>1, SeqDef
  <2> QED
    BY <2>2 DEF cs, R
<1>6. \A j \in DOMAIN ids : CallSpans(ids, results)[j] = CallSpan(ids[j], ids[j] \in results)
  BY <1>1, <1>2
<1>7. DOMAIN CallSpans(ids, results) = DOMAIN ids
  BY <1>1, <1>2
<1> QED
  BY <1>5, <1>6, <1>7 DEF CallSpan

(* A call belongs to one turn.                                              *)
LEMMA OneTurn ==
    ASSUME NEW ts, NEW ans, History(ts, ans), NEW j \in DOMAIN ts, NEW k \in DOMAIN ts,
           NEW c \in ToSet(ts[j].calls), c \in ToSet(ts[k].calls)
    PROVE  j = k
  BY DEF History

(* A closed span is appended: those before it are as right as they were,    *)
(* and it is right itself if it names the calls of its turn before any of   *)
(* them was answered.                                                       *)
LEMMA AddSpan ==
    ASSUME NEW ts, NEW ans, History(ts, ans), NEW p, Follows(p, ts, ans),
           NEW q \in Parser, NEW s \in SpanRecord, NEW ids \in Seq(Nat),
           s.turn \in DOMAIN ts, \A i \in DOMAIN p.spans : p.spans[i].turn < s.turn,
           s.calls = CallSpans(ids, p.results),
           \A c \in ToSet(ids) : \E t \in DOMAIN ts : s.turn <= t /\ c \in ToSet(ts[t].calls),
           q.open = 0, q.pending = <<>>, q.spans = Append(p.spans, s),
           q.results = p.results \ ToSet(ids)
    PROVE  /\ Follows(q, ts, ans)
           /\ \A k \in DOMAIN ts : Closed(p, k, ts[k], ans) => Closed(q, k, ts[k], ans)
           /\ ids = ts[s.turn].calls /\ s.stop = Told(ts[s.turn].stop) /\ ToSet(ids) \cap ans = {}
                => Closed(q, s.turn, ts[s.turn], ans)
           /\ ClosedLate(p, ts) /\ ts[s.turn].stop # "none" => ClosedLate(q, ts)
<1> DEFINE n == Len(p.spans)
<1>1. /\ p.spans \in Seq(SpanRecord) /\ n \in Nat /\ DOMAIN p.spans = 1 .. n
      /\ DOMAIN q.spans = 1 .. n + 1 /\ q.spans[n + 1] = s
      /\ \A i \in 1 .. n : q.spans[i] = p.spans[i]
  BY AppendAdds DEF Follows, Parser
<1> HIDE DEF n
<1>2. \A i \in 1 .. n : p.spans[i].turn \in DOMAIN ts /\ p.spans[i].turn < s.turn
  BY <1>1 DEF Follows
<1>3. Follows(q, ts, ans)
  <2>1. \A i \in DOMAIN q.spans : q.spans[i].turn \in DOMAIN ts
    BY <1>1, <1>2
  <2>2. \A i, j \in DOMAIN q.spans : i < j => q.spans[i].turn < q.spans[j].turn
    <3> SUFFICES ASSUME NEW i \in 1 .. n + 1, NEW j \in 1 .. n + 1, i < j
                 PROVE  q.spans[i].turn < q.spans[j].turn
      BY <1>1
    <3>1. i \in 1 .. n
      BY <1>1
    <3>2. CASE j = n + 1
      BY <1>1, <1>2, <3>1, <3>2
    <3>3. CASE j # n + 1
      <4>1. j \in 1 .. n
        BY <1>1, <3>3
      <4> QED
        BY <1>1, <3>1, <4>1 DEF Follows
    <3> QED
      BY <3>2, <3>3
  <2>3. ToSet(q.pending) = {}
    BY DEF ToSet
  <2>4. 0 \in 0 .. Len(ts)
    BY DEF History
  <2> QED
    BY <2>1, <2>2, <2>3, <2>4 DEF Follows
<1>4. ASSUME NEW k \in DOMAIN ts, Closed(p, k, ts[k], ans)
      PROVE  Closed(q, k, ts[k], ans)
  <2>1. PICK i \in DOMAIN p.spans : p.spans[i].turn = k /\ SpanRight(p.spans[i], ts[k], ans, p.results)
    BY <1>4 DEF Closed
  <2>2. k < s.turn /\ k \in Nat /\ s.turn \in Nat
    <3>1. k < s.turn
      BY <1>1, <1>2, <2>1
    <3>2. s.turn \in Nat
      BY DEF SpanRecord
    <3>3. k \in Nat
      BY DEF History
    <3> QED
      BY <3>1, <3>2, <3>3
  <2>3. ts[k].calls \in Seq(Nat)
    <3>1. ts \in Seq(TurnRecord)
      BY DEF History
    <3>2. ts[k] \in TurnRecord
      BY <3>1
    <3> QED
      BY <3>2 DEF TurnRecord
  <2>4. \A j \in DOMAIN ts[k].calls : ts[k].calls[j] \notin ToSet(ids)
    <3> SUFFICES ASSUME NEW j \in DOMAIN ts[k].calls, ts[k].calls[j] \in ToSet(ids) PROVE FALSE
      OBVIOUS
    <3>1. PICK t \in DOMAIN ts : s.turn <= t /\ ts[k].calls[j] \in ToSet(ts[t].calls)
      OBVIOUS
    <3>2. ts[k].calls[j] \in ToSet(ts[k].calls)
      BY <2>3 DEF ToSet
    <3>3. t = k
      BY <3>1, <3>2, OneTurn
    <3> QED
      BY <2>2, <3>1, <3>3
  <2>5. SpanRight(q.spans[i], ts[k], ans, q.results)
    BY <1>1, <2>1, <2>4 DEF SpanRight
  <2> QED
    BY <1>1, <2>1, <2>5 DEF Closed
<1>5. ASSUME ids = ts[s.turn].calls, s.stop = Told(ts[s.turn].stop), ToSet(ids) \cap ans = {}
      PROVE  Closed(q, s.turn, ts[s.turn], ans)
  <2>1. \A j \in DOMAIN ids : ids[j] \in ToSet(ids)
    BY DEF ToSet
  <2>2. \A j \in DOMAIN ids : ids[j] \notin ans /\ ids[j] \notin p.results /\ ids[j] \notin q.results
    BY <1>5, <2>1 DEF Follows
  <2>3. SpanRight(s, ts[s.turn], ans, q.results)
    BY <1>5, <2>2, CallSpansAre DEF SpanRight
  <2>4. n + 1 \in 1 .. n + 1
    BY <1>1
  <2> QED
    BY <1>1, <2>3, <2>4 DEF Closed
<1>6. ASSUME ClosedLate(p, ts), ts[s.turn].stop # "none"
      PROVE  ClosedLate(q, ts)
  <2>1. \A i \in 1 .. n + 1 : i \in 1 .. n \/ i = n + 1
    BY <1>1
  <2> QED
    BY <1>1, <1>6, <2>1 DEF ClosedLate
<1> QED
  BY <1>3, <1>4, <1>5, <1>6

(* The open span, if there is one, is closed.                               *)
LEMMA Flushes ==
    ASSUME NEW ts, NEW ans, History(ts, ans), NEW p, Follows(p, ts, ans),
           p.open = 0 => p.stop = "none",
           NEW q, q = flush_current_model_span(p)
    PROVE  /\ Follows(q, ts, ans) /\ q.open = 0 /\ q.stop = "none"
           /\ q.output = p.output /\ q.errors = p.errors
           /\ \A k \in DOMAIN ts : Closed(p, k, ts[k], ans) => Closed(q, k, ts[k], ans)
           /\ p.open # 0 /\ p.pending = ts[p.open].calls /\ p.stop = Told(ts[p.open].stop)
              /\ ToSet(p.pending) \cap ans = {} => Closed(q, p.open, ts[p.open], ans)
           /\ ClosedLate(p, ts) /\ (p.open # 0 => ts[p.open].stop # "none") => ClosedLate(q, ts)
           /\ SomeError(q) => (p.open # 0 /\ p.stop = "error") \/ SomeError(p)
<1>1. p \in Parser
  BY DEF Follows
<1>2. CASE p.open = 0
  <2>1. /\ q = [p EXCEPT !.pending = <<>>] /\ p.pending = <<>>
    BY <1>2 DEF flush_current_model_span, Follows
  <2>2. q = p
    BY <1>1, <2>1 DEF Parser
  <2> QED
    BY <1>2, <2>2
<1>3. CASE p.open # 0
  <2> DEFINE s == Span(p.open, CallSpans(p.pending, p.results), p.stop)
  <2>1. /\ q = [p EXCEPT !.open = 0, !.stop = "none", !.pending = <<>>,
                         !.results = p.results \ ToSet(p.pending), !.spans = Append(p.spans, s)]
    BY <1>3 DEF flush_current_model_span
  <2>2. p.open \in DOMAIN ts /\ p.open \in Nat /\ p.pending \in Seq(Nat) /\ p.stop \in Stops
    BY <1>1, <1>3 DEF Follows, Parser, History
  <2>3. s \in SpanRecord
    BY <2>2, CallSpansAre DEF Span, SpanRecord
  <2>4. s.turn = p.open /\ s.stop = p.stop /\ s.calls = CallSpans(p.pending, p.results)
    BY DEF Span
  <2> HIDE DEF s
  <2>5. Append(p.spans, s) \in Seq(SpanRecord)
    BY <1>1, <2>3, AppendAdds DEF Parser
  <2>6. p.results \ ToSet(p.pending) \in SUBSET Nat
    BY <1>1 DEF Parser
  <2>7. <<>> \in Seq(Nat) /\ "none" \in Stops /\ 0 \in Nat
    BY DEF Stops
  <2>8. /\ q \in Parser /\ q.open = 0 /\ q.stop = "none" /\ q.pending = <<>>
        /\ q.results = p.results \ ToSet(p.pending) /\ q.spans = Append(p.spans, s)
        /\ q.output = p.output /\ q.errors = p.errors
    BY <1>1, <2>1, <2>5, <2>6, <2>7 DEF Parser
  <2>9. \A i \in DOMAIN p.spans : p.spans[i].turn < s.turn
    BY <1>3, <2>4 DEF Follows
  <2>10. \A c \in ToSet(p.pending) : \E t \in DOMAIN ts : s.turn <= t /\ c \in ToSet(ts[t].calls)
    BY <2>4 DEF Follows
  <2>11. /\ Follows(q, ts, ans)
         /\ \A k \in DOMAIN ts : Closed(p, k, ts[k], ans) => Closed(q, k, ts[k], ans)
         /\ p.pending = ts[s.turn].calls /\ s.stop = Told(ts[s.turn].stop) /\ ToSet(p.pending) \cap ans = {}
              => Closed(q, s.turn, ts[s.turn], ans)
         /\ ClosedLate(p, ts) /\ ts[s.turn].stop # "none" => ClosedLate(q, ts)
    BY <2>2, <2>3, <2>4, <2>8, <2>9, <2>10, AddSpan
  <2>12. SomeError(q) => p.stop = "error" \/ SomeError(p)
    <3>1. /\ DOMAIN q.spans = 1 .. Len(p.spans) + 1 /\ DOMAIN p.spans = 1 .. Len(p.spans)
          /\ \A i \in DOMAIN p.spans : q.spans[i] = p.spans[i]
          /\ q.spans[Len(p.spans) + 1] = s /\ Len(p.spans) \in Nat
      BY <1>1, <2>3, <2>8, AppendAdds DEF Parser
    <3>2. \A i \in DOMAIN q.spans : i \in DOMAIN p.spans \/ i = Len(p.spans) + 1
      BY <3>1
    <3> QED
      BY <2>4, <3>1, <3>2 DEF SomeError
  <2> QED
    BY <1>3, <2>4, <2>8, <2>11, <2>12
<1> QED
  BY <1>2, <1>3

(* The session goes on and the parser does not see it: the telling of one   *)
(* turn at most is spoiled.                                                 *)
LEMMA Moves ==
    ASSUME NEW ts, NEW ans, History(ts, ans), NEW p, Follows(p, ts, ans), ClosedLate(p, ts),
           NEW ts2, NEW ans2, History(ts2, ans2), NEW m, Len(ts) <= Len(ts2),
           \A k \in DOMAIN ts : /\ ToSet(ts[k].calls) \subseteq ToSet(ts2[k].calls)
                                /\ ts[k].stop # "none" => ts2[k].stop # "none"
                                /\ k # m => ts2[k] = ts[k],
           ans \subseteq ans2,
           \A c \in ans2 \ ans : m \in DOMAIN ts2 /\ c \in ToSet(ts2[m].calls)
    PROVE  /\ Follows(p, ts2, ans2) /\ ClosedLate(p, ts2)
           /\ \A k \in DOMAIN ts : k # m /\ Right(p, k, ts[k], ans) => Right(p, k, ts2[k], ans2)
<1>1. DOMAIN ts = 1 .. Len(ts) /\ DOMAIN ts2 = 1 .. Len(ts2) /\ Len(ts) \in Nat /\ Len(ts2) \in Nat
  BY DEF History
<1>2. DOMAIN ts \subseteq DOMAIN ts2 /\ 0 .. Len(ts) \subseteq 0 .. Len(ts2)
  BY <1>1
<1>3. Follows(p, ts2, ans2)
  <2>1. \A c \in ToSet(p.pending) : \E t \in DOMAIN ts2 : p.open <= t /\ c \in ToSet(ts2[t].calls)
    BY <1>2 DEF Follows
  <2> QED
    BY <1>2, <2>1 DEF Follows
<1>4. ClosedLate(p, ts2)
  BY DEF ClosedLate, Follows
<1>5. ASSUME NEW k \in DOMAIN ts, k # m, Right(p, k, ts[k], ans)
      PROVE  Right(p, k, ts2[k], ans2)
  <2>1. ts2[k] = ts[k] /\ k \in DOMAIN ts2
    BY <1>2, <1>5
  <2>2. \A j \in DOMAIN ts[k].calls : ts[k].calls[j] \in ans <=> ts[k].calls[j] \in ans2
    <3> SUFFICES ASSUME NEW j \in DOMAIN ts[k].calls, ts[k].calls[j] \in ans2 \ ans PROVE FALSE
      OBVIOUS
    <3>1. m \in DOMAIN ts2 /\ ts[k].calls[j] \in ToSet(ts2[m].calls)
      OBVIOUS
    <3>2. ts[k].calls[j] \in ToSet(ts2[k].calls)
      BY <2>1 DEF ToSet, History, TurnRecord
    <3>3. k = m
      BY <2>1, <3>1, <3>2, OneTurn
    <3> QED
      BY <1>5, <3>3
  <2>3. CASE Open(p, k, ts[k])
    BY <2>1, <2>3 DEF Open, Right
  <2>4. CASE Closed(p, k, ts[k], ans)
    <3>1. PICK i \in DOMAIN p.spans : p.spans[i].turn = k /\ SpanRight(p.spans[i], ts[k], ans, p.results)
      BY <2>4 DEF Closed
    <3>2. SpanRight(p.spans[i], ts2[k], ans2, p.results)
      BY <2>1, <2>2, <3>1 DEF SpanRight
    <3> QED
      BY <3>1, <3>2 DEF Closed, Right
  <2> QED
    BY <1>5, <2>3, <2>4 DEF Right
<1> QED
  BY <1>3, <1>4, <1>5

-----------------------------------------------------------------------------
(* The steps of a session.                                                  *)

(* What becomes of the turns.                                               *)
Started(ts, ts2) == ts2 = Append(ts, [calls |-> <<>>, stop |-> "none", tokens |-> FALSE])
Called(ts, m, c, ts2) == ts2 = [ts EXCEPT ![m].calls = Append(@, c)]
Stopped(ts, m, stop, tokens, ts2) ==
    ts2 = [ts EXCEPT ![m] = [@ EXCEPT !.stop = stop, !.tokens = tokens]]

(* A turn is started when those before it have ended.                       *)
LEMMA StartsTurn ==
    ASSUME NEW ts, NEW ans, History(ts, ans), \A k \in DOMAIN ts : ts[k].stop # "none",
           NEW ts2, Started(ts, ts2)
    PROVE  /\ History(ts2, ans) /\ Len(ts2) = Len(ts) + 1 /\ Len(ts) \in Nat
           /\ DOMAIN ts = 1 .. Len(ts) /\ DOMAIN ts2 = 1 .. Len(ts) + 1
           /\ \A k \in DOMAIN ts : ts2[k] = ts[k]
           /\ ts2[Len(ts) + 1] = [calls |-> <<>>, stop |-> "none", tokens |-> FALSE]
<1> DEFINE n == Len(ts)
           t == [calls |-> <<>>, stop |-> "none", tokens |-> FALSE]
<1>1. ts \in Seq(TurnRecord) /\ n \in Nat
  BY DEF History
<1>2. t \in TurnRecord
  BY DEF TurnRecord, Stops
<1>3. t.calls = <<>> /\ t.stop = "none" /\ ~t.tokens
  OBVIOUS
<1> HIDE DEF t
<1>4. /\ ts2 \in Seq(TurnRecord) /\ Len(ts2) = n + 1 /\ DOMAIN ts2 = 1 .. n + 1 /\ DOMAIN ts = 1 .. n
      /\ \A k \in 1 .. n : ts2[k] = ts[k]
      /\ ts2[n + 1] = t
  <2>1. ts2 = Append(ts, t)
    BY DEF t, Started
  <2> QED
    BY <1>1, <1>2, <2>1, AppendAdds
<1> HIDE DEF n
<1>5. ToSet(t.calls) = {}
  BY <1>3 DEF ToSet
<1>6. \A k \in 1 .. n + 1 : k \in 1 .. n \/ k = n + 1
  BY <1>1
<1>7. \A j, k \in DOMAIN ts2 : j # k => ToSet(ts2[j].calls) \cap ToSet(ts2[k].calls) = {}
  <2>1. \A j, k \in 1 .. n : j # k => ToSet(ts[j].calls) \cap ToSet(ts[k].calls) = {}
    BY <1>4 DEF History
  <2> QED
    BY <1>4, <1>5, <1>6, <2>1
<1>8. \A k \in DOMAIN ts2 : ts2[k].stop = "none" =>
        k = Len(ts2) /\ ToSet(ts2[k].calls) \cap ans = {} /\ ~ts2[k].tokens
  BY <1>3, <1>4, <1>5, <1>6
<1>9. History(ts2, ans)
  BY <1>4, <1>7, <1>8 DEF History
<1> QED
  BY <1>1, <1>4, <1>9 DEF n, t

(* One turn is replaced.                                                    *)
LEMMA ReplacesTurn ==
    ASSUME NEW ts \in Seq(TurnRecord), NEW m \in DOMAIN ts, NEW t \in TurnRecord,
           NEW ts2, ts2 = [ts EXCEPT ![m] = t]
    PROVE  /\ ts2 \in Seq(TurnRecord) /\ Len(ts2) = Len(ts) /\ DOMAIN ts2 = DOMAIN ts /\ ts2[m] = t
           /\ \A k \in DOMAIN ts : k # m => ts2[k] = ts[k]
  OBVIOUS

(* The last turn makes a call no turn has made.                             *)
LEMMA MakesCall ==
    ASSUME NEW ts, NEW ans, History(ts, ans), NEW m \in DOMAIN ts, m = Len(ts), ts[m].stop = "none",
           NEW c \in Nat, c \notin ans, \A k \in DOMAIN ts : c \notin ToSet(ts[k].calls),
           NEW ts2, Called(ts, m, c, ts2)
    PROVE  /\ History(ts2, ans) /\ Len(ts2) = Len(ts) /\ DOMAIN ts2 = DOMAIN ts
           /\ \A k \in DOMAIN ts : k # m => ts2[k] = ts[k]
           /\ ts2[m].calls = Append(ts[m].calls, c) /\ ts2[m].stop = "none" /\ ts2[m].tokens = ts[m].tokens
           /\ ts[m].calls \in Seq(Nat)
           /\ ToSet(ts2[m].calls) = ToSet(ts[m].calls) \cup {c}
<1>1. ts \in Seq(TurnRecord) /\ ts[m] \in TurnRecord
  BY DEF History
<1>2. ts[m].calls \in Seq(Nat) /\ ts[m] = [calls |-> ts[m].calls, stop |-> "none", tokens |-> ts[m].tokens]
  BY <1>1 DEF TurnRecord
<1>3. /\ Append(ts[m].calls, c) \in Seq(Nat)
      /\ ToSet(Append(ts[m].calls, c)) = ToSet(ts[m].calls) \cup {c}
  <2> DEFINE cs == ts[m].calls
  <2>1. cs \in Seq(Nat)
    BY <1>2
  <2> HIDE DEF cs
  <2>2. Append(cs, c) \in Seq(Nat) /\ ToSet(Append(cs, c)) = ToSet(cs) \cup {c}
    BY <2>1, AppendAdds
  <2> QED
    BY <2>2 DEF cs
<1> DEFINE t == [ts[m] EXCEPT !.calls = Append(ts[m].calls, c)]
<1>4. t \in TurnRecord /\ t.calls = Append(ts[m].calls, c) /\ t.stop = "none" /\ t.tokens = ts[m].tokens
  BY <1>1, <1>3 DEF TurnRecord
<1>5. ts2 = [ts EXCEPT ![m] = t]
  BY DEF Called
<1> HIDE DEF t
<1>6. /\ ts2 \in Seq(TurnRecord) /\ Len(ts2) = Len(ts) /\ DOMAIN ts2 = DOMAIN ts /\ ts2[m] = t
      /\ \A k \in DOMAIN ts : k # m => ts2[k] = ts[k]
  BY <1>1, <1>4, <1>5, ReplacesTurn
<1>7. \A j, k \in DOMAIN ts2 : j # k => ToSet(ts2[j].calls) \cap ToSet(ts2[k].calls) = {}
  <2>1. \A j, k \in DOMAIN ts : j # k => ToSet(ts[j].calls) \cap ToSet(ts[k].calls) = {}
    BY DEF History
  <2>2. \A k \in DOMAIN ts : k # m => ToSet(ts2[k].calls) = ToSet(ts[k].calls)
    BY <1>6
  <2>3. ToSet(ts2[m].calls) = ToSet(ts[m].calls) \cup {c}
    BY <1>3, <1>4, <1>6
  <2>4. \A k \in DOMAIN ts : k # m => ToSet(ts2[m].calls) \cap ToSet(ts2[k].calls) = {}
    BY <2>1, <2>2, <2>3
  <2>5. \A j, k \in DOMAIN ts : j # m /\ k # m /\ j # k => ToSet(ts2[j].calls) \cap ToSet(ts2[k].calls) = {}
    BY <2>1, <2>2
  <2> QED
    BY <1>6, <2>4, <2>5
<1>8. \A k \in DOMAIN ts2 : ts2[k].stop = "none" =>
        k = Len(ts2) /\ ToSet(ts2[k].calls) \cap ans = {} /\ ~ts2[k].tokens
  <2>1. \A k \in DOMAIN ts : ts[k].stop = "none" =>
          k = Len(ts) /\ ToSet(ts[k].calls) \cap ans = {} /\ ~ts[k].tokens
    BY DEF History
  <2> QED
    BY <1>3, <1>4, <1>6, <2>1
<1>9. History(ts2, ans)
  BY <1>6, <1>7, <1>8 DEF History
<1> QED
  BY <1>2, <1>3, <1>4, <1>6, <1>9

(* The last turn ends.                                                      *)
LEMMA EndsTurn ==
    ASSUME NEW ts, NEW ans, History(ts, ans), NEW m \in DOMAIN ts, m = Len(ts), ts[m].stop = "none",
           NEW stop \in {"tool_use", "end", "error"}, NEW tokens \in BOOLEAN,
           NEW ts2, Stopped(ts, m, stop, tokens, ts2)
    PROVE  /\ History(ts2, ans) /\ Len(ts2) = Len(ts) /\ DOMAIN ts2 = DOMAIN ts
           /\ \A k \in DOMAIN ts : k # m => ts2[k] = ts[k]
           /\ ts2[m].calls = ts[m].calls /\ ts2[m].stop = stop /\ ts2[m].tokens = tokens
           /\ ts[m].calls \in Seq(Nat) /\ ToSet(ts[m].calls) \cap ans = {}
           /\ \A k \in DOMAIN ts : ts2[k].stop # "none"
<1>1. ts \in Seq(TurnRecord) /\ ts[m] \in TurnRecord
  BY DEF History
<1> DEFINE t == [ts[m] EXCEPT !.stop = stop, !.tokens = tokens]
<1>2. t \in TurnRecord /\ t.calls = ts[m].calls /\ t.stop = stop /\ t.tokens = tokens
  BY <1>1 DEF TurnRecord, Stops
<1>3. ts2 = [ts EXCEPT ![m] = t]
  BY DEF Stopped
<1> HIDE DEF t
<1>4. /\ ts2 \in Seq(TurnRecord) /\ Len(ts2) = Len(ts) /\ DOMAIN ts2 = DOMAIN ts /\ ts2[m] = t
      /\ \A k \in DOMAIN ts : k # m => ts2[k] = ts[k]
  BY <1>1, <1>2, <1>3
<1>5. \A j, k \in DOMAIN ts2 : j # k => ToSet(ts2[j].calls) \cap ToSet(ts2[k].calls) = {}
  <2>1. \A j, k \in DOMAIN ts : j # k => ToSet(ts[j].calls) \cap ToSet(ts[k].calls) = {}
    BY DEF History
  <2>2. \A k \in DOMAIN ts : ts2[k].calls = ts[k].calls
    BY <1>2, <1>4
  <2> QED
    BY <1>4, <2>1, <2>2
<1>6. \A k \in DOMAIN ts : ts[k].stop = "none" => k = m /\ ToSet(ts[k].calls) \cap ans = {}
  BY DEF History
<1>7. \A k \in DOMAIN ts : ts2[k].stop # "none"
  BY <1>2, <1>4, <1>6
<1>8. History(ts2, ans)
  BY <1>4, <1>5, <1>7 DEF History
<1> QED
  BY <1>1, <1>2, <1>4, <1>6, <1>7, <1>8 DEF TurnRecord

-----------------------------------------------------------------------------
(* The lines of a stream, read with the session already where it is.        *)

(* message_start                                                            *)
LEMMA PiStarts ==
    ASSUME NEW ts, NEW ans, History(ts, ans), \A k \in DOMAIN ts : ts[k].stop # "none",
           NEW p, Follows(p, ts, ans), ClosedLate(p, ts), p.stop = "none",
           NEW ts2, Started(ts, ts2),
           NEW q, q = message_start(p, Len(ts) + 1)
    PROVE  /\ Follows(q, ts2, ans) /\ ClosedLate(q, ts2) /\ q.stop = "none"
           /\ q.output = p.output /\ q.errors = p.errors
           /\ SomeError(q) => SomeError(p)
           /\ \A k \in DOMAIN ts : Right(p, k, ts[k], ans) => Right(q, k, ts2[k], ans)
           /\ Right(q, Len(ts) + 1, ts2[Len(ts) + 1], ans)
<1> DEFINE f == flush_current_model_span(p)
           n == Len(ts) + 1
<1>1. /\ Follows(f, ts, ans) /\ ClosedLate(f, ts) /\ f.open = 0 /\ f.stop = "none"
      /\ f.output = p.output /\ f.errors = p.errors
      /\ \A k \in DOMAIN ts : Closed(p, k, ts[k], ans) => Closed(f, k, ts[k], ans)
      /\ SomeError(f) => SomeError(p)
  <2>1. p.open # 0 => p.open \in DOMAIN ts
    BY DEF Follows, History
  <2> QED
    BY <2>1, Flushes
<1>2. /\ History(ts2, ans) /\ Len(ts2) = n /\ Len(ts) \in Nat
      /\ DOMAIN ts = 1 .. Len(ts) /\ DOMAIN ts2 = 1 .. n
      /\ \A k \in DOMAIN ts : ts2[k] = ts[k]
      /\ ts2[n] = [calls |-> <<>>, stop |-> "none", tokens |-> FALSE]
  <2> HIDE DEF f, n
  <2>1. /\ History(ts2, ans) /\ Len(ts2) = Len(ts) + 1 /\ Len(ts) \in Nat
        /\ DOMAIN ts = 1 .. Len(ts) /\ DOMAIN ts2 = 1 .. Len(ts) + 1
        /\ \A k \in DOMAIN ts : ts2[k] = ts[k]
        /\ ts2[Len(ts) + 1] = [calls |-> <<>>, stop |-> "none", tokens |-> FALSE]
    BY StartsTurn
  <2> QED
    BY <2>1 DEF n
<1> HIDE DEF f
<1>3. q = [f EXCEPT !.open = n]
  BY DEF message_start, f
<1>4. n \in Nat /\ n # 0 /\ n \notin DOMAIN ts /\ Len(ts) <= n /\ n \in 0 .. n /\ \A k \in DOMAIN ts : k < n
  BY <1>2
<1> HIDE DEF n
<1>5. /\ Follows(f, ts2, ans) /\ ClosedLate(f, ts2)
      /\ \A k \in DOMAIN ts : Right(f, k, ts[k], ans) => Right(f, k, ts2[k], ans)
  <2>1. \A k \in DOMAIN ts : /\ ToSet(ts[k].calls) \subseteq ToSet(ts2[k].calls)
                             /\ ts[k].stop # "none" => ts2[k].stop # "none"
                             /\ k # n => ts2[k] = ts[k]
    BY <1>2
  <2>2. \A c \in ans \ ans : n \in DOMAIN ts2 /\ c \in ToSet(ts2[n].calls)
    OBVIOUS
  <2>3. Len(ts) <= Len(ts2)
    BY <1>2, <1>4
  <2>4. /\ Follows(f, ts2, ans) /\ ClosedLate(f, ts2)
        /\ \A k \in DOMAIN ts : k # n /\ Right(f, k, ts[k], ans) => Right(f, k, ts2[k], ans)
    <3>1. Follows(f, ts, ans) /\ ClosedLate(f, ts) /\ History(ts2, ans) /\ ans \subseteq ans
      BY <1>1, <1>2
    <3> QED
      BY <2>1, <2>2, <2>3, <3>1, Moves
  <2> QED
    BY <1>4, <2>4
<1>6. f \in Parser
  BY <1>1 DEF Follows
<1>7. /\ q \in Parser /\ q.open = n /\ q.stop = "none" /\ q.pending = <<>> /\ q.results = f.results
      /\ q.spans = f.spans /\ q.output = p.output /\ q.errors = p.errors
  BY <1>1, <1>3, <1>4, <1>6 DEF Parser, Follows
<1>8. Follows(q, ts2, ans)
  <2>1. q.open \in 0 .. Len(ts2) /\ q.results \subseteq ans
    BY <1>2, <1>4, <1>5, <1>7 DEF Follows
  <2>2. \A i \in DOMAIN q.spans : q.spans[i].turn \in DOMAIN ts2 /\ q.spans[i].turn < q.open
    BY <1>1, <1>4, <1>5, <1>7 DEF Follows
  <2>3. ToSet(q.pending) = {}
    BY <1>7 DEF ToSet
  <2> QED
    BY <1>5, <1>7, <2>1, <2>2, <2>3 DEF Follows
<1>9. ClosedLate(q, ts2)
  BY <1>5, <1>7 DEF ClosedLate
<1>10. \A k \in DOMAIN ts : Right(p, k, ts[k], ans) => Right(q, k, ts2[k], ans)
  <2> SUFFICES ASSUME NEW k \in DOMAIN ts, Right(p, k, ts[k], ans) PROVE Right(q, k, ts2[k], ans)
    OBVIOUS
  <2>1. Closed(p, k, ts[k], ans)
    BY DEF Right, Open
  <2>2. Right(f, k, ts2[k], ans)
    BY <1>1, <1>5, <2>1 DEF Right
  <2>3. Closed(f, k, ts2[k], ans)
    BY <1>1, <1>2, <2>2 DEF Right, Open
  <2> QED
    BY <1>7, <2>3 DEF Right, Closed
<1>11. Right(q, n, ts2[n], ans)
  BY <1>2, <1>7 DEF Right, Open
<1> QED
  BY <1>1, <1>7, <1>8, <1>9, <1>10, <1>11 DEF n, SomeError

(* toolcall_start                                                           *)
LEMMA PiCalls ==
    ASSUME NEW ts, NEW ans, History(ts, ans), NEW m \in DOMAIN ts, m = Len(ts), ts[m].stop = "none",
           NEW c \in Nat, c \in ToSet(ts[m].calls),
           NEW p, Follows(p, ts, ans), ClosedLate(p, ts),
           NEW q, q = toolcall_start(p, c)
    PROVE  /\ Follows(q, ts, ans) /\ ClosedLate(q, ts) /\ q.stop = p.stop
           /\ q.output = p.output /\ q.errors = p.errors /\ q.spans = p.spans
           /\ \A k \in DOMAIN ts : k # m /\ Right(p, k, ts[k], ans) => Right(q, k, ts[k], ans)
           /\ p.open = m /\ Append(p.pending, c) = ts[m].calls => Right(q, m, ts[m], ans)
<1>1. p \in Parser /\ m # 0 /\ m \in Nat
  BY DEF Follows, History
<1>2. CASE p.open = 0
  <2>1. q = p
    BY <1>2 DEF toolcall_start
  <2> QED
    BY <1>1, <1>2, <2>1
<1>3. CASE p.open # 0
  <2>1. q = [p EXCEPT !.pending = Append(p.pending, c)]
    BY <1>3 DEF toolcall_start
  <2>2. p.pending \in Seq(Nat)
    BY <1>1 DEF Parser
  <2>3. Append(p.pending, c) \in Seq(Nat) /\ ToSet(Append(p.pending, c)) = ToSet(p.pending) \cup {c}
    BY <2>2, AppendAdds
  <2>4. /\ q \in Parser /\ q.open = p.open /\ q.stop = p.stop /\ q.results = p.results
        /\ q.spans = p.spans /\ q.output = p.output /\ q.errors = p.errors
        /\ q.pending = Append(p.pending, c)
    BY <1>1, <2>1, <2>3 DEF Parser
  <2>5. p.open <= m
    BY DEF Follows
  <2>6. \A d \in ToSet(q.pending) : \E t \in DOMAIN ts : q.open <= t /\ d \in ToSet(ts[t].calls)
    BY <2>3, <2>4, <2>5 DEF Follows
  <2>7. Follows(q, ts, ans)
    BY <1>3, <2>4, <2>6 DEF Follows
  <2>8. ClosedLate(q, ts)
    BY <2>4 DEF ClosedLate
  <2>9. \A k \in DOMAIN ts : k # m /\ Right(p, k, ts[k], ans) => Right(q, k, ts[k], ans)
    <3> SUFFICES ASSUME NEW k \in DOMAIN ts, k # m, Right(p, k, ts[k], ans)
                 PROVE  Right(q, k, ts[k], ans)
      OBVIOUS
    <3>1. Closed(p, k, ts[k], ans)
      BY DEF Right, Open, History
    <3> QED
      BY <2>4, <3>1 DEF Right, Closed
  <2>10. p.open = m /\ Append(p.pending, c) = ts[m].calls => Right(q, m, ts[m], ans)
    BY <2>4 DEF Right, Open
  <2> QED
    BY <2>4, <2>7, <2>8, <2>9, <2>10
<1> QED
  BY <1>2, <1>3

(* message_end                                                              *)
LEMMA PiEnds ==
    ASSUME format = "pi", NEW ts, NEW ans, History(ts, ans), NEW m \in DOMAIN ts, m = Len(ts),
           ts[m].stop # "none", ToSet(ts[m].calls) \cap ans = {},
           NEW p, Follows(p, ts, ans), ClosedLate(p, ts), p.stop = "none",
           NEW tokens \in BOOLEAN, NEW q, q = message_end(p, ts[m].calls, ts[m].stop, tokens)
    PROVE  /\ Follows(q, ts, ans) /\ ClosedLate(q, ts) /\ q.stop = "none"
           /\ q.errors = p.errors
           /\ q.output <=> p.output \/ (p.open # 0 /\ tokens)
           /\ SomeError(q) => ts[m].stop = "error" \/ SomeError(p)
           /\ \A k \in DOMAIN ts : Right(p, k, ts[k], ans) => Right(q, k, ts[k], ans)
           /\ p.open = m /\ p.pending = ts[m].calls => Right(q, m, ts[m], ans)
<1> DEFINE cs == ts[m].calls
           stop == ts[m].stop
<1>1. p \in Parser /\ m # 0 /\ m \in Nat /\ cs \in Seq(Nat) /\ stop \in Stops
  <2>1. ts[m] \in TurnRecord
    BY DEF History
  <2> QED
    BY <2>1 DEF Follows, History, TurnRecord
<1>2. \A k \in DOMAIN ts : ts[k].stop # "none"
  BY DEF History
<1>3. CASE p.open = 0
  <2>1. q = p
    BY <1>3 DEF message_end
  <2> QED
    BY <1>1, <1>3, <2>1
<1>4. CASE p.open # 0
  <2> DEFINE r == [p EXCEPT !.pending = AddCalls(p.pending, cs),
                            !.output = p.output \/ tokens, !.stop = stop]
  <2>1. q = flush_current_model_span(r)
    BY <1>4 DEF message_end
  <2>2. p.pending \in Seq(Nat)
    BY <1>1 DEF Parser
  <2>3. /\ AddCalls(p.pending, cs) \in Seq(Nat)
        /\ ToSet(AddCalls(p.pending, cs)) \subseteq ToSet(p.pending) \cup ToSet(cs)
        /\ p.pending = cs => AddCalls(p.pending, cs) = p.pending
    BY <1>1, <2>2, AddCallsAdds
  <2> HIDE DEF cs, stop
  <2>4. (p.output \/ tokens) \in BOOLEAN
    OBVIOUS
  <2>5. /\ r \in Parser /\ r.open = p.open /\ r.stop = stop /\ r.results = p.results
        /\ r.spans = p.spans /\ r.errors = p.errors /\ r.pending = AddCalls(p.pending, cs)
        /\ r.output = (p.output \/ tokens)
    BY <1>1, <2>3, <2>4 DEF Parser
  <2> HIDE DEF r
  <2>6. p.open <= m /\ p.open \in DOMAIN ts
    BY <1>4 DEF Follows, History
  <2>7. \A d \in ToSet(r.pending) : \E t \in DOMAIN ts : r.open <= t /\ d \in ToSet(ts[t].calls)
    BY <2>3, <2>5, <2>6 DEF Follows, cs
  <2>8. Follows(r, ts, ans)
    BY <1>4, <2>5, <2>7 DEF Follows
  <2>9. ClosedLate(r, ts)
    BY <2>5 DEF ClosedLate
  <2>10. /\ Follows(q, ts, ans) /\ q.stop = "none" /\ q.output = r.output /\ q.errors = r.errors
         /\ \A k \in DOMAIN ts : Closed(r, k, ts[k], ans) => Closed(q, k, ts[k], ans)
         /\ r.open # 0 /\ r.pending = ts[r.open].calls /\ r.stop = Told(ts[r.open].stop)
            /\ ToSet(r.pending) \cap ans = {} => Closed(q, r.open, ts[r.open], ans)
         /\ ClosedLate(r, ts) /\ (r.open # 0 => ts[r.open].stop # "none") => ClosedLate(q, ts)
         /\ SomeError(q) => (r.open # 0 /\ r.stop = "error") \/ SomeError(r)
    <3>1. r.open = 0 => r.stop = "none"
      BY <1>4, <2>5
    <3>2. Follows(q, ts, ans) /\ q.stop = "none" /\ q.output = r.output /\ q.errors = r.errors
      BY <2>1, <2>8, <3>1, Flushes
    <3>3. \A k \in DOMAIN ts : Closed(r, k, ts[k], ans) => Closed(q, k, ts[k], ans)
      BY <2>1, <2>8, <3>1, Flushes
    <3>4. r.open # 0 /\ r.pending = ts[r.open].calls /\ r.stop = Told(ts[r.open].stop)
          /\ ToSet(r.pending) \cap ans = {} => Closed(q, r.open, ts[r.open], ans)
      BY <2>1, <2>8, <3>1, Flushes
    <3>5. ClosedLate(r, ts) /\ (r.open # 0 => ts[r.open].stop # "none") => ClosedLate(q, ts)
      BY <2>1, <2>8, <3>1, Flushes
    <3>6. SomeError(q) => (r.open # 0 /\ r.stop = "error") \/ SomeError(r)
      BY <2>1, <2>8, <3>1, Flushes
    <3> QED
      BY <3>2, <3>3, <3>4, <3>5, <3>6
  <2>11. ClosedLate(q, ts)
    BY <1>2, <2>5, <2>6, <2>9, <2>10
  <2>12. \A k \in DOMAIN ts : Right(p, k, ts[k], ans) => Right(q, k, ts[k], ans)
    <3> SUFFICES ASSUME NEW k \in DOMAIN ts, Right(p, k, ts[k], ans)
                 PROVE  Right(q, k, ts[k], ans)
      OBVIOUS
    <3>1. Closed(p, k, ts[k], ans)
      BY <1>2 DEF Right, Open
    <3>2. Closed(r, k, ts[k], ans)
      BY <2>5, <3>1 DEF Closed
    <3> QED
      BY <2>10, <3>2 DEF Right
  <2>13. p.open = m /\ p.pending = ts[m].calls => Right(q, m, ts[m], ans)
    BY <1>4, <2>3, <2>5, <2>10 DEF Right, Told, cs, stop
  <2>14. q.output <=> p.output \/ (p.open # 0 /\ tokens)
    BY <1>4, <2>5, <2>10
  <2>15. SomeError(q) => ts[m].stop = "error" \/ SomeError(p)
    BY <2>5, <2>10 DEF stop, SomeError
  <2>16. q.errors = p.errors
    BY <2>5, <2>10
  <2> QED
    BY <2>10, <2>11, <2>12, <2>13, <2>14, <2>15, <2>16
<1> QED
  BY <1>3, <1>4

(* A tool result.                                                           *)
LEMMA ReadsResult ==
    ASSUME NEW ts, NEW ans, NEW c \in Nat, \A k \in DOMAIN ts : ts[k].stop # "none",
           NEW p, Follows(p, ts, ans), ClosedLate(p, ts),
           NEW q, q = tool_result(p, c)
    PROVE  /\ Follows(q, ts, ans \cup {c}) /\ ClosedLate(q, ts) /\ q.stop = p.stop
           /\ q.output = p.output /\ q.errors = p.errors /\ q.spans = p.spans /\ q.open = p.open
           /\ \A k \in DOMAIN ts : Right(p, k, ts[k], ans) => Right(q, k, ts[k], ans \cup {c})
<1>1. p \in Parser
  BY DEF Follows
<1>2. p.results \in SUBSET Nat /\ p.results \cup {c} \in SUBSET Nat
  BY <1>1 DEF Parser
<1>3. /\ q \in Parser /\ q.open = p.open /\ q.stop = p.stop /\ q.results = p.results \cup {c}
      /\ q.spans = p.spans /\ q.output = p.output /\ q.errors = p.errors /\ q.pending = p.pending
  BY <1>1, <1>2 DEF Parser, tool_result
<1>4. Follows(q, ts, ans \cup {c})
  BY <1>3 DEF Follows
<1>5. ClosedLate(q, ts)
  BY <1>3 DEF ClosedLate
<1>6. \A k \in DOMAIN ts : Right(p, k, ts[k], ans) => Right(q, k, ts[k], ans \cup {c})
  <2> SUFFICES ASSUME NEW k \in DOMAIN ts, Right(p, k, ts[k], ans)
               PROVE  Right(q, k, ts[k], ans \cup {c})
    OBVIOUS
  <2>1. Closed(p, k, ts[k], ans)
    BY DEF Right, Open
  <2>2. PICK i \in DOMAIN p.spans : p.spans[i].turn = k /\ SpanRight(p.spans[i], ts[k], ans, p.results)
    BY <2>1 DEF Closed
  <2>3. SpanRight(p.spans[i], ts[k], ans \cup {c}, q.results)
    BY <1>3, <2>2 DEF SpanRight
  <2> QED
    BY <1>3, <2>2, <2>3 DEF Right, Closed
<1> QED
  BY <1>3, <1>4, <1>5, <1>6

(* An assistant line of Claude Code.                                        *)
LEMMA ClaudeEnds ==
    ASSUME format # "pi", NEW ts, NEW ans, History(ts, ans), NEW m \in DOMAIN ts, m = Len(ts),
           ts[m].stop # "none", ToSet(ts[m].calls) \cap ans = {},
           NEW p, Follows(p, ts, ans), ClosedLate(p, ts), p.open = 0,
           \A i \in DOMAIN p.spans : p.spans[i].turn < m,
           NEW q, q = assistant(p, m, ts[m].calls)
    PROVE  /\ Follows(q, ts, ans) /\ ClosedLate(q, ts) /\ q.stop = p.stop /\ q.open = 0
           /\ q.output = p.output /\ q.errors = p.errors
           /\ SomeError(q) => SomeError(p)
           /\ \A k \in DOMAIN ts : Right(p, k, ts[k], ans) => Right(q, k, ts[k], ans)
           /\ Right(q, m, ts[m], ans)
<1> DEFINE ids == ts[m].calls
           s == Span(m, CallSpans(ids, p.results), "none")
<1>1. p \in Parser /\ m # 0 /\ m \in Nat /\ ids \in Seq(Nat)
  <2>1. ts[m] \in TurnRecord
    BY DEF History
  <2> QED
    BY <2>1 DEF Follows, History, TurnRecord
<1>2. q = [p EXCEPT !.results = p.results \ ToSet(ids), !.spans = Append(p.spans, s)]
  BY DEF assistant
<1>3. s \in SpanRecord /\ s.turn = m /\ s.stop = "none" /\ s.calls = CallSpans(ids, p.results)
  BY <1>1, CallSpansAre DEF Span, SpanRecord, Stops
<1> HIDE DEF s
<1>4. Append(p.spans, s) \in Seq(SpanRecord) /\ p.results \ ToSet(ids) \in SUBSET Nat
  <2>1. p.spans \in Seq(SpanRecord) /\ p.results \in SUBSET Nat
    BY <1>1 DEF Parser
  <2> QED
    BY <1>3, <2>1, AppendAdds
<1>5. /\ q \in Parser /\ q.open = 0 /\ q.stop = p.stop /\ q.pending = p.pending
      /\ q.results = p.results \ ToSet(ids) /\ q.spans = Append(p.spans, s)
      /\ q.output = p.output /\ q.errors = p.errors
  BY <1>1, <1>2, <1>4 DEF Parser
<1>6. q.pending = <<>>
  BY <1>5 DEF Follows
<1>7. \A c \in ToSet(ids) : \E t \in DOMAIN ts : s.turn <= t /\ c \in ToSet(ts[t].calls)
  BY <1>1, <1>3
<1>8. /\ Follows(q, ts, ans)
      /\ \A k \in DOMAIN ts : Closed(p, k, ts[k], ans) => Closed(q, k, ts[k], ans)
      /\ ids = ts[s.turn].calls /\ s.stop = Told(ts[s.turn].stop) /\ ToSet(ids) \cap ans = {}
           => Closed(q, s.turn, ts[s.turn], ans)
      /\ ClosedLate(p, ts) /\ ts[s.turn].stop # "none" => ClosedLate(q, ts)
  <2> HIDE DEF ids
  <2> QED
    BY <1>1, <1>3, <1>5, <1>6, <1>7, AddSpan
<1>9. \A k \in DOMAIN ts : Right(p, k, ts[k], ans) => Right(q, k, ts[k], ans)
  <2>1. \A k \in DOMAIN ts : k # 0
    BY DEF History
  <2> QED
    BY <1>8, <2>1 DEF Right, Open
<1>10. SomeError(q) => SomeError(p)
  <2>1. /\ DOMAIN q.spans = 1 .. Len(p.spans) + 1 /\ DOMAIN p.spans = 1 .. Len(p.spans)
        /\ \A i \in DOMAIN p.spans : q.spans[i] = p.spans[i]
        /\ q.spans[Len(p.spans) + 1] = s /\ Len(p.spans) \in Nat
    BY <1>1, <1>3, <1>5, AppendAdds DEF Parser
  <2>2. \A i \in DOMAIN q.spans : i \in DOMAIN p.spans \/ i = Len(p.spans) + 1
    BY <2>1
  <2> QED
    BY <1>3, <2>1, <2>2 DEF SomeError
<1>11. Right(q, m, ts[m], ans)
  BY <1>3, <1>8 DEF Right, Told
<1> QED
  BY <1>3, <1>5, <1>8, <1>9, <1>10, <1>11

-----------------------------------------------------------------------------
(* Counting the turns that are spoiled.                                     *)

LEMMA SpoiledFinite ==
    ASSUME NEW p, NEW ts, NEW ans, NEW n \in Nat
    PROVE  /\ IsFiniteSet(Spoiled(p, ts, ans, n))
           /\ Cardinality(Spoiled(p, ts, ans, n)) \in Nat
<1>1. IsFiniteSet(1 .. n)
  BY FS_Interval
<1>2. Spoiled(p, ts, ans, n) \subseteq 1 .. n
  BY DEF Spoiled
<1> QED
  BY <1>1, <1>2, FS_Subset, FS_CardinalityType

(* If no line is lost, the turns told right stay right and a new one is     *)
(* right as well; a lost line spoils one turn, m.                           *)
LEMMA Counts ==
    ASSUME NEW p, NEW ts, NEW ans, NEW n \in Nat, NEW p2, NEW ts2, NEW ans2, NEW n2 \in Nat,
           NEW m, NEW l \in Nat, NEW l2 \in Nat,
           Cardinality(Spoiled(p, ts, ans, n)) <= l,
           \A k \in 1 .. n2 : k # m =>
             k \in 1 .. n /\ (Right(p, k, ts[k], ans) => Right(p2, k, ts2[k], ans2)),
           \/ l + 1 <= l2
           \/ /\ l <= l2
              /\ m \in 1 .. n2 => \/ Right(p2, m, ts2[m], ans2)
                                  \/ m \in 1 .. n /\ ~Right(p, m, ts[m], ans)
    PROVE  Cardinality(Spoiled(p2, ts2, ans2, n2)) <= l2
<1> DEFINE S == Spoiled(p, ts, ans, n)
           S2 == Spoiled(p2, ts2, ans2, n2)
<1>1. IsFiniteSet(S) /\ Cardinality(S) \in Nat /\ IsFiniteSet(S2) /\ Cardinality(S2) \in Nat
  BY SpoiledFinite
<1>2. S2 \subseteq S \cup {m}
  BY DEF Spoiled
<1>3. IsFiniteSet(S \cup {m}) /\ Cardinality(S \cup {m}) <= Cardinality(S) + 1
  <2> HIDE DEF S
  <2>1. IsFiniteSet(S \cup {m})
        /\ Cardinality(S \cup {m}) = IF m \in S THEN Cardinality(S) ELSE Cardinality(S) + 1
    BY <1>1, FS_AddElement
  <2> QED
    BY <1>1, <2>1
<1>4. CASE l + 1 <= l2
  <2>1. Cardinality(S2) <= Cardinality(S \cup {m}) /\ Cardinality(S \cup {m}) \in Nat
    <3> HIDE DEF S, S2
    <3> QED
      BY <1>2, <1>3, FS_Subset, FS_CardinalityType
  <2>2. Cardinality(S) <= l
    OBVIOUS
  <2> HIDE DEF S, S2
  <2>3. Cardinality(S2) <= l2
    BY <1>1, <1>3, <1>4, <2>1, <2>2
  <2> QED
    BY <2>3 DEF S2
<1>5. CASE ~(l + 1 <= l2)
  <2>1. S2 \subseteq S
    BY <1>5 DEF Spoiled
  <2>2. Cardinality(S) <= l /\ l <= l2
    BY <1>5
  <2> HIDE DEF S, S2
  <2>3. Cardinality(S2) <= Cardinality(S)
    BY <1>1, <2>1, FS_Subset
  <2>4. Cardinality(S2) <= l2
    BY <1>1, <2>2, <2>3
  <2> QED
    BY <2>4 DEF S2
<1> QED
  BY <1>4, <1>5

(* With every line read, every turn is right.                               *)
LEMMA NoneSpoiled ==
    ASSUME NEW p, NEW ts, NEW ans, NEW n \in Nat, Cardinality(Spoiled(p, ts, ans, n)) <= 0
    PROVE  \A k \in 1 .. n : Right(p, k, ts[k], ans)
<1>1. IsFiniteSet(Spoiled(p, ts, ans, n)) /\ Cardinality(Spoiled(p, ts, ans, n)) = 0
  BY SpoiledFinite
<1>2. Spoiled(p, ts, ans, n) = {}
  BY <1>1, FS_EmptySet
<1> QED
  BY <1>2 DEF Spoiled

(* The calls of turns ts.                                                   *)
CallsIn(ts) == UNION {ToSet(ts[k].calls) : k \in 1 .. Len(ts)}

LEMMA UsedIs == Used = CallsIn(turns) /\ Used' = CallsIn(turns')
  BY DEF Used, CallsIn, Turn

(* The turns of ts that have ended.                                         *)
EndedOf(ts) == IF Len(ts) > 0 /\ ts[Len(ts)].stop = "none" THEN Len(ts) - 1 ELSE Len(ts)

LEMMA EndedIs == Ended = EndedOf(turns) /\ Ended' = EndedOf(turns')
  BY DEF Ended, EndedOf, Turn

LEMMA AllEnded ==
    ASSUME NEW ts, ts \in Seq(TurnRecord), \A k \in DOMAIN ts : ts[k].stop # "none"
    PROVE  EndedOf(ts) = Len(ts)
  BY DEF EndedOf

LEMMA LastOpen ==
    ASSUME NEW ts, NEW n \in Nat, Len(ts) = n + 1, ts[n + 1].stop = "none"
    PROVE  EndedOf(ts) = n
  BY DEF EndedOf

(* The invariants say something of parsed sessions only.                    *)
LEMMA NotParsed == stage' \notin {"parsed", "raised"} => LossContained' /\ EndsInErrorIsTold'
  BY DEF LossContained, EndsInErrorIsTold

(* The invariant of a session whose lines nobody reads.                     *)
LEMMA NoStream ==
    ASSUME SessionOK', format' \notin Streams, stage' \notin {"parsed", "raised"}
    PROVE  IInv'
  BY NotParsed DEF IInv

(* What is spoiled after a step is told of the format the session has.      *)
LEMMA SpoiledThen ==
    format' = format => /\ Spoiled(parser, turns, answered, Streamed)'
                             = Spoiled(parser', turns', answered', Streamed')
  BY DEF Spoiled, Right, Open, Closed, SpanRight, Told

(* A line that makes parse_stream_json raise changes nothing else.          *)
LEMMA Garbles ==
    ASSUME NEW p \in Parser, NEW q, q = p \/ q = no_object(p)
    PROVE  /\ q \in Parser /\ q.open = p.open /\ q.stop = p.stop /\ q.spans = p.spans
           /\ q.output = p.output /\ q.errors = p.errors /\ (SomeError(q) <=> SomeError(p))
           /\ \A ts, ans : /\ Follows(p, ts, ans) => Follows(q, ts, ans)
                           /\ ClosedLate(p, ts) => ClosedLate(q, ts)
                           /\ \A n : Spoiled(q, ts, ans, n) = Spoiled(p, ts, ans, n)
<1>1. /\ q \in Parser /\ q.open = p.open /\ q.stop = p.stop /\ q.pending = p.pending
      /\ q.results = p.results /\ q.spans = p.spans /\ q.output = p.output /\ q.errors = p.errors
  BY DEF Parser, no_object
<1>2. \A ts, ans, n : Spoiled(q, ts, ans, n) = Spoiled(p, ts, ans, n)
  BY <1>1 DEF Spoiled, Right, Open, Closed
<1>3. \A ts, ans : Follows(p, ts, ans) => Follows(q, ts, ans)
  BY <1>1 DEF Follows
<1>4. (\A ts : ClosedLate(p, ts) => ClosedLate(q, ts)) /\ (SomeError(q) <=> SomeError(p))
  BY <1>1 DEF ClosedLate, SomeError
<1> QED
  BY <1>1, <1>2, <1>3, <1>4

-----------------------------------------------------------------------------
(* The actions.                                                             *)

(* A turn starts: message_start closes the span of the turn before.         *)
LEMMA StartTurnKeeps == IInv /\ StartTurn => IInv'
<1> SUFFICES ASSUME IInv, StartTurn PROVE IInv'
  OBVIOUS
<1>1. /\ SessionOK /\ History(turns, answered) /\ stage = "ready"
      /\ \A k \in DOMAIN turns : turns[k].stop # "none"
  BY DEF IInv, SessionOK, StartTurn
<1>2. /\ Started(turns, turns') /\ stage' = "streaming"
      /\ format' = format /\ answered' = answered /\ aborted' = aborted /\ result' = result
      /\ format = "pi" => Line(message_start(parser, Turn + 1))
      /\ format # "pi" => lost' = lost /\ parser' = parser
  BY DEF StartTurn, Started, NoLine
<1>3. /\ History(turns', answered) /\ Len(turns') = Turn + 1 /\ Turn \in Nat
      /\ DOMAIN turns = 1 .. Turn /\ DOMAIN turns' = 1 .. Turn + 1
      /\ \A k \in DOMAIN turns : turns'[k] = turns[k]
      /\ turns'[Turn + 1] = [calls |-> <<>>, stop |-> "none", tokens |-> FALSE]
  BY <1>1, <1>2, StartsTurn DEF Turn
<1>4. \A k \in 1 .. Turn + 1 : k \in 1 .. Turn \/ k = Turn + 1
  BY <1>3
<1>5. Used' = Used
  <2>1. ToSet(turns'[Turn + 1].calls) = {}
    BY <1>3 DEF ToSet
  <2>2. CallsIn(turns') = CallsIn(turns)
    BY <1>3, <1>4, <2>1 DEF CallsIn, Turn
  <2> QED
    BY <2>2, UsedIs
<1>6. lost' \in Nat /\ lost \in Nat /\ lost <= lost'
  BY <1>1, <1>2 DEF SessionOK, Line
<1>7. SessionOK'
  <2>1. Turn' = Turn + 1 /\ Turn' > 0 /\ turns'[Turn'].stop = "none"
    BY <1>3 DEF Turn
  <2>2. PICK u \in Nat : Used = 1 .. u
    BY <1>1 DEF SessionOK
  <2>3. (\E n \in Nat : Used = 1 .. n)'
    BY <1>5, <2>2
  <2>4. (answered \subseteq Used)'
    BY <1>1, <1>2, <1>5 DEF SessionOK
  <2>5. History(turns, answered)'
    BY <1>2, <1>3
  <2> QED
    BY <1>1, <1>2, <1>6, <2>1, <2>3, <2>4, <2>5 DEF SessionOK, Stages
<1>8. (Erred' <=> Erred) /\ (Wrote' <=> Wrote)
  BY <1>3, <1>4 DEF Erred, Wrote
<1>9. ASSUME format \in Streams
      PROVE  /\ Follows(parser, turns', answered) /\ ClosedLate(parser, turns')
             /\ \A k \in DOMAIN turns : Right(parser, k, turns[k], answered)
                                          => Right(parser, k, turns'[k], answered)
  <2>1. Follows(parser, turns, answered) /\ ClosedLate(parser, turns)
    BY <1>9 DEF IInv, ParserOK
  <2>2. \A k \in DOMAIN turns : /\ ToSet(turns[k].calls) \subseteq ToSet(turns'[k].calls)
                                /\ turns[k].stop # "none" => turns'[k].stop # "none"
                                /\ k # Turn + 1 => turns'[k] = turns[k]
    BY <1>3
  <2>3. /\ \A c \in answered \ answered : Turn + 1 \in DOMAIN turns' /\ c \in ToSet(turns'[Turn + 1].calls)
        /\ Len(turns) <= Len(turns') /\ answered \subseteq answered
    BY <1>3 DEF Turn
  <2>4. /\ Follows(parser, turns', answered) /\ ClosedLate(parser, turns')
        /\ \A k \in DOMAIN turns : k # Turn + 1 /\ Right(parser, k, turns[k], answered)
                                     => Right(parser, k, turns'[k], answered)
    BY <1>1, <1>3, <2>1, <2>2, <2>3, Moves
  <2> QED
    BY <1>3, <2>4
<1>10. CASE format = "pi"
  <2>1. ParserOK /\ ErrorsOK
    BY <1>10 DEF IInv, Streams
  <2>2. Streamed = Turn /\ Streamed' = Turn + 1
    BY <1>2, <1>3, <1>10 DEF Streamed, Turn
  <2>3. CASE parser' = message_start(parser, Turn + 1) /\ lost' = lost
    <3>1. /\ Follows(parser', turns', answered) /\ ClosedLate(parser', turns') /\ parser'.stop = "none"
          /\ parser'.output = parser.output /\ parser'.errors = parser.errors
          /\ SomeError(parser') => SomeError(parser)
          /\ \A k \in DOMAIN turns : Right(parser, k, turns[k], answered)
                                       => Right(parser', k, turns'[k], answered)
          /\ Right(parser', Turn + 1, turns'[Turn + 1], answered)
      BY <1>1, <1>2, <2>1, <2>3, PiStarts DEF ParserOK, Turn
    <3>2. Cardinality(Spoiled(parser', turns', answered, Turn + 1)) <= lost
      <4>1. \A k \in 1 .. Turn + 1 : k # Turn + 1 =>
              k \in 1 .. Turn /\ (Right(parser, k, turns[k], answered) => Right(parser', k, turns'[k], answered))
        BY <1>3, <1>4, <3>1
      <4>2. Cardinality(Spoiled(parser, turns, answered, Turn)) <= lost
        BY <2>1, <2>2 DEF ParserOK
      <4>3. Turn + 1 \in Nat /\ lost <= lost
        BY <1>3, <1>6
      <4> QED
        BY <1>3, <1>6, <3>1, <4>1, <4>2, <4>3, Counts
    <3>3. ParserOK'
      BY <1>2, <1>10, <2>2, <2>3, <3>1, <3>2, SpoiledThen DEF ParserOK
    <3>4. ErrorsOK'
      BY <1>2, <1>8, <1>10, <2>1, <2>3, <3>1 DEF ErrorsOK
    <3> QED
      BY <1>2, <1>7, <3>3, <3>4, NotParsed DEF IInv
  <2>4. CASE parser' = parser /\ lost' = lost + 1
    <3>1. Cardinality(Spoiled(parser, turns', answered, Turn + 1)) <= lost + 1
      <4>1. \A k \in 1 .. Turn + 1 : k # Turn + 1 =>
              k \in 1 .. Turn /\ (Right(parser, k, turns[k], answered) => Right(parser, k, turns'[k], answered))
        BY <1>3, <1>4, <1>9, <1>10 DEF Streams
      <4>2. Cardinality(Spoiled(parser, turns, answered, Turn)) <= lost
        BY <2>1, <2>2 DEF ParserOK
      <4>3. Turn + 1 \in Nat /\ lost + 1 \in Nat /\ lost + 1 <= lost + 1
        BY <1>3, <1>6
      <4> QED
        BY <1>3, <1>6, <4>1, <4>2, <4>3, Counts
    <3>2. ParserOK'
      BY <1>2, <1>9, <1>10, <2>1, <2>2, <2>4, <3>1, SpoiledThen DEF ParserOK, Streams
    <3>3. ErrorsOK'
      BY <1>2, <1>6, <1>8, <1>10, <2>1, <2>4 DEF ErrorsOK
    <3> QED
      BY <1>2, <1>7, <3>2, <3>3, NotParsed DEF IInv
  <2> QED
    BY <1>2, <1>10, <2>3, <2>4 DEF Line
<1>11. CASE format = "claude"
  <2>1. ParserOK /\ ErrorsOK /\ parser' = parser /\ lost' = lost
    BY <1>2, <1>11 DEF IInv, Streams
  <2>2. Streamed = Turn /\ Streamed' = Turn
    <3>1. Streamed = Ended /\ Streamed' = Ended'
      BY <1>2, <1>11 DEF Streamed
    <3>2. Ended = Turn
      BY <1>1, EndedIs, AllEnded DEF History, Turn
    <3>3. turns'[Turn + 1].stop = "none"
      BY <1>3
    <3>4. EndedOf(turns') = Turn
      BY <1>3, <3>3, LastOpen
    <3> QED
      BY <3>1, <3>2, <3>4, EndedIs
  <2>3. Cardinality(Spoiled(parser, turns', answered, Turn)) <= lost
    <3>1. \A k \in 1 .. Turn : k # 0 =>
            k \in 1 .. Turn /\ (Right(parser, k, turns[k], answered) => Right(parser, k, turns'[k], answered))
      BY <1>3, <1>9, <1>11 DEF Streams
    <3>2. Cardinality(Spoiled(parser, turns, answered, Turn)) <= lost
      BY <2>1, <2>2 DEF ParserOK
    <3>3. lost <= lost /\ 0 \notin 1 .. Turn
      BY <1>3, <1>6
    <3> QED
      BY <1>3, <1>6, <3>1, <3>2, <3>3, Counts
  <2>4. ParserOK'
    BY <1>2, <1>9, <1>11, <2>1, <2>2, <2>3, SpoiledThen DEF ParserOK, Streams
  <2>5. ErrorsOK'
    BY <1>2, <1>6, <1>8, <1>11, <2>1 DEF ErrorsOK
  <2> QED
    BY <1>2, <1>7, <2>4, <2>5, NotParsed DEF IInv
<1>12. CASE format \notin Streams
  BY <1>2, <1>7, <1>12, NoStream
<1> QED
  BY <1>10, <1>11, <1>12 DEF Streams

(* A call that is read is added to the open span of its turn; one that is   *)
(* lost spoils no turn but the last.                                        *)
LEMMA CallKeeps == IInv /\ Call => IInv'
<1> SUFFICES ASSUME IInv, Call PROVE IInv'
  OBVIOUS
<1> DEFINE c == Cardinality(Used) + 1
<1>1. /\ SessionOK /\ History(turns, answered) /\ answered \subseteq Used
      /\ Turn > 0 /\ turns[Turn].stop = "none" /\ stage = "streaming" /\ stage' = "streaming"
  BY DEF IInv, SessionOK, Call
<1>2. /\ Called(turns, Turn, c, turns')
      /\ format' = format /\ answered' = answered /\ aborted' = aborted
      /\ format = "pi" => Line(toolcall_start(parser, c))
      /\ format # "pi" => lost' = lost /\ parser' = parser
  BY <1>1 DEF Call, Called, NoLine
<1>3. Turn \in Nat /\ DOMAIN turns = 1 .. Turn /\ Len(turns) = Turn /\ Turn \in DOMAIN turns
  BY <1>1 DEF History, Turn
<1>4. PICK u \in Nat : Used = 1 .. u
  BY <1>1 DEF SessionOK
<1>5. c = u + 1 /\ c \in Nat /\ c \notin Used
  <2>1. Cardinality(1 .. u) = u
    BY FS_Interval
  <2> QED
    BY <1>4, <2>1
<1> HIDE DEF c
<1>6. c \notin answered /\ \A k \in DOMAIN turns : c \notin ToSet(turns[k].calls)
  BY <1>1, <1>3, <1>5 DEF Used
<1>7. /\ History(turns, answered) /\ Called(turns, Turn, c, turns') /\ c \in Nat
      /\ Turn \in DOMAIN turns /\ Turn = Len(turns) /\ turns[Turn].stop = "none"
      /\ c \notin answered /\ \A k \in DOMAIN turns : c \notin ToSet(turns[k].calls)
  BY <1>1, <1>2, <1>3, <1>5, <1>6
<1>8. /\ History(turns', answered) /\ Len(turns') = Turn /\ DOMAIN turns' = DOMAIN turns
      /\ \A k \in DOMAIN turns : k # Turn => turns'[k] = turns[k]
      /\ turns'[Turn].stop = "none"
      /\ ToSet(turns'[Turn].calls) = ToSet(turns[Turn].calls) \cup {c}
  <2>1. History(turns', answered) /\ Len(turns') = Len(turns) /\ DOMAIN turns' = DOMAIN turns
    BY <1>7, MakesCall
  <2>2. \A k \in DOMAIN turns : k # Turn => turns'[k] = turns[k]
    BY <1>7, MakesCall
  <2>3. turns'[Turn].stop = "none"
    BY <1>7, MakesCall
  <2>4. ToSet(turns'[Turn].calls) = ToSet(turns[Turn].calls) \cup {c}
    <3> DEFINE cs == turns[Turn].calls
    <3>1. cs \in Seq(Nat)
      BY <1>7, MakesCall
    <3>2. turns'[Turn].calls = Append(cs, c)
      BY <1>7, MakesCall
    <3> HIDE DEF cs
    <3>3. ToSet(Append(cs, c)) = ToSet(cs) \cup {c}
      BY <1>7, <3>1, AppendAdds
    <3> QED
      BY <3>2, <3>3 DEF cs
  <2> QED
    BY <1>3, <2>1, <2>2, <2>3, <2>4
<1>9. turns'[Turn].calls = Append(turns[Turn].calls, c)
  BY <1>7, MakesCall
<1>10. Used' = 1 .. u + 1
  <2>1. CallsIn(turns') = CallsIn(turns) \cup {c}
    <3>1. \A k \in 1 .. Turn : k # Turn => ToSet(turns'[k].calls) = ToSet(turns[k].calls)
      BY <1>3, <1>8
    <3> QED
      BY <1>3, <1>8, <3>1 DEF CallsIn
  <2>2. Used' = 1 .. u \cup {c}
    BY <1>4, <2>1, UsedIs
  <2> QED
    BY <1>5, <2>2
<1>11. lost' \in Nat /\ lost \in Nat /\ lost <= lost'
  BY <1>1, <1>2 DEF SessionOK, Line
<1>12. SessionOK'
  <2>1. Turn' = Turn
    BY <1>8 DEF Turn
  <2>2. (\E n \in Nat : Used = 1 .. n)'
    BY <1>10
  <2>3. (answered \subseteq Used)'
    BY <1>1, <1>2, <1>4, <1>10
  <2>4. History(turns, answered)'
    BY <1>2, <1>8
  <2> QED
    BY <1>1, <1>2, <1>8, <1>11, <2>1, <2>2, <2>3, <2>4 DEF SessionOK, Stages
<1>13. (Erred' <=> Erred) /\ (Wrote' <=> Wrote)
  <2>1. \A k \in DOMAIN turns : turns'[k].stop = turns[k].stop
    BY <1>1, <1>8
  <2>2. \A k \in DOMAIN turns : turns'[k].tokens <=> turns[k].tokens
    <3>1. ~turns[Turn].tokens /\ ~turns'[Turn].tokens
      BY <1>1, <1>3, <1>8 DEF History
    <3> QED
      BY <1>8, <3>1
  <2> QED
    BY <1>8, <2>1, <2>2 DEF Erred, Wrote
<1>14. ASSUME format \in Streams
       PROVE  /\ Follows(parser, turns', answered) /\ ClosedLate(parser, turns')
              /\ \A k \in DOMAIN turns : k # Turn /\ Right(parser, k, turns[k], answered)
                                           => Right(parser, k, turns'[k], answered)
  <2>1. Follows(parser, turns, answered) /\ ClosedLate(parser, turns)
    BY <1>14 DEF IInv, ParserOK
  <2>2. \A k \in DOMAIN turns : /\ ToSet(turns[k].calls) \subseteq ToSet(turns'[k].calls)
                                /\ turns[k].stop # "none" => turns'[k].stop # "none"
                                /\ k # Turn => turns'[k] = turns[k]
    BY <1>1, <1>8
  <2>3. /\ \A d \in answered \ answered : Turn \in DOMAIN turns' /\ d \in ToSet(turns'[Turn].calls)
        /\ Len(turns) <= Len(turns') /\ answered \subseteq answered
    BY <1>3, <1>8
  <2>4. History(turns, answered) /\ History(turns', answered)
    BY <1>1, <1>8
  <2> QED
    BY <2>1, <2>2, <2>3, <2>4, Moves
<1>15. CASE format = "pi"
  <2>1. ParserOK /\ ErrorsOK
    BY <1>15 DEF IInv, Streams
  <2>2. Streamed = Turn /\ Streamed' = Turn
    BY <1>2, <1>8, <1>15 DEF Streamed, Turn
  <2>3. Cardinality(Spoiled(parser, turns, answered, Turn)) <= lost
    BY <2>1, <2>2 DEF ParserOK
  <2>4. CASE parser' = toolcall_start(parser, c) /\ lost' = lost
    <3>1. /\ Follows(parser', turns', answered) /\ ClosedLate(parser', turns')
          /\ parser'.stop = parser.stop /\ parser'.spans = parser.spans
          /\ parser'.output = parser.output /\ parser'.errors = parser.errors
          /\ \A k \in DOMAIN turns' : k # Turn /\ Right(parser, k, turns'[k], answered)
                                        => Right(parser', k, turns'[k], answered)
          /\ parser.open = Turn /\ Append(parser.pending, c) = turns'[Turn].calls
               => Right(parser', Turn, turns'[Turn], answered)
      <4>1. Follows(parser, turns', answered) /\ ClosedLate(parser, turns')
        BY <1>14, <1>15 DEF Streams
      <4>2. c \in ToSet(turns'[Turn].calls) /\ Turn \in DOMAIN turns' /\ Turn = Len(turns')
        BY <1>3, <1>8
      <4>3. History(turns', answered) /\ turns'[Turn].stop = "none" /\ c \in Nat
        BY <1>5, <1>8
      <4> QED
        BY <2>4, <4>1, <4>2, <4>3, PiCalls
    <3>2. Right(parser, Turn, turns[Turn], answered) => Right(parser', Turn, turns'[Turn], answered)
      <4>1. ~Closed(parser, Turn, turns[Turn], answered)
        BY <1>1, <2>1 DEF Closed, ClosedLate, ParserOK
      <4> QED
        BY <1>8, <1>9, <3>1, <4>1 DEF Right, Open
    <3>3. Cardinality(Spoiled(parser', turns', answered, Turn)) <= lost
      <4>1. \A k \in 1 .. Turn : k # Turn =>
              k \in 1 .. Turn /\ (Right(parser, k, turns[k], answered) => Right(parser', k, turns'[k], answered))
        BY <1>3, <1>8, <1>14, <1>15, <3>1 DEF Streams
      <4>2. Turn \in 1 .. Turn => \/ Right(parser', Turn, turns'[Turn], answered)
                                  \/ Turn \in 1 .. Turn /\ ~Right(parser, Turn, turns[Turn], answered)
        BY <3>2
      <4>3. lost <= lost /\ lost \in Nat /\ Turn \in Nat
        BY <1>3, <1>11
      <4> QED
        BY <2>3, <4>1, <4>2, <4>3, Counts
    <3>4. ParserOK'
      BY <1>2, <1>15, <2>1, <2>2, <2>4, <3>1, <3>3, SpoiledThen DEF ParserOK
    <3>5. ErrorsOK'
      BY <1>2, <1>13, <1>15, <2>1, <2>4, <3>1 DEF ErrorsOK, SomeError
    <3> QED
      BY <1>1, <1>12, <3>4, <3>5, NotParsed DEF IInv
  <2>5. CASE parser' = parser /\ lost' = lost + 1
    <3>1. Cardinality(Spoiled(parser, turns', answered, Turn)) <= lost + 1
      <4>1. \A k \in 1 .. Turn : k # Turn =>
              k \in 1 .. Turn /\ (Right(parser, k, turns[k], answered) => Right(parser, k, turns'[k], answered))
        BY <1>3, <1>14, <1>15 DEF Streams
      <4>2. lost + 1 \in Nat /\ lost + 1 <= lost + 1
        BY <1>11
      <4> QED
        BY <1>3, <1>11, <2>3, <4>1, <4>2, Counts
    <3>2. ParserOK'
      BY <1>2, <1>14, <1>15, <2>1, <2>2, <2>5, <3>1, SpoiledThen DEF ParserOK, Streams
    <3>3. ErrorsOK'
      BY <1>2, <1>11, <1>13, <1>15, <2>1, <2>5 DEF ErrorsOK
    <3> QED
      BY <1>1, <1>12, <3>2, <3>3, NotParsed DEF IInv
  <2> QED
    BY <1>2, <1>15, <2>4, <2>5 DEF Line
<1>16. CASE format = "claude"
  <2>1. ParserOK /\ ErrorsOK /\ parser' = parser /\ lost' = lost
    BY <1>2, <1>16 DEF IInv, Streams
  <2>2. Streamed = Turn - 1 /\ Streamed' = Turn - 1 /\ Turn - 1 \in Nat
    <3>1. Streamed = Ended /\ Streamed' = Ended'
      BY <1>2, <1>16 DEF Streamed
    <3>2. EndedOf(turns) = Turn - 1 /\ EndedOf(turns') = Turn - 1 /\ Turn - 1 \in Nat
      BY <1>1, <1>3, <1>8 DEF EndedOf
    <3> QED
      BY <3>1, <3>2, EndedIs
  <2>3. Cardinality(Spoiled(parser, turns', answered, Turn - 1)) <= lost
    <3>1. \A k \in 1 .. Turn - 1 : k # Turn => k \in 1 .. Turn - 1 /\
            (Right(parser, k, turns[k], answered) => Right(parser, k, turns'[k], answered))
      BY <1>3, <1>14, <1>16 DEF Streams
    <3>2. Cardinality(Spoiled(parser, turns, answered, Turn - 1)) <= lost
      BY <2>1, <2>2 DEF ParserOK
    <3>3. /\ lost <= lost /\ lost \in Nat
          /\ Turn \in 1 .. Turn - 1 => \/ Right(parser, Turn, turns'[Turn], answered)
                                       \/ Turn \in 1 .. Turn - 1 /\ ~Right(parser, Turn, turns[Turn], answered)
      BY <1>3, <1>11
    <3>4. Turn - 1 \in Nat
      BY <2>2
    <3> QED
      BY <3>1, <3>2, <3>3, <3>4, Counts
  <2>4. ParserOK'
    BY <1>2, <1>14, <1>16, <2>1, <2>2, <2>3, SpoiledThen DEF ParserOK, Streams
  <2>5. ErrorsOK'
    BY <1>2, <1>11, <1>13, <1>16, <2>1 DEF ErrorsOK
  <2> QED
    BY <1>1, <1>12, <2>4, <2>5, NotParsed DEF IInv
<1>17. CASE format \notin Streams
  BY <1>1, <1>2, <1>12, <1>17, NoStream
<1> QED
  BY <1>15, <1>16, <1>17 DEF Streams

(* The end of a turn closes its span; before it no call of the turn was     *)
(* answered.                                                                *)
LEMMA EndTurnKeeps ==
    ASSUME NEW stop \in {"tool_use", "end", "error"}, NEW tokens \in BOOLEAN,
           IInv, EndTurn(stop, tokens)
    PROVE  IInv'
<1>1. /\ SessionOK /\ History(turns, answered) /\ answered \subseteq Used
      /\ Turn > 0 /\ turns[Turn].stop = "none" /\ stage = "streaming"
      /\ stage' \in {"ended", "ready", "tools", "alert"}
  BY DEF IInv, SessionOK, EndTurn
<1>2. /\ Stopped(turns, Turn, stop, tokens, turns')
      /\ format' = format /\ answered' = answered /\ aborted' = aborted
      /\ format = "pi" => Line(message_end(parser, turns[Turn].calls, stop, tokens))
      /\ format = "claude" => Line(assistant(parser, Turn, turns[Turn].calls))
      /\ format \notin Streams => lost' = lost
  BY <1>1 DEF EndTurn, Stopped, NoLine, Streams
<1>3. Turn \in Nat /\ DOMAIN turns = 1 .. Turn /\ Len(turns) = Turn /\ Turn \in DOMAIN turns
  BY <1>1 DEF History, Turn
<1>4. /\ History(turns, answered) /\ Stopped(turns, Turn, stop, tokens, turns')
      /\ Turn \in DOMAIN turns /\ Turn = Len(turns) /\ turns[Turn].stop = "none"
  BY <1>1, <1>2, <1>3
<1>5. /\ History(turns', answered) /\ Len(turns') = Turn /\ DOMAIN turns' = DOMAIN turns
      /\ \A k \in DOMAIN turns : k # Turn => turns'[k] = turns[k]
  <2>1. History(turns', answered)
    BY <1>4, EndsTurn
  <2>2. Len(turns') = Len(turns) /\ DOMAIN turns' = DOMAIN turns
    BY <1>4, EndsTurn
  <2>3. \A k \in DOMAIN turns : k # Turn => turns'[k] = turns[k]
    BY <1>4, EndsTurn
  <2> QED
    BY <1>3, <2>1, <2>2, <2>3
<1>6. /\ turns'[Turn].calls = turns[Turn].calls /\ turns'[Turn].stop = stop
      /\ turns'[Turn].tokens = tokens
  BY <1>4, EndsTurn
<1>7. \A k \in DOMAIN turns : turns'[k].stop # "none"
  BY <1>4, EndsTurn
<1>8. ToSet(turns[Turn].calls) \cap answered = {}
  BY <1>4 DEF History
<1>9. Used' = Used
  <2>1. \A k \in 1 .. Turn : turns'[k].calls = turns[k].calls
    BY <1>3, <1>5, <1>6
  <2>2. CallsIn(turns') = CallsIn(turns)
    BY <1>3, <1>5, <2>1 DEF CallsIn
  <2> QED
    BY <2>2, UsedIs
<1>10. lost' \in Nat /\ lost \in Nat /\ lost <= lost'
  <2>1. lost \in Nat
    BY <1>1 DEF SessionOK
  <2>2. lost' = lost \/ lost' = lost + 1
    BY <1>2 DEF Line, Streams
  <2> QED
    BY <2>1, <2>2
<1>11. SessionOK'
  <2>1. Turn' = Turn
    BY <1>5 DEF Turn
  <2>2. PICK u \in Nat : Used = 1 .. u
    BY <1>1 DEF SessionOK
  <2>3. (\E n \in Nat : Used = 1 .. n)'
    BY <1>9, <2>2
  <2>4. (answered \subseteq Used)'
    BY <1>1, <1>2, <1>9
  <2>5. History(turns, answered)'
    BY <1>2, <1>5
  <2>6. (\A k \in DOMAIN turns : turns[k].stop # "none")'
    BY <1>5, <1>7
  <2> QED
    BY <1>1, <1>2, <1>10, <2>1, <2>3, <2>4, <2>5, <2>6 DEF SessionOK, Stages
<1>12. (Erred' <=> Erred \/ stop = "error") /\ (Wrote' <=> Wrote \/ tokens)
  <2>1. \A k \in DOMAIN turns : k # Turn => turns'[k].stop = turns[k].stop
    BY <1>5
  <2>2. ~turns[Turn].tokens
    BY <1>4 DEF History
  <2>3. Erred' <=> Erred \/ stop = "error"
    BY <1>1, <1>3, <1>5, <1>6, <2>1 DEF Erred
  <2>4. Wrote' <=> Wrote \/ tokens
    BY <1>3, <1>5, <1>6, <2>2 DEF Wrote
  <2> QED
    BY <2>2, <2>3, <2>4
<1>13. ASSUME format \in Streams
       PROVE  /\ Follows(parser, turns', answered) /\ ClosedLate(parser, turns')
              /\ \A k \in DOMAIN turns : k # Turn /\ Right(parser, k, turns[k], answered)
                                           => Right(parser, k, turns'[k], answered)
  <2>1. Follows(parser, turns, answered) /\ ClosedLate(parser, turns)
    BY <1>13 DEF IInv, ParserOK
  <2>2. \A k \in DOMAIN turns : /\ ToSet(turns[k].calls) \subseteq ToSet(turns'[k].calls)
                                /\ turns[k].stop # "none" => turns'[k].stop # "none"
                                /\ k # Turn => turns'[k] = turns[k]
    BY <1>5, <1>6, <1>7
  <2>3. /\ \A d \in answered \ answered : Turn \in DOMAIN turns' /\ d \in ToSet(turns'[Turn].calls)
        /\ Len(turns) <= Len(turns') /\ answered \subseteq answered
    BY <1>3, <1>5
  <2>4. History(turns, answered) /\ History(turns', answered)
    BY <1>1, <1>5
  <2> QED
    BY <2>1, <2>2, <2>3, <2>4, Moves
<1>14. /\ History(turns', answered) /\ Turn \in DOMAIN turns' /\ Turn = Len(turns')
       /\ turns'[Turn].stop # "none" /\ ToSet(turns'[Turn].calls) \cap answered = {}
  BY <1>3, <1>5, <1>6, <1>8
<1>15. format \in Streams => ~Closed(parser, Turn, turns[Turn], answered)
  BY <1>1 DEF IInv, Closed, ClosedLate, ParserOK
<1>16. CASE format = "pi"
  <2>1. ParserOK /\ ErrorsOK
    BY <1>16 DEF IInv, Streams
  <2>2. Streamed = Turn /\ Streamed' = Turn
    BY <1>2, <1>5, <1>16 DEF Streamed, Turn
  <2>3. Cardinality(Spoiled(parser, turns, answered, Turn)) <= lost
    BY <2>1, <2>2 DEF ParserOK
  <2>4. CASE parser' = message_end(parser, turns[Turn].calls, stop, tokens) /\ lost' = lost
    <3>1. parser' = message_end(parser, turns'[Turn].calls, turns'[Turn].stop, tokens)
      BY <1>6, <2>4
    <3>2. /\ Follows(parser', turns', answered) /\ ClosedLate(parser', turns')
          /\ parser'.stop = "none" /\ parser'.errors = parser.errors
          /\ parser'.output <=> parser.output \/ (parser.open # 0 /\ tokens)
          /\ SomeError(parser') => turns'[Turn].stop = "error" \/ SomeError(parser)
          /\ \A k \in DOMAIN turns' : Right(parser, k, turns'[k], answered)
                                        => Right(parser', k, turns'[k], answered)
          /\ parser.open = Turn /\ parser.pending = turns'[Turn].calls
               => Right(parser', Turn, turns'[Turn], answered)
      <4>1. Follows(parser, turns', answered) /\ ClosedLate(parser, turns') /\ parser.stop = "none"
        BY <1>13, <1>16, <2>1 DEF Streams, ParserOK
      <4>2. Follows(parser', turns', answered) /\ ClosedLate(parser', turns')
        BY <1>14, <1>16, <3>1, <4>1, PiEnds
      <4>3. parser'.stop = "none" /\ parser'.errors = parser.errors
        BY <1>14, <1>16, <3>1, <4>1, PiEnds
      <4>4. parser'.output <=> parser.output \/ (parser.open # 0 /\ tokens)
        BY <1>14, <1>16, <3>1, <4>1, PiEnds
      <4>5. SomeError(parser') => turns'[Turn].stop = "error" \/ SomeError(parser)
        BY <1>14, <1>16, <3>1, <4>1, PiEnds
      <4>6. \A k \in DOMAIN turns' : Right(parser, k, turns'[k], answered)
                                       => Right(parser', k, turns'[k], answered)
        BY <1>14, <1>16, <3>1, <4>1, PiEnds
      <4>7. parser.open = Turn /\ parser.pending = turns'[Turn].calls
              => Right(parser', Turn, turns'[Turn], answered)
        BY <1>14, <1>16, <3>1, <4>1, PiEnds
      <4> QED
        BY <4>2, <4>3, <4>4, <4>5, <4>6, <4>7
    <3>3. Right(parser, Turn, turns[Turn], answered) => Right(parser', Turn, turns'[Turn], answered)
      BY <1>6, <1>15, <1>16, <3>2 DEF Right, Open, Streams
    <3>4. Cardinality(Spoiled(parser', turns', answered, Turn)) <= lost
      <4>1. \A k \in 1 .. Turn : k # Turn =>
              k \in 1 .. Turn /\ (Right(parser, k, turns[k], answered) => Right(parser', k, turns'[k], answered))
        BY <1>3, <1>5, <1>13, <1>16, <3>2 DEF Streams
      <4>2. Turn \in 1 .. Turn => \/ Right(parser', Turn, turns'[Turn], answered)
                                  \/ Turn \in 1 .. Turn /\ ~Right(parser, Turn, turns[Turn], answered)
        BY <3>3
      <4>3. lost <= lost /\ lost \in Nat /\ Turn \in Nat
        BY <1>3, <1>10
      <4> QED
        BY <2>3, <4>1, <4>2, <4>3, Counts
    <3>5. ParserOK'
      BY <1>2, <1>16, <2>1, <2>2, <2>4, <3>2, <3>4, SpoiledThen DEF ParserOK
    <3>6. lost = 0 => parser.open # 0
      <4> SUFFICES ASSUME lost = 0 PROVE parser.open # 0
        OBVIOUS
      <4>1. Cardinality(Spoiled(parser, turns, answered, Turn)) <= 0
        BY <2>3
      <4>2. Right(parser, Turn, turns[Turn], answered)
        BY <1>3, <4>1, NoneSpoiled
      <4> QED
        BY <1>1, <1>15, <1>16, <4>2 DEF Right, Open, Streams
    <3>7. ErrorsOK'
      BY <1>2, <1>6, <1>12, <1>16, <2>1, <2>4, <3>2, <3>6 DEF ErrorsOK
    <3> QED
      BY <1>1, <1>11, <3>5, <3>7, NotParsed DEF IInv
  <2>5. CASE parser' = parser /\ lost' = lost + 1
    <3>1. Cardinality(Spoiled(parser, turns', answered, Turn)) <= lost + 1
      <4>1. \A k \in 1 .. Turn : k # Turn =>
              k \in 1 .. Turn /\ (Right(parser, k, turns[k], answered) => Right(parser, k, turns'[k], answered))
        BY <1>3, <1>13, <1>16 DEF Streams
      <4>2. lost \in Nat /\ lost + 1 \in Nat /\ lost + 1 <= lost + 1 /\ Turn \in Nat
        BY <1>3, <1>10
      <4> QED
        BY <2>3, <4>1, <4>2, Counts
    <3>2. ParserOK'
      BY <1>2, <1>13, <1>16, <2>1, <2>2, <2>5, <3>1, SpoiledThen DEF ParserOK, Streams
    <3>3. ErrorsOK'
      BY <1>2, <1>10, <1>12, <1>16, <2>1, <2>5 DEF ErrorsOK
    <3> QED
      BY <1>1, <1>11, <3>2, <3>3, NotParsed DEF IInv
  <2> QED
    BY <1>2, <1>16, <2>4, <2>5 DEF Line
<1>17. CASE format = "claude"
  <2>1. ParserOK /\ ErrorsOK
    BY <1>17 DEF IInv, Streams
  <2>2. Streamed = Turn - 1 /\ Streamed' = Turn /\ Turn - 1 \in Nat
    <3>1. Streamed = Ended /\ Streamed' = Ended'
      BY <1>2, <1>17 DEF Streamed
    <3>2. EndedOf(turns) = Turn - 1 /\ EndedOf(turns') = Turn /\ Turn - 1 \in Nat
      BY <1>1, <1>3, <1>14 DEF EndedOf
    <3> QED
      BY <3>1, <3>2, EndedIs
  <2>3. Cardinality(Spoiled(parser, turns, answered, Turn - 1)) <= lost
    BY <2>1, <2>2 DEF ParserOK
  <2>4. \A k \in 1 .. Turn : k # Turn => k \in 1 .. Turn - 1
    BY <1>3
  <2>5. CASE parser' = assistant(parser, Turn, turns[Turn].calls) /\ lost' = lost
    <3>1. parser' = assistant(parser, Turn, turns'[Turn].calls)
      BY <1>6, <2>5
    <3>2. /\ Follows(parser', turns', answered) /\ ClosedLate(parser', turns')
          /\ parser'.stop = parser.stop /\ parser'.open = 0 /\ parser'.errors = parser.errors
          /\ SomeError(parser') => SomeError(parser)
          /\ \A k \in DOMAIN turns' : Right(parser, k, turns'[k], answered)
                                        => Right(parser', k, turns'[k], answered)
          /\ Right(parser', Turn, turns'[Turn], answered)
      <4>1. Follows(parser, turns', answered) /\ ClosedLate(parser, turns') /\ parser.open = 0
        BY <1>13, <1>17, <2>1 DEF Streams, ParserOK
      <4>2. \A i \in DOMAIN parser.spans : parser.spans[i].turn < Turn
        <5>1. \A i \in DOMAIN parser.spans : parser.spans[i].turn \in 1 .. Turn /\ parser.spans[i].turn # Turn
          BY <1>1, <1>3, <2>1 DEF ParserOK, Follows, ClosedLate
        <5> QED
          BY <1>3, <5>1
      <4>3. Follows(parser', turns', answered) /\ ClosedLate(parser', turns')
        BY <1>14, <1>17, <3>1, <4>1, <4>2, ClaudeEnds
      <4>4. parser'.stop = parser.stop /\ parser'.open = 0 /\ parser'.errors = parser.errors
        BY <1>14, <1>17, <3>1, <4>1, <4>2, ClaudeEnds
      <4>5. SomeError(parser') => SomeError(parser)
        BY <1>14, <1>17, <3>1, <4>1, <4>2, ClaudeEnds
      <4>6. \A k \in DOMAIN turns' : Right(parser, k, turns'[k], answered)
                                       => Right(parser', k, turns'[k], answered)
        BY <1>14, <1>17, <3>1, <4>1, <4>2, ClaudeEnds
      <4>7. Right(parser', Turn, turns'[Turn], answered)
        BY <1>14, <1>17, <3>1, <4>1, <4>2, ClaudeEnds
      <4> QED
        BY <4>3, <4>4, <4>5, <4>6, <4>7
    <3>3. Cardinality(Spoiled(parser', turns', answered, Turn)) <= lost
      <4>1. \A k \in 1 .. Turn : k # Turn =>
              k \in 1 .. Turn - 1 /\ (Right(parser, k, turns[k], answered) => Right(parser', k, turns'[k], answered))
        BY <1>3, <1>5, <1>13, <1>17, <2>4, <3>2 DEF Streams
      <4>2. Turn \in 1 .. Turn => \/ Right(parser', Turn, turns'[Turn], answered)
                                  \/ Turn \in 1 .. Turn - 1 /\ ~Right(parser, Turn, turns[Turn], answered)
        BY <3>2
      <4>3. lost <= lost /\ lost \in Nat /\ Turn \in Nat /\ Turn - 1 \in Nat
        BY <1>3, <1>10, <2>2
      <4> QED
        BY <2>3, <4>1, <4>2, <4>3, Counts
    <3>4. ParserOK'
      BY <1>2, <1>17, <2>1, <2>2, <2>5, <3>2, <3>3, SpoiledThen DEF ParserOK
    <3>5. ErrorsOK'
      BY <1>2, <1>6, <1>12, <1>17, <2>1, <2>5, <3>2 DEF ErrorsOK
    <3> QED
      BY <1>1, <1>11, <3>4, <3>5, NotParsed DEF IInv
  <2>6. CASE (parser' = parser \/ parser' = no_object(parser)) /\ lost' = lost + 1
    <3>1. parser \in Parser
      BY <2>1 DEF ParserOK, Follows
    <3>2. Cardinality(Spoiled(parser, turns', answered, Turn)) <= lost + 1
      <4>1. \A k \in 1 .. Turn : k # Turn =>
              k \in 1 .. Turn - 1 /\ (Right(parser, k, turns[k], answered) => Right(parser, k, turns'[k], answered))
        BY <1>3, <1>13, <1>17, <2>4 DEF Streams
      <4>2. lost \in Nat /\ Turn \in Nat /\ Turn - 1 \in Nat
        BY <1>3, <1>10, <2>2
      <4>3. PICK n \in Nat : n = Turn - 1
        BY <4>2
      <4>4. /\ Cardinality(Spoiled(parser, turns, answered, n)) <= lost
            /\ \A k \in 1 .. Turn : k # Turn => k \in 1 .. n /\
                 (Right(parser, k, turns[k], answered) => Right(parser, k, turns'[k], answered))
        BY <2>3, <4>1, <4>3
      <4>5. lost + 1 \in Nat /\ lost + 1 <= lost + 1
        BY <4>2
      <4> QED
        BY <4>2, <4>4, <4>5, Counts
    <3>3. ParserOK'
      <4>1. Cardinality(Spoiled(parser', turns', answered, Turn)) <= lost + 1
        BY <2>6, <3>1, <3>2, Garbles
      <4>2. Follows(parser', turns', answered) /\ ClosedLate(parser', turns')
        BY <1>13, <1>17, <2>6, <3>1, Garbles DEF Streams
      <4>3. parser'.open = parser.open /\ parser'.stop = parser.stop
        BY <2>6, <3>1, Garbles
      <4> QED
        BY <1>2, <1>17, <2>1, <2>2, <2>6, <4>1, <4>2, <4>3, SpoiledThen DEF ParserOK
    <3>4. ErrorsOK'
      BY <1>2, <1>10, <1>12, <1>17, <2>1, <2>6, <3>1, Garbles DEF ErrorsOK
    <3> QED
      BY <1>1, <1>11, <3>3, <3>4, NotParsed DEF IInv
  <2> QED
    BY <1>2, <1>17, <2>5, <2>6 DEF Line
<1>18. CASE format \notin Streams
  <2>1. format' \notin Streams /\ stage' \notin {"parsed", "raised"}
    BY <1>1, <1>2, <1>18
  <2> QED
    BY <1>11, <2>1, NoStream
<1> QED
  BY <1>16, <1>17, <1>18 DEF Streams

(* A result is lost only if both lines that tell it are; whether its span   *)
(* is closed by then does not matter.                                       *)
LEMMA ToolResultKeeps ==
    ASSUME NEW c \in 1 .. MaxCalls, IInv, ToolResult(c)
    PROVE  IInv'
<1>1. /\ SessionOK /\ History(turns, answered) /\ answered \subseteq Used
      /\ Turn > 0 /\ \A k \in DOMAIN turns : turns[k].stop # "none"
      /\ stage = "tools" /\ stage' = "tools"
  BY DEF IInv, SessionOK, ToolResult
<1>2. /\ turns' = turns /\ format' = format /\ answered' = answered \cup {c} /\ aborted' = aborted
      /\ c \in ToSet(turns[Turn].calls)
      /\ format \notin Streams => lost' = lost
  BY DEF ToolResult, NoLine, Streams
<1>3. Turn \in Nat /\ DOMAIN turns = 1 .. Turn /\ Len(turns) = Turn /\ Turn \in DOMAIN turns /\ c \in Nat
  BY <1>1, SessionAssumption DEF History, Turn
<1>4. History(turns, answered \cup {c})
  BY <1>1 DEF History
<1>5. lost \in Nat /\ (format \in Streams => \/ lost <= lost' /\ lost' \in Nat /\ parser' = tool_result(parser, c)
                                             \/ lost + 1 <= lost' /\ lost' \in Nat
                                                /\ (parser' = parser \/ parser' = no_object(parser)))
  <2>1. lost \in Nat
    BY <1>1 DEF SessionOK
  <2>2. CASE format = "pi"
    <3>1. PICK k \in 0 .. 2 : /\ lost' = lost + k
                              /\ parser' = IF k = 2 THEN parser ELSE tool_result(parser, c)
      BY <2>2 DEF ToolResult
    <3> QED
      BY <2>1, <3>1
  <2>3. CASE format = "claude"
    BY <2>1, <2>3 DEF ToolResult, Line
  <2> QED
    BY <2>1, <2>2, <2>3 DEF Streams
<1>6. lost' \in Nat /\ lost <= lost'
  BY <1>2, <1>5
<1>7. SessionOK'
  <2>1. Turn' = Turn /\ Used' = Used
    BY <1>2 DEF Turn, Used
  <2>2. PICK u \in Nat : Used = 1 .. u
    BY <1>1 DEF SessionOK
  <2>3. (\E n \in Nat : Used = 1 .. n)'
    BY <2>1, <2>2
  <2>4. (answered \subseteq Used)'
    BY <1>1, <1>2, <1>3, <2>1 DEF Used
  <2>5. History(turns, answered)'
    BY <1>2, <1>4
  <2>6. (\A k \in DOMAIN turns : turns[k].stop # "none")'
    BY <1>1, <1>2
  <2> QED
    BY <1>1, <1>2, <1>6, <2>1, <2>3, <2>4, <2>5, <2>6 DEF SessionOK, Stages
<1>8. (Erred' <=> Erred) /\ (Wrote' <=> Wrote)
  BY <1>2 DEF Erred, Wrote
<1>9. CASE format \in Streams
  <2>1. ParserOK /\ ErrorsOK
    BY <1>9 DEF IInv
  <2>2. Streamed = Turn /\ Streamed' = Turn
    <3>1. EndedOf(turns) = Turn
      BY <1>1, <1>3, AllEnded DEF History
    <3> QED
      BY <1>2, <3>1, EndedIs DEF Streamed, Turn
  <2>3. Cardinality(Spoiled(parser, turns, answered, Turn)) <= lost
    BY <2>1, <2>2 DEF ParserOK
  <2>4. Follows(parser, turns, answered) /\ ClosedLate(parser, turns)
    BY <2>1 DEF ParserOK
  <2>5. CASE lost <= lost' /\ lost' \in Nat /\ parser' = tool_result(parser, c)
    <3>1. /\ Follows(parser', turns, answered \cup {c}) /\ ClosedLate(parser', turns)
          /\ parser'.stop = parser.stop /\ parser'.output = parser.output
          /\ parser'.errors = parser.errors /\ parser'.spans = parser.spans /\ parser'.open = parser.open
          /\ \A k \in DOMAIN turns : Right(parser, k, turns[k], answered)
                                       => Right(parser', k, turns[k], answered \cup {c})
      <4>1. Follows(parser', turns, answered \cup {c}) /\ ClosedLate(parser', turns)
        BY <1>1, <1>3, <2>4, <2>5, ReadsResult
      <4>2. parser \in Parser /\ parser' = [parser EXCEPT !.results = parser.results \cup {c}]
        BY <2>4, <2>5 DEF Follows, tool_result
      <4>3. /\ parser'.stop = parser.stop /\ parser'.output = parser.output /\ parser'.open = parser.open
            /\ parser'.errors = parser.errors /\ parser'.spans = parser.spans
        BY <4>2 DEF Parser
      <4>4. \A k \in DOMAIN turns : Right(parser, k, turns[k], answered)
                                      => Right(parser', k, turns[k], answered \cup {c})
        BY <1>1, <1>3, <2>4, <2>5, ReadsResult
      <4> QED
        BY <4>1, <4>3, <4>4
    <3>2. Cardinality(Spoiled(parser', turns, answered \cup {c}, Turn)) <= lost'
      <4>1. \A k \in 1 .. Turn : k # 0 => k \in 1 .. Turn /\
              (Right(parser, k, turns[k], answered) => Right(parser', k, turns[k], answered \cup {c}))
        BY <1>3, <3>1
      <4>2. 0 \notin 1 .. Turn
        BY <1>3
      <4> QED
        BY <1>3, <1>5, <2>3, <2>5, <4>1, <4>2, Counts
    <3>3. ParserOK'
      BY <1>2, <2>1, <2>2, <3>1, <3>2, SpoiledThen DEF ParserOK
    <3>4. ErrorsOK'
      BY <1>2, <1>5, <1>8, <2>1, <2>5, <3>1 DEF ErrorsOK, SomeError
    <3> QED
      BY <1>1, <1>7, <3>3, <3>4, NotParsed DEF IInv
  <2>6. CASE lost + 1 <= lost' /\ lost' \in Nat /\ (parser' = parser \/ parser' = no_object(parser))
    <3>1. parser \in Parser
      BY <2>1 DEF ParserOK, Follows
    <3>2. /\ Follows(parser, turns, answered \cup {c}) /\ ClosedLate(parser, turns)
          /\ \A k \in DOMAIN turns : k # Turn /\ Right(parser, k, turns[k], answered)
                                       => Right(parser, k, turns[k], answered \cup {c})
      <4>1. \A k \in DOMAIN turns : /\ ToSet(turns[k].calls) \subseteq ToSet(turns[k].calls)
                                    /\ turns[k].stop # "none" => turns[k].stop # "none"
                                    /\ k # Turn => turns[k] = turns[k]
        OBVIOUS
      <4>2. /\ \A d \in (answered \cup {c}) \ answered : Turn \in DOMAIN turns /\ d \in ToSet(turns[Turn].calls)
            /\ Len(turns) <= Len(turns) /\ answered \subseteq answered \cup {c}
        BY <1>2, <1>3
      <4>3. History(turns, answered) /\ History(turns, answered \cup {c})
        BY <1>1, <1>4
      <4>4. PICK a : a = answered \cup {c}
        OBVIOUS
      <4>5. /\ \A d \in a \ answered : Turn \in DOMAIN turns /\ d \in ToSet(turns[Turn].calls)
            /\ Len(turns) <= Len(turns) /\ answered \subseteq a
            /\ History(turns, answered) /\ History(turns, a)
        BY <4>2, <4>3, <4>4
      <4>6. /\ Follows(parser, turns, a) /\ ClosedLate(parser, turns)
            /\ \A k \in DOMAIN turns : k # Turn /\ Right(parser, k, turns[k], answered)
                                         => Right(parser, k, turns[k], a)
        BY <2>4, <4>1, <4>5, Moves
      <4> QED
        BY <4>4, <4>6
    <3>3. Cardinality(Spoiled(parser, turns, answered \cup {c}, Turn)) <= lost'
      <4>1. \A k \in 1 .. Turn : k # Turn => k \in 1 .. Turn /\
              (Right(parser, k, turns[k], answered) => Right(parser, k, turns[k], answered \cup {c}))
        BY <1>3, <3>2
      <4> QED
        BY <1>3, <1>5, <2>3, <2>6, <4>1, Counts
    <3>4. ParserOK'
      <4>1. Cardinality(Spoiled(parser', turns, answered \cup {c}, Turn)) <= lost'
        BY <2>6, <3>1, <3>3, Garbles
      <4>2. Follows(parser', turns, answered \cup {c}) /\ ClosedLate(parser', turns)
        BY <2>6, <3>1, <3>2, Garbles
      <4>3. parser'.open = parser.open /\ parser'.stop = parser.stop
        BY <2>6, <3>1, Garbles
      <4> QED
        BY <1>2, <2>1, <2>2, <4>1, <4>2, <4>3, SpoiledThen DEF ParserOK
    <3>5. ErrorsOK'
      BY <1>2, <1>5, <1>8, <2>1, <2>6, <3>1, Garbles DEF ErrorsOK
    <3> QED
      BY <1>1, <1>7, <3>4, <3>5, NotParsed DEF IInv
  <2> QED
    BY <1>5, <1>9, <2>5, <2>6
<1>10. CASE format \notin Streams
  <2>1. format' \notin Streams /\ stage' \notin {"parsed", "raised"}
    BY <1>1, <1>2, <1>10
  <2> QED
    BY <1>7, <2>1, NoStream
<1> QED
  BY <1>9, <1>10

(* The steps that write no line and that no parser sees.                    *)
LEMMA Quiet ==
    ASSUME IInv, turns' = turns, answered' = answered, format' = format, lost' = lost, parser' = parser,
           aborted' = aborted \/ format \notin Streams, SessionOK', stage' \notin {"parsed", "raised"}
    PROVE  IInv'
<1>1. Erred' = Erred /\ Wrote' = Wrote /\ Streamed' = Streamed
  BY DEF Erred, Wrote, Streamed, Ended, Turn
<1>2. ASSUME format \in Streams PROVE ParserOK' /\ ErrorsOK'
  <2>1. ParserOK /\ ErrorsOK /\ aborted' = aborted
    BY <1>2 DEF IInv
  <2>2. ParserOK'
    BY <1>1, <2>1, SpoiledThen DEF ParserOK
  <2>3. ErrorsOK'
    BY <1>1, <2>1 DEF ErrorsOK
  <2> QED
    BY <2>2, <2>3
<1> QED
  BY <1>2, NotParsed DEF IInv

(* Nor does the session itself change.                                      *)
LEMMA SessionStays ==
    ASSUME IInv, turns' = turns, answered' = answered, format' = format, lost' \in Nat, aborted' \in BOOLEAN,
           \/ stage' = "over"
           \/ /\ stage' = "ready" /\ stage \in {"tools", "alert"} /\ aborted' = aborted
    PROVE  SessionOK'
<1>1. SessionOK
  BY DEF IInv
<1>2. Used' = Used /\ Turn' = Turn
  BY DEF Used, Turn
<1>3. PICK u \in Nat : Used = 1 .. u
  BY <1>1 DEF SessionOK
<1>4. (\E n \in Nat : Used = 1 .. n)'
  BY <1>2, <1>3
<1>5. (answered \subseteq Used)' /\ History(turns, answered)'
  BY <1>1, <1>2 DEF SessionOK
<1>6. CASE stage' = "over"
  BY <1>1, <1>4, <1>5, <1>6 DEF SessionOK, Stages
<1>7. CASE stage' = "ready" /\ stage \in {"tools", "alert"} /\ aborted' = aborted
  BY <1>1, <1>4, <1>5, <1>7 DEF SessionOK, Stages
<1> QED
  BY <1>6, <1>7

LEMMA QuietSteps == IInv /\ (ToolsDone \/ max_turn_exceeded_alert \/ Killed \/ Raise) => IInv'
<1> SUFFICES ASSUME IInv, ToolsDone \/ max_turn_exceeded_alert \/ Killed \/ Raise PROVE IInv'
  OBVIOUS
<1>1. /\ turns' = turns /\ answered' = answered /\ format' = format /\ lost' = lost /\ parser' = parser
      /\ \/ stage' = "over"
         \/ stage' = "ready" /\ stage \in {"tools", "alert"} /\ aborted' = aborted
      /\ aborted' = aborted \/ format \notin Streams
      /\ aborted' \in {aborted, TRUE}
  <2>1. CASE ToolsDone
    BY <2>1 DEF ToolsDone, NoLine
  <2>2. CASE max_turn_exceeded_alert
    BY <2>2 DEF max_turn_exceeded_alert, NoLine
  <2>3. CASE Killed
    BY <2>3 DEF Killed, NoLine
  <2>4. CASE Raise
    BY <2>4 DEF Raise, NoLine, Streams
  <2> QED
    BY <2>1, <2>2, <2>3, <2>4
<1>2. lost' \in Nat /\ aborted' \in BOOLEAN
  BY <1>1 DEF IInv, SessionOK
<1>3. stage' \notin {"parsed", "raised"}
  BY <1>1
<1>4. SessionOK'
  BY <1>1, <1>2, SessionStays
<1> QED
  BY <1>1, <1>3, <1>4, Quiet

(* agent_end closes what is open; the result line of Claude Code brings the *)
(* error.                                                                   *)
LEMMA SessionEndsKeeps == IInv /\ SessionEnds => IInv'
<1> SUFFICES ASSUME IInv, SessionEnds PROVE IInv'
  OBVIOUS
<1>1. PICK failed \in IF format \notin {"claude", "eddy"} THEN {FALSE}
                      ELSE IF stage = "ended" THEN BOOLEAN ELSE {TRUE} :
        /\ aborted' = failed
        /\ CASE format = "pi" -> Line(agent_end(parser))
             [] format = "claude" -> Line(result_line(parser, failed))
             [] OTHER -> NoLine
  BY DEF SessionEnds
<1>2. /\ turns' = turns /\ answered' = answered /\ format' = format /\ stage' = "over"
      /\ failed \in BOOLEAN /\ stage \in {"ready", "ended"}
      /\ format = "pi" => Line(agent_end(parser)) /\ failed = FALSE
      /\ format = "claude" => Line(result_line(parser, failed))
      /\ format \notin Streams => lost' = lost
  BY <1>1 DEF SessionEnds, NoLine, Streams
<1>3. SessionOK /\ History(turns, answered) /\ lost \in Nat /\ ~aborted /\ aborted \in BOOLEAN
      /\ \A k \in DOMAIN turns : turns[k].stop # "none"
  BY <1>2 DEF IInv, SessionOK
<1>4. lost' \in Nat /\ lost <= lost'
  BY <1>2, <1>3 DEF Line, Streams
<1>5. SessionOK'
  BY <1>1, <1>2, <1>4, SessionStays
<1>6. Erred' = Erred /\ Wrote' = Wrote /\ Streamed' = Streamed
  BY <1>2 DEF Erred, Wrote, Streamed, Ended, Turn
<1>7. Turn \in Nat /\ DOMAIN turns = 1 .. Turn /\ Len(turns) = Turn
  BY <1>3 DEF History, Turn
<1>8. ASSUME format \in Streams
      PROVE  Streamed = Turn
  <2>1. EndedOf(turns) = Turn
    BY <1>3, <1>7, AllEnded DEF History
  <2> QED
    BY <2>1, EndedIs DEF Streamed
<1>9. CASE format = "pi"
  <2>1. ParserOK /\ ErrorsOK
    BY <1>9 DEF IInv, Streams
  <2>2. Cardinality(Spoiled(parser, turns, answered, Turn)) <= lost
    BY <1>8, <1>9, <2>1 DEF ParserOK, Streams
  <2>3. Follows(parser, turns, answered) /\ ClosedLate(parser, turns) /\ parser.stop = "none"
    BY <2>1 DEF ParserOK
  <2>4. ~parser.errors
    BY <1>3, <2>1 DEF ErrorsOK
  <2>5. CASE parser' = agent_end(parser) /\ lost' = lost
    <3>1. parser' = flush_current_model_span(parser)
      BY <2>5 DEF agent_end
    <3>2. parser.open # 0 => turns[parser.open].stop # "none"
      BY <1>3, <2>3 DEF Follows, History
    <3>3. Follows(parser', turns, answered) /\ parser'.open = 0 /\ parser'.stop = "none"
      BY <1>3, <2>3, <3>1, Flushes
    <3>4. parser'.output = parser.output /\ parser'.errors = parser.errors
      BY <1>3, <2>3, <3>1, Flushes
    <3>5. \A k \in DOMAIN turns : Closed(parser, k, turns[k], answered) => Closed(parser', k, turns[k], answered)
      BY <1>3, <2>3, <3>1, Flushes
    <3>6. ClosedLate(parser', turns)
      BY <1>3, <2>3, <3>1, <3>2, Flushes
    <3>7. SomeError(parser') => SomeError(parser)
      BY <1>3, <2>3, <3>1, Flushes
    <3>8. Cardinality(Spoiled(parser', turns, answered, Turn)) <= lost'
      <4>1. \A k \in 1 .. Turn : k # 0 => k \in 1 .. Turn /\
              (Right(parser, k, turns[k], answered) => Right(parser', k, turns[k], answered))
        BY <1>3, <1>7, <3>5 DEF Right, Open
      <4>2. 0 \notin 1 .. Turn
        BY <1>7
      <4> QED
        BY <1>3, <1>4, <1>7, <2>2, <4>1, <4>2, Counts
    <3>9. ParserOK'
      BY <1>2, <1>6, <1>8, <1>9, <3>3, <3>6, <3>8, SpoiledThen DEF ParserOK, Streams
    <3>10. ErrorsOK'
      BY <1>2, <1>6, <1>9, <2>1, <2>4, <2>5, <3>4, <3>7 DEF ErrorsOK
    <3> QED
      BY <1>2, <1>5, <3>9, <3>10, NotParsed DEF IInv
  <2>6. CASE parser' = parser /\ lost' = lost + 1
    <3>1. Cardinality(Spoiled(parser, turns, answered, Turn)) <= lost'
      BY <1>3, <1>7, <2>2, <2>6, SpoiledFinite
    <3>2. ParserOK'
      BY <1>2, <1>3, <1>6, <1>8, <1>9, <2>1, <2>6, <3>1, SpoiledThen DEF ParserOK, Streams
    <3>3. ErrorsOK'
      BY <1>2, <1>3, <1>6, <1>9, <2>1, <2>4, <2>6 DEF ErrorsOK
    <3> QED
      BY <1>2, <1>5, <3>2, <3>3, NotParsed DEF IInv
  <2> QED
    BY <1>2, <1>9, <2>5, <2>6 DEF Line
<1>10. CASE format = "claude"
  <2>1. ParserOK /\ ErrorsOK
    BY <1>10 DEF IInv, Streams
  <2>2. ~parser.errors /\ parser \in Parser
    BY <1>3, <2>1 DEF ErrorsOK, ParserOK, Follows
  <2>3. CASE parser' = result_line(parser, failed) /\ lost' = lost
    <3>1. /\ parser' \in Parser /\ parser'.open = parser.open /\ parser'.stop = parser.stop
          /\ parser'.pending = parser.pending /\ parser'.results = parser.results
          /\ parser'.spans = parser.spans /\ parser'.output = parser.output
          /\ parser'.errors <=> failed
      BY <1>2, <2>2, <2>3 DEF result_line, Parser
    <3>2. Follows(parser', turns, answered) /\ ClosedLate(parser', turns)
      BY <2>1, <3>1 DEF ParserOK, Follows, ClosedLate
    <3>3. Cardinality(Spoiled(parser', turns, answered, Turn)) <= lost'
      <4>1. \A k \in 1 .. Turn : k # 0 => k \in 1 .. Turn /\
              (Right(parser, k, turns[k], answered) => Right(parser', k, turns[k], answered))
        BY <3>1 DEF Right, Open, Closed
      <4>2. 0 \notin 1 .. Turn /\ lost <= lost'
        BY <1>4, <1>7
      <4>3. Cardinality(Spoiled(parser, turns, answered, Turn)) <= lost
        BY <1>8, <1>10, <2>1 DEF ParserOK, Streams
      <4> QED
        BY <1>3, <1>4, <1>7, <4>1, <4>2, <4>3, Counts
    <3>4. ParserOK'
      BY <1>2, <1>6, <1>8, <1>10, <2>1, <3>1, <3>2, <3>3, SpoiledThen DEF ParserOK, Streams
    <3>5. ErrorsOK'
      BY <1>1, <1>2, <1>6, <1>10, <2>1, <3>1 DEF ErrorsOK, SomeError
    <3> QED
      BY <1>2, <1>5, <3>4, <3>5, NotParsed DEF IInv
  <2>4. CASE (parser' = parser \/ parser' = no_object(parser)) /\ lost' = lost + 1
    <3>1. Cardinality(Spoiled(parser, turns, answered, Turn)) <= lost'
      <4>1. Cardinality(Spoiled(parser, turns, answered, Turn)) <= lost
        BY <1>8, <1>10, <2>1 DEF ParserOK, Streams
      <4> QED
        BY <1>3, <1>7, <2>4, <4>1, SpoiledFinite
    <3>2. ParserOK'
      BY <1>2, <1>3, <1>6, <1>8, <1>10, <2>1, <2>2, <2>4, <3>1, SpoiledThen, Garbles DEF ParserOK, Streams
    <3>3. ErrorsOK'
      BY <1>2, <1>3, <1>6, <1>10, <2>1, <2>2, <2>4, Garbles DEF ErrorsOK
    <3> QED
      BY <1>2, <1>5, <3>2, <3>3, NotParsed DEF IInv
  <2> QED
    BY <1>2, <1>10, <2>3, <2>4 DEF Line
<1>11. CASE format \notin Streams
  <2>1. format' \notin Streams /\ stage' \notin {"parsed", "raised"}
    BY <1>2, <1>11
  <2> QED
    BY <1>5, <2>1, NoStream
<1> QED
  BY <1>9, <1>10, <1>11 DEF Streams

-----------------------------------------------------------------------------
(* The trajectory.                                                          *)

(* One of the spans is that of turn k, with these calls and this stop.      *)
Tells(spans, k, calls, stop) ==
    LET its == {i \in DOMAIN spans : spans[i].turn = k}
    IN  /\ Cardinality(its) = 1
        /\ \A i \in its : spans[i].calls = calls /\ spans[i].stop = stop

(* It is enough to find the one span of turn k.                             *)
LEMMA TellsOne ==
    ASSUME NEW spans, NEW k, NEW calls, NEW stop, NEW i \in DOMAIN spans,
           spans[i].turn = k, spans[i].calls = calls, spans[i].stop = stop,
           \A j \in DOMAIN spans : spans[j].turn = k => j = i
    PROVE  Tells(spans, k, calls, stop)
<1>1. {j \in DOMAIN spans : spans[j].turn = k} = {i}
  OBVIOUS
<1>2. Cardinality({i}) = 1
  BY FS_Singleton
<1> QED
  BY <1>1, <1>2 DEF Tells

(* A span that is right but for its results is told right once they are     *)
(* attached.                                                                *)
LEMMA Attaches ==
    ASSUME NEW ts, NEW ans, History(ts, ans), NEW p, Follows(p, ts, ans), NEW k \in DOMAIN ts,
           Closed(p, k, ts[k], ans)
    PROVE  Tells(AttachLeft(p), k, CallSpans(ts[k].calls, ans), Told(ts[k].stop))
<1> DEFINE spans == AttachLeft(p)
           cs == ts[k].calls
           Attached(calls) == [j \in DOMAIN calls |->
                                 CallSpan(calls[j].id, calls[j].output \/ calls[j].id \in p.results)]
<1>1. /\ p.spans \in Seq(SpanRecord) /\ DOMAIN p.spans = 1 .. Len(p.spans) /\ Len(p.spans) \in Nat
  BY DEF Follows, Parser
<1>2. /\ DOMAIN spans = DOMAIN p.spans
      /\ \A i \in DOMAIN p.spans : spans[i] = [p.spans[i] EXCEPT !.calls = Attached(p.spans[i].calls)]
  BY DEF AttachLeft
<1>3. \A i \in DOMAIN p.spans : /\ spans[i].turn = p.spans[i].turn /\ spans[i].stop = p.spans[i].stop
                                /\ spans[i].calls = Attached(p.spans[i].calls)
  <2> HIDE DEF spans, Attached
  <2> TAKE i \in DOMAIN p.spans
  <2>1. p.spans[i] \in SpanRecord
    BY <1>1
  <2> QED
    BY <1>2, <2>1 DEF SpanRecord
<1>4. PICK i \in DOMAIN p.spans : p.spans[i].turn = k /\ SpanRight(p.spans[i], ts[k], ans, p.results)
  BY DEF Closed
<1>5. \A j \in DOMAIN p.spans : p.spans[j].turn = k => j = i
  <2> SUFFICES ASSUME NEW j \in DOMAIN p.spans, p.spans[j].turn = k, j # i PROVE FALSE
    OBVIOUS
  <2>1. j < i \/ i < j
    BY <1>1
  <2>2. p.spans[j].turn < p.spans[i].turn \/ p.spans[i].turn < p.spans[j].turn
    BY <2>1 DEF Follows
  <2>3. k \in Nat
    BY DEF History
  <2> QED
    BY <1>4, <2>2, <2>3
<1>6. Attached(p.spans[i].calls) = CallSpans(cs, ans)
  <2> DEFINE calls == p.spans[i].calls
  <2>1. /\ DOMAIN calls = DOMAIN cs
        /\ \A j \in DOMAIN cs : /\ calls[j].id = cs[j]
                                /\ calls[j].output \/ cs[j] \in p.results <=> cs[j] \in ans
    BY <1>4 DEF SpanRight
  <2> HIDE DEF calls, cs
  <2>2. ASSUME NEW j \in DOMAIN cs
        PROVE  CallSpan(calls[j].id, calls[j].output \/ calls[j].id \in p.results)
                 = CallSpan(cs[j], cs[j] \in ans)
    <3>1. calls[j].id = cs[j]
      BY <2>1
    <3>2. (calls[j].output \/ calls[j].id \in p.results) = (cs[j] \in ans)
      BY <2>1
    <3> QED
      BY <3>1, <3>2
  <2>3. Attached(calls) = CallSpans(cs, ans)
    BY <2>1, <2>2 DEF CallSpans
  <2> QED
    BY <2>3 DEF calls
<1>7. /\ spans[i].turn = k /\ spans[i].calls = CallSpans(cs, ans) /\ spans[i].stop = Told(ts[k].stop)
      /\ i \in DOMAIN spans
      /\ \A j \in DOMAIN spans : spans[j].turn = k => j = i
  <2>1. spans[i].stop = Told(ts[k].stop)
    BY <1>3, <1>4 DEF SpanRight
  <2> HIDE DEF spans, cs, Attached
  <2> QED
    BY <1>2, <1>3, <1>4, <1>5, <1>6, <2>1
<1> HIDE DEF spans, cs
<1>8. Tells(spans, k, CallSpans(cs, ans), Told(ts[k].stop))
  BY <1>7, TellsOne
<1> QED
  BY <1>8 DEF spans, cs

(* Errors are those of the spans.                                           *)
LEMMA AttachKeeps ==
    ASSUME NEW p \in Parser
    PROVE  /\ DOMAIN AttachLeft(p) = DOMAIN p.spans /\ Len(AttachLeft(p)) = Len(p.spans)
           /\ \A i \in DOMAIN p.spans : AttachLeft(p)[i].stop = p.spans[i].stop
<1> DEFINE Attached(calls) == [j \in DOMAIN calls |->
                                 CallSpan(calls[j].id, calls[j].output \/ calls[j].id \in p.results)]
<1>1. /\ p.spans \in Seq(SpanRecord) /\ DOMAIN p.spans = 1 .. Len(p.spans) /\ Len(p.spans) \in Nat
  BY DEF Parser
<1>2. AttachLeft(p) = [i \in DOMAIN p.spans |-> [p.spans[i] EXCEPT !.calls = Attached(p.spans[i].calls)]]
  BY DEF AttachLeft
<1> HIDE DEF Attached
<1>3. ASSUME NEW i \in DOMAIN p.spans
      PROVE  AttachLeft(p)[i].stop = p.spans[i].stop
  <2>1. p.spans[i] \in SpanRecord
    BY <1>1
  <2> QED
    BY <1>2, <2>1 DEF SpanRecord
<1>4. DOMAIN AttachLeft(p) = 1 .. Len(p.spans)
  BY <1>1, <1>2
<1>5. Len(AttachLeft(p)) = Len(p.spans)
  BY <1>1, <1>2
<1> QED
  BY <1>1, <1>3, <1>4, <1>5

(* The trajectory of the turns of a session.                                *)
LEMMA ToldRightIs ==
    ASSUME format' = format, turns' = turns, answered' = answered
    PROVE  \A k : ToldRight(k)' <=>
             Tells(result'.spans, k, CallSpans(turns[k].calls, answered), Told(turns[k].stop))
  BY DEF ToldRight, Tells, Told

(* What a trajectory tells of a stream.                                     *)
LEMMA StreamTold ==
    ASSUME NEW n \in Nat, NEW l \in Nat, NEW p, Follows(p, turns, answered), History(turns, answered),
           n <= Turn, NEW q, Cardinality(Spoiled(q, turns, answered, n)) <= l,
           \A k \in 1 .. n : Right(q, k, turns[k], answered) => Closed(p, k, turns[k], answered),
           format' = format, turns' = turns, answered' = answered, result'.spans = AttachLeft(p)
    PROVE  Cardinality({k \in 1 .. n : ~ToldRight(k)'}) <= l
<1> DEFINE S == {k \in 1 .. n : ~ToldRight(k)'}
<1>1. \A k \in 1 .. n : Right(q, k, turns[k], answered) => ToldRight(k)'
  <2> SUFFICES ASSUME NEW k \in 1 .. n, Right(q, k, turns[k], answered) PROVE ToldRight(k)'
    OBVIOUS
  <2>1. k \in DOMAIN turns
    BY DEF Turn, History
  <2>2. Closed(p, k, turns[k], answered)
    OBVIOUS
  <2>3. Tells(AttachLeft(p), k, CallSpans(turns[k].calls, answered), Told(turns[k].stop))
    BY <2>1, <2>2, Attaches
  <2> QED
    BY <2>3, ToldRightIs
<1>2. S \subseteq Spoiled(q, turns, answered, n)
  BY <1>1 DEF Spoiled
<1>3. IsFiniteSet(Spoiled(q, turns, answered, n)) /\ Cardinality(Spoiled(q, turns, answered, n)) \in Nat
  BY SpoiledFinite
<1> HIDE DEF S
<1>4. Cardinality(S) <= Cardinality(Spoiled(q, turns, answered, n)) /\ Cardinality(S) \in Nat
  BY <1>2, <1>3, FS_Subset, FS_CardinalityType
<1>5. Cardinality(S) <= l
  BY <1>3, <1>4
<1> QED
  BY <1>5 DEF S

(* With nothing lost and nothing open, the last span is that of the last    *)
(* turn, and a span tells an error if a turn was one.                       *)
LEMMA ErrorsTold ==
    ASSUME format = "pi", NEW ts, NEW ans, History(ts, ans), NEW p, Follows(p, ts, ans),
           \A k \in DOMAIN ts : Closed(p, k, ts[k], ans)
    PROVE  /\ (\E k \in DOMAIN ts : ts[k].stop = "error") => SomeError(p)
           /\ Len(ts) > 0 => Last(p.spans).stop = ts[Len(ts)].stop
<1>1. /\ p.spans \in Seq(SpanRecord) /\ DOMAIN p.spans = 1 .. Len(p.spans) /\ Len(p.spans) \in Nat
      /\ DOMAIN ts = 1 .. Len(ts) /\ Len(ts) \in Nat
  BY DEF Follows, Parser, History
<1>2. ASSUME NEW k \in DOMAIN ts
      PROVE  \E i \in DOMAIN p.spans : p.spans[i].turn = k /\ p.spans[i].stop = ts[k].stop
  BY <1>2 DEF Closed, SpanRight, Told
<1>3. ASSUME Len(ts) > 0
      PROVE  Last(p.spans).stop = ts[Len(ts)].stop
  <2>1. Len(ts) \in DOMAIN ts
    BY <1>1, <1>3
  <2>2. PICK i \in DOMAIN p.spans : p.spans[i].turn = Len(ts) /\ p.spans[i].stop = ts[Len(ts)].stop
    BY <1>2, <2>1
  <2>3. \A j \in DOMAIN p.spans : p.spans[j].turn \in 1 .. Len(ts)
    BY <1>1 DEF Follows
  <2>4. i = Len(p.spans)
    <3> SUFFICES ASSUME i # Len(p.spans) PROVE FALSE
      OBVIOUS
    <3>1. Len(p.spans) \in DOMAIN p.spans /\ i < Len(p.spans)
      BY <1>1, <2>2
    <3>2. p.spans[i].turn < p.spans[Len(p.spans)].turn
      BY <2>2, <3>1 DEF Follows
    <3> QED
      BY <1>1, <2>2, <2>3, <3>1, <3>2
  <2> QED
    BY <2>2, <2>4 DEF Last
<1>4. (\E k \in DOMAIN ts : ts[k].stop = "error") => SomeError(p)
  BY <1>2 DEF SomeError
<1> QED
  BY <1>3, <1>4

(* Parse does not touch the session.                                        *)
LEMMA ParseSession ==
    ASSUME IInv, Parse
    PROVE  /\ SessionOK' /\ turns' = turns /\ answered' = answered /\ format' = format
           /\ lost' = lost /\ aborted' = aborted /\ parser' = parser
           /\ stage' = IF parser.raised THEN "raised" ELSE "parsed"
           /\ Ended' = Ended /\ Turn' = Turn /\ Streamed' = Streamed
           /\ format \in Streams => ParserOK' /\ ErrorsOK'
<1>1. /\ turns' = turns /\ answered' = answered /\ format' = format /\ stage = "over"
      /\ lost' = lost /\ aborted' = aborted /\ parser' = parser
      /\ stage' = IF parser.raised THEN "raised" ELSE "parsed"
  BY DEF Parse, NoLine
<1>2. Ended' = Ended /\ Turn' = Turn /\ Streamed' = Streamed /\ Used' = Used
  BY <1>1 DEF Ended, Turn, Streamed, Used
<1>3. SessionOK'
  <2>1. SessionOK
    BY DEF IInv
  <2>2. PICK u \in Nat : Used = 1 .. u
    BY <2>1 DEF SessionOK
  <2>3. (\E n \in Nat : Used = 1 .. n)'
    BY <1>2, <2>2
  <2> QED
    BY <1>1, <1>2, <2>1, <2>3 DEF SessionOK, Stages
<1>4. Erred' = Erred /\ Wrote' = Wrote
  BY <1>1 DEF Erred, Wrote
<1>5. ASSUME format \in Streams PROVE ParserOK' /\ ErrorsOK'
  <2>1. ParserOK /\ ErrorsOK
    BY <1>5 DEF IInv
  <2>2. ParserOK'
    BY <1>1, <1>2, <2>1, SpoiledThen DEF ParserOK
  <2>3. ErrorsOK'
    BY <1>1, <1>4, <2>1 DEF ErrorsOK
  <2> QED
    BY <2>2, <2>3
<1> QED
  BY <1>1, <1>2, <1>3, <1>5

(* Pi: what is still open is closed, and the results left are attached.     *)
LEMMA ParsePi ==
    ASSUME IInv, RaisedOK, Parse, format = "pi"
    PROVE  LossContained' /\ EndsInErrorIsTold'
<1>1. /\ turns' = turns /\ answered' = answered /\ format' = format
      /\ lost' = lost /\ Turn' = Turn /\ ~parser.raised /\ stage' = "parsed"
  BY ParseSession DEF RaisedOK
<1>2. /\ SessionOK /\ ParserOK /\ ErrorsOK /\ lost \in Nat /\ History(turns, answered)
  BY DEF IInv, Streams, SessionOK
<1>3. Turn \in Nat /\ DOMAIN turns = 1 .. Turn /\ Len(turns) = Turn
  BY <1>2 DEF History, Turn
<1> DEFINE q == flush_current_model_span(parser)
<1>4. result' = [spans |-> AttachLeft(q), errors |-> _collect_agent_errors(AttachLeft(q), q.output)]
  BY <1>1 DEF Parse, parse_pi_json_output
<1>5. Follows(parser, turns, answered) /\ parser.stop = "none"
  BY <1>2 DEF ParserOK
<1>6. Follows(q, turns, answered)
  BY <1>2, <1>5, Flushes
<1>7. q.output = parser.output
  BY <1>2, <1>5, Flushes
<1>8. SomeError(q) => SomeError(parser)
  BY <1>2, <1>5, Flushes
<1>9. \A k \in DOMAIN turns : Right(parser, k, turns[k], answered) => Closed(q, k, turns[k], answered)
  <2> SUFFICES ASSUME NEW k \in DOMAIN turns, Right(parser, k, turns[k], answered)
               PROVE  Closed(q, k, turns[k], answered)
    OBVIOUS
  <2>1. CASE Closed(parser, k, turns[k], answered)
    BY <1>2, <1>5, <2>1, Flushes
  <2>2. CASE Open(parser, k, turns[k])
    <3>1. /\ parser.open # 0 /\ parser.pending = turns[parser.open].calls
          /\ parser.stop = Told(turns[parser.open].stop) /\ ToSet(parser.pending) \cap answered = {}
      BY <1>2, <1>3, <1>5, <2>2 DEF Open, History, Told
    <3>2. Closed(q, parser.open, turns[parser.open], answered)
      BY <1>2, <1>5, <3>1, Flushes
    <3> QED
      BY <2>2, <3>2 DEF Open
  <2> QED
    BY <2>1, <2>2 DEF Right
<1>10. Cardinality(Spoiled(parser, turns, answered, Turn)) <= lost
  BY <1>2 DEF ParserOK, Streamed
<1> HIDE DEF q
<1>11. LossContained'
  <2>1. result'.spans = AttachLeft(q)
    BY <1>4
  <2>2. Cardinality({k \in 1 .. Turn : ~ToldRight(k)'}) <= lost
    <3>1. Turn <= Turn
      BY <1>3
    <3> QED
      BY <1>1, <1>2, <1>3, <1>6, <1>9, <1>10, <2>1, <3>1, StreamTold
  <2>3. Tellable' = 1 .. Turn
    BY <1>1 DEF Tellable
  <2> QED
    BY <1>1, <2>2, <2>3 DEF LossContained, Streams
<1>12. q \in Parser
  BY <1>6 DEF Follows
<1>13. /\ DOMAIN AttachLeft(q) = DOMAIN q.spans /\ Len(AttachLeft(q)) = Len(q.spans)
       /\ \A i \in DOMAIN q.spans : AttachLeft(q)[i].stop = q.spans[i].stop
  BY <1>12, AttachKeeps
<1>14. (\E k \in DOMAIN AttachLeft(q) : AttachLeft(q)[k].stop = "error") <=> SomeError(q)
  BY <1>13 DEF SomeError
<1>15. result'.errors <=> SomeError(q) /\ (Last(AttachLeft(q)).stop = "error" \/ ~q.output)
  BY <1>4, <1>14 DEF _collect_agent_errors
<1>16. result'.errors => Erred
  BY <1>2, <1>8, <1>15 DEF ErrorsOK
<1>17. ASSUME lost = 0
       PROVE  result'.errors <=> Erred /\ (turns[Turn].stop = "error" \/ ~Wrote)
  <2>1. \A k \in DOMAIN turns : Closed(q, k, turns[k], answered)
    <3>1. Cardinality(Spoiled(parser, turns, answered, Turn)) <= 0
      BY <1>10, <1>17
    <3> QED
      BY <1>3, <1>9, <3>1, NoneSpoiled
  <2>2. Erred => SomeError(q)
    BY <1>2, <1>6, <2>1, ErrorsTold DEF Erred
  <2>3. q.output <=> Wrote
    BY <1>2, <1>7, <1>17 DEF ErrorsOK
  <2>4. SomeError(q) => Erred
    BY <1>2, <1>8 DEF ErrorsOK
  <2>5. Erred => Last(AttachLeft(q)).stop = turns[Turn].stop
    <3> SUFFICES ASSUME Erred PROVE Last(AttachLeft(q)).stop = turns[Turn].stop
      OBVIOUS
    <3>1. Turn > 0
      BY <1>3 DEF Erred
    <3>2. Last(q.spans).stop = turns[Turn].stop
      BY <1>2, <1>3, <1>6, <2>1, <3>1, ErrorsTold
    <3>3. SomeError(q)
      BY <2>2
    <3>4. Len(q.spans) \in DOMAIN q.spans
      <4>1. q.spans \in Seq(SpanRecord)
        BY <1>12 DEF Parser
      <4> QED
        BY <3>3, <4>1 DEF SomeError
    <3> QED
      BY <1>13, <3>2, <3>4 DEF Last
  <2> QED
    BY <1>15, <2>2, <2>3, <2>4, <2>5
<1>18. EndsInErrorIsTold'
  <2>1. Erred <=> (\E k \in 1 .. Turn : turns[k].stop = "error")
    BY <1>3 DEF Erred
  <2>2. Wrote <=> (\E k \in 1 .. Turn : turns[k].tokens)
    BY <1>3 DEF Wrote
  <2> QED
    BY <1>1, <1>16, <1>17, <2>1, <2>2 DEF EndsInErrorIsTold
<1> QED
  BY <1>11, <1>18

(* Claude Code: nothing is open.                                            *)
LEMMA ParseClaude ==
    ASSUME IInv, RaisedOK, Parse, format = "claude", ~parser.raised
    PROVE  LossContained' /\ EndsInErrorIsTold'
<1>1. /\ turns' = turns /\ answered' = answered /\ format' = format /\ aborted' = aborted
      /\ lost' = lost /\ Ended' = Ended /\ stage' = "parsed"
  BY ParseSession
<1>2. /\ SessionOK /\ ParserOK /\ ErrorsOK /\ lost \in Nat /\ History(turns, answered)
  BY DEF IInv, Streams, SessionOK
<1>3. Ended \in Nat /\ Ended <= Turn /\ DOMAIN turns = 1 .. Turn /\ Turn \in Nat
  <2>1. Turn \in Nat /\ DOMAIN turns = 1 .. Turn
    BY <1>2 DEF History, Turn
  <2> QED
    BY <2>1 DEF Ended
<1>4. result' = [spans |-> AttachLeft(parser), errors |-> parser.errors]
  BY DEF Parse, parse_stream_json
<1>5. Follows(parser, turns, answered) /\ parser.open = 0
  BY <1>2 DEF ParserOK
<1>6. Cardinality(Spoiled(parser, turns, answered, Ended)) <= lost
  BY <1>2 DEF ParserOK, Streamed
<1>7. \A k \in 1 .. Ended : Right(parser, k, turns[k], answered) => Closed(parser, k, turns[k], answered)
  BY <1>3, <1>5 DEF Right, Open
<1>8. LossContained'
  <2>1. result'.spans = AttachLeft(parser)
    BY <1>4
  <2>2. Cardinality({k \in 1 .. Ended : ~ToldRight(k)'}) <= lost
    BY <1>1, <1>2, <1>3, <1>5, <1>6, <1>7, <2>1, StreamTold
  <2>3. Tellable' = 1 .. Ended
    BY <1>1 DEF Tellable
  <2> QED
    BY <1>1, <2>2, <2>3 DEF LossContained, Streams
<1>9. EndsInErrorIsTold'
  BY <1>1, <1>2, <1>4 DEF EndsInErrorIsTold, ErrorsOK
<1> QED
  BY <1>8, <1>9

(* The other formats have no stream.                                        *)
LEMMA ParseFile ==
    ASSUME IInv, RaisedOK, Parse, format \notin Streams
    PROVE  LossContained' /\ EndsInErrorIsTold'
<1>1. /\ format' = format /\ aborted' = aborted /\ ~parser.raised /\ stage' = "parsed"
  BY ParseSession DEF RaisedOK, Streams
<1>2. LossContained'
  BY <1>1 DEF LossContained
<1>3. format \in {"eddy", "react"} => (aborted => result'.errors)
  BY <1>1 DEF Parse, parse_eddy_trajectory, _collect_trajectory_from_messages
<1> QED
  BY <1>1, <1>2, <1>3 DEF EndsInErrorIsTold, Streams

(* A line made the parser of Claude Code give up.                           *)
LEMMA ParseRaises ==
    ASSUME IInv, RaisedOK, Parse, parser.raised
    PROVE  LossContained' /\ EndsInErrorIsTold'
<1>1. format' = format /\ lost' = lost /\ stage' = "raised"
  BY ParseSession
<1> QED
  BY <1>1 DEF RaisedOK, LossContained, EndsInErrorIsTold

LEMMA ParseKeeps == IInv /\ RaisedOK /\ Parse => IInv'
<1> SUFFICES ASSUME IInv, RaisedOK, Parse PROVE IInv'
  OBVIOUS
<1>1. LossContained' /\ EndsInErrorIsTold'
  BY ParsePi, ParseClaude, ParseFile, ParseRaises DEF Streams
<1>2. SessionOK' /\ format' = format /\ (format \in Streams => ParserOK' /\ ErrorsOK')
  BY ParseSession
<1> QED
  BY <1>1, <1>2 DEF IInv

-----------------------------------------------------------------------------
(* The invariant.                                                           *)

LEMMA InitInvariant == Init => IInv
<1> SUFFICES ASSUME Init PROVE IInv
  OBVIOUS
<1>1. /\ format \in Formats /\ stage = "ready" /\ turns = <<>> /\ answered = {} /\ aborted = FALSE
      /\ lost = 0 /\ parser = Idle
  BY DEF Init
<1>2. /\ turns \in Seq(TurnRecord) /\ Len(turns) = 0 /\ DOMAIN turns = {} /\ Turn = 0
  <2>1. <<>> \in Seq(TurnRecord) /\ Len(<<>>) = 0 /\ DOMAIN <<>> = {}
    OBVIOUS
  <2> QED
    BY <1>1, <2>1 DEF Turn
<1>3. Used = 1 .. 0
  BY <1>2 DEF Used
<1>4. SessionOK
  <2>1. History(turns, answered)
    BY <1>2 DEF History
  <2>2. \E n \in Nat : Used = 1 .. n
    BY <1>3
  <2> QED
    BY <1>1, <1>2, <2>1, <2>2 DEF SessionOK, Stages
<1>5. /\ parser \in Parser /\ parser.open = 0 /\ parser.stop = "none" /\ parser.pending = <<>>
      /\ parser.results = {} /\ parser.spans = <<>> /\ ~parser.output /\ ~parser.errors
  <2>1. <<>> \in Seq(Nat) /\ <<>> \in Seq(SpanRecord) /\ {} \in SUBSET Nat
    OBVIOUS
  <2> QED
    BY <1>1, <2>1 DEF Idle, Parser, Stops
<1>6. DOMAIN parser.spans = {} /\ ToSet(parser.pending) = {}
  <2>1. DOMAIN <<>> = {}
    OBVIOUS
  <2> QED
    BY <1>5, <2>1 DEF ToSet
<1>7. ParserOK
  <2>1. Follows(parser, turns, answered)
    BY <1>2, <1>5, <1>6 DEF Follows
  <2>2. ClosedLate(parser, turns)
    BY <1>6 DEF ClosedLate
  <2>3. Streamed = 0
    BY <1>2 DEF Streamed, Ended
  <2>4. Cardinality(Spoiled(parser, turns, answered, 0)) <= 0
    <3>1. Spoiled(parser, turns, answered, 0) = {}
      BY DEF Spoiled
    <3> QED
      BY <3>1, FS_EmptySet
  <2> QED
    BY <1>1, <1>5, <2>1, <2>2, <2>3, <2>4 DEF ParserOK
<1>8. ErrorsOK
  BY <1>1, <1>2, <1>5, <1>6 DEF ErrorsOK, SomeError, Wrote
<1>9. LossContained /\ EndsInErrorIsTold
  BY <1>1 DEF LossContained, EndsInErrorIsTold
<1> QED
  BY <1>4, <1>7, <1>8, <1>9 DEF IInv

LEMMA StutterKeeps == IInv /\ UNCHANGED vars => IInv'
<1> SUFFICES ASSUME IInv, UNCHANGED vars PROVE IInv'
  OBVIOUS
<1>1. /\ format' = format /\ stage' = stage /\ turns' = turns /\ answered' = answered
      /\ aborted' = aborted /\ lost' = lost /\ parser' = parser /\ result' = result
  BY DEF vars, session
<1>2. /\ Used' = Used /\ Turn' = Turn /\ Ended' = Ended /\ Streamed' = Streamed
      /\ Erred' = Erred /\ Wrote' = Wrote
  BY <1>1 DEF Used, Turn, Ended, Streamed, Erred, Wrote
<1>3. SessionOK'
  <2>1. SessionOK
    BY DEF IInv
  <2>2. PICK u \in Nat : Used = 1 .. u
    BY <2>1 DEF SessionOK
  <2>3. (\E n \in Nat : Used = 1 .. n)'
    BY <1>2, <2>2
  <2> QED
    BY <1>1, <1>2, <2>1, <2>3 DEF SessionOK
<1>4. format \in Streams => ParserOK' /\ ErrorsOK'
  BY <1>1, <1>2, SpoiledThen DEF IInv, ParserOK, ErrorsOK
<1>5. LossContained'
  <2>1. Tellable' = Tellable
    BY <1>1, <1>2 DEF Tellable
  <2>2. \A k : ToldRight(k)' <=> ToldRight(k)
    BY <1>1 DEF ToldRight
  <2>3. {k \in Tellable' : ~ToldRight(k)'} = {k \in Tellable : ~ToldRight(k)}
    BY <2>1, <2>2
  <2>4. LossContained
    BY DEF IInv
  <2> QED
    BY <1>1, <2>3, <2>4 DEF LossContained
<1>6. EndsInErrorIsTold'
  BY <1>1, <1>2 DEF IInv, EndsInErrorIsTold
<1> QED
  BY <1>1, <1>3, <1>4, <1>5, <1>6 DEF IInv

LEMMA NextInvariant == IInv /\ RaisedOK /\ [Next]_vars => IInv'
<1> SUFFICES ASSUME IInv, RaisedOK, [Next]_vars PROVE IInv'
  OBVIOUS
<1>1. CASE StartTurn
  BY <1>1, StartTurnKeeps
<1>2. CASE Call
  BY <1>2, CallKeeps
<1>3. ASSUME NEW stop \in {"tool_use", "end", "error"}, NEW tokens \in BOOLEAN, EndTurn(stop, tokens)
      PROVE  IInv'
  BY <1>3, EndTurnKeeps
<1>4. ASSUME NEW c \in 1 .. MaxCalls, ToolResult(c) PROVE IInv'
  BY <1>4, ToolResultKeeps
<1>5. CASE ToolsDone \/ max_turn_exceeded_alert \/ Killed \/ Raise
  BY <1>5, QuietSteps
<1>6. CASE SessionEnds
  BY <1>6, SessionEndsKeeps
<1>7. CASE Parse
  BY <1>7, ParseKeeps
<1>8. CASE UNCHANGED vars
  BY <1>8, StutterKeeps
<1> QED
  BY <1>1, <1>2, <1>3, <1>4, <1>5, <1>6, <1>7, <1>8 DEF Next

(* No event of a stream makes a parser give up.                             *)
LEMMA EventsDoNotRaise ==
    ASSUME NEW p \in Parser
    PROVE  /\ \A t : message_start(p, t).raised = p.raised
           /\ \A c : toolcall_start(p, c).raised = p.raised
           /\ \A cs, stop, tokens : message_end(p, cs, stop, tokens).raised = p.raised
           /\ \A c : tool_result(p, c).raised = p.raised
           /\ agent_end(p).raised = p.raised
           /\ \A t, cs : assistant(p, t, cs).raised = p.raised
           /\ \A failed : result_line(p, failed).raised = p.raised
<1>1. flush_current_model_span(p).raised = p.raised /\ agent_end(p).raised = p.raised
  BY DEF flush_current_model_span, agent_end, Parser
<1>2. \A t : message_start(p, t).raised = p.raised
  <2> DEFINE q == flush_current_model_span(p)
  <2>1. DOMAIN q = DOMAIN p
    BY DEF flush_current_model_span
  <2> HIDE DEF q
  <2>2. \A t : [q EXCEPT !.open = t].raised = q.raised
    BY <2>1 DEF Parser
  <2> QED
    BY <1>1, <2>2 DEF message_start, q
<1>3. \A c : toolcall_start(p, c).raised = p.raised
  BY DEF toolcall_start, Parser
<1>4. ASSUME NEW cs, NEW stop, NEW tokens
      PROVE  message_end(p, cs, stop, tokens).raised = p.raised
  <2> DEFINE q == [p EXCEPT !.pending = AddCalls(p.pending, cs), !.output = p.output \/ tokens,
                            !.stop = stop]
  <2>1. q.raised = p.raised /\ DOMAIN q = DOMAIN p
    BY DEF Parser
  <2>2. message_end(p, cs, stop, tokens) = IF p.open = 0 THEN p ELSE flush_current_model_span(q)
    BY DEF message_end
  <2> HIDE DEF q
  <2>3. flush_current_model_span(q).raised = q.raised
    BY <2>1 DEF flush_current_model_span, Parser
  <2> QED
    BY <2>1, <2>2, <2>3
<1>5. (\A c : tool_result(p, c).raised = p.raised) /\ \A failed : result_line(p, failed).raised = p.raised
  BY DEF tool_result, result_line, Parser
<1>6. \A t, cs : assistant(p, t, cs).raised = p.raised
  BY DEF assistant, Parser
<1> QED
  BY <1>1, <1>2, <1>3, <1>4, <1>5, <1>6

(* An event that is read, or a line that is lost.                           *)
LEMMA LineRaises ==
    ASSUME IInv, RaisedOK, format' = format, NEW p, Line(p), p.raised = parser.raised
    PROVE  RaisedOK'
<1>1. lost \in Nat
  BY DEF IInv, SessionOK
<1>2. CASE parser' = p /\ lost' = lost
  BY <1>2 DEF RaisedOK
<1>3. CASE parser' = parser /\ lost' = lost + 1
  BY <1>1, <1>3 DEF RaisedOK
<1>4. CASE format = "claude" /\ lost' = lost + 1
  BY <1>1, <1>4 DEF RaisedOK
<1> QED
  BY <1>2, <1>3, <1>4 DEF Line

LEMMA RaisedKeeps == IInv /\ RaisedOK /\ [Next]_vars => RaisedOK'
<1> SUFFICES ASSUME IInv, RaisedOK, [Next]_vars PROVE RaisedOK'
  OBVIOUS
<1>1. format' = format
  BY DEF Next, vars, session, StartTurn, Call, EndTurn, ToolResult, ToolsDone, max_turn_exceeded_alert,
         SessionEnds, Killed, Raise, Parse
<1>2. lost \in Nat /\ (format \in Streams => parser \in Parser)
  BY DEF IInv, SessionOK, ParserOK, Follows
<1>3. ASSUME NoLine PROVE RaisedOK'
  BY <1>1, <1>3 DEF NoLine, RaisedOK
<1>4. CASE StartTurn
  <2>1. CASE format = "pi"
    <3>1. Line(message_start(parser, Turn + 1))
      BY <1>4, <2>1 DEF StartTurn
    <3> QED
      BY <1>1, <1>2, <2>1, <3>1, EventsDoNotRaise, LineRaises DEF Streams
  <2>2. CASE format # "pi"
    BY <1>3, <1>4, <2>2 DEF StartTurn
  <2> QED
    BY <2>1, <2>2
<1>5. CASE Call
  <2>1. CASE format = "pi"
    <3>1. Line(toolcall_start(parser, Cardinality(Used) + 1))
      BY <1>5, <2>1 DEF Call
    <3> QED
      BY <1>1, <1>2, <2>1, <3>1, EventsDoNotRaise, LineRaises DEF Streams
  <2>2. CASE format # "pi"
    BY <1>3, <1>5, <2>2 DEF Call
  <2> QED
    BY <2>1, <2>2
<1>6. ASSUME NEW stop, NEW tokens, EndTurn(stop, tokens) PROVE RaisedOK'
  <2>1. CASE format = "pi"
    <3>1. Line(message_end(parser, turns[Turn].calls, stop, tokens))
      BY <1>6, <2>1 DEF EndTurn
    <3> QED
      BY <1>1, <1>2, <2>1, <3>1, EventsDoNotRaise, LineRaises DEF Streams
  <2>2. CASE format = "claude"
    <3>1. Line(assistant(parser, Turn, turns[Turn].calls))
      BY <1>6, <2>2 DEF EndTurn
    <3> QED
      BY <1>1, <1>2, <2>2, <3>1, EventsDoNotRaise, LineRaises DEF Streams
  <2>3. CASE format \notin Streams
    BY <1>3, <1>6, <2>3 DEF EndTurn, Streams
  <2> QED
    BY <2>1, <2>2, <2>3 DEF Streams
<1>7. ASSUME NEW c, ToolResult(c) PROVE RaisedOK'
  <2>1. CASE format = "pi"
    <3>1. PICK k \in 0 .. 2 : /\ lost' = lost + k
                              /\ parser' = IF k = 2 THEN parser ELSE tool_result(parser, c)
      BY <1>7, <2>1 DEF ToolResult
    <3>2. parser'.raised = parser.raised
      BY <1>2, <2>1, <3>1, EventsDoNotRaise DEF Streams
    <3> QED
      BY <2>1, <3>2 DEF RaisedOK
  <2>2. CASE format = "claude"
    <3>1. Line(tool_result(parser, c))
      BY <1>7, <2>2 DEF ToolResult
    <3> QED
      BY <1>1, <1>2, <2>2, <3>1, EventsDoNotRaise, LineRaises DEF Streams
  <2>3. CASE format \notin Streams
    BY <1>3, <1>7, <2>3 DEF ToolResult, Streams
  <2> QED
    BY <2>1, <2>2, <2>3 DEF Streams
<1>8. CASE SessionEnds
  <2>1. PICK failed : CASE format = "pi" -> Line(agent_end(parser))
                        [] format = "claude" -> Line(result_line(parser, failed))
                        [] OTHER -> NoLine
    BY <1>8 DEF SessionEnds
  <2>2. CASE format = "pi"
    BY <1>1, <1>2, <2>1, <2>2, EventsDoNotRaise, LineRaises DEF Streams
  <2>3. CASE format = "claude"
    BY <1>1, <1>2, <2>1, <2>3, EventsDoNotRaise, LineRaises DEF Streams
  <2>4. CASE format \notin Streams
    BY <1>3, <2>1, <2>4 DEF Streams
  <2> QED
    BY <2>2, <2>3, <2>4 DEF Streams
<1>9. CASE ToolsDone \/ max_turn_exceeded_alert \/ Killed \/ Raise \/ Parse
  BY <1>3, <1>9 DEF ToolsDone, max_turn_exceeded_alert, Killed, Raise, Parse
<1>10. CASE UNCHANGED vars
  BY <1>10 DEF vars, RaisedOK, session
<1> QED
  BY <1>4, <1>5, <1>6, <1>7, <1>8, <1>9, <1>10 DEF Next

LEMMA Invariant == Spec => [](IInv /\ RaisedOK)
<1>1. Init => IInv /\ RaisedOK
  BY InitInvariant DEF Init, Idle, RaisedOK
<1>2. IInv /\ RaisedOK /\ [Next]_vars => IInv' /\ RaisedOK'
  BY NextInvariant, RaisedKeeps
<1> QED
  BY <1>1, <1>2, PTL DEF Spec

-----------------------------------------------------------------------------
(* The theorems.                                                            *)

(* However long a session of Pi or Claude Code is and whichever lines of    *)
(* its stream are lost, a trajectory tells all its turns right but one per  *)
(* lost line: calls stay in the span of their turn and results reach their  *)
(* own call, and with every line read the trajectory is the session.  Only  *)
(* a line of Claude Code that is JSON but no object, in place of a lost     *)
(* one, leaves no trajectory (parse_pi_json_output, parse_stream_json).     *)
THEOREM LossIsContained == Spec => []LossContained
<1>1. IInv => LossContained
  BY DEF IInv
<1> QED
  BY <1>1, Invariant, PTL

(* A session that ended on an error is told as failed, one that recovered   *)
(* from its errors is not, and no lost line turns a session without errors  *)
(* into a failed one (_collect_agent_errors, the result line of Claude      *)
(* Code, the status of an eddy session, arun).                              *)
THEOREM ErrorsAreTold == Spec => []EndsInErrorIsTold
<1>1. IInv => EndsInErrorIsTold
  BY DEF IInv
<1> QED
  BY <1>1, Invariant, PTL
=============================================================================
