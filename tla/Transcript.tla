----------------------------- MODULE Transcript -----------------------------
(***************************************************************************)
(* The tool history of a run (Session.ToolHistories) and the operations    *)
(* that shorten it: exec/todo, exec/compact.                               *)
(*                                                                         *)
(* A message keeps what these operations look at.  An assistant message    *)
(* has its tool calls and whether it has text (says); a tool message names *)
(* the call it answers (of); a user message names what it tells: the calls *)
(* whose results it repeats and the steers it holds.  A call is named by   *)
(* <<turn, position>>, a steer by <<0, n>>.                                *)
(***************************************************************************)
EXTENDS Naturals, Sequences, SequencesExt, Sublists

CONSTANTS
    Todo,   \* the tool write_todo
    None    \* no call

Message(role, calls, of, says, tells) ==
    [role |-> role, calls |-> calls, of |-> of, says |-> says, tells |-> tells]

Asking(calls, says) == Message("assistant", calls, None, says, {})
Answer(id) == Message("tool", <<>>, id, TRUE, {})
Text == Message("assistant", <<>>, None, TRUE, {})
Note(tells) == Message("user", <<>>, None, TRUE, tells)

With(m, calls) == Message(m.role, calls, m.of, m.says, m.tells)

IdsOf(calls) == { calls[i].id : i \in DOMAIN calls }

AllIds(msgs) == UNION { IdsOf(msgs[i].calls) : i \in DOMAIN msgs }

HasTodo(m) == \E i \in DOMAIN m.calls : m.calls[i].tool = Todo

TodoIds(msgs) ==
    UNION { { m.calls[i].id : i \in { j \in DOMAIN m.calls : m.calls[j].tool = Todo } } :
                m \in Range(msgs) }

\* What a stretch of history tells a reader: results, and what user messages tell.
ResultsIn(msgs) == { m.of : m \in { n \in Range(msgs) : n.role = "tool" } }

Told(msgs) == ResultsIn(msgs) \cup UNION { m.tells : m \in Range(msgs) }

-----------------------------------------------------------------------------
(* exec/todo *)

Others(calls, ids) == Pick(calls, { k \in DOMAIN calls : calls[k].id \notin ids })

\* Without the write_todo calls and their results; an assistant message left
\* without calls stays only when it has text.
Strip(msgs) ==
    LET ids  == TodoIds(msgs)
        left == [i \in DOMAIN msgs |-> With(msgs[i], Others(msgs[i].calls, ids))]
        Stays(i) == /\ msgs[i].of \notin ids
                    /\ msgs[i].calls # <<>> /\ left[i].calls = <<>> => msgs[i].says
    IN Pick(left, { i \in DOMAIN msgs : Stays(i) })

\* The last message with a write_todo, cut down to its first such call, and the result.
LastPair(msgs) ==
    LET at == SelectLastInSeq(msgs, HasTodo)
    IN IF at = 0 THEN <<>>
       ELSE LET calls == msgs[at].calls
                first == calls[SelectInSeq(calls, LAMBDA c : c.tool = Todo)]
                reply == SelectInSubSeq(msgs, at + 1, Len(msgs), LAMBDA m : m.of = first.id)
            IN IF reply = 0 THEN <<>>
               ELSE <<Asking(<<first>>, FALSE), msgs[reply]>>

-----------------------------------------------------------------------------
(* exec/compact *)

CallIndices(msgs) == { i \in DOMAIN msgs : msgs[i].calls # <<>> }

\* The k-th message with calls.
CallIndex(msgs, k) == Nth(CallIndices(msgs), k)

AtLeast(a, b) == IF a >= b THEN a ELSE b
AtMost(a, b) == IF a <= b THEN a ELSE b

\* How many of the oldest call messages are summarised: a fifth of them, rounded.
CompactSize(total) == AtMost(AtLeast((2 * total + 5) \div 10, 2), total - 1)

CanCompact(msgs) == Cardinality(CallIndices(Strip(msgs))) >= 3

\* Variant for mutation checks: the newest message of the summarised part is left out.
CompactedShort(msgs) ==
    LET histories == Strip(msgs)
        idx == CallIndex(histories, CompactSize(Cardinality(CallIndices(histories))) + 1)
    IN <<Note(Told(SubSeq(histories, 1, idx - 2)))>>
           \o LastPair(msgs) \o SubSeq(histories, idx, Len(histories))

\* ToolHistory with a usable summary: the summary, the plan, the newer messages.
Compacted(msgs) ==
    LET histories == Strip(msgs)
        idx == CallIndex(histories, CompactSize(Cardinality(CallIndices(histories))) + 1)
    IN <<Note(Told(SubSeq(histories, 1, idx - 1)))>>
           \o LastPair(msgs) \o SubSeq(histories, idx, Len(histories))

HasRaw(msgs) == ResultsIn(Strip(msgs)) # {}

\* RawToolFallback: only results are carried over, in one message, with the plan.
RawKept(msgs) == <<Note(ResultsIn(Strip(msgs)))>> \o LastPair(msgs)

\* pruneToolsWithDecision: any call messages but the latest may be found unneeded; one
\* with a write_todo is never asked about.
Steps(msgs) == { i \in CallIndices(msgs) : ~HasTodo(msgs[i]) }

Prunable(msgs) == { i \in Steps(msgs) : \E j \in Steps(msgs) : j > i }

\* Variant for mutation checks: the results stay.
WithoutCalls(msgs, drop) ==
    Pick(msgs, DOMAIN msgs \ drop)

WithoutGroups(msgs, drop) ==
    LET gone == UNION { IdsOf(msgs[i].calls) : i \in drop }
    IN Pick(msgs, { i \in DOMAIN msgs : i \notin drop /\ msgs[i].of \notin gone })

\* TrimFallback: two old messages, else the first call message with its results, else
\* the first message.  The histories are a pair: how many old messages, the tool history.
TrimFallback(both) ==
    LET old  == both[1]
        msgs == both[2]
        call == SelectInSeq(msgs, LAMBDA m : m.calls # <<>>)
    IN IF old > 0 THEN <<IF old < 2 THEN 0 ELSE old - 2, msgs>>
       ELSE IF msgs = <<>> THEN both
       ELSE IF call = 0 THEN <<0, Tail(msgs)>>
       ELSE <<0, WithoutGroups(msgs, {call})>>

\* What trimming up to so many times may leave.
Trimmed(both, most) ==
    LET trim[k \in 0..most] == IF k = 0 THEN both ELSE TrimFallback(trim[k - 1])
    IN { trim[k] : k \in 0..most }

\* TrimRatio: prune, then trim until the sizes fit: how often depends on them, but
\* something always goes.
Trims(old, msgs) ==
    (UNION { Trimmed(<<old, WithoutGroups(msgs, drop)>>, old + Len(msgs)) :
                 drop \in SUBSET Prunable(msgs) }) \ {<<old, msgs>>}

-----------------------------------------------------------------------------
(* What a provider demands of the messages it is sent: the results of a call message *)
(* follow it directly, one for each call and no other result anywhere.               *)
WellPaired(msgs) ==
    /\ \A i \in CallIndices(msgs) :
         LET n == Len(msgs[i].calls)
         IN /\ i + n <= Len(msgs)
            /\ \A k \in 1..n : msgs[i + k].of = msgs[i].calls[k].id
    /\ \A i \in DOMAIN msgs : msgs[i].role = "tool" =>
         Cardinality({ j \in DOMAIN msgs : msgs[j].of = msgs[i].of }) = 1
    /\ ResultsIn(msgs) = AllIds(msgs)
=============================================================================
