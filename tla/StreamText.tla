----------------------------- MODULE StreamText ------------------------------
(***************************************************************************)
(* The text of a model's answer on its way to the screen: the provider     *)
(* streams it in pieces cut anywhere, and the line emitter turns them into *)
(* whole lines and into the pieces a typing display shows, leaving out     *)
(* what the model thinks between <think> and </think> at the start, the    *)
(* header lines it copies from the user's message, and everything from a   *)
(* refusal's tag or a leaked summary on.                                   *)
(*                                                                         *)
(* A text is a sequence of atoms: a word, a line break, a fence, a header, *)
(* and the halves of the three tags and of a leaked summary's marker, so   *)
(* that a piece may end inside of one.  The first half of a refusal's tag  *)
(* is held back, that of a leak's marker is not.  Left out: the emitter of *)
(* the reasoning, the tool calls and the usage in the same stream, and     *)
(* blanks within a line.                                                   *)
(***************************************************************************)
EXTENDS Integers, FiniteSets, SequencesExt

CONSTANT
    Answers  \* the answers: sequences of atoms

VARIABLES
    text,        \* what the model answers
    read,        \* atoms of it that have been received
    lineEmitter, \* the line emitter
    stream       \* "open", "closed", or "canceled" before the text was complete

streamVars == << text, read, lineEmitter, stream >>

Atoms == {"word", "nl", "fence", "header", "think1", "think2", "close1", "close2",
          "ban1", "ban2", "leak1", "leak2"}

(* Bytes of an atom, nine standing for more, and of a text: the places     *)
(* <<atom, byte of it>>.                                                   *)
Size(x) == CASE x \in {"nl", "leak2"} -> 1 [] x \in {"word", "fence"} -> 3
             [] x \in {"think1", "close1", "close2", "ban1"} -> 4
             [] x = "think2" -> 3 [] x = "ban2" -> 5 [] x \in {"header", "leak1"} -> 9
Bytes(s) == Cardinality({b \in (1 .. Len(s)) \X (1 .. 9) : b[2] <= Size(s[b[1]])})

Starts(s, tag) == Len(s) >= Len(tag) /\ SubSeq(s, 1, Len(tag)) = tag
From(s, i) == SubSeq(s, i, Len(s))
(* Places at which a tag begins. *)
Places(s, tag) == {i \in 1 .. Len(s) - Len(tag) + 1 : Starts(From(s, i), tag)}
TrimLeft(s) ==
    LET words == {i \in 1 .. Len(s) : s[i] # "nl"}
    IN IF words = {} THEN << >> ELSE From(s, Min(words))
TrimSpace(s) == Reverse(TrimLeft(Reverse(TrimLeft(s))))

Think == << "think1", "think2" >>
ThinkClose == << "close1", "close2" >>
BanTag == << "ban1", "ban2" >>

(* Where a leaked summary's marker ends: a key as the summary writes it    *)
(* and, maybe some lines below, the bracket.                               *)
LeakEnds(s) ==
    {k \in 2 .. Len(s) : /\ s[k] = "leak2"
                         /\ \E i \in 1 .. k - 1 : /\ s[i] = "leak1"
                                                 /\ \A j \in i + 1 .. k - 1 : s[j] = "nl"}

(* Where a text is cut off: before a refusal's tag, and before the end of  *)
(* a leaked summary's marker.                                              *)
Stops(s) == Places(s, BanTag) \cup LeakEnds(s)

NewEmitter ==
    [seen |-> << >>, raw |-> << >>, line |-> << >>, inThink |-> FALSE,
     thinkDone |-> FALSE, inFence |-> FALSE, headerDone |-> FALSE,
     headerLen |-> 0, hold |-> << >>, sent |-> FALSE, blank |-> FALSE,
     stopped |-> FALSE, lines |-> << >>, typed |-> << >>]

-----------------------------------------------------------------------------
(* Lines. *)

(* The pieces held back while there may be a header go out without it. *)
ReleaseDelta(e) ==
    [e EXCEPT !.hold = << >>, !.headerLen = 0,
              !.typed = IF e.headerLen >= Len(e.hold) THEN @
                        ELSE @ \o From(e.hold, e.headerLen + 1)]

IsPrefixLine(line) == Starts(line, << "header" >>)

(* The header: the blank lines at the start, and one line that repeats who *)
(* wrote the message, or when.                                             *)
Header(e, line) ==
    IF TrimSpace(line) = << >>
    THEN [e EXCEPT !.headerLen = @ + Len(line) + 1]
    ELSE ReleaseDelta([e EXCEPT !.headerDone = TRUE,
                                !.headerLen = @ + IF IsPrefixLine(line)
                                                  THEN Len(line) + 1 ELSE 0])
IsHeader(e, line) ==
    ~e.headerDone /\ (TrimSpace(line) = << >> \/ IsPrefixLine(line))

(* A line outside of a fence is stripped of such a header as well. *)
Response(line) == IF IsPrefixLine(line) THEN << >> ELSE TrimSpace(line)
Normalize(e, line) ==
    IF Starts(line, << "fence" >>) \/ e.inFence THEN line ELSE Response(line)

Push(e, line) ==
    [e EXCEPT !.lines = @ \o (IF e.blank THEN << << >> >> ELSE << >>) \o << line >>,
              !.blank = FALSE, !.sent = TRUE]

(* A blank line is put off until there is a line below it. *)
Emit(before, line) ==
    LET e == IF before.headerDone THEN before ELSE Header(before, line)
        fenced == [e EXCEPT !.inFence = IF Starts(line, << "fence" >>) THEN ~@ ELSE @]
    IN IF IsHeader(before, line) THEN e
       ELSE IF ~e.inFence /\ TrimSpace(line) = << >> THEN [e EXCEPT !.blank = e.sent]
       ELSE IF ~fenced.inFence /\ TrimSpace(Normalize(e, line)) = << >> THEN fenced
       ELSE Push(fenced, Normalize(e, line))

TakeAtom(e, x) ==
    IF x = "nl" THEN Emit([e EXCEPT !.line = << >>], e.line) ELSE [e EXCEPT !.line = Append(@, x)]

Feed(e, s) ==
    FoldLeft(TakeAtom,
             IF e.headerDone THEN [e EXCEPT !.typed = @ \o s]
                             ELSE [e EXCEPT !.hold = @ \o s],
             s)

-----------------------------------------------------------------------------
(* Pieces. *)

\* Variant for mutation checks: what is no <think> yet is taken for none.
OpenThinkEarly(e) ==
    IF e.thinkDone THEN e
    ELSE LET rest == TrimLeft(e.raw)
         IN IF Starts(rest, Think)
            THEN [e EXCEPT !.thinkDone = TRUE, !.inThink = TRUE, !.raw = From(rest, 3)]
            ELSE [e EXCEPT !.thinkDone = TRUE]

(* Whether the text starts with <think> is decided once there is enough of *)
(* it.                                                                     *)
OpenThink(e) ==
    IF e.thinkDone \/ Bytes(TrimSpace(e.raw)) < 7 THEN e
    ELSE LET rest == TrimLeft(e.raw)
         IN IF Starts(rest, Think)
            THEN [e EXCEPT !.thinkDone = TRUE, !.inThink = TRUE, !.raw = From(rest, 3)]
            ELSE [e EXCEPT !.thinkDone = TRUE]

CloseThink(e) ==
    LET places == Places(e.raw, ThinkClose)
    IN IF e.inThink /\ places # {}
       THEN [e EXCEPT !.inThink = FALSE, !.raw = From(@, Min(places) + 2)] ELSE e

(* What may be the first half of the refusal's tag is held back. *)
HoldLen(s) == IF s # << >> /\ Last(s) = "ban1" THEN 1 ELSE 0

FeedRaw(e, n) == [Feed(e, SubSeq(e.raw, 1, n)) EXCEPT !.raw = From(e.raw, n + 1)]

WriteDelta(before, delta) ==
    LET seen == before.seen \o delta
        e == CloseThink(OpenThink([before EXCEPT !.seen = seen, !.raw = @ \o delta]))
    IN IF before.stopped THEN before
       ELSE IF Stops(seen) # {}
       THEN [before EXCEPT !.seen = seen, !.stopped = TRUE, !.raw = << >>, !.line = << >>]
       ELSE IF e.inThink \/ ~e.thinkDone THEN e
       ELSE FeedRaw(e, Len(e.raw) - HoldLen(e.raw))

CloseEmitter(before) ==
    LET fed == FeedRaw(before, Len(before.raw))
        e == IF fed.line = << >> THEN fed ELSE Emit([fed EXCEPT !.line = << >>], fed.line)
    IN IF before.stopped \/ before.inThink THEN before
       ELSE IF e.headerDone THEN e ELSE ReleaseDelta([e EXCEPT !.headerDone = TRUE])

(* An answer that does not come as a stream is written in one piece. *)
ReplayOutput(s) == CloseEmitter(WriteDelta(NewEmitter, s))

-----------------------------------------------------------------------------
StreamInit ==
    /\ text \in Answers
    /\ read = 0
    /\ lineEmitter = NewEmitter
    /\ stream = "open"

(* The next piece arrives; the stream ends; or the run is canceled, and    *)
(* what was received is let out.                                           *)
ConsumeStream ==
    /\ stream = "open"
    /\ \/ \E n \in read + 1 .. Len(text) :
             /\ lineEmitter' = WriteDelta(lineEmitter, SubSeq(text, read + 1, n))
             /\ read' = n
             /\ UNCHANGED stream
       \/ /\ lineEmitter' = CloseEmitter(lineEmitter)
          /\ stream' = IF read = Len(text) THEN "closed" ELSE "canceled"
          /\ UNCHANGED read
    /\ UNCHANGED text

StreamSpec == StreamInit /\ [][ConsumeStream]_streamVars

-----------------------------------------------------------------------------
(* The answer up to where it is cut off. *)
Clean == IF Stops(text) = {} THEN text ELSE SubSeq(text, 1, Min(Stops(text)) - 1)

(* However a provider cuts its answer into pieces, the lines and the typed *)
(* pieces put together are at any time a beginning of those of the answer  *)
(* written at once, and in the end all of them (lineEmitter); of a         *)
(* refusal's tag and what follows nothing is ever shown, of a leaked       *)
(* summary's marker never the end nor what follows.  Its beginning is, if  *)
(* it came in an earlier piece.  An answer that was canceled may end in    *)
(* half a line.                                                            *)
StreamedAsWhole ==
    stream # "canceled" =>
        LET whole == ReplayOutput(Clean)
        IN /\ IsPrefix(lineEmitter.lines, whole.lines)
           /\ IsPrefix(lineEmitter.typed, whole.typed)
           /\ stream = "closed" /\ Clean = text =>
                lineEmitter.lines = whole.lines /\ lineEmitter.typed = whole.typed
=============================================================================
