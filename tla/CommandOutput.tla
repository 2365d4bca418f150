----------------------------- MODULE CommandOutput -----------------------------
(***************************************************************************)
(* What a reader thread makes of the bytes of a command's stdout or        *)
(* stderr: Utf8LossyDecoder turns them into text, CommandEventFrameDecoder *)
(* finds the progress frames in the text.  Both keep what they cannot      *)
(* decide yet: a read may end anywhere.                                    *)
(*                                                                         *)
(* Bytes: "head" and "tail" are the two bytes of a character, "rs" and     *)
(* "v1" stand for the two parts of FRAME_PREFIX, "nl" is the line feed,    *)
(* "ok" is the payload of a frame, "x" is anything else.                   *)
(***************************************************************************)
EXTENDS Naturals, Sequences, SequencesExt, FiniteSetsExt

CONSTANT MaxFrame  \* MAX_FRAME_BYTES

ASSUME FrameAssumption == MaxFrame \in Nat \ {0}

Bytes == {"head", "tail", "rs", "v1", "ok", "nl", "x"}
Text == (Bytes \ {"head", "tail"}) \cup {"char", "replacement"}

FramePrefix == <<"rs", "v1">>
Frame == FramePrefix \o <<"ok", "nl">>

\* Events, one after the other: what a frame reports is "progress", the text of
\* the others stands for itself.
Shown == Text \cup {"progress"}

-----------------------------------------------------------------------------
(* Utf8LossyDecoder: the text, and the bytes of an unfinished character *)

At(seq, i, part) ==
  i + Len(part) <= Len(seq) + 1 /\ SubSeq(seq, i, i + Len(part) - 1) = part
From(seq, i) == SubSeq(seq, i, Len(seq))

\* The characters of bytes that are complete: a head with its tail is one, any
\* other head or tail is a replacement.
Characters[bytes \in Seq(Bytes)] ==
  IF bytes = <<>> THEN <<>>
  ELSE IF At(bytes, 1, <<"head", "tail">>)
  THEN <<"char">> \o Characters[From(bytes, 3)]
  ELSE <<IF bytes[1] \in {"head", "tail"} THEN "replacement" ELSE bytes[1]>>
       \o Characters[Tail(bytes)]

\* Seeded fault: every read is decoded on its own.
Utf8Alone(pending, bytes, eof) == [text |-> Characters[bytes], pending |-> SubSeq(pending, 1, 0)]

Utf8(pending, bytes, eof) ==
  LET input == pending \o bytes
      whole == Len(input) - IF ~eof /\ IsSuffix(<<"head">>, input) THEN 1 ELSE 0
  IN [text |-> Characters[SubSeq(input, 1, whole)], pending |-> From(input, whole + 1)]

-----------------------------------------------------------------------------
(* CommandEventFrameDecoder: what is shown, and the text that may be a frame *)

PrefixStarts(text) == {i \in DOMAIN text : At(text, i, FramePrefix)}
LineFeeds(text) == {i \in DOMAIN text : text[i] = "nl"}

\* Seeded fault: only whole prefixes are waited for.
NoPartialPrefix(text) == IF IsSuffix(FramePrefix, text) THEN Len(FramePrefix) ELSE 0

\* matching_prefix_suffix
PartialPrefix(text) ==
  Max({n \in 0 .. Len(FramePrefix) - 1 : IsSuffix(SubSeq(FramePrefix, 1, n), text)})

Recognize(record) ==
  IF Len(record) <= MaxFrame /\ record = Frame THEN <<"progress">> ELSE record

Drain(eof) ==
  LET drain[text \in Seq(Text)] ==
        LET after(n) == drain[From(text, n + 1)]
            pass(n, shown) == [after(n) EXCEPT !.shown = shown \o @]
            found == PrefixStarts(text)
            ends == LineFeeds(text)
        IN IF found = {}
           THEN LET n == Len(text) - IF eof THEN 0 ELSE PartialPrefix(text)
                IN [shown |-> SubSeq(text, 1, n), pending |-> From(text, n + 1)]
           ELSE IF 1 \notin found
           THEN pass(Min(found) - 1, SubSeq(text, 1, Min(found) - 1))
           ELSE IF ends # {}
           THEN pass(Min(ends), Recognize(SubSeq(text, 1, Min(ends))))
           ELSE IF eof \/ Len(text) > MaxFrame
           THEN [shown |-> text, pending |-> <<>>]
           ELSE [shown |-> <<>>, pending |-> text]
  IN drain

\* Seeded fault: a record is waited for however long it becomes.
WaitForRecord(text, eof) ==
  IF ~eof /\ 1 \in PrefixStarts(text) /\ LineFeeds(text) = {}
  THEN [shown |-> <<>>, pending |-> text] ELSE Drain(eof)[text]

Frames(text, eof) == Drain(eof)[text]

-----------------------------------------------------------------------------
(* A reader's two decoders *)

NoDecoders == [bytes |-> <<>>, text |-> <<>>]

\* decoder.decode, and decode_events for the text.
Decode(decoders, bytes, eof) ==
  LET utf8 == Utf8(decoders.bytes, bytes, eof)
      frames == Frames(decoders.text \o utf8.text, eof)
  IN [shown |-> frames.shown,
      decoders |-> [bytes |-> utf8.pending, text |-> frames.pending]]

-----------------------------------------------------------------------------
(* The frames of a text, said without reads *)

\* A line's record begins at its first prefix and ends with its line feed.
FirstOfLine(text, i) ==
  /\ At(text, i, FramePrefix)
  /\ \A j \in PrefixStarts(text) : j < i => \E k \in LineFeeds(text) : j < k /\ k < i

\* A line with what its record reports in place of it, if the record is a frame.
Reported(line) ==
  LET found == PrefixStarts(line)
  IN IF found # {} /\ From(line, Min(found)) = Frame
     THEN SubSeq(line, 1, Min(found) - 1) \o <<"progress">> ELSE line

\* The text with every frame replaced by what it reports, line by line.
Meaning[text \in Seq(Text)] ==
  IF LineFeeds(text) = {} THEN text
  ELSE LET end == Min(LineFeeds(text))
       IN Reported(SubSeq(text, 1, end)) \o Meaning[From(text, end + 1)]

\* The decoder gives a record up when it is too long.
Oversized(text) ==
  \E i \in DOMAIN text :
    FirstOfLine(text, i) /\ ~\E k \in LineFeeds(text) \cup {Len(text)} : k \in i .. i + MaxFrame - 1

\* The text again, with the frames as they were.
Original[shown \in Seq(Shown)] ==
  IF shown = <<>> THEN <<>>
  ELSE (IF Head(shown) = "progress" THEN Frame ELSE <<Head(shown)>>) \o Original[Tail(shown)]
=============================================================================
