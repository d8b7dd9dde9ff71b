------------------------------ MODULE NativeText ------------------------------
(***************************************************************************)
(* The text of a content control of a DOCX document, and how the server    *)
(* replaces it while it keeps the runs, tabs, breaks and paragraphs that   *)
(* are already there.                                                      *)
(*                                                                         *)
(* A text is a sequence of characters.  The content of a control is the    *)
(* sequence of the elements that matter to its text, in document order:    *)
(* the start of a paragraph, a line break, a tab, or a run of text.        *)
(* Formatting, escaping and white-space attributes are left out.           *)
(***************************************************************************)
EXTENDS Integers, FiniteSets, SequencesExt

NewLine == "\n"
Tab == "\t"
Blank == {" ", NewLine, Tab}

P       == [kind |-> "p", text |-> <<>>]
Br      == [kind |-> "br", text |-> <<>>]
TabNode == [kind |-> "tab", text |-> <<>>]
T(text) == [kind |-> "t", text |-> text]

Trim(text) ==
  LET Ink == {i \in DOMAIN text : text[i] \notin Blank}
  IN  IF Ink = {} THEN <<>> ELSE SubSeq(text, Min(Ink), Max(Ink))

Count(nodes, upto, kind) == Cardinality({i \in 1..upto : nodes[i].kind = kind})

\* The number of the paragraph that the i-th element is in: -1 outside of any.
ParagraphOf(nodes, i) == Count(nodes, i, "p") - 1
LineOf(nodes, i) == Count(nodes, i - 1, "br") + Max({0, ParagraphOf(nodes, i)})
LineCount(nodes) == IF nodes = <<>> THEN 1 ELSE LineOf(Append(nodes, T(<<>>)), Len(nodes) + 1) + 1

\* What a reader of the document sees.
VisibleText(nodes) ==
  FlattenSeq([i \in DOMAIN nodes |->
    CASE nodes[i].kind = "t"   -> nodes[i].text
      [] nodes[i].kind = "tab" -> <<Tab>>
      [] nodes[i].kind = "br"  -> <<NewLine>>
      [] nodes[i].kind = "p"   -> IF ParagraphOf(nodes, i) = 0 THEN <<>> ELSE <<NewLine>>])

Extended(parts, c, at) ==
  IF c = at THEN Append(parts, <<>>) ELSE [parts EXCEPT ![Len(parts)] = Append(@, c)]

Split(text, at) ==
  LET parts[n \in 0..Len(text)] == IF n = 0 THEN << <<>> >> ELSE Extended(parts[n - 1], text[n], at)
  IN  parts[Len(text)]

Lines(text) == Split(text, NewLine)

\* Text in place of a run: a tab character becomes an element of its own.
TextNodes(text) ==
  LET parts == Split(text, Tab) IN
    FlattenSeq([k \in DOMAIN parts |-> IF k = 1 THEN <<T(parts[k])>> ELSE <<TabNode, T(parts[k])>>])

---------------------------------------------------------------------------
(* Rewriting existing content *)

\* Paragraphs that start on a line the new text no longer has.
Removed(nodes, lines) ==
  {ParagraphOf(nodes, i) : i \in {j \in DOMAIN nodes : nodes[j].kind = "p" /\ LineOf(nodes, j) >= Len(lines)}}

\* The runs and tabs of a line that stay.
Segments(nodes, lines, line) ==
  {i \in DOMAIN nodes : /\ nodes[i].kind \in {"t", "tab"}
                        /\ ParagraphOf(nodes, i) \notin Removed(nodes, lines)
                        /\ LineOf(nodes, i) = line}

LastSegment(nodes, lines) ==
  LET own == Segments(nodes, lines, LineCount(nodes) - 1) IN IF own = {} THEN 0 ELSE Max(own)

\* Content without a run is replaced as a whole, as is content that has nowhere to put a line.
CanRewrite(nodes, text) ==
  LET lines == Lines(text) IN
  /\ \E i \in DOMAIN nodes : nodes[i].kind = "t"
  /\ \/ VisibleText(nodes) = text
     \/ /\ \A line \in 0..Min({Len(lines), LineCount(nodes)}) - 1 :
             lines[line + 1] # <<>> => Segments(nodes, lines, line) # {}
        /\ Len(lines) > LineCount(nodes) => LastSegment(nodes, lines) # 0

\* How many characters the segments hold up to the n-th element.
Widths(nodes, segments) ==
  LET width[n \in 0..Len(nodes)] ==
        IF n = 0 THEN 0
        ELSE width[n - 1] + (IF n \notin segments THEN 0
                             ELSE IF nodes[n].kind = "tab" THEN 1 ELSE Len(nodes[n].text))
  IN  width

\* The part of a line that one of its segments gets: as many characters as it had, the last
\* one the rest.  When no segment had any, the first gets the line.
Share(nodes, segments, i, line) ==
  LET width == Widths(nodes, segments)
      Cut(n) == Min({Len(line), width[n]})
  IN  IF width[Len(nodes)] = 0
      THEN IF i = Min(segments) THEN line ELSE <<>>
      ELSE SubSeq(line, Cut(i - 1) + 1, IF i = Max(segments) THEN Len(line) ELSE Cut(i))

Assigned(nodes, lines, i) ==
  LET line == LineOf(nodes, i)
  IN  Share(nodes, Segments(nodes, lines, line), i, IF line < Len(lines) THEN lines[line + 1] ELSE <<>>)

\* Lines beyond those of the content follow its last segment.
Appended(nodes, lines, i) ==
  IF Len(lines) > LineCount(nodes) /\ i = LastSegment(nodes, lines)
  THEN FlattenSeq([k \in 1..Len(lines) - LineCount(nodes) |-> <<Br>> \o TextNodes(lines[LineCount(nodes) + k])])
  ELSE <<>>

RewrittenBreak(nodes, lines, i) ==
  IF Len(lines) < LineCount(nodes) /\ LineOf(nodes, i) >= Len(lines) - 1 THEN <<>> ELSE <<nodes[i]>>

RewrittenText(nodes, lines, i) == TextNodes(Assigned(nodes, lines, i)) \o Appended(nodes, lines, i)

RewrittenTab(nodes, lines, i) ==
  LET own == Assigned(nodes, lines, i)
      more == Appended(nodes, lines, i)
  IN  CASE more = <<>> /\ own = <<Tab>> -> <<nodes[i]>>
        [] more = <<>> /\ own = <<>>    -> <<>>
        [] OTHER                        -> TextNodes(own) \o more

Rewritten(nodes, text) ==
  LET lines == Lines(text) IN
  IF VisibleText(nodes) = text THEN nodes
  ELSE FlattenSeq([i \in DOMAIN nodes |->
         CASE ParagraphOf(nodes, i) \in Removed(nodes, lines) -> <<>>
           [] OTHER -> CASE nodes[i].kind = "p"   -> <<nodes[i]>>
                         [] nodes[i].kind = "br"  -> RewrittenBreak(nodes, lines, i)
                         [] nodes[i].kind = "t"   -> RewrittenText(nodes, lines, i)
                         [] nodes[i].kind = "tab" -> RewrittenTab(nodes, lines, i)])

\* Content written from nothing.  Tab characters stay in the runs.
Fresh(text, block) ==
  LET lines == Lines(text) IN
    (IF block THEN <<P>> ELSE <<>>)
      \o FlattenSeq([k \in DOMAIN lines |-> IF k = 1 THEN <<T(lines[k])>> ELSE <<Br, T(lines[k])>>])

SetText(nodes, text, block) == IF CanRewrite(nodes, text) THEN Rewritten(nodes, text) ELSE Fresh(text, block)

---------------------------------------------------------------------------
(* Dates *)

Months == [long |-> <<"January", "February", "March">>, short |-> <<"Jan", "Feb", "Mar">>]

\* The numbers that occur in dates, written out, and with a zero before them where they have one digit.
Numeral(n) ==
  CASE n = 1 -> "1" [] n = 2 -> "2" [] n = 3 -> "3" [] n = 4 -> "4"
    [] n = 24 -> "24" [] n = 25 -> "25" [] n = 67 -> "67" [] n = 68 -> "68"
    [] n = 2024 -> "2024" [] n = 2025 -> "2025" [] n = 2567 -> "2567" [] n = 2568 -> "2568"
Padded(n) == CASE n = 1 -> "01" [] n = 2 -> "02" [] n = 3 -> "03" [] n = 4 -> "04"

\* A date is a record of numbers, in the first quarter of a year so that months have one digit;
\* days are below ten for the same reason.
DateToken(date, token) ==
  CASE token = "yyyy" -> Numeral(date.year)
    [] token = "yy"   -> Numeral(date.year % 100)
    [] token = "MMMM" -> Months.long[date.month]
    [] token = "MMM"  -> Months.short[date.month]
    [] token = "MM"   -> Padded(date.month)
    [] token = "M"    -> Numeral(date.month)
    [] token = "dd"   -> Padded(date.day)
    [] token = "d"    -> Numeral(date.day)
    [] OTHER          -> token

DateTokens == {"yyyy", "yy", "MMMM", "MMM", "MM", "M", "dd", "d"}
Separators == {"/", "-", " "}

Masked(date, format) == [i \in DOMAIN format |-> DateToken(date, format[i])]

Iso(date) == Masked(date, <<"yyyy", "-", "MM", "-", "dd">>)
=============================================================================
