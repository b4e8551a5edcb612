------------------------------- MODULE Segmenter -------------------------------
(* The incremental sentence segmenter (segmenter.py) as a stream session uses  *)
(* it: text arrives in arbitrary chunks, a latency deadline may expire between *)
(* them, and each call returns the segments it commits.  The scanning is the   *)
(* code's; the four length limits and the official tags are parameters, kept   *)
(* in the order the code has them: a deadline may fall inside a tag, a hard    *)
(* limit is longer than any.                                                   *)
EXTENDS Integers, Sequences, FiniteSetsExt, SequencesExt

CONSTANTS
    Alphabet,      \* the characters that arrive
    OfficialTags,  \* OFFICIAL_TAGS
    MaxChunk,      \* bound: longest text of one append
    DeadlineMin,   \* DEADLINE_MIN_CHARS
    SoftMin,       \* SOFT_MIN_CHARS
    Target,        \* the profile's target maximum
    Hard           \* the profile's hard maximum

(* One character per class the code tells apart: a letter, a digit, the point, *)
(* an unconditional ending, a soft ending, a space, a newline, and the tag     *)
(* brackets.                                                                   *)
Characters == {"g", "1", ".", "!", ",", " ", "newline", "[", "]"}
Digits == {"1"}
Spaces == {" ", "newline"}
StrongEndings == {"!"}
SoftEndings == {","}

ASSUME LimitsAssumption ==
    /\ Alphabet \subseteq Characters
    /\ MaxChunk \in Nat \ {0} /\ DeadlineMin \in Nat \ {0} /\ SoftMin \in Nat
    /\ Target \in Nat /\ Hard \in Nat
    /\ DeadlineMin < SoftMin /\ SoftMin <= Target /\ Target <= Hard

(* An official tag is letters between one pair of brackets.                    *)
ASSUME TagsAssumption ==
    \A tag \in OfficialTags :
        /\ tag \in Seq(Characters)
        /\ 2 <= Len(tag) /\ Len(tag) < Hard
        /\ tag[1] = "["
        /\ \A j \in 2..Len(tag) : tag[j] = IF j = Len(tag) THEN "]" ELSE "g"

VARIABLES
    buffer,   \* _buffer: text received and not yet committed
    expired,  \* _deadline_expired
    out,      \* the segments the last call returned
    flushed,  \* whether that call was flush
    before,   \* history: the start of a tag that was committed before that call
    openPoint \* history: what was committed before ended in a number's point

vars == <<buffer, expired, out, flushed, before, openPoint>>

-------------------------------------------------------------------------------
(* Cut k puts the first k characters of text b in a segment of their own.      *)

DigitAt(b, i) == i \in 1..Len(b) /\ b[i] \in Digits

(* A protected range holds the characters start + 1 .. end of the buffer.      *)
Range_(start, end, protectEnd) ==
    [start |-> start, end |-> end, protectEnd |-> protectEnd]

ContainsCut(r, k) == r.start < k /\ (k < r.end \/ (r.protectEnd /\ k = r.end))

IsSafeCut(k, ranges) == \A r \in ranges : ~ContainsCut(r, k)

SafeCuts(n, ranges) == {k \in 1..n : IsSafeCut(k, ranges)}

(* As a fault: a tag is protected only once it is complete.                    *)
OfficialTagRanges_CompleteOnly(b) ==
    UNION {{Range_(i - 1, i - 1 + Len(tag), FALSE) :
               tag \in {t \in OfficialTags : IsPrefix(t, SubSeq(b, i, Len(b)))}}
           : i \in 1..Len(b)}

(* A complete tag, or the end of the buffer that may still become one.         *)
OfficialTagRanges(b) ==
    UNION {
        LET rest == SubSeq(b, i, Len(b))
            complete == {tag \in OfficialTags : IsPrefix(tag, rest)}
        IN IF complete # {}
           THEN {Range_(i - 1, i - 1 + Len(tag), FALSE) : tag \in complete}
           ELSE {Range_(i - 1, Len(b), TRUE) :
                    tag \in {t \in OfficialTags : IsPrefix(rest, t)}}
        : i \in {j \in 1..Len(b) : b[j] = "["} }

(* Where the digits that follow the first i characters end.                    *)
DigitsEnd(b, i) ==
    CHOOSE n \in i..Len(b) : /\ \A j \in (i + 1)..n : DigitAt(b, j)
                             /\ ~DigitAt(b, n + 1)

(* A decimal begins after i characters, and its point is character p.          *)
IsDecimal(b, i, p) == i + 1 < p /\ p < Len(b) /\ b[p] = "." /\ DigitAt(b, p + 1)

DecimalStarts(b, from) ==
    {i \in from..(Len(b) - 1) : IsDecimal(b, i, DigitsEnd(b, i) + 1)}

FirstDecimal(b, from) ==
    {i \in DecimalStarts(b, from) :
        \A j \in from..(i - 1) : j \notin DecimalStarts(b, from)}

DecimalEnd(b, i) == DigitsEnd(b, DigitsEnd(b, i) + 1)

(* _DECIMAL.finditer: the leftmost digits-point-digits, then on from its end.  *)
DecimalRanges(b) ==
    LET scan[from \in 0..Len(b)] ==
            UNION {{Range_(i, DecimalEnd(b, i), FALSE)} \cup scan[DecimalEnd(b, i)] :
                      i \in FirstDecimal(b, from)}
    IN scan[0]

(* _TRAILING_DECIMAL_PREFIX: digits and a point at the end of the buffer.  The *)
(* pattern's $ also matches before a newline that ends the text.               *)
TrailingPoints(b) ==
    {p \in 2..Len(b) :
        /\ b[p] = "." /\ DigitAt(b, p - 1)
        /\ p = Len(b) \/ (p = Len(b) - 1 /\ b[Len(b)] = "newline")}

(* As a fault: the cut after a trailing "12." is not protected.                *)
TrailingDecimalRanges_OpenEnd(b) ==
    {Range_(p - 2, p, FALSE) : p \in TrailingPoints(b)}

TrailingDecimalRanges(b) ==
    {Range_(Min({i \in 0..(p - 2) : \A j \in (i + 1)..(p - 1) : DigitAt(b, j)}),
            p, TRUE) : p \in TrailingPoints(b)}

ProtectedRanges(b) ==
    OfficialTagRanges(b) \cup DecimalRanges(b) \cup TrailingDecimalRanges(b)

(* As a fault: a point after a digit never ends a sentence.                    *)
IsStrongCut_NumberPointsWait(b, k) ==
    \/ b[k] \in StrongEndings
    \/ b[k] = "." /\ ~DigitAt(b, k - 1)

(* A point after a digit ends a sentence only once the next character is known *)
(* and is no digit.                                                            *)
IsStrongCut(b, k) ==
    \/ b[k] \in StrongEndings
    \/ /\ b[k] = "."
       /\ ~(DigitAt(b, k - 1) /\ (DigitAt(b, k + 1) \/ k = Len(b)))

IsSoftCut(b, k) == b[k] \in SoftEndings \cup Spaces

(* The last element of a set of cuts, 0 when there is none.                    *)
LastCut(cuts) == Max(cuts \cup {0})

(* As a fault: the hard limit spares decimals to the last.                     *)
HardCut_SparesDecimals(b, safe) == LastCut(safe)

(* At the hard limit: after a space, else at any safe place, else anywhere     *)
(* but inside a tag, always as late as possible.                               *)
HardCut(b, safe) ==
    LET spaces == {k \in safe : k >= SoftMin /\ b[k] \in Spaces}
    IN IF spaces # {} THEN LastCut(spaces)
       ELSE IF safe # {} THEN LastCut(safe)
       ELSE LastCut(SafeCuts(Hard, OfficialTagRanges(b)))

(* The cut the next regular segment ends at among the safe ones, 0 for none    *)
(* yet.                                                                        *)
FirstCut(b, safe, strong, soft) ==
    IF strong # {} THEN Min(strong)
    ELSE IF soft # {} THEN IF Len(b) >= Target THEN Max(soft) ELSE Min(soft)
    ELSE IF Len(b) >= Hard THEN HardCut(b, safe) ELSE 0

CutAmong(b, safe) ==
    FirstCut(b, safe,
             {k \in safe : IsStrongCut(b, k)},
             {k \in safe \cap (SoftMin..Target) : IsSoftCut(b, k)})

RegularCut(b) ==
    CutAmong(b, SafeCuts(Min({Len(b), Hard}), ProtectedRanges(b)))

(* Where an expired deadline cuts: the last soft ending, else the last safe    *)
(* place.                                                                      *)
LastSoftCut(safe, soft) == LastCut(IF soft # {} THEN soft ELSE safe)

DeadlineCut(b) ==
    LET safe == SafeCuts(Len(b), ProtectedRanges(b))
    IN LastSoftCut(safe, {k \in safe : IsSoftCut(b, k)})

Head_(b, k) == SubSeq(b, 1, k)
Rest(b, k) == SubSeq(b, k + 1, Len(b))

(* The places where regular cuts divide a text, taken from the front until no  *)
(* cut is left.                                                                *)
CutPlaces(text) ==
    LET places[from \in 0..Len(text)] ==
            LET cut == RegularCut(Rest(text, from))
            IN IF cut = 0 THEN <<>> ELSE <<from + cut>> \o places[from + cut]
    IN places[0]

(* Where the segment that ends at the i-th place begins.                       *)
From(places, i) == IF i = 1 THEN 0 ELSE places[i - 1]

Pieces(text, places) ==
    [segments |-> [i \in 1..Len(places) |->
                     SubSeq(text, From(places, i) + 1, places[i])],
     rest |-> Rest(text, From(places, Len(places) + 1))]

(* Regular segments, and what remains.                                         *)
Extract(text) == Pieces(text, CutPlaces(text))

-------------------------------------------------------------------------------
(* The end of what was committed before the call that comes now, as far as it  *)
(* may be the torn start of a tag; a flush ends that context.                  *)
TornTag(s) ==
    LET starts == {k \in 1..Len(s) : \E tag \in OfficialTags :
                      /\ Len(s) - k + 1 < Len(tag)
                      /\ IsPrefix(SubSeq(s, k, Len(s)), tag)}
    IN IF starts = {} THEN <<>> ELSE SubSeq(s, Min(starts), Len(s))

Committed == IF flushed THEN <<>> ELSE TornTag(before \o FlattenSeq(out))

(* A segment ends in the point of a number.  Not counted: a point whose digits *)
(* follow another point (a version number), and a segment as long as the hard  *)
(* limit, which goes before the protection of a number.                        *)
EndsInPoint(seg) ==
    /\ Len(seg) < Hard
    /\ \E j \in 1..(Len(seg) - 1) :
          /\ \A d \in j..(Len(seg) - 1) : seg[d] \in Digits
          /\ Last(seg) = "."
          /\ j > 1 => seg[j - 1] \notin Digits \cup {"."}

Return(segments, rest, deadline) ==
    /\ out' = segments
    /\ buffer' = rest
    /\ expired' = deadline
    /\ before' = Committed
    /\ openPoint' = (~flushed /\ IF out = <<>> THEN openPoint
                                             ELSE EndsInPoint(Last(out)))

(* As a fault: an append does not retry a deadline that expired too early.     *)
AfterRegular_NoRetry(segments, rest) ==
    Return(segments, rest, expired /\ segments = <<>>)

(* If the deadline had expired and no regular segment was due, one deadline    *)
(* segment.                                                                    *)
AfterRegular(segments, rest) ==
    LET waiting == expired /\ segments = <<>>
        cut == IF waiting /\ Len(rest) >= DeadlineMin THEN DeadlineCut(rest) ELSE 0
    IN \E k \in {cut} :
          IF k = 0
          THEN Return(segments, rest, waiting)
          ELSE Return(Append(segments, Head_(rest, k)), Rest(rest, k), FALSE)

(* append: every regular segment, then what the deadline may still ask for.    *)
Append_(chunk) ==
    /\ \E regular \in {Extract(buffer \o chunk)} :
          AfterRegular(regular.segments, regular.rest)
    /\ flushed' = FALSE

ExpireDeadline ==
    /\ \E k \in {IF Len(buffer) >= DeadlineMin THEN DeadlineCut(buffer) ELSE 0} :
          IF k = 0
          THEN Return(<<>>, buffer, buffer # <<>>)
          ELSE Return(<<Head_(buffer, k)>>, Rest(buffer, k), FALSE)
    /\ flushed' = FALSE

Flush ==
    /\ Return(IF buffer = <<>> THEN <<>> ELSE <<buffer>>, <<>>, FALSE)
    /\ flushed' = TRUE

Init ==
    /\ buffer = <<>>
    /\ expired = FALSE
    /\ out = <<>>
    /\ flushed = FALSE
    /\ before = <<>>
    /\ openPoint = FALSE

Chunks == UNION {[1..n -> Alphabet] : n \in 1..MaxChunk}

Next ==
    \/ \E chunk \in Chunks : Append_(chunk)
    \/ ExpireDeadline
    \/ Flush

Spec == Init /\ [][Next]_vars

-------------------------------------------------------------------------------
(* The text around the cuts of the last call and the places it was cut at.     *)
Window == before \o FlattenSeq(out) \o buffer

CutBefore(i) == Len(before) + Len(FlattenSeq(SubSeq(out, 1, i - 1)))

Cuts == {CutBefore(i) : i \in 1..(Len(out) + 1)} \ {0, Len(Window)}

(* The pending text is always shorter than the hard limit, however the chunks, *)
(* numbers and tags fall, and a segment never exceeds it: _regular_cut finds a *)
(* cut in every buffer that is long enough.                                    *)
WithinHardLimit ==
    /\ Len(buffer) < Hard
    /\ \A i \in 1..Len(out) : Len(out[i]) \in 1..Hard

(* No call but flush cuts through an official tag, also when the tag arrives   *)
(* in pieces with a deadline or a limit between them.                          *)
OfficialTagsWhole ==
    ~flushed =>
        \A i \in 1..Len(Window), tag \in OfficialTags :
            IsPrefix(tag, SubSeq(Window, i, Len(Window))) =>
                Cuts \cap (i..(i + Len(tag) - 2)) = {}

(* The point of a decimal stays with the digit that follows it, whether the    *)
(* digit is known at the cut or arrives with a later append.                   *)
DecimalPointKept ==
    ~flushed =>
        /\ openPoint => ~DigitAt(Window, Len(before) + 1)
        /\ \A i \in 1..Len(out) :
              EndsInPoint(out[i]) => ~DigitAt(Window, CutBefore(i + 1) + 1)

(* A deadline that expired and did not cut waits for a reason: there is text,  *)
(* and it is too short or every place in it is protected.                      *)
ExpiredMeansStuck ==
    expired =>
        /\ buffer # <<>>
        /\ \/ Len(buffer) < DeadlineMin
           \/ \A k \in 1..Len(buffer) : ~IsSafeCut(k, ProtectedRanges(buffer))

(* No finished sentence waits in the buffer: an ending followed by more text   *)
(* has been committed, the point of a number as soon as it cannot be a decimal *)
(* point; only one newline after that point is not text enough.                *)
EndingsCommitted ==
    \A i \in 1..(Len(buffer) - 1) :
        /\ buffer[i] # "!"
        /\ buffer[i] = "." =>
              /\ DigitAt(buffer, i - 1)
              /\ \/ DigitAt(buffer, i + 1)
                 \/ i = Len(buffer) - 1 /\ buffer[i + 1] = "newline"

(* What the product plan says of a point after a digit: it waits while it is   *)
(* the last character, and the next one decides.  A newline does not.          *)
NumberPointDecided ==
    \A i \in 1..(Len(buffer) - 1) :
        buffer[i] = "." /\ DigitAt(buffer, i - 1) => DigitAt(buffer, i + 1)

================================================================================
