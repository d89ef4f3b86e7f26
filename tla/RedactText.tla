----------------------------- MODULE RedactText -----------------------------
(***************************************************************************)
(* event_store._redact_bounded: text written to the ledger is redacted and *)
(* bounded to a fixed point, then the spans of the structural YAML rules,  *)
(* found once in the original text, are masked in whatever the passes left *)
(* of it.  To know what they left, every pass carries "pieces": runs of    *)
(* the current text with the place of their first character in the         *)
(* original, or -1 for inserted characters.                                *)
(*                                                                         *)
(* What the regular expressions match is left open: a pass may redact any  *)
(* spans.  Offsets count from zero and spans exclude their end, as in the  *)
(* code.  origin is the reference for pieces: it follows each character of *)
(* the current text by itself.                                             *)
(***************************************************************************)
EXTENDS Integers, Sequences, FiniteSets, SequencesExt

CONSTANTS Calls,       \* the calls: a text and the bound its caller passes
          References,  \* texts that are an nms-secret pointer as a whole
          Mark,        \* the redaction marker
          Cut,         \* the truncation marker
          Bom,         \* the byte-order mark
          Found,       \* sets of spans the structural rules may find
          Limit,       \* length limit of the bounds
          Passes       \* _SECRET_TEXT_PASSES

VARIABLES text,     \* the original
          bound,    \* which bound the caller passes
          stage,    \* "base", "mask", "again", "done"
          round,    \* passes made in this stage
          now,      \* the current text
          pieces,   \* its pieces
          origin,   \* where each character of now comes from; -1 if inserted
          kept,     \* original places the base passes kept
          masked    \* original places that structural spans cover
vars == <<text, bound, stage, round, now, pieces, origin, kept, masked>>

---------------------------------------------------------------------------
Smaller(a, b) == IF a < b THEN a ELSE b
Larger(a, b)  == IF a > b THEN a ELSE b
Slice(s, a, b) == SubSeq(s, a + 1, Smaller(b, Len(s)))
Span(a, b) == <<a, b>>
Covered(S) == UNION {s[1]..(s[2] - 1) : s \in S}
Spans(n) == {s \in (0..n) \X (0..n) : s[1] < s[2]}
\* What finditer returns: spans in order that do not overlap; up to two.
Matches(n) == {<<>>} \union {<<s>> : s \in Spans(n)}
              \union {m \in Spans(n) \X Spans(n) : m[1][2] <= m[2][1]}

\* The bounds of _redact_event_text, _bounded_event_message and of names.
Bounded(t) ==
  CASE bound = "text"    -> IF Len(t) > Limit THEN Slice(t, 0, Limit) \o Cut ELSE t
    [] bound = "message" -> IF Len(t) > Limit THEN Slice(t, 0, Limit - Len(Cut)) \o Cut ELSE t
    [] bound = "name"    -> Slice(t, 0, Limit)
    [] bound = "none"    -> t
\* The same for origin: what is cut off or appended.
BoundedOrigin(o, size) ==
  LET cutAt == IF bound = "message" THEN Limit - Len(Cut) ELSE Limit
  IN  IF size <= Limit \/ bound = "none" THEN o
      ELSE Slice(o, 0, cutAt) \o (IF bound = "name" THEN <<>> ELSE [k \in DOMAIN Cut |-> -1])

---------------------------------------------------------------------------
\* _merge_spans: overlapping spans become one, touching ones stay apart.
Before(a, b) == a[1] < b[1] \/ (a[1] = b[1] /\ a[2] < b[2])
RECURSIVE MergeSorted(_, _)
MergeSorted(done, rest) ==
  IF rest = <<>> THEN done
  ELSE LET s == rest[1] l == done[Len(done)]
       IN  MergeSorted(IF done # <<>> /\ s[1] < l[2]
                       THEN [done EXCEPT ![Len(done)] = Span(l[1], Larger(l[2], s[2]))]
                       ELSE Append(done, s), SubSeq(rest, 2, Len(rest)))
MergeSpans(S) == MergeSorted(<<>>, SetToSortSeq(S, Before))

\* Variant of Take: the offset inside a piece is not added to its source.
RECURSIVE TakeFlat(_, _, _, _)
TakeFlat(ps, c, a, b) ==
  IF c.index > Len(ps) THEN [got |-> <<>>, at |-> c]
  ELSE LET len == ps[c.index][1]  src == ps[c.index][2]  end == c.offset + len
           low == Larger(a, c.offset)  high == Smaller(b, end)
           here == IF low < high THEN <<<<high - low, src>>>> ELSE <<>>
           rest == TakeFlat(ps, [index |-> c.index + 1, offset |-> end], a, b)
       IN  IF end > b THEN [got |-> here, at |-> c]
           ELSE [got |-> here \o rest.got, at |-> rest.at]
\* _PieceCursor.take: the pieces of now[a:b], and how far the cursor got.
RECURSIVE Take(_, _, _, _)
Take(ps, c, a, b) ==
  IF c.index > Len(ps) THEN [got |-> <<>>, at |-> c]
  ELSE LET len == ps[c.index][1]  src == ps[c.index][2]  end == c.offset + len
           low == Larger(a, c.offset)  high == Smaller(b, end)
           here == IF low < high
                   THEN <<<<high - low, IF src < 0 THEN src ELSE src + low - c.offset>>>>
                   ELSE <<>>
           rest == Take(ps, [index |-> c.index + 1, offset |-> end], a, b)
       IN  IF end > b THEN [got |-> here, at |-> c]
           ELSE [got |-> here \o rest.got, at |-> rest.at]
Cursor == [index |-> 1, offset |-> 0]

\* Byte-order marks at the start of a span stay.
LeadingBoms(s) ==
  Cardinality({k \in s[1]..(s[2] - 1) : \A j \in s[1]..k : now[j + 1] = Bom})

\* _redact_spans_tracked: from offset last on, with the cursor there.
RECURSIVE RedactFrom(_, _, _)
RedactFrom(spans, last, c) ==
  IF spans = <<>>
  THEN [text |-> Slice(now, last, Len(now)), origin |-> Slice(origin, last, Len(now)),
        pieces |-> Take(pieces, c, last, Len(now)).got]
  ELSE LET s == spans[1]
           start == s[1] + LeadingBoms(s)
           before == Take(pieces, c, last, start)
           rest == RedactFrom(SubSeq(spans, 2, Len(spans)), s[2],
                              Take(pieces, before.at, start, s[2]).at)
       IN  [text   |-> Slice(now, last, start) \o Mark \o rest.text,
            origin |-> Slice(origin, last, start) \o [k \in DOMAIN Mark |-> -1] \o rest.origin,
            pieces |-> before.got \o <<<<Len(Mark), -1>>>> \o rest.pieces]

\* The binary search of _bound_tracked for the longest common prefix.
RECURSIVE CommonPrefix(_, _, _, _)
CommonPrefix(s, t, low, high) ==
  IF low >= high THEN low
  ELSE LET middle == (low + high + 1) \div 2
       IN  IF Slice(s, 0, middle) = Slice(t, 0, middle)
           THEN CommonPrefix(s, t, middle, high)
           ELSE CommonPrefix(s, t, low, middle - 1)
BoundTracked(t, ps, b) ==
  LET low == CommonPrefix(t, b, 0, Smaller(Len(t), Len(b)))
      front == Take(ps, Cursor, 0, low).got
  IN  IF b = t THEN ps
      ELSE IF Len(b) > low THEN Append(front, <<Len(b) - low, -1>>) ELSE front

---------------------------------------------------------------------------
\* Offset in now at which piece k starts.
RECURSIVE OffsetOf(_)
OffsetOf(k) == IF k = 1 THEN 0 ELSE OffsetOf(k - 1) + pieces[k - 1][1]

\* Variant of MaskedIn: a span is passed by once a piece has begun inside it.
RECURSIVE MaskedInOnce(_, _, _)
MaskedInOnce(spans, k, skip) ==
  IF k > Len(pieces) THEN <<>>
  ELSE LET len == pieces[k][1]  src == pieces[k][2]
           from == CHOOSE i \in skip..(Len(spans) + 1) :
                     /\ i = Len(spans) + 1 \/ spans[i][1] >= src
                     /\ \A j \in skip..(i - 1) : spans[j][1] < src
           upto == Cardinality({i \in from..Len(spans) : spans[i][1] < src + len})
           part(i) == Span(OffsetOf(k) + Larger(spans[i][1], src) - src,
                           OffsetOf(k) + Smaller(spans[i][2], src + len) - src)
       IN  IF src < 0 THEN MaskedInOnce(spans, k + 1, skip)
           ELSE [n \in 1..upto |-> part(from + n - 1)] \o MaskedInOnce(spans, k + 1, from)
\* The walk of _masked_ranges over pieces k, k + 1, ...; skip is span_index.
RECURSIVE MaskedIn(_, _, _)
MaskedIn(spans, k, skip) ==
  IF k > Len(pieces) THEN <<>>
  ELSE LET len == pieces[k][1]  src == pieces[k][2]
           from == CHOOSE i \in skip..(Len(spans) + 1) :
                     /\ i = Len(spans) + 1 \/ spans[i][2] > src
                     /\ \A j \in skip..(i - 1) : spans[j][2] <= src
           upto == Cardinality({i \in from..Len(spans) : spans[i][1] < src + len})
           part(i) == Span(OffsetOf(k) + Larger(spans[i][1], src) - src,
                           OffsetOf(k) + Smaller(spans[i][2], src + len) - src)
       IN  IF src < 0 THEN MaskedIn(spans, k + 1, skip)
           ELSE [n \in 1..upto |-> part(from + n - 1)] \o MaskedIn(spans, k + 1, from)

\* Variant of Group: touching ranges stay apart.
RECURSIVE GroupApart(_, _)
GroupApart(done, rest) ==
  IF rest = <<>> THEN done
  ELSE LET s == rest[1] l == done[Len(done)]
       IN  GroupApart(IF done # <<>> /\ s[1] < l[2]
                      THEN [done EXCEPT ![Len(done)] = <<l[1], Larger(l[2], s[2]), l[3] \/ s[3]>>]
                      ELSE Append(done, s), SubSeq(rest, 2, Len(rest)))
\* _merge_touching; with a tag as third component it is the grouping of
\* _absorb_inserted.
RECURSIVE Group(_, _)
Group(done, rest) ==
  IF rest = <<>> THEN done
  ELSE LET s == rest[1] l == done[Len(done)]
       IN  Group(IF done # <<>> /\ s[1] <= l[2]
                 THEN [done EXCEPT ![Len(done)] = <<l[1], Larger(l[2], s[2]), l[3] \/ s[3]>>]
                 ELSE Append(done, s), SubSeq(rest, 2, Len(rest)))
Tagged(spans, tag) == [k \in DOMAIN spans |-> <<spans[k][1], spans[k][2], tag>>]
Ordered(a, b) == Before(a, b) \/ (a[1] = b[1] /\ a[2] = b[2] /\ ~a[3] /\ b[3])

\* _inserted_ranges.
Inserted == {<<OffsetOf(k), OffsetOf(k) + pieces[k][1], FALSE>> :
               k \in {i \in DOMAIN pieces : pieces[i][2] < 0}}
\* _masked_ranges, _absorb_inserted.
MaskedRanges(spans) ==
  LET own == Group(<<>>, Tagged(MaskedIn(spans, 1, 1), TRUE))
      groups == Group(<<>>, SetToSortSeq(ToSet(own) \union Inserted, Ordered))
  IN  IF own = <<>> THEN <<>> ELSE SelectSeq(groups, LAMBDA g : g[3])

\* _mask_structural: each range becomes one marker.
RECURSIVE MaskFrom(_, _, _, _)
MaskFrom(s, mark, ranges, last) ==
  IF ranges = <<>> THEN Slice(s, last, Len(s))
  ELSE Slice(s, last, ranges[1][1]) \o mark
       \o MaskFrom(s, mark, SubSeq(ranges, 2, Len(ranges)), ranges[1][2])

---------------------------------------------------------------------------
Whole(t) == IF t = <<>> THEN <<>> ELSE <<<<Len(t), 0>>>>
Sources(o) == {o[k] : k \in DOMAIN o} \ {-1}

Init ==
  /\ \E c \in Calls : text = c[1] /\ bound = c[2]
  /\ stage = IF text \in References THEN "done" ELSE "base"
  /\ round = 0
  /\ now = text
  /\ pieces = Whole(text)
  /\ origin = [k \in DOMAIN text |-> k - 1]
  /\ kept = {}
  /\ masked = {}

\* One pass of _base_fixed_point that changes the text.
Pass(spans) ==
  LET r == RedactFrom(spans, 0, Cursor)
  IN  /\ stage \in {"base", "again"}
      /\ round < Passes
      /\ Bounded(r.text) # now
      /\ now' = Bounded(r.text)
      /\ pieces' = BoundTracked(r.text, r.pieces, Bounded(r.text))
      /\ origin' = BoundedOrigin(r.origin, Len(r.text))
      /\ round' = round + 1
      /\ UNCHANGED <<text, bound, stage, kept, masked>>

\* A pass that changes nothing: the fixed point.
Stable(spans) ==
  /\ stage \in {"base", "again"}
  /\ round < Passes
  /\ Bounded(RedactFrom(spans, 0, Cursor).text) = now
  /\ stage' = IF stage = "base" THEN "mask" ELSE "done"
  /\ kept' = IF stage = "base" THEN Sources(origin) ELSE kept
  /\ UNCHANGED <<text, bound, round, now, pieces, origin, masked>>

\* Still changing after the last pass: the text is replaced as a whole.
GiveUp ==
  /\ stage \in {"base", "again"}
  /\ round = Passes
  /\ stage' = "done"
  /\ now' = Mark
  /\ pieces' = <<<<Len(Mark), -1>>>>
  /\ origin' = [k \in DOMAIN Mark |-> -1]
  /\ UNCHANGED <<text, bound, round, kept, masked>>

\* The structural spans of the original, masked in what is left of it.
Mask(spans) ==
  LET ranges == MaskedRanges(MergeSpans(spans))
      line == MaskFrom(now, Mark, ranges, 0)
  IN  /\ stage = "mask"
      /\ stage' = IF spans = {} THEN "done" ELSE "again"
      /\ round' = 0
      /\ masked' = Covered(spans)
      /\ now' = Bounded(line)
      /\ pieces' = Whole(now')
      /\ origin' = BoundedOrigin(MaskFrom(origin, [k \in DOMAIN Mark |-> -1], ranges, 0), Len(line))
      /\ UNCHANGED <<text, bound, kept>>

Structural(n) == {S \in Found : S \subseteq Spans(n)}
Next == \/ \E spans \in Matches(Len(now)) : Pass(spans) \/ Stable(spans)
        \/ GiveUp
        \/ \E spans \in Structural(Len(text)) : Mask(spans)
Spec == Init /\ [][Next]_vars

---------------------------------------------------------------------------
\* Where a piece says that character k (from 1) of now comes from.
PieceOf(k) == CHOOSE p \in DOMAIN pieces : OffsetOf(p) < k /\ k <= OffsetOf(p) + pieces[p][1]
Claimed(k) == LET p == PieceOf(k)
              IN  IF pieces[p][2] < 0 THEN -1 ELSE pieces[p][2] + k - 1 - OffsetOf(p)

TypeOK ==
  /\ stage \in {"base", "mask", "again", "done"}
  /\ round \in 0..Passes
  /\ Len(origin) = Len(now)
  /\ masked \subseteq 0..(Len(text) - 1)

\* The pieces tell the truth: every character of the original that is still in
\* the text is claimed at its place, every claimed place holds that character,
\* and the claims go up.  (A truncation marker may be claimed as the equal
\* characters it replaced.)
PiecesTrackText ==
  stage \in {"base", "mask"} =>
    /\ (now = <<>> /\ pieces = <<>>) \/ OffsetOf(Len(pieces)) + pieces[Len(pieces)][1] = Len(now)
    /\ \A k \in DOMAIN now :
         /\ origin[k] >= 0 => Claimed(k) = origin[k]
         /\ Claimed(k) >= 0 => text[Claimed(k) + 1] = now[k]
         /\ \A j \in 1..(k - 1) : Claimed(j) >= 0 /\ Claimed(k) >= 0 => Claimed(j) < Claimed(k)

\* Nothing that a structural span covers is left once the spans are masked.
StructuralGone == stage \in {"again", "done"} => Sources(origin) \intersect masked = {}

\* What the base passes redacted stays redacted, and the rest keeps its order.
BaseStaysRedacted ==
  /\ stage \in {"again", "done"} /\ text \notin References => Sources(origin) \subseteq kept
  /\ \A j, k \in DOMAIN origin : j < k /\ origin[j] >= 0 /\ origin[k] >= 0 => origin[j] < origin[k]

\* A text that is done respects the bound of its caller.
WithinBound ==
  stage = "done" /\ text \notin References =>
    CASE bound = "text" -> Len(now) <= Limit + Len(Cut)
      [] bound \in {"message", "name"} -> Len(now) <= Limit
      [] OTHER -> TRUE

\* The ranges that are masked are in order, apart, made of nothing but covered
\* and inserted characters, and no inserted run touches one from outside: each
\* becomes exactly one marker.
RangesAreClosed ==
  stage = "mask" => \A spans \in Structural(Len(text)) \ {{}} :
    LET ranges == MaskedRanges(MergeSpans(spans))
        inside == Covered({Span(ranges[k][1], ranges[k][2]) : k \in DOMAIN ranges})
    IN  /\ \A k \in 1..(Len(ranges) - 1) : ranges[k][2] < ranges[k + 1][1]
        /\ \A i \in 0..(Len(now) - 1) :
             /\ Claimed(i + 1) \in Covered(spans) => i \in inside
             /\ i \in inside => Claimed(i + 1) = -1 \/ Claimed(i + 1) \in Covered(spans)
             /\ Claimed(i + 1) = -1 /\ {i - 1, i + 1} \intersect inside # {} => i \in inside

\* Through every pass, cut and marker the text is redacted exactly where it has
\* to be: positions are tracked to the character, what a span covers is gone,
\* what was redacted stays so, and the bound is kept.
RedactionIsExact ==
  TypeOK /\ PiecesTrackText /\ StructuralGone /\ BaseStaysRedacted /\ WithinBound /\ RangesAreClosed

=============================================================================
