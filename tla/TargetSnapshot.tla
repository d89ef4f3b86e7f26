---------------------------- MODULE TargetSnapshot ----------------------------
(***************************************************************************)
(* The snapshot of the target object that a run with a Jinja command       *)
(* carries: the object's fields are copied under one budget of nodes and   *)
(* bytes, a copy that does not fit is undone, and what is lost is marked;  *)
(* the redacted copy, whose values may have grown, is bounded once more.   *)
(*                                                                         *)
(* A value is a text (the length of its JSON form, whether the secret      *)
(* pattern matches its complete text, and whether the copy remembers that  *)
(* it does), a mapping or a list.  A name is a number, which is also its   *)
(* place in the order of names; the names of Sensitive are caught by name, *)
(* those of Secretive by the secret pattern.                               *)
(***************************************************************************)
EXTENDS Integers, Sequences, SequencesExt

CONSTANTS Objects,       \* the target objects tried
          Sensitive, Secretive,
          MaxNodes, MaxBytes, MaxKeys, MaxItems, MaxValue, MaxDepth,
          MarkerBytes, PlaceholderBytes, DigestBytes

VARIABLES object,
          phase,         \* "object", "built", "persisted"
          raw,           \* _build_target_object_snapshot: copy and budget
          kept           \* _bounded_persisted_snapshot: copy and budget
vars == <<object, phase, raw, kept>>

Text(n) == [kind |-> "text", bytes |-> n, secret |-> FALSE, matched |-> FALSE]
SecretText(n) == [Text(n) EXCEPT !.secret = TRUE]
Map(entries) == [kind |-> "map", items |-> entries]
List(items) == [kind |-> "list", items |-> items]
Entry(k, v) == [key |-> k, value |-> v]
Name(n) == [name |-> n, digest |-> FALSE]
Placeholder == Text(PlaceholderBytes)
Cut == Text(1)

\* The names of the entries every snapshot has; they precede no field's.
Id == Name(-3)
Display == Name(-2)
CustomFields == Name(-1)

\* Names sort by their text, and those replaced by a digest sort first.
Precedes(a, b) == IF a.digest = b.digest THEN a.name < b.name ELSE a.digest
\* _mapping_entry_bytes, without the comma.
KeyBytes(k) == IF k.digest THEN DigestBytes ELSE 1
Comma(out) == IF out = <<>> THEN 0 ELSE 1

---------------------------------------------------------------------------
\* _TargetSnapshotBudget.
EmptyBudget == [nodes |-> 0, bytes |-> 0, truncated |-> FALSE]
Truncated(b) == [b EXCEPT !.truncated = TRUE]
\* Room for the marker is always kept.
Fits(b, nodes, bytes) ==
  b.nodes + nodes <= MaxNodes - 1 /\ b.bytes + bytes <= MaxBytes - MarkerBytes
Spent(b, nodes, bytes) == [b EXCEPT !.nodes = @ + nodes, !.bytes = @ + bytes]
\* Variant of Undone: what the abandoned copy has spent stays spent.
UndoneSpent(b, later) == Truncated(later)
\* restore(checkpoint) of a copy that was abandoned.
Undone(b, later) == Truncated(b)

\* _canonical_mapping_items: the first names, in order, the first of equal ones.
Limited(entries) == SubSeq(entries, 1, IF Len(entries) > MaxKeys THEN MaxKeys ELSE Len(entries))
Ordered(entries) == SortSeq(entries, LAMBDA a, b : Precedes(a.key, b.key))
Distinct(entries) ==
  FoldLeft(LAMBDA acc, e : IF \E i \in DOMAIN acc : acc[i].key = e.key THEN acc ELSE Append(acc, e),
           <<>>, entries)
Canonical(entries) == Distinct(Ordered(Limited(entries)))
CanonicalBudget(entries, b) == IF Len(entries) > Len(Canonical(entries)) THEN Truncated(b) ELSE b

Shortened(n) == IF n > MaxValue THEN MaxValue ELSE n
\* _json_safe_scalar, and _MatchedText when the complete text matches; a scalar
\* that is no string is a text without a secret, as only strings are matched.
SafeText(v) == [v EXCEPT !.bytes = Shortened(v.bytes), !.matched = v.secret]

RECURSIVE SafeValue(_, _, _)
\* _append_snapshot_value: an entry is copied whole or not at all.
AppendValue(acc, k, v, depth) ==
  LET b == acc.budget
      bytes == KeyBytes(k) + Comma(acc.out)
      copy == SafeValue(v, depth, Spent(b, 0, bytes))
  IN IF ~Fits(b, 0, bytes) THEN [acc EXCEPT !.budget = Truncated(b)]
     ELSE IF ~copy.ok THEN [acc EXCEPT !.budget = Undone(b, copy.budget)]
     ELSE [out |-> Append(acc.out, Entry(k, copy.value)), budget |-> copy.budget]

AppendAll(acc, entries, depth) ==
  FoldLeft(LAMBDA a, e : AppendValue(a, e.key, e.value, depth), acc, entries)

\* _json_safe_sequence: an item that does not fit is passed over; the copy ends
\* where not even the comma fits.
RECURSIVE AppendItems(_, _, _)
AppendItems(acc, items, depth) ==
  LET b == acc.budget
      copy == SafeValue(Head(items), depth, Spent(b, 0, Comma(acc.out)))
  IN IF items = <<>> THEN acc
     ELSE IF ~Fits(b, 0, Comma(acc.out)) THEN [acc EXCEPT !.budget = Truncated(b)]
     ELSE AppendItems(IF copy.ok
                      THEN [out |-> Append(acc.out, copy.value), budget |-> copy.budget]
                      ELSE [acc EXCEPT !.budget = Undone(b, copy.budget)],
                      Tail(items), depth)

\* _json_safe_value with _json_safe_mapping and _json_safe_sequence.
SafeValue(v, depth, b) ==
  LET flat == IF v.kind # "text" /\ depth >= MaxDepth THEN Cut ELSE v
      text == SafeText(flat)
      start == [out |-> <<>>, budget |-> Spent(b, 1, 2)]
      map == AppendAll([start EXCEPT !.budget = CanonicalBudget(flat.items, @)],
                       Canonical(flat.items), depth + 1)
      count == IF Len(flat.items) > MaxItems THEN MaxItems ELSE Len(flat.items)
      list == AppendItems(start, SubSeq(flat.items, 1, count), depth + 1)
      none == [ok |-> FALSE, value |-> Cut, budget |-> Truncated(b)]
  IN CASE flat.kind = "text" ->
            IF Fits(b, 1, text.bytes)
            THEN [ok |-> TRUE, value |-> text, budget |-> Spent(b, 1, text.bytes)] ELSE none
       [] ~Fits(b, 1, 2) /\ flat.kind # "text" -> none
       [] flat.kind = "map" /\ Fits(b, 1, 2) ->
            [ok |-> TRUE, value |-> Map(map.out), budget |-> map.budget]
       [] flat.kind = "list" /\ Fits(b, 1, 2) ->
            [ok |-> TRUE, value |-> List(list.out),
             budget |-> IF Len(flat.items) > Len(list.out) THEN Truncated(list.budget)
                        ELSE list.budget]

---------------------------------------------------------------------------
Start == [out |-> <<>>, budget |-> Spent(EmptyBudget, 1, 2)]
Has(out, k) == \E i \in DOMAIN out : out[i].key = k

\* _append_custom_fields: no entry is left for an empty copy.
AppendCustom(acc, custom) ==
  LET b == acc.budget
      bytes == KeyBytes(CustomFields) + Comma(acc.out)
      open == CanonicalBudget(custom, Spent(b, 1, bytes + 2))
      public == SelectSeq(Canonical(custom), LAMBDA e : e.key.name \notin Sensitive)
      copy == AppendAll([out |-> <<>>, budget |-> open], public, 0)
  IN IF custom = <<>> THEN acc
     ELSE IF ~Fits(b, 0, bytes) \/ ~Fits(Spent(b, 0, bytes), 1, 2)
     THEN [acc EXCEPT !.budget = Truncated(b)]
     ELSE IF copy.out = <<>>
     THEN [acc EXCEPT !.budget = [b EXCEPT !.truncated = copy.budget.truncated]]
     ELSE [out |-> Append(acc.out, Entry(CustomFields, Map(copy.out))), budget |-> copy.budget]

\* The loop over the fields of _build_target_object_snapshot; the fields given
\* are the public ones: the loop skips custom_field_data and the names that
\* begin with an underscore.
RECURSIVE AppendFields(_, _)
AppendFields(acc, fields) ==
  IF fields = <<>> THEN acc
  ELSE LET e == Head(fields)
       IN IF e.key.name \in Sensitive \/ Has(acc.out, e.key) THEN AppendFields(acc, Tail(fields))
          ELSE IF Len(acc.out) >= MaxKeys - 1 THEN [acc EXCEPT !.budget = Truncated(@)]
          ELSE AppendFields(AppendValue(acc, e.key, e.value, 0), Tail(fields))

\* add_marker.
SnapshotMarker == Name(-4)
Marked(acc, also) ==
  IF acc.budget.truncated \/ also
  THEN [out |-> Append(acc.out, Entry(SnapshotMarker, Text(MarkerBytes - 2))),
        budget |-> Spent(acc.budget, 1, MarkerBytes)]
  ELSE acc

\* id, display and, if the object has one, name come first; custom fields follow.
\* _target_field_items yields at most MaxKeys fields.
Build(o) ==
  LET fixed == AppendAll(Start, <<Entry(Id, o.id), Entry(Display, o.display)>> \o o.named, 0)
      custom == AppendCustom(fixed, o.custom)
  IN Marked(AppendFields([custom EXCEPT !.budget = IF Len(o.fields) > MaxKeys THEN Truncated(@) ELSE @],
                         Limited(o.fields)), FALSE)

\* _free_text_policy_copy and redact_event_value.
RECURSIVE Redacted(_)
Redacted(v) ==
  CASE v.kind = "text" -> IF v.matched THEN Placeholder ELSE v
    [] v.kind = "list" -> List([i \in DOMAIN v.items |-> Redacted(v.items[i])])
    [] v.kind = "map" -> Map([i \in DOMAIN v.items |->
         Entry([v.items[i].key EXCEPT !.digest = v.items[i].key.name \in Secretive],
               IF v.items[i].key.name \in Sensitive THEN Placeholder
               ELSE Redacted(v.items[i].value))])

\* _bounded_persisted_snapshot.
Persist(out) ==
  LET entries == Ordered(SelectSeq(Redacted(Map(out)).items, LAMBDA e : e.key # SnapshotMarker))
  IN Marked(AppendAll(Start, entries, 0), Has(out, SnapshotMarker))

---------------------------------------------------------------------------
Empty == [out |-> <<>>, budget |-> EmptyBudget]
Init == object \in Objects /\ phase = "object" /\ raw = Empty /\ kept = Empty
BuildSnapshot ==
  /\ phase = "object" /\ phase' = "built"
  /\ raw' = Build(object)
  /\ UNCHANGED <<object, kept>>
PersistSnapshot ==
  /\ phase = "built" /\ phase' = "persisted"
  /\ kept' = Persist(raw.out)
  /\ UNCHANGED <<object, raw>>
Next == BuildSnapshot \/ PersistSnapshot
Spec == Init /\ [][Next]_vars

---------------------------------------------------------------------------
\* What a copy really is: its nodes, its bytes, and its parts.
RECURSIVE Nodes(_)
Nodes(v) ==
  IF v.kind = "text" THEN 1
  ELSE FoldLeft(LAMBDA n, e : n + Nodes(IF v.kind = "map" THEN e.value ELSE e), 1, v.items)
RECURSIVE Bytes(_)
Bytes(v) ==
  IF v.kind = "text" THEN v.bytes
  ELSE FoldLeft(LAMBDA n, e : n + (IF v.kind = "map" THEN KeyBytes(e.key) + Bytes(e.value) ELSE Bytes(e)),
                2 + (IF v.items = <<>> THEN 0 ELSE Len(v.items) - 1), v.items)
RECURSIVE Parts(_)
Parts(v) ==
  {v} \union (IF v.kind = "text" THEN {}
              ELSE UNION {Parts(IF v.kind = "map" THEN v.items[i].value ELSE v.items[i]) :
                          i \in DOMAIN v.items})

\* The copy without any limit of budget, count or keys; texts and depth are cut.
RECURSIVE Whole(_, _)
Whole(v, depth) ==
  CASE v.kind = "text" -> SafeText(v)
    [] v.kind # "text" /\ depth >= MaxDepth -> Cut
    [] v.kind = "list" /\ depth < MaxDepth ->
         List([i \in DOMAIN v.items |-> Whole(v.items[i], depth + 1)])
    [] v.kind = "map" /\ depth < MaxDepth ->
         LET sorted == Ordered(v.items)
         IN Map([i \in DOMAIN sorted |-> Entry(sorted[i].key, Whole(sorted[i].value, depth + 1))])
Wholes(entries) == [i \in DOMAIN entries |-> Entry(entries[i].key, Whole(entries[i].value, 0))]
Public(entries) == SelectSeq(entries, LAMBDA e : e.key.name \notin Sensitive)
WholeObject(o) ==
  LET custom == Wholes(Public(Ordered(o.custom)))
      new == SelectSeq(o.fields, LAMBDA e : ~Has(o.named, e.key))
  IN Wholes(<<Entry(Id, o.id), Entry(Display, o.display)>> \o o.named)
     \o (IF custom = <<>> THEN <<>> ELSE <<Entry(CustomFields, Map(custom))>>)
     \o Wholes(Public(new))

\* The budgets are numbers and both copies are sequences of entries.
TypeOK ==
  /\ phase \in {"object", "built", "persisted"}
  /\ \A s \in {raw, kept} : /\ s.budget.nodes \in 0..MaxNodes /\ s.budget.bytes \in 0..MaxBytes
                            /\ \A i \in DOMAIN s.out : s.out[i].key.name \in Int

\* Copies that are undone leave no trace: what the budget has spent is what the
\* copy holds, to the node and to the byte (the marker is charged for a comma it
\* does not need when it stands alone).
BudgetIsExact ==
  \A s \in (IF phase = "object" THEN {} ELSE {raw})
           \union (IF phase = "persisted" THEN {kept} ELSE {}) :
    /\ s.budget.nodes = Nodes(Map(s.out))
    /\ s.budget.bytes = Bytes(Map(s.out)) + (IF Len(s.out) = 1 /\ Has(s.out, SnapshotMarker) THEN 1 ELSE 0)

\* Both copies, marker included and after redaction has lengthened values and
\* names, stay within every limit.
WithinLimits ==
  \A s \in {raw, kept} :
    /\ Nodes(Map(s.out)) <= MaxNodes /\ Bytes(Map(s.out)) <= MaxBytes
    /\ \A p \in Parts(Map(s.out)) : /\ p.kind = "map" => Len(p.items) <= MaxKeys
                                    /\ p.kind = "list" => Len(p.items) <= MaxItems

\* A copy without the marker is complete: nothing of the object, or of the
\* redacted copy, was left out.
UnmarkedIsWhole ==
  /\ phase # "object" /\ ~Has(raw.out, SnapshotMarker) => raw.out = WholeObject(object)
  /\ phase = "persisted" /\ ~Has(kept.out, SnapshotMarker) =>
       kept.out = Wholes(Ordered(Redacted(Map(WholeObject(object))).items))

\* The stored copy holds no text or name the secret pattern matches in full,
\* however the text was shortened, and no value under a sensitive name.
NothingSecretKept ==
  \A p \in Parts(Map(kept.out)) :
    /\ p.kind = "text" => ~p.secret
    /\ p.kind = "map" => \A i \in DOMAIN p.items :
         /\ p.items[i].key.name \in Sensitive => p.items[i].value = Placeholder
         /\ p.items[i].key.name \in Secretive => p.items[i].key.digest

\* The copies account for all they hold and all they left out: the budget is
\* what was really spent, no limit is passed, an omission is marked, and nothing
\* secret is kept.
SnapshotIsAccounted ==
  TypeOK /\ BudgetIsExact /\ WithinLimits /\ UnmarkedIsWhole /\ NothingSecretKept

=============================================================================
