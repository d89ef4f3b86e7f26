----------------------------- MODULE RedactValue -----------------------------
(***************************************************************************)
(* event_store.redact_event_value: the form in which a structured value is *)
(* stored in the ledger, recorded, read back from the database (which may  *)
(* return the names of a mapping in another order) and recorded again.     *)
(*                                                                         *)
(* A value is a mapping (entries in order), a list, a boolean, an integer, *)
(* a text or a credential reference that its contract accepts; a stored    *)
(* mapping is a function from its names.  Texts and names are classes:     *)
(* "leak" matches the secret patterns, "bare" is secret only for the name  *)
(* it stands under, "ref" is an nms-secret pointer, "digest" a hash in the *)
(* form of public metadata; "long" exceeds the default limit and "huge"    *)
(* also the wider limit of some paths.  What the patterns do to a text is  *)
(* the subject of RedactText.                                              *)
(***************************************************************************)
EXTENDS Integers, Sequences, FiniteSets, SequencesExt

CONSTANTS Inputs,    \* values given to the ledger, each with its wide paths
          Orders,    \* orders in which the database may return names
          NameOrder, \* the names in string order
          MaxDict, MaxList, MaxDepth,
          MaxReferences \* named references accepted in one mapping

VARIABLES value,   \* the value to record
          wide,    \* string_limits: the paths with a wider limit
          stored,  \* what the ledger holds
          first,   \* what it held first
          times    \* how often it was recorded
vars == <<value, wide, stored, first, times>>

None == [kind |-> "none"]
Map(entries) == [kind |-> "map", entries |-> entries]
List(items) == [kind |-> "list", items |-> items]
Bool == [kind |-> "bool"]
Number(n) == [kind |-> "int", n |-> n]
Text(c) == [kind |-> "text", class |-> c]
Reference == [kind |-> "reference"]
StoredMap(g) == [kind |-> "stored", of |-> g]

---------------------------------------------------------------------------
\* The classes of names.
Policy == {"policy"}
Sensitive == {"password", "s1", "refs", "digest"}
SecretBearing == {"s1", "s2"}
Candidates == [s1 |-> <<"p1", "p1#2", "p1#3">>, s2 |-> <<"p2", "p2#2", "p2#3">>]

\* _redact_event_text: what redaction and the limit of the path make of each
\* class.  A text that was cut is over its limit by the marker, and cut again.
RedactText(c, path) ==
  LET over == IF path \in wide THEN {"huge", "cutwide"} ELSE {"long", "huge", "cutwide"}
  IN  Text(CASE c = "leak" -> "mark"
             [] c \in over -> IF path \in wide THEN "cutwide" ELSE "cut"
             [] OTHER -> c)

\* validate_named_references.
NamedReferences(v) ==
  /\ v.kind = "map" /\ Len(v.entries) <= MaxReferences
  /\ \A e \in ToSet(v.entries) : e[2] = Reference
\* public_credential_metadata: "refs" stands for credential_references, and
\* "digest" for credential_authority_sha256 and credential_policy_ref.
PublicMetadata(v, key) ==
  \/ key = "refs" /\ NamedReferences(v)
  \/ key = "digest" /\ v = Text("digest")
\* The mapping of references is kept whole; anything else public is a text.
Kept(v) == IF v.kind = "map"
           THEN StoredMap([n \in {e[1] : e \in ToSet(v.entries)} |-> Reference])
           ELSE v

\* _redact_sensitive_value.
RedactSensitive(v, key) ==
  CASE v.kind = "bool" -> v
    [] v.kind # "bool" /\ PublicMetadata(v, key) -> Kept(v)
    [] v = Text("ref") -> v
    [] OTHER -> Text("mark")

Named(entries, n) == {k \in DOMAIN entries : entries[k][1] = n}

\* Variant of AlreadyBounded: a bounded mapping is not recognised.
AlreadyBoundedNever(entries) == FALSE
\* A mapping the ledger bounded before: the limit of entries and the marker.
AlreadyBounded(entries) ==
  /\ Len(entries) = MaxDict + 1
  /\ \E k \in Named(entries, "_truncated") : entries[k][2] = Bool

\* _unused_placeholder.
UnusedPlaceholder(n, taken) ==
  LET k == CHOOSE i \in DOMAIN Candidates[n] :
             /\ Candidates[n][i] \notin taken
             /\ \A j \in 1..(i - 1) : Candidates[n][j] \in taken
  IN  Candidates[n][k]

\* _persisted_mapping_entries: names in order, each with the name it gets.
InOrder(entries, order) ==
  SetToSortSeq(ToSet(entries), LAMBDA x, y : order[x[1]] < order[y[1]])
RECURSIVE Persisted(_, _)
Persisted(entries, taken) ==
  IF entries = <<>> THEN <<>>
  ELSE LET n == entries[1][1]
           p == IF n \in SecretBearing THEN UnusedPlaceholder(n, taken) ELSE n
       IN  <<<<p, n, entries[1][2]>>>> \o Persisted(Tail(entries), taken \union {p})
PersistedEntries(entries) ==
  Persisted(InOrder(entries, NameOrder), {e[1] : e \in ToSet(entries)} \ SecretBearing)

\* _is_truncation_marker.
IsMarker(v) ==
  /\ v.kind = "map" /\ {e[1] : e \in ToSet(v.entries)} = {"_truncated", "remaining"}
  /\ \A e \in ToSet(v.entries) : IF e[1] = "remaining" THEN e[2].kind = "int" ELSE e[2] = Bool

\* The window of _redact_event_sequence.
KeptItems(items) == SubSeq(items, 1, IF Len(items) > MaxList THEN MaxList ELSE Len(items))

\* The name under which the value of a persisted entry is judged: as written.
KeyOf(e) == e[2]

Prefix(s, n) == SubSeq(s, 1, IF Len(s) < n THEN Len(s) ELSE n)

\* redact_event_value, _redact_event_mapping and _redact_event_sequence.
RECURSIVE Redact(_, _, _, _)
Redact(v, key, path, depth) ==
  CASE key \in Policy -> IF v.kind = "bool" THEN v ELSE Text("mark")
    [] key \in Sensitive -> RedactSensitive(v, key)
    [] key \notin Policy \union Sensitive /\ v.kind \in {"map", "list"} /\ depth > MaxDepth ->
         Text("deep")
    [] key \notin Policy \union Sensitive /\ v.kind = "map" /\ depth <= MaxDepth ->
         LET bounded == AlreadyBounded(v.entries)
             kept == IF bounded THEN SelectSeq(v.entries, LAMBDA e : e[1] # "_truncated")
                     ELSE Prefix(v.entries, MaxDict)
             all == PersistedEntries(kept)
             entry(n) == CHOOSE e \in ToSet(all) :
                           e[1] = n /\ \A d \in ToSet(all) : d[1] = n => NameOrder[d[2]] <= NameOrder[e[2]]
             body == [n \in {e[1] : e \in ToSet(all)} |->
                        LET key1 == KeyOf(entry(n))
                        IN  Redact(entry(n)[3], key1, Append(path, key1), depth + 1)]
         IN  StoredMap(IF bounded \/ Len(v.entries) > MaxDict
                       THEN [n \in DOMAIN body \union {"_truncated"} |->
                               IF n = "_truncated" THEN Bool ELSE body[n]]
                       ELSE body)
    [] key \notin Policy \union Sensitive /\ v.kind = "list" /\ depth <= MaxDepth ->
         LET again == Len(v.items) = MaxList + 1 /\ IsMarker(v.items[Len(v.items)])
             items == KeptItems(v.items)
             marker(n) == StoredMap([_truncated |-> Bool, remaining |-> n])
             body == [k \in DOMAIN items |-> Redact(items[k], key, Append(path, "*"), depth + 1)]
             left(m) == (CHOOSE e \in ToSet(m.entries) : e[1] = "remaining")[2]
         IN  List(CASE again -> Append(body, marker(left(v.items[Len(v.items)])))
                    [] ~again /\ Len(v.items) > MaxList ->
                         Append(body, marker(Number(Len(v.items) - MaxList)))
                    [] OTHER -> body)
    [] key \notin Policy \union Sensitive /\ v.kind = "text" -> RedactText(v.class, path)
    [] OTHER -> v

\* A stored value as it is read back, with the names in an order.
RECURSIVE Loaded(_, _)
Loaded(s, order) ==
  CASE s.kind = "stored" ->
         Map(InOrder([k \in 1..Cardinality(DOMAIN s.of) |->
               LET n == SetToSeq(DOMAIN s.of)[k] IN <<n, Loaded(s.of[n], order)>>], order))
    [] s.kind = "list" -> List([k \in DOMAIN s.items |-> Loaded(s.items[k], order)])
    [] OTHER -> s

---------------------------------------------------------------------------
Init ==
  /\ \E c \in Inputs : value = c[1] /\ wide = c[2]
  /\ stored = None /\ first = None /\ times = 0

\* redact_event_data of the value, saved with an event.
Record ==
  /\ value # None
  /\ stored' = Redact(value, "", <<>>, 0)
  /\ first' = IF times = 0 THEN stored' ELSE first
  /\ times' = times + 1
  /\ UNCHANGED <<value, wide>>

\* The stored form is read and given to the ledger again.
Reload(order) ==
  /\ times = 1
  /\ value' = Loaded(stored, order)
  /\ UNCHANGED <<wide, stored, first, times>>

Next == (times < 2 /\ Record) \/ \E order \in Orders : Reload(order)
Spec == Init /\ [][Next]_vars

---------------------------------------------------------------------------
\* All parts of a stored value, with the name each stands under; a mapping of
\* references, which was validated whole, is one part.
RECURSIVE Parts(_, _)
Parts(s, key) ==
  {<<key, s>>} \union
  (CASE s.kind = "stored" /\ key # "refs" -> UNION {Parts(s.of[n], n) : n \in DOMAIN s.of}
     [] s.kind = "list" -> UNION {Parts(s.items[k], key) : k \in DOMAIN s.items}
     [] OTHER -> {})

\* The stored form respects the limits at every level, and is over a limit only
\* by its marker.
TypeOK ==
  /\ times \in 0..2
  /\ \A p \in Parts(stored, "") :
       /\ p[2].kind = "stored" => \/ Cardinality(DOMAIN p[2].of) <= MaxDict
                                  \/ /\ Cardinality(DOMAIN p[2].of) = MaxDict + 1
                                     /\ p[2].of["_truncated"] = Bool
       /\ p[2].kind = "list" => \/ Len(p[2].items) <= MaxList
                                \/ /\ Len(p[2].items) = MaxList + 1
                                   /\ p[2].items[MaxList + 1].kind = "stored"

\* A stored value with every text cut at the default limit.
RECURSIVE Cropped(_)
Cropped(s) ==
  CASE s.kind = "stored" -> StoredMap([n \in DOMAIN s.of |-> Cropped(s.of[n])])
    [] s.kind = "list" -> List([k \in DOMAIN s.items |-> Cropped(s.items[k])])
    [] s \in {Text("long"), Text("cutwide")} -> Text("cut")
    [] OTHER -> s
\* "redacting a stored mapping returns the same form", in whatever order the
\* database returns its names, for lists and texts as well, and under the wider
\* limits of normalised parameters, which are recorded again when an approval
\* and a lease are checked.  Only "a secret-bearing name whose schema limit has
\* moved to its placeholder" is different: then a second recording cuts texts at
\* the default limit and changes nothing else.  Such limits come from result
\* schemas, and results are recorded once.
StoredFormIsStable ==
  IF \A path \in wide : \A k \in DOMAIN path : path[k] \notin SecretBearing
  THEN stored = first
  ELSE Cropped(stored) = Cropped(first)

\* No text that the patterns match and no secret-bearing name is stored; what
\* stood under a sensitive name is stored only as a boolean, a marker, a pointer
\* to a vaulted secret or validated public metadata; and a policy flag is a
\* boolean or a marker.
NoSecretStored ==
  \A p \in Parts(stored, "") :
    /\ p[1] \notin SecretBearing
    /\ p[2].kind = "text" => p[2].class \notin {"leak", "bare"}
    /\ p[1] \in Sensitive => \/ p[2] \in {Bool, Text("mark"), Text("ref")}
                             \/ p[1] = "digest" /\ p[2] = Text("digest")
                             \/ /\ p[1] = "refs" /\ p[2].kind = "stored"
                                /\ \A n \in DOMAIN p[2].of : p[2].of[n] = Reference
    /\ p[1] \in Policy => p[2] \in {Bool, Text("mark")}

\* The entries within the limit.
Window == IF AlreadyBounded(value.entries)
          THEN SelectSeq(value.entries, LAMBDA e : e[1] # "_truncated")
          ELSE Prefix(value.entries, MaxDict)
\* No value within the limit is dropped or overwritten: an ordinary name keeps
\* its own value, the secret-bearing ones have as many names of their own, and
\* every named reference, which the lease check compares with the authority, is
\* still there.
NothingDropped ==
  times = 1 /\ value.kind = "map" /\ stored = first /\ stored.kind = "stored" =>
    LET plain == {e \in ToSet(Window) : e[1] \notin SecretBearing \union {"_truncated"}}
        hidden == {e \in ToSet(Window) : e[1] \in SecretBearing}
    IN  /\ \A e \in plain :
             /\ e[1] \in DOMAIN stored.of
             /\ Cropped(stored.of[e[1]]) = Cropped(Redact(e[2], e[1], <<e[1]>>, 1))
        /\ \A e \in plain : e[1] = "refs" /\ NamedReferences(e[2]) =>
             /\ stored.of["refs"].kind = "stored"
             /\ \A d \in ToSet(e[2].entries) : stored.of["refs"].of[d[1]] = Reference
        /\ Cardinality(DOMAIN stored.of \ {"_truncated"}) = Cardinality(plain) + Cardinality(hidden)

\* A value is stored without its secrets, without losing another value to a
\* placeholder, and in a form that a second recording changes only where a wider
\* limit belonged to a secret-bearing name.
StoredFormIsFaithful == TypeOK /\ StoredFormIsStable /\ NoSecretStored /\ NothingDropped

=============================================================================
