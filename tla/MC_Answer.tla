------------------------------- MODULE MC_Answer -------------------------------
(***************************************************************************)
(* One backend call and what becomes of its answer: the transport, the     *)
(* bounded read of the body, the judgement of the response, and the        *)
(* redaction of texts, values and target snapshots on their way to the     *)
(* ledger.  The six are pipeline stages without shared variables: each     *)
(* behaviour follows one of them, from every input of the instance, while  *)
(* the others rest in one of their initial states.                         *)
(***************************************************************************)
EXTENDS BackendAnswer, Sequences, FiniteSets, SequencesExt

CONSTANT Stages  \* the stages a behaviour may follow

VARIABLES part,
          text, bound, stage, round, current, pieces, origin, keptAt, masked,
          value, wide, stored, first, times,
          object, phase, raw, snapshot

EveryPart == {"transport", "read", "judge", "text", "value", "snapshot"}
EveryKind == AllKinds
PairOnly == {"pair"}

---------------------------------------------------------------------------
\* Answers of every contract.  Lengths around the limits: an event string of 4
\* with a marker of 2, and maxLength 3 or 6.
Field(len, fits, secret) == [len |-> len, fits |-> fits, secret |-> secret]
EveryContract == {"generic", "installer", "protected", "gitea", "staging", "dns"}
FewSchemas == {[max |-> 0, pattern |-> "none", required |-> FALSE]} \union
              [max : {3}, pattern : {"any", "closed"}, required : {FALSE}] \union
              [max : {6}, pattern : {"any", "closed"}, required : BOOLEAN]
FewContents == {Field(3, fits, FALSE) : fits \in BOOLEAN}
               \union {Field(len, TRUE, FALSE) : len \in {5, 6, 7}} \union {Field(3, TRUE, TRUE)}
FewEventLists == {<<>>, <<"not a list">>, <<"junk", "event", "event">>}

---------------------------------------------------------------------------
\* Bounded texts of up to five characters, one with the truncation marker's
\* first character where the bound cuts; an unbounded text, which markers make
\* longer in every pass, of one.
Redacted == INSTANCE RedactText WITH
  Calls <- ({<<"a", "b", "c", "d", "e">>, <<"a", "b", "c", ".", "e">>, <<"B", "B", "c">>, <<>>,
             <<"r", "e", "f">>} \X {"text", "message", "name"})
           \union ({<<"a">>} \X {"none"}),
  References <- {<<"r", "e", "f">>}, Mark <- <<"#", "#">>, Cut <- <<".", "!">>, Bom <- "B",
  Found <- {{}, {<<0, 1>>}, {<<1, 2>>}, {<<0, 2>>}, {<<2, 5>>}, {<<1, 2>>, <<3, 4>>},
            {<<0, 2>>, <<1, 3>>}, {<<1, 2>>, <<2, 3>>}, {<<0, 4>>, <<1, 2>>}},
  Limit <- 3, Passes <- 3, now <- current, kept <- keptAt

---------------------------------------------------------------------------
\* Mappings of up to four names under a limit of three; nested values under
\* names of each class, with lists around their limit and containers around the
\* depth limit.
NameOrder == [_truncated |-> 1, a |-> 2, b |-> 3] @@ ("p1" :> 4) @@ ("p1#2" :> 5)
  @@ ("p1#3" :> 6) @@ ("p2" :> 7) @@ ("p2#2" :> 8) @@ ("p2#3" :> 9) @@ [password |-> 10]
  @@ [policy |-> 11, remaining |-> 12] @@ [s1 |-> 13, s2 |-> 14, refs |-> 15, digest |-> 16]
Mapping(s) == [kind |-> "map", entries |-> s]
Listing(s) == [kind |-> "list", items |-> s]
Flag == [kind |-> "bool"]
Count(n) == [kind |-> "int", n |-> n]
Word(c) == [kind |-> "text", class |-> c]

Names == {"a", "p1", "p1#2", "password", "policy", "s1", "s2", "_truncated"}
Pairs == {<<n, Flag>> : n \in Names} \union {<<n, Word("bare")>> : n \in {"password", "s1"}}
         \union {<<n, Word("leak")>> : n \in {"a", "s2", "p1"}}
Distinct(s) == \A i, j \in DOMAIN s : i # j => s[i][1] # s[j][1]
FlatMappings ==
  {Mapping(s) : s \in {t \in SeqOf(Pairs, 3) : Distinct(t)}}
  \union {Mapping(s) : s \in {t \in [1..4 -> {<<n, Flag>> : n \in Names}] : Distinct(t)}}
Remaining == Mapping(<<<<"_truncated", Flag>>, <<"remaining", Count(7)>>>>)
Listings ==
  {Listing(s) : s \in SeqOf({Word("leak"), Word("ref"), Remaining, Listing(<<Word("long")>>)}, 4)}
Inner ==
  Listings \union
  {Mapping(s) : s \in {t \in SeqOf({<<"a", Word("long")>>, <<"s2", Listing(<<Word("leak")>>)>>,
                                    <<"b", Count(3)>>, <<"_truncated", Flag>>}, 4) : Distinct(t)}}
Nested ==
  {Mapping(<<<<n, v>>>>) : n \in {"a", "s2", "policy", "password"}, v \in Inner}
\* Public metadata: mappings around the limit of references, with a foreign
\* value among them, and hashes, each under its own name and another.
Held == [kind |-> "reference"]
Metadata ==
  {Mapping(<<<<"refs", Mapping(s)>>, <<"a", Flag>>>>) :
     s \in {t \in SeqOf({"a", "b", "password"} \X {Held, Word("bare")}, 3) : Distinct(t)}}
  \union {Mapping(<<<<n, Word(c)>>>>) : n \in {"refs", "digest", "password", "a"},
                                      c \in {"digest", "ref", "leak"}}
\* Texts around both limits, on a path of its own limit, below it and beside it,
\* with and without a secret-bearing name on the way.
Measured == {Word(c) : c \in {"long", "huge"}}
Widened ==
  {Mapping(<<<<n, v>>, <<m, w>>>>) : n \in {"a", "s2"}, m \in {"b", "s1"},
     v \in Measured \union {Listing(<<w>>) : w \in Measured}
          \union {Mapping(<<<<k, w>>>>) : k \in {"b", "s2"}, w \in Measured},
     w \in Measured}
Paths == {<<"a">>, <<"b">>, <<"a", "*">>, <<"a", "b">>, <<"s2">>, <<"s2", "*">>, <<"a", "s2">>,
          <<"s2", "b">>}
Inputs == ((FlatMappings \union Nested \union Metadata) \X {{}})
          \union (Widened \X {{p, q} : p, q \in Paths})

Recorded == INSTANCE RedactValue WITH
  Inputs <- Inputs, NameOrder <- NameOrder,
  Orders <- {NameOrder, [n \in DOMAIN NameOrder |-> 20 - NameOrder[n]]},
  MaxDict <- 3, MaxList <- 2, MaxDepth <- 1, MaxReferences <- 2

---------------------------------------------------------------------------
\* Objects with up to three custom fields and up to six fields of texts, lists
\* and mappings around every limit.
Text(n) == [kind |-> "text", bytes |-> n, secret |-> FALSE, matched |-> FALSE]
SecretText(n) == [Text(n) EXCEPT !.secret = TRUE]
MapOf(s) == [kind |-> "map", items |-> s]
ListOf(s) == [kind |-> "list", items |-> s]
Named(n, v) == [key |-> [name |-> n, digest |-> FALSE], value |-> v]

Texts == {Text(1), Text(4), SecretText(1), SecretText(6)}
FlatValues ==
  {ListOf(<<>>)} \union {ListOf(<<v>>) : v \in Texts}
  \union {ListOf(<<v, w, Text(1)>>) : v, w \in Texts}
  \union {MapOf(<<Named(n, v)>>) : n \in 1..4, v \in Texts}
  \union {MapOf(<<Named(4, v), Named(n, Text(1))>>) : n \in {1, 4}, v \in Texts}
NestedValues ==
  {ListOf(<<v, MapOf(<<Named(3, w)>>)>>) : v, w \in Texts}
  \union {MapOf(<<Named(1, ListOf(<<MapOf(<<Named(2, v)>>)>>))>>) : v \in Texts}
Values == Texts \union FlatValues \union NestedValues
Customs ==
  {<<>>} \union {<<Named(n, v)>> : n \in 1..4, v \in Texts} \union {<<Named(1, v)>> : v \in Values}
  \union {<<Named(2, v), Named(1, w), Named(3, Text(1))>> : v, w \in Texts}
  \union {[i \in 1..6 |-> Named(i + 4, Text(1))]}
Fields ==
  {<<>>} \union {<<Named(n, v)>> : n \in 1..4, v \in Texts}
  \union {<<Named(1, v), Named(4, w)>> : v \in Values, w \in {Text(1), SecretText(6)}}
  \union {[i \in 1..n |-> Named(i, Text(1))] : n \in 3..6}
Targets == [id : {Text(1)}, display : {Text(4)}, named : {<<>>, <<Named(1, Text(1))>>},
            custom : Customs, fields : Fields]

Copied == INSTANCE TargetSnapshot WITH
  Objects <- Targets, Sensitive <- {3}, Secretive <- {4},
  MaxNodes <- 10, MaxBytes <- 30, MaxKeys <- 5, MaxItems <- 2, MaxValue <- 4, MaxDepth <- 2,
  MarkerBytes <- 4, PlaceholderBytes <- 3, DigestBytes <- 4, kept <- snapshot

---------------------------------------------------------------------------
\* Where a stage rests: values that its Init allows.
RestTransport == kind \in {CHOOSE k \in Kinds : TRUE} /\ operation = "start" /\ outer = 0 /\ thread = TRUE
RestBody == encoded = FALSE /\ declared = 0 /\ available = 0 /\ stalls = FALSE
RestJudged ==
  /\ contract = "generic"
  /\ schema = [max |-> 0, pattern |-> "none", required |-> FALSE]
  /\ answer = [ok |-> "true", result |-> [is |-> "empty"], code |-> "", events |-> <<>>,
               extra |-> FALSE, commit |-> TRUE, diagnosed |-> FALSE]
RestRedacted == text = <<>> /\ bound = "text"
RestRecorded == value = Mapping(<<>>) /\ wide = {}
RestCopied == object = [id |-> Text(1), display |-> Text(4), named |-> <<>>,
                        custom |-> <<>>, fields |-> <<>>]

AnswerInit ==
  /\ part \in Stages
  /\ IF part = "value" THEN Recorded!Init ELSE RestRecorded /\ Recorded!Init
  /\ IF part = "transport" THEN Init ELSE RestTransport /\ Init
  /\ IF part = "read" THEN Body!Init ELSE RestBody /\ Body!Init
  /\ IF part = "judge" THEN Judged!Init ELSE RestJudged /\ Judged!Init
  /\ IF part = "text" THEN Redacted!Init ELSE RestRedacted /\ Redacted!Init
  /\ IF part = "snapshot" THEN Copied!Init ELSE RestCopied /\ Copied!Init

reading == <<encoded, declared, available, stalls, readPc, taken, readNow, buffer>>
judged == <<judgePc, contract, schema, answer, verdict, seen, terminal>>
redacted == <<text, bound, stage, round, current, pieces, origin, keptAt, masked>>
recorded == <<value, wide, stored, first, times>>
copied == <<object, phase, raw, snapshot>>

\* A step of the stage followed.
Call ==
  /\ part = "transport" /\ Next
  /\ UNCHANGED <<part, reading, judged, redacted, recorded, copied>>
ReadBody ==
  /\ part = "read" /\ Body!Next
  /\ UNCHANGED <<part, vars, judged, redacted, recorded, copied>>
JudgeResponse ==
  /\ part = "judge" /\ Judged!Next
  /\ UNCHANGED <<part, vars, reading, redacted, recorded, copied>>
RedactTexts ==
  /\ part = "text" /\ Redacted!Next
  /\ UNCHANGED <<part, vars, reading, judged, recorded, copied>>
RecordValue ==
  /\ part = "value" /\ Recorded!Next
  /\ UNCHANGED <<part, vars, reading, judged, redacted, copied>>
CopyTarget ==
  /\ part = "snapshot" /\ Copied!Next
  /\ UNCHANGED <<part, vars, reading, judged, redacted, recorded>>
AnswerNext == Call \/ ReadBody \/ JudgeResponse \/ RedactTexts \/ RecordValue \/ CopyTarget

AnswerVars ==
  <<part, vars, reading, judged, redacted, recorded, copied>>
AnswerSpec == AnswerInit /\ [][AnswerNext]_AnswerVars
\* The worker that reads a body keeps running.
FairAnswerSpec == AnswerSpec /\ WF_AnswerVars(ReadBody)

---------------------------------------------------------------------------
\* A peer that never ends its body cannot hold the worker: every read ends.
EveryReadEnds == part = "read" => Body!EveryReadEnds

\* What reaches the ledger is redacted exactly.  A text loses what a span covers,
\* to the character, through every pass, cut and marker, and keeps its bound; a
\* value loses its secrets, no other value to a placeholder, and has a form that
\* a second recording changes only where a wider limit belonged to a
\* secret-bearing name.
RedactedExactly == Redacted!RedactionIsExact /\ Recorded!StoredFormIsFaithful

\* The copies account for all they hold and all they left out: the budget is
\* what was really spent, no limit is passed, an omission is marked, and nothing
\* secret is kept.
SnapshotIsAccounted == Copied!SnapshotIsAccounted
=============================================================================
