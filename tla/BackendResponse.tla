--------------------------- MODULE BackendResponse ---------------------------
(***************************************************************************)
(* event_store.record_backend_response: how the answer of the backend      *)
(* becomes the last events of an execution.  The answer is judged first:   *)
(* the envelope against the contract of the procedure, then the raw result *)
(* against a copy of its schema without the wide maxLength limits, then    *)
(* the result as the ledger will store it (redacted and truncated) against *)
(* the schema itself.  Then progress events and one terminal event are     *)
(* appended in one transaction.                                            *)
(*                                                                         *)
(* A result object is one string field and its own ok; a schema is the     *)
(* maxLength and the pattern of that field.  A "closed" pattern rejects    *)
(* the truncation and redaction markers; raw text fits it or does not.     *)
(***************************************************************************)
EXTENDS Naturals, Sequences

CONSTANTS Kinds,       \* contracts to check
          Schemas,     \* result schemas of the procedure
          Contents,    \* string fields of a result object
          EventLists,  \* values of response["events"]
          EventLimit,  \* MAX_EVENT_STRING_LENGTH
          Marker,      \* length of the truncation marker
          MaxEvents    \* MAX_BACKEND_EVENTS

VARIABLES pc, kind, schema, response, verdict,
          seen,        \* entries of response["events"] recorded as progress events
          terminal
vars == <<pc, kind, schema, response, verdict, seen, terminal>>
input == <<kind, schema, response>>

\* No schema, and none of the values a result may have beside an object.
NoSchema == [max |-> 0, pattern |-> "none", required |-> FALSE]
Plain == {"absent", "null", "scalar", "empty"}
Oks == {"true", "false", "truthy", "null"}
None == [is |-> "none"]

---------------------------------------------------------------------------
\* _response_contract.
Dedicated   == {"gitea", "staging", "dns"}
IsProtected == Dedicated \union {"protected"}
Enveloped   == IsProtected \union {"installer"}

Results == [is : Plain] \union [is : {"object"}, ok : {"true", "false", "null"}, field : Contents]
IsDict(r) == r.is \in {"empty", "object"}
NestedOk(r) == IF r.is = "object" THEN r.ok ELSE "null"

\* _collect_schema_string_limits, _result_schema_string_limits: a field whose
\* maxLength was widened is cut so that the marker still fits.
Wide == schema.max > EventLimit
FieldLimit == IF Wide THEN schema.max - Marker ELSE EventLimit

\* _ledger_result: secret content becomes a marker, a long text is cut.
Stored(f) ==
  CASE f.secret -> [f EXCEPT !.len = Marker, !.fits = schema.pattern # "closed", !.secret = FALSE]
    [] ~f.secret /\ f.len > FieldLimit ->
         [f EXCEPT !.len = FieldLimit + Marker, !.fits = schema.pattern # "closed"]
    [] OTHER -> f

\* _backend_result_schema_mismatch; relaxed drops maxLength where Wide.
Fits(r, relaxed) ==
  \/ schema = NoSchema
  \/ r.is = "empty" /\ ~schema.required
  \/ /\ r.is = "object"
     /\ schema.pattern = "closed" => r.field.fits
     /\ r.field.len <= schema.max \/ (relaxed /\ Wide)

LedgerResult == IF response.result.is = "object"
                THEN [response.result EXCEPT !.field = Stored(@)]
                ELSE [is |-> "empty"]

---------------------------------------------------------------------------
\* _envelope_ok_state_mismatch: both ok are booleans and agree.
OkStateMismatch ==
  \/ response.ok \notin {"true", "false"}
  \/ ~IsDict(response.result)
  \/ NestedOk(response.result) # response.ok

\* _protected_backend_response_mismatch: and no events at all.
ProtectedMismatch == OkStateMismatch \/ response.events # <<>>

\* _envelope_response_mismatch.
EnvelopeMismatch ==
  CASE kind = "gitea"     -> response.extra \/ ProtectedMismatch
    [] kind = "staging"   -> ProtectedMismatch
    [] kind = "dns"       -> ProtectedMismatch \/ ~response.commit
    [] kind \in {"protected", "installer"} -> OkStateMismatch
    [] kind = "generic"   -> FALSE

\* _skips_result_validation: a failure without content whose code is the cause.
Skips == /\ kind \notin Dedicated
         /\ response.ok = "false"
         /\ response.result.is \in {"absent", "empty"}
         /\ response.code = "CATALOG"

Ok == response.ok \in {"true", "truthy"}

ShouldValidate == Ok \/ response.result.is # "absent" \/ kind \in Enveloped
\* Variant of SchemaMismatch: the stored form is not looked at.
SchemaMismatchRawOnly ==
  EnvelopeMismatch \/ (ShouldValidate /\ ~Fits(response.result, TRUE))
\* _response_schema_mismatch.
SchemaMismatch ==
  \/ EnvelopeMismatch
  \/ ShouldValidate /\ (~Fits(response.result, TRUE) \/ ~Fits(LedgerResult, FALSE))

\* _backend_failure_fields: Gitea's come from its own catalogue.
FailureCode == IF kind = "gitea" /\ IsDict(response.result)
               THEN IF response.diagnosed THEN "CATALOG" ELSE ""
               ELSE response.code
FailureText == IF kind = "gitea" /\ IsDict(response.result) THEN "catalogue" ELSE "backend"

---------------------------------------------------------------------------
Responses ==
  [ok : Oks, result : Results, code : {"CATALOG", "odd", ""}, events : EventLists,
   extra : BOOLEAN, commit : BOOLEAN, diagnosed : BOOLEAN]
\* Facts only one contract looks at are fixed for the others.
Relevant(k, r) == /\ k # "gitea" => ~r.extra /\ ~r.diagnosed
                  /\ k # "dns" => r.commit

Init ==
  /\ pc = "arrived"
  /\ kind \in Kinds
  /\ schema \in Schemas
  /\ response \in {r \in Responses : Relevant(kind, r)}
  /\ verdict = "none"
  /\ seen = {}
  /\ terminal = None

Judge ==
  /\ pc = "arrived"
  /\ verdict' = IF Skips THEN "cause" ELSE IF SchemaMismatch THEN "mismatch" ELSE "valid"
  /\ pc' = IF kind \in IsProtected \/ Skips THEN "terminal" ELSE "progress"
  /\ UNCHANGED <<input, seen, terminal>>

\* The first MAX_BACKEND_EVENTS entries of a list.
Window == {i \in DOMAIN response.events : i <= MaxEvents}
\* _record_backend_progress_events: entries that are not objects are skipped.
Progress ==
  /\ pc = "progress"
  /\ seen' = {i \in Window : response.events[i] = "event"}
  /\ pc' = "terminal"
  /\ UNCHANGED <<input, verdict, terminal>>

\* _persistable_failure_event.
Persistable(code) == IF code \in {"CATALOG", "RPC_RESULT_SCHEMA_MISMATCH"} THEN code
                     ELSE "RPC_EXECUTION_FAILED"

Succeeded(result) == [is |-> "succeeded", code |-> "", text |-> "none", result |-> result]
Failed ==
  [is |-> "failed",
   code |-> IF verdict = "mismatch" THEN "RPC_RESULT_SCHEMA_MISMATCH" ELSE Persistable(FailureCode),
   text |-> CASE verdict = "mismatch" -> "value_free"
              [] verdict = "cause" -> "code"
              [] OTHER -> FailureText,
   result |-> IF IsDict(response.result) /\ verdict # "mismatch" THEN LedgerResult
              ELSE [is |-> "empty"]]

\* _record_backend_terminal_event, and the commit.
Terminal ==
  /\ pc = "terminal"
  /\ terminal' = IF Ok /\ verdict # "mismatch" THEN Succeeded(LedgerResult) ELSE Failed
  /\ pc' = "done"
  /\ UNCHANGED <<input, verdict, seen>>

Next == Judge \/ Progress \/ Terminal
Spec == Init /\ [][Next]_vars

---------------------------------------------------------------------------
TypeOK ==
  /\ pc \in {"arrived", "progress", "terminal", "done"}
  /\ verdict \in {"none", "cause", "mismatch", "valid"}
  /\ seen \subseteq 1..MaxEvents
  /\ terminal.is \in {"none", "succeeded", "failed"}
  /\ (pc = "done") = (terminal # None)

\* A success is recorded only for an answer that claims one, and where the
\* contract compares the envelopes both of them say so with a boolean.
SuccessIsEarned ==
  terminal.is = "succeeded" =>
    /\ Ok
    /\ kind \in Enveloped => response.ok = "true" /\ NestedOk(response.result) = "true"

\* Whatever result an execution keeps satisfies the schema as declared, after
\* redaction and truncation, for a success and for a failure.
StoredResultFits ==
  terminal # None /\ terminal.result.is = "object" => Fits(terminal.result, FALSE)

\* A field that is too long by itself never fails a procedure that widened it:
\* only an envelope, another rule of the schema or the markers can.
WideFieldsAreCut ==
  terminal # None /\ kind = "generic" /\ response.result.is = "object" /\ Wide
    /\ schema.pattern = "any"
    => terminal.code # "RPC_RESULT_SCHEMA_MISMATCH"

\* A failure without content keeps the backend's code and nothing else; no
\* other answer that lacks a valid result does (an explicit null included).
CauseKept ==
  /\ terminal # None /\ Skips =>
       /\ terminal.code = "CATALOG" /\ terminal.text = "code"
       /\ terminal.result = [is |-> "empty"] /\ seen = {}
  /\ terminal # None /\ schema # NoSchema /\ response.result.is \in {"null", "scalar"} =>
       terminal.code = "RPC_RESULT_SCHEMA_MISMATCH"

\* A mismatch leaves no result and no text of the backend behind.
MismatchIsValueFree ==
  terminal # None /\ terminal.code = "RPC_RESULT_SCHEMA_MISMATCH" =>
    terminal.result = [is |-> "empty"] /\ terminal.text = "value_free"

\* Protected procedures write no progress events, and no failure has a code
\* that the error_code column cannot hold.
ClosedLedger ==
  terminal # None =>
    /\ kind \in IsProtected => seen = {}
    /\ terminal.is = "failed" =>
         terminal.code \in {"CATALOG", "RPC_RESULT_SCHEMA_MISMATCH", "RPC_EXECUTION_FAILED"}

\* What is recorded of an answer is what its judgement allows, for every
\* contract, schema and defect: status, result, cause and events.
RecordedAsJudged ==
  /\ TypeOK /\ SuccessIsEarned /\ StoredResultFits /\ WideFieldsAreCut
  /\ CauseKept /\ MismatchIsValueFree /\ ClosedLedger

=============================================================================
