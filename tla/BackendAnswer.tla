---------------------------- MODULE BackendAnswer ----------------------------
(***************************************************************************)
(* One backend call from the socket to the ledger: the transport, the      *)
(* bounded read of the body and the judgement of the answer.  They run one *)
(* after the other in the worker, hand over values only, and share no      *)
(* variable; each keeps its own program counter here.                      *)
(***************************************************************************)
EXTENDS BackendTransport

CONSTANTS MaxBytes, MaxSent, ReadBudget,
          Contracts, Schemas, Contents, EventLists, EventLimit, Marker, MaxEvents

VARIABLES encoded, declared, available, stalls, readPc, taken, readNow, buffer,
          judgePc, contract, schema, answer, verdict, seen, terminal

\* jobs._read_bounded_json_response.
Body == INSTANCE BoundedRead WITH
  Budget <- ReadBudget, pc <- readPc, now <- readNow, kept <- buffer

\* event_store.record_backend_response.
Judged == INSTANCE BackendResponse WITH
  Kinds <- Contracts, pc <- judgePc, kind <- contract, response <- answer

---------------------------------------------------------------------------
\* A body is accepted whole or not at all, and its buffer is wiped either way.
WholeOrNothing == Body!WholeOrNothing

\* What is recorded of an answer is what its judgement allows, for every
\* contract, schema and defect: status, result, cause and events.
RecordedAsJudged == Judged!RecordedAsJudged

=============================================================================
