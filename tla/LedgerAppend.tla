--------------------------- MODULE LedgerAppend ---------------------------
(***************************************************************************)
(* The statements by which concurrent transactions append events to one    *)
(* execution's stream: append_execution_event reads the latest sequence    *)
(* and inserts the next one in a savepoint, retrying on a unique-index     *)
(* violation, and _append_and_project then writes the execution row.       *)
(*                                                                         *)
(* Some writers hold the execution row from the start (select_for_update:  *)
(* claim, approve, reject, cancel, queue expiry), the others take it only  *)
(* when they project or commit (JobEnqueued, ParametersNormalized,         *)
(* DispatchLeaseIssued, the backend response, mark_execution_failed).      *)
(*                                                                         *)
(* The database is modelled from how the code uses it: READ COMMITTED      *)
(* reads, a unique index on (execution, sequence) whose check waits for an *)
(* uncommitted duplicate, exclusive row locks held to the end of the       *)
(* transaction, and a detector that aborts one member of a wait cycle.     *)
(***************************************************************************)
EXTENDS Integers, Sequences, FiniteSets, FiniteSetsExt

CONSTANTS Locked,      \* transactions that lock the row before they append
          Unlocked,    \* transactions that append outside the row lock
          Size,        \* Size[w]: events appended by transaction w
          Attempts,    \* inserts tried before the append gives up
          NoWriter

Writers == Locked \cup Unlocked

ASSUME WritersAssumption == /\ Locked \cap Unlocked = {}
                            /\ NoWriter \notin Writers
                            /\ IsFiniteSet(Writers)
ASSUME SizeAssumption == Size \in [Writers -> Nat \ {0}]
ASSUME AttemptsAssumption == Attempts \in Nat \ {0}

VARIABLES
    ledger,    \* committed events: sequence -> writer
    pend,      \* pend[w]: sequences inserted by w and not yet committed
    rowLock,   \* the transaction holding the execution row
    pc,        \* pc[w]: the statement w is about to run
    seq,       \* seq[w]: the sequence w is about to insert
    tries,     \* tries[w]: inserts of the current event that were refused
    dirty      \* dirty[w]: the projection of the inserted event changes columns

vars == <<ledger, pend, rowLock, pc, seq, tries, dirty>>

Ended == {"done", "exhausted", "victim", "crashed"}
Statements == {"begin", "read", "insert", "project", "commit"}

TypeOK ==
    /\ DOMAIN ledger \subseteq Nat \ {0} /\ IsFiniteSet(DOMAIN ledger)
    /\ ledger \in [DOMAIN ledger -> Writers]
    /\ pend \in [Writers -> SUBSET (Nat \ {0})]
    /\ \A w \in Writers : IsFiniteSet(pend[w])
    /\ rowLock \in Writers \cup {NoWriter}
    /\ pc \in [Writers -> Statements \cup Ended]
    /\ seq \in [Writers -> Nat]
    /\ tries \in [Writers -> 0..Attempts]
    /\ dirty \in [Writers -> BOOLEAN]

Init ==
    /\ ledger = << >>
    /\ pend = [w \in Writers |-> {}]
    /\ rowLock = NoWriter
    /\ pc = [w \in Writers |-> "begin"]
    /\ seq = [w \in Writers |-> 0]
    /\ tries = [w \in Writers |-> 0]
    /\ dirty = [w \in Writers |-> FALSE]

Goto(w, label) == pc' = [pc EXCEPT ![w] = label]

(* The row is free for w: nobody else holds it. *)
RowFree(w) == rowLock \in {NoWriter, w}

(* Sequences a transaction sees: the committed ones and its own. *)
Visible(w) == DOMAIN ledger \cup pend[w]

NextEventSequence(w) == Max(Visible(w) \cup {0}) + 1

(* What a rollback leaves of transaction w. *)
Rollback(w, label) ==
    /\ Goto(w, label)
    /\ pend' = [pend EXCEPT ![w] = {}]
    /\ rowLock' = IF rowLock = w THEN NoWriter ELSE rowLock
    /\ UNCHANGED <<ledger, seq, tries, dirty>>

\* Variant of Begin: the row is not locked first.
BeginUnlocked(w) ==
    /\ pc[w] = "begin"
    /\ Goto(w, "read")
    /\ UNCHANGED <<ledger, pend, rowLock, seq, tries, dirty>>

\* Variant of Begin: single-event writers lock as well.
BeginLocksMore(w) ==
    /\ pc[w] = "begin"
    /\ w \in Locked \/ Size[w] = 1 => RowFree(w)
    /\ rowLock' = IF w \in Locked \/ Size[w] = 1 THEN w ELSE rowLock
    /\ Goto(w, "read")
    /\ UNCHANGED <<ledger, pend, seq, tries, dirty>>

(* select_for_update of _transition_locked, _decide_from_pending and the    *)
(* expiry job; other writers open their transaction and go on.              *)
Begin(w) ==
    /\ pc[w] = "begin"
    /\ w \in Locked => RowFree(w)
    /\ rowLock' = IF w \in Locked THEN w ELSE rowLock
    /\ Goto(w, "read")
    /\ UNCHANGED <<ledger, pend, seq, tries, dirty>>

Read(w) ==
    /\ pc[w] = "read"
    /\ seq' = [seq EXCEPT ![w] = NextEventSequence(w)]
    /\ Goto(w, "insert")
    /\ UNCHANGED <<ledger, pend, rowLock, tries, dirty>>

(* The unique index lets the INSERT through; the event either changes       *)
(* columns of the row or projects onto what the row already holds.          *)
Insert(w) ==
    /\ pc[w] = "insert"
    /\ \A v \in Writers : seq[w] \notin Visible(v)
    /\ pend' = [pend EXCEPT ![w] = @ \cup {seq[w]}]
    /\ tries' = [tries EXCEPT ![w] = 0]
    /\ \E changed \in BOOLEAN : dirty' = [dirty EXCEPT ![w] = changed]
    /\ Goto(w, "project")
    /\ UNCHANGED <<ledger, rowLock, seq>>

\* Variant of Collide: retries the insert with the sequence it has.
CollideStale(w) ==
    /\ pc[w] = "insert"
    /\ seq[w] \in DOMAIN ledger
    /\ UNCHANGED vars

(* IntegrityError: the savepoint is rolled back, the sequence is read       *)
(* again, and after the last attempt RPCEventStoreError leaves the          *)
(* transaction.                                                             *)
Collide(w) ==
    /\ pc[w] = "insert"
    /\ seq[w] \in DOMAIN ledger
    /\ tries' = [tries EXCEPT ![w] = @ + 1]
    /\ IF tries'[w] < Attempts
       THEN /\ Goto(w, "read")
            /\ UNCHANGED <<pend, rowLock>>
       ELSE /\ Goto(w, "exhausted")
            /\ pend' = [pend EXCEPT ![w] = {}]
            /\ rowLock' = IF rowLock = w THEN NoWriter ELSE rowLock
    /\ UNCHANGED <<ledger, seq, dirty>>

\* Variant of Project: commits after each event.
ProjectCommits(w) ==
    /\ pc[w] = "project"
    /\ dirty[w] => RowFree(w)
    /\ rowLock' = IF dirty[w] THEN w ELSE rowLock
    /\ Goto(w, "commit")
    /\ UNCHANGED <<ledger, pend, seq, tries, dirty>>

(* _write_projection: an UPDATE only when some column differs.              *)
Project(w) ==
    /\ pc[w] = "project"
    /\ dirty[w] => RowFree(w)
    /\ rowLock' = IF dirty[w] THEN w ELSE rowLock
    /\ Goto(w, IF Cardinality(pend[w]) < Size[w] THEN "read" ELSE "commit")
    /\ UNCHANGED <<ledger, pend, seq, tries, dirty>>

(* COMMIT: the deferred foreign-key check of the inserted rows needs a      *)
(* share of the execution row, which a locked writer withholds.             *)
Commit(w) ==
    /\ pc[w] = "commit"
    /\ RowFree(w)
    /\ ledger' = [s \in Visible(w) |-> IF s \in pend[w] THEN w ELSE ledger[s]]
    /\ pend' = [pend EXCEPT ![w] = {}]
    /\ rowLock' = NoWriter
    /\ Goto(w, "done")
    /\ UNCHANGED <<seq, tries, dirty>>

(* Which transaction w's current statement is waiting for. *)
WaitsForRow(w, v) ==
    /\ rowLock = v
    /\ v # w
    /\ \/ pc[w] = "begin" /\ w \in Locked
       \/ pc[w] = "project" /\ dirty[w]
       \/ pc[w] = "commit"

WaitsForIndex(w, v) ==
    /\ v # w
    /\ pc[w] = "insert"
    /\ seq[w] \in pend[v]

WaitsFor(w, v) == WaitsForRow(w, v) \/ WaitsForIndex(w, v)

(* The deadlock detector aborts one transaction of a cycle.  OperationalError *)
(* is not an IntegrityError, so the append does not retry.                    *)
Victim(w) ==
    /\ \E v \in Writers : WaitsFor(w, v) /\ WaitsFor(v, w)
    /\ Rollback(w, "victim")

(* The process or its connection dies in the middle of the transaction. *)
Crash(w) ==
    /\ pc[w] \in Statements
    /\ Rollback(w, "crashed")

Step(w) == \/ Begin(w) \/ Read(w) \/ Insert(w) \/ Collide(w)
           \/ Project(w) \/ Commit(w) \/ Victim(w)

Next == \E w \in Writers : Step(w) \/ Crash(w)

Spec == Init /\ [][Next]_vars

(* The database runs the statement of every open transaction that it does   *)
(* not block, and breaks every wait cycle.                                  *)
FairSpec == Spec /\ \A w \in Writers : WF_vars(Step(w))

-----------------------------------------------------------------------------
(* Properties *)

(* At most one transaction holds uncommitted events: whoever inserts next   *)
(* meets its first sequence in the index and waits (append_execution_event  *)
(* needs no lock of its own for this).                                      *)
OneInFlight ==
    \A v, w \in Writers : pend[v] # {} /\ pend[w] # {} => v = w

(* The committed sequences are 1..n without gap or duplicate, which         *)
(* rebuild_projection and the stream version of a lease rely on.            *)
Dense == DOMAIN ledger = 1..Cardinality(DOMAIN ledger)

(* Two transactions can only deadlock when one of them took the row before  *)
(* it appended and the other one appends outside the lock; writers that     *)
(* all lock, or all do not, never abort each other.                         *)
DeadlockIsMixed ==
    \A v, w \in Writers :
        WaitsFor(v, w) /\ WaitsFor(w, v) => (v \in Locked) # (w \in Locked)

(* The other transactions that committed to the stream. *)
Winners(w) == {v \in Writers \ {w} : pc[v] = "done"}

(* An append gives up only after as many other transactions committed to    *)
(* the same stream as it had attempts: losing fewer races loses no event.   *)
ExhaustedOnlyByRaces ==
    \A w \in Writers : pc[w] = "exhausted" => Cardinality(Winners(w)) >= Attempts

(* A transaction that the database or the append itself gives up on lost a  *)
(* race that the code exposes it to.                                        *)
AbortsForAReason == DeadlockIsMixed /\ ExhaustedOnlyByRaces

(* Every transaction ends: no statement waits for ever.                     *)
EveryAppendEnds == \A w \in Writers : <>(pc[w] \in Ended)

(* The number of committed events: the stream version a lease records. *)
Length == Cardinality(DOMAIN ledger)

Held(w) == Cardinality(pend[w])

(* The inductive invariant behind the properties above: uncommitted events  *)
(* sit directly behind the committed ones, in one transaction; a sequence   *)
(* that was read is never beyond the next free one; the row belongs to a    *)
(* locked writer from its first statement on and to an unlocked one only    *)
(* once it has inserted; only a committed transaction is in the ledger.     *)
LedgerInvariant ==
    /\ TypeOK
    /\ Dense
    /\ OneInFlight
    /\ \A w \in Writers :
        /\ pend[w] = (Length + 1)..(Length + Held(w))
        /\ pc[w] \in {"project", "commit"} => pend[w] # {}
        /\ pc[w] \in Ended \cup {"begin"} => pend[w] = {} /\ rowLock # w
        /\ pc[w] \in {"read", "insert"} => Held(w) < Size[w]
        /\ pc[w] = "project" => Held(w) <= Size[w]
        /\ pc[w] = "commit" => Held(w) = Size[w]
        /\ pc[w] = "insert" =>
              /\ seq[w] \in 1..(Length + Held(w) + 1)
              /\ pend[w] # {} => seq[w] = Length + Held(w) + 1
        /\ pc[w] \in Statements => tries[w] < Attempts
        /\ w \in Locked /\ pc[w] \in Statements \ {"begin"} => rowLock = w
        /\ w \in Unlocked /\ rowLock = w => pend[w] # {}
        /\ pc[w] # "done" => \A s \in DOMAIN ledger : ledger[s] # w

(* The sequence that w is about to insert is already taken for good. *)
Stale(w) == pc[w] = "insert" /\ seq[w] \in DOMAIN ledger

(* Every refused insert, and the one about to be refused, is owed to another *)
(* committed transaction; who gives up has used all attempts.                *)
RacesCounted ==
    \A w \in Writers :
        /\ tries[w] + (IF Stale(w) THEN 1 ELSE 0) <= Cardinality(Winners(w))
        /\ pc[w] = "exhausted" => tries[w] = Attempts

(* How a reader sees a transaction: still open, kept, or refused. *)
Verdict ==
    [w \in Writers |-> IF pc[w] = "done" THEN "kept"
                       ELSE IF pc[w] \in Ended THEN "refused" ELSE "open"]

(* The stream that readers see behaves as the abstract append-only ledger.  *)
Abstract == INSTANCE AppendOnlyLedger WITH log <- ledger, verdict <- Verdict

ImplementsLedger == Abstract!Spec
=============================================================================
