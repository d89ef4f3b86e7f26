------------------------------ MODULE BoundedRead ------------------------------
(***************************************************************************)
(* jobs._read_bounded_json_response: one byte at a time, under a byte      *)
(* limit, a declared length and the deadline of the exchange.  The peer    *)
(* sends `available` bytes and then ends the body, or stalls.              *)
(***************************************************************************)
EXTENDS Naturals

CONSTANTS
    MaxBytes,   \* BACKEND_RESPONSE_MAX_BYTES
    MaxSent,    \* bound on what a peer sends
    Budget      \* ticks left of the deadline when the read starts

VARIABLES encoded, declared, available, stalls, pc, taken, now, kept

vars == <<encoded, declared, available, stalls, pc, taken, now, kept>>
wire == <<encoded, declared, available, stalls>>

\* No Content-Length, and one that is not a decimal number.
None == MaxSent + 1
Invalid == MaxSent + 2

Init ==
    /\ encoded \in BOOLEAN
    /\ declared \in {None, Invalid} \cup 0..MaxSent
    /\ available \in 0..MaxSent
    /\ stalls \in BOOLEAN
    /\ pc = "headers"
    /\ taken = 0
    /\ now = 0
    /\ kept = 0

\* The end of the read; the finally block overwrites the buffer.
End(verdict) == pc' = verdict /\ kept' = 0

\* Content-Encoding and Content-Length.
Headers ==
    /\ pc = "headers"
    /\ IF encoded \/ declared = Invalid \/ (declared # None /\ declared > MaxBytes)
       THEN End("refused")
       ELSE pc' = "body" /\ UNCHANGED kept
    /\ UNCHANGED <<wire, taken, now>>

\* Variant of Wanted: stops at the limit without looking for another byte.
WantedBlindly == IF declared = None THEN taken < MaxBytes ELSE taken < declared

\* The loop condition, the byte looked for past the limit included.
Wanted == declared = None \/ taken < declared

\* _set_protected_response_socket_deadline and one chunk: a byte, or the deadline.
Take ==
    /\ pc = "body" /\ Wanted
    /\ now < Budget
    /\ available > 0
    /\ IF taken + 1 > MaxBytes THEN End("refused") /\ UNCHANGED taken
       ELSE taken' = taken + 1 /\ kept' = kept + 1 /\ UNCHANGED pc
    /\ available' = available - 1
    /\ UNCHANGED <<encoded, declared, stalls, now>>

\* The socket timeout of a read equals what remains of the deadline.
Wait ==
    /\ pc = "body" /\ Wanted
    /\ now < Budget
    /\ now' = now + 1
    /\ UNCHANGED <<wire, pc, taken, kept>>

\* Variant of Expire: a read without the remaining deadline waits for ever.
ExpireNever ==
    /\ FALSE
    /\ UNCHANGED vars

\* The deadline has passed before or during a read.
Expire ==
    /\ pc = "body" /\ Wanted
    /\ now >= Budget
    /\ End("refused")
    /\ UNCHANGED <<wire, taken, now>>

\* StopIteration or the declared length: the length must match and the body must
\* not be empty; the finally block overwrites the buffer.
Complete ==
    /\ pc = "body"
    /\ ~Wanted \/ (available = 0 /\ ~stalls)
    /\ End(IF taken > 0 /\ (declared = None \/ declared = taken) THEN "accepted" ELSE "refused")
    /\ UNCHANGED <<wire, taken, now>>

Next == Headers \/ Take \/ Wait \/ Expire \/ Complete

Spec == Init /\ [][Next]_vars
FairSpec == Spec /\ WF_vars(Next)

-----------------------------------------------------------------------------
\* The type of the state.
TypeOK ==
    /\ declared \in {None, Invalid} \cup 0..MaxSent
    /\ available \in 0..MaxSent
    /\ taken \in 0..MaxBytes
    /\ kept \in 0..MaxBytes
    /\ now \in 0..Budget

\* An accepted body is the whole body: without a declared length the peer ended
\* it within the limit, with one it has exactly that many bytes.
NeverTruncated ==
    pc = "accepted" =>
        /\ taken > 0
        /\ IF declared = None THEN available = 0 /\ ~stalls ELSE taken = declared

\* No byte of the body outlives the read, whichever way it ends.
NothingKept == pc \in {"accepted", "refused"} => kept = 0

\* A peer that never ends its body cannot hold the worker: every read ends.
EveryReadEnds == <>(pc \in {"accepted", "refused"})

\* A body is accepted whole or not at all, and its buffer is wiped either way.
WholeOrNothing == TypeOK /\ NeverTruncated /\ NothingKept

=============================================================================
