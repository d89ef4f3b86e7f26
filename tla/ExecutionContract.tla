------------------------- MODULE ExecutionContract -------------------------
(***************************************************************************)
(* What an execution promises to its requester, its approvers and the      *)
(* backend (docs/architecture.md, application/command_handlers.py),        *)
(* without events, row copies, jobs, leases or workers: a guarded request  *)
(* waits for a grant; one claim takes it out of the queue and yields one   *)
(* ticket; the ticket sends one request or is lost; what is over stays     *)
(* over.  An execution may be closed while its ticket is still held, so a  *)
(* request can follow the end, but never a second one.                     *)
(***************************************************************************)

VARIABLES guarded,  \* whether the request needs a grant
          phase,    \* "absent", "awaiting", "queued", "running" or "over"
          ticket    \* the right to send: "none", "held" or "used"

vars == <<guarded, phase, ticket>>

Init == /\ guarded \in BOOLEAN
        /\ phase = "absent"
        /\ ticket = "none"

Request == /\ phase = "absent"
           /\ phase' = IF guarded THEN "awaiting" ELSE "queued"
           /\ UNCHANGED <<guarded, ticket>>

Grant == /\ phase = "awaiting"
         /\ phase' = "queued"
         /\ UNCHANGED <<guarded, ticket>>

Claim == /\ phase = "queued" /\ ticket = "none"
         /\ phase' = "running" /\ ticket' = "held"
         /\ UNCHANGED guarded

Send == /\ ticket = "held"
        /\ ticket' = "used"
        /\ UNCHANGED <<guarded, phase>>

\* A held ticket is lost when its run ends or its process dies.
Lost == ticket = "held" /\ ticket' = "none"

Drop == Lost /\ UNCHANGED <<guarded, phase>>

Close == /\ phase \in {"awaiting", "queued", "running"}
         /\ phase' = "over"
         /\ Lost \/ UNCHANGED ticket
         /\ UNCHANGED guarded

Next == Request \/ Grant \/ Claim \/ Send \/ Drop \/ Close

Spec == Init /\ [][Next]_vars
=============================================================================
