------------------------- MODULE AppendOnlyLedger -------------------------
(***************************************************************************)
(* What the event stream of one execution promises to its readers          *)
(* (src/netbox_rpc/event_store.py, projection.py): one gap-free log to     *)
(* which every writer's transaction adds all of its events in one piece,   *)
(* at the end, or none of them.  rebuild_projection folds this log, and a  *)
(* dispatch lease names its length as the stream version.                  *)
(***************************************************************************)
EXTENDS Naturals, Sequences

CONSTANTS Writers,   \* transactions that append to the stream
          Size       \* Size[w]: the number of events transaction w appends

VARIABLES log,       \* log[i]: the writer of the event with sequence i
          verdict    \* verdict[w]: "open", "kept" or "refused"

Init == /\ log = << >>
        /\ verdict = [w \in Writers |-> "open"]

Keep(w) ==
    /\ verdict[w] = "open"
    /\ log' = log \o [i \in 1..Size[w] |-> w]
    /\ verdict' = [verdict EXCEPT ![w] = "kept"]

Refuse(w) ==
    /\ verdict[w] = "open"
    /\ verdict' = [verdict EXCEPT ![w] = "refused"]
    /\ UNCHANGED log

Next == \E w \in Writers : Keep(w) \/ Refuse(w)

Spec == Init /\ [][Next]_<<log, verdict>>
=============================================================================
