-------------------------- MODULE MC_LedgerAppend --------------------------
(* Instance of LedgerAppend for TLC: one transaction that locks the row and *)
(* appends two events (approve and queue), and unlocked ones of one or two. *)
EXTENDS LedgerAppend

CONSTANTS a, b, c, d

MCLocked == {a}
MCUnlocked == {b, c, d}
MCSize == [w \in {a, b, c, d} |-> IF w \in {a, b} THEN 2 ELSE 1]
=============================================================================
