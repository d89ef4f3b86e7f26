----------------------------- MODULE AdoptedPair -----------------------------
(***************************************************************************)
(* PublicationPair under names of its own, for the modules that follow it  *)
(* beside the rest of the catalogue.                                       *)
(***************************************************************************)
EXTENDS Naturals

CONSTANTS Legacies, MaxPairEdits, PairRollbacks

VARIABLES pairDone, pairRows, pairFound, pairEdits, pairWill

Pair == INSTANCE PublicationPair WITH
  MaxEdits <- MaxPairEdits, Rollbacks <- PairRollbacks,
  done <- pairDone, pair <- pairRows, legacy <- pairFound, edits <- pairEdits, will <- pairWill

---------------------------------------------------------------------------
\* A migration never writes a row the operator edited, and never deletes one
\* (reversing 0104 disables whatever it finds); no step towards the head enables
\* a row.
AdoptsOnlyExact == Pair!AdoptsOnlyExact

=============================================================================
