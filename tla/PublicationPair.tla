--------------------------- MODULE PublicationPair ---------------------------
(***************************************************************************)
(* The protected publication pair (protected_pair.prove and .provision):   *)
(* the six migrations, chained by run_before, that bring whatever an       *)
(* earlier history of the repository left in the database to the pair that *)
(* 0104 ships.  Each one validates both rows completely before it writes   *)
(* either; a row is compared with the shipped contract, its enabled        *)
(* column, and the provenance marker kept in its single command.           *)
(***************************************************************************)
EXTENDS Naturals, Sequences

CONSTANTS Legacies,  \* the pairs an installation may hold before the chain
          MaxEdits,  \* bound on the operator's changes
          Rollbacks  \* whether migrations are reversed

VARIABLES done,    \* how many migrations of the chain are applied
          pair,    \* the two rows
          legacy,  \* the pair found by the first migration
          edits,   \* changes made by the operator so far
          will     \* what the operator last chose for the enabled column of each row

vars == <<done, pair, legacy, edits, will>>

Rows    == {"prove", "provision"}
Markers == {"unmarked", "predecessor", "current"}
\* is: "absent"; "exact": the columns and the command are the shipped ones;
\* "edited": some differ.
Row(is, on, marker) == [is |-> is, on |-> on, marker |-> marker]
Nothing == Row("absent", FALSE, "unmarked")
Both(row) == [n \in Rows |-> row]

---------------------------------------------------------------------------
Missing(p) == \A n \in Rows : p[n].is = "absent"
\* Variant of Exact: the columns of the contract are not compared.
ExactLoosely(p, on, marker) ==
  \A n \in Rows : p[n].is # "absent" /\ p[n].on = on /\ p[n].marker = marker
\* The complete pair matches the contract, with this enabled value and marker.
Exact(p, on, marker) == \A n \in Rows : p[n] = Row("exact", on, marker)

\* Both rows are rewritten, or there is nothing to rewrite.
Rewritten(p, on, marker) ==
  [n \in Rows |-> IF p[n].is = "absent" THEN p[n] ELSE Row("exact", on, marker)]

\* A migration: when its forward function accepts a pair and what it makes of
\* it; the same for its reverse function.
Migration(fits, up, unfits, down) == [fits |-> fits, up |-> up, unfits |-> unfits, down |-> down]

adopt_enabled(p) ==
  Migration(Missing(p) \/ Exact(p, TRUE, "unmarked"), Rewritten(p, FALSE, "unmarked"),
            Missing(p) \/ Exact(p, FALSE, "unmarked"), Rewritten(p, TRUE, "unmarked"))
\* Raises on any drift, a partial pair or two different markers; never writes.
report_drift(p) ==
  Migration(Missing(p) \/ \E m \in Markers : Exact(p, FALSE, m), p, TRUE, p)
\* Reversed, the unmarked form stays: its source cannot be told.
normalize(p) ==
  LET uniform == Missing(p) \/ \E m \in Markers : Exact(p, FALSE, m)
  IN  Migration(uniform, Rewritten(p, FALSE, "unmarked"), uniform, p)
adopt_unmarked(p) ==
  Migration(Missing(p) \/ Exact(p, FALSE, "unmarked"), Rewritten(p, FALSE, "predecessor"),
            Missing(p) \/ Exact(p, FALSE, "predecessor"), Rewritten(p, FALSE, "unmarked"))
adopt_predecessor(p) ==
  Migration(Missing(p) \/ Exact(p, FALSE, "predecessor"), Rewritten(p, FALSE, "current"),
            Missing(p) \/ Exact(p, FALSE, "current"), Rewritten(p, FALSE, "predecessor"))
\* 0104 creates the rows that are missing and accepts exact ones.
seed_pair(p) ==
  Migration(\A n \in Rows : p[n] \in {Nothing, Row("exact", FALSE, "current")},
            [n \in Rows |-> Row("exact", FALSE, "current")],
            TRUE, [n \in Rows |-> [p[n] EXCEPT !.on = FALSE]])

\* The order that dependencies and run_before impose.
Chain(p) == <<adopt_enabled(p), report_drift(p), normalize(p), adopt_unmarked(p),
              adopt_predecessor(p), seed_pair(p)>>
Top == 6

Init ==
  /\ done = 0
  /\ legacy \in Legacies
  /\ pair = legacy
  /\ edits = 0
  /\ will = [n \in Rows |-> "none"]

Apply ==
  /\ done < Top
  /\ LET m == Chain(pair)[done + 1] IN m.fits /\ pair' = m.up
  /\ done' = done + 1
  /\ UNCHANGED <<legacy, edits, will>>

Unapply ==
  /\ Rollbacks
  /\ done > 0
  /\ LET m == Chain(pair)[done] IN m.unfits /\ pair' = m.down
  /\ done' = done - 1
  /\ UNCHANGED <<legacy, edits, will>>

\* The operator changes a column or a step of a row, its enabled column, or
\* deletes it.
Operator(n) ==
  /\ edits < MaxEdits
  /\ pair[n].is # "absent"
  /\ edits' = edits + 1
  /\ \/ pair' = [pair EXCEPT ![n].is = "edited"] /\ UNCHANGED will
     \/ /\ pair' = [pair EXCEPT ![n].on = ~@]
        /\ will' = [will EXCEPT ![n] = IF pair[n].on THEN "off" ELSE "on"]
     \/ pair' = [pair EXCEPT ![n] = Nothing] /\ will' = [will EXCEPT ![n] = "none"]
  /\ UNCHANGED <<done, legacy>>

Next == Apply \/ Unapply \/ \E n \in Rows : Operator(n)
Spec == Init /\ [][Next]_vars
\* migrate goes on while the next migration accepts the pair.
FairSpec == Spec /\ WF_vars(Apply)

---------------------------------------------------------------------------
TypeOK ==
  /\ done \in 0..Top
  /\ pair \in [Rows -> [is : {"absent", "exact", "edited"}, on : BOOLEAN, marker : Markers]]
  /\ edits \in 0..MaxEdits

\* Provenance never comes apart: two exact rows carry the same marker unless
\* the database already held them so.
OneProvenance ==
  (\A n \in Rows : pair[n].is = "exact") /\ (\A n, k \in Rows : legacy[n].marker = legacy[k].marker)
    => pair["prove"].marker = pair["provision"].marker

\* At the head both rows are there, exact, disabled and with the current
\* marker, whatever the database held and whatever was reversed on the way.
HeadPair == done = Top /\ edits = 0 => Exact(pair, FALSE, "current")

\* A database without the pair, or with the complete enabled one, reaches the
\* head when nobody interferes.
AdoptionCompletes ==
  legacy \in {Both(Nothing), Both(Row("exact", TRUE, "unmarked"))} => <>(done = Top \/ edits > 0)

\* The pair is one thing: its rows have one provenance, and the head is the same
\* whatever the database held.
PairIsWhole == TypeOK /\ OneProvenance /\ HeadPair

\* A migration never writes a row the operator edited, and never deletes one
\* (reversing 0104 disables whatever it finds); no step towards the head enables
\* a row.
AdoptsOnlyExact ==
  [][done' # done => \A n \in Rows :
       /\ pair[n].is = "edited" => pair'[n] \in {pair[n], [pair[n] EXCEPT !.on = FALSE]}
       /\ pair[n].is # "absent" => pair'[n].is # "absent"
       /\ done' > done /\ pair'[n].on => pair[n].on]_vars

=============================================================================
