----------------------------- MODULE CommandChain -----------------------------
(***************************************************************************)
(* RPCProcedureCommand: the command rows of procedures, their sequence     *)
(* numbers, the output variable a row captures (produces_var) and the      *)
(* output variables its templates refer to.  Editors create, change, move  *)
(* and delete rows through forms and the REST API: clean() reads the other *)
(* rows, and the row is stored in a later step.  Nothing locks the rows in *)
(* between.                                                                *)
(*                                                                         *)
(* Templates are reduced to the variables they refer to: a literal row is  *)
(* one that refers to none.                                                *)
(***************************************************************************)
EXTENDS Integers, FiniteSets

CONSTANTS Procedures, Rows, Editors, Names, None, MaxSequence

VARIABLES row,     \* [Rows -> Values], or None while the row does not exist
          pending  \* [Editors -> the validated row on its way to the database]
vars == <<row, pending>>

Sequences == 1..MaxSequence
Values == [procedure : Procedures, sequence : Sequences, refs : SUBSET Names,
           produces_var : Names \union {None}]
Init == row = [r \in Rows |-> None] /\ pending = [e \in Editors |-> None]

---------------------------------------------------------------------------
\* The commands of a procedure.
Commands(p) == [r \in {s \in Rows : row[s] # None /\ row[s].procedure = p} |-> row[r]]
\* _sibling_commands: what clean() reads for a row that is to have value v.
Siblings(r, v) == [s \in DOMAIN Commands(v.procedure) \ {r} |-> row[s]]

\* The variables produced by commands strictly before sequence n.
ProducedBefore(cmds, n) ==
  {cmds[s].produces_var : s \in {t \in DOMAIN cmds : cmds[t].sequence < n}} \ {None}

\* validate_jinja_argv, for the references to output variables.
ValidRefs(cmds, v) == v.refs \subseteq ProducedBefore(cmds, v.sequence)

\* validate_capture: the name is not taken by another command.
ValidCapture(cmds, v) ==
  v.produces_var # None => \A s \in DOMAIN cmds : cmds[s].produces_var # v.produces_var

\* Variant of ChainConsistent: the commands are looked at as they are stored,
\* without the pending values.
ChainConsistentStored(cmds, v) ==
  \A s \in DOMAIN cmds :
    cmds[s].refs \subseteq ProducedBefore(Commands(v.procedure), cmds[s].sequence)
\* _chain_consistency_errors: with the pending row in place, every other
\* command still finds its variables.
ChainConsistent(cmds, v) ==
  \A s \in DOMAIN cmds :
    cmds[s].refs \subseteq ProducedBefore(cmds, cmds[s].sequence)
                           \union (IF v.sequence < cmds[s].sequence THEN {v.produces_var} ELSE {})

\* unique_together: (procedure, sequence).
SequenceFree(cmds, v) == \A s \in DOMAIN cmds : cmds[s].sequence # v.sequence

\* full_clean() of the form or the serializer; a rejected row changes nothing.
\* read is what the validation rests on.
Clean(e, r, v) ==
  /\ pending[e] = None
  /\ row[r] # v
  /\ LET cmds == Siblings(r, v)
     IN /\ ValidRefs(cmds, v) /\ ValidCapture(cmds, v) /\ ChainConsistent(cmds, v)
        /\ SequenceFree(cmds, v)
        /\ pending' = [pending EXCEPT ![e] = [row |-> r, value |-> v, read |-> cmds]]
  /\ UNCHANGED row
\* save(): only the unique constraint is checked again; a row deleted in the
\* meantime is inserted anew.
Store(e) ==
  /\ pending[e] # None
  /\ LET r == pending[e].row
         v == pending[e].value
     IN row' = IF SequenceFree(Siblings(r, v), v) THEN [row EXCEPT ![r] = v] ELSE row
  /\ pending' = [pending EXCEPT ![e] = None]
\* Deletion is not checked against the commands that refer to the variable.
Delete(e, r) ==
  /\ pending[e] = None /\ row[r] # None
  /\ row' = [row EXCEPT ![r] = None]
  /\ UNCHANGED pending

Next == \E e \in Editors :
          \/ Store(e)
          \/ \E r \in Rows : Delete(e, r) \/ \E v \in Values : Clean(e, r, v)
Spec == Init /\ [][Next]_vars

---------------------------------------------------------------------------
\* Every reference of the procedure is produced by an earlier command.
Resolved(p) ==
  \A s \in DOMAIN Commands(p) : row[s].refs \subseteq ProducedBefore(Commands(p), row[s].sequence)

\* An output variable has at most one producer: what a later command refers to
\* is never ambiguous.
OneProducer(p) ==
  \A r, s \in DOMAIN Commands(p) :
    r # s /\ row[r].produces_var # None => row[r].produces_var # row[s].produces_var

\* The commands of a procedure have an order, however many editors save.
Ordered(p) ==
  \A r, s \in DOMAIN Commands(p) : row[r].sequence = row[s].sequence => r = s

\* A save that finds the commands it was validated against leaves the whole
\* procedure resolved, whatever deletions and overtaken saves did to it before,
\* and makes nothing ambiguous; any save, an overtaken one too, leaves the commands
\* in an order.
SaveResolves ==
  [][\A e \in Editors, p \in Procedures :
       /\ pending[e] # None /\ pending'[e] = None /\ row' # row
       /\ p = pending[e].value.procedure
       => /\ Ordered(p)'
          /\ pending[e].read = Siblings(pending[e].row, pending[e].value) =>
               Resolved(p)' /\ (OneProducer(p) => OneProducer(p)')]_vars

=============================================================================
