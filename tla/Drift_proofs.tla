---------------------------- MODULE Drift_proofs ----------------------------
(***************************************************************************)
(* Machine-checked proofs about rows that change under their readers.      *)
(* CredentialRemap: any allowlist rows, credentials, objects and edits.    *)
(* CommandChain: any procedures, commands, variable names and number of    *)
(* concurrent editors.  DriverChain: any chains of drivers, any number of  *)
(* editors and saves.                                                      *)
(***************************************************************************)
EXTENDS CredentialRemap, CatalogueEditors, Sequences, FiniteSetTheorems, TLAPS

-----------------------------------------------------------------------------
(* CredentialRemap: the management command and administrators.             *)

\* The two allowlists are two tables, and None is not an identifier.
RowsAreApart ==
  /\ Services \cap Plugins = {}
  /\ None \notin Ids

\* A credential for which the command finds, or can create, one assignment.
Resolvable(c) == OneLogin(c) \/ OneToCopy(c)
\* A row it would set now.
Settable(r) == legacy[r] # None /\ Resolvable(legacy[r])
\* The rows the run is through with.
Visited == ((IF table = "services" THEN Services ELSE Rows) \ todo)
             \ (IF pc \in {"resolve", "create", "save"} THEN {row} ELSE {})

\* What the command created for a credential.
Created(c) == {a \in Of(c) : a.created}
\* What the run knows about its row, and what it found for it.
Types ==
  /\ TypeOK
  /\ legacy \in [Rows -> Credentials \union {None}]
  /\ IsFiniteSet(assignments)
  /\ dry \in BOOLEAN
  /\ todo \subseteq (IF table = "services" THEN Services ELSE Plugins)
  /\ pc \in {"resolve", "create", "save"} =>
       /\ row \in Rows \ todo /\ legacy[row] \in Credentials /\ legacy[row] # None
       /\ row \in (IF table = "services" THEN Services ELSE Plugins)
  /\ pc = "create" => ~dry /\ found \in Objects
  /\ pc = "save" /\ ~dry => found \in Ids
\* The command created at most one assignment for a credential, and while it is
\* about to create one, any it created before is on the object it would use.
Once ==
  /\ \A c \in Credentials : \A a, b \in Created(c) : a = b
  /\ \A a \in assignments : a.created => a.login
  /\ pc = "create" => \A a \in Created(legacy[row]) : a.object = found
\* What was planned are the rows that could be set and were not yet, or were since.
Forecast ==
  IF dry /\ pc # "idle"
  THEN planned = {r \in Visited : Settable(r) /\ assigned[r] = None} /\ updated = {}
  ELSE /\ planned = {r \in Rows : Settable(r) /\ (assigned[r] = None \/ r \in updated)}
       /\ dry => updated = {}
       /\ \A r \in updated : Settable(r) /\ assigned[r] # None
       /\ pc # "idle" => \A r \in Visited : Settable(r) => assigned[r] # None
\* While nobody interfered since the last dry run began, the plan is right, and
\* the run sees the rows as they are.
Predicted ==
  planned # None =>
    /\ \A r \in todo : pc # "idle" => cursor[r] = assigned[r]
    /\ pc \in {"resolve", "create", "save"} => assigned[row] = None
    /\ pc = "save" => Resolvable(legacy[row])
    /\ pc = "create" =>
         /\ Logins(legacy[row]) = {}
         /\ \E a \in assignments : Of(legacy[row]) = {a}
    /\ Forecast

RemapInvariant == Types /\ Once /\ Predicted

\* Steps of the command that change no assignment, and those of administrators.
Steps == \/ (\E d \in BOOLEAN : Start(d)) \/ (\E r \in Rows : Pick(r))
         \/ OpenPlugins \/ Resolve \/ Save \/ Done \/ Kill
Interferes == \/ \E c \in Credentials, o \in Objects, l \in BOOLEAN : Assign(c, o, l)
              \/ \E a \in assignments : Disable(a) \/ \E r \in Rows : SetRow(r, a)

\* Every step is one of these, or the creation of an assignment.
LEMMA RemapKinds == Next => Steps \/ Create \/ Interferes
BY Zenon DEF Next, Steps, Interferes

\* A finite set has one element when it is a singleton, and at most one when its
\* elements are equal.
LEMMA OneOf ==
  ASSUME NEW S, IsFiniteSet(S)
  PROVE  /\ Cardinality(S) = 1 <=> \E x \in S : S = {x}
         /\ (\A x, y \in S : x = y) => Cardinality(S) <= 1
<1>1. Cardinality(S) = 1 <=> \E x : S = {x}
  BY FS_Singleton, Zenon
<1>2. (\E x : S = {x}) <=> (\E x \in S : S = {x})
  BY Zenon
<1>3. ASSUME \A x, y \in S : x = y PROVE Cardinality(S) <= 1
  <2>1. CASE S = {}
    BY <2>1, FS_EmptySet
  <2>2. CASE S # {}
    <3>1. PICK x \in S : TRUE
      BY <2>2, Zenon
    <3>2. S = {x}
      BY <3>1, <1>3, Zenon
    <3>. QED BY <3>2, <1>1
  <2>. QED BY <2>1, <2>2, Zenon
<1>. QED BY <1>1, <1>2, <1>3, Zenon

\* There are finitely many assignments of a credential.
LEMMA FiniteParts ==
  ASSUME Types, NEW c
  PROVE  IsFiniteSet(Of(c)) /\ IsFiniteSet(Logins(c)) /\ IsFiniteSet(Created(c))
<1>1. Of(c) \subseteq assignments /\ Logins(c) \subseteq assignments
          /\ Created(c) \subseteq assignments
  BY Zenon DEF Of, Logins, Created
<1>. QED BY <1>1, FS_Subset, Zenon DEF Types

\* What _resolve_or_create_assignment finds: an assignment to save, or an object
\* to create one on.
LEMMA ResolveTypes ==
  ASSUME Types, Resolve
  PROVE  /\ pc' \in {"create", "save", "next"}
         /\ pc' = "create" => ~dry /\ found' \in Objects
         /\ pc' = "save" /\ ~dry => found' \in Ids
<1>. DEFINE c == legacy[row]
<1>1. IsFiniteSet(Of(c)) /\ IsFiniteSet(Logins(c))
  BY FiniteParts, Zenon
<1>2. \A a \in Of(c) : a.id \in Ids /\ a.object \in Objects
  BY Zenon DEF Types, TypeOK, Assignments, Of
<1>3. Logins(c) \subseteq Of(c)
  BY Zenon DEF Logins
<1>. QED BY <1>2, <1>3, Zenon DEF Resolve

\* Every step keeps the types.
LEMMA RemapTypes == RowsAreApart /\ Types /\ [Next]_vars => Types'
<1>. SUFFICES ASSUME RowsAreApart, Types, [Next]_vars PROVE Types'
  BY Zenon
<1>. USE DEF Types, TypeOK, Rows
<1>1. ASSUME NEW d \in BOOLEAN, Start(d) PROVE Types'
  BY <1>1, Zenon DEF Start
<1>2. ASSUME NEW r \in Rows, Pick(r) PROVE Types'
  BY <1>2, Zenon DEF Pick
<1>3. CASE OpenPlugins
  BY <1>3, Zenon DEF OpenPlugins
<1>4. CASE Resolve
  <2>1. pc = "resolve" /\ UNCHANGED <<legacy, assigned, assignments, dry, cursor, table, todo,
            row, planned, updated, edits>>
    BY <1>4, Zenon DEF Resolve
  <2>. QED BY <2>1, <1>4, ResolveTypes, Zenon
<1>5. CASE Create
  <2>1. CASE pc' = "idle" /\ planned' = None /\ UNCHANGED <<assignments, found>>
    BY <2>1, <1>5, Zenon DEF Create
  <2>2. CASE /\ NextId \in Ids
             /\ assignments' = assignments \union
                  {[id |-> NextId, credential |-> legacy[row], object |-> found, login |-> TRUE,
                    enabled |-> TRUE, created |-> TRUE]}
             /\ found' = NextId /\ pc' = "save" /\ UNCHANGED planned
    <3>1. [id |-> NextId, credential |-> legacy[row], object |-> found, login |-> TRUE,
                    enabled |-> TRUE, created |-> TRUE] \in Assignments
      BY <2>2, <1>5, Zenon DEF Create, Assignments
    <3>2. IsFiniteSet(assignments') /\ assignments' \subseteq Assignments
      BY <2>2, <3>1, FS_AddElement, ZenonT(30)
    <3>. QED BY <3>2, <2>2, <1>5, Zenon DEF Create
  <2>. QED BY <2>1, <2>2, <1>5, ZenonT(30) DEF Create
<1>6. CASE Save
  BY <1>6 DEF Save
<1>7. CASE Done
  BY <1>7, Zenon DEF Done
<1>8. CASE Kill
  BY <1>8, Zenon DEF Kill
<1>9. ASSUME NEW c \in Credentials, NEW o \in Objects, NEW l \in BOOLEAN, Assign(c, o, l)
          PROVE Types'
  <2>1. [id |-> NextId, credential |-> c, object |-> o, login |-> l, enabled |-> TRUE,
            created |-> FALSE]
          \in Assignments
    BY <1>9, Zenon DEF Assign, Assignments
  <2>2. IsFiniteSet(assignments') /\ assignments' \subseteq Assignments
    BY <2>1, <1>9, FS_AddElement, Zenon DEF Assign
  <2>. QED BY <2>2, <1>9, Zenon DEF Assign, Edit, ofCommand
<1>10. ASSUME NEW a \in assignments, Disable(a) PROVE Types'
  <2>1. [a EXCEPT !.enabled = FALSE] \in Assignments
    BY ZenonT(30) DEF Assignments
  <2>2. IsFiniteSet(assignments') /\ assignments' \subseteq Assignments
    BY <2>1, <1>10, FS_AddElement, FS_RemoveElement, ZenonT(30) DEF Disable
  <2>. QED BY <2>2, <1>10, Zenon DEF Disable, Edit, ofCommand
<1>11. ASSUME NEW a \in assignments, NEW r \in Rows, SetRow(r, a) PROVE Types'
  <2>1. a.id \in Ids
    BY Zenon DEF Assignments
  <2>. QED BY <2>1, <1>11, Zenon DEF SetRow, Edit, ofCommand
<1>12. CASE UNCHANGED vars
  BY <1>12, Zenon DEF vars
<1>. QED BY <1>1, <1>2, <1>3, <1>4, <1>5, <1>6, <1>7, <1>8, <1>9, <1>10, <1>11, <1>12,
         ZenonT(30) DEF Next

\* Nothing is created twice: a second creation is refused on the object of the
\* first, and administrators never remove what was created.
LEMMA RemapOnce == Types /\ Once /\ [Next]_vars => Once'
<1>. SUFFICES ASSUME Types, Once, [Next]_vars PROVE Once'
  BY Zenon
<1>0. ASSUME UNCHANGED assignments,
             pc' = "create" => \A a \in Created(legacy[row])' : a.object = found'
      PROVE  Once'
  BY <1>0 DEF Once, Created, Of
<1>1. ASSUME Steps, ~Resolve PROVE Once'
  <2>1. UNCHANGED assignments /\ pc' # "create"
    BY <1>1, Zenon DEF Steps, Start, Pick, OpenPlugins, Save, Done, Kill
  <2>. QED BY <2>1, <1>0, Zenon
<1>2. CASE Resolve
  <2>. DEFINE c == legacy[row]
  <2>1. UNCHANGED <<legacy, row, assignments>>
    BY <1>2, Zenon DEF Resolve
  <2>2. ASSUME pc' = "create" PROVE \A a \in Created(c) : a.object = found'
    <3>1. OneToCopy(c) /\ \E a \in Of(c) : found' = a.object
      BY <2>2, <1>2, Zenon DEF Resolve
    <3>2. \E x \in Of(c) : Of(c) = {x}
      BY <3>1, FiniteParts, OneOf, Zenon DEF OneToCopy
    <3>. QED BY <3>1, <3>2, Zenon DEF Created
  <2>3. Created(legacy[row])' = Created(c)
    BY <2>1, Zenon DEF Created, Of
  <2>. QED BY <2>1, <2>2, <2>3, <1>0, Zenon
<1>3. CASE Create
  <2>. DEFINE c == legacy[row]
              new == [id |-> NextId, credential |-> c, object |-> found, login |-> TRUE,
                      enabled |-> TRUE, created |-> TRUE]
  <2>1. CASE \E a \in Of(c) : a.object = found /\ a.login
    BY <2>1, <1>3, <1>0, Zenon DEF Create
  <2>2. CASE ~\E a \in Of(c) : a.object = found /\ a.login
    <3>1. assignments' = assignments \union {new} /\ pc' = "save"
      BY <2>2, <1>3, Zenon DEF Create
    <3>2. Created(c) = {}
      BY <2>2, <1>3, Zenon DEF Created, Of, Once, Create
    <3>3. new.credential = c /\ new.login /\ new.created
      BY Zenon
    <3>. HIDE DEF new
    <3>4. ASSUME NEW d \in Credentials, NEW a \in Created(d)', NEW b \in Created(d)' PROVE a = b
      <4>1. \A x \in Created(d)' : x \in Created(d) \/ (x = new /\ d = c)
        BY <3>1, <3>3, Zenon DEF Created, Of
      <4>. QED BY <4>1, <3>2, <3>4, Zenon DEF Once
    <3>5. \A a \in assignments' : a.created => a.login
      BY <3>1, <3>3, Zenon DEF Once
    <3>. QED BY <3>1, <3>4, <3>5, Zenon DEF Once
  <2>. QED BY <2>1, <2>2, Zenon
<1>4. ASSUME NEW c \in Credentials, NEW o \in Objects, NEW l \in BOOLEAN, Assign(c, o, l)
          PROVE Once'
  <2>. DEFINE new == [id |-> NextId, credential |-> c, object |-> o, login |-> l,
           enabled |-> TRUE, created |-> FALSE]
  <2>1. assignments' = assignments \union {new} /\ UNCHANGED <<legacy, row, pc, found>>
    BY <1>4, Zenon DEF Assign, Edit, ofCommand
  <2>2. ~new.created
    BY Zenon
  <2>. HIDE DEF new
  <2>3. \A d : Created(d)' = Created(d)
    BY <2>1, <2>2, Zenon DEF Created, Of
  <2>4. Created(legacy[row])' = Created(legacy[row])
    BY <2>1, <2>2, Zenon DEF Created, Of
  <2>. QED BY <2>1, <2>2, <2>3, <2>4, Zenon DEF Once
<1>5. ASSUME NEW a \in assignments, Disable(a) PROVE Once'
  <2>. DEFINE new == [a EXCEPT !.enabled = FALSE]
  <2>1. assignments' = (assignments \ {a}) \union {new} /\ UNCHANGED <<legacy, row, pc, found>>
    BY <1>5, Zenon DEF Disable, Edit, ofCommand
  <2>2. /\ new.created = a.created /\ new.login = a.login /\ new.credential = a.credential
        /\ new.object = a.object
    BY Zenon DEF Types, TypeOK, Assignments
  <2>. HIDE DEF new
  <2>3. ASSUME NEW d PROVE \A x \in Created(d)' : x \in Created(d) \ {a} \/ (x = new
            /\ a \in Created(d))
    BY <2>1, <2>2, Zenon DEF Created, Of
  <2>4. ASSUME NEW d \in Credentials, NEW x \in Created(d)', NEW y \in Created(d)' PROVE x = y
    BY <2>3, <2>4 DEF Once
  <2>5. pc = "create" => \A x \in Created(legacy[row])' : x.object = found
    <3>1. \A x \in Created(legacy[row])' : x \in Created(legacy[row]) \/ (x = new
              /\ a \in Created(legacy[row]))
      BY <2>1, <2>2, Zenon DEF Created, Of
    <3>. QED BY <3>1, <2>2, Zenon DEF Once
  <2>6. \A x \in assignments' : x.created => x.login
    BY <2>1, <2>2, Zenon DEF Once
  <2>. QED BY <2>1, <2>4, <2>5, <2>6, Zenon DEF Once
<1>6. ASSUME NEW a \in assignments, NEW r \in Rows, SetRow(r, a) PROVE Once'
  <2>1. UNCHANGED <<assignments, legacy, row, pc, found>>
    BY <1>6, Zenon DEF SetRow, Edit, ofCommand
  <2>. QED BY <2>1, <1>0, Zenon DEF Once, Created, Of
<1>7. CASE UNCHANGED vars
  <2>1. UNCHANGED <<assignments, legacy, row, pc, found>>
    BY <1>7, Zenon DEF vars
  <2>. QED BY <2>1, <1>0, Zenon DEF Once, Created, Of
<1>. QED BY <1>1, <1>2, <1>3, <1>4, <1>5, <1>6, <1>7, RemapKinds, Zenon DEF Interferes

\* Whether a row can be set depends on the legacy values and the assignments.
LEMMA SameSettable ==
  ASSUME UNCHANGED <<assignments, legacy>>
  PROVE  /\ \A r : Settable(r)' <=> Settable(r)
         /\ \A c : Resolvable(c)' <=> Resolvable(c)
BY Zenon DEF Settable, Resolvable, OneLogin, OneToCopy, Logins, Of

\* Passing over a row that needs no setting keeps the plan right.
LEMMA SameForecast ==
  ASSUME UNCHANGED <<assignments, legacy, assigned, dry, planned, updated>>,
         pc = "next", pc' # "idle", Forecast,
         NEW r, Visited' = Visited \/ (Visited' = Visited \union {r}
                                      /\ (Settable(r) => assigned[r] # None))
  PROVE  Forecast'
<1>1. \A q : Settable(q)' <=> Settable(q)
  BY SameSettable, Zenon
<1>2. CASE dry
  <2>1. planned = {q \in Visited : Settable(q) /\ assigned[q] = None} /\ updated = {}
    BY <1>2, Zenon DEF Forecast
  <2>2. {q \in Visited' : Settable(q)' /\ assigned'[q] = None}
            = {q \in Visited : Settable(q) /\ assigned[q] = None}
    BY <1>1, Zenon
  <2>. QED BY <1>2, <2>1, <2>2, Zenon DEF Forecast
<1>3. CASE ~dry
  <2>1. /\ planned = {q \in Rows : Settable(q) /\ (assigned[q] = None \/ q \in updated)}
        /\ \A q \in updated : Settable(q) /\ assigned[q] # None
        /\ \A q \in Visited : Settable(q) => assigned[q] # None
    BY <1>3, Zenon DEF Forecast
  <2>2. {q \in Rows : Settable(q)' /\ (assigned'[q] = None \/ q \in updated')}
            = {q \in Rows : Settable(q) /\ (assigned[q] = None \/ q \in updated)}
    BY <1>1, Zenon
  <2>3. \A q \in Visited' : Settable(q)' => assigned'[q] # None
    BY <2>1, <1>1, Zenon
  <2>. QED BY <1>1, <1>3, <2>1, <2>2, <2>3, Zenon DEF Forecast
<1>. QED BY <1>2, <1>3, Zenon

\* Without interference a run sets exactly the rows that can be set: creating an
\* assignment leaves every such row one, and makes no other.
LEMMA RemapPredicts ==
  RowsAreApart /\ Types /\ Types' /\ Predicted /\ [Next]_vars => Predicted'
<1>. SUFFICES ASSUME RowsAreApart, Types, Types', Predicted, [Next]_vars, planned' # None
              PROVE  Predicted'
  BY Zenon DEF Predicted, Forecast
<1>1. ASSUME NEW d \in BOOLEAN, Start(d) PROVE Predicted'
  <2>0. UNCHANGED <<assignments, legacy>>
    BY <1>1, Zenon DEF Start
  <2>. USE <2>0, SameSettable
  <2>1. CASE d
    BY <1>1, <2>1, ZenonT(30) DEF Start, Predicted, Forecast, Visited, Types, TypeOK
  <2>2. CASE ~d
    BY <1>1, <2>2, Zenon DEF Start, Predicted, Forecast, Visited, Types, TypeOK
  <2>. QED BY <2>1, <2>2, Zenon
<1>2. ASSUME NEW r \in Rows, Pick(r) PROVE Predicted'
  <2>0. /\ UNCHANGED <<assignments, legacy, assigned, dry, cursor, table, planned, updated>>
        /\ pc = "next" /\ r \in todo /\ todo' = todo \ {r}
    BY <1>2, Zenon DEF Pick
  <2>1. Forecast /\ \A q \in todo : cursor[q] = assigned[q]
    BY <2>0, Zenon DEF Predicted
  <2>2. Visited' = Visited \union {r} \/ Visited' = Visited
    <3>1. r \in (IF table = "services" THEN Services ELSE Rows)
      BY <2>0, Zenon DEF Types, Rows
    <3>2. CASE pc' = "resolve" /\ row' = r
      BY <2>0, <3>1, <3>2, Zenon DEF Visited
    <3>3. CASE pc' = "next"
      BY <2>0, <3>1, <3>3, Zenon DEF Visited
    <3>. QED BY <2>0, <3>2, <3>3, <1>2, Zenon DEF Pick
  <2>3. CASE cursor[r] = None /\ legacy[r] # None
    <3>1. row' = r /\ pc' = "resolve" /\ assigned'[row'] = None
      BY <2>0, <2>1, <2>3, <1>2, Zenon DEF Pick
    <3>2. Visited' = Visited
      BY <2>0, <3>1, Zenon DEF Visited
    <3>3. Forecast'
      BY <2>0, <2>1, <3>1, <3>2, SameForecast
    <3>. QED BY <2>0, <2>1, <3>1, <3>3, Zenon DEF Predicted
  <2>4. CASE ~(cursor[r] = None /\ legacy[r] # None)
    <3>1. pc' = "next" /\ (Settable(r) => assigned[r] # None)
      BY <2>0, <2>1, <2>4, <1>2, Zenon DEF Pick, Settable
    <3>2. Forecast'
      BY <2>0, <2>1, <2>2, <3>1, SameForecast
    <3>. QED BY <2>0, <2>1, <3>1, <3>2, Zenon DEF Predicted
  <2>. QED BY <2>3, <2>4, Zenon
<1>3. CASE OpenPlugins
  <2>1. /\ UNCHANGED <<assignments, legacy, assigned, dry, planned, updated>>
        /\ pc = "next" /\ pc' = "next" /\ cursor' = assigned
    BY <1>3, Zenon DEF OpenPlugins
  <2>2. Visited' = Visited
    BY <1>3, <2>1, Zenon DEF OpenPlugins, Visited, Rows, RowsAreApart
  <2>3. Forecast
    BY <2>1, Zenon DEF Predicted
  <2>4. Forecast'
    BY <2>1, <2>2, <2>3, SameForecast, Zenon
  <2>. QED BY <2>1, <2>4, Zenon DEF Predicted
<1>4. CASE Resolve
  <2>1. /\ UNCHANGED <<assignments, legacy, assigned, dry, cursor, table, todo, row, planned,
            updated>>
        /\ pc = "resolve" /\ pc' \in {"create", "save", "next"}
        /\ pc' = "save" => Resolvable(legacy[row])
        /\ pc' = "create" => OneToCopy(legacy[row]) /\ ~dry
        /\ pc' = "next" => ~Resolvable(legacy[row])
    BY <1>4, Zenon DEF Resolve, Resolvable
  <2>2. CASE pc' = "next"
    <3>1. Visited' = Visited \union {row} /\ ~Settable(row)
      BY <2>1, <2>2, Zenon DEF Visited, Types, Rows, Settable
    <3>. QED BY <2>1, <2>2, <3>1, SameSettable, ZenonT(30) DEF Predicted, Forecast
  <2>3. CASE pc' = "save"
    <3>1. Visited' = Visited
      BY <2>1, <2>3, Zenon DEF Visited
    <3>2. Resolvable(legacy[row])'
      BY <2>1, <2>3, Zenon DEF Resolvable, OneLogin, OneToCopy, Logins, Of
    <3>. QED BY <2>1, <2>3, <3>1, <3>2, SameSettable, ZenonT(30) DEF Predicted, Forecast
  <2>4. CASE pc' = "create"
    <3>1. Visited' = Visited
      BY <2>1, <2>4, Zenon DEF Visited
    <3>2. Logins(legacy[row]) = {} /\ \E a \in assignments : Of(legacy[row]) = {a}
      <4>1. \E x \in Of(legacy[row]) : Of(legacy[row]) = {x}
        BY <2>1, <2>4, FiniteParts, OneOf DEF OneToCopy
      <4>. QED BY <4>1, <2>1, <2>4, Zenon DEF OneToCopy, Of
    <3>3. (Logins(legacy[row]) = {} /\ \E a \in assignments : Of(legacy[row]) = {a})'
      BY <2>1, <3>2, Zenon DEF Logins, Of
    <3>. QED BY <2>1, <2>4, <3>1, <3>3, SameSettable, ZenonT(30) DEF Predicted, Forecast
  <2>. QED BY <2>1, <2>2, <2>3, <2>4, Zenon
<1>5. CASE Create
  <2>. DEFINE c == legacy[row]
              new == [id |-> NextId, credential |-> c, object |-> found, login |-> TRUE,
                      enabled |-> TRUE, created |-> TRUE]
  <2>1. /\ UNCHANGED <<legacy, assigned, dry, cursor, table, todo, row, planned, updated>>
        /\ assignments' = assignments \union {new} /\ pc = "create" /\ pc' = "save"
    BY <1>5, Zenon DEF Create
  <2>2. new.credential = c /\ new.login /\ new.enabled
    BY Zenon
  <2>3. Logins(c) = {} /\ \E a \in assignments : Of(c) = {a}
    BY <2>1, Zenon DEF Predicted, Forecast
  <2>. HIDE DEF new
  <2>4. OneToCopy(c)
    BY <2>3, FS_Singleton, Zenon DEF OneToCopy
  <2>5. Logins(c)' = {new}
    BY <2>1, <2>2, <2>3, Zenon DEF Logins, Of
  <2>6. OneLogin(c)'
    BY <2>5, FS_Singleton, ZenonT(30) DEF OneLogin
  <2>7. ASSUME NEW d, d # c PROVE Resolvable(d)' <=> Resolvable(d)
    <3>1. Of(d)' = Of(d) /\ Logins(d)' = Logins(d)
      BY <2>1, <2>2, <2>7, Zenon DEF Logins, Of
    <3>. QED BY <3>1, Zenon DEF Resolvable, OneLogin, OneToCopy
  <2>8. Resolvable(c) /\ Resolvable(c)'
    BY <2>4, <2>6, Zenon DEF Resolvable
  <2>9. \A r : Settable(r)' <=> Settable(r)
    BY <2>1, <2>7, <2>8, Zenon DEF Settable
  <2>10. Visited' = Visited
    BY <2>1, Zenon DEF Visited
  <2>. QED BY <2>1, <2>8, <2>9, <2>10, ZenonT(30) DEF Predicted, Forecast, Types
<1>6. CASE Save
  <2>1. /\ UNCHANGED <<legacy, assignments, dry, cursor, table, todo, row>>
        /\ pc = "save" /\ pc' = "next"
    BY <1>6, Zenon DEF Save
  <2>2. Visited' = Visited \union {row}
    BY <2>1, Zenon DEF Visited, Types, Rows
  <2>3. planned # None
    BY <1>6, Zenon DEF Save
  <2>4. Settable(row) /\ assigned[row] = None /\ row \in Rows /\ row \notin todo
    BY <2>1, <2>3, ZenonT(30) DEF Predicted, Forecast, Settable, Types
  <2>5. CASE dry
    <3>1. planned' = planned \union {row} /\ UNCHANGED <<assigned, updated>>
      BY <2>5, <2>3, <1>6, Zenon DEF Save
    <3>. QED BY <2>1, <2>2, <2>3, <2>4, <2>5, <3>1, SameSettable, ZenonT(30) DEF Predicted, Forecast
  <2>6. CASE ~dry
    <3>1. /\ assigned' = [assigned EXCEPT ![row] = found] /\ updated' = updated \union {row}
          /\ planned' = planned /\ found # None
      BY <2>6, <2>1, <1>6, Zenon DEF Save, Types, RowsAreApart
    <3>2. assigned'[row] # None /\ \A r \in Rows : r # row => assigned'[r] = assigned[r]
      BY <3>1, <2>4, ZenonT(30) DEF Types, TypeOK
    <3>3. todo \subseteq Rows /\ Visited \subseteq Rows /\ updated \subseteq Rows
      BY Zenon DEF Types, TypeOK, Visited, Rows
    <3>. QED BY <2>1, <2>2, <2>3, <2>4, <2>6, <3>1, <3>2, <3>3, SameSettable, ZenonT(30)
             DEF Predicted, Forecast
  <2>. QED BY <2>5, <2>6, Zenon
<1>7. CASE Done
  <2>1. /\ UNCHANGED <<legacy, assigned, assignments, dry, cursor, table, todo, row, planned,
            updated>>
        /\ pc = "next" /\ pc' = "idle" /\ todo = {} /\ table = "plugins"
    BY <1>7, Zenon DEF Done
  <2>2. Visited = Rows
    BY <2>1, Zenon DEF Visited
  <2>. QED BY <2>1, <2>2, SameSettable, ZenonT(30) DEF Predicted, Forecast
<1>8. CASE Kill
  <2>1. /\ UNCHANGED <<legacy, assigned, assignments, dry, cursor, table, todo, row, planned,
            updated>>
        /\ pc # "idle" /\ pc' = "idle" /\ ~dry
    BY <1>8, Zenon DEF Kill, Types
  <2>. QED BY <2>1, SameSettable, ZenonT(30) DEF Predicted, Forecast
<1>9. ~Interferes
  BY Zenon DEF Interferes, Assign, Disable, SetRow, Edit
<1>10. CASE UNCHANGED vars
  <2>1. UNCHANGED <<legacy, assigned, assignments, pc, dry, cursor, table, todo, row, planned,
            updated>>
    BY <1>10, Zenon DEF vars
  <2>2. Visited' = Visited
    BY <2>1, Zenon DEF Visited
  <2>3. /\ (Logins(legacy[row]) = {})' <=> Logins(legacy[row]) = {}
        /\ (\E a \in assignments : Of(legacy[row]) = {a})'
            <=> \E a \in assignments : Of(legacy[row]) = {a}
    BY <2>1, Zenon DEF Logins, Of
  <2>. QED BY <2>1, <2>2, <2>3, SameSettable, ZenonT(30) DEF Predicted, Forecast
<1>. QED BY <1>1, <1>2, <1>3, <1>4, <1>5, <1>6, <1>7, <1>8, <1>9, <1>10, RemapKinds DEF Steps

\* For any rows, credentials, objects and edits, and however often it is killed and
\* run again, the remap command creates nothing twice and does what its dry run said.
THEOREM RemapIsRepeatableHolds == RowsAreApart => (Spec => []RemapIsRepeatable)
<1>. SUFFICES ASSUME RowsAreApart PROVE Spec => []RemapIsRepeatable
  BY Zenon
<1>1. Init => RemapInvariant
  <2>. SUFFICES ASSUME Init PROVE RemapInvariant
    BY Zenon
  <2>1. IsFiniteSet(assignments)
    BY FS_EmptySet, Zenon DEF Init
  <2>. QED BY <2>1, Zenon DEF Init, RemapInvariant, Types, TypeOK, Once, Created, Of, Predicted, Forecast
<1>2. RemapInvariant /\ [Next]_vars => RemapInvariant'
  BY RemapTypes, RemapOnce, RemapPredicts, Zenon DEF RemapInvariant
<1>3. RemapInvariant => RemapIsRepeatable
  <2>. SUFFICES ASSUME RemapInvariant PROVE RemapIsRepeatable
    BY Zenon
  <2>1. TypeOK
    BY Zenon DEF RemapInvariant, Types
  <2>2. CreatedOnce
    <3>. SUFFICES ASSUME NEW c \in Credentials PROVE Cardinality(Created(c)) <= 1
      BY Zenon DEF CreatedOnce, Created
    <3>. QED BY FiniteParts, OneOf, Zenon DEF RemapInvariant, Once
  <2>3. DryRunPredicts
    <3>. SUFFICES ASSUME planned # None, ~dry
                  PROVE  /\ updated \subseteq planned
                         /\ pc = "next" /\ todo = {} /\ table = "plugins" => updated = planned
      BY Zenon DEF DryRunPredicts
    <3>1. updated \subseteq Rows
      BY Zenon DEF RemapInvariant, Types, TypeOK
    <3>2. updated \subseteq planned
      BY <3>1, Zenon DEF RemapInvariant, Predicted, Forecast
    <3>3. ASSUME pc = "next", todo = {}, table = "plugins" PROVE planned \subseteq updated
      <4>1. Visited = Rows
        BY <3>3, Zenon DEF Visited
      <4>. QED BY <4>1, <3>3, Zenon DEF RemapInvariant, Predicted, Forecast
    <3>. QED BY <3>2, <3>3, Zenon
  <2>. QED BY <2>1, <2>2, <2>3, Zenon DEF RemapIsRepeatable
<1>. QED BY <1>1, <1>2, <1>3, PTL DEF Spec

-----------------------------------------------------------------------------
(* CommandChain: the command rows of procedures and their editors.         *)

\* Unset is neither a variable name nor a command.
UnsetIsNoName == Unset \notin Names /\ Unset \notin CommandRows!Values

\* What clean() accepts beside the commands it read.
Accepted(cmds, v) ==
  /\ CommandRows!ValidRefs(cmds, v) /\ CommandRows!ValidCapture(cmds, v)
  /\ CommandRows!ChainConsistent(cmds, v)
\* Whatever waits to be stored was accepted beside the commands its validation
\* read, and every procedure has its commands in an order.
ChainInvariant ==
  /\ command \in [CommandIds -> CommandRows!Values \union {Unset}]
  /\ pending = [e \in CommandEditors |-> pending[e]]
  /\ \A e \in CommandEditors : pending[e] # Unset =>
       /\ pending[e].row \in CommandIds /\ pending[e].value \in CommandRows!Values
       /\ Accepted(pending[e].read, pending[e].value)
  /\ \A p \in ProcedureIds : CommandRows!Ordered(p)

\* The commands of the procedure after a save: its siblings and the saved row.
LEMMA Saved ==
  ASSUME UnsetIsNoName, ChainInvariant, NEW r \in CommandIds, NEW v \in CommandRows!Values,
         command' = [command EXCEPT ![r] = v]
  PROVE  LET p == v.procedure
             S == CommandRows!Siblings(r, v)
         IN /\ p \in ProcedureIds
            /\ command'[r] = v
            /\ DOMAIN CommandRows!Commands(p)' = DOMAIN S \union {r}
            /\ \A s \in DOMAIN S : s # r /\ command'[s] = command[s] /\ S[s] = command[s]
                /\ s \in DOMAIN CommandRows!Commands(p)
            /\ \A s \in DOMAIN CommandRows!Commands(p)' : CommandRows!Commands(p)'[s] = command'[s]
<1>1. v.procedure \in ProcedureIds /\ command'[r] = v /\ v # Unset
  BY Zenon DEF UnsetIsNoName, ChainInvariant, CommandRows!Values
<1>2. \A s \in CommandIds : s # r => command'[s] = command[s]
  BY Zenon DEF ChainInvariant
<1>. QED BY <1>1, <1>2, Zenon DEF CommandRows!Siblings, CommandRows!Commands

\* A save that passes the unique constraint keeps the order of every procedure.
LEMMA SavedInOrder ==
  ASSUME UnsetIsNoName, ChainInvariant, NEW r \in CommandIds, NEW v \in CommandRows!Values,
         command' = [command EXCEPT ![r] = v],
         CommandRows!SequenceFree(CommandRows!Siblings(r, v), v)
  PROVE  \A p \in ProcedureIds : CommandRows!Ordered(p)'
<1>. DEFINE S == CommandRows!Siblings(r, v)
<1>1. ASSUME NEW q \in ProcedureIds \ {v.procedure} PROVE CommandRows!Ordered(q)'
  <2>1. CommandRows!Ordered(q)
    BY Zenon DEF ChainInvariant
  <2>2. \A s \in DOMAIN CommandRows!Commands(q)' : s \in DOMAIN CommandRows!Commands(q)
            /\ command'[s] = command[s]
    <3>1. command'[r] = v /\ \A s \in CommandIds : s # r => command'[s] = command[s]
      BY Zenon DEF ChainInvariant
    <3>. QED BY <3>1, Zenon DEF CommandRows!Commands
  <2>. QED BY <2>1, <2>2, Zenon DEF CommandRows!Ordered
<1>2. CommandRows!Ordered(v.procedure)'
  <2>1. CommandRows!Ordered(v.procedure)
    BY Saved, Zenon DEF ChainInvariant
  <2>2. /\ DOMAIN CommandRows!Commands(v.procedure)' = DOMAIN S \union {r}
        /\ command'[r] = v
        /\ \A s \in DOMAIN S : s # r /\ command'[s] = command[s] /\ S[s] = command[s]
            /\ s \in DOMAIN CommandRows!Commands(v.procedure)
    BY Saved, ZenonT(30)
  <2>3. \A s \in DOMAIN S : S[s].sequence # v.sequence
    BY Zenon DEF CommandRows!SequenceFree
  <2>. HIDE DEF S
  <2>. SUFFICES ASSUME NEW D, D = DOMAIN CommandRows!Commands(v.procedure)', NEW a \in D,
                       NEW b \in D, command'[a].sequence = command'[b].sequence
                PROVE  a = b
    BY Zenon DEF CommandRows!Ordered
  <2>4. CASE a = r \/ b = r
    BY <2>2, <2>3, <2>4, Zenon
  <2>5. CASE a # r /\ b # r
    <3>1. /\ a \in DOMAIN CommandRows!Commands(v.procedure) /\ command'[a] = command[a]
          /\ b \in DOMAIN CommandRows!Commands(v.procedure) /\ command'[b] = command[b]
      BY <2>2, <2>5, Zenon
    <3>. QED BY <2>1, <3>1, Zenon DEF CommandRows!Ordered
  <2>. QED BY <2>4, <2>5, Zenon
<1>. QED BY <1>1, <1>2, Zenon

\* Beside the commands it was accepted with, a saved row leaves every reference
\* produced before it is used, and no variable with a second producer.
LEMMA SavedResolved ==
  ASSUME UnsetIsNoName, ChainInvariant, NEW r \in CommandIds, NEW v \in CommandRows!Values,
         command' = [command EXCEPT ![r] = v], Accepted(CommandRows!Siblings(r, v), v)
  PROVE  /\ CommandRows!Resolved(v.procedure)'
         /\ CommandRows!OneProducer(v.procedure) => CommandRows!OneProducer(v.procedure)'
<1>. DEFINE S == CommandRows!Siblings(r, v)
            p == v.procedure
<1>1. /\ DOMAIN CommandRows!Commands(p)' = DOMAIN S \union {r}
      /\ command'[r] = v
      /\ \A s \in DOMAIN S : s # r /\ command'[s] = command[s] /\ S[s] = command[s]
          /\ s \in DOMAIN CommandRows!Commands(p)
      /\ \A s \in DOMAIN CommandRows!Commands(p)' : CommandRows!Commands(p)'[s] = command'[s]
  BY Saved, ZenonT(30)
<1>2. /\ v.refs \subseteq CommandRows!ProducedBefore(S, v.sequence)
      /\ v.produces_var # Unset => \A s \in DOMAIN S : S[s].produces_var # v.produces_var
      /\ \A s \in DOMAIN S : S[s].refs \subseteq CommandRows!ProducedBefore(S, S[s].sequence)
                           \union (IF v.sequence < S[s].sequence THEN {v.produces_var} ELSE {})
  BY Zenon DEF Accepted, CommandRows!ValidRefs, CommandRows!ValidCapture, CommandRows!ChainConsistent
<1>3. ASSUME NEW s \in DOMAIN S PROVE S[s].refs \subseteq Names
  <2>1. S[s] = command[s] /\ s \in CommandIds /\ command[s] # Unset
    BY <1>3, <1>1, Zenon DEF CommandRows!Siblings, CommandRows!Commands
  <2>. QED BY <2>1, Zenon DEF ChainInvariant, CommandRows!Values
<1>. HIDE DEF S
<1>4. ASSUME NEW new, new = CommandRows!Commands(p)', NEW n, NEW x,
             \/ x \in CommandRows!ProducedBefore(S, n)
             \/ x = v.produces_var /\ x # Unset /\ v.sequence < n
      PROVE  x \in CommandRows!ProducedBefore(new, n)
  <2>1. DOMAIN new = DOMAIN S \union {r} /\ new[r] = v /\ \A s \in DOMAIN S : new[s] = S[s]
    BY <1>1, <1>4, Zenon
  <2>. QED BY <1>4, <2>1, ZenonT(30) DEF CommandRows!ProducedBefore
<1>5. CommandRows!Resolved(p)'
  <2>. SUFFICES ASSUME NEW new, new = CommandRows!Commands(p)', NEW s \in DOMAIN new,
           NEW x \in command'[s].refs
                PROVE  x \in CommandRows!ProducedBefore(new, command'[s].sequence)
    BY ZenonT(30) DEF CommandRows!Resolved
  <2>1. CASE s = r
    BY <2>1, <1>1, <1>2, <1>4, ZenonT(30)
  <2>2. CASE s \in DOMAIN S
    <3>1. command'[s] = S[s] /\ x # Unset
      BY <2>2, <1>1, <1>3 DEF UnsetIsNoName
    <3>2. \/ x \in CommandRows!ProducedBefore(S, S[s].sequence)
          \/ x = v.produces_var /\ v.sequence < S[s].sequence
      BY <2>2, <3>1, <1>2, ZenonT(30)
    <3>. QED BY <3>1, <3>2, <1>4, ZenonT(30)
  <2>. QED BY <2>1, <2>2, <1>1, ZenonT(30)
<1>6. CommandRows!OneProducer(p) => CommandRows!OneProducer(p)'
  <2>. SUFFICES ASSUME CommandRows!OneProducer(p), NEW D, D = DOMAIN CommandRows!Commands(p)',
                       NEW a \in D, NEW b \in D, a # b, command'[a].produces_var # Unset
                PROVE  command'[a].produces_var # command'[b].produces_var
    BY Zenon DEF CommandRows!OneProducer
  <2>1. CASE a = r
    <3>1. b \in DOMAIN S
      BY <2>1, <1>1, Zenon
    <3>2. command'[b] = S[b] /\ command'[a] = v
      BY <2>1, <3>1, <1>1, Zenon
    <3>. QED BY <3>1, <3>2, <1>2, Zenon
  <2>2. CASE b = r
    <3>1. a \in DOMAIN S
      BY <2>2, <1>1, Zenon
    <3>2. command'[a] = S[a] /\ command'[b] = v
      BY <2>2, <3>1, <1>1, Zenon
    <3>. QED BY <3>1, <3>2, <1>2, Zenon
  <2>3. CASE a # r /\ b # r
    <3>1. a \in DOMAIN S /\ b \in DOMAIN S
      BY <2>3, <1>1, Zenon
    <3>2. /\ a \in DOMAIN CommandRows!Commands(p) /\ b \in DOMAIN CommandRows!Commands(p)
          /\ command'[a] = command[a] /\ command'[b] = command[b]
      BY <3>1, <1>1, Zenon
    <3>3. \A x, y \in DOMAIN CommandRows!Commands(p) :
            x # y /\ command[x].produces_var # Unset
              => command[x].produces_var # command[y].produces_var
      BY Zenon DEF CommandRows!OneProducer
    <3>. QED BY <3>2, <3>3, Zenon
  <2>. QED BY <2>1, <2>2, <2>3, Zenon
<1>. QED BY <1>5, <1>6, Zenon

\* For any number of procedures, commands and editors, a save that finds the
\* commands it was validated against leaves the procedure resolved, and any save
\* leaves its commands in an order.
THEOREM SaveResolvesHolds == UnsetIsNoName => (CommandRows!Spec => SaveResolves)
<1>. SUFFICES ASSUME UnsetIsNoName PROVE CommandRows!Spec => SaveResolves
  BY Zenon
<1>1. CommandRows!Init => ChainInvariant
  BY Zenon DEF CommandRows!Init, ChainInvariant, CommandRows!Ordered, CommandRows!Commands
<1>2. ChainInvariant /\ [CommandRows!Next]_CommandRows!vars => ChainInvariant'
  <2>. SUFFICES ASSUME ChainInvariant, [CommandRows!Next]_CommandRows!vars PROVE ChainInvariant'
    BY Zenon
  <2>1. ASSUME NEW e \in CommandEditors, CommandRows!Store(e) PROVE ChainInvariant'
    <3>. DEFINE r == pending[e].row
                v == pending[e].value
    <3>1. r \in CommandIds /\ v \in CommandRows!Values
      BY <2>1, Zenon DEF ChainInvariant, CommandRows!Store
    <3>2. \/ command' = command
          \/ command' = [command EXCEPT ![r] = v]
              /\ CommandRows!SequenceFree(CommandRows!Siblings(r, v), v)
      BY <2>1, Zenon DEF CommandRows!Store
    <3>3. \A p \in ProcedureIds : CommandRows!Ordered(p)'
      <4>1. CASE command' = command
        BY <4>1 DEF ChainInvariant, CommandRows!Ordered, CommandRows!Commands
      <4>2. CASE command' = [command EXCEPT ![r] = v]
                /\ CommandRows!SequenceFree(CommandRows!Siblings(r, v), v)
        BY <4>2, <3>1, SavedInOrder, Zenon
      <4>. QED BY <3>2, <4>1, <4>2, Zenon
    <3>4. command' \in [CommandIds -> CommandRows!Values \union {Unset}]
      BY <3>1, <3>2, Zenon DEF ChainInvariant
    <3>5. pending' = [pending EXCEPT ![e] = Unset]
      BY <2>1, Zenon DEF CommandRows!Store
    <3>. QED BY <3>3, <3>4, <3>5, Zenon DEF ChainInvariant
  <2>2. ASSUME NEW e \in CommandEditors, NEW r \in CommandIds, CommandRows!Delete(e, r)
            PROVE ChainInvariant'
    <3>1. command' = [command EXCEPT ![r] = Unset] /\ pending' = pending
      BY <2>2, Zenon DEF CommandRows!Delete
    <3>2. \A s \in CommandIds : command'[s] = Unset \/ command'[s] = command[s]
      BY <3>1, Zenon DEF ChainInvariant
    <3>3. \A p \in ProcedureIds : CommandRows!Ordered(p)'
      BY <3>2 DEF ChainInvariant, CommandRows!Ordered, CommandRows!Commands
    <3>. QED BY <3>1, <3>3, Zenon DEF ChainInvariant
  <2>3. ASSUME NEW e \in CommandEditors, NEW r \in CommandIds, NEW v \in CommandRows!Values,
            CommandRows!Clean(e, r, v)
        PROVE  ChainInvariant'
    <3>1. PICK S : Accepted(S, v) /\
                     pending' = [pending EXCEPT ![e] = [row |-> r, value |-> v, read |-> S]]
      BY <2>3, Zenon DEF CommandRows!Clean, Accepted
    <3>2. command' = command
      BY <2>3, Zenon DEF CommandRows!Clean
    <3>3. \A p \in ProcedureIds : CommandRows!Ordered(p)'
      BY <3>2 DEF ChainInvariant, CommandRows!Ordered, CommandRows!Commands
    <3>. QED BY <3>1, <3>2, <3>3, Zenon DEF ChainInvariant
  <2>4. CASE UNCHANGED CommandRows!vars
    BY <2>4 DEF CommandRows!vars, ChainInvariant, CommandRows!Ordered, CommandRows!Commands
  <2>. QED BY <2>1, <2>2, <2>3, <2>4, Zenon DEF CommandRows!Next
<1>3. ASSUME ChainInvariant, ChainInvariant', [CommandRows!Next]_CommandRows!vars
      PROVE  [\A e \in CommandEditors, p \in ProcedureIds :
       /\ pending[e] # Unset /\ pending'[e] = Unset /\ command' # command
       /\ p = pending[e].value.procedure
       => /\ CommandRows!Ordered(p)'
          /\ pending[e].read = CommandRows!Siblings(pending[e].row, pending[e].value) =>
               CommandRows!Resolved(p)' /\ (CommandRows!OneProducer(p)
                   => CommandRows!OneProducer(p)')]_CommandRows!vars
  <2>. SUFFICES ASSUME NEW e \in CommandEditors, NEW p \in ProcedureIds,
                       pending[e] # Unset, pending'[e] = Unset, command' # command,
                       p = pending[e].value.procedure,
                       pending[e].read = CommandRows!Siblings(pending[e].row, pending[e].value)
                PROVE  CommandRows!Resolved(p)' /\ (CommandRows!OneProducer(p)
                    => CommandRows!OneProducer(p)')
    BY <1>3, Zenon DEF ChainInvariant
  <2>. DEFINE r == pending[e].row
              v == pending[e].value
  <2>1. CommandRows!Store(e)
    <3>1. \A f \in CommandEditors : f # e /\ CommandRows!Store(f) => pending'[e] = pending[e]
      BY <1>3, Zenon DEF CommandRows!Store, ChainInvariant
    <3>2. \A f \in CommandEditors, s \in CommandIds : ~CommandRows!Delete(f, s)
      BY Zenon DEF CommandRows!Delete
    <3>3. \A f \in CommandEditors, s \in CommandIds, w \in CommandRows!Values :
              ~CommandRows!Clean(f, s, w)
      BY Zenon DEF CommandRows!Clean
    <3>. QED BY <3>1, <3>2, <3>3, <1>3, Zenon DEF CommandRows!Next, CommandRows!vars
  <2>2. command' = [command EXCEPT ![r] = v]
    BY <2>1, Zenon DEF CommandRows!Store
  <2>3. r \in CommandIds /\ v \in CommandRows!Values /\ Accepted(CommandRows!Siblings(r, v), v)
    BY <1>3, Zenon DEF ChainInvariant
  <2>. QED BY <1>3, <2>2, <2>3, SavedResolved, ZenonT(30)
<1>. QED BY <1>1, <1>2, <1>3, PTL DEF CommandRows!Spec, SaveResolves, CommandRows!SaveResolves

-----------------------------------------------------------------------------
(* DriverChain: the transport policy, its editors and a normalisation.     *)

\* The drivers of transport.py.
Vocabulary == Policy!LinuxShell \union
                {"ansible-network", "netmiko", "scrapli", "napalm", "nornir"}
\* What a procedure row says about its transport.
ProcedureRows == [chain : Chains, pinned : BOOLEAN,
                  driver : {"ansible", "asyncssh", "paramiko", "ansible-network", "netmiko"}]
\* Chains are sequences of drivers; the seeded ones are among them.
ChainsAreChains ==
  /\ Chains \subseteq Seq(Vocabulary)
  /\ {<<>>, <<"ansible">>, <<"ansible-network">>} \subseteq Chains
  /\ Unset \notin Policy!Row
  /\ MaxSaves \in Nat

\* What normalisation may read: nothing, or a row that clean() accepted.
Usable(values) == values = Unset \/ (values \in Policy!Row /\ Policy!Clean(values))
\* Chain and connection settings are those of the one row that was read.
PolicyInvariant ==
  /\ Policy!RunsOnOnePolicy
  /\ copy \in [Policy!Editors -> {Unset} \union Policy!Row]
  /\ procedure \in ProcedureRows
  /\ Usable(policy)
  /\ stage # "idle" => policy \in during
  /\ chain = IF stage \in {"context", "done"}
             THEN Policy!ResolveDriverChain(procedure, policy) ELSE <<>>
  /\ stage = "done" => context = Policy!AnsibleContext(chain, policy)

\* A chain with one more driver.
LEMMA OneLonger ==
  ASSUME NEW s \in Seq(Vocabulary), NEW x \in Vocabulary, NEW r, r = Append(s, x)
  PROVE  /\ r \in Seq(Vocabulary) /\ DOMAIN r = DOMAIN s \union {Len(s) + 1}
         /\ r[Len(s) + 1] = x /\ \A i \in DOMAIN s : r[i] = s[i]
OBVIOUS

\* What the procedure falls back to is of its own capability and needs no Ansible.
LEMMA ResolvedChain ==
  ASSUME ChainsAreChains, NEW values, Usable(values),
         NEW proc \in ProcedureRows,
         proc.chain = <<>>,
         Policy!ResolveDriverChain(proc, values) # <<>>
  PROVE  LET ch == Policy!ResolveDriverChain(proc, values)
         IN /\ Policy!Has(ch, {proc.driver})
            /\ ~(Policy!Range(ch) \subseteq Policy!Ansible)
            /\ \A i \in DOMAIN ch : Policy!Capability(ch[i]) = Policy!Capability(proc.driver)
<1>. DEFINE c == Policy!Capability(proc.driver)
            default == Policy!DefaultChainFor(values, c)
            own == IF Policy!Has(default, {proc.driver}) THEN default
                   ELSE Append(default, proc.driver)
            ch == IF Policy!Range(own) \subseteq Policy!Ansible
                  THEN Append(own, Policy!RawDefault(c)) ELSE own
<1>1. values # Unset /\ default # <<>> /\ Policy!ResolveDriverChain(proc, values) = ch
  BY Zenon DEF Policy!ResolveDriverChain
<1>2. c \in {"linux_shell", "network_cli"}
  BY Zenon DEF Policy!Capability
<1>3. default \in Seq(Vocabulary) /\ \A i \in DOMAIN default : Policy!Capability(default[i]) = c
  BY <1>1, <1>2, Zenon DEF Usable, ChainsAreChains, Policy!Row, Policy!Clean, Policy!DefaultChainFor
<1>4. proc.driver \in Vocabulary
  BY Zenon DEF Vocabulary, ProcedureRows, Policy!LinuxShell
<1>. HIDE DEF default
<1>5. /\ own \in Seq(Vocabulary)
      /\ \E i \in DOMAIN own : own[i] = proc.driver
      /\ \A i \in DOMAIN own : Policy!Capability(own[i]) = c
  <2>1. CASE Policy!Has(default, {proc.driver})
    BY <2>1, <1>3, Zenon DEF Policy!Has
  <2>2. CASE ~Policy!Has(default, {proc.driver})
    <3>1. own = Append(default, proc.driver)
      BY <2>2, Zenon
    <3>2. /\ DOMAIN own = DOMAIN default \union {Len(default) + 1}
          /\ own[Len(default) + 1] = proc.driver /\ \A i \in DOMAIN default : own[i] = default[i]
          /\ own \in Seq(Vocabulary)
      BY <3>1, <1>3, <1>4, OneLonger
    <3>. HIDE DEF own
    <3>3. ASSUME NEW i \in DOMAIN own PROVE Policy!Capability(own[i]) = c
      <4>1. CASE i \in DOMAIN default
        <5>1. own[i] = default[i] /\ Policy!Capability(default[i]) = c
          BY <4>1, <3>2, <1>3, Zenon
        <5>. QED BY <5>1, Zenon
      <4>2. CASE i = Len(default) + 1
        <5>1. own[i] = proc.driver
          BY <4>2, <3>2, Zenon
        <5>. QED BY <5>1, Zenon
      <4>. QED BY <3>2, <4>1, <4>2, Zenon
    <3>4. Len(default) + 1 \in DOMAIN own
      BY <3>2, Zenon
    <3>5. \E i \in DOMAIN own : own[i] = proc.driver
      BY <3>2, <3>4, Zenon
    <3>. QED BY <3>2, <3>3, <3>5, Zenon
  <2>. QED BY <2>1, <2>2, ZenonT(30)
<1>. HIDE DEF own
<1>6. LET r == Policy!RawDefault(c) IN r \in Vocabulary /\ r \notin Policy!Ansible
          /\ Policy!Capability(r) = c
  BY <1>2, Zenon DEF Vocabulary, Policy!RawDefault, Policy!Ansible, Policy!Capability, Policy!LinuxShell
<1>. HIDE DEF c
<1>7. CASE Policy!Range(own) \subseteq Policy!Ansible
  <2>1. ch = Append(own, Policy!RawDefault(c))
    BY <1>7, Zenon
  <2>2. /\ DOMAIN ch = DOMAIN own \union {Len(own) + 1} /\ ch[Len(own) + 1] = Policy!RawDefault(c)
        /\ \A i \in DOMAIN own : ch[i] = own[i]
    BY <2>1, <1>5, <1>6, OneLonger
  <2>. HIDE DEF ch
  <2>3. \A i \in DOMAIN ch : Policy!Capability(ch[i]) = c
    BY <2>2, <1>5, <1>6, Zenon
  <2>4. Policy!Has(ch, {proc.driver})
    BY <2>2, <1>5, Zenon DEF Policy!Has
  <2>5. Len(own) + 1 \in DOMAIN ch /\ ch[Len(own) + 1] \notin Policy!Ansible
    BY <2>2, <1>6, Zenon
  <2>6. ~(Policy!Range(ch) \subseteq Policy!Ansible)
    BY <2>5, Zenon DEF Policy!Range
  <2>. QED BY <2>3, <2>4, <2>6, <1>1, Zenon DEF c
<1>8. CASE ~(Policy!Range(own) \subseteq Policy!Ansible)
  BY <1>8, <1>1, <1>5 DEF Policy!Has, c
<1>. QED BY <1>7, <1>8, Zenon

\* For any chains, editors and saves, a run uses one policy that was stored while it
\* was normalised, and a chain the policy gave has a driver that needs no Ansible.
THEOREM RunsOnOnePolicyHolds == ChainsAreChains => (Policy!Spec => []RunsOnOnePolicy)
<1>. SUFFICES ASSUME ChainsAreChains PROVE Policy!Spec => []RunsOnOnePolicy
  BY Zenon
<1>0. Unset \notin Policy!Row /\ \A r \in {Policy!Default} \union Policy!Seeded : r \in Policy!Row /\ Policy!Clean(r)
  <2>1. \A r \in {Policy!Default} \union Policy!Seeded :
          /\ r \in Policy!Row /\ r.linux \in {<<>>, <<"ansible">>}
          /\ r.network \in {<<>>, <<"ansible-network">>}
    <3>1. /\ <<>> \in Chains /\ <<"ansible">> \in Chains /\ <<"ansible-network">> \in Chains
          /\ 0 \in 0..2 /\ 1 \in 0..2
      BY DEF ChainsAreChains
    <3>2. Policy!Default \in Policy!Row /\ Policy!Default.linux = <<>>
              /\ Policy!Default.network = <<>>
      BY <3>1, Zenon DEF Policy!Row, Policy!Default
    <3>3. ASSUME NEW m \in {0, 1},
                 NEW r, r = [Policy!Default EXCEPT !.linux = <<"ansible">>,
                                                   !.network = <<"ansible-network">>, !.map = m]
          PROVE  r \in Policy!Row /\ r.linux = <<"ansible">> /\ r.network = <<"ansible-network">>
      BY <3>1, <3>3, ZenonT(30) DEF Policy!Row, Policy!Default
    <3>. QED BY <3>2, <3>3, Zenon DEF Policy!Seeded
  <2>. QED BY <2>1 DEF ChainsAreChains, Policy!Clean, Policy!Capability, Policy!LinuxShell
<1>1. Policy!Init => PolicyInvariant
  <2>. SUFFICES ASSUME Policy!Init PROVE PolicyInvariant
    BY Zenon
  <2>1. Policy!TypeOK
    BY <1>0 DEF Policy!Init, Policy!TypeOK
  <2>2. Policy!OnePolicy /\ Policy!RawFallback
    BY Zenon DEF Policy!Init, Policy!OnePolicy, Policy!RawFallback
  <2>. QED BY <2>1, <2>2, <1>0, Zenon DEF Policy!Init, PolicyInvariant, Policy!RunsOnOnePolicy, Usable,
           ChainsAreChains, ProcedureRows
<1>2. PolicyInvariant /\ [Policy!Next]_Policy!vars => PolicyInvariant'
  <2>. SUFFICES ASSUME PolicyInvariant, [Policy!Next]_Policy!vars PROVE PolicyInvariant'
    BY Zenon
  <2>a. ASSUME UNCHANGED <<procedure, platform, stage, policy, chain, context>>,
               Usable(transport'), copy' \in [Policy!Editors -> {Unset} \union Policy!Row],
               stage # "idle" => during \subseteq during'
        PROVE PolicyInvariant'
    <3>1. Policy!TypeOK'
      BY <2>a, Zenon DEF PolicyInvariant, Policy!RunsOnOnePolicy, Policy!TypeOK, Usable
    <3>2. Policy!OnePolicy'
      BY <2>a, Zenon DEF PolicyInvariant, Policy!RunsOnOnePolicy, Policy!OnePolicy, Policy!AnsibleContext
    <3>. QED BY <3>1, <3>2, <2>a, ZenonT(30) DEF PolicyInvariant, Policy!RunsOnOnePolicy,
             Policy!RawFallback,
             Usable, Policy!AnsibleContext
  <2>b. \A e \in Policy!Editors, values \in Policy!Row : Policy!Save(e, values)
            => PolicyInvariant'
    <3>. SUFFICES ASSUME NEW e \in Policy!Editors, NEW values \in Policy!Row,
                         Policy!Save(e, values)
                  PROVE  PolicyInvariant'
      BY Zenon
    <3>1. Usable(transport') /\ (stage # "idle" => during \subseteq during')
      BY Zenon DEF Policy!Save, Policy!Stored, Usable, PolicyInvariant, Policy!RunsOnOnePolicy,
          Policy!TypeOK
    <3>2. UNCHANGED <<procedure, platform, stage, policy, chain, context>>
           /\ copy' \in [Policy!Editors -> {Unset} \union Policy!Row]
      BY Zenon DEF Policy!Save, Policy!normalising, PolicyInvariant
    <3>. QED BY <3>1, <3>2, <2>a, Zenon
  <2>1. ASSUME NEW e \in Policy!Editors, Policy!Load(e) PROVE PolicyInvariant'
    <3>1. Usable(transport') /\ (stage # "idle" => during \subseteq during')
          /\ transport' \in Policy!Row
      BY <2>1, <1>0, Zenon DEF Policy!Load, Policy!Stored, Usable, PolicyInvariant,
          Policy!RunsOnOnePolicy, Policy!TypeOK
    <3>2. UNCHANGED <<procedure, platform, stage, policy, chain, context>>
           /\ copy' \in [Policy!Editors -> {Unset} \union Policy!Row]
      BY <2>1, <3>1, Zenon DEF Policy!Load, Policy!normalising, PolicyInvariant
    <3>. QED BY <3>1, <3>2, <2>a, Zenon
  <2>2. ASSUME NEW e \in Forms, Policy!EditPolicy(e) PROVE PolicyInvariant'
    <3>1. e \in Policy!Editors /\ copy[e] \in Policy!Row
      BY <2>2, Zenon DEF Policy!EditPolicy, Policy!Editors, PolicyInvariant
    <3>2. PICK values \in Policy!Row : Policy!Save(e, values)
      <4>2. CASE \E ch \in Chains : Policy!Save(e, [copy[e] EXCEPT !.linux = ch])
        <5>1. PICK ch \in Chains : Policy!Save(e, [copy[e] EXCEPT !.linux = ch])
          BY <4>2, Zenon
        <5>2. [copy[e] EXCEPT !.linux = ch] \in Policy!Row
          BY <3>1, Zenon DEF Policy!Row
        <5>. QED BY <5>1, <5>2, Zenon
      <4>3. CASE \E ch \in Chains : Policy!Save(e, [copy[e] EXCEPT !.network = ch])
        <5>1. PICK ch \in Chains : Policy!Save(e, [copy[e] EXCEPT !.network = ch])
          BY <4>3, Zenon
        <5>2. [copy[e] EXCEPT !.network = ch] \in Policy!Row
          BY <3>1, Zenon DEF Policy!Row
        <5>. QED BY <5>1, <5>2, Zenon
      <4>4. CASE \E m \in 0..2 : Policy!Save(e, [copy[e] EXCEPT !.map = m])
        <5>1. PICK m \in 0..2 : Policy!Save(e, [copy[e] EXCEPT !.map = m])
          BY <4>4, Zenon
        <5>2. [copy[e] EXCEPT !.map = m] \in Policy!Row
          BY <3>1, Zenon DEF Policy!Row
        <5>. QED BY <5>1, <5>2, Zenon
      <4>. QED BY <4>2, <4>3, <4>4, <2>2, Zenon DEF Policy!EditPolicy
    <3>. QED BY <3>1, <3>2, <2>b, Zenon
  <2>3. ASSUME NEW e \in SettingsCommands, Policy!Toggle(e) PROVE PolicyInvariant'
    <3>1. e \in Policy!Editors /\ copy[e] \in Policy!Row
      BY <2>3, Zenon DEF Policy!Toggle, Policy!Editors, PolicyInvariant
    <3>2. [copy[e] EXCEPT !.enabled = ~@] \in Policy!Row
      BY <3>1, ZenonT(30) DEF Policy!Row
    <3>. QED BY <3>1, <3>2, <2>3, <2>b, Zenon DEF Policy!Toggle
  <2>4. CASE Policy!ReadPolicy
    <3>1. chain' = <<>> /\ stage' = "chain" /\ policy' \in during' /\ Usable(policy)'
      BY <2>4, Zenon DEF Policy!ReadPolicy, PolicyInvariant, Usable, Policy!RunsOnOnePolicy,
          Policy!TypeOK
    <3>. QED BY <3>1, <2>4, Zenon DEF Policy!ReadPolicy, PolicyInvariant, Policy!RunsOnOnePolicy,
             Policy!TypeOK, Policy!OnePolicy, Policy!RawFallback, Policy!editing
  <2>5. CASE Policy!Resolve
    <3>1. chain' = Policy!ResolveDriverChain(procedure, policy) /\ stage' = "context"
          /\ UNCHANGED <<procedure, policy, platform, context, during, transport, copy>>
      BY <2>5, Zenon DEF Policy!Resolve, Policy!editing
    <3>2. Policy!RawFallback'
      <4>1. /\ Usable(policy)
            /\ procedure \in ProcedureRows
        BY Zenon DEF PolicyInvariant
      <4>2. ASSUME NEW ch, ch = Policy!ResolveDriverChain(procedure, policy),
                procedure.chain = <<>>, ch # <<>>
            PROVE  /\ Policy!Has(ch, {procedure.driver})
                   /\ ~(Policy!Range(ch) \subseteq Policy!Ansible)
                   /\ \A i \in DOMAIN ch : Policy!Capability(ch[i]) = Policy!Capability(procedure.driver)
        BY <4>1, <4>2, ResolvedChain, ZenonT(30)
      <4>. QED BY <4>2, <3>1, Zenon DEF Policy!RawFallback
    <3>3. stage = "chain"
      BY <2>5, Zenon DEF Policy!Resolve
    <3>4. chain' = Policy!ResolveDriverChain(procedure', policy')
      BY <3>1, Zenon
    <3>5. Policy!TypeOK' /\ Policy!OnePolicy'
      BY <3>1, Zenon DEF PolicyInvariant, Policy!RunsOnOnePolicy, Policy!TypeOK, Policy!OnePolicy
    <3>. QED BY <3>1, <3>2, <3>3, <3>4, <3>5 DEF PolicyInvariant, Policy!RunsOnOnePolicy, Usable
  <2>6. CASE Policy!ApplyContext
    <3>1. /\ stage = "context" /\ stage' = "done"
          /\ context' = Policy!AnsibleContext(chain, policy)
          /\ UNCHANGED <<procedure, policy, platform, chain, during, transport, copy>>
      BY <2>6, Zenon DEF Policy!ApplyContext, Policy!editing
    <3>2. context' = Policy!AnsibleContext(chain, policy)'
      BY <3>1, Zenon DEF Policy!AnsibleContext
    <3>3. context' \in 0..2
      BY <3>1 DEF Policy!AnsibleContext, PolicyInvariant, Usable, Policy!Row
    <3>4. Policy!OnePolicy'
      <4>1. /\ policy' \in during' /\ chain' = Policy!ResolveDriverChain(procedure, policy)'
        BY <3>1, Zenon DEF PolicyInvariant
      <4>. QED BY <4>1, <3>2, Zenon DEF Policy!OnePolicy
    <3>. QED BY <3>1, <3>2, <3>3, <3>4, ZenonT(30) DEF PolicyInvariant, Policy!RunsOnOnePolicy,
             Policy!TypeOK, Policy!RawFallback, Usable
  <2>7. CASE Policy!Again
    <3>1. /\ stage' = "idle" /\ policy' = Unset /\ chain' = <<>> /\ context' = 0
          /\ UNCHANGED <<procedure, platform, transport, copy>>
      BY <2>7, Zenon DEF Policy!Again, Policy!editing
    <3>2. Policy!OnePolicy' /\ Policy!RawFallback'
      BY <3>1, Zenon DEF Policy!OnePolicy, Policy!RawFallback
    <3>3. Policy!TypeOK'
      BY <3>1 DEF PolicyInvariant, Policy!RunsOnOnePolicy, Policy!TypeOK
    <3>. QED BY <3>1, <3>2, <3>3, Zenon DEF PolicyInvariant, Policy!RunsOnOnePolicy, Usable
  <2>8. CASE UNCHANGED Policy!vars
    BY <2>8, <2>a, ZenonT(30) DEF Policy!vars, PolicyInvariant, Policy!RunsOnOnePolicy, Policy!TypeOK, Usable
  <2>. QED BY <2>1, <2>2, <2>3, <2>4, <2>5, <2>6, <2>7, <2>8, Zenon DEF Policy!Next
<1>3. PolicyInvariant => RunsOnOnePolicy
  BY Zenon DEF PolicyInvariant, RunsOnOnePolicy
<1>. QED BY <1>1, <1>2, <1>3, PTL DEF Policy!Spec
=============================================================================
