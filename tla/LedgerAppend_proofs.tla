------------------------ MODULE LedgerAppend_proofs ------------------------
(***************************************************************************)
(* Machine-checked proofs about LedgerAppend, for any finite sets of       *)
(* locking and non-locking writers, any number of events per transaction   *)
(* and any number of attempts.                                             *)
(***************************************************************************)
EXTENDS LedgerAppend, FiniteSetTheorems, TLAPS

-----------------------------------------------------------------------------
(* Facts about sequences.                                                  *)

\* Sequences with the same elements are equal.
LEMMA SeqEqual ==
  ASSUME NEW S, NEW s \in Seq(S), NEW t \in Seq(S),
         Len(s) = Len(t), \A i \in 1..Len(s) : s[i] = t[i]
  PROVE  s = t
<1>1. s = [i \in 1..Len(s) |-> s[i]]
  OBVIOUS
<1>2. t = [i \in 1..Len(t) |-> t[i]]
  OBVIOUS
<1>. QED BY <1>1, <1>2, Zenon

\* The elements of a concatenation.
LEMMA ConcatElements ==
  ASSUME NEW S, NEW s \in Seq(S), NEW t \in Seq(S)
  PROVE  /\ s \o t \in Seq(S)
         /\ Len(s \o t) = Len(s) + Len(t)
         /\ \A i \in 1..Len(s) + Len(t) :
              (s \o t)[i] = IF i <= Len(s) THEN s[i] ELSE t[i - Len(s)]
OBVIOUS

-----------------------------------------------------------------------------
(* What the invariant says about one transaction.                          *)

\* The part of the invariant that speaks of one writer.
WriterInvariant(w) ==
    /\ pend[w] = (Length + 1)..(Length + Held(w))
    /\ pc[w] \in {"project", "commit"} => pend[w] # {}
    /\ pc[w] \in Ended \cup {"begin"} => pend[w] = {} /\ rowLock # w
    /\ pc[w] \in {"read", "insert"} => Held(w) < Size[w]
    /\ pc[w] = "project" => Held(w) <= Size[w]
    /\ pc[w] = "commit" => Held(w) = Size[w]
    /\ pc[w] = "insert" =>
          /\ seq[w] \in 1..(Length + Held(w) + 1)
          /\ pend[w] # {} => seq[w] = Length + Held(w) + 1
    /\ pc[w] \in Statements => tries[w] < Attempts
    /\ w \in Locked /\ pc[w] \in Statements \ {"begin"} => rowLock = w
    /\ w \in Unlocked /\ rowLock = w => pend[w] # {}
    /\ pc[w] # "done" => \A s \in DOMAIN ledger : ledger[s] # w

\* The invariant is the global part and the part of every writer.
LEMMA InvariantParts ==
    LedgerInvariant <=> /\ TypeOK /\ Dense /\ OneInFlight
                        /\ \A w \in Writers : WriterInvariant(w)
BY Zenon DEF LedgerInvariant, WriterInvariant

\* Committed and held events are counted by natural numbers.
LEMMA Counts ==
    ASSUME LedgerInvariant, NEW w \in Writers
    PROVE  /\ Length \in Nat
           /\ Held(w) \in Nat
           /\ DOMAIN ledger = 1..Length
           /\ pend[w] = (Length + 1)..(Length + Held(w))
           /\ pend[w] = {} <=> Held(w) = 0
<1>1. Length \in Nat /\ Held(w) \in Nat
  BY FS_CardinalityType, Zenon DEF LedgerInvariant, TypeOK, Length, Held
<1>2. DOMAIN ledger = 1..Length /\ pend[w] = (Length + 1)..(Length + Held(w))
  BY Zenon DEF LedgerInvariant, Dense, Length
<1> QED
  BY <1>1, <1>2

\* An interval is counted by its length.
LEMMA IntervalCount ==
    ASSUME NEW m \in Nat, NEW k \in Nat
    PROVE  /\ IsFiniteSet((m + 1)..(m + k))
           /\ Cardinality((m + 1)..(m + k)) = k
           /\ IsFiniteSet(1..m)
           /\ Cardinality(1..m) = m
<1>1. /\ IsFiniteSet((m + 1)..(m + k))
      /\ Cardinality((m + 1)..(m + k)) = IF m + 1 > m + k THEN 0 ELSE (m + k) - (m + 1) + 1
  <2> m + 1 \in Int /\ m + k \in Int
    OBVIOUS
  <2> QED
    BY FS_Interval, Zenon
<1>2. /\ IsFiniteSet(1..m)
      /\ Cardinality(1..m) = IF 1 > m THEN 0 ELSE m - 1 + 1
  <2> 1 \in Int /\ m \in Int
    OBVIOUS
  <2> QED
    BY FS_Interval, Zenon
<1> QED
  BY <1>1, <1>2

\* The maximum of an initial segment of the naturals is its end.
LEMMA SegmentMax ==
    ASSUME NEW n \in Nat
    PROVE  Max((1..n) \cup {0}) = n
BY DEF Max

\* The sequence that is read follows the committed and the own events.
LEMMA NextSequence ==
    ASSUME LedgerInvariant, NEW w \in Writers
    PROVE  NextEventSequence(w) = Length + Held(w) + 1
<1>1. Visible(w) = 1..(Length + Held(w))
  BY Counts DEF Visible
<1> QED
  BY <1>1, SegmentMax, Counts DEF NextEventSequence

-----------------------------------------------------------------------------
(* The invariant is inductive.                                             *)

\* Nothing is committed or held at the start.
LEMMA InitInvariant == Init => LedgerInvariant
<1> SUFFICES ASSUME Init  PROVE LedgerInvariant
  BY Zenon
<1>1. DOMAIN ledger = {} /\ Length = 0 /\ \A w \in Writers : Held(w) = 0
  BY FS_EmptySet DEF Init, Length, Held
<1>2. TypeOK
  BY <1>1, FS_EmptySet, AttemptsAssumption DEF Init, TypeOK, Statements
<1> QED
  BY <1>1, <1>2, SizeAssumption, AttemptsAssumption, WritersAssumption
     DEF Init, LedgerInvariant, Dense, OneInFlight, Length, Ended, Statements

\* Steps that change neither the ledger nor what a transaction holds keep
\* the global part and the counts.
LEMMA CountsKept ==
    ASSUME UNCHANGED <<ledger, pend>>
    PROVE  /\ Length' = Length
           /\ \A w \in Writers : Held(w)' = Held(w)
           /\ Dense => Dense'
           /\ OneInFlight => OneInFlight'
BY Zenon DEF Length, Held, Dense, OneInFlight

\* Locking or opening a transaction.
LEMMA BeginStep ==
    ASSUME LedgerInvariant, NEW u \in Writers, Begin(u)
    PROVE  LedgerInvariant'
<1>1. TypeOK'
  BY WritersAssumption, Zenon DEF LedgerInvariant, TypeOK, Begin, Goto, Statements
<1>2. Held(u) = 0 /\ 0 < Size[u] /\ Length \in Nat
  BY Counts, SizeAssumption DEF LedgerInvariant, Begin
<1>3. ASSUME NEW w \in Writers  PROVE WriterInvariant(w)'
  <2>1. WriterInvariant(w)
    BY InvariantParts, Zenon
  <2>2. pc'[u] = "read" /\ (w # u => pc'[w] = pc[w])
    BY DEF Begin, Goto, LedgerInvariant, TypeOK
  <2>3. rowLock = w => rowLock' = w
    BY <2>1, WritersAssumption, Zenon DEF Begin, RowFree, WriterInvariant
  <2>4. rowLock' = w => rowLock = w \/ (w = u /\ w \in Locked)
    BY Zenon DEF Begin
  <2> QED
    BY <1>2, <2>1, <2>2, <2>3, <2>4, CountsKept, WritersAssumption, Zenon
       DEF WriterInvariant, Begin, Ended, Statements
<1>4. Dense' /\ OneInFlight'
  BY CountsKept, Zenon DEF Begin, LedgerInvariant
<1> QED
  BY <1>1, <1>3, <1>4, Zenon DEF LedgerInvariant, WriterInvariant

\* Reading the latest sequence.
LEMMA ReadStep ==
    ASSUME LedgerInvariant, NEW u \in Writers, Read(u)
    PROVE  LedgerInvariant'
<1>1. NextEventSequence(u) = Length + Held(u) + 1 /\ Length \in Nat /\ Held(u) \in Nat
  BY NextSequence, Counts, Zenon
<1>2. TypeOK'
  <2>1. /\ seq' = [seq EXCEPT ![u] = NextEventSequence(u)] /\ pc' = [pc EXCEPT ![u] = "insert"]
        /\ UNCHANGED <<ledger, pend, rowLock, tries, dirty>>
    BY Zenon DEF Read, Goto
  <2>2. NextEventSequence(u) \in Nat
    BY <1>1
  <2>3. seq' \in [Writers -> Nat]
    BY <2>1, <2>2, Zenon DEF LedgerInvariant, TypeOK
  <2>4. pc' \in [Writers -> Statements \cup Ended]
    BY <2>1, Zenon DEF LedgerInvariant, TypeOK, Statements
  <2> QED
    BY <2>1, <2>3, <2>4, Zenon DEF LedgerInvariant, TypeOK
<1>3. ASSUME NEW w \in Writers  PROVE WriterInvariant(w)'
  <2>1. WriterInvariant(w)
    BY InvariantParts, Zenon
  <2>2. /\ pc[u] = "read" /\ pc'[u] = "insert" /\ seq'[u] = Length + Held(u) + 1
        /\ w # u => pc'[w] = pc[w] /\ seq'[w] = seq[w]
    BY <1>1 DEF Read, Goto, LedgerInvariant, TypeOK
  <2> QED
    BY <1>1, <2>1, <2>2, CountsKept DEF WriterInvariant, Read, Ended, Statements
<1>4. Dense' /\ OneInFlight'
  BY CountsKept, Zenon DEF Read, LedgerInvariant
<1> QED
  BY <1>2, <1>3, <1>4, Zenon DEF LedgerInvariant, WriterInvariant

\* Writing the projection, or leaving the row alone.
LEMMA ProjectStep ==
    ASSUME LedgerInvariant, NEW u \in Writers, Project(u)
    PROVE  LedgerInvariant'
<1>1. /\ Length \in Nat /\ Held(u) \in Nat /\ Held(u) <= Size[u] /\ Size[u] \in Nat
      /\ pend[u] # {}
  BY Counts, SizeAssumption, Zenon DEF LedgerInvariant, Project
<1>2. TypeOK'
  BY Zenon DEF LedgerInvariant, TypeOK, Project, Goto, Statements
<1>3. ASSUME NEW w \in Writers  PROVE WriterInvariant(w)'
  <2>1. WriterInvariant(w)
    BY InvariantParts, Zenon
  <2>2. /\ pc[u] = "project"
        /\ pc'[u] = IF Held(u) < Size[u] THEN "read" ELSE "commit"
        /\ w # u => pc'[w] = pc[w]
    BY DEF Project, Goto, LedgerInvariant, TypeOK, Held
  <2>3. rowLock = w => rowLock' = w
    BY <2>1, WritersAssumption, Zenon DEF Project, RowFree, WriterInvariant
  <2>4. rowLock' = w => rowLock = w \/ w = u
    BY Zenon DEF Project
  <2> QED
    BY <1>1, <2>1, <2>2, <2>3, <2>4, CountsKept
       DEF WriterInvariant, Project, Ended, Statements
<1>4. Dense' /\ OneInFlight'
  BY CountsKept, Zenon DEF Project, LedgerInvariant
<1> QED
  BY <1>2, <1>3, <1>4, Zenon DEF LedgerInvariant, WriterInvariant

\* A successful INSERT: the sequence is the first free one, and nobody else
\* holds an uncommitted event.
LEMMA InsertStep ==
    ASSUME LedgerInvariant, NEW u \in Writers, Insert(u)
    PROVE  LedgerInvariant'
<1>1. /\ Length \in Nat /\ Held(u) \in Nat /\ Size[u] \in Nat /\ Held(u) < Size[u]
      /\ DOMAIN ledger = 1..Length
      /\ pend[u] = (Length + 1)..(Length + Held(u))
      /\ pend[u] = {} <=> Held(u) = 0
  BY Counts, SizeAssumption DEF LedgerInvariant, Insert
<1>2. /\ seq[u] \in 1..(Length + Held(u) + 1)
      /\ pend[u] # {} => seq[u] = Length + Held(u) + 1
      /\ seq[u] \notin 1..Length
  BY <1>1, Zenon DEF LedgerInvariant, Insert, Visible
<1>3. seq[u] = Length + Held(u) + 1
  BY <1>1, <1>2
<1>4. ASSUME NEW v \in Writers, v # u  PROVE pend[v] = {}
  <2>1. CASE pend[u] # {}
    BY <1>4, <2>1, Zenon DEF LedgerInvariant, OneInFlight
  <2>2. CASE pend[u] = {}
    <3>4. Held(u) = 0
      BY <1>1, <2>2, Zenon
    <3>1. seq[u] = Length + 1
      BY <1>1, <1>3, <3>4
    <3>3. seq[u] \notin pend[v]
      BY Zenon DEF Insert, Visible
    <3>2. /\ Held(v) \in Nat
          /\ pend[v] = (Length + 1)..(Length + Held(v))
          /\ pend[v] = {} <=> Held(v) = 0
      BY Counts, Zenon
    <3> QED
      BY <1>1, <3>1, <3>2, <3>3
  <2> QED
    BY <2>1, <2>2, Zenon
<1>5. /\ pend'[u] = (Length + 1)..(Length + (Held(u) + 1))
      /\ \A v \in Writers : v # u => pend'[v] = pend[v]
  <2>1. pend \in [Writers -> SUBSET (Nat \ {0})]
    BY Zenon DEF LedgerInvariant, TypeOK
  <2>2. pend' = [pend EXCEPT ![u] = pend[u] \cup {seq[u]}]
    BY Zenon DEF Insert
  <2>3. pend'[u] = pend[u] \cup {seq[u]} /\ \A v \in Writers : v # u => pend'[v] = pend[v]
    BY <2>1, <2>2, Zenon
  <2> QED
    BY <1>1, <1>3, <2>3
<1>6. /\ Length' = Length
      /\ Held(u)' = Held(u) + 1
      /\ \A v \in Writers : v # u => Held(v)' = Held(v)
  <2>1. Cardinality(pend'[u]) = Held(u) + 1
    <3>1. Held(u) + 1 \in Nat
      BY <1>1
    <3>2. Cardinality((Length + 1)..(Length + (Held(u) + 1))) = Held(u) + 1
      BY <1>1, <3>1, IntervalCount, Zenon
    <3> QED
      BY <1>5, <3>2, Zenon
  <2> QED
    BY <1>5, <2>1, Zenon DEF Held, Length, Insert
<1>7. TypeOK'
  <2>1. pend' \in [Writers -> SUBSET (Nat \ {0})]
    BY <1>1, <1>3 DEF Insert, LedgerInvariant, TypeOK
  <2>2. IsFiniteSet(pend'[u])
    <3>1. Held(u) + 1 \in Nat
      BY <1>1
    <3>2. IsFiniteSet((Length + 1)..(Length + (Held(u) + 1)))
      BY <1>1, <3>1, IntervalCount, Zenon
    <3> QED
      BY <1>5, <3>2, Zenon
  <2>3. \A w \in Writers : IsFiniteSet(pend'[w])
    BY <1>5, <2>2, ZenonT(30) DEF LedgerInvariant, TypeOK
  <2>4. tries' \in [Writers -> 0..Attempts]
    BY AttemptsAssumption DEF Insert, LedgerInvariant, TypeOK
  <2>5. dirty' \in [Writers -> BOOLEAN]
    BY DEF Insert, LedgerInvariant, TypeOK
  <2>6. pc' \in [Writers -> Statements \cup Ended]
    BY Zenon DEF Insert, LedgerInvariant, TypeOK, Goto, Statements
  <2>7. UNCHANGED <<ledger, rowLock, seq>>
    BY Zenon DEF Insert
  <2> QED
    BY <2>1, <2>3, <2>4, <2>5, <2>6, <2>7, Zenon DEF LedgerInvariant, TypeOK
<1>8. ASSUME NEW w \in Writers  PROVE WriterInvariant(w)'
  <2>1. WriterInvariant(w)
    BY InvariantParts, Zenon
  <2>2. /\ pc[u] = "insert" /\ pc'[u] = "project" /\ tries'[u] = 0
        /\ w # u => pc'[w] = pc[w] /\ tries'[w] = tries[w]
    BY DEF Insert, Goto, LedgerInvariant, TypeOK
  <2>3. CASE w = u
    <3>5. Length + 1 \in pend'[u]
      BY <1>1, <1>5
    <3>1. pend'[u] = (Length' + 1)..(Length' + Held(u)') /\ pend'[u] # {}
      BY <1>5, <1>6, <3>5, Zenon
    <3>2. Held(u)' <= Size[u] /\ tries'[u] < Attempts
      BY <1>1, <1>6, <2>2, AttemptsAssumption
    <3>3. u \in Locked => rowLock' = u
      BY <2>1, <2>2, <2>3, Zenon DEF WriterInvariant, Insert, Statements
    <3>4. \A s \in DOMAIN ledger' : ledger'[s] # u
      BY <2>1, <2>2, <2>3, Zenon DEF WriterInvariant, Insert
    <3> QED
      BY <2>2, <2>3, <3>1, <3>2, <3>3, <3>4, Zenon DEF WriterInvariant, Ended
  <2>4. CASE w # u
    BY <1>5, <1>6, <2>1, <2>2, <2>4, ZenonT(30) DEF WriterInvariant, Insert
  <2> QED
    BY <2>3, <2>4, Zenon
<1>9. Dense'
  BY Zenon DEF Insert, LedgerInvariant, Dense
<1>10. OneInFlight'
  BY <1>4, <1>5, Zenon DEF OneInFlight
<1> QED
  BY <1>7, <1>8, <1>9, <1>10, Zenon DEF LedgerInvariant, WriterInvariant

\* What a transaction leaves behind that ends without committing.
LEMMA AbortStep ==
    ASSUME LedgerInvariant, NEW u \in Writers, TypeOK',
           pend' = [pend EXCEPT ![u] = {}],
           rowLock' = IF rowLock = u THEN NoWriter ELSE rowLock,
           pc'[u] \in Ended \ {"done"},
           pc[u] # "done",
           \A w \in Writers : w # u => pc'[w] = pc[w],
           \A w \in Writers : w # u => tries'[w] = tries[w],
           UNCHANGED <<ledger, seq>>
    PROVE  LedgerInvariant'
<1>1. pend'[u] = {} /\ \A v \in Writers : v # u => pend'[v] = pend[v]
  BY DEF LedgerInvariant, TypeOK
<1>2. /\ Length' = Length /\ Length \in Nat
      /\ Held(u)' = 0
      /\ \A v \in Writers : v # u => Held(v)' = Held(v)
  BY <1>1, FS_EmptySet, Counts, Zenon DEF Length, Held
<1>3. ASSUME NEW w \in Writers  PROVE WriterInvariant(w)'
  <2>1. WriterInvariant(w)
    BY InvariantParts, Zenon
  <2>2. rowLock' = w <=> rowLock = w /\ w # u
    BY WritersAssumption, Zenon
  <2>3. CASE w = u
    <3>4. (Length + 1)..(Length + 0) = {}
      BY <1>2
    <3>1. pend'[u] = (Length' + 1)..(Length' + Held(u)')
      BY <1>1, <1>2, <3>4, Zenon
    <3>2. \A s \in DOMAIN ledger : ledger[s] # u
      BY <2>1, <2>3, Zenon DEF WriterInvariant
    <3>3. pc'[u] \notin Statements /\ rowLock' # u
      BY <2>2, <2>3, Zenon DEF Ended, Statements
    <3> QED
      BY <1>1, <2>3, <3>1, <3>2, <3>3, Zenon DEF WriterInvariant, Statements
  <2>4. CASE w # u
    BY <1>1, <1>2, <2>1, <2>2, <2>4, ZenonT(30) DEF WriterInvariant
  <2> QED
    BY <2>3, <2>4, Zenon
<1>4. Dense' /\ OneInFlight'
  BY <1>1 DEF LedgerInvariant, Dense, OneInFlight
<1> QED
  BY <1>3, <1>4, Zenon DEF LedgerInvariant, WriterInvariant

\* A transaction in one of its statements has not committed.
LEMMA OpenLabels ==
    ASSUME NEW label \in Statements
    PROVE  label # "done" /\ label \notin Ended
BY Zenon DEF Statements, Ended

\* The deadlock detector and a crash roll a transaction back.
LEMMA RollbackStep ==
    ASSUME LedgerInvariant, NEW u \in Writers, Victim(u) \/ Crash(u)
    PROVE  LedgerInvariant'
<1>1. PICK label \in {"victim", "crashed"} : Rollback(u, label)
  BY Zenon DEF Victim, Crash
<1>2. pc[u] # "done"
  BY Zenon DEF Victim, Crash, WaitsFor, WaitsForRow, WaitsForIndex, Statements
<1>3. pc'[u] = label /\ \A w \in Writers : w # u => pc'[w] = pc[w]
  BY <1>1 DEF Rollback, Goto, LedgerInvariant, TypeOK
<1>4. TypeOK'
  <2>1. \A w \in Writers : IsFiniteSet(pend'[w])
    BY <1>1, FS_EmptySet DEF Rollback, LedgerInvariant, TypeOK
  <2> QED
    BY <1>1, <2>1, Zenon DEF Rollback, Goto, LedgerInvariant, TypeOK, Ended
<1> QED
  BY <1>1, <1>2, <1>3, <1>4, AbortStep, Zenon DEF Rollback, Ended

\* A unique violation: read again, or give the transaction up.
LEMMA CollideStep ==
    ASSUME LedgerInvariant, NEW u \in Writers, Collide(u)
    PROVE  LedgerInvariant'
<1>1. /\ pc[u] = "insert" /\ UNCHANGED <<ledger, seq, dirty>>
      /\ tries[u] \in 0..Attempts
  BY Zenon DEF Collide, LedgerInvariant, TypeOK
<1>2. /\ Length \in Nat /\ Held(u) \in Nat /\ Held(u) < Size[u]
      /\ DOMAIN ledger = 1..Length /\ seq[u] \in 1..Length
  BY Counts DEF LedgerInvariant, Collide
<1>3. tries'[u] = tries[u] + 1
  BY DEF Collide, LedgerInvariant, TypeOK
<1>4. CASE tries'[u] < Attempts
  <2>1. UNCHANGED <<ledger, pend, rowLock>> /\ Goto(u, "read")
    BY <1>4, Zenon DEF Collide
  <2>2. tries' \in [Writers -> 0..Attempts]
    BY <1>1, <1>3, <1>4, AttemptsAssumption DEF Collide, LedgerInvariant, TypeOK
  <2>3. TypeOK'
    BY <1>1, <2>1, <2>2, ZenonT(30) DEF LedgerInvariant, TypeOK, Goto, Statements
  <2>4. ASSUME NEW w \in Writers  PROVE WriterInvariant(w)'
    <3>1. WriterInvariant(w)
      BY InvariantParts, Zenon
    <3>2. pc'[u] = "read" /\ (w # u => pc'[w] = pc[w] /\ tries'[w] = tries[w])
      BY <2>1 DEF Collide, Goto, LedgerInvariant, TypeOK
    <3> QED
      BY <1>1, <1>4, <2>1, <3>1, <3>2, CountsKept DEF WriterInvariant, Ended, Statements
  <2>5. Dense' /\ OneInFlight'
    BY <2>1, CountsKept, Zenon DEF LedgerInvariant
  <2> QED
    BY <2>3, <2>4, <2>5, Zenon DEF LedgerInvariant, WriterInvariant
<1>5. CASE ~(tries'[u] < Attempts)
  <2>1. /\ pend' = [pend EXCEPT ![u] = {}] /\ Goto(u, "exhausted")
        /\ rowLock' = IF rowLock = u THEN NoWriter ELSE rowLock
    BY <1>5, Zenon DEF Collide
  <2>2. tries[u] < Attempts
    BY <1>1, InvariantParts, Zenon DEF WriterInvariant, Statements
  <2>3. tries' \in [Writers -> 0..Attempts]
    <3>1. tries[u] + 1 \in 0..Attempts
      BY <1>1, <2>2, AttemptsAssumption
    <3> QED
      BY <3>1, Zenon DEF Collide, LedgerInvariant, TypeOK
  <2>4. TypeOK'
    <3>1. \A w \in Writers : IsFiniteSet(pend'[w])
      BY <2>1, FS_EmptySet DEF LedgerInvariant, TypeOK
    <3> QED
      BY <1>1, <2>1, <2>3, <3>1, ZenonT(30) DEF Goto, LedgerInvariant, TypeOK, Ended
  <2>5. /\ pc'[u] = "exhausted"
        /\ \A w \in Writers : w # u => pc'[w] = pc[w] /\ tries'[w] = tries[w]
    BY <2>1 DEF Collide, Goto, LedgerInvariant, TypeOK
  <2> QED
    BY <1>1, <2>1, <2>4, <2>5, AbortStep, ZenonT(30) DEF Ended
<1> QED
  BY <1>4, <1>5, Zenon

\* The committed part grows by exactly the events of the transaction.
LEMMA CommitFacts ==
    ASSUME LedgerInvariant, NEW u \in Writers, Commit(u)
    PROVE  /\ Length \in Nat /\ Size[u] \in Nat \ {0}
           /\ DOMAIN ledger = 1..Length
           /\ pend[u] = (Length + 1)..(Length + Size[u])
           /\ DOMAIN ledger' = 1..(Length + Size[u])
           /\ \A s \in 1..(Length + Size[u]) :
                ledger'[s] = IF s \in 1..Length THEN ledger[s] ELSE u
           /\ Length' = Length + Size[u]
<1>1. /\ Length \in Nat /\ DOMAIN ledger = 1..Length /\ Size[u] \in Nat \ {0}
      /\ pend[u] = (Length + 1)..(Length + Size[u])
  <2>1. Held(u) = Size[u]
    BY Zenon DEF LedgerInvariant, Commit
  <2> QED
    BY <2>1, Counts, SizeAssumption, Zenon
<1>2. Visible(u) = 1..(Length + Size[u])
  BY <1>1 DEF Visible
<1>3. DOMAIN ledger' = 1..(Length + Size[u])
  BY <1>2, Zenon DEF Commit
<1>4. \A s \in 1..(Length + Size[u]) :
         ledger'[s] = IF s \in 1..Length THEN ledger[s] ELSE u
  BY <1>1, <1>2 DEF Commit
<1>5. Length' = Length + Size[u]
  <2>1. Length + Size[u] \in Nat
    BY <1>1
  <2> QED
    BY <1>3, <2>1, IntervalCount, Zenon DEF Length
<1> QED
  BY <1>1, <1>3, <1>4, <1>5, Zenon

\* COMMIT: nobody else holds events, so all others start behind the new end.
LEMMA CommitStep ==
    ASSUME LedgerInvariant, NEW u \in Writers, Commit(u)
    PROVE  LedgerInvariant'
<1>1. /\ Length \in Nat /\ Size[u] \in Nat \ {0}
      /\ DOMAIN ledger = 1..Length
      /\ pend[u] = (Length + 1)..(Length + Size[u])
      /\ DOMAIN ledger' = 1..(Length + Size[u])
      /\ \A s \in 1..(Length + Size[u]) :
           ledger'[s] = IF s \in 1..Length THEN ledger[s] ELSE u
      /\ Length' = Length + Size[u]
  BY CommitFacts, Zenon
<1>2. \A v \in Writers : pend'[v] = {}
  <2>0. /\ Length \in Nat /\ Size[u] \in Nat \ {0}
        /\ pend[u] = (Length + 1)..(Length + Size[u])
    BY <1>1, Zenon
  <2>1. pend[u] # {}
    BY <2>0
  <2>2. \A v \in Writers : v # u => pend[v] = {}
    BY <2>1, Zenon DEF LedgerInvariant, OneInFlight
  <2> QED
    BY <2>2 DEF Commit, LedgerInvariant, TypeOK
<1>3. \A v \in Writers : Held(v)' = 0 /\ (v # u => Held(v) = 0)
  <2>1. \A v \in Writers : v # u => pend[v] = {}
    BY <1>2 DEF Commit, LedgerInvariant, TypeOK
  <2> QED
    BY <1>2, <2>1, FS_EmptySet, Zenon DEF Held
<1>4. /\ pc[u] = "commit" /\ pc'[u] = "done" /\ rowLock' = NoWriter
      /\ \A v \in Writers : v # u => pc'[v] = pc[v]
      /\ UNCHANGED <<seq, tries, dirty>>
      /\ RowFree(u)
  BY DEF Commit, Goto, LedgerInvariant, TypeOK
<1>5. TypeOK'
  <2>1. DOMAIN ledger' \subseteq Nat \ {0}
    BY <1>1
  <2>6. ledger' \in [DOMAIN ledger' -> Writers]
    <3>1. \A s \in DOMAIN ledger' : ledger'[s] \in Writers
      BY <1>1 DEF LedgerInvariant, TypeOK
    <3>2. ledger' = [s \in DOMAIN ledger' |-> ledger'[s]]
      BY Zenon DEF Commit
    <3> QED
      BY <3>1, <3>2, Zenon
  <2>2. IsFiniteSet(DOMAIN ledger')
    <3>1. Length + Size[u] \in Nat
      BY <1>1
    <3> QED
      BY <1>1, <3>1, IntervalCount, Zenon
  <2>3. \A w \in Writers : IsFiniteSet(pend'[w])
    BY <1>2, FS_EmptySet, Zenon
  <2>4. pend' \in [Writers -> SUBSET (Nat \ {0})]
    BY Zenon DEF Commit, LedgerInvariant, TypeOK
  <2>5. pc' \in [Writers -> Statements \cup Ended]
    BY Zenon DEF Commit, Goto, LedgerInvariant, TypeOK, Ended
  <2> QED
    BY <1>4, <2>1, <2>2, <2>3, <2>4, <2>5, <2>6, Zenon DEF LedgerInvariant, TypeOK
<1>6. ASSUME NEW w \in Writers  PROVE WriterInvariant(w)'
  <2>1. WriterInvariant(w)
    BY InvariantParts, Zenon
  <2>2. pend'[w] = (Length' + 1)..(Length' + Held(w)')
    <3>1. (Length + Size[u] + 1)..(Length + Size[u] + 0) = {}
      BY <1>1
    <3> QED
      BY <1>1, <1>2, <1>3, <3>1, Zenon
  <2>3. CASE w = u
    BY <1>2, <1>4, <2>2, <2>3, WritersAssumption, Zenon
       DEF WriterInvariant, Ended, Statements
  <2>4. CASE w # u
    <3>1. pend[w] = {} /\ Held(w) = 0 /\ Held(w)' = 0
      BY <1>2, <1>3, <2>4 DEF Commit, LedgerInvariant, TypeOK
    <3>2. pc[w] \notin {"project", "commit"}
      BY <2>1, <3>1, Zenon DEF WriterInvariant
    <3>3. ~(w \in Locked /\ pc[w] \in Statements \ {"begin"})
      BY <1>4, <2>1, <2>4, WritersAssumption, Zenon DEF WriterInvariant, RowFree
    <3>4. pc[w] = "insert" => seq[w] \in 1..(Length' + Held(w)' + 1)
      <4> HAVE pc[w] = "insert"
      <4>1. seq[w] \in 1..(Length + 0 + 1)
        BY <2>1, <3>1, Zenon DEF WriterInvariant
      <4> QED
        BY <1>1, <3>1, <4>1
    <3>5. pc[w] # "done" => \A s \in DOMAIN ledger' : ledger'[s] # w
      BY <1>1, <2>1, <2>4, Zenon DEF WriterInvariant
    <3>6. pc[w] \in {"read", "insert"} => Held(w)' < Size[w]
      BY <2>1, <3>1, Zenon DEF WriterInvariant
    <3> QED
      BY <1>2, <1>4, <2>1, <2>2, <2>4, <3>2, <3>3, <3>4, <3>5, <3>6, WritersAssumption, Zenon
         DEF WriterInvariant
  <2> QED
    BY <2>3, <2>4, Zenon
<1>7. Dense'
  BY <1>1, Zenon DEF Dense, Length
<1>8. OneInFlight'
  BY <1>2, Zenon DEF OneInFlight
<1> QED
  BY <1>5, <1>6, <1>7, <1>8, Zenon DEF LedgerInvariant, WriterInvariant

-----------------------------------------------------------------------------
(* The theorems.                                                           *)

\* Every statement of every transaction preserves the invariant.
LEMMA NextInvariant == LedgerInvariant /\ [Next]_vars => LedgerInvariant'
<1> SUFFICES ASSUME LedgerInvariant, [Next]_vars  PROVE LedgerInvariant'
  BY Zenon
<1>1. CASE UNCHANGED vars
  BY <1>1, ZenonT(30) DEF vars, LedgerInvariant, TypeOK, Dense, OneInFlight, Length, Held
<1>2. CASE Next
  <2>1. PICK u \in Writers : Step(u) \/ Crash(u)
    BY <1>2, Zenon DEF Next
  <2> QED
    BY <2>1, BeginStep, ReadStep, InsertStep, CollideStep, ProjectStep,
       CommitStep, RollbackStep, Zenon DEF Step
<1> QED
  BY <1>1, <1>2, Zenon

\* In every behaviour the committed sequences are dense, at most one
\* transaction holds uncommitted events, and each one's are contiguous.
THEOREM InvariantHolds == Spec => []LedgerInvariant
BY InitInvariant, NextInvariant, PTL DEF Spec

\* The sequences of a stream are 1..n, whatever races, retries, deadlocks
\* and crashes append_execution_event meets.
THEOREM DenseHolds == Spec => []Dense
<1>1. LedgerInvariant => Dense
  BY Zenon DEF LedgerInvariant
<1> QED
  BY <1>1, InvariantHolds, PTL

\* Two transactions never hold uncommitted events of one stream together.
THEOREM OneInFlightHolds == Spec => []OneInFlight
<1>1. LedgerInvariant => OneInFlight
  BY Zenon DEF LedgerInvariant
<1> QED
  BY <1>1, InvariantHolds, PTL

\* The abstract verdict on a transaction.
LEMMA VerdictFacts ==
    ASSUME TypeOK, NEW w \in Writers
    PROVE  /\ pc[w] = "done" => Verdict[w] = "kept"
           /\ pc[w] \in {"exhausted", "victim", "crashed"} => Verdict[w] = "refused"
           /\ pc[w] \in Statements => Verdict[w] = "open"
           /\ DOMAIN Verdict = Writers
BY Zenon DEF Verdict, Statements, Ended, TypeOK

\* A statement that commits nothing and ends nothing is invisible.
LEMMA Invisible ==
    ASSUME TypeOK, TypeOK', NEW u \in Writers, NEW label \in Statements,
           pc[u] \in Statements, Goto(u, label), ledger' = ledger
    PROVE  UNCHANGED <<ledger, Verdict>>
BY DEF TypeOK, Goto, Verdict, Statements, Ended

\* A transaction that ends without committing is refused.
LEMMA Refused ==
    ASSUME TypeOK, NEW u \in Writers, NEW label \in Ended \ {"done"},
           pc[u] \in Statements, Goto(u, label), ledger' = ledger
    PROVE  Abstract!Refuse(u)
<1>1. Verdict[u] = "open"
  BY VerdictFacts, Zenon
<1>2. Verdict' = [Verdict EXCEPT ![u] = "refused"]
  BY Zenon DEF TypeOK, Goto, Verdict, Statements, Ended
<1> QED
  BY <1>1, <1>2, Zenon DEF Abstract!Refuse

\* A commit appends the events of the transaction at the end of the log.
LEMMA Kept ==
    ASSUME LedgerInvariant, NEW u \in Writers, Commit(u)
    PROVE  Abstract!Keep(u)
<1>1. Verdict[u] = "open"
  BY VerdictFacts DEF LedgerInvariant, Commit, Statements
<1>2. Verdict' = [Verdict EXCEPT ![u] = "kept"]
  BY ZenonT(30) DEF LedgerInvariant, TypeOK, Commit, Goto, Verdict, Statements, Ended
<1>3. ledger' = ledger \o [i \in 1..Size[u] |-> u]
  <2> DEFINE block == [i \in 1..Size[u] |-> u]
  <2>1. /\ Length \in Nat /\ Size[u] \in Nat \ {0}
        /\ DOMAIN ledger = 1..Length
        /\ DOMAIN ledger' = 1..(Length + Size[u])
        /\ \A s \in 1..(Length + Size[u]) :
             ledger'[s] = IF s \in 1..Length THEN ledger[s] ELSE u
    BY CommitFacts, Zenon
  <2>2. /\ ledger \in [1..Length -> Writers]
        /\ ledger' \in [1..(Length + Size[u]) -> Writers]
    <3>1. TypeOK /\ TypeOK'
      BY CommitStep DEF LedgerInvariant
    <3> QED
      BY <2>1, <3>1, Zenon DEF TypeOK
  <2>3. ledger \in Seq(Writers) /\ Len(ledger) = Length
    BY <2>1, <2>2
  <2>4. block \in Seq(Writers) /\ Len(block) = Size[u]
    BY <2>1
  <2>9. \A j \in 1..Size[u] : block[j] = u
    BY Zenon
  <2> HIDE DEF block
  <2>5. ledger' \in Seq(Writers) /\ Len(ledger') = Length + Size[u]
    <3>1. Length + Size[u] \in Nat
      BY <2>1
    <3> QED
      BY <2>2, <3>1
  <2>6. /\ ledger \o block \in Seq(Writers)
        /\ Len(ledger \o block) = Length + Size[u]
        /\ \A i \in 1..(Length + Size[u]) :
             (ledger \o block)[i] = IF i <= Length THEN ledger[i] ELSE block[i - Length]
    <3>1. /\ ledger \o block \in Seq(Writers)
          /\ Len(ledger \o block) = Len(ledger) + Len(block)
          /\ \A i \in 1..(Len(ledger) + Len(block)) :
               (ledger \o block)[i] = IF i <= Len(ledger) THEN ledger[i]
                                      ELSE block[i - Len(ledger)]
      BY <2>3, <2>4, ConcatElements, Zenon
    <3> QED
      BY <2>3, <2>4, <3>1, Zenon
  <2>7. \A i \in 1..(Length + Size[u]) : ledger'[i] = (ledger \o block)[i]
    <3> TAKE i \in 1..(Length + Size[u])
    <3>1. CASE i <= Length
      <4>1. i \in 1..Length
        BY <2>1, <3>1
      <4> QED
        BY <2>1, <2>6, <3>1, <4>1, Zenon
    <3>2. CASE ~(i <= Length)
      <4>1. i - Length \in 1..Size[u] /\ i \notin 1..Length
        BY <2>1, <3>2
      <4> QED
        BY <2>1, <2>6, <2>9, <3>2, <4>1, Zenon
    <3> QED
      BY <3>1, <3>2, Zenon
  <2>8. ledger' = ledger \o block
    BY <2>5, <2>6, <2>7, SeqEqual, Zenon
  <2> QED
    BY <2>8, Zenon DEF block
<1> QED
  BY <1>1, <1>2, <1>3 DEF Abstract!Keep

\* Every statement is invisible to readers, refuses its transaction, or keeps
\* all of its events at the end of the stream.
LEMMA StepImplements ==
    ASSUME LedgerInvariant, LedgerInvariant', [Next]_vars
    PROVE  [Abstract!Next]_<<ledger, Verdict>>
<1>0. TypeOK /\ TypeOK'
  BY Zenon DEF LedgerInvariant
<1>1. CASE UNCHANGED vars
  BY <1>1, Zenon DEF vars, Verdict
<1>2. CASE Next
  <2>1. PICK u \in Writers : Step(u) \/ Crash(u)
    BY <1>2, Zenon DEF Next
  <2>2. CASE Begin(u) \/ Read(u) \/ Insert(u) \/ Project(u)
    <3>1. PICK label \in Statements : Goto(u, label)
      BY <2>2, Zenon DEF Begin, Read, Insert, Project, Statements
    <3>2. pc[u] \in Statements /\ ledger' = ledger
      BY <2>2, Zenon DEF Begin, Read, Insert, Project, Statements
    <3> QED
      BY <1>0, <3>1, <3>2, Invisible, Zenon
  <2>3. CASE Collide(u)
    <3>1. pc[u] \in Statements /\ ledger' = ledger
      BY <2>3, Zenon DEF Collide, Statements
    <3>2. Goto(u, "read") \/ Goto(u, "exhausted")
      BY <2>3, Zenon DEF Collide
    <3>3. CASE Goto(u, "read")
      BY <1>0, <3>1, <3>3, Invisible, Zenon DEF Statements
    <3>4. CASE Goto(u, "exhausted")
      BY <1>0, <3>1, <3>4, Refused, Zenon DEF Abstract!Next, Ended
    <3> QED
      BY <3>2, <3>3, <3>4, Zenon
  <2>4. CASE Commit(u)
    BY <2>4, Kept, Zenon DEF Abstract!Next
  <2>5. CASE Victim(u) \/ Crash(u)
    <3>1. PICK label \in {"victim", "crashed"} : Rollback(u, label)
      BY <2>5, Zenon DEF Victim, Crash
    <3>2. pc[u] \in Statements
      BY <2>5, Zenon DEF Victim, Crash, WaitsFor, WaitsForRow, WaitsForIndex, Statements
    <3> QED
      BY <1>0, <3>1, <3>2, Refused, Zenon DEF Rollback, Abstract!Next, Ended
  <2> QED
    BY <2>1, <2>2, <2>3, <2>4, <2>5, Zenon DEF Step
<1> QED
  BY <1>1, <1>2, Zenon

\* The statements of append_execution_event implement the append-only ledger:
\* readers see every transaction's events appended in one piece or not at all.
THEOREM ImplementsLedgerHolds == Spec => ImplementsLedger
<1>1. Init => Abstract!Init
  BY Zenon DEF Init, Abstract!Init, Verdict, Ended
<1>2. LedgerInvariant /\ LedgerInvariant' /\ [Next]_vars
        => [Abstract!Next]_<<ledger, Verdict>>
  BY StepImplements, Zenon
<1> QED
  BY <1>1, <1>2, InvariantHolds, PTL DEF Spec, ImplementsLedger, Abstract!Spec

\* A wait cycle always joins a writer that locked the row before it appended
\* and one that appends outside the lock.
THEOREM DeadlockIsMixedHolds == Spec => []DeadlockIsMixed
<1>1. LedgerInvariant => DeadlockIsMixed
  <2> SUFFICES ASSUME LedgerInvariant, NEW v \in Writers, NEW w \in Writers,
                      WaitsForRow(v, w), WaitsForIndex(w, v)
               PROVE  v \notin Locked /\ w \in Locked
    BY DEF DeadlockIsMixed, WaitsFor, WaitsForRow, WaitsForIndex,
           LedgerInvariant, OneInFlight
  <2>1. pend[v] # {} /\ pend[w] = {}
    BY Zenon DEF WaitsForIndex, WaitsForRow, LedgerInvariant, OneInFlight
  <2>2. w \in Locked
    BY <2>1, InvariantParts, Zenon DEF WaitsForRow, WriterInvariant, Writers
  <2>3. v \notin Locked
    BY <2>1, InvariantParts, Zenon
       DEF WaitsForRow, WriterInvariant, Statements, Ended
  <2> QED
    BY <2>2, <2>3, Zenon
<1> QED
  BY <1>1, InvariantHolds, PTL

-----------------------------------------------------------------------------
(* Lost races.                                                             *)

\* The committed transactions are finitely many.
LEMMA WinnersCount ==
    ASSUME NEW w \in Writers
    PROVE  IsFiniteSet(Winners(w)) /\ Cardinality(Winners(w)) \in Nat
<1>1. Winners(w) \subseteq Writers
  BY Zenon DEF Winners
<1> QED
  BY <1>1, FS_Subset, FS_CardinalityType, WritersAssumption, Zenon

\* A statement of u that commits nothing, leaves no stale sequence behind, and
\* adds a refused insert only where its sequence was stale.
LosesFairly(u, label) ==
    /\ pc[u] # "done" /\ pc' = [pc EXCEPT ![u] = label]
    /\ UNCHANGED ledger
    /\ \A w \in Writers \ {u} : tries'[w] = tries[w] /\ seq'[w] = seq[w]
    /\ label # "insert" \/ seq'[u] \notin DOMAIN ledger
    /\ tries'[u] \in Nat
    /\ tries'[u] <= tries[u] + (IF Stale(u) THEN 1 ELSE 0)
    /\ label = "exhausted" => tries'[u] = Attempts

\* Such a statement leaves the winners, and every other transaction, alone.
LEMMA RacesKept ==
    ASSUME LedgerInvariant, RacesCounted, NEW u \in Writers,
           NEW label \in (Statements \cup Ended) \ {"done"}, LosesFairly(u, label)
    PROVE  RacesCounted'
<1> SUFFICES ASSUME NEW w \in Writers
             PROVE  /\ tries'[w] + (IF Stale(w)' THEN 1 ELSE 0) <= Cardinality(Winners(w)')
                    /\ pc'[w] = "exhausted" => tries'[w] = Attempts
  BY Zenon DEF RacesCounted
<1>1. pc \in [Writers -> Statements \cup Ended] /\ tries[w] \in Nat /\ tries[u] \in Nat
  BY DEF LedgerInvariant, TypeOK
<1>2. Winners(w)' = Winners(w)
  BY <1>1, Zenon DEF Winners, LosesFairly
<1>3. /\ tries[w] + (IF Stale(w) THEN 1 ELSE 0) <= Cardinality(Winners(w))
      /\ pc[w] = "exhausted" => tries[w] = Attempts
  BY Zenon DEF RacesCounted
<1>4. Cardinality(Winners(w)) \in Nat
  BY WinnersCount, Zenon
<1>5. CASE w = u
  <2>1. ~Stale(u)' /\ pc'[u] = label
    BY <1>1, Zenon DEF LosesFairly, Stale
  <2> QED
    BY <1>1, <1>2, <1>3, <1>4, <1>5, <2>1 DEF LosesFairly
<1>6. CASE w # u
  <2>1. pc'[w] = pc[w] /\ tries'[w] = tries[w] /\ seq'[w] = seq[w]
    BY <1>1, <1>6, Zenon DEF LosesFairly
  <2>2. Stale(w)' <=> Stale(w)
    BY <2>1, Zenon DEF Stale, LosesFairly
  <2> QED
    BY <1>2, <1>3, <2>1, <2>2, Zenon
<1> QED
  BY <1>5, <1>6, Zenon

\* A commit makes at most one sequence of every other transaction stale, and is
\* one more winner for each of them.
LEMMA RacesCommit ==
    ASSUME LedgerInvariant, RacesCounted, NEW u \in Writers, Commit(u)
    PROVE  RacesCounted'
<1> SUFFICES ASSUME NEW w \in Writers
             PROVE  /\ tries'[w] + (IF Stale(w)' THEN 1 ELSE 0) <= Cardinality(Winners(w)')
                    /\ pc'[w] = "exhausted" => tries'[w] = Attempts
  BY Zenon DEF RacesCounted
<1>1. /\ pc \in [Writers -> Statements \cup Ended] /\ tries[w] \in Nat
      /\ pc[u] = "commit" /\ pc' = [pc EXCEPT ![u] = "done"] /\ tries' = tries
  BY DEF LedgerInvariant, TypeOK, Commit, Goto
<1>2. /\ tries[w] + (IF Stale(w) THEN 1 ELSE 0) <= Cardinality(Winners(w))
      /\ pc[w] = "exhausted" => tries[w] = Attempts
  BY Zenon DEF RacesCounted
<1>3. IsFiniteSet(Winners(w)) /\ Cardinality(Winners(w)) \in Nat
  BY WinnersCount, Zenon
<1>4. CASE w = u
  <2>1. Winners(w)' = Winners(w) /\ ~Stale(w)' /\ pc'[w] = "done"
    BY <1>1, <1>4, Zenon DEF Winners, Stale
  <2> QED
    BY <1>1, <1>2, <1>3, <2>1
<1>5. CASE w # u
  <2>1. Winners(w)' = Winners(w) \cup {u} /\ u \notin Winners(w) /\ pc'[w] = pc[w]
    BY <1>1, <1>5 DEF Winners
  <2>2. Cardinality(Winners(w)') = Cardinality(Winners(w)) + 1
    BY <1>3, <2>1, FS_AddElement, ZenonT(30)
  <2> QED
    BY <1>1, <1>2, <1>3, <2>1, <2>2
<1> QED
  BY <1>4, <1>5, Zenon

\* Every refused insert is owed to another committed transaction.
LEMMA RacesNext == LedgerInvariant /\ RacesCounted /\ [Next]_vars => RacesCounted'
<1> SUFFICES ASSUME LedgerInvariant, RacesCounted, [Next]_vars  PROVE RacesCounted'
  BY Zenon
<1>1. CASE UNCHANGED vars
  BY <1>1, Zenon DEF vars, RacesCounted, Winners, Stale
<1>2. ASSUME NEW u \in Writers, Step(u) \/ Crash(u)  PROVE RacesCounted'
  <2>0. /\ pc \in [Writers -> Statements \cup Ended] /\ tries \in [Writers -> Nat]
        /\ seq \in [Writers -> Nat] /\ Attempts \in Nat \ {0}
    BY AttemptsAssumption DEF LedgerInvariant, TypeOK
  <2> SUFFICES ASSUME ~Commit(u)
               PROVE  \E label \in (Statements \cup Ended) \ {"done"} : LosesFairly(u, label)
    BY <1>2, RacesCommit, RacesKept, Zenon
  <2>1. CASE Begin(u)
    <3>1. LosesFairly(u, "read")
      BY <2>0, <2>1 DEF Begin, Goto, LosesFairly
    <3> QED
      BY <3>1, Zenon DEF Statements
  <2>2. CASE Read(u)
    <3>1. NextEventSequence(u) \notin DOMAIN ledger
      BY NextSequence, Counts
    <3>2. LosesFairly(u, "insert")
      BY <2>0, <2>2, <3>1 DEF Read, Goto, LosesFairly
    <3> QED
      BY <3>2, Zenon DEF Statements
  <2>3. CASE Insert(u)
    <3>1. LosesFairly(u, "project")
      BY <2>0, <2>3 DEF Insert, Goto, LosesFairly
    <3> QED
      BY <3>1, Zenon DEF Statements
  <2>4. CASE Collide(u)
    <3>1. /\ Stale(u) /\ tries[u] < Attempts /\ tries'[u] = tries[u] + 1
          /\ UNCHANGED <<ledger, seq>>
          /\ \A w \in Writers \ {u} : tries'[w] = tries[w]
      <4>1. /\ Stale(u) /\ tries' = [tries EXCEPT ![u] = tries[u] + 1] /\ UNCHANGED <<ledger, seq>>
        BY <2>4, Zenon DEF Collide, Stale
      <4>2. tries[u] < Attempts
        BY <2>4, Zenon DEF Collide, LedgerInvariant, Statements
      <4> QED
        BY <2>0, <4>1, <4>2, Zenon
    <3>2. PICK label \in {"read", "exhausted"} :
              /\ pc' = [pc EXCEPT ![u] = label]
              /\ label = "exhausted" => tries'[u] = Attempts
      BY <2>0, <2>4, <3>1 DEF Collide, Goto
    <3>3. LosesFairly(u, label)
      BY <2>0, <3>1, <3>2 DEF LosesFairly, Stale
    <3> QED
      BY <3>3, Zenon DEF Statements, Ended
  <2>5. CASE Project(u)
    <3>0. Goto(u, "read") \/ Goto(u, "commit")
      BY <2>5, Zenon DEF Project, Goto
    <3>1. PICK label \in {"read", "commit"} : Goto(u, label)
      BY <3>0, Zenon
    <3>2. pc[u] = "project" /\ UNCHANGED <<ledger, seq, tries>>
      BY <2>5, Zenon DEF Project
    <3>3. LosesFairly(u, label)
      BY <2>0, <3>1, <3>2 DEF Goto, LosesFairly
    <3> QED
      BY <3>3, Zenon DEF Statements
  <2>6. CASE Victim(u) \/ Crash(u)
    <3>0. Rollback(u, "victim") \/ Rollback(u, "crashed")
      BY <2>6, Zenon DEF Victim, Crash
    <3>1. PICK label \in {"victim", "crashed"} : Rollback(u, label)
      BY <3>0, Zenon
    <3>2. pc[u] # "done"
      BY <2>6, Zenon DEF Victim, Crash, WaitsFor, WaitsForRow, WaitsForIndex, Statements
    <3>3. LosesFairly(u, label)
      BY <2>0, <3>1, <3>2 DEF Rollback, Goto, LosesFairly
    <3> QED
      BY <3>3, Zenon DEF Ended
  <2> QED
    BY <1>2, <2>1, <2>2, <2>3, <2>4, <2>5, <2>6 DEF Step
<1> QED
  BY <1>1, <1>2, Zenon DEF Next

\* Lost races are counted truly in every behaviour.
THEOREM RacesCountedHolds == Spec => []RacesCounted
<1>1. Init => RacesCounted
  <2> SUFFICES ASSUME Init, NEW w \in Writers
               PROVE  /\ tries[w] + (IF Stale(w) THEN 1 ELSE 0) <= Cardinality(Winners(w))
                      /\ pc[w] = "exhausted" => tries[w] = Attempts
    BY Zenon DEF RacesCounted
  <2> QED
    BY WinnersCount DEF Init, Stale
<1> QED
  BY <1>1, RacesNext, InvariantHolds, PTL DEF Spec

\* A transaction is refused only for a reason: a deadlock needs a locked and an
\* unlocked writer, and giving up needs as many lost races as attempts.
THEOREM AbortsForAReasonHolds == Spec => []AbortsForAReason
<1>1. LedgerInvariant /\ RacesCounted => ExhaustedOnlyByRaces
  <2> SUFFICES ASSUME LedgerInvariant, RacesCounted, NEW w \in Writers, pc[w] = "exhausted"
               PROVE  Cardinality(Winners(w)) >= Attempts
    BY Zenon DEF ExhaustedOnlyByRaces
  <2>1. /\ tries[w] + (IF Stale(w) THEN 1 ELSE 0) <= Cardinality(Winners(w))
        /\ tries[w] = Attempts /\ ~Stale(w)
    BY Zenon DEF RacesCounted, Stale
  <2> QED
    BY <2>1, AttemptsAssumption, WinnersCount
<1> QED
  BY <1>1, InvariantHolds, RacesCountedHolds, DeadlockIsMixedHolds, PTL DEF AbortsForAReason
=============================================================================
