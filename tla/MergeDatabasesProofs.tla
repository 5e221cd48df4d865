------------------------- MODULE MergeDatabasesProofs -------------------------
(***************************************************************************)
(* Theorems about MergeDatabases: for databases of any size, any number of *)
(* merges and any failures, no row is lost, and what a merge adds is added *)
(* once and refers to what it referred to.                                 *)
(*                                                                         *)
(* They hold if None, the value of a file that is not there, is no         *)
(* database.                                                               *)
(***************************************************************************)
EXTENDS MergeDatabases, FiniteSetTheorems, TLAPS

----------------------------------------------------------------------------
(* Least and greatest keys.                                                *)

LEMMA LeastNatural ==
  ASSUME NEW S \in SUBSET Nat, S # {}
  PROVE  \E x \in S : \A y \in S : x <= y
<1>1. PICK x \in S : \A y \in S : <<y, x>> \notin OpToRel(<, Nat)
  BY NatLessThanWellFounded, WFMin
<1>2. ASSUME NEW y \in S PROVE ~(y < x)
  BY <1>1, Zenon DEF OpToRel
<1>3. QED
  BY <1>2

LEMMA MinOfRows ==
  ASSUME NEW S \in SUBSET Nat, S # {}
  PROVE  Min(S) \in S
<1>1. \E x \in S : \A y \in S : x <= y
  BY LeastNatural
<1>2. QED
  BY <1>1 DEF Min

\* Of the finite subsets of S, a least one without a bound would have one when an
\* element is taken away.
LEMMA FiniteIsBounded ==
  ASSUME NEW S \in SUBSET Nat, IsFiniteSet(S)
  PROVE  \E n \in Nat : \A x \in S : x <= n
<1> DEFINE Bounded(T) == \E n \in Nat : \A x \in T : x <= n
           Unbounded == {T \in SUBSET S : ~Bounded(T)}
<1> SUFFICES ASSUME Unbounded # {} PROVE FALSE
  BY DEF Bounded
<1>1. Unbounded \subseteq FiniteSubsetsOf(S)
  BY FS_FiniteSubsetsOfFinite
<1>2. PICK T \in Unbounded : \A U \in Unbounded : <<U, T>> \notin StrictSubsetOrdering(S)
  <2> HIDE DEF Unbounded
  <2>1. IsWellFoundedOn(StrictSubsetOrdering(S), FiniteSubsetsOf(S))
    BY FS_StrictSubsetOrderingWellFounded
  <2>2. QED
    BY <1>1, <2>1, WFMin
<1>3. PICK x \in T : TRUE
  <2>1. Bounded({})
    BY DEF Bounded
  <2>2. QED
    BY <2>1
<1>4. PICK n \in Nat : \A y \in T \ {x} : y <= n
  <2>1. <<T \ {x}, T>> \in StrictSubsetOrdering(S)
    BY <1>3 DEF StrictSubsetOrdering
  <2>2. Bounded(T \ {x})
    BY <1>2, <2>1
  <2>3. QED
    BY <2>2
<1>5. x \in Nat
  BY <1>3
<1>6. CASE n <= x
  <2>1. \A y \in T : y <= x
    BY <1>4, <1>5, <1>6
  <2>2. QED
    BY <1>5, <2>1
<1>7. CASE x <= n
  <2>1. \A y \in T : y <= n
    BY <1>4, <1>7
  <2>2. QED
    BY <2>1
<1>8. QED
  BY <1>5, <1>6, <1>7

\* Of the bounds of a finite set the least is in it.
LEMMA MaxOfKeys ==
  ASSUME NEW S \in SUBSET Nat, IsFiniteSet(S)
  PROVE  LET greatest == Max({0} \cup S) IN
         greatest \in Nat /\ \A x \in S : x <= greatest
<1> DEFINE T == {0} \cup S
           Bounds == {n \in Nat : \A x \in T : x <= n}
<1>1. Bounds # {}
  BY FiniteIsBounded
<1>2. PICK n \in Bounds : \A y \in Bounds : n <= y
  BY <1>1, LeastNatural
<1>3. n \in T
  <2> SUFFICES ASSUME n \notin T PROVE FALSE
    OBVIOUS
  <2>1. n # 0 /\ n \in Nat
    OBVIOUS
  <2>2. \A x \in T : x <= n - 1
    BY <2>1
  <2>3. n - 1 \in Bounds
    BY <2>1, <2>2
  <2>4. QED
    BY <1>2, <2>1, <2>3
<1>4. \A x \in T : n >= x
  OBVIOUS
<1>5. Max(T) \in T /\ \A x \in T : Max(T) >= x
  BY <1>3, <1>4 DEF Max
<1>6. Max(T) \in Nat /\ \A x \in S : Max(T) >= x
  <2>1. T \subseteq Nat /\ S \subseteq T
    OBVIOUS
  <2> HIDE DEF T
  <2>2. QED
    BY <1>5, <2>1
<1>7. Max(T) \in Nat /\ \A x \in S : x <= Max(T)
  <2> DEFINE greatest == Max(T)
  <2>1. greatest \in Nat /\ \A x \in S : greatest >= x
    BY <1>6
  <2> HIDE DEF greatest
  <2>2. greatest \in Nat /\ \A x \in S : x <= greatest
    BY <2>1
  <2>3. QED
    BY <2>2 DEF greatest
<1>8. QED
  BY <1>7

\* New keys are not in use, and no two rows are given the same.
LEMMA NewKeysFresh ==
  ASSUME TypeOK, db1 # None, db2 # None, NEW t \in Tables
  PROVE  /\ DOMAIN NewKeys(t) = {pk \in DOMAIN db2[t] : db2[t][pk] \notin Contents(db1[t])}
         /\ NewKeys(t) \in [DOMAIN NewKeys(t) -> Nat \ {0}]
         /\ \A p \in DOMAIN NewKeys(t) : NewKeys(t)[p] \notin DOMAIN db1[t]
         /\ \A p, q \in DOMAIN NewKeys(t) : p # q => NewKeys(t)[p] # NewKeys(t)[q]
<1> DEFINE new == {pk \in DOMAIN db2[t] : db2[t][pk] \notin Contents(db1[t])}
           greatest == Max({0} \cup DOMAIN db1[t])
           upto(p) == {q \in new : q <= p}
<1>1. /\ IsFiniteSet(DOMAIN db1[t]) /\ DOMAIN db1[t] \subseteq Nat
      /\ IsFiniteSet(new) /\ new \subseteq Nat
  <2>1. Database(db1) /\ Database(db2)
    BY DEF TypeOK
  <2>2. IsFiniteSet(DOMAIN db2[t])
    BY <2>1 DEF Database
  <2>3. QED
    BY <2>1, <2>2, FS_Subset DEF Database
<1>2. greatest \in Nat /\ \A x \in DOMAIN db1[t] : x <= greatest
  BY <1>1, MaxOfKeys
<1>3. ASSUME NEW p \in new
      PROVE  /\ IsFiniteSet(upto(p)) /\ Cardinality(upto(p)) \in Nat \ {0} /\ p \in upto(p)
  <2>1. p \in upto(p) /\ upto(p) \in SUBSET new
    BY <1>1
  <2>2. IsFiniteSet(upto(p))
    BY <1>1, <2>1, FS_Subset
  <2>3. Cardinality(upto(p)) # 0
    BY <2>1, <2>2, FS_EmptySet
  <2>4. QED
    BY <2>1, <2>2, <2>3, FS_CardinalityType
<1>4. ASSUME NEW p \in new, NEW q \in new, p < q
      PROVE  Cardinality(upto(p)) < Cardinality(upto(q))
  <2>1. upto(p) \in SUBSET upto(q)
    BY <1>1, <1>4
  <2>2. q \in upto(q) /\ q \notin upto(p)
    BY <1>1, <1>3, <1>4
  <2>3. /\ Cardinality(upto(p)) <= Cardinality(upto(q))
        /\ Cardinality(upto(p)) = Cardinality(upto(q)) => upto(p) = upto(q)
    <3> HIDE DEF upto
    <3>1. QED
      BY <1>3, <2>1, FS_Subset
  <2>4. Cardinality(upto(p)) # Cardinality(upto(q))
    BY <2>2, <2>3
  <2> HIDE DEF upto
  <2>5. QED
    BY <1>3, <2>3, <2>4
<1>5. NewKeys(t) = [p \in new |-> greatest + Cardinality(upto(p))]
  BY DEF NewKeys
<1> HIDE DEF new, greatest, upto
<1>6. DOMAIN NewKeys(t) = new /\ \A p \in new : NewKeys(t)[p] = greatest + Cardinality(upto(p))
  BY <1>5
<1>7. \A p \in new : NewKeys(t)[p] \in Nat \ {0} /\ NewKeys(t)[p] \notin DOMAIN db1[t]
  BY <1>1, <1>2, <1>3, <1>6
<1>8. NewKeys(t) \in [new -> Nat \ {0}]
  BY <1>5, <1>6, <1>7
<1>9. ASSUME NEW p \in new, NEW q \in new, p # q PROVE NewKeys(t)[p] # NewKeys(t)[q]
  <2>1. p < q \/ q < p
    BY <1>1, <1>9
  <2>2. Cardinality(upto(p)) # Cardinality(upto(q))
    BY <1>3, <1>4, <2>1
  <2>3. QED
    BY <1>2, <1>3, <1>6, <2>2
<1>10. QED
  BY <1>6, <1>7, <1>8, <1>9 DEF new

----------------------------------------------------------------------------
(* Type correctness.                                                       *)

\* Rows and tables are to come only while a merge is writing.
Steady == phase # "merge" => rows = {} /\ todo = {}
TypeInv == TypeOK /\ Steady

\* What the insertion of a row that fits does to the database.
LEMMA Inserted ==
  ASSUME Database(db1), NEW t \in Tables, NEW k \in Nat \ {0}, NEW row \in Row(t),
         k \notin DOMAIN db1[t], Insert(t, k, row)
  PROVE  /\ Database(db1')
         /\ DOMAIN db1'[t] = DOMAIN db1[t] \cup {k} /\ db1'[t][k] = row
         /\ \A q \in DOMAIN db1[t] : db1'[t][q] = db1[t][q]
         /\ \A u \in Tables : u # t => db1'[u] = db1[u]
         /\ Contents(db1[t])' = Contents(db1[t]) \cup {row}
<1> DEFINE old == db1[t]
           new == [q \in DOMAIN old \cup {k} |-> IF q = k THEN row ELSE old[q]]
<1>1. /\ IsFiniteSet(DOMAIN old) /\ DOMAIN old \subseteq Nat \ {0}
      /\ old \in [DOMAIN old -> Row(t)]
      /\ DOMAIN db1 = Tables
  BY DEF Database
<1>2. db1' = [db1 EXCEPT ![t] = new]
  BY DEF Insert
<1>3. DOMAIN new = DOMAIN old \cup {k} /\ new[k] = row /\ \A q \in DOMAIN old : new[q] = old[q]
  OBVIOUS
<1>4. new \in [DOMAIN new -> Row(t)] /\ IsFiniteSet(DOMAIN new) /\ DOMAIN new \subseteq Nat \ {0}
  <2>1. IsFiniteSet(DOMAIN old \cup {k})
    BY <1>1, FS_AddElement
  <2>2. QED
    BY <1>1, <2>1
<1> HIDE DEF new
<1>5. DOMAIN db1' = Tables /\ db1'[t] = new /\ \A u \in Tables : u # t => db1'[u] = db1[u]
  BY <1>1, <1>2
<1>6. Database(db1')
  <2>1. db1' \in [Tables -> {db1'[u] : u \in Tables}]
    BY <1>2, <1>5
  <2>2. ASSUME NEW u \in Tables
        PROVE  /\ IsFiniteSet(DOMAIN db1'[u]) /\ DOMAIN db1'[u] \subseteq Nat \ {0}
               /\ db1'[u] \in [DOMAIN db1'[u] -> Row(u)]
    BY <1>4, <1>5 DEF Database
  <2>3. QED
    BY <2>1, <2>2 DEF Database
<1>7. Contents(db1[t])' = Contents(db1[t]) \cup {row}
  BY <1>3, <1>5 DEF Contents
<1>8. QED
  BY <1>3, <1>5, <1>6, <1>7

\* The key and the reference of a row that is inserted fit.
LEMMA RowFits ==
  ASSUME TypeInv, InsertRow
  PROVE  LET pk == Min(rows)
             row == db2[table][pk]
         IN /\ Database(db1) /\ Database(db2) /\ pk \in rows /\ pk \in DOMAIN db2[table]
            /\ row \in Row(table) /\ Mapped(table, pk) \in Nat \ {0}
            /\ Remapped(table, row) \in Row(table)
            /\ table \in Tables \ skipped /\ table \notin todo
<1> DEFINE pk == Min(rows)
           row == db2[table][pk]
<1>1. /\ phase = "merge" /\ rows # {} /\ Database(db1) /\ Database(db2)
      /\ table \in Tables \ skipped /\ table \notin todo /\ rows \subseteq DOMAIN db2[table]
      /\ \A t \in Tables : pk_mapping[t] \in [DOMAIN pk_mapping[t] -> Nat \ {0}]
  BY DEF TypeInv, TypeOK, InsertRow
<1>2. DOMAIN db2[table] \subseteq Nat \ {0} /\ db2[table] \in [DOMAIN db2[table] -> Row(table)]
  BY <1>1 DEF Database
<1>3. pk \in rows
  BY <1>1, <1>2, MinOfRows
<1>4. row \in Row(table)
  BY <1>1, <1>2, <1>3
<1>5. Mapped(table, pk) \in Nat \ {0}
  BY <1>1, <1>2, <1>3 DEF Mapped
<1> HIDE DEF row
<1>6. Remapped(table, row) \in Row(table)
  <2>1. CASE table = "jid"
    BY <1>4, <2>1 DEF Remapped
  <2>2. CASE table = "message"
    <3>1. row \in Message
      BY <1>4, <2>2 DEF Row
    <3>2. Mapped("jid", row.jid) \in Nat \ {0}
      BY <1>1, <3>1 DEF Mapped, Message, Tables
    <3>3. QED
      BY <2>2, <3>1, <3>2 DEF Remapped, Row, Message
  <2>3. QED
    BY <1>1, <2>1, <2>2 DEF Tables
<1>7. QED
  BY <1>1, <1>3, <1>4, <1>5, <1>6 DEF row

LEMMA InitTypeInv ==
  ASSUME MaxTries \in Nat, Init
  PROVE  TypeInv
<1>1. \A t \in Tables : pk_mapping[t] = Empty
  BY DEF Init, Ready
<1>2. Empty \in [DOMAIN Empty -> Nat \ {0}]
  BY DEF Empty
<1>3. QED
  BY <1>1, <1>2 DEF Init, Ready, TypeInv, TypeOK, Steady, Tables

LEMMA NextTypeInv ==
  ASSUME MaxTries \in Nat, ~Database(None), TypeInv, [Next]_vars
  PROVE  TypeInv'
<1> USE DEF TypeInv
<1>1. CASE merge_db_whatsapp
  BY <1>1 DEF merge_db_whatsapp, given, pass, TypeOK, Steady
<1>2. CASE Analyze
  <2>1. db1 # None /\ db2 # None /\ rows = {} /\ UNCHANGED <<db1, db2, unique, skipped, rows, table, tries>>
        /\ phase' = "merge" /\ todo' = Tables \ skipped
    BY <1>2 DEF Analyze, TypeOK, Steady, given
  <2>2. ASSUME NEW t \in Tables PROVE (pk_mapping[t] \in [DOMAIN pk_mapping[t] -> Nat \ {0}])'
    <3>1. pk_mapping'[t] = IF t \in skipped THEN Empty ELSE NewKeys(t)
      BY <1>2 DEF Analyze
    <3>2. Empty \in [DOMAIN Empty -> Nat \ {0}]
      BY DEF Empty
    <3>3. NewKeys(t) \in [DOMAIN NewKeys(t) -> Nat \ {0}]
      BY <2>1, NewKeysFresh
    <3>4. QED
      BY <3>1, <3>2, <3>3
  <2>3. QED
    BY <2>1, <2>2 DEF TypeOK, Steady
<1>3. CASE ProcessTable
  BY <1>3 DEF ProcessTable, given, TypeOK, Steady, Tables
<1>4. CASE InsertRow
  <2>1. Database(db1')
    <3>1. CASE db1' = db1
      BY <1>4, <3>1, RowFits
    <3>2. CASE db1' # db1
      <4>1. Insert(table, Mapped(table, Min(rows)), Remapped(table, db2[table][Min(rows)]))
            /\ Mapped(table, Min(rows)) \notin DOMAIN db1[table]
        BY <1>4, <3>2 DEF InsertRow, Conflicts
      <4>2. QED
        BY <1>4, <4>1, RowFits, Inserted
    <3>3. QED
      BY <3>1, <3>2
  <2>2. rows' \subseteq rows /\ UNCHANGED <<db2, unique, skipped, phase, pk_mapping, todo, table, tries>>
    BY <1>4 DEF InsertRow, given
  <2>3. db1' # None
    BY <2>1
  <2>4. QED
    BY <2>1, <2>2, <2>3 DEF TypeOK, Steady
<1>5. CASE Completed
  BY <1>5 DEF Completed, given, pass, TypeOK, Steady
<1>6. CASE RemoveDb2
  BY <1>6 DEF RemoveDb2, given, pass, TypeOK, Steady
<1>7. CASE Fails
  BY <1>7 DEF Fails, given, TypeOK, Steady
<1>8. CASE UNCHANGED vars
  BY <1>8 DEF vars, TypeOK, Steady
<1>9. QED
  BY <1>1, <1>2, <1>3, <1>4, <1>5, <1>6, <1>7, <1>8 DEF Next

\* The databases, the keys and the rows of a merge have their types whatever
\* fails, provided None is no database.
THEOREM TypeCorrect ==
  ASSUME MaxTries \in Nat, ~Database(None)
  PROVE  Spec => []TypeOK
<1>1. Init => TypeInv
  BY InitTypeInv
<1>2. TypeInv /\ [Next]_vars => TypeInv'
  BY NextTypeInv
<1>3. TypeInv => TypeOK
  BY DEF TypeInv
<1>4. QED
  BY <1>1, <1>2, <1>3, PTL DEF Spec

----------------------------------------------------------------------------
(* No row of the account is lost.                                          *)

\* What the step of a row does: it is left out, if its content is known or its
\* key or name is taken, or it is inserted.
LeftOut(pk) ==
    /\ db2[table][pk] \in db1_data_map
          \/ Conflicts(table, Mapped(table, pk), Remapped(table, db2[table][pk]))
    /\ UNCHANGED <<db1, db1_data_map>>
Goes(pk) ==
    /\ db2[table][pk] \notin db1_data_map
    /\ ~Conflicts(table, Mapped(table, pk), Remapped(table, db2[table][pk]))
    /\ Insert(table, Mapped(table, pk), Remapped(table, db2[table][pk]))
    /\ db1_data_map' = db1_data_map \cup {db2[table][pk]}

LEMMA RowSteps ==
  ASSUME InsertRow
  PROVE  /\ rows' = rows \ {Min(rows)} /\ (LeftOut(Min(rows)) \/ Goes(Min(rows)))
         /\ phase = "merge" /\ rows # {}
         /\ UNCHANGED <<db2, before, unique, skipped, phase, pk_mapping, todo, table, tries>>
BY DEF InsertRow, LeftOut, Goes, given

LEMMA RowGoes ==
  ASSUME TypeInv, InsertRow, Goes(Min(rows))
  PROVE  LET pk == Min(rows)
             k == Mapped(table, pk)
             row == Remapped(table, db2[table][pk])
         IN /\ k \notin DOMAIN db1[table]
            /\ DOMAIN db1'[table] = DOMAIN db1[table] \cup {k} /\ db1'[table][k] = row
            /\ \A q \in DOMAIN db1[table] : db1'[table][q] = db1[table][q]
            /\ \A t \in Tables : t # table => db1'[t] = db1[t]
            /\ Contents(db1[table])' = Contents(db1[table]) \cup {row}
<1>1. /\ Insert(table, Mapped(table, Min(rows)), Remapped(table, db2[table][Min(rows)]))
      /\ Mapped(table, Min(rows)) \notin DOMAIN db1[table]
  BY DEF Goes, Conflicts
<1>2. table' = table
  BY RowSteps
<1>3. QED
  BY <1>1, <1>2, RowFits, Inserted DEF Contents

LEMMA NextKeepsRows ==
  ASSUME TypeInv, [Next]_vars, db1 # None, NEW t \in Tables
  PROVE  /\ \A pk \in DOMAIN db1[t] : pk \in DOMAIN db1'[t] /\ db1'[t][pk] = db1[t][pk]
         /\ Contents(db1[t]) \subseteq Contents(db1[t])'
<1>1. \A pk \in DOMAIN db1[t] : pk \in DOMAIN db1'[t] /\ db1'[t][pk] = db1[t][pk]
  <2>1. CASE InsertRow
    <3>1. CASE LeftOut(Min(rows))
      BY <3>1 DEF LeftOut
    <3>2. CASE Goes(Min(rows))
      BY <2>1, <3>2, RowGoes
    <3>3. QED
      BY <2>1, <3>1, <3>2, RowSteps
  <2>2. CASE merge_db_whatsapp
    BY <2>2 DEF merge_db_whatsapp
  <2>3. CASE ~InsertRow /\ ~merge_db_whatsapp
    BY <2>3 DEF Next, vars, Analyze, ProcessTable, Completed, RemoveDb2, Fails
  <2>4. QED
    BY <2>1, <2>2, <2>3
<1>2. Contents(db1[t]) \subseteq Contents(db1[t])'
  BY <1>1 DEF Contents
<1>3. QED
  BY <1>1, <1>2

\* No merge, whether it fails, is stopped or repeated, changes or removes a row
\* that the database of the account had.
THEOREM AccountKeepsItsRows ==
  ASSUME MaxTries \in Nat, ~Database(None)
  PROVE  Spec => RowsKept
<1>1. Init => TypeInv
  BY InitTypeInv
<1>2. TypeInv /\ [Next]_vars => TypeInv'
  BY NextTypeInv
<1>3. TypeInv /\ [Next]_vars =>
        [db1 # None => \A t \in Tables : \A pk \in DOMAIN db1[t] :
           pk \in DOMAIN db1'[t] /\ db1'[t][pk] = db1[t][pk]]_vars
  BY NextKeepsRows
<1>4. QED
  BY <1>1, <1>2, <1>3, PTL DEF Spec, RowsKept

----------------------------------------------------------------------------
(* No row that was pulled is lost.                                         *)

\* A row still to come, in a merge that is writing.
Pending(t, pk) == t \in todo \/ (t = table /\ pk \in rows)

\* Rows without a new key are known; new keys are not in use before their rows
\* are written, and differ.
MappingRight ==
    phase = "merge" => \A t \in Tables \ skipped :
        /\ DOMAIN pk_mapping[t] \subseteq DOMAIN db2[t]
        /\ \A pk \in DOMAIN db2[t] \ DOMAIN pk_mapping[t] : db2[t][pk] \in Contents(db1[t])
        /\ \A pk \in DOMAIN pk_mapping[t] : Pending(t, pk) => pk_mapping[t][pk] \notin DOMAIN db1[t]
        /\ \A p, q \in DOMAIN pk_mapping[t] : p # q => pk_mapping[t][p] # pk_mapping[t][q]

\* A row that is not to come is there.
Settled ==
    phase \in {"merge", "remove"} => \A t \in Tables \ skipped : \A pk \in DOMAIN db2[t] :
        Pending(t, pk) \/ Present(t, db2[t][pk])

\* The known contents are there, and those of rows without a new key are known.
DataMapRight ==
    rows # {} =>
        /\ \A pk \in DOMAIN db2[table] \ DOMAIN pk_mapping[table] : db2[table][pk] \in db1_data_map
        /\ \A row \in db1_data_map : Present(table, row)

MergeInv == MappingRight /\ Settled /\ DataMapRight

LEMMA AnalyzeMaps ==
  ASSUME TypeInv, Analyze, NEW t \in Tables \ skipped
  PROVE  /\ pk_mapping'[t] = NewKeys(t)
         /\ DOMAIN pk_mapping'[t] = {pk \in DOMAIN db2[t] : db2[t][pk] \notin Contents(db1[t])}
         /\ \A p \in DOMAIN pk_mapping'[t] : pk_mapping'[t][p] \notin DOMAIN db1[t]
         /\ \A p, q \in DOMAIN pk_mapping'[t] : p # q => pk_mapping'[t][p] # pk_mapping'[t][q]
         /\ t \in todo' /\ phase' = "merge" /\ UNCHANGED <<db1, db2, skipped>>
<1>1. /\ pk_mapping'[t] = NewKeys(t) /\ t \in todo' /\ phase' = "merge"
      /\ db1 # None /\ db2 # None /\ UNCHANGED <<db1, db2, skipped>>
  BY DEF Analyze, TypeInv, TypeOK, given
<1>2. QED
  BY <1>1, NewKeysFresh DEF TypeInv

\* The rows of the table that is begun are all to come; those of others are as
\* they were.
LEMMA TableBegins ==
  ASSUME TypeInv, ProcessTable
  PROVE  /\ \A t \in Tables : \A pk \in DOMAIN db2[t] : Pending(t, pk)' <=> Pending(t, pk)
         /\ table' \in todo /\ table' \in Tables \ skipped /\ todo' = todo \ {table'}
         /\ rows = {} /\ rows' = DOMAIN db2[table']
         /\ db1_data_map' = Contents(db1[table'])
         /\ phase = "merge" /\ UNCHANGED <<db1, db2, before, unique, skipped, phase, pk_mapping, tries>>
         /\ db1 # None
BY DEF ProcessTable, TypeInv, TypeOK, Pending, given

LEMMA RowLeaves ==
  ASSUME TypeInv, InsertRow
  PROVE  /\ \A t \in Tables : \A pk : Pending(t, pk)' <=> Pending(t, pk) /\ ~(t = table /\ pk = Min(rows))
         /\ Pending(table, Min(rows)) /\ db1 # None
<1>1. table \notin todo /\ Min(rows) \in rows
  BY RowFits
<1>2. QED
  BY <1>1, RowSteps DEF Pending, TypeInv, TypeOK

\* What is there stays there, as long as the new keys are the same.
LEMMA PresentStays ==
  ASSUME TypeInv, [Next]_vars, UNCHANGED <<pk_mapping, unique>>, db1 # None,
         NEW t \in Tables, NEW row, Present(t, row)
  PROVE  Present(t, row)'
<1>1. Contents(db1[t]) \subseteq Contents(db1[t])'
  BY NextKeepsRows
<1>2. Remapped(t, row)' = Remapped(t, row)
  BY DEF Remapped, Mapped
<1>3. CASE NameTaken(t, row)
  BY <1>1, <1>3 DEF NameTaken, Present
<1>4. CASE {row, Remapped(t, row)} \cap Contents(db1[t]) # {}
  BY <1>1, <1>2, <1>4 DEF Present
<1>5. QED
  BY <1>3, <1>4 DEF Present

LEMMA InitMergeInv == Init => MergeInv
BY DEF Init, Ready, MergeInv, MappingRight, Settled, DataMapRight

LEMMA NextMappingRight ==
  ASSUME TypeInv, MergeInv, [Next]_vars
  PROVE  MappingRight'
<1>1. CASE Analyze
  <2>1. ASSUME NEW t \in Tables \ skipped
        PROVE  (/\ DOMAIN pk_mapping[t] \subseteq DOMAIN db2[t]
                /\ \A pk \in DOMAIN db2[t] \ DOMAIN pk_mapping[t] : db2[t][pk] \in Contents(db1[t])
                /\ \A pk \in DOMAIN pk_mapping[t] : pk_mapping[t][pk] \notin DOMAIN db1[t]
                /\ \A p, q \in DOMAIN pk_mapping[t] : p # q => pk_mapping[t][p] # pk_mapping[t][q])'
    BY <1>1, AnalyzeMaps DEF Contents
  <2>2. skipped' = skipped
    BY <1>1 DEF Analyze, given
  <2>3. QED
    BY <2>1, <2>2 DEF MappingRight
<1>2. CASE ProcessTable
  <2>1. phase = "merge" /\ UNCHANGED <<db1, db2, skipped, phase, pk_mapping>>
    BY <1>2, TableBegins
  <2>2. ASSUME NEW t \in Tables \ skipped, NEW pk \in DOMAIN pk_mapping[t]
        PROVE  Pending(t, pk)' => Pending(t, pk)
    BY <1>2, <2>1, TableBegins DEF MergeInv, MappingRight
  <2>3. QED
    BY <2>1, <2>2 DEF MergeInv, MappingRight, Contents
<1>3. CASE InsertRow
  <2>1. phase = "merge" /\ UNCHANGED <<db2, skipped, phase, pk_mapping>> /\ db1 # None
    BY <1>3, RowSteps, RowLeaves
  <2>2. ASSUME NEW t \in Tables \ skipped
        PROVE  Contents(db1[t]) \subseteq Contents(db1[t])'
    BY <2>1, NextKeepsRows
  <2>3. ASSUME NEW t \in Tables \ skipped, NEW pk \in DOMAIN pk_mapping[t], Pending(t, pk)'
        PROVE  pk_mapping[t][pk] \notin DOMAIN db1'[t]
    <3>1. Pending(t, pk) /\ ~(t = table /\ pk = Min(rows))
      BY <1>3, <2>3, RowLeaves
    <3>2. pk_mapping[t][pk] \notin DOMAIN db1[t]
      BY <2>1, <3>1 DEF MergeInv, MappingRight
    <3>3. CASE LeftOut(Min(rows))
      BY <3>2, <3>3 DEF LeftOut
    <3>4. CASE Goes(Min(rows)) /\ t # table
      BY <1>3, <3>2, <3>4, RowGoes
    <3>5. CASE Goes(Min(rows)) /\ t = table
      <4>1. DOMAIN db1'[t] = DOMAIN db1[t] \cup {Mapped(table, Min(rows))}
        BY <1>3, <3>5, RowGoes
      <4>2. Min(rows) \in DOMAIN pk_mapping[t]
        <5>1. Min(rows) \in DOMAIN db2[t] /\ db2[t][Min(rows)] \notin db1_data_map /\ rows # {}
          BY <1>3, <3>5, RowFits, RowSteps DEF Goes
        <5>2. QED
          BY <3>5, <5>1 DEF MergeInv, DataMapRight
      <4>3. Mapped(table, Min(rows)) = pk_mapping[t][Min(rows)]
        BY <3>5, <4>2 DEF Mapped
      <4>4. pk_mapping[t][pk] # pk_mapping[t][Min(rows)]
        BY <2>1, <3>1, <3>5, <4>2 DEF MergeInv, MappingRight
      <4>5. QED
        BY <3>2, <4>1, <4>3, <4>4
    <3>6. QED
      BY <1>3, <3>3, <3>4, <3>5, RowSteps
  <2>4. QED
    BY <2>1, <2>2, <2>3 DEF MergeInv, MappingRight
<1>4. CASE UNCHANGED vars
  BY <1>4 DEF vars, MergeInv, MappingRight, Pending, Contents
<1>5. CASE ~Analyze /\ ~ProcessTable /\ ~InsertRow /\ Next
  <2>1. phase' # "merge"
    BY <1>5 DEF Next, merge_db_whatsapp, Completed, RemoveDb2, Fails, TypeInv, TypeOK
  <2>2. QED
    BY <2>1 DEF MappingRight
<1>6. QED
  BY <1>1, <1>2, <1>3, <1>4, <1>5 DEF Next

LEMMA NextDataMapRight ==
  ASSUME TypeInv, MergeInv, [Next]_vars
  PROVE  DataMapRight'
<1>1. CASE ProcessTable
  <2>1. /\ phase = "merge" /\ UNCHANGED <<db1, db2, pk_mapping>> /\ table' \in Tables \ skipped
        /\ db1_data_map' = Contents(db1[table'])
    BY <1>1, TableBegins
  <2>2. \A pk \in DOMAIN db2[table'] \ DOMAIN pk_mapping[table'] : db2[table'][pk] \in Contents(db1[table'])
    BY <2>1 DEF MergeInv, MappingRight
  <2>3. \A row \in Contents(db1[table']) : Present(table, row)'
    BY <2>1 DEF Present, Contents
  <2>4. QED
    BY <2>1, <2>2, <2>3 DEF DataMapRight
<1>2. CASE InsertRow
  <2>1. /\ rows # {} /\ UNCHANGED <<db2, unique, pk_mapping, table>> /\ db1 # None /\ table \in Tables
        /\ db1_data_map \subseteq db1_data_map'
    BY <1>2, RowSteps, RowLeaves, RowFits DEF LeftOut, Goes
  <2>2. \A pk \in DOMAIN db2[table] \ DOMAIN pk_mapping[table] : db2[table][pk] \in db1_data_map'
    BY <2>1 DEF MergeInv, DataMapRight
  <2>3. ASSUME NEW row \in db1_data_map PROVE Present(table, row)'
    <3>1. Present(table, row)
      BY <2>1 DEF MergeInv, DataMapRight
    <3>2. \A t \in Tables : Present(t, row) => Present(t, row)'
      BY <2>1, PresentStays
    <3>3. QED
      BY <2>1, <3>1, <3>2
  <2>4. CASE LeftOut(Min(rows))
    BY <2>1, <2>2, <2>3, <2>4 DEF LeftOut, DataMapRight
  <2>5. CASE Goes(Min(rows))
    <3>1. ASSUME NEW row, row = db2[table][Min(rows)] PROVE Present(table, row)'
      <4>1. Remapped(table, row) \in Contents(db1[table])'
        BY <1>2, <2>5, <3>1, RowGoes
      <4>2. Remapped(table, row)' = Remapped(table, row)
        BY <2>1 DEF Remapped, Mapped
      <4>3. QED
        BY <2>1, <4>1, <4>2 DEF Present
    <3>2. db1_data_map' = db1_data_map \cup {db2[table][Min(rows)]}
      BY <2>5 DEF Goes
    <3>3. QED
      BY <2>1, <2>2, <2>3, <3>1, <3>2 DEF DataMapRight
  <2>6. QED
    BY <1>2, <2>4, <2>5, RowSteps
<1>3. CASE UNCHANGED vars
  BY <1>3 DEF vars, MergeInv, DataMapRight, Present, NameTaken, Remapped, Mapped, Contents
<1>4. CASE ~ProcessTable /\ ~InsertRow /\ Next
  <2>1. rows' = {}
    BY <1>4 DEF Next, merge_db_whatsapp, Analyze, Completed, RemoveDb2, Fails, TypeInv, Steady, pass
  <2>2. QED
    BY <2>1 DEF DataMapRight
<1>5. QED
  BY <1>1, <1>2, <1>3, <1>4 DEF Next

\* A row that is left out was known, or a row with its name is there.
LEMMA NextSettled ==
  ASSUME TypeInv, MergeInv, [Next]_vars
  PROVE  Settled'
<1>1. CASE InsertRow
  <2>1. /\ UNCHANGED <<db2, unique, skipped, phase, pk_mapping, table>> /\ db1 # None /\ rows # {}
        /\ phase = "merge"
    BY <1>1, RowSteps, RowLeaves
  <2>2. ASSUME NEW t \in Tables \ skipped, NEW pk \in DOMAIN db2[t], ~Pending(t, pk)'
        PROVE  Present(t, db2[t][pk])'
    <3>1. db2'[t][pk] = db2[t][pk]
      BY <2>1
    <3>2. CASE ~Pending(t, pk)
      <4>1. Present(t, db2[t][pk])
        BY <2>1, <3>2 DEF MergeInv, Settled
      <4>2. ASSUME NEW row, row = db2[t][pk] PROVE Present(t, row)'
        BY <2>1, <4>1, <4>2, PresentStays
      <4>3. QED
        BY <3>1, <4>2
    <3>3. CASE t = table /\ pk = Min(rows)
      <4>1. t \in Tables \ skipped /\ db2[t][pk] \in Row(t)
        BY <1>1, <3>3, RowFits
      <4>2. CASE db2[t][pk] \in db1_data_map
        <5>1. Present(t, db2[t][pk])
          BY <2>1, <3>3, <4>2 DEF MergeInv, DataMapRight
        <5>2. ASSUME NEW row, row = db2[t][pk] PROVE Present(t, row)'
          BY <2>1, <5>1, <5>2, PresentStays
        <5>3. QED
          BY <3>1, <5>2
      <4>3. CASE db2[t][pk] \notin db1_data_map /\ LeftOut(Min(rows))
        <5>1. pk \in DOMAIN pk_mapping[t] /\ Pending(t, pk)
          BY <1>1, <2>1, <3>3, <4>3, RowLeaves DEF MergeInv, DataMapRight
        <5>2. pk_mapping[t][pk] \notin DOMAIN db1[t]
          BY <2>1, <5>1 DEF MergeInv, MappingRight
        <5>3. Conflicts(t, pk_mapping[t][pk], Remapped(t, db2[t][pk]))
          BY <3>3, <4>3, <5>1 DEF LeftOut, Mapped
        <5>4. t = "jid" /\ unique /\ \E r \in Contents(db1[t]) : r.name = db2[t][pk].name
          BY <5>2, <5>3 DEF Conflicts, Remapped
        <5>5. Present(t, db2[t][pk])
          BY <5>4 DEF Present, NameTaken
        <5>6. ASSUME NEW row, row = db2[t][pk] PROVE Present(t, row)'
          BY <2>1, <5>5, <5>6, PresentStays
        <5>7. QED
          BY <3>1, <5>6
      <4>4. CASE db2[t][pk] \notin db1_data_map /\ Goes(Min(rows))
        <5>1. db1_data_map' = db1_data_map \cup {db2[t][pk]}
          BY <3>3, <4>4 DEF Goes
        <5>2. Remapped(t, db2[t][pk]) \in Contents(db1[t])'
          BY <1>1, <2>1, <3>3, <4>4, RowGoes DEF Contents
        <5>3. ASSUME NEW row, row = db2[t][pk] PROVE Present(t, row)'
          <6>1. Remapped(t, row)' = Remapped(t, row)
            BY <2>1 DEF Remapped, Mapped
          <6>2. QED
            BY <5>2, <5>3, <6>1 DEF Present
        <5>4. QED
          BY <3>1, <5>3
      <4>5. QED
        BY <1>1, <3>3, <4>2, <4>3, <4>4, RowSteps
    <3>4. QED
      BY <1>1, <2>2, <3>2, <3>3, RowLeaves
  <2>3. QED
    BY <2>1, <2>2 DEF Settled
<1>2. CASE Analyze
  <2>1. todo' = Tables \ skipped'
    BY <1>2 DEF Analyze, given
  <2>2. QED
    BY <2>1 DEF Settled, Pending
<1>3. CASE ProcessTable
  <2>1. phase = "merge" /\ UNCHANGED <<db1, db2, unique, skipped, pk_mapping>>
    BY <1>3, TableBegins
  <2>2. ASSUME NEW t \in Tables \ skipped, NEW pk \in DOMAIN db2[t]
        PROVE  Pending(t, pk)' \/ Present(t, db2[t][pk])
    BY <1>3, <2>1, TableBegins DEF MergeInv, Settled
  <2>3. QED
    BY <2>1, <2>2 DEF Settled, Present, NameTaken, Remapped, Mapped, Contents
<1>4. CASE Completed
  <2>1. phase = "merge" /\ rows = {} /\ todo = {} /\ UNCHANGED <<db1, db2, unique, skipped, pk_mapping, todo, rows>>
    BY <1>4 DEF Completed, given, pass
  <2>2. QED
    BY <2>1 DEF MergeInv, Settled, Pending, Present, NameTaken, Remapped, Mapped, Contents
<1>5. CASE UNCHANGED vars
  BY <1>5 DEF vars, MergeInv, Settled, Pending, Present, NameTaken, Remapped, Mapped, Contents
<1>6. CASE merge_db_whatsapp \/ RemoveDb2 \/ Fails
  <2>1. phase' \notin {"merge", "remove"}
    BY <1>6 DEF merge_db_whatsapp, RemoveDb2, Fails
  <2>2. QED
    BY <2>1 DEF Settled
<1>7. QED
  BY <1>1, <1>2, <1>3, <1>4, <1>5, <1>6 DEF Next

LEMMA NextMergeInv ==
  ASSUME TypeInv, MergeInv, [Next]_vars
  PROVE  MergeInv'
BY NextMappingRight, NextDataMapRight, NextSettled DEF MergeInv

LEMMA RemovalLosesNothing ==
  ASSUME TypeInv, MergeInv, [Next]_vars, db2 # None, db2' = None
  PROVE  \A t \in Tables \ skipped : \A row \in Contents(db2[t]) : Present(t, row)'
<1>1. CASE RemoveDb2
  <2>1. phase = "remove" /\ UNCHANGED <<db1, unique, pk_mapping>> /\ rows = {} /\ todo = {}
    BY <1>1 DEF RemoveDb2, TypeInv, Steady, given, pass
  <2>2. ASSUME NEW t \in Tables \ skipped, NEW pk \in DOMAIN db2[t]
        PROVE  Present(t, db2[t][pk])
    BY <2>1 DEF MergeInv, Settled, Pending
  <2>3. QED
    BY <2>1, <2>2 DEF Contents, Present, NameTaken, Remapped, Mapped
<1>2. CASE merge_db_whatsapp
  <2>1. db1' = db2
    BY <1>2 DEF merge_db_whatsapp
  <2>2. QED
    BY <2>1 DEF Present, Contents
<1>3. CASE ~RemoveDb2 /\ ~merge_db_whatsapp
  BY <1>3 DEF Next, vars, Analyze, ProcessTable, InsertRow, Completed, Fails
<1>4. QED
  BY <1>1, <1>2, <1>3

\* However often a merge fails, is stopped and is tried again, the rows of the account
\* stay, and when the pulled database is removed each row of its merged tables is in the
\* other with all its columns, or is a jid whose name was taken
\* (merge_dbs_sqlite.py:115-122, 173-181, 229-237).
THEOREM NothingLost ==
  ASSUME MaxTries \in Nat, ~Database(None)
  PROVE  Spec => MergeLosesNothing
<1>1. Init => TypeInv /\ MergeInv
  BY InitTypeInv, InitMergeInv
<1>2. TypeInv /\ MergeInv /\ [Next]_vars => (TypeInv /\ MergeInv)'
  BY NextTypeInv, NextMergeInv
<1>3. TypeInv /\ MergeInv /\ [Next]_vars =>
        [db2 # None /\ db2' = None =>
           \A t \in Tables \ skipped : \A row \in Contents(db2[t]) : Present(t, row)']_vars
  BY RemovalLosesNothing
<1>4. Spec => RemovedWhenMerged
  BY <1>1, <1>2, <1>3, PTL DEF Spec, RemovedWhenMerged
<1>5. QED
  BY <1>4, AccountKeepsItsRows DEF MergeLosesNothing

----------------------------------------------------------------------------
(* No jid is added twice.                                                  *)

\* While jids are written, the contents of those in the database are known.
JidsKnown == rows # {} /\ table = "jid" => Contents(db1["jid"]) \subseteq db1_data_map
JidsInv == JidsOnce /\ JidsKnown /\ (before # None => db1 # None)

LEMMA NextJidsInv ==
  ASSUME TypeInv, TypeInv', JidsInv, [Next]_vars
  PROVE  JidsInv'
<1> USE DEF JidsInv
<1>1. CASE InsertRow
  <2>1. /\ UNCHANGED <<before, table>> /\ db1 # None /\ db1' # None /\ rows # {} /\ rows' \subseteq rows
    <3>1. db1 # None /\ UNCHANGED <<before, table, phase>> /\ phase = "merge" /\ rows # {}
          /\ rows' \subseteq rows
      BY <1>1, RowSteps, RowLeaves
    <3>2. QED
      BY <3>1 DEF TypeInv, TypeOK
  <2>2. CASE table = "jid" /\ Goes(Min(rows))
    <3> DEFINE k == Mapped(table, Min(rows))
               row == db2[table][Min(rows)]
    <3>1. Remapped(table, row) = row
      BY <2>2 DEF Remapped
    <3>2. /\ DOMAIN db1'["jid"] = DOMAIN db1["jid"] \cup {k} /\ db1'["jid"][k] = row
          /\ \A q \in DOMAIN db1["jid"] : db1'["jid"][q] = db1["jid"][q]
          /\ Contents(db1["jid"])' = Contents(db1["jid"]) \cup {row}
      BY <1>1, <2>1, <2>2, <3>1, RowGoes DEF Contents
    <3>3. db1_data_map' = db1_data_map \cup {row} /\ row \notin db1_data_map
      BY <2>2 DEF Goes
    <3>4. row \notin Contents(db1["jid"])
      BY <2>1, <2>2, <3>3 DEF JidsKnown
    <3> HIDE DEF k, row
    <3>5. \A q \in DOMAIN db1["jid"] : db1["jid"][q] # row
      BY <3>4 DEF Contents
    <3>6. JidsKnown'
      BY <2>1, <2>2, <3>2, <3>3 DEF JidsKnown, Contents
    <3>7. JidsOnce'
      <4> SUFFICES ASSUME before # None, NEW p \in DOMAIN db1'["jid"], NEW q \in DOMAIN db1'["jid"],
                          db1'["jid"][p] = db1'["jid"][q], p # q
                   PROVE  {p, q} \subseteq DOMAIN before["jid"]
        BY <2>1 DEF JidsOnce
      <4>1. p \in DOMAIN db1["jid"] /\ q \in DOMAIN db1["jid"]
        BY <3>2, <3>5
      <4>2. db1["jid"][p] = db1["jid"][q]
        BY <3>2, <4>1
      <4>3. QED
        BY <2>1, <4>1, <4>2 DEF JidsOnce
    <3>8. QED
      BY <2>1, <3>6, <3>7
  <2>3. CASE table # "jid" /\ Goes(Min(rows))
    <3>1. db1'["jid"] = db1["jid"]
      BY <1>1, <2>3, RowGoes DEF Tables
    <3>2. QED
      BY <2>1, <2>3, <3>1 DEF JidsOnce, JidsKnown
  <2>4. CASE LeftOut(Min(rows))
    BY <2>1, <2>4 DEF LeftOut, JidsOnce, JidsKnown, Contents
  <2>5. QED
    BY <1>1, <2>2, <2>3, <2>4, RowSteps
<1>2. CASE ProcessTable
  BY <1>2, TableBegins DEF JidsOnce, JidsKnown, Contents
<1>3. CASE merge_db_whatsapp
  BY <1>3 DEF merge_db_whatsapp, TypeInv, Steady, JidsOnce, JidsKnown, Contents, given, pass
<1>4. CASE Next /\ ~InsertRow /\ ~ProcessTable /\ ~merge_db_whatsapp
  <2>1. UNCHANGED <<db1, before>> /\ rows' = {}
    BY <1>4 DEF Next, Analyze, Completed, RemoveDb2, Fails, given, pass, TypeInv, Steady
  <2>2. QED
    BY <2>1 DEF JidsOnce, JidsKnown
<1>5. CASE UNCHANGED vars
  BY <1>5 DEF vars, JidsOnce, JidsKnown, Contents
<1>6. QED
  BY <1>1, <1>2, <1>3, <1>4, <1>5

\* However often merges are tried and the same jids are pulled, a jid is added
\* once: only rows that the account had from the start can be equal.
THEOREM NoJidAddedTwice ==
  ASSUME MaxTries \in Nat, ~Database(None)
  PROVE  Spec => []JidsOnce
<1>1. Init => TypeInv /\ JidsInv
  <2>1. Init => JidsInv
    BY DEF Init, Ready, JidsInv, JidsOnce, JidsKnown
  <2>2. QED
    BY <2>1, InitTypeInv
<1>2. TypeInv /\ JidsInv /\ [Next]_vars => (TypeInv /\ JidsInv)'
  BY NextTypeInv, NextJidsInv
<1>3. JidsInv => JidsOnce
  BY DEF JidsInv
<1>4. QED
  BY <1>1, <1>2, <1>3, PTL DEF Spec

----------------------------------------------------------------------------
(* New messages refer to the new jids they referred to.                    *)

\* The jid with key k was pulled once, is new, and its name is not taken.
Once(k) ==
    LET jid == db2["jid"][k] IN
    /\ \A r \in Contents(before["jid"]) : r # jid /\ (unique => r.name # jid.name)
    /\ \A pk \in DOMAIN db2["jid"] : db2["jid"][pk] = jid => pk = k
    /\ unique => \A pk \in DOMAIN db2["jid"] : db2["jid"][pk].name = jid.name => pk = k

\* The first merge, of all tables.
First == tries = 1 /\ skipped = {} /\ phase # "idle"
Writes == phase \in {"merge", "remove"}

\* It starts from the database of the account as it was, ...
FirstStarts ==
    /\ tries = 0 => phase = "idle" /\ db1 = before
    /\ First /\ phase = "analyze" => db1 = before

\* ... the new rows are those whose content was not there, ...
FirstKeys ==
    First /\ Writes => \A t \in Tables :
        /\ DOMAIN pk_mapping[t] = {pk \in DOMAIN db2[t] : db2[t][pk] \notin Contents(before[t])}
        /\ t \in todo => db1[t] = before[t]

\* ... what was added are rows of the pulled database that are not to come, ...
FirstKnown ==
    First /\ Writes =>
        /\ \A r \in Contents(db1["jid"]) :
               \/ r \in Contents(before["jid"])
               \/ \E pk \in DOMAIN db2["jid"] : ~Pending("jid", pk) /\ r = db2["jid"][pk]
        /\ rows # {} => \A r \in db1_data_map :
               \/ r \in Contents(before[table])
               \/ \E pk \in DOMAIN db2[table] \ rows : r = db2[table][pk]

\* ... a jid pulled once is stored under its new key, and a message is stored
\* with the new key of its jid.
FirstJids ==
    First /\ Writes => \A k \in DOMAIN db2["jid"] : Once(k) /\ ~Pending("jid", k) =>
        pk_mapping["jid"][k] \in DOMAIN db1["jid"] /\ db1["jid"][pk_mapping["jid"][k]] = db2["jid"][k]
Stored(row) ==
    \E m \in Contents(db1["message"]) : m.text = row.text /\ m.jid = Mapped("jid", row.jid)
FirstMessages ==
    First /\ Writes => \A pk \in DOMAIN pk_mapping["message"] :
        Once(db2["message"][pk].jid) /\ ~Pending("message", pk) => Stored(db2["message"][pk])

FirstInv == FirstStarts /\ FirstKeys /\ FirstKnown /\ FirstJids /\ FirstMessages

\* Nothing of it changes later.
LEMMA FirstGoesOn ==
  ASSUME TypeInv, FirstInv, [Next]_vars, First', Writes'
  PROVE  /\ UNCHANGED <<db2, before, unique, skipped, tries>> /\ First /\ phase # "idle"
         /\ Analyze \/ (Writes /\ pk_mapping' = pk_mapping)
         /\ ~Analyze => \/ ProcessTable
                         \/ InsertRow
                         \/ UNCHANGED <<db1, table, rows, todo, db1_data_map>>
         /\ \A k : Once(k)' <=> Once(k)
<1>1. /\ UNCHANGED <<db2, before, unique, skipped, tries>> /\ phase # "idle"
      /\ Analyze \/ (Writes /\ pk_mapping' = pk_mapping)
      /\ ~Analyze => ProcessTable \/ InsertRow \/ UNCHANGED <<db1, table, rows, todo, db1_data_map>>
  BY DEF First, Writes, Next, vars, merge_db_whatsapp, Analyze, ProcessTable, InsertRow,
         Completed, RemoveDb2, Fails, given, pass
<1>2. QED
  BY <1>1 DEF First, Once, Contents

LEMMA NextFirstStarts ==
  ASSUME TypeInv, FirstInv, [Next]_vars
  PROVE  FirstStarts'
<1>1. CASE merge_db_whatsapp
  BY <1>1 DEF merge_db_whatsapp, FirstInv, FirstStarts, First, TypeInv, TypeOK, given
<1>2. CASE ~merge_db_whatsapp
  <2>1. tries' = tries /\ before' = before /\ (phase' \in {"idle", "analyze"} => phase' = "idle" \/ phase' = phase)
        /\ (phase \in {"idle", "analyze"} /\ phase' = phase => db1' = db1) /\ skipped' = skipped
        /\ (phase = "idle" => phase' = "idle")
    BY <1>2 DEF Next, vars, Analyze, ProcessTable, InsertRow, Completed, RemoveDb2, Fails, given
  <2>2. QED
    BY <2>1 DEF FirstInv, FirstStarts, First
<1>3. QED
  BY <1>1, <1>2

LEMMA NextFirstKeys ==
  ASSUME TypeInv, FirstInv, [Next]_vars
  PROVE  FirstKeys'
<1> SUFFICES ASSUME First', Writes', NEW t \in Tables
             PROVE  (/\ DOMAIN pk_mapping[t] = {pk \in DOMAIN db2[t] : db2[t][pk] \notin Contents(before[t])}
                     /\ t \in todo => db1[t] = before[t])'
  BY DEF FirstKeys
<1>1. UNCHANGED <<db2, before, skipped>> /\ First
  BY FirstGoesOn
<1>2. CASE Analyze
  <2>1. db1 = before /\ db1' = before' /\ t \in Tables \ skipped
    BY <1>1, <1>2 DEF FirstInv, FirstStarts, First, Analyze
  <2>2. QED
    BY <1>1, <1>2, <2>1, AnalyzeMaps DEF Contents
<1>3. CASE ~Analyze
  <2>1. pk_mapping' = pk_mapping /\ Writes
    BY <1>3, FirstGoesOn
  <2>2. DOMAIN pk_mapping[t] = {pk \in DOMAIN db2[t] : db2[t][pk] \notin Contents(before[t])}
    BY <1>1, <2>1 DEF FirstInv, FirstKeys
  <2>3. ASSUME t \in todo' PROVE db1'[t] = before'[t]
    <3>1. t \in todo /\ db1'[t] = db1[t]
      <4>1. CASE ProcessTable
        BY <2>3, <4>1, TableBegins
      <4>2. CASE InsertRow
        <5>1. t \in todo /\ t # table
          BY <2>3, <4>2, RowSteps, RowFits
        <5>2. QED
          BY <4>2, <5>1, RowSteps, RowGoes DEF LeftOut
      <4>3. QED
        BY <1>3, <2>3, <4>1, <4>2, FirstGoesOn
    <3>2. QED
      BY <1>1, <2>1, <3>1 DEF FirstInv, FirstKeys
  <2>4. QED
    BY <1>1, <2>1, <2>2, <2>3 DEF Contents
<1>4. QED
  BY <1>2, <1>3

LEMMA NextFirstKnown ==
  ASSUME TypeInv, FirstInv, [Next]_vars
  PROVE  FirstKnown'
<1> SUFFICES ASSUME First', Writes'
             PROVE  (/\ \A r \in Contents(db1["jid"]) :
                            \/ r \in Contents(before["jid"])
                            \/ \E pk \in DOMAIN db2["jid"] : ~Pending("jid", pk) /\ r = db2["jid"][pk]
                     /\ rows # {} => \A r \in db1_data_map :
                            \/ r \in Contents(before[table])
                            \/ \E pk \in DOMAIN db2[table] \ rows : r = db2[table][pk])'
  BY DEF FirstKnown
<1>1. UNCHANGED <<db2, before, skipped>> /\ First
  BY FirstGoesOn
<1>2. CASE Analyze
  <2>1. db1 = before /\ db1' = before' /\ rows' = {}
    BY <1>1, <1>2 DEF FirstInv, FirstStarts, First, Analyze, TypeInv, Steady
  <2>2. QED
    BY <1>1, <2>1 DEF Contents
<1>3. CASE ~Analyze
  <2>1. Writes
    BY <1>3, FirstGoesOn
  <2>2. \A r \in Contents(db1["jid"]) :
            \/ r \in Contents(before["jid"])
            \/ \E pk \in DOMAIN db2["jid"] : ~Pending("jid", pk) /\ r = db2["jid"][pk]
    BY <1>1, <2>1 DEF FirstInv, FirstKnown
  <2>3. rows # {} => \A r \in db1_data_map :
            \/ r \in Contents(before[table])
            \/ \E pk \in DOMAIN db2[table] \ rows : r = db2[table][pk]
    BY <1>1, <2>1 DEF FirstInv, FirstKnown
  <2>4. CASE ProcessTable
    <3>1. /\ db1' = db1 /\ table' \in todo /\ table' \in Tables /\ db1_data_map' = Contents(db1[table'])
          /\ \A pk \in DOMAIN db2["jid"] : Pending("jid", pk)' <=> Pending("jid", pk)
      BY <2>4, TableBegins DEF Tables
    <3>2. db1[table'] = before[table']
      BY <1>1, <2>1, <3>1 DEF FirstInv, FirstKeys
    <3>3. QED
      BY <1>1, <2>2, <3>1, <3>2 DEF Contents
  <2>5. CASE InsertRow
    <3> DEFINE pk == Min(rows)
               row == db2[table][pk]
    <3>1. /\ table' = table /\ rows' = rows \ {pk} /\ rows # {} /\ pk \in rows /\ pk \in DOMAIN db2[table]
          /\ \A p : Pending("jid", p)' <=> Pending("jid", p) /\ ~("jid" = table /\ p = pk)
      BY <2>5, RowSteps, RowFits, RowLeaves DEF Tables
    <3>2. CASE LeftOut(pk)
      BY <1>1, <2>2, <2>3, <3>1, <3>2 DEF LeftOut, Contents
    <3>3. CASE Goes(pk)
      <4>1. \A r \in db1_data_map' : r \in db1_data_map \/ r = row
        BY <3>3 DEF Goes
      <4>2. \A r \in Contents(db1["jid"])' : r \in Contents(db1["jid"]) \/ (table = "jid" /\ r = row)
        <5>1. CASE table = "jid"
          BY <2>5, <3>1, <3>3, <5>1, RowGoes DEF Remapped, Contents
        <5>2. CASE table # "jid"
          BY <2>5, <3>3, <5>2, RowGoes DEF Tables, Contents
        <5>3. QED
          BY <5>1, <5>2
      <4> HIDE DEF pk
      <4>3. \A r \in Contents(db1["jid"])' :
                \/ r \in Contents(before["jid"])
                \/ \E p \in DOMAIN db2["jid"] : ~Pending("jid", p)' /\ r = db2["jid"][p]
        BY <2>2, <3>1, <4>2
      <4>4. \A r \in db1_data_map' :
                \/ r \in Contents(before[table])
                \/ \E p \in DOMAIN db2[table] \ rows' : r = db2[table][p]
        BY <2>3, <3>1, <4>1
      <4>5. QED
        BY <1>1, <3>1, <4>3, <4>4 DEF Contents
    <3>4. QED
      BY <2>5, <3>2, <3>3, RowSteps
  <2>6. CASE UNCHANGED <<db1, table, rows, todo, db1_data_map>>
    BY <1>1, <2>2, <2>3, <2>6 DEF Contents, Pending
  <2>7. QED
    BY <1>3, <2>4, <2>5, <2>6, FirstGoesOn
<1>4. QED
  BY <1>2, <1>3

LEMMA NextFirstJids ==
  ASSUME TypeInv, MergeInv, FirstInv, [Next]_vars
  PROVE  FirstJids'
<1> SUFFICES ASSUME First', Writes', NEW k \in DOMAIN db2'["jid"], Once(k)', ~Pending("jid", k)'
             PROVE  (pk_mapping["jid"][k] \in DOMAIN db1["jid"]
                     /\ db1["jid"][pk_mapping["jid"][k]] = db2["jid"][k])'
  BY DEF FirstJids
<1>1. /\ UNCHANGED <<db2, before, skipped>> /\ First /\ Once(k) /\ k \in DOMAIN db2["jid"]
      /\ "jid" \in Tables \ skipped
  BY FirstGoesOn DEF First, Tables
<1>2. CASE Analyze
  BY <1>1, <1>2, AnalyzeMaps DEF Pending
<1>3. CASE ~Analyze
  <2>1. pk_mapping' = pk_mapping /\ Writes /\ db1 # None
    BY <1>3, FirstGoesOn DEF TypeInv, TypeOK, Writes
  <2>2. CASE ~Pending("jid", k)
    <3>1. pk_mapping["jid"][k] \in DOMAIN db1["jid"] /\ db1["jid"][pk_mapping["jid"][k]] = db2["jid"][k]
      BY <1>1, <2>1, <2>2 DEF FirstInv, FirstJids
    <3>2. QED
      BY <1>1, <2>1, <3>1, NextKeepsRows
  <2>3. CASE Pending("jid", k)
    <3>1. InsertRow /\ table = "jid" /\ k = Min(rows)
      <4>1. CASE InsertRow
        BY <2>3, <4>1, RowLeaves DEF Tables
      <4>2. CASE ProcessTable
        BY <1>1, <2>3, <4>2, TableBegins DEF Tables
      <4>3. CASE UNCHANGED <<table, rows, todo>>
        BY <2>3, <4>3 DEF Pending
      <4>4. QED
        BY <1>3, <4>1, <4>2, <4>3, FirstGoesOn
    <3>2. phase = "merge" /\ rows # {} /\ k \in rows
      BY <3>1, RowSteps, RowFits
    <3>3. db2["jid"][k] \notin db1_data_map
      <4> SUFFICES ASSUME db2["jid"][k] \in db1_data_map PROVE FALSE
        OBVIOUS
      <4>1. \/ db2["jid"][k] \in Contents(before["jid"])
            \/ \E pk \in DOMAIN db2["jid"] \ rows : db2["jid"][k] = db2["jid"][pk]
        BY <1>1, <2>1, <3>1, <3>2 DEF FirstInv, FirstKnown
      <4>2. QED
        BY <1>1, <3>2, <4>1 DEF Once
    <3>4. k \in DOMAIN pk_mapping["jid"]
      <4>1. db2["jid"][k] \notin Contents(before["jid"])
        BY <1>1 DEF Once
      <4>2. QED
        BY <1>1, <2>1, <4>1 DEF FirstInv, FirstKeys
    <3>5. pk_mapping["jid"][k] \notin DOMAIN db1["jid"]
      BY <1>1, <2>3, <3>2, <3>4 DEF MergeInv, MappingRight
    <3>6. unique => \A r \in Contents(db1["jid"]) : r.name # db2["jid"][k].name
      <4> SUFFICES ASSUME unique, NEW r \in Contents(db1["jid"]), r.name = db2["jid"][k].name
                   PROVE  FALSE
        OBVIOUS
      <4>1. \/ r \in Contents(before["jid"])
            \/ \E pk \in DOMAIN db2["jid"] : ~Pending("jid", pk) /\ r = db2["jid"][pk]
        BY <1>1, <2>1 DEF FirstInv, FirstKnown
      <4>2. QED
        BY <1>1, <2>3, <4>1 DEF Once
    <3>7. Mapped("jid", k) = pk_mapping["jid"][k] /\ Remapped("jid", db2["jid"][k]) = db2["jid"][k]
      BY <3>4 DEF Mapped, Remapped
    <3>8. Goes(k)
      <4>1. ~Conflicts(table, Mapped(table, k), Remapped(table, db2[table][k]))
        BY <3>1, <3>5, <3>6, <3>7 DEF Conflicts
      <4>2. QED
        BY <3>1, <3>3, <4>1, RowSteps DEF LeftOut
    <3>9. DOMAIN db1'["jid"] = DOMAIN db1["jid"] \cup {pk_mapping["jid"][k]}
          /\ db1'["jid"][pk_mapping["jid"][k]] = db2["jid"][k]
      BY <3>1, <3>7, <3>8, RowGoes
    <3>10. QED
      BY <1>1, <2>1, <3>9
  <2>4. QED
    BY <2>2, <2>3
<1>4. QED
  BY <1>2, <1>3

LEMMA NextFirstMessages ==
  ASSUME TypeInv, MergeInv, FirstInv, [Next]_vars
  PROVE  FirstMessages'
<1> SUFFICES ASSUME First', Writes', NEW pk \in DOMAIN pk_mapping'["message"],
                    Once(db2["message"][pk].jid)', ~Pending("message", pk)'
             PROVE  Stored(db2["message"][pk])'
  BY DEF FirstMessages
<1>1. /\ UNCHANGED <<db2, before, skipped>> /\ First /\ Once(db2["message"][pk].jid)
      /\ "message" \in Tables \ skipped
  BY FirstGoesOn DEF First, Tables
<1>2. CASE Analyze
  BY <1>1, <1>2, AnalyzeMaps DEF Pending
<1>3. CASE ~Analyze
  <2>1. pk_mapping' = pk_mapping /\ Writes /\ db1 # None /\ pk \in DOMAIN pk_mapping["message"]
    BY <1>3, FirstGoesOn DEF TypeInv, TypeOK, Writes
  <2>2. pk \in DOMAIN db2["message"] /\ db2["message"][pk] \notin Contents(before["message"])
    BY <1>1, <2>1 DEF FirstInv, FirstKeys
  <2>3. ASSUME NEW row, Stored(row) PROVE \E m \in Contents(db1["message"])' :
                                              m.text = row.text /\ m.jid = Mapped("jid", row.jid)'
    <3>1. Contents(db1["message"]) \subseteq Contents(db1["message"])'
      BY <1>1, <2>1, NextKeepsRows
    <3>2. QED
      BY <2>1, <2>3, <3>1 DEF Stored, Mapped
  <2>4. CASE ~Pending("message", pk)
    <3>1. Stored(db2["message"][pk])
      BY <1>1, <2>1, <2>4 DEF FirstInv, FirstMessages
    <3>2. QED
      BY <1>1, <2>3, <3>1 DEF Stored, Mapped, Contents
  <2>5. CASE Pending("message", pk)
    <3> DEFINE row == db2["message"][pk]
    <3>1. InsertRow /\ table = "message" /\ pk = Min(rows)
      <4>1. CASE InsertRow
        BY <2>5, <4>1, RowLeaves DEF Tables
      <4>2. CASE ProcessTable
        BY <1>1, <2>2, <2>5, <4>2, TableBegins DEF Tables
      <4>3. CASE UNCHANGED <<table, rows, todo>>
        BY <2>5, <4>3 DEF Pending
      <4>4. QED
        BY <1>3, <4>1, <4>2, <4>3, FirstGoesOn
    <3>2. phase = "merge" /\ rows # {} /\ pk \in rows /\ table \notin todo /\ row \in Message
      BY <3>1, RowSteps, RowFits DEF Row
    <3>3. CASE row \in db1_data_map
      <4>1. PICK q \in DOMAIN db2["message"] \ rows : row = db2["message"][q]
        BY <1>1, <2>1, <2>2, <3>1, <3>2, <3>3 DEF FirstInv, FirstKnown
      <4>2. q \in DOMAIN pk_mapping["message"] /\ ~Pending("message", q)
        BY <1>1, <2>1, <2>2, <3>1, <3>2, <4>1 DEF FirstInv, FirstKeys, Pending
      <4>3. Stored(row)
        BY <1>1, <2>1, <4>1, <4>2 DEF FirstInv, FirstMessages
      <4>4. QED
        BY <1>1, <2>3, <4>3 DEF Stored, Mapped, Contents
    <3>4. CASE row \notin db1_data_map
      <4>1. pk_mapping["message"][pk] \notin DOMAIN db1["message"]
        BY <1>1, <2>1, <2>5, <3>2 DEF MergeInv, MappingRight
      <4>2. Goes(pk)
        <5>1. ~Conflicts(table, Mapped(table, pk), Remapped(table, row))
          BY <2>1, <3>1, <4>1 DEF Conflicts, Mapped
        <5>2. QED
          BY <3>1, <3>4, <5>1, RowSteps DEF LeftOut
      <4>3. Remapped("message", row) \in Contents(db1["message"])'
        BY <3>1, <4>2, RowGoes DEF Contents
      <4>4. Remapped("message", row).text = row.text
            /\ Remapped("message", row).jid = Mapped("jid", row.jid)
        BY <3>2 DEF Remapped, Message
      <4>5. QED
        BY <1>1, <2>1, <4>3, <4>4 DEF Stored, Mapped, Contents
    <3>5. QED
      BY <3>3, <3>4
  <2>6. QED
    BY <2>4, <2>5
<1>4. QED
  BY <1>2, <1>3

LEMMA InitFirstInv == Init => FirstInv
BY DEF Init, Ready, FirstInv, FirstStarts, FirstKeys, FirstKnown, FirstJids, FirstMessages, First

LEMMA NextFirstInv ==
  ASSUME TypeInv, MergeInv, FirstInv, [Next]_vars
  PROVE  FirstInv'
BY NextFirstStarts, NextFirstKeys, NextFirstKnown, NextFirstJids, NextFirstMessages DEF FirstInv

\* When the first merge is complete nothing is to come, so the jid and the
\* message are stored.
LEMMA NewReferences ==
  ASSUME TypeInv, FirstInv
  PROVE  NewReferencesFollow
<1> SUFFICES ASSUME phase = "remove", tries = 1, skipped = {},
                    NEW row \in Contents(db2["message"]) \ Contents(before["message"]), Once(row.jid)
             PROVE  \E m \in Contents(db1["message"]) :
                        m.text = row.text /\ m.jid \in DOMAIN db1["jid"] /\ db1["jid"][m.jid] = db2["jid"][row.jid]
  BY Zenon DEF NewReferencesFollow, Once
<1>1. First /\ Writes /\ todo = {} /\ rows = {} /\ db2 # None
  BY DEF First, Writes, TypeInv, TypeOK, Steady
<1>2. \A t, k : ~Pending(t, k)
  BY <1>1 DEF Pending
<1>3. PICK pk \in DOMAIN db2["message"] : row = db2["message"][pk]
  BY DEF Contents
<1>4. pk \in DOMAIN pk_mapping["message"]
  BY <1>1, <1>3 DEF FirstInv, FirstKeys, Tables
<1>5. Stored(row)
  BY <1>1, <1>2, <1>3, <1>4 DEF FirstInv, FirstMessages
<1>6. row.jid \in DOMAIN db2["jid"]
  BY <1>1, <1>3 DEF TypeInv, TypeOK, Refers
<1>7. pk_mapping["jid"][row.jid] \in DOMAIN db1["jid"]
      /\ db1["jid"][pk_mapping["jid"][row.jid]] = db2["jid"][row.jid]
  BY <1>1, <1>2, <1>6 DEF FirstInv, FirstJids
<1>8. Mapped("jid", row.jid) = pk_mapping["jid"][row.jid]
  <2>1. db2["jid"][row.jid] \notin Contents(before["jid"])
    BY DEF Once
  <2>2. row.jid \in DOMAIN pk_mapping["jid"]
    BY <1>1, <1>6, <2>1 DEF FirstInv, FirstKeys, Tables
  <2>3. QED
    BY <2>2 DEF Mapped
<1>9. QED
  BY <1>5, <1>7, <1>8 DEF Stored

\* What a merge adds is right: no jid is added twice, and after a first merge that
\* succeeds a new message refers to the jid it referred to, if that jid is new,
\* was pulled once and its name is not taken.
THEOREM AddsRight ==
  ASSUME MaxTries \in Nat, ~Database(None)
  PROVE  Spec => []MergeAddsRight
<1>1. Init => TypeInv /\ MergeInv /\ FirstInv
  BY InitTypeInv, InitMergeInv, InitFirstInv
<1>2. TypeInv /\ MergeInv /\ FirstInv /\ [Next]_vars => (TypeInv /\ MergeInv /\ FirstInv)'
  BY NextTypeInv, NextMergeInv, NextFirstInv
<1>3. TypeInv /\ FirstInv => NewReferencesFollow
  BY NewReferences
<1>4. Spec => []NewReferencesFollow
  BY <1>1, <1>2, <1>3, PTL DEF Spec
<1>5. JidsOnce /\ NewReferencesFollow => MergeAddsRight
  BY DEF MergeAddsRight
<1>6. QED
  BY <1>4, <1>5, NoJidAddedTwice, PTL
=============================================================================
