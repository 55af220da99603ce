------------------------- MODULE Configurator_proofs --------------------------
(***************************************************************************)
(* Safety of Configurator for every set of workers, schemas, records,       *)
(* columns and examples, and any number of deaths: what refers to what,     *)
(* whichever requests and boots overlap, and where columns stay as they are *)
(* under a request that what is stored fits them.  And what RecordSearch    *)
(* says of searches and pages, for texts and listings of any length.        *)
(***************************************************************************)
EXTENDS Configurator, SequenceTheorems, FiniteSetTheorems, TLAPS

CONSTANTS Letter, Star, Absent, MaxValue, MaxPattern, MaxItems, MaxListed, MaxLimit

VARIABLES value, pattern, total, limit, sortKey, place

Search == INSTANCE RecordSearch

Row == [of : Schema \cup {None}, data : SUBSET Value]

Typed ==
    /\ TypeOK
    /\ rec \in [Record -> Row]
    /\ target \in [Worker -> SUBSET (Schema \cup Record)]
    /\ body \in [Worker -> Row]
    /\ \A w \in Worker : pc[w] = "insert" => body[w].of \in Schema

(* Ids are given out once: what is in the tables was given out, and what a  *)
(* PUT has found is still the record of the same schema, or gone.           *)
GivenOut ==
    /\ Live \subseteq used /\ Stored \subseteq used
    /\ \A w \in Worker : pc[w] = "store" =>
          /\ target[w] \subseteq used
          /\ \A r \in target[w] \cap Stored : rec[r].of = body[w].of

IInv == Typed /\ GivenOut /\ RowsRefer

-----------------------------------------------------------------------------
(* There is nothing in the tables in the initial state.                     *)
LEMMA HoldsAtStart == ASSUME ConfiguratorAssumption PROVE Init => IInv
BY DEF ConfiguratorAssumption, Init, NoRec, IInv, Typed, TypeOK, Row, GivenOut, RowsRefer, Live,
       Stored

(* Rows, columns and values are what they are to be.                        *)
LEMMA Constants ==
    ASSUME ConfiguratorAssumption
    PROVE  /\ NoRec \in Row /\ None \notin Schema /\ None \notin Name
           /\ SeedCols \subseteq Column /\ SeedData \subseteq Value
           /\ \A c, d \in SeedCols : c.name = d.name => c = d
           /\ Data \subseteq SUBSET Value
BY DEF ConfiguratorAssumption, NoRec, Row, SeedCols, SeedData, Column, Value, Data

(* The example schemas have ids that are new, and each a name of its own.   *)
LEMMA SeededSchemas ==
    ASSUME ConfiguratorAssumption, Typed, NEW w \in Worker, SeedSchemas(w)
    PROVE  \/ Fail(w)
           \/ \E ids \in SUBSET (Schema \ used) :
                 /\ name' \in [Schema -> Name \cup {None}]
                 /\ \A i \in Schema \ ids : name'[i] = name[i]
                 /\ \A i \in ids : name'[i] \in Seeds
                 /\ \A i, j \in ids : name'[i] = name'[j] => i = j
                 /\ \A i \in Live : name[i] \notin Seeds
                 /\ used' = used \cup ids
                 /\ target' = [target EXCEPT ![w] = ids]
                 /\ Goto(w, "seedColumns")
                 /\ UNCHANGED <<cols, rec, body>>
<1>1. CASE ~Fail(w)
  <2>1. PICK new \in [Seeds -> Schema \ used] :
           LET ids == {new[n] : n \in Seeds} IN
           /\ name' = [i \in Schema |->
                         IF i \in ids THEN CHOOSE n \in Seeds : new[n] = i ELSE name[i]]
           /\ used' = used \cup ids
           /\ target' = [target EXCEPT ![w] = ids]
    BY <1>1 DEF SeedSchemas
  <2> DEFINE ids == {new[n] : n \in Seeds}
  <2>2. /\ ids \in SUBSET (Schema \ used) /\ Seeds \subseteq Name
        /\ \A i \in Live : name[i] \notin Seeds
        /\ Goto(w, "seedColumns") /\ UNCHANGED <<cols, rec, body>>
    BY <1>1, <2>1 DEF SeedSchemas, ConfiguratorAssumption
  <2>3. ASSUME NEW i \in ids
        PROVE  name'[i] \in Seeds /\ new[name'[i]] = i
    <3>1. \E n \in Seeds : new[n] = i
      OBVIOUS
    <3>2. name'[i] = CHOOSE n \in Seeds : new[n] = i
      BY <2>1, <2>2
    <3>. QED
      BY <3>1, <3>2
  <2>4. \A i \in Schema \ ids : name'[i] = name[i]
    BY <2>1
  <2>5. name' \in [Schema -> Name \cup {None}]
    <3>1. name' = [i \in Schema |-> name'[i]]
      BY <2>1
    <3>. QED
      BY <2>2, <2>3, <2>4, <3>1 DEF Typed, TypeOK
  <2>6. \A i, j \in ids : name'[i] = name'[j] => i = j
    BY <2>3
  <2>. HIDE DEF ids
  <2>. QED
    BY <2>1, <2>2, <2>3, <2>4, <2>5, <2>6 DEF ids
<1>. QED
  BY <1>1

(* The example records have ids that are new, and each refers to a schema.  *)
LEMMA SeededRecords ==
    ASSUME ConfiguratorAssumption, Typed, NEW w \in Worker, SeedRecords(w)
    PROVE  \/ Fail(w)
           \/ \E ids \in SUBSET (Record \ used) :
                 /\ target[w] \subseteq Live
                 /\ rec' \in [Record -> Row]
                 /\ \A r \in Record \ ids : rec'[r] = rec[r]
                 /\ \A r \in ids : rec'[r].of \in target[w] /\ rec'[r].data = SeedData
                 /\ used' = used \cup ids
                 /\ Idle(w)
                 /\ UNCHANGED <<name, cols>>
<1>1. CASE ~Fail(w)
  <2>1. PICK new \in [target[w] -> Record \ used] :
           LET ids == {new[i] : i \in target[w]} IN
           /\ rec' = [r \in Record |->
                        IF r \in ids
                        THEN [of |-> CHOOSE i \in target[w] : new[i] = r, data |-> SeedData]
                        ELSE rec[r]]
           /\ used' = used \cup ids
    BY <1>1 DEF SeedRecords
  <2> DEFINE ids == {new[i] : i \in target[w]}
  <2>2. /\ ids \in SUBSET (Record \ used) /\ target[w] \subseteq Live
        /\ Idle(w) /\ UNCHANGED <<name, cols>>
    BY <1>1, <2>1 DEF SeedRecords
  <2>3. ASSUME NEW r \in ids
        PROVE  rec'[r].of \in target[w] /\ rec'[r] = [of |-> rec'[r].of, data |-> SeedData]
    <3>1. \E i \in target[w] : new[i] = r
      OBVIOUS
    <3>2. rec'[r] = [of |-> CHOOSE i \in target[w] : new[i] = r, data |-> SeedData]
      BY <2>1, <2>2
    <3>. QED
      BY <3>1, <3>2
  <2>4. \A r \in Record \ ids : rec'[r] = rec[r]
    BY <2>1
  <2>5. rec' \in [Record -> Row]
    <3>1. rec' = [r \in Record |-> rec'[r]]
      BY <2>1
    <3>2. target[w] \subseteq Schema
      BY <2>2 DEF Live
    <3>3. ASSUME NEW r \in ids PROVE rec'[r] \in Row
      <4>1. \A i \in Schema : [of |-> i, data |-> SeedData] \in Row
        BY Constants DEF Row
      <4>. QED
        BY <2>3, <3>2, <4>1
    <3>4. ASSUME NEW r \in Record \ ids PROVE rec'[r] \in Row
      BY <2>4, <3>4 DEF Typed
    <3>. QED
      BY <3>1, <3>3, <3>4
  <2>. HIDE DEF ids
  <2>. QED
    BY <2>1, <2>2, <2>3, <2>4, <2>5 DEF ids
<1>. QED
  BY <1>1

(* Every step keeps the types, and names and columns unique.                *)
LEMMA TypedStep ==
    ASSUME ConfiguratorAssumption, IInv, [Next]_vars
    PROVE  Typed'
<1> USE Constants DEF ConfiguratorAssumption, IInv, Typed, TypeOK, Row, Live, rowVars
<1>1. CASE Restart
  BY <1>1 DEF Restart
<1>2. ASSUME NEW w \in Worker, Boot(w) PROVE Typed'
  BY <1>2 DEF Boot, Goto
<1>3. ASSUME NEW w \in Worker, SeedSchemas(w) PROVE Typed'
  <2>1. CASE Fail(w)
    BY <1>3, <2>1 DEF SeedSchemas, Fail, Goto
  <2>2. CASE ~Fail(w)
    <3>1. PICK ids \in SUBSET (Schema \ used) :
             /\ name' \in [Schema -> Name \cup {None}]
             /\ \A i \in Schema \ ids : name'[i] = name[i]
             /\ \A i \in ids : name'[i] \in Seeds
             /\ \A i, j \in ids : name'[i] = name'[j] => i = j
             /\ \A i \in Live : name[i] \notin Seeds
             /\ used' = used \cup ids
             /\ target' = [target EXCEPT ![w] = ids]
             /\ Goto(w, "seedColumns")
             /\ UNCHANGED <<cols, rec, body>>
      BY <1>3, <2>2, SeededSchemas DEF IInv
    <3>2. Live' = Live \cup ids /\ UNCHANGED crashes
      BY <1>3, <3>1 DEF SeedSchemas, Live, ConfiguratorAssumption, IInv, Typed, TypeOK
    <3>. QED
      BY <3>1, <3>2 DEF Goto, Live
  <2>. QED
    BY <2>1, <2>2
<1>4. ASSUME NEW w \in Worker, SeedColumns(w) PROVE Typed'
  <2>1. CASE Fail(w)
    BY <1>4, <2>1 DEF SeedColumns, Fail, Goto
  <2>2. CASE ~Fail(w)
    <3>1. /\ cols' = [i \in Schema |-> IF i \in target[w] THEN cols[i] \cup SeedCols ELSE cols[i]]
          /\ \A i \in target[w] : \A c \in cols[i], d \in SeedCols : c.name # d.name
          /\ pc' = [pc EXCEPT ![w] = "seedRecords"]
          /\ UNCHANGED <<name, rec, used, target, body, crashes>>
      BY <1>4, <2>2 DEF SeedColumns, Goto
    <3>2. cols' \in [Schema -> SUBSET Column]
      BY <3>1, Constants
    <3>3. \A i \in Schema : \A c, d \in cols'[i] : c.name = d.name => c = d
      BY <3>1, Constants
    <3>. QED
      BY <3>1, <3>2, <3>3
  <2>. QED
    BY <2>1, <2>2
<1>5. ASSUME NEW w \in Worker, SeedRecords(w) PROVE Typed'
  <2>1. CASE Fail(w)
    BY <1>5, <2>1 DEF SeedRecords, Fail, Goto
  <2>2. CASE ~Fail(w)
    <3>1. PICK ids \in SUBSET (Record \ used) :
             /\ target[w] \subseteq Live
             /\ rec' \in [Record -> Row]
             /\ \A r \in Record \ ids : rec'[r] = rec[r]
             /\ \A r \in ids : rec'[r].of \in target[w] /\ rec'[r].data = SeedData
             /\ used' = used \cup ids
             /\ Idle(w)
             /\ UNCHANGED <<name, cols>>
      BY <1>5, <2>2, SeededRecords DEF IInv
    <3>. QED
      BY <1>5, <3>1 DEF SeedRecords, Idle, Goto
  <2>. QED
    BY <2>1, <2>2
<1>6. ASSUME NEW w \in Worker, InsertRecord(w) PROVE Typed'
  <2>1. /\ rec' \in [Record -> Row]
        /\ used' \subseteq used \cup Record
    BY <1>6 DEF InsertRecord
  <2>2. /\ pc' = [pc EXCEPT ![w] = "serving"]
        /\ target' = [target EXCEPT ![w] = {}]
        /\ body' = [body EXCEPT ![w] = NoRec]
        /\ UNCHANGED <<name, cols, crashes>>
    BY <1>6 DEF InsertRecord, Idle, Goto
  <2>3. NoRec \in Row
    BY DEF NoRec
  <2>. QED
    BY <2>1, <2>2, <2>3
<1>7. ASSUME NEW w \in Worker, StoreRecord(w) PROVE Typed'
  BY <1>7 DEF StoreRecord, Idle, Goto
<1>8. ASSUME NEW w \in Worker, Refuse(w) PROVE Typed'
  BY <1>8 DEF Refuse, Idle, Goto
<1>9. ASSUME NEW w \in Worker, NEW n \in Name, CreateSchema(w, n) PROVE Typed'
  BY <1>9 DEF CreateSchema, Free, Serves, Unchanged
<1>10. ASSUME NEW w \in Worker, NEW i \in Schema, NEW n \in Name, RenameSchema(w, i, n)
       PROVE Typed'
  BY <1>10 DEF RenameSchema, Free, Serves, Unchanged
<1>11. ASSUME NEW w \in Worker, NEW i \in Schema, DeleteSchema(w, i) PROVE Typed'
  BY <1>11 DEF DeleteSchema, NoRec, Serves, Unchanged
<1>12. ASSUME NEW w \in Worker, NEW i \in Schema, NEW c \in Column, CreateColumn(w, i, c)
       PROVE Typed'
  BY <1>12 DEF CreateColumn, NewIn, Serves, Unchanged
<1>13. ASSUME NEW w \in Worker, NEW i \in Schema, NEW c \in Column, DeleteColumn(w, i, c)
       PROVE Typed'
  BY <1>13 DEF DeleteColumn, Serves, Unchanged
<1>14. ASSUME NEW w \in Worker, NEW i \in Schema, NEW c \in Column, NEW d \in Column,
             UpdateColumn(w, i, c, d)
       PROVE Typed'
  BY <1>14 DEF UpdateColumn, NewIn, Serves, Unchanged
<1>15. ASSUME NEW w \in Worker, NEW i \in Schema, NEW d \in Data, BeginCreateRecord(w, i, d)
       PROVE Typed'
  BY <1>15 DEF BeginCreateRecord, Hold, Serves, Goto
<1>16. ASSUME NEW w \in Worker, NEW r \in Record, DeleteRecord(w, r) PROVE Typed'
  BY <1>16 DEF DeleteRecord, NoRec, Serves, Unchanged
<1>17. ASSUME NEW w \in Worker, NEW r \in Record, NEW d \in Data, BeginUpdateRecord(w, r, d)
       PROVE Typed'
  BY <1>17 DEF BeginUpdateRecord, Hold, Serves, Goto
<1>18. ASSUME NEW w \in Worker, Crash(w) PROVE Typed'
  BY <1>18 DEF Crash, Goto
<1>19. CASE UNCHANGED vars
  BY <1>19 DEF vars
<1>. QED
  BY <1>1, <1>2, <1>3, <1>4, <1>5, <1>6, <1>7, <1>8, <1>9, <1>10, <1>11, <1>12, <1>13,
     <1>14, <1>15, <1>16, <1>17, <1>18, <1>19 DEF Next, Act, BootStep, Serve

(* Ids that were given out are not given out again.                         *)
LEMMA GivenOutStep ==
    ASSUME ConfiguratorAssumption, IInv, [Next]_vars
    PROVE  GivenOut'
<1> USE Constants DEF ConfiguratorAssumption, IInv, Typed, TypeOK, Row, GivenOut, RowsRefer, Live,
                      Stored, rowVars
<1>1. CASE Restart
  BY <1>1 DEF Restart
<1>2. ASSUME NEW w \in Worker, Boot(w) PROVE GivenOut'
  BY <1>2 DEF Boot, Goto
<1>3. ASSUME NEW w \in Worker, SeedSchemas(w) PROVE GivenOut'
  BY <1>3 DEF SeedSchemas, Fail, Goto
<1>4. ASSUME NEW w \in Worker, SeedColumns(w) PROVE GivenOut'
  BY <1>4 DEF SeedColumns, Fail, Goto
<1>5. ASSUME NEW w \in Worker, SeedRecords(w) PROVE GivenOut'
  <2>1. CASE Fail(w)
    BY <1>5, <2>1 DEF SeedRecords, Fail, Goto
  <2>2. CASE ~Fail(w)
    <3>1. PICK ids \in SUBSET (Record \ used) :
             /\ target[w] \subseteq Live
             /\ rec' \in [Record -> Row]
             /\ \A r \in Record \ ids : rec'[r] = rec[r]
             /\ \A r \in ids : rec'[r].of \in target[w] /\ rec'[r].data = SeedData
             /\ used' = used \cup ids
             /\ Idle(w)
             /\ UNCHANGED <<name, cols>>
      BY <1>5, <2>2, SeededRecords DEF IInv
    <3>. QED
      BY <1>5, <3>1 DEF SeedRecords, Idle, Goto
  <2>. QED
    BY <2>1, <2>2
<1>6. ASSUME NEW w \in Worker, InsertRecord(w) PROVE GivenOut'
  BY <1>6 DEF InsertRecord, Idle, Goto
<1>7. ASSUME NEW w \in Worker, StoreRecord(w) PROVE GivenOut'
  BY <1>7 DEF StoreRecord, Idle, Goto
<1>8. ASSUME NEW w \in Worker, Refuse(w) PROVE GivenOut'
  BY <1>8 DEF Refuse, Idle, Goto
<1>9. ASSUME NEW w \in Worker, NEW n \in Name, CreateSchema(w, n) PROVE GivenOut'
  BY <1>9 DEF CreateSchema, Free, Serves, Unchanged
<1>10. ASSUME NEW w \in Worker, NEW i \in Schema, NEW n \in Name, RenameSchema(w, i, n)
       PROVE GivenOut'
  BY <1>10 DEF RenameSchema, Free, Serves, Unchanged
<1>11. ASSUME NEW w \in Worker, NEW i \in Schema, DeleteSchema(w, i) PROVE GivenOut'
  BY <1>11 DEF DeleteSchema, NoRec, Serves, Unchanged
<1>12. ASSUME NEW w \in Worker, NEW i \in Schema, NEW c \in Column, CreateColumn(w, i, c)
       PROVE GivenOut'
  BY <1>12 DEF CreateColumn, NewIn, Serves, Unchanged
<1>13. ASSUME NEW w \in Worker, NEW i \in Schema, NEW c \in Column, DeleteColumn(w, i, c)
       PROVE GivenOut'
  BY <1>13 DEF DeleteColumn, Serves, Unchanged
<1>14. ASSUME NEW w \in Worker, NEW i \in Schema, NEW c \in Column, NEW d \in Column,
             UpdateColumn(w, i, c, d)
       PROVE GivenOut'
  BY <1>14 DEF UpdateColumn, NewIn, Serves, Unchanged
<1>15. ASSUME NEW w \in Worker, NEW i \in Schema, NEW d \in Data, BeginCreateRecord(w, i, d)
       PROVE GivenOut'
  BY <1>15 DEF BeginCreateRecord, Hold, Serves, Goto
<1>16. ASSUME NEW w \in Worker, NEW r \in Record, DeleteRecord(w, r) PROVE GivenOut'
  BY <1>16 DEF DeleteRecord, NoRec, Serves, Unchanged
<1>17. ASSUME NEW w \in Worker, NEW r \in Record, NEW d \in Data, BeginUpdateRecord(w, r, d)
       PROVE GivenOut'
  BY <1>17 DEF BeginUpdateRecord, Hold, Serves, Goto
<1>18. ASSUME NEW w \in Worker, Crash(w) PROVE GivenOut'
  BY <1>18 DEF Crash, Goto
<1>19. CASE UNCHANGED vars
  BY <1>19 DEF vars
<1>. QED
  BY <1>1, <1>2, <1>3, <1>4, <1>5, <1>6, <1>7, <1>8, <1>9, <1>10, <1>11, <1>12, <1>13,
     <1>14, <1>15, <1>16, <1>17, <1>18, <1>19 DEF Next, Act, BootStep, Serve

(* What refers to a schema goes with it.                                    *)
LEMMA RowsReferStep ==
    ASSUME ConfiguratorAssumption, IInv, [Next]_vars
    PROVE  RowsRefer'
<1> USE Constants DEF ConfiguratorAssumption, IInv, Typed, TypeOK, Row, GivenOut, RowsRefer, Live,
                      Stored, rowVars
<1>1. CASE Restart
  BY <1>1 DEF Restart
<1>2. ASSUME NEW w \in Worker, Boot(w) PROVE RowsRefer'
  BY <1>2 DEF Boot, Goto
<1>3. ASSUME NEW w \in Worker, SeedSchemas(w) PROVE RowsRefer'
  BY <1>3 DEF SeedSchemas, Fail, Goto
<1>4. ASSUME NEW w \in Worker, SeedColumns(w) PROVE RowsRefer'
  BY <1>4 DEF SeedColumns, Fail, Goto
<1>5. ASSUME NEW w \in Worker, SeedRecords(w) PROVE RowsRefer'
  <2>1. CASE Fail(w)
    BY <1>5, <2>1 DEF SeedRecords, Fail, Goto
  <2>2. CASE ~Fail(w)
    <3>1. PICK ids \in SUBSET (Record \ used) :
             /\ target[w] \subseteq Live
             /\ rec' \in [Record -> Row]
             /\ \A r \in Record \ ids : rec'[r] = rec[r]
             /\ \A r \in ids : rec'[r].of \in target[w] /\ rec'[r].data = SeedData
             /\ used' = used \cup ids
             /\ Idle(w)
             /\ UNCHANGED <<name, cols>>
      BY <1>5, <2>2, SeededRecords DEF IInv
    <3>. QED
      BY <1>5, <3>1 DEF SeedRecords, Idle, Goto
  <2>. QED
    BY <2>1, <2>2
<1>6. ASSUME NEW w \in Worker, InsertRecord(w) PROVE RowsRefer'
  BY <1>6 DEF InsertRecord, Idle, Goto
<1>7. ASSUME NEW w \in Worker, StoreRecord(w) PROVE RowsRefer'
  BY <1>7 DEF StoreRecord, Idle, Goto
<1>8. ASSUME NEW w \in Worker, Refuse(w) PROVE RowsRefer'
  BY <1>8 DEF Refuse, Idle, Goto
<1>9. ASSUME NEW w \in Worker, NEW n \in Name, CreateSchema(w, n) PROVE RowsRefer'
  BY <1>9 DEF CreateSchema, Free, Serves, Unchanged
<1>10. ASSUME NEW w \in Worker, NEW i \in Schema, NEW n \in Name, RenameSchema(w, i, n)
       PROVE RowsRefer'
  BY <1>10 DEF RenameSchema, Free, Serves, Unchanged
<1>11. ASSUME NEW w \in Worker, NEW i \in Schema, DeleteSchema(w, i) PROVE RowsRefer'
  BY <1>11 DEF DeleteSchema, NoRec, Serves, Unchanged
<1>12. ASSUME NEW w \in Worker, NEW i \in Schema, NEW c \in Column, CreateColumn(w, i, c)
       PROVE RowsRefer'
  BY <1>12 DEF CreateColumn, NewIn, Serves, Unchanged
<1>13. ASSUME NEW w \in Worker, NEW i \in Schema, NEW c \in Column, DeleteColumn(w, i, c)
       PROVE RowsRefer'
  BY <1>13 DEF DeleteColumn, Serves, Unchanged
<1>14. ASSUME NEW w \in Worker, NEW i \in Schema, NEW c \in Column, NEW d \in Column,
             UpdateColumn(w, i, c, d)
       PROVE RowsRefer'
  BY <1>14 DEF UpdateColumn, NewIn, Serves, Unchanged
<1>15. ASSUME NEW w \in Worker, NEW i \in Schema, NEW d \in Data, BeginCreateRecord(w, i, d)
       PROVE RowsRefer'
  BY <1>15 DEF BeginCreateRecord, Hold, Serves, Goto
<1>16. ASSUME NEW w \in Worker, NEW r \in Record, DeleteRecord(w, r) PROVE RowsRefer'
  BY <1>16 DEF DeleteRecord, NoRec, Serves, Unchanged
<1>17. ASSUME NEW w \in Worker, NEW r \in Record, NEW d \in Data, BeginUpdateRecord(w, r, d)
       PROVE RowsRefer'
  BY <1>17 DEF BeginUpdateRecord, Hold, Serves, Goto
<1>18. ASSUME NEW w \in Worker, Crash(w) PROVE RowsRefer'
  BY <1>18 DEF Crash, Goto
<1>19. CASE UNCHANGED vars
  BY <1>19 DEF vars
<1>. QED
  BY <1>1, <1>2, <1>3, <1>4, <1>5, <1>6, <1>7, <1>8, <1>9, <1>10, <1>11, <1>12, <1>13,
     <1>14, <1>15, <1>16, <1>17, <1>18, <1>19 DEF Next, Act, BootStep, Serve

(* So the tables hold together always.                                      *)
THEOREM Invariant == ASSUME ConfiguratorAssumption PROVE Spec => []IInv
<1>1. Init => IInv
  BY HoldsAtStart
<1>2. IInv /\ [Next]_vars => IInv'
  BY TypedStep, GivenOutStep, RowsReferStep DEF IInv
<1>. QED
  BY <1>1, <1>2, PTL DEF Spec

(* The tables have their types, columns their names in a schema and schemas *)
(* their names.                                                             *)
THEOREM TypeCorrect == ASSUME ConfiguratorAssumption PROVE Spec => []TypeOK
<1>1. IInv => TypeOK
  BY DEF IInv, Typed
<1>. QED
  BY <1>1, Invariant, PTL

(* No column and no record is left of a schema that is gone, whatever boots *)
(* and requests overlap with its deletion: the INSERT of a record and the   *)
(* steps of the seed are refused, and ids do not come back.                 *)
THEOREM RowsReferToSchemas == ASSUME ConfiguratorAssumption PROVE Spec => []RowsRefer
<1>1. IInv => RowsRefer
  BY DEF IInv
<1>. QED
  BY <1>1, Invariant, PTL

-----------------------------------------------------------------------------
(* No client changes columns, or no other worker has begun anything.        *)
Steady(w) == "columns" \notin Requests \/ Alone(w)

(* What has been validated, or seeded, goes with the columns that there are *)
(* as long as its schema is there.                                          *)
Valid(w) ==
    /\ pc[w] \in {"insert", "store"} =>
          /\ body[w].of \in used
          /\ body[w].of \in Live => Fits(body[w].data, body[w].of)
    /\ pc[w] \in {"seedColumns", "seedRecords"} => target[w] \subseteq used
    /\ pc[w] = "seedRecords" => \A i \in target[w] \cap Live : SeedCols \subseteq cols[i]

SteadyInv == IInv /\ \A w \in Worker : Valid(w)

(* Schemas do not come back, and one that stays loses columns to a client.  *)
OnlyClient(w) ==
    \A i \in used \cap Schema : i \in Live' =>
       /\ i \in Live
       /\ cols[i] \subseteq cols'[i] \/ Serves(w, "columns")

(* A schema that stays loses columns to a client only.                      *)
LEMMA ColumnsStay ==
    ASSUME ConfiguratorAssumption, IInv, NEW w \in Worker, Act(w)
    PROVE  OnlyClient(w)
<1> USE DEF OnlyClient, ConfiguratorAssumption, IInv, Typed, TypeOK, Live, rowVars
<1>1. CASE Boot(w)
  BY <1>1 DEF Boot, Goto
<1>2. CASE SeedSchemas(w)
  <2>1. CASE Fail(w)
    BY <1>2, <2>1 DEF Fail
  <2>2. CASE ~Fail(w)
    <3>1. PICK ids \in SUBSET (Schema \ used) : \A i \in Schema \ ids : name'[i] = name[i]
      BY <1>2, <2>2, SeededSchemas
    <3>. QED
      BY <1>2, <2>2, <3>1 DEF SeedSchemas
  <2>. QED
    BY <2>1, <2>2
<1>3. CASE SeedColumns(w)
  BY <1>3 DEF SeedColumns, Fail, Goto
<1>4. CASE SeedRecords(w)
  BY <1>4 DEF SeedRecords, Fail, Idle, Goto
<1>5. CASE InsertRecord(w)
  BY <1>5 DEF InsertRecord, Idle, Goto
<1>6. CASE StoreRecord(w)
  BY <1>6 DEF StoreRecord, Idle, Goto
<1>7. CASE Refuse(w)
  BY <1>7 DEF Refuse, Idle, Goto
<1>8. ASSUME NEW n \in Name, CreateSchema(w, n) PROVE OnlyClient(w)
  BY <1>8 DEF CreateSchema, Free, Serves, Unchanged
<1>9. ASSUME NEW i \in Schema, NEW n \in Name, RenameSchema(w, i, n)
       PROVE OnlyClient(w)
  BY <1>9 DEF RenameSchema, Free, Serves, Unchanged
<1>10. ASSUME NEW i \in Schema, DeleteSchema(w, i) PROVE OnlyClient(w)
  BY <1>10 DEF DeleteSchema, NoRec, Serves, Unchanged
<1>11. ASSUME NEW i \in Schema, NEW c \in Column, CreateColumn(w, i, c)
       PROVE OnlyClient(w)
  BY <1>11 DEF CreateColumn
<1>12. ASSUME NEW i \in Schema, NEW c \in Column, DeleteColumn(w, i, c)
       PROVE OnlyClient(w)
  BY <1>12 DEF DeleteColumn
<1>13. ASSUME NEW i \in Schema, NEW c \in Column, NEW d \in Column,
             UpdateColumn(w, i, c, d)
       PROVE OnlyClient(w)
  BY <1>13 DEF UpdateColumn
<1>14. ASSUME NEW i \in Schema, NEW d \in Data, BeginCreateRecord(w, i, d)
       PROVE OnlyClient(w)
  BY <1>14 DEF BeginCreateRecord, Hold, Serves, Goto
<1>15. ASSUME NEW r \in Record, DeleteRecord(w, r) PROVE OnlyClient(w)
  BY <1>15 DEF DeleteRecord, NoRec, Serves, Unchanged
<1>16. ASSUME NEW r \in Record, NEW d \in Data, BeginUpdateRecord(w, r, d)
       PROVE OnlyClient(w)
  BY <1>16 DEF BeginUpdateRecord, Hold, Serves, Goto
<1>17. CASE Crash(w)
  BY <1>17 DEF Crash, Goto
<1>. QED
  BY <1>1, <1>2, <1>3, <1>4, <1>5, <1>6, <1>7, <1>8, <1>9, <1>10, <1>11, <1>12, <1>13,
     <1>14, <1>15, <1>16, <1>17 DEF Act, BootStep, Serve

(* A request that is past its validation, and a seed, keep what they have.  *)
LEMMA ValidKept ==
    ASSUME ConfiguratorAssumption, SteadyInv, NEW v \in Worker,
           NEW w \in Worker, Act(w), Steady(w),
           pc'[v] = pc[v], body'[v] = body[v], target'[v] = target[v], used \subseteq used'
    PROVE  Valid(v)'
<1>1. OnlyClient(w) /\ Valid(v)
  BY ColumnsStay DEF SteadyInv
<1>2. ASSUME pc[v] \notin {"boot", "serving", "failed"}, NEW i \in used \cap Schema, i \in Live'
      PROVE  i \in Live /\ cols[i] \subseteq cols'[i]
  BY <1>1, <1>2 DEF OnlyClient, Steady, Alone, Serves
<1>3. ASSUME pc[v] \in {"insert", "store"}
      PROVE  /\ body[v].of \in used'
             /\ body[v].of \in Live' => Fits(body[v].data, body[v].of)'
  <2>1. SUFFICES ASSUME body[v].of \in Live' PROVE Fits(body[v].data, body[v].of)'
    BY <1>1, <1>3 DEF Valid
  <2>2. body[v].of \in used \cap Schema
    BY <1>1, <1>3, <2>1 DEF Valid, Live
  <2>3. cols[body[v].of] \subseteq cols'[body[v].of] /\ Fits(body[v].data, body[v].of)
    BY <1>1, <1>2, <1>3, <2>1, <2>2 DEF Valid
  <2>. QED
    BY <2>3, body'[v] = body[v] DEF Fits
<1>4. ASSUME pc[v] = "seedRecords", NEW i \in target[v], i \in Live'
      PROVE  SeedCols \subseteq cols'[i]
  <2>1. i \in used \cap Schema
    BY <1>1, <1>4 DEF Valid, Live
  <2>. QED
    BY <1>1, <1>2, <1>4, <2>1 DEF Valid
<1>5. pc[v] \in {"seedColumns", "seedRecords"} => target[v] \subseteq used'
  BY <1>1 DEF Valid
<1>. QED
  BY <1>3, <1>4, <1>5 DEF Valid, Fits

(* What is valid stays valid until it is stored.                            *)
LEMMA ValidStep ==
    ASSUME ConfiguratorAssumption, SteadyInv, NEW v \in Worker,
           NEW w \in Worker, Act(w), Steady(w)
    PROVE  Valid(v)'
<1> USE DEF SteadyInv, IInv, Typed, TypeOK, rowVars
<1>1. CASE Boot(w)
  <2>1. CASE v = w
    BY <1>1, <2>1 DEF Boot, Goto, Valid
  <2>2. CASE v # w
    BY <1>1, <2>2, ValidKept DEF Boot, Goto
  <2>. QED
    BY <2>1, <2>2
<1>2. CASE SeedSchemas(w)
  <2>1. CASE v = w
    BY <1>2, <2>1 DEF SeedSchemas, Fail, Goto, Valid
  <2>2. CASE v # w
    BY <1>2, <2>2, ValidKept DEF SeedSchemas, Fail, Goto
  <2>. QED
    BY <2>1, <2>2
<1>3. CASE SeedColumns(w)
  <2>1. CASE v = w
    <3>1. CASE Fail(w)
      BY <1>3, <2>1, <3>1 DEF Fail, Goto, Valid
    <3>2. CASE ~Fail(w)
      <4>1. /\ cols' = [i \in Schema |-> IF i \in target[w] THEN cols[i] \cup SeedCols ELSE cols[i]]
            /\ pc'[w] = "seedRecords" /\ target[w] \subseteq Live
            /\ UNCHANGED <<name, rec, used, target, body, crashes>>
        BY <1>3, <3>2 DEF SeedColumns, Goto
      <4>2. target[w] \subseteq used
        BY <1>3, <2>1 DEF SeedColumns, Valid
      <4>3. \A i \in target[w] : SeedCols \subseteq cols'[i]
        BY <4>1 DEF Live
      <4>. QED
        BY <2>1, <4>1, <4>2, <4>3 DEF Valid
    <3>. QED
      BY <3>1, <3>2
  <2>2. CASE v # w
    BY <1>3, <2>2, ValidKept DEF SeedColumns, Fail, Goto
  <2>. QED
    BY <2>1, <2>2
<1>4. CASE SeedRecords(w)
  <2>1. CASE v = w
    BY <1>4, <2>1 DEF SeedRecords, Fail, Idle, Goto, Valid
  <2>2. CASE v # w
    BY <1>4, <2>2, ValidKept DEF SeedRecords, Fail, Idle, Goto
  <2>. QED
    BY <2>1, <2>2
<1>5. CASE InsertRecord(w)
  <2>1. CASE v = w
    BY <1>5, <2>1 DEF InsertRecord, Idle, Goto, Valid
  <2>2. CASE v # w
    BY <1>5, <2>2, ValidKept DEF InsertRecord, Idle, Goto
  <2>. QED
    BY <2>1, <2>2
<1>6. CASE StoreRecord(w)
  <2>1. CASE v = w
    BY <1>6, <2>1 DEF StoreRecord, Idle, Goto, Valid
  <2>2. CASE v # w
    BY <1>6, <2>2, ValidKept DEF StoreRecord, Idle, Goto
  <2>. QED
    BY <2>1, <2>2
<1>7. CASE Refuse(w)
  <2>1. CASE v = w
    BY <1>7, <2>1 DEF Refuse, Idle, Goto, Valid
  <2>2. CASE v # w
    BY <1>7, <2>2, ValidKept DEF Refuse, Idle, Goto
  <2>. QED
    BY <2>1, <2>2
<1>8. ASSUME NEW n \in Name, CreateSchema(w, n) PROVE Valid(v)'
  BY <1>8, ValidKept DEF CreateSchema, Unchanged
<1>9. ASSUME NEW i \in Schema, NEW n \in Name, RenameSchema(w, i, n)
       PROVE Valid(v)'
  BY <1>9, ValidKept DEF RenameSchema, Unchanged
<1>10. ASSUME NEW i \in Schema, DeleteSchema(w, i) PROVE Valid(v)'
  BY <1>10, ValidKept DEF DeleteSchema, Unchanged
<1>11. ASSUME NEW i \in Schema, NEW c \in Column, CreateColumn(w, i, c)
       PROVE Valid(v)'
  BY <1>11, ValidKept DEF CreateColumn, Unchanged
<1>12. ASSUME NEW i \in Schema, NEW c \in Column, DeleteColumn(w, i, c)
       PROVE Valid(v)'
  BY <1>12, ValidKept DEF DeleteColumn, Unchanged
<1>13. ASSUME NEW i \in Schema, NEW c \in Column, NEW d \in Column,
             UpdateColumn(w, i, c, d)
       PROVE Valid(v)'
  BY <1>13, ValidKept DEF UpdateColumn, Unchanged
<1>14. ASSUME NEW i \in Schema, NEW d \in Data, BeginCreateRecord(w, i, d)
       PROVE Valid(v)'
  <2>1. CASE v = w
    BY <1>14, <2>1 DEF BeginCreateRecord, Hold, Goto, Valid, GivenOut, RowsRefer, Fits
  <2>2. CASE v # w
    BY <1>14, <2>2, ValidKept DEF BeginCreateRecord, Hold, Serves, Goto
  <2>. QED
    BY <2>1, <2>2
<1>15. ASSUME NEW r \in Record, DeleteRecord(w, r) PROVE Valid(v)'
  BY <1>15, ValidKept DEF DeleteRecord, Unchanged
<1>16. ASSUME NEW r \in Record, NEW d \in Data, BeginUpdateRecord(w, r, d)
       PROVE Valid(v)'
  <2>1. CASE v = w
    BY <1>16, <2>1 DEF BeginUpdateRecord, Hold, Goto, Valid, GivenOut, RowsRefer, Fits
  <2>2. CASE v # w
    BY <1>16, <2>2, ValidKept DEF BeginUpdateRecord, Hold, Serves, Goto
  <2>. QED
    BY <2>1, <2>2
<1>17. CASE Crash(w)
  <2>1. CASE v = w
    BY <1>17, <2>1 DEF Crash, Goto, Valid
  <2>2. CASE v # w
    BY <1>17, <2>2, ValidKept DEF Crash, Goto
  <2>. QED
    BY <2>1, <2>2
<1>. QED
  BY <1>1, <1>2, <1>3, <1>4, <1>5, <1>6, <1>7, <1>8, <1>9, <1>10, <1>11, <1>12, <1>13,
     <1>14, <1>15, <1>16, <1>17 DEF Act, BootStep, Serve

(* ... and nothing is under way where all workers boot anew.                *)
LEMMA ValidRest ==
    ASSUME SteadyInv, NEW v \in Worker, Restart \/ UNCHANGED vars
    PROVE  Valid(v)'
<1>1. CASE Restart
  BY <1>1 DEF Restart, Valid
<1>2. CASE UNCHANGED vars
  BY <1>2 DEF vars, rowVars, SteadyInv, Valid, Live, Fits
<1>. QED
  BY <1>1, <1>2

(* The invariant, in a step of a worker that may take it.                   *)
LEMMA SteadyStep ==
    ASSUME ConfiguratorAssumption, SteadyInv, [Next]_vars,
           \/ Restart \/ UNCHANGED vars
           \/ \E w \in Worker : Act(w) /\ Steady(w)
    PROVE  SteadyInv'
<1>1. IInv'
  BY TypedStep, GivenOutStep, RowsReferStep DEF SteadyInv, IInv
<1>2. ASSUME NEW v \in Worker PROVE Valid(v)'
  BY ValidStep, ValidRest
<1>. QED
  BY <1>1, <1>2 DEF SteadyInv

(* What is written to a record fits the columns that there are.             *)
LEMMA FitsStep ==
    ASSUME ConfiguratorAssumption, SteadyInv, [Next]_vars
    PROVE  [FitsWhenStored]_vars
<1> SUFFICES ASSUME NEW r \in Record, rec'[r] # rec[r], rec'[r] # NoRec
             PROVE  Fits(rec'[r].data, rec'[r].of)
  BY DEF FitsWhenStored
<1>1. ASSUME NEW w \in Worker, SeedRecords(w) PROVE Fits(rec'[r].data, rec'[r].of)
  <2>1. PICK ids \in SUBSET (Record \ used) :
           /\ target[w] \subseteq Live
           /\ \A q \in Record \ ids : rec'[q] = rec[q]
           /\ \A q \in ids : rec'[q].of \in target[w] /\ rec'[q].data = SeedData
    BY <1>1, SeededRecords DEF SteadyInv, IInv, Fail, rowVars
  <2>2. rec'[r].of \in target[w] \cap Live /\ rec'[r].data = SeedData
    BY <2>1
  <2>3. SeedCols \subseteq cols[rec'[r].of]
    BY <1>1, <2>2 DEF SteadyInv, Valid, SeedRecords
  <2>. QED
    BY <2>2, <2>3 DEF Fits, SeedCols, SeedData, Accepts
<1>2. ASSUME NEW w \in Worker, InsertRecord(w) PROVE Fits(rec'[r].data, rec'[r].of)
  <2>1. /\ pc[w] = "insert" /\ body[w].of \in Live
        /\ \E q \in Record : rec' = [rec EXCEPT ![q] = body[w]]
    BY <1>2 DEF InsertRecord
  <2>2. rec'[r] = body[w]
    BY <2>1 DEF SteadyInv, IInv, Typed
  <2>. QED
    BY <2>1, <2>2 DEF SteadyInv, Valid
<1>3. ASSUME NEW w \in Worker, StoreRecord(w) PROVE Fits(rec'[r].data, rec'[r].of)
  <2>1. pc[w] = "store" /\ r \in target[w] \cap Stored /\ rec'[r] = body[w]
    BY <1>3 DEF StoreRecord
  <2>2. body[w].of \in Live
    BY <2>1 DEF SteadyInv, IInv, GivenOut, RowsRefer
  <2>. QED
    BY <2>1, <2>2 DEF SteadyInv, Valid
<1>4. rec' # rec
  OBVIOUS
<1>5. ASSUME NEW i \in Schema, rec' = [q \in Record |-> IF rec[q].of = i THEN NoRec ELSE rec[q]]
      PROVE  FALSE
  BY <1>5
<1>6. ASSUME NEW q \in Record, rec' = [rec EXCEPT ![q] = NoRec] PROVE FALSE
  BY <1>6 DEF SteadyInv, IInv, Typed
<1>7. ASSUME NEW w \in Worker, BootStep(w) PROVE SeedRecords(w)
  BY <1>4, <1>7 DEF BootStep, Boot, SeedSchemas, SeedColumns, Fail, rowVars
<1>8. ASSUME NEW w \in Worker, Serve(w), ~InsertRecord(w), ~StoreRecord(w) PROVE FALSE
  <2>1. CASE Refuse(w)
    BY <1>4, <2>1 DEF Refuse, rowVars
  <2>2. ASSUME NEW i \in Schema, DeleteSchema(w, i) PROVE FALSE
    BY <1>5, <2>2 DEF DeleteSchema
  <2>3. ASSUME NEW q \in Record, DeleteRecord(w, q) PROVE FALSE
    BY <1>6, <2>3 DEF DeleteRecord
  <2>. QED
    BY <1>4, <1>8, <2>1, <2>2, <2>3
    DEF Serve, CreateSchema, RenameSchema, CreateColumn, UpdateColumn, DeleteColumn,
        BeginCreateRecord, BeginUpdateRecord, Hold, rowVars
<1>. QED
  BY <1>1, <1>2, <1>3, <1>4, <1>7, <1>8 DEF Next, Act, vars, rowVars, Restart, Crash

(* Where no client changes columns, what has passed validation is stored    *)
(* under the columns it was validated against, whatever overlaps: PUT and   *)
(* POST check before a step of their own, and a schema that has gone takes  *)
(* the record along; the examples of the seed fit the columns it makes.     *)
THEOREM StoredRecordsFit ==
    ASSUME ConfiguratorAssumption, "columns" \notin Requests
    PROVE  Spec => [][FitsWhenStored]_vars
<1>1. Init => SteadyInv
  BY HoldsAtStart DEF Init, SteadyInv, Valid
<1>2. SteadyInv /\ [Next]_vars => SteadyInv'
  BY SteadyStep DEF Next, Steady
<1>3. SteadyInv /\ [Next]_vars => [FitsWhenStored]_vars
  BY FitsStep
<1>. QED
  BY <1>1, <1>2, <1>3, PTL DEF Spec

(* ... and where clients do, as long as no two requests or boots overlap.   *)
THEOREM SerialRecordsFit ==
    ASSUME ConfiguratorAssumption
    PROVE  SerialSpec => [][FitsWhenStored]_vars
<1>1. Init => SteadyInv
  BY HoldsAtStart DEF Init, SteadyInv, Valid
<1>2. [SerialNext]_vars => [Next]_vars
  BY DEF SerialNext, Next
<1>3. SteadyInv /\ [SerialNext]_vars => SteadyInv'
  BY <1>2, SteadyStep DEF SerialNext, Steady
<1>4. SteadyInv /\ [SerialNext]_vars => [FitsWhenStored]_vars
  BY <1>2, FitsStep
<1>. QED
  BY <1>1, <1>3, <1>4, PTL DEF SerialSpec

-----------------------------------------------------------------------------
(* Search and pages.                                                        *)

Character == Letter \cup {Star}

(* A record is listed on a page, a value and a pattern are texts.           *)
SearchTyped ==
    /\ value \in Seq(Character) \cup {Absent}
    /\ pattern \in Seq(Character)
    /\ total \in Nat /\ limit \in Nat \ {0}
    /\ sortKey \in [1..total -> Nat]
    /\ place \in [1..Search!Pages(total, limit) -> Search!Places(total, sortKey)]

(* A page more or less is a number of records more or less.                 *)
LEMMA Times ==
    /\ \A a, b, l \in Nat : a <= b => a * l <= b * l
    /\ \A a, l \in Nat : a > 0 => (a - 1) * l = a * l - l /\ (a - 1) * l \in Nat
    /\ \A a, l \in Nat : a * l \in Nat
<1>1. ASSUME NEW a \in Nat, NEW b \in Nat, NEW l \in Nat, a <= b PROVE a * l <= b * l
  BY <1>1
<1>2. ASSUME NEW a \in Nat, NEW l \in Nat, a > 0
      PROVE  (a - 1) * l = a * l - l /\ (a - 1) * l \in Nat
  BY <1>2
<1>3. ASSUME NEW a \in Nat, NEW l \in Nat PROVE a * l \in Nat
  OBVIOUS
<1>. QED
  BY <1>1, <1>2, <1>3

(* The quotient of a division.                                              *)
LEMMA Quotient ==
    ASSUME NEW a \in Nat, NEW l \in Nat \ {0}
    PROVE  /\ a \div l \in Nat
           /\ (a \div l) * l <= a
           /\ a < (a \div l) * l + l
OBVIOUS

(* The last page begins before the last record and ends at it or after.     *)
LEMMA PagesReach ==
    ASSUME NEW n \in Nat, NEW l \in Nat \ {0}
    PROVE  /\ Search!Pages(n, l) \in Nat
           /\ n <= Search!Pages(n, l) * l
           /\ n > 0 => Search!Pages(n, l) * l < n + l
           /\ n = 0 => Search!Pages(n, l) = 0
<1>1. CASE n = 0
  BY <1>1 DEF Search!Pages
<1>2. CASE n > 0
  <2> DEFINE P == (n + l - 1) \div l
  <2>1. n + l - 1 \in Nat
    OBVIOUS
  <2>2. P \in Nat /\ P * l <= n + l - 1 /\ n + l - 1 < P * l + l
    BY <2>1, Quotient
  <2>3. Search!Pages(n, l) = P
    BY <1>2 DEF Search!Pages
  <2>. HIDE DEF P
  <2>4. P * l \in Nat
    BY <2>2
  <2>. QED
    BY <1>2, <2>2, <2>3, <2>4
<1>. QED
  BY <1>1, <1>2

(* Every record has a page.                                                 *)
LEMMA PageOf ==
    ASSUME NEW n \in Nat, NEW l \in Nat \ {0}, NEW k \in 1..n
    PROVE  \E p \in 1..Search!Pages(n, l) : k \in Search!Items(n, l, p)
<1> DEFINE q == (k - 1) \div l
           P == Search!Pages(n, l)
<1>1. q \in Nat /\ q * l <= k - 1 /\ k - 1 < q * l + l
  BY Quotient
<1>2. P \in Nat /\ n <= P * l
  BY PagesReach
<1>. HIDE DEF q, P
<1>3. q * l \in Nat /\ P * l \in Nat
  BY <1>1, <1>2
<1>4. q < P
  <2>1. ASSUME P <= q PROVE FALSE
    <3>1. P * l <= q * l
      BY <1>1, <1>2, <2>1, Times
    <3>. QED
      BY <1>1, <1>2, <1>3, <3>1
  <2>. QED
    BY <1>1, <1>2, <2>1
<1>5. q + 1 \in 1..P /\ (q + 1) - 1 = q
  BY <1>1, <1>2, <1>4
<1>6. k \in Search!Items(n, l, q + 1)
  BY <1>1, <1>3, <1>5 DEF Search!Items
<1>. QED
  BY <1>5, <1>6 DEF P

(* No page is empty.                                                        *)
LEMMA NoPageEmpty ==
    ASSUME NEW n \in Nat, NEW l \in Nat \ {0}, NEW p \in 1..Search!Pages(n, l)
    PROVE  Search!Items(n, l, p) # {}
<1> DEFINE P == Search!Pages(n, l)
           start == (p - 1) * l
<1>1. P \in Nat /\ n <= P * l /\ (n > 0 => P * l < n + l) /\ (n = 0 => P = 0)
  BY PagesReach
<1>2. p \in Nat /\ p > 0 /\ p <= P
  BY <1>1
<1>. HIDE DEF P
<1>3. n > 0 /\ P * l < n + l /\ P * l \in Nat
  BY <1>1, <1>2
<1>4. start = p * l - l /\ start \in Nat /\ p * l <= P * l /\ p * l \in Nat
  BY <1>1, <1>2, Times
<1>. HIDE DEF start
<1>5. start + 1 \in 1..n /\ start < start + 1 /\ start + 1 <= start + l
  BY <1>3, <1>4
<1>. QED
  BY <1>5 DEF Search!Items, start

(* No record is on two pages.                                               *)
LEMMA PagesDisjoint ==
    ASSUME NEW n \in Nat, NEW l \in Nat \ {0}, NEW p \in Nat \ {0}, NEW q \in Nat \ {0}, p < q
    PROVE  Search!Items(n, l, p) \cap Search!Items(n, l, q) = {}
<1> DEFINE first == (p - 1) * l
           second == (q - 1) * l
<1>1. first = p * l - l /\ first \in Nat /\ second \in Nat
  BY Times
<1>2. p * l <= second /\ p * l \in Nat
  BY Times
<1>3. Search!Items(n, l, p) = {k \in 1..n : first < k /\ k <= first + l}
  BY DEF Search!Items
<1>4. Search!Items(n, l, q) = {k \in 1..n : second < k /\ k <= second + l}
  BY DEF Search!Items
<1>. HIDE DEF first, second
<1>. QED
  BY <1>1, <1>2, <1>3, <1>4

(* Where a query puts a record that ties with no other: after those of a    *)
(* lower key, and no query puts it elsewhere.                               *)
LEMMA PlaceIsRank ==
    ASSUME NEW n \in Nat, NEW keys \in [1..n -> Nat], NEW f \in Search!Places(n, keys),
           NEW k \in 1..n, \A j \in 1..n : j # k => keys[j] # keys[k]
    PROVE  f[k] = Cardinality({j \in 1..n : keys[j] < keys[k]}) + 1
<1> DEFINE Before == {j \in 1..n : keys[j] < keys[k]}
           g == [j \in Before |-> f[j]]
<1>1. /\ f \in [1..n -> 1..n]
      /\ \A i \in 1..n : \E j \in 1..n : f[j] = i
      /\ \A i, j \in 1..n : i # j => f[i] # f[j]
      /\ \A i, j \in 1..n : keys[i] < keys[j] => f[i] < f[j]
  BY DEF Search!Places
<1>2. \A j \in 1..n : f[j] < f[k] <=> keys[j] < keys[k]
  <2>1. ASSUME NEW j \in 1..n, ~(keys[j] < keys[k]) PROVE ~(f[j] < f[k])
    <3>1. keys[j] \in Nat /\ keys[k] \in Nat /\ f[j] \in 1..n /\ f[k] \in 1..n
      <4>1. f[j] \in 1..n /\ f[k] \in 1..n
        BY <1>1
      <4>2. keys[j] \in Nat /\ keys[k] \in Nat
        OBVIOUS
      <4>. QED
        BY <4>1, <4>2
    <3>2. CASE j = k
      BY <3>1, <3>2
    <3>3. CASE j # k
      <4>1. keys[k] < keys[j]
        BY <2>1, <3>1, <3>3
      <4>2. f[k] < f[j]
        BY <1>1, <4>1
      <4>. QED
        BY <3>1, <4>2
    <3>. QED
      BY <3>2, <3>3
  <2>. QED
    BY <1>1, <2>1
<1>3. f[k] \in 1..n /\ f[k] - 1 \in Nat
  BY <1>1
<1>4. g \in [Before -> 1..(f[k] - 1)]
  <2>1. ASSUME NEW j \in Before PROVE f[j] \in 1..(f[k] - 1)
    <3>1. f[j] \in 1..n /\ f[j] < f[k]
      BY <1>1, <1>2
    <3>. QED
      BY <1>3, <3>1
  <2>. QED
    BY <2>1
<1>5. \A i, j \in Before : g[i] = g[j] => i = j
  BY <1>1
<1>6. \A i \in 1..(f[k] - 1) : \E j \in Before : g[j] = i
  <2>1. ASSUME NEW i \in 1..(f[k] - 1) PROVE \E j \in Before : g[j] = i
    <3>1. i \in 1..n /\ i < f[k]
      BY <1>3
    <3>2. PICK j \in 1..n : f[j] = i
      BY <1>1, <3>1
    <3>. QED
      BY <1>2, <3>1, <3>2
  <2>. QED
    BY <2>1
<1>7. ExistsBijection(Before, 1..(f[k] - 1))
  <2>. HIDE DEF g
  <2>. QED
    BY <1>4, <1>5, <1>6
    DEF ExistsBijection, Bijection, Injection, Surjection, IsInjective
<1>8. IsFiniteSet(Before)
  <2>1. IsFiniteSet(1..n) /\ Before \subseteq 1..n
    BY FS_Interval
  <2>. QED
    BY <2>1, FS_Subset
<1>9. Cardinality(1..(f[k] - 1)) = Cardinality(Before)
  <2>. HIDE DEF Before
  <2>. QED
    BY <1>7, <1>8, FS_Bijection
<1>10. Cardinality(1..(f[k] - 1)) = f[k] - 1
  <2>1. 1 \in Int /\ f[k] - 1 \in Int
    BY <1>3
  <2>2. Cardinality(1..(f[k] - 1)) = IF 1 > f[k] - 1 THEN 0 ELSE (f[k] - 1) - 1 + 1
    BY <2>1, FS_Interval
  <2>. QED
    BY <1>3, <2>2
<1>. QED
  BY <1>3, <1>9, <1>10

(* No two pages have a place in common.                                     *)
LEMMA PagesApart ==
    ASSUME NEW n \in Nat, NEW l \in Nat \ {0},
           NEW p \in 1..Search!Pages(n, l), NEW q \in 1..Search!Pages(n, l), p # q
    PROVE  Search!Items(n, l, p) \cap Search!Items(n, l, q) = {}
<1>1. p \in Nat \ {0} /\ q \in Nat \ {0}
  <2>1. Search!Pages(n, l) \in Nat
    BY PagesReach
  <2>. QED
    BY <2>1
<1>2. CASE p < q
  BY <1>1, <1>2, PagesDisjoint
<1>3. CASE q < p
  BY <1>1, <1>3, PagesDisjoint
<1>. QED
  BY <1>1, <1>2, <1>3

(* The pages of the model: every query has the same place for a record that *)
(* ties with no other, and that place is on one page.                       *)
LEMMA Partition == SearchTyped => Search!PagesPartition
<1> SUFFICES ASSUME SearchTyped PROVE Search!PagesPartition
  OBVIOUS
<1> DEFINE Last == Search!Pages(total, limit)
<1>1. /\ total \in Nat /\ limit \in Nat \ {0} /\ sortKey \in [1..total -> Nat]
      /\ \A p \in 1..Last : place[p] \in Search!Places(total, sortKey)
  BY DEF SearchTyped
<1>2. ASSUME NEW p \in 1..Last PROVE Search!Shown(p) # {}
  <2>1. PICK i \in Search!Items(total, limit, p) : TRUE
    BY <1>1, NoPageEmpty
  <2>2. i \in 1..total
    BY DEF Search!Items
  <2>3. PICK k \in 1..total : place[p][k] = i
    BY <1>1, <2>2 DEF Search!Places
  <2>. QED
    BY <2>1, <2>3 DEF Search!Shown
<1>3. ASSUME NEW k \in 1..total, Search!Untied(k) PROVE Search!OnOnePage(k)
  <2> DEFINE rank == Cardinality({j \in 1..total : sortKey[j] < sortKey[k]}) + 1
  <2>1. \A p \in 1..Last : place[p][k] = rank
    BY <1>1, <1>3, PlaceIsRank DEF Search!Untied
  <2>2. rank \in 1..total
    <3>1. PICK p \in 1..Last : k \in Search!Items(total, limit, p)
      BY <1>1, PageOf
    <3>2. place[p][k] \in 1..total
      BY <1>1 DEF Search!Places
    <3>. QED
      BY <2>1, <3>2
  <2>. HIDE DEF rank
  <2>3. PICK p \in 1..Last : rank \in Search!Items(total, limit, p)
    BY <1>1, <2>2, PageOf
  <2>4. k \in Search!Shown(p)
    BY <2>1, <2>3 DEF Search!Shown
  <2>5. ASSUME NEW q \in 1..Last, k \in Search!Shown(q) PROVE q = p
    <3>1. rank \in Search!Items(total, limit, q)
      BY <2>1, <2>5 DEF Search!Shown
    <3>. QED
      BY <1>1, <2>3, <3>1, PagesApart
  <2>. QED
    BY <2>4, <2>5 DEF Search!OnOnePage
<1>. QED
  BY <1>2, <1>3 DEF Search!PagesPartition

-----------------------------------------------------------------------------
(* The letters of a slice.                                                  *)
LEMMA Slice ==
    ASSUME NEW v \in Seq(Character), NEW i \in 0..Len(v), NEW j \in i..Len(v)
    PROVE  /\ SubSeq(v, i + 1, j) \in Seq(Character)
           /\ Len(SubSeq(v, i + 1, j)) = j - i
           /\ \A k \in 1..(j - i) : SubSeq(v, i + 1, j)[k] = v[i + k]
<1>1. Len(v) \in Nat
  BY LenProperties
<1>2. i + 1 \in Int /\ j \in Int /\ i \in Nat
  BY <1>1
<1>3. \A k \in (i + 1)..j : v[k] \in Character
  BY <1>1, <1>2, ElementOfSeq
<1>4. /\ SubSeq(v, i + 1, j) \in Seq(Character)
      /\ Len(SubSeq(v, i + 1, j)) = IF i + 1 <= j THEN j - (i + 1) + 1 ELSE 0
      /\ \A k \in 1..(j - (i + 1) + 1) : SubSeq(v, i + 1, j)[k] = v[(i + 1) + k - 1]
  BY <1>2, <1>3, SubSeqProperties
<1>. QED
  BY <1>1, <1>2, <1>4

(* A text is a slice of another where it has the length and the letters.    *)
LEMMA SliceIs ==
    ASSUME NEW v \in Seq(Character), NEW c \in Seq(Character),
           NEW i \in 0..Len(v), NEW j \in i..Len(v)
    PROVE  SubSeq(v, i + 1, j) = c
              <=> Len(c) = j - i /\ \A k \in 1..Len(c) : c[k] = v[i + k]
<1>1. Len(v) \in Nat /\ Len(c) \in Nat
  BY LenProperties
<1> DEFINE t == SubSeq(v, i + 1, j)
<1>2. t \in Seq(Character) /\ Len(t) = j - i /\ \A k \in 1..(j - i) : t[k] = v[i + k]
  BY Slice
<1>. HIDE DEF t
<1>3. ASSUME Len(c) = j - i, \A k \in 1..Len(c) : c[k] = v[i + k] PROVE t = c
  BY <1>1, <1>2, <1>3, SeqEqual
<1>4. ASSUME t = c PROVE Len(c) = j - i /\ \A k \in 1..Len(c) : c[k] = v[i + k]
  BY <1>1, <1>2, <1>4
<1>. QED
  BY <1>3, <1>4 DEF t

(* startswith: the front of the text.                                       *)
LEMMA PrefixIsSlice ==
    ASSUME NEW v \in Seq(Character), NEW c \in Seq(Character)
    PROVE  Search!IsPrefix(c, v)
              <=> Len(c) <= Len(v) /\ \A k \in 1..Len(c) : c[k] = v[k]
<1>1. Len(v) \in Nat /\ Len(c) \in Nat
  BY LenProperties
<1>2. ASSUME Len(c) <= Len(v)
      PROVE  SubSeq(c, 1, Len(c)) = SubSeq(v, 1, Len(c))
                <=> \A k \in 1..Len(c) : c[k] = v[k]
  <2>1. SubSeq(c, 0 + 1, Len(c)) = c
    BY <1>1, SliceIs
  <2>2. SubSeq(v, 0 + 1, Len(c)) = c
           <=> Len(c) = Len(c) - 0 /\ \A k \in 1..Len(c) : c[k] = v[0 + k]
    <3>1. 0 \in 0..Len(v) /\ Len(c) \in 0..Len(v)
      BY <1>1, <1>2
    <3>. QED
      BY <3>1, SliceIs
  <2>3. (\A k \in 1..Len(c) : c[k] = v[0 + k]) <=> (\A k \in 1..Len(c) : c[k] = v[k])
    BY <1>1
  <2>4. 0 + 1 = 1 /\ Len(c) = Len(c) - 0
    BY <1>1
  <2>. QED
    BY <2>1, <2>2, <2>3, <2>4
<1>. QED
  BY <1>2 DEF Search!IsPrefix

(* endswith: the end of the text.                                           *)
LEMMA SuffixIsSlice ==
    ASSUME NEW v \in Seq(Character), NEW c \in Seq(Character)
    PROVE  Search!IsSuffix(c, v)
              <=> /\ Len(c) <= Len(v)
                  /\ \A k \in 1..Len(c) : c[k] = v[Len(v) - Len(c) + k]
<1>1. Len(v) \in Nat /\ Len(c) \in Nat
  BY LenProperties
<1>2. /\ Search!Reverse(c) \in Seq(Character) /\ Len(Search!Reverse(c)) = Len(c)
      /\ \A k \in 1..Len(c) : Search!Reverse(c)[k] = c[Len(c) - k + 1]
  <2>1. Search!Reverse(c) \in [1..Len(c) -> Character]
    BY <1>1, ElementOfSeq DEF Search!Reverse
  <2>. QED
    BY <1>1, <2>1 DEF Search!Reverse
<1>3. /\ Search!Reverse(v) \in Seq(Character) /\ Len(Search!Reverse(v)) = Len(v)
      /\ \A k \in 1..Len(v) : Search!Reverse(v)[k] = v[Len(v) - k + 1]
  <2>1. Search!Reverse(v) \in [1..Len(v) -> Character]
    BY <1>1, ElementOfSeq DEF Search!Reverse
  <2>. QED
    BY <1>1, <2>1 DEF Search!Reverse
<1>4. Search!IsSuffix(c, v)
         <=> /\ Len(c) <= Len(v)
             /\ \A k \in 1..Len(c) : Search!Reverse(c)[k] = Search!Reverse(v)[k]
  BY <1>2, <1>3, PrefixIsSlice DEF Search!IsSuffix
<1>5. ASSUME Len(c) <= Len(v)
      PROVE  (\A k \in 1..Len(c) : Search!Reverse(c)[k] = Search!Reverse(v)[k])
                <=> (\A k \in 1..Len(c) : c[k] = v[Len(v) - Len(c) + k])
  <2>1. \A k \in 1..Len(c) :
           /\ Len(c) - k + 1 \in 1..Len(c)
           /\ Search!Reverse(c)[k] = c[Len(c) - k + 1]
           /\ Search!Reverse(v)[k] = v[Len(v) - k + 1]
    BY <1>1, <1>2, <1>3, <1>5
  <2>2. ASSUME \A k \in 1..Len(c) : Search!Reverse(c)[k] = Search!Reverse(v)[k],
               NEW k \in 1..Len(c)
        PROVE  c[k] = v[Len(v) - Len(c) + k]
    <3>1. Len(c) - k + 1 \in 1..Len(c)
      BY <1>1
    <3>2. c[Len(c) - (Len(c) - k + 1) + 1] = v[Len(v) - (Len(c) - k + 1) + 1]
      BY <2>1, <2>2, <3>1
    <3>3. /\ Len(c) - (Len(c) - k + 1) + 1 = k
          /\ Len(v) - (Len(c) - k + 1) + 1 = Len(v) - Len(c) + k
      BY <1>1
    <3>. QED
      BY <3>2, <3>3
  <2>3. ASSUME \A k \in 1..Len(c) : c[k] = v[Len(v) - Len(c) + k], NEW k \in 1..Len(c)
        PROVE  Search!Reverse(c)[k] = Search!Reverse(v)[k]
    <3>1. c[Len(c) - k + 1] = v[Len(v) - Len(c) + (Len(c) - k + 1)]
      BY <2>1, <2>3
    <3>2. Len(v) - Len(c) + (Len(c) - k + 1) = Len(v) - k + 1
      BY <1>1
    <3>. QED
      BY <2>1, <3>1, <3>2
  <2>. QED
    BY <2>2, <2>3
<1>. QED
  BY <1>4, <1>5

(* What a pattern has between its stars.                                    *)
LEMMA CoreOf ==
    ASSUME NEW p \in Seq(Character)
    PROVE  /\ Search!Core(p) \in Seq(Character)
           /\ Search!StartsStar(p) /\ Search!EndsStar(p) => Search!Core(p) = Search!Inner(p)
           /\ Search!StartsStar(p) /\ ~Search!EndsStar(p) => Search!Core(p) = Tail(p)
           /\ ~Search!StartsStar(p) /\ Search!EndsStar(p) => Search!Core(p) = Search!Front(p)
           /\ ~Search!StartsStar(p) /\ ~Search!EndsStar(p) => Search!Core(p) = p
<1>1. /\ <<>> \in Seq(Character) /\ Len(<<>>) = 0
      /\ \A q \in Seq(Character) : q # <<>> => Len(q) \in Nat \ {0}
  BY EmptySeq
<1>2. Len(p) \in Nat /\ (p # <<>> => Len(p) > 0) /\ (p = <<>> => Len(p) = 0)
  BY <1>1, LenProperties
<1>3. ASSUME NEW q \in Seq(Character), q # <<>>
      PROVE  Search!Front(q) \in Seq(Character)
  <2>1. Len(q) \in Nat \ {0}
    BY <1>3, EmptySeq
  <2>2. SubSeq(q, 0 + 1, Len(q) - 1) \in Seq(Character)
    BY <2>1, Slice
  <2>. QED
    BY <2>2 DEF Search!Front
<1>4. CASE ~Search!StartsStar(p)
  BY <1>3, <1>4 DEF Search!Core, Search!EndsStar
<1>5. CASE Search!StartsStar(p)
  <2>1. /\ p # <<>> /\ Len(p) > 0 /\ Tail(p) \in Seq(Character)
        /\ Len(Tail(p)) = Len(p) - 1
        /\ \A k \in 1..Len(Tail(p)) : Tail(p)[k] = p[k + 1]
    BY <1>2, <1>5, HeadTailProperties DEF Search!StartsStar
  <2> DEFINE rest == Tail(p)
  <2>2. rest \in Seq(Character) /\ Len(rest) = Len(p) - 1
    BY <2>1
  <2>3. (Len(p) = 1 => rest = <<>>) /\ (Len(p) > 1 => rest # <<>>)
    <3>. HIDE DEF rest
    <3>. QED
      BY <1>1, <1>2, <2>2
  <2>4. CASE Len(p) = 1
    <3>1. Tail(p) = <<>>
      BY <2>4, <2>3
    <3>2. Search!Core(p) = <<>> /\ Search!EndsStar(p)
      BY <1>5, <2>4, <3>1 DEF Search!Core, Search!EndsStar, Search!StartsStar
    <3>3. Search!Inner(p) = <<>>
      BY <2>4, SubSeqEmpty DEF Search!Inner
    <3>. QED
      BY <1>5, <3>2, <3>3, EmptySeq
  <2>5. CASE Len(p) > 1
    <3>1. /\ Tail(p) # <<>> /\ Len(p) - 1 \in 1..(Len(p) - 1)
          /\ Tail(p)[Len(Tail(p))] = p[Len(p)]
      <4>1. Tail(p)[Len(p) - 1] = p[(Len(p) - 1) + 1] /\ (Len(p) - 1) + 1 = Len(p)
        BY <1>2, <2>1, <2>5
      <4>. QED
        BY <1>2, <2>1, <2>5, <2>3, <4>1
    <3>2. Search!EndsStar(Tail(p)) <=> Search!EndsStar(p)
      BY <2>1, <3>1 DEF Search!EndsStar
    <3>3. Search!Front(Tail(p)) = Search!Inner(p)
      <4> DEFINE s == SubSeq(Tail(p), 0 + 1, Len(p) - 2)
                 t == SubSeq(p, 1 + 1, Len(p) - 1)
      <4>1. /\ s \in Seq(Character) /\ Len(s) = Len(p) - 2 - 0
            /\ \A k \in 1..(Len(p) - 2 - 0) : s[k] = Tail(p)[0 + k]
        <5>1. 0 \in 0..Len(Tail(p)) /\ Len(p) - 2 \in 0..Len(Tail(p))
          BY <1>2, <2>1, <2>5
        <5>. QED
          BY <2>1, <5>1, Slice
      <4>2. /\ t \in Seq(Character) /\ Len(t) = Len(p) - 1 - 1
            /\ \A k \in 1..(Len(p) - 1 - 1) : t[k] = p[1 + k]
        <5>1. 1 \in 0..Len(p) /\ Len(p) - 1 \in 1..Len(p)
          BY <1>2, <2>5
        <5>. QED
          BY <5>1, Slice
      <4>3. s = Search!Front(Tail(p)) /\ t = Search!Inner(p)
        BY <1>2, <2>1 DEF Search!Front, Search!Inner
      <4>. HIDE DEF s, t
      <4>4. \A k \in 1..Len(s) : s[k] = t[k]
        BY <1>2, <2>1, <2>5, <4>1, <4>2
      <4>5. s = t
        BY <1>2, <4>1, <4>2, <4>4, SeqEqual
      <4>. QED
        BY <4>3, <4>5
    <3>. QED
      BY <1>3, <1>5, <2>1, <3>1, <3>2, <3>3 DEF Search!Core
  <2>. QED
    BY <1>2, <2>1, <2>4, <2>5
<1>. QED
  BY <1>4, <1>5

(* What a search value with given stars stands for.                         *)
Stands(v, c, starts, ends) ==
    \E i \in 0..Len(v) : \E j \in i..Len(v) :
       /\ SubSeq(v, i + 1, j) = c
       /\ i = 0 \/ starts
       /\ j = Len(v) \/ ends

(* A star at each end: the text is somewhere.                               *)
LEMMA Anywhere ==
    ASSUME NEW v \in Seq(Character), NEW c \in Seq(Character)
    PROVE  (\E i \in 0..Len(v) : Search!IsPrefix(c, SubSeq(v, i + 1, Len(v))))
              <=> Stands(v, c, TRUE, TRUE)
<1>1. Len(v) \in Nat /\ Len(c) \in Nat
  BY LenProperties
<1>2. ASSUME NEW i \in 0..Len(v)
      PROVE  Search!IsPrefix(c, SubSeq(v, i + 1, Len(v)))
                <=> \E j \in i..Len(v) : SubSeq(v, i + 1, j) = c
  <2> DEFINE t == SubSeq(v, i + 1, Len(v))
  <2>1. /\ t \in Seq(Character) /\ Len(t) = Len(v) - i
        /\ \A k \in 1..(Len(v) - i) : t[k] = v[i + k]
    BY <1>1, Slice
  <2>. HIDE DEF t
  <2>2. Search!IsPrefix(c, t) <=> Len(c) <= Len(t) /\ \A k \in 1..Len(c) : c[k] = t[k]
    BY <2>1, PrefixIsSlice
  <2>3. ASSUME Search!IsPrefix(c, t) PROVE \E j \in i..Len(v) : SubSeq(v, i + 1, j) = c
    <3>1. i + Len(c) \in i..Len(v) /\ (i + Len(c)) - i = Len(c)
      BY <1>1, <2>1, <2>2, <2>3
    <3>2. \A k \in 1..Len(c) : c[k] = v[i + k]
      BY <1>1, <2>1, <2>2, <2>3
    <3>3. SubSeq(v, i + 1, i + Len(c)) = c
      BY <3>1, <3>2, SliceIs
    <3>. QED
      BY <3>1, <3>3
  <2>4. ASSUME NEW j \in i..Len(v), SubSeq(v, i + 1, j) = c PROVE Search!IsPrefix(c, t)
    <3>1. Len(c) = j - i /\ \A k \in 1..Len(c) : c[k] = v[i + k]
      BY <2>4, SliceIs
    <3>. QED
      BY <1>1, <2>1, <2>2, <3>1
  <2>. QED
    BY <2>3, <2>4 DEF t
<1>. QED
  BY <1>2 DEF Stands

(* A star at the front: the text is at the end.                             *)
LEMMA AtTheEnd ==
    ASSUME NEW v \in Seq(Character), NEW c \in Seq(Character)
    PROVE  Search!IsSuffix(c, v) <=> Stands(v, c, TRUE, FALSE)
<1>1. Len(v) \in Nat /\ Len(c) \in Nat
  BY LenProperties
<1>2. ASSUME Search!IsSuffix(c, v) PROVE Stands(v, c, TRUE, FALSE)
  <2> DEFINE i == Len(v) - Len(c)
  <2>1. Len(c) <= Len(v) /\ \A k \in 1..Len(c) : c[k] = v[i + k]
    BY <1>2, SuffixIsSlice
  <2>2. i \in 0..Len(v) /\ Len(v) \in i..Len(v) /\ Len(v) - i = Len(c)
    BY <1>1, <2>1
  <2>. HIDE DEF i
  <2>3. SubSeq(v, i + 1, Len(v)) = c
    BY <2>1, <2>2, SliceIs
  <2>. QED
    BY <2>2, <2>3 DEF Stands
<1>3. ASSUME Stands(v, c, TRUE, FALSE) PROVE Search!IsSuffix(c, v)
  <2>1. PICK i \in 0..Len(v) : Len(v) \in i..Len(v) /\ SubSeq(v, i + 1, Len(v)) = c
    BY <1>3 DEF Stands
  <2>2. Len(c) = Len(v) - i /\ \A k \in 1..Len(c) : c[k] = v[i + k]
    BY <2>1, SliceIs
  <2>3. i = Len(v) - Len(c) /\ Len(c) <= Len(v)
    BY <1>1, <2>2
  <2>4. \A k \in 1..Len(c) : c[k] = v[Len(v) - Len(c) + k]
    BY <2>2, <2>3
  <2>. QED
    BY <2>3, <2>4, SuffixIsSlice
<1>. QED
  BY <1>2, <1>3

(* A star at the end: the text is at the front.                             *)
LEMMA AtTheFront ==
    ASSUME NEW v \in Seq(Character), NEW c \in Seq(Character)
    PROVE  Search!IsPrefix(c, v) <=> Stands(v, c, FALSE, TRUE)
<1>1. Len(v) \in Nat /\ Len(c) \in Nat /\ 0 \in 0..Len(v)
  BY LenProperties
<1>2. \A j \in 0..Len(v) :
         SubSeq(v, 0 + 1, j) = c <=> Len(c) = j - 0 /\ \A k \in 1..Len(c) : c[k] = v[0 + k]
  BY <1>1, SliceIs
<1>3. (\A k \in 1..Len(c) : c[k] = v[0 + k]) <=> (\A k \in 1..Len(c) : c[k] = v[k])
  BY <1>1
<1>4. Stands(v, c, FALSE, TRUE) <=> \E j \in 0..Len(v) : SubSeq(v, 0 + 1, j) = c
  BY <1>1 DEF Stands
<1>5. Search!IsPrefix(c, v) <=> Len(c) <= Len(v) /\ \A k \in 1..Len(c) : c[k] = v[k]
  BY PrefixIsSlice
<1>6. (\E j \in 0..Len(v) : Len(c) = j - 0) <=> Len(c) <= Len(v)
  BY <1>1
<1>. QED
  BY <1>2, <1>3, <1>4, <1>5, <1>6

(* No star at either end: the text is the whole.                            *)
LEMMA TheWhole ==
    ASSUME NEW v \in Seq(Character), NEW c \in Seq(Character)
    PROVE  v = c <=> Stands(v, c, FALSE, FALSE)
<1>1. Len(v) \in Nat /\ 0 \in 0..Len(v) /\ Len(v) \in 0..Len(v)
  BY LenProperties
<1>2. SubSeq(v, 0 + 1, Len(v)) = v
  BY <1>1, SliceIs
<1>3. Stands(v, c, FALSE, FALSE) <=> SubSeq(v, 0 + 1, Len(v)) = c
  BY <1>1 DEF Stands
<1>. QED
  BY <1>2, <1>3

StandsFor(v, p) ==
    Stands(v, Search!Core(p), Search!StartsStar(p), Search!EndsStar(p))

(* A search value is a glob.                                                *)
LEMMA Globs ==
    ASSUME NEW v \in Seq(Character), NEW p \in Seq(Character), v # Absent
    PROVE  Search!Matches(v, p) <=> StandsFor(v, p)
<1>1. Search!Core(p) \in Seq(Character)
  BY CoreOf
<1>2. CASE Search!StartsStar(p) /\ Search!EndsStar(p)
  <2>1. StandsFor(v, p) <=> Stands(v, Search!Core(p), TRUE, TRUE)
    BY <1>2 DEF Stands, StandsFor
  <2>2. Search!Core(p) = Search!Inner(p)
    BY <1>2, CoreOf
  <2>3. Stands(v, Search!Inner(p), TRUE, TRUE)
           <=> \E i \in 0..Len(v) : Search!IsPrefix(Search!Inner(p), SubSeq(v, i + 1, Len(v)))
    BY <1>1, <2>2, Anywhere
  <2>. QED
    BY <1>2, <2>1, <2>2, <2>3 DEF Search!Matches
<1>3. CASE Search!StartsStar(p) /\ ~Search!EndsStar(p)
  <2>1. StandsFor(v, p) <=> Stands(v, Search!Core(p), TRUE, FALSE)
    BY <1>3 DEF Stands, StandsFor
  <2>2. Search!Core(p) = Tail(p)
    BY <1>3, CoreOf
  <2>3. Stands(v, Tail(p), TRUE, FALSE) <=> Search!IsSuffix(Tail(p), v)
    BY <1>1, <2>2, AtTheEnd
  <2>. QED
    BY <1>3, <2>1, <2>2, <2>3 DEF Search!Matches
<1>4. CASE ~Search!StartsStar(p) /\ Search!EndsStar(p)
  <2>1. StandsFor(v, p) <=> Stands(v, Search!Core(p), FALSE, TRUE)
    BY <1>4 DEF Stands, StandsFor
  <2>2. Search!Core(p) = Search!Front(p)
    BY <1>4, CoreOf
  <2>3. Stands(v, Search!Front(p), FALSE, TRUE) <=> Search!IsPrefix(Search!Front(p), v)
    BY <1>1, <2>2, AtTheFront
  <2>. QED
    BY <1>4, <2>1, <2>2, <2>3 DEF Search!Matches
<1>5. CASE ~Search!StartsStar(p) /\ ~Search!EndsStar(p)
  <2>1. StandsFor(v, p) <=> Stands(v, Search!Core(p), FALSE, FALSE)
    BY <1>5 DEF Stands, StandsFor
  <2>2. Search!Core(p) = p
    BY <1>5, CoreOf
  <2>3. Stands(v, p, FALSE, FALSE) <=> v = p
    BY TheWhole
  <2>. QED
    BY <1>5, <2>1, <2>2, <2>3 DEF Search!Matches
<1>. QED
  BY <1>2, <1>3, <1>4, <1>5

(* The filter of the model.                                                 *)
LEMMA Glob == SearchTyped => Search!MatchesIsGlob
<1> SUFFICES ASSUME SearchTyped PROVE Search!MatchesIsGlob
  OBVIOUS
<1>1. CASE value = Absent
  BY <1>1 DEF Search!MatchesIsGlob, Search!Matches
<1>2. CASE value # Absent
  <2>1. value \in Seq(Character) /\ pattern \in Seq(Character)
    BY <1>2 DEF SearchTyped
  <2>. QED
    BY <1>2, <2>1, Globs DEF Search!MatchesIsGlob, Stands, StandsFor
<1>. QED
  BY <1>1, <1>2

-----------------------------------------------------------------------------
(* A step that does not list leaves the pages as they are.                  *)
LEMMA Kept ==
    ASSUME SearchTyped, UNCHANGED <<total, limit, sortKey, place>>,
           value' \in Seq(Character) \cup {Absent}, pattern' \in Seq(Character)
    PROVE  SearchTyped'
<1>1. /\ Search!Pages(total, limit)' = Search!Pages(total, limit)
      /\ Search!Places(total, sortKey)' = Search!Places(total, sortKey)
  BY DEF Search!Pages, Search!Places
<1>. QED
  BY <1>1 DEF SearchTyped

(* A value and a pattern stay texts, a listing has a length and a limit.    *)
THEOREM SearchInvariant == ASSUME Search!SearchAssumption PROVE Search!Spec => []SearchTyped
<1>1. \A n \in Nat : Search!Texts(n) \subseteq Seq(Character)
  BY DEF Search!Texts, Character
<1>2. Search!Init => SearchTyped
  <2> SUFFICES ASSUME Search!Init PROVE SearchTyped
    OBVIOUS
  <2>1. Search!Pages(total, limit) = 0 /\ 1..total = {}
    BY DEF Search!Init, Search!Begun, Search!Pages
  <2>2. sortKey \in [1..total -> Nat] /\ place \in [{} -> Search!Places(total, sortKey)]
    BY <2>1 DEF Search!Init, Search!Begun
  <2>. QED
    BY <2>1, <2>2 DEF Search!Init, Search!Begun, SearchTyped
<1>3. SearchTyped /\ [Search!Next]_(Search!vars) => SearchTyped'
  <2> SUFFICES ASSUME SearchTyped, [Search!Next]_(Search!vars) PROVE SearchTyped'
    OBVIOUS
  <2>1. CASE Search!Filter
    <3>1. value' \in Seq(Character) \cup {Absent} /\ pattern' \in Seq(Character)
      BY <1>1, <2>1 DEF Search!Filter, SearchTyped, Search!SearchAssumption
    <3>2. UNCHANGED <<total, limit, sortKey, place>>
      BY <2>1 DEF Search!Filter
    <3>. QED
      BY <3>1, <3>2, Kept
  <2>2. CASE Search!Found
    <3>1. total' \in Nat /\ limit' \in Nat \ {0} /\ UNCHANGED <<value, pattern>>
      BY <2>2 DEF Search!Found, Search!SearchAssumption
    <3>2. [k \in 1..total' |-> k] \in Search!Places(total', sortKey')
      BY <2>2, <3>1 DEF Search!Found, Search!Places
    <3>3. sortKey' \in [1..total' -> Nat]
      BY <2>2, <3>1 DEF Search!Found
    <3>4. place' \in [1..Search!Pages(total', limit') -> Search!Places(total', sortKey')]
      BY <2>2, <3>2 DEF Search!Found
    <3>. QED
      BY <3>1, <3>3, <3>4 DEF SearchTyped, Search!Pages, Search!Places
  <2>3. CASE Search!List
    <3>1. total' \in Nat /\ limit' \in Nat \ {0} /\ UNCHANGED <<value, pattern>>
      BY <2>3 DEF Search!List, Search!SearchAssumption
    <3>2. sortKey' \in [1..total' -> Nat]
      BY <2>3, <3>1 DEF Search!List
    <3>3. place' \in [1..Search!Pages(total', limit') -> Search!Places(total', sortKey')]
      BY <2>3 DEF Search!List
    <3>. QED
      BY <3>1, <3>2, <3>3 DEF SearchTyped, Search!Pages, Search!Places
  <2>4. CASE UNCHANGED Search!vars
    <3>1. value' = value /\ pattern' = pattern
      BY <2>4 DEF Search!vars
    <3>2. UNCHANGED <<total, limit, sortKey, place>>
      BY <2>4 DEF Search!vars
    <3>. QED
      BY <3>1, <3>2, Kept DEF SearchTyped
  <2>. QED
    BY <2>1, <2>2, <2>3, <2>4 DEF Search!Next
<1>. QED
  BY <1>2, <1>3, PTL DEF Search!Spec

(* A search value matches a value exactly if it stands for it: a star at    *)
(* either end for any text, every other star for itself, however long the   *)
(* value and the pattern are, and though "*" is both its ends.              *)
THEOREM SearchesAreGlobs ==
    ASSUME Search!SearchAssumption
    PROVE  Search!Spec => []Search!MatchesIsGlob
<1>. QED
  BY SearchInvariant, Glob, PTL

(* The pages of a search have every record once, and those of a listing     *)
(* every record that no other ties with, whatever order each query gives    *)
(* the others; and no page is empty, for any number of records and any      *)
(* limit of a page.                                                         *)
THEOREM PagesArePartitions ==
    ASSUME Search!SearchAssumption
    PROVE  Search!Spec => []Search!PagesPartition
<1>. QED
  BY SearchInvariant, Partition, PTL

=============================================================================
