------------------------------ MODULE Configurator ---------------------------
(***************************************************************************)
(* The tables of the Configurator (app/modules/configurator): schemas with *)
(* their columns and records, and the example rows that create_app puts    *)
(* there when a worker process boots (seed.py, app/__init__.py).           *)
(*                                                                         *)
(* gunicorn boots its workers at the same time and ends, all workers with  *)
(* it, when one fails to boot; Kubernetes then starts the container again. *)
(* A request to PUT or DELETE a schema or a column is one transaction; one *)
(* for a record validates it against columns that it has read before.      *)
(***************************************************************************)
EXTENDS Naturals, FiniteSets

CONSTANTS
    Worker,     \* gunicorn worker processes
    Schema,     \* ids of schemas, each given out once
    Record,     \* ids of records, each given out once
    Name,       \* names of schemas
    Seeds,      \* those of the example schemas
    ColName,    \* names of columns
    Type,       \* data types of columns
    Kind,       \* kinds of values in records
    None,       \* no name, no id
    Requests,   \* what clients ask for
    MaxCrashes  \* bound of the model: deaths of a worker process

(* Assumed by the modules that instantiate this one.                        *)
ConfiguratorAssumption ==
    /\ Seeds \subseteq Name
    /\ None \notin Name \cup Schema \cup Record
    /\ {"Key", "Value"} \subseteq ColName
    /\ Type \subseteq {"string", "number", "boolean", "json"} /\ {"string", "json"} \subseteq Type
    /\ Kind \subseteq {"text", "digits", "truth", "number", "bool", "object"}
    /\ {"text", "object"} \subseteq Kind
    /\ Requests \subseteq {"schemas", "columns", "records"}
    /\ MaxCrashes \in Nat

Column == [name : ColName, type : Type]
Value  == [key : ColName, kind : Kind]

VARIABLES
    name,     \* name[i]: the name of schema i, None while there is no such row
    cols,     \* cols[i]: the columns that refer to schema i
    rec,      \* rec[r]: the row of record r: its schema, None if none, and data
    used,     \* the ids of schemas and records that were given out
    pc,       \* pc[w]: the step worker w is about to run
    target,   \* target[w]: the schemas it has just made, or the id it serves
    body,     \* body[w]: the record it is about to store
    crashes   \* worker processes that died

rowVars == <<name, cols, rec, used>>
vars == <<rowVars, pc, target, body, crashes>>

NoRec == [of |-> None, data |-> {}]

Init ==
    /\ name    = [i \in Schema |-> None]
    /\ cols    = [i \in Schema |-> {}]
    /\ rec     = [r \in Record |-> NoRec]
    /\ used    = {}
    /\ pc      = [w \in Worker |-> "boot"]
    /\ target  = [w \in Worker |-> {}]
    /\ body    = [w \in Worker |-> NoRec]
    /\ crashes = 0

-----------------------------------------------------------------------------
Live   == {i \in Schema : name[i] # None}
Stored == {r \in Record : rec[r].of # None}

Goto(w, step) == pc' = [pc EXCEPT ![w] = step]

Idle(w) ==
    /\ Goto(w, "serving")
    /\ target' = [target EXCEPT ![w] = {}]
    /\ body'   = [body EXCEPT ![w] = NoRec]

(* An exception in create_app: gunicorn halts, the container starts anew.   *)
Fail(w) ==
    /\ Goto(w, "failed")
    /\ UNCHANGED <<rowVars, target, body>>

Restart ==
    /\ \E w \in Worker : pc[w] = "failed"
    /\ pc'     = [w \in Worker |-> "boot"]
    /\ target' = [w \in Worker |-> {}]
    /\ body'   = [w \in Worker |-> NoRec]
    /\ UNCHANGED <<rowVars, crashes>>

(* Mutant: the table is not looked at.                                      *)
BootBlind(w) ==
    /\ pc[w] = "boot"
    /\ Goto(w, "seedSchemas")
    /\ UNCHANGED <<rowVars, target, body, crashes>>

(* seed_configurator: nothing to do once there is a schema.                 *)
Boot(w) ==
    /\ pc[w] = "boot"
    /\ Goto(w, IF Live = {} THEN "seedSchemas" ELSE "serving")
    /\ UNCHANGED <<rowVars, target, body, crashes>>

(* Three transactions: the example schemas, whose names are UNIQUE, then    *)
(* their columns, then their records, which refer to the schemas.           *)
SeedSchemas(w) ==
    /\ pc[w] = "seedSchemas"
    /\ \/ /\ \E i \in Live : name[i] \in Seeds
          /\ Fail(w)
       \/ /\ \A i \in Live : name[i] \notin Seeds
          /\ \E new \in [Seeds -> Schema \ used] :
                LET ids == {new[n] : n \in Seeds} IN
                /\ \A m, n \in Seeds : m # n => new[m] # new[n]
                /\ name' = [i \in Schema |->
                              IF i \in ids THEN CHOOSE n \in Seeds : new[n] = i ELSE name[i]]
                /\ used'   = used \cup ids
                /\ target' = [target EXCEPT ![w] = ids]
          /\ Goto(w, "seedColumns")
          /\ UNCHANGED <<cols, rec, body>>
    /\ UNCHANGED crashes

SeedCols == {[name |-> "Key", type |-> "string"], [name |-> "Value", type |-> "json"]}
SeedData == {[key |-> "Key", kind |-> "text"], [key |-> "Value", kind |-> "object"]}

(* A client of another worker may have given a schema a column since.       *)
SeedColumns(w) ==
    LET clash == \E i \in target[w] : \E c \in cols[i], d \in SeedCols : c.name = d.name IN
    /\ pc[w] = "seedColumns"
    /\ \/ /\ ~(target[w] \subseteq Live) \/ clash
          /\ Fail(w)
       \/ /\ target[w] \subseteq Live /\ ~clash
          /\ cols' = [i \in Schema |-> IF i \in target[w] THEN cols[i] \cup SeedCols ELSE cols[i]]
          /\ Goto(w, "seedRecords")
          /\ UNCHANGED <<name, rec, used, target, body>>
    /\ UNCHANGED crashes

SeedRecords(w) ==
    /\ pc[w] = "seedRecords"
    /\ \/ /\ ~(target[w] \subseteq Live)
          /\ Fail(w)
       \/ /\ target[w] \subseteq Live
          /\ \E new \in [target[w] -> Record \ used] :
                LET ids == {new[i] : i \in target[w]} IN
                /\ \A i, j \in target[w] : i # j => new[i] # new[j]
                /\ rec' = [r \in Record |->
                             IF r \in ids
                             THEN [of |-> CHOOSE i \in target[w] : new[i] = r, data |-> SeedData]
                             ELSE rec[r]]
                /\ used' = used \cup ids
          /\ Idle(w)
          /\ UNCHANGED <<name, cols>>
    /\ UNCHANGED crashes

(* gunicorn or the kernel ends one worker; a new one boots in its place.    *)
Crash(w) ==
    /\ crashes < MaxCrashes
    /\ pc[w] # "failed"
    /\ crashes' = crashes + 1
    /\ Goto(w, "boot")
    /\ target' = [target EXCEPT ![w] = {}]
    /\ body'   = [body EXCEPT ![w] = NoRec]
    /\ UNCHANGED rowVars

-----------------------------------------------------------------------------
Serves(w, what) == pc[w] = "serving" /\ what \in Requests

Unchanged == UNCHANGED <<pc, target, body, crashes>>

Free(n) == \A i \in Live : name[i] # n

CreateSchema(w, n) ==
    /\ Serves(w, "schemas")
    /\ Free(n)
    /\ \E i \in Schema \ used :
          /\ name' = [name EXCEPT ![i] = n]
          /\ used' = used \cup {i}
    /\ UNCHANGED <<cols, rec>> /\ Unchanged

RenameSchema(w, i, n) ==
    /\ Serves(w, "schemas")
    /\ i \in Live /\ Free(n)
    /\ name' = [name EXCEPT ![i] = n]
    /\ UNCHANGED <<cols, rec, used>> /\ Unchanged

(* Mutant: only the columns go with it.                                     *)
DeleteSchemaKeep(w, i) ==
    /\ Serves(w, "schemas")
    /\ i \in Live
    /\ name' = [name EXCEPT ![i] = None]
    /\ cols' = [cols EXCEPT ![i] = {}]
    /\ UNCHANGED <<rec, used>> /\ Unchanged

(* The columns and the records go with it (cascade of the relationships).   *)
DeleteSchema(w, i) ==
    /\ Serves(w, "schemas")
    /\ i \in Live
    /\ name' = [name EXCEPT ![i] = None]
    /\ cols' = [cols EXCEPT ![i] = {}]
    /\ rec'  = [r \in Record |-> IF rec[r].of = i THEN NoRec ELSE rec[r]]
    /\ UNCHANGED used /\ Unchanged

(* A column of each name in a schema (uq_schema_column).                    *)
NewIn(i, c, old) == \A d \in cols[i] \ old : d.name # c.name

CreateColumn(w, i, c) ==
    /\ Serves(w, "columns")
    /\ i \in Live /\ NewIn(i, c, {})
    /\ cols' = [cols EXCEPT ![i] = @ \cup {c}]
    /\ UNCHANGED <<name, rec, used>> /\ Unchanged

(* A new name or type, whatever the records have.                           *)
UpdateColumn(w, i, c, d) ==
    /\ Serves(w, "columns")
    /\ c \in cols[i] /\ NewIn(i, d, {c})
    /\ cols' = [cols EXCEPT ![i] = (@ \ {c}) \cup {d}]
    /\ UNCHANGED <<name, rec, used>> /\ Unchanged

DeleteColumn(w, i, c) ==
    /\ Serves(w, "columns")
    /\ c \in cols[i]
    /\ cols' = [cols EXCEPT ![i] = @ \ {c}]
    /\ UNCHANGED <<name, rec, used>> /\ Unchanged

-----------------------------------------------------------------------------
(* validate_record_data: what a column of a type accepts ("truth" and       *)
(* "digits" are texts that read as a boolean and as a number; a bool of     *)
(* Python is a number), and no key without a column.                        *)
Accepts(type) ==
    CASE type = "string"  -> {"text", "digits", "truth", "number", "bool"}
      [] type = "number"  -> {"number", "bool", "digits"}
      [] type = "boolean" -> {"bool", "truth"}
      [] type = "json"    -> {"object", "digits", "truth"}

Fits(data, i) ==
    \A v \in data : \E c \in cols[i] : c.name = v.key /\ v.kind \in Accepts(c.type)

(* Objects of values, one for each key.                                     *)
Data == {d \in SUBSET Value : \A u, v \in d : u.key = v.key => u = v}

Hold(w, ids, row) ==
    /\ target' = [target EXCEPT ![w] = ids]
    /\ body'   = [body EXCEPT ![w] = row]
    /\ UNCHANGED <<rowVars, crashes>>

(* POST /api/schemas/<id>/records: the body must have a Value (RecordCreate *)
(* of schema.py), which a schema that is not there has no column for.       *)
BeginCreateRecord(w, i, d) ==
    /\ Serves(w, "records")
    /\ \E v \in d : v.key = "Value"
    /\ Hold(w, {i}, [of |-> i, data |-> d])
    /\ Goto(w, IF Fits(d, i) THEN "insert" ELSE "bad")

(* The INSERT, which its foreign key fails when the schema is gone by now.  *)
InsertRecord(w) ==
    LET row == body[w] IN
    /\ pc[w] = "insert"
    /\ \/ /\ row.of \in Live
          /\ \E r \in Record \ used :
                /\ rec'  = [rec EXCEPT ![r] = row]
                /\ used' = used \cup {r}
       \/ /\ row.of \notin Live
          /\ UNCHANGED <<rec, used>>
    /\ Idle(w)
    /\ UNCHANGED <<name, cols, crashes>>

(* Mutant: a PUT is not validated.                                          *)
BeginUpdateRecordAny(w, r, d) ==
    /\ Serves(w, "records")
    /\ r \in Stored
    /\ Hold(w, {r}, [of |-> rec[r].of, data |-> d])
    /\ Goto(w, "store")

(* PUT /api/schemas/<id>/records/<id>: the controller turns any refusal of  *)
(* the service into a 404.                                                  *)
BeginUpdateRecord(w, r, d) ==
    /\ Serves(w, "records")
    /\ Hold(w, {r}, IF r \in Stored THEN [of |-> rec[r].of, data |-> d] ELSE NoRec)
    /\ Goto(w, IF r \in Stored /\ Fits(d, rec[r].of) THEN "store" ELSE "missing")

(* The UPDATE, an error when the row is gone by now.                        *)
StoreRecord(w) ==
    /\ pc[w] = "store"
    /\ rec' = [r \in Record |-> IF r \in target[w] \cap Stored THEN body[w] ELSE rec[r]]
    /\ Idle(w)
    /\ UNCHANGED <<name, cols, used, crashes>>

(* A 400 or a 404 goes out.                                                 *)
Refuse(w) ==
    /\ pc[w] \in {"bad", "missing"}
    /\ Idle(w)
    /\ UNCHANGED <<rowVars, crashes>>

DeleteRecord(w, r) ==
    /\ Serves(w, "records")
    /\ r \in Stored
    /\ rec' = [rec EXCEPT ![r] = NoRec]
    /\ UNCHANGED <<name, cols, used>> /\ Unchanged

BootStep(w) == Boot(w) \/ SeedSchemas(w) \/ SeedColumns(w) \/ SeedRecords(w)

Serve(w) ==
    \/ InsertRecord(w) \/ StoreRecord(w) \/ Refuse(w)
    \/ \E n \in Name :
          CreateSchema(w, n) \/ \E i \in Schema : RenameSchema(w, i, n)
    \/ \E i \in Schema :
          \/ DeleteSchema(w, i)
          \/ \E c \in Column :
                \/ CreateColumn(w, i, c) \/ DeleteColumn(w, i, c)
                \/ \E d \in Column : UpdateColumn(w, i, c, d)
          \/ \E d \in Data : BeginCreateRecord(w, i, d)
    \/ \E r \in Record : DeleteRecord(w, r) \/ \E d \in Data : BeginUpdateRecord(w, r, d)

Act(w) == BootStep(w) \/ Serve(w) \/ Crash(w)

Next == Restart \/ \E w \in Worker : Act(w)

Spec == Init /\ [][Next]_vars

(* Boots and requests that do not overlap: a worker acts while no other has *)
(* begun one.                                                               *)
Alone(w) == \A v \in Worker \ {w} : pc[v] \in {"boot", "serving", "failed"}

SerialNext == Restart \/ \E w \in Worker : Alone(w) /\ Act(w)

SerialSpec == Init /\ [][SerialNext]_vars

(* create_app runs to its end, and Kubernetes starts what has ended.        *)
FairSpec == Spec /\ WF_vars(Restart) /\ \A w \in Worker : WF_vars(BootStep(w))

-----------------------------------------------------------------------------
TypeOK ==
    /\ name \in [Schema -> Name \cup {None}]
    /\ cols \in [Schema -> SUBSET Column]
    /\ \A r \in Record : rec[r].of \in Schema \cup {None} /\ rec[r].data \subseteq Value
    /\ used \subseteq Schema \cup Record
    /\ pc \in [Worker -> {"boot", "seedSchemas", "seedColumns", "seedRecords", "failed",
                          "serving", "insert", "store", "bad", "missing"}]
    /\ crashes \in 0..MaxCrashes
    /\ \A i \in Schema : \A c, d \in cols[i] : c.name = d.name => c = d
    /\ \A i, j \in Live : name[i] = name[j] => i = j

(* "Elimina un schema (y sus columnas/records en cascada)" (controller.py): *)
(* no column and no record is left of a schema that is gone.                *)
RowsRefer ==
    /\ \A i \in Schema : cols[i] # {} => i \in Live
    /\ \A r \in Stored : rec[r].of \in Live

(* A record fits the columns of its schema in the step that stores it.      *)
FitsWhenStored ==
    \A r \in Record :
        rec'[r] # rec[r] /\ rec'[r] # NoRec => Fits(rec'[r].data, rec'[r].of)

(* update_record documents (controller.py:345-346) "400: Datos invalidos"   *)
(* and "404: No existe": a 404 means that there is no such record.          *)
MissingIsMissing == \A w \in Worker : pc[w] = "missing" => target[w] \cap Stored = {}

(* create_record documents (controller.py:300-301) "400: Datos invalidos    *)
(* segun las columnas" and "404: Schema no encontrado".                     *)
BadIsBad == \A w \in Worker : pc[w] = "bad" => target[w] \subseteq Live

(* seed.py: "Idempotente" - a worker that boots beside another, or after    *)
(* another, does not fail.                                                  *)
BootNeverFails == \A w \in Worker : pc[w] # "failed"

(* ... and once the workers serve, the example schemas are what seed.py     *)
(* makes of them, while no client has changed anything.                     *)
SeedWhole ==
    (\A w \in Worker : pc[w] = "serving") =>
        \A i \in Live : cols[i] = SeedCols /\ \E r \in Record : rec[r].of = i

(* A boot that fails over the seed is over with the next start: all workers *)
(* come to serve.                                                           *)
ComesUp == <>[](\A w \in Worker : pc[w] \notin {"failed", "boot"})

=============================================================================
