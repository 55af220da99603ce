------------------------------ MODULE MCPlatform -----------------------------
(* A small instance of Platform for TLC, which explores the sum of the      *)
(* states of the services instead of the product.                           *)
EXTENDS Platform, TLC

CONSTANTS w1, w2, w3, a1, a2, s1, i1, i2, i3, i4, r1, r2, n1, n2

(* Two names of one slug and one of another.                                *)
Names == {"Notas", "notas", "Finanzas"}
Slugs == {"notas", "finanzas"}
Slugify == [n \in Names |-> IF n = "Finanzas" THEN "finanzas" ELSE "notas"]

(* A scoop of one of the two applications.                                  *)
ScoopApps == s1 :> a1

(* Three workers boot at once, and two die.                                 *)
BootingThree ==
    [worker |-> {w1, w2, w3}, schema |-> {i1, i2, i3, i4}, record |-> {r1, r2},
     name |-> {n1, n2}, seeds |-> {n1, n2}, kind |-> {"text", "object"}, crashes |-> 2]

(* Two workers: schemas and columns, while the other may boot.              *)
ColumnedTwo ==
    [worker |-> {w1, w2}, schema |-> {i1, i2}, record |-> {r1, r2},
     name |-> {n1, n2}, seeds |-> {n1}, kind |-> {"text", "object"}, crashes |-> 1]

(* Two workers: records, while their schema may go.                         *)
RecordedTwo ==
    [worker |-> {w1, w2}, schema |-> {i1}, record |-> {r1, r2},
     name |-> {n1}, seeds |-> {n1}, kind |-> {"text", "object"}, crashes |-> 1]

(* One worker: columns and a record, with values that fit either type.       *)
ValuedOne ==
    [worker |-> {w1}, schema |-> {i1}, record |-> {r1},
     name |-> {n1}, seeds |-> {n1}, kind |-> {"text", "object", "truth"}, crashes |-> 0]

=============================================================================
