----------------------------- MODULE RecordSearch ----------------------------
(***************************************************************************)
(* Search over the records of a schema (configurator/records/service.py),  *)
(* its listing, and the pages both are cut into, against what they are to  *)
(* give.  A text is the sequence of its letters in lower case; a value is  *)
(* one, or Absent.                                                         *)
(*                                                                         *)
(* Every page is a request of its own, and a query of its own.  MySQL puts *)
(* rows that tie in the ORDER BY in any order, and in one query as it does *)
(* not in the next; without an ORDER BY it reads the rows of a schema by   *)
(* id.  No record is written between the pages.                            *)
(***************************************************************************)
EXTENDS Naturals, SequencesExt

CONSTANTS
    Letter,      \* letters a value may have
    Star,        \* the character "*"
    Absent,      \* the record has no such key
    MaxValue,    \* bound of the model: letters of a value
    MaxPattern,  \* bound of the model: letters of a search value
    MaxItems,    \* bound of the model: records found by a search
    MaxListed,   \* bound of the model: records of a schema that is listed
    MaxLimit     \* bound of the model: records of a page

(* Assumed by the modules that instantiate this one.                        *)
SearchAssumption ==
    /\ Star \notin Letter
    /\ MaxValue \in Nat /\ MaxPattern \in Nat /\ MaxItems \in Nat
    /\ MaxListed \in Nat /\ MaxLimit \in Nat \ {0}

VARIABLES
    value,    \* the value of a record under the key of a filter
    pattern,  \* the search value of the filter
    total,    \* how many records there are to list
    limit,    \* and how many go on a page
    sortKey,  \* sortKey[k]: what record k is listed by, its age or its id
    place     \* place[p][k]: where record k stands in the query for page p

vars == <<value, pattern, total, limit, sortKey, place>>

-----------------------------------------------------------------------------
StartsStar(p) == p # <<>> /\ p[1] = Star
EndsStar(p)   == p # <<>> /\ p[Len(p)] = Star

(* The slice [1:-1] of one letter is empty.                                 *)
Inner(p) == SubSeq(p, 2, Len(p) - 1)

(* Mutant: the prefix is looked at first.                                   *)
MatchesPrefixFirst(v, p) ==
    /\ v # Absent
    /\ IF StartsStar(p) THEN IsSuffix(Tail(p), v)
       ELSE IF EndsStar(p) THEN IsPrefix(Front(p), v)
       ELSE v = p

(* One filter against one record.                                           *)
Matches(v, p) ==
    /\ v # Absent
    /\ IF StartsStar(p) /\ EndsStar(p)
       THEN \E i \in 0..Len(v) : IsPrefix(Inner(p), SubSeq(v, i + 1, Len(v)))
       ELSE IF StartsStar(p) THEN IsSuffix(Tail(p), v)
       ELSE IF EndsStar(p) THEN IsPrefix(Front(p), v)
       ELSE v = p

-----------------------------------------------------------------------------
(* pages, and the positions of a page: those from (page - 1) * limit.       *)
Pages(n, l) == IF n = 0 THEN 0 ELSE (n + l - 1) \div l

(* Mutant: the first page is page 0.                                        *)
ItemsFromZero(n, l, p) == {k \in 1..n : p * l < k /\ k <= p * l + l}

Items(n, l, p) ==
    LET start == (p - 1) * l IN
    {k \in 1..n : start < k /\ k <= start + l}

(* The orders a query may give n records that have these keys.              *)
Places(n, keys) ==
    {f \in [1..n -> 1..n] :
        /\ \A i \in 1..n : \E k \in 1..n : f[k] = i
        /\ \A j, k \in 1..n : j # k => f[j] # f[k]
        /\ \A j, k \in 1..n : keys[j] < keys[k] => f[j] < f[k]}

(* The records of page p.                                                   *)
Shown(p) == {k \in 1..total : place[p][k] \in Items(total, limit, p)}

-----------------------------------------------------------------------------
Texts(n) == UNION {[1..k -> Letter \cup {Star}] : k \in 0..n}

Begun ==
    /\ value = Absent /\ pattern = <<>>
    /\ total = 0 /\ limit = 1 /\ sortKey = <<>> /\ place = <<>>

Init == Begun

(* A filter is held against a record.                                       *)
Filter ==
    /\ Begun
    /\ value' \in Texts(MaxValue) \cup {Absent}
    /\ pattern' \in Texts(MaxPattern)
    /\ UNCHANGED <<total, limit, sortKey, place>>

(* The pages of what a search has found: by id, cut in memory.              *)
Found ==
    /\ Begun
    /\ total' \in 0..MaxItems
    /\ limit' \in 1..MaxLimit
    /\ sortKey' = [k \in 1..total' |-> k]
    /\ place' = [p \in 1..Pages(total', limit') |-> [k \in 1..total' |-> k]]
    /\ UNCHANGED <<value, pattern>>

(* The pages of a schema: created_at DESC, and OFFSET and LIMIT.            *)
List ==
    /\ Begun
    /\ total' \in 0..MaxListed
    /\ limit' \in 1..MaxLimit
    /\ sortKey' \in [1..total' -> 1..total']
    /\ place' \in [1..Pages(total', limit') -> Places(total', sortKey')]
    /\ UNCHANGED <<value, pattern>>

Next == Filter \/ Found \/ List

Spec == Init /\ [][Next]_vars

-----------------------------------------------------------------------------
(* A pattern without the star at its front, and without the one at its end. *)
Core(p) ==
    LET q == IF StartsStar(p) THEN Tail(p) ELSE p IN
    IF EndsStar(q) THEN Front(q) ELSE q

(* "Soporta comodines de prefijo/sufijo: foo*, *foo, *foo*" (service.py:121)*)
(* a star at the front, and one at the end, stands for any text; any other  *)
(* star is a letter.                                                        *)
MatchesIsGlob ==
    Matches(value, pattern) <=>
        /\ value # Absent
        /\ \E i \in 0..Len(value) : \E j \in i..Len(value) :
              /\ SubSeq(value, i + 1, j) = Core(pattern)
              /\ i = 0 \/ StartsStar(pattern)
              /\ j = Len(value) \/ EndsStar(pattern)

(* Record k is on one of the pages 1 to "pages", and on no other.           *)
OnOnePage(k) ==
    \E p \in 1..Pages(total, limit) :
        /\ k \in Shown(p)
        /\ \A q \in 1..Pages(total, limit) : k \in Shown(q) => q = p

Untied(k) == \A j \in 1..total : j # k => sortKey[j] # sortKey[k]

(* No page of the pages 1 to "pages" is empty, and they have every record   *)
(* once that was created in a second of its own, whatever MySQL makes of    *)
(* the others; every record where a search has found them.                  *)
PagesPartition ==
    /\ \A p \in 1..Pages(total, limit) : Shown(p) # {}
    /\ \A k \in 1..total : Untied(k) => OnOnePage(k)

(* The pages have every record once: not those of one second, as the        *)
(* examples of the seed are.                                                *)
PagesPartitionTies == \A k \in 1..total : OnOnePage(k)

=============================================================================
