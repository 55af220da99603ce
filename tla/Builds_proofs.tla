---------------------------- MODULE Builds_proofs ----------------------------
(***************************************************************************)
(* Safety of Builds for every number of workers and every finite number of  *)
(* deliveries: what the records of builds say, whatever polls of them, web- *)
(* hooks and Jenkins do in which order.                                     *)
(***************************************************************************)
EXTENDS Builds, FiniteSetTheorems, TLAPS

(* Deliveries are a finite set; Jenkins has an item and a tag for each.     *)
FinitePushes == IsFiniteSet(Push)

ItemType == [phase : Phases, version : Version, number : Number]
Steps    == {"idle", "version", "propagate", "trigger", "locate", "current",
             "record", "ask", "store"}
Hooks    == {"version", "propagate", "trigger", "locate", "current", "record"}

JenkinsTyped ==
    /\ item \in [Item -> ItemType]
    /\ kept \in [Item -> BOOLEAN]
    /\ tagOf \in [Version -> {0} \cup Item]
    /\ own \in [Push -> {0} \cup Item]

ColumnsTyped ==
    /\ scoopsAt \in Version
    /\ current \in Version
    /\ unlocated \subseteq Push
    /\ rec \in [Push -> Rec \cup {NoRec}]

LocalsTyped ==
    /\ pc \in [Worker -> Steps]
    /\ push \in [Worker -> Push \cup {None}]
    /\ version \in [Worker -> Version]
    /\ url \in [Worker -> Url]
    /\ seen \in [Worker -> Rec \cup {NoRec}]
    /\ answer \in [Worker -> [status : Statuses, number : Number]]

(* Jenkins numbers the builds of the job from 1, without a gap, and an item *)
(* that waits is known to the queue API.                                    *)
Numbered ==
    /\ \A i, j \in Item : item[i].number # 0 /\ item[i].number = item[j].number => i = j
    /\ \A i \in Item : item[i].number <= LastBuild
    /\ \A n \in 1 .. LastBuild : \E i \in Item : item[i].number = n
    /\ \A i \in Item : item[i].number # 0 <=> item[i].phase \in {"running"} \cup Terminal
    /\ \A i \in Item : item[i].phase = "queued" => kept[i]

(* All tags below a published one are published, and below the version of   *)
(* an item too; an item is of some delivery.                                *)
Tagged(v) == \A u \in Version : 1 <= u /\ u < v => tagOf[u] # 0

Published ==
    /\ tagOf[0] = 0
    /\ \A v \in Version : tagOf[v] # 0 => Tagged(v) /\ item[tagOf[v]].version = v
    /\ \A i \in Item : item[i].phase # "none" =>
          item[i].version # 0 /\ Tagged(item[i].version) /\ (\E p \in Push : own[p] = i)
    /\ \A i \in Item : item[i].phase = "none" => item[i] = NoItem
    /\ \A p \in Push : own[p] # 0 => item[own[p]].phase # "none"

JenkinsOK == Numbered /\ Published

(* The item of p has left the queue.                                        *)
Left(p) == own[p] # 0 /\ item[own[p]].phase # "queued"

(* Build n of the job is the one that p has triggered, or a later one - for *)
(* a delivery whose trigger got a Location; without one it is some build.   *)
Follows(p, n) ==
    /\ n \in 1 .. LastBuild
    /\ p \in unlocated \/ (Left(p) /\ n >= item[own[p]].number)

Leads(p, u) ==
    /\ u.kind = "item" => own[p] # 0 /\ u.id = own[p]
    /\ u.kind \in {"lost", "job"} => p \in unlocated \/ Left(p)
    /\ u.kind = "build" => Follows(p, u.id)
    /\ u.kind = "page" => p \in unlocated

Ended(p, s) == \E n \in 1 .. LastBuild : Follows(p, n) /\ BuildStatus(n) = s

(* A handler of a push works for a delivery that has no record, and until   *)
(* its trigger no item.                                                     *)
HookOK(w) ==
    /\ pc[w] \in Hooks => push[w] \in Push /\ rec[push[w]] = NoRec
    /\ pc[w] \in {"version", "propagate", "trigger"} => own[push[w]] = 0
    /\ pc[w] \in {"propagate", "trigger"} => version[w] # 0 /\ Tagged(version[w])
    /\ pc[w] = "locate" => url[w].kind = "item" \/ push[w] \in unlocated

(* What a worker knows from Jenkins is about builds that are not older than *)
(* the one of the delivery.                                                 *)
PollOK(w) ==
    /\ pc[w] \in {"idle", "version", "propagate", "trigger"} => url[w] = NoUrl
    /\ pc[w] # "idle" => push[w] \in Push /\ Leads(push[w], url[w])
    /\ pc[w] \in {"ask", "store"} => rec[push[w]] # NoRec
    /\ pc[w] = "store" /\ answer[w].number # 0 => Follows(push[w], answer[w].number)
    /\ pc[w] = "store" /\ answer[w].status \in Terminal =>
          \/ push[w] \in unlocated
          \/ answer[w].number # 0 /\ BuildStatus(answer[w].number) = answer[w].status

(* A delivery has one handler at a time.                                    *)
OneHandler ==
    \A v, w \in Worker : pc[v] \in Hooks /\ pc[w] \in Hooks /\ push[v] = push[w] => v = w

WorkersOK == OneHandler /\ \A w \in Worker : HookOK(w) /\ PollOK(w)

(* And so is what the records say.                                          *)
RecordsOK ==
    \A p \in Push :
        /\ Leads(p, rec[p].url)
        /\ rec[p].number # 0 => Follows(p, rec[p].number)
        /\ rec[p].status \in Terminal => p \in unlocated \/ Ended(p, rec[p].status)

Typed == JenkinsTyped /\ ColumnsTyped /\ LocalsTyped

IInv == Typed /\ JenkinsOK /\ WorkersOK /\ RecordsOK

-----------------------------------------------------------------------------
(* As many items as deliveries, and no more builds than items.              *)
LEMMA Sizes ==
    ASSUME FinitePushes
    PROVE  /\ Cardinality(Push) \in Nat
           /\ \A S \in SUBSET Item : IsFiniteSet(S) /\ Cardinality(S) \in Nat
           /\ \A S \in SUBSET Item : Cardinality(S) <= Cardinality(Push)
<1>1. Cardinality(Push) \in Nat
  BY FS_CardinalityType DEF FinitePushes
<1>2. IsFiniteSet(Item) /\ Cardinality(Item) = Cardinality(Push)
  BY <1>1, FS_Interval DEF Item
<1>3. ASSUME NEW S \in SUBSET Item
      PROVE  IsFiniteSet(S) /\ Cardinality(S) <= Cardinality(Push) /\ Cardinality(S) \in Nat
  BY <1>2, FS_Subset, FS_CardinalityType
<1>. QED
  BY <1>1, <1>3

(* The builds of the job are counted by a number, also after a step.        *)
LEMMA Counted ==
    ASSUME FinitePushes
    PROVE  LastBuild \in Number /\ LastBuild' \in Number
<1>1. {i \in Item : item[i].number # 0} \in SUBSET Item
  OBVIOUS
<1>2. {i \in Item : item'[i].number # 0} \in SUBSET Item
  OBVIOUS
<1>3. LastBuild \in Number
  BY <1>1, Sizes DEF LastBuild, Number
<1>4. LastBuild' \in Number
  BY <1>2, Sizes DEF LastBuild, Number
<1>. QED
  BY <1>3, <1>4

(* A number up to the last one is that of one build.                        *)
LEMMA OneBuild ==
    ASSUME FinitePushes, JenkinsTyped, Numbered, NEW n \in 1 .. LastBuild
    PROVE  /\ BuildItem(n) \in Item /\ item[BuildItem(n)].number = n /\ n # 0
           /\ BuildStatus(n) \in {"running"} \cup Terminal
           /\ n \in Number
<1>1. n # 0 /\ n \in Number
  BY Counted, Sizes DEF Number
<1>2. \E i \in Item : item[i].number = n
  BY DEF Numbered
<1>3. BuildItem(n) \in Item /\ item[BuildItem(n)].number = n
  BY <1>2 DEF BuildItem
<1>. QED
  BY <1>1, <1>3 DEF Numbered, BuildStatus

(* What no step takes back: the item of a delivery, the number of a build   *)
(* that has one, its end, and that a tag is published.                      *)
Onward ==
    /\ \A p \in Push : own[p] # 0 => own'[p] = own[p]
    /\ \A i \in Item : item[i].phase \notin {"none", "queued"} =>
          item'[i].phase \notin {"none", "queued"} /\ item'[i].number = item[i].number
    /\ \A i \in Item : item[i].phase \in Terminal => item'[i].phase = item[i].phase
    /\ \A v \in Version : tagOf[v] # 0 => tagOf'[v] # 0
    /\ LastBuild <= LastBuild'
    /\ unlocated \subseteq unlocated'

(* So what is known of the builds stays known.                              *)
LEMMA StaysKnown ==
    ASSUME FinitePushes, JenkinsTyped, JenkinsOK, JenkinsTyped', JenkinsOK', Onward
    PROVE  /\ \A n \in 1 .. LastBuild : BuildStatus(n) \in Terminal =>
                  n \in 1 .. LastBuild' /\ BuildStatus(n)' = BuildStatus(n)
           /\ \A p \in Push : Left(p) => Left(p)'
           /\ \A p \in Push : \A n \in 1 .. LastBuild : Follows(p, n) => Follows(p, n)'
           /\ \A p \in Push : \A u \in Url : Leads(p, u) => Leads(p, u)'
           /\ \A p \in Push : \A s \in Terminal : Ended(p, s) => Ended(p, s)'
           /\ \A v \in Version : Tagged(v) => Tagged(v)'
<1>1. LastBuild \in Nat /\ LastBuild' \in Nat
  BY Counted DEF Number
<1>2. ASSUME NEW n \in 1 .. LastBuild
      PROVE  n \in 1 .. LastBuild'
  BY <1>1 DEF Onward
<1>3. ASSUME NEW n \in 1 .. LastBuild, BuildStatus(n) \in Terminal
      PROVE  BuildStatus(n)' = BuildStatus(n)
  <2>1. BuildItem(n) \in Item /\ item[BuildItem(n)].number = n /\ n # 0
    BY OneBuild DEF JenkinsOK
  <2>2. \E i \in Item : item'[i].number = n
    BY <1>2 DEF JenkinsOK, Numbered
  <2>3. BuildItem(n)' \in Item /\ item'[BuildItem(n)'].number = n
    BY <2>2 DEF BuildItem
  <2>4. item[BuildItem(n)].phase \in Terminal
    BY <1>3 DEF BuildStatus
  <2>5. item'[BuildItem(n)].number = n /\ item'[BuildItem(n)].phase = item[BuildItem(n)].phase
    BY <2>1, <2>4 DEF Onward, Terminal
  <2>6. BuildItem(n)' = BuildItem(n)
    BY <2>1, <2>3, <2>5 DEF JenkinsOK, Numbered
  <2>. QED
    BY <2>5, <2>6 DEF BuildStatus
<1>4. ASSUME NEW p \in Push, Left(p)
      PROVE  Left(p)' /\ own'[p] = own[p] /\ item'[own[p]].number = item[own[p]].number
  <2>1. own[p] \in Item /\ own[p] # 0 /\ own'[p] = own[p]
    BY <1>4 DEF Left, Onward, JenkinsTyped
  <2>2. item[own[p]].phase \notin {"none", "queued"}
    BY <1>4, <2>1 DEF Left, JenkinsOK, Published
  <2>. QED
    BY <2>1, <2>2 DEF Left, Onward
<1>5. ASSUME NEW p \in Push, NEW n \in 1 .. LastBuild, Follows(p, n)
      PROVE  Follows(p, n)'
  BY <1>2, <1>4, <1>5 DEF Follows, Onward
<1>6. ASSUME NEW p \in Push, NEW u \in Url, Leads(p, u)
      PROVE  Leads(p, u)'
  <2>1. u.kind = "item" => own'[p] # 0 /\ u.id = own'[p]
    BY <1>6 DEF Leads, Onward
  <2>2. u.kind \in {"lost", "job"} => p \in unlocated' \/ Left(p)'
    BY <1>4, <1>6 DEF Leads, Onward
  <2>3. u.kind = "build" => Follows(p, u.id)'
    BY <1>5, <1>6 DEF Leads, Follows
  <2>4. u.kind = "page" => p \in unlocated'
    BY <1>6 DEF Leads, Onward
  <2>. QED
    BY <2>1, <2>2, <2>3, <2>4 DEF Leads
<1>7. ASSUME NEW p \in Push, NEW s \in Terminal, Ended(p, s)
      PROVE  Ended(p, s)'
  BY <1>2, <1>3, <1>5, <1>7 DEF Ended
<1>8. ASSUME NEW v \in Version, Tagged(v)
      PROVE  Tagged(v)'
  BY <1>8 DEF Tagged, Onward
<1>. QED
  BY <1>2, <1>3, <1>4, <1>5, <1>6, <1>7, <1>8

-----------------------------------------------------------------------------
(* Most steps leave Jenkins alone.                                          *)
LEMMA JenkinsStands ==
    ASSUME FinitePushes, JenkinsTyped, JenkinsOK, UNCHANGED <<item, kept, tagOf, own, unlocated>>
    PROVE  JenkinsTyped' /\ JenkinsOK' /\ Onward
<1>1. LastBuild' = LastBuild
  BY DEF LastBuild
<1>2. JenkinsTyped' /\ Numbered' /\ Published'
  BY <1>1 DEF JenkinsTyped, JenkinsOK, Numbered, Published, Tagged
<1>3. LastBuild <= LastBuild'
  BY <1>1, Counted, Sizes DEF Number
<1>. QED
  BY <1>2, <1>3 DEF Onward, JenkinsOK

(* A build that starts gets the number after the last one.                  *)
LEMMA StartStep ==
    ASSUME FinitePushes, JenkinsTyped, JenkinsOK, NEW i \in Item, StartBuild(i), own' = own,
           unlocated' = unlocated
    PROVE  JenkinsTyped' /\ JenkinsOK' /\ Onward
<1>1. item[i].phase = "queued" /\ item[i].number = 0
  BY DEF StartBuild, JenkinsOK, Numbered, Terminal
<1>2. /\ \A j \in Item \ {i} : item'[j] = item[j]
      /\ item'[i].phase = "running" /\ item'[i].number = LastBuild + 1
      /\ item'[i].version = item[i].version
  BY <1>1 DEF StartBuild, JenkinsTyped, ItemType
<1>3. LastBuild \in Nat /\ LastBuild' = LastBuild + 1 /\ LastBuild + 1 \in Number
  <2> DEFINE S == {j \in Item : item[j].number # 0}
  <2>1. {j \in Item : item'[j].number # 0} = S \cup {i}
    BY <1>2, Counted, Sizes DEF Number
  <2>2. i \notin S /\ S \in SUBSET Item /\ S \cup {i} \in SUBSET Item
    BY <1>1
  <2>3. LastBuild = Cardinality(S) /\ LastBuild' = Cardinality(S \cup {i})
    BY <2>1 DEF LastBuild
  <2>4. IsFiniteSet(S)
    BY <2>2, Sizes
  <2>5. Cardinality(S \cup {i}) = Cardinality(S) + 1
    BY <2>2, <2>4, FS_AddElement
  <2>6. Cardinality(S \cup {i}) <= Cardinality(Push)
    BY <2>2, Sizes
  <2>. QED
    BY <2>2, <2>3, <2>5, <2>6, Sizes DEF Number
<1>4. JenkinsTyped'
  <2>1. item[i] \in ItemType /\ "running" \in Phases
    BY DEF JenkinsTyped, Phases
  <2>2. [[item[i] EXCEPT !.phase = "running"] EXCEPT !.number = LastBuild + 1] \in ItemType
    BY <1>3, <2>1 DEF ItemType
  <2>3. item' = [item EXCEPT ![i] = [[item[i] EXCEPT !.phase = "running"]
                                              EXCEPT !.number = LastBuild + 1]]
    BY DEF StartBuild, JenkinsTyped
  <2>. QED
    BY <2>2, <2>3 DEF StartBuild, JenkinsTyped
<1>5. Numbered'
  <2>1. \A j \in Item : item[j].number \in Nat /\ item[j].number <= LastBuild
    BY Sizes DEF JenkinsTyped, ItemType, Number, JenkinsOK, Numbered
  <2>2. \A j, k \in Item : item'[j].number # 0 /\ item'[j].number = item'[k].number => j = k
    BY <1>2, <1>3, <2>1 DEF JenkinsOK, Numbered
  <2>3. \A j \in Item : item'[j].number <= LastBuild'
    BY <1>2, <1>3, <2>1
  <2>4. ASSUME NEW n \in 1 .. LastBuild'
        PROVE  \E j \in Item : item'[j].number = n
    <3>1. CASE n = LastBuild + 1
      BY <1>2, <3>1
    <3>2. CASE n # LastBuild + 1
      <4>1. n \in 1 .. LastBuild
        BY <1>3, <3>2
      <4>2. PICK j \in Item : item[j].number = n
        BY <4>1 DEF JenkinsOK, Numbered
      <4>3. j # i
        BY <1>1, <4>1, <4>2
      <4>. QED
        BY <1>2, <4>2, <4>3
    <3>. QED
      BY <3>1, <3>2
  <2>5. \A j \in Item : item'[j].number # 0 <=> item'[j].phase \in {"running"} \cup Terminal
    BY <1>2, <1>3 DEF JenkinsOK, Numbered
  <2>6. \A j \in Item : item'[j].phase = "queued" => kept'[j]
    BY <1>2 DEF StartBuild, JenkinsOK, Numbered
  <2>. QED
    BY <2>2, <2>3, <2>4, <2>5, <2>6 DEF Numbered
<1>6. Published'
  <2>1. /\ \A j \in Item : item'[j].version = item[j].version
        /\ \A j \in Item : item'[j].phase = "none" => item[j].phase = "none" /\ item'[j] = item[j]
        /\ \A j \in Item : item'[j].phase # "none" <=> item[j].phase # "none"
        /\ tagOf' = tagOf
    BY <1>1, <1>2 DEF StartBuild
  <2>. QED
    BY <2>1 DEF JenkinsOK, Published, Tagged, JenkinsTyped
<1>7. Onward
  <2>1. \A j \in Item : item[j].phase \notin {"none", "queued"} => item'[j] = item[j]
    BY <1>1, <1>2
  <2>2. \A j \in Item : item[j].phase \in Terminal => item'[j] = item[j]
    BY <2>1 DEF Terminal
  <2>3. LastBuild <= LastBuild'
    BY <1>3
  <2>. QED
    BY <2>1, <2>2, <2>3 DEF Onward, StartBuild
<1>. QED
  BY <1>4, <1>5, <1>6, <1>7 DEF JenkinsOK

(* The last build is what it was where no item gets a number.               *)
LEMMA SameNumbers ==
    ASSUME FinitePushes, \A i \in Item : item'[i].number = item[i].number
    PROVE  LastBuild' = LastBuild /\ LastBuild <= LastBuild'
<1>1. LastBuild' = LastBuild
  BY DEF LastBuild
<1>. QED
  BY <1>1, Counted, Sizes DEF Number

(* An item that is cancelled has left the queue without a build.            *)
LEMMA CancelStep ==
    ASSUME FinitePushes, JenkinsTyped, JenkinsOK, NEW i \in Item, Cancel(i), own' = own,
           unlocated' = unlocated
    PROVE  JenkinsTyped' /\ JenkinsOK' /\ Onward
<1>1. item[i].phase = "queued" /\ item[i].number = 0
  BY DEF Cancel, JenkinsOK, Numbered, Terminal
<1>2. /\ \A j \in Item \ {i} : item'[j] = item[j]
      /\ item'[i].phase = "cancelled" /\ item'[i].number = 0
      /\ item'[i].version = item[i].version
  BY <1>1 DEF Cancel, JenkinsTyped, ItemType
<1>3. \A j \in Item : item'[j].number = item[j].number
  BY <1>1, <1>2
<1>4. LastBuild' = LastBuild /\ LastBuild <= LastBuild'
  BY <1>3, SameNumbers
<1>5. JenkinsTyped'
  <2>1. item[i] \in ItemType /\ "cancelled" \in Phases
    BY DEF JenkinsTyped, Phases
  <2>2. [item[i] EXCEPT !.phase = "cancelled"] \in ItemType
    BY <2>1 DEF ItemType
  <2>. QED
    BY <2>2 DEF Cancel, JenkinsTyped
<1>6. Numbered'
  <2>1. \A j \in Item : item'[j].number # 0 <=> item'[j].phase \in {"running"} \cup Terminal
    BY <1>1, <1>2 DEF JenkinsOK, Numbered, Terminal
  <2>2. \A j \in Item : item'[j].phase = "queued" => kept'[j]
    BY <1>2 DEF Cancel, JenkinsOK, Numbered
  <2>. QED
    BY <1>3, <1>4, <2>1, <2>2 DEF JenkinsOK, Numbered
<1>7. Published'
  <2>1. /\ \A j \in Item : item'[j].version = item[j].version
        /\ \A j \in Item : item'[j].phase = "none" => item[j].phase = "none" /\ item'[j] = item[j]
        /\ \A j \in Item : item'[j].phase # "none" <=> item[j].phase # "none"
        /\ tagOf' = tagOf
    BY <1>1, <1>2 DEF Cancel
  <2>. QED
    BY <2>1 DEF JenkinsOK, Published, Tagged, JenkinsTyped
<1>8. Onward
  <2>1. \A j \in Item : item[j].phase \notin {"none", "queued"} => item'[j] = item[j]
    BY <1>1, <1>2
  <2>2. \A j \in Item : item[j].phase \in Terminal => item'[j] = item[j]
    BY <2>1 DEF Terminal
  <2>. QED
    BY <1>4, <2>1, <2>2 DEF Onward, Cancel
<1>. QED
  BY <1>5, <1>6, <1>7, <1>8 DEF JenkinsOK

(* The queue API forgets an item that does not wait.                        *)
LEMMA ForgetStep ==
    ASSUME FinitePushes, JenkinsTyped, JenkinsOK, NEW i \in Item, Forget(i), own' = own,
           unlocated' = unlocated
    PROVE  JenkinsTyped' /\ JenkinsOK' /\ Onward
<1>1. LastBuild' = LastBuild /\ LastBuild <= LastBuild'
  BY SameNumbers DEF Forget
<1>2. JenkinsTyped'
  BY DEF Forget, JenkinsTyped
<1>3. Numbered'
  <2>1. \A j \in Item : item'[j].phase = "queued" => kept'[j]
    BY DEF Forget, JenkinsTyped, JenkinsOK, Numbered
  <2>. QED
    BY <1>1, <2>1 DEF Forget, JenkinsOK, Numbered
<1>4. Published'
  BY DEF Forget, JenkinsOK, Published, Tagged
<1>5. Onward
  BY <1>1 DEF Forget, Onward
<1>. QED
  BY <1>2, <1>3, <1>4, <1>5 DEF JenkinsOK

(* A build that ends may publish the tag of its version, and no other.      *)
LEMMA FinishStep ==
    ASSUME FinitePushes, JenkinsTyped, JenkinsOK, NEW i \in Item, FinishBuild(i), own' = own,
           unlocated' = unlocated
    PROVE  JenkinsTyped' /\ JenkinsOK' /\ Onward
<1>1. PICK result \in Result :
        /\ item' = [item EXCEPT ![i].phase = result]
        /\ \/ tagOf' = [tagOf EXCEPT ![item[i].version] = i]
           \/ tagOf' = tagOf
  BY DEF FinishBuild
<1>2. result \in Terminal /\ result \in Phases
  BY ResultAssumption DEF Phases
<1>3. item[i].phase = "running" /\ item[i].number # 0
  BY DEF FinishBuild, JenkinsOK, Numbered
<1>4. /\ \A j \in Item \ {i} : item'[j] = item[j]
      /\ item'[i].phase = result /\ item'[i].number = item[i].number
      /\ item'[i].version = item[i].version
  BY <1>1 DEF JenkinsTyped, ItemType
<1>5. \A j \in Item : item'[j].number = item[j].number /\ item'[j].version = item[j].version
  BY <1>4
<1>6. LastBuild' = LastBuild /\ LastBuild <= LastBuild'
  BY <1>5, SameNumbers
<1>7. JenkinsTyped'
  <2>1. item[i] \in ItemType
    BY DEF JenkinsTyped
  <2>2. [item[i] EXCEPT !.phase = result] \in ItemType
    BY <1>2, <2>1 DEF ItemType
  <2>3. item' \in [Item -> ItemType]
    BY <1>1, <2>2 DEF JenkinsTyped
  <2>4. tagOf' \in [Version -> {0} \cup Item]
    BY <1>1 DEF JenkinsTyped
  <2>. QED
    BY <2>3, <2>4 DEF FinishBuild, JenkinsTyped
<1>8. Numbered'
  <2>1. \A j \in Item : item'[j].number # 0 <=> item'[j].phase \in {"running"} \cup Terminal
    BY <1>2, <1>3, <1>4 DEF JenkinsOK, Numbered
  <2>2. \A j \in Item : item'[j].phase = "queued" => kept'[j]
    BY <1>2, <1>4 DEF FinishBuild, JenkinsOK, Numbered, Terminal
  <2>. QED
    BY <1>5, <1>6, <2>1, <2>2 DEF JenkinsOK, Numbered
<1>9. \A v \in Version : tagOf'[v] = tagOf[v] \/ (v = item[i].version /\ tagOf'[v] = i /\ i # 0)
  BY <1>1 DEF JenkinsTyped, Item
<1>10. \A v \in Version : tagOf[v] # 0 => tagOf'[v] # 0
  BY <1>9
<1>11. \A v \in Version : Tagged(v) => Tagged(v)'
  BY <1>10 DEF Tagged
<1>12. Published'
  <2>1. item[i].version # 0 /\ item[i].version \in Version /\ Tagged(item[i].version)
    BY <1>3 DEF JenkinsOK, Published, JenkinsTyped, ItemType
  <2>2. tagOf'[0] = 0
    BY <1>9, <2>1, Sizes DEF JenkinsOK, Published, Version
  <2>3. ASSUME NEW v \in Version, tagOf'[v] # 0
        PROVE  Tagged(v)' /\ item'[tagOf'[v]].version = v
    <3>1. CASE tagOf'[v] = tagOf[v]
      BY <1>5, <1>11, <2>3, <3>1 DEF JenkinsOK, Published, JenkinsTyped
    <3>2. CASE v = item[i].version /\ tagOf'[v] = i
      BY <1>5, <1>11, <2>1, <3>2
    <3>. QED
      BY <1>9, <3>1, <3>2
  <2>4. ASSUME NEW j \in Item, item'[j].phase # "none"
        PROVE  /\ item'[j].version # 0 /\ Tagged(item[j].version)'
               /\ \E p \in Push : own'[p] = j
    <3>1. item[j].phase # "none"
      BY <1>3, <1>4, <2>4
    <3>2. item[j].version \in Version
      BY DEF JenkinsTyped, ItemType
    <3>. QED
      BY <1>5, <1>11, <3>1, <3>2 DEF JenkinsOK, Published
  <2>5. \A j \in Item : item'[j].phase = "none" => item'[j] = NoItem
    BY <1>2, <1>4 DEF JenkinsOK, Published, Terminal
  <2>6. \A p \in Push : own'[p] # 0 => item'[own'[p]].phase # "none"
    BY <1>2, <1>4 DEF JenkinsOK, Published, JenkinsTyped, Terminal
  <2>. QED
    BY <2>2, <2>3, <2>4, <2>5, <2>6 DEF Published
<1>13. Onward
  <2>1. \A j \in Item : item[j].phase \notin {"none", "queued"} =>
           item'[j].phase \notin {"none", "queued"}
    BY <1>2, <1>4 DEF Terminal
  <2>2. \A j \in Item : item[j].phase \in Terminal => item'[j].phase = item[j].phase
    BY <1>3, <1>4 DEF Terminal
  <2>. QED
    BY <1>5, <1>6, <1>10, <2>1, <2>2 DEF Onward
<1>. QED
  BY <1>7, <1>8, <1>12, <1>13 DEF JenkinsOK

(* A trigger makes an item of the next version, or is folded into one.      *)
LEMMA EnqueueStep ==
    ASSUME FinitePushes, JenkinsTyped, JenkinsOK, NEW i \in Item, NEW w \in Worker,
           push[w] \in Push, own[push[w]] = 0,
           version[w] \in Version, version[w] # 0, Tagged(version[w]), Enqueue(i, w),
           unlocated \subseteq unlocated'
    PROVE  /\ JenkinsTyped' /\ JenkinsOK' /\ Onward
           /\ own' = [own EXCEPT ![push[w]] = i]
<1>1. /\ own' = [own EXCEPT ![push[w]] = i] /\ tagOf' = tagOf /\ i # 0
      /\ \A p \in Push : own[p] # 0 => own'[p] = own[p]
  BY DEF Enqueue, Item, JenkinsTyped
<1>2. /\ \A j \in Item \ {i} : item'[j] = item[j] /\ kept'[j] = kept[j]
      /\ \/ item'[i] = item[i]
         \/ item'[i] = [phase |-> "queued", version |-> version[w], number |-> 0]
      /\ item'[i].phase = "queued" /\ item'[i].version = version[w]
      /\ item[i].phase \in {"none", "queued"}
      /\ item'[i].number = item[i].number
      /\ kept'[i]
  <2>1. CASE item[i].phase = "queued" /\ item[i].version = version[w] /\ UNCHANGED <<item, kept>>
    BY <2>1 DEF JenkinsOK, Numbered
  <2>2. CASE item[i] = NoItem /\ kept' = [kept EXCEPT ![i] = TRUE]
             /\ item' = [item EXCEPT ![i] =
                           [phase |-> "queued", version |-> version[w], number |-> 0]]
    <3>1. item[i].phase = "none" /\ item[i].number = 0
      BY <2>2 DEF NoItem
    <3>2. item'[i] = [phase |-> "queued", version |-> version[w], number |-> 0] /\ kept'[i]
      BY <2>2 DEF JenkinsTyped
    <3>3. \A j \in Item \ {i} : item'[j] = item[j] /\ kept'[j] = kept[j]
      BY <2>2 DEF JenkinsTyped
    <3>4. item'[i].phase = "queued" /\ item'[i].version = version[w] /\ item'[i].number = 0
      BY <3>2
    <3>5. item[i].phase \in {"none", "queued"} /\ item'[i].number = item[i].number
      BY <3>1, <3>4
    <3>. QED
      BY <3>2, <3>3, <3>4, <3>5
  <2>. QED
    BY <2>1, <2>2 DEF Enqueue
<1>3. \A j \in Item : item'[j].number = item[j].number
  BY <1>2
<1>4. LastBuild' = LastBuild /\ LastBuild <= LastBuild'
  BY <1>3, SameNumbers
<1>5. JenkinsTyped'
  <2>1. [phase |-> "queued", version |-> version[w], number |-> 0] \in ItemType
    BY Sizes DEF ItemType, Phases, Number
  <2>2. item' \in [Item -> ItemType] /\ kept' \in [Item -> BOOLEAN]
    <3>1. CASE UNCHANGED <<item, kept>>
      BY <3>1 DEF JenkinsTyped
    <3>2. CASE kept' = [kept EXCEPT ![i] = TRUE]
               /\ item' = [item EXCEPT ![i] =
                             [phase |-> "queued", version |-> version[w], number |-> 0]]
      BY <2>1, <3>2 DEF JenkinsTyped
    <3>. QED
      BY <3>1, <3>2 DEF Enqueue
  <2>3. own' \in [Push -> {0} \cup Item]
    BY <1>1 DEF JenkinsTyped
  <2>. QED
    BY <1>1, <2>2, <2>3 DEF JenkinsTyped
<1>6. Numbered'
  <2>1. item[i].number = 0
    BY <1>2 DEF JenkinsOK, Numbered, Terminal
  <2>2. \A j \in Item : item'[j].number # 0 <=> item'[j].phase \in {"running"} \cup Terminal
    BY <1>2, <2>1 DEF JenkinsOK, Numbered, Terminal
  <2>3. \A j \in Item : item'[j].phase = "queued" => kept'[j]
    BY <1>2 DEF JenkinsOK, Numbered
  <2>. QED
    BY <1>3, <1>4, <2>2, <2>3 DEF JenkinsOK, Numbered
<1>7. Published'
  <2>1. \A v \in Version : Tagged(v)' <=> Tagged(v)
    BY <1>1 DEF Tagged
  <2>2. ASSUME NEW v \in Version, tagOf[v] # 0
        PROVE  item'[tagOf[v]].version = v
    <3>1. tagOf[v] \in Item /\ item[tagOf[v]].version = v
      BY <2>2 DEF JenkinsTyped, JenkinsOK, Published
    <3>2. CASE tagOf[v] # i \/ item'[i] = item[i]
      BY <1>2, <3>1, <3>2
    <3>3. CASE tagOf[v] = i /\ item[i] = NoItem
      <4>1. v = 0
        BY <3>1, <3>3 DEF NoItem
      <4>. QED
        BY <2>2, <4>1 DEF JenkinsOK, Published
    <3>. QED
      BY <3>2, <3>3 DEF Enqueue
  <2>3. ASSUME NEW j \in Item, item'[j].phase # "none"
        PROVE  /\ item'[j].version # 0 /\ Tagged(item[j].version)'
               /\ \E p \in Push : own'[p] = j
    <3>1. CASE j = i
      BY <1>1, <1>2, <2>1, <3>1 DEF JenkinsTyped
    <3>2. CASE j # i
      <4>1. item'[j] = item[j] /\ item[j].version \in Version
        BY <1>2, <3>2 DEF JenkinsTyped, ItemType
      <4>2. PICK p \in Push : own[p] = j
        BY <2>3, <4>1 DEF JenkinsOK, Published
      <4>3. own'[p] = j
        BY <1>1, <4>2 DEF Item
      <4>. QED
        BY <2>1, <2>3, <4>1, <4>3 DEF JenkinsOK, Published
    <3>. QED
      BY <3>1, <3>2
  <2>4. \A j \in Item : item'[j].phase = "none" => item'[j] = NoItem
    BY <1>2 DEF JenkinsOK, Published
  <2>5. \A p \in Push : own'[p] # 0 => item'[own'[p]].phase # "none"
    BY <1>1, <1>2 DEF JenkinsOK, Published, JenkinsTyped
  <2>. QED
    BY <1>1, <2>1, <2>2, <2>3, <2>4, <2>5 DEF JenkinsOK, Published
<1>8. Onward
  <2>1. \A j \in Item : item[j].phase \notin {"none", "queued"} => item'[j] = item[j]
    BY <1>2
  <2>2. \A j \in Item : item[j].phase \in Terminal => item'[j] = item[j]
    BY <2>1 DEF Terminal
  <2>. QED
    BY <1>1, <1>4, <2>1, <2>2 DEF Onward
<1>. QED
  BY <1>1, <1>5, <1>6, <1>7, <1>8 DEF JenkinsOK

-----------------------------------------------------------------------------
(* What there is not is of its type, or of none.                            *)
LEMMA Nothing ==
    ASSUME FinitePushes
    PROVE  /\ NoRec \notin Rec /\ NoUrl \in Url
           /\ NoAnswer \in [status : Statuses, number : Number]
           /\ NoRec.url = NoUrl /\ NoRec.number = 0 /\ NoRec.status \notin Statuses
           /\ NoUrl.kind = "none" /\ NoUrl.id = 0
           /\ 0 \in Number /\ 0 \in Version
<1>1. 0 \in Number /\ 0 \in Version
  BY Sizes DEF Number, Version
<1>. QED
  BY <1>1 DEF NoRec, NoUrl, NoAnswer, Rec, Url, Statuses, Terminal

(* A record that nobody writes stays true.                                  *)
LEMMA RecordStands ==
    ASSUME FinitePushes, IInv, JenkinsTyped', JenkinsOK', Onward,
           NEW p \in Push, rec'[p] = rec[p]
    PROVE  /\ Leads(p, rec[p].url)'
           /\ (rec[p].number # 0 => Follows(p, rec[p].number))'
           /\ (rec[p].status \in Terminal => p \in unlocated \/ Ended(p, rec[p].status))'
<1>1. rec[p].url \in Url
  BY Nothing DEF IInv, Typed, ColumnsTyped, Rec
<1>2. rec[p].number # 0 => Follows(p, rec[p].number) /\ rec[p].number \in 1 .. LastBuild
  BY DEF IInv, RecordsOK, Follows
<1>3. p \in unlocated => p \in unlocated'
  BY DEF Onward
<1>. QED
  BY <1>1, <1>2, <1>3, StaysKnown DEF IInv, Typed, RecordsOK

(* And so does what a worker knows that takes no step.                      *)
LEMMA WorkerStands ==
    ASSUME FinitePushes, IInv, JenkinsTyped', JenkinsOK', Onward, NEW v \in Worker,
           pc'[v] = pc[v], push'[v] = push[v], version'[v] = version[v],
           url'[v] = url[v], answer'[v] = answer[v],
           pc[v] \in Hooks => rec'[push[v]] = rec[push[v]],
           pc[v] \in {"version", "propagate", "trigger"} => own'[push[v]] = own[push[v]],
           pc[v] \in {"ask", "store"} => rec'[push[v]] # NoRec
    PROVE  HookOK(v)' /\ PollOK(v)'
<1>1. HookOK(v) /\ PollOK(v)
  BY DEF IInv, WorkersOK
<1>2. version[v] \in Version /\ url[v] \in Url
  BY DEF IInv, Typed, LocalsTyped
<1>3. HookOK(v)'
  <2>1. Tagged(version[v]) => Tagged(version[v])'
    BY <1>2, StaysKnown DEF IInv, Typed, Tagged
  <2>2. push[v] \in unlocated => push[v] \in unlocated'
    BY DEF Onward
  <2>. QED
    BY <1>1, <2>1, <2>2 DEF HookOK
<1>4. PollOK(v)'
  <2>1. pc[v] # "idle" => push[v] \in Push /\ Leads(push[v], url[v])'
    BY <1>1, <1>2, StaysKnown DEF IInv, Typed, PollOK, Leads, Follows, Left
  <2>2. pc[v] = "store" /\ answer[v].number # 0 => Follows(push[v], answer[v].number)'
    BY <1>1, StaysKnown DEF IInv, Typed, PollOK, Follows, Left
  <2>3. pc[v] = "store" /\ answer[v].status \in Terminal =>
            \/ push[v] \in unlocated'
            \/ answer[v].number # 0 /\ BuildStatus(answer[v].number)' = answer[v].status
    BY <1>1, StaysKnown DEF IInv, Typed, PollOK, Follows, Onward
  <2>. QED
    BY <1>1, <2>1, <2>2, <2>3 DEF PollOK, Leads, Follows, Left, BuildStatus, BuildItem
<1>. QED
  BY <1>3, <1>4

-----------------------------------------------------------------------------
(* All that a step of worker w leaves as it is of the others.               *)
OnlyMoves(w) ==
    \A v \in Worker \ {w} :
        /\ pc'[v] = pc[v] /\ push'[v] = push[v] /\ version'[v] = version[v]
        /\ url'[v] = url[v] /\ answer'[v] = answer[v]

(* A step that writes no record.                                            *)
LEMMA Quiet ==
    ASSUME FinitePushes, IInv, JenkinsTyped', JenkinsOK', Onward, LocalsTyped', ColumnsTyped',
           rec' = rec, NEW w \in Worker, OnlyMoves(w),
           \A v \in Worker \ {w} : pc[v] \in {"version", "propagate", "trigger"} =>
               own'[push[v]] = own[push[v]],
           OneHandler', HookOK(w)', PollOK(w)'
    PROVE  IInv'
<1>1. RecordsOK'
  BY RecordStands DEF RecordsOK
<1>2. ASSUME NEW v \in Worker \ {w}
      PROVE  HookOK(v)' /\ PollOK(v)'
  <2>1. pc[v] \in {"ask", "store"} => rec'[push[v]] # NoRec
    BY DEF IInv, WorkersOK, PollOK
  <2>2. /\ pc'[v] = pc[v] /\ push'[v] = push[v] /\ version'[v] = version[v]
        /\ url'[v] = url[v] /\ answer'[v] = answer[v]
    BY DEF OnlyMoves
  <2>. QED
    BY <2>1, <2>2, WorkerStands
<1>. QED
  BY <1>1, <1>2 DEF IInv, Typed, WorkersOK

(* A worker that goes on, or answers, handles no other delivery than before.*)
LEMMA SameHandler ==
    ASSUME IInv, NEW w \in Worker, OnlyMoves(w),
           pc'[w] \in Hooks => pc[w] \in Hooks /\ push'[w] = push[w]
    PROVE  OneHandler'
BY DEF IInv, WorkersOK, OneHandler, OnlyMoves

(* A step that leaves Jenkins and the records as they are.                  *)
LEMMA LocalStep ==
    ASSUME FinitePushes, IInv, UNCHANGED <<item, kept, tagOf, own, unlocated, rec>>,
           LocalsTyped', scoopsAt' \in Version, current' \in Version,
           NEW w \in Worker, OnlyMoves(w), OneHandler', HookOK(w)', PollOK(w)'
    PROVE  IInv'
<1>1. JenkinsTyped' /\ JenkinsOK' /\ Onward
  BY JenkinsStands DEF IInv, Typed
<1>2. ColumnsTyped'
  BY DEF IInv, Typed, ColumnsTyped
<1>. QED
  BY <1>1, <1>2, Quiet

(* A worker that has answered.                                              *)
LEMMA Answered ==
    ASSUME FinitePushes, IInv, NEW w \in Worker, Return(w)
    PROVE  /\ LocalsTyped' /\ OnlyMoves(w) /\ OneHandler'
           /\ HookOK(w)' /\ PollOK(w)'
<1>1. LocalsTyped'
  BY Nothing DEF IInv, Typed, LocalsTyped, Return, Goto, Steps
<1>2. OnlyMoves(w) /\ pc'[w] = "idle" /\ url'[w] = NoUrl
  BY DEF IInv, Typed, LocalsTyped, Return, Goto, OnlyMoves
<1>3. OneHandler'
  BY <1>2, SameHandler DEF Hooks
<1>. QED
  BY <1>1, <1>2, <1>3 DEF HookOK, PollOK, Hooks

-----------------------------------------------------------------------------
(* A delivery that is to be handled has nobody who handles it.              *)
LEMMA BeginPushStep ==
    ASSUME FinitePushes, IInv, NEW w \in Worker, BeginPush(w)
    PROVE  IInv'
<1>1. PICK p \in Push : /\ own[p] = 0 /\ rec[p] = NoRec /\ \A v \in Worker : push[v] # p
                        /\ push' = [push EXCEPT ![w] = p]
  BY DEF BeginPush
<1>2. pc[w] = "idle" /\ pc' = [pc EXCEPT ![w] = "version"] /\ url[w] = NoUrl
  BY DEF BeginPush, Goto, IInv, WorkersOK, PollOK
<1>3. UNCHANGED <<item, kept, tagOf, own, unlocated, rec, scoopsAt, current, version, url, seen,
                  answer>>
  BY DEF BeginPush, jenkinsVars, appVars
<1>4. LocalsTyped' /\ OnlyMoves(w) /\ pc'[w] = "version" /\ push'[w] = p
  BY <1>1, <1>2, <1>3 DEF IInv, Typed, LocalsTyped, OnlyMoves, Steps
<1>5. OneHandler'
  BY <1>1, <1>4 DEF IInv, WorkersOK, OneHandler, OnlyMoves
<1>6. HookOK(w)'
  BY <1>1, <1>3, <1>4 DEF HookOK, Hooks
<1>7. PollOK(w)'
  BY <1>2, <1>3, <1>4, Nothing DEF PollOK, Leads
<1>. QED
  BY <1>3, <1>4, <1>5, <1>6, <1>7, LocalStep DEF IInv, Typed, ColumnsTyped

(* Every tag is of another delivery, so the next one has a number left.     *)
LEMMA NextFits ==
    ASSUME FinitePushes, JenkinsTyped, JenkinsOK, NEW p \in Push, own[p] = 0,
           NEW v \in Version, v = 0 \/ tagOf[v] # 0
    PROVE  v + 1 \in Version /\ \A u \in 1 .. v : u \in Version /\ tagOf[u] # 0
<1> DEFINE owner == [u \in 1 .. v |-> CHOOSE q \in Push : own[q] = tagOf[u]]
<1>1. v \in Nat /\ \A u \in 1 .. v : u \in Version
  BY Sizes DEF Version
<1>2. ASSUME NEW u \in 1 .. v
      PROVE  tagOf[u] # 0
  <2>1. CASE u = v
    BY <1>1, <2>1
  <2>2. CASE u # v
    <3>1. v # 0 /\ 1 <= u /\ u < v /\ u \in Version
      BY <1>1, <2>2
    <3>. QED
      BY <3>1 DEF JenkinsOK, Published, Tagged
  <2>. QED
    BY <2>1, <2>2
<1>3. ASSUME NEW u \in 1 .. v
      PROVE  /\ owner[u] \in Push \ {p} /\ own[owner[u]] = tagOf[u]
             /\ item[tagOf[u]].version = u
  <2>1. u \in Version /\ u # 0 /\ tagOf[u] # 0
    BY <1>1, <1>2
  <2>2. tagOf[u] \in Item /\ item[tagOf[u]].version = u
    BY <2>1 DEF JenkinsTyped, JenkinsOK, Published
  <2>3. item[tagOf[u]].phase # "none"
    BY <2>1, <2>2 DEF JenkinsOK, Published, NoItem
  <2>4. \E q \in Push : own[q] = tagOf[u]
    BY <2>2, <2>3 DEF JenkinsOK, Published
  <2>5. owner[u] \in Push /\ own[owner[u]] = tagOf[u]
    BY <2>4
  <2>. QED
    BY <2>1, <2>2, <2>5
<1>4. owner \in Injection(1 .. v, Push \ {p})
  <2>1. owner \in [1 .. v -> Push \ {p}]
    BY <1>3
  <2>2. \A s, t \in 1 .. v : owner[s] = owner[t] => s = t
    BY <1>3
  <2>. QED
    BY <2>1, <2>2 DEF Injection, IsInjective
<1>5. IsFiniteSet(Push \ {p}) /\ Cardinality(Push \ {p}) = Cardinality(Push) - 1
  BY FS_RemoveElement DEF FinitePushes
<1>6. Cardinality(1 .. v) <= Cardinality(Push \ {p})
  BY <1>4, <1>5, FS_Injection
<1>7. Cardinality(1 .. v) = v
  BY <1>1, FS_Interval
<1>. QED
  BY <1>1, <1>2, <1>5, <1>6, <1>7, Sizes DEF Version

(* The next version follows a published one.                                *)
LEMMA NextVersionStep ==
    ASSUME FinitePushes, IInv, NEW w \in Worker, NextVersion(w)
    PROVE  IInv'
<1>1. PICK v \in Version : (v = 0 \/ tagOf[v] # 0) /\ version' = [version EXCEPT ![w] = v + 1]
  BY DEF NextVersion
<1>2. pc[w] = "version" /\ pc' = [pc EXCEPT ![w] = "propagate"]
  BY DEF NextVersion, Goto
<1>3. UNCHANGED <<item, kept, tagOf, own, unlocated, rec, scoopsAt, current, push, url, seen,
                  answer>>
  BY DEF NextVersion, jenkinsVars, appVars
<1>4. push[w] \in Push /\ own[push[w]] = 0 /\ rec[push[w]] = NoRec /\ url[w] = NoUrl
  BY <1>2 DEF IInv, WorkersOK, HookOK, PollOK, Hooks
<1>5. v + 1 \in Version /\ \A u \in 1 .. v : tagOf[u] # 0
  BY <1>1, <1>4, NextFits DEF IInv, Typed
<1>6. v + 1 # 0 /\ Tagged(v + 1)
  BY <1>5, Sizes DEF Tagged, Version
<1>7. LocalsTyped' /\ OnlyMoves(w) /\ pc'[w] = "propagate" /\ version'[w] = v + 1
  BY <1>1, <1>2, <1>3, <1>5 DEF IInv, Typed, LocalsTyped, OnlyMoves, Steps
<1>8. OneHandler'
  BY <1>2, <1>3, <1>7, SameHandler DEF Hooks
<1>9. HookOK(w)'
  BY <1>3, <1>4, <1>6, <1>7 DEF HookOK, Hooks, Tagged
<1>10. PollOK(w)'
  BY <1>3, <1>4, <1>7, Nothing DEF PollOK, Leads
<1>. QED
  BY <1>3, <1>7, <1>8, <1>9, <1>10, LocalStep DEF IInv, Typed, ColumnsTyped

(* The scoops get the version, or do not.                                   *)
LEMMA PropagateStep ==
    ASSUME FinitePushes, IInv, NEW w \in Worker, Propagate(w)
    PROVE  IInv'
<1>1. pc[w] = "propagate" /\ pc' = [pc EXCEPT ![w] = "trigger"]
  BY DEF Propagate, Goto
<1>2. UNCHANGED <<item, kept, tagOf, own, unlocated, rec, current, push, version, url, seen,
                  answer>>
  BY DEF Propagate, jenkinsVars, localVars
<1>3. LocalsTyped' /\ OnlyMoves(w) /\ pc'[w] = "trigger"
  BY <1>1, <1>2 DEF IInv, Typed, LocalsTyped, OnlyMoves, Steps
<1>4. OneHandler'
  BY <1>1, <1>2, <1>3, SameHandler DEF Hooks
<1>5. HookOK(w) /\ PollOK(w)
  BY DEF IInv, WorkersOK
<1>6. HookOK(w)'
  BY <1>1, <1>2, <1>3, <1>5 DEF HookOK, Hooks, Tagged
<1>7. PollOK(w)'
  BY <1>1, <1>2, <1>3, <1>5, Nothing DEF PollOK, Leads
<1>8. scoopsAt' \in Version /\ current' \in Version
  BY <1>2 DEF Propagate, IInv, Typed, ColumnsTyped, LocalsTyped
<1>. QED
  BY <1>2, <1>3, <1>4, <1>6, <1>7, <1>8, LocalStep

(* A trigger that Jenkins takes gives the worker the URL of its item.       *)
LEMMA TriggerStep ==
    ASSUME FinitePushes, IInv, NEW w \in Worker, Trigger(w)
    PROVE  IInv'
<1>1. pc[w] = "trigger" /\ pc' = [pc EXCEPT ![w] = "locate"]
  BY DEF Trigger, Goto
<1>2. PICK i \in Item : Enqueue(i, w) /\ url' = [url EXCEPT ![w] = [kind |-> "item", id |-> i]]
  BY DEF Trigger
<1>3. UNCHANGED <<rec, scoopsAt, current, unlocated, push, version, seen, answer>>
  BY DEF Trigger, appVars
<1>4. HookOK(w) /\ PollOK(w) /\ version[w] \in Version
  BY DEF IInv, WorkersOK, Typed, LocalsTyped
<1>5. push[w] \in Push /\ own[push[w]] = 0 /\ rec[push[w]] = NoRec
  BY <1>1, <1>4 DEF HookOK, Hooks
<1>6. JenkinsTyped' /\ JenkinsOK' /\ Onward /\ own' = [own EXCEPT ![push[w]] = i]
  BY <1>1, <1>2, <1>3, <1>4, <1>5, EnqueueStep DEF HookOK, IInv, Typed
<1>7. [kind |-> "item", id |-> i] \in Url /\ i # 0
  BY Sizes DEF Url, Item, Number
<1>8. /\ LocalsTyped' /\ OnlyMoves(w) /\ pc'[w] = "locate"
      /\ url'[w] = [kind |-> "item", id |-> i] /\ own'[push[w]] = i
  BY <1>1, <1>2, <1>3, <1>5, <1>6, <1>7
  DEF IInv, Typed, LocalsTyped, OnlyMoves, Steps, JenkinsTyped
<1>9. OneHandler'
  BY <1>1, <1>3, <1>8, SameHandler DEF Hooks
<1>10. HookOK(w)'
  BY <1>3, <1>5, <1>8 DEF HookOK, Hooks
<1>11. PollOK(w)'
  BY <1>3, <1>5, <1>7, <1>8 DEF PollOK, Leads
<1>12. \A v \in Worker \ {w} : pc[v] \in {"version", "propagate", "trigger"} =>
          own'[push[v]] = own[push[v]]
  BY <1>1, <1>6 DEF IInv, WorkersOK, OneHandler, HookOK, Hooks, Typed, JenkinsTyped
<1>13. ColumnsTyped'
  BY <1>3 DEF IInv, Typed, ColumnsTyped
<1>. QED
  BY <1>3, <1>6, <1>8, <1>9, <1>10, <1>11, <1>12, <1>13, Quiet

(* One whose answer is lost may have made it.                               *)
LEMMA TriggerFailsStep ==
    ASSUME FinitePushes, IInv, NEW w \in Worker, TriggerFails(w)
    PROVE  IInv'
<1>1. pc[w] = "trigger" /\ pc' = [pc EXCEPT ![w] = "current"]
  BY DEF TriggerFails, Goto
<1>2. UNCHANGED <<rec, scoopsAt, current, unlocated, push, version, url, seen, answer>>
  BY DEF TriggerFails, appVars, localVars
<1>3. HookOK(w) /\ PollOK(w) /\ version[w] \in Version
  BY DEF IInv, WorkersOK, Typed, LocalsTyped
<1>4. push[w] \in Push /\ own[push[w]] = 0 /\ rec[push[w]] = NoRec /\ url[w] = NoUrl
  BY <1>1, <1>3 DEF HookOK, PollOK, Hooks
<1>5. /\ JenkinsTyped' /\ JenkinsOK' /\ Onward
      /\ own' = own \/ (\E i \in Item : own' = [own EXCEPT ![push[w]] = i])
  <2>1. CASE \E i \in Item : Enqueue(i, w)
    BY <1>1, <1>2, <1>3, <1>4, <2>1, EnqueueStep DEF HookOK, IInv, Typed
  <2>2. CASE UNCHANGED <<item, kept, tagOf, own>>
    BY <1>2, <2>2, JenkinsStands DEF IInv, Typed
  <2>. QED
    BY <2>1, <2>2 DEF TriggerFails, jenkinsVars
<1>6. LocalsTyped' /\ OnlyMoves(w) /\ pc'[w] = "current"
  BY <1>1, <1>2 DEF IInv, Typed, LocalsTyped, OnlyMoves, Steps
<1>7. OneHandler'
  BY <1>1, <1>2, <1>6, SameHandler DEF Hooks
<1>8. HookOK(w)'
  BY <1>2, <1>4, <1>6 DEF HookOK, Hooks
<1>9. PollOK(w)'
  BY <1>2, <1>4, <1>6, Nothing DEF PollOK, Leads
<1>10. \A v \in Worker \ {w} : pc[v] \in {"version", "propagate", "trigger"} =>
          own'[push[v]] = own[push[v]]
  BY <1>1, <1>5 DEF IInv, WorkersOK, OneHandler, HookOK, Hooks, Typed, JenkinsTyped
<1>11. ColumnsTyped'
  BY <1>2 DEF IInv, Typed, ColumnsTyped
<1>. QED
  BY <1>2, <1>5, <1>6, <1>7, <1>8, <1>9, <1>10, <1>11, Quiet

(* One that Jenkins takes without saying where the build is.                *)
LEMMA TriggerUnlocatedStep ==
    ASSUME FinitePushes, IInv, NEW w \in Worker, TriggerUnlocated(w)
    PROVE  IInv'
<1>1. /\ pc[w] = "trigger" /\ pc' = [pc EXCEPT ![w] = "locate"]
      /\ unlocated' = unlocated \cup {push[w]}
  BY DEF TriggerUnlocated, Goto
<1>2. UNCHANGED <<rec, scoopsAt, current, push, version, url, seen, answer>>
  BY DEF TriggerUnlocated, appVars, localVars
<1>3. HookOK(w) /\ PollOK(w) /\ version[w] \in Version
  BY DEF IInv, WorkersOK, Typed, LocalsTyped
<1>4. push[w] \in Push /\ own[push[w]] = 0 /\ rec[push[w]] = NoRec /\ url[w] = NoUrl
  BY <1>1, <1>3 DEF HookOK, PollOK, Hooks
<1>5. /\ JenkinsTyped' /\ JenkinsOK' /\ Onward
      /\ own' = own \/ (\E i \in Item : own' = [own EXCEPT ![push[w]] = i])
  <2>1. CASE \E i \in Item : Enqueue(i, w)
    BY <1>1, <1>3, <1>4, <2>1, EnqueueStep DEF HookOK, IInv, Typed
  <2>2. CASE UNCHANGED <<item, kept, tagOf, own>>
    <3>1. JenkinsTyped' /\ JenkinsOK' /\ LastBuild' = LastBuild
      BY <2>2 DEF IInv, Typed, JenkinsTyped, JenkinsOK, Numbered, Published, Tagged, LastBuild
    <3>2. LastBuild <= LastBuild'
      BY <3>1, Counted, Sizes DEF Number
    <3>. QED
      BY <1>1, <2>2, <3>1, <3>2 DEF Onward
  <2>. QED
    BY <2>1, <2>2 DEF TriggerUnlocated, jenkinsVars
<1>6. LocalsTyped' /\ OnlyMoves(w) /\ pc'[w] = "locate"
  BY <1>1, <1>2 DEF IInv, Typed, LocalsTyped, OnlyMoves, Steps
<1>7. OneHandler'
  BY <1>1, <1>2, <1>6, SameHandler DEF Hooks
<1>8. HookOK(w)'
  BY <1>1, <1>2, <1>4, <1>6 DEF HookOK, Hooks
<1>9. PollOK(w)'
  BY <1>2, <1>4, <1>6, Nothing DEF PollOK, Leads
<1>10. \A v \in Worker \ {w} : pc[v] \in {"version", "propagate", "trigger"} =>
          own'[push[v]] = own[push[v]]
  BY <1>1, <1>5 DEF IInv, WorkersOK, OneHandler, HookOK, Hooks, Typed, JenkinsTyped
<1>11. ColumnsTyped'
  BY <1>1, <1>2, <1>4 DEF IInv, Typed, ColumnsTyped
<1>. QED
  BY <1>2, <1>5, <1>6, <1>7, <1>8, <1>9, <1>10, <1>11, Quiet

(* A build of the item of p is one that p follows.                          *)
LEMMA OwnBuild ==
    ASSUME FinitePushes, JenkinsTyped, JenkinsOK, NEW p \in Push, own[p] # 0,
           item[own[p]].number # 0
    PROVE  /\ Follows(p, item[own[p]].number) /\ item[own[p]].number \in Number
<1>1. own[p] \in Item /\ item[own[p]].number \in Number
  BY DEF JenkinsTyped, ItemType
<1>2. item[own[p]].number \in 1 .. LastBuild
  BY <1>1, Sizes, Counted DEF Number, JenkinsOK, Numbered
<1>3. Left(p)
  BY <1>1 DEF Left, JenkinsOK, Numbered, Terminal
<1>. QED
  BY <1>1, <1>2, <1>3, Sizes DEF Follows, Number

(* The URL becomes that of the build the item has led to, if it has.        *)
LEMMA LocateStep ==
    ASSUME FinitePushes, IInv, NEW w \in Worker, Locate(w)
    PROVE  IInv'
<1>1. pc[w] = "locate" /\ pc' = [pc EXCEPT ![w] = "current"]
  BY DEF Locate, Goto
<1>2. UNCHANGED <<item, kept, tagOf, own, unlocated, rec, scoopsAt, current, push, version, seen,
                  answer>>
  BY DEF Locate, appVars, jenkinsVars
<1>3. HookOK(w) /\ PollOK(w)
  BY DEF IInv, WorkersOK
<1>4. /\ push[w] \in Push /\ rec[push[w]] = NoRec /\ Leads(push[w], url[w])
      /\ url[w].kind = "item" /\ own[push[w]] # 0 /\ url[w].id = own[push[w]]
  BY <1>1, <1>3 DEF HookOK, PollOK, Hooks, Leads, Locate
<1>5. \E u \in Url : url' = [url EXCEPT ![w] = u] /\ Leads(push[w], u)
  <2>1. CASE UNCHANGED url
    BY <1>4, <2>1 DEF IInv, Typed, LocalsTyped
  <2>2. CASE /\ item[url[w].id].number # 0
             /\ url' = [url EXCEPT ![w] = [kind |-> "build", id |-> item[url[w].id].number]]
    <3> DEFINE n == item[own[push[w]]].number
    <3>1. Follows(push[w], n) /\ n \in Number
      BY <1>4, <2>2, OwnBuild DEF IInv, Typed
    <3> HIDE DEF n
    <3>2. [kind |-> "build", id |-> n] \in Url /\ Leads(push[w], [kind |-> "build", id |-> n])
      BY <1>4, <3>1 DEF Url, Leads
    <3>. QED
      BY <1>4, <2>2, <3>2 DEF n
  <2>. QED
    BY <2>1, <2>2 DEF Locate
<1>6. PICK u \in Url : url' = [url EXCEPT ![w] = u] /\ Leads(push[w], u)
  BY <1>5
<1>7. LocalsTyped' /\ OnlyMoves(w) /\ pc'[w] = "current" /\ url'[w] = u
  BY <1>1, <1>2, <1>6 DEF IInv, Typed, LocalsTyped, OnlyMoves, Steps
<1>8. OneHandler'
  BY <1>1, <1>2, <1>7, SameHandler DEF Hooks
<1>9. HookOK(w)'
  BY <1>2, <1>4, <1>7 DEF HookOK, Hooks
<1>10. PollOK(w)'
  <2>1. LastBuild' = LastBuild
    BY <1>2 DEF LastBuild
  <2>. QED
    BY <1>2, <1>4, <1>6, <1>7, <2>1 DEF PollOK, Leads, Follows, Left
<1>. QED
  BY <1>2, <1>7, <1>8, <1>9, <1>10, LocalStep DEF IInv, Typed, ColumnsTyped

(* Without a Location, the URL is that of the last build or of the job.     *)
LEMMA LocateByJobStep ==
    ASSUME FinitePushes, IInv, NEW w \in Worker, LocateByJob(w)
    PROVE  IInv'
<1>1. pc[w] = "locate" /\ pc' = [pc EXCEPT ![w] = "current"] /\ url[w] = NoUrl
  BY DEF LocateByJob, Goto
<1>2. /\ UNCHANGED <<item, kept, tagOf, own, unlocated, rec, scoopsAt, current>>
      /\ UNCHANGED <<push, version, seen, answer>>
  BY DEF LocateByJob, appVars, jenkinsVars
<1>3. HookOK(w) /\ PollOK(w)
  BY DEF IInv, WorkersOK
<1>4. push[w] \in Push /\ rec[push[w]] = NoRec /\ push[w] \in unlocated
  BY <1>1, <1>3, Nothing DEF HookOK, Hooks
<1>5. PICK u \in Url : url' = [url EXCEPT ![w] = u] /\ Leads(push[w], u)
  <2>1. CASE LastBuild # 0 /\ url' = [url EXCEPT ![w] = [kind |-> "build", id |-> LastBuild]]
    <3>1. LastBuild \in Number /\ LastBuild \in 1 .. LastBuild
      BY <2>1, Counted, Sizes DEF Number
    <3>2. /\ [kind |-> "build", id |-> LastBuild] \in Url
          /\ Leads(push[w], [kind |-> "build", id |-> LastBuild])
      BY <1>4, <3>1 DEF Url, Leads, Follows
    <3>. QED
      BY <2>1, <3>2
  <2>2. CASE url' = [url EXCEPT ![w] = [kind |-> "page", id |-> 0]]
    <3>1. [kind |-> "page", id |-> 0] \in Url /\ Leads(push[w], [kind |-> "page", id |-> 0])
      BY <1>4, Nothing DEF Url, Leads
    <3>. QED
      BY <2>2, <3>1
  <2>. QED
    BY <2>1, <2>2 DEF LocateByJob
<1>6. LocalsTyped' /\ OnlyMoves(w) /\ pc'[w] = "current" /\ url'[w] = u
  BY <1>1, <1>2, <1>5 DEF IInv, Typed, LocalsTyped, OnlyMoves, Steps
<1>7. OneHandler'
  BY <1>1, <1>2, <1>6, SameHandler DEF Hooks
<1>8. HookOK(w)'
  BY <1>2, <1>4, <1>6 DEF HookOK, Hooks
<1>9. PollOK(w)'
  <2>1. LastBuild' = LastBuild
    BY <1>2 DEF LastBuild
  <2>. QED
    BY <1>2, <1>4, <1>5, <1>6, <2>1 DEF PollOK, Leads, Follows, Left
<1>. QED
  BY <1>2, <1>6, <1>7, <1>8, <1>9, LocalStep DEF IInv, Typed, ColumnsTyped

(* The application gets the version, or does not.                           *)
LEMMA SetCurrentStep ==
    ASSUME FinitePushes, IInv, NEW w \in Worker, SetCurrent(w)
    PROVE  IInv'
<1>1. pc[w] = "current" /\ pc' = [pc EXCEPT ![w] = "record"]
  BY DEF SetCurrent, Goto
<1>2. UNCHANGED <<item, kept, tagOf, own, unlocated, rec, scoopsAt, push, version, url, seen,
                  answer>>
  BY DEF SetCurrent, jenkinsVars, localVars
<1>3. LocalsTyped' /\ OnlyMoves(w) /\ pc'[w] = "record"
  BY <1>1, <1>2 DEF IInv, Typed, LocalsTyped, OnlyMoves, Steps
<1>4. OneHandler'
  BY <1>1, <1>2, <1>3, SameHandler DEF Hooks
<1>5. HookOK(w) /\ PollOK(w) /\ LastBuild' = LastBuild
  BY <1>2 DEF IInv, WorkersOK, LastBuild
<1>6. HookOK(w)'
  BY <1>1, <1>2, <1>3, <1>5 DEF HookOK, Hooks
<1>7. PollOK(w)'
  BY <1>1, <1>2, <1>3, <1>5 DEF PollOK, Leads, Follows, Left
<1>8. scoopsAt' \in Version /\ current' \in Version
  BY <1>2 DEF SetCurrent, IInv, Typed, ColumnsTyped, LocalsTyped
<1>. QED
  BY <1>2, <1>3, <1>4, <1>6, <1>7, <1>8, LocalStep

-----------------------------------------------------------------------------
(* A worker that writes the record of its delivery and answers.             *)
LEMMA Written ==
    ASSUME FinitePushes, IInv, NEW w \in Worker, Return(w),
           UNCHANGED <<item, kept, tagOf, own, unlocated, scoopsAt, current>>,
           NEW p \in Push, \A v \in Worker \ {w} : pc[v] \in Hooks => push[v] # p,
           NEW r \in Rec, rec' = [rec EXCEPT ![p] = r], Leads(p, r.url),
           r.number # 0 => Follows(p, r.number),
           r.status \in Terminal => p \in unlocated \/ Ended(p, r.status)
    PROVE  IInv'
<1>1. JenkinsTyped' /\ JenkinsOK' /\ Onward
  BY JenkinsStands DEF IInv, Typed
<1>2. ColumnsTyped'
  BY DEF IInv, Typed, ColumnsTyped
<1>3. LocalsTyped' /\ OnlyMoves(w) /\ OneHandler' /\ HookOK(w)' /\ PollOK(w)'
  BY Answered
<1>4. rec'[p] = r /\ r # NoRec /\ \A q \in Push \ {p} : rec'[q] = rec[q]
  BY Nothing DEF IInv, Typed, ColumnsTyped
<1>5. ASSUME NEW v \in Worker \ {w}
      PROVE  HookOK(v)' /\ PollOK(v)'
  <2>1. /\ pc'[v] = pc[v] /\ push'[v] = push[v] /\ version'[v] = version[v]
        /\ url'[v] = url[v] /\ answer'[v] = answer[v]
    BY <1>3 DEF OnlyMoves
  <2>2. HookOK(v) /\ PollOK(v)
    BY DEF IInv, WorkersOK
  <2>3. pc[v] \in Hooks => rec'[push[v]] = rec[push[v]]
    BY <1>4, <2>2 DEF HookOK
  <2>4. pc[v] \in {"ask", "store"} => rec'[push[v]] # NoRec
    BY <1>4, <2>2 DEF PollOK
  <2>. QED
    BY <1>1, <2>1, <2>3, <2>4, WorkerStands
<1>6. RecordsOK'
  <2>1. ASSUME NEW q \in Push \ {p}
        PROVE  /\ Leads(q, rec[q].url)'
               /\ (rec[q].number # 0 => Follows(q, rec[q].number))'
               /\ (rec[q].status \in Terminal => q \in unlocated \/ Ended(q, rec[q].status))'
    BY <1>1, <1>4, RecordStands
  <2>2. /\ Leads(p, rec[p].url)'
        /\ (rec[p].number # 0 => Follows(p, rec[p].number))'
        /\ (rec[p].status \in Terminal => p \in unlocated \/ Ended(p, rec[p].status))'
    <3>1. LastBuild' = LastBuild
      BY DEF LastBuild
    <3>2. \A n : BuildStatus(n)' = BuildStatus(n)
      BY DEF BuildStatus, BuildItem
    <3>. QED
      BY <1>4, <3>1, <3>2 DEF Leads, Follows, Left, Ended
  <2>. QED
    BY <2>1, <2>2 DEF RecordsOK
<1>. QED
  BY <1>1, <1>2, <1>3, <1>5, <1>6 DEF IInv, Typed, WorkersOK

(* A worker that answers without having written anything.                   *)
LEMMA NothingWritten ==
    ASSUME FinitePushes, IInv, NEW w \in Worker, Return(w),
           UNCHANGED <<item, kept, tagOf, own, unlocated, scoopsAt, current, rec>>
    PROVE  IInv'
<1>1. LocalsTyped' /\ OnlyMoves(w) /\ OneHandler' /\ HookOK(w)' /\ PollOK(w)'
  BY Answered
<1>. QED
  BY <1>1, LocalStep DEF IInv, Typed, ColumnsTyped

(* The webhook makes the record of its delivery, or fails to.               *)
LEMMA RecordStep ==
    ASSUME FinitePushes, IInv, NEW w \in Worker, Record(w)
    PROVE  IInv'
<1>1. pc[w] = "record" /\ Return(w) /\ UNCHANGED <<item, kept, tagOf, own, unlocated, scoopsAt,
                                                   current>>
  BY DEF Record, jenkinsVars
<1>2. push[w] \in Push /\ Leads(push[w], url[w]) /\ url[w] \in Url
  BY <1>1 DEF IInv, WorkersOK, PollOK, Typed, LocalsTyped
<1>3. CASE UNCHANGED rec
  BY <1>1, <1>3, NothingWritten
<1>4. CASE ~UNCHANGED rec
  <2> DEFINE r == [status |-> "pending", url |-> url[w], started |-> FALSE,
                   number |-> IF url[w].kind = "build" THEN url[w].id ELSE 0]
  <2>1. rec' = [rec EXCEPT ![push[w]] = r]
    BY <1>4 DEF Record
  <2>2. r \in Rec /\ r.status \notin Terminal /\ r.url = url[w]
    BY <1>2, Nothing DEF Rec, Url, Statuses, Terminal
  <2>3. r.number # 0 => Follows(push[w], r.number)
    BY <1>2 DEF Leads
  <2>4. \A v \in Worker \ {w} : pc[v] \in Hooks => push[v] # push[w]
    BY <1>1 DEF IInv, WorkersOK, OneHandler, Hooks
  <2> HIDE DEF r
  <2>. QED
    BY <1>1, <1>2, <2>1, <2>2, <2>3, <2>4, Written
<1>. QED
  BY <1>3, <1>4

-----------------------------------------------------------------------------
(* A poll has loaded a record that there is.                                *)
LEMMA BeginPollStep ==
    ASSUME FinitePushes, IInv, NEW w \in Worker, BeginPoll(w)
    PROVE  IInv'
<1>1. pc[w] = "idle" /\ pc' = [pc EXCEPT ![w] = "ask"]
  BY DEF BeginPoll, Goto
<1>2. PICK p \in Push :
        /\ rec[p].status \in {"pending", "running"} /\ rec[p].url # NoUrl
        /\ push' = [push EXCEPT ![w] = p]
        /\ seen' = [seen EXCEPT ![w] = rec[p]]
        /\ url'  = [url EXCEPT ![w] = rec[p].url]
  BY DEF BeginPoll
<1>3. UNCHANGED <<item, kept, tagOf, own, unlocated, rec, scoopsAt, current, version, answer>>
  BY DEF BeginPoll, appVars, jenkinsVars
<1>4. rec[p] \in Rec /\ rec[p] # NoRec /\ rec[p].url \in Url
  BY <1>2, Nothing DEF IInv, Typed, ColumnsTyped, NoRec, Rec
<1>5. Leads(p, rec[p].url) /\ LastBuild' = LastBuild
  BY <1>2, <1>3 DEF IInv, RecordsOK, Leads, LastBuild
<1>6. /\ LocalsTyped' /\ OnlyMoves(w) /\ pc'[w] = "ask" /\ push'[w] = p
      /\ url'[w] = rec[p].url
  BY <1>1, <1>2, <1>3, <1>4 DEF IInv, Typed, LocalsTyped, OnlyMoves, Steps
<1>7. OneHandler'
  BY <1>6, SameHandler DEF Hooks
<1>8. HookOK(w)'
  BY <1>6 DEF HookOK, Hooks
<1>9. PollOK(w)'
  BY <1>3, <1>4, <1>5, <1>6 DEF PollOK, Leads, Follows, Left
<1>. QED
  BY <1>3, <1>6, <1>7, <1>8, <1>9, LocalStep DEF IInv, Typed, ColumnsTyped

(* A poll that goes on to ask at another URL.                               *)
LEMMA Redirected ==
    ASSUME FinitePushes, IInv, NEW w \in Worker, pc[w] = "ask", Asking,
           UNCHANGED <<pc, answer>>, NEW u \in Url, url' = [url EXCEPT ![w] = u],
           Leads(push[w], u)
    PROVE  IInv'
<1>1. UNCHANGED <<item, kept, tagOf, own, unlocated, rec, scoopsAt, current, push, version, seen>>
  BY DEF Asking, appVars, jenkinsVars
<1>2. LocalsTyped' /\ OnlyMoves(w) /\ pc'[w] = "ask" /\ url'[w] = u
  BY <1>1 DEF IInv, Typed, LocalsTyped, OnlyMoves
<1>3. OneHandler'
  BY <1>1, <1>2, SameHandler DEF Hooks
<1>4. HookOK(w)'
  BY <1>2 DEF HookOK, Hooks
<1>5. PollOK(w)'
  <2>1. PollOK(w) /\ LastBuild' = LastBuild
    BY <1>1 DEF IInv, WorkersOK, LastBuild
  <2>. QED
    BY <1>1, <1>2, <2>1 DEF PollOK, Leads, Follows, Left
<1>. QED
  BY <1>1, <1>2, <1>3, <1>4, <1>5, LocalStep DEF IInv, Typed, ColumnsTyped

(* A poll that has its answer.                                              *)
LEMMA Told ==
    ASSUME FinitePushes, IInv, NEW w \in Worker, pc[w] = "ask", Asking, Goto(w, "store"),
           UNCHANGED url, NEW a \in [status : Statuses, number : Number],
           answer' = [answer EXCEPT ![w] = a],
           a.number # 0 => Follows(push[w], a.number),
           a.status \in Terminal =>
               push[w] \in unlocated \/ (a.number # 0 /\ BuildStatus(a.number) = a.status)
    PROVE  IInv'
<1>1. UNCHANGED <<item, kept, tagOf, own, unlocated, rec, scoopsAt, current, push, version, url,
                  seen>>
  BY DEF Asking, appVars, jenkinsVars
<1>2. pc' = [pc EXCEPT ![w] = "store"]
  BY DEF Goto
<1>3. LocalsTyped' /\ OnlyMoves(w) /\ pc'[w] = "store" /\ answer'[w] = a
  BY <1>1, <1>2 DEF IInv, Typed, LocalsTyped, OnlyMoves, Steps
<1>4. OneHandler'
  BY <1>3, SameHandler DEF Hooks
<1>5. HookOK(w)'
  BY <1>3 DEF HookOK, Hooks
<1>6. PollOK(w)'
  <2>1. PollOK(w) /\ LastBuild' = LastBuild
    BY <1>1 DEF IInv, WorkersOK, LastBuild
  <2>2. \A n : BuildStatus(n)' = BuildStatus(n)
    BY <1>1 DEF BuildStatus, BuildItem
  <2>. QED
    BY <1>1, <1>3, <2>1, <2>2 DEF PollOK, Leads, Follows, Left
<1>. QED
  BY <1>1, <1>3, <1>4, <1>5, <1>6, LocalStep DEF IInv, Typed, ColumnsTyped

(* No build yet.                                                            *)
LEMMA Waits ==
    ASSUME FinitePushes, IInv, NEW w \in Worker, pc[w] = "ask", Asking, StillQueued(w)
    PROVE  IInv'
<1>1. NoAnswer.number = 0 /\ NoAnswer.status \notin Terminal
  BY DEF NoAnswer, Terminal
<1>. QED
  BY <1>1, Nothing, Told DEF StillQueued

(* From the queue a poll goes to the build of its item, or to the job when  *)
(* the item has been forgotten, which it is only after it has left.         *)
LEMMA AskQueueStep ==
    ASSUME FinitePushes, IInv, NEW w \in Worker, AskQueue(w)
    PROVE  IInv'
<1>1. pc[w] = "ask" /\ url[w].kind \in {"item", "lost"} /\ Asking
  BY DEF AskQueue
<1>2. /\ push[w] \in Push /\ Leads(push[w], url[w])
      /\ url[w].kind = "item" => own[push[w]] # 0 /\ own[push[w]] \in Item
  BY <1>1 DEF IInv, WorkersOK, PollOK, Typed, JenkinsTyped, Leads
<1>3. CASE Executable(w) # 0 /\ Follow(w, Executable(w))
  <2> DEFINE n == item[own[push[w]]].number
  <2>1. url[w].kind = "item" /\ Executable(w) = n /\ own[push[w]] # 0
    BY <1>2, <1>3 DEF Executable, Answers, Leads
  <2>2. Follows(push[w], n) /\ n \in Number
    BY <1>2, <1>3, <2>1, OwnBuild DEF IInv, Typed
  <2> HIDE DEF n
  <2>3. [kind |-> "build", id |-> n] \in Url /\ Leads(push[w], [kind |-> "build", id |-> n])
    BY <1>2, <2>2 DEF Url, Leads
  <2>. QED
    BY <1>1, <1>3, <2>1, <2>3, Redirected DEF Follow
<1>4. CASE Executable(w) = 0 /\ Answers(w) /\ StillQueued(w)
  BY <1>1, <1>4, Waits
<1>5. CASE ~Answers(w) /\ Searching(w)
  <2>1. push[w] \in unlocated \/ Left(push[w])
    BY <1>1, <1>2, <1>5 DEF Answers, Leads, Left, IInv, JenkinsOK, Numbered
  <2>2. [kind |-> "job", id |-> 0] \in Url /\ Leads(push[w], [kind |-> "job", id |-> 0])
    BY <1>2, <2>1, Nothing DEF Url, Leads
  <2>. QED
    BY <1>1, <1>5, <2>2, Redirected DEF Searching
<1>. QED
  BY <1>3, <1>4, <1>5 DEF AskQueue

(* The last build of the job is the one of p, or a later one.               *)
LEMMA AskJobStep ==
    ASSUME FinitePushes, IInv, NEW w \in Worker, AskJob(w)
    PROVE  IInv'
<1>1. pc[w] = "ask" /\ url[w].kind = "job" /\ Asking
  BY DEF AskJob
<1>2. CASE LastBuild # 0 /\ Follow(w, LastBuild)
  <2>1. push[w] \in Push /\ (push[w] \in unlocated \/ Left(push[w]))
    BY <1>1 DEF IInv, WorkersOK, PollOK, Leads
  <2>2. LastBuild \in Number /\ LastBuild \in 1 .. LastBuild
    BY <1>2, Counted, Sizes DEF Number
  <2>3. Left(push[w]) =>
          item[own[push[w]]].number <= LastBuild /\ item[own[push[w]]].number \in Number
    BY <2>1 DEF Left, IInv, Typed, JenkinsTyped, ItemType, JenkinsOK, Numbered
  <2>4. Follows(push[w], LastBuild)
    BY <2>1, <2>2, <2>3, Sizes DEF Follows, Number
  <2>5. /\ [kind |-> "build", id |-> LastBuild] \in Url
        /\ Leads(push[w], [kind |-> "build", id |-> LastBuild])
    BY <2>1, <2>2, <2>4 DEF Url, Leads
  <2>. QED
    BY <1>1, <1>2, <2>5, Redirected DEF Follow
<1>3. CASE LastBuild = 0 /\ StillQueued(w)
  BY <1>1, <1>3, Waits
<1>. QED
  BY <1>2, <1>3 DEF AskJob

(* What Jenkins says of a build is what it is.                              *)
LEMMA AskBuildStep ==
    ASSUME FinitePushes, IInv, NEW w \in Worker, AskBuild(w)
    PROVE  IInv'
<1>1. pc[w] = "ask" /\ url[w].kind = "build" /\ Asking /\ Goto(w, "store") /\ UNCHANGED url
  BY DEF AskBuild
<1>2. Follows(push[w], url[w].id) /\ url[w].id \in 1 .. LastBuild
  BY <1>1 DEF IInv, WorkersOK, PollOK, Leads, Follows
<1>3. /\ BuildStatus(url[w].id) \in Statuses /\ url[w].id \in Number /\ url[w].id # 0
  BY <1>2, OneBuild DEF IInv, Typed, JenkinsOK, Statuses
<1> DEFINE a == [status |-> BuildStatus(url[w].id), number |-> url[w].id]
<1>4. /\ a \in [status : Statuses, number : Number]
      /\ a.number = url[w].id /\ a.status = BuildStatus(url[w].id)
  BY <1>3
<1>5. answer' = [answer EXCEPT ![w] = a]
  BY DEF AskBuild
<1> HIDE DEF a
<1>. QED
  BY <1>1, <1>2, <1>3, <1>4, <1>5, Told

(* The page of the job is asked only for a delivery without a Location.     *)
LEMMA AskPageStep ==
    ASSUME FinitePushes, IInv, NEW w \in Worker, AskPage(w)
    PROVE  IInv'
<1> DEFINE a == [status |-> "failed", number |-> 0]
<1>1. /\ pc[w] = "ask" /\ Asking /\ Goto(w, "store") /\ UNCHANGED url
      /\ answer' = [answer EXCEPT ![w] = a]
  BY DEF AskPage
<1>2. push[w] \in unlocated
  BY DEF AskPage, IInv, WorkersOK, PollOK, Leads
<1>3. a \in [status : Statuses, number : Number] /\ a.number = 0
  BY Nothing DEF Statuses, Terminal
<1> HIDE DEF a
<1>. QED
  BY <1>1, <1>2, <1>3, Told

-----------------------------------------------------------------------------
(* Number and URL that a poll stores are of the build it has asked about.   *)
LEMMA RenumberedOK ==
    ASSUME FinitePushes, IInv, NEW w \in Worker, pc[w] = "store",
           NEW r \in Renumbered(w, rec[push[w]])
    PROVE  /\ push[w] \in Push /\ rec[push[w]] \in Rec /\ r \in Rec
           /\ r.status = rec[push[w]].status
           /\ Leads(push[w], r.url)
           /\ r.number # 0 => Follows(push[w], r.number)
<1> DEFINE p == push[w]
           a == answer[w]
<1>1. p \in Push /\ rec[p] # NoRec /\ (a.number # 0 => Follows(p, a.number))
  BY DEF IInv, WorkersOK, PollOK
<1>2. rec[p] \in Rec /\ a \in [status : Statuses, number : Number]
  BY <1>1 DEF IInv, Typed, ColumnsTyped, LocalsTyped
<1>3. Leads(p, rec[p].url) /\ (rec[p].number # 0 => Follows(p, rec[p].number))
  BY <1>1 DEF IInv, RecordsOK
<1>4. CASE a.number \in {0, seen[w].number}
  <2>1. r = rec[p]
    BY <1>4 DEF Renumbered
  <2>. QED
    BY <1>1, <1>2, <1>3, <2>1
<1>5. CASE a.number \notin {0, seen[w].number}
  <2> DEFINE lost == [kind |-> "lost", id |-> 0]
  <2>1. lost \in Url /\ Leads(p, lost)
    BY <1>1, <1>5, Nothing DEF Url, Leads, Follows
  <2>2. PICK u \in {rec[p].url, lost} : r = [rec[p] EXCEPT !.number = a.number, !.url = u]
    BY <1>5 DEF Renumbered
  <2>3. u \in Url /\ Leads(p, u)
    BY <1>2, <1>3, <2>1, <2>2 DEF Rec
  <2>4. r \in Rec /\ r.status = rec[p].status /\ r.url = u /\ r.number = a.number
    BY <1>2, <2>2, <2>3 DEF Rec
  <2>. QED
    BY <1>1, <1>2, <2>3, <2>4
<1>. QED
  BY <1>4, <1>5

(* A webhook has no record to poll.                                         *)
LEMMA NotPolled ==
    ASSUME IInv, NEW w \in Worker, pc[w] = "store"
    PROVE  \A v \in Worker \ {w} : pc[v] \in Hooks => push[v] # push[w]
BY DEF IInv, WorkersOK, HookOK, PollOK

(* A poll that has seen nothing new may store a number and a URL.           *)
LEMMA StoreNothingStep ==
    ASSUME FinitePushes, IInv, NEW w \in Worker, StoreNothing(w)
    PROVE  IInv'
<1>1. /\ pc[w] = "store" /\ Return(w) /\ UNCHANGED <<item, kept, tagOf, own, unlocated, scoopsAt,
                                                     current>>
  BY DEF StoreNothing, jenkinsVars
<1>2. PICK r \in {rec[push[w]]} \cup Renumbered(w, rec[push[w]]) :
         rec' = [rec EXCEPT ![push[w]] = r]
  BY DEF StoreNothing
<1>3. CASE r = rec[push[w]]
  <2>1. rec' = rec
    BY <1>2, <1>3 DEF IInv, Typed, ColumnsTyped
  <2>. QED
    BY <1>1, <2>1, NothingWritten
<1>4. CASE r \in Renumbered(w, rec[push[w]])
  <2>1. /\ push[w] \in Push /\ r \in Rec /\ r.status = rec[push[w]].status
        /\ Leads(push[w], r.url) /\ (r.number # 0 => Follows(push[w], r.number))
    BY <1>1, <1>4, RenumberedOK
  <2>2. r.status \in Terminal => push[w] \in unlocated \/ Ended(push[w], r.status)
    BY <2>1 DEF IInv, RecordsOK
  <2>. QED
    BY <1>1, <1>2, <2>1, <2>2, NotPolled, Written
<1>. QED
  BY <1>2, <1>3, <1>4

(* A poll that has seen something new stores a status that a build has, or  *)
(* leaves the one that another poll has stored.                             *)
LEMMA StoreStep ==
    ASSUME FinitePushes, IInv, NEW w \in Worker, Store(w)
    PROVE  IInv'
<1> DEFINE p == push[w]
           a == answer[w]
<1>1. /\ pc[w] = "store" /\ Return(w) /\ UNCHANGED <<item, kept, tagOf, own, unlocated, scoopsAt,
                                                     current>>
  BY DEF Store, jenkinsVars
<1>2. PICK r \in Renumbered(w, rec[p]) :
         rec' = [rec EXCEPT ![p] =
                   [r EXCEPT !.status  = IF a.status # seen[w].status THEN a.status ELSE @,
                             !.started = @ \/ (a.status # "pending" /\ Timed(w))]]
  BY DEF Store
<1>3. /\ p \in Push /\ r \in Rec /\ r.status = rec[p].status
      /\ Leads(p, r.url) /\ (r.number # 0 => Follows(p, r.number))
  BY <1>1, RenumberedOK
<1>4. a \in [status : Statuses, number : Number] /\ Timed(w) \in BOOLEAN
  BY DEF IInv, Typed, LocalsTyped, Timed
<1> DEFINE s == IF a.status # seen[w].status THEN a.status ELSE r.status
           q == [r EXCEPT !.status = s, !.started = @ \/ (a.status # "pending" /\ Timed(w))]
<1>5. rec' = [rec EXCEPT ![p] = q]
  BY <1>2
<1>6. s \in Statuses
  BY <1>3, <1>4 DEF Rec
<1>7. s \in Terminal => p \in unlocated \/ Ended(p, s)
  <2>1. CASE s = r.status
    BY <1>3, <2>1 DEF IInv, RecordsOK
  <2>2. CASE s = a.status
    BY <1>1, <2>2 DEF IInv, WorkersOK, PollOK, Ended, Follows
  <2>. QED
    BY <2>1, <2>2
<1>8. q \in Rec /\ q.status = s /\ q.url = r.url /\ q.number = r.number
  <2> HIDE DEF s
  <2>. QED
    BY <1>3, <1>4, <1>6 DEF Rec
<1> HIDE DEF q, s
<1>. QED
  BY <1>1, <1>3, <1>5, <1>7, <1>8, NotPolled, Written

-----------------------------------------------------------------------------
(* A PATCH of the version touches nothing that a record depends on.         *)
LEMMA SetVersionStep ==
    ASSUME FinitePushes, IInv, NEW w \in Worker, SetVersion(w)
    PROVE  IInv'
<1>1. UNCHANGED <<item, kept, tagOf, own, unlocated, rec, scoopsAt, pc, push, version, url, seen,
                  answer>>
  BY DEF SetVersion, jenkinsVars, localVars
<1>2. LocalsTyped' /\ OnlyMoves(w) /\ current' \in Version
  BY <1>1 DEF IInv, Typed, LocalsTyped, OnlyMoves, SetVersion
<1>3. OneHandler'
  BY <1>1, <1>2, SameHandler
<1>4. HookOK(w) /\ PollOK(w) /\ LastBuild' = LastBuild
  BY <1>1 DEF IInv, WorkersOK, LastBuild
<1>5. HookOK(w)'
  BY <1>1, <1>4 DEF HookOK, Tagged
<1>6. PollOK(w)'
  BY <1>1, <1>4 DEF PollOK, Leads, Follows, Left, BuildStatus, BuildItem
<1>. QED
  BY <1>1, <1>2, <1>3, <1>5, <1>6, LocalStep DEF IInv, Typed, ColumnsTyped

(* A worker may die or fail at every step.                                  *)
LEMMA GiveUpStep ==
    ASSUME FinitePushes, IInv, NEW w \in Worker, GiveUp(w)
    PROVE  IInv'
BY NothingWritten DEF GiveUp, jenkinsVars, appVars

(* Workers that stand still while Jenkins goes on know nothing wrong.       *)
LEMMA Meanwhile ==
    ASSUME FinitePushes, IInv, JenkinsTyped', JenkinsOK', Onward,
           UNCHANGED <<rec, scoopsAt, current, own, unlocated, pc, push, version, url, seen,
                       answer>>
    PROVE  IInv'
<1>1. ColumnsTyped' /\ LocalsTyped' /\ OneHandler'
  BY DEF IInv, Typed, ColumnsTyped, LocalsTyped, WorkersOK, OneHandler
<1>2. RecordsOK'
  BY RecordStands DEF RecordsOK
<1>3. ASSUME NEW v \in Worker
      PROVE  HookOK(v)' /\ PollOK(v)'
  <2>1. PollOK(v)
    BY DEF IInv, WorkersOK
  <2>2. pc[v] \in {"ask", "store"} => rec'[push[v]] # NoRec
    BY <2>1 DEF PollOK
  <2>. QED
    BY <2>2, WorkerStands
<1>. QED
  BY <1>1, <1>2, <1>3 DEF IInv, Typed, WorkersOK

(* Jenkins goes on by itself.                                               *)
LEMMA JenkinsStep ==
    ASSUME FinitePushes, IInv, Jenkins
    PROVE  IInv'
<1>1. UNCHANGED <<rec, scoopsAt, current, own, unlocated, pc, push, version, url, seen, answer>>
  BY DEF Jenkins, appVars, localVars
<1>2. JenkinsTyped' /\ JenkinsOK' /\ Onward
  BY <1>1, StartStep, CancelStep, ForgetStep, FinishStep DEF Jenkins, IInv, Typed
<1>. QED
  BY <1>1, <1>2, Meanwhile

(* At first there is no item, no tag, no record and no work.                *)
LEMMA InitOK == ASSUME FinitePushes, Init PROVE IInv
<1>1. Typed
  <2>1. NoItem \in ItemType
    BY Nothing DEF NoItem, ItemType, Phases
  <2>2. JenkinsTyped
    BY <2>1 DEF Init, JenkinsTyped
  <2>3. ColumnsTyped /\ LocalsTyped
    BY Nothing DEF Init, ColumnsTyped, LocalsTyped, Steps
  <2>. QED
    BY <2>2, <2>3 DEF Typed
<1>2. LastBuild = 0
  <2>1. {i \in Item : item[i].number # 0} = {}
    BY DEF Init, NoItem
  <2>. QED
    BY <2>1, FS_EmptySet DEF LastBuild
<1>3. Numbered
  BY <1>2 DEF Init, Numbered, NoItem, Terminal
<1>4. Published
  BY Nothing DEF Init, Published, NoItem
<1>5. WorkersOK
  BY DEF Init, WorkersOK, OneHandler, HookOK, PollOK, Hooks
<1>6. RecordsOK
  BY Nothing DEF Init, RecordsOK, Leads, Statuses
<1>. QED
  BY <1>1, <1>3, <1>4, <1>5, <1>6 DEF IInv, JenkinsOK

(* Numbers of builds, tags, handlers and records stay consistent, for every *)
(* number of workers and of deliveries.                                     *)
THEOREM Invariant == ASSUME FinitePushes PROVE Spec => []IInv
<1>1. Init => IInv
  BY InitOK
<1>2. ASSUME IInv, [Next]_vars PROVE IInv'
  <2>1. ASSUME NEW w \in Worker,
               \/ BeginPush(w) \/ NextVersion(w) \/ Propagate(w) \/ Trigger(w)
               \/ TriggerUnlocated(w) \/ TriggerFails(w) \/ Locate(w) \/ LocateByJob(w)
               \/ SetCurrent(w) \/ Record(w)
        PROVE  IInv'
    BY <1>2, <2>1, BeginPushStep, NextVersionStep, PropagateStep, TriggerStep,
       TriggerUnlocatedStep, TriggerFailsStep, LocateStep, LocateByJobStep, SetCurrentStep,
       RecordStep
  <2>2. ASSUME NEW w \in Worker,
               \/ BeginPoll(w) \/ AskQueue(w) \/ AskJob(w) \/ AskBuild(w)
               \/ AskPage(w) \/ StoreNothing(w) \/ Store(w) \/ SetVersion(w) \/ GiveUp(w)
        PROVE  IInv'
    BY <1>2, <2>2, BeginPollStep, AskQueueStep, AskJobStep, AskBuildStep,
       AskPageStep, StoreNothingStep, StoreStep, SetVersionStep, GiveUpStep
  <2>3. CASE Jenkins
    BY <1>2, <2>3, JenkinsStep
  <2>4. CASE UNCHANGED vars
    <3>1. UNCHANGED <<item, kept, tagOf, own, unlocated, rec, scoopsAt, current, pc, push,
                      version, url,
                      seen, answer>>
      BY <2>4 DEF vars, jenkinsVars, appVars, localVars
    <3>. QED
      BY <1>2, <3>1, JenkinsStands, Meanwhile DEF IInv, Typed
  <2>. QED
    BY <1>2, <2>1, <2>2, <2>3, <2>4 DEF Next
<1>. QED
  BY <1>1, <1>2, PTL DEF Spec

(* Every column, URL and answer has its type, a version has a number left,  *)
(* and a poll only ever follows a build that Jenkins has started.           *)
THEOREM TypeCorrect == ASSUME FinitePushes PROVE Spec => []TypeOK
<1>1. ASSUME IInv PROVE TypeOK
  <2>1. ASSUME NEW w \in Worker, url[w].kind = "build"
        PROVE  \E i \in Item : item[i].number = url[w].id
    <3>1. Follows(push[w], url[w].id)
      BY <1>1, <2>1, Nothing DEF IInv, WorkersOK, PollOK, Leads
    <3>. QED
      BY <1>1, <3>1 DEF Follows, IInv, JenkinsOK, Numbered
  <2>. QED
    BY <1>1, <2>1 DEF TypeOK, IInv, Typed, JenkinsTyped, ColumnsTyped, LocalsTyped, ItemType, Steps
<1>. QED
  BY <1>1, Invariant, PTL

(* A record of a push that Jenkins has given a Location, and that says how  *)
(* its build ended, says how a build of the job has ended that is not older *)
(* than its own, whatever two polls have read and written in which order.   *)
THEOREM OutcomesAreReal == ASSUME FinitePushes PROVE Spec => []OutcomeIsReal
<1>1. IInv => OutcomeIsReal
  BY DEF IInv, RecordsOK, Ended, Follows, Left, OutcomeIsReal, Outcome
<1>. QED
  BY <1>1, Invariant, PTL

(* A record of a push that Jenkins has given a Location never names a build *)
(* that is older than its own.                                              *)
THEOREM RecordsAreNotOlder == ASSUME FinitePushes PROVE Spec => []NeverOlder
<1>1. IInv => NeverOlder
  BY DEF IInv, RecordsOK, Follows, NeverOlder
<1>. QED
  BY <1>1, Invariant, PTL

=============================================================================
