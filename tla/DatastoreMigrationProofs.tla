---------------------- MODULE DatastoreMigrationProofs -----------------------
(***************************************************************************)
(* Theorems of DatastoreMigration for every number of releases, starts and *)
(* spared backups: types, the refinement of AtomicUpgrade's safety part,   *)
(* the announcement of every committed chain, the backup that undoes the   *)
(* last one, the truth of the trail's closing lines, and the table that    *)
(* mirrors the trail.                                                      *)
(***************************************************************************)
EXTENDS DatastoreMigration, FiniteSetTheorems, WellFoundedInduction, TLAPS

-----------------------------------------------------------------------------
(* The extreme members of a set of line numbers.                           *)

\* A non-empty set of naturals has a least member, and Min() is one.
LEMMA MinIn ==
    ASSUME NEW S, S \subseteq Nat, S # {}
    PROVE  Min(S) \in S /\ \A y \in S : Min(S) <= y
<1> DEFINE R == OpToRel(<, Nat)
<1>1. \A a, b \in Nat : a < b => <<a, b>> \in R
  BY Zenon DEF OpToRel
<1>2. IsWellFoundedOn(R, Nat)
  BY NatLessThanWellFounded
<1> HIDE DEF R
<1>3. PICK x \in S : \A y \in S : ~ (<<y, x>> \in R)
  BY <1>2, WFMin
<1>4. \A y \in S : x <= y
  <2> TAKE y \in S
  <2>1. ~ (y < x)
    BY <1>1, <1>3
  <2> QED BY <2>1
<1>5. \E z \in S : \A y \in S : z <= y
  BY <1>4
<1> QED BY <1>5 DEF Min

\* A non-empty set of line numbers has a greatest member, and Max() is one.
LEMMA MaxIn ==
    ASSUME NEW n \in Nat, NEW S, S \subseteq 1..n, S # {}
    PROVE  Max(S) \in S /\ \A y \in S : y <= Max(S)
<1> DEFINE T == {n - y : y \in S}
<1>0. \A y \in S : y \in Int /\ 1 <= y /\ y <= n
  OBVIOUS
<1>1. T \subseteq Nat
  BY <1>0
<1>2. T # {}
  <2>1. PICK y \in S : TRUE
    OBVIOUS
  <2> QED BY <2>1
<1>3. Min(T) \in T /\ \A t \in T : Min(T) <= t
  <2> HIDE DEF T
  <2> QED BY <1>1, <1>2, MinIn
<1>4. PICK x \in S : Min(T) = n - x
  BY <1>3
<1>5. \A y \in S : x >= y
  <2> TAKE y \in S
  <2>1. n - y \in T
    OBVIOUS
  <2>2. Min(T) <= n - y
    <3> HIDE DEF T
    <3> QED BY <2>1, <1>3
  <2> HIDE DEF T
  <2> QED BY <2>2, <1>4, <1>0
<1>6. \E z \in S : \A y \in S : z >= y
  BY <1>5
<1>7. Max(S) \in S /\ \A y \in S : Max(S) >= y
  BY <1>6 DEF Max
<1> QED BY <1>0, <1>7
-----------------------------------------------------------------------------
(* Types.                                                                  *)

\* A write to the trail leaves lines, and no fewer of them.
LEMMA PutType ==
    ASSUME trail \in Seq(Line), cut \in BOOLEAN, NEW l \in Line, NEW e \in BOOLEAN, Put(l, e)
    PROVE  trail' \in Seq(Line) /\ cut' \in BOOLEAN /\ Len(trail') >= Len(trail)
<1>1. CASE ~ cut
  BY <1>1 DEF Put
<1>2. CASE cut
  <2>1. Junk \in Line
    BY BoundsAssumption DEF Junk, Line, Status, Version
  <2>2. \A t \in Line : Torn(t.id) \in Line
    BY BoundsAssumption DEF Torn, Line, Status, Version
  <2> DEFINE n == Len(trail)
             x == IF e THEN Junk ELSE IF trail[n].shape = "junk" THEN l ELSE Torn(trail[n].id)
  <2>3. trail' = [trail EXCEPT ![n] = x]
    BY <1>2 DEF Put
  <2>4. CASE n = 0
    <3>1. trail' = trail
      BY <2>3, <2>4
    <3>2. trail' \in Seq(Line) /\ Len(trail') = Len(trail)
      BY <3>1
    <3> QED BY <3>2 DEF Put
  <2>5. CASE n # 0
    <3>1. n \in 1..Len(trail) /\ trail[n] \in Line
      BY <2>5
    <3>2. x \in Line
      BY <3>1, <2>1, <2>2
    <3> HIDE DEF x
    <3>3. trail' \in Seq(Line) /\ Len(trail') = Len(trail)
      BY <2>3, <3>1, <3>2
    <3> QED BY <3>3 DEF Put
  <2> QED BY <2>4, <2>5
<1> QED BY <1>1, <1>2

\* An append writes its line, raised or not, or nothing.
LEMMA AppendType ==
    ASSUME trail \in Seq(Line), cut \in BOOLEAN, NEW l \in Line, Appended(l) \/ Raised(l)
    PROVE  trail' \in Seq(Line) /\ cut' \in BOOLEAN /\ Len(trail') >= Len(trail)
<1>1. CASE Put(l, TRUE)
  BY <1>1, PutType
<1>2. CASE UNCHANGED <<trail, cut>>
  BY <1>2
<1> QED BY <1>1, <1>2 DEF Appended, Raised

\* The three lines the program writes.
LEMMA LineType ==
    ASSUME NEW i \in Entry \cup {0}, NEW st \in Status, NEW v \in Version
    PROVE  Whole(i, st, v) \in Line /\ Torn(i) \in Line /\ Junk \in Line
BY BoundsAssumption DEF Whole, Torn, Junk, Line, Status, Version

\* What was read is read line by line.
LEMMA ReadType ==
    ASSUME trail \in Seq(Line)
    PROVE  /\ Read.ok \in BOOLEAN /\ DOMAIN Read.lines \subseteq 1..Len(trail)
           /\ \A k \in DOMAIN Read.lines : Read.lines[k] \in Line
           /\ Unclosed(Read.lines) \subseteq DOMAIN Read.lines
BY DEF Read, Readable, Good, Unclosed

\* The mirror holds statuses.
LEMMA UpsertType ==
    ASSUME NEW n \in Nat, NEW lines, DOMAIN lines \subseteq 1..n,
           \A k \in DOMAIN lines : lines[k] \in Line,
           mirror \in [Entry -> Status \cup {None}]
    PROVE  Upserted(lines) \in [Entry -> Status \cup {None}]
<1>1. ASSUME NEW i \in Entry PROVE Latest(lines, i) \in Status \cup {None}
  <2> DEFINE of == {k \in DOMAIN lines : lines[k].id = i}
  <2>1. CASE of = {}
    BY <2>1 DEF Latest
  <2>2. CASE of # {}
    <3>1. Max(of) \in of
      <4>1. of \subseteq 1..n
        OBVIOUS
      <4> HIDE DEF of
      <4> QED BY <2>2, <4>1, MaxIn
    <3>2. Latest(lines, i) = lines[Max(of)].st
      BY <2>2 DEF Latest
    <3>3. lines[Max(of)] \in Line
      BY <3>1
    <3> QED BY <3>2, <3>3 DEF Line
  <2> QED BY <2>1, <2>2
<1> QED BY <1>1 DEF Upserted

TrailType == trail \in Seq(Line) /\ cut \in BOOLEAN

DataType ==
    /\ tables \in Version /\ meta \in Version \cup {None, Garbled}
    /\ file \in BOOLEAN /\ rows \in BOOLEAN
    /\ kept \subseteq Backup /\ moves \in Seq(Move)

MirrorType == mirror \in [Entry -> Status \cup {None}]

RunType ==
    /\ code \in 1..MaxVersion /\ boots \in 0..MaxBoots
    /\ pc \in {"down", "mark", "announce", "connect", "open", "reconcile", "backup", "chain",
               "close", "mirror", "prune", "up"}
    /\ verdict \in {"none", "ok", "paused", "readonly"} /\ mirrored \in BOOLEAN
    /\ started \in BOOLEAN /\ outcome \in Status
    /\ pc # "down" => boots \in Entry
    /\ pc = "mark" => todo # {}

ReadOK ==
    /\ read.ok \in BOOLEAN /\ DOMAIN read.lines \subseteq 1..Len(trail)
    /\ \A k \in DOMAIN read.lines : read.lines[k] \in Line
    /\ todo \subseteq DOMAIN read.lines

\* TypeOK in parts, and what a write of the running start needs: it has a number,
\* and it marks only while something is left to mark.
TypeInv == TrailType /\ DataType /\ MirrorType /\ RunType /\ ReadOK

LEMMA TypeInvType == TypeInv => TypeOK
BY DEF TypeInv, TrailType, DataType, MirrorType, RunType, ReadOK, TypeOK

\* The line that closes the first entry left to mark is one.
LEMMA InterruptionType ==
    ASSUME ReadOK, TrailType, todo # {}
    PROVE  Interruption \in Line /\ Min(todo) \in todo
<1>1. todo \subseteq Nat
  BY DEF ReadOK, TrailType
<1>2. Min(todo) \in todo
  BY <1>1, MinIn
<1>3. read.lines[Min(todo)] \in Line
  BY <1>2 DEF ReadOK
<1> QED BY <1>2, <1>3, LineType DEF Interruption, Line, Status, Closing

\* The line a stopped write belongs to is one.
LEMMA WritingType ==
    ASSUME TypeInv, pc \in {"mark", "announce", "open", "close"}
    PROVE  Writing \in Line
<1> USE DEF TypeInv, RunType
<1>1. CASE pc = "mark"
  BY <1>1, InterruptionType DEF Writing
<1>2. CASE pc \in {"announce", "open"}
  BY <1>2, LineType DEF Writing, Version, Status
<1>3. CASE pc = "close"
  BY <1>3, LineType DEF Writing, Version
<1> QED BY <1>1, <1>2, <1>3

\* What an action that writes no line leaves of the trail and of what was read.
LEMMA SameTrail ==
    ASSUME TrailType, ReadOK, UNCHANGED <<trail, cut, read, todo>>
    PROVE  TrailType' /\ ReadOK'
BY DEF TrailType, ReadOK

LEMMA InitType == Init => TypeInv
<1> SUFFICES ASSUME Init PROVE TypeInv
  OBVIOUS
<1>1. TrailType /\ MirrorType /\ ReadOK
  <2>1. trail = <<>> /\ cut = FALSE /\ mirror = [i \in Entry |-> None]
    BY DEF Init
  <2>2. read = [ok |-> TRUE, lines |-> <<>>] /\ todo = {}
    BY DEF Init
  <2>3. DOMAIN <<>> = {}
    OBVIOUS
  <2>4. DOMAIN read.lines = {} /\ read.ok \in BOOLEAN
    BY <2>2, <2>3
  <2>5. trail \in Seq(Line) /\ mirror \in [Entry -> Status \cup {None}]
    BY <2>1
  <2>6. ReadOK
    BY <2>2, <2>4 DEF ReadOK
  <2> QED BY <2>1, <2>5, <2>6 DEF TrailType, MirrorType
<1>2. DataType
  <2>1. tables \in Version /\ meta \in Version \cup {None, Garbled} /\ file \in BOOLEAN
    BY BoundsAssumption DEF Init, Version
  <2>2. rows \in BOOLEAN /\ kept = {} /\ moves = <<>>
    BY DEF Init
  <2>3. moves \in Seq(Move)
    BY <2>2
  <2> QED BY <2>1, <2>2, <2>3 DEF DataType
<1>3. RunType
  <2>1. /\ code \in 1..MaxVersion /\ boots = 0 /\ pc = "down" /\ verdict = "none"
        /\ mirrored = FALSE /\ started = FALSE /\ outcome = "started"
    BY DEF Init
  <2>2. boots \in 0..MaxBoots
    BY <2>1, BoundsAssumption
  <2>3. mirrored \in BOOLEAN /\ started \in BOOLEAN /\ outcome \in Status
    BY <2>1 DEF Status
  <2> QED BY <2>1, <2>2, <2>3 DEF RunType
<1> QED BY <1>1, <1>2, <1>3 DEF TypeInv

LEMMA NextType == TypeInv /\ [Next]_vars => TypeInv'
<1> SUFFICES ASSUME TypeInv, [Next]_vars PROVE TypeInv'
  OBVIOUS
<1>0. TrailType /\ DataType /\ MirrorType /\ RunType /\ ReadOK
  BY DEF TypeInv
<1> USE <1>0
<1>1. ASSUME NEW c \in 1..MaxVersion, Boot(c) PROVE TypeInv'
  <2>1. TrailType' /\ ReadOK'
    <3>1. TrailType'
      BY <1>1 DEF Boot, disk, TrailType
    <3>2. read' = Read /\ trail' = trail /\ todo' \subseteq DOMAIN Read.lines
      BY <1>1, ReadType DEF Boot, disk, TrailType
    <3> QED BY <3>1, <3>2, ReadType DEF ReadOK, TrailType
  <2>2. DataType'
    BY <1>1 DEF Boot, DataType, disk
  <2>3. MirrorType'
    BY <1>1 DEF Boot, MirrorType, disk
  <2>4. RunType'
    BY <1>1, BoundsAssumption DEF Boot, RunType, AfterTrail, Entry
  <2> QED BY <2>1, <2>2, <2>3, <2>4 DEF TypeInv
<1>2. CASE Mark
  <2>1. TrailType' /\ ReadOK'
    <3>1. Interruption \in Line
      BY <1>2, InterruptionType DEF Mark, RunType
    <3>2. trail' \in Seq(Line) /\ cut' \in BOOLEAN /\ Len(trail') >= Len(trail)
      BY <1>2, <3>1, AppendType DEF Mark, TrailType
    <3> QED BY <1>2, <3>2 DEF Mark, TrailType, ReadOK
  <2>2. DataType'
    BY <1>2 DEF Mark, DataType, disk
  <2>3. MirrorType'
    BY <1>2 DEF Mark, MirrorType, disk
  <2>4. RunType'
    BY <1>2, BoundsAssumption DEF Mark, RunType, AfterTrail
  <2> QED BY <2>1, <2>2, <2>3, <2>4 DEF TypeInv
<1>3. CASE Announce
  <2>1. TrailType' /\ ReadOK'
    <3>1. Whole(boots, "started", code) \in Line
      BY <1>3, LineType, BoundsAssumption DEF Announce, RunType, Version, Status
    <3>2. trail' \in Seq(Line) /\ cut' \in BOOLEAN /\ Len(trail') >= Len(trail)
      BY <1>3, <3>1, AppendType DEF Announce, TrailType
    <3> QED BY <1>3, <3>2 DEF Announce, TrailType, ReadOK
  <2>2. DataType'
    BY <1>3 DEF Announce, DataType, disk
  <2>3. MirrorType'
    BY <1>3 DEF Announce, MirrorType, disk
  <2>4. RunType'
    BY <1>3, BoundsAssumption DEF Announce, RunType, GivenUp, Settled, BackupOrChain
  <2> QED BY <2>1, <2>2, <2>3, <2>4 DEF TypeInv
<1>4. CASE Connect
  <2>1. TrailType' /\ ReadOK'
    BY <1>4, SameTrail DEF Connect
  <2>2. DataType'
    BY <1>4 DEF Connect, DataType, disk
  <2>3. MirrorType'
    BY <1>4 DEF Connect, MirrorType, disk
  <2>4. RunType'
    BY <1>4, BoundsAssumption DEF Connect, RunType, Settled, BackupOrChain
  <2> QED BY <2>1, <2>2, <2>3, <2>4 DEF TypeInv
<1>5. CASE Reconcile
  <2>1. TrailType' /\ ReadOK'
    BY <1>5, SameTrail DEF Reconcile
  <2>2. DataType'
    BY <1>5 DEF Reconcile, DataType, disk
  <2>3. MirrorType'
    <3>1. Upserted(read.lines) \in [Entry -> Status \cup {None}]
      BY UpsertType DEF ReadOK, TrailType, MirrorType
    <3> QED BY <1>5, <3>1 DEF Reconcile, MirrorType
  <2>4. RunType'
    BY <1>5, BoundsAssumption DEF Reconcile, RunType, Settled
  <2> QED BY <2>1, <2>2, <2>3, <2>4 DEF TypeInv
<1>6. CASE TakeBackup
  <2>1. TrailType' /\ ReadOK'
    BY <1>6, SameTrail DEF TakeBackup
  <2>2. DataType'
    <3>1. [ver |-> tables, id |-> boots] \in Backup
      BY <1>6 DEF TakeBackup, DataType, RunType, Backup
    <3> QED BY <1>6, <3>1 DEF TakeBackup, DataType
  <2>3. MirrorType'
    BY <1>6 DEF TakeBackup, MirrorType, disk
  <2>4. RunType'
    BY <1>6, BoundsAssumption DEF TakeBackup, RunType, Failed, Status, Closing
  <2> QED BY <2>1, <2>2, <2>3, <2>4 DEF TypeInv
<1>7. CASE Chain
  <2>1. TrailType' /\ ReadOK'
    BY <1>7, SameTrail DEF Chain
  <2>2. DataType'
    <3>1. [id |-> boots, from |-> tables, to |-> code] \in Move
      BY <1>7 DEF Chain, DataType, RunType, Move, Version
    <3>2. code \in Version
      BY DEF RunType, Version
    <3> QED BY <1>7, <3>1, <3>2 DEF Chain, DataType, Failed
  <2>3. MirrorType'
    BY <1>7 DEF Chain, MirrorType, disk
  <2>4. RunType'
    BY <1>7, BoundsAssumption DEF Chain, RunType, Failed, Status, Closing
  <2> QED BY <2>1, <2>2, <2>3, <2>4 DEF TypeInv
<1>8. CASE Close
  <2>1. TrailType' /\ ReadOK'
    <3>1. Whole(boots, outcome, code) \in Line
      BY <1>8, LineType, BoundsAssumption DEF Close, RunType, Version, Status
    <3>2. trail' \in Seq(Line) /\ cut' \in BOOLEAN /\ Len(trail') >= Len(trail)
      BY <1>8, <3>1, AppendType DEF Close, TrailType
    <3> QED BY <1>8, <3>2 DEF Close, TrailType, ReadOK
  <2>2. DataType'
    BY <1>8 DEF Close, DataType, disk
  <2>3. MirrorType'
    BY <1>8 DEF Close, MirrorType, disk
  <2>4. RunType'
    BY <1>8, BoundsAssumption DEF Close, RunType, Settled
  <2> QED BY <2>1, <2>2, <2>3, <2>4 DEF TypeInv
<1>9. CASE Mirror
  <2>1. TrailType' /\ ReadOK'
    BY <1>9, SameTrail DEF Mirror
  <2>2. DataType'
    BY <1>9 DEF Mirror, DataType, disk
  <2>3. MirrorType'
    <3>1. Upserted(Read.lines) \in [Entry -> Status \cup {None}]
      BY UpsertType, ReadType DEF TrailType, MirrorType
    <3> QED BY <1>9, <3>1 DEF Mirror, MirrorType
  <2>4. RunType'
    BY <1>9, BoundsAssumption DEF Mirror, RunType
  <2> QED BY <2>1, <2>2, <2>3, <2>4 DEF TypeInv
<1>10. CASE Prune
  <2>1. TrailType' /\ ReadOK'
    BY <1>10, SameTrail DEF Prune
  <2>2. DataType'
    BY <1>10 DEF Prune, DataType, disk
  <2>3. MirrorType'
    BY <1>10 DEF Prune, MirrorType, disk
  <2>4. RunType'
    BY <1>10, BoundsAssumption DEF Prune, RunType, Settled
  <2> QED BY <2>1, <2>2, <2>3, <2>4 DEF TypeInv
<1>11. CASE Crash
  <2>1. TrailType' /\ ReadOK'
    <3>1. trail' \in Seq(Line) /\ cut' \in BOOLEAN
      <4>1. CASE UNCHANGED <<trail, cut>>
        BY <4>1 DEF TrailType
      <4>2. ASSUME pc \in {"mark", "announce", "open", "close"},
                   NEW l \in {Writing, Torn(Writing.id), Junk}, Put(l, FALSE)
            PROVE  trail' \in Seq(Line) /\ cut' \in BOOLEAN
        <5>1. Writing \in Line
          BY <4>2, WritingType
        <5>2. l \in Line
          BY <5>1, LineType, BoundsAssumption DEF Line, Status, Version
        <5> QED BY <4>2, <5>2, PutType DEF TrailType
      <4> QED BY <1>11, <4>1, <4>2 DEF Crash
    <3> QED BY <1>11, <3>1 DEF Crash, Down, TrailType, ReadOK
  <2>2. DataType'
    BY <1>11 DEF Crash, DataType, disk
  <2>3. MirrorType'
    BY <1>11 DEF Crash, MirrorType, disk
  <2>4. RunType'
    BY <1>11, BoundsAssumption DEF Crash, RunType, Down, Status
  <2> QED BY <2>1, <2>2, <2>3, <2>4 DEF TypeInv
<1>12. CASE AddProject
  <2>1. TrailType' /\ ReadOK'
    BY <1>12, SameTrail DEF AddProject
  <2>2. DataType'
    BY <1>12 DEF AddProject, DataType, disk
  <2>3. MirrorType'
    BY <1>12 DEF AddProject, MirrorType, disk
  <2>4. RunType'
    BY <1>12, BoundsAssumption DEF AddProject, RunType
  <2> QED BY <2>1, <2>2, <2>3, <2>4 DEF TypeInv
<1>13. CASE LoseVersion
  <2>1. TrailType' /\ ReadOK'
    BY <1>13, SameTrail DEF LoseVersion
  <2>2. DataType'
    BY <1>13 DEF LoseVersion, DataType, disk
  <2>3. MirrorType'
    BY <1>13 DEF LoseVersion, MirrorType, disk
  <2>4. RunType'
    BY <1>13, BoundsAssumption DEF LoseVersion, RunType
  <2> QED BY <2>1, <2>2, <2>3, <2>4 DEF TypeInv
<1>14. CASE UNCHANGED vars
  <2>1. TrailType' /\ ReadOK'
    BY <1>14, SameTrail DEF vars, disk
  <2>2. DataType' /\ MirrorType' /\ RunType'
    BY <1>14 DEF vars, disk, DataType, MirrorType, RunType
  <2> QED BY <2>1, <2>2 DEF TypeInv
<1> QED
  BY <1>1, <1>2, <1>3, <1>4, <1>5, <1>6, <1>7, <1>8, <1>9, <1>10, <1>11, <1>12, <1>13, <1>14 DEF Next, Step

\* Whatever stops, fails or is half written, every line, version, backup and entry
\* of the store is of its kind.
THEOREM TypeCorrect == Spec => []TypeOK
<1>1. Spec => []TypeInv
  BY InitType, NextType, PTL DEF Spec
<1> QED BY <1>1, TypeInvType, PTL
-----------------------------------------------------------------------------
(* The refinement of AtomicUpgrade.                                        *)

\* The recorded version is the version of the tables, unless it is lost; and it is
\* lost only from a database with rows.
VersionInv ==
    /\ meta \in Version => meta = tables
    /\ meta = None => tables = 0 \/ rows

\* What the running start knows of the tables.
PlanInv ==
    /\ pc \in {"open", "backup", "chain"} => tables = Current /\ tables < code
    /\ pc \in {"reconcile", "mirror", "prune"} => tables = code
    /\ pc = "close" /\ outcome # "failed" => tables = code

AtomicInv == TypeInv /\ VersionInv /\ PlanInv

\* A start that may name a version names that of the tables.
LEMMA CurrentIsTrue ==
    ASSUME DataType, VersionInv, ~ Blocked
    PROVE  Current = tables
<1>1. meta # Garbled
  BY DEF Blocked
<1>2. CASE meta = None
  BY <1>2 DEF Blocked, Current, VersionInv
<1>3. CASE meta \in Version
  BY <1>3, NoneAssumption DEF Current, VersionInv
<1> QED BY <1>1, <1>2, <1>3 DEF DataType

LEMMA InitAtomic == Init => AtomicInv
<1> SUFFICES ASSUME Init PROVE AtomicInv
  OBVIOUS
<1>1. VersionInv
  BY NoneAssumption DEF Init, VersionInv
<1>2. PlanInv
  BY DEF Init, PlanInv
<1> QED BY <1>1, <1>2, InitType DEF AtomicInv

LEMMA NextAtomic == AtomicInv /\ [Next]_vars => AtomicInv'
<1> SUFFICES ASSUME AtomicInv, [Next]_vars PROVE AtomicInv'
  OBVIOUS
<1>0. TypeInv' /\ TypeInv /\ VersionInv /\ PlanInv /\ DataType /\ RunType
  BY NextType DEF AtomicInv, TypeInv
<1> SUFFICES VersionInv' /\ PlanInv'
  BY <1>0 DEF AtomicInv
<1> USE <1>0
<1>1. ASSUME NEW c \in 1..MaxVersion, Boot(c) PROVE VersionInv' /\ PlanInv'
  BY <1>1 DEF Boot, AfterTrail, disk, VersionInv, PlanInv
<1>2. CASE Mark
  BY <1>2 DEF Mark, AfterTrail, VersionInv, PlanInv
<1>3. CASE Announce
  BY <1>3 DEF Announce, GivenUp, Settled, BackupOrChain, VersionInv, PlanInv, Current
<1>4. CASE Connect
  <2>1. VersionInv'
    BY <1>4 DEF Connect, VersionInv
  <2>2. PlanInv'
    <3>1. CASE pc' = "up"
      BY <3>1 DEF PlanInv
    <3>2. CASE pc' # "up"
      <4>1. ~ Blocked /\ Current <= code
        BY <1>4, <3>2 DEF Connect, Settled
      <4>2. Current = tables
        BY <4>1, CurrentIsTrue
      <4>3. tables' = tables /\ code' = code /\ Current' = Current
        BY <1>4 DEF Connect, Current
      <4>4. /\ pc' = "reconcile" => Current = code
            /\ pc' \in {"open", "backup", "chain"} => Current # code
            /\ pc' \in {"open", "backup", "chain", "reconcile"}
        <5>1. pc' = CASE Current = code -> "reconcile"
                      [] Current < code /\ started -> BackupOrChain
                      [] OTHER -> "open"
          BY <1>4, <3>2 DEF Connect, Settled
        <5>2. CASE Current = code
          BY <5>1, <5>2, <4>2 DEF DataType, RunType, Version
        <5>3. CASE Current # code /\ Current < code /\ started
          BY <5>1, <5>3 DEF BackupOrChain
        <5>4. CASE Current # code /\ ~ (Current < code /\ started)
          BY <5>1, <5>4
        <5> QED BY <5>2, <5>3, <5>4
      <4>5. tables \in Int /\ code \in Int
        BY DEF DataType, RunType, Version
      <4> QED BY <4>1, <4>2, <4>3, <4>4, <4>5 DEF PlanInv
    <3> QED BY <3>1, <3>2
  <2> QED BY <2>1, <2>2
<1>5. CASE Reconcile
  BY <1>5 DEF Reconcile, Settled, VersionInv, PlanInv
<1>6. CASE TakeBackup
  BY <1>6 DEF TakeBackup, Failed, VersionInv, PlanInv, Current
<1>7. CASE Chain
  <2>1. CASE tables' = code /\ meta' = code /\ pc' = "close"
    <3>1. code' = code /\ code # None
      BY <1>7, NoneAssumption DEF Chain, RunType, Version
    <3> QED BY <2>1, <3>1 DEF VersionInv, PlanInv
  <2>2. CASE Failed /\ UNCHANGED <<tables, meta>>
    BY <1>7, <2>2 DEF Chain, Failed, VersionInv, PlanInv
  <2> QED BY <1>7, <2>1, <2>2 DEF Chain
<1>8. CASE Close
  BY <1>8 DEF Close, Settled, VersionInv, PlanInv
<1>9. CASE Mirror
  BY <1>9 DEF Mirror, VersionInv, PlanInv
<1>10. CASE Prune
  BY <1>10 DEF Prune, Settled, VersionInv, PlanInv
<1>11. CASE Crash
  BY <1>11 DEF Crash, Down, VersionInv, PlanInv
<1>12. CASE AddProject
  BY <1>12 DEF AddProject, VersionInv, PlanInv
<1>13. CASE LoseVersion
  BY <1>13, NoneAssumption DEF LoseVersion, VersionInv, PlanInv
<1>14. CASE UNCHANGED vars
  BY <1>14 DEF vars, disk, VersionInv, PlanInv, Current
<1> QED
  BY <1>1, <1>2, <1>3, <1>4, <1>5, <1>6, <1>7, <1>8, <1>9, <1>10, <1>11, <1>12, <1>13, <1>14
  DEF Next, Step

\* Every step of a start is one of AtomicUpgrade's, or leaves its state alone.
LEMMA StepRefines == AtomicInv /\ [Next]_vars => [Abstract!Next]_(Abstract!vars)
<1> SUFFICES ASSUME AtomicInv, [Next]_vars
             PROVE  Abstract!Next \/ UNCHANGED Abstract!vars
  OBVIOUS
<1>0. TypeInv /\ VersionInv /\ PlanInv /\ DataType /\ RunType
  BY DEF AtomicInv, TypeInv
<1> USE <1>0
<1> DEFINE Same == UNCHANGED <<tables, code>>
<1>a. Same /\ pc \notin {"down", "up"} /\ pc' \notin {"down", "up"} => UNCHANGED Abstract!vars
  BY DEF Abstract!vars, Phase
<1>b. Same /\ pc \notin {"down", "up"} /\ pc' = "up" /\ verdict' # "ok" => Abstract!Refuse
  BY DEF Abstract!Refuse, Phase
<1>c. /\ Same /\ pc \notin {"down", "up"} /\ tables = code /\ pc' = "up" /\ verdict' = "ok"
      => Abstract!Serve
  BY DEF Abstract!Serve, Phase
<1>d. Same /\ pc # "down" /\ pc' = "down" => Abstract!Stop
  BY DEF Abstract!Stop, Phase
<1>e. Same /\ pc' = pc /\ verdict' = verdict => UNCHANGED Abstract!vars
  BY DEF Abstract!vars, Phase
<1> HIDE DEF Same
<1> USE DEF Abstract!Next
<1>1. ASSUME NEW c \in 1..MaxVersion, Boot(c) PROVE Abstract!Next
  <2>1. pc = "down" /\ pc' \in {"mark", "announce", "connect"} /\ tables' = tables /\ code' \in Version
    BY <1>1 DEF Boot, AfterTrail, disk, Version
  <2> QED BY <2>1 DEF Abstract!Start, Phase
<1>2. CASE Mark
  BY <1>2, <1>a DEF Mark, AfterTrail, Same
<1>3. CASE Announce
  BY <1>3, <1>a, <1>b DEF Announce, GivenUp, Settled, BackupOrChain, Same
<1>4. CASE Connect
  BY <1>4, <1>a, <1>b DEF Connect, Settled, BackupOrChain, Same
<1>5. CASE Reconcile
  BY <1>5, <1>c DEF Reconcile, Settled, PlanInv, Same
<1>6. CASE TakeBackup
  BY <1>6, <1>a DEF TakeBackup, Failed, Same
<1>7. CASE Chain
  <2>1. CASE tables' = code /\ pc' = "close"
    <3>1. pc = "chain" /\ code' = code /\ tables < code
      BY <1>7 DEF Chain, PlanInv
    <3> QED BY <2>1, <3>1 DEF Abstract!Upgrade, Phase
  <2>2. CASE Failed /\ UNCHANGED tables
    BY <1>7, <2>2, <1>a DEF Chain, Failed, Same
  <2> QED BY <1>7, <2>1, <2>2 DEF Chain
<1>8. CASE Close
  BY <1>8, <1>a, <1>b DEF Close, Settled, Same
<1>9. CASE Mirror
  BY <1>9, <1>a DEF Mirror, Same
<1>10. CASE Prune
  BY <1>10, <1>c DEF Prune, Settled, PlanInv, Same
<1>11. CASE Crash
  BY <1>11, <1>d DEF Crash, Down, Same
<1>12. CASE AddProject
  BY <1>12, <1>e DEF AddProject, Same
<1>13. CASE LoseVersion
  BY <1>13, <1>e DEF LoseVersion, Same
<1>14. CASE UNCHANGED vars
  BY <1>14, <1>e DEF vars, disk, Same
<1> QED
  BY <1>1, <1>2, <1>3, <1>4, <1>5, <1>6, <1>7, <1>8, <1>9, <1>10, <1>11, <1>12, <1>13, <1>14
  DEF Next, Step

\* A start takes the tables to the code's version in one step or not at all, and
\* serves only tables at that version: the safety part of AtomicUpgrade.
THEOREM Refines == Spec => UpgradeIsAtomic
<1>1. Init => Abstract!Init
  BY BoundsAssumption DEF Init, Abstract!Init, Phase, Version
<1>2. Spec => []AtomicInv
  BY InitAtomic, NextAtomic, PTL DEF Spec
<1> QED BY <1>1, <1>2, StepRefines, PTL DEF Spec, UpgradeIsAtomic, Abstract!Safety
-----------------------------------------------------------------------------
(* The backup of the last chain.                                           *)

\* A start takes at most one backup, before it commits; no backup and no chain is
\* of a later start.
BackupInv ==
    /\ \A b \in kept : b.id <= boots
    /\ \A b, c \in kept : b.id = c.id => b = c
    /\ pc \in {"mark", "announce", "connect", "open", "backup"} => \A b \in kept : b.id # boots
    /\ pc = "chain" /\ tables > 0 => [ver |-> tables, id |-> boots] \in kept
    /\ (pc = "close" /\ outcome # "failed") \/ pc \in {"mirror", "prune"} =>
          moves # <<>> /\ Last(moves).id = boots
    /\ LastMoveIsReversible

SafeInv == AtomicInv /\ BackupInv

\* The newest backup is spared by every pruning, as KeepLast is not 0.
LEMMA NewestSpared ==
    ASSUME BackupInv, DataType, RunType, NEW b \in kept, b.id = boots
    PROVE  Spared(b)
<1>0. boots \in Int /\ \A c \in kept : c.id \in Int
  BY DEF DataType, RunType, Backup, Entry
<1>1. {c \in kept : c.id >= b.id} = {b}
  <2>1. ASSUME NEW c \in kept, c.id >= b.id PROVE c = b
    <3>1. c.id <= boots /\ b.id <= boots
      BY DEF BackupInv
    <3>2. CASE c.id = boots
      BY <3>2 DEF BackupInv
    <3>3. CASE c.id # boots
      BY <1>0, <2>1, <3>1, <3>3
    <3> QED BY <3>2, <3>3
  <2>2. b.id >= b.id
    BY <1>0
  <2> QED BY <2>1, <2>2
<1> QED BY <1>1, FS_Singleton, BoundsAssumption DEF Spared

LEMMA InitBackup == Init => BackupInv
BY DEF Init, BackupInv, LastMoveIsReversible

LEMMA NextBackup == SafeInv /\ [Next]_vars => BackupInv'
<1> SUFFICES ASSUME SafeInv, [Next]_vars PROVE BackupInv'
  OBVIOUS
<1>0. DataType /\ RunType /\ PlanInv /\ BackupInv
  BY DEF SafeInv, AtomicInv, TypeInv
<1> USE <1>0
<1>1. ASSUME NEW c \in 1..MaxVersion, Boot(c) PROVE BackupInv'
  <2>1. \A b \in kept : b.id <= boots /\ b.id \in Int
    BY DEF BackupInv, DataType, Backup, Entry
  <2>2. boots \in Int /\ boots' = boots + 1 /\ kept' = kept /\ moves' = moves
    BY <1>1 DEF Boot, RunType, disk
  <2>3. \A b \in kept : b.id <= boots' /\ b.id # boots'
    BY <2>1, <2>2
  <2>4. pc' \in {"mark", "announce", "connect"} /\ LastMoveIsReversible'
    BY <1>1, <2>2 DEF Boot, AfterTrail, BackupInv, LastMoveIsReversible
  <2> QED BY <2>2, <2>3, <2>4 DEF BackupInv
<1>2. CASE Mark
  BY <1>2 DEF Mark, AfterTrail, BackupInv, LastMoveIsReversible
<1>3. CASE Announce
  <2>1. UNCHANGED <<kept, moves, boots, tables>>
    BY <1>3 DEF Announce
  <2>2. pc' = "chain" => tables = 0
    BY <1>3 DEF Announce, GivenUp, Settled, BackupOrChain, PlanInv
  <2>3. pc' \in {"connect", "backup", "chain", "up"} /\ pc \in {"announce", "open"}
    BY <1>3 DEF Announce, GivenUp, Settled, BackupOrChain
  <2> QED BY <2>1, <2>2, <2>3 DEF BackupInv, LastMoveIsReversible
<1>4. CASE Connect
  <2>1. UNCHANGED <<kept, moves, boots, tables>> /\ pc = "connect"
    BY <1>4 DEF Connect
  <2>2. PlanInv'
    BY NextAtomic DEF SafeInv, AtomicInv
  <2>3. pc' \in {"reconcile", "open", "backup", "chain", "up"}
    BY <1>4 DEF Connect, Settled, BackupOrChain
  <2>4. pc' = "chain" => Current = 0
    BY <1>4 DEF Connect, Settled, BackupOrChain
  <2>5. pc' = "chain" => tables = 0
    BY <1>4, <2>1, <2>2, <2>4 DEF PlanInv, Connect, Current
  <2> QED BY <2>1, <2>3, <2>5 DEF BackupInv, LastMoveIsReversible
<1>5. CASE Reconcile
  BY <1>5 DEF Reconcile, Settled, BackupInv, LastMoveIsReversible
<1>6. CASE TakeBackup
  <2>1. CASE kept' = kept
    BY <1>6, <2>1 DEF TakeBackup, Failed, BackupInv, LastMoveIsReversible
  <2>2. CASE kept' = kept \cup {[ver |-> tables, id |-> boots]} /\ pc' = "chain"
    <3>1. UNCHANGED <<moves, boots, tables>> /\ pc = "backup" /\ boots \in Int
      BY <1>6 DEF TakeBackup, RunType
    <3> QED BY <2>2, <3>1 DEF BackupInv, LastMoveIsReversible
  <2> QED BY <1>6, <2>1, <2>2 DEF TakeBackup, Failed
<1>7. CASE Chain
  <2>1. CASE moves' = Append(moves, [id |-> boots, from |-> tables, to |-> code]) /\ pc' = "close"
    <3> DEFINE m == [id |-> boots, from |-> tables, to |-> code]
    <3>1. moves \in Seq(Move) /\ m \in Move
      BY <1>7 DEF Chain, DataType, RunType, Move, Version
    <3>2. moves' # <<>> /\ Last(moves') = m
      BY <2>1, <3>1 DEF Last
    <3>3. UNCHANGED <<kept, boots>> /\ pc = "chain"
      BY <1>7 DEF Chain
    <3> QED BY <2>1, <3>2, <3>3 DEF BackupInv, LastMoveIsReversible
  <2>2. CASE Failed /\ UNCHANGED <<tables, moves>>
    BY <1>7, <2>2 DEF Chain, Failed, BackupInv, LastMoveIsReversible
  <2> QED BY <1>7, <2>1, <2>2 DEF Chain
<1>8. CASE Close
  BY <1>8 DEF Close, Settled, BackupInv, LastMoveIsReversible
<1>9. CASE Mirror
  BY <1>9 DEF Mirror, BackupInv, LastMoveIsReversible
<1>10. CASE Prune
  <2>1. PICK gone \in SUBSET {b \in kept : ~ Spared(b)} : kept' = kept \ gone
    BY <1>10 DEF Prune
  <2>2. pc = "prune" /\ pc' = "up" /\ UNCHANGED <<moves, boots>>
    BY <1>10 DEF Prune, Settled
  <2>3. Last(moves).id = boots
    BY <2>2 DEF BackupInv
  <2>4. LastMoveIsReversible'
    <3> SUFFICES ASSUME moves # <<>>, Last(moves).from > 0
                 PROVE  [ver |-> Last(moves).from, id |-> Last(moves).id] \in kept'
      BY <2>2 DEF LastMoveIsReversible
    <3> DEFINE b == [ver |-> Last(moves).from, id |-> Last(moves).id]
    <3>1. b \in kept /\ b.id = boots
      BY <2>3 DEF BackupInv, LastMoveIsReversible
    <3>2. Spared(b)
      BY <3>1, NewestSpared
    <3> QED BY <2>1, <3>1, <3>2
  <2> QED BY <2>1, <2>2, <2>4 DEF BackupInv
<1>11. CASE Crash
  BY <1>11 DEF Crash, Down, BackupInv, LastMoveIsReversible
<1>12. CASE AddProject
  BY <1>12 DEF AddProject, BackupInv, LastMoveIsReversible
<1>13. CASE LoseVersion
  BY <1>13 DEF LoseVersion, BackupInv, LastMoveIsReversible
<1>14. CASE UNCHANGED vars
  BY <1>14 DEF vars, disk, BackupInv, LastMoveIsReversible
<1> QED
  BY <1>1, <1>2, <1>3, <1>4, <1>5, <1>6, <1>7, <1>8, <1>9, <1>10, <1>11, <1>12, <1>13, <1>14
  DEF Next, Step

\* The backup that undoes the last chain outlives every crash and every pruning.
THEOREM WayBackStays == Spec => []LastMoveIsReversible
<1>1. Init => SafeInv
  BY InitAtomic, InitBackup DEF SafeInv
<1>2. SafeInv /\ [Next]_vars => SafeInv'
  BY NextAtomic, NextBackup DEF SafeInv
<1>3. SafeInv => LastMoveIsReversible
  BY DEF SafeInv, BackupInv
<1> QED BY <1>1, <1>2, <1>3, PTL DEF Spec
-----------------------------------------------------------------------------
(* The announcement of every chain.                                        *)

\* Step i to version v is announced by a line that ends in its newline: what is
\* written later cannot run into it.
Ann(i, v) ==
    \E k \in 1..Len(trail) : Announces(trail[k], i, v) /\ (k < Len(trail) \/ ~ cut)

\* A file that does not end in a newline ends in a line that can be made sense of,
\* as long as a start that could read it runs.
TailInv ==
    /\ cut => trail # <<>>
    /\ pc \in {"mark", "announce", "open", "backup", "chain", "close"} => read.ok
    /\ read.ok /\ pc \notin {"down", "up"} /\ cut => trail[Len(trail)].shape # "junk"

AnnInv ==
    /\ Readable => \A m \in ToSet(moves) : Ann(m.id, m.to)
    /\ Readable /\ started => Ann(boots, code)
    /\ pc = "down" => ~ started
    /\ pc \in {"backup", "chain"} => started

AnnouncedInv == AtomicInv /\ TailInv /\ AnnInv

\* A write never makes a trail readable that was not, nor loses an announcement.
LEMMA PutKeeps ==
    ASSUME trail \in Seq(Line), cut \in BOOLEAN, cut => trail # <<>>,
           cut => trail[Len(trail)].shape # "junk",
           NEW l \in Line, NEW e \in BOOLEAN, Put(l, e), Readable'
    PROVE  /\ Readable
           /\ \A i, v : Ann(i, v) => Ann(i, v)'
           /\ e => ~ cut /\ trail' = Append(trail, l)
<1> DEFINE n == Len(trail)
<1>0. n \in Nat /\ \A k \in 1..n : trail[k].shape \in {"whole", "torn", "junk"}
  <2>1. \A k \in 1..n : trail[k] \in Line
    OBVIOUS
  <2> QED BY <2>1 DEF Line
<1>r. \A k \in 1..Len(trail') :
         trail'[k].shape = "whole" \/ (trail'[k].shape = "torn" /\ k = Len(trail') /\ cut')
  BY DEF Readable, BadLines, Bad
<1>1. CASE ~ cut
  <2>1. trail' = Append(trail, l) /\ Len(trail') = n + 1
    BY <1>1 DEF Put
  <2>2. \A k \in 1..n : trail'[k] = trail[k] /\ k \in 1..Len(trail') /\ k < Len(trail')
    BY <2>1, <1>0
  <2>3. \A k \in 1..n : trail[k].shape = "whole"
    BY <2>2, <1>r
  <2>4. Readable
    BY <2>3 DEF Readable, BadLines, Bad
  <2>5. \A i, v : Ann(i, v) => Ann(i, v)'
    BY <2>2 DEF Ann, Announces
  <2> QED BY <1>1, <2>1, <2>4, <2>5
<1>2. CASE cut
  <2>1. n \in 1..n
    BY <1>2, <1>0
  <2>2. Len(trail') = n /\ \A k \in 1..n : k # n => trail'[k] = trail[k]
    BY <1>2 DEF Put
  <2>3. trail'[n] = IF e THEN Junk ELSE Torn(trail[n].id)
    BY <1>2, <2>1 DEF Put
  <2>4. ~ e
    BY <1>r, <2>1, <2>2, <2>3 DEF Junk
  <2>5. \A k \in 1..n : k # n => trail[k].shape = "whole"
    BY <1>r, <2>2
  <2>6. trail[n].shape \in {"whole", "torn"}
    BY <1>0, <1>2, <2>1
  <2>7. Readable
    BY <1>2, <2>5, <2>6 DEF Readable, BadLines, Bad
  <2>8. \A i, v : Ann(i, v) => Ann(i, v)'
    <3> SUFFICES ASSUME NEW i, NEW v, Ann(i, v) PROVE Ann(i, v)'
      OBVIOUS
    <3>1. PICK k \in 1..n : Announces(trail[k], i, v) /\ k < n
      BY <1>2 DEF Ann
    <3>2. trail'[k] = trail[k] /\ k < Len(trail') /\ k \in 1..Len(trail')
      BY <3>1, <2>2, <1>0
    <3> QED BY <3>1, <3>2 DEF Ann, Announces
  <2> QED BY <2>4, <2>7, <2>8
<1> QED BY <1>1, <1>2

\* What a write does to the announcements of a state that has them.
LEMMA AppendKeeps ==
    ASSUME trail \in Seq(Line), cut \in BOOLEAN, cut => trail # <<>>,
           cut => trail[Len(trail)].shape # "junk",
           NEW l \in Line, Appended(l) \/ Raised(l)
    PROVE  /\ Readable' => Readable
           /\ Readable' => \A i, v : Ann(i, v) => Ann(i, v)'
           /\ cut' => trail' # <<>> /\ trail'[Len(trail')].shape # "junk"
<1>1. CASE Put(l, TRUE)
  <2>1. ~ cut'
    BY <1>1 DEF Put
  <2> QED BY <1>1, <2>1, PutKeeps
<1>2. CASE UNCHANGED <<trail, cut>>
  BY <1>2 DEF Readable, BadLines, Bad, Ann
<1> QED BY <1>1, <1>2 DEF Appended, Raised

\* An announcement that was written is there.
LEMMA AnnounceStands ==
    ASSUME trail \in Seq(Line), cut \in BOOLEAN, cut => trail # <<>>,
           cut => trail[Len(trail)].shape # "junk",
           NEW i \in Entry, NEW v \in Version, Appended(Whole(i, "started", v)), Readable'
    PROVE  Ann(i, v)'
<1> DEFINE l == Whole(i, "started", v)
<1>1. l \in Line
  BY LineType DEF Status
<1>2. trail' = Append(trail, l) /\ ~ cut'
  BY <1>1, PutKeeps DEF Appended, Put
<1>3. Len(trail') \in 1..Len(trail') /\ trail'[Len(trail')] = l
  BY <1>1, <1>2
<1>4. Announces(l, i, v)
  BY DEF Announces, Whole
<1> QED BY <1>2, <1>3, <1>4 DEF Ann

\* Nothing changes for the announcements when the trail and the chains do not.
LEMMA SameAnn ==
    ASSUME AnnInv, UNCHANGED <<trail, cut, moves>>,
           started' => started /\ boots' = boots /\ code' = code,
           pc' = "down" => ~ started', pc' \in {"backup", "chain"} => started'
    PROVE  AnnInv'
BY DEF AnnInv, Ann, Readable, BadLines, Bad

\* Nor when a line is written but the announcements it meets are kept.
LEMMA WrittenAnn ==
    ASSUME AnnInv, UNCHANGED <<moves, boots, code>>,
           Readable' => Readable, Readable' => \A i, v : Ann(i, v) => Ann(i, v)',
           started' => started \/ (Readable' => Ann(boots, code)'),
           pc' = "down" => ~ started', pc' \in {"backup", "chain"} => started'
    PROVE  AnnInv'
<1>1. Readable' => \A m \in ToSet(moves') : Ann(m.id, m.to)'
  BY DEF AnnInv
<1>2. Readable' /\ started' => Ann(boots, code)'
  BY DEF AnnInv
<1> QED BY <1>1, <1>2 DEF AnnInv, Ann

LEMMA InitAnn == Init => TailInv /\ AnnInv
<1> SUFFICES ASSUME Init PROVE TailInv /\ AnnInv
  OBVIOUS
<1>1. cut = FALSE /\ pc = "down" /\ started = FALSE /\ moves = <<>>
  BY DEF Init
<1>2. ToSet(moves) = {}
  BY <1>1 DEF ToSet
<1> QED BY <1>1, <1>2 DEF TailInv, AnnInv

LEMMA NextAnn == AnnouncedInv /\ [Next]_vars => TailInv' /\ AnnInv'
<1> SUFFICES ASSUME AnnouncedInv, [Next]_vars PROVE TailInv' /\ AnnInv'
  OBVIOUS
<1>0. TypeInv /\ TrailType /\ DataType /\ RunType /\ ReadOK /\ TailInv /\ AnnInv
  BY DEF AnnouncedInv, AtomicInv, TypeInv
<1> USE <1>0
<1>1. ASSUME NEW c \in 1..MaxVersion, Boot(c) PROVE TailInv' /\ AnnInv'
  <2>1. UNCHANGED <<trail, cut, moves, started>> /\ pc = "down" /\ read' = Read
    BY <1>1 DEF Boot, disk
  <2>2. pc' \in {"mark", "announce", "connect"} /\ (pc' # "connect" => read'.ok)
    BY <1>1 DEF Boot, AfterTrail
  <2>3. read'.ok /\ cut' => trail'[Len(trail')].shape # "junk"
    <3> SUFFICES ASSUME Readable, cut PROVE trail[Len(trail)].shape # "junk"
      BY <2>1 DEF Read
    <3>1. Len(trail) \in 1..Len(trail)
      BY DEF TailInv, TrailType
    <3>2. ~ Bad(Len(trail))
      BY <3>1 DEF Readable, BadLines
    <3> QED BY <3>2 DEF Bad
  <2>4. TailInv'
    BY <2>1, <2>2, <2>3 DEF TailInv
  <2>5. AnnInv'
    BY <2>1, <2>2, SameAnn DEF AnnInv
  <2> QED BY <2>4, <2>5
<1>2. CASE Mark
  <2>1. Interruption \in Line /\ read.ok /\ pc = "mark"
    BY <1>2, InterruptionType DEF Mark, RunType, TailInv
  <2>2. /\ Readable' => Readable
        /\ Readable' => \A i, v : Ann(i, v) => Ann(i, v)'
        /\ cut' => trail' # <<>> /\ trail'[Len(trail')].shape # "junk"
    BY <1>2, <2>1, AppendKeeps DEF Mark, TailInv, TrailType
  <2>3. /\ UNCHANGED <<moves, boots, code, started, read>>
        /\ pc' \in {"mark", "announce", "connect"}
    BY <1>2 DEF Mark, AfterTrail
  <2>4. TailInv'
    BY <2>1, <2>2, <2>3 DEF TailInv
  <2>5. AnnInv'
    BY <2>2, <2>3, WrittenAnn
  <2> QED BY <2>4, <2>5
<1>3. CASE Announce
  <2> DEFINE l == Whole(boots, "started", code)
  <2>0. read.ok /\ pc \in {"announce", "open"} /\ boots \in Entry /\ code \in Version
    BY <1>3 DEF Announce, RunType, TailInv, Version
  <2>1. l \in Line /\ read.ok /\ pc \in {"announce", "open"} /\ boots \in Entry /\ code \in Version
    BY <2>0, LineType DEF Status
  <2>2. /\ Readable' => Readable
        /\ Readable' => \A i, v : Ann(i, v) => Ann(i, v)'
        /\ cut' => trail' # <<>> /\ trail'[Len(trail')].shape # "junk"
    BY <1>3, <2>1, AppendKeeps DEF Announce, TailInv, TrailType
  <2>3. /\ UNCHANGED <<moves, boots, code, read>>
        /\ pc' \in {"connect", "backup", "chain", "up"}
        /\ pc' # "up" => started'
    BY <1>3, <2>1 DEF Announce, GivenUp, Settled, BackupOrChain
  <2>4. TailInv'
    BY <2>1, <2>2, <2>3 DEF TailInv
  <2>5. started' => started \/ (Readable' => Ann(boots, code)')
    <3>1. CASE Appended(l)
      <4>1. cut => trail # <<>> /\ trail[Len(trail)].shape # "junk"
        BY <2>0 DEF TailInv
      <4>2. Readable' => Ann(boots, code)'
        <5> SUFFICES ASSUME Readable' PROVE Ann(boots, code)'
          OBVIOUS
        <5>1. \E k \in 1..Len(trail') :
                 Announces(trail'[k], boots, code) /\ (k < Len(trail') \/ ~ cut')
          BY <2>0, <3>1, <4>1, AnnounceStands DEF TrailType, Ann, Announces
        <5>2. boots' = boots /\ code' = code
          BY <2>3
        <5> QED BY <5>1, <5>2 DEF Ann, Announces
      <4> QED BY <4>2
    <3>2. CASE UNCHANGED started
      BY <3>2
    <3> QED BY <1>3, <3>1, <3>2 DEF Announce, GivenUp
  <2>6. AnnInv'
    BY <2>2, <2>3, <2>5, WrittenAnn
  <2> QED BY <2>4, <2>6
<1>4. CASE Connect
  <2>1. UNCHANGED <<trail, cut, moves, started, boots, code, read>> /\ pc = "connect"
    BY <1>4 DEF Connect
  <2>2. pc' \in {"reconcile", "open", "backup", "chain", "up"} /\ (pc' # "up" => read.ok)
    BY <1>4 DEF Connect, Settled, BackupOrChain
  <2>3. pc' \in {"backup", "chain"} => started
    BY <1>4 DEF Connect, Settled, BackupOrChain
  <2>4. TailInv'
    BY <2>1, <2>2 DEF TailInv
  <2> QED BY <2>1, <2>2, <2>3, <2>4, SameAnn
<1>5. CASE Reconcile
  BY <1>5, SameAnn DEF Reconcile, Settled, TailInv
<1>6. CASE TakeBackup
  <2>1. UNCHANGED <<trail, cut, moves, started, boots, code, read>>
    BY <1>6 DEF TakeBackup
  <2>2. pc = "backup" /\ pc' \in {"chain", "close"}
    BY <1>6 DEF TakeBackup, Failed
  <2> QED BY <2>1, <2>2, SameAnn DEF TailInv, AnnInv
<1>7. CASE Chain
  <2>1. UNCHANGED <<trail, cut, started, boots, code, read>> /\ pc = "chain" /\ pc' = "close"
    BY <1>7 DEF Chain, Failed
  <2>2. TailInv'
    BY <2>1 DEF TailInv
  <2>3. CASE UNCHANGED moves
    BY <2>1, <2>2, <2>3, SameAnn
  <2>4. CASE moves' = Append(moves, [id |-> boots, from |-> tables, to |-> code])
    <3> DEFINE m == [id |-> boots, from |-> tables, to |-> code]
    <3>1. moves \in Seq(Move) /\ m \in Move
      BY <2>1 DEF DataType, RunType, Move, Version
    <3>2. ToSet(moves') = ToSet(moves) \cup {m}
      BY <2>4, <3>1 DEF ToSet
    <3>3. Readable' = Readable /\ \A i, v : Ann(i, v)' = Ann(i, v)
      BY <2>1 DEF Readable, BadLines, Bad, Ann
    <3>4. Readable => Ann(boots, code)
      BY <2>1 DEF AnnInv
    <3>5. Readable => \A k \in ToSet(moves') : Ann(k.id, k.to)
      BY <3>2, <3>4 DEF AnnInv
    <3>6. Readable' => \A k \in ToSet(moves') : Ann(k.id, k.to)'
      BY <3>3, <3>5
    <3>7. Readable' /\ started' => Ann(boots, code)'
      BY <2>1, <3>3, <3>4
    <3> QED BY <2>1, <2>2, <3>6, <3>7 DEF AnnInv, Ann
  <2> QED BY <1>7, <2>3, <2>4 DEF Chain
<1>8. CASE Close
  <2>1. Whole(boots, outcome, code) \in Line /\ read.ok /\ pc = "close"
    BY <1>8, LineType DEF Close, RunType, TailInv, Version, Status
  <2>2. /\ Readable' => Readable
        /\ Readable' => \A i, v : Ann(i, v) => Ann(i, v)'
        /\ cut' => trail' # <<>> /\ trail'[Len(trail')].shape # "junk"
    BY <1>8, <2>1, AppendKeeps DEF Close, TailInv, TrailType
  <2>3. UNCHANGED <<moves, boots, code, started, read>> /\ pc' \in {"mirror", "up"}
    BY <1>8 DEF Close, Settled
  <2>4. TailInv'
    BY <2>1, <2>2, <2>3 DEF TailInv
  <2> QED BY <2>2, <2>3, <2>4, WrittenAnn
<1>9. CASE Mirror
  BY <1>9, SameAnn DEF Mirror, TailInv
<1>10. CASE Prune
  BY <1>10, SameAnn DEF Prune, Settled, TailInv
<1>11. CASE Crash
  <2>1. pc' = "down" /\ ~ started' /\ UNCHANGED <<moves, boots, code>>
    BY <1>11 DEF Crash, Down
  <2>2. CASE UNCHANGED <<trail, cut>>
    BY <2>1, <2>2, SameAnn DEF TailInv
  <2>3. ASSUME pc \in {"mark", "announce", "open", "close"},
               NEW l \in {Writing, Torn(Writing.id), Junk}, Put(l, FALSE)
        PROVE  TailInv' /\ AnnInv'
    <3>1. Writing \in Line
      BY <2>3, WritingType
    <3>2. l \in Line
      BY <3>1, LineType, BoundsAssumption DEF Line, Status, Version
    <3>3. cut => trail # <<>> /\ trail[Len(trail)].shape # "junk"
      BY <2>3 DEF TailInv
    <3>4. Readable' => Readable /\ \A i, v : Ann(i, v) => Ann(i, v)'
      BY <2>3, <3>2, <3>3, PutKeeps DEF TrailType
    <3>5. AnnInv'
      BY <2>1, <3>4, WrittenAnn
    <3>6. trail' # <<>>
      <4>1. CASE ~ cut
        BY <2>3, <3>2, <4>1 DEF Put, TrailType
      <4>2. CASE cut
        <5>1. trail \in Seq(Line) /\ Len(trail) # 0
          BY <4>2, <3>3 DEF TrailType
        <5>2. DOMAIN trail' = DOMAIN trail
          BY <2>3, <4>2 DEF Put
        <5>3. 1 \in DOMAIN trail'
          BY <5>1, <5>2
        <5> QED BY <5>3
      <4> QED BY <4>1, <4>2
    <3> QED BY <2>1, <3>5, <3>6 DEF TailInv
  <2> QED BY <1>11, <2>2, <2>3 DEF Crash
<1>12. CASE AddProject
  BY <1>12, SameAnn DEF AddProject, TailInv, AnnInv
<1>13. CASE LoseVersion
  BY <1>13, SameAnn DEF LoseVersion, TailInv, AnnInv
<1>14. CASE UNCHANGED vars
  BY <1>14, SameAnn DEF vars, disk, TailInv, AnnInv
<1> QED
  BY <1>1, <1>2, <1>3, <1>4, <1>5, <1>6, <1>7, <1>8, <1>9, <1>10, <1>11, <1>12, <1>13, <1>14
  DEF Next, Step

\* No chain is committed that a readable trail does not announce, through failed
\* appends and lines cut off anywhere.
THEOREM MovesAreAnnounced == Spec => []EveryMoveIsAnnounced
<1>1. Init => AnnouncedInv
  BY InitAtomic, InitAnn DEF AnnouncedInv
<1>2. AnnouncedInv /\ [Next]_vars => AnnouncedInv'
  BY NextAtomic, NextAnn DEF AnnouncedInv
<1>3. AnnouncedInv => EveryMoveIsAnnounced
  <2> SUFFICES ASSUME AnnouncedInv, Readable, NEW m \in ToSet(moves)
               PROVE  \E l \in ToSet(trail) : Announces(l, m.id, m.to)
    BY DEF EveryMoveIsAnnounced
  <2>1. PICK k \in 1..Len(trail) : Announces(trail[k], m.id, m.to)
    BY DEF AnnouncedInv, AnnInv, Ann
  <2>2. trail[k] \in ToSet(trail)
    BY DEF ToSet, AnnouncedInv, AtomicInv, TypeInv, TrailType
  <2> QED BY <2>1, <2>2
<1> QED BY <1>1, <1>2, <1>3, PTL DEF Spec
-----------------------------------------------------------------------------
(* What a write leaves of the lines.                                       *)

\* Every line after a write of l is an earlier one, l, or what is left of the last
\* one when l runs into it.
Lines(l) ==
    \A k \in 1..Len(trail') :
        \/ k <= Len(trail) /\ trail'[k] = trail[k]
        \/ trail'[k] = l
        \/ trail'[k] = Junk
        \/ k <= Len(trail) /\ trail'[k] = Torn(trail[k].id)

\* A trail that can still be read was read before; each line is where it was, the
\* last one perhaps torn, and what is new is l.
Kept(l) ==
    /\ Readable /\ Len(trail) <= Len(trail')
    /\ \A k \in 1..Len(trail) :
          /\ trail'[k].id = trail[k].id
          /\ trail'[k] = trail[k] \/ (k = Len(trail) /\ trail'[k] = Torn(trail[k].id))
    /\ \A k \in 1..Len(trail') : k <= Len(trail) \/ trail'[k] = l
    /\ Len(trail) < Len(trail') => \A k \in 1..Len(trail) : trail'[k] = trail[k]

LEMMA PutLines ==
    ASSUME trail \in Seq(Line), cut \in BOOLEAN, cut => trail # <<>>,
           cut => trail[Len(trail)].shape # "junk",
           NEW l \in Line, NEW e \in BOOLEAN, Put(l, e)
    PROVE  /\ Lines(l)
           /\ Readable' => Kept(l)
           /\ Readable' /\ e => \A k \in 1..Len(trail) : trail'[k] = trail[k]
<1> DEFINE n == Len(trail)
<1>0. n \in Nat /\ \A k \in 1..n : trail[k] \in Line
  OBVIOUS
<1>1. CASE ~ cut
  <2>1. trail' = Append(trail, l) /\ Len(trail') = n + 1
    BY <1>1 DEF Put
  <2>2. \A k \in 1..n : trail'[k] = trail[k] /\ k <= n
    BY <2>1, <1>0
  <2>3. trail'[n + 1] = l
    BY <2>1, <1>0
  <2>4. \A k \in 1..Len(trail') : k \in 1..n \/ k = n + 1
    BY <2>1, <1>0
  <2>5. Lines(l)
    BY <2>2, <2>3, <2>4 DEF Lines
  <2>6. Readable' => Readable
    BY PutKeeps
  <2>7. Readable' => Kept(l)
    <3>1. n <= Len(trail')
      BY <2>1, <1>0
    <3>2. \A k \in 1..Len(trail') : k <= n \/ trail'[k] = l
      BY <2>2, <2>3, <2>4
    <3> QED BY <2>2, <2>6, <3>1, <3>2 DEF Kept
  <2> QED BY <2>2, <2>5, <2>7
<1>2. CASE cut
  <2>1. n \in 1..n /\ trail[n].shape # "junk"
    BY <1>2, <1>0
  <2>2. Len(trail') = n /\ \A k \in 1..n : k # n => trail'[k] = trail[k]
    BY <1>2 DEF Put
  <2>3. trail'[n] = IF e THEN Junk ELSE Torn(trail[n].id)
    BY <1>2, <2>1 DEF Put
  <2>4. Lines(l)
    <3> SUFFICES ASSUME NEW k \in 1..Len(trail')
                 PROVE  \/ k <= n /\ trail'[k] = trail[k]
                        \/ trail'[k] = Junk
                        \/ k <= n /\ trail'[k] = Torn(trail[k].id)
      BY DEF Lines
    <3>1. k \in 1..n /\ k <= n
      BY <2>2, <1>0
    <3> QED BY <2>2, <2>3, <3>1
  <2>5. Readable' => Readable /\ ~ e
    BY PutKeeps, <1>2
  <2>6. Readable' => Kept(l)
    <3> SUFFICES ASSUME Readable' PROVE Kept(l)
      OBVIOUS
    <3>1. trail'[n] = Torn(trail[n].id)
      BY <2>3, <2>5
    <3>2. Torn(trail[n].id).id = trail[n].id
      BY DEF Torn
    <3>3. \A k \in 1..n : /\ trail'[k].id = trail[k].id
                          /\ trail'[k] = trail[k] \/ (k = n /\ trail'[k] = Torn(trail[k].id))
      BY <2>2, <3>1, <3>2
    <3>4. n <= Len(trail') /\ ~ (n < Len(trail')) /\ \A k \in 1..Len(trail') : k <= n
      BY <2>2, <1>0
    <3> QED BY <2>5, <3>3, <3>4 DEF Kept
  <2> QED BY <2>4, <2>5, <2>6
<1> QED BY <1>1, <1>2

\* A trail that is left alone is a write of anything.
LEMMA NoWrite ==
    ASSUME trail \in Seq(Line), UNCHANGED <<trail, cut>>, NEW l
    PROVE  Lines(l) /\ (Readable' => Kept(l)) /\ \A k \in 1..Len(trail) : trail'[k] = trail[k]
<1>1. Len(trail') = Len(trail) /\ Len(trail) \in Nat /\ \A k \in 1..Len(trail) : trail'[k] = trail[k]
  OBVIOUS
<1>2. Readable' => Readable
  BY DEF Readable, BadLines, Bad
<1> QED BY <1>1, <1>2 DEF Lines, Kept

\* An append, raised or not.
LEMMA AppendLines ==
    ASSUME trail \in Seq(Line), cut \in BOOLEAN, cut => trail # <<>>,
           cut => trail[Len(trail)].shape # "junk",
           NEW l \in Line, Appended(l) \/ Raised(l)
    PROVE  /\ Lines(l)
           /\ Readable' => Kept(l) /\ \A k \in 1..Len(trail) : trail'[k] = trail[k]
<1>1. CASE Put(l, TRUE)
  BY <1>1, PutLines
<1>2. CASE UNCHANGED <<trail, cut>>
  BY <1>2, NoWrite
<1> QED BY <1>1, <1>2 DEF Appended, Raised

\* What a stopped start leaves.
LEMMA CrashLines ==
    ASSUME TypeInv, TailInv, Crash
    PROVE  \/ UNCHANGED <<trail, cut>>
           \/ /\ pc \in {"mark", "announce", "open", "close"} /\ Writing \in Line
              /\ \E l \in {Writing, Torn(Writing.id), Junk} : Lines(l) /\ (Readable' => Kept(l))
<1>1. CASE UNCHANGED <<trail, cut>>
  BY <1>1
<1>2. ASSUME pc \in {"mark", "announce", "open", "close"},
             NEW l \in {Writing, Torn(Writing.id), Junk}, Put(l, FALSE)
      PROVE  Writing \in Line /\ Lines(l) /\ (Readable' => Kept(l))
  <2>1. Writing \in Line
    BY <1>2, WritingType
  <2>2. l \in Line
    BY <2>1, LineType, BoundsAssumption DEF Line, Status, Version
  <2>3. cut => trail # <<>> /\ trail[Len(trail)].shape # "junk"
    BY <1>2 DEF TailInv
  <2> QED BY <1>2, <2>1, <2>2, <2>3, PutLines DEF TypeInv, TrailType
<1> QED BY <1>1, <1>2 DEF Crash
-----------------------------------------------------------------------------
(* Which start wrote a line.                                               *)

\* A start that has not closed its step.
Unsettled == {"mark", "announce", "connect", "open", "reconcile", "backup", "chain", "close"}

\* No line is of a later start, none closes the step of a start before that start
\* does, and a start writes of one version only.
IdsInv ==
    /\ \A k \in 1..Len(trail) : trail[k].id <= boots
    /\ pc \in Unsettled =>
          \A k \in 1..Len(trail) :
              trail[k].shape = "whole" /\ trail[k].st \in Closing => trail[k].id < boots
    /\ pc # "down" => \A k \in DOMAIN read.lines : read.lines[k].id < boots
    /\ pc # "down" =>
          \A k \in 1..Len(trail) : trail[k].shape = "whole" /\ trail[k].id = boots => trail[k].to = code
    /\ \A k \in 1..Len(trail) : trail[k].shape = "torn" => trail[k].to = 0

LEMMA SameIds ==
    ASSUME IdsInv, UNCHANGED <<trail, boots, code>>, pc' # "down" => pc # "down" /\ read' = read,
           pc' \in Unsettled => pc \in Unsettled
    PROVE  IdsInv'
BY DEF IdsInv

\* A write of the running start.
LEMMA WriteIds ==
    ASSUME TypeInv, IdsInv, pc # "down", UNCHANGED <<boots, code>>,
           pc' # "down" => read' = read,
           pc' \in Unsettled => pc \in Unsettled,
           NEW l \in Line, Lines(l), l.id <= boots,
           l.shape = "torn" => l.to = 0,
           l.shape = "whole" /\ l.id = boots => l.to = code,
           pc' \in Unsettled /\ l.shape = "whole" /\ l.st \in Closing => l.id < boots
    PROVE  IdsInv'
<1>0. boots \in Nat /\ boots > 0 /\ \A k \in 1..Len(trail) : trail[k] \in Line
  BY DEF TypeInv, RunType, TrailType, Entry
<1>1. Junk.id = 0 /\ Junk.shape = "junk"
  BY DEF Junk
<1>2. \A i : Torn(i).id = i /\ Torn(i).shape = "torn" /\ Torn(i).to = 0
  BY DEF Torn
<1>3. ASSUME NEW k \in 1..Len(trail')
      PROVE  /\ trail'[k].id <= boots
             /\ trail'[k].shape = "torn" => trail'[k].to = 0
             /\ trail'[k].shape = "whole" =>
                   trail'[k] = l \/ (k \in 1..Len(trail) /\ trail'[k] = trail[k])
  <2>1. CASE k <= Len(trail) /\ trail'[k] = trail[k]
    <3>1. k \in 1..Len(trail)
      BY <2>1 DEF TypeInv, TrailType
    <3> QED BY <2>1, <3>1 DEF IdsInv
  <2>2. CASE trail'[k] = l
    BY <2>2
  <2>3. CASE trail'[k] = Junk
    BY <2>3, <1>0, <1>1
  <2>4. CASE k <= Len(trail) /\ trail'[k] = Torn(trail[k].id)
    <3>1. k \in 1..Len(trail)
      BY <2>4 DEF TypeInv, TrailType
    <3>2. trail[k].id <= boots
      BY <3>1 DEF IdsInv
    <3> QED BY <2>4, <3>2, <1>2
  <2> QED BY <2>1, <2>2, <2>3, <2>4 DEF Lines
<1>4. pc' \in Unsettled =>
         \A k \in 1..Len(trail') :
             trail'[k].shape = "whole" /\ trail'[k].st \in Closing => trail'[k].id < boots
  BY <1>3 DEF IdsInv
<1>5. \A k \in 1..Len(trail') :
          trail'[k].shape = "whole" /\ trail'[k].id = boots => trail'[k].to = code
  BY <1>3 DEF IdsInv
<1> QED BY <1>3, <1>4, <1>5 DEF IdsInv

LEMMA InitIds == Init => IdsInv
<1> SUFFICES ASSUME Init PROVE IdsInv
  OBVIOUS
<1>1. trail = <<>> /\ pc = "down"
  BY DEF Init
<1>2. 1..Len(trail) = {}
  BY <1>1
<1> QED BY <1>1, <1>2 DEF IdsInv, Unsettled

LEMMA NextIds == AnnouncedInv /\ IdsInv /\ [Next]_vars => IdsInv'
<1> SUFFICES ASSUME AnnouncedInv, IdsInv, [Next]_vars PROVE IdsInv'
  OBVIOUS
<1>0. TypeInv /\ TrailType /\ DataType /\ RunType /\ ReadOK /\ TailInv /\ AnnInv
  BY DEF AnnouncedInv, AtomicInv, TypeInv
<1> USE <1>0
<1>a. boots \in Nat /\ \A k \in 1..Len(trail) : trail[k] \in Line /\ trail[k].id \in Nat
  <2>1. \A k \in 1..Len(trail) : trail[k] \in Line
    BY DEF TrailType
  <2> QED BY <2>1, BoundsAssumption DEF RunType, Line, Entry
<1>b. pc \in {"mark", "announce", "open", "close"} =>
         (cut => trail # <<>> /\ trail[Len(trail)].shape # "junk")
  BY DEF TailInv
<1>1. ASSUME NEW c \in 1..MaxVersion, Boot(c) PROVE IdsInv'
  <2>1. UNCHANGED trail /\ boots' = boots + 1 /\ read' = Read
    BY <1>1 DEF Boot, disk
  <2>2. \A k \in 1..Len(trail) : trail[k].id < boots' /\ trail[k].id # boots' /\ trail[k].id <= boots'
    BY <1>a, <2>1 DEF IdsInv
  <2>3. \A k \in DOMAIN read'.lines : k \in 1..Len(trail) /\ read'.lines[k] = trail[k]
    BY <2>1 DEF Read, Good
  <2> QED BY <2>1, <2>2, <2>3 DEF IdsInv
<1>2. CASE Mark
  <2> DEFINE l == Interruption
  <2>1. Min(todo) \in todo /\ todo \subseteq DOMAIN read.lines /\ l \in Line
    BY <1>2, InterruptionType DEF Mark, RunType, ReadOK
  <2>2. l.id < boots /\ l.shape = "whole"
    BY <1>2, <2>1 DEF Interruption, Whole, IdsInv, Mark
  <2>3. Lines(l)
    BY <1>2, <1>b, <2>1, AppendLines DEF Mark, TrailType
  <2>4. /\ UNCHANGED <<boots, code, read>> /\ pc = "mark"
    BY <1>2 DEF Mark
  <2>5. l.id \in Nat
    BY <2>1, BoundsAssumption DEF Line, Entry
  <2>6. l.id <= boots /\ l.id # boots
    BY <1>a, <2>2, <2>5
  <2> HIDE DEF l
  <2> QED BY <2>1, <2>2, <2>3, <2>4, <2>6, WriteIds DEF Unsettled
<1>3. CASE Announce
  <2> DEFINE l == Whole(boots, "started", code)
  <2>1. l \in Line /\ l.id = boots /\ l.shape = "whole" /\ l.to = code /\ l.st = "started"
    BY <1>3, LineType, BoundsAssumption DEF Announce, RunType, Version, Status, Whole
  <2>2. UNCHANGED <<boots, code, read>> /\ pc \in {"announce", "open"}
    BY <1>3 DEF Announce
  <2>3. Appended(l) \/ Raised(l)
    BY <1>3 DEF Announce
  <2> HIDE DEF l
  <2>4. Lines(l)
    BY <2>1, <2>2, <2>3, <1>b, AppendLines DEF TrailType
  <2>5. l.id <= boots
    BY <2>1, <1>a
  <2> QED BY <2>1, <2>2, <2>4, <2>5, WriteIds DEF Unsettled, Closing
<1>4. CASE Connect
  BY <1>4, SameIds DEF Connect, Unsettled
<1>5. CASE Reconcile
  BY <1>5, SameIds DEF Reconcile, Unsettled
<1>6. CASE TakeBackup
  BY <1>6, SameIds DEF TakeBackup, Unsettled
<1>7. CASE Chain
  BY <1>7, SameIds DEF Chain, Unsettled
<1>8. CASE Close
  <2> DEFINE l == Whole(boots, outcome, code)
  <2>1. l \in Line /\ l.id = boots /\ l.shape = "whole" /\ l.to = code
    BY <1>8, LineType, BoundsAssumption DEF Close, RunType, Version, Whole
  <2>2. UNCHANGED <<boots, code, read>> /\ pc = "close" /\ pc' \in {"mirror", "up"}
    BY <1>8 DEF Close, Settled
  <2>3. Appended(l) \/ Raised(l)
    BY <1>8 DEF Close
  <2> HIDE DEF l
  <2>4. Lines(l)
    BY <2>1, <2>2, <2>3, <1>b, AppendLines DEF TrailType
  <2>5. l.id <= boots
    BY <2>1, <1>a
  <2> QED BY <2>1, <2>2, <2>4, <2>5, WriteIds DEF Unsettled
<1>9. CASE Mirror
  BY <1>9, SameIds DEF Mirror, Unsettled
<1>10. CASE Prune
  BY <1>10, SameIds DEF Prune, Settled, Unsettled
<1>11. CASE Crash
  <2>1. UNCHANGED <<boots, code>> /\ pc' = "down" /\ pc # "down"
    BY <1>11 DEF Crash, Down
  <2>2. CASE UNCHANGED <<trail, cut>>
    BY <2>1, <2>2, SameIds DEF Unsettled
  <2>3. ASSUME pc \in {"mark", "announce", "open", "close"}, Writing \in Line,
               NEW l \in {Writing, Torn(Writing.id), Junk}, Lines(l)
        PROVE  IdsInv'
    <3>1. Writing.id <= boots /\ Writing.shape = "whole"
      <4>1. CASE pc = "mark"
        <5>1. Min(todo) \in todo /\ todo \subseteq DOMAIN read.lines
          BY <4>1, InterruptionType DEF RunType, ReadOK
        <5>2. Writing.id < boots /\ Writing.shape = "whole"
          BY <4>1, <5>1 DEF Writing, Interruption, Whole, IdsInv
        <5>3. Writing.id \in Nat
          BY <2>3, BoundsAssumption DEF Line, Entry
        <5> QED BY <5>2, <5>3, <1>a
      <4>2. CASE pc # "mark"
        BY <4>2, <2>3, <1>a DEF Writing, Whole
      <4> QED BY <4>1, <4>2
    <3>2. l \in Line
      BY <2>3, LineType, BoundsAssumption DEF Line, Status, Version
    <3>3. l.id <= boots /\ (l.shape = "torn" => l.to = 0)
      BY <2>3, <3>1, <1>a DEF Torn, Junk
    <3>4. l.shape = "whole" /\ l.id = boots => l.to = code
      <4> SUFFICES ASSUME l.shape = "whole", l.id = boots PROVE l.to = code
        OBVIOUS
      <4>1. l = Writing
        BY <2>3 DEF Torn, Junk
      <4>2. CASE pc = "mark"
        <5>1. Min(todo) \in todo /\ todo \subseteq DOMAIN read.lines
          BY <4>2, InterruptionType DEF RunType, ReadOK
        <5>2. Writing.id < boots
          BY <4>2, <5>1 DEF Writing, Interruption, Whole, IdsInv
        <5> QED BY <4>1, <5>2, <1>a
      <4>3. CASE pc # "mark"
        BY <4>1, <4>3, <2>3 DEF Writing, Whole
      <4> QED BY <4>2, <4>3
    <3> QED BY <2>1, <2>3, <3>2, <3>3, <3>4, WriteIds DEF Unsettled
  <2> QED BY <1>11, <2>2, <2>3, CrashLines
<1>12. CASE AddProject
  BY <1>12, SameIds DEF AddProject, Unsettled
<1>13. CASE LoseVersion
  BY <1>13, SameIds DEF LoseVersion, Unsettled
<1>14. CASE UNCHANGED vars
  BY <1>14, SameIds DEF vars, disk
<1> QED
  BY <1>1, <1>2, <1>3, <1>4, <1>5, <1>6, <1>7, <1>8, <1>9, <1>10, <1>11, <1>12, <1>13, <1>14
  DEF Next, Step
-----------------------------------------------------------------------------
(* What a step writes.                                                     *)

\* The line a step may write: a piece of one, or what its place in the start calls for.
Said(l) ==
    \/ l.shape # "whole" /\ l.st = "started"
    \/ pc = "mark" /\ l = Interruption
    \/ pc \in {"announce", "open"} /\ l = Whole(boots, "started", code)
    \/ pc = "close" /\ l = Whole(boots, outcome, code)

\* Every step writes one line at most, behind the others.
LEMMA StepLines ==
    ASSUME AnnouncedInv, [Next]_vars
    PROVE  \E l : /\ Said(l) /\ Lines(l)
                  /\ Readable' => Kept(l)
                  /\ Readable' /\ pc' # "down" => \A k \in 1..Len(trail) : trail'[k] = trail[k]
<1>0. TypeInv /\ TrailType /\ RunType /\ ReadOK /\ TailInv
  BY DEF AnnouncedInv, AtomicInv, TypeInv
<1>a. pc \in {"mark", "announce", "open", "close"} =>
         (cut => trail # <<>> /\ trail[Len(trail)].shape # "junk")
  BY <1>0 DEF TailInv
<1>b. Said(Junk)
  BY DEF Said, Junk
<1>1. CASE UNCHANGED <<trail, cut>>
  BY <1>0, <1>1, <1>b, NoWrite DEF TrailType
<1>2. CASE Mark
  <2>1. Interruption \in Line /\ pc = "mark" /\ (Appended(Interruption) \/ Raised(Interruption))
    BY <1>0, <1>2, InterruptionType DEF Mark, RunType
  <2>2. Said(Interruption)
    BY <2>1 DEF Said
  <2> QED BY <1>0, <1>a, <2>1, <2>2, AppendLines DEF TrailType
<1>3. CASE Announce
  <2> DEFINE l == Whole(boots, "started", code)
  <2>1. l \in Line
    <3>1. boots \in Entry /\ code \in Version
      BY <1>0, <1>3 DEF Announce, RunType, Version
    <3> QED BY <3>1, LineType DEF Status
  <2>2. pc \in {"announce", "open"} /\ (Appended(l) \/ Raised(l))
    BY <1>3 DEF Announce
  <2>3. Said(l)
    BY <2>2 DEF Said
  <2> HIDE DEF l
  <2> QED BY <1>0, <1>a, <2>1, <2>2, <2>3, AppendLines DEF TrailType
<1>4. CASE Close
  <2> DEFINE l == Whole(boots, outcome, code)
  <2>1. l \in Line
    <3>1. boots \in Entry /\ code \in Version /\ outcome \in Status
      BY <1>0, <1>4 DEF Close, RunType, Version
    <3> QED BY <3>1, LineType
  <2>2. pc = "close" /\ (Appended(l) \/ Raised(l))
    BY <1>4 DEF Close
  <2>3. Said(l)
    BY <2>2 DEF Said
  <2> HIDE DEF l
  <2> QED BY <1>0, <1>a, <2>1, <2>2, <2>3, AppendLines DEF TrailType
<1>5. CASE Crash
  <2>1. CASE UNCHANGED <<trail, cut>>
    BY <1>1, <2>1
  <2>2. ASSUME pc \in {"mark", "announce", "open", "close"}, Writing \in Line,
               NEW l \in {Writing, Torn(Writing.id), Junk}, Lines(l), Readable' => Kept(l)
        PROVE  Said(l)
    <3>1. Said(Torn(Writing.id))
      BY DEF Said, Torn
    <3>2. Said(Writing)
      BY <2>2 DEF Said, Writing
    <3> QED BY <1>b, <2>2, <3>1, <3>2
  <2>3. pc' = "down"
    BY <1>5 DEF Crash, Down
  <2> QED BY <1>0, <1>5, <2>1, <2>2, <2>3, CrashLines
<1>6. \/ UNCHANGED <<trail, cut>> \/ Mark \/ Announce \/ Close \/ Crash
  BY DEF Next, Step, Boot, Connect, Reconcile, TakeBackup, Chain, Mirror, Prune, AddProject,
         LoseVersion, disk, vars
<1> QED BY <1>1, <1>2, <1>3, <1>4, <1>5, <1>6

\* A line after a step: an earlier one, or the new one, if it is whole.
LEMMA WholeLine ==
    ASSUME trail \in Seq(Line), NEW l, Lines(l), NEW k \in 1..Len(trail'), trail'[k].shape = "whole"
    PROVE  trail'[k] = l \/ (k \in 1..Len(trail) /\ trail'[k] = trail[k])
<1>1. Junk.shape # "whole" /\ \A i : Torn(i).shape # "whole"
  BY DEF Junk, Torn
<1>2. k <= Len(trail) => k \in 1..Len(trail)
  OBVIOUS
<1> QED BY <1>1, <1>2 DEF Lines

\* A line that does not say "started" is whole or new.
LEMMA ClosingLine ==
    ASSUME trail \in Seq(Line), NEW l, Lines(l), NEW k \in 1..Len(trail'), trail'[k].st # "started"
    PROVE  trail'[k] = l \/ (k \in 1..Len(trail) /\ trail'[k] = trail[k])
<1>1. Junk.st = "started" /\ \A i : Torn(i).st = "started"
  BY DEF Junk, Torn
<1>2. k <= Len(trail) => k \in 1..Len(trail)
  OBVIOUS
<1> QED BY <1>1, <1>2 DEF Lines

\* Which steps start, stop or go on with a start.
LEMMA StepKinds ==
    ASSUME [Next]_vars
    PROVE  \/ /\ boots' = boots + 1 /\ read' = Read /\ UNCHANGED <<trail, moves, tables, cut>>
              /\ pc = "down" /\ pc' \in {"mark", "announce", "connect"}
           \/ pc' = "down" /\ UNCHANGED <<boots, code, moves, tables>>
           \/ pc # "down" /\ pc' # "down" /\ UNCHANGED <<boots, code, read>>
<1>1. ASSUME NEW c \in 1..MaxVersion, Boot(c)
      PROVE  /\ boots' = boots + 1 /\ read' = Read /\ UNCHANGED <<trail, moves, tables, cut>>
             /\ pc = "down" /\ pc' \in {"mark", "announce", "connect"}
  BY <1>1 DEF Boot, AfterTrail, disk
<1>2. Step => pc # "down" /\ pc' # "down" /\ UNCHANGED <<boots, code, read>>
  <2>1. Mark \/ Announce \/ Connect \/ Reconcile =>
           pc # "down" /\ pc' # "down" /\ UNCHANGED <<boots, code, read>>
    BY DEF Mark, AfterTrail, Announce, GivenUp, Settled, BackupOrChain, Connect, Reconcile
  <2>2. TakeBackup \/ Chain \/ Close \/ Mirror \/ Prune =>
           pc # "down" /\ pc' # "down" /\ UNCHANGED <<boots, code, read>>
    BY DEF TakeBackup, Failed, Chain, Close, Settled, Mirror, Prune
  <2> QED BY <2>1, <2>2 DEF Step
<1>3. Crash \/ LoseVersion => pc' = "down" /\ UNCHANGED <<boots, code, moves, tables>>
  BY DEF Crash, Down, LoseVersion
<1>4. AddProject => pc # "down" /\ pc' # "down" /\ UNCHANGED <<boots, code, read>>
  BY DEF AddProject
<1>5. UNCHANGED vars => UNCHANGED <<pc, boots, code, moves, tables, read>>
  BY DEF vars, disk
<1> QED BY <1>1, <1>2, <1>3, <1>4, <1>5 DEF Next
-----------------------------------------------------------------------------
(* The trail tells the truth.                                              *)

Unmoved(i) == \A m \in ToSet(moves) : m.id # i

\* What the starts so far have committed, and the running one.
MoveInv ==
    /\ \A m \in ToSet(moves) : m.id <= boots /\ m.to <= tables
    /\ pc \in Unsettled \ {"close"} \/ (pc = "close" /\ outcome = "failed") =>
          \A m \in ToSet(moves) : m.id < boots
    /\ pc = "close" => outcome \in {"completed", "completed_after_interrupt", "failed"}
    /\ pc = "close" /\ outcome # "failed" => \E m \in ToSet(moves) : m.id = boots /\ m.to = code

\* A step is announced for the version it then moves to.
VersionLines ==
    \A m \in ToSet(moves), k \in 1..Len(trail) :
        trail[k].shape = "whole" /\ trail[k].st = "started" /\ trail[k].id = m.id => trail[k].to = m.to

\* What the running start has read is still there, and nothing has closed what it
\* read as unclosed but its own marks.
ReadInv ==
    /\ pc # "down" /\ Readable => \A k \in DOMAIN read.lines : trail[k] = read.lines[k]
    /\ pc \in Unsettled \ {"close"} /\ Readable =>
          \A k \in Unclosed(read.lines), n \in 1..Len(trail) :
              trail[n].id = read.lines[k].id => trail[n].st # "failed"

\* Line j announces an attempt at version v, before that of start i, that neither
\* committed nor failed.
Lost(j, i, v) ==
    /\ Announces(trail[j], trail[j].id, v) /\ trail[j].id < i
    /\ Unmoved(trail[j].id)
    /\ \A n \in 1..Len(trail) : trail[n].id = trail[j].id => trail[n].st # "failed"

\* The claims of the closing lines.
LinesInv ==
    \A k \in 1..Len(trail) : trail[k].shape = "whole" =>
        /\ trail[k].st \in {"completed", "completed_after_interrupt"} =>
              \E m \in ToSet(moves) : m.id = trail[k].id /\ m.to = trail[k].to
        /\ trail[k].st = "failed" => Unmoved(trail[k].id)
        /\ Readable /\ trail[k].st = "completed_after_interrupt" =>
              \E j \in 1..(k - 1) : Lost(j, trail[k].id, trail[k].to)

\* What the running start is about to claim.
ClaimInv ==
    pc = "close" /\ outcome = "completed_after_interrupt" /\ Readable =>
        \E j \in 1..Len(trail) : Lost(j, boots, code)

TruthInv == AnnouncedInv /\ IdsInv /\ MoveInv /\ VersionLines /\ ReadInv /\ LinesInv /\ ClaimInv

LEMMA InitTruth == Init => MoveInv /\ VersionLines /\ ReadInv /\ LinesInv /\ ClaimInv
<1> SUFFICES ASSUME Init PROVE MoveInv /\ VersionLines /\ ReadInv /\ LinesInv /\ ClaimInv
  OBVIOUS
<1>1. trail = <<>> /\ pc = "down" /\ moves = <<>>
  BY DEF Init
<1>2. 1..Len(trail) = {} /\ ToSet(moves) = {}
  BY <1>1 DEF ToSet
<1> QED
  BY <1>1, <1>2 DEF MoveInv, VersionLines, ReadInv, LinesInv, ClaimInv, Unsettled

LEMMA NextMove == TruthInv /\ [Next]_vars => MoveInv'
<1> SUFFICES ASSUME TruthInv, [Next]_vars PROVE MoveInv'
  OBVIOUS
<1>0. TypeInv /\ DataType /\ RunType /\ PlanInv /\ MoveInv
  BY DEF TruthInv, AnnouncedInv, AtomicInv, TypeInv
<1>a. boots \in Nat /\ tables \in Int /\ code \in Int /\ moves \in Seq(Move)
  BY <1>0, BoundsAssumption DEF RunType, DataType, Version
<1>b. \A m \in ToSet(moves) : m.id \in Int /\ m.to \in Int
  <2>1. \A m \in ToSet(moves) : m \in Move
    BY <1>a DEF ToSet
  <2> QED BY <2>1, BoundsAssumption DEF Move, Entry, Version
<1>1. ASSUME NEW c \in 1..MaxVersion, Boot(c) PROVE MoveInv'
  <2>1. UNCHANGED <<moves, tables>> /\ boots' = boots + 1 /\ pc' \in {"mark", "announce", "connect"}
    BY <1>1 DEF Boot, AfterTrail, disk
  <2>2. \A m \in ToSet(moves) : m.id <= boots' /\ m.id < boots'
    BY <2>1, <1>0, <1>a, <1>b DEF MoveInv
  <2> QED BY <1>0, <2>1, <2>2 DEF MoveInv
<1>2. CASE Mark
  BY <1>0, <1>2 DEF Mark, AfterTrail, MoveInv, Unsettled
<1>3. CASE Announce
  BY <1>0, <1>3 DEF Announce, GivenUp, Settled, BackupOrChain, MoveInv, Unsettled
<1>4. CASE Connect
  BY <1>0, <1>4 DEF Connect, Settled, BackupOrChain, MoveInv, Unsettled
<1>5. CASE Reconcile
  BY <1>0, <1>5 DEF Reconcile, Settled, MoveInv, Unsettled
<1>6. CASE TakeBackup
  BY <1>0, <1>6 DEF TakeBackup, Failed, MoveInv, Unsettled
<1>7. CASE Chain
  <2>0. pc = "chain" /\ UNCHANGED <<boots, code>> /\ pc' = "close" /\ tables < code
    BY <1>0, <1>7 DEF Chain, Failed, PlanInv
  <2>1. CASE Failed /\ UNCHANGED <<tables, meta, moves>>
    BY <1>0, <2>0, <2>1 DEF Failed, MoveInv, Unsettled
  <2>2. CASE /\ tables' = code /\ outcome' = IF Prior THEN "completed_after_interrupt" ELSE "completed"
             /\ moves' = Append(moves, [id |-> boots, from |-> tables, to |-> code])
    <3> DEFINE n == [id |-> boots, from |-> tables, to |-> code]
    <3>1. n \in Move
      BY <1>0, <2>0 DEF DataType, RunType, Move, Version
    <3>3. n.id = boots /\ n.to = code /\ moves' = Append(moves, n)
      BY <2>2
    <3> HIDE DEF n
    <3>2. ToSet(moves') = ToSet(moves) \cup {n}
      BY <1>a, <3>1, <3>3 DEF ToSet
    <3>4. \A m \in ToSet(moves) : m.id <= boots /\ m.to <= tables'
      BY <1>0, <1>a, <1>b, <2>0, <2>2 DEF MoveInv
    <3>5. \A m \in ToSet(moves') : m.id <= boots' /\ m.to <= tables'
      BY <1>a, <2>0, <2>2, <3>2, <3>3, <3>4
    <3>6. \E m \in ToSet(moves') : m.id = boots' /\ m.to = code'
      BY <2>0, <3>2, <3>3
    <3>7. outcome' \in {"completed", "completed_after_interrupt"}
      BY <2>2
    <3> QED BY <2>0, <3>5, <3>6, <3>7 DEF MoveInv, Unsettled
  <2> QED BY <1>7, <2>1, <2>2 DEF Chain
<1>8. CASE Close
  BY <1>0, <1>8 DEF Close, Settled, MoveInv, Unsettled
<1>9. CASE Mirror
  BY <1>0, <1>9 DEF Mirror, MoveInv, Unsettled
<1>10. CASE Prune
  BY <1>0, <1>10 DEF Prune, Settled, MoveInv, Unsettled
<1>11. CASE Crash
  BY <1>0, <1>11 DEF Crash, Down, MoveInv, Unsettled
<1>12. CASE AddProject
  BY <1>0, <1>12 DEF AddProject, MoveInv, Unsettled
<1>13. CASE LoseVersion
  BY <1>0, <1>13 DEF LoseVersion, MoveInv, Unsettled
<1>14. CASE UNCHANGED vars
  BY <1>0, <1>14 DEF vars, disk, MoveInv
<1> QED
  BY <1>1, <1>2, <1>3, <1>4, <1>5, <1>6, <1>7, <1>8, <1>9, <1>10, <1>11, <1>12, <1>13, <1>14
  DEF Next, Step

\* The only step that commits a chain writes no line.
LEMMA StepMoves ==
    ASSUME moves \in Seq(Move), TypeInv, [Next]_vars
    PROVE  \/ UNCHANGED moves
           \/ /\ pc = "chain" /\ pc' = "close" /\ UNCHANGED <<trail, cut, read, boots, code>>
              /\ ToSet(moves') = ToSet(moves) \cup {[id |-> boots, from |-> tables, to |-> code]}
<1>1. CASE Chain
  <2>1. pc = "chain" /\ pc' = "close" /\ UNCHANGED <<trail, cut, read, boots, code>>
    BY <1>1 DEF Chain, Failed
  <2>2. CASE UNCHANGED moves
    BY <2>2
  <2>3. CASE moves' = Append(moves, [id |-> boots, from |-> tables, to |-> code])
    <3>1. [id |-> boots, from |-> tables, to |-> code] \in Move
      BY <2>1 DEF TypeInv, DataType, RunType, Move, Version
    <3>2. ToSet(moves') = ToSet(moves) \cup {[id |-> boots, from |-> tables, to |-> code]}
      BY <2>3, <3>1 DEF ToSet
    <3> QED BY <2>1, <3>2
  <2> QED BY <1>1, <2>2, <2>3 DEF Chain
<1>2. ~ Chain => UNCHANGED moves
  BY DEF Next, Step, Boot, Mark, Announce, Connect, Reconcile, TakeBackup, Close, Mirror, Prune,
         Crash, AddProject, LoseVersion, vars, disk
<1> QED BY <1>1, <1>2

LEMMA NextVersion == TruthInv /\ [Next]_vars => VersionLines'
<1> SUFFICES ASSUME TruthInv, [Next]_vars PROVE VersionLines'
  OBVIOUS
<1>0. TypeInv /\ TrailType /\ DataType /\ RunType /\ IdsInv /\ MoveInv /\ VersionLines
  BY DEF TruthInv, AnnouncedInv, AtomicInv, TypeInv
<1>a. AnnouncedInv /\ boots \in Int /\ trail \in Seq(Line)
  BY <1>0 DEF TruthInv, RunType, TrailType
<1>1. PICK l : Said(l) /\ Lines(l)
  BY <1>a, StepLines
<1>2. CASE UNCHANGED moves
  <2> SUFFICES ASSUME NEW m \in ToSet(moves), NEW k \in 1..Len(trail'), trail'[k].shape = "whole",
                      trail'[k].st = "started", trail'[k].id = m.id
               PROVE  trail'[k].to = m.to
    BY <1>2 DEF VersionLines
  <2>1. CASE k \in 1..Len(trail) /\ trail'[k] = trail[k]
    BY <1>0, <2>1 DEF VersionLines
  <2>2. CASE trail'[k] = l
    <3>1. pc # "close"
      BY <1>0, <1>1, <2>2 DEF Said, Interruption, Whole, MoveInv
    <3>2. pc \in {"announce", "open"} /\ l.id = boots
      BY <1>1, <2>2, <3>1 DEF Said, Interruption, Whole
    <3>3. m.id < boots
      BY <1>0, <3>2 DEF MoveInv, Unsettled
    <3> QED BY <1>a, <2>2, <3>2, <3>3
  <2> QED BY <1>a, <1>1, <2>1, <2>2, WholeLine
<1>3. CASE /\ pc = "chain" /\ UNCHANGED <<trail, boots, code>>
           /\ ToSet(moves') = ToSet(moves) \cup {[id |-> boots, from |-> tables, to |-> code]}
  <2> SUFFICES ASSUME NEW m \in ToSet(moves'), NEW k \in 1..Len(trail), trail[k].shape = "whole",
                      trail[k].st = "started", trail[k].id = m.id
               PROVE  trail[k].to = m.to
    BY <1>3 DEF VersionLines
  <2>1. CASE m \in ToSet(moves)
    BY <1>0, <2>1 DEF VersionLines
  <2>2. CASE m = [id |-> boots, from |-> tables, to |-> code]
    BY <1>0, <1>3, <2>2 DEF IdsInv
  <2> QED BY <1>3, <2>1, <2>2
<1> QED BY <1>0, <1>2, <1>3, StepMoves DEF DataType

LEMMA NextRead == TruthInv /\ [Next]_vars => ReadInv'
<1> SUFFICES ASSUME TruthInv, [Next]_vars PROVE ReadInv'
  OBVIOUS
<1>0. TypeInv /\ TrailType /\ ReadOK /\ MoveInv /\ ReadInv /\ AnnouncedInv
  BY DEF TruthInv, AnnouncedInv, AtomicInv, TypeInv
<1>1. CASE /\ read' = Read /\ UNCHANGED <<trail, cut>>
           /\ pc' \in {"mark", "announce", "connect"}
  <2>1. \A k \in DOMAIN read'.lines : trail'[k] = read'.lines[k]
    BY <1>1 DEF Read
  <2>2. ASSUME Readable', NEW k \in Unclosed(read'.lines), NEW n \in 1..Len(trail'),
               trail'[n].id = read'.lines[k].id
        PROVE  trail'[n].st # "failed"
    <3>1. Readable /\ n \in 1..Len(trail)
      BY <1>1, <2>2 DEF Readable, BadLines, Bad
    <3>2. \A i \in 1..n : ~ Bad(i)
      <4>1. \A i \in 1..n : i \in 1..Len(trail)
        BY <3>1, <1>0 DEF TrailType
      <4> QED BY <3>1, <4>1 DEF Readable, BadLines
    <3>3. n \in DOMAIN Read.lines /\ Read.lines[n] = trail[n]
      BY <3>1, <3>2 DEF Read, Good
    <3>4. Read.lines[n].st \notin Closing
      BY <1>1, <2>2, <3>3 DEF Unclosed
    <3> QED BY <1>1, <3>3, <3>4 DEF Closing
  <2> QED BY <2>1, <2>2 DEF ReadInv
<1>2. CASE pc' = "down"
  BY <1>2 DEF ReadInv, Unsettled
<1>3. CASE pc # "down" /\ pc' # "down" /\ read' = read
  <2> SUFFICES ASSUME Readable' PROVE ReadInv'
    BY DEF ReadInv
  <2>1. PICK l : Said(l) /\ Lines(l) /\ Kept(l) /\ \A k \in 1..Len(trail) : trail'[k] = trail[k]
    BY <1>0, <1>3, StepLines
  <2>2. \A k \in DOMAIN read'.lines : trail'[k] = read'.lines[k]
    BY <1>0, <1>3, <2>1 DEF Kept, ReadInv, ReadOK
  <2>3. ASSUME pc' \in Unsettled \ {"close"}, NEW k \in Unclosed(read'.lines),
               NEW n \in 1..Len(trail'), trail'[n].id = read'.lines[k].id
        PROVE  trail'[n].st # "failed"
    <3>1. pc \in Unsettled \ {"close"}
      <4>1. Mark \/ Announce \/ Connect \/ TakeBackup \/ Reconcile => pc \in Unsettled \ {"close"}
        BY DEF Mark, Announce, Connect, TakeBackup, Reconcile, Unsettled
      <4>2. Chain \/ Close \/ Mirror \/ Prune => pc' \notin Unsettled \ {"close"}
        BY DEF Chain, Failed, Close, Settled, Mirror, Prune, Unsettled
      <4>3. Crash \/ AddProject \/ LoseVersion => pc' \notin Unsettled \ {"close"}
        BY DEF Crash, Down, AddProject, LoseVersion, Unsettled
      <4>4. \A c \in 1..MaxVersion : Boot(c) => pc = "down"
        BY DEF Boot
      <4>5. UNCHANGED vars => UNCHANGED pc
        BY DEF vars
      <4> QED BY <1>3, <2>3, <4>1, <4>2, <4>3, <4>4, <4>5 DEF Next, Step
    <3>2. CASE n \in 1..Len(trail) /\ trail'[n] = trail[n]
      BY <1>0, <1>3, <2>1, <2>3, <3>1, <3>2 DEF ReadInv, Kept
    <3>3. CASE trail'[n] = l
      BY <2>1, <3>1, <3>3 DEF Said, Interruption, Whole
    <3>4. CASE trail'[n].st = "started"
      BY <3>4
    <3> QED BY <1>0, <2>1, <3>2, <3>3, <3>4, ClosingLine DEF TrailType
  <2> QED BY <2>2, <2>3 DEF ReadInv
<1> QED BY <1>1, <1>2, <1>3, StepKinds

\* An attempt stays lost: only a start closes its own step as failed, or commits it.
LEMMA LostKeeps ==
    ASSUME trail \in Seq(Line), NEW l, Said(l), Lines(l), NEW j \in 1..Len(trail), NEW i \in Int, NEW v,
           Lost(j, i, v), trail'[j] = trail[j], UNCHANGED moves, boots \in Int,
           pc = "close" /\ outcome = "failed" => i <= boots
    PROVE  Lost(j, i, v)'
<1>0. trail[j] \in Line /\ trail[j].id \in Int
  <2>1. trail[j] \in Line
    OBVIOUS
  <2> QED BY <2>1 DEF Line, Entry
<1>1. ASSUME NEW n \in 1..Len(trail'), trail'[n].id = trail[j].id, trail'[n].st = "failed"
      PROVE  FALSE
  <2>1. CASE n \in 1..Len(trail) /\ trail'[n] = trail[n]
    BY <1>1, <2>1 DEF Lost
  <2>2. CASE trail'[n] = l
    <3>1. pc = "close" /\ outcome = "failed" /\ l.id = boots
      BY <1>1, <2>2 DEF Said, Interruption, Whole
    <3>2. trail[j].id < i
      BY DEF Lost
    <3> QED BY <1>0, <1>1, <2>2, <3>1, <3>2
  <2> QED BY <1>1, <2>1, <2>2, ClosingLine
<1>2. Unmoved(trail[j].id)' /\ Announces(trail'[j], trail'[j].id, v)
  BY DEF Lost, Unmoved
<1> QED BY <1>1, <1>2 DEF Lost

LEMMA NextLines == TruthInv /\ [Next]_vars => LinesInv'
<1> SUFFICES ASSUME TruthInv, [Next]_vars PROVE LinesInv'
  OBVIOUS
<1>0. TypeInv /\ TrailType /\ DataType /\ RunType /\ AnnouncedInv /\ IdsInv /\ MoveInv /\ LinesInv /\ ClaimInv
  BY DEF TruthInv, AnnouncedInv, AtomicInv, TypeInv
<1>a. boots \in Int /\ trail \in Seq(Line) /\ Len(trail) \in Nat
  BY <1>0 DEF RunType, TrailType
<1>b. \A k \in 1..Len(trail) : trail[k].id \in Int
  <2>1. \A k \in 1..Len(trail) : trail[k] \in Line
    BY <1>a
  <2> QED BY <2>1 DEF Line, Entry
<1>1. PICK l : Said(l) /\ Lines(l) /\ (Readable' => Kept(l))
  BY <1>0, StepLines
<1>2. CASE UNCHANGED moves
  <2> SUFFICES ASSUME NEW k \in 1..Len(trail'), trail'[k].shape = "whole"
               PROVE  /\ trail'[k].st \in {"completed", "completed_after_interrupt"} =>
                            \E m \in ToSet(moves) : m.id = trail'[k].id /\ m.to = trail'[k].to
                      /\ trail'[k].st = "failed" => Unmoved(trail'[k].id)
                      /\ Readable' /\ trail'[k].st = "completed_after_interrupt" =>
                            \E j \in 1..(k - 1) : Lost(j, trail[k].id, trail[k].to)'
    BY <1>2 DEF LinesInv, Unmoved
  <2>0. trail'[k] = l \/ (k \in 1..Len(trail) /\ trail'[k] = trail[k])
    BY <1>a, <1>1, WholeLine
  <2>1. trail'[k] = l /\ trail'[k].st \notin {"started", "interrupted"} =>
           /\ pc = "close" /\ trail'[k].id = boots /\ trail'[k].to = code
           /\ trail'[k].st = outcome
    BY <1>1 DEF Said, Interruption, Whole
  <2>2. trail'[k].st \in {"completed", "completed_after_interrupt"} =>
           \E m \in ToSet(moves) : m.id = trail'[k].id /\ m.to = trail'[k].to
    BY <1>0, <2>0, <2>1 DEF LinesInv, MoveInv
  <2>3. ASSUME trail'[k].st = "failed" PROVE Unmoved(trail'[k].id)
    <3>1. CASE k \in 1..Len(trail) /\ trail'[k] = trail[k]
      BY <1>0, <2>3, <3>1 DEF LinesInv
    <3>2. CASE trail'[k] = l
      <4>1. \A m \in ToSet(moves) : m.id < boots
        BY <1>0, <2>1, <2>3, <3>2 DEF MoveInv
      <4>2. \A m \in ToSet(moves) : m.id # boots
        BY <1>a, <4>1
      <4> QED BY <2>1, <2>3, <3>2, <4>2 DEF Unmoved
    <3> QED BY <2>0, <3>1, <3>2
  <2>4. ASSUME Readable', trail'[k].st = "completed_after_interrupt"
        PROVE  \E j \in 1..(k - 1) : Lost(j, trail[k].id, trail[k].to)'
    <3>1. PICK i, v : i = trail'[k].id /\ v = trail'[k].to
      OBVIOUS
    <3>2. CASE k <= Len(trail)
      <4>1. k \in 1..Len(trail) /\ trail'[k] = trail[k]
        <5>1. k \in 1..Len(trail)
          BY <1>a, <3>2
        <5>2. trail'[k] = trail[k] \/ trail'[k] = Torn(trail[k].id)
          BY <1>1, <2>4, <5>1 DEF Kept
        <5>3. Torn(trail[k].id).shape # "whole"
          BY DEF Torn
        <5> QED BY <5>1, <5>2, <5>3
      <4>2. PICK j \in 1..(k - 1) : Lost(j, i, v)
        BY <1>0, <1>1, <2>4, <3>1, <4>1 DEF LinesInv, Kept
      <4>3. j \in 1..Len(trail) /\ trail'[j] = trail[j]
        BY <1>a, <1>1, <2>4, <4>1 DEF Kept
      <4>4. i \in Int /\ (pc = "close" => i <= boots)
        BY <1>0, <1>b, <2>4, <3>1, <4>1 DEF IdsInv
      <4>5. Lost(j, i, v)'
        BY <1>a, <1>1, <1>2, <4>2, <4>3, <4>4, LostKeeps
      <4> QED BY <3>1, <4>5 DEF Lost
    <3>3. CASE ~ (k <= Len(trail))
      <4>1. trail'[k] = l /\ \A j \in 1..Len(trail) : trail'[j] = trail[j]
        BY <1>a, <1>1, <2>4, <3>3 DEF Kept
      <4>2. pc = "close" /\ i = boots /\ v = code /\ outcome = "completed_after_interrupt"
        BY <2>1, <2>4, <3>1, <4>1
      <4>3. PICK j \in 1..Len(trail) : Lost(j, boots, code)
        BY <1>0, <1>1, <2>4, <4>2 DEF ClaimInv, Kept
      <4>4. Lost(j, i, v)'
        BY <1>a, <1>1, <1>2, <4>1, <4>2, <4>3, LostKeeps
      <4>5. j \in 1..(k - 1)
        BY <1>a, <3>3
      <4> QED BY <3>1, <4>4, <4>5 DEF Lost
    <3> QED BY <3>2, <3>3
  <2> QED BY <2>2, <2>3, <2>4
<1>3. CASE /\ pc = "chain" /\ UNCHANGED <<trail, cut, boots>>
           /\ ToSet(moves') = ToSet(moves) \cup {[id |-> boots, from |-> tables, to |-> code]}
  <2>1. Readable' = Readable
    BY <1>3 DEF Readable, BadLines, Bad
  <2>2. \A k \in 1..Len(trail) :
            trail[k].shape = "whole" /\ trail[k].st \in Closing => trail[k].id < boots
    BY <1>0, <1>3 DEF IdsInv, Unsettled
  <2>3. \A i \in Int : Unmoved(i) /\ i < boots => Unmoved(i)'
    BY <1>a, <1>3 DEF Unmoved
  <2>4. ASSUME NEW k \in 1..Len(trail), trail[k].shape = "whole", trail[k].st = "failed"
        PROVE  Unmoved(trail[k].id)'
    <3>1. PICK i : i = trail[k].id
      OBVIOUS
    <3>2. i \in Int /\ i < boots /\ Unmoved(i)
      BY <1>0, <1>b, <2>2, <2>4, <3>1 DEF LinesInv, Closing
    <3>3. Unmoved(i)'
      BY <2>3, <3>2
    <3> QED BY <1>3, <3>1, <3>3 DEF Unmoved
  <2>5. ASSUME NEW k \in 1..Len(trail), trail[k].shape = "whole", Readable,
               trail[k].st = "completed_after_interrupt"
        PROVE  \E j \in 1..(k - 1) : Lost(j, trail[k].id, trail[k].to)'
    <3>1. PICK j \in 1..(k - 1) : Lost(j, trail[k].id, trail[k].to)
      BY <1>0, <2>5 DEF LinesInv
    <3>2. j \in 1..Len(trail)
      BY <1>a
    <3>3. PICK i : i = trail[j].id
      OBVIOUS
    <3>4. i < trail[k].id /\ trail[k].id < boots
      BY <2>2, <2>5, <3>1, <3>3 DEF Lost, Closing
    <3>5. i \in Int /\ i < boots /\ Unmoved(i)
      BY <1>a, <1>b, <3>1, <3>2, <3>3, <3>4 DEF Lost
    <3>6. Unmoved(i)'
      BY <2>3, <3>5
    <3> QED BY <1>3, <3>1, <3>3, <3>6 DEF Lost, Unmoved
  <2>6. ASSUME NEW k \in 1..Len(trail), trail[k].shape = "whole",
               trail[k].st \in {"completed", "completed_after_interrupt"}
        PROVE  \E m \in ToSet(moves') : m.id = trail[k].id /\ m.to = trail[k].to
    BY <1>0, <1>3, <2>6 DEF LinesInv
  <2> QED BY <1>3, <2>1, <2>4, <2>5, <2>6 DEF LinesInv, Lost
<1> QED BY <1>0, <1>2, <1>3, StepMoves DEF DataType

LEMMA NextClaim == TruthInv /\ [Next]_vars => ClaimInv'
<1> SUFFICES ASSUME TruthInv, [Next]_vars, pc' = "close", outcome' = "completed_after_interrupt",
                    Readable'
             PROVE  \E j \in 1..Len(trail') : Lost(j, boots, code)'
  BY DEF ClaimInv
<1>0. /\ TypeInv /\ TrailType /\ DataType /\ RunType /\ ReadOK /\ PlanInv
      /\ IdsInv /\ MoveInv /\ VersionLines /\ ReadInv /\ ClaimInv
  BY DEF TruthInv, AnnouncedInv, AtomicInv, TypeInv
<1>1. CASE Chain
  <2>1. pc = "chain" /\ UNCHANGED <<trail, cut, boots, code>> /\ Prior
    BY <1>1 DEF Chain, Failed
  <2>2. Readable /\ tables < code /\ tables \in Int /\ code \in Int /\ boots \in Int /\ code # 0
    BY <1>0, <2>1 DEF Readable, BadLines, Bad, PlanInv, DataType, RunType, Version
  <2>3. PICK k \in Unclosed(read.lines) : read.lines[k].to = code
    BY <2>1 DEF Prior
  <2>4. k \in 1..Len(trail) /\ trail[k] = read.lines[k] /\ trail[k].st = "started" /\ trail[k].to = code
    BY <1>0, <2>1, <2>2, <2>3 DEF ReadInv, ReadOK, Unclosed
  <2>5. trail[k].shape = "whole"
    <3>1. ~ Bad(k)
      BY <2>2, <2>4 DEF Readable, BadLines
    <3> QED BY <1>0, <2>2, <2>4, <3>1 DEF Bad, IdsInv
  <2>6. PICK i : i = trail[k].id
    OBVIOUS
  <2>7. i < boots
    BY <1>0, <2>1, <2>3, <2>4, <2>6 DEF IdsInv, ReadOK, Unclosed
  <2>8. \A n \in 1..Len(trail) : trail[n].id = i => trail[n].st # "failed"
    BY <1>0, <2>1, <2>2, <2>3, <2>4, <2>6 DEF ReadInv, Unsettled
  <2>9. i \in Int
    <3>1. trail[k] \in Line
      BY <1>0, <2>4 DEF TrailType
    <3> QED BY <2>6, <3>1 DEF Line, Entry
  <2>10. \A m \in ToSet(moves) : m.id # i
    <3> SUFFICES ASSUME NEW m \in ToSet(moves), m.id = i PROVE FALSE
      OBVIOUS
    <3>1. m.to = code
      BY <1>0, <2>4, <2>5, <2>6 DEF VersionLines
    <3>2. m.to <= tables
      BY <1>0 DEF MoveInv
    <3> QED BY <2>2, <3>1, <3>2
  <2>11. \A m \in ToSet(moves') : m.id # i
    <3>1. UNCHANGED moves \/ ToSet(moves') = ToSet(moves) \cup {[id |-> boots, from |-> tables, to |-> code]}
      BY <1>0, StepMoves DEF DataType
    <3> QED BY <2>2, <2>7, <2>9, <2>10, <3>1
  <2>12. Lost(k, boots, code)'
    BY <2>1, <2>4, <2>5, <2>6, <2>7, <2>8, <2>11 DEF Lost, Announces, Unmoved
  <2> QED BY <2>1, <2>4, <2>12
<1>2. CASE UNCHANGED vars
  <2>1. UNCHANGED <<trail, cut, moves, boots, code, pc, outcome>>
    BY <1>2 DEF vars, disk
  <2>2. Readable
    BY <2>1 DEF Readable, BadLines, Bad
  <2>3. PICK j \in 1..Len(trail) : Lost(j, boots, code)
    BY <1>0, <2>1, <2>2 DEF ClaimInv
  <2> QED BY <2>1, <2>3 DEF Lost, Unmoved
<1>3. Chain \/ UNCHANGED vars
  <2>1. ~ (Mark \/ Announce \/ Connect \/ Reconcile)
    BY DEF Mark, AfterTrail, Announce, GivenUp, Settled, BackupOrChain, Connect, Reconcile
  <2>2. ~ (TakeBackup \/ Close \/ Mirror \/ Prune)
    BY DEF TakeBackup, Failed, Close, Settled, Mirror, Prune
  <2>3. ~ (Crash \/ AddProject \/ LoseVersion)
    BY DEF Crash, Down, AddProject, LoseVersion
  <2>4. ~ \E c \in 1..MaxVersion : Boot(c)
    BY DEF Boot, AfterTrail
  <2> QED BY <2>1, <2>2, <2>3, <2>4 DEF Next, Step
<1> QED BY <1>1, <1>2, <1>3

LEMMA NextTruth == TruthInv /\ [Next]_vars => TruthInv'
<1> SUFFICES ASSUME TruthInv, [Next]_vars PROVE TruthInv'
  OBVIOUS
<1>1. AnnouncedInv /\ IdsInv
  BY DEF TruthInv
<1>2. AnnouncedInv'
  BY <1>1, NextAtomic, NextAnn DEF AnnouncedInv
<1> QED BY <1>1, <1>2, NextIds, NextMove, NextVersion, NextRead, NextLines, NextClaim DEF TruthInv

\* No closing line of the trail claims what did not happen, over any number of
\* starts, crashes and half-written lines.
THEOREM TrailIsTrue == Spec => []TrailTellsTheTruth
<1>1. Init => TruthInv
  BY InitAtomic, InitAnn, InitIds, InitTruth DEF TruthInv, AnnouncedInv
<1>2. TruthInv => TrailTellsTheTruth
  <2> SUFFICES ASSUME TruthInv, NEW k \in 1..Len(trail), trail[k].shape = "whole"
               PROVE  /\ trail[k].st \in {"completed", "completed_after_interrupt"} =>
                            \E m \in ToSet(moves) : m.id = trail[k].id /\ m.to = trail[k].to
                      /\ trail[k].st = "failed" => \A m \in ToSet(moves) : m.id # trail[k].id
                      /\ Readable /\ trail[k].st = "completed_after_interrupt" =>
                            \E j \in 1..(k - 1) :
                                /\ Announces(trail[j], trail[j].id, trail[k].to)
                                /\ trail[j].id # trail[k].id
                                /\ \A m \in ToSet(moves) : m.id # trail[j].id
                                /\ \A n \in 1..Len(trail) :
                                       trail[n].id = trail[j].id => trail[n].st # "failed"
    BY DEF TrailTellsTheTruth
  <2>1. LinesInv /\ trail \in Seq(Line)
    BY DEF TruthInv, AnnouncedInv, AtomicInv, TypeInv, TrailType
  <2>2. \A j \in 1..Len(trail) : trail[j].id \in Int
    <3>1. \A j \in 1..Len(trail) : trail[j] \in Line
      BY <2>1
    <3> QED BY <3>1 DEF Line, Entry
  <2>3. ASSUME Readable, trail[k].st = "completed_after_interrupt"
        PROVE  \E j \in 1..(k - 1) :
                   /\ Announces(trail[j], trail[j].id, trail[k].to) /\ trail[j].id # trail[k].id
                   /\ \A m \in ToSet(moves) : m.id # trail[j].id
                   /\ \A n \in 1..Len(trail) : trail[n].id = trail[j].id => trail[n].st # "failed"
    <3>1. PICK j \in 1..(k - 1) : Lost(j, trail[k].id, trail[k].to)
      BY <2>1, <2>3 DEF LinesInv
    <3>2. j \in 1..Len(trail) /\ trail[j].id < trail[k].id
      BY <2>1, <3>1 DEF Lost
    <3>3. trail[j].id # trail[k].id
      BY <2>2, <3>2
    <3> QED BY <3>1, <3>3 DEF Lost, Unmoved
  <2> QED BY <2>1, <2>3 DEF LinesInv, Unmoved
<1> QED BY <1>1, <1>2, NextTruth, PTL DEF Spec
-----------------------------------------------------------------------------
(* The mirror table follows the trail.                                     *)

\* A file that does not exist holds no tables; so a start that announced before it
\* created the file does not find its data current.
FreshInv ==
    /\ ~ file => tables = 0
    /\ pc \in {"open", "reconcile", "backup", "chain"} => file
    /\ pc = "announce" \/ (pc = "connect" /\ started) => tables = 0
    /\ pc \in {"mark", "announce", "reconcile"} => ~ started

\* Until it announces, a start has added nothing to what it read but its marks.
MarkInv ==
    /\ pc = "mark" => todo \subseteq Unclosed(read.lines)
    /\ pc \in {"mark", "announce", "connect", "reconcile"} /\ ~ started /\ Readable =>
          \A n \in 1..Len(trail) :
              \/ n \in DOMAIN read.lines
              \/ /\ trail[n].st = "interrupted"
                 /\ \E k \in Unclosed(read.lines) : read.lines[k].id = trail[n].id

Follows(i) ==
    \/ mirror[i] = Latest(trail, i)
    \/ /\ mirror[i] = "started" /\ Latest(trail, i) = "interrupted"
       /\ \E k \in Unclosed(read.lines) : read.lines[k].id = i

\* The table holds rows of the entries of the file only, and once it is rebuilt it
\* says what the file says of them.
MirrorInv ==
    /\ Readable => \A i \in Entry : mirror[i] # None => \E k \in 1..Len(trail) : trail[k].id = i
    /\ mirrored /\ Readable /\ (pc = "prune" \/ (pc = "up" /\ verdict = "ok")) =>
          \A i \in Entry : Follows(i)
    /\ mirrored => pc \in {"prune", "up"}

FollowInv == TruthInv /\ FreshInv /\ MarkInv /\ MirrorInv

LEMMA InitFollow == Init => FreshInv /\ MarkInv /\ MirrorInv
<1> SUFFICES ASSUME Init PROVE FreshInv /\ MarkInv /\ MirrorInv
  OBVIOUS
<1>1. /\ pc = "down" /\ file = (tables > 0) /\ tables \in Version
      /\ mirror = [i \in Entry |-> None] /\ mirrored = FALSE
  BY DEF Init
<1>2. ~ file => tables = 0
  <2> SUFFICES ASSUME ~ file PROVE tables = 0
    OBVIOUS
  <2>1. ~ (tables > 0)
    BY <1>1, Zenon
  <2>2. tables \in Nat
    BY <1>1, BoundsAssumption DEF Version
  <2> QED BY <2>1, <2>2
<1>3. \A i \in Entry : mirror[i] = None
  BY <1>1
<1> QED BY <1>1, <1>2, <1>3 DEF FreshInv, MarkInv, MirrorInv

LEMMA NextFresh == FollowInv /\ [Next]_vars => FreshInv'
<1> SUFFICES ASSUME FollowInv, [Next]_vars PROVE FreshInv'
  OBVIOUS
<1>0. DataType /\ RunType /\ VersionInv /\ PlanInv /\ FreshInv /\ AnnInv
  BY DEF FollowInv, TruthInv, AnnouncedInv, AtomicInv, TypeInv
<1>1. ASSUME NEW c \in 1..MaxVersion, Boot(c) PROVE FreshInv'
  <2>1. ~ started /\ UNCHANGED <<file, tables, started>>
    BY <1>0, <1>1 DEF Boot, disk, AnnInv
  <2>2. pc' \in {"mark", "announce", "connect"} /\ (pc' = "announce" => ~ file)
    BY <1>1 DEF Boot, AfterTrail
  <2> QED BY <1>0, <2>1, <2>2 DEF FreshInv
<1>2. CASE Mark
  <2>1. ~ started /\ UNCHANGED <<file, tables, started>>
    BY <1>0, <1>2 DEF Mark, FreshInv
  <2>2. pc' \in {"mark", "announce", "connect"} /\ (pc' = "announce" => ~ file)
    BY <1>2 DEF Mark, AfterTrail
  <2> QED BY <1>0, <2>1, <2>2 DEF FreshInv
<1>3. CASE Announce
  <2>1. UNCHANGED <<file, tables>> /\ pc \in {"announce", "open"}
    BY <1>3 DEF Announce
  <2>2. pc' = "up" \/ (pc = "announce" /\ pc' = "connect") \/ (pc = "open" /\ pc' \in {"backup", "chain"})
    BY <1>3 DEF Announce, GivenUp, Settled, BackupOrChain
  <2> QED BY <1>0, <2>1, <2>2 DEF FreshInv
<1>4. CASE Connect
  <2>1. UNCHANGED <<tables, started, code>> /\ pc = "connect" /\ (file' = TRUE \/ file' = file)
    BY <1>0, <1>4 DEF Connect, DataType
  <2>2. pc' \in {"up", "open", "reconcile", "backup", "chain"} /\ (pc' # "up" => file' /\ ~ Blocked)
    BY <1>4 DEF Connect, Settled, BackupOrChain
  <2>3. pc' = "reconcile" => ~ started
    <3> SUFFICES ASSUME pc' = "reconcile", started PROVE FALSE
      OBVIOUS
    <3>1. Current = tables /\ tables = 0
      BY <1>0, <2>1, <2>2, CurrentIsTrue DEF FreshInv
    <3>2. Current = code
      BY <1>4 DEF Connect, Settled, BackupOrChain
    <3> QED BY <1>0, <3>1, <3>2 DEF RunType
  <2> QED BY <1>0, <2>1, <2>2, <2>3 DEF FreshInv
<1>5. CASE Reconcile
  BY <1>0, <1>5 DEF Reconcile, Settled, FreshInv
<1>6. CASE TakeBackup
  BY <1>0, <1>6 DEF TakeBackup, Failed, FreshInv
<1>7. CASE Chain
  BY <1>0, <1>7 DEF Chain, Failed, FreshInv
<1>8. CASE Close
  BY <1>0, <1>8 DEF Close, Settled, FreshInv
<1>9. CASE Mirror
  BY <1>0, <1>9 DEF Mirror, FreshInv
<1>10. CASE Prune
  BY <1>0, <1>10 DEF Prune, Settled, FreshInv
<1>11. CASE Crash
  BY <1>0, <1>11 DEF Crash, Down, FreshInv
<1>12. CASE AddProject
  BY <1>0, <1>12 DEF AddProject, FreshInv
<1>13. CASE LoseVersion
  BY <1>0, <1>13 DEF LoseVersion, FreshInv
<1>14. CASE UNCHANGED vars
  BY <1>0, <1>14 DEF vars, disk, FreshInv
<1> QED
  BY <1>1, <1>2, <1>3, <1>4, <1>5, <1>6, <1>7, <1>8, <1>9, <1>10, <1>11, <1>12, <1>13, <1>14
  DEF Next, Step

\* A trail that can be read is read to its end.
LEMMA ReadAll ==
    ASSUME trail \in Seq(Line), Readable
    PROVE  DOMAIN Read.lines = 1..Len(trail) /\ \A k \in 1..Len(trail) : Read.lines[k] = trail[k]
<1>1. \A k \in 1..Len(trail) : \A j \in 1..k : j \in 1..Len(trail)
  OBVIOUS
<1>2. Good = 1..Len(trail)
  BY <1>1 DEF Good, Readable, BadLines
<1> QED BY <1>2 DEF Read

LEMMA NextMark == FollowInv /\ [Next]_vars => MarkInv'
<1> SUFFICES ASSUME FollowInv, [Next]_vars PROVE MarkInv'
  OBVIOUS
<1>0. TypeInv /\ TrailType /\ RunType /\ ReadOK /\ AnnouncedInv /\ FreshInv /\ MarkInv
  BY DEF FollowInv, TruthInv, AnnouncedInv, AtomicInv, TypeInv
<1>1. CASE /\ read' = Read /\ UNCHANGED <<trail, cut>> /\ pc = "down"
           /\ pc' \in {"mark", "announce", "connect"}
  <2>1. Readable' = Readable
    BY <1>1 DEF Readable, BadLines, Bad
  <2>2. pc' = "mark" => todo' \subseteq Unclosed(read'.lines)
    <3>1. \E c \in 1..MaxVersion : Boot(c)
      BY <1>1 DEF Next, Step, Mark, Announce, Connect, Reconcile, TakeBackup, Chain, Close, Mirror,
                  Prune, Crash, AddProject, LoseVersion, vars
    <3> QED BY <3>1 DEF Boot
  <2> QED BY <1>0, <1>1, <2>1, <2>2, ReadAll DEF MarkInv, TrailType
<1>2. CASE pc' = "down"
  BY <1>2 DEF MarkInv
<1>3. CASE pc # "down" /\ pc' # "down" /\ read' = read
  <2>1. CASE Mark
    <3>1. pc' = "mark" => todo' \subseteq todo
      BY <2>1 DEF Mark, AfterTrail
    <3>2. pc = "mark" /\ ~ started /\ Min(todo) \in todo
      BY <1>0, <2>1, InterruptionType DEF Mark, FreshInv, RunType
    <3>3. Min(todo) \in Unclosed(read.lines)
      BY <1>0, <3>2 DEF MarkInv
    <3>4. ASSUME Readable', NEW n \in 1..Len(trail')
          PROVE  \/ n \in DOMAIN read.lines
                 \/ /\ trail'[n].st = "interrupted"
                    /\ \E k \in Unclosed(read.lines) : read.lines[k].id = trail'[n].id
      <4>1. PICK l : Said(l) /\ Kept(l) /\ \A k \in 1..Len(trail) : trail'[k] = trail[k]
        BY <1>0, <1>3, <3>4, StepLines
      <4>2. CASE n <= Len(trail)
        <5>1. n \in 1..Len(trail)
          BY <1>0, <4>2 DEF TrailType
        <5> QED BY <1>0, <3>2, <4>1, <5>1 DEF MarkInv, Kept
      <4>3. CASE ~ (n <= Len(trail))
        <5>1. trail'[n] = l /\ n \in 1..Len(trail')
          BY <4>1, <4>3 DEF Kept
        <5>2. l.shape = "whole"
          <6>1. ~ cut'
            <7>1. Put(Interruption, TRUE) \/ UNCHANGED <<trail, cut>>
              BY <2>1 DEF Mark, Appended, Raised
            <7>2. ~ UNCHANGED <<trail, cut>>
              BY <1>0, <4>3
            <7> QED BY <7>1, <7>2 DEF Put
          <6>2. ~ Bad(n)'
            BY <3>4, <5>1 DEF Readable, BadLines
          <6> QED BY <5>1, <6>1, <6>2 DEF Bad
        <5>3. l = Interruption
          BY <3>2, <4>1, <5>2 DEF Said
        <5> QED BY <3>3, <5>1, <5>3 DEF Interruption, Whole
      <4> QED BY <4>2, <4>3
    <3>5. todo' \subseteq Unclosed(read.lines) \/ pc' # "mark"
      BY <1>0, <3>1, <3>2 DEF MarkInv
    <3> QED BY <1>3, <3>4, <3>5 DEF MarkInv
  <2>2. CASE ~ Mark
    <3>1. pc' # "mark" \/ UNCHANGED <<pc, todo>>
      BY <1>3, <2>2 DEF Next, Step, Boot, Announce, GivenUp, Settled, BackupOrChain, Connect, Reconcile,
                        TakeBackup, Failed, Chain, Close, Mirror, Prune, Crash, Down, AddProject,
                        LoseVersion, vars
    <3>2. CASE pc' \in {"mark", "announce", "connect", "reconcile"} /\ ~ started'
      <4>1. UNCHANGED <<trail, cut>> /\ pc \in {"mark", "announce", "connect", "reconcile"} /\ ~ started
        <5>1. ~ (Announce \/ Reconcile)
          BY <3>2 DEF Announce, GivenUp, Settled, BackupOrChain, Reconcile
        <5>2. ~ (TakeBackup \/ Chain \/ Close \/ Mirror \/ Prune)
          BY <3>2 DEF TakeBackup, Failed, Chain, Close, Settled, Mirror, Prune
        <5>3. ~ (Crash \/ AddProject \/ LoseVersion)
          BY <1>3, <3>2 DEF Crash, Down, AddProject, LoseVersion
        <5>4. ~ \E c \in 1..MaxVersion : Boot(c)
          BY <1>3 DEF Boot
        <5>5. Connect \/ UNCHANGED vars
          BY <2>2, <5>1, <5>2, <5>3, <5>4 DEF Next, Step
        <5>6. Connect => UNCHANGED <<trail, cut, started>> /\ pc = "connect"
          BY DEF Connect
        <5>7. UNCHANGED vars => UNCHANGED <<trail, cut, pc, started>>
          BY DEF vars, disk
        <5> QED BY <3>2, <5>5, <5>6, <5>7
      <4>2. Readable' = Readable
        BY <4>1 DEF Readable, BadLines, Bad
      <4> QED BY <1>0, <1>3, <3>1, <4>1, <4>2 DEF MarkInv
    <3>3. CASE ~ (pc' \in {"mark", "announce", "connect", "reconcile"} /\ ~ started')
      BY <1>0, <1>3, <3>1, <3>3 DEF MarkInv
    <3> QED BY <3>2, <3>3
  <2> QED BY <2>1, <2>2
<1> QED BY <1>1, <1>2, <1>3, StepKinds

\* What the lines say of an entry comes from a line of that entry.
LEMMA LatestOf ==
    ASSUME NEW n \in Nat, NEW lines, DOMAIN lines \subseteq 1..n, NEW i,
           \A k \in DOMAIN lines : lines[k].st # None
    PROVE  /\ Latest(lines, i) = None <=> \A k \in DOMAIN lines : lines[k].id # i
           /\ Latest(lines, i) # None =>
                 \E k \in DOMAIN lines :
                     /\ lines[k].id = i /\ Latest(lines, i) = lines[k].st
                     /\ \A j \in DOMAIN lines : lines[j].id = i => j <= k
<1> DEFINE of == {k \in DOMAIN lines : lines[k].id = i}
<1>1. CASE of = {}
  BY <1>1 DEF Latest
<1>2. CASE of # {}
  <2>1. of \subseteq 1..n
    OBVIOUS
  <2>2. Max(of) \in of /\ \A y \in of : y <= Max(of)
    <3> HIDE DEF of
    <3> QED BY <1>2, <2>1, MaxIn
  <2>3. Latest(lines, i) = lines[Max(of)].st
    BY <1>2 DEF Latest
  <2>4. PICK k : k = Max(of)
    OBVIOUS
  <2>5. k \in DOMAIN lines /\ lines[k].id = i /\ \A j \in DOMAIN lines : lines[j].id = i => j <= k
    BY <2>2, <2>4
  <2> QED BY <2>3, <2>4, <2>5
<1> QED BY <1>1, <1>2

\* The table after it was rebuilt from lines of the trail.
LEMMA RebuiltRows ==
    ASSUME TypeInv, MirrorInv, Readable, NEW lines, DOMAIN lines \subseteq 1..Len(trail),
           \A k \in DOMAIN lines : lines[k] = trail[k],
           NEW i \in Entry, Upserted(lines)[i] # None
    PROVE  \E k \in 1..Len(trail) : trail[k].id = i
<1>0. trail \in Seq(Line) /\ Len(trail) \in Nat /\ \A k \in DOMAIN lines : lines[k] \in Line
  <2>1. trail \in Seq(Line)
    BY DEF TypeInv, TrailType
  <2> QED BY <2>1
<1>1. \A k \in DOMAIN lines : lines[k].st # None
  BY <1>0, NoneAssumption DEF Line
<1>2. CASE Latest(lines, i) = None
  BY <1>2 DEF Upserted, MirrorInv
<1>3. CASE Latest(lines, i) # None
  BY <1>0, <1>1, <1>3, LatestOf
<1> QED BY <1>2, <1>3

\* The rebuilt row of entry i says what the trail says, but for an entry that this
\* start marked after it had read the lines.
LEMMA RebuiltFollows ==
    ASSUME TypeInv, MirrorInv, Readable, NEW lines, DOMAIN lines \subseteq 1..Len(trail),
           \A k \in DOMAIN lines : lines[k] = trail[k],
           \A n \in 1..Len(trail) :
               \/ n \in DOMAIN lines
               \/ /\ trail[n].st = "interrupted"
                  /\ \E k \in Unclosed(lines) : lines[k].id = trail[n].id,
           NEW i \in Entry
    PROVE  \/ Upserted(lines)[i] = Latest(trail, i)
           \/ /\ Upserted(lines)[i] = "started" /\ Latest(trail, i) = "interrupted"
              /\ \E k \in Unclosed(lines) : lines[k].id = i
<1>0. trail \in Seq(Line) /\ Len(trail) \in Nat /\ DOMAIN trail = 1..Len(trail)
      /\ \A k \in 1..Len(trail) : trail[k] \in Line
  <2>1. trail \in Seq(Line)
    BY DEF TypeInv, TrailType
  <2> QED BY <2>1
<1>1. \A k \in 1..Len(trail) : trail[k].st \in Status /\ trail[k].st # None
  BY <1>0, NoneAssumption DEF Line
<1>2. Upserted(lines)[i] = IF Latest(lines, i) = None THEN mirror[i] ELSE Latest(lines, i)
  BY DEF Upserted
<1>3. CASE Latest(trail, i) = None
  <2>1. \A k \in 1..Len(trail) : trail[k].id # i
    BY <1>0, <1>1, <1>3, LatestOf
  <2>2. mirror[i] = None
    BY <2>1 DEF MirrorInv
  <2>3. Latest(lines, i) = None
    BY <1>0, <1>1, <2>1, LatestOf
  <2> QED BY <1>2, <1>3, <2>2, <2>3
<1>4. CASE Latest(trail, i) # None
  <2>1. PICK k \in 1..Len(trail) : /\ trail[k].id = i /\ Latest(trail, i) = trail[k].st
                                   /\ \A j \in 1..Len(trail) : trail[j].id = i => j <= k
    BY <1>0, <1>1, <1>4, LatestOf
  <2>2. PICK u \in DOMAIN lines : lines[u].id = i
    BY <2>1 DEF Unclosed
  <2>3. Latest(lines, i) # None
    BY <1>0, <1>1, <2>2, LatestOf
  <2>4. PICK h \in DOMAIN lines : /\ lines[h].id = i /\ Latest(lines, i) = lines[h].st
                                  /\ \A j \in DOMAIN lines : lines[j].id = i => j <= h
    BY <1>0, <1>1, <2>3, LatestOf
  <2>5. CASE k \in DOMAIN lines
    <3>1. k <= h /\ h <= k /\ k \in Int /\ h \in Int
      BY <1>0, <2>1, <2>4, <2>5
    <3>2. h = k
      BY <3>1
    <3> QED BY <1>2, <2>1, <2>3, <2>4, <3>2
  <2>6. CASE k \notin DOMAIN lines
    <3>1. trail[k].st = "interrupted" /\ \E x \in Unclosed(lines) : lines[x].id = i
      BY <2>1, <2>6
    <3>2. lines[h].st \notin Closing
      BY <2>4, <3>1 DEF Unclosed
    <3>3. lines[h].st = "started"
      BY <1>1, <2>4, <3>2 DEF Status
    <3> QED BY <1>2, <2>1, <2>3, <2>4, <3>1, <3>3
  <2> QED BY <2>5, <2>6
<1> QED BY <1>3, <1>4

LEMMA NextMirror == FollowInv /\ [Next]_vars => MirrorInv'
<1> SUFFICES ASSUME FollowInv, [Next]_vars PROVE MirrorInv'
  OBVIOUS
<1>0. /\ TypeInv /\ TrailType /\ ReadOK /\ MirrorType /\ AnnouncedInv
      /\ ReadInv /\ FreshInv /\ MarkInv /\ MirrorInv
  BY DEF FollowInv, TruthInv, AnnouncedInv, AtomicInv, TypeInv
<1>a. trail \in Seq(Line) /\ Len(trail) \in Nat
  BY <1>0 DEF TrailType
<1>1. CASE Reconcile
  <2>1. /\ pc = "reconcile" /\ pc' = "up" /\ UNCHANGED <<trail, cut, read>>
        /\ (mirror' = Upserted(read.lines) \/ (UNCHANGED <<mirror, mirrored>>))
    BY <1>1 DEF Reconcile, Settled
  <2>2. ~ mirrored /\ Readable' = Readable
    BY <1>0, <2>1 DEF MirrorInv, Readable, BadLines, Bad
  <2>3. CASE ~ Readable \/ UNCHANGED <<mirror, mirrored>>
    BY <1>0, <2>1, <2>2, <2>3 DEF MirrorInv
  <2>4. CASE Readable /\ mirror' = Upserted(read.lines)
    <3>1. \A k \in DOMAIN read.lines : read.lines[k] = trail[k]
      BY <1>0, <2>1, <2>4 DEF ReadInv
    <3>2. \A i \in Entry : mirror'[i] # None => \E k \in 1..Len(trail) : trail[k].id = i
      BY <1>0, <2>4, <3>1, RebuiltRows DEF ReadOK
    <3>3. \A n \in 1..Len(trail) :
              \/ n \in DOMAIN read.lines
              \/ /\ trail[n].st = "interrupted"
                 /\ \E k \in Unclosed(read.lines) : read.lines[k].id = trail[n].id
      BY <1>0, <2>1, <2>4 DEF MarkInv, FreshInv
    <3>4. \A i \in Entry :
              \/ mirror'[i] = Latest(trail, i)
              \/ /\ mirror'[i] = "started" /\ Latest(trail, i) = "interrupted"
                 /\ \E k \in Unclosed(read.lines) : read.lines[k].id = i
      BY <1>0, <2>4, <3>1, <3>3, RebuiltFollows DEF ReadOK
    <3>5. \A i \in Entry : Follows(i)'
      BY <2>1, <3>4 DEF Follows
    <3> QED BY <2>1, <3>2, <3>5 DEF MirrorInv
  <2> QED BY <2>1, <2>3, <2>4
<1>2. CASE Mirror
  <2>1. /\ pc = "mirror" /\ pc' = "prune" /\ UNCHANGED <<trail, cut, read>>
        /\ (mirror' = Upserted(Read.lines) \/ (UNCHANGED <<mirror, mirrored>>))
    BY <1>2 DEF Mirror
  <2>2. ~ mirrored /\ Readable' = Readable
    BY <1>0, <2>1 DEF MirrorInv, Readable, BadLines, Bad
  <2>3. CASE ~ Readable \/ UNCHANGED <<mirror, mirrored>>
    BY <1>0, <2>1, <2>2, <2>3 DEF MirrorInv
  <2>4. CASE Readable /\ mirror' = Upserted(Read.lines)
    <3>1. DOMAIN Read.lines = 1..Len(trail) /\ \A k \in 1..Len(trail) : Read.lines[k] = trail[k]
      BY <1>a, <2>4, ReadAll
    <3>2. \A i \in Entry : mirror'[i] # None => \E k \in 1..Len(trail) : trail[k].id = i
      BY <1>0, <2>4, <3>1, RebuiltRows
    <3>3. ASSUME NEW i \in Entry PROVE mirror'[i] = Latest(trail, i)
      <4>1. DOMAIN trail = 1..Len(trail)
        BY <1>a
      <4>2. Latest(Read.lines, i) = Latest(trail, i)
        <5> DEFINE R == {k \in DOMAIN Read.lines : Read.lines[k].id = i}
                   T == {k \in DOMAIN trail : trail[k].id = i}
        <5>1. R = T
          BY <3>1, <4>1
        <5>2. T # {} => Max(T) \in 1..Len(trail)
          <6>1. T \subseteq 1..Len(trail)
            BY <4>1
          <6> HIDE DEF T
          <6> QED BY <1>a, <6>1, MaxIn
        <5>3. Latest(Read.lines, i) = IF R = {} THEN None ELSE Read.lines[Max(R)].st
          BY DEF Latest
        <5>4. Latest(trail, i) = IF T = {} THEN None ELSE trail[Max(T)].st
          BY DEF Latest
        <5> HIDE DEF R, T
        <5> QED BY <3>1, <5>1, <5>2, <5>3, <5>4
      <4>3. CASE Latest(trail, i) = None
        <5>1. \A k \in 1..Len(trail) : trail[k].st # None
          <6>1. \A k \in 1..Len(trail) : trail[k] \in Line
            BY <1>a
          <6> QED BY <6>1, NoneAssumption DEF Line
        <5>2. \A k \in 1..Len(trail) : trail[k].id # i
          BY <1>a, <4>1, <4>3, <5>1, LatestOf
        <5>3. mirror[i] = None
          BY <1>0, <2>4, <5>2 DEF MirrorInv
        <5> QED BY <2>4, <4>2, <4>3, <5>3 DEF Upserted
      <4>4. CASE Latest(trail, i) # None
        BY <2>4, <4>2, <4>4 DEF Upserted
      <4> QED BY <4>3, <4>4
    <3>4. \A i \in Entry : Follows(i)'
      BY <2>1, <3>3 DEF Follows
    <3> QED BY <2>1, <3>2, <3>4 DEF MirrorInv
  <2> QED BY <2>1, <2>3, <2>4
<1>3. CASE ~ Reconcile /\ ~ Mirror
  <2>1. UNCHANGED mirror
    BY <1>3 DEF Next, Step, Boot, Mark, Announce, Connect, TakeBackup, Chain, Close, Prune, Crash,
                AddProject, LoseVersion, vars, disk
  <2>2. mirrored' => mirrored /\ pc' \in {"prune", "up"}
    <3>1. Mark \/ Announce \/ Connect \/ TakeBackup => UNCHANGED mirrored /\ pc \notin {"prune", "up"}
      BY DEF Mark, Announce, Connect, TakeBackup
    <3>2. Chain \/ Close => UNCHANGED mirrored /\ pc \notin {"prune", "up"}
      BY DEF Chain, Close
    <3>3. Prune \/ AddProject => UNCHANGED mirrored /\ pc' = "up"
      BY DEF Prune, Settled, AddProject
    <3>4. Crash => mirrored' = FALSE
      BY DEF Crash, Down
    <3>5. LoseVersion \/ UNCHANGED vars => UNCHANGED <<mirrored, pc>>
      BY DEF LoseVersion, vars
    <3>6. \A c \in 1..MaxVersion : Boot(c) => UNCHANGED mirrored /\ pc = "down"
      BY DEF Boot
    <3> QED BY <1>0, <1>3, <3>1, <3>2, <3>3, <3>4, <3>5, <3>6 DEF Next, Step, MirrorInv
  <2>3. ASSUME Readable', NEW i \in Entry, mirror'[i] # None
        PROVE  \E k \in 1..Len(trail') : trail'[k].id = i
    <3>1. PICK l : Kept(l)
      BY <1>0, <2>3, StepLines
    <3>2. PICK k \in 1..Len(trail) : trail[k].id = i
      BY <1>0, <2>1, <2>3, <3>1 DEF Kept, MirrorInv
    <3>3. k \in 1..Len(trail') /\ trail'[k].id = i
      <4>1. k <= Len(trail') /\ Len(trail') \in Nat
        BY <1>a, <3>1, <3>2, NextType, <1>0 DEF Kept, TypeInv, TrailType
      <4> QED BY <3>1, <3>2, <4>1 DEF Kept
    <3> QED BY <3>3
  <2>4. ASSUME mirrored', Readable', pc' = "prune" \/ (pc' = "up" /\ verdict' = "ok"), NEW i \in Entry
        PROVE  Follows(i)'
    <3>1. UNCHANGED <<trail, cut, read>> /\ (pc = "prune" \/ (pc = "up" /\ verdict = "ok"))
      <4>1. ~ (Mark \/ Announce \/ Connect \/ TakeBackup \/ Chain \/ Close)
        BY <1>0, <2>2, <2>4 DEF Mark, Announce, Connect, TakeBackup, Chain, Close, MirrorInv
      <4>2. ~ Crash /\ ~ \E c \in 1..MaxVersion : Boot(c)
        BY <2>4 DEF Crash, Down, Boot, AfterTrail
      <4>3. Prune => UNCHANGED <<trail, cut, read>> /\ pc = "prune"
        BY DEF Prune
      <4>4. AddProject \/ LoseVersion \/ UNCHANGED vars => UNCHANGED <<trail, cut, read, pc, verdict>>
        BY DEF AddProject, LoseVersion, vars, disk
      <4> QED BY <1>3, <2>4, <4>1, <4>2, <4>3, <4>4 DEF Next, Step
    <3>2. Readable
      BY <2>4, <3>1 DEF Readable, BadLines, Bad
    <3>3. Follows(i)
      BY <1>0, <2>2, <2>4, <3>1, <3>2 DEF MirrorInv
    <3> QED BY <2>1, <3>1, <3>3 DEF Follows
  <2> QED BY <2>2, <2>3, <2>4 DEF MirrorInv
<1> QED BY <1>1, <1>2, <1>3

\* A start that rebuilt the mirror leaves it saying what the trail says, whatever
\* earlier starts left in either.
THEOREM MirrorIsTrue == Spec => []MirrorFollowsTrail
<1>1. Init => FollowInv
  BY InitAtomic, InitAnn, InitIds, InitTruth, InitFollow DEF FollowInv, TruthInv, AnnouncedInv
<1>2. FollowInv /\ [Next]_vars => FollowInv'
  BY NextTruth, NextFresh, NextMark, NextMirror DEF FollowInv
<1>3. FollowInv => MirrorFollowsTrail
  BY DEF FollowInv, MirrorInv, Follows, MirrorFollowsTrail
<1> QED BY <1>1, <1>2, <1>3, PTL DEF Spec
=============================================================================
