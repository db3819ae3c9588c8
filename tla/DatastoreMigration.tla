-------------------------- MODULE DatastoreMigration -------------------------
(***************************************************************************)
(* The start of the server over cloude.db and migration_trail.jsonl        *)
(* (src/core/db_migration.py, migration_trail.py, trail_reader.py,         *)
(* db_backup.py, db_version_gate.py): the trail is read and its unclosed   *)
(* steps are marked, the step is announced, a backup is taken and          *)
(* verified, the chain of steps runs in one transaction, the announcement  *)
(* is closed, the table that mirrors the trail is rebuilt and old backups  *)
(* are dropped.  The process may stop between any two of these, or with a  *)
(* line of the trail half written.                                         *)
(*                                                                         *)
(* A start opens at most one step, so the number of the start stands for   *)
(* the entry_uuid of that step.                                            *)
(***************************************************************************)
EXTENDS Integers, Sequences, SequencesExt, FiniteSetsExt

CONSTANTS MaxVersion,  \* the newest schema any release knows
          KeepLast,    \* DEFAULT_KEEP_LAST, backups that prune_backups spares
          None,        \* no meta.schema_version row, no mirror row
          Garbled,     \* a meta.schema_version that does not parse
          MaxBoots     \* bound: starts

ASSUME BoundsAssumption == MaxVersion \in Nat \ {0} /\ KeepLast \in Nat \ {0} /\ MaxBoots \in Nat

VARIABLES trail,    \* the lines of the file
          cut,      \* its last line has no newline
          tables,   \* the schema the tables really have; 0: none
          meta,     \* meta.schema_version
          file,     \* cloude.db exists and is not empty
          rows,     \* the projects table has a row
          mirror,   \* the migration_trail table: entry -> status
          kept,     \* verified backups
          moves,    \* committed chains, oldest first (history)
          code,     \* CURRENT_SCHEMA_VERSION of the running release
          boots,    \* starts so far
          pc, verdict, mirrored,
          read,     \* the trail as this start read it
          todo,     \* numbers of the unclosed lines still to mark
          started,  \* this start has announced its step
          outcome   \* what the closing line will say

disk == <<trail, cut, tables, meta, file, rows, mirror, kept, moves>>
vars == <<disk, code, boots, pc, verdict, mirrored, read, todo, started, outcome>>

Version == 0..MaxVersion
Entry == 1..MaxBoots
Closing == {"completed", "failed", "interrupted", "completed_after_interrupt"}
Status == Closing \cup {"started"}

ASSUME NoneAssumption ==
    None \notin Version /\ None \notin Status /\ Garbled \notin Version /\ Garbled # None

\* A line is whole, or cut off behind its entry_uuid and kind (`torn'), or
\* not to be made sense of (`junk').
Line == [id : Entry \cup {0}, st : Status, to : Version, shape : {"whole", "torn", "junk"}]

Whole(i, s, v) == [id |-> i, st |-> s, to |-> v, shape |-> "whole"]
Torn(i) == [id |-> i, st |-> "started", to |-> 0, shape |-> "torn"]
Junk == [id |-> 0, st |-> "started", to |-> 0, shape |-> "junk"]

Backup == [ver : Version, id : Entry]
Move == [id : Entry, from : Version, to : Version]
-----------------------------------------------------------------------------
(* Reading the trail.                                                      *)

\* A line that ends the reading: anything but a whole line, and but a torn one
\* at the very end of the file.
Bad(i) ==
    /\ trail[i].shape # "whole"
    /\ ~ (trail[i].shape = "torn" /\ i = Len(trail) /\ cut)

BadLines == {i \in 1..Len(trail) : Bad(i)}

Readable == BadLines = {}

\* The lines before the first bad one.
Good == {k \in 1..Len(trail) : \A j \in 1..k : ~ Bad(j)}

\* trail.read().
Read == [ok |-> Readable, lines |-> [k \in Good |-> trail[k]]]

\* find_unclosed(): the numbers of those lines.
Unclosed(lines) ==
    {k \in DOMAIN lines :
        /\ lines[k].st = "started"
        /\ \A j \in DOMAIN lines : lines[j].id = lines[k].id => lines[j].st \notin Closing}

\* Mutation: any earlier attempt counts as interrupted, one that failed too.
PriorAttempted ==
    \E k \in DOMAIN read.lines : read.lines[k].st = "started" /\ read.lines[k].to = code

\* prior_interrupt_uuid(): an earlier attempt at this version never ended.
Prior == \E k \in Unclosed(read.lines) : read.lines[k].to = code

\* What the lines last say of entry i.
Latest(lines, i) ==
    LET of == {k \in DOMAIN lines : lines[k].id = i}
    IN  IF of = {} THEN None ELSE lines[Max(of)].st

\* Mutation: a row that is there already is left as it is.
UpsertedOnce(lines) ==
    [i \in Entry |-> IF mirror[i] = None THEN Latest(lines, i) ELSE mirror[i]]

\* reconcile_mirror().
Upserted(lines) ==
    [i \in Entry |-> IF Latest(lines, i) = None THEN mirror[i] ELSE Latest(lines, i)]
-----------------------------------------------------------------------------
(* Writing the trail.                                                      *)

\* A write lands behind the last byte, newline or not: behind a cut-off line it
\* makes one line of the two.
Put(l, ended) ==
    /\ cut' = ~ ended
    /\ trail' =
         IF ~ cut THEN Append(trail, l)
         ELSE [trail EXCEPT ![Len(trail)] =
                 IF ended THEN Junk ELSE IF @.shape = "junk" THEN l ELSE Torn(@.id)]

\* MigrationTrail.append() of a whole line.  It raises before the write, or after
\* it when the fsync fails.
Appended(l) == Put(l, TRUE)
Raised(l) == Put(l, TRUE) \/ UNCHANGED <<trail, cut>>

Down == /\ pc' = "down" /\ verdict' = "none" /\ mirrored' = FALSE
        /\ read' = [ok |-> TRUE, lines |-> <<>>] /\ todo' = {}
        /\ started' = FALSE /\ outcome' = "started"

\* Mutation: the verdict is recorded and the start does not return.
SettledNot(v) == verdict' = v /\ UNCHANGED pc

Settled(v) == pc' = "up" /\ verdict' = v

Init ==
    /\ trail = <<>> /\ cut = FALSE
    /\ tables \in Version
    /\ meta = IF tables = 0 THEN None ELSE tables
    /\ file = (tables > 0)
    /\ rows \in (IF file THEN BOOLEAN ELSE {FALSE})
    /\ mirror = [i \in Entry |-> None] /\ kept = {} /\ moves = <<>>
    /\ code \in 1..MaxVersion /\ boots = 0
    /\ pc = "down" /\ verdict = "none" /\ mirrored = FALSE
    /\ read = [ok |-> TRUE, lines |-> <<>>] /\ todo = {}
    /\ started = FALSE /\ outcome = "started"
-----------------------------------------------------------------------------
(* One start, step by step.                                                *)

\* Where the start goes on once the trail is resolved.
AfterTrail(ok) == IF ~ file /\ ok THEN "announce" ELSE "connect"

\* A start of release c reads the trail.
Boot(c) ==
    /\ pc = "down" /\ boots < MaxBoots
    /\ boots' = boots + 1 /\ code' = c
    /\ read' = Read
    /\ todo' = IF read'.ok THEN Unclosed(read'.lines) ELSE {}
    /\ pc' = IF todo' = {} THEN AfterTrail(read'.ok) ELSE "mark"
    /\ UNCHANGED <<disk, verdict, mirrored, started, outcome>>

\* The line that closes the first entry left to mark.
Interruption ==
    LET l == read.lines[Min(todo)] IN Whole(l.id, "interrupted", l.to)

\* mark_interrupted(); the first failure ends the marking.
Mark ==
    /\ pc = "mark"
    /\ \/ Appended(Interruption) /\ todo' = todo \ {Min(todo)}
       \/ Raised(Interruption) /\ todo' = {}
    /\ pc' = IF todo' = {} THEN AfterTrail(read.ok) ELSE "mark"
    /\ UNCHANGED <<tables, meta, file, rows, mirror, kept, moves, code, boots, verdict, mirrored,
                   read, started, outcome>>

Current == IF meta = None THEN 0 ELSE meta

BackupOrChain == IF Current = 0 THEN "chain" ELSE "backup"

\* Mutation: the start goes on unannounced.
GoneOn ==
    /\ started' = TRUE /\ UNCHANGED verdict
    /\ pc' = IF pc = "announce" THEN "connect" ELSE BackupOrChain

\* No announcement, no migration.
GivenUp == Settled("readonly") /\ UNCHANGED started

\* open_step(), before the database is created or once its version is known.
Announce ==
    /\ pc \in {"announce", "open"}
    /\ \/ /\ Appended(Whole(boots, "started", code))
          /\ started' = TRUE
          /\ pc' = IF pc = "announce" THEN "connect" ELSE BackupOrChain
          /\ UNCHANGED verdict
       \/ /\ Raised(Whole(boots, "started", code))
          /\ GivenUp
    /\ UNCHANGED <<tables, meta, file, rows, mirror, kept, moves, code, boots, mirrored, read,
                   todo, outcome>>

\* Mutation: no version row means a fresh database, whatever its tables hold.
BlockedUnparsable == meta = Garbled

\* resolve_startable_version() refuses to name a version.
Blocked == meta = Garbled \/ (Current = 0 /\ rows)

\* connect() creates the file.  It may fail, and so may the integrity check.
Connect ==
    /\ pc = "connect"
    /\ \/ /\ file' = TRUE
          /\ \/ Blocked /\ Settled("readonly")
             \/ ~ Blocked /\ Current > code /\ Settled("readonly")
             \/ ~ Blocked /\ Current <= code /\ ~ read.ok /\ Settled("paused")
             \/ /\ ~ Blocked /\ Current <= code /\ read.ok
                /\ pc' = CASE Current = code -> "reconcile"
                           [] Current < code /\ started -> BackupOrChain
                           [] OTHER -> "open"
                /\ UNCHANGED verdict
       \/ file' \in {file, TRUE} /\ Settled("readonly")
    /\ UNCHANGED <<trail, cut, tables, meta, rows, mirror, kept, moves, code, boots, mirrored, read,
                   todo, started, outcome>>

\* The data is current: only the mirror is rebuilt, from the trail as it was read
\* before the marks of this start.
Reconcile ==
    /\ pc = "reconcile"
    /\ \/ mirror' = Upserted(read.lines) /\ mirrored' = TRUE
       \/ UNCHANGED <<mirror, mirrored>>
    /\ Settled("ok")
    /\ UNCHANGED <<trail, cut, tables, meta, file, rows, kept, moves, code, boots, read, todo,
                   started, outcome>>

Failed == pc' = "close" /\ outcome' = "failed"

\* take_backup(): a copy that cannot be verified is deleted.
TakeBackup ==
    /\ pc = "backup"
    /\ \/ kept' = kept \cup {[ver |-> tables, id |-> boots]} /\ pc' = "chain" /\ UNCHANGED outcome
       \/ Failed /\ UNCHANGED kept
    /\ UNCHANGED <<trail, cut, tables, meta, file, rows, mirror, moves, code, boots, verdict, mirrored,
                   read, todo, started>>

\* run_chain() in one transaction.
Chain ==
    /\ pc = "chain"
    /\ \/ /\ tables' = code /\ meta' = code
          /\ moves' = Append(moves, [id |-> boots, from |-> tables, to |-> code])
          /\ pc' = "close"
          /\ outcome' = IF Prior THEN "completed_after_interrupt" ELSE "completed"
       \/ Failed /\ UNCHANGED <<tables, meta, moves>>
    /\ UNCHANGED <<trail, cut, file, rows, mirror, kept, code, boots, verdict, mirrored, read, todo,
                   started>>

\* _close(): an append that raises is logged and changes nothing.
Close ==
    /\ pc = "close"
    /\ \/ Appended(Whole(boots, outcome, code))
       \/ Raised(Whole(boots, outcome, code))
    /\ IF outcome = "failed" THEN Settled("readonly") ELSE pc' = "mirror" /\ UNCHANGED verdict
    /\ UNCHANGED <<tables, meta, file, rows, mirror, kept, moves, code, boots, mirrored, read, todo,
                   started, outcome>>

Mirror ==
    /\ pc = "mirror"
    /\ \/ mirror' = Upserted(Read.lines) /\ mirrored' = TRUE
       \/ UNCHANGED <<mirror, mirrored>>
    /\ pc' = "prune"
    /\ UNCHANGED <<trail, cut, tables, meta, file, rows, kept, moves, code, boots, verdict, read, todo,
                   started, outcome>>

\* Mutation: the oldest are spared.
SparedOldest(b) == Cardinality({c \in kept : c.id <= b.id}) <= KeepLast

\* Among the newest KeepLast.
Spared(b) == Cardinality({c \in kept : c.id >= b.id}) <= KeepLast

\* prune_backups(): a backup that is not spared goes when it is older than 90
\* days and can be unlinked.
Prune ==
    /\ pc = "prune"
    /\ \E gone \in SUBSET {b \in kept : ~ Spared(b)} : kept' = kept \ gone
    /\ Settled("ok")
    /\ UNCHANGED <<trail, cut, tables, meta, file, rows, mirror, moves, code, boots, mirrored, read,
                   todo, started, outcome>>

\* The line being written when the process stops.
Writing ==
    CASE pc = "mark" -> Interruption
      [] pc \in {"announce", "open"} -> Whole(boots, "started", code)
      [] pc = "close" -> Whole(boots, outcome, code)

\* The process stops, at most with a part of a line written.
Crash ==
    /\ pc # "down" /\ Down
    /\ \/ UNCHANGED <<trail, cut>>
       \/ /\ pc \in {"mark", "announce", "open", "close"}
          /\ \E l \in {Writing, Torn(Writing.id), Junk} : Put(l, FALSE)
    /\ UNCHANGED <<tables, meta, file, rows, mirror, kept, moves, code, boots>>
-----------------------------------------------------------------------------
(* What happens to the data meanwhile.                                     *)

\* The user adds a project to a writable datastore.
AddProject ==
    /\ pc = "up" /\ verdict \in {"ok", "paused"} /\ tables > 0 /\ ~ rows
    /\ rows' = TRUE
    /\ UNCHANGED <<trail, cut, tables, meta, file, mirror, kept, moves, code, boots, pc, verdict,
                   mirrored, read, todo, started, outcome>>

\* The version row of a populated database is lost or overwritten.
LoseVersion ==
    /\ pc = "down" /\ rows /\ meta \in Version
    /\ meta' \in {None, Garbled}
    /\ UNCHANGED <<trail, cut, tables, file, rows, mirror, kept, moves, code, boots, pc, verdict,
                   mirrored, read, todo, started, outcome>>

Step == Mark \/ Announce \/ Connect \/ Reconcile \/ TakeBackup \/ Chain \/ Close \/ Mirror \/ Prune

Next == (\E c \in 1..MaxVersion : Boot(c)) \/ Step \/ Crash \/ AddProject \/ LoseVersion

Spec == Init /\ [][Next]_vars /\ WF_vars(Step)
-----------------------------------------------------------------------------
TypeOK ==
    /\ trail \in Seq(Line) /\ cut \in BOOLEAN
    /\ tables \in Version /\ meta \in Version \cup {None, Garbled}
    /\ file \in BOOLEAN /\ rows \in BOOLEAN
    /\ mirror \in [Entry -> Status \cup {None}]
    /\ kept \subseteq Backup /\ moves \in Seq(Move)
    /\ code \in 1..MaxVersion /\ boots \in 0..MaxBoots
    /\ pc \in {"down", "mark", "announce", "connect", "open", "reconcile", "backup", "chain",
               "close", "mirror", "prune", "up"}
    /\ verdict \in {"none", "ok", "paused", "readonly"} /\ mirrored \in BOOLEAN
    /\ read.ok \in BOOLEAN /\ DOMAIN read.lines \subseteq 1..Len(trail)
    /\ \A k \in DOMAIN read.lines : read.lines[k] \in Line
    /\ todo \subseteq DOMAIN read.lines
    /\ started \in BOOLEAN /\ outcome \in Status

Announces(l, i, v) == l.st = "started" /\ l.shape = "whole" /\ l.id = i /\ l.to = v

\* A trail that can be read holds the announcement of every committed chain,
\* whatever was cut off, failed or glued on the way (open_step()'s hard stop).
EveryMoveIsAnnounced ==
    Readable => \A m \in ToSet(moves) : \E l \in ToSet(trail) : Announces(l, m.id, m.to)

\* What a closing line says happened, happened: a completed step committed, a
\* failed one did not, and a step completed after an interrupt had an earlier
\* attempt that neither committed nor failed (prior_interrupt_uuid()).
TrailTellsTheTruth ==
    \A k \in 1..Len(trail) : trail[k].shape = "whole" =>
        LET l == trail[k] IN
        /\ l.st \in {"completed", "completed_after_interrupt"} =>
              \E m \in ToSet(moves) : m.id = l.id /\ m.to = l.to
        /\ l.st = "failed" => \A m \in ToSet(moves) : m.id # l.id
        /\ Readable /\ l.st = "completed_after_interrupt" =>
              \E j \in 1..(k - 1) :
                  /\ Announces(trail[j], trail[j].id, l.to) /\ trail[j].id # l.id
                  /\ \A m \in ToSet(moves) : m.id # trail[j].id
                  /\ \A n \in 1..Len(trail) : trail[n].id = trail[j].id => trail[n].st # "failed"

\* The way back from the last chain is there: the backup taken for it, of the
\* version it left, survives crashes, retries and the pruning of later starts.
LastMoveIsReversible ==
    moves # <<>> /\ Last(moves).from > 0 =>
        [ver |-> Last(moves).from, id |-> Last(moves).id] \in kept

\* After a start that rebuilt the mirror table, the table says what the file says,
\* but for entries that very start marked interrupted after it had read the trail.
MirrorFollowsTrail ==
    pc = "up" /\ verdict = "ok" /\ mirrored /\ Readable =>
        \A i \in Entry :
            \/ mirror[i] = Latest(trail, i)
            \/ /\ mirror[i] = "started" /\ Latest(trail, i) = "interrupted"
               /\ \E k \in Unclosed(read.lines) : read.lines[k].id = i

Phase ==
    CASE pc = "down" -> "down"
      [] pc = "up" /\ verdict = "ok" -> "current"
      [] pc = "up" /\ verdict # "ok" -> "refused"
      [] OTHER -> "starting"

Abstract == INSTANCE AtomicUpgrade WITH Schema <- Version, schema <- tables, phase <- Phase

\* The start implements AtomicUpgrade: one step to the code's schema or none, and
\* data served only at that schema.
UpgradeIsAtomic == Abstract!Safety

\* And every start that is not killed ends in an answer ("never blocks boot").
StartsEnd == Abstract!Liveness
=============================================================================
