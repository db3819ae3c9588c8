---------------------------- MODULE SessionRecords ----------------------------
(***************************************************************************)
(* The rows of the sessions table and the tmux panes they stand for        *)
(* (src/core/session_identity.py, session_reconcile.py, session_lineage.py,*)
(* session_lifecycle.py, session_restart.py, session_fork.py,              *)
(* session_create_persist.py, session_adopt_persist.py,                    *)
(* session_close_lifecycle.py and their callers in session_manager.py and  *)
(* api/routes.py).                                                         *)
(*                                                                         *)
(* A row is an ANCHOR when it holds a tmux identity (name, epoch); the     *)
(* other rows are conversations that a pane has moved through, hung below  *)
(* the anchor.  A row's id is its place in "rows": none is ever deleted.   *)
(* An epoch is a second: two panes may share one.                          *)
(***************************************************************************)
EXTENDS Naturals, Sequences, FiniteSetsExt

CONSTANTS Name,       \* names of tmux sessions
          Request,    \* slots for requests of browsers, each across its awaits
          None,       \* nothing: no epoch, row, conversation or name
          Depth,      \* _MAX_LINEAGE_DEPTH
          MaxConv,    \* bound: conversations
          MaxNow,     \* bound: seconds
          MaxEvents   \* bound: panes made, renames, forks asked of the browser, hooks that
                      \* arrive empty or never and listings that fail, in all

ASSUME BoundsAssumption == {MaxConv, MaxNow, MaxEvents} \subseteq Nat
ASSUME DepthAssumption == Depth \in Nat \ {0}
ASSUME NoneAssumption == None \notin Nat \cup Name

VARIABLES now,    \* the second
          panes,  \* the live tmux sessions, by name
          rows,   \* the table
          jobs,   \* requests under way
          convs,  \* the conversations so far
          used    \* the events so far: panes made, and others

vars == <<now, panes, rows, jobs, convs, used>>

Row == DOMAIN rows
Live == DOMAIN panes

\* A pane: tmux's identity of it; home, the name under which the server knows
\* the session id its hooks carry (None: it has no hooks); the conversation it
\* shows or, between two, the one it will resume and the source its claude will
\* give; whether another claude runs in it; ended, its entry in
\* _last_session_end_uuid.  heard is history: of the moves of this pane, some
\* were not recorded ("part"), or all were and a hook of another process met its
\* entry or an empty row, or its line met another pane's ("mixed"), or all were
\* and none did ("all").
Pane(home, conv, resumes) ==
    [sid |-> used.panes + 1, epoch |-> now, home |-> home, conv |-> conv,
     resumes |-> resumes, source |-> IF resumes = None THEN "startup" ELSE "resume",
     other |-> FALSE, ended |-> FALSE, heard |-> IF home = None THEN "part" ELSE "all"]

Init ==
    /\ now = 1
    /\ panes = <<>> /\ rows = <<>> /\ jobs = <<>>
    /\ convs = 0 /\ used = [panes |-> 0, odd |-> 0]

Without(f, x) == [y \in DOMAIN f \ {x} |-> f[y]]
With(f, x, v) == [y \in DOMAIN f \cup {x} |-> IF y = x THEN v ELSE f[y]]

Spend(what) == used.panes + used.odd < MaxEvents /\ used' = [used EXCEPT ![what] = @ + 1]
-----------------------------------------------------------------------------
(* Queries.                                                                *)

\* get_instance: by name and second, not by tmux's session id.
Instance(rs, n, e) == {r \in DOMAIN rs : rs[r].epoch # None /\ rs[r].name = n /\ rs[r].epoch = e}

\* identity_for_live_name, newest_anchor_uuid: the newest row of a name.
Newest(rs, n) ==
    LET anchors == {r \in DOMAIN rs : rs[r].name = n /\ rs[r].epoch # None}
    IN  IF anchors = {} THEN None
        ELSE LET e == Max({rs[r].epoch : r \in anchors})
             IN  Max({r \in anchors : rs[r].epoch = e})

KnownAs(rs, c) == {r \in DOMAIN rs : rs[r].conv = c}

\* Mutation: the newest child of any kind.
FollowAny(rs, r) ==
    LET kids == {k \in DOMAIN rs : rs[k].parent = r}
    IN  IF kids = {} THEN r ELSE Max(kids)

\* One step of lineage_head: the newest child the pane has followed.
Follow(rs, r) ==
    LET kids == {k \in DOMAIN rs : rs[k].parent = r /\ rs[k].kind # "background"}
    IN  IF kids = {} THEN r ELSE Max(kids)

\* lineage_head; Line is the rows it passes.
Line(rs, a) ==
    LET step[i \in 0 .. Depth] == IF i = 0 THEN a ELSE Follow(rs, step[i - 1])
    IN  step
lineage_head(rs, a) == Line(rs, a)[Depth]
-----------------------------------------------------------------------------
(* Writers.  Each takes the table and gives the table.                     *)

\* reconcile_from_listing, which every complete listing runs.  Its rename pass
\* looks for a key that the listing does not emit, so it never finds a rename.
Reconciled(rs, listing) ==
    IF listing # "complete" THEN rs
    ELSE [r \in DOMAIN rs |->
            IF /\ rs[r].life = "running" /\ rs[r].epoch # None
               /\ ~ \E n \in Live : n = rs[r].name /\ panes[n].epoch = rs[r].epoch
            THEN [rs[r] EXCEPT !.life = "stopped"] ELSE rs[r]]

\* Mutation: a stopped row is taken for the live pane again.
RefusedIfForeign(rs, n) ==
    \E r \in Instance(rs, n, panes[n].epoch) : rs[r].sid # panes[n].sid

\* record_instance and reconcile_existing, for the live pane of name n.
Refused(rs, n) ==
    \E r \in Instance(rs, n, panes[n].epoch) : rs[r].sid # panes[n].sid \/ rs[r].life = "stopped"

Sighted(rs, n) ==
    LET found == Instance(rs, n, panes[n].epoch)
    IN  IF found # {}
        THEN [r \in DOMAIN rs |-> IF r \in found THEN [rs[r] EXCEPT !.life = "running"] ELSE rs[r]]
        ELSE Append(rs, [name |-> n, epoch |-> panes[n].epoch, sid |-> panes[n].sid,
                         life |-> "running", conv |-> None, parent |-> None, kind |-> None])

\* Mutation: rebind_instance does not look for another row of the pane.
NeverClashes(rs, r, n) == FALSE

\* rebind_instance.
Clashes(rs, r, n) == Instance(rs, n, panes[n].epoch) \ {r} # {}

Rebound(rs, r, n) ==
    [rs EXCEPT ![r].name = n, ![r].epoch = panes[n].epoch, ![r].sid = panes[n].sid,
               ![r].life = "running"]

\* bind_correlated_uuid: onto the anchor, whatever hangs below it.
Correlated(rs, n, c) ==
    LET found == Instance(rs, n, panes[n].epoch)
    IN  IF c = None \/ KnownAs(rs, c) # {} THEN rs
        ELSE [r \in DOMAIN rs |-> IF r \in found /\ rs[r].conv = None
                                  THEN [rs[r] EXCEPT !.conv = c] ELSE rs[r]]

Mixed(p) == IF p.heard = "all" THEN [p EXCEPT !.heard = "mixed"] ELSE p

\* The row of pane p, live under name n, and the rows its line passes.
Own(rs, n, p) == {a \in Instance(rs, n, p.epoch) : rs[a].sid = p.sid}
Passed(rs, a) == LET line == Line(rs, a) IN {line[i] : i \in 0 .. Depth}

Joined(rs, a) ==
    \E b \in DOMAIN rs \ {a} : rs[b].epoch # None /\ Passed(rs, a) \cap Passed(rs, b) # {}

\* History: a fork of the browser and a restart can join the lines of two panes.
Noted(ps, rs) ==
    [n \in DOMAIN ps |-> IF \E a \in Own(rs, n, ps[n]) : Joined(rs, a) THEN Mixed(ps[n]) ELSE ps[n]]

PROCESS_BOOT_SOURCES == {"startup", "resume"}

\* record_claude_session.
Recorded(rs, n, c, source, left) ==
    LET found == Instance(rs, n, panes[n].epoch)
        head == lineage_head(rs, CHOOSE r \in found : TRUE)
        kind == IF source = "fork" /\ ~ left THEN "background" ELSE source
    IN  CASE KnownAs(rs, c) # {} \/ found = {} -> rs
          [] OTHER ->
             IF rs[head].conv = None THEN [rs EXCEPT ![head].conv = c]
             ELSE IF source \in PROCESS_BOOT_SOURCES THEN rs
             ELSE Append(rs, [name |-> n, epoch |-> None, sid |-> None, life |-> "stopped",
                              conv |-> c, parent |-> head, kind |-> kind])

\* mark_as_fork.
Stamped(rs, r, p) ==
    IF rs[r].parent # None THEN rs ELSE [rs EXCEPT ![r].parent = p, ![r].kind = "fork"]
-----------------------------------------------------------------------------
(* tmux and time [external], beside the server.                            *)

Tick == now < MaxNow /\ now' = now + 1 /\ UNCHANGED <<panes, rows, jobs, convs, used>>

\* A session made in a terminal, with a claude that is new or resumes.
StartOutside(n) ==
    /\ n \notin Live /\ Spend("panes")
    /\ \/ \E c \in {rows[r].conv : r \in Row} \ {None} :
            panes' = With(panes, n, Pane(None, c, None)) /\ UNCHANGED convs
       \/ /\ convs < MaxConv /\ convs' = convs + 1
          /\ panes' = With(panes, n, Pane(None, convs + 1, None))
    /\ UNCHANGED <<now, rows, jobs>>

Die(n) == n \in Live /\ panes' = Without(panes, n) /\ UNCHANGED <<now, rows, jobs, convs, used>>

Rename(n, m) ==
    /\ n \in Live /\ m \notin Live /\ Spend("odd")
    /\ panes' = With(Without(panes, n), m, [panes[n] EXCEPT !.heard = "part"])
    /\ UNCHANGED <<now, rows, jobs, convs>>
-----------------------------------------------------------------------------
(* The claude processes of a pane [external] and what                      *)
(* record_claude_lifecycle_event makes of their hooks.  A claude waits for *)
(* the hook it runs: its hooks arrive in their order, or not at all.       *)

Fresh == convs + 1

\* The SessionStart of conversation c in the pane of name n, which becomes p.
\* The server takes it for the pane that is live under p's home.
Start(n, p, c, source) ==
    LET taken == p.home \in Live
        mine == taken /\ panes[p.home].sid = p.sid
        rs == Reconciled(rows, "complete")
        ps == With(panes, n, [p EXCEPT !.ended = FALSE])
        miss == [p EXCEPT !.heard = "part"]
    IN  /\ c <= MaxConv /\ convs' = Max({convs, c})
        /\ \/ /\ rows' = IF taken THEN Recorded(rs, p.home, c, source, p.ended) ELSE rs
              /\ panes' = CASE ~ taken -> ps
                           [] mine -> IF KnownAs(rs, c) = {} /\ Instance(rs, p.home, p.epoch) = {}
                                      THEN With(ps, n, [miss EXCEPT !.ended = FALSE]) ELSE ps
                           [] OTHER -> With(ps, p.home, Mixed(panes[p.home]))
              /\ UNCHANGED used
           \/ \* It is lost, or its listing fails once the entry is taken.
              /\ Spend("odd") /\ UNCHANGED rows
              /\ \E ended \in {p.ended, FALSE} : panes' = With(panes, n, [miss EXCEPT !.ended = ended])
           \/ \* _recover_lineage_without_payload: from the evidence of the pane.
              /\ Spend("odd") /\ mine
              /\ rows' = Correlated(rs, p.home, p.conv) /\ panes' = With(panes, n, miss)
        /\ UNCHANGED <<now, jobs>>

\* The claude of the pane comes up, or enters the conversation it moves to.
Enter(n) ==
    /\ n \in Live /\ panes[n].home # None /\ panes[n].conv = None /\ now > panes[n].epoch
    /\ LET c == IF panes[n].resumes = None THEN Fresh ELSE panes[n].resumes
       IN  Start(n, [panes[n] EXCEPT !.conv = c], c, panes[n].source)

\* It leaves a conversation, by /clear or /branch, or quits and is started
\* again; its SessionEnd arrives or is lost.
Leave(n, source) ==
    /\ n \in Live /\ panes[n].home # None /\ panes[n].conv # None /\ convs < MaxConv
    /\ LET p == [panes[n] EXCEPT !.conv = None, !.resumes = None, !.source = source,
                                 !.heard = IF source = "startup" THEN "part" ELSE @]
       IN  \/ panes' = With(panes, n, [p EXCEPT !.ended = TRUE]) /\ UNCHANGED used
           \/ panes' = With(panes, n, [p EXCEPT !.heard = "part"]) /\ Spend("odd")
    /\ UNCHANGED <<now, rows, jobs, convs>>

\* Another claude comes up in the pane: a background agent (/fork), or one
\* that a tool has started.
OtherStarts(n, source) ==
    /\ n \in Live /\ panes[n].home # None /\ panes[n].conv # None /\ ~ panes[n].other
    /\ LET empty == \E r \in Instance(rows, n, panes[n].epoch) :
                       rows[lineage_head(rows, r)].conv = None
           p == [panes[n] EXCEPT !.other = TRUE]
       IN  Start(n, IF p.ended \/ empty THEN Mixed(p) ELSE p, Fresh, source)

OtherEnds(n) ==
    /\ n \in Live /\ panes[n].other
    /\ panes' = [panes EXCEPT ![n] = Mixed([@ EXCEPT !.other = FALSE, !.ended = TRUE])]
    /\ UNCHANGED <<now, rows, jobs, convs, used>>
-----------------------------------------------------------------------------
(* Requests.                                                               *)

Listing == {"complete", "partial", "failed"}

\* The listing a step asks for: a failed or a partial one is a fault.
Lists(listing) ==
    IF listing = "complete" THEN UNCHANGED used ELSE Spend("odd")

\* Every poll of the session list.
List ==
    /\ rows' = Reconciled(rows, "complete") /\ rows' # rows
    /\ UNCHANGED <<now, panes, jobs, convs, used>>

Asks(q, job) == q \notin DOMAIN jobs /\ jobs' = With(jobs, q, job)

Job(kind, stage, n, r, c) == [kind |-> kind, stage |-> stage, name |-> n, row |-> r, conv |-> c]

\* fork_session: the newest row of the name, and that row's own conversation.
AskFork(q, n) ==
    LET r == Newest(rows, n)
    IN  /\ r # None /\ rows[r].conv # None /\ Spend("odd")
        /\ Asks(q, Job("fork", "spawn", None, r, None))
        /\ UNCHANGED <<now, panes, rows, convs>>

\* restart_session: a row the client has seen stopped; the conversation of its
\* lineage_head, or else its own.
AskRestart(q, r) ==
    LET c == rows[lineage_head(rows, r)].conv
    IN  /\ rows[r].life = "stopped"
        /\ Asks(q, Job("restart", "spawn", None, r, IF c # None THEN c ELSE rows[r].conv))
        /\ UNCHANGED <<now, panes, rows, convs, used>>

\* create_session, as far as the pane, under a name that is free: for a request
\* that waits, or for a new one of the browser.  A fork's claude runs with
\* --fork-session.
Spawn(q, n) ==
    /\ n \notin Live /\ Spend("panes")
    /\ \/ /\ q \in DOMAIN jobs /\ jobs[q].stage = "spawn"
          /\ LET p == Pane(n, None, jobs[q].conv)
             IN  panes' = With(panes, n, IF jobs[q].kind = "fork" THEN [p EXCEPT !.source = "fork"] ELSE p)
          /\ jobs' = [jobs EXCEPT ![q].stage = "persist", ![q].name = n]
       \/ /\ Asks(q, Job("create", "persist", n, None, None))
          /\ panes' = With(panes, n, Pane(n, None, None))
    /\ UNCHANGED <<now, rows, convs>>

\* persist_creation, for whatever pane is live under the name.  A row whose line
\* has moved on, in a pane that still holds it, gets a pane that resumes what
\* the other has left (history: heard).
Persist(q, listing) ==
    LET job == jobs[q]
        n == job.name
        rs == Reconciled(rows, listing)
        rebinds == job.kind = "restart" /\ ~ Clashes(rs, job.row, n)
    IN  /\ q \in DOMAIN jobs /\ job.stage = "persist" /\ Lists(listing)
        /\ IF listing = "failed" \/ n \notin Live
           THEN rows' = rs /\ UNCHANGED panes
           ELSE /\ rows' = CASE rebinds -> Rebound(rs, job.row, n)
                             [] ~ rebinds /\ ~ Refused(rs, n) -> Sighted(rs, n)
                             [] OTHER -> rs
                /\ panes' = Noted(IF rebinds /\ rs[lineage_head(rs, job.row)].conv # panes[n].resumes
                                  THEN [panes EXCEPT ![n].heard = "part"] ELSE panes, rows')
        /\ jobs' = IF job.kind = "fork" THEN [jobs EXCEPT ![q].stage = "stamp"] ELSE Without(jobs, q)
        /\ UNCHANGED <<now, convs>>

\* fork_session, _stamp: the newest row of the child's name.
Stamp(q) ==
    /\ q \in DOMAIN jobs /\ jobs[q].stage = "stamp"
    /\ LET r == Newest(rows, jobs[q].name)
       IN  rows' = IF r = None THEN rows ELSE Stamped(rows, r, jobs[q].row)
    /\ panes' = Noted(panes, rows') /\ jobs' = Without(jobs, q)
    /\ UNCHANGED <<now, convs, used>>

\* SessionManager.persist_adoption; the correlation finds the pane's
\* conversation, or nothing.
Adopt(n, listing) ==
    LET rs == Reconciled(rows, listing)
    IN  /\ n \in Live /\ listing # "failed" /\ Lists(listing)
        /\ IF Refused(rs, n) THEN rows' = rs
           ELSE \E c \in {None} \cup (IF now > panes[n].epoch THEN {panes[n].conv} ELSE {}) :
                    rows' = Correlated(Sighted(rs, n), n, c)
        /\ UNCHANGED <<now, panes, jobs, convs>>

\* destroy_session, as far as the kill; its row is marked after further awaits.
Destroy(q, n) ==
    /\ n \in Live /\ panes[n].home # None
    /\ Asks(q, Job("close", "mark", n, None, None)) /\ panes' = Without(panes, n)
    /\ UNCHANGED <<now, rows, convs, used>>

\* mark_closed: the newest row of the name.
MarkClosed(q) ==
    /\ q \in DOMAIN jobs /\ jobs[q].stage = "mark" /\ jobs' = Without(jobs, q)
    /\ LET r == Newest(rows, jobs[q].name)
       IN  rows' = IF r = None THEN rows ELSE [rows EXCEPT ![r].life = "stopped"]
    /\ UNCHANGED <<now, panes, convs, used>>

\* respawn_session_by_name: the pane keeps its identity; its claude resumes the
\* conversation of the newest row of the name.
Respawn(n) ==
    /\ n \in Live /\ panes[n].home = n /\ panes[n].conv # None
    /\ LET r == Newest(rows, n)
           c == IF r = None THEN None ELSE rows[r].conv
       IN  panes' = [panes EXCEPT ![n].conv = None, ![n].resumes = c, ![n].other = FALSE,
                                  ![n].source = IF c = None THEN "startup" ELSE "resume",
                                  ![n].heard = IF r # None /\ lineage_head(rows, r) = r THEN @ ELSE "part"]
    /\ UNCHANGED <<now, rows, jobs, convs, used>>
-----------------------------------------------------------------------------
Outside == Tick \/ \E n \in Name : StartOutside(n) \/ Die(n) \/ \E m \in Name : Rename(n, m)

Claude ==
    \E n \in Name :
        \/ Enter(n) \/ OtherEnds(n)
        \/ \E source \in {"clear", "fork", "startup"} : Leave(n, source)
        \/ \E source \in {"fork", "startup"} : OtherStarts(n, source)

Server ==
    \/ List
    \/ \E n \in Name : Respawn(n) \/ \E listing \in Listing : Adopt(n, listing)
    \/ \E q \in Request :
        \/ Stamp(q) \/ MarkClosed(q)
        \/ \E r \in Row : AskRestart(q, r)
        \/ \E listing \in Listing : Persist(q, listing)
        \/ \E n \in Name : AskFork(q, n) \/ Spawn(q, n) \/ Destroy(q, n)

Next == Outside \/ Claude \/ Server

Spec == Init /\ [][Next]_vars
-----------------------------------------------------------------------------
\* No tmux session and no conversation has two rows: the unique indexes never
\* have to refuse a write.
NoTwinRows ==
    \A r, s \in Row : r # s =>
        /\ rows[r].epoch # None => <<rows[r].name, rows[r].epoch>> # <<rows[s].name, rows[s].epoch>>
        /\ rows[r].conv # None => rows[r].conv # rows[s].conv

\* A row keeps its past.  What it says of its conversation and of its parent is
\* never rewritten, no row is lost, and one that has stopped comes back only when
\* a restart of that very row is persisted: no listing, adoption, hook or create
\* under its name revives it.
RowsKeepTheirPast ==
    [][/\ Row \subseteq DOMAIN rows'
       /\ \A r \in Row :
            /\ rows[r].conv # None => rows'[r].conv = rows[r].conv
            /\ rows[r].parent # None => rows'[r].parent = rows[r].parent
            /\ rows[r].life = "stopped" /\ rows'[r].life = "running"
               => \E q \in DOMAIN jobs \ DOMAIN jobs' : jobs[q].kind = "restart" /\ jobs[q].row = r]_vars

\* The pane of name n and the row that stands for it, unless the walk stops short
\* of the end of its line.
HeadFollows(n) ==
    \A a \in Own(rows, n, panes[n]) :
        LET head == lineage_head(rows, a)
        IN  panes[n].conv # None /\ Follow(rows, head) = head
            => rows[head].conv \in {None, panes[n].conv}

\* The head of a pane's line never names a conversation that the pane has
\* left, as long as its hooks arrive, no other claude meets its entry and its line
\* is no other pane's.
HeadIsNotLeftBehind == \A n \in Live : panes[n].heard = "all" => HeadFollows(n)

\* The same whatever other claude processes and forks do.
OthersDoNotMoveTheHead == \A n \in Live : panes[n].heard # "part" => HeadFollows(n)
=============================================================================
