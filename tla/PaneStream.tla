----------------------------- MODULE PaneStream ------------------------------
(***************************************************************************)
(* How the output of one tmux pane reaches the browsers that watch it:     *)
(* tmux's pipe-pane runs `cat >> file', a TmuxBackend tails that file and  *)
(* SessionManager hands every chunk to the websockets subscribed to the    *)
(* session (src/core/tmux_backend.py, session_manager.py, session_boot_    *)
(* readopt.py, src/api/websocket.py).                                      *)
(*                                                                         *)
(* The operations that move the stream from one backend to another suspend *)
(* at every tmux command, and SessionManager holds no lock: a step here is *)
(* what runs between two awaits.  The pane is alive throughout and every   *)
(* operation resolves it to the same session id (HookTokens follows the    *)
(* ids); its output is the sequence 1, 2, 3, ...                           *)
(***************************************************************************)
EXTENDS Integers, Sequences, FiniteSets

CONSTANTS Backend,   \* TmuxBackend objects alive at a time
          Op,        \* operations in flight at a time
          Viewer,    \* websocket clients
          None,      \* Python's None, a closed pipe, a missing file
          MaxOut,    \* bound: chunks the pane prints
          MaxFiles,  \* bound: files created
          MaxBoots   \* bound: restarts of the server

ASSUME BoundsAssumption == MaxOut \in Nat /\ MaxFiles \in Nat \ {0} /\ MaxBoots \in Nat

ASSUME NoneAssumption == None \notin Backend \cup Nat

\* The pipe file of a created session and that of an adopted one
\* (tmux_<slug>.pipe, tmux_ext_<slug>.pipe).
Path == {"owned", "ext"}

\* File 0 is the log the user may have piped the pane to.
File == 0..MaxFiles

VARIABLES out,     \* chunks printed so far
          pipe,    \* the file tmux's cat has open
          data,    \* what each file holds
          at,      \* the file each path names
          files,   \* files created so far
          be,      \* the backends
          reg,     \* backends[session_id]
          subs,    \* _subscribers[session_id]
          op,      \* the operations in flight
          view,    \* the websocket clients
          boots

stream == <<out, pipe, data, at, files>>
vars == <<stream, be, reg, subs, op, view, boots>>

\* `task' is _reader_task; `start' _adopt_tail_start_offset; `fd' and `pos' what
\* the tail loop has open and how far it has read.
BackendState == [path : Path, task : {"none", "starting", "tailing"},
                 start : Nat \cup {None}, fd : File \cup {None}, pos : Nat]

Gone == [path |-> "owned", task |-> "none", start |-> None, fd |-> None, pos |-> 0]

OpState == [pc : {"idle", "watcher", "reader", "closing", "cwd", "unpipe", "pipe",
                  "offset", "attach"},
            kind : {"none", "adopt", "readopt", "detach"},
            old : Backend \cup {None}, b : Backend \cup {None}]

Idle == [pc |-> "idle", kind |-> "none", old |-> None, b |-> None]

\* `from' is the last chunk the startup paint showed, `got' what came after.
ViewState == [pc : {"away", "accepted", "subscribed", "open"},
              from : Nat, got : Seq(Nat)]

Away == [pc |-> "away", from |-> 0, got |-> <<>>]
-----------------------------------------------------------------------------
OpAt(o, pc) == op[o].pc = pc

Quiet == \A o \in Op : OpAt(o, "idle")

\* A backend nothing refers to any more.
Unused(b) ==
    /\ be[b].task = "none" /\ reg # b
    /\ \A o \in Op : op[o].b # b /\ op[o].old # b

\* open(path, "a"), by touch() or by the shell of `cat >>'.
Ensured(p) ==
    IF at[p] # None THEN UNCHANGED <<at, files>>
    ELSE /\ files < MaxFiles
         /\ files' = files + 1
         /\ at' = [at EXCEPT ![p] = files + 1]

\* Mutation: the clients of the stale registration are kept.
WipeKeepsClients == reg' = None /\ UNCHANGED subs

\* _wipe_session_state().
Wipe == reg' = None /\ subs' = {}

\* Mutation: the reader of the stale registration is left running.
StoppedNot(b) == be

Stopped(b) == [be EXCEPT ![b] = Gone]

\* A pane created by this server, with its backend tailing; or a pane of the
\* user's own, piped to the user's log or to nothing.
Init ==
    /\ out = 0
    /\ data = [f \in File |-> <<>>]
    /\ \/ \E b \in Backend :
             /\ files = 1 /\ pipe = 1
             /\ at = [p \in Path |-> IF p = "owned" THEN 1 ELSE None]
             /\ be = [c \in Backend |->
                         IF c = b THEN [Gone EXCEPT !.task = "tailing", !.fd = 1] ELSE Gone]
             /\ reg = b
       \/ /\ files = 0 /\ pipe \in {0, None}
          /\ at = [p \in Path |-> None]
          /\ be = [c \in Backend |-> Gone]
          /\ reg = None
    /\ subs = {}
    /\ op = [o \in Op |-> Idle]
    /\ view = [v \in Viewer |-> Away]
    /\ boots = 0
-----------------------------------------------------------------------------
(* The pane and the tail loop.                                             *)

Emit ==
    /\ out < MaxOut
    /\ out' = out + 1
    /\ data' = IF pipe = None THEN data ELSE [data EXCEPT ![pipe] = Append(@, out')]
    /\ UNCHANGED <<pipe, at, files, be, reg, subs, op, view, boots>>

\* Mutation: the loop always starts at the end of the file.
SeekEnd(b, f) == Len(data[f])

\* Where the loop starts reading: the recorded offset, else the end of the file.
Seek(b, f) ==
    IF be[b].start = None THEN Len(data[f])
    ELSE IF be[b].start < Len(data[f]) THEN be[b].start ELSE Len(data[f])

TailOpen(b) ==
    LET f == at[be[b].path] IN
    /\ be[b].task = "starting" /\ f # None
    /\ be' = [be EXCEPT ![b] = [path |-> be[b].path, task |-> "tailing", start |-> None,
                                fd |-> f, pos |-> Seek(b, f)]]
    /\ UNCHANGED <<stream, reg, subs, op, view, boots>>

\* One read() and the on_output of this session id.
TailRead(b) ==
    LET f == be[b].fd IN
    /\ be[b].task = "tailing" /\ be[b].pos < Len(data[f])
    /\ be' = [be EXCEPT ![b].pos = Len(data[f])]
    /\ view' = [v \in Viewer |->
                  IF v \in subs
                  THEN [view[v] EXCEPT !.got = @ \o SubSeq(data[f], be[b].pos + 1, Len(data[f]))]
                  ELSE view[v]]
    /\ UNCHANGED <<stream, reg, subs, op, boots>>

\* _maybe_rotate(): the log is too big or a day old.  It is renamed, and an
\* empty file takes its name; the open descriptors stay where they are.
Rotate(b) ==
    /\ be[b].task = "tailing" /\ at[be[b].path] # None
    /\ files + Cardinality({p \in Path : at[p] = None}) < MaxFiles
    /\ files' = files + 1
    /\ at' = [at EXCEPT ![be[b].path] = files']
    /\ UNCHANGED <<out, pipe, data, be, reg, subs, op, view, boots>>
-----------------------------------------------------------------------------
(* adopt_external_session(), and from Probe on the boot re-adoption.       *)

AdoptBegin(o) ==
    /\ OpAt(o, "idle")
    /\ op' = [op EXCEPT ![o] =
                [Idle EXCEPT !.kind = "adopt", !.old = reg,
                             !.pc = IF reg = None THEN "cwd" ELSE "watcher"]]
    /\ UNCHANGED <<stream, be, reg, subs, view, boots>>

\* The idle watcher has stopped: the reader of the old backend is cancelled.
Cancel(o) ==
    /\ OpAt(o, "watcher")
    /\ be' = Stopped(op[o].old)
    /\ op' = [op EXCEPT ![o].pc = "reader"]
    /\ UNCHANGED <<stream, reg, subs, view, boots>>

AdoptWipe(o) ==
    /\ OpAt(o, "reader") /\ op[o].kind = "adopt"
    /\ Wipe
    /\ op' = [op EXCEPT ![o].pc = "cwd", ![o].old = None]
    /\ UNCHANGED <<stream, be, view, boots>>

PathOf(o) == IF op[o].kind = "adopt" THEN "ext" ELSE "owned"

\* Mutation: a pipe that is already active is taken for ours.
AfterProbeKept == IF pipe = None THEN "pipe" ELSE "offset"

\* ensure_pipe_pane() asks #{pane_pipe} first.
AfterProbe == IF pipe = None THEN "pipe" ELSE "unpipe"

Probe(o) ==
    /\ OpAt(o, "cwd")
    /\ \E b \in Backend :
          /\ Unused(b)
          /\ be' = [be EXCEPT ![b] = [Gone EXCEPT !.path = PathOf(o)]]
          /\ op' = [op EXCEPT ![o].b = b, ![o].pc = AfterProbe]
    /\ UNCHANGED <<stream, reg, subs, view, boots>>

Unpipe(o) ==
    /\ OpAt(o, "unpipe")
    /\ pipe' = None
    /\ op' = [op EXCEPT ![o].pc = "pipe"]
    /\ UNCHANGED <<out, data, at, files, be, reg, subs, view, boots>>

\* pipe-pane without -o replaces whatever pipe there is.
StartPipe(o) ==
    /\ OpAt(o, "pipe")
    /\ Ensured(PathOf(o))
    /\ pipe' = at'[PathOf(o)]
    /\ op' = [op EXCEPT ![o].pc = "offset"]
    /\ UNCHANGED <<out, data, be, reg, subs, view, boots>>

\* _record_tail_start_offset().
RecordOffset(o) ==
    LET f == at[PathOf(o)] IN
    /\ OpAt(o, "offset")
    /\ be' = [be EXCEPT ![op[o].b].start = IF f = None THEN 0 ELSE Len(data[f])]
    /\ op' = [op EXCEPT ![o].pc = "attach"]
    /\ UNCHANGED <<stream, reg, subs, view, boots>>

\* read_async(), then _register_session(), which keeps a subscriber list.
Attach(o) ==
    /\ OpAt(o, "attach")
    /\ be' = [be EXCEPT ![op[o].b].task = "starting"]
    /\ reg' = op[o].b
    /\ op' = [op EXCEPT ![o] = Idle]
    /\ UNCHANGED <<stream, subs, view, boots>>

(* detach_current_session()                                                *)

DetachBegin(o) ==
    /\ OpAt(o, "idle") /\ reg # None
    /\ op' = [op EXCEPT ![o] = [Idle EXCEPT !.kind = "detach", !.pc = "watcher", !.old = reg]]
    /\ UNCHANGED <<stream, be, reg, subs, view, boots>>

DetachClose(o) ==
    /\ OpAt(o, "reader") /\ op[o].kind = "detach"
    /\ pipe' = None
    /\ op' = [op EXCEPT ![o].pc = "closing"]
    /\ UNCHANGED <<out, data, at, files, be, reg, subs, view, boots>>

DetachWipe(o) ==
    /\ OpAt(o, "closing")
    /\ Wipe
    /\ op' = [op EXCEPT ![o] = Idle]
    /\ UNCHANGED <<stream, be, view, boots>>

\* The server dies and comes back; tmux, its cat and the files live on.  Its boot
\* pass may find the row of a pane the server has held before.
Restart ==
    /\ boots < MaxBoots
    /\ boots' = boots + 1
    /\ be' = [b \in Backend |-> Gone]
    /\ Wipe
    /\ view' = [v \in Viewer |-> Away]
    /\ \/ op' = [o \in Op |-> Idle]
       \/ /\ \E p \in Path : at[p] # None
          /\ \E r \in Op : op' = [o \in Op |->
                IF o = r THEN [Idle EXCEPT !.kind = "readopt", !.pc = "cwd"] ELSE Idle]
    /\ UNCHANGED stream
-----------------------------------------------------------------------------
(* websocket_terminal(): the id is looked up, the socket is accepted, the  *)
(* client is subscribed, and the screen is painted after the handshake.    *)

Accept(v) ==
    /\ view[v].pc = "away" /\ reg # None
    /\ view' = [view EXCEPT ![v].pc = "accepted"]
    /\ UNCHANGED <<stream, be, reg, subs, op, boots>>

\* An id that is gone by now subscribes to nothing (the orphan bucket).
Subscribe(v) ==
    /\ view[v].pc = "accepted"
    /\ view' = [view EXCEPT ![v].pc = "subscribed"]
    /\ subs' = IF reg # None THEN subs \cup {v} ELSE subs
    /\ UNCHANGED <<stream, be, reg, op, boots>>

Paint(v) ==
    /\ view[v].pc = "subscribed"
    /\ view' = [view EXCEPT ![v].pc = "open", ![v].from = out]
    /\ UNCHANGED <<stream, be, reg, subs, op, boots>>

Close(v) ==
    /\ view[v].pc # "away"
    /\ view' = [view EXCEPT ![v] = Away]
    /\ subs' = subs \ {v}
    /\ UNCHANGED <<stream, be, reg, op, boots>>

\* What an operation does between two awaits once it has begun.
Resume(o) ==
    \/ Cancel(o) \/ AdoptWipe(o) \/ Probe(o) \/ Unpipe(o) \/ StartPipe(o)
    \/ RecordOffset(o) \/ Attach(o) \/ DetachClose(o) \/ DetachWipe(o)

Follow(b) == TailOpen(b) \/ TailRead(b)

Next ==
    \/ Emit \/ Restart
    \/ \E b \in Backend : Follow(b) \/ Rotate(b)
    \/ \E o \in Op : AdoptBegin(o) \/ DetachBegin(o) \/ Resume(o)
    \/ \E v \in Viewer : Accept(v) \/ Subscribe(v) \/ Paint(v) \/ Close(v)

Spec == Init /\ [][Next]_vars

\* asyncio runs every task that is ready, and the tmux commands an operation
\* awaits come back.
FairSpec ==
    /\ Spec
    /\ \A o \in Op : WF_vars(Resume(o))
    /\ \A b \in Backend : WF_vars(Follow(b))
-----------------------------------------------------------------------------
\* Every variable keeps its declared shape; a reader never stands before the start
\* of its file.
TypeOK ==
    /\ out \in 0..MaxOut /\ files \in 0..MaxFiles /\ boots \in 0..MaxBoots
    /\ pipe \in File \cup {None}
    /\ data \in [File -> Seq(1..MaxOut)]
    /\ at \in [Path -> File \cup {None}]
    /\ be \in [Backend -> BackendState]
    /\ reg \in Backend \cup {None}
    /\ subs \subseteq Viewer
    /\ op \in [Op -> OpState]
    /\ view \in [Viewer -> ViewState]

\* A registered session whose operations have finished streams: the tail of its
\* backend reads, or is about to open, the very file tmux's cat is writing,
\* whatever was adopted, detached, rotated or restarted before.
StreamIsConnected ==
    (Quiet /\ reg # None) =>
        \/ be[reg].task = "starting" /\ at[be[reg].path] = pipe
        \/ be[reg].task = "tailing" /\ be[reg].fd = pipe

\* Once an operation has finished no reader but the registered one is left
\* behind: two of them would print every chunk twice.
OneTailer ==
    Quiet => \A b \in Backend : be[b].task # "none" => b = reg

\* A subscribed client has what the pane printed since its paint, each chunk
\* once and in order, up to what the reader still has in front of it.
ViewersInStep ==
    (Quiet /\ reg # None /\ be[reg].task = "tailing") =>
        \A v \in subs : view[v].pc = "open" =>
            LET f == be[reg].fd
                due == view[v].got \o SubSeq(data[f], be[reg].pos + 1, Len(data[f]))
            IN  \A n \in view[v].from + 1..out :
                  Cardinality({i \in 1..Len(due) : due[i] = n}) = 1

\* No subscribed terminal freezes: what the pane prints after its paint reaches
\* it, unless it leaves or an adoption, a detach or a restart empties the list.
OutputArrives ==
    \A v \in Viewer : \A n \in 1..MaxOut :
        (v \in subs /\ view[v].pc = "open" /\ n \in view[v].from + 1..out) ~>
            (v \notin subs \/ \E i \in DOMAIN view[v].got : view[v].got[i] = n)
=============================================================================
