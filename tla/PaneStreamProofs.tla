-------------------------- MODULE PaneStreamProofs --------------------------
(***************************************************************************)
(* What holds of PaneStream for any number of backends, clients, files and *)
(* restarts: its type invariant, and, as long as operations do not overlap *)
(* at their awaits, that a session has one reader, that this reader        *)
(* follows the file tmux writes, and that each client gets each chunk once.*)
(***************************************************************************)
EXTENDS PaneStream, FiniteSetTheorems, SequenceTheorems, TLAPS

\* A tail loop that reads has a file open.
FdKnown == \A b \in Backend : be[b].task = "tailing" => be[b].fd \in File

TypeInv == TypeOK /\ FdKnown
-----------------------------------------------------------------------------
LEMMA OffsetType ==
    ASSUME TypeOK, NEW b \in Backend, NEW f \in File
    PROVE  Seek(b, f) \in Nat
<1>1. be[b].start \in Nat \cup {None} /\ Len(data[f]) \in Nat
  BY DEF TypeOK, BackendState
<1>2. QED  BY <1>1 DEF Seek

LEMMA ConstantTypes ==
    /\ Gone \in BackendState /\ Idle \in OpState /\ Away \in ViewState
    /\ \A p \in Path : [Gone EXCEPT !.path = p] \in BackendState
BY DEF Gone, Idle, Away, BackendState, OpState, ViewState, Path

LEMMA RecordTypes ==
    /\ \A r \in BackendState, l \in Nat : [r EXCEPT !.pos = l] \in BackendState
    /\ \A r \in BackendState, l \in Nat : [r EXCEPT !.start = l] \in BackendState
    /\ \A r \in BackendState : [r EXCEPT !.task = "starting"] \in BackendState
    /\ \A r \in ViewState, s \in Seq(Nat) : [r EXCEPT !.got = s] \in ViewState
BY DEF BackendState, ViewState

LEMMA OpTypes ==
    ASSUME NEW f \in [Op -> OpState], NEW o \in Op
    PROVE  /\ \A pc \in {"watcher", "reader", "closing", "cwd", "unpipe", "pipe", "offset", "attach"} :
                [f EXCEPT ![o].pc = pc] \in [Op -> OpState]
           /\ \A b \in Backend : [f EXCEPT ![o].b = b] \in [Op -> OpState]
           /\ [f EXCEPT ![o].old = None] \in [Op -> OpState]
<1>1. f[o] \in OpState
  OBVIOUS
<1>2. \A r \in OpState :
        /\ \A pc \in {"watcher", "reader", "closing", "cwd", "unpipe", "pipe", "offset", "attach"} :
             [r EXCEPT !.pc = pc] \in OpState
        /\ \A b \in Backend : [r EXCEPT !.b = b] \in OpState
        /\ [r EXCEPT !.old = None] \in OpState
  BY DEF OpState
<1>3. QED  BY <1>1, <1>2

LEMMA InitType == Init => TypeInv
<1> SUFFICES ASSUME Init PROVE TypeInv
  OBVIOUS
<1>2. 0 \in File /\ 1 \in File
  BY BoundsAssumption DEF File
<1>3. data \in [File -> Seq(1..MaxOut)]
  BY DEF Init
<1>4. be \in [Backend -> BackendState] /\ FdKnown
  <2>1. [Gone EXCEPT !.task = "tailing", !.fd = 1] \in BackendState
    BY <1>2 DEF Gone, BackendState, Path
  <2>2. CASE be = [b \in Backend |-> Gone]
    BY <2>2, ConstantTypes DEF FdKnown, Gone
  <2>3. ASSUME NEW b \in Backend,
               be = [c \in Backend |->
                       IF c = b THEN [Gone EXCEPT !.task = "tailing", !.fd = 1] ELSE Gone]
        PROVE  be \in [Backend -> BackendState] /\ FdKnown
    <3>1. be \in [Backend -> BackendState]
      BY <2>1, <2>3, ConstantTypes
    <3>2. Gone.task = "none"
      BY DEF Gone
    <3>3. [Gone EXCEPT !.task = "tailing", !.fd = 1].fd = 1
      BY DEF Gone
    <3>4. QED  BY <1>2, <2>3, <3>1, <3>2, <3>3 DEF FdKnown
  <2>4. QED  BY <2>2, <2>3 DEF Init
<1>5. out \in 0..MaxOut /\ files \in 0..MaxFiles /\ boots \in 0..MaxBoots
  BY BoundsAssumption DEF Init
<1>6. pipe \in File \cup {None} /\ at \in [Path -> File \cup {None}]
  BY <1>2 DEF Init
<1>7. reg \in Backend \cup {None} /\ subs \subseteq Viewer
  BY DEF Init
<1>8. op \in [Op -> OpState] /\ view \in [Viewer -> ViewState]
  BY ConstantTypes DEF Init
<1>9. QED  BY <1>3, <1>4, <1>5, <1>6, <1>7, <1>8 DEF TypeOK, TypeInv

\* The pane prints.
LEMMA EmitType == TypeInv /\ Emit => TypeInv'
<1> SUFFICES ASSUME TypeInv, Emit PROVE TypeInv'
  OBVIOUS
<1> USE DEF TypeInv
<1>1. out' \in 1..MaxOut /\ out' \in 0..MaxOut
  BY BoundsAssumption DEF Emit, TypeOK
<1>2. data' \in [File -> Seq(1..MaxOut)]
  <2>1. CASE pipe = None
    BY <2>1 DEF Emit, TypeOK
  <2>2. CASE pipe # None
    <3>1. pipe \in File /\ data[pipe] \in Seq(1..MaxOut)
      BY <2>2 DEF TypeOK
    <3>2. Append(data[pipe], out') \in Seq(1..MaxOut)
      BY <1>1, <3>1
    <3>3. data' = [data EXCEPT ![pipe] = Append(data[pipe], out')]
      BY <2>2 DEF Emit
    <3>4. QED  BY <3>1, <3>2, <3>3 DEF TypeOK
  <2>3. QED  BY <2>1, <2>2
<1>3. QED  BY <1>1, <1>2 DEF Emit, TypeOK, FdKnown

\* The reader opens, reads and rotates its file.
LEMMA StreamStepType ==
    ASSUME TypeInv, NEW b \in Backend,
           TailOpen(b) \/ TailRead(b) \/ Rotate(b)
    PROVE  TypeInv'
<1> USE DEF TypeInv
<1>2. CASE TailOpen(b)
  <2> DEFINE f == at[be[b].path]
             new == [path |-> be[b].path, task |-> "tailing", start |-> None,
                     fd |-> f, pos |-> Seek(b, f)]
  <2>1. be[b] \in BackendState
    BY DEF TypeOK
  <2>2. f \in File
    BY <1>2, <2>1 DEF TailOpen, TypeOK, BackendState
  <2>3. Seek(b, f) \in Nat
    BY <2>2, OffsetType
  <2>4. new \in BackendState
    BY <2>1, <2>2, <2>3 DEF BackendState
  <2>5. be' = [be EXCEPT ![b] = new]
    BY <1>2 DEF TailOpen
  <2>6. be' \in [Backend -> BackendState] /\ FdKnown'
    BY <2>2, <2>4, <2>5 DEF TypeOK, FdKnown
  <2>7. QED  BY <1>2, <2>6 DEF TailOpen, TypeOK, stream
<1>3. CASE TailRead(b)
  <2> DEFINE f == be[b].fd
             more == SubSeq(data[f], be[b].pos + 1, Len(data[f]))
  <2>1. f \in File /\ be[b] \in BackendState
    BY <1>3 DEF TailRead, TypeOK, FdKnown
  <2>2. data[f] \in Seq(Nat) /\ Len(data[f]) \in Nat
    BY <2>1, BoundsAssumption DEF TypeOK
  <2>3. be' \in [Backend -> BackendState] /\ FdKnown'
    <3>1. be' = [be EXCEPT ![b] = [be[b] EXCEPT !.pos = Len(data[f])]]
      BY <1>3 DEF TailRead
    <3>2. [be[b] EXCEPT !.pos = Len(data[f])] \in BackendState
      BY <2>1, <2>2, RecordTypes
    <3>3. [be[b] EXCEPT !.pos = Len(data[f])].fd = be[b].fd
      BY <2>1 DEF BackendState
    <3>4. QED  BY <2>1, <3>1, <3>2, <3>3 DEF TypeOK, FdKnown
  <2>4. more \in Seq(Nat)
    <3>1. be[b].pos \in Nat /\ be[b].pos < Len(data[f])
      BY <1>3, <2>1 DEF TailRead, BackendState
    <3> HIDE DEF f
    <3>2. QED  BY <2>2, <3>1
  <2>5. view' \in [Viewer -> ViewState]
    <3>1. \A v \in Viewer : [view[v] EXCEPT !.got = view[v].got \o more] \in ViewState
      <4> TAKE v \in Viewer
      <4>1. view[v] \in ViewState /\ view[v].got \in Seq(Nat)
        BY DEF TypeOK, ViewState
      <4>2. view[v].got \o more \in Seq(Nat)
        BY <2>4, <4>1
      <4>3. QED  BY <4>1, <4>2, RecordTypes
    <3>2. QED  BY <1>3, <3>1 DEF TailRead, TypeOK
  <2>6. QED  BY <1>3, <2>3, <2>5 DEF TailRead, TypeOK, stream
<1>4. CASE Rotate(b)
  <2>1. files \in Nat /\ files' = files + 1
    BY <1>4 DEF Rotate, TypeOK
  <2>2. files' \in 0..MaxFiles
    <3> DEFINE P == {p \in Path : at[p] = None}
    <3>1. IsFiniteSet(Path)
      <4>1. IsFiniteSet({} \cup {"owned"})
        BY FS_EmptySet, FS_AddElement
      <4>2. IsFiniteSet(({} \cup {"owned"}) \cup {"ext"})
        BY <4>1, FS_AddElement
      <4>3. Path = ({} \cup {"owned"}) \cup {"ext"}
        BY DEF Path
      <4>4. QED  BY <4>2, <4>3
    <3>2. Cardinality(P) \in Nat
      BY <3>1, FS_Subset, FS_CardinalityType
    <3>3. files + Cardinality(P) < MaxFiles
      BY <1>4 DEF Rotate
    <3>4. QED  BY <2>1, <3>2, <3>3, BoundsAssumption
  <2>3. QED  BY <1>4, <2>1, <2>2 DEF Rotate, TypeOK, FdKnown, File
<1>5. QED  BY <1>2, <1>3, <1>4

\* An operation begins, or goes on after an await.
LEMMA OpStepType ==
    ASSUME TypeInv, NEW o \in Op, AdoptBegin(o) \/ DetachBegin(o) \/ Resume(o)
    PROVE  TypeInv'
<1> USE DEF TypeInv
<1>0. op[o] \in OpState
  BY DEF TypeOK
<1>1. CASE AdoptBegin(o)
  <2>1. op' \in [Op -> OpState]
    BY <1>1 DEF AdoptBegin, TypeOK, OpState, Idle
  <2>2. QED  BY <1>1, <2>1 DEF AdoptBegin, TypeOK, FdKnown, stream
<1>2. CASE DetachBegin(o)
  <2>1. op' \in [Op -> OpState]
    BY <1>2 DEF DetachBegin, TypeOK, OpState, Idle
  <2>2. QED  BY <1>2, <2>1 DEF DetachBegin, TypeOK, FdKnown, stream
<1>3. CASE Cancel(o)
  <2>1. op' \in [Op -> OpState]
    BY <1>3, OpTypes DEF Cancel, TypeOK
  <2>2. be' \in [Backend -> BackendState] /\ FdKnown'
    BY <1>3, ConstantTypes DEF Cancel, Stopped, TypeOK, FdKnown, Gone
  <2>3. QED  BY <1>3, <2>1, <2>2 DEF Cancel, TypeOK, stream
<1>4. CASE AdoptWipe(o)
  <2>1. op' \in [Op -> OpState]
    <3> DEFINE mid == [op EXCEPT ![o].pc = "cwd"]
    <3>1. mid \in [Op -> OpState]
      BY OpTypes DEF TypeOK
    <3>2. op' = [mid EXCEPT ![o].old = None]
      BY <1>4 DEF AdoptWipe
    <3> HIDE DEF mid
    <3>3. QED  BY <3>1, <3>2, OpTypes
  <2>2. QED  BY <1>4, <2>1 DEF AdoptWipe, Wipe, TypeOK, FdKnown, stream
<1>5. CASE Probe(o)
  <2>1. PICK b \in Backend :
          /\ be' = [be EXCEPT ![b] = [Gone EXCEPT !.path = PathOf(o)]]
          /\ op' = [op EXCEPT ![o].b = b, ![o].pc = AfterProbe]
    BY <1>5 DEF Probe
  <2>2. op' \in [Op -> OpState]
    <3> DEFINE mid == [op EXCEPT ![o].b = b]
    <3>1. mid \in [Op -> OpState]
      BY OpTypes DEF TypeOK
    <3>2. op' = [mid EXCEPT ![o].pc = AfterProbe]
      BY <2>1
    <3>3. AfterProbe \in {"unpipe", "pipe"}
      BY DEF AfterProbe
    <3> HIDE DEF mid
    <3>4. QED  BY <3>1, <3>2, <3>3, OpTypes
  <2>3. PathOf(o) \in Path
    BY DEF PathOf, Path
  <2>4. be' \in [Backend -> BackendState] /\ FdKnown'
    BY <2>1, <2>3, ConstantTypes DEF TypeOK, FdKnown, Gone
  <2>5. QED  BY <1>5, <2>2, <2>4 DEF Probe, TypeOK, stream
<1>6. CASE Unpipe(o)
  <2>1. op' \in [Op -> OpState]
    BY <1>6, OpTypes DEF Unpipe, TypeOK
  <2>2. QED  BY <1>6, <2>1 DEF Unpipe, TypeOK, FdKnown
<1>7. CASE StartPipe(o)
  <2>1. op' \in [Op -> OpState]
    BY <1>7, OpTypes DEF StartPipe, TypeOK
  <2>2. PathOf(o) \in Path
    BY DEF PathOf, Path
  <2>3. at' \in [Path -> File \cup {None}] /\ files' \in 0..MaxFiles
    <3>1. CASE at[PathOf(o)] # None
      BY <1>7, <3>1 DEF StartPipe, Ensured, TypeOK
    <3>2. CASE at[PathOf(o)] = None
      <4>1. files \in Nat /\ files < MaxFiles /\ files' = files + 1
        BY <1>7, <3>2 DEF StartPipe, Ensured, TypeOK
      <4>2. files + 1 \in File
        BY <4>1, BoundsAssumption DEF File
      <4>3. at' = [at EXCEPT ![PathOf(o)] = files + 1]
        BY <1>7, <3>2 DEF StartPipe, Ensured
      <4>4. QED  BY <4>1, <4>2, <4>3 DEF TypeOK, File
    <3>3. QED  BY <3>1, <3>2
  <2>4. pipe' \in File \cup {None}
    BY <1>7, <2>2, <2>3 DEF StartPipe
  <2>5. QED  BY <1>7, <2>1, <2>3, <2>4 DEF StartPipe, TypeOK, FdKnown
<1>8. CASE RecordOffset(o)
  <2>1. op' \in [Op -> OpState]
    BY <1>8, OpTypes DEF RecordOffset, TypeOK
  <2> DEFINE f == at[PathOf(o)]
             l == IF f = None THEN 0 ELSE Len(data[f])
  <2>2. PathOf(o) \in Path
    BY DEF PathOf, Path
  <2>3. l \in Nat
    BY <2>2 DEF TypeOK
  <2>4. be' = [be EXCEPT ![op[o].b] = [be[op[o].b] EXCEPT !.start = l]]
    BY <1>8 DEF RecordOffset
  <2>5. be' \in [Backend -> BackendState]
    BY <2>3, <2>4, RecordTypes DEF TypeOK
  <2>6. \A b \in Backend : be'[b].task = be[b].task /\ be'[b].fd = be[b].fd
    BY <2>3, <2>4 DEF TypeOK, BackendState
  <2>7. QED  BY <1>8, <2>1, <2>5, <2>6 DEF RecordOffset, TypeOK, FdKnown, stream
<1>9. CASE Attach(o)
  <2>1. op' \in [Op -> OpState]
    BY <1>9, ConstantTypes DEF Attach, TypeOK
  <2>2. be' = [be EXCEPT ![op[o].b] = [be[op[o].b] EXCEPT !.task = "starting"]]
    BY <1>9 DEF Attach
  <2>3. be' \in [Backend -> BackendState]
    BY <2>2, RecordTypes DEF TypeOK
  <2>4. \A b \in Backend : be'[b].task = "tailing" => be[b].task = "tailing" /\ be'[b].fd = be[b].fd
    BY <2>2 DEF TypeOK, BackendState
  <2>5. reg' \in Backend \cup {None}
    BY <1>0, <1>9 DEF Attach, OpState
  <2>6. QED  BY <1>9, <2>1, <2>3, <2>4, <2>5 DEF Attach, TypeOK, FdKnown, stream
<1>10. CASE DetachClose(o)
  <2>1. op' \in [Op -> OpState]
    BY <1>10, OpTypes DEF DetachClose, TypeOK
  <2>2. QED  BY <1>10, <2>1 DEF DetachClose, TypeOK, FdKnown
<1>11. CASE DetachWipe(o)
  BY <1>11, ConstantTypes DEF DetachWipe, Wipe, TypeOK, FdKnown, stream
<1>12. QED
  BY <1>1, <1>2, <1>3, <1>4, <1>5, <1>6, <1>7, <1>8, <1>9, <1>10, <1>11 DEF Resume

\* A client comes, is painted and goes.
LEMMA ViewStepType ==
    ASSUME TypeInv, NEW v \in Viewer, Accept(v) \/ Subscribe(v) \/ Paint(v) \/ Close(v)
    PROVE  TypeInv'
<1> USE DEF TypeInv
<1>1. view[v] \in ViewState
  BY DEF TypeOK
<1>2. CASE Accept(v)
  <2>1. view' \in [Viewer -> ViewState]
    BY <1>1, <1>2 DEF Accept, TypeOK, ViewState
  <2>2. QED  BY <1>2, <2>1 DEF Accept, TypeOK, FdKnown, stream
<1>3. CASE Subscribe(v)
  <2>1. view' \in [Viewer -> ViewState]
    BY <1>1, <1>3 DEF Subscribe, TypeOK, ViewState
  <2>2. QED  BY <1>3, <2>1 DEF Subscribe, TypeOK, FdKnown, stream
<1>4. CASE Paint(v)
  <2>1. out \in Nat
    BY BoundsAssumption DEF TypeOK
  <2>2. view' \in [Viewer -> ViewState]
    BY <1>1, <1>4, <2>1 DEF Paint, TypeOK, ViewState
  <2>3. QED  BY <1>4, <2>2 DEF Paint, TypeOK, FdKnown, stream
<1>5. CASE Close(v)
  BY <1>5, ConstantTypes DEF Close, TypeOK, FdKnown, stream
<1>6. QED  BY <1>2, <1>3, <1>4, <1>5

LEMMA RestartType == TypeInv /\ Restart => TypeInv'
<1> SUFFICES ASSUME TypeInv, Restart PROVE TypeInv'
  OBVIOUS
<1> USE DEF TypeInv
<1>1. op' \in [Op -> OpState]
  <2>1. [Idle EXCEPT !.kind = "readopt", !.pc = "cwd"] \in OpState
    BY DEF Idle, OpState
  <2>2. QED  BY <2>1, ConstantTypes DEF Restart
<1>2. be' \in [Backend -> BackendState] /\ FdKnown'
  BY ConstantTypes DEF Restart, FdKnown, Gone
<1>3. boots' \in 0..MaxBoots
  BY BoundsAssumption DEF Restart, TypeOK
<1>4. view' \in [Viewer -> ViewState]
  BY ConstantTypes DEF Restart
<1>5. QED  BY <1>1, <1>2, <1>3, <1>4 DEF Restart, Wipe, TypeOK, stream

LEMMA TypeInductive == TypeInv /\ [Next]_vars => TypeInv'
<1> SUFFICES ASSUME TypeInv, [Next]_vars PROVE TypeInv'
  OBVIOUS
<1>1. CASE Emit
  BY <1>1, EmitType
<1>2. CASE Restart
  BY <1>2, RestartType
<1>3. CASE \E b \in Backend : Follow(b) \/ Rotate(b)
  BY <1>3, StreamStepType DEF Follow
<1>4. CASE \E o \in Op : AdoptBegin(o) \/ DetachBegin(o) \/ Resume(o)
  BY <1>4, OpStepType
<1>5. CASE \E v \in Viewer : Accept(v) \/ Subscribe(v) \/ Paint(v) \/ Close(v)
  BY <1>5, ViewStepType
<1>6. CASE UNCHANGED vars
  BY <1>6 DEF vars, stream, TypeInv, TypeOK, FdKnown
<1>7. QED  BY <1>1, <1>2, <1>3, <1>4, <1>5, <1>6 DEF Next

\* Every variable keeps its declared shape, whatever overlaps.
THEOREM TypeCorrect == Spec => []TypeOK
<1>1. Init => TypeInv
  BY InitType
<1>2. TypeInv /\ [Next]_vars => TypeInv'
  BY TypeInductive
<1>3. TypeInv => TypeOK
  BY DEF TypeInv
<1>4. QED  BY <1>1, <1>2, <1>3, PTL DEF Spec
-----------------------------------------------------------------------------
\* At most one operation is between its awaits.
NoOverlap == \A o, p \in Op : o = p

\* The reader of b follows the file tmux writes, or will once it opens it.
Connected(b) ==
    \/ be[b].task = "starting" /\ at[be[b].path] = pipe
    \/ be[b].task = "tailing" /\ be[b].fd = pipe

NoReader == \A b \in Backend : be[b].task = "none"

OneReader == \A b \in Backend : be[b].task # "none" => b = reg

Streams == ((\A o \in Op : op[o].pc \in {"idle", "watcher"}) /\ reg # None) => Connected(reg)

\* What an operation knows between its awaits: the registration it found is
\* there until it wipes it, its reader is gone once cancelled, and from then on
\* nothing is registered until it attaches a backend to the file it piped to.
InFlight(o) ==
    /\ op[o].pc \in {"watcher", "reader", "closing"} => op[o].old = reg
    /\ op[o].pc \in {"reader", "closing"} => NoReader
    /\ op[o].pc \in {"cwd", "unpipe", "pipe", "offset", "attach"} => reg = None
    /\ op[o].pc \in {"unpipe", "pipe", "offset", "attach"} =>
          op[o].b \in Backend /\ be[op[o].b].path = PathOf(o)
    /\ op[o].pc \in {"offset", "attach"} => at[PathOf(o)] = pipe

Wired == OneReader /\ Streams /\ \A o \in Op : InFlight(o)

LEMMA WiredInit == Init => Wired
<1> SUFFICES ASSUME Init PROVE Wired
  OBVIOUS
<1>1. Gone.task = "none" /\ Gone.path = "owned"
  BY DEF Gone
<1>2. ASSUME NEW o \in Op PROVE op[o].pc = "idle" /\ InFlight(o)
  BY <1>2 DEF Init, Idle, InFlight
<1>3. CASE reg = None /\ be = [b \in Backend |-> Gone]
  BY <1>1, <1>2, <1>3 DEF Wired, OneReader, Streams
<1>4. ASSUME NEW b \in Backend, pipe = 1, reg = b,
             be = [c \in Backend |->
                     IF c = b THEN [Gone EXCEPT !.task = "tailing", !.fd = 1] ELSE Gone]
      PROVE  Wired
  <2>1. be[b].task = "tailing" /\ be[b].fd = 1
    BY <1>4 DEF Gone
  <2>2. \A c \in Backend : c # b => be[c].task = "none"
    BY <1>1, <1>4
  <2>3. QED  BY <1>2, <1>4, <2>1, <2>2 DEF Wired, OneReader, Streams, Connected
<1>5. QED  BY <1>3, <1>4 DEF Init

LEMMA WiredStream ==
    ASSUME TypeInv, Wired, NEW b \in Backend, TailOpen(b) \/ TailRead(b) \/ Rotate(b)
    PROVE  Wired'
<1>0. b = reg /\ b # None
  BY NoneAssumption DEF TailOpen, TailRead, Rotate, Wired, OneReader
<1>1. \A o \in Op : op[o].pc \in {"idle", "watcher"}
  <2> TAKE o \in Op
  <2>1. be[b].task # "none"
    BY DEF TailOpen, TailRead, Rotate
  <2>2. op[o].pc \notin {"reader", "closing"}
    BY <2>1 DEF Wired, InFlight, NoReader
  <2>3. op[o].pc \notin {"cwd", "unpipe", "pipe", "offset", "attach"}
    BY <1>0 DEF Wired, InFlight
  <2>4. QED  BY <2>2, <2>3 DEF TypeInv, TypeOK, OpState
<1>2. Connected(reg)
  BY <1>0, <1>1 DEF Wired, Streams
<1>3. op' = op /\ reg' = reg /\ pipe' = pipe
  BY DEF TailOpen, TailRead, Rotate, stream
<1>4. \A o \in Op : InFlight(o)'
  BY <1>1, <1>3 DEF Wired, InFlight
<1>5. be' \in [Backend -> BackendState]
  <2>1. TypeInv'
    BY StreamStepType
  <2>2. QED  BY <2>1 DEF TypeInv, TypeOK
<1>6. CASE TailOpen(b)
  <2>1. be'[b].task = "tailing" /\ be'[b].fd = at[be[b].path] /\ be[b].task = "starting"
    BY <1>6 DEF TailOpen, TypeInv, TypeOK
  <2>2. \A c \in Backend : c # b => be'[c] = be[c]
    BY <1>6 DEF TailOpen, TypeInv, TypeOK
  <2>3. at[be[b].path] = pipe
    BY <1>0, <1>2, <2>1 DEF Connected
  <2>4. QED  BY <1>0, <1>3, <1>4, <2>1, <2>2, <2>3 DEF Wired, OneReader, Streams, Connected
<1>7. CASE TailRead(b)
  <2>1. be[b].task = "tailing" /\ be'[b].task = be[b].task /\ be'[b].fd = be[b].fd
    BY <1>7 DEF TailRead, TypeInv, TypeOK, BackendState
  <2>2. \A c \in Backend : c # b => be'[c] = be[c]
    BY <1>7 DEF TailRead, TypeInv, TypeOK
  <2>3. QED  BY <1>0, <1>2, <1>3, <1>4, <2>1, <2>2 DEF Wired, OneReader, Streams, Connected
<1>8. CASE Rotate(b)
  BY <1>0, <1>2, <1>3, <1>4, <1>8 DEF Rotate, Wired, OneReader, Streams, Connected
<1>9. QED  BY <1>6, <1>7, <1>8

LEMMA WiredOp ==
    ASSUME NoOverlap, TypeInv, Wired, NEW o \in Op,
           AdoptBegin(o) \/ DetachBegin(o) \/ Resume(o)
    PROVE  Wired'
<1>0. op[o] \in OpState /\ InFlight(o) /\ OneReader /\ \A p \in Op : p = o
  BY DEF NoOverlap, TypeInv, TypeOK, Wired
<1> SUFFICES OneReader' /\ Streams' /\ InFlight(o)'
  BY <1>0 DEF Wired
<1>1. CASE AdoptBegin(o)
  <2>1. UNCHANGED <<stream, be, reg>>
    BY <1>1 DEF AdoptBegin
  <2>2. op'[o].old = reg /\ op'[o].pc = IF reg = None THEN "cwd" ELSE "watcher"
    BY <1>1 DEF AdoptBegin, TypeInv, TypeOK, Idle
  <2>3. reg # None => Connected(reg)
    BY <1>0, <1>1 DEF AdoptBegin, OpAt, Wired, Streams
  <2>4. QED  BY <1>0, <2>1, <2>2, <2>3 DEF stream, OneReader, Streams, InFlight, Connected
<1>2. CASE DetachBegin(o)
  <2>1. UNCHANGED <<stream, be, reg>>
    BY <1>2 DEF DetachBegin
  <2>2. op'[o].old = reg /\ op'[o].pc = "watcher"
    BY <1>2 DEF DetachBegin, TypeInv, TypeOK, Idle
  <2>3. reg # None => Connected(reg)
    BY <1>0, <1>2 DEF DetachBegin, OpAt, Wired, Streams
  <2>4. QED  BY <1>0, <2>1, <2>2, <2>3 DEF stream, OneReader, Streams, InFlight, Connected
<1>3. CASE Cancel(o)
  <2>1. op'[o].pc = "reader" /\ op'[o].old = reg /\ reg' = reg
    BY <1>0, <1>3 DEF Cancel, OpAt, InFlight, TypeInv, TypeOK, OpState
  <2>2. be' = [be EXCEPT ![reg] = Gone]
    BY <1>0, <1>3 DEF Cancel, OpAt, InFlight, Stopped
  <2>3. NoReader'
    BY <1>0, <2>2 DEF NoReader, OneReader, TypeInv, TypeOK, Gone
  <2>4. QED  BY <1>0, <2>1, <2>3 DEF NoReader, OneReader, Streams, InFlight
<1>4. CASE AdoptWipe(o)
  <2>1. op'[o].pc = "cwd" /\ reg' = None /\ be' = be
    BY <1>0, <1>4 DEF AdoptWipe, Wipe, TypeInv, TypeOK, OpState
  <2>2. NoReader'
    BY <1>0, <1>4, <2>1 DEF AdoptWipe, OpAt, InFlight, NoReader
  <2>3. QED  BY <2>1, <2>2 DEF NoReader, OneReader, Streams, InFlight
<1>5. CASE Probe(o)
  <2>1. PICK b \in Backend :
          /\ be' = [be EXCEPT ![b] = [Gone EXCEPT !.path = PathOf(o)]]
          /\ op' = [op EXCEPT ![o].b = b, ![o].pc = AfterProbe]
    BY <1>5 DEF Probe
  <2>2. /\ op'[o].pc \in {"unpipe", "pipe"} /\ op'[o].b = b /\ op'[o].kind = op[o].kind
        /\ reg' = None
    BY <1>0, <1>5, <2>1 DEF Probe, OpAt, InFlight, AfterProbe, TypeInv, TypeOK, OpState
  <2>3. be'[b].path = PathOf(o) /\ be'[b].task = "none"
    BY <2>1 DEF TypeInv, TypeOK, Gone
  <2>4. NoReader'
    <3>1. reg = None
      BY <1>0, <1>5 DEF Probe, OpAt, InFlight
    <3>2. \A c \in Backend : be[c].task = "none"
      BY <1>0, <3>1, NoneAssumption DEF OneReader
    <3>3. \A c \in Backend \ {b} : be'[c] = be[c]
      BY <2>1 DEF TypeInv, TypeOK
    <3>4. QED  BY <2>3, <3>2, <3>3 DEF NoReader
  <2>5. PathOf(o)' = PathOf(o)
    BY <2>2 DEF PathOf
  <2>6. QED  BY <2>2, <2>3, <2>4, <2>5 DEF NoReader, OneReader, Streams, InFlight
<1>6. CASE Unpipe(o)
  <2>1. op'[o] = [op[o] EXCEPT !.pc = "pipe"] /\ UNCHANGED <<be, reg>>
    BY <1>6 DEF Unpipe, TypeInv, TypeOK
  <2>2. op'[o].pc = "pipe" /\ op'[o].b = op[o].b /\ op'[o].kind = op[o].kind
    BY <1>0, <2>1 DEF OpState
  <2>3. QED  BY <1>0, <1>6, <2>1, <2>2 DEF Unpipe, OpAt, OneReader, Streams, InFlight, PathOf
<1>7. CASE StartPipe(o)
  <2>1. op'[o] = [op[o] EXCEPT !.pc = "offset"] /\ UNCHANGED <<be, reg>>
    BY <1>7 DEF StartPipe, TypeInv, TypeOK
  <2>2. op'[o].pc = "offset" /\ op'[o].b = op[o].b /\ op'[o].kind = op[o].kind
    BY <1>0, <2>1 DEF OpState
  <2>3. PathOf(o)' = PathOf(o) /\ at'[PathOf(o)] = pipe'
    BY <1>7, <2>2 DEF StartPipe, PathOf
  <2>4. QED  BY <1>0, <1>7, <2>1, <2>2, <2>3 DEF StartPipe, OpAt, OneReader, Streams, InFlight
<1>8. CASE RecordOffset(o)
  <2>1. op'[o] = [op[o] EXCEPT !.pc = "attach"] /\ UNCHANGED <<stream, reg>>
    BY <1>8 DEF RecordOffset, TypeInv, TypeOK
  <2>2. op'[o].pc = "attach" /\ op'[o].b = op[o].b /\ op'[o].kind = op[o].kind
    BY <1>0, <2>1 DEF OpState
  <2>3. \A b \in Backend : be'[b].task = be[b].task /\ be'[b].path = be[b].path
    BY <1>8 DEF RecordOffset, TypeInv, TypeOK, BackendState
  <2>4. PathOf(o)' = PathOf(o)
    BY <2>2 DEF PathOf
  <2>5. QED
    BY <1>0, <1>8, <2>1, <2>2, <2>3, <2>4 DEF RecordOffset, OpAt, OneReader, Streams, InFlight, stream
<1>9. CASE Attach(o)
  <2>1. op'[o].pc = "idle" /\ reg' = op[o].b /\ reg = None /\ UNCHANGED stream
    BY <1>0, <1>9 DEF Attach, OpAt, InFlight, TypeInv, TypeOK, Idle
  <2>2. op[o].b \in Backend /\ be[op[o].b].path = PathOf(o) /\ at[PathOf(o)] = pipe
    BY <1>0, <1>9 DEF Attach, OpAt, InFlight
  <2>3. be'[op[o].b].task = "starting" /\ be'[op[o].b].path = be[op[o].b].path
    BY <1>9, <2>2 DEF Attach, TypeInv, TypeOK, BackendState
  <2>4. \A b \in Backend : b # op[o].b => be'[b].task = "none"
    BY <1>0, <1>9, <2>1, NoneAssumption DEF Attach, OneReader, TypeInv, TypeOK
  <2>5. QED
    BY <1>0, <2>1, <2>2, <2>3, <2>4 DEF OneReader, Streams, InFlight, Connected, stream
<1>10. CASE DetachClose(o)
  <2>1. op'[o] = [op[o] EXCEPT !.pc = "closing"] /\ UNCHANGED <<be, reg>>
    BY <1>10 DEF DetachClose, TypeInv, TypeOK
  <2>2. op'[o].pc = "closing" /\ op'[o].old = op[o].old
    BY <1>0, <2>1 DEF OpState
  <2>3. QED
    BY <1>0, <1>10, <2>1, <2>2 DEF DetachClose, OpAt, NoReader, OneReader, Streams, InFlight
<1>11. CASE DetachWipe(o)
  <2>1. op'[o].pc = "idle" /\ reg' = None /\ be' = be
    BY <1>11 DEF DetachWipe, Wipe, TypeInv, TypeOK, Idle
  <2>2. NoReader'
    BY <1>0, <1>11, <2>1 DEF DetachWipe, OpAt, InFlight, NoReader
  <2>3. QED  BY <2>1, <2>2 DEF NoReader, OneReader, Streams, InFlight
<1>12. QED
  BY <1>1, <1>2, <1>3, <1>4, <1>5, <1>6, <1>7, <1>8, <1>9, <1>10, <1>11 DEF Resume

LEMMA WiredRestart == TypeInv /\ Restart => Wired'
<1> SUFFICES ASSUME TypeInv, Restart PROVE Wired'
  OBVIOUS
<1>1. reg' = None /\ be' = [b \in Backend |-> Gone]
  BY DEF Restart, Wipe
<1>2. \A o \in Op : op'[o].pc \in {"idle", "cwd"}
  <2>1. Idle.pc = "idle" /\ [Idle EXCEPT !.kind = "readopt", !.pc = "cwd"].pc = "cwd"
    BY DEF Idle
  <2>2. CASE op' = [o \in Op |-> Idle]
    BY <2>1, <2>2
  <2>3. ASSUME NEW r \in Op,
               op' = [o \in Op |->
                        IF o = r THEN [Idle EXCEPT !.kind = "readopt", !.pc = "cwd"] ELSE Idle]
        PROVE  \A o \in Op : op'[o].pc \in {"idle", "cwd"}
    BY <2>1, <2>3
  <2>4. QED  BY <2>2, <2>3 DEF Restart
<1>3. NoReader'
  BY <1>1 DEF NoReader, Gone
<1>4. \A o \in Op : InFlight(o)'
  BY <1>1, <1>2 DEF InFlight
<1>5. QED  BY <1>1, <1>3, <1>4 DEF Wired, OneReader, Streams, NoReader

LEMMA WiredInductive == NoOverlap /\ TypeInv /\ Wired /\ [Next]_vars => Wired'
<1> SUFFICES ASSUME NoOverlap, TypeInv, Wired, [Next]_vars PROVE Wired'
  OBVIOUS
<1> USE DEF Wired, OneReader, Streams, InFlight, NoReader, Connected, PathOf
<1>1. CASE Emit
  BY <1>1 DEF Emit
<1>2. CASE Restart
  BY <1>2, WiredRestart
<1>3. CASE \E b \in Backend : Follow(b) \/ Rotate(b)
  BY <1>3, WiredStream DEF Follow
<1>4. CASE \E o \in Op : AdoptBegin(o) \/ DetachBegin(o) \/ Resume(o)
  BY <1>4, WiredOp
<1>5. CASE \E v \in Viewer : Accept(v) \/ Subscribe(v) \/ Paint(v) \/ Close(v)
  BY <1>5 DEF Accept, Subscribe, Paint, Close, stream
<1>6. CASE UNCHANGED vars
  BY <1>6 DEF vars, stream
<1>7. QED  BY <1>1, <1>2, <1>3, <1>4, <1>5, <1>6 DEF Next

LEMMA WiredAlways == ASSUME NoOverlap PROVE Spec => []Wired
<1>1. Init => TypeInv /\ Wired
  BY InitType, WiredInit
<1>2. (TypeInv /\ Wired) /\ [Next]_vars => (TypeInv /\ Wired)'
  BY TypeInductive, WiredInductive
<1>3. QED  BY <1>1, <1>2, PTL DEF Spec

\* Operations that do not overlap leave one reader: no chunk is shown twice.
THEOREM OneTailerWithoutOverlap == ASSUME NoOverlap PROVE Spec => []OneTailer
<1>1. Wired => OneTailer
  BY DEF Wired, OneReader, OneTailer
<1>2. QED  BY <1>1, WiredAlways, PTL

\* And that reader follows the file tmux's cat writes: no terminal is frozen on
\* an abandoned file.
THEOREM ConnectedWithoutOverlap == ASSUME NoOverlap PROVE Spec => []StreamIsConnected
<1>1. Wired => StreamIsConnected
  BY DEF Wired, Streams, Connected, StreamIsConnected, Quiet, OpAt
<1>2. QED  BY <1>1, WiredAlways, PTL
-----------------------------------------------------------------------------
(* What a client is given.                                                 *)

\* The chunks of g are h at most, and those after m up to h are in it once each.
UpTo(g, h) == \A i \in 1..Len(g) : g[i] <= h

OnceEach(g, m, h) ==
    \A n \in m + 1..h : \E i \in 1..Len(g) :
        g[i] = n /\ \A j \in 1..Len(g) : g[j] = n => j = i

\* Behind its first l chunks, the file tmux writes holds the latest of the pane.
EndsWithLatest(l) ==
    /\ pipe \in File /\ l \in 0..Len(data[pipe])
    /\ \A i \in l + 1..Len(data[pipe]) : data[pipe][i] = out - Len(data[pipe]) + i

\* Where the reader of b stands, or will when it opens its file.
Mark(b) == IF be[b].task = "tailing" THEN be[b].pos ELSE be[b].start

\* The last chunk that has been handed out.
Handed == out - Len(data[pipe]) + Mark(reg)

Reading == reg # None /\ be[reg].task # "none"

Served(v) ==
    /\ UpTo(view[v].got, Handed)
    /\ view[v].pc = "open" => OnceEach(view[v].got, view[v].from, Handed)

Given ==
    /\ \A o \in Op : op[o].pc = "offset" => pipe \in File
    /\ \A o \in Op : op[o].pc = "attach" => EndsWithLatest(be[op[o].b].start)
    /\ reg = None => subs = {}
    /\ \A v \in Viewer : view[v].pc \in {"away", "accepted"} => view[v].got = <<>> /\ v \notin subs
    /\ Reading => EndsWithLatest(Mark(reg)) /\ \A v \in subs : Served(v)

GInv == TypeInv /\ Wired /\ Given

\* What is left in front of a reader continues what it has handed out.
LEMMA Joined ==
    ASSUME NEW g \in Seq(Nat), NEW d \in Seq(Nat), NEW p \in 0..Len(d), NEW h \in Int,
           \A i \in p + 1..Len(d) : d[i] = h - p + i,
           UpTo(g, h)
    PROVE  LET j == g \o SubSeq(d, p + 1, Len(d)) IN
           /\ UpTo(j, h + Len(d) - p)
           /\ \A m \in Nat : OnceEach(g, m, h) => OnceEach(j, m, h + Len(d) - p)
<1> DEFINE s == SubSeq(d, p + 1, Len(d))
           j == g \o s
           L == Len(g)
           k == Len(d) - p
<1>1. L \in Nat /\ k \in Nat /\ Len(d) \in Nat /\ p \in Nat
  OBVIOUS
<1>2. s \in Seq(Nat) /\ Len(s) = k /\ \A i \in 1..k : s[i] = d[p + i]
  OBVIOUS
<1>3. \A i \in 1..k : s[i] = h + i
  <2> TAKE i \in 1..k
  <2>1. p + i \in p + 1..Len(d)
    BY <1>1
  <2>2. d[p + i] = h - p + (p + i)
    BY <2>1
  <2>q. QED BY <1>1, <1>2, <2>2
<1>4. /\ Len(j) = L + k
      /\ \A i \in 1..L : j[i] = g[i]
      /\ \A i \in 1..k : j[L + i] = s[i]
  <2> HIDE DEF s
  <2>0. Len(g \o s) = Len(g) + Len(s)
    BY <1>2, ConcatProperties
  <2>1. Len(j) = L + k
    BY <1>2, <2>0
  <2>2. ASSUME NEW i \in 1..L PROVE j[i] = g[i]
    BY <1>1, <1>2, <2>2, ConcatProperties
  <2>3. ASSUME NEW i \in 1..k PROVE j[L + i] = s[i]
    <3>1. L + i \in 1..Len(g) + Len(s) /\ L + i > Len(g) /\ L + i - Len(g) = i
      BY <1>1, <1>2, <2>3
    <3>q. QED BY <1>1, <1>2, <3>1, ConcatProperties
  <2>q. QED BY <2>1, <2>2, <2>3
<1> HIDE DEF s, j
<1>5. \A i \in L + 1..L + k : j[i] = h + i - L
  <2> TAKE i \in L + 1..L + k
  <2>1. i - L \in 1..k /\ i = L + (i - L)
    BY <1>1
  <2>q. QED BY <1>1, <1>3, <1>4, <2>1
<1>6. \A i \in 1..L : j[i] = g[i] /\ g[i] \in Nat /\ g[i] <= h
  BY <1>4 DEF UpTo
<1> HIDE DEF L, k
<1>7. UpTo(j, h + k)
  <2> SUFFICES ASSUME NEW i \in 1..L + k PROVE j[i] <= h + k
    BY <1>4 DEF UpTo
  <2>1. CASE i <= L
    <3>1. i \in 1..L
      BY <1>1, <2>1
    <3>2. j[i] \in Nat /\ j[i] <= h /\ h \in Int
      BY <1>6, <3>1
    <3>q. QED BY <1>1, <3>2
  <2>2. CASE i > L
    <3>1. i \in L + 1..L + k
      BY <1>1, <2>2
    <3>q. QED BY <1>1, <1>5, <3>1
  <2>q. QED BY <1>1, <2>1, <2>2
<1>8. ASSUME NEW m \in Nat, OnceEach(g, m, h) PROVE OnceEach(j, m, h + k)
  <2> SUFFICES ASSUME NEW n \in m + 1..h + k
               PROVE  \E i \in 1..Len(j) : j[i] = n /\ \A q \in 1..Len(j) : j[q] = n => q = i
    BY DEF OnceEach
  <2>1. CASE n <= h
    <3>1. PICK i \in 1..L : g[i] = n /\ \A q \in 1..L : g[q] = n => q = i
      BY <1>1, <1>8, <2>1 DEF OnceEach, L
    <3>2. \A q \in 1..Len(j) : j[q] = n => q \in 1..L
      BY <1>1, <1>4, <1>5, <2>1
    <3>3. i \in 1..Len(j) /\ j[i] = n
      BY <1>1, <1>4, <1>6, <3>1
    <3>q. QED BY <1>6, <3>1, <3>2, <3>3
  <2>2. CASE n > h
    <3>1. L + (n - h) \in L + 1..L + k /\ j[L + (n - h)] = n
      BY <1>1, <1>5, <2>2
    <3>2. ASSUME NEW q \in 1..Len(j), j[q] = n PROVE q = L + (n - h)
      <4>1. q \notin 1..L
        BY <1>6, <2>2, <3>2
      <4>2. q \in L + 1..L + k
        BY <1>1, <1>4, <4>1
      <4>q. QED BY <1>1, <1>5, <3>2, <4>2
    <3>3. L + (n - h) \in 1..Len(j)
      BY <1>1, <1>4, <3>1
    <3>q. QED BY <3>1, <3>2, <3>3
  <2>q. QED BY <2>1, <2>2
<1>9. h + Len(d) - p = h + k
  BY <1>1 DEF k
<1>q. QED BY <1>7, <1>8, <1>9 DEF j, s

LEMMA GivenTypes ==
    ASSUME TypeInv
    PROVE  /\ out \in Nat
           /\ \A f \in File : data[f] \in Seq(Nat) /\ Len(data[f]) \in Nat
           /\ \A v \in Viewer : view[v] \in ViewState /\ view[v].got \in Seq(Nat) /\ view[v].from \in Nat
           /\ reg # None => reg \in Backend /\ be[reg] \in BackendState
BY BoundsAssumption DEF TypeInv, TypeOK, ViewState

LEMMA GivenInit == Init => Given
<1> SUFFICES ASSUME Init PROVE Given
  OBVIOUS
<1>1. /\ \A o \in Op : op[o].pc = "idle"
      /\ \A v \in Viewer : view[v].got = <<>>
      /\ subs = {}
  BY DEF Init, Idle, Away
<1>2. Reading => EndsWithLatest(Mark(reg))
  <2>1. CASE reg = None
    BY <2>1 DEF Reading
  <2>2. ASSUME NEW b \in Backend, pipe = 1, reg = b,
               be = [c \in Backend |->
                       IF c = b THEN [Gone EXCEPT !.task = "tailing", !.fd = 1] ELSE Gone]
        PROVE  EndsWithLatest(Mark(reg))
    <3>1. Mark(reg) = 0
      BY <2>2 DEF Mark, Gone
    <3>2. pipe \in File
      BY <2>2, BoundsAssumption DEF File
    <3>3. data[pipe] = <<>> /\ Len(data[pipe]) = 0
      BY <3>2 DEF Init
    <3>q. QED BY <3>1, <3>2, <3>3 DEF EndsWithLatest
  <2>q. QED BY <2>1, <2>2 DEF Init
<1>q. QED BY <1>1, <1>2 DEF Given

\* A chunk more is printed.
LEMMA GivenEmit == GInv /\ Emit => Given'
<1> SUFFICES ASSUME GInv, Emit PROVE Given'
  OBVIOUS
<1> USE GivenTypes DEF GInv
<1>1. UNCHANGED <<pipe, at, be, reg, subs, op, view>> /\ out' = out + 1
  BY DEF Emit
<1>2. ASSUME pipe \in File
      PROVE  /\ out' - Len(data'[pipe]) = out - Len(data[pipe])
             /\ \A l : EndsWithLatest(l) => EndsWithLatest(l)'
  <2>1. data' = [data EXCEPT ![pipe] = Append(data[pipe], out')] /\ data \in [File -> Seq(1..MaxOut)]
    BY <1>2, NoneAssumption DEF Emit, TypeInv, TypeOK, File
  <2> DEFINE d == data[pipe]
  <2>2. d \in Seq(Nat) /\ Len(d) \in Nat /\ data'[pipe] = Append(d, out')
    BY <1>2, <2>1
  <2>3. /\ Len(data'[pipe]) = Len(d) + 1
        /\ \A i \in 1..Len(d) : data'[pipe][i] = d[i]
        /\ data'[pipe][Len(d) + 1] = out'
    BY <2>2
  <2>4. ASSUME NEW l, EndsWithLatest(l) PROVE EndsWithLatest(l)'
    <3>1. l \in 0..Len(d) /\ \A i \in l + 1..Len(d) : d[i] = out - Len(d) + i
      BY <2>4 DEF EndsWithLatest
    <3>2. ASSUME NEW i \in l + 1..Len(d) + 1 PROVE data'[pipe][i] = out' - (Len(d) + 1) + i
      <4> HIDE DEF d
      <4>0. out \in Nat /\ l \in Nat
        BY <2>2, <3>1
      <4>1. CASE i = Len(d) + 1
        BY <1>1, <2>2, <2>3, <4>1
      <4>2. CASE i # Len(d) + 1
        <5>1. i \in 1..Len(d) /\ i \in l + 1..Len(d)
          BY <2>2, <3>1, <3>2, <4>2
        <5>2. data'[pipe][i] = out - Len(d) + i
          BY <2>3, <3>1, <5>1
        <5>q. QED BY <1>1, <2>2, <4>0, <5>1, <5>2
      <4>q. QED BY <4>1, <4>2
    <3>3. l \in 0..Len(d) + 1
      BY <2>2, <3>1
    <3>q. QED BY <1>1, <1>2, <2>3, <3>2, <3>3 DEF EndsWithLatest
  <2>q. QED BY <1>1, <2>2, <2>3, <2>4
<1>3. \A o \in Op : op'[o].pc = "attach" => EndsWithLatest(be[op[o].b].start)'
  BY <1>1, <1>2 DEF Given, EndsWithLatest
<1>4. ASSUME Reading' PROVE EndsWithLatest(Mark(reg))' /\ \A v \in subs' : Served(v)'
  <2>1. Reading /\ Mark(reg)' = Mark(reg) /\ EndsWithLatest(Mark(reg)) /\ pipe \in File
    BY <1>1, <1>4 DEF Reading, Mark, Given, EndsWithLatest
  <2>2. Mark(reg) \in Nat
    BY <2>1 DEF EndsWithLatest
  <2>3. Handed' = Handed
    BY <1>1, <1>2, <2>1, <2>2 DEF Handed
  <2>4. EndsWithLatest(Mark(reg))'
    BY <1>1, <1>2, <2>1 DEF EndsWithLatest
  <2>q. QED BY <1>1, <2>1, <2>3, <2>4 DEF Given, Served
<1>5. /\ (\A o \in Op : op[o].pc = "offset" => pipe \in File)'
      /\ (reg = None => subs = {})'
      /\ (\A v \in Viewer : view[v].pc \in {"away", "accepted"} => view[v].got = <<>> /\ v \notin subs)'
  BY <1>1 DEF Given
<1> HIDE DEF GInv
<1>6. Reading' => (EndsWithLatest(Mark(reg)) /\ \A v \in subs : Served(v))'
  BY <1>4
<1>q. QED BY <1>3, <1>5, <1>6 DEF Given

\* The reader opens its file where its marks says, or hands out what it has read.
LEMMA GivenStream ==
    ASSUME GInv, NEW b \in Backend, TailOpen(b) \/ TailRead(b) \/ Rotate(b)
    PROVE  Given'
<1> USE GivenTypes DEF GInv
<1>1. b = reg /\ Reading /\ b # None
  BY NoneAssumption DEF Wired, OneReader, Reading, TailOpen, TailRead, Rotate
<1>2. op' = op /\ reg' = reg /\ subs' = subs /\ UNCHANGED <<out, pipe, data>>
  BY DEF TailOpen, TailRead, Rotate, stream
<1>3. \A o \in Op : op[o].pc \in {"idle", "watcher"}
  <2> TAKE o \in Op
  <2>1. op[o].pc \notin {"reader", "closing"}
    BY <1>1 DEF Reading, Wired, InFlight, NoReader
  <2>2. op[o].pc \notin {"cwd", "unpipe", "pipe", "offset", "attach"}
    BY <1>1 DEF Wired, InFlight
  <2>q. QED BY <2>1, <2>2 DEF TypeInv, TypeOK, OpState
<1>4. Connected(b) /\ EndsWithLatest(Mark(b)) /\ pipe \in File /\ \A v \in subs : Served(v)
  BY <1>1, <1>3 DEF Wired, Streams, Given, EndsWithLatest
<1>5. \A v \in Viewer : view'[v].pc = view[v].pc /\ view'[v].from = view[v].from
                        /\ (v \notin subs => view'[v] = view[v])
  BY DEF TailOpen, TailRead, Rotate, TypeInv, TypeOK, ViewState
<1>6. \A v \in Viewer : view'[v].pc \in {"away", "accepted"} => view'[v].got = <<>> /\ v \notin subs'
  BY <1>2, <1>5 DEF Given
<1> SUFFICES ASSUME Reading' PROVE EndsWithLatest(Mark(b))' /\ \A v \in subs : Served(v)'
  BY <1>1, <1>2, <1>3, <1>6 DEF Given
<1>7. CASE TailOpen(b)
  <2>1. be[b].task = "starting" /\ at[be[b].path] = pipe
    BY <1>4, <1>7 DEF TailOpen, Connected
  <2>2. be'[b].task = "tailing" /\ be'[b].pos = Seek(b, pipe)
    BY <1>7, <2>1 DEF TailOpen, TypeInv, TypeOK
  <2>3. Mark(b) = be[b].start /\ be[b].start \in 0..Len(data[pipe])
    BY <1>4, <2>1 DEF Mark, EndsWithLatest
  <2>4. Seek(b, pipe) = be[b].start
    BY <1>4, <2>3, NoneAssumption DEF Seek
  <2>5. Mark(b)' = Mark(b)
    BY <2>2, <2>3, <2>4 DEF Mark
  <2>6. view' = view
    BY <1>7 DEF TailOpen
  <2>q. QED BY <1>1, <1>2, <1>4, <2>5, <2>6 DEF EndsWithLatest, Served, Handed
<1>8. CASE TailRead(b)
  <2> DEFINE d == data[pipe]
             more == SubSeq(d, be[b].pos + 1, Len(d))
  <2>1. be[b].task = "tailing" /\ be[b].fd = pipe /\ be[b].pos < Len(d)
    BY <1>4, <1>8 DEF TailRead, Connected
  <2>2. be'[b].task = "tailing" /\ be'[b].pos = Len(d)
    BY <1>8, <2>1 DEF TailRead, TypeInv, TypeOK, BackendState
  <2>3. Mark(b) = be[b].pos /\ Mark(b)' = Len(d) /\ be[b].pos \in 0..Len(d)
    BY <1>4, <2>1, <2>2 DEF Mark, EndsWithLatest
  <2>4. d \in Seq(Nat) /\ Len(d) \in Nat /\ out \in Nat
    BY <1>4
  <2>5. EndsWithLatest(Mark(b))'
    <3>1. Mark(b)' \in 0..Len(d) /\ Mark(b)' + 1..Len(d) = {}
      BY <2>3, <2>4
    <3>q. QED BY <1>2, <1>4, <3>1 DEF EndsWithLatest
  <2>6. Handed = out - Len(d) + be[b].pos /\ Handed' = out
    BY <1>1, <1>2, <2>3, <2>4 DEF Handed
  <2>7. ASSUME NEW v \in subs PROVE Served(v)'
    <3>1. v \in Viewer /\ view'[v].got = view[v].got \o more
      BY <1>8, <2>1, <2>7 DEF TailRead, TypeInv, TypeOK, ViewState
    <3>2. view[v].got \in Seq(Nat) /\ view[v].from \in Nat /\ UpTo(view[v].got, Handed)
      BY <1>4, <2>7, <3>1 DEF Served
    <3>3. /\ Handed \in Int /\ out = Handed + Len(d) - be[b].pos
          /\ \A i \in be[b].pos + 1..Len(d) : d[i] = Handed - be[b].pos + i
      <4>1. \A i \in be[b].pos + 1..Len(d) : d[i] = out - Len(d) + i
        BY <1>4, <2>3 DEF EndsWithLatest
      <4> HIDE DEF d
      <4>2. be[b].pos \in Nat /\ Handed \in Int /\ out = Handed + Len(d) - be[b].pos
        BY <2>3, <2>4, <2>6
      <4>3. ASSUME NEW i \in be[b].pos + 1..Len(d) PROVE d[i] = Handed - be[b].pos + i
        <5>1. PICK x \in Int, y \in Int, l \in Int, q \in Int :
                 x = out /\ y = Handed /\ l = Len(d) /\ q = be[b].pos
          BY <2>4, <4>2
        <5>2. x = y + l - q /\ d[i] = x - l + i
          BY <4>1, <4>2, <5>1
        <5>3. d[i] = y - q + i
          BY <5>2
        <5>q. QED BY <5>1, <5>3
      <4>q. QED BY <4>2, <4>3
    <3> HIDE DEF d
    <3>4. /\ UpTo(view'[v].got, out)
          /\ OnceEach(view[v].got, view[v].from, Handed) => OnceEach(view'[v].got, view[v].from, out)
      BY <2>3, <2>4, <3>1, <3>2, <3>3, Joined
    <3>q. QED BY <1>4, <1>5, <2>6, <2>7, <3>1, <3>4 DEF Served
  <2>q. QED BY <2>5, <2>7
<1>9. CASE Rotate(b)
  BY <1>1, <1>2, <1>4, <1>9 DEF Rotate, EndsWithLatest, Mark, Served, Handed
<1>q. QED BY <1>7, <1>8, <1>9

\* An operation begins or goes on: what it does to a registration that reads is to
\* take its reader away.
LEMMA GivenOp ==
    ASSUME NoOverlap, GInv, NEW o \in Op, AdoptBegin(o) \/ DetachBegin(o) \/ Resume(o)
    PROVE  Given'
<1> USE GivenTypes DEF GInv
<1>0. op[o] \in OpState /\ InFlight(o) /\ (\A p \in Op : p = o) /\ view' = view
  BY DEF NoOverlap, TypeInv, TypeOK, Wired, AdoptBegin, DetachBegin, Resume, Cancel, AdoptWipe,
         Probe, Unpipe, StartPipe, RecordOffset, Attach, DetachClose, DetachWipe
<1>1. CASE AdoptBegin(o) \/ DetachBegin(o)
  <2>1. op'[o].pc \in {"cwd", "watcher"} /\ UNCHANGED <<stream, be, reg, subs>>
    BY <1>1 DEF AdoptBegin, DetachBegin, TypeInv, TypeOK, Idle
  <2>q. QED
    BY <1>0, <2>1 DEF stream, Given, Reading, EndsWithLatest, Mark, Served, Handed
<1>2. CASE Cancel(o)
  <2>1. op'[o].pc = "reader" /\ UNCHANGED <<stream, reg, subs>>
    BY <1>0, <1>2 DEF Cancel, TypeInv, TypeOK, OpState
  <2>2. be' = [be EXCEPT ![reg] = Gone]
    BY <1>0, <1>2 DEF Cancel, OpAt, InFlight, Stopped
  <2>3. ~Reading'
    BY <2>1, <2>2 DEF Reading, TypeInv, TypeOK, Gone
  <2>q. QED BY <1>0, <2>1, <2>3 DEF Given
<1>3. CASE AdoptWipe(o) \/ DetachWipe(o)
  <2>1. op'[o].pc \in {"cwd", "idle"} /\ reg' = None /\ subs' = {}
    BY <1>0, <1>3 DEF AdoptWipe, DetachWipe, Wipe, TypeInv, TypeOK, OpState, Idle
  <2>q. QED BY <1>0, <2>1 DEF Given, Reading
<1>4. CASE Probe(o)
  <2>1. PICK b \in Backend : op' = [op EXCEPT ![o].b = b, ![o].pc = AfterProbe]
    BY <1>4 DEF Probe
  <2>2. op'[o].pc \in {"unpipe", "pipe"} /\ UNCHANGED <<reg, subs>> /\ reg = None
    BY <1>0, <1>4, <2>1 DEF Probe, OpAt, InFlight, AfterProbe, TypeInv, TypeOK, OpState
  <2>q. QED BY <1>0, <2>2 DEF Given, Reading
<1>5. CASE Unpipe(o)
  <2>1. op'[o].pc = "pipe" /\ UNCHANGED <<reg, subs>> /\ reg = None
    BY <1>0, <1>5 DEF Unpipe, OpAt, InFlight, TypeInv, TypeOK, OpState
  <2>q. QED BY <1>0, <2>1 DEF Given, Reading
<1>6. CASE StartPipe(o)
  <2>1. op'[o].pc = "offset" /\ UNCHANGED <<reg, subs>> /\ reg = None
    BY <1>0, <1>6 DEF StartPipe, OpAt, InFlight, TypeInv, TypeOK, OpState
  <2>2. pipe' \in File
    <3>1. PathOf(o) \in Path /\ at[PathOf(o)] \in File \cup {None} /\ pipe' = at'[PathOf(o)]
      BY <1>6 DEF StartPipe, PathOf, Path, TypeInv, TypeOK
    <3>2. CASE at[PathOf(o)] # None
      BY <1>6, <3>1, <3>2 DEF StartPipe, Ensured
    <3>3. CASE at[PathOf(o)] = None
      <4>1. at' = [at EXCEPT ![PathOf(o)] = files + 1] /\ files < MaxFiles /\ files \in 0..MaxFiles
        BY <1>6, <3>3 DEF StartPipe, Ensured, TypeInv, TypeOK
      <4>2. pipe' = files + 1
        BY <3>1, <4>1 DEF TypeInv, TypeOK
      <4>q. QED BY <4>1, <4>2, BoundsAssumption DEF File
    <3>q. QED BY <3>2, <3>3
  <2>q. QED BY <1>0, <2>1, <2>2 DEF Given, Reading
<1>7. CASE RecordOffset(o)
  <2>1. /\ op'[o].pc = "attach" /\ op'[o].b = op[o].b /\ UNCHANGED <<stream, reg, subs>>
        /\ reg = None /\ op[o].b \in Backend /\ at[PathOf(o)] = pipe /\ pipe \in File
    BY <1>0, <1>7 DEF RecordOffset, OpAt, InFlight, TypeInv, TypeOK, OpState, Given
  <2>2. be'[op[o].b].start = Len(data[pipe])
    BY <1>7, <2>1, NoneAssumption DEF RecordOffset, TypeInv, TypeOK, BackendState, File
  <2>3. EndsWithLatest(be[op[o].b].start)'
    <3>1. Len(data[pipe]) \in 0..Len(data[pipe]) /\ Len(data[pipe]) + 1..Len(data[pipe]) = {}
      BY <2>1
    <3>q. QED BY <2>1, <2>2, <3>1 DEF EndsWithLatest, stream
  <2>q. QED BY <1>0, <2>1, <2>3 DEF Given, Reading
<1>8. CASE Attach(o)
  <2>1. /\ op'[o].pc = "idle" /\ reg' = op[o].b /\ op[o].b \in Backend
        /\ subs' = {} /\ UNCHANGED stream
    BY <1>0, <1>8 DEF Attach, OpAt, InFlight, Given, TypeInv, TypeOK, Idle
  <2>2. be'[op[o].b].task = "starting" /\ be'[op[o].b].start = be[op[o].b].start
    BY <1>8, <2>1 DEF Attach, TypeInv, TypeOK, BackendState
  <2>3. Mark(reg)' = be[op[o].b].start
    BY <2>1, <2>2 DEF Mark
  <2>4. EndsWithLatest(Mark(reg))'
    BY <1>0, <1>8, <2>1, <2>3 DEF Attach, OpAt, Given, EndsWithLatest, stream
  <2>q. QED BY <1>0, <2>1, <2>4, NoneAssumption DEF Given
<1>9. CASE DetachClose(o)
  <2>1. op'[o].pc = "closing" /\ UNCHANGED <<be, reg, subs>> /\ NoReader
    BY <1>0, <1>9 DEF DetachClose, OpAt, InFlight, TypeInv, TypeOK, OpState
  <2>2. ~Reading'
    BY <2>1 DEF Reading, NoReader
  <2>q. QED BY <1>0, <2>1, <2>2 DEF Given
<1>q. QED
  BY <1>1, <1>2, <1>3, <1>4, <1>5, <1>6, <1>7, <1>8, <1>9 DEF Resume

\* A client comes with nothing, and its paint shows all that is printed by then.
LEMMA GivenView ==
    ASSUME GInv, NEW v \in Viewer, Accept(v) \/ Subscribe(v) \/ Paint(v) \/ Close(v)
    PROVE  Given'
<1> USE GivenTypes DEF GInv
<1>1. UNCHANGED <<stream, be, reg, op>>
  BY DEF Accept, Subscribe, Paint, Close
<1>2. \A w \in Viewer \ {v} : view'[w] = view[w] /\ (w \in subs' <=> w \in subs)
  BY DEF Accept, Subscribe, Paint, Close, TypeInv, TypeOK
<1>3. /\ \A o \in Op : op'[o].pc = "offset" => pipe' \in File
      /\ \A o \in Op : op'[o].pc = "attach" => EndsWithLatest(be[op[o].b].start)'
      /\ Reading' => Reading /\ EndsWithLatest(Mark(reg))'
      /\ Handed' = Handed
  BY <1>1 DEF stream, Given, EndsWithLatest, Reading, Mark, Handed
<1> SUFFICES /\ reg = None => subs' = {}
             /\ view'[v].pc \in {"away", "accepted"} => view'[v].got = <<>> /\ v \notin subs'
             /\ Reading /\ v \in subs' => Served(v)'
  <2>1. \A w \in Viewer : view'[w].pc \in {"away", "accepted"} => view'[w].got = <<>> /\ w \notin subs'
    BY <1>2 DEF Given
  <2>2. ASSUME Reading' PROVE \A w \in subs' : Served(w)'
    <3> TAKE w \in subs'
    <3>1. CASE w = v
      BY <1>3, <2>2, <3>1
    <3>2. CASE w # v
      <4>1. w \in Viewer
        BY ViewStepType DEF TypeInv, TypeOK
      <4>2. view'[w] = view[w] /\ Served(w)
        BY <1>2, <1>3, <2>2, <3>2, <4>1 DEF Given
      <4>q. QED BY <1>3, <4>2 DEF Served
    <3>q. QED BY <3>1, <3>2
  <2>q. QED BY <1>1, <1>3, <2>1, <2>2 DEF Given
<1>4. CASE Accept(v)
  BY <1>4 DEF Accept, Given, TypeInv, TypeOK, ViewState
<1>5. CASE Subscribe(v)
  <2>1. view'[v].pc = "subscribed" /\ view'[v].got = <<>> /\ (reg = None => subs' = subs)
    BY <1>5 DEF Subscribe, Given, TypeInv, TypeOK, ViewState
  <2>q. QED BY <2>1 DEF Served, UpTo, Given
<1>6. CASE Paint(v)
  <2>1. /\ view'[v].pc = "open" /\ view'[v].from = out /\ view'[v].got = view[v].got
        /\ subs' = subs
    BY <1>6 DEF Paint, TypeInv, TypeOK, ViewState
  <2>2. ASSUME Reading, v \in subs PROVE Served(v)'
    <3>1. UpTo(view[v].got, Handed) /\ EndsWithLatest(Mark(reg))
      BY <2>2 DEF Given, Served
    <3>2. Handed \in Int /\ Handed <= out
      BY <3>1 DEF EndsWithLatest, Handed
    <3>3. OnceEach(view'[v].got, out, Handed)
      BY <3>2 DEF OnceEach
    <3>q. QED BY <1>3, <2>1, <3>1, <3>3 DEF Served
  <2>q. QED BY <2>1, <2>2 DEF Given
<1>7. CASE Close(v)
  BY <1>7 DEF Close, Given, Away, TypeInv, TypeOK
<1>q. QED BY <1>4, <1>5, <1>6, <1>7

LEMMA GivenInductive == NoOverlap /\ GInv /\ [Next]_vars => GInv'
<1> SUFFICES ASSUME NoOverlap, GInv, [Next]_vars PROVE Given'
  BY TypeInductive, WiredInductive DEF GInv
<1>1. CASE Emit
  BY <1>1, GivenEmit
<1>2. CASE Restart
  <2>1. /\ reg' = None /\ subs' = {} /\ \A v \in Viewer : view'[v].got = <<>>
        /\ \A o \in Op : op'[o].pc \in {"idle", "cwd"}
    <3>1. Idle.pc = "idle" /\ [Idle EXCEPT !.kind = "readopt", !.pc = "cwd"].pc = "cwd"
      BY DEF Idle
    <3>2. \A o \in Op : op'[o].pc \in {"idle", "cwd"}
      BY <1>2, <3>1 DEF Restart
    <3>q. QED BY <1>2, <3>2 DEF Restart, Wipe, Away
  <2>q. QED BY <2>1 DEF Given, Reading
<1>3. CASE \E b \in Backend : Follow(b) \/ Rotate(b)
  BY <1>3, GivenStream DEF Follow
<1>4. CASE \E o \in Op : AdoptBegin(o) \/ DetachBegin(o) \/ Resume(o)
  BY <1>4, GivenOp
<1>5. CASE \E v \in Viewer : Accept(v) \/ Subscribe(v) \/ Paint(v) \/ Close(v)
  BY <1>5, GivenView
<1>6. CASE UNCHANGED vars
  BY <1>6 DEF vars, stream, GInv, Given, EndsWithLatest, Reading, Mark, Served, Handed
<1>q. QED BY <1>1, <1>2, <1>3, <1>4, <1>5, <1>6 DEF Next

LEMMA GivenIsInStep == GInv => ViewersInStep
<1> SUFFICES ASSUME GInv, Quiet, reg # None, be[reg].task = "tailing",
                    NEW v \in subs, view[v].pc = "open", NEW n \in view[v].from + 1..out
             PROVE  LET due == view[v].got \o SubSeq(data[be[reg].fd], be[reg].pos + 1, Len(data[be[reg].fd]))
                    IN  Cardinality({i \in 1..Len(due) : due[i] = n}) = 1
  BY DEF ViewersInStep
<1> USE GivenTypes DEF GInv
<1> DEFINE d == data[pipe]
           p == be[reg].pos
           due == view[v].got \o SubSeq(d, p + 1, Len(d))
<1>1. be[reg].fd = pipe
  BY DEF Wired, Streams, Connected, Quiet, OpAt
<1>2. EndsWithLatest(p) /\ Served(v) /\ Handed = out - Len(d) + p
  BY DEF Given, Reading, Mark, Handed
<1>3. /\ v \in Viewer /\ view[v].got \in Seq(Nat) /\ view[v].from \in Nat
      /\ d \in Seq(Nat) /\ Len(d) \in Nat /\ p \in 0..Len(d) /\ out \in Nat
  BY <1>2 DEF EndsWithLatest, TypeInv, TypeOK
<1>4. \A i \in p + 1..Len(d) : d[i] = out - Len(d) + i
  BY <1>2 DEF EndsWithLatest
<1> HIDE DEF d, p
<1>5. Handed \in Int /\ Handed + Len(d) - p = out
  BY <1>2, <1>3
<1>6. \A i \in p + 1..Len(d) : d[i] = Handed - p + i
  <2> TAKE i \in p + 1..Len(d)
  <2>1. \A x, y, l, q, m \in Int : x = y + l - q => x - l + m = y - q + m
    OBVIOUS
  <2>2. out \in Int /\ Len(d) \in Int /\ p \in Int /\ i \in Int
    BY <1>3
  <2>3. out - Len(d) + i = Handed - p + i
    BY <1>5, <2>1, <2>2
  <2>q. QED BY <1>4, <2>3
<1>7. OnceEach(due, view[v].from, out)
  <2>1. UpTo(view[v].got, Handed) /\ OnceEach(view[v].got, view[v].from, Handed)
    BY <1>2 DEF Served
  <2>q. QED BY <1>3, <1>5, <1>6, <2>1, Joined
<1> HIDE DEF due
<1>8. PICK i \in 1..Len(due) : due[i] = n /\ \A j \in 1..Len(due) : due[j] = n => j = i
  BY <1>7 DEF OnceEach
<1>9. {j \in 1..Len(due) : due[j] = n} = {i}
  BY <1>8
<1>10. Cardinality({j \in 1..Len(due) : due[j] = n}) = 1
  BY <1>9, FS_Singleton
<1>q. QED BY <1>1, <1>10 DEF due, d, p

\* A terminal that is open gets every chunk once, in however many pieces it is read
\* and whatever was adopted, detached or rotated before, for any number of clients.
THEOREM InStepWithoutOverlap == ASSUME NoOverlap PROVE Spec => []ViewersInStep
<1>1. Init => GInv
  BY InitType, WiredInit, GivenInit DEF GInv
<1>2. GInv /\ [Next]_vars => GInv'
  BY GivenInductive
<1>q. QED BY <1>1, <1>2, GivenIsInStep, PTL DEF Spec
=============================================================================
