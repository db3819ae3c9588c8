--------------------------- MODULE ActivityProofs ---------------------------
(***************************************************************************)
(* The two readers of what a session is doing, for any number of hooks,    *)
(* clients, chunks and seconds.  Of SessionStatus, which reads its hooks:  *)
(* its types, that a finished turn stays finished whatever comes late, and *)
(* that hooks applied once and in order make the dot right.  Of            *)
(* Notifications, behind the watcher that reads its output: the types,     *)
(* that a completion is announced once and honestly, and that the limiter  *)
(* lets through what its log allows.                                       *)
(***************************************************************************)
EXTENDS SessionStatus, Notifications, FiniteSetTheorems, WellFoundedInduction, TLAPS

Signal == [seen : BOOLEAN, perm : {"no", "new", "old"}, notice : BOOLEAN,
           hb : BOOLEAN, depth : Nat, turn : BOOLEAN, stopped : BOOLEAN]

AnswerKinds == {"UserPromptSubmit", "PreToolUse", "Stop"}

BeatKinds == {"PreToolUse", "PostToolUse", "SubagentStart"}

\* A restart is the end of the order; what follows is about one process.
InOrder == ordered /\ boots = 0

\* The signal stands in front of the hooks in flight: at place 0 is what it says, and at
\* every other place a hook still to be applied.
Opens(F, O, open, i) == (i = 0 /\ open) \/ (i > 0 /\ F[i] \in O)

Closed(F, C, i, n) == \E k \in (i + 1)..n : F[k] \in C

\* Between two openings there is a closing hook.
Alternates(F, O, C, open) ==
    \A i, j \in 0..Len(F) :
        i < j /\ Opens(F, O, open, i) /\ Opens(F, O, open, j) => Closed(F, C, i, j - 1)

\* Behind every opening there is a closing hook.
Ended(F, O, C, open) == \A i \in 0..Len(F) : Opens(F, O, open, i) => Closed(F, C, i, Len(F))

Matched(F, O, C, open, going) == Alternates(F, O, C, open) /\ (~ going => Ended(F, O, C, open))

Asked == sig.perm # "no"

AsksMatch ==
    Matched(flight, {"PermissionRequest"}, AnswerKinds, Asked, agent.does = "ask")

SubagentsMatch ==
    /\ Matched(flight, {"SubagentStart"}, {"SubagentStop"}, sig.depth > 0, agent.subs = 1)
    /\ sig.depth <= 1

\* The question of an agent that asks is on its way or shown, and the listing will not
\* find it unanswered without a dialog.
QuestionStands ==
    agent.does = "ask" /\ ~ looked =>
        \E i \in 0..Len(flight) :
            /\ Opens(flight, {"PermissionRequest"}, Asked, i)
            /\ ~ Closed(flight, AnswerKinds, i, Len(flight))
            /\ i = 0 => sig.perm = "new" \/ agent.drawn

\* Behind every sign of work there is a Stop once the agent is at its prompt.
WorkEnds == agent.does = "prompt" => Ended(flight, BeatKinds, {"Stop"}, sig.hb)

OrderInv == InOrder => AsksMatch /\ SubagentsMatch /\ QuestionStands /\ WorkEnds

SaysNothing(s) ==
    s.perm = "no" /\ ~ s.notice /\ ~ s.hb /\ s.depth = 0 /\ ~ s.turn /\ ~ s.stopped

\* A signal that has seen nothing says nothing, and before the first restart the row
\* says nothing either.
SilentInv ==
    /\ ~ sig.seen => SaysNothing(sig)
    /\ ~ sig.seen /\ boots = 0 => row.state = None

RestInv == sig.stopped /\ ~ sig.turn => ~ sig.hb

TypeInv == TypeOK /\ Len(flight) <= sent

IInv == TypeInv /\ SilentInv /\ RestInv
-----------------------------------------------------------------------------
(* One hook and the signal.                                                *)

LEMMA SilentType == Silent \in Signal
BY DEF Silent, Signal

\* record_event(), field by field.
LEMMA RecordedFacts ==
    ASSUME NEW s \in Signal, NEW kind \in KNOWN_EVENTS
    PROVE  LET r == Recorded(s, kind) IN
           /\ r \in Signal /\ r.seen
           /\ kind = "PermissionRequest" => r.perm = IF s.perm = "no" THEN "new" ELSE s.perm
           /\ kind \in AnswerKinds => r.perm = "no"
           /\ kind \notin AnswerKinds \cup {"PermissionRequest"} => r.perm = s.perm
           /\ kind = "SubagentStart" => r.depth = s.depth + 1
           /\ kind = "SubagentStop" => r.depth = IF s.depth > 0 THEN s.depth - 1 ELSE 0
           /\ kind = "Stop" => r.depth = 0 /\ ~ r.hb
           /\ kind \notin {"SubagentStart", "SubagentStop", "Stop"} => r.depth = s.depth
           /\ kind \notin BeatKinds => (r.hb => s.hb)
           /\ (s.stopped /\ ~ s.turn => ~ s.hb) => (r.stopped /\ ~ r.turn => ~ r.hb)
<1> DEFINE r == Recorded(s, kind)
<1>1. CASE kind = "PermissionRequest"
  BY <1>1 DEF Recorded, Signal, AnswerKinds, BeatKinds
<1>2. CASE kind = "Notification"
  BY <1>2 DEF Recorded, Signal, AnswerKinds, BeatKinds
<1>3. CASE kind = "UserPromptSubmit"
  BY <1>3 DEF Recorded, Answered, Signal, AnswerKinds, BeatKinds
<1>4. CASE kind = "PreToolUse"
  BY <1>4 DEF Recorded, Answered, Signal, AnswerKinds, BeatKinds
<1>5. CASE kind = "PostToolUse"
  BY <1>5 DEF Recorded, Closer, Signal, AnswerKinds, BeatKinds
<1>6. CASE kind = "SubagentStart"
  <2>1. r = [s EXCEPT !.seen = TRUE, !.depth = s.depth + 1, !.turn = TRUE, !.hb = TRUE]
    BY <1>6 DEF Recorded, Signal
  <2> HIDE DEF r
  <2>2. s.depth \in Nat /\ s.depth + 1 \in Nat
    BY DEF Signal
  <2>3. r \in Signal
    BY <2>1, <2>2 DEF Signal
  <2>4. r.seen /\ r.perm = s.perm /\ r.depth = s.depth + 1 /\ r.turn
    BY <2>1 DEF Signal
  <2> QED BY <1>6, <2>3, <2>4 DEF r, AnswerKinds, BeatKinds
<1>7. CASE kind = "SubagentStop"
  <2>1. r = [s EXCEPT !.seen = TRUE, !.depth = IF s.depth > 0 THEN s.depth - 1 ELSE s.depth]
    BY <1>7 DEF Recorded, Closer, Signal
  <2> DEFINE d == IF s.depth > 0 THEN s.depth - 1 ELSE s.depth
  <2> HIDE DEF r
  <2>2. d \in Nat /\ d = IF s.depth > 0 THEN s.depth - 1 ELSE 0
    BY DEF Signal
  <2> HIDE DEF d
  <2>3. r = [s EXCEPT !.seen = TRUE, !.depth = d]
    BY <2>1 DEF d
  <2>4. r \in Signal
    BY <2>2, <2>3 DEF Signal
  <2>5. /\ r.seen /\ r.perm = s.perm /\ r.hb = s.hb /\ r.depth = d
        /\ r.turn = s.turn /\ r.stopped = s.stopped
    BY <2>3 DEF Signal
  <2> QED BY <1>7, <2>2, <2>4, <2>5 DEF r, AnswerKinds, BeatKinds
<1>8. CASE kind = "Stop"
  BY <1>8 DEF Recorded, Answered, Signal, AnswerKinds, BeatKinds
<1> QED
  BY <1>1, <1>2, <1>3, <1>4, <1>5, <1>6, <1>7, <1>8 DEF KNOWN_EVENTS

\* What resolve() makes of a signal, and what of it may be written to the row.
LEMMA ResolvedFacts ==
    ASSUME NEW s \in Signal, NEW live \in BOOLEAN, NEW flag \in BOOLEAN
    PROVE  /\ Resolved(s, live, flag) \in BaseState \cup {"unknown", "finished_unread"}
           /\ ReadState(Resolved(s, live, flag), FALSE) \in BaseState \cup {"unknown"}
           /\ Resolved(s, live, FALSE) \in BaseState \cup {"unknown"}
           /\ ~ s.seen => Resolved(s, live, flag) = "unknown"
           /\ s.seen /\ s.perm # "no" => Resolved(s, live, flag) = "question"
           /\ Resolved(s, live, flag) = "question" => s.seen /\ s.perm # "no"
           /\ Resolved(s, live, flag) \in Working => s.seen /\ s.hb
           /\ Resolved(s, live, flag) = "working_subagent" => s.depth > 0
<1>1. CASE ~ s.seen
  BY <1>1 DEF Resolved, ReadState, BaseState, PERISHABLE, Working, Signal
<1>2. CASE s.seen /\ s.perm # "no"
  BY <1>2 DEF Resolved, ReadState, BaseState, PERISHABLE, Working, Signal
<1>3. CASE s.seen /\ s.perm = "no" /\ s.notice
  BY <1>3 DEF Resolved, ReadState, BaseState, PERISHABLE, Working, Signal
<1>4. CASE s.seen /\ s.perm = "no" /\ ~ s.notice /\ s.hb
  BY <1>4 DEF Resolved, ReadState, BaseState, PERISHABLE, Working, Signal
<1>5. CASE s.seen /\ s.perm = "no" /\ ~ s.notice /\ ~ s.hb
  BY <1>5 DEF Resolved, ReadState, BaseState, PERISHABLE, Working, Signal
<1> QED BY <1>1, <1>2, <1>3, <1>4, <1>5 DEF Signal
-----------------------------------------------------------------------------
(* Types, silence and rest.                                                *)

LEMMA InitBasics == Init => IInv
<1> SUFFICES ASSUME Init PROVE IInv
  OBVIOUS
<1>1. sig \in Signal /\ ~ sig.hb /\ sig = Silent
  BY SilentType DEF Init, Silent
<1>2. /\ row \in [state : BaseState \cup {None}, fresh : BOOLEAN]
      /\ row.state = None
  BY DEF Init
<1>3. /\ flight = <<>> /\ Len(flight) = 0 /\ flight \in Seq(KNOWN_EVENTS)
      /\ sent = 0 /\ copies = 0 /\ boots = 0 /\ done \subseteq KNOWN_EVENTS
  BY DEF Init
<1>4. agent \in [does : {"prompt", "think", "ask", "tool"}, drawn : BOOLEAN, subs : {0, 1}]
  BY DEF Init
<1>5. unread \in BOOLEAN /\ cache \in {None} /\ ordered \in BOOLEAN /\ looked \in BOOLEAN
  BY DEF Init
<1>6. TypeInv
  BY <1>1, <1>2, <1>3, <1>4, <1>5, BoundsAssumption DEF TypeInv, TypeOK, Signal
<1> QED BY <1>1, <1>2, <1>6 DEF IInv, SilentInv, SaysNothing, Silent, RestInv

LEMMA RemoveType ==
    ASSUME NEW i \in 1..Len(flight), flight \in Seq(KNOWN_EVENTS)
    PROVE  /\ RemoveAt(flight, i) \in Seq(KNOWN_EVENTS)
           /\ Len(RemoveAt(flight, i)) = Len(flight) - 1
<1> DEFINE before == SubSeq(flight, 1, i - 1)
           behind == SubSeq(flight, i + 1, Len(flight))
<1>1. before \in Seq(KNOWN_EVENTS) /\ Len(before) = i - 1
  OBVIOUS
<1>2. behind \in Seq(KNOWN_EVENTS) /\ Len(behind) = Len(flight) - i
  OBVIOUS
<1> HIDE DEF before, behind
<1>3. RemoveAt(flight, i) = before \o behind
  BY DEF RemoveAt, before, behind
<1> QED BY <1>1, <1>2, <1>3

\* A hook writes the row with a base state, or leaves it.
LEMMA RecordBasics ==
    ASSUME IInv, NEW kind \in KNOWN_EVENTS, Record(kind)
    PROVE  /\ sig' \in Signal /\ SilentInv' /\ RestInv'
           /\ row' \in [state : BaseState \cup {None}, fresh : BOOLEAN]
           /\ unread' \in BOOLEAN /\ done' \subseteq KNOWN_EVENTS
<1>1. sig \in Signal
  BY DEF IInv, TypeInv, TypeOK, Signal
<1>2. sig' = Recorded(sig, kind) /\ HookWrites(sig')
  BY DEF Record
<1>3. sig' \in Signal /\ sig'.seen /\ RestInv'
  BY <1>1, <1>2, RecordedFacts DEF IInv, RestInv
<1>4. row' \in [state : BaseState \cup {None}, fresh : BOOLEAN]
  <2>1. Resolved(sig', FALSE, FALSE) \in BaseState \cup {"unknown"}
    BY <1>3, ResolvedFacts
  <2> DEFINE shown == Resolved(sig', FALSE, FALSE)
  <2>2. (shown # "unknown" /\ row' = [state |-> shown, fresh |-> TRUE]) \/ row' = row
    BY <1>2 DEF HookWrites
  <2>3. row \in [state : BaseState \cup {None}, fresh : BOOLEAN]
    BY DEF IInv, TypeInv, TypeOK
  <2> HIDE DEF shown
  <2>4. CASE shown # "unknown" /\ row' = [state |-> shown, fresh |-> TRUE]
    <3>1. shown \in BaseState \cup {None}
      BY <2>1, <2>4 DEF shown
    <3> QED BY <2>4, <3>1
  <2> QED BY <2>2, <2>3, <2>4
<1>5. unread' \in BOOLEAN /\ done' \subseteq KNOWN_EVENTS
  BY DEF Record, IInv, TypeInv, TypeOK
<1> QED BY <1>3, <1>4, <1>5 DEF SilentInv

LEMMA AgentBasics == ASSUME IInv, Agent PROVE IInv'
<1>1. PICK a \in [does : {"prompt", "think", "ask", "tool"}, drawn : BOOLEAN, subs : {0, 1}],
           kind \in KNOWN_EVENTS : Sends(a, kind)
  BY DEF Agent, Moves, IInv, TypeInv, TypeOK, KNOWN_EVENTS
<1>2. sent \in Nat /\ flight \in Seq(KNOWN_EVENTS)
  BY DEF IInv, TypeInv, TypeOK
<1>3. /\ flight' \in Seq(KNOWN_EVENTS) /\ Len(flight') = Len(flight) + 1
      /\ sent' \in 0..MaxHooks /\ Len(flight') <= sent' /\ Len(flight') <= MaxHooks
  BY <1>1, <1>2, BoundsAssumption DEF Sends, IInv, TypeInv, TypeOK
<1> QED BY <1>1, <1>3 DEF Sends, IInv, TypeInv, TypeOK, SilentInv, RestInv

LEMMA ApplyBasics == ASSUME IInv, NEW i \in 1..MaxHooks, Apply(i) PROVE IInv'
<1>1. i \in 1..Len(flight) /\ flight \in Seq(KNOWN_EVENTS)
  BY DEF Apply, IInv, TypeInv, TypeOK
<1>2. flight[i] \in KNOWN_EVENTS
  BY <1>1
<1>3. Record(flight[i])
  BY DEF Apply
<1>4. flight' \in Seq(KNOWN_EVENTS) /\ Len(flight') = Len(flight) - 1
  BY <1>1, RemoveType DEF Apply
<1>5. ordered' \in BOOLEAN
  BY DEF Apply, IInv, TypeInv, TypeOK
<1>6. UNCHANGED <<agent, sent, copies, cache, boots, looked>>
  BY <1>3 DEF Apply, Record
<1>7. sent \in Nat /\ Len(flight) \in Nat /\ Len(flight) <= sent /\ Len(flight) <= MaxHooks
  BY <1>1 DEF IInv, TypeInv, TypeOK
<1> QED
  BY <1>2, <1>3, <1>4, <1>5, <1>6, <1>7, RecordBasics, BoundsAssumption
  DEF IInv, TypeInv, TypeOK, Signal

LEMMA RepeatBasics == ASSUME IInv, NEW kind \in KNOWN_EVENTS, Repeat(kind) PROVE IInv'
<1>1. Record(kind)
  BY DEF Repeat
<1>2. copies' \in 0..MaxCopies /\ ordered' = FALSE /\ flight' = flight
  BY BoundsAssumption DEF Repeat, IInv, TypeInv, TypeOK
<1>3. UNCHANGED <<agent, sent, cache, boots, looked>>
  BY <1>1 DEF Record
<1> QED BY <1>1, <1>2, <1>3, RecordBasics DEF IInv, TypeInv, TypeOK, Signal

LEMMA ListBasics == ASSUME IInv, NEW read \in BOOLEAN, List(read) PROVE IInv'
<1>1. sig \in Signal /\ unread \in BOOLEAN
  BY DEF IInv, TypeInv, TypeOK, Signal
<1>2. sig' = sig \/ (sig' = [sig EXCEPT !.perm = "no"] /\ Checkable)
  BY DEF List
<1>3. /\ sig' \in Signal /\ sig'.seen = sig.seen /\ sig'.hb = sig.hb
      /\ sig'.turn = sig.turn /\ sig'.stopped = sig.stopped
  BY <1>1, <1>2 DEF Signal
<1>4. ~ sig.seen => sig' = sig /\ UNCHANGED <<row, cache>>
  BY <1>2 DEF List, Checkable, IInv, SilentInv, SaysNothing
<1>5. /\ row' \in [state : BaseState \cup {None}, fresh : BOOLEAN]
      /\ cache' \in BaseState \cup {None}
  <2> DEFINE shown == ReadState(Resolved(sig', TRUE, unread), FALSE)
  <2>1. shown \in BaseState \cup {"unknown"}
    BY <1>1, <1>3, ResolvedFacts
  <2>2. ListingWrites(shown) \/ UNCHANGED <<row, cache>>
    BY DEF List
  <2> HIDE DEF shown
  <2>3. /\ row \in [state : BaseState \cup {None}, fresh : BOOLEAN]
        /\ cache \in BaseState \cup {None}
    BY DEF IInv, TypeInv, TypeOK
  <2>4. CASE shown # "unknown" /\ row' = [state |-> shown, fresh |-> TRUE] /\ cache' = shown
    BY <2>1, <2>4
  <2> QED BY <2>2, <2>3, <2>4 DEF ListingWrites
<1>6. UNCHANGED <<agent, flight, done, sent, copies, unread, boots, ordered, looked>>
  BY DEF List
<1>7. TypeInv'
  BY <1>3, <1>5, <1>6 DEF IInv, TypeInv, TypeOK, Signal
<1>8. SilentInv' /\ RestInv'
  BY <1>3, <1>4, <1>6 DEF IInv, SilentInv, RestInv
<1> QED BY <1>7, <1>8 DEF IInv

LEMMA OthersBasics ==
    ASSUME IInv,
           Draw \/ View \/ MarkUnread \/ HeartbeatExpires \/ GracePasses \/ RowExpires \/ Restart
              \/ UNCHANGED vars
    PROVE  IInv'
<1>0. sig \in Signal
  BY DEF IInv, TypeInv, TypeOK, Signal
<1>1. CASE Draw
  <2>1. agent' \in [does : {"prompt", "think", "ask", "tool"}, drawn : BOOLEAN, subs : {0, 1}]
    BY <1>1 DEF Draw, IInv, TypeInv, TypeOK
  <2> QED BY <1>1, <2>1 DEF Draw, IInv, TypeInv, TypeOK, SilentInv, RestInv
<1>2. CASE View
  <2>1. /\ sig' \in Signal /\ sig'.seen = sig.seen /\ sig'.hb = sig.hb
        /\ sig'.turn = sig.turn /\ sig'.stopped = sig.stopped
    BY <1>0, <1>2 DEF View, Answered, Signal
  <2>2. ~ sig.seen => SaysNothing(sig')
    BY <1>0, <1>2 DEF View, Answered, IInv, SilentInv, SaysNothing, Signal
  <2>3. /\ UNCHANGED <<agent, flight, done, sent, copies, row, cache, boots, ordered>>
        /\ unread' \in BOOLEAN /\ looked' \in BOOLEAN
    BY <1>2 DEF View
  <2> QED BY <2>1, <2>2, <2>3 DEF IInv, TypeInv, TypeOK, SilentInv, RestInv, Signal
<1>3. CASE MarkUnread
  BY <1>3 DEF MarkUnread, IInv, TypeInv, TypeOK, SilentInv, RestInv
<1>4. CASE HeartbeatExpires
  <2>1. /\ sig' \in Signal /\ sig'.seen = sig.seen /\ ~ sig'.hb
    BY <1>0, <1>4 DEF HeartbeatExpires, Signal
  <2>2. sig.seen
    BY <1>4 DEF HeartbeatExpires, IInv, SilentInv, SaysNothing
  <2>3. UNCHANGED <<agent, flight, done, sent, copies, unread, row, cache, boots, ordered, looked>>
    BY <1>4 DEF HeartbeatExpires
  <2> QED BY <2>1, <2>2, <2>3 DEF IInv, TypeInv, TypeOK, SilentInv, RestInv, Signal
<1>5. CASE GracePasses
  BY <1>5 DEF GracePasses, IInv, TypeInv, TypeOK, SilentInv, RestInv, SaysNothing
<1>6. CASE RowExpires
  <2>1. row' \in [state : BaseState \cup {None}, fresh : BOOLEAN] /\ row'.state = row.state
    BY <1>6 DEF RowExpires, IInv, TypeInv, TypeOK
  <2> QED BY <1>6, <2>1 DEF RowExpires, IInv, TypeInv, TypeOK, SilentInv, RestInv
<1>7. CASE Restart
  <2>1. boots' \in 0..MaxBoots /\ boots' # 0 /\ sig' = Silent /\ cache' = None
    BY <1>7, BoundsAssumption DEF Restart, IInv, TypeInv, TypeOK
  <2>2. UNCHANGED <<agent, flight, done, sent, copies, unread, row, ordered, looked>>
    BY <1>7 DEF Restart
  <2>3. SilentInv' /\ RestInv'
    BY <2>1 DEF SilentInv, RestInv, SaysNothing, Silent
  <2> QED BY <2>1, <2>2, <2>3, SilentType DEF IInv, TypeInv, TypeOK, Signal
<1>8. CASE UNCHANGED vars
  BY <1>8 DEF vars, IInv, TypeInv, TypeOK, SilentInv, RestInv
<1> QED BY <1>1, <1>2, <1>3, <1>4, <1>5, <1>6, <1>7, <1>8

LEMMA StepBasics == IInv /\ [Next]_vars => IInv'
BY AgentBasics, ApplyBasics, RepeatBasics, ListBasics, OthersBasics DEF Next

\* The signal, the row and the hooks in flight keep their shape, and the depth of
\* subagents never falls below zero, in any order of any number of hooks.
THEOREM TypeCorrect == Spec => []TypeOK
<1>1. IInv => TypeOK
  BY DEF IInv, TypeInv
<1> QED BY <1>1, InitBasics, StepBasics, PTL DEF Spec

\* Once a Stop was applied and nothing has begun a turn since, no hook that comes late or
\* twice, and no restart, makes the session look at work.
THEOREM RestStays == Spec => []RestHolds
<1>1. IInv => RestHolds
  <2> SUFFICES ASSUME IInv, sig.stopped, ~ sig.turn PROVE Dot \notin Working
    BY DEF RestHolds
  <2>1. sig \in Signal /\ unread \in BOOLEAN /\ ~ sig.hb
    BY DEF IInv, TypeInv, TypeOK, Signal, RestInv
  <2>2. sig.seen
    BY DEF IInv, SilentInv, SaysNothing
  <2>3. Dot = Resolved(sig, TRUE, unread)
    BY <2>2 DEF Dot
  <2> QED BY <2>1, <2>3, ResolvedFacts
<1> QED BY <1>1, InitBasics, StepBasics, PTL DEF Spec
-----------------------------------------------------------------------------
(* Hooks in their order.                                                   *)

\* The oldest hook leaves: what was closed behind the next place stays closed.
LEMMA ClosedTail ==
    ASSUME NEW F \in Seq(KNOWN_EVENTS), F # <<>>, NEW C,
           NEW i \in Nat, NEW n \in Nat, n < Len(F), Closed(F, C, i + 1, n + 1)
    PROVE  Closed(Tail(F), C, i, n)
<1>1. PICK k \in (i + 2)..(n + 1) : F[k] \in C
  BY DEF Closed
<1>2. k - 1 \in (i + 1)..n /\ k - 1 \in 1..(Len(F) - 1)
  BY <1>1
<1>3. Tail(F)[k - 1] = F[k]
  BY <1>1, <1>2
<1> QED BY <1>1, <1>2, <1>3 DEF Closed

\* ... and so does what it did not close itself.
LEMMA ClosedPast ==
    ASSUME NEW F \in Seq(KNOWN_EVENTS), F # <<>>, NEW C,
           NEW n \in Nat, n < Len(F), Closed(F, C, 0, n + 1), F[1] \notin C
    PROVE  Closed(Tail(F), C, 0, n)
<1>1. PICK k \in 1..(n + 1) : F[k] \in C
  BY DEF Closed
<1>2. k \in 2..(n + 1)
  BY <1>1
<1>3. Closed(F, C, 0 + 1, n + 1)
  BY <1>1, <1>2 DEF Closed
<1> QED BY <1>3, ClosedTail

\* The opening in the shorter queue is one of the longer queue.
Covers(F, O, C, open, open2) == open2 => F[1] \in O \/ (open /\ F[1] \notin C)

LEMMA EndedTail ==
    ASSUME NEW F \in Seq(KNOWN_EVENTS), F # <<>>, NEW O, NEW C,
           NEW open \in BOOLEAN, NEW open2 \in BOOLEAN,
           Ended(F, O, C, open), Covers(F, O, C, open, open2)
    PROVE  Ended(Tail(F), O, C, open2)
<1>1. Len(F) \in Nat /\ Len(F) > 0 /\ Len(Tail(F)) = Len(F) - 1
  OBVIOUS
<1> SUFFICES ASSUME NEW i \in 0..(Len(F) - 1), Opens(Tail(F), O, open2, i)
             PROVE  Closed(Tail(F), C, i, Len(F) - 1)
  BY <1>1 DEF Ended
<1>2. CASE i > 0 \/ F[1] \in O
  <2>1. i + 1 \in 0..Len(F) /\ i + 1 > 0 /\ F[i + 1] \in O
    BY <1>1, <1>2 DEF Opens
  <2>2. Closed(F, C, i + 1, Len(F))
    BY <2>1 DEF Ended, Opens
  <2> QED BY <1>1, <2>2, ClosedTail
<1>3. CASE i = 0 /\ F[1] \notin O
  <2>1. open /\ F[1] \notin C
    BY <1>3 DEF Opens, Covers
  <2>2. Closed(F, C, 0, Len(F))
    BY <1>1, <2>1 DEF Ended, Opens
  <2> QED BY <1>1, <1>3, <2>1, <2>2, ClosedPast
<1> QED BY <1>2, <1>3

LEMMA AlternatesTail ==
    ASSUME NEW F \in Seq(KNOWN_EVENTS), F # <<>>, NEW O, NEW C,
           NEW open \in BOOLEAN, NEW open2 \in BOOLEAN,
           Alternates(F, O, C, open), Covers(F, O, C, open, open2)
    PROVE  Alternates(Tail(F), O, C, open2)
<1>1. Len(F) \in Nat /\ Len(F) > 0 /\ Len(Tail(F)) = Len(F) - 1
  OBVIOUS
<1> SUFFICES ASSUME NEW i \in 0..(Len(F) - 1), NEW j \in 0..(Len(F) - 1), i < j,
                    Opens(Tail(F), O, open2, i), Opens(Tail(F), O, open2, j)
             PROVE  Closed(Tail(F), C, i, j - 1)
  BY <1>1 DEF Alternates
<1>2. j + 1 \in 0..Len(F) /\ Opens(F, O, open, j + 1) /\ (j + 1) - 1 = (j - 1) + 1
  BY <1>1 DEF Opens
<1>3. CASE i > 0 \/ F[1] \in O
  <2>1. i + 1 \in 0..Len(F) /\ i + 1 < j + 1 /\ Opens(F, O, open, i + 1)
    BY <1>1, <1>3 DEF Opens
  <2>2. Closed(F, C, i + 1, (j - 1) + 1)
    BY <1>2, <2>1 DEF Alternates
  <2> QED BY <1>1, <2>2, ClosedTail
<1>4. CASE i = 0 /\ F[1] \notin O
  <2>1. open /\ F[1] \notin C
    BY <1>4 DEF Opens, Covers
  <2>2. Closed(F, C, 0, (j - 1) + 1)
    BY <1>1, <1>2, <1>4, <2>1 DEF Alternates, Opens
  <2> QED BY <1>1, <1>4, <2>1, <2>2, ClosedPast
<1> QED BY <1>3, <1>4

LEMMA MatchedTail ==
    ASSUME NEW F \in Seq(KNOWN_EVENTS), F # <<>>, NEW O, NEW C,
           NEW open \in BOOLEAN, NEW open2 \in BOOLEAN, NEW going \in BOOLEAN,
           Matched(F, O, C, open, going), Covers(F, O, C, open, open2)
    PROVE  Matched(Tail(F), O, C, open2, going)
BY EndedTail, AlternatesTail DEF Matched

\* A hook is sent: what was closed stays closed, and a closing hook closes everything.
LEMMA EndedAppend ==
    ASSUME NEW F \in Seq(KNOWN_EVENTS), NEW kind \in KNOWN_EVENTS, NEW O, NEW C,
           NEW open \in BOOLEAN, kind \notin O, kind \in C \/ Ended(F, O, C, open)
    PROVE  Ended(Append(F, kind), O, C, open)
<1> DEFINE G == Append(F, kind)
<1>1. /\ Len(F) \in Nat /\ Len(G) = Len(F) + 1 /\ G[Len(F) + 1] = kind
      /\ \A k \in 1..Len(F) : G[k] = F[k]
  OBVIOUS
<1> HIDE DEF G
<1> SUFFICES ASSUME NEW i \in 0..(Len(F) + 1), Opens(G, O, open, i)
             PROVE  Closed(G, C, i, Len(F) + 1)
  BY <1>1 DEF Ended, G
<1>2. i \in 0..Len(F) /\ Opens(F, O, open, i)
  BY <1>1 DEF Opens
<1>3. CASE kind \in C
  BY <1>1, <1>2, <1>3 DEF Closed
<1>4. CASE Ended(F, O, C, open)
  <2>1. PICK k \in (i + 1)..Len(F) : F[k] \in C
    BY <1>2, <1>4 DEF Ended, Closed
  <2>2. k \in 1..Len(F) /\ k \in (i + 1)..(Len(F) + 1) /\ G[k] \in C
    BY <1>1, <1>2, <2>1
  <2> QED BY <2>2 DEF Closed
<1> QED BY <1>3, <1>4

LEMMA AlternatesAppend ==
    ASSUME NEW F \in Seq(KNOWN_EVENTS), NEW kind \in KNOWN_EVENTS, NEW O, NEW C,
           NEW open \in BOOLEAN, Alternates(F, O, C, open),
           kind \in O => Ended(F, O, C, open)
    PROVE  Alternates(Append(F, kind), O, C, open)
<1> DEFINE G == Append(F, kind)
<1>1. /\ Len(F) \in Nat /\ Len(G) = Len(F) + 1 /\ G[Len(F) + 1] = kind
      /\ \A k \in 1..Len(F) : G[k] = F[k]
  OBVIOUS
<1> HIDE DEF G
<1> SUFFICES ASSUME NEW i \in 0..(Len(F) + 1), NEW j \in 0..(Len(F) + 1), i < j,
                    Opens(G, O, open, i), Opens(G, O, open, j)
             PROVE  Closed(G, C, i, j - 1)
  BY <1>1 DEF Alternates, G
<1>2. i \in 0..Len(F) /\ Opens(F, O, open, i)
  BY <1>1 DEF Opens
<1>3. Closed(F, C, i, j - 1)
  <2>1. CASE j \in 0..Len(F)
    <3>1. Opens(F, O, open, j)
      BY <1>1, <2>1 DEF Opens
    <3> QED BY <1>2, <2>1, <3>1 DEF Alternates
  <2>2. CASE j = Len(F) + 1
    <3>1. kind \in O
      BY <1>1, <2>2 DEF Opens
    <3>2. Closed(F, C, i, Len(F))
      BY <1>2, <3>1 DEF Ended
    <3> QED BY <1>1, <2>2, <3>2
  <2> QED BY <1>1, <2>1, <2>2
<1>4. PICK k \in (i + 1)..(j - 1) : F[k] \in C
  BY <1>3 DEF Closed
<1>5. k \in 1..Len(F) /\ G[k] \in C
  BY <1>1, <1>2, <1>4
<1> QED BY <1>4, <1>5 DEF Closed

\* What the agent is at agrees with the hook it sends.
Agrees(O, C, kind, going, going2) == (kind \in O => ~ going /\ going2) /\ (going /\ ~ going2 => kind \in C)

LEMMA MatchedAppend ==
    ASSUME NEW F \in Seq(KNOWN_EVENTS), NEW kind \in KNOWN_EVENTS, NEW O, NEW C,
           NEW open \in BOOLEAN, NEW going \in BOOLEAN, NEW going2 \in BOOLEAN,
           Matched(F, O, C, open, going), Agrees(O, C, kind, going, going2)
    PROVE  Matched(Append(F, kind), O, C, open, going2)
<1>1. Alternates(Append(F, kind), O, C, open)
  BY AlternatesAppend DEF Matched, Agrees
<1>2. ~ going2 => Ended(Append(F, kind), O, C, open)
  BY EndedAppend DEF Matched, Agrees
<1> QED BY <1>1, <1>2 DEF Matched

\* The signal says less.
LEMMA MatchedLess ==
    ASSUME NEW F \in Seq(KNOWN_EVENTS), NEW O, NEW C,
           NEW open \in BOOLEAN, NEW open2 \in BOOLEAN, NEW going \in BOOLEAN,
           open2 => open, Matched(F, O, C, open, going)
    PROVE  Matched(F, O, C, open2, going)
BY DEF Matched, Alternates, Ended, Opens

FullInv == IInv /\ OrderInv

LEMMA FullTypes ==
    ASSUME FullInv
    PROVE  /\ sig \in Signal /\ flight \in Seq(KNOWN_EVENTS) /\ boots \in Nat
           /\ Asked \in BOOLEAN /\ (sig.depth > 0) \in BOOLEAN /\ sig.depth \in Nat
           /\ agent \in [does : {"prompt", "think", "ask", "tool"}, drawn : BOOLEAN, subs : {0, 1}]
BY DEF FullInv, IInv, TypeInv, TypeOK, Signal, Asked

LEMMA InitOrder == Init => OrderInv
<1> SUFFICES ASSUME Init PROVE OrderInv
  OBVIOUS
<1>1. flight = <<>> /\ Len(flight) = 0 /\ agent.does = "prompt" /\ agent.subs = 0
  BY DEF Init
<1>2. sig.perm = "no" /\ sig.depth = 0 /\ ~ sig.hb
  BY DEF Init, Silent
<1>3. AsksMatch
  BY <1>1, <1>2 DEF AsksMatch, Asked, Matched, Alternates, Ended, Opens
<1>4. SubagentsMatch
  BY <1>1, <1>2 DEF SubagentsMatch, Matched, Alternates, Ended, Opens
<1>5. WorkEnds
  BY <1>1, <1>2 DEF WorkEnds, Ended, Opens
<1> QED BY <1>1, <1>3, <1>4, <1>5 DEF OrderInv, QuestionStands

\* What a step of the agent can be, as far as the order of its hooks goes.
Follows(next, kind) ==
    /\ kind = "PermissionRequest" <=> agent.does # "ask" /\ next.does = "ask"
    /\ agent.does = "ask" /\ next.does # "ask" => kind = "PreToolUse"
    /\ agent.does = "ask" /\ next.does = "ask" =>
          kind = "SubagentStop" /\ next.drawn = agent.drawn
    /\ kind = "SubagentStart" <=> agent.subs = 0 /\ next.subs = 1
    /\ agent.subs = 1 /\ next.subs = 0 => kind = "SubagentStop"
    /\ next.does = "prompt" =>
          kind = "Stop" \/ (agent.does = "prompt" /\ kind \in {"Notification", "SubagentStop"})

LEMMA AgentSends ==
    ASSUME FullInv, Agent
    PROVE  \E next \in [does : {"prompt", "think", "ask", "tool"}, drawn : BOOLEAN, subs : {0, 1}],
              kind \in KNOWN_EVENTS : Sends(next, kind) /\ Follows(next, kind)
<1> DEFINE States == [does : {"prompt", "think", "ask", "tool"}, drawn : BOOLEAN, subs : {0, 1}]
<1>0. agent \in States
  BY FullTypes
<1>1. ASSUME NEW from \in SUBSET {"prompt", "think", "ask", "tool"},
             NEW to \in {"prompt", "think", "ask", "tool"}, NEW kind \in KNOWN_EVENTS,
             Moves(from, to, kind), kind # "SubagentStart",
             kind = "PermissionRequest" <=> to = "ask",
             to = "ask" => "ask" \notin from,
             "ask" \in from => kind = "PreToolUse",
             to = "prompt" => kind = "Stop"
      PROVE  \E next \in States, k \in KNOWN_EVENTS : Sends(next, k) /\ Follows(next, k)
  <2> DEFINE next == [agent EXCEPT !.does = to, !.drawn = FALSE]
  <2>1. next \in States /\ next.does = to /\ next.subs = agent.subs
    BY <1>0
  <2>2. Sends(next, kind) /\ agent.does \in from
    BY <1>1 DEF Moves
  <2> HIDE DEF next
  <2>3. Follows(next, kind)
    BY <1>1, <2>1, <2>2 DEF Follows
  <2> QED BY <2>1, <2>2, <2>3
<1>2. CASE Moves({"prompt"}, "think", "UserPromptSubmit")
  BY <1>1, <1>2, SMT DEF KNOWN_EVENTS
<1>3. CASE Moves({"think"}, "ask", "PermissionRequest")
  BY <1>1, <1>3, SMT DEF KNOWN_EVENTS
<1>4. CASE Moves({"think", "ask"}, "tool", "PreToolUse")
  BY <1>1, <1>4, SMT DEF KNOWN_EVENTS
<1>5. CASE Moves({"tool"}, "think", "PostToolUse")
  BY <1>1, <1>5, SMT DEF KNOWN_EVENTS
<1>6. CASE Moves({"think"}, "prompt", "Stop")
  BY <1>1, <1>6, SMT DEF KNOWN_EVENTS
<1>7. CASE agent.does \in {"think", "prompt"} /\ Sends(agent, "Notification")
  BY <1>0, <1>7 DEF KNOWN_EVENTS, Follows
<1>8. CASE agent.does = "think" /\ agent.subs = 0 /\ Sends([agent EXCEPT !.subs = 1], "SubagentStart")
  <2> DEFINE next == [agent EXCEPT !.subs = 1]
  <2>1. next \in States /\ next.does = agent.does /\ next.subs = 1
    BY <1>0
  <2> HIDE DEF next
  <2>2. Follows(next, "SubagentStart")
    BY <1>8, <2>1 DEF Follows
  <2> QED BY <1>8, <2>1, <2>2 DEF KNOWN_EVENTS, next
<1>9. CASE agent.subs = 1 /\ Sends([agent EXCEPT !.subs = 0], "SubagentStop")
  <2> DEFINE next == [agent EXCEPT !.subs = 0]
  <2>1. next \in States /\ next.does = agent.does /\ next.drawn = agent.drawn /\ next.subs = 0
    BY <1>0
  <2> HIDE DEF next
  <2>2. Follows(next, "SubagentStop")
    BY <1>9, <2>1 DEF Follows
  <2> QED BY <1>9, <2>1, <2>2 DEF KNOWN_EVENTS, next
<1>10. CASE agent.does = "prompt" /\ agent.subs = 0 /\ Sends(agent, "SubagentStop")
  BY <1>0, <1>10 DEF KNOWN_EVENTS, Follows
<1> QED BY <1>2, <1>3, <1>4, <1>5, <1>6, <1>7, <1>8, <1>9, <1>10 DEF Agent

\* What the agent sends stands behind everything it sent before.
LEMMA AgentOrder == ASSUME FullInv, Agent, InOrder' PROVE OrderInv'
<1> DEFINE F == flight
<1>1. PICK next \in [does : {"prompt", "think", "ask", "tool"}, drawn : BOOLEAN, subs : {0, 1}],
           kind \in KNOWN_EVENTS :
        Sends(next, kind) /\ Follows(next, kind)
  BY AgentSends
<1>2. /\ agent' = next /\ flight' = Append(flight, kind) /\ sig' = sig
      /\ ordered' = ordered /\ boots' = boots
      /\ looked' = (looked /\ kind # "PermissionRequest")
  BY <1>1 DEF Sends
<1>3. AsksMatch /\ SubagentsMatch /\ QuestionStands /\ WorkEnds
  BY <1>2 DEF FullInv, OrderInv, InOrder
<1>4. AsksMatch'
  <2>1. Matched(Append(flight, kind), {"PermissionRequest"}, AnswerKinds, Asked, next.does = "ask")
    <3>1. /\ (agent.does = "ask") \in BOOLEAN /\ (next.does = "ask") \in BOOLEAN
          /\ Agrees({"PermissionRequest"}, AnswerKinds, kind, agent.does = "ask", next.does = "ask")
      BY <1>1 DEF Follows, AnswerKinds, Agrees
    <3>2. Matched(flight, {"PermissionRequest"}, AnswerKinds, Asked, agent.does = "ask")
      BY <1>3 DEF AsksMatch
    <3>3. /\ flight \in Seq(KNOWN_EVENTS) /\ Asked \in BOOLEAN /\ (sig.depth > 0) \in BOOLEAN
          /\ kind \in KNOWN_EVENTS
      BY <1>1, FullTypes
    <3> DEFINE going == agent.does = "ask"
               going2 == next.does = "ask"
    <3> HIDE DEF going, going2
    <3>4. /\ going \in BOOLEAN /\ going2 \in BOOLEAN
          /\ Agrees({"PermissionRequest"}, AnswerKinds, kind, going, going2)
          /\ Matched(flight, {"PermissionRequest"}, AnswerKinds, Asked, going)
      BY <3>1, <3>2 DEF going, going2
    <3>5. Matched(Append(flight, kind), {"PermissionRequest"}, AnswerKinds, Asked, going2)
      BY <3>3, <3>4, MatchedAppend
    <3> QED BY <3>5 DEF going2
  <2> QED BY <1>2, <2>1 DEF AsksMatch, Asked
<1>5. SubagentsMatch'
  <2>1. Matched(Append(flight, kind), {"SubagentStart"}, {"SubagentStop"}, sig.depth > 0,
                next.subs = 1)
    <3>1. /\ (agent.subs = 1) \in BOOLEAN /\ (next.subs = 1) \in BOOLEAN
          /\ Agrees({"SubagentStart"}, {"SubagentStop"}, kind, agent.subs = 1, next.subs = 1)
      BY <1>1 DEF Follows, Agrees
    <3>2. Matched(flight, {"SubagentStart"}, {"SubagentStop"}, sig.depth > 0, agent.subs = 1)
      BY <1>3 DEF SubagentsMatch
    <3>3. /\ flight \in Seq(KNOWN_EVENTS) /\ Asked \in BOOLEAN /\ (sig.depth > 0) \in BOOLEAN
          /\ kind \in KNOWN_EVENTS
      BY <1>1, FullTypes
    <3> DEFINE going == agent.subs = 1
               going2 == next.subs = 1
               open == sig.depth > 0
    <3> HIDE DEF going, going2, open
    <3>4. /\ going \in BOOLEAN /\ going2 \in BOOLEAN /\ open \in BOOLEAN
          /\ Agrees({"SubagentStart"}, {"SubagentStop"}, kind, going, going2)
          /\ Matched(flight, {"SubagentStart"}, {"SubagentStop"}, open, going)
      BY <3>1, <3>2, <3>3 DEF going, going2, open
    <3>5. Matched(Append(flight, kind), {"SubagentStart"}, {"SubagentStop"}, open, going2)
      BY <3>3, <3>4, MatchedAppend
    <3> QED BY <3>5 DEF going2, open
  <2> QED BY <1>2, <1>3, <2>1 DEF SubagentsMatch
<1>6. QuestionStands'
  <2> DEFINE G == Append(flight, kind)
  <2>0. /\ Len(flight) \in Nat /\ Len(G) = Len(flight) + 1 /\ G[Len(flight) + 1] = kind
        /\ \A k \in 1..Len(flight) : G[k] = flight[k]
    BY FullTypes
  <2> HIDE DEF G
  <2> SUFFICES ASSUME next.does = "ask", ~ (looked /\ kind # "PermissionRequest")
               PROVE  \E i \in 0..Len(G) :
                         /\ Opens(G, {"PermissionRequest"}, Asked, i)
                         /\ ~ Closed(G, AnswerKinds, i, Len(G))
                         /\ i = 0 => sig.perm = "new" \/ next.drawn
    BY <1>2 DEF QuestionStands, Asked, G
  <2>1. CASE kind = "PermissionRequest"
    <3>1. Len(G) \in 0..Len(G) /\ Len(G) > 0 /\ Opens(G, {"PermissionRequest"}, Asked, Len(G))
      BY <2>0, <2>1 DEF Opens
    <3>2. ~ Closed(G, AnswerKinds, Len(G), Len(G))
      BY <2>0 DEF Closed
    <3> QED BY <3>1, <3>2
  <2>2. CASE kind # "PermissionRequest"
    <3>1. agent.does = "ask" /\ ~ looked /\ kind = "SubagentStop" /\ next.drawn = agent.drawn
      BY <1>1, <2>2 DEF Follows
    <3>2. PICK i \in 0..Len(flight) :
             /\ Opens(flight, {"PermissionRequest"}, Asked, i)
             /\ ~ Closed(flight, AnswerKinds, i, Len(flight))
             /\ i = 0 => sig.perm = "new" \/ agent.drawn
      BY <1>3, <3>1 DEF QuestionStands
    <3>3. Opens(G, {"PermissionRequest"}, Asked, i) /\ i \in 0..Len(G)
      BY <2>0, <3>2 DEF Opens
    <3>4. ~ Closed(G, AnswerKinds, i, Len(G))
      <4> SUFFICES ASSUME NEW k \in (i + 1)..Len(G), G[k] \in AnswerKinds PROVE FALSE
        BY DEF Closed
      <4>1. k # Len(flight) + 1
        BY <2>0, <3>1 DEF AnswerKinds
      <4>2. k \in (i + 1)..Len(flight) /\ flight[k] \in AnswerKinds
        BY <2>0, <4>1
      <4> QED BY <3>2, <4>2 DEF Closed
    <3> QED BY <3>1, <3>2, <3>3, <3>4
  <2> QED BY <2>1, <2>2
<1>7. WorkEnds'
  <2> SUFFICES ASSUME next.does = "prompt"
               PROVE  Ended(Append(flight, kind), BeatKinds, {"Stop"}, sig.hb)
    BY <1>2 DEF WorkEnds
  <2>1. kind \notin BeatKinds /\ (kind \in {"Stop"} \/ agent.does = "prompt")
    BY <1>1 DEF Follows, BeatKinds
  <2>2. sig.hb \in BOOLEAN
    BY FullTypes DEF Signal
  <2> QED BY <1>3, <2>1, <2>2, FullTypes, EndedAppend DEF WorkEnds
<1> QED BY <1>4, <1>5, <1>6, <1>7 DEF OrderInv

LEMMA OldestLeaves ==
    ASSUME flight \in Seq(KNOWN_EVENTS), flight # <<>>
    PROVE  RemoveAt(flight, 1) = Tail(flight)
<1>1. SubSeq(flight, 1, 1 - 1) = <<>>
  OBVIOUS
<1>2. SubSeq(flight, 1 + 1, Len(flight)) = Tail(flight)
  OBVIOUS
<1>3. <<>> \o Tail(flight) = Tail(flight)
  OBVIOUS
<1> QED BY <1>1, <1>2, <1>3 DEF RemoveAt

\* What the signal takes in, the queue no longer holds.
LEMMA ApplyOrder ==
    ASSUME FullInv, NEW i \in 1..MaxHooks, Apply(i), InOrder'
    PROVE  OrderInv'
<1> DEFINE kind == flight[1]
<1>1. i = 1 /\ ordered /\ boots = 0 /\ UNCHANGED <<agent, looked>>
  BY DEF Apply, Record, InOrder
<1>2. flight # <<>> /\ kind \in KNOWN_EVENTS /\ Len(flight) \in Nat /\ Len(flight) > 0
  BY <1>1, FullTypes DEF Apply
<1>3. sig' = Recorded(sig, kind) /\ flight' = Tail(flight)
  BY <1>1, <1>2, FullTypes, OldestLeaves DEF Apply, Record
<1>4. AsksMatch /\ SubagentsMatch /\ QuestionStands /\ WorkEnds
  BY <1>1 DEF FullInv, OrderInv, InOrder
<1> HIDE DEF kind
<1>5. /\ sig' \in Signal
      /\ kind = "PermissionRequest" => sig'.perm = IF sig.perm = "no" THEN "new" ELSE sig.perm
      /\ kind \in AnswerKinds => sig'.perm = "no"
      /\ kind \notin AnswerKinds \cup {"PermissionRequest"} => sig'.perm = sig.perm
      /\ kind = "SubagentStart" => sig'.depth = sig.depth + 1
      /\ kind = "SubagentStop" => sig'.depth = IF sig.depth > 0 THEN sig.depth - 1 ELSE 0
      /\ kind = "Stop" => sig'.depth = 0 /\ ~ sig'.hb
      /\ kind \notin {"SubagentStart", "SubagentStop", "Stop"} => sig'.depth = sig.depth
      /\ kind \notin BeatKinds => (sig'.hb => sig.hb)
  BY <1>2, <1>3, FullTypes, RecordedFacts
\* Nothing is asked twice without an answer, and no second subagent starts.
<1>6. kind = "PermissionRequest" => sig.perm = "no"
  BY <1>2, <1>4 DEF kind, AsksMatch, Asked, Matched, Alternates, Opens, Closed
<1>7. kind = "SubagentStart" => sig.depth = 0
  BY <1>2, <1>4, FullTypes DEF kind, SubagentsMatch, Matched, Alternates, Opens, Closed
<1>8. AsksMatch'
  <2>1. Covers(flight, {"PermissionRequest"}, AnswerKinds, Asked, Asked')
    BY <1>5 DEF Covers, Asked, kind
  <2>2. Asked' \in BOOLEAN
    BY DEF Asked
  <2>3. Matched(Tail(flight), {"PermissionRequest"}, AnswerKinds, Asked', agent.does = "ask")
    <3>1. Matched(flight, {"PermissionRequest"}, AnswerKinds, Asked, agent.does = "ask")
      BY <1>4 DEF AsksMatch
    <3>2. (agent.does = "ask") \in BOOLEAN
      OBVIOUS
    <3>3. flight \in Seq(KNOWN_EVENTS) /\ Asked \in BOOLEAN
      BY FullTypes
    <3> QED BY <1>2, <2>1, <2>2, <3>1, <3>2, <3>3, MatchedTail, Zenon
  <2> QED BY <1>1, <1>3, <2>3 DEF AsksMatch
<1>9. SubagentsMatch'
  <2>1. Covers(flight, {"SubagentStart"}, {"SubagentStop"}, sig.depth > 0, sig'.depth > 0)
    BY <1>2, <1>4, <1>5, FullTypes DEF Covers, SubagentsMatch, kind, Signal
  <2>2. sig'.depth <= 1
    BY <1>2, <1>4, <1>5, <1>7, FullTypes DEF SubagentsMatch
  <2>3. Matched(Tail(flight), {"SubagentStart"}, {"SubagentStop"}, sig'.depth > 0, agent.subs = 1)
    <3>1. Matched(flight, {"SubagentStart"}, {"SubagentStop"}, sig.depth > 0, agent.subs = 1)
      BY <1>4 DEF SubagentsMatch
    <3>2. (agent.subs = 1) \in BOOLEAN /\ (sig'.depth > 0) \in BOOLEAN
      OBVIOUS
    <3>3. flight \in Seq(KNOWN_EVENTS) /\ (sig.depth > 0) \in BOOLEAN
      BY FullTypes
    <3> QED BY <1>2, <2>1, <3>1, <3>2, <3>3, MatchedTail, Zenon
  <2> QED BY <1>1, <1>3, <2>2, <2>3 DEF SubagentsMatch
<1>10. QuestionStands'
  <2> DEFINE T == Tail(flight)
  <2>0. Len(T) = Len(flight) - 1 /\ \A k \in 1..Len(T) : T[k] = flight[k + 1]
    BY <1>2, FullTypes
  <2> HIDE DEF T
  <2> SUFFICES ASSUME agent.does = "ask", ~ looked
               PROVE  \E p \in 0..Len(T) :
                         /\ Opens(T, {"PermissionRequest"}, Asked', p)
                         /\ ~ Closed(T, AnswerKinds, p, Len(T))
                         /\ p = 0 => sig'.perm = "new" \/ agent.drawn
    BY <1>1, <1>3 DEF QuestionStands, T
  <2>1. PICK p \in 0..Len(flight) :
             /\ Opens(flight, {"PermissionRequest"}, Asked, p)
             /\ ~ Closed(flight, AnswerKinds, p, Len(flight))
             /\ p = 0 => sig.perm = "new" \/ agent.drawn
    BY <1>4 DEF QuestionStands
  <2> DEFINE q == IF p = 0 THEN 0 ELSE p - 1
  <2>2. q \in 0..Len(T)
    BY <1>2, <2>0, <2>1
  <2>3. ~ Closed(T, AnswerKinds, q, Len(T))
    <3> SUFFICES ASSUME NEW k \in (q + 1)..Len(T), T[k] \in AnswerKinds PROVE FALSE
      BY DEF Closed
    <3>1. k \in 1..Len(T) /\ k + 1 \in (p + 1)..Len(flight) /\ flight[k + 1] \in AnswerKinds
      BY <1>2, <2>0, <2>2
    <3> QED BY <2>1, <3>1 DEF Closed
  <2>4. CASE p > 1
    <3>1. Opens(T, {"PermissionRequest"}, Asked', q) /\ q > 0
      BY <1>2, <2>0, <2>1, <2>4 DEF Opens
    <3> QED BY <2>2, <2>3, <3>1
  <2>5. CASE p = 1
    <3>1. kind = "PermissionRequest"
      BY <2>1, <2>5 DEF Opens, kind
    <3>2. sig'.perm = "new" /\ Asked'
      BY <1>5, <1>6, <3>1 DEF Asked
    <3>3. Opens(T, {"PermissionRequest"}, Asked', q)
      BY <2>5, <3>2 DEF Opens
    <3> QED BY <2>2, <2>3, <3>2, <3>3
  <2>6. CASE p = 0
    <3>1. kind \notin AnswerKinds
      BY <1>2, <2>1, <2>6 DEF Closed, kind
    <3>2. Asked
      BY <2>1, <2>6 DEF Opens
    <3>3. sig'.perm = sig.perm
      BY <1>5, <1>6, <3>1, <3>2 DEF Asked
    <3>4. Opens(T, {"PermissionRequest"}, Asked', q)
      BY <2>6, <3>2, <3>3 DEF Opens, Asked
    <3> QED BY <2>1, <2>2, <2>3, <2>6, <3>3, <3>4
  <2> QED BY <1>2, <2>1, <2>4, <2>5, <2>6
<1>11. WorkEnds'
  <2> SUFFICES ASSUME agent.does = "prompt"
               PROVE  Ended(Tail(flight), BeatKinds, {"Stop"}, sig'.hb)
    BY <1>1, <1>3 DEF WorkEnds
  <2>1. Covers(flight, BeatKinds, {"Stop"}, sig.hb, sig'.hb)
    BY <1>5 DEF Covers, kind
  <2>2. sig.hb \in BOOLEAN /\ sig'.hb \in BOOLEAN
    BY <1>5, FullTypes DEF Signal
  <2> QED BY <1>2, <1>4, <2>1, <2>2, FullTypes, EndedTail DEF WorkEnds
<1> QED BY <1>8, <1>9, <1>10, <1>11 DEF OrderInv

\* Looks, time and the listing leave the queue alone and make the signal say less.
LEMMA LessOrder ==
    ASSUME FullInv, InOrder', UNCHANGED <<flight, ordered, boots>>,
           agent'.does = agent.does, agent'.subs = agent.subs,
           agent.does = "ask" /\ agent.drawn => agent'.drawn,
           sig' \in Signal, sig'.depth = sig.depth, sig'.hb => sig.hb, Asked' => Asked,
           looked => looked',
           agent.does = "ask" /\ ~ looked' /\ (sig.perm = "new" \/ agent.drawn) /\ Asked =>
              Asked' /\ (sig'.perm = "new" \/ agent'.drawn)
    PROVE  OrderInv'
<1>1. AsksMatch /\ SubagentsMatch /\ QuestionStands /\ WorkEnds
  BY DEF FullInv, OrderInv, InOrder
<1>2. AsksMatch'
  <2>1. Asked' \in BOOLEAN
    BY DEF Asked
  <2>2. Matched(flight, {"PermissionRequest"}, AnswerKinds, Asked', agent.does = "ask")
    BY <1>1, <2>1, FullTypes, MatchedLess DEF AsksMatch
  <2> QED BY <2>2 DEF AsksMatch
<1>3. SubagentsMatch'
  BY <1>1 DEF SubagentsMatch
<1>4. QuestionStands'
  <2> SUFFICES ASSUME agent.does = "ask", ~ looked'
               PROVE  \E i \in 0..Len(flight) :
                         /\ Opens(flight, {"PermissionRequest"}, Asked', i)
                         /\ ~ Closed(flight, AnswerKinds, i, Len(flight))
                         /\ i = 0 => sig'.perm = "new" \/ agent'.drawn
    BY DEF QuestionStands
  <2>1. PICK i \in 0..Len(flight) :
             /\ Opens(flight, {"PermissionRequest"}, Asked, i)
             /\ ~ Closed(flight, AnswerKinds, i, Len(flight))
             /\ i = 0 => sig.perm = "new" \/ agent.drawn
    BY <1>1 DEF QuestionStands
  <2>2. Opens(flight, {"PermissionRequest"}, Asked', i)
    BY <2>1 DEF Opens
  <2>3. i = 0 => sig'.perm = "new" \/ agent'.drawn
    BY <2>1 DEF Opens
  <2> QED BY <2>1, <2>2, <2>3
<1>5. WorkEnds'
  BY <1>1 DEF WorkEnds, Ended, Opens
<1> QED BY <1>2, <1>3, <1>4, <1>5 DEF OrderInv

LEMMA OthersOrder ==
    ASSUME FullInv, InOrder',
           Draw \/ View \/ MarkUnread \/ (\E read \in BOOLEAN : List(read)) \/ HeartbeatExpires
              \/ GracePasses \/ RowExpires \/ UNCHANGED vars
    PROVE  OrderInv'
<1>0. /\ sig \in Signal
      /\ agent \in [does : {"prompt", "think", "ask", "tool"}, drawn : BOOLEAN, subs : {0, 1}]
  BY FullTypes
<1>1. CASE Draw
  <2>1. /\ UNCHANGED <<flight, ordered, boots, sig, looked>> /\ agent'.drawn
        /\ agent'.does = agent.does /\ agent'.subs = agent.subs
    BY <1>0, <1>1 DEF Draw
  <2> QED BY <1>0, <2>1, LessOrder DEF Asked
<1>2. CASE View
  <2>1. /\ sig' \in Signal /\ sig'.depth = sig.depth /\ sig'.hb = sig.hb /\ ~ Asked'
    BY <1>0, <1>2 DEF View, Answered, Signal, Asked
  <2>2. UNCHANGED <<flight, ordered, boots, agent>> /\ looked'
    BY <1>2 DEF View
  <2> QED BY <2>1, <2>2, LessOrder
<1>3. CASE MarkUnread \/ RowExpires \/ UNCHANGED vars
  <2>1. UNCHANGED <<flight, ordered, boots, agent, sig, looked>>
    BY <1>3 DEF MarkUnread, RowExpires, vars
  <2> QED BY <1>0, <2>1, LessOrder DEF Asked
<1>4. CASE \E read \in BOOLEAN : List(read)
  <2>1. PICK read \in BOOLEAN : List(read)
    BY <1>4
  <2>2. UNCHANGED <<flight, ordered, boots, agent, looked>>
    BY <2>1 DEF List
  <2>3. CASE sig' = sig
    BY <1>0, <2>2, <2>3, LessOrder DEF Asked
  <2>4. CASE sig' = [sig EXCEPT !.perm = "no"] /\ sig.perm = "old" /\ ~ agent.drawn
    <3>1. /\ sig' \in Signal /\ sig'.depth = sig.depth /\ sig'.hb = sig.hb /\ ~ Asked'
      BY <1>0, <2>4 DEF Signal, Asked
    <3> QED BY <2>2, <2>4, <3>1, LessOrder
  <2> QED BY <2>1, <2>3, <2>4 DEF List, Checkable
<1>5. CASE HeartbeatExpires
  <2>1. /\ sig' \in Signal /\ sig'.depth = sig.depth /\ ~ sig'.hb /\ sig'.perm = sig.perm
        /\ UNCHANGED <<flight, ordered, boots, agent, looked>>
    BY <1>0, <1>5 DEF HeartbeatExpires, Signal
  <2> QED BY <2>1, LessOrder DEF Asked
<1>6. CASE GracePasses
  <2>1. /\ sig' \in Signal /\ sig'.depth = sig.depth /\ sig'.hb = sig.hb /\ Asked' /\ Asked
        /\ UNCHANGED <<flight, ordered, boots, agent, looked>>
        /\ agent.does = "ask" => agent.drawn
    BY <1>0, <1>6 DEF GracePasses, Signal, Asked
  <2> QED BY <2>1, LessOrder
<1> QED BY <1>1, <1>2, <1>3, <1>4, <1>5, <1>6

LEMMA StepFull == FullInv /\ [Next]_vars => FullInv'
<1> SUFFICES ASSUME FullInv, [Next]_vars PROVE FullInv'
  OBVIOUS
<1>1. IInv'
  BY StepBasics DEF FullInv
<1>2. OrderInv'
  <2> SUFFICES ASSUME InOrder' PROVE OrderInv'
    BY DEF OrderInv
  <2>1. CASE Agent
    BY <2>1, AgentOrder
  <2>2. CASE \E i \in 1..MaxHooks : Apply(i)
    BY <2>2, ApplyOrder
  <2>3. CASE \E kind \in KNOWN_EVENTS : Repeat(kind)
    BY <2>3 DEF Repeat, InOrder
  <2>4. CASE Restart
    BY <2>4, FullTypes DEF Restart, InOrder
  <2> QED BY <2>1, <2>2, <2>3, <2>4, OthersOrder DEF Next
<1> QED BY <1>1, <1>2 DEF FullInv

\* Once every hook was applied, once and in order, the dot is right: a question exactly
\* while the agent asks and nobody has looked, no work at its prompt, subagents only
\* while one runs - for any number of hooks, looks, listings and expiries between them.
THEOREM OrderedIsRight == Spec => []OrderedDotIsRight
<1>1. Init => FullInv
  BY InitBasics, InitOrder DEF FullInv
<1>2. FullInv => OrderedDotIsRight
  <2> SUFFICES ASSUME FullInv, AllIn
               PROVE  /\ agent.does = "ask" /\ ~ looked => Dot = "question"
                      /\ Dot = "question" => agent.does = "ask"
                      /\ agent.does = "prompt" => Dot \notin Working
                      /\ Dot = "working_subagent" => agent.subs = 1
    BY DEF OrderedDotIsRight
  <2>1. AsksMatch /\ SubagentsMatch /\ QuestionStands /\ WorkEnds
    BY DEF FullInv, OrderInv, InOrder, AllIn
  <2>2. flight = <<>> /\ Len(flight) = 0 /\ 0 \in 0..Len(flight)
    BY DEF AllIn
  <2>3. sig \in Signal /\ unread \in BOOLEAN
    BY FullTypes DEF FullInv, IInv, TypeInv, TypeOK
  <2>4. Dot = Resolved(sig, TRUE, unread)
    BY DEF Dot, Restored, FullInv, IInv, SilentInv, AllIn
  <2>5. ~ sig.seen => ~ Asked
    BY DEF FullInv, IInv, SilentInv, SaysNothing, Asked
  <2>6. Asked => agent.does = "ask"
    BY <2>1, <2>2 DEF AsksMatch, Matched, Ended, Opens, Closed
  <2>7. agent.does = "ask" /\ ~ looked => Asked
    BY <2>1, <2>2 DEF QuestionStands, Opens
  <2>8. agent.does = "prompt" => ~ sig.hb
    BY <2>1, <2>2 DEF WorkEnds, Ended, Opens, Closed
  <2>9. sig.depth > 0 => agent.subs = 1
    BY <2>1, <2>2 DEF SubagentsMatch, Matched, Ended, Opens, Closed
  <2> QED BY <2>3, <2>4, <2>5, <2>6, <2>7, <2>8, <2>9, ResolvedFacts DEF Asked
<1> QED BY <1>1, <1>2, StepFull, PTL DEF Spec
-----------------------------------------------------------------------------
(* What the output says.                                                   *)

\* A non-empty set of naturals has a least member.
LEMMA LeastIn ==
    ASSUME NEW S, S \subseteq Nat, S # {}
    PROVE  \E x \in S : \A y \in S : x <= y
<1> DEFINE R == OpToRel(<, Nat)
<1>1. \A a, b \in Nat : a < b => <<a, b>> \in R
  BY Zenon DEF OpToRel
<1>2. IsWellFoundedOn(R, Nat)
  BY NatLessThanWellFounded
<1> HIDE DEF R
<1>3. PICK x \in S : \A y \in S : ~ (<<y, x>> \in R)
  BY <1>2, WFMin
<1>4. \A y \in S : x <= y
  <2> TAKE y \in S
  <2>1. ~ (y < x)
    BY <1>1, <1>3
  <2> QED BY <2>1
<1> QED BY <1>4
-----------------------------------------------------------------------------
(* The watcher.                                                            *)

WatcherType ==
    /\ now \in Nat /\ DOMAIN pend \subseteq Client /\ \A c \in DOMAIN pend : pend[c] \in Seq(Chunk)
    /\ tail \in Seq(Chunk) /\ Len(tail) <= TailMax
    /\ state \in {"thinking", "interrupted", "waiting_permission", "tool_running", "idle"}
    /\ last \in 0..now /\ fed \in Feeds \cup {<<>>} /\ told \in [Feeds -> Nat]
    /\ out \in 0..MaxOut /\ \A c \in DOMAIN pend : Len(pend[c]) <= out

\* A watcher that may still announce has announced nothing over the last feed, whose
\* chunk was no interrupt, and nothing in its buffer asks or runs.
MayAnnounce ==
    state = "thinking" =>
        /\ fed # <<>> => told[fed] = 0
        /\ tail # <<>> => "interrupt" \notin tail[Len(tail)]
        /\ Seen(tail) \cap {"menu", "tool"} = {}

\* What a client is still to be sent comes after all that its task has fed.
Ahead(f) == f[2] <= out /\ (f[1] \in DOMAIN pend => f[2] + Len(pend[f[1]]) <= out)

HonestInv ==
    /\ MayAnnounce
    /\ tail # <<>> => fed # <<>>
    /\ fed # <<>> => Ahead(fed)
    /\ \A f \in Feeds : told[f] # 0 => Ahead(f)

\* What the ring holds behind a chunk: that chunk is its last, whatever falls out.
LEMMA BufferedEnds ==
    ASSUME tail \in Seq(Chunk), Len(tail) <= TailMax, NEW chunk \in Chunk
    PROVE  /\ Buffered(chunk) \in Seq(Chunk) /\ Len(Buffered(chunk)) <= TailMax
           /\ Buffered(chunk) # <<>> /\ Buffered(chunk)[Len(Buffered(chunk))] = chunk
<1> DEFINE t == Append(tail, chunk)
<1>1. t \in Seq(Chunk) /\ Len(t) = Len(tail) + 1 /\ t[Len(t)] = chunk
  OBVIOUS
<1>2. Buffered(chunk) = IF Len(t) > TailMax THEN Tail(t) ELSE t
  BY DEF Buffered
<1> HIDE DEF t
<1>3. CASE Len(t) > TailMax
  <2>1. Len(t) = TailMax + 1 /\ TailMax \in Nat \ {0}
    BY <1>1, <1>3, WatcherAssumption
  <2>2. Tail(t) \in Seq(Chunk) /\ Len(Tail(t)) = TailMax
    BY <1>1, <2>1
  <2>3. Tail(t)[TailMax] = t[TailMax + 1]
    BY <1>1, <2>1
  <2> QED BY <1>1, <1>2, <1>3, <2>1, <2>2, <2>3
<1>4. CASE ~ (Len(t) > TailMax)
  BY <1>1, <1>2, <1>4, WatcherAssumption
<1> QED BY <1>3, <1>4

\* One step of a client's task, and of the timer.
LEMMA FeedKeeps ==
    ASSUME WatcherType, HonestInv, NEW c, NEW emitted, Feed(c, emitted)
    PROVE  WatcherType' /\ HonestInv' /\ told' = told /\ emitted \subseteq {"PERMISSION_PROMPT"}
<1> DEFINE chunk == Head(pend[c])
           k == out - Len(pend[c]) + 1
           left == Tail(pend[c])
<1>1. c \in DOMAIN pend /\ pend[c] \in Seq(Chunk) /\ pend[c] # <<>> /\ c \in Client
  BY DEF Feed, WatcherType
<1>2. chunk \in Chunk /\ left \in Seq(Chunk) /\ Len(left) = Len(pend[c]) - 1
  BY <1>1
<1>3. tail' = Buffered(chunk) /\ state' = StateAfter(chunk, tail')
  BY DEF Feed
<1>4. /\ UNCHANGED <<now, out, told>> /\ last' = now /\ fed' = <<c, k>>
      /\ pend' = [pend EXCEPT ![c] = left]
  BY DEF Feed
<1>5. emitted \subseteq {"PERMISSION_PROMPT"}
  BY DEF Feed
<1>12. out \in 0..MaxOut /\ Len(pend[c]) \in 1..out /\ MaxOut \in Nat
  <2>1. Len(pend[c]) \in Nat /\ Len(pend[c]) # 0
    BY <1>1
  <2>2. out \in 0..MaxOut /\ Len(pend[c]) <= out /\ MaxOut \in Nat
    BY <1>1, WatcherAssumption DEF WatcherType
  <2> QED BY <2>1, <2>2
<1> HIDE DEF chunk, left
<1>13. k \in 1..MaxOut /\ k <= out /\ k + Len(left) = out
  BY <1>2, <1>12
<1> HIDE DEF k
<1>6. /\ tail' \in Seq(Chunk) /\ Len(tail') <= TailMax
      /\ tail' # <<>> /\ tail'[Len(tail')] = chunk
  BY <1>2, <1>3, BufferedEnds DEF WatcherType
<1>7. state' \in {"thinking", "interrupted", "waiting_permission", "tool_running"}
  BY <1>3 DEF StateAfter
<1>8. state' = "thinking" => "interrupt" \notin chunk /\ Seen(tail') \cap {"menu", "tool"} = {}
  <2>1. CASE "interrupt" \in chunk
    BY <1>3, <2>1 DEF StateAfter
  <2>2. CASE "interrupt" \notin chunk /\ "menu" \in Seen(tail')
    BY <1>3, <2>2 DEF StateAfter
  <2>3. CASE "interrupt" \notin chunk /\ "menu" \notin Seen(tail') /\ "tool" \in Seen(tail')
    BY <1>3, <2>3 DEF StateAfter
  <2>4. CASE "interrupt" \notin chunk /\ "menu" \notin Seen(tail') /\ "tool" \notin Seen(tail')
    BY <2>4
  <2> QED BY <2>1, <2>2, <2>3, <2>4
<1>9. /\ DOMAIN pend' = DOMAIN pend /\ pend'[c] = left
      /\ \A d \in DOMAIN pend : d # c => pend'[d] = pend[d]
  BY <1>1, <1>4
<1>10. last' \in 0..now'
  BY <1>4 DEF WatcherType
<1>14. \A d \in DOMAIN pend : Len(pend'[d]) \in Nat /\ Len(pend[d]) \in Nat /\ Len(pend'[d]) <= Len(pend[d])
  <2> TAKE d \in DOMAIN pend
  <2>1. pend[d] \in Seq(Chunk)
    BY DEF WatcherType
  <2>2. Len(left) \in Nat /\ Len(pend[c]) \in Nat /\ Len(left) <= Len(pend[c])
    BY <1>2, <1>12
  <2> QED BY <1>9, <2>1, <2>2
<1>15. fed' \in Feeds /\ fed'[1] = c /\ fed'[2] = k /\ fed' # <<>>
  BY <1>1, <1>4, <1>13 DEF Feeds
<1>11. WatcherType'
  <2>1. \A d \in DOMAIN pend' : pend'[d] \in Seq(Chunk)
    BY <1>2, <1>9 DEF WatcherType
  <2>2. \A d \in DOMAIN pend' : Len(pend'[d]) <= out'
    <3> TAKE d \in DOMAIN pend'
    <3>1. Len(pend[d]) <= out /\ out \in Nat
      BY <1>9, <1>12 DEF WatcherType
    <3> QED BY <1>4, <1>9, <1>14, <3>1
  <2>3. DOMAIN pend' \subseteq Client
    BY <1>9 DEF WatcherType
  <2> QED BY <1>4, <1>6, <1>7, <1>10, <1>12, <1>15, <2>1, <2>2, <2>3 DEF WatcherType
<1>16. \A f \in Feeds : Ahead(f) => Ahead(f)'
  <2> SUFFICES ASSUME NEW f \in Feeds, Ahead(f) PROVE Ahead(f)'
    OBVIOUS
  <2>1. f[2] \in Nat
    BY WatcherAssumption DEF Feeds
  <2>2. f[2] <= out'
    BY <1>4 DEF Ahead
  <2>3. ASSUME f[1] \in DOMAIN pend PROVE f[2] + Len(pend'[f[1]]) <= out'
    <3>1. f[2] + Len(pend[f[1]]) <= out /\ out \in Nat
      BY <1>12, <2>3 DEF Ahead
    <3> QED BY <1>4, <1>14, <2>1, <2>3, <3>1
  <2> QED BY <1>9, <2>2, <2>3 DEF Ahead
<1>17. Ahead(fed)'
  BY <1>4, <1>9, <1>13, <1>15 DEF Ahead
<1>18. told[fed'] = 0
  <2>1. ASSUME told[fed'] # 0 PROVE FALSE
    <3>1. Ahead(fed')
      BY <1>15, <2>1 DEF HonestInv
    <3>2. k + Len(pend[c]) <= out
      BY <1>1, <1>15, <3>1 DEF Ahead
    <3> QED BY <1>2, <1>12, <1>13, <3>2
  <2> QED BY <2>1
<1>19. MayAnnounce'
  BY <1>4, <1>6, <1>8, <1>18 DEF MayAnnounce
<1>20. \A f \in Feeds : told'[f] # 0 => Ahead(f)'
  BY <1>4, <1>16 DEF HonestInv
<1>21. HonestInv'
  BY <1>15, <1>17, <1>19, <1>20 DEF HonestInv
<1> QED BY <1>4, <1>5, <1>11, <1>21

LEMMA PollKeeps ==
    ASSUME WatcherType, HonestInv, NEW emitted, PollOnce(emitted)
    PROVE  /\ WatcherType' /\ HonestInv' /\ emitted = {"TASK_COMPLETE"}
           /\ tail # <<>> /\ fed # <<>> /\ told[fed] = 0
<1>1. /\ Complete /\ emitted = {"TASK_COMPLETE"} /\ state' = "idle"
      /\ told' = [told EXCEPT ![fed] = @ + 1]
      /\ UNCHANGED <<now, out, pend, tail, last, fed>>
  BY DEF PollOnce, StateAfterCompletion
<1>2. tail # <<>> /\ state = "thinking"
  BY <1>1 DEF Complete, Seen
<1>3. fed # <<>> /\ fed \in Feeds /\ told[fed] = 0 /\ Ahead(fed)
  BY <1>2 DEF HonestInv, MayAnnounce, WatcherType
<1>4. told' \in [Feeds -> Nat] /\ \A f \in Feeds : f # fed => told'[f] = told[f]
  BY <1>1, <1>3 DEF WatcherType
<1>5. WatcherType'
  BY <1>1, <1>4 DEF WatcherType
<1>6. MayAnnounce'
  BY <1>1 DEF MayAnnounce
<1>7. \A f \in Feeds : told'[f] # 0 => Ahead(f)
  BY <1>3, <1>4 DEF HonestInv
<1>8. HonestInv'
  BY <1>1, <1>3, <1>6, <1>7 DEF HonestInv, Ahead
<1> QED BY <1>1, <1>2, <1>3, <1>5, <1>8

\* What the rest of the world does to the watcher: nothing, and the queues stay behind
\* what is printed.
LEMMA WorldKeeps ==
    ASSUME WatcherType, HonestInv, World
    PROVE  WatcherType' /\ HonestInv' /\ UNCHANGED watcher
<1>1. UNCHANGED watcher
  BY DEF World, Attach, Leave, Output, Tick
<1>2. UNCHANGED <<tail, state, last, fed, told>>
  BY <1>1 DEF watcher
<1>3. ASSUME now' \in Nat, now <= now', DOMAIN pend' \subseteq Client, out' \in 0..MaxOut,
             \A c \in DOMAIN pend' : pend'[c] \in Seq(Chunk) /\ Len(pend'[c]) <= out',
             \A f \in Feeds : Ahead(f) => Ahead(f)'
      PROVE  WatcherType' /\ HonestInv'
  <2>1. last' \in 0..now'
    <3>1. last \in 0..now /\ now \in Nat
      BY DEF WatcherType
    <3> QED BY <1>2, <1>3, <3>1
  <2>2. WatcherType'
    BY <1>2, <1>3, <2>1 DEF WatcherType
  <2>3. MayAnnounce'
    BY <1>2 DEF HonestInv, MayAnnounce, Seen
  <2>4. ASSUME fed # <<>> PROVE Ahead(fed)'
    <3>1. fed \in Feeds /\ Ahead(fed)
      BY <2>4 DEF HonestInv, WatcherType
    <3>2. fed[2] <= out' /\ (fed[1] \in DOMAIN pend' => fed[2] + Len(pend'[fed[1]]) <= out')
      BY <1>3, <3>1 DEF Ahead
    <3> QED BY <1>2, <3>2 DEF Ahead
  <2>5. \A f \in Feeds : told[f] # 0 => Ahead(f)'
    BY <1>3 DEF HonestInv
  <2>6. (fed # <<>> => Ahead(fed))'
    BY <1>2, <2>4
  <2>7. HonestInv'
    BY <1>2, <2>3, <2>5, <2>6 DEF HonestInv
  <2> QED BY <2>2, <2>7
<1>4. /\ now \in Nat /\ out \in 0..MaxOut /\ MaxOut \in Nat /\ DOMAIN pend \subseteq Client
      /\ \A c \in DOMAIN pend : pend[c] \in Seq(Chunk) /\ Len(pend[c]) \in Nat /\ Len(pend[c]) <= out
      /\ \A f \in Feeds : f[2] \in Nat
  <2>1. \A c \in DOMAIN pend : pend[c] \in Seq(Chunk)
    BY DEF WatcherType
  <2>2. \A f \in Feeds : f[2] \in Nat
    BY WatcherAssumption DEF Feeds
  <2> QED BY <2>1, <2>2, WatcherAssumption DEF WatcherType
<1>5. ASSUME NEW c \in Client, Attach(c) PROVE WatcherType' /\ HonestInv'
  <2>1. pend' = [d \in DOMAIN pend \cup {c} |-> IF d = c THEN <<>> ELSE pend[d]]
        /\ UNCHANGED <<now, out>>
    BY <1>5 DEF Attach
  <2>2. DOMAIN pend' \subseteq Client /\ DOMAIN pend' = DOMAIN pend \cup {c}
    BY <1>4, <2>1
  <2>3. \A d \in DOMAIN pend' : pend'[d] = <<>> \/ (d \in DOMAIN pend /\ pend'[d] = pend[d])
    BY <2>1
  <2>4. \A d \in DOMAIN pend' : pend'[d] \in Seq(Chunk) /\ Len(pend'[d]) <= out'
    <3>1. <<>> \in Seq(Chunk) /\ Len(<<>>) = 0 /\ 0 <= out
      BY <1>4
    <3> QED BY <1>4, <2>1, <2>3, <3>1
  <2>5. \A f \in Feeds : Ahead(f) => Ahead(f)'
    <3> SUFFICES ASSUME NEW f \in Feeds, Ahead(f) PROVE Ahead(f)'
      OBVIOUS
    <3>1. f[2] \in Nat /\ f[2] <= out /\ (f[1] \in DOMAIN pend => f[2] + Len(pend[f[1]]) <= out)
      BY <1>4 DEF Ahead
    <3>2. f[1] \in DOMAIN pend' => f[2] + Len(pend'[f[1]]) <= out
      <4>1. CASE pend'[f[1]] = <<>>
        BY <3>1, <4>1
      <4>2. CASE f[1] \in DOMAIN pend /\ pend'[f[1]] = pend[f[1]]
        BY <3>1, <4>2
      <4> QED BY <2>3, <4>1, <4>2
    <3> QED BY <2>1, <3>1, <3>2 DEF Ahead
  <2> QED BY <1>3, <1>4, <2>1, <2>2, <2>4, <2>5
<1>6. ASSUME NEW c \in Client, Leave(c) PROVE WatcherType' /\ HonestInv'
  <2>1. pend' = [d \in DOMAIN pend \ {c} |-> pend[d]] /\ UNCHANGED <<now, out>>
    BY <1>6 DEF Leave
  <2>2. \A d \in DOMAIN pend' : d \in DOMAIN pend /\ pend'[d] = pend[d]
    BY <2>1
  <2>3. \A f \in Feeds : Ahead(f) => Ahead(f)'
    BY <2>1, <2>2 DEF Ahead
  <2> QED BY <1>3, <1>4, <2>1, <2>2, <2>3
<1>7. ASSUME NEW chunk \in Chunk, Output(chunk) PROVE WatcherType' /\ HonestInv'
  <2>1. /\ pend' = [c \in DOMAIN pend |-> Append(pend[c], chunk)]
        /\ out < MaxOut /\ out' = out + 1 /\ now' = now
    BY <1>7 DEF Output
  <2>2. out' \in 0..MaxOut /\ out <= out'
    BY <1>4, <2>1
  <2>3. \A d \in DOMAIN pend' : d \in DOMAIN pend /\ pend'[d] \in Seq(Chunk) /\ Len(pend'[d]) = Len(pend[d]) + 1
    BY <1>4, <2>1
  <2>4. \A d \in DOMAIN pend' : Len(pend'[d]) <= out'
    BY <1>4, <2>1, <2>3
  <2>5. \A f \in Feeds : Ahead(f) => Ahead(f)'
    <3> SUFFICES ASSUME NEW f \in Feeds, Ahead(f) PROVE Ahead(f)'
      OBVIOUS
    <3>1. f[2] \in Nat /\ f[2] <= out /\ (f[1] \in DOMAIN pend => f[2] + Len(pend[f[1]]) <= out)
      BY <1>4 DEF Ahead
    <3>2. f[1] \in DOMAIN pend' => f[2] + Len(pend'[f[1]]) <= out'
      BY <1>4, <2>1, <2>3, <3>1
    <3> QED BY <1>4, <2>1, <3>1, <3>2 DEF Ahead
  <2> QED BY <1>3, <1>4, <2>1, <2>2, <2>3, <2>4, <2>5
<1>8. ASSUME Tick PROVE WatcherType' /\ HonestInv'
  <2>1. now' = now + 1 /\ UNCHANGED <<out, pend>>
    BY <1>8 DEF Tick
  <2>2. now' \in Nat /\ now <= now'
    BY <1>4, <2>1
  <2>3. \A f \in Feeds : Ahead(f) => Ahead(f)'
    BY <2>1 DEF Ahead
  <2> QED BY <1>3, <1>4, <2>1, <2>2, <2>3
<1> QED BY <1>1, <1>5, <1>6, <1>7, <1>8 DEF World
-----------------------------------------------------------------------------
(* The router and its limiter.                                             *)

RouterType ==
    /\ queue \in Seq(EventType) /\ Len(queue) <= QueueMax
    /\ worker \in EventType \cup {NoEvent} /\ running \in BOOLEAN /\ stopped \in BOOLEAN

LimiterType ==
    /\ times \in Seq(0..now) /\ Len(times) <= Cap
    /\ lastBy \in [EventType -> 0..now] /\ log \in Seq([kind : EventType, at : 0..now])

\* lastBy holds the latest dispatch of each kind, or the start; times holds the end of
\* the log, which is in order, and what it has lost of it is out of the window.
LimiterInv ==
    /\ \A k \in EventType : lastBy[k] = 0 \/ \E i \in 1..Len(log) : log[i] = [kind |-> k, at |-> lastBy[k]]
    /\ \A i \in 1..Len(log) : log[i].at <= lastBy[log[i].kind]
    /\ \A i, j \in 1..Len(log) : i <= j => log[i].at <= log[j].at
    /\ Len(times) <= Len(log)
    /\ \A i \in 1..Len(times) : times[i] = log[Len(log) - Len(times) + i].at
    /\ \A i \in 1..Len(log) : i <= Len(log) - Len(times) => now - log[i].at > Window

RouterInv == WatcherType /\ RouterType /\ LimiterType /\ HonestInv /\ LimiterInv

LEMMA RouterInvType == RouterInv => RouterTypeOK
BY DEF RouterInv, WatcherType, RouterType, LimiterType, RouterTypeOK

LEMMA EmitKeeps ==
    ASSUME RouterType, NEW kinds, kinds \subseteq EventType, Emit(kinds), UNCHANGED <<worker, running, stopped>>
    PROVE  RouterType'
<1>1. CASE UNCHANGED queue
  BY <1>1 DEF RouterType
<1>2. ASSUME NEW k \in kinds,
             queue' = Append(IF Len(queue) < QueueMax THEN queue ELSE Tail(queue), k)
      PROVE  RouterType'
  <2>1. queue \in Seq(EventType) /\ k \in EventType /\ QueueMax \in Nat \ {0} /\ Len(queue) <= QueueMax
    BY RouterAssumption DEF RouterType
  <2>2. CASE Len(queue) < QueueMax
    BY <1>2, <2>1, <2>2 DEF RouterType
  <2>3. CASE ~ (Len(queue) < QueueMax)
    <3>1. queue # <<>> /\ Len(queue) = QueueMax
      BY <2>1, <2>3
    <3>2. Tail(queue) \in Seq(EventType) /\ Len(Tail(queue)) = QueueMax - 1
      BY <2>1, <3>1
    <3>3. queue' = Append(Tail(queue), k)
      BY <1>2, <2>3
    <3>4. queue' \in Seq(EventType) /\ Len(queue') = QueueMax
      BY <2>1, <3>2, <3>3
    <3> QED BY <2>1, <3>4 DEF RouterType
  <2> QED BY <2>2, <2>3
<1> QED BY <1>1, <1>2 DEF Emit

\* What is left of the deque is its end from the first entry within the window.
LEMMA KeptIsEnd ==
    ASSUME RouterInv
    PROVE  \E g \in 0..Len(times) :
              /\ Kept = SubSeq(times, g + 1, Len(times))
              /\ Kept \in Seq(0..now) /\ Len(Kept) = Len(times) - g
              /\ \A i \in 1..Len(Kept) : Kept[i] = times[g + i]
              /\ \A i \in 1..Len(times) : InWindow(times[i]) <=> i > g
<1> DEFINE n == Len(times)
           popped == {i \in 1..n : \A j \in 1..i : ~ InWindow(times[j])}
<1>0. n \in Nat /\ times \in Seq(0..now) /\ now \in Nat /\ Window \in Nat
  BY RouterAssumption DEF RouterInv, LimiterType, WatcherType
<1>1. \A i \in 1..n : times[i] \in 0..now
  BY <1>0
<1>2. \A i, j \in 1..n : i <= j => times[i] <= times[j]
  <2> TAKE i, j \in 1..n
  <2> SUFFICES ASSUME i <= j PROVE times[i] <= times[j]
    OBVIOUS
  <2> DEFINE d == Len(log) - n
  <2>1. Len(log) \in Nat /\ n <= Len(log)
    BY DEF RouterInv, LimiterType, LimiterInv
  <2>2. d + i \in 1..Len(log) /\ d + j \in 1..Len(log) /\ d + i <= d + j
    BY <1>0, <2>1
  <2>3. times[i] = log[d + i].at /\ times[j] = log[d + j].at
    BY DEF RouterInv, LimiterInv
  <2> HIDE DEF d
  <2> QED BY <2>2, <2>3 DEF RouterInv, LimiterInv
<1>3. \E g \in 0..n : \A i \in 1..n : InWindow(times[i]) <=> i > g
  <2>1. CASE \A i \in 1..n : ~ InWindow(times[i])
    <3>1. n \in 0..n /\ \A i \in 1..n : ~ (i > n)
      BY <1>0
    <3> QED BY <2>1, <3>1
  <2>2. CASE \E i \in 1..n : InWindow(times[i])
    <3> DEFINE W == {i \in 1..n : InWindow(times[i])}
    <3>1. W \subseteq Nat /\ W # {}
      BY <2>2, <1>0
    <3>2. PICK f \in W : \A y \in W : f <= y
      <4> HIDE DEF W
      <4> QED BY <3>1, LeastIn
    <3>3. f \in 1..n /\ InWindow(times[f])
      BY <3>2
    <3>4. \A i \in 1..n : InWindow(times[i]) <=> i >= f
      <4> TAKE i \in 1..n
      <4>1. InWindow(times[i]) => i >= f
        BY <3>2, <3>3, <1>0
      <4>2. i >= f => InWindow(times[i])
        <5> SUFFICES ASSUME i >= f PROVE InWindow(times[i])
          OBVIOUS
        <5>1. times[f] <= times[i]
          BY <1>2, <3>3
        <5>2. times[f] \in 0..now /\ times[i] \in 0..now
          BY <1>1, <3>3
        <5> QED BY <1>0, <3>3, <5>1, <5>2 DEF InWindow
      <4> QED BY <4>1, <4>2
    <3>5. f - 1 \in 0..n /\ \A i \in 1..n : i >= f <=> i > f - 1
      BY <1>0, <3>3
    <3> QED BY <3>4, <3>5
  <2> QED BY <2>1, <2>2
<1>4. PICK g \in 0..n : \A i \in 1..n : InWindow(times[i]) <=> i > g
  BY <1>3
<1>5. popped = 1..g
  <2>1. ASSUME NEW i \in 1..n, \A j \in 1..i : ~ InWindow(times[j]) PROVE i \in 1..g
    <3>1. i \in 1..i
      OBVIOUS
    <3>2. ~ (i > g)
      BY <1>4, <2>1, <3>1
    <3> QED BY <1>0, <3>2
  <2>2. ASSUME NEW i \in 1..g PROVE i \in 1..n /\ \A j \in 1..i : ~ InWindow(times[j])
    <3>1. i \in 1..n /\ \A j \in 1..i : j \in 1..n /\ ~ (j > g)
      BY <1>0
    <3> QED BY <1>4, <3>1
  <2> QED BY <2>1, <2>2
<1>6. Cardinality(popped) = g
  <2>1. Cardinality(1..g) = g
    <3>1. Cardinality(1..g) = IF 1 > g THEN 0 ELSE g - 1 + 1
      BY FS_Interval
    <3> QED BY <3>1
  <2> QED BY <1>5, <2>1
<1>7. Kept = SubSeq(times, g + 1, n)
  BY <1>6 DEF Kept
<1>8. Kept \in Seq(0..now) /\ Len(Kept) = n - g /\ \A i \in 1..Len(Kept) : Kept[i] = times[g + i]
  <2>1. g + 1 \in 1..(n + 1)
    BY <1>0
  <2>2. Len(SubSeq(times, g + 1, n)) = n - g
    BY <1>0, <2>1
  <2>3. \A i \in 1..(n - g) : SubSeq(times, g + 1, n)[i] = times[g + i]
    BY <1>0, <2>1
  <2>4. SubSeq(times, g + 1, n) \in Seq(0..now)
    BY <1>0, <2>1
  <2> QED BY <1>7, <2>2, <2>3, <2>4
<1> QED BY <1>4, <1>7, <1>8

LEMMA LogEntries ==
    ASSUME LimiterType, NEW i \in 1..Len(log)
    PROVE  log[i] \in [kind : EventType, at : 0..now] /\ log[i].at \in 0..now /\ log[i].kind \in EventType
<1>1. log \in Seq([kind : EventType, at : 0..now])
  BY DEF LimiterType
<1>2. log[i] \in [kind : EventType, at : 0..now]
  <2> DEFINE S == [kind : EventType, at : 0..now]
  <2>1. log \in Seq(S)
    BY <1>1
  <2> HIDE DEF S
  <2>2. log[i] \in S
    BY <2>1
  <2> QED BY <2>2 DEF S
<1> QED BY <1>2

\* What the deque keeps is still the end of the log, and what it loses is out of the window.
LEMMA KeptFacts ==
    ASSUME RouterInv
    PROVE  /\ Kept \in Seq(0..now) /\ Len(Kept) <= Len(times) /\ Len(Kept) <= Len(log)
           /\ \A i \in 1..Len(Kept) : Kept[i] = log[Len(log) - Len(Kept) + i].at
           /\ \A i \in 1..Len(log) : i <= Len(log) - Len(Kept) <=> now - log[i].at > Window
<1>1. PICK g \in 0..Len(times) :
         /\ Kept \in Seq(0..now) /\ Len(Kept) = Len(times) - g
         /\ \A i \in 1..Len(Kept) : Kept[i] = times[g + i]
         /\ \A i \in 1..Len(times) : InWindow(times[i]) <=> i > g
  BY KeptIsEnd
<1> DEFINE n == Len(times)
           m == Len(log)
           d == m - n
<1>2. n \in Nat /\ m \in Nat /\ n <= m /\ d \in Nat /\ m = d + n /\ now \in Nat /\ Window \in Nat
  BY RouterAssumption DEF RouterInv, LimiterType, LimiterInv, WatcherType
<1>3. \A i \in 1..n : times[i] = log[d + i].at
  BY DEF RouterInv, LimiterInv
<1>4. \A i \in 1..m : i <= d => now - log[i].at > Window
  BY DEF RouterInv, LimiterInv
<1>5. \A i \in 1..m : log[i].at \in 0..now
  BY LogEntries DEF RouterInv
<1>6. Len(Kept) = n - g /\ \A i \in 1..n : InWindow(times[i]) <=> i > g
  BY <1>1
<1> HIDE DEF n, m, d
<1>7. \A i \in 1..Len(Kept) : Kept[i] = log[m - Len(Kept) + i].at
  <2> TAKE i \in 1..Len(Kept)
  <2>1. g + i \in 1..n /\ d + (g + i) = m - Len(Kept) + i
    BY <1>2, <1>6
  <2>2. Kept[i] = times[g + i]
    BY <1>1
  <2> QED BY <1>3, <2>1, <2>2
<1>8. \A i \in 1..m : i <= m - Len(Kept) <=> now - log[i].at > Window
  <2> TAKE i \in 1..m
  <2>1. CASE i <= d
    <3>1. i <= m - Len(Kept)
      BY <1>2, <1>6, <2>1
    <3> QED BY <1>4, <2>1, <3>1
  <2>2. CASE ~ (i <= d)
    <3>1. i - d \in 1..n /\ d + (i - d) = i
      BY <1>2, <2>2
    <3>2. times[i - d] = log[i].at
      BY <1>3, <3>1
    <3>3. InWindow(log[i].at) <=> i - d > g
      BY <1>6, <3>1, <3>2
    <3>4. InWindow(log[i].at) <=> ~ (now - log[i].at > Window)
      BY <1>2, <1>5 DEF InWindow
    <3>5. i - d > g <=> ~ (i <= m - Len(Kept))
      BY <1>2, <1>6
    <3> QED BY <3>3, <3>4, <3>5
  <2> QED BY <2>1, <2>2
<1>9. Len(Kept) <= n
  BY <1>2, <1>6
<1>10. Kept \in Seq(0..now)
  BY <1>1
<1>11. Len(Kept) <= m
  BY <1>2, <1>6, <1>9
<1> QED BY <1>7, <1>8, <1>9, <1>10, <1>11 DEF n, m

\* An event let through: the deque and the log grow by the same instant.
LetThrough(kind) ==
    /\ Allows(kind) /\ UNCHANGED now
    /\ times' = Append(Kept, now) /\ lastBy' = [lastBy EXCEPT ![kind] = now]
    /\ log' = Append(log, [kind |-> kind, at |-> now])

LEMMA AllowedKeeps ==
    ASSUME RouterInv, NEW kind \in EventType, LetThrough(kind)
    PROVE  LimiterType' /\ LimiterInv'
<1> DEFINE m == Len(log)
           n == Len(Kept)
           entry == [kind |-> kind, at |-> now]
<1>0. UNCHANGED now
  BY DEF LetThrough
<1>1. /\ log \in Seq([kind : EventType, at : 0..now]) /\ m \in Nat
      /\ lastBy \in [EventType -> 0..now] /\ now \in Nat
  BY DEF RouterInv, LimiterType, WatcherType
<1>2. Kept \in Seq(0..now) /\ n \in Nat /\ n <= m
  BY KeptFacts
<1>3. n < Cap /\ Cap \in Nat
  BY RouterAssumption DEF LetThrough, Allows
<1>4. /\ \A i \in 1..n : Kept[i] = log[m - n + i].at
      /\ \A i \in 1..m : i <= m - n => now - log[i].at > Window
  BY KeptFacts
<1>5. /\ \A k \in EventType : lastBy[k] = 0 \/ \E i \in 1..m : log[i] = [kind |-> k, at |-> lastBy[k]]
      /\ \A i \in 1..m : log[i].at <= lastBy[log[i].kind]
      /\ \A i, j \in 1..m : i <= j => log[i].at <= log[j].at
  BY DEF RouterInv, LimiterInv
<1>6. /\ entry \in [kind : EventType, at : 0..now] /\ entry.at = now /\ entry.kind = kind
      /\ now \in 0..now
  BY <1>1
<1>7. /\ log' \in Seq([kind : EventType, at : 0..now]) /\ Len(log') = m + 1
      /\ log'[m + 1] = entry /\ \A i \in 1..m : log'[i] = log[i]
  BY <1>1, <1>6 DEF LetThrough
<1>8. /\ times' \in Seq(0..now) /\ Len(times') = n + 1
      /\ times'[n + 1] = now /\ \A i \in 1..n : times'[i] = Kept[i]
  BY <1>2, <1>6 DEF LetThrough
<1>9. /\ lastBy' \in [EventType -> 0..now] /\ lastBy'[kind] = now
      /\ \A k \in EventType : k # kind => lastBy'[k] = lastBy[k]
  BY <1>1, <1>6 DEF LetThrough
<1>10. \A i \in 1..m : log[i].at \in 0..now /\ log[i].kind \in EventType
  BY LogEntries DEF RouterInv
<1> HIDE DEF m, n, entry
<1>11. LimiterType'
  <2>1. Len(times') <= Cap
    BY <1>2, <1>3, <1>8
  <2> QED BY <1>0, <1>7, <1>8, <1>9, <2>1 DEF LimiterType
<1>12. \A k \in EventType : lastBy'[k] = 0 \/ \E i \in 1..Len(log') : log'[i] = [kind |-> k, at |-> lastBy'[k]]
  <2> TAKE k \in EventType
  <2>1. CASE k = kind
    <3>1. m + 1 \in 1..Len(log') /\ log'[m + 1] = [kind |-> k, at |-> lastBy'[k]]
      BY <1>1, <1>7, <1>9, <2>1 DEF entry
    <3> QED BY <3>1
  <2>2. CASE k # kind
    <3>1. lastBy'[k] = lastBy[k]
      BY <1>9, <2>2
    <3>2. CASE lastBy[k] = 0
      BY <3>1, <3>2
    <3>3. ASSUME NEW i \in 1..m, log[i] = [kind |-> k, at |-> lastBy[k]]
          PROVE  i \in 1..Len(log') /\ log'[i] = [kind |-> k, at |-> lastBy'[k]]
      BY <1>1, <1>7, <3>1, <3>3
    <3> QED BY <1>5, <3>2, <3>3
  <2> QED BY <2>1, <2>2
<1>13. \A i \in 1..Len(log') : log'[i].at <= lastBy'[log'[i].kind]
  <2> TAKE i \in 1..Len(log')
  <2>1. CASE i = m + 1
    BY <1>1, <1>6, <1>7, <1>9, <2>1
  <2>2. CASE i # m + 1
    <3>1. i \in 1..m /\ log'[i] = log[i]
      <4>1. m \in Nat /\ Len(log') = m + 1
        BY <1>1, <1>7
      <4>2. i \in 1..m
        BY <4>1, <2>2
      <4> QED BY <1>7, <4>2
    <3>2. log[i].at <= lastBy[log[i].kind] /\ log[i].at \in 0..now /\ log[i].kind \in EventType
      BY <1>5, <1>10, <3>1
    <3>3. CASE log[i].kind = kind
      <4>1. lastBy'[log'[i].kind] = now
        BY <1>9, <3>1, <3>3
      <4>2. log'[i].at <= now
        BY <1>1, <3>1, <3>2
      <4> QED BY <4>1, <4>2
    <3>4. CASE log[i].kind # kind
      <4>1. lastBy'[log'[i].kind] = lastBy[log[i].kind]
        BY <1>9, <3>1, <3>2, <3>4
      <4> QED BY <3>1, <3>2, <4>1
    <3> QED BY <3>3, <3>4
  <2> QED BY <2>1, <2>2
<1>14. \A i, j \in 1..Len(log') : i <= j => log'[i].at <= log'[j].at
  <2> TAKE i, j \in 1..Len(log')
  <2> SUFFICES ASSUME i <= j PROVE log'[i].at <= log'[j].at
    OBVIOUS
  <2>1. \A e \in 1..Len(log') : e \in 1..m \/ e = m + 1
    BY <1>1, <1>7
  <2>2. CASE j = m + 1
    <3>1. log'[j].at = now
      BY <1>6, <1>7, <2>2
    <3>2. log'[i].at \in 0..now
      <4>1. CASE i = m + 1
        BY <1>6, <1>7, <4>1
      <4>2. CASE i \in 1..m
        BY <1>7, <1>10, <4>2
      <4> QED BY <2>1, <4>1, <4>2
    <3>3. now \in Nat
      BY <1>1
    <3> QED BY <3>1, <3>2, <3>3
  <2>3. CASE j \in 1..m
    <3>1. i \in 1..m
      BY <1>1, <2>3
    <3>2. log'[i] = log[i] /\ log'[j] = log[j] /\ log[i].at <= log[j].at
      BY <1>5, <1>7, <2>3, <3>1
    <3> QED BY <3>2
  <2> QED BY <2>1, <2>2, <2>3
<1>15. \A i \in 1..Len(times') : times'[i] = log'[Len(log') - Len(times') + i].at
  <2> TAKE i \in 1..Len(times')
  <2>0. m \in Nat /\ n \in Nat /\ n <= m /\ Len(log') = m + 1 /\ Len(times') = n + 1 /\ i \in 1..(n + 1)
    BY <1>1, <1>2, <1>7, <1>8
  <2>1. CASE i = n + 1
    <3>1. Len(log') - Len(times') + i = m + 1
      BY <2>0, <2>1
    <3>2. times'[i] = now /\ log'[m + 1].at = now
      BY <1>6, <1>7, <1>8, <2>1
    <3> QED BY <3>1, <3>2
  <2>2. CASE i # n + 1
    <3>1. i \in 1..n
      BY <1>2, <1>8, <2>2
    <3>2. Len(log') - Len(times') + i = m - n + i /\ m - n + i \in 1..m
      BY <2>0, <3>1
    <3>3. times'[i] = log[m - n + i].at /\ log'[m - n + i] = log[m - n + i]
      BY <1>4, <1>7, <1>8, <3>1, <3>2
    <3> QED BY <3>2, <3>3
  <2> QED BY <2>1, <2>2
<1>16. \A i \in 1..Len(log') : i <= Len(log') - Len(times') => now - log'[i].at > Window
  <2> TAKE i \in 1..Len(log')
  <2> SUFFICES ASSUME i <= Len(log') - Len(times') PROVE now - log'[i].at > Window
    OBVIOUS
  <2>1. i \in 1..m /\ i <= m - n
    BY <1>1, <1>2, <1>7, <1>8
  <2> QED BY <1>4, <1>7, <2>1
<1>17. Len(times') <= Len(log')
  BY <1>1, <1>2, <1>7, <1>8
<1> QED BY <1>0, <1>11, <1>12, <1>13, <1>14, <1>15, <1>16, <1>17 DEF LimiterInv

\* The worker's step: let through, refused in the cooldown, or refused by the cap.
LEMMA JudgeKeeps ==
    ASSUME RouterInv, Judge
    PROVE  RouterInv'
<1> DEFINE kind == Head(queue)
<1>1. /\ queue # <<>> /\ queue' = Tail(queue) /\ UNCHANGED <<now, out, pend, watcher, running, stopped>>
      /\ lastBy' = Charged(kind, Allows(kind))
      /\ times' = IF now - lastBy[kind] < Cooldown THEN times
                  ELSE IF Allows(kind) THEN Append(Kept, now) ELSE Kept
      /\ worker' = IF Allows(kind) THEN kind ELSE NoEvent
      /\ log' = IF Allows(kind) THEN Append(log, [kind |-> kind, at |-> now]) ELSE log
  BY DEF Judge
<1>2. kind \in EventType /\ Tail(queue) \in Seq(EventType) /\ Len(Tail(queue)) <= QueueMax
  <2>1. queue \in Seq(EventType) /\ Len(queue) <= QueueMax /\ QueueMax \in Nat
    BY RouterAssumption DEF RouterInv, RouterType
  <2> QED BY <1>1, <2>1
<1> HIDE DEF kind
<1>3. RouterType'
  BY <1>1, <1>2 DEF RouterInv, RouterType
<1>4. WatcherType' /\ HonestInv'
  BY <1>1 DEF RouterInv, WatcherType, HonestInv, MayAnnounce, Ahead, watcher, Seen
<1>5. now \in Nat /\ Cooldown \in Nat /\ lastBy[kind] \in 0..now
  BY <1>2, RouterAssumption DEF RouterInv, WatcherType, LimiterType
<1>6. CASE Allows(kind)
  <2>1. ~ (now - lastBy[kind] < Cooldown)
    BY <1>5, <1>6 DEF Allows
  <2>2. LetThrough(kind)
    BY <1>1, <1>6, <2>1 DEF Charged, LetThrough
  <2>3. LimiterType' /\ LimiterInv'
    BY <1>2, <2>2, AllowedKeeps
  <2> QED BY <1>3, <1>4, <2>3 DEF RouterInv
<1>7. CASE ~ Allows(kind) /\ now - lastBy[kind] < Cooldown
  <2>1. UNCHANGED <<now, times, lastBy, log>>
    BY <1>1, <1>7 DEF Charged
  <2> QED BY <1>3, <1>4, <2>1 DEF RouterInv, LimiterType, LimiterInv
<1>8. CASE ~ Allows(kind) /\ ~ (now - lastBy[kind] < Cooldown)
  <2>1. UNCHANGED <<now, lastBy, log>> /\ times' = Kept
    BY <1>1, <1>8 DEF Charged
  <2>2. Len(times) \in Nat /\ Len(Kept) \in Nat /\ Cap \in Nat /\ Len(times) <= Cap
    BY KeptFacts, RouterAssumption DEF RouterInv, LimiterType
  <2>3. times' \in Seq(0..now) /\ Len(times') <= Cap
    BY <2>1, <2>2, KeptFacts
  <2>4. LimiterType'
    BY <2>1, <2>3 DEF RouterInv, LimiterType
  <2>5. /\ Len(times') <= Len(log')
        /\ \A i \in 1..Len(times') : times'[i] = log'[Len(log') - Len(times') + i].at
        /\ \A i \in 1..Len(log') : i <= Len(log') - Len(times') => now' - log'[i].at > Window
    BY <2>1, KeptFacts
  <2>6. LimiterInv'
    BY <2>1, <2>5 DEF RouterInv, LimiterInv
  <2> QED BY <1>3, <1>4, <2>4, <2>6 DEF RouterInv
<1> QED BY <1>6, <1>7, <1>8

LEMMA WiderSeq == ASSUME NEW S, NEW T, S \subseteq T, NEW s \in Seq(S) PROVE s \in Seq(T)
OBVIOUS

\* Time only takes more of the log out of the window.
LEMMA TickKeeps ==
    ASSUME RouterInv, now' = now \/ now' = now + 1, UNCHANGED limiter
    PROVE  LimiterType' /\ LimiterInv'
<1>1. now \in Nat /\ now' \in Nat /\ now <= now' /\ Window \in Nat /\ UNCHANGED <<times, lastBy, log>>
  BY RouterAssumption DEF RouterInv, WatcherType, limiter
<1>2. \A x \in 0..now : x \in 0..now'
  BY <1>1
<1>3. \A i \in 1..Len(log) : log[i].at \in 0..now /\ log[i].kind \in EventType
  BY LogEntries DEF RouterInv
<1>4. LimiterType'
  <2>1. times' \in Seq(0..now')
    <3>1. times \in Seq(0..now) /\ 0..now \subseteq 0..now'
      BY <1>2 DEF RouterInv, LimiterType
    <3> QED BY <1>1, <3>1, WiderSeq
  <2>2. lastBy' \in [EventType -> 0..now']
    BY <1>1, <1>2 DEF RouterInv, LimiterType
  <2>3. log' \in Seq([kind : EventType, at : 0..now'])
    <3>1. log \in Seq([kind : EventType, at : 0..now])
      BY DEF RouterInv, LimiterType
    <3>2. [kind : EventType, at : 0..now] \subseteq [kind : EventType, at : 0..now']
      BY <1>2
    <3> QED BY <1>1, <3>1, <3>2, WiderSeq
  <2>4. Len(times') <= Cap
    BY <1>1 DEF RouterInv, LimiterType
  <2> QED BY <2>1, <2>2, <2>3, <2>4 DEF LimiterType
<1>5. \A i \in 1..Len(log') : i <= Len(log') - Len(times') => now' - log'[i].at > Window
  <2> TAKE i \in 1..Len(log')
  <2> SUFFICES ASSUME i <= Len(log') - Len(times') PROVE now' - log'[i].at > Window
    OBVIOUS
  <2>1. i \in 1..Len(log) /\ i <= Len(log) - Len(times) /\ log'[i] = log[i]
    BY <1>1
  <2>2. now - log[i].at > Window /\ log[i].at \in 0..now
    BY <1>3, <2>1 DEF RouterInv, LimiterInv
  <2>3. now' - log[i].at > Window
    BY <1>1, <2>2
  <2> QED BY <2>1, <2>3
<1>6. LimiterInv'
  BY <1>1, <1>5 DEF RouterInv, LimiterInv
<1> QED BY <1>4, <1>6

LEMMA InitRouter == RouterInit => RouterInv
<1> SUFFICES ASSUME RouterInit PROVE RouterInv
  OBVIOUS
<1>1. WatcherType
  <2>1. /\ now = 0 /\ out = 0 /\ DOMAIN pend = {} /\ tail = <<>> /\ state = "thinking"
        /\ last = 0 /\ fed = <<>> /\ told = [f \in Feeds |-> 0]
    BY DEF RouterInit, WatcherInit
  <2>2. TailMax \in Nat /\ MaxOut \in Nat /\ Len(tail) = 0
    BY <2>1, WatcherAssumption
  <2> QED BY <2>1, <2>2 DEF WatcherType
<1>2. RouterType
  <2>1. queue = <<>> /\ Len(queue) = 0 /\ QueueMax \in Nat /\ worker = NoEvent /\ running = TRUE /\ stopped = FALSE
    BY RouterAssumption DEF RouterInit
  <2>2. queue \in Seq(EventType) /\ Len(queue) <= QueueMax
    BY <2>1
  <2> QED BY <2>1, <2>2 DEF RouterType
<1>3. /\ now = 0 /\ times = <<>> /\ log = <<>> /\ lastBy = [k \in EventType |-> 0]
      /\ Cap \in Nat \ {0} /\ Len(times) = 0 /\ Len(log) = 0 /\ 0 \in 0..now
  BY RouterAssumption DEF RouterInit, WatcherInit
<1>4. LimiterType
  BY <1>3 DEF LimiterType
<1>5. LimiterInv
  BY <1>3 DEF LimiterInv
<1>6. HonestInv
  BY DEF RouterInit, WatcherInit, HonestInv, MayAnnounce, Seen
<1> QED BY <1>1, <1>2, <1>4, <1>5, <1>6 DEF RouterInv

LEMMA WatchKeeps == ASSUME RouterInv, Watch PROVE RouterInv'
<1>1. PICK emitted \in SUBSET EventType :
         (PollOnce(emitted) \/ \E c \in Client : Feed(c, emitted)) /\ Emit(emitted)
  BY DEF Watch
<1>2. UNCHANGED <<worker, running, stopped, limiter>>
  BY DEF Watch
<1>3. UNCHANGED now
  BY <1>1 DEF PollOnce, Feed
<1>4. WatcherType /\ RouterType /\ HonestInv
  BY DEF RouterInv
<1>5. WatcherType' /\ HonestInv'
  BY <1>1, <1>4, FeedKeeps, PollKeeps
<1>6. RouterType'
  BY <1>1, <1>2, <1>4, EmitKeeps
<1>7. LimiterType' /\ LimiterInv'
  BY <1>2, <1>3, TickKeeps
<1> QED BY <1>5, <1>6, <1>7 DEF RouterInv

LEMMA OthersKeep ==
    ASSUME RouterInv,
           World \/ Toast \/ Stop \/ (\E answered \in BOOLEAN : Dispatched(answered)) \/ UNCHANGED routerVars
    PROVE  RouterInv'
<1>1. UNCHANGED limiter
  BY DEF World, Toast, Stop, Dispatched, routerVars, router
<1>2. now' = now \/ now' = now + 1
  BY DEF World, Toast, Stop, Dispatched, routerVars, Attach, Leave, Output, Tick
<1>3. LimiterType' /\ LimiterInv'
  BY <1>1, <1>2, TickKeeps
<1>4. WatcherType' /\ HonestInv'
  <2>1. CASE World
    BY <2>1, WorldKeeps DEF RouterInv
  <2>2. CASE UNCHANGED <<now, out, pend, watcher>>
    BY <2>2 DEF RouterInv, WatcherType, HonestInv, MayAnnounce, Ahead, watcher, Seen
  <2> QED BY <2>1, <2>2 DEF Toast, Stop, Dispatched, routerVars
<1>5. RouterType'
  <2>1. CASE Toast
    <3>1. Emit({"CLAUDE_STOP"}) /\ UNCHANGED <<worker, running, stopped>>
      BY <2>1 DEF Toast
    <3>2. {"CLAUDE_STOP"} \subseteq EventType
      BY DEF EventType
    <3> QED BY <3>1, <3>2, EmitKeeps DEF RouterInv
  <2>2. CASE Stop
    BY <2>2 DEF Stop, RouterInv, RouterType
  <2>3. ASSUME NEW answered \in BOOLEAN, Dispatched(answered) PROVE RouterType'
    BY <2>3 DEF Dispatched, GoesOn, RouterInv, RouterType
  <2>4. CASE World \/ UNCHANGED routerVars
    BY <2>4 DEF World, routerVars, router, RouterInv, RouterType
  <2> QED BY <2>1, <2>2, <2>3, <2>4
<1> QED BY <1>3, <1>4, <1>5 DEF RouterInv

LEMMA NextRouter == RouterInv /\ [RouterNext]_routerVars => RouterInv'
BY JudgeKeeps, WatchKeeps, OthersKeep DEF RouterNext, Worker

\* The types of the watcher and of the router, for any number of clients and any sizes.
THEOREM RouterTypeCorrect == RouterSpec => []RouterTypeOK
<1>1. RouterInit => RouterInv
  BY InitRouter
<1>2. RouterInv /\ [RouterNext]_routerVars => RouterInv'
  BY NextRouter
<1>3. RouterInv => RouterTypeOK
  BY RouterInvType
<1> QED BY <1>1, <1>2, <1>3, PTL DEF RouterSpec

\* However the feeds of the clients overlap, every feed of every client is followed by one
\* completion at most, and by none over an interrupt, a menu or a running tool: a silence
\* is announced once for each client that was sent its last chunk, and not again when all
\* the queues are read (IdleWatcher._poll_once()).
THEOREM CompletionsAreHonest == RouterSpec => CompletionIsHonest
<1> DEFINE Honest == told' # told =>
               /\ fed # <<>> /\ told[fed] = 0
               /\ tail # <<>> /\ "interrupt" \notin tail[Len(tail)]
               /\ Seen(tail) \cap {"menu", "tool"} = {}
               /\ now - last >= Threshold
<1>1. ASSUME RouterInv, [RouterNext]_routerVars PROVE [Honest]_watcher
  <2>0. WatcherType /\ HonestInv
    BY <1>1 DEF RouterInv
  <2>1. ASSUME NEW emitted, PollOnce(emitted) PROVE Honest
    <3>1. Complete
      BY <2>1 DEF PollOnce
    <3>2. tail # <<>> /\ fed # <<>> /\ told[fed] = 0
      BY <2>0, <2>1, PollKeeps
    <3> QED BY <2>0, <3>1, <3>2 DEF HonestInv, MayAnnounce, Complete
  <2>2. ASSUME NEW emitted, NEW c, Feed(c, emitted) PROVE Honest
    BY <2>2 DEF Feed
  <2>3. CASE Watch
    BY <2>1, <2>2, <2>3 DEF Watch
  <2>4. CASE World
    BY <2>0, <2>4, WorldKeeps
  <2>5. CASE UNCHANGED watcher
    BY <2>5
  <2> QED BY <1>1, <2>3, <2>4, <2>5 DEF RouterNext, Worker, Toast, Judge, Dispatched, Stop, routerVars
<1>2. RouterInit => RouterInv
  BY InitRouter
<1>3. RouterInv /\ [RouterNext]_routerVars => RouterInv'
  BY NextRouter
<1> QED BY <1>1, <1>2, <1>3, PTL DEF RouterSpec, CompletionIsHonest

\* What the limiter remembers says of the log what the whole log says.
LEMMA AllowsByLog ==
    ASSUME RouterInv, NEW kind \in EventType
    PROVE  Allows(kind) <=>
             /\ now >= Cooldown
             /\ \A i \in DOMAIN log : log[i].kind = kind => now - log[i].at >= Cooldown
             /\ Cardinality({i \in DOMAIN log : now - log[i].at <= Window}) < Cap
<1>1. /\ now \in Nat /\ Cooldown \in Nat /\ Window \in Nat /\ lastBy[kind] \in 0..now
      /\ Len(log) \in Nat /\ DOMAIN log = 1..Len(log)
      /\ \A i \in 1..Len(log) : log[i].at \in 0..now
  <2>1. \A i \in 1..Len(log) : log[i].at \in 0..now
    BY LogEntries DEF RouterInv
  <2>2. log \in Seq([kind : EventType, at : 0..now]) /\ lastBy \in [EventType -> 0..now]
    BY DEF RouterInv, LimiterType
  <2>3. now \in Nat /\ Cooldown \in Nat /\ Window \in Nat
    BY RouterAssumption DEF RouterInv, WatcherType
  <2> QED BY <2>1, <2>2, <2>3
<1>2. /\ lastBy[kind] = 0 \/ \E i \in 1..Len(log) : log[i] = [kind |-> kind, at |-> lastBy[kind]]
      /\ \A i \in 1..Len(log) : log[i].kind = kind => log[i].at <= lastBy[kind]
  BY DEF RouterInv, LimiterInv
<1>3. now - lastBy[kind] >= Cooldown <=>
        now >= Cooldown /\ \A i \in 1..Len(log) : log[i].kind = kind => now - log[i].at >= Cooldown
  <2>1. ASSUME now - lastBy[kind] >= Cooldown
        PROVE  now >= Cooldown /\ \A i \in 1..Len(log) : log[i].kind = kind => now - log[i].at >= Cooldown
    <3>1. now >= Cooldown
      BY <1>1, <2>1
    <3>2. ASSUME NEW i \in 1..Len(log), log[i].kind = kind PROVE now - log[i].at >= Cooldown
      <4>1. log[i].at <= lastBy[kind] /\ log[i].at \in 0..now
        BY <1>1, <1>2, <3>2
      <4> QED BY <1>1, <2>1, <4>1
    <3> QED BY <3>1, <3>2
  <2>2. ASSUME now >= Cooldown, \A i \in 1..Len(log) : log[i].kind = kind => now - log[i].at >= Cooldown
        PROVE  now - lastBy[kind] >= Cooldown
    <3>1. CASE lastBy[kind] = 0
      BY <1>1, <2>2, <3>1
    <3>2. ASSUME NEW i \in 1..Len(log), log[i] = [kind |-> kind, at |-> lastBy[kind]]
          PROVE  now - lastBy[kind] >= Cooldown
      <4>1. log[i].kind = kind /\ log[i].at = lastBy[kind]
        BY <3>2
      <4> QED BY <2>2, <4>1
    <3> QED BY <1>2, <3>1, <3>2
  <2> QED BY <2>1, <2>2
<1>4. Cardinality({i \in 1..Len(log) : now - log[i].at <= Window}) = Len(Kept)
  <2> DEFINE m == Len(log)
             n == Len(Kept)
  <2>1. n \in Nat /\ n <= m /\ \A i \in 1..m : i <= m - n <=> now - log[i].at > Window
    BY KeptFacts
  <2>2. \A i \in 1..m : now - log[i].at <= Window <=> i > m - n
    <3> TAKE i \in 1..m
    <3>1. log[i].at \in 0..now
      BY <1>1
    <3>2. now - log[i].at <= Window <=> ~ (now - log[i].at > Window)
      BY <1>1, <3>1
    <3>3. i > m - n <=> ~ (i <= m - n)
      BY <1>1, <2>1
    <3> QED BY <2>1, <3>2, <3>3
  <2>3. m \in Nat
    BY <1>1
  <2>4. {i \in 1..m : now - log[i].at <= Window} = {i \in 1..m : i > m - n}
    BY <2>2
  <2> HIDE DEF m, n
  <2>5. {i \in 1..m : i > m - n} = (m - n + 1)..m
    BY <2>1, <2>3
  <2>6. Cardinality((m - n + 1)..m) = n
    <3>1. Cardinality((m - n + 1)..m) = IF m - n + 1 > m THEN 0 ELSE m - (m - n + 1) + 1
      BY <2>1, <2>3, FS_Interval
    <3> QED BY <2>1, <2>3, <3>1
  <2> QED BY <2>4, <2>5, <2>6 DEF m, n
<1> QED BY <1>1, <1>3, <1>4 DEF Allows

\* The limiter lets an event through exactly when the log of what it let through says it
\* may, though all it keeps is one instant per kind and the end of the log
\* (RateLimiter.check()).
THEOREM LimiterExact == RouterSpec => LimiterIsExact
<1> DEFINE Exact == Judge =>
        (worker' # NoEvent <=>
           /\ now >= Cooldown
           /\ \A i \in DOMAIN log : log[i].kind = Head(queue) => now - log[i].at >= Cooldown
           /\ Cardinality({i \in DOMAIN log : now - log[i].at <= Window}) < Cap)
<1>1. ASSUME RouterInv, Judge PROVE Exact
  <2>1. queue # <<>> /\ worker' = IF Allows(Head(queue)) THEN Head(queue) ELSE NoEvent
    BY <1>1 DEF Judge
  <2>2. Head(queue) \in EventType
    <3>1. queue \in Seq(EventType)
      BY <1>1 DEF RouterInv, RouterType
    <3> QED BY <2>1, <3>1
  <2>3. worker' # NoEvent <=> Allows(Head(queue))
    BY <2>1, <2>2, NoEventAssumption
  <2> QED BY <1>1, <2>2, <2>3, AllowsByLog
<1>2. RouterInit => RouterInv
  BY InitRouter
<1>3. RouterInv /\ [RouterNext]_routerVars => RouterInv'
  BY NextRouter
<1>4. RouterInv => [Exact]_routerVars
  BY <1>1
<1> QED BY <1>2, <1>3, <1>4, PTL DEF RouterSpec, LimiterIsExact
=============================================================================
