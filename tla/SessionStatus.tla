---------------------------- MODULE SessionStatus -----------------------------
(***************************************************************************)
(* The dot of one session: what the hooks of its agent, the listing, the   *)
(* user's looks, time and a restart make of it                             *)
(* (src/core/session_activity.py, session_status.py, activity_persist.py,  *)
(* session_permission_verify.py, session_view_clears.py, and the parts of  *)
(* session_manager.py between them).                                       *)
(*                                                                         *)
(* Every hook is a POST of its own whose handler awaits the body before it *)
(* applies the event, so hooks are applied late, twice, out of order or    *)
(* never.  Ages are two-valued: within their window or past it.            *)
(***************************************************************************)
EXTENDS Integers, SequencesExt

CONSTANTS None,
          MaxHooks,   \* bound: hooks the agent sends
          MaxCopies,  \* bound: hooks applied a second time
          MaxBoots    \* bound: restarts

ASSUME BoundsAssumption == MaxHooks \in Nat /\ MaxCopies \in Nat /\ MaxBoots \in Nat

VARIABLES agent,   \* what the agent in the pane really does
          flight,  \* hooks sent and not yet applied, oldest first
          done,    \* the kinds of hook applied
          sent, copies, \* how many were sent, and how many applied a second time
          sig,     \* SessionActivitySignal
          unread,  \* an unread flag is set
          row,     \* sessions.activity_state and the age of its stamp
          cache,   \* _last_persisted_activity
          boots,
          ordered, \* every hook so far was applied once and in order (history)
          looked   \* the user has looked since the agent asked (history)

vars == <<agent, flight, done, sent, copies, sig, unread, row, cache, boots, ordered, looked>>

KNOWN_EVENTS == {"Stop", "PermissionRequest", "Notification", "UserPromptSubmit", "PreToolUse",
                 "PostToolUse", "SubagentStart", "SubagentStop"}

Working == {"working", "working_subagent"}
PERISHABLE == Working \cup {"question", "notice"}
BaseState == PERISHABLE \cup {"idle"}

\* A fresh SessionActivitySignal.
Silent == [seen |-> FALSE, perm |-> "no", notice |-> FALSE, hb |-> FALSE, depth |-> 0,
           turn |-> FALSE, stopped |-> FALSE]

Init ==
    /\ agent = [does |-> "prompt", drawn |-> FALSE, subs |-> 0]
    /\ flight = <<>> /\ done = {} /\ sent = 0 /\ copies = 0
    /\ sig = Silent /\ unread = FALSE
    /\ row = [state |-> None, fresh |-> FALSE] /\ cache = None
    /\ boots = 0 /\ ordered = TRUE /\ looked = FALSE
-----------------------------------------------------------------------------
(* The agent.  Each of its steps that has a hook sends it.                 *)

Sends(next, kind) ==
    /\ sent < MaxHooks /\ sent' = sent + 1
    /\ flight' = Append(flight, kind)
    /\ agent' = next
    /\ looked' = (looked /\ kind # "PermissionRequest")
    /\ UNCHANGED <<done, copies, sig, unread, row, cache, boots, ordered>>

Moves(from, to, kind) ==
    agent.does \in from /\ Sends([agent EXCEPT !.does = to, !.drawn = FALSE], kind)

Agent ==
    \/ Moves({"prompt"}, "think", "UserPromptSubmit")
    \/ Moves({"think"}, "ask", "PermissionRequest")
    \/ Moves({"think", "ask"}, "tool", "PreToolUse")
    \/ Moves({"tool"}, "think", "PostToolUse")
    \/ Moves({"think"}, "prompt", "Stop")
    \/ agent.does \in {"think", "prompt"} /\ Sends(agent, "Notification")
    \/ agent.does = "think" /\ agent.subs = 0 /\ Sends([agent EXCEPT !.subs = 1], "SubagentStart")
    \/ agent.subs = 1 /\ Sends([agent EXCEPT !.subs = 0], "SubagentStop")
    \* A turn without a subagent sends one too, behind its Stop.
    \/ agent.does = "prompt" /\ agent.subs = 0 /\ Sends(agent, "SubagentStop")

\* The dialog appears on the pane.
Draw ==
    /\ agent.does = "ask" /\ ~ agent.drawn
    /\ agent' = [agent EXCEPT !.drawn = TRUE]
    /\ UNCHANGED <<flight, done, sent, copies, sig, unread, row, cache, boots, ordered, looked>>
-----------------------------------------------------------------------------
(* SessionActivityTracker.                                                 *)

\* Mutation: a late tool result is a heartbeat.
CloserBeats(s, kind) ==
    IF kind = "SubagentStop" THEN [s EXCEPT !.depth = IF @ > 0 THEN @ - 1 ELSE @]
    ELSE [s EXCEPT !.hb = TRUE]

\* What PostToolUse and SubagentStop may move.
Closer(s, kind) ==
    IF kind = "SubagentStop" THEN [s EXCEPT !.depth = IF @ > 0 THEN @ - 1 ELSE @]
    ELSE IF s.turn \/ ~ s.stopped THEN [s EXCEPT !.hb = TRUE]
    ELSE s

\* What asks for the user is over.
Answered(s) == [s EXCEPT !.perm = "no", !.notice = FALSE]

\* record_event().
Recorded(old, kind) ==
    LET s == [old EXCEPT !.seen = TRUE] IN
    CASE kind = "PermissionRequest" -> [s EXCEPT !.perm = IF @ = "no" THEN "new" ELSE @]
      [] kind = "Notification" -> [s EXCEPT !.notice = TRUE]
      [] kind = "UserPromptSubmit" -> [Answered(s) EXCEPT !.turn = TRUE]
      [] kind = "PreToolUse" -> [Answered(s) EXCEPT !.turn = TRUE, !.hb = TRUE]
      [] kind = "SubagentStart" -> [s EXCEPT !.depth = @ + 1, !.turn = TRUE, !.hb = TRUE]
      [] kind \in {"PostToolUse", "SubagentStop"} -> Closer(s, kind)
      [] kind = "Stop" -> [Answered(s) EXCEPT !.depth = 0, !.hb = FALSE, !.turn = FALSE,
                                              !.stopped = TRUE]

\* derive_read_state().
ReadState(state, flag) ==
    IF state \in {"idle", "finished_unread"}
    THEN IF flag THEN "finished_unread" ELSE "idle"
    ELSE state

\* resolve(): `live' says that tmux has answered.
Resolved(s, live, flag) ==
    CASE ~ s.seen -> "unknown"
      [] s.seen /\ s.perm # "no" -> "question"
      [] s.seen /\ s.perm = "no" /\ s.notice -> "notice"
      [] s.seen /\ s.perm = "no" /\ ~ s.notice /\ s.hb ->
            IF s.depth > 0 THEN "working_subagent" ELSE "working"
      [] OTHER -> IF live \/ flag THEN ReadState("idle", flag) ELSE "unknown"

\* Mutation: a row is trusted however old it is.
RestoredAlways == row.state

\* _restored_activity_state(): what the row still says.
Restored == IF row.state \in PERISHABLE /\ ~ row.fresh THEN None ELSE row.state

\* The dot that _session_info_for() gives a live session.
Dot ==
    IF ~ sig.seen /\ Restored # None THEN ReadState(Restored, unread)
    ELSE Resolved(sig, TRUE, unread)

\* _persist_activity_state(): a state that only tmux could tell is not written, a write
\* may fail, and the cache of the listing is not told.
HookWrites(s) ==
    LET state == Resolved(s, FALSE, FALSE) IN
    \/ state # "unknown" /\ row' = [state |-> state, fresh |-> TRUE]
    \/ UNCHANGED row

\* _persist_settled_activity_state(), of what the listing has resolved.
ListingWrites(state) ==
    \/ /\ state # "unknown" /\ cache # state
       /\ row' = [state |-> state, fresh |-> TRUE] /\ cache' = state
    \/ UNCHANGED <<row, cache>>

\* record_hook_event().
Record(kind) ==
    /\ sig' = Recorded(sig, kind)
    /\ unread' = (unread \/ kind = "Stop")
    /\ HookWrites(sig')
    /\ done' = done \cup {kind}
    /\ UNCHANGED <<agent, sent, cache, boots, looked>>

\* Any hook in flight is the next one the server applies.
Apply(i) ==
    /\ i <= Len(flight) /\ Record(flight[i])
    /\ flight' = RemoveAt(flight, i)
    /\ ordered' = (ordered /\ i = 1)
    /\ UNCHANGED copies

\* And one that was applied may come again.
Repeat(kind) ==
    /\ kind \in done /\ copies < MaxCopies /\ copies' = copies + 1
    /\ Record(kind) /\ ordered' = FALSE
    /\ UNCHANGED flight
-----------------------------------------------------------------------------
(* The user, and the listing that every open page polls.                   *)

\* clear_view_state(), when a terminal opens or the user marks the session read.
View ==
    /\ sig' = Answered(sig) /\ unread' = FALSE /\ looked' = TRUE
    /\ UNCHANGED <<agent, flight, done, sent, copies, row, cache, boots, ordered>>

\* set_manual_unread().
MarkUnread ==
    /\ unread' = TRUE
    /\ UNCHANGED <<agent, flight, done, sent, copies, sig, row, cache, boots, ordered, looked>>

\* Mutation: the pane is not given time to draw the dialog.
CheckableAtOnce == sig.perm # "no"

\* should_capture_permission_tail().
Checkable == sig.perm = "old"

\* _session_info_for() of a live session; `read' says that the tail of its pane
\* could be captured.
List(read) ==
    /\ sig' = IF Checkable /\ read /\ ~ agent.drawn THEN [sig EXCEPT !.perm = "no"] ELSE sig
    /\ IF sig.seen THEN ListingWrites(ReadState(Resolved(sig', TRUE, unread), FALSE))
       ELSE UNCHANGED <<row, cache>>
    /\ UNCHANGED <<agent, flight, done, sent, copies, unread, boots, ordered, looked>>
-----------------------------------------------------------------------------
(* Time, and restarts.                                                     *)

\* 120 seconds without a tool event.
HeartbeatExpires ==
    /\ sig.hb /\ sig' = [sig EXCEPT !.hb = FALSE]
    /\ UNCHANGED <<agent, flight, done, sent, copies, unread, row, cache, boots, ordered, looked>>

\* 20 seconds of an open permission; the pane draws its dialog within them.
GracePasses ==
    /\ sig.perm = "new" /\ ~ (agent.does = "ask" /\ ~ agent.drawn)
    /\ sig' = [sig EXCEPT !.perm = "old"]
    /\ UNCHANGED <<agent, flight, done, sent, copies, unread, row, cache, boots, ordered, looked>>

\* STALE_AFTER, which only what is perishable has.
RowExpires ==
    /\ row.fresh /\ row.state \in PERISHABLE /\ row' = [row EXCEPT !.fresh = FALSE]
    /\ UNCHANGED <<agent, flight, done, sent, copies, sig, unread, cache, boots, ordered, looked>>

Restart ==
    /\ boots < MaxBoots /\ boots' = boots + 1
    /\ sig' = Silent /\ cache' = None
    /\ UNCHANGED <<agent, flight, done, sent, copies, unread, row, ordered, looked>>

Next ==
    \/ Agent \/ Draw \/ (\E i \in 1..MaxHooks : Apply(i)) \/ (\E kind \in KNOWN_EVENTS : Repeat(kind))
    \/ View \/ MarkUnread
    \/ (\E read \in BOOLEAN : List(read))
    \/ HeartbeatExpires \/ GracePasses \/ RowExpires \/ Restart

Spec == Init /\ [][Next]_vars

\* Time passes, and somebody has the session list open while tmux answers.
Fairness ==
    /\ WF_vars(HeartbeatExpires) /\ WF_vars(GracePasses) /\ WF_vars(RowExpires)
    /\ WF_vars(List(TRUE))

FairSpec == Spec /\ Fairness
-----------------------------------------------------------------------------
TypeOK ==
    /\ agent \in [does : {"prompt", "think", "ask", "tool"}, drawn : BOOLEAN, subs : {0, 1}]
    /\ flight \in Seq(KNOWN_EVENTS) /\ Len(flight) <= MaxHooks /\ done \subseteq KNOWN_EVENTS
    /\ sent \in 0..MaxHooks /\ copies \in 0..MaxCopies
    /\ sig \in [seen : BOOLEAN, perm : {"no", "new", "old"}, notice : BOOLEAN,
                hb : BOOLEAN, depth : Nat, turn : BOOLEAN, stopped : BOOLEAN]
    /\ unread \in BOOLEAN
    /\ row \in [state : BaseState \cup {None}, fresh : BOOLEAN]
    /\ cache \in BaseState \cup {None} /\ boots \in 0..MaxBoots
    /\ ordered \in BOOLEAN /\ looked \in BOOLEAN

\* Every hook was applied once and in order, by one process.
AllIn == ordered /\ boots = 0 /\ flight = <<>>

\* Then the dot is right: an agent that asks and was not looked at shows a question
\* and no other does, one at its prompt shows no work, and subagents are shown only
\* while they run (record_event() and resolve() together).
OrderedDotIsRight ==
    AllIn =>
        /\ agent.does = "ask" /\ ~ looked => Dot = "question"
        /\ Dot = "question" => agent.does = "ask"
        /\ agent.does = "prompt" => Dot \notin Working
        /\ Dot = "working_subagent" => agent.subs = 1

\* In any order of hooks: once a Stop was applied, no closing event makes the session
\* work again ("a closing event is not a heartbeat").
RestHolds == sig.stopped /\ ~ sig.turn => Dot \notin Working

\* Whatever was lost, repeated, reordered or restarted: an agent that stays at its
\* prompt does not show work or a question for good ("a flag that no reachable event
\* can retire is not a claim").
DotSettles == <>[](agent.does = "prompt") => <>[](Dot \notin Working \cup {"question"})
=============================================================================
