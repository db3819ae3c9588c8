----------------------------- MODULE Notifications -----------------------------
(***************************************************************************)
(* From an event to the user's phone: the bounded queue, the limiter and   *)
(* the worker of the notification router, behind the watcher of a session  *)
(* and its hooks (src/core/notifications/router.py, rate_limit.py,         *)
(* record_toast() of session_manager.py).                                  *)
(***************************************************************************)
EXTENDS IdleWatcher, FiniteSets

CONSTANTS QueueMax,   \* _QUEUE_MAXSIZE
          Cap, Window, Cooldown,  \* the limiter's settings
          MaxToasts,  \* bound: toasts raised
          NoEvent     \* nothing is being dispatched

ASSUME RouterAssumption ==
    /\ QueueMax \in Nat \ {0} /\ Cap \in Nat \ {0}
    /\ Window \in Nat /\ Cooldown \in Nat /\ MaxToasts \in Nat

VARIABLES queue,   \* _queue
          worker,  \* the event whose dispatch is awaited, or NoEvent
          running, \* the task of the worker has not ended
          stopped, \* _stopped
          times,   \* _emit_times, oldest first
          lastBy,  \* _last_by_kind
          toasts,  \* toasts raised so far
          log      \* every dispatch and its instant, in order (history)

limiter == <<times, lastBy, log>>
router == <<queue, worker, running, stopped, limiter, toasts>>
routerVars == <<now, out, pend, watcher, router>>

EventType == {"PERMISSION_PROMPT", "TASK_COMPLETE", "CLAUDE_STOP"}

ASSUME NoEventAssumption == NoEvent \notin EventType

\* start(): the worker, and seed_cold_start().
RouterInit ==
    /\ WatcherInit
    /\ queue = <<>> /\ worker = NoEvent /\ running = TRUE /\ stopped = FALSE
    /\ times = <<>> /\ lastBy = [k \in EventType |-> 0] /\ toasts = 0 /\ log = <<>>
-----------------------------------------------------------------------------
(* The queue.                                                              *)

\* emit(): into the queue, in place of its oldest event when it is full, unless stopped.
Emit(kinds) ==
    IF kinds = {} \/ stopped THEN UNCHANGED queue
    ELSE \E k \in kinds : queue' = Append(IF Len(queue) < QueueMax THEN queue ELSE Tail(queue), k)

Watch ==
    /\ \E emitted \in SUBSET EventType :
          (PollOnce(emitted) \/ \E c \in Client : Feed(c, emitted)) /\ Emit(emitted)
    /\ UNCHANGED <<worker, running, stopped, limiter, toasts>>

\* record_toast() of a Stop.
Toast ==
    /\ toasts < MaxToasts /\ toasts' = toasts + 1
    /\ Emit({"CLAUDE_STOP"})
    /\ UNCHANGED <<now, out, pend, watcher, worker, running, stopped, limiter>>
-----------------------------------------------------------------------------
(* The worker.                                                             *)

\* Mutation: an entry that has just left the window still counts for a second.
InWindowLong(at) == at >= now - Window - 1

InWindow(at) == at >= now - Window

\* check() pops the oldest for as long as it is older than the window.
Kept ==
    LET popped == {i \in 1..Len(times) : \A j \in 1..i : ~ InWindow(times[j])}
    IN  SubSeq(times, Cardinality(popped) + 1, Len(times))

\* check(): the cooldown of the kind, then the cap.
Allows(kind) == now - lastBy[kind] >= Cooldown /\ Len(Kept) < Cap

\* Mutation: a refused event starts its cooldown again.
ChargedAlways(kind, allowed) == [lastBy EXCEPT ![kind] = now]

\* What check() notes of an event.
Charged(kind, allowed) == IF allowed THEN [lastBy EXCEPT ![kind] = now] ELSE lastBy

\* The worker takes the next event and asks the limiter; a kind in its cooldown is
\* refused before anything is popped.
Judge ==
    /\ running /\ worker = NoEvent /\ queue # <<>>
    /\ queue' = Tail(queue)
    /\ LET kind == Head(queue) IN
       /\ lastBy' = Charged(kind, Allows(kind))
       /\ times' = IF now - lastBy[kind] < Cooldown THEN times
                   ELSE IF Allows(kind) THEN Append(Kept, now) ELSE Kept
       /\ worker' = IF Allows(kind) THEN kind ELSE NoEvent
       /\ log' = IF Allows(kind) THEN Append(log, [kind |-> kind, at |-> now]) ELSE log
    /\ UNCHANGED <<now, out, pend, watcher, running, stopped, toasts>>

\* Mutation: a failed send ends the worker.
GoesOnIfSent(sent) == sent

\* Every exception of a channel is caught.
GoesOn(sent) == TRUE

\* The channels have answered, or failed.
Dispatched(sent) ==
    /\ running /\ worker # NoEvent /\ worker' = NoEvent
    /\ running' = GoesOn(sent)
    /\ UNCHANGED <<now, out, pend, watcher, queue, stopped, limiter, toasts>>

\* stop(): what is queued or under way is abandoned.
Stop ==
    /\ ~ stopped /\ stopped' = TRUE /\ running' = FALSE /\ worker' = NoEvent
    /\ UNCHANGED <<now, out, pend, watcher, queue, limiter, toasts>>

World ==
    /\ \/ \E c \in Client : Attach(c) \/ Leave(c)
       \/ \E chunk \in Chunk : Output(chunk)
       \/ Tick
    /\ UNCHANGED router

Worker == Judge \/ \E sent \in BOOLEAN : Dispatched(sent)

RouterNext == World \/ Watch \/ Toast \/ Worker \/ Stop

RouterSpec == RouterInit /\ [][RouterNext]_routerVars

\* The event loop resumes the worker, and every channel answers or times out.
FairRouter == RouterSpec /\ WF_routerVars(Worker)
-----------------------------------------------------------------------------
(* Properties.                                                             *)

RouterTypeOK ==
    /\ now \in Nat /\ DOMAIN pend \subseteq Client /\ \A c \in DOMAIN pend : pend[c] \in Seq(Chunk)
    /\ tail \in Seq(Chunk) /\ Len(tail) <= TailMax
    /\ state \in {"thinking", "interrupted", "waiting_permission", "tool_running", "idle"}
    /\ last \in 0..now /\ fed \in Feeds \cup {<<>>} /\ told \in [Feeds -> Nat]
    /\ queue \in Seq(EventType) /\ Len(queue) <= QueueMax
    /\ worker \in EventType \cup {NoEvent} /\ running \in BOOLEAN /\ stopped \in BOOLEAN
    /\ times \in Seq(0..now) /\ Len(times) <= Cap
    /\ lastBy \in [EventType -> 0..now] /\ log \in Seq([kind : EventType, at : 0..now])

\* The limiter lets an event through exactly when the log of what it let through says it
\* may: none of its kind for Cooldown seconds, the start counting for one of each, and
\* fewer than Cap in the last Window seconds (RateLimiter.check()).
LimiterIsExact ==
    [][Judge =>
        (worker' # NoEvent <=>
           /\ now >= Cooldown
           /\ \A i \in DOMAIN log : log[i].kind = Head(queue) => now - log[i].at >= Cooldown
           /\ Cardinality({i \in DOMAIN log : now - log[i].at <= Window}) < Cap)]_routerVars

\* Whatever a channel does, what is queued is judged: the queue empties for as long as
\* the router is not stopped (router.py, _run()).
QueueDrains == (queue # <<>> /\ ~ stopped) ~> (queue = <<>> \/ stopped)
=============================================================================
