-------------------------------- MODULE Toasts --------------------------------
(***************************************************************************)
(* The toasts of one session, as the server keeps them: the hooks that     *)
(* raise and answer them and the dismissals of the user                    *)
(* (src/api/routes.py, src/core/toast_auto_ack.py, the toast methods of    *)
(* session_manager.py).  ToastPages adds the pages that show them.         *)
(*                                                                         *)
(* A hook is a POST that awaits its body and then, between acknowledging   *)
(* and raising, the sockets it broadcasts on, so hooks overtake each other.*)
(***************************************************************************)
EXTENDS Integers, FiniteSets

CONSTANTS Handler,   \* hook POSTs in flight at once
          AckedCap,  \* _TOAST_ACKED_CAP
          MaxHooks   \* bound: hooks the agent sends

ASSUME BoundsAssumption == AckedCap \in Nat /\ MaxHooks \in Nat

VARIABLES toasts,  \* _pending_toasts[session_id]
          live,    \* the session is one the manager knows
          clock,   \* the last created_at of a toast
          come,    \* how many hooks have come
          hook     \* the POSTs being handled

vars == <<toasts, live, clock, come, hook>>

TOAST_EVENTS == {"Stop", "PermissionRequest", "Notification"}
Kinds == TOAST_EVENTS \cup {"UserPromptSubmit", "PreToolUse"}

Ids(ts) == {t.id : t \in ts}
OpenToasts(ts) == {t \in ts : t.ack = "open"}

NoHook == [phase |-> "idle", kind |-> "Stop", received |-> 0]

Init ==
    /\ toasts = {} /\ live = TRUE /\ clock = 0
    /\ come = 0 /\ hook = [h \in Handler |-> NoHook]
-----------------------------------------------------------------------------
(* The records.                                                            *)

AUTO_ACK_KINDS(kind) ==
    CASE kind = "UserPromptSubmit" -> TOAST_EVENTS
      [] kind = "PreToolUse" -> {"PermissionRequest"}
      [] kind = "Stop" -> {"PermissionRequest", "Notification"}
      [] OTHER -> {}

\* Mutation: the cutoff is the moment of the acknowledgement.
AnswersAll(post, t) == t.ack = "open" /\ t.kind \in AUTO_ACK_KINDS(post.kind)

\* resolve_auto_acks().
Answers(post, t) ==
    t.ack = "open" /\ t.kind \in AUTO_ACK_KINDS(post.kind) /\ t.at <= post.received

\* Mutation: the cap counts open toasts too.
PrunedAll(ts) == {t \in ts : Cardinality({u \in ts : u.at > t.at}) < AckedCap}

\* _prune_toasts(): of the acknowledged, the newest AckedCap.
Pruned(ts) ==
    {t \in ts : \/ t.ack = "open"
                \/ Cardinality({u \in ts : u.ack # "open" /\ u.at > t.at}) < AckedCap}

\* Mutation: an acknowledged toast is acknowledged again.
AckedAgain(ids, reason) ==
    Pruned({IF t.id \in ids THEN [t EXCEPT !.ack = reason] ELSE t : t \in toasts})

\* ack_toast(), of each of the ids.
Acked(ids, reason) ==
    Pruned({IF t.id \in ids /\ t.ack = "open" THEN [t EXCEPT !.ack = reason] ELSE t : t \in toasts})

\* Mutation: a second open "your turn" is kept.
UnsupersededOnly(kind) == {}

\* _find_supersedable_toast().
Supersedable(kind) == {t \in OpenToasts(toasts) : kind = "Stop" /\ t.kind = "Stop"}

\* record_toast(): the toast it raises; one that is superseded lends its id.
NewToast(post) ==
    [id |-> IF Supersedable(post.kind) = {} THEN clock + 1
            ELSE CHOOSE i \in Ids(Supersedable(post.kind)) : TRUE,
     at |-> clock + 1, kind |-> post.kind, ack |-> "open"]
-----------------------------------------------------------------------------
(* claude_event_hook().                                                    *)

\* A POST arrives, in any order and perhaps again.  Its instant is taken before its
\* body is awaited.
Receive(h, kind) ==
    /\ hook[h].phase = "idle"
    /\ come < MaxHooks /\ come' = come + 1
    /\ hook' = [hook EXCEPT ![h] = [phase |-> "body", kind |-> kind, received |-> clock]]
    /\ UNCHANGED <<toasts, live, clock>>

\* The body is there: what the hook answers is acknowledged.  A Stop or a notification
\* is not said while subagents run (`quiet').
Apply(h, quiet) ==
    /\ hook[h].phase = "body"
    /\ quiet => hook[h].kind \in {"Stop", "Notification"}
    /\ toasts' = Acked(Ids({t \in toasts : Answers(hook[h], t)}), "answered")
    /\ hook' = [hook EXCEPT ![h] =
                  IF hook[h].kind \in TOAST_EVENTS /\ ~ quiet
                  THEN [hook[h] EXCEPT !.phase = "toast"] ELSE NoHook]
    /\ UNCHANGED <<live, clock, come>>

\* record_toast(), or 410 when the session is gone.
RaiseToast(h) ==
    /\ hook[h].phase = "toast" /\ hook' = [hook EXCEPT ![h] = NoHook]
    /\ IF live
       THEN /\ toasts' = Pruned((toasts \ Supersedable(hook[h].kind)) \cup {NewToast(hook[h])})
            /\ clock' = clock + 1
       ELSE UNCHANGED <<toasts, clock>>
    /\ UNCHANGED <<live, come>>

\* The route ack_toast(): a page says that its user has dismissed a toast.
Ack(i) ==
    /\ toasts' = Acked({i}, "dismissed")
    /\ UNCHANGED <<live, clock, come, hook>>

\* _wipe_session_state(): the session ends, and its toasts with it.
Wipe ==
    /\ live /\ live' = FALSE /\ toasts' = {}
    /\ UNCHANGED <<clock, come, hook>>

Handle(h) == RaiseToast(h) \/ \E quiet \in BOOLEAN : Apply(h, quiet)

Next ==
    \/ \E h \in Handler :
          Handle(h) \/ \E kind \in Kinds : Receive(h, kind)
    \/ \E i \in 1..clock : Ack(i)
    \/ Wipe

Spec == Init /\ [][Next]_vars
-----------------------------------------------------------------------------
(* Properties.                                                             *)

Toast == [id : Nat, at : Nat, kind : TOAST_EVENTS, ack : {"open", "answered", "dismissed"}]

\* The records and the handlers hold what the code can put there.
TypeOK ==
    /\ toasts \subseteq Toast /\ live \in BOOLEAN /\ clock \in Nat /\ come \in 0..MaxHooks
    /\ hook \in [Handler -> [phase : {"idle", "body", "toast"}, kind : Kinds, received : Nat]]

\* However Stops overlap, repeat and are suppressed, one "your turn" stands at most,
\* and no id stands for two toasts (record_toast()).
OneYourTurn ==
    /\ \A t, u \in OpenToasts(toasts) : t.kind = "Stop" /\ u.kind = "Stop" => t = u
    /\ \A t, u \in toasts : t.id = u.id => t = u

\* While its session lives, an open toast stays open until a dismissal of it arrives, a
\* newer "your turn" takes its place, or a hook that arrived after it was raised answers
\* its kind: the cap never drops it, and no overtaken handler acknowledges it ("a record
\* newer than that instant is never touched").
NoToastIsLost ==
    [][live' => \A t \in OpenToasts(toasts) :
          \/ t \in toasts'
          \/ t.kind = "Stop" /\ \E u \in OpenToasts(toasts') : u.kind = "Stop" /\ u.at > t.at
          \/ Ack(t.id)
          \/ \E h \in Handler : /\ hook[h].phase = "body" /\ hook'[h].phase # "body"
                                /\ hook[h].received >= t.at
                                /\ t.kind \in AUTO_ACK_KINDS(hook[h].kind)]_vars

\* Why a toast was acknowledged is never rewritten: a click that lands on a toast a hook
\* has answered, or a hook behind a click, changes nothing ("the reason is stamped only
\* on the transition").
ReasonStands ==
    [][\A t \in toasts, u \in toasts' : t.id = u.id /\ t.ack # "open" => u.ack = t.ack]_vars
=============================================================================
