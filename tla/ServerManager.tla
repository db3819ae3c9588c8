----------------------------- MODULE ServerManager -----------------------------
(***************************************************************************)
(* The macOS application and the server it starts, adopts, watches, stops  *)
(* and quits with (macOS/server-manager.js, process-teardown.js,           *)
(* quit-sequence.js, ownership-policy.js, adoption-decision.js and the     *)
(* handlers of main.js).                                                   *)
(*                                                                         *)
(* One event loop runs several flows: what a click, the restart timer or   *)
(* the quit started.  A flow gives way at each await, and what the kernel  *)
(* told it before may be old when it goes on.                              *)
(***************************************************************************)
EXTENDS SupervisorPolicy

CONSTANTS Child,      \* the processes the application may spawn
          Other,      \* a server that somebody else starts
          Click,      \* flows of the menu
          Resists,    \* the processes that SIGKILL leaves alive, or that are not ours to kill
          MaxClicks,  \* bound: clicks on the menu
          None

ASSUME ProcessAssumption == Other \notin Child /\ None \notin Child \cup {Other}
ASSUME FlowAssumption ==
    /\ Click \cap {"timer", "quit"} = {} /\ Resists \subseteq Child \cup {Other}
    /\ MaxClicks \in Nat

VARIABLES life,     \* what the kernel knows of each process
          version,  \* of Other: none that runs, the one of this bundle, or an old one
          exits,    \* the children whose exit event is not delivered yet
          child,    \* process
          pid,      \* processPid
          owned,    \* ownedProcess
          state, stopRequested,
          blocked,  \* startBlockedReason is set
          timer,    \* supervisorTimer is set
          quitting,
          sup,      \* supervisor
          phase,    \* of the quit sequence
          flow,     \* where each flow waits
          poll,     \* where the stats poll waits
          clicks,   \* clicks so far
          spree,    \* automatic restarts since the last healthy window (history)
          leaving   \* the server the application owned when it began to quit (history)

kernel == <<life, version>>
app == <<child, pid, owned, stopRequested, blocked>>
history == <<spree, leaving>>
apart == <<version, quitting, phase, poll, clicks>>  \* what no flow touches
vars == <<kernel, exits, app, state, timer, quitting, sup, phase, flow, poll, clicks, history>>

Pid == Child \cup {Other}
Flow == Click \cup {"timer", "quit"}
Idle == [pc |-> "idle", act |-> "none", pid |-> None, seen |-> "none", consent |-> FALSE]

NoPoll == [pc |-> "off", state |-> "stopped", healthy |-> FALSE]

Alive(p) == p # None /\ life[p] \in {"booting", "serving"}

\* The application is launched: its first start is under way.
Init ==
    /\ version \in {"none", "same", "old"}
    /\ life = [p \in Pid |-> IF p = Other /\ version # "none" THEN "serving" ELSE "unborn"]
    /\ exits = {} /\ child = None /\ pid = None /\ owned = FALSE /\ state = "stopped"
    /\ stopRequested = FALSE /\ blocked = FALSE /\ timer = FALSE /\ quitting = FALSE
    /\ sup = Fresh /\ phase = "idle"
    /\ flow = [f \in Flow |-> IF f \in Click THEN [Idle EXCEPT !.pc = "probe", !.act = "start"] ELSE Idle]
    /\ poll = [pc |-> "armed", state |-> "stopped", healthy |-> FALSE]
    /\ clicks = 0 /\ spree = 0 /\ leaving = None
-----------------------------------------------------------------------------
(* The kernel.                                                             *)

\* At most one process listens on the port.
Held == \E p \in Pid : life[p] = "serving"

\* What the holder answers to a health probe, or nothing: it is late, or no server of
\* this program.
Answers ==
    {"none"} \cup {IF p = Other THEN version ELSE "same" : p \in {p \in Pid : life[p] = "serving"}}

\* findPortHolderPid(): lsof may say nothing.
Holders == {None} \cup {p \in Pid : life[p] = "serving"}

\* A child binds the port and prints that it is ready, which the application reads.
Serve(c) ==
    /\ ~ Held /\ life[c] = "booting" /\ life' = [life EXCEPT ![c] = "serving"]
    /\ state' = "running"
    /\ UNCHANGED <<version, exits, app, timer, quitting, sup, phase, flow, poll, clicks, history>>

Ended(p) ==
    /\ life' = [life EXCEPT ![p] = "dead"]
    /\ exits' = exits \cup ({p} \cap Child)

\* A process ends: a crash, a port that is taken, a signal it obeys.
Die(p) ==
    /\ Alive(p) /\ Ended(p)
    /\ UNCHANGED <<version, app, state, timer, quitting, sup, phase, flow, poll, clicks, history>>
-----------------------------------------------------------------------------
(* What several handlers do.                                               *)

\* superviseDown(): a restart is scheduled in place of one that was.
SuperviseDown(expected) ==
    /\ sup' = Down(sup, expected \/ quitting)
    /\ timer' = (timer \/ Restarts(sup, expected \/ quitting))
    /\ UNCHANGED history

NotSupervised == UNCHANGED <<sup, timer, history>>

Goto(f, pc, act, p, seen, consent) ==
    flow' = [flow EXCEPT ![f] = [pc |-> pc, act |-> act, pid |-> p, seen |-> seen, consent |-> consent]]

\* The operation of a flow is over.  Only the restart timer tells the supervisor how it
\* went, and only a start that was clicked, or the one at launch, offers to replace the
\* server in its way.
Finish(f, outcome) ==
    /\ flow' = [flow EXCEPT ![f] =
          IF f \in Click /\ @.act = "start" /\ outcome = "refused"
          THEN [Idle EXCEPT !.pc = "replace"] ELSE Idle]
    /\ CASE f = "timer" /\ outcome = "ok" -> sup' = Up(sup) /\ UNCHANGED <<timer, history>>
         [] f = "timer" /\ outcome # "ok" -> SuperviseDown(FALSE)
         [] OTHER -> NotSupervised

\* start(), up to its first await.
EnterStart(f, act) ==
    IF child # None
    THEN Finish(f, "ok")
    ELSE Goto(f, "probe", act, None, "none", FALSE) /\ NotSupervised

\* The pid that a stop goes for.
Target == IF pid # None THEN pid ELSE child

\* stop() and restart(), when they are permitted, up to the first await.
EnterStop(f, act, consent) ==
    /\ stopRequested' = TRUE
    /\ Goto(f, IF Target = None THEN "settle" ELSE "term", act, Target, "none", consent)
    /\ UNCHANGED <<child, pid, owned, blocked, state>>

\* A refusal: the state is what the kernel says of a pid that is known.
Refused ==
    /\ state' = CASE pid = None -> state
                  [] Alive(pid) -> "running"
                  [] OTHER -> "stopped"
    /\ UNCHANGED app

\* decideLifecycleAction().
Permitted(consent) == owned \/ consent
-----------------------------------------------------------------------------
(* start().                                                                *)

Spawned(c) ==
    /\ life[c] = "unborn" /\ life' = [life EXCEPT ![c] = "booting"]
    /\ child' = c /\ pid' = c /\ owned' = TRUE /\ state' = "starting"

\* The `error' event: it comes before anything else does.
NotSpawned ==
    /\ child' = None /\ pid' = None /\ owned' = FALSE /\ state' = "stopped"
    /\ UNCHANGED life

\* The setup or the configuration fails, or the port is taken, or a child is spawned.
Probe(f) ==
    /\ flow[f].pc = "probe"
    /\ \/ /\ Finish(f, "failed") /\ state' = "stopped" /\ UNCHANGED <<life, exits, app>>
       \/ /\ Held /\ Goto(f, "ask", flow[f].act, None, "none", FALSE)
          /\ UNCHANGED <<life, exits, app, state>> /\ NotSupervised
       \/ /\ ~ Held /\ (NotSpawned \/ \E c \in Child : Spawned(c))
          /\ stopRequested' = FALSE /\ blocked' = FALSE
          /\ UNCHANGED exits /\ Finish(f, "ok")
    /\ UNCHANGED apart

\* getHealth() of the holder.
Ask(f) ==
    /\ flow[f].pc = "ask"
    /\ \E a \in Answers :
         IF a = "none"
         THEN Finish(f, "failed") /\ state' = "stopped"
         ELSE Goto(f, "holder", flow[f].act, None, a, FALSE) /\ NotSupervised /\ UNCHANGED state
    /\ UNCHANGED <<kernel, exits, app, quitting, phase, poll, clicks>>

\* Mutation: an adopted server counts as ours.
OwnedByAdoptionTrue == TRUE

OwnedByAdoption == FALSE

\* The pid is known, or not: the server is adopted when its version is this one.
Holder(f) ==
    /\ flow[f].pc = "holder"
    /\ \/ /\ flow[f].seen = "same" /\ Finish(f, "ok")
          /\ state' = "running" /\ owned' = OwnedByAdoption /\ blocked' = FALSE
          /\ \E p \in Holders : pid' = IF p = None THEN pid ELSE p
       \/ /\ flow[f].seen # "same" /\ Finish(f, "refused")
          /\ state' = "stopped" /\ blocked' = TRUE /\ UNCHANGED <<owned, pid>>
    /\ UNCHANGED <<kernel, exits, child, stopRequested, quitting, phase, poll, clicks>>
-----------------------------------------------------------------------------
(* stop(), restart() and takeOverPort().                                   *)

\* After terminateProcess(): a stop waits for the exit event, a takeover looks at
\* what it killed and then at the port.
AfterKill(f, gone) ==
    CASE flow[f].act # "takeover" ->
           Goto(f, "settle", flow[f].act, flow[f].pid, "none", flow[f].consent) /\ NotSupervised
      [] flow[f].act = "takeover" /\ gone ->
           Goto(f, "free", "takeover", None, "none", FALSE) /\ NotSupervised
      [] OTHER -> Finish(f, "failed")

\* Mutation: SIGTERM was sent, so the process counts as gone.
EscalatesNever(p) == FALSE

\* SIGKILL follows when the process is seen to be there.
Escalates(p) == Alive(p)

\* terminateProcess(): the process goes in the grace of SIGTERM, or SIGKILL has had its
\* time too.
Term(f) ==
    /\ flow[f].pc = "term"
    /\ LET p == flow[f].pid IN
       IF Escalates(p) /\ p \notin Resists
       THEN Ended(p) /\ AfterKill(f, TRUE)
       ELSE UNCHANGED <<life, exits>> /\ AfterKill(f, ~ Alive(p))
    /\ UNCHANGED <<app, state, apart>>

\* 500 ms later: what is left of the server is forgotten when its pid is gone.  A
\* restart goes on in either case.
Settle(f) ==
    /\ flow[f].pc = "settle"
    /\ IF Alive(flow[f].pid)
       THEN UNCHANGED <<child, pid, owned, state>>
       ELSE child' = None /\ pid' = None /\ owned' = FALSE /\ state' = "stopped"
    /\ IF flow[f].act = "restart"
       THEN Goto(f, "rest", "restart", None, "none", FALSE) /\ NotSupervised
       ELSE Finish(f, "ok")
    /\ UNCHANGED <<life, exits, stopRequested, blocked, apart>>

Rest(f) ==
    /\ flow[f].pc = "rest" /\ EnterStart(f, "restart")
    /\ UNCHANGED <<life, exits, app, state, apart>>

\* takeOverPort() looks for the holder.
Take(f) ==
    /\ flow[f].pc = "take"
    /\ \E p \in Holders :
         IF p = None THEN Finish(f, "failed")
         ELSE Goto(f, "term", "takeover", p, "none", TRUE) /\ NotSupervised
    /\ UNCHANGED <<life, exits, app, state, apart>>

\* waitForPortFree().
Free(f) ==
    /\ flow[f].pc = "free"
    /\ IF Held THEN Finish(f, "failed") /\ UNCHANGED blocked
       ELSE blocked' = FALSE /\ EnterStart(f, "takeover")
    /\ UNCHANGED <<life, exits, child, pid, owned, stopRequested, state, apart>>
-----------------------------------------------------------------------------
(* The user.                                                               *)

\* Start Server, which the menu offers while the state is `stopped': a fresh decision
\* clears the budget.
ClickStart(f) ==
    /\ state = "stopped"
    /\ timer' = FALSE /\ sup' = Fresh /\ spree' = 0 /\ UNCHANGED leaving
    /\ IF child = None THEN Goto(f, "probe", "start", None, "none", FALSE) ELSE UNCHANGED flow
    /\ UNCHANGED <<app, state>>

\* Stop Server and Restart Server, or the offer to take ownership.
ClickStop(f, act) ==
    /\ state \in IF act = "stop" THEN {"running", "starting"} ELSE {"running"}
    /\ IF Permitted(FALSE) THEN EnterStop(f, act, FALSE)
       ELSE Refused /\ Goto(f, "consent", act, None, "none", FALSE)
    /\ NotSupervised

ClickMenu(f) ==
    /\ f \in Click /\ flow[f].pc = "idle" /\ clicks < MaxClicks /\ clicks' = clicks + 1
    /\ ClickStart(f) \/ \E act \in {"stop", "restart"} : ClickStop(f, act)
    /\ UNCHANGED <<kernel, exits, quitting, phase, poll>>

\* The user answers a dialog: leave it alone, stop or restart it anyway, replace it.
Answer(f) ==
    /\ flow[f].pc \in {"consent", "replace"}
    /\ \/ /\ flow' = [flow EXCEPT ![f] = Idle] /\ UNCHANGED <<app, state>>
       \/ /\ flow[f].pc = "consent" /\ (flow[f].act = "stop" \/ owned)
          /\ EnterStop(f, flow[f].act, TRUE)
       \/ /\ flow[f].pc = "replace" \/ (flow[f].act = "restart" /\ ~ owned)
          /\ Goto(f, "take", "takeover", None, "none", TRUE) /\ UNCHANGED <<app, state>>
    /\ NotSupervised /\ UNCHANGED <<life, exits, apart>>
-----------------------------------------------------------------------------
(* Events, the timer and the poll.                                         *)

\* The exit event of a child, whichever child the application holds by now.
Deliver(c) ==
    /\ c \in exits /\ exits' = exits \ {c}
    /\ child' = None /\ pid' = None /\ owned' = FALSE /\ state' = "stopped"
    /\ stopRequested' = FALSE /\ SuperviseDown(stopRequested)
    /\ UNCHANGED <<kernel, blocked, quitting, phase, flow, poll, clicks>>

\* The restart timer fires.
Fire ==
    /\ timer /\ flow["timer"].pc = "idle" /\ timer' = FALSE /\ spree' = spree + 1
    /\ IF child # None THEN sup' = Up(sup) /\ UNCHANGED flow
       ELSE Goto("timer", "probe", "start", None, "none", FALSE) /\ UNCHANGED sup
    /\ UNCHANGED <<kernel, exits, app, state, quitting, phase, poll, clicks, leaving>>

\* isProcessRunning() drops a pid that is gone.
Dropped == IF Alive(Target) THEN pid ELSE None

\* Mutation: a server that was adopted is not polled.
PolledOwned == child # None

\* Whether the poll asks at all.
Polled == state # "stopped" \/ Alive(Target)

\* poll() reads the state and asks; what getHealth() is told may be old when it returns.
PollAsk ==
    /\ poll.pc = "armed"
    /\ pid' = (IF state = "stopped" THEN Dropped ELSE pid)
    /\ IF Polled THEN \E a \in Answers : poll' = [pc |-> "asked", state |-> state, healthy |-> a # "none"]
       ELSE poll' = poll
    /\ UNCHANGED <<kernel, exits, child, owned, stopRequested, blocked, state, timer, quitting, sup,
                   phase, flow, clicks, history>>

\* superviseTick(), and the state as the poll believes it.
PollReturn ==
    /\ poll.pc = "asked" /\ poll' = [pc |-> "armed", state |-> "stopped", healthy |-> FALSE]
    /\ LET doubted == ~ poll.healthy /\ state = "running" /\ ~ blocked
           now == IF doubted THEN "stopped" ELSE state IN
       /\ CASE doubted -> SuperviseDown(FALSE)
            [] poll.healthy -> sup' = StillUp(sup) /\ UNCHANGED <<timer, history>>
            [] OTHER -> NotSupervised
       /\ state' = CASE poll.healthy -> IF poll.state # "running" THEN "running" ELSE now
                     [] ~ poll.healthy /\ Alive(Target) -> IF poll.state # "starting" THEN "starting" ELSE now
                     [] OTHER -> IF poll.state # "stopped" THEN "stopped" ELSE now
    /\ pid' = IF poll.healthy THEN pid ELSE Dropped
    /\ UNCHANGED <<kernel, exits, child, owned, stopRequested, blocked, quitting, phase, flow, clicks>>

\* Time, as upSince counts it.  A restart that is scheduled comes before the window is
\* over (DEFAULT_DELAYS_MS against DEFAULT_HEALTHY_RESET_MS).
Tick ==
    /\ sup.up \in 0..(Window - 1) /\ (timer => sup.up + 1 < Window)
    /\ sup' = Aged(sup) /\ spree' = IF sup.up + 1 = Window THEN 0 ELSE spree
    /\ UNCHANGED <<kernel, exits, app, state, timer, quitting, phase, flow, poll, clicks, leaving>>
-----------------------------------------------------------------------------
(* Quit.                                                                   *)

\* The first quit is deferred: beginQuit(), the timers, then stop().  What a poll in
\* flight could still change is what the application believes, and is left out.
Quit ==
    /\ phase = "idle" /\ phase' = "running"
    /\ quitting' = TRUE /\ timer' = FALSE /\ poll' = NoPoll
    /\ leaving' = IF owned THEN Target ELSE None
    /\ IF Permitted(FALSE) THEN EnterStop("quit", "stop", FALSE)
       ELSE Refused /\ UNCHANGED flow
    /\ UNCHANGED <<kernel, exits, sup, clicks, spree>>

\* Mutation: a second quit is let through while the first is under way.
LetThroughSecond == phase = "running"

\* Mutation: the quit that is issued again is deferred like the first.
LetThroughNever == FALSE

\* onBeforeQuit() defers every quit until the teardown is over, then issues its own.
LetThrough == phase = "running" /\ flow["quit"].pc = "idle"

\* A quit that is let through ends the application, and with it all that it knew.
Exit ==
    /\ LetThrough /\ phase' = "gone"
    /\ exits' = {} /\ child' = None /\ pid' = None /\ owned' = FALSE /\ state' = "stopped"
    /\ stopRequested' = FALSE /\ blocked' = FALSE /\ timer' = FALSE /\ sup' = Fresh
    /\ flow' = [f \in Flow |-> Idle] /\ poll' = NoPoll
    /\ spree' = 0 /\ UNCHANGED <<kernel, quitting, clicks, leaving>>
-----------------------------------------------------------------------------
Advance(f) ==
    Probe(f) \/ Ask(f) \/ Holder(f) \/ Term(f) \/ Settle(f) \/ Rest(f) \/ Take(f) \/ Free(f)

Poll == PollAsk \/ PollReturn

World == \E p \in Pid : Die(p) \/ (p \in Child /\ Serve(p))

Loop ==
    \/ \E f \in Flow : Advance(f) \/ ClickMenu(f) \/ Answer(f)
    \/ \E c \in exits : Deliver(c)
    \/ Fire \/ Poll \/ Tick \/ Quit \/ Exit

\* The story ends with the application.
Next == phase # "gone" /\ (World \/ Loop)

Spec == Init /\ [][Next]_vars

\* The kernel answers or a time-out ends each wait of a flow; the poll's timer fires and
\* its requests time out; an event of a child is delivered; a quit issued again exits.
FairSpec ==
    /\ Spec
    /\ WF_vars(phase # "gone" /\ Advance("quit"))
    /\ WF_vars(phase # "gone" /\ Poll)
    /\ WF_vars(phase # "gone" /\ \E c \in exits : Deliver(c))
    /\ WF_vars(Exit)
-----------------------------------------------------------------------------
(* Properties.                                                             *)

\* The manager holds what the code can put there; a pid it calls its own is a child's
\* (ownedProcess, "We spawned it").
TypeOK ==
    /\ life \in [Pid -> {"unborn", "booting", "serving", "dead"}] /\ version \in {"none", "same", "old"}
    /\ exits \subseteq Child
    /\ child \in Child \cup {None} /\ pid \in Pid \cup {None} /\ owned \in BOOLEAN
    /\ owned => pid # Other
    /\ state \in {"stopped", "starting", "running"} /\ stopRequested \in BOOLEAN
    /\ blocked \in BOOLEAN /\ timer \in BOOLEAN /\ quitting \in BOOLEAN
    /\ sup \in Supervisor /\ phase \in {"idle", "running", "gone"}
    /\ flow \in [Flow -> [pc : {"idle", "probe", "ask", "holder", "term", "settle", "rest",
                                "take", "free", "consent", "replace"},
                          act : {"none", "start", "stop", "restart", "takeover"},
                          pid : Pid \cup {None}, seen : {"none", "same", "old"}, consent : BOOLEAN]]
    /\ poll \in [pc : {"armed", "asked", "off"}, state : {"stopped", "starting", "running"},
                 healthy : BOOLEAN]
    /\ clicks \in 0..MaxClicks /\ spree \in Nat
    /\ leaving \in Child \cup {None}

\* However starts, stops, exits and polls overlap, a process that the application did
\* not start is signalled only by a flow whose dialog the user answered with yes.
StrangersAreSpared ==
    \A f \in Flow : flow[f].pc = "term" /\ flow[f].pid = Other => flow[f].consent

\* A crash loop is bounded, also one that looks healthy for a moment: without a healthy
\* window free of deaths, or a click on Start, no more than MaxAttempts restarts.
RestartsAreBounded == spree <= MaxAttempts

\* The application goes only when the server it owned as it was told to quit is dead,
\* unless the kernel did not kill it (quit-sequence.js, "hold the quit open").
QuitTakesTheServer == phase = "gone" => ~ Alive(leaving) \/ leaving \in Resists

\* And it does go: no wait of the teardown is without an end.
QuitEnds == (phase = "running") ~> (phase = "gone")

\* An application that takes a dead server for a live one finds out, also when the
\* server was adopted and no exit event comes (superviseTick()).
DeathIsNoticed ==
    (state # "stopped" /\ \A p \in Pid : ~ Alive(p))
        ~> (state = "stopped" \/ phase # "idle" \/ \E p \in Pid : Alive(p))
=============================================================================
