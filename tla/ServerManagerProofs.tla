-------------------------- MODULE ServerManagerProofs --------------------------
(***************************************************************************)
(* Proofs about ServerManager: its types, the strangers it spares, the     *)
(* bound on its restarts and the server it takes along when it quits, for  *)
(* any number of processes, clicks, attempts and any window.               *)
(***************************************************************************)
EXTENDS ServerManager, TLAPS

Place == {"idle", "probe", "ask", "holder", "term", "settle", "rest", "take", "free", "consent", "replace"}

Entry == [pc : Place, act : {"none", "start", "stop", "restart", "takeover"},
          pid : Pid \cup {None}, seen : {"none", "same", "old"}, consent : BOOLEAN]

\* What the application believes of the server, as far as types go.
Belief ==
    /\ child \in Child \cup {None} /\ pid \in Pid \cup {None} /\ owned \in BOOLEAN
    /\ owned => pid # Other
    /\ state \in {"stopped", "starting", "running"} /\ stopRequested \in BOOLEAN
    /\ blocked \in BOOLEAN

Outside ==
    /\ life \in [Pid -> {"unborn", "booting", "serving", "dead"}]
    /\ version \in {"none", "same", "old"} /\ exits \subseteq Child

Beside ==
    /\ quitting \in BOOLEAN /\ phase \in {"idle", "running", "gone"}
    /\ poll \in [pc : {"armed", "asked", "off"}, state : {"stopped", "starting", "running"},
                 healthy : BOOLEAN]
    /\ clicks \in 0..MaxClicks

FlowInv == flow \in [Flow -> Entry] /\ StrangersAreSpared

\* The restarts that were made and the one that is scheduled are paid for; once the
\* window is over none is outstanding.
SupInv ==
    /\ sup \in Supervisor /\ timer \in BOOLEAN /\ spree \in Nat
    /\ spree <= sup.attempts /\ (timer => spree < sup.attempts)
    /\ sup.up = Window => spree = 0 /\ ~ timer

\* A pid that the application knows was born: a dead process never comes back under it.
Born ==
    /\ child # None => life[child] # "unborn"
    /\ pid # None => life[pid] # "unborn"
    /\ leaving # None => life[leaving] # "unborn"

\* Where the teardown is with the server that is to go.
Teardown ==
    /\ leaving \in Child \cup {None}
    /\ phase = "running" /\ leaving # None =>
         \/ flow["quit"].pc = "term" /\ flow["quit"].pid = leaving /\ flow["quit"].act = "stop"
         \/ /\ \/ flow["quit"].pc = "settle" /\ flow["quit"].act = "stop"
               \/ flow["quit"].pc = "idle"
            /\ ~ Alive(leaving) \/ leaving \in Resists

IInv == Outside /\ Belief /\ Beside /\ FlowInv /\ SupInv /\ Born /\ Teardown /\ QuitTakesTheServer
-----------------------------------------------------------------------------
(* The supervisor.                                                         *)

\* superviseDown() keeps the budget.
LEMMA DownKeeps ==
    ASSUME SupInv, NEW e \in BOOLEAN, quitting \in BOOLEAN, SuperviseDown(e)
    PROVE  SupInv' /\ leaving' = leaving
<1>1. sup \in Supervisor /\ timer \in BOOLEAN /\ spree \in Nat /\ spree' = spree /\ leaving' = leaving
  BY DEF SupInv, SuperviseDown, history
<1> DEFINE d == e \/ quitting
<1>2. sup' = Down(sup, d) /\ timer' = (timer \/ Restarts(sup, d)) /\ d \in BOOLEAN
  BY DEF SuperviseDown
<1> HIDE DEF d
<1>3. CASE Restarts(sup, d)
  <2>1. ~ d /\ sup.attempts < MaxAttempts /\ timer' = TRUE
    BY <1>1, <1>2, <1>3 DEF Restarts
  <2>2. sup' = [attempts |-> sup.attempts + 1, gaveUp |-> sup.gaveUp, up |-> -1]
    BY <1>2, <1>3, <2>1 DEF Down
  <2>3. sup' \in Supervisor /\ sup'.up = -1 /\ sup'.attempts = sup.attempts + 1
    BY <1>1, <2>1, <2>2, PolicyAssumption DEF Supervisor
  <2>4. spree < sup.attempts + 1 /\ spree <= sup.attempts + 1
    BY <1>1 DEF SupInv, Supervisor
  <2>5. -1 # Window
    BY PolicyAssumption
  <2> QED BY <1>1, <2>1, <2>3, <2>4, <2>5 DEF SupInv
<1>4. CASE ~ Restarts(sup, d)
  <2>1. sup' = [sup EXCEPT !.up = -1] \/ sup' = [attempts |-> sup.attempts, gaveUp |-> TRUE, up |-> -1]
    BY <1>2, <1>4 DEF Down
  <2>2. CASE sup' = [sup EXCEPT !.up = -1]
    <3>1. sup' \in Supervisor /\ sup'.up = -1 /\ sup'.attempts = sup.attempts
      BY <1>1, <2>2, PolicyAssumption DEF Supervisor
    <3> QED BY <1>1, <1>2, <1>4, <3>1, PolicyAssumption DEF SupInv
  <2>3. CASE sup' = [attempts |-> sup.attempts, gaveUp |-> TRUE, up |-> -1]
    <3>1. sup' \in Supervisor /\ sup'.up = -1 /\ sup'.attempts = sup.attempts
      BY <1>1, <2>3, PolicyAssumption DEF Supervisor
    <3> QED BY <1>1, <1>2, <1>4, <3>1, PolicyAssumption DEF SupInv
  <2> QED BY <2>1, <2>2, <2>3
<1> QED BY <1>1, <1>3, <1>4

LEMMA UpKeeps ==
    ASSUME SupInv, sup' = Up(sup), timer' = timer, spree' = spree
    PROVE  SupInv'
BY PolicyAssumption DEF SupInv, Up, Supervisor

LEMMA StillUpKeeps ==
    ASSUME SupInv, sup' = StillUp(sup), timer' = timer, spree' = spree
    PROVE  SupInv'
<1>1. sup \in Supervisor /\ sup.attempts \in 0..MaxAttempts /\ sup.up \in -1..Window
  BY DEF SupInv, Supervisor
<1>2. CASE sup.up = -1
  <2>1. sup' = [sup EXCEPT !.up = 0]
    BY <1>1, <1>2, PolicyAssumption DEF StillUp
  <2>2. sup' \in Supervisor /\ sup'.up = 0 /\ sup'.attempts = sup.attempts
    BY <1>1, <2>1, PolicyAssumption DEF Supervisor
  <2> QED BY <2>2, PolicyAssumption DEF SupInv
<1>3. CASE sup.up # -1 /\ sup.up >= Window
  <2>1. sup' = [attempts |-> 0, gaveUp |-> FALSE, up |-> sup.up]
    BY <1>1, <1>3 DEF StillUp
  <2>2. sup' \in Supervisor /\ sup'.up = sup.up /\ sup'.attempts = 0
    BY <1>1, <2>1, PolicyAssumption DEF Supervisor
  <2>3. spree = 0 /\ ~ timer
    BY <1>1, <1>3, PolicyAssumption DEF SupInv
  <2> QED BY <2>2, <2>3 DEF SupInv
<1>4. CASE sup.up # -1 /\ ~ (sup.up >= Window)
  <2>1. sup' = sup
    BY <1>1, <1>4 DEF StillUp
  <2> QED BY <2>1 DEF SupInv
<1> QED BY <1>2, <1>3, <1>4

LEMMA NotSupervisedKeeps ==
    ASSUME SupInv, NotSupervised
    PROVE  SupInv' /\ leaving' = leaving
BY DEF SupInv, NotSupervised, history
-----------------------------------------------------------------------------
(* The flows.                                                              *)

LEMMA FlowSet ==
    ASSUME FlowInv, NEW f \in Flow, NEW r \in Entry, r.pc = "term" /\ r.pid = Other => r.consent,
           flow' = [flow EXCEPT ![f] = r]
    PROVE  FlowInv'
BY DEF FlowInv, StrangersAreSpared

LEMMA IdleType == Idle \in Entry /\ Idle.pc = "idle" /\ [Idle EXCEPT !.pc = "replace"] \in Entry
BY DEF Idle, Entry, Place

\* A flow that goes on to wait elsewhere.
LEMMA GotoKeeps ==
    ASSUME FlowInv, NEW f \in Flow, NEW pc \in Place, NEW act \in {"none", "start", "stop", "restart", "takeover"},
           NEW p \in Pid \cup {None}, NEW seen \in {"none", "same", "old"}, NEW consent \in BOOLEAN,
           pc = "term" /\ p = Other => consent, Goto(f, pc, act, p, seen, consent)
    PROVE  /\ FlowInv'
           /\ flow'[f].pc = pc /\ flow'[f].act = act /\ flow'[f].pid = p
           /\ \A g \in Flow \ {f} : flow'[g] = flow[g]
<1> DEFINE r == [pc |-> pc, act |-> act, pid |-> p, seen |-> seen, consent |-> consent]
<1>1. r \in Entry /\ r.pc = pc /\ r.act = act /\ r.pid = p /\ r.consent = consent
  BY DEF Entry
<1>2. flow' = [flow EXCEPT ![f] = r]
  BY DEF Goto
<1>3. FlowInv'
  <2> HIDE DEF r
  <2> QED BY <1>1, <1>2, FlowSet
<1>4. flow \in [Flow -> Entry]
  BY DEF FlowInv
<1> HIDE DEF r
<1> QED BY <1>1, <1>2, <1>3, <1>4

LEMMA GotoQuiet ==
    ASSUME FlowInv, NEW f \in Flow, NEW pc \in Place, NEW act \in {"none", "start", "stop", "restart", "takeover"},
           NEW p \in Pid \cup {None}, NEW seen \in {"none", "same", "old"},
           ~ (pc = "term" /\ p = Other), Goto(f, pc, act, p, seen, FALSE)
    PROVE  /\ FlowInv'
           /\ flow'[f].pc = pc /\ flow'[f].act = act /\ flow'[f].pid = p
           /\ \A g \in Flow \ {f} : flow'[g] = flow[g]
<1>1. PICK c \in BOOLEAN : Goto(f, pc, act, p, seen, c)
  BY Zenon
<1> QED BY <1>1, GotoKeeps

LEMMA GotoAgreed ==
    ASSUME FlowInv, NEW f \in Flow, NEW pc \in Place, NEW act \in {"none", "start", "stop", "restart", "takeover"},
           NEW p \in Pid \cup {None}, NEW seen \in {"none", "same", "old"}, Goto(f, pc, act, p, seen, TRUE)
    PROVE  /\ FlowInv'
           /\ flow'[f].pc = pc /\ flow'[f].act = act /\ flow'[f].pid = p
           /\ \A g \in Flow \ {f} : flow'[g] = flow[g]
<1>1. PICK c \in BOOLEAN : c = TRUE /\ Goto(f, pc, act, p, seen, c)
  BY Zenon
<1>2. (pc = "term" /\ p = Other => c) /\ Goto(f, pc, act, p, seen, c)
  BY <1>1, Zenon
<1> QED BY <1>2, GotoKeeps

LEMMA EntryOf ==
    ASSUME FlowInv, NEW f \in Flow
    PROVE  /\ flow[f].pc \in Place /\ flow[f].act \in {"none", "start", "stop", "restart", "takeover"}
           /\ flow[f].pid \in Pid \cup {None} /\ flow[f].seen \in {"none", "same", "old"}
           /\ flow[f].consent \in BOOLEAN
           /\ flow[f].pc = "term" /\ flow[f].pid = Other => flow[f].consent
BY DEF FlowInv, StrangersAreSpared, Entry

\* A flow whose operation is over.
LEMMA FinishKeeps ==
    ASSUME FlowInv, SupInv, NEW f \in Flow, NEW o, quitting \in BOOLEAN, Finish(f, o)
    PROVE  /\ FlowInv' /\ SupInv' /\ leaving' = leaving
           /\ flow'[f].pc \in {"idle", "replace"} /\ (f \notin Click => flow'[f].pc = "idle")
           /\ \A g \in Flow \ {f} : flow'[g] = flow[g]
<1>1. PICK r \in Entry : /\ flow' = [flow EXCEPT ![f] = r]
                         /\ r.pc \in {"idle", "replace"} /\ (f \notin Click => r.pc = "idle")
  BY IdleType DEF Finish, Idle, Entry, Place
<1>2. FlowInv'
  BY <1>1, FlowSet
<1>3. SupInv' /\ leaving' = leaving
  BY DownKeeps, UpKeeps, NotSupervisedKeeps DEF Finish, history
<1>4. flow \in [Flow -> Entry]
  BY DEF FlowInv
<1> QED BY <1>1, <1>2, <1>3, <1>4

LEMMA EnterStartKeeps ==
    ASSUME FlowInv, SupInv, NEW f \in Flow, NEW act \in {"none", "start", "stop", "restart", "takeover"},
           quitting \in BOOLEAN, EnterStart(f, act)
    PROVE  /\ FlowInv' /\ SupInv' /\ leaving' = leaving
           /\ \A g \in Flow \ {f} : flow'[g] = flow[g]
<1>1. CASE child # None
  BY <1>1, FinishKeeps DEF EnterStart
<1>2. CASE child = None
  <2>1. Goto(f, "probe", act, None, "none", FALSE) /\ NotSupervised
    BY <1>2 DEF EnterStart
  <2>2. FlowInv' /\ \A g \in Flow \ {f} : flow'[g] = flow[g]
    BY <2>1, GotoQuiet DEF Place
  <2>3. SupInv' /\ leaving' = leaving
    BY <2>1, NotSupervisedKeeps
  <2> QED BY <2>2, <2>3
<1> QED BY <1>1, <1>2

LEMMA TargetType ==
    ASSUME Belief
    PROVE  Target \in Pid \cup {None} /\ (owned => Target \in Child \cup {None})
BY ProcessAssumption DEF Belief, Target, Pid

\* A stop that is permitted goes for a child, or for what the user agreed to.
LEMMA EnterStopKeeps ==
    ASSUME FlowInv, Belief, NEW f \in Flow, NEW c \in BOOLEAN,
           NEW act \in {"none", "start", "stop", "restart", "takeover"}, owned \/ c, EnterStop(f, act, c)
    PROVE  /\ FlowInv' /\ Belief' /\ UNCHANGED <<child, pid>>
           /\ flow'[f].pc = (IF Target = None THEN "settle" ELSE "term")
           /\ flow'[f].act = act /\ flow'[f].pid = Target
           /\ \A g \in Flow \ {f} : flow'[g] = flow[g]
<1> DEFINE pc == IF Target = None THEN "settle" ELSE "term"
<1>1. pc \in Place
  BY DEF Place
<1>2. Target \in Pid \cup {None} /\ (Target = Other => c)
  BY TargetType, ProcessAssumption
<1>3. Goto(f, pc, act, Target, "none", c)
  BY DEF EnterStop
<1>4. Belief' /\ UNCHANGED <<child, pid>>
  BY DEF EnterStop, Belief
<1> HIDE DEF pc
<1>5. /\ FlowInv' /\ flow'[f].pc = pc /\ flow'[f].act = act /\ flow'[f].pid = Target
      /\ \A g \in Flow \ {f} : flow'[g] = flow[g]
  BY <1>1, <1>2, <1>3, GotoKeeps
<1> QED BY <1>4, <1>5 DEF pc

LEMMA AfterKillKeeps ==
    ASSUME FlowInv, SupInv, NEW f \in Flow, NEW gone \in BOOLEAN, quitting \in BOOLEAN, AfterKill(f, gone)
    PROVE  /\ FlowInv' /\ SupInv' /\ leaving' = leaving
           /\ flow[f].act # "takeover" => flow'[f].pc = "settle" /\ flow'[f].act = flow[f].act
           /\ \A g \in Flow \ {f} : flow'[g] = flow[g]
<1>1. CASE flow[f].act # "takeover"
  <2>1. Goto(f, "settle", flow[f].act, flow[f].pid, "none", flow[f].consent) /\ NotSupervised
    BY <1>1 DEF AfterKill
  <2>2. /\ FlowInv' /\ flow'[f].pc = "settle" /\ flow'[f].act = flow[f].act
        /\ \A g \in Flow \ {f} : flow'[g] = flow[g]
    BY <2>1, GotoKeeps, EntryOf DEF Place
  <2> QED BY <2>1, <2>2, NotSupervisedKeeps
<1>2. CASE flow[f].act = "takeover" /\ gone
  <2>1. Goto(f, "free", "takeover", None, "none", FALSE) /\ NotSupervised
    BY <1>2 DEF AfterKill
  <2>2. FlowInv' /\ \A g \in Flow \ {f} : flow'[g] = flow[g]
    BY <2>1, GotoQuiet DEF Place
  <2> QED BY <1>2, <2>1, <2>2, NotSupervisedKeeps
<1>3. CASE flow[f].act = "takeover" /\ ~ gone
  <2>1. Finish(f, "failed")
    BY <1>3 DEF AfterKill
  <2> QED BY <1>3, <2>1, FinishKeeps
<1> QED BY <1>1, <1>2, <1>3
-----------------------------------------------------------------------------
(* What stays when others move.                                            *)

\* Nobody is born a second time, and the dead stay dead.
Grown == \A p \in Pid : life[p] # "unborn" =>
             /\ life'[p] # "unborn"
             /\ life'[p] \in {"booting", "serving"} => life[p] \in {"booting", "serving"}

\* The teardown goes on where it was, and the server it is for stays as dead as it was.
LEMMA TeardownStays ==
    ASSUME IInv, Grown, phase # "gone", phase' = phase, leaving' = leaving,
           phase = "running" /\ leaving # None => flow'["quit"] = flow["quit"]
    PROVE  Teardown' /\ QuitTakesTheServer' /\ (leaving' # None => life'[leaving'] # "unborn")
<1>1. leaving # None => leaving \in Pid /\ life[leaving] # "unborn"
  BY DEF IInv, Teardown, Born, Pid
<1>2. leaving # None =>
        /\ life'[leaving] # "unborn"
        /\ life'[leaving] \in {"booting", "serving"} => life[leaving] \in {"booting", "serving"}
  BY <1>1 DEF Grown
<1> QED BY <1>2 DEF IInv, Teardown, QuitTakesTheServer, Alive

\* While the application is tearing its server down, its quit flow does nothing else.
LEMMA QuitFlowIsBusy ==
    ASSUME Teardown, NEW f \in Flow, phase = "running", leaving # None,
           flow[f].pc \in {"probe", "ask", "holder", "rest", "take", "free", "consent", "replace"}
    PROVE  f # "quit"
BY DEF Teardown

LEMMA Unmoved == ASSUME UNCHANGED life PROVE Grown
BY DEF Grown

LEMMA EndedKeeps ==
    ASSUME Outside, NEW p \in Pid, Ended(p), UNCHANGED version
    PROVE  Outside' /\ Grown /\ life'[p] = "dead"
BY DEF Outside, Ended, Grown, Pid

LEMMA SpawnedKeeps ==
    ASSUME Outside, NEW c \in Child, Spawned(c), UNCHANGED <<version, exits>>
    PROVE  Outside' /\ Grown /\ life'[c] # "unborn"
BY DEF Outside, Spawned, Grown, Pid

Known == (child # None => life[child] # "unborn") /\ (pid # None => life[pid] # "unborn")

LEMMA KnownStays ==
    ASSUME IInv, Grown, child' \in {child, None}, pid' \in {pid, None}
    PROVE  Known'
BY DEF IInv, Born, Belief, Grown, Known, Pid

\* The parts of the invariant, when a step is no part of the teardown.
LEMMA Together ==
    ASSUME IInv, phase # "gone", Outside', Belief', Beside', FlowInv', SupInv', Grown, Known',
           leaving' = leaving, phase' = phase,
           phase = "running" /\ leaving # None => flow'["quit"] = flow["quit"]
    PROVE  IInv'
BY TeardownStays DEF IInv, Born, Known

LEMMA QuitIsFlow == "quit" \in Flow /\ "timer" \in Flow /\ \A f \in Click : f \in Flow \ {"quit", "timer"}
BY FlowAssumption DEF Flow
-----------------------------------------------------------------------------
(* The steps of start().                                                   *)

LEMMA ProbeKeeps == ASSUME IInv, phase # "gone", NEW f \in Flow, Probe(f) PROVE IInv'
<1>1. f # "quit" \/ ~ (phase = "running" /\ leaving # None)
  BY QuitFlowIsBusy DEF Probe, IInv
<1>2. Beside' /\ phase' = phase /\ version' = version /\ exits' = exits
  BY DEF Probe, apart, IInv, Beside
<1>3. CASE Finish(f, "failed") /\ state' = "stopped" /\ UNCHANGED <<life, exits, app>>
  <2>1. FlowInv' /\ SupInv' /\ leaving' = leaving /\ \A g \in Flow \ {f} : flow'[g] = flow[g]
    BY <1>3, FinishKeeps DEF IInv, Beside
  <2>2. Outside' /\ Belief' /\ Grown /\ UNCHANGED <<child, pid>>
    BY <1>2, <1>3, Unmoved DEF IInv, Outside, Belief, app
  <2>3. Known'
    BY <2>2, KnownStays
  <2> QED BY <1>1, <1>2, <2>1, <2>2, <2>3, QuitIsFlow, Together
<1>4. CASE /\ Goto(f, "ask", flow[f].act, None, "none", FALSE)
           /\ UNCHANGED <<life, exits, app, state>> /\ NotSupervised
  <2>1. FlowInv' /\ \A g \in Flow \ {f} : flow'[g] = flow[g]
    <3>1. flow[f].act \in {"none", "start", "stop", "restart", "takeover"} /\ FlowInv
      BY EntryOf DEF IInv
    <3>2. Goto(f, "ask", flow[f].act, None, "none", FALSE)
      BY <1>4
    <3> QED BY <3>1, <3>2, GotoQuiet DEF Place
  <2>2. SupInv' /\ leaving' = leaving
    BY <1>4, NotSupervisedKeeps DEF IInv
  <2>3. Outside' /\ Belief' /\ Grown /\ UNCHANGED <<child, pid>>
    BY <1>2, <1>4, Unmoved DEF IInv, Outside, Belief, app
  <2>4. Known'
    BY <2>3, KnownStays
  <2> QED BY <1>1, <1>2, <2>1, <2>2, <2>3, <2>4, QuitIsFlow, Together
<1>5. CASE /\ NotSpawned \/ \E c \in Child : Spawned(c)
           /\ stopRequested' = FALSE /\ blocked' = FALSE /\ Finish(f, "ok")
  <2>1. FlowInv' /\ SupInv' /\ leaving' = leaving /\ \A g \in Flow \ {f} : flow'[g] = flow[g]
    BY <1>5, FinishKeeps DEF IInv, Beside
  <2>2. CASE NotSpawned
    <3>1. Outside' /\ Belief' /\ Grown /\ child' = None /\ pid' = None
      BY <1>2, <1>5, <2>2, Unmoved DEF IInv, Outside, Belief, NotSpawned
    <3>2. Known'
      BY <3>1, KnownStays
    <3> QED BY <1>1, <1>2, <2>1, <3>1, <3>2, QuitIsFlow, Together
  <2>3. CASE \E c \in Child : Spawned(c)
    <3>1. PICK c \in Child : Spawned(c)
      BY <2>3
    <3>2. Outside' /\ Grown /\ life'[c] # "unborn" /\ child' = c /\ pid' = c
      BY <1>2, <3>1, SpawnedKeeps DEF IInv, Spawned
    <3>3. Belief'
      BY <1>5, <3>1, ProcessAssumption DEF Spawned, Belief, Pid
    <3>4. Known'
      BY <3>2 DEF Known
    <3> QED BY <1>1, <1>2, <2>1, <3>2, <3>3, <3>4, QuitIsFlow, Together
  <2> QED BY <1>5, <2>2, <2>3
<1> QED BY <1>3, <1>4, <1>5 DEF Probe

LEMMA AskKeeps == ASSUME IInv, phase # "gone", NEW f \in Flow, Ask(f) PROVE IInv'
<1>1. f # "quit" \/ ~ (phase = "running" /\ leaving # None)
  BY QuitFlowIsBusy DEF Ask, IInv
<1>2. /\ Beside' /\ phase' = phase /\ Outside' /\ Grown
      /\ UNCHANGED <<child, pid, owned, stopRequested, blocked>>
  BY Unmoved DEF Ask, kernel, app, IInv, Beside, Outside
<1>3. Known'
  BY <1>2, KnownStays
<1>4. PICK a \in Answers :
        IF a = "none"
        THEN Finish(f, "failed") /\ state' = "stopped"
        ELSE Goto(f, "holder", flow[f].act, None, a, FALSE) /\ NotSupervised /\ UNCHANGED state
  BY DEF Ask
<1>5. a \in {"none", "same", "old"}
  BY DEF Answers, IInv, Outside
<1>6. Belief'
  BY <1>2, <1>4 DEF IInv, Belief
<1>7. FlowInv' /\ SupInv' /\ leaving' = leaving /\ \A g \in Flow \ {f} : flow'[g] = flow[g]
  <2>1. CASE a = "none"
    BY <1>4, <2>1, FinishKeeps DEF IInv, Beside
  <2>2. CASE a # "none"
    <3>1. Goto(f, "holder", flow[f].act, None, a, FALSE) /\ NotSupervised
      BY <1>4, <2>2
    <3>2. FlowInv' /\ \A g \in Flow \ {f} : flow'[g] = flow[g]
      <4> DEFINE r == [pc |-> "holder", act |-> flow[f].act, pid |-> None, seen |-> a, consent |-> FALSE]
      <4>1. r \in Entry /\ r.pc = "holder" /\ FlowInv
        BY <1>5, EntryOf DEF IInv, Entry, Place
      <4>2. flow' = [flow EXCEPT ![f] = r] /\ flow \in [Flow -> Entry]
        BY <3>1, <4>1 DEF Goto, FlowInv
      <4> HIDE DEF r
      <4>3. FlowInv'
        BY <4>1, <4>2, FlowSet
      <4> QED BY <4>2, <4>3
    <3> QED BY <3>1, <3>2, NotSupervisedKeeps DEF IInv
  <2> QED BY <2>1, <2>2
<1> QED BY <1>1, <1>2, <1>3, <1>6, <1>7, QuitIsFlow, Together

LEMMA HolderKeeps == ASSUME IInv, phase # "gone", NEW f \in Flow, Holder(f) PROVE IInv'
<1>1. f # "quit" \/ ~ (phase = "running" /\ leaving # None)
  BY QuitFlowIsBusy DEF Holder, IInv
<1>2. /\ Beside' /\ phase' = phase /\ Outside' /\ Grown /\ UNCHANGED <<life, child, stopRequested>>
  BY Unmoved DEF Holder, kernel, IInv, Beside, Outside
<1>3. FlowInv' /\ SupInv' /\ leaving' = leaving /\ \A g \in Flow \ {f} : flow'[g] = flow[g]
  BY FinishKeeps DEF Holder, IInv, Beside
<1>4. CASE /\ state' = "running" /\ owned' = OwnedByAdoption /\ blocked' = FALSE
           /\ \E p \in Holders : pid' = IF p = None THEN pid ELSE p
  <2>1. PICK p \in Holders : pid' = IF p = None THEN pid ELSE p
    BY <1>4
  <2>2. p = None \/ (p \in Pid /\ life[p] = "serving")
    BY DEF Holders
  <2>3. Belief'
    BY <1>2, <1>4, <2>1, <2>2 DEF IInv, Belief, OwnedByAdoption
  <2>4. Known'
    BY <1>2, <2>1, <2>2 DEF IInv, Born, Known
  <2> QED BY <1>1, <1>2, <1>3, <2>3, <2>4, QuitIsFlow, Together
<1>5. CASE state' = "stopped" /\ blocked' = TRUE /\ UNCHANGED <<owned, pid>>
  <2>1. Belief' /\ Known'
    BY <1>2, <1>5, KnownStays DEF IInv, Belief
  <2> QED BY <1>1, <1>2, <1>3, <2>1, QuitIsFlow, Together
<1> QED BY <1>4, <1>5 DEF Holder
-----------------------------------------------------------------------------
(* The steps of stop(), restart() and takeOverPort().                      *)

\* Only here, and when it settles, does the quit flow move: what it leaves behind is dead
\* or cannot be killed.
LEMMA TermKeeps == ASSUME IInv, phase # "gone", NEW f \in Flow, Term(f) PROVE IInv'
<1> DEFINE p == flow[f].pid
<1>1. Beside' /\ phase' = phase /\ Belief' /\ UNCHANGED <<version, child, pid>>
  BY DEF Term, app, apart, IInv, Beside, Belief
<1>2. p \in Pid \cup {None}
  BY EntryOf DEF IInv
<1>3. PICK gone \in BOOLEAN : AfterKill(f, gone)
  <2>1. Alive(p) \in BOOLEAN
    BY DEF Alive
  <2>2. AfterKill(f, TRUE) \/ AfterKill(f, ~ Alive(p))
    BY DEF Term
  <2> QED BY <2>1, <2>2, Zenon
<1>4. /\ FlowInv' /\ SupInv' /\ leaving' = leaving
      /\ flow[f].act # "takeover" => flow'[f].pc = "settle" /\ flow'[f].act = flow[f].act
      /\ \A g \in Flow \ {f} : flow'[g] = flow[g]
  BY <1>3, AfterKillKeeps DEF IInv, Beside
<1>5. Outside' /\ Grown /\ (p # None => life'[p] \notin {"booting", "serving"} \/ p \in Resists)
  <2>1. CASE Escalates(p) /\ p \notin Resists
    <3>1. p \in Pid /\ Ended(p)
      BY <1>2, <2>1 DEF Term, Escalates, Alive
    <3> QED BY <1>1, <3>1, EndedKeeps DEF IInv
  <2>2. CASE ~ (Escalates(p) /\ p \notin Resists)
    <3>1. UNCHANGED <<life, exits>>
      BY <2>2 DEF Term
    <3> QED BY <1>1, <2>2, <3>1, Unmoved DEF IInv, Outside, Escalates, Alive
  <2> QED BY <2>1, <2>2
<1>6. Known'
  BY <1>1, <1>5, KnownStays
<1>7. CASE f # "quit" \/ ~ (phase = "running" /\ leaving # None)
  BY <1>1, <1>4, <1>5, <1>6, <1>7, QuitIsFlow, Together
<1>8. CASE f = "quit" /\ phase = "running" /\ leaving # None
  <2>1. flow[f].pc = "term"
    BY DEF Term
  <2>2. p = leaving /\ flow[f].act = "stop"
    BY <1>8, <2>1 DEF IInv, Teardown
  <2>3. leaving \in Child /\ life[leaving] # "unborn"
    BY <1>8 DEF IInv, Teardown, Born
  <2>4. life'[leaving] # "unborn"
    BY <1>5, <2>3 DEF Grown, Pid
  <2>5. flow'["quit"].pc = "settle" /\ flow'["quit"].act = "stop"
    BY <1>4, <1>8, <2>2
  <2>6. life'[leaving] \notin {"booting", "serving"} \/ leaving \in Resists
    BY <1>5, <1>8, <2>2
  <2>7. Teardown' /\ QuitTakesTheServer'
    BY <1>1, <1>4, <1>8, <2>3, <2>5, <2>6 DEF Teardown, QuitTakesTheServer, Alive
  <2> QED BY <1>1, <1>4, <1>5, <1>6, <2>4, <2>7 DEF IInv, Born, Known
<1> QED BY <1>7, <1>8

LEMMA SettleKeeps == ASSUME IInv, phase # "gone", NEW f \in Flow, Settle(f) PROVE IInv'
<1>1. Beside' /\ phase' = phase /\ Outside' /\ Grown /\ UNCHANGED <<life, stopRequested, blocked>>
  BY Unmoved DEF Settle, apart, IInv, Beside, Outside
<1>2. Belief' /\ child' \in {child, None} /\ pid' \in {pid, None}
  BY <1>1 DEF Settle, IInv, Belief
<1>3. Known'
  BY <1>1, <1>2, KnownStays
<1>4. /\ FlowInv' /\ SupInv' /\ leaving' = leaving
      /\ flow[f].act = "stop" /\ f \notin Click => flow'[f].pc = "idle"
      /\ \A g \in Flow \ {f} : flow'[g] = flow[g]
  <2>1. CASE flow[f].act = "restart"
    <3>1. Goto(f, "rest", "restart", None, "none", FALSE) /\ NotSupervised
      BY <2>1 DEF Settle
    <3>2. FlowInv' /\ \A g \in Flow \ {f} : flow'[g] = flow[g]
      BY <3>1, GotoQuiet DEF IInv, Place
    <3> QED BY <2>1, <3>1, <3>2, NotSupervisedKeeps DEF IInv
  <2>2. CASE flow[f].act # "restart"
    BY <2>2, FinishKeeps DEF Settle, IInv, Beside
  <2> QED BY <2>1, <2>2
<1>5. CASE f # "quit" \/ ~ (phase = "running" /\ leaving # None)
  BY <1>1, <1>2, <1>3, <1>4, <1>5, QuitIsFlow, Together
<1>6. CASE f = "quit" /\ phase = "running" /\ leaving # None
  <2>1. flow[f].pc = "settle"
    BY DEF Settle
  <2>2. flow[f].act = "stop" /\ (~ Alive(leaving) \/ leaving \in Resists) /\ life[leaving] # "unborn"
    BY <1>6, <2>1 DEF IInv, Teardown, Born
  <2>3. flow'["quit"].pc = "idle"
    BY <1>4, <1>6, <2>2, QuitIsFlow
  <2>4. Teardown' /\ QuitTakesTheServer'
    BY <1>1, <1>4, <1>6, <2>2, <2>3 DEF IInv, Teardown, QuitTakesTheServer, Alive
  <2> QED BY <1>1, <1>2, <1>3, <1>4, <2>2, <2>4 DEF IInv, Born, Known
<1> QED BY <1>5, <1>6

LEMMA RestKeeps == ASSUME IInv, phase # "gone", NEW f \in Flow, Rest(f) PROVE IInv'
<1>1. f # "quit" \/ ~ (phase = "running" /\ leaving # None)
  BY QuitFlowIsBusy DEF Rest, IInv
<1>2. Beside' /\ phase' = phase /\ Outside' /\ Belief' /\ Grown /\ UNCHANGED <<child, pid>>
  BY Unmoved DEF Rest, app, apart, IInv, Beside, Outside, Belief
<1>3. FlowInv' /\ SupInv' /\ leaving' = leaving /\ \A g \in Flow \ {f} : flow'[g] = flow[g]
  BY EnterStartKeeps DEF Rest, IInv, Beside
<1>4. Known'
  BY <1>2, KnownStays
<1> QED BY <1>1, <1>2, <1>3, <1>4, QuitIsFlow, Together

LEMMA TakeKeeps == ASSUME IInv, phase # "gone", NEW f \in Flow, Take(f) PROVE IInv'
<1>1. f # "quit" \/ ~ (phase = "running" /\ leaving # None)
  BY QuitFlowIsBusy DEF Take, IInv
<1>2. Beside' /\ phase' = phase /\ Outside' /\ Belief' /\ Grown /\ UNCHANGED <<child, pid>>
  BY Unmoved DEF Take, app, apart, IInv, Beside, Outside, Belief
<1>3. Known'
  BY <1>2, KnownStays
<1>4. PICK p \in Holders :
        IF p = None THEN Finish(f, "failed")
        ELSE Goto(f, "term", "takeover", p, "none", TRUE) /\ NotSupervised
  BY DEF Take
<1>5. p \in Pid \cup {None}
  BY DEF Holders
<1>6. FlowInv' /\ SupInv' /\ leaving' = leaving /\ \A g \in Flow \ {f} : flow'[g] = flow[g]
  <2>1. CASE p = None
    BY <1>4, <2>1, FinishKeeps DEF IInv, Beside
  <2>2. CASE p # None
    <3>1. Goto(f, "term", "takeover", p, "none", TRUE) /\ NotSupervised
      BY <1>4, <2>2
    <3>2. FlowInv' /\ \A g \in Flow \ {f} : flow'[g] = flow[g]
      BY <1>5, <3>1, GotoAgreed DEF IInv, Place
    <3> QED BY <3>1, <3>2, NotSupervisedKeeps DEF IInv
  <2> QED BY <2>1, <2>2
<1> QED BY <1>1, <1>2, <1>3, <1>6, QuitIsFlow, Together

LEMMA FreeKeeps == ASSUME IInv, phase # "gone", NEW f \in Flow, Free(f) PROVE IInv'
<1>1. f # "quit" \/ ~ (phase = "running" /\ leaving # None)
  BY QuitFlowIsBusy DEF Free, IInv
<1>2. Beside' /\ phase' = phase /\ Outside' /\ Grown /\ UNCHANGED <<child, pid>>
  BY Unmoved DEF Free, apart, IInv, Beside, Outside
<1>5. Belief'
  <2>1. UNCHANGED <<child, pid, owned, stopRequested, state>> /\ (blocked' = blocked \/ blocked' = FALSE)
    BY DEF Free
  <2> QED BY <2>1 DEF IInv, Belief
<1>3. FlowInv' /\ SupInv' /\ leaving' = leaving /\ \A g \in Flow \ {f} : flow'[g] = flow[g]
  BY EnterStartKeeps, FinishKeeps DEF Free, IInv, Beside
<1>4. Known'
  BY <1>2, KnownStays
<1> QED BY <1>1, <1>2, <1>3, <1>4, <1>5, QuitIsFlow, Together
-----------------------------------------------------------------------------
(* The user.                                                               *)

LEMMA FreshKeeps ==
    ASSUME sup' = Fresh, timer' = FALSE, spree' = 0
    PROVE  SupInv'
<1>1. Fresh \in Supervisor /\ Fresh.attempts = 0 /\ Fresh.up = -1 /\ -1 # Window
  BY PolicyAssumption DEF Fresh, Supervisor
<1>2. sup' \in Supervisor /\ sup'.attempts = 0 /\ sup'.up # Window
  BY <1>1
<1>3. timer' \in BOOLEAN /\ ~ timer' /\ spree' = 0
  OBVIOUS
<1> QED BY <1>2, <1>3 DEF SupInv

LEMMA ClickMenuKeeps == ASSUME IInv, phase # "gone", NEW f \in Flow, ClickMenu(f) PROVE IInv'
<1>1. f # "quit" /\ f \in Click
  BY FlowAssumption DEF ClickMenu
<1>2. Beside' /\ phase' = phase /\ Outside' /\ Grown
  <2>1. /\ clicks < MaxClicks /\ clicks' = clicks + 1
        /\ UNCHANGED <<life, version, exits, quitting, phase, poll>>
    BY DEF ClickMenu, kernel
  <2> QED BY <2>1, Unmoved, FlowAssumption DEF IInv, Beside, Outside
<1>3. CASE ClickStart(f)
  <2>1. SupInv' /\ leaving' = leaving
    BY <1>3, FreshKeeps DEF ClickStart
  <2>2. Belief' /\ UNCHANGED <<child, pid>>
    BY <1>3 DEF ClickStart, app, IInv, Belief
  <2>3. FlowInv' /\ \A g \in Flow \ {f} : flow'[g] = flow[g]
    <3>1. CASE child = None
      <4>1. Goto(f, "probe", "start", None, "none", FALSE)
        BY <1>3, <3>1 DEF ClickStart
      <4> QED BY <4>1, GotoQuiet DEF IInv, Place
    <3>2. CASE child # None
      <4>1. flow' = flow
        BY <1>3, <3>2 DEF ClickStart
      <4> QED BY <4>1 DEF IInv, FlowInv, StrangersAreSpared
    <3> QED BY <3>1, <3>2
  <2>4. Known'
    BY <1>2, <2>2, KnownStays
  <2> QED BY <1>1, <1>2, <2>1, <2>2, <2>3, <2>4, QuitIsFlow, Together
<1>4. CASE \E act \in {"stop", "restart"} : ClickStop(f, act)
  <2>1. PICK act \in {"stop", "restart"} : ClickStop(f, act)
    BY <1>4
  <2>2. SupInv' /\ leaving' = leaving
    BY <2>1, NotSupervisedKeeps DEF ClickStop, IInv
  <2>3. FlowInv' /\ Belief' /\ UNCHANGED <<child, pid>> /\ \A g \in Flow \ {f} : flow'[g] = flow[g]
    <3>1. CASE Permitted(FALSE)
      <4>1. PICK c \in BOOLEAN : EnterStop(f, act, c)
        <5>1. EnterStop(f, act, FALSE)
          BY <2>1, <3>1 DEF ClickStop
        <5> QED BY <5>1, Zenon
      <4>2. act \in {"none", "start", "stop", "restart", "takeover"} /\ owned
        BY <3>1 DEF Permitted
      <4> QED BY <4>1, <4>2, EnterStopKeeps DEF IInv
    <3>2. CASE ~ Permitted(FALSE)
      <4>1. Refused /\ Goto(f, "consent", act, None, "none", FALSE)
        BY <2>1, <3>2 DEF ClickStop
      <4>2. FlowInv' /\ \A g \in Flow \ {f} : flow'[g] = flow[g]
        <5>1. act \in {"none", "start", "stop", "restart", "takeover"} /\ FlowInv
          BY DEF IInv
        <5>2. Goto(f, "consent", act, None, "none", FALSE)
          BY <4>1
        <5> QED BY <5>1, <5>2, GotoQuiet DEF Place
      <4>3. Belief' /\ UNCHANGED <<child, pid>>
        BY <4>1 DEF Refused, app, IInv, Belief
      <4> QED BY <4>2, <4>3
    <3> QED BY <3>1, <3>2
  <2>4. Known'
    BY <1>2, <2>3, KnownStays
  <2> QED BY <1>1, <1>2, <2>2, <2>3, <2>4, QuitIsFlow, Together
<1> QED BY <1>3, <1>4 DEF ClickMenu

LEMMA AnswerKeeps == ASSUME IInv, phase # "gone", NEW f \in Flow, Answer(f) PROVE IInv'
<1>1. f # "quit" \/ ~ (phase = "running" /\ leaving # None)
  BY QuitFlowIsBusy DEF Answer, IInv
<1>2. Beside' /\ phase' = phase /\ Outside' /\ Grown
  BY Unmoved DEF Answer, apart, IInv, Beside, Outside
<1>3. SupInv' /\ leaving' = leaving
  BY NotSupervisedKeeps DEF Answer, IInv
<1>4. FlowInv' /\ Belief' /\ UNCHANGED <<child, pid>> /\ \A g \in Flow \ {f} : flow'[g] = flow[g]
  <2>1. CASE flow' = [flow EXCEPT ![f] = Idle] /\ UNCHANGED <<app, state>>
    <3>1. Idle \in Entry /\ Idle.pc # "term" /\ flow \in [Flow -> Entry]
      BY IdleType DEF IInv, FlowInv
    <3>2. FlowInv'
      BY <2>1, <3>1, FlowSet DEF IInv
    <3> QED BY <2>1, <3>1, <3>2 DEF app, IInv, Belief
  <2>2. CASE flow[f].pc = "consent" /\ (flow[f].act = "stop" \/ owned) /\ EnterStop(f, flow[f].act, TRUE)
    <3>1. PICK c \in BOOLEAN : (owned \/ c) /\ EnterStop(f, flow[f].act, c)
      BY <2>2, Zenon
    <3>2. flow[f].act \in {"none", "start", "stop", "restart", "takeover"} /\ FlowInv /\ Belief
      BY EntryOf DEF IInv
    <3> QED BY <3>1, <3>2, EnterStopKeeps
  <2>3. CASE Goto(f, "take", "takeover", None, "none", TRUE) /\ UNCHANGED <<app, state>>
    <3>1. FlowInv' /\ \A g \in Flow \ {f} : flow'[g] = flow[g]
      BY <2>3, GotoAgreed DEF IInv, Place
    <3> QED BY <2>3, <3>1 DEF app, IInv, Belief
  <2> QED BY <2>1, <2>2, <2>3 DEF Answer
<1>5. Known'
  BY <1>2, <1>4, KnownStays
<1> QED BY <1>1, <1>2, <1>3, <1>4, <1>5, QuitIsFlow, Together
-----------------------------------------------------------------------------
(* The kernel, the events, the timer and the poll: no flow moves.          *)

\* The parts that a step of theirs leaves alone.
LEMMA FlowsStay ==
    ASSUME IInv, UNCHANGED <<flow, quitting, phase, clicks>>,
           poll' \in [pc : {"armed", "asked", "off"}, state : {"stopped", "starting", "running"},
                      healthy : BOOLEAN]
    PROVE  Beside' /\ FlowInv' /\ flow'["quit"] = flow["quit"]
BY DEF IInv, Beside, FlowInv, StrangersAreSpared

LEMMA ServeKeeps == ASSUME IInv, phase # "gone", NEW c \in Child, Serve(c) PROVE IInv'
<1>1. Beside' /\ FlowInv' /\ flow'["quit"] = flow["quit"]
  BY FlowsStay DEF Serve, IInv, Beside
<1>2. Outside' /\ Grown
  BY DEF Serve, IInv, Outside, Grown, Pid
<1>3. Belief' /\ UNCHANGED <<child, pid>>
  BY DEF Serve, app, IInv, Belief
<1>4. SupInv' /\ leaving' = leaving /\ phase' = phase
  BY DEF Serve, history, IInv, SupInv
<1>5. Known'
  BY <1>2, <1>3, KnownStays
<1> QED BY <1>1, <1>2, <1>3, <1>4, <1>5, Together

LEMMA DieKeeps == ASSUME IInv, phase # "gone", NEW p \in Pid, Die(p) PROVE IInv'
<1>1. Beside' /\ FlowInv' /\ flow'["quit"] = flow["quit"]
  BY FlowsStay DEF Die, IInv, Beside
<1>2. Outside' /\ Grown
  BY EndedKeeps DEF Die, IInv
<1>3. Belief' /\ UNCHANGED <<child, pid>>
  BY DEF Die, app, IInv, Belief
<1>4. SupInv' /\ leaving' = leaving /\ phase' = phase
  BY DEF Die, history, IInv, SupInv
<1>5. Known'
  BY <1>2, <1>3, KnownStays
<1> QED BY <1>1, <1>2, <1>3, <1>4, <1>5, Together

LEMMA DeliverKeeps == ASSUME IInv, phase # "gone", NEW c \in exits, Deliver(c) PROVE IInv'
<1>1. Beside' /\ FlowInv' /\ flow'["quit"] = flow["quit"] /\ phase' = phase
  BY FlowsStay DEF Deliver, IInv, Beside
<1>2. Outside' /\ Grown
  BY Unmoved DEF Deliver, kernel, IInv, Outside
<1>3. Belief' /\ child' = None /\ pid' = None
  BY DEF Deliver, IInv, Belief
<1>4. SupInv' /\ leaving' = leaving
  BY DownKeeps DEF Deliver, IInv, Beside, Belief
<1>5. Known'
  BY <1>2, <1>3, KnownStays
<1> QED BY <1>1, <1>2, <1>3, <1>4, <1>5, Together

\* The restart that was scheduled is made: it was paid for when it was scheduled.
LEMMA FireKeeps == ASSUME IInv, phase # "gone", Fire PROVE IInv'
<1>1. Beside' /\ Outside' /\ Belief' /\ Grown /\ UNCHANGED <<child, pid, phase, leaving>>
  BY Unmoved DEF Fire, kernel, app, IInv, Beside, Outside, Belief
<1>2. /\ timer' \in BOOLEAN /\ ~ timer' /\ spree' = spree + 1 /\ spree \in Nat /\ spree < sup.attempts
      /\ sup \in Supervisor /\ sup.up # Window
  BY DEF Fire, IInv, SupInv
<1>3. FlowInv' /\ flow'["quit"] = flow["quit"]
  <2>1. CASE child # None
    BY <2>1 DEF Fire, IInv, FlowInv, StrangersAreSpared
  <2>2. CASE child = None
    <3>1. Goto("timer", "probe", "start", None, "none", FALSE)
      BY <2>2 DEF Fire
    <3>2. "timer" \in Flow /\ "quit" \in Flow \ {"timer"} /\ FlowInv
      BY QuitIsFlow DEF IInv
    <3>3. FlowInv' /\ \A g \in Flow \ {"timer"} : flow'[g] = flow[g]
      BY <3>1, <3>2, GotoQuiet DEF Place
    <3> QED BY <3>2, <3>3
  <2> QED BY <2>1, <2>2
<1>4. SupInv'
  <2>1. sup' = Up(sup) \/ sup' = sup
    BY DEF Fire
  <2>2. sup' \in Supervisor /\ sup'.attempts = sup.attempts /\ sup'.up # Window
    BY <1>2, <2>1, PolicyAssumption DEF Up, Supervisor
  <2>3. spree' \in Nat /\ spree' <= sup'.attempts
    BY <1>2, <2>2 DEF Supervisor
  <2> QED BY <1>2, <2>2, <2>3 DEF SupInv
<1>5. Known'
  BY <1>1, KnownStays
<1> QED BY <1>1, <1>3, <1>4, <1>5, Together

LEMMA PollAskKeeps == ASSUME IInv, phase # "gone", PollAsk PROVE IInv'
<1>1. poll' \in [pc : {"armed", "asked", "off"}, state : {"stopped", "starting", "running"}, healthy : BOOLEAN]
  <2>1. CASE Polled
    <3>1. PICK a \in Answers : poll' = [pc |-> "asked", state |-> state, healthy |-> a # "none"]
      BY <2>1 DEF PollAsk
    <3> QED BY <3>1 DEF IInv, Belief
  <2>2. CASE ~ Polled
    BY <2>2 DEF PollAsk, IInv, Beside
  <2> QED BY <2>1, <2>2
<1>2. Beside' /\ FlowInv' /\ flow'["quit"] = flow["quit"] /\ phase' = phase
  BY <1>1, FlowsStay DEF PollAsk
<1>3. Outside' /\ Grown
  BY Unmoved DEF PollAsk, kernel, IInv, Outside
<1>4. Belief' /\ child' = child /\ pid' \in {pid, None}
  BY ProcessAssumption DEF PollAsk, Dropped, IInv, Belief
<1>5. SupInv' /\ leaving' = leaving
  BY DEF PollAsk, history, IInv, SupInv
<1>6. Known'
  BY <1>3, <1>4, KnownStays
<1> QED BY <1>2, <1>3, <1>4, <1>5, <1>6, Together

LEMMA PollReturnKeeps == ASSUME IInv, phase # "gone", PollReturn PROVE IInv'
<1> DEFINE doubted == ~ poll.healthy /\ state = "running" /\ ~ blocked
           now == IF doubted THEN "stopped" ELSE state
<1>1. Beside' /\ FlowInv' /\ flow'["quit"] = flow["quit"] /\ phase' = phase
  <2>1. poll' = [pc |-> "armed", state |-> "stopped", healthy |-> FALSE] /\ UNCHANGED <<flow, quitting, phase, clicks>>
    BY DEF PollReturn
  <2> QED BY <2>1, FlowsStay
<1>2. Outside' /\ Grown
  BY Unmoved DEF PollReturn, kernel, IInv, Outside
<1>3. state' \in {"stopped", "starting", "running"}
  BY DEF PollReturn, IInv, Belief
<1>4. Belief' /\ child' = child /\ pid' \in {pid, None}
  <2>1. pid' \in {pid, None} /\ UNCHANGED <<child, owned, stopRequested, blocked>>
    BY DEF PollReturn, Dropped
  <2> QED BY <1>3, <2>1, ProcessAssumption DEF IInv, Belief
<1>5. SupInv' /\ leaving' = leaving
  <2>1. \/ SuperviseDown(FALSE)
        \/ sup' = StillUp(sup) /\ UNCHANGED <<timer, history>>
        \/ NotSupervised
    BY DEF PollReturn
  <2>2. quitting \in BOOLEAN /\ FALSE \in BOOLEAN /\ SupInv
    BY DEF IInv, Beside
  <2>3. CASE SuperviseDown(FALSE)
    <3>1. PICK e \in BOOLEAN : SuperviseDown(e)
      BY <2>2, <2>3, Zenon
    <3> QED BY <2>2, <3>1, DownKeeps
  <2>4. CASE sup' = StillUp(sup) /\ UNCHANGED <<timer, history>>
    BY <2>2, <2>4, StillUpKeeps DEF history
  <2> QED BY <2>1, <2>2, <2>3, <2>4, NotSupervisedKeeps
<1>6. Known'
  BY <1>2, <1>4, KnownStays
<1> QED BY <1>1, <1>2, <1>4, <1>5, <1>6, Together

\* The window is over only when no restart is scheduled.
LEMMA TickKeeps == ASSUME IInv, phase # "gone", Tick PROVE IInv'
<1>1. Beside' /\ FlowInv' /\ flow'["quit"] = flow["quit"] /\ phase' = phase
  BY FlowsStay DEF Tick, IInv, Beside
<1>2. Outside' /\ Belief' /\ Grown /\ UNCHANGED <<child, pid, leaving>>
  BY Unmoved DEF Tick, kernel, app, IInv, Outside, Belief
<1>3. SupInv'
  <2>1. /\ sup \in Supervisor /\ timer \in BOOLEAN /\ spree \in Nat /\ spree <= sup.attempts
        /\ timer => spree < sup.attempts /\ sup.up + 1 < Window
        /\ sup.up \in 0..(Window - 1) /\ timer' = timer
    BY DEF Tick, IInv, SupInv
  <2>2. sup' = [sup EXCEPT !.up = @ + 1] /\ spree' = IF sup.up + 1 = Window THEN 0 ELSE spree
    BY <2>1 DEF Tick, Aged
  <2>3. sup' \in Supervisor /\ sup'.up = sup.up + 1 /\ sup'.attempts = sup.attempts /\ sup.attempts \in Nat
    BY <2>1, <2>2, PolicyAssumption DEF Supervisor
  <2>4. CASE sup.up + 1 = Window
    <3>1. ~ timer /\ spree' = 0
      BY <2>1, <2>2, <2>4
    <3> QED BY <2>1, <2>3, <3>1 DEF SupInv
  <2>5. CASE sup.up + 1 # Window
    BY <2>1, <2>2, <2>3, <2>5 DEF SupInv
  <2> QED BY <2>4, <2>5
<1>4. Known'
  BY <1>2, KnownStays
<1> QED BY <1>1, <1>2, <1>3, <1>4, Together
-----------------------------------------------------------------------------
(* Quit.                                                                   *)

LEMMA QuitKeeps == ASSUME IInv, phase # "gone", Quit PROVE IInv'
<1>1. phase' = "running" /\ QuitTakesTheServer'
  BY DEF Quit, QuitTakesTheServer
<1>2. Outside' /\ Beside' /\ UNCHANGED <<life, sup, spree>> /\ timer' = FALSE
  BY DEF Quit, kernel, NoPoll, IInv, Outside, Beside
<1>3. SupInv'
  BY <1>2 DEF IInv, SupInv
<1>4. leaving' = (IF owned THEN Target ELSE None) /\ Target \in Pid \cup {None}
      /\ (owned => Target \in Child \cup {None})
  BY TargetType DEF Quit, IInv
<1>5. CASE owned
  <2>1. PICK c \in BOOLEAN : EnterStop("quit", "stop", c)
    <3>1. EnterStop("quit", "stop", FALSE)
      BY <1>5 DEF Quit, Permitted
    <3> QED BY <3>1, Zenon
  <2>2. "quit" \in Flow /\ "stop" \in {"none", "start", "stop", "restart", "takeover"} /\ FlowInv /\ Belief
    BY QuitIsFlow DEF IInv
  <2>3. /\ FlowInv' /\ Belief' /\ UNCHANGED <<child, pid>>
        /\ flow'["quit"].pc = (IF Target = None THEN "settle" ELSE "term")
        /\ flow'["quit"].act = "stop" /\ flow'["quit"].pid = Target
    BY <1>5, <2>1, <2>2, EnterStopKeeps
  <2>4. Teardown'
    BY <1>1, <1>4, <1>5, <2>3 DEF Teardown
  <2>5. Target # None => life[Target] # "unborn"
    BY DEF Target, IInv, Born
  <2>6. Born'
    BY <1>2, <1>4, <1>5, <2>3, <2>5 DEF IInv, Born
  <2> QED BY <1>1, <1>2, <1>3, <2>3, <2>4, <2>6 DEF IInv
<1>6. CASE ~ owned
  <2>1. Refused /\ flow' = flow
    BY <1>6 DEF Quit, Permitted
  <2>2. Belief' /\ UNCHANGED <<child, pid>>
    BY <2>1 DEF Refused, app, IInv, Belief
  <2>3. FlowInv'
    BY <2>1 DEF IInv, FlowInv, StrangersAreSpared
  <2>4. Teardown' /\ Born'
    BY <1>2, <1>4, <1>6, <2>2 DEF Teardown, IInv, Born
  <2> QED BY <1>1, <1>2, <1>3, <2>2, <2>3, <2>4 DEF IInv
<1> QED BY <1>5, <1>6 DEF IInv, Belief

\* The quit is let through when its flow is over, and then what it left behind is known.
LEMMA ExitKeeps == ASSUME IInv, phase # "gone", Exit PROVE IInv'
<1>1. Outside' /\ Belief' /\ Beside'
  BY DEF Exit, kernel, NoPoll, IInv, Outside, Belief, Beside
<1>2. FlowInv'
  <2>1. flow' = [f \in Flow |-> Idle] /\ Idle \in Entry /\ Idle.pc # "term"
    BY IdleType DEF Exit
  <2> QED BY <2>1 DEF FlowInv, StrangersAreSpared
<1>3. SupInv'
  BY FreshKeeps DEF Exit
<1>4. child' = None /\ pid' = None /\ phase' = "gone" /\ UNCHANGED <<life, leaving>>
  BY DEF Exit, kernel
<1>5. ~ Alive(leaving) \/ leaving \in Resists
  BY DEF Exit, LetThrough, IInv, Teardown, Alive
<1>6. Born' /\ Teardown' /\ QuitTakesTheServer'
  BY <1>4, <1>5 DEF IInv, Born, Teardown, QuitTakesTheServer, Alive
<1> QED BY <1>1, <1>2, <1>3, <1>6 DEF IInv
-----------------------------------------------------------------------------
(* The theorems.                                                           *)

LEMMA InitHolds == ASSUME Init PROVE IInv
<1>1. Outside /\ Belief /\ Beside
  <2>1. Outside
    BY DEF Init, Outside
  <2>2. Belief
    BY DEF Init, Belief
  <2>3. Beside
    <3>1. quitting = FALSE /\ phase = "idle" /\ clicks = 0 /\ MaxClicks \in Nat
      BY FlowAssumption DEF Init
    <3>2. poll = [pc |-> "armed", state |-> "stopped", healthy |-> FALSE]
      BY DEF Init
    <3>3. clicks \in 0..MaxClicks
      BY <3>1
    <3> QED BY <3>1, <3>2, <3>3 DEF Beside
  <2> QED BY <2>1, <2>2, <2>3
<1>2. FlowInv
  <2> DEFINE launch == [Idle EXCEPT !.pc = "probe", !.act = "start"]
  <2>1. launch \in Entry /\ launch.pc # "term" /\ Idle \in Entry /\ Idle.pc # "term"
    BY IdleType DEF Idle, Entry, Place
  <2>2. flow = [f \in Flow |-> IF f \in Click THEN launch ELSE Idle]
    BY DEF Init
  <2> HIDE DEF launch
  <2> QED BY <2>1, <2>2 DEF FlowInv, StrangersAreSpared
<1>3. SupInv
  <2>1. Fresh \in Supervisor /\ Fresh.attempts = 0 /\ Fresh.up = -1 /\ -1 # Window
    BY PolicyAssumption DEF Fresh, Supervisor
  <2>2. sup = Fresh /\ spree = 0 /\ timer = FALSE
    BY DEF Init
  <2>3. sup \in Supervisor /\ sup.attempts = 0 /\ sup.up # Window
    BY <2>1, <2>2
  <2>4. timer \in BOOLEAN /\ ~ timer /\ spree = 0
    BY <2>2
  <2> QED BY <2>3, <2>4 DEF SupInv
<1>4. Born /\ Teardown /\ QuitTakesTheServer
  BY DEF Init, Born, Teardown, QuitTakesTheServer
<1> QED BY <1>1, <1>2, <1>3, <1>4 DEF IInv

LEMMA NextKeeps == ASSUME IInv, Next PROVE IInv'
<1>1. phase # "gone" /\ (World \/ Loop)
  BY DEF Next
<1>2. CASE World
  BY <1>1, <1>2, DieKeeps, ServeKeeps DEF World
<1>3. CASE Loop
  <2>1. ASSUME NEW f \in Flow, Advance(f) PROVE IInv'
    BY <1>1, <2>1, ProbeKeeps, AskKeeps, HolderKeeps, TermKeeps, SettleKeeps, RestKeeps,
       TakeKeeps, FreeKeeps DEF Advance
  <2>2. ASSUME NEW f \in Flow, ClickMenu(f) \/ Answer(f) PROVE IInv'
    BY <1>1, <2>2, ClickMenuKeeps, AnswerKeeps
  <2>3. CASE \E c \in exits : Deliver(c)
    BY <1>1, <2>3, DeliverKeeps
  <2>4. CASE Fire \/ Poll \/ Tick \/ Quit \/ Exit
    BY <1>1, <2>4, FireKeeps, PollAskKeeps, PollReturnKeeps, TickKeeps, QuitKeeps, ExitKeeps DEF Poll
  <2> QED BY <1>3, <2>1, <2>2, <2>3, <2>4 DEF Loop
<1> QED BY <1>1, <1>2, <1>3

LEMMA StutterKeeps == ASSUME IInv, UNCHANGED vars PROVE IInv'
<1>1. UNCHANGED <<life, version, exits, child, pid, owned, stopRequested, blocked, state, timer,
                  quitting, sup, phase, flow, poll, clicks, spree, leaving>>
  BY DEF vars, kernel, app, history
<1>2. Outside' /\ Belief' /\ Beside'
  BY <1>1 DEF IInv, Outside, Belief, Beside
<1>3. FlowInv' /\ SupInv' /\ Born'
  BY <1>1 DEF IInv, FlowInv, StrangersAreSpared, SupInv, Born
<1>4. Teardown' /\ QuitTakesTheServer'
  BY <1>1 DEF IInv, Teardown, QuitTakesTheServer, Alive
<1> QED BY <1>2, <1>3, <1>4 DEF IInv

LEMMA Inductive == Spec => []IInv
<1>1. IInv /\ [Next]_vars => IInv'
  BY NextKeeps, StutterKeeps
<1> QED BY InitHolds, <1>1, PTL DEF Spec

\* The manager holds what the code can put there, and owns no process that is not a
\* child of its own.
THEOREM TypeCorrect == Spec => []TypeOK
<1>1. IInv => TypeOK
  <2>1. ASSUME IInv PROVE TypeOK
    BY <2>1 DEF IInv, Outside, Belief, Beside, FlowInv, SupInv, Teardown, Entry, Place, TypeOK
  <2> QED BY <2>1
<1> QED BY <1>1, Inductive, PTL

\* Any number of flows may overlap: none signals a stranger's server without consent.
THEOREM StrangersStay == Spec => []StrangersAreSpared
<1>1. IInv => StrangersAreSpared
  BY DEF IInv, FlowInv
<1> QED BY <1>1, Inductive, PTL

\* For every budget and every window: a crash loop stops.
THEOREM RestartsStayBounded == Spec => []RestartsAreBounded
<1>1. IInv => RestartsAreBounded
  <2>1. ASSUME IInv PROVE RestartsAreBounded
    <3>1. spree \in Nat /\ spree <= sup.attempts /\ sup.attempts \in 0..MaxAttempts
      BY <2>1 DEF IInv, SupInv, Supervisor
    <3> QED BY <3>1, PolicyAssumption DEF RestartsAreBounded
  <2> QED BY <2>1
<1> QED BY <1>1, Inductive, PTL

\* The application does not go before its server has.
THEOREM QuitTakesIt == Spec => []QuitTakesTheServer
<1>1. IInv => QuitTakesTheServer
  BY DEF IInv
<1> QED BY <1>1, Inductive, PTL
=============================================================================
