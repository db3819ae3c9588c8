--------------------------- MODULE SupervisorPolicy ---------------------------
(***************************************************************************)
(* Whether a dead server is restarted automatically, and how many times    *)
(* (macOS/supervisor-policy.js).  A supervisor is a record; its clock is   *)
(* the age of upSince, which stops counting at the healthy window.         *)
(***************************************************************************)
EXTENDS Integers

CONSTANTS MaxAttempts,  \* maxAttempts
          Window        \* healthyResetMs, in ticks

ASSUME PolicyAssumption == MaxAttempts \in Nat /\ Window \in Nat \ {0}

Supervisor == [attempts : 0..MaxAttempts, gaveUp : BOOLEAN, up : -1..Window]

\* createSupervisor() and reset(); an age of -1 is an upSince of null.
Fresh == [attempts |-> 0, gaveUp |-> FALSE, up |-> -1]

\* recordDown() answers `restart' while the budget lasts.
Restarts(s, deliberate) == ~ deliberate /\ ~ s.gaveUp /\ s.attempts < MaxAttempts

\* recordDown(): a deliberate stop spends nothing.
Down(s, deliberate) ==
    CASE deliberate -> [s EXCEPT !.up = -1]
      [] ~ deliberate /\ Restarts(s, deliberate) ->
           [attempts |-> s.attempts + 1, gaveUp |-> s.gaveUp, up |-> -1]
      [] OTHER -> [attempts |-> s.attempts, gaveUp |-> TRUE, up |-> -1]

\* Mutation: coming up clears the budget.
UpCleared(s) == [Fresh EXCEPT !.up = 0]

\* recordUp(): coming up is not staying up.
Up(s) == [s EXCEPT !.up = 0]

\* noteStillUp().
StillUp(s) ==
    CASE s.up = -1 -> [s EXCEPT !.up = 0]
      [] s.up >= Window -> [attempts |-> 0, gaveUp |-> FALSE, up |-> s.up]
      [] OTHER -> s

\* now(), seen from upSince.
Aged(s) == IF s.up \in 0..(Window - 1) THEN [s EXCEPT !.up = @ + 1] ELSE s
=============================================================================
