----------------------------- MODULE ToastsProofs -----------------------------
(***************************************************************************)
(* What holds of Toasts for any number of handlers, hooks and dismissals:  *)
(* its type invariant, that one "your turn" stands at most, that an open   *)
(* toast leaves only by a dismissal, an answer or a newer turn, and that   *)
(* the reason of an acknowledgement is never rewritten.  In the end, that   *)
(* ToastPages implements Toasts: pages reach the records by dismissals of  *)
(* toasts they were told of, so all of it holds behind any number of them. *)
(***************************************************************************)
EXTENDS ToastPages, TLAPS

\* Every toast bears an id and an instant that the clock has given out.
Dated == \A t \in toasts : t.id <= clock /\ t.at <= clock

Inv == TypeOK /\ Dated /\ OneYourTurn

\* What ack_toast() makes of one record.
Mark(t, ids, reason) ==
    IF t.id \in ids /\ t.ack = "open" THEN [t EXCEPT !.ack = reason] ELSE t

Reasons == {"answered", "dismissed"}
-----------------------------------------------------------------------------
(* Pruning and acknowledging.                                              *)

LEMMA PrunedKeeps ==
    ASSUME NEW ts
    PROVE  Pruned(ts) \subseteq ts /\ \A t \in ts : t.ack = "open" => t \in Pruned(ts)
BY DEF Pruned

LEMMA MarkFacts ==
    ASSUME NEW t \in Toast, NEW ids, NEW reason \in Reasons
    PROVE  /\ Mark(t, ids, reason) \in Toast
           /\ Mark(t, ids, reason).id = t.id /\ Mark(t, ids, reason).at = t.at
           /\ Mark(t, ids, reason).kind = t.kind
           /\ Mark(t, ids, reason).ack = "open" => Mark(t, ids, reason) = t
           /\ t.ack # "open" \/ t.id \notin ids => Mark(t, ids, reason) = t
BY DEF Mark, Toast, Reasons

LEMMA AckedFrom ==
    ASSUME NEW ids, NEW reason, NEW u \in Acked(ids, reason)
    PROVE  \E t \in toasts : u = Mark(t, ids, reason)
BY PrunedKeeps DEF Acked, Mark

LEMMA AckedTo ==
    ASSUME TypeOK, NEW ids, NEW reason, NEW t \in OpenToasts(toasts), t.id \notin ids
    PROVE  t \in Acked(ids, reason)
BY PrunedKeeps DEF Acked, OpenToasts

\* Acknowledging keeps the invariant.
LEMMA AckedInv ==
    ASSUME Inv, NEW ids, NEW reason \in Reasons, toasts' = Acked(ids, reason), UNCHANGED clock
    PROVE  /\ toasts' \subseteq Toast /\ Dated' /\ OneYourTurn'
           /\ \A t \in toasts, u \in toasts' : t.id = u.id /\ t.ack # "open" => u = t
<1>1. toasts \subseteq Toast
  BY DEF Inv, TypeOK
<1>2. \A u \in toasts' : \E t \in toasts :
        /\ u = Mark(t, ids, reason) /\ u \in Toast
        /\ u.id = t.id /\ u.at = t.at /\ u.kind = t.kind
        /\ u.ack = "open" => u = t
        /\ t.ack # "open" => u = t
  BY <1>1, AckedFrom, MarkFacts
<1>3. \A t, u \in toasts : t.id = u.id => t = u
  BY DEF Inv, OneYourTurn
<1>4. \A u, v \in toasts' : u.id = v.id => u = v
  BY <1>2, <1>3
<1>5. OpenToasts(toasts') \subseteq OpenToasts(toasts)
  BY <1>2 DEF OpenToasts
<1>6. OneYourTurn'
  BY <1>4, <1>5 DEF Inv, OneYourTurn
<1>7. Dated'
  BY <1>2 DEF Inv, Dated
<1>8. QED  BY <1>2, <1>3, <1>6, <1>7
-----------------------------------------------------------------------------
(* Raising.                                                                *)

\* The raised toast is dated now, and bears a new id or that of what it supersedes.
LEMMA NewFacts ==
    ASSUME Inv, NEW h \in Handler, hook[h].kind \in TOAST_EVENTS
    PROVE  /\ NewToast(hook[h]) \in Toast /\ NewToast(hook[h]).at = clock + 1
           /\ NewToast(hook[h]).kind = hook[h].kind /\ NewToast(hook[h]).ack = "open"
           /\ \/ NewToast(hook[h]).id = clock + 1 /\ Supersedable(hook[h].kind) = {}
              \/ \E s \in Supersedable(hook[h].kind) : NewToast(hook[h]).id = s.id
<1> DEFINE S == Supersedable(hook[h].kind)
<1>1. S \subseteq toasts /\ toasts \subseteq Toast /\ clock \in Nat
  BY DEF Supersedable, OpenToasts, Inv, TypeOK
<1>2. CASE S = {}
  BY <1>1, <1>2 DEF NewToast, Toast
<1>3. CASE S # {}
  <2>1. Ids(S) # {}
    BY <1>3 DEF Ids
  <2>2. PICK i \in Ids(S) : NewToast(hook[h]).id = i
    BY <2>1, <1>3 DEF NewToast
  <2>3. PICK s \in S : i = s.id
    BY DEF Ids
  <2>4. i \in Nat
    BY <1>1, <2>3 DEF Toast
  <2>5. NewToast(hook[h]) = [id |-> i, at |-> clock + 1, kind |-> hook[h].kind, ack |-> "open"]
    BY <2>2 DEF NewToast
  <2>6. QED  BY <1>1, <2>2, <2>3, <2>4, <2>5 DEF Toast
<1>4. QED  BY <1>2, <1>3

\* What a step of RaiseToast in a live session leaves: old toasts that were not
\* superseded, and the new one.
LEMMA RaisedFrom ==
    ASSUME Inv, NEW h \in Handler, RaiseToast(h), live
    PROVE  /\ hook[h].kind \in TOAST_EVENTS => NewToast(hook[h]) \in toasts'
           /\ \A t \in OpenToasts(toasts) :
                 t \in Supersedable(hook[h].kind) \/ t \in toasts'
           /\ \A u \in toasts' : \/ u \in toasts /\ u \notin Supersedable(hook[h].kind)
                                 \/ u = NewToast(hook[h])
<1> DEFINE old == toasts \ Supersedable(hook[h].kind)
           all == old \cup {NewToast(hook[h])}
<1>1. toasts' = Pruned(all)
  BY DEF RaiseToast
<1>2. Pruned(all) \subseteq all /\ \A t \in all : t.ack = "open" => t \in Pruned(all)
  BY PrunedKeeps
<1>3. hook[h].kind \in TOAST_EVENTS => NewToast(hook[h]).ack = "open"
  BY NewFacts
<1>4. QED  BY <1>1, <1>2, <1>3 DEF OpenToasts

\* A handler that is about to raise has a kind that is raised.
Raises == \A h \in Handler : hook[h].phase = "toast" => hook[h].kind \in TOAST_EVENTS

IInv == Inv /\ Raises

LEMMA RaiseInv ==
    ASSUME IInv, NEW h \in Handler, RaiseToast(h), live
    PROVE  /\ toasts' \subseteq Toast /\ clock' \in Nat /\ Dated' /\ OneYourTurn'
           /\ \A t \in toasts, u \in toasts' : t.id = u.id /\ t.ack # "open" => u = t
<1> DEFINE n == NewToast(hook[h])
           S == Supersedable(hook[h].kind)
<1>1. clock' = clock + 1 /\ clock \in Nat /\ toasts \subseteq Toast
  BY DEF RaiseToast, IInv, Inv, TypeOK
<1>2. hook[h].kind \in TOAST_EVENTS
  BY DEF RaiseToast, IInv, Raises
<1>3. /\ n \in Toast /\ n.at = clock + 1 /\ n.kind = hook[h].kind /\ n.ack = "open"
      /\ (n.id = clock + 1 /\ S = {}) \/ (\E s \in S : n.id = s.id)
  BY <1>2, NewFacts DEF IInv
<1>4. \A u \in toasts' : (u \in toasts /\ u \notin S) \/ u = n
  BY RaisedFrom DEF IInv
<1>5. \A t, u \in toasts : t.id = u.id => t = u
  BY DEF IInv, Inv, OneYourTurn
<1>6. \A t \in toasts : t.id \in Nat /\ t.at \in Nat /\ t.id <= clock /\ t.at <= clock
  BY <1>1 DEF IInv, Inv, Dated, Toast
<1>7. S \subseteq OpenToasts(toasts) /\ OpenToasts(toasts) \subseteq toasts
  BY DEF Supersedable, OpenToasts
\* The new toast shares its id with none that stays.
<1>8. \A t \in toasts : t \notin S => t.id # n.id
  BY <1>1, <1>3, <1>5, <1>6, <1>7
<1>9. \A u, v \in toasts' : u.id = v.id => u = v
  BY <1>4, <1>5, <1>8
<1>10. \A u \in toasts' : u.kind = "Stop" /\ u.ack = "open" /\ hook[h].kind = "Stop" => u = n
  BY <1>4 DEF Supersedable, OpenToasts
<1>11. \A t, u \in OpenToasts(toasts') : t.kind = "Stop" /\ u.kind = "Stop" => t = u
  <2>1. CASE hook[h].kind = "Stop"
    BY <2>1, <1>10 DEF OpenToasts
  <2>2. CASE hook[h].kind # "Stop"
    BY <2>2, <1>3, <1>4 DEF OpenToasts, IInv, Inv, OneYourTurn
  <2>3. QED  BY <2>1, <2>2
<1>12. OneYourTurn'
  BY <1>9, <1>11 DEF OneYourTurn
<1>13. n.id <= clock + 1 /\ n.at <= clock + 1
  BY <1>1, <1>3, <1>6, <1>7
<1>14. Dated'
  BY <1>1, <1>4, <1>6, <1>13 DEF Dated
<1>15. \A t \in toasts, u \in toasts' : t.id = u.id /\ t.ack # "open" => u = t
  BY <1>4, <1>5, <1>7, <1>8 DEF OpenToasts
<1>16. QED  BY <1>1, <1>3, <1>4, <1>12, <1>14, <1>15
-----------------------------------------------------------------------------
(* The invariant.                                                          *)

LEMMA InitInv == Init => IInv
BY BoundsAssumption
   DEF Init, IInv, Inv, TypeOK, Dated, OneYourTurn, Raises, NoHook, Kinds, TOAST_EVENTS, OpenToasts

LEMMA HookTypes ==
    ASSUME TypeOK, NEW h \in Handler
    PROVE  /\ hook[h].kind \in Kinds /\ hook[h].received \in Nat
           /\ [hook EXCEPT ![h] = NoHook] \in
                [Handler -> [phase : {"idle", "body", "toast"}, kind : Kinds, received : Nat]]
           /\ [hook EXCEPT ![h] = [hook[h] EXCEPT !.phase = "toast"]] \in
                [Handler -> [phase : {"idle", "body", "toast"}, kind : Kinds, received : Nat]]
BY DEF TypeOK, NoHook, Kinds, TOAST_EVENTS

\* A step keeps the invariant, and never rewrites a reason.
LEMMA StepInv ==
    ASSUME IInv, [Next]_vars
    PROVE  /\ IInv'
           /\ \A t \in toasts, u \in toasts' : t.id = u.id /\ t.ack # "open" => u = t
<1> USE DEF IInv
<1>0. \A t, u \in toasts : t.id = u.id => t = u
  BY DEF Inv, OneYourTurn
<1>1. CASE UNCHANGED vars
  BY <1>0, <1>1 DEF vars, Inv, TypeOK, Dated, OneYourTurn, Raises, OpenToasts
<1>2. ASSUME NEW h \in Handler, NEW kind \in Kinds, Receive(h, kind)
      PROVE  IInv' /\ \A t \in toasts, u \in toasts' : t.id = u.id /\ t.ack # "open" => u = t
  <2>1. TypeOK'
    BY <1>2, BoundsAssumption DEF Receive, Inv, TypeOK
  <2>2. Dated' /\ OneYourTurn'
    BY <1>2 DEF Receive, Inv, Dated, OneYourTurn, OpenToasts
  <2>3. Raises'
    BY <1>2 DEF Receive, Raises, Inv, TypeOK
  <2>4. QED  BY <1>0, <1>2, <2>1, <2>2, <2>3 DEF Receive, Inv
<1>3. ASSUME NEW h \in Handler, NEW quiet \in BOOLEAN, Apply(h, quiet)
      PROVE  IInv' /\ \A t \in toasts, u \in toasts' : t.id = u.id /\ t.ack # "open" => u = t
  <2>1. /\ toasts' \subseteq Toast /\ Dated' /\ OneYourTurn'
        /\ \A t \in toasts, u \in toasts' : t.id = u.id /\ t.ack # "open" => u = t
    BY <1>3, AckedInv DEF Apply, Reasons
  <2>2. TypeOK'
    BY <1>3, <2>1, HookTypes DEF Apply, Inv, TypeOK
  <2>3. Raises'
    BY <1>3, HookTypes DEF Apply, Raises, NoHook, Inv, TypeOK
  <2>4. QED  BY <2>1, <2>2, <2>3 DEF Inv
<1>4. ASSUME NEW h \in Handler, RaiseToast(h)
      PROVE  IInv' /\ \A t \in toasts, u \in toasts' : t.id = u.id /\ t.ack # "open" => u = t
  <2>1. /\ toasts' \subseteq Toast /\ clock' \in Nat /\ Dated' /\ OneYourTurn'
        /\ \A t \in toasts, u \in toasts' : t.id = u.id /\ t.ack # "open" => u = t
    <3>1. CASE live
      BY <1>4, <3>1, RaiseInv
    <3>2. CASE ~ live
      BY <1>0, <1>4, <3>2 DEF RaiseToast, Inv, TypeOK, Dated, OneYourTurn, OpenToasts
    <3>3. QED  BY <3>1, <3>2
  <2>2. TypeOK'
    BY <1>4, <2>1, HookTypes DEF RaiseToast, Inv, TypeOK
  <2>3. Raises'
    BY <1>4 DEF RaiseToast, Raises, NoHook, Inv, TypeOK
  <2>4. QED  BY <2>1, <2>2, <2>3 DEF Inv
<1>5. ASSUME NEW i \in 1..clock, Ack(i)
      PROVE  IInv' /\ \A t \in toasts, u \in toasts' : t.id = u.id /\ t.ack # "open" => u = t
  <2>1. /\ toasts' \subseteq Toast /\ Dated' /\ OneYourTurn'
        /\ \A t \in toasts, u \in toasts' : t.id = u.id /\ t.ack # "open" => u = t
    BY <1>5, AckedInv DEF Ack, Reasons
  <2>2. TypeOK' /\ Raises'
    BY <1>5, <2>1 DEF Ack, Inv, TypeOK, Raises
  <2>3. QED  BY <2>1, <2>2 DEF Inv
<1>6. CASE Wipe
  BY <1>6 DEF Wipe, Inv, TypeOK, Dated, OneYourTurn, Raises, OpenToasts
<1>7. QED  BY <1>1, <1>2, <1>3, <1>4, <1>5, <1>6 DEF Next, Handle

LEMMA Invariance == Spec => []IInv
<1>1. IInv /\ [Next]_vars => IInv'
  BY StepInv
<1>2. QED  BY InitInv, <1>1, PTL DEF Spec
-----------------------------------------------------------------------------
\* Whatever hooks come, in whatever order, the records and handlers are well typed
\* (record_toast(), claude_event_hook()).
THEOREM TypeCorrect == Spec => []TypeOK
BY Invariance, PTL DEF IInv, Inv

\* One "your turn" stands at most, and no id stands for two toasts, for any number of
\* overlapping handlers (_find_supersedable_toast()).
THEOREM OneTurnStands == Spec => []OneYourTurn
BY Invariance, PTL DEF IInv, Inv

\* The reason of an acknowledgement is never rewritten (ack_toast()).
THEOREM ReasonStays == Spec => ReasonStands
<1>1. IInv /\ [Next]_vars => [\A t \in toasts, u \in toasts' :
                                t.id = u.id /\ t.ack # "open" => u.ack = t.ack]_vars
  BY StepInv
<1>2. QED  BY Invariance, <1>1, PTL DEF Spec, ReasonStands

\* How an open toast may leave.
Leaves(t) ==
    \/ t \in toasts'
    \/ t.kind = "Stop" /\ \E u \in OpenToasts(toasts') : u.kind = "Stop" /\ u.at > t.at
    \/ Ack(t.id)
    \/ \E h \in Handler : /\ hook[h].phase = "body" /\ hook'[h].phase # "body"
                          /\ hook[h].received >= t.at
                          /\ t.kind \in AUTO_ACK_KINDS(hook[h].kind)

LEMMA StepLeaves ==
    ASSUME IInv, Next, live', NEW t \in OpenToasts(toasts)
    PROVE  Leaves(t)
<1>0. t \in toasts /\ t.ack = "open" /\ t \in Toast
  BY DEF OpenToasts, IInv, Inv, TypeOK
<1>1. ASSUME NEW h \in Handler, NEW kind \in Kinds, Receive(h, kind)
      PROVE  Leaves(t)
  BY <1>0, <1>1 DEF Receive, Leaves
<1>2. ASSUME NEW h \in Handler, NEW quiet \in BOOLEAN, Apply(h, quiet)
      PROVE  Leaves(t)
  <2> DEFINE ids == Ids({u \in toasts : Answers(hook[h], u)})
  <2>1. CASE t.id \notin ids
    BY <1>2, <2>1, AckedTo DEF Apply, Leaves, IInv, Inv
  <2>2. CASE t.id \in ids
    <3>1. PICK u \in toasts : Answers(hook[h], u) /\ u.id = t.id
      BY <2>2 DEF Ids
    <3>2. Answers(hook[h], t)
      BY <1>0, <3>1 DEF IInv, Inv, OneYourTurn
    <3>3. hook[h].received \in Nat /\ t.at \in Nat
      BY <1>0, HookTypes DEF Toast, IInv, Inv
    <3>4. hook[h].phase = "body" /\ hook'[h].phase # "body"
      BY <1>2 DEF Apply, NoHook, IInv, Inv, TypeOK
    <3>5. QED  BY <3>2, <3>3, <3>4 DEF Answers, Leaves
  <2>3. QED  BY <2>1, <2>2
<1>3. ASSUME NEW h \in Handler, RaiseToast(h)
      PROVE  Leaves(t)
  <2>1. live /\ hook[h].kind \in TOAST_EVENTS
    BY <1>3 DEF RaiseToast, IInv, Raises
  <2>2. CASE t \in toasts'
    BY <2>2 DEF Leaves
  <2>3. CASE t \notin toasts'
    <3>1. t \in Supersedable(hook[h].kind) /\ NewToast(hook[h]) \in toasts'
      BY <1>3, <2>1, <2>3, RaisedFrom DEF IInv
    <3>2. t.kind = "Stop" /\ hook[h].kind = "Stop"
      BY <3>1 DEF Supersedable
    <3>3. NewToast(hook[h]).at > t.at
      BY <1>0, <2>1, NewFacts DEF IInv, Inv, Dated, TypeOK, Toast
    <3>4. NewToast(hook[h]) \in OpenToasts(toasts') /\ NewToast(hook[h]).kind = "Stop"
      BY <2>1, <3>1, <3>2, NewFacts DEF IInv, OpenToasts
    <3>5. QED  BY <3>2, <3>3, <3>4 DEF Leaves
  <2>4. QED  BY <2>2, <2>3
<1>4. ASSUME NEW i \in 1..clock, Ack(i)
      PROVE  Leaves(t)
  <2>1. CASE t.id = i
    BY <1>4, <2>1 DEF Leaves
  <2>2. CASE t.id # i
    BY <1>4, <2>2, AckedTo DEF Ack, Leaves, IInv, Inv
  <2>3. QED  BY <2>1, <2>2
<1>5. ASSUME Wipe
      PROVE  Leaves(t)
  BY <1>5 DEF Wipe
<1>6. QED  BY <1>1, <1>2, <1>3, <1>4, <1>5 DEF Next, Handle

\* An open toast of a live session leaves only by a dismissal, a newer "your turn", or
\* an answer that arrived after it was raised, for any cap and any number of handlers
\* (_prune_toasts(), resolve_auto_acks()).
THEOREM NothingIsLost == Spec => NoToastIsLost
<1>1. IInv /\ [Next]_vars =>
        [live' => \A t \in OpenToasts(toasts) : Leaves(t)]_vars
  BY StepLeaves
<1>2. QED  BY Invariance, <1>1, PTL DEF Spec, NoToastIsLost, Leaves
-----------------------------------------------------------------------------
(* The pages.                                                              *)

\* What a page can have been told of when n ids have been given out.
Shown(n) == [id : 1..n, at : 0..n]
Frame(n) == [type : {"toast.new", "toast.ack"}, card : Shown(n)]
PollType(n) == [phase : {"idle", "asked", "answered"}, held : SUBSET (1..n), list : SUBSET Shown(n)]

PagesTypeOK ==
    /\ acks \subseteq 1..clock
    /\ cards \in [Page -> SUBSET Shown(clock)]
    /\ frames \in [Page -> SUBSET Frame(clock)]
    /\ poll \in [Page -> PollType(clock)]
    /\ ring \in [Page -> SUBSET (1..clock)]

Numbered == \A t \in toasts : t.id >= 1

PInv == IInv /\ Numbered /\ PagesTypeOK

LEMMA NumberedStep ==
    ASSUME IInv, Numbered, [Next]_vars
    PROVE  IInv' /\ Numbered' /\ clock \in Nat /\ clock' \in Nat /\ clock <= clock'
<1>1. IInv' /\ clock \in Nat /\ clock' \in Nat /\ toasts \subseteq Toast
  BY StepInv DEF IInv, Inv, TypeOK
<1>2. ASSUME NEW ids, NEW reason \in Reasons, toasts' = Acked(ids, reason)
      PROVE  Numbered'
  BY <1>1, <1>2, AckedFrom, MarkFacts DEF Numbered
<1>3. CASE UNCHANGED <<toasts, clock>>
  BY <1>1, <1>3 DEF Numbered
<1>4. ASSUME NEW h \in Handler, NEW quiet \in BOOLEAN, Apply(h, quiet)
      PROVE  Numbered' /\ clock <= clock'
  BY <1>1, <1>2, <1>4 DEF Apply, Reasons
<1>5. ASSUME NEW h \in Handler, RaiseToast(h)
      PROVE  Numbered' /\ clock <= clock'
  <2>1. CASE live
    <3>1. clock' = clock + 1 /\ hook[h].kind \in TOAST_EVENTS
      BY <1>5, <2>1 DEF RaiseToast, IInv, Raises
    <3>2. NewToast(hook[h]).id >= 1
      BY <1>1, <3>1, NewFacts DEF IInv, Numbered, Supersedable, OpenToasts
    <3>q. QED BY <1>1, <1>5, <2>1, <3>1, <3>2, RaisedFrom DEF Numbered, IInv
  <2>2. CASE ~ live
    BY <1>1, <1>3, <1>5, <2>2 DEF RaiseToast
  <2>q. QED BY <2>1, <2>2
<1>6. ASSUME NEW i \in 1..clock, Ack(i) PROVE Numbered' /\ clock <= clock'
  BY <1>1, <1>2, <1>6 DEF Ack, Reasons
<1>7. ASSUME Wipe PROVE Numbered' /\ clock <= clock'
  BY <1>1, <1>7 DEF Wipe, Numbered
<1>8. ASSUME NEW h \in Handler, NEW kind \in Kinds, Receive(h, kind)
      PROVE  Numbered' /\ clock <= clock'
  BY <1>1, <1>3, <1>8 DEF Receive
<1>9. CASE UNCHANGED vars
  BY <1>1, <1>3, <1>9 DEF vars
<1>q. QED BY <1>1, <1>4, <1>5, <1>6, <1>7, <1>8, <1>9 DEF Next, Handle

\* Every open toast is one that a page may be told of.
LEMMA OpenIsShown == ASSUME IInv, Numbered PROVE Open \subseteq Shown(clock) /\ Ids(Open) \subseteq 1..clock
<1>1. \A t \in toasts : t.id \in Nat /\ t.at \in Nat /\ t.id >= 1 /\ t.id <= clock /\ t.at <= clock
                      /\ clock \in Nat
  BY DEF IInv, Inv, TypeOK, Toast, Dated, Numbered
<1>2. \A t \in OpenToasts(toasts) : t.id \in 1..clock /\ t.at \in 0..clock
  BY <1>1 DEF OpenToasts
<1>q. QED BY <1>2 DEF Open, Shown, Ids

LEMMA ShownGrows ==
    ASSUME NEW m \in Nat, NEW n \in Nat, m <= n
    PROVE  /\ 1..m \subseteq 1..n /\ Shown(m) \subseteq Shown(n)
           /\ Frame(m) \subseteq Frame(n) /\ PollType(m) \subseteq PollType(n)
<1>1. 1..m \subseteq 1..n /\ 0..m \subseteq 0..n
  OBVIOUS
<1>2. Shown(m) \subseteq Shown(n)
  BY <1>1 DEF Shown
<1>3. SUBSET (1..m) \subseteq SUBSET (1..n) /\ SUBSET Shown(m) \subseteq SUBSET Shown(n)
  BY <1>1, <1>2
<1>q. QED BY <1>1, <1>2, <1>3 DEF Frame, PollType

\* A step of a page or of the server, as one of the server.
LEMMA PagesSimulate ==
    ASSUME PInv, [PagesNext]_allVars
    PROVE  [Next]_vars
<1>1. CASE Receives \/ Handles \/ Ends
  BY <1>1 DEF Receives, Handles, Ends, Next
<1>2. ASSUME NEW i \in acks, Arrives(i) PROVE [Next]_vars
  BY <1>2 DEF Arrives, Next, PInv, PagesTypeOK
<1>3. ASSUME NEW i \in Ids(Open), Elsewhere(i) PROVE [Next]_vars
  BY <1>3, OpenIsShown DEF Elsewhere, Next, PInv
<1>4. ASSUME NEW p \in Page, \/ \E f \in frames[p] : DeliverNew(p, f) \/ DeliverAck(p, f)
                             \/ Dismiss(p) \/ Poll(p) \/ Attach(p)
                             \/ \E i \in ring[p] : RingExpires(p, i)
      PROVE  [Next]_vars
  BY <1>4 DEF DeliverNew, DeliverAck, Dismiss, Poll, Ask, Answer, Return, Attach, RingExpires
<1>5. ASSUME NEW i \in acks, LoseAck(i) PROVE [Next]_vars
  BY <1>5 DEF LoseAck
<1>6. CASE UNCHANGED allVars
  BY <1>6 DEF allVars
<1>q. QED BY <1>1, <1>2, <1>3, <1>4, <1>5, <1>6 DEF PagesNext

\* What is broadcast is of toasts the clock has numbered.
LEMMA BroadcastTypes ==
    ASSUME PInv, IInv', Numbered', clock' \in Nat, clock <= clock', Broadcast
    PROVE  frames' \in [Page -> SUBSET Frame(clock')]
<1>1. Ids(Open) \subseteq 1..clock' /\ Open' \subseteq Shown(clock')
  <2>1. Ids(Open) \subseteq 1..clock
    BY OpenIsShown DEF PInv
  <2>2. (Open \subseteq Shown(clock))'
    <3>1. \A t \in toasts' : t.id \in Nat /\ t.at \in Nat /\ t.id >= 1 /\ t.id <= clock' /\ t.at <= clock'
      BY DEF IInv, Inv, TypeOK, Toast, Dated, Numbered
    <3>2. \A t \in OpenToasts(toasts') : t.id \in 1..clock' /\ t.at \in 0..clock'
      BY <3>1 DEF OpenToasts
    <3>q. QED BY <3>2 DEF Open, Shown
  <2>3. clock \in Nat
    BY DEF PInv, IInv, Inv, TypeOK
  <2>q. QED BY <2>1, <2>2, <2>3, ShownGrows
<1>2. AckFrames(Ids(Open) \ Ids(Open')) \subseteq Frame(clock')
  BY <1>1 DEF AckFrames, Frame, Shown
<1>3. NewFrames(Open' \ Open) \subseteq Frame(clock')
  BY <1>1 DEF NewFrames, Frame
<1>4. \A p \in Page : frames[p] \subseteq Frame(clock')
  BY ShownGrows DEF PInv, PagesTypeOK, IInv, Inv, TypeOK
<1>q. QED BY <1>2, <1>3, <1>4 DEF Broadcast

LEMMA PagesGrow ==
    ASSUME PInv, clock' \in Nat, clock <= clock', UNCHANGED page, acks' \subseteq acks,
           frames' \in [Page -> SUBSET Frame(clock')]
    PROVE  PagesTypeOK'
<1>1. clock \in Nat
  BY DEF PInv, IInv, Inv, TypeOK
<1>2. /\ 1..clock \subseteq 1..clock' /\ Shown(clock) \subseteq Shown(clock')
      /\ PollType(clock) \subseteq PollType(clock')
  BY <1>1, ShownGrows
<1>3. cards' = cards /\ poll' = poll /\ ring' = ring
  BY DEF page
<1>4. /\ [Page -> SUBSET Shown(clock)] \subseteq [Page -> SUBSET Shown(clock')]
      /\ [Page -> PollType(clock)] \subseteq [Page -> PollType(clock')]
      /\ [Page -> SUBSET (1..clock)] \subseteq [Page -> SUBSET (1..clock')]
  BY <1>2
<1>q. QED BY <1>2, <1>3, <1>4 DEF PInv, PagesTypeOK

LEMMA PagesStep ==
    ASSUME PInv, [PagesNext]_allVars
    PROVE  PInv'
<1>1. IInv' /\ Numbered' /\ clock \in Nat /\ clock' \in Nat /\ clock <= clock'
  BY PagesSimulate, NumberedStep DEF PInv
<1>2. Open \subseteq Shown(clock)
  BY OpenIsShown DEF PInv
<1>3. PagesTypeOK
  BY DEF PInv
<1>4. frames \in [Page -> SUBSET Frame(clock')]
  <2>1. Frame(clock) \subseteq Frame(clock')
    BY <1>1, ShownGrows
  <2>q. QED BY <1>3, <2>1 DEF PagesTypeOK
<1>5. ASSUME \/ Receives \/ Handles \/ Ends
             \/ \E i \in acks : Arrives(i) \/ LoseAck(i)
             \/ \E i \in Ids(Open) : Elsewhere(i)
      PROVE  PagesTypeOK'
  <2>1. UNCHANGED page /\ acks' \subseteq acks /\ (frames' = frames \/ Broadcast)
    BY <1>5 DEF Receives, Handles, Ends, Arrives, LoseAck, Elsewhere, pageVars, page
  <2>q. QED BY <1>1, <1>4, <2>1, BroadcastTypes, PagesGrow DEF PInv
<1>6. ASSUME UNCHANGED vars, frames' \in [Page -> SUBSET Frame(clock)],
             acks' \subseteq 1..clock, cards' \in [Page -> SUBSET Shown(clock)],
             poll' \in [Page -> PollType(clock)], ring' \in [Page -> SUBSET (1..clock)]
      PROVE  PagesTypeOK'
  BY <1>6 DEF PagesTypeOK, vars
<1>7. ASSUME NEW p \in Page, NEW from \in SUBSET Shown(clock), NEW ids, Dismissed(p, from, ids)
      PROVE  cards' \in [Page -> SUBSET Shown(clock)] /\ ring' \in [Page -> SUBSET (1..clock)]
  <2>1. Ids(from) \subseteq 1..clock
    BY DEF Ids, Shown
  <2>q. QED BY <1>3, <1>7, <2>1 DEF Dismissed, PagesTypeOK
<1>8. ASSUME NEW p \in Page
      PROVE  /\ cards[p] \subseteq Shown(clock) /\ Ids(cards[p]) \subseteq 1..clock
             /\ frames[p] \subseteq Frame(clock) /\ poll[p] \in PollType(clock)
             /\ ring[p] \subseteq 1..clock
  BY <1>3 DEF PagesTypeOK, Ids, Shown
<1>9. ASSUME NEW p \in Page, NEW f \in frames[p], DeliverNew(p, f) PROVE PagesTypeOK'
  <2>1. f.card \in Shown(clock)
    BY <1>8 DEF Frame
  <2>2. Added(cards[p], {f.card}) \subseteq Shown(clock)
    BY <1>8, <2>1 DEF Added
  <2>q. QED BY <1>3, <1>6, <1>8, <1>9, <2>2 DEF DeliverNew, PagesTypeOK
<1>10. ASSUME NEW p \in Page, NEW f \in frames[p], DeliverAck(p, f) PROVE PagesTypeOK'
  <2>1. [poll[p] EXCEPT !.held = @ \ {f.card.id}] \in PollType(clock)
    BY <1>8 DEF PollType
  <2>2. poll' \in [Page -> PollType(clock)] /\ frames' \in [Page -> SUBSET Frame(clock)]
    BY <1>3, <1>8, <1>10, <2>1 DEF DeliverAck, PagesTypeOK
  <2>q. QED BY <1>3, <1>6, <1>7, <1>8, <1>10, <2>2 DEF DeliverAck, PagesTypeOK
<1>11. ASSUME NEW p \in Page, Dismiss(p) PROVE PagesTypeOK'
  <2>1. [poll[p] EXCEPT !.held = {}] \in PollType(clock)
    BY <1>8 DEF PollType
  <2>2. poll' \in [Page -> PollType(clock)]
    BY <1>3, <1>11, <2>1 DEF Dismiss, PagesTypeOK
  <2>q. QED BY <1>3, <1>6, <1>7, <1>8, <1>11, <2>2 DEF Dismiss, PagesTypeOK
<1>12. ASSUME NEW p \in Page, Ask(p) PROVE PagesTypeOK'
  <2>1. [NoPoll EXCEPT !.phase = "asked", !.held = Ids(cards[p])] \in PollType(clock)
    BY <1>8 DEF NoPoll, PollType
  <2>q. QED BY <1>3, <1>6, <1>12, <2>1 DEF Ask, PagesTypeOK
<1>13. ASSUME NEW p \in Page, Answer(p) PROVE PagesTypeOK'
  <2>1. [[poll[p] EXCEPT !.phase = "answered"] EXCEPT !.list = Open] \in PollType(clock)
    BY <1>2, <1>8 DEF PollType
  <2>2. poll' \in [Page -> PollType(clock)]
    BY <1>3, <1>13, <2>1 DEF Answer, PagesTypeOK
  <2>q. QED BY <1>3, <1>6, <1>13, <2>2 DEF Answer, PagesTypeOK
<1>14. ASSUME NEW p \in Page, Return(p) PROVE PagesTypeOK'
  <2> DEFINE held == Added(cards[p], Fresh(p))
  <2>1. held \in SUBSET Shown(clock)
    BY <1>8 DEF Added, Fresh, PollType
  <2>2. NoPoll \in PollType(clock)
    BY DEF NoPoll, PollType
  <2> HIDE DEF held
  <2>3. Dismissed(p, held, Stale(p, held))
    BY <1>14 DEF Return, held
  <2>q. QED BY <1>3, <1>6, <1>7, <1>14, <2>1, <2>2, <2>3 DEF Return, PagesTypeOK
<1>15. ASSUME NEW p \in Page, Attach(p) PROVE PagesTypeOK'
  <2>1. NewFrames(Open) \subseteq Frame(clock)
    BY <1>2 DEF NewFrames, Frame
  <2>q. QED BY <1>3, <1>6, <1>15, <2>1 DEF Attach, PagesTypeOK, page
<1>16. ASSUME NEW p \in Page, NEW i \in ring[p], RingExpires(p, i) PROVE PagesTypeOK'
  BY <1>3, <1>6, <1>8, <1>16 DEF RingExpires, PagesTypeOK
<1>17. ASSUME UNCHANGED allVars PROVE PagesTypeOK'
  BY <1>3, <1>17 DEF allVars, vars, pageVars, page, PagesTypeOK
<1>q. QED BY <1>1, <1>5, <1>9, <1>10, <1>11, <1>12, <1>13, <1>14, <1>15, <1>16, <1>17
          DEF PInv, PagesNext, Poll

LEMMA PagesInvariance == PagesSpec => []PInv
<1>1. PagesInit => PInv
  <2>1. ASSUME PagesInit PROVE PagesTypeOK
    BY <2>1 DEF PagesInit, Init, PagesTypeOK, NoPoll, PollType
  <2>2. Init => IInv /\ Numbered
    BY InitInv DEF Init, Numbered
  <2>q. QED BY <2>1, <2>2 DEF PagesInit, PInv
<1>2. PInv /\ [PagesNext]_allVars => PInv'
  BY PagesStep
<1>q. QED BY <1>1, <1>2, PTL DEF PagesSpec

\* Pages, frames, polls and dismissals hold what the code can put there, and nothing of
\* a toast that was never raised (ToastManager, ToastDismissedRing).
THEOREM PagesTypeCorrect == PagesSpec => []PagesTypeOK
BY PagesInvariance, PTL DEF PInv

\* Seen from the server, pages that poll, dismiss, attach and lose what they send are no
\* more than dismissals: every behaviour of ToastPages is one of Toasts, and what is
\* proved of Toasts holds of it (ack_toast(), list_all_toasts()).
THEOREM PagesImplementToasts == PagesSpec => Spec
<1>1. PagesInit => Init
  BY DEF PagesInit
<1>2. PInv /\ [PagesNext]_allVars => [Next]_vars
  BY PagesSimulate
<1>q. QED BY <1>1, <1>2, PagesInvariance, PTL DEF PagesSpec, Spec
-----------------------------------------------------------------------------
(* What a poll tells.                                                      *)

\* A card that the user has dismissed is closed, or its dismissal is on the way; and it
\* is in the ring, or the poll in flight does not list it.  An id that a poll was sent
\* with and does not find is closed.
PollInv ==
    /\ down \in [Page -> SUBSET Shown(clock)]
    /\ \A p \in Page : \A c \in down[p] :
          /\ c.id \in acks \/ c \notin Open
          /\ c.id \in ring[p] \/ (c \notin Open /\ c \notin poll[p].list)
    /\ \A p \in Page : poll[p].phase = "answered" =>
          \A i \in poll[p].held : i \in Ids(poll[p].list) \/ i \notin Ids(Open)

\* A toast and what a page is told of it have one id.
LEMMA OpenIds == \A i : i \in Ids(Open) <=> i \in Ids(OpenToasts(toasts))
<1>1. ASSUME NEW i, i \in Ids(Open) PROVE i \in Ids(OpenToasts(toasts))
  <2>1. PICK c \in Open : c.id = i
    BY <1>1 DEF Ids
  <2>2. PICK t \in OpenToasts(toasts) : c = [id |-> t.id, at |-> t.at]
    BY <2>1 DEF Open
  <2>3. t.id = i
    BY <2>1, <2>2
  <2>q. QED BY <2>3 DEF Ids
<1>2. ASSUME NEW i, i \in Ids(OpenToasts(toasts)) PROVE i \in Ids(Open)
  <2>1. PICK t \in OpenToasts(toasts) : t.id = i
    BY <1>2 DEF Ids
  <2> DEFINE c == [id |-> t.id, at |-> t.at]
  <2>2. c \in Open /\ c.id = i
    BY <2>1 DEF Open
  <2> HIDE DEF c
  <2>q. QED BY <2>2 DEF Ids
<1>q. QED BY <1>1, <1>2

\* What was given out and is not open is never open again.
LEMMA OpenStep ==
    ASSUME PInv, [Next]_vars
    PROVE  /\ \A c \in Shown(clock) : c \in Open' => c \in Open
           /\ \A i \in 1..clock : i \in Ids(Open') => i \in Ids(Open)
<1>0. IInv /\ toasts \subseteq Toast /\ clock \in Nat
  BY DEF PInv, IInv, Inv, TypeOK
<1>1. ASSUME OpenToasts(toasts') \subseteq OpenToasts(toasts)
      PROVE  Open' \subseteq Open
  BY <1>1 DEF Open
<1>2. ASSUME NEW ids, NEW reason \in Reasons, toasts' = Acked(ids, reason)
      PROVE  Open' \subseteq Open
  <2>1. \A u \in toasts' : u.ack = "open" => u \in toasts
    BY <1>0, <1>2, AckedFrom, MarkFacts
  <2>q. QED BY <1>1, <2>1 DEF OpenToasts
<1>3. ASSUME NEW h \in Handler, RaiseToast(h), live
      PROVE  /\ \A c \in Shown(clock) : c \in Open' => c \in Open
             /\ \A i \in 1..clock : i \in Ids(Open') => i \in Ids(Open)
  <2> DEFINE n == NewToast(hook[h])
  <2>1. \A u \in OpenToasts(toasts') : u \in OpenToasts(toasts) \/ u = n
    BY <1>0, <1>3, RaisedFrom DEF OpenToasts, IInv
  <2>2. /\ n.at = clock + 1
        /\ n.id = clock + 1 \/ \E s \in OpenToasts(toasts) : n.id = s.id
    BY <1>0, <1>3, NewFacts DEF RaiseToast, IInv, Raises, Supersedable
  <2> HIDE DEF n
  <2>3. ASSUME NEW c \in Shown(clock), c \in Open' PROVE c \in Open
    <3>1. PICK u \in OpenToasts(toasts') : c = [id |-> u.id, at |-> u.at]
      BY <2>3 DEF Open
    <3>2. c.at <= clock /\ c.at \in Nat /\ c.at = u.at
      BY <1>0, <3>1 DEF Shown
    <3>3. u \in OpenToasts(toasts)
      BY <1>0, <2>1, <2>2, <3>2
    <3>q. QED BY <3>1, <3>3 DEF Open
  <2>4. ASSUME NEW i \in 1..clock, i \in Ids(Open') PROVE i \in Ids(Open)
    <3>1. PICK u \in OpenToasts(toasts') : i = u.id
      BY <2>4 DEF Open, Ids
    <3>2. \E s \in OpenToasts(toasts) : i = s.id
      BY <1>0, <2>1, <2>2, <3>1
    <3>q. QED BY <3>2, OpenIds DEF Ids
  <2>q. QED BY <2>3, <2>4
<1>4. Open' \subseteq Open => /\ \A c \in Shown(clock) : c \in Open' => c \in Open
                              /\ \A i \in 1..clock : i \in Ids(Open') => i \in Ids(Open)
  BY DEF Ids
<1>5. toasts' = toasts \/ toasts' = {} => Open' \subseteq Open
  BY <1>1 DEF OpenToasts
<1>6. ASSUME NEW h \in Handler, NEW quiet \in BOOLEAN, Apply(h, quiet) PROVE Open' \subseteq Open
  BY <1>2, <1>6 DEF Apply, Reasons
<1>7. ASSUME NEW i \in 1..clock, Ack(i) PROVE Open' \subseteq Open
  BY <1>2, <1>7 DEF Ack, Reasons
<1>8. ASSUME NEW h \in Handler, RaiseToast(h), ~ live PROVE toasts' = toasts
  BY <1>8 DEF RaiseToast
<1>9. ASSUME \/ \E h \in Handler, kind \in Kinds : Receive(h, kind)
             \/ Wipe \/ UNCHANGED vars
      PROVE  toasts' = toasts \/ toasts' = {}
  BY <1>9 DEF Receive, Wipe, vars
<1>q. QED BY <1>3, <1>4, <1>5, <1>6, <1>7, <1>8, <1>9 DEF Next, Handle

\* A dismissal that arrives closes its toast.
LEMMA AckCloses ==
    ASSUME IInv, NEW i, Ack(i)
    PROVE  \A c \in Open' : c.id # i
<1>1. \A u \in toasts' : \E t \in toasts : u = Mark(t, {i}, "dismissed")
  BY AckedFrom DEF Ack
<1>2. \A t \in toasts : t.id = i => Mark(t, {i}, "dismissed").ack # "open"
  BY DEF Mark, IInv, Inv, TypeOK, Toast
<1>3. \A t \in toasts : Mark(t, {i}, "dismissed").id = t.id
  BY MarkFacts DEF IInv, Inv, TypeOK, Reasons
<1>4. \A u \in OpenToasts(toasts') : u.id # i
  BY <1>1, <1>2, <1>3 DEF OpenToasts
<1>q. QED BY <1>4 DEF Open

\* The server's steps: no page moves, and no closed toast opens.
LEMMA PollServerStep ==
    ASSUME PInv, PollInv, [PagesNext]_allVars, UNCHANGED page,
           down' = down, \A p \in Page : \A c \in down[p] : c.id \in acks' \/ c \notin Open'
    PROVE  PollInv'
<1>1. clock \in Nat /\ clock' \in Nat /\ clock <= clock'
  BY PagesSimulate, NumberedStep DEF PInv
<1>2. Shown(clock) \subseteq Shown(clock')
  BY <1>1, ShownGrows
<1>3. /\ \A c \in Shown(clock) : c \in Open' => c \in Open
      /\ \A i \in 1..clock : i \in Ids(Open') => i \in Ids(Open)
  BY PagesSimulate, OpenStep
<1>4. poll' = poll /\ ring' = ring
  BY DEF page
<1>5. \A p \in Page : down[p] \subseteq Shown(clock) /\ poll[p].held \subseteq 1..clock
  BY DEF PollInv, PInv, PagesTypeOK, PollType
<1>6. down' \in [Page -> SUBSET Shown(clock')]
  BY <1>2 DEF PollInv
<1>7. \A p \in Page : \A c \in down'[p] :
         /\ c.id \in acks' \/ c \notin Open'
         /\ c.id \in ring'[p] \/ (c \notin Open' /\ c \notin poll'[p].list)
  BY <1>3, <1>4, <1>5 DEF PollInv
<1>8. \A p \in Page : poll'[p].phase = "answered" =>
         \A i \in poll'[p].held : i \in Ids(poll'[p].list) \/ i \notin Ids(Open')
  BY <1>3, <1>4, <1>5 DEF PollInv
<1>q. QED BY <1>6, <1>7, <1>8 DEF PollInv

LEMMA PollStep ==
    ASSUME PInv, PollInv, [PagesNext]_allVars
    PROVE  PollInv'
<1>1. \A p \in Page : down[p] \subseteq Shown(clock)
  BY DEF PollInv
<1>2. \A c \in Shown(clock) : c \in Open' => c \in Open
  BY PagesSimulate, OpenStep
<1>3. ASSUME Receives \/ Handles \/ Ends \/ \E i \in Ids(Open) : Elsewhere(i) PROVE PollInv'
  <2>1. UNCHANGED page /\ down' = down /\ acks' = acks
    BY <1>3 DEF Receives, Handles, Ends, Elsewhere, pageVars, page
  <2>2. \A p \in Page : \A c \in down[p] : c.id \in acks' \/ c \notin Open'
    BY <1>1, <1>2, <2>1 DEF PollInv
  <2>q. QED BY <2>1, <2>2, PollServerStep
<1>4. ASSUME NEW i \in acks, Arrives(i) PROVE PollInv'
  <2>1. UNCHANGED page /\ down' = down /\ acks' = acks \ {i} /\ Ack(i)
    BY <1>4 DEF Arrives
  <2>2. \A c \in Open' : c.id # i
    BY <2>1, AckCloses DEF PInv
  <2>3. \A p \in Page : \A c \in down[p] : c.id \in acks' \/ c \notin Open'
    BY <1>1, <1>2, <2>1, <2>2 DEF PollInv
  <2>q. QED BY <2>1, <2>3, PollServerStep
<1>5. ASSUME UNCHANGED vars PROVE Open' = Open /\ clock' = clock
  BY <1>5 DEF vars, Open
<1>6. ASSUME NEW i \in acks, LoseAck(i) PROVE PollInv'
  <2>1. /\ UNCHANGED vars /\ UNCHANGED page /\ acks' = acks \ {i}
        /\ down' = [p \in Page |-> {c \in down[p] : c.id # i}]
    BY <1>6 DEF LoseAck
  <2>2. Open' = Open /\ clock' = clock /\ poll' = poll /\ ring' = ring
    BY <1>5, <2>1 DEF page
  <2>q. QED BY <2>1, <2>2 DEF PollInv
<1>7. ASSUME NEW p \in Page, \/ \E f \in frames[p] : DeliverNew(p, f)
                             \/ Attach(p)
      PROVE  PollInv'
  <2>1. UNCHANGED vars /\ poll' = poll /\ ring' = ring /\ down' = down /\ acks' = acks
    BY <1>7 DEF DeliverNew, Attach, page
  <2>q. QED BY <1>5, <2>1 DEF PollInv
<1>8. ASSUME NEW p \in Page PROVE PollType(clock) # {} /\ poll \in [Page -> PollType(clock)]
                                   /\ ring \in [Page -> SUBSET (1..clock)]
  BY <1>8 DEF PInv, PagesTypeOK
<1>9. ASSUME NEW p \in Page, NEW f \in frames[p], DeliverAck(p, f) PROVE PollInv'
  <2>1. /\ UNCHANGED vars /\ down' = down /\ acks' = acks
        /\ poll' = [poll EXCEPT ![p].held = @ \ {f.card.id}]
        /\ ring' = [ring EXCEPT ![p] = @ \cup ({f.card.id} \cap Ids(cards[p]))]
    BY <1>9 DEF DeliverAck, Dismissed
  <2>2. \A q \in Page : /\ ring[q] \subseteq ring'[q]
                        /\ poll'[q].phase = poll[q].phase /\ poll'[q].list = poll[q].list
                        /\ poll'[q].held \subseteq poll[q].held
    BY <1>8, <2>1 DEF PollType
  <2>q. QED BY <1>5, <2>1, <2>2 DEF PollInv
<1>10. ASSUME NEW p \in Page, Dismiss(p) PROVE PollInv'
  <2>1. /\ UNCHANGED vars /\ acks' = acks \cup Ids(cards[p])
        /\ down' = [down EXCEPT ![p] = @ \cup cards[p]]
        /\ poll' = [poll EXCEPT ![p].held = {}]
        /\ ring' = [ring EXCEPT ![p] = @ \cup (Ids(cards[p]) \cap Ids(cards[p]))]
    BY <1>10 DEF Dismiss, Dismissed
  <2>2. \A q \in Page : /\ ring[q] \subseteq ring'[q]
                        /\ poll'[q].phase = poll[q].phase /\ poll'[q].list = poll[q].list
                        /\ poll'[q].held \subseteq poll[q].held
    BY <1>8, <2>1 DEF PollType
  <2>3. cards[p] \subseteq Shown(clock) /\ \A c \in cards[p] : c.id \in acks' /\ c.id \in ring'[p]
    BY <1>8, <2>1 DEF PInv, PagesTypeOK, Ids
  <2>4. /\ down' \in [Page -> SUBSET Shown(clock)]
        /\ \A q \in Page : \A c \in down'[q] : c \in down[q] \/ (q = p /\ c \in cards[p])
    BY <2>1, <2>3 DEF PollInv
  <2>q. QED BY <1>5, <2>1, <2>2, <2>3, <2>4 DEF PollInv
<1>11. ASSUME NEW p \in Page, Ask(p) PROVE PollInv'
  <2>1. /\ UNCHANGED vars /\ ring' = ring /\ down' = down /\ acks' = acks
        /\ \A q \in Page : poll'[q] = poll[q] \/ (poll'[q].phase = "asked" /\ poll'[q].list = {})
    BY <1>8, <1>11 DEF Ask, NoPoll
  <2>q. QED BY <1>5, <2>1 DEF PollInv
<1>12. ASSUME NEW p \in Page, Answer(p) PROVE PollInv'
  <2>1. /\ UNCHANGED vars /\ ring' = ring /\ down' = down /\ acks' = acks
        /\ \A q \in Page : poll'[q] = poll[q] \/ poll'[q].list = Open
    BY <1>8, <1>12 DEF Answer, PollType
  <2>q. QED BY <1>5, <2>1 DEF PollInv
<1>13. ASSUME NEW p \in Page, Return(p) PROVE PollInv'
  <2>1. /\ UNCHANGED vars /\ down' = down /\ acks' = acks
        /\ \A q \in Page : ring[q] \subseteq ring'[q]
        /\ \A q \in Page : poll'[q] = poll[q] \/ poll'[q] = NoPoll
    BY <1>8, <1>13 DEF Return, Dismissed
  <2>q. QED BY <1>5, <2>1 DEF PollInv, NoPoll
<1>14. ASSUME NEW p \in Page, NEW i \in ring[p], RingExpires(p, i) PROVE PollInv'
  <2>1. /\ UNCHANGED vars /\ down' = down /\ acks' = acks /\ poll' = poll
        /\ i \notin acks /\ i \notin Ids(poll[p].list)
        /\ \A q \in Page : ring[q] \subseteq ring'[q] \/ (q = p /\ ring[q] \subseteq ring'[q] \cup {i})
    BY <1>8, <1>14 DEF RingExpires
  <2>2. \A c \in poll[p].list : c.id # i
    BY <2>1 DEF Ids
  <2>3. \A q \in Page : \A c \in down[q] : c.id \in ring'[q] \/ (c \notin Open /\ c \notin poll[q].list)
    BY <2>1, <2>2 DEF PollInv
  <2>q. QED BY <1>5, <2>1, <2>3 DEF PollInv
<1>15. ASSUME UNCHANGED allVars PROVE PollInv'
  BY <1>5, <1>15 DEF PollInv, allVars, pageVars, page
<1>q. QED BY <1>3, <1>4, <1>6, <1>7, <1>9, <1>10, <1>11, <1>12, <1>13, <1>14, <1>15
          DEF PagesNext, Poll

\* What an answer does to the cards of its page.
LEMMA ReturnIsTrue ==
    ASSUME PInv, PollInv, NEW p \in Page, Return(p)
    PROVE  /\ (cards'[p] \ cards[p]) \cap down[p] = {}
           /\ \A c \in cards[p] \ cards'[p] :
                 c.id \notin Ids(OpenToasts(toasts)) \/ c.id \in Ids(cards'[p])
<1> DEFINE held == Added(cards[p], Fresh(p))
<1>1. cards \in [Page -> SUBSET Shown(clock)] /\ poll[p].phase = "answered"
  BY DEF PInv, PagesTypeOK, Return
<1>2. cards'[p] = {c \in held : c.id \notin Stale(p, held)}
  BY <1>1 DEF Return, Dismissed
<1>3. cards'[p] \ cards[p] \subseteq Fresh(p)
  BY <1>2 DEF Added
<1>4. (cards'[p] \ cards[p]) \cap down[p] = {}
  BY <1>3 DEF Fresh, PollInv
<1>5. ASSUME NEW c \in cards[p] \ cards'[p]
      PROVE  c.id \notin Ids(OpenToasts(toasts)) \/ c.id \in Ids(cards'[p])
  <2>1. CASE c.id \in Ids(Fresh(p))
    <3>1. PICK d \in Fresh(p) : d.id = c.id
      BY <2>1 DEF Ids
    <3>2. d \in held /\ d.id \in Ids(poll[p].list)
      BY <3>1 DEF Added, Fresh, Ids
    <3>3. d \in cards'[p]
      BY <1>2, <3>2 DEF Stale
    <3>q. QED BY <3>1, <3>3 DEF Ids
  <2>2. CASE c.id \notin Ids(Fresh(p))
    <3>1. c \in held
      BY <1>5, <2>2 DEF Added
    <3>2. c.id \in Stale(p, held)
      BY <1>2, <1>5, <3>1
    <3>3. c.id \in poll[p].held /\ c.id \notin Ids(poll[p].list)
      BY <3>2 DEF Stale
    <3>4. c.id \notin Ids(Open)
      BY <1>1, <3>3 DEF PollInv
    <3>q. QED BY <3>4, OpenIds
  <2>q. QED BY <2>1, <2>2
<1>q. QED BY <1>4, <1>5

\* The answer to a poll brings back no card that the user has dismissed and takes away
\* none whose toast is open, for any number of pages and whatever was lost or late
\* (backfill(), reconcileOpen(), ToastDismissedRing.filter()).
THEOREM PollsAreTrue == PagesSpec => PollsTellTheTruth
<1>1. PagesInit => PollInv
  <2>1. ASSUME PagesInit PROVE /\ down \in [Page -> SUBSET Shown(clock)]
                               /\ \A p \in Page : down[p] = {} /\ poll[p].phase = "idle"
    BY <2>1 DEF PagesInit, NoPoll
  <2>q. QED BY <2>1 DEF PollInv
<1>2. PInv /\ PollInv /\ [PagesNext]_allVars => PollInv'
  BY PollStep
<1>3. PInv /\ PollInv /\ [PagesNext]_allVars =>
        [\A p \in Page : Return(p) =>
            /\ (cards'[p] \ cards[p]) \cap down[p] = {}
            /\ \A c \in cards[p] \ cards'[p] :
                  c.id \notin Ids(OpenToasts(toasts)) \/ c.id \in Ids(cards'[p])]_allVars
  BY ReturnIsTrue
<1>q. QED BY <1>1, <1>2, <1>3, PagesInvariance, PTL DEF PagesSpec, PollsTellTheTruth
=============================================================================
