------------------------------ MODULE ToastPages ------------------------------
(***************************************************************************)
(* The toasts of a session and the pages that show them                    *)
(* (client/js/toast.js, toast-global-poll.js, toast-dismissed-ring.js, and *)
(* the frames of src/api/websocket.py).                                    *)
(*                                                                         *)
(* A page hears of a toast by frames on its socket and by a poll of the    *)
(* open toasts, and its dismissals travel as POSTs of their own, so each of*)
(* the three may overtake the others.                                      *)
(***************************************************************************)
EXTENDS Toasts

CONSTANTS Page,      \* open pages
          MaxLost    \* bound: dismissals and sockets lost on the way

ASSUME MaxLostAssumption == MaxLost \in Nat

VARIABLES cards,   \* _byId of each page
          frames,  \* toast.new and toast.ack on the way to each page
          poll,    \* the poll of each page
          ring,    \* ToastDismissedRing of each page
          acks,    \* dismissals on the way to the server
          lost,
          down     \* the cards the user has dismissed on each page (history)

page == <<cards, poll, ring>>
pageVars == <<page, frames, acks, lost, down>>
allVars == <<vars, pageVars>>

\* The open toasts, as a page is told of them.
Open == {[id |-> t.id, at |-> t.at] : t \in OpenToasts(toasts)}

NoPoll == [phase |-> "idle", held |-> {}, list |-> {}]

PagesInit ==
    /\ Init
    /\ cards = [p \in Page |-> {}] /\ frames = [p \in Page |-> {}]
    /\ poll = [p \in Page |-> NoPoll] /\ ring = [p \in Page |-> {}]
    /\ acks = {} /\ lost = 0 /\ down = [p \in Page |-> {}]
-----------------------------------------------------------------------------
(* The server tells the pages.                                             *)

AckFrames(ids) == {[type |-> "toast.ack", card |-> [id |-> i, at |-> 0]] : i \in ids}
NewFrames(list) == {[type |-> "toast.new", card |-> c] : c \in list}

\* broadcast_to_session(), of what a step has acknowledged and raised.
Broadcast ==
    frames' = [p \in Page |-> frames[p] \cup AckFrames(Ids(Open) \ Ids(Open'))
                                       \cup NewFrames(Open' \ Open)]

Handles ==
    /\ \E h \in Handler : Handle(h)
    /\ Broadcast /\ UNCHANGED <<page, acks, lost, down>>

Receives ==
    /\ \E h \in Handler, kind \in Kinds : Receive(h, kind)
    /\ UNCHANGED pageVars

\* The session ends; no page is told.
Ends == Wipe /\ UNCHANGED pageVars

\* A dismissal arrives; one that changes nothing is not broadcast.
Arrives(i) ==
    /\ i \in acks /\ acks' = acks \ {i}
    /\ Ack(i) /\ Broadcast /\ UNCHANGED <<page, lost, down>>

\* So does one of a page that is not among Page.
Elsewhere(i) ==
    /\ i \in Ids(Open)
    /\ Ack(i) /\ Broadcast /\ UNCHANGED <<page, acks, lost, down>>
-----------------------------------------------------------------------------
(* A page.                                                                 *)

\* add(), of each card: one with a known id replaces its card.
Added(old, new) == {c \in old : c.id \notin Ids(new)} \cup new

\* dismiss(), of each id: the ring notes it.
Dismissed(p, from, ids) ==
    /\ cards' = [cards EXCEPT ![p] = {c \in from : c.id \notin ids}]
    /\ ring' = [ring EXCEPT ![p] = @ \cup (ids \cap Ids(from))]

\* A toast.new frame is handled.
DeliverNew(p, f) ==
    /\ f \in frames[p] /\ f.type = "toast.new"
    /\ frames' = [frames EXCEPT ![p] = @ \ {f}]
    /\ cards' = [cards EXCEPT ![p] = Added(@, {f.card})]
    /\ UNCHANGED <<vars, poll, ring, acks, lost, down>>

\* A toast.ack frame is handled.
DeliverAck(p, f) ==
    /\ f \in frames[p] /\ f.type = "toast.ack"
    /\ frames' = [frames EXCEPT ![p] = @ \ {f}]
    /\ Dismissed(p, cards[p], {f.card.id})
    /\ poll' = [poll EXCEPT ![p].held = @ \ {f.card.id}]
    /\ UNCHANGED <<vars, acks, lost, down>>

\* The user dismisses the session's card, which stands for all its toasts, or types
\* into the session (dismissGroup(), dismissForSessionActivity()).
Dismiss(p) ==
    /\ cards[p] # {}
    /\ Dismissed(p, cards[p], Ids(cards[p]))
    /\ poll' = [poll EXCEPT ![p].held = {}]
    /\ acks' = acks \cup Ids(cards[p])
    /\ down' = [down EXCEPT ![p] = @ \cup cards[p]]
    /\ UNCHANGED <<vars, frames, lost>>

\* tick(): the page asks for the open toasts.
Ask(p) ==
    /\ poll[p].phase = "idle"
    /\ poll' = [poll EXCEPT ![p] = [NoPoll EXCEPT !.phase = "asked", !.held = Ids(cards[p])]]
    /\ UNCHANGED <<vars, cards, ring, frames, acks, lost, down>>

\* list_all_toasts().
Answer(p) ==
    /\ poll[p].phase = "asked"
    /\ poll' = [poll EXCEPT ![p].phase = "answered", ![p].list = Open]
    /\ UNCHANGED <<vars, cards, ring, frames, acks, lost, down>>

\* Mutation: the ring is not asked.
Unfiltered(p) == poll[p].list

\* filter() of the ring.
Fresh(p) == {c \in poll[p].list : c.id \notin ring[p]}

\* Mutation: cards that came after the request are removed too.
StaleAll(p, held) == Ids(held) \ Ids(poll[p].list)

\* Mutation: a poll only adds.
StaleNone(p, held) == {}

\* reconcileOpen(): the cards that were there at the request and are not in the answer.
Stale(p, held) == (Ids(held) \cap poll[p].held) \ Ids(poll[p].list)

\* The answer is handled: backfill(), then reconcileOpen().
Return(p) ==
    LET held == Added(cards[p], Fresh(p)) IN
    /\ poll[p].phase = "answered"
    /\ Dismissed(p, held, Stale(p, held))
    /\ poll' = [poll EXCEPT ![p] = NoPoll]
    /\ UNCHANGED <<vars, frames, acks, lost, down>>

\* TTL_MS after a dismissal, by when its POST and the polls of its time are answered.
RingExpires(p, i) ==
    /\ i \in ring[p] /\ i \notin acks /\ i \notin Ids(poll[p].list)
    /\ ring' = [ring EXCEPT ![p] = @ \ {i}]
    /\ UNCHANGED <<vars, cards, poll, frames, acks, lost, down>>

\* The POST of a dismissal fails; nobody tries it again.
LoseAck(i) ==
    /\ lost < MaxLost /\ lost' = lost + 1
    /\ i \in acks /\ acks' = acks \ {i}
    /\ down' = [p \in Page |-> {c \in down[p] : c.id # i}]
    /\ UNCHANGED <<vars, page, frames>>

\* A socket breaks and its page attaches again: the list that it fetches then is to it
\* as many toast.new frames.
Attach(p) ==
    /\ lost < MaxLost /\ lost' = lost + 1
    /\ frames' = [frames EXCEPT ![p] = NewFrames(Open)]
    /\ UNCHANGED <<vars, page, acks, down>>

Poll(p) == Ask(p) \/ Answer(p) \/ Return(p)

PagesNext ==
    \/ Receives \/ Handles \/ Ends
    \/ \E i \in acks : Arrives(i) \/ LoseAck(i)
    \/ \E i \in Ids(Open) : Elsewhere(i)
    \/ \E p \in Page :
          \/ \E f \in frames[p] : DeliverNew(p, f) \/ DeliverAck(p, f)
          \/ Dismiss(p) \/ Poll(p) \/ Attach(p)
          \/ \E i \in ring[p] : RingExpires(p, i)

PagesSpec == PagesInit /\ [][PagesNext]_allVars

\* The loop resumes its handlers, requests are answered, pages poll every ten seconds,
\* and time passes, whatever else goes on meanwhile.
Fairness ==
    /\ WF_allVars(Handles)
    /\ \A i \in 1..MaxHooks : WF_allVars(Arrives(i))
    /\ \A p \in Page : WF_allVars(Poll(p))
    /\ \A p \in Page, i \in 1..MaxHooks : SF_allVars(RingExpires(p, i))

FairSpec == PagesSpec /\ Fairness
-----------------------------------------------------------------------------
(* Properties.                                                             *)

\* The answer to a poll, however old, neither brings back a card that the user has
\* dismissed, unless the dismissal failed, nor takes away one whose toast is open.
PollsTellTheTruth ==
    [][\A p \in Page : Return(p) =>
          /\ (cards'[p] \ cards[p]) \cap down[p] = {}
          /\ \A c \in cards[p] \ cards'[p] :
                c.id \notin Ids(OpenToasts(toasts)) \/ c.id \in Ids(cards'[p])]_allVars

\* Whatever frames and dismissals were lost or late, every page comes to show the open
\* toasts, as they are now, and no others.
PagesSettle == \A p \in Page : <>[](cards[p] = Open)
=============================================================================
