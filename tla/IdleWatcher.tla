------------------------------ MODULE IdleWatcher ------------------------------
(***************************************************************************)
(* What a session's output says of its agent: the watcher that reads it as *)
(* the clients of the terminal are sent it                                 *)
(* (src/core/notifications/idle_watcher.py, src/api/websocket.py).         *)
(*                                                                         *)
(* Every client has a queue of its own and its own task that feeds the     *)
(* watcher, so the watcher sees each chunk once per client, at different   *)
(* times, and none while there is no client.  A chunk is the set of the    *)
(* marks that the regular expressions find in it.                          *)
(***************************************************************************)
EXTENDS Integers, Sequences

CONSTANTS Client,
          Chunk,      \* the chunks a pane prints
          TailMax,    \* chunks that fit in the tail buffer
          Threshold,  \* threshold_s
          MaxOut,     \* bound: chunks printed
          MaxTime     \* bound: seconds

Marks == {"frame", "menu", "tool", "interrupt"}

ASSUME ChunkAssumption == Chunk \subseteq SUBSET Marks
ASSUME WatcherAssumption ==
    TailMax \in Nat \ {0} /\ Threshold \in Nat \ {0} /\ MaxOut \in Nat /\ MaxTime \in Nat

VARIABLES now,
          out,    \* how many chunks the pane has printed
          pend,   \* the output queue of each client that is attached
          tail,   \* tail_buffer
          state,  \* IdleState
          last,   \* last_output_ts
          fed,    \* the last feed: <<client, which chunk of the pane's>> (history)
          told    \* TASK_COMPLETEs announced over each feed (history)

watcher == <<tail, state, last, fed, told>>

Feeds == Client \X (1..MaxOut)

WatcherInit ==
    /\ now = 0 /\ out = 0 /\ pend = [c \in {} |-> <<>>]
    /\ tail = <<>> /\ state = "thinking" /\ last = 0
    /\ fed = <<>> /\ told = [f \in Feeds |-> 0]

Seen(s) == UNION {s[i] : i \in 1..Len(s)}

\* handle_chunk(): an interrupt in this chunk, then a menu or a tool banner anywhere
\* in the tail.
StateAfter(chunk, t) ==
    CASE "interrupt" \in chunk -> "interrupted"
      [] "interrupt" \notin chunk /\ "menu" \in Seen(t) -> "waiting_permission"
      [] "interrupt" \notin chunk /\ "menu" \notin Seen(t) /\ "tool" \in Seen(t) -> "tool_running"
      [] OTHER -> "thinking"

\* The 16 KB ring.
Buffered(chunk) ==
    LET t == Append(tail, chunk) IN IF Len(t) > TailMax THEN Tail(t) ELSE t

\* What _poll_once() takes for a prompt.
Complete == state = "thinking" /\ now - last >= Threshold /\ "frame" \in Seen(tail)
-----------------------------------------------------------------------------
\* A client attaches to the terminal, or leaves it.
Attach(c) ==
    /\ c \notin DOMAIN pend
    /\ pend' = [d \in DOMAIN pend \cup {c} |-> IF d = c THEN <<>> ELSE pend[d]]
    /\ UNCHANGED <<now, out, watcher>>

Leave(c) ==
    /\ c \in DOMAIN pend
    /\ pend' = [d \in DOMAIN pend \ {c} |-> pend[d]]
    /\ UNCHANGED <<now, out, watcher>>

\* The pane prints.
Output(chunk) ==
    /\ out < MaxOut /\ out' = out + 1
    /\ pend' = [c \in DOMAIN pend |-> Append(pend[c], chunk)]
    /\ UNCHANGED <<now, watcher>>

\* The task of a client feeds the watcher: handle_chunk(), with the events it emits.
Feed(c, emitted) ==
    /\ c \in DOMAIN pend /\ pend[c] # <<>>
    /\ LET chunk == Head(pend[c]) IN
       /\ tail' = Buffered(chunk)
       /\ state' = StateAfter(chunk, tail')
       /\ emitted = IF state' = "waiting_permission" /\ state # "waiting_permission"
                    THEN {"PERMISSION_PROMPT"} ELSE {}
    /\ pend' = [pend EXCEPT ![c] = Tail(@)]
    /\ last' = now
    \* A queue holds the end of what was printed.
    /\ fed' = <<c, out - Len(pend[c]) + 1>>
    /\ UNCHANGED <<now, out, told>>

\* Mutation: the state is not moved on.
StateAfterCompletionSame == state

\* _poll_once(): the dedup guard.
StateAfterCompletion == "idle"

\* _poll_once(), when it emits.
PollOnce(emitted) ==
    /\ Complete /\ emitted = {"TASK_COMPLETE"}
    /\ state' = StateAfterCompletion
    /\ told' = [told EXCEPT ![fed] = @ + 1]
    /\ UNCHANGED <<now, out, pend, tail, last, fed>>

Tick == now < MaxTime /\ now' = now + 1 /\ UNCHANGED <<out, pend, watcher>>
-----------------------------------------------------------------------------
\* However the feeds of the clients overlap, a feed is followed by at most one completion,
\* and by none when its chunk was an interrupt, or a menu or a tool banner is still in the
\* tail.  A chunk is fed once per client that was attached when it was printed, so a pane
\* that falls silent is announced once for each of them at most, once when there is one,
\* and never again when every queue has been read (IdleWatcher._poll_once()).
CompletionIsHonest ==
    [][told' # told =>
         /\ fed # <<>> /\ told[fed] = 0
         /\ tail # <<>> /\ "interrupt" \notin tail[Len(tail)]
         /\ Seen(tail) \cap {"menu", "tool"} = {}
         /\ now - last >= Threshold]_watcher
=============================================================================
