----------------------------- MODULE HookTokens -----------------------------
(***************************************************************************)
(* The credential with which the agent inside a tmux pane posts its        *)
(* lifecycle hooks, over the whole life of the pane: SessionManager's hook *)
(* tokens (src/core/session_manager.py), their store (hook_tokens.py), the *)
(* ring of superseded tokens (hook_token_recovery.py), the id a pane is    *)
(* adopted under (session_adopt_identity.py) and the re-adoption of every  *)
(* pane at boot (session_boot_readopt.py).                                 *)
(*                                                                         *)
(* A process keeps the credential it was spawned with: the server can only *)
(* change the environment the pane's next process will inherit.  An        *)
(* operation of the server is one step here; PaneStream splits adoption,   *)
(* re-adoption and detach at their awaits.                                 *)
(***************************************************************************)
EXTENDS Integers, Sequences, FiniteSets

CONSTANTS Name,       \* tmux session names
          NoName,     \* Python's None
          SesId,      \* the ids POST /sessions invents (ses_<hex>)
          NoSid,      \* no session
          RingSize,   \* SUPERSEDED_RING_SIZE
          Faulty,     \* may a write of hook_tokens.json fail?
          MaxTok,     \* bound: tokens minted
          MaxBoots    \* bound: restarts of the server

ASSUME SizesAssumption ==
    RingSize \in Nat \ {0} /\ MaxTok \in Nat /\ MaxBoots \in Nat /\ Faulty \in BOOLEAN

\* derived_id_for(): the id of a pane about which nothing is stored.
Adopted(n) == <<"adopted", n>>

Sid == SesId \cup {Adopted(n) : n \in Name}

ASSUME IdsAssumption ==
    /\ \A n \in Name : Adopted(n) \notin SesId
    /\ NoSid \notin Sid
    /\ NoName \notin Name

VARIABLES
    \* the tmux server
    pane,      \* the live tmux sessions, by name
    ever,      \* history: credentials some process has held
    \* the memory of SessionManager
    sess,      \* sessions: registered id -> tmux name
    backed,    \* the ids that also have a backend
    cur,       \* _last_session_id
    owned,     \* owned_tmux_sessions
    tok,       \* _hook_tokens: id -> token
    bound,     \* _hook_tmux_names: id -> tmux name
    ring,      \* _superseded_hook_tokens
    plan,      \* boot re-adoptions not attached yet: tmux name -> id
    phase,     \* "boot" until the port is bound
    \* the state directory
    meta,      \* session_metadata.json
    file,      \* hook_tokens.json
    \* bounds and history
    minted,    \* history: token t was minted for minted[t]
    unsaved,   \* history: ids given a token since the last write that succeeded
    forgotten, \* history: tokens no write had saved when the server stopped
    boots

tmux == <<pane, ever>>
registry == <<sess, backed, cur>>
store == <<tok, bound, ring, file, minted, unsaved, forgotten>>
vars == <<tmux, registry, owned, store, plan, phase, meta, boots>>

Token == 1..MaxTok

Cred == [sid : Sid, tok : Token]
NoCred == [sid |-> NoSid, tok |-> 0]
OptCred == Cred \cup {NoCred}

\* `env' is what the next process in the pane inherits, `proc' what the present
\* one holds; `up' is FALSE once it has exited (remain-on-exit keeps the pane);
\* `row': the sessions table has a claimable row for this tmux instance.
Pane == [env : OptCred, proc : OptCred, up : BOOLEAN, row : BOOLEAN]

Entry == [tok : Token, name : Name \cup {NoName}]

\* session_metadata.json: one session, or none, beside the owned names.
Absent == [sid |-> NoSid, name |-> NoName, owned |-> {}]
Metadata == [sid : Sid \cup {NoSid}, name : Name \cup {NoName}, owned : SUBSET Name]

\* A dict: f maps some elements of D into R.
IsPartial(f, D, R) == DOMAIN f \subseteq D /\ f \in [DOMAIN f -> R]

Nothing == [x \in {} |-> NoName]
-----------------------------------------------------------------------------
With(f, k, v) == [x \in DOMAIN f \cup {k} |-> IF x = k THEN v ELSE f[x]]

Without(f, S) == [x \in DOMAIN f \ S |-> f[x]]

Get(f, k, default) == IF k \in DOMAIN f THEN f[k] ELSE default

(* The store.                                                              *)

Validates(c) == c.sid \in DOMAIN tok /\ tok[c.sid] = c.tok

\* decide(): an entry recorded for this id on the pane the id is bound to.
Recoverable(c) ==
    /\ c.sid \in DOMAIN bound
    /\ \E i \in 1..Len(ring[c.sid]) : ring[c.sid][i] = [tok |-> c.tok, name |-> bound[c.sid]]

Heard(c) == Validates(c) \/ Recoverable(c)

\* Drop the entry of token t: there is at most one, because record() drops it
\* before it appends.  The ring keeps the newest RingSize.
Forget(entries, t) ==
    LET at == {i \in 1..Len(entries) : entries[i].tok = t}
        i == CHOOSE j \in at : TRUE
    IN  IF at = {} THEN entries
        ELSE SubSeq(entries, 1, i - 1) \o SubSeq(entries, i + 1, Len(entries))

Newest(entries) == SubSeq(entries, Len(entries) - RingSize + 1, Len(entries))

Push(entries, e) ==
    LET all == Append(Forget(entries, e.tok), e)
    IN  IF Len(all) > RingSize THEN Newest(all) ELSE all

\* Mutation: the replaced token is not remembered.
RememberedNot(s, name) == ring

\* The token a mint replaces is recorded with the pane it was bound to.
Remembered(s, name) ==
    IF s \in DOMAIN tok
    THEN [ring EXCEPT ![s] = Push(@, [tok |-> tok[s], name |-> Get(bound, s, name)])]
    ELSE ring

\* Mutation: a write saves what the operation changed, and no more.
PersistChanged(S) ==
    LET Merged(old, new) == [s \in DOMAIN old \cup (S \cap DOMAIN new) |->
                                IF s \in S \cap DOMAIN new THEN new[s] ELSE old[s]]
    IN  /\ \/ /\ file' = [tok |-> Merged(file.tok, tok'), bound |-> Merged(file.bound, bound')]
              /\ unsaved' = {}
           \/ Faulty /\ UNCHANGED file /\ unsaved' = unsaved \cup S
        /\ UNCHANGED forgotten

\* save_tokens() replaces the file with the whole table, or fails and leaves the old
\* one; S are the ids whose token the operation has just put in force.  Nothing reads
\* the flag the code keeps of a failure (_hook_tokens_durable).
Persist(S) ==
    /\ \/ file' = [tok |-> tok', bound |-> bound'] /\ unsaved' = {}
       \/ Faulty /\ UNCHANGED file /\ unsaved' = unsaved \cup S
    /\ UNCHANGED forgotten

NextToken == Len(minted) + 1

Mint(s, name) ==
    /\ Len(minted) < MaxTok
    /\ minted' = Append(minted, s)
    /\ ring' = Remembered(s, name)
    /\ tok' = With(tok, s, NextToken)
    /\ bound' = IF name = NoName THEN bound ELSE With(bound, s, name)
    /\ Persist({s})

Keep(s, name) ==
    /\ bound' = With(bound, s, name)
    /\ UNCHANGED <<tok, ring, minted>>
    /\ Persist({})

\* get_env_for_spawn(): the token already held, or one minted without a name.
EnvFor(s) ==
    IF s \in DOMAIN tok THEN UNCHANGED store ELSE Mint(s, NoName)

CredOf(s) == [sid |-> s, tok |-> tok'[s]]
-----------------------------------------------------------------------------
(* The registry.                                                           *)

\* resolve_session_id(): the ids the store binds to this pane, a created id
\* before an adopted one.  The code takes the first in lexicographic order;
\* the ids are random, so it may be any of them.
Ladder(n) ==
    LET candidates == {s \in DOMAIN bound : bound[s] = n}
        created == candidates \cap SesId
    IN  IF created # {} THEN created
        ELSE IF candidates # {} THEN candidates ELSE {Adopted(n)}

Recovered(n) == \E s \in DOMAIN bound : bound[s] = n

\* _registered_ids_for_tmux_name().
RegisteredOn(n) == {s \in backed : sess[s] = n}

Register(s, n, dropped) ==
    /\ sess' = With(Without(sess, dropped), s, n)
    /\ backed' = (backed \ dropped) \cup {s}
    /\ cur' = s

\* _wipe_session_state(): the newest of the others becomes current.  The model
\* keeps no insertion order and lets it be any of them.
Wipe(S) ==
    /\ sess' = Without(sess, S)
    /\ backed' = backed \ S
    /\ IF cur \notin S THEN UNCHANGED cur
       ELSE IF DOMAIN sess \subseteq S THEN cur' = NoSid
       ELSE cur' \in DOMAIN sess \ S

\* _save_session_metadata(): nothing is written when there is no session.
SaveMetadata ==
    meta' = IF cur' = NoSid THEN meta
            ELSE [sid |-> cur', name |-> sess'[cur'], owned |-> owned']

\* What destroy and detach write: only the current session is on disk, so
\* losing another one writes nothing, and losing the last unlinks the file.
Repoint(s) ==
    IF cur # s THEN UNCHANGED meta
    ELSE IF cur' = NoSid THEN meta' = Absent
    ELSE SaveMetadata

Init ==
    /\ pane = Nothing /\ ever = {}
    /\ sess = Nothing /\ backed = {} /\ cur = NoSid
    /\ owned = {}
    /\ tok = Nothing /\ bound = Nothing
    /\ ring = [s \in Sid |-> <<>>]
    /\ plan = Nothing
    /\ phase = "up"
    /\ meta = Absent
    /\ file = [tok |-> Nothing, bound |-> Nothing]
    /\ minted = <<>> /\ unsaved = {} /\ forgotten = {}
    /\ boots = 0
-----------------------------------------------------------------------------
(* What happens in tmux without the server.                                *)

\* The user starts a tmux session on the server's socket.
ExternalPane(n) ==
    /\ n \notin DOMAIN pane
    /\ pane' = With(pane, n, [env |-> NoCred, proc |-> NoCred, up |-> TRUE, row |-> FALSE])
    /\ UNCHANGED <<ever, registry, owned, store, plan, phase, meta, boots>>

KillOutside(n) ==
    /\ n \in DOMAIN pane
    /\ pane' = Without(pane, {n})
    /\ UNCHANGED <<ever, registry, owned, store, plan, phase, meta, boots>>

AgentExits(n) ==
    /\ n \in DOMAIN pane /\ pane[n].up
    /\ pane' = [pane EXCEPT ![n].up = FALSE]
    /\ UNCHANGED <<ever, registry, owned, store, plan, phase, meta, boots>>

(* POST /hooks/claude-event.  Hooks are duplicated and delayed, so any      *)
(* credential some process once held may be presented at any time.  One    *)
(* that validates, and one that is refused, leaves the store as it is.     *)

\* Mutation: an accepted entry stays in the ring.
ConsumedNot(s, t) == ring

Consumed(s, t) == [ring EXCEPT ![s] = Forget(@, t)]

HookRecovered(c) ==
    /\ phase = "up" /\ c \in ever
    /\ ~Validates(c) /\ Recoverable(c)
    /\ ring' = Consumed(c.sid, c.tok)
    /\ tok' = With(tok, c.sid, c.tok)
    /\ UNCHANGED <<bound, minted>>
    /\ Persist({c.sid})
    /\ UNCHANGED <<tmux, registry, owned, plan, phase, meta, boots>>
-----------------------------------------------------------------------------
(* The requests of the user.                                               *)

\* POST /sessions: the name avoids every live, registered or owned one.
Create(s, n) ==
    /\ phase = "up"
    /\ \A t \in DOMAIN minted : minted[t] # s
    /\ n \notin DOMAIN pane \cup owned \cup {sess[x] : x \in backed}
    /\ Mint(s, n)
    /\ \E recorded \in BOOLEAN :
          pane' = With(pane, n, [env |-> CredOf(s), proc |-> CredOf(s),
                                 up |-> TRUE, row |-> recorded])
    /\ ever' = ever \cup {CredOf(s)}
    /\ Register(s, n, {})
    /\ owned' = owned \cup {n}
    /\ SaveMetadata
    /\ UNCHANGED <<plan, phase, boots>>

\* The spawn failed: the session is wiped, its token is not.  When tmux could
\* not be listed the name may be that of a live session, and this is how the
\* spawn fails.
CreateFails(s, n) ==
    /\ phase = "up"
    /\ \A t \in DOMAIN minted : minted[t] # s
    /\ n \notin owned \cup {sess[x] : x \in backed}
    /\ Mint(s, n)
    /\ UNCHANGED <<tmux, registry, owned, plan, phase, meta, boots>>

\* POST /sessions/respawn, of an exited agent or, when the user insists, of a
\* running one.  A pane nobody registered keeps the environment it has.
Respawn(n) ==
    /\ phase = "up" /\ n \in DOMAIN pane
    /\ \/ \E s \in RegisteredOn(n) :
             /\ EnvFor(s)
             /\ pane' = [pane EXCEPT ![n].env = CredOf(s), ![n].proc = CredOf(s),
                                     ![n].up = TRUE]
       \/ /\ RegisteredOn(n) = {}
          /\ pane' = [pane EXCEPT ![n].proc = pane[n].env, ![n].up = TRUE]
          /\ UNCHANGED store
    /\ ever' = ever \cup ({pane'[n].proc} \ {NoCred})
    /\ UNCHANGED <<registry, owned, plan, phase, meta, boots>>

\* Mutation: the adoption mints a token whatever it knows about the pane.
CredentialMinted(s, n, recovered) == Mint(s, n)

\* A recovered id keeps its token; a derived one is given a new one.
Credential(s, n, recovered) ==
    IF recovered /\ s \in DOMAIN tok THEN Keep(s, n) ELSE Mint(s, n)

\* POST /sessions/adopt.  `known': the claim was recorded and its row read back;
\* otherwise the id is derived.  Whatever is registered on the pane is dropped
\* before the attach, which refuses a pane whose process has exited.
Adopt(n) ==
    /\ phase = "up" /\ n \in DOMAIN pane
    /\ UNCHANGED <<ever, owned, plan, phase, boots>>
    /\ \E known \in BOOLEAN, s \in Ladder(n) \cup {Adopted(n)} :
        LET stale == RegisteredOn(n) \cup ({s} \cap backed)
            row == known \/ pane[n].row
        IN  /\ s \in (IF known THEN Ladder(n) ELSE {Adopted(n)})
            /\ \/ /\ pane[n].up
                  /\ Register(s, n, stale)
                  /\ Credential(s, n, known /\ Recovered(n))
                  /\ pane' = [pane EXCEPT ![n].env = CredOf(s), ![n].row = row]
                  /\ SaveMetadata
               \/ /\ ~pane[n].up
                  /\ Wipe(stale)
                  /\ pane' = [pane EXCEPT ![n].row = row]
                  /\ UNCHANGED <<store, meta>>

\* POST /sessions/detach leaves the tmux session alive.
Detach(s) ==
    /\ phase = "up" /\ s \in backed
    /\ Wipe({s})
    /\ UNCHANGED owned
    /\ Repoint(s)
    /\ UNCHANGED <<tmux, store, plan, phase, boots>>

\* DELETE /sessions kills the tmux session of a registered one.
Destroy(s) ==
    /\ phase = "up" /\ s \in DOMAIN sess
    /\ Wipe({s})
    /\ LET names == IF s \in backed THEN {sess[s]} ELSE {}
       IN  pane' = Without(pane, names) /\ owned' = owned \ names
    /\ Repoint(s)
    /\ UNCHANGED <<ever, store, plan, phase, boots>>

\* DELETE /sessions/external/{name}, refused for a registered one.
DestroyExternal(n) ==
    /\ phase = "up" /\ RegisteredOn(n) = {}
    /\ pane' = Without(pane, {n})
    /\ owned' = owned \ {n}
    /\ UNCHANGED registry
    /\ IF n \in owned THEN SaveMetadata ELSE UNCHANGED meta
    /\ UNCHANGED <<ever, store, plan, phase, boots>>
-----------------------------------------------------------------------------
(* The server stops, or crashes, and starts again.                         *)

\* _gc_hook_tokens(): a token whose recorded name is not owned on disk goes,
\* unless the file says nothing about any owned name.
Collected ==
    IF meta.owned = {} THEN {}
    ELSE {s \in DOMAIN file.bound : file.bound[s] \notin meta.owned}

\* _load_session_metadata(): the one session of the file.
Rehydrated == IF meta.sid = NoSid THEN Nothing ELSE With(Nothing, meta.sid, meta.name)

\* SessionManager.__init__.
Restart ==
    /\ boots < MaxBoots
    /\ boots' = boots + 1
    /\ phase' = "boot"
    /\ tok' = Without(file.tok, Collected)
    /\ bound' = Without(file.bound, Collected)
    /\ ring' = [s \in Sid |-> <<>>]
    /\ \/ file' = [tok |-> tok', bound |-> bound']
       \/ Faulty /\ UNCHANGED file
    /\ forgotten' = forgotten \cup {tok[s] : s \in unsaved} /\ unsaved' = {}
    /\ sess' = Rehydrated
    /\ backed' = {}
    /\ cur' = meta.sid
    /\ owned' = meta.owned
    /\ plan' = Nothing
    /\ UNCHANGED <<tmux, meta, minted>>

\* _clear_stale_metadata(): the session pointer goes, the owned names stay.
ClearStale ==
    /\ meta' = [Absent EXCEPT !.owned = owned']
    /\ Wipe({cur})

\* plan_readopt(): every live pane with a claimable row that nothing holds yet.
Plans(held, ids) ==
    LET due == {n \in DOMAIN pane : pane[n].row /\ n \notin held}
        choices == {f \in [due -> Sid] : \A n \in due : f[n] \in Ladder(n)}
    IN  {Without(f, {n \in due : f[n] \in ids}) : f \in choices}

\* _lifespan_tmux_reconcile(), up to the port being bound.  When tmux cannot be
\* listed nothing is pruned and nothing is held.
Reconcile ==
    /\ phase = "boot"
    /\ phase' = "up"
    /\ \/ plan' = Nothing /\ UNCHANGED <<registry, owned, meta>>
       \/ LET live == DOMAIN pane
              target == Get(sess, cur, NoName)
              ours == target \in live /\ (target \in owned \/ pane[target].row)
          IN  /\ owned' = owned \cap live
              /\ \/ /\ cur = NoSid
                    /\ UNCHANGED <<registry, meta>>
                 \/ /\ cur # NoSid /\ ours
                    /\ backed' = {cur}
                    /\ UNCHANGED <<sess, cur>>
                    /\ SaveMetadata
                 \/ /\ cur # NoSid /\ ~ours
                    /\ ClearStale
              /\ \/ plan' = Nothing
                 \/ plan' \in Plans({sess'[s] : s \in backed'}, DOMAIN sess')
    /\ UNCHANGED <<tmux, store, boots>>

\* One attach of the boot pass, in flight while requests are served.  Its id
\* token pair goes to the pane's environment; the pass puts the current pointer
\* back where it was only when it ends, so the model lets it be either.
ReadoptAttach(n) ==
    LET s == plan[n] IN
    /\ phase = "up" /\ n \in DOMAIN plan
    /\ plan' = Without(plan, {n})
    /\ n \in DOMAIN pane /\ pane[n].up
    /\ sess' = With(sess, s, n)
    /\ backed' = backed \cup {s}
    /\ cur' \in {s, cur} \ {NoSid}
    /\ IF s \in DOMAIN tok
       THEN bound' = With(bound, s, Get(bound, s, n)) /\ UNCHANGED <<tok, ring, file, minted, unsaved, forgotten>>
       ELSE Mint(s, Get(bound, s, n))
    /\ pane' = [pane EXCEPT ![n].env = CredOf(s)]
    /\ UNCHANGED <<ever, owned, phase, meta, boots>>

\* The pane is gone, or its process has exited, by the time of the attach.
ReadoptRefused(n) ==
    /\ phase = "up" /\ n \in DOMAIN plan
    /\ n \in DOMAIN pane => ~pane[n].up
    /\ plan' = Without(plan, {n})
    /\ UNCHANGED <<tmux, registry, owned, store, phase, meta, boots>>

Next ==
    \/ \E n \in Name :
          \/ ExternalPane(n) \/ KillOutside(n) \/ AgentExits(n)
          \/ \E s \in SesId : Create(s, n) \/ CreateFails(s, n)
          \/ Respawn(n) \/ Adopt(n) \/ DestroyExternal(n)
          \/ ReadoptAttach(n) \/ ReadoptRefused(n)
    \/ \E c \in Cred : HookRecovered(c)
    \/ \E s \in Sid : Detach(s) \/ Destroy(s)
    \/ Restart
    \/ Reconcile

Spec == Init /\ [][Next]_vars
-----------------------------------------------------------------------------
\* Every variable keeps its declared shape: the tables the server keeps in memory,
\* the two files and the panes.
TypeOK ==
    /\ IsPartial(pane, Name, Pane) /\ ever \subseteq Cred
    /\ IsPartial(sess, Sid, Name) /\ backed \subseteq DOMAIN sess
    /\ cur \in DOMAIN sess \cup {NoSid}
    /\ owned \subseteq Name
    /\ IsPartial(tok, Sid, Token) /\ IsPartial(bound, Sid, Name)
    /\ ring \in [Sid -> Seq(Entry)]
    /\ IsPartial(plan, Name, Sid) /\ phase \in {"boot", "up"}
    /\ meta \in Metadata /\ (meta.sid = NoSid <=> meta.name = NoName)
    /\ IsPartial(file.tok, Sid, Token) /\ IsPartial(file.bound, Sid, Name)
    /\ minted \in Seq(Sid) /\ Len(minted) <= MaxTok
    /\ unsaved \subseteq DOMAIN tok /\ forgotten \subseteq Token
    /\ boots \in 0..MaxBoots

\* The agent of a pane the server created and still owns is silenced by one thing
\* only: a stop of the server before any write of hook_tokens.json since its token was
\* put in force has succeeded.  Nothing that is detached, adopted, respawned, recovered
\* or restarted, whichever other writes failed, takes its token away.  This is
\* what the durable store and the keep-the-token rule of a recovered adoption are for.
OwnedAgentsHeard ==
    \A n \in DOMAIN pane \cap owned : LET c == pane[n].proc IN
        (pane[n].up /\ c.sid \in SesId) => Validates(c) \/ c.tok \in forgotten

\* One id has one credential: the token that validates for it, and every one
\* that could be recovered, was minted for that very id; a token is recoverable
\* at most once, and an accepted recovery leaves no second copy of the live one.
TokensAreOwn ==
    \A s \in Sid :
        /\ s \in DOMAIN tok => tok[s] \in DOMAIN minted /\ minted[tok[s]] = s
        /\ Len(ring[s]) <= RingSize
        /\ \A i \in 1..Len(ring[s]) :
              /\ ring[s][i].tok \in DOMAIN minted /\ minted[ring[s][i].tok] = s
              /\ s \in DOMAIN tok => ring[s][i].tok # tok[s]
              /\ \A j \in 1..Len(ring[s]) : ring[s][i].tok = ring[s][j].tok => i = j

\* A write that fails costs nothing once any later one succeeds, whichever operation
\* makes it: whatever the id, a restart brings back its token, if a write has succeeded
\* since that token was put in force and its pane's name is one the metadata owns.
SavedTokensSurvive ==
    [][boots' # boots =>
         \A s \in DOMAIN tok \ unsaved :
            (s \in DOMAIN bound /\ bound[s] \in meta.owned)
                => s \in DOMAIN tok' /\ tok'[s] = tok[s]]_vars

\* Minting over a running agent never silences it, while its ring has room: the
\* token it holds stays recoverable.
MintNeverSilences ==
    [][minted' # minted =>
         \A n \in DOMAIN pane \cap DOMAIN pane' : LET c == pane[n].proc IN
            (c # NoCred /\ Heard(c) /\ pane'[n].proc = c /\ Len(ring[c.sid]) < RingSize)
                => Heard(c)']_vars

-----------------------------------------------------------------------------
(* What the comments of the code promise and the code does not do.         *)

\* _gc_hook_tokens(): the collection never revokes the token of a live agent.
CollectionSparesLiveAgents ==
    [][boots' # boots =>
         \A n \in DOMAIN pane : LET c == pane[n].proc IN
            (pane[n].up /\ c # NoCred /\ Validates(c)) => Validates(c)']_vars
=============================================================================
