# A verification development of CloudeCode

CloudeCode serves Claude Code agents that live in tmux panes to browsers and to a
macOS application. The server is one asyncio process (FastAPI); tmux outlives it, and
most of what can go wrong goes wrong between the two: the server is restarted,
updated or killed while agents run, browsers reload and race, hooks arrive late or
twice, and the server must find everything again.

This directory holds TLA+ models of the parts where that matters most, the TLC
configurations that check them on small instances, and TLAPS proofs of the main
results for every value of the constants. `PROJECT.json` lists components, runs,
theorems, hazards, the lines of code each definition translates, and for each
checked property a mutation of the model that must break it.

    tlc -config MCPaneStream.cfg MCPaneStream      # check one instance
    tlapm PaneStreamProofs.tla                     # check the proofs

Paths below are relative to the repository's `src/`, unless they start with `client/`
or `macOS/`.

## 1. The system and its parts

| part | code | state it keeps | operations | model |
|---|---|---|---|---|
| Refresh-token store | `core/refresh_store.py` | table `refresh_tokens`, an open sqlite transaction | insert, rotate, is_valid, revoke, revoke_chain, purge | `RefreshTokens` |
| Authentication endpoints | `api/auth.py` | TOTP replay cache, signed JWTs | verify, refresh, logout, check of each request | `RefreshTokens`, `BrowserAuth` |
| Browser login state | `client/js/auth.js`, `api.js`, `app.js` | two `localStorage` entries, one in-flight promise per tab | load, login, call, refresh, logout | `BrowserAuth` |
| Hook credentials | `core/hook_tokens.py`, `hook_token_recovery.py`, `session_adopt_identity.py` | id -> token, id -> tmux name, ring of superseded tokens, `hook_tokens.json` | mint, keep, validate, recover, save, load, collect | `HookTokens` |
| Session manager | `core/session_manager.py` | sessions, backends, subscribers, owned names, current pointer, `session_metadata.json` | create, adopt, detach, destroy, respawn, restart, reconcile | `HookTokens` (ids, credentials, files), `PaneStream` (the stream), `SessionRecords` (the rows) |
| Boot re-adoption | `core/session_boot_readopt*.py` | a plan: tmux name -> id | plan, attach each target while requests are served | `HookTokens`, `PaneStream` |
| tmux backend | `core/tmux_backend.py` | pipe path, reader task, offset, descriptor | start, attach, ensure_pipe_pane, tail loop, rotate, stop | `PaneStream` |
| Websocket terminal | `api/websocket.py`, `ws_startup_paint.py` | a subscriber queue per client | accept, subscribe, paint, forward, close | `PaneStream` |
| Terminal size | `api/resize_negotiation.py`, `core/terminal_size.py` | size per client | resize, leave, adopt | planned |
| Session status | `core/session_activity.py`, `session_status.py`, `activity_persist.py` | activity per session, persisted seed | hook event, seed, restart | `SessionStatus` |
| Unread flags, toasts | `core/unread_store.py`, `toast_auto_ack.py`, `client/js/toast*.js` | unread rows, pending toasts, the cards of each page | raise, supersede, answer, dismiss, poll | `Toasts`, `ToastPages`; the flag in `SessionStatus` |
| Startup gate | `core/session_startup_gate*.py` | gate per session, ledger | arm, detect, release, time out | planned |
| Notifications | `core/notifications/` | idle watchers, bounded queue, limiter | watch, fire, send, drop | `IdleWatcher`, `Notifications` |
| Datastore migration | `core/db_migration.py`, `db_backup.py`, `db_version_gate.py` | schema version, trail, backup, mirror | back up, migrate, mirror, gate | `DatastoreMigration`, `AtomicUpgrade` |
| Configuration merge | `core/config_merge.py`, `config_migration.py` | `config.json` | merge, migrate | planned, as an algorithm |
| Session records | `core/session_store.py`, `session_identity.py`, `session_reconcile.py`, `session_lineage.py`, `session_lifecycle.py`, `session_*_persist.py` | rows of tmux instances and of the conversations below them | record, reconcile, bind, fork, reap, close | `SessionRecords` |
| Respawn, fork, restart, recreate | `core/session_respawn.py`, `session_fork.py`, `session_restart.py`, `api/routes.py` | requests across their awaits | choose a row and the conversation to resume, spawn, write | `SessionRecords`; argv and recreate are not modelled |
| Transcript ingest | `core/corpus_ingest_*.py` | scan cache, content-addressed store | scan, ingest, cancel | planned |
| Archive browser, message model | `core/archive_*.py`, `message_*.py` | none that changes (title overlay) | queries, batch extraction | not modelled: read-only or batch |
| Projects, groups, import | `core/project_*.py`, `session_import*.py` | ownership rows | create, move, reconcile | after the session records |
| Upload sweeper | `core/upload_sweeper.py` | one directory | sweep | not modelled: its hazard is the file system |
| Local servers, log monitor, metrics, update check | `core/local_servers.py`, `log_monitor.py`, `host_metrics.py`, `update_check.py` | caches | periodic readings | not modelled: guard no state of others |
| macOS application | `macOS/main.js`, `server-manager.js`, `supervisor-policy.js`, `quit-sequence.js` | child process, what is believed of it, restart budget | start, adopt, stop, supervise, take over, quit | `ServerManager`, `SupervisorPolicy` |
| Browser interface | `client/js/terminal.js`, ... | rendering, socket reconnect | draw, type, reconnect | reconnect planned |
| Routes and start | `api/routes.py`, `main.py` | none of its own | drive the components above | through them |

How they interact:

* `api/auth.py` handlers call the store method by method; between two methods any
  other handler may run. A browser's tabs share one token pair and know nothing
  of each other. The purge loop and the handlers share one connection.
* `SessionManager` is called by routes, websockets and the boot pass on one event
  loop, without a lock: everything it does between two `await`s is atomic and
  nothing else is. Its tables (`sessions`, `backends`, `_subscribers`,
  `owned_tmux_sessions`, the hook tokens) are separate dictionaries that must agree.
* A pane's process holds the credential of its spawn for life; the server can only
  change what the next process inherits. The credential has to be accepted by a
  server that was restarted, re-adopted the pane, or gave it another id.
* tmux's `cat` writes the file a backend tails; the two only share a path.
* A row of `sessions` and the pane it stands for share a name and the second of the pane's
  birth. Create, restart, fork, adoption, destroy, every listing and every lifecycle hook write
  rows, each after awaits of its own and after asking tmux what lives now.
* A hook of an agent is one POST with three effects: on the dot of its session
  (`SessionStatus`), on its toasts (`Toasts`), and on the notification queue
  (`Notifications`, which the watcher of the session's output fills too). Each POST
  awaits its body and its broadcasts, so hooks overtake each other.
* The macOS application knows the server by a pid, an exit event if it is its own
  child, and a health probe; each of the three may be old when it is acted on.
* Everything the server knows after a restart is in `session_metadata.json`,
  `hook_tokens.json`, the sqlite files and tmux.

### What makes each part correct, and what is hard about it

* **Refresh tokens**: a lineage never forks, reuse burns every heir, a revocation is
  final, a delivered token survives a restart; under handlers that interleave,
  statements that raise with the transaction open, a purge, clocks and a crash.
* **Browser**: tabs that race for one token neither sign the user out nor look like
  thieves; answers are late, lost, or for a page that is gone.
* **Hook credentials**: the agent of a pane is heard after any sequence of detach,
  adopt, respawn and restart, and one id never takes another's token.
* **The stream**: one reader per pane, on the file tmux writes, and every byte once to
  every client, although adoption, detach and the boot pass suspend at each command.
* **Status**: hooks that come late, twice, out of order or never leave no dot wrong for
  good; in order they make it right; a closing event never makes work of rest.
* **Toasts**: one "your turn" at most, no open toast lost to an overtaken handler, and
  every page in the end shows the open toasts and no others.
* **Notifications**: a client's feed of a chunk is announced as a completion once at most, the limiter drops exactly what its
  settings say, and whatever a channel does the queue empties.
* **Migration**: from any crash point the next start finds the old data or the new,
  knows what was attempted, and the way back from the last change exists.
* **Session records**: one row for a pane and one for a conversation, a row that keeps its
  past, and a line of conversations whose head is the one in the pane, although names are used
  again, two panes are born in one second, hooks are lost and several claudes share a pane.
* **macOS application**: no process of somebody else is signalled unasked, automatic
  restarts stay within the budget, a dead server is noticed, and quitting takes the
  server along.
* **Terminal size** (planned): the pane is as small as its smallest viewer, including
  right after an adoption resized it.

`PROJECT.json` lists the hazards at their lines, with the properties that cover them
or why none does yet.

## 2. Plan

Modules, in the order of what matters most to a user of the program:

1. `RefreshTokens` (done): the store and the handlers. `RefreshTokensProofs` (done).
2. `HookTokens` (done): credentials over the whole life of a pane, one server operation
   per step. `HookTokensProofs` (done).
3. `BrowserAuth` (done) EXTENDS `RefreshTokens` and composes it with the tabs of a
   browser. `RefreshTokensProofs` (done): the composition implements `RefreshTokens`, and its
   tabs do not harm each other.
4. `PaneStream` (done) takes adopt, re-adopt and detach, one step each in `HookTokens`, apart
   at their awaits, with the tail loop and the websockets. `PaneStreamProofs` (done).
5. `DatastoreMigration` (done): trail, backup, chain and mirror with a crash between any two;
   it implements the abstract `AtomicUpgrade`. `DatastoreMigrationProofs` (done).
6. `SessionStatus` (done): hooks in any order, the listing, looks of the user, time and
   restarts. `ActivityProofs` (done), of it and of `Notifications`. `Toasts` (done) and `ToastPages` (done), which EXTENDS it with the pages.
   `ToastsProofs` (done), of both: the pages implement `Toasts`.
7. `IdleWatcher` and `Notifications` (done), which EXTENDS it with queue, limiter and worker.
   Proved in `ActivityProofs` (done).
8. `SupervisorPolicy` and `ServerManager` (done): the macOS application.
   `ServerManagerProofs` (done).
9. `SessionRecords` (done): the rows and the lineage, with the requests that write them apart at their
   awaits. `SessionRecordsProofs` (done). Left: an abstract registry (one row per pane, one backend per
   session) that it and `PaneStream` implement together.
10. The startup gate beside `SessionStatus`; `TerminalSize`, `TotpReplay`, `CorpusIngest`.
11. Algorithms against reference definitions: the merge of configurations, the choice
    of argv of a respawn, the identity ladder with its `legacy_session_id` rung.

Theorems left: every safety and action property that a run checks is proved. What remains are the
safety properties of the components still to come, and the registry of point 9 as a refinement.

The list of runs is kept small, so that all of it can be run on every change: one run
for each question, and a property in a run for each thing worth saying. When a new
component needs a run, one that shows a disagreement or a variant gives way and stays
described in section 6. The type invariant of a module is checked by a run only where
no theorem proves it.

## 3. The models

In every module one action is what the code does without another actor in between,
variables marked *history* exist for the properties only, and a constant marked
*bound* only limits what TLC explores. Mutated definitions (used only to show that a
property can fail) carry a comment `Mutation:`.

### RefreshTokens

| variable | code |
|---|---|
| `now`, `ttl` | `time.time()`, `refresh_token_ttl_seconds` as read at the start |
| `db`, `disk` | `refresh_tokens` as the connection sees it, and as committed |
| `req` | where each HTTP request stands between two methods of the store |
| `claim` | the signed claims of every token; `parent` is history |
| `held`, `dead`, `burned` | history: delivered, revoked by a committed method, walked by a committed `revoke_chain` |

Every method of `RefreshStore` holds `_lock` from its first statement to its commit: it
is one step. `/auth/refresh` is `Refresh`, then `IsValidYes`/`IsValidNo`, then `Rotate`, or
`IsSuperseded` and `RevokeChain`; `/auth/verify` is `Verify`, `Issue`; `/auth/logout` is `Logout`,
`Revoke`. A method reads the clock before it waits for the lock, so the `t` of a request may
be in the past when its method runs. With `Faulty`, a statement or commit may raise: the
store never rolls back, so a prefix of the method's statements stays in the open
transaction, is seen by every later method and is committed by the next one that
succeeds, unless sqlite rolled it back itself (`Raise`). `Zone` is the offset between local
time and UTC, by which `create_refresh_token` shifts the stored expiry (section 6).
`Walk` is the set `revoke_chain`'s loop visits, defined as the least closed set instead
of by recursion, so that the proofs can use it.

Assumptions: `PurgeAssumption` (the purge keeps a row for longer than the zone shift and a request
in flight: one day in the code), `GraceAssumption` (a request is answered within the grace
window: ten seconds by default), `NoJtiAssumption`, `TimesAssumption` (types).

### BrowserAuth

Extends the store with `stored` and `access` (the two `localStorage` entries), `tab` (what each tab
waits for) and the histories `lost` (tokens whose refresh answer never arrived) and `revoking`.
A tab is at the login prompt, idle, about to send a refresh, waiting for it, repeating
the refused call, or logging in. `Unauthorized` is enabled whenever a tab is idle: an access
token can expire, be removed by another tab, or have been sent before it was replaced.
`Refreshed`, `Rejected` and `NetworkError` are the three outcomes `Auth.refresh()` tells apart;
`Rejected` has the second outcome of `callEnvelope()`, which clears nothing. `Load` is a page
(re)load at any moment. Server steps that no tab takes part in are `Handle`, `Unread`, `Background`.

`TwoTripsAssumption`: two round trips fit in the grace window. `TabsNeverBurn` depends on
it: the loser of a race may send its token one round trip after the winner's rotation
began.

### HookTokens

| variable | code |
|---|---|
| `pane`, `ever` | tmux: sessions with the environment, process and claimable row of each; history |
| `sess`, `backed`, `cur`, `owned` | `sessions`, `backends`, `_last_session_id`, `owned_tmux_sessions` |
| `tok`, `bound`, `ring` | `_hook_tokens`, `_hook_tmux_names`, `_superseded_hook_tokens` |
| `plan`, `phase` | boot re-adoptions not attached yet; "boot" until the port is bound |
| `meta`, `file` | `session_metadata.json`, `hook_tokens.json` |
| `minted`, `unsaved`, `forgotten` | histories: every mint; the ids given a token since the last write that succeeded; the tokens no write had saved when the server stopped |

`Persist` is `save_tokens()`: it replaces the file with the whole table, or, with `Faulty`, fails and leaves
the old one. The flag `_hook_tokens_durable` that the code sets is left out, because nothing reads it.

Actions: `ExternalPane`, `KillOutside`, `AgentExits` (tmux alone), `HookRecovered` (a hook whose
token is no longer the live one but is in the ring; any credential a process ever held
may be presented, since hooks are duplicated and delayed), `Create`, `CreateFails`, `Respawn`,
`Adopt`, `Detach`, `Destroy`, `DestroyExternal` (requests), `Restart` (load of both files and the
collection), `Reconcile` (with the plan of re-adoptions), `ReadoptAttach`, `ReadoptRefused` (the
boot pass, while requests are served). Where the code's choice depends on data the model
leaves out, it is any of the possibilities: the first of several ids in lexicographic
order, the newest remaining session, whether a row could be read. Left out: the claim on
orphaned uploads and the rung `legacy_session_id` of the ladder.

### PaneStream

| variable | code |
|---|---|
| `out`, `pipe` | what the pane printed; the file tmux's `cat` has open |
| `data`, `at`, `files` | contents by inode; the inode each path names; inodes created |
| `be` | backends: path, `_reader_task`, `_adopt_tail_start_offset`, descriptor, position |
| `reg`, `subs` | `backends[session_id]`, `_subscribers[session_id]` |
| `op` | the operations in flight, each at the await where it stands |
| `view` | the websocket clients |

One pane, alive throughout, that every operation resolves to the same session id. Files
are inodes, so that a renamed file goes on being written and read by whoever has it open.
Adopt is `AdoptBegin`, `Cancel`, `AdoptWipe`, `Probe`, `Unpipe`, `StartPipe`, `RecordOffset`,
`Attach`; the boot pass enters at `Probe`; detach is `DetachBegin`, `Cancel`, `DetachClose`,
`DetachWipe`; each step ends where the code awaits. `Subscribe` may find the session gone and then
joins no list. Not modelled: the spawn of a pane (it is an initial state), its death,
failing tmux commands, keys, the text of the paint.

### DatastoreMigration and AtomicUpgrade

| variable | code |
|---|---|
| `trail`, `cut` | `migration_trail.jsonl`, line by line; whether its last line has no newline |
| `tables`, `meta`, `file`, `rows` | the schema the tables really have, `meta.schema_version`, whether `cloude.db` exists, whether `projects` has a row |
| `mirror`, `kept` | the table `migration_trail`; the verified backups |
| `code`, `boots`, `pc`, `verdict`, ... | `CURRENT_SCHEMA_VERSION` of the release that starts, and where this start stands |
| `moves` | history: the committed chains |

A start is `Mark` (unclosed lines are marked interrupted), `Announce`, `Connect`, `Reconcile`,
`TakeBackup`, `Chain`, `Close`, `Mirror`, `Prune`. `Crash` is possible between any two, and leaves a
line half written if one was being written; `Raised` and `Failed` are the errors each step
answers for. A start may be one of an older or a newer release than the last. A line is
`whole`, `torn` (readable up to its kind, and forgiven at the very end) or `junk` (what the next append
makes of a torn one). `AtomicUpgrade` knows the schema of the data and whether a server is down,
starting, serving or refusing; a step goes to the code's schema or nowhere, and only data of
that schema is served as current. The refinement maps `schema` to `tables` and `phase` to `pc`
and `verdict`.

### SessionStatus

| variable | code |
|---|---|
| `agent` | what the agent really does (at its prompt, thinking, asking, in a tool; its dialog drawn; a subagent) |
| `flight` | hooks sent and not yet applied |
| `sig`, `unread` | `SessionActivitySignal`; the unread rows |
| `row`, `cache` | the persisted `activity_state` and stamp; `_last_persisted_activity` |
| `ordered`, `looked` | history |

`Agent` and `Draw` move the agent; `Apply` applies the oldest hook, a younger one (reordered), or drops it;
`Repeat` applies one again; `List` is a poll of the session list, which resolves the dot, checks an
open permission against the pane once its grace is over and writes the row; `View` and `MarkUnread`
are the user's; three expiries are time; `Restart` reads the row back. Abstractions: one session
whose hooks name it, whose pane lives and runs the agent; the automatic and the manual
unread flag are one; ages are two-valued; the row is written only when the row's epoch is known,
so any write may fail; within twenty seconds the agent has drawn its dialog; the rung of the seed that
reads the transcript is left out.

### Toasts and ToastPages

`toasts` is `_pending_toasts` of one session, as a set of records `[id, at, kind, ack]`; `clock` gives out ids
and instants; `hook` says where each POST stands. `Receive` stamps the arrival (`toast_auto_ack.py`'s cutoff),
`Apply` acknowledges what the hook answers, `RaiseToast` records its toast or supersedes the open one
under its id, `Ack` is a dismissal, `Wipe` the end of the session. `ToastPages` EXTENDS `Toasts` with the
`cards` of each page, the `frames` on its socket (in no order), its `poll`, its `ring` of dismissed ids and the dismissals
on their way; `LoseAck` and `Attach` are a lost POST and a lost socket. The list that a page gets
when it attaches is as many `toast.new` frames; an id leaves the ring only when its POST and the polls
of that time are over, since the ring keeps it for longer than a request may take.

### SessionRecords

| variable | code |
|---|---|
| `panes` | tmux: name, birth second and `#{session_id}` of each session, and the claude in it |
| `rows` | table `sessions`; a row's id is its place, since none is deleted |
| `jobs` | requests between two awaits: `create`, `fork`, `restart`, `close` |
| `panes[n].ended` | `_last_session_end_uuid[session_id]` |
| `now`, `convs`, `used` | the second; conversations so far; *bound* |
| `panes[n].heard` | history: whether all moves of this pane were recorded, whether another process's hook met its entry, and whether its line met another pane's (`Noted`) |

A row is an anchor when it has an epoch; the others are conversations below it (`parent`, `kind`). The
writers are operators from a table to a table: `Reconciled` (the reaper every complete listing runs),
`Sighted` and `Refused` (`record_instance`, `reconcile_existing`), `Rebound` and `Clashes` (`rebind_instance`),
`Correlated`, `Recorded` (`record_claude_session`), `Stamped` (`mark_as_fork`). `Start` is a SessionStart that
arrives, is lost, meets a listing that fails after its entry was popped, or comes without a payload. Requests:
`AskFork`, `AskRestart`, then `Spawn`, `Persist` (for whatever is live under the name by then) and for a fork `Stamp`; `Destroy`, then
`MarkClosed`; `Adopt`, `Respawn`, `List`. tmux and the user act by themselves: `StartOutside`, `Die`, `Rename`.

Abstractions: `origin`, titles, projects and `claim_instance`, which writes `origin` only, are left out, and so are a crash of the
server, which ends its jobs and forgets the entries, and a restart of tmux within one second; the choice of a free name and the spawn are one step; a claude
takes more than a second to come up and waits for its own hooks, so those are in order or lost; the correlation from the
transcripts finds the pane's conversation or nothing; another claude (an agent of /fork, or one a tool runs) starts
while the pane's own is up. `Depth` is the walk's limit, 512 in the code: `Line` is the rows that `lineage_head` passes, and
may stop short of the end.

### IdleWatcher and Notifications

`pend` are the queues of the clients, each fed to the one watcher of the session by its own task
(`Feed`); `tail`, `state`, `last` are the watcher's ring, `IdleState` and `last_output_ts`; `PollOnce` is its timer. Histories:
`fed` is the last feed (which client, which chunk), `told` counts the completions announced over each. A
chunk is the set of the marks that the regular expressions find in it. `Notifications` EXTENDS it with
`queue`, `worker`, `times` and `lastBy`: `Emit` is `emit()` with its drop of the oldest, `Judge` the limiter with
its charge before the send and its `popleft` loop (`Kept`), `Dispatched` the return of the channels, sent or failed. `log` is a sequence,
since with a cooldown of 0 (`config.py:325` allows it) two dispatches of a kind fall in one second. Left out: replay,
texts, HTTP. A session re-adopted at boot has no watcher.

### SupervisorPolicy and ServerManager

`SupervisorPolicy` is `supervisor-policy.js` as functions on a record. `ServerManager` has two worlds: `life`, `version` and
`exits` are the kernel's (who is booting, serving, dead; which exit events are due), everything
else is what the application believes. A flow is what one click, the restart timer, the launch or
the quit started: `probe`, `ask`, `holder`, `term`, `settle`, `rest`, `take`, `free`, `consent` and `replace` are the awaits at which
it can stand, and what it read before (`flow[f].pid`, `seen`) is kept as it was. `Poll` is the
tick of the statistics with the policy behind it; `Deliver` an exit event; `LetThrough` the quit's
`before-quit`. Abstractions: a child's "ready" line is processed at once; the `error` event of a failed spawn
comes before anything else; whoever holds the port and is no Cloude Code server answers like one
that times out, and one that somebody else runs is there at launch or never; measuring the
port and spawning are one step, as are SIGTERM, its grace and SIGKILL; at most one flow of the timer is in
flight; the menu offers what the current state allows; a poll in flight at the quit, the tray
and the launch's own health check are left out. The model ends when the application is gone.

## 4. The runs

All runs explore their instance to the end (no depth limit). Symmetry is used where all
properties of the run are invariants or step properties; never with liveness.

| run | configuration | question | result |
|---|---|---|---|
| `browser_tabs` | `MCBrowserAuth.cfg` | two tabs with one `localStorage` over the life of a lineage: rotation, reuse within the grace window and after it, logout, expiry, restart, lost answers | `LineageNeverForks`, `BurnReachesHeirs`, `RevocationIsFinal`, `DeliveredIsDurable`, `BurnOnlyOnReuse`, `StoredTokenIsAlive`, `TabsNeverBurn` hold |
| `hook_pane` | `MCHookTokens.cfg` | every order of operations, failed writes, crashes and hooks on one pane | `OwnedAgentsHeard`, `TokensAreOwn`, `MintNeverSilences`, `SavedTokensSurvive` hold |
| `hook_collection` | `MCHookCollectionSparesLiveAgents.cfg` | does the collection spare live agents? | `CollectionSparesLiveAgents` violated |
| `pane_stream` | `MCPaneStream.cfg` | one pane's output through adoptions, boot passes, detaches, rotations and clients, one operation at a time | `StreamIsConnected`, `OneTailer`, `ViewersInStep` and the liveness `OutputArrives` hold |
| `pane_tailers` | `MCPaneStreamTailers.cfg` | the same with two operations at a time | `OneTailer` violated |
| `datastore_start` | `MCDatastoreMigration.cfg` | three starts of any releases, killed or failing anywhere | `EveryMoveIsAnnounced`, `TrailTellsTheTruth`, `LastMoveIsReversible`, `MirrorFollowsTrail`, the refinement `UpgradeIsAtomic` and the liveness `StartsEnd` hold |
| `session_status` | `MCSessionStatus.cfg` | four hooks, late, doubled, reordered or lost, with a restart | `OrderedDotIsRight`, `RestHolds` and the liveness `DotSettles` hold |
| `toast_pages` | `MCToastPages.cfg` | two handlers that overtake each other, and what a page shows while frames, polls and dismissals do so or are lost | `OneYourTurn`, `NoToastIsLost`, `ReasonStands`, `PollsTellTheTruth` and the liveness `PagesSettle` hold |
| `session_records` | `MCSessionRecords.cfg` | the rows of two names while panes die and are born again, requests overlap and hooks come or not | `NoTwinRows`, `RowsKeepTheirPast`, `HeadIsNotLeftBehind` hold |
| `head_of_the_line` | `MCSessionRecordsOthers.cfg` | the same whatever other claudes do in the pane | `OthersDoNotMoveTheHead` violated |
| `notifications` | `MCNotifications.cfg` | two clients that feed one watcher, a full queue, failing channels, a stop | `CompletionIsHonest`, `LimiterIsExact` and the liveness `QueueDrains` hold |
| `server_manager` | `MCServerManager.cfg` | launch, click, restart timer, poll and quit that overlap over two children and a stranger's server | `StrangersAreSpared`, `RestartsAreBounded`, `QuitTakesTheServer` and the liveness `QuitEnds`, `DeathIsNoticed` hold |

What the properties say, beyond their names:

* `LineageNeverForks`: no two rows have the same parent, and a parent in the table points at its
  child. Two requests that passed `is_valid` with the same token are both inside `rotate`.
* `BurnReachesHeirs`: after a committed burn no token minted from a burned one is acceptable,
  although rotations were in flight, rows were purged and the process restarted.
* `BurnOnlyOnReuse`: a chain is burned only for a token superseded a grace window ago, revoked
  or expired. It would be false with a longer handler delay than the grace window. Two comments of the client say that
  a second use within the window burns the chain (section 6): the property states what the server does.
* `StoredTokenIsAlive`: the browser does not sit on a token the store has moved past, unless an
  answer was lost, the token expired or its chain was burned.
* `TabsNeverBurn`: the chain is never burned for a token that only other tabs have moved past. The
  exceptions are a token whose answer was lost, that was logged out, or whose row had expired when it
  came: east of UTC the row expires before the token (section 6), and a tab that comes with it late,
  after another has rotated it, is refused and then taken for a thief. In the run the host is west of UTC and no row
  expires before its token, so only the first two exceptions occur in it.
* `OwnedAgentsHeard`: the hooks of an owned, created pane validate outright, unless the server stopped before any
  write since its token was put in force had succeeded. For an adopted pane
  only `MintNeverSilences` holds, and the collection breaks even that (section 6).
* `SavedTokensSurvive`: a write that failed is made good by the next that succeeds, whichever operation on whichever
  id makes it: a restart brings back every token in force at some successful write, of the names that are owned on disk. It
  would be false if a write saved only what its operation had changed (the mutation `PersistChanged`).
* `ViewersInStep`: what a client got, with what is still in front of its reader, holds every
  chunk printed since its paint exactly once. It is stated for operations that have
  finished, since a re-adoption legitimately replays between its steps.
* `TrailTellsTheTruth`: a closing line that says a step completed, failed, or completed after an
  interrupt is true of the chain, although the line is written after the commit by a process that may
  die in between, and the next start has to say what it found.
* `LastMoveIsReversible`: the backup of the version that the last committed chain left is there,
  although starts that fail or retry take more backups and pruning counts them.
* `OrderedDotIsRight` is about hooks that come once and in order, and says that the dot then agrees with
  what the agent really does; `RestHolds` and `DotSettles` are about every other order.
* `NoToastIsLost`: of every open toast, that only a dismissal of it, a newer "your turn" or a hook that arrived
  after it was raised takes it away; a handler that was overtaken between arrival and turn does not.
* `PollsTellTheTruth`: the answer to a poll is a past state of the server; what it lists and was
  dismissed stays away, what it lacks and was raised meanwhile stays.
* `NoTwinRows`: the unique indexes of the table never have to refuse a write. An insert looks for the pane's row, a restart
  moves its own row to the pane, and both were decided before awaits in which the other may have been done.
* `RowsKeepTheirPast`: a stopped row comes back by a restart of that very row only. A new pane under its
  name, even one of the same second, does not revive it.
* `HeadIsNotLeftBehind`: restart and the next fork in a pane start from the head of the line; as long as the pane's hooks
  arrive and its line is no other pane's, it names no conversation the pane has left, unless the line is longer than
  the walk (the code logs a warning and stays where it is). `OthersDoNotMoveTheHead` asks for it when another claude has
  come or gone in the pane, too.
* `CompletionIsHonest`: however the feeds of the clients overlap, each feed of each client is followed by one completion
  at most (`told` counts them by client and chunk), and by none while a menu or a tool banner is in the tail. With one client a
  silence is thus announced once; with several, once more for each client that is late with the last chunk, which is
  not what the code says of itself (section 6). `LimiterIsExact` compares the limiter's deque with the whole log of
  what it let through.
* `RestartsAreBounded` counts restarts between two healthy windows in a history variable the policy does not
  see. `QuitTakesTheServer` speaks of the server owned at the moment of the quit, whatever flow is in
  flight then.

### Bounds, and why they are enough

* **Refresh tokens and browser**: two tabs and two requests are the race, and no method relates three; three token
  ids are a login and two rotations, the shortest lineage in which a middle row has a parent and a child, or two
  logins. Grace 1 with a round trip of 0 is the least that satisfies `TwoTripsAssumption`. With a TTL of 2 and the clock up to 2
  a token rotated at 0 and presented at 1 is past the grace window and good in every other respect, which is reuse as such,
  and at 2 the tokens of the login expire. The zone shift of -1 makes the stored expiry wrong (late); 1.7 million states. With a
  shift of +1 and a TTL of 3 all seven properties hold, too (2.3 million states), but no token expires at the server within that
  clock, and the clock up to 3 takes longer than the run is given. A row can be purged from 5 on only. All
  seven properties are proved for every clock, TTL and zone (section 5).
* **Hook tokens**: one name and two created ids give two generations of a pane beside
  the adopted id, three tokens fill the ring of one and push one out (the code's ring has
  four places and nothing depends on the number), three restarts make a boot pass on what two
  boot passes left, and any write may fail, among them every write between two restarts. 1.5 million states.
  The collection needs a second name, and finds its violation with one restart and a ring of one.
* **Pane**: two backends are the old and the new; one operation at a time is the claim
  (two refute it); one client, two chunks (one before and one after each step), four
  files with one kept back for each path so that bounds never stop an operation, one
  restart. 275 thousand states.
* **Datastore**: three starts are one that moves the data, one that is interrupted or fails, and one
  that finds out; three versions let a release be older, equal and newer twice over; `KeepLast` 1
  makes pruning bite at the second backup (the code keeps more, and the proof is for any number).
* **Status**: four hooks are a prompt, a tool and its end, and a Stop, or a subagent's start and end inside
  a turn; one of them twice, one restart. 670 thousand states.
* **Toasts**: two handlers are the two that overtake each other, in every order of their phases, with two hooks that raise or
  answer; a cap of one makes pruning bite; one page (others appear only through their dismissals) and one
  loss of a POST or a socket. 198 thousand states. The server's three properties are proved for any number of handlers and hooks.
* **Session records**: two names are a rename, or a fork beside its parent; two requests are every race of two; two conversations are
  a move, three events (panes born, renames, forks asked for, hooks lost, listings that fail) a pane, its successor under the name and one mishap,
  in two seconds, so that panes share a second or do not. A million states. A walk of four is longer than any line here; the proofs are for any limit. The
  violation needs one pane, three conversations and two seconds.
* **Notifications**: two clients make the two feeds; two chunks and a tail of two let a mark be seen and
  scrolled out, three seconds a threshold, a cooldown and a window pass; a queue of two overflows with the
  three events that can come. A million states.
* **macOS**: two children are the old and the new, one of which SIGKILL does not end; one stranger; a
  budget of one restart, spent and exceeded; one click flow beside the timer's and the quit's, with one
  click, since each flow reads and writes the same few fields. 316 thousand states.

`CHECK_DEADLOCK FALSE` stands where the model may stop although the program does not, because a bound is
used up (hooks, tokens, starts, time), and in `MCServerManager.cfg` because the application ends. In the other
modules something is always enabled.

### Fairness

* `PaneStream`: weak fairness of `Resume(o)` (asyncio runs a task that is ready, and the tmux command
  it awaits comes back) and of `Follow(b)` (the tail loop polls forever). Clients, the user, the
  pane, rotations and restarts are not fair. `OutputArrives` then says that no subscribed terminal
  freezes unless it leaves, or an adoption, detach or restart empties the list.
* `DatastoreMigration`: weak fairness of `Step`, the next statement of a start that is running. Crashes
  are not fair and are bounded by the starts; `StartsEnd` says every start that is not
  killed answers.
* `SessionStatus`: weak fairness of the three expiries (time passes) and of `List(TRUE)`: somebody has the
  session list open and tmux answers, since it is the listing that retires a question. Hooks, the agent and
  the user are not fair, so `DotSettles` does not rely on any hook that comes.
* `ToastPages`: weak fairness of the handlers, of the dismissals on their way (a POST arrives or is lost),
  of each page's poll (every ten seconds); strong fairness of the ring's expiry, which other steps disable again
  and again while time passes regardless. Frames are not fair: the page settles by its polls alone.
* `Notifications` (`FairRouter`): weak fairness of `Worker`; each channel answers or times out.
* `ServerManager`: weak fairness of the quit's steps (each await of the teardown ends by an answer or
  a time-out), of the poll (a timer whose requests time out), of the delivery of exit events and of `Exit`.
  Servers need not come up, clicks need not come and no process needs to die.

The other modules state safety only; neither a browser nor a hook has to come.

## 5. The proofs

TLAPS checks each theorem for every value of the constants that satisfies the named
assumptions, and for behaviours of any length. Every module below but `SessionRecordsProofs` also
proves its type invariant (`TypeCorrect`).

**RefreshTokensProofs.** The invariant is `IInv`: `TypeOK`, `RequestsOK` (what a request between two methods
knows of the token it presents and of the one it has minted) and `Sound` for both tables
(rows belong to minted tokens and none to a token still pending, a row whose parent is in
the table is what that parent points at, a delivered token that has not expired has a
row, a revoked row stays so). None of the safety properties is inductive by itself: that
a lineage does not fork needs that a minted id is in no table before its `Issue` or
`Rotate`, and that no other request carries it. `Sound` is kept for `disk` beside `db`
because a restart makes one the other. Theorems: `NeverForks`,
`RevocationStays`, `DeliveryIsDurable`. They allow any statement or commit to raise. `BurnIsComplete`
strengthens it to `BurnInv` with `Chained` (a row
expires no earlier than the one it replaced, a missing parent is one the purge took, the
heirs of a burned id are burned) and with the times of the requests in flight; this is where
`PurgeAssumption` enters, and the assumption that the TTL does not change between restarts
(section 6).

`BurnsOnReuse` (`BurnOnlyOnReuse`) adds `YoungOK` (a request in the server is no older than the handler delay, and its token had not
expired when it came) and `ReuseInv` (whoever was told that its token is not acceptable, or is about to burn its chain,
holds one that was refused at its instant, and a refused row stays refused). It assumes `~Faulty`: a rotation that is
rolled back lets a superseded row become current and be superseded anew, and a race then passes for reuse.

The same module proves of `BrowserAuth` that it implements the store, `BrowserImplementsStore`: every behaviour of `BrowserSpec` is one of `RefreshTokens`' `Spec`: each
step of the composition is a step of the store or leaves the store alone. So the
theorems above hold behind the browser, for any number of tabs.

`StoredStaysAlive` (`StoredTokenIsAlive`) and `RacesNeverBurn` (`TabsNeverBurn`) are about the tabs themselves. Their
invariant, `TabsInv`, follows a token that has been moved past. Every refresh in the server is that of a tab which waits
for it since before it read the clock, unless its answer is given up for lost (`AskedOK`). So when the stored token is superseded, some
tab is about to hear of the successor (`AwaitedOK`), and any other that comes with the old one took it up before that tab heard, at most
a round trip after the rotation (`LateOK`). It arrives within another, which `TwoTripsAssumption` puts inside the grace window. `RowsOK` says
that only rotations supersede and only burns and logouts revoke; this needs `~Faulty`, since a rotation that fails half way supersedes a
token without an answer. The theorems hold for every round trip of which two fit in the grace window, where the run, for want of
time, has requests that take none.

**HookTokensProofs.** `IInv` joins the types of the registry and of the panes with `StoreOK`:
`TokensAreOwn`, whose parts need each other (a recovery puts back a token from the ring, so the
ring may only hold the id's own), every binding belongs to an id with a token, and the
file holds own tokens too, since a restart loads it. Theorem: `OneIdOneCredential`
(`TokensAreOwn`), whatever writes fail. `AgentsStayHeard` (`OwnedAgentsHeard`), whatever writes fail too,
strengthens it to `HeardInv`: the file agrees with memory on every id given no token since the last write that
succeeded (`FileAgrees`), no created id ever has a superseded token, a created id is bound to one pane only, and, unless it is
forgotten, the environment and process of an owned pane hold the token of the id they name, so that the collection
spares it and the ladder finds it. Every action is then shown to keep the store (`StoreKept`) and the panes (`PanesKept`).
`MintsSilenceNobody` (`MintNeverSilences`) adds `NamesInv`: in memory, in the file and in the plan of a start, an id derived from
a name is bound to that name only. `NothingForgotten`: while the file can be written nothing is ever forgotten, and the
exception of `OwnedAgentsHeard` is empty. `SavedSurvive` (`SavedTokensSurvive`) rests on `FileAgrees` and, for adopted
ids, on `NamesInv`.

**PaneStreamProofs.** `OneTailerWithoutOverlap` and `ConnectedWithoutOverlap` (`OneTailer`,
`StreamIsConnected`) assume `NoOverlap`: the set `Op` has at most one member, that is, the next
operation begins when the last has finished. The invariant `Wired` says, for the operation in
flight, which backend has a reader and where the pipe is at each of its awaits. `InStepWithoutOverlap` (`ViewersInStep`)
adds `Given`: what a file ends with, from where its reader stands, is the latest that was printed, up to the last chunk
(`EndsWithLatest`), and what an open terminal got, with that, is every chunk since its paint once. It needs `Wired` at an adoption, which records
the offset before the reader starts at it. The run `pane_tailers`
shows that the assumption is needed.

**DatastoreMigrationProofs.** `Refines`: the start implements the safety part of `AtomicUpgrade`, for every number of
releases and starts. A run of the chain is one abstract `Upgrade`, and serving is at the code's schema, because of `VersionInv` (the version
row tells the schema of the tables unless it is lost, and it is lost only from a database with rows, which the
gate then refuses) and `PlanInv` (what the start found out before its chain still holds there). `WayBackStays`
(`LastMoveIsReversible`) adds `BackupInv`: a start takes at most one backup, before it commits, and none is of a later
start, so that the newest, which every pruning spares, is the one the last move needs. `MovesAreAnnounced`
(`EveryMoveIsAnnounced`) adds `TailInv` and `AnnInv`: no write makes a trail readable that was not or loses an announcement, the
start that commits has announced its step on a line that is complete, and a file that ends without a newline ends,
while a start that could read it runs, in a line that can be made sense of.

`TrailIsTrue` (`TrailTellsTheTruth`) needs `TruthInv`, which ties the lines of a start to what it committed. `IdsInv`: no line is of a later start
and none closes a start's step before the start does. `MoveInv`, `VersionLines`: a start that closes as completed has committed
its step, for the version it announced. `LinesInv` is the promise, kept for every closing line at once; a
`completed_after_interrupt` needs an announcement before it, at the same version, of a start that neither committed nor failed
(`Lost`). That one is found by a start which read the trail some steps ago, so `ReadInv` says that what it read still stands and that
nothing but its own marks has closed it, and `ClaimInv` that what it is about to claim is then true.

`MirrorIsTrue` (`MirrorFollowsTrail`) needs `FollowInv`. `MirrorInv`: the table holds rows of entries of the file only, and once it is rebuilt
each row is the entry's latest line (`LatestOf`), except the one difference that the code has: an attempt that the running start marked
after it had read the trail is still `started` in the table (`Follows`). `MarkInv`: until it announces, a start has added nothing but these
marks; a start whose database `FreshInv` shows to be current adds nothing later either.

**ToastsProofs.** `OneTurnStands`, `ReasonStays`, `NothingIsLost`, for any number of overlapping handlers.
The invariant adds `Dated`: every id and instant of a toast has been given out by the clock, so that a new one
is new; and that only kinds which raise are waiting to raise. `NothingIsLost` looks at one step at a time under
that invariant: the cap drops acknowledged records only, and a supersession keeps the id with a later instant.
`PagesImplementToasts`: to the server the pages are no more than the dismissals that reach it, so these theorems hold
behind any number of pages; what it needs of them is that they dismiss ids that were given out (`PagesTypeOK`).
`PollsAreTrue` (`PollsTellTheTruth`) adds `PollInv`, which is about dismissals and answers on their way: a dismissed card is closed or
its POST has not come yet, and its id is in the ring unless the poll in flight does not list it; an id that a poll was sent with and
does not find is closed. It is kept because no step opens a toast again that was given out and is not open (`OpenStep`).

**ActivityProofs.** Of `SessionStatus`: `RestStays` (`RestHolds`) holds in any order of hooks and needs little: after a Stop only an opening
event sets the heartbeat, and a signal that has seen nothing says nothing. `OrderedIsRight` (`OrderedDotIsRight`) needs an invariant about
the whole queue, `OrderInv`. The signal is taken as standing in front of the hooks in flight. Openings and closings then alternate
in that row (`Matched`), for questions with `AnswerKinds` and for subagents with `SubagentStop`, an opening is left without its
closing only while the agent is at it, and behind every sign of work there is a Stop once the agent is at its prompt. The generic lemmas
say what `Matched` survives: the oldest hook leaving when the signal takes it in (`MatchedTail`), a new one behind
(`MatchedAppend`), a signal that says less (`MatchedLess`). With the queue empty, `OrderInv` is the property.

Of `Notifications`, for any number of clients, chunks and seconds and any sizes and settings: `CompletionsAreHonest` (`CompletionIsHonest`)
adds `HonestInv`: a watcher that is thinking has announced nothing over the last feed, whose chunk was no interrupt, and the ring asks and runs
nothing (`MayAnnounce`); and what a client is still to be sent comes after all its task has fed, so the next feed is one over which
nothing was announced (`Ahead`). The ring's last is always the chunk just fed, whatever falls out (`BufferedEnds`). `LimiterExact` (`LimiterIsExact`) adds
`LimiterInv`: `lastBy` is the latest dispatch of its kind or the start, and the deque is the end of the log, in order, having lost only what is out of the
window. Popping from the front finds exactly what is out of it because the log is in order (`KeptIsEnd`); the entries of the log within the window are
then an interval as long as the deque (`AllowsByLog`). A log kept as a set of kinds and instants would make the theorem false for
a cooldown of 0, where two dispatches count as one.

**ServerManagerProofs.** `StrangersStay`, `RestartsStayBounded` and `QuitTakesIt`, for any number of processes, clicks and
attempts and any window. `IInv` has four parts beside the types. `FlowInv`: a flow about to signal the stranger
carries the user's consent. `SupInv`: the restarts made since the last healthy window and the one that is scheduled are paid for by
`attempts`, and once the window is over none is outstanding. `Born`: what the application knows was born, and the dead do not come back
under their pid. `Teardown`: from `Quit` to `Exit`, where the quit's flow is with the server that is to go, so that when
the last wait is over that server is dead or one SIGKILL does not end. There is one lemma per action.

**SessionRecordsProofs.** `OneRowEach` (`NoTwinRows`) and `PastStays` (`RowsKeepTheirPast`), for any number of
names, requests, conversations and events. Their invariant, `Whole`, is about the table alone: nothing that a request has
remembered across an await enters it, since every writer looks, in the step that writes, for the row that it might double.
Each writer is an operator from a table to a table, and has one lemma: it leaves a whole table whole and keeps the past of
its rows. A step is one or two of them. Which row `lineage_head` finds does not matter here, since only
a row without a conversation is given one.

`HeadStays` (`HeadIsNotLeftBehind`), for any limit of the walk as well, needs `HeadInv`, which TLC checked on the instance of
the run before it was proved. It has `Whole` and the types in it, and what the property cannot do without. `RowsOK`: a row without a
pane hangs below an older one, and no row names a conversation that has not begun. `JobsOK`: what a request will resume is in the
table, and a fork's parent is an anchor. `Heard`: a pane that was followed so far still has the name of its
hooks, resumes nothing but a conversation that the table knows, and no anchor of its name is younger.
`Followed`, the heart: its line is no other pane's, and the head of it says what it may *at each moment between two
conversations*: nothing before the first hook of a new claude, the conversation that is to be resumed during a resume, anything after a SessionEnd whose
successor is still to come. Without those the step that records the next conversation cannot be justified. The lemmas underneath
follow the walk: `LineIs` and `LineLaw` what `Line` computes, `SameLine` that it depends on the tree alone, and one for each thing a writer can do
to the lines (a row says a conversation, a row hangs below a head, an anchor is added, moves to another pane, is stamped): it
leaves alone every line that it does not join. One attempt failed for a reason in the model: see `api/routes.py:350` below.

Only model-checked: all liveness
(`OutputArrives`, `StartsEnd`, `DotSettles`, `PagesSettle`, `QueueDrains`, `QuitEnds`, `DeathIsNoticed`). Liveness under fairness and ENABLED,
induction over data and recursive operators are out of
reach of the prover; no module here declares one of the latter.

## 6. Where the code and its words part

The first three are the counterexamples of runs.

1. `hook_collection`, `core/session_manager.py:787`: the collection at start keeps tokens of *owned* names only, and adopted panes
   are not owned: their agents are refused after the restart. Lines 756-758 name exactly this
   as what must not happen.
2. `pane_tailers`, `core/session_manager.py:6582`: two overlapping adoptions of one pane both find no stale registration
   and leave two readers; every byte reaches each client twice.
3. `head_of_the_line`, `core/session_manager.py:5255`: a SessionEnd is kept by session id, whichever claude in the pane sent
   it, and popped by the next SessionStart without a look at its conversation. When a claude that a tool ran has
   ended, the next /fork is taken for a /branch, and its background agent becomes the head, which `core/session_lineage.py:530-533`
   says must never happen.

Met while modelling, without a run of their own. Credentials and the stream:

* `api/auth.py:248`: the stored expiry is `int(naive_utc.timestamp())`, which Python reads as local
  time, so the store's expiry is off by the host's UTC offset (`Zone`). The comment above it wants
  the two aligned. East of UTC a good token is refused early, and, if another tab has just rotated it,
  taken for reuse, which burns the successor too; the extra day of the purge hides the rest.
* `client/js/api.js:19-21`: "if two refresh calls land on the same refresh_token, the second is treated as a theft event and
  BOTH get revoked (chain burn)", and `client/js/auth.js:275-277`: calls in parallel "will race and burn the refresh-token chain".
  Within the grace window the server burns nothing: `is_valid` accepts the token (`core/refresh_store.py:275`),
  `rotate` refuses the second, and `api/auth.py:571-576` answers 401 "WITHOUT burning the chain". `BurnOnlyOnReuse` and
  `TabsNeverBurn` state what the server does; what the comments describe happens to a second use after the window only. The
  single flight they argue for holds within a page, and two tabs race all the same.
* `client/js/auth.js:315`: the tab that loses a refresh race removes both stored tokens,
  the winner's included. `api/auth.py:572-576` calls the case benign because the client retries
  with the new token.
* `core/refresh_store.py:194`: `rotate` is an UPDATE and an INSERT without a rollback; when the INSERT raises, the
  UPDATE is committed by the next method that succeeds, and the token is superseded by one that has
  no row. The docstring at line 139 calls the rotation atomic. The safety properties survive
  this, as the proofs show (they allow any statement to raise); the client has to log in again.
* `core/refresh_store.py:247` and 320: when the TTL is lowered in the configuration between two starts, the purge may
  delete a middle row of a chain whose older row lives on, and a burn from the older row
  stops at the gap. Hence the constant TTL of `BurnIsComplete`.
* `core/session_manager.py:1060`: a recovery does not record the token it replaces, so a late hook of
  a replaced process silences the running one for good.
* `core/session_manager.py:3796`: detaching the last session unlinks the file that also holds the owned names,
  which lines 1659-1661 want to survive.
* `core/session_manager.py:634`: the token of a destroyed session stays valid until the collection, while
  `core/hook_tokens.py:29-30` says it goes with the session.
* `core/session_boot_readopt.py:386`: the boot pass may mint a token, and lines 32-33 say it never does.
* `core/session_boot_readopt_plan.py:215`: the ladder takes the first id of several bound to a name, which may be that of an earlier
  pane of that name; lines 204-206 take a created id to be the one the running agent carries.
* `core/session_boot_readopt.py:360`: an adoption while the boot pass is in flight can leave one pane under two ids.
* `core/session_manager.py:636`: a re-adoption empties the subscriber list, so a second browser stays connected
  and silent; `api/websocket.py:229`: a client that subscribes just after a detach joins a list nobody feeds.
  `OutputArrives` excludes both explicitly.
* `core/tmux_backend.py:2751`: after a rotation the reader (and tmux) stay on the renamed file, and
  the size check measures the empty one: the rotation happens once.

The rows of sessions:

* `core/session_lifecycle.py:274`: the rename pass of the reaper reads `session_id` from a row of the listing, which has it as `tmux_session_id`
  (`core/tmux_backend.py:1499`), so it never finds a rename. A renamed session is marked stopped and comes back as a new row, which
  is what lines 389-396 want to prevent.
* `core/session_manager.py:6991`: a respawn resumes the conversation of the anchor row, the first one the pane had, not the head of
  its line; `core/session_resume_target.py:9` wants both restarts "on the SAME conversation".
* `api/routes.py:350`: the stamp makes the child of a fork from the browser a child of the parent's *row*, of kind `fork`, as if the
  parent's pane had moved. The parent's `lineage_head` is then in the child, and a restart of the parent resumes the
  conversation of its fork (`core/session_restart.py:205`), while the route's docstring says that the parent is not touched.
  The child is not left alone either: the next conversation of the *parent's* pane is recorded below that head
  (`core/session_lineage.py:359`), so the child's line ends in a conversation that only the parent has had, although the walk is
  meant to keep the forks of two panes apart (lines 254-258). A restart of a conversation's row makes it an anchor in the
  middle of a line, with the same effect.
  `HeadIsNotLeftBehind` is about the lines that are one pane's (history: `Noted`). That they were in it without this
  condition was found by the proof: the second effect takes a longer run than TLC's bounds allow.
* `core/session_close_lifecycle.py:105`: the row to close is looked up by name after the kill and further awaits; a session made
  anew under the name by then is marked stopped while it runs. Two restarts of one row that overlap run one
  conversation in two panes. A fork whose own row could not be written stamps an older row of the name.
* `core/session_lineage.py:359`: an anchor without a conversation takes the first one any claude in its pane reports.

The datastore and the status of sessions:

* `core/db_migration.py:116`: a line torn by a crash is glued to the next one, and the trail cannot be read from
  then on; `core/trail_reader.py:7-9` calls a truncated last line recoverable. `EveryMoveIsAnnounced` and
  `TrailTellsTheTruth` therefore speak of a trail that can be read, where they need to read it.
* `core/session_manager.py:2792`: a hook writes the persisted state past `_last_persisted_activity`, so a listing
  whose resolved state equals the cached one does not write it, and the row keeps the hook's state; the comment
  at 4765-4769 expects the listing to settle it. The state a restart restores can be one that had been over.
* `core/session_activity.py:31-34` says that applying the same event twice converges; a `SubagentStart` that is applied twice
  raises the depth twice. `RestHolds` and `DotSettles` hold nevertheless: a Stop clears the depth, and age does.
* `core/session_activity.py:413`: a second `PermissionRequest` while one is open keeps the stamp of the first, so its grace may be
  over before its dialog is drawn.
* `core/session_manager.py:2444`: a newer "your turn" supersedes the open one under its id, so a dismissal of the old one
  in flight acknowledges the new one. `NoToastIsLost` counts it as a dismissal.
* `client/js/toast-global-poll.js:131`: `GET /toasts` gives at most a page of 500, and the page takes it for all that is open. The
  list on attach and late `toast.new` frames bypass the ring of dismissed ids, so `PollsTellTheTruth` is about polls only.

Notifications and the macOS application:

* `core/notifications/idle_watcher.py:183`: the watcher is fed by the tasks of the clients, so without a client a working agent is
  silent, and a completion is announced and no permission prompt ever is. A menu is looked for anywhere in the 16 KB tail, so
  a second prompt, or the completion, is not announced while the first is still in it.
* `core/notifications/idle_watcher.py:141-143`: "a single quiet window produces exactly one TASK_COMPLETE event". With two clients it
  may produce two: the queues are the clients' own, and a client whose socket is slow feeds the last chunk after the silence of
  the pane has been announced; the watcher is thinking again, and after the threshold it announces the same silence once more
  (attach c1 and c2, a prompt is printed, c1 feeds it, time passes, `_poll_once`, c2 feeds it, time passes, `_poll_once`).
  `CompletionIsHonest` bounds this at once per client and chunk. The silence is that of the feeds, too: a completion may be announced
  although the pane has printed what no client's task has fed yet.
* `core/notifications/rate_limit.py:66`: the limiter is charged before the send, so one that fails suppresses the next of its kind.
* `macOS/server-manager.js:1098`: "a failed automatic restart is itself a death, and it must spend budget": a child whose
  spawn fails with `error` does not reach the policy, and the timer then records it as up.
* `macOS/supervisor-policy.js:96`: "a deliberate stop is never undone": a stop leaves a restart that is already scheduled
  in place, so the stopped server comes back.
* `macOS/server-manager.js`: two starts that overlap spawn two servers, and the exit event of one clears what is known of the
  other, which then outlives the application; `start` and `restart` do not look at `quitting`. `QuitTakesTheServer` is
  about the server the application still knew as its own.
* Failed probes of a live server spend the budget without a death, and the time a slow boot takes counts as being up.
* The consent to replace a foreign server is for the pid that was shown; the pid that is killed is looked up later.

## 7. What is not modelled

Inside the modelled parts: the check of TOTP codes and of each request's access token (one yes
or no), labels, themes and projects of sessions, keys,
resizes and pane death in the backend, the content of the startup paint, the statements of the
migration steps, what the regular expressions of the watcher match, the HTTP of the notification
channels, and the provisioning, binding dialogs and display of the macOS application. `HookTokens` treats an
operation as one step and so cannot show a race of two operations on the credentials;
`PaneStream` has the races and a single id. Joining the two, and `SessionRecords`, is the abstract registry of the plan.
A hook's three effects are modelled in three modules, each with its own order of arrivals; that the dot and the
toasts of one session agree with each other is not checked.
The parts marked planned or not modelled in section 1 are absent altogether: most of the
code by length is requests over sqlite rows, parsing of transcripts, and rendering in the browser, which keep
little state that several actors share.
