--------------------------- MODULE RefreshTokens ---------------------------
(***************************************************************************)
(* The refresh-token store (src/core/refresh_store.py) and the handlers of *)
(* src/api/auth.py that drive it: the tail of POST /auth/verify, POST      *)
(* /auth/refresh, POST /auth/logout and the six-hourly purge.              *)
(*                                                                         *)
(* Every store method holds RefreshStore._lock from its first statement to *)
(* its commit, so a method is one step; a handler is a sequence of such    *)
(* steps and other handlers run between them.  The table exists twice:     *)
(* `db' is what the open connection sees, `disk' what has been committed   *)
(* and survives a restart.                                                 *)
(***************************************************************************)
EXTENDS Integers, FiniteSets, TLC

CONSTANTS Jti,           \* token ids (secrets.token_urlsafe)
          NoJti,         \* SQL NULL
          Req,           \* concurrent HTTP requests
          Ttls,          \* the refresh TTLs the config file may hold
          Grace,         \* refresh_grace_seconds
          PurgeGrace,    \* _PURGE_GRACE_SECONDS
          Zone,          \* local time minus UTC on the host
          HandlerDelay,  \* bound: longest time a request is in flight
          MaxNow,        \* bound: the clock stops here
          Faulty         \* may a statement of sqlite raise?

ASSUME TimesAssumption ==
    /\ Ttls \subseteq Nat /\ Ttls # {}
    /\ Grace \in Nat /\ PurgeGrace \in Nat /\ HandlerDelay \in Nat
    /\ Zone \in Int /\ MaxNow \in Nat /\ Faulty \in BOOLEAN

ASSUME NoJtiAssumption == NoJti \notin Jti

\* A day of purge grace covers the zone error and a request in flight.
ASSUME PurgeAssumption == Zone + HandlerDelay <= PurgeGrace

\* A request is answered well inside the grace window.
ASSUME GraceAssumption == HandlerDelay <= Grace

VARIABLES now,        \* time.time(), whole seconds
          ttl,        \* refresh_token_ttl_seconds as loaded at boot
          db,         \* refresh_tokens as the connection sees it
          disk,       \* refresh_tokens as committed
          req,        \* where each request is
          claim,      \* the signed claims of every token minted so far
          held,       \* tokens some client has received
          dead,       \* history: ids whose revocation a method committed
          burned      \* history: ids a completed revoke_chain walked

vars == <<now, ttl, db, disk, req, claim, held, dead, burned>>

OptJti == Jti \cup {NoJti}

Row == [exp : Int, revoked : {0, 1}, next : OptJti, at : Nat]

\* A table is a function from the primary keys it holds to their rows.
IsTable(T) == DOMAIN T \subseteq Jti /\ T \in [DOMAIN T -> Row]

\* `exp' is the JWT claim; `parent' (history) is the token it was minted from.
Claim == [exp : Nat, parent : OptJti]

AreClaims(c) == DOMAIN c \subseteq Jti /\ c \in [DOMAIN c -> Claim]

InServer == {"issue", "valid", "superseded", "burn", "rotate", "revoke"}

Pc == InServer \cup {"idle", "ok", "denied", "failed"}

Request == [pc : Pc, jti : OptJti, new : OptJti, t : Nat, since : Nat]

Idle == [pc |-> "idle", jti |-> NoJti, new |-> NoJti, t |-> 0, since |-> 0]

EmptyTable == [j \in {} |-> 0]
-----------------------------------------------------------------------------
(* Helpers on tables.                                                      *)

\* Mutation: the UPDATE skips rows that are already superseded.
RevokedCurrent(T, S) ==
    [j \in DOMAIN T |-> [exp |-> T[j].exp,
                        revoked |-> IF j \in S /\ T[j].next = NoJti THEN 1 ELSE T[j].revoked,
                        next |-> T[j].next, at |-> T[j].at]]

\* UPDATE refresh_tokens SET revoked = 1 WHERE jti IN S.
Revoked(T, S) ==
    [j \in DOMAIN T |-> [exp |-> T[j].exp, revoked |-> IF j \in S THEN 1 ELSE T[j].revoked,
                        next |-> T[j].next, at |-> T[j].at]]

\* The UPDATE of rotate().
Superseded(T, old, new, t) ==
    [j \in DOMAIN T |-> [exp |-> T[j].exp, revoked |-> T[j].revoked,
                        next |-> IF j = old THEN new ELSE T[j].next,
                        at |-> IF j = old THEN t ELSE T[j].at]]

Inserted(T, j, e) ==
    [k \in DOMAIN T \cup {j} |->
        IF k = j THEN [exp |-> e, revoked |-> 0, next |-> NoJti, at |-> 0]
                 ELSE T[k]]

\* DELETE ... WHERE exp < cutoff.
Purged(T, cutoff) == [j \in {k \in DOMAIN T : T[k].exp >= cutoff} |-> T[j]]

\* Mutation: is_valid without the grace window.
AcceptableNoGrace(T, j, t) ==
    j \in DOMAIN T /\ T[j].revoked = 0 /\ T[j].exp > t /\ T[j].next = NoJti

\* is_valid(): known, not revoked, not expired, superseded only within grace.
Acceptable(T, j, t) ==
    /\ j \in DOMAIN T
    /\ T[j].revoked = 0
    /\ T[j].exp > t
    /\ T[j].next # NoJti => t - T[j].at < Grace

\* Mutations: rotate() without its superseded check, without its revoked check.
RotatableAgain(T, j, t) == j \in DOMAIN T /\ T[j].revoked = 0 /\ T[j].exp > t

RotatableRevoked(T, j, t) == j \in DOMAIN T /\ T[j].next = NoJti /\ T[j].exp > t

\* rotate()'s own checks, which grant no grace.
Rotatable(T, j, t) ==
    /\ j \in DOMAIN T
    /\ T[j].revoked = 0
    /\ T[j].next = NoJti
    /\ T[j].exp > t

\* S contains the successor of each of its rows.
Closed(T, S) ==
    \A j \in S : (j \in DOMAIN T /\ T[j].next # NoJti) => T[j].next \in S

\* Mutation: the loop stops at the presented token.
WalkStart(T, start) == {start}

\* The ids revoke_chain's loop visits: the least closed set holding `start'.
Walk(T, start) ==
    {d \in Jti : \A S \in SUBSET Jti : (start \in S /\ Closed(T, S)) => d \in S}

\* create_refresh_token stores int(naive_utc.timestamp()), which reads the
\* UTC time as local time; jwt.encode reads it as UTC.
StoredExp(j) == claim[j].exp - Zone

Fresh == Jti \ DOMAIN claim

Minted(j, parent) ==
    claim' = [k \in DOMAIN claim \cup {j} |->
                 IF k = j THEN [exp |-> now + ttl, parent |-> parent] ELSE claim[k]]
-----------------------------------------------------------------------------
(* How a store method ends, and where a request goes next.                 *)

\* Mutation: the method forgets to commit.
CommitForgotten(T) == db' = T /\ UNCHANGED disk

Commit(T) == db' = T /\ disk' = T

\* A statement or the commit raised.  Nothing calls rollback: what had been
\* executed stays in the open transaction, unless sqlite rolled it back itself.
Raise(Ts) == Faulty /\ db' \in Ts \cup {db, disk} /\ UNCHANGED disk

At(r, pc) == req[r].pc = pc

Goto(r, pc) == req' = [req EXCEPT ![r].pc = pc]

Init ==
    /\ now = 0
    /\ ttl \in Ttls
    /\ db = EmptyTable
    /\ disk = EmptyTable
    /\ req = [r \in Req |-> Idle]
    /\ claim = EmptyTable
    /\ held = {}
    /\ dead = {}
    /\ burned = {}
-----------------------------------------------------------------------------
(* POST /auth/verify, from the accepted TOTP code on.                      *)

Verify(r) ==
    /\ At(r, "idle")
    /\ \E j \in Fresh :
          /\ Minted(j, NoJti)
          /\ req' = [req EXCEPT ![r] = [pc |-> "issue", jti |-> NoJti, new |-> j,
                                       t |-> now, since |-> now]]
    /\ UNCHANGED <<now, ttl, db, disk, held, dead, burned>>

IssueInsert(r) == Inserted(db, req[r].new, StoredExp(req[r].new))

Issue(r) ==
    /\ At(r, "issue")
    /\ \/ Commit(IssueInsert(r)) /\ Goto(r, "ok")
       \/ Raise({IssueInsert(r)}) /\ Goto(r, "failed")
    /\ UNCHANGED <<now, ttl, claim, held, dead, burned>>

(* POST /auth/refresh.  Every method reads the clock before it waits for   *)
(* the lock, so `t' may be in the past when the method runs.               *)

\* An expired or unsigned token is refused before the store is asked.
Refresh(r, j) ==
    /\ At(r, "idle")
    /\ j \in held /\ claim[j].exp > now
    /\ req' = [req EXCEPT ![r] = [pc |-> "valid", jti |-> j, new |-> NoJti,
                                 t |-> now, since |-> now]]
    /\ UNCHANGED <<now, ttl, db, disk, claim, held, dead, burned>>

IsValidYes(r) ==
    /\ At(r, "valid")
    /\ Acceptable(db, req[r].jti, req[r].t)
    /\ \E j \in Fresh :
          /\ Minted(j, req[r].jti)
          /\ req' = [req EXCEPT ![r].pc = "rotate", ![r].new = j, ![r].t = now]
    /\ UNCHANGED <<now, ttl, db, disk, held, dead, burned>>

IsValidNo(r) ==
    /\ At(r, "valid")
    /\ ~Acceptable(db, req[r].jti, req[r].t)
    /\ Goto(r, "superseded")
    /\ UNCHANGED <<now, ttl, db, disk, claim, held, dead, burned>>

IsSuperseded(r) ==
    LET j == req[r].jti IN
    /\ At(r, "superseded")
    /\ IF j \in DOMAIN db /\ db[j].next # NoJti THEN Goto(r, "burn")
                                              ELSE Goto(r, "denied")
    /\ UNCHANGED <<now, ttl, db, disk, claim, held, dead, burned>>

\* The loop issues one UPDATE per visited id; a failure keeps a prefix of them.
RevokeChain(r) ==
    LET walk == Walk(db, req[r].jti)
        prefixes == {Revoked(db, walk \ Walk(db, d)) : d \in walk}
    IN  /\ At(r, "burn")
        /\ \/ /\ Commit(Revoked(db, walk))
              /\ burned' = burned \cup walk
              /\ dead' = dead \cup walk
              /\ Goto(r, "denied")
           \/ /\ Raise(prefixes \cup {Revoked(db, walk)})
              /\ Goto(r, "failed")
              /\ UNCHANGED <<burned, dead>>
        /\ UNCHANGED <<now, ttl, claim, held>>

RotateUpdate(r) == Superseded(db, req[r].jti, req[r].new, req[r].t)

RotateInsert(r) == Inserted(RotateUpdate(r), req[r].new, StoredExp(req[r].new))

Rotate(r) ==
    /\ At(r, "rotate")
    /\ \/ /\ Rotatable(db, req[r].jti, req[r].t)
          /\ Commit(RotateInsert(r))
          /\ Goto(r, "ok")
       \/ /\ ~Rotatable(db, req[r].jti, req[r].t)
          /\ Goto(r, "denied")
          /\ UNCHANGED <<db, disk>>
       \/ /\ Rotatable(db, req[r].jti, req[r].t)
          /\ Raise({RotateUpdate(r), RotateInsert(r)})
          /\ Goto(r, "failed")
    /\ UNCHANGED <<now, ttl, claim, held, dead, burned>>

(* POST /auth/logout revokes the presented id and nothing else.            *)

Logout(r, j) ==
    /\ At(r, "idle")
    /\ j \in held /\ claim[j].exp > now
    /\ req' = [req EXCEPT ![r] = [pc |-> "revoke", jti |-> j, new |-> NoJti,
                                 t |-> now, since |-> now]]
    /\ UNCHANGED <<now, ttl, db, disk, claim, held, dead, burned>>

\* logout swallows the exception and answers 200 either way.
Revoke(r) ==
    LET revoked == Revoked(db, {req[r].jti}) IN
    /\ At(r, "revoke")
    /\ Goto(r, "ok")
    /\ \/ Commit(revoked) /\ dead' = dead \cup {req[r].jti}
       \/ Raise({revoked}) /\ UNCHANGED dead
    /\ UNCHANGED <<now, ttl, claim, held, burned>>
-----------------------------------------------------------------------------
(* The answer travels back, or is lost with its connection.                *)

Deliver(r) ==
    /\ At(r, "ok")
    /\ held' = held \cup ({req[r].new} \ {NoJti})
    /\ req' = [req EXCEPT ![r] = Idle]
    /\ UNCHANGED <<now, ttl, db, disk, claim, dead, burned>>

Lose(r) ==
    /\ req[r].pc \in {"ok", "denied", "failed"}
    /\ req' = [req EXCEPT ![r] = Idle]
    /\ UNCHANGED <<now, ttl, db, disk, claim, held, dead, burned>>

PurgeExpired ==
    LET kept == Purged(db, now - PurgeGrace) IN
    /\ Commit(kept) \/ Raise({kept})
    /\ UNCHANGED <<now, ttl, req, claim, held, dead, burned>>

\* The server process dies and comes back; the config is read again.
Restart ==
    /\ db' = disk
    /\ req' = [r \in Req |-> Idle]
    /\ ttl' \in Ttls
    /\ UNCHANGED <<now, disk, claim, held, dead, burned>>

Tick ==
    /\ now < MaxNow
    /\ \A r \in Req : req[r].pc \in InServer => now < req[r].since + HandlerDelay
    /\ now' = now + 1
    /\ UNCHANGED <<ttl, db, disk, req, claim, held, dead, burned>>

Next ==
    \/ \E r \in Req :
          \/ Verify(r) \/ Issue(r)
          \/ \E j \in Jti : Refresh(r, j) \/ Logout(r, j)
          \/ IsValidYes(r) \/ IsValidNo(r) \/ IsSuperseded(r) \/ RevokeChain(r)
          \/ Rotate(r) \/ Revoke(r) \/ Deliver(r) \/ Lose(r)
    \/ PurgeExpired
    \/ Restart
    \/ Tick

Spec == Init /\ [][Next]_vars
-----------------------------------------------------------------------------
\* Every variable keeps its declared shape; in particular the rows of the
\* connection and of the committed table are well formed.
TypeOK ==
    /\ now \in Nat /\ ttl \in Ttls
    /\ IsTable(db) /\ IsTable(disk)
    /\ req \in [Req -> Request]
    /\ AreClaims(claim)
    /\ held \subseteq Jti /\ dead \subseteq Jti /\ burned \subseteq Jti

\* Rotation never forks a lineage: no two rows were minted from the same
\* token, and a token with a successor in the table points at it (rotate()
\* refuses an already superseded token, with or without grace).
NoFork(T) ==
    /\ \A i, j \in DOMAIN T :
          claim[i].parent = claim[j].parent /\ claim[i].parent # NoJti => i = j
    /\ \A j \in DOMAIN T :
          claim[j].parent \in DOMAIN T => T[claim[j].parent].next = j

LineageNeverForks == NoFork(db) /\ NoFork(disk)

\* Reuse detection reaches every descendant: once a chain has been burned,
\* no token minted from a burned one is acceptable, whatever rotation was in
\* flight, whatever a purge deleted and whatever a restart forgot.
BurnReachesHeirs ==
    \A j \in DOMAIN claim : claim[j].parent \in burned =>
        /\ ~Acceptable(db, j, now)
        /\ ~Acceptable(disk, j, now)

\* A revocation some method committed is final: the row stays revoked in the
\* connection's view and on disk until it is purged.
RevocationIsFinal ==
    \A j \in dead : /\ j \in DOMAIN db => db[j].revoked = 1
                    /\ j \in DOMAIN disk => disk[j].revoked = 1

\* A refresh token reaches a client only after the disk has its row, so a
\* restart never strands a client that holds an unexpired token.
DeliveredIsDurable ==
    \A j \in held : claim[j].exp > now => j \in DOMAIN disk

\* The chain is burned only on reuse: the presented token was superseded at
\* least a grace window before it was presented, or was already revoked or
\* expired.  Two tabs that race inside the window never burn their chain.
BurnOnlyOnReuse ==
    [][burned' # burned =>
         \E r \in Req : LET row == db[req[r].jti] IN
            /\ At(r, "burn")
            /\ req[r].jti \in burned' /\ row.next # NoJti
            /\ \/ req[r].t - row.at >= Grace
               \/ row.revoked = 1
               \/ row.exp <= req[r].t]_vars
=============================================================================
