------------------------ MODULE RefreshTokensProofs ------------------------
(***************************************************************************)
(* What RefreshTokens guarantees for every set of tokens and requests, for *)
(* every clock setting its assumptions allow, and with or without faults.  *)
(* The last part is about the browser, which drives the store only through *)
(* its handlers: a behaviour of BrowserAuth is, seen from the server, one  *)
(* of RefreshTokens, so all of it holds behind the tabs of a real browser. *)
(* It ends with what holds of tabs that race for one token, for any bound  *)
(* on a round trip of which two fit in the grace window.                   *)
(* The table predicates take the rest of the state as arguments, so that a *)
(* lemma about one DML statement serves the open transaction and the disk. *)
(***************************************************************************)
EXTENDS BrowserAuth, TLAPS

\* Ids minted by a request that has not reached its INSERT.
Pending == {req[r].new : r \in {s \in Req : req[s].pc \in {"issue", "rotate"}}}

\* Ids a client holds or is about to be sent.
Given == held \cup ({req[r].new : r \in {s \in Req : req[s].pc = "ok"}} \ {NoJti})

\* A table T under claims c, given ids g, dead ids d and pending ids p at time n.
Sound(T, c, g, d, p, n) ==
    /\ IsTable(T)
    /\ DOMAIN T \subseteq DOMAIN c /\ DOMAIN T \cap p = {}
    /\ \A j \in DOMAIN T : T[j].exp = c[j].exp - Zone
    /\ \A j \in DOMAIN T :
          T[j].next # NoJti => T[j].next \in DOMAIN c /\ T[j].next \notin p
    /\ \A i, j \in DOMAIN T : c[i].parent = c[j].parent /\ c[i].parent # NoJti => i = j
    /\ \A j \in DOMAIN T : c[j].parent \in DOMAIN T => T[c[j].parent].next = j
    /\ \A j \in g : c[j].exp > n => j \in DOMAIN T
    /\ \A j \in d : j \in DOMAIN T => T[j].revoked = 1

\* Where the ids a request carries come from.
RequestsOK ==
    /\ held \subseteq DOMAIN claim /\ dead \subseteq DOMAIN claim
    /\ \A j \in DOMAIN claim : claim[j].parent \in held \cup {NoJti}
    /\ \A r \in Req : req[r].new # NoJti => req[r].new \in DOMAIN claim
    /\ \A r \in Req : req[r].pc \in {"valid", "superseded", "burn", "rotate", "revoke"}
                         => req[r].jti \in held
    /\ \A r \in Req : req[r].pc \in {"valid", "superseded", "burn", "revoke"}
                         => req[r].new = NoJti
    /\ \A r \in Req : req[r].pc \in {"issue", "rotate"} =>
          /\ req[r].new \in DOMAIN claim
          /\ req[r].new \notin held /\ req[r].new \notin dead
          /\ \A s \in Req \ {r} : req[s].new # req[r].new
    /\ \A r \in Req : req[r].pc = "issue" => claim[req[r].new].parent = NoJti
    /\ \A r \in Req : req[r].pc = "rotate" => claim[req[r].new].parent = req[r].jti

IInv ==
    /\ TypeOK
    /\ RequestsOK
    /\ Sound(db, claim, Given, dead, Pending, now)
    /\ Sound(disk, claim, Given, dead, Pending, now)

\* A table T whose lineages a walk can follow: rows expire no earlier than
\* the rows they replaced, a missing parent is a purged one, and the heirs of
\* a burned id are burned.
Chained(T, c, b, n) ==
    /\ \A j \in DOMAIN T : T[j].next # NoJti => c[T[j].next].exp >= c[j].exp
    /\ \A j \in DOMAIN T : c[j].parent # NoJti /\ c[j].parent \notin DOMAIN T
                              => c[c[j].parent].exp - Zone < n - PurgeGrace
    /\ \A j \in DOMAIN T : c[j].parent \in b => j \in b

\* Requests are young, and came with a token that was unexpired.
YoungOK ==
    /\ \A r \in Req : req[r].pc \in InServer => now <= req[r].since + HandlerDelay
    /\ \A r \in Req : req[r].pc \in {"valid", "superseded", "burn", "rotate"}
                         => claim[req[r].jti].exp > req[r].since

TimesOK ==
    /\ YoungOK
    /\ \A j \in DOMAIN claim : claim[j].exp <= now + ttl
    /\ \A r \in Req : req[r].pc = "rotate"
                         => claim[req[r].new].exp >= claim[req[r].jti].exp

BurnInv ==
    /\ IInv
    /\ TimesOK
    /\ burned \subseteq dead
    /\ Chained(db, claim, burned, now)
    /\ Chained(disk, claim, burned, now)
-----------------------------------------------------------------------------
(* Lemmas about one table.                                                 *)

\* Time passes, requests end: a sound table stays sound.
LEMMA SoundLater ==
    ASSUME NEW T, NEW c, NEW g, NEW d, NEW p, NEW n \in Nat,
           NEW g2, NEW d2, NEW p2, NEW n2 \in Nat,
           AreClaims(c), Sound(T, c, g, d, p, n),
           g2 \subseteq g, g2 \subseteq DOMAIN c, d2 \subseteq d,
           p2 \subseteq p, n <= n2
    PROVE  Sound(T, c, g2, d2, p2, n2)
<1>1. \A j \in g2 : c[j].exp > n2 => c[j].exp > n
  BY DEF AreClaims, Claim
<1> QED BY <1>1 DEF Sound

\* A fresh id is minted: it is pending and in no table.
LEMMA SoundMinted ==
    ASSUME NEW T, NEW c, NEW c2, NEW g, NEW d, NEW p, NEW n, NEW k,
           k \notin DOMAIN c, DOMAIN c2 = DOMAIN c \cup {k},
           \A j \in DOMAIN c : c2[j] = c[j],
           g \subseteq DOMAIN c,
           Sound(T, c, g, d, p, n)
    PROVE  Sound(T, c2, g, d, p \cup {k}, n)
BY DEF Sound

\* UPDATE ... SET revoked = 1 keeps a table sound and settles the ids it hits.
LEMMA SoundRevoked ==
    ASSUME NEW T, NEW c, NEW g, NEW d, NEW p, NEW n, NEW S,
           Sound(T, c, g, d, p, n)
    PROVE  Sound(Revoked(T, S), c, g, d \cup S, p, n)
<1> DEFINE R == Revoked(T, S)
<1>1. DOMAIN R = DOMAIN T
  BY DEF Revoked
<1>2. \A j \in DOMAIN T :
          /\ T[j] \in Row /\ R[j] \in Row
          /\ R[j].exp = T[j].exp /\ R[j].next = T[j].next
          /\ R[j].at = T[j].at
          /\ (T[j].revoked = 1 \/ j \in S) => R[j].revoked = 1
  BY DEF Revoked, Sound, IsTable, Row
<1>3. IsTable(R)
  BY <1>1, <1>2 DEF IsTable, Sound, Revoked
<1> HIDE DEF R
<1>4. \A j \in d \cup S : j \in DOMAIN R => R[j].revoked = 1
  BY <1>1, <1>2 DEF Sound
<1>5. \A j \in DOMAIN R : c[j].parent \in DOMAIN R => R[c[j].parent].next = j
  BY <1>1, <1>2 DEF Sound
<1> QED BY <1>1, <1>2, <1>3, <1>4, <1>5 DEF Sound, R

\* The UPDATE of rotate(): the replaced row had no successor yet.
LEMMA SoundSuperseded ==
    ASSUME NEW T, NEW c, NEW g, NEW d, NEW p, NEW n, NEW old, NEW new \in Jti,
           NEW t \in Nat,
           Sound(T, c, g, d, p, n),
           old \in DOMAIN T, T[old].next = NoJti, new \in DOMAIN c, new # NoJti
    PROVE  /\ Sound(Superseded(T, old, new, t), c, g, d, p \ {new}, n)
           /\ DOMAIN Superseded(T, old, new, t) = DOMAIN T
           /\ Superseded(T, old, new, t)[old].next = new
<1> DEFINE U == Superseded(T, old, new, t)
<1>1. DOMAIN U = DOMAIN T
  BY DEF Superseded
<1>2. \A j \in DOMAIN T :
          /\ T[j] \in Row /\ U[j] \in Row
          /\ U[j].exp = T[j].exp /\ U[j].revoked = T[j].revoked
          /\ j # old => U[j].next = T[j].next
  BY DEF Superseded, Sound, IsTable, Row, OptJti
<1>3. U[old].next = new
  BY <1>2 DEF Superseded, Sound, IsTable, Row
<1>4. IsTable(U)
  BY <1>1, <1>2 DEF IsTable, Sound, Superseded
<1> HIDE DEF U
<1>5. \A j \in DOMAIN U : U[j].next # NoJti =>
                U[j].next \in DOMAIN c /\ U[j].next \notin p \ {new}
  BY <1>1, <1>2, <1>3 DEF Sound
<1>6. \A j \in DOMAIN U : c[j].parent \in DOMAIN U => U[c[j].parent].next = j
  <2> SUFFICES ASSUME NEW j \in DOMAIN U, c[j].parent \in DOMAIN U
               PROVE  U[c[j].parent].next = j
    OBVIOUS
  <2>1. T[c[j].parent].next = j
    BY <1>1 DEF Sound
  <2>2. j # NoJti
    BY <1>1, NoJtiAssumption DEF Sound, IsTable
  <2> QED BY <2>1, <2>2, <1>1, <1>2
<1>7. /\ DOMAIN U \subseteq DOMAIN c /\ DOMAIN U \cap (p \ {new}) = {}
      /\ \A j \in DOMAIN U : U[j].exp = c[j].exp - Zone
      /\ \A i, j \in DOMAIN U : c[i].parent = c[j].parent /\ c[i].parent # NoJti => i = j
      /\ \A j \in g : c[j].exp > n => j \in DOMAIN U
      /\ \A j \in d : j \in DOMAIN U => U[j].revoked = 1
  BY <1>1, <1>2 DEF Sound
<1>8. Sound(U, c, g, d, p \ {new}, n)
  BY <1>4, <1>5, <1>6, <1>7 DEF Sound
<1> QED BY <1>1, <1>3, <1>8 DEF U

\* An INSERT of an id that is in no table, is nobody's parent, and whose own
\* parent, if it has one, was superseded by it and has no other heir.
LEMMA SoundInserted ==
    ASSUME NEW T, NEW c, NEW g, NEW d, NEW p, NEW n, NEW k \in Jti,
           AreClaims(c), Sound(T, c, g, d, p, n),
           k \in DOMAIN c, k \notin DOMAIN T, k \notin d,
           \A j \in DOMAIN c : c[j].parent # k,
           c[k].parent # NoJti =>
              c[k].parent \in DOMAIN T /\ T[c[k].parent].next = k
    PROVE  Sound(Inserted(T, k, c[k].exp - Zone), c, g \cup {k}, d, p \ {k}, n)
<1> DEFINE U == Inserted(T, k, c[k].exp - Zone)
<1>1. DOMAIN U = DOMAIN T \cup {k}
  BY DEF Inserted
<1>2. \A j \in DOMAIN T : U[j] = T[j]
  BY DEF Inserted
<1>3. U[k] = [exp |-> c[k].exp - Zone, revoked |-> 0, next |-> NoJti, at |-> 0]
  BY DEF Inserted
<1>4. IsTable(U)
  <2>1. U[k] \in Row
    BY <1>3, TimesAssumption DEF Row, OptJti, AreClaims, Claim
  <2>2. \A j \in DOMAIN T : U[j] \in Row
    BY <1>2 DEF Sound, IsTable
  <2> QED BY <1>1, <2>1, <2>2 DEF Inserted, IsTable, Sound
<1> HIDE DEF U
<1>5. \A i, j \in DOMAIN U : c[i].parent = c[j].parent /\ c[i].parent # NoJti => i = j
  <2>1. \A j \in DOMAIN T : c[j].parent = c[k].parent => c[k].parent = NoJti
    BY DEF Sound
  <2> QED BY <1>1, <2>1 DEF Sound
<1>6. \A j \in DOMAIN U : c[j].parent \in DOMAIN U => U[c[j].parent].next = j
  <2> SUFFICES ASSUME NEW j \in DOMAIN U, c[j].parent \in DOMAIN U
               PROVE  U[c[j].parent].next = j
    OBVIOUS
  <2>1. c[j].parent \in DOMAIN T
    BY <1>1 DEF Sound
  <2>2. CASE j = k
    BY <2>1, <2>2, <1>2, NoJtiAssumption DEF Sound, IsTable
  <2>3. CASE j # k
    BY <2>1, <2>3, <1>1, <1>2 DEF Sound
  <2> QED BY <2>2, <2>3
<1>7. /\ DOMAIN U \subseteq DOMAIN c /\ DOMAIN U \cap (p \ {k}) = {}
      /\ \A j \in DOMAIN U : U[j].exp = c[j].exp - Zone
      /\ \A j \in g \cup {k} : c[j].exp > n => j \in DOMAIN U
      /\ \A j \in d : j \in DOMAIN U => U[j].revoked = 1
  BY <1>1, <1>2, <1>3 DEF Sound
<1>8. \A j \in DOMAIN U : U[j].next # NoJti =>
                U[j].next \in DOMAIN c /\ U[j].next \notin p \ {k}
  BY <1>1, <1>2, <1>3 DEF Sound
<1> QED BY <1>4, <1>5, <1>6, <1>7, <1>8 DEF Sound, U

\* The purge keeps every row whose JWT could still be presented.
LEMMA SoundPurged ==
    ASSUME NEW T, NEW c, NEW g, NEW d, NEW p, NEW n \in Nat,
           AreClaims(c), g \subseteq DOMAIN c, Sound(T, c, g, d, p, n)
    PROVE  Sound(Purged(T, n - PurgeGrace), c, g, d, p, n)
<1> DEFINE U == Purged(T, n - PurgeGrace)
<1>1. /\ DOMAIN U \subseteq DOMAIN T
      /\ \A j \in DOMAIN U : U[j] = T[j]
      /\ \A j \in DOMAIN T : T[j].exp >= n - PurgeGrace => j \in DOMAIN U
  BY DEF Purged
<1>2. IsTable(U)
  BY <1>1 DEF Purged, IsTable, Sound
<1>3. \A j \in g : c[j].exp > n => j \in DOMAIN U
  <2> SUFFICES ASSUME NEW j \in g, c[j].exp > n
               PROVE  j \in DOMAIN U
    OBVIOUS
  <2>1. j \in DOMAIN T /\ T[j].exp = c[j].exp - Zone
    BY DEF Sound
  <2>2. c[j].exp \in Nat
    BY DEF AreClaims, Claim
  <2>3. c[j].exp - Zone >= n - PurgeGrace
    BY <2>2, TimesAssumption, PurgeAssumption
  <2> QED BY <2>1, <2>3, <1>1
<1> HIDE DEF U
<1> QED BY <1>1, <1>2, <1>3 DEF Sound, U

\* The walk stays within any set that holds its start and is closed.
LEMMA WalkLeast ==
    ASSUME NEW T, NEW a \in Jti, NEW S \in SUBSET Jti, a \in S, Closed(T, S)
    PROVE  Walk(T, a) \subseteq S
BY DEF Walk

\* The walk holds its start and the successor of every row it visits.
LEMMA WalkClosed ==
    ASSUME NEW T, NEW a \in Jti, IsTable(T)
    PROVE  /\ a \in Walk(T, a) /\ Walk(T, a) \subseteq Jti
           /\ Closed(T, Walk(T, a))
<1>1. a \in Walk(T, a) /\ Walk(T, a) \subseteq Jti
  BY DEF Walk
<1>2. ASSUME NEW j \in Walk(T, a), j \in DOMAIN T, T[j].next # NoJti
      PROVE  T[j].next \in Walk(T, a)
  <2>1. T[j].next \in Jti
    BY <1>2 DEF IsTable, Row, OptJti
  <2>2. ASSUME NEW S \in SUBSET Jti, a \in S, Closed(T, S)
        PROVE  T[j].next \in S
    BY <1>2, <2>2 DEF Walk, Closed
  <2> QED BY <2>1, <2>2 DEF Walk
<1> QED BY <1>1, <1>2 DEF Closed
-----------------------------------------------------------------------------
(* Lemmas about requests.                                                  *)

LEMMA GotoFacts ==
    ASSUME TypeOK, NEW r \in Req, NEW pc \in Pc, Goto(r, pc)
    PROVE  /\ req' \in [Req -> Request]
           /\ \A s \in Req \ {r} : req'[s] = req[s]
           /\ req'[r].pc = pc
           /\ req'[r].jti = req[r].jti /\ req'[r].new = req[r].new
           /\ req'[r].since = req[r].since
BY DEF TypeOK, Goto, Request

LEMMA GivenKnown ==
    ASSUME RequestsOK
    PROVE  /\ Given \subseteq DOMAIN claim
           /\ Pending \subseteq DOMAIN claim
           /\ \A j \in DOMAIN claim : claim[j].parent \notin Pending \/ claim[j].parent = NoJti
BY DEF RequestsOK, Given, Pending

\* A step that leaves the tables alone and gives out no id keeps them sound.
LEMMA QuietStep ==
    ASSUME IInv, now' \in Nat, now <= now', claim' = claim, dead' = dead,
           Given' \subseteq Given, Pending' \subseteq Pending,
           db' \in {db, disk}, disk' = disk
    PROVE  /\ Sound(db, claim, Given, dead, Pending, now)'
           /\ Sound(disk, claim, Given, dead, Pending, now)'
<1>1. Given' \subseteq DOMAIN claim
  BY GivenKnown DEF IInv
<1>2. now \in Nat /\ AreClaims(claim)
  BY DEF IInv, TypeOK
<1>3. Sound(db, claim, Given', dead, Pending', now')
  BY <1>1, <1>2, SoundLater DEF IInv
<1>4. Sound(disk, claim, Given', dead, Pending', now')
  BY <1>1, <1>2, SoundLater DEF IInv
<1> QED BY <1>3, <1>4

\* Minting reserves a fresh id for one request.
LEMMA MintStep ==
    ASSUME IInv, NEW r \in Req, NEW k \in Fresh, NEW p \in held \cup {NoJti},
           NEW pc \in {"issue", "rotate"},
           Minted(k, p), req' \in [Req -> Request],
           \A s \in Req \ {r} : req'[s] = req[s],
           req'[r].pc = pc, req'[r].new = k, req'[r].jti = p,
           pc = "issue" => p = NoJti, pc = "rotate" => p \in held,
           req[r].pc \in {"idle", "valid"},
           UNCHANGED <<now, ttl, db, disk, held, dead, burned>>
    PROVE  IInv'
<1>1. /\ DOMAIN claim' = DOMAIN claim \cup {k} /\ k \notin DOMAIN claim
      /\ \A j \in DOMAIN claim : claim'[j] = claim[j]
      /\ claim'[k] = [exp |-> now + ttl, parent |-> p]
  BY DEF Minted, Fresh
<1>2. now + ttl \in Nat
  BY TimesAssumption DEF IInv, TypeOK
<1>3. AreClaims(claim')
  <2>1. held \subseteq Jti /\ k \in Jti /\ AreClaims(claim)
    BY DEF IInv, TypeOK, Fresh
  <2>2. claim'[k] \in Claim
    BY <1>1, <1>2, <2>1 DEF Claim, OptJti
  <2>3. claim' \in [DOMAIN claim' -> Claim]
    BY <1>1, <2>1, <2>2 DEF AreClaims, Minted
  <2> QED BY <1>1, <2>1, <2>3 DEF AreClaims
<1>4. TypeOK'
  BY <1>3 DEF IInv, TypeOK
<1>5. k # NoJti
  BY NoJtiAssumption DEF Fresh
<1>6. /\ Pending' \subseteq Pending \cup {k} /\ Given' \subseteq Given
  BY DEF Pending, Given
<1>7. RequestsOK'
  <2>1. held \subseteq DOMAIN claim /\ dead \subseteq DOMAIN claim
    BY DEF IInv, RequestsOK
  <2>2. \A s \in Req \ {r} : req[s].new # k
    BY <1>1, <1>5 DEF IInv, RequestsOK
  <2>3. \A j \in DOMAIN claim' : claim'[j].parent \in held' \cup {NoJti}
    BY <1>1 DEF IInv, RequestsOK
  <2>4. \A s \in Req : req'[s].new # NoJti => req'[s].new \in DOMAIN claim'
    BY <1>1 DEF IInv, RequestsOK
  <2>5. \A s \in Req : req'[s].pc \in {"valid", "superseded", "burn", "rotate", "revoke"}
                          => req'[s].jti \in held'
    BY DEF IInv, RequestsOK
  <2>6. \A s \in Req : req'[s].pc \in {"issue", "rotate"} =>
          /\ req'[s].new \in DOMAIN claim'
          /\ req'[s].new \notin held' /\ req'[s].new \notin dead'
          /\ \A u \in Req \ {s} : req'[u].new # req'[s].new
    <3> SUFFICES ASSUME NEW s \in Req, req'[s].pc \in {"issue", "rotate"}
                 PROVE  /\ req'[s].new \in DOMAIN claim'
                        /\ req'[s].new \notin held' /\ req'[s].new \notin dead'
                        /\ \A u \in Req \ {s} : req'[u].new # req'[s].new
      OBVIOUS
    <3>1. CASE s = r
      BY <3>1, <1>1, <2>1, <2>2
    <3>2. CASE s # r
      <4>1. /\ req[s].new \in DOMAIN claim /\ req[s].new \notin held
            /\ req[s].new \notin dead
            /\ \A u \in Req \ {s} : req[u].new # req[s].new
        BY <3>2 DEF IInv, RequestsOK
      <4> QED BY <3>2, <4>1, <1>1, <2>2
    <3> QED BY <3>1, <3>2
  <2>7. /\ \A s \in Req : req'[s].pc = "issue" => claim'[req'[s].new].parent = NoJti
        /\ \A s \in Req : req'[s].pc = "rotate" => claim'[req'[s].new].parent = req'[s].jti
    BY <1>1 DEF IInv, RequestsOK
  <2>8. \A s \in Req : req'[s].pc \in {"valid", "superseded", "burn", "revoke"}
                          => req'[s].new = NoJti
    BY DEF IInv, RequestsOK
  <2> QED BY <1>1, <2>1, <2>3, <2>4, <2>5, <2>6, <2>7, <2>8 DEF RequestsOK
<1>8. Given \subseteq DOMAIN claim
  BY GivenKnown DEF IInv
<1>9. ASSUME NEW T, Sound(T, claim, Given, dead, Pending, now)
      PROVE  Sound(T, claim', Given', dead, Pending', now)
  <2>1. Sound(T, claim', Given, dead, Pending \cup {k}, now)
    BY <1>1, <1>8, <1>9, SoundMinted
  <2>2. Given' \subseteq DOMAIN claim'
    BY <1>1, <1>6, <1>8
  <2> QED BY <1>3, <1>6, <2>1, <2>2, SoundLater DEF IInv, TypeOK
<1> QED BY <1>4, <1>7, <1>9 DEF IInv

\* A request leaves the server, or moves on with the ids it already carries,
\* while a method turns the tables into T or keeps them.
LEMMA MethodStep ==
    ASSUME IInv, NEW r \in Req, NEW pc \in Pc \ {"issue", "rotate", "idle"}, Goto(r, pc),
           UNCHANGED <<now, ttl, claim, held>>,
           dead \subseteq dead', dead' \subseteq DOMAIN claim,
           \A s \in Req : req'[s].pc \in {"issue", "rotate"} => req[s].new \notin dead',
           burned' \subseteq Jti,
           pc \in {"valid", "superseded", "burn", "revoke"} =>
              req[r].jti \in held /\ req[r].new = NoJti,
           Sound(db', claim, Given', dead', Pending', now),
           Sound(disk', claim, Given', dead', Pending', now)
    PROVE  IInv'
<1>1. /\ req' \in [Req -> Request]
      /\ \A s \in Req \ {r} : req'[s] = req[s]
      /\ req'[r].pc = pc
      /\ req'[r].jti = req[r].jti /\ req'[r].new = req[r].new
  BY GotoFacts DEF IInv
<1>2. TypeOK'
  BY <1>1 DEF IInv, TypeOK, AreClaims, Sound
<1>3. RequestsOK'
  <2>1. \A s \in Req : req'[s].new = req[s].new /\ req'[s].jti = req[s].jti
    BY <1>1
  <2>2. \A s \in Req : req'[s].pc \in {"issue", "rotate"} => req[s].pc = req'[s].pc
    BY <1>1
  <2>3. \A s \in Req : req'[s].pc \in {"issue", "rotate"} =>
          /\ req'[s].new \in DOMAIN claim'
          /\ req'[s].new \notin held' /\ req'[s].new \notin dead'
          /\ \A u \in Req \ {s} : req'[u].new # req'[s].new
    BY <2>1, <2>2 DEF IInv, RequestsOK
  <2>4. \A s \in Req : req'[s].pc \in {"valid", "superseded", "burn", "rotate", "revoke"}
                          => req'[s].jti \in held'
    BY <1>1 DEF IInv, RequestsOK
  <2>5. /\ \A s \in Req : req'[s].pc = "issue" => claim'[req'[s].new].parent = NoJti
        /\ \A s \in Req : req'[s].pc = "rotate" => claim'[req'[s].new].parent = req'[s].jti
    BY <2>1, <2>2 DEF IInv, RequestsOK
  <2>6. \A s \in Req : req'[s].new # NoJti => req'[s].new \in DOMAIN claim'
    BY <2>1 DEF IInv, RequestsOK
  <2>7. /\ held' \subseteq DOMAIN claim' /\ dead' \subseteq DOMAIN claim'
        /\ \A j \in DOMAIN claim' : claim'[j].parent \in held' \cup {NoJti}
    BY DEF IInv, RequestsOK
  <2>8. \A s \in Req : req'[s].pc \in {"valid", "superseded", "burn", "revoke"}
                          => req'[s].new = NoJti
    BY <1>1 DEF IInv, RequestsOK
  <2> QED BY <2>3, <2>4, <2>5, <2>6, <2>7, <2>8 DEF RequestsOK
<1> QED BY <1>2, <1>3 DEF IInv

\* Issue: one INSERT.
LEMMA IssueStep ==
    ASSUME IInv, NEW r \in Req, Issue(r)
    PROVE  IInv'
<1> DEFINE k == req[r].new
           U == IssueInsert(r)
<1>1. /\ k \in DOMAIN claim /\ k \in Jti /\ k \in Pending
      /\ k \notin dead /\ k # NoJti
      /\ claim[k].parent = NoJti
      /\ \A j \in DOMAIN claim : claim[j].parent # k
      /\ \A s \in Req \ {r} : req[s].new # k
  BY NoJtiAssumption DEF Issue, At, IInv, RequestsOK, TypeOK, AreClaims, Pending
<1>2. k \notin DOMAIN db /\ AreClaims(claim) /\ now \in Nat
  BY <1>1 DEF IInv, Sound, TypeOK
<1>3. Sound(U, claim, Given \cup {k}, dead, Pending \ {k}, now)
  BY <1>1, <1>2, SoundInserted DEF IInv, IssueInsert, StoredExp
<1>4. /\ Given \subseteq DOMAIN claim /\ Given \cup {k} \subseteq DOMAIN claim
      /\ dead \subseteq DOMAIN claim /\ burned \subseteq Jti
      /\ \A s \in Req : req[s].pc \in {"issue", "rotate"} => req[s].new \notin dead
  BY <1>1, GivenKnown DEF IInv, RequestsOK, TypeOK
<1>5. UNCHANGED <<now, ttl, claim, held, dead, burned>>
  BY DEF Issue
<1> HIDE DEF U
<1>6. CASE Commit(U) /\ Goto(r, "ok")
  <2>1. /\ \A s \in Req \ {r} : req'[s] = req[s]
        /\ req'[r].pc = "ok" /\ req'[r].new = k
    BY <1>6, GotoFacts DEF IInv, Pc
  <2>2. Given' \subseteq Given \cup {k} /\ Pending' \subseteq Pending \ {k}
    BY <2>1, <1>1, <1>5 DEF Given, Pending
  <2>3. Given' \subseteq DOMAIN claim
    BY <2>2, <1>4
  <2>4. Sound(U, claim, Given', dead, Pending', now)
    BY <1>2, <1>3, <2>2, <2>3, SoundLater
  <2>5. \A s \in Req : req'[s].pc \in {"issue", "rotate"} => req[s].new \notin dead'
    BY <2>1, <1>4, <1>5
  <2> QED BY <1>4, <1>5, <1>6, <2>4, <2>5, MethodStep DEF Commit, Pc
<1>7. CASE Raise({U}) /\ Goto(r, "failed")
  <2>1. /\ \A s \in Req \ {r} : req'[s] = req[s]
        /\ req'[r].pc = "failed" /\ req'[r].new = k
    BY <1>7, GotoFacts DEF IInv, Pc
  <2>2. Given' \subseteq Given /\ Pending' \subseteq Pending \ {k}
    BY <2>1, <1>1, <1>5 DEF Given, Pending
  <2>3. Given' \subseteq DOMAIN claim
    BY <2>2, <1>4
  <2>4. \A T \in {U, db, disk} : Sound(T, claim, Given', dead, Pending', now)
    BY <1>2, <1>3, <2>2, <2>3, SoundLater DEF IInv
  <2>5. \A s \in Req : req'[s].pc \in {"issue", "rotate"} => req[s].new \notin dead'
    BY <2>1, <1>4, <1>5
  <2> QED BY <1>4, <1>5, <1>7, <2>4, <2>5, MethodStep DEF Raise, Pc
<1> QED BY <1>6, <1>7 DEF Issue, U

\* Rotate: UPDATE, INSERT, commit.
LEMMA RotateStep ==
    ASSUME IInv, NEW r \in Req, Rotate(r)
    PROVE  IInv'
<1> DEFINE k == req[r].new
           old == req[r].jti
           U == RotateUpdate(r)
           V == RotateInsert(r)
<1>1. /\ k \in DOMAIN claim /\ k \in Jti /\ k \in Pending
      /\ k \notin dead /\ k # NoJti
      /\ claim[k].parent = old
      /\ \A j \in DOMAIN claim : claim[j].parent # k
      /\ \A s \in Req \ {r} : req[s].new # k
  BY NoJtiAssumption DEF Rotate, At, IInv, RequestsOK, TypeOK, AreClaims, Pending
<1>2. k \notin DOMAIN db /\ AreClaims(claim) /\ now \in Nat /\ req[r].t \in Nat
  BY <1>1 DEF IInv, Sound, TypeOK, Request
<1>3. /\ Given \subseteq DOMAIN claim /\ Given \cup {k} \subseteq DOMAIN claim
      /\ dead \subseteq DOMAIN claim /\ burned \subseteq Jti
      /\ \A s \in Req : req[s].pc \in {"issue", "rotate"} => req[s].new \notin dead
  BY <1>1, GivenKnown DEF IInv, RequestsOK, TypeOK
<1>4. UNCHANGED <<now, ttl, claim, held, dead, burned>>
  BY DEF Rotate
<1>5. CASE Rotatable(db, old, req[r].t)
  <2>1. old \in DOMAIN db /\ db[old].next = NoJti
    BY <1>5 DEF Rotatable
  <2>2. /\ Sound(U, claim, Given, dead, Pending \ {k}, now)
        /\ DOMAIN U = DOMAIN db /\ U[old].next = k
    <3>1. /\ Sound(db, claim, Given, dead, Pending, now)
          /\ k \in Jti /\ k \in DOMAIN claim /\ k # NoJti /\ req[r].t \in Nat
      BY <1>1, <1>2 DEF IInv
    <3>2. /\ Sound(Superseded(db, old, k, req[r].t), claim, Given, dead, Pending \ {k}, now)
          /\ DOMAIN Superseded(db, old, k, req[r].t) = DOMAIN db
          /\ Superseded(db, old, k, req[r].t)[old].next = k
      <4> DEFINE t == req[r].t
      <4>1. t \in Nat
        BY <3>1
      <4> HIDE DEF k, old, t
      <4>2. /\ Sound(Superseded(db, old, k, t), claim, Given, dead, Pending \ {k}, now)
            /\ DOMAIN Superseded(db, old, k, t) = DOMAIN db
            /\ Superseded(db, old, k, t)[old].next = k
        BY <3>1, <2>1, <4>1, SoundSuperseded
      <4> QED BY <4>2 DEF t
    <3> QED BY <3>2 DEF RotateUpdate
  <2>3. Sound(V, claim, Given \cup {k}, dead, (Pending \ {k}) \ {k}, now)
    <3> HIDE DEF U
    <3>1. Sound(Inserted(U, k, claim[k].exp - Zone), claim, Given \cup {k}, dead,
                (Pending \ {k}) \ {k}, now)
      <4> HIDE DEF k, old
      <4>1. /\ k \in Jti /\ k \in DOMAIN claim /\ k \notin DOMAIN U /\ k \notin dead
            /\ \A j \in DOMAIN claim : claim[j].parent # k
            /\ claim[k].parent \in DOMAIN U /\ U[claim[k].parent].next = k
            /\ Sound(U, claim, Given, dead, Pending \ {k}, now) /\ AreClaims(claim)
        BY <1>1, <1>2, <2>1, <2>2
      <4> QED BY <4>1, SoundInserted
    <3> QED BY <3>1 DEF RotateInsert, StoredExp, U
  <2> HIDE DEF U, V
  <2>4. CASE Commit(V) /\ Goto(r, "ok")
    <3>1. /\ \A s \in Req \ {r} : req'[s] = req[s]
          /\ req'[r].pc = "ok" /\ req'[r].new = k
      BY <2>4, GotoFacts DEF IInv, Pc
    <3>2. Given' \subseteq Given \cup {k} /\ Pending' \subseteq (Pending \ {k}) \ {k}
      BY <3>1, <1>1, <1>4 DEF Given, Pending
    <3>3. Sound(V, claim, Given', dead, Pending', now)
      BY <1>2, <1>3, <2>3, <3>2, SoundLater
    <3>4. \A s \in Req : req'[s].pc \in {"issue", "rotate"} => req[s].new \notin dead'
      BY <3>1, <1>3, <1>4
    <3> QED BY <1>3, <1>4, <2>4, <3>3, <3>4, MethodStep DEF Commit, Pc
  <2>5. CASE Raise({U, V}) /\ Goto(r, "failed")
    <3>1. /\ \A s \in Req \ {r} : req'[s] = req[s]
          /\ req'[r].pc = "failed" /\ req'[r].new = k
      BY <2>5, GotoFacts DEF IInv, Pc
    <3>2. Given' \subseteq Given /\ Pending' \subseteq Pending \ {k}
      BY <3>1, <1>1, <1>4 DEF Given, Pending
    <3>3. \A T \in {U, V, db, disk} : Sound(T, claim, Given', dead, Pending', now)
      BY <1>2, <1>3, <2>2, <2>3, <3>2, SoundLater DEF IInv
    <3>4. \A s \in Req : req'[s].pc \in {"issue", "rotate"} => req[s].new \notin dead'
      BY <3>1, <1>3, <1>4
    <3> QED BY <1>3, <1>4, <2>5, <3>3, <3>4, MethodStep DEF Raise, Pc
  <2> QED BY <1>5, <2>4, <2>5 DEF Rotate, U, V
<1>6. CASE ~Rotatable(db, old, req[r].t)
  <2>1. Goto(r, "denied") /\ UNCHANGED <<db, disk>>
    BY <1>6 DEF Rotate
  <2>2. /\ \A s \in Req \ {r} : req'[s] = req[s]
        /\ req'[r].pc = "denied" /\ req'[r].new = k
    BY <2>1, GotoFacts DEF IInv, Pc
  <2>3. Given' \subseteq Given /\ Pending' \subseteq Pending
    BY <2>2, <1>4 DEF Given, Pending
  <2>4. /\ Sound(db', claim, Given', dead', Pending', now)
        /\ Sound(disk', claim, Given', dead', Pending', now)
    BY <1>2, <1>3, <1>4, <2>1, <2>3, SoundLater DEF IInv
  <2>5. \A s \in Req : req'[s].pc \in {"issue", "rotate"} => req[s].new \notin dead'
    BY <2>2, <1>3, <1>4
  <2> QED BY <1>3, <1>4, <2>1, <2>4, <2>5, MethodStep DEF Pc
<1> QED BY <1>5, <1>6

\* A revocation method: its tables are sound for the ids it settles.
LEMMA RevokeStep ==
    ASSUME IInv, NEW r \in Req, NEW S \in SUBSET DOMAIN claim,
           NEW pc \in {"ok", "denied"}, At(r, "burn") \/ At(r, "revoke"),
           pc = "ok" => req[r].new = NoJti,
           S \cap Pending = {},
           Commit(Revoked(db, S)), dead' = dead \cup S, Goto(r, pc),
           UNCHANGED <<now, ttl, claim, held>>, burned' \subseteq Jti
    PROVE  IInv'
<1>1. /\ \A s \in Req \ {r} : req'[s] = req[s]
      /\ req'[r].pc = pc /\ req'[r].new = req[r].new
  BY GotoFacts DEF IInv, Pc
<1>2. Given' \subseteq Given /\ Pending' \subseteq Pending
  BY <1>1 DEF Given, Pending
<1>3. /\ Given' \subseteq DOMAIN claim /\ dead' \subseteq DOMAIN claim
      /\ AreClaims(claim) /\ now \in Nat
  BY <1>2, GivenKnown DEF IInv, RequestsOK, TypeOK
<1>4. Sound(Revoked(db, S), claim, Given, dead', Pending, now)
  BY SoundRevoked DEF IInv
<1>5. Sound(Revoked(db, S), claim, Given', dead', Pending', now)
  BY <1>2, <1>3, <1>4, SoundLater
<1>6. \A s \in Req : req'[s].pc \in {"issue", "rotate"} => req[s].new \notin dead'
  BY <1>1 DEF Pending, IInv, RequestsOK
<1> QED BY <1>3, <1>5, <1>6, MethodStep DEF Commit, Pc

\* A revocation method that raised: some prefix of it is in the transaction.
LEMMA RaiseStep ==
    ASSUME IInv, NEW r \in Req, NEW pc \in {"ok", "failed", "denied", "superseded", "burn"},
           pc = "ok" => req[r].new = NoJti,
           pc \in {"superseded", "burn"} => req[r].jti \in held /\ req[r].new = NoJti,
           db' \in {db, disk} \/ \E S : db' = Revoked(db, S), UNCHANGED disk, Goto(r, pc),
           UNCHANGED <<now, ttl, claim, held, dead, burned>>
    PROVE  IInv'
<1>1. /\ \A s \in Req \ {r} : req'[s] = req[s]
      /\ req'[r].pc = pc /\ req'[r].new = req[r].new
  BY GotoFacts DEF IInv, Pc, InServer
<1>2. Given' \subseteq Given /\ Pending' \subseteq Pending
  BY <1>1 DEF Given, Pending
<1>3. /\ Given' \subseteq DOMAIN claim /\ dead' \subseteq DOMAIN claim
      /\ AreClaims(claim) /\ now \in Nat /\ burned' \subseteq Jti
  BY <1>2, GivenKnown DEF IInv, RequestsOK, TypeOK
<1>4. ASSUME NEW S, db' = Revoked(db, S)
      PROVE  Sound(db', claim, Given, dead \cup S, Pending, now)
  BY <1>4, SoundRevoked DEF IInv
<1>5. Sound(db', claim, Given', dead', Pending', now)
  <2>1. CASE db' \in {db, disk}
    BY <1>2, <1>3, <2>1, SoundLater DEF IInv
  <2>2. ASSUME NEW S, db' = Revoked(db, S)
        PROVE  Sound(db', claim, Given', dead', Pending', now)
    <3>1. Sound(db', claim, Given, dead \cup S, Pending, now)
      BY <2>2, <1>4
    <3> QED BY <1>2, <1>3, <3>1, SoundLater
  <2> QED BY <2>1, <2>2
<1>6. Sound(disk', claim, Given', dead', Pending', now)
  BY <1>2, <1>3, SoundLater DEF IInv
<1>7. \A s \in Req : req'[s].pc \in {"issue", "rotate"} => req[s].new \notin dead'
  BY <1>1 DEF IInv, RequestsOK
<1> QED BY <1>3, <1>5, <1>6, <1>7, MethodStep DEF Pc, InServer

\* The walk reaches known ids only, and none that waits for its INSERT.
LEMMA WalkKnown ==
    ASSUME IInv, NEW r \in Req, At(r, "burn")
    PROVE  /\ Walk(db, req[r].jti) \subseteq DOMAIN claim
           /\ Walk(db, req[r].jti) \cap Pending = {}
<1> DEFINE S == DOMAIN claim \ Pending
<1>1. held \cap Pending = {} /\ req[r].jti \in held /\ held \subseteq DOMAIN claim
  BY DEF At, IInv, RequestsOK, Pending
<1>2. Closed(db, S)
  BY DEF Closed, IInv, Sound
<1>3. S \in SUBSET Jti /\ req[r].jti \in Jti /\ req[r].jti \in S
  BY <1>1 DEF IInv, TypeOK, AreClaims
<1> HIDE DEF S
<1>4. Walk(db, req[r].jti) \subseteq S
  BY <1>2, <1>3, WalkLeast
<1> QED BY <1>4 DEF S
-----------------------------------------------------------------------------
(* The safety invariant.                                                   *)

LEMMA SafeInit == Init => IInv
<1> SUFFICES ASSUME Init PROVE IInv
  OBVIOUS
<1>1. IsTable(db) /\ IsTable(disk) /\ AreClaims(claim)
  BY DEF Init, EmptyTable, IsTable, AreClaims
<1>2. TypeOK
  BY <1>1 DEF Init, TypeOK, Idle, Request, Pc, InServer, OptJti
<1>3. RequestsOK
  BY DEF Init, RequestsOK, Idle, EmptyTable
<1>4. Given = {} /\ Pending = {}
  BY DEF Init, Given, Pending, Idle
<1>5. \A T \in {db, disk} : Sound(T, claim, {}, dead, {}, now)
  BY <1>1 DEF Init, Sound, EmptyTable
<1> QED BY <1>2, <1>3, <1>4, <1>5 DEF IInv

\* A request arrives with a token some client holds.
LEMMA ArriveStep ==
    ASSUME IInv, NEW r \in Req, NEW j \in Jti, Refresh(r, j) \/ Logout(r, j)
    PROVE  IInv'
<1>1. /\ req[r].pc = "idle" /\ j \in held
      /\ UNCHANGED <<now, ttl, db, disk, claim, held, dead, burned>>
      /\ \E pc \in {"valid", "revoke"} :
            req' = [req EXCEPT ![r] = [pc |-> pc, jti |-> j, new |-> NoJti,
                                       t |-> now, since |-> now]]
  BY DEF Refresh, Logout, At
<1>2. /\ req' \in [Req -> Request]
      /\ \A s \in Req \ {r} : req'[s] = req[s]
      /\ req'[r].pc \in {"valid", "revoke"} /\ req'[r].jti = j /\ req'[r].new = NoJti
  BY <1>1 DEF IInv, TypeOK, Request, OptJti, Pc, InServer
<1>3. TypeOK'
  BY <1>1, <1>2 DEF IInv, TypeOK
<1>4. RequestsOK'
  BY <1>1, <1>2, NoJtiAssumption DEF IInv, RequestsOK, TypeOK, AreClaims
<1>5. Given' \subseteq Given /\ Pending' \subseteq Pending
  BY <1>1, <1>2 DEF Given, Pending
<1> QED BY <1>1, <1>3, <1>4, <1>5, QuietStep DEF IInv, TypeOK

\* An answer is delivered or lost, or the whole server goes down.
LEMMA LeaveStep ==
    ASSUME IInv, (\E r \in Req : Deliver(r) \/ Lose(r)) \/ Restart
    PROVE  IInv'
<1>1. /\ UNCHANGED <<now, disk, claim, dead, burned>> /\ db' \in {db, disk}
      /\ ttl' \in Ttls /\ held \subseteq held' /\ held' \subseteq Given
      /\ req' \in [Req -> Request]
      /\ \A s \in Req : req'[s] = req[s] \/ req'[s] = Idle
  BY DEF Deliver, Lose, Restart, At, Given, IInv, TypeOK, Idle, Request, OptJti, Pc
<1>2. Given \subseteq DOMAIN claim /\ Given \cap Pending = {}
  BY GivenKnown DEF IInv, RequestsOK, Given, Pending
<1>3. TypeOK'
  BY <1>1, <1>2 DEF IInv, TypeOK, AreClaims
<1>4. Given' \subseteq Given /\ Pending' \subseteq Pending
  BY <1>1 DEF Given, Pending, Idle
<1>5. RequestsOK'
  <2>1. /\ held' \subseteq DOMAIN claim' /\ dead' \subseteq DOMAIN claim'
        /\ \A j \in DOMAIN claim' : claim'[j].parent \in held' \cup {NoJti}
    BY <1>1, <1>2 DEF IInv, RequestsOK
  <2>2. \A s \in Req : req'[s].pc # "idle" => req'[s] = req[s]
    BY <1>1 DEF Idle
  <2>3. \A s \in Req : req'[s].new = req[s].new \/ req'[s].new = NoJti
    BY <1>1 DEF Idle
  <2>4. \A s \in Req : req'[s].pc \in {"issue", "rotate"} =>
          /\ req'[s].new \in DOMAIN claim'
          /\ req'[s].new \notin held' /\ req'[s].new \notin dead'
          /\ \A u \in Req \ {s} : req'[u].new # req'[s].new
    <3> SUFFICES ASSUME NEW s \in Req, req'[s].pc \in {"issue", "rotate"}
                 PROVE  /\ req'[s].new \in DOMAIN claim'
                        /\ req'[s].new \notin held' /\ req'[s].new \notin dead'
                        /\ \A u \in Req \ {s} : req'[u].new # req'[s].new
      OBVIOUS
    <3>1. req'[s] = req[s] /\ req[s].new \in Pending
      BY <2>2 DEF Pending
    <3>2. req[s].new \notin held'
      BY <3>1, <1>1, <1>2
    <3>3. req[s].new \in Jti
      BY <3>1, GivenKnown DEF IInv, TypeOK, AreClaims
    <3>4. \A u \in Req \ {s} : req'[u].new # req[s].new
      BY <3>1, <3>3, <2>3, NoJtiAssumption DEF IInv, RequestsOK
    <3> QED BY <3>1, <3>2, <3>4, <1>1 DEF IInv, RequestsOK
  <2>5. /\ \A s \in Req : req'[s].pc \in {"valid", "superseded", "burn", "rotate", "revoke"}
                            => req'[s].jti \in held'
        /\ \A s \in Req : req'[s].pc \in {"valid", "superseded", "burn", "revoke"}
                            => req'[s].new = NoJti
    BY <1>1, <2>2 DEF IInv, RequestsOK
  <2>6. /\ \A s \in Req : req'[s].pc = "issue" => claim'[req'[s].new].parent = NoJti
        /\ \A s \in Req : req'[s].pc = "rotate" => claim'[req'[s].new].parent = req'[s].jti
    BY <1>1, <2>2 DEF IInv, RequestsOK
  <2>7. \A s \in Req : req'[s].new # NoJti => req'[s].new \in DOMAIN claim'
    BY <1>1, <2>3 DEF IInv, RequestsOK
  <2> QED BY <2>1, <2>4, <2>5, <2>6, <2>7 DEF RequestsOK
<1> QED BY <1>1, <1>3, <1>4, <1>5, QuietStep DEF IInv, TypeOK

\* The purge and the clock touch no request.
LEMMA PurgeStep ==
    ASSUME IInv, PurgeExpired
    PROVE  IInv'
<1> DEFINE U == Purged(db, now - PurgeGrace)
<1>1. /\ UNCHANGED <<now, ttl, req, claim, held, dead, burned>>
      /\ db' \in {U, db, disk} /\ disk' \in {U, disk}
  BY DEF PurgeExpired, Commit, Raise
<1>2. Given' = Given /\ Pending' = Pending
  BY <1>1 DEF Given, Pending
<1>3. Sound(U, claim, Given, dead, Pending, now)
  BY SoundPurged, GivenKnown DEF IInv, TypeOK
<1>4. IsTable(U)
  BY <1>3 DEF Sound
<1> HIDE DEF U
<1>5. TypeOK'
  BY <1>1, <1>4 DEF IInv, TypeOK
<1>6. RequestsOK'
  BY <1>1 DEF IInv, RequestsOK
<1>7. Sound(db', claim, Given, dead, Pending, now)
  BY <1>1, <1>3 DEF IInv
<1>8. Sound(disk', claim, Given, dead, Pending, now)
  BY <1>1, <1>3 DEF IInv
<1> QED BY <1>1, <1>2, <1>5, <1>6, <1>7, <1>8 DEF IInv

LEMMA ClockStep ==
    ASSUME IInv, Tick \/ UNCHANGED vars
    PROVE  IInv'
<1>1. /\ now' \in Nat /\ now <= now' /\ ttl' \in Ttls
      /\ UNCHANGED <<db, disk, req, claim, held, dead, burned>>
  BY DEF Tick, vars, IInv, TypeOK
<1>2. Given' = Given /\ Pending' = Pending
  BY <1>1 DEF Given, Pending
<1>3. TypeOK' /\ RequestsOK'
  BY <1>1 DEF IInv, TypeOK, RequestsOK
<1> QED BY <1>1, <1>2, <1>3, QuietStep DEF IInv

LEMMA SafeStep == IInv /\ [Next]_vars => IInv'
<1> SUFFICES ASSUME IInv, [Next]_vars PROVE IInv'
  OBVIOUS
<1>1. ASSUME NEW r \in Req, Verify(r) PROVE IInv'
  <2>1. PICK k \in Fresh :
          /\ Minted(k, NoJti)
          /\ req' = [req EXCEPT ![r] = [pc |-> "issue", jti |-> NoJti, new |-> k,
                                       t |-> now, since |-> now]]
    BY <1>1 DEF Verify
  <2>2. /\ req' \in [Req -> Request]
        /\ \A s \in Req \ {r} : req'[s] = req[s]
        /\ req'[r].pc = "issue" /\ req'[r].new = k /\ req'[r].jti = NoJti
    BY <2>1 DEF IInv, TypeOK, Request, OptJti, Pc, InServer, Fresh
  <2> QED BY <1>1, <2>1, <2>2, MintStep DEF Verify, At
<1>2. ASSUME NEW r \in Req, IsValidYes(r) PROVE IInv'
  <2>1. PICK k \in Fresh :
          /\ Minted(k, req[r].jti)
          /\ req' = [req EXCEPT ![r].pc = "rotate", ![r].new = k, ![r].t = now]
    BY <1>2 DEF IsValidYes
  <2>2. /\ req' \in [Req -> Request]
        /\ \A s \in Req \ {r} : req'[s] = req[s]
        /\ req'[r].pc = "rotate" /\ req'[r].new = k /\ req'[r].jti = req[r].jti
    <3> DEFINE q == [req[r] EXCEPT !.pc = "rotate", !.new = k, !.t = now]
    <3>1. req \in [Req -> Request] /\ now \in Nat /\ k \in OptJti /\ "rotate" \in Pc
      BY <2>1 DEF IInv, TypeOK, OptJti, Fresh, Pc, InServer
    <3>2. q \in Request /\ q.pc = "rotate" /\ q.new = k /\ q.jti = req[r].jti
      <4>1. req[r] \in Request
        BY <3>1
      <4>2. QED  BY <3>1, <4>1 DEF Request
    <3>3. req' = [req EXCEPT ![r] = q]
      BY <2>1
    <3> HIDE DEF q
    <3> QED BY <3>1, <3>2, <3>3
  <2>3. req[r].jti \in held
    BY <1>2 DEF IsValidYes, At, IInv, RequestsOK
  <2> QED BY <1>2, <2>1, <2>2, <2>3, MintStep DEF IsValidYes, At
<1>3. ASSUME NEW r \in Req, IsValidNo(r) \/ IsSuperseded(r) PROVE IInv'
  <2>1. PICK pc \in {"superseded", "burn", "denied"} :
          /\ Goto(r, pc)
          /\ UNCHANGED <<now, ttl, db, disk, claim, held, dead, burned>>
    BY <1>3 DEF IsValidNo, IsSuperseded
  <2>2. req[r].jti \in held /\ req[r].new = NoJti
    BY <1>3 DEF IsValidNo, IsSuperseded, At, IInv, RequestsOK
  <2> QED BY <2>1, <2>2, RaiseStep
<1>4. ASSUME NEW r \in Req, RevokeChain(r) PROVE IInv'
  <2> DEFINE walk == Walk(db, req[r].jti)
  <2>1. /\ At(r, "burn") /\ UNCHANGED <<now, ttl, claim, held>>
        /\ \/ /\ Commit(Revoked(db, walk)) /\ burned' = burned \cup walk
              /\ dead' = dead \cup walk /\ Goto(r, "denied")
           \/ /\ db' \in {db, disk} \/ \E S : db' = Revoked(db, S)
              /\ UNCHANGED <<disk, burned, dead>> /\ Goto(r, "failed")
    BY <1>4 DEF RevokeChain, Raise
  <2>2. walk \in SUBSET DOMAIN claim /\ walk \cap Pending = {}
    BY <2>1, WalkKnown
  <2>3. burned \cup walk \subseteq Jti
    BY <2>2 DEF IInv, TypeOK, AreClaims
  <2> HIDE DEF walk
  <2>4. CASE /\ Commit(Revoked(db, walk)) /\ burned' = burned \cup walk
             /\ dead' = dead \cup walk /\ Goto(r, "denied")
    BY <2>1, <2>2, <2>3, <2>4, RevokeStep
  <2>5. CASE /\ db' \in {db, disk} \/ \E S : db' = Revoked(db, S)
             /\ UNCHANGED <<disk, burned, dead>> /\ Goto(r, "failed")
    BY <2>1, <2>5, RaiseStep
  <2> QED BY <2>1, <2>4, <2>5
<1>5. ASSUME NEW r \in Req, Revoke(r) PROVE IInv'
  <2> DEFINE S == {req[r].jti}
  <2>1. /\ At(r, "revoke") /\ Goto(r, "ok") /\ UNCHANGED <<now, ttl, claim, held, burned>>
        /\ \/ Commit(Revoked(db, S)) /\ dead' = dead \cup S
           \/ /\ db' \in {db, disk} \/ \E R : db' = Revoked(db, R)
              /\ UNCHANGED <<disk, dead>>
    BY <1>5 DEF Revoke, Raise
  <2>2. req[r].jti \in held /\ req[r].new = NoJti
    BY <2>1 DEF At, IInv, RequestsOK
  <2>3. S \in SUBSET DOMAIN claim /\ S \cap Pending = {} /\ burned \subseteq Jti
    BY <2>2 DEF IInv, RequestsOK, Pending, TypeOK
  <2> HIDE DEF S
  <2> QED BY <2>1, <2>2, <2>3, RevokeStep, RaiseStep
<1> QED
  BY <1>1, <1>2, <1>3, <1>4, <1>5, IssueStep, RotateStep, ArriveStep, LeaveStep,
     PurgeStep, ClockStep
  DEF Next

\* Every state of every behaviour is of the declared shape.
THEOREM TypeCorrect == Spec => []TypeOK
<1>1. IInv => TypeOK
  BY DEF IInv
<1> QED BY <1>1, SafeInit, SafeStep, PTL DEF Spec

\* No interleaving of refreshes, faults, purges and restarts forks a lineage.
THEOREM NeverForks == Spec => []LineageNeverForks
<1>1. IInv => LineageNeverForks
  BY DEF IInv, Sound, LineageNeverForks, NoFork
<1> QED BY <1>1, SafeInit, SafeStep, PTL DEF Spec

\* No later step, crash or uncommitted transaction revives a revoked token.
THEOREM RevocationStays == Spec => []RevocationIsFinal
<1>1. IInv => RevocationIsFinal
  BY DEF IInv, Sound, RevocationIsFinal
<1> QED BY <1>1, SafeInit, SafeStep, PTL DEF Spec

\* A client never holds an unexpired token that a restart would forget.
THEOREM DeliveryIsDurable == Spec => []DeliveredIsDurable
<1>1. IInv => DeliveredIsDurable
  BY DEF IInv, Sound, DeliveredIsDurable, Given
<1> QED BY <1>1, SafeInit, SafeStep, PTL DEF Spec
-----------------------------------------------------------------------------
(* Reuse detection.  The walk of revoke_chain meets no gap only if a row   *)
(* never expires before a row it replaced, which needs a constant TTL.     *)

ConstantTtl == \A s, t \in Ttls : s = t

LEMMA ChainedRevoked ==
    ASSUME NEW T, NEW c, NEW b, NEW n, NEW S, IsTable(T), Chained(T, c, b, n)
    PROVE  Chained(Revoked(T, S), c, b, n)
<1>1. /\ DOMAIN Revoked(T, S) = DOMAIN T
      /\ \A j \in DOMAIN T : Revoked(T, S)[j].next = T[j].next
  BY DEF Revoked
<1> QED BY <1>1 DEF Chained

LEMMA ChainedLater ==
    ASSUME NEW T, NEW c, NEW b, NEW n \in Nat, NEW n2 \in Nat, n <= n2,
           AreClaims(c), Chained(T, c, b, n),
           \A j \in DOMAIN c : c[j].parent # NoJti => c[j].parent \in DOMAIN c,
           DOMAIN T \subseteq DOMAIN c
    PROVE  Chained(T, c, b, n2)
<1>1. \A j \in DOMAIN T : c[j].parent # NoJti => c[c[j].parent].exp \in Nat
  BY DEF AreClaims, Claim
<1>2. ASSUME NEW e \in Nat, e - Zone < n - PurgeGrace
      PROVE  e - Zone < n2 - PurgeGrace
  BY <1>2, TimesAssumption
<1> QED BY <1>1, <1>2 DEF Chained

LEMMA ChainedMinted ==
    ASSUME NEW T, NEW c, NEW c2, NEW b, NEW n, NEW k,
           k \notin DOMAIN c, DOMAIN T \subseteq DOMAIN c,
           \A j \in DOMAIN c : c2[j] = c[j],
           \A j \in DOMAIN c : c[j].parent # NoJti => c[j].parent \in DOMAIN c,
           \A j \in DOMAIN T : T[j].next # NoJti => T[j].next \in DOMAIN c,
           Chained(T, c, b, n)
    PROVE  Chained(T, c2, b, n)
BY DEF Chained

LEMMA ChainedSuperseded ==
    ASSUME NEW T, NEW c, NEW b, NEW n, NEW old, NEW new, NEW t,
           Chained(T, c, b, n), c[new].exp >= c[old].exp
    PROVE  Chained(Superseded(T, old, new, t), c, b, n)
<1>1. /\ DOMAIN Superseded(T, old, new, t) = DOMAIN T
      /\ \A j \in DOMAIN T :
            Superseded(T, old, new, t)[j].next = IF j = old THEN new ELSE T[j].next
  BY DEF Superseded
<1> QED BY <1>1 DEF Chained

LEMMA ChainedInserted ==
    ASSUME NEW T, NEW c, NEW b, NEW n, NEW k, NEW e,
           Chained(T, c, b, n), k \notin DOMAIN T,
           c[k].parent = NoJti \/ c[k].parent \in DOMAIN T, c[k].parent \notin b
    PROVE  Chained(Inserted(T, k, e), c, b, n)
<1>1. /\ DOMAIN Inserted(T, k, e) = DOMAIN T \cup {k}
      /\ \A j \in DOMAIN T : Inserted(T, k, e)[j] = T[j]
      /\ Inserted(T, k, e)[k].next = NoJti
  BY DEF Inserted
<1> QED BY <1>1 DEF Chained

LEMMA ChainedPurged ==
    ASSUME NEW T, NEW c, NEW b, NEW n \in Nat, Chained(T, c, b, n),
           \A j \in DOMAIN T : T[j].exp = c[j].exp - Zone,
           AreClaims(c), DOMAIN T \subseteq DOMAIN c
    PROVE  Chained(Purged(T, n - PurgeGrace), c, b, n)
<1> DEFINE U == Purged(T, n - PurgeGrace)
<1>1. /\ DOMAIN U \subseteq DOMAIN T
      /\ \A j \in DOMAIN U : U[j] = T[j]
  BY DEF Purged
<1>2. \A j \in DOMAIN T : j \notin DOMAIN U => c[j].exp - Zone < n - PurgeGrace
  <2>1. \A j \in DOMAIN T : c[j].exp - Zone \in Int
    BY TimesAssumption DEF AreClaims, Claim
  <2>2. n - PurgeGrace \in Int
    BY TimesAssumption
  <2> QED BY <2>1, <2>2 DEF Purged
<1> HIDE DEF U
<1>3. Chained(U, c, b, n)
  BY <1>1, <1>2 DEF Chained
<1> QED BY <1>3 DEF U

\* The walk from a token presented in time visits only rows that cannot have
\* been purged, so whatever is left of its lineage is visited.
LEMMA ChainedBurned ==
    ASSUME BurnInv, NEW r \in Req, At(r, "burn")
    PROVE  LET walk == Walk(db, req[r].jti) IN
           Chained(db, claim, burned \cup walk, now)
<1> DEFINE a == req[r].jti
           walk == Walk(db, a)
           S == {d \in DOMAIN claim : claim[d].exp >= claim[a].exp}
<1>1. /\ a \in DOMAIN claim /\ a \in Jti /\ claim[a].exp \in Nat
      /\ \A d \in DOMAIN claim : claim[d].exp \in Nat
      /\ IsTable(db) /\ S \in SUBSET Jti /\ now \in Nat
      /\ req[r].since \in Nat
  BY DEF At, BurnInv, IInv, RequestsOK, TypeOK, AreClaims, Claim, Request
<1>2. Closed(db, S)
  <2> SUFFICES ASSUME NEW j \in S, j \in DOMAIN db, db[j].next # NoJti
               PROVE  db[j].next \in S
    BY DEF Closed
  <2>1. db[j].next \in DOMAIN claim
    BY DEF BurnInv, IInv, Sound
  <2>2. claim[db[j].next].exp >= claim[j].exp
    BY DEF BurnInv, Chained
  <2> QED BY <2>1, <2>2, <1>1
<1>3. walk \subseteq S
  <2>1. a \in S
    BY <1>1
  <2> HIDE DEF S, a
  <2> QED BY <2>1, <1>1, <1>2, WalkLeast
<1>4. Closed(db, walk)
  <2> HIDE DEF a
  <2> QED BY <1>1, WalkClosed
<1>5. ASSUME NEW j \in DOMAIN db, claim[j].parent \in walk
      PROVE  j \in walk
  <2> DEFINE p == claim[j].parent
  <2>1. p \in DOMAIN claim /\ claim[p].exp >= claim[a].exp
    BY <1>3, <1>5
  <2>2. claim[a].exp > req[r].since /\ now <= req[r].since + HandlerDelay
    BY DEF BurnInv, TimesOK, YoungOK, At, InServer
  <2>3. ~(claim[p].exp - Zone < now - PurgeGrace)
    <3>1. claim[p].exp \in Nat
      BY <1>1, <2>1
    <3> HIDE DEF p, a
    <3> QED BY <1>1, <2>1, <2>2, <3>1, TimesAssumption, PurgeAssumption
  <2>4. p # NoJti
    BY <2>1, NoJtiAssumption DEF BurnInv, IInv, TypeOK, AreClaims
  <2>5. p \in DOMAIN db
    BY <2>3, <2>4 DEF BurnInv, Chained
  <2>6. db[p].next = j
    BY <2>5 DEF BurnInv, IInv, Sound
  <2>7. j # NoJti
    BY NoJtiAssumption DEF BurnInv, IInv, Sound, IsTable
  <2> QED BY <1>4, <1>5, <2>5, <2>6, <2>7 DEF Closed
<1>6. Chained(db, claim, burned, now)
  BY DEF BurnInv
<1> QED BY <1>5, <1>6 DEF Chained

LEMMA BurnInit == Init => BurnInv
<1> SUFFICES ASSUME Init PROVE BurnInv
  OBVIOUS
<1>1. TimesOK
  BY DEF Init, TimesOK, YoungOK, EmptyTable, Idle, InServer
<1>2. \A T \in {db, disk} : Chained(T, claim, burned, now)
  BY DEF Init, Chained, EmptyTable
<1>3. burned \subseteq dead
  BY DEF Init
<1> QED BY <1>1, <1>2, <1>3, SafeInit DEF BurnInv

\* What the lemmas on chained tables ask of the state.
LEMMA ChainFacts ==
    ASSUME IInv
    PROVE  /\ now \in Nat /\ ttl \in Nat /\ AreClaims(claim)
           /\ \A j \in DOMAIN claim : claim[j].exp \in Nat
           /\ \A j \in DOMAIN claim :
                 claim[j].parent # NoJti => claim[j].parent \in DOMAIN claim
           /\ \A T \in {db, disk} :
                 /\ IsTable(T) /\ DOMAIN T \subseteq DOMAIN claim
                 /\ \A j \in DOMAIN T : T[j].exp = claim[j].exp - Zone
                 /\ \A j \in DOMAIN T : T[j].next # NoJti => T[j].next \in DOMAIN claim
           /\ \A r \in Req : req[r].since \in Nat
BY TimesAssumption DEF IInv, TypeOK, AreClaims, Claim, RequestsOK, Sound, Request

\* Time and claims only grow.
LEMMA GrowthStep ==
    ASSUME IInv, [Next]_vars
    PROVE  /\ now \in Nat /\ now' \in Nat /\ now <= now' /\ ttl \in Nat
           /\ \A j \in DOMAIN claim : claim[j].exp \in Nat
           /\ \/ claim' = claim
              \/ \E k \in Fresh, p \in OptJti : Minted(k, p) /\ now' = now
           /\ \A j \in DOMAIN claim : j \in DOMAIN claim' /\ claim'[j] = claim[j]
<1>1. /\ now \in Nat /\ now' \in Nat /\ now <= now' /\ ttl \in Nat
      /\ \A j \in DOMAIN claim : claim[j].exp \in Nat
  <2>1. now' = now \/ now' = now + 1
    BY DEF Next, vars, Tick, Verify, Issue, Refresh, Logout, IsValidYes, IsValidNo,
       IsSuperseded, RevokeChain, Rotate, Revoke, Deliver, Lose, PurgeExpired, Restart
  <2>2. /\ now \in Nat /\ ttl \in Nat
        /\ \A j \in DOMAIN claim : claim[j].exp \in Nat
    BY ChainFacts
  <2> QED BY <2>1, <2>2
<1>2. \/ claim' = claim
      \/ \E k \in Fresh, p \in OptJti : Minted(k, p) /\ now' = now
  <2>1. ASSUME NEW r \in Req, IsValidYes(r)
        PROVE  \E k \in Fresh, p \in OptJti : Minted(k, p) /\ now' = now
    <3>1. req[r].jti \in OptJti
      BY DEF IInv, TypeOK, Request
    <3> QED BY <2>1, <3>1 DEF IsValidYes
  <2>2. ASSUME NEW r \in Req, Verify(r)
        PROVE  \E k \in Fresh, p \in OptJti : Minted(k, p) /\ now' = now
    BY <2>2 DEF Verify, OptJti
  <2>3. ASSUME NEW r \in Req,
               \/ Issue(r) \/ IsValidNo(r) \/ IsSuperseded(r) \/ RevokeChain(r)
               \/ Rotate(r) \/ Revoke(r) \/ Deliver(r) \/ Lose(r)
               \/ \E j \in Jti : Refresh(r, j) \/ Logout(r, j)
        PROVE  claim' = claim
    BY <2>3 DEF Issue, Refresh, Logout, IsValidNo, IsSuperseded, RevokeChain, Rotate,
       Revoke, Deliver, Lose
  <2>4. CASE Tick \/ Restart \/ PurgeExpired \/ UNCHANGED vars
    BY <2>4 DEF Tick, Restart, PurgeExpired, vars
  <2> QED BY <2>1, <2>2, <2>3, <2>4 DEF Next
<1>3. \A j \in DOMAIN claim : j \in DOMAIN claim' /\ claim'[j] = claim[j]
  BY <1>2 DEF Minted, Fresh
<1> QED BY <1>1, <1>2, <1>3

\* A request that works for a token has just come with it, or has had it before.
LEMMA CarryStep ==
    ASSUME IInv, [Next]_vars
    PROVE  \A r \in Req :
                    \/ req'[r] = req[r]
                    \/ /\ req'[r].pc \notin {"valid", "superseded", "burn", "rotate"}
                    \/ /\ req'[r].since = now /\ req'[r].pc # "rotate"
                       /\ req'[r].jti \in DOMAIN claim /\ claim[req'[r].jti].exp > now
                    \/ /\ req[r].pc \in {"valid", "superseded", "burn", "rotate"}
                       /\ req'[r].jti = req[r].jti /\ req'[r].since = req[r].since
                       /\ req'[r].pc # "rotate" \/ IsValidYes(r)
<1> SUFFICES ASSUME NEW r \in Req, req'[r] # req[r],
                    req'[r].pc \in {"valid", "superseded", "burn", "rotate"}
             PROVE  \/ /\ req'[r].since = now /\ req'[r].pc # "rotate"
                       /\ req'[r].jti \in DOMAIN claim /\ claim[req'[r].jti].exp > now
                    \/ /\ req[r].pc \in {"valid", "superseded", "burn", "rotate"}
                       /\ req'[r].jti = req[r].jti /\ req'[r].since = req[r].since
                       /\ req'[r].pc # "rotate" \/ IsValidYes(r)
  OBVIOUS
<1>1. req \in [Req -> Request] /\ held \subseteq DOMAIN claim
  BY DEF IInv, TypeOK, RequestsOK
<1>2. CASE Tick \/ PurgeExpired \/ UNCHANGED vars \/ Restart
  BY <1>2 DEF Tick, PurgeExpired, vars, Restart, Idle
<1>3. ASSUME NEW q \in Req, Verify(q) \/ Deliver(q) \/ Lose(q) \/ \E j \in Jti : Logout(q, j)
      PROVE  FALSE
  BY <1>1, <1>3 DEF Verify, Logout, Deliver, Lose, Idle
<1>4. ASSUME NEW q \in Req, NEW j \in Jti, Refresh(q, j)
      PROVE  /\ req'[r].since = now /\ req'[r].pc # "rotate"
             /\ req'[r].jti \in DOMAIN claim /\ claim[req'[r].jti].exp > now
  <2>1. /\ j \in DOMAIN claim /\ claim[j].exp > now
        /\ req' = [req EXCEPT ![q] = [pc |-> "valid", jti |-> j, new |-> NoJti,
                                     t |-> now, since |-> now]]
    BY <1>1, <1>4 DEF Refresh
  <2>2. q = r
    BY <1>1, <2>1
  <2> QED BY <1>1, <2>1, <2>2
<1>5. ASSUME NEW q \in Req, IsValidYes(q)
      PROVE  /\ req[r].pc \in {"valid", "superseded", "burn", "rotate"}
             /\ req'[r].jti = req[r].jti /\ req'[r].since = req[r].since
             /\ req'[r].pc # "rotate" \/ IsValidYes(r)
  <2>1. PICK k \in Jti : req' = [req EXCEPT ![q].pc = "rotate", ![q].new = k, ![q].t = now]
    BY <1>5 DEF IsValidYes, Fresh
  <2>2. q = r
    BY <1>1, <2>1
  <2>3. req'[r].jti = req[r].jti /\ req'[r].since = req[r].since
    BY <1>1, <2>1, <2>2 DEF Request
  <2> QED BY <1>5, <2>2, <2>3 DEF IsValidYes, At
<1>6. ASSUME NEW q \in Req,
             \/ Issue(q) \/ IsValidNo(q) \/ IsSuperseded(q)
             \/ RevokeChain(q) \/ Rotate(q) \/ Revoke(q)
      PROVE  /\ req[r].pc \in {"valid", "superseded", "burn", "rotate"}
             /\ req'[r].jti = req[r].jti /\ req'[r].since = req[r].since
             /\ req'[r].pc # "rotate"
  <2>1. PICK pc \in {"ok", "failed", "denied", "superseded", "burn"} :
          /\ Goto(q, pc)
          /\ pc \in {"superseded", "burn"} => req[q].pc \in {"valid", "superseded"}
    BY <1>6 DEF Issue, IsValidNo, IsSuperseded, RevokeChain, Rotate, Revoke, At
  <2>2. /\ \A s \in Req \ {q} : req'[s] = req[s]
        /\ req'[q].pc = pc
        /\ req'[q].jti = req[q].jti /\ req'[q].since = req[q].since
    BY <2>1, GotoFacts DEF Pc, InServer, IInv
  <2> QED BY <2>1, <2>2
<1> QED BY <1>2, <1>3, <1>4, <1>5, <1>6 DEF Next

\* Every step keeps requests young.
LEMMA YoungStep ==
    ASSUME IInv, YoungOK, [Next]_vars
    PROVE  YoungOK'
<1>1. /\ now \in Nat /\ now' \in Nat /\ now <= now'
      /\ \A j \in DOMAIN claim : j \in DOMAIN claim' /\ claim'[j] = claim[j]
  BY GrowthStep
<1>2. \A r \in Req : req'[r].pc \in InServer =>
        \/ now' = now /\ req'[r].since = now
        \/ /\ req[r].pc \in InServer /\ req'[r].since = req[r].since
           /\ now' = now \/ now' <= req[r].since + HandlerDelay
  <2> SUFFICES ASSUME NEW r \in Req, req'[r].pc \in InServer
               PROVE  \/ now' = now /\ req'[r].since = now
                      \/ /\ req[r].pc \in InServer /\ req'[r].since = req[r].since
                         /\ now' = now \/ now' <= req[r].since + HandlerDelay
    OBVIOUS
  <2> USE DEF InServer
  <2>1. CASE Tick
    <3>1. /\ req' = req /\ now < req[r].since + HandlerDelay /\ now' = now + 1
      BY <2>1 DEF Tick
    <3> QED BY <3>1, <1>1, ChainFacts, TimesAssumption
  <2>2. CASE Restart \/ PurgeExpired \/ UNCHANGED vars
    BY <2>2 DEF Restart, PurgeExpired, vars, Idle
  <2>3. ASSUME NEW q \in Req, Verify(q) \/ (\E j \in Jti : Refresh(q, j) \/ Logout(q, j))
        PROVE  \/ now' = now /\ req'[r].since = now
               \/ /\ req[r].pc \in InServer /\ req'[r].since = req[r].since
                  /\ now' = now
    BY <2>3 DEF Verify, Refresh, Logout, IInv, TypeOK
  <2>4. ASSUME NEW q \in Req, NEW pc \in {"ok", "failed", "denied", "superseded", "burn", "rotate"},
               now' = now, req[q].pc \in InServer,
               Goto(q, pc) \/ \E k \in Jti : req' =
                  [req EXCEPT ![q].pc = "rotate", ![q].new = k, ![q].t = now]
        PROVE  /\ req[r].pc \in InServer /\ req'[r].since = req[r].since
               /\ now' = now
    <3>1. req \in [Req -> Request]
      BY DEF IInv, TypeOK
    <3>2. CASE q = r
      <4>1. CASE Goto(q, pc)
        <5>1. pc \in Pc /\ TypeOK
          BY DEF Pc, IInv
        <5>2. req'[q].since = req[q].since
          BY <4>1, <5>1, GotoFacts
        <5> QED BY <2>4, <3>2, <5>2
      <4>2. CASE \E k \in Jti : req' =
                    [req EXCEPT ![q].pc = "rotate", ![q].new = k, ![q].t = now]
        <5>1. PICK k \in Jti : req' =
                [req EXCEPT ![q].pc = "rotate", ![q].new = k, ![q].t = now]
          BY <4>2
        <5>2. req'[q].since = req[q].since
          BY <3>1, <5>1 DEF Request
        <5> QED BY <2>4, <3>2, <5>2
      <4> QED BY <2>4, <4>1, <4>2
    <3>3. CASE q # r
      BY <2>4, <3>1, <3>3 DEF Goto
    <3> QED BY <3>2, <3>3
  <2>5. ASSUME NEW q \in Req,
               \/ Issue(q) \/ IsValidYes(q) \/ IsValidNo(q) \/ IsSuperseded(q)
               \/ RevokeChain(q) \/ Rotate(q) \/ Revoke(q)
        PROVE  /\ req[r].pc \in InServer /\ req'[r].since = req[r].since
               /\ now' = now
    <3>1. now' = now /\ req[q].pc \in InServer
      BY <2>5 DEF Issue, IsValidYes, IsValidNo, IsSuperseded, RevokeChain, Rotate, Revoke, At
    <3>2. CASE IsValidYes(q)
      <4>1. \E k \in Jti : req' = [req EXCEPT ![q].pc = "rotate", ![q].new = k, ![q].t = now]
        BY <3>2 DEF IsValidYes, Fresh
      <4> QED BY <2>4, <3>1, <4>1
    <3>3. CASE ~IsValidYes(q)
      <4>1. \E pc \in {"ok", "failed", "denied", "superseded", "burn", "rotate"} : Goto(q, pc)
        BY <2>5, <3>3 DEF Issue, IsValidNo, IsSuperseded, RevokeChain, Rotate, Revoke
      <4> QED BY <2>4, <3>1, <4>1
    <3> QED BY <3>2, <3>3
  <2>6. ASSUME NEW q \in Req, Deliver(q) \/ Lose(q)
        PROVE  /\ req[r].pc \in InServer /\ req'[r].since = req[r].since
               /\ now' = now
    BY <2>6 DEF Deliver, Lose, IInv, TypeOK, Idle
  <2> QED BY <2>1, <2>2, <2>3, <2>5, <2>6 DEF Next
<1>3. \A r \in Req : req'[r].pc \in InServer => now' <= req'[r].since + HandlerDelay
  <2>1. \A r \in Req : req[r].since \in Nat
    BY ChainFacts
  <2> QED BY <1>1, <1>2, <2>1, TimesAssumption DEF YoungOK
<1>4. \A r \in Req : req'[r].pc \in {"valid", "superseded", "burn", "rotate"}
                         => claim'[req'[r].jti].exp > req'[r].since
  <2>1. \A r \in Req : req[r].pc \in {"valid", "superseded", "burn", "rotate"}
                          => req[r].jti \in DOMAIN claim
    BY DEF IInv, RequestsOK
  <2> QED BY <1>1, CarryStep, <2>1 DEF YoungOK
<1> QED BY <1>3, <1>4 DEF YoungOK

\* Every step keeps requests young and expiries in order.
LEMMA TimesStep ==
    ASSUME ConstantTtl, BurnInv, [Next]_vars, IInv'
    PROVE  TimesOK'
<1>1. ttl' = ttl
  BY DEF ConstantTtl, BurnInv, IInv, TypeOK
<1>2. /\ now \in Nat /\ now' \in Nat /\ now <= now' /\ ttl \in Nat
      /\ \A j \in DOMAIN claim : claim[j].exp \in Nat
      /\ \/ claim' = claim
         \/ \E k \in Fresh, p \in OptJti : Minted(k, p) /\ now' = now
      /\ \A j \in DOMAIN claim : j \in DOMAIN claim' /\ claim'[j] = claim[j]
  BY GrowthStep DEF BurnInv
<1>3. \A j \in DOMAIN claim' : claim'[j].exp <= now' + ttl'
  <2>1. CASE claim' = claim
    BY <2>1, <1>1, <1>2 DEF BurnInv, TimesOK
  <2>2. CASE \E k \in Fresh, p \in OptJti : Minted(k, p) /\ now' = now
    BY <2>2, <1>1, <1>2 DEF BurnInv, TimesOK, Minted
  <2> QED BY <1>2, <2>1, <2>2
<1>4. \A r \in Req : req'[r].pc = "rotate"
                         => claim'[req'[r].new].exp >= claim'[req'[r].jti].exp
  <2> SUFFICES ASSUME NEW r \in Req, req'[r].pc = "rotate"
               PROVE  claim'[req'[r].new].exp >= claim'[req'[r].jti].exp
    OBVIOUS
  <2>1. CASE req'[r] = req[r]
    BY <2>1, <1>2 DEF BurnInv, IInv, RequestsOK, TimesOK
  <2>2. CASE IsValidYes(r) /\ req'[r].jti = req[r].jti
    <3>1. PICK k \in Fresh : /\ Minted(k, req[r].jti)
                             /\ req' = [req EXCEPT ![r].pc = "rotate", ![r].new = k, ![r].t = now]
      BY <2>2 DEF IsValidYes
    <3>2. req'[r].new = k
      BY <3>1 DEF BurnInv, IInv, TypeOK, Request, Fresh
    <3>3. claim'[k].exp = now + ttl
      BY <3>1 DEF Minted
    <3>4. req[r].jti \in DOMAIN claim
      BY <2>2 DEF IsValidYes, At, BurnInv, IInv, RequestsOK
    <3>5. claim[req[r].jti].exp <= now + ttl
      BY <3>4 DEF BurnInv, TimesOK
    <3> QED BY <1>2, <2>2, <3>2, <3>3, <3>4, <3>5
  <2> QED BY CarryStep, <2>1, <2>2 DEF BurnInv
<1>5. YoungOK'
  BY YoungStep DEF BurnInv, TimesOK
<1> QED BY <1>3, <1>4, <1>5 DEF TimesOK

\* Every step keeps both tables chained.
LEMMA ChainStep ==
    ASSUME BurnInv, [Next]_vars, IInv'
    PROVE  /\ burned' \subseteq dead'
           /\ Chained(db, claim, burned, now)'
           /\ Chained(disk, claim, burned, now)'
<1>1. /\ burned \subseteq dead
      /\ Chained(db, claim, burned, now) /\ Chained(disk, claim, burned, now)
  BY DEF BurnInv
<1>2. CASE Tick \/ Restart \/ UNCHANGED vars
  <2>1. /\ now' \in Nat /\ now <= now' /\ UNCHANGED <<claim, burned, dead, disk>>
        /\ db' \in {db, disk}
    BY <1>2, ChainFacts DEF Tick, Restart, vars, BurnInv
  <2>2. \A T \in {db, disk} : Chained(T, claim, burned, now')
    BY <1>1, <2>1, ChainFacts, ChainedLater DEF BurnInv
  <2> QED BY <1>1, <2>1, <2>2
<1>3. CASE PurgeExpired
  <2> DEFINE U == Purged(db, now - PurgeGrace)
  <2>1. /\ db' \in {U, db, disk} /\ disk' \in {U, disk}
        /\ UNCHANGED <<now, claim, burned, dead>>
    BY <1>3 DEF PurgeExpired, Commit, Raise
  <2>2. Chained(U, claim, burned, now)
    BY <1>1, ChainFacts, ChainedPurged DEF BurnInv
  <2> HIDE DEF U
  <2> QED BY <1>1, <2>1, <2>2
<1>4. ASSUME NEW r \in Req, Verify(r) \/ IsValidYes(r)
      PROVE  /\ burned' \subseteq dead'
             /\ Chained(db, claim, burned, now)'
             /\ Chained(disk, claim, burned, now)'
  <2>1. /\ UNCHANGED <<now, db, disk, burned, dead>>
        /\ \E k \in Fresh : \E p : Minted(k, p)
    BY <1>4 DEF Verify, IsValidYes
  <2>2. PICK k \in Fresh : \A j \in DOMAIN claim : claim'[j] = claim[j]
    BY <2>1 DEF Minted, Fresh
  <2>3. k \notin DOMAIN claim
    BY DEF Fresh
  <2>4. \A T \in {db, disk} : Chained(T, claim', burned, now)
    BY <1>1, <2>2, <2>3, ChainFacts, ChainedMinted DEF BurnInv
  <2> QED BY <1>1, <2>1, <2>4
<1>5. ASSUME NEW r \in Req, Issue(r)
      PROVE  /\ burned' \subseteq dead'
             /\ Chained(db, claim, burned, now)'
             /\ Chained(disk, claim, burned, now)'
  <2> DEFINE U == IssueInsert(r)
  <2>1. /\ db' \in {U, db, disk} /\ disk' \in {U, disk}
        /\ UNCHANGED <<now, claim, burned, dead>>
    BY <1>5 DEF Issue, Commit, Raise
  <2>2. /\ req[r].new \notin DOMAIN db /\ claim[req[r].new].parent = NoJti
        /\ NoJti \notin burned
    BY <1>5, NoJtiAssumption
    DEF Issue, At, BurnInv, IInv, RequestsOK, Sound, Pending, TypeOK
  <2>3. Chained(U, claim, burned, now)
    BY <1>1, <2>2, ChainedInserted DEF IssueInsert
  <2> HIDE DEF U
  <2> QED BY <1>1, <2>1, <2>3
<1>6. ASSUME NEW r \in Req, Rotate(r)
      PROVE  /\ burned' \subseteq dead'
             /\ Chained(db, claim, burned, now)'
             /\ Chained(disk, claim, burned, now)'
  <2> DEFINE k == req[r].new
             old == req[r].jti
             U == RotateUpdate(r)
             V == RotateInsert(r)
  <2>1. UNCHANGED <<now, claim, burned, dead>>
    BY <1>6 DEF Rotate
  <2>2. CASE ~Rotatable(db, old, req[r].t)
    <3>1. UNCHANGED <<db, disk>>
      BY <1>6, <2>2 DEF Rotate
    <3> QED BY <1>1, <2>1, <3>1
  <2>3. CASE Rotatable(db, old, req[r].t)
    <3>1. db' \in {U, V, db, disk} /\ disk' \in {V, disk}
      BY <1>6, <2>3 DEF Rotate, Commit, Raise
    <3>2. /\ k \notin DOMAIN db /\ claim[k].parent = old
          /\ claim[k].exp >= claim[old].exp
      BY <1>6 DEF Rotate, At, BurnInv, IInv, RequestsOK, Sound, Pending, TimesOK
    <3>3. old \in DOMAIN db /\ old \notin burned
      BY <1>1, <2>3 DEF Rotatable, BurnInv, IInv, Sound
    <3>4. Chained(U, claim, burned, now)
      BY <1>1, <3>2, ChainedSuperseded DEF RotateUpdate
    <3>5. DOMAIN U = DOMAIN db
      BY DEF RotateUpdate, Superseded
    <3>6. Chained(V, claim, burned, now)
      <4>1. Chained(Inserted(U, k, StoredExp(k)), claim, burned, now)
        <5> HIDE DEF U, k, old
        <5> QED BY <3>2, <3>3, <3>4, <3>5, ChainedInserted
      <4> QED BY <4>1 DEF RotateInsert
    <3> HIDE DEF U, V
    <3> QED BY <1>1, <2>1, <3>1, <3>4, <3>6
  <2> QED BY <2>2, <2>3
<1>7. ASSUME NEW r \in Req, RevokeChain(r)
      PROVE  /\ burned' \subseteq dead'
             /\ Chained(db, claim, burned, now)'
             /\ Chained(disk, claim, burned, now)'
  <2> DEFINE walk == Walk(db, req[r].jti)
  <2>1. /\ At(r, "burn") /\ UNCHANGED <<now, claim>>
        /\ \/ /\ Commit(Revoked(db, walk)) /\ burned' = burned \cup walk
              /\ dead' = dead \cup walk
           \/ /\ db' \in {db, disk} \/ \E S : db' = Revoked(db, S)
              /\ UNCHANGED <<disk, burned, dead>>
    BY <1>7 DEF RevokeChain, Raise
  <2>2. Chained(db, claim, burned \cup walk, now)
    BY <2>1, ChainedBurned
  <2> HIDE DEF walk
  <2>3. IsTable(db)
    BY DEF BurnInv, IInv, TypeOK
  <2>4. CASE /\ Commit(Revoked(db, walk)) /\ burned' = burned \cup walk
             /\ dead' = dead \cup walk
    <3>1. Chained(Revoked(db, walk), claim, burned \cup walk, now)
      BY <2>2, <2>3, ChainedRevoked
    <3> QED BY <1>1, <2>1, <2>4, <3>1 DEF Commit
  <2>5. CASE /\ db' \in {db, disk} \/ \E S : db' = Revoked(db, S)
             /\ UNCHANGED <<disk, burned, dead>>
    <3>1. \A S : Chained(Revoked(db, S), claim, burned, now)
      BY <1>1, <2>3, ChainedRevoked
    <3> QED BY <1>1, <2>1, <2>5, <3>1
  <2> QED BY <2>1, <2>4, <2>5
<1>8. ASSUME NEW r \in Req, Revoke(r)
      PROVE  /\ burned' \subseteq dead'
             /\ Chained(db, claim, burned, now)'
             /\ Chained(disk, claim, burned, now)'
  <2> DEFINE U == Revoked(db, {req[r].jti})
  <2>1. /\ db' \in {U, db, disk} /\ disk' \in {U, disk}
        /\ UNCHANGED <<now, claim, burned>> /\ dead \subseteq dead'
    BY <1>8 DEF Revoke, Commit, Raise
  <2>2. Chained(U, claim, burned, now)
    BY <1>1, ChainedRevoked DEF BurnInv, IInv, TypeOK
  <2> HIDE DEF U
  <2> QED BY <1>1, <2>1, <2>2
<1>9. ASSUME NEW r \in Req,
             \/ IsValidNo(r) \/ IsSuperseded(r) \/ Deliver(r) \/ Lose(r)
             \/ \E j \in Jti : Refresh(r, j) \/ Logout(r, j)
      PROVE  UNCHANGED <<now, claim, burned, dead, db, disk>>
  BY <1>9 DEF IsValidNo, IsSuperseded, Deliver, Lose, Refresh, Logout
<1> QED
  BY <1>1, <1>2, <1>3, <1>4, <1>5, <1>6, <1>7, <1>8, <1>9 DEF Next

\* With a constant TTL, burning a chain reaches every descendant there is and
\* none that comes later is acceptable: a rotation in flight finds its token
\* revoked, a purged row cannot have a live one before it, and a rollback or
\* a restart never returns to a table that lacks the revocations.
THEOREM BurnIsComplete == ConstantTtl => (Spec => []BurnReachesHeirs)
<1> SUFFICES ASSUME ConstantTtl PROVE Spec => []BurnReachesHeirs
  OBVIOUS
<1>1. BurnInv /\ [Next]_vars => BurnInv'
  <2> SUFFICES ASSUME BurnInv, [Next]_vars PROVE BurnInv'
    OBVIOUS
  <2>1. IInv'
    BY SafeStep DEF BurnInv
  <2> QED BY <2>1, TimesStep, ChainStep DEF BurnInv
<1>2. BurnInv => BurnReachesHeirs
  BY DEF BurnInv, Chained, IInv, Sound, BurnReachesHeirs, Acceptable
<1> QED BY <1>1, <1>2, BurnInit, PTL DEF Spec
-----------------------------------------------------------------------------
(* When a chain is burned.  Between the answer of is_valid and the burn    *)
(* other requests run, so what made the token unacceptable has to outlast  *)
(* them: rows do not come back, and only a fault can take a rotation away. *)

\* Why is_valid refused a row at time t.
Refused(row, t) ==
    \/ row.revoked = 1
    \/ row.exp <= t
    \/ row.next # NoJti /\ t - row.at >= Grace

ReuseInv ==
    /\ IInv
    /\ YoungOK
    /\ \A r \in Req : At(r, "superseded") /\ req[r].jti \in DOMAIN db
                         => Refused(db[req[r].jti], req[r].t)
    /\ \A r \in Req : At(r, "burn") =>
          /\ req[r].jti \in DOMAIN db /\ db[req[r].jti].next # NoJti
          /\ Refused(db[req[r].jti], req[r].t)

\* Without faults, what a step does to the table of the connection.
LEMMA TableStep ==
    ASSUME ~Faulty, IInv, [Next]_vars
    PROVE  \/ db' = db
           \/ \E S : db' = Revoked(db, S)
           \/ \E q \in Req : req[q].pc = "issue" /\ db' = IssueInsert(q)
           \/ \E q \in Req : /\ req[q].pc = "rotate" /\ db' = RotateInsert(q)
                             /\ Rotatable(db, req[q].jti, req[q].t)
           \/ db' = Purged(db, now - PurgeGrace)
           \/ \A q \in Req : req'[q] = Idle
<1> USE DEF Commit, Raise
<1>1. ASSUME NEW q \in Req, Issue(q)
      PROVE  req[q].pc = "issue" /\ db' = IssueInsert(q)
  BY <1>1 DEF Issue, At
<1>2. ASSUME NEW q \in Req, Rotate(q)
      PROVE  \/ db' = db
             \/ /\ req[q].pc = "rotate" /\ db' = RotateInsert(q)
                /\ Rotatable(db, req[q].jti, req[q].t)
  BY <1>2 DEF Rotate, At
<1>3. ASSUME NEW q \in Req, RevokeChain(q) \/ Revoke(q)
      PROVE  \E S : db' = Revoked(db, S)
  BY <1>3 DEF RevokeChain, Revoke
<1>4. ASSUME NEW q \in Req,
             \/ Verify(q) \/ IsValidYes(q) \/ IsValidNo(q) \/ IsSuperseded(q)
             \/ Deliver(q) \/ Lose(q) \/ \E j \in Jti : Refresh(q, j) \/ Logout(q, j)
      PROVE  db' = db
  BY <1>4 DEF Verify, IsValidYes, IsValidNo, IsSuperseded, Deliver, Lose, Refresh, Logout
<1>5. CASE PurgeExpired
  BY <1>5 DEF PurgeExpired
<1>6. CASE Restart
  BY <1>6 DEF Restart
<1>7. CASE Tick \/ UNCHANGED vars
  BY <1>7 DEF Tick, vars
<1> QED BY <1>1, <1>2, <1>3, <1>4, <1>5, <1>6, <1>7 DEF Next

\* The row of a token that a request works for neither comes nor goes, and
\* stays refused and superseded if it was.
LEMMA RowStays ==
    ASSUME ~Faulty, IInv, YoungOK, [Next]_vars,
           NEW r \in Req, req[r].pc \in {"valid", "superseded", "burn"}, req'[r] # Idle,
           NEW t \in Nat
    PROVE  LET j == req[r].jti IN
           /\ j \in DOMAIN db' <=> j \in DOMAIN db
           /\ j \in DOMAIN db /\ db[j].next # NoJti => db'[j].next # NoJti
           /\ j \in DOMAIN db /\ Refused(db[j], t) => Refused(db'[j], t)
<1> DEFINE j == req[r].jti
<1>1. /\ j \in held /\ j \in DOMAIN claim /\ j \in Jti
      /\ claim[j].exp \in Nat /\ req[r].since \in Nat /\ now \in Nat
  BY DEF IInv, RequestsOK, TypeOK, AreClaims, Claim, Request
<1>2. j \in DOMAIN db => db[j].exp = claim[j].exp - Zone
  BY DEF IInv, Sound
<1>3. now <= req[r].since + HandlerDelay /\ claim[j].exp > req[r].since
  BY DEF YoungOK, InServer
<1>4. \A q \in Req : req[q].pc \in {"issue", "rotate"} => req[q].new # j /\ req[q].new # NoJti
  BY <1>1, NoJtiAssumption DEF IInv, RequestsOK, TypeOK, AreClaims
<1> HIDE DEF j
<1>5. CASE db' = db
  BY <1>5 DEF j
<1>6. ASSUME NEW S, db' = Revoked(db, S)
      PROVE  /\ j \in DOMAIN db' <=> j \in DOMAIN db
             /\ j \in DOMAIN db /\ db[j].next # NoJti => db'[j].next # NoJti
             /\ j \in DOMAIN db /\ Refused(db[j], t) => Refused(db'[j], t)
  BY <1>6 DEF Revoked, Refused
<1>7. ASSUME NEW q \in Req, req[q].pc = "issue", db' = IssueInsert(q)
      PROVE  /\ j \in DOMAIN db' <=> j \in DOMAIN db
             /\ j \in DOMAIN db => db'[j] = db[j]
  BY <1>4, <1>7 DEF IssueInsert, Inserted
<1>8. ASSUME NEW q \in Req, req[q].pc = "rotate", db' = RotateInsert(q),
             Rotatable(db, req[q].jti, req[q].t)
      PROVE  /\ j \in DOMAIN db' <=> j \in DOMAIN db
             /\ j \in DOMAIN db /\ db[j].next # NoJti => db'[j].next # NoJti
             /\ j \in DOMAIN db /\ Refused(db[j], t) => Refused(db'[j], t)
  <2> DEFINE U == RotateUpdate(q)
  <2>1. /\ DOMAIN U = DOMAIN db
        /\ j \in DOMAIN db => IF j = req[q].jti
                              THEN /\ U[j].revoked = db[j].revoked /\ U[j].exp = db[j].exp
                                   /\ U[j].next = req[q].new
                              ELSE U[j] = [exp |-> db[j].exp, revoked |-> db[j].revoked,
                                           next |-> db[j].next, at |-> db[j].at]
    BY DEF RotateUpdate, Superseded
  <2>2. /\ DOMAIN db' = DOMAIN db \cup {req[q].new}
        /\ j \in DOMAIN db => db'[j] = U[j]
    BY <1>4, <1>8, <2>1 DEF RotateInsert, Inserted
  <2>3. j = req[q].jti => db[j].revoked # 1 /\ db[j].next = NoJti
    BY <1>8 DEF Rotatable
  <2> HIDE DEF U
  <2> QED BY <1>4, <1>8, <2>1, <2>2, <2>3 DEF Refused
<1>9. CASE db' = Purged(db, now - PurgeGrace)
  <2>1. claim[j].exp - Zone >= now - PurgeGrace
    BY <1>1, <1>3, TimesAssumption, PurgeAssumption
  <2> QED BY <1>2, <1>9, <2>1 DEF Purged, j
<1>10. ~ \A q \in Req : req'[q] = Idle
  OBVIOUS
<1> QED BY <1>5, <1>6, <1>7, <1>8, <1>9, <1>10, TableStep DEF j

\* Where a request that is about to burn a chain comes from.
LEMMA BurnPathStep ==
    ASSUME IInv, [Next]_vars, NEW r \in Req, req'[r].pc \in {"superseded", "burn"}
    PROVE  /\ req[r].pc \in {"valid", "superseded", "burn"} /\ req'[r] # Idle
           /\ req'[r].jti = req[r].jti /\ req'[r].t = req[r].t
           /\ \/ req'[r].pc = req[r].pc
              \/ /\ db' = db /\ req'[r].pc = "superseded" /\ req[r].pc = "valid"
                 /\ ~Acceptable(db, req[r].jti, req[r].t)
              \/ /\ db' = db /\ req'[r].pc = "burn" /\ req[r].pc = "superseded"
                 /\ req[r].jti \in DOMAIN db /\ db[req[r].jti].next # NoJti
<1>1. req \in [Req -> Request]
  BY DEF IInv, TypeOK
<1>2. req'[r] # Idle
  BY DEF Idle
<1>3. CASE Tick \/ PurgeExpired \/ UNCHANGED vars \/ Restart
  BY <1>1, <1>2, <1>3 DEF Tick, PurgeExpired, vars, Restart
<1>4. ASSUME NEW q \in Req, NEW pc \in Pc, Goto(q, pc)
      PROVE  /\ \A s \in Req \ {q} : req'[s] = req[s]
             /\ req'[q].pc = pc /\ req'[q].jti = req[q].jti /\ req'[q].t = req[q].t
  BY <1>1, <1>4 DEF Goto, Request
<1>5. ASSUME NEW q \in Req, q # r,
             \/ Verify(q) \/ Issue(q) \/ IsValidYes(q) \/ IsValidNo(q) \/ IsSuperseded(q)
             \/ RevokeChain(q) \/ Rotate(q) \/ Revoke(q) \/ Deliver(q) \/ Lose(q)
             \/ \E j \in Jti : Refresh(q, j) \/ Logout(q, j)
      PROVE  req'[r] = req[r]
  BY <1>1, <1>5 DEF Verify, Issue, IsValidYes, IsValidNo, IsSuperseded, RevokeChain, Rotate,
     Revoke, Deliver, Lose, Refresh, Logout, Goto
<1>6. CASE Verify(r) \/ Deliver(r) \/ Lose(r) \/ \E j \in Jti : Refresh(r, j) \/ Logout(r, j)
  BY <1>1, <1>2, <1>6 DEF Verify, Deliver, Lose, Refresh, Logout
<1>7. CASE IsValidYes(r)
  <2>1. PICK k \in Jti : req' = [req EXCEPT ![r].pc = "rotate", ![r].new = k, ![r].t = now]
    BY <1>7 DEF IsValidYes, Fresh
  <2>2. req'[r].pc = "rotate"
    BY <1>1, <2>1 DEF Request
  <2> QED BY <2>2
<1>8. CASE Issue(r) \/ RevokeChain(r) \/ Rotate(r) \/ Revoke(r)
  <2>1. \E pc \in {"ok", "failed", "denied"} : Goto(r, pc)
    BY <1>8 DEF Issue, RevokeChain, Rotate, Revoke
  <2> QED BY <1>4, <2>1 DEF Pc
<1>9. CASE IsValidNo(r)
  <2>1. Goto(r, "superseded") /\ "superseded" \in Pc
    BY <1>9 DEF IsValidNo, Pc, InServer
  <2> QED BY <1>2, <1>4, <1>9, <2>1 DEF IsValidNo, At
<1>10. CASE IsSuperseded(r)
  <2>1. PICK pc \in {"burn", "denied"} :
           /\ Goto(r, pc)
           /\ pc = "burn" => req[r].jti \in DOMAIN db /\ db[req[r].jti].next # NoJti
    BY <1>10 DEF IsSuperseded
  <2>2. pc \in Pc
    BY DEF Pc, InServer
  <2> QED BY <1>2, <1>4, <1>10, <2>1, <2>2 DEF IsSuperseded, At
<1> QED BY <1>2, <1>3, <1>5, <1>6, <1>7, <1>8, <1>9, <1>10 DEF Next

LEMMA ReuseInit == Init => ReuseInv
BY SafeInit DEF Init, ReuseInv, YoungOK, InServer, At, Idle

LEMMA ReuseStep == ~Faulty /\ ReuseInv /\ [Next]_vars => ReuseInv'
<1> SUFFICES ASSUME ~Faulty, ReuseInv, [Next]_vars PROVE ReuseInv'
  OBVIOUS
<1>1. IInv' /\ YoungOK'
  BY SafeStep, YoungStep DEF ReuseInv
<1>2. ASSUME NEW r \in Req, req'[r].pc \in {"superseded", "burn"}
      PROVE  /\ req'[r].jti \in DOMAIN db' => Refused(db'[req'[r].jti], req'[r].t)
             /\ req'[r].pc = "burn" =>
                   req'[r].jti \in DOMAIN db' /\ db'[req'[r].jti].next # NoJti
  <2> DEFINE j == req[r].jti
  <2>1. /\ req[r].pc \in {"valid", "superseded", "burn"} /\ req'[r] # Idle
        /\ req'[r].jti = j /\ req'[r].t = req[r].t
        /\ \/ req'[r].pc = req[r].pc
           \/ /\ db' = db /\ req'[r].pc = "superseded" /\ req[r].pc = "valid"
              /\ ~Acceptable(db, j, req[r].t)
           \/ /\ db' = db /\ req'[r].pc = "burn" /\ req[r].pc = "superseded"
              /\ j \in DOMAIN db /\ db[j].next # NoJti
    BY <1>2, BurnPathStep DEF ReuseInv
  <2>2. req[r].t \in Nat
    BY DEF ReuseInv, IInv, TypeOK, Request
  <2>3. /\ j \in DOMAIN db' <=> j \in DOMAIN db
        /\ j \in DOMAIN db /\ db[j].next # NoJti => db'[j].next # NoJti
        /\ j \in DOMAIN db /\ Refused(db[j], req[r].t) => Refused(db'[j], req[r].t)
    BY <2>1, <2>2, RowStays DEF ReuseInv
  <2>4. j \in DOMAIN db /\ ~Acceptable(db, j, req[r].t) => Refused(db[j], req[r].t)
    <3>1. j \in DOMAIN db => db[j] \in Row
      BY DEF ReuseInv, IInv, TypeOK, IsTable
    <3> QED BY <2>2, <3>1, TimesAssumption DEF Acceptable, Refused, Row
  <2> HIDE DEF j
  <2>5. /\ req[r].pc = "superseded" /\ j \in DOMAIN db => Refused(db[j], req[r].t)
        /\ req[r].pc = "burn" => /\ j \in DOMAIN db /\ db[j].next # NoJti
                                 /\ Refused(db[j], req[r].t)
    BY DEF ReuseInv, At, j
  <2> QED BY <1>2, <2>1, <2>3, <2>4, <2>5
<1> QED BY <1>1, <1>2 DEF ReuseInv, At

\* As long as no statement fails, the chain is burned only because of a token
\* that had been superseded a grace window before it was presented, or was
\* revoked or expired then: no rotation, purge or restart between the checks
\* and the burn makes a race inside the window look like reuse.
THEOREM BurnsOnReuse == ~Faulty => (Spec => BurnOnlyOnReuse)
<1> SUFFICES ASSUME ~Faulty PROVE Spec => BurnOnlyOnReuse
  OBVIOUS
<1>1. ReuseInv /\ [Next]_vars =>
        [burned' # burned =>
           \E r \in Req : LET row == db[req[r].jti] IN
              /\ At(r, "burn")
              /\ req[r].jti \in burned' /\ row.next # NoJti
              /\ \/ req[r].t - row.at >= Grace
                 \/ row.revoked = 1
                 \/ row.exp <= req[r].t]_vars
  <2> SUFFICES ASSUME ReuseInv, [Next]_vars, burned' # burned
               PROVE  \E r \in Req : LET row == db[req[r].jti] IN
                        /\ At(r, "burn")
                        /\ req[r].jti \in burned' /\ row.next # NoJti
                        /\ \/ req[r].t - row.at >= Grace
                           \/ row.revoked = 1
                           \/ row.exp <= req[r].t
    OBVIOUS
  <2>1. PICK r \in Req : RevokeChain(r)
    BY DEF Next, vars, Verify, Issue, Refresh, Logout, IsValidYes, IsValidNo, IsSuperseded,
       Rotate, Revoke, Deliver, Lose, PurgeExpired, Restart, Tick
  <2>2. At(r, "burn") /\ burned' = burned \cup Walk(db, req[r].jti)
    BY <2>1 DEF RevokeChain
  <2>3. req[r].jti \in Jti /\ IsTable(db)
    BY <2>2 DEF ReuseInv, IInv, TypeOK, RequestsOK, At
  <2>4. req[r].jti \in burned'
    BY <2>2, <2>3, WalkClosed
  <2> QED BY <2>2, <2>4 DEF ReuseInv, Refused
<1> QED BY <1>1, ReuseInit, ReuseStep, PTL DEF Spec, BurnOnlyOnReuse
-----------------------------------------------------------------------------
(* The browser.                                                            *)


\* A page that waits for an answer waits for a request it made, and a refresh
\* presents a token.
Consistent(s) ==
    /\ s.pc \in {"refreshing", "logging"} => s.req \in Req
    /\ s.pc \in {"sending", "refreshing"} => s.jti \in Jti

Waits == \A t \in Tab : Consistent(tab[t])

ClientOK ==
    /\ stored \in OptJti /\ access \in BOOLEAN
    /\ tab \in [Tab -> TabState]
    /\ lost \subseteq Jti /\ revoking \subseteq Jti
    /\ Waits

\* The handlers a page may start or end, as steps of the store's specification.
LEMMA HandlerStep ==
    ASSUME TypeOK, NEW r \in Req
    PROVE  /\ Verify(r) => Next
           /\ Deliver(r) => Next
           /\ Lose(r) => Next
           /\ \A j : Refresh(r, j) \/ Logout(r, j) => Next
<1>1. \A j : Refresh(r, j) \/ Logout(r, j) => j \in Jti
  BY DEF Refresh, Logout, TypeOK
<1>q. QED BY <1>1 DEF Next

\* A step of a tab either leaves the server alone or is one of its handlers.
LEMMA StepOfTheServer ==
    ASSUME TypeOK, ClientOK, BrowserNext
    PROVE  [Next]_vars
<1> USE DEF server
<1>1. ASSUME NEW t \in Tab, Load(t) \/ Unauthorized(t) \/ ExpiredAtServer(t) \/ Retry(t)
      PROVE  [Next]_vars
  BY <1>1 DEF Load, Unauthorized, ExpiredAtServer, Retry
<1>2. ASSUME NEW t \in Tab, Login(t) \/ SendRefresh(t) \/ LogOut(t) PROVE [Next]_vars
  BY <1>2, HandlerStep DEF Login, SendRefresh, LogOut
<1>3. ASSUME NEW t \in Tab, TabAt(t, "refreshing") \/ TabAt(t, "logging")
      PROVE  tab[t].req \in Req
  BY <1>3 DEF ClientOK, Waits, Consistent, TabAt
<1>4. ASSUME NEW t \in Tab, LoggedIn(t) \/ Refreshed(t) \/ Rejected(t) PROVE [Next]_vars
  BY <1>3, <1>4, HandlerStep DEF LoggedIn, Refreshed, Rejected
<1>5. ASSUME NEW t \in Tab, LoginFails(t) \/ NetworkError(t) PROVE [Next]_vars
  BY <1>3, <1>5, HandlerStep DEF LoginFails, NetworkError
<1>6. CASE Handle \/ Unread \/ Background \/ Pass
  BY <1>6 DEF Handle, Unread, Background, Pass, Next
<1>q. QED BY <1>1, <1>2, <1>4, <1>5, <1>6 DEF BrowserNext

\* The states a page passes through are well formed.
LEMMA TabStep ==
    ASSUME ClientOK, NEW t \in Tab, NEW s \in TabState, Consistent(s), Becomes(t, s)
    PROVE  tab' \in [Tab -> TabState] /\ Waits'
BY DEF ClientOK, Waits, Becomes

LEMMA ShownStates ==
    ASSUME NEW pc \in {"prompt", "idle", "retrying"}
    PROVE  Shows(pc) \in TabState /\ Consistent(Shows(pc))
BY DEF Shows, TabState, OptJti, Consistent

LEMMA ForsakenTokens ==
    ASSUME ClientOK, NEW t \in Tab
    PROVE  Forsaken(t) \subseteq Jti
BY DEF Forsaken, ClientOK, Waits, Consistent, TabAt

LEMMA ClientStep ==
    ASSUME TypeOK, TypeOK', ClientOK, [BrowserNext]_allVars
    PROVE  ClientOK'
<1>1. ASSUME NEW t \in Tab, NEW pc \in {"prompt", "idle", "retrying"}, Becomes(t, Shows(pc)),
             stored' \in OptJti, access' \in BOOLEAN,
             lost' \subseteq lost \cup Forsaken(t), revoking' \subseteq revoking \cup ({stored} \ {NoJti})
      PROVE  ClientOK'
  <2>1. lost' \subseteq Jti /\ revoking' \subseteq Jti
    BY <1>1, ForsakenTokens DEF ClientOK, OptJti
  <2>2. tab' \in [Tab -> TabState] /\ Waits'
    BY <1>1, TabStep, ShownStates
  <2>q. QED BY <1>1, <2>1, <2>2 DEF ClientOK
<1>2. ASSUME NEW t \in Tab, LoggedIn(t) \/ Refreshed(t) PROVE ClientOK'
  <2>1. stored' \in OptJti
    BY <1>2 DEF LoggedIn, Refreshed, Keep, TypeOK, Request, ClientOK, Waits, Consistent, TabAt
  <2>q. QED BY <1>1, <1>2, <2>1 DEF LoggedIn, Refreshed, Keep
<1>3. ASSUME NEW t \in Tab,
             Load(t) \/ LoginFails(t) \/ ExpiredAtServer(t) \/ NetworkError(t)
               \/ Rejected(t) \/ Retry(t) \/ LogOut(t)
      PROVE  ClientOK'
  <2>1. stored' \in OptJti /\ access' \in BOOLEAN
    BY <1>3 DEF Load, LoginFails, ExpiredAtServer, NetworkError, Rejected, Retry, LogOut,
       Clear, ClearAccess, ClientOK, OptJti
  <2>2. lost' \subseteq lost \cup Forsaken(t) /\ revoking' \subseteq revoking \cup ({stored} \ {NoJti})
    BY <1>3 DEF Load, LoginFails, ExpiredAtServer, NetworkError, Rejected, Retry, LogOut
  <2>3. \E pc \in {"prompt", "idle", "retrying"} : Becomes(t, Shows(pc))
    BY <1>3 DEF Load, LoginFails, ExpiredAtServer, NetworkError, Rejected, Retry, LogOut
  <2>q. QED BY <1>1, <2>1, <2>2, <2>3
<1>4. ASSUME NEW t \in Tab, Login(t) PROVE ClientOK'
  <2>1. PICK r \in Req : Becomes(t, [pc |-> "logging", jti |-> NoJti, req |-> r, since |-> 0])
    BY <1>4 DEF Login
  <2> DEFINE s == [pc |-> "logging", jti |-> NoJti, req |-> r, since |-> 0]
  <2>2. s \in TabState /\ Consistent(s)
    BY DEF TabState, OptJti, Consistent
  <2>3. tab' \in [Tab -> TabState] /\ Waits'
    BY <2>1, <2>2, TabStep
  <2>q. QED BY <1>4, <2>3 DEF Login, ClientOK
<1>5. ASSUME NEW t \in Tab, Unauthorized(t) PROVE ClientOK'
  <2>1. CASE stored = NoJti
    BY <1>1, <1>5, <2>1 DEF Unauthorized, Clear, OptJti
  <2>2. CASE stored # NoJti
    <3> DEFINE s == [pc |-> "sending", jti |-> stored, req |-> NoReq, since |-> now]
    <3>1. s \in TabState /\ Consistent(s)
      BY <2>2 DEF TabState, OptJti, Consistent, ClientOK, TypeOK
    <3>2. Becomes(t, s) /\ UNCHANGED <<stored, access, lost, revoking>>
      BY <1>5, <2>2 DEF Unauthorized
    <3>3. tab' \in [Tab -> TabState] /\ Waits'
      BY <3>1, <3>2, TabStep
    <3>q. QED BY <3>2, <3>3 DEF ClientOK
  <2>q. QED BY <2>1, <2>2
<1>6. ASSUME NEW t \in Tab, SendRefresh(t) PROVE ClientOK'
  <2>1. PICK r \in Req : tab' = [tab EXCEPT ![t].pc = "refreshing", ![t].req = r]
    BY <1>6 DEF SendRefresh
  <2> DEFINE s == [tab[t] EXCEPT !.pc = "refreshing", !.req = r]
  <2>2. tab[t] \in TabState /\ tab[t].jti \in Jti
    BY <1>6 DEF SendRefresh, ClientOK, Waits, Consistent, TabAt
  <2>3. s \in TabState /\ Consistent(s)
    BY <2>2 DEF TabState, Consistent
  <2>4. Becomes(t, s)
    BY <2>1, <2>2 DEF Becomes, ClientOK, TabState
  <2>5. tab' \in [Tab -> TabState] /\ Waits'
    BY <2>3, <2>4, TabStep
  <2>q. QED BY <1>6, <2>5 DEF SendRefresh, ClientOK
<1>7. CASE Handle \/ Unread \/ Background \/ Pass \/ UNCHANGED allVars
  BY <1>7 DEF Handle, Unread, Background, Pass, allVars, browser, ClientOK, Waits
<1>q. QED BY <1>2, <1>3, <1>4, <1>5, <1>6, <1>7 DEF BrowserNext

LEMMA ClientStarts == BrowserInit => ClientOK
BY ShownStates DEF BrowserInit, ClientInit, ClientOK, OptJti, Waits

\* The browser and its server together keep the invariant of the server alone.
LEMMA BrowserInvariant == BrowserSpec => [](IInv /\ ClientOK)
<1>1. BrowserInit => IInv /\ ClientOK
  BY SafeInit, ClientStarts DEF BrowserInit
<1>2. IInv /\ ClientOK /\ [BrowserNext]_allVars => IInv' /\ ClientOK'
  <2> SUFFICES ASSUME IInv, ClientOK, [BrowserNext]_allVars PROVE IInv' /\ ClientOK'
    OBVIOUS
  <2>1. [Next]_vars
    <3>1. CASE BrowserNext
      BY <3>1, StepOfTheServer DEF IInv
    <3>2. CASE UNCHANGED allVars
      BY <3>2 DEF allVars, server
    <3>q. QED BY <3>1, <3>2
  <2>2. IInv'
    BY <2>1, SafeStep
  <2>q. QED BY <2>2, ClientStep DEF IInv
<1>q. QED BY <1>1, <1>2, PTL DEF BrowserSpec

\* Behind the tabs of a browser the server only ever behaves as RefreshTokens
\* says: every theorem about its specification is one about the composition.
THEOREM BrowserImplementsStore == BrowserSpec => Spec
<1>1. BrowserInit => Init
  BY DEF BrowserInit
<1>2. IInv /\ ClientOK /\ [BrowserNext]_allVars => [Next]_vars
  BY StepOfTheServer DEF IInv, allVars, server
<1>q. QED BY <1>1, <1>2, BrowserInvariant, PTL DEF BrowserSpec, Spec

\* Pages, localStorage and the server stay of their declared shape.
THEOREM BrowserTypeCorrect == BrowserSpec => []BrowserTypeOK
<1>1. IInv /\ ClientOK => BrowserTypeOK
  BY DEF IInv, ClientOK, BrowserTypeOK
<1>q. QED BY <1>1, BrowserInvariant, PTL
-----------------------------------------------------------------------------
(* Tabs against each other.  A token has been moved past only when one of  *)
(* the tabs is about to hear of it, or its answer was lost; and a tab that *)
(* still comes with it took it up no later than that tab heard.            *)

\* What answers carry is new to the browser, and what logouts carry is old.
OffersOK ==
    /\ \A r, s \in Req : r # s /\ req[r].new = req[s].new => req[r].new = NoJti
    /\ \A r \in Req : At(r, "ok") => req[r].new \notin held
    /\ \A r \in Req : At(r, "revoke") => req[r].jti \in revoking
    /\ \A r \in Req : req[r].t <= now

RowsOK ==
    /\ db = disk /\ burned \subseteq dead /\ Closed(db, burned) /\ revoking \subseteq held
    /\ \A j \in DOMAIN db : /\ db[j].next # NoJti => j \in held
                            /\ db[j].revoked = 1 => j \in burned \cup revoking

PagesOK ==
    /\ stored # NoJti => stored \in held \ revoking
    /\ \A t, u \in Tab : tab[t].req = tab[u].req /\ tab[t].req # NoReq => t = u
    /\ \A t \in Tab :
          /\ tab[t].jti # NoJti => /\ tab[t].pc \in {"sending", "refreshing"}
                                   /\ tab[t].since <= now /\ now <= tab[t].since + RoundTrip
          /\ tab[t].req # NoReq => tab[t].pc \in {"refreshing", "logging"}

\* Request r is the refresh of tab t.
Asks(t, r) ==
    /\ TabAt(t, "refreshing") /\ tab[t].req = r
    /\ tab[t].jti = req[r].jti /\ tab[t].since <= req[r].t

Asking == {r \in Req : req[r].pc \in {"valid", "superseded", "burn", "rotate"}}

AskedOK == \A r \in Asking : req[r].jti \in lost \/ \E t \in Tab : Asks(t, r)

SupersededRow(j) == j \in DOMAIN db /\ db[j].next # NoJti

\* Tab t is about to hear of the successor of j.
Awaits(t, j) ==
    /\ TabAt(t, "refreshing") /\ req[tab[t].req].pc \in {"ok", "idle"}
    /\ tab[t].jti = j /\ tab[t].since <= db[j].at

AwaitedOK ==
    SupersededRow(stored) => stored \in lost \/ \E t \in Tab : Awaits(t, stored)

LateOK ==
    \A t \in Tab : SupersededRow(tab[t].jti) =>
        tab[t].jti \in lost \/ tab[t].since <= db[tab[t].jti].at + RoundTrip

TabsInv ==
    /\ ReuseInv /\ ClientOK
    /\ OffersOK /\ RowsOK /\ PagesOK /\ AskedOK /\ AwaitedOK /\ LateOK

\* What a step does to a request.
Moves(r) ==
    \/ req'[r] = Idle /\ req[r].pc \in {"ok", "denied", "failed"}
    \/ /\ req[r].pc = "idle" /\ req'[r].pc = "issue"
       /\ req'[r].new \in Fresh /\ req'[r].t = now
    \/ /\ req[r].pc = "idle" /\ req'[r].pc \in {"valid", "revoke"}
       /\ req'[r].new = NoJti /\ req'[r].t = now
    \/ /\ req[r].pc = "valid" /\ req'[r].pc = "rotate" /\ req'[r].jti = req[r].jti
       /\ req'[r].new \in Fresh /\ req'[r].t = now
    \/ /\ req[r].pc \in InServer /\ req'[r].pc \in {"superseded", "burn", "denied", "failed", "ok"}
       /\ req'[r].jti = req[r].jti /\ req'[r].new = req[r].new /\ req'[r].t = req[r].t
       /\ req'[r].pc = "ok" => req[r].pc \in {"issue", "rotate", "revoke"}
       /\ req'[r].pc \in {"superseded", "burn"} => req[r].pc \in {"valid", "superseded"}

LEMMA RequestMoves ==
    ASSUME IInv, [Next]_vars
    PROVE  \/ req' = req
           \/ req' = [r \in Req |-> Idle]
           \/ \E r \in Req : Moves(r) /\ \A s \in Req \ {r} : req'[s] = req[s]
<1>0. req \in [Req -> Request]
  BY DEF IInv, TypeOK
<1>1. ASSUME NEW r \in Req, Verify(r) PROVE Moves(r) /\ \A s \in Req \ {r} : req'[s] = req[s]
  BY <1>0, <1>1 DEF Verify, At, Moves
<1>2. ASSUME NEW r \in Req, NEW j \in Jti, Refresh(r, j) \/ Logout(r, j)
      PROVE  Moves(r) /\ \A s \in Req \ {r} : req'[s] = req[s]
  BY <1>0, <1>2 DEF Refresh, Logout, At, Moves
<1>3. ASSUME NEW r \in Req, Deliver(r) \/ Lose(r)
      PROVE  Moves(r) /\ \A s \in Req \ {r} : req'[s] = req[s]
  BY <1>0, <1>3 DEF Deliver, Lose, At, Moves
<1>4. ASSUME NEW r \in Req, IsValidYes(r)
      PROVE  Moves(r) /\ \A s \in Req \ {r} : req'[s] = req[s]
  <2>1. PICK k \in Jti : k \in Fresh /\ req' = [req EXCEPT ![r].pc = "rotate", ![r].new = k, ![r].t = now]
    BY <1>4 DEF IsValidYes, Fresh
  <2>2. /\ req'[r].pc = "rotate" /\ req'[r].new = k /\ req'[r].t = now
        /\ req'[r].jti = req[r].jti /\ \A s \in Req \ {r} : req'[s] = req[s]
    <3>1. req[r] \in Request /\ req'[r] = [req[r] EXCEPT !.pc = "rotate", !.new = k, !.t = now]
      BY <1>0, <2>1
    <3>2. \A s \in Req \ {r} : req'[s] = req[s]
      BY <1>0, <2>1
    <3>q. QED BY <3>1, <3>2 DEF Request
  <2>q. QED BY <1>4, <2>1, <2>2 DEF IsValidYes, At, Moves
<1>5. ASSUME NEW r \in Req, NEW pc \in {"superseded", "burn", "denied", "failed", "ok"}, Goto(r, pc),
             req[r].pc \in InServer,
             pc = "ok" => req[r].pc \in {"issue", "rotate", "revoke"},
             pc \in {"superseded", "burn"} => req[r].pc \in {"valid", "superseded"}
      PROVE  Moves(r) /\ \A s \in Req \ {r} : req'[s] = req[s]
  <2>1. /\ req'[r].pc = pc /\ req'[r].jti = req[r].jti /\ req'[r].new = req[r].new
        /\ req'[r].t = req[r].t /\ \A s \in Req \ {r} : req'[s] = req[s]
    BY <1>0, <1>5 DEF Goto, Request
  <2>q. QED BY <1>5, <2>1 DEF Moves
<1>6. ASSUME NEW r \in Req, IsValidNo(r) \/ IsSuperseded(r)
      PROVE  Moves(r) /\ \A s \in Req \ {r} : req'[s] = req[s]
  <2>1. \E pc \in {"superseded", "burn", "denied"} : Goto(r, pc)
    BY <1>6 DEF IsValidNo, IsSuperseded
  <2>q. QED BY <1>5, <1>6, <2>1 DEF IsValidNo, IsSuperseded, At, InServer
<1>7. ASSUME NEW r \in Req, Issue(r) \/ RevokeChain(r) \/ Rotate(r) \/ Revoke(r)
      PROVE  Moves(r) /\ \A s \in Req \ {r} : req'[s] = req[s]
  <2>1. CASE Goto(r, "ok") /\ req[r].pc \in {"issue", "rotate", "revoke"}
    BY <1>5, <2>1 DEF InServer
  <2>2. CASE (Goto(r, "denied") \/ Goto(r, "failed")) /\ req[r].pc \in InServer
    BY <1>5, <2>2
  <2>q. QED BY <1>7, <2>1, <2>2 DEF Issue, RevokeChain, Rotate, Revoke, At, InServer
<1>8. CASE PurgeExpired \/ Tick \/ UNCHANGED vars
  BY <1>8 DEF PurgeExpired, Tick, vars
<1>9. CASE Restart
  BY <1>9 DEF Restart
<1>q. QED BY <1>1, <1>2, <1>3, <1>4, <1>6, <1>7, <1>8, <1>9 DEF Next

\* A row that is superseded was so with the same instant, or has just been rotated.
LEMMA SupersededStep ==
    ASSUME ~Faulty, IInv, RowsOK, [Next]_vars, NEW j, SupersededRow(j)'
    PROVE  \/ SupersededRow(j) /\ db'[j].at = db[j].at
           \/ \E r \in Req : /\ Rotate(r) /\ req[r].pc = "rotate" /\ req'[r].pc = "ok"
                             /\ req[r].jti = j /\ db'[j].at = req[r].t
<1>0. j \in DOMAIN db' /\ db'[j].next # NoJti
  BY DEF SupersededRow
<1>1. ASSUME NEW r \in Req, Issue(r) PROVE SupersededRow(j) /\ db'[j].at = db[j].at
  BY <1>0, <1>1 DEF Issue, Commit, Raise, IssueInsert, Inserted, SupersededRow
<1>2. ASSUME NEW r \in Req, RevokeChain(r) \/ Revoke(r) PROVE SupersededRow(j) /\ db'[j].at = db[j].at
  BY <1>0, <1>2 DEF RevokeChain, Revoke, Commit, Raise, Revoked, SupersededRow
<1>3. ASSUME NEW r \in Req, Rotate(r), ~(SupersededRow(j) /\ db'[j].at = db[j].at)
      PROVE  req[r].pc = "rotate" /\ req'[r].pc = "ok" /\ req[r].jti = j /\ db'[j].at = req[r].t
  <2>1. /\ req[r].pc = "rotate" /\ db' = RotateInsert(r) /\ Goto(r, "ok")
    BY <1>0, <1>3 DEF Rotate, At, Raise, Commit, SupersededRow
  <2>2. req'[r].pc = "ok"
    BY <2>1 DEF Goto, IInv, TypeOK, Request
  <2>3. j = req[r].jti /\ db'[j].at = req[r].t
    <3>1. DOMAIN RotateUpdate(r) = DOMAIN db
      BY DEF RotateUpdate, Superseded
    <3>2. j # req[r].new /\ j \in DOMAIN db /\ db'[j] = RotateUpdate(r)[j]
      BY <1>0, <2>1, <3>1 DEF RotateInsert, Inserted
    <3>q. QED BY <1>0, <1>3, <2>1, <3>2 DEF RotateUpdate, Superseded, SupersededRow
  <2>q. QED BY <2>1, <2>2, <2>3
<1>4. CASE PurgeExpired
  BY <1>0, <1>4 DEF PurgeExpired, Commit, Raise, Purged, SupersededRow
<1>5. CASE Restart
  BY <1>0, <1>5 DEF Restart, RowsOK, SupersededRow
<1>6. CASE db' = db
  BY <1>0, <1>6 DEF SupersededRow
<1>7. ASSUME NEW r \in Req,
             \/ Verify(r) \/ IsValidYes(r) \/ IsValidNo(r) \/ IsSuperseded(r)
             \/ Deliver(r) \/ Lose(r) \/ \E k \in Jti : Refresh(r, k) \/ Logout(r, k)
      PROVE  db' = db
  BY <1>7 DEF Verify, IsValidYes, IsValidNo, IsSuperseded, Deliver, Lose, Refresh, Logout
<1>8. CASE Tick \/ UNCHANGED vars
  BY <1>6, <1>8 DEF Tick, vars
<1>q. QED BY <1>1, <1>2, <1>3, <1>4, <1>5, <1>6, <1>7, <1>8 DEF Next

LEMMA TabTypes ==
    ASSUME TabsInv
    PROVE  /\ req \in [Req -> Request] /\ tab \in [Tab -> TabState] /\ now \in Nat
           /\ db \in [DOMAIN db -> Row] /\ DOMAIN db \subseteq Jti /\ held \subseteq Jti
           /\ \A t \in Tab : /\ tab[t].since \in Nat
                             /\ TabAt(t, "refreshing") \/ TabAt(t, "logging") => tab[t].req \in Req
                             /\ TabAt(t, "refreshing") \/ TabAt(t, "sending") => tab[t].jti \in Jti
           /\ \A r \in Req : req[r].t \in Nat
           /\ \A j \in DOMAIN db : db[j].at \in Nat
<1>1. TypeOK /\ ClientOK
  BY DEF TabsInv, ReuseInv, IInv
<1>q. QED BY <1>1 DEF TypeOK, ClientOK, Waits, Consistent, TabAt, TabState, Request, IsTable, Row

LEMMA TabsSimulate ==
    ASSUME TabsInv, [BrowserNext]_allVars
    PROVE  [Next]_vars /\ IInv
<1>1. IInv /\ ClientOK /\ TypeOK
  BY DEF TabsInv, ReuseInv, IInv
<1>2. CASE BrowserNext
  BY <1>1, <1>2, StepOfTheServer
<1>3. CASE UNCHANGED allVars
  BY <1>1, <1>3 DEF allVars, server
<1>q. QED BY <1>2, <1>3, <1>1

\* What has been given out, lost, revoked and burned stays so, and time goes on.
LEMMA HistoryGrows ==
    ASSUME TabsInv, [BrowserNext]_allVars
    PROVE  /\ held \subseteq held' /\ burned \subseteq burned' /\ dead \subseteq dead'
           /\ lost \subseteq lost' /\ revoking \subseteq revoking'
           /\ now <= now'
<1>1. [Next]_vars /\ now \in Nat
  BY TabsSimulate, TabTypes
<1>2. /\ held \subseteq held' /\ burned \subseteq burned' /\ dead \subseteq dead' /\ now <= now'
  <2>1. ASSUME NEW r \in Req,
               \/ Verify(r) \/ Issue(r) \/ IsValidYes(r) \/ IsValidNo(r) \/ IsSuperseded(r)
               \/ RevokeChain(r) \/ Rotate(r) \/ Revoke(r) \/ Deliver(r) \/ Lose(r)
               \/ \E k \in Jti : Refresh(r, k) \/ Logout(r, k)
        PROVE  /\ held \subseteq held' /\ burned \subseteq burned' /\ dead \subseteq dead' /\ now' = now
    BY <2>1 DEF Verify, Issue, IsValidYes, IsValidNo, IsSuperseded, RevokeChain, Rotate, Revoke,
       Deliver, Lose, Refresh, Logout
  <2>2. CASE PurgeExpired \/ Restart \/ Tick \/ UNCHANGED vars
    BY <1>1, <2>2 DEF PurgeExpired, Restart, Tick, vars
  <2>q. QED BY <1>1, <2>1, <2>2 DEF Next
<1>3. /\ lost \subseteq lost' /\ revoking \subseteq revoking'
  <2>1. ASSUME NEW t \in Tab,
               \/ Load(t) \/ Login(t) \/ LoggedIn(t) \/ LoginFails(t)
               \/ Unauthorized(t) \/ SendRefresh(t) \/ ExpiredAtServer(t)
               \/ NetworkError(t) \/ Refreshed(t) \/ Rejected(t) \/ Retry(t) \/ LogOut(t)
        PROVE  lost \subseteq lost' /\ revoking \subseteq revoking'
    BY <2>1 DEF Load, Login, LoggedIn, LoginFails, Unauthorized, SendRefresh, ExpiredAtServer,
       NetworkError, Refreshed, Rejected, Retry, LogOut
  <2>2. CASE Handle \/ Unread \/ Background \/ Pass \/ UNCHANGED allVars
    BY <2>2 DEF Handle, Unread, Background, Pass, browser, allVars
  <2>q. QED BY <2>1, <2>2 DEF BrowserNext
<1>q. QED BY <1>2, <1>3

\* A token comes to a client with an answer, which is over then.
LEMMA HeldStep ==
    ASSUME IInv, [Next]_vars
    PROVE  \/ held' = held
           \/ \E q \in Req : /\ At(q, "ok") /\ req' = [req EXCEPT ![q] = Idle] /\ db' = db
                             /\ held' = held \cup ({req[q].new} \ {NoJti})
<1>1. ASSUME NEW r \in Req,
             \/ Verify(r) \/ Issue(r) \/ IsValidYes(r) \/ IsValidNo(r) \/ IsSuperseded(r)
             \/ RevokeChain(r) \/ Rotate(r) \/ Revoke(r) \/ Lose(r)
             \/ \E k \in Jti : Refresh(r, k) \/ Logout(r, k)
      PROVE  held' = held
  BY <1>1 DEF Verify, Issue, IsValidYes, IsValidNo, IsSuperseded, RevokeChain, Rotate, Revoke,
     Lose, Refresh, Logout
<1>2. CASE PurgeExpired \/ Restart \/ Tick \/ UNCHANGED vars
  BY <1>2 DEF PurgeExpired, Restart, Tick, vars
<1>3. ASSUME NEW r \in Req, Deliver(r)
      PROVE  /\ At(r, "ok") /\ req' = [req EXCEPT ![r] = Idle] /\ db' = db
             /\ held' = held \cup ({req[r].new} \ {NoJti})
  BY <1>3 DEF Deliver
<1>q. QED BY <1>1, <1>2, <1>3 DEF Next

\* Who begins a request: a refresh is some tab's, and a logout is noted.  A request
\* that a tab waits for is no one else's.
LEMMA BeginStep ==
    ASSUME TabsInv, [BrowserNext]_allVars, NEW r \in Req, req[r].pc = "idle", req'[r].pc # "idle"
    PROVE  /\ \A t \in Tab : tab[t].req # r
           /\ req'[r].pc = "revoke" => req'[r].jti \in revoking'
           /\ req'[r].pc = "valid" => \E t \in Tab :
                 TabAt(t, "sending") /\ tab' = [tab EXCEPT ![t].pc = "refreshing", ![t].req = r]
                 /\ req'[r].jti = tab[t].jti /\ req'[r].t = now
<1>0. req \in [Req -> Request] /\ \A q \in Req : Idle.pc = "idle"
  BY TabTypes DEF Idle
<1>1. ASSUME NEW t \in Tab, Login(t) PROVE (\A u \in Tab : tab[u].req # r) /\ req'[r].pc = "issue"
  BY <1>0, <1>1 DEF Login, Verify, Unclaimed
<1>2. ASSUME NEW t \in Tab, SendRefresh(t)
      PROVE  /\ \A u \in Tab : tab[u].req # r
             /\ req'[r].pc = "valid" /\ req'[r].jti = tab[t].jti /\ req'[r].t = now
             /\ TabAt(t, "sending") /\ tab' = [tab EXCEPT ![t].pc = "refreshing", ![t].req = r]
  <2>1. PICK q \in Req : /\ Unclaimed(q) /\ Refresh(q, tab[t].jti)
                         /\ tab' = [tab EXCEPT ![t].pc = "refreshing", ![t].req = q]
    BY <1>2 DEF SendRefresh
  <2>2. q = r
    BY <1>0, <2>1 DEF Refresh
  <2>q. QED BY <1>0, <1>2, <2>1, <2>2 DEF SendRefresh, Refresh, Unclaimed
<1>3. ASSUME NEW t \in Tab, LogOut(t)
      PROVE  (\A u \in Tab : tab[u].req # r) /\ req'[r].pc = "revoke" /\ req'[r].jti \in revoking'
  <2>1. PICK q \in Req : stored # NoJti /\ Unclaimed(q) /\ Logout(q, stored)
    BY <1>3 DEF LogOut, server, vars
  <2>2. q = r
    BY <1>0, <2>1 DEF Logout
  <2>q. QED BY <1>0, <1>3, <2>1, <2>2 DEF LogOut, Logout, Unclaimed
<1>4. ASSUME NEW q \in Req, Deliver(q) \/ Lose(q) PROVE req'[r].pc = "idle"
  BY <1>0, <1>4 DEF Deliver, Lose
<1>5. ASSUME NEW t \in Tab, LoggedIn(t) \/ LoginFails(t) \/ NetworkError(t) \/ Refreshed(t) \/ Rejected(t)
      PROVE  FALSE
  <2>1. TabAt(t, "logging") \/ TabAt(t, "sending") \/ TabAt(t, "refreshing")
    BY <1>5 DEF LoggedIn, LoginFails, NetworkError, Refreshed, Rejected
  <2>2. \/ req' = req
        \/ tab[t].req \in Req /\ (Deliver(tab[t].req) \/ Lose(tab[t].req))
    BY <1>5, TabTypes DEF LoggedIn, LoginFails, NetworkError, Refreshed, Rejected, server, vars
  <2>q. QED BY <1>4, <2>2
<1>6. ASSUME NEW t \in Tab, Load(t) \/ Unauthorized(t) \/ ExpiredAtServer(t) \/ Retry(t) PROVE FALSE
  BY <1>6 DEF Load, Unauthorized, ExpiredAtServer, Retry, server, vars
<1>7. CASE Handle
  <2>1. PICK q \in Req : \/ Issue(q) \/ IsValidYes(q) \/ IsValidNo(q) \/ IsSuperseded(q)
                         \/ RevokeChain(q) \/ Rotate(q) \/ Revoke(q)
    BY <1>7 DEF Handle
  <2>2. req[q].pc # "idle"
    BY <2>1 DEF Issue, IsValidYes, IsValidNo, IsSuperseded, RevokeChain, Rotate, Revoke, At
  <2>3. req'[r] = req[r]
    BY <1>0, <2>1, <2>2 DEF Issue, IsValidYes, IsValidNo, IsSuperseded, RevokeChain, Rotate, Revoke, Goto
  <2>q. QED BY <2>3
<1>8. CASE Unread
  BY <1>4, <1>8 DEF Unread
<1>9. CASE Background \/ Pass \/ UNCHANGED allVars
  BY <1>0, <1>9 DEF Background, PurgeExpired, Restart, Pass, Tick, allVars, server, vars
<1>q. QED BY <1>1, <1>2, <1>3, <1>5, <1>6, <1>7, <1>8, <1>9 DEF BrowserNext

LEMMA OffersStep == ASSUME TabsInv, [BrowserNext]_allVars PROVE OffersOK'
<1>0. /\ IInv /\ OffersOK /\ [Next]_vars /\ now \in Nat /\ now' \in Nat /\ now <= now'
      /\ req \in [Req -> Request] /\ revoking \subseteq revoking' /\ NoJti \notin held
  <2>1. IInv'
    BY TabsSimulate, SafeStep
  <2>q. QED BY <2>1, TabsSimulate, HistoryGrows, TabTypes, NoJtiAssumption DEF TabsInv, IInv, TypeOK
<1>1. \A r \in Req : req[r].t \in Nat /\ req[r].t <= now
  BY <1>0, TabTypes DEF OffersOK
<1>2. \A r, s \in Req : r # s /\ req'[r].new = req'[s].new => req'[r].new = NoJti
  <2>1. ASSUME NEW q \in Req, Moves(q), \A s \in Req \ {q} : req'[s] = req[s],
               NEW s \in Req \ {q}, req'[q].new = req'[s].new
        PROVE  req'[q].new = NoJti
    <3>1. CASE req'[q].new \in Fresh
      BY <1>0, <2>1, <3>1 DEF Fresh, IInv, RequestsOK
    <3>2. CASE req'[q].new = req[q].new
      BY <1>0, <2>1, <3>2 DEF OffersOK
    <3>q. QED BY <2>1, <3>1, <3>2 DEF Moves, Idle
  <2>2. CASE req' = [r \in Req |-> Idle]
    BY <2>2 DEF Idle
  <2>3. CASE req' = req
    BY <1>0, <2>3 DEF OffersOK
  <2>4. CASE \E q \in Req : Moves(q) /\ \A s \in Req \ {q} : req'[s] = req[s]
    <3>1. PICK q \in Req : Moves(q) /\ \A s \in Req \ {q} : req'[s] = req[s]
      BY <2>4
    <3>2. ASSUME NEW r \in Req, NEW s \in Req, r # s, req'[r].new = req'[s].new PROVE req'[r].new = NoJti
      BY <1>0, <2>1, <3>1, <3>2 DEF OffersOK
    <3>q. QED BY <3>2
  <2>q. QED BY <1>0, <2>2, <2>3, <2>4, RequestMoves
<1>3. ASSUME NEW r \in Req PROVE req'[r].pc = "ok" => req'[r].new \notin held'
  <2>1. ASSUME NEW q \in Req, At(q, "ok"), req' = [req EXCEPT ![q] = Idle],
               held' = held \cup ({req[q].new} \ {NoJti}), req'[r].pc = "ok"
        PROVE  req'[r].new \notin held'
    <3>1. r # q /\ req'[r] = req[r]
      BY <1>0, <2>1 DEF Idle
    <3>q. QED BY <1>0, <2>1, <3>1 DEF OffersOK, At
  <2>2. ASSUME held' = held, req'[r].pc = "ok" PROVE req'[r].new \notin held'
    <3>1. CASE req'[r] = req[r]
      BY <1>0, <2>2, <3>1 DEF OffersOK, At
    <3>2. CASE Moves(r)
      <4>1. req'[r].new = req[r].new /\ req[r].pc \in {"issue", "rotate", "revoke"}
        BY <2>2, <3>2 DEF Moves, Idle
      <4>q. QED BY <1>0, <2>2, <4>1 DEF IInv, RequestsOK
    <3>3. req'[r] # Idle
      BY <2>2 DEF Idle
    <3>q. QED BY <1>0, <3>1, <3>2, <3>3, RequestMoves
  <2>q. QED BY <1>0, <2>1, <2>2, HeldStep
<1>4. ASSUME NEW r \in Req, req'[r].pc = "revoke" PROVE req'[r].jti \in revoking'
  <2>1. CASE req'[r] = req[r]
    BY <1>0, <1>4, <2>1 DEF OffersOK, At
  <2>2. CASE Moves(r)
    <3>1. req[r].pc = "idle"
      BY <1>4, <2>2 DEF Moves, Idle
    <3>q. QED BY <1>4, <3>1, BeginStep
  <2>3. req'[r] # Idle
    BY <1>4 DEF Idle
  <2>q. QED BY <1>0, <2>1, <2>2, <2>3, RequestMoves
<1>5. ASSUME NEW r \in Req PROVE req'[r].t <= now'
  <2>1. req'[r].t \in {req[r].t, now, 0}
    BY <1>0, RequestMoves DEF Moves, Idle
  <2>q. QED BY <1>0, <1>1, <2>1
<1>q. QED BY <1>2, <1>3, <1>4, <1>5 DEF OffersOK, At

\* Only a rotation supersedes a row, and only a burn or a logout revokes one.
LEMMA RowsStep == ASSUME ~Faulty, TabsInv, [BrowserNext]_allVars PROVE RowsOK'
<1>0. /\ IInv /\ RowsOK /\ [Next]_vars /\ held \subseteq held' /\ revoking \subseteq revoking'
      /\ burned \subseteq burned' /\ dead \subseteq dead' /\ IsTable(db)
  BY TabsSimulate, HistoryGrows DEF TabsInv, IInv, TypeOK
<1>1. revoking' \subseteq held'
  <2>1. revoking' \subseteq revoking \cup ({stored} \ {NoJti})
    <3>1. ASSUME NEW t \in Tab,
                 \/ Load(t) \/ Login(t) \/ LoggedIn(t) \/ LoginFails(t)
                 \/ Unauthorized(t) \/ SendRefresh(t) \/ ExpiredAtServer(t)
                 \/ NetworkError(t) \/ Refreshed(t) \/ Rejected(t) \/ Retry(t) \/ LogOut(t)
          PROVE  revoking' \subseteq revoking \cup ({stored} \ {NoJti})
      BY <3>1 DEF Load, Login, LoggedIn, LoginFails, Unauthorized, SendRefresh, ExpiredAtServer,
         NetworkError, Refreshed, Rejected, Retry, LogOut
    <3>2. CASE Handle \/ Unread \/ Background \/ Pass \/ UNCHANGED allVars
      BY <3>2 DEF Handle, Unread, Background, Pass, browser, allVars
    <3>q. QED BY <3>1, <3>2 DEF BrowserNext
  <2>2. stored # NoJti => stored \in held
    BY DEF TabsInv, PagesOK
  <2>q. QED BY <1>0, <2>1, <2>2 DEF RowsOK
<1>2. ASSUME NEW r \in Req, Issue(r) PROVE RowsOK'
  <2>1. UNCHANGED <<db, disk>> \/ (db' = IssueInsert(r) /\ disk' = db')
    BY <1>2 DEF Issue, Commit, Raise
  <2>2. UNCHANGED <<burned, dead>>
    BY <1>2 DEF Issue
  <2>3. IssueInsert(r)[req[r].new].next = NoJti /\ IssueInsert(r)[req[r].new].revoked = 0
    BY DEF IssueInsert, Inserted
  <2>4. \A j \in DOMAIN IssueInsert(r) : j = req[r].new \/ (j \in DOMAIN db /\ IssueInsert(r)[j] = db[j])
    BY DEF IssueInsert, Inserted
  <2>q. QED BY <1>0, <1>1, <2>1, <2>2, <2>3, <2>4 DEF RowsOK, Closed
<1>3. ASSUME NEW r \in Req, RevokeChain(r) PROVE RowsOK'
  <2> DEFINE walk == Walk(db, req[r].jti)
  <2>1. /\ db' = Revoked(db, walk) /\ disk' = db'
        /\ burned' = burned \cup walk /\ dead' = dead \cup walk
    BY <1>3 DEF RevokeChain, Commit, Raise
  <2>2. Closed(db, walk)
    BY <1>0, <1>3, WalkClosed DEF RevokeChain, At, IInv, RequestsOK, TypeOK
  <2>3. DOMAIN db' = DOMAIN db /\ \A j \in DOMAIN db : db'[j].next = db[j].next
                                    /\ (db'[j].revoked = 1 => db[j].revoked = 1 \/ j \in walk)
    BY <2>1 DEF Revoked
  <2> HIDE DEF walk
  <2>q. QED BY <1>0, <1>1, <2>1, <2>2, <2>3 DEF RowsOK, Closed
<1>4. ASSUME NEW r \in Req, Revoke(r) PROVE RowsOK'
  <2>1. /\ db' = Revoked(db, {req[r].jti}) /\ disk' = db' /\ burned' = burned
    BY <1>4 DEF Revoke, Commit, Raise
  <2>2. DOMAIN db' = DOMAIN db /\ \A j \in DOMAIN db : db'[j].next = db[j].next
                                    /\ (db'[j].revoked = 1 => db[j].revoked = 1 \/ j = req[r].jti)
    BY <2>1 DEF Revoked
  <2>3. req[r].jti \in revoking
    BY <1>4 DEF Revoke, TabsInv, OffersOK
  <2>q. QED BY <1>0, <1>1, <2>1, <2>2, <2>3 DEF RowsOK, Closed
<1>5. ASSUME NEW r \in Req, Rotate(r) PROVE RowsOK'
  <2>1. CASE UNCHANGED <<db, disk>>
    BY <1>0, <1>1, <1>5, <2>1 DEF Rotate, RowsOK, Closed
  <2>2. CASE ~UNCHANGED <<db, disk>>
    <3>1. /\ db' = RotateInsert(r) /\ disk' = db' /\ Rotatable(db, req[r].jti, req[r].t)
          /\ UNCHANGED <<burned, dead>>
      BY <1>5, <2>2 DEF Rotate, Commit, Raise
    <3>2. req[r].jti \in held /\ req[r].jti \notin burned
      BY <1>0, <1>5, <3>1 DEF Rotate, At, IInv, RequestsOK, Rotatable, RowsOK, Sound
    <3>3. DOMAIN RotateUpdate(r) = DOMAIN db
      BY DEF RotateUpdate, Superseded
    <3>4. \A j \in DOMAIN db : /\ j # req[r].jti => RotateUpdate(r)[j].next = db[j].next
                               /\ RotateUpdate(r)[j].revoked = db[j].revoked
      BY DEF RotateUpdate, Superseded
    <3>5. /\ \A j \in DOMAIN db' : j = req[r].new \/ (j \in DOMAIN db /\ db'[j] = RotateUpdate(r)[j])
          /\ db'[req[r].new].next = NoJti /\ db'[req[r].new].revoked = 0
      BY <3>1, <3>3 DEF RotateInsert, Inserted
    <3>q. QED BY <1>0, <1>1, <3>1, <3>2, <3>4, <3>5 DEF RowsOK, Closed
  <2>q. QED BY <2>1, <2>2
<1>6. CASE PurgeExpired
  <2>1. db' = Purged(db, now - PurgeGrace) /\ disk' = db' /\ UNCHANGED <<burned, dead>>
    BY <1>6 DEF PurgeExpired, Commit, Raise
  <2>2. \A j \in DOMAIN db' : j \in DOMAIN db /\ db'[j] = db[j]
    BY <2>1 DEF Purged
  <2>q. QED BY <1>0, <1>1, <2>1, <2>2 DEF RowsOK, Closed
<1>7. CASE Restart
  BY <1>0, <1>1, <1>7 DEF Restart, RowsOK, Closed
<1>8. CASE UNCHANGED <<db, disk, burned, dead>>
  BY <1>0, <1>1, <1>8 DEF RowsOK, Closed
<1>9. ASSUME NEW r \in Req,
             \/ Verify(r) \/ IsValidYes(r) \/ IsValidNo(r) \/ IsSuperseded(r)
             \/ Deliver(r) \/ Lose(r) \/ \E k \in Jti : Refresh(r, k) \/ Logout(r, k)
      PROVE  UNCHANGED <<db, disk, burned, dead>>
  BY <1>9 DEF Verify, IsValidYes, IsValidNo, IsSuperseded, Deliver, Lose, Refresh, Logout
<1>10. CASE Tick \/ UNCHANGED vars
  BY <1>8, <1>10 DEF Tick, vars
<1>q. QED
  BY <1>0, <1>2, <1>3, <1>4, <1>5, <1>6, <1>7, <1>8, <1>9, <1>10 DEF Next

\* How a tab ends what it waited for.
Forgets(t) ==
    /\ tab'[t].jti = NoJti /\ tab'[t].req = NoReq /\ tab'[t].pc \in {"prompt", "idle", "retrying"}
    /\ TabAt(t, "refreshing") =>
          \/ tab[t].jti \in lost'
          \/ At(tab[t].req, "ok") /\ stored' = req[tab[t].req].new
          \/ req[tab[t].req].pc \in {"denied", "failed"}

\* How a tab takes up the stored token.
TakesUp(t) ==
    /\ TabAt(t, "idle") /\ stored # NoJti /\ UNCHANGED <<server, stored>>
    /\ tab'[t] = [pc |-> "sending", jti |-> stored, req |-> NoReq, since |-> now]

\* How a tab sends what it has taken up, or a code.
Sends(t) ==
    \E r \in Req :
        /\ Unclaimed(r) /\ tab'[t].req = r
        /\ \/ /\ TabAt(t, "sending") /\ tab'[t].pc = "refreshing"
              /\ tab'[t].jti = tab[t].jti /\ tab'[t].since = tab[t].since
           \/ TabAt(t, "prompt") /\ tab'[t].pc = "logging" /\ tab'[t].jti = NoJti

LEMMA TabMoves ==
    ASSUME TabsInv, [BrowserNext]_allVars
    PROVE  \/ tab' = tab
           \/ \E t \in Tab : /\ \A u \in Tab \ {t} : tab'[u] = tab[u]
                             /\ Forgets(t) \/ TakesUp(t) \/ Sends(t)
<1>0. tab \in [Tab -> TabState]
  BY TabTypes
<1>1. ASSUME NEW t \in Tab, NEW s, Becomes(t, s)
      PROVE  tab'[t] = s /\ \A u \in Tab \ {t} : tab'[u] = tab[u]
  BY <1>0, <1>1 DEF Becomes
<1>2. ASSUME NEW t \in Tab, Load(t) \/ NetworkError(t) PROVE Forgets(t) /\ \A u \in Tab \ {t} : tab'[u] = tab[u]
  <2>1. \E pc \in {"prompt", "idle", "retrying"} : Becomes(t, Shows(pc))
    BY <1>2 DEF Load, NetworkError
  <2>2. TabAt(t, "refreshing") => tab[t].jti \in lost'
    BY <1>2 DEF Load, NetworkError, Forsaken
  <2>q. QED BY <1>1, <2>1, <2>2 DEF Forgets, Shows
<1>3. ASSUME NEW t \in Tab,
             \/ LoggedIn(t) \/ LoginFails(t) \/ ExpiredAtServer(t) \/ Retry(t) \/ LogOut(t)
             \/ Unauthorized(t) /\ stored = NoJti
      PROVE  Forgets(t) /\ \A u \in Tab \ {t} : tab'[u] = tab[u]
  <2>1. \E pc \in {"prompt", "idle", "retrying"} : Becomes(t, Shows(pc))
    BY <1>3 DEF LoggedIn, LoginFails, ExpiredAtServer, Retry, LogOut, Unauthorized
  <2>2. ~TabAt(t, "refreshing")
    BY <1>3 DEF LoggedIn, LoginFails, ExpiredAtServer, Retry, LogOut, Unauthorized, TabAt
  <2>q. QED BY <1>1, <2>1, <2>2 DEF Forgets, Shows
<1>4. ASSUME NEW t \in Tab, Refreshed(t) \/ Rejected(t)
      PROVE  Forgets(t) /\ \A u \in Tab \ {t} : tab'[u] = tab[u]
  <2>1. \E pc \in {"prompt", "idle", "retrying"} : Becomes(t, Shows(pc))
    BY <1>4 DEF Refreshed, Rejected
  <2>2. \/ At(tab[t].req, "ok") /\ stored' = req[tab[t].req].new
        \/ req[tab[t].req].pc \in {"denied", "failed"}
    BY <1>4 DEF Refreshed, Rejected, Deliver, Keep
  <2>q. QED BY <1>1, <2>1, <2>2 DEF Forgets, Shows
<1>5. ASSUME NEW t \in Tab, Unauthorized(t), stored # NoJti
      PROVE  TakesUp(t) /\ \A u \in Tab \ {t} : tab'[u] = tab[u]
  BY <1>1, <1>5 DEF Unauthorized, TakesUp
<1>6. ASSUME NEW t \in Tab, SendRefresh(t) PROVE Sends(t) /\ \A u \in Tab \ {t} : tab'[u] = tab[u]
  <2>1. PICK r \in Req : /\ Unclaimed(r) /\ TabAt(t, "sending")
                         /\ tab' = [tab EXCEPT ![t].pc = "refreshing", ![t].req = r]
    BY <1>6 DEF SendRefresh
  <2>2. /\ tab'[t].pc = "refreshing" /\ tab'[t].req = r /\ tab'[t].jti = tab[t].jti
        /\ tab'[t].since = tab[t].since /\ \A u \in Tab \ {t} : tab'[u] = tab[u]
    BY <1>0, <2>1 DEF TabState
  <2>q. QED BY <2>1, <2>2 DEF Sends
<1>7. ASSUME NEW t \in Tab, Login(t) PROVE Sends(t) /\ \A u \in Tab \ {t} : tab'[u] = tab[u]
  BY <1>1, <1>7 DEF Login, Sends
<1>8. CASE Handle \/ Unread \/ Background \/ Pass \/ UNCHANGED allVars
  BY <1>8 DEF Handle, Unread, Background, Pass, browser, allVars
<1>q. QED BY <1>2, <1>3, <1>4, <1>5, <1>6, <1>7, <1>8 DEF BrowserNext

\* What a step does to the stored token, and to what logouts were sent for.
LEMMA StoredMoves ==
    ASSUME TabsInv, [BrowserNext]_allVars
    PROVE  \/ stored' = stored /\ revoking' = revoking
           \/ stored' = NoJti
           \/ \E r \in Req : /\ At(r, "ok") /\ Deliver(r)
                             /\ stored' = req[r].new /\ revoking' = revoking
<1>1. ASSUME NEW t \in Tab, LoggedIn(t) \/ Refreshed(t)
      PROVE  \E r \in Req : /\ At(r, "ok") /\ Deliver(r)
                            /\ stored' = req[r].new /\ revoking' = revoking
  BY <1>1, TabTypes DEF LoggedIn, Refreshed, Deliver, Keep
<1>2. ASSUME NEW t \in Tab,
             \/ Load(t) \/ Login(t) \/ LoginFails(t) \/ Unauthorized(t) \/ SendRefresh(t)
             \/ ExpiredAtServer(t) \/ NetworkError(t) \/ Rejected(t) \/ Retry(t) \/ LogOut(t)
      PROVE  (stored' = stored /\ revoking' = revoking) \/ stored' = NoJti
  BY <1>2 DEF Load, Login, LoginFails, Unauthorized, SendRefresh, ExpiredAtServer, NetworkError,
     Rejected, Retry, LogOut, Clear, ClearAccess
<1>3. CASE Handle \/ Unread \/ Background \/ Pass \/ UNCHANGED allVars
  BY <1>3 DEF Handle, Unread, Background, Pass, browser, allVars
<1>q. QED BY <1>1, <1>2, <1>3 DEF BrowserNext

\* Time passes only when no refresh is out for longer than a round trip.
LEMMA TimePasses ==
    ASSUME TabsInv, [BrowserNext]_allVars
    PROVE  \/ now' = now
           \/ /\ now' = now + 1 /\ tab' = tab
              /\ \A t \in Tab : tab[t].pc \in {"sending", "refreshing"} => now < tab[t].since + RoundTrip
<1>1. CASE Pass
  BY <1>1 DEF Pass, Tick, browser
<1>2. ASSUME NEW r \in Req,
             \/ Verify(r) \/ Issue(r) \/ IsValidYes(r) \/ IsValidNo(r) \/ IsSuperseded(r)
             \/ RevokeChain(r) \/ Rotate(r) \/ Revoke(r) \/ Deliver(r) \/ Lose(r)
             \/ \E k : Refresh(r, k) \/ Logout(r, k)
      PROVE  now' = now
  BY <1>2 DEF Verify, Issue, IsValidYes, IsValidNo, IsSuperseded, RevokeChain, Rotate, Revoke,
     Deliver, Lose, Refresh, Logout
<1>3. CASE Handle \/ Unread \/ Background \/ UNCHANGED allVars
  BY <1>2, <1>3 DEF Handle, Unread, Background, PurgeExpired, Restart, allVars, server, vars
<1>4. ASSUME NEW t \in Tab,
             \/ Load(t) \/ Login(t) \/ Unauthorized(t) \/ SendRefresh(t) \/ ExpiredAtServer(t)
             \/ Retry(t) \/ LogOut(t)
      PROVE  now' = now
  BY <1>2, <1>4 DEF Load, Login, Unauthorized, SendRefresh, ExpiredAtServer, Retry, LogOut, server, vars
<1>5. ASSUME NEW t \in Tab,
             LoggedIn(t) \/ LoginFails(t) \/ NetworkError(t) \/ Refreshed(t) \/ Rejected(t)
      PROVE  now' = now
  BY <1>2, <1>5 DEF LoggedIn, LoginFails, NetworkError, Refreshed, Rejected, Deliver, Lose, server, vars
<1>q. QED BY <1>1, <1>3, <1>4, <1>5 DEF BrowserNext

LEMMA PagesStep == ASSUME TabsInv, [BrowserNext]_allVars PROVE PagesOK'
<1>0. /\ PagesOK /\ OffersOK /\ RowsOK /\ NoReq \notin Req
      /\ held \subseteq held' /\ now \in Nat /\ now' \in Nat /\ RoundTrip \in Nat
      /\ \A t \in Tab : /\ tab[t].since \in Nat
                        /\ TabAt(t, "refreshing") \/ TabAt(t, "sending") => tab[t].jti # NoJti
  <2>1. IInv'
    BY TabsSimulate, SafeStep
  <2>q. QED BY <2>1, HistoryGrows, TabTypes, RoundTripAssumption, NoJtiAssumption
            DEF TabsInv, IInv, TypeOK
<1>1. stored' # NoJti => stored' \in held' \ revoking'
  <2>1. ASSUME NEW r \in Req, At(r, "ok"), Deliver(r), stored' = req[r].new, revoking' = revoking,
               stored' # NoJti
        PROVE  stored' \in held' \ revoking'
    BY <1>0, <2>1 DEF Deliver, OffersOK, RowsOK
  <2>q. QED BY <1>0, <2>1, StoredMoves DEF PagesOK
<1>2. \A t, u \in Tab : tab'[t].req = tab'[u].req /\ tab'[t].req # NoReq => t = u
  <2>1. CASE tab' = tab
    BY <1>0, <2>1 DEF PagesOK
  <2>2. ASSUME NEW t \in Tab, \A u \in Tab \ {t} : tab'[u] = tab[u],
               Forgets(t) \/ TakesUp(t) \/ Sends(t)
        PROVE  \A u, v \in Tab : tab'[u].req = tab'[v].req /\ tab'[u].req # NoReq => u = v
    <3>1. tab'[t].req = NoReq \/ \A u \in Tab : tab[u].req # tab'[t].req
      BY <2>2 DEF Forgets, TakesUp, Sends, Unclaimed
    <3>q. QED BY <1>0, <2>2, <3>1 DEF PagesOK
  <2>q. QED BY <2>1, <2>2, TabMoves
<1>3. ASSUME NEW t \in Tab
      PROVE  /\ tab'[t].jti # NoJti => /\ tab'[t].pc \in {"sending", "refreshing"}
                                       /\ tab'[t].since <= now /\ now <= tab'[t].since + RoundTrip
             /\ tab'[t].req # NoReq => tab'[t].pc \in {"refreshing", "logging"}
  <2>1. CASE tab'[t] = tab[t]
    BY <1>0, <2>1 DEF PagesOK
  <2>2. CASE Forgets(t) \/ TakesUp(t)
    BY <1>0, <2>2 DEF Forgets, TakesUp
  <2>3. CASE Sends(t)
    BY <1>0, <2>3 DEF Sends, PagesOK
  <2>q. QED BY <2>1, <2>2, <2>3, TabMoves
<1>4. ASSUME NEW t \in Tab, tab'[t].jti # NoJti PROVE tab'[t].since <= now' /\ now' <= tab'[t].since + RoundTrip
  <2>1. CASE now' = now
    BY <1>3, <1>4, <2>1
  <2>2. CASE now' # now
    BY <1>0, <1>3, <1>4, <2>2, TimePasses DEF PagesOK
  <2>q. QED BY <2>1, <2>2
<1>q. QED BY <1>1, <1>2, <1>3, <1>4 DEF PagesOK

\* A tab whose refresh the server is working on waits for it, or gives it up.
LEMMA AskStays ==
    ASSUME TabsInv, [BrowserNext]_allVars, NEW r \in Asking, NEW t \in Tab, Asks(t, r)
    PROVE  tab'[t] = tab[t] \/ req[r].jti \in lost'
<1>1. /\ tab[t].pc = "refreshing" /\ tab[t].req = r /\ tab[t].jti = req[r].jti
      /\ req[r].pc \in {"valid", "superseded", "burn", "rotate"}
  BY DEF Asks, Asking, TabAt
<1>q. QED BY <1>1, TabMoves DEF Forgets, TakesUp, Sends, TabAt, At

LEMMA AskedStep == ASSUME TabsInv, [BrowserNext]_allVars PROVE AskedOK'
<1> SUFFICES ASSUME NEW r \in Req, req'[r].pc \in {"valid", "superseded", "burn", "rotate"}
             PROVE  (req[r].jti \in lost \/ \E t \in Tab : Asks(t, r))'
  BY DEF AskedOK, Asking
<1>0. /\ AskedOK /\ PagesOK /\ lost \subseteq lost' /\ now \in Nat /\ IInv /\ [Next]_vars
      /\ tab \in [Tab -> TabState] /\ req[r].t \in Nat /\ req[r].t <= now
      /\ \A t \in Tab : /\ tab[t].since \in Nat
                        /\ TabAt(t, "refreshing") \/ TabAt(t, "sending") => tab[t].jti # NoJti
  BY HistoryGrows, TabTypes, TabsSimulate, NoJtiAssumption DEF TabsInv, OffersOK
<1>1. ASSUME r \in Asking, req'[r].jti = req[r].jti, req'[r].t \in Nat, req[r].t <= req'[r].t
      PROVE  (req[r].jti \in lost \/ \E t \in Tab : Asks(t, r))'
  <2>1. CASE req[r].jti \in lost
    BY <1>0, <1>1, <2>1
  <2>2. ASSUME NEW t \in Tab, Asks(t, r) PROVE (req[r].jti \in lost \/ Asks(t, r))'
    <3>1. CASE tab'[t] = tab[t]
      BY <1>0, <1>1, <2>2, <3>1 DEF Asks, TabAt
    <3>q. QED BY <1>1, <2>2, <3>1, AskStays
  <2>q. QED BY <1>0, <1>1, <2>1, <2>2 DEF AskedOK
<1>2. CASE req'[r] = req[r]
  BY <1>0, <1>1, <1>2 DEF Asking
<1>3. CASE Moves(r)
  <2>1. CASE req[r].pc = "idle"
    <3>1. req'[r].pc = "valid"
      BY <1>3, <2>1 DEF Moves, InServer, Idle
    <3>2. PICK t \in Tab : /\ TabAt(t, "sending")
                           /\ tab' = [tab EXCEPT ![t].pc = "refreshing", ![t].req = r]
                           /\ req'[r].jti = tab[t].jti /\ req'[r].t = now
      BY <2>1, <3>1, BeginStep
    <3>3. /\ tab'[t].pc = "refreshing" /\ tab'[t].req = r /\ tab'[t].jti = tab[t].jti
          /\ tab'[t].since = tab[t].since
      BY <1>0, <3>2 DEF TabState
    <3>4. tab[t].since <= now
      BY <1>0, <3>2 DEF PagesOK
    <3>q. QED BY <3>2, <3>3, <3>4 DEF Asks, TabAt
  <2>2. CASE req[r].pc # "idle"
    <3>1. /\ r \in Asking /\ req'[r].jti = req[r].jti /\ req'[r].t \in {req[r].t, now}
      BY <1>3, <2>2 DEF Moves, Idle, Asking
    <3>q. QED BY <1>0, <1>1, <3>1
  <2>q. QED BY <2>1, <2>2
<1>4. req'[r] # Idle
  BY DEF Idle
<1>q. QED BY <1>0, <1>2, <1>3, <1>4, RequestMoves

\* The browser keeps a token that is moved past only while a tab will hear of it.
LEMMA AwaitedStep == ASSUME ~Faulty, TabsInv, [BrowserNext]_allVars PROVE AwaitedOK'
<1> SUFFICES ASSUME SupersededRow(stored)'
             PROVE  (stored \in lost)' \/ \E t \in Tab : Awaits(t, stored)'
  BY DEF AwaitedOK
<1>0. /\ AwaitedOK /\ AskedOK /\ PagesOK /\ OffersOK /\ RowsOK /\ IInv /\ [Next]_vars /\ ClientOK
      /\ lost \subseteq lost' /\ req \in [Req -> Request] /\ NoJti \notin DOMAIN db'
      /\ \A t \in Tab : TabAt(t, "refreshing") => tab[t].req \in Req
  <2>1. IInv'
    BY TabsSimulate, SafeStep
  <2>q. QED BY <2>1, HistoryGrows, TabTypes, TabsSimulate, NoJtiAssumption
            DEF TabsInv, IInv, TypeOK, IsTable
<1>1. PICK j : j = stored'
  OBVIOUS
<1>2. j \in DOMAIN db' /\ db'[j].next # NoJti /\ j # NoJti
  BY <1>0, <1>1 DEF SupersededRow
<1>3. stored = j
  <2>1. ASSUME NEW r \in Req, At(r, "ok"), Deliver(r), stored' = req[r].new PROVE FALSE
    <3>1. j \notin held /\ db' = db
      BY <1>0, <1>1, <2>1 DEF OffersOK, Deliver
    <3>q. QED BY <1>0, <1>2, <3>1 DEF RowsOK
  <2>q. QED BY <1>1, <1>2, <2>1, StoredMoves
<1>4. j \in held
  BY <1>0, <1>2, <1>3 DEF PagesOK
<1>5. ASSUME SupersededRow(j), db'[j].at = db[j].at
      PROVE  (stored \in lost)' \/ \E t \in Tab : Awaits(t, stored)'
  <2>1. CASE stored \in lost
    BY <1>0, <1>1, <1>3, <2>1
  <2>2. ASSUME NEW t \in Tab, Awaits(t, stored) PROVE (stored \in lost)' \/ Awaits(t, stored)'
    <3>1. /\ tab[t].pc = "refreshing" /\ tab[t].req \in Req /\ tab[t].jti = j
          /\ req[tab[t].req].pc \in {"ok", "idle"} /\ tab[t].since <= db[j].at
      BY <1>0, <1>3, <2>2 DEF Awaits, TabAt
    <3>2. tab'[t] = tab[t] \/ j \in lost'
      <4>1. ASSUME At(tab[t].req, "ok"), stored' = req[tab[t].req].new PROVE FALSE
        BY <1>0, <1>1, <1>4, <3>1, <4>1 DEF OffersOK
      <4>q. QED BY <3>1, <4>1, TabMoves DEF Forgets, TakesUp, Sends, TabAt
    <3>3. req'[tab[t].req].pc \in {"ok", "idle"}
      <4> DEFINE q == tab[t].req
      <4>1. CASE req'[q] = req[q] \/ req'[q] = Idle
        BY <3>1, <4>1 DEF Idle
      <4>2. CASE Moves(q)
        BY <3>1, <4>2, BeginStep DEF Moves, InServer, Idle
      <4>3. req' = req \/ req'[q] = Idle \/ Moves(q) \/ req'[q] = req[q]
        BY <1>0, <3>1, RequestMoves
      <4>q. QED BY <4>1, <4>2, <4>3
    <3>q. QED BY <1>1, <1>5, <3>1, <3>2, <3>3 DEF Awaits, TabAt
  <2>q. QED BY <1>0, <1>3, <1>5, <2>1, <2>2 DEF AwaitedOK
<1>6. ASSUME NEW r \in Req, req[r].pc = "rotate", req'[r].pc = "ok", req[r].jti = j, db'[j].at = req[r].t
      PROVE  (stored \in lost)' \/ \E t \in Tab : Awaits(t, stored)'
  <2>1. CASE req[r].jti \in lost
    BY <1>0, <1>1, <1>6, <2>1
  <2>2. ASSUME NEW t \in Tab, Asks(t, r) PROVE (stored \in lost)' \/ Awaits(t, stored)'
    <3>1. tab'[t] = tab[t] \/ j \in lost'
      BY <1>6, <2>2, AskStays DEF Asking
    <3>q. QED BY <1>1, <1>6, <2>2, <3>1 DEF Asks, Awaits, TabAt
  <2>q. QED BY <1>0, <1>6, <2>1, <2>2 DEF AskedOK, Asking
<1>q. QED BY <1>0, <1>2, <1>5, <1>6, SupersededStep DEF SupersededRow

\* A tab that comes with a token that was moved past comes within a round trip.
LEMMA LateStep == ASSUME ~Faulty, TabsInv, [BrowserNext]_allVars PROVE LateOK'
<1> SUFFICES ASSUME NEW t \in Tab, SupersededRow(tab[t].jti)'
             PROVE  (tab[t].jti \in lost \/ tab[t].since <= db[tab[t].jti].at + RoundTrip)'
  BY DEF LateOK
<1>0. /\ LateOK /\ AwaitedOK /\ AskedOK /\ PagesOK /\ RowsOK /\ IInv /\ [Next]_vars
      /\ lost \subseteq lost' /\ NoJti \notin DOMAIN db'
      /\ now \in Nat /\ RoundTrip \in Nat /\ \A u \in Tab : tab[u].since \in Nat
      /\ \A u \in Tab : TabAt(u, "refreshing") => tab[u].jti # NoJti
      /\ \A k \in DOMAIN db : db[k].at \in Nat
      /\ \A r \in Req : req[r].t \in Nat
  <2>1. IInv'
    BY TabsSimulate, SafeStep
  <2>q. QED BY <2>1, HistoryGrows, TabTypes, TabsSimulate, NoJtiAssumption, RoundTripAssumption
            DEF TabsInv, IInv, TypeOK, IsTable
<1>1. PICK j : j = tab'[t].jti
  OBVIOUS
<1>2. j \in DOMAIN db' /\ db'[j].next # NoJti /\ j # NoJti
  BY <1>0, <1>1 DEF SupersededRow
<1>3. ASSUME NEW u \in Tab, TabAt(u, "refreshing"), tab[u].jti = j, NEW at \in Nat, tab[u].since <= at,
             NEW s \in Nat, s <= now
      PROVE  s <= at + RoundTrip
  BY <1>0, <1>3 DEF PagesOK
<1>4. ASSUME tab[t].jti = j, tab'[t].since = tab[t].since
      PROVE  j \in lost' \/ tab'[t].since <= db'[j].at + RoundTrip
  <2>0. tab[t].since \in Nat /\ tab[t].since <= now
    BY <1>0, <1>2, <1>4 DEF PagesOK
  <2>1. CASE SupersededRow(j) /\ db'[j].at = db[j].at
    BY <1>0, <1>4, <2>1 DEF LateOK
  <2>2. ASSUME NEW r \in Req, req[r].pc = "rotate", req[r].jti = j, db'[j].at = req[r].t
        PROVE  j \in lost' \/ tab'[t].since <= db'[j].at + RoundTrip
    <3>1. CASE req[r].jti \in lost
      BY <1>0, <2>2, <3>1
    <3>2. ASSUME NEW u \in Tab, Asks(u, r) PROVE tab[t].since <= req[r].t + RoundTrip
      BY <1>0, <1>3, <2>0, <2>2, <3>2 DEF Asks
    <3>q. QED BY <1>0, <1>4, <2>2, <3>1, <3>2 DEF AskedOK, Asking
  <2>q. QED BY <1>0, <1>2, <2>1, <2>2, SupersededStep DEF SupersededRow
<1>5. CASE TakesUp(t)
  <2>1. j = stored /\ tab'[t].since = now /\ db' = db
    BY <1>1, <1>5 DEF TakesUp, server, vars
  <2>2. SupersededRow(j) /\ db[j].at \in Nat
    BY <1>0, <1>2, <2>1 DEF SupersededRow
  <2>3. ASSUME NEW u \in Tab, Awaits(u, stored) PROVE now <= db[j].at + RoundTrip
    <3>1. TabAt(u, "refreshing") /\ tab[u].jti = j /\ tab[u].since <= db[j].at
      BY <2>1, <2>3 DEF Awaits
    <3>q. QED BY <1>0, <1>3, <2>2, <3>1
  <2>q. QED BY <1>0, <1>1, <2>1, <2>2, <2>3 DEF AwaitedOK
<1>6. CASE tab'[t] = tab[t]
  BY <1>1, <1>4, <1>6
<1>7. CASE Forgets(t)
  BY <1>1, <1>2, <1>7 DEF Forgets
<1>8. CASE Sends(t)
  BY <1>1, <1>2, <1>4, <1>8 DEF Sends
<1>q. QED BY <1>5, <1>6, <1>7, <1>8, TabMoves

LEMMA TabsInit == BrowserInit => TabsInv
<1> SUFFICES ASSUME BrowserInit PROVE TabsInv
  OBVIOUS
<1>1. ReuseInv /\ ClientOK
  BY ReuseInit, ClientStarts DEF BrowserInit
<1>2. /\ \A r \in Req : req[r] = Idle
      /\ \A t \in Tab : tab[t] = Shows("prompt")
      /\ now = 0 /\ db = EmptyTable /\ disk = EmptyTable /\ DOMAIN EmptyTable = {}
      /\ held = {} /\ dead = {} /\ burned = {} /\ stored = NoJti /\ lost = {} /\ revoking = {}
  BY DEF BrowserInit, Init, ClientInit, EmptyTable
<1>3. OffersOK
  BY <1>2 DEF OffersOK, Idle, At
<1>4. RowsOK
  BY <1>2 DEF RowsOK, Closed
<1>5. PagesOK /\ LateOK
  BY <1>2 DEF PagesOK, LateOK, SupersededRow, Shows
<1>6. AskedOK /\ AwaitedOK
  BY <1>2 DEF AskedOK, Asking, Idle, AwaitedOK, SupersededRow
<1>q. QED BY <1>1, <1>3, <1>4, <1>5, <1>6 DEF TabsInv

LEMMA TabsNext == ~Faulty /\ TabsInv /\ [BrowserNext]_allVars => TabsInv'
<1> SUFFICES ASSUME ~Faulty, TabsInv, [BrowserNext]_allVars PROVE TabsInv'
  OBVIOUS
<1>1. [Next]_vars /\ IInv' /\ ReuseInv'
  BY TabsSimulate, SafeStep, ReuseStep DEF TabsInv
<1>2. ClientOK'
  BY <1>1, ClientStep DEF TabsInv, ReuseInv, IInv
<1>q. QED
  BY <1>1, <1>2, OffersStep, RowsStep, PagesStep, AskedStep, AwaitedStep, LateStep DEF TabsInv

LEMMA TabsInvariant == ~Faulty => (BrowserSpec => []TabsInv)
<1> SUFFICES ASSUME ~Faulty PROVE BrowserSpec => []TabsInv
  OBVIOUS
<1>1. TabsInv /\ [BrowserNext]_allVars => TabsInv'
  BY TabsNext
<1>q. QED BY <1>1, TabsInit, PTL DEF BrowserSpec

\* While no statement of sqlite raises, the refresh token the browser keeps can be
\* rotated, unless it expired, was burned, or the answer that replaced it was lost.
THEOREM StoredStaysAlive == ~Faulty => (BrowserSpec => []StoredTokenIsAlive)
<1> SUFFICES ASSUME ~Faulty PROVE BrowserSpec => []StoredTokenIsAlive
  OBVIOUS
<1>1. TabsInv => StoredTokenIsAlive
  <2> SUFFICES ASSUME TabsInv, stored # NoJti, stored \notin lost \cup burned,
                      \A t \in Tab : tab[t].jti # stored,
                      claim[stored].exp > now, StoredExp(stored) > now
               PROVE  Rotatable(db, stored, now)
    BY DEF StoredTokenIsAlive
  <2>1. IInv /\ RowsOK /\ AwaitedOK /\ stored \in held \ revoking
    BY DEF TabsInv, ReuseInv, PagesOK
  <2>2. stored \in DOMAIN db /\ db[stored].exp = StoredExp(stored)
    BY <2>1 DEF IInv, Sound, Given, StoredExp
  <2>3. db[stored].revoked = 0
    BY <2>1, <2>2, TabTypes DEF RowsOK, Row
  <2>4. ~SupersededRow(stored)
    BY <2>1 DEF AwaitedOK, Awaits
  <2>q. QED BY <2>2, <2>3, <2>4 DEF Rotatable, SupersededRow
<1>q. QED BY <1>1, TabsInvariant, PTL

\* While no statement of sqlite raises, tabs that race for one token never have its
\* chain burned: they present it within two round trips, which the grace covers.
THEOREM RacesNeverBurn == ~Faulty => (BrowserSpec => TabsNeverBurn)
<1> SUFFICES ASSUME ~Faulty PROVE BrowserSpec => TabsNeverBurn
  OBVIOUS
<1>1. TabsInv /\ [BrowserNext]_allVars =>
         [burned' # burned =>
             \E r \in Req :
                /\ At(r, "burn")
                /\ \/ req[r].jti \in lost \cup revoking
                   \/ StoredExp(req[r].jti) <= req[r].t]_allVars
  <2> SUFFICES ASSUME TabsInv, [BrowserNext]_allVars, burned' # burned
               PROVE  \E r \in Req :
                         /\ At(r, "burn")
                         /\ \/ req[r].jti \in lost \cup revoking
                            \/ StoredExp(req[r].jti) <= req[r].t
    OBVIOUS
  <2>0. /\ [Next]_vars /\ IInv /\ ReuseInv /\ RowsOK /\ AskedOK /\ LateOK /\ PagesOK
        /\ Grace \in Nat /\ RoundTrip \in Nat /\ now \in Nat
    BY TabsSimulate, TabTypes, TimesAssumption, RoundTripAssumption DEF TabsInv
  <2>1. PICK r \in Req : RevokeChain(r)
    BY <2>0 DEF Next, vars, Verify, Issue, Refresh, Logout, IsValidYes, IsValidNo, IsSuperseded,
       Rotate, Revoke, Deliver, Lose, PurgeExpired, Restart, Tick
  <2> DEFINE j == req[r].jti
  <2>2. /\ At(r, "burn") /\ burned' = burned \cup Walk(db, j)
        /\ j \in Jti /\ SupersededRow(j) /\ Refused(db[j], req[r].t)
    BY <2>0, <2>1 DEF RevokeChain, ReuseInv, SupersededRow, IsTable, IInv, TypeOK
  <2>3. CASE db[j].exp <= req[r].t
    BY <2>0, <2>2, <2>3 DEF IInv, Sound, StoredExp, SupersededRow
  <2>4. CASE db[j].revoked = 1
    <3>1. j \in burned => Walk(db, j) \subseteq burned
      BY <2>0, <2>2, WalkLeast DEF RowsOK, IInv, TypeOK
    <3>q. QED BY <2>0, <2>2, <2>4, <3>1 DEF RowsOK, SupersededRow
  <2>5. CASE req[r].t - db[j].at >= Grace
    <3>1. /\ db[j].at \in Nat /\ req[r].t \in Nat /\ req[r].t <= now
      BY <2>0, <2>2, TabTypes DEF SupersededRow, TabsInv, OffersOK
    <3>2. ASSUME NEW t \in Tab, Asks(t, r), j \notin lost PROVE FALSE
      <4>1. tab[t].jti = j /\ tab[t].since \in Nat /\ j # NoJti
        BY <2>2, <3>2, TabTypes, NoJtiAssumption DEF Asks
      <4>2. now <= tab[t].since + RoundTrip /\ tab[t].since <= db[j].at + RoundTrip
        BY <2>0, <2>2, <3>2, <4>1 DEF PagesOK, LateOK
      <4>q. QED BY <2>0, <2>5, <3>1, <4>1, <4>2, TwoTripsAssumption
    <3>q. QED BY <2>0, <2>2, <3>2 DEF AskedOK, Asking, At
  <2>q. QED BY <2>2, <2>3, <2>4, <2>5 DEF Refused
<1>q. QED BY <1>1, TabsInvariant, PTL DEF BrowserSpec, TabsNeverBurn
=============================================================================
