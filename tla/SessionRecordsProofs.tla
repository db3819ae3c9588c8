------------------------ MODULE SessionRecordsProofs ------------------------
(***************************************************************************)
(* What SessionRecords guarantees for any names, requests, conversations   *)
(* and events.  Each writer of the table is shown once, as an operator, to *)
(* leave it whole and to keep the past of its rows; a step is one or two   *)
(* of them.  For that no type of the panes is needed, and none of what     *)
(* lineage_head finds: whichever row it is, only an empty one is written.  *)
(*                                                                         *)
(* That the head of a pane's line is not left behind needs all of it: what *)
(* the panes, the jobs and the rows can be (PanesOK, JobsOK, RowsOK), what *)
(* a pane that the server has followed can be (Heard), and what the head   *)
(* of its line may say while its claude is between two conversations       *)
(* (Followed).  A writer does to the lines one of a few things (Same,      *)
(* Told, Hung, Added, Moved, Branded); each is shown once to leave the     *)
(* lines of the other panes alone.                                         *)
(***************************************************************************)
EXTENDS SessionRecords, WellFoundedInduction, TLAPS

Fields == {"name", "epoch", "sid", "life", "conv", "parent", "kind"}

IsTable(rs) ==
    /\ \E S : rs \in Seq(S)
    /\ \A r \in DOMAIN rs : DOMAIN rs[r] = Fields

Distinct(rs) ==
    \A r, s \in DOMAIN rs : r # s =>
        /\ rs[r].epoch # None => <<rs[r].name, rs[r].epoch>> # <<rs[s].name, rs[s].epoch>>
        /\ rs[r].conv # None => rs[r].conv # rs[s].conv

Whole(rs) == IsTable(rs) /\ Distinct(rs)

\* The rows of rs are in ts with their past, and but for those of B the stopped
\* ones are stopped.
Past(rs, ts, B) ==
    /\ DOMAIN rs \subseteq DOMAIN ts
    /\ \A r \in DOMAIN rs :
          /\ rs[r].conv # None => ts[r].conv = rs[r].conv
          /\ rs[r].parent # None => ts[r].parent = rs[r].parent
          /\ r \in B \/ (rs[r].life = "stopped" => ts[r].life = "stopped")

Inv == Whole(rows)
-----------------------------------------------------------------------------
(* Tables.                                                                 *)

\* A table rewritten row by row is a table.
LEMMA Rewritten ==
    ASSUME NEW rs, NEW ts, IsTable(rs), ts = [r \in DOMAIN rs |-> ts[r]],
           \A r \in DOMAIN rs : DOMAIN ts[r] = Fields
    PROVE  IsTable(ts)
<1>1. PICK S : rs \in Seq(S)
  BY DEF IsTable
<1>2. Len(rs) \in Nat /\ DOMAIN rs = 1 .. Len(rs)
  BY <1>1
<1> DEFINE T == {ts[r] : r \in 1 .. Len(rs)}
<1>3. ts \in [1 .. Len(rs) -> T]
  BY <1>2
<1>4. ts \in Seq(T)
  BY <1>2, <1>3
<1>q. QED BY <1>4 DEF IsTable

\* A table with a new row.
LEMMA Appended ==
    ASSUME NEW rs, NEW x, IsTable(rs), DOMAIN x = Fields
    PROVE  /\ IsTable(Append(rs, x))
           /\ Len(rs) + 1 \notin DOMAIN rs
           /\ DOMAIN Append(rs, x) = DOMAIN rs \cup {Len(rs) + 1}
           /\ Append(rs, x)[Len(rs) + 1] = x
           /\ \A r \in DOMAIN rs : Append(rs, x)[r] = rs[r]
<1>1. PICK S : rs \in Seq(S)
  BY DEF IsTable
<1>2. rs \in Seq(S \cup {x}) /\ x \in S \cup {x}
  BY <1>1
<1> HIDE <1>2
<1>3. /\ Append(rs, x) \in Seq(S \cup {x})
      /\ Len(rs) \in Nat /\ DOMAIN rs = 1 .. Len(rs)
      /\ DOMAIN Append(rs, x) = 1 .. Len(rs) + 1
      /\ Append(rs, x)[Len(rs) + 1] = x
      /\ \A r \in 1 .. Len(rs) : Append(rs, x)[r] = rs[r]
  BY <1>2
<1>4. Len(rs) + 1 \notin DOMAIN rs /\ DOMAIN Append(rs, x) = DOMAIN rs \cup {Len(rs) + 1}
  BY <1>3
<1>q. QED BY <1>3, <1>4 DEF IsTable

LEMMA PastRefl == ASSUME NEW rs, NEW B PROVE Past(rs, rs, B)
BY DEF Past

LEMMA PastTrans ==
    ASSUME NEW rs, NEW ts, NEW us, NEW B, Past(rs, ts, {}), Past(ts, us, B)
    PROVE  Past(rs, us, B)
BY DEF Past
-----------------------------------------------------------------------------
(* Writers.                                                                *)

LEMMA ReconciledKeeps ==
    ASSUME NEW rs, NEW listing, Whole(rs)
    PROVE  Whole(Reconciled(rs, listing)) /\ Past(rs, Reconciled(rs, listing), {})
<1> DEFINE ts == Reconciled(rs, listing)
<1>1. CASE listing # "complete"
  BY <1>1, PastRefl DEF Reconciled
<1>2. CASE listing = "complete"
  <2>1. /\ ts = [r \in DOMAIN rs |-> ts[r]]
        /\ \A r \in DOMAIN rs : ts[r] = rs[r] \/ ts[r] = [rs[r] EXCEPT !.life = "stopped"]
    BY <1>2 DEF Reconciled
  <2> HIDE DEF ts
  <2>2. DOMAIN ts = DOMAIN rs
    BY <2>1
  <2>3. \A r \in DOMAIN rs : DOMAIN rs[r] = Fields
    BY DEF Whole, IsTable
  <2>4. \A r \in DOMAIN rs :
            /\ DOMAIN ts[r] = Fields
            /\ ts[r].name = rs[r].name /\ ts[r].epoch = rs[r].epoch
            /\ ts[r].conv = rs[r].conv /\ ts[r].parent = rs[r].parent
            /\ rs[r].life = "stopped" => ts[r].life = "stopped"
    BY <2>1, <2>3 DEF Fields
  <2>5. IsTable(ts)
    BY <2>1, <2>4, Rewritten DEF Whole
  <2>6. Distinct(ts) /\ Past(rs, ts, {})
    BY <2>2, <2>4 DEF Whole, Distinct, Past
  <2>q. QED BY <2>5, <2>6 DEF Whole, ts
<1>q. QED BY <1>1, <1>2

\* A row with one field more is a row whose other fields stand.
LEMMA OneField ==
    ASSUME NEW rs, NEW ts, NEW r, Whole(rs), ts = [s \in DOMAIN rs |-> ts[s]],
           \A s \in DOMAIN rs \ {r} : ts[s] = rs[s],
           r \in DOMAIN rs => /\ DOMAIN ts[r] = Fields
                              /\ ts[r].name = rs[r].name /\ ts[r].epoch = rs[r].epoch
                              /\ \/ ts[r].conv = rs[r].conv
                                 \/ rs[r].conv = None /\ KnownAs(rs, ts[r].conv) = {}
                              /\ rs[r].parent # None => ts[r].parent = rs[r].parent
                              /\ rs[r].life = "stopped" => ts[r].life = "stopped"
    PROVE  Whole(ts) /\ Past(rs, ts, {})
<1>1. DOMAIN ts = DOMAIN rs /\ \A s \in DOMAIN rs : DOMAIN ts[s] = Fields
  BY DEF Whole, IsTable
<1>2. IsTable(ts)
  BY <1>1, Rewritten DEF Whole
<1>3. ASSUME NEW s \in DOMAIN rs, NEW u \in DOMAIN rs, s # u
      PROVE  /\ ts[s].epoch # None => <<ts[s].name, ts[s].epoch>> # <<ts[u].name, ts[u].epoch>>
             /\ ts[s].conv # None => ts[s].conv # ts[u].conv
  <2>1. /\ rs[s].epoch # None => <<rs[s].name, rs[s].epoch>> # <<rs[u].name, rs[u].epoch>>
        /\ rs[s].conv # None => rs[s].conv # rs[u].conv
        /\ rs[u].conv # None => rs[s].conv # rs[u].conv
    BY <1>3 DEF Whole, Distinct
  <2>2. CASE s = r
    BY <2>1, <2>2, <1>3 DEF KnownAs
  <2>3. CASE u = r
    BY <2>1, <2>3, <1>3 DEF KnownAs
  <2>4. CASE s # r /\ u # r
    BY <2>1, <2>4
  <2>q. QED BY <2>2, <2>3, <2>4
<1>4. Distinct(ts)
  BY <1>1, <1>3 DEF Distinct
<1>5. Past(rs, ts, {})
  BY <1>1 DEF Past
<1>q. QED BY <1>2, <1>4, <1>5 DEF Whole

\* A new row whose pane and whose conversation no other row has.
LEMMA NewRow ==
    ASSUME NEW rs, NEW x, Whole(rs), DOMAIN x = Fields,
           \A r \in DOMAIN rs : rs[r].epoch # None => <<rs[r].name, rs[r].epoch>> # <<x.name, x.epoch>>,
           x.conv = None \/ KnownAs(rs, x.conv) = {}
    PROVE  Whole(Append(rs, x)) /\ Past(rs, Append(rs, x), {})
<1> DEFINE ts == Append(rs, x)
           k == Len(rs) + 1
<1>1. /\ IsTable(ts) /\ k \notin DOMAIN rs /\ DOMAIN ts = DOMAIN rs \cup {k}
      /\ ts[k] = x /\ \A r \in DOMAIN rs : ts[r] = rs[r]
  BY Appended DEF Whole
<1> HIDE DEF ts, k
<1>2. ASSUME NEW s \in DOMAIN ts, NEW u \in DOMAIN ts, s # u
      PROVE  /\ ts[s].epoch # None => <<ts[s].name, ts[s].epoch>> # <<ts[u].name, ts[u].epoch>>
             /\ ts[s].conv # None => ts[s].conv # ts[u].conv
  <2>1. CASE s \in DOMAIN rs /\ u \in DOMAIN rs
    BY <1>1, <1>2, <2>1 DEF Whole, Distinct
  <2>2. CASE s \in DOMAIN rs /\ u = k
    BY <1>1, <2>2 DEF KnownAs
  <2>3. CASE s = k /\ u \in DOMAIN rs
    BY <1>1, <2>3 DEF KnownAs
  <2>q. QED BY <1>1, <1>2, <2>1, <2>2, <2>3
<1>3. Distinct(ts) /\ Past(rs, ts, {})
  BY <1>1, <1>2 DEF Distinct, Past
<1>q. QED BY <1>1, <1>3 DEF Whole, ts

LEMMA CorrelatedKeeps ==
    ASSUME NEW rs, NEW n, NEW c, Whole(rs)
    PROVE  Whole(Correlated(rs, n, c)) /\ Past(rs, Correlated(rs, n, c), {})
<1> DEFINE found == Instance(rs, n, panes[n].epoch)
           ts == Correlated(rs, n, c)
<1>1. CASE c = None \/ KnownAs(rs, c) # {} \/ found = {}
  <2>1. CASE c = None \/ KnownAs(rs, c) # {}
    BY <2>1, PastRefl DEF Correlated
  <2>2. CASE ~ (c = None \/ KnownAs(rs, c) # {}) /\ found = {}
    <3>1. ts = [r \in DOMAIN rs |-> rs[r]]
      BY <2>2 DEF Correlated
    <3>2. \E S : rs \in Seq(S)
      BY DEF Whole, IsTable
    <3>3. ts = rs
      BY <3>1, <3>2
    <3>q. QED BY <3>3, PastRefl
  <2>q. QED BY <1>1, <2>1, <2>2
<1>2. CASE c # None /\ KnownAs(rs, c) = {} /\ found # {}
  <2>1. PICK a \in found : TRUE
    BY <1>2
  <2>2. a \in DOMAIN rs /\ \A r \in found : r = a
    BY <2>1 DEF Instance, Whole, Distinct
  <2>3. /\ ts = [r \in DOMAIN rs |-> ts[r]]
        /\ \A r \in DOMAIN rs \ {a} : ts[r] = rs[r]
        /\ \/ ts[a] = rs[a]
           \/ rs[a].conv = None /\ ts[a] = [rs[a] EXCEPT !.conv = c]
    BY <1>2, <2>2 DEF Correlated
  <2>4. DOMAIN rs[a] = Fields
    BY <2>2 DEF Whole, IsTable
  <2> HIDE DEF ts
  <2>5. /\ DOMAIN ts[a] = Fields
        /\ ts[a].name = rs[a].name /\ ts[a].epoch = rs[a].epoch
        /\ ts[a].conv = rs[a].conv \/ (rs[a].conv = None /\ ts[a].conv = c)
        /\ ts[a].parent = rs[a].parent /\ ts[a].life = rs[a].life
    BY <2>3, <2>4 DEF Fields
  <2>q. QED BY <1>2, <2>3, <2>5, OneField DEF ts
<1>q. QED BY <1>1, <1>2

LEMMA SightedKeeps ==
    ASSUME NEW rs, NEW n, Whole(rs), ~ Refused(rs, n)
    PROVE  Whole(Sighted(rs, n)) /\ Past(rs, Sighted(rs, n), {})
<1> DEFINE found == Instance(rs, n, panes[n].epoch)
           ts == Sighted(rs, n)
<1>1. CASE found # {}
  <2>1. PICK a \in found : TRUE
    BY <1>1
  <2>2. a \in DOMAIN rs /\ (\A r \in found : r = a) /\ rs[a].life # "stopped"
    BY <2>1 DEF Instance, Whole, Distinct, Refused
  <2>3. /\ ts = [r \in DOMAIN rs |-> ts[r]]
        /\ \A r \in DOMAIN rs \ {a} : ts[r] = rs[r]
        /\ ts[a] = [rs[a] EXCEPT !.life = "running"]
    BY <1>1, <2>1, <2>2 DEF Sighted
  <2>4. DOMAIN rs[a] = Fields
    BY <2>2 DEF Whole, IsTable
  <2> HIDE DEF ts
  <2>5. /\ DOMAIN ts[a] = Fields
        /\ ts[a].name = rs[a].name /\ ts[a].epoch = rs[a].epoch
        /\ ts[a].conv = rs[a].conv /\ ts[a].parent = rs[a].parent
    BY <2>3, <2>4 DEF Fields
  <2>q. QED BY <2>2, <2>3, <2>5, OneField DEF ts
<1>2. CASE found = {}
  <2> DEFINE x == [name |-> n, epoch |-> panes[n].epoch, sid |-> panes[n].sid,
                   life |-> "running", conv |-> None, parent |-> None, kind |-> None]
  <2>1. ts = Append(rs, x)
    BY <1>2 DEF Sighted
  <2>2. DOMAIN x = Fields /\ x.name = n /\ x.epoch = panes[n].epoch /\ x.conv = None
    BY DEF Fields
  <2> HIDE DEF ts, x
  <2>3. \A r \in DOMAIN rs : rs[r].epoch # None => <<rs[r].name, rs[r].epoch>> # <<n, panes[n].epoch>>
    BY <1>2 DEF Instance
  <2>q. QED BY <2>1, <2>2, <2>3, NewRow DEF ts
<1>q. QED BY <1>1, <1>2

LEMMA ReboundKeeps ==
    ASSUME NEW rs, NEW r, NEW n, Whole(rs), ~ Clashes(rs, r, n)
    PROVE  Whole(Rebound(rs, r, n)) /\ Past(rs, Rebound(rs, r, n), {r})
<1> DEFINE ts == Rebound(rs, r, n)
<1>1. ts = [s \in DOMAIN rs |-> ts[s]] /\ \A s \in DOMAIN rs \ {r} : ts[s] = rs[s]
  BY DEF Rebound
<1>2. DOMAIN ts = DOMAIN rs
  BY <1>1
<1>3. \A s \in DOMAIN rs : DOMAIN rs[s] = Fields
  BY DEF Whole, IsTable
<1>4. ASSUME r \in DOMAIN rs
      PROVE  /\ DOMAIN ts[r] = Fields
             /\ ts[r].name = n /\ ts[r].epoch = panes[n].epoch
             /\ ts[r].conv = rs[r].conv /\ ts[r].parent = rs[r].parent
  <2>1. ts[r] = [[[[rs[r] EXCEPT !.name = n] EXCEPT !.epoch = panes[n].epoch]
                    EXCEPT !.sid = panes[n].sid] EXCEPT !.life = "running"]
    BY <1>4 DEF Rebound
  <2>q. QED BY <1>3, <1>4, <2>1 DEF Fields
<1> HIDE DEF ts
<1>5. IsTable(ts)
  BY <1>1, <1>3, <1>4, Rewritten DEF Whole
<1>6. ASSUME NEW s \in DOMAIN rs, NEW u \in DOMAIN rs, s # u
      PROVE  /\ ts[s].epoch # None => <<ts[s].name, ts[s].epoch>> # <<ts[u].name, ts[u].epoch>>
             /\ ts[s].conv # None => ts[s].conv # ts[u].conv
  <2>1. /\ rs[s].epoch # None => <<rs[s].name, rs[s].epoch>> # <<rs[u].name, rs[u].epoch>>
        /\ rs[s].conv # None => rs[s].conv # rs[u].conv
    BY <1>6 DEF Whole, Distinct
  <2>2. \A v \in DOMAIN rs \ {r} :
            rs[v].epoch # None => <<rs[v].name, rs[v].epoch>> # <<n, panes[n].epoch>>
    BY DEF Clashes, Instance
  <2>3. CASE s = r
    BY <1>1, <1>4, <1>6, <2>1, <2>2, <2>3
  <2>4. CASE u = r
    BY <1>1, <1>4, <1>6, <2>1, <2>2, <2>4
  <2>5. CASE s # r /\ u # r
    BY <1>1, <2>1, <2>5
  <2>q. QED BY <2>3, <2>4, <2>5
<1>7. Distinct(ts)
  BY <1>2, <1>6 DEF Distinct
<1>8. Past(rs, ts, {r})
  BY <1>1, <1>2, <1>4 DEF Past
<1>q. QED BY <1>5, <1>7, <1>8 DEF Whole, ts

LEMMA RecordedKeeps ==
    ASSUME NEW rs, NEW n, NEW c, NEW source, NEW left, Whole(rs)
    PROVE  /\ Whole(Recorded(rs, n, c, source, left))
           /\ Past(rs, Recorded(rs, n, c, source, left), {})
<1> DEFINE head == lineage_head(rs, CHOOSE r \in Instance(rs, n, panes[n].epoch) : TRUE)
           kind == IF source = "fork" /\ ~ left THEN "background" ELSE source
           x == [name |-> n, epoch |-> None, sid |-> None, life |-> "stopped",
                 conv |-> c, parent |-> head, kind |-> kind]
           ts == Recorded(rs, n, c, source, left)
<1>1. \/ ts = rs
      \/ KnownAs(rs, c) = {} /\ rs[head].conv = None /\ ts = [rs EXCEPT ![head].conv = c]
      \/ KnownAs(rs, c) = {} /\ ts = Append(rs, x)
  BY DEF Recorded
<1>2. DOMAIN x = Fields /\ x.name = n /\ x.epoch = None /\ x.conv = c
  BY DEF Fields
<1> HIDE DEF ts, x, head
<1>3. CASE ts = rs
  BY <1>3, PastRefl DEF ts
<1>4. CASE KnownAs(rs, c) = {} /\ rs[head].conv = None /\ ts = [rs EXCEPT ![head].conv = c]
  <2>1. /\ ts = [s \in DOMAIN rs |-> ts[s]]
        /\ \A s \in DOMAIN rs \ {head} : ts[s] = rs[s]
        /\ head \in DOMAIN rs => ts[head] = [rs[head] EXCEPT !.conv = c]
    BY <1>4
  <2>2. head \in DOMAIN rs => DOMAIN rs[head] = Fields
    BY DEF Whole, IsTable
  <2>3. head \in DOMAIN rs => /\ DOMAIN ts[head] = Fields
                              /\ ts[head].name = rs[head].name /\ ts[head].epoch = rs[head].epoch
                              /\ ts[head].conv = c
                              /\ ts[head].parent = rs[head].parent /\ ts[head].life = rs[head].life
    BY <2>1, <2>2 DEF Fields
  <2>4. head \in DOMAIN rs => rs[head].conv = None /\ KnownAs(rs, ts[head].conv) = {}
    BY <1>4, <2>3
  <2>5. Whole(ts) /\ Past(rs, ts, {})
    BY <2>1, <2>3, <2>4, OneField
  <2>q. QED BY <2>5 DEF ts
<1>5. CASE KnownAs(rs, c) = {} /\ ts = Append(rs, x)
  BY <1>2, <1>5, NewRow DEF ts
<1>q. QED BY <1>1, <1>3, <1>4, <1>5

LEMMA StampedKeeps ==
    ASSUME NEW rs, NEW r, NEW p, Whole(rs)
    PROVE  Whole(Stamped(rs, r, p)) /\ Past(rs, Stamped(rs, r, p), {})
<1> DEFINE ts == Stamped(rs, r, p)
<1>1. CASE rs[r].parent # None
  BY <1>1, PastRefl DEF Stamped
<1>2. CASE rs[r].parent = None
  <2>1. /\ ts = [s \in DOMAIN rs |-> ts[s]]
        /\ \A s \in DOMAIN rs \ {r} : ts[s] = rs[s]
    BY <1>2 DEF Stamped
  <2>2. r \in DOMAIN rs => ts[r] = [[rs[r] EXCEPT !.parent = p] EXCEPT !.kind = "fork"]
    BY <1>2 DEF Stamped
  <2>3. r \in DOMAIN rs => DOMAIN rs[r] = Fields
    BY DEF Whole, IsTable
  <2> HIDE DEF ts
  <2>4. r \in DOMAIN rs => /\ DOMAIN ts[r] = Fields
                           /\ ts[r].name = rs[r].name /\ ts[r].epoch = rs[r].epoch
                           /\ ts[r].conv = rs[r].conv /\ ts[r].life = rs[r].life
    BY <2>2, <2>3 DEF Fields
  <2>q. QED BY <1>2, <2>1, <2>4, OneField DEF ts
<1>q. QED BY <1>1, <1>2

\* MarkClosed's write.
LEMMA ClosedKeeps ==
    ASSUME NEW rs, NEW r, Whole(rs)
    PROVE  /\ Whole([rs EXCEPT ![r].life = "stopped"])
           /\ Past(rs, [rs EXCEPT ![r].life = "stopped"], {})
<1> DEFINE ts == [rs EXCEPT ![r].life = "stopped"]
<1>1. /\ ts = [s \in DOMAIN rs |-> ts[s]]
      /\ \A s \in DOMAIN rs \ {r} : ts[s] = rs[s]
      /\ r \in DOMAIN rs => ts[r] = [rs[r] EXCEPT !.life = "stopped"]
  OBVIOUS
<1>2. r \in DOMAIN rs => DOMAIN rs[r] = Fields
  BY DEF Whole, IsTable
<1> HIDE DEF ts
<1>3. r \in DOMAIN rs => /\ DOMAIN ts[r] = Fields
                         /\ ts[r].name = rs[r].name /\ ts[r].epoch = rs[r].epoch
                         /\ ts[r].conv = rs[r].conv /\ ts[r].parent = rs[r].parent
                         /\ ts[r].life = "stopped"
  BY <1>1, <1>2 DEF Fields
<1>q. QED BY <1>1, <1>3, OneField DEF ts
-----------------------------------------------------------------------------
(* Steps.                                                                  *)

\* What every step does to the table: rows keep their past, but for the one
\* whose restart it persists.
Step ==
    /\ Whole(rows')
    /\ \/ Past(rows, rows', {})
       \/ \E q \in DOMAIN jobs \ DOMAIN jobs' :
             jobs[q].kind = "restart" /\ Past(rows, rows', {jobs[q].row})

LEMMA HookStep ==
    ASSUME Inv, NEW n, NEW STATE p, NEW STATE c, NEW STATE source, Start(n, p, c, source)
    PROVE  Step
<1> DEFINE rs == Reconciled(rows, "complete")
<1>1. Whole(rs) /\ Past(rows, rs, {})
  BY ReconciledKeeps DEF Inv
<1>2. \/ rows' = rs
      \/ rows' = rows
      \/ rows' = Recorded(rs, p.home, c, source, p.ended)
      \/ rows' = Correlated(rs, p.home, p.conv)
  BY DEF Start
<1> HIDE DEF rs
<1>3. CASE rows' = rs
  BY <1>1, <1>3 DEF Step
<1>4. CASE rows' = rows
  BY <1>4, PastRefl DEF Step, Inv
<1>5. CASE rows' = Recorded(rs, p.home, c, source, p.ended)
  BY <1>1, <1>5, RecordedKeeps, PastTrans DEF Step
<1>6. CASE rows' = Correlated(rs, p.home, p.conv)
  BY <1>1, <1>6, CorrelatedKeeps, PastTrans DEF Step
<1>q. QED BY <1>2, <1>3, <1>4, <1>5, <1>6

LEMMA PersistStep ==
    ASSUME Inv, NEW q \in Request, NEW listing, Persist(q, listing)
    PROVE  Step
<1> DEFINE job == jobs[q]
           n == job.name
           rs == Reconciled(rows, listing)
<1>1. Whole(rs) /\ Past(rows, rs, {})
  BY ReconciledKeeps DEF Inv
<1>2. \/ rows' = rs
      \/ job.kind = "restart" /\ ~ Clashes(rs, job.row, n) /\ rows' = Rebound(rs, job.row, n)
      \/ ~ Refused(rs, n) /\ rows' = Sighted(rs, n)
  BY DEF Persist
<1>3. job.kind = "restart" => q \in DOMAIN jobs \ DOMAIN jobs'
  BY DEF Persist, Without
<1> HIDE DEF rs, job
<1>4. CASE rows' = rs
  BY <1>1, <1>4 DEF Step
<1>5. CASE job.kind = "restart" /\ ~ Clashes(rs, job.row, n) /\ rows' = Rebound(rs, job.row, n)
  <2>1. Whole(rows') /\ Past(rs, rows', {job.row})
    BY <1>1, <1>5, ReboundKeeps
  <2>2. Past(rows, rows', {job.row})
    BY <1>1, <2>1, PastTrans
  <2>q. QED BY <1>3, <1>5, <2>1, <2>2 DEF Step, job
<1>6. CASE ~ Refused(rs, n) /\ rows' = Sighted(rs, n)
  BY <1>1, <1>6, SightedKeeps, PastTrans DEF Step
<1>q. QED BY <1>2, <1>4, <1>5, <1>6

LEMMA AdoptStep ==
    ASSUME Inv, NEW n \in Name, NEW listing, Adopt(n, listing)
    PROVE  Step
<1> DEFINE rs == Reconciled(rows, listing)
<1>1. Whole(rs) /\ Past(rows, rs, {})
  BY ReconciledKeeps DEF Inv
<1>2. CASE Refused(rs, n)
  BY <1>1, <1>2 DEF Adopt, Step
<1>3. CASE ~ Refused(rs, n)
  <2>1. PICK c : rows' = Correlated(Sighted(rs, n), n, c)
    BY <1>3 DEF Adopt
  <2>2. Whole(Sighted(rs, n)) /\ Past(rows, Sighted(rs, n), {})
    BY <1>1, <1>3, SightedKeeps, PastTrans
  <2>3. Whole(rows') /\ Past(Sighted(rs, n), rows', {})
    BY <2>1, <2>2, CorrelatedKeeps
  <2>q. QED BY <2>2, <2>3, PastTrans DEF Step
<1>q. QED BY <1>2, <1>3

LEMMA StepOfTheTable ==
    ASSUME Inv, [Next]_vars
    PROVE  Step
<1>1. CASE UNCHANGED rows
  BY <1>1, PastRefl DEF Step, Inv
<1>2. CASE Outside
  BY <1>1, <1>2 DEF Outside, Tick, StartOutside, Die, Rename
<1>3. CASE Claude
  <2>1. ASSUME NEW n \in Name, Enter(n) PROVE Step
    BY <2>1, HookStep DEF Enter
  <2>2. ASSUME NEW n \in Name, OtherEnds(n) \/ \E source : Leave(n, source) PROVE Step
    BY <1>1, <2>2 DEF OtherEnds, Leave
  <2>3. ASSUME NEW n \in Name, NEW source, OtherStarts(n, source) PROVE Step
    BY <2>3, HookStep DEF OtherStarts
  <2>q. QED BY <1>3, <2>1, <2>2, <2>3 DEF Claude
<1>4. CASE Server
  <2>1. ASSUME List PROVE Step
    BY <2>1, ReconciledKeeps DEF List, Step, Inv
  <2>2. ASSUME NEW n \in Name, Respawn(n) PROVE Step
    BY <1>1, <2>2 DEF Respawn
  <2>3. ASSUME NEW q \in Request, Stamp(q) PROVE Step
    <3> DEFINE r == Newest(rows, jobs[q].name)
    <3>1. rows' = rows \/ rows' = Stamped(rows, r, jobs[q].row)
      BY <2>3 DEF Stamp
    <3>2. CASE rows' = Stamped(rows, r, jobs[q].row)
      BY <3>2, StampedKeeps DEF Step, Inv
    <3>q. QED BY <1>1, <3>1, <3>2
  <2>4. ASSUME NEW q \in Request, MarkClosed(q) PROVE Step
    <3> DEFINE r == Newest(rows, jobs[q].name)
    <3>1. rows' = rows \/ rows' = [rows EXCEPT ![r].life = "stopped"]
      BY <2>4 DEF MarkClosed
    <3>2. CASE rows' = [rows EXCEPT ![r].life = "stopped"]
      BY <3>2, ClosedKeeps DEF Step, Inv
    <3>q. QED BY <1>1, <3>1, <3>2
  <2>5. ASSUME NEW q \in Request, \/ \E r \in Row : AskRestart(q, r)
                                  \/ \E n \in Name : AskFork(q, n) \/ Spawn(q, n) \/ Destroy(q, n)
        PROVE  Step
    BY <1>1, <2>5 DEF AskRestart, AskFork, Spawn, Destroy
  <2>q. QED BY <1>4, <2>1, <2>2, <2>3, <2>4, <2>5, PersistStep, AdoptStep DEF Server
<1>5. CASE UNCHANGED vars
  BY <1>1, <1>5 DEF vars
<1>q. QED BY <1>2, <1>3, <1>4, <1>5 DEF Next

LEMMA WholeForever == Spec => []Inv
<1>1. Init => Inv
  <2>1. <<>> \in Seq({}) /\ DOMAIN <<>> = {}
    OBVIOUS
  <2>q. QED BY <2>1 DEF Init, Inv, Whole, IsTable, Distinct
<1>2. Inv /\ [Next]_vars => Inv'
  BY StepOfTheTable DEF Step, Inv
<1>q. QED BY <1>1, <1>2, PTL DEF Spec
-----------------------------------------------------------------------------
(* Lines.                                                                  *)

\* A non-empty set of naturals has a least member.
LEMMA LeastIn ==
    ASSUME NEW S, S \subseteq Nat, S # {}
    PROVE  \E x \in S : \A y \in S : x <= y
<1> DEFINE R == OpToRel(<, Nat)
<1>1. \A a, b \in Nat : a < b => <<a, b>> \in R
  BY Zenon DEF OpToRel
<1>2. IsWellFoundedOn(R, Nat)
  BY NatLessThanWellFounded
<1> HIDE DEF R
<1>3. PICK x \in S : \A y \in S : ~ (<<y, x>> \in R)
  BY <1>2, WFMin
<1>4. \A y \in S : x <= y
  <2> TAKE y \in S
  <2>1. ~ (y < x)
    BY <1>1, <1>3
  <2> QED BY <2>1
<1> QED BY <1>4

\* A non-empty set of row numbers has a greatest, and Max finds it.
LEMMA MaxIn ==
    ASSUME NEW m \in Nat, NEW S, S \subseteq 0 .. m, S # {}
    PROVE  Max(S) \in S /\ \A y \in S : y <= Max(S)
<1> DEFINE T == {m - y : y \in S}
<1>1. T \subseteq Nat /\ T # {}
  OBVIOUS
<1>2. PICK t \in T : \A u \in T : t <= u
  <2> HIDE DEF T
  <2>q. QED BY <1>1, LeastIn
<1>3. PICK x \in S : t = m - x
  BY <1>2
<1>4. \A y \in S : x >= y
  <2> TAKE y \in S
  <2>1. m - y \in T
    OBVIOUS
  <2>2. t <= m - y
    <3> HIDE DEF T
    <3>q. QED BY <1>2, <2>1
  <2> HIDE DEF T
  <2>q. QED BY <1>3, <2>2
<1>5. Max(S) \in S /\ \A y \in S : Max(S) >= y
  BY <1>4 DEF Max
<1>6. \A y \in S : y \in Int
  OBVIOUS
<1>q. QED BY <1>5, <1>6

\* Two seconds or two conversations: the later one.
LEMMA MaxOfTwo ==
    ASSUME NEW x \in Nat, NEW y \in Nat
    PROVE  Max({x, y}) \in Nat /\ x <= Max({x, y}) /\ y <= Max({x, y}) /\ Max({x, y}) \in {x, y}
<1>1. {x, y} \subseteq 0 .. x + y
  OBVIOUS
<1>2. Max({x, y}) \in {x, y} /\ \A z \in {x, y} : z <= Max({x, y})
  BY <1>1, MaxIn
<1>q. QED BY <1>2

Kids(rs, r) == {k \in DOMAIN rs : rs[k].parent = r /\ rs[k].kind # "background"}

LEMMA Rows ==
    ASSUME NEW rs, IsTable(rs)
    PROVE  Len(rs) \in Nat /\ DOMAIN rs = 1 .. Len(rs)
<1>1. PICK S : rs \in Seq(S)
  BY DEF IsTable
<1>q. QED BY <1>1

\* What Follow does: to the newest child, if there is one.
LEMMA FollowIs ==
    ASSUME NEW rs, IsTable(rs), NEW r
    PROVE  /\ Kids(rs, r) = {} => Follow(rs, r) = r
           /\ Kids(rs, r) # {} => /\ Follow(rs, r) \in Kids(rs, r)
                                  /\ \A k \in Kids(rs, r) : k <= Follow(rs, r)
<1>1. Kids(rs, r) \subseteq 0 .. Len(rs) /\ Len(rs) \in Nat
  BY Rows DEF Kids
<1>2. Follow(rs, r) = IF Kids(rs, r) = {} THEN r ELSE Max(Kids(rs, r))
  BY DEF Follow, Kids
<1>q. QED BY <1>1, <1>2, MaxIn

Steps(rs, a, n, f) == f = [i \in 0 .. n |-> IF i = 0 THEN a ELSE Follow(rs, f[i - 1])]

\* The walk exists: Line is what its definition says.
LEMMA LineIs ==
    ASSUME NEW rs, NEW a
    PROVE  Steps(rs, a, Depth, Line(rs, a))
<1> DEFINE Bad == {n \in Nat : ~ \E f : Steps(rs, a, n, f)}
<1>1. Bad = {}
  <2> SUFFICES ASSUME Bad # {} PROVE FALSE
    OBVIOUS
  <2>1. PICK n \in Bad : \A m \in Bad : n <= m
    BY LeastIn
  <2>2. n # 0
    <3>1. Steps(rs, a, 0, [i \in 0 .. 0 |-> a])
      BY DEF Steps
    <3>q. QED BY <3>1
  <2>3. n - 1 \in Nat /\ n - 1 \notin Bad
    BY <2>1, <2>2
  <2>4. PICK f : Steps(rs, a, n - 1, f)
    BY <2>3
  <2> DEFINE g == [i \in 0 .. n |-> IF i = 0 THEN a ELSE Follow(rs, f[i - 1])]
  <2>5. \A i \in 0 .. n - 1 : g[i] = f[i]
    BY <2>3, <2>4 DEF Steps
  <2>6. \A i \in 0 .. n : i # 0 => i - 1 \in 0 .. n - 1
    BY <2>3
  <2>7. Steps(rs, a, n, g)
    BY <2>5, <2>6 DEF Steps
  <2>q. QED BY <2>7
<1>2. PICK f : Steps(rs, a, Depth, f)
  BY <1>1, DepthAssumption
<1>3. Line(rs, a) = CHOOSE g : Steps(rs, a, Depth, g)
  BY DEF Line, Steps
<1>q. QED BY <1>2, <1>3

LEMMA LineLaw ==
    ASSUME NEW rs, NEW a
    PROVE  /\ Line(rs, a)[0] = a
           /\ \A i \in 1 .. Depth : Line(rs, a)[i] = Follow(rs, Line(rs, a)[i - 1])
<1> DEFINE line == Line(rs, a)
<1>1. line = [i \in 0 .. Depth |-> IF i = 0 THEN a ELSE Follow(rs, line[i - 1])]
  BY LineIs DEF Steps
<1>2. 0 \in 0 .. Depth /\ \A i \in 1 .. Depth : i \in 0 .. Depth /\ i # 0
  BY DepthAssumption
<1> HIDE DEF line
<1>3. line[0] = a /\ \A i \in 1 .. Depth : line[i] = Follow(rs, line[i - 1])
  BY <1>1, <1>2
<1>q. QED BY <1>3 DEF line

\* What holds at the start of a walk and is kept by its steps holds along it.
LEMMA Along ==
    ASSUME NEW G, 0 \in G, \A i \in 1 .. Depth : i - 1 \in G => i \in G
    PROVE  \A i \in 0 .. Depth : i \in G
<1> DEFINE Bad == (0 .. Depth) \ G
<1>1. SUFFICES ASSUME Bad # {} PROVE FALSE
  OBVIOUS
<1>a. Bad \subseteq Nat
  BY DepthAssumption
<1>2. PICK i \in Bad : \A j \in Bad : i <= j
  <2> HIDE DEF Bad
  <2>q. QED BY <1>1, <1>a, LeastIn
<1>3. i # 0 /\ i \in 1 .. Depth
  BY <1>2
<1>4. i - 1 \in 0 .. Depth /\ i - 1 < i
  BY <1>3, DepthAssumption
<1>5. i - 1 \in G
  BY <1>2, <1>4
<1>q. QED BY <1>2, <1>3, <1>5

\* A line of rows passes rows, its own first and its head last.
LEMMA LineInRows ==
    ASSUME NEW rs, IsTable(rs), NEW a \in DOMAIN rs
    PROVE  /\ \A i \in 0 .. Depth : Line(rs, a)[i] \in DOMAIN rs
           /\ Passed(rs, a) \subseteq DOMAIN rs
           /\ a \in Passed(rs, a) /\ lineage_head(rs, a) \in Passed(rs, a)
           /\ Follow(rs, a) \in Passed(rs, a)
<1> DEFINE line == Line(rs, a)
<1>1. line[0] = a /\ \A i \in 1 .. Depth : line[i] = Follow(rs, line[i - 1])
  BY LineLaw
<1>2. \A r \in DOMAIN rs : Follow(rs, r) \in DOMAIN rs
  BY FollowIs DEF Kids
<1> DEFINE G == {i \in 0 .. Depth : line[i] \in DOMAIN rs}
<1>3. 0 \in 0 .. Depth /\ 1 \in 1 .. Depth /\ 1 - 1 = 0 /\ Depth \in 0 .. Depth
      /\ \A i \in 1 .. Depth : i \in 0 .. Depth
  BY DepthAssumption
<1> HIDE DEF line
<1>4. \A i \in 1 .. Depth : i - 1 \in G => i \in G
  BY <1>1, <1>2, <1>3
<1>5. 0 \in G
  BY <1>1, <1>3
<1>6. \A i \in 0 .. Depth : line[i] \in DOMAIN rs
  <2> HIDE DEF G
  <2>1. \A i \in 0 .. Depth : i \in G
    BY <1>4, <1>5, Along
  <2>q. QED BY <2>1 DEF G
<1>7. Passed(rs, a) = {line[i] : i \in 0 .. Depth} /\ lineage_head(rs, a) = line[Depth]
  BY DEF Passed, lineage_head, line
<1>8. line[1] = Follow(rs, a)
  BY <1>1, <1>3
<1>q. QED BY <1>1, <1>3, <1>6, <1>7, <1>8 DEF line

\* Two tables in which the rows of a line lead on to the same rows.
LEMMA SameLine ==
    ASSUME NEW rs, NEW ts, NEW a,
           \A i \in 0 .. Depth : Follow(ts, Line(rs, a)[i]) = Follow(rs, Line(rs, a)[i])
    PROVE  Line(ts, a) = Line(rs, a) /\ Passed(ts, a) = Passed(rs, a)
           /\ lineage_head(ts, a) = lineage_head(rs, a)
<1> DEFINE line == Line(rs, a)
           then == Line(ts, a)
           G == {i \in 0 .. Depth : then[i] = line[i]}
<1>1. /\ line[0] = a /\ \A i \in 1 .. Depth : line[i] = Follow(rs, line[i - 1])
      /\ then[0] = a /\ \A i \in 1 .. Depth : then[i] = Follow(ts, then[i - 1])
  BY LineLaw
<1>2. 0 \in 0 .. Depth /\ \A i \in 1 .. Depth : i \in 0 .. Depth /\ i - 1 \in 0 .. Depth
  BY DepthAssumption
<1>a. \A i \in 0 .. Depth : Follow(ts, line[i]) = Follow(rs, line[i])
  OBVIOUS
<1>b. line = [i \in 0 .. Depth |-> line[i]] /\ then = [i \in 0 .. Depth |-> then[i]]
  <2>1. /\ line = [i \in 0 .. Depth |-> IF i = 0 THEN a ELSE Follow(rs, line[i - 1])]
        /\ then = [i \in 0 .. Depth |-> IF i = 0 THEN a ELSE Follow(ts, then[i - 1])]
    BY LineIs DEF Steps
  <2> HIDE DEF line, then
  <2>q. QED BY <2>1
<1>c. then = line => Line(ts, a) = Line(rs, a)
  OBVIOUS
<1> HIDE DEF line, then
<1>3. 0 \in G /\ \A i \in 1 .. Depth : i - 1 \in G => i \in G
  BY <1>1, <1>2, <1>a
<1>4. \A i \in 0 .. Depth : i \in G
  <2> HIDE DEF G
  <2>q. QED BY <1>3, Along
<1>5. then = line
  BY <1>4, <1>b
<1>q. QED BY <1>5, <1>c DEF Passed, lineage_head

\* Row h leads to a new row k, from which nothing leads on.
Sprouts(rs, ts, k, h) ==
    /\ k # h /\ Follow(rs, k) = k /\ Follow(ts, h) = k
    /\ \A r : r # h => Follow(ts, r) = Follow(rs, r)

\* A line that does not pass h stands, and one that passes h may end in k.
LEMMA Grown ==
    ASSUME NEW rs, NEW ts, NEW k, NEW h, Sprouts(rs, ts, k, h)
    PROVE  \A a : /\ h \notin Passed(rs, a) => /\ Passed(ts, a) = Passed(rs, a)
                                               /\ lineage_head(ts, a) = lineage_head(rs, a)
                  /\ Passed(ts, a) \subseteq Passed(rs, a) \cup {k}
                  /\ lineage_head(ts, a) \in {k, lineage_head(rs, a)}
<1> TAKE a
<1> DEFINE line == Line(rs, a)
           then == Line(ts, a)
           G == {i \in 0 .. Depth : then[i] \in {k, line[i]}}
<1>1. /\ line[0] = a /\ \A i \in 1 .. Depth : line[i] = Follow(rs, line[i - 1])
      /\ then[0] = a /\ \A i \in 1 .. Depth : then[i] = Follow(ts, then[i - 1])
  BY LineLaw
<1>2. 0 \in 0 .. Depth /\ Depth \in 0 .. Depth
      /\ \A i \in 1 .. Depth : i \in 0 .. Depth /\ i - 1 \in 0 .. Depth
  BY DepthAssumption
<1>3. /\ Passed(rs, a) = {line[i] : i \in 0 .. Depth} /\ lineage_head(rs, a) = line[Depth]
      /\ Passed(ts, a) = {then[i] : i \in 0 .. Depth} /\ lineage_head(ts, a) = then[Depth]
  BY DEF Passed, lineage_head
<1>4. ASSUME h \notin Passed(rs, a)
      PROVE  Passed(ts, a) = Passed(rs, a) /\ lineage_head(ts, a) = lineage_head(rs, a)
  <2>1. \A i \in 0 .. Depth : Follow(ts, line[i]) = Follow(rs, line[i])
    BY <1>3, <1>4 DEF Sprouts
  <2>q. QED BY <2>1, SameLine
<1> HIDE DEF line, then
<1>5. ASSUME NEW i \in 1 .. Depth, i - 1 \in G PROVE i \in G
  <2>1. then[i - 1] \in {k, line[i - 1]} /\ then[i] = Follow(ts, then[i - 1])
        /\ line[i] = Follow(rs, line[i - 1]) /\ i \in 0 .. Depth
    BY <1>1, <1>2, <1>5
  <2>2. Follow(ts, k) = k
    BY DEF Sprouts
  <2>3. Follow(ts, line[i - 1]) \in {k, Follow(rs, line[i - 1])}
    BY <2>1 DEF Sprouts
  <2>q. QED BY <2>1, <2>2, <2>3
<1>6. 0 \in G
  BY <1>1, <1>2
<1>7. \A i \in 0 .. Depth : then[i] \in {k, line[i]}
  <2> HIDE DEF G
  <2>1. \A i \in 0 .. Depth : i \in G
    BY <1>5, <1>6, Along
  <2>q. QED BY <2>1 DEF G
<1>q. QED BY <1>2, <1>3, <1>4, <1>7
-----------------------------------------------------------------------------
(* The parts of the invariant HeadInv.                                     *)

Some(c) == {None} \cup 1 .. c

PaneRec ==
    [sid : Nat, epoch : Nat, home : Name \cup {None}, conv : Nat \cup {None},
     resumes : Nat \cup {None}, source : {"startup", "resume", "clear", "fork"},
     other : BOOLEAN, ended : BOOLEAN, heard : {"all", "mixed", "part"}]

\* Conversations up to c, seconds up to t, tmux ids up to u.
PaneOK(p, c, t, u) ==
    /\ p \in PaneRec
    /\ p.sid \in 1 .. u /\ p.epoch \in 1 .. t
    /\ p.conv \in Some(c) /\ p.resumes \in Some(c)

PanesOK(ps, c, t, u) ==
    /\ DOMAIN ps \subseteq Name
    /\ \A n \in DOMAIN ps : PaneOK(ps[n], c, t, u)
    /\ \A n, m \in DOMAIN ps : ps[m].sid = ps[n].sid => m = n

RowsOK(rs, c, t, u) ==
    \A r \in DOMAIN rs :
       /\ rs[r].epoch \in Some(t) /\ rs[r].sid \in Some(u)
       /\ rs[r].conv \in Some(c) /\ rs[r].parent \in {None} \cup DOMAIN rs
       /\ rs[r].epoch = None => rs[r].parent # None /\ rs[r].parent < r

JobRec ==
    [kind : {"fork", "restart", "create", "close"}, stage : {"spawn", "persist", "stamp", "mark"},
     name : Name \cup {None}, row : Nat \cup {None}, conv : Nat \cup {None}]

\* What a job will resume, restart or fork is in the table.
JobOK(job, rs) ==
    /\ job \in JobRec
    /\ job.conv # None => KnownAs(rs, job.conv) # {}
    /\ job.kind = "restart" => job.row \in DOMAIN rs
    /\ job.kind = "fork" => job.row \in DOMAIN rs /\ rs[job.row].epoch # None /\ job.conv = None
    /\ job.stage # "spawn" => job.name \in Name
    /\ job.stage = "stamp" => job.kind = "fork"

JobsOK(js, rs) == \A q \in DOMAIN js : JobOK(js[q], rs)

\* A pane that the server has followed so far, of name n.
HeardOK(n, p, rs) ==
    p.heard = "all" =>
       /\ p.home = n
       /\ p.resumes # None => KnownAs(rs, p.resumes) # {}
       /\ p.conv # None => p.resumes \in {None, p.conv}
       /\ p.conv = None /\ p.resumes = None => p.source # "resume"
       /\ \A r \in DOMAIN rs : rs[r].name = n /\ rs[r].epoch # None => rs[r].epoch <= p.epoch

Heard(ps, rs) == \A n \in DOMAIN ps : HeardOK(n, ps[n], rs)

\* What the head of the line of pane p may say, v.
HeadOK(v, p) ==
    /\ p.conv # None => v \in {None, p.conv}
    /\ p.conv = None /\ p.resumes # None => v \in {None, p.resumes}
    /\ p.conv = None /\ p.resumes = None /\ (p.source = "startup" \/ (p.source = "fork" /\ ~ p.ended))
       => v = None

Leads(rs, a, p) ==
    Follow(rs, lineage_head(rs, a)) = lineage_head(rs, a) => HeadOK(rs[lineage_head(rs, a)].conv, p)

FollowedOK(n, p, rs) ==
    p.heard = "all" => \A a \in Own(rs, n, p) : ~ Joined(rs, a) /\ Leads(rs, a, p)

Followed(ps, rs) == \A n \in DOMAIN ps : FollowedOK(n, ps[n], rs)
-----------------------------------------------------------------------------
(* What a writer can do to the lines: say a conversation, hang a row below *)
(* a line, add an anchor, move one, stamp one.                             *)

Alike(rs, ts, r) ==
    /\ ts[r].name = rs[r].name /\ ts[r].epoch = rs[r].epoch /\ ts[r].sid = rs[r].sid
    /\ ts[r].parent = rs[r].parent /\ ts[r].kind = rs[r].kind

AllAlike(rs, ts) == DOMAIN ts = DOMAIN rs /\ \A r \in DOMAIN rs : Alike(rs, ts, r)

Same(rs, ts) == AllAlike(rs, ts) /\ \A r \in DOMAIN rs : ts[r].conv = rs[r].conv

\* Row h comes to name c.
Told(rs, ts, h, c) ==
    /\ AllAlike(rs, ts) /\ h \in DOMAIN rs /\ rs[h].conv = None /\ c # None /\ ts[h].conv = c
    /\ \A r \in DOMAIN rs \ {h} : ts[r].conv = rs[r].conv

NewLast(rs, ts, k) ==
    /\ k \in Nat /\ k \notin DOMAIN rs /\ DOMAIN ts = DOMAIN rs \cup {k}
    /\ \A r \in DOMAIN rs : r < k /\ ts[r] = rs[r]

\* Row k, of conversation c, hangs below h.
Hung(rs, ts, k, h, c) ==
    /\ NewLast(rs, ts, k) /\ h \in DOMAIN rs /\ c # None
    /\ ts[k].epoch = None /\ ts[k].sid = None /\ ts[k].conv = c /\ ts[k].parent = h

\* Row k stands for pane p of name n.
Added(rs, ts, k, n, p) ==
    /\ NewLast(rs, ts, k)
    /\ ts[k].name = n /\ ts[k].epoch = p.epoch /\ ts[k].sid = p.sid
    /\ ts[k].conv = None /\ ts[k].parent = None

\* Row r comes to stand for pane p of name n.
Moved(rs, ts, r, n, p) ==
    /\ r \in DOMAIN rs /\ DOMAIN ts = DOMAIN rs /\ \A s \in DOMAIN rs \ {r} : Alike(rs, ts, s)
    /\ ts[r].name = n /\ ts[r].epoch = p.epoch /\ ts[r].sid = p.sid
    /\ ts[r].parent = rs[r].parent /\ ts[r].kind = rs[r].kind
    /\ \A s \in DOMAIN rs : ts[s].conv = rs[s].conv

\* Row r is a child of p now.
Branded(rs, ts, r, p) ==
    /\ r \in DOMAIN rs /\ p \in DOMAIN rs /\ DOMAIN ts = DOMAIN rs
    /\ \A s \in DOMAIN rs \ {r} : ts[s] = rs[s]
    /\ rs[r].parent = None /\ ts[r].parent = p /\ ts[r].kind = "fork"
    /\ ts[r].name = rs[r].name /\ ts[r].epoch = rs[r].epoch /\ ts[r].sid = rs[r].sid
    /\ ts[r].conv = rs[r].conv

\* What no writer takes away.
Kept(rs, ts) ==
    /\ DOMAIN rs \subseteq DOMAIN ts
    /\ \A r \in DOMAIN rs : /\ rs[r].conv # None => ts[r].conv = rs[r].conv
                            /\ rs[r].epoch # None => ts[r].epoch # None

\* Tables of the same tree lead along the same lines.
LEMMA SameTree ==
    ASSUME NEW rs, NEW ts, DOMAIN ts = DOMAIN rs,
           \A r \in DOMAIN rs : ts[r].parent = rs[r].parent /\ ts[r].kind = rs[r].kind
    PROVE  /\ \A r : Follow(ts, r) = Follow(rs, r)
           /\ \A a : Passed(ts, a) = Passed(rs, a) /\ lineage_head(ts, a) = lineage_head(rs, a)
<1>1. ASSUME NEW r PROVE Follow(ts, r) = Follow(rs, r)
  <2>1. Kids(ts, r) = Kids(rs, r)
    BY DEF Kids
  <2>q. QED BY <2>1 DEF Follow, Kids
<1>q. QED BY <1>1, SameLine

LEMMA AlikeLines ==
    ASSUME NEW rs, NEW ts, AllAlike(rs, ts)
    PROVE  /\ \A r : Follow(ts, r) = Follow(rs, r)
           /\ \A a : Passed(ts, a) = Passed(rs, a) /\ lineage_head(ts, a) = lineage_head(rs, a)
           /\ \A a : Joined(ts, a) = Joined(rs, a)
           /\ \A n, e : Instance(ts, n, e) = Instance(rs, n, e)
           /\ \A n, p : Own(ts, n, p) = Own(rs, n, p)
<1>1. /\ \A r : Follow(ts, r) = Follow(rs, r)
      /\ \A a : Passed(ts, a) = Passed(rs, a) /\ lineage_head(ts, a) = lineage_head(rs, a)
  BY SameTree DEF AllAlike, Alike
<1>2. DOMAIN ts = DOMAIN rs /\ \A r \in DOMAIN rs : Alike(rs, ts, r)
  BY DEF AllAlike
<1>3. \A n, e : Instance(ts, n, e) = Instance(rs, n, e)
  BY <1>2 DEF Instance, Alike
<1>4. \A n, p : Own(ts, n, p) = Own(rs, n, p)
  BY <1>2, <1>3 DEF Own, Alike, Instance
<1>5. \A a : Joined(ts, a) = Joined(rs, a)
  BY <1>1, <1>2 DEF Joined, Alike
<1>q. QED BY <1>1, <1>3, <1>4, <1>5

\* A conversation said elsewhere says nothing here.
LEMMA ToldLines ==
    ASSUME NEW rs, NEW ts, NEW h, NEW c, NEW a, Told(rs, ts, h, c), IsTable(rs), a \in DOMAIN rs
    PROVE  Joined(ts, a) = Joined(rs, a) /\ lineage_head(ts, a) = lineage_head(rs, a)
BY AlikeLines DEF Told

LEMMA ToldElsewhere ==
    ASSUME NEW rs, NEW ts, NEW h, NEW c, NEW a, Told(rs, ts, h, c), IsTable(rs), a \in DOMAIN rs,
           h # lineage_head(rs, a), NEW p, Leads(rs, a, p)
    PROVE  Leads(ts, a, p)
<1>1. (\A r : Follow(ts, r) = Follow(rs, r)) /\ lineage_head(ts, a) = lineage_head(rs, a)
  BY AlikeLines DEF Told
<1>2. lineage_head(rs, a) \in DOMAIN rs
  BY LineInRows
<1>q. QED BY <1>1, <1>2 DEF Told, Leads
-----------------------------------------------------------------------------
(* Lines, when a row hangs below another, moves or is stamped.             *)

Parented(rs) == \A r \in DOMAIN rs : rs[r].parent \in {None} \cup DOMAIN rs

\* A row hung below h: below it or, for a background agent, nowhere.
LEMMA HungTree ==
    ASSUME NEW rs, NEW ts, NEW k, NEW h, NEW c, Hung(rs, ts, k, h, c), IsTable(ts), Parented(rs)
    PROVE  IF ts[k].kind = "background" THEN \A r : Follow(ts, r) = Follow(rs, r) ELSE Sprouts(rs, ts, k, h)
<1>1. /\ k \in Nat /\ k # None /\ k \notin DOMAIN rs /\ DOMAIN ts = DOMAIN rs \cup {k}
      /\ h \in DOMAIN rs /\ ts[k].parent = h /\ \A r \in DOMAIN rs : ts[r] = rs[r]
  BY NoneAssumption DEF Hung, NewLast
<1>2. Kids(rs, k) = {}
  BY <1>1 DEF Kids, Parented
<1>3. ASSUME NEW r, r # h \/ ts[k].kind = "background" PROVE Follow(ts, r) = Follow(rs, r)
  <2>1. Kids(ts, r) = Kids(rs, r)
    BY <1>1, <1>3 DEF Kids
  <2>q. QED BY <2>1 DEF Follow, Kids
<1>4. ASSUME ts[k].kind # "background" PROVE Follow(ts, h) = k
  <2>1. Kids(ts, h) \subseteq DOMAIN rs \cup {k} /\ k \in Kids(ts, h)
    BY <1>1, <1>4 DEF Kids
  <2>2. Follow(ts, h) \in Kids(ts, h) /\ k <= Follow(ts, h)
    BY <2>1, FollowIs
  <2>3. \A r \in DOMAIN rs : r < k /\ r \in Nat
    BY Rows DEF Hung, NewLast
  <2>q. QED BY <1>1, <2>1, <2>2, <2>3
<1>5. Follow(rs, k) = k /\ k # h
  BY <1>1, <1>2 DEF Follow, Kids
<1>q. QED BY <1>3, <1>4, <1>5 DEF Sprouts

\* A line that did not meet another one does not meet it for a row hung below one.
LEMMA HungApart ==
    ASSUME NEW rs, NEW ts, NEW k, NEW h, NEW c, Hung(rs, ts, k, h, c), IsTable(rs), IsTable(ts),
           Parented(rs), NEW a \in DOMAIN rs, rs[a].epoch # None, ~ Joined(rs, a)
    PROVE  ~ Joined(ts, a)
<1>1. /\ k \notin DOMAIN rs /\ DOMAIN ts = DOMAIN rs \cup {k}
      /\ ts[k].epoch = None /\ \A r \in DOMAIN rs : ts[r] = rs[r]
  BY DEF Hung, NewLast
<1>2. SUFFICES ASSUME NEW b \in DOMAIN rs \ {a}, rs[b].epoch # None
               PROVE  Passed(ts, a) \cap Passed(ts, b) = {}
  BY <1>1 DEF Joined
<1>3. Passed(rs, a) \cap Passed(rs, b) = {} /\ k \notin Passed(rs, a) /\ k \notin Passed(rs, b)
  BY <1>1, <1>2, LineInRows DEF Joined
<1>4. CASE ts[k].kind = "background"
  <2>1. \A r : Follow(ts, r) = Follow(rs, r)
    BY <1>4, HungTree
  <2>2. Passed(ts, a) = Passed(rs, a) /\ Passed(ts, b) = Passed(rs, b)
    BY <2>1, SameLine
  <2>q. QED BY <1>3, <2>2
<1>5. CASE ts[k].kind # "background"
  <2>1. Sprouts(rs, ts, k, h)
    BY <1>5, HungTree
  <2>2. \A d : /\ h \notin Passed(rs, d) => Passed(ts, d) = Passed(rs, d)
               /\ Passed(ts, d) \subseteq Passed(rs, d) \cup {k}
    BY <2>1, Grown
  <2>q. QED BY <1>3, <2>2
<1>q. QED BY <1>4, <1>5

\* A row hung below h says nothing of a line that does not pass h, and of the line
\* that ends there it says c or, for a background agent, nothing.
LEMMA HungLines ==
    ASSUME NEW rs, NEW ts, NEW k, NEW h, NEW c, Hung(rs, ts, k, h, c), IsTable(rs), IsTable(ts),
           Parented(rs), NEW a \in DOMAIN rs
    PROVE  /\ h \notin Passed(rs, a) \/ ts[k].kind = "background"
              => \A p : Leads(ts, a, p) = Leads(rs, a, p)
           /\ h = lineage_head(rs, a) /\ ts[k].kind # "background"
              => \A p : HeadOK(c, p) => Leads(ts, a, p)
<1>1. /\ \A r \in DOMAIN rs : ts[r] = rs[r] 
      /\ ts[k].conv = c /\ lineage_head(rs, a) \in DOMAIN rs /\ lineage_head(rs, a) \in Passed(rs, a)
  BY LineInRows DEF Hung, NewLast
<1>2. CASE ts[k].kind = "background"
  <2>1. \A r : Follow(ts, r) = Follow(rs, r)
    BY <1>2, HungTree
  <2>2. lineage_head(ts, a) = lineage_head(rs, a)
    BY <2>1, SameLine
  <2>q. QED BY <1>1, <1>2, <2>1, <2>2 DEF Leads
<1>3. CASE ts[k].kind # "background"
  <2>1. Sprouts(rs, ts, k, h)
    BY <1>3, HungTree
  <2>2. /\ h \notin Passed(rs, a) => lineage_head(ts, a) = lineage_head(rs, a)
        /\ lineage_head(ts, a) \in {k, lineage_head(rs, a)}
    BY <2>1, Grown
  <2>3. ASSUME h \notin Passed(rs, a), NEW p PROVE Leads(ts, a, p) = Leads(rs, a, p)
    BY <1>1, <2>1, <2>2, <2>3 DEF Leads, Sprouts
  <2>4. ASSUME h = lineage_head(rs, a), NEW p, HeadOK(c, p) PROVE Leads(ts, a, p)
    BY <1>1, <2>1, <2>2, <2>4 DEF Leads, Sprouts
  <2>q. QED BY <1>3, <2>3, <2>4
<1>q. QED BY <1>2, <1>3

\* A new anchor stands alone, and the lines of the others stand.
LEMMA AddedLines ==
    ASSUME NEW rs, NEW ts, NEW k, NEW n, NEW p, Added(rs, ts, k, n, p), IsTable(rs), IsTable(ts),
           Parented(rs)
    PROVE  /\ ~ Joined(ts, k) /\ lineage_head(ts, k) = k
           /\ \A a \in DOMAIN rs : /\ ~ Joined(rs, a) => ~ Joined(ts, a)
                                   /\ \A o : Leads(ts, a, o) = Leads(rs, a, o)
<1>1. /\ k \in Nat /\ k # None /\ k \notin DOMAIN rs /\ DOMAIN ts = DOMAIN rs \cup {k}
      /\ ts[k].parent = None /\ \A r \in DOMAIN rs : ts[r] = rs[r]
  BY NoneAssumption DEF Added, NewLast
<1>2. Kids(ts, k) = {}
  BY <1>1 DEF Kids, Parented
<1>3. ASSUME NEW r \in DOMAIN rs PROVE Follow(ts, r) = Follow(rs, r)
  <2>0. r # None
    BY <1>3, Rows, NoneAssumption
  <2>1. Kids(ts, r) = Kids(rs, r)
    BY <1>1, <2>0 DEF Kids
  <2>q. QED BY <2>1 DEF Follow, Kids
<1>4. Follow(ts, k) = k
  BY <1>2 DEF Follow, Kids
<1>5. ASSUME NEW a \in DOMAIN rs
      PROVE  Passed(ts, a) = Passed(rs, a) /\ lineage_head(ts, a) = lineage_head(rs, a)
  <2>1. \A i \in 0 .. Depth : Line(rs, a)[i] \in DOMAIN rs
    BY LineInRows
  <2>2. \A i \in 0 .. Depth : Follow(ts, Line(rs, a)[i]) = Follow(rs, Line(rs, a)[i])
    BY <1>3, <2>1
  <2>q. QED BY <2>2, SameLine
<1>6. Passed(ts, k) = {k} /\ lineage_head(ts, k) = k
  <2> DEFINE line == Line(ts, k)
             G == {i \in 0 .. Depth : line[i] = k}
  <2>1. line[0] = k /\ \A i \in 1 .. Depth : line[i] = Follow(ts, line[i - 1])
    BY LineLaw
  <2>2. 0 \in 0 .. Depth /\ Depth \in 0 .. Depth /\ \A i \in 1 .. Depth : i \in 0 .. Depth
    BY DepthAssumption
  <2>3. Passed(ts, k) = {line[i] : i \in 0 .. Depth} /\ lineage_head(ts, k) = line[Depth]
    BY DEF Passed, lineage_head
  <2> HIDE DEF line
  <2>4. 0 \in G /\ \A i \in 1 .. Depth : i - 1 \in G => i \in G
    BY <1>4, <2>1, <2>2
  <2>5. \A i \in 0 .. Depth : line[i] = k
    <3> HIDE DEF G
    <3>1. \A i \in 0 .. Depth : i \in G
      BY <2>4, Along
    <3>q. QED BY <3>1 DEF G
  <2>q. QED BY <2>2, <2>3, <2>5
<1>7. \A a \in DOMAIN rs : Passed(rs, a) \subseteq DOMAIN rs /\ lineage_head(rs, a) \in DOMAIN rs
  BY LineInRows
<1>8. ~ Joined(ts, k)
  BY <1>1, <1>5, <1>6, <1>7 DEF Joined
<1>9. ASSUME NEW a \in DOMAIN rs, ~ Joined(rs, a) PROVE ~ Joined(ts, a)
  BY <1>1, <1>5, <1>6, <1>7, <1>9 DEF Joined
<1>10. ASSUME NEW a \in DOMAIN rs, NEW o PROVE Leads(ts, a, o) = Leads(rs, a, o)
  BY <1>1, <1>3, <1>5, <1>7 DEF Leads
<1>q. QED BY <1>6, <1>8, <1>9, <1>10

\* An anchor that moves takes its line along.
LEMMA MovedLines ==
    ASSUME NEW rs, NEW ts, NEW r, NEW n, NEW p, Moved(rs, ts, r, n, p), IsTable(rs)
    PROVE  /\ \A a : lineage_head(ts, a) = lineage_head(rs, a)
           /\ \A a \in DOMAIN rs : \A o : Leads(ts, a, o) = Leads(rs, a, o)
<1>1. \A s \in DOMAIN rs : ts[s].parent = rs[s].parent /\ ts[s].kind = rs[s].kind /\ ts[s].conv = rs[s].conv
  BY DEF Moved, Alike
<1>2. /\ \A s : Follow(ts, s) = Follow(rs, s)
      /\ \A a : lineage_head(ts, a) = lineage_head(rs, a)
  BY <1>1, SameTree DEF Moved
<1>3. \A a \in DOMAIN rs : lineage_head(rs, a) \in DOMAIN rs
  BY LineInRows
<1>q. QED BY <1>1, <1>2, <1>3 DEF Leads

\* A line that does not meet another one before a stamp, nor after it, stands.
LEMMA BrandedLines ==
    ASSUME NEW rs, NEW ts, NEW r, NEW q, Branded(rs, ts, r, q), IsTable(rs), IsTable(ts),
           rs[r].epoch # None, rs[q].epoch # None,
           \A s \in DOMAIN rs : rs[s].epoch = None => rs[s].parent # None /\ rs[s].parent < s,
           NEW a \in DOMAIN rs, ~ Joined(rs, a), ~ Joined(ts, a), NEW o, Leads(rs, a, o)
    PROVE  Leads(ts, a, o)
<1>1. /\ r \in DOMAIN rs /\ q \in DOMAIN rs /\ DOMAIN ts = DOMAIN rs
      /\ \A s \in DOMAIN rs \ {r} : ts[s] = rs[s]
      /\ rs[r].parent = None /\ ts[r].parent = q /\ ts[r].kind = "fork"
      /\ ts[r].epoch = rs[r].epoch /\ ts[r].conv = rs[r].conv
  BY DEF Branded
<1>0. \A s \in DOMAIN rs : s \in Nat /\ s # None
  BY Rows, NoneAssumption
<1>2. ASSUME NEW s, s # q, s # None PROVE Follow(ts, s) = Follow(rs, s)
  <2>1. Kids(ts, s) = Kids(rs, s)
    BY <1>1, <1>2 DEF Kids
  <2>q. QED BY <2>1 DEF Follow, Kids
<1>3. lineage_head(rs, a) \in DOMAIN rs /\ \A s \in DOMAIN rs : ts[s].conv = rs[s].conv
  BY <1>1, LineInRows
<1>4. ASSUME \A s \in DOMAIN rs : s \in Passed(rs, a) => Follow(ts, s) = Follow(rs, s)
      PROVE  Leads(ts, a, o)
  <2>1. \A i \in 0 .. Depth : Line(rs, a)[i] \in DOMAIN rs /\ Line(rs, a)[i] \in Passed(rs, a)
    BY LineInRows DEF Passed
  <2>2. \A i \in 0 .. Depth : Follow(ts, Line(rs, a)[i]) = Follow(rs, Line(rs, a)[i])
    BY <1>4, <2>1
  <2>3. lineage_head(ts, a) = lineage_head(rs, a)
    BY <2>2, SameLine
  <2>4. Follow(ts, lineage_head(rs, a)) = Follow(rs, lineage_head(rs, a))
    BY <1>4, LineInRows
  <2>q. QED BY <1>3, <2>3, <2>4 DEF Leads
<1>5. CASE q \notin Passed(rs, a)
  BY <1>0, <1>2, <1>4, <1>5
<1>6. CASE q \in Passed(rs, a)
  <2>1. q = a
    BY <1>1, <1>6, LineInRows DEF Joined
  <2>2. Kids(ts, a) = Kids(rs, a) \cup {r}
    BY <1>1, <2>1 DEF Kids
  <2>3. Follow(ts, a) \in Kids(ts, a) /\ \A k \in Kids(ts, a) : k <= Follow(ts, a)
    BY <2>2, FollowIs
  <2>4. CASE Follow(ts, a) # r
    <3>1. Follow(ts, a) \in Kids(rs, a) /\ \A k \in Kids(rs, a) : k <= Follow(ts, a)
      BY <2>2, <2>3, <2>4
    <3>2. Follow(rs, a) \in Kids(rs, a) /\ \A k \in Kids(rs, a) : k <= Follow(rs, a)
      BY <3>1, FollowIs
    <3>3. Kids(rs, a) \subseteq Nat
      BY <1>0 DEF Kids
    <3>4. Follow(ts, a) = Follow(rs, a)
      BY <3>1, <3>2, <3>3
    <3>q. QED BY <1>0, <1>2, <1>4, <2>1, <3>4
  <2>5. CASE Follow(ts, a) = r
    <3>1. r \in Passed(ts, a) /\ r \in Passed(ts, r)
      BY <1>1, <2>5, LineInRows
    <3>2. r = a
      BY <1>1, <3>1 DEF Joined
    <3>3. Kids(rs, a) = {}
      <4> SUFFICES ASSUME Kids(rs, a) # {} PROVE FALSE
        OBVIOUS
      <4>1. Follow(rs, a) \in Kids(rs, a) /\ Kids(rs, a) \subseteq Kids(ts, a)
        BY <2>2, FollowIs
      <4> DEFINE b == Follow(rs, a)
      <4>2. b \in DOMAIN rs /\ rs[b].parent = a /\ b <= a
        BY <2>3, <2>5, <3>2, <4>1 DEF Kids
      <4>3. b # a
        BY <1>0, <1>1, <3>2, <4>2
      <4>4. rs[b].epoch # None
        BY <1>0, <4>2, <4>3
      <4>5. b \in Passed(rs, a) /\ b \in Passed(rs, b)
        BY <4>2, LineInRows
      <4>q. QED BY <4>2, <4>3, <4>4, <4>5 DEF Joined
    <3>4. Follow(rs, a) = a
      BY <3>3, FollowIs
    <3>5. Follow(ts, a) = Follow(rs, a)
      BY <2>5, <3>2, <3>4
    <3>q. QED BY <1>0, <1>2, <1>4, <2>1, <3>5
  <2>q. QED BY <2>4, <2>5
<1>q. QED BY <1>5, <1>6
-----------------------------------------------------------------------------
(* What each writer does.                                                  *)

LEMMA ReconciledIs ==
    ASSUME NEW rs, NEW listing, Whole(rs)
    PROVE  Same(rs, Reconciled(rs, listing))
<1> DEFINE ts == Reconciled(rs, listing)
<1>1. CASE listing # "complete"
  BY <1>1 DEF Reconciled, Same, AllAlike, Alike
<1>2. CASE listing = "complete"
  <2>1. /\ DOMAIN ts = DOMAIN rs
        /\ \A r \in DOMAIN rs : ts[r] = rs[r] \/ ts[r] = [rs[r] EXCEPT !.life = "stopped"]
    BY <1>2 DEF Reconciled
  <2> HIDE DEF ts
  <2>a. \A r \in DOMAIN rs : DOMAIN rs[r] = Fields
    BY DEF Whole, IsTable
  <2>2. \A r \in DOMAIN rs : Alike(rs, ts, r) /\ ts[r].conv = rs[r].conv
    BY <2>1, <2>a DEF Alike, Fields
  <2>q. QED BY <2>1, <2>2 DEF Same, AllAlike, ts
<1>q. QED BY <1>1, <1>2

LEMMA ClosedIs ==
    ASSUME NEW rs, NEW r, Whole(rs)
    PROVE  Same(rs, [rs EXCEPT ![r].life = "stopped"])
<1> DEFINE ts == [rs EXCEPT ![r].life = "stopped"]
<1>1. /\ DOMAIN ts = DOMAIN rs
      /\ \A s \in DOMAIN rs : ts[s] = rs[s] \/ ts[s] = [rs[s] EXCEPT !.life = "stopped"]
  OBVIOUS
<1> HIDE DEF ts
<1>a. \A s \in DOMAIN rs : DOMAIN rs[s] = Fields
  BY DEF Whole, IsTable
<1>2. \A s \in DOMAIN rs : Alike(rs, ts, s) /\ ts[s].conv = rs[s].conv
  BY <1>1, <1>a DEF Alike, Fields
<1>q. QED BY <1>1, <1>2 DEF Same, AllAlike, ts

LEMMA CorrelatedIs ==
    ASSUME NEW rs, NEW n, NEW c, Whole(rs)
    PROVE  LET ts == Correlated(rs, n, c)
           IN  \/ ts = rs
               \/ \E h \in Instance(rs, n, panes[n].epoch) : Told(rs, ts, h, c) /\ KnownAs(rs, c) = {}
<1> DEFINE found == Instance(rs, n, panes[n].epoch)
           ts == Correlated(rs, n, c)
<1>1. CASE c = None \/ KnownAs(rs, c) # {}
  BY <1>1 DEF Correlated
<1>2. CASE c # None /\ KnownAs(rs, c) = {}
  <2>1. ts = [r \in DOMAIN rs |-> IF r \in found /\ rs[r].conv = None
                                  THEN [rs[r] EXCEPT !.conv = c] ELSE rs[r]]
    BY <1>2 DEF Correlated
  <2>2. \A r \in DOMAIN rs : DOMAIN rs[r] = Fields
    BY DEF Whole, IsTable
  <2>3. CASE \E h \in found : rs[h].conv = None
    <3>1. PICK h \in found : rs[h].conv = None
      BY <2>3
    <3>2. h \in DOMAIN rs /\ \A r \in found : r = h
      BY <3>1 DEF Instance, Whole, Distinct
    <3> HIDE DEF ts, found
    <3>3. /\ DOMAIN ts = DOMAIN rs /\ ts[h] = [rs[h] EXCEPT !.conv = c]
          /\ \A r \in DOMAIN rs \ {h} : ts[r] = rs[r]
      BY <2>1, <3>1, <3>2
    <3>4. ts[h].conv = c /\ Alike(rs, ts, h)
      BY <2>2, <3>2, <3>3 DEF Alike, Fields
    <3>5. Told(rs, ts, h, c)
      BY <1>2, <3>1, <3>2, <3>3, <3>4 DEF Told, AllAlike, Alike
    <3>q. QED BY <1>2, <3>1, <3>5 DEF ts, found
  <2>4. CASE ~ \E h \in found : rs[h].conv = None
    <3> HIDE DEF ts
    <3>1. ts = [r \in DOMAIN rs |-> rs[r]]
      BY <2>1, <2>4
    <3>2. \E S : rs \in Seq(S)
      BY DEF Whole, IsTable
    <3>3. ts = rs
      BY <3>1, <3>2
    <3>q. QED BY <3>3 DEF ts
  <2>q. QED BY <2>3, <2>4
<1>q. QED BY <1>1, <1>2

LEMMA SightedIs ==
    ASSUME NEW rs, NEW n, Whole(rs)
    PROVE  IF Instance(rs, n, panes[n].epoch) # {} THEN Same(rs, Sighted(rs, n))
           ELSE Added(rs, Sighted(rs, n), Len(rs) + 1, n, panes[n])
<1> DEFINE found == Instance(rs, n, panes[n].epoch)
           ts == Sighted(rs, n)
<1>1. CASE found # {}
  <2>1. /\ DOMAIN ts = DOMAIN rs
        /\ \A r \in DOMAIN rs : ts[r] = rs[r] \/ ts[r] = [rs[r] EXCEPT !.life = "running"]
    BY <1>1 DEF Sighted
  <2> HIDE DEF ts
  <2>a. \A r \in DOMAIN rs : DOMAIN rs[r] = Fields
    BY DEF Whole, IsTable
  <2>2. \A r \in DOMAIN rs : Alike(rs, ts, r) /\ ts[r].conv = rs[r].conv
    BY <2>1, <2>a DEF Alike, Fields
  <2>3. Same(rs, ts)
    BY <2>1, <2>2 DEF Same, AllAlike
  <2>q. QED BY <1>1, <2>3 DEF ts
<1>2. CASE found = {}
  <2> DEFINE x == [name |-> n, epoch |-> panes[n].epoch, sid |-> panes[n].sid,
                   life |-> "running", conv |-> None, parent |-> None, kind |-> None]
             k == Len(rs) + 1
  <2>1. ts = Append(rs, x)
    BY <1>2 DEF Sighted
  <2>2. /\ DOMAIN x = Fields /\ x.name = n /\ x.epoch = panes[n].epoch /\ x.sid = panes[n].sid
        /\ x.conv = None /\ x.parent = None
    BY DEF Fields
  <2> HIDE DEF ts, x
  <2>3. /\ k \notin DOMAIN rs /\ DOMAIN ts = DOMAIN rs \cup {k}
        /\ ts[k] = x /\ \A r \in DOMAIN rs : ts[r] = rs[r]
    BY <2>1, <2>2, Appended DEF Whole
  <2>4. k \in Nat /\ \A r \in DOMAIN rs : r < k
    BY Rows DEF Whole
  <2> HIDE DEF k
  <2>5. Added(rs, ts, k, n, panes[n])
    BY <2>2, <2>3, <2>4 DEF Added, NewLast
  <2>q. QED BY <1>2, <2>5 DEF ts, k
<1>q. QED BY <1>1, <1>2

LEMMA ReboundIs ==
    ASSUME NEW rs, NEW r \in DOMAIN rs, NEW n, Whole(rs)
    PROVE  Moved(rs, Rebound(rs, r, n), r, n, panes[n])
<1> DEFINE ts == Rebound(rs, r, n)
<1>1. DOMAIN ts = DOMAIN rs /\ \A s \in DOMAIN rs \ {r} : ts[s] = rs[s]
  BY DEF Rebound
<1>2. ts[r] = [[[[rs[r] EXCEPT !.name = n] EXCEPT !.epoch = panes[n].epoch]
                  EXCEPT !.sid = panes[n].sid] EXCEPT !.life = "running"]
  BY DEF Rebound
<1>3. DOMAIN rs[r] = Fields
  BY DEF Whole, IsTable
<1> HIDE DEF ts
<1>4. /\ ts[r].name = n /\ ts[r].epoch = panes[n].epoch /\ ts[r].sid = panes[n].sid
      /\ ts[r].conv = rs[r].conv /\ ts[r].parent = rs[r].parent /\ ts[r].kind = rs[r].kind
  BY <1>2, <1>3 DEF Fields
<1>5. Moved(rs, ts, r, n, panes[n])
  BY <1>1, <1>4 DEF Moved, Alike
<1>q. QED BY <1>5 DEF ts

\* The hook of a claude: nothing of a conversation that is known or of a pane that
\* is not; else at the head of a line that the pane's row leads.
LEMMA RecordedIs ==
    ASSUME NEW rs, NEW n, NEW c, NEW source, NEW left, Whole(rs), c # None
    PROVE  LET ts == Recorded(rs, n, c, source, left)
               found == Instance(rs, n, panes[n].epoch)
           IN  \/ ts = rs /\ (KnownAs(rs, c) # {} \/ found = {})
               \/ \E b \in found :
                     LET h == lineage_head(rs, b)
                     IN  /\ KnownAs(rs, c) = {}
                         /\ \/ Told(rs, ts, h, c)
                            \/ ts = rs /\ rs[h].conv # None /\ source \in PROCESS_BOOT_SOURCES
                            \/ /\ Hung(rs, ts, Len(rs) + 1, h, c)
                               /\ rs[h].conv # None /\ source \notin PROCESS_BOOT_SOURCES
                               /\ ts[Len(rs) + 1].kind = IF source = "fork" /\ ~ left
                                                         THEN "background" ELSE source
<1> DEFINE found == Instance(rs, n, panes[n].epoch)
           b == CHOOSE r \in found : TRUE
           h == lineage_head(rs, b)
           kind == IF source = "fork" /\ ~ left THEN "background" ELSE source
           x == [name |-> n, epoch |-> None, sid |-> None, life |-> "stopped",
                 conv |-> c, parent |-> h, kind |-> kind]
           ts == Recorded(rs, n, c, source, left)
           k == Len(rs) + 1
<1>1. CASE KnownAs(rs, c) # {} \/ found = {}
  BY <1>1 DEF Recorded
<1>2. CASE KnownAs(rs, c) = {} /\ found # {}
  <2>1. b \in found /\ b \in DOMAIN rs
    BY <1>2 DEF Instance
  <2>2. h \in DOMAIN rs
    <3> HIDE DEF b
    <3>q. QED BY <2>1, LineInRows DEF Whole
  <2>3. ts = IF rs[h].conv = None THEN [rs EXCEPT ![h].conv = c]
             ELSE IF source \in PROCESS_BOOT_SOURCES THEN rs ELSE Append(rs, x)
    BY <1>2 DEF Recorded
  <2>4. DOMAIN x = Fields /\ x.epoch = None /\ x.sid = None /\ x.conv = c /\ x.parent = h /\ x.kind = kind
    BY DEF Fields
  <2>5. DOMAIN rs[h] = Fields
    <3> HIDE DEF h
    <3>q. QED BY <2>2 DEF Whole, IsTable
  <2> HIDE DEF ts, x, h, kind
  <2>6. CASE rs[h].conv = None
    <3>1. /\ DOMAIN ts = DOMAIN rs /\ ts[h] = [rs[h] EXCEPT !.conv = c]
          /\ \A r \in DOMAIN rs \ {h} : ts[r] = rs[r]
      BY <2>2, <2>3, <2>6
    <3>2. ts[h].conv = c /\ Alike(rs, ts, h)
      BY <2>5, <3>1 DEF Alike, Fields
    <3>3. Told(rs, ts, h, c)
      BY <2>2, <2>6, <3>1, <3>2 DEF Told, AllAlike, Alike
    <3>q. QED BY <1>2, <2>1, <3>3 DEF ts, h
  <2>7. CASE rs[h].conv # None /\ source \in PROCESS_BOOT_SOURCES
    BY <1>2, <2>1, <2>3, <2>7 DEF ts, h
  <2>8. CASE rs[h].conv # None /\ source \notin PROCESS_BOOT_SOURCES
    <3>1. ts = Append(rs, x)
      BY <2>3, <2>8
    <3>2. /\ k \notin DOMAIN rs /\ DOMAIN ts = DOMAIN rs \cup {k}
          /\ ts[k] = x /\ \A r \in DOMAIN rs : ts[r] = rs[r]
      BY <2>4, <3>1, Appended DEF Whole
    <3>3. k \in Nat /\ \A r \in DOMAIN rs : r < k
      BY Rows DEF Whole
    <3> HIDE DEF k
    <3>4. Hung(rs, ts, k, h, c) /\ ts[k].kind = kind
      BY <2>2, <2>4, <3>2, <3>3 DEF Hung, NewLast
    <3>q. QED BY <1>2, <2>1, <2>8, <3>4 DEF ts, h, k, kind
  <2>q. QED BY <2>6, <2>7, <2>8
<1>q. QED BY <1>1, <1>2

LEMMA StampedIs ==
    ASSUME NEW rs, NEW r \in DOMAIN rs, NEW p \in DOMAIN rs, Whole(rs)
    PROVE  \/ Stamped(rs, r, p) = rs
           \/ Branded(rs, Stamped(rs, r, p), r, p)
<1> DEFINE ts == Stamped(rs, r, p)
<1>1. CASE rs[r].parent # None
  BY <1>1 DEF Stamped
<1>2. CASE rs[r].parent = None
  <2>1. /\ DOMAIN ts = DOMAIN rs /\ \A s \in DOMAIN rs \ {r} : ts[s] = rs[s]
        /\ ts[r] = [[rs[r] EXCEPT !.parent = p] EXCEPT !.kind = "fork"]
    BY <1>2 DEF Stamped
  <2>2. DOMAIN rs[r] = Fields
    BY DEF Whole, IsTable
  <2> HIDE DEF ts
  <2>3. /\ ts[r].name = rs[r].name /\ ts[r].epoch = rs[r].epoch /\ ts[r].sid = rs[r].sid
        /\ ts[r].conv = rs[r].conv /\ ts[r].parent = p /\ ts[r].kind = "fork"
    BY <2>1, <2>2 DEF Fields
  <2>4. Branded(rs, ts, r, p)
    BY <1>2, <2>1, <2>3 DEF Branded
  <2>q. QED BY <2>4 DEF ts
<1>q. QED BY <1>1, <1>2
-----------------------------------------------------------------------------
(* What stands through every write.                                        *)

\* The anchors of ts are those of rs, or name a pane of ps as it is.
Dated(ps, rs, ts) ==
    \A r \in DOMAIN ts : ts[r].epoch # None =>
       \/ r \in DOMAIN rs /\ rs[r].name = ts[r].name /\ rs[r].epoch = ts[r].epoch
       \/ ts[r].name \in DOMAIN ps /\ ts[r].epoch = ps[ts[r].name].epoch

LEMMA RowsParented ==
    ASSUME NEW rs, NEW c, NEW t, NEW u, RowsOK(rs, c, t, u)
    PROVE  Parented(rs)
BY DEF RowsOK, Parented

LEMMA SameBasics ==
    ASSUME NEW rs, NEW ts, NEW ps, NEW c, NEW t, NEW u, Same(rs, ts), RowsOK(rs, c, t, u)
    PROVE  RowsOK(ts, c, t, u) /\ Kept(rs, ts) /\ Dated(ps, rs, ts)
BY DEF Same, AllAlike, Alike, RowsOK, Kept, Dated

LEMMA ToldBasics ==
    ASSUME NEW rs, NEW ts, NEW ps, NEW h, NEW c, NEW d, NEW t, NEW u,
           Told(rs, ts, h, d), d \in 1 .. c, RowsOK(rs, c, t, u)
    PROVE  RowsOK(ts, c, t, u) /\ Kept(rs, ts) /\ Dated(ps, rs, ts)
<1>1. \A r \in DOMAIN rs : ts[r].conv = rs[r].conv \/ (ts[r].conv = d /\ rs[r].conv = None)
  BY DEF Told
<1>2. DOMAIN ts = DOMAIN rs /\ \A r \in DOMAIN rs : Alike(rs, ts, r)
  BY DEF Told, AllAlike
<1>3. RowsOK(ts, c, t, u)
  BY <1>1, <1>2 DEF RowsOK, Alike, Some
<1>q. QED BY <1>1, <1>2, <1>3 DEF Kept, Dated, Alike

LEMMA HungBasics ==
    ASSUME NEW rs, NEW ts, NEW ps, NEW k, NEW h, NEW c, NEW d, NEW t, NEW u,
           Hung(rs, ts, k, h, d), d \in 1 .. c, RowsOK(rs, c, t, u), IsTable(rs)
    PROVE  RowsOK(ts, c, t, u) /\ Kept(rs, ts) /\ Dated(ps, rs, ts)
<1>1. /\ k \in Nat /\ k \notin DOMAIN rs /\ DOMAIN ts = DOMAIN rs \cup {k}
      /\ h \in DOMAIN rs /\ h < k /\ \A r \in DOMAIN rs : ts[r] = rs[r]
      /\ ts[k].epoch = None /\ ts[k].sid = None /\ ts[k].conv = d /\ ts[k].parent = h
  BY DEF Hung, NewLast
<1>2. h # None
  BY <1>1, Rows, NoneAssumption
<1>3. RowsOK(ts, c, t, u)
  BY <1>1, <1>2 DEF RowsOK, Some
<1>q. QED BY <1>1, <1>3 DEF Kept, Dated

LEMMA AddedBasics ==
    ASSUME NEW rs, NEW ts, NEW ps, NEW k, NEW n \in DOMAIN ps, NEW c, NEW t, NEW u,
           Added(rs, ts, k, n, ps[n]), ps[n].epoch \in 1 .. t, ps[n].sid \in 1 .. u, RowsOK(rs, c, t, u)
    PROVE  RowsOK(ts, c, t, u) /\ Kept(rs, ts) /\ Dated(ps, rs, ts)
<1>1. /\ k \notin DOMAIN rs /\ DOMAIN ts = DOMAIN rs \cup {k} /\ \A r \in DOMAIN rs : ts[r] = rs[r]
      /\ ts[k].name = n /\ ts[k].epoch = ps[n].epoch /\ ts[k].sid = ps[n].sid
      /\ ts[k].conv = None /\ ts[k].parent = None
  BY DEF Added, NewLast
<1>2. ps[n].epoch # None
  BY NoneAssumption
<1>3. RowsOK(ts, c, t, u)
  BY <1>1, <1>2 DEF RowsOK, Some
<1>q. QED BY <1>1, <1>3 DEF Kept, Dated

LEMMA MovedBasics ==
    ASSUME NEW rs, NEW ts, NEW ps, NEW r, NEW n \in DOMAIN ps, NEW c, NEW t, NEW u,
           Moved(rs, ts, r, n, ps[n]), ps[n].epoch \in 1 .. t, ps[n].sid \in 1 .. u, RowsOK(rs, c, t, u)
    PROVE  RowsOK(ts, c, t, u) /\ Kept(rs, ts) /\ Dated(ps, rs, ts)
<1>1. ps[n].epoch # None
  BY NoneAssumption
<1>2. RowsOK(ts, c, t, u)
  BY <1>1 DEF RowsOK, Some, Moved, Alike
<1>3. Kept(rs, ts)
  BY <1>1 DEF Moved, Alike, Kept
<1>4. Dated(ps, rs, ts)
  BY <1>1 DEF Moved, Alike, Dated
<1>q. QED BY <1>2, <1>3, <1>4

LEMMA BrandedBasics ==
    ASSUME NEW rs, NEW ts, NEW ps, NEW r, NEW p, NEW c, NEW t, NEW u,
           Branded(rs, ts, r, p), rs[r].epoch # None, RowsOK(rs, c, t, u)
    PROVE  RowsOK(ts, c, t, u) /\ Kept(rs, ts) /\ Dated(ps, rs, ts)
<1>1. RowsOK(ts, c, t, u)
  BY DEF RowsOK, Some, Branded
<1>2. Kept(rs, ts) /\ Dated(ps, rs, ts)
  BY DEF Branded, Kept, Dated
<1>q. QED BY <1>1, <1>2

\* What a pane and a job hold on to is still there.
LEMMA JobsKept ==
    ASSUME NEW rs, NEW ts, NEW js, Kept(rs, ts), JobsOK(js, rs)
    PROVE  JobsOK(js, ts)
<1>1. \A c : c # None /\ KnownAs(rs, c) # {} => KnownAs(ts, c) # {}
  BY DEF Kept, KnownAs
<1>q. QED BY <1>1 DEF JobsOK, JobOK, Kept

LEMMA HeardKept ==
    ASSUME NEW rs, NEW ts, NEW ps, Kept(rs, ts), Dated(ps, rs, ts),
           NEW n \in DOMAIN ps, NEW p, HeardOK(n, p, rs), p.epoch = ps[n].epoch, p.epoch \in Nat
    PROVE  HeardOK(n, p, ts)
<1>1. \A c : c # None /\ KnownAs(rs, c) # {} => KnownAs(ts, c) # {}
  BY DEF Kept, KnownAs
<1>2. ASSUME p.heard = "all", NEW r \in DOMAIN ts, ts[r].name = n, ts[r].epoch # None
      PROVE  ts[r].epoch <= p.epoch
  <2>1. CASE r \in DOMAIN rs /\ rs[r].name = ts[r].name /\ rs[r].epoch = ts[r].epoch
    <3>1. \A s \in DOMAIN rs : rs[s].name = n /\ rs[s].epoch # None => rs[s].epoch <= p.epoch
      BY <1>2 DEF HeardOK
    <3>q. QED BY <1>2, <2>1, <3>1
  <2>2. CASE ts[r].epoch = p.epoch
    BY <2>2
  <2>q. QED BY <1>2, <2>1, <2>2 DEF Dated
<1>q. QED BY <1>1, <1>2 DEF HeardOK

\* The rows of a pane, through each write.
LEMMA HungOwn ==
    ASSUME NEW rs, NEW ts, NEW k, NEW h, NEW c, Hung(rs, ts, k, h, c)
    PROVE  \A n, p : Own(ts, n, p) = Own(rs, n, p)
<1>1. /\ k \notin DOMAIN rs /\ DOMAIN ts = DOMAIN rs \cup {k} /\ ts[k].epoch = None
      /\ \A r \in DOMAIN rs : ts[r] = rs[r]
  BY DEF Hung, NewLast
<1>2. ASSUME NEW n, NEW p PROVE Own(ts, n, p) = Own(rs, n, p)
  <2>1. Instance(ts, n, p.epoch) = Instance(rs, n, p.epoch)
    BY <1>1 DEF Instance
  <2>q. QED BY <1>1, <2>1 DEF Own, Instance
<1>q. QED BY <1>2

\* A hook or a correlation that lands on the line of another row b.
LEMMA Elsewhere ==
    ASSUME NEW rs, NEW ts, NEW a \in DOMAIN rs, NEW b \in DOMAIN rs \ {a}, NEW h \in Passed(rs, b), NEW c,
           NEW k, NEW o, IsTable(rs), IsTable(ts), Parented(rs),
           rs[a].epoch # None, rs[b].epoch # None, ~ Joined(rs, a), Leads(rs, a, o),
           Told(rs, ts, h, c) \/ Hung(rs, ts, k, h, c)
    PROVE  ~ Joined(ts, a) /\ Leads(ts, a, o)
<1>1. h \notin Passed(rs, a)
  BY DEF Joined
<1>2. h # lineage_head(rs, a)
  BY <1>1, LineInRows
<1>3. CASE Told(rs, ts, h, c)
  <2>1. Joined(ts, a) = Joined(rs, a)
    BY <1>3, ToldLines
  <2>2. Leads(ts, a, o)
    BY <1>2, <1>3, ToldElsewhere
  <2>q. QED BY <2>1, <2>2
<1>4. CASE Hung(rs, ts, k, h, c)
  <2>1. ~ Joined(ts, a)
    BY <1>4, HungApart
  <2>2. Leads(ts, a, o) = Leads(rs, a, o)
    BY <1>1, <1>4, HungLines
  <2>q. QED BY <2>1, <2>2
<1>q. QED BY <1>3, <1>4
-----------------------------------------------------------------------------
(* The invariant, and what needs no writer.                                *)

\* All of it, of panes ps, rows rs and jobs js.
Held(ps, rs, js, c, t, u) ==
    /\ c \in Nat /\ t \in Nat \ {0} /\ u \in Nat
    /\ Whole(rs) /\ RowsOK(rs, c, t, u) /\ PanesOK(ps, c, t, u) /\ JobsOK(js, rs)
    /\ Heard(ps, rs) /\ Followed(ps, rs)

HeadInv == used \in [panes : Nat, odd : Nat] /\ Held(panes, rows, jobs, convs, now, used.panes)

LEMMA Wider ==
    ASSUME NEW c \in Nat, NEW d \in Nat, c <= d, NEW t \in Nat, NEW s \in Nat, t <= s,
           NEW u \in Nat, NEW v \in Nat, u <= v
    PROVE  /\ \A rs : RowsOK(rs, c, t, u) => RowsOK(rs, d, s, v)
           /\ \A p : PaneOK(p, c, t, u) => PaneOK(p, d, s, v)
<1>1. /\ Some(c) \subseteq Some(d) /\ Some(t) \subseteq Some(s) /\ Some(u) \subseteq Some(v)
      /\ 1 .. t \subseteq 1 .. s /\ 1 .. u \subseteq 1 .. v
  BY DEF Some
<1>2. \A rs : RowsOK(rs, c, t, u) => RowsOK(rs, d, s, v)
  BY <1>1 DEF RowsOK
<1>3. \A p : PaneOK(p, c, t, u) => PaneOK(p, d, s, v)
  BY <1>1 DEF PaneOK
<1>q. QED BY <1>2, <1>3

LEMMA MixedIs ==
    ASSUME NEW p \in PaneRec
    PROVE  /\ Mixed(p) \in PaneRec /\ Mixed(p).heard # "all"
           /\ Mixed(p).sid = p.sid /\ Mixed(p).epoch = p.epoch /\ Mixed(p).conv = p.conv
           /\ Mixed(p).resumes = p.resumes /\ Mixed(p).home = p.home
<1>1. CASE p.heard = "all"
  BY <1>1 DEF Mixed, PaneRec
<1>2. CASE p.heard # "all"
  BY <1>2 DEF Mixed
<1>q. QED BY <1>1, <1>2

\* A pane that is not followed is only a pane.
LEMMA Unheard ==
    ASSUME NEW n, NEW p, NEW rs, p.heard # "all"
    PROVE  HeardOK(n, p, rs) /\ FollowedOK(n, p, rs)
BY DEF HeardOK, FollowedOK

\* A write that changes nothing of a line, but for what has stopped.
LEMMA SameHeld ==
    ASSUME NEW ps, NEW rs, NEW ts, NEW js, NEW c, NEW t, NEW u,
           Held(ps, rs, js, c, t, u), Same(rs, ts), Whole(ts)
    PROVE  Held(ps, ts, js, c, t, u)
<1>1. RowsOK(ts, c, t, u) /\ Kept(rs, ts) /\ Dated(ps, rs, ts)
  BY SameBasics DEF Held
<1>2. JobsOK(js, ts)
  BY <1>1, JobsKept DEF Held
<1>3. Heard(ps, ts)
  <2>1. ASSUME NEW n \in DOMAIN ps PROVE HeardOK(n, ps[n], ts)
    <3>1. ps[n].epoch \in Nat /\ HeardOK(n, ps[n], rs)
      BY <2>1 DEF Held, Heard, PanesOK, PaneOK, PaneRec
    <3>q. QED BY <1>1, <2>1, <3>1, HeardKept
  <2>q. QED BY <2>1 DEF Heard
<1>4. Followed(ps, ts)
  <2>1. /\ \A r : Follow(ts, r) = Follow(rs, r)
        /\ \A a : lineage_head(ts, a) = lineage_head(rs, a)
        /\ \A a : Joined(ts, a) = Joined(rs, a)
        /\ \A n, p : Own(ts, n, p) = Own(rs, n, p)
    BY AlikeLines DEF Same
  <2>2. ASSUME NEW n, NEW p, FollowedOK(n, p, rs), p.heard = "all", NEW a \in Own(ts, n, p)
        PROVE  ~ Joined(ts, a) /\ Leads(ts, a, p)
    <3>0. a \in Own(rs, n, p)
      BY <2>1, <2>2
    <3>1. a \in Own(rs, n, p) /\ a \in DOMAIN rs
      BY <3>0 DEF Own, Instance
    <3>2. ~ Joined(rs, a) /\ Leads(rs, a, p)
      BY <2>2, <3>1 DEF FollowedOK
    <3>3. lineage_head(rs, a) \in DOMAIN rs
      BY <3>1, LineInRows DEF Held, Whole
    <3>4. ts[lineage_head(rs, a)].conv = rs[lineage_head(rs, a)].conv
      BY <3>3 DEF Same
    <3>5. Leads(ts, a, p) = Leads(rs, a, p)
      BY <2>1, <3>4 DEF Leads
    <3>q. QED BY <2>1, <3>2, <3>5
  <2>3. \A n, p : FollowedOK(n, p, rs) => FollowedOK(n, p, ts)
    BY <2>2 DEF FollowedOK
  <2>q. QED BY <2>3 DEF Followed, Held
<1>q. QED BY <1>1, <1>2, <1>3, <1>4 DEF Held

LEMMA ReconciledHeld ==
    ASSUME HeadInv, NEW listing
    PROVE  LET rs == Reconciled(rows, listing)
           IN  /\ Held(panes, rs, jobs, convs, now, used.panes)
               /\ \A c : KnownAs(rs, c) = KnownAs(rows, c)
               /\ \A n, e : Instance(rs, n, e) = Instance(rows, n, e)
               /\ \A n, p : Own(rs, n, p) = Own(rows, n, p)
               /\ \A a : lineage_head(rs, a) = lineage_head(rows, a)
               /\ \A r \in Row : rs[r].conv = rows[r].conv
               /\ DOMAIN rs = Row
<1> DEFINE rs == Reconciled(rows, listing)
<1>1. Whole(rs) /\ Same(rows, rs)
  BY ReconciledKeeps, ReconciledIs DEF HeadInv, Held
<1> HIDE DEF rs
<1>2. Held(panes, rs, jobs, convs, now, used.panes)
  BY <1>1, SameHeld DEF HeadInv
<1>3. /\ \A n, e : Instance(rs, n, e) = Instance(rows, n, e)
      /\ \A n, p : Own(rs, n, p) = Own(rows, n, p)
      /\ \A a : lineage_head(rs, a) = lineage_head(rows, a)
  BY <1>1, AlikeLines DEF Same
<1>4. DOMAIN rs = Row /\ \A r \in Row : rs[r].conv = rows[r].conv
  BY <1>1 DEF Same, AllAlike, Row
<1>5. \A c : KnownAs(rs, c) = KnownAs(rows, c)
  BY <1>4 DEF KnownAs, Row
<1>q. QED BY <1>2, <1>3, <1>4, <1>5 DEF rs

\* Other panes: fewer of them, or one changed.
LEMMA FewerPanes ==
    ASSUME NEW ps, NEW qs, NEW rs, NEW js, NEW c, NEW t, NEW u, Held(ps, rs, js, c, t, u),
           DOMAIN qs \subseteq DOMAIN ps, \A n \in DOMAIN qs : qs[n] = ps[n]
    PROVE  Held(qs, rs, js, c, t, u)
BY DEF Held, PanesOK, Heard, Followed

LEMMA OnePane ==
    ASSUME NEW ps, NEW rs, NEW js, NEW c, NEW t, NEW u, Held(ps, rs, js, c, t, u),
           NEW n \in DOMAIN ps, NEW p, PaneOK(p, c, t, u), p.sid = ps[n].sid,
           HeardOK(n, p, rs), FollowedOK(n, p, rs)
    PROVE  Held(With(ps, n, p), rs, js, c, t, u)
<1> DEFINE qs == With(ps, n, p)
<1>1. DOMAIN qs = DOMAIN ps /\ qs[n] = p /\ \A m \in DOMAIN ps \ {n} : qs[m] = ps[m]
  BY DEF With
<1> HIDE DEF qs
<1>2. \A m \in DOMAIN ps : qs[m].sid = ps[m].sid
  BY <1>1
<1>3. PanesOK(qs, c, t, u)
  BY <1>1, <1>2 DEF Held, PanesOK
<1>4. Heard(qs, rs) /\ Followed(qs, rs)
  BY <1>1 DEF Held, Heard, Followed
<1>q. QED BY <1>3, <1>4 DEF Held, qs

LEMMA NewPane ==
    ASSUME NEW ps, NEW rs, NEW js, NEW c, NEW t, NEW u, Held(ps, rs, js, c, t, u),
           NEW n \in Name \ DOMAIN ps, NEW p, NEW d \in Nat, c <= d,
           PaneOK(p, d, t, u + 1), p.sid = u + 1, HeardOK(n, p, rs)
    PROVE  Held(With(ps, n, p), rs, js, d, t, u + 1)
<1> DEFINE qs == With(ps, n, p)
<1>1. DOMAIN qs = DOMAIN ps \cup {n} /\ qs[n] = p /\ \A m \in DOMAIN ps : qs[m] = ps[m]
  BY DEF With
<1> HIDE DEF qs
<1>0. c \in Nat /\ t \in Nat /\ u \in Nat /\ u + 1 \in Nat /\ u <= u + 1 /\ t <= t
  BY DEF Held
<1>2. RowsOK(rs, d, t, u + 1) /\ \A m \in DOMAIN ps : PaneOK(ps[m], d, t, u + 1) /\ ps[m].sid \in 1 .. u
  <2>1. /\ \A ss : RowsOK(ss, c, t, u) => RowsOK(ss, d, t, u + 1)
        /\ \A o : PaneOK(o, c, t, u) => PaneOK(o, d, t, u + 1)
    BY <1>0, Wider
  <2>2. RowsOK(rs, c, t, u) /\ \A m \in DOMAIN ps : PaneOK(ps[m], c, t, u)
    BY DEF Held, PanesOK
  <2>3. \A m \in DOMAIN ps : ps[m].sid \in 1 .. u
    BY <2>2 DEF PaneOK
  <2>q. QED BY <2>1, <2>2, <2>3
<1>3. PanesOK(qs, d, t, u + 1)
  <2>1. \A m \in DOMAIN ps : ps[m].sid # u + 1
    BY <1>0, <1>2
  <2>q. QED BY <1>1, <1>2, <2>1 DEF Held, PanesOK
<1>5. Heard(qs, rs)
  BY <1>1 DEF Held, Heard
<1>6. Own(rs, n, p) = {}
  <2>1. \A r \in DOMAIN rs : rs[r].sid \in Some(u)
    BY DEF Held, RowsOK
  <2>2. u + 1 \notin Some(u)
    BY <1>0, NoneAssumption DEF Some
  <2>q. QED BY <2>1, <2>2 DEF Own, Instance
<1>7. Followed(qs, rs)
  BY <1>1, <1>6 DEF Held, Followed, FollowedOK
<1>q. QED BY <1>0, <1>2, <1>3, <1>5, <1>7 DEF Held, qs
-----------------------------------------------------------------------------
(* Steps that leave the table as it is, or only stop a row: of tmux, the   *)
(* claudes and the requests.                                               *)

LEMMA OneJob ==
    ASSUME NEW ps, NEW rs, NEW js, NEW c, NEW t, NEW u, Held(ps, rs, js, c, t, u),
           NEW q, NEW job, JobOK(job, rs)
    PROVE  Held(ps, rs, With(js, q, job), c, t, u)
BY DEF Held, JobsOK, With

LEMMA FewerJobs ==
    ASSUME NEW ps, NEW rs, NEW js, NEW c, NEW t, NEW u, Held(ps, rs, js, c, t, u), NEW q
    PROVE  Held(ps, rs, Without(js, q), c, t, u)
BY DEF Held, JobsOK, Without

LEMMA Spending ==
    ASSUME HeadInv, NEW what \in {"panes", "odd"}, Spend(what)
    PROVE  /\ used' \in [panes : Nat, odd : Nat]
           /\ used'.panes = used.panes + IF what = "panes" THEN 1 ELSE 0
BY DEF HeadInv, Spend

LEMMA HeadTick == ASSUME HeadInv, Tick PROVE HeadInv'
<1>1. now' = now + 1 /\ UNCHANGED <<panes, rows, jobs, convs, used>>
  BY DEF Tick
<1>2. /\ convs \in Nat /\ now \in Nat \ {0} /\ used.panes \in Nat /\ now + 1 \in Nat \ {0}
      /\ now <= now + 1 /\ convs <= convs /\ used.panes <= used.panes
  BY DEF HeadInv, Held
<1>3. /\ \A rs : RowsOK(rs, convs, now, used.panes) => RowsOK(rs, convs, now + 1, used.panes)
      /\ \A p : PaneOK(p, convs, now, used.panes) => PaneOK(p, convs, now + 1, used.panes)
  BY <1>2, Wider
<1>4. PanesOK(panes, convs, now + 1, used.panes) /\ RowsOK(rows, convs, now + 1, used.panes)
  BY <1>3 DEF HeadInv, Held, PanesOK
<1>5. Held(panes, rows, jobs, convs, now + 1, used.panes)
  BY <1>2, <1>4 DEF HeadInv, Held
<1>q. QED BY <1>1, <1>5 DEF HeadInv

LEMMA HeadStartOutside == ASSUME HeadInv, NEW n \in Name, StartOutside(n) PROVE HeadInv'
<1>1. n \notin Live /\ UNCHANGED <<now, rows, jobs>>
  BY DEF StartOutside
<1>2. used' \in [panes : Nat, odd : Nat] /\ used'.panes = used.panes + 1
  BY Spending DEF StartOutside
<1>3. convs \in Nat
  BY DEF HeadInv, Held
<1>4. PICK c : panes' = With(panes, n, Pane(None, c, None)) /\ convs' \in Nat /\ convs <= convs' /\ c \in Some(convs')
  <2>1. CASE \E c \in {rows[r].conv : r \in Row} \ {None} :
               panes' = With(panes, n, Pane(None, c, None)) /\ UNCHANGED convs
    BY <1>3, <2>1 DEF HeadInv, Held, RowsOK, Row
  <2>2. CASE convs' = convs + 1 /\ panes' = With(panes, n, Pane(None, convs + 1, None))
    BY <1>3, <2>2 DEF Some
  <2>q. QED BY <2>1, <2>2 DEF StartOutside
<1> DEFINE p == Pane(None, c, None)
<1>5. PaneOK(p, convs', now, used.panes + 1) /\ p.sid = used.panes + 1 /\ p.heard # "all"
  <2>1. now \in Nat \ {0} /\ used.panes \in Nat /\ c \in Nat \cup {None}
    BY <1>4 DEF HeadInv, Held, Some
  <2>2. c \in Some(convs') /\ None \in Some(convs')
    BY <1>4 DEF Some
  <2>q. QED BY <2>1, <2>2 DEF Pane, PaneOK, PaneRec
<1> HIDE DEF p
<1>6. HeardOK(n, p, rows)
  BY <1>5, Unheard
<1>7. Held(With(panes, n, p), rows, jobs, convs', now, used.panes + 1)
  BY <1>1, <1>4, <1>5, <1>6, NewPane DEF HeadInv, Live
<1>q. QED BY <1>1, <1>2, <1>4, <1>7 DEF HeadInv, p

LEMMA HeadDie == ASSUME HeadInv, NEW n \in Name, Die(n) PROVE HeadInv'
<1>1. panes' = Without(panes, n) /\ UNCHANGED <<now, rows, jobs, convs, used>>
  BY DEF Die
<1>2. DOMAIN Without(panes, n) \subseteq DOMAIN panes
      /\ \A m \in DOMAIN Without(panes, n) : Without(panes, n)[m] = panes[m]
  BY DEF Without
<1>3. Held(Without(panes, n), rows, jobs, convs, now, used.panes)
  BY <1>2, FewerPanes DEF HeadInv
<1>q. QED BY <1>1, <1>3 DEF HeadInv

LEMMA HeadRename == ASSUME HeadInv, NEW n \in Name, NEW m \in Name, Rename(n, m) PROVE HeadInv'
<1>1. /\ n \in Live /\ m \notin Live /\ UNCHANGED <<now, rows, jobs, convs>>
      /\ panes' = With(Without(panes, n), m, [panes[n] EXCEPT !.heard = "part"])
  BY DEF Rename
<1>2. used' \in [panes : Nat, odd : Nat] /\ used'.panes = used.panes
  BY Spending DEF Rename, HeadInv
<1> DEFINE p == [panes[n] EXCEPT !.heard = "part"]
<1>3. PaneOK(panes[n], convs, now, used.panes)
  BY <1>1 DEF HeadInv, Held, PanesOK, Live
<1>4. PaneOK(p, convs, now, used.panes) /\ p.sid = panes[n].sid /\ p.heard = "part"
  BY <1>3 DEF PaneOK, PaneRec
<1>5. HeardOK(m, p, rows) /\ FollowedOK(m, p, rows)
  <2> HIDE DEF p
  <2>q. QED BY <1>4, Unheard
<1> HIDE DEF p
<1>6. /\ DOMAIN panes' = (DOMAIN panes \ {n}) \cup {m} /\ panes'[m] = p
      /\ \A o \in DOMAIN panes \ {n} : panes'[o] = panes[o]
  BY <1>1 DEF With, Without, p, Live
<1>7. PanesOK(panes, convs, now, used.panes)
  BY DEF HeadInv, Held
<1>8. PanesOK(panes', convs, now, used.panes)
  <2>1. \A o \in DOMAIN panes \ {n} : panes[o].sid # panes[n].sid
    BY <1>1, <1>7 DEF PanesOK, Live
  <2>q. QED BY <1>4, <1>6, <1>7, <2>1 DEF PanesOK
<1>9. Heard(panes', rows) /\ Followed(panes', rows)
  BY <1>5, <1>6 DEF HeadInv, Held, Heard, Followed
<1>q. QED BY <1>1, <1>2, <1>8, <1>9 DEF HeadInv, Held

LEMMA HeadLeave ==
    ASSUME HeadInv, NEW n \in Name, NEW source \in {"clear", "fork", "startup"}, Leave(n, source)
    PROVE  HeadInv'
<1> DEFINE p == [panes[n] EXCEPT !.conv = None, !.resumes = None, !.source = source,
                                 !.heard = IF source = "startup" THEN "part" ELSE @]
           told == [p EXCEPT !.ended = TRUE]
           untold == [p EXCEPT !.heard = "part"]
<1>1. n \in Live /\ UNCHANGED <<now, rows, jobs, convs>>
  BY DEF Leave
<1>2. PaneOK(panes[n], convs, now, used.panes)
  BY <1>1 DEF HeadInv, Held, PanesOK, Live
<1>3. CASE panes' = With(panes, n, told) /\ UNCHANGED used
  <2>1. /\ PaneOK(told, convs, now, used.panes) /\ told.sid = panes[n].sid /\ told.epoch = panes[n].epoch
        /\ told.conv = None /\ told.resumes = None /\ told.source = source /\ told.ended
        /\ told.home = panes[n].home
        /\ told.heard = "all" => source # "startup" /\ panes[n].heard = "all"
    BY <1>2 DEF PaneOK, PaneRec, Some
  <2> HIDE DEF told
  <2>2. HeardOK(n, panes[n], rows) /\ FollowedOK(n, panes[n], rows)
    BY <1>1 DEF HeadInv, Held, Heard, Followed, Live
  <2>3. HeardOK(n, told, rows)
    BY <2>1, <2>2 DEF HeardOK
  <2>4. \A v : told.heard = "all" => HeadOK(v, told)
    BY <2>1 DEF HeadOK
  <2>5. Own(rows, n, told) = Own(rows, n, panes[n])
    BY <2>1 DEF Own
  <2>6. FollowedOK(n, told, rows)
    BY <2>1, <2>2, <2>4, <2>5 DEF FollowedOK, Leads
  <2>7. Held(With(panes, n, told), rows, jobs, convs, now, used.panes)
    BY <1>1, <2>1, <2>3, <2>6, OnePane DEF HeadInv, Live
  <2>q. QED BY <1>1, <1>3, <2>7 DEF HeadInv
<1>4. CASE panes' = With(panes, n, untold) /\ Spend("odd")
  <2>1. PaneOK(untold, convs, now, used.panes) /\ untold.sid = panes[n].sid /\ untold.heard # "all"
    BY <1>2 DEF PaneOK, PaneRec, Some
  <2> HIDE DEF untold
  <2>2. HeardOK(n, untold, rows) /\ FollowedOK(n, untold, rows)
    BY <2>1, Unheard
  <2>3. Held(With(panes, n, untold), rows, jobs, convs, now, used.panes)
    BY <1>1, <2>1, <2>2, OnePane DEF HeadInv, Live
  <2>4. used' \in [panes : Nat, odd : Nat] /\ used'.panes = used.panes
    BY <1>4, Spending DEF HeadInv
  <2>q. QED BY <1>1, <1>4, <2>3, <2>4 DEF HeadInv
<1>q. QED BY <1>3, <1>4 DEF Leave

LEMMA HeadOtherEnds == ASSUME HeadInv, NEW n \in Name, OtherEnds(n) PROVE HeadInv'
<1> DEFINE o == [panes[n] EXCEPT !.other = FALSE, !.ended = TRUE]
           p == Mixed(o)
<1>1. n \in Live /\ panes' = [panes EXCEPT ![n] = p] /\ UNCHANGED <<now, rows, jobs, convs, used>>
  BY DEF OtherEnds
<1>2. PaneOK(panes[n], convs, now, used.panes)
  BY <1>1 DEF HeadInv, Held, PanesOK, Live
<1>3. PaneOK(o, convs, now, used.panes) /\ o \in PaneRec /\ o.sid = panes[n].sid
  BY <1>2 DEF PaneOK, PaneRec
<1> HIDE DEF o
<1>4. PaneOK(p, convs, now, used.panes) /\ p.sid = panes[n].sid /\ p.heard # "all"
  BY <1>3, MixedIs DEF PaneOK
<1>5. panes' = With(panes, n, p)
  BY <1>1 DEF With, Live
<1> HIDE DEF p
<1>6. HeardOK(n, p, rows) /\ FollowedOK(n, p, rows)
  BY <1>4, Unheard
<1>7. Held(With(panes, n, p), rows, jobs, convs, now, used.panes)
  BY <1>1, <1>4, <1>6, OnePane DEF HeadInv, Live
<1>q. QED BY <1>1, <1>5, <1>7 DEF HeadInv

\* The newest row of the name of a followed pane is its own, if it has one.
LEMMA NewestIs ==
    ASSUME NEW rs, NEW n, IsTable(rs), NEW t, \A r \in DOMAIN rs : rs[r].epoch \in Some(t), t \in Nat
    PROVE  LET r == Newest(rs, n)
           IN  /\ r # None => r \in DOMAIN rs /\ rs[r].name = n /\ rs[r].epoch # None
               /\ \A a \in DOMAIN rs : rs[a].name = n /\ rs[a].epoch # None
                                       => r # None /\ rs[a].epoch <= rs[r].epoch
<1> DEFINE anchors == {r \in DOMAIN rs : rs[r].name = n /\ rs[r].epoch # None}
           dates == {rs[r].epoch : r \in anchors}
           e == Max(dates)
           last == {r \in anchors : rs[r].epoch = e}
<1>1. CASE anchors = {}
  BY <1>1 DEF Newest
<1>2. CASE anchors # {}
  <2>1. dates \subseteq 0 .. t /\ dates # {}
    BY <1>2 DEF Some
  <2>2. e \in dates /\ \A d \in dates : d <= e
    <3> HIDE DEF dates
    <3>q. QED BY <2>1, MaxIn
  <2>3. last # {} /\ last \subseteq 0 .. Len(rs) /\ Len(rs) \in Nat
    <3> HIDE DEF e
    <3>1. PICK r \in anchors : rs[r].epoch = e
      BY <2>2
    <3>2. r \in last /\ last \subseteq DOMAIN rs
      BY <3>1
    <3> HIDE DEF last
    <3>q. QED BY <3>2, Rows
  <2>4. Max(last) \in last
    <3> HIDE DEF last
    <3>q. QED BY <2>3, MaxIn
  <2>5. Newest(rs, n) = Max(last)
    BY <1>2 DEF Newest
  <2>6. Newest(rs, n) \in anchors /\ rs[Newest(rs, n)].epoch = e /\ Newest(rs, n) # None
    BY <2>4, <2>5, Rows, NoneAssumption
  <2>q. QED BY <2>2, <2>6
<1>q. QED BY <1>1, <1>2

LEMMA HeadRespawn == ASSUME HeadInv, NEW n \in Name, Respawn(n) PROVE HeadInv'
<1> DEFINE r == Newest(rows, n)
           c == IF r = None THEN None ELSE rows[r].conv
           p == [panes[n] EXCEPT !.conv = None, !.resumes = c, !.other = FALSE,
                                 !.source = IF c = None THEN "startup" ELSE "resume",
                                 !.heard = IF r # None /\ lineage_head(rows, r) = r THEN @ ELSE "part"]
<1>1. /\ n \in Live /\ panes[n].home = n /\ panes[n].conv # None
      /\ panes' = [panes EXCEPT ![n] = p] /\ UNCHANGED <<now, rows, jobs, convs, used>>
  BY DEF Respawn
<1>2. PaneOK(panes[n], convs, now, used.panes) /\ HeardOK(n, panes[n], rows) /\ FollowedOK(n, panes[n], rows)
  BY <1>1 DEF HeadInv, Held, PanesOK, Live, Heard, Followed
<1>3. IsTable(rows) /\ RowsOK(rows, convs, now, used.panes) /\ now \in Nat /\ convs \in Nat
  BY DEF HeadInv, Held, Whole
<1>4. /\ r # None => r \in DOMAIN rows /\ rows[r].name = n /\ rows[r].epoch # None
      /\ \A a \in DOMAIN rows : rows[a].name = n /\ rows[a].epoch # None
                                => r # None /\ rows[a].epoch <= rows[r].epoch
  <2>1. \A s \in DOMAIN rows : rows[s].epoch \in Some(now)
    BY <1>3 DEF RowsOK
  <2> HIDE DEF r
  <2>q. QED BY <1>3, <2>1, NewestIs DEF r
<1> HIDE DEF r
<1>5. c \in Some(convs) /\ c \in Nat \cup {None} /\ (c # None => r # None /\ c = rows[r].conv)
  BY <1>3, <1>4 DEF RowsOK, Some
<1> HIDE DEF c
<1>6. /\ PaneOK(p, convs, now, used.panes) /\ p.sid = panes[n].sid /\ p.epoch = panes[n].epoch
      /\ p.conv = None /\ p.resumes = c /\ p.home = n /\ p.source = (IF c = None THEN "startup" ELSE "resume")
      /\ p.heard = "all" => r # None /\ lineage_head(rows, r) = r /\ panes[n].heard = "all"
  BY <1>1, <1>2, <1>5 DEF PaneOK, PaneRec, Some
<1> HIDE DEF p
<1>7. HeardOK(n, p, rows)
  <2>1. c # None => r \in KnownAs(rows, c)
    BY <1>4, <1>5 DEF KnownAs
  <2>q. QED BY <1>2, <1>6, <2>1 DEF HeardOK
<1>8. FollowedOK(n, p, rows)
  <2> SUFFICES ASSUME p.heard = "all", NEW a \in Own(rows, n, p) PROVE ~ Joined(rows, a) /\ Leads(rows, a, p)
    BY DEF FollowedOK
  <2>1. a \in Own(rows, n, panes[n])
    BY <1>6 DEF Own
  <2>2. a \in DOMAIN rows /\ rows[a].name = n /\ rows[a].epoch = panes[n].epoch /\ rows[a].epoch # None
    BY <2>1 DEF Own, Instance
  <2>3. r # None /\ rows[r].epoch = rows[a].epoch
    <3>1. r # None /\ rows[a].epoch <= rows[r].epoch
      BY <1>4, <2>2
    <3>2. rows[r].epoch <= panes[n].epoch
      BY <1>2, <1>4, <1>6, <3>1 DEF HeardOK
    <3>3. panes[n].epoch \in Nat /\ rows[r].epoch \in Some(now) /\ rows[r].epoch # None
      BY <1>2, <1>3, <1>4, <3>1 DEF PaneOK, PaneRec, RowsOK
    <3>q. QED BY <2>2, <3>1, <3>2, <3>3 DEF Some
  <2>4. r = a
    BY <1>4, <2>2, <2>3 DEF HeadInv, Held, Whole, Distinct
  <2>5. ~ Joined(rows, a) /\ Leads(rows, a, panes[n])
    BY <1>2, <1>6, <2>1 DEF FollowedOK
  <2>6. lineage_head(rows, a) = a
    BY <1>6, <2>4
  <2>7. c = rows[a].conv
    BY <2>3, <2>4 DEF c
  <2>8. HeadOK(rows[a].conv, p)
    BY <1>6, <2>7 DEF HeadOK
  <2>q. QED BY <2>5, <2>6, <2>8 DEF Leads
<1>9. panes' = With(panes, n, p)
  BY <1>1 DEF With, Live, p, c, r
<1>10. Held(With(panes, n, p), rows, jobs, convs, now, used.panes)
  BY <1>1, <1>6, <1>7, <1>8, OnePane DEF HeadInv, Live
<1>q. QED BY <1>1, <1>9, <1>10 DEF HeadInv

LEMMA HeadAskFork == ASSUME HeadInv, NEW q \in Request, NEW n \in Name, AskFork(q, n) PROVE HeadInv'
<1> DEFINE r == Newest(rows, n)
           job == Job("fork", "spawn", None, r, None)
<1>1. r # None /\ jobs' = With(jobs, q, job) /\ UNCHANGED <<now, panes, rows, convs>>
  BY DEF AskFork, Asks
<1>2. IsTable(rows) /\ now \in Nat /\ \A s \in DOMAIN rows : rows[s].epoch \in Some(now)
  BY DEF HeadInv, Held, Whole, RowsOK
<1>3. r \in DOMAIN rows /\ rows[r].epoch # None /\ r \in Nat
  <2>1. r \in DOMAIN rows /\ rows[r].epoch # None
    <3> HIDE DEF r
    <3>q. QED BY <1>1, <1>2, NewestIs DEF r
  <2>q. QED BY <1>2, <2>1, Rows
<1> HIDE DEF r
<1>4. JobOK(job, rows)
  BY <1>3 DEF Job, JobOK, JobRec
<1> HIDE DEF job
<1>5. Held(panes, rows, jobs', convs, now, used.panes)
  BY <1>1, <1>4, OneJob DEF HeadInv
<1>6. used' \in [panes : Nat, odd : Nat] /\ used'.panes = used.panes
  BY Spending DEF AskFork, HeadInv
<1>q. QED BY <1>1, <1>5, <1>6 DEF HeadInv

LEMMA HeadAskRestart == ASSUME HeadInv, NEW q \in Request, NEW r \in Row, AskRestart(q, r) PROVE HeadInv'
<1> DEFINE h == lineage_head(rows, r)
           c == IF rows[h].conv # None THEN rows[h].conv ELSE rows[r].conv
           job == Job("restart", "spawn", None, r, c)
<1>1. jobs' = With(jobs, q, job) /\ UNCHANGED <<now, panes, rows, convs, used>>
  BY DEF AskRestart, Asks
<1>2. IsTable(rows) /\ RowsOK(rows, convs, now, used.panes) /\ convs \in Nat /\ r \in DOMAIN rows
  BY DEF HeadInv, Held, Whole, Row
<1>3. h \in DOMAIN rows /\ r \in Nat
  <2>1. h \in DOMAIN rows
    BY <1>2, LineInRows
  <2>2. r \in Nat
    BY <1>2, Rows
  <2>q. QED BY <2>1, <2>2
<1> HIDE DEF h
<1>4. c \in Nat \cup {None} /\ (c # None => KnownAs(rows, c) # {})
  BY <1>2, <1>3 DEF RowsOK, Some, KnownAs
<1> HIDE DEF c
<1>5. JobOK(job, rows)
  BY <1>2, <1>3, <1>4 DEF Job, JobOK, JobRec
<1> HIDE DEF job
<1>6. Held(panes, rows, jobs', convs, now, used.panes)
  BY <1>1, <1>5, OneJob DEF HeadInv
<1>q. QED BY <1>1, <1>6 DEF HeadInv

LEMMA HeadSpawn == ASSUME HeadInv, NEW q \in Request, NEW n \in Name, Spawn(q, n) PROVE HeadInv'
<1>1. n \notin Live /\ UNCHANGED <<now, rows, convs>>
  BY DEF Spawn
<1>2. used' \in [panes : Nat, odd : Nat] /\ used'.panes = used.panes + 1
  BY Spending DEF Spawn
<1>3. now \in Nat \ {0} /\ used.panes \in Nat /\ convs \in Nat /\ RowsOK(rows, convs, now, used.panes)
  BY DEF HeadInv, Held
<1>4. \A r \in DOMAIN rows : rows[r].epoch # None => rows[r].epoch <= now
  BY <1>3 DEF RowsOK, Some
<1>5. ASSUME NEW job, JobOK(job, rows), NEW resumes \in Nat \cup {None}, 
             resumes # None => KnownAs(rows, resumes) # {}, 
             NEW p, p = Pane(n, None, resumes) \/ (p = [Pane(n, None, resumes) EXCEPT !.source = "fork"] /\ resumes = None),
             panes' = With(panes, n, p), jobs' = With(jobs, q, job)
      PROVE  HeadInv'
  <2>1. resumes \in Some(convs) /\ None \in Some(convs)
    BY <1>3, <1>5 DEF Some, KnownAs, RowsOK
  <2>2. /\ PaneOK(p, convs, now, used.panes + 1) /\ p.sid = used.panes + 1 /\ p.epoch = now
        /\ p.home = n /\ p.conv = None /\ p.resumes = resumes /\ p.heard = "all"
        /\ resumes = None => p.source # "resume"
    <3> DEFINE o == Pane(n, None, resumes)
    <3>1. /\ o \in PaneRec /\ o.sid = used.panes + 1 /\ o.epoch = now
          /\ o.home = n /\ o.conv = None /\ o.resumes = resumes /\ o.heard = "all"
          /\ resumes = None => o.source = "startup"
      BY <1>3, <1>5, NoneAssumption DEF Pane, PaneRec
    <3>2. p = o \/ (p = [o EXCEPT !.source = "fork"] /\ resumes = None)
      BY <1>5
    <3> HIDE DEF o
    <3>3. /\ p \in PaneRec /\ p.sid = used.panes + 1 /\ p.epoch = now
          /\ p.home = n /\ p.conv = None /\ p.resumes = resumes /\ p.heard = "all"
          /\ resumes = None => p.source # "resume"
      BY <3>1, <3>2 DEF PaneRec
    <3>q. QED BY <1>3, <2>1, <3>3 DEF PaneOK
  <2>3. HeardOK(n, p, rows)
    BY <1>4, <1>5, <2>2 DEF HeardOK
  <2>4. Held(With(panes, n, p), rows, jobs, convs, now, used.panes + 1)
    BY <1>1, <1>3, <2>2, <2>3, NewPane DEF HeadInv, Live
  <2>5. Held(panes', rows, jobs', convs, now, used.panes + 1)
    BY <1>5, <2>4, OneJob
  <2>q. QED BY <1>1, <1>2, <2>5 DEF HeadInv
<1>6. CASE /\ q \in DOMAIN jobs /\ jobs[q].stage = "spawn"
           /\ LET p == Pane(n, None, jobs[q].conv)
              IN  panes' = With(panes, n, IF jobs[q].kind = "fork" THEN [p EXCEPT !.source = "fork"] ELSE p)
           /\ jobs' = [jobs EXCEPT ![q].stage = "persist", ![q].name = n]
  <2> DEFINE job == [[jobs[q] EXCEPT !.stage = "persist"] EXCEPT !.name = n]
             p == Pane(n, None, jobs[q].conv)
             o == IF jobs[q].kind = "fork" THEN [p EXCEPT !.source = "fork"] ELSE p
  <2>1. JobOK(jobs[q], rows)
    BY <1>6 DEF HeadInv, Held, JobsOK
  <2>2. JobOK(job, rows)
    BY <2>1 DEF JobOK, JobRec
  <2>3. jobs' = With(jobs, q, job)
    BY <1>6 DEF With
  <2>4. /\ jobs[q].conv \in Nat \cup {None} /\ (jobs[q].conv # None => KnownAs(rows, jobs[q].conv) # {})
        /\ o = p \/ (o = [p EXCEPT !.source = "fork"] /\ jobs[q].conv = None)
    BY <2>1 DEF JobOK, JobRec
  <2>5. panes' = With(panes, n, o)
    BY <1>6
  <2> HIDE DEF job, o
  <2>q. QED BY <1>5, <2>2, <2>3, <2>4, <2>5
<1>7. CASE /\ Asks(q, Job("create", "persist", n, None, None))
           /\ panes' = With(panes, n, Pane(n, None, None))
  <2> DEFINE job == Job("create", "persist", n, None, None)
             p == Pane(n, None, None)
  <2>1. JobOK(job, rows)
    BY DEF Job, JobOK, JobRec
  <2>2. jobs' = With(jobs, q, job) /\ panes' = With(panes, n, p) /\ p = Pane(n, None, None)
    BY <1>7 DEF Asks
  <2> HIDE DEF job, p
  <2>q. QED BY <1>5, <2>1, <2>2
<1>q. QED BY <1>6, <1>7 DEF Spawn

LEMMA HeadDestroy == ASSUME HeadInv, NEW q \in Request, NEW n \in Name, Destroy(q, n) PROVE HeadInv'
<1> DEFINE job == Job("close", "mark", n, None, None)
<1>1. jobs' = With(jobs, q, job) /\ panes' = Without(panes, n) /\ UNCHANGED <<now, rows, convs, used>>
  BY DEF Destroy, Asks
<1>2. DOMAIN Without(panes, n) \subseteq DOMAIN panes
      /\ \A m \in DOMAIN Without(panes, n) : Without(panes, n)[m] = panes[m]
  BY DEF Without
<1>3. JobOK(job, rows)
  BY DEF Job, JobOK, JobRec
<1> HIDE DEF job
<1>4. Held(panes', rows, jobs, convs, now, used.panes)
  BY <1>1, <1>2, FewerPanes DEF HeadInv
<1>5. Held(panes', rows, jobs', convs, now, used.panes)
  BY <1>1, <1>3, <1>4, OneJob
<1>q. QED BY <1>1, <1>5 DEF HeadInv

LEMMA HeadList == ASSUME HeadInv, List PROVE HeadInv'
<1>1. rows' = Reconciled(rows, "complete") /\ UNCHANGED <<now, panes, jobs, convs, used>>
  BY DEF List
<1>2. Held(panes, Reconciled(rows, "complete"), jobs, convs, now, used.panes)
  BY ReconciledHeld
<1>q. QED BY <1>1, <1>2 DEF HeadInv

LEMMA HeadMarkClosed == ASSUME HeadInv, NEW q \in Request, MarkClosed(q) PROVE HeadInv'
<1> DEFINE r == Newest(rows, jobs[q].name)
           ts == [rows EXCEPT ![r].life = "stopped"]
<1>1. /\ jobs' = Without(jobs, q) /\ UNCHANGED <<now, panes, convs, used>>
      /\ rows' = rows \/ rows' = ts
  BY DEF MarkClosed
<1>2. Held(panes, ts, jobs, convs, now, used.panes)
  <2>1. Whole(rows) /\ Held(panes, rows, jobs, convs, now, used.panes)
    BY DEF HeadInv, Held
  <2> HIDE DEF r
  <2>2. Same(rows, ts) /\ Whole(ts)
    BY <2>1, ClosedIs, ClosedKeeps
  <2> HIDE DEF ts
  <2>q. QED BY <2>1, <2>2, SameHeld
<1> HIDE DEF ts
<1>3. Held(panes, rows', jobs, convs, now, used.panes)
  BY <1>1, <1>2 DEF HeadInv
<1>4. Held(panes, rows', jobs', convs, now, used.panes)
  BY <1>1, <1>3, FewerJobs
<1>q. QED BY <1>1, <1>4 DEF HeadInv
-----------------------------------------------------------------------------
(* Writes.                                                                 *)

\* A write that keeps what there is, and panes that are the same ones.
LEMMA Written ==
    ASSUME NEW ps, NEW rs, NEW js, NEW c, NEW t, NEW u, Held(ps, rs, js, c, t, u),
           NEW ts, NEW qs, NEW d \in Nat, c <= d,
           Whole(ts), RowsOK(ts, d, t, u), Kept(rs, ts), Dated(ps, rs, ts), DOMAIN qs = DOMAIN ps,
           \A n \in DOMAIN ps : /\ PaneOK(qs[n], d, t, u) /\ qs[n].sid = ps[n].sid
                                /\ qs[n].epoch = ps[n].epoch /\ HeardOK(n, qs[n], rs),
           Followed(qs, ts)
    PROVE  Held(qs, ts, js, d, t, u)
<1>1. JobsOK(js, ts)
  BY JobsKept DEF Held
<1>2. PanesOK(qs, d, t, u)
  BY DEF Held, PanesOK
<1>3. Heard(qs, ts)
  <2>1. ASSUME NEW n \in DOMAIN ps PROVE HeardOK(n, qs[n], ts)
    <3>1. HeardOK(n, qs[n], rs) /\ qs[n].epoch = ps[n].epoch /\ qs[n].epoch \in Nat
      BY <2>1 DEF PaneOK, PaneRec
    <3>q. QED BY <2>1, <3>1, HeardKept
  <2>q. QED BY <2>1 DEF Heard
<1>q. QED BY <1>1, <1>2, <1>3 DEF Held

\* What lands on the line of a row of one name is nothing to another name.
LEMMA OtherName ==
    ASSUME NEW rs, NEW ts, NEW n, NEW e, NEW b \in Instance(rs, n, e), NEW h \in Passed(rs, b), NEW c, NEW k,
           IsTable(rs), IsTable(ts), Parented(rs), Told(rs, ts, h, c) \/ Hung(rs, ts, k, h, c),
           NEW m, m # n, NEW p, FollowedOK(m, p, rs)
    PROVE  FollowedOK(m, p, ts)
<1> SUFFICES ASSUME p.heard = "all", NEW a \in Own(ts, m, p) PROVE ~ Joined(ts, a) /\ Leads(ts, a, p)
  BY DEF FollowedOK
<1>1. Own(ts, m, p) = Own(rs, m, p)
  <2>1. CASE Told(rs, ts, h, c)
    BY <2>1, AlikeLines DEF Told
  <2>2. CASE Hung(rs, ts, k, h, c)
    BY <2>2, HungOwn
  <2>q. QED BY <2>1, <2>2
<1>2. a \in Own(rs, m, p)
  BY <1>1
<1>3. ~ Joined(rs, a) /\ Leads(rs, a, p)
  BY <1>2 DEF FollowedOK
<1>4. a \in DOMAIN rs /\ rs[a].epoch # None /\ rs[a].name = m
  BY <1>2 DEF Own, Instance
<1>5. b \in DOMAIN rs \ {a} /\ rs[b].epoch # None
  BY <1>4 DEF Instance
<1>q. QED BY <1>3, <1>4, <1>5, Elsewhere

LEMMA CorrelatedBasics ==
    ASSUME NEW rs, NEW n, NEW c, NEW d, NEW t, NEW u, Whole(rs), RowsOK(rs, d, t, u), c \in Some(d)
    PROVE  LET ts == Correlated(rs, n, c)
           IN  /\ Whole(ts) /\ RowsOK(ts, d, t, u) /\ Kept(rs, ts) /\ Dated(panes, rs, ts)
               /\ \A m, p : m # n /\ FollowedOK(m, p, rs) => FollowedOK(m, p, ts)
<1> DEFINE ts == Correlated(rs, n, c)
<1>1. Whole(ts)
  BY CorrelatedKeeps
<1>2. \/ ts = rs
      \/ \E h \in Instance(rs, n, panes[n].epoch) : Told(rs, ts, h, c) /\ KnownAs(rs, c) = {}
  BY CorrelatedIs
<1> HIDE DEF ts
<1>3. CASE ts = rs
  <2>1. Kept(rs, rs) /\ Dated(panes, rs, rs)
    BY DEF Kept, Dated
  <2>q. QED BY <1>3, <2>1 DEF ts
<1>4. ASSUME NEW h \in Instance(rs, n, panes[n].epoch), Told(rs, ts, h, c)
      PROVE  /\ RowsOK(ts, d, t, u) /\ Kept(rs, ts) /\ Dated(panes, rs, ts)
             /\ \A m, p : m # n /\ FollowedOK(m, p, rs) => FollowedOK(m, p, ts)
  <2>1. c \in 1 .. d
    BY <1>4 DEF Told, Some
  <2>2. RowsOK(ts, d, t, u) /\ Kept(rs, ts) /\ Dated(panes, rs, ts)
    BY <1>4, <2>1, ToldBasics
  <2>3. h \in Passed(rs, h)
    BY <1>4, LineInRows DEF Instance, Whole
  <2>4. IsTable(rs) /\ IsTable(ts) /\ Parented(rs)
    BY <1>1, RowsParented DEF Whole
  <2>5. ASSUME NEW m, NEW p, m # n, FollowedOK(m, p, rs) PROVE FollowedOK(m, p, ts)
    BY <1>4, <2>3, <2>4, <2>5, OtherName
  <2>q. QED BY <2>2, <2>5
<1>q. QED BY <1>1, <1>2, <1>3, <1>4 DEF ts

\* An adoption says of the pane's own row what the pane shows.
LEMMA CorrelatedHeld ==
    ASSUME NEW rs, NEW js, NEW d, NEW t, NEW u, Held(panes, rs, js, d, t, u),
           NEW n \in DOMAIN panes, NEW c \in {None, panes[n].conv}
    PROVE  Held(panes, Correlated(rs, n, c), js, d, t, u)
<1> DEFINE ts == Correlated(rs, n, c)
<1>1. Whole(rs) /\ RowsOK(rs, d, t, u) /\ d \in Nat /\ d <= d
      /\ \A m \in DOMAIN panes : PaneOK(panes[m], d, t, u) /\ HeardOK(m, panes[m], rs) /\ FollowedOK(m, panes[m], rs)
  BY DEF Held, PanesOK, Heard, Followed
<1>2. c \in Some(d)
  BY <1>1 DEF PaneOK, Some
<1>3. /\ Whole(ts) /\ RowsOK(ts, d, t, u) /\ Kept(rs, ts) /\ Dated(panes, rs, ts)
      /\ \A m, p : m # n /\ FollowedOK(m, p, rs) => FollowedOK(m, p, ts)
  BY <1>1, <1>2, CorrelatedBasics
<1>4. \/ ts = rs
      \/ \E h \in Instance(rs, n, panes[n].epoch) : Told(rs, ts, h, c)
  BY <1>1, CorrelatedIs
<1> HIDE DEF ts
<1>5. FollowedOK(n, panes[n], ts)
  <2> SUFFICES ASSUME panes[n].heard = "all", NEW a \in Own(ts, n, panes[n]),
                      NEW h \in Instance(rs, n, panes[n].epoch), Told(rs, ts, h, c)
               PROVE  ~ Joined(ts, a) /\ Leads(ts, a, panes[n])
    BY <1>1, <1>4 DEF FollowedOK
  <2>1. Own(ts, n, panes[n]) = Own(rs, n, panes[n])
    BY AlikeLines DEF Told
  <2>2. a \in Own(rs, n, panes[n])
    BY <2>1
  <2>3. ~ Joined(rs, a) /\ Leads(rs, a, panes[n]) /\ a \in DOMAIN rs
    BY <1>1, <2>2 DEF FollowedOK, Own, Instance
  <2>4. Joined(ts, a) = Joined(rs, a) /\ lineage_head(ts, a) = lineage_head(rs, a)
    BY <1>1, <2>3, ToldLines DEF Whole
  <2>5. CASE h # lineage_head(rs, a)
    <3>0. IsTable(rs) /\ a \in DOMAIN rs
      BY <1>1, <2>3 DEF Whole
    <3>1. Leads(ts, a, panes[n])
      BY <2>3, <2>5, <3>0, ToldElsewhere
    <3>q. QED BY <2>3, <2>4, <3>1
  <2>6. CASE h = lineage_head(rs, a)
    <3>1. HeadOK(ts[h].conv, panes[n])
      BY DEF Told, HeadOK
    <3>q. QED BY <2>3, <2>4, <2>6, <3>1 DEF Leads
  <2>q. QED BY <2>5, <2>6
<1>6. Followed(panes, ts)
  BY <1>1, <1>3, <1>5 DEF Followed
<1>7. Held(panes, ts, js, d, t, u)
  BY <1>1, <1>3, <1>6, Written
<1>q. QED BY <1>7 DEF ts

\* A pane that is first seen gets a row of its own.
LEMMA SightedHeld ==
    ASSUME NEW rs, NEW js, NEW d, NEW t, NEW u, Held(panes, rs, js, d, t, u),
           NEW n \in DOMAIN panes, ~ Refused(rs, n)
    PROVE  Held(panes, Sighted(rs, n), js, d, t, u)
<1> DEFINE ts == Sighted(rs, n)
           k == Len(rs) + 1
<1>1. Whole(rs) /\ RowsOK(rs, d, t, u) /\ d \in Nat /\ d <= d
      /\ \A m \in DOMAIN panes : PaneOK(panes[m], d, t, u) /\ HeardOK(m, panes[m], rs) /\ FollowedOK(m, panes[m], rs)
  BY DEF Held, PanesOK, Heard, Followed
<1>2. Whole(ts)
  BY <1>1, SightedKeeps
<1>3. IF Instance(rs, n, panes[n].epoch) # {} THEN Same(rs, ts) ELSE Added(rs, ts, k, n, panes[n])
  BY <1>1, SightedIs
<1> HIDE DEF ts, k
<1>4. CASE Same(rs, ts)
  BY <1>2, <1>4, SameHeld DEF ts
<1>5. CASE Instance(rs, n, panes[n].epoch) = {} /\ Added(rs, ts, k, n, panes[n])
  <2>1. RowsOK(ts, d, t, u) /\ Kept(rs, ts) /\ Dated(panes, rs, ts)
    BY <1>1, <1>5, AddedBasics DEF PaneOK
  <2>2. IsTable(rs) /\ IsTable(ts) /\ Parented(rs)
    BY <1>1, <1>2, RowsParented DEF Whole
  <2>3. /\ ~ Joined(ts, k) /\ lineage_head(ts, k) = k
        /\ \A a \in DOMAIN rs : /\ ~ Joined(rs, a) => ~ Joined(ts, a)
                                /\ \A o : Leads(ts, a, o) = Leads(rs, a, o)
    BY <1>5, <2>2, AddedLines
  <2>4. /\ k \notin DOMAIN rs /\ DOMAIN ts = DOMAIN rs \cup {k} /\ ts[k].name = n /\ ts[k].conv = None
        /\ \A r \in DOMAIN rs : ts[r] = rs[r]
    BY <1>5 DEF Added, NewLast
  <2>5. \A p : Leads(ts, k, p)
    BY <2>3, <2>4 DEF Leads, HeadOK
  <2>6. ASSUME NEW m \in DOMAIN panes PROVE FollowedOK(m, panes[m], ts)
    <3> SUFFICES ASSUME panes[m].heard = "all", NEW a \in Own(ts, m, panes[m])
                 PROVE  ~ Joined(ts, a) /\ Leads(ts, a, panes[m])
      BY DEF FollowedOK
    <3>1. CASE a = k
      BY <2>3, <2>5, <3>1
    <3>2. CASE a # k
      <4>1. a \in Own(rs, m, panes[m]) /\ a \in DOMAIN rs
        BY <2>4, <3>2 DEF Own, Instance
      <4>2. ~ Joined(rs, a) /\ Leads(rs, a, panes[m])
        BY <1>1, <2>6, <4>1 DEF FollowedOK
      <4>q. QED BY <2>3, <4>1, <4>2
    <3>q. QED BY <3>1, <3>2
  <2>7. Followed(panes, ts)
    BY <2>6 DEF Followed
  <2>8. Held(panes, ts, js, d, t, u)
    BY <1>1, <1>2, <2>1, <2>7, Written
  <2>q. QED BY <2>8 DEF ts
<1>q. QED BY <1>3, <1>4, <1>5

LEMMA HeadAdopt == ASSUME HeadInv, NEW n \in Name, NEW listing \in Listing, Adopt(n, listing) PROVE HeadInv'
<1> DEFINE rs == Reconciled(rows, listing)
<1>1. n \in DOMAIN panes /\ UNCHANGED <<now, panes, jobs, convs>> /\ Lists(listing)
  BY DEF Adopt, Live
<1>2. Held(panes, rs, jobs, convs, now, used.panes)
  BY ReconciledHeld
<1>3. used' \in [panes : Nat, odd : Nat] /\ used'.panes = used.panes
  <2>1. CASE UNCHANGED used
    BY <2>1 DEF HeadInv
  <2>2. CASE Spend("odd")
    BY <2>2, Spending DEF HeadInv
  <2>q. QED BY <1>1, <2>1, <2>2 DEF Lists
<1>4. \/ rows' = rs
      \/ ~ Refused(rs, n) /\ \E c \in {None, panes[n].conv} : rows' = Correlated(Sighted(rs, n), n, c)
  <2>1. {None} \cup (IF now > panes[n].epoch THEN {panes[n].conv} ELSE {}) \subseteq {None, panes[n].conv}
    OBVIOUS
  <2>q. QED BY <2>1 DEF Adopt
<1> HIDE DEF rs
<1>5. Held(panes, rows', jobs, convs, now, used.panes)
  <2>1. CASE rows' = rs
    BY <1>2, <2>1
  <2>2. CASE ~ Refused(rs, n) /\ \E c \in {None, panes[n].conv} : rows' = Correlated(Sighted(rs, n), n, c)
    <3>1. Held(panes, Sighted(rs, n), jobs, convs, now, used.panes)
      BY <1>1, <1>2, <2>2, SightedHeld
    <3>2. PICK c \in {None, panes[n].conv} : rows' = Correlated(Sighted(rs, n), n, c)
      BY <2>2
    <3>q. QED BY <1>1, <3>1, <3>2, CorrelatedHeld
  <2>q. QED BY <1>4, <2>1, <2>2
<1>q. QED BY <1>1, <1>3, <1>5 DEF HeadInv
-----------------------------------------------------------------------------
(* Writes that can join lines.                                             *)

\* A write that may join lines, once that is noted.
LEMMA NotedHeld ==
    ASSUME NEW ps, NEW rs, NEW js, NEW c, NEW t, NEW u, Held(ps, rs, js, c, t, u),
           NEW ts, NEW qs,
           Whole(ts), RowsOK(ts, c, t, u), Kept(rs, ts), Dated(ps, rs, ts), DOMAIN qs = DOMAIN ps,
           \A n \in DOMAIN ps : /\ PaneOK(qs[n], c, t, u) /\ qs[n].sid = ps[n].sid
                                /\ qs[n].epoch = ps[n].epoch /\ HeardOK(n, qs[n], rs),
           \A n \in DOMAIN ps : \A a \in Own(ts, n, qs[n]) :
              qs[n].heard = "all" /\ ~ Joined(ts, a) => Leads(ts, a, qs[n])
    PROVE  Held(Noted(qs, ts), ts, js, c, t, u)
<1> DEFINE ns == Noted(qs, ts)
<1>1. DOMAIN ns = DOMAIN ps
  BY DEF Noted
<1>2. ASSUME NEW n \in DOMAIN ps
      PROVE  /\ PaneOK(ns[n], c, t, u) /\ ns[n].sid = ps[n].sid /\ ns[n].epoch = ps[n].epoch
             /\ HeardOK(n, ns[n], rs) /\ FollowedOK(n, ns[n], ts)
  <2>1. /\ PaneOK(qs[n], c, t, u) /\ qs[n] \in PaneRec /\ qs[n].sid = ps[n].sid
        /\ qs[n].epoch = ps[n].epoch /\ HeardOK(n, qs[n], rs)
    BY DEF PaneOK
  <2>2. ns[n] = IF \E a \in Own(ts, n, qs[n]) : Joined(ts, a) THEN Mixed(qs[n]) ELSE qs[n]
    BY <1>2 DEF Noted
  <2> HIDE DEF ns
  <2>3. CASE \E a \in Own(ts, n, qs[n]) : Joined(ts, a)
    <3>1. ns[n] = Mixed(qs[n])
      BY <2>2, <2>3
    <3>2. /\ ns[n] \in PaneRec /\ ns[n].heard # "all" /\ ns[n].sid = qs[n].sid /\ ns[n].epoch = qs[n].epoch
          /\ ns[n].conv = qs[n].conv /\ ns[n].resumes = qs[n].resumes
      BY <2>1, <3>1, MixedIs
    <3>q. QED BY <2>1, <3>2, Unheard DEF PaneOK
  <2>4. CASE ~ \E a \in Own(ts, n, qs[n]) : Joined(ts, a)
    <3>1. ns[n] = qs[n]
      BY <2>2, <2>4
    <3>q. QED BY <2>1, <2>4, <3>1 DEF FollowedOK
  <2>q. QED BY <2>3, <2>4
<1> HIDE DEF ns
<1>3. Followed(ns, ts)
  BY <1>1, <1>2 DEF Followed
<1>4. c \in Nat /\ c <= c
  BY DEF Held
<1>5. Held(ns, ts, js, c, t, u)
  BY <1>1, <1>2, <1>3, <1>4, Written
<1>q. QED BY <1>5 DEF ns

LEMMA HeadStamp == ASSUME HeadInv, NEW q \in Request, Stamp(q) PROVE HeadInv'
<1> DEFINE r == Newest(rows, jobs[q].name)
           ts == Stamped(rows, r, jobs[q].row)
<1>1. /\ q \in DOMAIN jobs /\ jobs[q].stage = "stamp" /\ jobs' = Without(jobs, q) /\ UNCHANGED <<now, convs, used>>
      /\ rows' = (IF r = None THEN rows ELSE ts) /\ panes' = Noted(panes, rows')
  BY DEF Stamp
<1>2. jobs[q].row \in DOMAIN rows /\ rows[jobs[q].row].epoch # None
  BY <1>1 DEF HeadInv, Held, JobsOK, JobOK
<1>3. /\ Held(panes, rows, jobs, convs, now, used.panes)
      /\ Whole(rows) /\ IsTable(rows) /\ RowsOK(rows, convs, now, used.panes) /\ now \in Nat
      /\ \A n \in DOMAIN panes : /\ PaneOK(panes[n], convs, now, used.panes)
                                 /\ HeardOK(n, panes[n], rows) /\ FollowedOK(n, panes[n], rows)
  BY DEF HeadInv, Held, Whole, PanesOK, Heard, Followed
<1>4. r # None => r \in DOMAIN rows /\ rows[r].epoch # None
  <2>1. \A s \in DOMAIN rows : rows[s].epoch \in Some(now)
    BY <1>3 DEF RowsOK
  <2> HIDE DEF r
  <2>q. QED BY <1>3, <2>1, NewestIs DEF r
<1> HIDE DEF r
<1>5. rows' = rows \/ (rows' = ts /\ Branded(rows, ts, r, jobs[q].row) /\ r \in DOMAIN rows /\ rows[r].epoch # None)
  BY <1>1, <1>2, <1>3, <1>4, StampedIs
<1>6. Whole(ts)
  BY <1>3, StampedKeeps
<1> HIDE DEF ts
<1>7. Held(Noted(panes, rows'), rows', jobs, convs, now, used.panes)
  <2>1. CASE rows' = rows
    <3>1. Kept(rows, rows) /\ Dated(panes, rows, rows)
      BY DEF Kept, Dated
    <3>2. \A n \in DOMAIN panes : \A a \in Own(rows, n, panes[n]) :
              panes[n].heard = "all" /\ ~ Joined(rows, a) => Leads(rows, a, panes[n])
      BY <1>3 DEF FollowedOK
    <3>3. Held(Noted(panes, rows), rows, jobs, convs, now, used.panes)
      BY <1>3, <3>1, <3>2, NotedHeld
    <3>q. QED BY <2>1, <3>3
  <2>2. CASE rows' = ts /\ Branded(rows, ts, r, jobs[q].row) /\ r \in DOMAIN rows /\ rows[r].epoch # None
    <3>1. RowsOK(ts, convs, now, used.panes) /\ Kept(rows, ts) /\ Dated(panes, rows, ts)
      BY <1>3, <2>2, BrandedBasics
    <3>2. \A s \in DOMAIN rows : rows[s].epoch = None => rows[s].parent # None /\ rows[s].parent < s
      BY <1>3 DEF RowsOK
    <3>3. IsTable(ts)
      BY <1>6 DEF Whole
    <3>4. ASSUME NEW n \in DOMAIN panes, NEW a \in Own(ts, n, panes[n]), panes[n].heard = "all", ~ Joined(ts, a)
          PROVE  Leads(ts, a, panes[n])
      <4>1. a \in Own(rows, n, panes[n]) /\ a \in DOMAIN rows
        BY <2>2, <3>4 DEF Own, Instance, Branded
      <4>2. ~ Joined(rows, a) /\ Leads(rows, a, panes[n])
        BY <1>3, <3>4, <4>1 DEF FollowedOK
      <4>q. QED BY <1>2, <1>3, <2>2, <3>2, <3>3, <3>4, <4>1, <4>2, BrandedLines
    <3>5. Held(Noted(panes, ts), ts, jobs, convs, now, used.panes)
      BY <1>3, <1>6, <3>1, <3>4, NotedHeld
    <3>q. QED BY <2>2, <3>5
  <2>q. QED BY <1>5, <2>1, <2>2
<1>8. Held(panes', rows', jobs', convs, now, used.panes)
  BY <1>1, <1>7, FewerJobs
<1>q. QED BY <1>1, <1>8 DEF HeadInv

\* A restart whose pane resumes what the head of the row's line says.
LEMMA ReboundHeld ==
    ASSUME NEW rs, NEW js, NEW d, NEW t, NEW u, Held(panes, rs, js, d, t, u),
           NEW n \in DOMAIN panes, NEW r \in DOMAIN rs, ~ Clashes(rs, r, n)
    PROVE  LET ps == IF rs[lineage_head(rs, r)].conv # panes[n].resumes
                     THEN [panes EXCEPT ![n].heard = "part"] ELSE panes
           IN  Held(Noted(ps, Rebound(rs, r, n)), Rebound(rs, r, n), js, d, t, u)
<1> DEFINE ts == Rebound(rs, r, n)
           h == lineage_head(rs, r)
           p == [panes[n] EXCEPT !.heard = "part"]
           ps == IF rs[h].conv # panes[n].resumes THEN [panes EXCEPT ![n].heard = "part"] ELSE panes
<1>1. Whole(rs) /\ IsTable(rs) /\ RowsOK(rs, d, t, u)
      /\ \A m \in DOMAIN panes : PaneOK(panes[m], d, t, u) /\ HeardOK(m, panes[m], rs) /\ FollowedOK(m, panes[m], rs)
  BY DEF Held, PanesOK, Heard, Followed, Whole
<1>2. Whole(ts) /\ Moved(rs, ts, r, n, panes[n])
  BY <1>1, ReboundKeeps, ReboundIs
<1>3. DOMAIN ps = DOMAIN panes /\ (\A m \in DOMAIN panes \ {n} : ps[m] = panes[m])
      /\ (ps[n] = p \/ (ps[n] = panes[n] /\ rs[h].conv = panes[n].resumes))
  OBVIOUS
<1>4. PaneOK(p, d, t, u) /\ p.sid = panes[n].sid /\ p.epoch = panes[n].epoch /\ p.heard # "all"
  BY <1>1 DEF PaneOK, PaneRec
<1>5. HeardOK(n, p, rs)
  <2> HIDE DEF p
  <2>q. QED BY <1>4, Unheard
<1> HIDE DEF ts, ps, p, h
<1>6. \A m \in DOMAIN panes : /\ PaneOK(ps[m], d, t, u) /\ ps[m].sid = panes[m].sid
                              /\ ps[m].epoch = panes[m].epoch /\ HeardOK(m, ps[m], rs)
  BY <1>1, <1>3, <1>4, <1>5
<1>7. RowsOK(ts, d, t, u) /\ Kept(rs, ts) /\ Dated(panes, rs, ts)
  BY <1>1, <1>2, MovedBasics DEF PaneOK
<1>8. /\ \A a : lineage_head(ts, a) = lineage_head(rs, a)
      /\ \A a \in DOMAIN rs : \A o : Leads(ts, a, o) = Leads(rs, a, o)
  BY <1>1, <1>2, MovedLines
<1>9. ASSUME NEW m \in DOMAIN panes, NEW a \in Own(ts, m, ps[m]), ps[m].heard = "all"
      PROVE  Leads(ts, a, ps[m])
  <2>1. a \in DOMAIN rs /\ ts[a].name = m /\ ts[a].epoch = ps[m].epoch /\ ts[a].sid = ps[m].sid /\ ts[a].epoch # None
    BY <1>2, <1>9 DEF Own, Instance, Moved
  <2>2. ps[m] = panes[m]
    BY <1>3, <1>4, <1>9
  <2>3. CASE a # r
    <3>1. a \in Own(rs, m, panes[m])
      BY <1>2, <2>1, <2>2, <2>3 DEF Own, Instance, Moved, Alike
    <3>q. QED BY <1>1, <1>8, <1>9, <2>1, <2>2, <3>1 DEF FollowedOK
  <2>4. CASE a = r
    <3>1. m = n /\ rs[h].conv = panes[n].resumes
      BY <1>2, <1>3, <1>4, <1>9, <2>1, <2>4 DEF Moved
    <3>2. HeadOK(rs[h].conv, panes[n])
      BY <1>1, <1>9, <2>2, <3>1 DEF HeadOK, HeardOK
    <3>3. Leads(rs, a, panes[n])
      BY <2>4, <3>2 DEF Leads, h
    <3>q. QED BY <1>8, <2>1, <2>2, <3>1, <3>3
  <2>q. QED BY <2>3, <2>4
<1>10. Held(Noted(ps, ts), ts, js, d, t, u)
  BY <1>2, <1>3, <1>6, <1>7, <1>9, NotedHeld
<1>q. QED BY <1>10 DEF ps, ts, h

LEMMA HeadPersist ==
    ASSUME HeadInv, NEW q \in Request, NEW listing \in Listing, Persist(q, listing)
    PROVE  HeadInv'
<1> DEFINE job == jobs[q]
           n == job.name
           rs == Reconciled(rows, listing)
           h == lineage_head(rs, job.row)
           rebinds == job.kind = "restart" /\ ~ Clashes(rs, job.row, n)
<1>1. q \in DOMAIN jobs /\ UNCHANGED <<now, convs>> /\ Lists(listing) /\ job.stage = "persist"
      /\ jobs' = (IF job.kind = "fork" THEN [jobs EXCEPT ![q].stage = "stamp"] ELSE Without(jobs, q))
  BY DEF Persist
<1>2. Held(panes, rs, jobs, convs, now, used.panes)
  BY ReconciledHeld
<1>3. used' \in [panes : Nat, odd : Nat] /\ used'.panes = used.panes
  <2>1. CASE UNCHANGED used
    BY <2>1 DEF HeadInv
  <2>2. CASE Spend("odd")
    BY <2>2, Spending DEF HeadInv
  <2>q. QED BY <1>1, <2>1, <2>2 DEF Lists
<1>4. JobOK(job, rs)
  BY <1>1, <1>2 DEF Held, JobsOK
<1>5. \/ rows' = rs /\ panes' = panes
      \/ /\ n \in DOMAIN panes /\ rebinds /\ rows' = Rebound(rs, job.row, n)
         /\ panes' = Noted(IF rs[h].conv # panes[n].resumes
                           THEN [panes EXCEPT ![n].heard = "part"] ELSE panes, rows')
      \/ /\ n \in DOMAIN panes /\ ~ rebinds /\ panes' = Noted(panes, rows')
         /\ rows' = (IF Refused(rs, n) THEN rs ELSE Sighted(rs, n))
  BY DEF Persist, Live
<1> HIDE DEF rs, job
<1>6. ASSUME NEW ts, Held(panes, ts, jobs, convs, now, used.panes)
      PROVE  Held(Noted(panes, ts), ts, jobs, convs, now, used.panes)
  <2>1. Kept(ts, ts) /\ Dated(panes, ts, ts)
    BY DEF Kept, Dated
  <2>2. /\ Whole(ts) /\ RowsOK(ts, convs, now, used.panes)
        /\ \A m \in DOMAIN panes : /\ PaneOK(panes[m], convs, now, used.panes)
                                   /\ HeardOK(m, panes[m], ts) /\ FollowedOK(m, panes[m], ts)
    BY <1>6 DEF Held, PanesOK, Heard, Followed
  <2>3. \A m \in DOMAIN panes : \A a \in Own(ts, m, panes[m]) :
            panes[m].heard = "all" /\ ~ Joined(ts, a) => Leads(ts, a, panes[m])
    BY <2>2 DEF FollowedOK
  <2>q. QED BY <1>6, <2>1, <2>2, <2>3, NotedHeld
<1>7. Held(panes', rows', jobs, convs, now, used.panes)
  <2>1. CASE rows' = rs /\ panes' = panes
    BY <1>2, <2>1
  <2>2. CASE /\ n \in DOMAIN panes /\ rebinds /\ rows' = Rebound(rs, job.row, n)
             /\ panes' = Noted(IF rs[h].conv # panes[n].resumes
                               THEN [panes EXCEPT ![n].heard = "part"] ELSE panes, rows')
    <3>1. job.row \in DOMAIN rs
      BY <1>4, <2>2 DEF JobOK
    <3>q. QED BY <1>2, <2>2, <3>1, ReboundHeld
  <2>3. CASE /\ n \in DOMAIN panes /\ ~ rebinds /\ panes' = Noted(panes, rows')
             /\ rows' = (IF Refused(rs, n) THEN rs ELSE Sighted(rs, n))
    <3>1. Held(panes, rows', jobs, convs, now, used.panes)
      BY <1>2, <2>3, SightedHeld
    <3>q. QED BY <1>6, <2>3, <3>1
  <2>q. QED BY <1>5, <2>1, <2>2, <2>3
<1>8. Held(panes', rows', jobs', convs, now, used.panes)
  <2>1. CASE job.kind = "fork"
    <3> DEFINE new == [job EXCEPT !.stage = "stamp"]
    <3>1. JobOK(job, rows')
      BY <1>1, <1>7 DEF Held, JobsOK, job
    <3>2. JobOK(new, rows')
      BY <1>1, <2>1, <3>1 DEF JobOK, JobRec, job
    <3>3. jobs' = With(jobs, q, new)
      BY <1>1, <2>1 DEF With, job
    <3> HIDE DEF new
    <3>q. QED BY <1>7, <3>2, <3>3, OneJob
  <2>2. CASE job.kind # "fork"
    BY <1>1, <1>7, <2>2, FewerJobs
  <2>q. QED BY <2>1, <2>2
<1>q. QED BY <1>1, <1>3, <1>8 DEF HeadInv
-----------------------------------------------------------------------------
(* Hooks.                                                                  *)

LEMMA RecordedBasics ==
    ASSUME NEW rs, NEW n, NEW c, NEW d, NEW t, NEW u, NEW source, NEW left,
           Whole(rs), RowsOK(rs, d, t, u), c \in 1 .. d, d \in Nat
    PROVE  LET ts == Recorded(rs, n, c, source, left)
           IN  /\ Whole(ts) /\ RowsOK(ts, d, t, u) /\ Kept(rs, ts) /\ Dated(panes, rs, ts)
               /\ \A m, p : m # n /\ FollowedOK(m, p, rs) => FollowedOK(m, p, ts)
<1> DEFINE ts == Recorded(rs, n, c, source, left)
           found == Instance(rs, n, panes[n].epoch)
<1>1. Whole(ts) /\ c # None
  BY RecordedKeeps, NoneAssumption
<1>2. IsTable(rs) /\ IsTable(ts) /\ Parented(rs)
  BY <1>1, RowsParented DEF Whole
<1>3. \/ ts = rs
      \/ \E b \in found : \/ Told(rs, ts, lineage_head(rs, b), c)
                          \/ Hung(rs, ts, Len(rs) + 1, lineage_head(rs, b), c)
  BY <1>1, RecordedIs
<1> HIDE DEF ts
<1>4. CASE ts = rs
  <2>1. Kept(rs, rs) /\ Dated(panes, rs, rs)
    BY DEF Kept, Dated
  <2>q. QED BY <1>1, <1>4, <2>1 DEF ts
<1>5. ASSUME NEW b \in found, NEW k, NEW h, h = lineage_head(rs, b), Told(rs, ts, h, c) \/ Hung(rs, ts, k, h, c)
      PROVE  /\ RowsOK(ts, d, t, u) /\ Kept(rs, ts) /\ Dated(panes, rs, ts)
             /\ \A m, p : m # n /\ FollowedOK(m, p, rs) => FollowedOK(m, p, ts)
  <2>1. RowsOK(ts, d, t, u) /\ Kept(rs, ts) /\ Dated(panes, rs, ts)
    <3>1. CASE Told(rs, ts, h, c)
      BY <3>1, ToldBasics
    <3>2. CASE Hung(rs, ts, k, h, c)
      BY <1>2, <3>2, HungBasics
    <3>q. QED BY <1>5, <3>1, <3>2
  <2>2. h \in Passed(rs, b)
    BY <1>2, <1>5, LineInRows DEF Instance
  <2>3. ASSUME NEW m, NEW p, m # n, FollowedOK(m, p, rs) PROVE FollowedOK(m, p, ts)
    BY <1>2, <1>5, <2>2, <2>3, OtherName
  <2>q. QED BY <2>1, <2>3
<1>q. QED BY <1>1, <1>3, <1>4, <1>5 DEF ts

\* What a hook of conversation c makes of the line of a, the row of its own pane:
\* nothing; the head comes to name c; or the head, which names another, stays.
Hooked(rs, ts, a, c, source, left) ==
    LET v == rs[lineage_head(rs, a)].conv
        aside == source \in PROCESS_BOOT_SOURCES \/ (source = "fork" /\ ~ left)
    IN  /\ ~ Joined(rs, a) => ~ Joined(ts, a)
        /\ \A m, p : Own(ts, m, p) = Own(rs, m, p)
        /\ \/ KnownAs(rs, c) # {} /\ ts = rs
           \/ KnownAs(rs, c) = {} /\ (v = None \/ ~ aside) /\ \A o : HeadOK(c, o) => Leads(ts, a, o)
           \/ KnownAs(rs, c) = {} /\ v # None /\ aside /\ \A o : Leads(rs, a, o) => Leads(ts, a, o)

LEMMA OwnHook ==
    ASSUME NEW rs, NEW n, NEW c, NEW source \in {"startup", "resume", "clear", "fork"}, NEW left,
           Whole(rs), Parented(rs), c # None, NEW a \in Instance(rs, n, panes[n].epoch)
    PROVE  Hooked(rs, Recorded(rs, n, c, source, left), a, c, source, left)
<1> DEFINE ts == Recorded(rs, n, c, source, left)
           found == Instance(rs, n, panes[n].epoch)
           h == lineage_head(rs, a)
           k == Len(rs) + 1
           aside == source \in PROCESS_BOOT_SOURCES \/ (source = "fork" /\ ~ left)
<1>1. Whole(ts) /\ IsTable(rs) /\ IsTable(ts)
  BY RecordedKeeps DEF Whole
<1>2. a \in DOMAIN rs /\ rs[a].epoch # None /\ \A b \in found : b = a
  BY DEF Instance, Whole, Distinct
<1>3. \/ ts = rs /\ KnownAs(rs, c) # {}
      \/ /\ KnownAs(rs, c) = {}
         /\ \/ Told(rs, ts, h, c)
            \/ ts = rs /\ rs[h].conv # None /\ source \in PROCESS_BOOT_SOURCES
            \/ /\ Hung(rs, ts, k, h, c) /\ rs[h].conv # None /\ source \notin PROCESS_BOOT_SOURCES
               /\ ts[k].kind = IF source = "fork" /\ ~ left THEN "background" ELSE source
  <2>1. /\ found # {}
        /\ \/ ts = rs /\ (KnownAs(rs, c) # {} \/ found = {})
           \/ \E b \in found :
                 LET g == lineage_head(rs, b)
                 IN  /\ KnownAs(rs, c) = {}
                     /\ \/ Told(rs, ts, g, c)
                        \/ ts = rs /\ rs[g].conv # None /\ source \in PROCESS_BOOT_SOURCES
                        \/ /\ Hung(rs, ts, k, g, c)
                           /\ rs[g].conv # None /\ source \notin PROCESS_BOOT_SOURCES
                           /\ ts[k].kind = IF source = "fork" /\ ~ left THEN "background" ELSE source
    BY RecordedIs
  <2> HIDE DEF ts, found, k
  <2>q. QED BY <1>2, <2>1
<1> HIDE DEF ts, found, h, k
<1>4. CASE KnownAs(rs, c) # {} /\ ts = rs
  BY <1>4 DEF ts, Hooked
<1>5. CASE KnownAs(rs, c) = {} /\ Told(rs, ts, h, c)
  <2>1. Joined(ts, a) = Joined(rs, a) /\ lineage_head(ts, a) = h /\ \A m, p : Own(ts, m, p) = Own(rs, m, p)
    BY <1>5, AlikeLines DEF Told, h
  <2>2. rs[h].conv = None /\ \A o : HeadOK(c, o) => Leads(ts, a, o)
    BY <1>5, <2>1 DEF Leads, Told
  <2>q. QED BY <1>5, <2>1, <2>2 DEF ts, h, Hooked
<1>6. CASE KnownAs(rs, c) = {} /\ ts = rs /\ rs[h].conv # None /\ source \in PROCESS_BOOT_SOURCES
  BY <1>6 DEF ts, h, Hooked
<1>7. CASE /\ KnownAs(rs, c) = {} /\ Hung(rs, ts, k, h, c) /\ rs[h].conv # None
           /\ source \notin PROCESS_BOOT_SOURCES
           /\ ts[k].kind = IF source = "fork" /\ ~ left THEN "background" ELSE source
  <2>1. ~ Joined(rs, a) => ~ Joined(ts, a)
    BY <1>1, <1>2, <1>7, HungApart
  <2>2. \A m, p : Own(ts, m, p) = Own(rs, m, p)
    BY <1>7, HungOwn
  <2>3. /\ ts[k].kind = "background" => \A o : Leads(ts, a, o) = Leads(rs, a, o)
        /\ ts[k].kind # "background" => \A o : HeadOK(c, o) => Leads(ts, a, o)
    BY <1>1, <1>2, <1>7, HungLines DEF h
  <2>4. aside => ts[k].kind = "background"
    BY <1>7
  <2>5. ~ aside => ts[k].kind # "background"
    BY <1>7 DEF PROCESS_BOOT_SOURCES
  <2> HIDE DEF aside
  <2>6. \/ ~ aside /\ \A o : HeadOK(c, o) => Leads(ts, a, o)
        \/ aside /\ \A o : Leads(rs, a, o) => Leads(ts, a, o)
    BY <2>3, <2>4, <2>5
  <2>q. QED BY <1>7, <2>1, <2>2, <2>6 DEF ts, h, aside, Hooked
<1>q. QED BY <1>3, <1>4, <1>5, <1>6, <1>7

\* A hook, whatever it makes of its own pane's line.
LEMMA HeadStart ==
    ASSUME HeadInv, NEW n \in Live, NEW STATE p, NEW STATE c, NEW STATE source, Start(n, p, c, source),
           p \in PaneRec, p.sid = panes[n].sid, p.epoch = panes[n].epoch,
           c \in 1 .. convs + 1, p.conv \in Some(Max({convs, c})), p.resumes \in Some(convs),
           HeardOK(n, p, rows), p.home \in Name,
           FollowedOK(n, [p EXCEPT !.ended = FALSE],
                      Recorded(Reconciled(rows, "complete"), n, c, source, p.ended))
    PROVE  HeadInv'
<1> DEFINE rs == Reconciled(rows, "complete")
           d == Max({convs, c})
           told == [p EXCEPT !.ended = FALSE]
           miss == [p EXCEPT !.heard = "part"]
           ps == With(panes, n, told)
<1>1. convs \in Nat /\ d \in Nat /\ convs <= d /\ c \in 1 .. d /\ now \in Nat /\ used.panes \in Nat
  <2>1. convs \in Nat /\ c \in Nat /\ 1 <= c /\ now \in Nat /\ used.panes \in Nat
    BY DEF HeadInv, Held
  <2>2. d \in Nat /\ convs <= d /\ c <= d
    BY <2>1, MaxOfTwo
  <2> HIDE DEF d
  <2>q. QED BY <2>1, <2>2
<1>2. Held(panes, rs, jobs, convs, now, used.panes) /\ \A e : KnownAs(rs, e) = KnownAs(rows, e)
  BY ReconciledHeld
<1>3. UNCHANGED <<now, jobs>> /\ convs' = d
  BY DEF Start
<1>4. n \in DOMAIN panes /\ DOMAIN panes = Live
  BY DEF Live
<1>5. \A m \in DOMAIN panes : panes[m].sid = panes[n].sid => m = n
  BY <1>4 DEF HeadInv, Held, PanesOK
<1>6. \A q : PaneOK(q, convs, now, used.panes) => PaneOK(q, d, now, used.panes)
  <2>1. now <= now /\ used.panes <= used.panes
    BY <1>1
  <2> HIDE DEF d
  <2>q. QED BY <1>1, <2>1, Wider
<1>7. \A r : RowsOK(r, convs, now, used.panes) => RowsOK(r, d, now, used.panes)
  <2>1. now <= now /\ used.panes <= used.panes
    BY <1>1
  <2> HIDE DEF d
  <2>q. QED BY <1>1, <2>1, Wider
<1>8. \A m \in DOMAIN panes : /\ PaneOK(panes[m], d, now, used.panes) /\ panes[m] \in PaneRec
                              /\ HeardOK(m, panes[m], rows) /\ FollowedOK(m, panes[m], rows)
  <2> HIDE DEF d
  <2>1. \A m \in DOMAIN panes : PaneOK(panes[m], convs, now, used.panes)
    BY DEF HeadInv, Held, PanesOK
  <2>q. QED BY <1>6, <2>1 DEF HeadInv, Held, Heard, Followed, PaneOK
<1>9. PaneOK(p, d, now, used.panes)
  <2> HIDE DEF d
  <2>1. p.sid \in 1 .. used.panes /\ p.epoch \in 1 .. now
    BY <1>4, <1>8 DEF PaneOK
  <2>2. p.resumes \in Some(d)
    BY <1>1 DEF Some
  <2>3. p.conv \in Some(d)
    BY DEF d
  <2>q. QED BY <2>1, <2>2, <2>3 DEF PaneOK
<1>10. /\ PaneOK(told, d, now, used.panes) /\ told.sid = panes[n].sid /\ told.epoch = panes[n].epoch
       /\ told.heard = p.heard /\ HeardOK(n, told, rows)
  <2> HIDE DEF d
  <2>1. /\ told \in PaneRec /\ told.sid = p.sid /\ told.epoch = p.epoch /\ told.conv = p.conv
        /\ told.resumes = p.resumes /\ told.home = p.home /\ told.source = p.source /\ told.heard = p.heard
    BY DEF PaneRec
  <2> HIDE DEF told
  <2>q. QED BY <1>9, <2>1 DEF PaneOK, HeardOK
<1>11. ASSUME NEW e \in BOOLEAN
       PROVE  LET q == [miss EXCEPT !.ended = e]
              IN  /\ PaneOK(q, d, now, used.panes) /\ q.sid = panes[n].sid /\ q.epoch = panes[n].epoch
                  /\ q.heard # "all"
  <2> DEFINE q == [miss EXCEPT !.ended = e]
  <2> HIDE DEF d
  <2>1. /\ q \in PaneRec /\ q.sid = p.sid /\ q.epoch = p.epoch /\ q.conv = p.conv
        /\ q.resumes = p.resumes /\ q.heard = "part"
    BY DEF PaneRec
  <2> HIDE DEF q
  <2>2. /\ PaneOK(q, d, now, used.panes) /\ q.sid = panes[n].sid /\ q.epoch = panes[n].epoch
        /\ q.heard # "all"
    BY <1>9, <2>1 DEF PaneOK
  <2>q. QED BY <2>2 DEF q
<1>12. HeardOK(n, told, rs) /\ \A m \in DOMAIN panes : HeardOK(m, panes[m], rs) /\ FollowedOK(m, panes[m], rs)
  <2>1. Kept(rows, rs) /\ Dated(panes, rows, rs)
    <3>1. Same(rows, rs) /\ RowsOK(rows, convs, now, used.panes)
      BY ReconciledIs DEF HeadInv, Held
    <3> HIDE DEF rs
    <3>q. QED BY <3>1, SameBasics
  <2>2. told.epoch \in Nat
    BY <1>10 DEF PaneOK, PaneRec
  <2> HIDE DEF rs, told, d
  <2>3. HeardOK(n, told, rs)
    BY <1>4, <1>10, <2>1, <2>2, HeardKept
  <2>4. Heard(panes, rs) /\ Followed(panes, rs)
    BY <1>2 DEF Held
  <2>q. QED BY <2>3, <2>4 DEF Heard, Followed
<1>13. (p.heard = "all" => p.home = n) /\ (p.home \in Live /\ panes[p.home].sid = p.sid => p.home = n)
  BY <1>4, <1>5 DEF HeardOK
<1>14. /\ Whole(rs) /\ RowsOK(rs, d, now, used.panes)
       /\ Kept(rs, rs) /\ Dated(panes, rs, rs)
  <2> HIDE DEF d, rs
  <2>q. QED BY <1>2, <1>7 DEF Held, Kept, Dated
<1> HIDE DEF rs, d, told, miss
\* The server hears of it.
<1>15. CASE /\ rows' = IF p.home \in Live THEN Recorded(rs, p.home, c, source, p.ended) ELSE rs
            /\ panes' = CASE ~ (p.home \in Live) -> ps
                          [] p.home \in Live /\ panes[p.home].sid = p.sid ->
                                IF KnownAs(rs, c) = {} /\ Instance(rs, p.home, p.epoch) = {}
                                THEN With(ps, n, [miss EXCEPT !.ended = FALSE]) ELSE ps
                          [] OTHER -> With(ps, p.home, Mixed(panes[p.home]))
            /\ UNCHANGED used
  <2>1. /\ Whole(rows') /\ RowsOK(rows', d, now, used.panes) /\ Kept(rs, rows') /\ Dated(panes, rs, rows')
        /\ \A m, q : (m # p.home \/ p.home \notin Live) /\ FollowedOK(m, q, rs) => FollowedOK(m, q, rows')
    <3>1. CASE p.home \in Live
      BY <1>1, <1>14, <1>15, <3>1, RecordedBasics
    <3>2. CASE p.home \notin Live
      BY <1>14, <1>15, <3>2
    <3>q. QED BY <3>1, <3>2
  <2> DEFINE gone == [miss EXCEPT !.ended = FALSE]
  <2>2. PaneOK(gone, d, now, used.panes) /\ gone.sid = panes[n].sid /\ gone.epoch = panes[n].epoch /\ gone.heard # "all"
    BY <1>11
  <2> HIDE DEF gone
  <2>3. /\ DOMAIN panes' = DOMAIN panes
        /\ \A m \in DOMAIN panes \ {n} : \/ panes'[m] = panes[m] /\ (m # p.home \/ p.home \notin Live)
                                         \/ panes'[m] = Mixed(panes[m])
        /\ \/ panes'[n] = gone
           \/ panes'[n] = told /\ (p.heard = "all" => rows' = Recorded(rs, n, c, source, p.ended))
    <3>1. CASE p.home \notin Live
      <4>1. panes' = ps
        BY <1>15, <3>1
      <4>q. QED BY <1>4, <1>13, <3>1, <4>1 DEF With
    <3>2. CASE p.home \in Live /\ panes[p.home].sid = p.sid
      <4>1. panes' = With(ps, n, gone) \/ panes' = ps
        BY <1>15, <3>2 DEF gone
      <4>2. p.home = n /\ rows' = Recorded(rs, n, c, source, p.ended)
        BY <1>13, <1>15, <3>2
      <4>q. QED BY <1>4, <4>1, <4>2 DEF With
    <3>3. CASE p.home \in Live /\ panes[p.home].sid # p.sid
      <4>1. panes' = With(ps, p.home, Mixed(panes[p.home]))
        BY <1>15, <3>3
      <4>2. p.home # n /\ p.home \in DOMAIN panes /\ p.heard # "all"
        BY <1>4, <1>13, <3>3
      <4>q. QED BY <1>4, <4>1, <4>2 DEF With
    <3>q. QED BY <3>1, <3>2, <3>3
  <2>4. ASSUME NEW m \in DOMAIN panes
        PROVE  /\ PaneOK(panes'[m], d, now, used.panes) /\ panes'[m].sid = panes[m].sid
               /\ panes'[m].epoch = panes[m].epoch /\ HeardOK(m, panes'[m], rs) /\ FollowedOK(m, panes'[m], rows')
    <3>1. CASE m = n /\ panes'[n] = gone
      BY <2>2, <3>1, Unheard
    <3>2. CASE m = n /\ panes'[n] = told /\ (p.heard = "all" => rows' = Recorded(rs, n, c, source, p.ended))
      <4>1. FollowedOK(n, told, rows')
        <5>1. CASE p.heard = "all"
          BY <3>2, <5>1 DEF told, rs
        <5>2. CASE p.heard # "all"
          BY <1>10, <5>2, Unheard
        <5>q. QED BY <5>1, <5>2
      <4>q. QED BY <1>10, <1>12, <3>2, <4>1
    <3>3. CASE m # n /\ panes'[m] = panes[m] /\ (m # p.home \/ p.home \notin Live)
      BY <1>8, <1>12, <2>1, <3>3
    <3>4. CASE m # n /\ panes'[m] = Mixed(panes[m])
      <4>1. /\ Mixed(panes[m]) \in PaneRec /\ Mixed(panes[m]).heard # "all"
            /\ Mixed(panes[m]).sid = panes[m].sid /\ Mixed(panes[m]).epoch = panes[m].epoch
            /\ Mixed(panes[m]).conv = panes[m].conv /\ Mixed(panes[m]).resumes = panes[m].resumes
        BY <1>8, MixedIs
      <4>2. PaneOK(panes[m], d, now, used.panes)
        BY <1>8
      <4>3. PaneOK(Mixed(panes[m]), d, now, used.panes)
        BY <4>1, <4>2 DEF PaneOK
      <4>q. QED BY <3>4, <4>1, <4>3, Unheard
    <3>q. QED BY <2>3, <3>1, <3>2, <3>3, <3>4
  <2>5. Followed(panes', rows')
    BY <2>3, <2>4 DEF Followed
  <2>6. Held(panes', rows', jobs, d, now, used.panes)
    BY <1>1, <1>2, <2>1, <2>3, <2>4, <2>5, Written
  <2>q. QED BY <1>3, <1>15, <2>6 DEF HeadInv
\* It is lost.
<1>16. CASE /\ Spend("odd") /\ UNCHANGED rows
            /\ \E ended \in {p.ended, FALSE} : panes' = With(panes, n, [miss EXCEPT !.ended = ended])
  <2>1. PICK e \in BOOLEAN : panes' = With(panes, n, [miss EXCEPT !.ended = e])
    BY <1>16 DEF PaneRec
  <2> DEFINE q == [miss EXCEPT !.ended = e]
  <2>2. PaneOK(q, d, now, used.panes) /\ q.sid = panes[n].sid /\ q.heard # "all"
    BY <1>11
  <2>3. panes' = With(panes, n, q)
    BY <2>1
  <2> HIDE DEF q
  <2>4. Held(panes, rows, jobs, d, now, used.panes)
    BY <1>1, <1>7, <1>8, <1>6 DEF HeadInv, Held, PanesOK
  <2>5. HeardOK(n, q, rows) /\ FollowedOK(n, q, rows)
    BY <2>2, Unheard
  <2>6. Held(panes', rows, jobs, d, now, used.panes)
    BY <1>4, <2>2, <2>3, <2>4, <2>5, OnePane
  <2>7. used' \in [panes : Nat, odd : Nat] /\ used'.panes = used.panes
    BY <1>16, Spending DEF HeadInv
  <2>q. QED BY <1>3, <1>16, <2>6, <2>7 DEF HeadInv
\* It is made up from the evidence.
<1>17. CASE /\ Spend("odd") /\ p.home \in Live /\ panes[p.home].sid = p.sid
            /\ rows' = Correlated(rs, p.home, p.conv) /\ panes' = With(panes, n, miss)
  <2>1. p.home = n
    BY <1>13, <1>17
  <2>2. /\ Whole(rows') /\ RowsOK(rows', d, now, used.panes) /\ Kept(rs, rows') /\ Dated(panes, rs, rows')
        /\ \A m, q : m # n /\ FollowedOK(m, q, rs) => FollowedOK(m, q, rows')
    <3>1. p.conv \in Some(d)
      BY <1>9 DEF PaneOK
    <3>q. QED BY <1>14, <1>17, <2>1, <3>1, CorrelatedBasics
  <2>3. PaneOK(miss, d, now, used.panes) /\ miss.sid = panes[n].sid /\ miss.epoch = panes[n].epoch /\ miss.heard # "all"
    <3>1. /\ miss \in PaneRec /\ miss.sid = p.sid /\ miss.epoch = p.epoch /\ miss.conv = p.conv
          /\ miss.resumes = p.resumes /\ miss.heard = "part"
      BY DEF PaneRec, miss
    <3>q. QED BY <1>9, <3>1 DEF PaneOK
  <2>4. DOMAIN panes' = DOMAIN panes /\ panes'[n] = miss /\ \A m \in DOMAIN panes \ {n} : panes'[m] = panes[m]
    BY <1>4, <1>17 DEF With
  <2>5. ASSUME NEW m \in DOMAIN panes
        PROVE  /\ PaneOK(panes'[m], d, now, used.panes) /\ panes'[m].sid = panes[m].sid
               /\ panes'[m].epoch = panes[m].epoch /\ HeardOK(m, panes'[m], rs) /\ FollowedOK(m, panes'[m], rows')
    <3>1. CASE m = n
      BY <2>3, <2>4, <3>1, Unheard
    <3>2. CASE m # n
      BY <1>8, <1>12, <2>2, <2>4, <3>2
    <3>q. QED BY <3>1, <3>2
  <2>6. Followed(panes', rows')
    BY <2>4, <2>5 DEF Followed
  <2>7. Held(panes', rows', jobs, d, now, used.panes)
    BY <1>1, <1>2, <2>2, <2>4, <2>5, <2>6, Written
  <2>8. used' \in [panes : Nat, odd : Nat] /\ used'.panes = used.panes
    BY <1>17, Spending DEF HeadInv
  <2>q. QED BY <1>3, <2>7, <2>8 DEF HeadInv
<1>q. QED BY <1>15, <1>16, <1>17 DEF Start, rs, told, miss
-----------------------------------------------------------------------------
(* The steps of the claudes of a pane.                                     *)

LEMMA OwnPane ==
    ASSUME HeadInv, NEW n \in Live
    PROVE  /\ n \in Name /\ panes[n] \in PaneRec
           /\ panes[n].conv \in Some(convs) /\ panes[n].resumes \in Some(convs)
           /\ HeardOK(n, panes[n], rows) /\ convs \in Nat
           /\ \A c : c > convs /\ c \in Nat => KnownAs(rows, c) = {}
<1>1. PaneOK(panes[n], convs, now, used.panes) /\ n \in Name /\ HeardOK(n, panes[n], rows) /\ convs \in Nat
  BY DEF HeadInv, Held, PanesOK, Heard, Live
<1>2. \A r \in DOMAIN rows : rows[r].conv \in Some(convs)
  BY DEF HeadInv, Held, RowsOK
<1>3. ASSUME NEW c \in Nat, c > convs PROVE KnownAs(rows, c) = {}
  <2>1. c \notin Some(convs)
    BY <1>1, <1>3, NoneAssumption DEF Some
  <2>q. QED BY <1>2, <2>1 DEF KnownAs
<1>q. QED BY <1>1, <1>3 DEF PaneOK

LEMMA HeadEnter == ASSUME HeadInv, NEW n \in Name, Enter(n) PROVE HeadInv'
<1> DEFINE c == IF panes[n].resumes = None THEN Fresh ELSE panes[n].resumes
           p == [panes[n] EXCEPT !.conv = c]
           o == [p EXCEPT !.ended = FALSE]
           rs == Reconciled(rows, "complete")
           ts == Recorded(rs, n, c, panes[n].source, panes[n].ended)
<1>1. n \in Live /\ panes[n].home # None /\ panes[n].conv = None /\ Start(n, p, c, panes[n].source)
  BY DEF Enter
<1>2. /\ panes[n] \in PaneRec /\ panes[n].resumes \in Some(convs) /\ HeardOK(n, panes[n], rows)
      /\ convs \in Nat /\ \A e \in Nat : e > convs => KnownAs(rows, e) = {}
  BY <1>1, OwnPane
<1>3. c \in 1 .. convs + 1 /\ c # None /\ (panes[n].resumes # None => c = panes[n].resumes)
      /\ (panes[n].resumes = None => KnownAs(rows, c) = {})
  BY <1>2, NoneAssumption DEF Some, Fresh
<1> HIDE DEF c
<1>4. /\ p \in PaneRec /\ p.sid = panes[n].sid /\ p.epoch = panes[n].epoch /\ p.conv = c
      /\ p.resumes = panes[n].resumes /\ p.home = panes[n].home /\ p.heard = panes[n].heard
      /\ p.source = panes[n].source /\ p.ended = panes[n].ended
  BY <1>2, <1>3 DEF PaneRec
<1> HIDE DEF p
<1>5. /\ o.sid = panes[n].sid /\ o.epoch = panes[n].epoch /\ o.conv = c /\ o.heard = panes[n].heard
  BY <1>4 DEF PaneRec
<1> HIDE DEF o
<1>6. HeardOK(n, p, rows) /\ p.home \in Name /\ p.resumes \in Some(convs)
  BY <1>1, <1>2, <1>3, <1>4 DEF HeardOK, PaneRec
<1>7. p.conv \in Some(Max({convs, c}))
  <2>1. c \in Nat /\ c >= 1 /\ Max({convs, c}) \in Nat /\ c <= Max({convs, c})
    BY <1>2, <1>3, MaxOfTwo
  <2>2. c \in 1 .. Max({convs, c})
    BY <2>1
  <2>q. QED BY <1>4, <2>2 DEF Some
<1>8. /\ Held(panes, rs, jobs, convs, now, used.panes) /\ \A e : KnownAs(rs, e) = KnownAs(rows, e)
  BY ReconciledHeld
<1> HIDE DEF rs
<1>9. Whole(rs) /\ Parented(rs) /\ FollowedOK(n, panes[n], rs)
  BY <1>1, <1>8, RowsParented DEF Held, Followed, Live
<1> DEFINE source == panes[n].source
           left == panes[n].ended
           aside == source \in PROCESS_BOOT_SOURCES \/ (source = "fork" /\ ~ left)
<1>10. ASSUME NEW a \in Instance(rs, n, panes[n].epoch)
       PROVE  LET v == rs[lineage_head(rs, a)].conv
              IN  /\ ~ Joined(rs, a) => ~ Joined(ts, a)
                  /\ \A m, q : Own(ts, m, q) = Own(rs, m, q)
                  /\ \/ KnownAs(rs, c) # {} /\ ts = rs
                     \/ \A e : HeadOK(c, e) => Leads(ts, a, e)
                     \/ KnownAs(rs, c) = {} /\ v # None /\ aside /\ \A e : Leads(rs, a, e) => Leads(ts, a, e)
  <2>1. source \in {"startup", "resume", "clear", "fork"} /\ ts = Recorded(rs, n, c, source, left)
    BY <1>2 DEF PaneRec
  <2> HIDE DEF source, left, ts
  <2>2. Hooked(rs, ts, a, c, source, left)
    BY <1>3, <1>9, <2>1, OwnHook
  <2>q. QED BY <2>2 DEF Hooked
<1>11. ASSUME o.heard = "all", NEW a \in Own(ts, n, o) PROVE ~ Joined(ts, a) /\ Leads(ts, a, o)
  <2> DEFINE v == rs[lineage_head(rs, a)].conv
  <2>1. a \in Own(rs, n, panes[n]) /\ a \in Instance(rs, n, panes[n].epoch)
    <3>1. a \in Own(ts, n, panes[n])
      BY <1>5, <1>11 DEF Own
    <3>2. Instance(rs, n, panes[n].epoch) # {} \/ ts = rs
      BY DEF Recorded
    <3> HIDE DEF ts
    <3>3. Own(ts, n, panes[n]) = Own(rs, n, panes[n])
      BY <1>10, <3>2
    <3>q. QED BY <3>1, <3>3 DEF Own
  <2> HIDE DEF ts
  <2>2. ~ Joined(rs, a) /\ Leads(rs, a, panes[n])
    BY <1>5, <1>9, <1>11, <2>1 DEF FollowedOK
  <2>3. /\ ~ Joined(rs, a) => ~ Joined(ts, a)
        /\ \/ KnownAs(rs, c) # {} /\ ts = rs
           \/ \A e : HeadOK(c, e) => Leads(ts, a, e)
           \/ KnownAs(rs, c) = {} /\ v # None /\ aside /\ \A e : Leads(rs, a, e) => Leads(ts, a, e)
    BY <1>10, <2>1
  <2>4. CASE KnownAs(rs, c) # {} /\ ts = rs
    <3>1. panes[n].resumes # None /\ c = panes[n].resumes
      BY <1>3, <1>8, <2>4
    <3>2. HeadOK(v, panes[n]) => HeadOK(v, o)
      BY <1>1, <1>3, <1>5, <3>1 DEF HeadOK
    <3>3. Leads(rs, a, o)
      BY <2>2, <3>2 DEF Leads
    <3>q. QED BY <2>2, <2>3, <2>4, <3>3
  <2>5. CASE \A e : HeadOK(c, e) => Leads(ts, a, e)
    <3>1. HeadOK(c, o)
      BY <1>3, <1>5 DEF HeadOK
    <3>q. QED BY <2>2, <2>3, <2>5, <3>1
  <2>6. CASE KnownAs(rs, c) = {} /\ v # None /\ aside /\ \A e : Leads(rs, a, e) => Leads(ts, a, e)
    <3>1. panes[n].resumes = None
      BY <1>2, <1>3, <1>5, <1>8, <1>11, <2>6 DEF HeardOK
    <3>2. source = "startup" \/ (source = "fork" /\ ~ left)
      BY <1>1, <1>2, <1>5, <1>11, <2>6, <3>1 DEF HeardOK, PROCESS_BOOT_SOURCES
    <3>3. ~ HeadOK(v, panes[n])
      BY <1>1, <2>6, <3>1, <3>2 DEF HeadOK
    <3>4. Leads(rs, a, o)
      BY <2>2, <3>3 DEF Leads
    <3>q. QED BY <2>2, <2>3, <2>6, <3>4
  <2>q. QED BY <2>3, <2>4, <2>5, <2>6
<1>12. FollowedOK(n, o, ts)
  BY <1>11 DEF FollowedOK
<1>13. ts = Recorded(Reconciled(rows, "complete"), n, c, panes[n].source, p.ended)
  BY <1>4 DEF rs
<1> HIDE DEF ts
<1>q. QED BY <1>1, <1>3, <1>4, <1>6, <1>7, <1>12, <1>13, HeadStart DEF o

LEMMA HeadOtherStarts ==
    ASSUME HeadInv, NEW n \in Name, NEW source \in {"fork", "startup"}, OtherStarts(n, source)
    PROVE  HeadInv'
<1> DEFINE empty == \E r \in Instance(rows, n, panes[n].epoch) : rows[lineage_head(rows, r)].conv = None
           busy == [panes[n] EXCEPT !.other = TRUE]
           p == IF busy.ended \/ empty THEN Mixed(busy) ELSE busy
           c == Fresh
           o == [p EXCEPT !.ended = FALSE]
           rs == Reconciled(rows, "complete")
           left == p.ended
           ts == Recorded(rs, n, c, source, left)
           aside == source \in PROCESS_BOOT_SOURCES \/ (source = "fork" /\ ~ left)
<1>1. n \in Live /\ panes[n].home # None /\ panes[n].conv # None /\ Start(n, p, c, source)
  BY DEF OtherStarts
<1>2. /\ panes[n] \in PaneRec /\ panes[n].resumes \in Some(convs) /\ HeardOK(n, panes[n], rows)
      /\ panes[n].conv \in Some(convs) /\ convs \in Nat /\ \A e \in Nat : e > convs => KnownAs(rows, e) = {}
  BY <1>1, OwnPane
<1>3. c \in 1 .. convs + 1 /\ c # None /\ KnownAs(rows, c) = {}
  BY <1>2, NoneAssumption DEF Fresh
<1> HIDE DEF c
<1>4. /\ busy \in PaneRec /\ busy.sid = panes[n].sid /\ busy.epoch = panes[n].epoch /\ busy.conv = panes[n].conv
      /\ busy.resumes = panes[n].resumes /\ busy.home = panes[n].home /\ busy.heard = panes[n].heard
  BY <1>2 DEF PaneRec
<1> HIDE DEF busy
<1>5. /\ p \in PaneRec /\ p.sid = panes[n].sid /\ p.epoch = panes[n].epoch /\ p.conv = panes[n].conv
      /\ p.resumes = panes[n].resumes /\ p.home = panes[n].home
      /\ p.heard = "all" => panes[n].heard = "all" /\ ~ p.ended /\ ~ empty
  <2>1. CASE busy.ended \/ empty
    <3>1. p = Mixed(busy)
      BY <2>1
    <3> HIDE DEF p
    <3>q. QED BY <1>4, <3>1, MixedIs
  <2>2. CASE ~ (busy.ended \/ empty)
    <3>1. p = busy
      BY <2>2
    <3> HIDE DEF p, empty
    <3>q. QED BY <1>4, <2>2, <3>1
  <2>q. QED BY <2>1, <2>2
<1> HIDE DEF p
<1>6. o.sid = panes[n].sid /\ o.epoch = panes[n].epoch /\ o.conv = panes[n].conv /\ o.heard = p.heard
  BY <1>5 DEF PaneRec
<1> HIDE DEF o
<1>7. HeardOK(n, p, rows) /\ p.home \in Name /\ p.resumes \in Some(convs)
  BY <1>1, <1>2, <1>5 DEF HeardOK, PaneRec
<1>8. p.conv \in Some(Max({convs, c}))
  <2>1. c \in Nat /\ Max({convs, c}) \in Nat /\ convs <= Max({convs, c})
    BY <1>2, <1>3, MaxOfTwo
  <2>2. panes[n].conv \in 1 .. Max({convs, c})
    BY <1>1, <1>2, <2>1 DEF Some
  <2>q. QED BY <1>5, <2>2 DEF Some
<1>9. /\ Held(panes, rs, jobs, convs, now, used.panes) /\ \A e : KnownAs(rs, e) = KnownAs(rows, e)
      /\ \A m, e : Instance(rs, m, e) = Instance(rows, m, e)
      /\ \A a : lineage_head(rs, a) = lineage_head(rows, a)
      /\ \A r \in DOMAIN rows : rs[r].conv = rows[r].conv
  BY ReconciledHeld DEF Row
<1> HIDE DEF rs
<1>10. Whole(rs) /\ Parented(rs) /\ FollowedOK(n, panes[n], rs) /\ IsTable(rows)
  BY <1>1, <1>9, RowsParented DEF HeadInv, Held, Followed, Live, Whole
<1> HIDE DEF left
<1>11. ASSUME NEW a \in Instance(rs, n, panes[n].epoch)
       PROVE  LET v == rs[lineage_head(rs, a)].conv
              IN  /\ ~ Joined(rs, a) => ~ Joined(ts, a)
                  /\ \A m, q : Own(ts, m, q) = Own(rs, m, q)
                  /\ v = None \/ ~ aside \/ \A e : Leads(rs, a, e) => Leads(ts, a, e)
  <2>1. source \in {"startup", "resume", "clear", "fork"} /\ ts = Recorded(rs, n, c, source, left)
    OBVIOUS
  <2>0. Whole(rs) /\ Parented(rs) /\ c # None
    BY <1>3, <1>10
  <2> HIDE DEF ts
  <2>2. Hooked(rs, ts, a, c, source, left)
    BY <2>0, <2>1, OwnHook
  <2>3. KnownAs(rs, c) = {}
    BY <1>3, <1>9
  <2>q. QED BY <2>2, <2>3 DEF Hooked
<1>12. ASSUME o.heard = "all", NEW a \in Own(ts, n, o) PROVE ~ Joined(ts, a) /\ Leads(ts, a, o)
  <2> DEFINE v == rs[lineage_head(rs, a)].conv
  <2>1. a \in Own(rs, n, panes[n]) /\ a \in Instance(rs, n, panes[n].epoch)
    <3>1. a \in Own(ts, n, panes[n])
      BY <1>6, <1>12 DEF Own
    <3>2. Instance(rs, n, panes[n].epoch) # {} \/ ts = rs
      BY DEF Recorded
    <3> HIDE DEF ts
    <3>3. Own(ts, n, panes[n]) = Own(rs, n, panes[n])
      BY <1>11, <3>2
    <3>q. QED BY <3>1, <3>3 DEF Own
  <2> HIDE DEF ts
  <2>2. panes[n].heard = "all" /\ ~ left /\ ~ empty
    BY <1>5, <1>6, <1>12 DEF left
  <2>3. ~ Joined(rs, a) /\ Leads(rs, a, panes[n])
    BY <1>10, <2>1, <2>2 DEF FollowedOK
  <2>4. v # None
    <3>1. a \in Instance(rows, n, panes[n].epoch) /\ a \in DOMAIN rows
      BY <1>9, <2>1 DEF Instance
    <3>2. lineage_head(rows, a) \in DOMAIN rows /\ rows[lineage_head(rows, a)].conv # None
      BY <1>10, <2>2, <3>1, LineInRows
    <3>q. QED BY <1>9, <3>2
  <2>5. aside
    BY <2>2 DEF PROCESS_BOOT_SOURCES
  <2>6. Leads(rs, a, o)
    BY <1>1, <1>6, <2>3 DEF Leads, HeadOK
  <2> HIDE DEF aside, v
  <2>7. v = None \/ ~ aside \/ \A e : Leads(rs, a, e) => Leads(ts, a, e)
    BY <1>11, <2>1 DEF v
  <2>8. ~ Joined(ts, a)
    BY <1>11, <2>1, <2>3
  <2>q. QED BY <2>4, <2>5, <2>6, <2>7, <2>8
<1>13. FollowedOK(n, o, ts)
  BY <1>12 DEF FollowedOK
<1>14. ts = Recorded(Reconciled(rows, "complete"), n, c, source, p.ended)
  BY DEF rs, left
<1> HIDE DEF ts
<1>q. QED BY <1>1, <1>3, <1>5, <1>7, <1>8, <1>13, <1>14, HeadStart DEF o
-----------------------------------------------------------------------------
(* Every step, and every state.                                            *)

LEMMA HeadStep == ASSUME HeadInv, [Next]_vars PROVE HeadInv'
<1>1. CASE Outside
  BY <1>1, HeadTick, HeadStartOutside, HeadDie, HeadRename DEF Outside
<1>2. CASE Claude
  <2>1. ASSUME NEW n \in Name, NEW source \in {"clear", "fork", "startup"}, Leave(n, source) PROVE HeadInv'
    BY <2>1, HeadLeave
  <2>2. ASSUME NEW n \in Name, NEW source \in {"fork", "startup"}, OtherStarts(n, source) PROVE HeadInv'
    BY <2>2, HeadOtherStarts
  <2>q. QED BY <1>2, <2>1, <2>2, HeadEnter, HeadOtherEnds DEF Claude
<1>3. CASE Server
  <2>1. ASSUME NEW q \in Request, NEW listing \in Listing, Persist(q, listing) PROVE HeadInv'
    BY <2>1, HeadPersist
  <2>2. ASSUME NEW n \in Name, NEW listing \in Listing, Adopt(n, listing) PROVE HeadInv'
    BY <2>2, HeadAdopt
  <2>3. ASSUME NEW q \in Request, \/ Stamp(q) \/ MarkClosed(q)
                                  \/ \E r \in Row : AskRestart(q, r)
                                  \/ \E n \in Name : AskFork(q, n) \/ Spawn(q, n) \/ Destroy(q, n)
        PROVE  HeadInv'
    BY <2>3, HeadStamp, HeadMarkClosed, HeadAskRestart, HeadAskFork, HeadSpawn, HeadDestroy
  <2>q. QED BY <1>3, <2>1, <2>2, <2>3, HeadList, HeadRespawn DEF Server
<1>4. CASE UNCHANGED vars
  BY <1>4 DEF vars, HeadInv
<1>q. QED BY <1>1, <1>2, <1>3, <1>4 DEF Next

LEMMA HeadForever == Spec => []HeadInv
<1>1. Init => HeadInv
  <2>1. ASSUME Init PROVE HeadInv
    <3>1. DOMAIN rows = {} /\ DOMAIN panes = {} /\ DOMAIN jobs = {}
      BY <2>1 DEF Init
    <3>2. Whole(rows)
      <4>1. <<>> \in Seq({})
        OBVIOUS
      <4>q. QED BY <2>1, <3>1, <4>1 DEF Init, Whole, IsTable, Distinct
    <3>3. RowsOK(rows, 0, 1, 0) /\ PanesOK(panes, 0, 1, 0) /\ JobsOK(jobs, rows)
      BY <3>1 DEF RowsOK, PanesOK, JobsOK
    <3>4. Heard(panes, rows) /\ Followed(panes, rows)
      BY <3>1 DEF Heard, Followed
    <3>5. now = 1 /\ convs = 0 /\ used = [panes |-> 0, odd |-> 0]
      BY <2>1 DEF Init
    <3>6. used \in [panes : Nat, odd : Nat] /\ used.panes = 0
      BY <3>5
    <3>q. QED BY <3>2, <3>3, <3>4, <3>5, <3>6 DEF HeadInv, Held
  <2>q. QED BY <2>1
<1>2. HeadInv /\ [Next]_vars => HeadInv'
  BY HeadStep
<1>q. QED BY <1>1, <1>2, PTL DEF Spec
-----------------------------------------------------------------------------
(* Theorems.                                                               *)

\* No tmux session and no conversation ever has two rows, however creates,
\* restarts, forks, adoptions and hooks overlap: every writer looks for the row
\* it might double in the step that writes.
THEOREM OneRowEach == Spec => []NoTwinRows
<1>1. Inv => NoTwinRows
  BY DEF Inv, Whole, Distinct, NoTwinRows, Row
<1>q. QED BY <1>1, WholeForever, PTL

\* What a row says of its conversation and its parent is never rewritten, and it
\* comes back to life by its own restart only.
THEOREM PastStays == Spec => RowsKeepTheirPast
<1>1. Inv /\ [Next]_vars =>
        [/\ Row \subseteq DOMAIN rows'
         /\ \A r \in Row :
              /\ rows[r].conv # None => rows'[r].conv = rows[r].conv
              /\ rows[r].parent # None => rows'[r].parent = rows[r].parent
              /\ rows[r].life = "stopped" /\ rows'[r].life = "running"
                 => \E q \in DOMAIN jobs \ DOMAIN jobs' : jobs[q].kind = "restart" /\ jobs[q].row = r]_vars
  BY StepOfTheTable DEF Step, Past, Row
<1>q. QED BY <1>1, WholeForever, PTL DEF Spec, RowsKeepTheirPast

\* The head of a pane's line never names a conversation that the pane has left,
\* whatever panes, requests, listings and seconds come between, as long as its
\* hooks arrive, no other claude meets its entry and its line is no other pane's.
THEOREM HeadStays == Spec => []HeadIsNotLeftBehind
<1>1. HeadInv => HeadIsNotLeftBehind
  <2>1. ASSUME HeadInv, NEW n \in Live, panes[n].heard = "all", NEW a \in Own(rows, n, panes[n])
        PROVE  LET head == lineage_head(rows, a)
               IN  panes[n].conv # None /\ Follow(rows, head) = head
                   => rows[head].conv \in {None, panes[n].conv}
    <3>1. Leads(rows, a, panes[n])
      BY <2>1 DEF HeadInv, Held, Followed, FollowedOK, Live
    <3>q. QED BY <3>1 DEF Leads, HeadOK
  <2>q. QED BY <2>1 DEF HeadIsNotLeftBehind, HeadFollows
<1>q. QED BY <1>1, HeadForever, PTL
=============================================================================
