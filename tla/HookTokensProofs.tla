------------------------- MODULE HookTokensProofs -------------------------
(***************************************************************************)
(* What is proved of HookTokens for every set of names and ids, every ring *)
(* size and every bound, whatever writes of the token file fail: type      *)
(* correctness, one credential per id, that only a stop before any write   *)
(* succeeds silences the agent of an owned pane, that what one write has   *)
(* saved a restart brings back, and that a mint silences nobody.           *)
(***************************************************************************)
EXTENDS HookTokens, SequenceTheorems, TLAPS

StoreType ==
    /\ IsPartial(tok, Sid, Token) /\ IsPartial(bound, Sid, Name)
    /\ ring \in [Sid -> Seq(Entry)]
    /\ unsaved \subseteq DOMAIN tok /\ forgotten \subseteq Token
    /\ IsPartial(file.tok, Sid, Token) /\ IsPartial(file.bound, Sid, Name)
    /\ minted \in Seq(Sid) /\ Len(minted) <= MaxTok

SessType ==
    /\ IsPartial(sess, Sid, Name) /\ backed \subseteq DOMAIN sess
    /\ cur \in DOMAIN sess \cup {NoSid}

MetaType == meta \in Metadata /\ (meta.sid = NoSid <=> meta.name = NoName)

RegistryType ==
    /\ SessType /\ MetaType
    /\ owned \subseteq Name
    /\ IsPartial(plan, Name, Sid) /\ phase \in {"boot", "up"}
    /\ boots \in 0..MaxBoots

PaneType == IsPartial(pane, Name, Pane) /\ ever \subseteq Cred

OwnFile(f) ==
    /\ DOMAIN f.bound \subseteq DOMAIN f.tok
    /\ \A s \in DOMAIN f.tok : f.tok[s] \in DOMAIN minted /\ minted[f.tok[s]] = s

\* The store by itself, whatever writes failed.
StoreOK ==
    /\ StoreType
    /\ TokensAreOwn
    /\ DOMAIN bound \subseteq DOMAIN tok
    /\ OwnFile(file)

IInv == StoreOK /\ RegistryType /\ PaneType

\* An id that is known was minted for.
MintedFor(m, s) == \E t \in DOMAIN m : m[t] = s

Used(s) == MintedFor(minted, s)

KnownIdsUsed ==
    \A s \in SesId : s \in DOMAIN sess \cup {meta.sid} => Used(s)

\* What a write has saved is in the file, and the file binds no created id to another
\* pane than the table does.
FileAgrees ==
    /\ \A s \in DOMAIN tok \ unsaved : s \in DOMAIN file.tok /\ file.tok[s] = tok[s]
    /\ \A s \in SesId :
          s \in DOMAIN bound /\ s \in DOMAIN file.bound => file.bound[s] = bound[s]

NothingSuperseded == \A s \in SesId : ring[s] = <<>>

\* Neither the table nor the file binds s to another pane than n.
BoundOn(s, n) ==
    /\ s \in DOMAIN bound => bound[s] = n
    /\ s \in DOMAIN file.bound => file.bound[s] = n

BoundToItsPane ==
    /\ \A n \in DOMAIN plan :
          plan[n] \in SesId => plan[n] \in DOMAIN bound /\ bound[plan[n]] = n
    /\ \A s \in DOMAIN sess : s \in SesId => BoundOn(s, sess[s])
    /\ meta.sid \in SesId => BoundOn(meta.sid, meta.name)

\* c is the credential of its id, or was forgotten, and its id is on no other pane.
Holds(n, c) ==
    c.sid \in SesId =>
        /\ Used(c.sid)
        /\ Validates(c) \/ c.tok \in forgotten
        /\ BoundOn(c.sid, n)

OwnedPanesHold ==
    \A n \in DOMAIN pane :
        n \in owned \cup meta.owned => Holds(n, pane[n].env) /\ Holds(n, pane[n].proc)

HeardInv ==
    IInv /\ KnownIdsUsed /\ FileAgrees /\ NothingSuperseded /\ BoundToItsPane /\ OwnedPanesHold
-----------------------------------------------------------------------------
(* Dictionaries.                                                           *)

LEMMA Constants ==
    /\ RingSize \in Nat /\ RingSize >= 1 /\ MaxTok \in Nat /\ MaxBoots \in Nat
    /\ NoSid \notin Sid /\ NoSid \notin SesId /\ NoName \notin Name
    /\ SesId \subseteq Sid
    /\ \A n \in Name : Adopted(n) \in Sid /\ Adopted(n) \notin SesId
    /\ \A m, n \in Name : Adopted(m) = Adopted(n) => m = n
BY SizesAssumption, IdsAssumption DEF Sid, Adopted

LEMMA PartialWith ==
    ASSUME NEW f, NEW D, NEW R, NEW k \in D, NEW v \in R, IsPartial(f, D, R)
    PROVE  IsPartial(With(f, k, v), D, R)
BY DEF IsPartial, With

LEMMA PartialWithout ==
    ASSUME NEW f, NEW D, NEW R, NEW S, IsPartial(f, D, R)
    PROVE  IsPartial(Without(f, S), D, R)
BY DEF IsPartial, Without

LEMMA PartialNothing ==
    ASSUME NEW D, NEW R
    PROVE  IsPartial(Nothing, D, R) /\ DOMAIN Nothing = {}
BY DEF IsPartial, Nothing
-----------------------------------------------------------------------------
(* The ring.                                                               *)

\* No two entries of a ring hold the same token.
Distinct(e) == \A i, j \in 1..Len(e) : e[i].tok = e[j].tok => i = j

Within(e, f) == \A i \in 1..Len(e) : \E j \in 1..Len(f) : e[i] = f[j]

\* Forget() keeps the entries of the other tokens.
LEMMA ForgetFacts ==
    ASSUME NEW e \in Seq(Entry), NEW t, Distinct(e)
    PROVE  LET F == Forget(e, t) IN
           /\ F \in Seq(Entry) /\ Len(F) <= Len(e)
           /\ Within(F, e) /\ Distinct(F)
           /\ \A i \in 1..Len(F) : F[i].tok # t
<1> DEFINE at == {i \in 1..Len(e) : e[i].tok = t}
           k == CHOOSE j \in at : TRUE
           F == Forget(e, t)
<1>1. CASE at = {}
  <2>1. F = e
    BY <1>1 DEF Forget
  <2> QED BY <1>1, <2>1 DEF Within
<1>2. CASE at # {}
  <2>1. k \in 1..Len(e) /\ e[k].tok = t
    BY <1>2
  <2>2. F = SubSeq(e, 1, k - 1) \o SubSeq(e, k + 1, Len(e))
    BY <1>2 DEF Forget
  <2> HIDE DEF at, k, F
  <2> DEFINE A == SubSeq(e, 1, k - 1)
             B == SubSeq(e, k + 1, Len(e))
  <2>a. /\ A \in Seq(Entry) /\ Len(A) = k - 1
        /\ \A i \in 1..Len(A) : A[i] = e[i]
    BY <2>1, SubSeqProperties
  <2>b. /\ B \in Seq(Entry) /\ Len(B) = Len(e) - k
        /\ \A i \in 1..Len(B) : B[i] = e[k + i]
    BY <2>1, SubSeqProperties
  <2> HIDE DEF A, B
  <2>3. /\ F \in Seq(Entry)
        /\ Len(F) = Len(e) - 1
        /\ \A i \in 1..Len(F) : F[i] = IF i < k THEN e[i] ELSE e[i + 1]
    <3>1. F = A \o B
      BY <2>2 DEF A, B
    <3>2. F \in Seq(Entry) /\ Len(F) = Len(A) + Len(B)
      BY <2>a, <2>b, <3>1
    <3>3. \A i \in 1..Len(F) : F[i] = IF i <= Len(A) THEN A[i] ELSE B[i - Len(A)]
      BY <2>a, <2>b, <3>1, ConcatProperties
    <3> QED BY <2>1, <2>a, <2>b, <3>2, <3>3
  <2> DEFINE from(i) == IF i < k THEN i ELSE i + 1
  <2>4. \A i \in 1..Len(F) : from(i) \in 1..Len(e) /\ from(i) # k
    BY <2>1, <2>3
  <2>c. \A i \in 1..Len(F) : F[i] = e[from(i)]
    BY <2>3
  <2>d. \A i, j \in 1..Len(F) : from(i) = from(j) => i = j
    BY <2>1, <2>3
  <2> HIDE DEF from
  <2>5. Within(F, e) /\ \A i \in 1..Len(F) : F[i].tok # t
    BY <2>1, <2>4, <2>c DEF Within, Distinct
  <2>6. Distinct(F)
    BY <2>4, <2>c, <2>d DEF Distinct
  <2>7. Len(F) <= Len(e)
    BY <2>3
  <2> QED BY <2>3, <2>5, <2>6, <2>7 DEF F
<1> QED BY <1>1, <1>2

\* Push() appends one entry and keeps at most RingSize of the newest.
LEMMA PushFacts ==
    ASSUME NEW e \in Seq(Entry), NEW x \in Entry, Distinct(e)
    PROVE  LET P == Push(e, x) IN
           /\ P \in Seq(Entry) /\ Len(P) <= RingSize /\ Distinct(P)
           /\ \A i \in 1..Len(P) : P[i] = x \/ \E j \in 1..Len(e) : P[i] = e[j]
<1> DEFINE F == Forget(e, x.tok)
           all == Append(F, x)
           P == Push(e, x)
<1>1. /\ F \in Seq(Entry) /\ Within(F, e) /\ Distinct(F)
      /\ \A i \in 1..Len(F) : F[i].tok # x.tok
  BY ForgetFacts
<1> HIDE DEF F
<1>2. /\ all \in Seq(Entry) /\ Len(all) = Len(F) + 1
      /\ \A i \in 1..Len(F) : all[i] = F[i]
      /\ all[Len(F) + 1] = x
  BY <1>1
<1>3. Distinct(all)
  BY <1>1, <1>2 DEF Distinct
<1>4. \A i \in 1..Len(all) : all[i] = x \/ \E j \in 1..Len(e) : all[i] = e[j]
  BY <1>1, <1>2 DEF Within
<1> HIDE DEF all
<1>5. CASE Len(all) > RingSize
  <2>1. P = SubSeq(all, Len(all) - RingSize + 1, Len(all))
    BY <1>5 DEF Push, Newest, F, all
  <2>2. /\ P \in Seq(Entry) /\ Len(P) = RingSize
        /\ \A i \in 1..Len(P) : P[i] = all[Len(all) - RingSize + i]
    BY <1>2, <1>5, <2>1, Constants
  <2>3. \A i \in 1..Len(P) : Len(all) - RingSize + i \in 1..Len(all)
    BY <1>2, <1>5, <2>2, Constants
  <2> DEFINE from(i) == Len(all) - RingSize + i
  <2>4. \A i, j \in 1..Len(P) : from(i) = from(j) => i = j
    BY <1>2, <2>2, Constants
  <2>5. \A i \in 1..Len(P) : P[i] = all[from(i)] /\ from(i) \in 1..Len(all)
    BY <2>2, <2>3
  <2> HIDE DEF from, P
  <2>6. Distinct(P)
    BY <1>3, <2>4, <2>5 DEF Distinct
  <2>7. \A i \in 1..Len(P) : P[i] = x \/ \E j \in 1..Len(e) : P[i] = e[j]
    BY <1>4, <2>5
  <2>8. P \in Seq(Entry) /\ Len(P) <= RingSize
    BY <2>2, Constants
  <2> QED BY <2>6, <2>7, <2>8 DEF P
<1>6. CASE Len(all) <= RingSize
  <2>1. P = all
    BY <1>2, <1>6, Constants DEF Push, F, all
  <2> QED BY <1>2, <1>3, <1>4, <1>6, <2>1
<1> QED BY <1>2, <1>5, <1>6, Constants
-----------------------------------------------------------------------------
(* The operations of the store.                                            *)

LEMMA PersistFacts ==
    ASSUME NEW S, Persist(S)
    PROVE  /\ file' = file \/ (file'.tok = tok' /\ file'.bound = bound')
           /\ \/ file' = file /\ unsaved' = unsaved \cup S /\ Faulty
              \/ file'.tok = tok' /\ file'.bound = bound' /\ unsaved' = {}
           /\ unsaved' \subseteq unsaved \cup S
           /\ forgotten' = forgotten
<1>1. \/ file' = [tok |-> tok', bound |-> bound'] /\ unsaved' = {}
      \/ Faulty /\ file' = file /\ unsaved' = unsaved \cup S
  BY Zenon DEF Persist
<1>2. file' = [tok |-> tok', bound |-> bound'] => file'.tok = tok' /\ file'.bound = bound'
  OBVIOUS
<1>3. forgotten' = forgotten
  BY DEF Persist
<1> QED BY <1>1, <1>2, <1>3

\* A mint appends one token, and no token changes hands.
LEMMA MintedFacts ==
    ASSUME StoreType, NEW s \in Sid, NEW name \in Name \cup {NoName}, Mint(s, name)
    PROVE  /\ minted' \in Seq(Sid) /\ Len(minted') = Len(minted) + 1
           /\ Len(minted') <= MaxTok
           /\ NextToken \in Token /\ NextToken \notin DOMAIN minted
           /\ NextToken \in DOMAIN minted' /\ minted'[NextToken] = s
           /\ \A t \in DOMAIN minted : t \in DOMAIN minted' /\ minted'[t] = minted[t]
           /\ DOMAIN tok' = DOMAIN tok \cup {s} /\ tok'[s] = NextToken
           /\ \A x \in DOMAIN tok : x # s => tok'[x] = tok[x]
           /\ name = NoName => bound' = bound
           /\ name # NoName => /\ DOMAIN bound' = DOMAIN bound \cup {s} /\ bound'[s] = name
                               /\ \A x \in DOMAIN bound : x # s => bound'[x] = bound[x]
<1>1. /\ minted \in Seq(Sid) /\ Len(minted) \in Nat /\ Len(minted) < MaxTok
      /\ minted' = Append(minted, s) /\ MaxTok \in Nat
  BY Constants DEF Mint, StoreType
<1>2. /\ minted' \in Seq(Sid) /\ Len(minted') = Len(minted) + 1
      /\ \A t \in 1..Len(minted) : minted'[t] = minted[t]
      /\ minted'[Len(minted) + 1] = s
  BY <1>1
<1>3. DOMAIN minted = 1..Len(minted) /\ DOMAIN minted' = 1..Len(minted')
  BY <1>1, <1>2
<1>4. /\ NextToken \in Token /\ NextToken \notin DOMAIN minted
      /\ NextToken \in DOMAIN minted' /\ Len(minted') <= MaxTok
  BY <1>1, <1>2, <1>3 DEF NextToken, Token
<1>5. tok' = With(tok, s, NextToken)
  BY DEF Mint
<1>6. bound' = IF name = NoName THEN bound ELSE With(bound, s, name)
  BY DEF Mint
<1>7. /\ DOMAIN tok' = DOMAIN tok \cup {s} /\ tok'[s] = NextToken
      /\ \A x \in DOMAIN tok : x # s => tok'[x] = tok[x]
  BY <1>5 DEF With
<1>8. name # NoName => /\ DOMAIN bound' = DOMAIN bound \cup {s} /\ bound'[s] = name
                       /\ \A x \in DOMAIN bound : x # s => bound'[x] = bound[x]
  BY <1>6 DEF With
<1>9. \A t \in DOMAIN minted : t \in DOMAIN minted' /\ minted'[t] = minted[t]
  BY <1>1, <1>2, <1>3
<1>10. minted'[NextToken] = s /\ (name = NoName => bound' = bound)
  BY <1>2, <1>6 DEF NextToken
<1> QED BY <1>2, <1>4, <1>7, <1>8, <1>9, <1>10

LEMMA MintType ==
    ASSUME StoreOK, NEW s \in Sid, NEW name \in Name \cup {NoName}, Mint(s, name)
    PROVE  StoreType'
<1> USE DEF StoreOK
<1>1. IsPartial(tok', Sid, Token)
  BY MintedFacts, PartialWith DEF Mint, StoreType
<1>2. IsPartial(bound', Sid, Name)
  <2>1. CASE name = NoName
    BY <2>1 DEF Mint, StoreType
  <2>2. CASE name # NoName
    BY <2>2, PartialWith DEF Mint, StoreType
  <2> QED BY <2>1, <2>2
<1>3. ring' \in [Sid -> Seq(Entry)]
  <2>1. CASE s \in DOMAIN tok
    <3> DEFINE x == [tok |-> tok[s], name |-> Get(bound, s, name)]
    <3>1. x \in Entry
      BY <2>1 DEF Entry, Get, StoreType, IsPartial
    <3>2. ring[s] \in Seq(Entry) /\ Distinct(ring[s])
      BY DEF TokensAreOwn, Distinct, StoreType
    <3>3. Push(ring[s], x) \in Seq(Entry)
      BY <3>1, <3>2, PushFacts
    <3> QED BY <2>1, <3>3 DEF Mint, Remembered, StoreType
  <2>2. CASE s \notin DOMAIN tok
    BY <2>2 DEF Mint, Remembered, StoreType
  <2> QED BY <2>1, <2>2
<1>4. Persist({s}) /\ DOMAIN tok' = DOMAIN tok \cup {s}
  BY MintedFacts DEF Mint
<1>5. IsPartial(file'.tok, Sid, Token) /\ IsPartial(file'.bound, Sid, Name)
  BY <1>1, <1>2, <1>4, PersistFacts DEF StoreType
<1>7. unsaved' \subseteq DOMAIN tok' /\ forgotten' \subseteq Token
  BY <1>4, PersistFacts DEF StoreType
<1>6. minted' \in Seq(Sid) /\ Len(minted') <= MaxTok
  BY MintedFacts
<1> QED BY <1>1, <1>2, <1>3, <1>5, <1>6, <1>7 DEF StoreType

\* A minted token is its id's own, and the one it replaces stays so.
LEMMA MintOwn ==
    ASSUME StoreOK, NEW s \in Sid, NEW name \in Name \cup {NoName}, Mint(s, name)
    PROVE  TokensAreOwn'
<1> USE DEF StoreOK
<1>1. /\ \A t \in DOMAIN minted : t \in DOMAIN minted' /\ minted'[t] = minted[t]
      /\ NextToken \notin DOMAIN minted
      /\ NextToken \in DOMAIN minted' /\ minted'[NextToken] = s
      /\ DOMAIN tok' = DOMAIN tok \cup {s} /\ tok'[s] = NextToken
      /\ \A x \in DOMAIN tok : x # s => tok'[x] = tok[x]
  BY MintedFacts
<1>2. ring' = Remembered(s, name)
  BY DEF Mint
<1> SUFFICES ASSUME NEW x \in Sid
    PROVE  /\ x \in DOMAIN tok' => tok'[x] \in DOMAIN minted' /\ minted'[tok'[x]] = x
           /\ Len(ring'[x]) <= RingSize
           /\ \A i \in 1..Len(ring'[x]) :
                 /\ ring'[x][i].tok \in DOMAIN minted' /\ minted'[ring'[x][i].tok] = x
                 /\ x \in DOMAIN tok' => ring'[x][i].tok # tok'[x]
           /\ Distinct(ring'[x])
  BY DEF TokensAreOwn, Distinct
<1>3. x \in DOMAIN tok' => tok'[x] \in DOMAIN minted' /\ minted'[tok'[x]] = x
  BY <1>1 DEF TokensAreOwn
<1>4. ring \in [Sid -> Seq(Entry)] /\ Distinct(ring[x])
  BY DEF TokensAreOwn, Distinct, StoreType
<1>5. \A i \in 1..Len(ring[x]) :
          ring[x][i].tok \in DOMAIN minted /\ minted[ring[x][i].tok] = x
  BY DEF TokensAreOwn
<1>6. CASE x = s /\ s \in DOMAIN tok
  <2> DEFINE e == [tok |-> tok[s], name |-> Get(bound, s, name)]
  <2>1. e \in Entry /\ e.tok = tok[s]
    BY <1>6 DEF Entry, Get, StoreType, IsPartial
  <2>2. ring'[x] = Push(ring[x], e)
    BY <1>2, <1>4, <1>6 DEF Remembered
  <2> HIDE DEF e
  <2>3. /\ Len(ring'[x]) <= RingSize /\ Distinct(ring'[x])
        /\ \A i \in 1..Len(ring'[x]) :
              ring'[x][i] = e \/ \E j \in 1..Len(ring[x]) : ring'[x][i] = ring[x][j]
    BY <1>4, <2>1, <2>2, PushFacts
  <2>4. tok[s] \in DOMAIN minted /\ minted[tok[s]] = s
    BY <1>6 DEF TokensAreOwn
  <2>5. \A i \in 1..Len(ring'[x]) :
            ring'[x][i].tok \in DOMAIN minted /\ minted[ring'[x][i].tok] = x
    BY <1>5, <1>6, <2>1, <2>3, <2>4
  <2> QED BY <1>1, <1>3, <1>6, <2>3, <2>5
<1>7. CASE ~(x = s /\ s \in DOMAIN tok)
  <2>1. ring'[x] = ring[x]
    BY <1>2, <1>4, <1>7 DEF Remembered
  <2>2. Len(ring[x]) <= RingSize
    BY DEF TokensAreOwn
  <2>3. \A i \in 1..Len(ring[x]) : x \in DOMAIN tok => ring[x][i].tok # tok[x]
    BY DEF TokensAreOwn
  <2> QED BY <1>1, <1>3, <1>4, <1>5, <1>7, <2>1, <2>2, <2>3
<1> QED BY <1>6, <1>7

LEMMA MintOK ==
    ASSUME StoreOK, NEW s \in Sid, NEW name \in Name \cup {NoName}, Mint(s, name)
    PROVE  StoreOK'
<1>1. StoreType' /\ TokensAreOwn'
  BY MintType, MintOwn
<1>2. DOMAIN bound' \subseteq DOMAIN tok'
  BY MintedFacts DEF StoreOK
<1>3. Persist({s})
  BY DEF Mint
<1>4. file' = file \/ (file'.tok = tok' /\ file'.bound = bound')
  BY <1>3, PersistFacts
<1>5. \A s_1 \in DOMAIN tok' : s_1 \in Sid
  BY <1>1 DEF StoreType, IsPartial
<1>6. OwnFile(file)'
  <2>1. CASE file' = file
    BY <2>1, MintedFacts DEF OwnFile, StoreOK
  <2>2. CASE file'.tok = tok' /\ file'.bound = bound'
    BY <1>1, <1>2, <1>5, <2>2 DEF OwnFile, TokensAreOwn
  <2> QED BY <1>4, <2>1, <2>2
<1> QED BY <1>1, <1>2, <1>6 DEF StoreOK

\* Binding an id that has a token, written to the file or not.
LEMMA BindOK ==
    ASSUME StoreOK, NEW s \in Sid, s \in DOMAIN tok, NEW name \in Name,
           bound' = With(bound, s, name) \/ bound' = bound,
           UNCHANGED <<tok, ring, minted>>,
           unsaved' \subseteq unsaved, forgotten' = forgotten,
           file' = file \/ (file'.tok = tok' /\ file'.bound = bound')
    PROVE  StoreOK'
<1> USE DEF StoreOK
<1>1. IsPartial(bound', Sid, Name) /\ DOMAIN bound' \subseteq DOMAIN tok'
  <2>1. CASE bound' = bound
    BY <2>1 DEF StoreType
  <2>2. CASE bound' = With(bound, s, name)
    <3>1. IsPartial(bound', Sid, Name)
      BY <2>2, PartialWith DEF StoreType
    <3>2. DOMAIN bound' = DOMAIN bound \cup {s} /\ tok' = tok
      BY <2>2 DEF With
    <3> QED BY <3>1, <3>2
  <2> QED BY <2>1, <2>2
<1>2. StoreType'
  BY <1>1 DEF StoreType
<1>3. TokensAreOwn'
  BY DEF TokensAreOwn
<1>4. OwnFile(file)'
  <2>1. CASE file' = file
    BY <2>1 DEF OwnFile
  <2>2. CASE file'.tok = tok' /\ file'.bound = bound'
    BY <1>1, <1>2, <2>2 DEF OwnFile, TokensAreOwn, StoreType, IsPartial
  <2> QED BY <2>1, <2>2
<1> QED BY <1>1, <1>2, <1>3, <1>4

LEMMA KeepOK ==
    ASSUME StoreOK, NEW s \in Sid, s \in DOMAIN tok, NEW name \in Name, Keep(s, name)
    PROVE  StoreOK'
<1>1. Persist({})
  BY DEF Keep
<1> QED BY <1>1, BindOK, PersistFacts DEF Keep

LEMMA SameStore ==
    ASSUME StoreOK, UNCHANGED store
    PROVE  StoreOK'
BY DEF StoreOK, StoreType, TokensAreOwn, OwnFile, store

LEMMA EnvForOK ==
    ASSUME StoreOK, NEW s \in Sid, EnvFor(s)
    PROVE  StoreOK' /\ s \in DOMAIN tok'
<1>1. CASE s \in DOMAIN tok
  BY <1>1, SameStore DEF EnvFor, store
<1>2. CASE s \notin DOMAIN tok
  BY <1>2, MintOK, MintedFacts DEF EnvFor, StoreOK
<1> QED BY <1>1, <1>2

\* An accepted recovery puts back a token of that id and forgets the entry.
LEMMA RecoveredOK ==
    ASSUME StoreOK, NEW c \in Cred, HookRecovered(c)
    PROVE  StoreOK'
<1> USE DEF StoreOK
<1> DEFINE s == c.sid
<1>1. s \in Sid /\ c.tok \in Token /\ s \in DOMAIN bound /\ s \in DOMAIN tok
  BY DEF HookRecovered, Recoverable, Cred
<1>2. PICK k \in 1..Len(ring[s]) : ring[s][k].tok = c.tok
  BY DEF HookRecovered, Recoverable
<1>3. c.tok \in DOMAIN minted /\ minted[c.tok] = s
  BY <1>1, <1>2 DEF TokensAreOwn
<1>4. /\ tok' = With(tok, s, c.tok) /\ ring' = [ring EXCEPT ![s] = Forget(ring[s], c.tok)]
      /\ UNCHANGED <<bound, minted>> /\ Persist({c.sid})
  BY DEF HookRecovered, Consumed
<1>5. ring \in [Sid -> Seq(Entry)] /\ \A x \in Sid : Distinct(ring[x])
  BY DEF StoreType, TokensAreOwn, Distinct
<1>6. /\ ring'[s] \in Seq(Entry) /\ Len(ring'[s]) <= Len(ring[s])
      /\ Within(ring'[s], ring[s]) /\ Distinct(ring'[s])
      /\ \A i \in 1..Len(ring'[s]) : ring'[s][i].tok # c.tok
  <2>1. ring'[s] = Forget(ring[s], c.tok)
    BY <1>1, <1>4, <1>5
  <2> QED BY <1>1, <1>5, <2>1, ForgetFacts
<1>7. \A x \in Sid : x # s => ring'[x] = ring[x]
  BY <1>4, <1>5
<1>8. /\ DOMAIN tok' = DOMAIN tok /\ tok'[s] = c.tok
      /\ \A x \in DOMAIN tok : x # s => tok'[x] = tok[x]
  BY <1>1, <1>4 DEF With
<1>9. TokensAreOwn'
  <2> SUFFICES ASSUME NEW x \in Sid
      PROVE  /\ x \in DOMAIN tok' => tok'[x] \in DOMAIN minted' /\ minted'[tok'[x]] = x
             /\ Len(ring'[x]) <= RingSize
             /\ \A i \in 1..Len(ring'[x]) :
                   /\ ring'[x][i].tok \in DOMAIN minted' /\ minted'[ring'[x][i].tok] = x
                   /\ x \in DOMAIN tok' => ring'[x][i].tok # tok'[x]
             /\ Distinct(ring'[x])
    BY DEF TokensAreOwn, Distinct
  <2>1. minted' = minted
    BY <1>4
  <2>2. CASE x = s
    <3>1. \A i \in 1..Len(ring'[s]) :
              ring'[s][i].tok \in DOMAIN minted /\ minted[ring'[s][i].tok] = s
      BY <1>1, <1>6 DEF Within, TokensAreOwn
    <3>2. Len(ring'[s]) <= RingSize
      <4>1. Len(ring[s]) <= RingSize /\ Len(ring[s]) \in Nat /\ Len(ring'[s]) \in Nat
        BY <1>1, <1>5, <1>6 DEF TokensAreOwn
      <4> QED BY <1>6, <4>1, Constants
    <3> QED BY <1>3, <1>6, <1>8, <2>1, <2>2, <3>1, <3>2
  <2>3. CASE x # s
    <3>1. ring'[x] = ring[x] /\ (x \in DOMAIN tok' <=> x \in DOMAIN tok)
      BY <1>7, <1>8, <2>3
    <3>2. x \in DOMAIN tok => tok'[x] = tok[x]
      BY <1>8, <2>3
    <3>3. Distinct(ring[x])
      BY <1>5
    <3> QED BY <2>1, <3>1, <3>2, <3>3 DEF TokensAreOwn
  <2> QED BY <2>2, <2>3
<1>10. StoreType'
  <2>1. IsPartial(tok', Sid, Token)
    BY <1>1, <1>4, PartialWith DEF StoreType
  <2>2. ring' \in [Sid -> Seq(Entry)]
    BY <1>4, <1>5, <1>6, <1>7
  <2>3. unsaved' \subseteq DOMAIN tok' /\ forgotten' \subseteq Token
    BY <1>1, <1>4, <1>8, PersistFacts DEF StoreType
  <2>4. IsPartial(file'.tok, Sid, Token) /\ IsPartial(file'.bound, Sid, Name)
    BY <1>4, <2>1, PersistFacts DEF StoreType
  <2> QED BY <1>4, <2>1, <2>2, <2>3, <2>4 DEF StoreType
<1>11. OwnFile(file)'
  <2>2. CASE file' = file
    BY <1>4, <2>2 DEF OwnFile
  <2>3. CASE file'.tok = tok' /\ file'.bound = bound'
    BY <1>4, <1>8, <1>9, <1>10, <2>3 DEF OwnFile, TokensAreOwn, StoreType, IsPartial
  <2> QED BY <1>4, <2>2, <2>3, PersistFacts
<1> QED BY <1>4, <1>8, <1>9, <1>10, <1>11

\* The file that is read at start was written by the store.
LEMMA RestartedOK ==
    ASSUME StoreOK, Restart
    PROVE  StoreOK'
<1> USE DEF StoreOK
<1>1. /\ tok' = Without(file.tok, Collected) /\ bound' = Without(file.bound, Collected)
      /\ ring' = [s \in Sid |-> <<>>] /\ minted' = minted
      /\ file' = [tok |-> tok', bound |-> bound'] \/ file' = file
  BY DEF Restart
<1>2. unsaved' = {} /\ forgotten' = forgotten \cup {tok[s] : s \in unsaved}
  BY DEF Restart
<1>10. forgotten' \subseteq Token
  BY <1>2 DEF StoreType, IsPartial
<1>3. /\ DOMAIN tok' = DOMAIN file.tok \ Collected
      /\ DOMAIN bound' = DOMAIN file.bound \ Collected
      /\ \A s \in DOMAIN tok' : tok'[s] = file.tok[s]
  BY <1>1 DEF Without
<1>4. IsPartial(tok', Sid, Token) /\ IsPartial(bound', Sid, Name)
  BY <1>1, PartialWithout DEF StoreType
<1>5. ring' \in [Sid -> Seq(Entry)] /\ \A s \in Sid : Len(ring'[s]) = 0
  BY <1>1
<1>6. StoreType'
  <2>1. CASE file' = file
    BY <1>1, <1>2, <1>4, <1>5, <1>10, <2>1 DEF StoreType
  <2>2. CASE file' = [tok |-> tok', bound |-> bound']
    <3>1. file'.tok = tok' /\ file'.bound = bound'
      BY <2>2
    <3> QED BY <1>1, <1>2, <1>4, <1>5, <1>10, <3>1 DEF StoreType
  <2> QED BY <1>1, <2>1, <2>2
<1>7. TokensAreOwn'
  BY <1>1, <1>3, <1>5, Constants DEF TokensAreOwn, OwnFile
<1>8. DOMAIN bound' \subseteq DOMAIN tok'
  BY <1>3 DEF OwnFile
<1>9. OwnFile(file)'
  <2>1. CASE file' = file
    BY <1>1, <2>1 DEF OwnFile
  <2>2. CASE file' = [tok |-> tok', bound |-> bound']
    <3>1. file'.tok = tok' /\ file'.bound = bound'
      BY <2>2
    <3> QED BY <1>1, <1>3, <1>8, <3>1 DEF OwnFile
  <2> QED BY <1>1, <2>1, <2>2
<1> QED BY <1>6, <1>7, <1>8, <1>9
-----------------------------------------------------------------------------
(* The operations of the registry.                                         *)

LEMMA RegisterType ==
    ASSUME SessType, NEW s \in Sid, NEW n \in Name, NEW dropped, Register(s, n, dropped)
    PROVE  SessType'
<1>1. sess' = With(Without(sess, dropped), s, n)
  BY DEF Register
<1>2. IsPartial(sess', Sid, Name)
  BY <1>1, PartialWith, PartialWithout DEF SessType
<1>3. DOMAIN sess' = (DOMAIN sess \ dropped) \cup {s}
  BY <1>1 DEF With, Without
<1> QED BY <1>2, <1>3 DEF Register, SessType

LEMMA WipeType ==
    ASSUME SessType, NEW S, Wipe(S)
    PROVE  SessType'
<1>1. sess' = Without(sess, S)
  BY DEF Wipe
<1>2. IsPartial(sess', Sid, Name)
  BY <1>1, PartialWithout DEF SessType
<1>3. DOMAIN sess' = DOMAIN sess \ S
  BY <1>1 DEF Without
<1> QED BY <1>2, <1>3 DEF Wipe, SessType

LEMMA SaveType ==
    ASSUME MetaType, SessType', owned' \subseteq Name, SaveMetadata
    PROVE  MetaType'
<1>1. CASE cur' = NoSid
  BY <1>1 DEF SaveMetadata, MetaType
<1>2. CASE cur' # NoSid
  <2>1. cur' \in Sid /\ sess'[cur'] \in Name
    BY <1>2 DEF SessType, IsPartial
  <2>2. meta' = [sid |-> cur', name |-> sess'[cur'], owned |-> owned']
    BY <1>2 DEF SaveMetadata
  <2> QED BY <1>2, <2>1, <2>2, Constants DEF MetaType, Metadata
<1> QED BY <1>1, <1>2

LEMMA RepointType ==
    ASSUME MetaType, SessType', owned' \subseteq Name, NEW s, Repoint(s)
    PROVE  MetaType'
<1>1. CASE meta' = meta
  BY <1>1 DEF MetaType
<1>2. CASE meta' = Absent
  BY <1>2 DEF MetaType, Metadata, Absent
<1>3. CASE SaveMetadata
  BY <1>3, SaveType
<1> QED BY <1>1, <1>2, <1>3 DEF Repoint

LEMMA LadderType ==
    ASSUME StoreOK, NEW n \in Name
    PROVE  /\ Ladder(n) \subseteq Sid
           /\ \A s \in Ladder(n) : s \in SesId => s \in DOMAIN bound /\ bound[s] = n
BY Constants DEF Ladder, StoreOK, StoreType, IsPartial

LEMMA CredType ==
    ASSUME StoreOK', NEW s \in Sid, s \in DOMAIN tok'
    PROVE  CredOf(s) \in Cred
BY DEF CredOf, Cred, StoreOK, StoreType, IsPartial

LEMMA PaneFacts ==
    ASSUME PaneType, NEW n \in DOMAIN pane
    PROVE  /\ n \in Name /\ pane[n] \in Pane
           /\ pane[n].env \in OptCred /\ pane[n].proc \in OptCred
           /\ pane[n].up \in BOOLEAN /\ pane[n].row \in BOOLEAN
BY DEF PaneType, IsPartial, Pane
-----------------------------------------------------------------------------
(* Every step keeps the types and the ownership of tokens.                 *)

LEMMA InitOK == Init => IInv
<1> SUFFICES ASSUME Init PROVE IInv
  OBVIOUS
<1> USE DEF Init
<1>1. StoreOK
  <2>1. file.tok = Nothing /\ file.bound = Nothing
    OBVIOUS
  <2>2. ring \in [Sid -> Seq(Entry)] /\ \A s \in Sid : Len(ring[s]) = 0
    OBVIOUS
  <2>3. minted \in Seq(Sid) /\ Len(minted) = 0
    OBVIOUS
  <2> QED
    BY <2>1, <2>2, <2>3, PartialNothing, Constants DEF StoreOK, StoreType, TokensAreOwn, OwnFile
<1>2. RegistryType
  BY PartialNothing, Constants DEF RegistryType, SessType, MetaType, Metadata, Absent
<1>3. PaneType
  BY PartialNothing DEF PaneType
<1> QED BY <1>1, <1>2, <1>3 DEF IInv

LEMMA OutsideOK ==
    ASSUME IInv, NEW n \in Name, ExternalPane(n) \/ KillOutside(n) \/ AgentExits(n)
    PROVE  IInv'
<1>1. StoreOK'
  BY SameStore DEF IInv, ExternalPane, KillOutside, AgentExits
<1>2. RegistryType'
  BY DEF IInv, RegistryType, SessType, MetaType, registry, ExternalPane, KillOutside, AgentExits
<1>3. PaneType'
  <2>1. CASE ExternalPane(n)
    <3>1. [env |-> NoCred, proc |-> NoCred, up |-> TRUE, row |-> FALSE] \in Pane
      BY DEF Pane, OptCred
    <3> QED BY <2>1, <3>1, PartialWith DEF IInv, PaneType, ExternalPane
  <2>2. CASE KillOutside(n)
    BY <2>2, PartialWithout DEF IInv, PaneType, KillOutside
  <2>3. CASE AgentExits(n)
    BY <2>3 DEF IInv, PaneType, IsPartial, Pane, AgentExits
  <2> QED BY <2>1, <2>2, <2>3
<1> QED BY <1>1, <1>2, <1>3 DEF IInv

LEMMA HookRecoveredOK ==
    ASSUME IInv, NEW c \in Cred, HookRecovered(c)
    PROVE  IInv'
<1>1. StoreOK'
  BY RecoveredOK DEF IInv
<1> QED
  BY <1>1 DEF IInv, RegistryType, SessType, MetaType, PaneType, registry, tmux, HookRecovered

LEMMA CreateOK ==
    ASSUME IInv, NEW s \in SesId, NEW n \in Name, Create(s, n)
    PROVE  IInv'
<1>1. s \in Sid /\ Mint(s, n)
  BY Constants DEF Create
<1>2. StoreOK' /\ s \in DOMAIN tok'
  BY <1>1, MintOK, MintedFacts DEF IInv, StoreOK
<1>3. SessType'
  BY <1>1, RegisterType DEF Create, IInv, RegistryType
<1>4. owned' \subseteq Name
  BY DEF Create, IInv, RegistryType
<1>5. MetaType'
  BY <1>3, <1>4, SaveType DEF Create, IInv, RegistryType
<1>6. CredOf(s) \in Cred
  BY <1>1, <1>2, CredType
<1>7. PaneType'
  <2>1. PICK recorded \in BOOLEAN :
            pane' = With(pane, n, [env |-> CredOf(s), proc |-> CredOf(s),
                                   up |-> TRUE, row |-> recorded])
    BY DEF Create
  <2>2. [env |-> CredOf(s), proc |-> CredOf(s), up |-> TRUE, row |-> recorded] \in Pane
    BY <1>6 DEF Pane, OptCred
  <2>3. IsPartial(pane', Name, Pane)
    BY <2>1, <2>2, PartialWith DEF IInv, PaneType
  <2> QED BY <1>6, <2>3 DEF IInv, PaneType, Create
<1> QED BY <1>2, <1>3, <1>4, <1>5, <1>7 DEF IInv, RegistryType, Create

LEMMA CreateFailsOK ==
    ASSUME IInv, NEW s \in SesId, NEW n \in Name, CreateFails(s, n)
    PROVE  IInv'
<1>1. StoreOK'
  BY MintOK, Constants DEF IInv, CreateFails
<1> QED
  BY <1>1 DEF IInv, RegistryType, SessType, MetaType, PaneType, registry, tmux, CreateFails

LEMMA RespawnOK ==
    ASSUME IInv, NEW n \in Name, Respawn(n)
    PROVE  IInv'
<1>1. RegistryType'
  BY DEF IInv, RegistryType, SessType, MetaType, registry, Respawn
<1>2. n \in DOMAIN pane
  BY DEF Respawn
<1>3. StoreOK' /\ PaneType'
  <2>1. ASSUME NEW s \in RegisteredOn(n), EnvFor(s),
               pane' = [pane EXCEPT ![n].env = CredOf(s), ![n].proc = CredOf(s), ![n].up = TRUE]
        PROVE  StoreOK' /\ PaneType'
    <3>1. s \in Sid
      BY DEF RegisteredOn, IInv, RegistryType, SessType, IsPartial
    <3>2. StoreOK' /\ CredOf(s) \in Cred
      BY <2>1, <3>1, EnvForOK, CredType DEF IInv
    <3>3. IsPartial(pane', Name, Pane) /\ pane'[n].proc \in Cred
      <4> DEFINE c == CredOf(s)
      <4>1. c \in Cred /\ c \in OptCred
        BY <3>2 DEF OptCred
      <4>2. pane' = [pane EXCEPT ![n].env = c, ![n].proc = c, ![n].up = TRUE]
        BY <2>1
      <4> HIDE DEF c
      <4>3. IsPartial(pane, Name, Pane) /\ pane[n] \in Pane
        BY <1>2 DEF IInv, PaneType, IsPartial
      <4> DEFINE q == [pane[n] EXCEPT !.env = c, !.proc = c, !.up = TRUE]
      <4>4. q \in Pane /\ q.proc = c
        BY <4>1, <4>3 DEF Pane
      <4>5. pane' = [pane EXCEPT ![n] = q]
        BY <4>2
      <4> HIDE DEF q
      <4> QED BY <1>2, <4>1, <4>3, <4>4, <4>5 DEF IsPartial
    <3> QED BY <3>2, <3>3 DEF IInv, PaneType, Respawn
  <2>2. ASSUME pane' = [pane EXCEPT ![n].proc = pane[n].env, ![n].up = TRUE], UNCHANGED store
        PROVE  StoreOK' /\ PaneType'
    <3>1. IsPartial(pane', Name, Pane) /\ pane'[n].proc \in OptCred
      BY <1>2, <2>2 DEF IInv, PaneType, IsPartial, Pane
    <3> QED BY <2>2, <3>1, SameStore DEF IInv, PaneType, Respawn, OptCred
  <2> QED BY <2>1, <2>2 DEF Respawn
<1> QED BY <1>1, <1>3 DEF IInv

LEMMA AdoptOK ==
    ASSUME IInv, NEW n \in Name, Adopt(n)
    PROVE  IInv'
<1> PICK known \in BOOLEAN, s \in Ladder(n) \cup {Adopted(n)} :
        LET stale == RegisteredOn(n) \cup ({s} \cap backed)
            row == known \/ pane[n].row
        IN  \/ /\ pane[n].up
               /\ Register(s, n, stale)
               /\ Credential(s, n, known /\ Recovered(n))
               /\ pane' = [pane EXCEPT ![n].env = CredOf(s), ![n].row = row]
               /\ SaveMetadata
            \/ /\ ~pane[n].up
               /\ Wipe(stale)
               /\ pane' = [pane EXCEPT ![n].row = row]
               /\ UNCHANGED <<store, meta>>
  BY DEF Adopt
<1> DEFINE stale == RegisteredOn(n) \cup ({s} \cap backed)
           row == known \/ pane[n].row
<1>1. /\ n \in DOMAIN pane
      /\ UNCHANGED <<ever, owned, plan, phase, boots>>
  BY DEF Adopt
<1>2. s \in Sid
  BY LadderType, Constants DEF IInv
<1>3. row \in BOOLEAN
  BY <1>1, PaneFacts DEF IInv
<1> HIDE DEF stale, row
<1>4. CASE /\ Register(s, n, stale)
           /\ Credential(s, n, known /\ Recovered(n))
           /\ pane' = [pane EXCEPT ![n].env = CredOf(s), ![n].row = row]
           /\ SaveMetadata
  <2>1. StoreOK' /\ s \in DOMAIN tok'
    <3>1. CASE s \in DOMAIN tok /\ Keep(s, n)
      BY <1>2, <3>1, KeepOK DEF IInv, Keep
    <3>2. CASE Mint(s, n)
      BY <1>2, <3>2, MintOK, MintedFacts DEF IInv, StoreOK
    <3> QED BY <1>4, <3>1, <3>2 DEF Credential
  <2>2. CredOf(s) \in Cred
    BY <1>2, <2>1, CredType
  <2>3. SessType'
    BY <1>2, <1>4, RegisterType DEF IInv, RegistryType
  <2>4. MetaType'
    BY <1>1, <1>4, <2>3, SaveType DEF IInv, RegistryType
  <2>5. PaneType'
    BY <1>1, <1>3, <1>4, <2>2 DEF IInv, PaneType, IsPartial, Pane, OptCred
  <2> QED BY <1>1, <2>1, <2>3, <2>4, <2>5 DEF IInv, RegistryType
<1>5. CASE /\ Wipe(stale)
           /\ pane' = [pane EXCEPT ![n].row = row]
           /\ UNCHANGED <<store, meta>>
  <2>1. StoreOK'
    BY <1>5, SameStore DEF IInv
  <2>2. SessType'
    BY <1>5, WipeType DEF IInv, RegistryType
  <2>3. PaneType'
    BY <1>1, <1>3, <1>5 DEF IInv, PaneType, IsPartial, Pane
  <2> QED BY <1>1, <1>5, <2>1, <2>2, <2>3 DEF IInv, RegistryType, MetaType
<1> QED BY <1>4, <1>5 DEF stale, row

LEMMA DetachOK ==
    ASSUME IInv, NEW s \in Sid, Detach(s)
    PROVE  IInv'
<1>1. StoreOK' /\ PaneType'
  BY SameStore DEF IInv, PaneType, tmux, Detach
<1>2. SessType'
  BY WipeType DEF IInv, RegistryType, Detach
<1>3. MetaType'
  BY <1>2, RepointType DEF IInv, RegistryType, Detach
<1> QED BY <1>1, <1>2, <1>3 DEF IInv, RegistryType, Detach

LEMMA DestroyOK ==
    ASSUME IInv, NEW s \in Sid, Destroy(s)
    PROVE  IInv'
<1>1. StoreOK'
  BY SameStore DEF IInv, Destroy
<1>2. PaneType'
  BY PartialWithout DEF IInv, PaneType, Destroy
<1>3. SessType' /\ owned' \subseteq Name
  BY WipeType DEF IInv, RegistryType, Destroy
<1>4. MetaType'
  BY <1>3, RepointType DEF IInv, RegistryType, Destroy
<1> QED BY <1>1, <1>2, <1>3, <1>4 DEF IInv, RegistryType, Destroy

LEMMA DestroyExternalOK ==
    ASSUME IInv, NEW n \in Name, DestroyExternal(n)
    PROVE  IInv'
<1>1. StoreOK'
  BY SameStore DEF IInv, DestroyExternal
<1>2. PaneType'
  BY PartialWithout DEF IInv, PaneType, DestroyExternal
<1>3. SessType' /\ owned' \subseteq Name
  BY DEF IInv, RegistryType, SessType, registry, DestroyExternal
<1>4. MetaType'
  <2>1. CASE SaveMetadata
    BY <1>3, <2>1, SaveType DEF IInv, RegistryType
  <2>2. CASE meta' = meta
    BY <2>2 DEF IInv, RegistryType, MetaType
  <2> QED BY <2>1, <2>2 DEF DestroyExternal
<1> QED BY <1>1, <1>2, <1>3, <1>4 DEF IInv, RegistryType, DestroyExternal

LEMMA RestartOK ==
    ASSUME IInv, Restart
    PROVE  IInv'
<1>1. StoreOK'
  BY RestartedOK DEF IInv
<1>2. PaneType' /\ MetaType'
  BY DEF IInv, RegistryType, PaneType, MetaType, tmux, Restart
<1>3. meta.sid \in Sid \cup {NoSid} /\ owned' \subseteq Name
  BY DEF IInv, RegistryType, MetaType, Metadata, Restart
<1>4. SessType'
  <2>1. CASE meta.sid = NoSid
    BY <2>1, PartialNothing DEF SessType, Restart, Rehydrated
  <2>2. CASE meta.sid # NoSid
    <3>1. meta.sid \in Sid /\ meta.name \in Name
      BY <2>2 DEF IInv, RegistryType, MetaType, Metadata
    <3>2. sess' = With(Nothing, meta.sid, meta.name) /\ backed' = {} /\ cur' = meta.sid
      BY <2>2 DEF Restart, Rehydrated
    <3>3. IsPartial(sess', Sid, Name)
      BY <3>1, <3>2, PartialNothing, PartialWith
    <3>4. meta.sid \in DOMAIN sess'
      BY <3>2 DEF With
    <3> QED BY <3>2, <3>3, <3>4 DEF SessType
  <2> QED BY <2>1, <2>2
<1>5. boots' \in 0..MaxBoots
  BY Constants DEF IInv, RegistryType, Restart
<1>6. IsPartial(plan', Name, Sid) /\ phase' = "boot"
  BY PartialNothing DEF Restart
<1> QED BY <1>1, <1>2, <1>3, <1>4, <1>5, <1>6 DEF IInv, RegistryType

LEMMA PlansType ==
    ASSUME StoreOK, PaneType, NEW held, NEW ids, NEW f \in Plans(held, ids)
    PROVE  /\ IsPartial(f, Name, Sid)
           /\ \A n \in DOMAIN f : n \in DOMAIN pane /\ f[n] \in Ladder(n)
<1> DEFINE due == {n \in DOMAIN pane : pane[n].row /\ n \notin held}
<1>1. PICK g \in [due -> Sid] : /\ \A n \in due : g[n] \in Ladder(n)
                                /\ f = Without(g, {n \in due : g[n] \in ids})
  BY DEF Plans
<1>2. due \subseteq Name /\ due \subseteq DOMAIN pane
  BY DEF PaneType, IsPartial
<1> HIDE DEF due
<1>3. IsPartial(g, Name, Sid)
  BY <1>1, <1>2 DEF IsPartial
<1>4. IsPartial(f, Name, Sid)
  BY <1>1, <1>3, PartialWithout
<1>5. \A n \in DOMAIN f : n \in due /\ f[n] = g[n]
  BY <1>1 DEF Without
<1> QED BY <1>1, <1>2, <1>4, <1>5

\* What the start leaves of the registry, whatever tmux lists.
LEMMA ReconciledFacts ==
    ASSUME IInv, Reconcile
    PROVE  /\ owned' \subseteq owned
           /\ sess' = sess \/ (sess' = Without(sess, {cur}) /\ Wipe({cur}))
           /\ plan' = Nothing \/ plan' \in Plans({sess'[s] : s \in backed'}, DOMAIN sess')
           /\ \/ meta' = meta
              \/ meta' = [Absent EXCEPT !.owned = owned']
              \/ SaveMetadata
           /\ \/ sess' = sess /\ cur' = cur /\ backed' \subseteq backed \cup {cur} /\
                 (cur = NoSid => backed' = backed)
              \/ Wipe({cur})
BY DEF Reconcile, ClearStale, Wipe, registry

LEMMA ReconcileOK ==
    ASSUME IInv, Reconcile
    PROVE  IInv'
<1>1. StoreOK' /\ PaneType'
  BY SameStore DEF IInv, PaneType, tmux, Reconcile
<1>2. SessType' /\ owned' \subseteq Name
  <2>1. CASE Wipe({cur})
    BY <2>1, WipeType, ReconciledFacts DEF IInv, RegistryType
  <2>2. CASE /\ sess' = sess /\ cur' = cur /\ backed' \subseteq backed \cup {cur}
             /\ cur = NoSid => backed' = backed
    BY <2>2, ReconciledFacts DEF IInv, RegistryType, SessType
  <2> QED BY <2>1, <2>2, ReconciledFacts
<1>3. MetaType'
  <2>1. CASE meta' = meta
    BY <2>1 DEF IInv, RegistryType, MetaType
  <2>2. CASE meta' = [Absent EXCEPT !.owned = owned']
    BY <1>2, <2>2 DEF MetaType, Metadata, Absent
  <2>3. CASE SaveMetadata
    BY <1>2, <2>3, SaveType DEF IInv, RegistryType
  <2> QED BY <2>1, <2>2, <2>3, ReconciledFacts
<1>4. IsPartial(plan', Name, Sid)
  BY PlansType, PartialNothing, ReconciledFacts DEF IInv
<1> QED BY <1>1, <1>2, <1>3, <1>4 DEF IInv, RegistryType, Reconcile

LEMMA ReadoptAttachOK ==
    ASSUME IInv, NEW n \in Name, ReadoptAttach(n)
    PROVE  IInv'
<1> DEFINE s == plan[n]
<1>1. /\ n \in DOMAIN plan /\ n \in DOMAIN pane /\ s \in Sid
      /\ Get(bound, s, n) \in Name
  BY DEF ReadoptAttach, IInv, RegistryType, IsPartial, Get, StoreOK, StoreType
<1>2. StoreOK' /\ s \in DOMAIN tok'
  <2>1. CASE s \in DOMAIN tok
    <3>1. /\ bound' = With(bound, s, Get(bound, s, n))
          /\ UNCHANGED <<tok, ring, file, minted, unsaved, forgotten>>
      BY <2>1 DEF ReadoptAttach
    <3>2. unsaved' \subseteq unsaved /\ forgotten' = forgotten /\ file' = file
      BY <3>1 DEF IInv, StoreOK, StoreType
    <3> QED BY <1>1, <2>1, <3>1, <3>2, BindOK DEF IInv
  <2>2. CASE s \notin DOMAIN tok
    <3>1. Mint(s, Get(bound, s, n))
      BY <2>2 DEF ReadoptAttach
    <3> QED BY <1>1, <3>1, MintOK, MintedFacts DEF IInv, StoreOK
  <2> QED BY <2>1, <2>2
<1>3. CredOf(s) \in Cred
  BY <1>1, <1>2, CredType
<1>4. PaneType'
  <2>1. pane' = [pane EXCEPT ![n].env = CredOf(s)] /\ ever' = ever
    BY DEF ReadoptAttach
  <2> QED BY <1>1, <1>3, <2>1 DEF IInv, PaneType, IsPartial, Pane, OptCred
<1>5. SessType'
  <2>1. sess' = With(sess, s, n) /\ backed' = backed \cup {s} /\ cur' \in {s, cur}
    BY DEF ReadoptAttach
  <2>2. IsPartial(sess', Sid, Name)
    BY <1>1, <2>1, PartialWith DEF IInv, RegistryType, SessType
  <2>3. DOMAIN sess' = DOMAIN sess \cup {s}
    BY <2>1 DEF With
  <2> QED BY <2>1, <2>2, <2>3 DEF IInv, RegistryType, SessType
<1>6. IsPartial(plan', Name, Sid)
  BY PartialWithout DEF IInv, RegistryType, ReadoptAttach
<1> QED BY <1>2, <1>4, <1>5, <1>6 DEF IInv, RegistryType, MetaType, ReadoptAttach

LEMMA ReadoptRefusedOK ==
    ASSUME IInv, NEW n \in Name, ReadoptRefused(n)
    PROVE  IInv'
<1>1. StoreOK' /\ PaneType'
  BY SameStore DEF IInv, PaneType, tmux, ReadoptRefused
<1>2. IsPartial(plan', Name, Sid)
  BY PartialWithout DEF IInv, RegistryType, ReadoptRefused
<1> QED
  BY <1>1, <1>2 DEF IInv, RegistryType, SessType, MetaType, registry, ReadoptRefused

LEMMA StepOK == IInv /\ [Next]_vars => IInv'
<1> SUFFICES ASSUME IInv, [Next]_vars PROVE IInv'
  OBVIOUS
<1>1. CASE UNCHANGED vars
  BY <1>1, SameStore
  DEF vars, tmux, registry, IInv, RegistryType, SessType, MetaType, PaneType
<1>2. ASSUME NEW n \in Name, ExternalPane(n) \/ KillOutside(n) \/ AgentExits(n) PROVE IInv'
  BY <1>2, OutsideOK
<1>3. ASSUME NEW n \in Name, NEW s \in SesId, Create(s, n) \/ CreateFails(s, n) PROVE IInv'
  BY <1>3, CreateOK, CreateFailsOK
<1>4. ASSUME NEW n \in Name, Respawn(n) \/ Adopt(n) \/ DestroyExternal(n) PROVE IInv'
  BY <1>4, RespawnOK, AdoptOK, DestroyExternalOK
<1>5. ASSUME NEW n \in Name, ReadoptAttach(n) \/ ReadoptRefused(n) PROVE IInv'
  BY <1>5, ReadoptAttachOK, ReadoptRefusedOK
<1>6. ASSUME NEW c \in Cred, HookRecovered(c) PROVE IInv'
  BY <1>6, HookRecoveredOK
<1>7. ASSUME NEW s \in Sid, Detach(s) \/ Destroy(s) PROVE IInv'
  BY <1>7, DetachOK, DestroyOK
<1>8. CASE Restart
  BY <1>8, RestartOK
<1>9. CASE Reconcile
  BY <1>9, ReconcileOK
<1> QED BY <1>1, <1>2, <1>3, <1>4, <1>5, <1>6, <1>7, <1>8, <1>9 DEF Next

\* The state is well typed in every reachable state, whatever writes fail.
THEOREM TypeCorrect == Spec => []TypeOK
<1>1. IInv => TypeOK
  BY DEF IInv, StoreOK, StoreType, RegistryType, SessType, MetaType, PaneType, TypeOK
<1> QED BY <1>1, InitOK, StepOK, PTL DEF Spec

\* Every token in force or recoverable belongs to the id it is accepted for,
\* whatever writes fail: mints, recoveries, collections and restarts never let
\* one pane's credential pass for another's.
THEOREM OneIdOneCredential == Spec => []TokensAreOwn
<1>1. IInv => TokensAreOwn
  BY DEF IInv, StoreOK
<1> QED BY <1>1, InitOK, StepOK, PTL DEF Spec
-----------------------------------------------------------------------------
(* The agent of an owned pane stays heard, unless the server stops before any *)
(* write has saved its token.  Every step but a restart keeps the tokens and  *)
(* the bindings of the created ids (StoreKept), and gives a pane or a         *)
(* registration only what it had or what the id of that very pane has         *)
(* (PanesKept).                                                               *)

StoreKept ==
    /\ FileAgrees'
    /\ NothingSuperseded'
    /\ \A s \in SesId : s \in DOMAIN tok => s \in DOMAIN tok' /\ tok'[s] = tok[s]
    /\ \A s \in SesId : s \in DOMAIN bound => s \in DOMAIN bound' /\ bound'[s] = bound[s]
    /\ \A s \in SesId : s \in DOMAIN bound' /\ s \notin DOMAIN bound => ~Used(s)
    /\ \A s \in SesId : Used(s) => Used(s)'
    /\ \A s \in SesId : s \in DOMAIN file'.bound =>
          \/ s \in DOMAIN file.bound /\ file'.bound[s] = file.bound[s]
          \/ s \in DOMAIN bound' /\ file'.bound[s] = bound'[s]
    /\ forgotten' = forgotten

BoundNext(s, n) ==
    /\ s \in DOMAIN bound' => bound'[s] = n
    /\ s \in DOMAIN file'.bound => file'.bound[s] = n

Settled(s, n) == s \in SesId => MintedFor(minted', s) /\ BoundNext(s, n)

HoldsNext(n, c) ==
    /\ Settled(c.sid, n)
    /\ c.sid \in SesId => (c.sid \in DOMAIN tok' /\ tok'[c.sid] = c.tok) \/ c.tok \in forgotten'

Was(n, c) ==
    /\ n \in DOMAIN pane /\ n \in owned \cup meta.owned
    /\ c = pane[n].env \/ c = pane[n].proc

PanesKept ==
    /\ \A s \in DOMAIN sess' :
          (s \in DOMAIN sess /\ sess'[s] = sess[s]) \/ Settled(s, sess'[s])
    /\ \/ meta'.sid = meta.sid /\ meta'.name = meta.name
       \/ meta'.sid = NoSid
       \/ meta'.sid \in DOMAIN sess' /\ meta'.name = sess'[meta'.sid]
    /\ \A n \in DOMAIN plan' :
          \/ n \in DOMAIN plan /\ plan'[n] = plan[n]
          \/ plan'[n] \in SesId => plan'[n] \in DOMAIN bound' /\ bound'[plan'[n]] = n
    /\ \A n \in DOMAIN pane' : n \in owned' \cup meta'.owned =>
          /\ Was(n, pane'[n].env) \/ HoldsNext(n, pane'[n].env)
          /\ Was(n, pane'[n].proc) \/ HoldsNext(n, pane'[n].proc)

LEMMA TokenUsed ==
    ASSUME TokensAreOwn, NEW s \in SesId, s \in DOMAIN tok
    PROVE  Used(s)
BY Constants DEF TokensAreOwn, Used, MintedFor

LEMMA SettledKept ==
    ASSUME StoreKept, NEW s, NEW n, s \in SesId => Used(s) /\ BoundOn(s, n)
    PROVE  Settled(s, n)
BY DEF StoreKept, Settled, BoundNext, BoundOn, Used

LEMMA HeardKept ==
    ASSUME HeardInv, IInv', StoreKept, PanesKept
    PROVE  HeardInv'
<1>1. ASSUME NEW n, NEW c, Holds(n, c) PROVE HoldsNext(n, c)
  <2>1. CASE c.sid \in SesId
    <3>1. Used(c.sid) /\ BoundOn(c.sid, n) /\ (Validates(c) \/ c.tok \in forgotten)
      BY <1>1, <2>1 DEF Holds
    <3>2. Settled(c.sid, n)
      BY <3>1, SettledKept
    <3> QED BY <2>1, <3>1, <3>2 DEF StoreKept, HoldsNext, Validates
  <2>2. CASE c.sid \notin SesId
    BY <2>2 DEF HoldsNext, Settled
  <2> QED BY <2>1, <2>2
<1>2. \A n, c : Was(n, c) => Holds(n, c)
  BY DEF Was, HeardInv, OwnedPanesHold
<1>3. \A s \in DOMAIN sess' : Settled(s, sess'[s])
  <2>1. \A s \in DOMAIN sess : Settled(s, sess[s])
    BY SettledKept DEF HeardInv, KnownIdsUsed, BoundToItsPane
  <2> QED BY <2>1 DEF PanesKept
<1>4. meta'.sid \in SesId => Settled(meta'.sid, meta'.name)
  <2>1. CASE meta'.sid = meta.sid /\ meta'.name = meta.name
    BY <2>1, SettledKept DEF HeardInv, KnownIdsUsed, BoundToItsPane
  <2>2. CASE meta'.sid = NoSid
    BY <2>2, Constants
  <2>3. CASE meta'.sid \in DOMAIN sess' /\ meta'.name = sess'[meta'.sid]
    BY <1>3, <2>3
  <2> QED BY <2>1, <2>2, <2>3 DEF PanesKept
<1>5. KnownIdsUsed'
  BY <1>3, <1>4 DEF KnownIdsUsed, Settled, Used
<1>6. BoundToItsPane'
  <2>1. \A n \in DOMAIN plan' :
            plan'[n] \in SesId => plan'[n] \in DOMAIN bound' /\ bound'[plan'[n]] = n
    BY DEF PanesKept, HeardInv, BoundToItsPane, StoreKept
  <2> QED BY <1>3, <1>4, <2>1 DEF BoundToItsPane, Settled, BoundNext, BoundOn
<1>7. OwnedPanesHold'
  <2>1. \A n, c : HoldsNext(n, c) => Holds(n, c)'
    BY DEF HoldsNext, Settled, BoundNext, Holds, BoundOn, Used, Validates
  <2> QED BY <1>1, <1>2, <2>1 DEF PanesKept, OwnedPanesHold
<1> QED BY <1>5, <1>6, <1>7 DEF HeardInv, StoreKept

LEMMA SameStoreKept ==
    ASSUME HeardInv, UNCHANGED store
    PROVE  StoreKept
BY DEF HeardInv, StoreKept, FileAgrees, NothingSuperseded, Used, MintedFor, store

\* A created id is minted for only while it has no token.
LEMMA MintKept ==
    ASSUME HeardInv, NEW s \in Sid, NEW name \in Name \cup {NoName}, Mint(s, name),
           s \in SesId => s \notin DOMAIN tok,
           s \in SesId /\ name # NoName => ~Used(s)
    PROVE  StoreKept /\ (s \in SesId => Used(s)')
<1>1. StoreType /\ TokensAreOwn
  BY DEF HeardInv, IInv, StoreOK
<1>2. Persist({s})
  BY DEF Mint
<1>3. /\ \/ file' = file /\ unsaved' = unsaved \cup {s}
         \/ file'.tok = tok' /\ file'.bound = bound' /\ unsaved' = {}
      /\ forgotten' = forgotten
  BY <1>2, PersistFacts
<1>11. /\ DOMAIN tok' = DOMAIN tok \cup {s}
       /\ \A x \in DOMAIN tok : x # s => tok'[x] = tok[x]
  BY <1>1, MintedFacts
<1>12. \A x \in SesId : x \in DOMAIN file.bound => Used(x)
  BY Constants DEF HeardInv, IInv, StoreOK, OwnFile, Used, MintedFor
<1>5. NothingSuperseded'
  BY <1>1, Constants DEF NothingSuperseded, HeardInv, Mint, Remembered, StoreType
<1>6. \A x \in SesId : x \in DOMAIN tok => x \in DOMAIN tok' /\ tok'[x] = tok[x]
  BY <1>1, MintedFacts
<1>7. DOMAIN bound \subseteq DOMAIN tok
  BY DEF HeardInv, IInv, StoreOK
<1>8. /\ \A x \in SesId : x \in DOMAIN bound => x \in DOMAIN bound' /\ bound'[x] = bound[x]
      /\ \A x \in SesId : x \in DOMAIN bound' /\ x \notin DOMAIN bound => ~Used(x)
  <2>1. CASE name = NoName
    BY <1>1, <2>1, MintedFacts
  <2>2. CASE name # NoName
    <3>1. /\ DOMAIN bound' = DOMAIN bound \cup {s}
          /\ \A x \in DOMAIN bound : x # s => bound'[x] = bound[x]
      BY <1>1, <2>2, MintedFacts
    <3>2. s \in SesId => s \notin DOMAIN bound /\ ~Used(s)
      BY <1>7, <2>2
    <3> QED BY <3>1, <3>2
  <2> QED BY <2>1, <2>2
<1>4. FileAgrees'
  <2>1. CASE file' = file /\ unsaved' = unsaved \cup {s}
    <3>1. \A x \in DOMAIN tok' \ unsaved' : x \in DOMAIN file'.tok /\ file'.tok[x] = tok'[x]
      BY <1>11, <2>1 DEF HeardInv, FileAgrees
    <3>2. \A x \in SesId :
              x \in DOMAIN bound' /\ x \in DOMAIN file'.bound => file'.bound[x] = bound'[x]
      BY <1>8, <1>12, <2>1 DEF HeardInv, FileAgrees
    <3> QED BY <3>1, <3>2 DEF FileAgrees
  <2>2. CASE file'.tok = tok' /\ file'.bound = bound'
    BY <2>2 DEF FileAgrees
  <2> QED BY <1>3, <2>1, <2>2
<1>13. \A x \in SesId : x \in DOMAIN file'.bound =>
           \/ x \in DOMAIN file.bound /\ file'.bound[x] = file.bound[x]
           \/ x \in DOMAIN bound' /\ file'.bound[x] = bound'[x]
  BY <1>3
<1>9. \A x \in SesId : Used(x) => Used(x)'
  <2>1. \A k \in DOMAIN minted : k \in DOMAIN minted' /\ minted'[k] = minted[k]
    BY <1>1, MintedFacts
  <2> QED BY <2>1 DEF Used, MintedFor
<1>10. Used(s)'
  BY <1>1, MintedFacts DEF Used, MintedFor
<1> QED BY <1>3, <1>4, <1>5, <1>6, <1>8, <1>9, <1>10, <1>13 DEF StoreKept

LEMMA EnvForKept ==
    ASSUME HeardInv, NEW s \in Sid, EnvFor(s)
    PROVE  StoreKept
<1>1. CASE s \in DOMAIN tok
  BY <1>1, SameStoreKept DEF EnvFor
<1>2. CASE s \notin DOMAIN tok
  BY <1>2, MintKept DEF EnvFor
<1> QED BY <1>1, <1>2

\* A bound id, or one nobody created, is bound again to the same pane.
LEMMA BindKept ==
    ASSUME HeardInv, NEW s \in Sid, NEW name \in Name,
           bound' = With(bound, s, name), UNCHANGED <<tok, ring, minted>>,
           s \in SesId => s \in DOMAIN bound /\ bound[s] = name,
           \/ file' = file /\ unsaved' = unsaved
           \/ file'.tok = tok' /\ file'.bound = bound',
           forgotten' = forgotten
    PROVE  StoreKept
<1>1. \A x \in SesId : /\ x \in DOMAIN bound' <=> x \in DOMAIN bound
                       /\ x \in DOMAIN bound => bound'[x] = bound[x]
  BY DEF With
<1>2. FileAgrees'
  BY <1>1 DEF HeardInv, FileAgrees
<1> QED BY <1>1, <1>2 DEF HeardInv, StoreKept, NothingSuperseded, Used

LEMMA SavedFacts ==
    ASSUME SessType', SaveMetadata
    PROVE  \/ meta' = meta
           \/ /\ meta'.sid \in DOMAIN sess' /\ meta'.name = sess'[meta'.sid]
              /\ meta'.owned = owned'
BY DEF SaveMetadata, SessType

LEMMA RepointFacts ==
    ASSUME SessType', NEW s, Repoint(s)
    PROVE  \/ meta' = meta
           \/ meta'.sid = NoSid /\ meta'.owned = {}
           \/ /\ meta'.sid \in DOMAIN sess' /\ meta'.name = sess'[meta'.sid]
              /\ meta'.owned = owned'
BY SavedFacts DEF Repoint, Absent

\* Steps that give no pane and no registration anything.
LEMMA FewerKept ==
    ASSUME \A s \in DOMAIN sess' : s \in DOMAIN sess /\ sess'[s] = sess[s],
           \/ meta' = meta
           \/ meta'.sid = NoSid /\ meta'.owned \subseteq owned'
           \/ /\ meta'.sid \in DOMAIN sess' /\ meta'.name = sess'[meta'.sid]
              /\ meta'.owned = owned',
           owned' \subseteq owned,
           \A n \in DOMAIN plan' : \/ n \in DOMAIN plan /\ plan'[n] = plan[n]
                                   \/ plan'[n] \in SesId => plan'[n] \in DOMAIN bound'
                                                            /\ bound'[plan'[n]] = n,
           \A n \in DOMAIN pane' : /\ n \in DOMAIN pane
                                   /\ pane'[n].env = pane[n].env /\ pane'[n].proc = pane[n].proc
    PROVE  PanesKept
BY DEF PanesKept, Was

LEMMA OutsideHeard ==
    ASSUME HeardInv, NEW n \in Name, ExternalPane(n) \/ KillOutside(n) \/ AgentExits(n)
    PROVE  StoreKept /\ PanesKept
<1>1. StoreKept
  BY SameStoreKept DEF ExternalPane, KillOutside, AgentExits
<1>2. UNCHANGED <<sess, owned, plan, meta>>
  BY DEF ExternalPane, KillOutside, AgentExits, registry
<1>3. CASE ExternalPane(n)
  <2>1. pane' = With(pane, n, [env |-> NoCred, proc |-> NoCred, up |-> TRUE, row |-> FALSE])
    BY <1>3 DEF ExternalPane
  <2>2. /\ DOMAIN pane' = DOMAIN pane \cup {n}
        /\ pane'[n].env = NoCred /\ pane'[n].proc = NoCred
        /\ \A m \in DOMAIN pane : m # n => pane'[m] = pane[m]
    BY <2>1 DEF With
  <2>3. NoCred.sid \notin SesId
    BY Constants DEF NoCred
  <2>4. HoldsNext(n, NoCred)
    BY <2>3 DEF HoldsNext, Settled
  <2> QED BY <1>1, <1>2, <2>2, <2>4 DEF PanesKept, Was
<1>4. CASE KillOutside(n)
  <2>1. \A m \in DOMAIN pane' : m \in DOMAIN pane /\ pane'[m] = pane[m]
    BY <1>4 DEF KillOutside, Without
  <2> QED BY <1>1, <1>2, <2>1, FewerKept
<1>5. CASE AgentExits(n)
  <2>1. \A m \in DOMAIN pane' : /\ m \in DOMAIN pane
                                /\ pane'[m].env = pane[m].env /\ pane'[m].proc = pane[m].proc
    BY <1>5, PaneFacts DEF AgentExits, HeardInv, IInv, Pane
  <2> QED BY <1>1, <1>2, <2>1, FewerKept
<1> QED BY <1>3, <1>4, <1>5

LEMMA HookRecoveredHeard ==
    ASSUME HeardInv, NEW c \in Cred, HookRecovered(c)
    PROVE  StoreKept /\ PanesKept
<1>1. c.sid \in DOMAIN bound /\ ring[c.sid] # <<>>
  BY DEF HookRecovered, Recoverable
<1>2. c.sid \notin SesId
  BY <1>1 DEF HeardInv, NothingSuperseded
<1>3. /\ tok' = With(tok, c.sid, c.tok) /\ ring' = [ring EXCEPT ![c.sid] = Forget(ring[c.sid], c.tok)]
      /\ UNCHANGED <<bound, minted>> /\ Persist({c.sid})
  BY DEF HookRecovered, Consumed
<1>4. /\ \A s \in SesId : s \in DOMAIN tok => s \in DOMAIN tok' /\ tok'[s] = tok[s]
  BY <1>2, <1>3 DEF With
<1>5. NothingSuperseded'
  BY <1>2, <1>3, Constants DEF HeardInv, IInv, StoreOK, StoreType, NothingSuperseded
<1>6. /\ \/ file' = file /\ unsaved' = unsaved \cup {c.sid}
         \/ file'.tok = tok' /\ file'.bound = bound'
      /\ forgotten' = forgotten
  BY <1>3, PersistFacts
<1>9. DOMAIN tok' = DOMAIN tok \cup {c.sid} /\ \A s \in DOMAIN tok : s # c.sid => tok'[s] = tok[s]
  BY <1>3 DEF With
<1>10. FileAgrees'
  BY <1>3, <1>6, <1>9 DEF FileAgrees, HeardInv
<1>7. StoreKept
  BY <1>3, <1>4, <1>5, <1>6, <1>10 DEF StoreKept, Used
<1>8. UNCHANGED <<pane, sess, owned, plan, meta>>
  BY DEF HookRecovered, tmux, registry
<1> QED BY <1>7, <1>8, FewerKept

LEMMA CreateHeard ==
    ASSUME HeardInv, IInv', NEW s \in SesId, NEW n \in Name, Create(s, n)
    PROVE  StoreKept /\ PanesKept
<1>1. s \in Sid /\ Mint(s, n) /\ ~Used(s) /\ n \notin DOMAIN pane
  BY Constants DEF Create, Used, MintedFor
<1>2. s \notin DOMAIN tok
  BY <1>1, TokenUsed DEF HeardInv, IInv, StoreOK
<1>3. StoreKept /\ Used(s)'
  BY <1>1, <1>2, MintKept
<1>4. s \in DOMAIN tok' /\ s \in DOMAIN bound' /\ bound'[s] = n
  <2>1. tok' = With(tok, s, NextToken) /\ bound' = With(bound, s, n)
    BY <1>1, Constants DEF Mint
  <2> QED BY <2>1 DEF With
<1>5. /\ s \in DOMAIN sess' /\ sess'[s] = n
      /\ \A x \in DOMAIN sess' : x # s => x \in DOMAIN sess /\ sess'[x] = sess[x]
  BY DEF Create, Register, With, Without
<1>6. Settled(s, n)
  BY <1>3, <1>4 DEF Settled, BoundNext, Used, StoreKept, FileAgrees
<1>7. \/ meta' = meta
      \/ /\ meta'.sid \in DOMAIN sess' /\ meta'.name = sess'[meta'.sid]
         /\ meta'.owned = owned'
  BY SavedFacts DEF Create, IInv, RegistryType
<1>8. plan' = plan /\ owned' = owned \cup {n}
  BY DEF Create
<1>9. /\ DOMAIN pane' = DOMAIN pane \cup {n}
      /\ pane'[n].env = CredOf(s) /\ pane'[n].proc = CredOf(s)
      /\ \A m \in DOMAIN pane : m # n => pane'[m] = pane[m]
  BY DEF Create, With
<1>10. HoldsNext(n, CredOf(s))
  BY <1>4, <1>6 DEF HoldsNext, CredOf
<1>11. \A m \in DOMAIN pane' : m \in owned' \cup meta'.owned =>
          /\ Was(m, pane'[m].env) \/ HoldsNext(m, pane'[m].env)
          /\ Was(m, pane'[m].proc) \/ HoldsNext(m, pane'[m].proc)
  BY <1>1, <1>7, <1>8, <1>9, <1>10 DEF Was
<1> QED BY <1>3, <1>5, <1>6, <1>7, <1>8, <1>11 DEF PanesKept

LEMMA CreateFailsHeard ==
    ASSUME HeardInv, NEW s \in SesId, NEW n \in Name, CreateFails(s, n)
    PROVE  StoreKept /\ PanesKept
<1>1. s \in Sid /\ Mint(s, n) /\ ~Used(s)
  BY Constants DEF CreateFails, Used, MintedFor
<1>2. s \notin DOMAIN tok
  BY <1>1, TokenUsed DEF HeardInv, IInv, StoreOK
<1>3. StoreKept
  BY <1>1, <1>2, MintKept
<1>4. UNCHANGED <<pane, sess, owned, plan, meta>>
  BY DEF CreateFails, tmux, registry
<1> QED BY <1>3, <1>4, FewerKept

LEMMA RespawnHeard ==
    ASSUME HeardInv, NEW n \in Name, Respawn(n)
    PROVE  StoreKept /\ PanesKept
<1>1. n \in DOMAIN pane /\ UNCHANGED <<sess, owned, plan, meta>>
  BY DEF Respawn, registry
<1>2. pane[n] \in Pane
  BY <1>1, PaneFacts DEF HeardInv, IInv
<1>3. ASSUME NEW s \in RegisteredOn(n), EnvFor(s),
             pane' = [pane EXCEPT ![n].env = CredOf(s), ![n].proc = CredOf(s), ![n].up = TRUE]
      PROVE  StoreKept /\ PanesKept
  <2>1. s \in Sid /\ s \in DOMAIN sess /\ sess[s] = n
    BY DEF RegisteredOn, HeardInv, IInv, RegistryType, SessType, IsPartial
  <2>2. StoreKept /\ s \in DOMAIN tok'
    BY <1>3, <2>1, EnvForKept, EnvForOK DEF HeardInv, IInv
  <2>3. HoldsNext(n, CredOf(s))
    <3>1. Settled(s, n)
      BY <2>1, <2>2, SettledKept DEF HeardInv, KnownIdsUsed, BoundToItsPane
    <3> QED BY <2>2, <3>1 DEF HoldsNext, CredOf
  <2>4. /\ DOMAIN pane' = DOMAIN pane
        /\ pane'[n].env = CredOf(s) /\ pane'[n].proc = CredOf(s)
        /\ \A m \in DOMAIN pane : m # n => pane'[m] = pane[m]
    BY <1>1, <1>2, <1>3 DEF Pane
  <2> QED BY <1>1, <2>2, <2>3, <2>4 DEF PanesKept, Was
<1>4. ASSUME pane' = [pane EXCEPT ![n].proc = pane[n].env, ![n].up = TRUE], UNCHANGED store
      PROVE  StoreKept /\ PanesKept
  <2>1. StoreKept
    BY <1>4, SameStoreKept
  <2>2. /\ DOMAIN pane' = DOMAIN pane
        /\ pane'[n].env = pane[n].env /\ pane'[n].proc = pane[n].env
        /\ \A m \in DOMAIN pane : m # n => pane'[m] = pane[m]
    BY <1>1, <1>2, <1>4 DEF Pane
  <2> QED BY <1>1, <2>1, <2>2 DEF PanesKept, Was
<1> QED BY <1>3, <1>4 DEF Respawn

LEMMA AdoptHeard ==
    ASSUME HeardInv, IInv', NEW n \in Name, Adopt(n)
    PROVE  StoreKept /\ PanesKept
<1> PICK known \in BOOLEAN, s \in Ladder(n) \cup {Adopted(n)} :
        LET stale == RegisteredOn(n) \cup ({s} \cap backed)
            row == known \/ pane[n].row
        IN  /\ s \in (IF known THEN Ladder(n) ELSE {Adopted(n)})
            /\ \/ /\ pane[n].up
                  /\ Register(s, n, stale)
                  /\ Credential(s, n, known /\ Recovered(n))
                  /\ pane' = [pane EXCEPT ![n].env = CredOf(s), ![n].row = row]
                  /\ SaveMetadata
               \/ /\ ~pane[n].up
                  /\ Wipe(stale)
                  /\ pane' = [pane EXCEPT ![n].row = row]
                  /\ UNCHANGED <<store, meta>>
  BY DEF Adopt
<1> DEFINE stale == RegisteredOn(n) \cup ({s} \cap backed)
           row == known \/ pane[n].row
<1>1. n \in DOMAIN pane /\ UNCHANGED <<owned, plan>>
  BY DEF Adopt
<1>2. pane[n] \in Pane
  BY <1>1, PaneFacts DEF HeardInv, IInv
<1>3. /\ s \in Sid
      /\ s \in SesId => known /\ s \in DOMAIN bound /\ bound[s] = n /\ s \in DOMAIN tok
  <2>1. DOMAIN bound \subseteq DOMAIN tok
    BY DEF HeardInv, IInv, StoreOK
  <2>2. s \in (IF known THEN Ladder(n) ELSE {Adopted(n)})
    OBVIOUS
  <2> QED BY <2>1, <2>2, LadderType, Constants DEF HeardInv, IInv
<1>4. s \in SesId => Used(s)
  BY <1>3, TokenUsed DEF HeardInv, IInv, StoreOK
<1> HIDE DEF stale, row
<1>5. CASE /\ Register(s, n, stale)
           /\ Credential(s, n, known /\ Recovered(n))
           /\ pane' = [pane EXCEPT ![n].env = CredOf(s), ![n].row = row]
           /\ SaveMetadata
  <2>1. StoreKept /\ s \in DOMAIN tok'
    <3>1. CASE s \in DOMAIN tok /\ Keep(s, n)
      <4>1. Persist({})
        BY <3>1 DEF Keep
      <4>2. /\ \/ file' = file /\ unsaved' = unsaved
               \/ file'.tok = tok' /\ file'.bound = bound'
            /\ forgotten' = forgotten
        BY <4>1, PersistFacts
      <4> QED BY <1>3, <3>1, <4>2, BindKept DEF Keep
    <3>2. CASE s \notin SesId /\ Mint(s, n)
      BY <1>3, <3>2, MintKept, MintedFacts DEF HeardInv, IInv, StoreOK
    <3>3. s \in SesId => Recovered(n)
      BY <1>3 DEF Recovered
    <3> QED BY <1>3, <1>5, <3>1, <3>2, <3>3 DEF Credential
  <2>2. s \in SesId => s \in DOMAIN bound' /\ bound'[s] = n /\ Used(s)'
    BY <1>3, <1>4, <2>1 DEF StoreKept
  <2>3. HoldsNext(n, CredOf(s)) /\ Settled(s, n)
    BY <2>1, <2>2 DEF HoldsNext, CredOf, Settled, BoundNext, Used, StoreKept, FileAgrees
  <2>4. /\ DOMAIN pane' = DOMAIN pane
        /\ pane'[n].env = CredOf(s) /\ pane'[n].proc = pane[n].proc
        /\ \A m \in DOMAIN pane : m # n => pane'[m] = pane[m]
    BY <1>1, <1>2, <1>5 DEF Pane
  <2>5. /\ s \in DOMAIN sess' /\ sess'[s] = n
        /\ \A x \in DOMAIN sess' : x # s => x \in DOMAIN sess /\ sess'[x] = sess[x]
    BY <1>5 DEF Register, With, Without
  <2>6. \/ meta' = meta
        \/ /\ meta'.sid \in DOMAIN sess' /\ meta'.name = sess'[meta'.sid]
           /\ meta'.owned = owned'
    BY <1>5, SavedFacts DEF IInv, RegistryType
  <2> QED BY <1>1, <2>1, <2>3, <2>4, <2>5, <2>6 DEF PanesKept, Was
<1>6. CASE /\ Wipe(stale)
           /\ pane' = [pane EXCEPT ![n].row = row]
           /\ UNCHANGED <<store, meta>>
  <2>1. StoreKept
    BY <1>6, SameStoreKept
  <2>2. \A x \in DOMAIN sess' : x \in DOMAIN sess /\ sess'[x] = sess[x]
    BY <1>6 DEF Wipe, Without
  <2>3. \A m \in DOMAIN pane' : /\ m \in DOMAIN pane
                                /\ pane'[m].env = pane[m].env /\ pane'[m].proc = pane[m].proc
    BY <1>1, <1>2, <1>6 DEF Pane
  <2> QED BY <1>1, <1>6, <2>1, <2>2, <2>3, FewerKept
<1> QED BY <1>5, <1>6 DEF stale, row

LEMMA EndHeard ==
    ASSUME HeardInv, IInv', NEW s \in Sid, Detach(s) \/ Destroy(s)
    PROVE  StoreKept /\ PanesKept
<1>1. StoreKept
  BY SameStoreKept DEF Detach, Destroy
<1>2. \A x \in DOMAIN sess' : x \in DOMAIN sess /\ sess'[x] = sess[x]
  BY DEF Detach, Destroy, Wipe, Without
<1>3. \A m \in DOMAIN pane' : m \in DOMAIN pane /\ pane'[m] = pane[m]
  BY DEF Detach, Destroy, Without, tmux
<1>4. owned' \subseteq owned /\ plan' = plan
  BY DEF Detach, Destroy
<1>5. \/ meta' = meta
      \/ meta'.sid = NoSid /\ meta'.owned = {}
      \/ /\ meta'.sid \in DOMAIN sess' /\ meta'.name = sess'[meta'.sid]
         /\ meta'.owned = owned'
  BY RepointFacts DEF Detach, Destroy, IInv, RegistryType
<1> QED BY <1>1, <1>2, <1>3, <1>4, <1>5, FewerKept

LEMMA DestroyExternalHeard ==
    ASSUME HeardInv, IInv', NEW n \in Name, DestroyExternal(n)
    PROVE  StoreKept /\ PanesKept
<1>1. StoreKept
  BY SameStoreKept DEF DestroyExternal
<1>2. sess' = sess /\ owned' \subseteq owned /\ plan' = plan
  BY DEF DestroyExternal, registry
<1>3. \A m \in DOMAIN pane' : m \in DOMAIN pane /\ pane'[m] = pane[m]
  BY DEF DestroyExternal, Without
<1>4. \/ meta' = meta
      \/ /\ meta'.sid \in DOMAIN sess' /\ meta'.name = sess'[meta'.sid]
         /\ meta'.owned = owned'
  BY SavedFacts DEF DestroyExternal, IInv, RegistryType
<1> QED BY <1>1, <1>2, <1>3, <1>4, FewerKept

LEMMA ReconcileHeard ==
    ASSUME HeardInv, IInv', Reconcile
    PROVE  StoreKept /\ PanesKept
<1>1. UNCHANGED store /\ UNCHANGED pane
  BY DEF Reconcile, tmux
<1>2. StoreKept
  BY <1>1, SameStoreKept
<1>3. /\ owned' \subseteq owned
      /\ \A x \in DOMAIN sess' : x \in DOMAIN sess /\ sess'[x] = sess[x]
  BY ReconciledFacts DEF HeardInv, Without
<1>4. \/ meta' = meta
      \/ meta'.sid = NoSid /\ meta'.owned \subseteq owned'
      \/ /\ meta'.sid \in DOMAIN sess' /\ meta'.name = sess'[meta'.sid]
         /\ meta'.owned = owned'
  BY ReconciledFacts, SavedFacts DEF HeardInv, IInv, RegistryType, Absent
<1>5. \A n \in DOMAIN plan' :
          plan'[n] \in SesId => plan'[n] \in DOMAIN bound' /\ bound'[plan'[n]] = n
  <2>1. CASE plan' = Nothing
    BY <2>1, PartialNothing
  <2>2. CASE plan' \in Plans({sess'[s] : s \in backed'}, DOMAIN sess')
    <3>1. bound' = bound /\ StoreOK /\ PaneType
      BY <1>1 DEF store, HeardInv, IInv
    <3>2. \A n \in DOMAIN plan' : n \in Name /\ plan'[n] \in Ladder(n)
      BY <2>2, <3>1, PlansType DEF PaneType, IsPartial
    <3> QED BY <3>1, <3>2, LadderType
  <2> QED BY <2>1, <2>2, ReconciledFacts DEF HeardInv
<1> QED BY <1>1, <1>2, <1>3, <1>4, <1>5, FewerKept

LEMMA ReadoptAttachHeard ==
    ASSUME HeardInv, NEW n \in Name, ReadoptAttach(n)
    PROVE  StoreKept /\ PanesKept
<1> DEFINE s == plan[n]
<1>1. /\ n \in DOMAIN plan /\ n \in DOMAIN pane /\ s \in Sid
      /\ Get(bound, s, n) \in Name
  BY DEF ReadoptAttach, HeardInv, IInv, RegistryType, IsPartial, Get, StoreOK, StoreType
<1>2. s \in SesId => s \in DOMAIN bound /\ bound[s] = n /\ s \in DOMAIN tok /\ Used(s)
  BY <1>1, TokenUsed DEF HeardInv, BoundToItsPane, IInv, StoreOK
<1>3. StoreKept /\ s \in DOMAIN tok'
  <2>1. CASE s \in DOMAIN tok
    <3>1. /\ bound' = With(bound, s, Get(bound, s, n))
          /\ UNCHANGED <<tok, ring, file, minted, unsaved, forgotten>>
      BY <2>1 DEF ReadoptAttach
    <3>2. s \in SesId => Get(bound, s, n) = bound[s]
      BY <1>2 DEF Get
    <3> QED BY <1>1, <1>2, <2>1, <3>1, <3>2, BindKept
  <2>2. CASE s \notin DOMAIN tok
    <3>1. Mint(s, Get(bound, s, n)) /\ s \notin SesId
      BY <1>2, <2>2 DEF ReadoptAttach
    <3> QED BY <1>1, <3>1, MintKept, MintedFacts DEF HeardInv, IInv, StoreOK
  <2> QED BY <2>1, <2>2
<1>4. s \in SesId => s \in DOMAIN bound' /\ bound'[s] = n /\ MintedFor(minted', s)
  BY <1>2, <1>3 DEF StoreKept, Used
<1>5. HoldsNext(n, CredOf(s)) /\ Settled(s, n)
  BY <1>3, <1>4 DEF HoldsNext, CredOf, Settled, BoundNext, Used, StoreKept, FileAgrees
<1>6. pane[n] \in Pane /\ pane' = [pane EXCEPT ![n].env = CredOf(s)]
  BY <1>1, PaneFacts DEF HeardInv, IInv, ReadoptAttach
<1>7. /\ DOMAIN pane' = DOMAIN pane
      /\ pane'[n].env = CredOf(s) /\ pane'[n].proc = pane[n].proc
      /\ \A m \in DOMAIN pane : m # n => pane'[m] = pane[m]
  BY <1>1, <1>6 DEF Pane
<1>8. /\ sess'[s] = n
      /\ \A x \in DOMAIN sess' : x # s => x \in DOMAIN sess /\ sess'[x] = sess[x]
  BY DEF ReadoptAttach, With
<1>9. UNCHANGED <<owned, meta>> /\ \A m \in DOMAIN plan' : m \in DOMAIN plan /\ plan'[m] = plan[m]
  BY DEF ReadoptAttach, Without
<1> HIDE DEF s
<1> QED BY <1>1, <1>3, <1>5, <1>7, <1>8, <1>9 DEF PanesKept, Was

LEMMA ReadoptRefusedHeard ==
    ASSUME HeardInv, NEW n \in Name, ReadoptRefused(n)
    PROVE  StoreKept /\ PanesKept
<1>1. StoreKept
  BY SameStoreKept DEF ReadoptRefused
<1>2. /\ UNCHANGED <<pane, sess, owned, meta>>
      /\ \A m \in DOMAIN plan' : m \in DOMAIN plan /\ plan'[m] = plan[m]
  BY DEF ReadoptRefused, tmux, registry, Without
<1> QED BY <1>1, <1>2, FewerKept

\* The collection at start drops no token that an owned pane holds: such a
\* token is bound to the pane's own name, which is owned.
LEMMA RestartHeard ==
    ASSUME HeardInv, IInv', Restart
    PROVE  HeardInv'
<1>1. /\ tok' = Without(file.tok, Collected) /\ bound' = Without(file.bound, Collected)
      /\ ring' = [s \in Sid |-> <<>>] /\ owned' = meta.owned /\ plan' = Nothing
      /\ sess' = Rehydrated /\ UNCHANGED <<pane, meta, minted>>
  BY DEF Restart, tmux
<1>2. /\ (file'.tok = tok' /\ file'.bound = bound') \/ file' = file
      /\ forgotten' = forgotten \cup {tok[s] : s \in unsaved}
  <2>1. file' = [tok |-> tok', bound |-> bound'] \/ file' = file
    BY DEF Restart
  <2> QED BY <2>1 DEF Restart
<1>10. /\ \A s \in DOMAIN bound' : s \in DOMAIN file.bound /\ bound'[s] = file.bound[s]
       /\ \A s \in DOMAIN tok' : s \in DOMAIN file.tok /\ tok'[s] = file.tok[s]
       /\ \A s \in DOMAIN file'.bound : s \in DOMAIN file.bound /\ file'.bound[s] = file.bound[s]
  BY <1>1, <1>2 DEF Without
<1>3. FileAgrees' /\ NothingSuperseded'
  BY <1>1, <1>2, <1>10, Constants DEF FileAgrees, NothingSuperseded
<1>4. \A s \in DOMAIN sess' : s = meta.sid /\ sess'[s] = meta.name
  BY <1>1, PartialNothing DEF Rehydrated, With
<1>5. KnownIdsUsed'
  BY <1>1, <1>4 DEF HeardInv, KnownIdsUsed, Used
<1>6. \A n : \A s \in SesId : BoundOn(s, n) => BoundNext(s, n)
  BY <1>10 DEF BoundOn, BoundNext
<1>7. BoundToItsPane'
  BY <1>1, <1>4, <1>6, PartialNothing DEF HeardInv, BoundToItsPane, BoundOn, BoundNext
<1>8. ASSUME NEW n, NEW c, n \in meta.owned, Holds(n, c)
      PROVE  HoldsNext(n, c)
  <2>1. CASE c.sid \in SesId
    <3>1. Used(c.sid) /\ BoundOn(c.sid, n)
      BY <1>8, <2>1 DEF Holds
    <3>2. Settled(c.sid, n)
      BY <1>1, <1>6, <2>1, <3>1 DEF Settled, Used
    <3>3. c.sid \notin Collected
      BY <1>8, <3>1 DEF Collected, BoundOn
    <3>4. CASE c.tok \in forgotten
      BY <1>2, <3>2, <3>4 DEF HoldsNext
    <3>5. CASE Validates(c) /\ c.sid \in unsaved
      BY <1>2, <3>2, <3>5 DEF HoldsNext, Validates
    <3>6. CASE Validates(c) /\ c.sid \notin unsaved
      <4>1. c.sid \in DOMAIN file.tok /\ file.tok[c.sid] = c.tok
        BY <3>6 DEF HeardInv, FileAgrees, Validates
      <4>2. c.sid \in DOMAIN tok' /\ tok'[c.sid] = c.tok
        BY <1>1, <3>3, <4>1 DEF Without
      <4> QED BY <3>2, <4>2 DEF HoldsNext
    <3> QED BY <1>8, <2>1, <3>4, <3>5, <3>6 DEF Holds
  <2>2. CASE c.sid \notin SesId
    BY <2>2 DEF HoldsNext, Settled
  <2> QED BY <2>1, <2>2
<1>9. OwnedPanesHold'
  <2>1. ASSUME NEW n \in DOMAIN pane', n \in owned' \cup meta'.owned
        PROVE  HoldsNext(n, pane'[n].env) /\ HoldsNext(n, pane'[n].proc)
    <3>1. n \in meta.owned /\ n \in DOMAIN pane /\ pane' = pane
      BY <1>1, <2>1
    <3>2. Holds(n, pane[n].env) /\ Holds(n, pane[n].proc)
      BY <3>1 DEF HeardInv, OwnedPanesHold
    <3> QED BY <1>8, <3>1, <3>2
  <2>2. \A n, c : HoldsNext(n, c) => Holds(n, c)'
    BY DEF HoldsNext, Settled, BoundNext, Holds, BoundOn, Used, Validates
  <2> QED BY <2>1, <2>2 DEF OwnedPanesHold
<1> QED BY <1>3, <1>5, <1>7, <1>9 DEF HeardInv

LEMMA InitHeard == Init => HeardInv
<1> SUFFICES ASSUME Init PROVE HeardInv
  OBVIOUS
<1>1. IInv /\ DOMAIN Nothing = {}
  BY InitOK, PartialNothing
<1>2. /\ sess = Nothing /\ meta = Absent /\ plan = Nothing /\ pane = Nothing
      /\ tok = Nothing /\ bound = Nothing
      /\ file.tok = Nothing /\ file.bound = Nothing
      /\ ring = [s \in Sid |-> <<>>]
  BY DEF Init
<1>3. KnownIdsUsed /\ BoundToItsPane
  BY <1>1, <1>2, Constants DEF KnownIdsUsed, BoundToItsPane, Absent
<1>4. FileAgrees /\ NothingSuperseded /\ OwnedPanesHold
  BY <1>1, <1>2, Constants DEF FileAgrees, NothingSuperseded, OwnedPanesHold
<1> QED BY <1>1, <1>3, <1>4 DEF HeardInv

LEMMA StutterHeard ==
    ASSUME HeardInv, UNCHANGED vars
    PROVE  StoreKept /\ PanesKept
<1>1. UNCHANGED store /\ UNCHANGED <<pane, sess, owned, plan, meta>>
  BY DEF vars, tmux, registry
<1> QED BY <1>1, SameStoreKept, FewerKept

LEMMA StepHeard == HeardInv /\ [Next]_vars => HeardInv'
<1> SUFFICES ASSUME HeardInv, [Next]_vars PROVE HeardInv'
  OBVIOUS
<1>1. IInv'
  BY StepOK DEF HeardInv
<1> SUFFICES (StoreKept /\ PanesKept) \/ Restart
  BY <1>1, HeardKept, RestartHeard
<1>2. CASE UNCHANGED vars
  BY <1>2, StutterHeard
<1>3. ASSUME NEW n \in Name, ExternalPane(n) \/ KillOutside(n) \/ AgentExits(n)
      PROVE  StoreKept /\ PanesKept
  BY <1>3, OutsideHeard
<1>4. ASSUME NEW n \in Name, NEW s \in SesId, Create(s, n) \/ CreateFails(s, n)
      PROVE  StoreKept /\ PanesKept
  BY <1>1, <1>4, CreateHeard, CreateFailsHeard
<1>5. ASSUME NEW n \in Name, Respawn(n) \/ Adopt(n) \/ DestroyExternal(n)
      PROVE  StoreKept /\ PanesKept
  BY <1>1, <1>5, RespawnHeard, AdoptHeard, DestroyExternalHeard
<1>6. ASSUME NEW n \in Name, ReadoptAttach(n) \/ ReadoptRefused(n)
      PROVE  StoreKept /\ PanesKept
  BY <1>6, ReadoptAttachHeard, ReadoptRefusedHeard
<1>7. ASSUME NEW c \in Cred, HookRecovered(c)
      PROVE  StoreKept /\ PanesKept
  BY <1>7, HookRecoveredHeard
<1>8. ASSUME NEW s \in Sid, Detach(s) \/ Destroy(s)
      PROVE  StoreKept /\ PanesKept
  BY <1>1, <1>8, EndHeard
<1>9. CASE Reconcile
  BY <1>1, <1>9, ReconcileHeard
<1> QED BY <1>2, <1>3, <1>4, <1>5, <1>6, <1>7, <1>8, <1>9 DEF Next

\* Whatever writes of the token file fail: the agent of a pane the server created and owns
\* is heard in every reachable state, unless the server has stopped before a single write
\* since its token was put in force succeeded.  No sequence of detaches, adoptions,
\* respawns, recoveries, crashes and boots revokes its token otherwise.
THEOREM AgentsStayHeard == Spec => []OwnedAgentsHeard
<1>1. HeardInv => OwnedAgentsHeard
  BY DEF HeardInv, OwnedPanesHold, OwnedAgentsHeard, Holds
<1> QED BY <1>1, InitHeard, StepHeard, PTL DEF Spec

\* As long as the token file can be written no token is forgotten, so that the agent of an
\* owned pane is heard without exception.
THEOREM NothingForgotten == ~Faulty => (Spec => [](forgotten = {}))
<1> SUFFICES ASSUME ~Faulty PROVE Spec => [](forgotten = {})
  OBVIOUS
<1> DEFINE Saved == unsaved = {} /\ forgotten = {}
<1>1. Init => Saved
  BY DEF Init
<1>2. Saved /\ [Next]_vars => Saved'
  <2> SUFFICES ASSUME Saved, [Next]_vars PROVE Saved'
    OBVIOUS
  <2>1. ASSUME NEW S, Persist(S) PROVE Saved'
    BY <2>1, PersistFacts
  <2>2. ASSUME NEW s, NEW n, Mint(s, n) \/ Keep(s, n) \/ UNCHANGED store PROVE Saved'
    BY <2>1, <2>2 DEF Mint, Keep, store
  <2>3. ASSUME NEW n \in Name, NEW s \in SesId, Create(s, n) \/ CreateFails(s, n) PROVE Saved'
    BY <2>2, <2>3 DEF Create, CreateFails
  <2>4. ASSUME NEW n \in Name, Respawn(n) PROVE Saved'
    BY <2>2, <2>4 DEF Respawn, EnvFor
  <2>5. ASSUME NEW n \in Name, Adopt(n) PROVE Saved'
    BY <2>2, <2>5 DEF Adopt, Credential
  <2>6. ASSUME NEW n \in Name, ReadoptAttach(n) PROVE Saved'
    BY <2>2, <2>6 DEF ReadoptAttach
  <2>7. ASSUME NEW c \in Cred, HookRecovered(c) PROVE Saved'
    BY <2>1, <2>7 DEF HookRecovered
  <2>8. CASE Restart
    BY <2>8 DEF Restart
  <2>9. ASSUME NEW n \in Name,
               ExternalPane(n) \/ KillOutside(n) \/ AgentExits(n) \/ DestroyExternal(n)
                  \/ ReadoptRefused(n)
        PROVE  Saved'
    BY <2>9 DEF ExternalPane, KillOutside, AgentExits, DestroyExternal, ReadoptRefused, store
  <2>10. ASSUME NEW s \in Sid, Detach(s) \/ Destroy(s) PROVE Saved'
    BY <2>10 DEF Detach, Destroy, store
  <2>11. ASSUME Reconcile \/ UNCHANGED vars PROVE Saved'
    BY <2>11 DEF Reconcile, vars, store
  <2> HIDE DEF Saved
  <2> QED BY <2>3, <2>4, <2>5, <2>6, <2>7, <2>8, <2>9, <2>10, <2>11 DEF Next
<1> QED BY <1>1, <1>2, PTL DEF Spec
-----------------------------------------------------------------------------
(* What a restart brings back, and what a mint leaves of a token.          *)

\* A derived id is only ever bound to the pane it is derived from.
OnItsName(B) == \A n \in Name : Adopted(n) \in DOMAIN B => B[Adopted(n)] = n

NamesInv ==
    /\ OnItsName(bound) /\ OnItsName(file.bound)
    /\ \A n \in DOMAIN plan, m \in Name : plan[n] = Adopted(m) => m = n

\* A step that binds at most one id, and an id to its own pane, keeps this.
LEMMA BindNames ==
    ASSUME OnItsName(bound), OnItsName(file.bound), NEW s, NEW n,
           \A m \in Name : s = Adopted(m) => m = n,
           bound' = bound \/ bound' = With(bound, s, n),
           file' = file \/ file'.bound = bound'
    PROVE  OnItsName(bound') /\ OnItsName(file'.bound)
<1>1. OnItsName(bound')
  <2>1. CASE bound' = bound
    BY <2>1 DEF OnItsName
  <2>2. CASE bound' = With(bound, s, n)
    BY <2>2 DEF OnItsName, With
  <2> QED BY <2>1, <2>2
<1> QED BY <1>1 DEF OnItsName

LEMMA LadderNames ==
    ASSUME IInv, OnItsName(bound), NEW n \in Name, NEW s \in Ladder(n) \cup {Adopted(n)}
    PROVE  /\ s \in Sid
           /\ \A m \in Name : s = Adopted(m) => m = n
           /\ s \in DOMAIN bound => bound[s] = n
BY Constants, LadderType DEF Ladder, OnItsName, IInv

LEMMA PersistBinds ==
    ASSUME NEW S, Persist(S)
    PROVE  file' = file \/ file'.bound = bound'
BY PersistFacts

LEMMA MintBinds ==
    ASSUME IInv, NEW s, NEW n, Mint(s, n)
    PROVE  /\ bound' = bound \/ bound' = With(bound, s, n)
           /\ file' = file \/ file'.bound = bound'
BY PersistBinds DEF Mint

LEMMA InitNames == Init => NamesInv
BY DEF Init, NamesInv, OnItsName, Nothing

LEMMA StepNames == IInv /\ NamesInv /\ [Next]_vars => NamesInv'
<1> SUFFICES ASSUME IInv, NamesInv, [Next]_vars PROVE NamesInv'
  OBVIOUS
<1> DEFINE Bindings == OnItsName(bound') /\ OnItsName(file'.bound)
           PlanKept == \A n \in DOMAIN plan' : n \in DOMAIN plan /\ plan'[n] = plan[n]
<1>0. Bindings /\ PlanKept => NamesInv'
  BY DEF NamesInv
<1>1. UNCHANGED <<bound, file>> => Bindings
  BY DEF NamesInv
<1>2. ASSUME NEW n \in Name, NEW s \in SesId, Create(s, n) \/ CreateFails(s, n)
      PROVE  Bindings /\ PlanKept
  <2>1. Mint(s, n) /\ plan' = plan
    BY <1>2 DEF Create, CreateFails
  <2>2. \A m \in Name : s = Adopted(m) => m = n
    BY Constants
  <2> QED BY <2>1, <2>2, MintBinds, BindNames DEF NamesInv
<1>3. ASSUME NEW n \in Name, Respawn(n)
      PROVE  Bindings /\ PlanKept
  <2>1. plan' = plan
    BY <1>3 DEF Respawn
  <2>2. CASE UNCHANGED store
    BY <1>1, <2>1, <2>2 DEF store
  <2>3. ASSUME NEW s, Mint(s, NoName) PROVE Bindings /\ PlanKept
    <3>1. bound' = bound /\ (file' = file \/ file'.bound = bound')
      BY <2>3, MintBinds DEF Mint
    <3> QED BY <2>1, <3>1 DEF NamesInv
  <2> QED BY <1>3, <2>2, <2>3 DEF Respawn, EnvFor
<1>4. ASSUME NEW n \in Name, Adopt(n)
      PROVE  Bindings /\ PlanKept
  <2>1. plan' = plan
    BY <1>4 DEF Adopt
  <2>2. PICK s \in Ladder(n) \cup {Adopted(n)} : UNCHANGED store \/ Keep(s, n) \/ Mint(s, n)
    BY <1>4 DEF Adopt, Credential
  <2>3. CASE UNCHANGED store
    BY <1>1, <2>1, <2>3 DEF store
  <2>4. CASE Keep(s, n) \/ Mint(s, n)
    <3>1. /\ bound' = bound \/ bound' = With(bound, s, n)
          /\ file' = file \/ file'.bound = bound'
      BY <2>4, MintBinds, PersistBinds DEF Keep
    <3>2. \A m \in Name : s = Adopted(m) => m = n
      BY LadderNames DEF NamesInv
    <3> QED BY <2>1, <3>1, <3>2, BindNames DEF NamesInv
  <2> QED BY <2>2, <2>3, <2>4
<1>5. ASSUME NEW n \in Name, ReadoptAttach(n)
      PROVE  Bindings /\ PlanKept
  <2> DEFINE s == plan[n]
  <2>1. n \in DOMAIN plan /\ plan' = Without(plan, {n})
    BY <1>5 DEF ReadoptAttach
  <2>2. PlanKept
    BY <2>1 DEF Without
  <2>3. \A m \in Name : s = Adopted(m) => m = n
    BY <2>1 DEF NamesInv
  <2>4. \A m \in Name : s = Adopted(m) => m = Get(bound, s, n)
    BY <2>3 DEF NamesInv, OnItsName, Get
  <2>5. /\ bound' = bound \/ bound' = With(bound, s, Get(bound, s, n))
        /\ file' = file \/ file'.bound = bound'
    <3>1. CASE s \in DOMAIN tok
      BY <1>5, <3>1 DEF ReadoptAttach
    <3>2. CASE s \notin DOMAIN tok
      BY <1>5, <3>2, MintBinds DEF ReadoptAttach
    <3> QED BY <3>1, <3>2
  <2>6. Bindings
    BY <2>4, <2>5, BindNames DEF NamesInv
  <2> QED BY <2>2, <2>6
<1>6. ASSUME NEW c \in Cred, HookRecovered(c)
      PROVE  Bindings /\ PlanKept
  <2>1. bound' = bound /\ plan' = plan /\ Persist({c.sid})
    BY <1>6 DEF HookRecovered
  <2>2. file' = file \/ file'.bound = bound'
    BY <2>1, PersistBinds
  <2> QED BY <2>1, <2>2 DEF NamesInv
<1>7. ASSUME NEW n \in Name,
             ExternalPane(n) \/ KillOutside(n) \/ AgentExits(n) \/ DestroyExternal(n)
      PROVE  Bindings /\ PlanKept
  BY <1>1, <1>7 DEF ExternalPane, KillOutside, AgentExits, DestroyExternal, store
<1>8. ASSUME NEW n \in Name, ReadoptRefused(n)
      PROVE  Bindings /\ PlanKept
  BY <1>1, <1>8 DEF ReadoptRefused, store, Without
<1>9. ASSUME NEW s \in Sid, Detach(s) \/ Destroy(s)
      PROVE  Bindings /\ PlanKept
  BY <1>1, <1>9 DEF Detach, Destroy, store
<1>10. CASE Restart
  <2>1. /\ bound' = Without(file.bound, Collected) /\ plan' = Nothing
        /\ file' = file \/ file'.bound = bound'
    BY <1>10 DEF Restart
  <2>2. OnItsName(bound')
    BY <2>1 DEF NamesInv, OnItsName, Without
  <2> QED BY <1>0, <2>1, <2>2 DEF NamesInv, Nothing
<1>11. CASE Reconcile
  <2>1. UNCHANGED <<bound, file>>
    BY <1>11 DEF Reconcile, store
  <2>2. ASSUME NEW n \in DOMAIN plan', NEW m \in Name, plan'[n] = Adopted(m) PROVE m = n
    <3>1. plan' \in Plans({sess'[s] : s \in backed'}, DOMAIN sess')
      BY <1>11, <2>2, ReconciledFacts DEF Nothing
    <3>2. n \in DOMAIN pane /\ plan'[n] \in Ladder(n)
      BY <2>2, <3>1, PlansType DEF IInv
    <3>3. n \in Name
      BY <3>2 DEF IInv, PaneType, IsPartial
    <3> QED BY <2>2, <3>2, <3>3, LadderNames DEF NamesInv
  <2> QED BY <1>1, <2>1, <2>2 DEF NamesInv
<1>12. CASE UNCHANGED vars
  BY <1>1, <1>12 DEF vars, store, NamesInv
<1> QED
  BY <1>0, <1>2, <1>3, <1>4, <1>5, <1>6, <1>7, <1>8, <1>9, <1>10, <1>11, <1>12 DEF Next

\* Whatever writes fail, and whatever id it is: one write that succeeds saves the token,
\* whichever operation makes it, and the collection at start spares it as long as its
\* pane's name is owned; so a restart brings it back.
THEOREM SavedSurvive == Spec => SavedTokensSurvive
<1> DEFINE Back == \A s \in DOMAIN tok \ unsaved :
              (s \in DOMAIN bound /\ bound[s] \in meta.owned)
                  => s \in DOMAIN tok' /\ tok'[s] = tok[s]
<1>1. ASSUME HeardInv, NamesInv, Restart PROVE Back
  <2> SUFFICES ASSUME NEW s \in DOMAIN tok \ unsaved, s \in DOMAIN bound, bound[s] \in meta.owned
               PROVE  s \in DOMAIN tok' /\ tok'[s] = tok[s]
    OBVIOUS
  <2>1. s \in DOMAIN file.tok /\ file.tok[s] = tok[s]
    BY <1>1 DEF HeardInv, FileAgrees
  <2>2. s \in Sid
    BY <1>1 DEF HeardInv, IInv, StoreOK, StoreType, IsPartial
  <2>3. s \in DOMAIN file.bound => file.bound[s] = bound[s]
    <3>1. CASE s \in SesId
      BY <1>1, <3>1 DEF HeardInv, FileAgrees
    <3>2. ASSUME NEW n \in Name, s = Adopted(n)
          PROVE  s \in DOMAIN file.bound => file.bound[s] = bound[s]
      BY <1>1, <3>2 DEF NamesInv, OnItsName
    <3> QED BY <2>2, <3>1, <3>2 DEF Sid
  <2>4. s \notin Collected
    BY <2>3 DEF Collected
  <2>5. tok' = Without(file.tok, Collected)
    BY <1>1 DEF Restart
  <2> QED BY <2>1, <2>4, <2>5 DEF Without
<1>2. IInv /\ [Next]_vars => boots' = boots \/ Restart
  BY DEF Next, ExternalPane, KillOutside, AgentExits, Create, CreateFails, Respawn, Adopt,
         DestroyExternal, ReadoptAttach, ReadoptRefused, HookRecovered, Detach, Destroy,
         Reconcile, vars
<1>3. HeardInv /\ NamesInv /\ [Next]_vars => [boots' # boots => Back]_vars
  <2> HIDE DEF Back
  <2> QED BY <1>1, <1>2 DEF HeardInv
<1>4. Spec => [](HeardInv /\ NamesInv)
  <2>1. HeardInv => IInv
    BY DEF HeardInv
  <2> QED BY <2>1, InitHeard, StepHeard, InitNames, StepNames, PTL DEF Spec
<1> QED BY <1>3, <1>4, PTL DEF Spec, SavedTokensSurvive

\* With room in the ring, Push() loses nothing that was there of other tokens.
LEMMA PushRoom ==
    ASSUME NEW e \in Seq(Entry), NEW x \in Entry, Len(e) < RingSize,
           \A i \in 1..Len(e) : e[i].tok # x.tok
    PROVE  LET P == Push(e, x) IN
           /\ Len(P) = Len(e) + 1
           /\ \A i \in 1..Len(e) : P[i] = e[i]
           /\ P[Len(e) + 1] = x
<1>1. Forget(e, x.tok) = e
  BY DEF Forget
<1>2. Len(Append(e, x)) <= RingSize
  BY Constants
<1>3. Push(e, x) = Append(e, x)
  BY <1>1, <1>2, Constants DEF Push
<1> QED BY <1>3

\* A mint for an id on the pane it is bound to leaves every token that was heard heard.
LEMMA MintHears ==
    ASSUME StoreOK, NEW s \in Sid, NEW name, Mint(s, name),
           s \in DOMAIN tok => name \in Name /\ (s \in DOMAIN bound => bound[s] = name),
           NEW c \in Cred, Heard(c), Len(ring[c.sid]) < RingSize
    PROVE  Heard(c)'
<1> USE DEF StoreOK
<1>1. /\ tok' = With(tok, s, NextToken)
      /\ ring' = Remembered(s, name)
      /\ bound' = IF name = NoName THEN bound ELSE With(bound, s, name)
  BY DEF Mint
<1>2. c.sid \in Sid
  BY DEF Cred
<1>3. CASE c.sid # s
  <2>1. ring'[c.sid] = ring[c.sid]
    BY <1>1, <1>2, <1>3 DEF Remembered, StoreType
  <2>2. /\ c.sid \in DOMAIN tok' <=> c.sid \in DOMAIN tok
        /\ c.sid \in DOMAIN tok => tok'[c.sid] = tok[c.sid]
    BY <1>1, <1>3 DEF With
  <2>3. /\ c.sid \in DOMAIN bound' <=> c.sid \in DOMAIN bound
        /\ c.sid \in DOMAIN bound => bound'[c.sid] = bound[c.sid]
    BY <1>1, <1>3 DEF With
  <2> QED BY <2>1, <2>2, <2>3 DEF Heard, Validates, Recoverable
<1>4. CASE c.sid = s
  <2>1. s \in DOMAIN tok
    BY <1>4 DEF Heard, Validates, Recoverable
  <2> DEFINE e == ring[s]
             x == [tok |-> tok[s], name |-> Get(bound, s, name)]
  <2>2. name \in Name /\ name # NoName /\ Get(bound, s, name) = name
    BY <2>1, Constants DEF Get
  <2>3. e \in Seq(Entry) /\ x \in Entry /\ Len(e) < RingSize
    BY <1>4, <2>1, <2>2 DEF StoreType, IsPartial, Entry
  <2>4. \A i \in 1..Len(e) : e[i].tok # x.tok
    BY <2>1 DEF TokensAreOwn
  <2>5. ring'[s] = Push(e, x)
    BY <1>1, <2>1 DEF Remembered, StoreType
  <2>6. s \in DOMAIN bound' /\ bound'[s] = name
    BY <1>1, <2>2 DEF With
  <2>7. x.tok = tok[s] /\ x.name = name
    BY <2>2
  <2> HIDE DEF e, x
  <2>8. /\ Len(ring'[s]) = Len(e) + 1
        /\ \A i \in 1..Len(e) : ring'[s][i] = e[i]
        /\ ring'[s][Len(e) + 1] = x
    BY <2>3, <2>4, <2>5, PushRoom
  <2>9. Len(e) \in Nat
    BY <2>3
  <2>10. CASE Validates(c)
    <3>1. x = [tok |-> c.tok, name |-> bound'[s]]
      BY <1>4, <2>2, <2>6, <2>10 DEF Validates, x
    <3>2. Len(e) + 1 \in 1..Len(ring'[s]) /\ ring'[s][Len(e) + 1] = x
      BY <2>8, <2>9
    <3> QED BY <1>4, <2>6, <3>1, <3>2 DEF Heard, Recoverable
  <2>11. CASE Recoverable(c)
    <3>1. PICK i \in 1..Len(e) : e[i] = [tok |-> c.tok, name |-> bound[s]]
      BY <1>4, <2>11 DEF Recoverable, e
    <3>2. bound[s] = name
      BY <1>4, <2>1, <2>11 DEF Recoverable
    <3>3. i \in 1..Len(ring'[s]) /\ ring'[s][i] = [tok |-> c.tok, name |-> bound'[s]]
      BY <2>6, <2>8, <2>9, <3>1, <3>2
    <3> QED BY <1>4, <2>6, <3>3 DEF Heard, Recoverable
  <2> QED BY <2>10, <2>11 DEF Heard
<1> QED BY <1>3, <1>4

\* Whatever writes fail: minting never silences a process that was heard and whose ring
\* has room, since the token it holds is remembered under the pane it is recovered for.
THEOREM MintsSilenceNobody == Spec => MintNeverSilences
<1> DEFINE Spared(n) == LET c == pane[n].proc IN
              (c # NoCred /\ Heard(c) /\ pane'[n].proc = c /\ Len(ring[c.sid]) < RingSize)
                  => Heard(c)'
           Mints(s, name) ==
              /\ s \in Sid /\ Mint(s, name)
              /\ s \in DOMAIN tok => name \in Name /\ (s \in DOMAIN bound => bound[s] = name)
<1>1. ASSUME IInv, NEW s, NEW name, Mints(s, name), NEW n \in DOMAIN pane PROVE Spared(n)
  <2>1. pane[n].proc # NoCred => pane[n].proc \in Cred
    BY <1>1, PaneFacts DEF IInv, OptCred
  <2> QED BY <1>1, <2>1, MintHears DEF IInv
<1>2. ASSUME IInv, NamesInv, Next
      PROVE  minted' = minted \/ \E s, name : Mints(s, name)
  <2>1. ASSUME NEW n \in Name, NEW s \in SesId, Create(s, n) \/ CreateFails(s, n)
        PROVE  Mints(s, n)
    <3>1. Mint(s, n) /\ \A t \in DOMAIN minted : minted[t] # s
      BY <2>1 DEF Create, CreateFails
    <3>2. s \in Sid /\ s \notin DOMAIN tok
      BY <1>2, <3>1, Constants DEF IInv, StoreOK, TokensAreOwn
    <3> QED BY <3>1, <3>2
  <2>2. ASSUME NEW n \in Name, Respawn(n)
        PROVE  minted' = minted \/ \E s, name : Mints(s, name)
    <3>1. CASE UNCHANGED store
      BY <3>1 DEF store
    <3>2. ASSUME NEW s \in RegisteredOn(n), EnvFor(s), s \notin DOMAIN tok
          PROVE  Mints(s, NoName)
      BY <1>2, <3>2 DEF EnvFor, RegisteredOn, IInv, RegistryType, SessType, IsPartial
    <3> QED BY <2>2, <3>1, <3>2 DEF Respawn, EnvFor
  <2>3. ASSUME NEW n \in Name, Adopt(n)
        PROVE  minted' = minted \/ \E s, name : Mints(s, name)
    <3>1. PICK s \in Ladder(n) \cup {Adopted(n)} : UNCHANGED store \/ Keep(s, n) \/ Mint(s, n)
      BY <2>3 DEF Adopt, Credential
    <3>2. s \in Sid /\ (s \in DOMAIN bound => bound[s] = n)
      BY <1>2, LadderNames DEF NamesInv
    <3> QED BY <3>1, <3>2 DEF store, Keep
  <2>4. ASSUME NEW n \in Name, ReadoptAttach(n)
        PROVE  minted' = minted \/ \E s, name : Mints(s, name)
    <3> DEFINE s == plan[n]
    <3>1. s \in Sid
      BY <1>2, <2>4 DEF ReadoptAttach, IInv, RegistryType, IsPartial
    <3>2. CASE s \in DOMAIN tok
      BY <2>4, <3>2 DEF ReadoptAttach
    <3>3. CASE s \notin DOMAIN tok
      <4>1. Mint(s, Get(bound, s, n))
        BY <2>4, <3>3 DEF ReadoptAttach
      <4> QED BY <3>1, <3>3, <4>1
    <3> QED BY <3>2, <3>3
  <2>5. ASSUME NEW n \in Name,
               ExternalPane(n) \/ KillOutside(n) \/ AgentExits(n) \/ DestroyExternal(n)
                  \/ ReadoptRefused(n)
        PROVE  minted' = minted
    BY <2>5 DEF ExternalPane, KillOutside, AgentExits, DestroyExternal, ReadoptRefused, store
  <2>6. ASSUME NEW s \in Sid, Detach(s) \/ Destroy(s) PROVE minted' = minted
    BY <2>6 DEF Detach, Destroy, store
  <2>7. ASSUME NEW c \in Cred, HookRecovered(c) PROVE minted' = minted
    BY <2>7 DEF HookRecovered
  <2>8. ASSUME Restart \/ Reconcile PROVE minted' = minted
    BY <2>8 DEF Restart, Reconcile, store
  <2> QED BY <1>2, <2>1, <2>2, <2>3, <2>4, <2>5, <2>6, <2>7, <2>8 DEF Next
<1>3. IInv /\ NamesInv /\ [Next]_vars =>
         [minted' # minted => \A n \in DOMAIN pane \cap DOMAIN pane' : Spared(n)]_vars
  <2> SUFFICES ASSUME IInv, NamesInv, Next, minted' # minted, NEW n \in DOMAIN pane
               PROVE  Spared(n)
    OBVIOUS
  <2> HIDE DEF Spared, Mints
  <2> QED BY <1>1, <1>2
<1>4. Spec => [](IInv /\ NamesInv)
  BY InitOK, StepOK, InitNames, StepNames, PTL DEF Spec
<1> QED BY <1>3, <1>4, PTL DEF Spec, MintNeverSilences
=============================================================================
