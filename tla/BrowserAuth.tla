---------------------------- MODULE BrowserAuth -----------------------------
(***************************************************************************)
(* The tabs of one browser (client/js/auth.js, client/js/api.js) in front  *)
(* of the refresh-token store.  The tabs share one pair of tokens in       *)
(* localStorage; each tab keeps at most one refresh in flight              *)
(* (_refreshPromise), but nothing orders the refreshes of two tabs.  A     *)
(* fetch is answered, answered too late for a page that was reloaded, or   *)
(* lost.                                                                   *)
(*                                                                         *)
(* Every step of the server is a step of RefreshTokens: this module says   *)
(* when a client makes it and what the client does with the answer.        *)
(***************************************************************************)
EXTENDS RefreshTokens

CONSTANTS Tab,        \* the tabs of the browser
          NoReq,      \* no request of this tab is at the server
          RoundTrip   \* bound: longest time a refresh is in flight, end to end

ASSUME RoundTripAssumption == RoundTrip \in Nat /\ NoReq \notin Req

\* Two round trips fit in the grace window (ten seconds by default).
ASSUME TwoTripsAssumption == 2 * RoundTrip < Grace

VARIABLES stored,     \* localStorage claude_refresh_token
          access,     \* is there a claude_tunnel_token in localStorage?
          tab,        \* what each tab waits for
          lost,       \* history: tokens whose refresh answer the browser never got
          revoking    \* history: tokens a logout was sent for

browser == <<stored, access, tab, lost, revoking>>
server == vars
allVars == <<server, browser>>

\* A tab shows the login prompt, works, has a refresh on its way (not yet at
\* the server, then at the server), repeats the refused call, or logs in.
TabState == [pc : {"prompt", "idle", "sending", "refreshing", "retrying", "logging"},
             jti : OptJti, req : Req \cup {NoReq}, since : Nat]

Shows(pc) == [pc |-> pc, jti |-> NoJti, req |-> NoReq, since |-> 0]

TabAt(t, pc) == tab[t].pc = pc

Becomes(t, state) == tab' = [tab EXCEPT ![t] = state]

Forsaken(t) == IF TabAt(t, "refreshing") THEN {tab[t].jti} ELSE {}

ClientInit ==
    /\ stored = NoJti
    /\ access = FALSE
    /\ tab = [t \in Tab |-> Shows("prompt")]
    /\ lost = {}
    /\ revoking = {}

BrowserInit == Init /\ ClientInit

\* The request is not one that some page still waits for.
Unclaimed(r) == \A t \in Tab : tab[t].req # r
-----------------------------------------------------------------------------
(* What an answer does to localStorage.                                    *)

\* Mutation: a stored refresh token is never replaced.
KeepFirst(j) == access' = TRUE /\ stored' = IF stored = NoJti THEN j ELSE stored

\* setToken() and setRefreshToken() of the new pair.
Keep(j) == access' = TRUE /\ stored' = j

\* clearToken(), of handleUnauthorized() and logout().
Clear == access' = FALSE /\ stored' = NoJti

\* clearToken({accessOnly: true}) after a network error.
ClearAccess == access' = FALSE /\ UNCHANGED stored
-----------------------------------------------------------------------------
(* A page.                                                                 *)

\* App.init(): a page (re)load forgets what was in flight, and shows the
\* prompt unless an access token is stored.
Load(t) ==
    /\ Becomes(t, Shows(IF access THEN "idle" ELSE "prompt"))
    /\ lost' = lost \cup Forsaken(t)
    /\ UNCHANGED <<server, stored, access, revoking>>

Login(t) ==
    /\ TabAt(t, "prompt")
    /\ \E r \in Req : /\ Unclaimed(r)
                    /\ Verify(r)
                    /\ Becomes(t, [pc |-> "logging", jti |-> NoJti, req |-> r,
                                     since |-> 0])
    /\ UNCHANGED <<stored, access, lost, revoking>>

LoggedIn(t) ==
    /\ TabAt(t, "logging")
    /\ LET r == tab[t].req IN Deliver(r) /\ Keep(req[r].new)
    /\ Becomes(t, Shows("idle"))
    /\ UNCHANGED <<lost, revoking>>

LoginFails(t) ==
    /\ TabAt(t, "logging")
    /\ \/ Lose(tab[t].req)
       \/ At(tab[t].req, "idle") /\ UNCHANGED server
    /\ Becomes(t, Shows("prompt"))
    /\ UNCHANGED <<stored, access, lost, revoking>>

(* call(): the first 401 of a call starts a refresh.  The 401 may come at  *)
(* any time: an access token expires, another tab removes it, a call sent  *)
(* with the previous one is answered late.                                 *)

Unauthorized(t) ==
    /\ TabAt(t, "idle")
    /\ \/ /\ stored # NoJti
          /\ Becomes(t, [pc |-> "sending", jti |-> stored, req |-> NoReq,
                         since |-> now])
          /\ UNCHANGED <<stored, access>>
       \/ /\ stored = NoJti
          /\ Clear
          /\ Becomes(t, Shows("prompt"))
    /\ UNCHANGED <<server, lost, revoking>>

SendRefresh(t) ==
    /\ TabAt(t, "sending")
    /\ \E r \in Req :
          /\ Unclaimed(r)
          /\ Refresh(r, tab[t].jti)
          /\ tab' = [tab EXCEPT ![t].pc = "refreshing", ![t].req = r]
    /\ UNCHANGED <<stored, access, lost, revoking>>

\* decode_refresh_token() refuses an expired token.
ExpiredAtServer(t) ==
    /\ TabAt(t, "sending") /\ claim[tab[t].jti].exp <= now
    /\ Clear
    /\ Becomes(t, Shows("prompt"))
    /\ UNCHANGED <<server, lost, revoking>>

\* fetch() threw: offline, or the server died under the request.
NetworkError(t) ==
    /\ \/ TabAt(t, "sending") /\ UNCHANGED server
       \/ TabAt(t, "refreshing") /\ Lose(tab[t].req)
       \/ TabAt(t, "refreshing") /\ At(tab[t].req, "idle") /\ UNCHANGED server
    /\ ClearAccess
    /\ Becomes(t, Shows("idle"))
    /\ lost' = lost \cup Forsaken(t)
    /\ UNCHANGED revoking

Refreshed(t) ==
    /\ TabAt(t, "refreshing")
    /\ LET r == tab[t].req IN Deliver(r) /\ Keep(req[r].new)
    /\ Becomes(t, Shows("retrying"))
    /\ UNCHANGED <<lost, revoking>>

\* A status that is not 2xx: handleUnauthorized(), except that callEnvelope()
\* (the archive) passes the 401 on and clears nothing.
Rejected(t) ==
    /\ TabAt(t, "refreshing")
    /\ LET r == tab[t].req IN req[r].pc \in {"denied", "failed"} /\ Lose(r)
    /\ \/ Clear /\ Becomes(t, Shows("prompt"))
       \/ UNCHANGED <<stored, access>> /\ Becomes(t, Shows("idle"))
    /\ UNCHANGED <<lost, revoking>>

\* The repeated call reads localStorage again; its own 401 is final.
Retry(t) ==
    /\ TabAt(t, "retrying")
    /\ \/ access /\ Becomes(t, Shows("idle")) /\ UNCHANGED <<stored, access>>
       \/ ~access /\ Clear /\ Becomes(t, Shows("prompt"))
    /\ UNCHANGED <<server, lost, revoking>>

\* logout(): fire and forget, then clearToken().
LogOut(t) ==
    /\ TabAt(t, "idle")
    /\ \/ stored # NoJti /\ \E r \in Req : Unclaimed(r) /\ Logout(r, stored)
       \/ UNCHANGED server
    /\ revoking' = revoking \cup ({stored} \ {NoJti})
    /\ Clear
    /\ Becomes(t, Shows("prompt"))
    /\ UNCHANGED lost
-----------------------------------------------------------------------------
(* The server, and the answers nobody waits for.                           *)

Handle ==
    /\ \E r \in Req :
          \/ Issue(r) \/ IsValidYes(r) \/ IsValidNo(r) \/ IsSuperseded(r)
          \/ RevokeChain(r) \/ Rotate(r) \/ Revoke(r)
    /\ UNCHANGED browser

Unread ==
    /\ \E r \in Req : Unclaimed(r) /\ Lose(r)
    /\ UNCHANGED browser

Background == (PurgeExpired \/ Restart) /\ UNCHANGED browser

Pass ==
    /\ \A t \in Tab : tab[t].pc \in {"sending", "refreshing"} => now < tab[t].since + RoundTrip
    /\ Tick
    /\ UNCHANGED browser

BrowserNext ==
    \/ \E t \in Tab :
          \/ Load(t) \/ Login(t) \/ LoggedIn(t) \/ LoginFails(t)
          \/ Unauthorized(t) \/ SendRefresh(t) \/ ExpiredAtServer(t)
          \/ NetworkError(t) \/ Refreshed(t) \/ Rejected(t) \/ Retry(t) \/ LogOut(t)
    \/ Handle \/ Unread \/ Background \/ Pass

BrowserSpec == BrowserInit /\ [][BrowserNext]_allVars
-----------------------------------------------------------------------------
\* The pages, localStorage and the messages in flight keep their declared shape.
BrowserTypeOK ==
    /\ TypeOK
    /\ stored \in OptJti /\ access \in BOOLEAN
    /\ tab \in [Tab -> TabState]
    /\ lost \subseteq Jti /\ revoking \subseteq Jti

\* The browser never sits on a refresh token the store has moved past: while
\* no tab is refreshing with the stored token, it can still be rotated, unless
\* it expired, its chain was burned, or the answer to a refresh with it was lost.
StoredTokenIsAlive ==
    (/\ stored # NoJti /\ stored \notin lost \cup burned
     /\ \A t \in Tab : tab[t].jti # stored
     /\ claim[stored].exp > now /\ StoredExp(stored) > now)
        => Rotatable(db, stored, now)

\* Tabs that share a token never set off the reuse alarm among themselves: the
\* store burns a chain only for a token whose refresh answer was lost, that was
\* logged out, or that had expired in the store when it was presented, as long as
\* two round trips fit in the grace window.
TabsNeverBurn ==
    [][burned' # burned =>
         \E r \in Req :
            /\ At(r, "burn")
            /\ \/ req[r].jti \in lost \cup revoking
               \/ StoredExp(req[r].jti) <= req[r].t]_allVars
=============================================================================
