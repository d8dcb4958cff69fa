-------------------------------- MODULE SignIn --------------------------------
(***************************************************************************)
(* Sign-in sessions of one user: the refresh_sessions table, the cookies of *)
(* the user's browsers, and the API client of every open tab.  A short      *)
(* access token authorises calls by itself; a refresh token names a row of  *)
(* the table and is exchanged for a new pair, row included.                 *)
(*                                                                          *)
(* The tabs of a browser share its cookies but not the promise that keeps   *)
(* one tab from refreshing twice at a time.  On the server every request    *)
(* reads the rows it needs, without a lock, and commits its change later.   *)
(***************************************************************************)
EXTENDS Naturals, FiniteSets

CONSTANTS Browser, Tab, BrowserOf,  \* tabs and the browser of each
          FormTab,                  \* tabs in which the user signs in and out
          Call, TabOf,              \* API calls that may be under way, their tabs
          Start,                    \* the sessions of the browsers to start with
          None, Denied,
          MaxSessions,              \* bound on the rows
          MaxForms,                 \* bound on registrations, sign-ins and sign-outs
          MaxLosses                 \* bound on the requests or replies lost

Session == 1 .. MaxSessions
ASSUME SignInAssumption ==
    /\ BrowserOf \in [Tab -> Browser]
    /\ FormTab \subseteq Tab
    /\ TabOf \in [Call -> Tab]
    /\ Start \subseteq [Browser -> Session \cup {None}]
    /\ \A at \in Start : \A b, d \in Browser : at[b] = at[d] => b = d \/ at[b] = None
    /\ MaxSessions \in Nat /\ MaxForms \in Nat /\ MaxLosses \in Nat
    /\ {None, Denied} \cap Nat = {}

(* The requests a tab may have under way: its refresh and one form.         *)
Request == (Tab \X {"refresh"}) \cup (FormTab \X {"form"})

VARIABLES
    registered,                \* users: the account exists
    session, fresh,            \* refresh_sessions; access tokens not yet expired
    jar,                       \* cookies of each browser
    call, carried,             \* API calls and the access token each was sent with
    kind, step, token, read, result,  \* requests to /auth
    forms, losses,             \* bounds
    origin, raced, torn, ended \* history, read by properties only

server  == <<registered, session, fresh>>
calls   == <<call, carried>>
request == <<kind, step, token, read, result>>
bounds  == <<forms, losses>>
history == <<origin, raced, torn, ended>>
vars    == <<server, jar, calls, request, bounds, history>>

TypeOK ==
    /\ registered \in BOOLEAN
    /\ session \in [Session -> {"unused", "live", "revoked", "expired"}]
    /\ fresh \in [Session -> BOOLEAN]
    /\ jar \in [Browser -> [access : Session \cup {None}, refresh : Session \cup {None}]]
    /\ call \in [Call -> {"idle", "sent", "waiting", "resent"}]
    /\ carried \in [Call -> Session \cup {None}]
    /\ kind \in [Request -> {"refresh", "register", "login", "logout", "logout_all"}]
    /\ step \in [Request -> {"none", "sent", "read", "replied"}]
    /\ token \in [Request -> Session \cup {None}]
    /\ read \in [Request -> SUBSET Session]
    /\ result \in [Request -> Session \cup {None, Denied}]
    /\ forms \in 0 .. MaxForms
    /\ losses \in 0 .. MaxLosses
    /\ origin \in [Session -> Session]
    /\ raced \subseteq Session /\ torn \subseteq Session /\ ended \subseteq Session

(* Browsers may be signed in already, each by a sign-in of its own.         *)
Init ==
    /\ \E signedIn \in Start :
          /\ jar = [b \in Browser |-> [access |-> signedIn[b], refresh |-> signedIn[b]]]
          /\ session = [s \in Session |->
                           IF \E b \in Browser : signedIn[b] = s THEN "live" ELSE "unused"]
          /\ fresh = [s \in Session |-> \E b \in Browser : signedIn[b] = s]
          /\ registered \in {r \in BOOLEAN : r \/ \A b \in Browser : signedIn[b] = None}
    /\ call = [c \in Call |-> "idle"]
    /\ carried = [c \in Call |-> None]
    /\ kind = [r \in Request |-> "refresh"]
    /\ step = [r \in Request |-> "none"]
    /\ token = [r \in Request |-> None]
    /\ read = [r \in Request |-> {}]
    /\ result = [r \in Request |-> None]
    /\ forms = 0 /\ losses = 0
    /\ origin = [s \in Session |-> s]
    /\ raced = {} /\ torn = {} /\ ended = {}

-----------------------------------------------------------------------------
(* The client of a tab (client.ts).                                         *)

Cookies(t) == jar[BrowserOf[t]]

Send(r, k, tok) ==
    /\ step[r] = "none"
    /\ kind' = [kind EXCEPT ![r] = k]
    /\ step' = [step EXCEPT ![r] = "sent"]
    /\ token' = [token EXCEPT ![r] = tok]
    /\ UNCHANGED <<read, result>>

(* Whatever awaited the refresh of tab t is sent again or fails.            *)
Settle(t, refreshed) ==
    LET waiting == {c \in Call : TabOf[c] = t /\ call[c] = "waiting"}
    IN  /\ call' = [c \in Call |-> IF c \notin waiting THEN call[c]
                                   ELSE IF refreshed THEN "resent" ELSE "idle"]
        /\ carried' = [c \in Call |-> IF c \in waiting /\ refreshed
                                      THEN jar'[BrowserOf[t]].access ELSE carried[c]]

Await(c) ==
    /\ call' = [call EXCEPT ![c] = "waiting"]
    /\ carried' = [carried EXCEPT ![c] = None]

End(c) ==
    /\ call' = [call EXCEPT ![c] = "idle"]
    /\ carried' = [carried EXCEPT ![c] = None]

Ask(c) ==
    /\ call[c] = "idle"
    /\ call' = [call EXCEPT ![c] = "sent"]
    /\ carried' = [carried EXCEPT ![c] = Cookies(TabOf[c]).access]
    /\ UNCHANGED <<server, jar, request, bounds, history>>

Authorized(tok) == tok # None /\ fresh[tok]

Answered(c) ==
    /\ call[c] \in {"sent", "resent"}
    /\ Authorized(carried[c]) \/ call[c] = "resent"
    /\ End(c)
    /\ UNCHANGED <<server, jar, request, bounds, history>>

(* 401: join the refresh of this tab or start one; without the CSRF cookie, *)
(* which lives and dies with the refresh cookie, the call fails.            *)
Unauthorized(c) ==
    LET t == TabOf[c]
        r == <<t, "refresh">>
    IN  /\ call[c] = "sent"
        /\ ~Authorized(carried[c])
        /\ \/ step[r] # "none" /\ Await(c) /\ UNCHANGED request
           \/ step[r] = "none" /\ Cookies(t).refresh = None /\ End(c) /\ UNCHANGED request
           \/ Cookies(t).refresh # None /\ Await(c) /\ Send(r, "refresh", Cookies(t).refresh)
        /\ UNCHANGED <<server, jar, bounds, history>>

(* The user fills in a form; what needs cookies is refused without them.    *)
Submit(t, k, tok) ==
    /\ forms < MaxForms
    /\ forms' = forms + 1
    /\ Send(<<t, "form">>, k, tok)
    /\ UNCHANGED <<server, jar, calls, losses, history>>

Register(t)  == Submit(t, "register", None)
Login(t)     == Submit(t, "login", None)
Logout(t)    == Cookies(t).refresh # None /\ Submit(t, "logout", Cookies(t).refresh)
LogoutAll(t) == Cookies(t).refresh # None /\ Submit(t, "logout_all", Cookies(t).access)

-----------------------------------------------------------------------------
(* The server (auth_service.py).                                            *)

Respond(r, res) ==
    /\ step' = [step EXCEPT ![r] = "replied"]
    /\ result' = [result EXCEPT ![r] = res]
    /\ read' = [read EXCEPT ![r] = {}]
    /\ UNCHANGED <<kind, token>>

(* Request r now holds the rows; another that holds one of them raced it.   *)
Fetch(r, rows) ==
    /\ step' = [step EXCEPT ![r] = "read"]
    /\ read' = [read EXCEPT ![r] = rows]
    /\ raced' = raced \cup {origin[s] : s \in rows \cap UNION {read[q] : q \in Request}}
    /\ UNCHANGED <<kind, token, result, origin, torn, ended>>

Received(r, k) == step[r] = "sent" /\ kind[r] = k

(* Mutant: the state of the row is not looked at.                           *)
ReadRefreshUnchecked(r) ==
    /\ Received(r, "refresh")
    /\ Fetch(r, {token[r]})
    /\ UNCHANGED <<server, jar, calls, bounds>>

(* Mutant: a token that was rotated already ends all that descends from it. *)
ReadRefreshStrict(r) ==
    /\ Received(r, "refresh")
    /\ IF session[token[r]] = "live"
       THEN Fetch(r, {token[r]}) /\ UNCHANGED session
       ELSE /\ Respond(r, Denied)
            /\ session' = [s \in Session |-> IF session[s] = "live" /\ origin[s] = origin[token[r]]
                                             THEN "revoked" ELSE session[s]]
            /\ UNCHANGED history
    /\ UNCHANGED <<registered, fresh, jar, calls, bounds>>

ReadRefresh(r) ==
    /\ Received(r, "refresh")
    /\ IF session[token[r]] = "live"
       THEN Fetch(r, {token[r]})
       ELSE Respond(r, Denied) /\ UNCHANGED history
    /\ UNCHANGED <<server, jar, calls, bounds>>

(* A revoked or expired session is signed out already.                      *)
ReadLogout(r) ==
    /\ Received(r, "logout")
    /\ IF session[token[r]] = "live"
       THEN Fetch(r, {token[r]})
       ELSE Respond(r, None) /\ UNCHANGED history
    /\ UNCHANGED <<server, jar, calls, bounds>>

ReadLogoutAll(r) ==
    /\ Received(r, "logout_all")
    /\ IF Authorized(token[r])
       THEN Fetch(r, {s \in Session : session[s] \in {"live", "expired"}})
       ELSE Respond(r, Denied) /\ UNCHANGED history
    /\ UNCHANGED <<server, jar, calls, bounds>>

Unused     == {s \in Session : session[s] = "unused"}
NextRow(s) == s \in Unused /\ \A u \in Unused : s <= u

(* Mutant: rotation leaves the old row as it is.                            *)
BuildSessionBeside(r, s, replaced) ==
    /\ session' = [session EXCEPT ![s] = "live"]
    /\ fresh' = [fresh EXCEPT ![s] = TRUE]
    /\ Respond(r, s)

(* A new row, its tokens, and the row it replaces.                          *)
BuildSession(r, s, replaced) ==
    /\ session' = [u \in Session |-> IF u = s THEN "live"
                                     ELSE IF u \in replaced THEN "revoked" ELSE session[u]]
    /\ fresh' = [fresh EXCEPT ![s] = TRUE]
    /\ Respond(r, s)

CommitRefresh(r) ==
    /\ step[r] = "read"
    /\ kind[r] = "refresh"
    /\ \E s \in Session :
          /\ NextRow(s)
          /\ BuildSession(r, s, {token[r]})
          /\ origin' = [origin EXCEPT ![s] = origin[token[r]]]
    /\ UNCHANGED <<registered, jar, calls, bounds, raced, torn, ended>>

CommitSignOut(r) ==
    /\ step[r] = "read"
    /\ kind[r] \in {"logout", "logout_all"}
    /\ session' = [s \in Session |-> IF s \in read[r] THEN "revoked" ELSE session[s]]
    /\ Respond(r, None)
    /\ ended' = ended \cup {origin[s] : s \in read[r]}
    /\ UNCHANGED <<registered, fresh, jar, calls, bounds, origin, raced, torn>>

(* Unique e-mail address; account, preferences and session in one commit.   *)
CommitRegister(r) ==
    /\ Received(r, "register")
    /\ ~registered
    /\ registered' = TRUE
    /\ \E s \in Session : NextRow(s) /\ BuildSession(r, s, {})
    /\ UNCHANGED <<jar, calls, bounds, history>>

CommitLogin(r) ==
    /\ Received(r, "login")
    /\ registered
    /\ \E s \in Session : NextRow(s) /\ BuildSession(r, s, {})
    /\ UNCHANGED <<registered, jar, calls, bounds, history>>

(* The request is refused (address taken, credentials, rate limit) or its   *)
(* write fails and is rolled back.                                          *)
Refused(r) ==
    /\ step[r] \in {"sent", "read"}
    /\ Respond(r, Denied)
    /\ UNCHANGED <<server, jar, calls, bounds, history>>

-----------------------------------------------------------------------------
(* Replies, and time.                                                       *)

Close(r) ==
    /\ step' = [step EXCEPT ![r] = "none"]
    /\ token' = [token EXCEPT ![r] = None]
    /\ read' = [read EXCEPT ![r] = {}]
    /\ result' = [result EXCEPT ![r] = None]
    /\ kind' = [kind EXCEPT ![r] = "refresh"]

SetCookies(b, s) == jar' = [jar EXCEPT ![b] = [access |-> s, refresh |-> s]]

(* Mutant: an error response sets cookies as well.                          *)
ReplyUnchecked(r) ==
    /\ step[r] = "replied"
    /\ Close(r)
    /\ SetCookies(BrowserOf[r[1]], result[r])
    /\ IF r[2] = "refresh" THEN Settle(r[1], result[r] # Denied) ELSE UNCHANGED calls
    /\ UNCHANGED <<server, bounds, history>>

(* A session in the reply sets all cookies, a sign-out clears them, and an  *)
(* error leaves them alone.                                                 *)
Reply(r) ==
    /\ step[r] = "replied"
    /\ Close(r)
    /\ IF result[r] = Denied THEN UNCHANGED jar ELSE SetCookies(BrowserOf[r[1]], result[r])
    /\ IF r[2] = "refresh" THEN Settle(r[1], result[r] # Denied) ELSE UNCHANGED calls
    /\ UNCHANGED <<server, bounds, history>>

(* Mutant: a failed fetch leaves the calls that await the refresh pending.  *)
LostUncaught(r) ==
    /\ step[r] \in {"sent", "replied"}
    /\ losses < MaxLosses
    /\ losses' = losses + 1
    /\ Close(r)
    /\ torn' = torn \cup {origin[s] : s \in {result[r]} \cap Session}
    /\ UNCHANGED <<server, jar, calls, forms, origin, raced, ended>>

(* The request or its reply is lost and fetch throws.                       *)
Lost(r) ==
    /\ step[r] \in {"sent", "replied"}
    /\ losses < MaxLosses
    /\ losses' = losses + 1
    /\ Close(r)
    /\ torn' = torn \cup {origin[s] : s \in {result[r]} \cap Session}
    /\ IF r[2] = "refresh" THEN UNCHANGED jar /\ Settle(r[1], FALSE)
       ELSE UNCHANGED <<jar, calls>>
    /\ UNCHANGED <<server, forms, origin, raced, ended>>

(* Only a token somebody still holds is of consequence.                     *)
AccessExpires(s) ==
    /\ fresh[s]
    /\ \/ \E b \in Browser : jar[b].access = s
       \/ \E c \in Call : carried[c] = s
    /\ fresh' = [fresh EXCEPT ![s] = FALSE]
    /\ UNCHANGED <<registered, session, jar, calls, request, bounds, history>>

(* Row and cookies live equally long, longer than the access token and than *)
(* any request that holds the row.                                          *)
SessionExpires(s) ==
    /\ session[s] = "live"
    /\ ~fresh[s]
    /\ \A r \in Request : s # result[r] /\ s \notin read[r]
    /\ session' = [session EXCEPT ![s] = "expired"]
    /\ jar' = [b \in Browser |-> IF jar[b].refresh = s
                                 THEN [access |-> None, refresh |-> None] ELSE jar[b]]
    /\ UNCHANGED <<registered, fresh, calls, request, bounds, history>>

Serve(r) ==
    \/ ReadRefresh(r) \/ ReadLogout(r) \/ ReadLogoutAll(r)
    \/ CommitRefresh(r) \/ CommitSignOut(r) \/ CommitRegister(r) \/ CommitLogin(r)
    \/ Refused(r)

Next ==
    \/ \E c \in Call : Ask(c) \/ Answered(c) \/ Unauthorized(c)
    \/ \E t \in FormTab : Register(t) \/ Login(t) \/ Logout(t) \/ LogoutAll(t)
    \/ \E r \in Request : Serve(r) \/ Reply(r) \/ Lost(r)
    \/ \E s \in Session : AccessExpires(s) \/ SessionExpires(s)

Spec == Init /\ [][Next]_vars

-----------------------------------------------------------------------------
(* What must hold.                                                          *)

LiveOf(o) == {s \in Session : session[s] = "live" /\ origin[s] = o}

(* Rotation: one sign-in is one live session however often it is refreshed, *)
(* unless two requests held its row at the same time.                       *)
OneSessionPerSignIn == \A o \in Session \ raced : Cardinality(LiveOf(o)) <= 1

(* A sign-out, from one device or from all, is final: nothing descends from *)
(* the sessions it ended that is still live, whatever was sent before it,   *)
(* unless another request held one of their rows at the same time.          *)
SignOutHolds == \A o \in ended \ raced : LiveOf(o) = {}

NewCookiesPending(b) ==
    \E r \in Request : /\ BrowserOf[r[1]] = b
                       /\ step[r] = "replied" /\ result[r] \in Session

(* Tabs that refresh at the same time do not sign each other out: whatever  *)
(* the order of their requests and replies, the cookies left in the browser *)
(* are those of a live session, unless a reply was lost or a sign-out ended *)
(* the session.                                                             *)
CookiesUsable ==
    \A b \in Browser :
        LET s == jar[b].refresh
        IN  (s # None /\ ~NewCookiesPending(b)) =>
                session[s] = "live" \/ origin[s] \in torn \cup ended

(* No call waits for a refresh that has been settled already: it would wait *)
(* for ever.                                                                *)
WaitingHasRefresh ==
    \A c \in Call : call[c] = "waiting" => step[<<TabOf[c], "refresh">>] # "none"
=============================================================================
