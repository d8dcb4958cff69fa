----------------------------- MODULE SignInProofs -----------------------------
(***************************************************************************)
(* Proofs about SignIn, for any number of browsers, tabs, calls, sessions,  *)
(* forms and losses.                                                        *)
(***************************************************************************)
EXTENDS SignIn, FiniteSetTheorems, TLAPS

(* Requests to refresh and to sign out carry the token of a session.        *)
Tokens ==
    \A r \in Request :
        step[r] \in {"sent", "read"} /\ kind[r] \in {"refresh", "logout"} => token[r] \in Session

LEMMA Requests ==
  /\ \A r \in Request : r[1] \in Tab /\ BrowserOf[r[1]] \in Browser
  /\ \A u \in Tab : <<u, "refresh">> \in Request
  /\ \A u \in FormTab : <<u, "form">> \in Request
  /\ \A u \in Tab : BrowserOf[u] \in Browser
  /\ \A c \in Call : TabOf[c] \in Tab
  /\ \A u \in FormTab : u \in Tab
  BY SignInAssumption DEF Request

(* The model keeps its types, and the tokens of its requests.               *)
LEMMA TypesInitial == Init => TypeOK /\ Tokens
<1> SUFFICES ASSUME Init PROVE TypeOK /\ Tokens
  OBVIOUS
<1>1. PICK signedIn \in Start :
         /\ jar = [b \in Browser |-> [access |-> signedIn[b], refresh |-> signedIn[b]]]
         /\ session = [s \in Session |->
                          IF \E b \in Browser : signedIn[b] = s THEN "live" ELSE "unused"]
         /\ fresh = [s \in Session |-> \E b \in Browser : signedIn[b] = s]
         /\ registered \in {r \in BOOLEAN : r \/ \A b \in Browser : signedIn[b] = None}
  BY DEF Init
<1>2. signedIn \in [Browser -> Session \cup {None}]
  BY SignInAssumption
<1>3. fresh \in [Session -> BOOLEAN]
  BY <1>1, Zenon
<1>4. MaxForms \in Nat /\ MaxLosses \in Nat
  BY SignInAssumption
<1>5. jar \in [Browser -> [access : Session \cup {None}, refresh : Session \cup {None}]]
  BY <1>1, <1>2
<1>6. session \in [Session -> {"unused", "live", "revoked", "expired"}]
  BY <1>1
<1>7. registered \in BOOLEAN
  BY <1>1
<1>8. Tokens
  BY DEF Init, Tokens
<1> QED
  BY <1>3, <1>4, <1>5, <1>6, <1>7, <1>8 DEF Init, TypeOK

LEMMA TypesKept == TypeOK /\ Tokens /\ [Next]_vars => TypeOK' /\ Tokens'
<1> SUFFICES ASSUME TypeOK, Tokens, [Next]_vars PROVE TypeOK' /\ Tokens'
  OBVIOUS
<1> QED
  <2>0. MaxForms \in Nat /\ MaxLosses \in Nat
    BY SignInAssumption
  <2> USE <2>0 DEF server, calls, request, bounds, history
  <2>1. ASSUME NEW c \in Call, Ask(c) PROVE TypeOK' /\ Tokens'
    <3>1. jar[BrowserOf[TabOf[c]]] \in [access : Session \cup {None}, refresh : Session \cup {None}]
      BY Requests DEF TypeOK
    <3>2. /\ jar[BrowserOf[TabOf[c]]].access \in Session \cup {None}
          /\ jar[BrowserOf[TabOf[c]]].refresh \in Session \cup {None}
      BY <3>1
    <3>3. TypeOK'
      BY <2>1, <3>2, Requests DEF TypeOK, Ask, Cookies
    <3>4. Tokens'
      BY <2>1, <3>2, Requests DEF TypeOK, Tokens, Ask, Cookies
    <3> QED
      BY <3>3, <3>4
  <2>2. ASSUME NEW c \in Call, Answered(c) PROVE TypeOK' /\ Tokens'
    <3>1. TypeOK'
      BY <2>2 DEF TypeOK, Answered, End
    <3>2. Tokens'
      BY <2>2 DEF TypeOK, Tokens, Answered, End
    <3> QED
      BY <3>1, <3>2
  <2>3. ASSUME NEW c \in Call, Unauthorized(c) PROVE TypeOK' /\ Tokens'
    <3>1. jar[BrowserOf[TabOf[c]]] \in [access : Session \cup {None}, refresh : Session \cup {None}]
      BY Requests DEF TypeOK
    <3>2. /\ jar[BrowserOf[TabOf[c]]].access \in Session \cup {None}
          /\ jar[BrowserOf[TabOf[c]]].refresh \in Session \cup {None}
      BY <3>1
    <3>a. /\ call' \in [Call -> {"idle", "sent", "waiting", "resent"}]
          /\ carried' \in [Call -> Session \cup {None}]
      BY <2>3 DEF TypeOK, Unauthorized, Await, End
    <3>b. /\ kind' \in [Request -> {"refresh", "register", "login", "logout", "logout_all"}]
          /\ step' \in [Request -> {"none", "sent", "read", "replied"}]
          /\ token' \in [Request -> Session \cup {None}]
          /\ UNCHANGED <<read, result>>
      BY <2>3, <3>2 DEF TypeOK, Unauthorized, Cookies, Send
    <3>3. TypeOK'
      BY <2>3, <3>a, <3>b DEF TypeOK, Unauthorized
    <3>4. Tokens'
      <4>1. CASE UNCHANGED <<kind, step, token>>
        BY <4>1 DEF Tokens
      <4>2. CASE ~ UNCHANGED <<kind, step, token>>
        <5>1. PICK q : Send(q, "refresh", jar[BrowserOf[TabOf[c]]].refresh)
                        /\ jar[BrowserOf[TabOf[c]]].refresh # None
          BY <2>3, <4>2 DEF Unauthorized, Cookies
        <5> QED
          BY <5>1, <3>2 DEF TypeOK, Tokens, Send
      <4> QED
        BY <4>1, <4>2
    <3> QED
      BY <3>3, <3>4
  <2>4. ASSUME NEW t \in FormTab, Register(t) PROVE TypeOK' /\ Tokens'
    <3>1. TypeOK'
      BY <2>4, Requests DEF TypeOK, Register, Submit, Send
    <3>2. Tokens'
      BY <2>4, Requests DEF TypeOK, Tokens, Register, Submit, Send
    <3> QED
      BY <3>1, <3>2
  <2>5. ASSUME NEW t \in FormTab, Login(t) PROVE TypeOK' /\ Tokens'
    <3>1. TypeOK'
      BY <2>5, Requests DEF TypeOK, Login, Submit, Send
    <3>2. Tokens'
      BY <2>5, Requests DEF TypeOK, Tokens, Login, Submit, Send
    <3> QED
      BY <3>1, <3>2
  <2>6. ASSUME NEW t \in FormTab, Logout(t) PROVE TypeOK' /\ Tokens'
    <3>1. jar[BrowserOf[t]] \in [access : Session \cup {None}, refresh : Session \cup {None}]
      BY Requests DEF TypeOK
    <3>2. /\ jar[BrowserOf[t]].access \in Session \cup {None}
          /\ jar[BrowserOf[t]].refresh \in Session \cup {None}
      BY <3>1
    <3>3. TypeOK'
      BY <2>6, <3>2, Requests DEF TypeOK, Logout, Submit, Send, Cookies
    <3>4. Tokens'
      BY <2>6, <3>2, Requests DEF TypeOK, Tokens, Logout, Submit, Send, Cookies
    <3> QED
      BY <3>3, <3>4
  <2>7. ASSUME NEW t \in FormTab, LogoutAll(t) PROVE TypeOK' /\ Tokens'
    <3>1. jar[BrowserOf[t]] \in [access : Session \cup {None}, refresh : Session \cup {None}]
      BY Requests DEF TypeOK
    <3>2. /\ jar[BrowserOf[t]].access \in Session \cup {None}
          /\ jar[BrowserOf[t]].refresh \in Session \cup {None}
      BY <3>1
    <3>3. TypeOK'
      BY <2>7, <3>2, Requests DEF TypeOK, LogoutAll, Submit, Send, Cookies
    <3>4. Tokens'
      BY <2>7, <3>2, Requests DEF TypeOK, Tokens, LogoutAll, Submit, Send, Cookies
    <3> QED
      BY <3>3, <3>4
  <2>8. ASSUME NEW r \in Request, ReadRefresh(r) PROVE TypeOK' /\ Tokens'
    <3>1. token[r] \in Session
      BY <2>8 DEF Tokens, ReadRefresh, Received
    <3>2. TypeOK'
      BY SMTT(20), <2>8, <3>1 DEF TypeOK, ReadRefresh, Received, Fetch, Respond
    <3>3. Tokens'
      BY <2>8 DEF TypeOK, Tokens, ReadRefresh, Received, Fetch, Respond
    <3> QED
      BY <3>2, <3>3
  <2>9. ASSUME NEW r \in Request, ReadLogout(r) PROVE TypeOK' /\ Tokens'
    <3>1. token[r] \in Session
      BY <2>9 DEF Tokens, ReadLogout, Received
    <3>2. TypeOK'
      BY <2>9, <3>1 DEF TypeOK, ReadLogout, Received, Fetch, Respond
    <3>3. Tokens'
      BY <2>9 DEF TypeOK, Tokens, ReadLogout, Received, Fetch, Respond
    <3> QED
      BY <3>2, <3>3
  <2>10. ASSUME NEW r \in Request, ReadLogoutAll(r) PROVE TypeOK' /\ Tokens'
    <3>1. TypeOK'
      BY <2>10 DEF TypeOK, ReadLogoutAll, Received, Fetch, Respond
    <3>2. Tokens'
      BY <2>10 DEF TypeOK, Tokens, ReadLogoutAll, Received, Fetch, Respond
    <3> QED
      BY <3>1, <3>2
  <2>11. ASSUME NEW r \in Request, CommitRefresh(r) PROVE TypeOK' /\ Tokens'
    <3>1. token[r] \in Session /\ origin[token[r]] \in Session
      BY <2>11 DEF Tokens, TypeOK, CommitRefresh
    <3>2. TypeOK'
      BY <2>11, <3>1 DEF TypeOK, CommitRefresh, BuildSession, Respond
    <3>3. Tokens'
      BY <2>11 DEF TypeOK, Tokens, CommitRefresh, BuildSession, Respond
    <3> QED
      BY <3>2, <3>3
  <2>12. ASSUME NEW r \in Request, CommitSignOut(r) PROVE TypeOK' /\ Tokens'
    <3>1. TypeOK'
      BY <2>12 DEF TypeOK, CommitSignOut, Respond
    <3>2. Tokens'
      BY <2>12 DEF TypeOK, Tokens, CommitSignOut, Respond
    <3> QED
      BY <3>1, <3>2
  <2>13. ASSUME NEW r \in Request, CommitRegister(r) PROVE TypeOK' /\ Tokens'
    <3>1. TypeOK'
      BY <2>13 DEF TypeOK, CommitRegister, Received, BuildSession, Respond
    <3>2. Tokens'
      BY <2>13 DEF TypeOK, Tokens, CommitRegister, Received, BuildSession, Respond
    <3> QED
      BY <3>1, <3>2
  <2>14. ASSUME NEW r \in Request, CommitLogin(r) PROVE TypeOK' /\ Tokens'
    <3>1. TypeOK'
      BY <2>14 DEF TypeOK, CommitLogin, Received, BuildSession, Respond
    <3>2. Tokens'
      BY <2>14 DEF TypeOK, Tokens, CommitLogin, Received, BuildSession, Respond
    <3> QED
      BY <3>1, <3>2
  <2>15. ASSUME NEW r \in Request, Refused(r) PROVE TypeOK' /\ Tokens'
    <3>1. TypeOK'
      BY <2>15 DEF TypeOK, Refused, Respond
    <3>2. Tokens'
      BY <2>15 DEF TypeOK, Tokens, Refused, Respond
    <3> QED
      BY <3>1, <3>2
  <2>16. ASSUME NEW r \in Request, Reply(r) PROVE TypeOK' /\ Tokens'
    <3>1. jar' \in [Browser -> [access : Session \cup {None}, refresh : Session \cup {None}]]
      <4>1. CASE result[r] = Denied
        BY <2>16, <4>1 DEF TypeOK, Reply
      <4>2. CASE result[r] # Denied
        <5>1. result[r] \in Session \cup {None}
          BY <4>2 DEF TypeOK
        <5>2. [access |-> result[r], refresh |-> result[r]]
                \in [access : Session \cup {None}, refresh : Session \cup {None}]
          BY <5>1
        <5> QED
          BY <2>16, <4>2, <5>2 DEF TypeOK, Reply, SetCookies
      <4> QED
        BY <4>1, <4>2
    <3>2. jar'[BrowserOf[r[1]]] \in [access : Session \cup {None}, refresh : Session \cup {None}]
      BY <3>1, Requests
    <3>3. jar'[BrowserOf[r[1]]].access \in Session \cup {None}
      BY <3>2
    <3>4. call' \in [Call -> {"idle", "sent", "waiting", "resent"}] /\ carried' \in [Call -> Session \cup {None}]
      BY <2>16, <3>3 DEF TypeOK, Reply, Settle
    <3>5. TypeOK'
      BY <2>16, <3>1, <3>4 DEF TypeOK, Reply, Close
    <3>6. Tokens'
      BY <2>16 DEF TypeOK, Tokens, Reply, Close
    <3> QED
      BY <3>5, <3>6
  <2>17. ASSUME NEW r \in Request, Lost(r) PROVE TypeOK' /\ Tokens'
    <3>1. call' \in [Call -> {"idle", "sent", "waiting", "resent"}] /\ carried' \in [Call -> Session \cup {None}]
      BY <2>17 DEF TypeOK, Lost, Settle
    <3>2. jar' = jar
      BY <2>17 DEF Lost
    <3>3. TypeOK'
      BY <2>17, <3>1, <3>2 DEF TypeOK, Lost, Close
    <3>4. Tokens'
      BY <2>17 DEF TypeOK, Tokens, Lost, Close
    <3> QED
      BY <3>3, <3>4
  <2>18. ASSUME NEW s \in Session, AccessExpires(s) PROVE TypeOK' /\ Tokens'
    <3>1. TypeOK'
      BY <2>18 DEF TypeOK, AccessExpires
    <3>2. Tokens'
      BY <2>18 DEF TypeOK, Tokens, AccessExpires
    <3> QED
      BY <3>1, <3>2
  <2>19. ASSUME NEW s \in Session, SessionExpires(s) PROVE TypeOK' /\ Tokens'
    <3>1. TypeOK'
      BY <2>19 DEF TypeOK, SessionExpires
    <3>2. Tokens'
      BY <2>19 DEF TypeOK, Tokens, SessionExpires
    <3> QED
      BY <3>1, <3>2
  <2>20. CASE UNCHANGED vars
    BY <2>20 DEF TypeOK, Tokens, vars
  <2> QED
    BY <2>1, <2>2, <2>3, <2>4, <2>5, <2>6, <2>7, <2>8, <2>9, <2>10, <2>11, <2>12, <2>13,
       <2>14, <2>15, <2>16, <2>17, <2>18, <2>19, <2>20 DEF Next, Serve

(* The model keeps its types, and requests that need the token of a session *)
(* carry one.                                                               *)
THEOREM TypeCorrect == Spec => [](TypeOK /\ Tokens)
  BY TypesInitial, TypesKept, PTL DEF Spec

-----------------------------------------------------------------------------
(* No call is left waiting.                                                 *)

(* A call starts to wait only with a refresh of its tab under way, and the  *)
(* end of that refresh settles every call that waits for it (apiRequest and *)
(* tryRefreshSession of client.ts).                                         *)
THEOREM WaitingHasRefreshAlways == Spec => []WaitingHasRefresh
<1>0. Init => WaitingHasRefresh
  BY DEF Init, WaitingHasRefresh
<1>a. TypeOK /\ WaitingHasRefresh /\ [Next]_vars => WaitingHasRefresh'
  <2> SUFFICES ASSUME TypeOK, WaitingHasRefresh, [Next]_vars PROVE WaitingHasRefresh'
    OBVIOUS
  <2> USE DEF server, calls, request, bounds, history
  <2>1. ASSUME NEW c \in Call, Ask(c) PROVE WaitingHasRefresh'
    BY <2>1 DEF TypeOK, WaitingHasRefresh, Ask, Cookies
  <2>2. ASSUME NEW c \in Call, Answered(c) PROVE WaitingHasRefresh'
    BY <2>2 DEF TypeOK, WaitingHasRefresh, Answered, End
  <2>3. ASSUME NEW c \in Call, Unauthorized(c) PROVE WaitingHasRefresh'
    <3>0. <<TabOf[c], "refresh">> \in Request
      BY Requests
    <3>1. call'[c] = "waiting" => step'[<<TabOf[c], "refresh">>] # "none"
      BY <2>3, <3>0 DEF TypeOK, Unauthorized, Await, End, Send
    <3>2. \A q \in Request : step[q] # "none" => step'[q] # "none"
      BY <2>3 DEF TypeOK, Unauthorized, Send
    <3>3. \A e \in Call \ {c} : call'[e] = call[e]
      BY <2>3 DEF TypeOK, Unauthorized, Await, End
    <3> QED
      BY <3>1, <3>2, <3>3, Requests DEF WaitingHasRefresh
  <2>4. ASSUME NEW t \in FormTab, Register(t) PROVE WaitingHasRefresh'
    <3>1. call' = call /\ \A q \in Request : step[q] # "none" => step'[q] # "none"
      BY <2>4 DEF TypeOK, Register, Submit, Send
    <3> QED
      BY <3>1, Requests DEF WaitingHasRefresh
  <2>5. ASSUME NEW t \in FormTab, Login(t) PROVE WaitingHasRefresh'
    <3>1. call' = call /\ \A q \in Request : step[q] # "none" => step'[q] # "none"
      BY <2>5 DEF TypeOK, Login, Submit, Send
    <3> QED
      BY <3>1, Requests DEF WaitingHasRefresh
  <2>6. ASSUME NEW t \in FormTab, Logout(t) PROVE WaitingHasRefresh'
    <3>1. call' = call /\ \A q \in Request : step[q] # "none" => step'[q] # "none"
      BY <2>6 DEF TypeOK, Logout, Submit, Send, Cookies
    <3> QED
      BY <3>1, Requests DEF WaitingHasRefresh
  <2>7. ASSUME NEW t \in FormTab, LogoutAll(t) PROVE WaitingHasRefresh'
    <3>1. call' = call /\ \A q \in Request : step[q] # "none" => step'[q] # "none"
      BY <2>7 DEF TypeOK, LogoutAll, Submit, Send, Cookies
    <3> QED
      BY <3>1, Requests DEF WaitingHasRefresh
  <2>8. ASSUME NEW r \in Request, ReadRefresh(r) PROVE WaitingHasRefresh'
    <3>1. call' = call /\ \A q \in Request : step[q] # "none" => step'[q] # "none"
      BY <2>8 DEF TypeOK, ReadRefresh, Received, Fetch, Respond
    <3> QED
      BY <3>1, Requests DEF WaitingHasRefresh
  <2>9. ASSUME NEW r \in Request, ReadLogout(r) PROVE WaitingHasRefresh'
    <3>1. call' = call /\ \A q \in Request : step[q] # "none" => step'[q] # "none"
      BY <2>9 DEF TypeOK, ReadLogout, Received, Fetch, Respond
    <3> QED
      BY <3>1, Requests DEF WaitingHasRefresh
  <2>10. ASSUME NEW r \in Request, ReadLogoutAll(r) PROVE WaitingHasRefresh'
    <3>1. call' = call /\ \A q \in Request : step[q] # "none" => step'[q] # "none"
      BY <2>10 DEF TypeOK, ReadLogoutAll, Received, Fetch, Respond
    <3> QED
      BY <3>1, Requests DEF WaitingHasRefresh
  <2>11. ASSUME NEW r \in Request, CommitRefresh(r) PROVE WaitingHasRefresh'
    <3>1. call' = call /\ \A q \in Request : step[q] # "none" => step'[q] # "none"
      BY <2>11 DEF TypeOK, CommitRefresh, BuildSession, Respond
    <3> QED
      BY <3>1, Requests DEF WaitingHasRefresh
  <2>12. ASSUME NEW r \in Request, CommitSignOut(r) PROVE WaitingHasRefresh'
    <3>1. call' = call /\ \A q \in Request : step[q] # "none" => step'[q] # "none"
      BY <2>12 DEF TypeOK, CommitSignOut, Respond
    <3> QED
      BY <3>1, Requests DEF WaitingHasRefresh
  <2>13. ASSUME NEW r \in Request, CommitRegister(r) PROVE WaitingHasRefresh'
    <3>1. call' = call /\ \A q \in Request : step[q] # "none" => step'[q] # "none"
      BY <2>13 DEF TypeOK, CommitRegister, Received, BuildSession, Respond
    <3> QED
      BY <3>1, Requests DEF WaitingHasRefresh
  <2>14. ASSUME NEW r \in Request, CommitLogin(r) PROVE WaitingHasRefresh'
    <3>1. call' = call /\ \A q \in Request : step[q] # "none" => step'[q] # "none"
      BY <2>14 DEF TypeOK, CommitLogin, Received, BuildSession, Respond
    <3> QED
      BY <3>1, Requests DEF WaitingHasRefresh
  <2>15. ASSUME NEW r \in Request, Refused(r) PROVE WaitingHasRefresh'
    <3>1. call' = call /\ \A q \in Request : step[q] # "none" => step'[q] # "none"
      BY <2>15 DEF TypeOK, Refused, Respond
    <3> QED
      BY <3>1, Requests DEF WaitingHasRefresh
  <2>16. ASSUME NEW r \in Request, Reply(r) PROVE WaitingHasRefresh'
    <3>1. \A q \in Request \ {r} : step'[q] = step[q]
      BY <2>16 DEF TypeOK, Reply, Close
    <3>2. CASE r[2] = "refresh"
      <4>1. \A c \in Call : TabOf[c] = r[1] => call'[c] # "waiting"
        BY <2>16, <3>2 DEF TypeOK, Reply, Settle
      <4>2. \A c \in Call : TabOf[c] # r[1] => call'[c] = call[c]
        BY <2>16, <3>2 DEF TypeOK, Reply, Settle
      <4>3. \A c \in Call : TabOf[c] # r[1] => <<TabOf[c], "refresh">> # r
        OBVIOUS
      <4> QED
        BY <3>1, <4>1, <4>2, <4>3, Requests DEF WaitingHasRefresh
    <3>3. CASE r[2] # "refresh"
      <4>1. call' = call /\ \A c \in Call : <<TabOf[c], "refresh">> # r
        BY <2>16, <3>3 DEF Reply
      <4> QED
        BY <3>1, <4>1, Requests DEF WaitingHasRefresh
    <3> QED
      BY <3>2, <3>3
  <2>17. ASSUME NEW r \in Request, Lost(r) PROVE WaitingHasRefresh'
    <3>1. \A q \in Request \ {r} : step'[q] = step[q]
      BY <2>17 DEF TypeOK, Lost, Close
    <3>2. CASE r[2] = "refresh"
      <4>1. \A c \in Call : TabOf[c] = r[1] => call'[c] # "waiting"
        BY <2>17, <3>2 DEF TypeOK, Lost, Settle
      <4>2. \A c \in Call : TabOf[c] # r[1] => call'[c] = call[c]
        BY <2>17, <3>2 DEF TypeOK, Lost, Settle
      <4>3. \A c \in Call : TabOf[c] # r[1] => <<TabOf[c], "refresh">> # r
        OBVIOUS
      <4> QED
        BY <3>1, <4>1, <4>2, <4>3, Requests DEF WaitingHasRefresh
    <3>3. CASE r[2] # "refresh"
      <4>1. call' = call /\ \A c \in Call : <<TabOf[c], "refresh">> # r
        BY <2>17, <3>3 DEF Lost
      <4> QED
        BY <3>1, <4>1, Requests DEF WaitingHasRefresh
    <3> QED
      BY <3>2, <3>3
  <2>18. ASSUME NEW s \in Session, AccessExpires(s) PROVE WaitingHasRefresh'
    <3>1. call' = call /\ \A q \in Request : step[q] # "none" => step'[q] # "none"
      BY <2>18 DEF TypeOK, AccessExpires
    <3> QED
      BY <3>1, Requests DEF WaitingHasRefresh
  <2>19. ASSUME NEW s \in Session, SessionExpires(s) PROVE WaitingHasRefresh'
    <3>1. call' = call /\ \A q \in Request : step[q] # "none" => step'[q] # "none"
      BY <2>19 DEF TypeOK, SessionExpires
    <3> QED
      BY <3>1, Requests DEF WaitingHasRefresh
  <2>20. CASE UNCHANGED vars
    BY <2>20 DEF vars, WaitingHasRefresh
  <2> QED
    BY <2>1, <2>2, <2>3, <2>4, <2>5, <2>6, <2>7, <2>8, <2>9, <2>10, <2>11, <2>12, <2>13,
       <2>14, <2>15, <2>16, <2>17, <2>18, <2>19, <2>20 DEF Next, Serve
<1> QED
  BY <1>0, <1>a, TypeCorrect, PTL DEF Spec

-----------------------------------------------------------------------------
(* One session per sign-in.                                                 *)

Open(s) == session[s] \in {"live", "expired"}

(* What requests hold, and what becomes of it.                              *)
HeldRows ==
    \A r \in Request :
        /\ step[r] # "read" => read[r] = {}
        /\ step[r] = "read" /\ kind[r] = "refresh" => read[r] = {token[r]}
        /\ \A s \in read[r] :
               /\ session[s] # "unused"
               /\ origin[s] \notin raced =>
                      /\ Open(s)
                      /\ kind[r] = "refresh" => session[s] = "live"
                      /\ \A q \in Request : s \in read[q] => q = r

(* Rows not used yet are nobody's ancestors.                                *)
UnusedRows ==
    \A s \in Session : session[s] = "unused" =>
        /\ origin[s] = s /\ s \notin ended
        /\ \A u \in Session : origin[u] = s => u = s

(* At most one row of a sign-in is not revoked, and none once it has ended. *)
OpenRows ==
    /\ \A s, u \in Session :
           Open(s) /\ Open(u) /\ origin[s] = origin[u] /\ origin[s] \notin raced => s = u
    /\ \A s \in Session : Open(s) => origin[s] \notin ended \ raced

Rotation == HeldRows /\ UnusedRows /\ OpenRows

LEMMA RotationInitial == Init => Rotation
<1> SUFFICES ASSUME Init PROVE Rotation
  OBVIOUS
<1>1. \A r \in Request : step[r] = "none" /\ read[r] = {}
  BY DEF Init
<1>2. (\A s \in Session : origin[s] = s) /\ ended = {}
  BY DEF Init
<1> QED
  BY <1>1, <1>2 DEF Rotation, HeldRows, UnusedRows, OpenRows

(* Steps that leave the table alone.                                        *)
LEMMA RotationStays ==
  ASSUME TypeOK, Rotation, UNCHANGED <<session, origin, raced, ended>>,
         \A r \in Request :
             \/ UNCHANGED <<step[r], kind[r], token[r], read[r]>>
             \/ step'[r] # "read" /\ read'[r] = {}
  PROVE  Rotation'
<1>1. UnusedRows' /\ OpenRows'
  BY DEF Rotation, UnusedRows, OpenRows, Open
<1>2. HeldRows'
  BY DEF Rotation, HeldRows, Open
<1> QED
  BY <1>1, <1>2 DEF Rotation

(* A request takes rows into its hands; who holds them too has raced it.    *)
LEMMA FetchKeeps ==
  ASSUME TypeOK, Rotation, NEW r \in Request, NEW rows \in SUBSET Session, read[r] = {},
         Fetch(r, rows), UNCHANGED session,
         kind[r] = "refresh" => rows = {token[r]},
         \A s \in rows : session[s] = "live" \/ (kind[r] # "refresh" /\ Open(s))
  PROVE  Rotation'
<1> USE DEF Open
<1>1. /\ UNCHANGED <<kind, token, origin, ended, session>>
      /\ step' = [step EXCEPT ![r] = "read"] /\ read' = [read EXCEPT ![r] = rows]
      /\ raced \subseteq raced'
      /\ \A s \in rows, q \in Request : s \in read[q] => origin[s] \in raced'
  BY DEF Fetch
<1>2. UnusedRows' /\ OpenRows'
  BY <1>1 DEF Rotation, UnusedRows, OpenRows
<1>3. ASSUME NEW q \in Request PROVE
        /\ step'[q] # "read" => read'[q] = {}
        /\ step'[q] = "read" /\ kind'[q] = "refresh" => read'[q] = {token'[q]}
  BY <1>1 DEF TypeOK, Rotation, HeldRows
<1>4. ASSUME NEW q \in Request, NEW s \in read'[q] PROVE
        /\ session'[s] # "unused"
        /\ origin'[s] \notin raced' => Open(s)' /\ (kind'[q] = "refresh" => session'[s] = "live")
  BY <1>1, <1>4 DEF TypeOK, Rotation, HeldRows
<1>5. ASSUME NEW q \in Request, NEW s \in read'[q], origin'[s] \notin raced',
             NEW p \in Request, s \in read'[p]
      PROVE  p = q
  BY <1>1, <1>5 DEF TypeOK, Rotation, HeldRows
<1>6. HeldRows'
  BY <1>3, <1>4, <1>5 DEF HeldRows
<1> QED
  BY <1>2, <1>6 DEF Rotation

(* A row is added; it begins a sign-in of its own.                          *)
LEMMA SignInKeeps ==
  ASSUME TypeOK, Rotation, NEW r \in Request, step[r] = "sent", NEW s \in Session,
         NextRow(s), BuildSession(r, s, {}), UNCHANGED history
  PROVE  Rotation'
<1>1. /\ session[s] = "unused" /\ UNCHANGED <<kind, token, origin, raced, ended>>
      /\ session' = [u \in Session |-> IF u = s THEN "live" ELSE session[u]]
      /\ step' = [step EXCEPT ![r] = "replied"] /\ read' = [read EXCEPT ![r] = {}]
  BY DEF NextRow, Unused, BuildSession, Respond, history
<1>2. UnusedRows'
  BY <1>1 DEF Rotation, UnusedRows
<1>3. OpenRows'
  BY <1>1 DEF Rotation, UnusedRows, OpenRows, Open
<1>4. HeldRows'
  BY <1>1 DEF TypeOK, Rotation, HeldRows, Open
<1> QED
  BY <1>2, <1>3, <1>4 DEF Rotation

LEMMA RotationKept == TypeOK /\ Tokens /\ Rotation /\ [Next]_vars => Rotation'
<1> SUFFICES ASSUME TypeOK, Tokens, Rotation, [Next]_vars PROVE Rotation'
  OBVIOUS
<1>1. ASSUME NEW c \in Call, Ask(c) PROVE Rotation'
  <2>1. UNCHANGED <<session, origin, raced, ended, step, kind, token, read>>
    BY <1>1 DEF Ask, server, calls, request, bounds, history
  <2> QED
    BY <2>1, RotationStays
<1>2. ASSUME NEW c \in Call, Answered(c) PROVE Rotation'
  <2>1. UNCHANGED <<session, origin, raced, ended, step, kind, token, read>>
    BY <1>2 DEF Answered, server, calls, request, bounds, history
  <2> QED
    BY <2>1, RotationStays
<1>3. ASSUME NEW c \in Call, Unauthorized(c) PROVE Rotation'
  <2>1. UNCHANGED <<session, origin, raced, ended>>
    BY <1>3 DEF Unauthorized, Cookies, Send, server, calls, request, bounds, history
  <2>2. \A q \in Request : step[q] = "none" => read[q] = {}
    BY DEF Rotation, HeldRows
  <2>3. CASE UNCHANGED request
    BY <2>1, <2>3, RotationStays DEF request
  <2>4. CASE ~ UNCHANGED request
    <3> DEFINE q == <<TabOf[c], "refresh">>
    <3>1. q \in Request /\ Send(q, "refresh", Cookies(TabOf[c]).refresh)
      BY <1>3, <2>4, Requests DEF Unauthorized
    <3> HIDE DEF q
    <3>2. step'[q] # "read" /\ read'[q] = {}
      BY <2>2, <3>1 DEF Send, TypeOK
    <3>3. \A p \in Request \ {q} : UNCHANGED <<step[p], kind[p], token[p], read[p]>>
      BY <3>1 DEF Send, TypeOK
    <3> QED
      BY <2>1, <3>1, <3>2, <3>3, RotationStays
  <2> QED
    BY <2>3, <2>4
<1>4. ASSUME NEW t \in FormTab, Register(t) PROVE Rotation'
  <2>1. UNCHANGED <<session, origin, raced, ended>>
    BY <1>4 DEF Register, Submit, Send, server, calls, request, bounds, history
  <2>2. \A q \in Request : step[q] = "none" => read[q] = {}
    BY DEF Rotation, HeldRows
  <2> DEFINE q == <<t, "form">>
  <2>3. q \in Request /\ \E k, tok : Send(q, k, tok)
    BY <1>4, Requests DEF Register, Submit
  <2> HIDE DEF q
  <2>4. step'[q] # "read" /\ read'[q] = {}
    BY <2>2, <2>3 DEF Send, TypeOK
  <2>5. \A p \in Request \ {q} : UNCHANGED <<step[p], kind[p], token[p], read[p]>>
    BY <2>3 DEF Send, TypeOK
  <2> QED
    BY <2>1, <2>3, <2>4, <2>5, RotationStays
<1>5. ASSUME NEW t \in FormTab, Login(t) PROVE Rotation'
  <2>1. UNCHANGED <<session, origin, raced, ended>>
    BY <1>5 DEF Login, Submit, Send, server, calls, request, bounds, history
  <2>2. \A q \in Request : step[q] = "none" => read[q] = {}
    BY DEF Rotation, HeldRows
  <2> DEFINE q == <<t, "form">>
  <2>3. q \in Request /\ \E k, tok : Send(q, k, tok)
    BY <1>5, Requests DEF Login, Submit
  <2> HIDE DEF q
  <2>4. step'[q] # "read" /\ read'[q] = {}
    BY <2>2, <2>3 DEF Send, TypeOK
  <2>5. \A p \in Request \ {q} : UNCHANGED <<step[p], kind[p], token[p], read[p]>>
    BY <2>3 DEF Send, TypeOK
  <2> QED
    BY <2>1, <2>3, <2>4, <2>5, RotationStays
<1>6. ASSUME NEW t \in FormTab, Logout(t) PROVE Rotation'
  <2>1. UNCHANGED <<session, origin, raced, ended>>
    BY <1>6 DEF Logout, Submit, Send, Cookies, server, calls, request, bounds, history
  <2>2. \A q \in Request : step[q] = "none" => read[q] = {}
    BY DEF Rotation, HeldRows
  <2> DEFINE q == <<t, "form">>
  <2>3. q \in Request /\ \E k, tok : Send(q, k, tok)
    BY <1>6, Requests DEF Logout, Submit
  <2> HIDE DEF q
  <2>4. step'[q] # "read" /\ read'[q] = {}
    BY <2>2, <2>3 DEF Send, TypeOK
  <2>5. \A p \in Request \ {q} : UNCHANGED <<step[p], kind[p], token[p], read[p]>>
    BY <2>3 DEF Send, TypeOK
  <2> QED
    BY <2>1, <2>3, <2>4, <2>5, RotationStays
<1>7. ASSUME NEW t \in FormTab, LogoutAll(t) PROVE Rotation'
  <2>1. UNCHANGED <<session, origin, raced, ended>>
    BY <1>7 DEF LogoutAll, Submit, Send, Cookies, server, calls, request, bounds, history
  <2>2. \A q \in Request : step[q] = "none" => read[q] = {}
    BY DEF Rotation, HeldRows
  <2> DEFINE q == <<t, "form">>
  <2>3. q \in Request /\ \E k, tok : Send(q, k, tok)
    BY <1>7, Requests DEF LogoutAll, Submit
  <2> HIDE DEF q
  <2>4. step'[q] # "read" /\ read'[q] = {}
    BY <2>2, <2>3 DEF Send, TypeOK
  <2>5. \A p \in Request \ {q} : UNCHANGED <<step[p], kind[p], token[p], read[p]>>
    BY <2>3 DEF Send, TypeOK
  <2> QED
    BY <2>1, <2>3, <2>4, <2>5, RotationStays
<1>8. ASSUME NEW r \in Request, ReadRefresh(r) PROVE Rotation'
  <2>0. read[r] = {} /\ session' = session /\ kind[r] = "refresh"
    BY <1>8 DEF Rotation, HeldRows, ReadRefresh, Received, server
  <2>1. CASE session[token[r]] = "live"
    <3>1. Fetch(r, {token[r]})
      BY <1>8, <2>1 DEF ReadRefresh
    <3>2. token[r] \in Session
      BY <1>8 DEF Tokens, ReadRefresh, Received
    <3> QED
      BY <2>0, <2>1, <3>1, <3>2, FetchKeeps
  <2>2. CASE session[token[r]] # "live"
    <3>1. /\ UNCHANGED <<session, origin, raced, ended>>
          /\ step'[r] # "read" /\ read'[r] = {}
      BY <1>8, <2>2 DEF TypeOK, ReadRefresh, Respond, server, history
    <3>2. \A q \in Request \ {r} : UNCHANGED <<step[q], kind[q], token[q], read[q]>>
      BY <1>8, <2>2 DEF TypeOK, ReadRefresh, Respond
    <3> QED
      BY <3>1, <3>2, RotationStays
  <2> QED
    BY <2>1, <2>2
<1>9. ASSUME NEW r \in Request, ReadLogout(r) PROVE Rotation'
  <2>0. read[r] = {} /\ session' = session /\ kind[r] = "logout"
    BY <1>9 DEF Rotation, HeldRows, ReadLogout, Received, server
  <2>1. CASE session[token[r]] = "live"
    <3>1. Fetch(r, {token[r]})
      BY <1>9, <2>1 DEF ReadLogout
    <3>2. token[r] \in Session
      BY <1>9 DEF Tokens, ReadLogout, Received
    <3> QED
      BY <2>0, <2>1, <3>1, <3>2, FetchKeeps
  <2>2. CASE session[token[r]] # "live"
    <3>1. /\ UNCHANGED <<session, origin, raced, ended>>
          /\ step'[r] # "read" /\ read'[r] = {}
      BY <1>9, <2>2 DEF TypeOK, ReadLogout, Respond, server, history
    <3>2. \A q \in Request \ {r} : UNCHANGED <<step[q], kind[q], token[q], read[q]>>
      BY <1>9, <2>2 DEF TypeOK, ReadLogout, Respond
    <3> QED
      BY <3>1, <3>2, RotationStays
  <2> QED
    BY <2>1, <2>2
<1>10. ASSUME NEW r \in Request, ReadLogoutAll(r) PROVE Rotation'
  <2>0. read[r] = {} /\ session' = session /\ kind[r] = "logout_all"
    BY <1>10 DEF Rotation, HeldRows, ReadLogoutAll, Received, server
  <2>1. CASE Authorized(token[r])
    <3>1. Fetch(r, {s \in Session : session[s] \in {"live", "expired"}})
      BY <1>10, <2>1 DEF ReadLogoutAll
    <3> QED
      BY <2>0, <3>1, FetchKeeps DEF Open
  <2>2. CASE ~ Authorized(token[r])
    <3>1. /\ UNCHANGED <<session, origin, raced, ended>>
          /\ step'[r] # "read" /\ read'[r] = {}
      BY <1>10, <2>2 DEF TypeOK, ReadLogoutAll, Respond, server, history
    <3>2. \A q \in Request \ {r} : UNCHANGED <<step[q], kind[q], token[q], read[q]>>
      BY <1>10, <2>2 DEF TypeOK, ReadLogoutAll, Respond
    <3> QED
      BY <3>1, <3>2, RotationStays
  <2> QED
    BY <2>1, <2>2
<1>11. ASSUME NEW r \in Request, CommitRefresh(r) PROVE Rotation'
  <2> DEFINE old == token[r]
  <2>1. /\ old \in Session /\ old \in read[r] /\ step[r] = "read" /\ kind[r] = "refresh"
        /\ session[old] # "unused"
    BY <1>11 DEF CommitRefresh, Tokens, Rotation, HeldRows
  <2>2. PICK s \in Session : /\ NextRow(s) /\ BuildSession(r, s, {old})
                             /\ origin' = [origin EXCEPT ![s] = origin[old]]
    BY <1>11 DEF CommitRefresh
  <2> HIDE DEF old
  <2>3. /\ session[s] = "unused" /\ UNCHANGED <<kind, token, raced, ended>>
        /\ session' = [u \in Session |-> IF u = s THEN "live"
                                          ELSE IF u = old THEN "revoked" ELSE session[u]]
        /\ step' = [step EXCEPT ![r] = "replied"] /\ read' = [read EXCEPT ![r] = {}]
    BY <1>11, <2>2 DEF CommitRefresh, NextRow, Unused, BuildSession, Respond
  <2>4. s # old /\ session[origin[old]] # "unused" /\ origin[old] \in Session
    BY <2>1, <2>3 DEF Rotation, UnusedRows, TypeOK
  <2>5. \A u \in Session : origin'[u] = IF u = s THEN origin[old] ELSE origin[u]
    BY <2>2 DEF TypeOK
  <2>6. UnusedRows'
    BY <2>1, <2>3, <2>4, <2>5 DEF Rotation, UnusedRows
  <2>7. origin[old] \notin raced => session[old] = "live"
    BY <2>1 DEF Rotation, HeldRows
  <2>8. OpenRows'
    <3>1. ASSUME NEW u \in Session, NEW v \in Session, Open(u)', Open(v)',
                 origin'[u] = origin'[v], origin'[u] \notin raced
          PROVE  u = v
      BY <2>1, <2>3, <2>4, <2>5, <2>7, <3>1 DEF Rotation, OpenRows, Open
    <3>2. ASSUME NEW u \in Session, Open(u)', origin'[u] \in ended \ raced PROVE FALSE
      BY <2>1, <2>3, <2>4, <2>5, <2>7, <3>2 DEF Rotation, OpenRows, Open
    <3> QED
      BY <2>3, <3>1, <3>2 DEF OpenRows
  <2>9. HeldRows'
    <3>1. ASSUME NEW q \in Request PROVE
            /\ step'[q] # "read" => read'[q] = {}
            /\ step'[q] = "read" /\ kind'[q] = "refresh" => read'[q] = {token'[q]}
      BY <2>3 DEF TypeOK, Rotation, HeldRows
    <3>2. ASSUME NEW q \in Request, NEW u \in read'[q]
          PROVE  q # r /\ u \in read[q] /\ u \in Session /\ u # s /\ session[u] # "unused"
      BY <2>3, <3>2 DEF TypeOK, Rotation, HeldRows
    <3>3. ASSUME NEW q \in Request, NEW u \in read'[q] PROVE
            /\ session'[u] # "unused"
            /\ origin'[u] \notin raced' =>
                  /\ Open(u)' /\ (kind'[q] = "refresh" => session'[u] = "live")
                  /\ \A p \in Request : u \in read'[p] => p = q
      <4>1. q # r /\ u \in read[q] /\ u \in Session /\ u # s /\ session[u] # "unused"
        BY <3>2, <3>3
      <4>2. origin'[u] = origin[u]
        BY <2>5, <4>1
      <4>3. origin[u] \notin raced => u # old
        BY <2>1, <4>1 DEF Rotation, HeldRows
      <4> QED
        BY <2>3, <3>2, <3>3, <4>1, <4>2, <4>3 DEF Rotation, HeldRows, Open
    <3> QED
      BY <3>1, <3>3 DEF HeldRows
  <2> QED
    BY <2>6, <2>8, <2>9 DEF Rotation
<1>12. ASSUME NEW r \in Request, CommitSignOut(r) PROVE Rotation'
  <2>1. /\ UNCHANGED <<kind, token, origin, raced>> /\ step[r] = "read"
        /\ session' = [u \in Session |-> IF u \in read[r] THEN "revoked" ELSE session[u]]
        /\ ended' = ended \cup {origin[u] : u \in read[r]}
        /\ step' = [step EXCEPT ![r] = "replied"] /\ read' = [read EXCEPT ![r] = {}]
    BY <1>12 DEF CommitSignOut, Respond
  <2>2. \A u \in read[r] : u \in Session /\ session[u] # "unused"
                            /\ (origin[u] \notin raced => Open(u))
    BY DEF Rotation, HeldRows, TypeOK
  <2>3. UnusedRows'
    BY <2>1, <2>2 DEF Rotation, UnusedRows
  <2>4. OpenRows'
    BY <2>1, <2>2 DEF Rotation, OpenRows, Open
  <2>5. HeldRows'
    <3>1. ASSUME NEW q \in Request PROVE
            /\ step'[q] # "read" => read'[q] = {}
            /\ step'[q] = "read" /\ kind'[q] = "refresh" => read'[q] = {token'[q]}
      BY <2>1 DEF TypeOK, Rotation, HeldRows
    <3>2. ASSUME NEW q \in Request, NEW u \in read'[q]
          PROVE  q # r /\ u \in read[q] /\ u \in Session
      BY <2>1, <3>2 DEF TypeOK
    <3>3. ASSUME NEW q \in Request, NEW u \in read'[q] PROVE
            /\ session'[u] # "unused"
            /\ origin'[u] \notin raced' =>
                  /\ Open(u)' /\ (kind'[q] = "refresh" => session'[u] = "live")
                  /\ \A p \in Request : u \in read'[p] => p = q
      <4>1. q # r /\ u \in read[q] /\ u \in Session
        BY <3>2, <3>3
      <4>2. origin[u] \notin raced => u \notin read[r]
        BY <4>1 DEF Rotation, HeldRows
      <4> QED
        BY <2>1, <3>2, <3>3, <4>1, <4>2 DEF Rotation, HeldRows, Open
    <3> QED
      BY <3>1, <3>3 DEF HeldRows
  <2> QED
    BY <2>3, <2>4, <2>5 DEF Rotation
<1>13. ASSUME NEW r \in Request, CommitRegister(r) PROVE Rotation'
  <2>1. step[r] = "sent" /\ UNCHANGED history
    BY <1>13 DEF CommitRegister, Received
  <2>2. PICK s \in Session : NextRow(s) /\ BuildSession(r, s, {})
    BY <1>13 DEF CommitRegister
  <2> QED
    BY <2>1, <2>2, SignInKeeps
<1>14. ASSUME NEW r \in Request, CommitLogin(r) PROVE Rotation'
  <2>1. step[r] = "sent" /\ UNCHANGED history
    BY <1>14 DEF CommitLogin, Received
  <2>2. PICK s \in Session : NextRow(s) /\ BuildSession(r, s, {})
    BY <1>14 DEF CommitLogin
  <2> QED
    BY <2>1, <2>2, SignInKeeps
<1>15. ASSUME NEW r \in Request, Refused(r) PROVE Rotation'
  <2>1. /\ UNCHANGED <<session, origin, raced, ended>>
        /\ step'[r] # "read" /\ read'[r] = {}
    BY <1>15 DEF TypeOK, Refused, Respond, server, history
  <2>2. \A q \in Request \ {r} : UNCHANGED <<step[q], kind[q], token[q], read[q]>>
    BY <1>15 DEF TypeOK, Refused, Respond
  <2> QED
    BY <2>1, <2>2, RotationStays
<1>16. ASSUME NEW r \in Request, Reply(r) PROVE Rotation'
  <2>1. /\ UNCHANGED <<session, origin, raced, ended>>
        /\ step'[r] # "read" /\ read'[r] = {}
    BY <1>16 DEF TypeOK, Reply, Close, server, calls, request, bounds, history
  <2>2. \A q \in Request \ {r} : UNCHANGED <<step[q], kind[q], token[q], read[q]>>
    BY <1>16 DEF TypeOK, Reply, Close, server, calls, request, bounds, history
  <2> QED
    BY <2>1, <2>2, RotationStays
<1>17. ASSUME NEW r \in Request, Lost(r) PROVE Rotation'
  <2>1. /\ UNCHANGED <<session, origin, raced, ended>>
        /\ step'[r] # "read" /\ read'[r] = {}
    BY <1>17 DEF TypeOK, Lost, Close, server, calls, request, bounds, history
  <2>2. \A q \in Request \ {r} : UNCHANGED <<step[q], kind[q], token[q], read[q]>>
    BY <1>17 DEF TypeOK, Lost, Close, server, calls, request, bounds, history
  <2> QED
    BY <2>1, <2>2, RotationStays
<1>18. ASSUME NEW s \in Session, AccessExpires(s) PROVE Rotation'
  <2>1. UNCHANGED <<session, origin, raced, ended, step, kind, token, read>>
    BY <1>18 DEF AccessExpires, server, calls, request, bounds, history
  <2> QED
    BY <2>1, RotationStays
<1>19. ASSUME NEW s \in Session, SessionExpires(s) PROVE Rotation'
  <2>1. /\ UNCHANGED <<step, kind, token, read, origin, raced, ended>>
        /\ session[s] = "live" /\ session' = [session EXCEPT ![s] = "expired"]
        /\ \A r \in Request : s \notin read[r]
    BY <1>19 DEF SessionExpires, request, history
  <2>2. UnusedRows' /\ OpenRows'
    BY <2>1 DEF TypeOK, Rotation, UnusedRows, OpenRows, Open
  <2>3. HeldRows'
    BY <2>1 DEF TypeOK, Rotation, HeldRows, Open
  <2> QED
    BY <2>2, <2>3 DEF Rotation
<1>20. CASE UNCHANGED vars
  <2>1. UNCHANGED <<session, origin, raced, ended, step, kind, token, read>>
    BY <1>20 DEF vars, server, calls, request, bounds, history
  <2> QED
    BY <2>1, RotationStays
<1> QED
  BY <1>1, <1>2, <1>3, <1>4, <1>5, <1>6, <1>7, <1>8, <1>9, <1>10, <1>11, <1>12, <1>13,
     <1>14, <1>15, <1>16, <1>17, <1>18, <1>19, <1>20 DEF Next, Serve

(* One sign-in has at most one live session, unless two requests held one   *)
(* of its rows at the same time (refresh_login_session reads without a lock *)
(* and commits row and replacement together).                               *)
THEOREM OneSessionPerSignInAlways == Spec => []OneSessionPerSignIn
<1>1. TypeOK /\ Rotation => OneSessionPerSignIn
  <2> SUFFICES ASSUME TypeOK, Rotation, NEW o \in Session \ raced PROVE Cardinality(LiveOf(o)) <= 1
    BY DEF OneSessionPerSignIn
  <2>1. CASE LiveOf(o) = {}
    BY <2>1, FS_EmptySet
  <2>2. CASE LiveOf(o) # {}
    <3>1. PICK s : s \in LiveOf(o)
      BY <2>2
    <3>2. LiveOf(o) = {s}
      BY <3>1 DEF LiveOf, Rotation, OpenRows, Open
    <3>3. Cardinality({s}) = 1
      BY FS_Singleton
    <3> QED
      BY <3>2, <3>3
  <2> QED
    BY <2>1, <2>2
<1> QED
  BY <1>1, TypesInitial, TypesKept, RotationInitial, RotationKept, PTL DEF Spec

(* A sign-out, from one device or from all, is final: nothing that descends *)
(* from the sessions it ended is live, unless another request held one of   *)
(* their rows at the same time (revoke_all_refresh_sessions).               *)
THEOREM SignOutHoldsAlways == Spec => []SignOutHolds
<1>1. TypeOK /\ Rotation => SignOutHolds
  BY DEF SignOutHolds, LiveOf, Rotation, OpenRows, Open
<1> QED
  BY <1>1, TypesInitial, TypesKept, RotationInitial, RotationKept, PTL DEF Spec

-----------------------------------------------------------------------------
(* The cookies a browser is left with.                                      *)

(* A request under way that will rotate the row of its token.               *)
Rotates(r) == step[r] \in {"sent", "read"} /\ kind[r] = "refresh"

Home(r) == BrowserOf[r[1]]

(* A refresh token is known to one browser: it is in its cookies or with    *)
(* requests of its tabs.                                                    *)
JarsApart ==
    \A b \in Browser : jar[b].refresh # None =>
        /\ session[jar[b].refresh] # "unused"
        /\ \A d \in Browser : jar[d].refresh = jar[b].refresh => d = b
        /\ \A r \in Request : Rotates(r) /\ token[r] = jar[b].refresh => Home(r) = b

TokensApart ==
    \A r \in Request : Rotates(r) =>
        /\ session[token[r]] # "unused"
        /\ \A q \in Request : Rotates(q) /\ token[q] = token[r] => Home(q) = Home(r)

(* A session on its way to a browser is known to nobody, so only a sign-out *)
(* can have ended it.                                                       *)
ResultsApart ==
    \A r \in Request : result[r] \in Session =>
        /\ step[r] = "replied"
        /\ \/ session[result[r]] = "live"
           \/ session[result[r]] = "revoked" /\ origin[result[r]] \in ended
        /\ \A q \in Request : result[q] = result[r] => q = r
        /\ \A b \in Browser : jar[b].refresh # result[r]
        /\ \A q \in Request : Rotates(q) => token[q] # result[r]

(* What took the row of a browser's cookies is about to bring new ones.     *)
Replaced(b) ==
    \/ session[jar[b].refresh] = "live"
    \/ origin[jar[b].refresh] \in torn \cup ended
    \/ \E r \in Request : /\ Home(r) = b /\ step[r] = "replied" /\ result[r] \in Session
                          /\ origin[result[r]] = origin[jar[b].refresh]

Cookie ==
    /\ JarsApart /\ TokensApart /\ ResultsApart
    /\ \A b \in Browser : jar[b].refresh # None => Replaced(b)

LEMMA CookieInitial == Init => Cookie
<1> SUFFICES ASSUME Init PROVE Cookie
  OBVIOUS
<1>1. PICK signedIn \in Start :
         /\ jar = [b \in Browser |-> [access |-> signedIn[b], refresh |-> signedIn[b]]]
         /\ session = [s \in Session |->
                          IF \E b \in Browser : signedIn[b] = s THEN "live" ELSE "unused"]
  BY DEF Init
<1>2. /\ signedIn \in [Browser -> Session \cup {None}]
      /\ \A b, d \in Browser : signedIn[b] = signedIn[d] => b = d \/ signedIn[b] = None
  BY SignInAssumption
<1>3. \A r \in Request : step[r] = "none" /\ result[r] = None
  BY DEF Init
<1>4. None \notin Session
  BY SignInAssumption DEF Session
<1>5. \A b \in Browser : jar[b].refresh # None =>
         jar[b].refresh \in Session /\ session[jar[b].refresh] = "live"
  BY <1>1, <1>2
<1>6. \A b, d \in Browser : jar[b].refresh = jar[d].refresh => b = d \/ jar[b].refresh = None
  BY <1>1, <1>2
<1> QED
  BY <1>3, <1>4, <1>5, <1>6
  DEF Cookie, JarsApart, TokensApart, ResultsApart, Replaced, Rotates

(* A request that is answered without a session, or goes on, brings nothing *)
(* and takes nothing away.                                                  *)
LEMMA CookieStays ==
  ASSUME Cookie, UNCHANGED <<jar, session, origin>>, torn \subseteq torn', ended \subseteq ended',
         \A q \in Request : Rotates(q)' => Rotates(q) /\ token'[q] = token[q],
         \A q \in Request : result[q] \in Session \/ result'[q] \in Session =>
                               result'[q] = result[q] /\ step'[q] = step[q]
  PROVE  Cookie'
<1>1. JarsApart'
  BY DEF Cookie, JarsApart, Home
<1>2. TokensApart'
  BY DEF Cookie, TokensApart, Home
<1>3. ResultsApart'
  BY DEF Cookie, ResultsApart
<1>4. ASSUME NEW b \in Browser, jar'[b].refresh # None PROVE Replaced(b)'
  BY <1>4 DEF Cookie, Replaced, Home
<1> QED
  BY <1>1, <1>2, <1>3, <1>4 DEF Cookie

(* A tab sends the token of its browser.                                    *)
LEMMA CookieSent ==
  ASSUME TypeOK, Cookie, UNCHANGED <<jar, session, history>>, NEW t \in Tab,
         Send(<<t, "refresh">>, "refresh", jar[BrowserOf[t]].refresh),
         jar[BrowserOf[t]].refresh # None
  PROVE  Cookie'
<1> DEFINE r == <<t, "refresh">>
           b == BrowserOf[t]
<1>0. r \in Request /\ b \in Browser /\ Home(r) = b
  BY Requests DEF Home
<1>1. /\ step' = [step EXCEPT ![r] = "sent"] /\ kind' = [kind EXCEPT ![r] = "refresh"]
      /\ token' = [token EXCEPT ![r] = jar[b].refresh] /\ UNCHANGED <<read, result>>
      /\ step[r] = "none" /\ jar[b].refresh # None
  BY DEF Send
<1> HIDE DEF r, b
<1>2. /\ Rotates(r)' /\ token'[r] = jar[b].refresh
      /\ \A q \in Request \ {r} : (Rotates(q)' <=> Rotates(q)) /\ token'[q] = token[q]
                                 /\ step'[q] = step[q]
  BY <1>0, <1>1 DEF Rotates, TypeOK
<1>3. jar[b].refresh \in Session
  BY <1>0, <1>1 DEF TypeOK
<1>4. JarsApart'
  BY <1>0, <1>1, <1>2 DEF Cookie, JarsApart, Home
<1>5. TokensApart'
  BY <1>0, <1>1, <1>2 DEF Cookie, JarsApart, TokensApart, Home
<1>6. result[r] \notin Session
  BY <1>0, <1>1 DEF Cookie, ResultsApart
<1>7. ResultsApart'
  BY <1>0, <1>1, <1>2, <1>6 DEF Cookie, ResultsApart, history
<1>8. ASSUME NEW d \in Browser, jar'[d].refresh # None PROVE Replaced(d)'
  BY <1>0, <1>1, <1>2, <1>6, <1>8 DEF Cookie, Replaced, Home, history
<1> QED
  BY <1>4, <1>5, <1>7, <1>8 DEF Cookie

(* A new session, and at most the row of its request's token replaced.      *)
LEMMA CookieBuilt ==
  ASSUME TypeOK, Tokens, Cookie, NEW r \in Request, NEW s \in Session, NEW replaced,
         NextRow(s), BuildSession(r, s, replaced), UNCHANGED <<jar, torn, ended>>,
         step[r] # "replied",
         \A u \in Session \ {s} : origin'[u] = origin[u],
         replaced # {} => /\ replaced = {token[r]} /\ Rotates(r)
                          /\ origin'[s] = origin[token[r]]
  PROVE  Cookie'
<1>1. /\ session[s] = "unused" /\ UNCHANGED <<kind, token>>
      /\ session' = [u \in Session |-> IF u = s THEN "live"
                                        ELSE IF u \in replaced THEN "revoked" ELSE session[u]]
      /\ step' = [step EXCEPT ![r] = "replied"] /\ result' = [result EXCEPT ![r] = s]
  BY DEF NextRow, Unused, BuildSession, Respond
<1>2. /\ \A q \in Request : Rotates(q)' => Rotates(q) /\ q # r
      /\ \A q \in Request \ {r} : step'[q] = step[q] /\ result'[q] = result[q]
      /\ step'[r] = "replied" /\ result'[r] = s
  BY <1>1 DEF Rotates, TypeOK
<1>3. /\ \A b \in Browser : jar[b].refresh # None => jar[b].refresh \in Session \ {s}
      /\ \A q \in Request : Rotates(q) => token[q] # s
      /\ \A q \in Request : result[q] # s
  <2>1. \A b \in Browser : jar[b].refresh \in Session \cup {None}
    BY DEF TypeOK
  <2> QED
    BY <1>1, <2>1 DEF Cookie, JarsApart, TokensApart, ResultsApart
<1>4. \A u \in Session : session[u] # "unused" => session'[u] # "unused"
  BY <1>1
<1>5. JarsApart'
  BY <1>1, <1>2, <1>3, <1>4 DEF Cookie, JarsApart, Home
<1>6. TokensApart'
  <2>1. ASSUME NEW q \in Request, Rotates(q)' PROVE session'[token'[q]] # "unused"
    <3>1. Rotates(q) /\ token'[q] = token[q]
      BY <1>1, <1>2, <2>1
    <3>2. session[token[q]] # "unused" /\ token[q] # s
      BY <1>3, <3>1 DEF Cookie, TokensApart
    <3>3. token[q] \in Session
      BY <3>1 DEF Rotates, Tokens
    <3> QED
      BY <1>1, <3>1, <3>2, <3>3
  <2> QED
    BY <1>1, <1>2, <2>1 DEF Cookie, TokensApart, Home
<1>7. ResultsApart'
  <2>1. ASSUME NEW q \in Request, result'[q] \in Session
        PROVE  /\ step'[q] = "replied"
               /\ \/ session'[result'[q]] = "live"
                  \/ session'[result'[q]] = "revoked" /\ origin'[result'[q]] \in ended'
    <3>1. CASE q = r
      BY <1>1, <1>2, <3>1
    <3>2. CASE q # r
      <4>1. result[q] \in Session /\ result'[q] = result[q] /\ step'[q] = step[q] /\ result[q] # s
        BY <1>2, <1>3, <2>1, <3>2
      <4>2. result[q] \notin replaced
        BY <4>1 DEF Cookie, ResultsApart
      <4>3. session'[result[q]] = session[result[q]] /\ origin'[result[q]] = origin[result[q]]
        BY <1>1, <4>1, <4>2
      <4> QED
        BY <4>1, <4>3 DEF Cookie, ResultsApart
    <3> QED
      BY <3>1, <3>2
  <2>2. ASSUME NEW q \in Request, result'[q] \in Session, NEW p \in Request, result'[p] = result'[q]
        PROVE  p = q
    BY <1>2, <1>3, <2>2 DEF Cookie, ResultsApart
  <2>3. ASSUME NEW q \in Request, result'[q] \in Session
        PROVE  /\ \A b \in Browser : jar'[b].refresh # result'[q]
               /\ \A p \in Request : Rotates(p)' => token'[p] # result'[q]
    <3>1. CASE q = r
      <4>1. None \notin Session
        BY SignInAssumption DEF Session
      <4> QED
        BY <1>1, <1>2, <1>3, <3>1, <4>1
    <3>2. CASE q # r
      BY <1>1, <1>2, <2>3, <3>2 DEF Cookie, ResultsApart
    <3> QED
      BY <3>1, <3>2
  <2> QED
    BY <2>1, <2>2, <2>3 DEF ResultsApart
<1>8. ASSUME NEW b \in Browser, jar'[b].refresh # None PROVE Replaced(b)'
  <2> DEFINE u == jar[b].refresh
  <2>1. u \in Session \ {s} /\ jar'[b].refresh = u /\ origin'[u] = origin[u]
    BY <1>3, <1>8
  <2>2. Replaced(b) /\ (replaced # {} /\ u = token[r] => Home(r) = b)
    BY <1>8 DEF Cookie, JarsApart
  <2>3. session'[u] = session[u] \/ (u = token[r] /\ replaced = {token[r]})
    BY <1>1, <2>1
  <2> HIDE DEF u
  <2>4. CASE u = token[r] /\ replaced = {token[r]}
    <3>1. Home(r)' = b /\ origin'[result'[r]] = origin'[u] /\ result'[r] \in Session
      BY <1>2, <2>1, <2>2, <2>4 DEF Home
    <3> QED
      BY <1>2, <2>1, <3>1 DEF Replaced
  <2>5. CASE session'[u] = session[u]
    <3>1. CASE session[u] = "live"
      BY <2>1, <2>5, <3>1 DEF Replaced
    <3>2. CASE origin[u] \in torn \cup ended
      BY <2>1, <3>2 DEF Replaced
    <3>3. CASE \E q \in Request : /\ Home(q) = b /\ step[q] = "replied" /\ result[q] \in Session
                                  /\ origin[result[q]] = origin[u]
      <4>1. PICK q \in Request : /\ Home(q) = b /\ step[q] = "replied" /\ result[q] \in Session
                                 /\ origin[result[q]] = origin[u]
        BY <3>3
      <4>2. q # r /\ result[q] # s
        BY <1>3, <4>1
      <4>3. /\ Home(q)' = b /\ step'[q] = "replied" /\ result'[q] \in Session
            /\ origin'[result'[q]] = origin'[u]
        BY <1>2, <2>1, <4>1, <4>2 DEF Home
      <4> QED
        BY <2>1, <4>3 DEF Replaced
    <3> QED
      BY <2>2, <3>1, <3>2, <3>3 DEF Replaced, u
  <2> QED
    BY <2>3, <2>4, <2>5
<1> QED
  BY <1>5, <1>6, <1>7, <1>8 DEF Cookie

(* What a sign-out revokes it ends.                                         *)
LEMMA CookieSignedOut ==
  ASSUME TypeOK, Tokens, Rotation, Cookie, NEW r \in Request, CommitSignOut(r)
  PROVE  Cookie'
<1>1. /\ UNCHANGED <<jar, kind, token, origin, torn>> /\ ~ Rotates(r) /\ step[r] = "read"
      /\ session' = [u \in Session |-> IF u \in read[r] THEN "revoked" ELSE session[u]]
      /\ ended' = ended \cup {origin[u] : u \in read[r]}
      /\ step' = [step EXCEPT ![r] = "replied"] /\ result' = [result EXCEPT ![r] = None]
  BY DEF CommitSignOut, Respond, Rotates
<1>2. read[r] \subseteq Session /\ \A u \in read[r] : session[u] # "unused"
  BY DEF TypeOK, Rotation, HeldRows
<1>3. \A u \in Session : /\ session'[u] = session[u] \/ origin'[u] \in ended'
                         /\ session'[u] = session[u] \/ session'[u] = "revoked"
  BY <1>1
<1>4. None \notin Session /\ result[r] \notin Session
  BY <1>1, SignInAssumption DEF Session, Cookie, ResultsApart
<1>5. /\ \A q \in Request : Rotates(q)' => Rotates(q)
      /\ \A q \in Request \ {r} : step'[q] = step[q] /\ result'[q] = result[q]
      /\ result'[r] \notin Session
  BY <1>1, <1>4 DEF Rotates, TypeOK
<1>6. \A b \in Browser : jar[b].refresh # None => jar[b].refresh \in Session
  BY DEF TypeOK
<1>7. JarsApart'
  BY <1>1, <1>3, <1>5, <1>6 DEF Cookie, JarsApart, Home
<1>8. TokensApart'
  <2>1. \A q \in Request : Rotates(q) => token[q] \in Session
    BY DEF Tokens, Rotates
  <2> QED
    BY <1>1, <1>3, <1>5, <2>1 DEF Cookie, TokensApart, Home
<1>9. ResultsApart'
  <2>1. ASSUME NEW q \in Request, result'[q] \in Session
        PROVE  q # r /\ result'[q] = result[q] /\ step'[q] = step[q] /\ result[q] \in Session
    BY <1>5, <2>1
  <2> QED
    BY <1>1, <1>3, <1>5, <2>1 DEF Cookie, ResultsApart
<1>10. ASSUME NEW b \in Browser, jar'[b].refresh # None PROVE Replaced(b)'
  <2>1. jar[b].refresh \in Session /\ Replaced(b)
    BY <1>1, <1>6, <1>10 DEF Cookie
  <2>2. \A q \in Request : result[q] \in Session => q # r /\ result'[q] = result[q] /\ step'[q] = step[q]
    BY <1>4, <1>5
  <2> QED
    BY <1>1, <1>3, <2>1, <2>2 DEF Replaced, Home
<1> QED
  BY <1>7, <1>8, <1>9, <1>10 DEF Cookie

(* A reply brings a session that nobody has used, or takes cookies away.    *)
LEMMA CookieReplied ==
  ASSUME TypeOK, Cookie, NEW r \in Request, Reply(r)
  PROVE  Cookie'
<1> DEFINE b == Home(r)
<1>1. /\ UNCHANGED <<session, history>> /\ b \in Browser
      /\ step' = [step EXCEPT ![r] = "none"] /\ result' = [result EXCEPT ![r] = None]
      /\ kind' = [kind EXCEPT ![r] = "refresh"] /\ token' = [token EXCEPT ![r] = None]
      /\ jar' = jar \/ (result[r] \in Session \cup {None} /\ SetCookies(b, result[r]))
      /\ result[r] \in Session => SetCookies(b, result[r])
  <2>1. Denied \notin Session
    BY SignInAssumption DEF Session
  <2> QED
    BY <2>1, Requests DEF Reply, Close, server, Home, TypeOK
<1> HIDE DEF b
<1>2. None \notin Session
  BY SignInAssumption DEF Session
<1>3. /\ \A q \in Request : Rotates(q)' => q # r /\ Rotates(q) /\ token'[q] = token[q]
      /\ \A q \in Request \ {r} : step'[q] = step[q] /\ result'[q] = result[q]
      /\ result'[r] \notin Session
  BY <1>1, <1>2 DEF Rotates, TypeOK
<1>4. /\ \A d \in Browser \ {b} : jar'[d].refresh = jar[d].refresh
      /\ jar'[b].refresh # None => \/ jar'[b].refresh = jar[b].refresh /\ result[r] \notin Session
                                   \/ result[r] \in Session /\ jar'[b].refresh = result[r]
  <2>1. CASE jar' = jar /\ result[r] \notin Session
    BY <2>1
  <2>2. CASE result[r] \in Session \cup {None} /\ SetCookies(b, result[r])
    BY <1>1, <2>2 DEF SetCookies, TypeOK
  <2> QED
    BY <1>1, <2>1, <2>2
<1>5. result[r] \in Session =>
        /\ \/ session[result[r]] = "live"
           \/ session[result[r]] = "revoked" /\ origin[result[r]] \in ended
        /\ \A q \in Request : result[q] = result[r] => q = r
        /\ \A d \in Browser : jar[d].refresh # result[r]
        /\ \A q \in Request : Rotates(q) => token[q] # result[r]
  BY DEF Cookie, ResultsApart
<1>6. JarsApart'
  <2>1. ASSUME NEW d \in Browser, jar'[d].refresh # None
        PROVE  /\ session'[jar'[d].refresh] # "unused"
               /\ \A e \in Browser : jar'[e].refresh = jar'[d].refresh => e = d
               /\ \A q \in Request : Rotates(q)' /\ token'[q] = jar'[d].refresh => Home(q)' = d
    <3>1. CASE d = b /\ result[r] \in Session /\ jar'[b].refresh = result[r]
      BY <1>1, <1>3, <1>4, <1>5, <3>1
    <3>2. CASE ~ (d = b /\ result[r] \in Session /\ jar'[b].refresh = result[r])
      <4>1. jar'[d].refresh = jar[d].refresh
        BY <1>4, <2>1, <3>2
      <4>2. \A e \in Browser : jar'[e].refresh = jar'[d].refresh =>
                                  jar[e].refresh = jar[d].refresh
        BY <1>4, <1>5, <2>1, <4>1
      <4> QED
        BY <1>1, <1>3, <2>1, <4>1, <4>2 DEF Cookie, JarsApart, Home
    <3> QED
      BY <3>1, <3>2
  <2> QED
    BY <2>1 DEF JarsApart
<1>7. TokensApart'
  BY <1>1, <1>3 DEF Cookie, TokensApart, Home
<1>8. ResultsApart'
  <2>1. ASSUME NEW q \in Request, result'[q] \in Session
        PROVE  q # r /\ result'[q] = result[q] /\ step'[q] = step[q] /\ result[q] \in Session
    BY <1>3, <2>1
  <2>2. ASSUME NEW q \in Request, result'[q] \in Session, NEW d \in Browser
        PROVE  jar'[d].refresh # result'[q]
    <3>1. q # r /\ result'[q] = result[q] /\ jar[d].refresh # result[q] /\ result[q] # None
      BY <1>2, <2>1, <2>2 DEF Cookie, ResultsApart
    <3>2. jar'[d].refresh \in {jar[d].refresh, None, result[r]}
      BY <1>4
    <3>3. result[q] \in Session => result[r] # result[q]
      BY <3>1 DEF Cookie, ResultsApart
    <3> QED
      BY <2>1, <2>2, <3>1, <3>2, <3>3
  <2>3. ASSUME NEW q \in Request, result'[q] \in Session
        PROVE  /\ step'[q] = "replied"
               /\ \/ session'[result'[q]] = "live"
                  \/ session'[result'[q]] = "revoked" /\ origin'[result'[q]] \in ended'
    BY <1>1, <2>1, <2>3 DEF Cookie, ResultsApart, history
  <2>4. ASSUME NEW q \in Request, result'[q] \in Session, NEW p \in Request
        PROVE  /\ result'[p] = result'[q] => p = q
               /\ Rotates(p)' => token'[p] # result'[q]
    BY <1>3, <2>1, <2>4 DEF Cookie, ResultsApart
  <2> QED
    BY <2>2, <2>3, <2>4 DEF ResultsApart
<1>9. ASSUME NEW d \in Browser, jar'[d].refresh # None PROVE Replaced(d)'
  <2>1. CASE d = b /\ result[r] \in Session /\ jar'[b].refresh = result[r]
    BY <1>1, <1>5, <2>1 DEF Replaced, history
  <2>2. CASE ~ (d = b /\ result[r] \in Session /\ jar'[b].refresh = result[r])
    <3>1. jar'[d].refresh = jar[d].refresh /\ Replaced(d) /\ (d = b => result[r] \notin Session)
      BY <1>4, <1>9, <2>2 DEF Cookie
    <3>2. \A q \in Request : Home(q) = d /\ result[q] \in Session =>
                                q # r /\ result'[q] = result[q] /\ step'[q] = step[q]
      BY <1>3, <3>1 DEF b
    <3> QED
      BY <1>1, <3>1, <3>2 DEF Replaced, Home, history
  <2> QED
    BY <2>1, <2>2
<1> QED
  BY <1>6, <1>7, <1>8, <1>9 DEF Cookie

(* A session whose reply is lost is torn.                                   *)
LEMMA CookieLost ==
  ASSUME TypeOK, Cookie, NEW r \in Request, Lost(r)
  PROVE  Cookie'
<1>1. /\ UNCHANGED <<session, jar, origin, ended>>
      /\ step' = [step EXCEPT ![r] = "none"] /\ result' = [result EXCEPT ![r] = None]
      /\ kind' = [kind EXCEPT ![r] = "refresh"] /\ token' = [token EXCEPT ![r] = None]
      /\ torn' = torn \cup {origin[s] : s \in {result[r]} \cap Session}
  BY DEF Lost, Close, server
<1>2. None \notin Session
  BY SignInAssumption DEF Session
<1>3. /\ \A q \in Request : Rotates(q)' => q # r /\ Rotates(q) /\ token'[q] = token[q]
      /\ \A q \in Request \ {r} : step'[q] = step[q] /\ result'[q] = result[q]
      /\ result'[r] \notin Session
  BY <1>1, <1>2 DEF Rotates, TypeOK
<1>4. JarsApart' /\ TokensApart'
  BY <1>1, <1>3 DEF Cookie, JarsApart, TokensApart, Home
<1>5. ResultsApart'
  <2>1. ASSUME NEW q \in Request, result'[q] \in Session
        PROVE  q # r /\ result'[q] = result[q] /\ step'[q] = step[q] /\ result[q] \in Session
    BY <1>3, <2>1
  <2> QED
    BY <1>1, <1>3, <2>1 DEF Cookie, ResultsApart
<1>6. ASSUME NEW b \in Browser, jar'[b].refresh # None PROVE Replaced(b)'
  <2>1. Replaced(b) /\ jar'[b].refresh = jar[b].refresh
    BY <1>1, <1>6 DEF Cookie
  <2>2. ASSUME NEW q \in Request, result[q] \in Session
        PROVE  \/ q # r /\ result'[q] = result[q] /\ step'[q] = step[q]
               \/ origin'[result[q]] \in torn'
    BY <1>1, <1>3, <2>2
  <2> QED
    BY <1>1, <2>1, <2>2 DEF Replaced, Home
<1> QED
  BY <1>4, <1>5, <1>6 DEF Cookie

(* Cookies expire with their session.                                       *)
LEMMA CookieExpired ==
  ASSUME TypeOK, Tokens, Cookie, NEW s \in Session, SessionExpires(s)
  PROVE  Cookie'
<1>1. /\ UNCHANGED <<step, kind, token, result, history>>
      /\ session[s] = "live" /\ session' = [session EXCEPT ![s] = "expired"]
      /\ \A r \in Request : s # result[r]
      /\ jar' = [b \in Browser |-> IF jar[b].refresh = s
                                   THEN [access |-> None, refresh |-> None] ELSE jar[b]]
  BY DEF SessionExpires, request
<1>2. \A b \in Browser : jar'[b].refresh # None =>
         /\ jar'[b].refresh = jar[b].refresh /\ jar[b].refresh # s
         /\ jar[b].refresh \in Session
  BY <1>1 DEF TypeOK
<1>3. \A u \in Session \ {s} : session'[u] = session[u]
  BY <1>1 DEF TypeOK
<1>4. \A r \in Request : Rotates(r) => token[r] \in Session
  BY DEF Rotates, Tokens
<1>5. \A u \in Session : session[u] # "unused" => session'[u] # "unused"
  BY <1>1 DEF TypeOK
<1>6. JarsApart'
  BY <1>1, <1>2, <1>3 DEF Cookie, JarsApart, Rotates, Home
<1>7. TokensApart'
  BY <1>1, <1>4, <1>5 DEF Cookie, TokensApart, Rotates, Home
<1>8. ResultsApart'
  <2>1. \A b \in Browser : jar'[b].refresh \in {jar[b].refresh, None}
    BY <1>2
  <2>2. None \notin Session
    BY SignInAssumption DEF Session
  <2> QED
    BY <1>1, <1>3, <2>1, <2>2 DEF Cookie, ResultsApart, Rotates, history
<1>9. ASSUME NEW b \in Browser, jar'[b].refresh # None PROVE Replaced(b)'
  BY <1>1, <1>2, <1>3, <1>9 DEF Cookie, Replaced, Home, history
<1> QED
  BY <1>6, <1>7, <1>8, <1>9 DEF Cookie

(* Every step keeps that.                                                   *)
LEMMA CookieKept ==
  ASSUME TypeOK, Tokens, Rotation, Cookie, [Next]_vars
  PROVE  Cookie'
<1> USE DEF server, calls, request, bounds, history
<1>0. \A q \in Request : step[q] # "replied" => result[q] \notin Session
  BY DEF Cookie, ResultsApart
<1>d. Denied \notin Session /\ None \notin Session
  BY SignInAssumption DEF Session
<1>1. ASSUME NEW c \in Call, Ask(c) \/ Answered(c) PROVE Cookie'
  <2>1. UNCHANGED <<jar, session, origin, torn, ended, step, kind, token, result>>
    BY <1>1 DEF Ask, Answered
  <2> QED
    BY <2>1, CookieStays DEF Rotates
<1>2. ASSUME NEW c \in Call, Unauthorized(c) PROVE Cookie'
  <2>1. CASE UNCHANGED request
    <3>1. UNCHANGED <<jar, session, origin, torn, ended, step, kind, token, result>>
      BY <1>2, <2>1 DEF Unauthorized
    <3> QED
      BY <3>1, CookieStays DEF Rotates
  <2>2. CASE /\ Cookies(TabOf[c]).refresh # None
             /\ Send(<<TabOf[c], "refresh">>, "refresh", Cookies(TabOf[c]).refresh)
    BY <1>2, <2>2, Requests, CookieSent DEF Unauthorized, Cookies
  <2> QED
    BY <1>2, <2>1, <2>2 DEF Unauthorized
<1>3. ASSUME NEW t \in FormTab, Register(t) \/ Login(t) \/ Logout(t) \/ LogoutAll(t)
      PROVE  Cookie'
  <2> DEFINE q == <<t, "form">>
  <2>1. PICK k \in {"register", "login", "logout", "logout_all"}, tok \in {token'[q]} :
          Send(q, k, tok) /\ UNCHANGED <<jar, session, origin, torn, ended, result>>
    <3>1. PICK k \in {"register", "login", "logout", "logout_all"} :
            \E tok : Submit(t, k, tok)
      BY <1>3 DEF Register, Login, Logout, LogoutAll
    <3>2. PICK tok : Submit(t, k, tok)
      BY <3>1
    <3>3. Send(q, k, tok) /\ q \in Request
      BY <3>2, Requests DEF Submit
    <3> QED
      BY <3>2, <3>3 DEF Submit, Send, TypeOK
  <2>2. q \in Request
    BY Requests
  <2> HIDE DEF q
  <2>3. /\ ~ Rotates(q)' /\ step[q] = "none"
        /\ \A p \in Request \ {q} : step'[p] = step[p] /\ kind'[p] = kind[p] /\ token'[p] = token[p]
    BY <2>1, <2>2 DEF Send, Rotates, TypeOK
  <2>4. \A p \in Request : result[p] \in Session \/ result'[p] \in Session =>
                              result'[p] = result[p] /\ step'[p] = step[p]
    BY <1>0, <2>1, <2>3
  <2> QED
    BY <2>1, <2>3, <2>4, CookieStays DEF Rotates
<1>4. ASSUME NEW r \in Request, ReadRefresh(r) \/ ReadLogout(r) \/ ReadLogoutAll(r) \/ Refused(r)
      PROVE  Cookie'
  <2>1. /\ UNCHANGED <<jar, session, origin, torn, ended, kind, token>>
        /\ step[r] \in {"sent", "read"}
        /\ \/ step' = [step EXCEPT ![r] = "replied"] /\ \E res \in {None, Denied} :
                                                          result' = [result EXCEPT ![r] = res]
           \/ step' = [step EXCEPT ![r] = "read"] /\ UNCHANGED result
    BY <1>4 DEF ReadRefresh, ReadLogout, ReadLogoutAll, Refused, Received, Fetch, Respond
  <2>2. \A q \in Request : Rotates(q)' => Rotates(q)
    BY <2>1 DEF Rotates, TypeOK
  <2>3. \A q \in Request : result[q] \in Session \/ result'[q] \in Session =>
                              result'[q] = result[q] /\ step'[q] = step[q]
    BY <1>0, <1>d, <2>1 DEF TypeOK
  <2> QED
    BY <2>1, <2>2, <2>3, CookieStays
<1>5. ASSUME NEW r \in Request, CommitRefresh(r) PROVE Cookie'
  <2>1. PICK s \in Session : /\ NextRow(s) /\ BuildSession(r, s, {token[r]})
                             /\ origin' = [origin EXCEPT ![s] = origin[token[r]]]
    BY <1>5 DEF CommitRefresh
  <2>2. /\ origin'[s] = origin[token[r]]
        /\ \A u \in Session \ {s} : origin'[u] = origin[u]
    BY <2>1 DEF TypeOK
  <2>3. step[r] # "replied" /\ Rotates(r) /\ UNCHANGED <<jar, torn, ended>>
    BY <1>5 DEF CommitRefresh, Rotates
  <2> QED
    BY <2>1, <2>2, <2>3, CookieBuilt
<1>6. ASSUME NEW r \in Request, CommitRegister(r) \/ CommitLogin(r) PROVE Cookie'
  <2>1. PICK s \in Session : NextRow(s) /\ BuildSession(r, s, {})
    BY <1>6 DEF CommitRegister, CommitLogin
  <2>2. step[r] # "replied" /\ UNCHANGED <<jar, origin, torn, ended>>
    BY <1>6 DEF CommitRegister, CommitLogin, Received
  <2>3. \A u \in Session \ {s} : origin'[u] = origin[u]
    BY <2>2
  <2> DEFINE replaced == {}
  <2>4. NextRow(s) /\ BuildSession(r, s, replaced) /\ replaced = {}
    BY <2>1
  <2>5. UNCHANGED <<jar, torn, ended>> /\ step[r] # "replied"
    BY <2>2
  <2> HIDE DEF replaced
  <2> QED
    BY <2>3, <2>4, <2>5, CookieBuilt
<1>7. ASSUME NEW r \in Request, CommitSignOut(r) \/ Reply(r) \/ Lost(r) PROVE Cookie'
  BY <1>7, CookieSignedOut, CookieReplied, CookieLost
<1>8. ASSUME NEW s \in Session, AccessExpires(s) PROVE Cookie'
  <2>1. UNCHANGED <<jar, session, origin, torn, ended, step, kind, token, result>>
    BY <1>8 DEF AccessExpires
  <2> QED
    BY <2>1, CookieStays DEF Rotates
<1>9. ASSUME NEW s \in Session, SessionExpires(s) PROVE Cookie'
  BY <1>9, CookieExpired
<1>10. CASE UNCHANGED vars
  <2>1. UNCHANGED <<jar, session, origin, torn, ended, step, kind, token, result>>
    BY <1>10 DEF vars
  <2> QED
    BY <2>1, CookieStays DEF Rotates
<1> QED
  BY <1>1, <1>2, <1>3, <1>4, <1>5, <1>6, <1>7, <1>8, <1>9, <1>10 DEF Next, Serve

(* Tabs that refresh at the same time do not sign each other out: what a    *)
(* request takes from a browser's cookies it brings back, and cookies are   *)
(* never set to a session that was rotated (refresh_login_session on the    *)
(* server, tryRefreshSession of client.ts in the tabs).                     *)
THEOREM CookiesUsableAlways == Spec => []CookiesUsable
<1>1. TypeOK /\ Cookie => CookiesUsable
  BY DEF Cookie, CookiesUsable, NewCookiesPending, Replaced, Home
<1> QED
  BY <1>1, TypesInitial, TypesKept, RotationInitial, RotationKept, CookieInitial, CookieKept,
     PTL DEF Spec
===============================================================================
