-------------------------------- MODULE Web --------------------------------
(***************************************************************************)
(* Web logins (src/web/auth0.go, sessions.go, user.go): browsers with a    *)
(* cookie jar, each with tabs that send requests to the login, callback,   *)
(* logout, token and token-callback handlers, and the MongoDB session      *)
(* store.  A handler is cut where it talks to the store or the identity    *)
(* provider, since that is where requests of one browser interleave; the   *)
(* cookies it reads are those the browser sent with the request, the ones  *)
(* it sets reach the jar with the response.                                *)
(*                                                                         *)
(* A session's Data is reduced to the profile it holds: the user that the  *)
(* provider vouched for, one per browser.  A state parameter and a session *)
(* id are 32 random bytes in the code: here the number of the login that   *)
(* made them.                                                              *)
(***************************************************************************)
EXTENDS Naturals, FiniteSets

CONSTANTS
    Tabs,        \* the tabs that send requests, one at a time each
    Owner,       \* Owner[t]: the browser of tab t, standing for its user too
    EnableTest,  \* AuthProviderConfig.EnableTest: /token-callback is routed
    MaxLogins,   \* bound on requests that make a state or a session id
    MaxFaults    \* bound on errors, lost responses and expiries

ASSUME WebAssumption ==
    /\ MaxLogins \in Nat /\ MaxFaults \in Nat
    /\ EnableTest \in BOOLEAN
    /\ DOMAIN Owner = Tabs /\ IsFiniteSet(Tabs)
    /\ \A t \in Tabs : Owner[t] \notin {"absent", "anonymous"}

VARIABLES
    store,      \* the sessions collection: id -> NoDoc or the profile in Data
    jar,        \* the cookies of each browser
    page,       \* page[t]: the state the provider will call back with, 0 if none
    req,        \* req[t]: the request of tab t that is being handled
    count,      \* random numbers drawn and faults so far
    hist        \* what the properties remember of each browser

vars == <<store, jar, page, req, count, hist>>

Browsers == {Owner[t] : t \in Tabs}

Ids == 1 .. MaxLogins

NoDoc == "absent"       \* no document with this _id

NoUser == "anonymous"   \* a document without a profile

Profiles == Browsers \cup {NoUser}

-----------------------------------------------------------------------------
(* Requests, cookies and responses.                                        *)

NoState == [id |-> 0, state |-> 0]

\* Cookies: session-id (0: none), the redirect state, and the three
\* viam.auth cookies, which are only ever set and cleared together.
NoCookies == [session |-> 0, redirect |-> NoState, token |-> NoUser]

\* A Session in memory: its id, whether it is new, and its Data.
NoSession == [id |-> 0, isNew |-> FALSE, data |-> NoUser]

NoReq == [kind |-> "none", pc |-> "none", sent |-> NoCookies, state |-> 0,
          session |-> NoSession, set |-> NoCookies, sets |-> {}, status |-> "none",
          alone |-> TRUE]

Init ==
    /\ store = [i \in Ids |-> NoDoc]
    /\ jar = [b \in Browsers |-> NoCookies]
    /\ page = [t \in Tabs |-> 0]
    /\ req = [t \in Tabs |-> NoReq]
    /\ count = [drawn |-> 0, faults |-> 0]
    /\ hist = [out |-> {}, disturbed |-> {}]

InFlight(b) == {t \in Tabs : Owner[t] = b /\ req[t].kind # "none"}

At(t, kind, pc) == req[t].kind = kind /\ req[t].pc = pc

\* http.SetCookie: the header of the response that will carry cookie c.
SetCookie(r, c, value) == [r EXCEPT !.sets = @ \cup {c}, !.set[c] = value]

\* The handler writes its status and returns; what is left is the response.
Reply(r, status) ==
    [r EXCEPT !.pc = "replied", !.status = status, !.sent = NoCookies, !.session = NoSession,
              !.state = IF status = "to provider" THEN @ ELSE 0]

\* The cookies a handler reads of those that come with the request.
Reads(kind) ==
    CASE kind = "callback" -> {"redirect"}
      [] kind = "token" -> {"token"}
      [] OTHER -> {"session"}

Carried(kind, cookies) ==
    [c \in DOMAIN NoCookies |-> IF c \in Reads(kind) THEN cookies[c] ELSE NoCookies[c]]

Fault ==
    /\ count.faults < MaxFaults
    /\ count' = [count EXCEPT !.faults = @ + 1]

\* The bound on the random numbers leaves one for every request under way.
Unspent ==
    count.drawn + Cardinality({t \in Tabs : /\ req[t].kind \in {"login", "token-callback"}
                                            /\ req[t].pc = "start"}) < MaxLogins

-----------------------------------------------------------------------------
(* The session store and the session manager (sessions.go).                *)

\* mongoDBSessionStore.Get: the document becomes a Session of the request.
StoreGet(i) == [id |-> i, isNew |-> FALSE, data |-> store[i]]

\* Mutant of NewID: the number is not random.
NewIDSame == 1

\* SessionManager.newID.
NewID == count.drawn + 1

\* SessionManager.Get with createIfNotExist: the cookie's session if the
\* store has it, otherwise a new one under the cookie's id, if there is one.
GetOrCreate(sent) ==
    IF sent.session # 0 /\ store[sent.session] # NoDoc
      THEN StoreGet(sent.session)
      ELSE [id |-> IF sent.session # 0 THEN sent.session ELSE NewID,
            isNew |-> TRUE, data |-> NoUser]

\* Mutant of Save: a new session's cookie is not set.
SaveSilent(r) == [r EXCEPT !.session.isNew = FALSE]

\* Session.Save: the first one gives the browser its session-id cookie.
Save(r) ==
    LET s == r.session
    IN  [IF s.isNew THEN SetCookie(r, "session", s.id) ELSE r
           EXCEPT !.session.isNew = FALSE]

\* mongoDBSessionStore.Save: an upsert of the whole of Data.
StoreSave(s) == [store EXCEPT ![s.id] = s.data]

\* mongoDBSessionStore.Delete.
StoreDelete(i) == [store EXCEPT ![i] = NoDoc]

\* GetLoggedInUserInfo: the profile of the session the browser's cookie names.
UserInfo(b) ==
    LET i == jar[b].session
    IN  IF i = 0 \/ store[i] = NoDoc THEN NoUser ELSE store[i]

LoggedIn(b) == UserInfo(b) # NoUser

-----------------------------------------------------------------------------
(* Browsers.                                                               *)

\* A request leaves with the cookies the jar holds now.  For the history, one
\* that is sent while another of its browser is under way disturbs both.
Sends(t, kind, state) ==
    LET b == Owner[t]
        others == InFlight(b)
        r == [NoReq EXCEPT !.kind = kind, !.pc = "start", !.state = state,
                           !.sent = Carried(kind, jar[b]), !.alone = others = {}]
    IN  /\ req[t] = NoReq
        /\ req' = [u \in Tabs |-> IF u = t THEN r
                                  ELSE IF u \in others THEN [req[u] EXCEPT !.alone = FALSE]
                                  ELSE req[u]]
        /\ hist' = [hist EXCEPT !.disturbed = IF others = {} THEN @ ELSE @ \cup {b}]
        /\ UNCHANGED <<store, jar, count>>

\* The user follows a link to /login, to /logout or to /token, or posts a
\* token of the provider to /token-callback.
Visit(t, kind) ==
    /\ kind = "token-callback" => EnableTest
    /\ kind \in {"login", "token-callback"} => Unspent
    /\ Sends(t, kind, 0)
    /\ page' = [page EXCEPT ![t] = 0]

\* The user has logged in at the provider, which redirects to /callback with
\* the state that /login gave it.
ProviderRedirects(t) ==
    /\ page[t] # 0
    /\ Sends(t, "callback", page[t])
    /\ page' = [page EXCEPT ![t] = 0]

\* The response arrives: the browser takes the cookies and follows the
\* redirect, to the provider or, from the callback, to /login.
Answer(t) ==
    LET r == req[t]
        b == Owner[t]
    IN  /\ r.pc = "replied"
        /\ jar' = [jar EXCEPT ![b] = [c \in DOMAIN NoCookies |->
                     IF c \in r.sets THEN r.set[c] ELSE @[c]]]
        /\ page' = [page EXCEPT ![t] = IF r.status = "to provider" THEN r.state ELSE 0]
        /\ req' = [req EXCEPT ![t] =
                     IF r.status = "to login" /\ Unspent
                       THEN [NoReq EXCEPT !.kind = "login", !.pc = "start",
                                          !.sent = Carried("login", jar'[b]),
                                          !.alone = InFlight(b) = {t}]
                       ELSE NoReq]
        /\ hist' = [hist EXCEPT
                      !.disturbed = IF r.status = "to provider" /\ r.alone THEN @ \ {b} ELSE @,
                      !.out =
                      IF /\ r.kind = "logout"
                         /\ \A u \in InFlight(b) : req[u].kind \notin {"login", "token-callback"}
                      THEN @ \cup {b} ELSE @]
        /\ UNCHANGED <<store, count>>

\* The user leaves before the response is there: its cookies are never set.
ResponseLost(t) ==
    /\ req[t].pc = "replied"
    /\ Fault
    /\ req' = [req EXCEPT ![t] = NoReq]
    /\ UNCHANGED <<store, jar, page, hist>>

\* A cookie reaches its age: the redirect state after ten minutes, session-id
\* seven days after the session was new (no later Save renews it), the viam
\* cookies at the token's expiry.
CookieExpires(b, c) ==
    /\ jar[b][c] # NoCookies[c]
    /\ InFlight(b) = {}
    /\ Fault
    /\ jar' = [jar EXCEPT ![b][c] = NoCookies[c]]
    /\ hist' = [hist EXCEPT !.disturbed = @ \cup {b}]
    /\ UNCHANGED <<store, page, req>>

\* webSessionsIndex: a document nobody saved for thirty days is deleted.
SessionExpires(i) ==
    /\ store[i] # NoDoc
    /\ \A t \in Tabs : req[t] = NoReq
    /\ Fault
    /\ store' = StoreDelete(i)
    /\ hist' = [hist EXCEPT !.disturbed = Browsers]
    /\ UNCHANGED <<jar, page, req>>

-----------------------------------------------------------------------------
(* Handlers.  Moves gives the request of tab t its next value.             *)

Moves(t, r) ==
    /\ req' = [req EXCEPT ![t] = r]
    /\ UNCHANGED <<jar, page>>

\* HandleError on an error of the store or the provider: a 500.
Fails(t) ==
    /\ req[t].pc # "replied" /\ req[t].kind \notin {"none", "token", "logout"}
    /\ ~At(t, "callback", "start") \/ req[t].sent.redirect # NoState
    /\ Fault
    /\ Moves(t, Reply(IF req[t].kind = "callback"
                        THEN SetCookie(req[t], "redirect", NoState)
                        ELSE IF req[t].pc = "save" THEN Save(req[t])
                        ELSE req[t],
                      "error"))
    /\ UNCHANGED <<store, hist>>

\* loginHandler: a random state, and the browser's session or a new one.
LoginGet(t) ==
    LET s == GetOrCreate(req[t].sent)
        r == SetCookie(req[t], "redirect", [id |-> s.id, state |-> NewID])
    IN  /\ At(t, "login", "start")
        /\ count' = [count EXCEPT !.drawn = @ + 1]
        /\ Moves(t, [r EXCEPT !.pc = "save", !.state = NewID, !.session = s])
        /\ UNCHANGED <<store, hist>>

\* ... saved, and the browser redirected to the provider.
LoginSave(t) ==
    /\ At(t, "login", "save")
    /\ store' = StoreSave(req[t].session)
    /\ Moves(t, Reply(Save(req[t]), "to provider"))
    /\ UNCHANGED <<count, hist>>

\* callbackHandler up to the provider: without the state cookie back to
\* /login; otherwise the cookie is used up, the session it names must exist
\* and the state the provider returned must be the cookie's.
CallbackGet(t) ==
    LET r == SetCookie(req[t], "redirect", NoState)
        id == r.sent.redirect.id
    IN  /\ At(t, "callback", "start")
        /\ Moves(t,
             IF r.sent.redirect = NoState THEN Reply(req[t], "to login")
             ELSE IF store[id] = NoDoc THEN Reply(r, "error")
             ELSE IF r.state # r.sent.redirect.state THEN Reply(r, "bad state")
             ELSE [r EXCEPT !.pc = "exchange", !.session = StoreGet(id)])
        /\ UNCHANGED <<store, count, hist>>

\* tokenCallbackHandler: the posted token belongs to the browser's session.
TokenCallbackGet(t) ==
    LET s == GetOrCreate(req[t].sent)
    IN  /\ At(t, "token-callback", "start")
        /\ count' = [count EXCEPT !.drawn = IF req[t].sent.session = 0 THEN @ + 1 ELSE @]
        /\ Moves(t, [req[t] EXCEPT !.pc = "exchange", !.session = s])
        /\ UNCHANGED <<store, hist>>

\* Exchange and verifyAndSaveToken: the provider turns the code into a token
\* and vouches for the user; the profile goes into the Session in memory.
VerifyAndSaveToken(t) ==
    /\ req[t].pc = "exchange"
    /\ Moves(t, [req[t] EXCEPT !.pc = "save", !.session.data = Owner[t]])
    /\ UNCHANGED <<store, count, hist>>

\* The session is saved; the callback also hands the tokens to the browser.
CallbackSave(t) ==
    LET r == Save(req[t])
    IN  /\ req[t].kind \in {"callback", "token-callback"} /\ req[t].pc = "save"
        /\ store' = StoreSave(req[t].session)
        /\ Moves(t, Reply(IF r.kind = "callback" THEN SetCookie(r, "token", Owner[t]) ELSE r,
                          "welcome"))
        /\ hist' = [hist EXCEPT !.out = @ \ {Owner[t]}]
        /\ UNCHANGED count

\* Mutant of Logout: the browser keeps its cookie.
LogoutKeepsCookie(t) ==
    LET r == req[t]
    IN  /\ At(t, "logout", "start")
        /\ store' = IF r.sent.session = 0 THEN store ELSE StoreDelete(r.sent.session)
        /\ Moves(t, Reply(r, "ok"))
        /\ UNCHANGED <<count, hist>>

\* logoutHandler, DeleteSession: the cookie is cleared and the session deleted.
Logout(t) ==
    LET r == SetCookie(req[t], "session", 0)
    IN  /\ At(t, "logout", "start")
        /\ store' = IF r.sent.session = 0 THEN store ELSE StoreDelete(r.sent.session)
        /\ Moves(t, Reply(r, "ok"))
        /\ UNCHANGED <<count, hist>>

\* ... an error of the store is logged and the logout goes on.
LogoutFails(t) ==
    LET r == SetCookie(req[t], "session", 0)
    IN  /\ At(t, "logout", "start")
        /\ r.sent.session # 0
        /\ Fault
        /\ Moves(t, Reply(r, "ok"))
        /\ hist' = [hist EXCEPT !.disturbed = @ \cup {Owner[t]}]
        /\ UNCHANGED store

\* tokenHandler: the tokens are answered and their cookies cleared.
Token(t) ==
    LET r == req[t]
    IN  /\ At(t, "token", "start")
        /\ Moves(t, IF r.sent.token = NoUser THEN Reply(r, "error")
                    ELSE Reply(SetCookie(r, "token", NoUser), "tokens"))
        /\ UNCHANGED <<store, count, hist>>

-----------------------------------------------------------------------------
Handle(t) ==
    \/ LoginGet(t) \/ LoginSave(t)
    \/ CallbackGet(t) \/ TokenCallbackGet(t) \/ VerifyAndSaveToken(t) \/ CallbackSave(t)
    \/ Logout(t) \/ Token(t)

Kinds == {"login", "logout", "token", "token-callback"}

Next ==
    \/ \E t \in Tabs : \/ \E k \in Kinds : Visit(t, k)
                       \/ ProviderRedirects(t) \/ Answer(t) \/ ResponseLost(t)
                       \/ Handle(t) \/ Fails(t) \/ LogoutFails(t)
    \/ \E b \in Browsers, c \in DOMAIN NoCookies : CookieExpires(b, c)
    \/ \E i \in Ids : SessionExpires(i)

Spec == Init /\ [][Next]_vars

-----------------------------------------------------------------------------
(* Properties.                                                             *)

\* Every variable has its type; in particular a handler never works on a
\* session the store does not have.
TypeOK ==
    /\ store \in [Ids -> Profiles \cup {NoDoc}]
    /\ \A b \in Browsers : jar[b].session \in 0 .. MaxLogins
    /\ page \in [Tabs -> 0 .. MaxLogins]
    /\ count.drawn \in 0 .. MaxLogins /\ count.faults \in 0 .. MaxFaults
    /\ \A t \in Tabs : /\ req[t].sets \subseteq DOMAIN NoCookies
                       /\ req[t].session.data \in Profiles

\* Whatever a browser sees of itself, the profile of its session and the
\* tokens it holds, is its own user's: sessions are found by ids that no two
\* browsers share, also after a deleted session's id was taken up again.
SeesItself ==
    /\ \A b \in Browsers : /\ UserInfo(b) \in {b, NoUser}
                           /\ jar[b].token \in {b, NoUser}
    /\ \A b, c \in Browsers : jar[b].session = jar[c].session => b = c \/ jar[b].session = 0

\* Sessions are found, and belong to who finds them.
SessionInv == TypeOK /\ SeesItself

\* A callback that is answered with success has logged its browser in: the
\* session named in the redirect-state cookie is the one the session-id
\* cookie names, whatever logins, logouts, errors and lost responses came
\* before, as long as, since the last login that went through on its own, no
\* request of the browser overlapped another one, no cookie ran out and no
\* logout failed to delete its session.
LoginSticks ==
    [][\A t \in Tabs :
         /\ req[t].kind = "callback" /\ req[t].status = "welcome"
         /\ Owner[t] \notin hist.disturbed
         /\ Answer(t)
         => UserInfo(Owner[t])' = Owner[t]]_vars

\* Once a logout was answered, the browser stays logged out until a callback
\* of its saves a profile, although a request that was under way may have
\* written the deleted session back (logins under way may also set the
\* session-id cookie again, and are left out).
LogoutSticks == \A b \in Browsers : LoggedIn(b) => b \notin hist.out
=============================================================================
