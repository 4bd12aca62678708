----------------------------- MODULE Web_proofs -----------------------------
(***************************************************************************)
(* Proofs about Web, for any tabs and browsers and any number of logins    *)
(* and faults: a browser finds its own session only (SessionInv), a logout *)
(* lasts (LogoutSticks), and a callback that succeeds has logged its       *)
(* browser in (LoginSticks).                                               *)
(***************************************************************************)
EXTENDS Web, FiniteSetTheorems, TLAPS

-----------------------------------------------------------------------------
(* The inductive invariant.                                                *)

Redirects == [id : 0..MaxLogins, state : 0..MaxLogins]
Cookies == [session : 0..MaxLogins, redirect : Redirects, token : Profiles]
Sessions == [id : 0..MaxLogins, isNew : BOOLEAN, data : Profiles]
CookieNames == {"session", "redirect", "token"}
Requests ==
  [kind : {"none", "callback"} \cup Kinds,
   pc : {"none", "start", "exchange", "save", "replied"},
   sent : Cookies, state : 0..MaxLogins, session : Sessions, set : Cookies,
   sets : SUBSET CookieNames,
   status : {"none", "to provider", "to login", "error", "bad state", "welcome", "ok", "tokens"},
   alone : BOOLEAN]

\* The types of the variables.
Types ==
  /\ store \in [Ids -> Profiles \cup {NoDoc}]
  /\ jar \in [Browsers -> Cookies]
  /\ page \in [Tabs -> 0..MaxLogins]
  /\ req \in [Tabs -> Requests]
  /\ count \in [drawn : 0..MaxLogins, faults : 0..MaxFaults]
  /\ hist \in [out : SUBSET Browsers, disturbed : SUBSET Browsers]

\* A redirect state names a session, or nothing.
RedirectOK(c) == c.redirect = NoState \/ c.redirect.id # 0

\* The cookies are those of browser b.
CookiesOK(c, b) == c.token \in {b, NoUser} /\ RedirectOK(c)

\* Where a request is, and what it has set by then.
RequestOK(r, b) ==
  /\ CookiesOK(r.sent, b) /\ CookiesOK(r.set, b) /\ r.session.data \in {b, NoUser}
  /\ r.kind = "none" => r = NoReq
  /\ r.pc = "none" => r.kind = "none"
  /\ r.pc = "start" => r.sets = {}
  /\ r.pc = "exchange" => r.kind \in {"callback", "token-callback"}
  /\ r.pc = "save" => r.kind \in {"login", "callback", "token-callback"}
  /\ r.pc \in {"exchange", "save"} => r.session.id # 0 /\ "session" \notin r.sets
  /\ r.pc = "save" /\ r.kind # "login" => r.session.data = b
  /\ r.kind = "callback" =>
       ~r.session.isNew /\ "session" \notin r.sets /\ r.set.redirect = NoState
  /\ r.kind = "token" => r.sets \subseteq {"token"}
  /\ r.kind = "token-callback" => r.sets \subseteq {"session"}
  /\ r.kind = "logout" => r.sets \subseteq {"session"}
  /\ r.kind = "logout" /\ r.pc = "replied" => "session" \in r.sets /\ r.set.session = 0
  /\ r.status = "to login" => r.kind = "callback" /\ r.sets = {}
  /\ r.status = "to provider" => r.kind = "login"
  /\ r.kind # "none" /\ r.pc # "replied" => r.status = "none"

FormOK ==
  /\ \A b \in Browsers : CookiesOK(jar[b], b)
  /\ \A t \in Tabs : RequestOK(req[t], Owner[t])

\* Requests that will draw a number.
Drawing == {t \in Tabs : req[t].kind \in {"login", "token-callback"} /\ req[t].pc = "start"}

DrawOK == count.drawn + Cardinality(Drawing) <= MaxLogins

\* Browser b, or a request of it, knows the session i.
Names(c, i) == c.session = i \/ c.redirect.id = i
Uses(r, i) == Names(r.sent, i) \/ r.session.id = i \/ Names(r.set, i)
Knows(b, i) == Names(jar[b], i) \/ \E t \in Tabs : Owner[t] = b /\ Uses(req[t], i)

\* No two browsers know the same session, and the one that does wrote it.
KnowsOK ==
  \A b \in Browsers, i \in Ids : Knows(b, i) =>
    /\ i <= count.drawn /\ store[i] \in {b, NoUser, NoDoc}
    /\ \A c \in Browsers : Knows(c, i) => c = b

Fresh == \A i \in Ids : i > count.drawn => store[i] = NoDoc

\* There is no profile in session i.
Blank(i) == i = 0 \/ store[i] \in {NoUser, NoDoc}

\* The session a login or a token callback works on is blank.
OutReq(r) ==
  r.kind \in {"login", "token-callback"} =>
    /\ Blank(r.sent.session) /\ Blank(r.session.id)
    /\ "session" \in r.sets => Blank(r.set.session)
    /\ r.kind = "login" => r.session.data = NoUser

\* A browser that has logged out finds no profile.
OutOK(b) ==
  b \in hist.out =>
    /\ Blank(jar[b].session)
    /\ \A t \in Tabs : Owner[t] = b => OutReq(req[t])

\* A request that is alone sees the cookies j as they are, and a login leaves
\* the browser with two cookies that name the same session.
SoloReq(r, j) ==
  /\ r.pc = "start" => r.sent = Carried(r.kind, j)
  /\ r.kind = "login" /\ r.pc = "save" =>
       /\ "redirect" \in r.sets /\ r.set.redirect.id = r.session.id
       /\ r.session.isNew \/ r.session.id = j.session
  /\ r.kind = "login" /\ r.pc = "replied" /\ r.sets # {} =>
       /\ "redirect" \in r.sets /\ r.set.redirect.id # 0
       /\ r.set.redirect.id = IF "session" \in r.sets THEN r.set.session ELSE j.session
  /\ r.status = "to provider" => r.sets # {}

Alone(t) == \A u \in Tabs : Owner[u] = Owner[t] /\ req[u].kind # "none" => u = t

SoloOK(t) ==
  req[t].kind # "none" /\ req[t].alone => Alone(t) /\ SoloReq(req[t], jar[Owner[t]])

\* The redirect state of b names no session that is there.
Stale(b) == jar[b].redirect = NoState \/ store[jar[b].redirect.id] = NoDoc

\* The session a callback of b would save is the one b presents.
CalmJar(b) == Stale(b) \/ (jar[b].session # 0 /\ jar[b].redirect.id = jar[b].session)

CalmReq(r, b) ==
  /\ r.alone
  /\ r.pc \in {"exchange", "save"} =>
       \/ r.session.id = jar[b].session
       \/ r.kind # "callback" /\ jar[b].session = 0 /\ r.session.id # jar[b].redirect.id
  /\ r.kind = "token-callback" /\ "session" \in r.sets => jar[b].session \in {0, r.set.session}
  /\ r.kind = "logout" /\ r.pc = "replied" => Stale(b)
  /\ r.kind = "callback" /\ r.status = "welcome" =>
       jar[b].session # 0 /\ store[jar[b].session] = b

CalmOK(b) ==
  b \notin hist.disturbed =>
    /\ CalmJar(b)
    /\ \A t \in Tabs : Owner[t] = b /\ req[t].kind # "none" => CalmReq(req[t], b)

Inv ==
  /\ Types /\ FormOK /\ DrawOK /\ KnowsOK /\ Fresh
  /\ \A b \in Browsers : OutOK(b) /\ CalmOK(b)
  /\ \A t \in Tabs : SoloOK(t)

-----------------------------------------------------------------------------
(* Cookies and requests.                                                   *)

\* The owner of a tab is a browser and no reserved name.
LEMMA OwnerIs ==
  ASSUME NEW t \in Tabs
  PROVE  Owner[t] \in Browsers /\ Owner[t] \in Profiles /\ Owner[t] \notin {NoDoc, NoUser}
BY WebAssumption DEF Browsers, Profiles, NoDoc, NoUser

\* A browser stands for its user's profile and is no reserved name.
LEMMA BrowserIs ==
  ASSUME NEW b \in Browsers
  PROVE  b \in Profiles /\ b \notin {NoDoc, NoUser}
BY WebAssumption DEF Browsers, Profiles, NoDoc, NoUser

\* The empty cookies, session and request have their types.
LEMMA Empty ==
  /\ NoState \in Redirects /\ NoCookies \in Cookies /\ DOMAIN NoCookies = CookieNames
  /\ NoSession \in Sessions /\ NoReq \in Requests
  /\ NoUser \in Profiles
  /\ NoCookies.session = 0 /\ NoCookies.redirect = NoState /\ NoCookies.token = NoUser
  /\ NoState.id = 0 /\ NoSession.id = 0 /\ NoSession.data = NoUser
<1>1. NoState \in Redirects /\ NoUser \in Profiles
  BY WebAssumption DEF NoState, Redirects, Profiles
<1>2. NoCookies \in Cookies /\ DOMAIN NoCookies = CookieNames
  BY <1>1, WebAssumption DEF NoCookies, Cookies, CookieNames
<1>3. NoSession \in Sessions
  BY <1>1, WebAssumption DEF NoSession, Sessions
<1>4. NoReq \in Requests
  BY <1>2, <1>3, WebAssumption DEF NoReq, Requests, Kinds
<1> QED
  BY <1>1, <1>2, <1>3, <1>4 DEF NoCookies, NoState, NoSession

\* The fields of a request nobody sent.
LEMMA EmptyReq ==
  /\ NoReq.kind = "none" /\ NoReq.pc = "none" /\ NoReq.sets = {} /\ NoReq.status = "none"
  /\ NoReq.sent = NoCookies /\ NoReq.set = NoCookies /\ NoReq.session = NoSession
  /\ NoReq.state = 0 /\ NoReq.alone = TRUE
  /\ ~NoReq.session.isNew
BY DEF NoReq, NoSession

\* The invariant says nothing of empty cookies and requests.
LEMMA EmptyOK ==
  ASSUME NEW b
  PROVE  CookiesOK(NoCookies, b) /\ RequestOK(NoReq, b)
BY Empty, EmptyReq DEF CookiesOK, RedirectOK, RequestOK

\* Empty cookies and requests name no session.
LEMMA EmptyUses ==
  ASSUME NEW i \in Ids
  PROVE  ~Names(NoCookies, i) /\ ~Uses(NoReq, i)
BY Empty, EmptyReq, WebAssumption DEF Names, Uses, Ids

\* A request carries cookies of the jar or none.
LEMMA CarriedIs ==
  ASSUME NEW k, NEW c \in Cookies
  PROVE  /\ Carried(k, c) \in Cookies
         /\ Carried(k, c).session \in {0, c.session}
         /\ Carried(k, c).redirect \in {NoState, c.redirect}
         /\ Carried(k, c).token \in {NoUser, c.token}
         /\ k \in {"login", "logout", "token-callback"} => Carried(k, c).session = c.session
         /\ k = "callback" => Carried(k, c).redirect = c.redirect
<1>1. Carried(k, c) \in Cookies
  BY Empty DEF Carried, Cookies, CookieNames
<1>2. /\ Carried(k, c).session = IF "session" \in Reads(k) THEN c.session ELSE 0
      /\ Carried(k, c).redirect = IF "redirect" \in Reads(k) THEN c.redirect ELSE NoState
      /\ Carried(k, c).token = IF "token" \in Reads(k) THEN c.token ELSE NoUser
  BY Empty DEF Carried, Cookies, CookieNames
<1>3. /\ k \in {"login", "logout", "token-callback"} => "session" \in Reads(k)
      /\ k = "callback" => "redirect" \in Reads(k)
  BY DEF Reads
<1> QED
  BY <1>1, <1>2, <1>3

\* Cookies carried are as good as those of the jar.
LEMMA CarriedOK ==
  ASSUME NEW k, NEW c \in Cookies, NEW b, CookiesOK(c, b)
  PROVE  CookiesOK(Carried(k, c), b)
BY CarriedIs, Empty DEF CookiesOK, RedirectOK

\* Cookies carried name no session the jar does not.
LEMMA CarriedNames ==
  ASSUME NEW k, NEW c \in Cookies, NEW i \in Ids, Names(Carried(k, c), i)
  PROVE  Names(c, i)
BY CarriedIs, Empty, WebAssumption DEF Names, Ids

\* SetCookie changes one cookie of the response.
LEMMA SetCookieIs ==
  ASSUME NEW r \in Requests
  PROVE  /\ \A v \in 0..MaxLogins :
              LET q == SetCookie(r, "session", v) IN
              /\ q \in Requests /\ q.sets = r.sets \cup {"session"} /\ q.set.session = v
              /\ q.set.redirect = r.set.redirect /\ q.set.token = r.set.token
         /\ \A v \in Redirects :
              LET q == SetCookie(r, "redirect", v) IN
              /\ q \in Requests /\ q.sets = r.sets \cup {"redirect"} /\ q.set.redirect = v
              /\ q.set.session = r.set.session /\ q.set.token = r.set.token
         /\ \A v \in Profiles :
              LET q == SetCookie(r, "token", v) IN
              /\ q \in Requests /\ q.sets = r.sets \cup {"token"} /\ q.set.token = v
              /\ q.set.session = r.set.session /\ q.set.redirect = r.set.redirect
BY DEF SetCookie, Requests, Cookies, CookieNames

\* What SetCookie leaves of a request.
LEMMA SetCookieKeeps ==
  ASSUME NEW r \in Requests, NEW c, NEW v
  PROVE  LET q == SetCookie(r, c, v) IN
         /\ q.kind = r.kind /\ q.pc = r.pc /\ q.sent = r.sent /\ q.state = r.state
         /\ q.session = r.session /\ q.status = r.status /\ q.alone = r.alone
BY DEF SetCookie, Requests

Statuses == {"to provider", "to login", "error", "bad state", "welcome", "ok", "tokens"}

\* q is the reply to request r with status s.
Replied(q, r, s) ==
  /\ q \in Requests /\ q.kind = r.kind /\ q.pc = "replied" /\ q.sent = NoCookies
  /\ q.session = NoSession /\ q.set = r.set /\ q.sets = r.sets /\ q.status = s
  /\ q.alone = r.alone

\* What Reply makes of a request.
LEMMA ReplyIs ==
  ASSUME NEW r \in Requests, NEW s \in Statuses
  PROVE  Replied(Reply(r, s), r, s)
<1>1. PICK x \in 0..MaxLogins : x = IF s = "to provider" THEN r.state ELSE 0
  <2>1. r.state \in 0..MaxLogins
    BY DEF Requests
  <2>2. 0 \in 0..MaxLogins
    BY WebAssumption
  <2> QED
    BY <2>1, <2>2
<1>2. Reply(r, s) = [r EXCEPT !.pc = "replied", !.status = s, !.sent = NoCookies,
                              !.session = NoSession, !.state = x]
  BY <1>1 DEF Reply
<1> QED
  BY <1>2, Empty, ZenonT(60) DEF Replied, Requests, Statuses

\* What Session.Save makes of a request: a new session sets its cookie.
LEMMA SaveIs ==
  ASSUME NEW r \in Requests
  PROVE  LET q == Save(r) IN
         /\ q \in Requests /\ q.kind = r.kind /\ q.pc = r.pc /\ q.sent = r.sent /\ q.state = r.state
         /\ q.session.id = r.session.id /\ q.session.data = r.session.data /\ q.session.isNew = FALSE
         /\ q.status = r.status /\ q.alone = r.alone
         /\ q.sets = IF r.session.isNew THEN r.sets \cup {"session"} ELSE r.sets
         /\ q.set.session = IF r.session.isNew THEN r.session.id ELSE r.set.session
         /\ q.set.redirect = r.set.redirect /\ q.set.token = r.set.token
<1>0. r.session.id \in 0..MaxLogins /\ r.session \in Sessions
  BY DEF Requests, Sessions
<1>1. CASE ~r.session.isNew
  <2>1. Save(r) = [r EXCEPT !.session.isNew = FALSE]
    BY <1>1 DEF Save
  <2> QED
    BY <1>1, <2>1, ZenonT(60) DEF Requests, Sessions
<1>2. CASE r.session.isNew
  <2>1. PICK p \in Requests : p = SetCookie(r, "session", r.session.id)
    BY <1>0, SetCookieIs
  <2>2. /\ p.sets = r.sets \cup {"session"} /\ p.set.session = r.session.id
        /\ p.set.redirect = r.set.redirect /\ p.set.token = r.set.token
    BY <1>0, <2>1, SetCookieIs
  <2>3. /\ p.kind = r.kind /\ p.pc = r.pc /\ p.sent = r.sent /\ p.state = r.state
        /\ p.session = r.session /\ p.status = r.status /\ p.alone = r.alone
    BY <2>1, SetCookieKeeps
  <2>4. Save(r) = [p EXCEPT !.session.isNew = FALSE]
    BY <1>2, <2>1 DEF Save
  <2>5. PICK q : q = [p EXCEPT !.session.isNew = FALSE]
    OBVIOUS
  <2>6. q \in Requests
    BY <2>5 DEF Requests, Sessions
  <2>7. /\ q.kind = p.kind /\ q.pc = p.pc /\ q.sent = p.sent /\ q.state = p.state
        /\ q.status = p.status /\ q.alone = p.alone /\ q.sets = p.sets /\ q.set = p.set
        /\ q.session = [p.session EXCEPT !.isNew = FALSE]
    BY <2>5 DEF Requests
  <2>8. /\ q.session.id = p.session.id /\ q.session.data = p.session.data
        /\ q.session.isNew = FALSE
    BY <1>0, <2>3, <2>7 DEF Sessions
  <2> QED
    BY <1>2, <2>2, <2>3, <2>4, <2>5, <2>6, <2>7, <2>8
<1> QED
  BY <1>1, <1>2

-----------------------------------------------------------------------------
(* What a step may do to the sessions.                                     *)

\* A step of browser b writes to a session that b knows, if to any.
StoreStep(b) ==
  \/ store' = store
  \/ \E i \in Ids, x \in {b, NoUser, NoDoc} : Knows(b, i) /\ store' = [store EXCEPT ![i] = x]

\* The numbers drawn are within their bound.
LEMMA CountIs ==
  ASSUME Types
  PROVE  count.drawn \in 0..MaxLogins /\ count.drawn \in Nat /\ MaxLogins \in Nat
BY WebAssumption DEF Types

\* A step of a browser that writes its own session, or draws the next
\* number, keeps every session with one browser.
LEMMA KnowsNext ==
  ASSUME Types, KnowsOK, Fresh, NEW b \in Browsers, StoreStep(b),
         count'.drawn \in {count.drawn, count.drawn + 1},
         \A c \in Browsers, i \in Ids : Knows(c, i)' =>
           Knows(c, i) \/ (c = b /\ i = count.drawn + 1 /\ count'.drawn = count.drawn + 1)
  PROVE  KnowsOK' /\ Fresh'
<1>0. count.drawn \in Nat /\ count'.drawn \in Nat /\ count.drawn <= count'.drawn
  BY CountIs
<1>1. ASSUME NEW i \in Ids, store'[i] # store[i]
      PROVE  Knows(b, i) /\ i <= count.drawn /\ store'[i] \in {b, NoUser, NoDoc}
  <2>1. PICK j \in Ids, x \in {b, NoUser, NoDoc} : Knows(b, j) /\ store' = [store EXCEPT ![j] = x]
    BY <1>1 DEF StoreStep
  <2>2. i = j /\ store'[i] = x
    BY <1>1, <2>1 DEF Types
  <2> QED
    BY <2>1, <2>2 DEF KnowsOK
<1>2. Fresh'
  BY <1>0, <1>1 DEF Fresh, Ids
<1>3. ASSUME NEW c \in Browsers, NEW i \in Ids, Knows(c, i)'
      PROVE  /\ i <= count'.drawn /\ store'[i] \in {c, NoUser, NoDoc}
             /\ \A d \in Browsers : Knows(d, i)' => d = c
  <2>0. i \in Nat
    BY DEF Ids
  <2>1. CASE Knows(c, i)
    <3>1. i <= count.drawn /\ store[i] \in {c, NoUser, NoDoc} /\ \A d \in Browsers : Knows(d, i) => d = c
      BY <2>1 DEF KnowsOK
    <3>2. store'[i] \in {c, NoUser, NoDoc}
      BY <1>1, <3>1
    <3>3. i # count.drawn + 1 /\ i <= count'.drawn
      BY <1>0, <2>0, <3>1
    <3> QED
      BY <3>1, <3>2, <3>3
  <2>2. CASE c = b /\ i = count.drawn + 1 /\ count'.drawn = count.drawn + 1
    <3>1. store'[i] = store[i] /\ store[i] = NoDoc
      BY <1>0, <1>1, <2>2 DEF Fresh
    <3>2. \A d \in Browsers : ~Knows(d, i)
      BY <1>0, <2>2 DEF KnowsOK
    <3>3. i <= count'.drawn
      BY <1>0, <2>2
    <3> QED
      BY <2>2, <3>1, <3>2, <3>3
  <2> QED
    BY <1>3, <2>1, <2>2
<1> QED
  BY <1>2, <1>3 DEF KnowsOK

\* A browser's own sessions are out of reach of the others.
LEMMA StoreKept ==
  ASSUME Types, KnowsOK, NEW b \in Browsers, NEW c \in Browsers, c # b, StoreStep(b),
         NEW i \in Ids, Knows(c, i)
  PROVE  store'[i] = store[i]
BY DEF StoreStep, KnowsOK, Types

\* A browser knows the sessions its cookies name.
LEMMA JarKnows ==
  ASSUME Types, FormOK, NEW b \in Browsers
  PROVE  /\ jar[b].session \in 0..MaxLogins /\ jar[b].redirect.id \in 0..MaxLogins
         /\ jar[b].session # 0 => jar[b].session \in Ids /\ Knows(b, jar[b].session)
         /\ jar[b].redirect # NoState => jar[b].redirect.id \in Ids /\ Knows(b, jar[b].redirect.id)
<1>1. jar[b].session \in 0..MaxLogins /\ jar[b].redirect.id \in 0..MaxLogins
  BY DEF Types, Cookies, Redirects
<1>2. jar[b].redirect # NoState => jar[b].redirect.id # 0
  BY DEF FormOK, CookiesOK, RedirectOK
<1> QED
  BY <1>1, <1>2, WebAssumption DEF Ids, Knows, Names

\* A browser knows the sessions its requests use.
LEMMA ReqKnows ==
  ASSUME Types, NEW t \in Tabs
  PROVE  /\ req[t].sent.session \in 0..MaxLogins /\ req[t].sent.redirect.id \in 0..MaxLogins
         /\ req[t].session.id \in 0..MaxLogins
         /\ req[t].set.session \in 0..MaxLogins /\ req[t].set.redirect.id \in 0..MaxLogins
         /\ \A i \in Ids : Uses(req[t], i) => Knows(Owner[t], i)
         /\ \A i : i \in 0..MaxLogins /\ i # 0 => i \in Ids
<1>1. req[t] \in Requests
  BY DEF Types
<1>2. req[t].sent \in Cookies /\ req[t].session \in Sessions /\ req[t].set \in Cookies
  BY <1>1 DEF Requests
<1>3. \A i \in Ids : Uses(req[t], i) => Knows(Owner[t], i)
  BY DEF Knows
<1> QED
  BY <1>2, <1>3, WebAssumption DEF Cookies, Redirects, Sessions, Ids

\* A browser's writes leave the blank sessions of others blank.
LEMMA BlankOthers ==
  ASSUME Types, KnowsOK, NEW b \in Browsers, NEW c \in Browsers, c # b, StoreStep(b),
         NEW i \in 0..MaxLogins, i # 0 => Knows(c, i), Blank(i)
  PROVE  Blank(i)'
<1>1. CASE i = 0
  BY <1>1 DEF Blank
<1>2. CASE i # 0
  <2>1. i \in Ids
    BY <1>2, WebAssumption DEF Ids
  <2>2. store'[i] = store[i]
    BY <1>2, <2>1, StoreKept
  <2> QED
    BY <2>2 DEF Blank
<1> QED
  BY <1>1, <1>2

\* A step of b changes nothing that the invariant says of another browser.
LEMMA OthersKept ==
  ASSUME Inv, NEW b \in Browsers, NEW c \in Browsers, c # b, StoreStep(b),
         jar'[c] = jar[c], \A u \in Tabs : Owner[u] = c => req'[u] = req[u],
         c \in hist'.out => c \in hist.out, c \notin hist'.disturbed => c \notin hist.disturbed
  PROVE  OutOK(c)' /\ CalmOK(c)' /\ \A u \in Tabs : Owner[u] = c => SoloOK(u)'
<1>0. Types /\ FormOK /\ KnowsOK /\ OutOK(c) /\ CalmOK(c)
  BY DEF Inv
<1>1. OutOK(c)'
  <2> SUFFICES ASSUME c \in hist.out
               PROVE  /\ Blank(jar[c].session)'
                      /\ \A u \in Tabs : Owner[u] = c => OutReq(req[u])'
    BY DEF OutOK
  <2>1. Blank(jar[c].session)'
    BY <1>0, BlankOthers, JarKnows DEF OutOK, Blank
  <2>2. ASSUME NEW u \in Tabs, Owner[u] = c PROVE OutReq(req[u])'
    <3>1. OutReq(req[u]) /\ req'[u] = req[u]
      BY <1>0, <2>2 DEF OutOK
    <3>2. \A i \in 0..MaxLogins : Blank(i) /\ (i # 0 => Uses(req[u], i)) => Blank(i)'
      BY <1>0, <2>2, BlankOthers, ReqKnows
    <3>3. \A i : i \in {req[u].sent.session, req[u].session.id, req[u].set.session} =>
             i \in 0..MaxLogins /\ Uses(req[u], i)
      BY <1>0, ReqKnows DEF Uses, Names
    <3> QED
      BY <3>1, <3>2, <3>3 DEF OutReq
  <2> QED
    BY <2>1, <2>2
<1>2. CalmOK(c)'
  <2> SUFFICES ASSUME c \notin hist.disturbed
               PROVE  /\ CalmJar(c)'
                      /\ \A u \in Tabs : Owner[u] = c /\ req'[u].kind # "none" => CalmReq(req[u], c)'
    BY DEF CalmOK
  <2>1. jar[c].session # 0 => store'[jar[c].session] = store[jar[c].session]
    BY <1>0, JarKnows, StoreKept
  <2>2. Stale(c)' <=> Stale(c)
    <3>1. jar[c].redirect # NoState => store'[jar[c].redirect.id] = store[jar[c].redirect.id]
      BY <1>0, JarKnows, StoreKept
    <3> QED
      BY <3>1 DEF Stale
  <2>3. CalmJar(c)'
    BY <1>0, <2>2 DEF CalmOK, CalmJar
  <2>4. ASSUME NEW u \in Tabs, Owner[u] = c, req'[u].kind # "none" PROVE CalmReq(req[u], c)'
    <3>1. CalmReq(req[u], c) /\ req'[u] = req[u]
      BY <1>0, <2>4 DEF CalmOK
    <3> QED
      BY <2>1, <2>2, <3>1 DEF CalmReq
  <2> QED
    BY <2>3, <2>4
<1>3. ASSUME NEW u \in Tabs, Owner[u] = c PROVE SoloOK(u)'
  <2>1. SoloOK(u) /\ req'[u] = req[u] /\ jar'[Owner[u]] = jar[Owner[u]]
    BY <1>3 DEF Inv
  <2>2. Alone(u)' <=> Alone(u)
    BY <1>3 DEF Alone
  <2> QED
    BY <2>1, <2>2 DEF SoloOK, SoloReq, Carried
<1> QED
  BY <1>1, <1>2, <1>3

\* Requests that will draw a number can be counted, one by one.
LEMMA DrawingFinite ==
  /\ IsFiniteSet(Drawing) /\ Cardinality(Drawing) \in Nat
  /\ \A t : /\ Cardinality(Drawing \ {t}) = IF t \in Drawing THEN Cardinality(Drawing) - 1
                                            ELSE Cardinality(Drawing)
            /\ Cardinality(Drawing \cup {t}) \in Nat
            /\ Cardinality(Drawing \cup {t}) <= Cardinality(Drawing) + 1
<1>1. IsFiniteSet(Drawing)
  <2>1. Drawing \subseteq Tabs
    BY DEF Drawing
  <2> QED
    BY <2>1, FS_Subset, WebAssumption
<1>2. Cardinality(Drawing) \in Nat
  BY <1>1, FS_CardinalityType
<1>3. ASSUME NEW t
      PROVE  /\ Cardinality(Drawing \ {t}) = IF t \in Drawing THEN Cardinality(Drawing) - 1
                                             ELSE Cardinality(Drawing)
             /\ Cardinality(Drawing \cup {t}) \in Nat
             /\ Cardinality(Drawing \cup {t}) <= Cardinality(Drawing) + 1
  <2>1. Cardinality(Drawing \ {t}) = IF t \in Drawing THEN Cardinality(Drawing) - 1
                                     ELSE Cardinality(Drawing)
    BY <1>1, FS_RemoveElement
  <2>2. Cardinality(Drawing \cup {t}) = IF t \in Drawing THEN Cardinality(Drawing)
                                        ELSE Cardinality(Drawing) + 1
    BY <1>1, FS_AddElement
  <2> QED
    BY <1>2, <2>1, <2>2
<1> QED
  BY <1>1, <1>2, <1>3

\* A browser's writes keep the type of the store.
LEMMA StoreTyped ==
  ASSUME Types, NEW b \in Browsers, StoreStep(b)
  PROVE  store' \in [Ids -> Profiles \cup {NoDoc}]
<1>1. {b, NoUser, NoDoc} \subseteq Profiles \cup {NoDoc}
  BY BrowserIs, Empty
<1> QED
  BY <1>1 DEF StoreStep, Types

\* A handler of tab t that is under way moves its request on to R.
LEMMA HandlerKeeps ==
  ASSUME Inv, NEW t \in Tabs, NEW R \in Requests, NEW b, b = Owner[t],
         req[t].kind # "none", R.kind = req[t].kind, R.alone = req[t].alone, R.pc # "start",
         req' = [req EXCEPT ![t] = R], jar' = jar, page' = page,
         count' \in [drawn : Nat, faults : 0..MaxFaults],
         count'.drawn = count.drawn \/ (count'.drawn = count.drawn + 1 /\ t \in Drawing),
         hist' \in [out : SUBSET Browsers, disturbed : SUBSET Browsers],
         hist'.out \in {hist.out, hist.out \ {b}},
         hist'.disturbed \in {hist.disturbed, hist.disturbed \cup {b}},
         RequestOK(R, b), StoreStep(b),
         \A i \in Ids : Uses(R, i) =>
           Knows(b, i) \/ (i = count.drawn + 1 /\ count'.drawn = count.drawn + 1),
         b \in hist'.out => OutReq(R)' /\ \A i \in 0..MaxLogins : Blank(i) => Blank(i)',
         R.alone => SoloReq(R, jar[b]),
         b \notin hist'.disturbed => CalmJar(b)' /\ CalmReq(R, b)'
  PROVE  Inv'
<1>0. Types /\ FormOK /\ DrawOK /\ KnowsOK /\ Fresh /\ b \in Browsers
  BY OwnerIs DEF Inv
<1>1. req'[t] = R /\ \A u \in Tabs : u # t => req'[u] = req[u]
  BY <1>0 DEF Types
<1>2. DrawOK' /\ count'.drawn \in 0..MaxLogins
  <2>1. Drawing' = Drawing \ {t}
    <3>1. \A u \in Tabs : u \in Drawing' <=> u \in Drawing /\ u # t
      BY <1>1 DEF Drawing
    <3> QED
      BY <3>1 DEF Drawing
  <2>2. PICK n \in Nat, m \in Nat : n = Cardinality(Drawing) /\ m = Cardinality(Drawing')
    <3>1. Cardinality(Drawing) \in Nat
      BY DrawingFinite
    <3>2. t \in Drawing => Cardinality(Drawing) # 0
      BY DrawingFinite, FS_EmptySet
    <3>3. Cardinality(Drawing') \in Nat
      BY <2>1, <3>1, <3>2, DrawingFinite
    <3> QED
      BY <3>1, <3>3
  <2>3. m = IF t \in Drawing THEN n - 1 ELSE n
    BY <2>1, <2>2, DrawingFinite
  <2>4. count.drawn + n <= MaxLogins /\ count.drawn \in Nat /\ MaxLogins \in Nat
    BY <1>0, <2>2, CountIs DEF DrawOK
  <2>5. count'.drawn + m <= MaxLogins /\ count'.drawn \in 0..MaxLogins
    BY <2>3, <2>4
  <2> QED
    BY <2>2, <2>5 DEF DrawOK
<1>3. Types'
  <2>1. store' \in [Ids -> Profiles \cup {NoDoc}]
    BY <1>0, StoreTyped
  <2>2. count' \in [drawn : 0..MaxLogins, faults : 0..MaxFaults]
    BY <1>2
  <2> QED
    BY <1>0, <2>1, <2>2 DEF Types
<1>4. FormOK'
  BY <1>0, <1>1 DEF FormOK
<1>5. KnowsOK' /\ Fresh'
  <2>1. ASSUME NEW c \in Browsers, NEW i \in Ids, Knows(c, i)'
        PROVE  Knows(c, i) \/ (c = b /\ i = count.drawn + 1 /\ count'.drawn = count.drawn + 1)
    <3>1. CASE Names(jar[c], i)
      BY <3>1 DEF Knows
    <3>2. CASE \E u \in Tabs : Owner[u] = c /\ Uses(req'[u], i)
      <4>1. PICK u \in Tabs : Owner[u] = c /\ Uses(req'[u], i)
        BY <3>2
      <4>2. CASE u = t
        BY <1>1, <4>1, <4>2
      <4>3. CASE u # t
        BY <1>1, <4>1, <4>3 DEF Knows
      <4> QED
        BY <4>2, <4>3
    <3> QED
      BY <2>1, <3>1, <3>2 DEF Knows, Names, Uses
  <2>2. count'.drawn \in {count.drawn, count.drawn + 1}
    OBVIOUS
  <2> QED
    BY <1>0, <2>1, <2>2, KnowsNext
<1>6. ASSUME NEW c \in Browsers, c # b
      PROVE  OutOK(c)' /\ CalmOK(c)' /\ \A u \in Tabs : Owner[u] = c => SoloOK(u)'
  <2>1. \A u \in Tabs : Owner[u] = c => req'[u] = req[u]
    BY <1>1, <1>6
  <2> QED
    BY <1>0, <1>6, <2>1, OthersKept
<1>7. OutOK(b)'
  <2> SUFFICES ASSUME b \in hist'.out
               PROVE  Blank(jar[b].session)' /\ \A u \in Tabs : Owner[u] = b => OutReq(req[u])'
    BY DEF OutOK
  <2>1. OutOK(b) /\ b \in hist.out
    BY <1>0 DEF Inv
  <2>2. Blank(jar[b].session)'
    BY <1>0, <2>1, JarKnows DEF OutOK, Blank
  <2>3. ASSUME NEW u \in Tabs, Owner[u] = b PROVE OutReq(req[u])'
    <3>1. CASE u = t
      BY <1>1, <3>1 DEF OutReq, Blank
    <3>2. CASE u # t
      <4>1. OutReq(req[u]) /\ req'[u] = req[u]
        BY <1>1, <2>1, <2>3, <3>2 DEF OutOK
      <4>2. /\ req[u].sent.session \in 0..MaxLogins /\ req[u].session.id \in 0..MaxLogins
            /\ req[u].set.session \in 0..MaxLogins
        BY <1>0, ReqKnows
      <4> QED
        BY <4>1, <4>2 DEF OutReq
    <3> QED
      BY <3>1, <3>2
  <2> QED
    BY <2>2, <2>3
<1>8. ASSUME NEW u \in Tabs, Owner[u] = b, u # t, req[u].kind # "none" PROVE ~req[u].alone
  BY <1>8 DEF Inv, SoloOK, Alone
<1>9. ASSUME NEW u \in Tabs, Owner[u] = b PROVE SoloOK(u)'
  <2>1. CASE u # t
    BY <1>1, <1>8, <1>9, <2>1 DEF SoloOK
  <2>2. CASE u = t
    <3>1. Alone(t)' <=> Alone(t)
      BY <1>1 DEF Alone
    <3>2. R.alone => Alone(t)
      BY DEF Inv, SoloOK
    <3>3. R.alone => SoloReq(R, jar'[Owner[t]])
      OBVIOUS
    <3> QED
      BY <1>1, <2>2, <3>1, <3>2, <3>3, ZenonT(60) DEF SoloOK, SoloReq, Carried
  <2> QED
    BY <2>1, <2>2
<1>10. CalmOK(b)'
  <2> SUFFICES ASSUME b \notin hist'.disturbed
               PROVE  /\ CalmJar(b)'
                      /\ \A u \in Tabs : Owner[u] = b /\ req'[u].kind # "none" => CalmReq(req[u], b)'
    BY DEF CalmOK
  <2>1. b \notin hist.disturbed
    OBVIOUS
  <2>2. ASSUME NEW u \in Tabs, Owner[u] = b, req'[u].kind # "none" PROVE CalmReq(req[u], b)'
    <3>1. CASE u = t
      BY <1>1, <3>1 DEF CalmReq, Stale
    <3>2. CASE u # t
      <4>1. CalmReq(req[u], b) /\ req[u].kind # "none"
        BY <1>0, <1>1, <2>1, <2>2, <3>2 DEF Inv, CalmOK
      <4> QED
        BY <1>8, <2>2, <3>2, <4>1 DEF CalmReq
    <3> QED
      BY <3>1, <3>2
  <2> QED
    BY <2>2
<1> QED
  <2>1. \A c \in Browsers : OutOK(c)' /\ CalmOK(c)'
    BY <1>6, <1>7, <1>10
  <2>2. \A u \in Tabs : SoloOK(u)'
    BY <1>6, <1>9, OwnerIs
  <2> QED
    BY <1>2, <1>3, <1>4, <1>5, <2>1, <2>2 DEF Inv


-----------------------------------------------------------------------------
(* The handlers.                                                           *)

\* A handler that leaves the store alone.
LEMMA QuietKeeps ==
  ASSUME Inv, NEW t \in Tabs, NEW R \in Requests, NEW b, b = Owner[t],
         req[t].kind # "none", R.kind = req[t].kind, R.alone = req[t].alone, R.pc # "start",
         req' = [req EXCEPT ![t] = R], jar' = jar, page' = page, store' = store,
         count' \in [drawn : Nat, faults : 0..MaxFaults],
         count'.drawn = count.drawn \/ (count'.drawn = count.drawn + 1 /\ t \in Drawing),
         hist'.out = hist.out, hist' \in [out : SUBSET Browsers, disturbed : SUBSET Browsers],
         hist'.disturbed \in {hist.disturbed, hist.disturbed \cup {b}},
         RequestOK(R, b),
         \A i \in Ids : Uses(R, i) =>
           Knows(b, i) \/ (i = count.drawn + 1 /\ count'.drawn = count.drawn + 1),
         b \in hist.out => OutReq(R),
         R.alone => SoloReq(R, jar[b]),
         b \notin hist'.disturbed => CalmReq(R, b)
  PROVE  Inv'
<1>1. StoreStep(b) /\ b \in Browsers
  BY OwnerIs DEF StoreStep
<1>2. b \in hist'.out => OutReq(R)' /\ \A i \in 0..MaxLogins : Blank(i) => Blank(i)'
  BY DEF OutReq, Blank
<1>3. ASSUME b \notin hist'.disturbed PROVE CalmJar(b)' /\ CalmReq(R, b)'
  <2>1. CalmJar(b) /\ CalmReq(R, b)
    BY <1>1, <1>3 DEF Inv, CalmOK
  <2> QED
    BY <2>1 DEF CalmJar, CalmReq, Stale
<1> QED
  BY <1>1, <1>2, <1>3, HandlerKeeps

\* What the invariant says of one request.
LEMMA ReqIs ==
  ASSUME Inv, NEW t \in Tabs
  PROVE  /\ req[t] \in Requests /\ req[t].sent \in Cookies /\ req[t].set \in Cookies
         /\ req[t].session \in Sessions /\ req[t].sent.redirect \in Redirects
         /\ RequestOK(req[t], Owner[t])
         /\ Owner[t] \in hist.out => OutReq(req[t])
         /\ req[t].kind # "none" /\ req[t].alone => SoloReq(req[t], jar[Owner[t]])
         /\ Owner[t] \notin hist.disturbed => CalmJar(Owner[t])
         /\ Owner[t] \notin hist.disturbed /\ req[t].kind # "none" => CalmReq(req[t], Owner[t])
<1>1. Types /\ FormOK /\ SoloOK(t) /\ OutOK(Owner[t]) /\ CalmOK(Owner[t])
  BY OwnerIs DEF Inv
<1>2. /\ req[t] \in Requests /\ req[t].sent \in Cookies /\ req[t].set \in Cookies
      /\ req[t].session \in Sessions
  BY <1>1 DEF Types, Requests
<1>3. req[t].sent.redirect \in Redirects
  BY <1>2 DEF Cookies
<1> QED
  BY <1>1, <1>2, <1>3 DEF FormOK, SoloOK, OutOK, CalmOK

\* A reply is in order when its cookies are.
LEMMA RepliedOK ==
  ASSUME NEW b, NEW q, q.pc = "replied", q.sent = NoCookies, q.session = NoSession,
         CookiesOK(q.set, b), q.kind # "none", q.status # "none",
         q.kind = "callback" => "session" \notin q.sets /\ q.set.redirect = NoState,
         q.kind = "token" => q.sets \subseteq {"token"},
         q.kind = "token-callback" => q.sets \subseteq {"session"},
         q.kind = "logout" => q.sets = {"session"} /\ q.set.session = 0,
         q.status = "to login" => q.kind = "callback" /\ q.sets = {},
         q.status = "to provider" => q.kind = "login"
  PROVE  RequestOK(q, b)
<1>1. CookiesOK(NoCookies, b) /\ NoSession.data = NoUser /\ ~NoSession.isNew
  BY EmptyOK, Empty, EmptyReq
<1> QED
  BY <1>1 DEF RequestOK

\* A reply uses the sessions its cookies name.
LEMMA RepliedUses ==
  ASSUME NEW q, NEW r, NEW s, Replied(q, r, s), NEW i \in Ids, Uses(q, i)
  PROVE  Names(r.set, i)
<1>1. ~Names(NoCookies, i) /\ NoSession.id # i
  BY EmptyUses, Empty DEF Ids
<1> QED
  BY <1>1 DEF Uses, Replied

\* Counters and history keep their types in a fault.
LEMMA SameCount ==
  ASSUME Inv
  PROVE  /\ count \in [drawn : Nat, faults : 0..MaxFaults]
         /\ hist \in [out : SUBSET Browsers, disturbed : SUBSET Browsers]
         /\ Fault => count' \in [drawn : Nat, faults : 0..MaxFaults] /\ count'.drawn = count.drawn
<1>1. count \in [drawn : 0..MaxLogins, faults : 0..MaxFaults]
  BY DEF Inv, Types
<1>2. count \in [drawn : Nat, faults : 0..MaxFaults]
  BY <1>1, WebAssumption
<1>3. ASSUME Fault PROVE count' \in [drawn : Nat, faults : 0..MaxFaults] /\ count'.drawn = count.drawn
  <2>1. count.faults + 1 \in 0..MaxFaults
    BY <1>2, <1>3, WebAssumption DEF Fault
  <2> QED
    BY <1>2, <1>3, <2>1 DEF Fault
<1> QED
  BY <1>2, <1>3 DEF Inv, Types

\* What GetOrCreate gives a request that is about to draw a number.
LEMMA GetOrCreateIs ==
  ASSUME Inv, NEW t \in Tabs, req[t].kind \in {"login", "token-callback"}, req[t].pc = "start"
  PROVE  /\ GetOrCreate(req[t].sent) \in Sessions /\ GetOrCreate(req[t].sent).id # 0
         /\ GetOrCreate(req[t].sent).data \in {Owner[t], NoUser}
         /\ GetOrCreate(req[t].sent).id =
              IF req[t].sent.session # 0 THEN req[t].sent.session ELSE count.drawn + 1
         /\ req[t].sent.session = 0 => GetOrCreate(req[t].sent).isNew
         /\ Owner[t] \in hist.out =>
              Blank(GetOrCreate(req[t].sent).id) /\ GetOrCreate(req[t].sent).data = NoUser
         /\ t \in Drawing /\ count.drawn + 1 \in Ids
<1>0. Types /\ KnowsOK /\ Fresh /\ DrawOK
  BY DEF Inv
<1>1. t \in Drawing /\ count.drawn + 1 \in Ids
  <2>1. t \in Drawing
    BY DEF Drawing
  <2>2. PICK n \in Nat : n = Cardinality(Drawing) /\ n # 0
    BY <2>1, DrawingFinite, FS_EmptySet
  <2> QED
    BY <1>0, <2>1, <2>2, CountIs DEF DrawOK, Ids
<1>2. PICK i \in 0..MaxLogins : i = req[t].sent.session
  BY <1>0, ReqKnows
<1>3. i # 0 => i \in Ids /\ Knows(Owner[t], i)
  BY <1>0, <1>2, ReqKnows DEF Uses, Names
<1>4. NoUser \in Profiles /\ Owner[t] \in Profiles /\ Owner[t] \in Browsers
  BY Empty, OwnerIs
<1>5. CASE i # 0 /\ store[i] # NoDoc
  <2>1. GetOrCreate(req[t].sent) = [id |-> i, isNew |-> FALSE, data |-> store[i]]
    BY <1>2, <1>5 DEF GetOrCreate, StoreGet
  <2>2. store[i] \in {Owner[t], NoUser}
    BY <1>0, <1>3, <1>4, <1>5 DEF KnowsOK
  <2>3. Owner[t] \in hist.out => Blank(i)
    BY <1>2, ReqIs DEF OutReq
  <2> QED
    BY <1>1, <1>2, <1>4, <1>5, <2>1, <2>2, <2>3 DEF Sessions, Blank
<1>6. CASE ~(i # 0 /\ store[i] # NoDoc)
  <2>1. PICK k : k = IF i # 0 THEN i ELSE count.drawn + 1
    OBVIOUS
  <2>2. GetOrCreate(req[t].sent) = [id |-> k, isNew |-> TRUE, data |-> NoUser]
    BY <1>2, <1>6, <2>1 DEF GetOrCreate, NewID
  <2>3. k \in 0..MaxLogins /\ k # 0 /\ store[k] = NoDoc
    BY <1>0, <1>1, <1>3, <1>6, <2>1, CountIs DEF Ids, Fresh
  <2> QED
    BY <1>1, <1>2, <1>4, <2>1, <2>2, <2>3 DEF Sessions, Blank
<1> QED
  BY <1>5, <1>6

\* The session such a request works on, when its browser was not disturbed.
LEMMA GetOrCreateCalm ==
  ASSUME Inv, NEW t \in Tabs, req[t].kind \in {"login", "token-callback"}, req[t].pc = "start",
         Owner[t] \notin hist.disturbed
  PROVE  LET i == GetOrCreate(req[t].sent).id
             j == jar[Owner[t]]
         IN  i = j.session \/ (j.session = 0 /\ i # j.redirect.id)
<1>1. Types /\ FormOK /\ KnowsOK /\ Owner[t] \in Browsers
  BY OwnerIs DEF Inv
<1>2. req[t].sent = Carried(req[t].kind, jar[Owner[t]])
  BY ReqIs DEF CalmReq, SoloReq
<1>3. req[t].sent.session = jar[Owner[t]].session
  BY <1>1, <1>2, CarriedIs DEF Types
<1>4. jar[Owner[t]].redirect.id # count.drawn + 1
  <2>1. jar[Owner[t]].redirect = NoState \/ jar[Owner[t]].redirect.id <= count.drawn
    BY <1>1, JarKnows DEF KnowsOK
  <2> QED
    BY <1>1, <2>1, CountIs, JarKnows, Empty
<1> QED
  BY <1>3, <1>4, GetOrCreateIs


\* A login reads or makes its session.
LEMMA LoginGetKeeps ==
  ASSUME Inv, NEW t \in Tabs, LoginGet(t)
  PROVE  Inv'
<1>0. /\ req[t].kind = "login" /\ req[t].pc = "start" /\ UNCHANGED <<jar, page, store, hist>>
      /\ count' = [count EXCEPT !.drawn = @ + 1]
  BY DEF LoginGet, At, Moves
<1>1. PICK s \in Sessions : s = GetOrCreate(req[t].sent)
  BY <1>0, GetOrCreateIs
<1>2. /\ s.id # 0 /\ s.data \in {Owner[t], NoUser}
      /\ req[t].sent.session = 0 => s.isNew
      /\ s.id = IF req[t].sent.session # 0 THEN req[t].sent.session ELSE count.drawn + 1
      /\ Owner[t] \in hist.out => Blank(s.id) /\ s.data = NoUser
      /\ t \in Drawing /\ count.drawn + 1 \in Ids
  BY <1>0, <1>1, GetOrCreateIs
<1>3. PICK d : d = [id |-> s.id, state |-> count.drawn + 1]
  OBVIOUS
<1>4. d \in Redirects /\ d.id = s.id /\ s.id \in 0..MaxLogins
  BY <1>2, <1>3 DEF Redirects, Sessions, Ids
<1>5. PICK r \in Requests : r = SetCookie(req[t], "redirect", d)
  BY <1>4, ReqIs, SetCookieIs
<1>6. /\ r.sets = req[t].sets \cup {"redirect"} /\ r.set.redirect = d
      /\ r.set.session = req[t].set.session /\ r.set.token = req[t].set.token
      /\ r.kind = "login" /\ r.sent = req[t].sent /\ r.status = req[t].status
      /\ r.alone = req[t].alone
  BY <1>0, <1>4, <1>5, ReqIs, SetCookieIs, SetCookieKeeps
<1>7. PICK R : R = [r EXCEPT !.pc = "save", !.state = count.drawn + 1, !.session = s]
  OBVIOUS
<1>8. R \in Requests
  <2>1. count.drawn + 1 \in 0..MaxLogins
    BY <1>2, WebAssumption DEF Ids
  <2> QED
    BY <1>7, <2>1 DEF Requests
<1>9. /\ R.pc = "save" /\ R.session = s /\ R.kind = "login" /\ R.sent = req[t].sent
      /\ R.status = req[t].status /\ R.alone = req[t].alone /\ R.set = r.set /\ R.sets = r.sets
  BY <1>6, <1>7 DEF Requests
<1>10. req' = [req EXCEPT ![t] = R]
  BY <1>1, <1>3, <1>5, <1>7 DEF LoginGet, Moves, NewID
<1>11. RequestOK(req[t], Owner[t])
  BY ReqIs
<1>12. RequestOK(R, Owner[t])
  <2>1. R.sets = {"redirect"} /\ R.status = "none"
    BY <1>0, <1>6, <1>9, <1>11 DEF RequestOK
  <2>2. CookiesOK(R.set, Owner[t]) /\ CookiesOK(R.sent, Owner[t])
    BY <1>2, <1>4, <1>6, <1>9, <1>11 DEF RequestOK, CookiesOK, RedirectOK
  <2> QED
    BY <1>2, <1>9, <2>1, <2>2 DEF RequestOK
<1>13. /\ count' \in [drawn : Nat, faults : 0..MaxFaults] /\ count'.drawn = count.drawn + 1
       /\ count.drawn \in Nat
  BY <1>0, SameCount
<1>14. ASSUME NEW i \in Ids, Uses(R, i) PROVE Knows(Owner[t], i) \/ i = count.drawn + 1
  <2>1. Uses(req[t], i) \/ i = s.id
    BY <1>4, <1>6, <1>9, <1>14 DEF Uses, Names
  <2>2. i = s.id => Uses(req[t], i) \/ i = count.drawn + 1
    BY <1>2 DEF Uses, Names
  <2> QED
    BY <2>1, <2>2, ReqKnows DEF Inv
<1>15. Owner[t] \in hist.out => OutReq(R)
  <2>1. Owner[t] \in hist.out => OutReq(req[t])
    BY ReqIs
  <2> QED
    <3>1. "session" \notin R.sets
      BY <1>9, <1>12 DEF RequestOK
    <3> QED
      BY <1>0, <1>2, <1>9, <2>1, <3>1 DEF OutReq
<1>16. R.alone => SoloReq(R, jar[Owner[t]])
  <2>1. R.alone => req[t].sent = Carried("login", jar[Owner[t]])
    BY <1>0, <1>9, ReqIs DEF SoloReq
  <2>2. R.alone => req[t].sent.session = jar[Owner[t]].session
    BY <2>1, CarriedIs, OwnerIs DEF Inv, Types
  <2>3. R.status = "none"
    BY <1>0, <1>9, <1>11 DEF RequestOK
  <2> QED
    BY <1>2, <1>4, <1>6, <1>9, <2>2, <2>3 DEF SoloReq
<1>17. Owner[t] \notin hist.disturbed => CalmReq(R, Owner[t])
  <2>1. Owner[t] \notin hist.disturbed => req[t].alone
    BY <1>0, ReqIs DEF CalmReq
  <2> QED
    BY <1>0, <1>1, <1>9, <2>1, GetOrCreateCalm DEF CalmReq
<1> QED
  BY <1>0, <1>2, <1>8, <1>9, <1>10, <1>12, <1>13, <1>14, <1>15, <1>16, <1>17, QuietKeeps, SameCount

\* A token callback reads or makes its session.
LEMMA TokenCallbackGetKeeps ==
  ASSUME Inv, NEW t \in Tabs, TokenCallbackGet(t)
  PROVE  Inv'
<1>0. /\ req[t].kind = "token-callback" /\ req[t].pc = "start" /\ UNCHANGED <<jar, page, store, hist>>
      /\ count' = [count EXCEPT !.drawn = IF req[t].sent.session = 0 THEN @ + 1 ELSE @]
  BY DEF TokenCallbackGet, At, Moves
<1>1. PICK s \in Sessions : s = GetOrCreate(req[t].sent)
  BY <1>0, GetOrCreateIs
<1>2. /\ s.id # 0 /\ s.data \in {Owner[t], NoUser}
      /\ s.id = IF req[t].sent.session # 0 THEN req[t].sent.session ELSE count.drawn + 1
      /\ Owner[t] \in hist.out => Blank(s.id) /\ s.data = NoUser
      /\ t \in Drawing
  BY <1>0, <1>1, GetOrCreateIs
<1>3. PICK R : R = [req[t] EXCEPT !.pc = "exchange", !.session = s]
  OBVIOUS
<1>4. R \in Requests
  BY <1>3, ReqIs DEF Requests
<1>5. /\ R.pc = "exchange" /\ R.session = s /\ R.kind = "token-callback" /\ R.sent = req[t].sent
      /\ R.status = req[t].status /\ R.alone = req[t].alone /\ R.set = req[t].set
      /\ R.sets = req[t].sets
  BY <1>0, <1>3, ReqIs DEF Requests
<1>6. req' = [req EXCEPT ![t] = R]
  BY <1>1, <1>3 DEF TokenCallbackGet, Moves
<1>7. RequestOK(req[t], Owner[t])
  BY ReqIs
<1>8. RequestOK(R, Owner[t])
  BY <1>0, <1>2, <1>5, <1>7 DEF RequestOK
<1>9. /\ count' \in [drawn : Nat, faults : 0..MaxFaults] /\ count.drawn \in Nat
      /\ count'.drawn = IF req[t].sent.session = 0 THEN count.drawn + 1 ELSE count.drawn
  BY <1>0, SameCount
<1>10. ASSUME NEW i \in Ids, Uses(R, i)
       PROVE  Knows(Owner[t], i) \/ (i = count.drawn + 1 /\ count'.drawn = count.drawn + 1)
  <2>1. Uses(req[t], i) \/ i = s.id
    BY <1>5, <1>10 DEF Uses, Names
  <2>2. i = s.id => Uses(req[t], i) \/ (i = count.drawn + 1 /\ count'.drawn = count.drawn + 1)
    BY <1>2, <1>9 DEF Uses, Names
  <2> QED
    BY <2>1, <2>2, ReqKnows DEF Inv
<1>11. Owner[t] \in hist.out => OutReq(R)
  <2>1. Owner[t] \in hist.out => OutReq(req[t])
    BY ReqIs
  <2> QED
    BY <1>0, <1>2, <1>5, <1>7, <2>1 DEF OutReq, RequestOK
<1>12. SoloReq(R, jar[Owner[t]])
  BY <1>0, <1>5, <1>7 DEF SoloReq, RequestOK
<1>13. Owner[t] \notin hist.disturbed => CalmReq(R, Owner[t])
  <2>1. Owner[t] \notin hist.disturbed => req[t].alone
    BY <1>0, ReqIs DEF CalmReq
  <2>2. "session" \notin R.sets
    BY <1>0, <1>5, <1>7 DEF RequestOK
  <2> QED
    BY <1>0, <1>1, <1>5, <2>1, <2>2, GetOrCreateCalm DEF CalmReq
<1>14. R.kind = req[t].kind /\ R.alone = req[t].alone /\ R.pc # "start" /\ req[t].kind # "none"
  BY <1>0, <1>5
<1>15. count'.drawn = count.drawn \/ (count'.drawn = count.drawn + 1 /\ t \in Drawing)
  BY <1>2, <1>9
<1>16. /\ hist'.out = hist.out /\ hist' \in [out : SUBSET Browsers, disturbed : SUBSET Browsers]
       /\ hist'.disturbed = hist.disturbed
  BY <1>0, SameCount
<1>17. R.alone => SoloReq(R, jar[Owner[t]])
  BY <1>12
<1>18. jar' = jar /\ page' = page /\ store' = store
  BY <1>0
<1> QED
  BY <1>4, <1>6, <1>8, <1>9, <1>10, <1>11, <1>13, <1>14, <1>15, <1>16, <1>17, <1>18, QuietKeeps

\* A callback gets its tokens from the provider.
LEMMA VerifyKeeps ==
  ASSUME Inv, NEW t \in Tabs, VerifyAndSaveToken(t)
  PROVE  Inv'
<1>0. /\ req[t].pc = "exchange" /\ UNCHANGED <<jar, page, store, hist, count>>
  BY DEF VerifyAndSaveToken, Moves
<1>1. PICK R : R = [req[t] EXCEPT !.pc = "save", !.session.data = Owner[t]]
  OBVIOUS
<1>2. R \in Requests
  BY <1>1, ReqIs, OwnerIs, ZenonT(60) DEF Requests, Sessions
<1>3. /\ R.pc = "save" /\ R.session = [req[t].session EXCEPT !.data = Owner[t]] /\ R.kind = req[t].kind
      /\ R.sent = req[t].sent /\ R.status = req[t].status /\ R.alone = req[t].alone
      /\ R.set = req[t].set /\ R.sets = req[t].sets
  BY <1>1, ReqIs DEF Requests
<1>4. /\ R.session.id = req[t].session.id /\ R.session.isNew = req[t].session.isNew
      /\ R.session.data = Owner[t]
  BY <1>3, ReqIs DEF Sessions
<1>5. req' = [req EXCEPT ![t] = R]
  BY <1>1 DEF VerifyAndSaveToken, Moves
<1>6. RequestOK(req[t], Owner[t])
  BY ReqIs
<1>7. req[t].kind \in {"callback", "token-callback"}
  BY <1>0, <1>6 DEF RequestOK
<1>8. RequestOK(R, Owner[t])
  BY <1>0, <1>3, <1>4, <1>6, <1>7 DEF RequestOK
<1>9. \A i \in Ids : Uses(R, i) => Knows(Owner[t], i)
  BY <1>3, <1>4, ReqKnows DEF Inv, Uses
<1>10. Owner[t] \in hist.out => OutReq(R)
  BY <1>3, <1>4, <1>7, ReqIs DEF OutReq
<1>11. SoloReq(R, jar[Owner[t]])
  BY <1>0, <1>3, <1>6, <1>7 DEF SoloReq, RequestOK
<1>12. Owner[t] \notin hist.disturbed => CalmReq(R, Owner[t])
  BY <1>0, <1>3, <1>4, <1>7, ReqIs DEF CalmReq
<1> QED
  BY <1>0, <1>2, <1>3, <1>5, <1>7, <1>8, <1>9, <1>10, <1>11, <1>12, QuietKeeps, SameCount

\* A login saves its session, before it redirects to the provider.
LEMMA LoginSaveKeeps ==
  ASSUME Inv, NEW t \in Tabs, LoginSave(t)
  PROVE  Inv'
<1>0. /\ req[t].kind = "login" /\ req[t].pc = "save" /\ UNCHANGED <<jar, page, count, hist>>
      /\ store' = [store EXCEPT ![req[t].session.id] = req[t].session.data]
  BY DEF LoginSave, At, Moves, StoreSave
<1>1. PICK b \in Browsers : b = Owner[t]
  BY OwnerIs
<1>2. Types /\ FormOK /\ KnowsOK /\ RequestOK(req[t], b)
  BY <1>1, ReqIs DEF Inv
<1>3. PICK X \in Requests : X = Save(req[t])
  BY ReqIs, SaveIs
<1>4. /\ X.kind = "login" /\ X.alone = req[t].alone
      /\ X.sets = IF req[t].session.isNew THEN req[t].sets \cup {"session"} ELSE req[t].sets
      /\ X.set.session = IF req[t].session.isNew THEN req[t].session.id ELSE req[t].set.session
      /\ X.set.redirect = req[t].set.redirect /\ X.set.token = req[t].set.token
  BY <1>0, <1>3, ReqIs, SaveIs
<1>5. PICK R : R = Reply(X, "to provider") /\ Replied(R, X, "to provider")
  BY ReplyIs DEF Statuses
<1>6. /\ R.kind = "login" /\ R.pc = "replied" /\ R.sent = NoCookies /\ R.session = NoSession
      /\ R.set = X.set /\ R.sets = X.sets /\ R.status = "to provider" /\ R.alone = req[t].alone
      /\ R \in Requests
  BY <1>4, <1>5 DEF Replied
<1>7. req' = [req EXCEPT ![t] = R]
  BY <1>3, <1>5 DEF LoginSave, Moves
<1>8. RequestOK(R, b)
  <2>1. CookiesOK(R.set, b)
    BY <1>2, <1>4, <1>6 DEF RequestOK, CookiesOK, RedirectOK
  <2> QED
    BY <1>6, <2>1, RepliedOK
<1>9. PICK i \in Ids : i = req[t].session.id /\ Knows(b, i)
  BY <1>0, <1>1, <1>2, ReqKnows DEF RequestOK, Uses
<1>10. StoreStep(b)
  BY <1>0, <1>2, <1>9 DEF StoreStep, RequestOK
<1>11. \A k \in Ids : Uses(R, k) => Knows(b, k)
  <2>1. ASSUME NEW k \in Ids, Uses(R, k) PROVE Uses(req[t], k)
    <3>1. Names(X.set, k)
      BY <1>5, <2>1, RepliedUses
    <3> QED
      BY <1>4, <3>1 DEF Names, Uses
  <2> QED
    BY <1>1, <1>2, <2>1, ReqKnows
<1>12. ASSUME b \in hist.out PROVE OutReq(R)' /\ \A k \in 0..MaxLogins : Blank(k) => Blank(k)'
  <2>1. OutReq(req[t])
    BY <1>1, <1>12, ReqIs
  <2>2. req[t].session.data = NoUser /\ Blank(i)
    BY <1>0, <1>9, <2>1 DEF OutReq
  <2>3. \A k \in 0..MaxLogins : Blank(k) => Blank(k)'
    BY <1>0, <1>2, <1>9, <2>2 DEF Blank, Types
  <2>4. Blank(0)' /\ Blank(i)'
    BY <2>2, <2>3, WebAssumption DEF Ids, Blank
  <2>5. "session" \in R.sets => R.set.session = i
    BY <1>0, <1>2, <1>4, <1>6, <1>9 DEF RequestOK
  <2> QED
    BY <1>6, <2>3, <2>4, <2>5, Empty DEF OutReq
<1>13. R.alone => SoloReq(R, jar[b])
  <2>1. R.alone => SoloReq(req[t], jar[b])
    BY <1>0, <1>1, <1>6, ReqIs
  <2>2. "session" \notin req[t].sets /\ req[t].session.id # 0
    BY <1>0, <1>2 DEF RequestOK
  <2> QED
    BY <1>0, <1>4, <1>6, <2>1, <2>2, ZenonT(60) DEF SoloReq
<1>14. ASSUME b \notin hist.disturbed PROVE CalmJar(b)' /\ CalmReq(R, b)'
  <2>1. CalmJar(b) /\ CalmReq(req[t], b)
    BY <1>0, <1>1, <1>14, ReqIs
  <2>2. i = jar[b].session \/ i # jar[b].redirect.id
    BY <1>0, <1>9, <2>1 DEF CalmReq
  <2>3. i # 0
    BY DEF Ids
  <2>4. CalmJar(b)'
    BY <1>0, <1>2, <1>9, <2>1, <2>2, <2>3 DEF CalmJar, Stale, Types
  <2> QED
    BY <1>6, <2>1, <2>4 DEF CalmReq
<1> QED
  BY <1>0, <1>1, <1>6, <1>7, <1>8, <1>10, <1>11, <1>12, <1>13, <1>14, HandlerKeeps, SameCount

\* A handler that replies and leaves the store alone.  X is the request with
\* the cookies that the reply sets.
LEMMA ReplyKeeps ==
  ASSUME Inv, NEW t \in Tabs, NEW X \in Requests, NEW R, Replied(R, X, R.status),
         req[t].kind # "none", X.kind = req[t].kind, X.alone = req[t].alone,
         req' = [req EXCEPT ![t] = R], jar' = jar, page' = page, store' = store,
         count' \in [drawn : Nat, faults : 0..MaxFaults], count'.drawn = count.drawn,
         hist'.out = hist.out, hist' \in [out : SUBSET Browsers, disturbed : SUBSET Browsers],
         hist'.disturbed \in {hist.disturbed, hist.disturbed \cup {Owner[t]}},
         R.status \notin {"none", "to provider"},
         R.status = "to login" => X.kind = "callback" /\ X.sets = {},
         CookiesOK(X.set, Owner[t]),
         \A i \in Ids : Names(X.set, i) => Knows(Owner[t], i),
         X.kind = "callback" => "session" \notin X.sets /\ X.set.redirect = NoState,
         X.kind = "token" => X.sets \subseteq {"token"},
         X.kind = "token-callback" => X.sets \subseteq {"session"},
         X.kind = "logout" => X.sets = {"session"} /\ X.set.session = 0,
         Owner[t] \in hist.out /\ "session" \in X.sets => Blank(X.set.session),
         X.kind = "login" /\ X.alone /\ X.sets # {} =>
           /\ "redirect" \in X.sets /\ X.set.redirect.id # 0
           /\ X.set.redirect.id = IF "session" \in X.sets THEN X.set.session
                                  ELSE jar[Owner[t]].session,
         Owner[t] \notin hist'.disturbed => CalmReq(R, Owner[t])
  PROVE  Inv'
<1>1. /\ R.kind = X.kind /\ R.pc = "replied" /\ R.sent = NoCookies /\ R.session = NoSession
      /\ R.set = X.set /\ R.sets = X.sets /\ R.alone = req[t].alone /\ R \in Requests
  BY DEF Replied
<1>2. RequestOK(R, Owner[t])
  BY <1>1, RepliedOK
<1>3. \A k \in Ids : Uses(R, k) => Knows(Owner[t], k)
  BY RepliedUses
<1>4. Owner[t] \in hist.out => OutReq(R)
  BY <1>1, Empty DEF OutReq, Blank
<1>5. R.alone => SoloReq(R, jar[Owner[t]])
  BY <1>1 DEF SoloReq
<1> QED
  BY <1>1, <1>2, <1>3, <1>4, <1>5, QuietKeeps

\* A callback reads the session its redirect state names.
LEMMA CallbackGetKeeps ==
  ASSUME Inv, NEW t \in Tabs, CallbackGet(t)
  PROVE  Inv'
<1>0. /\ req[t].kind = "callback" /\ req[t].pc = "start" /\ UNCHANGED <<jar, page, store, count, hist>>
  BY DEF CallbackGet, At, Moves
<1>1. RequestOK(req[t], Owner[t]) /\ req[t] \in Requests /\ Types /\ KnowsOK
  BY ReqIs DEF Inv
<1>2. req[t].sets = {} /\ req[t].status = "none" /\ CookiesOK(req[t].set, Owner[t])
      /\ ~req[t].session.isNew /\ req[t].set.redirect = NoState
  BY <1>0, <1>1 DEF RequestOK
<1>3. PICK r \in Requests : r = SetCookie(req[t], "redirect", NoState)
  BY <1>1, SetCookieIs, Empty
<1>4. /\ r.sets = {"redirect"} /\ r.set.redirect = NoState /\ r.set.session = req[t].set.session
      /\ r.set.token = req[t].set.token /\ r.kind = "callback" /\ r.sent = req[t].sent
      /\ r.status = "none" /\ r.alone = req[t].alone /\ r.state = req[t].state
  BY <1>0, <1>1, <1>2, <1>3, SetCookieIs, SetCookieKeeps, Empty, SMTT(30)
<1>5. CookiesOK(r.set, Owner[t])
  BY <1>2, <1>4 DEF CookiesOK, RedirectOK
<1>6. ASSUME NEW X \in {req[t], r}, NEW R, Replied(R, X, R.status),
             R.status \in {"to login", "error", "bad state"},
             R.status = "to login" => X = req[t], req' = [req EXCEPT ![t] = R]
      PROVE  Inv'
  <2>1. /\ X \in Requests /\ X.sets \subseteq {"redirect"} /\ X.kind = "callback"
        /\ X.alone = req[t].alone /\ CookiesOK(X.set, Owner[t])
        /\ R.status = "to login" => X.sets = {}
        /\ X.set.redirect = NoState
    BY <1>0, <1>1, <1>2, <1>3, <1>4, <1>5, <1>6
  <2>2. ASSUME NEW k \in Ids, Names(X.set, k) PROVE Knows(Owner[t], k)
    <3>1. NoState.id # k
      BY Empty DEF Ids
    <3>2. Uses(req[t], k)
      BY <1>4, <1>6, <2>2, <3>1 DEF Names, Uses
    <3> QED
      BY <1>1, <3>2, ReqKnows
  <2>3. R.kind = "callback" /\ R.pc = "replied" /\ R.sets = X.sets /\ R.alone = X.alone
    BY <1>6, <2>1 DEF Replied
  <2>4. ASSUME Owner[t] \notin hist.disturbed PROVE CalmReq(R, Owner[t])
    <3>1. req[t].alone
      BY <1>0, <2>4, ReqIs DEF CalmReq
    <3> QED
      BY <1>6, <2>1, <2>3, <3>1 DEF CalmReq
  <2> QED
    BY <1>0, <1>6, <2>1, <2>2, <2>4, ReplyKeeps, SameCount
<1>7. PICK i : i = req[t].sent.redirect.id
  OBVIOUS
<1>8. ASSUME req[t].sent.redirect # NoState, store[i] # NoDoc,
             req' = [req EXCEPT ![t] = [r EXCEPT !.pc = "exchange", !.session = StoreGet(i)]]
      PROVE  Inv'
  <2>1. i \in Ids /\ i \in 0..MaxLogins /\ i # 0 /\ Uses(req[t], i) /\ Knows(Owner[t], i)
    <3>1. i # 0 /\ i \in 0..MaxLogins
      BY <1>1, <1>7, <1>8, ReqKnows DEF RequestOK, CookiesOK, RedirectOK
    <3>2. i \in Ids /\ Uses(req[t], i)
      BY <1>1, <1>7, <3>1, ReqKnows DEF Uses, Names
    <3> QED
      BY <1>1, <3>1, <3>2, ReqKnows
  <2>2. store[i] \in {Owner[t], NoUser}
    BY <1>1, <1>8, <2>1, OwnerIs DEF KnowsOK
  <2>3. PICK s : s = StoreGet(i)
    OBVIOUS
  <2>4. s \in Sessions /\ s.id = i /\ ~s.isNew /\ s.data \in {Owner[t], NoUser}
    BY <2>1, <2>2, <2>3, OwnerIs, Empty DEF StoreGet, Sessions
  <2>5. PICK R : R = [r EXCEPT !.pc = "exchange", !.session = s]
    OBVIOUS
  <2>6. R \in Requests
    BY <2>4, <2>5 DEF Requests
  <2>7. /\ R.kind = "callback" /\ R.pc = "exchange" /\ R.sent = req[t].sent /\ R.session = s
        /\ R.set = r.set /\ R.sets = {"redirect"} /\ R.status = "none" /\ R.alone = req[t].alone
    BY <1>4, <2>5 DEF Requests
  <2>8. RequestOK(R, Owner[t])
    BY <1>1, <1>4, <1>5, <2>1, <2>4, <2>7 DEF RequestOK
  <2>9. \A k \in Ids : Uses(R, k) => Knows(Owner[t], k)
    <3>1. ASSUME NEW k \in Ids, Uses(R, k) PROVE Uses(req[t], k)
      <4>1. NoState.id # k
        BY Empty DEF Ids
      <4> QED
        BY <1>4, <2>1, <2>4, <2>7, <3>1, <4>1 DEF Uses, Names
    <3> QED
      BY <1>1, <3>1, ReqKnows
  <2>10. OutReq(R)
    BY <2>7 DEF OutReq
  <2>11. SoloReq(R, jar[Owner[t]])
    BY <2>7 DEF SoloReq
  <2>12. ASSUME Owner[t] \notin hist.disturbed PROVE CalmReq(R, Owner[t])
    <3>1. CalmJar(Owner[t]) /\ CalmReq(req[t], Owner[t])
      BY <1>0, <2>12, ReqIs
    <3>2. req[t].alone /\ req[t].sent = Carried("callback", jar[Owner[t]])
      BY <1>0, <3>1, ReqIs DEF CalmReq, SoloReq
    <3>3. req[t].sent.redirect = jar[Owner[t]].redirect
      BY <1>1, <3>2, CarriedIs, OwnerIs DEF Types
    <3>4. i = jar[Owner[t]].session
      BY <1>7, <1>8, <3>1, <3>3 DEF CalmJar, Stale
    <3> QED
      BY <2>4, <2>7, <3>2, <3>4 DEF CalmReq
  <2>13. req' = [req EXCEPT ![t] = R]
    BY <1>8, <2>3, <2>5
  <2> QED
    BY <1>0, <2>6, <2>7, <2>8, <2>9, <2>10, <2>11, <2>12, <2>13, QuietKeeps, SameCount
<1> QED
  <2>1. req' = [req EXCEPT ![t] =
             IF r.sent.redirect = NoState THEN Reply(req[t], "to login")
             ELSE IF store[r.sent.redirect.id] = NoDoc THEN Reply(r, "error")
             ELSE IF r.state # r.sent.redirect.state THEN Reply(r, "bad state")
             ELSE [r EXCEPT !.pc = "exchange", !.session = StoreGet(r.sent.redirect.id)]]
    BY <1>3 DEF CallbackGet, Moves
  <2>2. CASE r.sent.redirect = NoState
    <3>1. Replied(Reply(req[t], "to login"), req[t], "to login")
      BY <1>1, ReplyIs DEF Statuses
    <3>2. Reply(req[t], "to login").status = "to login"
      BY <3>1 DEF Replied
    <3> QED
      BY <1>6, <2>1, <2>2, <3>1, <3>2
  <2>3. CASE r.sent.redirect # NoState /\ store[r.sent.redirect.id] = NoDoc
    <3>1. Replied(Reply(r, "error"), r, "error")
      BY ReplyIs DEF Statuses
    <3>2. Reply(r, "error").status = "error"
      BY <3>1 DEF Replied
    <3> QED
      BY <1>6, <2>1, <2>3, <3>1, <3>2
  <2>4. CASE /\ r.sent.redirect # NoState /\ store[r.sent.redirect.id] # NoDoc
             /\ r.state # r.sent.redirect.state
    <3>1. Replied(Reply(r, "bad state"), r, "bad state")
      BY ReplyIs DEF Statuses
    <3>2. Reply(r, "bad state").status = "bad state"
      BY <3>1 DEF Replied
    <3> QED
      BY <1>6, <2>1, <2>4, <3>1, <3>2
  <2>5. CASE /\ r.sent.redirect # NoState /\ store[r.sent.redirect.id] # NoDoc
             /\ r.state = r.sent.redirect.state
    BY <1>4, <1>7, <1>8, <2>1, <2>5
  <2> QED
    BY <2>2, <2>3, <2>4, <2>5

\* A callback saves the profile.
LEMMA CallbackSaveKeeps ==
  ASSUME Inv, NEW t \in Tabs, CallbackSave(t)
  PROVE  Inv'
<1>0. /\ req[t].kind \in {"callback", "token-callback"} /\ req[t].pc = "save"
      /\ UNCHANGED <<jar, page, count>>
      /\ store' = [store EXCEPT ![req[t].session.id] = req[t].session.data]
      /\ hist' = [hist EXCEPT !.out = @ \ {Owner[t]}]
  BY DEF CallbackSave, Moves, StoreSave
<1>1. PICK b \in Browsers : b = Owner[t]
  BY OwnerIs
<1>2. Types /\ FormOK /\ KnowsOK /\ RequestOK(req[t], b)
  BY <1>1, ReqIs DEF Inv
<1>3. PICK X \in Requests : X = Save(req[t])
  BY ReqIs, SaveIs
<1>4. /\ X.kind = req[t].kind /\ X.alone = req[t].alone
      /\ X.sets = IF req[t].session.isNew THEN req[t].sets \cup {"session"} ELSE req[t].sets
      /\ X.set.session = IF req[t].session.isNew THEN req[t].session.id ELSE req[t].set.session
      /\ X.set.redirect = req[t].set.redirect /\ X.set.token = req[t].set.token
  BY <1>3, ReqIs, SaveIs
<1>5. PICK Y \in Requests : Y = IF X.kind = "callback" THEN SetCookie(X, "token", b) ELSE X
  BY SetCookieIs, BrowserIs
<1>6. /\ Y.kind = req[t].kind /\ Y.alone = req[t].alone
      /\ Y.sets = IF X.kind = "callback" THEN X.sets \cup {"token"} ELSE X.sets
      /\ Y.set.session = X.set.session /\ Y.set.redirect = X.set.redirect
      /\ Y.set.token \in {b, X.set.token}
  <2>1. CASE X.kind = "callback"
    <3>1. Y = SetCookie(X, "token", b) /\ b \in Profiles
      BY <1>5, <2>1, BrowserIs
    <3>2. /\ Y.sets = X.sets \cup {"token"} /\ Y.set.token = b
          /\ Y.set.session = X.set.session /\ Y.set.redirect = X.set.redirect
      BY <3>1, SetCookieIs
    <3>3. Y.kind = X.kind /\ Y.alone = X.alone
      BY <3>1, SetCookieKeeps
    <3> QED
      BY <1>4, <2>1, <3>2, <3>3
  <2>2. CASE X.kind # "callback"
    BY <1>4, <1>5, <2>2
  <2> QED
    BY <2>1, <2>2
<1>7. PICK R : R = Reply(Y, "welcome") /\ Replied(R, Y, "welcome")
  BY ReplyIs DEF Statuses
<1>8. /\ R.kind = req[t].kind /\ R.pc = "replied" /\ R.sent = NoCookies /\ R.session = NoSession
      /\ R.set = Y.set /\ R.sets = Y.sets /\ R.status = "welcome" /\ R.alone = req[t].alone
      /\ R \in Requests
  BY <1>6, <1>7 DEF Replied
<1>9. req' = [req EXCEPT ![t] = R]
  BY <1>1, <1>3, <1>5, <1>7 DEF CallbackSave, Moves
<1>10. RequestOK(R, b)
  <2>1. CookiesOK(R.set, b)
    BY <1>2, <1>4, <1>6, <1>8 DEF RequestOK, CookiesOK, RedirectOK
  <2>2. /\ req[t].kind = "callback" => "session" \notin R.sets /\ R.set.redirect = NoState
        /\ req[t].kind = "token-callback" => R.sets \subseteq {"session"}
    <3>1. /\ req[t].kind = "callback" =>
               /\ ~req[t].session.isNew /\ "session" \notin req[t].sets
               /\ req[t].set.redirect = NoState
          /\ req[t].kind = "token-callback" => req[t].sets \subseteq {"session"}
      BY <1>2 DEF RequestOK
    <3>2. R.sets \subseteq X.sets \cup {"token"} /\ (req[t].kind # "callback" => R.sets = X.sets)
      BY <1>4, <1>6, <1>8
    <3>3. CASE req[t].kind = "callback"
      BY <1>4, <1>6, <1>8, <3>1, <3>2, <3>3
    <3>4. CASE req[t].kind = "token-callback"
      BY <1>4, <3>1, <3>2, <3>4
    <3> QED
      BY <3>3, <3>4
  <2> QED
    BY <1>0, <1>8, <2>1, <2>2, RepliedOK
<1>11. PICK i \in Ids : i = req[t].session.id /\ Knows(b, i)
  BY <1>0, <1>1, <1>2, ReqKnows DEF RequestOK, Uses
<1>12. store' = [store EXCEPT ![i] = b] /\ store'[i] = b
  BY <1>0, <1>2, <1>11 DEF RequestOK, Types
<1>13. StoreStep(b)
  BY <1>11, <1>12 DEF StoreStep
<1>14. \A k \in Ids : Uses(R, k) => Knows(b, k)
  <2>1. ASSUME NEW k \in Ids, Uses(R, k) PROVE Uses(req[t], k)
    <3>1. Names(Y.set, k)
      BY <1>7, <2>1, RepliedUses
    <3> QED
      BY <1>4, <1>6, <3>1 DEF Names, Uses
  <2> QED
    BY <1>1, <1>2, <2>1, ReqKnows
<1>15. /\ hist' \in [out : SUBSET Browsers, disturbed : SUBSET Browsers]
       /\ hist'.out = hist.out \ {b} /\ hist'.disturbed = hist.disturbed
  BY <1>0, <1>1, SameCount
<1>16. SoloReq(R, jar[b])
  BY <1>0, <1>8 DEF SoloReq
<1>17. ASSUME b \notin hist.disturbed PROVE CalmJar(b)' /\ CalmReq(R, b)'
  <2>1. CalmJar(b) /\ CalmReq(req[t], b)
    BY <1>0, <1>1, <1>17, ReqIs
  <2>2. \/ i = jar[b].session
        \/ req[t].kind # "callback" /\ jar[b].session = 0 /\ i # jar[b].redirect.id
    BY <1>0, <1>11, <2>1 DEF CalmReq
  <2>3. i # 0
    BY DEF Ids
  <2>4. CalmJar(b)'
    BY <1>0, <1>2, <1>12, <2>1, <2>2, <2>3 DEF CalmJar, Stale, Types
  <2>5. "session" \in R.sets /\ req[t].kind = "token-callback" => R.set.session = i
    BY <1>0, <1>2, <1>4, <1>6, <1>8, <1>11 DEF RequestOK
  <2> QED
    BY <1>0, <1>8, <1>12, <2>1, <2>2, <2>3, <2>4, <2>5 DEF CalmReq
<1> QED
  BY <1>0, <1>1, <1>8, <1>9, <1>10, <1>13, <1>14, <1>15, <1>16, <1>17, HandlerKeeps, SameCount

\* A logout deletes its session.
LEMMA LogoutKeeps ==
  ASSUME Inv, NEW t \in Tabs, Logout(t)
  PROVE  Inv'
<1>0. /\ req[t].kind = "logout" /\ req[t].pc = "start" /\ UNCHANGED <<jar, page, count, hist>>
  BY DEF Logout, At, Moves
<1>1. PICK b \in Browsers : b = Owner[t]
  BY OwnerIs
<1>2. Types /\ FormOK /\ KnowsOK /\ RequestOK(req[t], b)
  BY <1>1, ReqIs DEF Inv
<1>3. PICK X \in Requests : X = SetCookie(req[t], "session", 0)
  BY ReqIs, SetCookieIs, WebAssumption
<1>4. /\ X.kind = "logout" /\ X.alone = req[t].alone /\ X.sets = {"session"} /\ X.set.session = 0
      /\ X.set.redirect = req[t].set.redirect /\ X.set.token = req[t].set.token
      /\ X.sent = req[t].sent
  <2>1. req[t].sets = {}
    BY <1>0, <1>2 DEF RequestOK
  <2> QED
    BY <1>0, <1>3, <2>1, ReqIs, SetCookieIs, SetCookieKeeps, WebAssumption, SMTT(30)
<1>5. PICK R : R = Reply(X, "ok") /\ Replied(R, X, "ok")
  BY ReplyIs DEF Statuses
<1>6. /\ R.kind = "logout" /\ R.pc = "replied" /\ R.sent = NoCookies /\ R.session = NoSession
      /\ R.set = X.set /\ R.sets = X.sets /\ R.status = "ok" /\ R.alone = req[t].alone
      /\ R \in Requests
  BY <1>4, <1>5 DEF Replied
<1>7. req' = [req EXCEPT ![t] = R]
  BY <1>3, <1>5 DEF Logout, Moves
<1>8. RequestOK(R, b)
  <2>1. CookiesOK(R.set, b)
    BY <1>2, <1>4, <1>6 DEF RequestOK, CookiesOK, RedirectOK
  <2> QED
    BY <1>4, <1>6, <2>1, RepliedOK
<1>9. PICK i \in 0..MaxLogins : i = req[t].sent.session
  BY <1>2, ReqKnows
<1>10. store' = IF i = 0 THEN store ELSE [store EXCEPT ![i] = NoDoc]
  BY <1>3, <1>4, <1>9 DEF Logout, StoreDelete
<1>11. i # 0 => i \in Ids /\ Knows(b, i)
  BY <1>1, <1>2, <1>9, ReqKnows DEF Uses, Names
<1>12. StoreStep(b)
  BY <1>10, <1>11 DEF StoreStep
<1>13. \A k \in Ids : store'[k] = IF k = i THEN NoDoc ELSE store[k]
  BY <1>2, <1>10, <1>11 DEF Types, Ids
<1>14. \A k \in Ids : Uses(R, k) => Knows(b, k)
  <2>1. ASSUME NEW k \in Ids, Uses(R, k) PROVE Uses(req[t], k)
    <3>1. Names(X.set, k) /\ k # 0
      BY <1>5, <2>1, RepliedUses DEF Ids
    <3> QED
      BY <1>4, <3>1 DEF Names, Uses
  <2> QED
    BY <1>1, <1>2, <2>1, ReqKnows
<1>15. OutReq(R)' /\ \A k \in 0..MaxLogins : Blank(k) => Blank(k)'
  BY <1>6, <1>13 DEF OutReq, Blank, Ids
<1>16. SoloReq(R, jar[b])
  BY <1>6 DEF SoloReq
<1>17. ASSUME b \notin hist.disturbed PROVE CalmJar(b)' /\ CalmReq(R, b)'
  <2>1. CalmJar(b) /\ CalmReq(req[t], b)
    BY <1>0, <1>1, <1>17, ReqIs
  <2>2. req[t].alone /\ req[t].sent = Carried("logout", jar[b])
    BY <1>0, <1>1, <2>1, ReqIs DEF CalmReq, SoloReq
  <2>3. i = jar[b].session
    BY <1>2, <1>9, <2>2, CarriedIs DEF Types
  <2>4. jar[b].redirect # NoState => jar[b].redirect.id \in Ids
    BY <1>2, JarKnows
  <2>5. Stale(b)'
    BY <1>0, <1>13, <2>1, <2>3, <2>4 DEF CalmJar, Stale
  <2> QED
    BY <1>6, <2>2, <2>5 DEF CalmReq, CalmJar
<1> QED
  BY <1>0, <1>1, <1>4, <1>6, <1>7, <1>8, <1>12, <1>14, <1>15, <1>16, <1>17, HandlerKeeps, SameCount

\* A logout whose delete fails clears the session cookie all the same.
LEMMA LogoutFailsKeeps ==
  ASSUME Inv, NEW t \in Tabs, LogoutFails(t)
  PROVE  Inv'
<1>0. /\ req[t].kind = "logout" /\ req[t].pc = "start" /\ UNCHANGED <<jar, page, store>> /\ Fault
      /\ hist' = [hist EXCEPT !.disturbed = @ \cup {Owner[t]}]
  BY DEF LogoutFails, At, Moves
<1>1. RequestOK(req[t], Owner[t]) /\ req[t] \in Requests /\ Types
  BY ReqIs DEF Inv
<1>2. PICK X \in Requests : X = SetCookie(req[t], "session", 0)
  BY <1>1, SetCookieIs, WebAssumption
<1>3. /\ X.kind = "logout" /\ X.alone = req[t].alone /\ X.sets = {"session"} /\ X.set.session = 0
      /\ X.set.redirect = req[t].set.redirect /\ X.set.token = req[t].set.token
  <2>1. req[t].sets = {}
    BY <1>0, <1>1 DEF RequestOK
  <2> QED
    BY <1>0, <1>1, <1>2, <2>1, SetCookieIs, SetCookieKeeps, WebAssumption
<1>4. PICK R : R = Reply(X, "ok") /\ Replied(R, X, "ok")
  BY ReplyIs DEF Statuses
<1>5. R.status = "ok" /\ Replied(R, X, R.status)
  BY <1>4 DEF Replied
<1>6. req' = [req EXCEPT ![t] = R]
  BY <1>2, <1>4 DEF LogoutFails, Moves
<1>7. CookiesOK(X.set, Owner[t])
  BY <1>1, <1>3 DEF RequestOK, CookiesOK, RedirectOK
<1>8. ASSUME NEW k \in Ids, Names(X.set, k) PROVE Knows(Owner[t], k)
  <2>1. Uses(req[t], k)
    BY <1>3, <1>8 DEF Names, Uses, Ids
  <2> QED
    BY <1>1, <2>1, ReqKnows
<1>9. /\ hist' \in [out : SUBSET Browsers, disturbed : SUBSET Browsers]
      /\ hist'.out = hist.out /\ hist'.disturbed = hist.disturbed \cup {Owner[t]}
  BY <1>0, SameCount, OwnerIs
<1>10. Blank(X.set.session)
  BY <1>3 DEF Blank
<1> QED
  BY <1>0, <1>3, <1>5, <1>6, <1>7, <1>8, <1>9, <1>10, ReplyKeeps, SameCount

\* The token handler answers.
LEMMA TokenKeeps ==
  ASSUME Inv, NEW t \in Tabs, Token(t)
  PROVE  Inv'
<1>0. /\ req[t].kind = "token" /\ req[t].pc = "start" /\ UNCHANGED <<jar, page, store, count, hist>>
  BY DEF Token, At, Moves
<1>1. RequestOK(req[t], Owner[t]) /\ req[t] \in Requests /\ Types
  BY ReqIs DEF Inv
<1>2. req[t].sets = {} /\ CookiesOK(req[t].set, Owner[t])
  BY <1>0, <1>1 DEF RequestOK
<1>3. PICK r \in Requests : r = SetCookie(req[t], "token", NoUser)
  BY <1>1, SetCookieIs, Empty
<1>4. /\ r.kind = "token" /\ r.alone = req[t].alone /\ r.sets = {"token"}
      /\ r.set.session = req[t].set.session /\ r.set.redirect = req[t].set.redirect
      /\ r.set.token = NoUser
  BY <1>0, <1>1, <1>2, <1>3, SetCookieIs, SetCookieKeeps, Empty, SMTT(30)
<1>5. ASSUME NEW X \in {req[t], r}, NEW R, Replied(R, X, R.status), R.status \in {"error", "tokens"},
             req' = [req EXCEPT ![t] = R]
      PROVE  Inv'
  <2>1. /\ X \in Requests /\ X.sets \subseteq {"token"} /\ X.kind = "token" /\ X.alone = req[t].alone
        /\ CookiesOK(X.set, Owner[t]) /\ "session" \notin X.sets
    BY <1>0, <1>1, <1>2, <1>3, <1>4, <1>5 DEF CookiesOK, RedirectOK
  <2>2. ASSUME NEW k \in Ids, Names(X.set, k) PROVE Knows(Owner[t], k)
    <3>1. Uses(req[t], k)
      BY <1>4, <1>5, <2>2 DEF Names, Uses
    <3> QED
      BY <1>1, <3>1, ReqKnows
  <2>3. R.kind = "token" /\ R.pc = "replied" /\ R.sets = X.sets /\ R.alone = X.alone
    BY <1>5, <2>1 DEF Replied
  <2>4. ASSUME Owner[t] \notin hist.disturbed PROVE CalmReq(R, Owner[t])
    <3>1. req[t].alone
      BY <1>0, <2>4, ReqIs DEF CalmReq
    <3> QED
      BY <2>1, <2>3, <3>1 DEF CalmReq
  <2> QED
    BY <1>0, <1>5, <2>1, <2>2, <2>4, ReplyKeeps, SameCount
<1>6. req' = [req EXCEPT ![t] = IF req[t].sent.token = NoUser THEN Reply(req[t], "error")
                                ELSE Reply(r, "tokens")]
  BY <1>3 DEF Token, Moves
<1>7. Replied(Reply(req[t], "error"), req[t], "error") /\ Replied(Reply(r, "tokens"), r, "tokens")
  BY <1>1, ReplyIs DEF Statuses
<1>8. Reply(req[t], "error").status = "error" /\ Reply(r, "tokens").status = "tokens"
  BY <1>7 DEF Replied
<1>9. CASE req[t].sent.token = NoUser
  BY <1>5, <1>6, <1>7, <1>8, <1>9
<1>10. CASE req[t].sent.token # NoUser
  BY <1>5, <1>6, <1>7, <1>8, <1>10
<1> QED
  BY <1>9, <1>10

\* HandleError: what a handler has set by then goes out with the 500.
LEMMA FailsKeeps ==
  ASSUME Inv, NEW t \in Tabs, Fails(t)
  PROVE  Inv'
<1>0. /\ req[t].pc # "replied" /\ req[t].kind \in {"login", "callback", "token-callback"}
      /\ UNCHANGED <<jar, page, store, hist>> /\ Fault
  <2>1. req[t].kind \in {"none", "callback"} \cup Kinds
    BY ReqIs DEF Requests
  <2> QED
    BY <2>1 DEF Fails, Moves, Kinds
<1>1. RequestOK(req[t], Owner[t]) /\ req[t] \in Requests /\ Types /\ FormOK
  BY ReqIs DEF Inv
<1>2. PICK b \in Browsers : b = Owner[t]
  BY OwnerIs
<1>3. ASSUME NEW X \in Requests, X.kind = req[t].kind, X.alone = req[t].alone,
             req' = [req EXCEPT ![t] = Reply(X, "error")], CookiesOK(X.set, b),
             \A i \in Ids : Names(X.set, i) => Uses(req[t], i) \/ Knows(b, i),
             X.kind = "callback" => "session" \notin X.sets /\ X.set.redirect = NoState,
             X.kind = "token-callback" => X.sets \subseteq {"session"},
             b \in hist.out /\ "session" \in X.sets => Blank(X.set.session),
             X.kind = "login" /\ X.alone /\ X.sets # {} =>
               /\ "redirect" \in X.sets /\ X.set.redirect.id # 0
               /\ X.set.redirect.id = IF "session" \in X.sets THEN X.set.session ELSE jar[b].session,
             X.kind = "token-callback" /\ "session" \in X.sets /\ b \notin hist.disturbed =>
               jar[b].session \in {0, X.set.session}
      PROVE  Inv'
  <2>1. PICK R : R = Reply(X, "error") /\ Replied(R, X, "error")
    BY ReplyIs DEF Statuses
  <2>2. /\ R.status = "error" /\ Replied(R, X, R.status) /\ R.kind = X.kind /\ R.pc = "replied"
        /\ R.alone = X.alone /\ R.sets = X.sets /\ R.set = X.set
    BY <2>1 DEF Replied
  <2>3. \A i \in Ids : Names(X.set, i) => Knows(Owner[t], i)
    BY <1>1, <1>2, <1>3, ReqKnows
  <2>4. ASSUME b \notin hist.disturbed PROVE CalmReq(R, b)
    <3>1. req[t].alone
      BY <1>0, <1>2, <2>4, ReqIs DEF CalmReq
    <3> QED
      BY <1>0, <1>3, <2>2, <2>4, <3>1 DEF CalmReq
  <2> QED
    BY <1>0, <1>2, <1>3, <2>1, <2>2, <2>3, <2>4, ReplyKeeps, SameCount
<1>4. CASE req[t].kind = "callback"
  <2>1. PICK X \in Requests : X = SetCookie(req[t], "redirect", NoState)
    BY <1>1, SetCookieIs, Empty
  <2>2. /\ X.kind = "callback" /\ X.alone = req[t].alone /\ X.sets = req[t].sets \cup {"redirect"}
        /\ X.set.session = req[t].set.session /\ X.set.redirect = NoState
        /\ X.set.token = req[t].set.token
    BY <1>1, <1>4, <2>1, SetCookieIs, SetCookieKeeps, Empty
  <2>3. "session" \notin X.sets
    BY <1>1, <1>4, <2>2 DEF RequestOK
  <2>4. CookiesOK(X.set, b)
    BY <1>1, <1>2, <2>2 DEF RequestOK, CookiesOK, RedirectOK
  <2>5. \A i \in Ids : Names(X.set, i) => Uses(req[t], i)
    BY <2>2, Empty DEF Names, Uses, Ids
  <2>6. req' = [req EXCEPT ![t] = Reply(X, "error")]
    BY <1>4, <2>1 DEF Fails, Moves
  <2> QED
    BY <1>3, <1>4, <2>2, <2>3, <2>4, <2>5, <2>6
<1>5. CASE req[t].kind # "callback" /\ req[t].pc = "save"
  <2>1. PICK X \in Requests : X = Save(req[t])
    BY <1>1, SaveIs
  <2>2. /\ X.kind = req[t].kind /\ X.alone = req[t].alone
        /\ X.sets = IF req[t].session.isNew THEN req[t].sets \cup {"session"} ELSE req[t].sets
        /\ X.set.session = IF req[t].session.isNew THEN req[t].session.id ELSE req[t].set.session
        /\ X.set.redirect = req[t].set.redirect /\ X.set.token = req[t].set.token
    BY <1>1, <2>1, SaveIs
  <2>3. req' = [req EXCEPT ![t] = Reply(X, "error")]
    BY <1>5, <2>1 DEF Fails, Moves
  <2>4. CookiesOK(X.set, b)
    BY <1>1, <1>2, <2>2 DEF RequestOK, CookiesOK, RedirectOK
  <2>5. \A i \in Ids : Names(X.set, i) => Uses(req[t], i)
    BY <2>2 DEF Names, Uses
  <2>6. /\ "session" \notin req[t].sets /\ req[t].session.id # 0
        /\ req[t].kind = "token-callback" => req[t].sets \subseteq {"session"}
    BY <1>1, <1>5 DEF RequestOK
  <2>7. req[t].kind = "token-callback" => X.sets \subseteq {"session"}
    BY <2>2, <2>6
  <2>8. "session" \in X.sets => X.set.session = req[t].session.id
    BY <2>2, <2>6
  <2>9. b \in hist.out /\ "session" \in X.sets => Blank(X.set.session)
    <3>1. b \in hist.out => OutReq(req[t])
      BY <1>2, ReqIs
    <3> QED
      BY <1>0, <1>5, <2>8, <3>1 DEF OutReq
  <2>10. ASSUME X.kind = "login", X.alone
         PROVE  /\ "redirect" \in X.sets /\ X.set.redirect.id # 0
                /\ X.set.redirect.id = IF "session" \in X.sets THEN X.set.session ELSE jar[b].session
    <3>1. SoloReq(req[t], jar[b])
      BY <1>0, <1>2, <2>2, <2>10, ReqIs
    <3>2. /\ "redirect" \in req[t].sets /\ req[t].set.redirect.id = req[t].session.id
          /\ req[t].session.isNew \/ req[t].session.id = jar[b].session
      BY <1>5, <2>2, <2>10, <3>1 DEF SoloReq
    <3> QED
      BY <2>2, <2>6, <3>2
  <2>11. ASSUME X.kind = "token-callback", "session" \in X.sets, b \notin hist.disturbed
         PROVE  jar[b].session \in {0, X.set.session}
    <3>1. CalmReq(req[t], b)
      BY <1>0, <1>2, <2>11, ReqIs
    <3> QED
      BY <1>5, <2>8, <2>11, <3>1 DEF CalmReq
  <2> QED
    BY <1>3, <1>5, <2>2, <2>3, <2>4, <2>5, <2>7, <2>9, <2>10, <2>11
<1>6. CASE req[t].kind # "callback" /\ req[t].pc # "save"
  <2>1. req' = [req EXCEPT ![t] = Reply(req[t], "error")]
    BY <1>6 DEF Fails, Moves
  <2>2. req[t].sets = {} \/ req[t].pc = "exchange"
    BY <1>0, <1>1, <1>6, ReqIs DEF RequestOK, Requests
  <2>3. "session" \notin req[t].sets
    BY <1>1, <2>2 DEF RequestOK
  <2>4. req[t].kind = "login" => req[t].sets = {}
    BY <1>1, <2>2 DEF RequestOK
  <2>5. /\ CookiesOK(req[t].set, b)
        /\ req[t].kind = "token-callback" => req[t].sets \subseteq {"session"}
    BY <1>1, <1>2 DEF RequestOK
  <2>6. \A i \in Ids : Names(req[t].set, i) => Uses(req[t], i)
    BY DEF Uses
  <2> QED
    BY <1>1, <1>3, <1>6, <2>1, <2>3, <2>4, <2>5, <2>6
<1> QED
  BY <1>4, <1>5, <1>6

-----------------------------------------------------------------------------
(* The browsers.                                                           *)

\* A step of browser b that leaves the store alone and draws no number.
LEMMA BrowserKeeps ==
  ASSUME Inv, NEW b \in Browsers, store' = store, count'.drawn = count.drawn,
         Types', FormOK', DrawOK',
         \A c \in Browsers : c # b => jar'[c] = jar[c],
         \A u \in Tabs : Owner[u] # b => req'[u] = req[u],
         \A c \in Browsers : c # b => /\ c \in hist'.out => c \in hist.out
                                      /\ c \notin hist'.disturbed => c \notin hist.disturbed,
         \A i \in Ids : Names(jar'[b], i) => Knows(b, i),
         \A u \in Tabs, i \in Ids : Owner[u] = b /\ Uses(req'[u], i) => Knows(b, i),
         OutOK(b)', CalmOK(b)', \A u \in Tabs : Owner[u] = b => SoloOK(u)'
  PROVE  Inv'
<1>1. StoreStep(b)
  BY DEF StoreStep
<1>2. ASSUME NEW c \in Browsers, NEW i \in Ids, Knows(c, i)' PROVE Knows(c, i)
  <2>1. CASE Names(jar'[c], i)
    BY <2>1 DEF Knows
  <2>2. CASE \E u \in Tabs : Owner[u] = c /\ Uses(req'[u], i)
    BY <2>2 DEF Knows
  <2> QED
    BY <1>2, <2>1, <2>2 DEF Knows, Names, Uses
<1>3. KnowsOK' /\ Fresh'
  BY <1>1, <1>2, KnowsNext DEF Inv
<1>4. ASSUME NEW c \in Browsers, c # b
      PROVE  OutOK(c)' /\ CalmOK(c)' /\ \A u \in Tabs : Owner[u] = c => SoloOK(u)'
  BY <1>1, <1>4, OthersKept
<1>5. \A c \in Browsers : OutOK(c)' /\ CalmOK(c)'
  BY <1>4
<1>6. \A u \in Tabs : SoloOK(u)'
  BY <1>4, OwnerIs
<1> QED
  BY <1>3, <1>5, <1>6 DEF Inv

\* A request that has just left, with the cookies c.
Sent(r, c) ==
  /\ r \in Requests /\ r.kind \in {"callback"} \cup Kinds /\ r.pc = "start"
  /\ r.sent = Carried(r.kind, c) /\ r.session = NoSession /\ r.set = NoCookies
  /\ r.sets = {} /\ r.status = "none"

\* A request just sent satisfies the invariant if the jar does.
LEMMA SentOK ==
  ASSUME NEW b, NEW c \in Cookies, CookiesOK(c, b), NEW r, Sent(r, c)
  PROVE  /\ RequestOK(r, b) /\ SoloReq(r, c)
         /\ Blank(c.session) => OutReq(r)
         /\ \A i \in Ids : Uses(r, i) => Names(c, i)
<1>1. CookiesOK(NoCookies, b) /\ NoSession.data = NoUser /\ ~NoSession.isNew /\ NoSession.id = 0
      /\ NoCookies.redirect = NoState
  BY EmptyOK, Empty, EmptyReq
<1>2. CookiesOK(r.sent, b)
  BY CarriedOK DEF Sent
<1>3. RequestOK(r, b)
  BY <1>1, <1>2 DEF RequestOK, Sent, Kinds
<1>4. SoloReq(r, c)
  BY DEF SoloReq, Sent
<1>5. ASSUME Blank(c.session) PROVE OutReq(r)
  <2>1. r.sent.session \in {0, c.session}
    BY CarriedIs DEF Sent
  <2> QED
    BY <1>1, <1>5, <2>1 DEF OutReq, Sent, Blank
<1>6. ASSUME NEW i \in Ids, Uses(r, i) PROVE Names(c, i)
  <2>1. ~Names(NoCookies, i) /\ i # 0
    BY EmptyUses DEF Ids
  <2>2. Names(r.sent, i)
    BY <1>1, <1>6, <2>1 DEF Uses, Sent
  <2> QED
    BY <2>2, CarriedNames DEF Sent
<1> QED
  BY <1>3, <1>4, <1>5, <1>6

\* The request of a browser that is not alone any more.
LEMMA JoinedIs ==
  ASSUME NEW r \in Requests
  PROVE  LET q == [r EXCEPT !.alone = FALSE] IN
         /\ q \in Requests /\ q.kind = r.kind /\ q.pc = r.pc /\ q.sent = r.sent
         /\ q.session = r.session /\ q.set = r.set /\ q.sets = r.sets /\ q.status = r.status
         /\ q.alone = FALSE
BY DEF Requests

\* Sending a request keeps the invariant.
LEMMA SendsKeeps ==
  ASSUME Inv, NEW t \in Tabs, NEW r, Sent(r, jar[Owner[t]]), req[t] = NoReq,
         r.alone = (InFlight(Owner[t]) = {}),
         r.kind \in {"login", "token-callback"} => Unspent,
         req' = [u \in Tabs |-> IF u = t THEN r
                                ELSE IF u \in InFlight(Owner[t]) THEN [req[u] EXCEPT !.alone = FALSE]
                                ELSE req[u]],
         hist' = [hist EXCEPT !.disturbed = IF InFlight(Owner[t]) = {} THEN @ ELSE @ \cup {Owner[t]}],
         page' = [page EXCEPT ![t] = 0], UNCHANGED <<store, jar, count>>
  PROVE  Inv'
<1>0. PICK b \in Browsers : b = Owner[t]
  BY OwnerIs
<1>1. Types /\ FormOK /\ DrawOK /\ OutOK(b) /\ CalmOK(b) /\ jar[b] \in Cookies
  BY <1>0 DEF Inv, Types
<1>2. /\ req'[t] = r /\ \A u \in Tabs : u # t /\ u \notin InFlight(b) => req'[u] = req[u]
      /\ \A u \in InFlight(b) : u \in Tabs /\ u # t
      /\ \A u \in Tabs : u \in InFlight(b) <=> Owner[u] = b /\ req[u].kind # "none"
  BY <1>0, EmptyReq DEF InFlight
<1>3. ASSUME NEW u \in InFlight(b)
      PROVE  LET q == req'[u] IN
             /\ q \in Requests /\ q.kind = req[u].kind /\ q.pc = req[u].pc /\ q.sent = req[u].sent
             /\ q.session = req[u].session /\ q.set = req[u].set /\ q.sets = req[u].sets
             /\ q.status = req[u].status /\ q.alone = FALSE
  <2>1. u \in Tabs /\ u # t /\ req'[u] = [req[u] EXCEPT !.alone = FALSE]
    BY <1>0, <1>2, <1>3
  <2>2. req[u] \in Requests
    BY <1>1, <2>1 DEF Types
  <2> QED
    BY <2>1, <2>2, JoinedIs
<1>4. Types'
  <2>1. \A u \in Tabs : req'[u] \in Requests
    BY <1>1, <1>2, <1>3 DEF Types, Sent
  <2>2. req' \in [Tabs -> Requests]
    BY <2>1
  <2>3. page' \in [Tabs -> 0..MaxLogins]
    BY <1>1, WebAssumption DEF Types
  <2>4. hist' \in [out : SUBSET Browsers, disturbed : SUBSET Browsers]
    BY <1>0, <1>1 DEF Types
  <2> QED
    BY <1>1, <2>2, <2>3, <2>4 DEF Types
<1>5. CookiesOK(jar[b], b)
  BY <1>1 DEF FormOK
<1>6. /\ RequestOK(r, b) /\ SoloReq(r, jar[b]) /\ (Blank(jar[b].session) => OutReq(r))
      /\ \A i \in Ids : Uses(r, i) => Names(jar[b], i)
  BY <1>0, <1>1, <1>5, SentOK
<1>7. FormOK'
  <2>1. ASSUME NEW u \in Tabs PROVE RequestOK(req'[u], Owner[u])
    <3>1. RequestOK(req[u], Owner[u])
      BY <1>1 DEF FormOK
    <3>2. CASE u = t
      BY <1>0, <1>2, <1>6, <3>2
    <3>3. CASE u # t /\ u \notin InFlight(b)
      BY <1>2, <3>1, <3>3
    <3>4. CASE u \in InFlight(b)
      <4>1. req[u].kind # "none"
        BY <1>2, <3>4
      <4> QED
        BY <1>3, <3>1, <3>4, <4>1, ZenonT(60) DEF RequestOK
    <3> QED
      BY <3>2, <3>3, <3>4
  <2> QED
    BY <1>1, <2>1 DEF FormOK
<1>8. DrawOK'
  <2>1. \A u \in Tabs : u # t => req'[u].kind = req[u].kind /\ req'[u].pc = req[u].pc
    BY <1>2, <1>3
  <2>2. Drawing' = IF r.kind \in {"login", "token-callback"} THEN Drawing \cup {t} ELSE Drawing
    <3>1. r.pc = "start" /\ req[t].pc = "none"
      BY EmptyReq DEF Sent
    <3>2. \A u \in Tabs : u \in Drawing' <=>
            \/ u # t /\ u \in Drawing
            \/ u = t /\ r.kind \in {"login", "token-callback"}
      BY <1>2, <2>1, <3>1 DEF Drawing
    <3>3. t \notin Drawing /\ Drawing \subseteq Tabs /\ Drawing' \subseteq Tabs
      BY <3>1 DEF Drawing
    <3> QED
      BY <3>2, <3>3
  <2>3. CASE r.kind \notin {"login", "token-callback"}
    BY <1>1, <2>2, <2>3 DEF DrawOK
  <2>4. CASE r.kind \in {"login", "token-callback"}
    <3>1. count.drawn + Cardinality(Drawing) < MaxLogins
      BY <2>4 DEF Unspent, Drawing
    <3>2. PICK n \in Nat, m \in Nat : /\ n = Cardinality(Drawing) /\ m = Cardinality(Drawing')
                                      /\ m <= n + 1
      BY <2>2, <2>4, DrawingFinite
    <3>3. count.drawn + m <= MaxLogins
      BY <1>1, <3>1, <3>2, CountIs
    <3> QED
      BY <3>2, <3>3 DEF DrawOK
  <2> QED
    BY <2>3, <2>4
<1>9. /\ \A i \in Ids : Names(jar'[b], i) => Knows(b, i)
      /\ \A u \in Tabs, i \in Ids : Owner[u] = b /\ Uses(req'[u], i) => Knows(b, i)
  <2>1. \A i \in Ids : Names(jar[b], i) => Knows(b, i)
    BY DEF Knows
  <2>2. ASSUME NEW u \in Tabs, NEW i \in Ids, Owner[u] = b, Uses(req'[u], i) PROVE Knows(b, i)
    <3>1. CASE u = t
      BY <1>2, <1>6, <2>1, <2>2, <3>1
    <3>2. CASE u # t
      <4>1. Uses(req[u], i)
        BY <1>2, <1>3, <2>2, <3>2 DEF Uses
      <4> QED
        BY <2>2, <4>1 DEF Knows
    <3> QED
      BY <3>1, <3>2
  <2> QED
    BY <2>1, <2>2
<1>10. hist'.out = hist.out
       /\ hist'.disturbed = IF InFlight(b) = {} THEN hist.disturbed ELSE hist.disturbed \cup {b}
  BY <1>0, <1>1 DEF Types
<1>11. OutOK(b)'
  <2> SUFFICES ASSUME b \in hist.out
               PROVE  Blank(jar[b].session)' /\ \A u \in Tabs : Owner[u] = b => OutReq(req[u])'
    BY <1>10 DEF OutOK
  <2>1. Blank(jar[b].session) /\ \A u \in Tabs : Owner[u] = b => OutReq(req[u])
    BY <1>1 DEF OutOK
  <2>2. ASSUME NEW u \in Tabs, Owner[u] = b PROVE OutReq(req[u])'
    <3>1. CASE u = t
      <4>1. OutReq(r) /\ req'[u] = r
        BY <1>2, <1>6, <2>1, <3>1
      <4> QED
        BY <4>1 DEF OutReq, Blank
    <3>2. CASE u # t
      <4>1. OutReq(req[u])
        BY <2>1, <2>2
      <4>2. /\ req'[u].kind = req[u].kind /\ req'[u].sent = req[u].sent
            /\ req'[u].session = req[u].session /\ req'[u].set = req[u].set
            /\ req'[u].sets = req[u].sets
        BY <1>2, <1>3, <3>2
      <4> QED
        BY <4>1, <4>2 DEF OutReq, Blank
    <3> QED
      BY <3>1, <3>2
  <2> QED
    BY <2>1, <2>2 DEF Blank
<1>12. ASSUME NEW u \in Tabs, Owner[u] = b, u # t
       PROVE  req'[u].kind = "none" \/ (u \in InFlight(b) /\ ~req'[u].alone)
  BY <1>2, <1>3, <1>12, ZenonT(60)
<1>13. ASSUME NEW u \in Tabs, Owner[u] = b PROVE SoloOK(u)'
  <2>1. CASE u # t
    BY <1>12, <1>13, <2>1 DEF SoloOK
  <2>2. CASE u = t
    <3>1. ASSUME r.alone, NEW v \in Tabs, Owner[v] = b, req'[v].kind # "none" PROVE v = t
      BY <1>0, <1>12, <3>1
    <3>2. r.alone => Alone(t)'
      BY <1>0, <3>1 DEF Alone
    <3>3. SoloReq(req[u], jar[Owner[u]])'
      BY <1>0, <1>2, <1>6, <2>2 DEF SoloReq, Carried
    <3> QED
      BY <1>2, <2>2, <3>2, <3>3 DEF SoloOK
  <2> QED
    BY <2>1, <2>2
<1>14. CalmOK(b)'
  <2> SUFFICES ASSUME b \notin hist'.disturbed
               PROVE  /\ CalmJar(b)'
                      /\ \A u \in Tabs : Owner[u] = b /\ req'[u].kind # "none" => CalmReq(req[u], b)'
    BY DEF CalmOK
  <2>1. b \notin hist.disturbed /\ InFlight(b) = {}
    BY <1>10
  <2>2. CalmJar(b)'
    BY <1>1, <2>1 DEF CalmOK, CalmJar, Stale
  <2>3. ASSUME NEW u \in Tabs, Owner[u] = b, req'[u].kind # "none" PROVE CalmReq(req[u], b)'
    <3>1. u = t
      BY <1>12, <2>1, <2>3
    <3> QED
      BY <1>0, <1>2, <2>1, <3>1 DEF CalmReq, Sent
  <2> QED
    BY <2>2, <2>3
<1> QED
  <2>1. \A u \in Tabs : Owner[u] # b => req'[u] = req[u]
    BY <1>0, <1>2
  <2>2. \A c \in Browsers : c # b => /\ c \in hist'.out => c \in hist.out
                                     /\ c \notin hist'.disturbed => c \notin hist.disturbed
    BY <1>10
  <2> QED
    BY <1>4, <1>7, <1>8, <1>9, <1>11, <1>13, <1>14, <2>1, <2>2, BrowserKeeps

\* What Visit and the provider's redirect send is a new request.
LEMMA NewRequest ==
  ASSUME NEW c \in Cookies, NEW r, r.kind \in {"callback"} \cup Kinds, r.alone \in BOOLEAN,
         r.state \in 0..MaxLogins,
         r = [NoReq EXCEPT !.kind = r.kind, !.pc = "start", !.state = r.state,
                           !.sent = Carried(r.kind, c), !.alone = r.alone]
  PROVE  Sent(r, c)
<1>1. Carried(r.kind, c) \in Cookies
  BY CarriedIs
<1>2. r \in Requests
  BY <1>1, Empty DEF Requests
<1>3. /\ r.pc = "start" /\ r.sent = Carried(r.kind, c)
      /\ r.session = NoReq.session /\ r.set = NoReq.set /\ r.sets = NoReq.sets
      /\ r.status = NoReq.status
  BY Empty DEF Requests
<1> QED
  BY <1>2, <1>3, EmptyReq DEF Sent

\* A tab visits one of the handlers.
LEMMA VisitKeeps ==
  ASSUME Inv, NEW t \in Tabs, NEW k \in Kinds, Visit(t, k)
  PROVE  Inv'
<1>1. PICK r : r = [NoReq EXCEPT !.kind = k, !.pc = "start", !.state = 0,
                                 !.sent = Carried(k, jar[Owner[t]]), !.alone = InFlight(Owner[t]) = {}]
  OBVIOUS
<1>2. Sent(r, jar[Owner[t]]) /\ r.kind = k /\ r.alone = (InFlight(Owner[t]) = {})
  <2>1. jar[Owner[t]] \in Cookies /\ Owner[t] \in Browsers
    BY OwnerIs DEF Inv, Types
  <2>2. 0 \in 0..MaxLogins /\ k \in {"callback"} \cup Kinds
    BY WebAssumption
  <2>3. PICK a \in BOOLEAN : a = (InFlight(Owner[t]) = {})
    OBVIOUS
  <2>4. r.kind = k /\ r.state = 0 /\ r.alone = a
    BY <1>1, <2>3, Empty DEF Requests
  <2>5. Sent(r, jar[Owner[t]])
    BY <1>1, <2>1, <2>2, <2>3, <2>4, NewRequest
  <2> QED
    BY <2>3, <2>4, <2>5
<1>3. r.kind \in {"login", "token-callback"} => Unspent
  BY <1>2 DEF Visit
<1>4. /\ req[t] = NoReq
      /\ req' = [u \in Tabs |-> IF u = t THEN r
                                ELSE IF u \in InFlight(Owner[t]) THEN [req[u] EXCEPT !.alone = FALSE]
                                ELSE req[u]]
      /\ hist' = [hist EXCEPT !.disturbed = IF InFlight(Owner[t]) = {} THEN @ ELSE @ \cup {Owner[t]}]
      /\ page' = [page EXCEPT ![t] = 0] /\ UNCHANGED <<store, jar, count>>
  BY <1>1 DEF Visit, Sends
<1> QED
  BY <1>2, <1>3, <1>4, SendsKeeps

\* The provider redirects a tab to the callback.
LEMMA ProviderRedirectsKeeps ==
  ASSUME Inv, NEW t \in Tabs, ProviderRedirects(t)
  PROVE  Inv'
<1>1. PICK r : r = [NoReq EXCEPT !.kind = "callback", !.pc = "start", !.state = page[t],
                                 !.sent = Carried("callback", jar[Owner[t]]),
                                 !.alone = InFlight(Owner[t]) = {}]
  OBVIOUS
<1>2. Sent(r, jar[Owner[t]]) /\ r.kind = "callback" /\ r.alone = (InFlight(Owner[t]) = {})
  <2>1. jar[Owner[t]] \in Cookies /\ Owner[t] \in Browsers /\ page[t] \in 0..MaxLogins
    BY OwnerIs DEF Inv, Types
  <2>2. PICK a \in BOOLEAN : a = (InFlight(Owner[t]) = {})
    OBVIOUS
  <2>3. r.kind = "callback" /\ r.state = page[t] /\ r.alone = a
    BY <1>1, <2>2, Empty DEF Requests
  <2>4. Sent(r, jar[Owner[t]])
    BY <1>1, <2>1, <2>2, <2>3, NewRequest
  <2> QED
    BY <2>2, <2>3, <2>4
<1>3. /\ req[t] = NoReq
      /\ req' = [u \in Tabs |-> IF u = t THEN r
                                ELSE IF u \in InFlight(Owner[t]) THEN [req[u] EXCEPT !.alone = FALSE]
                                ELSE req[u]]
      /\ hist' = [hist EXCEPT !.disturbed = IF InFlight(Owner[t]) = {} THEN @ ELSE @ \cup {Owner[t]}]
      /\ page' = [page EXCEPT ![t] = 0] /\ UNCHANGED <<store, jar, count>>
  BY <1>1 DEF ProviderRedirects, Sends
<1> QED
  BY <1>2, <1>3, SendsKeeps

\* The request of tab t is over: its browser has the cookies J now, and goes
\* on to /login if N is a request.
LEMMA OverKeeps ==
  ASSUME Inv, NEW t \in Tabs, req[t].pc = "replied", NEW J \in Cookies, NEW N,
         N = NoReq \/ (Sent(N, J) /\ N.kind = "login" /\ Unspent /\ req[t].kind # "logout"
                        /\ N.alone = (InFlight(Owner[t]) = {t})),
         CookiesOK(J, Owner[t]),
         \A i \in Ids : Names(J, i) => Names(jar[Owner[t]], i) \/ Names(req[t].set, i),
         req' = [req EXCEPT ![t] = N], jar' = [jar EXCEPT ![Owner[t]] = J], store' = store,
         page' \in [Tabs -> 0..MaxLogins],
         count' \in [drawn : Nat, faults : 0..MaxFaults], count'.drawn = count.drawn,
         hist' \in [out : SUBSET Browsers, disturbed : SUBSET Browsers],
         \/ hist'.out = hist.out
         \/ /\ req[t].kind = "logout" /\ hist'.out = hist.out \cup {Owner[t]}
            /\ \A u \in InFlight(Owner[t]) : req[u].kind \notin {"login", "token-callback"},
         \/ hist'.disturbed = hist.disturbed
         \/ req[t].alone /\ hist'.disturbed = hist.disturbed \ {Owner[t]},
         Owner[t] \in hist'.out => Blank(J.session),
         Owner[t] \notin hist'.disturbed =>
           \/ J.redirect = NoState \/ store[J.redirect.id] = NoDoc
           \/ J.session # 0 /\ J.redirect.id = J.session
  PROVE  Inv'
<1>0. PICK b \in Browsers : b = Owner[t]
  BY OwnerIs
<1>1. Types /\ FormOK /\ DrawOK /\ OutOK(b) /\ CalmOK(b) /\ RequestOK(req[t], b)
  BY <1>0, ReqIs DEF Inv
<1>2. /\ req'[t] = N /\ \A u \in Tabs : u # t => req'[u] = req[u]
      /\ jar'[b] = J /\ \A c \in Browsers : c # b => jar'[c] = jar[c]
  BY <1>0, <1>1 DEF Types
<1>3. req[t].kind # "none"
  BY <1>1, EmptyReq DEF RequestOK
<1>4. N \in Requests /\ RequestOK(N, b) /\ \A i \in Ids : Uses(N, i) => Names(J, i)
  <2>1. CASE N = NoReq
    BY <2>1, Empty, EmptyOK, EmptyUses
  <2>2. CASE Sent(N, J)
    BY <1>0, <2>2, SentOK DEF Sent
  <2> QED
    BY <2>1, <2>2
<1>5. DrawOK' /\ count'.drawn \in 0..MaxLogins
  <2>1. t \notin Drawing /\ Drawing \subseteq Tabs /\ Drawing' \subseteq Tabs
    BY DEF Drawing
  <2>2. \A u \in Tabs : u # t => (u \in Drawing' <=> u \in Drawing)
    BY <1>2 DEF Drawing
  <2>3. count.drawn \in 0..MaxLogins
    BY <1>1, CountIs
  <2>4. CASE N = NoReq
    <3>1. t \notin Drawing'
      BY <1>2, <2>4, EmptyReq DEF Drawing
    <3>2. \A u : u \in Drawing' <=> u \in Drawing
      BY <2>1, <2>2, <3>1
    <3>3. Drawing' = Drawing
      BY <3>2
    <3> QED
      BY <1>1, <2>3, <3>3 DEF DrawOK
  <2>5. CASE Sent(N, J) /\ N.kind = "login" /\ Unspent
    <3>1. t \in Drawing'
      BY <1>2, <2>5 DEF Drawing, Sent
    <3>2. Drawing' = Drawing \cup {t}
      BY <2>1, <2>2, <3>1
    <3>3. count.drawn + Cardinality(Drawing) < MaxLogins
      BY <2>5 DEF Unspent, Drawing
    <3>4. PICK n \in Nat, m \in Nat : /\ n = Cardinality(Drawing) /\ m = Cardinality(Drawing')
                                      /\ m <= n + 1
      BY <3>2, DrawingFinite
    <3>5. count.drawn + m <= MaxLogins
      BY <1>1, <3>3, <3>4, CountIs
    <3> QED
      BY <2>3, <3>4, <3>5 DEF DrawOK
  <2> QED
    BY <2>4, <2>5
<1>6. Types'
  <2>1. req' \in [Tabs -> Requests] /\ jar' \in [Browsers -> Cookies]
    BY <1>0, <1>1, <1>4 DEF Types
  <2>2. count' \in [drawn : 0..MaxLogins, faults : 0..MaxFaults]
    BY <1>5
  <2> QED
    BY <1>1, <2>1, <2>2 DEF Types
<1>7. FormOK'
  <2>1. \A u \in Tabs : RequestOK(req'[u], Owner[u])
    BY <1>0, <1>1, <1>2, <1>4 DEF FormOK
  <2>2. \A c \in Browsers : CookiesOK(jar'[c], c)
    BY <1>0, <1>1, <1>2 DEF FormOK
  <2> QED
    BY <2>1, <2>2 DEF FormOK
<1>8. \A i \in Ids : Names(jar'[b], i) => Knows(b, i)
  <2>1. ASSUME NEW i \in Ids, Names(req[t].set, i) PROVE Knows(b, i)
    BY <1>0, <1>1, <2>1, ReqKnows DEF Uses
  <2>2. \A i \in Ids : Names(jar[b], i) => Knows(b, i)
    BY DEF Knows
  <2> QED
    BY <1>0, <1>2, <2>1, <2>2
<1>9. \A u \in Tabs, i \in Ids : Owner[u] = b /\ Uses(req'[u], i) => Knows(b, i)
  <2>1. ASSUME NEW u \in Tabs, NEW i \in Ids, Owner[u] = b, Uses(req'[u], i) PROVE Knows(b, i)
    <3>1. CASE u = t
      BY <1>2, <1>4, <1>8, <2>1, <3>1
    <3>2. CASE u # t
      BY <1>2, <2>1, <3>2 DEF Knows
    <3> QED
      BY <3>1, <3>2
  <2> QED
    BY <2>1
<1>10. OutOK(b)'
  <2> SUFFICES ASSUME b \in hist'.out
               PROVE  Blank(jar[b].session)' /\ \A u \in Tabs : Owner[u] = b => OutReq(req[u])'
    BY DEF OutOK
  <2>1. Blank(J.session)
    BY <1>0
  <2>2. ASSUME NEW u \in Tabs, Owner[u] = b, u # t PROVE OutReq(req[u])
    <3>1. CASE b \in hist.out
      BY <1>1, <2>2, <3>1 DEF OutOK
    <3>2. CASE b \notin hist.out
      <4>1. \A v \in InFlight(b) : req[v].kind \notin {"login", "token-callback"}
        BY <1>0, <3>2
      <4>2. u \in InFlight(b) \/ req[u].kind = "none"
        BY <2>2 DEF InFlight
      <4> QED
        BY <4>1, <4>2 DEF OutReq
    <3> QED
      BY <3>1, <3>2
  <2>3. OutReq(N)
    <3>1. CASE N = NoReq
      BY <3>1, EmptyReq DEF OutReq
    <3>2. CASE Sent(N, J)
      BY <1>0, <2>1, <3>2, SentOK
    <3> QED
      BY <3>1, <3>2
  <2>4. ASSUME NEW u \in Tabs, Owner[u] = b PROVE OutReq(req[u])'
    <3>1. OutReq(req'[u])
      BY <1>2, <2>2, <2>3, <2>4
    <3> QED
      BY <3>1 DEF OutReq, Blank
  <2> QED
    BY <1>2, <2>1, <2>4 DEF Blank
<1>11. ASSUME NEW u \in Tabs, Owner[u] = b, u # t, req[u].kind # "none" PROVE ~req[u].alone
  BY <1>0, <1>3, <1>11 DEF Inv, SoloOK, Alone
<1>12. ASSUME NEW u \in Tabs, Owner[u] = b PROVE SoloOK(u)'
  <2>1. CASE u # t
    BY <1>2, <1>11, <1>12, <2>1 DEF SoloOK
  <2>2. CASE u = t /\ N = NoReq
    BY <1>2, <2>2, EmptyReq DEF SoloOK
  <2>3. CASE u = t /\ Sent(N, J) /\ N.alone = (InFlight(b) = {t})
    <3>1. ASSUME N.alone, NEW v \in Tabs, Owner[v] = b, req'[v].kind # "none" PROVE v = t
      <4>1. v # t => v \in InFlight(b)
        BY <1>2, <3>1 DEF InFlight
      <4> QED
        BY <2>3, <3>1, <4>1, ZenonT(60)
    <3>2. N.alone => Alone(t)'
      BY <1>0, <3>1 DEF Alone
    <3>3. SoloReq(N, J)
      BY <1>0, <2>3, SentOK
    <3>4. req'[u] = N /\ jar'[Owner[u]] = J
      BY <1>2, <1>12, <2>3
    <3>5. SoloReq(req'[u], jar'[Owner[u]])
      BY <3>3, <3>4
    <3> QED
      BY <1>2, <2>3, <3>2, <3>5 DEF SoloOK, SoloReq, Carried
  <2> QED
    BY <1>0, <2>1, <2>2, <2>3
<1>13. CalmOK(b)'
  <2> SUFFICES ASSUME b \notin hist'.disturbed
               PROVE  /\ CalmJar(b)'
                      /\ \A u \in Tabs : Owner[u] = b /\ req'[u].kind # "none" => CalmReq(req[u], b)'
    BY DEF CalmOK
  <2>1. CalmJar(b)'
    BY <1>0, <1>2 DEF CalmJar, Stale
  <2>2. req[t].alone
    <3>1. CASE b \notin hist.disturbed
      BY <1>0, <1>3, <3>1, ReqIs DEF CalmReq
    <3>2. CASE b \in hist.disturbed
      BY <1>0, <3>2
    <3> QED
      BY <3>1, <3>2
  <2>3. Alone(t) /\ InFlight(b) = {t}
    <3>1. Alone(t)
      BY <1>3, <2>2 DEF Inv, SoloOK
    <3> QED
      BY <1>0, <1>3, <3>1 DEF Alone, InFlight
  <2>4. ASSUME NEW u \in Tabs, Owner[u] = b, req'[u].kind # "none" PROVE CalmReq(req[u], b)'
    <3>1. u = t
      BY <1>0, <1>2, <2>3, <2>4 DEF Alone
    <3>2. Sent(N, J) /\ N.kind = "login" /\ N.alone
      BY <1>0, <1>2, <2>3, <2>4, <3>1, EmptyReq
    <3> QED
      BY <1>2, <3>1, <3>2 DEF CalmReq, Sent
  <2> QED
    BY <2>1, <2>4
<1> QED
  <2>1. \A u \in Tabs : Owner[u] # b => req'[u] = req[u]
    BY <1>0, <1>2
  <2>2. \A c \in Browsers : c # b => /\ c \in hist'.out => c \in hist.out
                                     /\ c \notin hist'.disturbed => c \notin hist.disturbed
    BY <1>0
  <2> QED
    BY <1>2, <1>5, <1>6, <1>7, <1>8, <1>9, <1>10, <1>12, <1>13, <2>1, <2>2, BrowserKeeps

\* The cookies of a browser with jar j once it has the response r.
Taken(j, r) == [c \in DOMAIN NoCookies |-> IF c \in r.sets THEN r.set[c] ELSE j[c]]

\* What the jar is after a response.
LEMMA TakenIs ==
  ASSUME NEW j \in Cookies, NEW r \in Requests
  PROVE  /\ Taken(j, r) \in Cookies
         /\ Taken(j, r).session = IF "session" \in r.sets THEN r.set.session ELSE j.session
         /\ Taken(j, r).redirect = IF "redirect" \in r.sets THEN r.set.redirect ELSE j.redirect
         /\ Taken(j, r).token = IF "token" \in r.sets THEN r.set.token ELSE j.token
<1>1. r.set \in Cookies /\ DOMAIN NoCookies = CookieNames
  BY Empty DEF Requests
<1>2. PICK J : J = Taken(j, r)
  OBVIOUS
<1>3. J = [c \in CookieNames |-> IF c \in r.sets THEN r.set[c] ELSE j[c]]
  BY <1>1, <1>2 DEF Taken
<1>4. /\ J.session = IF "session" \in r.sets THEN r.set.session ELSE j.session
      /\ J.redirect = IF "redirect" \in r.sets THEN r.set.redirect ELSE j.redirect
      /\ J.token = IF "token" \in r.sets THEN r.set.token ELSE j.token
  BY <1>3 DEF CookieNames
<1>5. /\ r.set.session \in 0..MaxLogins /\ r.set.redirect \in Redirects /\ r.set.token \in Profiles
      /\ j.session \in 0..MaxLogins /\ j.redirect \in Redirects /\ j.token \in Profiles
  BY <1>1 DEF Cookies
<1>6. J \in Cookies
  <2>1. J = [session |-> J.session, redirect |-> J.redirect, token |-> J.token]
    BY <1>3 DEF CookieNames
  <2>2. J.session \in 0..MaxLogins /\ J.redirect \in Redirects /\ J.token \in Profiles
    BY <1>4, <1>5
  <2> QED
    BY <2>1, <2>2 DEF Cookies
<1> QED
  BY <1>2, <1>4, <1>6

\* A response reaches its browser.
LEMMA AnswerKeeps ==
  ASSUME Inv, NEW t \in Tabs, Answer(t)
  PROVE  Inv'
<1>0. PICK b \in Browsers : b = Owner[t]
  BY OwnerIs
<1>1. PICK r \in Requests : r = req[t]
  BY ReqIs
<1>2. Types /\ FormOK /\ OutOK(b) /\ RequestOK(r, b) /\ jar[b] \in Cookies /\ CookiesOK(jar[b], b)
  BY <1>0, <1>1, ReqIs DEF Inv, Types, FormOK
<1>3. r.pc = "replied" /\ r.kind # "none" /\ r.kind \in {"callback"} \cup Kinds
  <2>1. r.pc = "replied"
    BY <1>1 DEF Answer
  <2>2. r.kind # "none"
    BY <1>2, <2>1, EmptyReq DEF RequestOK
  <2> QED
    BY <2>1, <2>2 DEF Requests
<1>4. PICK J \in Cookies : J = Taken(jar[b], r)
  BY <1>2, TakenIs
<1>5. /\ J.session = IF "session" \in r.sets THEN r.set.session ELSE jar[b].session
      /\ J.redirect = IF "redirect" \in r.sets THEN r.set.redirect ELSE jar[b].redirect
      /\ J.token = IF "token" \in r.sets THEN r.set.token ELSE jar[b].token
  BY <1>2, <1>4, TakenIs
<1>6. jar' = [jar EXCEPT ![b] = J] /\ jar'[b] = J
  <2>1. jar' = [jar EXCEPT ![b] = J]
    BY <1>0, <1>1, <1>4 DEF Answer, Taken
  <2> QED
    BY <1>2, <2>1 DEF Types
<1>7. CookiesOK(J, b) /\ \A i \in Ids : Names(J, i) => Names(jar[b], i) \/ Names(r.set, i)
  <2>1. CookiesOK(r.set, b)
    BY <1>2 DEF RequestOK
  <2> QED
    BY <1>2, <1>5, <2>1 DEF CookiesOK, RedirectOK, Names
<1>8. PICK N : /\ req' = [req EXCEPT ![t] = N]
               /\ N = IF r.status = "to login" /\ Unspent
                        THEN [NoReq EXCEPT !.kind = "login", !.pc = "start",
                                           !.sent = Carried("login", J),
                                           !.alone = InFlight(b) = {t}]
                        ELSE NoReq
  BY <1>0, <1>1, <1>6 DEF Answer
<1>9. N = NoReq \/ (Sent(N, J) /\ N.kind = "login" /\ Unspent /\ r.kind # "logout"
                     /\ N.alone = (InFlight(b) = {t}))
  <2>1. CASE r.status = "to login" /\ Unspent
    <3>1. r.kind # "logout"
      BY <1>2, <2>1 DEF RequestOK
    <3>2. PICK a \in BOOLEAN : a = (InFlight(b) = {t})
      OBVIOUS
    <3>3. N = [NoReq EXCEPT !.kind = "login", !.pc = "start", !.sent = Carried("login", J), !.alone = a]
      BY <1>8, <2>1, <3>2
    <3>4. N.kind = "login" /\ N.alone = a /\ N.state = 0
      BY <3>3, Empty, EmptyReq DEF Requests
    <3>5. N = [NoReq EXCEPT !.kind = N.kind, !.pc = "start", !.state = N.state,
                            !.sent = Carried(N.kind, J), !.alone = N.alone]
      BY <3>3, <3>4, Empty, EmptyReq DEF Requests
    <3>6. N.kind \in {"callback"} \cup Kinds /\ N.state \in 0..MaxLogins /\ N.alone \in BOOLEAN
      BY <3>2, <3>4, WebAssumption DEF Kinds
    <3>7. Sent(N, J)
      BY <3>5, <3>6, NewRequest
    <3> QED
      BY <2>1, <3>1, <3>2, <3>4, <3>7
  <2>2. CASE ~(r.status = "to login" /\ Unspent)
    BY <1>8, <2>2
  <2> QED
    BY <2>1, <2>2
<1>10. /\ store' = store /\ count' = count
       /\ page' = [page EXCEPT ![t] = IF r.status = "to provider" THEN r.state ELSE 0]
       /\ hist' = [hist EXCEPT
                     !.disturbed = IF r.status = "to provider" /\ r.alone THEN @ \ {b} ELSE @,
                     !.out =
                     IF /\ r.kind = "logout"
                        /\ \A u \in InFlight(b) : req[u].kind \notin {"login", "token-callback"}
                     THEN @ \cup {b} ELSE @]
  BY <1>0, <1>1 DEF Answer
<1>11. page' \in [Tabs -> 0..MaxLogins]
  <2>1. PICK x \in 0..MaxLogins : x = IF r.status = "to provider" THEN r.state ELSE 0
    <3>1. r.state \in 0..MaxLogins
      BY DEF Requests
    <3>2. 0 \in 0..MaxLogins
      BY WebAssumption
    <3> QED
      BY <3>1, <3>2
  <2> QED
    BY <1>2, <1>10, <2>1 DEF Types
<1>12. /\ hist' \in [out : SUBSET Browsers, disturbed : SUBSET Browsers]
       /\ hist'.disturbed = IF r.status = "to provider" /\ r.alone THEN hist.disturbed \ {b}
                            ELSE hist.disturbed
       /\ \/ hist'.out = hist.out
          \/ /\ r.kind = "logout" /\ hist'.out = hist.out \cup {b}
             /\ \A u \in InFlight(b) : req[u].kind \notin {"login", "token-callback"}
  <2>1. hist \in [out : SUBSET Browsers, disturbed : SUBSET Browsers]
    BY <1>2 DEF Types
  <2>2. CASE /\ r.kind = "logout"
             /\ \A u \in InFlight(b) : req[u].kind \notin {"login", "token-callback"}
    BY <1>10, <2>1, <2>2
  <2>3. CASE ~(/\ r.kind = "logout"
               /\ \A u \in InFlight(b) : req[u].kind \notin {"login", "token-callback"})
    BY <1>10, <2>1, <2>3
  <2> QED
    BY <2>2, <2>3
<1>13. ASSUME b \in hist'.out PROVE Blank(J.session)
  <2>1. CASE r.kind = "logout"
    BY <1>2, <1>3, <1>5, <2>1 DEF RequestOK, Blank
  <2>2. CASE r.kind # "logout"
    <3>1. Blank(jar[b].session) /\ OutReq(r)
      BY <1>0, <1>1, <1>2, <1>12, <1>13, <2>2 DEF OutOK
    <3>2. "session" \in r.sets => r.kind \in {"login", "token-callback"}
      <4>1. r.kind = "callback" => "session" \notin r.sets
        BY <1>2 DEF RequestOK
      <4>2. r.kind = "token" => "session" \notin r.sets
        BY <1>2 DEF RequestOK
      <4> QED
        BY <1>3, <2>2, <4>1, <4>2 DEF Kinds
    <3> QED
      BY <1>5, <3>1, <3>2 DEF OutReq
  <2> QED
    BY <2>1, <2>2
<1>14. ASSUME b \notin hist'.disturbed
       PROVE  \/ J.redirect = NoState \/ store[J.redirect.id] = NoDoc
              \/ J.session # 0 /\ J.redirect.id = J.session
  <2>1. ASSUME r.kind = "login", r.alone, r.sets # {}
        PROVE  J.session # 0 /\ J.redirect.id = J.session
    <3>1. SoloReq(r, jar[b])
      BY <1>0, <1>1, <1>3, <2>1, ReqIs
    <3>2. /\ "redirect" \in r.sets /\ r.set.redirect.id # 0
          /\ r.set.redirect.id = IF "session" \in r.sets THEN r.set.session ELSE jar[b].session
      BY <1>3, <2>1, <3>1 DEF SoloReq
    <3> QED
      BY <1>5, <3>2
  <2>2. CASE r.status = "to provider" /\ r.alone
    <3>1. r.kind = "login"
      BY <1>2, <2>2 DEF RequestOK
    <3>2. r.sets # {}
      BY <1>0, <1>1, <1>3, <2>2, ReqIs DEF SoloReq
    <3> QED
      BY <2>1, <2>2, <3>1, <3>2
  <2>3. CASE b \notin hist.disturbed
    <3>1. CalmJar(b) /\ CalmReq(r, b)
      BY <1>0, <1>1, <1>3, <2>3, ReqIs
    <3>2. r.alone
      BY <3>1 DEF CalmReq
    <3>3. CASE r.kind = "login"
      <4>1. CASE r.sets = {}
        BY <1>5, <3>1, <4>1 DEF CalmJar, Stale
      <4> QED
        BY <2>1, <3>2, <3>3, <4>1
    <3>4. CASE r.kind = "callback"
      <4>1. "session" \notin r.sets /\ r.set.redirect = NoState
        BY <1>2, <3>4 DEF RequestOK
      <4> QED
        BY <1>5, <3>1, <4>1 DEF CalmJar, Stale
    <3>5. CASE r.kind = "token"
      <4>1. "session" \notin r.sets /\ "redirect" \notin r.sets
        <5>1. r.sets \subseteq {"token"}
          BY <1>2, <3>5 DEF RequestOK
        <5> QED
          BY <5>1
      <4> QED
        BY <1>5, <3>1, <4>1 DEF CalmJar, Stale
    <3>6. CASE r.kind = "token-callback"
      <4>1. "redirect" \notin r.sets
        <5>1. r.sets \subseteq {"session"}
          BY <1>2, <3>6 DEF RequestOK
        <5> QED
          BY <5>1
      <4>2. "session" \in r.sets => jar[b].session \in {0, r.set.session}
        BY <3>1, <3>6 DEF CalmReq
      <4> QED
        BY <1>5, <3>1, <4>1, <4>2 DEF CalmJar, Stale
    <3>7. CASE r.kind = "logout"
      <4>1. "redirect" \notin r.sets
        <5>1. r.sets \subseteq {"session"}
          BY <1>2, <3>7 DEF RequestOK
        <5> QED
          BY <5>1
      <4>2. Stale(b)
        BY <1>3, <3>1, <3>7 DEF CalmReq
      <4> QED
        BY <1>5, <4>1, <4>2 DEF Stale
    <3> QED
      BY <1>3, <3>3, <3>4, <3>5, <3>6, <3>7 DEF Kinds
  <2> QED
    BY <1>12, <1>14, <2>2, <2>3
<1> QED
  <2>1. hist'.disturbed = hist.disturbed \/ (r.alone /\ hist'.disturbed = hist.disturbed \ {b})
    BY <1>12
  <2>2. /\ req[t].pc = "replied" /\ CookiesOK(J, Owner[t])
        /\ \A i \in Ids : Names(J, i) => Names(jar[Owner[t]], i) \/ Names(req[t].set, i)
    BY <1>0, <1>1, <1>3, <1>7
  <2>3. N = NoReq \/ (Sent(N, J) /\ N.kind = "login" /\ Unspent /\ req[t].kind # "logout"
                        /\ N.alone = (InFlight(Owner[t]) = {t}))
    BY <1>0, <1>1, <1>9
  <2>4. /\ req' = [req EXCEPT ![t] = N] /\ jar' = [jar EXCEPT ![Owner[t]] = J] /\ store' = store
        /\ count' \in [drawn : Nat, faults : 0..MaxFaults] /\ count'.drawn = count.drawn
    BY <1>0, <1>6, <1>8, <1>10, SameCount
  <2>5. \/ hist'.out = hist.out
        \/ /\ req[t].kind = "logout" /\ hist'.out = hist.out \cup {Owner[t]}
           /\ \A u \in InFlight(Owner[t]) : req[u].kind \notin {"login", "token-callback"}
    BY <1>0, <1>1, <1>12
  <2>6. \/ hist'.disturbed = hist.disturbed
        \/ req[t].alone /\ hist'.disturbed = hist.disturbed \ {Owner[t]}
    BY <1>0, <1>1, <2>1
  <2>7. /\ Owner[t] \in hist'.out => Blank(J.session)
        /\ Owner[t] \notin hist'.disturbed =>
             \/ J.redirect = NoState \/ store[J.redirect.id] = NoDoc
             \/ J.session # 0 /\ J.redirect.id = J.session
    BY <1>0, <1>13, <1>14
  <2>8. hist' \in [out : SUBSET Browsers, disturbed : SUBSET Browsers]
    BY <1>12
  <2> QED
    BY <1>11, <2>2, <2>3, <2>4, <2>5, <2>6, <2>7, <2>8, OverKeeps

\* A response is lost.
LEMMA ResponseLostKeeps ==
  ASSUME Inv, NEW t \in Tabs, ResponseLost(t)
  PROVE  Inv'
<1>0. PICK b \in Browsers : b = Owner[t]
  BY OwnerIs
<1>1. /\ req[t].pc = "replied" /\ Fault /\ req' = [req EXCEPT ![t] = NoReq]
      /\ UNCHANGED <<store, jar, page, hist>>
  BY DEF ResponseLost
<1>2. Types /\ jar[b] \in Cookies /\ CookiesOK(jar[b], b) /\ OutOK(b) /\ CalmOK(b)
  BY <1>0 DEF Inv, Types, FormOK
<1>3. jar' = [jar EXCEPT ![b] = jar[b]] /\ page' \in [Tabs -> 0..MaxLogins]
  BY <1>1, <1>2 DEF Types
<1>4. b \in hist'.out => Blank(jar[b].session)
  BY <1>1, <1>2 DEF OutOK
<1>5. b \notin hist'.disturbed =>
        \/ jar[b].redirect = NoState \/ store[jar[b].redirect.id] = NoDoc
        \/ jar[b].session # 0 /\ jar[b].redirect.id = jar[b].session
  BY <1>1, <1>2 DEF CalmOK, CalmJar, Stale
<1> QED
  BY <1>0, <1>1, <1>2, <1>3, <1>4, <1>5, OverKeeps, SameCount

\* A cookie expires.
LEMMA CookieExpiresKeeps ==
  ASSUME Inv, NEW b \in Browsers, NEW c \in DOMAIN NoCookies, CookieExpires(b, c)
  PROVE  Inv'
<1>1. /\ InFlight(b) = {} /\ Fault /\ jar' = [jar EXCEPT ![b][c] = NoCookies[c]]
      /\ hist' = [hist EXCEPT !.disturbed = @ \cup {b}] /\ UNCHANGED <<store, page, req>>
  BY DEF CookieExpires
<1>2. Types /\ FormOK /\ DrawOK /\ OutOK(b) /\ jar[b] \in Cookies /\ CookiesOK(jar[b], b)
  BY DEF Inv, Types, FormOK
<1>3. PICK J : J = [jar[b] EXCEPT ![c] = NoCookies[c]]
  OBVIOUS
<1>4. /\ J.session \in {0, jar[b].session} /\ J.redirect \in {NoState, jar[b].redirect}
      /\ J.token \in {NoUser, jar[b].token} /\ J \in Cookies
  <2>1. c \in CookieNames
    BY Empty
  <2>2. CASE c = "session"
    <3>1. J = [jar[b] EXCEPT !.session = 0]
      BY <1>3, <2>2, Empty
    <3> QED
      BY <1>2, <3>1, WebAssumption DEF Cookies
  <2>3. CASE c = "redirect"
    <3>1. J = [jar[b] EXCEPT !.redirect = NoState]
      BY <1>3, <2>3, Empty
    <3> QED
      BY <1>2, <3>1, Empty DEF Cookies
  <2>4. CASE c = "token"
    <3>1. J = [jar[b] EXCEPT !.token = NoUser]
      BY <1>3, <2>4, Empty
    <3> QED
      BY <1>2, <3>1, Empty DEF Cookies
  <2> QED
    BY <2>1, <2>2, <2>3, <2>4 DEF CookieNames
<1>5. jar' = [jar EXCEPT ![b] = J] /\ jar'[b] = J /\ \A d \in Browsers : d # b => jar'[d] = jar[d]
  BY <1>1, <1>2, <1>3 DEF Types
<1>6. /\ count' \in [drawn : 0..MaxLogins, faults : 0..MaxFaults] /\ count'.drawn = count.drawn
      /\ hist' \in [out : SUBSET Browsers, disturbed : SUBSET Browsers]
      /\ hist'.out = hist.out /\ hist'.disturbed = hist.disturbed \cup {b}
  <2>1. count' \in [drawn : Nat, faults : 0..MaxFaults] /\ count'.drawn = count.drawn
    BY <1>1, SameCount
  <2>2. count' \in [drawn : 0..MaxLogins, faults : 0..MaxFaults]
    BY <1>2, <2>1, CountIs
  <2> QED
    BY <1>1, <1>2, <2>1, <2>2 DEF Types
<1>7. Types'
  <2>1. jar' \in [Browsers -> Cookies]
    BY <1>2, <1>4, <1>5 DEF Types
  <2> QED
    BY <1>1, <1>2, <1>6, <2>1 DEF Types
<1>8. FormOK'
  <2>1. CookiesOK(J, b)
    BY <1>2, <1>4 DEF CookiesOK, RedirectOK
  <2>2. \A d \in Browsers : CookiesOK(jar'[d], d)
    BY <1>2, <1>5, <2>1 DEF FormOK
  <2> QED
    BY <1>1, <1>2, <2>2 DEF FormOK
<1>9. DrawOK'
  BY <1>1, <1>2, <1>6 DEF DrawOK, Drawing
<1>10. ASSUME NEW i \in Ids, Names(J, i) PROVE Knows(b, i)
  <2>1. i # 0 /\ NoState.id = 0
    BY Empty DEF Ids
  <2> QED
    BY <1>4, <1>10, <2>1 DEF Names, Knows
<1>11. \A u \in Tabs, i \in Ids : Owner[u] = b /\ Uses(req'[u], i) => Knows(b, i)
  BY <1>1 DEF Knows
<1>12. \A u \in Tabs : Owner[u] = b => req[u].kind = "none"
  BY <1>1 DEF InFlight
<1>13. OutOK(b)' /\ CalmOK(b)' /\ \A u \in Tabs : Owner[u] = b => SoloOK(u)'
  <2>1. ASSUME b \in hist.out PROVE Blank(jar[b].session)'
    BY <1>1, <1>2, <1>4, <1>5, <2>1 DEF OutOK, Blank
  <2>2. \A u \in Tabs : Owner[u] = b => OutReq(req[u])'
    BY <1>1, <1>12 DEF OutReq
  <2>3. OutOK(b)'
    BY <1>6, <2>1, <2>2 DEF OutOK
  <2>4. CalmOK(b)'
    BY <1>6 DEF CalmOK
  <2>5. \A u \in Tabs : Owner[u] = b => SoloOK(u)'
    BY <1>1, <1>12 DEF SoloOK
  <2> QED
    BY <2>3, <2>4, <2>5
<1> QED
  BY <1>1, <1>5, <1>6, <1>7, <1>8, <1>9, <1>10, <1>11, <1>13, BrowserKeeps

\* A session expires.
LEMMA SessionExpiresKeeps ==
  ASSUME Inv, NEW i \in Ids, SessionExpires(i)
  PROVE  Inv'
<1>1. /\ \A t \in Tabs : req[t] = NoReq
      /\ Fault /\ store' = [store EXCEPT ![i] = NoDoc]
      /\ hist' = [hist EXCEPT !.disturbed = Browsers] /\ UNCHANGED <<jar, page, req>>
  BY DEF SessionExpires, StoreDelete
<1>2. Types /\ FormOK /\ DrawOK /\ KnowsOK /\ Fresh
  BY DEF Inv
<1>3. /\ count' \in [drawn : 0..MaxLogins, faults : 0..MaxFaults] /\ count'.drawn = count.drawn
      /\ hist' \in [out : SUBSET Browsers, disturbed : SUBSET Browsers]
      /\ hist'.out = hist.out /\ hist'.disturbed = Browsers
  <2>1. count' \in [drawn : Nat, faults : 0..MaxFaults] /\ count'.drawn = count.drawn
    BY <1>1, SameCount
  <2>2. count' \in [drawn : 0..MaxLogins, faults : 0..MaxFaults]
    BY <1>2, <2>1, CountIs
  <2> QED
    BY <1>1, <1>2, <2>1, <2>2 DEF Types
<1>4. /\ store' \in [Ids -> Profiles \cup {NoDoc}]
      /\ \A k \in Ids : store'[k] = IF k = i THEN NoDoc ELSE store[k]
  BY <1>1, <1>2 DEF Types
<1>5. Types'
  BY <1>1, <1>2, <1>3, <1>4 DEF Types
<1>6. FormOK' /\ DrawOK'
  BY <1>1, <1>2, <1>3 DEF FormOK, DrawOK, Drawing
<1>7. \A b \in Browsers, k \in Ids : Knows(b, k)' <=> Knows(b, k)
  BY <1>1 DEF Knows, Uses, Names
<1>8. KnowsOK' /\ Fresh'
  BY <1>2, <1>3, <1>4, <1>7 DEF KnowsOK, Fresh
<1>9. ASSUME NEW b \in Browsers PROVE OutOK(b)' /\ CalmOK(b)'
  <2>1. \A u \in Tabs : OutReq(req[u])'
    BY <1>1, EmptyReq DEF OutReq
  <2>2. ASSUME b \in hist.out PROVE Blank(jar[b].session)'
    <3>1. Blank(jar[b].session) /\ (jar[b].session # 0 => jar[b].session \in Ids)
      BY <1>2, <2>2, JarKnows DEF Inv, OutOK
    <3> QED
      BY <1>1, <1>4, <3>1 DEF Blank
  <2> QED
    BY <1>3, <2>1, <2>2 DEF OutOK, CalmOK
<1>10. \A t \in Tabs : SoloOK(t)'
  BY <1>1, EmptyReq DEF SoloOK
<1> QED
  BY <1>5, <1>6, <1>8, <1>9, <1>10 DEF Inv

-----------------------------------------------------------------------------
(* The theorems.                                                           *)

\* The initial states satisfy the invariant.
LEMMA InitInv ==
  ASSUME Init
  PROVE  Inv
<1>1. /\ \A t \in Tabs : req[t] = NoReq
      /\ \A b \in Browsers : jar[b] = NoCookies
      /\ \A i \in Ids : store[i] = NoDoc
      /\ count.drawn = 0 /\ hist.out = {} /\ hist.disturbed = {}
  BY DEF Init
<1>2. Types
  <2>1. store \in [Ids -> Profiles \cup {NoDoc}] /\ page \in [Tabs -> 0..MaxLogins]
    BY WebAssumption DEF Init
  <2>2. jar \in [Browsers -> Cookies] /\ req \in [Tabs -> Requests]
    BY Empty DEF Init
  <2>3. /\ count \in [drawn : 0..MaxLogins, faults : 0..MaxFaults]
        /\ hist \in [out : SUBSET Browsers, disturbed : SUBSET Browsers]
    BY WebAssumption DEF Init
  <2> QED
    BY <2>1, <2>2, <2>3 DEF Types
<1>3. FormOK
  BY <1>1, EmptyOK DEF FormOK
<1>4. DrawOK
  <2>1. Drawing = {}
    BY <1>1, EmptyReq DEF Drawing
  <2> QED
    BY <1>1, <2>1, FS_EmptySet, WebAssumption DEF DrawOK
<1>5. KnowsOK /\ Fresh
  <2>1. \A b \in Browsers, i \in Ids : ~Knows(b, i)
    BY <1>1, EmptyUses DEF Knows
  <2> QED
    BY <1>1, <2>1 DEF KnowsOK, Fresh
<1>6. ASSUME NEW b \in Browsers PROVE OutOK(b) /\ CalmOK(b)
  <2>1. CalmJar(b)
    BY <1>1, Empty DEF CalmJar, Stale
  <2>2. \A t \in Tabs : req[t].kind = "none"
    BY <1>1, EmptyReq
  <2> QED
    BY <1>1, <2>1, <2>2 DEF OutOK, CalmOK
<1>7. \A t \in Tabs : SoloOK(t)
  BY <1>1, EmptyReq DEF SoloOK
<1> QED
  BY <1>2, <1>3, <1>4, <1>5, <1>6, <1>7 DEF Inv

\* A step that changes nothing.
LEMMA StutterInv ==
  ASSUME Inv, UNCHANGED vars
  PROVE  Inv'
<1>1. Types' /\ FormOK' /\ DrawOK' /\ KnowsOK' /\ Fresh'
  BY DEF Inv, vars, Types, FormOK, DrawOK, Drawing, KnowsOK, Knows, Fresh
<1>2. \A b \in Browsers : OutOK(b)' /\ CalmOK(b)'
  BY DEF Inv, vars, OutOK, CalmOK, OutReq, Blank, CalmJar, CalmReq, Stale
<1>3. \A t \in Tabs : SoloOK(t)'
  BY DEF Inv, vars, SoloOK, Alone, SoloReq, Carried
<1> QED
  BY <1>1, <1>2, <1>3 DEF Inv

\* Every step keeps the invariant.
LEMMA NextInv ==
  ASSUME Inv, [Next]_vars
  PROVE  Inv'
<1>1. ASSUME NEW t \in Tabs, NEW k \in Kinds, Visit(t, k) PROVE Inv'
  BY <1>1, VisitKeeps
<1>2. ASSUME NEW t \in Tabs,
             ProviderRedirects(t) \/ Answer(t) \/ ResponseLost(t) \/ Fails(t) \/ LogoutFails(t)
      PROVE  Inv'
  BY <1>2, ProviderRedirectsKeeps, AnswerKeeps, ResponseLostKeeps, FailsKeeps, LogoutFailsKeeps
<1>3. ASSUME NEW t \in Tabs, Handle(t) PROVE Inv'
  BY <1>3, LoginGetKeeps, LoginSaveKeeps, CallbackGetKeeps, TokenCallbackGetKeeps, VerifyKeeps,
     CallbackSaveKeeps, LogoutKeeps, TokenKeeps DEF Handle
<1>4. ASSUME NEW b \in Browsers, NEW c \in DOMAIN NoCookies, CookieExpires(b, c) PROVE Inv'
  BY <1>4, CookieExpiresKeeps
<1>5. ASSUME NEW i \in Ids, SessionExpires(i) PROVE Inv'
  BY <1>5, SessionExpiresKeeps
<1>6. ASSUME UNCHANGED vars PROVE Inv'
  BY <1>6, StutterInv
<1> QED
  BY <1>1, <1>2, <1>3, <1>4, <1>5, <1>6 DEF Next

\* Inv is an invariant: the cookies of a browser and its requests under way
\* name sessions that no other browser knows (LoginGet, TokenCallbackGet).
THEOREM Invariance == Spec => []Inv
<1>1. Init => Inv
  BY InitInv
<1>2. Inv /\ [Next]_vars => Inv'
  BY NextInv
<1> QED
  BY <1>1, <1>2, PTL DEF Spec

\* SessionInv: every session a handler works on is there, and a browser finds
\* its own user only, whatever requests of whatever browsers interleave.
THEOREM OwnSessions == Spec => []SessionInv
<1>1. ASSUME Inv PROVE SessionInv
  <2>0. Types /\ FormOK /\ KnowsOK
    BY <1>1 DEF Inv
  <2>1. TypeOK
    <3>1. \A b \in Browsers : jar[b].session \in 0..MaxLogins
      BY <2>0, JarKnows
    <3>2. \A t \in Tabs : req[t].sets \subseteq DOMAIN NoCookies /\ req[t].session.data \in Profiles
      BY <1>1, ReqIs, Empty DEF Requests, Sessions
    <3> QED
      BY <2>0, <3>1, <3>2 DEF TypeOK, Types
  <2>2. ASSUME NEW b \in Browsers PROVE UserInfo(b) \in {b, NoUser} /\ jar[b].token \in {b, NoUser}
    <3>1. jar[b].session # 0 => store[jar[b].session] \in {b, NoUser, NoDoc}
      BY <2>0, JarKnows DEF KnowsOK
    <3> QED
      BY <2>0, <3>1 DEF UserInfo, FormOK, CookiesOK
  <2>3. ASSUME NEW b \in Browsers, NEW c \in Browsers, jar[b].session = jar[c].session
        PROVE  b = c \/ jar[b].session = 0
    BY <2>0, <2>3, JarKnows DEF KnowsOK
  <2> QED
    BY <2>1, <2>2, <2>3 DEF SessionInv, SeesItself
<1> QED
  BY <1>1, Invariance, PTL

\* LogoutSticks: a browser that was told it is logged out finds no profile,
\* although requests under way may write the deleted session back.
THEOREM LogoutLasts == Spec => []LogoutSticks
<1>1. ASSUME Inv PROVE LogoutSticks
  <2>1. ASSUME NEW b \in Browsers, LoggedIn(b) PROVE b \notin hist.out
    <3>1. b \in hist.out => Blank(jar[b].session)
      BY <1>1 DEF Inv, OutOK
    <3> QED
      BY <2>1, <3>1 DEF LoggedIn, UserInfo, Blank
  <2> QED
    BY <2>1 DEF LogoutSticks
<1> QED
  BY <1>1, Invariance, PTL

\* LoginSticks: the answer to a callback that succeeded finds its browser
\* logged in, unless something disturbed the browser since its last login.
THEOREM LoginLasts == Spec => LoginSticks
<1>1. ASSUME Inv, NEW t \in Tabs, req[t].kind = "callback", req[t].status = "welcome",
             Owner[t] \notin hist.disturbed, Answer(t)
      PROVE  UserInfo(Owner[t])' = Owner[t]
  <2>1. PICK b \in Browsers : b = Owner[t]
    BY OwnerIs
  <2>2. b # NoDoc /\ jar[b] \in Cookies /\ req[t] \in Requests /\ jar \in [Browsers -> Cookies]
    BY <1>1, BrowserIs, ReqIs DEF Inv, Types
  <2>3. jar[b].session # 0 /\ store[jar[b].session] = b
    BY <1>1, <2>1, ReqIs DEF CalmReq
  <2>4. "session" \notin req[t].sets
    BY <1>1, ReqIs DEF RequestOK
  <2>5. jar'[b] = Taken(jar[b], req[t]) /\ store' = store
    BY <1>1, <2>1, <2>2 DEF Answer, Taken
  <2>6. jar'[b].session = jar[b].session
    BY <2>2, <2>4, <2>5, TakenIs
  <2> QED
    BY <2>1, <2>2, <2>3, <2>5, <2>6 DEF UserInfo
<1>2. ASSUME Inv, [Next]_vars
      PROVE  [\A t \in Tabs :
                /\ req[t].kind = "callback" /\ req[t].status = "welcome"
                /\ Owner[t] \notin hist.disturbed
                /\ Answer(t)
                => UserInfo(Owner[t])' = Owner[t]]_vars
  BY <1>1, <1>2
<1> QED
  BY <1>2, Invariance, PTL DEF Spec, LoginSticks

=============================================================================
