-------------------------- MODULE WebSessionProofs --------------------------
(***************************************************************************)
(* Proofs about WebSession, for every number of tabs, sessions, rotations, *)
(* versions and events, and for every browser and user.                    *)
(***************************************************************************)
EXTENDS WebSession, TLAPS

(***************************************************************************)
(* The inductive invariant.                                                *)
(***************************************************************************)
\* The page has a request for a new token at the server, or its answer.
Outstanding(p) == p.rf.pc \in {"sent", "answered"}

\* A refresh, or a login, has been answered with a session.
Brought(p) == p.rf.pc = "answered" /\ p.rf.ans.kind = "bundle"

\* The operations that create a session.
Logins == {"login", "oauth"}

LoggedIn(p) == p.op.kind \in Logins /\ p.op.pc = "answered"

\* A bundle brings the cookie of its own session, any other answer none or an empty one.
AnswerOk(ans) ==
    /\ ans.kind = "bundle" => ans.set /\ ans.sid \in Sids /\ ans.jar.sid = ans.sid
    /\ ans.kind # "bundle" /\ ans.set => ans.jar = NoCookie
    /\ ans.kind = "mismatch" => ~ans.set

\* A current refresh was sent for the session the page still shows, and answered for it or
\* for a page without a session; its bundle is no older than the page's token.
RefreshOk(p) ==
    /\ p.rf.pc = "answered" => p.rf.expect = NoSid /\ AnswerOk(p.rf.ans)
    /\ p.rf.current /\ p.rf.pc = "sent" => p.rf.expect = p.auth.sid
    /\ p.rf.current /\ Brought(p) =>
          /\ p.auth.sid \in {NoSid, p.rf.ans.sid}
          /\ p.auth.sid = p.rf.ans.sid => p.auth.ver <= p.rf.ans.ver

\* A sign-in form is submitted on a page without a session; only the answer of a login, from
\* the form or from an OAuth callback, brings a cookie.
OperationOk(p) ==
    /\ p.op.kind = "login" => p.op.from = NoSid
    /\ LoggedIn(p) => p.op.ans.kind = "bundle" /\ AnswerOk(p.op.ans) /\ p.op.ans.jar.n = 0
    /\ p.op.pc = "answered" /\ ~LoggedIn(p) /\ p.op.ans.set => p.op.ans.jar = NoCookie
    /\ p.op.pc = "answered" /\ p.op.ans.kind = "bundle" => p.op.ans.sid \in Sids
    /\ p.op.pc = "advancing" => p.op.token.ver < MaxVer

\* Only queries of the page's own session feed its cache.
QueriesOk(p) == \A k \in Owners : p.get[k].live => k = p.auth.sid

PageOk(p) == RefreshOk(p) /\ OperationOk(p) /\ QueriesOk(p)

\* The session exists and the answer of the login that created it is not on its way.
Handed(rows, pages, s) ==
    /\ rows[s].st # "unborn"
    /\ \A t \in Tabs : LoggedIn(pages[t]) => pages[t].op.ans.sid # s

\* Whatever the browser holds of a session came out of its login's answer, which comes once.
LoginOnce(rows, jar, pages) ==
    /\ \A s \in Sids : rows[s].st = "unborn" => rows[s].rot = 0
    /\ jar.sid # NoSid => Handed(rows, pages, jar.sid)
    /\ \A t \in Tabs :
         LET p == pages[t] IN
         /\ p.auth.sid # NoSid => Handed(rows, pages, p.auth.sid)
         /\ p.rf.pc = "sent" /\ p.rf.jar.sid # NoSid => Handed(rows, pages, p.rf.jar.sid)
         /\ Brought(p) => Handed(rows, pages, p.rf.ans.sid)
         /\ \A k \in Sids : p.get[k].phase # "none" => Handed(rows, pages, k)
         /\ LoggedIn(p) => rows[p.op.ans.sid].st # "unborn" /\ rows[p.op.ans.sid].rot = 0
    /\ \A t, u \in Tabs :
         LoggedIn(pages[t]) /\ LoggedIn(pages[u]) /\ pages[t].op.ans.sid = pages[u].op.ans.sid
            => t = u

\* No token is newer than its session's row.
Versions(rows, p) ==
    /\ p.auth.sid # NoSid => p.auth.ver <= rows[p.auth.sid].ver
    /\ Brought(p) => p.rf.ans.ver <= rows[p.rf.ans.sid].ver
    /\ p.op.pc = "answered" /\ p.op.ans.kind = "bundle"
          => p.op.ans.ver <= rows[p.op.ans.sid].ver

\* The secret of a cookie is the current one of an active session or the one before.
Usable(rows, s) == s # NoSid /\ rows[s].st = "active"

Near(rows, rot, jar) ==
    Usable(rows, jar.sid) => rows[jar.sid].rot \in {jar.n, (jar.n + 1) % (rot + 1)}

\* What the refresh of a page was sent with is still the cookie of its session, and what it
\* brings is the newest secret.
Newest(rows, rot, jar, p) ==
    /\ p.rf.pc = "sent" =>
          /\ Near(rows, rot, p.rf.jar)
          /\ p.rf.jar.sid # NoSid /\ jar.sid = p.rf.jar.sid => jar = p.rf.jar
    /\ Brought(p) /\ Usable(rows, p.rf.ans.sid)
          => p.rf.ans.jar.n = rows[p.rf.ans.sid].rot

\* With the Web Lock one refresh is outstanding at a time.
Locked(rows, rot, jar, holder, pages) ==
    /\ Near(rows, rot, jar)
    /\ \A t \in Tabs : /\ Outstanding(pages[t]) => holder = t
                       /\ Newest(rows, rot, jar, pages[t])

\* Nothing in the browser can bring the session to a page any more.
Gone(rows, jar, pages, k) ==
    /\ jar.sid # k
    /\ Handed(rows, pages, k)
    /\ \A t \in Tabs : /\ pages[t].rf.pc = "sent" => pages[t].rf.jar.sid # k
                       /\ Brought(pages[t]) => pages[t].rf.ans.sid # k

\* A GET retried with the token of another session than the one it is filed under: its page
\* has left that session for good.
ForeignGone(rows, jar, pages) ==
    \A t \in Tabs, k \in Sids :
        pages[t].get[k].phase = "sent" /\ pages[t].get[k].token.sid # k
            => pages[t].auth.sid # k /\ Gone(rows, jar, pages, k)

\* A page with a session caches nothing of another one.
CacheOk(p) == p.auth.sid # NoSid => p.cache \subseteq {p.auth.sid}

Sound ==
    /\ TypeOK
    /\ \A t \in Tabs : PageOk(page[t]) /\ Versions(srv, page[t])
    /\ LoginOnce(srv, cookie, page)
    /\ setup.locks => /\ Locked(srv, setup.rot, cookie, lock, page)
                      /\ ForeignGone(srv, cookie, page)
                      /\ \A t \in Tabs : CacheOk(page[t])

(***************************************************************************)
(* Steps of one page.  Most actions leave the rows alone and replace page  *)
(* t by a page q; what such a step may do is said once.  jar is the cookie *)
(* after the step.                                                         *)
(***************************************************************************)
\* The answer of the page's own security change has been dealt with.
RotationEnds(p, q) == p.op.kind = "rotate" /\ p.op.pc = "answered" /\ q.op.kind = "none"

\* So has the answer of its OAuth callback.
OAuthEnds(p, q) == p.op.kind = "oauth" /\ p.op.pc = "answered" /\ q.op.kind = "none"

\* The page's session and token: as before, or from an answer.
AuthFrom(rows, p, q) ==
    q.auth.sid # NoSid =>
        \/ /\ q.auth.sid = p.auth.sid /\ q.auth.ver <= rows[q.auth.sid].ver
           /\ q.auth.ver = p.auth.ver \/ RotationEnds(p, q)
        \/ /\ Brought(p) /\ p.rf.current
           /\ q.auth.sid = p.rf.ans.sid /\ q.auth.ver = p.rf.ans.ver
        \/ /\ LoggedIn(p) /\ ~LoggedIn(q) /\ (p.auth.sid = NoSid \/ OAuthEnds(p, q))
           /\ q.auth.sid = p.op.ans.sid /\ q.auth.ver = p.op.ans.ver

\* The refresh: as before, or sent with the cookie of the moment.
RefreshFrom(jar, p, q) ==
    /\ q.rf.pc = "sent" => \/ p.rf.pc = "sent" /\ q.rf.jar = p.rf.jar
                           \/ q.rf.jar = jar
    /\ Brought(q) => Brought(p) /\ q.rf.ans = p.rf.ans

OperationFrom(p, q) ==
    q.op.pc = "answered" => /\ p.op.pc = "answered"
                            /\ q.op.kind = p.op.kind /\ q.op.ans = p.op.ans

\* A GET: as before, sent with a token of the session it is filed under, or retried once
\* the refresh of the page has brought another session.
GetFrom(jar, p, q, k) ==
    /\ q.get[k].phase # "none" => p.get[k].phase # "none" \/ k = p.auth.sid
    /\ q.get[k].phase = "sent" =>
          \/ p.get[k].phase = "sent" /\ q.get[k].token = p.get[k].token
          \/ q.get[k].token.sid = k
          \/ p.rf.pc = "answered" /\ ~Outstanding(q) /\ q.auth.sid # k /\ jar.sid # k

CookieFrom(old, jar, p, q) ==
    \/ jar \in {old, NoCookie}
    \/ Brought(p) /\ ~Outstanding(q) /\ jar = p.rf.ans.jar
    \/ LoggedIn(p) /\ ~LoggedIn(q) /\ jar = p.op.ans.jar

EventQueues == [Tabs -> Seq([kind : {"authenticated", "signed_out"}, sid : Sids])]

PageStep(t, q) ==
    /\ q \in Pages /\ PageOk(q)
    /\ setup.locks /\ CacheOk(page[t]) => CacheOk(q)
    /\ page' = [page EXCEPT ![t] = q]
    /\ UNCHANGED <<srv, setup>>
    /\ lock' \in Tabs \cup {NoTab}
    /\ lock' = lock \/ lock \in {NoTab, t}
    /\ setup.locks /\ Outstanding(q) => lock' = t
    /\ events' \in EventQueues
    /\ faults' \in 0..setup.faults
    /\ AuthFrom(srv, page[t], q)
    /\ RefreshFrom(cookie', page[t], q)
    /\ OperationFrom(page[t], q)
    /\ \A k \in Owners : GetFrom(cookie', page[t], q, k)
    /\ CookieFrom(cookie, cookie', page[t], q)

(* Every page other than t is as before.                                     *)
LEMMA StepPages ==
    ASSUME TypeOK, NEW t \in Tabs, NEW q \in Pages, page' = [page EXCEPT ![t] = q]
    PROVE  /\ page' \in [Tabs -> Pages]
           /\ page'[t] = q
           /\ \A u \in Tabs : u # t => page'[u] = page[u]
  BY DEF TypeOK

(* What a page holds, by its type and the invariant.                         *)
LEMMA PageHolds ==
    ASSUME Sound, NEW t \in Tabs
    PROVE  /\ page[t] \in Pages /\ PageOk(page[t]) /\ Versions(srv, page[t])
           /\ page[t].auth.sid # NoSid =>
                 page[t].auth.sid \in Sids /\ Handed(srv, page, page[t].auth.sid)
           /\ page[t].rf.pc = "sent" /\ page[t].rf.jar.sid # NoSid =>
                 page[t].rf.jar.sid \in Sids /\ Handed(srv, page, page[t].rf.jar.sid)
           /\ Brought(page[t]) =>
                 /\ page[t].rf.ans.sid \in Sids /\ Handed(srv, page, page[t].rf.ans.sid)
                 /\ page[t].rf.ans.jar.sid = page[t].rf.ans.sid
           /\ \A k \in Sids : page[t].get[k].phase # "none" => Handed(srv, page, k)
           /\ LoggedIn(page[t]) =>
                 /\ page[t].op.ans.kind = "bundle" /\ page[t].op.ans.sid \in Sids
                 /\ page[t].op.ans.jar.sid = page[t].op.ans.sid
                 /\ page[t].op.ans.jar.n = 0
                 /\ srv[page[t].op.ans.sid].st # "unborn"
                 /\ srv[page[t].op.ans.sid].rot = 0
  <1>1. page[t] \in Pages /\ PageOk(page[t]) /\ Versions(srv, page[t])
    BY DEF Sound, TypeOK
  <1>2. page[t].auth.sid \in Sids \cup {NoSid} /\ page[t].rf.jar.sid \in Sids \cup {NoSid}
    BY <1>1 DEF Pages, Stores, Refreshes, Cookies, Owners
  <1>3. Brought(page[t]) => /\ page[t].rf.ans.sid \in Sids
                            /\ page[t].rf.ans.jar.sid = page[t].rf.ans.sid
    BY <1>1 DEF PageOk, RefreshOk, AnswerOk, Brought
  <1>4. LoggedIn(page[t]) => /\ page[t].op.ans.kind = "bundle" /\ page[t].op.ans.sid \in Sids
                             /\ page[t].op.ans.jar.sid = page[t].op.ans.sid
                             /\ page[t].op.ans.jar.n = 0
    BY <1>1 DEF PageOk, OperationOk, AnswerOk
  <1> QED
    BY <1>1, <1>2, <1>3, <1>4 DEF Sound, LoginOnce

(* A page step keeps the types.                                              *)
LEMMA StepTyped ==
    ASSUME Sound, NEW t \in Tabs, NEW q, PageStep(t, q)
    PROVE  TypeOK'
  <1>1. page[t] \in Pages /\ cookie \in Cookies
    BY DEF Sound, TypeOK
  <1>2. NoCookie \in Cookies
    BY WebSessionAssumption DEF NoCookie, Cookies, Owners
  <1>3. page[t].rf.ans.jar \in Cookies /\ page[t].op.ans.jar \in Cookies
    BY <1>1 DEF Pages, Refreshes, Operations, Answers
  <1>4. cookie' \in Cookies
    BY <1>1, <1>2, <1>3 DEF PageStep, CookieFrom
  <1>5. page' \in [Tabs -> Pages]
    BY StepPages DEF PageStep, Sound
  <1> QED
    BY <1>4, <1>5 DEF PageStep, Sound, TypeOK, EventQueues

(* Who has been handed a session keeps it, and a login's answer hands it.    *)
LEMMA StepHanded ==
    ASSUME Sound, NEW t \in Tabs, NEW q, PageStep(t, q), NEW s,
           \/ Handed(srv, page, s)
           \/ LoggedIn(page[t]) /\ ~LoggedIn(q) /\ s = page[t].op.ans.sid
    PROVE  Handed(srv', page', s)
  <1>1. /\ page'[t] = q
        /\ \A u \in Tabs : u # t => page'[u] = page[u]
        /\ srv' = srv
    BY StepPages DEF PageStep, Sound
  <1>2. LoggedIn(q) => LoggedIn(page[t]) /\ q.op.ans = page[t].op.ans
    BY DEF PageStep, OperationFrom, LoggedIn
  <1>3. srv[s].st # "unborn"
    BY PageHolds DEF Handed
  <1>4. ASSUME NEW u \in Tabs, LoggedIn(page'[u])
        PROVE  page'[u].op.ans.sid # s
    <2>1. CASE Handed(srv, page, s)
      BY <1>1, <1>2, <1>4, <2>1 DEF Handed
    <2>2. CASE LoggedIn(page[t]) /\ ~LoggedIn(q) /\ s = page[t].op.ans.sid
      BY <1>1, <1>4, <2>2 DEF Sound, LoginOnce
    <2> QED
      BY <2>1, <2>2
  <1> QED
    BY <1>1, <1>3, <1>4 DEF Handed

(* The cookie after a page step: handed, near, not of a gone session, and    *)
(* still what the other pages' requests were sent with.                      *)
LEMMA StepCookie ==
    ASSUME Sound, NEW t \in Tabs, NEW q, PageStep(t, q)
    PROVE  /\ cookie'.sid # NoSid => Handed(srv', page', cookie'.sid)
           /\ setup.locks => Near(srv, setup.rot, cookie')
           /\ \A k \in Sids : Gone(srv, cookie, page, k) => cookie'.sid # k
           /\ setup.locks =>
                \A u \in Tabs : /\ page[u].rf.pc = "sent" /\ page[u].rf.jar.sid # NoSid
                                /\ cookie'.sid = page[u].rf.jar.sid
                                => cookie' = page[u].rf.jar
  <1> DEFINE p == page[t]
  <1>1. cookie \in Cookies /\ NoCookie.sid = NoSid /\ NoSid \notin Sids
    BY WebSessionAssumption DEF Sound, TypeOK, NoCookie
  <1>2. CASE cookie' = cookie
    <2>1. cookie.sid # NoSid => Handed(srv, page, cookie.sid)
      BY DEF Sound, LoginOnce
    <2>2. cookie'.sid # NoSid => Handed(srv', page', cookie'.sid)
      BY <1>2, <2>1, StepHanded
    <2> QED
      BY <1>2, <2>2 DEF Gone, Sound, Locked, Newest
  <1>3. CASE cookie' = NoCookie
    BY <1>1, <1>3 DEF Near, Usable
  <1>4. CASE Brought(p) /\ cookie' = p.rf.ans.jar
    <2>1. cookie'.sid = p.rf.ans.sid /\ Handed(srv, page, p.rf.ans.sid)
      BY <1>4, PageHolds
    <2>2. Handed(srv', page', cookie'.sid)
      BY <2>1, StepHanded
    <2>3. setup.locks => Near(srv, setup.rot, cookie')
      BY <1>4, <2>1 DEF Sound, Locked, Newest, Near
    <2>4. ASSUME setup.locks, NEW u \in Tabs
          PROVE  page[u].rf.pc # "sent"
      BY <1>4, <2>4 DEF Sound, Locked, Outstanding, Brought
    <2> QED
      BY <1>4, <2>1, <2>2, <2>3, <2>4 DEF Gone
  <1>5. CASE LoggedIn(p) /\ ~LoggedIn(q) /\ cookie' = p.op.ans.jar
    <2>1. cookie'.sid = p.op.ans.sid /\ cookie'.n = 0 /\ srv[p.op.ans.sid].rot = 0
      BY <1>5, PageHolds
    <2>2. Handed(srv', page', cookie'.sid)
      BY <1>5, <2>1, StepHanded
    <2>3. Near(srv, setup.rot, cookie')
      BY <2>1 DEF Near
    <2>4. \A k : Handed(srv, page, k) => k # p.op.ans.sid
      BY <1>5 DEF Handed
    <2>5. ASSUME NEW u \in Tabs, page[u].rf.pc = "sent", page[u].rf.jar.sid # NoSid
          PROVE  page[u].rf.jar.sid # p.op.ans.sid
      BY <2>4, <2>5, PageHolds
    <2> QED
      BY <2>1, <2>2, <2>3, <2>4, <2>5 DEF Gone
  <1> QED
    BY <1>2, <1>3, <1>4, <1>5 DEF PageStep, CookieFrom

(* A page step keeps LoginOnce.                                              *)
LEMMA StepLoginOnce ==
    ASSUME Sound, NEW t \in Tabs, NEW q, PageStep(t, q)
    PROVE  LoginOnce(srv', cookie', page')
  <1> DEFINE p == page[t]
  <1>1. /\ page'[t] = q
        /\ \A u \in Tabs : u # t => page'[u] = page[u]
        /\ srv' = srv
    BY StepPages DEF PageStep, Sound
  <1>2. LoggedIn(q) => LoggedIn(p) /\ q.op.ans = p.op.ans
    BY DEF PageStep, OperationFrom, LoggedIn
  <1>3. \A u \in Tabs : LoggedIn(page'[u]) =>
            LoggedIn(page[u]) /\ page'[u].op.ans = page[u].op.ans
    BY <1>1, <1>2
  <1>4. \A u \in Tabs : LoggedIn(page'[u]) => /\ srv'[page'[u].op.ans.sid].st # "unborn"
                                              /\ srv'[page'[u].op.ans.sid].rot = 0
    BY <1>1, <1>3, PageHolds
  <1>5. \A u, v \in Tabs :
            LoggedIn(page'[u]) /\ LoggedIn(page'[v]) /\ page'[u].op.ans.sid = page'[v].op.ans.sid
                => u = v
    BY <1>3 DEF Sound, LoginOnce
  <1>6. ASSUME NEW u \in Tabs
        PROVE  /\ page'[u].auth.sid # NoSid => Handed(srv', page', page'[u].auth.sid)
               /\ page'[u].rf.pc = "sent" /\ page'[u].rf.jar.sid # NoSid
                     => Handed(srv', page', page'[u].rf.jar.sid)
               /\ Brought(page'[u]) => Handed(srv', page', page'[u].rf.ans.sid)
               /\ \A k \in Sids : page'[u].get[k].phase # "none" => Handed(srv', page', k)
    <2>1. CASE u # t
      BY <1>1, <2>1, PageHolds, StepHanded
    <2>2. CASE u = t
      <3>1. q.auth.sid # NoSid => Handed(srv', page', q.auth.sid)
        BY PageHolds, StepHanded DEF PageStep, AuthFrom
      <3>2. q.rf.pc = "sent" /\ q.rf.jar.sid # NoSid => Handed(srv', page', q.rf.jar.sid)
        BY PageHolds, StepHanded, StepCookie DEF PageStep, RefreshFrom
      <3>3. Brought(q) => Handed(srv', page', q.rf.ans.sid)
        BY PageHolds, StepHanded DEF PageStep, RefreshFrom
      <3>4. ASSUME NEW k \in Sids, q.get[k].phase # "none"
            PROVE  Handed(srv', page', k)
        <4>1. k \in Owners /\ k # NoSid
          BY <3>4, WebSessionAssumption DEF Owners
        <4>2. p.get[k].phase # "none" \/ k = p.auth.sid
          BY <3>4, <4>1 DEF PageStep, GetFrom
        <4> QED
          BY <3>4, <4>1, <4>2, PageHolds, StepHanded
      <3> QED
        BY <1>1, <2>2, <3>1, <3>2, <3>3, <3>4
    <2> QED
      BY <2>1, <2>2
  <1> QED
    BY <1>1, <1>4, <1>5, <1>6, StepCookie DEF LoginOnce, Sound

(* A page step keeps Versions.                                               *)
LEMMA StepVersions ==
    ASSUME Sound, NEW t \in Tabs, NEW q, PageStep(t, q)
    PROVE  Versions(srv', q)
  <1>1. srv' = srv /\ Versions(srv, page[t])
    BY PageHolds DEF PageStep
  <1>2. q.auth.sid # NoSid => q.auth.ver <= srv[q.auth.sid].ver
    <2>1. LoggedIn(page[t]) => page[t].op.pc = "answered" /\ page[t].op.ans.kind = "bundle"
      BY PageHolds DEF LoggedIn
    <2> QED
      BY <1>1, <2>1 DEF PageStep, AuthFrom, Versions
  <1>3. Brought(q) => q.rf.ans.ver <= srv[q.rf.ans.sid].ver
    BY <1>1 DEF PageStep, RefreshFrom, Versions
  <1>4. q.op.pc = "answered" /\ q.op.ans.kind = "bundle"
            => q.op.ans.ver <= srv[q.op.ans.sid].ver
    BY <1>1 DEF PageStep, OperationFrom, Versions
  <1> QED
    BY <1>1, <1>2, <1>3, <1>4 DEF Versions

(* A page step keeps Locked.                                                 *)
LEMMA StepLocked ==
    ASSUME Sound, NEW t \in Tabs, NEW q, PageStep(t, q), setup.locks
    PROVE  Locked(srv', setup'.rot, cookie', lock', page')
  <1> DEFINE p == page[t]
  <1>1. /\ page'[t] = q /\ srv' = srv /\ setup' = setup
        /\ \A u \in Tabs : u # t => page'[u] = page[u]
        /\ Locked(srv, setup.rot, cookie, lock, page)
    BY StepPages DEF PageStep, Sound
  <1>2. Near(srv', setup'.rot, cookie')
    BY <1>1, StepCookie
  <1>3. \A u \in Tabs : Outstanding(page'[u]) => lock' = u
    BY <1>1, WebSessionAssumption DEF PageStep, Locked
  <1>4. ASSUME NEW u \in Tabs, u # t
        PROVE  Newest(srv', setup'.rot, cookie', page'[u])
    BY <1>1, <1>4, StepCookie DEF Locked, Newest
  <1>5. Newest(srv', setup'.rot, cookie', q)
    <2>1. q.rf.pc = "sent" => Near(srv, setup.rot, q.rf.jar)
      BY <1>1, StepCookie DEF PageStep, RefreshFrom, Locked, Newest
    <2>2. q.rf.pc = "sent" /\ q.rf.jar.sid # NoSid /\ cookie'.sid = q.rf.jar.sid
                => cookie' = q.rf.jar
      BY StepCookie DEF PageStep, RefreshFrom
    <2>3. Brought(q) /\ Usable(srv, q.rf.ans.sid) => q.rf.ans.jar.n = srv[q.rf.ans.sid].rot
      BY <1>1 DEF PageStep, RefreshFrom, Locked, Newest
    <2> QED
      BY <1>1, <2>1, <2>2, <2>3 DEF Newest
  <1> QED
    BY <1>1, <1>2, <1>3, <1>4, <1>5 DEF Locked

(* A page step keeps ForeignGone.                                            *)
LEMMA StepForeignGone ==
    ASSUME Sound, NEW t \in Tabs, NEW q, PageStep(t, q), setup.locks
    PROVE  ForeignGone(srv', cookie', page')
  <1> DEFINE p == page[t]
  <1>1. /\ page'[t] = q
        /\ \A u \in Tabs : u # t => page'[u] = page[u]
        /\ ForeignGone(srv, cookie, page)
    BY StepPages DEF PageStep, Sound
  <1>2. ASSUME NEW k \in Sids, Gone(srv, cookie, page, k)
        PROVE  Gone(srv', cookie', page', k)
    <2>1. cookie'.sid # k /\ Handed(srv', page', k)
      BY <1>2, StepCookie, StepHanded DEF Gone
    <2>2. ASSUME NEW u \in Tabs
          PROVE  /\ page'[u].rf.pc = "sent" => page'[u].rf.jar.sid # k
                 /\ Brought(page'[u]) => page'[u].rf.ans.sid # k
      BY <1>1, <1>2, <2>1 DEF Gone, PageStep, RefreshFrom
    <2> QED
      BY <2>1, <2>2 DEF Gone
  <1>3. ASSUME NEW k \in Sids, Gone(srv, cookie, page, k), p.auth.sid # k
        PROVE  q.auth.sid # k
    <2>1. k # NoSid
      BY <1>3, WebSessionAssumption
    <2> QED
      BY <1>3, <2>1 DEF PageStep, AuthFrom, Gone, Handed
  <1>4. ASSUME NEW u \in Tabs, NEW k \in Sids,
               page'[u].get[k].phase = "sent", page'[u].get[k].token.sid # k
        PROVE  page'[u].auth.sid # k /\ Gone(srv', cookie', page', k)
    <2>1. CASE u # t
      BY <1>1, <1>2, <1>4, <2>1 DEF ForeignGone
    <2>2. CASE u = t
      <3>1. k \in Owners
        BY DEF Owners
      <3>2. CASE p.get[k].phase = "sent" /\ q.get[k].token = p.get[k].token
        <4>1. p.auth.sid # k /\ Gone(srv, cookie, page, k)
          BY <1>1, <1>4, <2>2, <3>2 DEF ForeignGone
        <4> QED
          BY <1>1, <1>2, <1>3, <2>2, <4>1
      <3>3. CASE /\ p.rf.pc = "answered" /\ ~Outstanding(q)
                 /\ q.auth.sid # k /\ cookie'.sid # k
        <4>1. \A v \in Tabs : v # t => ~Outstanding(page[v])
          BY <3>3 DEF Sound, Locked, Outstanding
        <4>2. \A v \in Tabs : page'[v].rf.pc # "sent" /\ ~Brought(page'[v])
          BY <1>1, <3>3, <4>1 DEF Outstanding, Brought
        <4>3. Handed(srv', page', k)
          BY <1>4, <2>2, StepLoginOnce DEF LoginOnce
        <4> QED
          BY <1>1, <2>2, <3>3, <4>2, <4>3 DEF Gone
      <3> QED
        BY <1>1, <1>4, <2>2, <3>1, <3>2, <3>3 DEF PageStep, GetFrom
    <2> QED
      BY <2>1, <2>2
  <1> QED
    BY <1>4 DEF ForeignGone

\* A page goes from one session to another only through a page without one or with the answer
\* of an OAuth callback, and to an older token of its session only with the answer of a
\* security change.
Moves(p, q) ==
    \/ NoSid \in {p.auth.sid, q.auth.sid}
    \/ /\ q.auth.sid = p.auth.sid
       /\ q.auth.ver >= p.auth.ver \/ RotationEnds(p, q)
    \/ q.auth.sid # p.auth.sid /\ OAuthEnds(p, q)

\* A step that keeps the invariant and moves the pages' sessions as it may.
SoundStep == Sound' /\ \A u \in Tabs : Moves(page[u], page'[u])

(* Staying is a move.                                                        *)
LEMMA StayMoves ==
    ASSUME Sound, NEW u \in Tabs, NEW q, q.auth = page[u].auth
    PROVE  Moves(page[u], q)
  <1>1. page[u].auth.ver \in Int
    BY PageHolds DEF Pages, Stores
  <1> QED
    BY <1>1 DEF Moves

(* Every page step keeps the invariant.                                      *)
LEMMA StepSound ==
    ASSUME Sound, NEW t \in Tabs, NEW q, PageStep(t, q)
    PROVE  SoundStep
  <1>1. /\ page'[t] = q /\ srv' = srv /\ setup' = setup /\ PageOk(q)
        /\ \A u \in Tabs : u # t => page'[u] = page[u]
    BY StepPages DEF PageStep, Sound
  <1>2. \A u \in Tabs : PageOk(page'[u]) /\ Versions(srv', page'[u])
    BY <1>1, PageHolds, StepVersions
  <1>3. setup'.locks => /\ Locked(srv', setup'.rot, cookie', lock', page')
                        /\ ForeignGone(srv', cookie', page')
                        /\ \A u \in Tabs : CacheOk(page'[u])
    BY <1>1, StepLocked, StepForeignGone DEF PageStep, Sound
  <1>4. Moves(page[t], q)
    <2> DEFINE p == page[t]
    <2>1. /\ p.auth.ver \in Int /\ q.auth.ver \in Int
      BY PageHolds DEF PageStep, Pages, Stores
    <2>2. p.rf.current /\ Brought(p) => /\ p.auth.sid \in {NoSid, p.rf.ans.sid}
                                        /\ p.auth.sid = p.rf.ans.sid
                                             => p.auth.ver <= p.rf.ans.ver
      BY PageHolds DEF PageOk, RefreshOk
    <2>3. AuthFrom(srv, p, q)
      BY DEF PageStep
    <2>4. LoggedIn(p) /\ p.auth.sid # NoSid => p.auth.sid # p.op.ans.sid
      BY DEF Sound, LoginOnce, Handed
    <2> QED
      BY <2>1, <2>2, <2>3, <2>4 DEF AuthFrom, Moves
  <1>5. \A u \in Tabs : Moves(page[u], page'[u])
    BY <1>1, <1>4, StayMoves
  <1> QED
    BY <1>2, <1>3, <1>5, StepTyped, StepLoginOnce DEF Sound, SoundStep

(***************************************************************************)
(* Steps of the server.  They change the rows, answer a refresh or an      *)
(* operation of one page, and leave the browser's cookie and lock alone.   *)
(***************************************************************************)
\* A session is born, ends or moves on; its secret changes only for the request that holds it.
RowsFrom(rows, rows2, rot, pages, pages2) ==
    \A s \in Sids :
        /\ rows2[s].st = "unborn" => rows[s].st = "unborn"
        /\ rows2[s].st = "active" => rows[s].st \in {"unborn", "active"}
        /\ rows[s].ver <= rows2[s].ver
        /\ \/ rows2[s].rot = rows[s].rot
           \/ \E t \in Tabs : /\ pages[t].rf.pc = "sent" /\ pages2[t].rf.pc # "sent"
                              /\ pages[t].rf.jar = [sid |-> s, n |-> rows[s].rot]
                              /\ rows2[s].rot = (rows[s].rot + 1) % (rot + 1)

\* What a page has at the server: as before, or answered from the rows.
AnsweredFrom(rows, rows2, p, q) ==
    /\ q.auth = p.auth /\ q.get = p.get /\ q.cache = p.cache
    /\ Outstanding(q) => Outstanding(p)
    /\ q.rf.pc = "sent" => p.rf.pc = "sent" /\ q.rf.jar = p.rf.jar
    /\ Brought(q) => \/ Brought(p) /\ q.rf.ans = p.rf.ans
                     \/ /\ p.rf.pc = "sent" /\ q.rf.ans.sid = p.rf.jar.sid
                        /\ q.rf.ans.ver <= rows2[q.rf.ans.sid].ver
                        /\ q.rf.ans.jar.n = rows2[q.rf.ans.sid].rot
    /\ q.op.pc = "answered" /\ q.op.ans.kind = "bundle" =>
          \/ p.op.pc = "answered" /\ q.op.ans = p.op.ans
          \/ q.op.ans.ver <= rows2[q.op.ans.sid].ver
    /\ LoggedIn(q) => \/ LoggedIn(p) /\ q.op.ans = p.op.ans
                      \/ /\ rows[q.op.ans.sid].st = "unborn"
                         /\ rows2[q.op.ans.sid].st # "unborn"
                         /\ rows2[q.op.ans.sid].rot = 0

ServerStep ==
    /\ TypeOK'
    /\ UNCHANGED <<cookie, lock, setup>>
    /\ RowsFrom(srv, srv', setup.rot, page, page')
    /\ \A t \in Tabs : /\ PageOk(page'[t])
                       /\ AnsweredFrom(srv, srv', page[t], page'[t])
    /\ \A t, u \in Tabs : page'[t] # page[t] /\ page'[u] # page[u] => t = u

(* A handed session is not born again, and only a login's answer names a     *)
(* session that was not there before.                                        *)
LEMMA ServerHanded ==
    ASSUME Sound, ServerStep, NEW s \in Sids, Handed(srv, page, s)
    PROVE  Handed(srv', page', s)
  <1>1. srv[s].st # "unborn" /\ srv'[s].st # "unborn"
    BY DEF Handed, ServerStep, RowsFrom
  <1>2. ASSUME NEW u \in Tabs, LoggedIn(page'[u])
        PROVE  page'[u].op.ans.sid # s
    <2>1. AnsweredFrom(srv, srv', page[u], page'[u])
      BY DEF ServerStep
    <2> QED
      BY <1>1, <1>2, <2>1 DEF AnsweredFrom, Handed
  <1> QED
    BY <1>1, <1>2 DEF Handed

(* A step of the server keeps LoginOnce.                                     *)
LEMMA ServerLoginOnce ==
    ASSUME Sound, ServerStep
    PROVE  LoginOnce(srv', cookie', page')
  <1>1. \A u \in Tabs : AnsweredFrom(srv, srv', page[u], page'[u])
    BY DEF ServerStep
  <1>2. \A u \in Tabs : page'[u] \in Pages
    BY DEF ServerStep, TypeOK
  <1>3. ASSUME NEW s \in Sids, srv'[s].rot # srv[s].rot
        PROVE  Handed(srv, page, s)
    <2>1. PICK u \in Tabs : /\ page[u].rf.pc = "sent"
                            /\ page[u].rf.jar = [sid |-> s, n |-> srv[s].rot]
      BY <1>3 DEF ServerStep, RowsFrom
    <2>2. page[u].rf.jar.sid = s /\ s # NoSid
      BY <2>1, WebSessionAssumption
    <2> QED
      BY <2>1, <2>2, PageHolds
  <1>4. \A s \in Sids : srv'[s].st = "unborn" => srv'[s].rot = 0
    BY <1>3 DEF ServerStep, RowsFrom, Sound, LoginOnce, Handed
  <1>5. cookie'.sid # NoSid => Handed(srv', page', cookie'.sid)
    <2>1. cookie' = cookie /\ (cookie.sid # NoSid => cookie.sid \in Sids)
      BY DEF ServerStep, Sound, TypeOK, Cookies, Owners
    <2> QED
      BY <2>1, ServerHanded DEF Sound, LoginOnce
  <1>6. ASSUME NEW u \in Tabs
        PROVE  /\ page'[u].auth.sid # NoSid => Handed(srv', page', page'[u].auth.sid)
               /\ page'[u].rf.pc = "sent" /\ page'[u].rf.jar.sid # NoSid
                     => Handed(srv', page', page'[u].rf.jar.sid)
               /\ Brought(page'[u]) => Handed(srv', page', page'[u].rf.ans.sid)
               /\ \A k \in Sids : page'[u].get[k].phase # "none" => Handed(srv', page', k)
    <2>1. AnsweredFrom(srv, srv', page[u], page'[u])
      BY <1>1
    <2>2. Brought(page'[u]) => page'[u].rf.ans.sid \in Sids
      BY DEF ServerStep, PageOk, RefreshOk, AnswerOk, Brought
    <2>3. Brought(page'[u]) => Handed(srv, page, page'[u].rf.ans.sid)
      <3>1. /\ Brought(page[u]) => Handed(srv, page, page[u].rf.ans.sid)
            /\ page[u].rf.pc = "sent" /\ page[u].rf.jar.sid # NoSid =>
                  Handed(srv, page, page[u].rf.jar.sid)
        BY PageHolds
      <3>2. NoSid \notin Sids
        BY WebSessionAssumption
      <3> QED
        BY <2>1, <2>2, <3>1, <3>2 DEF AnsweredFrom
    <2> QED
      BY <2>1, <2>2, <2>3, PageHolds, ServerHanded DEF AnsweredFrom
  <1>7. ASSUME NEW u \in Tabs, LoggedIn(page'[u])
        PROVE  srv'[page'[u].op.ans.sid].st # "unborn" /\ srv'[page'[u].op.ans.sid].rot = 0
    <2>1. CASE LoggedIn(page[u]) /\ page'[u].op.ans = page[u].op.ans
      <3>1. /\ page[u].op.ans.sid \in Sids
            /\ srv[page[u].op.ans.sid].st # "unborn" /\ srv[page[u].op.ans.sid].rot = 0
        BY <1>7, <2>1, PageHolds
      <3>2. ~Handed(srv, page, page[u].op.ans.sid)
        BY <1>7, <2>1 DEF Handed
      <3>3. srv'[page[u].op.ans.sid].rot = srv[page[u].op.ans.sid].rot
        BY <1>3, <3>1, <3>2
      <3>4. srv'[page[u].op.ans.sid].st # "unborn"
        BY <3>1 DEF ServerStep, RowsFrom
      <3> QED
        BY <2>1, <3>1, <3>3, <3>4
    <2>2. CASE ~(LoggedIn(page[u]) /\ page'[u].op.ans = page[u].op.ans)
      BY <1>1, <1>7, <2>2 DEF AnsweredFrom
    <2> QED
      BY <2>1, <2>2
  <1>8. ASSUME NEW u \in Tabs, NEW v \in Tabs, u # v, LoggedIn(page'[u]), LoggedIn(page'[v]),
               page'[u].op.ans.sid = page'[v].op.ans.sid
        PROVE  FALSE
    <2>1. \A w \in Tabs : LoggedIn(page[w]) => srv[page[w].op.ans.sid].st # "unborn"
      BY PageHolds
    <2>2. page'[u] = page[u] \/ page'[v] = page[v]
      BY <1>8 DEF ServerStep
    <2>3. LoggedIn(page[u]) /\ page'[u].op.ans = page[u].op.ans
      BY <1>1, <1>8, <2>1, <2>2 DEF AnsweredFrom
    <2>4. LoggedIn(page[v]) /\ page'[v].op.ans = page[v].op.ans
      BY <1>1, <1>8, <2>1, <2>2 DEF AnsweredFrom
    <2> QED
      BY <1>8, <2>3, <2>4 DEF Sound, LoginOnce
  <1> QED
    BY <1>4, <1>5, <1>6, <1>7, <1>8 DEF LoginOnce

(* A step of the server keeps Versions.                                      *)
LEMMA ServerVersions ==
    ASSUME Sound, ServerStep, NEW u \in Tabs
    PROVE  Versions(srv', page'[u])
  <1>1. /\ AnsweredFrom(srv, srv', page[u], page'[u])
        /\ Versions(srv, page[u])
        /\ page'[u] \in Pages /\ page[u] \in Pages /\ PageOk(page'[u]) /\ PageOk(page[u])
    BY PageHolds DEF ServerStep, TypeOK
  <1>2. \A s \in Sids : srv[s].ver <= srv'[s].ver /\ srv[s].ver \in Int /\ srv'[s].ver \in Int
    <2>1. \A s \in Sids : srv[s].ver <= srv'[s].ver
      BY DEF ServerStep, RowsFrom
    <2>2. \A s \in Sids : srv[s].ver \in 1..MaxVer /\ srv'[s].ver \in 1..MaxVer
      BY DEF ServerStep, Sound, TypeOK
    <2> QED
      BY <2>1, <2>2
  <1>3. /\ page[u].auth.ver \in Int
        /\ page[u].rf.ans.ver \in Int /\ page'[u].op.ans.ver \in Int
        /\ page[u].auth.sid # NoSid => page[u].auth.sid \in Sids
    BY <1>1 DEF Pages, Stores, Refreshes, Operations, Answers, Owners
  <1>4. Brought(page[u]) => page[u].rf.ans.sid \in Sids
    BY PageHolds
  <1>5. page'[u].op.pc = "answered" /\ page'[u].op.ans.kind = "bundle"
            => page'[u].op.ans.sid \in Sids
    BY <1>1 DEF PageOk, OperationOk
  <1>6. page'[u].auth.sid # NoSid => page'[u].auth.ver <= srv'[page'[u].auth.sid].ver
    BY <1>1, <1>2, <1>3 DEF AnsweredFrom, Versions
  <1>7. Brought(page'[u]) => page'[u].rf.ans.ver <= srv'[page'[u].rf.ans.sid].ver
    BY <1>1, <1>2, <1>3, <1>4 DEF AnsweredFrom, Versions
  <1>8. page'[u].op.pc = "answered" /\ page'[u].op.ans.kind = "bundle"
            => page'[u].op.ans.ver <= srv'[page'[u].op.ans.sid].ver
    BY <1>1, <1>2, <1>3, <1>5 DEF AnsweredFrom, Versions
  <1> QED
    BY <1>6, <1>7, <1>8 DEF Versions

(* A step of the server keeps Locked.                                        *)
LEMMA ServerLocked ==
    ASSUME Sound, ServerStep, setup.locks
    PROVE  Locked(srv', setup'.rot, cookie', lock', page')
  <1>1. /\ cookie' = cookie /\ lock' = lock /\ setup' = setup
        /\ Locked(srv, setup.rot, cookie, lock, page)
        /\ \A u \in Tabs : AnsweredFrom(srv, srv', page[u], page'[u])
    BY DEF ServerStep, Sound
  <1>2. \A u \in Tabs : Outstanding(page'[u]) => lock' = u
    BY <1>1 DEF AnsweredFrom, Locked
  <1>3. ASSUME NEW s \in Sids, Usable(srv', s), Handed(srv, page, s)
        PROVE  Usable(srv, s)
    BY <1>3 DEF ServerStep, RowsFrom, Usable, Handed
  <1>4. ASSUME NEW s \in Sids, srv'[s].rot # srv[s].rot
        PROVE  \E t \in Tabs :
                  /\ page[t].rf.pc = "sent" /\ page'[t].rf.pc # "sent"
                  /\ page[t].rf.jar = [sid |-> s, n |-> srv[s].rot]
                  /\ srv'[s].rot = (srv[s].rot + 1) % (setup.rot + 1)
                  /\ \A u \in Tabs \ {t} : ~Outstanding(page[u])
    BY <1>1, <1>4 DEF ServerStep, RowsFrom, Locked, Outstanding
  <1>5. ASSUME Usable(srv', cookie.sid)
        PROVE  srv'[cookie.sid].rot \in {cookie.n, (cookie.n + 1) % (setup.rot + 1)}
    <2>1. cookie.sid \in Sids /\ Handed(srv, page, cookie.sid)
      BY <1>5 DEF Usable, Sound, TypeOK, Cookies, Owners, LoginOnce
    <2>2. srv[cookie.sid].rot \in {cookie.n, (cookie.n + 1) % (setup.rot + 1)}
      BY <1>1, <1>3, <1>5, <2>1 DEF Locked, Near
    <2>3. CASE srv'[cookie.sid].rot # srv[cookie.sid].rot
      <3>1. PICK t \in Tabs :
                /\ page[t].rf.pc = "sent"
                /\ page[t].rf.jar = [sid |-> cookie.sid, n |-> srv[cookie.sid].rot]
                /\ srv'[cookie.sid].rot = (srv[cookie.sid].rot + 1) % (setup.rot + 1)
        BY <1>4, <2>1, <2>3
      <3>2. cookie = page[t].rf.jar
        BY <1>1, <2>1, <3>1, WebSessionAssumption DEF Locked, Newest
      <3> QED
        BY <3>1, <3>2
    <2> QED
      BY <2>2, <2>3
  <1>6. ASSUME NEW u \in Tabs
        PROVE  Newest(srv', setup'.rot, cookie', page'[u])
    <2>1. AnsweredFrom(srv, srv', page[u], page'[u]) /\ Newest(srv, setup.rot, cookie, page[u])
      BY <1>1 DEF Locked
    <2>2. ASSUME page'[u].rf.pc = "sent"
          PROVE  Near(srv', setup.rot, page'[u].rf.jar)
      <3> DEFINE jar == page[u].rf.jar
      <3>1. page[u].rf.pc = "sent" /\ page'[u].rf.jar = jar
        BY <2>1, <2>2 DEF AnsweredFrom
      <3>2. ASSUME Usable(srv', jar.sid)
            PROVE  srv'[jar.sid].rot \in {jar.n, (jar.n + 1) % (setup.rot + 1)}
        <4>1. jar.sid \in Sids /\ Handed(srv, page, jar.sid)
          BY <3>1, <3>2, PageHolds DEF Usable
        <4>2. srv[jar.sid].rot \in {jar.n, (jar.n + 1) % (setup.rot + 1)}
          BY <1>3, <2>1, <3>1, <3>2, <4>1 DEF Newest, Near
        <4>3. srv'[jar.sid].rot = srv[jar.sid].rot
          BY <1>4, <2>2, <3>1, <4>1 DEF Outstanding
        <4> QED
          BY <4>2, <4>3
      <3> QED
        BY <3>1, <3>2 DEF Near
    <2>3. page'[u].rf.pc = "sent" /\ page'[u].rf.jar.sid # NoSid
                /\ cookie.sid = page'[u].rf.jar.sid => cookie = page'[u].rf.jar
      BY <2>1 DEF AnsweredFrom, Newest
    <2>4. ASSUME Brought(page'[u]), Usable(srv', page'[u].rf.ans.sid)
          PROVE  page'[u].rf.ans.jar.n = srv'[page'[u].rf.ans.sid].rot
      <3>1. CASE Brought(page[u]) /\ page'[u].rf.ans = page[u].rf.ans
        <4> DEFINE s == page[u].rf.ans.sid
        <4>1. s \in Sids /\ Handed(srv, page, s)
          BY <3>1, PageHolds
        <4>2. page[u].rf.ans.jar.n = srv[s].rot
          BY <1>3, <2>1, <2>4, <3>1, <4>1 DEF Newest
        <4>3. srv'[s].rot = srv[s].rot
          BY <1>4, <3>1, <4>1 DEF Outstanding, Brought
        <4> QED
          BY <3>1, <4>2, <4>3
      <3> QED
        BY <2>1, <2>4, <3>1 DEF AnsweredFrom
    <2> QED
      BY <1>1, <2>2, <2>3, <2>4 DEF Newest
  <1> QED
    BY <1>1, <1>2, <1>5, <1>6 DEF Locked, Near

(* Every step of the server keeps the invariant.                             *)
LEMMA ServerSound ==
    ASSUME Sound, ServerStep
    PROVE  SoundStep
  <1>1. ASSUME setup.locks
        PROVE  ForeignGone(srv', cookie', page')
    <2>1. /\ cookie' = cookie
          /\ \A u \in Tabs : AnsweredFrom(srv, srv', page[u], page'[u])
      BY DEF ServerStep
    <2>2. ASSUME NEW k \in Sids, Gone(srv, cookie, page, k)
          PROVE  Gone(srv', cookie', page', k)
      <3>1. Handed(srv', page', k) /\ cookie'.sid # k
        BY <2>1, <2>2, ServerHanded DEF Gone
      <3>2. ASSUME NEW u \in Tabs
            PROVE  /\ page'[u].rf.pc = "sent" => page'[u].rf.jar.sid # k
                   /\ Brought(page'[u]) => page'[u].rf.ans.sid # k
        BY <2>1, <2>2 DEF AnsweredFrom, Gone
      <3> QED
        BY <3>1, <3>2 DEF Gone
    <2> QED
      BY <1>1, <2>1, <2>2 DEF Sound, ForeignGone, AnsweredFrom
  <1>2. \A u \in Tabs : PageOk(page'[u]) /\ Versions(srv', page'[u])
    BY ServerVersions DEF ServerStep
  <1>3. setup' = setup /\ TypeOK'
    BY DEF ServerStep
  <1>4. setup.locks => \A u \in Tabs : CacheOk(page'[u])
    BY DEF ServerStep, AnsweredFrom, Sound, CacheOk
  <1>5. \A u \in Tabs : Moves(page[u], page'[u])
    BY StayMoves DEF ServerStep, AnsweredFrom
  <1> QED
    BY <1>1, <1>2, <1>3, <1>4, <1>5, ServerLoginOnce, ServerLocked DEF Sound, SoundStep

(***************************************************************************)
(* What the functions of a page make of its record.                        *)
(***************************************************************************)
(* The empty records have their types.                                       *)
LEMMA EmptyTyped ==
    /\ NoSid \in Owners /\ NoCookie \in Cookies /\ NoToken \in Tokens
    /\ NoAnswer \in Answers /\ Unauthorized \in Answers /\ Mismatch \in Answers
    /\ Failed \in Answers
    /\ NoRefresh \in Refreshes /\ NoOperation \in Operations /\ NoGet \in Gets
    /\ SignedOut("idle") \in Stores /\ SignedOut("complete") \in Stores
  <1>1. NoSid \in Owners /\ 0 \in 0..MaxRot /\ 0 \in 0..MaxVer
    BY WebSessionAssumption DEF Owners
  <1>2. NoCookie \in Cookies /\ NoToken \in Tokens
    BY <1>1 DEF NoCookie, Cookies, NoToken, Tokens
  <1>3. /\ NoAnswer \in Answers /\ Unauthorized \in Answers /\ Mismatch \in Answers
        /\ Failed \in Answers
    BY <1>1, <1>2 DEF NoAnswer, Unauthorized, Mismatch, Failed, Answers
  <1>4. NoRefresh \in Refreshes /\ NoOperation \in Operations /\ NoGet \in Gets
    BY <1>1, <1>2, <1>3 DEF NoRefresh, Refreshes, NoOperation, Operations, NoGet, Gets
  <1>5. SignedOut("idle") \in Stores /\ SignedOut("complete") \in Stores
    BY <1>1 DEF SignedOut, Stores
  <1> QED
    BY <1>1, <1>2, <1>3, <1>4, <1>5

(* A page that has just been loaded.                                         *)
LEMMA FreshOk ==
    /\ FreshPage \in Pages /\ PageOk(FreshPage)
    /\ FreshPage.auth.sid = NoSid /\ FreshPage.rf.pc = "idle" /\ FreshPage.op.pc = "idle"
    /\ \A k \in Owners : FreshPage.get[k].phase = "none"
  <1>1. FreshPage \in Pages
    BY EmptyTyped DEF FreshPage, Pages
  <1>2. /\ FreshPage.auth.sid = NoSid /\ FreshPage.rf.pc = "idle" /\ ~FreshPage.rf.current
        /\ FreshPage.op.pc = "idle" /\ FreshPage.op.kind = "none" /\ FreshPage.cache = {}
        /\ \A k \in Owners : FreshPage.get[k].phase = "none" /\ ~FreshPage.get[k].live
    BY DEF FreshPage, SignedOut, NoRefresh, NoOperation, NoGet
  <1>3. RefreshOk(FreshPage)
    BY <1>2 DEF RefreshOk, Brought
  <1>4. OperationOk(FreshPage)
    BY <1>2 DEF OperationOk, LoggedIn
  <1>5. QueriesOk(FreshPage)
    BY <1>2 DEF QueriesOk
  <1> QED
    BY <1>1, <1>2, <1>3, <1>4, <1>5 DEF PageOk

\* The requests and the operation of r are those of p; only their queries may be detached.
Requests(p, r) ==
    /\ r.op = p.op
    /\ CacheOk(p) => CacheOk(r)
    /\ \A k \in Owners : r.get[k].phase = p.get[k].phase /\ r.get[k].token = p.get[k].token

(* A change of the store detaches the queries of the session it leaves.      *)
LEMMA Stored ==
    ASSUME NEW p \in Pages, QueriesOk(p), NEW a \in Stores
    PROVE  /\ SetStore(p, a) \in Pages
           /\ SetStore(p, a).auth = a /\ SetStore(p, a).rf = p.rf
           /\ Requests(p, SetStore(p, a)) /\ QueriesOk(SetStore(p, a))
  <1>1. CASE a.sid = p.auth.sid
    <2>1. SetStore(p, a) = [p EXCEPT !.auth = a]
      BY <1>1 DEF SetStore
    <2> QED
      BY <1>1, <2>1 DEF Pages, Requests, QueriesOk, CacheOk
  <1>2. CASE a.sid # p.auth.sid
    <2> DEFINE g == [k \in Owners |-> [p.get[k] EXCEPT !.live = FALSE]]
    <2>1. SetStore(p, a) = [p EXCEPT !.auth = a, !.cache = {}, !.get = g]
      BY <1>2 DEF SetStore
    <2>2. p.get \in [Owners -> Gets]
      BY DEF Pages
    <2>3. /\ g \in [Owners -> Gets]
          /\ \A k \in Owners : /\ g[k].phase = p.get[k].phase /\ g[k].token = p.get[k].token
                               /\ ~g[k].live
      BY <2>2 DEF Gets
    <2> HIDE DEF g
    <2>4. /\ SetStore(p, a) \in Pages /\ SetStore(p, a).auth = a
          /\ SetStore(p, a).rf = p.rf /\ SetStore(p, a).op = p.op
          /\ SetStore(p, a).get = g /\ SetStore(p, a).cache = {}
      BY <2>1, <2>3 DEF Pages
    <2> QED
      BY <2>3, <2>4 DEF Requests, QueriesOk, CacheOk
  <1> QED
    BY <1>1, <1>2

\* The same refresh, superseded.
Superseded(f, g) ==
    ~g.current /\ g.pc = f.pc /\ g.jar = f.jar /\ g.expect = f.expect /\ g.ans = f.ans

\* Versions, as an opaque set.
TokenVersions == 0..MaxVer

(* Applying a bundle supersedes the refresh in flight.                       *)
LEMMA Applied ==
    ASSUME NEW p \in Pages, QueriesOk(p), NEW s \in Owners, NEW v \in TokenVersions
    PROVE  LET r == ApplyAuthBundle(p, s, v) IN
           /\ r \in Pages /\ r.auth.sid = s /\ r.auth.ver = v
           /\ Superseded(p.rf, r.rf)
           /\ Requests(p, r) /\ QueriesOk(r)
  <1> DEFINE a == [sid |-> s, ver |-> v, fresh |-> TRUE, boot |-> "complete"]
             q == SetStore(p, a)
             r == ApplyAuthBundle(p, s, v)
  <1>1. a \in Stores /\ a.sid = s /\ a.ver = v
    BY DEF Stores, TokenVersions
  <1>2. r = [q EXCEPT !.rf.current = FALSE]
    BY DEF ApplyAuthBundle, BumpEpoch
  <1> HIDE DEF a
  <1>3. q \in Pages /\ q.auth = a /\ q.rf = p.rf /\ Requests(p, q) /\ QueriesOk(q)
    BY <1>1, Stored
  <1> HIDE DEF q, r
  <1>4. /\ r \in Pages /\ r.auth = q.auth /\ r.rf = [q.rf EXCEPT !.current = FALSE]
        /\ r.op = q.op /\ r.get = q.get /\ r.cache = q.cache
    BY <1>2, <1>3 DEF Pages, Refreshes
  <1>5. Requests(p, r) /\ QueriesOk(r)
    BY <1>3, <1>4 DEF Requests, QueriesOk, CacheOk
  <1>6. Superseded(p.rf, r.rf)
    BY <1>3, <1>4 DEF Superseded, Pages, Refreshes
  <1> QED
    BY <1>1, <1>3, <1>4, <1>5, <1>6 DEF r

(* Signing out, likewise.                                                    *)
LEMMA Cleared ==
    ASSUME NEW p \in Pages, QueriesOk(p)
    PROVE  LET r == ClearAuthentication(p) IN
           /\ r \in Pages /\ r.auth.sid = NoSid
           /\ Superseded(p.rf, r.rf)
           /\ Requests(p, r) /\ QueriesOk(r)
  <1> DEFINE a == SignedOut("complete")
             q == SetStore(p, a)
             r == ClearAuthentication(p)
  <1>1. a \in Stores /\ a.sid = NoSid
    BY EmptyTyped DEF SignedOut
  <1>2. r = [q EXCEPT !.rf.current = FALSE]
    BY DEF ClearAuthentication, BumpEpoch
  <1> HIDE DEF a
  <1>3. q \in Pages /\ q.auth = a /\ q.rf = p.rf /\ Requests(p, q) /\ QueriesOk(q)
    BY <1>1, Stored
  <1> HIDE DEF q, r
  <1>4. /\ r \in Pages /\ r.auth = q.auth /\ r.rf = [q.rf EXCEPT !.current = FALSE]
        /\ r.op = q.op /\ r.get = q.get /\ r.cache = q.cache
    BY <1>2, <1>3 DEF Pages, Refreshes
  <1>5. Requests(p, r) /\ QueriesOk(r)
    BY <1>3, <1>4 DEF Requests, QueriesOk, CacheOk
  <1>6. Superseded(p.rf, r.rf)
    BY <1>3, <1>4 DEF Superseded, Pages, Refreshes
  <1> QED
    BY <1>1, <1>3, <1>4, <1>5, <1>6 DEF r

(* A refresh joins the one in flight or queues for the lock.                 *)
LEMMA Refreshing ==
    ASSUME NEW p \in Pages
    PROVE  LET r == RefreshAuthentication(p) IN
           /\ r \in Pages /\ r.auth = p.auth /\ r.op = p.op /\ r.get = p.get
           /\ r.cache = p.cache
           /\ r.rf = p.rf \/ r.rf.pc = "queued"
  <1> DEFINE f == [NoRefresh EXCEPT !.pc = "queued", !.current = TRUE, !.first = TRUE]
  <1>1. f \in Refreshes /\ f.pc = "queued"
    BY EmptyTyped DEF Refreshes
  <1>2. RefreshAuthentication(p) = IF p.rf.pc # "idle" THEN p ELSE [p EXCEPT !.rf = f]
    BY DEF RefreshAuthentication
  <1> HIDE DEF f
  <1> QED
    BY <1>1, <1>2 DEF Pages

\* Page r has sent an operation of this kind; otherwise it is p.
HasSent(p, kind, r) ==
    /\ r \in Pages /\ r.auth = p.auth /\ r.rf = p.rf /\ r.get = p.get /\ r.cache = p.cache
    /\ r.op.kind = kind /\ r.op.pc = "sent" /\ r.op.from = p.auth.sid

(* An operation is sent with the token and the cookie of the moment.         *)
LEMMA OperationSent ==
    ASSUME NEW p \in Pages, NEW kind \in {"login", "oauth", "logout", "rotate"}, NEW jar \in Cookies
    PROVE  /\ HasSent(p, kind, SendOperation(p, kind, FALSE, jar))
           /\ HasSent(p, kind, SendOperation(p, kind, TRUE, jar))
  <1> SUFFICES ASSUME NEW again \in BOOLEAN
               PROVE  HasSent(p, kind, SendOperation(p, kind, again, jar))
    BY Zenon
  <1> DEFINE o == [kind |-> kind, pc |-> "sent", again |-> again, from |-> p.auth.sid,
                   token |-> Token(p), jar |-> jar, ans |-> NoAnswer]
             r == SendOperation(p, kind, again, jar)
  <1>1. p.auth.sid \in Owners /\ Token(p) \in Tokens
    BY DEF Pages, Stores, Tokens, Token
  <1>2. o \in Operations /\ o.kind = kind /\ o.pc = "sent" /\ o.from = p.auth.sid
    BY <1>1, EmptyTyped DEF Operations
  <1>3. r = [p EXCEPT !.op = o]
    BY DEF SendOperation
  <1> HIDE DEF o, r
  <1>4. HasSent(p, kind, r)
    BY <1>2, <1>3 DEF Pages, HasSent
  <1> QED
    BY <1>4 DEF r

\* What becomes of a page when its refresh has settled: no refresh, the session it had or
\* none, and its requests, of which the ones that waited are sent with that session's token
\* or given up.
SettledFrom(p, out, r) ==
    /\ r.rf.pc = "idle"
    /\ r.auth.sid = NoSid \/ r.auth = p.auth
    /\ out = "authenticated" => r.auth = p.auth
    /\ CacheOk(p) => CacheOk(r)
    /\ r.op = p.op \/ r.op.pc # "answered"
    /\ \A k \in Owners :
         /\ r.get[k].phase # "none" => p.get[k].phase # "none"
         /\ r.get[k].phase = "sent" =>
               \/ p.get[k].phase = "sent" /\ r.get[k].token = p.get[k].token
               \/ out = "authenticated" /\ r.get[k].token.sid = p.auth.sid

(* The operation that waited for the refresh is sent or given up.            *)
LEMMA OperationGoesOn ==
    ASSUME NEW p \in Pages, QueriesOk(p), OperationOk(p), NEW out, NEW jar \in Cookies
    PROVE  LET r == ContinueOperation(p, out, jar) IN
           /\ r \in Pages /\ QueriesOk(r) /\ OperationOk(r)
           /\ r.auth = p.auth \/ (r.auth.sid = NoSid /\ out # "authenticated")
           /\ CacheOk(p) => CacheOk(r)
           /\ r.op = p.op \/ r.op.pc # "answered"
           /\ \A k \in Owners : /\ r.get[k].phase = p.get[k].phase
                                /\ r.get[k].token = p.get[k].token
                                /\ r.get[k].live => p.get[k].live
  <1> DEFINE r == ContinueOperation(p, out, jar)
             c == ClearAuthentication(p)
  <1>1. CASE r = p
    BY <1>1
  <1>2. ASSUME NEW kind \in {"logout", "rotate"}, r = SendOperation(p, kind, FALSE, jar)
        PROVE  /\ r \in Pages /\ QueriesOk(r) /\ OperationOk(r)
               /\ r.auth = p.auth /\ r.op.pc # "answered" /\ r.get = p.get
               /\ CacheOk(p) => CacheOk(r)
    <2>1. HasSent(p, kind, r)
      BY <1>2, OperationSent, Zenon
    <2> HIDE DEF r
    <2>2. /\ r \in Pages /\ r.auth = p.auth /\ r.get = p.get
          /\ r.cache = p.cache /\ r.op.kind = kind /\ r.op.pc = "sent"
      BY <2>1 DEF HasSent
    <2>3. OperationOk(r)
      BY <2>2 DEF OperationOk, LoggedIn
    <2> QED
      BY <2>2, <2>3 DEF QueriesOk, CacheOk
  <1>3. CASE out # "authenticated" /\ r = [c EXCEPT !.cache = {}, !.op = NoOperation]
    <2>1. c \in Pages /\ c.auth.sid = NoSid /\ Requests(p, c) /\ QueriesOk(c)
      BY Cleared
    <2>2. NoSid \notin Sids /\ NoOperation.kind = "none" /\ NoOperation.pc = "idle"
      BY WebSessionAssumption DEF NoOperation
    <2> HIDE DEF c
    <2>3. /\ r \in Pages /\ r.auth = c.auth /\ r.op = NoOperation /\ r.get = c.get
          /\ r.cache = {}
      BY <1>3, <2>1, EmptyTyped DEF Pages
    <2>4. OperationOk(r)
      BY <2>2, <2>3 DEF OperationOk, LoggedIn
    <2>5. \A k \in Owners : c.get[k].live => p.get[k].live
      BY DEF c, ClearAuthentication, BumpEpoch, SetStore, SignedOut, Pages, Gets
    <2>6. QueriesOk(r)
      BY <2>1, <2>3 DEF QueriesOk
    <2> QED
      BY <1>3, <2>1, <2>2, <2>3, <2>4, <2>5, <2>6 DEF Requests, CacheOk
  <1>4. CASE r = [p EXCEPT !.op = NoOperation]
    <2>1. NoOperation.kind = "none" /\ NoOperation.pc = "idle"
      BY DEF NoOperation
    <2>2. /\ r \in Pages /\ r.auth = p.auth /\ r.op = NoOperation /\ r.get = p.get
          /\ r.cache = p.cache
      BY <1>4, EmptyTyped DEF Pages
    <2>3. OperationOk(r)
      BY <2>1, <2>2 DEF OperationOk, LoggedIn
    <2> QED
      BY <2>1, <2>2, <2>3 DEF QueriesOk, CacheOk
  <1>5. \/ r = p
        \/ r = SendOperation(p, "logout", FALSE, jar)
        \/ r = SendOperation(p, "rotate", FALSE, jar)
        \/ out # "authenticated" /\ r = [c EXCEPT !.cache = {}, !.op = NoOperation]
        \/ r = [p EXCEPT !.op = NoOperation]
    BY DEF ContinueOperation, SendOperation
  <1> QED
    BY <1>1, <1>2, <1>3, <1>4, <1>5

(* The refresh settles and everything that awaits it continues.              *)
LEMMA SettledIs ==
    ASSUME NEW p \in Pages, QueriesOk(p), OperationOk(p), NEW out, NEW jar \in Cookies,
           NEW r \in Settled(p, out, jar)
    PROVE  r \in Pages /\ PageOk(r) /\ SettledFrom(p, out, r)
  <1> DEFINE q == [p EXCEPT !.rf = NoRefresh]
             o == ContinueOperation(q, out, jar)
             g == [k \in Owners |-> RetriedGet(q, o.get[k], out)]
  <1>1. (r = FreshPage /\ out # "authenticated") \/ r = [o EXCEPT !.get = g]
    BY DEF Settled
  <1>2. CASE r = FreshPage /\ out # "authenticated"
    BY <1>2, FreshOk DEF SettledFrom, CacheOk
  <1>3. CASE r = [o EXCEPT !.get = g]
    <2>1. /\ q \in Pages /\ q.auth = p.auth /\ q.op = p.op /\ q.get = p.get
          /\ q.cache = p.cache /\ q.rf = NoRefresh
      BY EmptyTyped DEF Pages
    <2>2. QueriesOk(q) /\ OperationOk(q)
      BY <2>1 DEF QueriesOk, OperationOk, LoggedIn
    <2>3. o.rf.pc = "idle" /\ ~o.rf.current
      <3>1. NoRefresh.pc = "idle" /\ ~NoRefresh.current
        BY DEF NoRefresh
      <3> DEFINE c == ClearAuthentication(q)
      <3>2. c \in Pages /\ Superseded(q.rf, c.rf)
        BY <2>1, <2>2, Cleared
      <3>3. \/ o = q
            \/ o = SendOperation(q, "logout", FALSE, jar)
            \/ o = SendOperation(q, "rotate", FALSE, jar)
            \/ o = [c EXCEPT !.cache = {}, !.op = NoOperation]
            \/ o = [q EXCEPT !.op = NoOperation]
        BY DEF ContinueOperation, SendOperation
      <3>4. ASSUME NEW kind \in {"logout", "rotate"}, o = SendOperation(q, kind, FALSE, jar)
            PROVE  o.rf = NoRefresh
        <4>1. HasSent(q, kind, o)
          BY <2>1, <3>4, OperationSent, Zenon
        <4> QED
          BY <2>1, <4>1 DEF HasSent
      <3> HIDE DEF q, c, o
      <3> QED
        BY <2>1, <3>1, <3>2, <3>3, <3>4 DEF Pages, Superseded
    <2> HIDE DEF q
    <2>4. /\ o \in Pages /\ QueriesOk(o) /\ OperationOk(o)
          /\ o.auth = q.auth \/ (o.auth.sid = NoSid /\ out # "authenticated")
          /\ CacheOk(q) => CacheOk(o)
          /\ o.op = q.op \/ o.op.pc # "answered"
          /\ \A k \in Owners : /\ o.get[k].phase = q.get[k].phase
                               /\ o.get[k].token = q.get[k].token
      BY <2>1, <2>2, OperationGoesOn
    <2> HIDE DEF o
    <2>5. Token(q) \in Tokens /\ Token(q).sid = p.auth.sid
      BY <2>1 DEF Token, Tokens, Pages, Stores
    <2>6. ASSUME NEW k \in Owners
          PROVE  /\ g[k] \in Gets
                 /\ g[k].live => o.get[k].live
                 /\ g[k].phase # "none" => o.get[k].phase # "none"
                 /\ g[k].phase = "sent" =>
                       \/ o.get[k].phase = "sent" /\ g[k].token = o.get[k].token
                       \/ out = "authenticated" /\ g[k].token.sid = p.auth.sid
      <3> DEFINE h == o.get[k]
                 n == [phase |-> "sent", retried |-> TRUE, live |-> h.live, token |-> Token(q)]
      <3>1. h \in Gets /\ NoGet \in Gets /\ NoGet.phase = "none" /\ ~NoGet.live
        BY <2>4, EmptyTyped DEF Pages, NoGet
      <3>2. g[k] = IF h.phase # "refreshing" THEN h
                   ELSE IF out = "authenticated" THEN n ELSE NoGet
        BY DEF RetriedGet
      <3>3. /\ n \in Gets /\ n.phase = "sent" /\ n.live = h.live
            /\ n.token.sid = p.auth.sid
        BY <2>5, <3>1 DEF Gets
      <3> HIDE DEF h, n, g
      <3> QED
        BY <3>1, <3>2, <3>3 DEF h
    <2> HIDE DEF g
    <2>7. g \in [Owners -> Gets]
      BY <2>6 DEF g
    <2>8. /\ r \in Pages /\ r.auth = o.auth /\ r.rf = o.rf /\ r.op = o.op /\ r.get = g
          /\ r.cache = o.cache
      BY <1>3, <2>4, <2>7 DEF Pages
    <2>9. RefreshOk(r)
      BY <2>3, <2>8 DEF RefreshOk, Brought
    <2>10. OperationOk(r)
      BY <2>4, <2>8 DEF OperationOk, LoggedIn
    <2>11. QueriesOk(r)
      BY <2>4, <2>6, <2>8 DEF QueriesOk
    <2>12. SettledFrom(p, out, r)
      BY <2>1, <2>3, <2>4, <2>6, <2>8 DEF SettledFrom, CacheOk
    <2> QED
      BY <2>8, <2>9, <2>10, <2>11, <2>12 DEF PageOk
  <1> QED
    BY <1>1, <1>2, <1>3

(***************************************************************************)
(* The actions of a page.  Most of them leave the session, the refresh at  *)
(* the server and the answered operation as they are, or give them up.     *)
(***************************************************************************)
\* q has the session of p or none, no newer refresh or answer than p, and of its queries
\* only the ones that p had or that it has just sent for its own session.
Keeps(p, q) ==
    /\ q.auth.sid = NoSid \/ (q.auth.sid = p.auth.sid /\ q.auth.ver = p.auth.ver)
    /\ q.rf.pc = "sent" => p.rf.pc = "sent" /\ q.rf.jar = p.rf.jar
    /\ Brought(q) => Brought(p) /\ q.rf.ans = p.rf.ans
    /\ Outstanding(q) => Outstanding(p)
    /\ q.op.pc = "answered" => q.op = p.op
    /\ \A k \in Owners :
         /\ q.get[k].phase # "none" => p.get[k].phase # "none" \/ k = p.auth.sid
         /\ q.get[k].phase = "sent" =>
               \/ p.get[k].phase = "sent" /\ q.get[k].token = p.get[k].token
               \/ q.get[k].token.sid = k

(* A step that keeps what the page has keeps the invariant.                  *)
LEMMA KeepingStep ==
    ASSUME Sound, NEW t \in Tabs, NEW q \in Pages, PageOk(q), Keeps(page[t], q),
           setup.locks /\ CacheOk(page[t]) => CacheOk(q), page' = [page EXCEPT ![t] = q], UNCHANGED <<srv, setup>>,
           cookie' \in {cookie, NoCookie},
           lock' = lock \/ (~Outstanding(q) /\ ReleaseLock(t)),
           events' \in EventQueues, faults' \in 0..setup.faults
    PROVE  SoundStep
  <1> DEFINE p == page[t]
  <1>1. /\ lock' \in Tabs \cup {NoTab}
        /\ lock' = lock \/ lock \in {NoTab, t}
        /\ setup.locks /\ Outstanding(q) => lock' = t
    BY DEF ReleaseLock, Sound, TypeOK, Locked, Keeps
  <1>2. AuthFrom(srv, p, q)
    BY PageHolds DEF AuthFrom, Keeps, Versions
  <1>3. RefreshFrom(cookie', p, q) /\ OperationFrom(p, q) /\ CookieFrom(cookie, cookie', p, q)
    BY DEF RefreshFrom, OperationFrom, CookieFrom, Keeps
  <1>4. \A k \in Owners : GetFrom(cookie', p, q, k)
    BY DEF GetFrom, Keeps
  <1>5. PageStep(t, q)
    BY <1>1, <1>2, <1>3, <1>4 DEF PageStep
  <1> QED
    BY <1>5, StepSound

(* The environment's failures stay within their bound.                       *)
LEMMA FaultTyped ==
    ASSUME Sound
    PROVE  faults \in 0..setup.faults /\ (Fault => faults' \in 0..setup.faults)
  <1>1. faults \in 0..setup.faults /\ setup.faults \in Nat
    BY WebSessionAssumption DEF Sound, TypeOK
  <1> QED
    BY <1>1 DEF Fault

(* Publishing, delivering and dropping events keeps their types.             *)
LEMMA EventsTyped ==
    ASSUME Sound, NEW t \in Tabs
    PROVE  /\ events \in EventQueues
           /\ [events EXCEPT ![t] = <<>>] \in EventQueues
           /\ events[t] # <<>> => [events EXCEPT ![t] = Tail(@)] \in EventQueues
           /\ \A s \in Owners, kind \in {"authenticated", "signed_out"} :
                 /\ Publish(t, kind, s) \in EventQueues
                 /\ [Publish(t, kind, s) EXCEPT ![t] = <<>>] \in EventQueues
  <1> DEFINE Ev == [kind : {"authenticated", "signed_out"}, sid : Sids]
  <1>1. events \in [Tabs -> Seq(Ev)]
    BY DEF Sound, TypeOK
  <1>2. <<>> \in Seq(Ev)
    OBVIOUS
  <1>3. events[t] # <<>> => Tail(events[t]) \in Seq(Ev)
    <2> HIDE DEF Ev
    <2>1. events[t] \in Seq(Ev)
      BY <1>1
    <2> QED
      BY <2>1
  <1>4. ASSUME NEW s \in Owners, NEW kind \in {"authenticated", "signed_out"}, NEW u \in Tabs
        PROVE  (IF u = t \/ s = NoSid THEN events[u]
                ELSE Append(events[u], [kind |-> kind, sid |-> s])) \in Seq(Ev)
    <2>1. s # NoSid => [kind |-> kind, sid |-> s] \in Ev
      BY DEF Owners
    <2>2. events[u] \in Seq(Ev)
      BY <1>1
    <2> HIDE DEF Ev
    <2> QED
      BY <2>1, <2>2
  <1> HIDE DEF Ev
  <1>5. ASSUME NEW s \in Owners, NEW kind \in {"authenticated", "signed_out"}
        PROVE  Publish(t, kind, s) \in [Tabs -> Seq(Ev)]
    BY <1>4 DEF Publish
  <1>6. \A e \in [Tabs -> Seq(Ev)] : [e EXCEPT ![t] = <<>>] \in [Tabs -> Seq(Ev)]
    BY <1>2
  <1>7. events[t] # <<>> => [events EXCEPT ![t] = Tail(@)] \in [Tabs -> Seq(Ev)]
    BY <1>1, <1>3
  <1>8. EventQueues = [Tabs -> Seq(Ev)]
    BY DEF EventQueues, Ev
  <1> QED
    BY <1>1, <1>5, <1>6, <1>7, <1>8

(* A route guard may start a refresh.                                        *)
LEMMA ResolveAuthenticationSound ==
    ASSUME Sound, NEW t \in Tabs, ResolveAuthentication(t), UNCHANGED setup
    PROVE  SoundStep
  <1> DEFINE p == page[t]
             b == [p EXCEPT !.auth.boot = "complete"]
             c == [p EXCEPT !.auth.boot = "checking"]
             q == IF HasValidBundle(p) THEN b ELSE RefreshAuthentication(c)
  <1>1. p \in Pages /\ PageOk(p)
    BY PageHolds
  <1>2. \A x \in {b, c} : /\ x \in Pages /\ x.rf = p.rf /\ x.op = p.op /\ x.get = p.get
                          /\ x.cache = p.cache
                          /\ x.auth.sid = p.auth.sid /\ x.auth.ver = p.auth.ver
    BY <1>1 DEF Pages, Stores
  <1> HIDE DEF b, c
  <1>3. /\ q \in Pages /\ q.op = p.op /\ q.get = p.get /\ q.cache = p.cache
        /\ q.auth.sid = p.auth.sid /\ q.auth.ver = p.auth.ver
        /\ q.rf = p.rf \/ q.rf.pc = "queued"
    BY <1>2, Refreshing
  <1>4. page' = [page EXCEPT ![t] = q]
    BY DEF ResolveAuthentication, b, c
  <1> HIDE DEF q
  <1>5. PageOk(q)
    BY <1>1, <1>3 DEF PageOk, RefreshOk, OperationOk, QueriesOk, Brought, LoggedIn
  <1>6. Keeps(p, q)
    BY <1>3 DEF Keeps, Brought, Outstanding
  <1>7. CacheOk(p) => CacheOk(q)
    BY <1>3 DEF CacheOk
  <1> QED
    BY <1>3, <1>4, <1>5, <1>6, <1>7, KeepingStep, FaultTyped, EventsTyped DEF ResolveAuthentication

\* A page the refresh of p settles on, without a new session.
LeavesSession(p, q) ==
    /\ q \in Pages /\ QueriesOk(q) /\ Requests(p, q)
    /\ q.auth.sid = NoSid \/ (q.auth.sid = p.auth.sid /\ q.auth.ver = p.auth.ver)

(* Settling without a new session.                                           *)
LEMMA SettledKeeps ==
    ASSUME NEW p \in Pages, PageOk(p), NEW q, LeavesSession(p, q), NEW out,
           out # "authenticated", NEW jar \in Cookies, NEW r \in Settled(q, out, jar)
    PROVE  /\ r \in Pages /\ PageOk(r) /\ Keeps(p, r) /\ ~Outstanding(r)
           /\ CacheOk(p) => CacheOk(r)
  <1>1. q \in Pages /\ QueriesOk(q) /\ OperationOk(q)
    BY DEF LeavesSession, Requests, PageOk, OperationOk, LoggedIn
  <1>2. r \in Pages /\ PageOk(r) /\ SettledFrom(q, out, r)
    BY <1>1, SettledIs
  <1>3. Keeps(p, r)
    BY <1>2 DEF SettledFrom, LeavesSession, Requests, Keeps, Brought, Outstanding
  <1> QED
    BY <1>2, <1>3 DEF SettledFrom, Outstanding, LeavesSession, Requests

(* The lock is granted: the refresh is sent with the cookie of the moment,   *)
(* or was superseded and settles.                                            *)
LEMMA RunRefreshSound ==
    ASSUME Sound, NEW t \in Tabs, RunRefresh(t), UNCHANGED setup
    PROVE  SoundStep
  <1> DEFINE p == page[t]
  <1>1. p \in Pages /\ PageOk(p) /\ cookie \in Cookies
    BY PageHolds DEF Sound, TypeOK
  <1>2. p.rf.pc = "queued" /\ LockFree /\ UNCHANGED <<srv, cookie, events, faults>>
    BY DEF RunRefresh
  <1>3. CASE p.rf.current
    <2> DEFINE f == [p.rf EXCEPT !.pc = "sent", !.jar = cookie, !.expect = p.auth.sid]
               q == [p EXCEPT !.rf = f]
    <2>1. page' = [page EXCEPT ![t] = q] /\ lock' = IF setup.locks THEN t ELSE lock
      <3>1. page' = [page EXCEPT ![t].rf.pc = "sent", ![t].rf.jar = cookie,
                                 ![t].rf.expect = p.auth.sid]
        BY <1>3 DEF RunRefresh
      <3>2. page \in [Tabs -> Pages]
        BY DEF Sound, TypeOK
      <3> QED
        BY <1>3, <3>1, <3>2 DEF RunRefresh, Pages, Refreshes
    <2>2. f \in Refreshes /\ f.pc = "sent" /\ f.jar = cookie /\ f.expect = p.auth.sid
      BY <1>1 DEF Pages, Refreshes, Stores
    <2> HIDE DEF f
    <2>3. /\ q \in Pages /\ q.rf = f /\ q.auth = p.auth /\ q.op = p.op /\ q.get = p.get
          /\ q.cache = p.cache
      BY <1>1, <2>2 DEF Pages
    <2> HIDE DEF q
    <2>4. PageOk(q)
      BY <1>1, <2>2, <2>3 DEF PageOk, RefreshOk, OperationOk, QueriesOk, Brought, LoggedIn
    <2>5. /\ lock' \in Tabs \cup {NoTab}
          /\ lock' = lock \/ lock \in {NoTab, t}
          /\ setup.locks => lock' = t
      BY <1>2, <2>1 DEF LockFree, Sound, TypeOK
    <2>6. AuthFrom(srv, p, q)
      BY <2>3, PageHolds DEF AuthFrom, Versions
    <2>7. /\ RefreshFrom(cookie', p, q) /\ OperationFrom(p, q)
          /\ CookieFrom(cookie, cookie', p, q)
      BY <1>2, <2>2, <2>3 DEF RefreshFrom, OperationFrom, CookieFrom, Brought
    <2>8. \A k \in Owners : GetFrom(cookie', p, q, k)
      BY <2>3 DEF GetFrom
    <2>9. PageStep(t, q)
      BY <1>2, <2>1, <2>3, <2>4, <2>5, <2>6, <2>7, <2>8, EventsTyped, FaultTyped
         DEF PageStep, CacheOk
    <2> QED
      BY <2>9, StepSound
  <1>4. CASE ~p.rf.current
    <2>1. PICK r \in Settled(p, "transient", cookie) :
              page' = [page EXCEPT ![t] = r] /\ lock' = lock
      BY <1>4 DEF RunRefresh
    <2>2. LeavesSession(p, p)
      BY <1>1 DEF LeavesSession, Requests, PageOk
    <2>3. r \in Pages /\ PageOk(r) /\ Keeps(p, r) /\ (CacheOk(p) => CacheOk(r))
      BY <1>1, <2>2, SettledKeeps
    <2> QED
      BY <1>2, <2>1, <2>3, KeepingStep, EventsTyped, FaultTyped
  <1> QED
    BY <1>3, <1>4

(* The request or its answer is lost: an error is the answer.                *)
LEMMA RefreshFailsSound ==
    ASSUME Sound, NEW t \in Tabs, RefreshFails(t), UNCHANGED setup
    PROVE  SoundStep
  <1> DEFINE p == page[t]
             f == [p.rf EXCEPT !.pc = "answered", !.ans = Failed, !.jar = NoCookie,
                               !.expect = NoSid]
             q == [p EXCEPT !.rf = f]
  <1>1. p \in Pages /\ PageOk(p)
    BY PageHolds
  <1>2. page' = [page EXCEPT ![t] = q] /\ Outstanding(p)
    BY DEF RefreshFails, Outstanding, Sound, TypeOK, Pages
  <1>3. f \in Refreshes /\ f.pc = "answered" /\ f.expect = NoSid /\ f.ans = Failed
    BY <1>1, EmptyTyped DEF Pages, Refreshes
  <1>4. Failed.kind = "error" /\ ~Failed.set
    BY DEF Failed, NoAnswer
  <1> HIDE DEF f
  <1>5. /\ q \in Pages /\ q.rf = f /\ q.auth = p.auth /\ q.op = p.op /\ q.get = p.get
        /\ q.cache = p.cache
    BY <1>1, <1>3 DEF Pages
  <1> HIDE DEF q
  <1>6. PageOk(q)
    BY <1>1, <1>3, <1>4, <1>5
       DEF PageOk, RefreshOk, OperationOk, QueriesOk, Brought, LoggedIn, AnswerOk
  <1>7. Keeps(p, q)
    BY <1>2, <1>3, <1>4, <1>5 DEF Keeps, Brought, Outstanding
  <1>8. CacheOk(p) => CacheOk(q)
    BY <1>5 DEF CacheOk
  <1> QED
    BY <1>2, <1>5, <1>6, <1>7, <1>8, KeepingStep, EventsTyped, FaultTyped DEF RefreshFails

\* The refresh of t settles with outcome out on page q.
RefreshEnds(t, q, out, ev) ==
    LET ans == page[t].rf.ans
    IN \E r \in Settled(q, out, IF ans.set THEN ans.jar ELSE cookie) :
          /\ page' = [page EXCEPT ![t] = r]
          /\ events' = IF r = FreshPage THEN [ev EXCEPT ![t] = <<>>] ELSE ev
          /\ ReleaseLock(t)

(* The cookie a request is sent with after an answer.                        *)
LEMMA JarTyped ==
    ASSUME Sound, NEW t \in Tabs
    PROVE  /\ (IF page[t].rf.ans.set THEN page[t].rf.ans.jar ELSE cookie) \in Cookies
           /\ cookie \in Cookies
  BY PageHolds DEF Sound, TypeOK, Pages, Refreshes, Answers

(* A refresh that ends without a session keeps what the page has.            *)
LEMMA EndsWithoutSession ==
    ASSUME Sound, NEW t \in Tabs, NEW q, LeavesSession(page[t], q),
           NEW out, out # "authenticated", NEW ev, RefreshEnds(t, q, out, ev),
           ev \in EventQueues, [ev EXCEPT ![t] = <<>>] \in EventQueues,
           page[t].rf.pc = "answered", StoreCookie(page[t].rf.ans),
           UNCHANGED <<srv, faults, setup>>
    PROVE  SoundStep
  <1> DEFINE p == page[t]
             jar == IF p.rf.ans.set THEN p.rf.ans.jar ELSE cookie
  <1>1. p \in Pages /\ PageOk(p) /\ jar \in Cookies
    BY PageHolds, JarTyped
  <1>2. PICK r \in Settled(q, out, jar) :
            /\ page' = [page EXCEPT ![t] = r]
            /\ events' = IF r = FreshPage THEN [ev EXCEPT ![t] = <<>>] ELSE ev
            /\ ReleaseLock(t)
    BY DEF RefreshEnds
  <1> HIDE DEF jar
  <1>3. /\ r \in Pages /\ PageOk(r) /\ Keeps(p, r) /\ ~Outstanding(r)
        /\ CacheOk(p) => CacheOk(r)
    BY <1>1, SettledKeeps
  <1>4. events' \in EventQueues /\ faults' \in 0..setup.faults
    BY <1>2, FaultTyped
  <1>5. CASE cookie' \in {cookie, NoCookie}
    BY <1>2, <1>3, <1>4, <1>5, KeepingStep
  <1>6. CASE cookie' \notin {cookie, NoCookie}
    <2>1. Brought(p) /\ cookie' = p.rf.ans.jar
      BY <1>1, <1>6 DEF StoreCookie, PageOk, RefreshOk, AnswerOk, Brought
    <2>2. /\ lock' \in Tabs \cup {NoTab}
          /\ lock' = lock \/ lock \in {NoTab, t}
      BY <1>2 DEF ReleaseLock, Sound, TypeOK
    <2>3. AuthFrom(srv, p, r)
      BY <1>3, PageHolds DEF AuthFrom, Keeps, Versions
    <2>4. /\ RefreshFrom(cookie', p, r) /\ OperationFrom(p, r)
          /\ CookieFrom(cookie, cookie', p, r)
      BY <1>3, <2>1 DEF RefreshFrom, OperationFrom, CookieFrom, Keeps
    <2>5. \A k \in Owners : GetFrom(cookie', p, r, k)
      BY <1>3 DEF GetFrom, Keeps
    <2>6. PageStep(t, r)
      BY <1>2, <1>3, <1>4, <2>2, <2>3, <2>4, <2>5 DEF PageStep
    <2> QED
      BY <2>6, StepSound
  <1> QED
    BY <1>5, <1>6

(* A current refresh brings a session.                                       *)
LEMMA EndsWithSession ==
    ASSUME Sound, NEW t \in Tabs, page[t].rf.current, Brought(page[t]),
           RefreshEnds(t, ApplyAuthBundle(page[t], page[t].rf.ans.sid, page[t].rf.ans.ver),
                       "authenticated", events),
           StoreCookie(page[t].rf.ans), UNCHANGED <<srv, faults, setup>>
    PROVE  SoundStep
  <1> DEFINE p == page[t]
             ans == p.rf.ans
             jar == IF ans.set THEN ans.jar ELSE cookie
             q == ApplyAuthBundle(p, ans.sid, ans.ver)
  <1>1. p \in Pages /\ PageOk(p) /\ jar \in Cookies
    BY PageHolds, JarTyped
  <1>2. /\ ans.sid \in Sids /\ ans.sid \in Owners /\ ans.sid # NoSid 
        /\ ans.ver \in TokenVersions
        /\ ans.jar.sid = ans.sid /\ ans.set
    BY <1>1, PageHolds, WebSessionAssumption
       DEF Pages, Refreshes, Answers, Owners, PageOk, RefreshOk, AnswerOk, Brought,
           TokenVersions
  <1>3. PICK r \in Settled(q, "authenticated", jar) :
            /\ page' = [page EXCEPT ![t] = r]
            /\ events' = IF r = FreshPage THEN [events EXCEPT ![t] = <<>>] ELSE events
            /\ ReleaseLock(t)
    BY DEF RefreshEnds
  <1>4. /\ q \in Pages /\ q.auth.sid = ans.sid /\ q.auth.ver = ans.ver
        /\ Requests(p, q) /\ QueriesOk(q)
    <2>1. QueriesOk(p)
      BY <1>1 DEF PageOk
    <2> HIDE DEF ans
    <2> QED
      BY <1>1, <1>2, <2>1, Applied
  <1> HIDE DEF q, jar
  <1>5. OperationOk(q)
    BY <1>1, <1>4 DEF Requests, PageOk, OperationOk, LoggedIn
  <1>6. r \in Pages /\ PageOk(r) /\ SettledFrom(q, "authenticated", r)
    BY <1>1, <1>4, <1>5, SettledIs
  <1>7. events' \in EventQueues /\ faults' \in 0..setup.faults
    BY <1>3, EventsTyped, FaultTyped
  <1>8. /\ lock' \in Tabs \cup {NoTab}
        /\ lock' = lock \/ lock \in {NoTab, t}
    BY <1>3 DEF ReleaseLock, Sound, TypeOK
  <1>9. r.auth.sid = ans.sid /\ r.auth.ver = ans.ver /\ ~Outstanding(r) /\ ~Brought(r)
    BY <1>4, <1>6 DEF SettledFrom, Outstanding, Brought
  <1>10. AuthFrom(srv, p, r)
    BY <1>9 DEF AuthFrom
  <1>11. cookie' = ans.jar /\ cookie'.sid = ans.sid
    BY <1>2 DEF StoreCookie
  <1>12. /\ RefreshFrom(cookie', p, r) /\ OperationFrom(p, r)
         /\ CookieFrom(cookie, cookie', p, r)
    BY <1>4, <1>6, <1>9, <1>11
       DEF RefreshFrom, OperationFrom, CookieFrom, SettledFrom, Requests, Outstanding
  <1>13. \A k \in Owners : GetFrom(cookie', p, r, k)
    BY <1>4, <1>6, <1>9, <1>11 DEF GetFrom, SettledFrom, Requests, Brought
  <1>14. CacheOk(p) => CacheOk(r)
    BY <1>4, <1>6 DEF SettledFrom, Requests
  <1>15. PageStep(t, r)
    BY <1>3, <1>6, <1>7, <1>8, <1>9, <1>10, <1>12, <1>13, <1>14 DEF PageStep
  <1> QED
    BY <1>15, StepSound

(* The first refresh that finds another session's cookie resets the page and *)
(* is sent again without a session.                                          *)
LEMMA RefreshAgain ==
    ASSUME Sound, NEW t \in Tabs, page[t].rf.pc = "answered",
           page[t].rf.ans.kind = "mismatch",
           page' = [page EXCEPT ![t] = [SetStore(page[t], SignedOut("idle")) EXCEPT
                       !.rf = [page[t].rf EXCEPT !.pc = "sent", !.first = FALSE,
                                 !.jar = cookie, !.ans = NoAnswer]]],
           StoreCookie(page[t].rf.ans), UNCHANGED <<srv, lock, events, faults, setup>>
    PROVE  SoundStep
  <1> DEFINE p == page[t]
             a == SignedOut("idle")
             c == SetStore(p, a)
             f == [p.rf EXCEPT !.pc = "sent", !.first = FALSE, !.jar = cookie, !.ans = NoAnswer]
             q == [c EXCEPT !.rf = f]
  <1>1. p \in Pages /\ PageOk(p) /\ cookie \in Cookies
    BY PageHolds DEF Sound, TypeOK
  <1>2. cookie' = cookie
    BY <1>1 DEF StoreCookie, PageOk, RefreshOk, AnswerOk
  <1>3. a \in Stores /\ a.sid = NoSid
    BY EmptyTyped DEF SignedOut
  <1> HIDE DEF a
  <1>4. c \in Pages /\ c.auth = a /\ Requests(p, c) /\ QueriesOk(c)
    BY <1>1, <1>3, Stored DEF PageOk
  <1>5. f \in Refreshes /\ f.pc = "sent" /\ f.jar = cookie /\ f.expect = NoSid
    BY <1>1, EmptyTyped DEF Pages, Refreshes, PageOk, RefreshOk
  <1> HIDE DEF c, f
  <1>6. /\ q \in Pages /\ q.rf = f /\ q.auth = a /\ q.op = c.op /\ q.get = c.get
        /\ q.cache = c.cache /\ page' = [page EXCEPT ![t] = q]
    BY <1>4, <1>5 DEF Pages, c, f, a
  <1> HIDE DEF q
  <1>7. PageOk(q)
    <2>1. RefreshOk(q)
      BY <1>3, <1>5, <1>6 DEF RefreshOk, Brought
    <2>2. OperationOk(q)
      BY <1>1, <1>4, <1>6 DEF OperationOk, LoggedIn, Requests, PageOk
    <2>3. QueriesOk(q)
      BY <1>4, <1>6 DEF QueriesOk
    <2> QED
      BY <2>1, <2>2, <2>3 DEF PageOk
  <1>8. AuthFrom(srv, p, q)
    BY <1>3, <1>6 DEF AuthFrom
  <1>9. /\ RefreshFrom(cookie', p, q) /\ OperationFrom(p, q)
        /\ CookieFrom(cookie, cookie', p, q)
    BY <1>2, <1>4, <1>5, <1>6
       DEF RefreshFrom, OperationFrom, CookieFrom, Requests, Brought
  <1>10. \A k \in Owners : GetFrom(cookie', p, q, k)
    BY <1>4, <1>6 DEF GetFrom, Requests
  <1>11. /\ lock' \in Tabs \cup {NoTab} /\ lock' = lock
         /\ setup.locks => lock' = t
    BY DEF Sound, TypeOK, Locked, Outstanding
  <1>12. PageStep(t, q)
    BY <1>3, <1>6, <1>7, <1>8, <1>9, <1>10, <1>11, EventsTyped, FaultTyped
       DEF PageStep, CacheOk
  <1> QED
    BY <1>12, StepSound

(* The refresh runner goes on with the answer.                               *)
LEMMA RefreshContinuesSound ==
    ASSUME Sound, NEW t \in Tabs, RefreshContinues(t), UNCHANGED setup
    PROVE  SoundStep
  <1> DEFINE p == page[t]
             c == ClearAuthentication(p)
             b == [p EXCEPT !.auth.boot = "idle"]
             ev == Publish(t, "signed_out", p.auth.sid)
  <1>1. p \in Pages /\ PageOk(p) /\ p.auth.sid \in Owners
    BY PageHolds DEF Pages, Stores
  <1>2. p.rf.pc = "answered" /\ StoreCookie(p.rf.ans) /\ UNCHANGED <<srv, faults>>
    BY DEF RefreshContinues
  <1>3. LeavesSession(p, p)
    BY <1>1 DEF LeavesSession, Requests, PageOk
  <1>4. LeavesSession(p, c)
    BY <1>1, Cleared DEF LeavesSession, PageOk
  <1>5. LeavesSession(p, b)
    <2>1. /\ b \in Pages /\ b.rf = p.rf /\ b.op = p.op /\ b.get = p.get /\ b.cache = p.cache
          /\ b.auth.sid = p.auth.sid /\ b.auth.ver = p.auth.ver
      BY <1>1 DEF Pages, Stores
    <2> QED
      BY <1>1, <2>1 DEF LeavesSession, Requests, PageOk, QueriesOk, CacheOk
  <1>6. /\ events \in EventQueues /\ [events EXCEPT ![t] = <<>>] \in EventQueues
        /\ ev \in EventQueues /\ [ev EXCEPT ![t] = <<>>] \in EventQueues
    BY <1>1, EventsTyped
  <1>7. \/ RefreshEnds(t, p, "transient", events)
        \/ /\ p.rf.current /\ p.rf.ans.kind = "bundle"
           /\ RefreshEnds(t, ApplyAuthBundle(p, p.rf.ans.sid, p.rf.ans.ver), "authenticated",
                          events)
        \/ /\ p.rf.ans.kind = "mismatch"
           /\ page' = [page EXCEPT ![t] = [SetStore(p, SignedOut("idle")) EXCEPT
                          !.rf = [p.rf EXCEPT !.pc = "sent", !.first = FALSE,
                                    !.jar = cookie, !.ans = NoAnswer]]]
           /\ UNCHANGED <<lock, events>>
        \/ RefreshEnds(t, c, "out_of_sync", events)
        \/ RefreshEnds(t, c, "anonymous", ev)
        \/ RefreshEnds(t, b, "transient", events)
    BY DEF RefreshContinues, RefreshEnds
  <1> HIDE DEF c, b, ev
  <1>8. CASE \/ RefreshEnds(t, p, "transient", events) \/ RefreshEnds(t, b, "transient", events)
             \/ RefreshEnds(t, c, "out_of_sync", events) \/ RefreshEnds(t, c, "anonymous", ev)
    BY <1>2, <1>3, <1>4, <1>5, <1>6, <1>8, EndsWithoutSession
  <1>9. CASE /\ p.rf.current /\ p.rf.ans.kind = "bundle"
             /\ RefreshEnds(t, ApplyAuthBundle(p, p.rf.ans.sid, p.rf.ans.ver),
                            "authenticated", events)
    BY <1>2, <1>9, EndsWithSession DEF Brought
  <1> QED
    BY <1>2, <1>7, <1>8, <1>9, RefreshAgain

(* An operation starts, waits for a refresh or is given up.                  *)
LEMMA OperationMoves ==
    ASSUME Sound, NEW t \in Tabs, NEW q \in Pages, q.auth = page[t].auth,
           q.get = page[t].get, q.cache = page[t].cache,
           q.rf = page[t].rf \/ q.rf.pc = "queued",
           q.op.pc \notin {"answered", "advancing"},
           q.op.kind = "login" => q.op.from = NoSid,
           page' = [page EXCEPT ![t] = q], UNCHANGED <<srv, lock, events, setup>>,
           cookie' \in {cookie, NoCookie}, faults' \in 0..setup.faults
    PROVE  SoundStep
  <1> DEFINE p == page[t]
  <1>1. p \in Pages /\ PageOk(p)
    BY PageHolds
  <1>2. PageOk(q)
    BY <1>1 DEF PageOk, RefreshOk, OperationOk, QueriesOk, Brought, LoggedIn
  <1>3. Keeps(p, q)
    BY DEF Keeps, Brought, Outstanding
  <1>4. CacheOk(p) => CacheOk(q)
    BY DEF CacheOk
  <1> QED
    BY <1>2, <1>3, <1>4, KeepingStep, EventsTyped

(* The sign-in form is submitted.                                            *)
LEMMA LoginSound ==
    ASSUME Sound, NEW t \in Tabs, Login(t), UNCHANGED setup
    PROVE  SoundStep
  <1> DEFINE q == SendOperation(page[t], "login", FALSE, cookie)
  <1>1. page[t] \in Pages /\ cookie \in Cookies
    BY PageHolds, JarTyped
  <1>2. HasSent(page[t], "login", q)
    BY <1>1, OperationSent, Zenon
  <1>3. page' = [page EXCEPT ![t] = q] /\ page[t].auth.sid = NoSid
    BY Zenon DEF Login
  <1> HIDE DEF q
  <1> QED
    BY <1>2, <1>3, OperationMoves, FaultTyped, ZenonT(60) DEF Login, HasSent

(* The callback page of an OAuth provider sends its login.                   *)
LEMMA OAuthCallbackSound ==
    ASSUME Sound, NEW t \in Tabs, OAuthCallback(t), UNCHANGED setup
    PROVE  SoundStep
  <1> DEFINE q == SendOperation(page[t], "oauth", FALSE, cookie)
  <1>1. page[t] \in Pages /\ cookie \in Cookies
    BY PageHolds, JarTyped
  <1>2. HasSent(page[t], "oauth", q)
    BY <1>1, OperationSent, Zenon
  <1>3. page' = [page EXCEPT ![t] = q]
    BY Zenon DEF OAuthCallback
  <1> HIDE DEF q
  <1>4. q.op.kind # "login" /\ q.op.pc \notin {"answered", "advancing"}
    BY <1>2 DEF HasSent
  <1> QED
    BY <1>2, <1>3, <1>4, OperationMoves, FaultTyped, ZenonT(60) DEF OAuthCallback, HasSent

(* The sign-out dialog is confirmed.                                         *)
LEMMA LogoutSound ==
    ASSUME Sound, NEW t \in Tabs, Logout(t), UNCHANGED setup
    PROVE  SoundStep
  <1> DEFINE q == SendOperation(page[t], "logout", TRUE, cookie)
  <1>1. page[t] \in Pages /\ cookie \in Cookies
    BY PageHolds, JarTyped
  <1>2. HasSent(page[t], "logout", q)
    BY <1>1, OperationSent, Zenon
  <1>3. page' = [page EXCEPT ![t] = q]
    BY Zenon DEF Logout
  <1> HIDE DEF q
  <1> QED
    BY <1>2, <1>3, OperationMoves, FaultTyped DEF Logout, HasSent

(* A security change is sent, or waits for a fresh token.                    *)
LEMMA RotateSound ==
    ASSUME Sound, NEW t \in Tabs, Rotate(t), UNCHANGED setup
    PROVE  SoundStep
  <1> DEFINE p == page[t]
             o == [NoOperation EXCEPT !.kind = "rotate", !.pc = "refreshing"]
             w == [p EXCEPT !.op = o]
             q == SendOperation(p, "rotate", FALSE, cookie)
             r == RefreshAuthentication(w)
  <1>1. p \in Pages /\ cookie \in Cookies
    BY PageHolds, JarTyped
  <1>2. UNCHANGED <<srv, cookie, lock, events, faults>>
    BY DEF Rotate
  <1>3. CASE p.auth.fresh
    <2>1. HasSent(p, "rotate", q)
      BY <1>1, OperationSent, Zenon
    <2>2. page' = [page EXCEPT ![t] = q]
      BY <1>3, Zenon DEF Rotate
    <2> HIDE DEF q
    <2> QED
      BY <1>2, <2>1, <2>2, OperationMoves, FaultTyped DEF HasSent
  <1>4. CASE ~p.auth.fresh
    <2>1. o \in Operations /\ o.kind = "rotate" /\ o.pc = "refreshing"
      BY EmptyTyped DEF Operations
    <2>2. page' = [page EXCEPT ![t] = r]
      BY <1>4 DEF Rotate
    <2> HIDE DEF o
    <2>3. /\ w \in Pages /\ w.auth = p.auth /\ w.rf = p.rf /\ w.op = o /\ w.get = p.get
          /\ w.cache = p.cache
      BY <1>1, <2>1 DEF Pages
    <2> HIDE DEF w
    <2>4. /\ r \in Pages /\ r.auth = w.auth /\ r.op = w.op /\ r.get = w.get
          /\ r.cache = w.cache /\ (r.rf = w.rf \/ r.rf.pc = "queued")
      BY <2>3, Refreshing
    <2> HIDE DEF r
    <2> QED
      BY <1>2, <2>1, <2>2, <2>3, <2>4, OperationMoves, FaultTyped
  <1> QED
    BY <1>3, <1>4

(* A request of the user is refused or lost.                                 *)
LEMMA OperationFailsSound ==
    ASSUME Sound, NEW t \in Tabs, OperationFails(t), UNCHANGED setup
    PROVE  SoundStep
  <1> DEFINE p == page[t]
             q == [p EXCEPT !.op = NoOperation]
  <1>1. p \in Pages
    BY PageHolds
  <1>2. page' = [page EXCEPT ![t] = q]
    BY DEF OperationFails, Sound, TypeOK, Pages
  <1>3. NoOperation.kind = "none" /\ NoOperation.pc = "idle"
    BY DEF NoOperation
  <1>4. /\ q \in Pages /\ q.auth = p.auth /\ q.rf = p.rf /\ q.op = NoOperation
        /\ q.get = p.get /\ q.cache = p.cache
    BY <1>1, EmptyTyped DEF Pages
  <1> HIDE DEF q
  <1> QED
    BY <1>2, <1>3, <1>4, OperationMoves, FaultTyped DEF OperationFails

(* The answer of an operation is dealt with on page c.                       *)
LEMMA OperationEnds ==
    ASSUME Sound, NEW t \in Tabs, NEW c \in Pages, QueriesOk(c), Requests(page[t], c),
           (c.rf = page[t].rf /\ c.auth = page[t].auth) \/ Superseded(page[t].rf, c.rf),
           page' = [page EXCEPT ![t] = [c EXCEPT !.op = NoOperation]],
           AuthFrom(srv, page[t], [c EXCEPT !.op = NoOperation]),
           CookieFrom(cookie, cookie', page[t], [c EXCEPT !.op = NoOperation]),
           UNCHANGED <<srv, lock, faults, setup>>, events' \in EventQueues
    PROVE  SoundStep
  <1> DEFINE p == page[t]
             q == [c EXCEPT !.op = NoOperation]
  <1>1. p \in Pages /\ PageOk(p)
    BY PageHolds
  <1>2. NoOperation.kind = "none" /\ NoOperation.pc = "idle"
    BY DEF NoOperation
  <1>3. /\ q \in Pages /\ q.auth = c.auth /\ q.rf = c.rf /\ q.op = NoOperation
        /\ q.get = c.get /\ q.cache = c.cache
    BY EmptyTyped DEF Pages
  <1> HIDE DEF q
  <1>4. RefreshOk(q)
    BY <1>1, <1>3 DEF PageOk, RefreshOk, Superseded, Brought
  <1>5. OperationOk(q)
    BY <1>2, <1>3 DEF OperationOk, LoggedIn
  <1>6. QueriesOk(q)
    BY <1>3 DEF QueriesOk
  <1>7. /\ RefreshFrom(cookie', p, q) /\ OperationFrom(p, q)
    BY <1>2, <1>3 DEF RefreshFrom, OperationFrom, Superseded, Brought
  <1>8. \A k \in Owners : GetFrom(cookie', p, q, k)
    BY <1>3 DEF GetFrom, Requests
  <1>9. /\ lock' \in Tabs \cup {NoTab} /\ lock' = lock
        /\ setup.locks /\ Outstanding(q) => lock' = t
    BY <1>3 DEF Sound, TypeOK, Locked, Outstanding, Superseded
  <1>10. faults' \in 0..setup.faults
    BY FaultTyped
  <1>11. CacheOk(p) => CacheOk(q)
    BY <1>3 DEF Requests, CacheOk
  <1>12. PageStep(t, q)
    BY <1>3, <1>4, <1>5, <1>6, <1>7, <1>8, <1>9, <1>10, <1>11 DEF PageStep, PageOk, q
  <1> QED
    BY <1>12, StepSound

(* Taking the operation away leaves the session and the refresh alone.       *)
LEMMA WithoutOperation ==
    ASSUME NEW c \in Pages
    PROVE  LET q == [c EXCEPT !.op = NoOperation] IN
           q.auth = c.auth /\ q.rf = c.rf /\ q.op.kind = "none" /\ ~LoggedIn(q)
  BY DEF Pages, NoOperation, LoggedIn

(* The answer of a login is dropped: the page keeps what it has.             *)
LEMMA LoginDropped ==
    ASSUME Sound, NEW t \in Tabs, LoggedIn(page[t]), StoreCookie(page[t].op.ans),
           page' = [page EXCEPT ![t] = [page[t] EXCEPT !.op = NoOperation]],
           UNCHANGED <<srv, lock, faults, setup>>, events' \in EventQueues
    PROVE  SoundStep
  <1> DEFINE p == page[t]
             ans == p.op.ans
             q == [p EXCEPT !.op = NoOperation]
  <1>1. p \in Pages /\ PageOk(p) /\ QueriesOk(p) /\ ans.set
    BY PageHolds DEF PageOk, OperationOk, AnswerOk
  <1>2. q.auth = p.auth /\ ~LoggedIn(q)
    BY <1>1, WithoutOperation
  <1> HIDE DEF q
  <1>3. AuthFrom(srv, p, q)
    BY <1>2, PageHolds DEF AuthFrom, Versions
  <1>4. CookieFrom(cookie, cookie', p, q)
    BY <1>1, <1>2 DEF CookieFrom, StoreCookie
  <1>5. Requests(p, p)
    BY DEF Requests
  <1> QED
    BY <1>1, <1>3, <1>4, <1>5, OperationEnds DEF q

(* The answer of a login is applied: to a page without a session, or to the  *)
(* page of an OAuth callback.                                                *)
LEMMA LoginApplied ==
    ASSUME Sound, NEW t \in Tabs, LoggedIn(page[t]), StoreCookie(page[t].op.ans),
           page[t].auth.sid = NoSid \/ page[t].op.kind = "oauth",
           page' = [page EXCEPT ![t] =
                      [ApplyAuthBundle(page[t], page[t].op.ans.sid, page[t].op.ans.ver) EXCEPT
                         !.op = NoOperation]],
           UNCHANGED <<srv, lock, faults, setup>>, events' \in EventQueues
    PROVE  SoundStep
  <1> DEFINE p == page[t]
             ans == p.op.ans
             c == ApplyAuthBundle(p, ans.sid, ans.ver)
             q == [c EXCEPT !.op = NoOperation]
  <1>1. p \in Pages /\ PageOk(p) /\ QueriesOk(p) /\ p.op.pc = "answered"
    BY PageHolds DEF PageOk, LoggedIn
  <1>2. ans.sid \in Owners /\ ans.ver \in TokenVersions /\ ans.set
    BY <1>1, PageHolds DEF Pages, Operations, Answers, TokenVersions, PageOk, OperationOk,
       AnswerOk
  <1>3. cookie' = ans.jar
    BY <1>2 DEF StoreCookie
  <1>4. /\ c \in Pages /\ c.auth.sid = ans.sid /\ c.auth.ver = ans.ver
        /\ Superseded(p.rf, c.rf) /\ Requests(p, c) /\ QueriesOk(c)
    <2> HIDE DEF ans
    <2> QED
      BY <1>1, <1>2, Applied
  <1> HIDE DEF c
  <1>5. q.auth = c.auth /\ ~LoggedIn(q) /\ q.op.kind = "none"
    BY <1>4, WithoutOperation
  <1> HIDE DEF q
  <1>6. AuthFrom(srv, p, q)
    BY <1>1, <1>4, <1>5 DEF AuthFrom, OAuthEnds
  <1>7. CookieFrom(cookie, cookie', p, q)
    BY <1>3, <1>5 DEF CookieFrom
  <1> QED
    BY <1>4, <1>6, <1>7, OperationEnds DEF q, c

(* The answer of a security change: the token, unless the page has left its  *)
(* session.                                                                  *)
LEMMA RotateEnds ==
    ASSUME Sound, NEW t \in Tabs, page[t].op.kind = "rotate", page[t].op.pc = "answered",
           StoreCookie(page[t].op.ans),
           page' = [page EXCEPT ![t] =
                      [IF page[t].op.ans.kind = "bundle"
                       THEN ApplyAuthRotation(page[t], page[t].op.ans.sid, page[t].op.ans.ver)
                       ELSE page[t] EXCEPT !.op = NoOperation]],
           UNCHANGED <<srv, lock, events, faults, setup>>
    PROVE  SoundStep
  <1> DEFINE p == page[t]
             ans == p.op.ans
             c == IF ans.kind = "bundle" THEN ApplyAuthRotation(p, ans.sid, ans.ver) ELSE p
             q == [c EXCEPT !.op = NoOperation]
  <1>1. p \in Pages /\ PageOk(p) /\ QueriesOk(p) /\ events' \in EventQueues
    BY PageHolds, EventsTyped DEF PageOk
  <1>2. ans.sid \in Owners /\ ans.ver \in TokenVersions
    BY <1>1 DEF Pages, Operations, Answers, TokenVersions
  <1>3. cookie' \in {cookie, NoCookie}
    BY <1>1 DEF StoreCookie, PageOk, OperationOk, LoggedIn, Logins
  <1>4. CASE c = p
    <2>1. Requests(p, c)
      BY <1>4 DEF Requests
    <2> HIDE DEF c
    <2>2. q.auth = p.auth
      BY <1>1, <1>4, WithoutOperation
    <2> HIDE DEF q
    <2>3. AuthFrom(srv, p, q)
      BY <2>2, PageHolds DEF AuthFrom, Versions
    <2>4. CookieFrom(cookie, cookie', p, q)
      BY <1>3 DEF CookieFrom
    <2> QED
      BY <1>1, <1>4, <2>1, <2>3, <2>4, OperationEnds DEF q, c
  <1>5. CASE ans.kind = "bundle" /\ ans.sid = p.auth.sid
    <2>1. c = ApplyAuthBundle(p, ans.sid, ans.ver)
      BY <1>5 DEF ApplyAuthRotation
    <2>2. /\ c \in Pages /\ c.auth.sid = ans.sid /\ c.auth.ver = ans.ver
          /\ Superseded(p.rf, c.rf) /\ Requests(p, c) /\ QueriesOk(c)
      <3> HIDE DEF c, ans
      <3> QED
        BY <1>1, <1>2, <2>1, Applied
    <2> HIDE DEF c
    <2>3. q.auth = c.auth /\ q.op.kind = "none"
      BY <2>2, WithoutOperation
    <2> HIDE DEF q
    <2>4. ans.ver <= srv[ans.sid].ver
      BY <1>5, PageHolds DEF Versions
    <2>5. AuthFrom(srv, p, q)
      BY <1>5, <2>2, <2>3, <2>4 DEF AuthFrom, RotationEnds
    <2>6. CookieFrom(cookie, cookie', p, q)
      BY <1>3 DEF CookieFrom
    <2> QED
      BY <1>1, <2>2, <2>5, <2>6, OperationEnds DEF q, c
  <1> QED
    BY <1>4, <1>5 DEF ApplyAuthRotation

(* A sign-out is done.                                                       *)
LEMMA LogoutEnds ==
    ASSUME Sound, NEW t \in Tabs, page[t].op.kind \notin Logins, page[t].op.pc = "answered",
           StoreCookie(page[t].op.ans),
           page' = [page EXCEPT ![t] = [ClearAuthentication(page[t]) EXCEPT
                                          !.cache = {}, !.op = NoOperation]],
           UNCHANGED <<srv, lock, faults, setup>>, events' \in EventQueues
    PROVE  SoundStep
  <1> DEFINE p == page[t]
             a == ClearAuthentication(p)
             c == [a EXCEPT !.cache = {}]
             q == [c EXCEPT !.op = NoOperation]
  <1>1. p \in Pages /\ PageOk(p) /\ QueriesOk(p)
    BY PageHolds DEF PageOk
  <1>2. cookie' \in {cookie, NoCookie}
    BY <1>1 DEF StoreCookie, PageOk, OperationOk, LoggedIn
  <1>3. /\ a \in Pages /\ a.auth.sid = NoSid /\ Superseded(p.rf, a.rf) /\ Requests(p, a)
        /\ QueriesOk(a)
    BY <1>1, Cleared
  <1> HIDE DEF a
  <1>4. /\ c \in Pages /\ c.auth = a.auth /\ c.rf = a.rf /\ c.op = a.op /\ c.get = a.get
        /\ c.cache = {}
    BY <1>3 DEF Pages
  <1>5. page' = [page EXCEPT ![t] = q]
    BY DEF a
  <1> HIDE DEF c
  <1>6. Requests(p, c) /\ QueriesOk(c)
    BY <1>3, <1>4 DEF Requests, QueriesOk, CacheOk
  <1>7. q.auth = c.auth
    BY <1>4, WithoutOperation
  <1> HIDE DEF q
  <1>8. AuthFrom(srv, p, q) /\ CookieFrom(cookie, cookie', p, q)
    BY <1>2, <1>3, <1>4, <1>7 DEF AuthFrom, CookieFrom
  <1> QED
    BY <1>3, <1>4, <1>5, <1>6, <1>8, OperationEnds DEF q

(* A sign-out that found another session's cookie refreshes once.            *)
LEMMA LogoutAgain ==
    ASSUME Sound, NEW t \in Tabs, page[t].op.kind \notin Logins, page[t].op.pc = "answered",
           StoreCookie(page[t].op.ans),
           \/ page' = [page EXCEPT ![t] =
                         RefreshAuthentication([page[t] EXCEPT !.op.pc = "refreshing"])]
           \/ page' = [page EXCEPT ![t] = [page[t] EXCEPT !.op = NoOperation]],
           UNCHANGED <<srv, lock, events, faults, setup>>
    PROVE  SoundStep
  <1> DEFINE p == page[t]
             w == [p EXCEPT !.op.pc = "refreshing"]
             r == RefreshAuthentication(w)
             q == [p EXCEPT !.op = NoOperation]
  <1>1. p \in Pages /\ PageOk(p)
    BY PageHolds
  <1>2. cookie' \in {cookie, NoCookie}
    BY <1>1 DEF StoreCookie, PageOk, OperationOk, LoggedIn
  <1>3. CASE page' = [page EXCEPT ![t] = r]
    <2>1. /\ w \in Pages /\ w.auth = p.auth /\ w.rf = p.rf /\ w.get = p.get
          /\ w.cache = p.cache /\ w.op.pc = "refreshing" /\ w.op.kind \notin Logins
      BY <1>1 DEF Pages, Operations
    <2> HIDE DEF w
    <2>2. /\ r \in Pages /\ r.auth = w.auth /\ r.op = w.op /\ r.get = w.get
          /\ r.cache = w.cache /\ (r.rf = w.rf \/ r.rf.pc = "queued")
      BY <2>1, Refreshing
    <2> HIDE DEF r
    <2> QED
      BY <1>2, <1>3, <2>1, <2>2, OperationMoves, FaultTyped DEF Logins
  <1>4. CASE page' = [page EXCEPT ![t] = q]
    <2>1. NoOperation.kind = "none" /\ NoOperation.pc = "idle"
      BY DEF NoOperation
    <2>2. /\ q \in Pages /\ q.auth = p.auth /\ q.rf = p.rf /\ q.op = NoOperation
          /\ q.get = p.get /\ q.cache = p.cache
      BY <1>1, EmptyTyped DEF Pages
    <2> HIDE DEF q
    <2> QED
      BY <1>2, <1>4, <2>1, <2>2, OperationMoves, FaultTyped
  <1> QED
    BY <1>3, <1>4

(* The answer of an operation arrives.                                       *)
LEMMA OperationContinuesSound ==
    ASSUME Sound, NEW t \in Tabs, OperationContinues(t), UNCHANGED setup
    PROVE  SoundStep
  <1> DEFINE p == page[t]
  <1>1. p \in Pages /\ PageOk(p) /\ p.auth.sid \in Owners /\ p.op.ans.sid \in Owners
    BY PageHolds DEF Pages, Stores, Operations, Answers
  <1>2. p.op.pc = "answered" /\ StoreCookie(p.op.ans) /\ UNCHANGED <<srv, lock, faults>>
    BY DEF OperationContinues
  <1>3. \A kind \in {"authenticated", "signed_out"} :
           \A s \in Owners : Publish(t, kind, s) \in EventQueues
    BY EventsTyped
  <1>4. CASE p.op.kind = "login"
    <2> DEFINE Shown(mounted) ==
                  HandleLoginSuccess(p, mounted, p.op.from, p.op.ans.sid, p.op.ans.ver)
    <2>1. PICK mounted \in BOOLEAN :
             /\ page' = [page EXCEPT ![t] = [Shown(mounted) EXCEPT !.op = NoOperation]]
             /\ events' = IF mounted /\ p.auth.sid = p.op.from
                          THEN Publish(t, "authenticated", p.op.ans.sid) ELSE events
      BY <1>4 DEF OperationContinues, LoginAnswered, EndOperation
    <2>2. events' \in EventQueues
      BY <1>1, <1>3, <2>1, EventsTyped
    <2>3. LoggedIn(p) /\ p.op.from = NoSid
      BY <1>1, <1>2, <1>4 DEF LoggedIn, Logins, PageOk, OperationOk
    <2>4. \/ Shown(mounted) = p
          \/ /\ p.auth.sid = NoSid
             /\ Shown(mounted) = ApplyAuthBundle(p, p.op.ans.sid, p.op.ans.ver)
      BY <2>3 DEF HandleLoginSuccess
    <2> HIDE DEF Shown
    <2> QED
      BY <1>2, <2>1, <2>2, <2>3, <2>4, LoginDropped, LoginApplied
  <1>5. CASE p.op.kind = "oauth"
    <2>1. /\ page' = [page EXCEPT ![t] =
                        [ApplyAuthBundle(p, p.op.ans.sid, p.op.ans.ver) EXCEPT
                           !.op = NoOperation]]
          /\ events' \in {Publish(t, "authenticated", p.op.ans.sid), events}
      BY <1>5 DEF OperationContinues, OAuthAnswered, EndOperation
    <2>2. events' \in EventQueues
      BY <1>1, <1>3, <2>1, EventsTyped
    <2>3. LoggedIn(p)
      BY <1>2, <1>5 DEF LoggedIn, Logins
    <2> QED
      BY <1>2, <1>5, <2>1, <2>2, <2>3, LoginApplied
  <1>6. CASE p.op.kind = "rotate"
    <2>1. /\ page' = [page EXCEPT ![t] =
                        [IF p.op.ans.kind = "bundle"
                         THEN ApplyAuthRotation(p, p.op.ans.sid, p.op.ans.ver)
                         ELSE p EXCEPT !.op = NoOperation]]
          /\ UNCHANGED events
      BY <1>6 DEF OperationContinues, RotationAnswered, EndOperation
    <2> QED
      BY <1>2, <1>6, <2>1, RotateEnds
  <1>7. CASE p.op.kind \notin Logins \cup {"rotate"}
    <2>1. \/ /\ page' = [page EXCEPT ![t] = [ClearAuthentication(p) EXCEPT
                                               !.cache = {}, !.op = NoOperation]]
             /\ events' = Publish(t, "signed_out", p.auth.sid)
          \/ /\ \/ page' = [page EXCEPT ![t] =
                              RefreshAuthentication([p EXCEPT !.op.pc = "refreshing"])]
                \/ page' = [page EXCEPT ![t] = [p EXCEPT !.op = NoOperation]]
             /\ UNCHANGED events
      BY <1>7 DEF OperationContinues, LogoutAnswered, EndOperation, Logins
    <2>2. Publish(t, "signed_out", p.auth.sid) \in EventQueues
      BY <1>1, <1>3
    <2> QED
      BY <1>2, <1>7, <2>1, <2>2, LogoutEnds, LogoutAgain
  <1> QED
    BY <1>4, <1>5, <1>6, <1>7 DEF Logins

\* One GET of p is replaced by g.
OneGet(p, k, g, q) ==
    /\ q \in Pages /\ q.auth = p.auth /\ q.rf = p.rf /\ q.op = p.op
    /\ q.get[k] = g /\ \A j \in Owners : j # k => q.get[j] = p.get[j]

(* Replacing one GET.                                                        *)
LEMMA GetReplaced ==
    ASSUME NEW p \in Pages, NEW k \in Owners, NEW g \in Gets
    PROVE  LET q == [p EXCEPT !.get[k] = g] IN OneGet(p, k, g, q) /\ q.cache = p.cache
  <1>1. p.get \in [Owners -> Gets]
    BY DEF Pages
  <1>2. /\ [p.get EXCEPT ![k] = g] \in [Owners -> Gets]
        /\ [p.get EXCEPT ![k] = g][k] = g
        /\ \A j \in Owners : j # k => [p.get EXCEPT ![k] = g][j] = p.get[j]
    BY <1>1
  <1>3. [p EXCEPT !.get[k] = g] = [p EXCEPT !.get = [p.get EXCEPT ![k] = g]]
    OBVIOUS
  <1> DEFINE h == [p.get EXCEPT ![k] = g]
             q == [p EXCEPT !.get = h]
  <1> HIDE DEF h
  <1>4. /\ q \in Pages /\ q.auth = p.auth /\ q.rf = p.rf /\ q.op = p.op
        /\ q.get = h /\ q.cache = p.cache
    BY <1>2 DEF Pages, h
  <1> QED
    BY <1>2, <1>3, <1>4 DEF OneGet, h

\* Of page p only the GET under k has moved, and a refresh may have been queued for it.
QueryMoved(p, k, q) ==
    /\ q.auth = p.auth /\ q.op = p.op /\ (q.rf = p.rf \/ q.rf.pc = "queued")
    /\ \A j \in Owners : j # k => q.get[j] = p.get[j]
    /\ q.get[k].live => k = p.auth.sid
    /\ q.get[k].phase # "none" => p.get[k].phase # "none" \/ k = p.auth.sid
    /\ q.get[k].phase = "sent" => \/ /\ p.get[k].phase = "sent"
                                     /\ q.get[k].token = p.get[k].token
                                  \/ q.get[k].token.sid = k

(* A query is sent, answered or given up, or waits for a refresh.            *)
LEMMA QueryKeeps ==
    ASSUME NEW p \in Pages, PageOk(p), NEW k \in Owners, NEW q \in Pages, QueryMoved(p, k, q)
    PROVE  PageOk(q) /\ Keeps(p, q)
  <1>1. QueriesOk(q)
    BY DEF QueriesOk, PageOk, QueryMoved
  <1>2. RefreshOk(q) /\ OperationOk(q)
    BY DEF PageOk, RefreshOk, OperationOk, Brought, LoggedIn, QueryMoved
  <1>3. Keeps(p, q)
    BY DEF Keeps, Brought, Outstanding, QueryMoved
  <1> QED
    BY <1>1, <1>2, <1>3 DEF PageOk

(* A query joins the GET in flight or sends one.                             *)
LEMMA FetchSound ==
    ASSUME Sound, NEW t \in Tabs, Fetch(t), UNCHANGED setup
    PROVE  SoundStep
  <1> DEFINE p == page[t]
             k == p.auth.sid
             g == p.get[k]
             n == [phase |-> "sent", retried |-> FALSE, live |-> TRUE, token |-> Token(p)]
             j == [g EXCEPT !.live = TRUE]
  <1>1. p \in Pages /\ PageOk(p) /\ k \in Owners /\ g \in Gets
    BY PageHolds DEF Pages, Stores
  <1>2. Token(p) \in Tokens /\ Token(p).sid = k
    BY <1>1 DEF Token, Tokens, Pages, Stores
  <1>3. n \in Gets /\ n.phase = "sent" /\ n.token.sid = k
    BY <1>2 DEF Gets
  <1>4. j \in Gets /\ j.phase = g.phase /\ j.token = g.token
    BY <1>1 DEF Gets
  <1>5. UNCHANGED <<srv, cookie, lock, events, faults>>
    BY DEF Fetch
  <1>6. CASE g.phase = "none"
    <2> DEFINE q == [p EXCEPT !.get[k] = n]
    <2>1. page' = [page EXCEPT ![t] = q]
      BY <1>6 DEF Fetch, SendGet, GetKey
    <2> HIDE DEF n
    <2>2. OneGet(p, k, n, q) /\ q.cache = p.cache
      BY <1>1, <1>3, GetReplaced
    <2> HIDE DEF q, k
    <2>3. CacheOk(p) => CacheOk(q)
      BY <2>2 DEF CacheOk, OneGet
    <2>4. q \in Pages
      BY <2>2 DEF OneGet
    <2>5. QueryMoved(p, k, q)
      BY <1>3, <2>2 DEF OneGet, QueryMoved, k
    <2>6. PageOk(q) /\ Keeps(p, q)
      BY <1>1, <2>4, <2>5, QueryKeeps
    <2> QED
      BY <1>5, <2>1, <2>3, <2>4, <2>6, KeepingStep, EventsTyped, FaultTyped
  <1>7. CASE g.phase # "none"
    <2> DEFINE q == [p EXCEPT !.get[k] = j]
    <2>1. page' = [page EXCEPT ![t] = q]
      BY <1>1, <1>7 DEF Fetch, GetKey, Pages
    <2> HIDE DEF j
    <2>2. OneGet(p, k, j, q) /\ q.cache = p.cache
      BY <1>1, <1>4, GetReplaced
    <2> HIDE DEF q, k
    <2>3. CacheOk(p) => CacheOk(q)
      BY <2>2 DEF CacheOk, OneGet
    <2>4. q \in Pages
      BY <2>2 DEF OneGet
    <2>5. QueryMoved(p, k, q)
      BY <1>4, <2>2 DEF OneGet, QueryMoved, k
    <2>6. PageOk(q) /\ Keeps(p, q)
      BY <1>1, <2>4, <2>5, QueryKeeps
    <2> QED
      BY <1>5, <2>1, <2>3, <2>4, <2>6, KeepingStep, EventsTyped, FaultTyped
  <1> QED
    BY <1>6, <1>7

(* A GET is lost.                                                            *)
LEMMA GetFailsSound ==
    ASSUME Sound, NEW t \in Tabs, NEW k \in Owners, GetFails(t, k), UNCHANGED setup
    PROVE  SoundStep
  <1> DEFINE p == page[t]
             q == [p EXCEPT !.get[k] = NoGet]
  <1>1. p \in Pages /\ PageOk(p)
    BY PageHolds
  <1>2. page' = [page EXCEPT ![t] = q] /\ faults' \in 0..setup.faults
    BY <1>1, FaultTyped DEF GetFails
  <1>3. NoGet \in Gets /\ NoGet.phase = "none" /\ ~NoGet.live
    BY EmptyTyped DEF NoGet
  <1>4. OneGet(p, k, NoGet, q) /\ q.cache = p.cache
    BY <1>1, <1>3, GetReplaced
  <1> HIDE DEF q
  <1>5. q \in Pages /\ (CacheOk(p) => CacheOk(q))
    BY <1>4 DEF CacheOk, OneGet
  <1>6. UNCHANGED <<srv, cookie, lock, events>>
    BY DEF GetFails
  <1>7. QueryMoved(p, k, q)
    BY <1>3, <1>4 DEF OneGet, QueryMoved
  <1>8. PageOk(q) /\ Keeps(p, q)
    BY <1>1, <1>5, <1>7, QueryKeeps
  <1> QED
    BY <1>2, <1>5, <1>6, <1>8, KeepingStep, EventsTyped

(* A page is loaded again.                                                   *)
LEMMA LoadedAnew ==
    ASSUME Sound, NEW t \in Tabs, page' = [page EXCEPT ![t] = FreshPage],
           events' = [events EXCEPT ![t] = <<>>], ReleaseLock(t),
           UNCHANGED <<srv, cookie, setup>>, faults' \in 0..setup.faults
    PROVE  SoundStep
  <1>1. Keeps(page[t], FreshPage) /\ ~Outstanding(FreshPage) /\ CacheOk(FreshPage)
    BY FreshOk DEF Keeps, Brought, Outstanding, CacheOk
  <1> QED
    BY <1>1, FreshOk, KeepingStep, EventsTyped

(* A page is signed out; q may also drop GETs or the query cache.            *)
LEMMA SignsOut ==
    ASSUME Sound, NEW t \in Tabs, NEW q \in Pages,
           q.auth = ClearAuthentication(page[t]).auth,
           q.rf = ClearAuthentication(page[t]).rf, q.op = ClearAuthentication(page[t]).op,
           \A j \in Owners : q.get[j] \in {ClearAuthentication(page[t]).get[j], NoGet},
           page' = [page EXCEPT ![t] = q], UNCHANGED <<srv, cookie, lock, faults, setup>>,
           events' \in EventQueues
    PROVE  SoundStep
  <1> DEFINE p == page[t]
             c == ClearAuthentication(p)
  <1>1. p \in Pages /\ PageOk(p) /\ QueriesOk(p)
    BY PageHolds DEF PageOk
  <1>2. c.auth.sid = NoSid /\ Superseded(p.rf, c.rf) /\ Requests(p, c) /\ QueriesOk(c)
    BY <1>1, Cleared
  <1>3. NoGet.phase = "none" /\ ~NoGet.live
    BY DEF NoGet
  <1> HIDE DEF c
  <1>4. /\ q.auth = c.auth /\ q.rf = c.rf /\ q.op = c.op
        /\ \A j \in Owners : q.get[j] \in {c.get[j], NoGet}
    BY DEF c
  <1>5. RefreshOk(q)
    BY <1>1, <1>2, <1>4 DEF PageOk, RefreshOk, Superseded, Brought
  <1>6. OperationOk(q)
    BY <1>1, <1>2, <1>4 DEF PageOk, OperationOk, Requests, LoggedIn
  <1>7. QueriesOk(q)
    BY <1>2, <1>3, <1>4 DEF QueriesOk
  <1>8. Keeps(p, q) /\ CacheOk(q)
    BY <1>2, <1>3, <1>4 DEF Keeps, Requests, Superseded, Brought, Outstanding, CacheOk
  <1> QED
    BY <1>5, <1>6, <1>7, <1>8, KeepingStep, FaultTyped DEF PageOk

(* Data arrives: it belongs to the session whose token fetched it.           *)
LEMMA DataArrives ==
    ASSUME Sound, NEW t \in Tabs, NEW k \in Owners, page[t].get[k].phase = "sent",
           page' = [page EXCEPT ![t].get[k] = NoGet,
                                ![t].cache = IF page[t].get[k].live
                                             THEN @ \cup {page[t].get[k].token.sid} ELSE @],
           UNCHANGED <<srv, cookie, lock, events, faults, setup>>
    PROVE  SoundStep
  <1> DEFINE p == page[t]
             g == p.get[k]
             w == [p EXCEPT !.get[k] = NoGet]
             d == IF g.live THEN p.cache \cup {g.token.sid} ELSE p.cache
             q == [w EXCEPT !.cache = d]
  <1>1. /\ p \in Pages /\ PageOk(p) /\ QueriesOk(p)
        /\ g \in Gets /\ g.token.sid \in Owners
    BY PageHolds DEF PageOk, Pages, Gets, Tokens
  <1>2. page' = [page EXCEPT ![t] = q]
    BY <1>1 DEF Sound, TypeOK, Pages
  <1>3. NoGet \in Gets /\ NoGet.phase = "none" /\ ~NoGet.live
    BY EmptyTyped DEF NoGet
  <1>4. OneGet(p, k, NoGet, w) /\ w.cache = p.cache
    BY <1>1, <1>3, GetReplaced
  <1>5. d \in SUBSET Owners
    BY <1>1 DEF Pages
  <1> HIDE DEF w, d
  <1>6. /\ q \in Pages /\ q.auth = w.auth /\ q.rf = w.rf /\ q.op = w.op /\ q.get = w.get
        /\ q.cache = d
    BY <1>4, <1>5 DEF OneGet, Pages
  <1> HIDE DEF q
  <1>7. ASSUME setup.locks, CacheOk(p)
        PROVE  CacheOk(q)
    <2>1. p.auth.sid # NoSid => p.auth.sid \in Sids
      BY PageHolds
    <2>2. g.live /\ p.auth.sid # NoSid => g.token.sid = p.auth.sid
      <3>1. g.live => k = p.auth.sid
        BY <1>1 DEF QueriesOk
      <3>2. ForeignGone(srv, cookie, page)
        BY <1>7 DEF Sound
      <3> QED
        BY <2>1, <3>1, <3>2 DEF ForeignGone
    <2>3. p.auth.sid # NoSid => d \subseteq {p.auth.sid}
      BY <1>7, <2>2 DEF CacheOk, d
    <2>4. q.auth = p.auth /\ q.cache = d
      BY <1>4, <1>6 DEF OneGet
    <2> QED
      BY <2>3, <2>4 DEF CacheOk
  <1>8. QueryMoved(p, k, q)
    BY <1>3, <1>4, <1>6 DEF OneGet, QueryMoved
  <1>9. PageOk(q) /\ Keeps(p, q)
    BY <1>1, <1>6, <1>8, QueryKeeps
  <1> QED
    BY <1>2, <1>6, <1>7, <1>9, KeepingStep, EventsTyped, FaultTyped

(* A GET is answered.                                                        *)
LEMMA GetAnsweredSound ==
    ASSUME Sound, NEW t \in Tabs, NEW k \in Owners, GetAnswered(t, k), UNCHANGED setup
    PROVE  SoundStep
  <1> DEFINE p == page[t]
             g == p.get[k]
             h == [g EXCEPT !.phase = "refreshing"]
             w == [p EXCEPT !.get[k] = h]
             r == RefreshAuthentication(w)
             c == ClearAuthentication(p)
             q == [c EXCEPT !.get[k] = NoGet]
  <1>1. p \in Pages /\ PageOk(p) /\ QueriesOk(p) /\ g \in Gets
    BY PageHolds DEF PageOk, Pages
  <1>2. g.phase = "sent" /\ UNCHANGED <<srv, cookie, faults>>
    BY DEF GetAnswered
  <1>3. \/ /\ page' = [page EXCEPT ![t].get[k] = NoGet,
                                   ![t].cache = IF g.live THEN @ \cup {g.token.sid} ELSE @]
           /\ UNCHANGED <<lock, events>>
        \/ /\ page' = [page EXCEPT ![t] =
                 RefreshAuthentication([p EXCEPT !.get[k].phase = "refreshing"])]
           /\ UNCHANGED <<lock, events>>
        \/ page' = [page EXCEPT ![t] = q] /\ UNCHANGED <<lock, events>>
        \/ /\ page' = [page EXCEPT ![t] = FreshPage]
           /\ events' = [events EXCEPT ![t] = <<>>]
           /\ ReleaseLock(t)
    BY DEF GetAnswered
  <1>4. CASE /\ page' = [page EXCEPT ![t].get[k] = NoGet,
                                     ![t].cache = IF g.live THEN @ \cup {g.token.sid} ELSE @]
             /\ UNCHANGED <<lock, events>>
    BY <1>2, <1>4, DataArrives
  <1>5. CASE /\ page' = [page EXCEPT ![t] =
                   RefreshAuthentication([p EXCEPT !.get[k].phase = "refreshing"])]
             /\ UNCHANGED <<lock, events>>
    <2>1. page' = [page EXCEPT ![t] = r]
      BY <1>1, <1>5 DEF Pages
    <2>2. h \in Gets /\ h.phase = "refreshing" /\ h.live = g.live
      BY <1>1 DEF Gets
    <2> HIDE DEF h
    <2>3. OneGet(p, k, h, w) /\ w.cache = p.cache
      BY <1>1, <2>2, GetReplaced
    <2> HIDE DEF w
    <2>4. /\ r \in Pages /\ r.auth = w.auth /\ r.op = w.op /\ r.get = w.get
          /\ r.cache = w.cache /\ (r.rf = w.rf \/ r.rf.pc = "queued")
      BY <2>3, Refreshing DEF OneGet
    <2> HIDE DEF r
    <2>5. CacheOk(p) => CacheOk(r)
      BY <2>3, <2>4 DEF CacheOk, OneGet
    <2>6. QueryMoved(p, k, r)
      BY <1>1, <1>2, <2>2, <2>3, <2>4 DEF OneGet, QueryMoved, QueriesOk
    <2>7. PageOk(r) /\ Keeps(p, r)
      BY <1>1, <2>4, <2>6, QueryKeeps
    <2> QED
      BY <1>2, <1>5, <2>1, <2>4, <2>5, <2>7, KeepingStep, EventsTyped, FaultTyped
  <1>6. CASE page' = [page EXCEPT ![t] = q] /\ UNCHANGED <<lock, events>>
    <2>1. c \in Pages
      BY <1>1, Cleared
    <2> HIDE DEF c
    <2>2. OneGet(c, k, NoGet, q)
      BY <2>1, EmptyTyped, GetReplaced
    <2> HIDE DEF q
    <2>3. /\ q \in Pages /\ q.auth = c.auth /\ q.rf = c.rf /\ q.op = c.op
          /\ \A j \in Owners : q.get[j] \in {c.get[j], NoGet}
      BY <2>2 DEF OneGet
    <2> QED
      BY <1>2, <1>6, <2>3, SignsOut, EventsTyped DEF c
  <1>7. CASE /\ page' = [page EXCEPT ![t] = FreshPage]
             /\ events' = [events EXCEPT ![t] = <<>>]
             /\ ReleaseLock(t)
    BY <1>2, <1>7, LoadedAnew, FaultTyped
  <1> QED
    BY <1>3, <1>4, <1>5, <1>6, <1>7

(* The user reloads a page.                                                  *)
LEMMA ReloadSound ==
    ASSUME Sound, NEW t \in Tabs, Reload(t), UNCHANGED setup
    PROVE  SoundStep
  BY LoadedAnew, FaultTyped DEF Reload

(* An event of another tab is delivered.                                     *)
LEMMA DeliverSound ==
    ASSUME Sound, NEW t \in Tabs, Deliver(t), UNCHANGED setup
    PROVE  SoundStep
  <1> DEFINE p == page[t]
             c == ClearAuthentication(p)
             q == [c EXCEPT !.cache = {}]
  <1>1. p \in Pages /\ PageOk(p) /\ QueriesOk(p)
    BY PageHolds DEF PageOk
  <1>2. events[t] # <<>> /\ UNCHANGED <<srv, cookie, faults>>
    BY DEF Deliver
  <1>3. \/ /\ page' = [page EXCEPT ![t] = FreshPage]
           /\ events' = [events EXCEPT ![t] = <<>>]
           /\ ReleaseLock(t)
        \/ /\ page' = [page EXCEPT ![t] = q] /\ UNCHANGED lock
           /\ events' = [events EXCEPT ![t] = Tail(@)]
        \/ /\ UNCHANGED <<page, lock>>
           /\ events' = [events EXCEPT ![t] = Tail(@)]
    BY DEF Deliver
  <1>4. CASE /\ page' = [page EXCEPT ![t] = FreshPage]
             /\ events' = [events EXCEPT ![t] = <<>>]
             /\ ReleaseLock(t)
    BY <1>2, <1>4, LoadedAnew, FaultTyped
  <1>5. CASE /\ page' = [page EXCEPT ![t] = q] /\ UNCHANGED lock
             /\ events' = [events EXCEPT ![t] = Tail(@)]
    <2>1. c \in Pages
      BY <1>1, Cleared
    <2> HIDE DEF c
    <2>2. /\ q \in Pages /\ q.auth = c.auth /\ q.rf = c.rf /\ q.op = c.op /\ q.get = c.get
      BY <2>1 DEF Pages
    <2> HIDE DEF q
    <2> QED
      BY <1>2, <1>5, <2>2, SignsOut, EventsTyped DEF c
  <1>6. CASE UNCHANGED <<page, lock>> /\ events' = [events EXCEPT ![t] = Tail(@)]
    <2>1. Sound'
      BY <1>2, <1>6, EventsTyped DEF Sound, TypeOK, EventQueues
    <2> QED
      BY <1>6, <2>1, StayMoves DEF SoundStep
  <1> QED
    BY <1>3, <1>4, <1>5, <1>6

(* A stale event is dropped.                                                 *)
LEMMA DropStaleEventSound ==
    ASSUME Sound, NEW t \in Tabs, DropStaleEvent(t), UNCHANGED setup
    PROVE  SoundStep
  <1>1. events' \in EventQueues /\ faults' \in 0..setup.faults
    BY EventsTyped, FaultTyped DEF DropStaleEvent
  <1>2. Sound'
    BY <1>1 DEF DropStaleEvent, Sound, TypeOK, EventQueues
  <1> QED
    BY <1>2, StayMoves DEF DropStaleEvent, SoundStep

(* An access token expires.                                                  *)
LEMMA TokenExpiresSound ==
    ASSUME Sound, NEW t \in Tabs, TokenExpires(t), UNCHANGED setup
    PROVE  SoundStep
  <1> DEFINE p == page[t]
             q == [p EXCEPT !.auth.fresh = FALSE]
  <1>1. p \in Pages /\ PageOk(p)
    BY PageHolds
  <1>2. page' = [page EXCEPT ![t] = q] /\ UNCHANGED <<srv, cookie, lock, events, faults>>
    BY <1>1 DEF TokenExpires, Sound, TypeOK, Pages, Stores
  <1>3. /\ q \in Pages /\ q.rf = p.rf /\ q.op = p.op /\ q.get = p.get /\ q.cache = p.cache
        /\ q.auth.sid = p.auth.sid /\ q.auth.ver = p.auth.ver
    BY <1>1 DEF Pages, Stores
  <1> HIDE DEF q
  <1>4. PageOk(q)
    BY <1>1, <1>3 DEF PageOk, RefreshOk, OperationOk, QueriesOk, Brought, LoggedIn
  <1>5. Keeps(p, q) /\ (CacheOk(p) => CacheOk(q))
    BY <1>3 DEF Keeps, Brought, Outstanding, CacheOk
  <1> QED
    BY <1>2, <1>3, <1>4, <1>5, KeepingStep, EventsTyped, FaultTyped

(***************************************************************************)
(* The actions of the server.                                              *)
(***************************************************************************)
Rows == [Sids -> [st : {"unborn", "active", "logout", "ended", "reused", "outdated"},
                  rot : 0..MaxRot, grace : BOOLEAN, ver : 1..MaxVer, behind : BOOLEAN]]

(* Secrets are counted within the bound.                                     *)
LEMMA SecretTyped ==
    ASSUME Sound, NEW n \in 0..MaxRot
    PROVE  NextSecret(n) \in 0..MaxRot
  <1>1. setup.rot \in 1..MaxRot /\ MaxRot \in Nat /\ n \in Nat
    BY WebSessionAssumption DEF Sound, TypeOK
  <1>2. (n + 1) % (setup.rot + 1) \in 0..setup.rot
    BY <1>1
  <1> QED
    BY <1>1, <1>2 DEF NextSecret

\* One row changes to z.
OneRow(rows, s, z, rows2) ==
    rows2 \in Rows /\ rows2[s] = z /\ \A u \in Sids : u # s => rows2[u] = rows[u]

(* A page without an answer from the step.                                   *)
LEMMA SamePage ==
    ASSUME NEW rows, NEW rows2, NEW p
    PROVE  AnsweredFrom(rows, rows2, p, p)
  BY DEF AnsweredFrom

(* Steps that change one row and no page.                                    *)
LEMMA RowStep ==
    ASSUME Sound, NEW s \in Sids, OneRow(srv, s, srv'[s], srv'),
           srv'[s].st = "unborn" => srv[s].st = "unborn",
           srv'[s].st = "active" => srv[s].st \in {"unborn", "active"},
           srv'[s].ver = srv[s].ver, srv'[s].rot = srv[s].rot,
           UNCHANGED <<cookie, lock, events, page, setup>>, faults' \in 0..setup.faults
    PROVE  SoundStep
  <1>1. srv' \in Rows /\ srv \in Rows
    BY DEF OneRow, Sound, TypeOK, Rows
  <1>2. TypeOK'
    BY <1>1 DEF Sound, TypeOK, Rows
  <1>3. \A u \in Sids : srv[u].ver \in Int
    BY <1>1 DEF Rows
  <1>4. RowsFrom(srv, srv', setup.rot, page, page')
    BY <1>3 DEF RowsFrom, OneRow
  <1>5. \A u \in Tabs : PageOk(page'[u]) /\ AnsweredFrom(srv, srv', page[u], page'[u])
    BY PageHolds, SamePage
  <1>6. ServerStep
    BY <1>2, <1>4, <1>5 DEF ServerStep
  <1> QED
    BY <1>6, ServerSound

(* The session expires or is revoked.                                        *)
LEMMA SessionEndsSound ==
    ASSUME Sound, NEW s \in Sids, SessionEnds(s), UNCHANGED setup
    PROVE  SoundStep
  <1>1. srv \in Rows
    BY DEF Sound, TypeOK, Rows
  <1>2. /\ OneRow(srv, s, srv'[s], srv')
        /\ srv'[s].st = "ended" /\ srv'[s].ver = srv[s].ver /\ srv'[s].rot = srv[s].rot
    BY <1>1 DEF SessionEnds, Rows, OneRow
  <1> QED
    BY <1>2, RowStep, FaultTyped DEF SessionEnds

(* The replay window passes.                                                 *)
LEMMA GraceEndsSound ==
    ASSUME Sound, NEW s \in Sids, GraceEnds(s), UNCHANGED setup
    PROVE  SoundStep
  <1>1. srv \in Rows
    BY DEF Sound, TypeOK, Rows
  <1>2. /\ OneRow(srv, s, srv'[s], srv')
        /\ srv'[s].st = srv[s].st /\ srv'[s].ver = srv[s].ver /\ srv'[s].rot = srv[s].rot
    BY <1>1 DEF GraceEnds, Rows, OneRow
  <1>3. srv[s].st = "active" => srv[s].st \in {"unborn", "active"}
    OBVIOUS
  <1> QED
    BY <1>2, <1>3, RowStep, FaultTyped DEF GraceEnds

\* What a refresh sent with jar and expect does to the rows and what it answers.
Refreshed(rows, rot, jar, expect, rows2, ans) ==
    /\ rows2 \in Rows /\ ans \in Answers /\ AnswerOk(ans)
    /\ \A s \in Sids :
         /\ rows2[s].st = "unborn" => rows[s].st = "unborn"
         /\ rows2[s].st = "active" => rows[s].st = "active"
         /\ rows2[s].ver = rows[s].ver
         /\ \/ rows2[s].rot = rows[s].rot
            \/ /\ jar = [sid |-> s, n |-> rows[s].rot]
               /\ rows2[s].rot = (rows[s].rot + 1) % (rot + 1)
    /\ ans.kind = "bundle" =>
         /\ jar.sid \in Sids /\ expect \in {NoSid, jar.sid} /\ ans.sid = jar.sid
         /\ ans.ver = rows2[jar.sid].ver /\ ans.jar.n = rows2[jar.sid].rot

(* The answers without a session.                                            *)
LEMMA Refused ==
    \A ans \in {Unauthorized, Mismatch, Failed} :
        ans \in Answers /\ AnswerOk(ans) /\ ans.kind # "bundle"
  <1>1. /\ Unauthorized.kind = "unauthorized" /\ Unauthorized.jar = NoCookie
        /\ Mismatch.kind = "mismatch" /\ ~Mismatch.set
        /\ Failed.kind = "error" /\ ~Failed.set
    BY DEF Unauthorized, Mismatch, Failed, NoAnswer
  <1> QED
    BY <1>1, EmptyTyped DEF AnswerOk

(* RefreshAuth.                                                              *)
LEMMA ServeRefreshIs ==
    ASSUME Sound, NEW jar \in Cookies, NEW expect
    PROVE  Refreshed(srv, setup.rot, jar, expect, ServeRefresh(jar, expect).srv,
                     ServeRefresh(jar, expect).ans)
  <1> DEFINE s == jar.sid
             row == srv[s]
             r == ServeRefresh(jar, expect)
             moved == [srv EXCEPT ![s].rot = NextSecret(@), ![s].grace = TRUE]
  <1>1. srv \in Rows /\ s \in Owners /\ jar.n \in 0..MaxRot
    BY DEF Sound, TypeOK, Rows, Cookies
  <1>2. ASSUME \/ r = [srv |-> srv, ans |-> Mismatch]
               \/ r = [srv |-> srv, ans |-> Unauthorized]
        PROVE  Refreshed(srv, setup.rot, jar, expect, r.srv, r.ans)
    <2>1. r.srv = srv /\ r.ans \in {Mismatch, Unauthorized}
      BY <1>2
    <2> HIDE DEF r
    <2> QED
      BY <1>1, <2>1, Refused DEF Refreshed
  <1>3. ASSUME s \in Sids, NEW why \in {"outdated", "reused"},
               r = [srv |-> [srv EXCEPT ![s].st = why], ans |-> Unauthorized]
        PROVE  Refreshed(srv, setup.rot, jar, expect, r.srv, r.ans)
    <2> DEFINE x == [srv EXCEPT ![s].st = why]
    <2>1. /\ x \in Rows
          /\ \A u \in Sids : /\ x[u].ver = srv[u].ver /\ x[u].rot = srv[u].rot
                             /\ x[u].st = srv[u].st \/ x[u].st \in {"outdated", "reused"}
      BY <1>1, <1>3 DEF Rows
    <2>2. r.srv = x /\ r.ans = Unauthorized
      BY <1>3
    <2> HIDE DEF r, x
    <2> QED
      BY <2>1, <2>2, Refused DEF Refreshed
  <1>4. ASSUME NEW v, NEW n, s \in Sids, expect \in {NoSid, s}, v = row.ver, n \in 0..MaxRot
        PROVE  /\ Bundle(s, v, n) \in Answers /\ AnswerOk(Bundle(s, v, n))
               /\ Bundle(s, v, n).kind = "bundle" /\ Bundle(s, v, n).sid = s
               /\ Bundle(s, v, n).ver = v /\ Bundle(s, v, n).jar.n = n
    <2>1. v \in 0..MaxVer
      BY <1>1, <1>4, WebSessionAssumption DEF Rows
    <2>2. [sid |-> s, n |-> n] \in Cookies
      BY <1>1, <1>4 DEF Cookies
    <2> QED
      BY <1>1, <1>4, <2>1, <2>2 DEF Bundle, Answers, AnswerOk
  <1>5. ASSUME s \in Sids, expect \in {NoSid, s}, jar.n = row.rot,
               r = [srv |-> moved, ans |-> Bundle(s, row.ver, NextSecret(row.rot))]
        PROVE  Refreshed(srv, setup.rot, jar, expect, r.srv, r.ans)
    <2>1. row.rot \in 0..MaxRot /\ NextSecret(row.rot) \in 0..MaxRot
      BY <1>1, <1>5, SecretTyped DEF Rows
    <2>2. /\ moved \in Rows /\ moved[s].rot = NextSecret(row.rot)
          /\ \A u \in Sids : /\ moved[u].ver = srv[u].ver /\ moved[u].st = srv[u].st
                             /\ u # s => moved[u].rot = srv[u].rot
      BY <1>1, <1>5, <2>1 DEF Rows
    <2>3. jar = [sid |-> s, n |-> row.rot]
      BY <1>5 DEF Cookies
    <2>4. r.srv = moved /\ r.ans = Bundle(s, row.ver, NextSecret(row.rot))
      BY <1>5
    <2> DEFINE b == Bundle(s, row.ver, NextSecret(row.rot))
    <2>5. /\ b \in Answers /\ AnswerOk(b) /\ b.kind = "bundle" /\ b.sid = s
          /\ b.ver = row.ver /\ b.jar.n = NextSecret(row.rot)
      BY <1>4, <1>5, <2>1
    <2> HIDE DEF r, moved, b
    <2> QED
      BY <1>5, <2>2, <2>3, <2>4, <2>5 DEF Refreshed, NextSecret, b
  <1>6. ASSUME s \in Sids, expect \in {NoSid, s},
               r = [srv |-> srv, ans |-> Bundle(s, row.ver, row.rot)]
        PROVE  Refreshed(srv, setup.rot, jar, expect, r.srv, r.ans)
    <2>1. row.rot \in 0..MaxRot
      BY <1>1, <1>6 DEF Rows
    <2> DEFINE b == Bundle(s, row.ver, row.rot)
    <2>2. /\ b \in Answers /\ AnswerOk(b) /\ b.kind = "bundle" /\ b.sid = s
          /\ b.ver = row.ver /\ b.jar.n = row.rot
      BY <1>4, <1>6, <2>1
    <2>3. r.srv = srv /\ r.ans = b
      BY <1>6
    <2> HIDE DEF r, b
    <2> QED
      BY <1>1, <1>6, <2>2, <2>3 DEF Refreshed
  <1>7. \/ r = [srv |-> srv, ans |-> Mismatch] \/ r = [srv |-> srv, ans |-> Unauthorized]
        \/ /\ s \in Sids /\ expect \in {NoSid, s}
           /\ \/ r = [srv |-> [srv EXCEPT ![s].st = "outdated"], ans |-> Unauthorized]
              \/ r = [srv |-> [srv EXCEPT ![s].st = "reused"], ans |-> Unauthorized]
              \/ /\ jar.n = row.rot
                 /\ r = [srv |-> moved, ans |-> Bundle(s, row.ver, NextSecret(row.rot))]
              \/ r = [srv |-> srv, ans |-> Bundle(s, row.ver, row.rot)]
    BY <1>1 DEF ServeRefresh, Reply, Active, Owners
  <1> QED
    BY <1>2, <1>3, <1>5, <1>6, <1>7

(* The server answers a refresh.                                             *)
LEMMA RefreshServedSound ==
    ASSUME Sound, NEW t \in Tabs, RefreshServed(t), UNCHANGED setup
    PROVE  SoundStep
  <1> DEFINE p == page[t]
             jar == p.rf.jar
             a == ServeRefresh(p.rf.jar, p.rf.expect).ans
             f == [p.rf EXCEPT !.pc = "answered", !.ans = a, !.jar = NoCookie,
                               !.expect = NoSid]
             q == [p EXCEPT !.rf = f]
  <1>1. p \in Pages /\ PageOk(p) /\ jar \in Cookies
    BY PageHolds DEF Pages, Refreshes
  <1>2. /\ p.rf.pc = "sent" /\ srv' = ServeRefresh(p.rf.jar, p.rf.expect).srv
        /\ page' = [page EXCEPT ![t] = q]
        /\ UNCHANGED <<cookie, lock, events, faults>>
    BY DEF RefreshServed, Sound, TypeOK, Pages
  <1>3. Refreshed(srv, setup.rot, jar, p.rf.expect, srv', a)
    BY <1>1, <1>2, ServeRefreshIs
  <1> HIDE DEF a
  <1>4. srv' \in Rows /\ a \in Answers /\ AnswerOk(a)
    BY <1>3 DEF Refreshed
  <1>5. f \in Refreshes /\ f.pc = "answered" /\ f.ans = a /\ f.expect = NoSid
          /\ f.current = p.rf.current
    BY <1>1, <1>4, EmptyTyped DEF Pages, Refreshes
  <1> HIDE DEF f
  <1>6. /\ q \in Pages /\ q.rf = f /\ q.auth = p.auth /\ q.op = p.op /\ q.get = p.get
        /\ q.cache = p.cache
    BY <1>1, <1>5 DEF Pages
  <1> HIDE DEF q
  <1>7. /\ page' \in [Tabs -> Pages] /\ page'[t] = q
        /\ \A u \in Tabs : u # t => page'[u] = page[u]
    BY <1>2, <1>6, StepPages DEF Sound
  <1>8. TypeOK'
    BY <1>2, <1>4, <1>7 DEF Sound, TypeOK, Rows
  <1>9. RowsFrom(srv, srv', setup.rot, page, page')
    <2>1. \A s \in Sids : srv[s].ver \in Int
      BY DEF Sound, TypeOK
    <2>2. q.rf.pc # "sent"
      BY <1>5, <1>6
    <2>3. p.rf.pc = "sent"
      BY <1>2
    <2> QED
      BY <1>3, <1>7, <2>1, <2>2, <2>3 DEF Refreshed, RowsFrom
  <1>10. a.kind = "bundle" =>
            /\ jar.sid \in Sids /\ p.rf.expect \in {NoSid, jar.sid} /\ a.sid = jar.sid
            /\ a.ver = srv'[jar.sid].ver /\ a.jar.n = srv'[jar.sid].rot
            /\ srv'[jar.sid].ver = srv[jar.sid].ver /\ srv[jar.sid].ver \in Int
    <2>1. \A s \in Sids : srv[s].ver \in Int
      BY DEF Sound, TypeOK
    <2> QED
      BY <1>3, <2>1 DEF Refreshed
  <1>11. PageOk(q)
    <2>1. ASSUME p.rf.current, a.kind = "bundle"
          PROVE  /\ p.auth.sid \in {NoSid, a.sid}
                 /\ p.auth.sid = a.sid => p.auth.ver <= a.ver
      <3>1. p.auth.sid \in {NoSid, a.sid}
        BY <1>1, <1>2, <1>10, <2>1 DEF PageOk, RefreshOk
      <3>2. p.auth.sid = a.sid => p.auth.sid # NoSid
        BY <1>10, <2>1, WebSessionAssumption
      <3> QED
        BY <1>10, <2>1, <3>1, <3>2, PageHolds DEF Versions
    <2>2. RefreshOk(q)
      BY <1>4, <1>5, <1>6, <2>1 DEF RefreshOk, Brought
    <2>3. OperationOk(q) /\ QueriesOk(q)
      BY <1>1, <1>6 DEF PageOk, OperationOk, QueriesOk, LoggedIn
    <2> QED
      BY <2>2, <2>3 DEF PageOk
  <1>12. AnsweredFrom(srv, srv', p, q)
    <2>1. a.kind = "bundle" => a.ver <= srv'[a.sid].ver
      BY <1>10
    <2> QED
      BY <1>2, <1>5, <1>6, <1>10, <2>1 DEF AnsweredFrom, Outstanding, Brought, LoggedIn
  <1>13. \A u \in Tabs : PageOk(page'[u]) /\ AnsweredFrom(srv, srv', page[u], page'[u])
    BY <1>7, <1>11, <1>12, PageHolds, SamePage
  <1>14. ServerStep
    BY <1>2, <1>7, <1>8, <1>9, <1>13 DEF ServerStep
  <1> QED
    BY <1>14, ServerSound

\* Rows that a step has moved on, with the same secrets.
RowsMoved(rows, rows2) ==
    /\ rows2 \in Rows
    /\ \A s \in Sids :
         /\ rows2[s].st = "unborn" => rows[s].st = "unborn"
         /\ rows2[s].st = "active" => rows[s].st \in {"unborn", "active"}
         /\ rows[s].ver <= rows2[s].ver
         /\ rows2[s].rot = rows[s].rot

(* A step of the server on the operation of a page.                          *)
LEMMA OperationAtServer ==
    ASSUME Sound, NEW t \in Tabs, NEW o \in Operations,
           page' = [page EXCEPT ![t] = [page[t] EXCEPT !.op = o]],
           OperationOk([page[t] EXCEPT !.op = o]), RowsMoved(srv, srv'),
           o.pc = "answered" /\ o.ans.kind = "bundle" => o.ans.ver <= srv'[o.ans.sid].ver,
           o.pc = "answered" /\ o.kind \in Logins => /\ srv[o.ans.sid].st = "unborn"
                                                     /\ srv'[o.ans.sid].st # "unborn"
                                                     /\ srv'[o.ans.sid].rot = 0,
           UNCHANGED <<cookie, lock, events, faults, setup>>
    PROVE  SoundStep
  <1> DEFINE p == page[t]
             q == [p EXCEPT !.op = o]
  <1>1. p \in Pages /\ PageOk(p)
    BY PageHolds
  <1>2. /\ q \in Pages /\ q.op = o /\ q.auth = p.auth /\ q.rf = p.rf /\ q.get = p.get
        /\ q.cache = p.cache
    BY <1>1 DEF Pages
  <1> HIDE DEF q
  <1>3. /\ page' \in [Tabs -> Pages] /\ page'[t] = q
        /\ \A u \in Tabs : u # t => page'[u] = page[u]
    BY <1>2, StepPages DEF Sound, q
  <1>4. TypeOK'
    BY <1>3 DEF Sound, TypeOK, Rows, RowsMoved
  <1>5. RowsFrom(srv, srv', setup.rot, page, page')
    BY DEF RowsFrom, RowsMoved
  <1>6. PageOk(q)
    <2>1. OperationOk(q)
      BY DEF q
    <2> QED
      BY <1>1, <1>2, <2>1 DEF PageOk, RefreshOk, QueriesOk, Brought
  <1>7. AnsweredFrom(srv, srv', p, q)
    BY <1>2 DEF AnsweredFrom, Outstanding, Brought, LoggedIn
  <1>8. \A u \in Tabs : PageOk(page'[u]) /\ AnsweredFrom(srv, srv', page[u], page'[u])
    BY <1>3, <1>6, <1>7, PageHolds, SamePage
  <1>9. ServerStep
    BY <1>3, <1>4, <1>5, <1>8 DEF ServerStep
  <1> QED
    BY <1>9, ServerSound

(* The types of the rows and of an operation.                                *)
LEMMA OperationTyped ==
    ASSUME Sound, NEW t \in Tabs
    PROVE  /\ srv \in Rows /\ page[t] \in Pages /\ page[t].op \in Operations
           /\ page[t].op.token \in Tokens /\ page[t].op.token.sid \in Owners
           /\ page[t].op.jar \in Cookies /\ page[t].op.jar.sid \in Owners
           /\ page[t].op.from \in Owners
           /\ \A s \in Sids : srv[s].ver \in 1..MaxVer /\ srv[s].ver \in Int
  <1>1. srv \in Rows /\ page[t] \in Pages
    BY PageHolds DEF Sound, TypeOK, Rows
  <1>2. page[t].op \in Operations
    BY <1>1 DEF Pages
  <1>3. /\ page[t].op.token \in Tokens /\ page[t].op.jar \in Cookies
        /\ page[t].op.from \in Owners
    BY <1>2 DEF Operations
  <1>4. \A s \in Sids : srv[s].ver \in 1..MaxVer /\ srv[s].ver \in Int
    BY <1>1 DEF Rows
  <1> QED
    BY <1>1, <1>2, <1>3, <1>4 DEF Tokens, Cookies

\* The operation with its answer.
WithAnswer(o, a) ==
    [o EXCEPT !.pc = "answered", !.ans = a, !.jar = NoCookie, !.token = NoToken]

(* An answered operation.                                                    *)
LEMMA AnswerGiven ==
    ASSUME Sound, NEW t \in Tabs, NEW a \in Answers,
           page[t].op.kind \in Logins => /\ a.kind = "bundle" /\ AnswerOk(a) /\ a.jar.n = 0,
           page[t].op.kind \notin Logins /\ a.set => a.jar = NoCookie,
           a.kind = "bundle" => a.sid \in Sids
    PROVE  LET o == WithAnswer(page[t].op, a) IN
           /\ o \in Operations /\ o.kind = page[t].op.kind /\ o.pc = "answered" /\ o.ans = a
           /\ OperationOk([page[t] EXCEPT !.op = o])
  <1> DEFINE p == page[t]
             o == WithAnswer(p.op, a)
             q == [p EXCEPT !.op = o]
  <1>1. p \in Pages /\ PageOk(p) /\ p.op \in Operations
    BY PageHolds, OperationTyped
  <1>2. /\ o \in Operations /\ o.kind = p.op.kind /\ o.pc = "answered" /\ o.ans = a
        /\ o.from = p.op.from
    BY <1>1, EmptyTyped DEF Operations, WithAnswer
  <1> HIDE DEF o
  <1>3. q.op = o
    BY <1>1 DEF Pages
  <1> HIDE DEF q
  <1>4. OperationOk(q)
    BY <1>1, <1>2, <1>3 DEF OperationOk, LoggedIn, PageOk
  <1> QED
    BY <1>2, <1>4 DEF q, o

(* A login creates a session.                                                *)
LEMMA LoginServed ==
    ASSUME Sound, NEW t \in Tabs, page[t].op.kind \in Logins, NEW s \in Unborn,
           srv' = ServeLogin(s).srv,
           page' = [page EXCEPT ![t] =
                      [page[t] EXCEPT !.op = WithAnswer(page[t].op, ServeLogin(s).ans)]],
           UNCHANGED <<cookie, lock, events, faults, setup>>
    PROVE  SoundStep
  <1> DEFINE a == Bundle(s, srv[s].ver, 0)
             x == [srv EXCEPT ![s].st = "active"]
             o == WithAnswer(page[t].op, a)
  <1>1. s \in Sids /\ srv[s].st = "unborn" /\ srv[s].rot = 0
    BY WebSessionAssumption DEF Unborn, Sound, TypeOK, LoginOnce
  <1>2. ServeLogin(s).srv = x /\ ServeLogin(s).ans = a
    BY DEF ServeLogin, Reply
  <1>3. srv \in Rows /\ \A u \in Sids : srv[u].ver \in 1..MaxVer /\ srv[u].ver \in Int
    BY OperationTyped
  <1>4. /\ x \in Rows /\ x[s].st = "active" /\ x[s].ver = srv[s].ver /\ x[s].rot = srv[s].rot
        /\ \A u \in Sids : u # s => x[u] = srv[u]
    BY <1>1, <1>3 DEF Rows
  <1>5. /\ a \in Answers /\ AnswerOk(a) /\ a.kind = "bundle" /\ a.sid = s
        /\ a.ver = srv[s].ver /\ a.jar.n = 0
    <2>1. srv[s].ver \in 0..MaxVer /\ s \in Owners
      BY <1>1, <1>3 DEF Owners
    <2>2. [sid |-> s, n |-> 0] \in Cookies
      BY <2>1, WebSessionAssumption DEF Cookies
    <2> QED
      BY <1>1, <2>1, <2>2 DEF Bundle, Answers, AnswerOk
  <1> HIDE DEF a, x
  <1>6. /\ o \in Operations /\ o.kind \in Logins /\ o.pc = "answered" /\ o.ans = a
        /\ OperationOk([page[t] EXCEPT !.op = o])
    BY <1>1, <1>5, AnswerGiven
  <1> HIDE DEF o
  <1>7. RowsMoved(srv, srv')
    BY <1>1, <1>2, <1>3, <1>4 DEF RowsMoved
  <1>8. a.ver <= srv'[a.sid].ver
    BY <1>1, <1>2, <1>3, <1>4, <1>5
  <1>9. /\ srv[o.ans.sid].st = "unborn" /\ srv'[o.ans.sid].st # "unborn"
        /\ srv'[o.ans.sid].rot = 0 /\ o.ans.ver <= srv'[o.ans.sid].ver
    BY <1>1, <1>2, <1>4, <1>5, <1>6, <1>8
  <1>10. page' = [page EXCEPT ![t] = [page[t] EXCEPT !.op = o]]
    BY <1>2 DEF o
  <1> QED
    BY <1>6, <1>7, <1>9, <1>10, OperationAtServer

(* A sign-out ends the session of its token or its cookie.                   *)
LEMMA LogoutServed ==
    ASSUME Sound, NEW t \in Tabs, page[t].op.kind = "logout",
           srv' = ServeLogout(page[t].op).srv,
           page' = [page EXCEPT ![t] =
              [page[t] EXCEPT !.op = WithAnswer(page[t].op, ServeLogout(page[t].op).ans)]],
           UNCHANGED <<cookie, lock, events, faults, setup>>
    PROVE  SoundStep
  <1> DEFINE op == page[t].op
             a == ServeLogout(op).ans
             o == WithAnswer(op, a)
  <1>1. /\ srv \in Rows /\ op.token.sid \in Owners /\ op.jar.sid \in Owners
        /\ \A u \in Sids : srv[u].ver \in Int
    BY OperationTyped
  <1>2. a \in Answers /\ a.kind # "bundle" /\ (a.set => a.jar = NoCookie)
    <2> DEFINE done(set) == [NoAnswer EXCEPT !.kind = "done", !.set = set]
    <2>1. \A set \in BOOLEAN : /\ done(set) \in Answers /\ done(set).kind = "done"
                               /\ done(set).jar = NoCookie
      BY EmptyTyped DEF Answers, NoAnswer
    <2>2. a = Mismatch \/ \E set \in BOOLEAN : a = done(set)
      BY DEF ServeLogout, Reply
    <2> HIDE DEF a, done
    <2> QED
      BY <2>1, <2>2, Refused DEF AnswerOk
  <1>3. srv' = srv \/ \E s \in Sids : srv' = [srv EXCEPT ![s].st = "logout"]
    BY <1>1 DEF ServeLogout, Reply, Active, Owners
  <1>4. RowsMoved(srv, srv')
    <2>1. CASE srv' = srv
      BY <1>1, <2>1 DEF RowsMoved
    <2>2. ASSUME NEW s \in Sids, srv' = [srv EXCEPT ![s].st = "logout"]
          PROVE  RowsMoved(srv, srv')
      <3>1. /\ srv' \in Rows /\ srv'[s].st = "logout" /\ srv'[s].ver = srv[s].ver
            /\ srv'[s].rot = srv[s].rot /\ \A u \in Sids : u # s => srv'[u] = srv[u]
        BY <1>1, <2>2 DEF Rows
      <3> QED
        BY <1>1, <3>1 DEF RowsMoved
    <2> QED
      BY <1>3, <2>1, <2>2
  <1> HIDE DEF a
  <1>5. /\ o \in Operations /\ o.kind = "logout" /\ o.pc = "answered" /\ o.ans = a
        /\ OperationOk([page[t] EXCEPT !.op = o])
    BY <1>2, AnswerGiven DEF Logins
  <1> HIDE DEF o
  <1>6. page' = [page EXCEPT ![t] = [page[t] EXCEPT !.op = o]]
    BY DEF o, a
  <1> QED
    BY <1>2, <1>4, <1>5, <1>6, OperationAtServer DEF Logins

(* The first transaction of a security change.                               *)
LEMMA BumpServed ==
    ASSUME Sound, NEW t \in Tabs, page[t].op.kind = "rotate", ServeBump(page[t].op),
           page' = [page EXCEPT ![t].op.pc = "advancing"],
           UNCHANGED <<cookie, lock, events, faults, setup>>
    PROVE  SoundStep
  <1> DEFINE p == page[t]
             s == p.op.token.sid
             o == [p.op EXCEPT !.pc = "advancing"]
             q == [p EXCEPT !.op = o]
  <1>1. /\ srv \in Rows /\ p \in Pages /\ p.op \in Operations /\ s \in Owners
        /\ \A u \in Sids : srv[u].ver \in Int
    BY OperationTyped
  <1>2. s \in Sids /\ p.op.token.ver < MaxVer
    BY <1>1 DEF ServeBump, TokenAccepted, Active, Owners
  <1>3. page' = [page EXCEPT ![t] = q]
    BY <1>1 DEF Sound, TypeOK, Pages
  <1>4. RowsMoved(srv, srv')
    <2>1. srv' = [srv EXCEPT ![s].behind = TRUE]
      BY DEF ServeBump
    <2>2. /\ srv' \in Rows
          /\ \A u \in Sids : /\ srv'[u].st = srv[u].st /\ srv'[u].ver = srv[u].ver
                             /\ srv'[u].rot = srv[u].rot
      BY <1>1, <1>2, <2>1 DEF Rows
    <2> QED
      BY <1>1, <2>2 DEF RowsMoved
  <1>5. /\ o \in Operations /\ o.pc = "advancing" /\ o.kind = "rotate"
        /\ o.token = p.op.token
    BY <1>1 DEF Operations
  <1> HIDE DEF o
  <1>6. OperationOk(q)
    <2>1. q.op = o
      BY <1>1 DEF Pages
    <2> HIDE DEF q
    <2> QED
      BY <1>2, <1>5, <2>1 DEF OperationOk, LoggedIn
  <1> QED
    BY <1>3, <1>4, <1>5, <1>6, OperationAtServer

(* The second one: the session that made the change advances too.            *)
LEMMA AdvanceServed ==
    ASSUME Sound, NEW t \in Tabs, page[t].op.kind = "rotate", page[t].op.pc = "advancing",
           srv' = AdvanceUserSessionAuthVersion(page[t].op).srv,
           page' = [page EXCEPT ![t] =
              [page[t] EXCEPT !.op =
                 WithAnswer(page[t].op, AdvanceUserSessionAuthVersion(page[t].op).ans)]],
           UNCHANGED <<cookie, lock, events, faults, setup>>
    PROVE  SoundStep
  <1> DEFINE op == page[t].op
             s == op.token.sid
             a == AdvanceUserSessionAuthVersion(op).ans
             o == WithAnswer(op, a)
  <1>1. /\ srv \in Rows /\ s \in Owners
        /\ \A u \in Sids : srv[u].ver \in 1..MaxVer /\ srv[u].ver \in Int
    BY OperationTyped
  <1>2. op.token.ver < MaxVer
    BY PageHolds DEF PageOk, OperationOk
  <1>3. CASE srv' = srv /\ a = Failed
    <2>1. RowsMoved(srv, srv')
      BY <1>1, <1>3 DEF RowsMoved
    <2> HIDE DEF a
    <2>2. a \in Answers /\ a.kind # "bundle" /\ ~a.set
      BY <1>3, Refused DEF Failed, NoAnswer
    <2>3. /\ o \in Operations /\ o.kind = "rotate" /\ o.pc = "answered" /\ o.ans = a
          /\ OperationOk([page[t] EXCEPT !.op = o])
      BY <2>2, AnswerGiven DEF Logins
    <2> HIDE DEF o
    <2>4. page' = [page EXCEPT ![t] = [page[t] EXCEPT !.op = o]]
      BY DEF o, a
    <2> QED
      BY <2>1, <2>2, <2>3, <2>4, OperationAtServer DEF Logins
  <1>4. CASE /\ Active(s) /\ srv[s].ver = op.token.ver
             /\ srv' = [srv EXCEPT ![s].ver = @ + 1, ![s].behind = FALSE]
             /\ a = [NoAnswer EXCEPT !.kind = "bundle", !.sid = s, !.ver = srv[s].ver + 1]
    <2>1. s \in Sids /\ srv[s].ver + 1 \in 1..MaxVer
      <3>1. s \in Sids
        BY <1>1, <1>4 DEF Active, Owners
      <3>2. srv[s].ver \in 1..MaxVer /\ srv[s].ver < MaxVer
        BY <1>1, <1>2, <1>4, <3>1
      <3> QED
        BY <3>1, <3>2, WebSessionAssumption
    <2>2. /\ srv' \in Rows /\ srv'[s].ver = srv[s].ver + 1
          /\ \A u \in Sids : /\ srv'[u].st = srv[u].st /\ srv'[u].rot = srv[u].rot
                             /\ u # s => srv'[u].ver = srv[u].ver
      <3> DEFINE v == srv[s].ver + 1
                 z == [srv[s] EXCEPT !.ver = v, !.behind = FALSE]
      <3>1. srv' = [srv EXCEPT ![s] = z]
        BY <1>1, <1>4, <2>1 DEF Rows
      <3>2. v \in 1..MaxVer
        BY <2>1
      <3> HIDE DEF v
      <3>3. /\ z \in [st : {"unborn", "active", "logout", "ended", "reused", "outdated"},
                      rot : 0..MaxRot, grace : BOOLEAN, ver : 1..MaxVer, behind : BOOLEAN]
            /\ z.st = srv[s].st /\ z.rot = srv[s].rot /\ z.ver = v
        BY <1>1, <2>1, <3>2 DEF Rows
      <3> HIDE DEF z
      <3> QED
        BY <1>1, <2>1, <3>1, <3>3 DEF Rows, v
    <2>3. RowsMoved(srv, srv')
      <3>1. \A u \in Sids : srv[u].ver <= srv'[u].ver
        BY <1>1, <2>1, <2>2
      <3> QED
        BY <2>2, <3>1 DEF RowsMoved
    <2>4. NoAnswer \in Answers /\ ~NoAnswer.set
      BY EmptyTyped DEF NoAnswer
    <2> HIDE DEF a
    <2>5. srv[s].ver + 1 \in 0..MaxVer
      BY <2>1
    <2>6. /\ a \in Answers /\ a.kind = "bundle" /\ ~a.set /\ a.sid = s
          /\ a.ver = srv[s].ver + 1
      BY <1>1, <1>4, <2>4, <2>5 DEF Answers
    <2>7. /\ o \in Operations /\ o.kind = "rotate" /\ o.pc = "answered" /\ o.ans = a
          /\ OperationOk([page[t] EXCEPT !.op = o])
      BY <2>1, <2>6, AnswerGiven DEF Logins
    <2> HIDE DEF o
    <2>8. o.ans.ver <= srv'[o.ans.sid].ver
      <3>1. o.ans.ver = srv'[s].ver /\ o.ans.sid = s
        BY <2>2, <2>6, <2>7, Zenon
      <3>2. srv'[s].ver \in 0..MaxVer
        BY <2>2, <2>5, Zenon
      <3> QED
        BY <3>1, <3>2
    <2>9. page' = [page EXCEPT ![t] = [page[t] EXCEPT !.op = o]]
      BY DEF o, a
    <2> QED
      BY <2>3, <2>7, <2>8, <2>9, OperationAtServer DEF Logins
  <1> QED
    BY <1>3, <1>4 DEF AdvanceUserSessionAuthVersion, Reply

(* The server works on an operation.                                         *)
LEMMA OperationServedSound ==
    ASSUME Sound, NEW t \in Tabs, OperationServed(t), UNCHANGED setup
    PROVE  SoundStep
  <1> DEFINE p == page[t]
             op == p.op
             Answered(r) ==
                /\ srv' = r.srv
                /\ page' = [page EXCEPT ![t] = [p EXCEPT !.op = WithAnswer(op, r.ans)]]
  <1>1. p \in Pages /\ UNCHANGED <<cookie, lock, events, faults>>
    BY PageHolds DEF OperationServed
  <1>2. \/ op.kind \in Logins /\ \E s \in Unborn : Answered(ServeLogin(s))
        \/ op.kind = "logout" /\ Answered(ServeLogout(op))
        \/ /\ op.kind = "rotate" /\ ServeBump(op)
           /\ page' = [page EXCEPT ![t].op.pc = "advancing"]
        \/ /\ op.kind = "rotate" /\ op.pc = "advancing"
           /\ Answered(AdvanceUserSessionAuthVersion(op))
    BY DEF OperationServed, WithAnswer, Logins
  <1> QED
    BY <1>1, <1>2, LoginServed, LogoutServed, BumpServed, AdvanceServed

(***************************************************************************)
(* The invariant holds.                                                    *)
(***************************************************************************)
(* It holds at first: fresh pages, no cookie, no session.                    *)
LEMMA InitSound ==
    ASSUME Init
    PROVE  Sound
  <1>1. TypeOK
    <2>1. srv \in [Sids -> [st : {"unborn", "active", "logout", "ended", "reused", "outdated"},
                            rot : 0..MaxRot, grace : BOOLEAN, ver : 1..MaxVer,
                            behind : BOOLEAN]]
      BY WebSessionAssumption DEF Init, NewRow
    <2>2. cookie \in Cookies /\ page \in [Tabs -> Pages]
      BY EmptyTyped, FreshOk DEF Init
    <2>3. events \in [Tabs -> Seq([kind : {"authenticated", "signed_out"}, sid : Sids])]
      BY DEF Init
    <2>4. faults \in 0..setup.faults
      BY WebSessionAssumption DEF Init
    <2> QED
      BY <2>1, <2>2, <2>3, <2>4 DEF Init, TypeOK
  <1>2. \A t \in Tabs : page[t] = FreshPage
    BY DEF Init
  <1>3. ~Outstanding(FreshPage) /\ ~Brought(FreshPage) /\ ~LoggedIn(FreshPage)
    BY FreshOk DEF Outstanding, Brought, LoggedIn
  <1>4. \A t \in Tabs : /\ PageOk(page[t]) /\ Versions(srv, page[t]) /\ CacheOk(page[t])
    BY <1>2, <1>3, FreshOk DEF Versions, CacheOk
  <1>5. cookie.sid = NoSid /\ \A s \in Sids : srv[s].rot = 0
    BY DEF Init, NoCookie, NewRow
  <1>6. \A k \in Sids : k \in Owners
    BY DEF Owners
  <1>7. LoginOnce(srv, cookie, page)
    BY <1>2, <1>3, <1>5, <1>6, FreshOk DEF LoginOnce
  <1>8. Locked(srv, setup.rot, cookie, lock, page)
    BY <1>2, <1>3, <1>5, FreshOk DEF Locked, Near, Usable, Newest
  <1>9. ForeignGone(srv, cookie, page)
    BY <1>2, <1>6, FreshOk DEF ForeignGone
  <1> QED
    BY <1>1, <1>4, <1>7, <1>8, <1>9 DEF Sound

(* Every step keeps it.                                                      *)
LEMMA NextSound ==
    ASSUME Sound, [Next]_vars
    PROVE  SoundStep
  <1>1. ASSUME NEW t \in Tabs, Step(t), UNCHANGED setup
        PROVE  SoundStep
    <2>1. \A k \in Owners : GetAnswered(t, k) \/ GetFails(t, k) => SoundStep
      BY <1>1, GetAnsweredSound, GetFailsSound
    <2>2. RefreshStep(t) \/ RunRefresh(t) \/ ResolveAuthentication(t) => SoundStep
      BY <1>1, RefreshServedSound, RefreshFailsSound, RefreshContinuesSound,
         RunRefreshSound, ResolveAuthenticationSound DEF RefreshStep
    <2>3. OperationStep(t) \/ Login(t) \/ OAuthCallback(t) \/ Logout(t) \/ Rotate(t) => SoundStep
      BY <1>1, OperationServedSound, OperationFailsSound, OperationContinuesSound,
         LoginSound, OAuthCallbackSound, LogoutSound, RotateSound DEF OperationStep
    <2>4. Fetch(t) \/ Reload(t) \/ Deliver(t) \/ DropStaleEvent(t) \/ TokenExpires(t) => SoundStep
      BY <1>1, FetchSound, ReloadSound, DeliverSound, DropStaleEventSound, TokenExpiresSound
    <2> QED
      BY <1>1, <2>1, <2>2, <2>3, <2>4 DEF Step, QueryStep
  <1>2. ASSUME NEW s \in Sids, SessionEnds(s) \/ GraceEnds(s), UNCHANGED setup
        PROVE  SoundStep
    BY <1>2, SessionEndsSound, GraceEndsSound
  <1>3. CASE UNCHANGED vars
    <2>1. Sound'
      BY <1>3 DEF vars, state, Sound, TypeOK
    <2> QED
      BY <1>3, <2>1, StayMoves DEF vars, state, SoundStep
  <1> QED
    BY <1>1, <1>2, <1>3 DEF Next

(* The types, and what a page, the cookie, the lock and the session rows     *)
(* know of each other, hold in every reachable state, with or without        *)
(* navigator.locks.                                                          *)
THEOREM SessionSound == Spec => []Sound
  <1>1. Init => Sound
    BY InitSound
  <1>2. Sound /\ [Next]_vars => Sound'
    BY NextSound DEF SoundStep
  <1> QED
    BY <1>1, <1>2, PTL DEF Spec

(* With the Web Lock the browser's cookie is never more than one rotation    *)
(* behind its active session (performRefreshWithBrowserLock).                *)
THEOREM SessionCookieKnown == Spec => []CookieKnown
  <1>1. Sound => CookieKnown
    BY DEF Sound, CookieKnown, Locked, Near, Usable, Active, NextSecret
  <1> QED
    BY <1>1, SessionSound, PTL

(* In a browser with navigator.locks the query cache of a signed-in page     *)
(* holds only what was fetched with a token of its own session.              *)
THEOREM SessionCacheIsolated == Spec => [](setup.locks => CacheIsolated)
  <1>1. Sound => (setup.locks => CacheIsolated)
    BY DEF Sound, CacheOk, CacheIsolated
  <1> QED
    BY <1>1, SessionSound, PTL

(* A page never passes from one session to another without being signed out  *)
(* in between (handleLoginSuccess, the reset on a mismatch), unless it is    *)
(* the page of an OAuth callback whose answer arrives.                       *)
THEOREM SessionNoDirectSwitch == Spec => NoDirectSwitch
  <1>1. Sound /\ [Next]_vars =>
            [\A t \in Tabs : page'[t].auth.sid # page[t].auth.sid
                => \/ NoSid \in {page[t].auth.sid, page'[t].auth.sid}
                   \/ OAuthArrives(t)]_vars
    BY NextSound DEF SoundStep, Moves, OAuthEnds, OAuthArrives
  <1> QED
    BY <1>1, SessionSound, PTL DEF Spec, NoDirectSwitch

(* A page never goes back to an older token of its session, unless the       *)
(* answer of its own security change arrives late (authEpoch).               *)
THEOREM SessionTokenNeverOlder == Spec => TokenNeverOlder
  <1>1. Sound /\ [Next]_vars =>
            [\A t \in Tabs : page[t].auth.sid # NoSid /\ page'[t].auth.sid = page[t].auth.sid
                => page'[t].auth.ver >= page[t].auth.ver \/ RotationArrives(t)]_vars
    BY NextSound DEF SoundStep, Moves, RotationEnds, RotationArrives
  <1> QED
    BY <1>1, SessionSound, PTL DEF Spec, TokenNeverOlder

============================================================================
