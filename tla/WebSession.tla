----------------------------- MODULE WebSession -----------------------------
(***************************************************************************)
(* The browser side of a login session: every open tab of the console     *)
(* (web/src/lib/auth-session.ts, auth-session-sync.ts, http-client.ts and *)
(* the auth store), the refresh cookie and the Web Lock the tabs share,   *)
(* the BroadcastChannel between them, and the session rows the server     *)
(* rotates and revokes (service/auth_session.go, model/user_session.go).  *)
(*                                                                         *)
(* A page is one record: its auth store, the one refresh in flight, one   *)
(* user operation in flight (login from the form or from an OAuth         *)
(* callback, logout, or a request whose answer rotates the token), the GET *)
(* requests in flight, and the query cache.                               *)
(* What JavaScript does between two awaits is one step, and so is the     *)
(* chain of promise continuations a settled refresh runs.                 *)
(*                                                                         *)
(* A refresh secret is derived from the one before it, so a cookie is the *)
(* session and the number of rotations that produced its secret, counted  *)
(* modulo setup.rot + 1.                                                    *)
(***************************************************************************)
EXTENDS Integers, Sequences, FiniteSets

CONSTANTS
    Tabs,        \* open tabs of one browser profile
    Sids,        \* session ids
    NoSid,       \* no session: a null store session, an absent cookie
    NoTab,       \* the refresh lock is free
    Setups,      \* browsers and users the run looks at
    MaxRot,      \* bound: refresh secrets of one session that are told apart
    MaxVer,      \* bound: version of one session
    MaxEvents    \* bound: undelivered events of one tab

(* locks: navigator.locks exists.  sids: the sessions the server may issue. *)
(* route, login, oauth, logout, rotate, fetch: the tabs whose user          *)
(* navigates, signs in, comes back from an OAuth provider, signs out,       *)
(* changes a security setting, or whose page runs authenticated queries.    *)
(* expire: the tabs whose access token may expire.                          *)
(* rot: secrets are counted modulo rot + 1.                                 *)
(* faults: bound on lost requests, answers and events, reloads and sessions *)
(* that end.                                                                *)
ASSUME WebSessionAssumption ==
    /\ NoSid \notin Sids
    /\ NoTab \notin Tabs
    /\ MaxRot \in Nat \ {0}
    /\ MaxVer \in Nat \ {0}
    /\ MaxEvents \in Nat \ {0}
    /\ \A u \in Setups :
         /\ u.locks \in BOOLEAN
         /\ u.sids \subseteq Sids
         /\ u.route \cup u.login \cup u.logout \cup u.rotate \cup u.fetch \subseteq Tabs
         /\ u.oauth \subseteq Tabs
         /\ u.expire \subseteq Tabs
         /\ u.rot \in 1..MaxRot
         /\ u.faults \in Nat

VARIABLES
    srv,      \* the server's row of each session
    cookie,   \* the browser's refresh cookie
    lock,     \* holder of the Web Lock 'new-api:auth-refresh'
    events,   \* undelivered BroadcastChannel messages of each tab
    page,     \* the page each tab shows
    faults,   \* how often the environment has failed
    setup     \* the browser and its users; never changes

\* What the actions change.
state == <<srv, cookie, lock, events, page, faults>>

vars == <<state, setup>>

Owners == Sids \cup {NoSid}
Cookies == [sid : Owners, n : 0..MaxRot]
Stores == [sid : Owners, ver : 0..MaxVer, fresh : BOOLEAN,
           boot : {"idle", "checking", "complete"}]
Tokens == [sid : Owners, ver : 0..MaxVer, fresh : BOOLEAN]
Answers == [kind : {"none", "bundle", "mismatch", "unauthorized", "done", "error"},
            sid : Owners, ver : 0..MaxVer, set : BOOLEAN, jar : Cookies]
Refreshes == [pc : {"idle", "queued", "sent", "answered"},
              current : BOOLEAN, first : BOOLEAN,
              expect : Owners, jar : Cookies, ans : Answers]
Operations == [kind : {"none", "login", "oauth", "logout", "rotate"},
               pc : {"idle", "refreshing", "sent", "advancing", "answered"},
               again : BOOLEAN, from : Owners, token : Tokens,
               jar : Cookies, ans : Answers]
Gets == [phase : {"none", "sent", "refreshing"}, retried : BOOLEAN,
         live : BOOLEAN, token : Tokens]
Pages == [auth : Stores, rf : Refreshes, op : Operations,
          get : [Owners -> Gets], cache : SUBSET Owners]

NoCookie == [sid |-> NoSid, n |-> 0]
SignedOut(boot) == [sid |-> NoSid, ver |-> 0, fresh |-> FALSE, boot |-> boot]
NoToken == [sid |-> NoSid, ver |-> 0, fresh |-> FALSE]
NoAnswer == [kind |-> "none", sid |-> NoSid, ver |-> 0, set |-> FALSE, jar |-> NoCookie]
NoRefresh == [pc |-> "idle", current |-> FALSE, first |-> FALSE,
              expect |-> NoSid, jar |-> NoCookie, ans |-> NoAnswer]
NoOperation == [kind |-> "none", pc |-> "idle", again |-> FALSE, from |-> NoSid,
                token |-> NoToken, jar |-> NoCookie, ans |-> NoAnswer]
NoGet == [phase |-> "none", retried |-> FALSE, live |-> FALSE,
          token |-> NoToken]

(* A page that has just been loaded: module state and store are new.       *)
FreshPage == [auth |-> SignedOut("idle"), rf |-> NoRefresh, op |-> NoOperation,
              get |-> [k \in Owners |-> NoGet], cache |-> {}]

----------------------------------------------------------------------------
(* The page: what one function of the source does to its record.           *)

(* Mutant: the root component does not clear the queries when the store's  *)
(* session changes.                                                        *)
SetStoreKeepsQueries(p, a) == [p EXCEPT !.auth = a]

(* useAuthStore's set, with the root component's subscription: a change of *)
(* session empties the query cache and detaches its running fetches.       *)
SetStore(p, a) ==
    IF a.sid = p.auth.sid THEN [p EXCEPT !.auth = a]
    ELSE [p EXCEPT !.auth = a, !.cache = {},
                   !.get = [k \in Owners |-> [@[k] EXCEPT !.live = FALSE]]]

(* authEpoch += 1: the refresh in flight is not current any more.          *)
BumpEpoch(p) == [p EXCEPT !.rf.current = FALSE]

ApplyAuthBundle(p, s, v) ==
    BumpEpoch(SetStore(p, [sid |-> s, ver |-> v, fresh |-> TRUE, boot |-> "complete"]))

ClearAuthentication(p) == BumpEpoch(SetStore(p, SignedOut("complete")))

(* Mutant: the rotated token is stored without advancing authEpoch.        *)
ApplyAuthRotationSameEpoch(p, s, v) ==
    IF s # p.auth.sid THEN p
    ELSE SetStore(p, [sid |-> s, ver |-> v, fresh |-> TRUE, boot |-> "complete"])

ApplyAuthRotation(p, s, v) ==
    IF s # p.auth.sid THEN p ELSE ApplyAuthBundle(p, s, v)

(* Mutant: a login answer is applied whatever session the page has now.    *)
HandleLoginSuccessAlways(p, mounted, from, s, v) ==
    IF mounted THEN ApplyAuthBundle(p, s, v) ELSE p

(* handleLoginSuccess: the answer of a login the page has outlived (its     *)
(* form is not mounted any more, or another session was established since  *)
(* it was submitted) is dropped.                                           *)
HandleLoginSuccess(p, mounted, from, s, v) ==
    IF ~mounted \/ p.auth.sid # from THEN p ELSE ApplyAuthBundle(p, s, v)

(* refreshAuthentication: one refresh at a time, shared by its callers.    *)
RefreshAuthentication(p) ==
    IF p.rf.pc # "idle" THEN p
    ELSE [p EXCEPT !.rf = [NoRefresh EXCEPT !.pc = "queued", !.current = TRUE,
                                            !.first = TRUE]]

(* currentValidAuthBundle: a session whose access token has not expired.   *)
HasValidBundle(p) == p.auth.sid # NoSid /\ p.auth.fresh

(* The in-flight GET map is keyed by the session and the URL.              *)
GetKey(p) == p.auth.sid

(* The Authorization header the request interceptor sets.                  *)
Token(p) == [sid |-> p.auth.sid, ver |-> p.auth.ver, fresh |-> p.auth.fresh]

SendGet(p, k, retried, live) ==
    [p EXCEPT !.get[k] = [phase |-> "sent", retried |-> retried,
                          live |-> live, token |-> Token(p)]]

SendOperation(p, kind, again, jar) ==
    [p EXCEPT !.op = [kind |-> kind, pc |-> "sent", again |-> again,
                      from |-> p.auth.sid, token |-> Token(p), jar |-> jar,
                      ans |-> NoAnswer]]

(* The 401 interceptor's continuation once the refresh has settled.        *)
RetriedGet(p, g, out) ==
    IF g.phase # "refreshing" THEN g
    ELSE IF out = "authenticated"
         THEN [phase |-> "sent", retried |-> TRUE, live |-> g.live, token |-> Token(p)]
         ELSE NoGet

(* executeLogout's mismatch recovery and getFreshAuthHeaders, once the      *)
(* refresh they await has settled; jar is the cookie they are sent with.    *)
ContinueOperation(p, out, jar) ==
    CASE p.op.pc # "refreshing" -> p
      [] p.op.kind = "logout" /\ out = "authenticated" ->
            SendOperation(p, "logout", FALSE, jar)
      [] p.op.kind = "logout" /\ out = "anonymous" ->
            [ClearAuthentication(p) EXCEPT !.cache = {}, !.op = NoOperation]
      [] p.op.kind = "rotate" /\ (out = "authenticated" \/ HasValidBundle(p)) ->
            SendOperation(p, "rotate", FALSE, jar)
      [] OTHER -> [p EXCEPT !.op = NoOperation]

(* The refresh promise settles with outcome out and everything that awaits *)
(* it continues. A request that finds the page signed out loads the        *)
(* sign-in page, unless that is the page already shown.                    *)
Settled(p, out, jar) ==
    LET q == [p EXCEPT !.rf = NoRefresh]
        waits == \E k \in Owners : p.get[k].phase = "refreshing"
        r == [ContinueOperation(q, out, jar) EXCEPT
                 !.get = [k \in Owners |-> RetriedGet(q, @[k], out)]]
    IN IF waits /\ out \in {"anonymous", "out_of_sync"} THEN {r, FreshPage} ELSE {r}

(* publishAuthSessionEvent: to every other tab.                            *)
Publish(t, kind, s) ==
    [u \in Tabs |-> IF u = t \/ s = NoSid THEN events[u]
                    ELSE Append(events[u], [kind |-> kind, sid |-> s])]

RoomToPublish(t) == \A u \in Tabs \ {t} : Len(events[u]) < MaxEvents

(* One more failure of the environment, within the bound.                  *)
Fault == faults < setup.faults /\ faults' = faults + 1

(* Mutant: the lock outlives the refresh it was taken for.                 *)
ReleaseLockNever(t) == lock' = lock

(* navigator.locks: the lock ends with the promise of its callback.        *)
ReleaseLock(t) == lock' = IF lock = t THEN NoTab ELSE lock

----------------------------------------------------------------------------
(* The server: what one request does to the session rows, and its answer.  *)

Active(s) == s # NoSid /\ srv[s].st = "active"

Unauthorized == [NoAnswer EXCEPT !.kind = "unauthorized", !.set = TRUE]
Mismatch == [NoAnswer EXCEPT !.kind = "mismatch"]
Failed == [NoAnswer EXCEPT !.kind = "error"]
Bundle(s, v, n) ==
    [kind |-> "bundle", sid |-> s, ver |-> v, set |-> TRUE, jar |-> [sid |-> s, n |-> n]]

(* deriveNextRefreshSecret.                                                *)
NextSecret(n) == (n + 1) % (setup.rot + 1)

(* A handler commits the session rows and answers.                         *)
Reply(rows, ans) == [srv |-> rows, ans |-> ans]

(* RefreshAuth with the cookie jar and the header expect: a session whose  *)
(* user has moved to a newer auth version is revoked; a current secret     *)
(* rotates; the previous one is answered like the first request during its *)
(* grace and revokes the session after it; an older one is unknown.        *)
ServeRefresh(jar, expect) ==
    LET s == jar.sid
        row == srv[s]
        previous == NextSecret(jar.n) = row.rot
        Revoke(why) == Reply([srv EXCEPT ![s].st = why], Unauthorized)
    IN CASE s # NoSid /\ expect \notin {NoSid, s} -> Reply(srv, Mismatch)
         [] ~Active(s) /\ (s = NoSid \/ expect \in {NoSid, s}) -> Reply(srv, Unauthorized)
         [] OTHER ->
              IF row.behind THEN Revoke("outdated")
              ELSE IF jar.n = row.rot
              THEN Reply([srv EXCEPT ![s].rot = NextSecret(@), ![s].grace = TRUE],
                         Bundle(s, row.ver, NextSecret(row.rot)))
              ELSE IF previous /\ row.grace THEN Reply(srv, Bundle(s, row.ver, row.rot))
              ELSE IF previous THEN Revoke("reused")
              ELSE Reply(srv, Unauthorized)

(* AuthLogout: by the access token, or by the cookie when the token does   *)
(* not parse any more.                                                     *)
ServeLogout(op) ==
    LET s == op.jar.sid
        done(set) == [NoAnswer EXCEPT !.kind = "done", !.set = set]
        holds == \/ op.jar.n = srv[s].rot
                 \/ NextSecret(op.jar.n) = srv[s].rot /\ srv[s].grace
    IN IF s # NoSid /\ s # op.from THEN Reply(srv, Mismatch)
       ELSE IF op.token.fresh
       THEN Reply(IF Active(op.token.sid)
                  THEN [srv EXCEPT ![op.token.sid].st = "logout"] ELSE srv, done(s # NoSid))
       ELSE Reply(IF Active(s) /\ holds THEN [srv EXCEPT ![s].st = "logout"] ELSE srv,
                  done(TRUE))

(* CreateLoginSession for a new session id.                                *)
Unborn == {s \in setup.sids : srv[s].st = "unborn"}

ServeLogin(s) == Reply([srv EXCEPT ![s].st = "active"], Bundle(s, srv[s].ver, 0))

(* Mutant: the session's row is not looked at.                             *)
TokenAcceptedUnchecked(token) == token.fresh

(* ValidateLoginSession: the token's session is active at the token's      *)
(* version, and so is the user.                                            *)
TokenAccepted(token) ==
    /\ token.fresh
    /\ Active(token.sid)
    /\ token.ver = srv[token.sid].ver
    /\ ~srv[token.sid].behind

(* A security change in two transactions: the user's auth version is       *)
(* advanced first (BumpUserAuthVersion, or the change's own transaction)   *)
(* and only then the session that made the change.                         *)
ServeBump(op) ==
    /\ TokenAccepted(op.token)
    /\ srv[op.token.sid].ver < MaxVer
    /\ srv' = [srv EXCEPT ![op.token.sid].behind = TRUE]

AdvanceUserSessionAuthVersion(op) ==
    LET s == op.token.sid
    IN IF Active(s) /\ srv[s].ver = op.token.ver
       THEN Reply([srv EXCEPT ![s].ver = @ + 1, ![s].behind = FALSE],
                  [NoAnswer EXCEPT !.kind = "bundle", !.sid = s, !.ver = srv[s].ver + 1])
       ELSE Reply(srv, Failed)

(* The browser stores the answer's Set-Cookie and then runs the page's     *)
(* continuation.                                                           *)
StoreCookie(ans) == cookie' = IF ans.set THEN ans.jar ELSE cookie

----------------------------------------------------------------------------
(* Refresh, in the page.                                                   *)

(* resolveAuthentication, from a route guard (or from the boot path when   *)
(* the session hint does not skip it).                                     *)
ResolveAuthentication(t) ==
    LET p == page[t]
    IN /\ t \in setup.route
       /\ HasValidBundle(p) \/ p.auth.sid # NoSid \/ p.auth.boot # "complete"
       /\ page' = [page EXCEPT ![t] =
                     IF HasValidBundle(p) THEN [p EXCEPT !.auth.boot = "complete"]
                     ELSE RefreshAuthentication([p EXCEPT !.auth.boot = "checking"])]
       /\ UNCHANGED <<srv, cookie, lock, events, faults>>

(* Mutant: the refresh does not wait for the Web Lock.                     *)
LockFreeAlways == TRUE

LockFree == setup.locks => lock = NoTab

(* The lock is granted and runRefresh starts: a superseded refresh returns *)
(* at once, a current one sends its request with the cookie of the moment. *)
RunRefresh(t) ==
    LET p == page[t]
    IN /\ p.rf.pc = "queued"
       /\ LockFree
       /\ IF p.rf.current
          THEN /\ page' = [page EXCEPT ![t].rf.pc = "sent", ![t].rf.jar = cookie,
                                       ![t].rf.expect = p.auth.sid]
               /\ lock' = IF setup.locks THEN t ELSE lock
          ELSE /\ \E q \in Settled(p, "transient", cookie) : page' = [page EXCEPT ![t] = q]
               /\ UNCHANGED lock
       /\ UNCHANGED <<srv, cookie, events, faults>>

RefreshServed(t) ==
    /\ page[t].rf.pc = "sent"
    /\ LET r == ServeRefresh(page[t].rf.jar, page[t].rf.expect)
       IN /\ srv' = r.srv
          /\ page' = [page EXCEPT ![t].rf = [@ EXCEPT !.pc = "answered", !.ans = r.ans,
                                                       !.jar = NoCookie, !.expect = NoSid]]
    /\ UNCHANGED <<cookie, lock, events, faults>>

(* The request is lost, refused by the rate limit or fails in the server,  *)
(* or its answer is lost after the server acted on it.                     *)
RefreshFails(t) ==
    /\ page[t].rf.pc = "sent" \/ (page[t].rf.pc = "answered" /\ page[t].rf.ans # Failed)
    /\ page' = [page EXCEPT ![t].rf = [@ EXCEPT !.pc = "answered", !.ans = Failed,
                                                 !.jar = NoCookie, !.expect = NoSid]]
    /\ Fault
    /\ UNCHANGED <<srv, cookie, lock, events>>

(* createRefreshRunner after its request: the outcome of the answer.       *)
RefreshContinues(t) ==
    LET p == page[t]
        ans == p.rf.ans
        Ends(q, out, ev) ==
            \E r \in Settled(q, out, IF ans.set THEN ans.jar ELSE cookie) :
               /\ page' = [page EXCEPT ![t] = r]
               /\ events' = IF r = FreshPage THEN [ev EXCEPT ![t] = <<>>] ELSE ev
               /\ ReleaseLock(t)
    IN /\ p.rf.pc = "answered"
       /\ StoreCookie(ans)
       /\ UNCHANGED <<srv, faults>>
       /\ CASE ~p.rf.current ->
                 Ends(p, "transient", events)
            [] p.rf.current /\ ans.kind = "bundle" ->
                 Ends(ApplyAuthBundle(p, ans.sid, ans.ver), "authenticated", events)
            [] p.rf.current /\ ans.kind = "mismatch" ->
                 IF p.rf.first
                 THEN /\ page' = [page EXCEPT ![t] =
                            [SetStore(p, SignedOut("idle")) EXCEPT
                               !.rf = [p.rf EXCEPT !.pc = "sent", !.first = FALSE,
                                         !.jar = cookie, !.ans = NoAnswer]]]
                      /\ UNCHANGED <<lock, events>>
                 ELSE Ends(ClearAuthentication(p), "out_of_sync", events)
            [] p.rf.current /\ ans.kind = "unauthorized" ->
                 /\ RoomToPublish(t)
                 /\ Ends(ClearAuthentication(p), "anonymous",
                         Publish(t, "signed_out", p.auth.sid))
            [] OTHER ->
                 Ends([p EXCEPT !.auth.boot = "idle"], "transient", events)

----------------------------------------------------------------------------
(* Login, logout and the requests that rotate the access token.            *)

(* The sign-in form is shown to a page without a session.                  *)
Login(t) ==
    /\ t \in setup.login
    /\ page[t].op.kind = "none"
    /\ page[t].auth.sid = NoSid
    /\ Unborn # {}
    /\ page' = [page EXCEPT ![t] = SendOperation(@, "login", FALSE, cookie)]
    /\ UNCHANGED <<srv, cookie, lock, events, faults>>

(* The page an OAuth provider sends the browser back to: loaded by the     *)
(* navigation, it has run no query; once the root's bootstrap is over it   *)
(* sends its login, whatever session the bootstrap has found.              *)
OAuthCallback(t) ==
    /\ t \in setup.oauth
    /\ page[t].op.kind = "none"
    /\ page[t].rf.pc = "idle"
    /\ page[t].cache = {} /\ \A k \in Owners : page[t].get[k].phase = "none"
    /\ Unborn # {}
    /\ page' = [page EXCEPT ![t] = SendOperation(@, "oauth", FALSE, cookie)]
    /\ UNCHANGED <<srv, cookie, lock, events, faults>>

(* The sign-out dialog: executeLogout.                                     *)
Logout(t) ==
    /\ t \in setup.logout
    /\ page[t].op.kind = "none"
    /\ page[t].auth.sid # NoSid
    /\ page' = [page EXCEPT ![t] = SendOperation(@, "logout", TRUE, cookie)]
    /\ UNCHANGED <<srv, cookie, lock, events, faults>>

(* A request with a security proof: getFreshAuthHeaders refreshes first    *)
(* when the token is about to expire.                                      *)
Rotate(t) ==
    /\ t \in setup.rotate
    /\ page[t].op.kind = "none"
    /\ page[t].auth.sid # NoSid
    /\ page' = [page EXCEPT ![t] =
                  IF @.auth.fresh THEN SendOperation(@, "rotate", FALSE, cookie)
                  ELSE RefreshAuthentication(
                         [@ EXCEPT !.op = [NoOperation EXCEPT !.kind = "rotate",
                                                              !.pc = "refreshing"]])]
    /\ UNCHANGED <<srv, cookie, lock, events, faults>>

OperationServed(t) ==
    LET op == page[t].op
        Answered(r) ==
            /\ srv' = r.srv
            /\ page' = [page EXCEPT ![t].op = [@ EXCEPT !.pc = "answered", !.ans = r.ans,
                                                        !.jar = NoCookie, !.token = NoToken]]
    IN /\ \/ /\ op.kind \in {"login", "oauth"} /\ op.pc = "sent"
             /\ \E s \in Unborn : Answered(ServeLogin(s))
          \/ /\ op.kind = "logout" /\ op.pc = "sent"
             /\ Answered(ServeLogout(op))
          \/ /\ op.kind = "rotate" /\ op.pc = "sent"
             /\ ServeBump(op)
             /\ page' = [page EXCEPT ![t].op.pc = "advancing"]
          \/ /\ op.kind = "rotate" /\ op.pc = "advancing"
             /\ Answered(AdvanceUserSessionAuthVersion(op))
       /\ UNCHANGED <<cookie, lock, events, faults>>

(* A refused or lost request, or a lost answer: the page shows an error.   *)
OperationFails(t) ==
    /\ page[t].op.pc \in {"sent", "answered"}
    /\ page' = [page EXCEPT ![t].op = NoOperation]
    /\ Fault
    /\ UNCHANGED <<srv, cookie, lock, events>>

(* The operation of page t is over and leaves the page as q.               *)
EndOperation(t, q) == page' = [page EXCEPT ![t] = [q EXCEPT !.op = NoOperation]]

(* The answer of a login form goes through handleLoginSuccess.  Applying it *)
(* tells the other tabs of a session the page did not have.                *)
LoginAnswered(t, p, ans) ==
    /\ RoomToPublish(t)
    /\ \E mounted \in BOOLEAN :
         /\ EndOperation(t, HandleLoginSuccess(p, mounted, p.op.from, ans.sid, ans.ver))
         /\ events' = IF mounted /\ p.auth.sid = p.op.from
                      THEN Publish(t, "authenticated", ans.sid) ELSE events

(* The OAuth callback page applies the answer as it is.                    *)
OAuthAnswered(t, p, ans) ==
    /\ RoomToPublish(t)
    /\ EndOperation(t, ApplyAuthBundle(p, ans.sid, ans.ver))
    /\ events' = IF p.auth.sid # ans.sid
                 THEN Publish(t, "authenticated", ans.sid) ELSE events

(* The response interceptor takes the token of a security change.          *)
RotationAnswered(t, p, ans) ==
    /\ EndOperation(t, IF ans.kind = "bundle" THEN ApplyAuthRotation(p, ans.sid, ans.ver) ELSE p)
    /\ UNCHANGED events

(* The sign-out dialog clears the page and its cache, or, once, refreshes   *)
(* after a session mismatch before it tries again.                         *)
LogoutAnswered(t, p, ans) ==
    \/ /\ ans.kind = "done"
       /\ EndOperation(t, [ClearAuthentication(p) EXCEPT !.cache = {}])
       /\ RoomToPublish(t)
       /\ events' = Publish(t, "signed_out", p.auth.sid)
    \/ /\ ans.kind # "done"
       /\ IF p.op.again
          THEN page' = [page EXCEPT ![t] =
                  RefreshAuthentication([p EXCEPT !.op.pc = "refreshing"])]
          ELSE EndOperation(t, p)
       /\ UNCHANGED events

(* The answer arrives, and with it its cookie.                             *)
OperationContinues(t) ==
    LET p == page[t] IN
    /\ p.op.pc = "answered"
    /\ StoreCookie(p.op.ans)
    /\ \/ p.op.kind = "login" /\ LoginAnswered(t, p, p.op.ans)
       \/ p.op.kind = "oauth" /\ OAuthAnswered(t, p, p.op.ans)
       \/ p.op.kind = "rotate" /\ RotationAnswered(t, p, p.op.ans)
       \/ p.op.kind = "logout" /\ LogoutAnswered(t, p, p.op.ans)
    /\ UNCHANGED <<srv, lock, faults>>

----------------------------------------------------------------------------
(* Authenticated GET requests and the query cache.                         *)

(* A query runs: it joins the GET in flight under its key or sends one.    *)
Fetch(t) ==
    LET p == page[t]
        g == p.get[GetKey(p)]
    IN /\ t \in setup.fetch
       /\ ~g.live
       /\ page' = [page EXCEPT ![t] = IF g.phase = "none"
                                      THEN SendGet(p, GetKey(p), FALSE, TRUE)
                                      ELSE [p EXCEPT !.get[GetKey(p)].live = TRUE]]
       /\ UNCHANGED <<srv, cookie, lock, events, faults>>

(* The answer arrives. Data belongs to the session whose token fetched it. *)
(* A first 401 refreshes; a second one signs the page out and loads the    *)
(* sign-in page.                                                           *)
GetAnswered(t, k) ==
    LET p == page[t]
        g == p.get[k]
    IN /\ g.phase = "sent"
       /\ IF TokenAccepted(g.token)
          THEN page' = [page EXCEPT ![t].get[k] = NoGet,
                                    ![t].cache = IF g.live THEN @ \cup {g.token.sid} ELSE @]
               /\ UNCHANGED <<lock, events>>
          ELSE IF ~g.retried
          THEN page' = [page EXCEPT ![t] =
                   RefreshAuthentication([p EXCEPT !.get[k].phase = "refreshing"])]
               /\ UNCHANGED <<lock, events>>
          ELSE \/ page' = [page EXCEPT ![t] = [ClearAuthentication(p) EXCEPT !.get[k] = NoGet]]
                  /\ UNCHANGED <<lock, events>>
               \/ /\ page' = [page EXCEPT ![t] = FreshPage]
                  /\ events' = [events EXCEPT ![t] = <<>>]
                  /\ ReleaseLock(t)
       /\ UNCHANGED <<srv, cookie, faults>>

GetFails(t, k) ==
    /\ page[t].get[k].phase = "sent"
    /\ page' = [page EXCEPT ![t].get[k] = NoGet]
    /\ Fault
    /\ UNCHANGED <<srv, cookie, lock, events>>

----------------------------------------------------------------------------
(* Between tabs, and the environment.                                      *)

(* The page is loaded again: what was in flight is aborted, the lock it    *)
(* held and the events it had not seen are gone.                           *)
Reload(t) ==
    /\ page[t] # FreshPage
    /\ page' = [page EXCEPT ![t] = FreshPage]
    /\ events' = [events EXCEPT ![t] = <<>>]
    /\ ReleaseLock(t)
    /\ Fault
    /\ UNCHANGED <<srv, cookie>>

(* The root component's listener. A login in another tab replaces this     *)
(* page; a logout signs it out if it shows that session.                   *)
Deliver(t) ==
    LET p == page[t]
        e == Head(events[t])
        rest == events' = [events EXCEPT ![t] = Tail(@)]
    IN /\ events[t] # <<>>
       /\ IF e.kind = "authenticated" /\ e.sid # p.auth.sid
          THEN /\ page' = [page EXCEPT ![t] = FreshPage]
               /\ events' = [events EXCEPT ![t] = <<>>]
               /\ ReleaseLock(t)
          ELSE IF e.kind = "signed_out" /\ e.sid = p.auth.sid
          THEN /\ page' = [page EXCEPT ![t] = [ClearAuthentication(p) EXCEPT !.cache = {}]]
               /\ rest
               /\ UNCHANGED lock
          ELSE rest /\ UNCHANGED <<page, lock>>
       /\ UNCHANGED <<srv, cookie, faults>>

(* An event older than a minute (a frozen tab) is not delivered.           *)
DropStaleEvent(t) ==
    /\ events[t] # <<>>
    /\ events' = [events EXCEPT ![t] = Tail(@)]
    /\ Fault
    /\ UNCHANGED <<srv, cookie, lock, page>>

TokenExpires(t) ==
    /\ t \in setup.expire
    /\ page[t].auth.fresh
    /\ page' = [page EXCEPT ![t].auth.fresh = FALSE]
    /\ UNCHANGED <<srv, cookie, lock, events, faults>>

(* The session expires, or is revoked from another device.                 *)
SessionEnds(s) ==
    /\ srv[s].st = "active"
    /\ srv' = [srv EXCEPT ![s].st = "ended"]
    /\ Fault
    /\ UNCHANGED <<cookie, lock, events, page>>

(* RefreshReplayWindow passes.                                             *)
GraceEnds(s) ==
    /\ srv[s].grace
    /\ srv' = [srv EXCEPT ![s].grace = FALSE]
    /\ UNCHANGED <<cookie, lock, events, page, faults>>

----------------------------------------------------------------------------
NewRow == [st |-> "unborn", rot |-> 0, grace |-> FALSE, ver |-> 1, behind |-> FALSE]

Init ==
    /\ srv = [s \in Sids |-> NewRow]
    /\ cookie = NoCookie
    /\ lock = NoTab
    /\ events = [t \in Tabs |-> <<>>]
    /\ page = [t \in Tabs |-> FreshPage]
    /\ faults = 0
    /\ setup \in Setups

RefreshStep(t) == RefreshServed(t) \/ RefreshFails(t) \/ RefreshContinues(t)

OperationStep(t) == OperationServed(t) \/ OperationFails(t) \/ OperationContinues(t)

QueryStep(t) == Fetch(t) \/ \E k \in Owners : GetAnswered(t, k)

Step(t) ==
    \/ ResolveAuthentication(t)
    \/ RunRefresh(t) \/ RefreshStep(t)
    \/ Login(t) \/ OAuthCallback(t) \/ Logout(t) \/ Rotate(t)
    \/ OperationStep(t)
    \/ QueryStep(t)
    \/ \E k \in Owners : GetFails(t, k)
    \/ Reload(t) \/ Deliver(t) \/ DropStaleEvent(t) \/ TokenExpires(t)

Next ==
    /\ \/ \E t \in Tabs : Step(t)
       \/ \E s \in Sids : SessionEnds(s) \/ GraceEnds(s)
    /\ UNCHANGED setup

Spec == Init /\ [][Next]_vars

(* The browser delivers answers and events, runs continuations and grants  *)
(* the lock in the order of the requests for it (hence strong fairness);   *)
(* the server answers; a mounted query is fetched again.                   *)
Fairness ==
    /\ \A t \in Tabs :
          /\ SF_state(RunRefresh(t))
          /\ WF_state(RefreshStep(t))
          /\ WF_state(OperationStep(t))
          /\ WF_state(QueryStep(t))
          /\ WF_state(Deliver(t))

FairSpec == Spec /\ Fairness

----------------------------------------------------------------------------
TypeOK ==
    /\ srv \in [Sids -> [st : {"unborn", "active", "logout", "ended", "reused", "outdated"},
                         rot : 0..MaxRot, grace : BOOLEAN, ver : 1..MaxVer,
                         behind : BOOLEAN]]
    /\ cookie \in Cookies
    /\ lock \in Tabs \cup {NoTab}
    /\ events \in [Tabs -> Seq([kind : {"authenticated", "signed_out"}, sid : Sids])]
    /\ page \in [Tabs -> Pages]
    /\ faults \in 0..setup.faults
    /\ setup \in Setups

(* The query cache of a signed-in page holds only what was fetched with a  *)
(* token of its own session, although a GET started before the session     *)
(* changed may be answered, retried with the new token, or joined, later   *)
(* (http-client.ts, __root.tsx).                                           *)
CacheIsolated ==
    \A t \in Tabs : page[t].auth.sid # NoSid => page[t].cache \subseteq {page[t].auth.sid}

(* The answer of the page's own security change arrives.                   *)
RotationArrives(t) ==
    page[t].op.kind = "rotate" /\ page[t].op.pc = "answered" /\ page'[t].op.kind = "none"

(* A page never goes back to an older token of its session: a refresh that *)
(* was answered before a security change rotated the token is superseded   *)
(* (authEpoch in auth-session.ts).  The answer of a security change itself *)
(* is applied whatever the page has learned since: applyAuthRotation looks *)
(* at the session only, not at the version.                                *)
TokenNeverOlder ==
    [][\A t \in Tabs : page[t].auth.sid # NoSid /\ page'[t].auth.sid = page[t].auth.sid
            => page'[t].auth.ver >= page[t].auth.ver \/ RotationArrives(t)]_vars

(* The answer of the page's OAuth callback arrives.                        *)
OAuthArrives(t) ==
    page[t].op.kind = "oauth" /\ page[t].op.pc = "answered" /\ page'[t].op.kind = "none"

(* A page never passes from one session to another without being signed    *)
(* out in between: a sign-in form's answer that comes after a refresh has  *)
(* established another session is dropped, and a mismatch resets first.    *)
(* The one exception is the page of an OAuth callback, whose answer is     *)
(* applied whatever session the root's bootstrap or a later refresh has    *)
(* put there: routes/oauth/$provider.tsx has no such check.                *)
NoDirectSwitch ==
    [][\A t \in Tabs : page'[t].auth.sid # page[t].auth.sid
            => \/ NoSid \in {page[t].auth.sid, page'[t].auth.sid}
               \/ OAuthArrives(t)]_vars

(* With the Web Lock the browser's cookie is never more than one rotation  *)
(* behind its active session, so it is a secret the server still knows     *)
(* (performRefreshWithBrowserLock).  The types are checked along.          *)
CookieKnown ==
    /\ TypeOK
    /\ setup.locks /\ Active(cookie.sid)
           => srv[cookie.sid].rot \in {cookie.n, NextSecret(cookie.n)}

(* Every refresh settles, so that no page stays behind the shared lock or  *)
(* behind a promise that is never cleared (refreshPromise in               *)
(* auth-session.ts).                                                       *)
RefreshSettles ==
    \A t \in Tabs : page[t].rf.pc # "idle" ~> page[t].rf.pc = "idle"

(* A page that keeps querying does not go on showing a session that is     *)
(* over, even when the sign-out event came before the page had the session *)
(* and was ignored.                                                        *)
EndedSessionLeaves ==
    \A t \in Tabs, s \in Sids :
        (t \in setup.fetch /\ page[t].auth.sid = s
            /\ srv[s].st \in {"logout", "ended", "reused", "outdated"})
            ~> page[t].auth.sid # s

============================================================================
