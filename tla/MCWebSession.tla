---------------------------- MODULE MCWebSession ----------------------------
(***************************************************************************)
(* The browsers and users WebSession is checked for.                       *)
(***************************************************************************)
EXTENDS WebSession

CONSTANTS t1, t2, s1, s2

Quiet == [locks |-> TRUE, sids |-> {s1}, route |-> {}, login |-> {},
          oauth |-> {}, logout |-> {}, rotate |-> {}, fetch |-> {}, expire |-> {t1, t2},
          rot |-> 1, faults |-> 0]

MCSetups == {
    \* two sessions follow each other in two tabs
    [Quiet EXCEPT !.sids = {s1, s2}, !.route = {t1}, !.login = {t2}, !.logout = {t2},
                  !.expire = {t1}],
    \* both tabs refresh one session; answers are lost, pages reloaded
    [Quiet EXCEPT !.route = {t1, t2}, !.login = {t1}, !.rot = 3, !.faults = 1],
    \* a session ends, or is signed out of, under a page that keeps querying
    [Quiet EXCEPT !.login = {t2}, !.logout = {t2}, !.fetch = {t1}, !.faults = 1,
                  !.expire = {t1}],
    \* queries of one session in flight when the next one starts
    [Quiet EXCEPT !.sids = {s1, s2}, !.login = {t1}, !.fetch = {t1}, !.faults = 1,
                  !.expire = {}],
    \* queries while another tab replaces the session
    [Quiet EXCEPT !.sids = {s1, s2}, !.login = {t1, t2}, !.fetch = {t1}, !.expire = {}],
    \* an OAuth callback on a page that may have a session, its queries, and a login beside it
    [Quiet EXCEPT !.sids = {s1, s2}, !.route = {t1}, !.login = {t2}, !.oauth = {t1},
                  !.fetch = {t1}, !.expire = {}],
    \* an OAuth callback while tokens expire and are refreshed
    [Quiet EXCEPT !.sids = {s1, s2}, !.route = {t1}, !.oauth = {t1}, !.expire = {t1}],
    \* security changes, of one tab or of both, while refreshes are in flight
    [Quiet EXCEPT !.route = {t1}, !.login = {t1}, !.rotate = {t1}, !.locks = FALSE],
    [Quiet EXCEPT !.route = {t1}, !.login = {t2}, !.rotate = {t1, t2}]}
============================================================================
