-------------------------- MODULE BillingContract --------------------------
(***************************************************************************)
(* What billing promises for one request, whatever rows and processes      *)
(* carry it.  A request is open while its estimate is held, may lapse when *)
(* nobody vouches for it any more, and gets a verdict at most once: it is  *)
(* charged, both purses paying the same bill in one step, or everything it *)
(* took is returned.  A charge can still be taken back; a return is final. *)
(***************************************************************************)
EXTENDS Integers

CONSTANT Requests

VARIABLES
    verdict,    \* "open", "lapsed", "charged" or "returned"
    bill,       \* what a charged request was charged
    paid,       \* what it has taken from the wallet, net
    spent       \* what it has taken from the token, net

contract == <<verdict, bill, paid, spent>>

Init ==
    /\ verdict = [r \in Requests |-> "open"]
    /\ bill = [r \in Requests |-> 0]
    /\ paid = [r \in Requests |-> 0]
    /\ spent = [r \in Requests |-> 0]

(* Only the purses of r may move.                                            *)
OnlyFor(r) ==
    /\ paid' \in [Requests -> Int] /\ spent' \in [Requests -> Int]
    /\ \A s \in Requests \ {r} : paid'[s] = paid[s] /\ spent'[s] = spent[s]

Decide(r, v, b) ==
    /\ verdict' = [verdict EXCEPT ![r] = v]
    /\ bill' = [bill EXCEPT ![r] = b]

(* The estimate is held, topped up or given back.                            *)
Hold(r) ==
    /\ verdict[r] = "open"
    /\ OnlyFor(r)
    /\ UNCHANGED <<verdict, bill>>

(* The wallet's side of the estimate is settled for or returned without a    *)
(* bill; the token is not touched.                                           *)
Lapse(r) ==
    /\ verdict[r] = "open"
    /\ OnlyFor(r)
    /\ spent'[r] = spent[r]
    /\ Decide(r, "lapsed", 0)

(* The failed request's handler moves the token on its own.                  *)
Amend(r) ==
    /\ verdict[r] = "lapsed"
    /\ OnlyFor(r)
    /\ paid'[r] = paid[r]
    /\ UNCHANGED <<verdict, bill>>

Charge(r, b) ==
    /\ verdict[r] \in {"open", "lapsed"}
    /\ OnlyFor(r)
    /\ paid'[r] = b
    /\ spent'[r] = b
    /\ Decide(r, "charged", b)

Return(r) ==
    /\ verdict[r] # "returned"
    /\ OnlyFor(r)
    /\ paid'[r] = 0
    /\ spent'[r] = 0
    /\ Decide(r, "returned", 0)

Next ==
    \E r \in Requests :
       \/ Hold(r) \/ Lapse(r) \/ Amend(r) \/ Return(r)
       \/ Charge(r, bill'[r])

Spec == Init /\ [][Next]_contract
=============================================================================
