---------------------------- MODULE OneTimeToken ----------------------------
(***************************************************************************)
(* What a mailed secret promises, whether it resets a password or          *)
(* activates an administrator: a holder has at most one that works, a new  *)
(* one replaces it, it works once, and one that has worked or was replaced *)
(* never works again.                                                      *)
(***************************************************************************)
EXTENDS Naturals

CONSTANTS Tokens, Holders

VARIABLES
    status,     \* "unissued", "live" or "dead"
    holder,     \* whose password the token may set
    uses        \* how many passwords it has set

TokenVars == <<status, holder, uses>>

Live(h) == {t \in Tokens : status[t] = "live" /\ holder[t] = h}

(* The tokens found at the start obey the promise.                         *)
Init ==
    /\ status \in [Tokens -> {"unissued", "live", "dead"}]
    /\ holder \in [Tokens -> Holders]
    /\ \A h \in Holders : \A t, u \in Live(h) : t = u
    /\ uses = [t \in Tokens |-> 0]

Issue(t, h) ==
    /\ status[t] = "unissued"
    /\ status' = [u \in Tokens |->
          IF u = t THEN "live" ELSE IF u \in Live(h) THEN "dead" ELSE status[u]]
    /\ holder' = [holder EXCEPT ![t] = h]
    /\ UNCHANGED uses

(* A password is set only with a live token, which is dead from then on.   *)
Spend(t) ==
    /\ status[t] = "live"
    /\ status' = [status EXCEPT ![t] = "dead"]
    /\ uses' = [uses EXCEPT ![t] = @ + 1]
    /\ UNCHANGED holder

Next == \E t \in Tokens : Spend(t) \/ \E h \in Holders : Issue(t, h)

Spec == Init /\ [][Next]_TokenVars
=============================================================================
