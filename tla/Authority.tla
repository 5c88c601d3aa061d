------------------------------ MODULE Authority ------------------------------
(***************************************************************************)
(* What authentication promises a Session, whatever mechanism is           *)
(* configured (AuthInterceptInterface::authenticate): a request is         *)
(* answered once and for all, it is answered ALLOW only by a judge that    *)
(* said so, and no request is left without an answer.  The judge is the    *)
(* mechanism that was configured when the client was accepted.             *)
(***************************************************************************)
CONSTANTS
    Clients,   \* the client connections
    Judges,    \* the mechanisms that can be configured
    Lenient    \* the judge that allows everybody (DefaultAuthIntercept)

VARIABLES
    answer,    \* per client: "none" (not asked), "asked", "allow", "deny"
    judge,     \* per client: the judge its request went to
    word       \* per open request: what the judge has said of it, or "none"

vars == <<answer, judge, word>>

Init ==
    /\ answer = [x \in Clients |-> "none"]
    /\ judge \in [Clients -> Judges]
    /\ word = [x \in Clients |-> "none"]

(* A client is accepted: its judge is settled.                             *)
Settle(x) ==
    /\ answer[x] = "none"
    /\ \E j \in Judges : judge' = [judge EXCEPT ![x] = j]
    /\ UNCHANGED <<answer, word>>

Ask(x) ==
    /\ answer[x] = "none"
    /\ answer' = [answer EXCEPT ![x] = "asked"]
    /\ UNCHANGED <<judge, word>>

(* The judge makes up its mind, once.                                      *)
Say(x) ==
    /\ answer[x] = "asked" /\ word[x] = "none"
    /\ \E w \in {"allow", "deny", "unclear"} : word' = [word EXCEPT ![x] = w]
    /\ UNCHANGED <<answer, judge>>

Allow(x) ==
    /\ answer[x] = "asked"
    /\ judge[x] = Lenient \/ word[x] = "allow"
    /\ answer' = [answer EXCEPT ![x] = "allow"]
    /\ word' = [word EXCEPT ![x] = "none"]
    /\ UNCHANGED judge

(* A judge that cannot be reached, or cannot be understood, denies.        *)
Deny(x) ==
    /\ answer[x] = "asked"
    /\ judge[x] # Lenient
    /\ answer' = [answer EXCEPT ![x] = "deny"]
    /\ word' = [word EXCEPT ![x] = "none"]
    /\ UNCHANGED judge

(* A question that cannot even be put is denied at once.                   *)
Refuse(x) ==
    /\ answer[x] = "none"
    /\ judge[x] # Lenient
    /\ answer' = [answer EXCEPT ![x] = "deny"]
    /\ UNCHANGED <<judge, word>>

Next ==
    \E x \in Clients :
        Settle(x) \/ Ask(x) \/ Say(x) \/ Allow(x) \/ Deny(x) \/ Refuse(x)

Spec == Init /\ [][Next]_vars

FairSpec == Spec /\ \A x \in Clients : WF_vars(Allow(x) \/ Deny(x))
=============================================================================
