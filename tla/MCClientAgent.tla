---------------------------- MODULE MCClientAgent ----------------------------
(* The client's callers, with what they ask for fixed in advance.  Two callers *)
(* compete for one name while sessions die: at one port, while the edge shuts  *)
(* down too, or at two.  Or one caller uses two names over a session that      *)
(* stays.                                                                      *)
EXTENDS ClientAgent

CONSTANTS c1, c2, n1, n2

VARIABLE plan       \* the names and ports each caller asks for

mcVars == <<vars, plan>>

Compete == [c \in Caller |-> {<<n1, 1>>}]
Repoint == [c \in Caller |-> IF c = c1 THEN {<<n1, 1>>} ELSE {<<n1, 2>>}]
Alone == [c \in Caller |-> IF c = c1 THEN {<<n1, 1>>, <<n2, 1>>} ELSE {}]

MC_Init == Init /\ plan \in {Compete, Repoint, Alone}

MC_Next ==
    \/ \E c \in Caller : \E n \in Name : \E p \in Port :
         /\ <<n, p>> \in plan[c]
         /\ UnregisterCall(c, n) \/ RegisterCall(c, n, p)
         /\ UNCHANGED plan
    \/ Close /\ UNCHANGED plan
    \/ \E c \in Caller : CallerStep(c) /\ UNCHANGED plan
    \/ \E r \in Replay : ReplayStep(r) /\ UNCHANGED plan
    \/ \E s \in Session : (readControl(s) \/ Edge(s)) /\ UNCHANGED plan
    \/ \E s \in Session : plan # Alone /\ SessionDies(s) /\ UNCHANGED plan
    \/ \E s \in Session : plan = Compete /\ EdgeShutsDown(s) /\ UNCHANGED plan
    \/ Manage /\ UNCHANGED plan

MC_Spec == MC_Init /\ [][MC_Next]_mcVars /\ Fairness
=============================================================================
