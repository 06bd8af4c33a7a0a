---------------------------- MODULE MCTaskBoard ----------------------------
(* Small instances of what the escrow and the agents' tokens are reached   *)
(* by from outside the chain: the task board with its worker (TaskBoard)   *)
(* and the registrar (AgentIdentity), each checked while the other rests.  *)
EXTENDS TaskBoard, AgentIdentity

VARIABLE part

BothInit == part \in {"board", "identity"} /\ Init /\ IdentityInit

BothNext ==
    /\ UNCHANGED part
    /\ \/ part = "board" /\ Next /\ UNCHANGED identityVars
       \/ part = "identity" /\ IdentityNext /\ UNCHANGED vars

\* No fair action is enabled in the part at rest: the worker polls once a task is created, and
\* the registrar is started only in its own part.
BothSpec ==
    /\ BothInit /\ [][BothNext]_<<part, vars, identityVars>>
    /\ Fairness /\ RegistrarGetsOn
    /\ \A r \in Registrars : WF_identityVars(part = "identity" /\ RegistrarStarts(r))
=============================================================================
