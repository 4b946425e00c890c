---------------------------- MODULE MCConnections ----------------------------
(***************************************************************************)
(* A connection, the coalescer and the connection manager, which share no   *)
(* state: one of them is in use, the others rest in an initial state.       *)
(***************************************************************************)
EXTENDS Connection, ConnectionManager

VARIABLE which    \* the part that is in use

connectionsVars == <<which, vars, managerAll>>

ConnectionsInit ==
  /\ which \in {"connection", "flights", "manager"}
  /\ Init /\ ManagerInit
  /\ which # "connection" => nextID = 0

UseConnection == which = "connection" /\ Next /\ UNCHANGED <<which, managerAll>>
UseFlights == which = "flights" /\ CoalescerNext /\ UNCHANGED <<which, vars, managerVars>>
UseManager == which = "manager" /\ ManagerNext /\ UNCHANGED <<which, vars>>

\* The fairness of every part, for the part in use.
ConnectionsSpec ==
  /\ ConnectionsInit
  /\ [][UseConnection \/ UseFlights \/ UseManager]_connectionsVars
  /\ WF_vars(which = "connection" /\ ClientStep)
  /\ \A c \in Callers : WF_managerAll(which = "manager" /\ CallerStep(c))
  /\ WF_managerAll(which = "manager" /\ OpenStep)
  /\ WF_managerAll(which = "manager" /\ CloseStep)

\* NoResultLost, of the coalescer by itself: the manager's next attempt forgets
\* the result of the one before.
FlightsLoseNothing == which = "flights" => NoResultLost
=============================================================================
