------------------------------ MODULE Coalescer ------------------------------
(***************************************************************************)
(* coalescer: concurrent callers that want the same thing share one        *)
(* operation.  Keys are independent of each other, so there is one.  A     *)
(* shared call is numbered by its creation; its operation runs in a        *)
(* goroutine of its own, with a context that is canceled when the last     *)
(* waiter leaves.  What the operation does is left to the modules that     *)
(* extend this one; here it succeeds or fails at any time, also after its  *)
(* context was canceled.                                                   *)
(***************************************************************************)
EXTENDS Integers, Sequences, FiniteSets

CONSTANTS
    Callers,      \* goroutines that call Do
    Cancelable,   \* those whose context may be canceled
    MaxCalls      \* bound on the shared calls that are created

ASSUME CoalescerAssumption ==
    Cancelable \subseteq Callers /\ MaxCalls \in Nat \ {0} /\ IsFiniteSet(Callers)

VARIABLES
    current,   \* the entry of the key in the map calls, 0 if there is none
    calls,     \* all sharedCalls ever created
    at,        \* where each caller is, and the call it waits for
    got,       \* what Do returned to each caller
    canceled,  \* callers whose context is done
    flightsClosed

coalescerVars == <<current, calls, at, got, canceled, flightsClosed>>

NewCall == [waiters |-> 0, completed |-> FALSE, claimed |-> FALSE, succeeded |-> FALSE,
            err |-> "nil", ctxDone |-> FALSE, disposals |-> 0]
Nothing == [err |-> "none", value |-> 0]

CoalescerInit ==
    /\ current = 0 /\ calls = <<>> /\ flightsClosed = FALSE /\ canceled = {}
    /\ at = [c \in Callers |-> [pc |-> "start", call |-> 0]]
    /\ got = [c \in Callers |-> Nothing]

Returned(c, err, value) ==
    /\ at' = [at EXCEPT ![c] = [pc |-> "returned", call |-> 0]]
    /\ got' = [got EXCEPT ![c] = [err |-> err, value |-> value]]

Do(c) ==
    /\ at[c].pc = "start"
    /\ IF flightsClosed
         THEN Returned(c, "closed", 0) /\ UNCHANGED <<current, calls>>
         ELSE LET n == IF current = 0 THEN Len(calls) + 1 ELSE current
                  known == IF current = 0 THEN Append(calls, NewCall) ELSE calls
              IN  /\ n <= MaxCalls
                  /\ calls' = [known EXCEPT ![n].waiters = @ + 1]
                  /\ current' = n
                  /\ at' = [at EXCEPT ![c] = [pc |-> "wait", call |-> n]]
                  /\ UNCHANGED got
    /\ UNCHANGED <<canceled, flightsClosed>>

\* The call is done: take its result.
Claim(c) ==
    LET n == at[c].call IN
    /\ at[c].pc = "wait" /\ calls[n].completed
    /\ calls' = [calls EXCEPT ![n].claimed = TRUE, ![n].waiters = @ - 1]
    /\ Returned(c, calls[n].err, IF calls[n].err = "nil" THEN n ELSE 0)
    /\ UNCHANGED <<current, canceled, flightsClosed>>

lastWaiter(n) == calls[n].waiters = 1

\* The caller's context ends: release.
GiveUp(c) ==
    LET n == at[c].call
        last == lastWaiter(n)
    IN
    /\ at[c].pc = "wait" /\ c \in canceled
    /\ calls' = [calls EXCEPT
         ![n].waiters = @ - 1,
         ![n].ctxDone = @ \/ (last /\ ~calls[n].completed),
         ![n].disposals = IF last /\ calls[n].completed /\ ~calls[n].claimed /\ calls[n].succeeded
                            THEN @ + 1 ELSE @]
    /\ current' = IF last /\ current = n THEN 0 ELSE current
    /\ Returned(c, "ctx", 0)
    /\ UNCHANGED <<canceled, flightsClosed>>

\* Mutant: a result that nobody waits for any more is dropped.
unclaimedDropped(n, ok) == FALSE

\* Mutant: the waiters that have yet to claim the result are not counted.
unclaimedAtOnce(n, ok) == ok /\ ~calls[n].claimed

\* Whether run passes the result to the disposer.
unclaimed(n, ok) == ok /\ ~calls[n].claimed /\ (calls[n].waiters = 0 \/ flightsClosed)

\* Mutant: an abandoned operation that ends removes its replacement.
afterRunClears(n) == 0

\* The entry of the key when run is done: it deletes only its own.
afterRun(n) == IF current = n THEN 0 ELSE current

\* The end of run, after the operation returned.
Run(n, ok) ==
    /\ ~calls[n].completed
    /\ calls' = [calls EXCEPT
         ![n].completed = TRUE, ![n].succeeded = ok, ![n].ctxDone = TRUE,
         ![n].err = CASE flightsClosed -> "closed" [] ~flightsClosed /\ ~ok -> "fail" [] OTHER -> "nil",
         ![n].disposals = IF unclaimed(n, ok) THEN 1 ELSE 0]
    /\ current' = afterRun(n)
    /\ UNCHANGED <<at, got, canceled, flightsClosed>>

\* Mutant: closing leaves the running operation alone.
CloseFlightsOnly ==
    /\ ~flightsClosed /\ flightsClosed' = TRUE
    /\ UNCHANGED <<current, calls, at, got, canceled>>

CloseFlights ==
    /\ ~flightsClosed /\ flightsClosed' = TRUE
    /\ calls' = [n \in DOMAIN calls |-> IF n = current THEN [calls[n] EXCEPT !.ctxDone = TRUE] ELSE calls[n]]
    /\ UNCHANGED <<current, at, got, canceled>>

Cancel(c) ==
    /\ c \in Cancelable \ canceled
    /\ canceled' = canceled \union {c}
    /\ UNCHANGED <<current, calls, at, got, flightsClosed>>

-----------------------------------------------------------------------------
(* The coalescer by itself. *)

DoStep(c) == Do(c) \/ Claim(c) \/ GiveUp(c)

CoalescerNext ==
    \/ \E c \in Callers : DoStep(c) \/ Cancel(c)
    \/ \E n \in DOMAIN calls, ok \in BOOLEAN : Run(n, ok)
    \/ CloseFlights

CoalescerSpec == CoalescerInit /\ [][CoalescerNext]_coalescerVars

\* Callers keep running, and an operation ends once its context is canceled.
CoalescerFairSpec ==
    /\ CoalescerSpec
    /\ WF_coalescerVars(\E c \in Callers : DoStep(c))
    /\ WF_coalescerVars(\E n \in DOMAIN calls, ok \in BOOLEAN : calls[n].ctxDone /\ Run(n, ok))

Waiting(n) == {c \in Callers : at[c].pc = "wait" /\ at[c].call = n}
Running == {n \in DOMAIN calls : ~calls[n].completed}

CoalescerTypeOK ==
    /\ current \in 0 .. Len(calls) /\ Len(calls) <= MaxCalls
    /\ \A c \in Callers : /\ at[c].pc \in {"start", "wait", "returned"}
                           /\ at[c].call \in 0 .. Len(calls)
                           /\ got[c].err \in {"none", "nil", "fail", "ctx", "closed"}
    /\ \A n \in DOMAIN calls : calls[n].waiters \in 0 .. Cardinality(Callers)
    /\ canceled \subseteq Cancelable /\ flightsClosed \in BOOLEAN

\* The operation of a call continues while somebody waits for it, and is
\* canceled when the last waiter leaves or the coalescer is closed; a new caller
\* joins the one operation that is still wanted, never an abandoned one.
ContextFollowsWaiters ==
    /\ \A n \in DOMAIN calls : calls[n].waiters = Cardinality(Waiting(n))
    /\ \A n \in Running : calls[n].ctxDone <=> (Waiting(n) = {} \/ flightsClosed)
    /\ \A n \in DOMAIN calls : current = n <=> n \in Running /\ Waiting(n) # {}

\* Who gets a value gets that of a call that succeeded and whose result was not
\* given to the disposer, before or after.
ValuesAreAlive ==
    \A c \in Callers : got[c].err = "nil" =>
        got[c].value \in DOMAIN calls /\ calls[got[c].value].succeeded /\ calls[got[c].value].disposals = 0

\* A result is never lost: when the last waiter is gone, somebody has it or the
\* disposer got it, however cancellation, completion and Close interleave.
NoResultLost ==
    \A n \in DOMAIN calls : calls[n].succeeded /\ Waiting(n) = {} =>
        calls[n].disposals > 0 \/ \E c \in Callers : got[c] = [err |-> "nil", value |-> n]

\* Close releases every caller, and so does the caller's own context.
EveryoneReleased ==
    /\ flightsClosed ~> \A c \in Callers : at[c].pc = "returned"
    /\ \A c \in Callers : c \in canceled ~> at[c].pc = "returned"
=============================================================================
