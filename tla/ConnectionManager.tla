-------------------------- MODULE ConnectionManager --------------------------
(***************************************************************************)
(* connectionManager: the cache of connections to servers, for one key     *)
(* (server ID, address, type).  Concurrent requests that miss the cache    *)
(* share one openManagedConnection through the coalescer; a request whose  *)
(* connection fails removes and shuts that connection down and, when its   *)
(* API is safe to repeat, tries again.  The connection that shared call n  *)
(* opens is number n.  Taking it out of the map and shutting it down is    *)
(* one step: once it is out, only requests that hold it already use it.    *)
(***************************************************************************)
EXTENDS Coalescer

CONSTANTS
    Safe,          \* callers whose API key is safeToRetry
    MaxAttempts    \* RetryPolicy.MaxAttempts

ASSUME ManagerAssumption == Safe \subseteq Callers /\ MaxAttempts \in Nat \ {0}

VARIABLES
    client,         \* clients[key], 0 if there is none
    work,           \* where openManagedConnection of each shared call is
    conns,          \* the connection of each shared call: "none", "open", "shut"
    task,           \* where request is for each caller
    managerClosed,
    closing         \* where Close is, and the client it collected

managerVars == <<client, work, conns, task, managerClosed, closing>>
managerAll == <<coalescerVars, managerVars>>

ManagerInit ==
    /\ CoalescerInit
    /\ client = 0 /\ work = <<>> /\ conns = <<>> /\ managerClosed = FALSE
    /\ task = [c \in Callers |-> [pc |-> "get", attempt |-> 1, conn |-> 0, retry |-> FALSE]]
    /\ closing = [pc |-> "open", conn |-> 0]

Goes(c, pc) == task' = [task EXCEPT ![c].pc = pc]
Uses(c, n) == task' = [task EXCEPT ![c].pc = "use", ![c].conn = n]

\* getNode up to the coalescer: cachedClient.
GetNode(c) ==
    /\ task[c].pc = "get"
    /\ \/ managerClosed /\ Goes(c, "returned")
       \/ ~managerClosed /\ client # 0 /\ Uses(c, client)
       \/ ~managerClosed /\ client = 0 /\ Goes(c, "flight")
    /\ UNCHANGED <<coalescerVars, client, work, conns, managerClosed, closing>>

\* getNode in flights.Do: a new shared call starts its operation.
Flight(c) ==
    /\ task[c].pc = "flight" /\ DoStep(c)
    /\ LET fresh == Len(calls') > Len(calls) IN
         /\ work' = IF fresh THEN Append(work, [pc |-> "check", conn |-> 0]) ELSE work
         /\ conns' = IF fresh THEN Append(conns, "none") ELSE conns
    /\ CASE at'[c].pc # "returned" -> UNCHANGED task
         [] at'[c].pc = "returned" /\ got'[c].err = "nil" -> Uses(c, work[got'[c].value].conn)
         [] OTHER -> Goes(c, "returned")
    /\ UNCHANGED <<client, managerClosed, closing>>

-----------------------------------------------------------------------------
(* openManagedConnection *)

\* Mutant: the cache is not looked at again.
CheckCacheNot(n) ==
    /\ work[n].pc = "check"
    /\ work' = [work EXCEPT ![n].pc = IF managerClosed THEN "end" ELSE "open"]
    /\ UNCHANGED <<coalescerVars, client, conns, task, managerClosed, closing>>

CheckCache(n) ==
    /\ work[n].pc = "check"
    /\ work' = [work EXCEPT ![n] =
         IF managerClosed \/ client # 0
           THEN [pc |-> "end", conn |-> IF managerClosed THEN 0 ELSE client]
           ELSE [pc |-> "open", conn |-> 0]]
    /\ UNCHANGED <<coalescerVars, client, conns, task, managerClosed, closing>>

\* open: dial, handshake, negotiate, check the server type, authenticate.  When
\* one of them fails the connection is shut before open returns.
Open(n, ok) ==
    /\ work[n].pc = "open" /\ (ok => ~calls[n].ctxDone)
    /\ work' = [work EXCEPT ![n] = IF ok THEN [pc |-> "publish", conn |-> n] ELSE [pc |-> "end", conn |-> 0]]
    /\ conns' = [conns EXCEPT ![n] = IF ok THEN "open" ELSE "none"]
    /\ UNCHANGED <<coalescerVars, client, task, managerClosed, closing>>

\* Mutant: a manager that was closed in the meantime is not noticed.
PublishAnyway(n) ==
    /\ work[n].pc = "publish"
    /\ client' = n
    /\ work' = [work EXCEPT ![n].pc = "end"]
    /\ UNCHANGED <<coalescerVars, conns, task, managerClosed, closing>>

\* The connection enters the cache, unless the manager was closed.
Publish(n) ==
    /\ work[n].pc = "publish"
    /\ IF managerClosed
         THEN /\ conns' = [conns EXCEPT ![n] = "shut"]
              /\ work' = [work EXCEPT ![n] = [pc |-> "end", conn |-> 0]]
              /\ UNCHANGED client
         ELSE client' = n /\ work' = [work EXCEPT ![n].pc = "end"] /\ UNCHANGED conns
    /\ UNCHANGED <<coalescerVars, task, managerClosed, closing>>

EndWork(n) ==
    /\ work[n].pc = "end" /\ Run(n, work[n].conn # 0)
    /\ UNCHANGED managerVars

-----------------------------------------------------------------------------
(* request *)

\* The request is answered, fails in a way that keeps the connection, or its
\* context ends.
Answered(c) ==
    /\ task[c].pc = "use" /\ (conns[task[c].conn] = "open" \/ c \in canceled)
    /\ Goes(c, "returned")
    /\ UNCHANGED <<coalescerVars, client, work, conns, managerClosed, closing>>

\* Mutant: one attempt too many.
shouldRetryPastLimit(c) == c \in Safe \ canceled /\ task[c].attempt <= MaxAttempts

shouldRetry(c) == c \in Safe \ canceled /\ task[c].attempt < MaxAttempts

\* The connection turns out closed or broken, or the server reports a retriable error.
Fails(c) ==
    /\ task[c].pc = "use"
    /\ task' = [task EXCEPT ![c].pc = "remove", ![c].retry = shouldRetry(c)]
    /\ UNCHANGED <<coalescerVars, client, work, conns, managerClosed, closing>>

\* Mutant: whatever connection is cached is removed.
removedAny(k) == 0

\* The cache entry after remove of connection k.
removed(k) == IF client = k THEN 0 ELSE client

Remove(c) ==
    LET k == task[c].conn IN
    /\ task[c].pc = "remove"
    /\ client' = removed(k)
    /\ conns' = [conns EXCEPT ![k] = "shut"]
    /\ Goes(c, IF task[c].retry THEN "backoff" ELSE "returned")
    /\ UNCHANGED <<coalescerVars, work, managerClosed, closing>>

\* waitRetry: the delay passes, or the context ends during it.
Backoff(c) ==
    /\ task[c].pc = "backoff"
    /\ \/ /\ task' = [task EXCEPT ![c].pc = "get", ![c].attempt = @ + 1]
          /\ at' = [at EXCEPT ![c].pc = "start"] /\ got' = [got EXCEPT ![c] = Nothing]
       \/ c \in canceled /\ Goes(c, "returned") /\ UNCHANGED <<at, got>>
    /\ UNCHANGED <<current, calls, canceled, flightsClosed, client, work, conns, managerClosed, closing>>

-----------------------------------------------------------------------------
(* Close *)

\* Mutant: the flights are closed, the cached connection is not collected.
collectedNone == 0

collected == client

\* Marks the manager closed and collects the clients.
CloseManager ==
    /\ closing.pc = "open" /\ managerClosed' = TRUE
    /\ closing' = [pc |-> "flights", conn |-> collected]
    /\ UNCHANGED <<coalescerVars, client, work, conns, task>>

CloseCoalescer ==
    /\ closing.pc = "flights" /\ CloseFlights
    /\ closing' = [closing EXCEPT !.pc = "shutdown"]
    /\ UNCHANGED <<client, work, conns, task, managerClosed>>

ShutdownClients ==
    /\ closing.pc = "shutdown" /\ closing' = [closing EXCEPT !.pc = "closed"]
    /\ conns' = [n \in DOMAIN conns |-> IF n = closing.conn THEN "shut" ELSE conns[n]]
    /\ UNCHANGED <<coalescerVars, client, work, task, managerClosed>>

CallerDone(c) == Cancel(c) /\ UNCHANGED managerVars

ManagerNext ==
    \/ \E c \in Callers : \/ GetNode(c) \/ Flight(c) \/ Answered(c) \/ Fails(c)
                          \/ Remove(c) \/ Backoff(c) \/ CallerDone(c)
    \/ \E n \in DOMAIN work : CheckCache(n) \/ Publish(n) \/ EndWork(n) \/ \E ok \in BOOLEAN : Open(n, ok)
    \/ CloseManager \/ CloseCoalescer \/ ShutdownClients

ManagerSpec == ManagerInit /\ [][ManagerNext]_managerAll

\* A request on a connection that is shut fails, and open returns once its
\* context is canceled.
CallerStep(c) ==
    \/ GetNode(c) \/ Flight(c) \/ Remove(c) \/ Backoff(c)
    \/ task[c].conn # 0 /\ conns[task[c].conn] = "shut" /\ Fails(c)
OpenStep ==
    \E n \in DOMAIN work : CheckCache(n) \/ Publish(n) \/ EndWork(n)
                          \/ (calls[n].ctxDone /\ Open(n, FALSE))
CloseStep == CloseCoalescer \/ ShutdownClients

\* The goroutines run, and a Close that began continues.
ManagerFairSpec ==
    /\ ManagerSpec
    /\ \A c \in Callers : WF_managerAll(CallerStep(c))
    /\ WF_managerAll(OpenStep) /\ WF_managerAll(CloseStep)

-----------------------------------------------------------------------------

ManagerTypeOK ==
    /\ CoalescerTypeOK
    /\ client \in 0 .. Len(work) /\ Len(work) = Len(calls) /\ Len(conns) = Len(calls)
    /\ \A n \in DOMAIN work : /\ work[n].pc \in {"check", "open", "publish", "end"}
                              /\ work[n].conn \in 0 .. Len(work) /\ conns[n] \in {"none", "open", "shut"}
    /\ \A c \in Callers : /\ task[c].pc \in {"get", "flight", "use", "remove", "backoff", "returned"}
                          /\ task[c].attempt \in 1 .. MaxAttempts /\ task[c].retry \in BOOLEAN
                          /\ task[c].conn \in 0 .. Len(work)
    /\ managerClosed \in BOOLEAN /\ closing.pc \in {"open", "flights", "shutdown", "closed"}

Settled == \A n \in DOMAIN calls : calls[n].completed

\* While no caller gives up, requests share a connection: however misses,
\* failures and retries interleave, at most one connection that left
\* openManagedConnection is open.
OneConnection ==
    canceled = {} =>
        Cardinality({n \in DOMAIN conns : conns[n] = "open" /\ work[n].pc # "publish"}) <= 1

\* The cache entry is removed only for a connection that is shut: a request that
\* reports the failure of an old connection leaves the one that replaced it in
\* place, for the others to use and for Close to find.
CacheKeepsLiveConnection ==
    [][client # 0 /\ client' = 0 => conns'[client] = "shut"]_managerAll

\* When Close has returned and no operation is left, no connection is open, be
\* it cached, just opened, or given to a request; and a closed manager caches
\* none.  This much holds while no caller gave up (see EveryConnectionClosed).
ConnectionsClosed ==
    /\ managerClosed => client \in {0, closing.conn}
    /\ canceled = {} /\ closing.pc = "closed" /\ Settled => \A n \in DOMAIN conns : conns[n] # "open"

\* Close ends every request: those that wait for a connection, for an answer or
\* for their next attempt, if no caller gave up before.
CloseEndsAll ==
    [](canceled = {}) => (managerClosed ~> \A c \in Callers : task[c].pc = "returned")

\* "Close stops token refresh and closes all managed connections" (client.go:228):
\* when Close has returned and no operation is left, every connection is shut.
EveryConnectionClosed ==
    closing.pc = "closed" /\ Settled => \A n \in DOMAIN conns : conns[n] # "open"
=============================================================================
