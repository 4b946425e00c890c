------------------------------- MODULE Lookuper -------------------------------
(***************************************************************************)
(* The lookup scheduler: calls of Lookup and PrefixLookup that enqueue     *)
(* their keys and then await them one by one, the scheduler goroutine that *)
(* groups keys by mode and bucket, the workers that send the requests, and *)
(* Close.  A task is a pair of a call and the position of a key in it; the *)
(* server's answer for a key is the key itself.                            *)
(***************************************************************************)
EXTENDS Integers, Sequences, FiniteSets, Functions

CONSTANTS
    Lookups,              \* calls of Lookup and PrefixLookup
    KeysOf,               \* KeysOf[c]: the keys of call c, in order
    GroupOf,              \* GroupOf[k]: mode and bucket of key k
    Stored,               \* the keys the table has a row for
    LookupCancelable,     \* calls whose context may be canceled
    MaxQueuedKeys, MaxBatchKeys, MaxInFlightRequests,
    LookupImmediate,      \* BatchTimeout = 0
    LookupAttempts,       \* RetryPolicy.MaxAttempts
    InsertIfNotExists

Tasks == UNION {{c} \X DOMAIN KeysOf[c] : c \in Lookups}
Key(t) == KeysOf[t[1]][t[2]]
Groups == {GroupOf[Key(t)] : t \in Tasks}

\* lookupConfig refuses retries of requests that insert.
ASSUME LookupAssumption ==
    /\ MaxQueuedKeys \in Nat \ {0} /\ MaxBatchKeys \in Nat \ {0} /\ MaxInFlightRequests \in Nat \ {0}
    /\ LookupAttempts \in Nat \ {0} /\ (InsertIfNotExists => LookupAttempts = 1)
    /\ LookupCancelable \subseteq Lookups /\ \A c \in Lookups : KeysOf[c] # <<>>

VARIABLES
    call,      \* call[c]: where the call is, and the key it is at
    raw,       \* raw[t]: the result sent to the task, "none" before
    out,       \* out[t]: the result the caller recorded for its key
    slots,     \* tasks that hold a slot
    queue,     \* the queue channel, capacity MaxQueuedKeys
    sched,     \* the scheduler: where it is, the groups and tasks it is dispatching
    groups,    \* tasks waiting to be dispatched, by group
    timer,     \* whether the batch timer runs
    jobs,      \* the jobs channel, capacity MaxInFlightRequests
    busy,      \* workers with a request: its active tasks, the batch they are from, the attempt
    lookupDone,    \* calls whose context is done
    lookupClosed,  \* closed, and life canceled
    stopped    \* done

lookupVars == <<call, raw, out, slots, queue, sched, groups, timer, jobs, busy, lookupDone, lookupClosed, stopped>>

Idle == [pc |-> "select", todo |-> {}, group |-> 0, tasks |-> <<>>]

LookupInit ==
    /\ call = [c \in Lookups |-> [pc |-> "enqueue", at |-> 1]]
    /\ raw = [t \in Tasks |-> "none"] /\ out = [t \in Tasks |-> "none"]
    /\ slots = {} /\ queue = <<>> /\ sched = Idle /\ groups = [g \in Groups |-> <<>>]
    /\ timer = FALSE /\ jobs = <<>> /\ busy = {}
    /\ lookupDone = {} /\ lookupClosed = FALSE /\ stopped = FALSE

-----------------------------------------------------------------------------
(* lookupTask.complete *)

\* Mutant: a task may be completed twice; the second result replaces the first.
CompleteAgain(tasks, res) ==
    /\ raw' = [t \in Tasks |-> IF t \in tasks THEN res[t] ELSE raw[t]]
    /\ slots' = slots \ tasks

\* The first completion sends the result and gives the slot back.
Complete(tasks, res) ==
    /\ raw' = [t \in Tasks |-> IF t \in tasks /\ raw[t] = "none" THEN res[t] ELSE raw[t]]
    /\ slots' = slots \ tasks

CompleteErr(tasks, err) == Complete(tasks, [t \in tasks |-> err])

-----------------------------------------------------------------------------
(* Lookup, PrefixLookup and enqueueLookup *)

callerFrame == UNCHANGED <<sched, groups, timer, jobs, busy, lookupDone, lookupClosed, stopped>>
Task(c) == <<c, call[c].at>>

\* The key is done for the first loop: the next key, or on to awaiting.
Advance(c, pc, result) ==
    /\ out' = IF result = "none" THEN out ELSE [out EXCEPT ![Task(c)] = result]
    /\ call' = [call EXCEPT ![c] = IF call[c].at < Len(KeysOf[c]) THEN [pc |-> pc, at |-> @.at + 1]
                                   ELSE [pc |-> IF pc = "enqueue" THEN "await" ELSE "returned", at |-> 1]]

\* lookupContextError, then the slot; either may end the key with an error.
EnqueueRefused(c) ==
    /\ call[c].pc = "enqueue"
    /\ \/ lookupClosed /\ Advance(c, "enqueue", "closed")
       \/ c \in lookupDone /\ Advance(c, "enqueue", "ctx")
    /\ UNCHANGED <<raw, slots, queue>> /\ callerFrame

AcquireLookupSlot(c) ==
    /\ call[c].pc = "enqueue" /\ Cardinality(slots) < MaxQueuedKeys
    /\ slots' = slots \union {Task(c)} /\ call' = [call EXCEPT ![c].pc = "slot"]
    /\ UNCHANGED <<raw, out, queue>> /\ callerFrame

\* Mutant: a slot taken while Close ran is not given back.
EnqueueClosedKeepsSlot(c) ==
    /\ call[c].pc = "slot" /\ lookupClosed /\ Advance(c, "enqueue", "closed")
    /\ UNCHANGED <<raw, slots, queue>> /\ callerFrame

\* Closed meanwhile: the task is completed, which gives the slot back.
EnqueueClosed(c) ==
    /\ call[c].pc = "slot" /\ lookupClosed
    /\ CompleteErr({Task(c)}, "closed") /\ Advance(c, "enqueue", "closed")
    /\ UNCHANGED queue /\ callerFrame

\* The queue has room for every slot; if the context is done as well, either.
EnqueueTask(c) ==
    /\ call[c].pc = "slot" /\ ~lookupClosed
    /\ \/ queue' = Append(queue, Task(c)) /\ Advance(c, "enqueue", "none") /\ UNCHANGED <<raw, slots>>
       \/ c \in lookupDone /\ CompleteErr({Task(c)}, "ctx") /\ Advance(c, "enqueue", "ctx") /\ UNCHANGED queue
    /\ callerFrame

\* The second loop: the keys that were queued are awaited in order.
AwaitKey(c) ==
    /\ call[c].pc = "await"
    /\ \/ out[Task(c)] # "none" /\ Advance(c, "await", "none")
       \/ out[Task(c)] = "none" /\ raw[Task(c)] # "none" /\ Advance(c, "await", raw[Task(c)])
       \/ out[Task(c)] = "none" /\ c \in lookupDone /\ Advance(c, "await", "ctx")
    /\ UNCHANGED <<raw, slots, queue>> /\ callerFrame

LookupCancel(c) ==
    /\ c \in LookupCancelable \ lookupDone /\ lookupDone' = lookupDone \union {c}
    /\ UNCHANGED <<call, raw, out, slots, queue, sched, groups, timer, jobs, busy, lookupClosed, stopped>>

CloseLookuper ==
    /\ ~lookupClosed /\ lookupClosed' = TRUE
    /\ UNCHANGED <<call, raw, out, slots, queue, sched, groups, timer, jobs, busy, lookupDone, stopped>>

-----------------------------------------------------------------------------
(* lookupScheduler *)

schedFrame == UNCHANGED <<call, out, lookupDone, lookupClosed>>

Dispatching(g, todo) == sched' = [pc |-> "dispatch", todo |-> todo \ {g}, group |-> g, tasks |-> groups'[g]]

ScheduleTask ==
    /\ sched.pc = "select" /\ queue # <<>> /\ queue' = Tail(queue)
    /\ LET t == Head(queue)
           g == GroupOf[Key(t)]
       IN  IF t[1] \in lookupDone
             THEN CompleteErr({t}, "ctx") /\ UNCHANGED <<sched, groups, timer>>
             ELSE /\ groups' = [groups EXCEPT ![g] = Append(@, t)]
                  /\ IF Len(groups'[g]) >= MaxBatchKeys \/ LookupImmediate
                       THEN Dispatching(g, {}) /\ UNCHANGED timer
                       ELSE timer' = TRUE /\ UNCHANGED sched
                  /\ UNCHANGED <<raw, slots>>
    /\ UNCHANGED <<jobs, busy, stopped>> /\ schedFrame

\* Every group is dispatched, in any order.
BatchTimeout ==
    /\ sched.pc = "select" /\ timer /\ timer' = FALSE /\ UNCHANGED groups
    /\ \E g \in Groups : Dispatching(g, Groups)
    /\ UNCHANGED <<raw, slots, queue, jobs, busy, stopped>> /\ schedFrame

Chunk == SubSeq(sched.tasks, 1, IF Len(sched.tasks) < MaxBatchKeys THEN Len(sched.tasks) ELSE MaxBatchKeys)

\* dispatchGroup: one chunk goes to jobs, or waits while jobs is full.
DispatchChunk ==
    /\ sched.pc = "dispatch" /\ sched.tasks # <<>> /\ Len(jobs) < MaxInFlightRequests
    /\ jobs' = Append(jobs, Chunk)
    /\ sched' = [sched EXCEPT !.tasks = SubSeq(@, Len(Chunk) + 1, Len(@))]
    /\ UNCHANGED <<raw, slots, queue, groups, timer, busy, stopped>> /\ schedFrame

\* The group is dispatched and removed; the timer's loop takes the next one.
DispatchNext ==
    /\ sched.pc = "dispatch" /\ sched.tasks = <<>>
    /\ groups' = [groups EXCEPT ![sched.group] = <<>>]
    /\ IF sched.todo = {} THEN sched' = Idle ELSE \E g \in sched.todo : Dispatching(g, sched.todo)
    /\ UNCHANGED <<raw, slots, queue, timer, jobs, busy, stopped>> /\ schedFrame

\* Mutant: shutdown leaves the queued tasks behind.
ShutdownKeepsQueue ==
    /\ \/ sched.pc = "select" /\ lookupClosed
       \/ sched.pc = "dispatch" /\ sched.tasks # <<>> /\ lookupClosed
    /\ CompleteErr(UNION {Range(groups[g]) : g \in Groups}, "closed")
    /\ groups' = [g \in Groups |-> <<>>] /\ timer' = FALSE
    /\ sched' = [Idle EXCEPT !.pc = "exit"]
    /\ UNCHANGED <<queue, jobs, busy, stopped>> /\ schedFrame

\* life is done, between tasks or while jobs is full: shutdown completes the
\* groups (of a group that was partly dispatched also the tasks at a worker) and
\* drains the queue, to which nothing is added any more.
Shutdown ==
    /\ \/ sched.pc = "select" /\ lookupClosed
       \/ sched.pc = "dispatch" /\ sched.tasks # <<>> /\ lookupClosed
    /\ CompleteErr(UNION {Range(groups[g]) : g \in Groups} \union Range(queue), "closed")
    /\ groups' = [g \in Groups |-> <<>>] /\ queue' = <<>> /\ timer' = FALSE
    /\ sched' = [Idle EXCEPT !.pc = "exit"]
    /\ UNCHANGED <<jobs, busy, stopped>> /\ schedFrame

\* jobs is closed and the workers have emptied it.
SchedulerExits ==
    /\ sched.pc = "exit" /\ jobs = <<>> /\ busy = {} /\ ~stopped /\ stopped' = TRUE
    /\ UNCHANGED <<raw, slots, queue, sched, groups, timer, jobs, busy>> /\ schedFrame

-----------------------------------------------------------------------------
(* runLookupWorker *)

workerFrame == UNCHANGED <<call, out, queue, sched, groups, timer, lookupDone, lookupClosed, stopped>>

\* A worker takes a batch; tasks whose context is done are completed at once.
WorkerTakes ==
    /\ jobs # <<>> /\ Cardinality(busy) < MaxInFlightRequests /\ jobs' = Tail(jobs)
    /\ LET active == SelectSeq(Head(jobs), LAMBDA t : t[1] \notin lookupDone)
       IN  /\ CompleteErr(Range(Head(jobs)) \ Range(active), "ctx")
           /\ busy' = IF active = <<>> THEN busy
                      ELSE busy \union {[tasks |-> active, attempt |-> 1]}
    /\ workerFrame

\* Mutant: the values are matched with the tasks from the last one on.
answeredReversed(j) == [n \in DOMAIN j.tasks |-> j.tasks[Len(j.tasks) + 1 - n]]

\* The tasks that the values of an answer belong to, by index.
answered(j) == j.tasks

\* The server answers for each key asked for, with its value or without one.
WorkerAnswered(j) ==
    /\ Complete({answered(j)[n] : n \in DOMAIN j.tasks},
                [t \in {answered(j)[n] : n \in DOMAIN j.tasks} |->
                   LET k == Key(j.tasks[CHOOSE n \in DOMAIN j.tasks : answered(j)[n] = t])
                   IN  IF k \in Stored THEN k ELSE "notFound"])
    /\ busy' = busy \ {j} /\ UNCHANGED jobs /\ workerFrame

\* retryLookup: an error that may pass is tried again within the attempts, while
\* the lookuper is open; a request that inserts never.
WorkerRetries(j) ==
    /\ ~InsertIfNotExists /\ j.attempt < LookupAttempts /\ ~lookupClosed
    /\ busy' = (busy \ {j}) \union {[j EXCEPT !.attempt = @ + 1]}
    /\ UNCHANGED <<raw, slots, jobs>> /\ workerFrame

\* An error that is final, an answer of another length, RequestTimeout, or life.
WorkerFails(j) ==
    /\ CompleteErr(Range(j.tasks), "err")
    /\ busy' = busy \ {j} /\ UNCHANGED jobs /\ workerFrame

-----------------------------------------------------------------------------
LookupFinished ==
    /\ \A c \in Lookups : call[c].pc = "returned"
    /\ queue = <<>> /\ jobs = <<>> /\ busy = {} /\ ~timer /\ (lookupClosed => stopped)
    /\ UNCHANGED lookupVars

LookupStep(c) == EnqueueRefused(c) \/ AcquireLookupSlot(c) \/ EnqueueClosed(c) \/ EnqueueTask(c) \/ AwaitKey(c)
SchedulerStep == ScheduleTask \/ BatchTimeout \/ DispatchChunk \/ DispatchNext \/ Shutdown \/ SchedulerExits
WorkerStep(j) == WorkerAnswered(j) \/ WorkerFails(j)

LookupNext ==
    \/ \E c \in Lookups : LookupStep(c) \/ LookupCancel(c)
    \/ CloseLookuper \/ SchedulerStep \/ WorkerTakes
    \/ \E j \in busy : WorkerStep(j) \/ WorkerRetries(j)
    \/ LookupFinished

LookupSpec == LookupInit /\ [][LookupNext]_lookupVars

\* Every goroutine keeps running, and a request ends, at the latest when
\* RequestTimeout expires.
LookupFairness ==
    /\ \A c \in Lookups : WF_lookupVars(LookupStep(c))
    /\ WF_lookupVars(SchedulerStep)
    /\ WF_lookupVars(WorkerTakes)
    /\ WF_lookupVars(\E j \in busy : WorkerStep(j))

LookupFairSpec == LookupSpec /\ LookupFairness

-----------------------------------------------------------------------------
LookupTypeOK ==
    /\ \A c \in Lookups : call[c].pc \in {"enqueue", "slot", "await", "returned"} /\ call[c].at \in 1 .. Len(KeysOf[c])
    /\ slots \subseteq Tasks /\ Len(queue) <= MaxQueuedKeys /\ Len(jobs) <= MaxInFlightRequests
    /\ Cardinality(busy) <= MaxInFlightRequests /\ sched.pc \in {"select", "dispatch", "exit"}

\* Every key gets its own value, although keys of several calls share a request,
\* canceled ones drop out of it and Close completes tasks that a worker answers
\* later: the value a call records for a key is the server's for that key.
OwnValue ==
    \A t \in Tasks : out[t] \in {"none", "ctx", "closed", "err", IF Key(t) \in Stored THEN Key(t) ELSE "notFound"}

\* The admission semaphore: a key holds a slot until it is completed, by whoever
\* completes it first, and an accepted key waits in exactly one place.
LookupSlots ==
    /\ Cardinality(slots) <= MaxQueuedKeys
    /\ \A t \in slots : raw[t] = "none"
    /\ \A t \in slots : Cardinality(
          {x \in {"caller"} : call[t[1]].pc = "slot" /\ Task(t[1]) = t}
          \union {x \in {"queue"} : t \in Range(queue)}
          \union {x \in {"group"} : \E g \in Groups : t \in Range(groups[g]) /\ ~(sched.group = g /\ t \notin Range(sched.tasks))}
          \union {x \in {"jobs"} : \E n \in DOMAIN jobs : t \in Range(jobs[n])}
          \union {x \in {"worker"} : \E j \in busy : t \in Range(j.tasks)}) = 1

\* Every Lookup returns, however many keys it has and whether or not the lookuper
\* is closed meanwhile, and Close returns.
LookupsEnd ==
    <>[]((\A c \in Lookups : call[c].pc = "returned") /\ (lookupClosed => stopped))
=============================================================================
