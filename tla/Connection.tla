------------------------------ MODULE Connection ------------------------------
(***************************************************************************)
(* internal/transport: one RPC connection shared by concurrent requests.   *)
(* A request takes a capacity slot, registers an ID, writes its frame      *)
(* under writeMu, waits for the read loop to deliver the response with its *)
(* ID, and unregisters.  A hook of its context interrupts a blocked write  *)
(* by setting a write deadline on the shared socket.  fail closes the      *)
(* connection once: it takes all pending requests under mu, and only then  *)
(* closes the socket and completes them.                                   *)
(*                                                                         *)
(* IDs are int32 in the code; MaxID stands for 2^31 - 1.  The connection   *)
(* is fresh or has served requests until the IDs are about to wrap.  MaxID *)
(* is at least the number of requests, as reusing an ID within the         *)
(* lifetime of a request takes 2^31 others.                                *)
(***************************************************************************)
EXTENDS Integers, Sequences, FiniteSets

CONSTANTS
    Requests,      \* calls of Request
    CancelableRequests, \* those whose context may be canceled
    MaxID,
    MaxInFlight,   \* capacity of sem
    Faults,        \* whether the network and the server may fail
    None

ASSUME ConnectionAssumption ==
    /\ IsFiniteSet(Requests) /\ CancelableRequests \subseteq Requests
    /\ MaxID \in Nat \ {0} /\ MaxID >= Cardinality(Requests)
    /\ MaxInFlight \in Nat \ {0} /\ Faults \in BOOLEAN
    /\ None \notin Requests

VARIABLES
    pc,         \* where each request is
    ctxDone,    \* requests whose context is done
    sem,        \* requests that hold a capacity slot
    id,         \* ID of each request, 0 before register
    nextID,
    pending,    \* pairs of an ID and the request whose channel it leads to
    ch,         \* the result in each request's channel
    res,        \* what each request returns
    writeMu,    \* its holder
    hook,       \* the interruption hook of each request's context
    deadline,   \* a write deadline in the past is set on the socket
    put,        \* how much of its frame a request wrote, and the error
    closed, closeErr,
    failer,     \* who is between the two parts of fail, and for whom
    connClosed, \* the socket is closed on this side
    broken,     \* the socket fails for another reason
    reader,     \* the read loop
    wire,       \* frames and parts of frames written so far
    replies,    \* frames the server sent
    answered    \* requests it answered

requestVars == <<pc, sem, id, nextID, pending, ch, res, writeMu, hook, deadline, put, wire>>
failVars == <<closed, closeErr, failer, connClosed>>
peerVars == <<broken, replies, answered>>
vars == <<requestVars, failVars, peerVars, ctxDone, reader>>

Outcome(kind, r) == [kind |-> kind, of |-> r]

Init ==
    /\ pc = [r \in Requests |-> "start"] /\ ctxDone = {} /\ sem = {}
    /\ id = [r \in Requests |-> 0] /\ nextID \in {0, MaxID - 1} /\ pending = {}
    /\ ch = [r \in Requests |-> None] /\ res = [r \in Requests |-> None]
    /\ writeMu = None /\ hook = [r \in Requests |-> "off"] /\ deadline = FALSE
    /\ put = [r \in Requests |-> [bytes |-> "none", err |-> "nil"]]
    /\ closed = FALSE /\ closeErr = None
    /\ failer = [who |-> None, taken |-> {}] /\ connClosed = FALSE
    /\ broken = FALSE /\ reader = "read" /\ wire = <<>> /\ replies = {} /\ answered = {}

Goto(r, l) == pc' = [pc EXCEPT ![r] = l]
Leave(r, l, kind) == Goto(r, l) /\ res' = [res EXCEPT ![r] = Outcome(kind, r)]

-----------------------------------------------------------------------------
(* Request, up to the write. *)

Acquire(r) ==
    /\ pc[r] = "start" /\ Cardinality(sem) < MaxInFlight
    /\ sem' = sem \union {r}
    /\ Goto(r, "sem")
    /\ UNCHANGED <<id, nextID, pending, ch, res, writeMu, hook, deadline, put, wire>>
    /\ UNCHANGED <<failVars, peerVars, ctxDone, reader>>

\* The context ends, or the connection closes, before a slot is free.
Refuse(r) ==
    /\ pc[r] = "start"
    /\ \/ r \in ctxDone /\ Leave(r, "returned", "ctx")
       \/ closed /\ Leave(r, "returned", closeErr)
    /\ UNCHANGED <<sem, id, nextID, pending, ch, writeMu, hook, deadline, put, wire>>
    /\ UNCHANGED <<failVars, peerVars, ctxDone, reader>>

\* Mutant: the ID is not moved on.
sameID(from) == from

\* register skips the IDs that are pending and wraps to 1.
nextFreeID(from) ==
    LET after(k) == ((from + k - 1) % MaxID) + 1
        k == CHOOSE n \in 1 .. MaxID :
               /\ ~\E p \in pending : p[1] = after(n)
               /\ \A m \in 1 .. n - 1 : \E p \in pending : p[1] = after(m)
    IN  after(k)

Register(r) ==
    /\ pc[r] = "sem"
    /\ CASE r \in ctxDone -> Leave(r, "return", "ctx") /\ UNCHANGED <<id, nextID, pending>>
         [] r \notin ctxDone /\ closed -> Leave(r, "return", closeErr) /\ UNCHANGED <<id, nextID, pending>>
         [] OTHER -> /\ nextID' = nextFreeID(nextID)
                     /\ id' = [id EXCEPT ![r] = nextID']
                     /\ pending' = pending \union {<<nextID', r>>}
                     /\ Goto(r, "lock") /\ UNCHANGED res
    /\ UNCHANGED <<sem, ch, writeMu, hook, deadline, put, wire>>
    /\ UNCHANGED <<failVars, peerVars, ctxDone, reader>>

-----------------------------------------------------------------------------
(* writeRequest. *)

\* Lock writeMu, check the context, prepareWrite.
LockWrite(r) ==
    /\ pc[r] = "lock" /\ writeMu = None
    /\ IF r \in ctxDone
         THEN Leave(r, "return", "ctx") /\ UNCHANGED <<writeMu, hook>>
         ELSE /\ writeMu' = r /\ hook' = [hook EXCEPT ![r] = "armed"]
              /\ Goto(r, "write") /\ UNCHANGED res
    /\ UNCHANGED <<sem, id, nextID, pending, ch, deadline, put, wire>>
    /\ UNCHANGED <<failVars, peerVars, ctxDone, reader>>

\* The context's hook runs in a goroutine of its own.
StartHook(r) ==
    /\ hook[r] = "armed" /\ r \in ctxDone
    /\ hook' = [hook EXCEPT ![r] = "started"]
    /\ UNCHANGED <<pc, sem, id, nextID, pending, ch, res, writeMu, deadline, put, wire>>
    /\ UNCHANGED <<failVars, peerVars, ctxDone, reader>>

RunHook(r) ==
    /\ hook[r] = "started"
    /\ hook' = [hook EXCEPT ![r] = "ran"] /\ deadline' = TRUE
    /\ UNCHANGED <<pc, sem, id, nextID, pending, ch, res, writeMu, put, wire>>
    /\ UNCHANGED <<failVars, peerVars, ctxDone, reader>>

\* What is written after the socket was closed goes nowhere.
Written(r, bytes, err) ==
    /\ put' = [put EXCEPT ![r] = [bytes |-> bytes, err |-> err]]
    /\ wire' = IF bytes = "none" \/ connClosed THEN wire
               ELSE Append(wire, [of |-> r, id |-> id[r], whole |-> bytes = "all"])
    /\ Goto(r, "finish")
    /\ UNCHANGED <<sem, id, nextID, pending, ch, res, writeMu, hook, deadline>>
    /\ UNCHANGED <<failVars, peerVars, ctxDone, reader>>

\* writeFrame succeeds.  The peer may also never read, and the call block.
WriteWhole(r) ==
    pc[r] = "write" /\ ~deadline /\ ~connClosed /\ ~broken /\ Written(r, "all", "nil")

\* writeFrame fails; interruptedWriteError blames the context if it is done.
WriteError(r) ==
    /\ pc[r] = "write" /\ (deadline \/ connClosed \/ broken)
    /\ \E bytes \in {"none", "part"} : Written(r, bytes, IF r \in ctxDone THEN "ctx" ELSE "net")

\* Mutant: a write that was interrupted never discards the connection.
discardUnlessCanceled(r) == put[r].err = "net"

\* Mutant: whatever interrupted the write discards the connection.
discardAlways(r) == put[r].err # "nil"

discard(r) ==
    \/ hook[r] = "ran" /\ connClosed      \* the deadline cannot be cleared
    \/ put[r].err # "nil" /\ (put[r].bytes = "part" \/ put[r].err = "net")

\* Mutant: the hook is stopped but not waited for.
FinishWriteEarly(r) ==
    /\ pc[r] = "finish"
    /\ deadline' = (deadline /\ hook[r] # "ran")
    /\ hook' = [hook EXCEPT ![r] = IF @ = "started" THEN @ ELSE "off"] /\ writeMu' = None
    /\ CASE discard(r) -> Goto(r, "discard") /\ UNCHANGED res
         [] ~discard(r) /\ put[r].err = "nil" -> Goto(r, "await") /\ UNCHANGED res
         [] OTHER -> Leave(r, "return", "ctx")
    /\ UNCHANGED <<sem, id, nextID, pending, ch, put, wire>>
    /\ UNCHANGED <<failVars, peerVars, ctxDone, reader>>

\* Stop the hook or wait for it, clear the deadline it set, unlock.
FinishWrite(r) ==
    /\ pc[r] = "finish" /\ hook[r] # "started"
    /\ deadline' = (deadline /\ hook[r] # "ran")
    /\ hook' = [hook EXCEPT ![r] = "off"] /\ writeMu' = None
    /\ CASE discard(r) -> Goto(r, "discard") /\ UNCHANGED res
         [] ~discard(r) /\ put[r].err = "nil" -> Goto(r, "await") /\ UNCHANGED res
         [] OTHER -> Leave(r, "return", "ctx")
    /\ UNCHANGED <<sem, id, nextID, pending, ch, put, wire>>
    /\ UNCHANGED <<failVars, peerVars, ctxDone, reader>>

-----------------------------------------------------------------------------
(* fail, and the end of a request. *)

\* The part of fail under mu; nothing happens if the connection is closed.
fail(who, err) ==
    IF closed THEN UNCHANGED <<failVars, pending>>
    ELSE /\ closed' = TRUE /\ closeErr' = err
         /\ failer' = [who |-> who, taken |-> {p[2] : p \in pending}]
         /\ pending' = {} /\ UNCHANGED connClosed

\* A write that broke the stream fails the connection.
Discard(r) ==
    /\ pc[r] = "discard"
    /\ fail(r, "write")
    /\ IF closed THEN Leave(r, "return", "write") ELSE Goto(r, "failing") /\ UNCHANGED res
    /\ UNCHANGED <<sem, id, nextID, ch, writeMu, hook, deadline, put, wire, peerVars, ctxDone, reader>>

\* Mutant: the socket stays open.
ShutKeepsSocket ==
    /\ failer.who # None
    /\ UNCHANGED connClosed
    /\ ch' = [r \in Requests |-> IF r \in failer.taken THEN Outcome(closeErr, r) ELSE ch[r]]
    /\ failer' = [who |-> None, taken |-> {}]
    /\ IF failer.who \in Requests THEN Leave(failer.who, "return", "write") ELSE UNCHANGED <<pc, res>>
    /\ UNCHANGED <<sem, id, nextID, pending, writeMu, hook, deadline, put, wire, closed, closeErr>>
    /\ UNCHANGED <<peerVars, ctxDone, reader>>

\* The rest of fail: close the socket, complete the requests that were taken.
Shut ==
    /\ failer.who # None
    /\ connClosed' = TRUE
    /\ ch' = [r \in Requests |-> IF r \in failer.taken THEN Outcome(closeErr, r) ELSE ch[r]]
    /\ failer' = [who |-> None, taken |-> {}]
    /\ IF failer.who \in Requests THEN Leave(failer.who, "return", "write") ELSE UNCHANGED <<pc, res>>
    /\ UNCHANGED <<sem, id, nextID, pending, writeMu, hook, deadline, put, wire, closed, closeErr>>
    /\ UNCHANGED <<peerVars, ctxDone, reader>>

Close ==
    /\ ~closed /\ fail("close", "closed")
    /\ UNCHANGED <<pc, sem, id, nextID, ch, res, writeMu, hook, deadline, put, wire>>
    /\ UNCHANGED <<peerVars, ctxDone, reader>>

Await(r) ==
    /\ pc[r] = "await"
    /\ \/ ch[r] # None /\ Goto(r, "return") /\ res' = [res EXCEPT ![r] = ch[r]]
       \/ r \in ctxDone /\ Leave(r, "return", "ctx")
       \/ closed /\ Leave(r, "return", closeErr)
    /\ UNCHANGED <<sem, id, nextID, pending, ch, writeMu, hook, deadline, put, wire>>
    /\ UNCHANGED <<failVars, peerVars, ctxDone, reader>>

\* Mutant: a request that gives up stays registered.
ReturnRegistered(r) ==
    /\ pc[r] = "return"
    /\ sem' = sem \ {r}
    /\ Goto(r, "returned")
    /\ UNCHANGED <<id, nextID, pending, ch, res, writeMu, hook, deadline, put, wire>>
    /\ UNCHANGED <<failVars, peerVars, ctxDone, reader>>

\* The deferred unregister and the release of the slot.
Return(r) ==
    /\ pc[r] = "return"
    /\ pending' = {p \in pending : p[1] # id[r]} /\ sem' = sem \ {r}
    /\ Goto(r, "returned")
    /\ UNCHANGED <<id, nextID, ch, res, writeMu, hook, deadline, put, wire>>
    /\ UNCHANGED <<failVars, peerVars, ctxDone, reader>>

-----------------------------------------------------------------------------
(* The read loop. *)

takePending(m) == {p \in pending : p[1] # m.id}

\* handleFrame and deliver for a response, be it a result or an error; one that nobody waits for is dropped.
Deliver(m) ==
    /\ reader = "read" /\ ~connClosed /\ m \in replies /\ m.kind = "response"
    /\ replies' = replies \ {m}
    /\ pending' = takePending(m)
    /\ ch' = [r \in Requests |-> IF <<m.id, r>> \in pending THEN Outcome(m.kind, m.of) ELSE ch[r]]
    /\ UNCHANGED <<pc, sem, id, nextID, res, writeMu, hook, deadline, put, wire>>
    /\ UNCHANGED <<failVars, broken, answered, ctxDone, reader>>

\* readFrame fails, or the frame is malformed or reports a server failure.
ReadError ==
    /\ reader = "read"
    /\ connClosed \/ broken \/ \E m \in replies : m.kind = "bad"
    /\ fail("reader", "read") /\ reader' = "exited"
    /\ UNCHANGED <<pc, sem, id, nextID, ch, res, writeMu, hook, deadline, put, wire, peerVars, ctxDone>>

-----------------------------------------------------------------------------
(* The callers' contexts, the network and the server (external). *)

CancelRequest(r) ==
    /\ r \in CancelableRequests \ ctxDone /\ pc[r] # "returned"
    /\ ctxDone' = ctxDone \union {r}
    /\ UNCHANGED <<requestVars, failVars, peerVars, reader>>

\* The server can parse a frame that no part of another one precedes.
Intact(n) == \A k \in 1 .. n : wire[k].whole

Reply(n) ==
    /\ Intact(n) /\ ~broken /\ ~connClosed /\ wire[n].of \notin answered
    /\ answered' = answered \union {wire[n].of}
    /\ replies' = replies \union {[id |-> wire[n].id, of |-> wire[n].of, kind |-> "response"]}
    /\ UNCHANGED <<requestVars, failVars, broken, ctxDone, reader>>

\* The peer or the network fails.
Fault ==
    /\ Faults /\ ~broken /\ ~connClosed /\ ~\E m \in replies : m.kind = "bad"
    /\ \/ broken' = TRUE /\ UNCHANGED replies
       \/ UNCHANGED broken /\ replies' = replies \union {[id |-> 0, of |-> None, kind |-> "bad"]}
    /\ UNCHANGED <<requestVars, failVars, answered, ctxDone, reader>>

-----------------------------------------------------------------------------
\* What the client does by itself, a write to a peer that reads excepted.
RequestStep(r) ==
    \/ Acquire(r) \/ Refuse(r) \/ Register(r) \/ LockWrite(r) \/ StartHook(r) \/ RunHook(r)
    \/ WriteError(r) \/ FinishWrite(r) \/ Discard(r) \/ Await(r) \/ Return(r)
ClientStep == Shut \/ ReadError \/ (\E m \in replies : Deliver(m)) \/ \E r \in Requests : RequestStep(r)

Next ==
    \/ ClientStep \/ Close \/ Fault
    \/ \E r \in Requests : WriteWhole(r) \/ CancelRequest(r)
    \/ \E n \in DOMAIN wire : Reply(n)

Spec == Init /\ [][Next]_vars

\* Goroutines keep running; neither the peer nor the network owes anything.
\* Every behaviour is finite, so one condition for all of them is enough.
FairSpec == Spec /\ WF_vars(ClientStep)

-----------------------------------------------------------------------------
Registered == {"lock", "write", "finish", "discard", "failing", "await", "return"}

TypeOK ==
    /\ pc \in [Requests -> Registered \union {"start", "sem", "returned"}]
    /\ ctxDone \subseteq CancelableRequests /\ sem \subseteq Requests
    /\ id \in [Requests -> 0 .. MaxID] /\ nextID \in 0 .. MaxID
    /\ pending \subseteq (1 .. MaxID) \X Requests
    /\ writeMu \in Requests \union {None} /\ deadline \in BOOLEAN
    /\ closed \in BOOLEAN /\ connClosed \in BOOLEAN /\ reader \in {"read", "exited"}
    /\ closeErr \in {None, "closed", "write", "read"}
    /\ failer.taken \subseteq Requests

\* Request returns the response the server gave to that request, however many
\* others are answered before it, canceled, or answered too late.
Correlated ==
    \A r \in Requests : res[r] # None /\ res[r].kind = "response" =>
        res[r].of = r /\ r \in answered

\* register, takePending, fail and unregister hand each request over exactly
\* once: one that waits is pending, or its result is in its channel, or fail has
\* it.  A request that returned left neither an entry nor a slot behind.
HandedOver ==
    \A r \in Requests :
        /\ pc[r] = "await" =>
             Cardinality({h \in 1 .. 3 : \/ h = 1 /\ <<id[r], r>> \in pending
                                         \/ h = 2 /\ ch[r] # None
                                         \/ h = 3 /\ r \in failer.taken}) = 1
        /\ pc[r] = "returned" => r \notin sem /\ ~\E p \in pending : p[2] = r

\* The write deadline one request's cancellation puts on the shared socket is
\* gone before another request writes (prepareWrite waits for the hook).
NoStaleDeadline ==
    /\ deadline => writeMu # None /\ writeMu \in ctxDone
    /\ \A r \in Requests : hook[r] # "off" => writeMu = r

\* A canceled context spoils the connection only if part of a frame was written
\* (CHANGELOG.md: "Prevented an already-canceled request from poisoning an
\* established managed connection").
CancellationIsLocal ==
    closed /\ closeErr = "write" => broken \/ \E n \in DOMAIN wire : ~wire[n].whole

\* After a part of a frame the connection is failed and its socket closed.
PartialFrameEndsConnection == (\E n \in DOMAIN wire : ~wire[n].whole) ~> connClosed

\* Close, or any failure, ends every request, whatever it was waiting for.
CloseEndsRequests == closed ~> \A r \in Requests : pc[r] = "returned"

\* A connection is discarded when cancellation interrupts a partially written
\* frame (CHANGELOG.md): nothing is written to it any more.
NoFrameAfterPartial == \A n \in 1 .. Len(wire) - 1 : wire[n].whole
=============================================================================
