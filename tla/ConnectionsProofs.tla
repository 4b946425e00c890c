--------------------------- MODULE ConnectionsProofs --------------------------
(***************************************************************************)
(* Proofs about Connection, for any number of requests, any capacity and   *)
(* any number of IDs that is not smaller than the number of requests, and  *)
(* about Coalescer and the connection manager that extends it, for any     *)
(* finite set of callers and any number of shared calls.                   *)
(*                                                                         *)
(* Responses: an ID that register hands out belongs to no other request,   *)
(* since the IDs given so far are 1 .. K, or MaxID followed by 1 .. K - 1  *)
(* on a connection whose IDs wrap.  Entries of pending, frames and replies *)
(* carry the ID of their own request, so a reply can only reach the        *)
(* channel of the request it answers.  Writes: the deadline on the socket  *)
(* is set only by the hook of the request that holds writeMu, which is     *)
(* canceled; a request that is not canceled and whose write fails          *)
(* therefore met a broken or a closed socket.                              *)
(*                                                                         *)
(* Shared calls: waiters counts the callers that wait for a call, so the   *)
(* decision of the last one to leave is about the state of all of them.    *)
(* The entry in the map is the one call that is running and wanted; a call *)
(* that was abandoned is never joined again, so who disposes its result    *)
(* knows that nobody will come for it.                                     *)
(***************************************************************************)
EXTENDS MCConnections, FiniteSetTheorems, TLAPS

-----------------------------------------------------------------------------
(* The connection *)

Hooks == {"off", "armed", "started", "ran"}
Puts == [bytes : {"none", "part", "all"}, err : {"nil", "ctx", "net"}]
Steps == Registered \union {"start", "sem", "returned"}

\* Part of a frame was written, or the socket is broken.
Torn == \E n \in DOMAIN wire : ~wire[n].whole
Damaged == broken \/ Torn

WriteTypes ==
    /\ pc \in [Requests -> Steps] /\ hook \in [Requests -> Hooks] /\ put \in [Requests -> Puts]
    /\ \E S : wire \in Seq(S)

\* The hook and the deadline belong to the holder of writeMu, who is canceled.
HookInv ==
    /\ \A r \in Requests : hook[r] # "off" => writeMu = r
    /\ \A r \in Requests : pc[r] \in {"write", "finish"} => writeMu = r
    /\ \A r \in Requests : hook[r] \in {"started", "ran"} => r \in ctxDone
    /\ deadline => writeMu \in ctxDone /\ writeMu \in Requests /\ hook[writeMu] = "ran"
    /\ ctxDone \subseteq Requests

\* Why a connection is closed, or is about to be.
DamageInv ==
    /\ connClosed \/ failer.who # None => closed
    /\ \A r \in Requests : pc[r] = "finish" /\ put[r].err # "nil" /\ (put[r].bytes = "part" \/ put[r].err = "net")
                             => closed \/ Damaged
    /\ \A r \in Requests : pc[r] = "discard" => closed \/ Damaged
    /\ CancellationIsLocal

WriteInv == WriteTypes /\ HookInv /\ DamageInv

-----------------------------------------------------------------------------
\* A frame that was torn stays torn, and the last one tears the stream if it is
\* not whole.
LEMMA AppendTorn ==
    ASSUME NEW s, NEW S, s \in Seq(S), NEW f
    PROVE  /\ \E T : Append(s, f) \in Seq(T)
           /\ (\E n \in DOMAIN s : ~s[n].whole) => \E n \in DOMAIN Append(s, f) : ~Append(s, f)[n].whole
           /\ ~f.whole => \E n \in DOMAIN Append(s, f) : ~Append(s, f)[n].whole
<1> DEFINE T == S \union {f}
<1>1. s \in Seq(T)
    OBVIOUS
<1>2. Append(s, f) \in Seq(T) /\ Len(Append(s, f)) = Len(s) + 1
    BY <1>1
<1>3. \A n \in DOMAIN s : n \in DOMAIN Append(s, f) /\ Append(s, f)[n] = s[n]
    BY <1>1, <1>2
<1>4. Len(s) + 1 \in DOMAIN Append(s, f) /\ Append(s, f)[Len(s) + 1] = f
    BY <1>1, <1>2
<1> HIDE DEF T
<1> QED
    BY <1>2, <1>3, <1>4, Zenon

\* A new connection satisfies the invariant of writes.
LEMMA InitWriteInv == Init => WriteInv
<1> SUFFICES ASSUME Init PROVE WriteInv
    BY Zenon
<1> USE ConnectionAssumption DEF Init
<1>1. WriteTypes
  <2>1. wire \in Seq({})
    OBVIOUS
  <2>2. hook \in [Requests -> Hooks] /\ pc \in [Requests -> Steps]
    BY Zenon DEF Hooks, Steps
  <2>3. put \in [Requests -> Puts]
    BY Zenon DEF Puts
  <2> QED
    BY <2>1, <2>2, <2>3, Zenon DEF WriteTypes
<1>2. HookInv
    BY Zenon DEF HookInv
<1>3. DamageInv
    BY Zenon DEF DamageInv, CancellationIsLocal
<1> QED
    BY <1>1, <1>2, <1>3, Zenon DEF WriteInv

\* What a request does before and after its write keeps the invariant of writes.
LEMMA QuietWriteInv ==
    ASSUME WriteInv, NEW r \in Requests,
           Acquire(r) \/ Refuse(r) \/ Register(r) \/ LockWrite(r) \/ Await(r) \/ Return(r)
    PROVE  WriteInv'
<1> USE ConnectionAssumption DEF WriteInv, Goto, Leave, failVars, peerVars
<1>1. PICK l \in Steps \ {"finish", "discard"} : pc' = [pc EXCEPT ![r] = l] /\ (l = "write" => LockWrite(r))
    BY Zenon DEF WriteTypes, Steps, Registered, Acquire, Refuse, Register, LockWrite, Await, Return
<1>2. /\ UNCHANGED <<put, wire, deadline, closed, closeErr, failer, connClosed, broken, ctxDone>>
      /\ ~LockWrite(r) => UNCHANGED <<hook, writeMu>>
    BY Zenon DEF Acquire, Refuse, Register, LockWrite, Await, Return
<1>3. \/ UNCHANGED <<hook, writeMu>> /\ l # "write"
      \/ writeMu = None /\ writeMu' = r /\ hook' = [hook EXCEPT ![r] = "armed"] /\ r \notin ctxDone
    BY <1>1, <1>2, Zenon DEF LockWrite, WriteTypes
<1>4. WriteTypes'
    BY <1>1, <1>2, <1>3, Zenon DEF WriteTypes, Hooks
<1>5. HookInv'
    BY <1>1, <1>2, <1>3 DEF WriteTypes, HookInv, Hooks, Steps
<1>6. DamageInv'
    BY <1>1, <1>2, Zenon DEF WriteTypes, DamageInv, Damaged, Torn, CancellationIsLocal
<1> QED
    BY <1>4, <1>5, <1>6, Zenon

\* The hook of a canceled context sets the deadline of the request that writes.
LEMMA HookWriteInv ==
    ASSUME WriteInv, NEW r \in Requests, StartHook(r) \/ RunHook(r)
    PROVE  WriteInv'
<1> USE ConnectionAssumption DEF WriteInv, failVars, peerVars, StartHook, RunHook
<1>1. WriteTypes'
    BY DEF WriteTypes, Hooks
<1>2. HookInv'
    BY DEF WriteTypes, HookInv
<1>3. DamageInv'
    BY DEF DamageInv, Damaged, Torn, CancellationIsLocal
<1> QED
    BY <1>1, <1>2, <1>3, Zenon

\* A write that fails although its request is not canceled met a socket that is
\* broken or closed: the deadline can only be its own.
LEMMA WrittenWriteInv ==
    ASSUME WriteInv, NEW r \in Requests, WriteWhole(r) \/ WriteError(r)
    PROVE  WriteInv'
<1> USE ConnectionAssumption DEF WriteInv
<1>1. PICK bytes \in {"none", "part", "all"}, err \in {"nil", "ctx", "net"} :
        /\ Written(r, bytes, err)
        /\ err = "net" => r \notin ctxDone /\ (deadline \/ connClosed \/ broken)
    BY Zenon DEF WriteWhole, WriteError
<1>2. pc[r] = "write" /\ writeMu = r
    BY Zenon DEF WriteWhole, WriteError, HookInv
<1>3. err = "net" => closed \/ broken
    BY <1>1, <1>2, Zenon DEF HookInv, DamageInv
<1>4. /\ pc' = [pc EXCEPT ![r] = "finish"] /\ put' = [put EXCEPT ![r] = [bytes |-> bytes, err |-> err]]
      /\ UNCHANGED <<hook, writeMu, deadline, closed, closeErr, failer, connClosed, broken, ctxDone>>
    BY <1>1, Zenon DEF Written, Goto, failVars, peerVars
<1>5. /\ \E S : wire' \in Seq(S)
      /\ Torn => Torn'
      /\ bytes = "part" => closed \/ Torn'
  <2>1. PICK S : wire \in Seq(S)
    BY Zenon DEF WriteTypes
  <2> DEFINE f == [of |-> r, id |-> id[r], whole |-> bytes = "all"]
  <2>2. CASE bytes = "none" \/ connClosed
    BY <1>1, <2>1, <2>2, Zenon DEF Written, Torn, DamageInv
  <2>3. CASE ~(bytes = "none" \/ connClosed)
    <3>1. wire' = Append(wire, f)
      BY <1>1, <2>3, Zenon DEF Written
    <3>2. bytes = "part" => ~f.whole
      BY Zenon
    <3> HIDE DEF f
    <3> QED
      BY <2>1, <3>1, <3>2, AppendTorn, Zenon DEF Torn
  <2> QED
    BY <2>2, <2>3, Zenon
<1>6. WriteTypes'
    BY <1>4, <1>5, Zenon DEF WriteTypes, Puts, Steps, Registered
<1>7. HookInv'
    BY <1>2, <1>4, Zenon DEF WriteTypes, HookInv
<1>8. DamageInv'
  <2>1. (connClosed \/ failer.who # None => closed)' /\ CancellationIsLocal'
    BY <1>4, <1>5, Zenon DEF DamageInv, CancellationIsLocal, Damaged, Torn
  <2>2. ASSUME NEW s \in Requests
        PROVE  /\ (pc[s] = "finish" /\ put[s].err # "nil" /\ (put[s].bytes = "part" \/ put[s].err = "net")
                     => closed \/ Damaged)'
               /\ (pc[s] = "discard" => closed \/ Damaged)'
    <3>1. CASE s = r
      BY <1>3, <1>4, <1>5, <3>1, Zenon DEF WriteTypes, Damaged
    <3>2. CASE s # r
      BY <1>4, <1>5, <3>2, Zenon DEF WriteTypes, Damaged, DamageInv
    <3> QED
      BY <3>1, <3>2, Zenon
  <2> QED
    BY <2>1, <2>2, Zenon DEF DamageInv
<1> QED
    BY <1>6, <1>7, <1>8, Zenon

\* The end of a write clears the deadline it set, and a write that spoiled the
\* stream goes on to fail the connection.
LEMMA FinishWriteInv ==
    ASSUME WriteInv, NEW r \in Requests, FinishWrite(r)
    PROVE  WriteInv'
<1> USE ConnectionAssumption DEF WriteInv
<1>1. PICK l \in {"discard", "await", "return"} : pc' = [pc EXCEPT ![r] = l] /\ (l = "discard" => discard(r))
    BY Zenon DEF FinishWrite, Goto, Leave
<1>2. /\ pc[r] = "finish" /\ writeMu = r /\ writeMu' = None
      /\ hook' = [hook EXCEPT ![r] = "off"] /\ deadline' = (deadline /\ hook[r] # "ran")
      /\ UNCHANGED <<put, wire, closed, closeErr, failer, connClosed, broken, ctxDone>>
    BY Zenon DEF FinishWrite, HookInv, failVars, peerVars
<1>3. l = "discard" => closed \/ Damaged
    BY <1>1, <1>2, Zenon DEF discard, DamageInv
<1>4. WriteTypes'
    BY <1>1, <1>2, Zenon DEF WriteTypes, Hooks, Steps, Registered
<1>5. HookInv'
    BY <1>1, <1>2, Zenon DEF WriteTypes, HookInv
<1>6. DamageInv'
    BY <1>1, <1>2, <1>3, Zenon DEF WriteTypes, DamageInv, Damaged, Torn, CancellationIsLocal
<1> QED
    BY <1>4, <1>5, <1>6, Zenon

\* fail and what calls it: only a spoiled stream is closed as a write error.
LEMMA FailWriteInv ==
    ASSUME WriteInv, (\E r \in Requests : Discard(r)) \/ Shut \/ Close \/ ReadError
    PROVE  WriteInv'
<1> USE ConnectionAssumption DEF WriteInv, peerVars, failVars
<1>1. /\ UNCHANGED <<put, wire, hook, writeMu, deadline, broken, ctxDone>>
      /\ pc' \in [Requests -> Steps]
      /\ \A s \in Requests : pc'[s] = pc[s] \/ pc'[s] \in {"return", "failing"}
    BY SMTT(30) DEF WriteTypes, Discard, Shut, Close, ReadError, fail, Goto, Leave, Steps, Registered
<1>2. closed => closed' /\ closeErr' = closeErr
    BY Zenon DEF Discard, Shut, Close, ReadError, fail
<1>3. connClosed' \/ failer'.who # None => closed'
    BY Zenon DEF Discard, Shut, Close, ReadError, fail, DamageInv
<1>4. closed' /\ ~closed /\ closeErr' = "write" => Damaged
    BY Zenon DEF Discard, Shut, Close, ReadError, fail, DamageInv
<1>5. WriteTypes'
    BY <1>1, Zenon DEF WriteTypes
<1>6. HookInv'
    BY <1>1, Zenon DEF HookInv
<1>7. CancellationIsLocal'
    BY <1>1, <1>2, <1>4, Zenon DEF DamageInv, Damaged, Torn, CancellationIsLocal
<1>8. DamageInv'
    BY <1>1, <1>2, <1>3, <1>7, Zenon DEF DamageInv, Damaged, Torn
<1> QED
    BY <1>5, <1>6, <1>8, Zenon

\* Contexts, the network, the server and the delivery of responses.
LEMMA PeerWriteInv ==
    ASSUME WriteInv,
           \/ \E m \in replies : Deliver(m)
           \/ \E r \in Requests : CancelRequest(r)
           \/ \E n \in DOMAIN wire : Reply(n)
           \/ Fault
           \/ UNCHANGED vars
    PROVE  WriteInv'
<1> USE ConnectionAssumption DEF WriteInv
<1>1. /\ UNCHANGED <<pc, put, wire, hook, writeMu, deadline, closed, closeErr, failer, connClosed>>
      /\ ctxDone \subseteq ctxDone' /\ ctxDone' \subseteq ctxDone \union Requests
      /\ broken => broken'
    BY SMTT(30) DEF Deliver, CancelRequest, Reply, Fault, requestVars, failVars, peerVars, vars
<1>2. WriteTypes'
    BY <1>1, Zenon DEF WriteTypes
<1>3. HookInv'
    BY <1>1, Zenon DEF HookInv
<1>4. DamageInv'
    BY <1>1, Zenon DEF DamageInv, Damaged, Torn, CancellationIsLocal
<1> QED
    BY <1>2, <1>3, <1>4, Zenon

\* The invariant of writes is inductive.
LEMMA WriteInvStep == WriteInv /\ [Next]_vars => WriteInv'
<1> SUFFICES ASSUME WriteInv, [Next]_vars PROVE WriteInv'
    BY Zenon
<1> QED
    BY QuietWriteInv, HookWriteInv, WrittenWriteInv, FinishWriteInv, FailWriteInv, PeerWriteInv, Zenon
       DEF Next, ClientStep, RequestStep

\* A canceled request spoils the connection only if part of its frame was
\* written: Request fails the connection for a write error only after the peer
\* broke the socket or a frame was torn.
THEOREM CanceledAlone == Spec => []CancellationIsLocal
<1>1. WriteInv => CancellationIsLocal
    BY Zenon DEF WriteInv, DamageInv
<1> QED
    BY <1>1, InitWriteInv, WriteInvStep, PTL DEF Spec

\* The write deadline that the hook of a canceled request puts on the shared
\* socket is never seen by the write of another request.
THEOREM OwnDeadline == Spec => []NoStaleDeadline
<1>1. WriteInv => NoStaleDeadline
    BY ConnectionAssumption, Zenon DEF WriteInv, HookInv, NoStaleDeadline
<1> QED
    BY <1>1, InitWriteInv, WriteInvStep, PTL DEF Spec

-----------------------------------------------------------------------------
(* Responses *)

\* The requests that have an ID, and how many they are.
Used == {r \in Requests : id[r] # 0}
K == Cardinality(Used)

Frames == [of : Requests, id : 0 .. MaxID, whole : BOOLEAN]

\* The IDs handed out so far: 1 .. K, or MaxID, 1 .. K - 1 after the wrap.
CountInv ==
    \/ nextID = K /\ \A r \in Used : id[r] <= K
    \/ nextID = MaxID - 1 /\ K = 0
    \/ nextID = MaxID /\ K = 1 /\ \A r \in Used : id[r] = MaxID
    \/ nextID = K - 1 /\ K >= 2 /\ \A r \in Used : id[r] < K \/ id[r] = MaxID

Failures == {"closed", "write", "read"}
Results == {None} \union [kind : {"response", "ctx"} \union Failures, of : Requests]

ResponseTypes ==
    /\ id \in [Requests -> 0 .. MaxID] /\ nextID \in 0 .. MaxID /\ pc \in [Requests -> Steps]
    /\ wire \in Seq(Frames) /\ pending \subseteq (0 .. MaxID) \X Requests
    /\ ch \in [Requests -> Results] /\ res \in [Requests -> Results]
    /\ closed \/ failer.who # None => closed /\ closeErr \in Failures

\* No two requests have the same ID, and a request gets one once.
OwnID ==
    /\ \A r, s \in Used : id[r] = id[s] => r = s
    /\ \A r \in Requests : pc[r] \in {"start", "sem"} => id[r] = 0
    /\ \A r \in Requests : pc[r] \in {"lock", "write"} => id[r] # 0

\* Entries, frames and replies carry the ID of their request.
CarryID ==
    /\ \A p \in pending : p[1] = id[p[2]] /\ p[1] # 0
    /\ \A n \in DOMAIN wire : wire[n].id = id[wire[n].of] /\ wire[n].id # 0
    /\ \A m \in replies : m.kind = "response" =>
         m.of \in Requests /\ m.of \in answered /\ m.id = id[m.of] /\ m.id # 0

\* A response in a channel is that of its request.
OwnResponse ==
    /\ \A r \in Requests : ch[r] # None /\ ch[r].kind = "response" => ch[r].of = r /\ r \in answered
    /\ Correlated

ResponseInv == ResponseTypes /\ CountInv /\ OwnID /\ CarryID /\ OwnResponse

-----------------------------------------------------------------------------
\* Numbers below MaxID are their own remainder.
LEMMA Wraps ==
    /\ \A x \in 0 .. MaxID - 1 : x % MaxID = x
    /\ MaxID % MaxID = 0
<1>1. MaxID \in Nat \ {0}
    BY ConnectionAssumption, Zenon
<1>2. ASSUME NEW x \in 0 .. MaxID - 1 PROVE x % MaxID = x
    BY <1>1
<1>3. MaxID % MaxID = 0
    BY <1>1
<1> QED
    BY <1>2, <1>3, Zenon

\* If the ID after the last one is not pending, register takes it.
LEMMA NextFree ==
    ASSUME nextID \in 0 .. MaxID, ~\E p \in pending : p[1] = (nextID % MaxID) + 1
    PROVE  nextFreeID(nextID) = (nextID % MaxID) + 1
<1> DEFINE after(k) == ((nextID + k - 1) % MaxID) + 1
           free(n) == /\ ~\E p \in pending : p[1] = after(n)
                      /\ \A m \in 1 .. n - 1 : \E p \in pending : p[1] = after(m)
           k == CHOOSE n \in 1 .. MaxID : free(n)
<1>1. MaxID \in Nat \ {0}
    BY ConnectionAssumption, Zenon
<1>2. after(1) = (nextID % MaxID) + 1
  <2>1. nextID + 1 - 1 = nextID
    BY <1>1
  <2> QED
    BY <2>1, Zenon
<1> HIDE DEF after
<1>3. free(1)
    BY <1>2
<1>4. \A n \in 1 .. MaxID : free(n) => n = 1
    BY <1>1, <1>2
<1>5. k = 1
    BY <1>1, <1>3, <1>4
<1> QED
    BY <1>2, <1>5, Zenon DEF nextFreeID, after

\* While a request has no ID, fewer than MaxID were given.
LEMMA UsedBound ==
    ASSUME NEW r \in Requests, id[r] = 0
    PROVE  IsFiniteSet(Used) /\ K \in Nat /\ K < MaxID
<1>1. IsFiniteSet(Requests) /\ Used \in SUBSET Requests /\ Used # Requests
    BY ConnectionAssumption, Zenon DEF Used
<1>2. IsFiniteSet(Used) /\ Cardinality(Used) <= Cardinality(Requests) /\ Cardinality(Requests) # Cardinality(Used)
    BY <1>1, FS_Subset, Zenon
<1>3. Cardinality(Used) \in Nat /\ Cardinality(Requests) \in Nat
    BY <1>1, <1>2, FS_CardinalityType, Zenon
<1> QED
    BY <1>2, <1>3, ConnectionAssumption DEF K

\* The ID that register gives is new, and the account of IDs goes on.
LEMMA RegisterCounts ==
    ASSUME ResponseInv, NEW r \in Requests, pc[r] = "sem",
           nextID' = nextFreeID(nextID), id' = [id EXCEPT ![r] = nextID']
    PROVE  nextID' \in 1 .. MaxID /\ CountInv' /\ \A s \in Used : id[s] # nextID'
<1> USE ConnectionAssumption DEF ResponseInv
<1>1. id[r] = 0 /\ r \notin Used
    BY Zenon DEF OwnID, Used
<1>2. IsFiniteSet(Used) /\ K \in Nat /\ K < MaxID
    BY <1>1, UsedBound, Zenon
<1>3. nextID \in 0 .. MaxID /\ MaxID \in Nat \ {0}
    BY Zenon DEF ResponseTypes
<1> DEFINE new == (nextID % MaxID) + 1
<1>4. \/ nextID = K /\ new = K + 1 /\ \A s \in Used : id[s] <= K
      \/ nextID = MaxID - 1 /\ new = MaxID /\ K = 0
      \/ nextID = MaxID /\ new = 1 /\ K = 1 /\ \A s \in Used : id[s] = MaxID
      \/ nextID = K - 1 /\ new = K /\ K >= 2 /\ \A s \in Used : id[s] < K \/ id[s] = MaxID
  <2>1. CASE nextID = MaxID
    BY <1>2, <1>3, <2>1, Wraps DEF CountInv
  <2>2. CASE nextID # MaxID
    <3>1. new = nextID + 1
      BY <1>3, <2>2, Wraps
    <3> HIDE DEF new
    <3> QED
      BY <1>2, <1>3, <2>2, <3>1 DEF CountInv
  <2> QED
    BY <2>1, <2>2, Zenon
<1> HIDE DEF new
<1>5. \A s \in Used : id[s] \in 1 .. MaxID
    BY <1>3 DEF Used, ResponseTypes
<1>6. new \in 1 .. MaxID
    BY <1>2, <1>3, <1>4
<1>7. \A s \in Used : id[s] # new
  <2>1. K = 0 => Used = {}
    BY <1>2, FS_EmptySet, Zenon DEF K
  <2> QED
    BY <1>2, <1>3, <1>4, <1>5, <2>1
<1>8. nextID' = new
  <2>1. ~\E p \in pending : p[1] = new
    BY <1>6, <1>7 DEF CarryID, ResponseTypes, Used
  <2> QED
    BY <1>3, <2>1, NextFree, Zenon DEF new
<1>9. Used' = Used \union {r} /\ K' = K + 1
  <2>1. Used' = Used \union {r}
    BY <1>3, <1>6, <1>8 DEF Used, ResponseTypes
  <2> QED
    BY <1>1, <1>2, <2>1, FS_AddElement, Zenon DEF K
<1>10. id'[r] = new /\ \A s \in Used : id'[s] = id[s]
    BY <1>1, <1>8, Zenon DEF ResponseTypes, Used
<1>11. CountInv'
  <2>1. CASE nextID = K /\ new = K + 1 /\ \A s \in Used : id[s] <= K
    BY <1>2, <1>5, <1>8, <1>9, <1>10, <2>1 DEF CountInv
  <2>2. CASE nextID = MaxID - 1 /\ new = MaxID /\ K = 0
    <3>1. Used = {}
      BY <1>2, <2>2, FS_EmptySet, Zenon DEF K
    <3> QED
      BY <1>2, <1>8, <1>9, <1>10, <2>2, <3>1 DEF CountInv
  <2>3. CASE nextID = MaxID /\ new = 1 /\ K = 1 /\ \A s \in Used : id[s] = MaxID
    BY <1>2, <1>8, <1>9, <1>10, <2>3 DEF CountInv
  <2>4. CASE nextID = K - 1 /\ new = K /\ K >= 2 /\ \A s \in Used : id[s] < K \/ id[s] = MaxID
    BY <1>2, <1>5, <1>8, <1>9, <1>10, <2>4 DEF CountInv
  <2> QED
    BY <1>4, <2>1, <2>2, <2>3, <2>4, Zenon
<1> QED
    BY <1>6, <1>7, <1>8, <1>11, Zenon

\* register keeps the invariant of responses.
LEMMA RegisterResponseInv ==
    ASSUME ResponseInv, NEW r \in Requests, Register(r), r \notin ctxDone, ~closed
    PROVE  ResponseInv'
<1> USE ConnectionAssumption DEF ResponseInv
<1>1. /\ pc[r] = "sem" /\ nextID' = nextFreeID(nextID) /\ id' = [id EXCEPT ![r] = nextID']
      /\ pending' = pending \union {<<nextID', r>>} /\ pc' = [pc EXCEPT ![r] = "lock"]
      /\ UNCHANGED <<wire, ch, res, closed, closeErr, failer, replies, answered>>
    BY Zenon DEF Register, Goto, failVars, peerVars
<1>2. nextID' \in 1 .. MaxID /\ CountInv' /\ \A s \in Used : id[s] # nextID'
    BY <1>1, RegisterCounts, Zenon
<1>3. id'[r] = nextID' /\ id[r] = 0 /\ \A s \in Requests : s # r => id'[s] = id[s]
    BY <1>1, Zenon DEF ResponseTypes, OwnID
<1>4. ResponseTypes'
    BY <1>1, <1>2 DEF ResponseTypes, Steps, Registered
<1>5. OwnID'
    BY <1>1, <1>2, <1>3, SMTT(30) DEF OwnID, Used, ResponseTypes
<1>6. CarryID'
  <2>1. (\A p \in pending : p[1] = id[p[2]] /\ p[1] # 0)'
    BY <1>1, <1>2, <1>3, SMTT(30) DEF CarryID, ResponseTypes
  <2>2. (\A n \in DOMAIN wire : wire[n].id = id[wire[n].of] /\ wire[n].id # 0)'
    <3>1. \A n \in DOMAIN wire : wire[n] \in Frames
      BY DEF ResponseTypes
    <3>2. \A n \in DOMAIN wire : wire[n].of \in Requests
      BY <3>1, Zenon DEF Frames
    <3> QED
      BY <1>1, <1>3, <3>2 DEF CarryID
  <2>3. (\A m \in replies : m.kind = "response" =>
           m.of \in Requests /\ m.of \in answered /\ m.id = id[m.of] /\ m.id # 0)'
    BY <1>1, <1>3, SMTT(30) DEF CarryID
  <2> QED
    BY <2>1, <2>2, <2>3, Zenon DEF CarryID
<1>7. OwnResponse'
    BY <1>1, Zenon DEF OwnResponse, Correlated
<1> QED
    BY <1>2, <1>4, <1>5, <1>6, <1>7, Zenon

\* A new connection satisfies the invariant of responses.
LEMMA InitResponseInv == Init => ResponseInv
<1> SUFFICES ASSUME Init PROVE ResponseInv
    BY Zenon
<1> USE ConnectionAssumption DEF Init
<1>1. Used = {} /\ K = 0
    BY FS_EmptySet, Zenon DEF Used, K
<1>2. ResponseTypes
    BY SMTT(30) DEF ResponseTypes, Steps, Registered, Results
<1>3. CountInv
    BY <1>1, Zenon DEF CountInv
<1>4. OwnID /\ CarryID
    BY <1>1 DEF OwnID, CarryID
<1>5. OwnResponse
    BY Zenon DEF OwnResponse, Correlated
<1> QED
    BY <1>2, <1>3, <1>4, <1>5, Zenon DEF ResponseInv

\* A step that gives out no ID, adds no entry and no frame, and moves only
\* results that are no new responses keeps the invariant of responses.
LEMMA OtherResponseInv ==
    ASSUME ResponseInv,
           UNCHANGED <<id, nextID, wire>>, pending' \subseteq pending,
           replies' = replies \/ (\A m \in replies' \ replies : m.kind # "response"),
           answered \subseteq answered',
           pc' \in [Requests -> Steps],
           \A r \in Requests : pc'[r] = pc[r] \/ pc'[r] \notin {"start", "sem", "lock", "write"}
                                 \/ (pc[r] = "start" /\ pc'[r] = "sem") \/ (pc[r] = "lock" /\ pc'[r] = "write"),
           ch' \in [Requests -> Results], res' \in [Requests -> Results],
           \A r \in Requests : ch'[r] = ch[r] \/ ch'[r].kind # "response" \/ (ch'[r].of = r /\ r \in answered),
           \A r \in Requests : res'[r] = res[r] \/ res'[r] = ch[r] \/ res'[r].kind # "response",
           closed' \/ failer'.who # None => closed' /\ closeErr' \in Failures
    PROVE  ResponseInv'
<1> USE DEF ResponseInv
<1>1. Used' = Used /\ K' = K
    BY Zenon DEF Used, K
<1>2. ResponseTypes'
    BY Zenon DEF ResponseTypes
<1>3. CountInv'
    BY <1>1, Zenon DEF CountInv
<1>4. OwnID'
    BY <1>1 DEF OwnID, ResponseTypes
<1>5. CarryID'
    BY Zenon DEF CarryID
<1>6. OwnResponse'
    BY DEF OwnResponse, Correlated
<1> QED
    BY <1>2, <1>3, <1>4, <1>5, <1>6, Zenon

\* What a request does, register apart.
LEMMA RequestResponseInv ==
    ASSUME ResponseInv, NEW r \in Requests,
           \/ Acquire(r) \/ Refuse(r) \/ (Register(r) /\ (r \in ctxDone \/ closed)) \/ LockWrite(r)
           \/ StartHook(r) \/ RunHook(r) \/ FinishWrite(r) \/ Await(r) \/ Return(r)
    PROVE  ResponseInv'
<1> USE ConnectionAssumption DEF ResponseInv
<1>1. /\ UNCHANGED <<id, nextID, wire, ch, replies, answered, closed, closeErr, failer>>
      /\ pending' \subseteq pending
    BY Zenon DEF Acquire, Refuse, Register, LockWrite, StartHook, RunHook, FinishWrite, Await, Return, failVars, peerVars
<1>2. /\ pc' \in [Requests -> Steps]
      /\ \A s \in Requests : pc'[s] = pc[s] \/ pc'[s] \notin {"start", "sem", "lock", "write"}
                               \/ (pc[s] = "start" /\ pc'[s] = "sem") \/ (pc[s] = "lock" /\ pc'[s] = "write")
    BY ZenonT(40) DEF ResponseTypes, Acquire, Refuse, Register, LockWrite, StartHook, RunHook, FinishWrite, Await, Return,
           Goto, Leave, Steps, Registered
<1>3. \/ res' = res
      \/ \E kind \in {"ctx"} \union Failures : res' = [res EXCEPT ![r] = [kind |-> kind, of |-> r]]
      \/ res' = [res EXCEPT ![r] = ch[r]]
    BY Zenon DEF ResponseTypes, Acquire, Refuse, Register, LockWrite, StartHook, RunHook, FinishWrite, Await, Return, Leave, Outcome
<1>4. /\ res' \in [Requests -> Results]
      /\ \A s \in Requests : res'[s] = res[s] \/ res'[s] = ch[s] \/ res'[s].kind # "response"
  <2>1. res \in [Requests -> Results] /\ ch[r] \in Results
    BY Zenon DEF ResponseTypes
  <2>2. ASSUME NEW kind \in {"ctx"} \union Failures PROVE [kind |-> kind, of |-> r] \in Results /\ kind # "response"
    BY Zenon DEF Results, Failures
  <2>3. CASE res' = res
    BY ONLY <2>1, <2>3, Zenon
  <2>4. CASE \E kind \in {"ctx"} \union Failures : res' = [res EXCEPT ![r] = [kind |-> kind, of |-> r]]
    <3>1. PICK kind \in {"ctx"} \union Failures : res' = [res EXCEPT ![r] = [kind |-> kind, of |-> r]]
      BY ONLY <2>4, Zenon
    <3>2. PICK v : v = [kind |-> kind, of |-> r]
      BY Zenon
    <3>3. v \in Results /\ v.kind # "response"
      BY ONLY <2>2, <3>2, Zenon
    <3>4. res' = [res EXCEPT ![r] = v]
      BY ONLY <3>1, <3>2, Zenon
    <3> QED
      BY ONLY <2>1, <3>3, <3>4, r \in Requests, Zenon
  <2>5. CASE res' = [res EXCEPT ![r] = ch[r]]
    BY ONLY <2>1, <2>5, r \in Requests, Zenon
  <2> QED
    BY ONLY <1>3, <2>3, <2>4, <2>5, Zenon
<1>5. /\ closed' \/ failer'.who # None => closed' /\ closeErr' \in Failures
      /\ ch' \in [Requests -> Results]
    BY <1>1, Zenon DEF ResponseTypes
<1> QED
    BY <1>1, <1>2, <1>4, <1>5, OtherResponseInv, Zenon

\* writeFrame: the frame carries the ID of its request.
LEMMA WrittenResponseInv ==
    ASSUME ResponseInv, NEW r \in Requests, WriteWhole(r) \/ WriteError(r)
    PROVE  ResponseInv'
<1> USE ConnectionAssumption DEF ResponseInv
<1>1. PICK bytes, err : pc[r] = "write" /\ Written(r, bytes, err)
    BY Zenon DEF WriteWhole, WriteError
<1>2. /\ pc' = [pc EXCEPT ![r] = "finish"]
      /\ UNCHANGED <<id, nextID, pending, ch, res, closed, closeErr, failer, replies, answered>>
    BY <1>1, Zenon DEF Written, Goto, failVars, peerVars
<1> DEFINE f == [of |-> r, id |-> id[r], whole |-> bytes = "all"]
<1>3. f \in Frames /\ f.id = id[f.of] /\ f.id # 0
    BY <1>1, Zenon DEF Frames, OwnID, ResponseTypes
<1>4. wire' = wire \/ wire' = Append(wire, f)
    BY <1>1, Zenon DEF Written
<1> HIDE DEF f
<1>5. wire' \in Seq(Frames) /\ \A n \in DOMAIN wire' : wire'[n] = f \/ (n \in DOMAIN wire /\ wire'[n] = wire[n])
  <2>1. wire \in Seq(Frames) /\ f \in Frames
    BY <1>3, Zenon DEF ResponseTypes
  <2>2. CASE wire' = Append(wire, f)
    <3>1. wire' \in Seq(Frames) /\ Len(wire') = Len(wire) + 1
      BY <2>1, <2>2
    <3>2. \A n \in 1 .. Len(wire) : wire'[n] = wire[n]
      BY <2>1, <2>2
    <3>3. wire'[Len(wire) + 1] = f
      BY <2>1, <2>2
    <3>4. DOMAIN wire = 1 .. Len(wire) /\ DOMAIN wire' = 1 .. Len(wire) + 1 /\ Len(wire) \in Nat
      BY <2>1, <3>1
    <3> QED
      BY <3>1, <3>2, <3>3, <3>4
  <2> QED
    BY <1>4, <2>1, <2>2, Zenon
<1>6. Used' = Used /\ K' = K
    BY <1>2, Zenon DEF Used, K
<1>7. ResponseTypes'
    BY <1>2, <1>5, Zenon DEF ResponseTypes, Steps, Registered
<1>8. CountInv' /\ OwnID'
    BY <1>2, <1>6, Zenon DEF CountInv, OwnID, ResponseTypes
<1>9. CarryID'
    BY <1>2, <1>3, <1>5, SMTT(30) DEF CarryID
<1>10. OwnResponse'
    BY <1>2, Zenon DEF OwnResponse, Correlated
<1> QED
    BY <1>7, <1>8, <1>9, <1>10, Zenon

\* fail completes the requests it took with the error of the connection.
LEMMA FailResponseInv ==
    ASSUME ResponseInv, (\E r \in Requests : Discard(r)) \/ Shut \/ Close \/ ReadError
    PROVE  ResponseInv'
<1> USE ConnectionAssumption DEF ResponseInv
<1>1. /\ UNCHANGED <<id, nextID, wire, replies, answered>>
      /\ pending' \subseteq pending
    BY Zenon DEF Discard, Shut, Close, ReadError, fail, failVars, peerVars
<1>2. /\ pc' \in [Requests -> Steps]
      /\ \A s \in Requests : pc'[s] = pc[s] \/ pc'[s] \notin {"start", "sem", "lock", "write"}
    BY ZenonT(40) DEF ResponseTypes, Discard, Shut, Close, ReadError, Goto, Leave, Steps, Registered
<1>3. closed' \/ failer'.who # None => closed' /\ closeErr' \in Failures
    BY Zenon DEF ResponseTypes, Discard, Shut, Close, ReadError, fail, failVars, Failures
<1>4. ASSUME NEW s \in Requests, NEW kind \in Failures PROVE Outcome(kind, s) \in Results /\ Outcome(kind, s).kind # "response"
    BY Zenon DEF Outcome, Results, Failures
<1>5. /\ ch' \in [Requests -> Results]
      /\ \A s \in Requests : ch'[s] = ch[s] \/ ch'[s].kind # "response"
  <2>1. CASE Shut
    <3>1. closeErr \in Failures
      BY <2>1, Zenon DEF Shut, ResponseTypes
    <3>2. ch' = [r \in Requests |-> IF r \in failer.taken THEN Outcome(closeErr, r) ELSE ch[r]]
      BY <2>1, Zenon DEF Shut
    <3> QED
      BY <1>4, <3>1, <3>2, Zenon DEF ResponseTypes
  <2>2. CASE ~Shut
    BY <2>2, Zenon DEF Discard, Close, ReadError, ResponseTypes
  <2> QED
    BY <2>1, <2>2, Zenon
<1>6. /\ res' \in [Requests -> Results]
      /\ \A s \in Requests : res'[s] = res[s] \/ res'[s].kind # "response"
  <2>1. res' = res \/ \E r \in Requests : res' = [res EXCEPT ![r] = Outcome("write", r)]
    BY Zenon DEF Discard, Shut, Close, ReadError, Leave
  <2>2. res \in [Requests -> Results] /\ "write" \in Failures
    BY Zenon DEF ResponseTypes, Failures
  <2> QED
    BY <1>4, <2>1, <2>2
<1> QED
    BY <1>1, <1>2, <1>3, <1>5, <1>6, OtherResponseInv, SMTT(30)

\* deliver: a reply finds the request with its ID, which is the one it answers.
LEMMA DeliverResponseInv ==
    ASSUME ResponseInv, NEW m \in replies, Deliver(m)
    PROVE  ResponseInv'
<1> USE ConnectionAssumption DEF ResponseInv
<1>1. /\ m.kind = "response" /\ replies' = replies \ {m} /\ pending' \subseteq pending
      /\ ch' = [r \in Requests |-> IF <<m.id, r>> \in pending THEN Outcome(m.kind, m.of) ELSE ch[r]]
      /\ UNCHANGED <<id, nextID, wire, pc, res, answered, closed, closeErr, failer>>
    BY Zenon DEF Deliver, takePending, failVars
<1>2. m.of \in Requests /\ m.of \in answered /\ m.id = id[m.of] /\ m.id # 0
    BY <1>1, Zenon DEF CarryID
<1>3. Outcome(m.kind, m.of) \in Results /\ Outcome(m.kind, m.of).of = m.of
    BY <1>1, <1>2, Zenon DEF Outcome, Results
<1>4. ASSUME NEW r \in Requests, <<m.id, r>> \in pending PROVE r = m.of
  <2>1. m.id = id[r]
    BY <1>4, Zenon DEF CarryID
  <2> QED
    BY <1>2, <2>1, Zenon DEF OwnID, Used
<1>5. /\ ch' \in [Requests -> Results] /\ res' \in [Requests -> Results] /\ pc' \in [Requests -> Steps]
      /\ \A r \in Requests : ch'[r] = ch[r] \/ (ch'[r].of = r /\ r \in answered)
    BY <1>1, <1>2, <1>3, <1>4, Zenon DEF ResponseTypes
<1>6. closed' \/ failer'.who # None => closed' /\ closeErr' \in Failures
    BY <1>1, Zenon DEF ResponseTypes
<1> QED
    BY <1>1, <1>5, <1>6, OtherResponseInv, Zenon

\* The server answers a frame with its ID; the network fails, contexts end.
LEMMA PeerResponseInv ==
    ASSUME ResponseInv,
           \/ \E r \in Requests : CancelRequest(r)
           \/ \E n \in DOMAIN wire : Reply(n)
           \/ Fault
           \/ UNCHANGED vars
    PROVE  ResponseInv'
<1> USE ConnectionAssumption DEF ResponseInv
<1>1. /\ UNCHANGED <<id, nextID, wire, pc, pending, ch, res, closed, closeErr, failer>>
      /\ answered \subseteq answered'
    BY Zenon DEF CancelRequest, Reply, Fault, requestVars, failVars, peerVars, vars
<1>2. \A m \in replies' \ replies : m.kind = "response" =>
        m.of \in Requests /\ m.of \in answered' /\ m.id = id[m.of] /\ m.id # 0
  <2>1. CASE \E n \in DOMAIN wire : Reply(n)
    <3>1. PICK n \in DOMAIN wire : Reply(n)
      BY <2>1, Zenon
    <3>2. wire[n] \in Frames
      BY DEF ResponseTypes
    <3>3. PICK f \in Frames : f = wire[n] /\ f.id = id[f.of] /\ f.id # 0
      BY <3>2, Zenon DEF CarryID
    <3>4. f.of \in Requests
      BY ONLY <3>3, Zenon DEF Frames
    <3>5. /\ answered' = answered \union {f.of} /\ id' = id
          /\ replies' = replies \union {[id |-> f.id, of |-> f.of, kind |-> "response"]}
      BY <1>1, <3>1, <3>3, Zenon DEF Reply
    <3> QED
      BY ONLY <3>3, <3>4, <3>5
  <2>2. CASE ~\E n \in DOMAIN wire : Reply(n)
    BY <2>2, SMTT(30) DEF CancelRequest, Fault, peerVars, vars
  <2> QED
    BY <2>1, <2>2, Zenon
<1>3. Used' = Used /\ K' = K
    BY <1>1, Zenon DEF Used, K
<1>4. ResponseTypes' /\ CountInv' /\ OwnID'
    BY <1>1, <1>3, Zenon DEF ResponseTypes, CountInv, OwnID
<1>5. CarryID'
    BY <1>1, <1>2, Zenon DEF CarryID
<1>6. OwnResponse'
    BY <1>1, Zenon DEF OwnResponse, Correlated
<1> QED
    BY <1>4, <1>5, <1>6, Zenon

\* The invariant of responses is inductive.
LEMMA ResponseInvStep == ResponseInv /\ [Next]_vars => ResponseInv'
<1> SUFFICES ASSUME ResponseInv, [Next]_vars PROVE ResponseInv'
    BY Zenon
<1> QED
    BY RegisterResponseInv, RequestResponseInv, WrittenResponseInv, FailResponseInv, DeliverResponseInv, PeerResponseInv, Zenon
       DEF Next, ClientStep, RequestStep

\* Request returns the response the server gave to that request, for any number
\* of concurrent requests and wherever the IDs of the connection wrap.
THEOREM OwnAnswer == Spec => []Correlated
<1>1. ResponseInv => Correlated
    BY Zenon DEF ResponseInv, OwnResponse
<1> QED
    BY <1>1, InitResponseInv, ResponseInvStep, PTL DEF Spec

-----------------------------------------------------------------------------
(* The coalescer, and the cache of the connection manager *)

Errors == {"nil", "fail", "closed"}
Shared == [waiters : Nat, completed : BOOLEAN, claimed : BOOLEAN, succeeded : BOOLEAN,
           err : Errors, ctxDone : BOOLEAN, disposals : Nat]
Places == [pc : {"start", "wait", "returned"}, call : Nat]
Returns == [err : {"none", "ctx"} \union Errors, value : Nat]

Types ==
    /\ calls \in Seq(Shared) /\ current \in 0 .. Len(calls)
    /\ at \in [Callers -> Places] /\ got \in [Callers -> Returns]
    /\ flightsClosed \in BOOLEAN

\* Who waits, waits for a call that exists; who has not returned has no result.
PlacesInv ==
    /\ \A c \in Callers : at[c].pc = "wait" => at[c].call \in DOMAIN calls
    /\ \A c \in Callers : at[c].pc # "returned" => got[c] = Nothing

\* A call, the callers W that wait for it, and whether it is the entry of the
\* map: see ContextFollowsWaiters.
ContextInv(call, W, entry) ==
    /\ call.waiters = Cardinality(W)
    /\ ~call.completed /\ call.ctxDone => W = {} \/ flightsClosed
    /\ ~call.completed /\ (W = {} \/ flightsClosed) => call.ctxDone
    /\ entry => ~call.completed /\ W # {}
    /\ ~call.completed /\ W # {} => entry

\* The result of a call: with a waiter, with a caller that took it, or with the
\* disposer.
ResultInv(call, W, taken) ==
    /\ call.claimed \/ call.succeeded \/ call.disposals > 0 => call.completed
    /\ call.completed /\ call.err = "nil" => call.succeeded
    /\ call.succeeded /\ call.err # "nil" => call.disposals > 0
    /\ call.disposals > 0 => W = {} \/ call.err # "nil"
    /\ call.claimed /\ call.succeeded => call.disposals > 0 \/ taken
    /\ call.succeeded /\ W = {} => call.disposals > 0 \/ taken

Taken(n) == \E c \in Callers : got[c] = [err |-> "nil", value |-> n]

CallInv(n) == ContextInv(calls[n], Waiting(n), current = n) /\ ResultInv(calls[n], Waiting(n), Taken(n))

\* Who has a value has one that is claimed.
ValueInv ==
    \A c \in Callers : got[c].err = "nil" =>
        /\ got[c].value \in DOMAIN calls
        /\ calls[got[c].value].succeeded /\ calls[got[c].value].claimed /\ calls[got[c].value].disposals = 0

FlightInv == Types /\ PlacesInv /\ (\A n \in DOMAIN calls : CallInv(n)) /\ ValueInv

-----------------------------------------------------------------------------
\* A coalescer without calls satisfies the invariant.
LEMMA InitFlightInv == CoalescerInit => FlightInv
<1> SUFFICES ASSUME CoalescerInit PROVE FlightInv
    BY Zenon
<1> USE DEF CoalescerInit
<1>1. calls \in Seq(Shared) /\ DOMAIN calls = {} /\ Len(calls) = 0
    OBVIOUS
<1>2. at \in [Callers -> Places] /\ got \in [Callers -> Returns]
    BY Zenon DEF Places, Returns, Nothing, Errors
<1>3. Types /\ PlacesInv
  <2>1. flightsClosed \in BOOLEAN /\ current = 0
    BY Zenon
  <2>2. PlacesInv
    BY Zenon DEF PlacesInv
  <2> QED
    BY <1>1, <1>2, <2>1, <2>2 DEF Types
<1>4. \A n \in DOMAIN calls : CallInv(n)
    BY <1>1, Zenon
<1>5. ValueInv
    BY Zenon DEF ValueInv, Nothing
<1> QED
    BY <1>3, <1>4, <1>5, Zenon DEF FlightInv

\* Counting the callers that wait for a call.
LEMMA Count ==
    ASSUME NEW n
    PROVE  /\ IsFiniteSet(Waiting(n)) /\ Cardinality(Waiting(n)) \in Nat
           /\ Cardinality(Waiting(n)) = 0 <=> Waiting(n) = {}
           /\ \A c \in Waiting(n) : /\ Cardinality(Waiting(n) \ {c}) = Cardinality(Waiting(n)) - 1
                                    /\ Cardinality(Waiting(n)) = 1 <=> Waiting(n) \ {c} = {}
           /\ \A c \in Callers \ Waiting(n) : Cardinality(Waiting(n) \union {c}) = Cardinality(Waiting(n)) + 1
<1> DEFINE W == Waiting(n)
<1>1. IsFiniteSet(Callers) /\ W \in SUBSET Callers
    BY CoalescerAssumption, Zenon DEF Waiting
<1> HIDE DEF W
<1>2. IsFiniteSet(W)
    BY <1>1, FS_Subset, Zenon
<1>3. Cardinality(W) \in Nat /\ (Cardinality(W) = 0 <=> W = {})
    BY <1>2, FS_CardinalityType, FS_EmptySet, Zenon
<1>4. ASSUME NEW c \in W
      PROVE  Cardinality(W \ {c}) = Cardinality(W) - 1 /\ (Cardinality(W) = 1 <=> W \ {c} = {})
  <2>1. IsFiniteSet(W \ {c}) /\ Cardinality(W \ {c}) = Cardinality(W) - 1
    BY <1>2, FS_RemoveElement, Zenon
  <2>2. Cardinality(W \ {c}) = 0 <=> W \ {c} = {}
    BY <2>1, FS_EmptySet, Zenon
  <2> QED
    BY <1>3, <2>1, <2>2
<1>5. ASSUME NEW c \in Callers \ W PROVE Cardinality(W \union {c}) = Cardinality(W) + 1
    BY <1>2, FS_AddElement, Zenon
<1> QED
    BY <1>2, <1>3, <1>4, <1>5, Zenon DEF W

\* A caller that joins the entry of the map, or starts a new call.
LEMMA DoFlightInv ==
    ASSUME FlightInv, NEW c \in Callers, Do(c), ~flightsClosed
    PROVE  FlightInv'
<1> USE DEF FlightInv
<1>0. PICK n, old : n = (IF current = 0 THEN Len(calls) + 1 ELSE current) /\ old = IF current = 0 THEN NewCall ELSE calls[n]
    BY Zenon
<1>1. /\ at[c].pc = "start" /\ current' = n /\ UNCHANGED <<got, canceled, flightsClosed>>
      /\ at' = [at EXCEPT ![c] = [pc |-> "wait", call |-> n]]
    BY <1>0, Zenon DEF Do
<1>2. Len(calls) \in Nat /\ DOMAIN calls = 1 .. Len(calls) /\ \A m \in DOMAIN calls : calls[m] \in Shared
    BY DEF Types
<1>3. NewCall \in Shared
    BY Zenon DEF NewCall, Shared, Errors
<1>4. n \in Nat \ {0} /\ old \in Shared /\ (current # 0 => n \in DOMAIN calls /\ n = current) /\ (current = 0 => n \notin DOMAIN calls)
    BY <1>0, <1>2, <1>3 DEF Types
<1>5. /\ calls' \in Seq(Shared) /\ DOMAIN calls' = DOMAIN calls \union {n} /\ n \in 1 .. Len(calls')
      /\ calls'[n] = [old EXCEPT !.waiters = @ + 1]
      /\ \A m \in DOMAIN calls : m # n => calls'[m] = calls[m]
  <2>1. CASE current = 0
    <3> DEFINE known == Append(calls, NewCall)
    <3>1. /\ known \in Seq(Shared) /\ Len(known) = n /\ DOMAIN known = 1 .. n /\ known[n] = NewCall
          /\ \A m \in DOMAIN calls : known[m] = calls[m]
      BY <1>0, <1>2, <1>3, <2>1 DEF Types
    <3>2. calls' = [known EXCEPT ![n].waiters = @ + 1]
      BY <1>0, <2>1, Zenon DEF Do
    <3> HIDE DEF known
    <3>3. [NewCall EXCEPT !.waiters = @ + 1] \in Shared
      BY <1>3 DEF Shared
    <3>4. calls' = [known EXCEPT ![n] = [NewCall EXCEPT !.waiters = @ + 1]]
      BY <3>1, <3>2, Zenon
    <3>5. calls' \in Seq(Shared) /\ DOMAIN calls' = 1 .. n /\ Len(calls') = n
      BY <1>4, <3>1, <3>3, <3>4
    <3> QED
      BY <1>0, <1>2, <1>4, <2>1, <3>1, <3>4, <3>5
  <2>2. CASE current # 0
    <3>1. calls' = [calls EXCEPT ![n].waiters = @ + 1] /\ n \in DOMAIN calls
      BY <1>0, <1>4, <2>2, Zenon DEF Do
    <3>2. [calls[n] EXCEPT !.waiters = @ + 1] \in Shared
      BY <1>2, <3>1, SMTT(30) DEF Shared
    <3>3. calls' = [calls EXCEPT ![n] = [calls[n] EXCEPT !.waiters = @ + 1]]
      BY <3>1, Zenon
    <3>4. calls' \in Seq(Shared) /\ DOMAIN calls' = DOMAIN calls /\ Len(calls') = Len(calls)
      BY <1>2, <3>1, <3>2, <3>3 DEF Types
    <3> QED
      BY <1>0, <1>2, <2>2, <3>1, <3>3, <3>4
  <2> QED
    BY <2>1, <2>2, Zenon
<1>6. /\ calls'[n].waiters = old.waiters + 1 /\ calls'[n].completed = old.completed /\ calls'[n].claimed = old.claimed
      /\ calls'[n].succeeded = old.succeeded /\ calls'[n].err = old.err /\ calls'[n].ctxDone = old.ctxDone
      /\ calls'[n].disposals = old.disposals
    BY <1>4, <1>5, Zenon DEF Shared
<1>7. /\ Waiting(n)' = Waiting(n) \union {c} /\ c \notin Waiting(n)
      /\ \A m : m # n => Waiting(m)' = Waiting(m)
  <2>1. at'[c] = [pc |-> "wait", call |-> n] /\ \A d \in Callers : d # c => at'[d] = at[d]
    BY <1>1, Zenon DEF Types
  <2>2. ASSUME NEW m, m # n PROVE Waiting(m)' = Waiting(m)
    BY <1>1, <2>1, <2>2 DEF Waiting
  <2>3. c \notin Waiting(n)
    BY <1>1, Zenon DEF Waiting
  <2>4. Waiting(n)' = Waiting(n) \union {c}
    BY <1>1, <2>1 DEF Waiting
  <2> QED
    BY <2>2, <2>3, <2>4, Zenon
<1>8. /\ old.completed = FALSE /\ old.claimed = FALSE /\ old.succeeded = FALSE /\ old.ctxDone = FALSE /\ old.disposals = 0
      /\ old.waiters = Cardinality(Waiting(n))
  <2>1. CASE current = 0
    <3>1. Waiting(n) = {}
      BY <1>4, <2>1, Zenon DEF PlacesInv, Waiting
    <3> QED
      BY <1>0, <2>1, <3>1, FS_EmptySet, Zenon DEF NewCall
  <2>2. CASE current # 0
    <3>1. n \in DOMAIN calls /\ current = n /\ old = calls[n]
      BY <1>0, <1>4, <2>2, Zenon
    <3>2. CallInv(n) /\ old \in Shared
      BY <1>4, <3>1, Zenon
    <3>3. old.disposals \in Nat /\ old.completed \in BOOLEAN /\ old.claimed \in BOOLEAN /\ old.succeeded \in BOOLEAN /\ old.ctxDone \in BOOLEAN
      BY <3>2, Zenon DEF Shared
    <3>4. ~old.completed /\ ~old.ctxDone /\ old.waiters = Cardinality(Waiting(n))
      BY <3>1, <3>2, Zenon DEF CallInv, ContextInv
    <3>5. ~old.claimed /\ ~old.succeeded /\ ~(old.disposals > 0)
      BY <3>1, <3>2, <3>4, Zenon DEF CallInv, ResultInv
    <3> QED
      BY <3>3, <3>4, <3>5
  <2> QED
    BY <2>1, <2>2, Zenon
<1>9. Types'
  <2>1. [pc |-> "wait", call |-> n] \in Places
    BY <1>4, Zenon DEF Places
  <2> QED
    BY <1>1, <1>5, <2>1 DEF Types
<1>10. PlacesInv'
    BY <1>1, <1>5, Zenon DEF PlacesInv, Types
<1>11. ASSUME NEW m \in DOMAIN calls' PROVE CallInv(m)'
  <2>1. CASE m = n
    <3>1. Cardinality(Waiting(n)') = Cardinality(Waiting(n)) + 1 /\ Waiting(n)' # {}
      BY <1>7, Count
    <3>2. ContextInv(calls[n], Waiting(n), current = n)'
      BY <1>1, <1>6, <1>8, <3>1, Zenon DEF ContextInv
    <3>3. ResultInv(calls[n], Waiting(n), Taken(n))'
      BY <1>6, <1>8, SMTT(30) DEF ResultInv
    <3> QED
      BY <2>1, <3>2, <3>3, Zenon DEF CallInv
  <2>2. CASE m # n
    <3>1. m \in DOMAIN calls /\ calls'[m] = calls[m] /\ Waiting(m)' = Waiting(m) /\ CallInv(m)
      BY <1>5, <1>7, <2>2, Zenon
    <3>2. current # m /\ current' # m /\ Taken(m)' = Taken(m)
      BY <1>0, <1>1, <1>2, <1>4, <2>2, <3>1, SMTT(30) DEF Taken
    <3>3. ContextInv(calls[m], Waiting(m), current = m)'
      BY <1>1, <3>1, <3>2, Zenon DEF CallInv, ContextInv
    <3>4. ResultInv(calls[m], Waiting(m), Taken(m))'
      BY <3>1, <3>2, SMTT(30) DEF CallInv, ResultInv
    <3> QED
      BY <3>3, <3>4, Zenon DEF CallInv
  <2> QED
    BY <2>1, <2>2, Zenon
<1>12. ValueInv'
    BY <1>0, <1>1, <1>4, <1>5, <1>6, <1>8, SMTT(30) DEF ValueInv
<1> QED
    BY <1>9, <1>10, <1>11, <1>12, Zenon

\* A caller leaves the call n it waits for, with the result or without.
LEMMA LeaveFlight ==
    ASSUME FlightInv, NEW c \in Callers, NEW n, n = at[c].call, at[c].pc = "wait",
           NEW call \in Shared, calls' = [calls EXCEPT ![n] = call],
           NEW result \in Returns, result.err # "nil" \/ result.value = n,
           at' = [at EXCEPT ![c] = [pc |-> "returned", call |-> 0]], got' = [got EXCEPT ![c] = result]
    PROVE  /\ n \in DOMAIN calls /\ calls[n] \in Shared /\ CallInv(n) /\ c \in Waiting(n)
           /\ calls' \in Seq(Shared) /\ DOMAIN calls' = DOMAIN calls /\ Len(calls') = Len(calls) /\ calls'[n] = call
           /\ at' \in [Callers -> Places] /\ got' \in [Callers -> Returns] /\ got'[c] = result
           /\ PlacesInv'
           /\ Waiting(n)' = Waiting(n) \ {c}
           /\ Taken(n) => Taken(n)'
           /\ \A m \in DOMAIN calls : m # n => calls'[m] = calls[m] /\ Waiting(m)' = Waiting(m) /\ (Taken(m)' <=> Taken(m))
<1> USE DEF FlightInv
<1>1. n \in DOMAIN calls /\ calls[n] \in Shared /\ CallInv(n) /\ c \in Waiting(n)
    BY DEF PlacesInv, Waiting, Types
<1>2. calls' \in Seq(Shared) /\ DOMAIN calls' = DOMAIN calls /\ Len(calls') = Len(calls)
    BY <1>1 DEF Types
<1>3. calls'[n] = call /\ \A m \in DOMAIN calls : m # n => calls'[m] = calls[m]
    BY <1>1, Zenon DEF Types
<1>4. [pc |-> "returned", call |-> 0] \in Places
    BY Zenon DEF Places
<1>5. /\ at' \in [Callers -> Places] /\ got' \in [Callers -> Returns]
      /\ at'[c] = [pc |-> "returned", call |-> 0] /\ got'[c] = result
      /\ \A d \in Callers : d # c => at'[d] = at[d] /\ got'[d] = got[d]
    BY <1>4, Zenon DEF Types
<1>6. PlacesInv'
    BY <1>2, <1>5, Zenon DEF PlacesInv
<1>7. Waiting(n)' = Waiting(n) \ {c}
    BY <1>5, Zenon DEF Waiting
<1>8. got[c].err # "nil"
    BY SMTT(30) DEF PlacesInv, Nothing
<1>9. Taken(n) => Taken(n)'
    BY <1>5, <1>8 DEF Taken
<1>10. ASSUME NEW m \in DOMAIN calls, m # n PROVE Waiting(m)' = Waiting(m) /\ (Taken(m)' <=> Taken(m))
  <2>1. Waiting(m)' = Waiting(m)
    BY <1>5, <1>10, Zenon DEF Waiting
  <2>2. result # [err |-> "nil", value |-> m]
    BY <1>10, SMTT(30)
  <2> QED
    BY <1>5, <1>8, <2>1, <2>2 DEF Taken
<1> QED
    BY <1>1, <1>2, <1>3, <1>5, <1>6, <1>7, <1>9, <1>10

\* A caller takes the result of the call it waits for.
LEMMA ClaimFlightInv ==
    ASSUME FlightInv, NEW c \in Callers, Claim(c)
    PROVE  FlightInv'
<1> USE DEF FlightInv
<1>0. PICK n : n = at[c].call
    BY Zenon
<1> DEFINE call == [calls[n] EXCEPT !.claimed = TRUE, !.waiters = @ - 1]
           result == [err |-> calls[n].err, value |-> IF calls[n].err = "nil" THEN n ELSE 0]
<1>1. /\ at[c].pc = "wait" /\ calls[n].completed /\ n \in DOMAIN calls /\ calls[n] \in Shared /\ CallInv(n) /\ c \in Waiting(n)
      /\ n \in Nat /\ UNCHANGED <<current, canceled, flightsClosed>>
    BY <1>0 DEF Claim, PlacesInv, Types, Waiting
<1>2. calls[n].waiters = Cardinality(Waiting(n)) /\ Cardinality(Waiting(n)) \in Nat \ {0}
    BY <1>1, Count, Zenon DEF CallInv, ContextInv
<1>3. call \in Shared
  <2>1. calls[n].waiters - 1 \in Nat
    BY <1>2
  <2> QED
    BY <1>1, <2>1, Zenon DEF Shared
<1>4. result \in Returns /\ (result.err # "nil" \/ result.value = n)
    BY <1>1, Zenon DEF Returns, Shared
<1>5. calls' = [calls EXCEPT ![n] = call] /\ at' = [at EXCEPT ![c] = [pc |-> "returned", call |-> 0]] /\ got' = [got EXCEPT ![c] = result]
    BY <1>0, <1>1, Zenon DEF Claim, Returned
<1>6. /\ call.waiters = calls[n].waiters - 1 /\ call.completed = calls[n].completed /\ call.claimed = TRUE
      /\ call.succeeded = calls[n].succeeded /\ call.err = calls[n].err /\ call.ctxDone = calls[n].ctxDone
      /\ call.disposals = calls[n].disposals /\ calls[n].disposals \in Nat
    BY <1>1, Zenon DEF Shared
<1>7. (calls[n].err = "nil" => result = [err |-> "nil", value |-> n]) /\ result.err = calls[n].err
    BY Zenon
<1>8. PICK k \in Shared, x \in Returns : k = call /\ x = result
    BY <1>3, <1>4, Zenon
<1> HIDE DEF call, result
<1>9. /\ calls' \in Seq(Shared) /\ DOMAIN calls' = DOMAIN calls /\ Len(calls') = Len(calls) /\ calls'[n] = call
      /\ at' \in [Callers -> Places] /\ got' \in [Callers -> Returns] /\ got'[c] = result /\ PlacesInv'
      /\ Waiting(n)' = Waiting(n) \ {c} /\ (Taken(n) => Taken(n)')
      /\ \A m \in DOMAIN calls : m # n => calls'[m] = calls[m] /\ Waiting(m)' = Waiting(m) /\ (Taken(m)' <=> Taken(m))
    BY <1>0, <1>1, <1>4, <1>5, <1>8, LeaveFlight, ZenonT(40)
<1>10. Types'
    BY <1>1, <1>9, Zenon DEF Types
<1>11. ASSUME NEW m \in DOMAIN calls' PROVE CallInv(m)'
  <2>1. CASE m = n
    <3>0. calls'[n].waiters = Cardinality(Waiting(n)')
      <4>1. Cardinality(Waiting(n) \ {c}) = Cardinality(Waiting(n)) - 1
        BY <1>1, Count, Zenon
      <4> QED
        BY ONLY <1>2, <1>6, <1>9, <4>1, SMTT(30)
    <3>1. ContextInv(calls[n], Waiting(n), current = n)'
      BY <1>1, <1>6, <1>9, <3>0, Zenon DEF CallInv, ContextInv
    <3>2. calls[n].err = "nil" => Taken(n)'
      BY <1>7, <1>9, Zenon DEF Taken
    <3>3. ResultInv(calls[n], Waiting(n), Taken(n))'
      BY <1>1, <1>6, <1>9, <3>2, Zenon DEF CallInv, ResultInv
    <3> QED
      BY <2>1, <3>1, <3>3, Zenon DEF CallInv
  <2>2. CASE m # n
    <3>1. CallInv(m) /\ calls'[m] = calls[m] /\ Waiting(m)' = Waiting(m) /\ (Taken(m)' <=> Taken(m))
      BY <1>9, <2>2, Zenon
    <3>2. ContextInv(calls[m], Waiting(m), current = m)'
      BY <1>1, <3>1, Zenon DEF CallInv, ContextInv
    <3>3. ResultInv(calls[m], Waiting(m), Taken(m))'
      BY <3>1, Zenon DEF CallInv, ResultInv
    <3> QED
      BY <3>2, <3>3, Zenon DEF CallInv
  <2> QED
    BY <2>1, <2>2, Zenon
<1>12. ValueInv'
  <2> SUFFICES ASSUME NEW d \in Callers, got'[d].err = "nil"
               PROVE  /\ got'[d].value \in DOMAIN calls'
                      /\ calls'[got'[d].value].succeeded /\ calls'[got'[d].value].claimed /\ calls'[got'[d].value].disposals = 0
    BY Zenon DEF ValueInv
  <2>1. CASE d = c
    <3>1. calls[n].err = "nil" /\ got'[d].value = n
      BY <1>7, <1>9, <2>1, SMTT(30)
    <3>2. calls[n].succeeded /\ ~(calls[n].disposals > 0)
      BY <1>1, <3>1, Zenon DEF CallInv, ResultInv
    <3>3. calls[n].disposals = 0
      BY <1>6, <3>2, SMTT(30)
    <3>4. calls'[n].succeeded /\ calls'[n].claimed /\ calls'[n].disposals = 0
      BY <1>6, <1>9, <3>2, <3>3, Zenon
    <3> QED
      BY <1>1, <1>9, <3>1, <3>4, SMTT(30)
  <2>2. CASE d # c
    <3>1. got'[d] = got[d]
      BY <1>5, <2>2, Zenon DEF Types
    <3>2. /\ got[d].value \in DOMAIN calls /\ calls[got[d].value].succeeded /\ calls[got[d].value].claimed
          /\ calls[got[d].value].disposals = 0
      BY <3>1, Zenon DEF ValueInv
    <3>3. CASE got[d].value = n
      <4>1. calls[n].succeeded /\ calls[n].disposals = 0
        BY <3>2, <3>3, Zenon
      <4>2. calls'[n].succeeded /\ calls'[n].claimed /\ calls'[n].disposals = 0
        BY <1>6, <1>9, <4>1, Zenon
      <4> QED
        BY <1>9, <3>1, <3>2, <3>3, <4>2, Zenon
    <3>4. CASE got[d].value # n
      BY <1>9, <3>1, <3>2, <3>4, Zenon
    <3> QED
      BY <3>3, <3>4, Zenon
  <2> QED
    BY <2>1, <2>2, Zenon
<1> QED
    BY <1>9, <1>10, <1>11, <1>12, Zenon

\* A caller whose context ended leaves; the last one cancels the operation or
\* disposes the result.
LEMMA GiveUpFlightInv ==
    ASSUME FlightInv, NEW c \in Callers, GiveUp(c)
    PROVE  FlightInv'
<1> USE DEF FlightInv
<1>0. PICK n : n = at[c].call
    BY Zenon
<1> DEFINE last == calls[n].waiters = 1
           disposes == last /\ calls[n].completed /\ ~calls[n].claimed /\ calls[n].succeeded
           call == [calls[n] EXCEPT !.waiters = @ - 1, !.ctxDone = @ \/ (last /\ ~calls[n].completed),
                                    !.disposals = IF disposes THEN @ + 1 ELSE @]
           result == [err |-> "ctx", value |-> 0]
<1>1. /\ at[c].pc = "wait" /\ n \in DOMAIN calls /\ calls[n] \in Shared /\ CallInv(n) /\ c \in Waiting(n)
      /\ n \in Nat \ {0} /\ UNCHANGED <<canceled, flightsClosed>> /\ current' = IF last /\ current = n THEN 0 ELSE current
    BY <1>0, SMTT(30) DEF GiveUp, PlacesInv, Types, Waiting, lastWaiter
<1>2. calls[n].waiters = Cardinality(Waiting(n)) /\ Cardinality(Waiting(n)) \in Nat \ {0}
    BY <1>1, Count, Zenon DEF CallInv, ContextInv
<1>3. /\ calls[n].waiters - 1 \in Nat /\ calls[n].disposals \in Nat /\ calls[n].ctxDone \in BOOLEAN
      /\ calls[n].completed \in BOOLEAN
    BY <1>1, <1>2, SMTT(30) DEF Shared
<1>4. call \in Shared
  <2>1. PICK w \in Nat : w = calls[n].waiters - 1
    BY <1>3, Zenon
  <2>2. PICK d \in Nat : d = IF disposes THEN calls[n].disposals + 1 ELSE calls[n].disposals
    BY <1>3, SMTT(30)
  <2>3. PICK b \in BOOLEAN : b = (calls[n].ctxDone \/ (last /\ ~calls[n].completed))
    BY Zenon
  <2>4. call = [calls[n] EXCEPT !.waiters = w, !.ctxDone = b, !.disposals = d]
    BY <2>1, <2>2, <2>3, Zenon
  <2> HIDE DEF call
  <2> QED
    BY <1>1, <2>4, Zenon DEF Shared
<1>5. result \in Returns /\ result.err # "nil"
    BY Zenon DEF Returns
<1>6. calls' = [calls EXCEPT ![n] = call] /\ at' = [at EXCEPT ![c] = [pc |-> "returned", call |-> 0]] /\ got' = [got EXCEPT ![c] = result]
    BY <1>0, <1>1, Zenon DEF GiveUp, Returned, lastWaiter
<1>7. /\ call.waiters = calls[n].waiters - 1 /\ call.completed = calls[n].completed /\ call.claimed = calls[n].claimed
      /\ call.succeeded = calls[n].succeeded /\ call.err = calls[n].err
      /\ call.ctxDone = (calls[n].ctxDone \/ (last /\ ~calls[n].completed))
      /\ call.disposals = IF disposes THEN calls[n].disposals + 1 ELSE calls[n].disposals
    BY <1>1, Zenon DEF Shared
<1>8. PICK k \in Shared, x \in Returns : k = call /\ x = result
    BY <1>4, <1>5, Zenon
<1>9. last <=> Waiting(n) \ {c} = {}
    BY <1>1, <1>2, Count, Zenon
<1> HIDE DEF call, result, last
<1>10. /\ calls' \in Seq(Shared) /\ DOMAIN calls' = DOMAIN calls /\ Len(calls') = Len(calls) /\ calls'[n] = call
       /\ at' \in [Callers -> Places] /\ got' \in [Callers -> Returns] /\ got'[c] = result /\ PlacesInv'
       /\ Waiting(n)' = Waiting(n) \ {c} /\ (Taken(n) => Taken(n)')
       /\ \A m \in DOMAIN calls : m # n => calls'[m] = calls[m] /\ Waiting(m)' = Waiting(m) /\ (Taken(m)' <=> Taken(m))
    BY <1>0, <1>1, <1>5, <1>6, <1>8, LeaveFlight, Zenon
<1>11. Types'
    BY <1>1, <1>10, SMTT(30) DEF Types
<1>12. ASSUME NEW m \in DOMAIN calls' PROVE CallInv(m)'
  <2>1. CASE m = n
    <3>0. calls'[n].waiters = Cardinality(Waiting(n)')
      <4>1. Cardinality(Waiting(n) \ {c}) = Cardinality(Waiting(n)) - 1
        BY <1>1, Count, Zenon
      <4> QED
        BY ONLY <1>2, <1>7, <1>10, <4>1, SMTT(30)
    <3>1. /\ ~calls[n].completed /\ calls[n].ctxDone => flightsClosed
          /\ ~calls[n].completed /\ flightsClosed => calls[n].ctxDone
          /\ current = n <=> ~calls[n].completed
      BY <1>1, Zenon DEF CallInv, ContextInv
    <3>2. /\ Waiting(n)' = {} <=> last
          /\ current' = n <=> ~last /\ ~calls[n].completed
      BY <1>1, <1>9, <1>10, <3>1, Zenon
    <3>3. ContextInv(calls[n], Waiting(n), current = n)'
      BY <1>1, <1>3, <1>7, <1>10, <3>0, <3>1, <3>2, Zenon DEF ContextInv
    <3>4. ResultInv(calls[n], Waiting(n), Taken(n))
      BY <1>1, Zenon DEF CallInv
    <3>5. ResultInv(calls[n], Waiting(n), Taken(n))'
      <4>1. calls'[n].disposals > 0 <=> calls[n].disposals > 0 \/ disposes
        BY ONLY <1>3, <1>7, <1>10, SMTT(30)
      <4>2. /\ calls'[n].completed = calls[n].completed /\ calls'[n].claimed = calls[n].claimed
            /\ calls'[n].succeeded = calls[n].succeeded /\ calls'[n].err = calls[n].err
        BY ONLY <1>7, <1>10, Zenon
      <4> QED
        BY ONLY <1>10, <3>2, <3>4, <4>1, <4>2, Zenon DEF ResultInv, disposes
    <3> QED
      BY <2>1, <3>3, <3>5, Zenon DEF CallInv
  <2>2. CASE m # n
    <3>1. CallInv(m) /\ calls'[m] = calls[m] /\ Waiting(m)' = Waiting(m) /\ (Taken(m)' <=> Taken(m)) /\ m # 0
      BY <1>10, <2>2, SMTT(30) DEF Types
    <3>2. current' = m <=> current = m
      BY <1>1, <2>2, <3>1, Zenon
    <3>3. ContextInv(calls[m], Waiting(m), current = m)'
      BY <1>1, <3>1, <3>2, Zenon DEF CallInv, ContextInv
    <3>4. ResultInv(calls[m], Waiting(m), Taken(m))'
      BY <3>1, Zenon DEF CallInv, ResultInv
    <3> QED
      BY <3>3, <3>4, Zenon DEF CallInv
  <2> QED
    BY <2>1, <2>2, Zenon
<1>13. ValueInv'
  <2> SUFFICES ASSUME NEW d \in Callers, got'[d].err = "nil"
               PROVE  /\ got'[d].value \in DOMAIN calls'
                      /\ calls'[got'[d].value].succeeded /\ calls'[got'[d].value].claimed /\ calls'[got'[d].value].disposals = 0
    BY Zenon DEF ValueInv
  <2>1. got'[d] = got[d]
    BY <1>5, <1>6, <1>10, SMTT(30) DEF Types
  <2>2. /\ got[d].value \in DOMAIN calls /\ calls[got[d].value].succeeded /\ calls[got[d].value].claimed
        /\ calls[got[d].value].disposals = 0
    BY <2>1, Zenon DEF ValueInv
  <2>3. CASE got[d].value = n
    <3>1. calls[n].succeeded /\ calls[n].claimed /\ calls[n].disposals = 0
      BY <2>2, <2>3, Zenon
    <3>2. calls'[n].succeeded /\ calls'[n].claimed /\ calls'[n].disposals = 0
      BY <1>7, <1>10, <3>1, Zenon
    <3> QED
      BY <1>10, <2>1, <2>2, <2>3, <3>2, SMTT(30)
  <2>4. CASE got[d].value # n
    BY <1>10, <2>1, <2>2, <2>4, Zenon
  <2> QED
    BY <2>3, <2>4, Zenon
<1> QED
    BY <1>10, <1>11, <1>12, <1>13, Zenon

\* The operation ends: its result is for those who wait, or for the disposer.
LEMMA RunFlightInv ==
    ASSUME FlightInv, NEW n \in DOMAIN calls, NEW ok \in BOOLEAN, Run(n, ok)
    PROVE  FlightInv'
<1> USE DEF FlightInv
<1>1. /\ ~calls[n].completed /\ calls[n] \in Shared /\ CallInv(n) /\ n # 0
      /\ current' = (IF current = n THEN 0 ELSE current) /\ UNCHANGED <<at, got, canceled, flightsClosed>>
    BY DEF Run, Types, afterRun
<1>2. PICK e \in Errors : e = CASE flightsClosed -> "closed" [] ~flightsClosed /\ ~ok -> "fail" [] OTHER -> "nil"
    BY Zenon DEF Errors
<1>3. PICK d \in {0, 1} : d = IF unclaimed(n, ok) THEN 1 ELSE 0
    BY Zenon
<1> DEFINE call == [calls[n] EXCEPT !.completed = TRUE, !.succeeded = ok, !.ctxDone = TRUE, !.err = e, !.disposals = d]
<1>4. call \in Shared
  <2>1. PICK k \in Nat : k = d
    BY Zenon
  <2>2. [calls[n] EXCEPT !.completed = TRUE, !.succeeded = ok, !.ctxDone = TRUE, !.err = e, !.disposals = k] \in Shared
    BY <1>1, Zenon DEF Shared
  <2> QED
    BY <2>1, <2>2, Zenon
<1>5. calls' = [calls EXCEPT ![n] = call]
    BY <1>2, <1>3, ZenonT(40) DEF Run
<1>6. /\ call.waiters = calls[n].waiters /\ call.completed = TRUE /\ call.claimed = calls[n].claimed
      /\ call.succeeded = ok /\ call.err = e /\ call.disposals = d
    BY <1>1, Zenon DEF Shared
<1> HIDE DEF call
<1>7. /\ calls' \in Seq(Shared) /\ DOMAIN calls' = DOMAIN calls /\ Len(calls') = Len(calls) /\ calls'[n] = call
      /\ \A m \in DOMAIN calls : m # n => calls'[m] = calls[m]
    BY <1>4, <1>5 DEF Types
<1>8. \A m : Waiting(m)' = Waiting(m) /\ (Taken(m)' <=> Taken(m))
    BY <1>1, Zenon DEF Waiting, Taken
<1>9. Types'
    BY <1>1, <1>7, SMTT(30) DEF Types
<1>10. PlacesInv'
    BY <1>1, <1>7, Zenon DEF PlacesInv
<1>11. ASSUME NEW m \in DOMAIN calls' PROVE CallInv(m)'
  <2>1. CASE m = n
    <3>1. ContextInv(calls[n], Waiting(n), current = n)'
      BY <1>1, <1>6, <1>7, <1>8, Zenon DEF CallInv, ContextInv
    <3>2. /\ ~calls[n].claimed /\ calls[n].waiters = Cardinality(Waiting(n))
          /\ calls[n].waiters = 0 <=> Waiting(n) = {}
      BY <1>1, Count, Zenon DEF CallInv, ContextInv, ResultInv
    <3>3. d > 0 <=> ok /\ (Waiting(n) = {} \/ flightsClosed)
      BY <1>3, <3>2, SMTT(30) DEF unclaimed
    <3>4. (e = "nil" <=> ~flightsClosed /\ ok) /\ (flightsClosed => e = "closed")
      BY <1>2, Zenon
    <3>5. ResultInv(calls[n], Waiting(n), Taken(n))'
      BY <1>6, <1>7, <1>8, <3>2, <3>3, <3>4, Zenon DEF ResultInv
    <3> QED
      BY <2>1, <3>1, <3>5, Zenon DEF CallInv
  <2>2. CASE m # n
    <3>1. CallInv(m) /\ calls'[m] = calls[m] /\ m # 0
      BY <1>7, <2>2 DEF Types
    <3>2. current' = m <=> current = m
      BY <1>1, <2>2, <3>1, Zenon
    <3>3. ContextInv(calls[m], Waiting(m), current = m)'
      BY <1>1, <1>8, <3>1, <3>2, Zenon DEF CallInv, ContextInv
    <3>4. ResultInv(calls[m], Waiting(m), Taken(m))'
      BY <1>8, <3>1, Zenon DEF CallInv, ResultInv
    <3> QED
      BY <3>3, <3>4, Zenon DEF CallInv
  <2> QED
    BY <2>1, <2>2, Zenon
<1>12. ValueInv'
  <2>1. ~calls[n].succeeded
    BY <1>1, Zenon DEF CallInv, ResultInv
  <2> QED
    BY <1>1, <1>7, <2>1, Zenon DEF ValueInv
<1> QED
    BY <1>9, <1>10, <1>11, <1>12, Zenon

\* Close cancels the operation that is wanted; the others are canceled already.
LEMMA CloseFlightInv ==
    ASSUME FlightInv, CloseFlights
    PROVE  FlightInv'
<1> USE DEF FlightInv
<1>1. /\ flightsClosed' = TRUE /\ UNCHANGED <<current, at, got, canceled>>
      /\ calls' = [n \in DOMAIN calls |-> IF n = current THEN [calls[n] EXCEPT !.ctxDone = TRUE] ELSE calls[n]]
    BY Zenon DEF CloseFlights
<1>2. ASSUME NEW n \in DOMAIN calls
      PROVE  /\ calls[n] \in Shared /\ [calls[n] EXCEPT !.ctxDone = TRUE] \in Shared /\ calls'[n] \in Shared
             /\ calls'[n].waiters = calls[n].waiters /\ calls'[n].completed = calls[n].completed
             /\ calls'[n].claimed = calls[n].claimed /\ calls'[n].succeeded = calls[n].succeeded
             /\ calls'[n].err = calls[n].err /\ calls'[n].disposals = calls[n].disposals
             /\ n = current => calls'[n].ctxDone
             /\ n # current => calls'[n].ctxDone = calls[n].ctxDone
  <2>1. calls[n] \in Shared
    BY DEF Types
  <2>2. [calls[n] EXCEPT !.ctxDone = TRUE] \in Shared
    BY <2>1, Zenon DEF Shared
  <2>3. calls'[n] = IF n = current THEN [calls[n] EXCEPT !.ctxDone = TRUE] ELSE calls[n]
    BY <1>1, Zenon
  <2> QED
    BY <2>1, <2>2, <2>3, Zenon DEF Shared
<1>3. calls' \in Seq(Shared) /\ DOMAIN calls' = DOMAIN calls /\ Len(calls') = Len(calls)
  <2>1. Len(calls) \in Nat /\ DOMAIN calls = 1 .. Len(calls)
    BY DEF Types
  <2>2. calls' \in [1 .. Len(calls) -> Shared]
    BY <1>1, <1>2, <2>1, Zenon
  <2> QED
    BY <2>1, <2>2
<1>4. \A m : Waiting(m)' = Waiting(m) /\ (Taken(m)' <=> Taken(m))
    BY <1>1, Zenon DEF Waiting, Taken
<1>5. Types' /\ PlacesInv'
    BY <1>1, <1>3, Zenon DEF Types, PlacesInv
<1>6. ASSUME NEW m \in DOMAIN calls' PROVE CallInv(m)'
  <2>1. m \in DOMAIN calls /\ CallInv(m)
    BY <1>3, Zenon
  <2>2. ~calls[m].completed => calls'[m].ctxDone
    BY <1>2, <2>1, Zenon DEF CallInv, ContextInv
  <2>3. ContextInv(calls[m], Waiting(m), current = m)'
    BY <1>1, <1>2, <1>4, <2>1, <2>2, Zenon DEF CallInv, ContextInv
  <2>4. ResultInv(calls[m], Waiting(m), Taken(m))'
    BY <1>2, <1>4, <2>1, Zenon DEF CallInv, ResultInv
  <2> QED
    BY <2>3, <2>4, Zenon DEF CallInv
<1>7. ValueInv'
    BY <1>1, <1>2, <1>3, SMTT(30) DEF ValueInv
<1> QED
    BY <1>5, <1>6, <1>7

\* A context ends, a closed coalescer refuses, or nothing happens.
LEMMA QuietFlightInv ==
    ASSUME FlightInv,
           \/ \E c \in Callers : Cancel(c)
           \/ UNCHANGED coalescerVars
    PROVE  FlightInv'
<1>1. UNCHANGED <<current, calls, at, got, flightsClosed>>
    BY Zenon DEF Cancel, coalescerVars
<1>2. \A m : Waiting(m)' = Waiting(m) /\ (Taken(m)' <=> Taken(m))
    BY <1>1, Zenon DEF Waiting, Taken
<1> QED
    BY <1>1, <1>2, Zenon DEF FlightInv, Types, PlacesInv, CallInv, ContextInv, ResultInv, ValueInv

\* Do on a closed coalescer returns at once.
LEMMA RefusedFlightInv ==
    ASSUME FlightInv, NEW c \in Callers, Do(c), flightsClosed
    PROVE  FlightInv'
<1> USE DEF FlightInv
<1> DEFINE place == [pc |-> "returned", call |-> 0]
           result == [err |-> "closed", value |-> 0]
<1>1. /\ at[c].pc = "start" /\ at' = [at EXCEPT ![c] = place] /\ got' = [got EXCEPT ![c] = result]
      /\ UNCHANGED <<current, calls, flightsClosed>>
    BY Zenon DEF Do, Returned
<1>2. place \in Places /\ result \in Returns
    BY Zenon DEF Places, Returns, Errors
<1>3. /\ at' \in [Callers -> Places] /\ got' \in [Callers -> Returns] /\ at'[c] = place /\ got'[c] = result
      /\ \A d \in Callers : d # c => at'[d] = at[d] /\ got'[d] = got[d]
    BY <1>1, <1>2, Zenon DEF Types
<1>4. Types'
    BY <1>1, <1>3, Zenon DEF Types
<1>5. PlacesInv'
    BY <1>1, <1>3, Zenon DEF PlacesInv
<1>6. got[c].err # "nil" /\ result.err # "nil"
    BY <1>1 DEF PlacesInv, Nothing
<1>7. ASSUME NEW m PROVE Waiting(m)' = Waiting(m) /\ (Taken(m)' <=> Taken(m))
  <2>1. Waiting(m)' = Waiting(m)
    BY <1>1, <1>3, Zenon DEF Waiting
  <2>2. Taken(m)' <=> Taken(m)
    BY <1>3, <1>6, SMTT(30) DEF Taken
  <2> QED
    BY <2>1, <2>2, Zenon
<1>8. ASSUME NEW m \in DOMAIN calls' PROVE CallInv(m)'
    BY <1>1, <1>7, Zenon DEF CallInv, ContextInv, ResultInv
<1>9. ValueInv'
    BY <1>1, <1>3, SMTT(30) DEF ValueInv
<1> QED
    BY <1>4, <1>5, <1>8, <1>9, Zenon

\* The invariant is inductive.
LEMMA FlightInvStep == FlightInv /\ [CoalescerNext]_coalescerVars => FlightInv'
<1> SUFFICES ASSUME FlightInv, [CoalescerNext]_coalescerVars PROVE FlightInv'
    BY Zenon
<1> QED
    BY DoFlightInv, RefusedFlightInv, ClaimFlightInv, GiveUpFlightInv, RunFlightInv, CloseFlightInv, QuietFlightInv, Zenon
       DEF CoalescerNext, DoStep

\* The invariant in the terms of the specification.
LEMMA FlightInvImplies == FlightInv => ContextFollowsWaiters /\ ValuesAreAlive /\ NoResultLost
<1> SUFFICES ASSUME FlightInv PROVE ContextFollowsWaiters /\ ValuesAreAlive /\ NoResultLost
    BY Zenon
<1> USE DEF FlightInv
<1>1. ContextFollowsWaiters
  <2>1. ASSUME NEW n \in DOMAIN calls
        PROVE  /\ calls[n].waiters = Cardinality(Waiting(n))
               /\ n \in Running => (calls[n].ctxDone <=> (Waiting(n) = {} \/ flightsClosed))
               /\ current = n <=> n \in Running /\ Waiting(n) # {}
    BY Zenon DEF CallInv, ContextInv, Running
  <2> QED
    BY <2>1, Zenon DEF ContextFollowsWaiters, Running
<1>2. ValuesAreAlive
    BY Zenon DEF ValueInv, ValuesAreAlive
<1>3. NoResultLost
  <2>1. ASSUME NEW n \in DOMAIN calls, calls[n].succeeded, Waiting(n) = {} PROVE calls[n].disposals > 0 \/ Taken(n)
    BY <2>1, Zenon DEF CallInv, ResultInv
  <2> QED
    BY <2>1, Zenon DEF NoResultLost, Taken
<1> QED
    BY <1>1, <1>2, <1>3, Zenon

\* releaseLocked: the operation of a call runs as long as somebody waits for it,
\* and a new caller joins the one that is still wanted, never an abandoned one.
THEOREM WaitersDecide == CoalescerSpec => []ContextFollowsWaiters
    BY InitFlightInv, FlightInvStep, FlightInvImplies, PTL DEF CoalescerSpec

\* Do: who gets a value gets that of a call that succeeded and whose result the
\* disposer does not have.
THEOREM LiveValues == CoalescerSpec => []ValuesAreAlive
    BY InitFlightInv, FlightInvStep, FlightInvImplies, PTL DEF CoalescerSpec

\* run and releaseLocked: no result is lost, however cancellation, completion and
\* Close interleave.
THEOREM NothingLost == CoalescerSpec => []NoResultLost
    BY InitFlightInv, FlightInvStep, FlightInvImplies, PTL DEF CoalescerSpec

\* The same for the flights that are used beside connections and a manager.
THEOREM FlightsKeepResults == ConnectionsSpec => []FlightsLoseNothing
<1> DEFINE Inv == which = "flights" => FlightInv
<1>1. ConnectionsInit => Inv
    BY InitFlightInv, Zenon DEF ConnectionsInit, ManagerInit
<1>2. Inv /\ [UseConnection \/ UseFlights \/ UseManager]_connectionsVars => Inv'
  <2> SUFFICES ASSUME Inv, [UseConnection \/ UseFlights \/ UseManager]_connectionsVars, which' = "flights"
               PROVE  FlightInv'
    BY Zenon
  <2>1. which = "flights" /\ [CoalescerNext]_coalescerVars
    BY Zenon DEF UseConnection, UseFlights, UseManager, connectionsVars, managerAll
  <2> QED
    BY <2>1, FlightInvStep, Zenon
<1>3. Inv => FlightsLoseNothing
    BY FlightInvImplies, Zenon DEF FlightsLoseNothing
<1> QED
    BY <1>1, <1>2, <1>3, PTL DEF ConnectionsSpec

-----------------------------------------------------------------------------
(* The cache of connections *)

\* There is a connection for every operation and for the entry of the cache.
CacheInv ==
    /\ conns \in Seq({"none", "open", "shut"}) /\ DOMAIN work = DOMAIN conns /\ Len(work) = Len(conns)
    /\ \E S : work \in Seq(S)
    /\ client # 0 => client \in DOMAIN conns

\* A manager without connections satisfies the invariant.
LEMMA InitCacheInv == ManagerInit => CacheInv
<1> SUFFICES ASSUME ManagerInit PROVE CacheInv
    BY Zenon
<1>1. work \in Seq({}) /\ conns \in Seq({"none", "open", "shut"}) /\ work = conns /\ client = 0
    BY SMTT(30) DEF ManagerInit
<1> QED
    BY <1>1, Zenon DEF CacheInv

\* The invariant is inductive.
LEMMA CacheInvStep == CacheInv /\ [ManagerNext]_managerAll => CacheInv'
<1> SUFFICES ASSUME CacheInv, [ManagerNext]_managerAll PROVE CacheInv'
    BY Zenon
<1> USE DEF CacheInv
<1>0. PICK S : work \in Seq(S)
    BY Zenon
<1>1. ASSUME NEW c \in Callers, Flight(c) PROVE CacheInv'
  <2>1. UNCHANGED client
    BY <1>1, Zenon DEF Flight
  <2> DEFINE w == [pc |-> "check", conn |-> 0]
  <2>2. CASE work' = Append(work, w) /\ conns' = Append(conns, "none")
    <3>1. work \in Seq(S \union {w})
      BY <1>0
    <3>2. work' \in Seq(S \union {w}) /\ Len(work') = Len(work) + 1 /\ conns' \in Seq({"none", "open", "shut"}) /\ Len(conns') = Len(conns) + 1
      BY <2>2, <3>1
    <3>3. DOMAIN work = 1 .. Len(work) /\ DOMAIN conns = 1 .. Len(conns) /\ Len(work) \in Nat /\ Len(conns) \in Nat
      BY <1>0
    <3>4. DOMAIN work' = 1 .. Len(work) + 1 /\ DOMAIN conns' = 1 .. Len(conns) + 1
      BY <3>2
    <3> QED
      BY <2>1, <3>2, <3>3, <3>4, SMTT(30)
  <2>3. CASE UNCHANGED <<work, conns>>
    BY <2>1, <2>3, Zenon
  <2> QED
    BY <1>1, <2>2, <2>3, Zenon DEF Flight
<1>2. ASSUME UNCHANGED <<work, conns>>, UNCHANGED client \/ client' = 0 PROVE CacheInv'
    BY <1>2, Zenon
<1>3. ASSUME NEW n \in DOMAIN work, NEW v, work' = [work EXCEPT ![n] = v]
      PROVE  DOMAIN work' = DOMAIN work /\ Len(work') = Len(work) /\ \E T : work' \in Seq(T)
  <2>1. work \in Seq(S \union {v})
    BY <1>0
  <2>2. work' \in Seq(S \union {v}) /\ Len(work') = Len(work)
    BY <1>3, <2>1
  <2> QED
    BY <1>3, <2>2, Zenon
<1>4. ASSUME NEW n \in DOMAIN conns, NEW v \in {"none", "open", "shut"}, conns' = [conns EXCEPT ![n] = v]
      PROVE  conns' \in Seq({"none", "open", "shut"}) /\ DOMAIN conns' = DOMAIN conns /\ Len(conns') = Len(conns)
    BY <1>4
<1>5. ASSUME NEW n \in DOMAIN work, CheckCache(n) PROVE CacheInv'
    BY <1>3, <1>5, Zenon DEF CheckCache
<1>6. ASSUME NEW n \in DOMAIN work, NEW ok \in BOOLEAN, Open(n, ok) PROVE CacheInv'
    BY <1>3, <1>4, <1>6, Zenon DEF Open
<1>7. ASSUME NEW n \in DOMAIN work, Publish(n) PROVE CacheInv'
    BY <1>3, <1>4, <1>7, Zenon DEF Publish
<1>8. ASSUME NEW c \in Callers, Remove(c) PROVE CacheInv'
  <2>1. conns' = [conns EXCEPT ![task[c].conn] = "shut"] /\ UNCHANGED work /\ (client' = client \/ client' = 0)
    BY <1>8, Zenon DEF Remove, removed
  <2>2. CASE task[c].conn \in DOMAIN conns
    BY <1>4, <2>1, <2>2, Zenon
  <2>3. CASE task[c].conn \notin DOMAIN conns
    <3>1. conns' = conns
      BY <2>1, <2>3, SMTT(30)
    <3> QED
      BY <2>1, <3>1, Zenon
  <2> QED
    BY <2>2, <2>3, Zenon
<1>9. ASSUME ShutdownClients PROVE CacheInv'
  <2>1. conns' \in [DOMAIN conns -> {"none", "open", "shut"}] /\ UNCHANGED <<work, client>>
    BY <1>9 DEF ShutdownClients
  <2>2. DOMAIN conns = 1 .. Len(conns) /\ Len(conns) \in Nat
    OBVIOUS
  <2> QED
    BY <2>1, <2>2, SMTT(30)
<1> QED
    BY <1>1, <1>2, <1>5, <1>6, <1>7, <1>8, <1>9, Zenon
       DEF ManagerNext, GetNode, Answered, Fails, Backoff, CallerDone, EndWork, CloseManager, CloseCoalescer, managerVars, managerAll

\* remove: the entry of the cache is taken away only together with the connection
\* it names, so a late report about an older connection leaves the one that
\* replaced it.
THEOREM CacheEntryKept == ManagerSpec => CacheKeepsLiveConnection
<1> DEFINE Kept == client # 0 /\ client' = 0 => conns'[client] = "shut"
<1>1. CacheInv /\ [ManagerNext]_managerAll => [Kept]_managerAll
  <2> SUFFICES ASSUME CacheInv, ManagerNext, client # 0, client' = 0 PROVE conns'[client] = "shut"
    BY Zenon DEF managerAll, managerVars
  <2>1. \A n \in DOMAIN work : n # 0
    BY DEF CacheInv
  <2>2. PICK c \in Callers : Remove(c)
    BY <2>1, Zenon DEF ManagerNext, GetNode, Flight, Answered, Fails, Backoff, CallerDone, CheckCache, Open, Publish, EndWork,
                CloseManager, CloseCoalescer, ShutdownClients, managerVars
  <2>3. client = task[c].conn /\ conns' = [conns EXCEPT ![client] = "shut"] /\ client \in DOMAIN conns
    BY <2>2, Zenon DEF Remove, removed, CacheInv
  <2> QED
    BY <2>3, Zenon
<1> QED
    BY <1>1, InitCacheInv, CacheInvStep, PTL DEF ManagerSpec, CacheKeepsLiveConnection
=============================================================================
