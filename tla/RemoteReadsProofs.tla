-------------------------- MODULE RemoteReadsProofs ---------------------------
(***************************************************************************)
(* Proofs about reads of remote storage, for any number of receivers,      *)
(* objects, attempts and errors: the receivers of a security token agree   *)
(* with the manager that hands it out and the token is renewed in time,    *)
(* and a read of remote objects returns all of their bytes or none.        *)
(***************************************************************************)
EXTENDS SecurityTokens, RemoteFiles, FiniteSetTheorems, TLAPS

-----------------------------------------------------------------------------
(* Filesystem tokens *)

Managers == [current : [left : Int, revoked : BOOLEAN], available : BOOLEAN, disabled : BOOLEAN, failures : Nat,
             started : BOOLEAN, stopped : BOOLEAN, canceled : BOOLEAN, done : BOOLEAN]

Loops == [pc : {"new", "waiting", "acquiring", "publishing", "receiving", "ended"}, timer : Int, armed : BOOLEAN,
          factor : Nat, token : [left : Int, revoked : BOOLEAN], receiver : Nat \ {0}]

TokenTypes ==
    /\ manager \in Managers /\ loop \in Loops
    /\ holds \in [Receivers -> {"current", "next", "other"}]

\* Before Start there is neither a token nor a failure.  run begins every
\* publication with the first receiver, and the receivers it has passed hold the
\* token that it is about to publish.
PublishInv ==
    /\ ~manager.started => loop.pc = "new"
    /\ loop.pc = "new" => manager.failures = 0 /\ ~manager.available
    /\ loop.pc \in {"new", "waiting", "acquiring"} => loop.receiver = 1
    /\ loop.pc \in {"publishing", "receiving"} => \A r \in Receivers : r < loop.receiver => holds[r] = "next"

TokenInv == TokenTypes /\ PublishInv /\ ReceiversAgree /\ RenewsInTime

\* The time to a renewal, with a jitter that does not stretch it to the whole of the
\* lifetime, is shorter than the lifetime.
LEMMA RenewalDelayShort ==
    ASSUME NEW left \in Int, left > ClockSkew, NEW f \in Factors, belowLifetime(f)
    PROVE  jitter(renewalDelay(left), f) \in Int /\ jitter(renewalDelay(left), f) < left - ClockSkew
<1>1. PICK life \in Nat : life = left - ClockSkew /\ life > 0
    BY TokenAssumption
<1>2. f \in Nat /\ RatioPercent \in Nat /\ RatioPercent * f < 10000
    BY TokenAssumption DEF belowLifetime
<1>3. (((life * RatioPercent) \div 100) * f) \div 100 < life
    BY <1>1, <1>2
<1>4. (((life * RatioPercent) \div 100) * f) \div 100 \in Int
    BY <1>1, <1>2
<1>5. renewalDelay(left) = (life * RatioPercent) \div 100
    BY <1>1, TokenAssumption DEF renewalDelay
<1> QED
    BY <1>1, <1>3, <1>4, <1>5 DEF jitter

\* The jitter of a longer delay is longer.
LEMMA JitterMonotone ==
    ASSUME NEW d \in Int, NEW e \in Int, d <= e, NEW f \in Factors
    PROVE  jitter(d, f) \in Int /\ jitter(e, f) \in Int /\ jitter(d, f) <= jitter(e, f)
<1>1. f \in Nat
    BY TokenAssumption
<1>2. d * f \in Int /\ e * f \in Int /\ d * f <= e * f
    BY <1>1
<1>3. PICK x \in Int, y \in Int : x = d * f /\ y = e * f /\ x <= y
    BY <1>2, Zenon
<1>4. x \div 100 \in Int /\ y \div 100 \in Int /\ x \div 100 <= y \div 100
    BY <1>3
<1> QED
    BY <1>3, <1>4 DEF jitter

\* The backoff after any number of failures is capped.
LEMMA FailedDelayCapped ==
    ASSUME NEW failures \in Nat \ {0}
    PROVE  failedDelay(failures) \in Int /\ failedDelay(failures) <= MaxRenewalRetryBackoff
<1>1. PICK exponent \in Nat : exponent = IF failures - 1 > 30 THEN 30 ELSE failures - 1
    OBVIOUS
<1>2. RenewalRetryBackoff * 2 ^ exponent \in Int
  <2>1. 2 ^ exponent \in Int
    BY <1>1
  <2> QED
    BY <2>1, TokenAssumption
<1> QED
    BY <1>1, <1>2, TokenAssumption DEF failedDelay

\* The loop after Sleep: it waits, for the delay with its jitter.
LEMMA SleepLoop ==
    ASSUME NEW delay \in Int, NEW f \in Factors, Sleep(delay, f)
    PROVE  /\ loop' \in Loops /\ loop'.pc = "waiting" /\ loop'.timer = jitter(delay, f) /\ loop'.receiver = 1
           /\ loop'.factor = f
<1>1. jitter(delay, f) \in Int
    BY JitterMonotone
<1>2. PICK armed \in BOOLEAN : armed <=> jitter(delay, f) > 0
  <2>1. CASE jitter(delay, f) > 0
    BY <2>1, Zenon
  <2>2. CASE ~(jitter(delay, f) > 0)
    BY <2>2, Zenon
  <2> QED
    BY <2>1, <2>2, Zenon
<1>3. armed = (jitter(delay, f) > 0)
    BY ONLY <1>2
<1>4. loop' = [pc |-> "waiting", timer |-> jitter(delay, f), armed |-> armed, factor |-> f, token |-> NoToken, receiver |-> 1]
    BY <1>3, Zenon DEF Sleep
<1> QED
    BY <1>1, <1>2, <1>4, TokenAssumption DEF Loops, NoToken, Never

\* A failed acquisition or publication.
LEMMA FailToken ==
    ASSUME TokenInv, loop.pc # "new", NEW f \in Factors, Fail(f)
    PROVE  TokenInv'
<1> USE DEF TokenInv
<1>1. PICK n \in Nat \ {0} : n = IF manager.failures = MaxFailures THEN MaxFailures ELSE manager.failures + 1
    BY TokenAssumption DEF TokenTypes, Managers
<1>2. manager' = [manager EXCEPT !.failures = n]
    BY <1>1, Zenon DEF Fail
<1>3. /\ manager' \in Managers /\ manager'.failures = n /\ manager'.started = manager.started
      /\ manager'.available = manager.available
    BY <1>2, Zenon DEF TokenTypes, Managers
<1>4. /\ loop' \in Loops /\ loop'.pc = "waiting" /\ loop'.receiver = 1
      /\ loop'.timer = jitter(failedDelay(n), f) /\ loop'.factor = f
    BY <1>1, SleepLoop, FailedDelayCapped DEF Fail
<1>5. loop'.timer <= jitter(MaxRenewalRetryBackoff, f)
    BY <1>1, <1>4, FailedDelayCapped, JitterMonotone, TokenAssumption
<1>6. TokenTypes'
    BY <1>3, <1>4 DEF TokenTypes, Fail, Receivers
<1>7. PublishInv'
    BY <1>3, <1>4 DEF PublishInv
<1>8. ReceiversAgree' /\ RenewsInTime'
    BY <1>1, <1>3, <1>4, <1>5 DEF ReceiversAgree, RenewsInTime
<1> QED
    BY <1>6, <1>7, <1>8

\* run ends, with the manager otherwise as it was or without a token.
LEMMA EndToken ==
    ASSUME TokenInv, loop.pc # "new", UNCHANGED holds, NEW m \in Managers, m.started = manager.started,
           m.failures = manager.failures, m.available => manager.available, RunEnds(m)
    PROVE  TokenInv'
<1> USE DEF TokenInv
<1>1. /\ manager' \in Managers /\ manager'.started = m.started /\ manager'.failures = m.failures
      /\ manager'.available = m.available
    BY Zenon DEF RunEnds, Managers
<1>2. loop' \in Loops /\ loop'.pc = "ended" /\ loop'.receiver = loop.receiver
    BY Zenon DEF RunEnds, TokenTypes, Loops
<1>3. TokenTypes' /\ PublishInv'
    BY <1>1, <1>2 DEF TokenTypes, PublishInv, Receivers
<1>4. ReceiversAgree' /\ RenewsInTime'
    BY <1>1, <1>2 DEF ReceiversAgree, RenewsInTime, Receivers
<1> QED
    BY <1>3, <1>4

\* run goes on to acquire, to publish or to call a receiver; the manager and the
\* receivers are as they were.
LEMMA GoOnToken ==
    ASSUME TokenInv, loop.pc # "new", UNCHANGED <<manager, holds>>, loop' \in Loops, loop'.receiver = loop.receiver,
           loop'.pc \in {"acquiring", "publishing", "receiving"},
           loop.receiver = 1 \/ (loop.pc = "publishing" /\ loop'.pc = "receiving")
    PROVE  TokenInv'
<1> USE DEF TokenInv
<1>1. TokenTypes' /\ RenewsInTime' /\ ReceiversAgree'
    BY Zenon DEF TokenTypes, RenewsInTime, ReceiversAgree, Receivers
<1>2. PublishInv'
    BY DEF PublishInv, Receivers
<1> QED
    BY <1>1, <1>2
\* A receiver has accepted the token.
LEMMA ReceivedToken ==
    ASSUME TokenInv, loop.pc = "receiving", NextReceiver, holds' = [holds EXCEPT ![loop.receiver] = "next"]
    PROVE  TokenInv'
<1> USE DEF TokenInv
<1>1. loop' \in Loops /\ loop'.pc = "publishing" /\ loop'.receiver = loop.receiver + 1 /\ UNCHANGED manager
  <2>1. PICK next \in Nat \ {0} : next = loop.receiver + 1
    BY DEF TokenTypes, Loops
  <2>2. loop' = [loop EXCEPT !.pc = "publishing", !.receiver = next]
    BY <2>1, Zenon DEF NextReceiver
  <2> QED
    BY <2>1, <2>2, Zenon DEF NextReceiver, TokenTypes, Loops
<1>2. /\ holds' \in [Receivers -> {"current", "next", "other"}]
      /\ \A r \in Receivers : holds'[r] = IF r = loop.receiver THEN "next" ELSE holds[r]
    BY Zenon DEF TokenTypes
<1>3. TokenTypes' /\ RenewsInTime'
    BY <1>1, <1>2, Zenon DEF TokenTypes, RenewsInTime, Receivers
<1>4. PublishInv' /\ ReceiversAgree'
    BY <1>1, <1>2 DEF PublishInv, ReceiversAgree, Receivers, TokenTypes, Loops
<1> QED
    BY <1>3, <1>4, Zenon

\* Every receiver has the token: all of them hold the current one, and run sleeps
\* for less than the lifetime of the token, unless the jitter is too large.
LEMMA PublishToken ==
    ASSUME TokenInv, NEW f \in Factors, Publish(f)
    PROVE  TokenInv'
<1> USE DEF TokenInv
<1>1. PICK m : m = published(loop.token)
    BY Zenon
<1>2. /\ m \in Managers /\ m.started = manager.started /\ m.failures = 0
      /\ m.available <=> ~loop.token.revoked
      /\ m.available => m.current = loop.token
  <2>1. PICK available \in BOOLEAN, current \in [left : Int, revoked : BOOLEAN] :
            /\ available = ~loop.token.revoked
            /\ current = IF loop.token.revoked THEN NoToken ELSE loop.token
    <3>1. loop.token \in [left : Int, revoked : BOOLEAN] /\ loop.token.revoked \in BOOLEAN
      BY Zenon DEF TokenTypes, Loops
    <3>2. NoToken \in [left : Int, revoked : BOOLEAN]
      BY DEF NoToken, Never
    <3>3. \E available \in BOOLEAN : available = ~loop.token.revoked
      BY <3>1, Zenon
    <3>4. \E current \in [left : Int, revoked : BOOLEAN] :
              current = IF loop.token.revoked THEN NoToken ELSE loop.token
      BY <3>1, <3>2
    <3> QED
      BY <3>3, <3>4, Zenon
  <2>2. m = [manager EXCEPT !.current = current, !.available = available, !.failures = 0]
    BY <1>1, <2>1 DEF published
  <2> QED
    BY <2>1, <2>2, Zenon DEF TokenTypes, Managers
<1>3. /\ holds' \in [Receivers -> {"current", "next", "other"}]
      /\ \A r \in Receivers : holds'[r] = "current"
  <2>1. \A r \in Receivers : holds[r] = "next"
    BY TokenAssumption DEF Publish, TokenTypes, Receivers, PublishInv, Loops
  <2> QED
    BY <2>1 DEF Publish, Receivers
<1>4. manager.started /\ loop.pc = "publishing"
    BY Zenon DEF Publish, PublishInv
<1>5. CASE ~loop.token.revoked /\ loop.token.left = Never
  <2>1. RunEnds(m)
    BY <1>1, <1>5 DEF Publish
  <2>2. /\ manager' \in Managers /\ manager'.started = m.started
    BY <1>2, <2>1, Zenon DEF RunEnds, Managers
  <2>3. loop' \in Loops /\ loop'.pc = "ended"
    BY <2>1, Zenon DEF RunEnds, TokenTypes, Loops
  <2> QED
    BY <1>2, <1>3, <1>4, <2>2, <2>3 DEF TokenTypes, PublishInv, ReceiversAgree, RenewsInTime, Receivers
<1>6. CASE loop.token.revoked \/ loop.token.left # Never
  <2>1. PICK delay : delay = IF loop.token.revoked THEN RenewalRetryBackoff ELSE renewalDelay(loop.token.left)
    BY Zenon
  <2>2. manager' = m /\ Sleep(delay, f)
    BY <1>1, <1>6, <2>1 DEF Publish
  <2>3. delay \in Int
    BY <2>1, TokenAssumption DEF renewalDelay, TokenTypes, Loops
  <2>4. /\ loop' \in Loops /\ loop'.pc = "waiting" /\ loop'.timer = jitter(delay, f) /\ loop'.receiver = 1
        /\ loop'.factor = f
    BY <2>2, <2>3, SleepLoop
  <2>5. TokenTypes' /\ PublishInv' /\ ReceiversAgree'
    BY <1>2, <1>3, <1>4, <2>2, <2>4, Zenon DEF TokenTypes, PublishInv, ReceiversAgree, Receivers
  <2>6. ASSUME m.available, ~tokenExpired(m.current, 0), belowLifetime(f) PROVE ~tokenExpired(m.current, jitter(delay, f))
    <3>1. /\ ~loop.token.revoked /\ m.current = loop.token /\ loop.token.left # Never
          /\ loop.token.left \in Int /\ loop.token.left > ClockSkew
      BY <1>2, <1>6, <2>6, TokenAssumption DEF tokenExpired, TokenTypes, Loops
    <3> QED
      BY <2>1, <2>6, <3>1, RenewalDelayShort, TokenAssumption DEF tokenExpired
  <2>7. RenewsInTime'
    BY <1>2, <2>2, <2>4, <2>6 DEF RenewsInTime, Current
  <2> QED
    BY <2>5, <2>7
<1> QED
    BY <1>5, <1>6, Zenon DEF TokenTypes, Loops

\* The clock: the token and the timer grow shorter together.
LEMMA TickToken ==
    ASSUME TokenInv, Tick
    PROVE  TokenInv'
<1> USE DEF TokenInv
<1>1. /\ manager' \in Managers /\ manager'.current.left = after(manager.current.left)
      /\ manager'.started = manager.started /\ manager'.failures = manager.failures
      /\ manager'.available = manager.available
    BY DEF Tick, TokenTypes, Managers, after
<1>2. /\ loop' \in Loops /\ loop'.timer = after(loop.timer) /\ loop'.pc = loop.pc
      /\ loop'.receiver = loop.receiver /\ loop'.factor = loop.factor
  <2>1. PICK left \in Int, due \in Int : left = after(loop.token.left) /\ due = after(loop.timer)
    BY DEF TokenTypes, Loops, after
  <2>2. loop' = [loop EXCEPT !.token.left = left, !.timer = due]
    BY <2>1, Zenon DEF Tick
  <2> QED
    BY <2>1, <2>2, Zenon DEF TokenTypes, Loops
<1>3. UNCHANGED holds
    BY Zenon DEF Tick
<1>4. TokenTypes' /\ PublishInv' /\ ReceiversAgree'
    BY <1>1, <1>2, <1>3, Zenon DEF TokenTypes, PublishInv, ReceiversAgree, Receivers
<1>5. RenewsInTime'
  <2> SUFFICES ASSUME loop.pc = "waiting"
               PROVE  /\ manager.failures = 0 /\ Current(0)' # {} /\ belowLifetime(loop.factor)
                           => Current(loop.timer)' # {}
                      /\ manager.failures > 0 => loop'.timer <= jitter(MaxRenewalRetryBackoff, loop.factor)
    BY <1>1, <1>2 DEF RenewsInTime
  <2>1. loop.timer \in Int /\ loop.timer > 0 /\ loop'.timer = loop.timer - 1 /\ manager.current.left \in Int
    BY <1>2 DEF Tick, TokenTypes, Loops, Managers, after
  <2>2. ASSUME manager.failures > 0 PROVE loop'.timer <= jitter(MaxRenewalRetryBackoff, loop.factor)
    <3>1. loop.timer <= jitter(MaxRenewalRetryBackoff, loop.factor)
      BY <2>2, Zenon DEF RenewsInTime
    <3>2. jitter(MaxRenewalRetryBackoff, loop.factor) \in Int
      BY TokenAssumption DEF jitter, TokenTypes, Loops
    <3> QED
      BY <2>1, <3>1, <3>2
  <2>3. ASSUME manager.failures = 0, manager.available, ~tokenExpired(manager'.current, 0), belowLifetime(loop.factor)
        PROVE  ~tokenExpired(manager'.current, loop'.timer)
    <3>1. CASE manager.current.left = Never
      BY <1>1, <3>1 DEF tokenExpired, after, Never
    <3>2. CASE manager.current.left # Never
      <4>1. manager'.current.left # Never
        BY <1>1, <2>1, <3>2 DEF after, Never
      <4>2. manager'.current.left > ClockSkew
        BY <1>1, <2>1, <2>3, <4>1, TokenAssumption DEF tokenExpired, after
      <4>3. manager'.current.left = manager.current.left - 1 /\ manager.current.left > ClockSkew
        BY <1>1, <2>1, <4>2, TokenAssumption DEF after
      <4>4. ~tokenExpired(manager.current, loop.timer)
        BY <2>1, <2>3, <4>3, TokenAssumption DEF RenewsInTime, Current, tokenExpired
      <4> QED
        BY <2>1, <3>2, <4>3, <4>4, TokenAssumption DEF tokenExpired
    <3> QED
      BY <3>1, <3>2
  <2> QED
    BY <1>1, <2>2, <2>3 DEF Current
<1> QED
    BY <1>4, <1>5

\* Start, Stop and its return, and the end of a callback.
LEMMA CallToken ==
    ASSUME TokenInv,
           Start \/ (\E s \in Stoppers : Stop(s) \/ StopReturns(s)) \/ (\E ok \in BOOLEAN : ReceiverReturns(ok))
    PROVE  TokenInv'
<1> USE DEF TokenInv
<1>1. CASE Start
  <2>1. /\ manager' \in Managers /\ manager'.started /\ manager'.available = manager.available
        /\ manager'.failures = manager.failures
    BY <1>1, Zenon DEF Start, TokenTypes, Managers
  <2>2. loop' \in Loops /\ loop'.pc = "waiting" /\ loop'.receiver = loop.receiver /\ UNCHANGED holds
    BY <1>1, Zenon DEF Start, TokenTypes, Loops
  <2>3. loop.pc = "new" /\ manager.failures = 0 /\ ~manager.available
    BY <1>1, Zenon DEF Start, PublishInv
  <2> QED
    BY <2>1, <2>2, <2>3 DEF TokenTypes, PublishInv, ReceiversAgree, RenewsInTime, Current, Receivers
<1>2. CASE \E s \in Stoppers : Stop(s)
  <2>1. /\ manager' \in Managers /\ manager'.started = manager.started /\ manager'.available = manager.available
        /\ manager'.failures = manager.failures /\ manager'.current = manager.current
    <3>1. CASE manager.stopped
      BY <1>2, <3>1 DEF Stop, TokenTypes
    <3>2. CASE ~manager.stopped
      <4>1. PICK ended \in BOOLEAN, done \in BOOLEAN :
                ended = (manager.canceled \/ manager.started) /\ done = (manager.done \/ ~manager.started)
        BY Zenon
      <4>2. manager' = [manager EXCEPT !.stopped = TRUE, !.canceled = ended, !.done = done]
        BY <1>2, <3>2, <4>1 DEF Stop
      <4> QED
        BY <4>1, <4>2, Zenon DEF TokenTypes, Managers
    <3> QED
      BY <3>1, <3>2
  <2>2. UNCHANGED <<loop, holds>>
    BY <1>2, Zenon DEF Stop
  <2> QED
    BY <2>1, <2>2, Zenon DEF TokenTypes, PublishInv, ReceiversAgree, RenewsInTime, Current, Receivers
<1>3. CASE UNCHANGED <<manager, loop, holds>>
    BY <1>3, Zenon DEF TokenTypes, PublishInv, ReceiversAgree, RenewsInTime, Current, Receivers
<1> QED
    BY <1>1, <1>2, <1>3 DEF StopReturns, ReceiverReturns

\* Every step of run, of its callers and of the clock.
LEMMA NextToken == TokenInv /\ [TokenNext]_tokenVars => TokenInv'
<1> SUFFICES ASSUME TokenInv, [TokenNext]_tokenVars PROVE TokenInv'
    BY Zenon
<1>1. CASE Start \/ (\E s \in Stoppers : Stop(s) \/ StopReturns(s)) \/ (\E ok \in BOOLEAN : ReceiverReturns(ok))
    BY <1>1, CallToken, Zenon
<1>2. CASE Tick
    BY <1>2, TickToken, Zenon
<1>3. CASE waitSecurityToken
  <2>1. CASE manager.canceled /\ RunEnds(manager)
    BY <1>3, <2>1, EndToken DEF waitSecurityToken, TokenInv, TokenTypes
  <2>2. CASE loop' = [loop EXCEPT !.pc = "acquiring"] /\ UNCHANGED manager
    <3>1. loop' \in Loops /\ loop'.pc = "acquiring" /\ loop'.receiver = loop.receiver
      BY <2>2, Zenon DEF TokenInv, TokenTypes, Loops
    <3> QED
      BY <1>3, <2>2, <3>1, GoOnToken DEF waitSecurityToken, TokenInv, PublishInv
  <2> QED
    BY <1>3, <2>1, <2>2 DEF waitSecurityToken
<1>4. ASSUME NEW f \in Factors, AcquireFails(f) PROVE TokenInv'
    BY <1>4, FailToken, Zenon DEF AcquireFails
<1>5. ASSUME NEW f \in Factors, NEW token \in Tokens, Acquired(token, f) PROVE TokenInv'
  <2>1. CASE Fail(f)
    BY <1>5, <2>1, FailToken DEF Acquired
  <2>2. CASE loop' = [loop EXCEPT !.pc = "publishing", !.token = token] /\ UNCHANGED <<manager, holds>>
    <3>1. token \in [left : Int, revoked : BOOLEAN]
      <4>1. CASE token = [left |-> Never, revoked |-> TRUE]
        BY <4>1 DEF Never
      <4>2. CASE \E l \in {Never} \union 0 .. MaxLife : token = [left |-> l, revoked |-> FALSE]
        <5>1. PICK l \in {Never} \union 0 .. MaxLife : token = [left |-> l, revoked |-> FALSE]
          BY <4>2, Zenon
        <5>2. l \in Int
          BY TokenAssumption DEF Never
        <5> QED
          BY <5>1, <5>2, Zenon
      <4> QED
        BY <4>1, <4>2 DEF Tokens
    <3>2. loop' \in Loops /\ loop'.pc = "publishing" /\ loop'.receiver = loop.receiver
      BY <2>2, <3>1, Zenon DEF TokenInv, TokenTypes, Loops
    <3> QED
      BY <1>5, <2>2, <3>2, GoOnToken DEF Acquired, TokenInv, PublishInv
  <2> QED
    BY <1>5, <2>1, <2>2 DEF Acquired
<1>6. CASE disable
  <2>1. PICK m : m = [manager EXCEPT !.current = NoToken, !.available = FALSE, !.disabled = TRUE]
    BY Zenon
  <2>2. m \in Managers /\ m.started = manager.started /\ m.failures = manager.failures /\ ~m.available
    <3>1. NoToken \in [left : Int, revoked : BOOLEAN]
      BY DEF NoToken, Never
    <3> QED
      BY <2>1, <3>1, Zenon DEF TokenInv, TokenTypes, Managers
  <2>3. RunEnds(m) /\ UNCHANGED holds /\ loop.pc # "new"
    BY <1>6, <2>1 DEF disable
  <2> QED
    BY ONLY <2>2, <2>3, TokenInv, EndToken, Zenon
<1>7. CASE callSecurityTokenReceiver
  <2>1. CASE RunEnds(manager)
    BY <1>7, <2>1, EndToken DEF callSecurityTokenReceiver, TokenInv, TokenTypes
  <2>2. CASE loop' = [loop EXCEPT !.pc = "receiving"] /\ UNCHANGED manager
    <3>1. loop' \in Loops /\ loop'.pc = "receiving" /\ loop'.receiver = loop.receiver
      BY <2>2, Zenon DEF TokenInv, TokenTypes, Loops
    <3> QED
      BY <1>7, <2>2, <3>1, GoOnToken DEF callSecurityTokenReceiver
  <2> QED
    BY <1>7, <2>1, <2>2 DEF callSecurityTokenReceiver
<1>8. ASSUME NEW f \in Factors, Received(f) PROVE TokenInv'
  <2>1. CASE RunEnds(manager) /\ UNCHANGED holds
    BY <1>8, <2>1, EndToken DEF Received, TokenInv, TokenTypes
  <2>2. CASE Fail(f)
    BY <1>8, <2>2, FailToken DEF Received
  <2>3. CASE NextReceiver /\ holds' = [holds EXCEPT ![loop.receiver] = "next"]
    BY <1>8, <2>3, ReceivedToken, Zenon DEF Received
  <2> QED
    BY <1>8, <2>1, <2>2, <2>3 DEF Received
<1>9. CASE AbandonReceiver
    BY <1>9, EndToken, Zenon DEF AbandonReceiver, TokenInv, TokenTypes
<1>10. ASSUME NEW f \in Factors, Publish(f) PROVE TokenInv'
    BY <1>10, PublishToken, Zenon
<1>11. CASE UNCHANGED tokenVars
    BY <1>11, Zenon DEF tokenVars, TokenInv, TokenTypes, PublishInv, ReceiversAgree, RenewsInTime, Current, Receivers
<1> QED
    BY <1>1, <1>2, <1>3, <1>4, <1>5, <1>6, <1>7, <1>8, <1>9, <1>10, <1>11 DEF TokenNext, ManagerStep

\* The goroutine of run starts from nothing.
LEMMA InitToken == TokenInit => TokenInv
<1> SUFFICES ASSUME TokenInit PROVE TokenInv
    BY Zenon
<1>1. manager \in Managers /\ ~manager.started /\ ~manager.available /\ manager.failures = 0
    BY DEF TokenInit, Managers, NoToken, Never
<1>2. loop \in Loops /\ loop.pc = "new" /\ loop.receiver = 1
    BY DEF TokenInit, Loops, NoToken, Never
<1> QED
    BY <1>1, <1>2, Zenon DEF TokenInit, TokenInv, TokenTypes, PublishInv, ReceiversAgree, RenewsInTime, Receivers

\* Unless an acquisition or a receiver failed since, every receiver accepted the
\* token that Current returns, and only receivers that the publication has passed
\* hold the next one: however many receivers there are, whether they fail, hang or
\* stop the manager, and whenever the token expires.
THEOREM ReceiversHoldCurrent == TokenSpec => []ReceiversAgree
<1>1. TokenInv => ReceiversAgree
    BY Zenon DEF TokenInv
<1> QED
    BY <1>1, InitToken, NextToken, PTL DEF TokenSpec

\* After a publication run wakes before the published token lapses, for any lifetime,
\* clock skew, ratio and jitter that normalized accepts, whenever the jitter that run
\* drew left the delay below the lifetime: the condition is part of RenewsInTime, not
\* an assumption about the settings.  After failures it wakes within the longest
\* backoff.
THEOREM RenewalKeepsUp == TokenSpec => []RenewsInTime
<1>1. TokenInv => RenewsInTime
    BY Zenon DEF TokenInv
<1> QED
    BY <1>1, InitToken, NextToken, PTL DEF TokenSpec

-----------------------------------------------------------------------------
(* Remote files *)

\* The jobs whose end the scheduler has not heard of.
Outstanding == running \union Range(completed)

FileShapes ==
    /\ \E n \in Nat : Jobs = 1 .. n
    /\ DOMAIN job = Jobs /\ \A j \in Jobs : DOMAIN job[j] = {"pc", "attempt", "err"}
    /\ buffer = [j \in Jobs |-> buffer[j]]
    /\ DOMAIN download = {"pc", "next", "active", "activeBytes", "firstErr", "contextDone"}
    /\ download.next \in Nat \ {0} /\ download.pc \in {"start", "await", "returned"}

\* Jobs are started in order; each that was started and not heard of counts as
\* active, whether it still runs or its result waits in the channel.
ActiveInv ==
    /\ completed \in Seq(Jobs)
    /\ \A m, n \in 1 .. Len(completed) : completed[m] = completed[n] => m = n
    /\ \A n \in 1 .. Len(completed) : job[completed[n]].pc = "ended"
    /\ \A j \in Jobs : job[j].pc \in {"new", "reading", "backoff", "ended"} /\ (job[j].pc = "new" <=> j >= download.next)
    /\ IsFiniteSet(Outstanding) /\ Cardinality(Outstanding) = download.active

\* A job that ended without an error has filled its part of the result, and the
\* scheduler knows of the errors of the jobs it has heard of.
ErrorInv ==
    /\ \A j \in Jobs : job[j].pc = "ended" /\ job[j].err = NoErr /\ ~(result.returned /\ result.err # NoErr)
                         => buffer[j] = bytesOf(j)
    /\ \A j \in Jobs : job[j].pc = "ended" /\ job[j].err # NoErr /\ j \notin Range(completed)
                         => download.firstErr # NoErr

\* Once the read has returned nothing is outstanding.
ReturnInv ==
    /\ result.returned \in BOOLEAN /\ (result.returned <=> download.pc = "returned")
    /\ result.returned => Outstanding = {}
    /\ info.mode = "log" => \A j \in Jobs : j > 1 => plan[j].start = plan[j - 1].end
    /\ WholeResult

FileInv == FileShapes /\ ActiveInv /\ ErrorInv /\ ReturnInv

\* What is planned is a list of objects, and that of a log without gaps.
LEMMA PlanFacts ==
    ASSUME NEW i \in Infos
    PROVE  /\ \E n \in Nat : DOMAIN planOf(i) = 1 .. n
           /\ i.mode = "log" => \A j \in DOMAIN planOf(i) : j > 1 => planOf(i)[j].start = planOf(i)[j - 1].end
<1>1. Len(i.objects) \in Nat /\ DOMAIN i.objects = 1 .. Len(i.objects)
    BY FilesAssumption
<1>2. DOMAIN byStartOffset(i.objects) = DOMAIN i.objects
    BY Zenon DEF byStartOffset
<1>3. DOMAIN <<>> = 1 .. 0
    OBVIOUS
<1>4. ASSUME i.mode = "log"
      PROVE  /\ \E n \in Nat : DOMAIN planOf(i) = 1 .. n
             /\ \A j \in DOMAIN planOf(i) : j > 1 => planOf(i)[j].start = planOf(i)[j - 1].end
  <2>1. PICK objects : objects = byStartOffset(i.objects)
    BY Zenon
  <2>2. \/ planOf(i) = <<>>
        \/ planOf(i) = objects /\ \A j \in DOMAIN objects : contiguous(objects, j)
    BY <1>4, <2>1, Zenon DEF planOf, planRemoteLogSegments
  <2>3. CASE planOf(i) = <<>>
    BY <1>3, <2>3
  <2>4. CASE planOf(i) = objects /\ \A j \in DOMAIN objects : contiguous(objects, j)
    BY <1>1, <1>2, <2>1, <2>4 DEF contiguous
  <2> QED
    BY <2>2, <2>3, <2>4, Zenon
<1>5. ASSUME i.mode # "log"
      PROVE  \E n \in Nat : DOMAIN planOf(i) = 1 .. n
  <2>1. planOf(i) = <<>> \/ planOf(i) = i.objects
    BY <1>5, Zenon DEF planOf, validateRemoteSnapshotFiles
  <2> QED
    BY <1>1, <1>3, <2>1, Zenon
<1> QED
    BY <1>4, <1>5, Zenon

\* Before the first job is started.
LEMMA InitFiles == FilesInit => FileInv
<1> SUFFICES ASSUME FilesInit PROVE FileInv
    BY Zenon
<1>1. info \in Infos /\ plan = planOf(info)
    BY Zenon DEF FilesInit
<1>2. /\ \E n \in Nat : Jobs = 1 .. n
      /\ info.mode = "log" => \A j \in Jobs : j > 1 => plan[j].start = plan[j - 1].end
    BY <1>1, PlanFacts, Zenon DEF Jobs
<1>3. FileShapes
    BY <1>2, SMTT(30) DEF FilesInit, FileShapes
<1>4. /\ running = {} /\ completed = <<>> /\ Len(completed) = 0
      /\ \A j \in Jobs : job[j].pc = "new" /\ j >= download.next
    BY <1>2, SMTT(30) DEF FilesInit, running
<1>5. Outstanding = {}
  <2>1. Range(completed) = {}
    BY <1>4 DEF Range
  <2> QED
    BY <1>4, <2>1, Zenon DEF Outstanding
<1>6. ActiveInv
  <2>1. IsFiniteSet(Outstanding) /\ Cardinality(Outstanding) = download.active
    BY <1>5, FS_EmptySet, Zenon DEF FilesInit
  <2>2. completed \in Seq(Jobs)
    BY <1>4
  <2> QED
    BY <1>4, <2>1, <2>2 DEF ActiveInv
<1>7. ErrorInv
    BY <1>4, Zenon DEF ErrorInv
<1>8. ReturnInv
  <2>1. result.returned \in BOOLEAN /\ (result.returned <=> download.pc = "returned")
    BY Zenon DEF FilesInit
  <2>2. result.returned => result.err = {"validation"} /\ \A j \in Jobs : buffer[j] = <<>>
    BY Zenon DEF FilesInit
  <2>3. {"validation"} # NoErr
    BY Zenon DEF NoErr
  <2> QED
    BY <1>2, <1>4, <1>5, <2>1, <2>2, <2>3 DEF ReturnInv, WholeResult
<1> QED
    BY <1>3, <1>6, <1>7, <1>8 DEF FileInv

\* The next job is started.
LEMMA StartFiles ==
    ASSUME FileInv, startReady
    PROVE  FileInv'
<1> USE DEF FileInv
<1>0. PICK n : n = download.next
    BY Zenon
<1>1. /\ n \in Jobs /\ n \in Nat /\ job[n].pc = "new" /\ ~result.returned
      /\ UNCHANGED <<info, plan, adapter, completed, canceled, buffer, result>> /\ Jobs' = Jobs
    BY <1>0 DEF startReady, ready, FileShapes, ActiveInv, ReturnInv, Jobs
<1>2. /\ DOMAIN download' = DOMAIN download /\ download'.next = n + 1 /\ download'.active = download.active + 1
      /\ download'.firstErr = download.firstErr /\ download'.pc = download.pc
    BY <1>0, Zenon DEF startReady, FileShapes
<1>3. /\ DOMAIN job' = Jobs /\ \A j \in Jobs : DOMAIN job'[j] = {"pc", "attempt", "err"}
      /\ job'[n].pc = "reading" /\ \A j \in Jobs : j # n => job'[j] = job[j]
    BY <1>0, <1>1, Zenon DEF startReady, FileShapes
<1>4. FileShapes'
    BY <1>1, <1>2, <1>3 DEF FileShapes
<1>5. Outstanding' = Outstanding \union {n} /\ n \notin Outstanding
  <2>1. n \notin Range(completed)
    BY <1>1 DEF ActiveInv, Range
  <2>2. running' = running \union {n} /\ n \notin running
    BY <1>1, <1>3, Zenon DEF running
  <2> QED
    BY <1>1, <2>1, <2>2, Zenon DEF Outstanding
<1>6. IsFiniteSet(Outstanding') /\ Cardinality(Outstanding') = download'.active
    BY <1>2, <1>5, FS_AddElement DEF ActiveInv
<1>7. \A j \in Jobs : job'[j].pc \in {"new", "reading", "backoff", "ended"} /\ (job'[j].pc = "new" <=> j >= n + 1)
    BY <1>0, <1>1, <1>3 DEF ActiveInv, FileShapes
<1>8. \A m \in 1 .. Len(completed) : completed[m] \in Jobs /\ completed[m] # n
    BY <1>1 DEF ActiveInv
<1>9. ActiveInv'
  <2>1. \A m \in 1 .. Len(completed') : job'[completed'[m]].pc = "ended"
    BY <1>1, <1>3, <1>8, ZenonT(30) DEF ActiveInv
  <2>2. completed' \in Seq(Jobs') /\ \A k, m \in 1 .. Len(completed') : completed'[k] = completed'[m] => k = m
    BY <1>1, Zenon DEF ActiveInv
  <2>3. \A j \in Jobs' : job'[j].pc \in {"new", "reading", "backoff", "ended"} /\ (job'[j].pc = "new" <=> j >= download'.next)
    BY <1>1, <1>2, <1>7, Zenon
  <2> QED
    BY <1>6, <2>1, <2>2, <2>3, Zenon DEF ActiveInv
<1>10. ErrorInv'
  <2>1. \A j \in Jobs : job'[j].pc = "ended" => job'[j] = job[j]
    BY <1>3, Zenon
  <2>2. \A j \in Jobs : bytesOf(j)' = bytesOf(j)
    BY <1>1, Zenon DEF bytesOf, sizeOf
  <2> QED
    BY <1>1, <1>2, <2>1, <2>2, Zenon DEF ErrorInv
<1>11. ReturnInv'
    BY <1>1, <1>2, SMTT(30) DEF ReturnInv, WholeResult
<1> QED
    BY <1>4, <1>9, <1>10, <1>11

\* The read returns when nothing is outstanding: with an error, or after all
\* jobs have ended without one.
LEMMA ReturnFiles ==
    ASSUME FileInv, NEW err, Return(err), download.pc = "start", download.active = 0,
           err = NoErr => download.next \notin Jobs /\ download.firstErr = NoErr
    PROVE  FileInv'
<1> USE DEF FileInv
<1>1. UNCHANGED <<info, plan, adapter, job, completed>> /\ Jobs' = Jobs /\ running' = running /\ Outstanding' = Outstanding
    BY Zenon DEF Return, Jobs, running, Outstanding
<1>2. Outstanding = {} /\ running = {} /\ Range(completed) = {}
  <2>1. Outstanding = {}
    BY FS_EmptySet, Zenon DEF ActiveInv
  <2> QED
    BY <2>1, Zenon DEF Outstanding
<1>3. /\ DOMAIN download' = DOMAIN download /\ download'.next = download.next /\ download'.active = download.active
      /\ download'.firstErr = download.firstErr /\ download'.pc = "returned"
    BY Zenon DEF Return, FileShapes
<1>4. result'.returned = TRUE /\ result'.err = err
    BY Zenon DEF Return
<1>5. FileShapes'
    BY <1>1, <1>3, Zenon DEF FileShapes, Return
<1>6. ActiveInv'
    BY <1>1, <1>3, SMTT(30) DEF ActiveInv
<1>7. ~result.returned
    BY Zenon DEF ReturnInv
<1>8. CASE err = NoErr
  <2>1. \A j \in Jobs : job[j].pc = "ended" /\ job[j].err = NoErr
    <3>1. \A j \in Jobs : j < download.next
      BY <1>8 DEF FileShapes
    <3>2. ASSUME NEW j \in Jobs PROVE job[j].pc = "ended"
      BY <1>2, <3>1 DEF ActiveInv, running, FileShapes
    <3> QED
      BY <1>2, <1>8, <3>2, SMTT(30) DEF ErrorInv
  <2>2. \A j \in Jobs : buffer[j] = bytesOf(j)
    BY <1>7, <2>1, Zenon DEF ErrorInv
  <2>3. buffer = [j \in Jobs |-> bytesOf(j)]
    BY <2>2, Zenon DEF FileShapes
  <2>4. result'.bytes = joined([j \in Jobs |-> bytesOf(j)]) /\ UNCHANGED buffer
    BY <1>8, <2>3, Zenon DEF Return
  <2>5. [j \in Jobs |-> bytesOf(j)]' = [j \in Jobs |-> bytesOf(j)]
    BY <1>1, Zenon DEF bytesOf, sizeOf
  <2>6. ErrorInv'
    BY <1>1, <1>2, <2>1, <2>2, <2>4, SMTT(30) DEF ErrorInv, bytesOf, sizeOf
  <2>7. WholeResult'
    BY <1>1, <1>2, <1>4, <1>8, <2>4, <2>5, Zenon DEF WholeResult, ReturnInv
  <2> QED
    BY <1>1, <1>2, <1>3, <1>4, <1>5, <1>6, <2>6, <2>7, Zenon DEF ReturnInv
<1>9. CASE err # NoErr
  <2>1. \A j \in Jobs : buffer'[j] = <<>>
    BY <1>9, Zenon DEF Return
  <2>2. ErrorInv'
    BY <1>1, <1>3, <1>4, <1>9, SMTT(30) DEF ErrorInv
  <2>3. WholeResult'
    BY <1>1, <1>2, <1>4, <1>9, <2>1 DEF WholeResult
  <2> QED
    BY <1>1, <1>2, <1>3, <1>4, <1>5, <1>6, <2>2, <2>3, Zenon DEF ReturnInv
<1> QED
    BY <1>8, <1>9

\* The scheduler goes to wait, and it hears of the caller's context.
LEMMA WaitFiles ==
    ASSUME FileInv, Await \/ awaitContext
    PROVE  FileInv'
<1> USE DEF FileInv
<1>1. /\ UNCHANGED <<info, plan, adapter, job, completed, buffer, result>> /\ Jobs' = Jobs /\ running' = running
      /\ Outstanding' = Outstanding /\ download.pc # "returned"
    BY Zenon DEF Await, awaitContext, Jobs, running, Outstanding
<1>2. /\ DOMAIN download' = DOMAIN download /\ download'.next = download.next /\ download'.active = download.active
      /\ download.firstErr # NoErr => download'.firstErr # NoErr
      /\ download'.pc \in {"start", "await"}
    BY ZenonT(40) DEF Await, awaitContext, Failed, FileShapes
<1>3. FileShapes' /\ ActiveInv'
    BY <1>1, <1>2 DEF FileShapes, ActiveInv
<1>4. ErrorInv'
    BY <1>1, <1>2, SMTT(30) DEF ErrorInv, bytesOf, sizeOf
<1>5. ReturnInv'
    BY <1>1, <1>2, SMTT(30) DEF ReturnInv, WholeResult
<1> QED
    BY <1>3, <1>4, <1>5

\* The scheduler hears of a job.
LEMMA ResultFiles ==
    ASSUME FileInv, awaitResult
    PROVE  FileInv'
<1> USE DEF FileInv
<1>0. PICK h : h = Head(completed)
    BY Zenon
<1>1. /\ UNCHANGED <<info, plan, adapter, job, buffer, result>> /\ Jobs' = Jobs /\ running' = running
      /\ download.pc = "await" /\ completed # <<>> /\ completed' = Tail(completed)
    BY Zenon DEF awaitResult, Jobs, running
<1>2. /\ DOMAIN download' = DOMAIN download /\ download'.next = download.next /\ download'.active = download.active - 1
      /\ download'.firstErr = IF download.firstErr = NoErr THEN job[h].err ELSE download.firstErr
      /\ download'.pc = "start"
    BY <1>0, Zenon DEF awaitResult, Failed, FileShapes
<1>3. /\ h \in Jobs /\ job[h].pc = "ended" /\ Len(completed) \in Nat /\ Len(completed) > 0 /\ h = completed[1]
      /\ completed' \in Seq(Jobs) /\ Len(completed') = Len(completed) - 1
      /\ \A n \in 1 .. Len(completed') : completed'[n] = completed[n + 1]
    BY <1>0, <1>1, SMTT(30) DEF ActiveInv
<1>4. Range(completed') = Range(completed) \ {h} /\ h \in Range(completed)
  <2>1. DOMAIN completed = 1 .. Len(completed) /\ DOMAIN completed' = 1 .. (Len(completed) - 1)
    BY <1>3, SMTT(30) DEF ActiveInv
  <2>2. \A n \in 1 .. Len(completed) : n = 1 \/ (n - 1 \in 1 .. (Len(completed) - 1) /\ completed'[n - 1] = completed[n])
    BY <1>3
  <2>3. \A n \in 1 .. (Len(completed) - 1) : n + 1 \in 1 .. Len(completed) /\ completed[n + 1] # h
    BY <1>3 DEF ActiveInv
  <2>4. ASSUME NEW x \in Range(completed), x # h PROVE x \in Range(completed')
    <3>1. PICK n \in 1 .. Len(completed) : completed[n] = x
      BY <2>1, <2>4 DEF Range
    <3> QED
      BY <1>3, <2>1, <2>2, <2>4, <3>1, SMTT(30) DEF Range
  <2>5. ASSUME NEW x \in Range(completed') PROVE x \in Range(completed) /\ x # h
    <3>1. PICK n \in 1 .. (Len(completed) - 1) : completed'[n] = x
      BY <2>1, <2>5, Zenon DEF Range
    <3> QED
      BY <1>3, <2>1, <2>3, <3>1, SMTT(30) DEF Range
  <2>6. h \in Range(completed)
    BY <1>3, <2>1 DEF Range
  <2> QED
    BY <2>4, <2>5, <2>6, Zenon
<1>5. Outstanding' = Outstanding \ {h} /\ h \in Outstanding
    BY <1>1, <1>3, <1>4, Zenon DEF Outstanding, running
<1>6. IsFiniteSet(Outstanding') /\ Cardinality(Outstanding') = download'.active
    BY <1>2, <1>5, FS_RemoveElement, Zenon DEF ActiveInv
<1>7. FileShapes'
    BY <1>1, <1>2, Zenon DEF FileShapes
<1>8. ActiveInv'
  <2>1. \A m, n \in 1 .. Len(completed') : completed'[m] = completed'[n] => m = n
    BY <1>3, SMTT(30) DEF ActiveInv
  <2>2. \A n \in 1 .. Len(completed') : job[completed'[n]].pc = "ended"
    BY <1>3, SMTT(30) DEF ActiveInv
  <2> QED
    BY <1>1, <1>2, <1>3, <1>6, <2>1, <2>2, SMTT(30) DEF ActiveInv
<1>9. ErrorInv'
    BY <1>1, <1>2, <1>4, SMTT(30) DEF ErrorInv, bytesOf, sizeOf
<1>10. ReturnInv'
    BY <1>1, <1>2, Zenon DEF ReturnInv, WholeResult
<1> QED
    BY <1>7, <1>8, <1>9, <1>10

\* A job ends: its result is in the channel, and its bytes are in the buffer
\* unless it failed.
LEMMA JobEndsFiles ==
    ASSUME FileInv, NEW j \in Jobs, job[j].pc \in {"reading", "backoff"}, NEW err, JobEnds(j, err),
           UNCHANGED <<info, plan, adapter, download, result>>, buffer' = [k \in Jobs |-> buffer'[k]],
           \A k \in Jobs : k # j => buffer'[k] = buffer[k],
           err = NoErr => buffer'[j] = bytesOf(j)
    PROVE  FileInv'
<1> USE DEF FileInv
<1>1. /\ DOMAIN job' = Jobs /\ \A k \in Jobs : DOMAIN job'[k] = {"pc", "attempt", "err"}
      /\ job'[j].pc = "ended" /\ job'[j].err = err /\ \A k \in Jobs : k # j => job'[k] = job[k]
    BY Zenon DEF JobEnds, FileShapes
<1>2. Jobs' = Jobs /\ \A k \in Jobs : bytesOf(k)' = bytesOf(k)
    BY Zenon DEF Jobs, bytesOf, sizeOf
<1>3. /\ completed' \in Seq(Jobs) /\ Len(completed) \in Nat /\ Len(completed') = Len(completed) + 1
      /\ completed'[Len(completed) + 1] = j /\ \A n \in 1 .. Len(completed) : completed'[n] = completed[n]
    BY DEF JobEnds, ActiveInv
<1>4. \A n \in 1 .. Len(completed) : completed[n] \in Jobs /\ completed[n] # j
    BY DEF ActiveInv
<1>5. Range(completed') = Range(completed) \union {j}
  <2>1. DOMAIN completed = 1 .. Len(completed) /\ DOMAIN completed' = 1 .. (Len(completed) + 1)
    BY <1>3 DEF ActiveInv
  <2>2. ASSUME NEW x \in Range(completed') PROVE x \in Range(completed) \union {j}
    <3>1. PICK n \in 1 .. (Len(completed) + 1) : completed'[n] = x
      BY <2>1, <2>2, Zenon DEF Range
    <3> QED
      BY <1>3, <2>1, <3>1 DEF Range
  <2>3. ASSUME NEW x \in Range(completed) PROVE x \in Range(completed')
    <3>1. PICK n \in 1 .. Len(completed) : completed[n] = x
      BY <2>1, <2>3, Zenon DEF Range
    <3> QED
      BY <1>3, <2>1, <3>1 DEF Range
  <2>4. j \in Range(completed')
    BY <1>3, <2>1 DEF Range
  <2> QED
    BY <2>2, <2>3, <2>4
<1>6. j \in running /\ running' = running \ {j}
    BY <1>1, <1>2, Zenon DEF running
<1>7. Outstanding' = Outstanding
    BY <1>5, <1>6 DEF Outstanding
<1>8. ~result.returned
    BY <1>6, Zenon DEF ReturnInv, Outstanding
<1>9. FileShapes'
    BY <1>1, <1>2 DEF FileShapes
<1>10. ActiveInv'
  <2>1. \A n \in 1 .. Len(completed') : job'[completed'[n]].pc = "ended"
    BY <1>1, <1>3, <1>4, SMTT(30) DEF ActiveInv
  <2>2. \A m, n \in 1 .. Len(completed') : completed'[m] = completed'[n] => m = n
    BY <1>3, <1>4, SMTT(30) DEF ActiveInv
  <2>3. \A k \in Jobs : job'[k].pc \in {"new", "reading", "backoff", "ended"} /\ (job'[k].pc = "new" <=> k >= download'.next)
    BY <1>1 DEF ActiveInv
  <2> QED
    BY <1>2, <1>3, <1>7, <2>1, <2>2, <2>3, SMTT(30) DEF ActiveInv
<1>11. ErrorInv'
  <2>1. ASSUME NEW k \in Jobs, job'[k].pc = "ended", job'[k].err = NoErr PROVE buffer'[k] = bytesOf(k)
    BY <1>1, <1>8, <2>1 DEF ErrorInv
  <2>2. ASSUME NEW k \in Jobs, job'[k].pc = "ended", job'[k].err # NoErr, k \notin Range(completed')
        PROVE  download.firstErr # NoErr
    BY <1>1, <1>5, <2>2 DEF ErrorInv
  <2> QED
    BY <1>2, <2>1, <2>2, SMTT(30) DEF ErrorInv
<1>12. ReturnInv'
    BY <1>2, <1>7, <1>8, SMTT(30) DEF ReturnInv, WholeResult
<1> QED
    BY <1>9, <1>10, <1>11, <1>12, Zenon

\* A job goes to wait for its next attempt, or begins it.
LEMMA JobStaysFiles ==
    ASSUME FileInv, NEW j \in Jobs, job[j].pc \in {"reading", "backoff"},
           UNCHANGED <<info, plan, adapter, download, completed, result>>, buffer' = [k \in Jobs |-> buffer'[k]],
           \A k \in Jobs : k # j => buffer'[k] = buffer[k],
           DOMAIN job' = Jobs, \A k \in Jobs : DOMAIN job'[k] = {"pc", "attempt", "err"},
           job'[j].pc \in {"reading", "backoff"}, \A k \in Jobs : k # j => job'[k] = job[k]
    PROVE  FileInv'
<1> USE DEF FileInv
<1>1. Jobs' = Jobs /\ \A k \in Jobs : bytesOf(k)' = bytesOf(k)
    BY Zenon DEF Jobs, bytesOf, sizeOf
<1>2. j \in running /\ running' = running
    BY <1>1, Zenon DEF running
<1>3. Outstanding' = Outstanding /\ ~result.returned
    BY <1>2, Zenon DEF Outstanding, ReturnInv
<1>4. FileShapes'
    BY <1>1, Zenon DEF FileShapes
<1>5. ActiveInv'
  <2>1. \A n \in 1 .. Len(completed) : completed[n] \in Jobs /\ completed[n] # j
    BY DEF ActiveInv
  <2>2. \A n \in 1 .. Len(completed') : job'[completed'[n]].pc = "ended"
    BY <2>1 DEF ActiveInv
  <2>3. \A k \in Jobs : job'[k].pc \in {"new", "reading", "backoff", "ended"} /\ (job'[k].pc = "new" <=> k >= download'.next)
    BY DEF ActiveInv
  <2> QED
    BY <1>1, <1>3, <2>2, <2>3 DEF ActiveInv
<1>6. ErrorInv'
  <2>1. ASSUME NEW k \in Jobs, job'[k].pc = "ended" PROVE k # j /\ job'[k] = job[k] /\ buffer'[k] = buffer[k]
    BY <2>1, Zenon
  <2> QED
    BY <1>1, <2>1 DEF ErrorInv
<1>7. ReturnInv'
    BY <1>1, <1>3, SMTT(30) DEF ReturnInv, WholeResult
<1> QED
    BY <1>4, <1>5, <1>6, <1>7

\* The steps of a job.
LEMMA JobFiles ==
    ASSUME FileInv, NEW j \in Jobs,
           AttemptReads(j) \/ BackoffEnds(j) \/ (\E err \in attemptErrors(j) : AttemptFails(j, err))
    PROVE  FileInv'
<1>0. /\ buffer = [k \in Jobs |-> buffer[k]]
      /\ DOMAIN job = Jobs /\ \A k \in Jobs : DOMAIN job[k] = {"pc", "attempt", "err"}
    BY Zenon DEF FileInv, FileShapes
<1>1. CASE AttemptReads(j)
  <2>1. /\ job[j].pc = "reading" /\ JobEnds(j, NoErr) /\ UNCHANGED <<info, plan, adapter, download, result>>
        /\ buffer' = [buffer EXCEPT ![j] = bytesOf(j)]
    BY <1>1, Zenon DEF AttemptReads
  <2>2. /\ buffer' = [k \in Jobs |-> buffer'[k]] /\ buffer'[j] = bytesOf(j)
        /\ \A k \in Jobs : k # j => buffer'[k] = buffer[k]
    BY <1>0, <2>1, Zenon
  <2> QED
    BY <2>1, <2>2, JobEndsFiles, Zenon
<1>2. CASE BackoffEnds(j)
  <2>1. /\ job[j].pc = "backoff" /\ UNCHANGED <<info, plan, adapter, download, buffer, result>>
    BY <1>2, Zenon DEF BackoffEnds
  <2>2. CASE JobEnds(j, {"canceled"})
    <3>1. {"canceled"} # NoErr
      BY Zenon DEF NoErr
    <3> QED
      BY <1>0, <2>1, <2>2, <3>1, JobEndsFiles
  <2>3. CASE job' = [job EXCEPT ![j].pc = "reading", ![j].attempt = @ + 1] /\ UNCHANGED completed
    <3>1. /\ DOMAIN job' = Jobs /\ \A k \in Jobs : DOMAIN job'[k] = {"pc", "attempt", "err"}
          /\ job'[j].pc = "reading" /\ \A k \in Jobs : k # j => job'[k] = job[k]
      BY <1>0, <2>3
    <3> QED
      BY <1>0, <2>1, <2>3, <3>1, JobStaysFiles
  <2> QED
    BY <1>2, <2>2, <2>3 DEF BackoffEnds
<1>3. ASSUME NEW err \in attemptErrors(j), AttemptFails(j, err) PROVE FileInv'
  <2>1. /\ job[j].pc = "reading" /\ UNCHANGED <<info, plan, adapter, download, result>>
        /\ buffer' = [buffer EXCEPT ![j] = <<>>]
    BY <1>3, Zenon DEF AttemptFails
  <2>2. /\ buffer' = [k \in Jobs |-> buffer'[k]]
        /\ \A k \in Jobs : k # j => buffer'[k] = buffer[k]
    BY <1>0, <2>1
  <2>3. err # NoErr /\ {"canceled"} # NoErr
    <3>1. {"canceled"} # NoErr
      BY Zenon DEF NoErr
    <3>2. \A fault \in Faults : fault # NoErr
      BY FilesAssumption DEF NoErr
    <3>3. PICK opened : opened = OpenRemoteFile(requestOf(j), plan[j].stored)
      BY Zenon
    <3>4. err \in (IF opened = NoErr THEN {} ELSE {opened}) \union Faults
                 \union (IF "run" \in canceled THEN {{"canceled"}} ELSE {})
      BY <1>3, <3>3, Zenon DEF attemptErrors
    <3> HIDE DEF NoErr
    <3> QED
      BY <3>1, <3>2, <3>4
  <2>4. CASE \E cause : cause # NoErr /\ JobEnds(j, cause)
    BY <2>1, <2>2, <2>4, JobEndsFiles, Zenon
  <2>5. CASE job' = [job EXCEPT ![j].pc = "backoff"] /\ UNCHANGED completed
    <3>1. /\ DOMAIN job' = Jobs /\ \A k \in Jobs : DOMAIN job'[k] = {"pc", "attempt", "err"}
          /\ job'[j].pc = "backoff" /\ \A k \in Jobs : k # j => job'[k] = job[k]
      BY <1>0, <2>5
    <3> QED
      BY <2>1, <2>2, <2>5, <3>1, JobStaysFiles, Zenon
  <2> QED
    BY <1>3, <2>3, <2>4, <2>5 DEF AttemptFails
<1> QED
    BY <1>1, <1>2, <1>3

\* Every step of the scheduler, of the jobs and of the caller's context.
LEMMA NextFiles == FileInv /\ [FilesNext]_fileVars => FileInv'
<1> SUFFICES ASSUME FileInv, [FilesNext]_fileVars PROVE FileInv'
    BY Zenon
<1>1. CASE startReady
    BY <1>1, StartFiles
<1>2. CASE idleError \/ AllDone
  <2>1. PICK err : /\ Return(err) /\ download.pc = "start" /\ download.active = 0
                   /\ err = NoErr => download.next \notin Jobs /\ download.firstErr = NoErr
    BY <1>2, Zenon DEF idleError, AllDone, NoErr
  <2> QED
    BY <2>1, ReturnFiles
<1>3. CASE Await \/ awaitContext
    BY <1>3, WaitFiles
<1>4. CASE awaitResult
    BY <1>4, ResultFiles
<1>5. CASE UNCHANGED <<info, plan, adapter, download, job, completed, buffer, result>>
  <2>1. Jobs' = Jobs /\ running' = running /\ Outstanding' = Outstanding /\ \A k \in Jobs : bytesOf(k)' = bytesOf(k)
    BY <1>5, Zenon DEF Jobs, running, Outstanding, bytesOf, sizeOf
  <2>2. [k \in Jobs |-> bytesOf(k)]' = [k \in Jobs |-> bytesOf(k)]
    BY <1>5, Zenon DEF Jobs, bytesOf, sizeOf
  <2>3. joined([k \in Jobs |-> bytesOf(k)])' = joined([k \in Jobs |-> bytesOf(k)])
    BY ONLY <2>2, Zenon
  <2>4. WholeResult
    BY Zenon DEF FileInv, ReturnInv
  <2>5. WholeResult'
    <3>1. ASSUME result'.returned PROVE running' = {}
      BY <1>5, <2>1, <2>4, <3>1, Zenon DEF WholeResult
    <3>2. ASSUME result'.returned, result'.err = NoErr
          PROVE  /\ result'.bytes = joined([k \in Jobs |-> bytesOf(k)])'
                 /\ info'.mode = "log" => \A k \in Jobs' : k > 1 => plan'[k].start = plan'[k - 1].end
      BY <1>5, <2>1, <2>3, <2>4, <3>2, Zenon DEF WholeResult
    <3>3. ASSUME result'.returned, result'.err # NoErr PROVE \A k \in Jobs' : buffer'[k] = <<>>
      BY <1>5, <2>1, <2>4, <3>3, Zenon DEF WholeResult
    <3> QED
      BY <3>1, <3>2, <3>3, Zenon DEF WholeResult, NoErr
  <2> QED
    BY <1>5, <2>1, <2>5, SMTT(30) DEF FileInv, FileShapes, ActiveInv, ErrorInv, ReturnInv
<1>6. ASSUME NEW j \in Jobs,
             AttemptReads(j) \/ BackoffEnds(j) \/ (\E err \in attemptErrors(j) : AttemptFails(j, err))
      PROVE  FileInv'
    BY <1>6, JobFiles, Zenon
<1> QED
    BY <1>1, <1>2, <1>3, <1>4, <1>5, <1>6 DEF FilesNext, ReadStep, CancelRead, FilesIdle, fileVars

\* A read of remote objects returns every byte, in the order of the objects and
\* without a gap, or none; and when it has returned no goroutine is left that
\* writes to the result: for any number of objects, attempts and errors, any
\* limits, and whenever the caller's context ends.
THEOREM AllBytesOrNone == FilesSpec => []WholeResult
<1>1. FileInv => WholeResult
    BY Zenon DEF FileInv, ReturnInv
<1> QED
    BY <1>1, InitFiles, NextFiles, PTL DEF FilesSpec
=============================================================================
