---------------------------- MODULE SecurityTokens ----------------------------
(***************************************************************************)
(* The client's manager of filesystem tokens: one goroutine that acquires  *)
(* a token, hands it to the receivers one after the other, publishes it    *)
(* and sleeps until it is to be renewed; callers of Start, Stop and        *)
(* Current; and receivers, which may return, fail, never return, or stop   *)
(* the manager from inside the callback.  Time is counted in ticks of a    *)
(* clock and is relative: a token is the time it has left, the goroutine's *)
(* timer the time until it fires.                                          *)
(***************************************************************************)
EXTENDS Integers, FiniteSets

CONSTANTS
    Stoppers,      \* calls of Stop; "callback" is one made by a receiver
    NumReceivers,
    MaxLife,       \* bound: the longest lifetime of a token
    MaxFailures,   \* bound: failures are counted up to here, where the backoff is capped
    ClockSkew,
    RenewalRetryBackoff,
    MaxRenewalRetryBackoff,
    RatioPercent,  \* RenewalTimeRatio in percent
    Factors        \* the factors of the jitter in percent

\* What normalized accepts: a ratio between 0 and 1 and a jitter of at most 1, so that
\* a delay is multiplied by 0 to 2.
ASSUME TokenAssumption ==
    /\ NumReceivers \in Nat /\ MaxLife \in Nat /\ ClockSkew \in Nat
    /\ RatioPercent \in 1 .. 99 /\ RenewalRetryBackoff \in Nat \ {0}
    /\ MaxRenewalRetryBackoff \in Nat /\ MaxRenewalRetryBackoff >= RenewalRetryBackoff
    /\ MaxFailures \in 1 .. 30 /\ RenewalRetryBackoff * 2 ^ (MaxFailures - 1) >= MaxRenewalRetryBackoff
    /\ Factors \subseteq 0 .. 200

VARIABLES
    manager,   \* current, available, disabled, failures; started, stopped, canceled, done
    loop,      \* run: where it is, its timer and the factor of its jitter, the token and
               \* the receiver at hand
    callback,  \* the receiver's call that run waits for, or has abandoned
    stop,      \* stop[s]: where the call of Stop is
    holds      \* history: whether a receiver last holds the manager's current token,
               \* the "next" one that is being published, or an "other" one

tokenVars == <<manager, loop, callback, stop, holds>>

Never == -1

Tokens == {[left |-> l, revoked |-> FALSE] : l \in {Never} \union 0 .. MaxLife} \union {[left |-> Never, revoked |-> TRUE]}

NoToken == [left |-> Never, revoked |-> TRUE]

Receivers == 1 .. NumReceivers

TokenInit ==
    /\ manager = [current |-> NoToken, available |-> FALSE, disabled |-> FALSE, failures |-> 0,
                  started |-> FALSE, stopped |-> FALSE, canceled |-> FALSE, done |-> FALSE]
    /\ loop = [pc |-> "new", timer |-> 0, armed |-> FALSE, factor |-> 100, token |-> NoToken, receiver |-> 1]
    /\ callback = "none" /\ stop = [s \in Stoppers |-> "idle"]
    /\ holds = [r \in Receivers |-> "other"]

-----------------------------------------------------------------------------
(* Start, Stop and Current *)

Start ==
    /\ ~manager.started /\ ~manager.stopped
    /\ manager' = [manager EXCEPT !.started = TRUE]
    /\ loop' = [loop EXCEPT !.pc = "waiting"]
    /\ UNCHANGED <<callback, stop, holds>>

\* The first Stop cancels the context of run, or closes done when there is no run;
\* every Stop then waits for done.
Stop(s) ==
    /\ stop[s] = "idle" /\ (s = "callback" => callback = "running")
    /\ stop' = [stop EXCEPT ![s] = "waiting"]
    /\ manager' = IF manager.stopped THEN manager
                  ELSE [manager EXCEPT !.stopped = TRUE, !.canceled = @ \/ manager.started, !.done = @ \/ ~manager.started]
    /\ UNCHANGED <<loop, callback, holds>>

StopReturns(s) ==
    /\ stop[s] = "waiting" /\ manager.done
    /\ stop' = [stop EXCEPT ![s] = "returned"]
    /\ UNCHANGED <<manager, loop, callback, holds>>

\* Whether a token has expired when the clock has gone on by a delay.
tokenExpired(token, delay) == token.left # Never /\ token.left - delay <= ClockSkew

\* What Current returns after a delay: a set with the token, or the empty set.
Current(delay) == IF manager.available /\ ~tokenExpired(manager.current, delay) THEN {manager.current} ELSE {}

-----------------------------------------------------------------------------
(* run *)

jitter(delay, factor) == (delay * factor) \div 100

\* Mutant: the backoff is not capped.
failedDelayUncapped(failures) == RenewalRetryBackoff * 2 ^ (failures - 1)

failedDelay(failures) ==
    LET exponent == IF failures - 1 > 30 THEN 30 ELSE failures - 1
        delay == RenewalRetryBackoff * 2 ^ exponent
    IN  IF delay > MaxRenewalRetryBackoff THEN MaxRenewalRetryBackoff ELSE delay

\* Mutant: the clock skew is not taken off the lifetime.
renewalDelaySkewed(left) == (left * RatioPercent) \div 100

renewalDelay(left) ==
    LET lifetime == left - ClockSkew
    IN  IF lifetime <= 0 THEN RenewalRetryBackoff ELSE (lifetime * RatioPercent) \div 100

Sleep(delay, factor) ==
    LET d == jitter(delay, factor)
    IN  loop' = [pc |-> "waiting", timer |-> d, armed |-> d > 0, factor |-> factor, token |-> NoToken, receiver |-> 1]

\* A failure; receivers that have the token already keep it.
Fail(factor) ==
    LET failures == IF manager.failures = MaxFailures THEN MaxFailures ELSE manager.failures + 1
    IN  /\ manager' = [manager EXCEPT !.failures = failures]
        /\ Sleep(failedDelay(failures), factor)
        /\ holds' = [r \in Receivers |-> IF holds[r] = "next" THEN "other" ELSE holds[r]]

RunEnds(m) == loop' = [loop EXCEPT !.pc = "ended"] /\ manager' = [m EXCEPT !.done = TRUE]

\* The timer fires or the context is done, and either may win; a delay of zero arms
\* no timer and looks at the context.
waitSecurityToken ==
    /\ loop.pc = "waiting"
    /\ \/ loop.timer = 0 /\ (manager.canceled => loop.armed) /\ loop' = [loop EXCEPT !.pc = "acquiring"] /\ UNCHANGED manager
       \/ manager.canceled /\ RunEnds(manager)
    /\ UNCHANGED <<callback, stop, holds>>

validateSecurityToken(token) == ~token.revoked => ~tokenExpired(token, 0)

\* The provider returns a token, which goes to the first receiver if it is valid.
Acquired(token, factor) ==
    /\ loop.pc = "acquiring"
    /\ IF validateSecurityToken(token)
         THEN loop' = [loop EXCEPT !.pc = "publishing", !.token = token] /\ UNCHANGED <<manager, holds>>
         ELSE Fail(factor)
    /\ UNCHANGED <<callback, stop>>

\* The provider fails, because of the context also, or reports that it is disabled.
AcquireFails(factor) ==
    /\ loop.pc = "acquiring" /\ Fail(factor)
    /\ UNCHANGED <<callback, stop>>

disable ==
    /\ loop.pc = "acquiring"
    /\ RunEnds([manager EXCEPT !.current = NoToken, !.available = FALSE, !.disabled = TRUE])
    /\ UNCHANGED <<callback, stop, holds>>

\* publish calls the next receiver, in a goroutine of its own.
callSecurityTokenReceiver ==
    /\ loop.pc = "publishing" /\ loop.receiver <= NumReceivers
    /\ IF manager.canceled
         THEN RunEnds(manager) /\ UNCHANGED callback
         ELSE loop' = [loop EXCEPT !.pc = "receiving"] /\ callback' = "running" /\ UNCHANGED manager
    /\ UNCHANGED <<stop, holds>>

\* The receiver: it returns, or panics, unless it waits for its own Stop.
ReceiverReturns(ok) ==
    /\ callback = "running" /\ ("callback" \in Stoppers => stop["callback"] # "waiting")
    /\ callback' = IF loop.pc = "receiving" THEN IF ok THEN "ok" ELSE "failed" ELSE "none"
    /\ UNCHANGED <<manager, loop, stop, holds>>

NextReceiver == loop' = [loop EXCEPT !.pc = "publishing", !.receiver = @ + 1] /\ UNCHANGED manager

\* Mutant: the error of a receiver is ignored.
ReceivedAnyway(factor) ==
    /\ loop.pc = "receiving" /\ callback \in {"ok", "failed"} /\ callback' = "none"
    /\ NextReceiver /\ holds' = IF callback = "ok" THEN [holds EXCEPT ![loop.receiver] = "next"] ELSE holds
    /\ UNCHANGED stop

\* The result of the receiver is taken.  When the context is done by then, an error
\* ends run.
Received(factor) ==
    /\ loop.pc = "receiving" /\ callback \in {"ok", "failed"} /\ callback' = "none"
    /\ \/ /\ callback = "ok" /\ NextReceiver /\ holds' = [holds EXCEPT ![loop.receiver] = "next"]
       \/ callback = "failed" /\ manager.canceled /\ RunEnds(manager) /\ UNCHANGED holds
       \/ callback = "failed" /\ ~manager.canceled /\ Fail(factor)
    /\ UNCHANGED stop

\* Mutant: the result of a receiver is awaited although the manager is stopped.
AbandonReceiverNot == FALSE /\ UNCHANGED tokenVars

\* The context is done first: run ends and leaves the callback behind.
AbandonReceiver ==
    /\ loop.pc = "receiving" /\ manager.canceled /\ RunEnds(manager)
    /\ callback' = IF callback = "running" THEN "running" ELSE "none"
    /\ UNCHANGED <<stop, holds>>

\* Every receiver holds the token: it becomes the current one, and the next
\* renewal is planned.  A token that does not expire ends run.
published(token) ==
    [manager EXCEPT !.current = IF token.revoked THEN NoToken ELSE token, !.available = ~token.revoked, !.failures = 0]

Publish(factor) ==
    /\ loop.pc = "publishing" /\ loop.receiver > NumReceivers
    /\ LET m == published(loop.token) IN
         IF ~loop.token.revoked /\ loop.token.left = Never
           THEN RunEnds(m)
           ELSE /\ manager' = m
                /\ Sleep(IF loop.token.revoked THEN RenewalRetryBackoff ELSE renewalDelay(loop.token.left), factor)
    /\ holds' = [r \in Receivers |-> IF holds[r] = "next" THEN "current" ELSE "other"]
    /\ UNCHANGED <<callback, stop>>

-----------------------------------------------------------------------------
after(left) == IF left > 0 THEN left - 1 ELSE left

\* The clock; run does not oversleep: it wakes before the next tick when its timer is
\* due or its context done.
Tick ==
    /\ loop.pc = "waiting" => loop.timer > 0 /\ ~manager.canceled
    /\ manager' = [manager EXCEPT !.current.left = after(@)]
    /\ loop' = [loop EXCEPT !.token.left = after(@), !.timer = after(@)]
    /\ UNCHANGED <<callback, stop, holds>>

\* The steps of run and Stop that depend on nobody: the provider, which is called with
\* the context, returns at the latest when that is done.
ManagerStep ==
    \/ \E s \in Stoppers : StopReturns(s)
    \/ \E f \in Factors : Received(f) \/ Publish(f)
    \/ waitSecurityToken \/ callSecurityTokenReceiver \/ AbandonReceiver
    \/ manager.canceled /\ \E f \in Factors : AcquireFails(f)

TokenNext ==
    \/ ManagerStep \/ Start \/ Tick \/ disable
    \/ \E s \in Stoppers : Stop(s)
    \/ \E f \in Factors : AcquireFails(f) \/ \E token \in Tokens : Acquired(token, f)
    \/ \E ok \in BOOLEAN : ReceiverReturns(ok)

TokenSpec == TokenInit /\ [][TokenNext]_tokenVars

TokenFairness == WF_tokenVars(ManagerStep)

TokenFairSpec == TokenSpec /\ TokenFairness

-----------------------------------------------------------------------------
\* The receivers and Current agree: unless an acquisition failed since, each receiver
\* accepted the token that Current returns, and only receivers that the publication
\* has passed have the next one.
ReceiversAgree ==
    manager.available /\ manager.failures = 0 => \A r \in Receivers :
        holds[r] = "current" \/ (holds[r] = "next" /\ r < loop.receiver)

\* A jitter that leaves the ratio of a lifetime below the whole of it.
belowLifetime(factor) == RatioPercent * factor < 10000

\* Renewal keeps up with expiry: after a publication run wakes before the token it
\* published lapses, or that lapsed while it was published, unless the jitter stretched
\* the ratio of the lifetime to the whole of it, which normalized does not exclude.
\* After failures it wakes within the longest backoff, jittered.
RenewsInTime ==
    loop.pc = "waiting" =>
        /\ manager.failures = 0 /\ Current(0) # {} /\ belowLifetime(loop.factor) => Current(loop.timer) # {}
        /\ manager.failures > 0 => loop.timer <= jitter(MaxRenewalRetryBackoff, loop.factor)

\* Whoever waits in Stop returns: also when it races Start, when a receiver never
\* returns, and when a receiver calls it.
StopEnds == (\E s \in Stoppers : stop[s] = "waiting") ~> (\A s \in Stoppers : stop[s] # "waiting")
===============================================================================
