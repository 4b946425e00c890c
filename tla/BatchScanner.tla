----------------------------- MODULE BatchScanner -----------------------------
(***************************************************************************)
(* A bounded scan of one bucket: goroutines that call Poll, one that calls *)
(* Close, and the server.  A primary-key bucket is read through a server   *)
(* session: it is opened by the first request, which is answered with its  *)
(* ID, every later request names the ID and a call sequence, and Close     *)
(* releases it.  A log bucket is read by one LIMIT_SCAN, a snapshot        *)
(* through a provider's reader.  A row is its position in the result.      *)
(***************************************************************************)
EXTENDS Integers, Sequences, FiniteSets, Functions

CONSTANTS
    Pollers,     \* goroutines that call Poll until it reports Done
    NumRows,     \* rows of a bucket that is not empty
    BatchRows,   \* rows per answer of a session or a reader
    Nobody

ASSUME ScanAssumption ==
    /\ NumRows \in Nat \ {0} /\ BatchRows \in Nat \ {0}
    /\ Nobody \notin Pollers \union {"closer"} /\ "closer" \notin Pollers

VARIABLES
    kind,       \* "session", "limit" or "snapshot"
    total,      \* the rows of the bucket
    polls,      \* polls[p]: where the goroutine is, and the answer it has
    closer,     \* where Close is, and what it returned
    pollMu,     \* the holder of pollMu
    scanner,    \* the fields of the BatchScanner: known scannerID, sequence, done, closed
    session,    \* server: whether the session is open, its position and call sequence
    scanned,    \* the rows Poll returned, in order
    lost        \* history: rows of answers that could not be decoded or were refused

scanVars == <<kind, total, polls, closer, pollMu, scanner, session, scanned, lost>>

NoAnswer == [rows |-> <<>>, id |-> FALSE, more |-> FALSE]

ScanInit ==
    /\ kind \in {"session", "limit", "snapshot"} /\ total \in {0, NumRows}
    /\ polls = [p \in Pollers |-> [pc |-> "idle", answer |-> NoAnswer, err |-> FALSE]]
    /\ closer = [pc |-> "idle", err |-> FALSE] /\ pollMu = Nobody
    /\ scanner = [known |-> FALSE, sequence |-> 0, done |-> FALSE, closed |-> FALSE]
    /\ session = [open |-> FALSE, at |-> 0, sequence |-> 0]
    /\ scanned = <<>> /\ lost = {}

-----------------------------------------------------------------------------
(* The server and, for snapshots, the reader *)

Rows(from, count) == [n \in 1 .. (IF from + count > total THEN total - from ELSE count) |-> from + n]

\* A session is opened with its first batch; an empty bucket gets none.  A request
\* with another call sequence, or for a session that is gone, is refused, and the
\* last batch closes the session.
ServeSession(p) ==
    /\ kind = "session" /\ polls[p].pc = "sent"
    /\ LET at == IF scanner.known THEN session.at ELSE 0
           rows == Rows(at, BatchRows)
           more == at + Len(rows) < total
       IN  /\ scanner.known => session.open /\ session.sequence = scanner.sequence
           /\ session' = [open |-> more, at |-> at + Len(rows), sequence |-> scanner.sequence + 1]
           /\ polls' = [polls EXCEPT ![p].pc = "answered", ![p].answer = [rows |-> rows, id |-> total > 0, more |-> more]]
    /\ UNCHANGED <<kind, total, closer, pollMu, scanner, scanned, lost>>

\* LIMIT_SCAN answers at once; a reader returns its next batch, the last with EOF.
ServeRows(p) ==
    /\ kind # "session" /\ polls[p].pc = "sent"
    /\ LET rows == IF kind = "limit" THEN Rows(0, total) ELSE Rows(session.at, BatchRows)
       IN  /\ session' = IF kind = "limit" THEN session ELSE [session EXCEPT !.at = @ + Len(rows)]
           /\ polls' = [polls EXCEPT ![p].pc = "answered",
                         ![p].answer = [rows |-> rows, id |-> FALSE, more |-> kind = "snapshot" /\ session'.at < total]]
    /\ UNCHANGED <<kind, total, closer, pollMu, scanner, scanned, lost>>

-----------------------------------------------------------------------------
(* Poll *)

LockPoll(p) ==
    /\ polls[p].pc = "idle" /\ pollMu = Nobody
    /\ IF scanner.closed \/ scanner.done
         THEN polls' = [polls EXCEPT ![p] = [pc |-> "over", answer |-> NoAnswer, err |-> scanner.closed]] /\ UNCHANGED pollMu
         ELSE polls' = [polls EXCEPT ![p] = [pc |-> "sent", answer |-> NoAnswer, err |-> FALSE]] /\ pollMu' = p
    /\ UNCHANGED <<kind, total, closer, scanner, session, scanned, lost>>

Unlock(p, err) ==
    polls' = [polls EXCEPT ![p] = [pc |-> "idle", answer |-> NoAnswer, err |-> err]] /\ pollMu' = Nobody

\* Mutant: a batch that is not the last ends the scan.
isLastAlways(answer) == TRUE

isLast(answer) == ~answer.more

\* A session's answer is valid: the scanner moves on before it decodes the rows.
PollSession(p, decoded) ==
    /\ kind = "session" /\ polls[p].pc = "answered"
    /\ LET a == polls[p].answer IN
         IF ~a.id THEN /\ scanner' = [scanner EXCEPT !.done = TRUE]
                       /\ Unlock(p, FALSE) /\ UNCHANGED <<scanned, lost>>
         ELSE /\ scanner' = [scanner EXCEPT !.known = TRUE, !.sequence = @ + 1, !.done = decoded /\ isLast(a)]
              /\ scanned' = IF decoded THEN scanned \o a.rows ELSE scanned
              /\ lost' = IF decoded THEN lost ELSE lost \union Range(a.rows)
              /\ Unlock(p, ~decoded)
    /\ UNCHANGED <<kind, total, closer, session>>

\* LIMIT_SCAN ends the scan if its rows were decoded, and is asked again if not; a
\* reader's EOF ends it.  A reader's batch above the limit is refused, and as the
\* reader has moved on, a later Poll does not return its rows.
PollRows(p, taken) ==
    /\ kind # "session" /\ polls[p].pc = "answered"
    /\ kind = "snapshot" /\ ~taken => polls[p].answer.rows # <<>>
    /\ scanner' = [scanner EXCEPT !.done = taken /\ isLast(polls[p].answer)]
    /\ scanned' = IF taken THEN scanned \o polls[p].answer.rows ELSE scanned
    /\ lost' = IF kind = "snapshot" /\ ~taken THEN lost \union Range(polls[p].answer.rows) ELSE lost
    /\ Unlock(p, ~taken)
    /\ UNCHANGED <<kind, total, closer, session>>

PollAnswered(p, decoded) == PollSession(p, decoded) \/ PollRows(p, decoded)

\* The request or its answer is lost, refused or timed out: nothing is stored.
\* (A reader that fails returns no rows and keeps its position.)
PollFails(p) ==
    /\ polls[p].pc = "sent" \/ (polls[p].pc = "answered" /\ kind # "snapshot")
    /\ Unlock(p, TRUE)
    /\ UNCHANGED <<kind, total, closer, scanner, session, scanned, lost>>

\* Mutant: Close does not cancel the polls.
PollCanceledNot(p) == FALSE /\ UNCHANGED scanVars

\* Close canceled the context that every poll runs under.
PollCanceled(p) == scanner.closed /\ PollFails(p)

-----------------------------------------------------------------------------
(* Close *)

CloseScanner ==
    /\ closer.pc = "idle" /\ scanner' = [scanner EXCEPT !.closed = TRUE]
    /\ closer' = [closer EXCEPT !.pc = IF kind = "snapshot" THEN "returned" ELSE "lock"]
    /\ UNCHANGED <<kind, total, polls, pollMu, session, scanned, lost>>

\* Mutant: the session is released without waiting for an active poll.
CloseSessionAtOnce ==
    /\ closer.pc = "lock"
    /\ closer' = [closer EXCEPT !.pc = IF scanner.known /\ ~scanner.done THEN "release" ELSE "returned"]
    /\ pollMu' = IF closer'.pc = "release" THEN "closer" ELSE pollMu
    /\ UNCHANGED <<kind, total, polls, scanner, session, scanned, lost>>

\* With pollMu held no poll is active: the session is released if there is one.
CloseSession ==
    /\ closer.pc = "lock" /\ pollMu = Nobody
    /\ closer' = [closer EXCEPT !.pc = IF scanner.known /\ ~scanner.done THEN "release" ELSE "returned"]
    /\ pollMu' = IF closer'.pc = "release" THEN "closer" ELSE pollMu
    /\ UNCHANGED <<kind, total, polls, scanner, session, scanned, lost>>

\* The release is answered, or refused, lost or timed out after five seconds.
SessionReleased(ok) ==
    /\ closer.pc = "release"
    /\ ok => session.open
    /\ session' = IF ok THEN [session EXCEPT !.open = FALSE] ELSE session
    /\ closer' = [pc |-> "returned", err |-> ~ok] /\ pollMu' = Nobody
    /\ UNCHANGED <<kind, total, polls, scanner, scanned, lost>>

-----------------------------------------------------------------------------
ScanFinished ==
    /\ closer.pc = "returned" /\ \A p \in Pollers : polls[p].pc = "over"
    /\ UNCHANGED scanVars

\* What the scanner's own goroutines do; the rest is up to the server.
ScannerStep ==
    \/ \E p \in Pollers : LockPoll(p) \/ PollAnswered(p, TRUE) \/ PollCanceled(p)
    \/ CloseSession \/ SessionReleased(FALSE)

ScanNext ==
    \/ ScannerStep \/ CloseScanner \/ SessionReleased(TRUE)
    \/ \E p \in Pollers : ServeSession(p) \/ ServeRows(p) \/ PollAnswered(p, FALSE) \/ PollFails(p)
    \/ ScanFinished

ScanSpec == ScanInit /\ [][ScanNext]_scanVars

ScanFairness == WF_scanVars(ScannerStep)

ScanFairSpec == ScanSpec /\ ScanFairness

-----------------------------------------------------------------------------
ScanTypeOK ==
    /\ scanner.sequence \in Nat /\ pollMu \in Pollers \union {"closer", Nobody}
    /\ \A p \in Pollers : polls[p].pc \in {"idle", "sent", "answered", "over"}
    /\ (\E p \in Pollers : polls[p].pc \in {"sent", "answered"}) => pollMu \notin {Nobody, "closer"}

\* The rows that Poll returns, over all goroutines and through lost, refused and
\* undecodable answers, are in order and without a repetition, and when the scan
\* is done they are all the rows except those a Poll reported an error for.
ScanExact ==
    /\ \A m, n \in DOMAIN scanned : m < n => scanned[m] < scanned[n]
    /\ scanner.done => Range(scanned) = (1 .. total) \ lost

\* Close releases the server's session: when it has returned without an error, no
\* session is open that an answer told the scanner of, also if a poll that opened
\* it was active when Close was called.  (Of a session whose first answer was lost,
\* or canceled by Close, the scanner knows nothing: it is left to the server.)
NoSessionLeft ==
    closer.pc = "returned" /\ ~closer.err /\ scanner.known => ~session.open

\* Close returns although the server never answers.
ScanCloses == scanner.closed ~> closer.pc = "returned"
=============================================================================
