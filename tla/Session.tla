------------------------------- MODULE Session -------------------------------
(***************************************************************************)
(* How a connection becomes usable (pkg/fgo): the client and the server      *)
(* agree on a version of every API, the client checks that it reached the    *)
(* kind of server it wanted, and an authenticator, when one is configured,   *)
(* exchanges tokens and challenges with the server until both are content.   *)
(*                                                                         *)
(* The authenticator is supplied by the application and the server is       *)
(* remote: both answer anything their interfaces allow.  A token is "nil",   *)
(* "empty" or "bytes".                                                     *)
(***************************************************************************)
EXTENDS Protocol

CONSTANTS
  Offers,            \* what a server may offer: [versions, serverType]
  ExpectedType,      \* the server type the connection is for
  Authenticators,    \* FALSE: no authenticator; TRUE: one is configured
  MaxSteps           \* authenticate gives up after this many exchanges

ASSUME SessionAssumption ==
  /\ MaxSteps \in Nat \ {0}
  /\ Authenticators \subseteq BOOLEAN

VARIABLES
  phase,      \* where open() is
  offered,    \* what the server offers
  versions,   \* Client.versions: the version to use for each shared API
  auth,       \* the authenticator: is there one, has it said Complete
  token,      \* the token to send next
  steps,      \* exchanges so far
  sent,       \* the last AUTHENTICATE request built, <<>> before
  answered    \* the server answered the last AUTHENTICATE request

sessionVars == <<phase, offered, versions, auth, token, steps, sent, answered>>

Tokens == {"nil", "empty", "bytes"}
Phases == {"negotiate", "initial", "send", "wait", "respond", "ready", "failed"}

SessionTypeOK ==
  /\ phase \in Phases
  /\ offered \in Offers
  /\ auth \in [used : BOOLEAN, complete : BOOLEAN]
  /\ token \in Tokens
  /\ steps \in 0 .. MaxSteps
  /\ answered \in BOOLEAN

SessionInit ==
  /\ phase = "negotiate"
  /\ offered \in Offers
  /\ versions = None
  /\ \E used \in Authenticators : auth = [used |-> used, complete |-> FALSE]
  /\ token = "nil"
  /\ steps = 0
  /\ sent = <<>>
  /\ answered = FALSE

\* client.shutdown: the connection is of no use, and its authenticator is closed.
GiveUp ==
  /\ phase' = "failed"
  /\ token' = "nil"

\* negotiate, and the check of the server type.  Without an authenticator the
\* connection is then ready.
Negotiate ==
  /\ phase = "negotiate"
  /\ IF Negotiates(offered.versions) /\ offered.serverType = ExpectedType
     THEN /\ versions' = negotiate(offered.versions)
          /\ phase' = IF auth.used THEN "initial" ELSE "ready"
          /\ UNCHANGED token
     ELSE GiveUp /\ UNCHANGED versions
  /\ UNCHANGED <<offered, auth, steps, sent, answered>>

\* Dialling, the TLS handshake or the API_VERSIONS exchange fails, or the
\* authenticator cannot be created or names no mechanism.
OpenFails ==
  /\ phase \in {"negotiate", "initial"}
  /\ GiveUp
  /\ UNCHANGED <<offered, versions, auth, steps, sent, answered>>

\* The authenticator may complete whenever it is asked for a token.
Authenticated(to) == auth' \in {auth, [auth EXCEPT !.complete = TRUE]} /\ token' = to

initialAuthenticationToken ==
  /\ phase = "initial"
  /\ \/ token' = "nil" /\ phase' = "send" /\ UNCHANGED auth      \* no initial response
     \/ \E to \in Tokens \ {"nil"} : Authenticated(to) /\ phase' = "send"
     \/ GiveUp /\ UNCHANGED auth                                \* an error, or a nil response
  /\ UNCHANGED <<offered, versions, steps, sent, answered>>

\* append([]byte(nil), token...) copies the token: nothing to copy leaves nil.
authenticateMessage ==
  [protocol |-> "PLAIN"] @@ Optionally(token = "bytes", "token", token)

authenticateRequest ==
  /\ phase = "send"
  /\ LET request == NewRequest("Authenticate", authenticateMessage)
     IN IF "Authenticate" \notin DOMAIN versions
        THEN GiveUp /\ UNCHANGED sent
        ELSE /\ sent' = <<SetVersion(request, versions["Authenticate"])>>
             /\ IF Marshals(request) THEN phase' = "wait" /\ UNCHANGED token ELSE GiveUp
  /\ answered' = FALSE
  /\ UNCHANGED <<offered, versions, auth, steps>>

\* A client that takes the absence of a challenge for the end of the exchange.
AnsweredAbsent ==
  /\ phase = "wait"
  /\ answered' = TRUE
  /\ steps' = steps + 1
  /\ \/ auth.complete /\ phase' = "ready" /\ UNCHANGED token
     \/ ~auth.complete /\ phase' \in {"respond", "ready"} /\ UNCHANGED token
  /\ UNCHANGED <<offered, versions, auth, sent>>

\* The server answers: with a challenge (possibly empty), or without one.
\* Once the authenticator is complete, any answer is success.
Answered ==
  /\ phase = "wait"
  /\ answered' = TRUE
  /\ steps' = steps + 1
  /\ \/ auth.complete /\ phase' = "ready" /\ UNCHANGED token
     \/ ~auth.complete /\ phase' = "respond" /\ UNCHANGED token
     \/ ~auth.complete /\ GiveUp                       \* no challenge: server is done too soon
  /\ UNCHANGED <<offered, versions, auth, sent>>

\* The server refuses, or the connection or the context ends.
AnswerFails ==
  /\ phase = "wait"
  /\ GiveUp
  /\ UNCHANGED <<offered, versions, auth, steps, sent, answered>>

\* An exchange that is never cut off.
authenticationResponseTokenForever ==
  /\ phase = "respond"
  /\ \/ \E to \in Tokens \ {"nil"} : Authenticated(to) /\ phase' = "send" /\ steps' = 0
     \/ Authenticated("nil") /\ phase' = (IF auth'.complete THEN "ready" ELSE "failed") /\ UNCHANGED steps
     \/ GiveUp /\ UNCHANGED <<auth, steps>>
  /\ UNCHANGED <<offered, versions, sent, answered>>

\* A token goes back to the server unless the exchange has taken too many
\* steps; no token means the authenticator is done, or has failed.
authenticationResponseToken ==
  /\ phase = "respond"
  /\ \/ \E to \in Tokens \ {"nil"} :
          /\ Authenticated(to)
          /\ phase' = IF steps < MaxSteps THEN "send" ELSE "failed"
     \/ Authenticated("nil") /\ phase' = IF auth'.complete THEN "ready" ELSE "failed"
     \/ GiveUp /\ UNCHANGED auth                                 \* an error
  /\ UNCHANGED <<offered, versions, steps, sent, answered>>

SessionStep ==
  \/ Negotiate \/ initialAuthenticationToken \/ authenticateRequest
  \/ Answered \/ AnswerFails \/ authenticationResponseToken

SessionNext == SessionStep \/ OpenFails

\* The code runs on, and every exchange is bounded by the context of open():
\* an answer comes or the exchange fails.
SessionFairness == WF_sessionVars(SessionStep)

\* A connection with an authenticator is only handed out once the
\* authenticator says the exchange is complete and the server has answered
\* the last token sent (client_auth.go, authenticationChallenge and
\* authenticationResponseToken).
ReadyIsAuthenticated == phase = "ready" /\ auth.used => auth.complete /\ answered

\* A ready connection uses versions that both sides speak, for APIs both
\* know (client.go, negotiate).
VersionsInRange ==
  phase = "ready" =>
    \A key \in DOMAIN versions :
      /\ validateAPI(key, versions[key])
      /\ offered.versions[key].MinVersion =< versions[key]
      /\ versions[key] =< offered.versions[key].MaxVersion

\* Opening a connection ends, however the authenticator and the server play
\* their parts (client_auth.go, authenticate: at most 16 exchanges).
SessionEnds == <>(phase \in {"ready", "failed"})

\* Every AUTHENTICATE request the exchange builds can be encoded
\* (client_auth.go:21, an authenticator without an initial response waits for
\* the server's first challenge).
ExchangeCanStart == \A i \in DOMAIN sent : Marshals(sent[i])
=============================================================================
