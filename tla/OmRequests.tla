------------------------------ MODULE OmRequests ------------------------------
(***************************************************************************)
(* The life of the HTTP requests the API serves, each on a thread of its   *)
(* own: a method of PgmService, TranService or RegionService builds an IMS *)
(* command, OMServlet.executeImsCommand opens a connection for it, runs    *)
(* the command over it and turns OM's answer into the body of the reply.   *)
(*                                                                         *)
(* The services are singletons, but what a request needs it keeps in local *)
(* variables; the connections, IMS Connect and OM are what requests could  *)
(* come to share.                                                          *)
(***************************************************************************)
EXTENDS IconOmConnection

CONSTANTS
    Served,        \* the kinds of service method that are called
    NoRequest, NoConnection

ASSUME NoRequestAssumption == NoRequest \notin Requests
ASSUME NoConnectionAssumption == NoConnection \notin Connections

VARIABLES
    endpoint,      \* endpoint[r]: the kind of service method that serves r
    pc,            \* pc[r]: where the thread of r is
    conn,          \* conn[r]: the connection Om was built with, if any
    exc,           \* exc[r]: the exception in flight
    answer,        \* answer[r]: the request whose answer r read
    status         \* status[r]: the HTTP status sent, 0 before

requestVars == <<endpoint, pc, conn, exc, answer, status>>

vars == <<requestVars, connectionVars, imsConnectVars>>

(* type2:     query, create, delete, update of programs; create, delete and  *)
(*            update of transactions                                         *)
(* tranQuery: query of transactions                                          *)
(* start:     start of programs and of transactions                          *)
(* region:    stop, start and display of regions                             *)
Endpoints == {"type2", "tranQuery", "start", "region"}

ASSUME ServedAssumption == Served \subseteq Endpoints

ParsesPortInTry(e) == e \in {"type2", "start"}
Marshals(e) == e \in {"type2", "tranQuery"}
CatchesIllegalArgument(e) == e # "region"

Phases == {"idle", "handling", "connected", "executing", "awaiting",
           "answered", "finally", "replying", "replied"}

(* Rest: an OmConnectionException or OmException, rethrown as RestException; *)
(* Generation: OmCommandGenerationException; Unchecked: any other exception  *)
Exceptions == {"none", "IllegalArgument", "Generation", "Rest", "Unchecked"}

\* Variant that leaves an exception nobody catches to a proxy's 503.
StatusBehindProxy(e, x) ==
    CASE x = "none" -> 200
      [] x = "Rest" -> 400
      [] x = "IllegalArgument" /\ CatchesIllegalArgument(e) -> 400
      [] OTHER -> 503

StatusOf(e, x) ==
    CASE x = "none" -> 200
      [] x = "Rest" -> 400
      [] x = "IllegalArgument" /\ CatchesIllegalArgument(e) -> 400
      [] OTHER -> 500

\* Every variable keeps to its type; a reply has one of the statuses the catch
\* clauses and the container know.
TypeOK ==
    /\ ConnectionTypeOK
    /\ endpoint \in [Requests -> Endpoints]
    /\ pc \in [Requests -> Phases]
    /\ conn \in [Requests -> Connections \cup {NoConnection}]
    /\ exc \in [Requests -> Exceptions]
    /\ answer \in [Requests -> Requests \cup {NoRequest}]
    /\ status \in [Requests -> {0, 200, 400, 500}]

Init ==
    /\ ConnectionInit
    /\ endpoint \in [Requests -> Served]
    /\ pc = [r \in Requests |-> "idle"]
    /\ conn = [r \in Requests |-> NoConnection]
    /\ exc = [r \in Requests |-> "none"]
    /\ answer = [r \in Requests |-> NoRequest]
    /\ status = [r \in Requests |-> 0]

GoTo(r, p) == pc' = [pc EXCEPT ![r] = p]
Throw(r, x) == exc' = [exc EXCEPT ![r] = x]

-----------------------------------------------------------------------------
(* The service method, up to its call of executeImsCommand *)

Arrive(r) ==
    /\ pc[r] = "idle"
    /\ GoTo(r, "handling")
    /\ UNCHANGED <<endpoint, conn, exc, answer, status>>
    /\ UNCHANGED <<connectionVars, imsConnectVars>>

\* Integer.parseInt(port), a fromValue or the marshalling of the command threw.
\* A NumberFormatException is an IllegalArgumentException, but outside the try
\* nobody catches it.
Reject(r) ==
    /\ pc[r] = "handling"
    /\ \/ Throw(r, IF ParsesPortInTry(endpoint[r]) THEN "IllegalArgument"
                                                  ELSE "Unchecked")
       \/ Marshals(endpoint[r]) /\ Throw(r, "IllegalArgument")
       \/ Marshals(endpoint[r]) /\ Throw(r, "Generation")
    /\ GoTo(r, "replying")
    /\ UNCHANGED <<endpoint, conn, answer, status>>
    /\ UNCHANGED <<connectionVars, imsConnectVars>>

-----------------------------------------------------------------------------
(* OMServlet.executeImsCommand *)

\* getIconOmConnection returned, and new Om(omConnection).
Connect(r) ==
    /\ pc[r] = "handling"
    /\ \E c \in Connections :
          /\ CreateConnection(c)
          /\ conn' = [conn EXCEPT ![r] = c]
    /\ GoTo(r, "connected")
    /\ UNCHANGED <<endpoint, exc, answer, status>>

\* getIconOmConnection threw: om is still null, the connection is out of reach.
FailConnect(r) ==
    /\ pc[r] = "handling"
    /\ \E c \in Connections :
          \/ CreateConnectionFails(c)
          \/ CreateConnectionThenNotConnected(c)
    /\ Throw(r, "Rest")
    /\ GoTo(r, "finally")
    /\ UNCHANGED <<endpoint, conn, answer, status>>

\* CommandServices and Service hand the command to IconOmConnection.execute.
Execute(r) ==
    /\ pc[r] = "connected"
    /\ BeginExecute(conn[r])
    /\ GoTo(r, "executing")
    /\ UNCHANGED <<endpoint, conn, exc, answer, status>>

\* ImsConnectConnection.execute has sent the command and waits for the answer.
Send(r) ==
    /\ pc[r] = "executing"
    /\ Deliver(conn[r], r)
    /\ GoTo(r, "awaiting")
    /\ UNCHANGED <<endpoint, conn, exc, answer, status, connectionVars>>

\* Variant that tries a failed command again over the same connection.
FailOrRetry(r) ==
    /\ pc[r] \in {"executing", "awaiting"}
    /\ \E threw \in BOOLEAN : FailExecute(conn[r], threw)
    /\ \/ Throw(r, "Rest") /\ GoTo(r, "finally")
       \/ GoTo(r, "connected") /\ UNCHANGED exc
    /\ UNCHANGED <<endpoint, conn, answer, status>>

\* Variant whose catch block logs and goes on.
FailSilently(r) ==
    /\ pc[r] \in {"executing", "awaiting"}
    /\ \E threw \in BOOLEAN : FailExecute(conn[r], threw)
    /\ GoTo(r, "finally")
    /\ UNCHANGED <<endpoint, conn, exc, answer, status>>

\* Variant without an interaction timeout: only a lost session wakes the thread.
FailWithoutTimeout(r) ==
    /\ \/ pc[r] = "executing"
       \/ pc[r] = "awaiting" /\ conn[r] \notin sessions
    /\ \E threw \in BOOLEAN : FailExecute(conn[r], threw)
    /\ Throw(r, "Rest")
    /\ GoTo(r, "finally")
    /\ UNCHANGED <<endpoint, conn, answer, status>>

\* The command could not be sent, its answer did not come within the interaction
\* timeout, or IMS Connect refused it.  What disconnect() throws takes the
\* place of the first exception, and has the same catch block.
Fail(r) ==
    /\ pc[r] \in {"executing", "awaiting"}
    /\ \E threw \in BOOLEAN : FailExecute(conn[r], threw)
    /\ Throw(r, "Rest")
    /\ GoTo(r, "finally")
    /\ UNCHANGED <<endpoint, conn, answer, status>>

\* execute returns the answer.
ReadAnswer(r) ==
    /\ pc[r] = "awaiting"
    /\ \E s \in Requests :
          /\ EndExecute(conn[r], s, FALSE)
          /\ answer' = [answer EXCEPT ![r] = s]
    /\ GoTo(r, "answered")
    /\ UNCHANGED <<endpoint, conn, exc, status>>

\* The answer was read and then the disconnection of a temporary one threw.
LoseAnswer(r) ==
    /\ pc[r] = "awaiting"
    /\ conn[r] \in isSessionTemp
    /\ \E s \in Requests : EndExecute(conn[r], s, TRUE)
    /\ Throw(r, "Rest")
    /\ GoTo(r, "finally")
    /\ UNCHANGED <<endpoint, conn, answer, status>>

ReadAnswerWithoutData(r) ==
    /\ pc[r] = "awaiting"
    /\ \E s \in Requests : EndExecuteWithoutData(conn[r], s)
    /\ Throw(r, "Unchecked")
    /\ GoTo(r, "finally")
    /\ UNCHANGED <<endpoint, conn, answer, status>>

\* processCmdResponse and the construction of the JSON body: they may throw an
\* OmException, or an unchecked exception on an answer they did not foresee, that
\* of JSONObject.put for a null name (an IllegalArgumentException) included.
Process(r) ==
    /\ pc[r] = "answered"
    /\ \E x \in Exceptions \ {"Generation"} : Throw(r, x)
    /\ GoTo(r, "finally")
    /\ UNCHANGED <<endpoint, conn, answer, status>>
    /\ UNCHANGED <<connectionVars, imsConnectVars>>

\* Variant that releases at the end of the try and not in a finally.
ReleaseOnSuccess(r) ==
    /\ pc[r] = "finally"
    /\ IF conn[r] # NoConnection /\ exc[r] = "none"
         THEN ReleaseConnection(conn[r])
         ELSE UNCHANGED <<connectionVars, imsConnectVars>>
    /\ GoTo(r, "replying")
    /\ UNCHANGED <<endpoint, conn, exc, answer, status>>

\* finally { if (om != null) om.releaseConnection(); }
Finally(r) ==
    /\ pc[r] = "finally"
    /\ IF conn[r] # NoConnection
         THEN ReleaseConnection(conn[r])
         ELSE UNCHANGED <<connectionVars, imsConnectVars>>
    /\ GoTo(r, "replying")
    /\ UNCHANGED <<endpoint, conn, exc, answer, status>>

-----------------------------------------------------------------------------
(* The catch clauses of the service method, and the container's *)

Reply(r) ==
    /\ pc[r] = "replying"
    /\ status' = [status EXCEPT ![r] = StatusOf(endpoint[r], exc[r])]
    /\ GoTo(r, "replied")
    /\ UNCHANGED <<endpoint, conn, exc, answer>>
    /\ UNCHANGED <<connectionVars, imsConnectVars>>

-----------------------------------------------------------------------------

\* The steps the thread of r takes once the request is there.
Handle(r) ==
    \/ Reject(r)
    \/ Connect(r)
    \/ FailConnect(r)
    \/ Execute(r)
    \/ Send(r)
    \/ Fail(r)
    \/ ReadAnswer(r)
    \/ LoseAnswer(r)
    \/ ReadAnswerWithoutData(r)
    \/ Process(r)
    \/ Finally(r)
    \/ Reply(r)

Next ==
    \/ \E r \in Requests : Arrive(r) \/ Handle(r)
    \/ ImsConnectNext /\ UNCHANGED <<requestVars, connectionVars>>

Spec == Init /\ [][Next]_vars

\* A thread runs until its request is answered: no lock is held while it waits,
\* the connect and interaction timeouts bound every wait.  Nothing is asked of
\* IMS Connect and OM.
Fairness == \A r \in Requests : WF_vars(Handle(r))

FairSpec == Spec /\ Fairness

-----------------------------------------------------------------------------
(* What the API promises, and the abstract state a concrete one stands for *)

PhaseOf(r) == IF pc[r] \in {"idle", "replied"} THEN pc[r] ELSE "accepted"

Promise == INSTANCE OmInteraction WITH
    phase <- [r \in Requests |-> PhaseOf(r)],
    atOm  <- UNION {inbox[c] : c \in Connections},
    body  <- [r \in Requests |-> IF status[r] = 200 THEN answer[r] ELSE NoRequest]

\* The API keeps its promise: every step of a request, of IMS Connect and of OM
\* is a step of OmInteraction or changes nothing it shows.
KeepsPromise == Promise!AbstractSpec

\* The same, and every accepted request is replied to.
KeepsPromiseFairly == Promise!AbstractFairSpec

-----------------------------------------------------------------------------
(* Properties *)

\* A request gets the answer of its own command or none: an answer that arrives
\* late, after its request gave up, never reaches another request
\* (getIconOmConnection allocates a connection per call).
OwnAnswer == \A r \in Requests : answer[r] \in {r, NoRequest}

\* OM runs the command of a request at most once, whatever fails and whenever:
\* a START, UPDATE or DELETE is never repeated (execute never retries).
AtMostOnce == \A r \in Requests : ran[r] <= 1

\* While a thread waits in execute its connection counts as in use, so no other
\* request's finally has released it meanwhile.
InUseWhileAwaiting ==
    \A r \in Requests :
        pc[r] \in {"executing", "awaiting"} => conn[r] \in inUse

\* Whichever way executeImsCommand ends, the connection is free when the reply
\* is sent (also past the exceptions no catch block of execute handles).
FreeWhenReplied ==
    \A r \in Requests :
        /\ pc[r] \in {"replying", "replied"}
        /\ conn[r] # NoConnection
        => conn[r] \notin inUse

\* A 400 for a failed execute leaves the mark on the connection, and a 200 is
\* never sent over a connection that bears it.
SuccessOverSoundConnection ==
    \A r \in Requests :
        status[r] = 200 =>
            /\ conn[r] # NoConnection
            /\ conn[r] \notin inError
            /\ ran[r] = 1

\* A connection on which an error was flagged carries no further command
\* (executeImsCommand drops the connection with the failed request).
NoCommandAfterError ==
    [][\A c \in Connections : c \in inError => inbox'[c] \subseteq inbox[c]]_vars

\* Every request that arrives is answered, even when OM never answers.
Replied == \A r \in Requests : pc[r] = "handling" ~> pc[r] = "replied"

\* A temporary connection is disconnected by the executor once its command
\* succeeded (the purpose of isSessionTemp).
TemporaryIsDisconnected ==
    \A r \in Requests :
        conn[r] \in isSessionTemp /\ status[r] = 200 => socket[conn[r]] = "closed"

\* The documentation of getSessionTemp: a session that is not stored in the
\* cache and is meant for one use is disconnected by the executor.
OneTimeSessionIsDisconnected ==
    \A r \in Requests :
        pc[r] = "replied" /\ conn[r] # NoConnection => socket[conn[r]] # "open"

=============================================================================
