--------------------------- MODULE IconOmConnection ---------------------------
(***************************************************************************)
(* om.connection.IconOmConnection with the ImsConnectConnection it wraps:  *)
(* the client end of a connection to IMS Connect.                          *)
(*                                                                         *)
(* The object keeps two flags, isSessionInUse and isErrorInConnection, and *)
(* a socket.  Its third flag, isSessionTemp, never changes after the       *)
(* object is built, so those that have it are a constant.                  *)
(***************************************************************************)
EXTENDS ImsConnect

CONSTANT isSessionTemp   \* the connections that the executor disconnects after one command

ASSUME TempAssumption == isSessionTemp \subseteq Connections

VARIABLES
    inUse,         \* the connections whose isSessionInUse is set
    inError,       \* the connections whose isErrorInConnection is set
    socket       \* "none": not created; "failed": the constructor threw;
                 \* "open" and "closed" as the client sees it

connectionVars == <<inUse, inError, socket>>

SocketStates == {"none", "failed", "open", "closed"}

ConnectionTypeOK ==
    /\ ImsConnectTypeOK
    /\ inUse \subseteq Connections
    /\ inError \subseteq Connections
    /\ socket \in [Connections -> SocketStates]

ConnectionInit ==
    /\ ImsConnectInit
    /\ inUse = {}
    /\ inError = {}
    /\ socket = [c \in Connections |-> "none"]

-----------------------------------------------------------------------------
(* createConnection and isConnected *)

\* Variant with the connection cache the comments of the code allude to: an open
\* connection nobody uses is taken again.
CreateOrReuseConnection(c) ==
    \/ /\ socket[c] = "none"
       /\ OpenSession(c)
       /\ socket' = [socket EXCEPT ![c] = "open"]
       /\ UNCHANGED <<inUse, inError>>
    \/ /\ socket[c] = "open"
       /\ c \notin inUse
       /\ c \notin inError
       /\ UNCHANGED <<connectionVars, imsConnectVars>>

\* The socket is up; success resets both flags.
CreateConnection(c) ==
    /\ socket[c] = "none"
    /\ OpenSession(c)
    /\ socket' = [socket EXCEPT ![c] = "open"]
    /\ inUse' = inUse \ {c}
    /\ inError' = inError \ {c}

\* The constructor of ImsConnectConnection threw.  The three declared
\* exceptions set the error flag, any other exception leaves it alone.
CreateConnectionFails(c) ==
    /\ socket[c] = "none"
    /\ socket' = [socket EXCEPT ![c] = "failed"]
    /\ inError' \in {inError, inError \cup {c}}
    /\ UNCHANGED <<inUse, imsConnectVars>>

\* createConnection returned, and isConnected() is false right after.
CreateConnectionThenNotConnected(c) ==
    /\ socket[c] = "none"
    /\ socket' = [socket EXCEPT ![c] = "closed"]
    /\ inUse' = inUse \ {c}
    /\ inError' = inError \ {c}
    /\ UNCHANGED imsConnectVars

-----------------------------------------------------------------------------
(* execute *)

BeginExecute(c) ==
    /\ inUse' = inUse \cup {c}
    /\ UNCHANGED <<inError, socket, imsConnectVars>>

\* disconnect() returns (threw = FALSE) or throws and leaves the socket as it is.
Disconnect(c, threw) ==
    IF threw
      THEN UNCHANGED <<socket, sessions, outbox>>
      ELSE /\ socket' = [socket EXCEPT ![c] = "closed"]
           /\ CloseSession(c)

\* if (isSessionTemp) this.disconnect()
DisconnectIfTemp(c, threw) ==
    IF c \in isSessionTemp
      THEN Disconnect(c, threw)
      ELSE ~threw /\ UNCHANGED <<socket, sessions, outbox>>

\* Any of the five catch blocks: flag the error, free the session, disconnect.
FailExecute(c, threw) ==
    /\ inError' = inError \cup {c}
    /\ inUse' = inUse \ {c}
    /\ DisconnectIfTemp(c, threw)
    /\ UNCHANGED <<inbox, ran>>

\* Variant that forgets the disconnection after the successful case.
EndExecuteWithoutDisconnect(c, r, threw) ==
    /\ r \in outbox[c]
    /\ threw => c \in isSessionTemp
    /\ outbox' = [outbox EXCEPT ![c] = @ \ {r}]
    /\ UNCHANGED <<connectionVars, sessions, inbox, ran>>

\* The answer r has been read and the stream built; the session stays in use.
\* A disconnection drops the rest of the outbox with the answer.
EndExecute(c, r, threw) ==
    /\ r \in outbox[c]
    /\ IF c \in isSessionTemp /\ ~threw
         THEN Disconnect(c, FALSE)
         ELSE /\ threw => c \in isSessionTemp
              /\ outbox' = [outbox EXCEPT ![c] = @ \ {r}]
              /\ UNCHANGED <<socket, sessions>>
    /\ UNCHANGED <<inUse, inError, inbox, ran>>

\* The answer holds no data: getDataAsArrayOfByteArrays()[0] throws outside
\* the try, past every catch block and past the disconnection.
EndExecuteWithoutData(c, r) ==
    /\ r \in outbox[c]
    /\ outbox' = [outbox EXCEPT ![c] = @ \ {r}]
    /\ UNCHANGED <<connectionVars, sessions, inbox, ran>>

ReleaseConnection(c) ==
    /\ inUse' = inUse \ {c}
    /\ UNCHANGED <<inError, socket, imsConnectVars>>

=============================================================================
