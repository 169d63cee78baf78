--------------------------- MODULE OmRequestsProof ---------------------------
(***************************************************************************)
(* Proofs about OmRequests for any number of requests, connections and     *)
(* sessions, for temporary connections and for others.                     *)
(***************************************************************************)
EXTENDS OmRequests, TLAPS

-----------------------------------------------------------------------------
(* The inductive invariant, in named parts *)

\* Where a thread has a connection and has not yet left execute's caller.
Busy == {"connected", "executing", "awaiting", "answered"}

\* What a request has so far depends on where its thread is.
Assigned ==
    \A r \in Requests :
        /\ pc[r] \in Busy => conn[r] \in Connections
        /\ pc[r] \in {"idle", "handling"} => conn[r] = NoConnection
        /\ answer[r] # NoRequest => conn[r] \in Connections

\* A connection is created once and belongs to one request.
Owned ==
    /\ \A r \in Requests : conn[r] \in Connections => socket[conn[r]] # "none"
    /\ \A r, s \in Requests :
          conn[r] \in Connections /\ conn[r] = conn[s] => r = s

\* What travels over a connection is the command of its owner, or its answer.
Carried ==
    \A c \in Connections : \A s \in inbox[c] \cup outbox[c] : conn[s] = c

\* A command not sent yet has left no trace; one at OM has not run; an answer
\* comes from a command that ran.
Counted ==
    /\ \A r \in Requests :
          ran[r] # 0 => pc[r] \notin {"idle", "handling", "connected", "executing"}
    /\ \A c \in Connections : \A s \in inbox[c] :
          pc[s] \notin {"idle", "handling", "connected", "executing"} /\ ran[s] = 0
    /\ \A c \in Connections : \A s \in outbox[c] : ran[s] = 1
    /\ \A r \in Requests : ran[r] <= 1 /\ (answer[r] = r => ran[r] = 1)

\* As long as no exception is in flight the connection is sound, and past
\* execute there is an answer.
Sound ==
    \A r \in Requests :
        exc[r] = "none" =>
            /\ conn[r] \notin inError
            /\ pc[r] \in {"answered", "finally", "replying", "replied"} =>
                  answer[r] # NoRequest

\* An exception, once thrown, stays in flight up to the reply.
Settled ==
    \A r \in Requests :
        /\ pc[r] \in Busy \cup {"idle", "handling"} => exc[r] = "none"
        /\ status[r] # 0 => pc[r] = "replied"
        /\ status[r] = 200 => exc[r] = "none"

\* The inductive invariant.
IInv ==
    /\ TypeOK
    /\ Assigned
    /\ Owned
    /\ Carried
    /\ Counted
    /\ OwnAnswer
    /\ Sound
    /\ Settled
    /\ InUseWhileAwaiting
    /\ FreeWhenReplied

USE NoRequestAssumption, NoConnectionAssumption, ServedAssumption
USE DEF TypeOK, ConnectionTypeOK, ImsConnectTypeOK, Phases, Exceptions, SocketStates, Busy

\* A request arrives: only its program counter moves.
LEMMA ArriveStep ==
    ASSUME IInv, NEW r \in Requests, Arrive(r)
    PROVE  IInv'
<1> USE DEF IInv, Arrive, GoTo, connectionVars, imsConnectVars
<1>1. TypeOK' /\ Assigned' /\ Settled'
  BY DEF Assigned, Settled
<1>2. Owned' /\ Carried'
  BY DEF Owned, Carried, Assigned
<1>3. Counted' /\ OwnAnswer'
  BY DEF Counted, OwnAnswer, Carried, Owned, Assigned
<1>4. Sound'
  BY DEF Sound, Settled, Owned, Assigned
<1>5. InUseWhileAwaiting' /\ FreeWhenReplied'
  BY DEF InUseWhileAwaiting, FreeWhenReplied, Owned, Assigned
<1> QED
  BY <1>1, <1>2, <1>3, <1>4, <1>5

\* A rejection comes before there is a connection to release.
LEMMA RejectStep ==
    ASSUME IInv, NEW r \in Requests, Reject(r)
    PROVE  IInv'
<1> USE DEF IInv, Reject, GoTo, Throw, connectionVars, imsConnectVars
<1>1. TypeOK' /\ Assigned' /\ Settled'
  BY DEF Assigned, Settled
<1>2. Owned' /\ Carried'
  BY DEF Owned, Carried, Assigned
<1>3. Counted' /\ OwnAnswer'
  BY DEF Counted, OwnAnswer, Carried, Owned, Assigned
<1>4. Sound'
  BY DEF Sound, Settled, Owned, Assigned
<1>5. InUseWhileAwaiting' /\ FreeWhenReplied'
  BY DEF InUseWhileAwaiting, FreeWhenReplied, Owned, Assigned
<1> QED
  BY <1>1, <1>2, <1>3, <1>4, <1>5

\* The connection is new, so no other request owns it and nothing travels over it.
LEMMA ConnectStep ==
    ASSUME IInv, NEW r \in Requests, Connect(r)
    PROVE  IInv'
<1> USE DEF IInv, Connect, CreateConnection, OpenSession, GoTo
<1>1. TypeOK' /\ Assigned' /\ Settled'
  BY DEF Assigned, Settled
<1>2. Owned' /\ Carried'
  BY DEF Owned, Carried, Assigned
<1>3. Counted' /\ OwnAnswer'
  BY DEF Counted, OwnAnswer, Carried, Owned, Assigned
<1>4. Sound'
  BY DEF Sound, Settled, Owned, Assigned
<1>5. InUseWhileAwaiting' /\ FreeWhenReplied'
  BY DEF InUseWhileAwaiting, FreeWhenReplied, Owned, Assigned
<1> QED
  BY <1>1, <1>2, <1>3, <1>4, <1>5

\* A failed connection was new, and no request gets it.
LEMMA FailConnectStep ==
    ASSUME IInv, NEW r \in Requests, FailConnect(r)
    PROVE  IInv'
<1> USE DEF IInv, FailConnect, CreateConnectionFails, CreateConnectionThenNotConnected, GoTo, Throw,
           imsConnectVars
<1>1. TypeOK' /\ Assigned' /\ Settled'
  BY DEF Assigned, Settled
<1>2. Owned' /\ Carried'
  BY DEF Owned, Carried, Assigned
<1>3. Counted' /\ OwnAnswer'
  BY DEF Counted, OwnAnswer, Carried, Owned, Assigned
<1>4. Sound'
  BY DEF Sound, Settled, Owned, Assigned
<1>5. InUseWhileAwaiting' /\ FreeWhenReplied'
  BY DEF InUseWhileAwaiting, FreeWhenReplied, Owned, Assigned
<1> QED
  BY <1>1, <1>2, <1>3, <1>4, <1>5

\* No request that was replied to owns the connection that becomes busy.
LEMMA ExecuteStep ==
    ASSUME IInv, NEW r \in Requests, Execute(r)
    PROVE  IInv'
<1> USE DEF IInv, Execute, BeginExecute, GoTo, imsConnectVars
<1>1. TypeOK' /\ Assigned' /\ Settled'
  BY DEF Assigned, Settled
<1>2. Owned' /\ Carried'
  BY DEF Owned, Carried, Assigned
<1>3. Counted' /\ OwnAnswer'
  BY DEF Counted, OwnAnswer, Carried, Owned, Assigned
<1>4. Sound'
  BY DEF Sound, Settled, Owned, Assigned
<1>5. InUseWhileAwaiting' /\ FreeWhenReplied'
  BY DEF InUseWhileAwaiting, FreeWhenReplied, Owned, Assigned
<1> QED
  BY <1>1, <1>2, <1>3, <1>4, <1>5

\* The command is sent from a state where it never was before.
LEMMA SendStep ==
    ASSUME IInv, NEW r \in Requests, Send(r)
    PROVE  IInv'
<1> USE DEF IInv, Send, Deliver, GoTo, connectionVars
<1>1. TypeOK' /\ Assigned' /\ Settled'
  BY DEF Assigned, Settled
<1>2. Owned' /\ Carried'
  BY DEF Owned, Carried, Assigned
<1>3. Counted' /\ OwnAnswer'
  BY DEF Counted, OwnAnswer, Carried, Owned, Assigned
<1>4. Sound'
  BY DEF Sound, Settled, Owned, Assigned
<1>5. InUseWhileAwaiting' /\ FreeWhenReplied'
  BY DEF InUseWhileAwaiting, FreeWhenReplied, Owned, Assigned
<1> QED
  BY <1>1, <1>2, <1>3, <1>4, <1>5

\* The connection freed and flagged is that of the failing request.
LEMMA FailStep ==
    ASSUME IInv, NEW r \in Requests, Fail(r)
    PROVE  IInv'
<1> USE DEF IInv, Fail, FailExecute, DisconnectIfTemp, Disconnect, CloseSession, GoTo, Throw
<1>1. TypeOK' /\ Assigned' /\ Settled'
  BY DEF Assigned, Settled
<1>2. Owned' /\ Carried'
  BY DEF Owned, Carried, Assigned
<1>3. Counted' /\ OwnAnswer'
  BY DEF Counted, OwnAnswer, Carried, Owned, Assigned
<1>4. Sound'
  BY DEF Sound, Settled, Owned, Assigned
<1>5. InUseWhileAwaiting' /\ FreeWhenReplied'
  BY DEF InUseWhileAwaiting, FreeWhenReplied, Owned, Assigned
<1> QED
  BY <1>1, <1>2, <1>3, <1>4, <1>5

\* What is read was carried by the connection of r, so it is the answer of r.
LEMMA ReadAnswerStep ==
    ASSUME IInv, NEW r \in Requests, ReadAnswer(r)
    PROVE  IInv'
<1> USE DEF IInv, ReadAnswer, EndExecute, Disconnect, CloseSession, GoTo
<1>0. PICK s \in Requests :
         /\ s \in outbox[conn[r]]
         /\ answer' = [answer EXCEPT ![r] = s]
  OBVIOUS
<1>6. s = r
  BY <1>0 DEF Carried, Owned, Assigned
<1>1. TypeOK' /\ Assigned' /\ Settled'
  BY DEF Assigned, Settled
<1>2. Owned' /\ Carried'
  <2>1. Owned'
    BY DEF Owned
  <2>2. UNCHANGED conn /\ inbox' = inbox /\ \A c \in Connections : outbox'[c] \subseteq outbox[c]
    OBVIOUS
  <2> QED
    BY <2>1, <2>2 DEF Carried
<1>3. Counted' /\ OwnAnswer'
  <2>1. \A c \in Connections : outbox'[c] \subseteq outbox[c]
    OBVIOUS
  <2>2. OwnAnswer'
    BY <1>0, <1>6 DEF OwnAnswer
  <2>3. ran[r] = 1
    BY <1>0, <1>6 DEF Counted, Assigned
  <2> QED
    BY <1>0, <1>6, <2>1, <2>2, <2>3 DEF Counted
<1>4. Sound'
  BY DEF Sound, Settled, Owned, Assigned
<1>5. InUseWhileAwaiting' /\ FreeWhenReplied'
  BY DEF InUseWhileAwaiting, FreeWhenReplied, Owned, Assigned
<1> QED
  BY <1>1, <1>2, <1>3, <1>4, <1>5

\* As a failure, without the flag.
LEMMA LoseAnswerStep ==
    ASSUME IInv, NEW r \in Requests, LoseAnswer(r)
    PROVE  IInv'
<1> USE DEF IInv, LoseAnswer, EndExecute, Disconnect, CloseSession, GoTo, Throw
<1>1. TypeOK' /\ Assigned' /\ Settled'
  BY DEF Assigned, Settled
<1>2. Owned' /\ Carried'
  BY DEF Owned, Carried, Assigned
<1>3. Counted' /\ OwnAnswer'
  BY DEF Counted, OwnAnswer, Carried, Owned, Assigned
<1>4. Sound'
  BY DEF Sound, Settled, Owned, Assigned
<1>5. InUseWhileAwaiting' /\ FreeWhenReplied'
  BY DEF InUseWhileAwaiting, FreeWhenReplied, Owned, Assigned
<1> QED
  BY <1>1, <1>2, <1>3, <1>4, <1>5

\* The connection stays in use, for Finally to release.
LEMMA ReadAnswerWithoutDataStep ==
    ASSUME IInv, NEW r \in Requests, ReadAnswerWithoutData(r)
    PROVE  IInv'
<1> USE DEF IInv, ReadAnswerWithoutData, EndExecuteWithoutData, GoTo, Throw, connectionVars
<1>1. TypeOK' /\ Assigned' /\ Settled'
  BY DEF Assigned, Settled
<1>2. Owned' /\ Carried'
  BY DEF Owned, Carried, Assigned
<1>3. Counted' /\ OwnAnswer'
  BY DEF Counted, OwnAnswer, Carried, Owned, Assigned
<1>4. Sound'
  BY DEF Sound, Settled, Owned, Assigned
<1>5. InUseWhileAwaiting' /\ FreeWhenReplied'
  BY DEF InUseWhileAwaiting, FreeWhenReplied, Owned, Assigned
<1> QED
  BY <1>1, <1>2, <1>3, <1>4, <1>5

\* Only the exception in flight changes.
LEMMA ProcessStep ==
    ASSUME IInv, NEW r \in Requests, Process(r)
    PROVE  IInv'
<1> USE DEF IInv, Process, GoTo, Throw, connectionVars, imsConnectVars
<1>1. TypeOK' /\ Assigned' /\ Settled'
  BY DEF Assigned, Settled
<1>2. Owned' /\ Carried'
  BY DEF Owned, Carried, Assigned
<1>3. Counted' /\ OwnAnswer'
  BY DEF Counted, OwnAnswer, Carried, Owned, Assigned
<1>4. Sound'
  BY DEF Sound, Settled, Owned, Assigned
<1>5. InUseWhileAwaiting' /\ FreeWhenReplied'
  BY DEF InUseWhileAwaiting, FreeWhenReplied, Owned, Assigned
<1> QED
  BY <1>1, <1>2, <1>3, <1>4, <1>5

\* The connection released is not one another request waits on.
LEMMA FinallyStep ==
    ASSUME IInv, NEW r \in Requests, Finally(r)
    PROVE  IInv'
<1> USE DEF IInv, Finally, ReleaseConnection, GoTo, connectionVars, imsConnectVars
<1>1. TypeOK' /\ Assigned' /\ Settled'
  BY DEF Assigned, Settled
<1>2. Owned' /\ Carried'
  BY DEF Owned, Carried, Assigned
<1>3. Counted' /\ OwnAnswer'
  BY DEF Counted, OwnAnswer, Carried, Owned, Assigned
<1>4. Sound'
  BY DEF Sound, Settled, Owned, Assigned
<1>5. InUseWhileAwaiting' /\ FreeWhenReplied'
  BY DEF InUseWhileAwaiting, FreeWhenReplied, Owned, Assigned
<1> QED
  BY <1>1, <1>2, <1>3, <1>4, <1>5

\* A 200 is sent only when no exception is in flight.
LEMMA ReplyStep ==
    ASSUME IInv, NEW r \in Requests, Reply(r)
    PROVE  IInv'
<1> USE DEF IInv, Reply, GoTo, connectionVars, imsConnectVars
<1>0. /\ StatusOf(endpoint[r], exc[r]) \in {200, 400, 500}
      /\ StatusOf(endpoint[r], exc[r]) = 200 => exc[r] = "none"
  BY DEF StatusOf
<1>1. TypeOK' /\ Assigned' /\ Settled'
  BY <1>0 DEF Assigned, Settled
<1>2. Owned' /\ Carried'
  BY <1>0 DEF Owned, Carried, Assigned
<1>3. Counted' /\ OwnAnswer'
  BY <1>0 DEF Counted, OwnAnswer, Carried, Owned, Assigned
<1>4. Sound'
  BY <1>0 DEF Sound, Settled, Owned, Assigned
<1>5. InUseWhileAwaiting' /\ FreeWhenReplied'
  BY <1>0 DEF InUseWhileAwaiting, FreeWhenReplied, Owned, Assigned
<1> QED
  BY <1>1, <1>2, <1>3, <1>4, <1>5

\* OM runs a command over the connection of its owner, and no other connection
\* holds it, so it will not run again; a lost session only takes answers away.
LEMMA ImsConnectStep ==
    ASSUME IInv, ImsConnectNext, UNCHANGED <<requestVars, connectionVars>>
    PROVE  IInv'
<1> USE DEF IInv, requestVars, connectionVars
<1>1. ASSUME NEW c \in Connections, NEW r \in Requests, OmRuns(c, r) PROVE IInv'
  <2> USE <1>1 DEF OmRuns
  <2>1. TypeOK' /\ Assigned' /\ Settled' /\ Sound'
    BY DEF Assigned, Settled, Sound
  <2>2. Owned' /\ Carried'
    BY DEF Owned, Carried
  <2>3. Counted' /\ OwnAnswer'
    BY DEF Counted, OwnAnswer, Carried
  <2>4. InUseWhileAwaiting' /\ FreeWhenReplied'
    BY DEF InUseWhileAwaiting, FreeWhenReplied
  <2> QED
    BY <2>1, <2>2, <2>3, <2>4
<1>2. ASSUME NEW c \in Connections, DropSession(c) PROVE IInv'
  <2> USE <1>2 DEF DropSession
  <2>1. TypeOK' /\ Assigned' /\ Settled' /\ Sound'
    BY DEF Assigned, Settled, Sound
  <2>2. Owned' /\ Carried' /\ Counted' /\ OwnAnswer'
    BY DEF Owned, Carried, Counted, OwnAnswer
  <2>3. InUseWhileAwaiting' /\ FreeWhenReplied'
    BY DEF InUseWhileAwaiting, FreeWhenReplied
  <2> QED
    BY <2>1, <2>2, <2>3
<1> QED
  BY <1>1, <1>2 DEF ImsConnectNext

\* No request has a connection yet, and nothing travels.
LEMMA IInvInit == Init => IInv
<1> SUFFICES ASSUME Init PROVE IInv
  OBVIOUS
<1> USE DEF Init, ConnectionInit, ImsConnectInit
<1>1. ImsConnectTypeOK
  OBVIOUS
<1>2. TypeOK
  <2>1. ConnectionTypeOK
    BY <1>1
  <2>2. endpoint \in [Requests -> Endpoints]
    OBVIOUS
  <2>3. /\ pc \in [Requests -> Phases]
        /\ conn \in [Requests -> Connections \cup {NoConnection}]
        /\ exc \in [Requests -> Exceptions]
    OBVIOUS
  <2>4. /\ answer \in [Requests -> Requests \cup {NoRequest}]
        /\ status \in [Requests -> {0, 200, 400, 500}]
    OBVIOUS
  <2> QED
    BY <2>1, <2>2, <2>3, <2>4
<1>3. Assigned /\ Owned /\ Carried /\ Counted
  <2>1. Assigned /\ Owned
    BY DEF Assigned, Owned
  <2>2. Carried
    BY DEF Carried
  <2>3. Counted
    BY DEF Counted
  <2> QED
    BY <2>1, <2>2, <2>3
<1>4. OwnAnswer /\ Sound /\ Settled
  BY DEF OwnAnswer, Sound, Settled
<1>5. InUseWhileAwaiting /\ FreeWhenReplied
  BY DEF InUseWhileAwaiting, FreeWhenReplied
<1> QED
  BY <1>2, <1>3, <1>4, <1>5 DEF IInv

\* Every step of a thread, of IMS Connect and of OM keeps the invariant.
LEMMA IInvStep == IInv /\ [Next]_vars => IInv'
<1> SUFFICES ASSUME IInv, [Next]_vars PROVE IInv'
  OBVIOUS
<1>1. CASE \E r \in Requests : Arrive(r) \/ Handle(r)
  BY <1>1, ArriveStep, RejectStep, ConnectStep, FailConnectStep, ExecuteStep, SendStep,
     FailStep, ReadAnswerStep, LoseAnswerStep, ReadAnswerWithoutDataStep, ProcessStep,
     FinallyStep, ReplyStep DEF Handle
<1>2. CASE ImsConnectNext /\ UNCHANGED <<requestVars, connectionVars>>
  BY <1>2, ImsConnectStep
<1>3. CASE UNCHANGED vars
  BY <1>3 DEF IInv, vars, requestVars, connectionVars, imsConnectVars, Assigned, Owned,
     Carried, Counted, OwnAnswer, Sound, Settled, InUseWhileAwaiting, FreeWhenReplied
<1> QED
  BY <1>1, <1>2, <1>3 DEF Next

\* The invariant holds of every reachable state.
LEMMA Invariance == Spec => []IInv
  BY IInvInit, IInvStep, PTL DEF Spec

-----------------------------------------------------------------------------
(* The safety properties *)

\* In every behaviour of the threads, of IMS Connect and of OM, the variables
\* stay within their types.
THEOREM Typing == Spec => []TypeOK
<1>1. IInv => TypeOK
  BY DEF IInv
<1> QED
  BY <1>1, Invariance, PTL

\* No request ever reads the answer to the command of another: connections are
\* allocated per request and never shared.
THEOREM AnswersAreOwn == Spec => []OwnAnswer
<1>1. IInv => OwnAnswer
  BY DEF IInv
<1> QED
  BY <1>1, Invariance, PTL

\* Whatever fails, OM runs the command of a request at most once.
THEOREM CommandsRunAtMostOnce == Spec => []AtMostOnce
<1>1. IInv => AtMostOnce
  BY DEF IInv, Counted, AtMostOnce
<1> QED
  BY <1>1, Invariance, PTL

\* A connection counts as in use as long as a thread waits on it.
THEOREM UsedWhileAwaiting == Spec => []InUseWhileAwaiting
<1>1. IInv => InUseWhileAwaiting
  BY DEF IInv
<1> QED
  BY <1>1, Invariance, PTL

\* A connection is free when its request has been dealt with, however it ended.
THEOREM FreedWhenReplied == Spec => []FreeWhenReplied
<1>1. IInv => FreeWhenReplied
  BY DEF IInv
<1> QED
  BY <1>1, Invariance, PTL

\* A 200 is sent only for a command that ran, over a connection without error.
THEOREM SuccessIsSound == Spec => []SuccessOverSoundConnection
<1>1. IInv => SuccessOverSoundConnection
  <2> SUFFICES ASSUME IInv, NEW r \in Requests, status[r] = 200
               PROVE  /\ conn[r] # NoConnection
                      /\ conn[r] \notin inError
                      /\ ran[r] = 1
    BY DEF SuccessOverSoundConnection
  <2>1. pc[r] = "replied" /\ exc[r] = "none"
    BY DEF IInv, Settled
  <2>2. conn[r] \in Connections /\ conn[r] \notin inError /\ answer[r] # NoRequest
    BY <2>1 DEF IInv, Sound, Assigned
  <2>3. answer[r] = r
    BY <2>2 DEF IInv, OwnAnswer
  <2> QED
    BY <2>2, <2>3 DEF IInv, Counted
<1> QED
  BY <1>1, Invariance, PTL

\* Nothing is sent over a connection on which execute has failed: its request is
\* past its only Send, and no other request has the connection.
THEOREM ErrorIsFinal == Spec => NoCommandAfterError
<1> DEFINE Quiet == \A c \in Connections : c \in inError => inbox'[c] \subseteq inbox[c]
<1>1. IInv /\ [Next]_vars => [Quiet]_vars
  <2> SUFFICES ASSUME IInv, Next PROVE Quiet
    OBVIOUS
  <2> USE DEF IInv
  <2>1. ASSUME NEW r \in Requests, Send(r) PROVE Quiet
    BY <2>1 DEF Send, Deliver, Settled, Sound, Assigned
  <2>2. ASSUME ImsConnectNext PROVE Quiet
    BY <2>2 DEF ImsConnectNext, OmRuns, DropSession
  <2>3. ASSUME NEW r \in Requests, Arrive(r) \/ (Handle(r) /\ ~Send(r))
        PROVE  UNCHANGED inbox
    BY <2>3 DEF Arrive, Handle, Reject, Connect, CreateConnection, OpenSession, FailConnect,
       CreateConnectionFails, CreateConnectionThenNotConnected, Execute, BeginExecute, Fail,
       FailExecute, ReadAnswer, EndExecute, LoseAnswer, ReadAnswerWithoutData,
       EndExecuteWithoutData, Process, Finally, ReleaseConnection, Reply, imsConnectVars
  <2> QED
    BY <2>1, <2>2, <2>3 DEF Next
<1> QED
  BY <1>1, Invariance, PTL DEF Spec, NoCommandAfterError

-----------------------------------------------------------------------------
(* Temporary connections *)

\* A temporary connection is closed before its request can look at the answer.
ClosedOnceAnswered ==
    \A r \in Requests :
        answer[r] # NoRequest /\ conn[r] \in isSessionTemp => socket[conn[r]] = "closed"

\* EndExecute closes the temporary connection it reads from, and no step opens it again.
LEMMA ClosedStep ==
    ASSUME IInv, ClosedOnceAnswered, [Next]_vars
    PROVE  ClosedOnceAnswered'
<1> USE DEF IInv, ClosedOnceAnswered
<1>1. ASSUME NEW r \in Requests, ReadAnswer(r) PROVE ClosedOnceAnswered'
  <2>1. IF conn[r] \in isSessionTemp THEN socket' = [socket EXCEPT ![conn[r]] = "closed"]
        ELSE socket' = socket
    BY <1>1 DEF ReadAnswer, EndExecute, Disconnect
  <2>2. UNCHANGED conn /\ \A s \in Requests : s # r => answer'[s] = answer[s]
    BY <1>1 DEF ReadAnswer
  <2> QED
    BY <1>1, <2>1, <2>2 DEF ReadAnswer, Assigned
<1>2. ASSUME NEW r \in Requests, Connect(r) PROVE ClosedOnceAnswered'
  BY <1>2 DEF Connect, CreateConnection, Assigned
<1>3. ASSUME NEW r \in Requests, FailConnect(r) PROVE ClosedOnceAnswered'
  <2>1. PICK c \in Connections :
           /\ socket[c] = "none"
           /\ \A d \in Connections : d # c => socket'[d] = socket[d]
    BY <1>3 DEF FailConnect, CreateConnectionFails, CreateConnectionThenNotConnected
  <2>2. UNCHANGED <<answer, conn>>
    BY <1>3 DEF FailConnect
  <2> QED
    BY <2>1, <2>2 DEF Assigned
<1>4. ASSUME NEW r \in Requests, Fail(r) PROVE ClosedOnceAnswered'
  <2>1. socket' \in {socket, [socket EXCEPT ![conn[r]] = "closed"]}
    BY <1>4 DEF Fail, FailExecute, DisconnectIfTemp, Disconnect
  <2>2. UNCHANGED <<answer, conn>>
    BY <1>4 DEF Fail
  <2> QED
    BY <2>1, <2>2 DEF Assigned
<1>5. ASSUME NEW r \in Requests, LoseAnswer(r) PROVE ClosedOnceAnswered'
  BY <1>5 DEF LoseAnswer, EndExecute, Disconnect
<1>6. ASSUME NEW r \in Requests,
             \/ Arrive(r) \/ Reject(r) \/ Execute(r) \/ Send(r)
             \/ ReadAnswerWithoutData(r) \/ Process(r) \/ Finally(r) \/ Reply(r)
      PROVE  UNCHANGED <<answer, conn, socket>>
  BY <1>6 DEF Arrive, Reject, Execute, BeginExecute, Send, ReadAnswerWithoutData,
     EndExecuteWithoutData, Process, Finally, ReleaseConnection, Reply, connectionVars
<1>7. CASE \E r \in Requests : Arrive(r) \/ Handle(r)
  BY <1>1, <1>2, <1>3, <1>4, <1>5, <1>6, <1>7 DEF Handle
<1>8. CASE ImsConnectNext /\ UNCHANGED <<requestVars, connectionVars>>
  BY <1>8 DEF requestVars, connectionVars
<1>9. CASE UNCHANGED vars
  BY <1>9 DEF vars, requestVars, connectionVars
<1> QED
  BY <1>7, <1>8, <1>9 DEF Next

\* The executor has disconnected a temporary connection by the time the 200 of
\* its request is sent.
THEOREM TemporaryConnectionsAreClosed == Spec => []TemporaryIsDisconnected
<1>1. Init => ClosedOnceAnswered
  BY DEF Init, ClosedOnceAnswered
<1>2. IInv /\ ClosedOnceAnswered /\ [Next]_vars => ClosedOnceAnswered'
  BY ClosedStep
<1>3. IInv /\ ClosedOnceAnswered => TemporaryIsDisconnected
  BY DEF IInv, ClosedOnceAnswered, TemporaryIsDisconnected, Settled, Sound
<1> QED
  BY <1>1, <1>2, <1>3, Invariance, PTL DEF Spec

-----------------------------------------------------------------------------
(* Refinement *)

\* The abstract state, for the lemmas about it.
AtOm == UNION {inbox[c] : c \in Connections}
Phase == [r \in Requests |-> PhaseOf(r)]
Body == [r \in Requests |-> IF status[r] = 200 THEN answer[r] ELSE NoRequest]

\* A step of a thread that neither sends its command nor replies shows nothing.
LEMMA SilentStep ==
    ASSUME IInv, NEW r \in Requests,
           \/ Reject(r) \/ Connect(r) \/ FailConnect(r) \/ Execute(r) \/ Fail(r)
           \/ ReadAnswer(r) \/ LoseAnswer(r) \/ ReadAnswerWithoutData(r)
           \/ Process(r) \/ Finally(r)
    PROVE  /\ UNCHANGED <<inbox, ran, status, Phase, Body>>
<1>1. UNCHANGED <<inbox, ran, status>>
  BY DEF Reject, Connect, CreateConnection, OpenSession, FailConnect,
     CreateConnectionFails, CreateConnectionThenNotConnected, Execute, BeginExecute, Fail,
     FailExecute, ReadAnswer, EndExecute, LoseAnswer, ReadAnswerWithoutData,
     EndExecuteWithoutData, Process, Finally, ReleaseConnection, imsConnectVars
<1>2. \E p \in Phases \ {"idle", "replied"} : GoTo(r, p)
  BY DEF Reject, Connect, FailConnect, Execute, Fail, ReadAnswer, LoseAnswer,
     ReadAnswerWithoutData, Process, Finally
<1>3. pc[r] \notin {"idle", "replied"}
  BY DEF Reject, Connect, FailConnect, Execute, Fail, ReadAnswer, LoseAnswer,
     ReadAnswerWithoutData, Process, Finally
<1>4. UNCHANGED Phase
  BY <1>2, <1>3 DEF IInv, Phase, PhaseOf, GoTo
<1>5. \A s \in Requests : s # r => answer'[s] = answer[s]
  <2>1. UNCHANGED answer \/ ReadAnswer(r)
    BY DEF Reject, Connect, FailConnect, Execute, Fail, LoseAnswer,
       ReadAnswerWithoutData, Process, Finally
  <2>2. ASSUME ReadAnswer(r) PROVE \E a \in Requests : answer' = [answer EXCEPT ![r] = a]
    BY <2>2 DEF ReadAnswer
  <2> QED
    BY <2>1, <2>2 DEF IInv
<1>6. status[r] # 200
  BY <1>3 DEF IInv, Settled
<1>7. UNCHANGED Body
  BY <1>1, <1>5, <1>6 DEF Body
<1> QED
  BY <1>1, <1>4, <1>7

\* Every step is one of OmInteraction: Arrive accepts, Send submits, OmRuns runs,
\* Reply succeeds or refuses, and the others show nothing.
LEMMA PromiseStep ==
    ASSUME IInv, [Next]_vars
    PROVE  [Promise!AbstractNext]_(Promise!abstractVars)
<1> USE DEF IInv, AtOm
<1>0. /\ Phase \in [Requests -> Phases \cup {"accepted"}]
      /\ Body \in [Requests -> Requests \cup {NoRequest}]
  BY DEF Phase, PhaseOf, Body
<1>1. ASSUME NEW r \in Requests, Arrive(r) PROVE Promise!Accept(r)
  <2>1. Phase[r] = "idle" /\ Phase' = [Phase EXCEPT ![r] = "accepted"]
    <3>1. pc[r] = "idle" /\ pc' = [pc EXCEPT ![r] = "handling"]
      BY <1>1 DEF Arrive, GoTo
    <3>2. \A s \in Requests : PhaseOf(s)' = IF s = r THEN "accepted" ELSE PhaseOf(s)
      BY <3>1 DEF PhaseOf
    <3>3. Phase' = [s \in Requests |-> IF s = r THEN "accepted" ELSE Phase[s]]
      BY <3>2 DEF Phase
    <3>4. Phase[r] = PhaseOf(r)
      BY DEF Phase
    <3>5. Phase' = [Phase EXCEPT ![r] = "accepted"]
      BY <1>0, <3>3
    <3> QED
      BY <3>1, <3>4, <3>5 DEF PhaseOf
  <2>2. UNCHANGED <<AtOm, ran, status, Body>>
    BY <1>1 DEF Arrive, imsConnectVars, Body
  <2> QED
    BY <2>1, <2>2 DEF Promise!Accept, Phase, Body
<1>2. ASSUME NEW r \in Requests, Send(r) PROVE Promise!Submit(r)
  <2>1. conn[r] \in Connections
    BY <1>2 DEF Send, Assigned
  <2>2. Phase[r] = "accepted" /\ UNCHANGED Phase
    BY <1>2 DEF Send, GoTo, Phase, PhaseOf
  <2>3. r \notin AtOm /\ ran[r] = 0
    BY <1>2 DEF Send, Counted
  <2>4. AtOm' = AtOm \cup {r}
    BY <1>2, <2>1 DEF Send, Deliver
  <2>5. UNCHANGED <<ran, status, Body>>
    BY <1>2 DEF Send, Deliver, Body
  <2> QED
    BY <2>2, <2>3, <2>4, <2>5 DEF Promise!Submit, Phase, Body
<1>3. ASSUME NEW r \in Requests, Reply(r) PROVE Promise!Succeed(r) \/ Promise!Refuse(r)
  <2>1. Phase[r] = "accepted" /\ Phase' = [Phase EXCEPT ![r] = "replied"]
    <3>1. pc[r] = "replying" /\ pc' = [pc EXCEPT ![r] = "replied"]
      BY <1>3 DEF Reply, GoTo
    <3>2. \A s \in Requests : PhaseOf(s)' = IF s = r THEN "replied" ELSE PhaseOf(s)
      BY <3>1 DEF PhaseOf
    <3>3. Phase' = [s \in Requests |-> IF s = r THEN "replied" ELSE Phase[s]]
      BY <3>2 DEF Phase
    <3>4. Phase[r] = PhaseOf(r)
      BY DEF Phase
    <3>5. Phase' = [Phase EXCEPT ![r] = "replied"]
      BY <1>0, <3>3
    <3> QED
      BY <3>1, <3>4, <3>5 DEF PhaseOf
  <2>2. UNCHANGED <<AtOm, ran>> /\ status[r] = 0
    BY <1>3 DEF Reply, imsConnectVars, Settled
  <2>3. CASE exc[r] = "none"
    <3>1. answer[r] = r /\ ran[r] = 1
      BY <1>3, <2>3 DEF Reply, Sound, OwnAnswer, Counted
    <3>2. status' = [status EXCEPT ![r] = 200]
      BY <1>3, <2>3 DEF Reply, StatusOf
    <3>3. Body' = [Body EXCEPT ![r] = r]
      <4>1. UNCHANGED answer
        BY <1>3 DEF Reply
      <4>2. Body' = [s \in Requests |-> IF s = r THEN r ELSE Body[s]]
        BY <3>1, <3>2, <4>1 DEF Body
      <4> QED
        BY <1>0, <4>2
    <3> QED
      BY <2>1, <2>2, <3>1, <3>2, <3>3 DEF Promise!Succeed, Phase, Body
  <2>4. CASE exc[r] # "none"
    <3>0. StatusOf(endpoint[r], exc[r]) \in {400, 500}
      BY <2>4 DEF StatusOf
    <3>1. status' = [status EXCEPT ![r] = StatusOf(endpoint[r], exc[r])]
      BY <1>3 DEF Reply
    <3>2. UNCHANGED Body
      <4>1. UNCHANGED answer
        BY <1>3 DEF Reply
      <4> QED
        BY <2>2, <3>0, <3>1, <4>1 DEF Body
    <3>3. \E x \in {400, 500} : status' = [status EXCEPT ![r] = x]
      <4>1. CASE StatusOf(endpoint[r], exc[r]) = 400
        <5>1. status' = [status EXCEPT ![r] = 400]
          BY <3>1, <4>1
        <5> QED
          BY <5>1
      <4>2. CASE StatusOf(endpoint[r], exc[r]) = 500
        <5>1. status' = [status EXCEPT ![r] = 500]
          BY <3>1, <4>2
        <5> QED
          BY <5>1
      <4> QED
        BY <3>0, <4>1, <4>2
    <3> QED
      BY <2>1, <2>2, <3>2, <3>3 DEF Promise!Refuse, Phase, Body
  <2> QED
    BY <2>3, <2>4
<1>4. ASSUME NEW c \in Connections, NEW r \in Requests, OmRuns(c, r),
             UNCHANGED <<requestVars, connectionVars>>
      PROVE  Promise!Run(r)
  <2>1. r \in AtOm /\ ran' = [ran EXCEPT ![r] = @ + 1]
    BY <1>4 DEF OmRuns
  <2>2. \A d \in Connections : r \in inbox[d] => d = c
    BY <1>4 DEF OmRuns, Carried
  <2>3. AtOm' = AtOm \ {r}
    BY <1>4, <2>2 DEF OmRuns
  <2>4. UNCHANGED <<Phase, status, Body>>
    BY <1>4 DEF requestVars, Phase, PhaseOf, Body
  <2> QED
    BY <2>1, <2>3, <2>4 DEF Promise!Run, Phase, Body
<1>5. ASSUME UNCHANGED <<inbox, ran, status, Phase, Body>>
      PROVE  UNCHANGED Promise!abstractVars
  BY <1>5 DEF Promise!abstractVars, Phase, Body
<1>6. CASE \E r \in Requests : Arrive(r) \/ Handle(r)
  BY <1>1, <1>2, <1>3, <1>5, <1>6, SilentStep DEF Handle, Promise!AbstractNext
<1>7. CASE ImsConnectNext /\ UNCHANGED <<requestVars, connectionVars>>
  <2>1. ASSUME NEW c \in Connections, DropSession(c)
        PROVE  UNCHANGED <<inbox, ran, status, Phase, Body>>
    BY <1>7, <2>1 DEF DropSession, requestVars, Phase, PhaseOf, Body
  <2> QED
    BY <1>4, <1>5, <1>7, <2>1 DEF ImsConnectNext, Promise!AbstractNext
<1>8. CASE UNCHANGED vars
  <2>1. UNCHANGED <<inbox, ran, status, Phase, Body>>
    BY <1>8 DEF vars, requestVars, imsConnectVars, Phase, PhaseOf, Body
  <2> QED
    BY <2>1, <1>5
<1> QED
  BY <1>6, <1>7, <1>8 DEF Next

\* Every behaviour of the threads, of IMS Connect and of OM is one OmInteraction
\* allows: a 200 carries the answer to a command of its own that ran once, and a
\* command not sent by the time of the reply is never sent.
THEOREM PromiseIsKept == Spec => KeepsPromise
<1>1. Init => Promise!AbstractInit
  BY DEF Init, ConnectionInit, ImsConnectInit, Promise!AbstractInit, PhaseOf
<1> QED
  BY <1>1, PromiseStep, Invariance, PTL DEF Spec, KeepsPromise, Promise!AbstractSpec

=============================================================================
