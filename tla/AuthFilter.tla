------------------------------ MODULE AuthFilter ------------------------------
(***************************************************************************)
(* AuthRequestFilter: what is done with a request before its method runs.  *)
(*                                                                         *)
(* One filter object is shared by the threads of the server.  Its field    *)
(* springUsers, the users of users.xml, is null until a request needs it;  *)
(* several threads may find it null and each read the file.  The field has *)
(* no lock and is not volatile: the model takes an object that is seen     *)
(* through it to be complete, which the stores of this build are ordered   *)
(* for.                                                                    *)
(*                                                                         *)
(* abortWith keeps the last response it is given, and the filter goes on   *)
(* after it.                                                               *)
(***************************************************************************)
EXTENDS Naturals, Sequences

CONSTANTS
    Threads,      \* the threads of the server
    Names,        \* user names
    Passwords,    \* passwords
    Roles,        \* roles
    Asked,        \* the requests that are made
    UsersFile,    \* the users of users.xml in their order
    NULL,         \* springUsers before the file was read
    None          \* the request of a thread that has none

ASSUME UsersFileAssumption == UsersFile \in Seq([name : Names, password : Passwords, role : Roles])
ASSUME NullAssumption == NULL # UsersFile

(* A request as the filter sees it: whether it has the headers hostname and port,   *)
(* whether it has one of the headers username and password, what its Authorization  *)
(* is, and the roles of its method, if that is annotated.  "Alone" is a Basic       *)
(* without credentials, "Other" an absent header, another scheme, or credentials    *)
(* without a colon.                                                                 *)
Requests ==
    [address : BOOLEAN, racf : BOOLEAN, authorization : {"Other", "Alone", "Basic"},
     name : Names, password : Passwords, annotated : BOOLEAN, roles : SUBSET Roles]

ASSUME AskedAssumption == Asked \subseteq Requests

Phases ==
    {"Idle", "Headers", "Credentials", "Users", "Loading", "Taking", "Looking", "Filtered", "Answered"}

(* The statuses that the filter answers with; Passed when the method runs.          *)
Passed == 0
Statuses == {Passed, 400, 401, 403, 500}

VARIABLES
    springUsers,   \* the field of the filter
    readable,      \* whether users.xml can be mapped to users
    request,       \* the request of each thread
    phase,         \* where its thread is
    users,         \* the list that the thread goes through
    at,            \* the index in it
    status         \* the response given to abortWith last, Passed if none

vars == <<springUsers, readable, request, phase, users, at, status>>

Init ==
    /\ springUsers = NULL
    /\ readable \in BOOLEAN
    /\ request = [t \in Threads |-> None]
    /\ phase = [t \in Threads |-> "Idle"]
    /\ users = [t \in Threads |-> <<>>]
    /\ at = [t \in Threads |-> 1]
    /\ status = [t \in Threads |-> Passed]

GoTo(t, from, to) == phase[t] = from /\ phase' = [phase EXCEPT ![t] = to]

AbortWith(t, code) == status' = [status EXCEPT ![t] = code]

Arrive(t) ==
    /\ GoTo(t, "Idle", "Headers")
    /\ \E q \in Asked : request' = [request EXCEPT ![t] = q]
    /\ UNCHANGED <<springUsers, readable, users, at, status>>

CheckHeaders(t) ==
    /\ GoTo(t, "Headers", "Credentials")
    /\ IF request[t].address THEN UNCHANGED status ELSE AbortWith(t, 400)
    /\ UNCHANGED <<springUsers, readable, request, users, at>>

(* Credentials are looked at only when there are none for RACF, and for a method    *)
(* with roles.                                                                      *)
HasBasic(q) == ~q.racf /\ q.authorization = "Basic" /\ q.annotated
LacksCredentials(q) == ~q.racf /\ q.authorization = "Alone"

ReadCredentials(t) ==
    /\ GoTo(t, "Credentials", IF HasBasic(request[t]) THEN "Users" ELSE "Filtered")
    /\ ~LacksCredentials(request[t])
    /\ UNCHANGED <<springUsers, readable, request, users, at, status>>

(* NoSuchElementException leaves the filter; the server answers with 500. *)
FailCredentials(t) ==
    /\ GoTo(t, "Credentials", "Answered")
    /\ LacksCredentials(request[t])
    /\ AbortWith(t, 500)
    /\ UNCHANGED <<springUsers, readable, request, users, at>>

CheckUsers(t) ==
    /\ GoTo(t, "Users", IF springUsers = NULL THEN "Loading" ELSE "Taking")
    /\ UNCHANGED <<springUsers, readable, request, users, at, status>>

Load(t) ==
    /\ readable
    /\ GoTo(t, "Loading", "Taking")
    /\ springUsers' = UsersFile
    /\ UNCHANGED <<readable, request, users, at, status>>

\* Variant: without a file there are no users.
FailLoadWithoutUsers(t) ==
    /\ ~readable
    /\ GoTo(t, "Loading", "Filtered")
    /\ springUsers' = <<>>
    /\ AbortWith(t, 500)
    /\ UNCHANGED <<readable, request, users, at>>

FailLoad(t) ==
    /\ ~readable
    /\ GoTo(t, "Loading", "Filtered")
    /\ AbortWith(t, 500)
    /\ UNCHANGED <<springUsers, readable, request, users, at>>

TakeUsers(t) ==
    /\ GoTo(t, "Taking", "Looking")
    /\ users' = [users EXCEPT ![t] = springUsers]
    /\ at' = [at EXCEPT ![t] = 1]
    /\ UNCHANGED <<springUsers, readable, request, status>>

IsNamed(t, i) == users[t][i].name = request[t].name

SkipUser(t) ==
    /\ phase[t] = "Looking" /\ at[t] <= Len(users[t])
    /\ ~IsNamed(t, at[t])
    /\ at' = [at EXCEPT ![t] = @ + 1]
    /\ UNCHANGED <<springUsers, readable, request, phase, users, status>>

\* Variant: another user of the name may have the role.
DecideOnPassword(t) ==
    /\ at[t] <= Len(users[t])
    /\ IsNamed(t, at[t])
    /\ IF users[t][at[t]].password # request[t].password
       THEN GoTo(t, "Looking", "Filtered") /\ AbortWith(t, 401) /\ UNCHANGED at
       ELSE IF users[t][at[t]].role \in request[t].roles
       THEN GoTo(t, "Looking", "Filtered") /\ UNCHANGED <<status, at>>
       ELSE GoTo(t, "Looking", "Looking") /\ AbortWith(t, 403) /\ at' = [at EXCEPT ![t] = @ + 1]
    /\ UNCHANGED <<springUsers, readable, request, users>>

(* The first user of the name decides.  One that is allowed leaves the response of  *)
(* CheckHeaders.                                                                    *)
Decide(t) ==
    /\ at[t] <= Len(users[t])
    /\ IsNamed(t, at[t])
    /\ GoTo(t, "Looking", "Filtered")
    /\ \/ /\ users[t][at[t]].password # request[t].password
          /\ AbortWith(t, 401)
       \/ /\ users[t][at[t]].password = request[t].password
          /\ users[t][at[t]].role \notin request[t].roles
          /\ AbortWith(t, 403)
       \/ /\ users[t][at[t]].password = request[t].password
          /\ users[t][at[t]].role \in request[t].roles
          /\ UNCHANGED status
    /\ UNCHANGED <<springUsers, readable, request, users, at>>

RunOutOfUsers(t) ==
    /\ at[t] > Len(users[t])
    /\ GoTo(t, "Looking", "Filtered")
    /\ AbortWith(t, 401)
    /\ UNCHANGED <<springUsers, readable, request, users, at>>

(* The container: the response of abortWith, or else the method runs. *)
Answer(t) ==
    /\ GoTo(t, "Filtered", "Answered")
    /\ UNCHANGED <<springUsers, readable, request, users, at, status>>

Return(t) ==
    /\ GoTo(t, "Answered", "Idle")
    /\ request' = [request EXCEPT ![t] = None]
    /\ users' = [users EXCEPT ![t] = <<>>]
    /\ at' = [at EXCEPT ![t] = 1]
    /\ AbortWith(t, Passed)
    /\ UNCHANGED <<springUsers, readable>>

Filter(t) ==
    \/ CheckHeaders(t) \/ ReadCredentials(t) \/ FailCredentials(t)
    \/ CheckUsers(t) \/ Load(t) \/ FailLoad(t) \/ TakeUsers(t)
    \/ SkipUser(t) \/ Decide(t) \/ RunOutOfUsers(t)

Next == \E t \in Threads : Arrive(t) \/ Filter(t) \/ Answer(t) \/ Return(t)

Spec == Init /\ [][Next]_vars

-----------------------------------------------------------------------------
(* Properties *)

(* The variables have their types; springUsers is null or the whole file. *)
TypeOK ==
    /\ springUsers \in {NULL, UsersFile}
    /\ readable \in BOOLEAN
    /\ phase \in [Threads -> Phases]
    /\ request \in [Threads -> Asked \cup {None}]
    /\ \A t \in Threads : phase[t] # "Idle" => request[t] \in Asked
    /\ users \in [Threads -> {<<>>, UsersFile}]
    /\ at \in [Threads -> 1 .. Len(UsersFile) + 1]
    /\ status \in [Threads -> Statuses]

(* The user of users.xml that a request names: the first of the name. *)
IsUser(i, q) ==
    /\ i \in DOMAIN UsersFile /\ UsersFile[i].name = q.name
    /\ \A j \in 1 .. i - 1 : UsersFile[j].name # q.name

IsAuthenticated(q) == \E i \in DOMAIN UsersFile : IsUser(i, q) /\ UsersFile[i].password = q.password
IsAllowed(q) ==
    \E i \in DOMAIN UsersFile : /\ IsUser(i, q) /\ UsersFile[i].password = q.password
                                /\ UsersFile[i].role \in q.roles

(* What a request is answered with: its method runs only for one with an address    *)
(* whose credentials, if they are looked at, are those of a user with a role of the *)
(* method.  A refusal for them takes precedence over the one for the address, and a *)
(* file that cannot be read over both.                                              *)
IsAnswerTo(q, code) ==
    /\ LacksCredentials(q) => code = 500
    /\ ~LacksCredentials(q) /\ ~HasBasic(q) => code = IF q.address THEN Passed ELSE 400
    /\ HasBasic(q) /\ ~readable => code = 500
    /\ HasBasic(q) /\ readable =>
          /\ ~IsAuthenticated(q) => code = 401
          /\ IsAuthenticated(q) /\ ~IsAllowed(q) => code = 403
          /\ IsAllowed(q) => code = IF q.address THEN Passed ELSE 400

(* AuthRequestFilter.filter and isUserAllowed: the answer to a request depends on   *)
(* the request and the file alone, whoever reads the file in the meantime, however  *)
(* many read it at once, and whatever was asked before.                             *)
AnswersAreOfTheRequest ==
    \A t \in Threads : phase[t] = "Answered" => IsAnswerTo(request[t], status[t])

=============================================================================
