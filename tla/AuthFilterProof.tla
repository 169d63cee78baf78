---------------------------- MODULE AuthFilterProof ----------------------------
(***************************************************************************)
(* Proofs about AuthFilter, for any number of threads, any file of users   *)
(* and any requests.                                                       *)
(***************************************************************************)
EXTENDS AuthFilter, TLAPS

(* A list that is there is the file, which then can be read. *)
LoadedIsReadable == springUsers # NULL => readable

(* The status of a request so far: of its address only, until it is decided. *)
StatusOK(t) ==
    /\ phase[t] \in {"Idle", "Headers"} => status[t] = Passed
    /\ phase[t] \in {"Credentials", "Users", "Loading", "Taking", "Looking"} =>
         status[t] = IF request[t].address THEN Passed ELSE 400
    /\ phase[t] \in {"Filtered", "Answered"} => IsAnswerTo(request[t], status[t])

(* What a thread knows of its request and of the list it goes through. *)
PlaceOK(t) ==
    /\ phase[t] \in {"Users", "Loading", "Taking", "Looking"} => HasBasic(request[t])
    /\ phase[t] \in {"Taking", "Looking"} => springUsers # NULL
    /\ phase[t] = "Looking" =>
         /\ users[t] = UsersFile
         /\ \A j \in 1 .. at[t] - 1 : UsersFile[j].name # request[t].name

IInv ==
    /\ TypeOK
    /\ LoadedIsReadable
    /\ \A t \in Threads : StatusOK(t) /\ PlaceOK(t)

-----------------------------------------------------------------------------
(* The users of the file. *)

(* The file is a sequence, so a user of it has a name, a password and a role. *)
LEMMA FileIsSequence ==
    /\ Len(UsersFile) \in Nat
    /\ DOMAIN UsersFile = 1 .. Len(UsersFile)
    /\ UsersFile \in Seq([name : Names, password : Passwords, role : Roles])
BY UsersFileAssumption

(* There is one first user of a name. *)
LEMMA FirstIsUnique ==
    ASSUME NEW q, NEW i, NEW j, IsUser(i, q), IsUser(j, q)
    PROVE  i = j
<1>1. i \in 1 .. Len(UsersFile) /\ j \in 1 .. Len(UsersFile) BY FileIsSequence DEF IsUser
<1>2. ~(i < j) BY <1>1, FileIsSequence DEF IsUser
<1>3. ~(j < i) BY <1>1, FileIsSequence DEF IsUser
<1> QED BY <1>1, <1>2, <1>3, FileIsSequence

(* What the first user of a name decides. *)
LEMMA FirstDecides ==
    ASSUME NEW q, NEW i, IsUser(i, q)
    PROVE  /\ IsAuthenticated(q) <=> UsersFile[i].password = q.password
           /\ IsAllowed(q) <=> UsersFile[i].password = q.password /\ UsersFile[i].role \in q.roles
BY FirstIsUnique DEF IsAuthenticated, IsAllowed, IsUser

(* A name that no user has is not authenticated. *)
LEMMA NobodyDecides ==
    ASSUME NEW q, \A j \in 1 .. Len(UsersFile) : UsersFile[j].name # q.name
    PROVE  ~IsAuthenticated(q) /\ ~IsAllowed(q)
BY FileIsSequence DEF IsAuthenticated, IsAllowed, IsUser

(* The two cases of an Authorization exclude each other. *)
LEMMA BasicIsNotAlone ==
    ASSUME NEW q PROVE ~(HasBasic(q) /\ LacksCredentials(q))
BY DEF HasBasic, LacksCredentials

-----------------------------------------------------------------------------
(* The initial states and the steps. *)

LEMMA InitIInv == Init => IInv
<1> SUFFICES ASSUME Init PROVE IInv OBVIOUS
<1>1. TypeOK BY FileIsSequence DEF Init, TypeOK, Phases, Statuses, Passed
<1>2. LoadedIsReadable BY DEF Init, LoadedIsReadable
<1>3. ASSUME NEW t \in Threads PROVE StatusOK(t) /\ PlaceOK(t)
    BY <1>3 DEF Init, StatusOK, PlaceOK
<1> QED BY <1>1, <1>2, <1>3 DEF IInv

(* What the threads that do not step know stays true. *)
LEMMA OthersKeep ==
    ASSUME IInv, NEW t \in Threads, NEW u \in Threads, u # t,
           request'[u] = request[u], phase'[u] = phase[u], users'[u] = users[u],
           at'[u] = at[u], status'[u] = status[u], readable' = readable,
           springUsers # NULL => springUsers' # NULL
    PROVE  StatusOK(u)' /\ PlaceOK(u)'
<1>1. StatusOK(u)' BY DEF IInv, StatusOK, IsAnswerTo
<1>2. PlaceOK(u)' BY DEF IInv, PlaceOK
<1> QED BY <1>1, <1>2

(* An action of the threads leaves the other threads alone and never takes the list *)
(* away; what is left to show of it is its own thread.                              *)
LEMMA ThreadSteps ==
    ASSUME IInv, NEW t \in Threads, TypeOK', LoadedIsReadable', StatusOK(t)', PlaceOK(t)',
           readable' = readable, springUsers # NULL => springUsers' # NULL,
           \A u \in Threads \ {t} : /\ request'[u] = request[u] /\ phase'[u] = phase[u]
                                    /\ users'[u] = users[u] /\ at'[u] = at[u]
                                    /\ status'[u] = status[u]
    PROVE  IInv'
<1>1. ASSUME NEW u \in Threads PROVE StatusOK(u)' /\ PlaceOK(u)'
    <2>1. CASE u = t BY <2>1
    <2>2. CASE u # t BY <2>2, OthersKeep
    <2> QED BY <2>1, <2>2
<1> QED BY <1>1 DEF IInv

(* The types after a step. *)
LEMMA ArriveKeepsTypes == ASSUME TypeOK, NEW t \in Threads, Arrive(t) PROVE TypeOK'
BY DEF TypeOK, Arrive, GoTo, Phases

LEMMA FilterKeepsTypes == ASSUME IInv, NEW t \in Threads, Filter(t) PROVE TypeOK'
<1> USE DEF IInv, TypeOK, GoTo, AbortWith, Phases, Statuses, Passed
<1>1. CASE CheckHeaders(t) BY <1>1 DEF CheckHeaders
<1>2. CASE ReadCredentials(t) BY <1>2 DEF ReadCredentials
<1>3. CASE FailCredentials(t) BY <1>3 DEF FailCredentials
<1>4. CASE CheckUsers(t) BY <1>4 DEF CheckUsers
<1>5. CASE Load(t) BY <1>5 DEF Load
<1>6. CASE FailLoad(t) BY <1>6 DEF FailLoad
<1>7. CASE TakeUsers(t)
    <2>1. springUsers = UsersFile BY <1>7 DEF TakeUsers, PlaceOK
    <2>2. 1 \in 1 .. Len(UsersFile) + 1 BY FileIsSequence
    <2> QED BY <1>7, <2>1, <2>2 DEF TakeUsers
<1>8. CASE SkipUser(t)
    <2>1. users[t] = UsersFile BY <1>8 DEF SkipUser, PlaceOK
    <2>2. at[t] + 1 \in 1 .. Len(UsersFile) + 1 BY <1>8, <2>1, FileIsSequence DEF SkipUser
    <2> QED BY <1>8, <2>2 DEF SkipUser
<1>9. CASE Decide(t)
    <2>1. status' \in [Threads -> Statuses]
        <3>1. CASE AbortWith(t, 401) BY <3>1
        <3>2. CASE AbortWith(t, 403) BY <3>2
        <3>3. CASE UNCHANGED status BY <3>3
        <3> QED BY <1>9, <3>1, <3>2, <3>3 DEF Decide
    <2>2. phase' = [phase EXCEPT ![t] = "Filtered"] BY <1>9 DEF Decide
    <2>3. \A u \in Threads : phase'[u] # "Idle" => request[u] \in Asked BY <1>9 DEF Decide
    <2>4. UNCHANGED <<springUsers, readable, request, users, at>> BY <1>9 DEF Decide
    <2> QED BY <2>1, <2>2, <2>3, <2>4
<1>10. CASE RunOutOfUsers(t) BY <1>10 DEF RunOutOfUsers
<1> QED BY <1>1, <1>2, <1>3, <1>4, <1>5, <1>6, <1>7, <1>8, <1>9, <1>10 DEF Filter

LEMMA EndKeepsTypes == ASSUME TypeOK, NEW t \in Threads, Answer(t) \/ Return(t) PROVE TypeOK'
<1> USE DEF TypeOK, GoTo, AbortWith, Phases, Statuses, Passed
<1>1. CASE Answer(t) BY <1>1 DEF Answer
<1>2. CASE Return(t)
    <2>1. at' \in [Threads -> 1 .. Len(UsersFile) + 1] BY <1>2, FileIsSequence DEF Return
    <2>2. \A u \in Threads : phase'[u] # "Idle" => request'[u] \in Asked BY <1>2 DEF Return
    <2> QED BY <1>2, <2>1, <2>2 DEF Return
<1> QED BY <1>1, <1>2

(* Decide: the first user of the name gives the answer. *)
LEMMA DecideAnswers ==
    ASSUME IInv, NEW t \in Threads, Decide(t)
    PROVE  StatusOK(t)' /\ PlaceOK(t)'
<1> DEFINE q == request[t]
           i == at[t]
<1>1. phase[t] = "Looking" /\ phase'[t] = "Filtered" BY DEF IInv, TypeOK, Decide, GoTo
<1>2. users[t] = UsersFile /\ HasBasic(q) /\ readable /\ readable' = readable /\ request'[t] = q
    BY <1>1 DEF IInv, PlaceOK, LoadedIsReadable, Decide
<1>3. i \in 1 .. Len(UsersFile) /\ UsersFile[i].name = q.name
    BY <1>2, FileIsSequence DEF Decide, IInv, TypeOK, IsNamed
<1>4. IsUser(i, q) BY <1>1, <1>3, FileIsSequence DEF IInv, PlaceOK, IsUser
<1>5. /\ IsAuthenticated(q) <=> UsersFile[i].password = q.password
      /\ IsAllowed(q) <=> UsersFile[i].password = q.password /\ UsersFile[i].role \in q.roles
    BY <1>4, FirstDecides
<1>6. ~LacksCredentials(q) BY <1>2, BasicIsNotAlone
<1>7. status[t] = IF q.address THEN Passed ELSE 400 BY <1>1 DEF IInv, StatusOK
<1>8. /\ ~IsAuthenticated(q) => status'[t] = 401
      /\ IsAuthenticated(q) /\ ~IsAllowed(q) => status'[t] = 403
      /\ IsAllowed(q) => status'[t] = IF q.address THEN Passed ELSE 400
    BY <1>2, <1>5, <1>7 DEF Decide, AbortWith, IInv, TypeOK
<1>9. IsAnswerTo(q, status[t])' BY <1>2, <1>5, <1>6, <1>8 DEF IsAnswerTo
<1> QED BY <1>1, <1>2, <1>9 DEF StatusOK, PlaceOK

(* RunOutOfUsers: nobody has the name. *)
LEMMA RunOutAnswers ==
    ASSUME IInv, NEW t \in Threads, RunOutOfUsers(t)
    PROVE  StatusOK(t)' /\ PlaceOK(t)'
<1> DEFINE q == request[t]
<1>1. phase[t] = "Looking" /\ phase'[t] = "Filtered" /\ status'[t] = 401
    BY DEF IInv, TypeOK, RunOutOfUsers, GoTo, AbortWith
<1>2. users[t] = UsersFile /\ HasBasic(q) /\ readable /\ readable' = readable /\ request'[t] = q
    BY <1>1 DEF IInv, PlaceOK, LoadedIsReadable, RunOutOfUsers
<1>3. \A j \in 1 .. Len(UsersFile) : UsersFile[j].name # q.name
    <2>1. at[t] \in Nat /\ at[t] > Len(UsersFile)
        BY <1>2, FileIsSequence DEF RunOutOfUsers, IInv, TypeOK
    <2>2. \A j \in 1 .. at[t] - 1 : UsersFile[j].name # q.name BY <1>1 DEF IInv, PlaceOK
    <2> QED BY <2>1, <2>2, FileIsSequence
<1>4. ~IsAuthenticated(q) /\ ~IsAllowed(q) BY <1>3, NobodyDecides
<1>5. ~LacksCredentials(q) BY <1>2, BasicIsNotAlone
<1>6. IsAnswerTo(q, status[t])' BY <1>1, <1>2, <1>4, <1>5 DEF IsAnswerTo
<1> QED BY <1>1, <1>2, <1>6 DEF StatusOK, PlaceOK

(* The filter takes no list away, and a list that is there can be read. *)
LEMMA FilterKeepsList ==
    ASSUME IInv, NEW t \in Threads, Filter(t)
    PROVE  LoadedIsReadable' /\ (springUsers # NULL => springUsers' = springUsers)
BY DEF IInv, TypeOK, LoadedIsReadable, Filter, CheckHeaders, ReadCredentials, FailCredentials,
       CheckUsers, Load, FailLoad, TakeUsers, SkipUser, Decide, RunOutOfUsers

(* The other steps of the filter. *)
LEMMA FilterKeepsPlace ==
    ASSUME IInv, NEW t \in Threads, Filter(t)
    PROVE  StatusOK(t)' /\ PlaceOK(t)'
<1>1. CASE CheckHeaders(t)
    BY <1>1 DEF IInv, TypeOK, CheckHeaders, GoTo, AbortWith, StatusOK, PlaceOK, Passed
<1>2. CASE ReadCredentials(t)
    <2>1. ~LacksCredentials(request[t]) /\ request' = request /\ status' = status
          /\ phase[t] = "Credentials"
          /\ phase'[t] = IF HasBasic(request[t]) THEN "Users" ELSE "Filtered"
        BY <1>2 DEF ReadCredentials, GoTo, IInv, TypeOK
    <2>2. status[t] = IF request[t].address THEN Passed ELSE 400 BY <2>1 DEF IInv, StatusOK
    <2>3. CASE HasBasic(request[t]) BY <2>1, <2>2, <2>3 DEF StatusOK, PlaceOK
    <2>4. CASE ~HasBasic(request[t]) BY <2>1, <2>2, <2>4 DEF StatusOK, PlaceOK, IsAnswerTo
    <2> QED BY <2>3, <2>4
<1>3. CASE FailCredentials(t)
    <2>1. LacksCredentials(request[t]) /\ request' = request /\ status'[t] = 500
          /\ phase'[t] = "Answered"
        BY <1>3 DEF FailCredentials, GoTo, AbortWith, IInv, TypeOK
    <2> QED BY <2>1, BasicIsNotAlone DEF StatusOK, PlaceOK, IsAnswerTo
<1>4. CASE CheckUsers(t)
    BY <1>4 DEF IInv, TypeOK, CheckUsers, GoTo, StatusOK, PlaceOK
<1>5. CASE Load(t)
    BY <1>5, NullAssumption DEF IInv, TypeOK, Load, GoTo, StatusOK, PlaceOK
<1>6. CASE FailLoad(t)
    <2>1. HasBasic(request[t]) /\ ~readable' /\ request' = request /\ status'[t] = 500
          /\ phase'[t] = "Filtered"
        BY <1>6 DEF FailLoad, GoTo, AbortWith, IInv, TypeOK, PlaceOK
    <2> QED BY <2>1, BasicIsNotAlone DEF StatusOK, PlaceOK, IsAnswerTo
<1>7. CASE TakeUsers(t)
    <2>1. phase[t] = "Taking" /\ phase'[t] = "Looking" /\ request' = request /\ status' = status
          /\ springUsers' = springUsers /\ users'[t] = springUsers /\ at'[t] = 1
        BY <1>7 DEF TakeUsers, GoTo, IInv, TypeOK
    <2>2. springUsers # NULL /\ springUsers = UsersFile /\ HasBasic(request[t])
        BY <2>1 DEF IInv, TypeOK, PlaceOK
    <2> QED BY <2>1, <2>2 DEF IInv, StatusOK, PlaceOK
<1>8. CASE SkipUser(t)
    <2>1. phase[t] = "Looking" /\ phase' = phase /\ request' = request /\ status' = status
          /\ springUsers' = springUsers /\ users' = users /\ at'[t] = at[t] + 1 /\ at[t] \in Nat
          /\ UsersFile[at[t]].name # request[t].name
        BY <1>8, FileIsSequence DEF SkipUser, IsNamed, IInv, TypeOK, PlaceOK
    <2>2. \A j \in 1 .. at'[t] - 1 : UsersFile[j].name # request[t].name
        BY <2>1 DEF IInv, PlaceOK
    <2> QED BY <2>1, <2>2 DEF IInv, StatusOK, PlaceOK
<1>9. CASE Decide(t) BY <1>9, DecideAnswers
<1>10. CASE RunOutOfUsers(t) BY <1>10, RunOutAnswers
<1> QED BY <1>1, <1>2, <1>3, <1>4, <1>5, <1>6, <1>7, <1>8, <1>9, <1>10 DEF Filter

(* A step of a thread leaves the variables of the others alone. *)
LEMMA OnlyItsOwn ==
    ASSUME TypeOK, NEW t \in Threads, Arrive(t) \/ Filter(t) \/ Answer(t) \/ Return(t),
           NEW u \in Threads \ {t}
    PROVE  /\ request'[u] = request[u] /\ phase'[u] = phase[u]
           /\ users'[u] = users[u] /\ at'[u] = at[u] /\ status'[u] = status[u]
           /\ readable' = readable
BY DEF TypeOK, Arrive, Filter, Answer, Return, GoTo, AbortWith, CheckHeaders, ReadCredentials,
       FailCredentials, CheckUsers, Load, FailLoad, TakeUsers, SkipUser, Decide, RunOutOfUsers

LEMMA NextIInv == ASSUME IInv, [Next]_vars PROVE IInv'
<1>1. CASE Next
    <2> PICK t \in Threads : Arrive(t) \/ Filter(t) \/ Answer(t) \/ Return(t) BY <1>1 DEF Next
    <2> TypeOK BY DEF IInv
    <2>1. CASE Arrive(t)
        <3>1. TypeOK' BY <2>1, ArriveKeepsTypes
        <3>2. StatusOK(t)' /\ PlaceOK(t)' /\ LoadedIsReadable' /\ springUsers' = springUsers
              /\ readable' = readable
            BY <2>1 DEF Arrive, GoTo, IInv, TypeOK, StatusOK, PlaceOK, LoadedIsReadable
        <3> QED BY <2>1, <3>1, <3>2, OnlyItsOwn, ThreadSteps
    <2>2. CASE Filter(t)
        <3>1. TypeOK' BY <2>2, FilterKeepsTypes
        <3>2. StatusOK(t)' /\ PlaceOK(t)' /\ LoadedIsReadable'
              /\ (springUsers # NULL => springUsers' = springUsers)
            BY <2>2, FilterKeepsPlace, FilterKeepsList
        <3>3. readable' = readable
            BY <2>2 DEF Filter, CheckHeaders, ReadCredentials, FailCredentials, CheckUsers, Load,
                        FailLoad, TakeUsers, SkipUser, Decide, RunOutOfUsers
        <3> QED BY <2>2, <3>1, <3>2, <3>3, OnlyItsOwn, ThreadSteps
    <2>3. CASE Answer(t)
        <3>1. TypeOK' BY <2>3, EndKeepsTypes
        <3>2. StatusOK(t)' /\ PlaceOK(t)' /\ LoadedIsReadable' /\ springUsers' = springUsers
              /\ readable' = readable
            BY <2>3 DEF Answer, GoTo, IInv, TypeOK, StatusOK, PlaceOK, LoadedIsReadable, IsAnswerTo
        <3> QED BY <2>3, <3>1, <3>2, OnlyItsOwn, ThreadSteps
    <2>4. CASE Return(t)
        <3>1. TypeOK' BY <2>4, EndKeepsTypes
        <3>2. StatusOK(t)' /\ PlaceOK(t)' /\ LoadedIsReadable' /\ springUsers' = springUsers
              /\ readable' = readable
            BY <2>4 DEF Return, GoTo, AbortWith, IInv, TypeOK, StatusOK, PlaceOK, LoadedIsReadable
        <3> QED BY <2>4, <3>1, <3>2, OnlyItsOwn, ThreadSteps
    <2> QED BY <2>1, <2>2, <2>3, <2>4
<1>2. CASE UNCHANGED vars
    BY <1>2 DEF vars, IInv, TypeOK, LoadedIsReadable, StatusOK, PlaceOK, IsAnswerTo
<1> QED BY <1>1, <1>2

-----------------------------------------------------------------------------
(* The theorems. *)

(* The inductive invariant holds of every behaviour. *)
THEOREM Safety == Spec => []IInv
BY InitIInv, NextIInv, PTL DEF Spec

(* The variables have their types, whatever the threads and the file are. *)
THEOREM Typing == Spec => []TypeOK
<1>1. IInv => TypeOK BY DEF IInv
<1> QED BY Safety, <1>1, PTL

(* Every request gets the answer that it and the file alone determine. *)
THEOREM AnswersDependOnRequests == Spec => []AnswersAreOfTheRequest
<1>1. IInv => AnswersAreOfTheRequest BY DEF IInv, StatusOK, AnswersAreOfTheRequest
<1> QED BY Safety, <1>1, PTL

=============================================================================
