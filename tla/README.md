# The IMS Operations API in TLA+

This directory specifies the IMS Operations API (`ims/`), a REST server that turns
HTTP requests into IMS commands, sends them to the Operations Manager (OM) of an
IMSplex through IMS Connect, and turns OM's answers into JSON. The modules are
written from the Java sources under `ims/src/main/java`, checked with TLC on small
instances and, all but the liveness, proved with
TLAPS for all instances.

Contents: [Inventory](#inventory) · [Modules](#modules) · [Runs](#runs) ·
[Fairness](#fairness) · [Proofs](#proofs) · [Disagreements](#disagreements) ·
[Not modelled](#not-modelled) · [What could follow](#what-could-follow)

## Inventory

| part of the system | state it keeps | operations | modelled by |
|---|---|---|---|
| `PgmService`, `TranService`, `RegionService` (singletons, called by all threads) | none but local variables | query, create, update, delete, start; stop, start, display of regions | `OmRequests` (order and outcome), `Commands` (parameters and text) |
| `OMServlet.executeImsCommand` | local variables | connect, execute, build the body, release | `OmRequests` (control), `OmResponse` (body) |
| `Om`, `CommandServices`, `Service` (one of each per request) | the connection, the result set, the message contexts | execute a command, process its answer | `OmRequests` (control), `OmResponse` (data) |
| `IconOmConnection`, `ImsConnectConnection`, `CreateOmConnection` (one of each per request) | `isSessionInUse`, `isErrorInConnection`, `isSessionTemp`, the socket, session times | create, execute, disconnect, release, ping | `IconOmConnection` |
| IMS Connect and OM (external) | sessions, commands not yet run, answers not yet read | accept, run, answer, drop | `ImsConnect` |
| `FIDManager`, `FIDReader` (one reader per IMS version, shared by all threads) | `FIDMap` (fixed once built), `fidToFid` (changed by every display) | build the maps from the macros, parse the answer to a display | `FidReader` (`fidToFid`), `FidMacro` (`FIDMap` and the cutting of lines) |
| `Type2CommandSerializable` and the command beans | the text built so far | marshal a bean into a command | `CommandText`, `Commands` |
| `AuthRequestFilter` (one, shared by all threads) | `springUsers`, the users read from a file at first need | check the headers and the user of a request | `AuthFilter` |
| beans of the OpenAPI document, Swagger UI, JSON4J, messages, Spring and Liberty wiring | none, or configuration | | not modelled |

**How the parts interact.** The container gives each HTTP request a thread. The
filter runs first; the service method builds the command and calls
`OMServlet.executeImsCommand`, which makes a connection of its own for the request
(`CreateOmConnection.getIconOmConnection`), builds an `Om` around it and, through
`CommandServices` and `Service`, runs `IconOmConnection.execute`. That call writes
to a socket and blocks until the answer or the interaction timeout (five minutes)
comes. The answer is parsed; that of a display goes through the `FIDReader` all
threads share. Failures travel up as exceptions: `OmConnectionException` and
`OmException` are rethrown as `RestException` (400),
`OmCommandGenerationException` and what nobody catches end in a 500,
`IllegalArgumentException` in a 400 where it is caught.

**What is hard.**

- *Failure at any point of a blocking call.* Five catch blocks, a statement after
  them outside the `try`, a disconnection that may throw while an exception is being
  handled, and one `finally` in the servlet that has to be right for all of them.
- *Answers that are late.* Nothing but the connection tells whose answer arrives. OM
  runs a command also after the client has given up.
- *Non-repeatable commands.* Starts, updates and deletes must not run twice.
- *Sessions.* IMS Connect takes a limited number; who closes them?
- *Shared state without locks.* `fidToFid` is a `HashMap` all threads write;
  `springUsers` is read from a file by whichever threads find it null.
- *Answers with parts missing.* Response elements, message data, member errors, names and
  return codes may each be absent, and one command may be answered by several members.
- *Text put together and taken apart by position.* Separators appended and deleted,
  parentheses counted, columns accumulated from definitions with and without comments.

**What makes each part correct.**

- Requests: one reply each, 200 only with the answer to its own command, which ran
  exactly once (`OmInteraction`); nothing sent after the reply.
- Connections: in use as long as a thread waits on it and not after the reply; flagged
  once failed and not used after; disconnected by the executor if temporary.
- Displays: each row is read with the keys of its own header.
- Answers: a 200 has the code of every failure under the right name, each line under
  the member that sent it, and all of the data; an answer fails only for a stated reason.
- Commands: each parameter is said once, at its keyword, and nothing else is; the text
  is well formed and its part in `CMD(...)` can be found again.
- Filter: the answer depends on the request and on the file of users, not on who reads
  the file when, nor on which of two refusals was decided first by accident.
- Columns: one for each value, together as wide as the line from the first value on, and
  every key with its own value.

## Modules

**`ImsConnect`** is the external half: `sessions`, `inbox` (commands not run yet),
`outbox` (answers not read yet) and the history variable `ran`, which counts how
often OM ran each command. `OmRuns` may happen at any time or never, and with the
session gone; `DropSession` may take the unread answers with it or not. It is as
hostile as the client code could find it: answers are late, lost, or never made.
The one thing it does not do is to deliver a command twice by itself.

**`IconOmConnection`** is the client end. `CreateConnection`,
`CreateConnectionFails` and `CreateConnectionThenNotConnected` are the outcomes of
`createConnection` and of the test of `isConnected` behind it; `BeginExecute`,
`EndExecute`, `EndExecuteWithoutData` and `FailExecute` are `execute` from
`setSessionInUse(true)` to its return, its line 180 and its five catch blocks.
`isSessionTemp`, the set of connections that have the flag, is a constant because nothing in the
repository changes it after construction: the empty set is how the servlet runs, the others are what the class offers
through `setSessionTemp`.

**`OmRequests`** composes both with the threads. `pc[r]` is where the thread of
request `r` is:

| `pc` | the thread is |
|---|---|
| `handling` | in the service method, before `executeImsCommand` |
| `connected` | past `new Om(omConnection)` |
| `executing` | in `execute`, before the send |
| `awaiting` | in `tmInteraction.execute()`, waiting |
| `answered` | past `execute`, with the answer |
| `finally` | at the `finally` of `executeImsCommand` |
| `replying` | at the catch clauses of the service method |
| `replied` | done |

`exc[r]` is the exception in flight, `conn[r]` the connection `Om` was built with
(`NoConnection` while `om == null`), `answer[r]` a history variable: whose answer was
read. The four `Endpoints` are the kinds of service method that differ in where they
parse the port, whether they marshal a bean and what they catch.

**`OmInteraction`** is the abstract specification: what an HTTP client may rely on,
with no connection, session or exception. `OmRequests` refines it under the mapping
at its `INSTANCE` (`Promise`): the phase is `pc` with the busy values collapsed,
`atOm` is the union of the inboxes, and the body is the answer of a 200.

**`FidReader`** models concurrent calls of `FIDReader.parseResults` for region
displays. A `put` is the four steps of `HashMap.putVal` and `resize` between which
other threads may come: the table is read, and if there is none, `oldTab` is read,
a new table published, entries moved. The FIDs, their order and the puts they give
rise to (`Puts`) are computed from the lines as `processFids` does, for commands with and
without `OTMA`. Keys and values are left out.

**`FidMacro`** is the other half of the display parser: `buildFIDObjects` reads one
storage definition per step (`AddBlank`, `AddSingle`, `AddColumn`) and accumulates
`columns`, the entry of `FIDMap`, with the flag `hadBlankPreviously`; then lines of that
format are cut by them (`BeginLine` to `EndLine`), one key per step. Whether a
definition is a value is known to the model and not to the reader. Definitions come in any order and
with any comments: blanks of any width before the first value, several blanks in a row, blanks that no
comment marks, and values that a comment calls blank, as the macros of
`DISPLAY15.txt` have them. What the properties ask of a format stands in them: `WellMarked`, its
comments are ones the reader can go by, and `HasRoom`, the values of the line leave as much
room as blanks are left in front of the first.

**`OmResponse`** takes one answer through `Service.processResponse` and the JSON of
`OMServlet`. `properties` is `responseProperties` of the result set, `context` the
message context, `data` and `messages` the body. A row of the body is the name of a
member and a set of lines, or a response element. Of the command only what the code
looks for in its text matters: `DIS`, `AOPOUTPUT`, `OTMA`. A return code or a name that
the answer does not have is an empty text in the context (`OrEmpty`, `ErrorsOf`), and so it is in the
body of a 200. Its outcomes correspond to those that `Process` of `OmRequests` leaves open (no run checks this): a 200, an `OmException`
(400), an exception nobody catches (500).

**`CommandText`** has the operators that write and read command text as sequences of
tokens: `SetText`, `LikeText`, `QcntText`, `ListText`, `RouteText`, `OneText` and
`Format` of `Type2CommandSerializable`, and `extractEssentialCommand` of `OMServlet`.
**`Commands`** extends it with all thirteen methods of the services. A parameter is the place it
is meant for, `<<"SET", "PGM">>`; a method either fills a bean (`FillBean`), refuses a
value (`Refuse`) and has its bean written field by field (`WriteField`, `CloseCommand`),
or writes the text of a type-1 command itself (`WriteDirect`). `Beans` has the fields of
the command beans in the order of their declaration, which is the order they are written in.

**`AuthFilter`** is the filter, one action per decision, for threads that share it:
`status[t]` is what `abortWith` was given last, `users[t]` the list the thread goes
through. `Load` is the assignment at line 114; other threads may come between it and the
test at 106. `readable` says whether the file can be read, chosen once.

**`MCOmRequests`**, **`MCFidReader`**, **`MCFidMacro`**, **`MCOmResponse`**,
**`MCCommands`** and **`MCAuthFilter`** hold the instances for TLC;
**`OmRequestsProof`**, **`OmResponseProof`**, **`AuthFilterProof`**, **`FidReaderProof`**,
**`FidMacroProof`** and **`CommandsProof`** the proofs about the modules they are named for.
**`Positions`**, the members of a set of positions in their order and where parts that follow
each other end, serves the columns and the parentheses; its lemmas are in
**`PositionsProof`**, those about texts of commands in **`CommandTextProof`**.
Operators whose comment begins with "Variant" are deliberate mistakes; no specification
uses them, and each is there to confirm that a property notices it.

## Runs

`Auth` and `FidMacro` check for deadlock: their threads and lines never end. The other
runs switch it off: when every request, display, answer or command is finished the system
stops, as it should.

| run | instance | shows |
|---|---|---|
| `Requests` | 3 requests, 3 connections, 2 sessions at a time, endpoints `type2` and `region` | `TypeOK`, `OwnAnswer`, `AtMostOnce`, `InUseWhileAwaiting`, `FreeWhenReplied`, `SuccessOverSoundConnection`, `NoCommandAfterError` |
| `Promise` | 2 requests, 3 connections of which one is temporary, 1 session, the endpoints `tranQuery`, `start` and `region`, fair threads | `TemporaryIsDisconnected`, `KeepsPromise` and `KeepsPromiseFairly` (refinement of `OmInteraction` without and with its fairness), `Replied` |
| `FidShared` | 3 displays with 2 to 3 rows each, two of them with `OTMA` | `TypeOK`, `AloneSucceeds` |
| `OneTime` | 2 requests, no temporary connections | `OneTimeSessionIsDisconnected` is **violated** |
| `FidRace` | 3 displays | `RowsFindTheirHeader` is **violated** |
| `Answers` | 6 kinds of command; answers with every combination of elements, of message data from up to 2 members, of up to 2 member errors and of codes | `TypeOK`, `FailuresReachTheClient`, `RowsNameTheirMember`, `NothingIsWithheld`, `DisplayShowsLastMember`, `AnswersGetThrough` |
| `Commands` | all 13 methods, every choice of up to 3 parameters, 5 lists of values, 3 routes | `TypeOK`, `ParametersAreSaid`, `WordsAreSeparated`, `EssentialCommandIsExtracted`, `BadValuesAreRefused` |
| `LostParameters` | create a transaction | `EveryParameterIsSaid` is **violated** |
| `StopRange` | stop regions | `StopsNamedRegions` is **violated** |
| `Auth` | 2 threads, 3 users of 2 names, every combination of headers | `TypeOK`, `AnswersAreOfTheRequest` |
| `FidMacro` | formats of up to 4 definitions after the identifier, 1 or 2 wide | `TypeOK`, `OneColumnPerValue`, `ColumnsCoverTheLine`, `KeysGetTheirValues` |
| `LeadingBlanks` | as `FidMacro` | `BlanksAreSkipped` is **violated** |

**Bounds, and why they are enough.** A request uses at most one connection, so as many
connections as requests never make a request wait for the model. Two requests suffice for one to
meet another's late answer; the third lets two succeed one another while a first is
still waiting. `SessionLimit` is below the number of requests, so that connecting
at the limit happens; a request that finds no room fails. The endpoints in
`Requests` are the two extremes of what the service methods catch; `Promise` has the two
between them and that of regions, and a connection more, so that two requests can be served by
ordinary connections only, or one of them by the temporary one. Requests and connections are interchangeable, hence the symmetry in the runs
without temporal properties. For all other numbers there are the proofs.
In `FidShared` two displays have `OTMA` in their command, one with an even and one with an
odd number of FIDs, so that both ways their entries come out are left behind for the
third, alone or not.

In `Answers` two members suffice for one to overwrite or be mistaken for another, and the texts they
send are the ones the code treats differently: none, one line, a table with an end, with
lines after the end, with several rows, and lines the parser does not know.

In `Commands` the separators left by one field meet those of the next, so pairs of
parameters show what goes wrong between fields, and three show a group with a field
on each side. The creation and the update of a transaction have over thirty parameters,
nearly all attributes of one `SET` that are treated alike: two at once, next to the
group and to each other. A list has one value or two, good or with a bad one after a
good one, or is `all`, which `StartTran` knows in any case; a route has one name, two or is absent.

In `Auth` the file has a name twice, with another password and role, so that it
matters which entry decides. Two threads are enough for a read of the file to come between
another's test and assignment.

In `FidMacro` four definitions hold every alternation of blanks and values with a blank in
front of two columns and one between them, two blanks in a row, before the first column too,
a value that is commented like a blank and a blank that is not.
Widths of 1 and 2 tell a lost width from one counted twice, and each value may
have any number of characters up to its width.

## Fairness

`Fairness` in `OmRequests` is weak fairness of each thread's next step, and nothing
else. The code justifies it: no lock is held while a thread waits, connecting
is bounded by `socketConnectTimeout` (two minutes) and waiting for the answer by
`interactionTimeout` (five minutes), `ConnectionFactoryProperties` lines 53-54. OM
and IMS Connect are not assumed to do anything, so `Replied` includes the case that
OM never answers, and none of the actions `OmRuns` or `DropSession` is fair.

`OmResponse` states weak fairness of its one thread, which computes and waits for
nothing; `AnswersGetThrough` needs it. The other specifications state none.

## Proofs

`OmRequestsProof` proves, for any finite sets of requests and connections, any
session limit, any set of endpoints served and any set of temporary connections:

| theorem | property |
|---|---|
| `Typing` | `TypeOK` |
| `AnswersAreOwn` | `OwnAnswer` |
| `CommandsRunAtMostOnce` | `AtMostOnce` |
| `UsedWhileAwaiting` | `InUseWhileAwaiting` |
| `FreedWhenReplied` | `FreeWhenReplied` |
| `SuccessIsSound` | `SuccessOverSoundConnection` |
| `ErrorIsFinal` | `NoCommandAfterError` |
| `TemporaryConnectionsAreClosed` | `TemporaryIsDisconnected` |
| `PromiseIsKept` | `KeepsPromise`: `OmRequests` implements `OmInteraction` (safety) |

The assumptions are those the modules state about their constants
(`RequestsAssumption` to `ServedAssumption`); TLC evaluates them in every run.

**The inductive invariant.** `OwnAnswer` alone is not inductive: nothing in it keeps
another request's answer out of the connection a thread reads from. `IInv` adds what
the code relies on without saying so:

- `Owned`: a connection a request has was created, and by no other request: an object is created
  once, and `getIconOmConnection` creates one per call;
- `Carried`: hence all that travels over a connection belongs to its owner;
- `Counted`: a command not sent has left no trace, one at OM has not run, an answer
  comes from a command that ran once;
- `Sound` and `Settled`: an exception, once thrown, stays in flight up to the reply;
  without one the connection bears no error flag and there is an answer;
- `Assigned`: which variables are set where.

`Next => IInv'` has one lemma per action. The refinement adds `SilentStep` (the steps
that change nothing the client sees) and `PromiseStep`, one case per action, which
uses `Counted` to show that a submitted command had not run and a 200 stands for one run.

`OmResponseProof` proves, for all members, lines, codes, commands and answers:

| theorem | property |
|---|---|
| `Typing` | `TypeOK` |
| `FailuresAreReported` | `FailuresReachTheClient` |
| `RowsAreNamed` | `RowsNameTheirMember` |
| `BodiesAreComplete` | `NothingIsWithheld` |
| `DisplaysAreOfTheLast` | `DisplayShowsLastMember` |

Its invariant follows the rows from the answer to the body. `Named` holds of
`properties` at every stage, and `Complete` from the end of parsing on: for a display it
says that what is there is the table of the *last* member, which is why `Stages` has to
bound `member`. `FailuresReachTheClient` rests on `context` being exactly what the answer
said, with an empty text for a code or a name it does not have, so that none is taken for
the zero of a success, and on a list of errors naming a member once (`IsErrorList`). From
assumptions: null and the empty text differ from each other and from all names and codes
(`NamesAssumption`), and null is no list of errors (`ErrorsAssumption`). `EndOfRows`, a `CHOOSE`,
exists by the well-ordering of the naturals (`LeastLine`).

`AuthFilterProof` proves, for any threads, any file of users and any requests:

| theorem | property |
|---|---|
| `Typing` | `TypeOK` |
| `AnswersDependOnRequests` | `AnswersAreOfTheRequest` |

`StatusOK` says what the response so far can be at each phase, which is what makes
the order of the two refusals harmless, and `PlaceOK` that a thread which looks for its
user goes through the whole file and has passed only entries of other names. That
`springUsers` is never seen half filled is `TypeOK` itself.

`FidReaderProof` proves, for any displays, rows, FIDs and commands with or without `OTMA`:

| theorem | property |
|---|---|
| `Typing` | `TypeOK` |
| `LoneDisplaysSucceed` | `AloneSucceeds` |

`AloneSucceeds` says nothing of what the map holds when a display begins, and neither
does its invariant. `Lone` says that a display which is alone is the only active one and
that its entries so far are in the map (`HasPut`): it makes a table only where there is none,
which is then before its first put, and it stores into the table that is in use. With
`PutsOfOneHeader` (each row's FID is among those put) the last entry completes what the
rows need. `AloneSucceeds` cannot be extended to displays that overlap: `FidRace` shows
why. From assumptions: a header has a FID no row has (`HeaderAssumption`), and null is
neither a display nor a FID. `UniqueFids` orders the FIDs by the number of first lines up
to theirs, and that this hits every position once is an injection between
finite sets of one size (`Positions`).

`FidMacroProof` proves, for formats of any length, definitions of any width and lines with
any contents:

| theorem | property |
|---|---|
| `Typing` | `TypeOK` |
| `ValuesAreColumns` | `OneColumnPerValue` |
| `CoverTheLine` | `ColumnsCoverTheLine` |
| `ValuesOfKeys` | `KeysGetTheirValues` |

The last three state for which formats: those whose comments mark the blanks (`WellMarked`), and
`KeysGetTheirValues` for which lines: those with room for the blanks left in front (`HasRoom`). Neither is an
assumption on the constants. That `HasRoom` cannot be dropped is what `LeadingBlanks` shows. Nor
can `WellMarked`: before the first value, a blank with the comment of a value is a counterexample to each of the three.

The reader does not see whether the last definition was a value; `hadBlankPreviously`
remembers exactly that in a format that is well marked (`Remembers`), and there it decides of the
next definition. What the columns are worth is in `ColumnsReach`: the *k*-th goes from where the *k*-th value starts to where the next one starts, the last to the end
of the definitions. A blank keeps this by moving the end of the last column and a value by
starting a new one. The sum of the widths follows, and so does the cutting: `CutInv` adds
`RestOfTheLine`, that what is left of the line when *k* keys are done begins before the *k+1*-st value
by the blanks that were not taken off with the identifier's (`Start(1) - 1`), and holds all characters of it and of the later ones.
One step then takes the characters of one value and the fillers on both sides, which `trim` drops,
whether or not the blanks at the end of the line are there: `HasRoom` is what keeps the value's last
characters from moving into the next column. From assumptions: a definition is at least one
character wide (`WidthsAssumption`).

`CommandsProof` proves, for any values and systems a client gives, any number of
parameters and every method:

| theorem | property |
|---|---|
| `Typing` | `TypeOK` |
| `Refusing` | `BadValuesAreRefused` |
| `Separating` | `WordsAreSeparated` |
| `Extracting` | `EssentialCommandIsExtracted` |
| `Saying` | `ParametersAreSaid` |

The argument of the first four rests on three facts about a text: which tokens it is made of, which tokens
follow which, and how many parentheses are open at its end and at least at each earlier token.
`Texts(T, R, d)` is the set of texts with these: tokens in `T`, neighbours in `R`, `d` open
parentheses and nowhere fewer than none. Two of them put together are one again if the token on either side
of the seam may meet (`TextsJoin`), which is all a step of the serializer has to
show.

- *Tokens.* `BodyTokens` are the marks, the words of the command language and the values that
  the parameters may have once the enumerations have been asked; `RouteTokens` are those of the
  systems. That no bad value is among them is `Refusing`.
- *Neighbours.* `Fitting` is what `WordsAreSeparated` asks of a type-2 command and `Apart` what it
  asks of the others. A piece that `ListText`, `OneText`, `SetText`, `LikeText` or `QcntText` writes is a
  phrase (`IsPhrase`): keyword, balanced parentheses, and a space but after an empty group. The deletions of `Format` are exactly what makes it one, and
  in each of the three group texts a different number of them.
- *Parentheses.* `extractEssentialCommand` counts from the first; a body that is balanced
  and nowhere below zero is what it returns (`EssentialCommands`), and ROUTE comes after it.

`IInv` says, phase by phase, that `text` is empty, or begins `CMD(` and goes on in phrases (`Writings`),
or is `CMD(` body `)` rest (`IsCommandText`, in `Writtens`); while the fields are written the bean is
what `FillBean` made of the request, so that what a field finds is bound to its parameter. It speaks of all
texts over the tokens, which TLC cannot enumerate; what it implies is what the run checks.

`Saying` needs a fourth fact: what a text says of a parameter, and where. `Says(T, S, place, a, b, v)` is
the set of texts over `T` that lead from the words `a`, whose parentheses are open before them, to the words
`b`, whose tokens of `S` are `v` in this order, and all stand in the parentheses of `place`.
Such texts put together add up (`SaysJoin`), whatever was open before.

- *Nesting.* The property finds the enclosing words of a token by looking back for parentheses that
  are still open. `IsNesting` follows the same words forwards, as a stack: an opening parenthesis
  pushes the word in front of it, a closing one pops. `EnclosingWords` proves that both are the same
  at each token of every text.
- *Fields.* `FieldSays`: a field says the values of its own parameters, under its own
  keyword and, for an attribute, its group, and nothing of any other. It rests on what the beans are
  (`BeansAreNamed`: no keyword names two fields, and no attribute is twice in a group) and on what
  `FillBean` puts in (`BeanSays`: with `plct` counted as lost, no setter gets the value of another parameter).
- *Steps.* `Sayings` strengthens `IInv`: while the fields are written, the text says all values of the
  parameters of the fields before `next`, and none of the others (`Due`); since no two fields have a
  parameter in common (`FieldOfParam`), each is said once. `Format` and `deleteCharAt` take away no value
  and no parenthesis (`SaysFormat`), and the route is said after all words are closed (`CommandsEnd`).

From assumptions: a list has an element (`ListsAssumption`), a method is one of the thirteen
(`MethodsAssumption`).

**Induction.** Sums of widths, depths of parentheses and texts put together from pieces are
recursive functions and folds. What holds of all of them is proved with two lemmas and no
theorem of induction: a set of naturals that has a member has a least (`LeastNatural`), so a
set with 0 in it that is closed under successors up to *n* contains 0 to *n* (`Upwards`). The
functions themselves, a `CHOOSE`, are shown to exist the same way (`EndsDefined`,
`FlattenSteps`).

**Only model-checked:**

- `Replied`, `AnswersGetThrough` and the fairness half of `KeepsPromiseFairly`: liveness;
- that what is said to be violated is: a counterexample needs no proof.

## Disagreements

- *A one-time session is not disconnected* (`OneTime`). The comments of
  `IconOmConnection` (54, 336-337, 345-347) say a session that is not cached and meant
  for one use is flagged so that the executor disconnects it. The servlet's
  connections are exactly that, but nothing calls `setSessionTemp`, and
  `ImsConnectConnection` (155) keeps them open for a cache that is not in the
  repository. Sessions stay open until the other end drops them; at the limit new
  requests fail, and are answered (`Replied`).
- *Concurrent first displays lose entries* (`FidRace`). `fidToFid` is said to map the
  FID of each row to its header's. Two threads that both find the map without a table
  each publish one, and the entries put into the first are lost; the row then ends in
  a `NullPointerException`. `AloneSucceeds` bounds the damage: a display nobody
  overlaps is not affected by what earlier ones did.

- *Blanks before the first value are not skipped* (`LeadingBlanks`). A comment (FIDReader 411)
  says that widths of blanks are added to the column before "so we skip the blanks when parsing". Before the
  first column there is none, and the width is dropped; `parseResults` takes off one character in every format.
  `DISPLAY15.txt` has two blanks there in A53, A54, A55 and A62 (374, 388, 402, 553), formats of rows of
  `DIS ACTIVE`, and 17 and 15 in A90 and A94. Each column of them begins that much too early,
  and a value that fills its definition loses its end to the next key. `KeysGetTheirValues` bounds the damage:
  with room enough between the values, `trim` makes up for it.
  A related weakness has no run of its own, as no comment denies it ("the most fragile in the class", 403-404): `WellMarked` does
  not hold of A66, whose blanks have the comment `*A BLANK` (620, 631), which none of the
  texts at 377-378 matches. They become columns, and the keys behind them get the values of their neighbours.
- *A described parameter is not part of the command* (`LostParameters`). `emhbsz` (both
  methods), `cpri` of the update of a transaction, `desc` and `rsc` of the creation of a program are
  described as if they had an effect, and no setter gets them; `plct` is given the value of
  `plcttime`. `ParametersAreSaid` states that these are all (`Lost`), together with a `QCNT` of
  which only one half is given. Also, `start` of a region looks at `job_name` only with a
  `member_name`, and `StartTran` at `class` only with the name `ALL`; with that name `CLASS` is written
  without a class too, as the list of an absent parameter is empty and not null: `CLASS []`.
- *A list of regions is a range* (`StopRange`). `reg_num` is described as identifiers of
  the regions to terminate; `1,3` becomes `1-3` and names region 2 as well, and a third
  identifier is dropped.

## Not modelled

- The reason codes, texts and summaries next to a return code: they are copied along
  with it.
- `coalesceContinuationLine`: it joins rows by their `MEMBER`, which only displays of
  OTMA have, and no service sends one. That it throws for the displays the services do send is
  in `OmResponse`.
- The cutting of a header line into keys, and the renaming of keys.
- In command text: values with parentheses, commas or spaces of their own, the replacement of underscores by
  hyphens (`Type2CommandSerializable` 206; no name of IMS has an underscore), empty
  elements of a list, and the branches for databases and RTC.
- Definitions of the FID macros that the regular expressions of `buildFIDObjects` do not
  match.
- Visibility between threads: `springUsers` and the fields of connections are seen as
  they were assigned last, and an object seen through them is complete. `HashMap` is
  the exception, where the steps of `putVal` and `resize` are apart.
- A `users.xml` that changes or becomes readable while the server runs: it is a resource of
  the deployed application.
- `ping`, `getNewInstance`, `noOpCommand`, session times: not reached from any service.
- Growth of `fidToFid` beyond its first table: the region displays know fewer FIDs
  than the twelve that make a `HashMap` grow.
- SSL and RACF settings of connections: passed through unchanged.
- Swagger UI (`webapp/swagger-ui*.js`, minified and vendored), JSON4J, the beans for the
  OpenAPI document, Spring and Liberty wiring: no logic of the API's own.

## What could follow

Every part of the system with logic of its own has a module. What would extend them:

1. Header lines in `FidMacro`: keys cut by the format of the header, with the first key
   taken from the line above, and their number compared with the columns of the values.
2. `coalesceContinuationLine`, once a service sends a display of OTMA: a member is added
   when its second line comes, so one with a single line would disappear, and one with three
   be added twice.
3. `OmResponse` composed with `OmRequests`, so that `Process` has the outcomes of a
   particular answer.
