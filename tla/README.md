# A verification of sblim-sfcc

sblim-sfcc is a client library for CIM servers: a program asks it for an
operation on a class or an instance, it sends the request as XML over HTTP
(libcurl), parses the answer and returns data objects in the style of CMPI. A
second part listens for indications that servers post.

This directory holds TLA+ models of the library, the TLC configurations that
check them and proofs for TLAPS. It was written from the sources under
`backend/cimxml`, `frontend/sfcc` and `cimc`; names in the models are the names
of the C functions and variables wherever TLA+ allows it. `PROJECT.json` maps
every definition to the lines it stands for and lists the hazards of the code
with the properties that watch them.

    tlc -config IndicationListener.cfg MCIndicationListener.tla
    tlapm IndicationListener_Proofs.tla

## 1. The system

| Component | State it keeps | Operations | What is hard about it |
|---|---|---|---|
| Indication listener (`indicationlistener.c`) | the flag `do_listen`, one for the whole process; listener objects; a socket per thread | create, start, stop, release; a thread per start: bind, select, accept, serve | threads nobody joins, a flag and an object read while the application changes them, `exit()` on errors of a single peer |
| Scanner and grammar (`cimXmlParser.c`, `grammar.c`) | the look-ahead `ct`/`dontLex` (static), `scan_mutex`; a buffer and a heap per scan | `scanCimXmlResponse`, some fifty mutually recursive parsing functions | hand-written push-back in twenty loops, static state shared by all threads, no recovery: what is unexpected ends the process |
| Parser utilities (`parserUtil.c`) | none of their own | turn parsed records into instances, classes, paths; store results | types carried from one element to the next, missing attributes |
| Client operations (`client.c`) | per connection: curl handle, headers, response, status, what libcurl was given as body | 17 operations, release | four hand-written ways out of each operation, ownership of request, array, status and result |
| Transfer timeout (`checkProgress`, `client.c`) | the record `TimeoutControl` per connection | called by libcurl at least once a second | a wall clock that may be set, a callback compiled against two libcurl interfaces |
| Instances, object paths, property lists (`instance.c`, `objectpath.c`, `property.c`) | lists of named values, the filter of an instance | create, clone, release, set, add key, filter, convert into each other | deep copies by hand, states of a property, unterminated copies of lists |
| Arrays, enumerations (`array.c`, `enumeration.c`) | a growing block of elements; an array with a cursor | set, add, next, toArray, clone, release | growth with realloc, which clears one element only; two owners after `toArray` |
| Classes, methods, parameters, qualifiers, arguments (`constClass.c`, `method.c`, `parameter.c`, `qualifier.c`, `args.c`) | lists within lists | made by the parser, read, cloned, released by the program | deep copies by hand, three levels down |
| Values, strings, dates (`value.c`, `string.c`, `datetime.c`) | none | clone, release, conversion to and from text | types without a case |
| Request text (`addXml*`, `pathToXml`, escapes) | string buffer | append | fixed buffers for two headers |
| Generic list, hash table, string buffer, factory (`genericlist.c`, `sfcUtil/`) | containers | add, remove, iterate, rehash, append | cursors that survive removals, keys the table frees and keys it does not, int arithmetic on sizes |
| Environment loader (`cimc/cimcclient.c`), C frontend (`sfcclient.c`) | the shared environment, its count, the release function noted; the library and its function table | `cmciConnect`, `cmciRelease`; load, connect, release | a mutex that is given back between a failure and its undoing, a table that is overwritten and outlives its clients |
| C++ frontend, top-level `sfcUtil`, tests, manual pages | – | – | not part of the built library; read for intent |

How they interact. An operation builds its request text from paths, instances
and arguments, installs callbacks in libcurl (`writeHeaders`, `writeCb`,
`checkProgress`), performs the transfer and, on the same thread, scans the
response; the scan stores objects in an array that the operation wraps in an
enumeration, copies from, or gives away. A listener thread scans the body of a
post with the same scanner and passes the instance to the application's
callback. Client threads and listener threads thus meet in `scan_mutex`; client
threads that use the legacy entry points also in `ConnectionControl.ccMux`,
under which they share one environment and count its clients; the application
meets the listener threads in `do_listen` and the listener object, without any
lock. The parser builds classes and instances by the same list functions that
the program then reads them with; list, hash table and string buffer are offered
through the factory of `UtilFactory`, the string buffer is also what every
request and response is collected in.

What makes each correct:

* listener: one answer per connection, a callback only for what was answered
  200, a bound on callbacks after stop, delivery in order, an end to every thread
  after stop, and a start that listens;
* scanner: an answer holds the elements of its own text in document order,
  whatever other threads scan; nothing ill-nested is accepted; no text blocks
  the mutex for ever;
* operations: the report is that of this exchange; nothing is used after its
  release; nothing is lost;
* timeout: no transfer is aborted before its time, each that stalls is ended;
* instances, paths, classes, arguments and arrays: they are values, every piece
  has one owner, a copy reads as the original;
* containers: a list is a sequence with a cursor, a hash table a map whose pairs
  are freed once, a buffer holds its text;
* environment: it is there as long as a client is, gone when none is, and no
  thread waits for a mutex it holds itself.

## 2. Modules

| Module | Models | Role |
|---|---|---|
| `IndicationListener` | `indicationlistener.c` | state machine |
| `IndicationDelivery` | what a listener promises: accept, deliver or drop, port by port | abstract specification |
| `ResponseGrammar` | `grammar.c`: each parsing function as a sequence of reads, calls and stores | data (a function from names to programs) |
| `ResponseScan` | the lexer, `localLex`, the mutex, the execution of the grammar by several threads | state machine |
| `TagNesting` | the depth and parent of a place in a text | definitions independent of the parser |
| `ScanService` | ask, answer with the contents of the own text, end on an unreadable one | abstract specification |
| `ClientOperation` | the operations of `client.c`, each as the program of steps it takes on every way out | state machine |
| `TransferTimeout` | `checkProgress`, libcurl's calls and the clock | state machine |
| `CimInstance` | `property.c`, `instance.c`, `objectpath.c` with the heap of values | state machine |
| `CimObjects` | instances and paths as values | abstract specification |
| `CimClass` | `constClass.c`, `method.c`, `parameter.c`, `qualifier.c`, `args.c` and the part of `parserUtil.c` that makes classes | state machine |
| `CimClasses` | classes and argument lists as values | abstract specification |
| `CimArray` | `array.c`, `enumeration.c` | state machine |
| `CimSequences` | arrays as sequences of values | abstract specification |
| `UtilList` | `genericlist.c` | state machine |
| `ListCursor` | a sequence of values and a cursor | abstract specification |
| `UtilHashTable` | `sfcUtil/hashtable.c`, `utilHashtable.c` | state machine |
| `HashMap` | a map, and what an iterator may return | abstract specification |
| `UtilStringBuffer` | `sfcUtil/utilStringBuffer.c` | state machine |
| `ConnectionControl` | `sfcclient.c` (connect, release), `cimcclient.c` | state machine |
| `MCClient` | `ClientOperation`, `ConnectionControl`, `UtilStringBuffer`, `UtilList`, `UtilHashTable` | composition for TLC |
| `MCExchange` | `ResponseScan`, `TransferTimeout` | composition for TLC |
| `MCCimData` | `CimInstance`, `CimClass`, `CimArray` | composition for TLC |
| other `MC*` | sets of inputs for TLC | model checking |
| `IndicationListener_Proofs` | theorems about `IndicationListener`, that it implements `IndicationDelivery`, and what follows from that | proofs |
| `ResponseScan_Proofs`, `ClientOperation_Proofs`, `CimInstance_Proofs`, `CimClass_Proofs`, `CimArray_Proofs` | theorems about the module of that name | proofs |
| `Client_Proofs` | theorems about `ConnectionControl`, `UtilStringBuffer`, `TransferTimeout`, and about the operations and the lists as parts of `MCClient` | proofs |
| `ClientTables_Proofs` | theorems about the hash tables as a part of `MCClient` | proofs |

The parts that `MCClient`, `MCExchange` and `MCCimData` bring together share no
state in the code: an operation does not touch a list, the scan of a response
begins when the wait for it is over, and two threads meet in the environment and
not in a connection. Their interleavings would only multiply states that tell
nothing. A behaviour of these compositions is therefore one of a single part,
which `part` names from the start; the states are the sum of those of the parts,
and the properties of a part are looked at in its behaviours.

### IndicationListener

A variable per C variable that outlives a call: `do_listen`, the objects
(`heap`), per thread its place (`pc`), its object, its socket's port and the
connection it serves. An action is the code between two points where the thread
may block, be overtaken or end the process: `Bind`, `TestFlag` (the loop's
condition), `SelectEmpty`/`Accept`/`AcceptFails`, `ReadHeaders`, one
`ParseHeader` per header, `EndHeaders`, `ReadPayload`, `Scan`, `Callback`,
`Close`. What a peer sends is a record of what the code tells apart (how the
header ends, the method, the order of the headers that matter, whether the body
comes, comes in part or overflows its length, what the scan makes of it). `exit()`
is a value of `proc`. Reading a
freed object gives any port, or ends the process. The socket is never closed,
as in the code: a restart on the same port therefore fails to bind and ends the
process, which `StartListens` shows.

`late`, `stopped` and `log` are history. `IndicationDelivery` knows ports,
connections and callbacks only; `DeliverySpec` is the refinement.

### ResponseGrammar, ResponseScan

A parsing function is a sequence of steps: read a token and choose an
alternative (with or without push-back of what does not fit, once or repeated),
call a function, push back, store. `ResponseScan` executes these on the
process-wide `ct` and `dontLex`, one token, call or store at a time, so that
threads could interleave if the mutex let them. The lexer works on places: start,
end and empty tags, character data, comments, unknown tags, bad attributes. Its
irregularities are kept: the end tag an empty tag will give (`etag`), the two
tables entries that name a wrong one, the NUL that `getContent` leaves, which
hides a comment, and the text that only three tags may have.

`ScanService` says what a response returns by the nesting of its tags alone: a
property's value of any kind, listed objects, objects with their path. The
grammar reads some of these and stores nothing: a property that is an array or a
reference, and a class with its path. The texts of the run in which that happens
are `ValuesNotStored`; AnswersItsOwnText leaves them out, by name, and
`GetPropertyReturnsValue` shows what becomes of two of them. The two empty tags
for which the lexer gives a wrong end tag end the process: texts with one are
not among `Readable`, so the service may end on them.

### ClientOperation

The seventeen functions repeat one pattern with small differences in what they
release and when. Each is a sequence of steps (`New`, `Free`, `OrElse` with the
steps of an early return, `Hand`), read off the function line by line; an action
executes the first of them on the connection, the heap and the result. The
environment chooses how the transfer ends, the status headers (up to two, in
any order), the kind of body, whether the caller passed a status and the order
in which the caller later releases what it was given, the client included.

### TransferTimeout

`checkProgress` with one disjunct per return statement, against a wall clock
that ticks and may be set, a server that may stall, and gaps between calls.
With libcurl 7.50 and later the code installs the function as
`CURLOPT_XFERINFOFUNCTION`, which passes integers, while the function reads
doubles: in a build of that kind (`callback = "integers"`) the comparison of
received and expected bytes has either outcome at every call.

### CimInstance

An entry of a list holds the address of its value; the heap says which
addresses are allocated. An address is made of the object and the property it
was allocated for and a number: which free address malloc() returns makes no
difference, this choice keeps the states few, and the number keeps a value that
was not released visible. `setPropertyToItsOwn` gives a property the very value
that `getProperty` returned, which shares it with the instance: `__setProperty`
releases it before it clones it. The copies of a filter's name lists have no
terminator (`__duplicate_list` reserves room for one and does not write it), so
each walk to their end may leave them: the process then ends. A value set on a
property that is in the null state is cloned and stored (`property.c:125`, 130), and
neither read nor released by anyone: it stays on the heap under an address that
only has a number, and `lost` counts these.

### CimClass, CimArray

A class is a set of lists by place: its qualifiers, properties and methods, and
below these the qualifiers of each and the parameters of the methods. The parser
builds one class at a time from a `CLASS` element (`setClassProperties`,
`setClassMethods`, with the qualifiers first, as in `grammar.c`); it is then
cloned, read and released. A property or method whose name the class has
already makes the list function clone the caller's value, which is what the last
qualifier left there, released (`val`): the process may end, as it does when an
argument list is cloned without a place for the status. `EachNodeOnce` says that
a node is in one list of one class,
`ClassesAreValues` that a class reads the same until it is released.

An array has a block that may be longer than it is. `Grown` clears the one
element that is added and leaves the rest of the new block as realloc does, so
the model gives every such element any content, and reads of one that was not
set are visible to `ArraysAreSequences`. `setElementAt` grows before it looks at
the type, and does not release what it overwrites (`array.c:202`): the old value
stays on the heap without an owner, `lost` counts these. Arrays hold strings or
classes: what `native_clone_CMPIValue` makes of a class, for a clone or for
`setElementAt`, is a null pointer in an element that is not null; only the
scanner's `simpleArrayAdd` stores a class. `holders` counts who may release an
array: after `toArray` these are two.

### UtilList, UtilHashTable, UtilStringBuffer

`UtilList` has the cells, their `next` and `previous`, and the cursor, which
after a removal is a "deleted element" that remembers two neighbours. The
abstract list keeps that promise in its own terms: a cursor in the gap between
two places, which loses a side when the value there goes too. Addresses that a
cursor still holds are not given out again, so that a read of a freed element
shows.

`UtilHashTable` has the buckets as chains of pairs, the iterator as a bucket
and a pair, and the copies of keys: put on a key that is there frees the stored
copy or the caller's, rehashing moves every pair. `HashMap` allows an iterator
what it sees after a rehash (some pairs twice or not at all) and nothing more.

`UtilStringBuffer` follows the lengths: `max`, `len`, the size of the block, the
first NUL of the text, in int arithmetic of a width that is a constant. The loop
that doubles `max` is an action per round.

### ConnectionControl

Threads call `cmciConnect` and `CMRelease`. What happens under `ccMux` is split
where another thread could see it or the mutex is given back: when a connection
fails, `cmciConnect2` unlocks and calls `cmciRelease(NULL)`, which locks again.
The loader is the count of `dlopen`s of each library and the `release` entry of
its function table, which `cmciConnect2` overwrites for all clients of the
library. A program may also have an environment of its own (`own`), which keeps
a library open across the release of the shared one; a program that has not is
`own = NULL`.

## 3. Runs

CHECK_DEADLOCK is FALSE where the system may stop for good: the process may
end, all threads may be done, or the bound on calls is reached.

| Run | What it answers | Bounds |
|---|---|---|
| `IndicationListener` | TypeOK, AnsweredOnce, AtMostOneLate, DeliveredInOrder, the refinement DeliverySpec, StopQuiesces and PostsDelivered, under every interleaving | 2 listeners on 2 ports, 2 threads, 2 connections, a request for each way through handleConnection, with up to three headers; of two connections at a time one is a correct post |
| `StartListens` | violated: a start after a stop that has lasted ends the process | 1 listener, 2 threads |
| `StopIsPerListener` | violated: stop of one listener ends the other's thread | |
| `ReleasedNotUsed` | violated: stop, then release, and the thread still reads the object | |
| `Exchange` | the scan of a response: TypeOK, NothingPending, AcceptsOnlyNested, OnlyTheHolderReads, AnswersItsOwnText (refinement), ScanTerminates: one thread on a response for every kind of element, and on three responses with each of their tags lost or doubled, texts cut off, followed by junk or with tags the lexer stumbles over; two threads on lists, names, out parameters, an indication, nothing, an error and unreadable texts; the wait for one: TimeoutTypes, AbortJustified, StalledTransferEnds, both kinds of build | 1 thread with 20 readable and 179 broken texts; 2 threads with 9 texts; limits 3/1/1, 2 settings of the clock per transfer, gaps up to 2 |
| `GetPropertyReturnsValue` | violated: a property's value that is an array or a reference is read and not stored | 1 thread, a scalar, an array and a reference |
| `Client` | every operation × every exchange, then another operation on the same connection, then releases in any order (TypeOK, AnswersThisExchange, NoUseAfterRelease, NothingLost); threads that connect and release (NothingKept, ClientsKeepEnvironment, ReleaseIsTheBackends); a buffer up to the greatest int (TextInBlock, LoopAdvances); lists (ListsLinked, ListRefinesCursor); hash tables (PairsInPlace, TableOwnsItsPairs, TableRefinesMap) | 2 calls, 2 status headers; 2 threads, 3 schemes, one without a library, one that refuses; greatest int 31, texts of 0, 3 and 7; 2 lists, 3 elements, 2 values; 3 keys in 2 copies each, 3 values, 1 or 2 buckets at first, 1 iterator |
| `CreateInstanceReturns` | violated: success without a reference | 1 call |
| `TenMinutes` | violated: a silent server is waited for without limit | no setting |
| `CimData` | instances and paths (TypeOK, OneOwner, InstancesAreValues), classes and argument lists (EachNodeOnce, ClassesAreValues), arrays and enumerations (OneArrayOwns, ArraysAreSequences); the last of each is a refinement | 2 instances and 2 paths, 3 of them at a time, 2 names, 4 entries and lost values in all; 2 classes or argument lists at a time, 2 names and 4 entries, or 1 name and 6; 2 arrays of strings or classes, 2 enumerations, 4 elements and enumerations in all, 1 value lost, first block of 1 element instead of 8 |
| `SetPropertyReplaces` | violated: null stays null | 1 instance, 1 path |
| `EnvironmentWhenUsed` | violated: after a failed connection the environment is used without the mutex | 2 threads, 2 schemes |

Why these bounds are enough to be worth something. The listener's threads share
nothing but the flag, the objects and the ports, so two threads and two
listeners show every pair of steps that can meet; the second connection shows a
thread's second round. Two connections at a time meet in the flag, the scan and
the callbacks alone, so one of them is a correct post. A header can only change
what the previous ones left in `discard` and `hasLength`; the requests have each
header first, after one that refused the request, and repeated. The look-ahead
of the grammar is one token, so texts that hold each element once or twice, and
the same with one defect, meet the branches of its functions; longer texts
repeat them. What an operation leaves to the next is the connection, which two
calls exhaust. The clock's limits are small but keep their order: timeout
greater than plausible progress, and gaps both below and above it; two settings
and one fixup beyond the first reach the limit. In CimInstance four entries are
a path with two keys and an instance made from it, the least in which the order
of keys shows; in CimClass four are a class with a method, its qualifier, its
parameter and one entry more, which is every level of nesting; six with one name
are that class and its clone. One lost value is as good as many: nothing depends
on their number. Arrays start with a block of one element instead of eight, so
that four elements are two growths. Three list elements and two lists have a
removed element with both neighbours in the list, and a copy. Three keys with
three values, two of which collide and a third that does so only before the
rehash, are a chain with a middle in a table of one bucket, and the third put
into it is the one that makes the table rehash by itself, an iterator on a pair
or not; two copies of each key tell the table's from the caller's. In
ConnectionControl two threads show each way a failure can be overtaken; the
third scheme is one without a library. For the buffer the greatest int is 31, so
that doubling overflows within four appends.

Fairness. Each listener thread is weakly fair while the process runs: the
operating system schedules threads, and no peer is assumed to send anything
(`Stalled` is excluded in the conclusions, not by fairness). A thread in a scan
is weakly fair; who gets the mutex is not. libcurl calls the progress function
again and again and time passes (WF of `checkProgress` and `Tick`); the clock is
set finitely often in a transfer, because an administrator who keeps setting it
back by what has passed makes time stand still. Nothing else is fair, and the
application never is.

What each property depends on is shown by mutants: for each property of a
passing run `PROJECT.json` names a definition and a plausible bug in it (a
dropped guard, a missing reset, a shallow copy, a forgotten push-back) under
which TLC finds the property violated.

## 4. Proofs

`IndicationListener_Proofs`, for any sets of listeners, threads, ports and
requests and any number of connections:

* `TypeCorrect`. TypeOK is not inductive: that a thread with a callback to make
  has a listener and a port follows from where it is. `ThreadsOK` says that a
  thread that was started has an object, one past `Bind` and no other a port, and
  one that serves a connection a request; TypeOK and ThreadsOK together are
  inductive. The proof has a step per action,
  and lemmas for what the operators on connections (`Send`, `Refuse`,
  `ApplyHeader`) return.
* `LateBounded`. `LateInv`: while the flag is cleared, a thread that has called
  back since is at `close`, at the loop's test or ended: it meets the test before
  it can accept again.
* `OneAnswer`. `AnswerInv` relates what was sent to `discard` at every place,
  the places before and after a connection included.

The second part of `IndicationListener_Proofs`, for the same constants:

* `OrderPromised`. The abstract delivery alone keeps the order. `OrderInv` says
  that a connection is served by one port (`ServedOnce`) and that what was
  delivered is older than what its port serves (`DeliveredBefore`); that the
  log is in order follows when something is added to it.
* `ListenerDelivers`, the refinement. `Serving` is a choice among threads, so
  the proof first makes it a function of ports, places and connections and shows
  when a step leaves it alone or changes it for one port (`ServedKept`,
  `ServedChanges`); with `MapInv` (types, that a port is one thread's
  (`OneServer`), and that a thread between accept and callback serves a numbered
  connection) each action maps to a stutter, GoDown, Take, Drop or Deliver.
* `CallbacksInOrder`. DeliveredInOrder of the listener is that of the abstract
  delivery, seen through the mapping.

`ResponseScan_Proofs`, for any threads and any texts:

* `LookAheadIsTheHolders`. `HolderParses`: a thread is between lock and unlock
  exactly while it holds the mutex. All five kinds of step inside a parsing
  function are one lemma, as they touch the data of their thread only.
* `ScanTypes`. A thread's `todo` is a sequence of steps of the grammar, and these
  nest: an alternative of a read holds steps. Three levels are enough for every
  function of `grammar.c`, so the sets `Steps0`, `Steps1`, `Steps2` type them
  without recursion; a lemma per operator of `ResponseGrammar` says in which set
  its steps are, and `Programs` that every function is a sequence of them. The
  theorem says this of every state (`OwesSteps`), with TypeOK, and that the lexer
  never moves past the end of the text (`LexedBuffer`). What is stored of a
  response is not typed.
* `NothingIsLeftOver`. NothingPending speaks of a free mutex, where there is
  nothing to go on from. `ScanInv` carries it through the scan (`Ending`): as long
  as a thread owes steps, the last of them is one of the four that lead to the
  end tag of the document or to the end of the process (`LastSteps`), and with no
  step left no token is held back. What comes before the last step may be
  replaced, a call by a program or a read by an alternative, without touching
  it; what replaces the last step has to end in one of the four again.

`Client_Proofs`, first part, `ConnectionControl` for any finite set of threads and
any schemes and libraries:

* `ControlInv`, which all three rest on, says that the places under the mutex belong
  to its holder, that while an environment is held the holder alone is inside
  the count, that nothing is noted or kept while nothing is counted, and that the
  library of the environment is open exactly once for it and once more if the
  program holds it too. A thread that moves without touching count, environment
  or library is one lemma (`MoveKeepsInv`) for eleven of the seventeen actions.
* `ReleaseNeverWaitsForItself`. That the noted function is the backend's needs
  the history of the table: it is overwritten by each connection and fresh only
  when the library is opened anew. `NotedInv` says that without an environment of
  the program's own the table is fresh until something is noted.
* `NothingIsKept`. `CountInv`: the count is at most the number of threads that have
  a client, are about to get one, or have a count to take back (`Counted`). It
  is an inequality, because a connection that fails before it is counted takes
  back a count as well.
* `ClientsAreKept`. As long as only installed schemes are asked for, `KeepInv` makes
  that an equality, and every client is one of the environment that is held.

`Client_Proofs`, second part, `UtilStringBuffer` for any width of an int of at least
five bits, any first sizes and any texts:

* `TextStaysInBlock`. TextInBlock alone is not inductive: an append that finds
  room in `max` must find it in the block, so `BufferInv` adds that the block is
  at least as long as `max` whenever the buffer is at rest or about to be
  written. It holds of a clone because `strdup` gives it one byte more than
  `max`.
* `LoopGetsOn`. While the text needs at most half of what an int counts, `max` is
  positive in the loop and doubling is exact (`WrapBound`).

`Client_Proofs`, third part, `TransferTimeout` for any limits, clocks, servers and
both callbacks:

* `TimeoutTypeCorrect`, which includes that fixups never exceed the limit by
  more than one.
* `AbortsAreJustified`. `TimeInv` relates the record of the code to the time
  that really passed: counting began no earlier than the transfer, each fixup
  but the first belongs to an upset, and what the clock shows is at most what
  has passed plus what unseen settings may have added (`slack`).

`ClientOperation_Proofs`, for any operations, kinds of responses, status headers
and number of calls, and `Client_Proofs`, which takes the results over to
`MCClient`:

* All programs, exits included, follow one order: `PlaceOf` gives every step a
  place from 1 to 28, and what a program and an exit are made of is a set
  (`StepsOf`). `FlowInv` says that what is still to do is in that order and
  complete, so that the place of the first step tells what was done and which
  pointers are set; no induction over a program is needed.
* `OperationInv` adds to it the types; what was sent and received so far
  (`WireInv`), what the connection holds of it (`ConInv`), which pointers point to
  allocated objects at which place and who else has them (`MemInv`), what has
  been reported (`AnswerInv`) and who will release what is nobody's
  (`WasteInv`). TypeOK, AnswersThisExchange, NoUseAfterRelease and NothingLost
  are far from inductive: they speak of what is between operations, or of one
  value of `fault`. Each part has lemmas for the steps that can disturb it and
  one for those that do not.
* `OperationTypes`, `OperationsRelease`, `OperationsAnswer`, `OperationsForget`
  are the four properties, under `OpsAssumption`; `ClientTypes`,
  `ClientReleases`, `ClientAnswers`, `ClientForgets` the same of `MCSpec`.

`Client_Proofs`, fourth part, `UtilList` for any lists, addresses and values, under
`ListAssumption`:

* `ClientLists`. ListsLinked follows the pointers, and says nothing of a cursor;
  an element is also removed because a cursor is on it. `ListInv` says that there
  is a sequence of elements for every list (`Chained`): linked in both directions
  between the ends of the list, as long as the list knows, no element in two of
  them or twice in one, and all together what is allocated; and that a cursor,
  or what a deleted element remembers, is a cell of its list or an element that
  was freed (`CursorOf`). The walk that ListsLinked speaks of is that sequence
  (`ChainIs`, by the least place where two walks differ). A step gives one list
  another sequence and leaves the cells of the others alone (`Rechain`): one with
  an element more at some place, one with an element less, none, or a new one.
  That an allocated address is held by no cursor keeps the cursors of the other
  lists where they are (`CursorStays`).
* `ClientListsPromise`, the refinement of `ListCursor`. The mapping reads off every
  list its values (`ListSeqs`) and where its cursor stands (`ListCursors`): on a
  place, before the first, behind the last, or on an element that is deleted or
  another list's. `Stands` states both by the sequence of elements that `ListInv`
  knows of, so that a step that gives a list another sequence tells what its
  caller sees (`CursorAt`, `CursorMoves`); `PointersTyped`, that an element holds
  a value or NULL, is invariant beside it. There is one lemma for each call
  (`…Promise`: the result is the one promised and values and cursor become what
  is promised), and one for the steps that touch no list (`ListsRest`).

`ClientTables_Proofs`, `UtilHashTable` for any keys, copies, values, numbers of
buckets and hash function, under `TableAssumption`:

* `ClientTablesInPlace`, `ClientTablesOwn`. `TableInv`: the chain of bucket b holds
  exactly the keys of the table whose hash falls on b, each once (`Placed`, with
  `ChainsHold`); no two pairs share a value, and what was given to the table and
  not freed is what its pairs hold (`OwnedOnce`). A put or a removal changes one
  chain (`PushPlaces`, `RemovePlaces`). A rehash is the loop of the code, pair by
  pair through the old chains: that there is the function its definition speaks
  of (`StepwiseExists`), that it comes upon every key once (`WalkHolds`) and places
  what it comes upon (`MovedPlaces`) are inductions over the numbers up to a
  bound, each by the least number that would fail (`UpTo`). PairsInPlace alone is
  not inductive: after a rehash it needs that the number of buckets is not zero
  and a count of elements for which the search for a size ends.
* `ClientTablesPromise`, the refinement of `HashMap`, under `MapAssumption` too. The
  mapping reads off an iterator the pair it returned and those still to come: the
  rest of that pair's chain and the chains behind it (`Later`). In a table whose
  pairs are in place this is a function of the chains and the pair (`Seen`), and
  there is a lemma for what each change does to it: a pair pushed onto a chain
  (`LaterPushed`) is to come for those iterators whose pair is in an earlier bucket
  and for no others, as it goes to the head of its chain: this is why `HashMap`
  lets a new pair join some iterations and not others; a pair that is removed
  (`LaterRemoved`) is to come no more and changes nothing else; and the next pair
  an iterator returns, from its chain (`LaterInChain`) or from the next one that is
  not empty (`FromBucket`), is one of those to come, which are then the others.
  `IterInv` is what this needs of the iterators: each is on a pair of the table or
  on one that was freed, and unless a rehash met it, in the bucket of its pair.
  There is one lemma for each call (`…Promise`).

`CimArray_Proofs`, for any arrays, enumerations, types and sizes, and any first block
of at least one element:

* `ArraysOwnTheirValues`. OneArrayOwns is not inductive: `ArrayInv` adds that an
  address tells the element it was allocated for, that what nobody wrote and
  what is behind the last element hold none, and that a block that may grow is
  not empty. All operations come down to one lemma, `Replaced`: an array is
  replaced by another block, and the heap loses what the old one used and gains
  what the new one uses; for a value that is overwritten, `ReplacedAndLost` keeps
  it on the heap under an address that no element has (`LostApart`).

`CimClass_Proofs`, for any classes, argument lists and names:

* `NodesAreOnce`. `ClassInv`: the heap is exactly what the lists of the objects
  hold, a node names the object and the place it was made for, a list has a name
  once, an inner list has its property or method; and while the parser is in an
  element it is one the class under construction has (`Making`). The operations
  come down to three lemmas: a node added or found (`Added`), an object cloned
  (`ClonedKeepsInv`) and an object released.

`CimInstance_Proofs`, for any instances, paths, names, values, property lists and
filters:

* `InstanceTypes`, `ValuesHaveOneOwner`. `InstanceInv`: a value that a list owns was
  allocated for that object and that name, a name is in a list once, and the heap
  is exactly what the lists own and what was lost. `ReplacedList` is the one lemma
  about the heap: an object's list is replaced by another, what the old one owned
  goes and what the new one owns comes. Which keys a filter leaves for a path is
  chosen by number; `KeysCounted` and `KeysAreSource` show that they are entries
  of the list and each is taken once.

A theorem about a part of a composition instantiates the module with its proofs
under the names the composition gives to constants and variables, shows that the
definitions are the same, and that what the
composition does is, seen from the part, a behaviour of the part or stands
still.

The assumptions are those named in the modules (`ListenerAssumption`,
`ScanAssumption`, `BufferAssumption`, `NullAssumption`, `ThreadsAssumption` and
the assumptions on the limits); TLC evaluates them in the runs. What `CimArray`,
`CimClass` and `ClientOperation` assume (`ArrayAssumption`: sizes are natural
numbers, the first block is not empty, NULL is no array; `ClassAssumption`: no
class is an argument list, NULL is no class, name or list; `OpsAssumption`: the
operations and responses are those the model has, the bounds are natural
numbers, NULL is no object) is a hypothesis of their theorems. `MCCimData`
(`PartsAssumption`) and `MCClient` assume it of their parts
(`OperationAssumption`; `ListsAssumption` for the `ListAssumption` of
`UtilList`: what is inside a list's own structure has no address that is
allocated for an element, and NULL is no such address and no sequence of values;
and `TablesAssumption` for the `TableAssumption` of `UtilHashTable`: the keys
are finitely many and hash to natural numbers, no table is made with zero
buckets and the search for a size ends, a key is not a value, NULL is no array
of chains; and for its `MapAssumption`: NULL is no key, iterator or map either,
no key has the names the models give to what was freed, and a table is full at
more pairs per bucket than it is rehashed to, as it is in the code with 15 and
3), where TLC evaluates it.

Model-checked only:

* all liveness (StopQuiesces, PostsDelivered, ScanTerminates,
  StalledTransferEnds): beyond the prover's reach;
* AcceptsOnlyNested and AnswersItsOwnText: what the grammar answers for *every*
  text needs an induction over texts;
* the refinements InstancesAreValues (ObjectsAreValues of `CimInstance`),
  ClassesAreValues and ArraysAreSequences: not attempted.

## 5. What was found

Violated statements of the repository's own documents (runs above):

1. `stop` is documented per listener and stops all of them
   (`indicationlistener.c:517`).
2. A released listener "will not be used any further", but its thread still
   reads it (`indicationlistener.c:481`).
3. "10 minutes max per operation" holds only from the first byte of a response
   on (`client.c:265`).
4. createInstance reports success with a null reference when the response has no
   element (`client.c:1259`).
5. setProperty "adds/replaces", but a property that is null stays null
   (`property.c:121`).
6. "Can't create CMPIString without ConnectionControl.ccEnv !": the environment
   is tested without the mutex and may be gone when the string is made
   (`sfcclient.c:126`).
7. start is "Start listening", but after a stop it ends the process: the socket of
   the thread that left its loop was never closed, so bind fails
   (`indicationlistener.c:432`).
8. getProperty "returns a CMPIData object with the instance property value", but
   not of a property that is an array or a reference (`grammar.c:529`).

Behaviour that the models contain and no run is needed to show: getInstance and
getClass dereference a null pointer for a response without elements; the class
of a `VALUE.OBJECTWITHPATH` is read and not stored; the clone of an array, or of
an enumeration, of classes is one of null pointers (`value.c:109`; cmcift.h:739
says "Create an independent copy of this Array object"), which `CimSequences`
has as the code makes it; a peer that sends nothing more keeps a listening
thread for ever, and one bad connection ends the process (no property forbids
either: StopQuiesces and PostsDelivered are stated of threads that are not on
such a peer, and the abstract delivery may go down); a value set on a property
that is null, and one that setElementAt overwrites, is lost (OneOwner and
OneArrayOwns count these and forbid other losses); an empty `VALUE.REFARRAY` or
`VALUE.OBJECTWITHPATH` element, or a comment after character data, ends the
process; several ways out of an operation lose memory (the set `Forgotten` in
`ClientOperation` lists them all, and NothingLost says that there are no
others); a property name that comes twice in a `CLASS` element after a
qualifier, and a property set to the value its own getProperty returned, make
the library read what it has just released; cloning an argument list without a
status pointer dereferences it; setElementAt with a value of the wrong type
leaves an element that was never set; an array taken from an enumeration by
toArray is released by both; and if the program keeps the library open by an
environment of its own across the release of the last client, the next
connection notes `cmciRelease` itself as the function to call under the mutex,
and the release after it waits for ever (ReleaseIsTheBackends is therefore
stated of programs without one).

## 6. Not modelled, and why

* Request text and the text forms of values and paths: straight-line formatting
  that none of the properties depends on. The fixed buffers of `genRequest`
  (`client.c:341`) are sizes against inputs, without an order of events.
* Conversions of values (`value.c`, `value2Chars`) and `datetime.c`: functions of
  their input, without state.
* The making of instances from parsed records (`setInst*` in `parserUtil.c`)
  beyond the entries it leaves, and the attributes of elements.
* An empty list that `setClassQualifiers` and `setInstQualifiers` make and
  forget: the heap of the models has nodes, not headers of lists.
* Arrays whose elements are no pointers: they have nothing to own.
* Exchange of the hash, compare and release functions of a hash table that is in
  use: nothing in the library does it.
* The heap of the parser: allocated during a scan, freed as a whole after it.
* C++ frontend, top-level `sfcUtil`: not part of the build of the library.
* Two threads that use one client: nothing in the repository allows it.
* Failures of malloc: the code does not handle them.

## 7. What could follow

In the order of what matters most:

1. The refinements of `CimArray`, `CimClass` and `CimInstance`: the invariants
   their proofs need (`ArrayInv`, `ClassInv`, `InstanceInv`) are there; what is
   missing is that each operation is the abstract one.
2. `InstanceBuilder`: `setInstProperties` and its siblings in `parserUtil.c`.
3. Listener and operations composed over one `scan_mutex`: an operation and a
   post at the same time, from the thread's point of view of section 1.

A new module joins a run of its own only if it asks a question of its own;
otherwise it becomes a part of `MCClient`, `MCExchange` or `MCCimData`.
