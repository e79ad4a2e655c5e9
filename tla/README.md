# webserv in TLA+

webserv (`src/srcs`) is a small HTTP/1.1 server: one process, one thread, one
`poll()` loop, any number of listening sockets, static files, uploads and CGI
scripts. This directory holds TLA+ models of it, the TLC configurations that
check them on small instances, and proofs of what matters most for every
instance.

    tlasany M.tla                                   parse a module
    tlc -workers 2 -config files.cfg MCHandlers     check a run
    tlapm HandlersProofs.tla                        check the proofs of a module

Paths below are relative to `src/srcs` unless they begin with `src/`.

## The system

| component | state it keeps | operations | what makes it hard |
|---|---|---|---|
| event loop (`Server.cpp`) | `_sockets`, `poll_array`, `server_on` | prepare the array, `poll()`, walk it, accept, choose a handler, delete sockets, stop | the walk closes and opens descriptors under its own array; allocations fail anywhere; SIGINT comes anywhere |
| sockets (`sockets/`) | a descriptor, a state (Read, Write, Handle, Disconnect), a request, a response, a handler | `accept()`, one `recv()`, one `send()` | partial reads and writes, resets, half-closed peers, descriptors run out |
| HTTP request (`http/HTTPRequest.cpp`) | the buffer, the header map, body size, chunk size and position | `read()` | packets end anywhere; the chunked coding is removed in place |
| HTTP response (`http/HTTPResponse.cpp`) | header map, buffer, bytes sent | build, `send()` | stated against real length |
| handlers (`handlers/`) | the parts of the uri, the `FileInfo` taken at construction | `makeResponse()` for GET, HEAD, POST, PUT, DELETE and others | a handler is constructed in one round of `poll()` and answers in another; other sessions change the files in between; the disk is full |
| CGI (`handlers/ACgiHandler.cpp`) | a child process, two temporary files, a mapping | fork, wait, cut the output apart, kill | the thread waits for another process; process numbers are used again; the header's end is guessed |
| configuration (`config/`) | servers, their tree of locations | parse, complete, two look-ups | inheritance depends on the order of a map |
| start and end (`main.cpp`) | - | construct, loop, catch | an exception that leaves the loop ends everything |
| logging (`utils/log.*`) | a mutex, held from the first `<<` of a line to its `logger::end` | begin and end a line | a line that is begun and not ended |
| string helpers (`utils/string.*`) | - | search, cut, `strRemoveDoubled` | - |

How they interact: `main` constructs `Server`, which reads the configuration
and opens a `ListenSocket` for each address. The loop calls `action()` of each
ready socket: a `ListenSocket` accepts and the loop makes a `SessionSocket`;
a `SessionSocket` in state Read feeds its `HTTPRequest`, and when that is
complete the loop looks up the server and location and constructs a handler,
which takes the uri apart; in state Write the session calls the handler's
`makeResponse` once, a script's handler forks and waits in it, and the session
sends what it gave, then starts afresh or disconnects. All sessions share the
descriptor table, the files below the roots, the log, and the one thread.

For each component, what must hold:

- loop and sockets: a descriptor and the object in the map always belong
  together; an entry of the poll array stands for the socket it was made for,
  and what `poll()` said of it is still true when the walk comes to it; no
  socket is left in a state nobody polls; the thread waits only in `poll()`;
  each connection is served one request at a time, in order, and every complete
  request is answered or its connection ends;
- request: the verdict, the body, the uri's parts and the file of a form do not
  depend on how the bytes arrive, and are those the request means;
- handlers: what an answer says of the files was done, in one step; what a GET
  says was true at some moment; bodies are as long as announced;
- CGI: a script gets the request's body, is left alone, and its output reaches
  the client; one script at most runs;
- configuration: a location says what its block says, and otherwise what its
  parent says; a URI finds its most specific location, an address its server.

## Modules

| module | models | extends, instantiates |
|---|---|---|
| `RequestResponse` | abstract: what a client of the loop is promised | |
| `Server` | the loop, both kinds of sockets, the log's mutex, the kernel's part, the peers | implements `RequestResponse` |
| `HTTPRequest` | reading one request | |
| `RequestText` | the uri and the form of the request that was read | extends `HTTPRequest` |
| `ServerConfig` | parser, completion, look-ups | |
| `FileStore` | abstract: what answers say of the files | |
| `Handlers` | the handlers of many sessions over shared files | implements `FileStore` |
| `Cgi` | a script's process, input, output and response | |
| `ServerProofs` | proofs: type correctness; the inductive invariant of the loop | extends `Server` |
| `ServiceProofs` | proofs: what connections and requests may rely on; the refinement | extends `ServerProofs` |
| `Recursion` | lemmas: induction, and what a recursive function is, with sets and functions | |
| `RequestProofs` | proofs: packets do not matter, the decoding is what the message means | extends `HTTPRequest`, `Recursion` |
| `TextProofs` | proofs: the parts of the uri, the file of a form | extends `RequestText`, `RequestProofs` |
| `ConfigProofs`, `CgiProofs` | the proofs about `ServerConfig` and `Cgi` | extend the module each is about and `Recursion` |
| `HandlersProofs` | the proofs about `Handlers` | extends `Handlers` |
| `MCServer`, `MCHTTPRequest`, `MCServerConfig`, `MCHandlers`, `MCCgi` | the instances TLC checks | |

### Server

The thread is a program counter: `pass` (walking, or at the loop's head),
`prepared` (between building the array and entering `poll()`: where a SIGINT is
missed), `polling`, `action` (the entry passed `eventCheck`), `acted` (the rest
of `eventAction`), and `blocked` and `crashed`, where it stays. The split is
finer than the code's functions, so that peers, the kernel and SIGINT may act at
every point where what they change is read later. Clients connect, send a
request in one or two parts, receive, close and reset; bytes are symbols,
because `HTTPRequest` models them. A descriptor number is allocated lowest
first, as in the kernel, so numbers are reused at once. A response takes several
`send()`s, and a handler may hold temporary files. `poll_array` is a function of
descriptors: `_sockets` is a map ordered by them, and the walk is in that order.
`snap` is a history variable: which object an entry was made from. So are
`asked` and `answered`.

`is_locked` is the log's mutex. Every line is begun and ended within one step of
the model, except the one for an exception in `read()`
(`sockets/SessionSocket.cpp:36`), which is never ended. `LogBlocks` says whether
the level at which the program was built prints the line that follows it, at
level info. Both builds of `src/Makefile` (debug and info) do, so TRUE is what
runs; FALSE is a build with a level above info, and lets the rest of the system
be checked beyond that line.

`OutOfMemory` lets each allocation throw: growing the array, making a session,
appending to a buffer, making a response, making a handler (caught) and copying
the Host name (not caught). Where a connection is accepted, `Inserted` has every
outcome of `_sockets[fd] = new SessionSocket(...)`: in C++98 the entry may be made
before or after the session, so that a throw leaves a NULL entry or none, and the
descriptor is closed if it was the session's constructor that threw and open if
there was no session yet. A NULL entry ends the process where `eventArrayPrepare`
goes through it (`EventArrayPrepareCrashes`). When the response is out and there is
no memory for the header of the next one, the session ends.

`Pipelining` lets clients send before they have their answer.

### HTTPRequest and RequestText

`ReadData` is `HTTPRequest::read` after `recv()`; `Dechunk` the loop of
`dechunk`, as a recursive function over the object. The range of `size_t` is
0..MaxSize with wrap-around. The reference definition `Meaning` reads the
message as a whole, with no buffer, no position and no state.

`RequestText` goes on where the request is complete. `Construct` is the
constructor of `AHandler` up to the decoding, with `strRemoveDoubled` of the
start line before it, which erases the first of two slashes until there are no
two; `NormalizeUri` is one turn of the decoding loop, first
over the path for a script, then over the path. `code` is the variable the loop
does not initialise: in each call it begins as any character and then stays in
its place in the frame. `Form` is what `PostHandler` cuts out of a form.
`UriMeaning` and `UploadExtracted` compare with what the standards mean by a
uri and a form; chunk sizes that make positions wrap are exempt, because nobody
means anything by them. The raw uri is what locations are looked up with, and doubled
slashes go from the query too: both are as the code has it, and neither has a
property.

### ServerConfig

One action per directive, on a stack of blocks; the end of a location stores it,
the end of a server completes it (`Completed`, in the order of the map) and an
exception ends in `failed`. A field is one of four kinds by what a repetition
does (`once` throws, `many` adds, `code` overwrites, `cgi` throws and must agree
with the parents). Paths are sequences of numbers, compared as `std::string`
compares. `declared` is a history variable: the blocks as the file has them.

### Handlers and FileStore

A session is idle, `handled` (its handler is constructed: GET, HEAD and POST
have called `stat()`), or `answered`. One action per handler makes the whole
response in one step, as the one thread does; between the two steps other
sessions do the same. Files are sizes and lie in directories (`FileSystems`).
`FileInfo` tells whether the owner may read a file; whether the server can open it
is another matter. Each answer is made under some `denied`: any paths on which
`open()`, `opendir()`, `remove()` or `rmdir()` fail at that moment, for want of a
descriptor or a permission. `Denials` says which sets of paths; the proofs are for
all. When the disk may be full, `BufferSize` decides which failures the handler
notices: what fits into the stream's buffer is written after the status was
chosen. A script is one step with any of the answers `runCgi` can make. For
GET and HEAD there is a history: `seen`, what a look at the file would have shown
since the request, and `denied`, whether its own path was.

`FileStore` is what the answers promise. A file may come out cut off, under a
success or under a 500, when the disk is full; an upload whose form ends before
its data begin fails and leaves an empty file in any case; an answer of a script
promises nothing. Everything else must be exact: nothing is replaced by an
upload, a PUT tells new from replaced, no other file is touched.

### Cgi

The server's thread is in its loop or in the `runCgi()` of one session (`at`).
A process is the child of `fork()` (until `execve()`), a script, a zombie, or a
stranger the server knows nothing of, for numbers are used again. `holds` are
the connections a process inherited and keeps open: no descriptor is marked
close-on-exec. `RunCgi` writes the request's body into a temporary file and
rewinds it; `MakeCgiResponse` looks for the header's end, reads fields, and cuts
the body by the length the header states, reading behind the output if that is
more than there is (`Zero`, or `crashed`). A POST with neither a length nor chunks
is a request too (`http/HTTPRequest.cpp:67`): it has no body, and its script gets
what has come behind its header. `Over` is the destructor, whose
`kill()` goes to a number that was waited for already, or to every process after
a failed `fork()`.

## Runs

| run | instance | shows |
|---|---|---|
| `server_safety` | 2 addresses, 2 connections of 2 requests, 4 descriptors | the safety properties of the loop and `ImplementsRequestResponse` |
| `server_oom` | 1 address, 2 connections of 2 requests, 3 descriptors, allocations may fail, the log blocks | what survives: `LoopInv`, `OneUnderWay`, `ImplementsRequestResponse` |
| `server_live` | 2 connections, 5 descriptors | `RequestAnswered`, `StopsUnlessIdle` |
| `server_deadlock` | the log blocks | violated: `NeverStuck` |
| `server_pipelining` | a client that does not wait for answers | violated: `RequestAnswered` |
| `request_decoding` | all codings of up to 2 chunks, each with any symbol lost or changed; Content-Length up to 3; sizes at the end of `size_t`; no header field; all short uris; forms, in chunks or not | `DecodesAsWhole`, `PacketsDoNotMatter`, `UriMeaning`, `UploadExtracted`, `EscapesRunOut`, `PlainConstructed` |
| `uri_percent` | the uris alone | violated: `HandlerConstructed` |
| `config_tree` | every file of 6 directives, 2 servers, 4 paths, one field of each kind | inheritance and look-ups |
| `config_slash` | the same | violated: `DeclaredWins` |
| `files` | 2 sessions, 4 paths, 26 requests of all methods, the disk may be full, no path, one of two files or every path denied | `ImplementsFileStore`, `SomeTimeTrue`, `Framed`, `HeadGetsNoBody` |
| `cgi` | 2 sessions, 2 process numbers, 7 requests, 36 outputs | `OneScript`, `ScriptGetsBody`, `ScriptsUndisturbed`, `OutputKept`, `AnsweredInTheEnd` |
| `cgi_crlf` | the same | violated: `EofEndsBody` |

### The properties

- `NoDanglingFd`, `NoLeakedFd`: the map, the objects and the descriptor table
  agree, in both directions, whatever ends a session.
- `PollEntriesCurrent`: while the walk closes sockets and reuses their numbers,
  an entry still to come is about the socket it was made from. It holds because
  `accept()` only fills numbers whose entries were passed or never existed.
- `PollStillTrue`: what `poll()` reported of an entry still holds when the walk
  comes to it, so no call the walk makes can wait.
- `NeverStuck`: no `accept()` with an empty queue, no use of an erased entry, no
  exception, no wait for a mutex. The reason `eventCheck`'s `events == revents`
  is safe after a delete is that POLLERR or POLLHUP always adds a bit.
- `NoStrandedSocket`, `HandlerMatchesState`, `NoRequestLost`, `OneUnderWay`: the
  session's state machine; a request is in one place. `HealthyStaysOpen` says
  why a session may end.
- `RequestAnswered`, `StopsUnlessIdle`: liveness.
- `UriMeaning`, `PlainConstructed`: the parts of a well-escaped uri are those it
  means, whatever the uninitialised variable holds, and a uri with no escaped
  percent sign is decoded in the end. `EscapesRunOut` says why: each turn of the
  loop uses up one escape and makes none.
- `ParentsExist`, `Inherited`, `OneCgiPath`: one pass in map order is enough.
- `MostSpecificLocation`, `EveryListenedServed`: the look-ups.
- `ImplementsFileStore`: PUT, POST and DELETE are atomic and their answers true.
- `SomeTimeTrue`: what a GET answers from its old `stat()` was true once since
  the request, and a 500 says that the file went away or that the kernel would not
  open it. `Framed` is its companion for the length.
- `ScriptGetsBody`: where a request tells in which way its body ends, the script
  reads the body and nothing else. Without a length and chunks it reads all there
  is; a length and chunks together are the one case nothing is said of, and so is
  a full disk.
- `OneScript`, `ScriptsUndisturbed`: the late `kill()` never reaches a script,
  because the thread that could start another waits for the first.
- `OutputKept`: from a script's bytes to the client's, for every output that
  states no more than it writes; `EofEndsBody` is the same without the exception
  for an empty line in the text.

### Bounds

Two connections are enough for one to take the descriptor number of the other
while the array is walked; two requests, for an answer to the first to meet the
second; four descriptors (two listening) are fewer than two sessions and a
temporary file need, so that they run out. `BUFFER_SIZE`, `ResponseSize` and
`SendSpace` make responses take two `send()`s and wait for the client. In
`request_decoding` a packet has one to three symbols, so that every boundary is
hit; two chunks are the least with state carried from one to the next; a uri of
four characters holds one escape and what decoding it may run into, and those
with two or three escapes are listed. In `config_tree` five directives are the
least for a cgi mismatch between a server and a grandchild location. In `files`
two sessions are the least for a race, and a third adds no pair; a size of 2
exceeds the buffer of 1 that hides a failed write, and one request's body the
limit. In `cgi` two
process numbers let a stranger have the one a handler still remembers;
outputs are all of four headers, four bodies and three line ends. Connections
and sessions are symmetric, and symmetry is used in safety runs only.

### Fairness

`Server`'s `FairSpec` has weak fairness of the thread (an operating system runs
it when it can run) and of each client's receiving. Nothing is assumed of
connecting, sending, closing or SIGINT. `server_live` gives a descriptor to
every connection: with fewer, a client that keeps its connection and reads
nothing starves the next one, because no session has a deadline
(`Server.cpp:71`).

`Cgi`'s has strong fairness of starting each session's script: the walk gives
each ready session its turn in every round, however often others come before
it. The thread's waiting and the child are weakly fair, and so is the end of
each script. That is an assumption about scripts; the code has no deadline for
them, and one that does not end stops the server (`handlers/ACgiHandler.cpp:182`).

`RequestText`'s has weak fairness of the constructor, a loop the thread is in.

## What disagrees with the documents

The requirements are `src/www/server0/Webserv.pdf`, the configuration is
described in the comments of `src/config`. Each of these is a run whose
counterexample shows it; PROJECT.json quotes both sides.

1. `sockets/SessionSocket.cpp:36` (`server_deadlock`): a request that cannot be
   read begins a log line and does not end it; the next line waits for the mutex
   the thread holds itself, for ever.
2. `sockets/SessionSocket.cpp:58` (`server_pipelining`): requests received ahead
   are dropped.
3. `handlers/AHandler.cpp:102` (`uri_percent`): a path that ends in `%25` is
   decoded without end.
4. `config/ServerConfig.cpp:148` (`config_slash`): a `location /` block is
   overwritten.
5. `handlers/ACgiHandler.cpp:197` (`cgi_crlf`): behind a header of CRLF lines,
   text before an empty LF line is lost.

Other facts the models hold, which no property forbids:

- an allocation that fails before the try block of `handleRequest`
  (`Server.cpp:154`) ends the server; so does one after `accept()` that leaves a
  NULL entry (`Server.cpp:136`), which also leaks the descriptor. Page 3 of the
  requirements forbids both, "even when it runs out of memory"; `server_oom` checks
  what holds until then;
- a request without a header field is never answered (`http/HTTPRequest.cpp:34`),
  and trailer fields of two lines end a chunked request early;
- a POST with neither Content-Length nor chunks is taken with what has come behind
  its header (`http/HTTPRequest.cpp:67`), and its script reads that to the end, a
  part of the client's next request too;
- a file that changes between request and answer makes a GET a 500, or a body of
  another length than announced; a file whose owner may read it and the server may
  not, or for which there is no descriptor, makes it a 500 too;
- on a full disk 200 or 201 is answered for a file that was cut off;
- `Connection: close` is added to the header after the header was copied into
  the response: the client is told keep-alive and then closed on;
- the `kill()` of a handler's destructor may reach a process that has nothing to
  do with the server; after a failed `fork()` it is sent to all.
- a script's exit status is ignored; an empty output is answered by 502.

## Proofs

Eight modules, 37 theorems that state results and the lemmas they rest on. Each
is about every value of the constants, under the named ASSUMEs of the module it
is about: numbers are numbers and names are different; listening sockets have
descriptors of their own; files lie in directories and paths begin with the
root; a message is shorter than `size_t` counts and does not state two lengths
that differ (`MessagesAssumption`); a script writes fields, and a body of
anything (`OutputsAssumption`); the marks of a uri are no hexadecimal digits
(`CharsAssumption`). TLC evaluates each of them on the instances it checks.

Every safety property of a run that passes is stated by a theorem; the four
liveness properties are not.

**The loop.** `ServerProofs` proves `TypeCorrect == Spec => []TypeOK` and
`LoopInvariant == Spec => []LoopInv`, and from it `NoDanglingFd`,
`PollEntriesCurrent`, `NoStrandedSocket`, `HandlerMatchesState` and, when
`OutOfMemory` and `LogBlocks` are FALSE, `NeverStuck`. With `OutOfMemory` these
are about the entries that hold a socket; of the others `NullEntries` says that
they come from a failed `new` where a connection was accepted. None of these
is inductive. `NoDanglingFd` needs to know that temporary files are private and
a session has a descriptor (`SessionsApart`), and that a connection in a listen
queue has no session and stands there once (`QueuesApart`), or `accept()` could
make a second session for it. `PollEntriesCurrent` needs the place of the walk
(`WalkInPlace`): the socket at work has no entry any more, and revents belong to
entries. `NeverStuck` needs that what `poll()` said of a listening socket stays
true until it is served (`ListenersReady`): nobody else accepts. `LoopInv` is
their conjunction, TLC checks it in `server_oom`, and the proof has a lemma for
each action, with the frame conditions (`InvFrame`, `OneSession`, `ActionInv`,
`DeleteInv`) stated once.

**Connections and service.** `ServiceProofs` proves `PollStillTrue`: what is
ready for a session only its own call takes away. Without `OutOfMemory` it
proves `HealthyStaysOpen` and `NoLeakedFd`; for the latter, that every number
the kernel has given out is accounted for, step by step. For clients that wait
for each answer (`~Pipelining`) it proves `OneUnderWay` and `NoRequestLost`; and
that `Server` implements `RequestResponse`. Each step of the loop makes one move,
or none, on one connection; `Fits(c)` says what a connection's session, request
and counters must be for the abstract connection to be where the mapping puts
it. With pipelining the two invariants do not hold: finding 2.

**Requests.** `RequestProofs` proves `TypeOK`, `PacketsDoNotMatter` and
`DecodesAsWhole`. The invariant `PacketsInv` says that the object agrees with the
one a single `recv()` of all that has arrived would have left: the same but for
the body's size while it is still decoded. Its step is that reading twice is
reading once. Where the header ends between the two, that is because a
terminator is looked for from the start until it is found. Where `dechunk` is in
the middle, it is because the loop leaves an object from which it goes on as it
would have gone on (`DechunkResumes`); the size it kept while it waited is not
looked at again (`DechunkIgnoresSize`). Both are by induction over the length of
the buffer, which shrinks in each turn. `DecodesAsWhole` is then about the
message read at once: turn by turn, what `dechunk` has before its position is the
data of the chunks so far, and what stands behind it is the body from the place
`Meaning` is at. That each end of a line, chunk and trailer is found at the same
place in both is most of the proof.

**Text.** `TextProofs` proves that `RequestText` receives requests as
`HTTPRequest` does (`TextRefines`), so that what is proved there holds here, and
`TextTypeOK`, `UploadExtracted`, `UriMeaning` and `EscapesRunOut`. An upload's buffer ends with the
body, by `DecodesAsWhole` and the object's sizes, and the places of the form in
the body are those in the buffer. `UriInv` says that after any number of turns of
`normalizeUri` each part stands for what it stood for at first, and every percent
sign in it still begins an escape that stands for none. For that, `Decoded` joins
over two texts where no escape spans both (`DecodedJoins`, by induction from the
end), and a turn replaces one escape by a character that is not a percent sign
(`TurnKeeps`); the loop looks from the start again, but everything before is plain
by then. The cut between the script's name and the path behind it
is at a slash, so that no escape spans it (`PartsEscaped`). `EscapesRunOut` holds of
uris with doubled slashes too: an erased slash was no part of an escape
(`ErasedEscaped`), so that `EscapesInv`, the parts have complete escapes that stand
for no other, holds from the construction on. A turn then leaves the escapes behind
the first one, two places further on (`TurnCounts`, a bijection).

**Handlers.** `HandlersProofs` proves `TypeOK`, `HeadGetsNoBody`, `Framed`,
`SomeTimeTrue` and that `Handlers` implements `FileStore`. `AnswersWell` is one
statement about a handler's step: its answer is right for what the session has
seen, and it did to the files what the answer promises. It is proved for each
method and each way out, and gives both the invariant and the refinement.
`HandlersInv` adds that what a waiting GET or HEAD has seen includes how its file
is now and how it was when `stat()` looked: this is what makes an answer from an
old look true at some time.

**Scripts.** `CgiProofs` proves `TypeOK`, `OneScript`, `ScriptsUndisturbed`,
`ScriptGetsBody` and `OutputKept`. A process of the server's is alive only while
the thread waits for it, so a `kill()` in the loop finds none. For `OutputKept`
an output is laid out: which line stands at which places, for any number of
fields (`LinesLaidOut`, `WrittenLaidOut`). From the places follow where the header
ends and which lines the search for a key finds (`HeaderEnds`, `FieldRead`), that
of a field said twice the last one counts in the script's sense and the server's
(`LastCounts`), and that the body is what is cut out behind (`BodyThere`).

**Configuration.** `ConfigProofs` proves `TypeOK`, `ParentsExist`, `Inherited`,
`OneCgiPath`, `EveryListenedServed` and `MostSpecificLocation`. The parser's stack
holds each block inside its parent (`StackNested`), a location that was stored has
its parent stored or open (`ParentsKnown`), and a server gets its root at its end
(`ServersRooted`). That the last prefix in the order of the map is the longest one
follows from the order of sequences. Completion is a recursive function over that
order: after any number of turns the locations before it have all they inherit and
those behind it only what they say (`TurnsTaken`), and a parent comes first, so
that one pass is enough (`CompletionInherits`). `FileInv` keeps each server that
was read next to the blocks the file has for it.

**Recursion.** The library's induction theorems take an operator as a parameter,
which the provers here cannot instantiate. `Recursion` states the same with sets
and functions: a set of numbers that holds 0 and each successor holds all; what
holds of smaller sizes, and therefore of each size, holds of all; a function that
is defined by what it is on something smaller exists, which the recursive
functions of the models need before anything can be said of their values.

Only model-checked: the four liveness properties, `RequestAnswered`,
`StopsUnlessIdle`, `PlainConstructed` and `AnsweredInTheEnd`. They rest on
fairness, and ENABLED is out of the prover's reach; of `PlainConstructed` the part
that does not, that the loop has an end to come to, is `EscapesRunOut`. The five runs that show a
disagreement are TLC's alone too: a counterexample is one instance.

## Not modelled

- The wording of headers, MIME types, the cutting of the start line and of
  header lines, `getHeaderParameter` and `isFormData`: a field is a symbol.
- `return` in the configuration, its numbers, addresses and comments. So neither
  the mark 4294967295 of `body_size` nor the cut of a port to 16 bits is seen.
- Failures to bind or listen at the start, which end the program before the
  loop; the command line.
- `std::bad_alloc` inside a handler, which is a 500; a `stat()` that fails for want
  of a permission; what is neither a file nor a directory (a fifo, on which `open()`
  would wait).
- Levels, the stream and the time stamps of the log.
- Of a script's environment all but CONTENT_LENGTH; its directory (it is not
  changed); the mapping of the output that an exception leaves behind.
- Processes other than the server that change the files.
- `HTTPRequest` gives no meaning to chunk sizes that make positions wrap: only
  that packets do not matter is checked of them. It has no trailer fields.
- Liveness under `OutOfMemory`: when the array cannot grow, `poll()` is called
  with no descriptors and no timeout.
- Build rules, example configuration and sites.

## Plan

Done: `Server`, `HTTPRequest`, `RequestText`, `ServerConfig`, `Handlers`, `Cgi`,
both refinements, and a proof of every safety property the passing runs check.

Left:

1. `Handlers` over `ServerConfig` and `RequestText`: the root of the location
   that a uri finds, `return`, the file below it; the location found with the
   raw uri against the file found with the decoded one.
2. `strToUInt`, ports and `body_size` as operators of a fixed width, against a
   reference definition.
3. Start lines and header lines as text, with the trailer of a chunked body.
