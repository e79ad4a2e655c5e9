----------------------------- MODULE Handlers ------------------------------
(***************************************************************************)
(* The handlers (srcs/handlers) and the files they share.  The loop of     *)
(* module Server constructs a handler as soon as a request is complete and *)
(* asks it for the response in a later round of poll(), when the socket    *)
(* can be written to.  In between, the other sessions' handlers may run.   *)
(* A GET, HEAD or POST handler has looked at its file when it was          *)
(* constructed (FileInfo); PUT and DELETE look when they answer.           *)
(*                                                                         *)
(* A file is known by its size, a response by its status, the length its   *)
(* header states and the length of the body that is sent.  A path is the   *)
(* sequence of its names below the root of the location.                   *)
(***************************************************************************)
EXTENDS Integers, Sequences, FiniteSets, SequencesExt

CONSTANTS
  Sessions,
  Paths,          \* with every path the directories it lies in
  Bla,            \* the paths with the file type "bla", which has rules of its own
  Requests,       \* what a client may ask for: see RequestsAssumption
  Stores,         \* the contents of the file system to start from
  CgiResults,     \* the statuses and sizes a script may answer with
  Denials,        \* sets of paths that calls fail on: see FilesAssumption
  BuiltInPage,    \* the size of an error page that is not configured
  Listing,        \* the size of a directory listing
  DiskMayFill,    \* may the disk be full?
  BufferSize      \* what std::ofstream holds back until it is closed

Kinds == {"none", "file", "dir", "error"}
Entries == [kind : Kinds, size : Nat, readable : BOOLEAN]
NotThere == [kind |-> "none", size |-> 0, readable |-> FALSE]
Unreachable == [kind |-> "error", size |-> 0, readable |-> FALSE]
Directory == [kind |-> "dir", size |-> 4, readable |-> TRUE]
File(size) == [kind |-> "file", size |-> size, readable |-> TRUE]

\* What may be at the paths: files lie in directories.
FileSystems ==
  {st \in [Paths -> Entries] :
     /\ \A p \in Paths : st[p].kind # "error"
     /\ \A p, q \in Paths :
          IsStrictPrefix(p, q) /\ st[q].kind # "none" => st[p].kind = "dir"}

\* A request as its handler sees it.  loc is the Location: its methods, the
\* status of a redirect or 0, the limit of a body or 0, the index names, the
\* paths its cgi types match, the error pages.  size is the length of the
\* body.  form tells whether the body is form data and what module RequestText
\* reads in it; part is the length of the part of it that would be stored, and
\* file what it would be stored as.
ASSUME RequestsAssumption ==
  \A r \in Requests :
    /\ r.method \in {"GET", "HEAD", "POST", "PUT", "DELETE", "OTHER"}
    /\ r.path \in Paths /\ r.file \in Paths
    /\ r.size \in Nat /\ r.part \in 0..r.size
    /\ r.http11 \in BOOLEAN /\ r.atLocation \in BOOLEAN
    /\ r.form \in {"none", "broken", "crossed", "whole"}
    /\ r.loc.methods \subseteq {"GET", "HEAD", "POST", "PUT", "DELETE"}
    /\ r.loc.redirect \in {0} \union 300..399 /\ r.loc.limit \in Nat
    /\ r.loc.autoindex \in BOOLEAN
    /\ r.loc.cgi \subseteq Paths
    /\ \A status \in DOMAIN r.loc.pages : r.loc.pages[status] \in Paths

\* A denial is a set of paths on which open(2), opendir(2), remove(3) and
\* rmdir(2) fail while a request is answered though what is there would let
\* them: all paths for want of a descriptor, some for want of a permission,
\* which the owner's bit in FileInfo does not tell.
ASSUME FilesAssumption ==
  /\ \A p \in Paths : p # <<>>
  /\ BuiltInPage \in Nat /\ Listing \in Nat /\ BufferSize \in Nat
  /\ DiskMayFill \in BOOLEAN /\ Bla \subseteq Paths /\ Denials \subseteq SUBSET Paths
  /\ CgiResults \subseteq [status : 200..599, size : Nat]
  /\ \A st \in Stores : st \in FileSystems

VARIABLES
  store,     \* what is at each path
  session    \* for each session its request, handler and response

vars == <<store, session>>

-----------------------------------------------------------------------------
(* The file system.                                                        *)

Above(p) == {q \in Paths : IsStrictPrefix(q, p)}

\* FileInfo: stat(2).
Stat(st, p) ==
  IF p \notin Paths THEN NotThere
  ELSE IF \E q \in Above(p) : st[q].kind = "file" THEN Unreachable
  ELSE st[p]

\* S_ISREG and S_IRUSR of what stat(2) tells.
IsReadableFile(st, p) == Stat(st, p).kind = "file" /\ Stat(st, p).readable

\* std::ifstream::open
OpensToRead(st, p, denied) == Stat(st, p).kind = "file" /\ p \notin denied

\* std::ofstream::open: the file is there, or its directory is.
OpensToWrite(st, p, denied) ==
  /\ p \notin denied
  /\ \/ Stat(st, p).kind = "file"
     \/ Stat(st, p).kind = "none" /\ \A q \in Above(p) : st[q].kind = "dir"

\* How much of a body of some size reaches the disk.
Writing(size) == IF DiskMayFill THEN 0..size ELSE {size}

\* good() after write() tells that not all did, unless the stream still holds
\* the body and writes it when the file is closed.
Noticed(size, kept) == kept < size /\ size > BufferSize

Written(st, p, kept) ==
  [st EXCEPT ![p] = [kind |-> "file", size |-> kept,
                     readable |-> @.kind = "none" \/ @.readable]]

-----------------------------------------------------------------------------
(* Responses.                                                              *)

Response(status, length, body) == [status |-> status, length |-> length, body |-> body]

\* The body is left out for HEAD.
Unless(r, size) == IF r.method = "HEAD" THEN 0 ELSE size

\* A variant of Error: it sends the page whatever the method.
ErrorWithBody(st, r, status, denied) ==
  IF status = 204 THEN Response(204, 0, 0) ELSE Response(status, BuiltInPage, BuiltInPage)

\* AHandler::error: a status without an answer of its own, errors and others.
Error(st, r, status, denied) ==
  LET page == IF status \in DOMAIN r.loc.pages THEN r.loc.pages[status] ELSE <<>>
      size == IF page \in Paths /\ OpensToRead(st, page, denied) /\ st[page].size > 0
              THEN st[page].size ELSE BuiltInPage
  IN  IF status = 204 THEN Response(204, 0, 0) ELSE Response(status, size, Unless(r, size))

\* ACgiHandler::runCgi: the temporary files or fork() fail; the script is
\* killed or its header does not end; or it answers.
RunCgi(r, denied) ==
  {Error(store, r, status, denied) : status \in {500, 502}} \union
    {Response(c.status, c.size, Unless(r, c.size)) : c \in CgiResults}

-----------------------------------------------------------------------------
(* The sessions.                                                           *)

Idle == [state |-> "idle"]

Init ==
  /\ store \in Stores
  /\ session = [s \in Sessions |-> Idle]

\* A variant of Look: the uri is not known yet, the root is looked at.
LookBeforeUri(r) == IF r.method \in {"GET", "HEAD", "POST"} THEN Directory ELSE NotThere

\* ACgiHandler::ACgiHandler
Look(r) == IF r.method \in {"GET", "HEAD", "POST"} THEN Stat(store, r.path) ELSE NotThere

\* The requests that ask what a file holds; for them there is a history: what
\* has been at the path since the request, and whether the path was denied.
Reads(r) == r.method \in {"GET", "HEAD"}

\* Server::handleRequest: the handler is constructed.
HandleRequest(s, r) ==
  /\ session[s] = Idle
  /\ session' = [session EXCEPT ![s] =
                  [state |-> "handled", req |-> r, info |-> Look(r),
                   seen |-> IF Reads(r) THEN {Stat(store, r.path)} ELSE {}]]
  /\ UNCHANGED store

\* Session s gets its response and the files become st.  Everybody else who
\* waits for a response has now also seen what is there.
Answer(s, denied, response, st) ==
  /\ store' = st
  /\ session' = [t \in Sessions |->
       IF t = s
       THEN [state |-> "answered", req |-> session[s].req, seen |-> session[s].seen,
             denied |-> Reads(session[s].req) /\ session[s].req.path \in denied,
             response |-> response]
       ELSE IF session[t].state = "handled" /\ Reads(session[t].req)
       THEN [session[t] EXCEPT !.seen = @ \union {Stat(st, session[t].req.path)}]
       ELSE session[t]]

\* An answer of AHandler::error, which leaves the files alone.
Fail(s, denied, status) ==
  Answer(s, denied, Error(store, session[s].req, status, denied), store)

\* A variant of Redirected: the test is the wrong way round.
RedirectedInverted(r) == r.loc.redirect = 0

Known(r) == r.method # "OTHER"
Redirected(r) == r.loc.redirect # 0
Allowed(r) == ~Redirected(r) /\ r.http11 /\ r.method \in r.loc.methods

\* SessionSocket::write calls makeResponse: no handler of the method, a
\* redirect, or a request that may not be made here.
Refuse(s, denied) ==
  /\ session[s].state = "handled"
  /\ LET r == session[s].req
     IN  \/ ~Known(r) /\ Fail(s, denied, 501)
         \/ /\ Known(r) /\ Redirected(r)
            /\ Answer(s, denied, Response(r.loc.redirect, 0, 0), store)
         \/ Known(r) /\ ~Redirected(r) /\ ~r.http11 /\ Fail(s, denied, 505)
         \/ /\ Known(r) /\ ~Redirected(r) /\ r.http11 /\ r.method \notin r.loc.methods
            /\ Fail(s, denied, 405)

\* makeResponse calls handle() of the handler of one of these methods.
Handles(s, methods) ==
  /\ session[s].state = "handled"
  /\ session[s].req.method \in methods /\ Allowed(session[s].req)

\* The script is one of the request's path, the type that of the file at p.
RunsScript(r, p) == r.path \in r.loc.cgi /\ p \notin Bla

\* GetHandler::getFile of the file at p, the request's or an index file, with
\* the size info remembers.
GetFile(r, info, p, denied) ==
  IF RunsScript(r, p) THEN RunCgi(r, denied)
  ELSE {IF ~OpensToRead(store, p, denied) THEN Error(store, r, 500, denied)
        ELSE IF info.size = 0 THEN Error(store, r, 204, denied)
        ELSE Response(200, info.size, Unless(r, store[p].size))}

\* The first of the index names that is a readable file of the directory.
IndexFiles(r) ==
  {p \in {Append(r.path, r.loc.index[i]) : i \in DOMAIN r.loc.index} :
     IsReadableFile(store, p)}
IndexFile(r) ==
  LET i == CHOOSE i \in DOMAIN r.loc.index :
             /\ Append(r.path, r.loc.index[i]) \in IndexFiles(r)
             /\ \A j \in 1..(i - 1) : Append(r.path, r.loc.index[j]) \notin IndexFiles(r)
  IN  Append(r.path, r.loc.index[i])

\* A variant of GetDirectory: the FileInfo stays that of the directory.
GetDirectoryKeepsInfo(r, info, denied) ==
  IF IndexFiles(r) # {} THEN GetFile(r, info, IndexFile(r), denied)
  ELSE {Error(store, r, 404, denied)}

\* GetHandler::getDirectory, and getAutoindex, whose opendir() may fail.
GetDirectory(r, info, denied) ==
  IF IndexFiles(r) # {} THEN GetFile(r, Stat(store, IndexFile(r)), IndexFile(r), denied)
  ELSE {IF ~r.loc.autoindex THEN Error(store, r, 404, denied)
        ELSE IF Stat(store, r.path).kind # "dir" \/ r.path \in denied
        THEN Error(store, r, 500, denied)
        ELSE Response(200, Listing, Unless(r, Listing))}

\* The responses GetHandler::handle may make.
Got(r, info, denied) ==
  IF info.kind = "none" THEN {Error(store, r, 404, denied)}
  ELSE IF ~info.readable THEN {Error(store, r, 403, denied)}
  ELSE IF info.kind = "file" THEN GetFile(r, info, r.path, denied)
  ELSE GetDirectory(r, info, denied)

Get(s, denied) ==
  /\ Handles(s, {"GET", "HEAD"})
  /\ \E response \in Got(session[s].req, session[s].info, denied) :
       Answer(s, denied, response, store)

\* A variant of Creates: it asks when the file has been opened already.
CreatesLate(r) == FALSE

\* PutHandler::handle looks whether the file is new before it opens it.
Creates(r) == Stat(store, r.path).kind = "none"

\* PutHandler::handle
Put(s, denied) ==
  /\ Handles(s, {"PUT"})
  /\ LET r == session[s].req
     IN  \/ ~OpensToWrite(store, r.path, denied) /\ Fail(s, denied, 403)
         \/ /\ OpensToWrite(store, r.path, denied)
            /\ \E kept \in Writing(r.size) :
                 LET st == Written(store, r.path, kept)
                     status == IF Noticed(r.size, kept) THEN 500
                               ELSE IF Creates(r) THEN 201 ELSE 200
                 IN  Answer(s, denied, Error(st, r, status, denied), st)

\* PostHandler::postFile: something has the name of the upload.
FileTaken(s) == Stat(store, session[s].req.file).kind # "none"

\* PostHandler::postFile
PostFile(s, r, denied) ==
  IF r.form = "broken" THEN Fail(s, denied, 400)
  ELSE IF FileTaken(s) THEN Fail(s, denied, 409)
  ELSE IF ~OpensToWrite(store, r.file, denied) THEN Fail(s, denied, 403)
  ELSE \E kept \in IF r.form = "crossed" THEN {0} ELSE Writing(r.part) :
         LET st == Written(store, r.file, kept)
         IN  Answer(s, denied,
                    IF r.form = "crossed" \/ Noticed(r.part, kept)
                    THEN Error(st, r, 500, denied)
                    ELSE Response(201, BuiltInPage, BuiltInPage), st)

\* PostHandler::handle of a script.
PostCgi(s, r, info, denied) ==
  IF r.path \notin Bla /\ info.kind = "none" THEN Fail(s, denied, 404)
  ELSE IF r.path \notin Bla /\ ~(info.readable /\ info.kind = "file")
  THEN Fail(s, denied, 403)
  ELSE \E response \in RunCgi(r, denied) : Answer(s, denied, response, store)

\* PostHandler::handle
Post(s, denied) ==
  /\ Handles(s, {"POST"})
  /\ LET r == session[s].req
     IN  IF r.loc.limit # 0 /\ r.size > r.loc.limit THEN Fail(s, denied, 413)
         ELSE IF r.size = 0 THEN Fail(s, denied, 204)
         ELSE IF r.path \in r.loc.cgi THEN PostCgi(s, r, session[s].info, denied)
         ELSE IF r.form = "none" THEN Fail(s, denied, 202)
         ELSE IF ~r.atLocation THEN Fail(s, denied, 404)
         ELSE PostFile(s, r, denied)

\* rmdir(2) wants an empty directory.
Empty(p) == \A q \in Paths : IsStrictPrefix(p, q) => store[q].kind = "none"

\* remove(3) or rmdir(2) has succeeded.
Removed(p) == [store EXCEPT ![p] = NotThere]

\* DeleteHandler::handle: EACCES, any other error, a directory with something
\* in it, and what is neither a file nor a directory.
Delete(s, denied) ==
  /\ Handles(s, {"DELETE"})
  /\ LET r == session[s].req
         info == Stat(store, r.path)
     IN  IF info.kind = "none" THEN Fail(s, denied, 404)
         ELSE IF info.kind \notin {"file", "dir"} THEN Fail(s, denied, 403)
         ELSE IF r.path \in denied THEN Fail(s, denied, 403) \/ Fail(s, denied, 500)
         ELSE IF info.kind = "dir" /\ ~Empty(r.path) THEN Fail(s, denied, 409)
         ELSE Answer(s, denied, Response(204, 0, 0), Removed(r.path))

\* The response is sent, or the connection breaks before or after it is made.
Over(s) ==
  /\ session[s] # Idle
  /\ session' = [session EXCEPT ![s] = Idle]
  /\ UNCHANGED store

\* SessionSocket::write makes the response.
Makes(s) == \E denied \in Denials :
  Refuse(s, denied) \/ Get(s, denied) \/ Put(s, denied) \/ Post(s, denied) \/ Delete(s, denied)

Next == \E s \in Sessions :
  \/ \E r \in Requests : HandleRequest(s, r)
  \/ Makes(s)
  \/ Over(s)

Spec == Init /\ [][Next]_vars

-----------------------------------------------------------------------------
(* Properties.                                                             *)

Responses == [status : 200..599, length : Nat, body : Nat]
Waiting == [state : {"handled"}, req : Requests, info : Entries, seen : SUBSET Entries]
Done == [state : {"answered"}, req : Requests, seen : SUBSET Entries, denied : BOOLEAN,
         response : Responses]

Answered(s) == session[s].state = "answered"

\* What a look at the request's file would have shown, at some moment
\* between the request and its answer.
Seen(s, Is(_)) == \E info \in session[s].seen : Is(info)

\* The type invariant; and files lie in directories.
TypeOK ==
  /\ store \in FileSystems
  /\ session \in [Sessions -> {Idle} \union Waiting \union Done]

\* A HEAD request gets no body, in whatever way it is answered: the client
\* would take it for the next response.
HeadGetsNoBody ==
  \A s \in Sessions :
    Answered(s) /\ session[s].req.method = "HEAD" => session[s].response.body = 0

\* The body is as long as its header says, for every request but a GET whose
\* file changed between the construction of its handler and the response.
Framed ==
  \A s \in Sessions :
    /\ Answered(s) /\ session[s].req.method # "HEAD" /\ Cardinality(session[s].seen) <= 1
    => session[s].response.length = session[s].response.body

\* What a GET says of its file was so at some moment since the request: it was
\* not there, its owner might not read it, it was empty or as long as the
\* header says.  The only other status is 500, for a file that went away in
\* between, or that the kernel would not open for the server although its
\* owner may read it.  A directory may also lack its index, and a script
\* answers for itself.
SomeTimeTrue ==
  \A s \in Sessions :
    LET r == session[s].req
        Directly == ~RunsScript(r, r.path) /\ ~\E info \in session[s].seen : info.kind = "dir"
    IN  Answered(s) /\ Reads(r) /\ Allowed(r) /\ Directly =>
          CASE session[s].response.status = 404 -> Seen(s, LAMBDA i : i.kind = "none")
            [] session[s].response.status = 403 -> Seen(s, LAMBDA i : ~i.readable)
            [] session[s].response.status = 204 -> Seen(s, LAMBDA i : i.kind = "file" /\ i.size = 0)
            [] session[s].response.status = 200 ->
                 Seen(s, LAMBDA i : i.kind = "file" /\ i.size = session[s].response.length)
            [] OTHER ->
                 /\ session[s].response.status = 500
                 /\ session[s].denied \/ Seen(s, LAMBDA i : i.kind # "file")

\* The handlers implement FileStore: what an answer says of the files was
\* done, in one step, and nothing else was; a full disk cuts off no file but
\* the one that is being stored.
FS == INSTANCE FileStore WITH
        Clients <- Sessions, files <- store,
        Scripted <- {r \in Requests : r.method = "POST" /\ r.path \in r.loc.cgi},
        answer <- [s \in Sessions |->
                    IF session[s].state = "answered"
                    THEN [given |-> TRUE, req |-> session[s].req,
                          status |-> session[s].response.status]
                    ELSE [given |-> FALSE]]
ImplementsFileStore == FS!Spec
=============================================================================
